------------------------------ MODULE SerialLine ------------------------------
(***************************************************************************)
(* The way of a frame from the border router to a slip radio, byte by      *)
(* byte: slip-dev.c (SlipOutput), the line, and the radio's SLIP driver    *)
(* (SlipDriver).  SlipLink and the modules over it take this way for a     *)
(* queue of whole frames; here it is seen when it is one.                  *)
(***************************************************************************)
EXTENDS SlipOutput, SlipDriver

CONSTANTS
  RawFrames,    \* frames written, as bytes
  MaxInFlight,  \* bound: frames written and not yet read
  LineBytes     \* bytes that write() takes before the radio receives one

ASSUME RawFramesAssumption == RawFrames \subseteq Seq(0 .. 255) \ {<< >>}
\* A frame of the border router fits in the uip_buf of the radio.
ASSUME FramesFitAssumption == \A f \in RawFrames : Len(f) <= OutSize
ASSUME LineBytesAssumption == LineBytes \in Nat \ {0}
ASSUME MaxInFlightAssumption == MaxInFlight \in Nat

VARIABLES
  line,       \* bytes written that the radio has not received
  pending,    \* history: frames written that the radio has not read
  undisturbed \* history: no byte was discarded as rubbish, and no SLIP_END
              \* came after the handler's last look at the ring

serialVars == <<outputVars, driverVars, line, pending, undisturbed>>

SerialInit ==
  /\ OutputInit
  /\ DriverInit
  /\ line = << >>
  /\ pending = << >>
  /\ undisturbed = TRUE

Write(frame) ==
  /\ Len(pending) < MaxInFlight
  /\ \/ WriteBytes(frame) /\ pending' = Append(pending, frame)
     \/ Overflow(frame) /\ UNCHANGED pending
  /\ UNCHANGED <<driverVars, line, undisturbed>>

FlushBuf ==
  /\ \E n \in 1 .. LineBytes - Len(line) :
       Flush(n) /\ line' = line \o Flushed(n)
  /\ UNCHANGED <<driverVars, pending, undisturbed>>

\* The interrupt of the radio's serial port.
Receive ==
  /\ line # << >>
  /\ InputByte(Head(line))
  /\ line' = Tail(line)
  /\ undisturbed' = (undisturbed /\ state' # "RUBBISH" /\ ~(pc = "empty" /\ Head(line) = END))
  /\ UNCHANGED <<outputVars, pending>>

SlipProcess ==
  /\ \/ PollHandler /\ UNCHANGED pending
     \/ /\ Deliver
        /\ pending' = IF out = << >> \/ pending = << >> THEN pending ELSE Tail(pending)
  /\ UNCHANGED <<outputVars, line, undisturbed>>

SerialNext == (\E f \in RawFrames : Write(f)) \/ FlushBuf \/ Receive \/ SlipProcess

\* The border router's main loop, the serial port and the radio's scheduler
\* go on.
SerialSpec == SerialInit /\ [][SerialNext]_serialVars
FairSerialSpec ==
  SerialSpec /\ WF_serialVars(FlushBuf) /\ WF_serialVars(Receive) /\ WF_serialVars(SlipProcess)

-----------------------------------------------------------------------------

Bytes == 0 .. 255

SerialTypeOK ==
  /\ slipBuf \in Seq(Bytes) /\ Len(slipBuf) <= BufSize
  /\ slipBegin \in 0 .. BufSize /\ packetEnd \in 0 .. BufSize
  /\ packetCount \in Nat /\ exited \in BOOLEAN
  /\ rxbuf \in [Ring -> Bytes]
  /\ {begin, nextFree, pktEnd, found} \subseteq Ring
  /\ state \in {"OK", "ESC", "RUBBISH"} /\ needspoll \in BOOLEAN
  /\ pc \in {"idle", "skip", "scan", "more", "begin", "empty", "deliver"}
  /\ out \in Seq(Bytes)
  /\ line \in Seq(Bytes) /\ Len(line) <= LineBytes
  /\ pending \in Seq(RawFrames) /\ Len(pending) <= MaxInFlight
  /\ undisturbed \in BOOLEAN

\* The bookkeeping of slip-dev.c: slip_packet_end is the end of the first
\* packet that is not written out, so a partial write never splits or merges
\* packets and none is left behind, and slip_packet_count counts them.
OutputSound ==
  /\ SerialTypeOK
  /\ packetEnd = SelectInSubSeq(slipBuf, slipBegin + 1, Len(slipBuf), LAMBDA b : b = END)
  /\ packetEnd = 0 => slipBuf = << >>
  /\ packetCount = Cardinality({k \in 1 .. Len(slipBuf) : slipBuf[k] = END})

\* "Interrupt can not change begin but may change pkt_end.  If pkt_end != begin
\* it will not change again." (core/dev/slip.c): the interrupt does not write
\* to a packet that slip_poll_handler() may be copying, nor moves its ends.
PacketIntact ==
  [][undisturbed /\ begin # pktEnd /\ pc \in {"idle", "skip"} /\ UNCHANGED pc =>
       /\ begin' = begin /\ pktEnd' = pktEnd
       /\ \A k \in Between(begin, pktEnd) : rxbuf'[k] = rxbuf[k]]_serialVars

\* Frames arrive whole and in the order in which they were written, unless
\* bytes were discarded or a SLIP_END came at the wrong moment.
FramesInOrder ==
  undisturbed /\ pc = "deliver" => pending # << >> /\ out = Head(pending)

\* Every frame written is read, unless the program ends or the above happens:
\* no part of one is left in slip_buf, and slip_process is polled once more
\* for each packet in the ring.
EveryFrameArrives ==
  pending # << >> ~> pending = << >> \/ pc = "deliver" \/ exited \/ ~undisturbed
=============================================================================
