------------------------------ MODULE SlipDriver ------------------------------
(***************************************************************************)
(* The receiving half of core/dev/slip.c, the SLIP driver of the slip      *)
(* radio: slip_input_byte() runs in the interrupt of the serial port, at   *)
(* any point of slip_process, whose slip_poll_handler() takes packets out  *)
(* of the ring.  The handler's accesses to begin, pkt_end and next_free    *)
(* are steps of their own.  It copies a packet in one step, because until  *)
(* bytes are discarded no interrupt writes to the part of the ring it      *)
(* copies (PacketIntact), and searches [pkt_end, next_free) in one step,   *)
(* because the interrupt only writes behind it.                            *)
(***************************************************************************)
EXTENDS SlipBytes

CONSTANTS
  RxSize,     \* RX_BUFSIZE
  OutSize     \* blen, the room of outbuf

ASSUME RxSizeAssumption == RxSize \in Nat /\ RxSize > 2
ASSUME OutSizeAssumption == OutSize \in Nat

VARIABLES
  rxbuf,      \* the ring
  begin,      \* the first used byte
  nextFree,   \* one past the last used byte
  pktEnd,     \* the SLIP_END of the first packet, or begin when there is none
  state,      \* STATE_OK, STATE_ESC or STATE_RUBBISH
  needspoll,  \* is slip_process to be polled?
  pc,         \* where slip_process is
  out,        \* outbuf: the packet copied
  found       \* cur_ptr (the SLIP_END the handler found), then tmp_begin

driverVars == <<rxbuf, begin, nextFree, pktEnd, state, needspoll, pc, out, found>>

Ring == 0 .. RxSize - 1
Succ(k) == (k + 1) % RxSize
Distance(j, k) == (k - j) % RxSize
Between(j, k) == {i \in Ring : Distance(j, i) < Distance(j, k)}
RingBytes_WithEnd(j, k) ==
  [i \in 1 .. Distance(j, k) + 1 |-> rxbuf[(j + i - 1) % RxSize]]
RingBytes(j, k) == [i \in 1 .. Distance(j, k) |-> rxbuf[(j + i - 1) % RxSize]]

\* "if(len > blen) { len = 0; break; }", before each byte: a packet that does
\* not fit is dropped.  When the check stops the first of the two loops over
\* a packet that wraps around, the second one copies what is left of it.
Overruns(bytes) == bytes # << >> /\ Len(Decode(Front(bytes))) > OutSize
Copied(j, k) ==
  LET fitting(bytes) == IF Overruns(bytes) THEN << >> ELSE Decode(bytes)
  IN  IF j > k /\ Overruns(RingBytes(j, 0))
      THEN fitting(RingBytes(0, k))
      ELSE fitting(RingBytes(j, k))

\* rxbuf_init(); the ring is in static memory.
DriverInit ==
  /\ rxbuf = [k \in Ring |-> 0]
  /\ begin = 0
  /\ nextFree = 0
  /\ pktEnd = 0
  /\ state = "OK"
  /\ needspoll = FALSE
  /\ pc = "idle"
  /\ out = << >>
  /\ found = 0

\* "remove rubbish"
RemoveRubbish ==
  /\ state' = "RUBBISH"
  /\ nextFree' = pktEnd
  /\ UNCHANGED <<rxbuf, pktEnd, needspoll>>

BadEscape(c) == state = "ESC" /\ c \notin {ESC_END, ESC_ESC}
RingFull == Succ(nextFree) = begin

\* A packet that is not empty: the first one of the ring is announced to
\* slip_poll_handler() by pkt_end, others it finds for itself.
EndOfPacket_AlwaysFirst ==
  /\ pktEnd' = nextFree
  /\ needspoll' = TRUE
  /\ nextFree' = Succ(nextFree)
EndOfPacket ==
  IF nextFree # pktEnd
  THEN /\ pktEnd' = IF begin = pktEnd THEN nextFree ELSE pktEnd
       /\ needspoll' = TRUE
       /\ nextFree' = Succ(nextFree)
  ELSE UNCHANGED <<pktEnd, needspoll, nextFree>>

Stores(c) == ~BadEscape(c) /\ ~RingFull

\* slip_input_byte()
InputByte(c) ==
  /\ \/ /\ state = "RUBBISH"
        /\ state' = IF c = END THEN "OK" ELSE "RUBBISH"
        /\ UNCHANGED <<rxbuf, nextFree, pktEnd, needspoll>>
     \/ /\ state # "RUBBISH"
        /\ ~Stores(c)
        /\ RemoveRubbish
     \/ /\ state # "RUBBISH"
        /\ Stores(c)
        /\ state' = IF c = ESC THEN "ESC" ELSE "OK"
        /\ rxbuf' = [rxbuf EXCEPT ![nextFree] = c]
        /\ IF c = END
           THEN EndOfPacket
           ELSE nextFree' = Succ(nextFree) /\ UNCHANGED <<pktEnd, needspoll>>
  /\ UNCHANGED <<begin, pc, out, found>>

\* slip_poll_handler() begins: the packet [begin, pkt_end) is copied.
PollCopy ==
  /\ pc = "idle"
  /\ needspoll
  /\ needspoll' = FALSE
  /\ IF begin # pktEnd
     THEN out' = Copied(begin, pktEnd) /\ pc' = "skip"
     ELSE UNCHANGED <<out, pc>>
  /\ UNCHANGED <<rxbuf, begin, nextFree, pktEnd, state, found>>

\* pkt_end moves past the packet's SLIP_END.
PollSkip ==
  /\ pc = "skip"
  /\ pktEnd' = Succ(pktEnd)
  /\ pc' = "scan"
  /\ UNCHANGED <<rxbuf, begin, nextFree, state, needspoll, out, found>>

\* It looks for another SLIP_END up to where next_free is at this moment.
PollScan ==
  LET ends == {k \in Between(pktEnd, nextFree) : rxbuf[k] = END}
  IN  /\ pc = "scan"
      /\ IF ends = {}
         THEN pc' = "empty" /\ UNCHANGED found
         ELSE /\ found' \in ends
              /\ \A k \in ends : Distance(pktEnd, found') <= Distance(pktEnd, k)
              /\ pc' = "more"
      /\ UNCHANGED <<rxbuf, begin, nextFree, pktEnd, state, needspoll, out>>

\* "One more packet is buffered, need to be polled again!"
PolledAgain_Forgotten == needspoll
PolledAgain == TRUE

\* One more packet: pkt_end first, then begin, so that the interrupt never
\* sees them equal.
PollMore ==
  \/ /\ pc = "more"
     /\ pktEnd' = found
     /\ found' = pktEnd
     /\ pc' = "begin"
     /\ UNCHANGED <<rxbuf, begin, nextFree, state, needspoll, out>>
  \/ /\ pc = "begin"
     /\ begin' = found
     /\ needspoll' = PolledAgain
     /\ pc' = "deliver"
     /\ UNCHANGED <<rxbuf, nextFree, pktEnd, state, out, found>>

\* No more packet: the ring holds the beginning of one at most.
PollEmpty ==
  /\ pc = "empty"
  /\ begin' = pktEnd
  /\ pc' = "deliver"
  /\ UNCHANGED <<rxbuf, nextFree, pktEnd, state, needspoll, out, found>>

\* input_callback(), for a packet of at least one byte.
Deliver ==
  /\ pc = "deliver"
  /\ pc' = "idle"
  /\ out' = << >>
  /\ UNCHANGED <<rxbuf, begin, nextFree, pktEnd, state, needspoll, found>>

PollHandler == PollCopy \/ PollSkip \/ PollScan \/ PollMore \/ PollEmpty
=============================================================================
