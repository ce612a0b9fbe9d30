------------------------------ MODULE SlipOutput ------------------------------
(***************************************************************************)
(* The output half of examples/6lbr/platform/native/slip-dev.c: frames are *)
(* collected in slip_buf and written to the serial line a part at a time,  *)
(* whenever select() says that it takes more.                              *)
(***************************************************************************)
EXTENDS SlipBytes

CONSTANT BufSize      \* sizeof slip_buf

ASSUME BufSizeAssumption == BufSize \in Nat \ {0}

VARIABLES
  slipBuf,       \* slip_buf[0 .. slip_end)
  slipBegin,     \* slip_begin
  packetEnd,     \* slip_packet_end, 0 when no packet is complete
  packetCount,   \* slip_packet_count
  exited         \* the program has ended: "slip_send overflow"

outputVars == <<slipBuf, slipBegin, packetEnd, packetCount, exited>>

\* slip_init_dev() sends one SLIP_END.
OutputInit ==
  /\ slipBuf = <<END>>
  /\ slipBegin = 0
  /\ packetEnd = 1
  /\ packetCount = 1
  /\ exited = FALSE

\* write_to_slip(): slip_send() of each byte, the last one completes a packet.
WriteBytes(frame) ==
  LET end == Len(slipBuf) + Len(Encode(frame))
  IN  /\ ~exited
      /\ end <= BufSize
      /\ slipBuf' = slipBuf \o Encode(frame)
      /\ packetCount' = packetCount + 1
      /\ packetEnd' = IF packetEnd = 0 THEN end ELSE packetEnd
      /\ UNCHANGED <<slipBegin, exited>>

\* slip_send() ends the program when slip_buf is full.
Overflow(frame) ==
  /\ ~exited
  /\ Len(slipBuf) + Len(Encode(frame)) > BufSize
  /\ exited' = TRUE
  /\ UNCHANGED <<slipBuf, slipBegin, packetEnd, packetCount>>

\* The end of the next packet when the first was written; the search starts
\* behind the first byte.
NextPacketEnd_Forgotten(rest) == 0
NextPacketEnd(rest) ==
  SelectInSubSeq(rest, 2, Len(rest), LAMBDA b : b = END)

\* slip_flushbuf(), of which write() takes n bytes.  (memcpy() moves what
\* remains although source and destination may overlap: taken to do what
\* memmove() does.)
Flush(n) ==
  LET rest == SubSeq(slipBuf, packetEnd + 1, Len(slipBuf))
  IN  /\ ~exited
      /\ packetEnd # 0
      /\ n \in 1 .. packetEnd - slipBegin
      /\ IF slipBegin + n = packetEnd
         THEN /\ slipBuf' = rest
              /\ slipBegin' = 0
              /\ packetCount' = packetCount - 1
              /\ packetEnd' = NextPacketEnd(rest)
         ELSE /\ slipBegin' = slipBegin + n
              /\ UNCHANGED <<slipBuf, packetCount, packetEnd>>
      /\ UNCHANGED exited

Flushed(n) == SubSeq(slipBuf, slipBegin + 1, slipBegin + n)
=============================================================================
