------------------------------ MODULE SlipBytes ------------------------------
(***************************************************************************)
(* SLIP framing, as both ends of the serial line do it: a frame is escaped *)
(* and ends with SLIP_END.  Neither end is configured for checksums        *)
(* (SIXLBR_CONFIG_DEFAULT_SLIP_CRC8 and SLIP_CONF_CRC_ON are 0).           *)
(***************************************************************************)
EXTENDS Integers, SequencesExt

END == 192       \* SLIP_END
ESC == 219       \* SLIP_ESC
ESC_END == 220   \* SLIP_ESC_END
ESC_ESC == 221   \* SLIP_ESC_ESC

Escape(b) ==
  CASE b = END -> <<ESC, ESC_END>>
    [] b = ESC -> <<ESC, ESC_ESC>>
    [] OTHER   -> <<b>>

\* What write_to_slip() makes of a frame.
Encode(frame) == FlattenSeq([k \in DOMAIN frame |-> Escape(frame[k])]) \o <<END>>

\* What slip_poll_handler() makes of the bytes of a packet.
Decode(bytes) ==
  FlattenSeq([k \in DOMAIN bytes |->
    IF k > 1 /\ bytes[k - 1] = ESC
    THEN IF bytes[k] = ESC_END THEN <<END>>
         ELSE IF bytes[k] = ESC_ESC THEN <<ESC>> ELSE << >>
    ELSE IF bytes[k] = ESC THEN << >> ELSE <<bytes[k]>>])
=============================================================================
