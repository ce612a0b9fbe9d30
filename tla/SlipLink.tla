------------------------------ MODULE SlipLink ------------------------------
(***************************************************************************)
(* The serial lines between the border router and its slip radios: frames  *)
(* "!S sid ..." written by write_to_slip() on the way down, and reports    *)
(* "!R sid status tx" on the way up, in order on each line.  The radio     *)
(* (examples/ipv6/slip-radio) sends one frame at a time over nullmac and   *)
(* nullrdc and reports on it before it reads the next one.  On a lossy     *)
(* line a frame or a report with a bad checksum disappears, and a frame    *)
(* whose attributes do not parse is dropped without a report.              *)
(***************************************************************************)
EXTENDS Sequences, Naturals

CONSTANTS
  Radios,       \* the interfaces that have a slip radio
  LineBound,    \* frames and reports on one line; a frame that finds the
                \* line full is lost
  Lossy         \* do the lines lose anything else?

VARIABLES
  down,     \* [Radios -> Seq([sid, frame])]
  up        \* [Radios -> Seq([sid, frame])]: the status and the number of
            \* transmissions are chosen when the report is read

linkVars == <<down, up>>

\* What nullrdc can report of a frame.
RadioStatus == {"OK", "NOACK", "COLLISION", "ERR", "FATAL"}

Messages(Sids, Frames) == [sid : Sids, frame : Frames]

LinkTypeOK(Sids, Frames) ==
  /\ down \in [Radios -> Seq(Messages(Sids, Frames))]
  /\ up \in [Radios -> Seq(Messages(Sids, Frames))]

LinkInit ==
  /\ down = [i \in Radios |-> << >>]
  /\ up = [i \in Radios |-> << >>]

InFlight(i) == Len(down[i]) + Len(up[i])

\* write_to_slip()
WriteToSlip(i, sid, frame) ==
  /\ down' = IF InFlight(i) < LineBound
             THEN [down EXCEPT ![i] = Append(@, [sid |-> sid, frame |-> frame])]
             ELSE down
  /\ UNCHANGED up

\* The radio sends the oldest frame and reports on it.
RadioSends(i) ==
  /\ down[i] # << >>
  /\ up' = [up EXCEPT ![i] = Append(@, Head(down[i]))]
  /\ down' = [down EXCEPT ![i] = Tail(@)]

LoseFrame(i) ==
  /\ Lossy
  /\ down[i] # << >>
  /\ down' = [down EXCEPT ![i] = Tail(@)]
  /\ UNCHANGED up

LoseReport(i) ==
  /\ Lossy
  /\ up[i] # << >>
  /\ up' = [up EXCEPT ![i] = Tail(@)]
  /\ UNCHANGED down

\* serial_input() takes a report off the line.
ReadReport(i) ==
  /\ up[i] # << >>
  /\ up' = [up EXCEPT ![i] = Tail(@)]
  /\ UNCHANGED down
=============================================================================
