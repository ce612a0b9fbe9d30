------------------------------ MODULE NativeRdc ------------------------------
(***************************************************************************)
(* native-rdc.c between a MAC layer that sends frames as it likes and one  *)
(* slip radio behind a slow serial line: does the report of the radio reach*)
(* the sender of the very frame it is about?  A slot whose timeout passed  *)
(* is free for another frame while the first report is still on the line.  *)
(*                                                                         *)
(* The slots' timeouts all have the length slip_device->timeout, so they   *)
(* expire in the order in which they were set.                             *)
(***************************************************************************)
EXTENDS CallbackTable, SlipLink, Lists

CONSTANTS Frames      \* the frames of the MAC layer

VARIABLES
  timeouts,   \* the sids whose timeout is pending, the oldest first
  report,     \* [Frames -> "idle", "sent" or what its callback reported]
  regular     \* history: nothing was lost or retransmitted so far

vars == <<tableVars, linkVars, timeouts, report, regular>>

Reqs == [id : Frames, dev : Radios]

ASSUME UnusedAssumption == Unused \notin [req : Reqs, retransmit : Nat]

TypeOK ==
  /\ TableTypeOK(Reqs)
  /\ LinkTypeOK(Sids, Frames)
  /\ timeouts \in Seq(Sids)
  /\ report \in [Frames -> {"idle", "sent"} \union RadioStatus]
  /\ regular \in BOOLEAN

Init ==
  /\ TableInit
  /\ LinkInit
  /\ timeouts = << >>
  /\ report = [f \in Frames |-> "idle"]
  /\ regular = TRUE

OnLine(f) ==
  \E i \in Radios : \/ \E k \in 1 .. Len(down[i]) : down[i][k].frame = f
                 \/ \E k \in 1 .. Len(up[i]) : up[i][k].frame = f

\* send_packet(): a frame the MAC layer has no part of on the line any more,
\* and fewer than MaxCallbacks frames and reports on the line (the bound
\* under which a report cannot be overtaken by a whole round of the table).
SendPacket(f, i) ==
  /\ report[f] # "sent"
  /\ ~OnLine(f)
  /\ InFlight(i) < MaxCallbacks
  /\ \/ \E s \in Sids :
          /\ SetupCallback(s, [id |-> f, dev |-> i])
          /\ WriteToSlip(i, s, f)
          /\ timeouts' = Append(timeouts, s)
          /\ report' = [report EXCEPT ![f] = "sent"]
     \/ /\ TableFull
        /\ report' = [report EXCEPT ![f] = "NOACK"]
        /\ UNCHANGED <<tableVars, linkVars, timeouts>>
  /\ UNCHANGED regular

\* packet_sent(), called by serial_input() with the report of the radio.
PacketSent(i, status) ==
  /\ ReadReport(i)
  /\ LET s == Head(up[i]).sid
     IN  IF InUse(s)
         THEN /\ ReleaseSlot(s)
              /\ timeouts' = RemoveFrom(timeouts, s)
              /\ report' = [report EXCEPT ![cb[s].req.id] = status]
         ELSE UNCHANGED <<tableVars, timeouts, report>>
  /\ UNCHANGED regular

\* packet_timeout()
PacketTimeout(s) ==
  /\ InUse(s)
  /\ timeouts # << >> /\ Head(timeouts) = s
  /\ \/ /\ UseRetransmission(s)
        /\ timeouts' = Append(RemoveFrom(timeouts, s), s)
        /\ WriteToSlip(cb[s].req.dev, s, cb[s].req.id)
        /\ regular' = FALSE
        /\ UNCHANGED report
     \/ /\ cb[s].retransmit = 0
        /\ ReleaseSlot(s)
        /\ timeouts' = RemoveFrom(timeouts, s)
        /\ report' = [report EXCEPT ![cb[s].req.id] = "NOACK"]
        /\ UNCHANGED <<linkVars, regular>>

Line(i) ==
  /\ \/ RadioSends(i) /\ UNCHANGED regular
     \/ (LoseFrame(i) \/ LoseReport(i)) /\ regular' = FALSE
  /\ UNCHANGED <<tableVars, timeouts, report>>

Next ==
  \/ \E f \in Frames, i \in Radios : SendPacket(f, i)
  \/ \E i \in Radios, status \in RadioStatus : PacketSent(i, status)
  \/ \E s \in Sids : PacketTimeout(s)
  \/ \E i \in Radios : Line(i)

Spec == Init /\ [][Next]_vars

-----------------------------------------------------------------------------

\* callback_count is the number of slots in use and each of them has its
\* timeout pending, once: setup_callback() finds a slot when the count says
\* so (its search has no other end), and no slot is lost for ever.
TableConsistent ==
  /\ TypeOK
  /\ cbCount = Cardinality(Used)
  /\ \A s \in Sids :
       Cardinality({k \in 1 .. Len(timeouts) : timeouts[k] = s}) = IF InUse(s) THEN 1 ELSE 0
  /\ \A s, t \in Used : cb[s].req.id = cb[t].req.id => s = t

\* A report on the line is about the frame that its slot holds, or finds the
\* slot free: allocating round the table, setup_callback() does not reuse a
\* slot while a report for it is under way.  (Once a frame was lost or sent
\* twice this is no longer so: the order on the line and the order of the
\* slots come apart.)
ReportsFindTheirFrame ==
  regular => \A i \in Radios :
    \A k \in 1 .. Len(up[i]) :
      InUse(up[i][k].sid) => cb[up[i][k].sid].req.id = up[i][k].frame
=============================================================================
