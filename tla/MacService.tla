----------------------------- MODULE MacService -----------------------------
(***************************************************************************)
(* What the MAC layer of the border router promises to the layer that      *)
(* calls NETSTACK_MAC.send(): a FIFO queue per receiver address, and one   *)
(* call of the sent callback for every request, either at once with        *)
(* MAC_TX_ERR (the request was not queued) or later with the status of the *)
(* transmission (core/net/mac/mac.h).                                      *)
(***************************************************************************)
EXTENDS Naturals, Sequences, FiniteSets

CONSTANTS
  Packets,      \* requests of the upper layer
  Dests,        \* receiver addresses, the broadcast address included
  MaxQueues,    \* receivers with a queue at any one time
  MaxLen        \* requests queued for one receiver

Results == {"OK", "NOACK", "COLLISION", "ERR", "FATAL"}

VARIABLES
  pending,      \* [Dests -> Seq(Packets)]: requests not called back yet
  upper         \* what the sent callback of each request last reported

vars == <<pending, upper>>

TypeOK ==
  /\ pending \in [Dests -> Seq(Packets)]
  /\ upper \in [Packets -> {"idle", "queued"} \union Results]

Init ==
  /\ pending = [d \in Dests |-> << >>]
  /\ upper = [p \in Packets |-> "idle"]

\* The request joins the end of its receiver's queue.
Accept(p, d) ==
  /\ upper[p] # "queued"
  /\ Len(pending[d]) < MaxLen
  /\ pending[d] = << >> =>
       Cardinality({e \in Dests : pending[e] # << >>}) < MaxQueues
  /\ pending' = [pending EXCEPT ![d] = Append(@, p)]
  /\ upper' = [upper EXCEPT ![p] = "queued"]

\* The request is answered at once with MAC_TX_ERR.
Reject(p) ==
  /\ upper[p] # "queued"
  /\ upper' = [upper EXCEPT ![p] = "ERR"]
  /\ UNCHANGED pending

\* The oldest request of a receiver is reported.
Complete(d) ==
  /\ pending[d] # << >>
  /\ \E r \in Results : upper' = [upper EXCEPT ![Head(pending[d])] = r]
  /\ pending' = [pending EXCEPT ![d] = Tail(@)]

Next ==
  \/ \E p \in Packets, d \in Dests : Accept(p, d)
  \/ \E p \in Packets : Reject(p)
  \/ \E d \in Dests : Complete(d)

Spec == Init /\ [][Next]_vars /\ \A d \in Dests : WF_vars(Complete(d))
=============================================================================
