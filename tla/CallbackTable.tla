---------------------------- MODULE CallbackTable ----------------------------
(***************************************************************************)
(* The table of examples/6lbr/platform/native/native-rdc.c that maps the   *)
(* session number (sid) of a frame handed to a slip radio to the callback  *)
(* of its sender.  The table is driven by setup_callback(), by the answer  *)
(* "!R sid status tx" of the radio, and by the timeout of the slot.        *)
(***************************************************************************)
EXTENDS Integers, FiniteSets

CONSTANTS
  MaxCallbacks,   \* MAX_CALLBACKS
  Retransmits,    \* values of the configuration's "retransmit"
  Unused          \* a slot with isused = 0

ASSUME MaxCallbacksAssumption == MaxCallbacks \in Nat \ {0}
ASSUME RetransmitsAssumption == Retransmits \subseteq Nat

VARIABLES
  cb,        \* callbacks[]: Unused, or the caller's data and retransmit
  cbPos,     \* callback_pos
  cbCount,   \* callback_count
  retransmit \* slip_device->retransmit, set when the radio is configured

tableVars == <<cb, cbPos, cbCount, retransmit>>

Sids == 0 .. MaxCallbacks - 1
InUse(s) == cb[s] # Unused
Used == {s \in Sids : InUse(s)}

TableTypeOK(Reqs) ==
  /\ cb \in [Sids -> [req : Reqs, retransmit : 0 .. retransmit] \union {Unused}]
  /\ cbPos \in Sids
  /\ cbCount \in 0 .. MaxCallbacks
  /\ retransmit \in Retransmits

TableInit ==
  /\ cb = [s \in Sids |-> Unused]
  /\ cbPos = 0
  /\ cbCount = 0
  /\ retransmit \in Retransmits

TableFull == cbCount >= MaxCallbacks

\* The search of setup_callback(): the first slot behind callback_pos, round
\* the table, that is not in use.
NextSlot_LowestFree(s) == ~InUse(s) /\ \A t \in Sids : InUse(t) \/ s <= t
NextSlot(s) ==
  LET ahead(t) == (t - cbPos - 1) % MaxCallbacks
  IN  ~InUse(s) /\ \A t \in Sids : InUse(t) \/ ahead(s) <= ahead(t)

\* setup_callback(), when the table is not full.
SetupCallback(s, req) ==
  /\ ~TableFull
  /\ NextSlot(s)
  /\ cb' = [cb EXCEPT ![s] = [req |-> req, retransmit |-> retransmit]]
  /\ cbPos' = s
  /\ cbCount' = cbCount + 1
  /\ UNCHANGED retransmit

\* The slot is given back before its callback is called.
ReleaseSlot_NotCounted(s) ==
  /\ cb' = [cb EXCEPT ![s] = Unused]
  /\ UNCHANGED <<cbPos, cbCount, retransmit>>
ReleaseSlot(s) ==
  /\ cb' = [cb EXCEPT ![s] = Unused]
  /\ cbCount' = cbCount - 1
  /\ UNCHANGED <<cbPos, retransmit>>

\* packet_timeout() with retransmissions left: the slot stays taken.
UseRetransmission_Unlimited(s) ==
  /\ cb' = [cb EXCEPT ![s].retransmit = @ - 1]
  /\ UNCHANGED <<cbPos, cbCount, retransmit>>
UseRetransmission(s) ==
  /\ cb[s].retransmit > 0
  /\ cb' = [cb EXCEPT ![s].retransmit = @ - 1]
  /\ UNCHANGED <<cbPos, cbCount, retransmit>>
=============================================================================
