------------------------------- MODULE RadioTx -------------------------------
(***************************************************************************)
(* The transmission path of the native border router as a whole: csma.c    *)
(* (CsmaMac) under multi-radio.c, over native-rdc.c (CallbackTable) and    *)
(* the serial lines of the slip radios (SlipLink).  The layers share       *)
(* multi_radio_input_ifindex: csma.c's packet_sent() looks for the packet  *)
(* of a report by sequence number and by that interface.                   *)
(***************************************************************************)
EXTENDS CsmaMac, CallbackTable, SlipLink

CONSTANTS
  UnknownIf,    \* NETWORK_ITF_UNKNOWN
  TxCounts,     \* num_transmissions a radio reports
  Statuses,     \* the statuses it reports, out of RadioStatus
  Crossing      \* can a report be so late that its slot serves a frame for
                \* another radio?

\* Every interface of the border router's 802.15.4 side is a slip radio.
ASSUME RadiosAssumption == Radios = Ifs
ASSUME UnknownIfAssumption == UnknownIf \notin Ifs
ASSUME StatusesAssumption == Statuses \subseteq RadioStatus
ASSUME TxCountsAssumption == TxCounts \subseteq 1 .. 255

VARIABLES
  inputIf,    \* multi_radio_input_ifindex
  attempts    \* history: how often the head of a queue went to the RDC layer

vars == <<csmaVars, tableVars, linkVars, inputIf, attempts>>

Reqs == [nbr : Slots, seqno : Seqnos, ifindex : Ifs]

ASSUME UnusedAssumption == Unused \notin Reqs \union [req : Reqs, retransmit : Nat]

\* MAX_CALLBACKS is not below CSMA_CONF_MAX_NEIGHBOR_QUEUES (6lbr-conf-native.h).
ASSUME CallbacksAssumption == Cardinality(Slots) <= MaxCallbacks
Frames == {"frame"}

Outstanding(n) == {s \in Sids : InUse(s) /\ cb[s].req.nbr = n}

Init ==
  /\ CsmaInit
  /\ TableInit
  /\ LinkInit
  /\ inputIf = UnknownIf
  /\ attempts = [n \in Slots |-> 0]

\* What multi-radio.c's packet_sent() leaves in multi_radio_input_ifindex,
\* where csma.c has called it (that is, where a request was called back).
AfterSent(ifindex) == IF upper' # upper THEN UnknownIf ELSE ifindex

Send(d, e) ==
  /\ SendPacket(d, e)
  /\ inputIf' = AfterSent(inputIf)
  /\ UNCHANGED <<tableVars, linkVars, attempts>>

\* native_rdc_packet_input(), multi_radio_packet_input(): a frame from a radio;
\* the return for illegal attributes leaves the interface set.  What the upper
\* layers send on account of a frame is a Send of its own.
PacketInput ==
  /\ inputIf' \in Radios \union {UnknownIf}
  /\ UNCHANGED <<csmaVars, tableVars, linkVars, attempts>>

\* transmit_packet_list(), send_list() and send_packet() of native-rdc.c, when
\* the frame can be made and the table of callbacks has a free slot.
TransmitPacketList(n) ==
  /\ timer[n]
  /\ queue[n] # << >>
  /\ LET req == [nbr |-> n, seqno |-> Head(queue[n]).seqno,
                 ifindex |-> Head(queue[n]).ifindex]
     IN  \E s \in Sids :
           /\ SetupCallback(s, req)
           /\ WriteToSlip(req.ifindex, s, "frame")
  /\ timer' = [timer EXCEPT ![n] = FALSE]
  /\ attempts' = [attempts EXCEPT ![n] = @ + 1]
  /\ UNCHANGED <<addr, queue, transmissions, collisions, packetMemb,
                 metadataMemb, queuebufs, upper, inputIf>>

Attempted(n) ==
  attempts' = [attempts EXCEPT ![n] = IF queue'[n] = queue[n] THEN @ ELSE 0]

\* The same when it cannot be sent: the frame cannot be made (no PAN ID, too
\* large a header: MAC_TX_ERR_FATAL) or no slot is free (MAC_TX_NOACK).  Then
\* send_packet() reports at once, and multi_radio_input_ifindex is whatever
\* the last report left in it.
TransmitFails(n) ==
  /\ timer[n]
  /\ queue[n] # << >>
  /\ \E status \in {"FATAL", "NOACK"} :
       /\ status = "NOACK" => TableFull
       /\ PacketSent(n, Head(queue[n]).seqno, inputIf, status, 1,
                     [timer EXCEPT ![n] = FALSE])
  /\ inputIf' = AfterSent(inputIf)
  /\ Attempted(n)
  /\ UNCHANGED <<tableVars, linkVars>>

\* serial_input() of radio i reads "!R sid status tx" and calls packet_sent()
\* of native-rdc.c, between setting and resetting multi_radio_input_ifindex.
Report(i, status, ntx) ==
  /\ ReadReport(i)
  /\ LET s == Head(up[i]).sid
     IN  /\ InUse(s) /\ cb[s].req.ifindex # i => Crossing
         /\ IF InUse(s)
            THEN /\ ReleaseSlot(s)
                 /\ PacketSent(cb[s].req.nbr, cb[s].req.seqno, i, status, ntx, timer)
                 /\ Attempted(cb[s].req.nbr)
            ELSE UNCHANGED <<csmaVars, tableVars, attempts>>
  /\ inputIf' = UnknownIf

\* packet_timeout() takes the interface from the device of the slot.
TimeoutIf_Unset(s) == inputIf
TimeoutIf(s) == cb[s].req.ifindex

PacketTimeout(s) ==
  /\ InUse(s)
  /\ \/ /\ UseRetransmission(s)
        /\ WriteToSlip(cb[s].req.ifindex, s, "frame")
        /\ UNCHANGED <<csmaVars, inputIf, attempts>>
     \/ /\ cb[s].retransmit = 0
        /\ ReleaseSlot(s)
        /\ PacketSent(cb[s].req.nbr, cb[s].req.seqno, TimeoutIf(s), "NOACK", 1, timer)
        /\ inputIf' = AfterSent(TimeoutIf(s))
        /\ Attempted(cb[s].req.nbr)
        /\ UNCHANGED linkVars

Line(i) ==
  /\ RadioSends(i) \/ LoseFrame(i) \/ LoseReport(i)
  /\ UNCHANGED <<csmaVars, tableVars, inputIf, attempts>>

Next ==
  \/ \E d \in Dests, e \in Entry : Send(d, e)
  \/ \E n \in Slots : TransmitPacketList(n)
  \/ \E i \in Ifs, status \in Statuses, k \in TxCounts : Report(i, status, k)
  \/ \E s \in Sids : PacketTimeout(s)
  \/ \E i \in Ifs : Line(i)
  \/ PacketInput

FaultyNext == Next \/ \E n \in Slots : TransmitFails(n)

Spec == Init /\ [][Next]_vars
FaultySpec == Init /\ [][FaultyNext]_vars

\* Timers expire (ctimer); of the radios and their lines nothing is assumed.
Fairness ==
  /\ \A n \in Slots : WF_vars(TransmitPacketList(n))
  /\ \A s \in Sids : WF_vars(PacketTimeout(s))

FairSpec == Spec /\ Fairness

-----------------------------------------------------------------------------

TypeOK ==
  /\ CsmaTypeOK
  /\ TableTypeOK(Reqs)
  /\ LinkTypeOK(Sids, Frames)
  /\ inputIf \in Ifs \union {UnknownIf}
  /\ attempts \in [Slots -> Nat]

Contract == INSTANCE Csma WITH
  Handles <- Sids,
  NoReq <- Unused,
  NumTxs <- TxCounts \union {1},
  rdc <- [s \in Sids |-> IF InUse(s) THEN cb[s].req ELSE Unused]

\* native-rdc.c over its lines is an RDC layer as Csma assumes one: each frame
\* is reported on once, whatever the lines lose, delay or repeat, csma.c
\* recognises the packet, and no frame waits for ever although nothing is
\* assumed but timers that expire.  So all properties of Csma hold here.
ImplementsContract == Contract!FairSpec

\* A report is recognised: when the RDC layer is done with the head of a queue
\* (or refuses it), the packet leaves the queue or is scheduled again.
ReportFindsPacket ==
  [][\A n \in Slots :
       (timer[n] \/ Outstanding(n) # {}) /\ ~timer'[n] /\ Outstanding(n)' = {}
         => queue'[n] # queue[n]]_vars
=============================================================================
