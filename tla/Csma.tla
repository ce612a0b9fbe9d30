-------------------------------- MODULE Csma --------------------------------
(***************************************************************************)
(* The CSMA layer (CsmaMac) over any RDC layer that keeps its contract:    *)
(* every packet handed to NETSTACK_RDC.send_list() is answered once, later,*)
(* with multi_radio_input_ifindex equal to the packet's interface          *)
(* (MAC_TX_DEFERRED is no answer: another one follows).  RadioTx shows     *)
(* that multi-radio.c over native-rdc.c is such a layer; MacService is     *)
(* what the CSMA layer promises to the layer above.                        *)
(***************************************************************************)
EXTENDS CsmaMac

CONSTANTS
  Handles,      \* what the RDC layer can have outstanding (transmissions)
  NoReq,        \* a handle that is not in use
  NumTxs        \* num_transmissions an RDC layer reports

Requests == [nbr : Slots, seqno : Seqnos, ifindex : Ifs]

\* MAX_CALLBACKS (native-rdc.c) is not below CSMA_CONF_MAX_NEIGHBOR_QUEUES
\* (6lbr-conf-native.h): both are 16.
ASSUME HandlesAssumption ==
  IsFiniteSet(Handles) /\ Cardinality(Slots) <= Cardinality(Handles)
ASSUME NoReqAssumption == NoReq \notin Requests
ASSUME NumTxsAssumption == NumTxs \subseteq 1 .. 255

VARIABLES
  rdc,        \* [Handles -> Requests \union {NoReq}]: transmissions in the RDC
  attempts    \* history: how often the head of a queue was handed to the RDC

vars == <<csmaVars, rdc, attempts>>

Outstanding(n) == {h \in Handles : rdc[h] # NoReq /\ rdc[h].nbr = n}

Init ==
  /\ CsmaInit
  /\ rdc = [h \in Handles |-> NoReq]
  /\ attempts = [n \in Slots |-> 0]

Send(d, e) == SendPacket(d, e) /\ UNCHANGED <<rdc, attempts>>

\* The transmit timer expires: the head of the queue goes to the RDC layer.
TransmitPacketList(n) ==
  /\ timer[n]
  /\ queue[n] # << >>
  /\ timer' = [timer EXCEPT ![n] = FALSE]
  /\ \E h \in Handles :
       /\ rdc[h] = NoReq
       /\ rdc' = [rdc EXCEPT ![h] = [nbr |-> n, seqno |-> Head(queue[n]).seqno,
                                     ifindex |-> Head(queue[n]).ifindex]]
  /\ attempts' = [attempts EXCEPT ![n] = @ + 1]
  /\ UNCHANGED <<addr, queue, transmissions, collisions,
                 packetMemb, metadataMemb, queuebufs, upper>>

\* The RDC layer reports on a transmission.
Answer(h, status, ntx) ==
  /\ rdc[h] # NoReq
  /\ PacketSent(rdc[h].nbr, rdc[h].seqno, rdc[h].ifindex, status, ntx, timer)
  /\ rdc' = [rdc EXCEPT ![h] = IF status = "DEFERRED" THEN @ ELSE NoReq]
  /\ attempts' = [attempts EXCEPT ![rdc[h].nbr] =
                    IF queue'[rdc[h].nbr] = queue[rdc[h].nbr] THEN @ ELSE 0]

Next ==
  \/ \E d \in Dests, e \in Entry : Send(d, e)
  \/ \E n \in Slots : TransmitPacketList(n)
  \/ \E h \in Handles, s \in Results \union {"DEFERRED"}, k \in NumTxs : Answer(h, s, k)

\* Timers expire (ctimer), and the RDC layer answers every transmission.
Fairness ==
  /\ \A n \in Slots : WF_vars(TransmitPacketList(n))
  /\ \A h \in Handles : WF_vars(\E s \in Results, k \in NumTxs : Answer(h, s, k))

Spec == Init /\ [][Next]_vars
FairSpec == Spec /\ Fairness

-----------------------------------------------------------------------------

TypeOK ==
  /\ CsmaTypeOK
  /\ rdc \in [Handles -> Requests \union {NoReq}]
  /\ attempts \in [Slots -> Nat]

\* A queue that holds packets is being served, by exactly one agent: its
\* transmit timer is pending or the RDC layer holds its head, never both and
\* never two transmissions of one neighbor.  (A queue with neither would keep
\* its packets for ever: only packet_sent() and the first send_packet() of a
\* queue start the timer.)
QueueServed ==
  \A n \in Slots :
    /\ timer[n] => queue[n] # << >> /\ Outstanding(n) = {}
    /\ queue[n] # << >> /\ ~timer[n] => Outstanding(n) # {}
    /\ \A h, g \in Outstanding(n) : h = g

\* The RDC layer never holds a transmission for a neighbor block that was
\* freed, or that serves another packet now: what it calls back with always
\* finds the head of the queue it was taken from.
AnswerFindsHead ==
  \A h \in Handles : rdc[h] # NoReq =>
    LET n == rdc[h].nbr
    IN  /\ addr[n] # NoDest
        /\ queue[n] # << >>
        /\ Head(queue[n]).seqno = rdc[h].seqno
        /\ Head(queue[n]).ifindex = rdc[h].ifindex

NeighborsMatchQueues ==
  /\ \A n \in Slots : (addr[n] = NoDest) <=> (queue[n] = << >>)
  /\ \A n, m \in Slots : addr[n] # NoDest /\ addr[n] = addr[m] => n = m

\* Blocks are neither lost nor freed twice: a neighbor block is taken as long
\* as it queues packets, no two for one address, and the three pools hold
\* exactly the queued requests, each in one queue and at one place in it.
PoolsMatchQueues ==
  LET queued == UNION {{queue[n][k].pkt : k \in 1 .. Len(queue[n])} : n \in Slots}
  IN  /\ packetMemb = queued /\ metadataMemb = queued /\ queuebufs = queued
      /\ queued = {p \in Packets : upper[p] = "queued"}
      /\ NeighborsMatchQueues
      /\ \A n, m \in Slots : \A k \in 1 .. Len(queue[n]), j \in 1 .. Len(queue[m]) :
           queue[n][k].pkt = queue[m][j].pkt => n = m /\ k = j

\* The head of a queue is still within its budget: fewer than
\* max_transmissions transmissions counted, and each of them stands for at
\* most CSMA_MAX_BACKOFF + 1 passes through the RDC layer.
WithinBudget ==
  \A n \in Slots : queue[n] # << >> =>
    /\ transmissions[n] < Head(queue[n]).max
    /\ collisions[n] <= MaxBackoff
    /\ attempts[n] <= transmissions[n] * (MaxBackoff + 1) + collisions[n]
                        + (IF timer[n] THEN 0 ELSE 1)

\* The RDC layer needs no more room than one transmission per neighbor
\* block: when a timer expires there is a free handle.
HandleFree ==
  \A n \in Slots : timer[n] => \E h \in Handles : rdc[h] = NoReq

\* The counters of a packet start afresh: when another packet becomes the
\* head of a queue, nothing of its predecessor's retries is charged to it.
FreshCounters ==
  [][\A n \in Slots :
       /\ queue'[n] # << >>
       /\ queue[n] = << >> \/ Head(queue'[n]) # Head(queue[n])
       => transmissions'[n] = 0 /\ collisions'[n] = MinBE /\ timer'[n]]_vars

\* Every queued request is eventually called back.
EveryRequestAnswered ==
  \A p \in Packets : upper[p] = "queued" ~> upper[p] # "queued"

PendingOf(d) ==
  LET ns == {n \in Slots : addr[n] = d}
  IN  IF ns = {} THEN << >>
      ELSE LET q == queue[CHOOSE n \in ns : TRUE]
           IN  [k \in 1 .. Len(q) |-> q[k].pkt]

Service == INSTANCE MacService WITH
  MaxQueues <- Cardinality(Slots),
  MaxLen <- MaxPerNeighbor,
  pending <- [d \in Dests |-> PendingOf(d)]

\* The CSMA layer implements the service it promises: FIFO per receiver, one
\* final callback per request.
ImplementsService == Service!Spec
=============================================================================
