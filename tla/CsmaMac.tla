------------------------------- MODULE CsmaMac -------------------------------
(***************************************************************************)
(* core/net/mac/csma.c: the state of the CSMA layer and the effect on it   *)
(* of its three entry points, send_packet() (called by the upper layer),   *)
(* transmit_packet_list() (the expiry of a neighbor's transmit timer) and  *)
(* packet_sent() (called back by the radio duty cycling layer below).      *)
(* What the layer below does with a packet is left to the modules that     *)
(* extend this one: Csma (any RDC that keeps its contract) and RadioTx     *)
(* (multi-radio.c over native-rdc.c).                                      *)
(*                                                                         *)
(* The build is the native border router: CETIC_6LBR_MULTI_RADIO is 1 and  *)
(* PACKETBUF_WITH_PACKET_TYPE is 0, so a packet always joins the end of    *)
(* its queue and packet_sent() compares the interface as well.             *)
(***************************************************************************)
EXTENDS Integers, Sequences, FiniteSets

CONSTANTS
  Packets,      \* requests of the upper layer (a packet and its callback)
  Dests,        \* receiver addresses
  NoDest,       \* the address of a neighbor block that is not allocated
  Ifs,          \* 802.15.4 interfaces: values of metadata->ifindex
  Seqnos,       \* values of PACKETBUF_ATTR_MAC_SEQNO (one byte: it wraps)
  Slots,        \* blocks of neighbor_memb: 1 .. CSMA_MAX_NEIGHBOR_QUEUES
  MaxPerNeighbor,  \* CSMA_MAX_PACKET_PER_NEIGHBOR
  MaxPackets,   \* MAX_QUEUED_PACKETS: blocks of packet_memb, metadata_memb
  MaxBufs,      \* queue buffers (queuebuf.c) left to the CSMA layer
  MaxTxs,       \* values of metadata->max_transmissions
  MaxBackoff,   \* CSMA_MAX_BACKOFF
  MinBE         \* CSMA_MIN_BE

ASSUME SlotsAssumption == Slots \subseteq Nat /\ IsFiniteSet(Slots)
ASSUME NoDestAssumption == NoDest \notin Dests
ASSUME MaxTxsAssumption == MaxTxs \subseteq 1 .. 255
ASSUME BackoffAssumption == MinBE \in 0 .. MaxBackoff /\ MaxBackoff \in 0 .. 254

VARIABLES
  addr,           \* n->addr, NoDest when the block is free
  queue,          \* n->queued_packet_list
  transmissions,  \* n->transmissions, uint8_t
  collisions,     \* n->collisions, uint8_t
  timer,          \* is n->transmit_timer pending?
  packetMemb,     \* the requests that hold a block of packet_memb,
  metadataMemb,   \* one of metadata_memb,
  queuebufs,      \* and a queue buffer
  upper           \* what the sent callback of a request last reported

csmaVars == <<addr, queue, transmissions, collisions, timer,
              packetMemb, metadataMemb, queuebufs, upper>>

\* MAC_TX_OK ... MAC_TX_ERR_FATAL; MAC_TX_DEFERRED is not a final result.
Results == {"OK", "NOACK", "COLLISION", "ERR", "FATAL"}

Entry == [pkt : Packets, seqno : Seqnos, ifindex : Ifs, max : MaxTxs]

U8(x) == x % 256

CsmaTypeOK ==
  /\ addr \in [Slots -> Dests \union {NoDest}]
  /\ queue \in [Slots -> Seq(Entry)]
  /\ transmissions \in [Slots -> 0 .. 255]
  /\ collisions \in [Slots -> 0 .. 255]
  /\ timer \in [Slots -> BOOLEAN]
  /\ packetMemb \subseteq Packets
  /\ metadataMemb \subseteq Packets
  /\ queuebufs \subseteq Packets
  /\ upper \in [Packets -> {"idle", "queued"} \union Results]

CsmaInit ==
  /\ addr = [n \in Slots |-> NoDest]
  /\ queue = [n \in Slots |-> << >>]
  /\ transmissions = [n \in Slots |-> 0]
  /\ collisions = [n \in Slots |-> 0]
  /\ timer = [n \in Slots |-> FALSE]
  /\ packetMemb = {}
  /\ metadataMemb = {}
  /\ queuebufs = {}
  /\ upper = [p \in Packets |-> "idle"]

-----------------------------------------------------------------------------
(* send_packet()                                                           *)

FreeSlots == {n \in Slots : addr[n] = NoDest}

\* neighbor_queue_from_addr(), or else memb_alloc() of the first free block.
NeighborFor(n, d) ==
  \/ addr[n] = d
  \/ /\ \A m \in Slots : addr[m] # d
     /\ n \in FreeSlots
     /\ \A m \in FreeSlots : n <= m

PoolsHaveRoom ==
  /\ Cardinality(packetMemb) < MaxPackets
  /\ Cardinality(metadataMemb) < MaxPackets
  /\ Cardinality(queuebufs) < MaxBufs

\* list_add(): at the end of the queue.  (list_push(), for acknowledgements in
\* a build with PACKETBUF_WITH_PACKET_TYPE, is the mutant.)
Enqueue_Push(q, e) == <<e>> \o q
Enqueue(q, e) == Append(q, e)

\* schedule_transmission() is called for the first packet of a queue only.
StartsTimer_Always(n) == TRUE
StartsTimer(n) == queue[n] = << >>

\* The packet is queued; the first of a queue starts the transmit timer.
SendQueued(d, e) ==
  /\ upper[e.pkt] # "queued"
  /\ \E n \in Slots :
       /\ NeighborFor(n, d)
       /\ Len(queue[n]) < MaxPerNeighbor
       /\ PoolsHaveRoom
       /\ addr' = [addr EXCEPT ![n] = d]
       /\ queue' = [queue EXCEPT ![n] = Enqueue(@, e)]
       /\ transmissions' = [transmissions EXCEPT
                              ![n] = IF addr[n] = d THEN @ ELSE 0]
       /\ collisions' = [collisions EXCEPT
                              ![n] = IF addr[n] = d THEN @ ELSE MinBE]
       /\ timer' = [timer EXCEPT ![n] = @ \/ StartsTimer(n)]
  /\ packetMemb' = packetMemb \union {e.pkt}
  /\ metadataMemb' = metadataMemb \union {e.pkt}
  /\ queuebufs' = queuebufs \union {e.pkt}
  /\ upper' = [upper EXCEPT ![e.pkt] = "queued"]

\* A pool is exhausted: what was allocated is given back, the neighbor too
\* when its queue is empty, and the callback gets MAC_TX_ERR.
SendNoBuffer(p, d) ==
  /\ upper[p] # "queued"
  /\ \E n \in Slots :
       /\ NeighborFor(n, d)
       /\ Len(queue[n]) < MaxPerNeighbor
       /\ ~PoolsHaveRoom
       /\ addr' = [addr EXCEPT ![n] = IF queue[n] = << >> THEN NoDest ELSE @]
       /\ transmissions' = [transmissions EXCEPT
                              ![n] = IF addr[n] = d THEN @ ELSE 0]
       /\ collisions' = [collisions EXCEPT
                              ![n] = IF addr[n] = d THEN @ ELSE MinBE]
  /\ upper' = [upper EXCEPT ![p] = "ERR"]
  /\ UNCHANGED <<queue, timer, packetMemb, metadataMemb, queuebufs>>

\* The neighbor's queue is full, or no neighbor block is free.
SendOverflow(p, d) ==
  /\ upper[p] # "queued"
  /\ \/ \E n \in Slots : addr[n] = d /\ Len(queue[n]) >= MaxPerNeighbor
     \/ \A n \in Slots : ~NeighborFor(n, d)
  /\ upper' = [upper EXCEPT ![p] = "ERR"]
  /\ UNCHANGED <<addr, queue, transmissions, collisions, timer,
                 packetMemb, metadataMemb, queuebufs>>

SendPacket(d, e) ==
  SendQueued(d, e) \/ SendNoBuffer(e.pkt, d) \/ SendOverflow(e.pkt, d)

-----------------------------------------------------------------------------
(* packet_sent(n, status, ntx): sq is the sequence number restored in the  *)
(* packet buffer, inIf is multi_radio_input_ifindex, and armed is the set  *)
(* of pending timers at the call.                                          *)

Matches(n, sq, inIf) ==
  {k \in 1 .. Len(queue[n]) : queue[n][k].seqno = sq /\ queue[n][k].ifindex = inIf}

Without(q, k) == SubSeq(q, 1, k - 1) \o SubSeq(q, k + 1, Len(q))

\* memb_free(), queuebuf_free()
Release_Leak(pool, p) == pool
Release(pool, p) == pool \ {p}

\* The counters with which the next packet of a queue starts.
NextTransmissions_Kept(tx) == tx
NextTransmissions(tx) == 0

\* tx_done() and free_packet(): the packet leaves its queue; the next one
\* starts afresh, and a neighbor without packets is freed.
TxDone(n, k, status, tx, col, armed) ==
  LET p    == queue[n][k].pkt
      rest == Without(queue[n], k)
      last == rest = << >>
  IN  /\ queue' = [queue EXCEPT ![n] = rest]
      /\ addr' = [addr EXCEPT ![n] = IF last THEN NoDest ELSE @]
      /\ transmissions' = [transmissions EXCEPT ![n] = IF last THEN tx ELSE NextTransmissions(tx)]
      /\ collisions' = [collisions EXCEPT ![n] = IF last THEN col ELSE MinBE]
      /\ timer' = [armed EXCEPT ![n] = ~last]
      /\ packetMemb' = Release(packetMemb, p)
      /\ metadataMemb' = Release(metadataMemb, p)
      /\ queuebufs' = Release(queuebufs, p)
      /\ upper' = [upper EXCEPT ![p] = status]

\* rexmit(): the same packet again after a backoff.
Rexmit_NotScheduled(n, tx, col, armed) ==
  /\ transmissions' = [transmissions EXCEPT ![n] = tx]
  /\ collisions' = [collisions EXCEPT ![n] = col]
  /\ timer' = armed
  /\ UNCHANGED <<addr, queue, packetMemb, metadataMemb, queuebufs, upper>>
Rexmit(n, tx, col, armed) ==
  /\ transmissions' = [transmissions EXCEPT ![n] = tx]
  /\ collisions' = [collisions EXCEPT ![n] = col]
  /\ timer' = [armed EXCEPT ![n] = TRUE]
  /\ UNCHANGED <<addr, queue, packetMemb, metadataMemb, queuebufs, upper>>

\* The retry limit of noack() and collision().
GivesUp_OneTooMany(n, k, tx) == tx > queue[n][k].max
GivesUp(n, k, tx) == tx >= queue[n][k].max

\* The backoff limit of collision(): one more retry is charged.
Charged(n, over) == IF over THEN U8(transmissions[n] + 1) ELSE transmissions[n]

TxOk(n, k, ntx, armed) ==
  TxDone(n, k, "OK", U8(transmissions[n] + ntx), MinBE, armed)

Noack(n, k, ntx, armed) ==
  LET tx == U8(transmissions[n] + ntx)
  IN  IF GivesUp(n, k, tx)
      THEN TxDone(n, k, "NOACK", tx, MinBE, armed)
      ELSE Rexmit(n, tx, MinBE, armed)

Collision(n, k, ntx, armed) ==
  LET sum  == U8(collisions[n] + ntx)
      over == sum > MaxBackoff
      col  == IF over THEN MinBE ELSE sum
      tx   == Charged(n, over)
  IN  IF GivesUp(n, k, tx)
      THEN TxDone(n, k, "COLLISION", tx, col, armed)
      ELSE Rexmit(n, tx, col, armed)

\* The switch of packet_sent(), for the k-th packet of the queue.
Dispatch_DeferredIsFinal(n, k, status, ntx, armed) ==
  TxDone(n, k, status, transmissions[n], collisions[n], armed)
Dispatch(n, k, status, ntx, armed) ==
  \/ status = "OK" /\ TxOk(n, k, ntx, armed)
  \/ status = "NOACK" /\ Noack(n, k, ntx, armed)
  \/ status = "COLLISION" /\ Collision(n, k, ntx, armed)
  \/ /\ status \in {"ERR", "FATAL"}
     /\ TxDone(n, k, status, transmissions[n], collisions[n], armed)
  \/ /\ status = "DEFERRED"
     /\ timer' = armed
     /\ UNCHANGED <<addr, queue, transmissions, collisions,
                    packetMemb, metadataMemb, queuebufs, upper>>

PacketSent(n, sq, inIf, status, ntx, armed) ==
  \/ /\ Matches(n, sq, inIf) = {}
     /\ timer' = armed
     /\ UNCHANGED <<addr, queue, transmissions, collisions,
                    packetMemb, metadataMemb, queuebufs, upper>>
  \/ \E k \in Matches(n, sq, inIf) :
       /\ \A j \in Matches(n, sq, inIf) : k <= j
       /\ Dispatch(n, k, status, ntx, armed)
=============================================================================
