----------------------------- MODULE Csma_proofs -----------------------------
(***************************************************************************)
(* Theorems about the CSMA layer, for every number of neighbor blocks,     *)
(* packets, retries and backoffs, and any RDC layer that keeps the contract*)
(* of module Csma.                                                         *)
(*                                                                         *)
(* No invariant of Csma is inductive alone.  That a packet_sent() finds the*)
(* head of the queue it was sent from (AnswerFindsHead) is what keeps the  *)
(* queues served (QueueServed); that a queue is served by one agent only   *)
(* is what keeps the head in place while the RDC layer holds it; and both  *)
(* need that a neighbor block is taken exactly as long as it queues        *)
(* packets (NeighborsMatchQueues).  Inv is their conjunction.              *)
(*                                                                         *)
(* On Inv rests the rest: what the pools hold (PoolsByRequest), how far    *)
(* the counters have come (Budget), and that every step is one of the      *)
(* service that the layer promises or leaves it alone.                     *)
(***************************************************************************)
EXTENDS Csma, TLAPS, FiniteSetTheorems, SequenceTheorems

Inv == TypeOK /\ QueueServed /\ AnswerFindsHead /\ NeighborsMatchQueues

-----------------------------------------------------------------------------
(* Lemmas about the operators of CsmaMac.                                  *)

\* list_remove() of the head leaves the tail.
LEMMA WithoutHead ==
  ASSUME NEW S, NEW q \in Seq(S), q # << >>
  PROVE  Without(q, 1) = Tail(q)
<1>1. SubSeq(q, 1, 0) = << >>
  BY SubSeqEmpty
<1>2. SubSeq(q, 2, Len(q)) = Tail(q) /\ Tail(q) \in Seq(S)
  BY TailIsSubSeq, HeadTailProperties
<1>3. << >> \o Tail(q) = Tail(q)
  BY <1>2, ConcatEmptySeq
<1> QED
  BY <1>1, <1>2, <1>3 DEF Without

\* The 8-bit counters stay 8-bit counters.
LEMMA U8Type == \A x \in Nat : U8(x) \in 0 .. 255
  BY DEF U8

\* The packet that packet_sent() finds for an answer of the RDC layer is the
\* head of the queue, so that it dispatches on the head.
LEMMA HeadDispatch ==
  ASSUME TypeOK, AnswerFindsHead,
         NEW h \in Handles, rdc[h] # NoReq,
         NEW status, NEW ntx,
         PacketSent(rdc[h].nbr, rdc[h].seqno, rdc[h].ifindex, status, ntx, timer)
  PROVE  Dispatch(rdc[h].nbr, 1, status, ntx, timer)
<1> DEFINE n == rdc[h].nbr
           sq == rdc[h].seqno
           if == rdc[h].ifindex
<1>1. n \in Slots /\ queue[n] \in Seq(Entry)
  BY DEF TypeOK, CsmaTypeOK, Requests
<1>2. 1 \in Matches(n, sq, if)
  BY <1>1, LenProperties, EmptySeq DEF AnswerFindsHead, Matches
<1>3. PacketSent(n, sq, if, status, ntx, timer)
  OBVIOUS
<1> HIDE DEF n, sq, if
<1>4. PICK k \in Matches(n, sq, if) :
        /\ \A j \in Matches(n, sq, if) : k <= j
        /\ Dispatch(n, k, status, ntx, timer)
  BY <1>3, <1>2 DEF PacketSent
<1>5. k = 1
  BY <1>4, <1>2, <1>1, LenProperties DEF Matches
<1> QED
  BY <1>4, <1>5 DEF n

\* An answer of the RDC layer for a head changes the CSMA layer in one of
\* three ways: not at all, by a retransmission, or by removing the head.
LEMMA AnswerCases ==
  ASSUME TypeOK, AnswerFindsHead,
         NEW h \in Handles, rdc[h] # NoReq,
         NEW status \in Results \union {"DEFERRED"}, NEW ntx \in NumTxs,
         PacketSent(rdc[h].nbr, rdc[h].seqno, rdc[h].ifindex, status, ntx, timer)
  PROVE  LET n == rdc[h].nbr IN
         \/ status = "DEFERRED" /\ UNCHANGED csmaVars
         \/ /\ status # "DEFERRED"
            /\ \E tx, col \in 0 .. 255 : Rexmit(n, tx, col, timer)
         \/ /\ status # "DEFERRED"
            /\ \E st \in Results, tx, col \in 0 .. 255 : TxDone(n, 1, st, tx, col, timer)
<1> DEFINE n == rdc[h].nbr
<1>1. n \in Slots /\ queue[n] \in Seq(Entry) /\ ntx \in 1 .. 255
  BY NumTxsAssumption DEF TypeOK, CsmaTypeOK, Requests
<1>2. transmissions[n] \in 0 .. 255 /\ collisions[n] \in 0 .. 255
  BY <1>1 DEF TypeOK, CsmaTypeOK
<1>3. /\ MinBE \in 0 .. 255
      /\ transmissions[n] + ntx \in Nat
      /\ collisions[n] + ntx \in Nat
      /\ transmissions[n] + 1 \in Nat
  <2>1. MinBE \in 0 .. 255
    BY BackoffAssumption
  <2>2. \A x, y \in 0 .. 255 : x + y \in Nat
    OBVIOUS
  <2>3. ntx \in 0 .. 255 /\ 1 \in 0 .. 255
    BY <1>1
  <2> QED
    BY <2>1, <2>2, <2>3, <1>2, Zenon
<1>6. Dispatch(n, 1, status, ntx, timer)
  BY HeadDispatch
<1> HIDE DEF n
<1> SUFFICES
      \/ status = "DEFERRED" /\ UNCHANGED csmaVars
      \/ /\ status # "DEFERRED"
         /\ \E tx, col \in 0 .. 255 : Rexmit(n, tx, col, timer)
      \/ /\ status # "DEFERRED"
         /\ \E st \in Results, tx, col \in 0 .. 255 : TxDone(n, 1, st, tx, col, timer)
  BY DEF n
<1>8. CASE status = "DEFERRED"
  BY <1>8, <1>6 DEF Dispatch, csmaVars
<1>9. CASE status # "DEFERRED"
  <2>1. \/ status = "OK" /\ TxOk(n, 1, ntx, timer)
        \/ status = "NOACK" /\ Noack(n, 1, ntx, timer)
        \/ status = "COLLISION" /\ Collision(n, 1, ntx, timer)
        \/ /\ status \in {"ERR", "FATAL"}
           /\ TxDone(n, 1, status, transmissions[n], collisions[n], timer)
    BY <1>6, <1>9 DEF Dispatch
  <2>3. CASE status = "OK"
    <3>1. TxDone(n, 1, "OK", U8(transmissions[n] + ntx), MinBE, timer)
      BY <2>1, <2>3 DEF TxOk
    <3>2. U8(transmissions[n] + ntx) \in 0 .. 255
      BY <1>3, U8Type, Zenon
    <3> QED
      BY <3>1, <3>2, <1>3, <2>3, Zenon DEF Results
  <2>4. CASE status = "NOACK"
    <3> DEFINE tx == U8(transmissions[n] + ntx)
    <3>1. IF tx >= queue[n][1].max THEN TxDone(n, 1, "NOACK", tx, MinBE, timer)
                                   ELSE Rexmit(n, tx, MinBE, timer)
      BY <2>1, <2>4 DEF Noack, GivesUp
    <3>2. tx \in 0 .. 255
      BY <1>3, U8Type, Zenon
    <3> HIDE DEF tx
    <3>3. CASE tx >= queue[n][1].max
      BY <3>1, <3>2, <3>3, <1>3, <1>9, Zenon DEF Results
    <3>4. CASE ~(tx >= queue[n][1].max)
      BY <3>1, <3>2, <3>4, <1>3, <1>9, Zenon DEF Results
    <3> QED
      BY <3>3, <3>4
  <2>5. CASE status = "COLLISION"
    <3> DEFINE sum == U8(collisions[n] + ntx)
               col == IF sum > MaxBackoff THEN MinBE ELSE sum
               tx  == IF sum > MaxBackoff THEN U8(transmissions[n] + 1)
                                          ELSE transmissions[n]
    <3>1. IF tx >= queue[n][1].max THEN TxDone(n, 1, "COLLISION", tx, col, timer)
                                   ELSE Rexmit(n, tx, col, timer)
      BY <2>1, <2>5 DEF Collision, GivesUp, Charged
    <3>2. /\ U8(collisions[n] + ntx) \in 0 .. 255
          /\ U8(transmissions[n] + 1) \in 0 .. 255
      BY <1>3, U8Type, Zenon
    <3>3. tx \in 0 .. 255 /\ col \in 0 .. 255
      BY <3>2, <1>2, <1>3, Zenon
    <3> HIDE DEF tx, col
    <3> QED
      BY <3>1, <3>3, <1>9, Zenon DEF Results
  <2>6. CASE status \in {"ERR", "FATAL"}
    BY <2>1, <2>6, <1>1, <1>2, Zenon DEF Results
  <2> QED
    BY <2>1, <2>3, <2>4, <2>5, <2>6
<1> QED
  BY <1>8, <1>9

-----------------------------------------------------------------------------
(* Inv is inductive: one lemma per action.                                 *)

LEMMA InitInv == Init => Inv
<1> SUFFICES ASSUME Init PROVE Inv
  OBVIOUS
<1> USE DEF Init, CsmaInit
<1>1. TypeOK
  BY EmptySeq DEF TypeOK, CsmaTypeOK
<1>2. QueueServed
  BY DEF QueueServed, Outstanding
<1>3. AnswerFindsHead
  BY DEF AnswerFindsHead
<1>4. NeighborsMatchQueues
  BY NoDestAssumption DEF NeighborsMatchQueues
<1> QED
  BY <1>1, <1>2, <1>3, <1>4 DEF Inv

\* send_packet() that queues: only the neighbor block n changes, and its
\* head only if it was empty, in which case nothing of it is in the RDC layer.
LEMMA SendQueuedInv ==
  ASSUME Inv, NEW d \in Dests, NEW e \in Entry, SendQueued(d, e),
         UNCHANGED <<rdc, attempts>>
  PROVE  Inv'
<1>0. e.pkt \in Packets
  BY DEF Entry
<1>1. PICK n \in Slots :
        /\ NeighborFor(n, d)
        /\ addr' = [addr EXCEPT ![n] = d]
        /\ queue' = [queue EXCEPT ![n] = Append(@, e)]
        /\ transmissions' = [transmissions EXCEPT
                               ![n] = IF addr[n] = d THEN @ ELSE 0]
        /\ collisions' = [collisions EXCEPT
                               ![n] = IF addr[n] = d THEN @ ELSE MinBE]
        /\ timer' = [timer EXCEPT ![n] = @ \/ queue[n] = << >>]
  BY DEF SendQueued, Enqueue, StartsTimer
<1>2. /\ \A m \in Slots : queue[m] \in Seq(Entry)
      /\ \A m \in Slots : queue'[m] = IF m = n THEN Append(queue[n], e) ELSE queue[m]
      /\ \A m \in Slots : addr'[m] = IF m = n THEN d ELSE addr[m]
      /\ \A m \in Slots : timer'[m] = IF m = n THEN timer[n] \/ queue[n] = << >>
                                               ELSE timer[m]
  BY <1>1 DEF Inv, TypeOK, CsmaTypeOK
<1>3. /\ Append(queue[n], e) \in Seq(Entry)
      /\ Append(queue[n], e) # << >>
      /\ queue[n] # << >> => Head(Append(queue[n], e)) = Head(queue[n])
  BY <1>2, AppendProperties, HeadTailAppend
<1>4. addr[n] # d => addr[n] = NoDest /\ \A m \in Slots : addr[m] # d
  BY <1>1 DEF NeighborFor, FreeSlots
<1>5. queue[n] = << >> <=> addr[n] = NoDest
  BY DEF Inv, NeighborsMatchQueues
<1>6. addr[n] = NoDest => Outstanding(n) = {}
  BY DEF Inv, AnswerFindsHead, Outstanding
<1>7. TypeOK'
  <2>1. addr' \in [Slots -> Dests \union {NoDest}] /\ queue' \in [Slots -> Seq(Entry)]
    BY <1>1, <1>3 DEF Inv, TypeOK, CsmaTypeOK
  <2>2. transmissions' \in [Slots -> 0 .. 255]
    <3>1. 0 \in 0 .. 255
      OBVIOUS
    <3> QED
      BY <3>1, <1>1 DEF Inv, TypeOK, CsmaTypeOK
  <2>3. collisions' \in [Slots -> 0 .. 255]
    <3>1. MinBE \in 0 .. 255
      BY BackoffAssumption
    <3> QED
      BY <3>1, <1>1 DEF Inv, TypeOK, CsmaTypeOK
  <2>4. timer' \in [Slots -> BOOLEAN]
    BY <1>1 DEF Inv, TypeOK, CsmaTypeOK
  <2>5. /\ packetMemb' \subseteq Packets /\ metadataMemb' \subseteq Packets
        /\ queuebufs' \subseteq Packets
        /\ upper' \in [Packets -> {"idle", "queued"} \union Results]
    BY <1>0 DEF Inv, TypeOK, CsmaTypeOK, SendQueued
  <2> QED
    BY <2>1, <2>2, <2>3, <2>4, <2>5 DEF Inv, TypeOK, CsmaTypeOK
<1>8. \A m \in Slots : Outstanding(m)' = Outstanding(m)
  BY DEF Outstanding
<1>9. QueueServed'
  <2> SUFFICES ASSUME NEW m \in Slots
               PROVE  /\ timer'[m] => queue'[m] # << >> /\ Outstanding(m) = {}
                      /\ queue'[m] # << >> /\ ~timer'[m] => Outstanding(m) # {}
                      /\ \A h, g \in Outstanding(m) : h = g
    BY <1>8 DEF QueueServed
  <2>1. CASE m = n
    BY <2>1, <1>2, <1>3, <1>5, <1>6 DEF Inv, QueueServed
  <2>2. CASE m # n
    BY <2>2, <1>2 DEF Inv, QueueServed
  <2> QED
    BY <2>1, <2>2
<1>10. AnswerFindsHead'
  <2> SUFFICES ASSUME NEW h \in Handles, rdc[h] # NoReq
               PROVE  LET m == rdc[h].nbr
                      IN  /\ addr'[m] # NoDest
                          /\ queue'[m] # << >>
                          /\ Head(queue'[m]).seqno = rdc[h].seqno
                          /\ Head(queue'[m]).ifindex = rdc[h].ifindex
    BY DEF AnswerFindsHead
  <2> DEFINE m == rdc[h].nbr
  <2>1. m \in Slots
    BY DEF Inv, TypeOK, Requests
  <2>2. /\ addr[m] # NoDest /\ queue[m] # << >>
        /\ Head(queue[m]).seqno = rdc[h].seqno
        /\ Head(queue[m]).ifindex = rdc[h].ifindex
    BY DEF Inv, AnswerFindsHead
  <2>3. addr'[m] # NoDest
    BY <2>1, <2>2, <1>2, NoDestAssumption
  <2>4. queue'[m] # << >> /\ Head(queue'[m]) = Head(queue[m])
    BY <2>1, <2>2, <1>2, <1>3
  <2> QED
    BY <2>2, <2>3, <2>4
<1>11. NeighborsMatchQueues'
  <2>1. \A m \in Slots : (addr'[m] = NoDest) <=> (queue'[m] = << >>)
    BY <1>2, <1>3, NoDestAssumption DEF Inv, NeighborsMatchQueues
  <2>2. \A m, k \in Slots : addr'[m] # NoDest /\ addr'[m] = addr'[k] => m = k
    BY <1>2, <1>4, NoDestAssumption DEF Inv, NeighborsMatchQueues
  <2> QED
    BY <2>1, <2>2 DEF NeighborsMatchQueues
<1> QED
  BY <1>7, <1>9, <1>10, <1>11 DEF Inv

\* send_packet() that fails for want of a buffer: at most an empty neighbor
\* block changes, and it stays free.
LEMMA SendNoBufferInv ==
  ASSUME Inv, NEW d \in Dests, NEW p \in Packets, SendNoBuffer(p, d),
         UNCHANGED <<rdc, attempts>>
  PROVE  Inv'
<1>1. PICK n \in Slots :
        /\ addr' = [addr EXCEPT ![n] = IF queue[n] = << >> THEN NoDest ELSE @]
        /\ transmissions' = [transmissions EXCEPT
                               ![n] = IF addr[n] = d THEN @ ELSE 0]
        /\ collisions' = [collisions EXCEPT
                               ![n] = IF addr[n] = d THEN @ ELSE MinBE]
  BY DEF SendNoBuffer
<1>2. UNCHANGED <<queue, timer, packetMemb, metadataMemb, queuebufs>>
  BY DEF SendNoBuffer
<1>3. addr' = addr
  BY <1>1 DEF Inv, TypeOK, CsmaTypeOK, NeighborsMatchQueues
<1>4. TypeOK'
  <2>1. MinBE \in 0 .. 255
    BY BackoffAssumption
  <2>2. transmissions' \in [Slots -> 0 .. 255] /\ collisions' \in [Slots -> 0 .. 255]
    BY <2>1, <1>1 DEF Inv, TypeOK, CsmaTypeOK
  <2>3. upper' \in [Packets -> {"idle", "queued"} \union Results]
    BY DEF SendNoBuffer, Inv, TypeOK, CsmaTypeOK, Results
  <2> QED
    BY <2>2, <2>3, <1>2, <1>3 DEF Inv, TypeOK, CsmaTypeOK
<1>5. \A m \in Slots : Outstanding(m)' = Outstanding(m)
  BY DEF Outstanding
<1> QED
  BY <1>2, <1>3, <1>4, <1>5
     DEF Inv, QueueServed, AnswerFindsHead, NeighborsMatchQueues

\* send_packet() that overflows changes nothing but the callback.
LEMMA SendOverflowInv ==
  ASSUME Inv, NEW d \in Dests, NEW p \in Packets, SendOverflow(p, d),
         UNCHANGED <<rdc, attempts>>
  PROVE  Inv'
<1>1. UNCHANGED <<addr, queue, transmissions, collisions, timer,
                  packetMemb, metadataMemb, queuebufs>>
  BY DEF SendOverflow
<1>2. upper' \in [Packets -> {"idle", "queued"} \union Results]
  BY DEF SendOverflow, Inv, TypeOK, CsmaTypeOK, Results
<1>3. \A m \in Slots : Outstanding(m)' = Outstanding(m)
  BY DEF Outstanding
<1> QED
  BY <1>1, <1>2, <1>3
     DEF Inv, TypeOK, CsmaTypeOK, QueueServed, AnswerFindsHead, NeighborsMatchQueues

\* transmit_packet_list(): the neighbor hands its timer over to the RDC layer.
LEMMA TransmitInv ==
  ASSUME Inv, NEW n \in Slots, TransmitPacketList(n)
  PROVE  Inv'
<1>1. PICK h \in Handles :
        /\ rdc[h] = NoReq
        /\ rdc' = [rdc EXCEPT ![h] = [nbr |-> n, seqno |-> Head(queue[n]).seqno,
                                      ifindex |-> Head(queue[n]).ifindex]]
  BY DEF TransmitPacketList
<1>2. /\ timer[n] /\ queue[n] # << >>
      /\ timer' = [timer EXCEPT ![n] = FALSE]
      /\ attempts' = [attempts EXCEPT ![n] = @ + 1]
      /\ UNCHANGED <<addr, queue, transmissions, collisions,
                     packetMemb, metadataMemb, queuebufs, upper>>
  BY DEF TransmitPacketList
<1> DEFINE req == [nbr |-> n, seqno |-> Head(queue[n]).seqno,
                   ifindex |-> Head(queue[n]).ifindex]
<1>3. req \in Requests
  <2>1. Head(queue[n]) \in Entry
    BY <1>2, HeadTailProperties DEF Inv, TypeOK, CsmaTypeOK
  <2> QED
    BY <2>1 DEF Entry, Requests
<1>4. req # NoReq /\ req.nbr = n /\ req.seqno = Head(queue[n]).seqno
      /\ req.ifindex = Head(queue[n]).ifindex
  BY <1>3, NoReqAssumption
<1>5. \A g \in Handles : rdc'[g] = IF g = h THEN req ELSE rdc[g]
  BY <1>1 DEF Inv, TypeOK
<1> HIDE DEF req
<1>6. \A m \in Slots : Outstanding(m)' =
        IF m = n THEN Outstanding(n) \union {h} ELSE Outstanding(m)
  BY <1>1, <1>4, <1>5 DEF Outstanding
<1>7. Outstanding(n) = {}
  BY <1>2 DEF Inv, QueueServed
<1>8. TypeOK'
  <2>1. rdc' \in [Handles -> Requests \union {NoReq}]
    BY <1>1, <1>3 DEF Inv, TypeOK, req
  <2>2. timer' \in [Slots -> BOOLEAN] /\ attempts' \in [Slots -> Nat]
    BY <1>2 DEF Inv, TypeOK, CsmaTypeOK
  <2> QED
    BY <2>1, <2>2, <1>2 DEF Inv, TypeOK, CsmaTypeOK
<1>9. QueueServed'
  <2> SUFFICES ASSUME NEW m \in Slots
               PROVE  /\ timer'[m] => queue[m] # << >> /\ Outstanding(m)' = {}
                      /\ queue[m] # << >> /\ ~timer'[m] => Outstanding(m)' # {}
                      /\ \A f, g \in Outstanding(m)' : f = g
    BY <1>2 DEF QueueServed
  <2>1. CASE m = n
    BY <2>1, <1>2, <1>6, <1>7 DEF Inv, TypeOK, CsmaTypeOK
  <2>2. CASE m # n
    BY <2>2, <1>2, <1>6 DEF Inv, TypeOK, CsmaTypeOK, QueueServed
  <2> QED
    BY <2>1, <2>2
<1>10. AnswerFindsHead'
  BY <1>2, <1>4, <1>5 DEF Inv, AnswerFindsHead, NeighborsMatchQueues
<1>11. NeighborsMatchQueues'
  BY <1>2 DEF Inv, NeighborsMatchQueues
<1> QED
  BY <1>8, <1>9, <1>10, <1>11 DEF Inv

\* packet_sent(): the RDC layer gives the neighbor back; either its timer is
\* set again or it has no packets left.
LEMMA AnswerInv ==
  ASSUME Inv, NEW h \in Handles, NEW status \in Results \union {"DEFERRED"},
         NEW ntx \in NumTxs, Answer(h, status, ntx)
  PROVE  Inv'
<1> DEFINE n == rdc[h].nbr
<1>1. /\ rdc[h] # NoReq
      /\ rdc' = [rdc EXCEPT ![h] = IF status = "DEFERRED" THEN @ ELSE NoReq]
      /\ attempts' = [attempts EXCEPT ![n] = IF queue'[n] = queue[n] THEN @ ELSE 0]
  BY DEF Answer
<1>2. /\ n \in Slots /\ queue[n] \in Seq(Entry) /\ queue[n] # << >>
      /\ addr[n] # NoDest
      /\ h \in Outstanding(n)
  BY <1>1 DEF Inv, TypeOK, CsmaTypeOK, Requests, AnswerFindsHead, Outstanding
<1>3. Outstanding(n) = {h} /\ ~timer[n]
  BY <1>2 DEF Inv, QueueServed
<1>4. \/ status = "DEFERRED" /\ UNCHANGED csmaVars
      \/ /\ status # "DEFERRED"
         /\ \E tx, col \in 0 .. 255 : Rexmit(n, tx, col, timer)
      \/ /\ status # "DEFERRED"
         /\ \E st \in Results, tx, col \in 0 .. 255 : TxDone(n, 1, st, tx, col, timer)
  BY <1>1, AnswerCases DEF Answer, Inv
<1>5. /\ rdc' \in [Handles -> Requests \union {NoReq}]
      /\ attempts' \in [Slots -> Nat]
  BY <1>1, <1>2 DEF Inv, TypeOK
<1>6. status # "DEFERRED" =>
        \A g \in Handles : rdc'[g] = IF g = h THEN NoReq ELSE rdc[g]
  BY <1>1 DEF Inv, TypeOK
<1>7. status # "DEFERRED" =>
        \A m \in Slots : Outstanding(m)' = IF m = n THEN {} ELSE Outstanding(m)
  BY <1>3, <1>6 DEF Outstanding
<1>8. status # "DEFERRED" => \A g \in Handles : rdc'[g] # NoReq => rdc[g].nbr # n
  BY <1>3, <1>6 DEF Outstanding
<1>9. \A g \in Handles : rdc[g] # NoReq => rdc[g].nbr \in Slots
  BY DEF Inv, TypeOK, Requests
<1> HIDE DEF n
<1>10. CASE status = "DEFERRED" /\ UNCHANGED csmaVars
  <2>1. rdc' = rdc
    BY <1>1, <1>10 DEF Inv, TypeOK
  <2> QED
    BY <2>1, <1>5, <1>10 DEF csmaVars, Inv, TypeOK, CsmaTypeOK, QueueServed,
       Outstanding, AnswerFindsHead, NeighborsMatchQueues
<1>11. ASSUME status # "DEFERRED", NEW tx \in 0 .. 255, NEW col \in 0 .. 255,
              Rexmit(n, tx, col, timer)
       PROVE  Inv'
  <2>1. /\ timer' = [timer EXCEPT ![n] = TRUE]
        /\ transmissions' = [transmissions EXCEPT ![n] = tx]
        /\ collisions' = [collisions EXCEPT ![n] = col]
        /\ UNCHANGED <<addr, queue, packetMemb, metadataMemb, queuebufs, upper>>
    BY <1>11 DEF Rexmit
  <2>2. TypeOK'
    BY <2>1, <1>5 DEF Inv, TypeOK, CsmaTypeOK
  <2>3. QueueServed'
    BY <2>1, <1>2, <1>7, <1>11 DEF Inv, TypeOK, CsmaTypeOK, QueueServed
  <2>4. AnswerFindsHead'
    BY <2>1, <1>6, <1>11 DEF Inv, AnswerFindsHead
  <2>5. NeighborsMatchQueues'
    BY <2>1 DEF Inv, NeighborsMatchQueues
  <2> QED
    BY <2>2, <2>3, <2>4, <2>5 DEF Inv
<1>12. ASSUME status # "DEFERRED", NEW st \in Results,
              NEW tx \in 0 .. 255, NEW col \in 0 .. 255,
              TxDone(n, 1, st, tx, col, timer)
       PROVE  Inv'
  <2> DEFINE rest == Tail(queue[n])
             p    == queue[n][1].pkt
             last == rest = << >>
  <2>1. Without(queue[n], 1) = rest /\ rest \in Seq(Entry)
    BY <1>2, WithoutHead, HeadTailProperties
  <2>2. /\ queue' = [queue EXCEPT ![n] = rest]
        /\ addr' = [addr EXCEPT ![n] = IF last THEN NoDest ELSE @]
        /\ transmissions' = [transmissions EXCEPT ![n] = IF last THEN tx ELSE 0]
        /\ collisions' = [collisions EXCEPT ![n] = IF last THEN col ELSE MinBE]
        /\ timer' = [timer EXCEPT ![n] = ~last]
        /\ packetMemb' = packetMemb \ {p}
        /\ metadataMemb' = metadataMemb \ {p}
        /\ queuebufs' = queuebufs \ {p}
        /\ upper' = [upper EXCEPT ![p] = st]
    BY <1>12, <2>1 DEF TxDone, Release, NextTransmissions
  <2> HIDE DEF rest, p
  <2>3. TypeOK'
    <3>1. MinBE \in 0 .. 255 /\ 0 \in 0 .. 255
      BY BackoffAssumption
    <3>2. /\ addr' \in [Slots -> Dests \union {NoDest}]
          /\ queue' \in [Slots -> Seq(Entry)]
          /\ timer' \in [Slots -> BOOLEAN]
      BY <2>1, <2>2 DEF Inv, TypeOK, CsmaTypeOK
    <3>3. transmissions' \in [Slots -> 0 .. 255] /\ collisions' \in [Slots -> 0 .. 255]
      BY <3>1, <2>2 DEF Inv, TypeOK, CsmaTypeOK
    <3>4. /\ packetMemb' \subseteq Packets /\ metadataMemb' \subseteq Packets
          /\ queuebufs' \subseteq Packets
          /\ upper' \in [Packets -> {"idle", "queued"} \union Results]
      BY <2>2 DEF Inv, TypeOK, CsmaTypeOK
    <3> QED
      BY <3>2, <3>3, <3>4, <1>5 DEF TypeOK, CsmaTypeOK
  <2>4. /\ \A m \in Slots : queue'[m] = IF m = n THEN rest ELSE queue[m]
        /\ \A m \in Slots : timer'[m] = IF m = n THEN ~last ELSE timer[m]
        /\ \A m \in Slots : addr'[m] = IF m = n /\ last THEN NoDest ELSE addr[m]
    BY <2>2 DEF Inv, TypeOK, CsmaTypeOK
  <2>5. QueueServed'
    <3> SUFFICES ASSUME NEW m \in Slots
                 PROVE  /\ timer'[m] => queue'[m] # << >> /\ Outstanding(m)' = {}
                        /\ queue'[m] # << >> /\ ~timer'[m] => Outstanding(m)' # {}
                        /\ \A f, g \in Outstanding(m)' : f = g
      BY DEF QueueServed
    <3>1. CASE m = n
      BY <3>1, <2>4, <1>7, <1>12
    <3>2. CASE m # n
      BY <3>2, <2>4, <1>7, <1>12 DEF Inv, QueueServed
    <3> QED
      BY <3>1, <3>2
  <2>6. AnswerFindsHead'
    BY <2>4, <1>6, <1>8, <1>9, <1>12 DEF Inv, AnswerFindsHead
  <2>7. NeighborsMatchQueues'
    <3>1. \A m \in Slots : (addr'[m] = NoDest) <=> (queue'[m] = << >>)
      BY <2>4, <1>2 DEF Inv, NeighborsMatchQueues
    <3>2. \A m, k \in Slots : addr'[m] # NoDest /\ addr'[m] = addr'[k] => m = k
      BY <2>4 DEF Inv, NeighborsMatchQueues
    <3> QED
      BY <3>1, <3>2 DEF NeighborsMatchQueues
  <2> QED
    BY <2>3, <2>5, <2>6, <2>7 DEF Inv
<1> QED
  BY <1>4, <1>10, <1>11, <1>12

LEMMA NextInv == Inv /\ [Next]_vars => Inv'
<1> SUFFICES ASSUME Inv, [Next]_vars PROVE Inv'
  OBVIOUS
<1>1. ASSUME NEW d \in Dests, NEW e \in Entry, Send(d, e)
      PROVE  Inv'
  <2>1. e.pkt \in Packets
    BY DEF Entry
  <2> QED
    BY <1>1, <2>1, SendQueuedInv, SendNoBufferInv, SendOverflowInv DEF Send, SendPacket
<1>2. ASSUME NEW n \in Slots, TransmitPacketList(n)
      PROVE  Inv'
  BY <1>2, TransmitInv
<1>3. ASSUME NEW h \in Handles, NEW s \in Results \union {"DEFERRED"},
             NEW k \in NumTxs, Answer(h, s, k)
      PROVE  Inv'
  BY <1>3, AnswerInv
<1>4. CASE UNCHANGED vars
  <2>1. \A m \in Slots : Outstanding(m)' = Outstanding(m)
    BY <1>4 DEF vars, Outstanding
  <2> QED
    BY <2>1, <1>4 DEF vars, csmaVars, Inv, TypeOK, CsmaTypeOK, QueueServed,
                      AnswerFindsHead, NeighborsMatchQueues
<1> QED
  BY <1>1, <1>2, <1>3, <1>4 DEF Next

-----------------------------------------------------------------------------
(* The theorems.                                                           *)

\* Inv holds in every state of the CSMA layer.
THEOREM InvHolds == Spec => []Inv
<1> QED
  BY InitInv, NextInv, PTL DEF Spec

\* The state of the CSMA layer keeps its types; in particular the two 8-bit
\* counters and the one-byte fields of a packet never leave their range.
THEOREM TypeCorrect == Spec => []TypeOK
<1>1. Inv => TypeOK
  BY DEF Inv
<1> QED
  BY <1>1, InvHolds, PTL

\* A queue that holds packets has its transmit timer pending or its head in
\* the RDC layer, never both, and never two transmissions.
THEOREM EveryQueueServed == Spec => []QueueServed
<1>1. Inv => QueueServed
  BY DEF Inv
<1> QED
  BY <1>1, InvHolds, PTL

\* packet_sent() always finds the packet it is called for, at the head of
\* the queue of a neighbor block that is still in use.
THEOREM EveryAnswerFindsHead == Spec => []AnswerFindsHead
<1>1. Inv => AnswerFindsHead
  BY DEF Inv
<1> QED
  BY <1>1, InvHolds, PTL

\* As MAX_CALLBACKS is not below the number of neighbor blocks, an expiring
\* transmit timer always finds a free callback in the RDC layer: the branch
\* "native-rdc queue full" is never taken by the CSMA layer.
THEOREM AlwaysHandleFree == Spec => []HandleFree
<1>1. ASSUME Inv PROVE HandleFree
  <2> SUFFICES ASSUME NEW n \in Slots, timer[n],
                      \A h \in Handles : rdc[h] # NoReq
               PROVE  FALSE
    BY DEF HandleFree
  <2> DEFINE others == Slots \ {n}
             nbrOf == [h \in Handles |-> rdc[h].nbr]
  <2>1. nbrOf \in [Handles -> others]
    BY <1>1 DEF Inv, TypeOK, Requests, QueueServed, Outstanding
  <2>2. /\ IsFiniteSet(others) /\ IsFiniteSet(Handles)
        /\ Cardinality(others) = Cardinality(Slots) - 1
        /\ Cardinality(Slots) \in Nat /\ Cardinality(Handles) \in Nat
    BY SlotsAssumption, HandlesAssumption, FS_RemoveElement, FS_CardinalityType
  <2>3. Cardinality(others) < Cardinality(Handles)
    BY <2>2, HandlesAssumption
  <2> HIDE DEF others, nbrOf
  <2>4. PICK h, g \in Handles : h # g /\ nbrOf[h] = nbrOf[g]
    BY <2>1, <2>2, <2>3, FS_PigeonHole
  <2>5. rdc[h].nbr = rdc[g].nbr /\ rdc[h].nbr \in Slots
    BY <2>4, <1>1 DEF nbrOf, Inv, TypeOK, Requests
  <2> QED
    BY <2>4, <2>5, <1>1 DEF Inv, QueueServed, Outstanding
<1> QED
  BY <1>1, InvHolds, PTL

-----------------------------------------------------------------------------
(* The pools.                                                              *)

\* Is request p at some place of some queue?
Placed(p) == \E n \in Slots : \E k \in 1 .. Len(queue[n]) : queue[n][k].pkt = p

\* PoolsMatchQueues, request by request.
OnePlace ==
  \A n, m \in Slots : \A k \in 1 .. Len(queue[n]), j \in 1 .. Len(queue[m]) :
    queue[n][k].pkt = queue[m][j].pkt => n = m /\ k = j
PoolsByRequest ==
  /\ \A p \in Packets : upper[p] = "queued" <=> Placed(p)
  /\ \A p \in Packets : /\ p \in packetMemb <=> upper[p] = "queued"
                        /\ p \in metadataMemb <=> upper[p] = "queued"
                        /\ p \in queuebufs <=> upper[p] = "queued"
  /\ OnePlace

LEMMA PoolsPointwise == Inv /\ PoolsByRequest => PoolsMatchQueues
<1> SUFFICES ASSUME Inv, PoolsByRequest PROVE PoolsMatchQueues
  OBVIOUS
<1> DEFINE queued == UNION {{queue[n][k].pkt : k \in 1 .. Len(queue[n])} : n \in Slots}
<1>1. \A p : p \in queued <=> Placed(p)
  BY DEF Placed
<1>2. \A p : Placed(p) => p \in Packets
  <2>1. \A n \in Slots : \A k \in 1 .. Len(queue[n]) : queue[n][k] \in Entry
    BY ElementOfSeq DEF Inv, TypeOK, CsmaTypeOK
  <2> QED
    BY <2>1 DEF Placed, Entry
<1>3. packetMemb \subseteq Packets /\ metadataMemb \subseteq Packets /\ queuebufs \subseteq Packets
  BY DEF Inv, TypeOK, CsmaTypeOK
<1> HIDE DEF queued
<1>4. queued = {p \in Packets : upper[p] = "queued"}
  BY <1>1, <1>2 DEF PoolsByRequest
<1>5. packetMemb = queued /\ metadataMemb = queued /\ queuebufs = queued
  BY <1>3, <1>4 DEF PoolsByRequest
<1>6. NeighborsMatchQueues /\ OnePlace
  BY DEF Inv, PoolsByRequest
<1> QED
  BY <1>4, <1>5, <1>6 DEF PoolsMatchQueues, queued, OnePlace

\* What send_packet() does when it queues: one neighbor block n gets the packet.
LEMMA QueuedStep ==
  ASSUME Inv, NEW d \in Dests, NEW e \in Entry, SendQueued(d, e)
  PROVE  \E n \in Slots :
           /\ NeighborFor(n, d)
           /\ Len(queue[n]) < MaxPerNeighbor
           /\ \A m \in Slots : queue'[m] = IF m = n THEN Append(queue[n], e) ELSE queue[m]
           /\ \A m \in Slots : addr'[m] = IF m = n THEN d ELSE addr[m]
           /\ \A m \in Slots : timer'[m] = IF m = n THEN timer[n] \/ queue[n] = << >>
                                                    ELSE timer[m]
           /\ \A m \in Slots : transmissions'[m] = IF m = n /\ addr[n] # d THEN 0
                                                                     ELSE transmissions[m]
           /\ \A m \in Slots : collisions'[m] = IF m = n /\ addr[n] # d THEN MinBE
                                                                  ELSE collisions[m]
<1>1. PICK n \in Slots :
        /\ NeighborFor(n, d)
        /\ Len(queue[n]) < MaxPerNeighbor
        /\ addr' = [addr EXCEPT ![n] = d]
        /\ queue' = [queue EXCEPT ![n] = Append(@, e)]
        /\ transmissions' = [transmissions EXCEPT
                               ![n] = IF addr[n] = d THEN @ ELSE 0]
        /\ collisions' = [collisions EXCEPT
                               ![n] = IF addr[n] = d THEN @ ELSE MinBE]
        /\ timer' = [timer EXCEPT ![n] = @ \/ queue[n] = << >>]
  BY DEF SendQueued, Enqueue, StartsTimer
<1>2. /\ \A m \in Slots : queue'[m] = IF m = n THEN Append(queue[n], e) ELSE queue[m]
      /\ \A m \in Slots : addr'[m] = IF m = n THEN d ELSE addr[m]
      /\ \A m \in Slots : timer'[m] = IF m = n THEN timer[n] \/ queue[n] = << >>
                                               ELSE timer[m]
  BY <1>1 DEF Inv, TypeOK, CsmaTypeOK
<1>3. /\ \A m \in Slots : transmissions'[m] = IF m = n /\ addr[n] # d THEN 0
                                                                ELSE transmissions[m]
      /\ \A m \in Slots : collisions'[m] = IF m = n /\ addr[n] # d THEN MinBE
                                                             ELSE collisions[m]
  BY <1>1 DEF Inv, TypeOK, CsmaTypeOK
<1> QED
  BY <1>1, <1>2, <1>3

\* What packet_sent() does to the queues: nothing, or the head of one leaves.
LEMMA DoneStep ==
  ASSUME Inv, NEW n \in Slots, queue[n] # << >>,
         NEW st, NEW tx, NEW col, TxDone(n, 1, st, tx, col, timer)
  PROVE  /\ \A m \in Slots : queue'[m] = IF m = n THEN Tail(queue[n]) ELSE queue[m]
         /\ \A m \in Slots : addr'[m] = IF m = n /\ Tail(queue[n]) = << >> THEN NoDest
                                                                     ELSE addr[m]
         /\ Tail(queue[n]) # << >> => /\ transmissions'[n] = 0
                                      /\ collisions'[n] = MinBE
                                      /\ timer'[n]
         /\ \A m \in Slots : m # n => /\ transmissions'[m] = transmissions[m]
                                      /\ collisions'[m] = collisions[m]
                                      /\ timer'[m] = timer[m]
         /\ packetMemb' = packetMemb \ {Head(queue[n]).pkt}
         /\ metadataMemb' = metadataMemb \ {Head(queue[n]).pkt}
         /\ queuebufs' = queuebufs \ {Head(queue[n]).pkt}
         /\ upper' = [upper EXCEPT ![Head(queue[n]).pkt] = st]
<1>1. queue[n] \in Seq(Entry)
  BY DEF Inv, TypeOK, CsmaTypeOK
<1>2. Without(queue[n], 1) = Tail(queue[n]) /\ queue[n][1] = Head(queue[n])
  <2>1. Without(queue[n], 1) = Tail(queue[n])
    BY <1>1, WithoutHead
  <2>2. queue[n][1] = Head(queue[n])
    BY <1>1
  <2> QED
    BY <2>1, <2>2
<1> DEFINE last == Tail(queue[n]) = << >>
<1>3. /\ queue' = [queue EXCEPT ![n] = Tail(queue[n])]
      /\ addr' = [addr EXCEPT ![n] = IF last THEN NoDest ELSE @]
      /\ transmissions' = [transmissions EXCEPT ![n] = IF last THEN tx ELSE 0]
      /\ collisions' = [collisions EXCEPT ![n] = IF last THEN col ELSE MinBE]
      /\ timer' = [timer EXCEPT ![n] = ~last]
      /\ packetMemb' = packetMemb \ {Head(queue[n]).pkt}
      /\ metadataMemb' = metadataMemb \ {Head(queue[n]).pkt}
      /\ queuebufs' = queuebufs \ {Head(queue[n]).pkt}
      /\ upper' = [upper EXCEPT ![Head(queue[n]).pkt] = st]
  BY <1>2 DEF TxDone, Release, NextTransmissions
<1> HIDE DEF last
<1>4. /\ \A m \in Slots : queue'[m] = IF m = n THEN Tail(queue[n]) ELSE queue[m]
      /\ \A m \in Slots : addr'[m] = IF m = n /\ last THEN NoDest ELSE addr[m]
  BY <1>3 DEF Inv, TypeOK, CsmaTypeOK
<1>5. /\ ~last => transmissions'[n] = 0 /\ collisions'[n] = MinBE /\ timer'[n]
      /\ \A m \in Slots : m # n => /\ transmissions'[m] = transmissions[m]
                                   /\ collisions'[m] = collisions[m]
                                   /\ timer'[m] = timer[m]
  BY <1>3 DEF Inv, TypeOK, CsmaTypeOK
<1> QED
  BY <1>3, <1>4, <1>5 DEF last

\* The two ways in which send_packet() answers at once leave the queues alone,
\* and a neighbor block that it allocated for nothing is free again.
LEMMA RejectStep ==
  ASSUME Inv, NEW d \in Dests, NEW p \in Packets,
         SendNoBuffer(p, d) \/ SendOverflow(p, d)
  PROVE  /\ upper[p] # "queued" /\ upper' = [upper EXCEPT ![p] = "ERR"]
         /\ UNCHANGED <<addr, queue, timer, packetMemb, metadataMemb, queuebufs>>
         /\ \A m \in Slots : queue[m] # << >> => /\ transmissions'[m] = transmissions[m]
                                                 /\ collisions'[m] = collisions[m]
<1>1. CASE SendOverflow(p, d)
  BY <1>1 DEF SendOverflow
<1>2. CASE SendNoBuffer(p, d)
  <2>1. PICK n \in Slots :
          /\ NeighborFor(n, d)
          /\ addr' = [addr EXCEPT ![n] = IF queue[n] = << >> THEN NoDest ELSE @]
          /\ transmissions' = [transmissions EXCEPT
                                 ![n] = IF addr[n] = d THEN @ ELSE 0]
          /\ collisions' = [collisions EXCEPT
                                 ![n] = IF addr[n] = d THEN @ ELSE MinBE]
    BY <1>2 DEF SendNoBuffer
  <2>2. addr' = addr
    BY <2>1 DEF Inv, TypeOK, CsmaTypeOK, NeighborsMatchQueues
  <2>3. queue[n] # << >> => addr[n] = d
    BY <2>1 DEF NeighborFor, FreeSlots, Inv, NeighborsMatchQueues
  <2>4. \A m \in Slots : queue[m] # << >> => /\ transmissions'[m] = transmissions[m]
                                             /\ collisions'[m] = collisions[m]
    BY <2>1, <2>3 DEF Inv, TypeOK, CsmaTypeOK
  <2> QED
    BY <1>2, <2>2, <2>4 DEF SendNoBuffer
<1> QED
  BY <1>1, <1>2

\* A request that send_packet() queues gets one new place, at the end of a queue.
LEMMA QueuedPools ==
  ASSUME Inv, PoolsByRequest, NEW d \in Dests, NEW e \in Entry, SendQueued(d, e)
  PROVE  PoolsByRequest'
<1>1. PICK n \in Slots :
        \A m \in Slots : queue'[m] = IF m = n THEN Append(queue[n], e) ELSE queue[m]
  BY QueuedStep
<1> DEFINE new == Append(queue[n], e)
           len == Len(queue[n])
<1>2. /\ len \in Nat /\ Len(new) = len + 1
      /\ \A k \in 1 .. len : new[k] = queue[n][k]
      /\ new[len + 1] = e
  BY AppendProperties, LenProperties DEF Inv, TypeOK, CsmaTypeOK
<1>3. /\ \A m \in Slots : Len(queue[m]) \in Nat
      /\ \A m \in Slots : queue'[m] = IF m = n THEN new ELSE queue[m]
  BY <1>1, LenProperties DEF Inv, TypeOK, CsmaTypeOK
<1> HIDE DEF new
<1>4. /\ e.pkt \in Packets /\ upper[e.pkt] # "queued"
      /\ upper' = [upper EXCEPT ![e.pkt] = "queued"]
      /\ packetMemb' = packetMemb \union {e.pkt}
      /\ metadataMemb' = metadataMemb \union {e.pkt}
      /\ queuebufs' = queuebufs \union {e.pkt}
  BY DEF SendQueued, Entry
<1>5. \A p \in Packets : upper'[p] = IF p = e.pkt THEN "queued" ELSE upper[p]
  BY <1>4 DEF Inv, TypeOK, CsmaTypeOK
<1>6. ~Placed(e.pkt)
  BY <1>4 DEF PoolsByRequest
<1>7. \A m \in Slots : \A k \in 1 .. Len(queue'[m]) :
        \/ k \in 1 .. Len(queue[m]) /\ queue'[m][k] = queue[m][k]
        \/ m = n /\ k = len + 1 /\ queue'[m][k] = e
  BY <1>2, <1>3
<1>8. \A m \in Slots : \A k \in 1 .. Len(queue[m]) :
        k \in 1 .. Len(queue'[m]) /\ queue'[m][k] = queue[m][k]
  BY <1>2, <1>3
<1>9. len + 1 \in 1 .. Len(queue'[n]) /\ queue'[n][len + 1] = e
  BY <1>2, <1>3
<1>10. \A p : Placed(p)' <=> Placed(p) \/ p = e.pkt
  BY <1>7, <1>8, <1>9 DEF Placed
<1>11. OnePlace'
  <2> SUFFICES ASSUME NEW m \in Slots, NEW l \in Slots,
                      NEW k \in 1 .. Len(queue'[m]), NEW j \in 1 .. Len(queue'[l]),
                      queue'[m][k].pkt = queue'[l][j].pkt
               PROVE  m = l /\ k = j
    BY DEF OnePlace
  <2>1. \A i \in Slots : \A h \in 1 .. Len(queue[i]) : queue[i][h].pkt # e.pkt
    BY <1>6 DEF Placed
  <2>2. OnePlace
    BY DEF PoolsByRequest
  <2> HIDE DEF len
  <2>3. \/ k \in 1 .. Len(queue[m]) /\ queue'[m][k] = queue[m][k]
        \/ m = n /\ k = len + 1 /\ queue'[m][k] = e
    BY <1>7
  <2>4. \/ j \in 1 .. Len(queue[l]) /\ queue'[l][j] = queue[l][j]
        \/ l = n /\ j = len + 1 /\ queue'[l][j] = e
    BY <1>7
  <2>5. CASE k \in 1 .. Len(queue[m]) /\ queue'[m][k] = queue[m][k]
    <3>1. queue[m][k].pkt # e.pkt
      BY <2>1, <2>5
    <3>2. j \in 1 .. Len(queue[l]) /\ queue[m][k].pkt = queue[l][j].pkt
      BY <3>1, <2>4, <2>5
    <3> QED
      BY <3>2, <2>2, <2>5 DEF OnePlace
  <2>6. CASE m = n /\ k = len + 1 /\ queue'[m][k] = e
    <3>1. ~(j \in 1 .. Len(queue[l]) /\ queue'[l][j] = queue[l][j])
      BY <2>1, <2>6
    <3> QED
      BY <3>1, <2>4, <2>6
  <2> QED
    BY <2>3, <2>5, <2>6
<1>12. \A p \in Packets : upper'[p] = "queued" <=> Placed(p)'
  BY <1>5, <1>10 DEF PoolsByRequest
<1>13. \A p \in Packets : /\ p \in packetMemb' <=> upper'[p] = "queued"
                          /\ p \in metadataMemb' <=> upper'[p] = "queued"
                          /\ p \in queuebufs' <=> upper'[p] = "queued"
  BY <1>4, <1>5 DEF PoolsByRequest
<1> QED
  BY <1>11, <1>12, <1>13 DEF PoolsByRequest

\* A request that is done gives its place and its blocks back; the others of its
\* queue move up.
LEMMA DonePools ==
  ASSUME Inv, PoolsByRequest, NEW n \in Slots, queue[n] # << >>,
         NEW st \in Results, NEW tx, NEW col, TxDone(n, 1, st, tx, col, timer)
  PROVE  PoolsByRequest'
<1> DEFINE q == Head(queue[n]).pkt
           rest == Tail(queue[n])
           len == Len(queue[n])
<1>1. /\ len \in Nat /\ len >= 1 /\ Len(rest) = len - 1
      /\ \A k \in 1 .. len - 1 : rest[k] = queue[n][k + 1]
      /\ queue[n][1] = Head(queue[n])
  <2>1. queue[n] \in Seq(Entry)
    BY DEF Inv, TypeOK, CsmaTypeOK
  <2> QED
    BY <2>1
<1>2. \A m \in Slots : queue'[m] = IF m = n THEN rest ELSE queue[m]
  BY DoneStep
<1>3. /\ packetMemb' = packetMemb \ {q} /\ metadataMemb' = metadataMemb \ {q}
      /\ queuebufs' = queuebufs \ {q}
      /\ upper' = [upper EXCEPT ![q] = st]
  BY DoneStep
<1>4. \A m \in Slots : Len(queue[m]) \in Nat
  BY LenProperties DEF Inv, TypeOK, CsmaTypeOK
<1>5. q = queue[n][1].pkt
  BY <1>1
<1> HIDE DEF q, rest
<1>6. \A p \in Packets : upper'[p] = IF p = q THEN st ELSE upper[p]
  BY <1>3 DEF Inv, TypeOK, CsmaTypeOK
<1>7. st # "queued"
  BY DEF Results
<1> DEFINE Shift(m, k) == IF m = n THEN k + 1 ELSE k
<1>8. \A m \in Slots : \A k \in 1 .. Len(queue'[m]) :
        /\ Shift(m, k) \in 1 .. Len(queue[m]) /\ queue'[m][k] = queue[m][Shift(m, k)]
        /\ m = n => Shift(m, k) # 1
  <2> SUFFICES ASSUME NEW m \in Slots, NEW k \in 1 .. Len(queue'[m])
               PROVE  /\ Shift(m, k) \in 1 .. Len(queue[m])
                      /\ queue'[m][k] = queue[m][Shift(m, k)]
                      /\ m = n => Shift(m, k) # 1
    OBVIOUS
  <2>1. CASE m = n
    BY <2>1, <1>1, <1>2
  <2>2. CASE m # n
    BY <2>2, <1>2, <1>4
  <2> QED
    BY <2>1, <2>2
<1>9. \A m \in Slots : \A k \in 1 .. Len(queue[m]) : m # n \/ k # 1 =>
        \E j \in 1 .. Len(queue'[m]) : k = Shift(m, j) /\ queue'[m][j] = queue[m][k]
  <2> SUFFICES ASSUME NEW m \in Slots, NEW k \in 1 .. Len(queue[m]), m # n \/ k # 1
               PROVE  \E j \in 1 .. Len(queue'[m]) :
                        k = Shift(m, j) /\ queue'[m][j] = queue[m][k]
    OBVIOUS
  <2>1. CASE m = n
    <3>1. k \in Nat /\ k # 1 /\ k <= len /\ k >= 1
      BY <2>1, <1>1
    <3>2. k - 1 \in 1 .. len - 1 /\ (k - 1) + 1 = k
      BY <3>1, <1>1
    <3>3. queue'[m] = rest
      BY <2>1, <1>2
    <3> QED
      BY <3>2, <3>3, <2>1, <1>1
  <2>2. CASE m # n
    BY <2>2, <1>2, <1>4
  <2> QED
    BY <2>1, <2>2
<1>10. \A m, l \in Slots : \A k \in 1 .. Len(queue'[m]), j \in 1 .. Len(queue'[l]) :
         m = l /\ Shift(m, k) = Shift(l, j) => k = j
  BY <1>1, <1>2, <1>4
<1> HIDE DEF Shift
<1>11. 1 \in 1 .. Len(queue[n])
  BY <1>1
<1>12. \A m \in Slots : \A k \in 1 .. Len(queue[m]) :
         queue[m][k].pkt = q => m = n /\ k = 1
  BY <1>5, <1>11 DEF PoolsByRequest, OnePlace
<1>13. \A p : Placed(p)' <=> Placed(p) /\ p # q
  <2>1. ASSUME NEW p, Placed(p)' PROVE Placed(p) /\ p # q
    BY <2>1, <1>8, <1>12 DEF Placed
  <2>2. ASSUME NEW p, Placed(p), p # q PROVE Placed(p)'
    <3>1. PICK m \in Slots : \E k \in 1 .. Len(queue[m]) : queue[m][k].pkt = p
      BY <2>2 DEF Placed
    <3>2. PICK k \in 1 .. Len(queue[m]) : queue[m][k].pkt = p
      BY <3>1
    <3>3. m # n \/ k # 1
      BY <3>2, <2>2, <1>5
    <3> QED
      BY <3>2, <3>3, <1>9 DEF Placed
  <2> QED
    BY <2>1, <2>2
<1>14. OnePlace'
  <2> SUFFICES ASSUME NEW m \in Slots, NEW l \in Slots,
                      NEW k \in 1 .. Len(queue'[m]), NEW j \in 1 .. Len(queue'[l]),
                      queue'[m][k].pkt = queue'[l][j].pkt
               PROVE  m = l /\ k = j
    BY DEF OnePlace
  <2>1. OnePlace
    BY DEF PoolsByRequest
  <2>4. PICK a \in 1 .. Len(queue[m]) : a = Shift(m, k) /\ queue'[m][k] = queue[m][a]
    BY <1>8
  <2>5. PICK b \in 1 .. Len(queue[l]) : b = Shift(l, j) /\ queue'[l][j] = queue[l][b]
    BY <1>8
  <2>6. queue[m][a].pkt = queue[l][b].pkt
    BY <2>4, <2>5
  <2>2. m = l /\ Shift(m, k) = Shift(l, j)
    BY <2>1, <2>4, <2>5, <2>6 DEF OnePlace
  <2>3. m = l /\ Shift(m, k) = Shift(l, j) => k = j
    BY <1>10, Zenon
  <2> QED
    BY <2>2, <2>3
<1>15. \A p \in Packets : upper'[p] = "queued" <=> Placed(p)'
  BY <1>6, <1>7, <1>13 DEF PoolsByRequest
<1>16. \A p \in Packets : /\ p \in packetMemb' <=> upper'[p] = "queued"
                          /\ p \in metadataMemb' <=> upper'[p] = "queued"
                          /\ p \in queuebufs' <=> upper'[p] = "queued"
  BY <1>3, <1>6, <1>7 DEF PoolsByRequest
<1> QED
  BY <1>14, <1>15, <1>16 DEF PoolsByRequest
-----------------------------------------------------------------------------
(* The steps of the layer, as seen by what is not part of Inv.             *)

\* Every step of the CSMA layer is one of six: a packet is queued; a packet
\* is refused; a timer hands a head to the RDC layer; the RDC layer asks for
\* a retransmission; the head of a queue is done; nothing but rdc changes.
LEMMA StepCases ==
  ASSUME Inv, [Next]_vars
  PROVE  \/ /\ \E d \in Dests, e \in Entry : SendQueued(d, e)
            /\ UNCHANGED attempts
         \/ /\ \E d \in Dests, p \in Packets : SendNoBuffer(p, d) \/ SendOverflow(p, d)
            /\ UNCHANGED attempts
         \/ \E n \in Slots : TransmitPacketList(n)
         \/ \E n \in Slots, tx, col \in 0 .. 255 :
              queue[n] # << >> /\ Rexmit(n, tx, col, timer)
         \/ \E n \in Slots, st \in Results, tx, col \in 0 .. 255 :
              queue[n] # << >> /\ TxDone(n, 1, st, tx, col, timer)
         \/ UNCHANGED csmaVars
<1>1. ASSUME NEW d \in Dests, NEW e \in Entry, Send(d, e)
      PROVE  \/ SendQueued(d, e) /\ UNCHANGED attempts
             \/ /\ \E p \in Packets : SendNoBuffer(p, d) \/ SendOverflow(p, d)
                /\ UNCHANGED attempts
  <2>1. e.pkt \in Packets
    BY DEF Entry
  <2> QED
    BY <1>1, <2>1 DEF Send, SendPacket
<1>2. ASSUME NEW h \in Handles, NEW s \in Results \union {"DEFERRED"},
             NEW k \in NumTxs, Answer(h, s, k)
      PROVE  \/ UNCHANGED csmaVars
             \/ \E n \in Slots, tx, col \in 0 .. 255 :
                  queue[n] # << >> /\ Rexmit(n, tx, col, timer)
             \/ \E n \in Slots, st \in Results, tx, col \in 0 .. 255 :
                  queue[n] # << >> /\ TxDone(n, 1, st, tx, col, timer)
  <2>1. /\ rdc[h] # NoReq
        /\ PacketSent(rdc[h].nbr, rdc[h].seqno, rdc[h].ifindex, s, k, timer)
    BY <1>2 DEF Answer
  <2>2. rdc[h].nbr \in Slots /\ queue[rdc[h].nbr] # << >>
    BY <2>1 DEF Inv, TypeOK, Requests, AnswerFindsHead
  <2>3. LET n == rdc[h].nbr IN
        \/ s = "DEFERRED" /\ UNCHANGED csmaVars
        \/ /\ s # "DEFERRED"
           /\ \E tx, col \in 0 .. 255 : Rexmit(n, tx, col, timer)
        \/ /\ s # "DEFERRED"
           /\ \E st \in Results, tx, col \in 0 .. 255 : TxDone(n, 1, st, tx, col, timer)
    BY <2>1, AnswerCases DEF Inv
  <2> QED
    BY <2>2, <2>3, Zenon
<1>3. CASE UNCHANGED vars
  BY <1>3 DEF vars
<1> QED
  BY <1>1, <1>2, <1>3 DEF Next

\* PoolsByRequest only needs the queues, the pools and the answers.
LEMMA PoolsUnchanged ==
  ASSUME PoolsByRequest, UNCHANGED <<queue, packetMemb, metadataMemb, queuebufs, upper>>
  PROVE  PoolsByRequest'
<1>1. \A p : Placed(p)' <=> Placed(p)
  BY DEF Placed
<1>2. OnePlace'
  BY DEF PoolsByRequest, OnePlace
<1> QED
  BY <1>1, <1>2 DEF PoolsByRequest

LEMMA PoolsNext == Inv /\ PoolsByRequest /\ [Next]_vars => PoolsByRequest'
<1> SUFFICES ASSUME Inv, PoolsByRequest, [Next]_vars PROVE PoolsByRequest'
  OBVIOUS
<1>1. ASSUME NEW d \in Dests, NEW p \in Packets, SendNoBuffer(p, d) \/ SendOverflow(p, d)
      PROVE  PoolsByRequest'
  <2>1. /\ upper[p] # "queued" /\ upper' = [upper EXCEPT ![p] = "ERR"]
        /\ UNCHANGED <<queue, packetMemb, metadataMemb, queuebufs>>
    BY <1>1, RejectStep
  <2>2. \A r \in Packets : upper'[r] = "queued" <=> upper[r] = "queued"
    BY <2>1 DEF Inv, TypeOK, CsmaTypeOK
  <2>3. \A r : Placed(r)' <=> Placed(r)
    BY <2>1 DEF Placed
  <2>4. OnePlace'
    BY <2>1 DEF PoolsByRequest, OnePlace
  <2> QED
    BY <2>1, <2>2, <2>3, <2>4 DEF PoolsByRequest
<1>2. ASSUME NEW n \in Slots, TransmitPacketList(n)
      PROVE  PoolsByRequest'
  BY <1>2, PoolsUnchanged DEF TransmitPacketList
<1>3. ASSUME NEW n \in Slots, NEW tx, NEW col, Rexmit(n, tx, col, timer)
      PROVE  PoolsByRequest'
  BY <1>3, PoolsUnchanged DEF Rexmit
<1>4. CASE UNCHANGED csmaVars
  BY <1>4, PoolsUnchanged DEF csmaVars
<1> QED
  BY <1>1, <1>2, <1>3, <1>4, StepCases, QueuedPools, DonePools

\* The neighbor blocks and the three pools hold exactly what is queued: nothing
\* is leaked and nothing is freed twice, whatever the RDC layer answers and in
\* whatever order, and every queued request is at one place of one queue.
THEOREM PoolsHold == Spec => []PoolsMatchQueues
<1>1. Init => PoolsByRequest
  <2> SUFFICES ASSUME Init PROVE PoolsByRequest
    OBVIOUS
  <2>1. \A n \in Slots : queue[n] = << >>
    BY DEF Init, CsmaInit
  <2>2. \A n \in Slots : 1 .. Len(queue[n]) = {}
    BY <2>1, EmptySeq
  <2>3. OnePlace /\ \A p : ~Placed(p)
    BY <2>2 DEF OnePlace, Placed
  <2> QED
    BY <2>3 DEF PoolsByRequest, Init, CsmaInit
<1> QED
  BY <1>1, InvHolds, PoolsNext, PoolsPointwise, PTL DEF Spec

-----------------------------------------------------------------------------
(* The counters.                                                           *)

\* The step formula of FreshCounters.
StartsAfresh ==
  \A n \in Slots :
    /\ queue'[n] # << >>
    /\ queue[n] = << >> \/ Head(queue'[n]) # Head(queue[n])
    => transmissions'[n] = 0 /\ collisions'[n] = MinBE /\ timer'[n]

LEMMA FreshStep == Inv /\ [Next]_vars => StartsAfresh
<1> SUFFICES ASSUME Inv, [Next]_vars PROVE StartsAfresh
  OBVIOUS
<1>1. ASSUME UNCHANGED queue PROVE StartsAfresh
  BY <1>1 DEF StartsAfresh
<1>2. ASSUME NEW d \in Dests, NEW e \in Entry, SendQueued(d, e)
      PROVE  StartsAfresh
  <2>1. PICK n \in Slots :
          /\ NeighborFor(n, d)
          /\ \A m \in Slots : queue'[m] = IF m = n THEN Append(queue[n], e) ELSE queue[m]
          /\ \A m \in Slots : timer'[m] = IF m = n THEN timer[n] \/ queue[n] = << >>
                                                   ELSE timer[m]
          /\ \A m \in Slots : transmissions'[m] = IF m = n /\ addr[n] # d THEN 0
                                                                    ELSE transmissions[m]
          /\ \A m \in Slots : collisions'[m] = IF m = n /\ addr[n] # d THEN MinBE
                                                                 ELSE collisions[m]
    BY <1>2, QueuedStep
  <2>2. queue[n] = << >> => addr[n] # d
    BY NoDestAssumption DEF Inv, NeighborsMatchQueues
  <2>3. queue[n] # << >> => Head(Append(queue[n], e)) = Head(queue[n])
    <3>1. queue[n] \in Seq(Entry)
      BY DEF Inv, TypeOK, CsmaTypeOK
    <3> QED
      BY <3>1, HeadTailAppend
  <2> QED
    BY <2>1, <2>2, <2>3 DEF StartsAfresh
<1>3. ASSUME NEW n \in Slots, NEW st \in Results, NEW tx, NEW col,
             queue[n] # << >>, TxDone(n, 1, st, tx, col, timer)
      PROVE  StartsAfresh
  <2>1. \A m \in Slots : queue'[m] = IF m = n THEN Tail(queue[n]) ELSE queue[m]
    BY <1>3, DoneStep
  <2>2. Tail(queue[n]) # << >> => /\ transmissions'[n] = 0
                                  /\ collisions'[n] = MinBE
                                  /\ timer'[n]
    BY <1>3, DoneStep
  <2> QED
    BY <2>1, <2>2 DEF StartsAfresh
<1>4. ASSUME NEW d \in Dests, NEW p \in Packets, SendNoBuffer(p, d) \/ SendOverflow(p, d)
      PROVE  UNCHANGED queue
  BY <1>4, RejectStep
<1>5. ASSUME NEW n \in Slots, TransmitPacketList(n) PROVE UNCHANGED queue
  BY <1>5 DEF TransmitPacketList
<1>6. ASSUME NEW n \in Slots, NEW tx, NEW col, Rexmit(n, tx, col, timer)
      PROVE  UNCHANGED queue
  BY <1>6 DEF Rexmit
<1>7. CASE UNCHANGED csmaVars
  BY <1>7, <1>1 DEF csmaVars
<1> QED
  BY <1>1, <1>2, <1>3, <1>4, <1>5, <1>6, <1>7, StepCases

\* A packet that becomes the head of a queue starts with fresh counters and a
\* pending timer: nothing of its predecessor's retries is charged to it,
\* whether the predecessor left the queue or the neighbor block was free.
THEOREM CountersStartAfresh == Spec => FreshCounters
<1>1. Inv /\ [Next]_vars => [StartsAfresh]_vars
  BY FreshStep
<1> QED
  BY <1>1, InvHolds, PTL DEF Spec, FreshCounters, StartsAfresh

\* The 8-bit counters have room for what the RDC layer reports at once.  It is
\* so for nullrdc.c, whose num_transmissions is 1, and for every radio that
\* reports fewer than 256 - max_transmissions transmissions; native-rdc.c
\* takes the byte a radio sends as it is.
NoWrap ==
  \A k \in NumTxs : (\A m \in MaxTxs : m + k <= 256) /\ MaxBackoff + k <= 255

\* The passes through the RDC layer that the two counters stand for.
Passes(t, c) == t * (MaxBackoff + 1) + c

\* The counters of the head of a queue are below its limits.
CountersWithin(n) ==
  transmissions[n] < Head(queue[n]).max /\ collisions[n] <= MaxBackoff

\* Counters below these limits that stand for one more pass at least.
Counted(n, tx, col) ==
  /\ tx < Head(queue[n]).max /\ col <= MaxBackoff
  /\ Passes(transmissions[n], collisions[n]) + 1 <= Passes(tx, col)

LEMMA U8Small == \A x \in 0 .. 255 : U8(x) = x
  BY DEF U8

LEMMA PassesType == \A t, c \in Nat : Passes(t, c) \in Nat
<1>1. MaxBackoff + 1 \in Nat
  BY BackoffAssumption
<1>2. \A x, y, z \in Nat : x * y + z \in Nat
  OBVIOUS
<1> QED
  BY <1>1, <1>2, Zenon DEF Passes

LEMMA MorePasses ==
  ASSUME NEW t \in Nat, NEW u \in Nat, t < u, NEW c \in 0 .. MaxBackoff, NEW d \in Nat
  PROVE  Passes(t, c) + 1 <= Passes(u, d)
<1>1. MaxBackoff + 1 \in Nat /\ c <= MaxBackoff /\ c \in Nat /\ MaxBackoff \in Nat
  BY BackoffAssumption
<1>2. PICK x \in Nat : u = t + 1 + x
  <2>1. u - (t + 1) \in Nat /\ u = t + 1 + (u - (t + 1))
    OBVIOUS
  <2> QED
    BY <2>1
<1>3. u * (MaxBackoff + 1) = t * (MaxBackoff + 1) + (MaxBackoff + 1) + x * (MaxBackoff + 1)
  BY <1>1, <1>2
<1>4. x * (MaxBackoff + 1) \in Nat /\ t * (MaxBackoff + 1) \in Nat
  BY <1>1
<1> QED
  BY <1>1, <1>3, <1>4 DEF Passes

\* A retransmission is counted: the counters grow by a pass at least, and the
\* packet stays below its limits.
LEMMA RetryCounts ==
  ASSUME Inv, NoWrap, NEW h \in Handles, rdc[h] # NoReq,
         NEW status \in Results \union {"DEFERRED"}, NEW ntx \in NumTxs,
         PacketSent(rdc[h].nbr, rdc[h].seqno, rdc[h].ifindex, status, ntx, timer),
         CountersWithin(rdc[h].nbr)
  PROVE  LET n == rdc[h].nbr IN
         \/ UNCHANGED csmaVars
         \/ \E tx, col \in 0 .. 255 : Rexmit(n, tx, col, timer) /\ Counted(n, tx, col)
         \/ \E st \in Results, tx, col \in 0 .. 255 : TxDone(n, 1, st, tx, col, timer)
<1> DEFINE n == rdc[h].nbr
           t == transmissions[n]
           c == collisions[n]
           limit == Head(queue[n]).max
           Goal(tx, col) == /\ Rexmit(n, tx, col, timer)
                            /\ tx < limit /\ col <= MaxBackoff
                            /\ Passes(t, c) + 1 <= Passes(tx, col)
           Done == \E st \in Results, tx, col \in 0 .. 255 :
                     TxDone(n, 1, st, tx, col, timer)
<1>1. /\ n \in Slots /\ queue[n] \in Seq(Entry) /\ queue[n] # << >>
      /\ t \in 0 .. 255 /\ c \in 0 .. MaxBackoff /\ t < limit
  <2>1. /\ n \in Slots /\ queue[n] \in Seq(Entry) /\ queue[n] # << >>
        /\ t \in 0 .. 255 /\ c \in 0 .. 255
    BY DEF Inv, TypeOK, CsmaTypeOK, Requests, AnswerFindsHead
  <2>2. t < limit /\ c <= MaxBackoff
    BY DEF CountersWithin
  <2> HIDE DEF t, c, limit
  <2> QED
    BY <2>1, <2>2, BackoffAssumption
<1>2. limit \in MaxTxs /\ queue[n][1].max = limit
  <2>1. Head(queue[n]) \in Entry /\ queue[n][1] = Head(queue[n])
    BY <1>1, HeadTailProperties
  <2> QED
    BY <2>1 DEF Entry
<1> HIDE DEF n, t, c, limit, Done
<1>3. /\ limit \in 1 .. 255 /\ ntx \in 1 .. 255
      /\ limit + ntx <= 256 /\ MaxBackoff + ntx <= 255
      /\ MinBE \in 0 .. MaxBackoff /\ MaxBackoff \in 0 .. 254
  <2>1. limit + ntx <= 256 /\ MaxBackoff + ntx <= 255
    <3>1. (\A m \in MaxTxs : m + ntx <= 256) /\ MaxBackoff + ntx <= 255
      BY DEF NoWrap
    <3> QED
      BY <3>1, <1>2
  <2>2. limit \in 1 .. 255 /\ ntx \in 1 .. 255
    BY <1>2, NumTxsAssumption, MaxTxsAssumption, Zenon
  <2> QED
    BY <2>1, <2>2, BackoffAssumption
<1>4. Dispatch(n, 1, status, ntx, timer)
  BY HeadDispatch DEF Inv, n
<1> SUFFICES \/ UNCHANGED csmaVars
             \/ \E tx, col \in 0 .. 255 : Goal(tx, col)
             \/ Done
  BY DEF n, t, c, limit, Done, Counted
<1> HIDE DEF Goal
<1>6. CASE status = "NOACK"
  <2> DEFINE tx == t + ntx
  <2>1. tx \in 0 .. 255 /\ t < tx
    BY <1>1, <1>3
  <2>6. U8(transmissions[n] + ntx) = tx
    BY <2>1, U8Small DEF t
  <2>2. IF tx >= limit THEN TxDone(n, 1, "NOACK", tx, MinBE, timer)
                     ELSE Rexmit(n, tx, MinBE, timer)
    BY <1>2, <1>4, <1>6, <2>6 DEF Dispatch, Noack, GivesUp
  <2> HIDE DEF tx
  <2>3. MinBE \in 0 .. 255 /\ MinBE <= MaxBackoff
    BY <1>3
  <2>4. CASE tx >= limit
    BY <2>1, <2>2, <2>3, <2>4, Zenon DEF Done, Results
  <2>5. CASE ~(tx >= limit)
    <3>1. tx < limit
      BY <2>1, <2>5, <1>3
    <3>2. Passes(t, c) + 1 <= Passes(tx, MinBE)
      BY <2>1, <1>1, <1>3, MorePasses
    <3> QED
      BY <3>1, <3>2, <2>1, <2>2, <2>3, <2>5, Zenon DEF Goal
  <2> QED
    BY <2>4, <2>5
<1>7. CASE status = "COLLISION"
  <2>6. c + ntx \in 0 .. 255 /\ t + 1 \in 0 .. 255 /\ t < t + 1
    BY <1>1, <1>3
  <2>1. U8(collisions[n] + ntx) = c + ntx
    BY <2>6, U8Small DEF c
  <2>2. U8(transmissions[n] + 1) = t + 1 /\ t + 1 \in 0 .. 255
    BY <2>6, U8Small DEF t
  <2>3. MinBE \in 0 .. 255 /\ MinBE <= MaxBackoff
    BY <1>3
  <2>4. CASE c + ntx > MaxBackoff
    <3>1. IF t + 1 >= limit THEN TxDone(n, 1, "COLLISION", t + 1, MinBE, timer)
                          ELSE Rexmit(n, t + 1, MinBE, timer)
      BY <1>2, <1>4, <1>7, <2>1, <2>2, <2>4 DEF Dispatch, Collision, Charged, GivesUp
    <3>2. CASE t + 1 >= limit
      BY <3>1, <3>2, <2>2, <2>3, Zenon DEF Done, Results
    <3>3. CASE ~(t + 1 >= limit)
      <4>1. t + 1 < limit
        BY <3>3, <1>1, <1>3
      <4>2. t \in Nat /\ t + 1 \in Nat /\ MinBE \in Nat /\ t < t + 1
        BY <1>1, <1>3
      <4>3. Passes(t, c) + 1 <= Passes(t + 1, MinBE)
        BY <4>2, <1>1, MorePasses
      <4> QED
        BY <4>1, <4>3, <3>1, <3>3, <2>2, <2>3, Zenon DEF Goal
    <3> QED
      BY <3>2, <3>3
  <2>5. CASE ~(c + ntx > MaxBackoff)
    <3>1. IF t >= limit THEN TxDone(n, 1, "COLLISION", t, c + ntx, timer)
                      ELSE Rexmit(n, t, c + ntx, timer)
      BY <1>2, <1>4, <1>7, <2>1, <2>5 DEF Dispatch, Collision, Charged, GivesUp, t
    <3>2. Rexmit(n, t, c + ntx, timer)
      <4>1. ~(t >= limit)
        BY <1>1, <1>3
      <4> QED
        BY <3>1, <4>1
    <3>3. c + ntx <= MaxBackoff /\ c + ntx \in 0 .. 255
      BY <2>5, <1>1, <1>3
    <3>4. Passes(t, c) + 1 <= Passes(t, c + ntx)
      <4>1. t * (MaxBackoff + 1) \in Nat
        BY <1>1, <1>3
      <4> QED
        BY <4>1, <1>1, <1>3 DEF Passes
    <3> QED
      BY <3>2, <3>3, <3>4, <1>1, Zenon DEF Goal
  <2> QED
    BY <2>4, <2>5
<1>8. CASE status = "OK"
  <2>1. TxDone(n, 1, "OK", U8(t + ntx), MinBE, timer)
    BY <1>4, <1>8 DEF Dispatch, TxOk, t
  <2>2. t + ntx \in Nat /\ MinBE \in 0 .. 255
    <3>1. \A x \in 0 .. 255, y \in 1 .. 255 : x + y \in Nat
      OBVIOUS
    <3>2. MinBE \in 0 .. 255
      BY <1>3
    <3> QED
      BY <3>1, <3>2, <1>1, <1>3, Zenon
  <2>3. U8(t + ntx) \in 0 .. 255
    BY <2>2, U8Type, Zenon
  <2> QED
    BY <2>1, <2>2, <2>3, Zenon DEF Done, Results
<1>9. CASE status \in {"ERR", "FATAL"}
  <2>1. TxDone(n, 1, status, t, c, timer)
    BY <1>4, <1>9 DEF Dispatch, t, c
  <2>2. c \in 0 .. 255
    BY <1>1, <1>3
  <2> QED
    BY <2>1, <2>2, <1>1, <1>9, Zenon DEF Done, Results
<1>10. CASE status = "DEFERRED"
  BY <1>4, <1>10 DEF Dispatch, csmaVars
<1> QED
  BY <1>6, <1>7, <1>8, <1>9, <1>10 DEF Results

\* The packet at the head of n was not handed down more often than counted.
Spent(n) ==
  attempts[n] <= Passes(transmissions[n], collisions[n]) + (IF timer[n] THEN 0 ELSE 1)

\* WithinBudget, queue by queue; an empty queue was handed down no times.
BudgetOf(n) ==
  /\ queue[n] = << >> => attempts[n] = 0
  /\ queue[n] # << >> => CountersWithin(n) /\ Spent(n)
Budget == \A n \in Slots : BudgetOf(n)

\* A packet that becomes the head of a queue is within its budget.
LEMMA FreshWithin ==
  ASSUME TypeOK', NEW n \in Slots, attempts'[n] = 0,
         queue'[n] # << >> => transmissions'[n] = 0 /\ collisions'[n] = MinBE
  PROVE  BudgetOf(n)'
<1> SUFFICES ASSUME queue'[n] # << >> PROVE CountersWithin(n)' /\ Spent(n)'
  BY DEF BudgetOf
<1> DEFINE limit == Head(queue'[n]).max
<1>1. Head(queue'[n]) \in Entry
  <2>1. queue'[n] \in Seq(Entry)
    BY DEF TypeOK, CsmaTypeOK
  <2> QED
    BY <2>1, HeadTailProperties
<1>2. limit \in 1 .. 255
  BY <1>1, MaxTxsAssumption DEF Entry
<1>3. MinBE \in 0 .. MaxBackoff /\ MaxBackoff \in 0 .. 254
  BY BackoffAssumption
<1> HIDE DEF limit
<1>4. 0 < limit /\ MinBE <= MaxBackoff
  BY <1>2, <1>3
<1>5. CountersWithin(n)'
  BY <1>4 DEF CountersWithin, limit
<1>6. Passes(0, MinBE) \in Nat
  BY <1>3, PassesType
<1>7. 0 <= Passes(0, MinBE) /\ 0 <= Passes(0, MinBE) + 1 /\ Passes(0, MinBE) + 0 = Passes(0, MinBE)
  BY <1>6
<1>8. Passes(transmissions[n], collisions[n])' = Passes(0, MinBE)
  BY DEF Passes
<1>9. Spent(n)'
  BY <1>7, <1>8 DEF Spent
<1> QED
  BY <1>5, <1>9

\* A queue that a step leaves alone, as far as the head is concerned.
LEMMA BudgetKept ==
  ASSUME NEW n \in Slots, BudgetOf(n),
         queue'[n] = << >> <=> queue[n] = << >>,
         attempts'[n] = attempts[n],
         queue[n] # << >> => /\ Head(queue'[n]) = Head(queue[n])
                             /\ transmissions'[n] = transmissions[n]
                             /\ collisions'[n] = collisions[n]
                             /\ timer'[n] = timer[n]
  PROVE  BudgetOf(n)'
<1>1. queue[n] # << >> => CountersWithin(n)'
  BY DEF BudgetOf, CountersWithin
<1>2. queue[n] # << >> => Spent(n)'
  BY DEF BudgetOf, Spent, Passes
<1> QED
  BY <1>1, <1>2 DEF BudgetOf

LEMMA BudgetQueued ==
  ASSUME Inv, Inv', Budget, NEW d \in Dests, NEW e \in Entry, SendQueued(d, e),
         UNCHANGED attempts
  PROVE  Budget'
<1>1. PICK n \in Slots :
        /\ NeighborFor(n, d)
        /\ \A m \in Slots : queue'[m] = IF m = n THEN Append(queue[n], e) ELSE queue[m]
        /\ \A m \in Slots : timer'[m] = IF m = n THEN timer[n] \/ queue[n] = << >>
                                                 ELSE timer[m]
        /\ \A m \in Slots : transmissions'[m] = IF m = n /\ addr[n] # d THEN 0
                                                                  ELSE transmissions[m]
        /\ \A m \in Slots : collisions'[m] = IF m = n /\ addr[n] # d THEN MinBE
                                                               ELSE collisions[m]
  BY QueuedStep
<1>2. queue[n] \in Seq(Entry) /\ timer[n] \in BOOLEAN
  BY DEF Inv, TypeOK, CsmaTypeOK
<1>3. /\ Append(queue[n], e) # << >>
      /\ queue[n] # << >> => Head(Append(queue[n], e)) = Head(queue[n])
  BY <1>2, AppendProperties, HeadTailAppend
<1>4. /\ queue[n] = << >> => addr[n] # d
      /\ queue[n] # << >> => addr[n] = d
  BY <1>1, NoDestAssumption DEF Inv, NeighborsMatchQueues, NeighborFor, FreeSlots
<1> SUFFICES ASSUME NEW m \in Slots PROVE BudgetOf(m)'
  BY DEF Budget
<1>5. CASE m = n /\ queue[n] = << >>
  <2>1. transmissions'[m] = 0 /\ collisions'[m] = MinBE /\ attempts'[m] = 0
    BY <1>1, <1>4, <1>5 DEF Budget, BudgetOf
  <2> QED
    BY <2>1, FreshWithin DEF Inv
<1>6. CASE ~(m = n /\ queue[n] = << >>)
  <2>1. /\ transmissions'[m] = transmissions[m] /\ collisions'[m] = collisions[m]
        /\ timer'[m] = timer[m]
        /\ queue'[m] = << >> <=> queue[m] = << >>
        /\ queue[m] # << >> => Head(queue'[m]) = Head(queue[m])
    BY <1>1, <1>2, <1>3, <1>4, <1>6
  <2> QED
    BY <2>1, BudgetKept DEF Budget
<1> QED
  BY <1>5, <1>6

LEMMA BudgetTransmit ==
  ASSUME Inv, Budget, NEW n \in Slots, TransmitPacketList(n)
  PROVE  Budget'
<1>1. /\ timer[n] /\ queue[n] # << >>
      /\ \A m \in Slots : timer'[m] = IF m = n THEN FALSE ELSE timer[m]
      /\ \A m \in Slots : attempts'[m] = IF m = n THEN attempts[n] + 1 ELSE attempts[m]
      /\ UNCHANGED <<queue, transmissions, collisions>>
  BY DEF TransmitPacketList, Inv, TypeOK, CsmaTypeOK
<1> SUFFICES ASSUME NEW m \in Slots PROVE BudgetOf(m)'
  BY DEF Budget
<1>2. CASE m # n
  BY <1>1, <1>2, BudgetKept DEF Budget
<1>3. CASE m = n
  <2> DEFINE passes == Passes(transmissions[n], collisions[n])
  <2>1. CountersWithin(n)'
    BY <1>1 DEF Budget, BudgetOf, CountersWithin
  <2>2. attempts[n] <= passes + 0
    BY <1>1 DEF Budget, BudgetOf, Spent
  <2>3. attempts[n] \in Nat /\ passes \in Nat
    <3>1. transmissions[n] \in 0 .. 255 /\ collisions[n] \in 0 .. 255 /\ attempts[n] \in Nat
      BY DEF Inv, TypeOK, CsmaTypeOK
    <3>2. transmissions[n] \in Nat /\ collisions[n] \in Nat
      BY <3>1
    <3> QED
      BY <3>1, <3>2, PassesType
  <2>4. passes' = passes
    BY <1>1 DEF Passes
  <2> HIDE DEF passes
  <2>5. attempts[n] + 1 <= passes + 1
    BY <2>2, <2>3
  <2>6. Spent(n)'
    BY <1>1, <2>4, <2>5 DEF Spent, passes
  <2> QED
    BY <1>1, <1>3, <2>1, <2>6 DEF BudgetOf
<1> QED
  BY <1>2, <1>3

\* A retransmission is within the budget, and so is the successor of a packet
\* that is done.
LEMMA BudgetRexmit ==
  ASSUME Inv, Budget, NEW n \in Slots, queue[n] # << >>, ~timer[n],
         NEW tx \in 0 .. 255, NEW col \in 0 .. 255,
         Rexmit(n, tx, col, timer), Counted(n, tx, col), UNCHANGED attempts
  PROVE  Budget'
<1>1. /\ UNCHANGED queue
      /\ \A m \in Slots : timer'[m] = IF m = n THEN TRUE ELSE timer[m]
      /\ \A m \in Slots : transmissions'[m] = IF m = n THEN tx ELSE transmissions[m]
      /\ \A m \in Slots : collisions'[m] = IF m = n THEN col ELSE collisions[m]
  BY DEF Rexmit, Inv, TypeOK, CsmaTypeOK
<1> SUFFICES ASSUME NEW m \in Slots PROVE BudgetOf(m)'
  BY DEF Budget
<1>2. CASE m # n
  BY <1>1, <1>2, BudgetKept DEF Budget
<1>3. CASE m = n
  <2> DEFINE a == attempts[n]
             old == Passes(transmissions[n], collisions[n])
             new == Passes(tx, col)
  <2>1. CountersWithin(n)'
    BY <1>1 DEF Counted, CountersWithin
  <2>2. a <= old + 1 /\ old + 1 <= new
    BY DEF Budget, BudgetOf, Spent, Counted
  <2>3. a \in Nat /\ old \in Nat /\ new \in Nat
    <3>1. transmissions[n] \in 0 .. 255 /\ collisions[n] \in 0 .. 255 /\ a \in Nat
      BY DEF Inv, TypeOK, CsmaTypeOK
    <3>2. 0 .. 255 \subseteq Nat
      OBVIOUS
    <3> QED
      BY <3>1, <3>2, PassesType
  <2>4. Passes(transmissions[n], collisions[n])' = new
    BY <1>1 DEF Passes
  <2> HIDE DEF a, old, new
  <2>5. a <= new + 0
    BY <2>2, <2>3
  <2>6. Spent(n)'
    BY <1>1, <2>4, <2>5 DEF Spent, a
  <2> QED
    BY <1>1, <1>3, <2>1, <2>6 DEF BudgetOf
<1> QED
  BY <1>2, <1>3

LEMMA BudgetDone ==
  ASSUME Inv, Inv', Budget, NEW n \in Slots, queue[n] # << >>,
         NEW st \in Results, NEW tx, NEW col, TxDone(n, 1, st, tx, col, timer),
         attempts' = [attempts EXCEPT ![n] = IF queue'[n] = queue[n] THEN @ ELSE 0]
  PROVE  Budget'
<1>1. /\ \A m \in Slots : queue'[m] = IF m = n THEN Tail(queue[n]) ELSE queue[m]
      /\ Tail(queue[n]) # << >> => transmissions'[n] = 0 /\ collisions'[n] = MinBE
      /\ \A m \in Slots : m # n => /\ transmissions'[m] = transmissions[m]
                                   /\ collisions'[m] = collisions[m]
                                   /\ timer'[m] = timer[m]
  BY DoneStep
<1>2. Tail(queue[n]) # queue[n]
  <2>1. queue[n] \in Seq(Entry)
    BY DEF Inv, TypeOK, CsmaTypeOK
  <2>2. Len(Tail(queue[n])) = Len(queue[n]) - 1 /\ Len(queue[n]) \in Nat
    BY <2>1
  <2>3. \A x \in Nat : x - 1 # x
    OBVIOUS
  <2> QED
    BY <2>2, <2>3
<1>3. \A m \in Slots : attempts'[m] = IF m = n THEN 0 ELSE attempts[m]
  BY <1>1, <1>2 DEF Inv, TypeOK
<1> SUFFICES ASSUME NEW m \in Slots PROVE BudgetOf(m)'
  BY DEF Budget
<1>4. CASE m = n
  BY <1>1, <1>3, <1>4, FreshWithin DEF Inv
<1>5. CASE m # n
  BY <1>1, <1>3, <1>5, BudgetKept DEF Budget
<1> QED
  BY <1>4, <1>5

LEMMA BudgetAnswer ==
  ASSUME Inv, Inv', Budget, NoWrap, NEW h \in Handles,
         NEW status \in Results \union {"DEFERRED"}, NEW ntx \in NumTxs,
         Answer(h, status, ntx)
  PROVE  Budget'
<1> DEFINE n == rdc[h].nbr
<1>1. /\ rdc[h] # NoReq
      /\ PacketSent(n, rdc[h].seqno, rdc[h].ifindex, status, ntx, timer)
      /\ attempts' = [attempts EXCEPT ![n] = IF queue'[n] = queue[n] THEN @ ELSE 0]
  BY DEF Answer
<1>2. n \in Slots /\ queue[n] # << >> /\ ~timer[n]
  BY <1>1 DEF Inv, TypeOK, Requests, AnswerFindsHead, QueueServed, Outstanding
<1>3. CountersWithin(n)
  BY <1>2 DEF Budget, BudgetOf
<1>4. \/ UNCHANGED csmaVars
      \/ \E tx, col \in 0 .. 255 : Rexmit(n, tx, col, timer) /\ Counted(n, tx, col)
      \/ \E st \in Results, tx, col \in 0 .. 255 : TxDone(n, 1, st, tx, col, timer)
  BY <1>1, <1>3, RetryCounts
<1>5. queue' = queue => UNCHANGED attempts
  BY <1>1, <1>2 DEF Inv, TypeOK
<1> HIDE DEF n
<1>6. CASE UNCHANGED csmaVars
  BY <1>5, <1>6, BudgetKept DEF Budget, csmaVars
<1>7. ASSUME NEW tx \in 0 .. 255, NEW col \in 0 .. 255,
             Rexmit(n, tx, col, timer), Counted(n, tx, col)
      PROVE  Budget'
  <2>1. UNCHANGED attempts
    BY <1>5, <1>7 DEF Rexmit
  <2> QED
    BY <1>2, <1>7, <2>1, BudgetRexmit
<1>8. ASSUME NEW st \in Results, NEW tx \in 0 .. 255, NEW col \in 0 .. 255,
             TxDone(n, 1, st, tx, col, timer)
      PROVE  Budget'
  BY <1>1, <1>2, <1>8, BudgetDone
<1> QED
  BY <1>4, <1>6, <1>7, <1>8

LEMMA BudgetNext == Inv /\ Inv' /\ Budget /\ NoWrap /\ [Next]_vars => Budget'
<1> SUFFICES ASSUME Inv, Inv', Budget, NoWrap, [Next]_vars PROVE Budget'
  OBVIOUS
<1>1. ASSUME NEW d \in Dests, NEW e \in Entry, Send(d, e)
      PROVE  Budget'
  <2>1. e.pkt \in Packets
    BY DEF Entry
  <2>2. ASSUME SendNoBuffer(e.pkt, d) \/ SendOverflow(e.pkt, d) PROVE Budget'
    <3>1. /\ UNCHANGED <<queue, timer, attempts>>
          /\ \A m \in Slots : queue[m] # << >> => /\ transmissions'[m] = transmissions[m]
                                                  /\ collisions'[m] = collisions[m]
      BY <1>1, <2>1, <2>2, RejectStep DEF Send
    <3> QED
      BY <3>1, BudgetKept DEF Budget
  <2> QED
    BY <1>1, <2>2, BudgetQueued DEF Send, SendPacket
<1>2. ASSUME NEW n \in Slots, TransmitPacketList(n) PROVE Budget'
  BY <1>2, BudgetTransmit
<1>3. ASSUME NEW h \in Handles, NEW s \in Results \union {"DEFERRED"},
             NEW k \in NumTxs, Answer(h, s, k)
      PROVE  Budget'
  BY <1>3, BudgetAnswer
<1>4. CASE UNCHANGED vars
  BY <1>4, BudgetKept DEF Budget, vars, csmaVars
<1> QED
  BY <1>1, <1>2, <1>3, <1>4 DEF Next

\* As long as what the RDC layer reports at once does not make the 8-bit
\* counters wrap, a packet never stays in its queue beyond its budget: fewer
\* than max_transmissions transmissions are counted, and each of them stands
\* for at most CSMA_MAX_BACKOFF + 1 passes through the RDC layer.
THEOREM StaysWithinBudget ==
  ASSUME NoWrap
  PROVE  Spec => []WithinBudget
<1>1. Init => Budget
  BY DEF Init, CsmaInit, Budget, BudgetOf
<1>2. Budget => WithinBudget
  BY DEF Budget, BudgetOf, CountersWithin, Spent, Passes, WithinBudget
<1>3. Inv /\ Inv' /\ Budget /\ [Next]_vars => Budget'
  BY BudgetNext
<1> QED
  BY <1>1, <1>2, <1>3, InvHolds, PTL DEF Spec

-----------------------------------------------------------------------------
(* The service.  The requests queued for a receiver are those of the one   *)
(* queue that serves it; every step of the layer is one of the service or  *)
(* leaves it alone.                                                        *)

Pkts(q) == [k \in 1 .. Len(q) |-> q[k].pkt]

LEMMA PktsProperties ==
  ASSUME NEW q \in Seq(Entry)
  PROVE  /\ Pkts(q) \in Seq(Packets) /\ Len(Pkts(q)) = Len(q)
         /\ Pkts(q) = << >> <=> q = << >>
         /\ \A e \in Entry : Pkts(Append(q, e)) = Append(Pkts(q), e.pkt)
         /\ q # << >> => /\ Head(Pkts(q)) = Head(q).pkt
                         /\ Tail(Pkts(q)) = Pkts(Tail(q))
<1>1. \A s \in Seq(Entry) : /\ Pkts(s) \in Seq(Packets) /\ Len(Pkts(s)) = Len(s)
                            /\ \A k \in 1 .. Len(s) : Pkts(s)[k] = s[k].pkt
  <2> SUFFICES ASSUME NEW s \in Seq(Entry)
               PROVE  /\ Pkts(s) \in Seq(Packets) /\ Len(Pkts(s)) = Len(s)
                      /\ \A k \in 1 .. Len(s) : Pkts(s)[k] = s[k].pkt
    OBVIOUS
  <2>1. Len(s) \in Nat /\ \A k \in 1 .. Len(s) : s[k] \in Entry
    BY LenProperties, ElementOfSeq
  <2>2. \A k \in 1 .. Len(s) : s[k].pkt \in Packets
    BY <2>1 DEF Entry
  <2> QED
    BY <2>1, <2>2 DEF Pkts
<1>2. Pkts(q) = << >> <=> q = << >>
  BY <1>1
<1>3. ASSUME NEW e \in Entry PROVE Pkts(Append(q, e)) = Append(Pkts(q), e.pkt)
  <2> DEFINE a == Append(q, e)
             b == Append(Pkts(q), e.pkt)
  <2>1. e.pkt \in Packets /\ Len(q) \in Nat
    BY LenProperties DEF Entry
  <2>2. /\ a \in Seq(Entry) /\ Len(a) = Len(q) + 1
        /\ \A k \in 1 .. Len(q) : a[k] = q[k]
        /\ a[Len(q) + 1] = e
    BY AppendProperties
  <2>3. /\ b \in Seq(Packets) /\ Len(b) = Len(q) + 1
        /\ \A k \in 1 .. Len(q) : b[k] = q[k].pkt
        /\ b[Len(q) + 1] = e.pkt
    BY <1>1, <2>1, AppendProperties
  <2>4. /\ Pkts(a) \in Seq(Packets) /\ Len(Pkts(a)) = Len(q) + 1
        /\ \A k \in 1 .. Len(q) + 1 : Pkts(a)[k] = a[k].pkt
    BY <1>1, <2>2
  <2> HIDE DEF a, b
  <2>5. \A k \in 1 .. Len(q) + 1 : k \in 1 .. Len(q) \/ k = Len(q) + 1
    BY <2>1
  <2>6. \A k \in 1 .. Len(q) + 1 : Pkts(a)[k] = b[k]
    BY <2>2, <2>3, <2>4, <2>5
  <2>7. Pkts(a) = b
    BY <2>3, <2>4, <2>6, SeqEqual
  <2> QED
    BY <2>7 DEF a, b
<1>4. ASSUME q # << >> PROVE Tail(Pkts(q)) = Pkts(Tail(q))
  <2> DEFINE a == Tail(q)
             b == Tail(Pkts(q))
  <2>1. /\ a \in Seq(Entry) /\ Len(a) = Len(q) - 1
        /\ \A k \in 1 .. Len(a) : a[k] = q[k + 1]
    BY <1>4, HeadTailProperties
  <2>2. /\ b \in Seq(Packets) /\ Len(b) = Len(q) - 1
        /\ \A k \in 1 .. Len(b) : b[k] = Pkts(q)[k + 1]
    BY <1>1, <1>2, <1>4, HeadTailProperties
  <2>3. /\ Pkts(a) \in Seq(Packets) /\ Len(Pkts(a)) = Len(a)
        /\ \A k \in 1 .. Len(a) : Pkts(a)[k] = a[k].pkt
    BY <1>1, <2>1
  <2>4. Len(q) \in Nat
    BY LenProperties
  <2> HIDE DEF a, b
  <2>5. \A k \in 1 .. Len(q) - 1 : k + 1 \in 1 .. Len(q)
    BY <2>4
  <2>6. \A k \in 1 .. Len(q) - 1 : Pkts(a)[k] = b[k]
    <3>1. \A k \in 1 .. Len(q) : Pkts(q)[k] = q[k].pkt
      BY <1>1
    <3>2. \A k \in 1 .. Len(q) - 1 : /\ Pkts(a)[k] = a[k].pkt
                                    /\ a[k] = q[k + 1]
                                    /\ b[k] = Pkts(q)[k + 1]
      BY <2>1, <2>2, <2>3
    <3> QED
      BY <2>5, <3>1, <3>2, Zenon
  <2>7. Pkts(a) = b
    BY <2>1, <2>2, <2>3, <2>6, SeqEqual
  <2> QED
    BY <2>7 DEF a, b
<1>5. ASSUME q # << >> PROVE Head(Pkts(q)) = Head(q).pkt
  <2>1. 1 \in 1 .. Len(q)
    BY <1>5, EmptySeq
  <2>2. Head(q) = q[1] /\ Head(Pkts(q)) = Pkts(q)[1]
    OBVIOUS
  <2> QED
    BY <1>1, <2>1, <2>2
<1> QED
  BY <1>1, <1>2, <1>3, <1>4, <1>5

\* The requests of a receiver: those of its neighbor block, if it has one.
PendingAsQueued ==
  \A d \in Dests :
    /\ \A n \in Slots : addr[n] = d => PendingOf(d) = Pkts(queue[n])
    /\ (\A n \in Slots : addr[n] # d) => PendingOf(d) = << >>

LEMMA PendingFacts == Inv => PendingAsQueued
<1> SUFFICES ASSUME Inv, NEW d \in Dests
             PROVE  /\ \A n \in Slots : addr[n] = d => PendingOf(d) = Pkts(queue[n])
                    /\ (\A n \in Slots : addr[n] # d) => PendingOf(d) = << >>
  BY DEF PendingAsQueued
<1>1. ASSUME NEW n \in Slots, addr[n] = d PROVE PendingOf(d) = Pkts(queue[n])
  <2>1. {m \in Slots : addr[m] = d} = {n}
    BY <1>1, NoDestAssumption DEF Inv, NeighborsMatchQueues
  <2>2. (CHOOSE m \in {n} : TRUE) = n
    OBVIOUS
  <2> QED
    BY <2>1, <2>2 DEF PendingOf, Pkts
<1>2. ASSUME \A n \in Slots : addr[n] # d PROVE PendingOf(d) = << >>
  <2>1. {m \in Slots : addr[m] = d} = {}
    BY <1>2
  <2> QED
    BY <2>1 DEF PendingOf
<1> QED
  BY <1>1, <1>2

\* The requests of a receiver are the same if its queue is.
LEMMA PendingSame ==
  ASSUME PendingAsQueued, PendingAsQueued', NEW d \in Dests,
         \A m \in Slots : addr'[m] = d <=> addr[m] = d,
         \A m \in Slots : addr[m] = d => queue'[m] = queue[m]
  PROVE  PendingOf(d)' = PendingOf(d)
<1>1. CASE \E m \in Slots : addr[m] = d
  <2>1. PICK m \in Slots : addr[m] = d
    BY <1>1
  <2>2. PendingOf(d) = Pkts(queue[m])
    BY <2>1 DEF PendingAsQueued
  <2>3. PendingOf(d)' = Pkts(queue'[m])
    BY <2>1 DEF PendingAsQueued, Pkts
  <2> QED
    BY <2>1, <2>2, <2>3
<1>2. CASE \A m \in Slots : addr[m] # d
  BY <1>2 DEF PendingAsQueued
<1> QED
  BY <1>1, <1>2

\* As long as no block serves a receiver, fewer receivers have requests than
\* there are neighbor blocks: the queue of the receiver needs one more.
LEMMA RoomForOneMore ==
  ASSUME Inv, NEW n \in Slots, addr[n] = NoDest
  PROVE  Cardinality({d \in Dests : PendingOf(d) # << >>}) < Cardinality(Slots)
<1> DEFINE served == {d \in Dests : PendingOf(d) # << >>}
           others == Slots \ {n}
           block == [d \in served |-> CHOOSE m \in Slots : addr[m] = d]
<1>1. \A d \in served : \E m \in Slots : addr[m] = d
  BY PendingFacts DEF PendingAsQueued
<1>2. \A d \in served : block[d] \in Slots /\ addr[block[d]] = d
  BY <1>1
<1>3. n \notin {block[d] : d \in served}
  BY <1>2, NoDestAssumption
<1>4. block \in Injection(served, others)
  <2>1. block \in [served -> others]
    BY <1>2, <1>3
  <2>2. \A d, e \in served : block[d] = block[e] => d = e
    BY <1>2
  <2> HIDE DEF block, served, others
  <2> QED
    BY <2>1, <2>2 DEF Injection, IsInjective
<1>5. /\ IsFiniteSet(others) /\ Cardinality(others) = Cardinality(Slots) - 1
      /\ Cardinality(Slots) \in Nat
  BY SlotsAssumption, FS_RemoveElement, FS_CardinalityType
<1> HIDE DEF served, others, block
<1>6. IsFiniteSet(served) /\ Cardinality(served) <= Cardinality(others)
  BY <1>4, <1>5, FS_Injection
<1>7. Cardinality(served) \in Nat
  BY <1>6, FS_CardinalityType
<1>8. Cardinality(served) < Cardinality(Slots)
  BY <1>5, <1>6, <1>7
<1> QED
  BY <1>8 DEF served

\* A packet that is queued is accepted.
LEMMA QueuedAccepts ==
  ASSUME Inv, Inv', NEW d \in Dests, NEW e \in Entry, SendQueued(d, e)
  PROVE  Service!Accept(e.pkt, d)
<1>1. PICK n \in Slots :
        /\ NeighborFor(n, d)
        /\ Len(queue[n]) < MaxPerNeighbor
        /\ \A m \in Slots : queue'[m] = IF m = n THEN Append(queue[n], e) ELSE queue[m]
        /\ \A m \in Slots : addr'[m] = IF m = n THEN d ELSE addr[m]
  BY QueuedStep
<1>2. PendingAsQueued /\ PendingAsQueued'
  BY PendingFacts, PTL
<1>3. queue[n] \in Seq(Entry)
  BY DEF Inv, TypeOK, CsmaTypeOK
<1>4. \/ addr[n] = d /\ queue[n] # << >>
      \/ /\ addr[n] = NoDest /\ queue[n] = << >>
         /\ \A m \in Slots : addr[m] # d
  BY <1>1, NoDestAssumption DEF NeighborFor, FreeSlots, Inv, NeighborsMatchQueues
<1>5. PendingOf(d) = Pkts(queue[n])
  <2>1. Pkts(<< >>) = << >>
    BY EmptySeq, PktsProperties
  <2> QED
    BY <1>2, <1>4, <2>1 DEF PendingAsQueued
<1>6. PendingOf(d)' = Append(PendingOf(d), e.pkt)
  <2>1. PendingOf(d)' = Pkts(queue'[n])
    BY <1>1, <1>2 DEF PendingAsQueued, Pkts
  <2>2. Pkts(queue'[n]) = Append(Pkts(queue[n]), e.pkt)
    BY <1>1, <1>3, PktsProperties
  <2> QED
    BY <2>1, <2>2, <1>5
<1>7. \A c \in Dests : c # d => PendingOf(c)' = PendingOf(c)
  <2> SUFFICES ASSUME NEW c \in Dests, c # d PROVE PendingOf(c)' = PendingOf(c)
    OBVIOUS
  <2>1. \A m \in Slots : addr'[m] = c <=> addr[m] = c
    BY <1>1, <1>4, NoDestAssumption
  <2>2. \A m \in Slots : addr[m] = c => queue'[m] = queue[m]
    BY <1>1, <1>4, NoDestAssumption
  <2> QED
    BY <2>1, <2>2, <1>2, PendingSame
<1> DEFINE pend == [c \in Dests |-> PendingOf(c)]
<1>8. pend' = [pend EXCEPT ![d] = Append(@, e.pkt)]
  BY <1>6, <1>7
<1>9. Len(pend[d]) < MaxPerNeighbor
  BY <1>1, <1>3, <1>5, PktsProperties
<1>10. pend[d] = << >> => Cardinality({c \in Dests : pend[c] # << >>}) < Cardinality(Slots)
  <2> SUFFICES ASSUME PendingOf(d) = << >>
               PROVE  Cardinality({c \in Dests : PendingOf(c) # << >>}) < Cardinality(Slots)
    <3>1. {c \in Dests : pend[c] # << >>} = {c \in Dests : PendingOf(c) # << >>}
      OBVIOUS
    <3> QED
      BY <3>1
  <2>1. queue[n] = << >>
    BY <1>3, <1>5, PktsProperties
  <2> QED
    BY <2>1, <1>4, RoomForOneMore
<1>11. upper[e.pkt] # "queued" /\ upper' = [upper EXCEPT ![e.pkt] = "queued"]
  BY DEF SendQueued
<1>12. \A S : Service!Cardinality(S) = Cardinality(S)
  BY DEF Service!Cardinality, Cardinality
<1> QED
  BY <1>8, <1>9, <1>10, <1>11, <1>12, Zenon DEF Service!Accept

\* A head that is done is completed.
LEMMA DoneCompletes ==
  ASSUME Inv, Inv', NEW n \in Slots, queue[n] # << >>,
         NEW st \in Results, NEW tx, NEW col, TxDone(n, 1, st, tx, col, timer)
  PROVE  \E d \in Dests : Service!Complete(d)
<1>1. PICK d \in Dests : addr[n] = d /\ \A m \in Slots : addr[m] = d => m = n
  BY NoDestAssumption DEF Inv, TypeOK, CsmaTypeOK, NeighborsMatchQueues
<1>2. /\ \A m \in Slots : queue'[m] = IF m = n THEN Tail(queue[n]) ELSE queue[m]
      /\ \A m \in Slots : addr'[m] = IF m = n /\ Tail(queue[n]) = << >> THEN NoDest
                                                                  ELSE addr[m]
      /\ upper' = [upper EXCEPT ![Head(queue[n]).pkt] = st]
  BY DoneStep
<1>3. PendingAsQueued /\ PendingAsQueued'
  BY PendingFacts, PTL
<1>4. queue[n] \in Seq(Entry)
  BY DEF Inv, TypeOK, CsmaTypeOK
<1>5. PendingOf(d) = Pkts(queue[n])
  BY <1>1, <1>3 DEF PendingAsQueued
<1>6. /\ PendingOf(d) # << >> /\ Head(PendingOf(d)) = Head(queue[n]).pkt
      /\ Tail(PendingOf(d)) = Pkts(Tail(queue[n]))
  BY <1>4, <1>5, PktsProperties
<1>7. PendingOf(d)' = Tail(PendingOf(d))
  <2>1. CASE Tail(queue[n]) = << >>
    <3>1. \A m \in Slots : addr'[m] # d
      BY <1>1, <1>2, <2>1, NoDestAssumption
    <3>2. PendingOf(d)' = << >>
      BY <1>1, <1>3, <3>1 DEF PendingAsQueued
    <3>3. Pkts(<< >>) = << >>
      BY EmptySeq, PktsProperties
    <3> QED
      BY <1>6, <2>1, <3>2, <3>3
  <2>2. CASE Tail(queue[n]) # << >>
    <3>1. addr'[n] = d
      BY <1>1, <1>2, <2>2
    <3>2. PendingOf(d)' = Pkts(queue'[n])
      BY <1>1, <1>3, <3>1 DEF PendingAsQueued, Pkts
    <3> QED
      BY <1>2, <1>6, <3>2
  <2> QED
    BY <2>1, <2>2
<1>8. \A c \in Dests : c # d => PendingOf(c)' = PendingOf(c)
  <2> SUFFICES ASSUME NEW c \in Dests, c # d PROVE PendingOf(c)' = PendingOf(c)
    OBVIOUS
  <2>1. \A m \in Slots : addr'[m] = c <=> addr[m] = c
    BY <1>1, <1>2, NoDestAssumption
  <2>2. \A m \in Slots : addr[m] = c => queue'[m] = queue[m]
    BY <1>1, <1>2
  <2> QED
    BY <2>1, <2>2, <1>3, PendingSame
<1> DEFINE pend == [c \in Dests |-> PendingOf(c)]
<1>9. /\ pend[d] # << >> /\ pend' = [pend EXCEPT ![d] = Tail(@)]
      /\ upper' = [upper EXCEPT ![Head(pend[d])] = st]
  BY <1>1, <1>2, <1>6, <1>7, <1>8
<1>10. st \in Service!Results
  BY DEF Results, Service!Results
<1> HIDE DEF pend
<1> QED
  BY <1>1, <1>9, <1>10 DEF Service!Complete, pend

LEMMA ServiceStep == Inv /\ Inv' /\ [Next]_vars => [Service!Next]_(Service!vars)
<1> SUFFICES ASSUME Inv, Inv', [Next]_vars
             PROVE  Service!Next \/ UNCHANGED Service!vars
  OBVIOUS
<1>1. ASSUME UNCHANGED <<addr, queue>>
      PROVE  [d \in Dests |-> PendingOf(d)]' = [d \in Dests |-> PendingOf(d)]
  BY <1>1 DEF PendingOf
<1>2. ASSUME NEW d \in Dests, NEW e \in Entry, SendQueued(d, e)
      PROVE  Service!Next
  <2>1. e.pkt \in Packets
    BY DEF Entry
  <2> QED
    BY <1>2, <2>1, QueuedAccepts DEF Service!Next
<1>3. ASSUME NEW d \in Dests, NEW p \in Packets, SendNoBuffer(p, d) \/ SendOverflow(p, d)
      PROVE  Service!Next
  <2>1. /\ upper[p] # "queued" /\ upper' = [upper EXCEPT ![p] = "ERR"]
        /\ UNCHANGED <<addr, queue>>
    BY <1>3, RejectStep
  <2>2. Service!Reject(p)
    BY <1>1, <2>1 DEF Service!Reject
  <2> QED
    BY <2>2 DEF Service!Next
<1>4. ASSUME UNCHANGED <<addr, queue, upper>> PROVE UNCHANGED Service!vars
  BY <1>1, <1>4 DEF Service!vars
<1>5. ASSUME NEW n \in Slots, TransmitPacketList(n) PROVE UNCHANGED Service!vars
  BY <1>4, <1>5 DEF TransmitPacketList
<1>6. ASSUME NEW n \in Slots, NEW tx, NEW col, Rexmit(n, tx, col, timer)
      PROVE  UNCHANGED Service!vars
  BY <1>4, <1>6 DEF Rexmit
<1>7. ASSUME NEW n \in Slots, NEW st \in Results, NEW tx, NEW col,
             queue[n] # << >>, TxDone(n, 1, st, tx, col, timer)
      PROVE  Service!Next
  BY <1>7, DoneCompletes DEF Service!Next
<1>8. CASE UNCHANGED csmaVars
  BY <1>4, <1>8 DEF csmaVars
<1> QED
  BY <1>2, <1>3, <1>5, <1>6, <1>7, <1>8, StepCases

\* What MacService says of every step; that it also completes what it accepts
\* is the liveness of ImplementsService.
ServiceSafety == Service!Init /\ [][Service!Next]_(Service!vars)

\* The CSMA layer implements the safety of the service: requests for a receiver
\* are called back in the order in which they were queued, each once, with a
\* final result or at once with MAC_TX_ERR.
THEOREM ImplementsServiceSafety == Spec => ServiceSafety
<1>1. Init => Service!Init
  <2> SUFFICES ASSUME Init PROVE Service!Init
    OBVIOUS
  <2>1. \A d \in Dests : PendingOf(d) = << >>
    BY NoDestAssumption DEF Init, CsmaInit, PendingOf
  <2> QED
    BY <2>1 DEF Init, CsmaInit, Service!Init
<1>2. Inv /\ Inv' /\ [Next]_vars => [Service!Next]_(Service!vars)
  BY ServiceStep
<1> QED
  BY <1>1, <1>2, InvHolds, PTL DEF Spec, ServiceSafety
=============================================================================
