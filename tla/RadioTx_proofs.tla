----------------------------- MODULE RadioTx_proofs -----------------------------
(***************************************************************************)
(* The transmission path as a whole (RadioTx) implements the CSMA layer    *)
(* over an RDC layer that keeps its contract (Csma): native-rdc.c, its     *)
(* slots, timeouts and retransmissions and lines that lose, delay and      *)
(* repeat what they like are such a layer.  So what Csma_proofs proves of  *)
(* Csma holds of the whole path, for every number of slots, frames, lines  *)
(* and retries.                                                            *)
(*                                                                         *)
(* The one thing that is assumed is ~Crossing: a report that comes when    *)
(* its slot serves a frame for another radio already is not modelled by    *)
(* Csma.                                                                   *)
(***************************************************************************)
EXTENDS RadioTx, TLAPS, FiniteSetTheorems, SequenceTheorems

Counted == cbCount = Cardinality(Used)
Inv == TypeOK /\ Counted

Record == [req : Reqs, retransmit : 0 .. retransmit]

-----------------------------------------------------------------------------
(* The table.                                                              *)

LEMMA UsedFinite == IsFiniteSet(Used) /\ Cardinality(Used) \in Nat
<1>1. IsFiniteSet(Sids) /\ Used \in SUBSET Sids
  BY FS_Interval, MaxCallbacksAssumption DEF Sids, Used
<1> QED
  BY <1>1, FS_Subset, FS_CardinalityType

LEMMA SlotIs ==
  ASSUME TypeOK, NEW s \in Sids, InUse(s)
  PROVE  /\ s \in Used /\ cb[s] \in Record /\ cb[s].req \in Reqs
         /\ cb[s].req.nbr \in Slots /\ cb[s].req.ifindex \in Ifs
         /\ cb[s].retransmit \in 0 .. retransmit
<1>1. s \in Used /\ cb[s] \in Record
  BY DEF Used, InUse, TypeOK, TableTypeOK, Record
<1>2. cb[s].req \in Reqs /\ cb[s].retransmit \in 0 .. retransmit
  BY <1>1 DEF Record
<1> QED
  BY <1>1, <1>2 DEF Reqs

LEMMA SetupKeeps ==
  ASSUME Inv, NEW s \in Sids, NEW req \in Reqs, SetupCallback(s, req)
  PROVE  /\ TableTypeOK(Reqs)' /\ Counted'
         /\ ~InUse(s) /\ cb'[s].req = req /\ InUse(s)'
         /\ \A t \in Sids \ {s} : cb'[t] = cb[t]
<1> DEFINE new == [req |-> req, retransmit |-> retransmit]
<1>1. /\ cbCount < MaxCallbacks /\ ~InUse(s) /\ cbPos' = s /\ cbCount' = cbCount + 1
      /\ cb' = [cb EXCEPT ![s] = new] /\ retransmit' = retransmit
  BY MaxCallbacksAssumption DEF SetupCallback, TableFull, NextSlot, Inv, TypeOK, TableTypeOK
<1>2. retransmit \in Nat /\ new \in Record /\ new # Unused /\ new.req = req
  <2>1. retransmit \in Nat
    BY RetransmitsAssumption DEF Inv, TypeOK, TableTypeOK
  <2>2. new \in [req : Reqs, retransmit : Nat]
    BY <2>1
  <2> QED
    BY <2>1, <2>2, UnusedAssumption DEF Record
<1> HIDE DEF new
<1>3. /\ cb' \in [Sids -> Record \union {Unused}]
      /\ cb'[s] = new /\ \A t \in Sids \ {s} : cb'[t] = cb[t]
  BY <1>1, <1>2 DEF Inv, TypeOK, TableTypeOK, Record
<1>4. Used' = Used \union {s} /\ s \notin Used
  BY <1>1, <1>2, <1>3 DEF Used, InUse
<1>5. Counted'
  BY <1>1, <1>4, UsedFinite, FS_AddElement DEF Inv, Counted
<1>6. TableTypeOK(Reqs)'
  BY <1>1, <1>3, MaxCallbacksAssumption DEF Inv, TypeOK, TableTypeOK, Record
<1> QED
  BY <1>1, <1>2, <1>3, <1>5, <1>6 DEF InUse

LEMMA ReleaseKeeps ==
  ASSUME Inv, NEW s \in Sids, InUse(s), ReleaseSlot(s)
  PROVE  /\ TableTypeOK(Reqs)' /\ Counted'
         /\ ~InUse(s)' /\ \A t \in Sids \ {s} : cb'[t] = cb[t]
<1>1. /\ cb' = [cb EXCEPT ![s] = Unused] /\ cbCount' = cbCount - 1
      /\ cbPos' = cbPos /\ retransmit' = retransmit
  BY DEF ReleaseSlot
<1>2. /\ cb' \in [Sids -> Record \union {Unused}]
      /\ cb'[s] = Unused /\ \A t \in Sids \ {s} : cb'[t] = cb[t]
  BY <1>1 DEF Inv, TypeOK, TableTypeOK, Record
<1>3. Used' = Used \ {s} /\ s \in Used
  BY <1>2 DEF Used, InUse
<1>4. cbCount' = Cardinality(Used') /\ Cardinality(Used') \in Nat
  <2>1. IsFiniteSet(Used') /\ Cardinality(Used') = Cardinality(Used) - 1
    BY <1>3, UsedFinite, FS_RemoveElement
  <2> QED
    BY <1>1, <2>1, FS_CardinalityType DEF Inv, Counted
<1>5. TableTypeOK(Reqs)'
  BY <1>1, <1>2, <1>4, MaxCallbacksAssumption DEF Inv, TypeOK, TableTypeOK, Record
<1> QED
  BY <1>2, <1>4, <1>5 DEF Counted, InUse

LEMMA RetransmissionKeeps ==
  ASSUME Inv, NEW s \in Sids, InUse(s), UseRetransmission(s)
  PROVE  /\ TableTypeOK(Reqs)' /\ Counted'
         /\ \A t \in Sids : (InUse(t)' <=> InUse(t)) /\ (InUse(t) => cb'[t].req = cb[t].req)
<1> DEFINE new == [cb[s] EXCEPT !.retransmit = @ - 1]
<1>1. /\ cb[s].retransmit > 0 /\ cb' = [cb EXCEPT ![s] = new]
      /\ cbCount' = cbCount /\ cbPos' = cbPos /\ retransmit' = retransmit
  BY DEF UseRetransmission
<1>2. /\ cb[s] \in Record /\ cb[s].retransmit \in 0 .. retransmit /\ retransmit \in Nat
  BY SlotIs, RetransmitsAssumption DEF Inv, TypeOK, TableTypeOK
<1>3. cb[s].retransmit - 1 \in 0 .. retransmit
  BY <1>1, <1>2
<1>4. new \in Record /\ new.req = cb[s].req
  BY <1>2, <1>3 DEF Record
<1>5. new # Unused
  <2>1. new \in [req : Reqs, retransmit : Nat]
    BY <1>2, <1>4 DEF Record
  <2> QED
    BY <2>1, UnusedAssumption
<1> HIDE DEF new
<1>6. /\ cb' \in [Sids -> Record \union {Unused}]
      /\ cb'[s] = new /\ \A t \in Sids \ {s} : cb'[t] = cb[t]
  BY <1>1, <1>4 DEF Inv, TypeOK, TableTypeOK, Record
<1>7. \A t \in Sids : (InUse(t)' <=> InUse(t)) /\ (InUse(t) => cb'[t].req = cb[t].req)
  BY <1>4, <1>5, <1>6 DEF InUse
<1>8. Used' = Used
  BY <1>7 DEF Used
<1>9. TableTypeOK(Reqs)' /\ Counted'
  BY <1>1, <1>6, <1>8 DEF Inv, TypeOK, TableTypeOK, Counted, Record
<1> QED
  BY <1>7, <1>9

-----------------------------------------------------------------------------
(* The types of what csma.c and the lines do.                              *)

LEMMA QueuedTyped ==
  ASSUME CsmaTypeOK, NEW d \in Dests, NEW e \in Entry, SendQueued(d, e)
  PROVE  CsmaTypeOK'
<1>1. e.pkt \in Packets /\ "queued" \in {"idle", "queued"} \union Results
  BY DEF Entry
<1>2. PICK n \in Slots :
        /\ addr' = [addr EXCEPT ![n] = d]
        /\ queue' = [queue EXCEPT ![n] = Append(@, e)]
        /\ transmissions' = [transmissions EXCEPT ![n] = IF addr[n] = d THEN @ ELSE 0]
        /\ collisions' = [collisions EXCEPT ![n] = IF addr[n] = d THEN @ ELSE MinBE]
        /\ timer' = [timer EXCEPT ![n] = @ \/ StartsTimer(n)]
  BY DEF SendQueued, Enqueue
<1>3. queue' \in [Slots -> Seq(Entry)]
  <2>1. Append(queue[n], e) \in Seq(Entry)
    BY AppendProperties DEF CsmaTypeOK
  <2> QED
    BY <1>2, <2>1 DEF CsmaTypeOK
<1>4. MinBE \in 0 .. 255 /\ 0 \in 0 .. 255
  BY BackoffAssumption
<1>5. addr' \in [Slots -> Dests \union {NoDest}] /\ transmissions' \in [Slots -> 0 .. 255]
      /\ collisions' \in [Slots -> 0 .. 255]
  BY <1>2, <1>4 DEF CsmaTypeOK
<1>6. timer' \in [Slots -> BOOLEAN]
  <2>1. (timer[n] \/ StartsTimer(n)) \in BOOLEAN
    OBVIOUS
  <2> QED
    BY <1>2, <2>1 DEF CsmaTypeOK
<1>7. /\ packetMemb' \subseteq Packets /\ metadataMemb' \subseteq Packets
      /\ queuebufs' \subseteq Packets
      /\ upper' \in [Packets -> {"idle", "queued"} \union Results]
  BY <1>1 DEF SendQueued, CsmaTypeOK
<1> QED
  BY <1>3, <1>5, <1>6, <1>7 DEF CsmaTypeOK

LEMMA SendTyped ==
  ASSUME CsmaTypeOK, NEW d \in Dests, NEW e \in Entry, SendPacket(d, e)
  PROVE  CsmaTypeOK'
<1>1. e.pkt \in Packets /\ "ERR" \in {"idle", "queued"} \union Results
  BY DEF Entry, Results
<1>2. MinBE \in 0 .. 255 /\ 0 \in 0 .. 255
  BY BackoffAssumption
<1>3. CASE SendNoBuffer(e.pkt, d)
  <2>1. PICK n \in Slots :
          /\ addr' = [addr EXCEPT ![n] = IF queue[n] = << >> THEN NoDest ELSE @]
          /\ transmissions' = [transmissions EXCEPT ![n] = IF addr[n] = d THEN @ ELSE 0]
          /\ collisions' = [collisions EXCEPT ![n] = IF addr[n] = d THEN @ ELSE MinBE]
    BY <1>3 DEF SendNoBuffer
  <2>2. addr' \in [Slots -> Dests \union {NoDest}] /\ transmissions' \in [Slots -> 0 .. 255]
        /\ collisions' \in [Slots -> 0 .. 255]
    BY <1>2, <2>1 DEF CsmaTypeOK
  <2> QED
    BY <1>1, <1>3, <2>2 DEF SendNoBuffer, CsmaTypeOK
<1>4. CASE SendOverflow(e.pkt, d)
  BY <1>1, <1>4 DEF SendOverflow, CsmaTypeOK
<1> QED
  BY <1>3, <1>4, QueuedTyped DEF SendPacket

LEMMA DoneTyped ==
  ASSUME CsmaTypeOK, NEW n \in Slots, NEW k \in 1 .. Len(queue[n]), NEW status \in Results,
         NEW tx \in 0 .. 255, NEW col \in 0 .. 255, NEW armed \in [Slots -> BOOLEAN],
         TxDone(n, k, status, tx, col, armed)
  PROVE  CsmaTypeOK'
<1> DEFINE q == queue[n]
<1>1. q \in Seq(Entry) /\ Len(q) \in Nat /\ k \in Int /\ q[k] \in Entry
  BY LenProperties, ElementOfSeq DEF CsmaTypeOK
<1>2. q[k].pkt \in Packets
  BY <1>1 DEF Entry
<1>3. Without(q, k) \in Seq(Entry)
  <2>1. \A j \in 1 .. Len(q) : q[j] \in Entry
    BY <1>1, ElementOfSeq
  <2>2. SubSeq(q, 1, k - 1) \in Seq(Entry) /\ SubSeq(q, k + 1, Len(q)) \in Seq(Entry)
    BY <1>1, <2>1, SubSeqProperties
  <2> QED
    BY <2>2, ConcatProperties DEF Without
<1>4. PICK rest \in Seq(Entry), p \in Packets :
        /\ queue' = [queue EXCEPT ![n] = rest]
        /\ addr' = [addr EXCEPT ![n] = IF rest = << >> THEN NoDest ELSE @]
        /\ transmissions' = [transmissions EXCEPT ![n] = IF rest = << >> THEN tx ELSE 0]
        /\ collisions' = [collisions EXCEPT ![n] = IF rest = << >> THEN col ELSE MinBE]
        /\ timer' = [armed EXCEPT ![n] = ~(rest = << >>)]
        /\ packetMemb' = packetMemb \ {p} /\ metadataMemb' = metadataMemb \ {p}
        /\ queuebufs' = queuebufs \ {p}
        /\ upper' = [upper EXCEPT ![p] = status]
  BY <1>2, <1>3 DEF TxDone, Release, NextTransmissions
<1>5. MinBE \in 0 .. 255 /\ 0 \in 0 .. 255
  BY BackoffAssumption
<1>6. /\ queue' \in [Slots -> Seq(Entry)] /\ addr' \in [Slots -> Dests \union {NoDest}]
      /\ transmissions' \in [Slots -> 0 .. 255] /\ collisions' \in [Slots -> 0 .. 255]
  BY <1>4, <1>5 DEF CsmaTypeOK
<1>7. timer' \in [Slots -> BOOLEAN]
  BY <1>4
<1>8. /\ packetMemb' \subseteq Packets /\ metadataMemb' \subseteq Packets
      /\ queuebufs' \subseteq Packets
      /\ upper' \in [Packets -> {"idle", "queued"} \union Results]
  BY <1>4 DEF CsmaTypeOK
<1> QED
  BY <1>6, <1>7, <1>8 DEF CsmaTypeOK

LEMMA RexmitTyped ==
  ASSUME CsmaTypeOK, NEW n \in Slots, NEW tx \in 0 .. 255, NEW col \in 0 .. 255,
         NEW armed \in [Slots -> BOOLEAN], Rexmit(n, tx, col, armed)
  PROVE  CsmaTypeOK'
<1>1. /\ transmissions' \in [Slots -> 0 .. 255] /\ collisions' \in [Slots -> 0 .. 255]
      /\ timer' \in [Slots -> BOOLEAN]
  BY DEF Rexmit, CsmaTypeOK
<1> QED
  BY <1>1 DEF Rexmit, CsmaTypeOK

\* Whatever packet_sent() makes of a result, its 8-bit counters stay 8-bit counters.
LEMMA SentTyped ==
  ASSUME CsmaTypeOK, NEW n \in Slots, NEW sq, NEW inIf, NEW status \in Results,
         NEW ntx \in Nat, PacketSent(n, sq, inIf, status, ntx, timer)
  PROVE  CsmaTypeOK'
<1>1. timer \in [Slots -> BOOLEAN] /\ MinBE \in 0 .. 255
      /\ transmissions[n] \in 0 .. 255 /\ collisions[n] \in 0 .. 255
  BY BackoffAssumption DEF CsmaTypeOK
<1>2. CASE UNCHANGED <<addr, queue, transmissions, collisions,
                       packetMemb, metadataMemb, queuebufs, upper>> /\ timer' = timer
  BY <1>2 DEF CsmaTypeOK
<1>3. ASSUME NEW k \in 1 .. Len(queue[n]), Dispatch(n, k, status, ntx, timer)
      PROVE  CsmaTypeOK'
  <2>1. \A x \in Nat : U8(x) \in 0 .. 255
    BY DEF U8
  <2>2. U8(transmissions[n] + ntx) \in 0 .. 255 /\ U8(collisions[n] + ntx) \in 0 .. 255
        /\ U8(transmissions[n] + 1) \in 0 .. 255
    <3>1. PICK t \in 0 .. 255, c \in 0 .. 255 : t = transmissions[n] /\ c = collisions[n]
      BY <1>1
    <3>2. t + ntx \in Nat /\ c + ntx \in Nat /\ t + 1 \in Nat
      OBVIOUS
    <3> QED
      BY <2>1, <3>1, <3>2
  <2>3. CASE status = "OK" /\ TxOk(n, k, ntx, timer)
    BY <1>1, <2>2, <2>3, DoneTyped DEF TxOk
  <2>4. CASE status = "NOACK" /\ Noack(n, k, ntx, timer)
    <3>1. PICK tx \in 0 .. 255 : \/ TxDone(n, k, status, tx, MinBE, timer)
                                \/ Rexmit(n, tx, MinBE, timer)
      BY <2>2, <2>4 DEF Noack
    <3> QED
      BY <1>1, <3>1, DoneTyped, RexmitTyped
  <2>5. CASE status = "COLLISION" /\ Collision(n, k, ntx, timer)
    <3>1. PICK col \in 0 .. 255, tx \in 0 .. 255 :
            \/ TxDone(n, k, "COLLISION", tx, col, timer)
            \/ Rexmit(n, tx, col, timer)
      BY <1>1, <2>2, <2>5 DEF Collision, Charged
    <3> QED
      BY <1>1, <2>5, <3>1, DoneTyped, RexmitTyped
  <2>6. CASE TxDone(n, k, status, transmissions[n], collisions[n], timer)
    BY <1>1, <2>6, DoneTyped
  <2> QED
    BY <1>3, <2>3, <2>4, <2>5, <2>6 DEF Dispatch, Results
<1>4. CASE \E k \in Matches(n, sq, inIf) : Dispatch(n, k, status, ntx, timer)
  BY <1>3, <1>4 DEF Matches
<1> QED
  BY <1>2, <1>4 DEF PacketSent

-----------------------------------------------------------------------------
(* Csma speaks of csma.c in the words of CsmaMac, as RadioTx does.         *)

LEMMA SameInit == Contract!CsmaInit <=> CsmaInit
  BY DEF Contract!CsmaInit, CsmaInit

LEMMA SameSend ==
  ASSUME NEW d, NEW e PROVE Contract!SendPacket(d, e) <=> SendPacket(d, e)
<1>1. /\ \A n : Contract!NeighborFor(n, d) <=> NeighborFor(n, d)
      /\ Contract!PoolsHaveRoom <=> PoolsHaveRoom
  BY DEF Contract!NeighborFor, NeighborFor, Contract!FreeSlots, FreeSlots,
         Contract!PoolsHaveRoom, PoolsHaveRoom, Contract!Cardinality, Cardinality
<1>2. /\ Contract!SendQueued(d, e) <=> SendQueued(d, e)
      /\ Contract!SendNoBuffer(e.pkt, d) <=> SendNoBuffer(e.pkt, d)
  BY <1>1, Zenon DEF Contract!SendQueued, SendQueued, Contract!Enqueue, Enqueue,
         Contract!StartsTimer, StartsTimer, Contract!SendNoBuffer, SendNoBuffer
<1>3. Contract!SendOverflow(e.pkt, d) <=> SendOverflow(e.pkt, d)
  BY DEF Contract!SendOverflow, SendOverflow, Contract!NeighborFor, NeighborFor,
         Contract!FreeSlots, FreeSlots
<1> QED
  BY <1>1, <1>2, <1>3 DEF Contract!SendPacket, SendPacket

LEMMA SameSent ==
  ASSUME NEW n, NEW sq, NEW inIf, NEW status, NEW ntx, NEW armed
  PROVE  Contract!PacketSent(n, sq, inIf, status, ntx, armed)
           <=> PacketSent(n, sq, inIf, status, ntx, armed)
<1>1. \A k, st, tx, col : Contract!TxDone(n, k, st, tx, col, armed)
                            <=> TxDone(n, k, st, tx, col, armed)
  BY DEF Contract!TxDone, TxDone, Contract!Without, Without, Contract!Release, Release,
         Contract!NextTransmissions, NextTransmissions
<1>2. \A tx, col : Contract!Rexmit(n, tx, col, armed) <=> Rexmit(n, tx, col, armed)
  BY DEF Contract!Rexmit, Rexmit
<1>3. \A k : Contract!TxOk(n, k, ntx, armed) <=> TxOk(n, k, ntx, armed)
  BY <1>1 DEF Contract!TxOk, TxOk, Contract!U8, U8
<1>4. \A k : Contract!Noack(n, k, ntx, armed) <=> Noack(n, k, ntx, armed)
  BY <1>1, <1>2 DEF Contract!Noack, Noack, Contract!U8, U8, Contract!GivesUp, GivesUp
<1>5. \A k : Contract!Collision(n, k, ntx, armed) <=> Collision(n, k, ntx, armed)
  BY <1>1, <1>2 DEF Contract!Collision, Collision, Contract!U8, U8, Contract!GivesUp, GivesUp,
                    Contract!Charged, Charged
<1>6. \A k : Contract!Dispatch(n, k, status, ntx, armed) <=> Dispatch(n, k, status, ntx, armed)
  BY <1>1, <1>3, <1>4, <1>5 DEF Contract!Dispatch, Dispatch
<1>7. Contract!Matches(n, sq, inIf) = Matches(n, sq, inIf)
  BY DEF Contract!Matches, Matches
<1> QED
  BY <1>6, <1>7 DEF Contract!PacketSent, PacketSent

-----------------------------------------------------------------------------
(* The lines.                                                              *)

LEMMA WriteTyped ==
  ASSUME LinkTypeOK(Sids, Frames), NEW i \in Radios, NEW s \in Sids, WriteToSlip(i, s, "frame")
  PROVE  LinkTypeOK(Sids, Frames)'
<1> DEFINE new == [sid |-> s, frame |-> "frame"]
<1>1. new \in Messages(Sids, Frames)
  BY DEF Messages, Frames
<1>2. Append(down[i], new) \in Seq(Messages(Sids, Frames))
  BY <1>1, AppendProperties DEF LinkTypeOK
<1>3. /\ down' = IF InFlight(i) < LineBound THEN [down EXCEPT ![i] = Append(down[i], new)]
                                            ELSE down
      /\ up' = up
  BY DEF WriteToSlip
<1> HIDE DEF new
<1>4. down' \in [Radios -> Seq(Messages(Sids, Frames))]
  BY <1>2, <1>3 DEF LinkTypeOK
<1> QED
  BY <1>3, <1>4 DEF LinkTypeOK

LEMMA LineTyped ==
  ASSUME LinkTypeOK(Sids, Frames), NEW i \in Radios,
         RadioSends(i) \/ LoseFrame(i) \/ LoseReport(i) \/ ReadReport(i)
  PROVE  LinkTypeOK(Sids, Frames)'
<1> DEFINE M == Messages(Sids, Frames)
<1>1. down \in [Radios -> Seq(M)] /\ up \in [Radios -> Seq(M)]
  BY DEF LinkTypeOK
<1> HIDE DEF M
<1>2. down[i] # << >> => Tail(down[i]) \in Seq(M) /\ Head(down[i]) \in M
  BY <1>1, HeadTailProperties
<1>3. up[i] # << >> => Tail(up[i]) \in Seq(M)
  BY <1>1, HeadTailProperties
<1>4. down[i] # << >> => Append(up[i], Head(down[i])) \in Seq(M)
  BY <1>1, <1>2, AppendProperties
<1>5. CASE RadioSends(i)
  BY <1>1, <1>2, <1>4, <1>5 DEF RadioSends, LinkTypeOK, M
<1>6. CASE LoseFrame(i)
  BY <1>1, <1>2, <1>6 DEF LoseFrame, LinkTypeOK, M
<1>7. CASE LoseReport(i) \/ ReadReport(i)
  BY <1>1, <1>3, <1>7 DEF LoseReport, ReadReport, LinkTypeOK, M
<1> QED
  BY <1>5, <1>6, <1>7

LEMMA ReportSid ==
  ASSUME LinkTypeOK(Sids, Frames), NEW i \in Radios, ReadReport(i)
  PROVE  Head(up[i]).sid \in Sids
<1>1. Head(up[i]) \in Messages(Sids, Frames)
  BY HeadTailProperties DEF LinkTypeOK, ReadReport
<1> QED
  BY <1>1 DEF Messages

-----------------------------------------------------------------------------
(* What a step is, when the detail of table and lines is left out.         *)

\* A slot is released and its request called back, by interface i.
CalledBack(s, i, status, ntx) ==
  /\ InUse(s) /\ ReleaseSlot(s)
  /\ PacketSent(cb[s].req.nbr, cb[s].req.seqno, i, status, ntx, timer)
  /\ Attempted(cb[s].req.nbr)
  /\ Crossing \/ i = cb[s].req.ifindex

\* A transmission that stays with the RDC layer: a frame is sent again.
Again(s) == InUse(s) /\ UseRetransmission(s) /\ UNCHANGED <<csmaVars, attempts>>

LEMMA Steps ==
  ASSUME Inv, Next
  PROVE  /\ LinkTypeOK(Sids, Frames)' /\ inputIf' \in Ifs \union {UnknownIf}
         /\ \/ \E d \in Dests, e \in Entry :
                 SendPacket(d, e) /\ UNCHANGED <<tableVars, attempts>>
            \/ \E n \in Slots : TransmitPacketList(n)
            \/ \E s \in Sids, i \in Ifs, status \in Results, ntx \in TxCounts \union {1} :
                 CalledBack(s, i, status, ntx)
            \/ \E s \in Sids : Again(s)
            \/ UNCHANGED <<csmaVars, tableVars, attempts>>
<1>1. /\ LinkTypeOK(Sids, Frames) /\ inputIf \in Ifs \union {UnknownIf}
      /\ UnknownIf \in Ifs \union {UnknownIf} /\ Radios = Ifs
  BY RadiosAssumption DEF Inv, TypeOK
<1>2. ASSUME NEW d \in Dests, NEW e \in Entry, Send(d, e)
      PROVE  /\ LinkTypeOK(Sids, Frames)' /\ inputIf' \in Ifs \union {UnknownIf}
             /\ SendPacket(d, e) /\ UNCHANGED <<tableVars, attempts>>
  BY <1>1, <1>2 DEF Send, LinkTypeOK, linkVars, AfterSent
<1>3. ASSUME NEW n \in Slots, TransmitPacketList(n)
      PROVE  LinkTypeOK(Sids, Frames)' /\ inputIf' \in Ifs \union {UnknownIf}
  <2>1. Head(queue[n]) \in Entry
    BY <1>3, HeadTailProperties DEF TransmitPacketList, Inv, TypeOK, CsmaTypeOK
  <2>2. Head(queue[n]).ifindex \in Radios
    BY <1>1, <2>1 DEF Entry
  <2>3. PICK s \in Sids : WriteToSlip(Head(queue[n]).ifindex, s, "frame")
    BY <1>3 DEF TransmitPacketList
  <2> QED
    BY <1>1, <1>3, <2>2, <2>3, WriteTyped DEF TransmitPacketList
<1>4. ASSUME NEW i \in Ifs, NEW status \in Statuses, NEW ntx \in TxCounts, Report(i, status, ntx)
      PROVE  /\ LinkTypeOK(Sids, Frames)' /\ inputIf' \in Ifs \union {UnknownIf}
             /\ \/ \E s \in Sids : CalledBack(s, i, status, ntx)
                \/ UNCHANGED <<csmaVars, tableVars, attempts>>
  <2>1. i \in Radios /\ ReadReport(i) /\ inputIf' = UnknownIf
    BY <1>1, <1>4 DEF Report
  <2>2. LinkTypeOK(Sids, Frames)' /\ Head(up[i]).sid \in Sids
    BY <1>1, <2>1, LineTyped, ReportSid
  <2>3. PICK s \in Sids : s = Head(up[i]).sid
    BY <2>2
  <2>4. CASE InUse(s)
    <3>1. /\ ReleaseSlot(s) /\ Attempted(cb[s].req.nbr)
          /\ Crossing \/ i = cb[s].req.ifindex
          /\ PacketSent(cb[s].req.nbr, cb[s].req.seqno, i, status, ntx, timer)
      BY <1>4, <2>3, <2>4 DEF Report
    <3>2. CalledBack(s, i, status, ntx)
      BY <2>4, <3>1 DEF CalledBack
    <3> QED
      BY <2>1, <2>2, <3>2
  <2>5. CASE ~InUse(s)
    BY <1>4, <2>1, <2>2, <2>3, <2>5 DEF Report
  <2> QED
    BY <2>4, <2>5
<1>5. ASSUME NEW s \in Sids, PacketTimeout(s)
      PROVE  /\ LinkTypeOK(Sids, Frames)' /\ inputIf' \in Ifs \union {UnknownIf}
             /\ Again(s) \/ \E i \in Ifs : CalledBack(s, i, "NOACK", 1)
  <2>1. InUse(s) /\ cb[s].req.ifindex \in Radios
    BY <1>1, <1>5, SlotIs DEF PacketTimeout, Inv
  <2>2. CASE /\ UseRetransmission(s) /\ WriteToSlip(cb[s].req.ifindex, s, "frame")
             /\ UNCHANGED <<csmaVars, inputIf, attempts>>
    BY <1>1, <2>1, <2>2, WriteTyped DEF Again
  <2>3. CASE /\ ReleaseSlot(s) /\ inputIf' = AfterSent(TimeoutIf(s))
             /\ PacketSent(cb[s].req.nbr, cb[s].req.seqno, TimeoutIf(s), "NOACK", 1, timer)
             /\ Attempted(cb[s].req.nbr) /\ UNCHANGED linkVars
    <3>1. CalledBack(s, cb[s].req.ifindex, "NOACK", 1)
      BY <2>1, <2>3 DEF CalledBack, TimeoutIf
    <3>2. inputIf' \in Ifs \union {UnknownIf} /\ LinkTypeOK(Sids, Frames)'
      BY <1>1, <2>1, <2>3 DEF AfterSent, TimeoutIf, linkVars, LinkTypeOK
    <3> QED
      BY <1>1, <2>1, <3>1, <3>2
  <2> QED
    BY <1>5, <2>2, <2>3 DEF PacketTimeout
<1>6. ASSUME NEW i \in Ifs, Line(i)
      PROVE  /\ LinkTypeOK(Sids, Frames)' /\ inputIf' \in Ifs \union {UnknownIf}
             /\ UNCHANGED <<csmaVars, tableVars, attempts>>
  BY <1>1, <1>6, LineTyped DEF Line
<1>7. CASE PacketInput
  BY <1>1, <1>7 DEF PacketInput, linkVars, LinkTypeOK
<1>8. Statuses \subseteq Results /\ "NOACK" \in Results
  BY StatusesAssumption DEF RadioStatus, Results
<1> QED
  BY <1>2, <1>3, <1>4, <1>5, <1>6, <1>7, <1>8 DEF Next

LEMMA InitInv ==
  ASSUME Init PROVE Inv
<1>1. CsmaTypeOK
  <2>1. MinBE \in 0 .. 255 /\ << >> \in Seq(Entry)
    BY BackoffAssumption, EmptySeq
  <2> QED
    BY <2>1 DEF Init, CsmaInit, CsmaTypeOK
<1>2. TableTypeOK(Reqs) /\ Used = {} /\ cbCount = 0
  BY MaxCallbacksAssumption DEF Init, TableInit, TableTypeOK, Used, InUse, Sids
<1>3. LinkTypeOK(Sids, Frames)
  BY EmptySeq DEF Init, LinkInit, LinkTypeOK
<1> QED
  BY <1>1, <1>2, <1>3, FS_EmptySet DEF Init, Inv, TypeOK, Counted

\* The step of csma.c when its timer expires, which gives it a slot.
LEMMA TransmitIs ==
  ASSUME Inv, NEW n \in Slots, TransmitPacketList(n)
  PROVE  \E req \in Reqs, s \in Sids :
           /\ req = [nbr |-> n, seqno |-> Head(queue[n]).seqno, ifindex |-> Head(queue[n]).ifindex]
           /\ SetupCallback(s, req)
<1>1. Head(queue[n]) \in Entry
  BY HeadTailProperties DEF TransmitPacketList, Inv, TypeOK, CsmaTypeOK
<1>2. [nbr |-> n, seqno |-> Head(queue[n]).seqno, ifindex |-> Head(queue[n]).ifindex] \in Reqs
  BY <1>1 DEF Entry, Reqs
<1> QED
  BY <1>2 DEF TransmitPacketList

LEMMA InvNext ==
  ASSUME Inv, [Next]_vars PROVE Inv'
<1>1. /\ CsmaTypeOK /\ TableTypeOK(Reqs) /\ Counted /\ attempts \in [Slots -> Nat]
  BY DEF Inv, TypeOK
<1>2. CASE UNCHANGED vars
  BY <1>2 DEF vars, csmaVars, tableVars, linkVars, Inv, TypeOK, CsmaTypeOK, TableTypeOK,
              LinkTypeOK, Counted, Used, InUse
<1>3. CASE Next
  <2>1. LinkTypeOK(Sids, Frames)' /\ inputIf' \in Ifs \union {UnknownIf}
    BY <1>3, Steps
  <2> SUFFICES CsmaTypeOK' /\ TableTypeOK(Reqs)' /\ Counted' /\ attempts' \in [Slots -> Nat]
    BY <2>1 DEF Inv, TypeOK
  <2>2. ASSUME UNCHANGED tableVars PROVE TableTypeOK(Reqs)' /\ Counted'
    BY <1>1, <2>2 DEF tableVars, TableTypeOK, Counted, Used, InUse
  <2>3. ASSUME UNCHANGED csmaVars PROVE CsmaTypeOK'
    BY <1>1, <2>3 DEF csmaVars, CsmaTypeOK
  <2>4. ASSUME NEW d \in Dests, NEW e \in Entry, SendPacket(d, e),
               UNCHANGED <<tableVars, attempts>>
        PROVE  CsmaTypeOK' /\ TableTypeOK(Reqs)' /\ Counted' /\ attempts' \in [Slots -> Nat]
    BY <1>1, <2>2, <2>4, SendTyped
  <2>5. ASSUME NEW n \in Slots, TransmitPacketList(n)
        PROVE  CsmaTypeOK' /\ TableTypeOK(Reqs)' /\ Counted' /\ attempts' \in [Slots -> Nat]
    <3>1. TableTypeOK(Reqs)' /\ Counted'
      BY <2>5, TransmitIs, SetupKeeps
    <3>2. attempts' \in [Slots -> Nat]
      BY <1>1, <2>5 DEF TransmitPacketList
    <3>3. CsmaTypeOK'
      BY <1>1, <2>5 DEF TransmitPacketList, CsmaTypeOK
    <3> QED
      BY <3>1, <3>2, <3>3
  <2>6. ASSUME NEW s \in Sids, NEW i \in Ifs, NEW status \in Results,
               NEW ntx \in TxCounts \union {1}, CalledBack(s, i, status, ntx)
        PROVE  CsmaTypeOK' /\ TableTypeOK(Reqs)' /\ Counted' /\ attempts' \in [Slots -> Nat]
    <3>1. TableTypeOK(Reqs)' /\ Counted'
      BY <2>6, ReleaseKeeps DEF CalledBack
    <3>2. cb[s].req.nbr \in Slots /\ ntx \in Nat
      BY <2>6, SlotIs, TxCountsAssumption DEF CalledBack, Inv
    <3>3. attempts' \in [Slots -> Nat]
      BY <1>1, <2>6, <3>2 DEF CalledBack, Attempted
    <3>4. CsmaTypeOK'
      BY <1>1, <2>6, <3>2, SentTyped DEF CalledBack
    <3> QED
      BY <3>1, <3>3, <3>4
  <2>7. ASSUME NEW s \in Sids, Again(s)
        PROVE  CsmaTypeOK' /\ TableTypeOK(Reqs)' /\ Counted' /\ attempts' \in [Slots -> Nat]
    BY <1>1, <2>3, <2>7, RetransmissionKeeps DEF Again
  <2>8. ASSUME UNCHANGED <<csmaVars, tableVars, attempts>>
        PROVE  CsmaTypeOK' /\ TableTypeOK(Reqs)' /\ Counted' /\ attempts' \in [Slots -> Nat]
    BY <1>1, <2>2, <2>3, <2>8
  <2> QED
    BY <1>3, <2>4, <2>5, <2>6, <2>7, <2>8, Steps
<1> QED
  BY <1>2, <1>3

LEMMA Invariance == Spec => []Inv
  BY InitInv, InvNext, PTL DEF Spec

\* The tables, lines, queues and counters of the whole path keep their types, 8-bit
\* counters and the bounds of the table included, also when a report comes so late
\* that its slot serves a frame for another radio.
THEOREM PathTyped == Spec => []TypeOK
  BY Invariance, PTL DEF Inv

-----------------------------------------------------------------------------
(* The refinement.                                                         *)

Rdc == [s \in Sids |-> IF InUse(s) THEN cb[s].req ELSE Unused]

\* What Csma says of every step; that its timers expire and every transmission is
\* answered is the liveness of ImplementsContract.
ContractSafety == Contract!Init /\ [][Contract!Next]_(Contract!vars)

LEMMA RdcIs ==
  ASSUME Inv
  PROVE  \A s \in Sids : /\ InUse(s) => Rdc[s] = cb[s].req /\ Rdc[s] # Unused
                         /\ ~InUse(s) => Rdc[s] = Unused
  BY SlotIs, UnusedAssumption DEF Rdc, Inv

\* The slots that did not change hold the same requests.
LEMMA RdcStep ==
  ASSUME NEW s \in Sids, \A t \in Sids \ {s} : cb'[t] = cb[t]
  PROVE  Rdc' = [Rdc EXCEPT ![s] = IF InUse(s)' THEN cb'[s].req ELSE Unused]
<1>1. \A t \in Sids \ {s} : InUse(t)' <=> InUse(t)
  BY DEF InUse
<1> QED
  BY <1>1 DEF Rdc

LEMMA RdcSame ==
  ASSUME \A t \in Sids : (InUse(t)' <=> InUse(t)) /\ (InUse(t) => cb'[t].req = cb[t].req)
  PROVE  Rdc' = Rdc
  BY DEF Rdc

LEMMA ContractStep ==
  ASSUME Inv, ~Crossing, [Next]_vars
  PROVE  [Contract!Next]_(Contract!vars)
<1>1. ASSUME Rdc' = Rdc, UNCHANGED <<csmaVars, attempts>> PROVE UNCHANGED Contract!vars
  BY <1>1 DEF Rdc, csmaVars, Contract!vars, Contract!csmaVars
<1>2. ASSUME UNCHANGED tableVars PROVE Rdc' = Rdc
  BY <1>2 DEF tableVars, Rdc, InUse
<1>3. ASSUME NEW d \in Dests, NEW e \in Entry, SendPacket(d, e),
             UNCHANGED <<tableVars, attempts>>
      PROVE  Contract!Next
  <2>1. Contract!Send(d, e)
    BY <1>2, <1>3, SameSend DEF Contract!Send, Rdc
  <2> QED
    BY <2>1 DEF Contract!Next, Contract!Entry, Entry
<1>4. ASSUME NEW n \in Slots, TransmitPacketList(n)
      PROVE  Contract!Next
  <2>1. PICK req \in Reqs, s \in Sids :
          /\ req = [nbr |-> n, seqno |-> Head(queue[n]).seqno, ifindex |-> Head(queue[n]).ifindex]
          /\ SetupCallback(s, req)
    BY <1>4, TransmitIs
  <2>2. /\ ~InUse(s) /\ InUse(s)' /\ cb'[s].req = req
        /\ \A t \in Sids \ {s} : cb'[t] = cb[t]
    BY <2>1, SetupKeeps
  <2>3. Rdc[s] = Unused /\ Rdc' = [Rdc EXCEPT ![s] = req]
    BY <2>2, RdcIs, RdcStep
  <2>4. Contract!TransmitPacketList(n)
    BY <1>4, <2>1, <2>3 DEF TransmitPacketList, Contract!TransmitPacketList, Rdc
  <2> QED
    BY <2>4 DEF Contract!Next
<1>5. ASSUME NEW s \in Sids, NEW i \in Ifs, NEW status \in Results,
             NEW ntx \in TxCounts \union {1}, CalledBack(s, i, status, ntx)
      PROVE  Contract!Next
  <2>1. /\ InUse(s) /\ i = cb[s].req.ifindex
        /\ PacketSent(cb[s].req.nbr, cb[s].req.seqno, i, status, ntx, timer)
        /\ Attempted(cb[s].req.nbr)
    BY <1>5 DEF CalledBack
  <2>2. ~InUse(s)' /\ \A t \in Sids \ {s} : cb'[t] = cb[t]
    BY <1>5, ReleaseKeeps DEF CalledBack
  <2>3. Rdc[s] = cb[s].req /\ Rdc[s] # Unused /\ Rdc' = [Rdc EXCEPT ![s] = Unused]
    BY <2>1, <2>2, RdcIs, RdcStep
  <2>4. status # "DEFERRED"
    BY DEF Results
  <2>5. Contract!PacketSent(Rdc[s].nbr, Rdc[s].seqno, Rdc[s].ifindex, status, ntx, timer)
    BY <2>1, <2>3, SameSent
  <2>6. Contract!Answer(s, status, ntx)
    BY <2>1, <2>3, <2>4, <2>5 DEF Contract!Answer, Attempted, Rdc
  <2> QED
    BY <2>6 DEF Contract!Next, Contract!Results, Results
<1>6. ASSUME NEW s \in Sids, Again(s) PROVE UNCHANGED Contract!vars
  BY <1>1, <1>6, RetransmissionKeeps, RdcSame DEF Again
<1>7. CASE UNCHANGED vars
  BY <1>1, <1>2, <1>7 DEF vars
<1>8. CASE Next
  BY <1>1, <1>2, <1>3, <1>4, <1>5, <1>6, <1>8, Steps
<1> QED
  BY <1>7, <1>8

\* The whole path implements the CSMA layer over an RDC layer that keeps its contract:
\* it answers each transmission once, of a packet that csma.c recognises, whatever the
\* lines lose, delay or repeat, as long as no report is so late that its slot serves a
\* frame for another radio.
THEOREM ImplementsContractSafety == ASSUME ~Crossing PROVE Spec => ContractSafety
<1>1. Init => Contract!Init
  <2> SUFFICES ASSUME Init PROVE Contract!Init
    OBVIOUS
  <2>1. Rdc = [s \in Sids |-> Unused]
    BY DEF Init, TableInit, Rdc, InUse
  <2> QED
    BY <2>1, SameInit DEF Init, Contract!Init, Rdc
<1>2. Inv /\ [Next]_vars => [Contract!Next]_(Contract!vars)
  BY ContractStep
<1> QED
  BY <1>1, <1>2, Invariance, PTL DEF Spec, ContractSafety
=============================================================================
