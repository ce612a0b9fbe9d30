----------------------------- MODULE Serial_proofs -----------------------------
(***************************************************************************)
(* Theorems about the serial line to the slip radios, seen from the two    *)
(* sides of SlipLink.                                                      *)
(*                                                                         *)
(* Above it is the table of callbacks of native-rdc.c (NativeRdc), for     *)
(* every size of the table, every number of retransmissions, frames and    *)
(* radios, and lines that lose what they like.  That a sid is in use by    *)
(* one frame rests on what the callbacks know: the frame of a slot in use  *)
(* has not been reported on (Owned).  That a report finds the frame it is  *)
(* about rests on the order in which the slots are taken: with one radio,  *)
(* the sids on the line are the last ones that were taken, without a gap   *)
(* (InOrder).                                                              *)
(*                                                                         *)
(* Below it are the bytes (SerialLine), for all frames and every size of   *)
(* the two buffers.  That frames arrive whole and in order rests on what   *)
(* is on the way: the ring from where slip_process reads on, the line and  *)
(* what is left in slip_buf are, in this order, the frames that it has not *)
(* read (Arriving), and pkt_end is the first SLIP_END in the ring          *)
(* (Pointers).                                                             *)
(***************************************************************************)
EXTENDS NativeRdc, SerialLine, FiniteSetTheorems, SequenceTheorems, WellFoundedInduction, TLAPS

-----------------------------------------------------------------------------
(* The least of some numbers, and what the functions on lists return.      *)

\* What the provers find more easily of bytes than of sequences of any set.
LEMMA BytesAssociative ==
  \A s, t, u \in Seq(Bytes) : (s \o t) \o u = s \o (t \o u)
BY ConcatAssociative

LEMMA LeastOf ==
  ASSUME NEW S \in SUBSET Nat, S # {}
  PROVE  \E x \in S : \A y \in S : x <= y
<1>1. PICK x \in S : \A y \in S : ~ (<<y, x>> \in OpToRel(<, Nat))
  BY WFMin, NatLessThanWellFounded, Zenon
<1>2. x \in Nat /\ \A y \in S : y \in Nat
  OBVIOUS
<1>3. \A y \in S : ~ (y < x)
  BY <1>1, <1>2, Zenon DEF OpToRel
<1> QED
  BY <1>2, <1>3

LEMMA RemoveFromIs ==
  ASSUME NEW S, NEW list \in Seq(S), NEW c, NoRepetition(list)
  PROVE  /\ RemoveFrom(list, c) \in Seq(S)
         /\ Len(RemoveFrom(list, c)) <= Len(list)
         /\ \A d : OnList(d, RemoveFrom(list, c)) <=> OnList(d, list) /\ d # c
         /\ NoRepetition(RemoveFrom(list, c))
<1>1. CASE ~OnList(c, list)
  BY <1>1 DEF RemoveFrom, OnList
<1>2. CASE OnList(c, list)
  <2>1. PICK n : n = Len(list)
    OBVIOUS
  <2>2. n \in Nat /\ n > 0 /\ \A j \in 1 .. n : list[j] \in S
    BY <1>2, <2>1 DEF OnList
  <2>3. \A i, j \in 1 .. n : list[i] = list[j] => i = j
    BY <2>1 DEF NoRepetition
  <2>4. PICK k : k = CHOOSE i \in 1 .. n : list[i] = c /\ \A j \in 1 .. i - 1 : list[j] # c
    OBVIOUS
  <2>5. k \in 1 .. n /\ list[k] = c
    <3>1. PICK i \in 1 .. n : list[i] = c
      BY <1>2, <2>1 DEF OnList
    <3>2. \A j \in 1 .. i - 1 : list[j] # c
      BY <2>2, <2>3, <3>1
    <3> QED
      BY <2>4, <3>1, <3>2
  <2>6. PICK rest : rest = [j \in 1 .. n - 1 |-> IF j < k THEN list[j] ELSE list[j + 1]]
    OBVIOUS
  <2>7. RemoveFrom(list, c) = rest
    BY <1>2, <2>1, <2>4, <2>6 DEF RemoveFrom
  <2>8. /\ rest \in Seq(S) /\ Len(rest) = n - 1
        /\ \A j \in 1 .. n - 1 : rest[j] = IF j < k THEN list[j] ELSE list[j + 1]
    BY <2>2, <2>6
  <2>9. \A i, j \in 1 .. n - 1 : rest[i] = rest[j] => i = j
    BY <2>2, <2>3, <2>5, <2>8
  <2>10. ASSUME NEW d
         PROVE  OnList(d, rest) <=> OnList(d, list) /\ d # c
    <3>1. ASSUME NEW j \in 1 .. n - 1, rest[j] = d
          PROVE  OnList(d, list) /\ d # c
      <4>1. CASE j < k
        BY <2>1, <2>2, <2>3, <2>5, <2>8, <3>1, <4>1 DEF OnList
      <4>2. CASE ~(j < k)
        <5>1. j + 1 \in 1 .. n /\ list[j + 1] = d /\ j + 1 # k
          BY <2>2, <2>5, <2>8, <3>1, <4>2
        <5> QED
          BY <2>1, <2>3, <2>5, <5>1 DEF OnList
      <4> QED
        BY <4>1, <4>2
    <3>2. ASSUME NEW i \in 1 .. n, list[i] = d, d # c
          PROVE  \E j \in 1 .. n - 1 : rest[j] = d
      <4>1. CASE i < k
        BY <2>2, <2>5, <2>8, <3>2, <4>1
      <4>2. CASE i > k
        <5>1. i - 1 \in 1 .. n - 1 /\ ~(i - 1 < k) /\ (i - 1) + 1 = i
          BY <2>2, <2>5, <4>2
        <5> QED
          BY <2>8, <3>2, <5>1
      <4> QED
        BY <2>2, <2>5, <3>2, <4>1, <4>2
    <3> QED
      BY <2>1, <2>8, <3>1, <3>2 DEF OnList
  <2> QED
    BY <2>1, <2>2, <2>7, <2>8, <2>9, <2>10 DEF NoRepetition
<1> QED
  BY <1>1, <1>2

LEMMA AppendIs ==
  ASSUME NEW S, NEW list \in Seq(S), NEW c \in S
  PROVE  /\ Append(list, c) \in Seq(S) /\ Len(Append(list, c)) = Len(list) + 1
         /\ \A d : OnList(d, Append(list, c)) <=> OnList(d, list) \/ d = c
         /\ NoRepetition(list) /\ ~OnList(c, list) => NoRepetition(Append(list, c))
<1>1. PICK more : more = Append(list, c)
  OBVIOUS
<1>2. /\ more \in Seq(S) /\ Len(more) = Len(list) + 1 /\ more[Len(list) + 1] = c
      /\ \A j \in 1 .. Len(list) : more[j] = list[j]
      /\ Len(list) \in Nat
  BY <1>1
<1>3. \A j \in 1 .. Len(more) : j \in 1 .. Len(list) \/ j = Len(list) + 1
  BY <1>2
<1>4. \A d : OnList(d, more) <=> OnList(d, list) \/ d = c
  BY <1>2, <1>3 DEF OnList
<1>5. NoRepetition(list) /\ ~OnList(c, list) => NoRepetition(more)
  BY <1>2, <1>3 DEF OnList, NoRepetition
<1> QED
  BY <1>1, <1>2, <1>4, <1>5

LEMMA ListAddIs ==
  ASSUME NEW S, NEW list \in Seq(S), NEW c \in S, NoRepetition(list)
  PROVE  /\ ListAdd(list, c) \in Seq(S)
         /\ \A d : OnList(d, ListAdd(list, c)) <=> OnList(d, list) \/ d = c
         /\ NoRepetition(ListAdd(list, c))
<1>1. PICK rest \in Seq(S) :
        /\ rest = RemoveFrom(list, c)
        /\ \A d : OnList(d, rest) <=> OnList(d, list) /\ d # c
        /\ NoRepetition(rest)
  BY RemoveFromIs
<1>2. /\ Append(rest, c) \in Seq(S)
      /\ \A d : OnList(d, Append(rest, c)) <=> OnList(d, rest) \/ d = c
      /\ NoRepetition(rest) /\ ~OnList(c, rest) => NoRepetition(Append(rest, c))
  BY AppendIs
<1> QED
  BY <1>1, <1>2 DEF ListAdd

\* The list without its first element.
LEMMA TailIs ==
  ASSUME NEW S, NEW list \in Seq(S), list # << >>
  PROVE  /\ Tail(list) \in Seq(S) /\ Len(Tail(list)) = Len(list) - 1 /\ Head(list) \in S
         /\ OnList(Head(list), list)
         /\ \A d : OnList(d, Tail(list)) => OnList(d, list)
         /\ \A d : OnList(d, list) => OnList(d, Tail(list)) \/ d = Head(list)
         /\ NoRepetition(list) => NoRepetition(Tail(list)) /\ ~OnList(Head(list), Tail(list))
<1>1. PICK rest : rest = Tail(list)
  OBVIOUS
<1>2. /\ rest \in Seq(S) /\ Len(rest) = Len(list) - 1 /\ Head(list) = list[1] /\ list[1] \in S
      /\ \A j \in 1 .. Len(rest) : rest[j] = list[j + 1]
      /\ Len(list) \in Nat /\ Len(list) >= 1
  BY <1>1
<1>3. \A j \in 1 .. Len(rest) : j + 1 \in 1 .. Len(list) /\ j + 1 # 1
  BY <1>2
<1>4. 1 \in 1 .. Len(list)
  BY <1>2
<1>5. \A j \in 1 .. Len(list) : j = 1 \/ \E i \in 1 .. Len(rest) : j = i + 1
  <2> SUFFICES ASSUME NEW j \in 1 .. Len(list), j # 1
               PROVE  \E i \in 1 .. Len(rest) : j = i + 1
    OBVIOUS
  <2>1. j - 1 \in 1 .. Len(rest) /\ j = j - 1 + 1
    BY <1>2
  <2> QED
    BY <2>1
<1>6. \A d : OnList(d, rest) => OnList(d, list)
  BY <1>2, <1>3 DEF OnList
<1>7. \A d : OnList(d, list) => OnList(d, rest) \/ d = list[1]
  BY <1>2, <1>5 DEF OnList
<1>8. ASSUME NoRepetition(list) PROVE NoRepetition(rest) /\ ~OnList(list[1], rest)
  <2>1. ASSUME NEW i \in 1 .. Len(rest), NEW j \in 1 .. Len(rest), rest[i] = rest[j] PROVE i = j
    <3>1. i + 1 = j + 1
      BY <1>2, <1>3, <1>8, <2>1 DEF NoRepetition
    <3> QED
      BY <3>1
  <2>2. ~OnList(list[1], rest)
    BY <1>2, <1>3, <1>4, <1>8 DEF OnList, NoRepetition
  <2> QED
    BY <2>1, <2>2 DEF NoRepetition
<1> QED
  BY <1>1, <1>2, <1>4, <1>6, <1>7, <1>8 DEF OnList

LEMMA EmptyIs ==
  ASSUME NEW S
  PROVE  /\ << >> \in Seq(S) /\ Len(<< >>) = 0
         /\ \A d : ~OnList(d, << >>)
         /\ NoRepetition(<< >>)
  BY DEF OnList, NoRepetition

-----------------------------------------------------------------------------
(* The invariant.                                                          *)

Counted == cbCount = Cardinality(Used)

TimeoutsSet ==
  /\ timeouts \in Seq(Sids) /\ NoRepetition(timeouts)
  /\ \A s \in Sids : OnList(s, timeouts) <=> InUse(s)

Owned ==
  /\ report \in [Frames -> {"idle", "sent"} \union RadioStatus]
  /\ \A s \in Used : report[cb[s].req.id] = "sent"
  /\ \A s, t \in Used : cb[s].req.id = cb[t].req.id => s = t

Table == TableTypeOK(Reqs) /\ Counted

Inv == Table /\ LinkTypeOK(Sids, Frames) /\ TimeoutsSet /\ Owned /\ regular \in BOOLEAN

-----------------------------------------------------------------------------
(* The table.                                                              *)

LEMMA UsedFinite == IsFiniteSet(Used) /\ Cardinality(Used) \in Nat
<1>1. IsFiniteSet(Sids)
  BY FS_Interval, MaxCallbacksAssumption DEF Sids
<1>2. Used \in SUBSET Sids
  BY DEF Used
<1> QED
  BY <1>1, <1>2, FS_Subset, FS_CardinalityType

LEMMA SlotIs ==
  ASSUME TableTypeOK(Reqs), NEW s \in Used
  PROVE  /\ s \in Sids /\ cb[s] \in [req : Reqs, retransmit : 0 .. retransmit]
         /\ cb[s].req \in Reqs /\ cb[s].req.id \in Frames /\ cb[s].req.dev \in Radios
         /\ cb[s].retransmit \in 0 .. retransmit
<1>1. s \in Sids /\ cb[s] \in [req : Reqs, retransmit : 0 .. retransmit]
  BY DEF Used, InUse, TableTypeOK
<1>2. cb[s].req \in Reqs /\ cb[s].retransmit \in 0 .. retransmit
  BY <1>1
<1> QED
  BY <1>1, <1>2 DEF Reqs

\* The values that setup_callback() puts in a slot make it one in use.
LEMMA RecordUsed ==
  ASSUME NEW req \in Reqs, NEW n \in Nat
  PROVE  [req |-> req, retransmit |-> n] # Unused
  BY UnusedAssumption

LEMMA SetupKeeps ==
  ASSUME Table, NEW s \in Sids, NEW req \in Reqs, SetupCallback(s, req)
  PROVE  /\ Table'
         /\ ~InUse(s) /\ Used' = Used \union {s}
         /\ cb'[s].req = req /\ \A t \in Used : cb'[t] = cb[t] /\ t # s
<1> DEFINE new == [req |-> req, retransmit |-> retransmit]
<1>1. /\ cbCount < MaxCallbacks /\ ~InUse(s) /\ cbPos' = s /\ cbCount' = cbCount + 1
      /\ cb' = [cb EXCEPT ![s] = new] /\ retransmit' = retransmit
  BY MaxCallbacksAssumption DEF SetupCallback, TableFull, NextSlot, Table, TableTypeOK
<1>2. retransmit \in Nat /\ new \in [req : Reqs, retransmit : 0 .. retransmit] /\ new # Unused
      /\ new.req = req
  BY RetransmitsAssumption, RecordUsed DEF Table, TableTypeOK
<1> HIDE DEF new
<1>3. /\ cb' \in [Sids -> [req : Reqs, retransmit : 0 .. retransmit] \union {Unused}]
      /\ cb'[s] = new /\ \A t \in Sids \ {s} : cb'[t] = cb[t]
  BY <1>1, <1>2 DEF Table, TableTypeOK
<1>4. Used' = Used \union {s} /\ s \notin Used /\ \A t \in Used : t \in Sids
  BY <1>1, <1>2, <1>3 DEF Used, InUse
<1>5. Counted'
  BY <1>1, <1>4, UsedFinite, FS_AddElement DEF Table, Counted
<1>6. TableTypeOK(Reqs)'
  BY <1>1, <1>3, MaxCallbacksAssumption DEF Table, TableTypeOK
<1> QED
  BY <1>1, <1>2, <1>3, <1>4, <1>5, <1>6 DEF Table

LEMMA ReleaseKeeps ==
  ASSUME Table, NEW s \in Used, ReleaseSlot(s)
  PROVE  /\ Table' /\ Used' = Used \ {s} /\ \A t \in Used \ {s} : cb'[t] = cb[t]
         /\ cbPos' = cbPos
<1>1. /\ cb' = [cb EXCEPT ![s] = Unused] /\ cbCount' = cbCount - 1
      /\ cbPos' = cbPos /\ retransmit' = retransmit
  BY DEF ReleaseSlot
<1>2. /\ cb' \in [Sids -> [req : Reqs, retransmit : 0 .. retransmit] \union {Unused}]
      /\ cb'[s] = Unused /\ \A t \in Sids \ {s} : cb'[t] = cb[t]
  BY <1>1, SlotIs DEF Table, TableTypeOK
<1>3. Used' = Used \ {s} /\ \A t \in Used \ {s} : cb'[t] = cb[t]
  BY <1>2 DEF Used, InUse
<1>4. cbCount' = Cardinality(Used') /\ Cardinality(Used') \in Nat
  <2>1. IsFiniteSet(Used') /\ Cardinality(Used') = Cardinality(Used) - 1
    BY <1>3, UsedFinite, FS_RemoveElement
  <2> QED
    BY <1>1, <2>1, FS_CardinalityType DEF Table, Counted
<1>5. TableTypeOK(Reqs)'
  BY <1>1, <1>2, <1>4, MaxCallbacksAssumption DEF Table, TableTypeOK
<1> QED
  BY <1>1, <1>3, <1>4, <1>5 DEF Table, Counted

LEMMA RetransmissionKeeps ==
  ASSUME Table, NEW s \in Used, UseRetransmission(s)
  PROVE  Table' /\ Used' = Used /\ \A t \in Used : cb'[t].req = cb[t].req
<1> DEFINE new == [cb[s] EXCEPT !.retransmit = @ - 1]
<1>1. /\ cb[s].retransmit > 0 /\ cb' = [cb EXCEPT ![s] = new]
      /\ cbCount' = cbCount /\ cbPos' = cbPos /\ retransmit' = retransmit
  BY DEF UseRetransmission
<1>2. /\ s \in Sids /\ cb[s] \in [req : Reqs, retransmit : 0 .. retransmit]
      /\ cb[s].retransmit \in 0 .. retransmit /\ retransmit \in Nat
  BY SlotIs, RetransmitsAssumption DEF Table, TableTypeOK
<1>3. cb[s].retransmit - 1 \in 0 .. retransmit
  BY <1>1, <1>2
<1>4. new \in [req : Reqs, retransmit : 0 .. retransmit] /\ new.req = cb[s].req
  BY <1>2, <1>3
<1>5. new # Unused
  BY <1>2, <1>4, UnusedAssumption
<1> HIDE DEF new
<1>6. /\ cb' \in [Sids -> [req : Reqs, retransmit : 0 .. retransmit] \union {Unused}]
      /\ cb'[s] = new /\ \A t \in Sids \ {s} : cb'[t] = cb[t]
  BY <1>1, <1>2, <1>4 DEF Table, TableTypeOK
<1>7. Used' = Used /\ \A t \in Used : cb'[t].req = cb[t].req
  BY <1>4, <1>5, <1>6 DEF Used, InUse
<1>8. Table'
  BY <1>1, <1>6, <1>7 DEF Table, TableTypeOK, Counted
<1> QED
  BY <1>7, <1>8

-----------------------------------------------------------------------------
(* The lines.                                                              *)

OnLineStep(i) == RadioSends(i) \/ LoseFrame(i) \/ LoseReport(i) \/ ReadReport(i)

LEMMA WriteKeeps ==
  ASSUME LinkTypeOK(Sids, Frames), NEW i \in Radios, NEW s \in Sids, NEW f \in Frames,
         WriteToSlip(i, s, f)
  PROVE  LinkTypeOK(Sids, Frames)'
<1> DEFINE new == [sid |-> s, frame |-> f]
<1>1. new \in Messages(Sids, Frames)
  BY DEF Messages
<1>2. down[i] \in Seq(Messages(Sids, Frames))
  BY DEF LinkTypeOK
<1>3. Append(down[i], new) \in Seq(Messages(Sids, Frames))
  BY <1>1, <1>2, AppendIs
<1>4. /\ down' = IF InFlight(i) < LineBound THEN [down EXCEPT ![i] = Append(down[i], new)]
                                            ELSE down
      /\ up' = up
  BY DEF WriteToSlip
<1> HIDE DEF new
<1>5. down' \in [Radios -> Seq(Messages(Sids, Frames))]
  BY <1>3, <1>4 DEF LinkTypeOK
<1> QED
  BY <1>4, <1>5 DEF LinkTypeOK

LEMMA LineKeeps ==
  ASSUME LinkTypeOK(Sids, Frames), NEW i \in Radios, OnLineStep(i)
  PROVE  LinkTypeOK(Sids, Frames)'
<1> DEFINE M == Messages(Sids, Frames)
<1>1. down[i] \in Seq(M) /\ up[i] \in Seq(M)
  BY DEF LinkTypeOK
<1>2. down[i] # << >> => Tail(down[i]) \in Seq(M) /\ Head(down[i]) \in M
  BY <1>1, TailIs
<1>3. up[i] # << >> => Tail(up[i]) \in Seq(M)
  BY <1>1, TailIs
<1>4. down[i] # << >> => Append(up[i], Head(down[i])) \in Seq(M)
  BY <1>1, <1>2, AppendIs
<1> HIDE DEF M
<1>5. down \in [Radios -> Seq(M)] /\ up \in [Radios -> Seq(M)]
  BY DEF LinkTypeOK, M
<1>6. CASE RadioSends(i)
  BY <1>2, <1>4, <1>5, <1>6 DEF RadioSends, LinkTypeOK, M
<1>7. CASE LoseFrame(i)
  BY <1>2, <1>5, <1>7 DEF LoseFrame, LinkTypeOK, M
<1>8. CASE LoseReport(i) \/ ReadReport(i)
  BY <1>3, <1>5, <1>8 DEF LoseReport, ReadReport, LinkTypeOK, M
<1> QED
  BY <1>6, <1>7, <1>8 DEF OnLineStep

\* The sid of a report is one of the table's.
LEMMA ReportSid ==
  ASSUME LinkTypeOK(Sids, Frames), NEW i \in Radios, up[i] # << >>
  PROVE  Head(up[i]) \in Messages(Sids, Frames) /\ Head(up[i]).sid \in Sids
<1>1. up[i] \in Seq(Messages(Sids, Frames))
  BY DEF LinkTypeOK
<1>2. Head(up[i]) \in Messages(Sids, Frames)
  BY <1>1, TailIs
<1> QED
  BY <1>2 DEF Messages

-----------------------------------------------------------------------------
(* The layer: the table, the timeouts and what the callbacks were told.    *)

LEMMA InitInv ==
  ASSUME Init PROVE Inv
<1>1. /\ cb = [s \in Sids |-> Unused] /\ cbPos = 0 /\ cbCount = 0
      /\ retransmit \in Retransmits
  BY DEF Init, TableInit
<1>2. Used = {}
  BY <1>1 DEF Used, InUse
<1>3. Table
  <2>1. TableTypeOK(Reqs)
    BY <1>1, MaxCallbacksAssumption DEF TableTypeOK, Sids
  <2> QED
    BY <1>1, <1>2, <2>1, FS_EmptySet DEF Table, Counted
<1>4. LinkTypeOK(Sids, Frames)
  BY EmptyIs DEF Init, LinkInit, LinkTypeOK
<1>5. TimeoutsSet
  BY <1>1, EmptyIs DEF Init, TimeoutsSet, InUse
<1>6. Owned
  BY <1>2 DEF Init, Owned
<1> QED
  BY <1>3, <1>4, <1>5, <1>6 DEF Inv, Init

\* A slot is taken for a frame, and its timeout set.
LEMMA SendKeeps ==
  ASSUME Inv, NEW f \in Frames, NEW i \in Radios, SendPacket(f, i)
  PROVE  Inv'
<1>1. report[f] # "sent" /\ regular' = regular
  BY DEF SendPacket
<1>2. CASE /\ report' = [report EXCEPT ![f] = "NOACK"]
           /\ UNCHANGED <<tableVars, linkVars, timeouts>>
  <2>1. Owned'
    BY <1>1, <1>2, SlotIs DEF Inv, Owned, RadioStatus, tableVars, Used, InUse, Table
  <2> QED
    BY <1>1, <1>2, <2>1
    DEF Inv, tableVars, linkVars, Table, Counted, TableTypeOK, LinkTypeOK, TimeoutsSet,
        Used, InUse
<1>3. ASSUME NEW s \in Sids,
             SetupCallback(s, [id |-> f, dev |-> i]), WriteToSlip(i, s, f),
             timeouts' = Append(timeouts, s), report' = [report EXCEPT ![f] = "sent"]
      PROVE  Inv'
  <2> DEFINE req == [id |-> f, dev |-> i]
  <2>1. req \in Reqs /\ req.id = f
    BY DEF Reqs
  <2> HIDE DEF req
  <2>2. Table /\ SetupCallback(s, req)
    BY <1>3 DEF Inv, req
  <2>3. /\ Table' /\ ~InUse(s) /\ Used' = Used \union {s}
        /\ cb'[s].req = req /\ \A t \in Used : cb'[t] = cb[t] /\ t # s
    BY <2>1, <2>2, SetupKeeps
  <2>4. LinkTypeOK(Sids, Frames)'
    BY <1>3, WriteKeeps DEF Inv
  <2>5. TimeoutsSet'
    <3>1. ~OnList(s, timeouts) /\ timeouts \in Seq(Sids) /\ NoRepetition(timeouts)
      BY <2>3 DEF Inv, TimeoutsSet
    <3>2. /\ timeouts' \in Seq(Sids) /\ NoRepetition(timeouts')
          /\ \A d : OnList(d, timeouts') <=> OnList(d, timeouts) \/ d = s
      BY <1>3, <3>1, AppendIs
    <3>3. \A d \in Sids : InUse(d)' <=> InUse(d) \/ d = s
      BY <2>3 DEF Used, InUse
    <3> QED
      BY <3>2, <3>3 DEF Inv, TimeoutsSet
  <2>6. Owned'
    <3>1. /\ report' \in [Frames -> {"idle", "sent"} \union RadioStatus]
          /\ report'[f] = "sent" /\ \A g \in Frames \ {f} : report'[g] = report[g]
      BY <1>3 DEF Inv, Owned
    <3>2. \A t \in Used : /\ cb[t].req.id \in Frames \ {f} /\ report[cb[t].req.id] = "sent"
                          /\ cb'[t].req.id = cb[t].req.id
      BY <1>1, <2>3, SlotIs DEF Inv, Owned, Table
    <3>3. cb'[s].req.id = f
      BY <2>1, <2>3
    <3>4. \A t \in Used' : report'[cb'[t].req.id] = "sent"
      BY <2>3, <3>1, <3>2, <3>3
    <3>5. ASSUME NEW t \in Used', NEW u \in Used', cb'[t].req.id = cb'[u].req.id PROVE t = u
      BY <2>3, <3>2, <3>3, <3>5 DEF Inv, Owned
    <3> QED
      BY <3>1, <3>4, <3>5 DEF Owned
  <2> QED
    BY <1>1, <2>3, <2>4, <2>5, <2>6 DEF Inv
<1> QED
  BY <1>2, <1>3 DEF SendPacket

\* A slot is released and its owner told: the report of the radio, the last timeout.
LEMMA ReleasedKeeps ==
  ASSUME Inv, NEW s \in Used, ReleaseSlot(s), LinkTypeOK(Sids, Frames)',
         timeouts' = RemoveFrom(timeouts, s),
         NEW status \in RadioStatus, report' = [report EXCEPT ![cb[s].req.id] = status],
         regular' \in BOOLEAN
  PROVE  Inv'
<1>1. Table' /\ Used' = Used \ {s} /\ \A t \in Used \ {s} : cb'[t] = cb[t]
  BY ReleaseKeeps DEF Inv
<1>2. s \in Sids /\ cb[s].req.id \in Frames
  BY SlotIs DEF Inv, Table
<1>3. TimeoutsSet'
  <2>1. /\ timeouts' \in Seq(Sids) /\ NoRepetition(timeouts')
        /\ \A d : OnList(d, timeouts') <=> OnList(d, timeouts) /\ d # s
    BY RemoveFromIs DEF Inv, TimeoutsSet
  <2>2. \A d \in Sids : InUse(d)' <=> InUse(d) /\ d # s
    BY <1>1 DEF Used, InUse
  <2> QED
    BY <2>1, <2>2 DEF Inv, TimeoutsSet
<1>4. Owned'
  <2>1. /\ report' \in [Frames -> {"idle", "sent"} \union RadioStatus]
        /\ \A g \in Frames \ {cb[s].req.id} : report'[g] = report[g]
    BY <1>2 DEF Inv, Owned
  <2>2. \A t \in Used \ {s} : cb[t].req.id \in Frames \ {cb[s].req.id}
    BY SlotIs DEF Inv, Owned, Table
  <2>3. \A t \in Used' : report'[cb'[t].req.id] = "sent"
    BY <1>1, <2>1, <2>2 DEF Inv, Owned
  <2>4. \A t, u \in Used' : cb'[t].req.id = cb'[u].req.id => t = u
    BY <1>1 DEF Inv, Owned
  <2> QED
    BY <2>1, <2>3, <2>4 DEF Owned
<1> QED
  BY <1>1, <1>3, <1>4 DEF Inv

LEMMA PacketSentKeeps ==
  ASSUME Inv, NEW i \in Radios, NEW status \in RadioStatus, PacketSent(i, status)
  PROVE  Inv'
<1> DEFINE s == Head(up[i]).sid
<1>1. up[i] # << >> /\ regular' = regular /\ LinkTypeOK(Sids, Frames)'
  BY LineKeeps DEF PacketSent, ReadReport, Inv, OnLineStep
<1>2. s \in Sids
  BY <1>1, ReportSid DEF Inv
<1>3. CASE InUse(s)
  <2>1. /\ s \in Used /\ ReleaseSlot(s) /\ timeouts' = RemoveFrom(timeouts, s)
        /\ report' = [report EXCEPT ![cb[s].req.id] = status]
    BY <1>2, <1>3 DEF PacketSent, Used
  <2> HIDE DEF s
  <2> QED
    BY <1>1, <2>1, ReleasedKeeps DEF Inv
<1>4. CASE ~InUse(s)
  <2>1. UNCHANGED <<tableVars, timeouts, report>>
    BY <1>4 DEF PacketSent
  <2> HIDE DEF s
  <2> QED
    BY <1>1, <2>1
    DEF Inv, tableVars, Table, Counted, TableTypeOK, TimeoutsSet, Owned, Used, InUse
<1> QED
  BY <1>3, <1>4

LEMMA TimeoutKeeps ==
  ASSUME Inv, NEW s \in Sids, PacketTimeout(s)
  PROVE  Inv'
<1>1. s \in Used
  BY DEF PacketTimeout, Used
<1>2. CASE /\ UseRetransmission(s)
           /\ timeouts' = Append(RemoveFrom(timeouts, s), s)
           /\ WriteToSlip(cb[s].req.dev, s, cb[s].req.id)
           /\ regular' = FALSE /\ UNCHANGED report
  <2>1. Table' /\ Used' = Used /\ \A t \in Used : cb'[t].req = cb[t].req
    BY <1>1, <1>2, RetransmissionKeeps DEF Inv
  <2>2. cb[s].req.dev \in Radios /\ cb[s].req.id \in Frames
    BY <1>1, SlotIs DEF Inv, Table
  <2>3. LinkTypeOK(Sids, Frames)'
    BY <1>2, <2>2, WriteKeeps DEF Inv
  <2>4. TimeoutsSet'
    <3>1. timeouts' = ListAdd(timeouts, s) /\ OnList(s, timeouts)
      BY <1>1, <1>2 DEF ListAdd, Inv, TimeoutsSet, Used
    <3>2. /\ timeouts' \in Seq(Sids) /\ NoRepetition(timeouts')
          /\ \A d : OnList(d, timeouts') <=> OnList(d, timeouts)
      BY <3>1, ListAddIs DEF Inv, TimeoutsSet
    <3>3. \A d \in Sids : InUse(d)' <=> InUse(d)
      BY <2>1 DEF Used, InUse
    <3> QED
      BY <3>2, <3>3 DEF Inv, TimeoutsSet
  <2>5. Owned'
    BY <1>2, <2>1 DEF Inv, Owned
  <2> QED
    BY <1>2, <2>1, <2>3, <2>4, <2>5 DEF Inv
<1>3. CASE /\ ReleaseSlot(s)
           /\ timeouts' = RemoveFrom(timeouts, s)
           /\ report' = [report EXCEPT ![cb[s].req.id] = "NOACK"]
           /\ UNCHANGED <<linkVars, regular>>
  <2>1. "NOACK" \in RadioStatus /\ LinkTypeOK(Sids, Frames)' /\ regular' \in BOOLEAN
    BY <1>3 DEF RadioStatus, Inv, LinkTypeOK, linkVars
  <2> QED
    BY <1>1, <1>3, <2>1, ReleasedKeeps
<1> QED
  BY <1>2, <1>3 DEF PacketTimeout

LEMMA LineStepKeeps ==
  ASSUME Inv, NEW i \in Radios, Line(i)
  PROVE  Inv'
<1>1. LinkTypeOK(Sids, Frames)'
  BY LineKeeps DEF Line, OnLineStep, Inv
<1>2. regular' \in BOOLEAN /\ UNCHANGED <<tableVars, timeouts, report>>
  BY DEF Line, Inv
<1> QED
  BY <1>1, <1>2
  DEF Inv, tableVars, Table, Counted, TableTypeOK, TimeoutsSet, Owned, Used, InUse

LEMMA InvNext ==
  ASSUME Inv, [Next]_vars PROVE Inv'
<1>1. CASE UNCHANGED vars
  BY <1>1 DEF vars, Inv, tableVars, linkVars, Table, Counted, TableTypeOK, LinkTypeOK,
              TimeoutsSet, Owned, Used, InUse
<1> QED
  BY <1>1, SendKeeps, PacketSentKeeps, TimeoutKeeps, LineStepKeeps DEF Next

LEMMA Invariance == Spec => []Inv
  BY InitInv, InvNext, PTL DEF Spec

-----------------------------------------------------------------------------

\* A list without repetition that s is on holds it once.
LEMMA OnceOnList ==
  ASSUME NEW list, NEW s, NoRepetition(list), IsFiniteSet(1 .. Len(list))
  PROVE  Cardinality({k \in 1 .. Len(list) : list[k] = s}) = IF OnList(s, list) THEN 1 ELSE 0
<1> DEFINE places == {k \in 1 .. Len(list) : list[k] = s}
<1>1. CASE OnList(s, list)
  <2>1. PICK k \in 1 .. Len(list) : list[k] = s
    BY <1>1 DEF OnList
  <2>2. places = {k}
    BY <2>1 DEF NoRepetition
  <2> QED
    BY <1>1, <2>2, FS_Singleton
<1>2. CASE ~OnList(s, list)
  <2>1. places = {}
    BY <1>2 DEF OnList
  <2> QED
    BY <1>2, <2>1, FS_EmptySet
<1> QED
  BY <1>1, <1>2

\* callback_count is the number of slots in use, and each of them has its timeout
\* pending, once, and a frame of its own, whatever is sent, reported, lost or late.
THEOREM TableAgrees == Spec => []TableConsistent
<1>1. ASSUME Inv PROVE TableConsistent
  <2>1. TypeOK
    BY <1>1 DEF Inv, TypeOK, Table, TimeoutsSet, Owned
  <2>2. IsFiniteSet(1 .. Len(timeouts)) /\ NoRepetition(timeouts)
    <3>1. Len(timeouts) \in Int
      BY <1>1 DEF Inv, TimeoutsSet
    <3> QED
      BY <1>1, <3>1, FS_Interval DEF Inv, TimeoutsSet
  <2>3. \A s \in Sids :
          Cardinality({k \in 1 .. Len(timeouts) : timeouts[k] = s}) = IF InUse(s) THEN 1 ELSE 0
    BY <1>1, <2>2, OnceOnList DEF Inv, TimeoutsSet
  <2> QED
    BY <1>1, <2>1, <2>3 DEF TableConsistent, Inv, Table, Counted, Owned
<1> QED
  BY <1>1, Invariance, PTL

-----------------------------------------------------------------------------
(* The search for a slot.                                                  *)

\* How far ahead of pos, round the table, a sid is.
AheadOf(pos, t) == IF t > pos THEN t - pos - 1 ELSE t - pos - 1 + MaxCallbacks

Following(pos) == IF pos = MaxCallbacks - 1 THEN 0 ELSE pos + 1

LEMMA AheadIs ==
  ASSUME NEW pos \in Sids, NEW t \in Sids
  PROVE  (t - pos - 1) % MaxCallbacks = AheadOf(pos, t) /\ AheadOf(pos, t) \in Sids
<1>1. ASSUME NEW N \in Nat \ {0}, NEW x \in 0 .. N - 1 PROVE x % N = x
  OBVIOUS
<1>2. ASSUME NEW N \in Nat \ {0}, NEW x \in Int, x < 0, x >= -N PROVE x % N = x + N
  BY <1>2
<1>3. /\ MaxCallbacks \in Nat \ {0} /\ pos \in 0 .. MaxCallbacks - 1
      /\ t \in 0 .. MaxCallbacks - 1
  BY MaxCallbacksAssumption DEF Sids
<1>4. CASE t > pos
  <2>1. PICK x \in 0 .. MaxCallbacks - 1 : x = t - pos - 1
    BY <1>3, <1>4
  <2>2. x % MaxCallbacks = x
    BY <1>1, <1>3
  <2> QED
    BY <1>4, <2>1, <2>2 DEF AheadOf, Sids
<1>5. CASE ~(t > pos)
  <2>1. PICK x \in Int : x = t - pos - 1 /\ x < 0 /\ x >= -MaxCallbacks
    BY <1>3, <1>5
  <2>2. x % MaxCallbacks = x + MaxCallbacks
    BY <1>2, <1>3, <2>1
  <2>3. x + MaxCallbacks \in 0 .. MaxCallbacks - 1
    BY <1>3, <2>1
  <2> QED
    BY <1>5, <2>1, <2>2, <2>3 DEF AheadOf, Sids
<1> QED
  BY <1>4, <1>5

LEMMA AheadDistinct ==
  ASSUME NEW pos \in Sids, NEW s \in Sids, NEW t \in Sids, AheadOf(pos, s) = AheadOf(pos, t)
  PROVE  s = t
  BY MaxCallbacksAssumption DEF AheadOf, Sids

LEMMA NextSlotIs ==
  ASSUME cbPos \in Sids, NEW s \in Sids
  PROVE  NextSlot(s) <=>
           ~InUse(s) /\ \A t \in Sids : InUse(t) \/ AheadOf(cbPos, s) <= AheadOf(cbPos, t)
  BY AheadIs DEF NextSlot

\* The search of setup_callback() has no end but a free slot: there is one whenever
\* callback_count lets the search begin, and the search finds that one only.
THEOREM SlotFound ==
  Spec => [](~TableFull =>
               \E s \in Sids : NextSlot(s) /\ \A t \in Sids : NextSlot(t) => t = s)
<1>1. ASSUME Inv, ~TableFull
      PROVE  \E s \in Sids : NextSlot(s) /\ \A t \in Sids : NextSlot(t) => t = s
  <2>1. cbPos \in Sids /\ Cardinality(Used) < MaxCallbacks
    BY <1>1, MaxCallbacksAssumption DEF Inv, Table, TableTypeOK, TableFull, Counted
  <2>2. Cardinality(Sids) = MaxCallbacks
    BY FS_Interval, MaxCallbacksAssumption DEF Sids
  <2>3. Used # Sids /\ Used \subseteq Sids
    BY <2>1, <2>2, MaxCallbacksAssumption DEF Used
  <2> DEFINE ahead == {AheadOf(cbPos, t) : t \in Sids \ Used}
  <2>4. ahead # {} /\ ahead \in SUBSET Nat
    <3>1. \A t \in Sids : AheadOf(cbPos, t) \in Nat
      BY <2>1, AheadIs DEF Sids
    <3>2. \E t \in Sids : t \notin Used
      BY <2>3
    <3> QED
      BY <3>1, <3>2
  <2>5. PICK x \in ahead : \A y \in ahead : x <= y
    BY <2>4, LeastOf
  <2>6. PICK s \in Sids \ Used : x = AheadOf(cbPos, s)
    BY <2>5
  <2>7. \A t \in Sids : InUse(t) \/ AheadOf(cbPos, s) <= AheadOf(cbPos, t)
    BY <2>5, <2>6 DEF Used
  <2>8. NextSlot(s)
    BY <2>1, <2>6, <2>7, NextSlotIs DEF Used
  <2>9. ASSUME NEW t \in Sids, NextSlot(t) PROVE t = s
    <3>1. ~InUse(t) /\ AheadOf(cbPos, t) <= AheadOf(cbPos, s)
      BY <2>1, <2>6, <2>9, NextSlotIs DEF Used
    <3>2. AheadOf(cbPos, s) <= AheadOf(cbPos, t)
      BY <2>7, <3>1
    <3>3. AheadOf(cbPos, s) \in Nat /\ AheadOf(cbPos, t) \in Nat
      BY <2>1, <2>6, AheadIs DEF Sids
    <3>4. AheadOf(cbPos, s) = AheadOf(cbPos, t)
      <4>1. ASSUME NEW a \in Nat, NEW b \in Nat, a <= b, b <= a PROVE a = b
        BY <4>1
      <4> QED
        BY <3>1, <3>2, <3>3, <4>1
    <3> QED
      BY <2>1, <2>6, <3>4, AheadDistinct
  <2> QED
    BY <2>6, <2>8, <2>9
<1> QED
  BY <1>1, Invariance, PTL

\* When the slot behind callback_pos is free, it is the one that is found.
LEMMA FollowingIsNext ==
  ASSUME cbPos \in Sids, ~InUse(Following(cbPos)), NEW s \in Sids, NextSlot(s)
  PROVE  s = Following(cbPos)
<1> DEFINE next == Following(cbPos)
<1>1. next \in Sids /\ AheadOf(cbPos, next) = 0
  BY MaxCallbacksAssumption DEF Following, Sids, AheadOf
<1>2. AheadOf(cbPos, s) <= AheadOf(cbPos, next)
  BY <1>1, NextSlotIs
<1>3. AheadOf(cbPos, s) \in Nat
  BY AheadIs DEF Sids
<1> QED
  BY <1>1, <1>2, <1>3, AheadDistinct

-----------------------------------------------------------------------------
(* The order of the sids on a line, the oldest at the head of u (up) and   *)
(* the youngest at the end of d (down).                                    *)

\* The sid that was taken n sids before pos.
SidBehind(pos, n) == IF n <= pos THEN pos - n ELSE pos - n + MaxCallbacks

Room(u, d) == Len(u) + Len(d) < MaxCallbacks

InOrder(u, d, pos) ==
  /\ Len(u) + Len(d) <= MaxCallbacks
  /\ \A k \in 1 .. Len(d) : d[k].sid = SidBehind(pos, Len(d) - k)
  /\ \A k \in 1 .. Len(u) : u[k].sid = SidBehind(pos, Len(u) + Len(d) - k)

Carries(list, s, f) == \E k \in 1 .. Len(list) : list[k].sid = s /\ list[k].frame = f

LEMMA BehindDistinct ==
  ASSUME NEW pos \in Sids, NEW m \in Sids, NEW n \in Sids, SidBehind(pos, m) = SidBehind(pos, n)
  PROVE  m = n
  BY MaxCallbacksAssumption DEF SidBehind, Sids

LEMMA BehindFollowing ==
  ASSUME NEW pos \in Sids, NEW n \in Sids, n # MaxCallbacks - 1
  PROVE  /\ SidBehind(Following(pos), n + 1) = SidBehind(pos, n)
         /\ SidBehind(pos, n) # Following(pos)
         /\ Following(pos) \in Sids /\ SidBehind(Following(pos), 0) = Following(pos)
  BY MaxCallbacksAssumption DEF SidBehind, Sids, Following

\* A frame is written that was given the sid behind the last one.
LEMMA WrittenInOrder ==
  ASSUME NEW S, NEW u \in Seq(S), NEW d \in Seq(S), NEW pos \in Sids,
         InOrder(u, d, pos), Room(u, d),
         NEW new \in S, new.sid = Following(pos)
  PROVE  /\ InOrder(u, Append(d, new), Following(pos))
         /\ \A s, f : Carries(d, s, f) => Carries(Append(d, new), s, f)
         /\ Carries(Append(d, new), new.sid, new.frame)
<1> DEFINE next == Following(pos)
<1>1. PICK more : more = Append(d, new)
  OBVIOUS
<1>2. PICK lu \in Nat, ld \in Nat : lu = Len(u) /\ ld = Len(d)
  OBVIOUS
<1>3. /\ Len(more) = ld + 1 /\ more[ld + 1] = new
      /\ \A k \in 1 .. ld : more[k] = d[k]
  BY <1>1, <1>2
<1>4. lu + ld < MaxCallbacks
  BY <1>2 DEF Room
<1>5. /\ \A n \in 0 .. lu + ld - 1 : SidBehind(next, n + 1) = SidBehind(pos, n)
      /\ SidBehind(next, 0) = next
  <2>1. \A n \in 0 .. lu + ld - 1 : n \in Sids /\ n # MaxCallbacks - 1
    BY <1>4, MaxCallbacksAssumption DEF Sids
  <2>2. SidBehind(next, 0) = next
    BY MaxCallbacksAssumption DEF SidBehind, Following, Sids
  <2> QED
    BY <2>1, <2>2, BehindFollowing
<1> HIDE DEF next
<1>6. ASSUME NEW k \in 1 .. Len(more) PROVE more[k].sid = SidBehind(next, Len(more) - k)
  <2>1. CASE k = ld + 1
    <3>1. Len(more) - k = 0
      BY <1>3, <2>1
    <3> QED
      BY <1>3, <1>5, <2>1, <3>1 DEF next
  <2>2. CASE k # ld + 1
    <3>1. k \in 1 .. ld /\ ld - k \in 0 .. lu + ld - 1 /\ Len(more) - k = (ld - k) + 1
      BY <1>2, <1>3, <2>2
    <3>2. more[k].sid = SidBehind(pos, ld - k)
      BY <1>2, <1>3, <3>1 DEF InOrder
    <3> QED
      BY <1>5, <3>1, <3>2
  <2> QED
    BY <2>1, <2>2
<1>7. ASSUME NEW k \in 1 .. Len(u)
      PROVE  u[k].sid = SidBehind(next, Len(u) + Len(more) - k)
  <2>1. PICK m : m = lu + ld - k
    OBVIOUS
  <2>2. m \in 0 .. lu + ld - 1 /\ Len(u) + Len(more) - k = m + 1
    BY <1>2, <1>3, <2>1
  <2>3. u[k].sid = SidBehind(pos, m)
    BY <1>2, <2>1 DEF InOrder
  <2>4. SidBehind(next, m + 1) = SidBehind(pos, m)
    BY <1>5, <2>2
  <2> QED
    BY <2>2, <2>3, <2>4
<1>8. Len(u) + Len(more) <= MaxCallbacks
  BY <1>2, <1>3, <1>4, MaxCallbacksAssumption
<1>9. InOrder(u, more, next)
  BY <1>6, <1>7, <1>8 DEF InOrder
<1>10. \A k \in 1 .. Len(d) : k \in 1 .. Len(more) /\ more[k] = d[k]
  BY <1>2, <1>3
<1>11. Len(more) \in 1 .. Len(more) /\ more[Len(more)] = new
  BY <1>2, <1>3
<1> QED
  BY <1>1, <1>9, <1>10, <1>11 DEF Carries, next

\* The radio sends the head of d.
LEMMA SentInOrder ==
  ASSUME NEW S, NEW u \in Seq(S), NEW d \in Seq(S), NEW pos, InOrder(u, d, pos), d # << >>
  PROVE  /\ InOrder(Append(u, Head(d)), Tail(d), pos)
         /\ \A s, f : Carries(u, s, f) \/ Carries(d, s, f) =>
              Carries(Append(u, Head(d)), s, f) \/ Carries(Tail(d), s, f)
<1>0. PICK more, rest : more = Append(u, Head(d)) /\ rest = Tail(d)
  OBVIOUS
<1>1. PICK lu \in Nat, ld \in Nat : lu = Len(u) /\ ld = Len(d)
  OBVIOUS
<1>2. /\ Len(more) = lu + 1 /\ more[lu + 1] = d[1] /\ \A k \in 1 .. lu : more[k] = u[k]
      /\ ld > 0 /\ Len(rest) = ld - 1 /\ \A k \in 1 .. ld - 1 : rest[k] = d[k + 1]
  BY <1>0, <1>1
<1>3. /\ lu + ld <= MaxCallbacks
      /\ \A k \in 1 .. ld : d[k].sid = SidBehind(pos, ld - k)
      /\ \A k \in 1 .. lu : u[k].sid = SidBehind(pos, lu + ld - k)
  BY <1>1 DEF InOrder
<1>4. ASSUME NEW k \in 1 .. Len(rest) PROVE rest[k].sid = SidBehind(pos, Len(rest) - k)
  <2>1. k \in 1 .. ld - 1 /\ k + 1 \in 1 .. ld /\ ld - (k + 1) = Len(rest) - k
    BY <1>2
  <2> QED
    BY <1>2, <1>3, <2>1
<1>5. Len(more) + Len(rest) = lu + ld
  BY <1>2
<1>6. ASSUME NEW k \in 1 .. Len(more)
      PROVE  more[k].sid = SidBehind(pos, Len(more) + Len(rest) - k)
  <2>1. CASE k = lu + 1
    <3>1. 1 \in 1 .. ld /\ lu + ld - k = ld - 1
      BY <1>2, <2>1
    <3> QED
      BY <1>2, <1>3, <1>5, <2>1, <3>1
  <2>2. CASE k # lu + 1
    <3>1. k \in 1 .. lu /\ Len(more) + Len(rest) - k = lu + ld - k
      BY <1>2, <1>5, <2>2
    <3>2. more[k].sid = SidBehind(pos, lu + ld - k)
      BY <1>2, <1>3, <3>1
    <3> QED
      BY <3>1, <3>2
  <2> QED
    BY <2>1, <2>2
<1>7. InOrder(more, rest, pos)
  BY <1>3, <1>4, <1>5, <1>6 DEF InOrder
<1>8. \A k \in 1 .. lu : k \in 1 .. Len(more) /\ more[k] = u[k]
  BY <1>2
<1>9. \A k \in 1 .. ld : (k = 1 /\ lu + 1 \in 1 .. Len(more) /\ more[lu + 1] = d[k])
                        \/ \E j \in 1 .. Len(rest) : rest[j] = d[k]
  <2>1. ASSUME NEW k \in 1 .. ld, k # 1 PROVE \E j \in 1 .. Len(rest) : rest[j] = d[k]
    <3>1. k - 1 \in 1 .. Len(rest) /\ rest[k - 1] = d[k]
      BY <1>2, <2>1
    <3> QED
      BY <3>1
  <2>2. lu + 1 \in 1 .. Len(more) /\ more[lu + 1] = d[1]
    BY <1>2
  <2> QED
    BY <2>1, <2>2
<1>10. \A s, f : Carries(u, s, f) \/ Carries(d, s, f) =>
                   Carries(more, s, f) \/ Carries(rest, s, f)
  BY <1>1, <1>8, <1>9 DEF Carries
<1> QED
  BY <1>0, <1>7, <1>10

\* The head of u is read.
LEMMA ReadInOrder ==
  ASSUME NEW S, NEW u \in Seq(S), NEW d \in Seq(S), NEW pos, InOrder(u, d, pos), u # << >>
  PROVE  /\ InOrder(Tail(u), d, pos)
         /\ \A s, f : Carries(u, s, f) => Carries(Tail(u), s, f) \/ s = Head(u).sid
<1>0. PICK rest : rest = Tail(u)
  OBVIOUS
<1>1. PICK lu \in Nat, ld \in Nat : lu = Len(u) /\ ld = Len(d)
  OBVIOUS
<1>2. lu > 0 /\ Len(rest) = lu - 1 /\ Head(u) = u[1] /\ \A k \in 1 .. lu - 1 : rest[k] = u[k + 1]
  BY <1>0, <1>1
<1>3. /\ lu + ld <= MaxCallbacks
      /\ \A k \in 1 .. ld : d[k].sid = SidBehind(pos, ld - k)
      /\ \A k \in 1 .. lu : u[k].sid = SidBehind(pos, lu + ld - k)
  BY <1>1 DEF InOrder
<1>4. ASSUME NEW k \in 1 .. Len(rest) PROVE rest[k].sid = SidBehind(pos, Len(rest) + Len(d) - k)
  <2>1. k \in 1 .. lu - 1 /\ k + 1 \in 1 .. lu /\ lu + ld - (k + 1) = Len(rest) + Len(d) - k
    BY <1>1, <1>2
  <2> QED
    BY <1>2, <1>3, <2>1
<1>5. Len(rest) + Len(d) <= MaxCallbacks
  BY <1>1, <1>2, <1>3, MaxCallbacksAssumption
<1>6. InOrder(rest, d, pos)
  BY <1>1, <1>3, <1>4, <1>5 DEF InOrder
<1>7. ASSUME NEW k \in 1 .. lu, k # 1 PROVE \E j \in 1 .. Len(rest) : rest[j] = u[k]
  <2>1. k - 1 \in 1 .. Len(rest) /\ rest[k - 1] = u[k]
    BY <1>2, <1>7
  <2> QED
    BY <2>1
<1>8. \A s, f : Carries(u, s, f) => Carries(rest, s, f) \/ s = Head(u).sid
  BY <1>1, <1>2, <1>7 DEF Carries
<1> QED
  BY <1>0, <1>6, <1>8

\* No two messages on the line have the same sid, so that what has the sid of a report
\* is the report; and the sid behind the last one is not on a line that has room.
LEMMA SidsDistinct ==
  ASSUME NEW S, NEW u \in Seq(S), NEW d \in Seq(S), NEW pos \in Sids, InOrder(u, d, pos),
         NEW s, NEW f, Carries(u, s, f) \/ Carries(d, s, f)
  PROVE  /\ \A k \in 1 .. Len(u) : u[k].sid = s => u[k].frame = f
         /\ Room(u, d) => s # Following(pos)
<1>1. PICK lu \in Nat, ld \in Nat : lu = Len(u) /\ ld = Len(d)
  OBVIOUS
<1>2. /\ lu + ld <= MaxCallbacks
      /\ \A k \in 1 .. ld : d[k].sid = SidBehind(pos, ld - k)
      /\ \A k \in 1 .. lu : u[k].sid = SidBehind(pos, lu + ld - k)
  BY <1>1 DEF InOrder
<1>3. /\ \A k \in 1 .. ld : ld - k \in Sids /\ ld - k < ld
      /\ \A k \in 1 .. lu : lu + ld - k \in Sids /\ lu + ld - k >= ld
  BY <1>2, MaxCallbacksAssumption DEF Sids
<1>4. ASSUME NEW k \in 1 .. lu, u[k].sid = s PROVE u[k].frame = f
  <2>1. CASE Carries(u, s, f)
    <3>1. PICK j \in 1 .. lu : u[j].sid = s /\ u[j].frame = f
      BY <1>1, <2>1 DEF Carries
    <3>2. SidBehind(pos, lu + ld - k) = SidBehind(pos, lu + ld - j)
      BY <1>2, <1>4, <3>1
    <3>3. lu + ld - k = lu + ld - j
      BY <1>3, <3>2, BehindDistinct
    <3>4. k = j
      BY <3>3
    <3> QED
      BY <3>1, <3>4
  <2>2. CASE Carries(d, s, f)
    <3>1. PICK j \in 1 .. ld : d[j].sid = s /\ d[j].frame = f
      BY <1>1, <2>2 DEF Carries
    <3>2. SidBehind(pos, lu + ld - k) = SidBehind(pos, ld - j)
      BY <1>2, <1>4, <3>1
    <3>3. lu + ld - k = ld - j
      BY <1>3, <3>2, BehindDistinct
    <3> QED
      BY <1>3, <3>3
  <2> QED
    BY <2>1, <2>2
<1>5. ASSUME lu + ld < MaxCallbacks PROVE s # Following(pos)
  <2>1. PICK n \in Sids : s = SidBehind(pos, n) /\ n < lu + ld
    <3>1. CASE Carries(u, s, f)
      <4>1. PICK j \in 1 .. lu : u[j].sid = s
        BY <1>1, <3>1 DEF Carries
      <4>2. lu + ld - j \in Sids /\ lu + ld - j < lu + ld
        BY <1>3
      <4> QED
        BY <1>2, <4>1, <4>2
    <3>2. CASE Carries(d, s, f)
      <4>1. PICK j \in 1 .. ld : d[j].sid = s
        BY <1>1, <3>2 DEF Carries
      <4>2. ld - j \in Sids /\ ld - j < lu + ld
        BY <1>3
      <4> QED
        BY <1>2, <4>1, <4>2
    <3> QED
      BY <3>1, <3>2
  <2>2. n # MaxCallbacks - 1
    BY <1>5, <2>1, MaxCallbacksAssumption DEF Sids
  <2> QED
    BY <2>1, <2>2, BehindFollowing
<1> QED
  BY <1>1, <1>4, <1>5 DEF Room

-----------------------------------------------------------------------------
(* One radio, whose line takes a round of the table.                       *)

\* Every slot in use has its frame on the line to radio i, or the report on it.
OnTheWay(i) ==
  \A s \in Used : \/ Carries(up[i], s, cb[s].req.id)
                  \/ Carries(down[i], s, cb[s].req.id)

Ordered(i) == regular => InOrder(up[i], down[i], cbPos) /\ OnTheWay(i)

LEMMA LineIs ==
  ASSUME Inv, NEW i \in Radios
  PROVE  /\ up[i] \in Seq(Messages(Sids, Frames)) /\ down[i] \in Seq(Messages(Sids, Frames))
         /\ cbPos \in Sids
  BY DEF Inv, Table, TableTypeOK, LinkTypeOK

LEMMA OrderedFinds ==
  ASSUME NEW i, Radios = {i}, Inv, Ordered(i)
  PROVE  ReportsFindTheirFrame
<1>1. ASSUME regular, NEW k \in 1 .. Len(up[i]), InUse(up[i][k].sid)
      PROVE  cb[up[i][k].sid].req.id = up[i][k].frame
  <2>1. up[i] \in Seq(Messages(Sids, Frames))
    BY LineIs
  <2>2. up[i][k] \in Messages(Sids, Frames)
    BY <2>1
  <2>3. up[i][k].sid \in Used
    BY <1>1, <2>2 DEF Messages, Used
  <2>4. PICK s \in Used : s = up[i][k].sid
    BY <2>3
  <2>5. /\ InOrder(up[i], down[i], cbPos)
        /\ Carries(up[i], s, cb[s].req.id) \/ Carries(down[i], s, cb[s].req.id)
    BY <1>1 DEF Ordered, OnTheWay
  <2> QED
    BY <2>4, <2>5, LineIs, SidsDistinct
<1> QED
  BY <1>1 DEF ReportsFindTheirFrame

\* A frame gets the sid behind the last one, and joins the line at its end.
LEMMA SendOrdered ==
  ASSUME NEW i, Radios = {i}, LineBound \in Nat, LineBound >= MaxCallbacks,
         Inv, Ordered(i), regular, NEW f \in Frames, SendPacket(f, i)
  PROVE  Ordered(i)'
<1>1. InOrder(up[i], down[i], cbPos) /\ OnTheWay(i)
  BY DEF Ordered
<1>2. CASE UNCHANGED <<tableVars, linkVars, timeouts>>
  BY <1>1, <1>2 DEF Ordered, OnTheWay, tableVars, linkVars, Used, InUse
<1>3. ASSUME NEW s \in Sids, SetupCallback(s, [id |-> f, dev |-> i]), WriteToSlip(i, s, f)
      PROVE  Ordered(i)'
  <2> DEFINE req == [id |-> f, dev |-> i]
             new == [sid |-> s, frame |-> f]
  <2>1. req \in Reqs /\ req.id = f
    BY DEF Reqs
  <2>2. new \in Messages(Sids, Frames) /\ new.sid = s /\ new.frame = f
    BY DEF Messages
  <2>3. /\ Room(up[i], down[i]) /\ up' = up
        /\ down' = [down EXCEPT ![i] = Append(down[i], new)]
    <3>1. InFlight(i) < MaxCallbacks
      BY DEF SendPacket
    <3>2. PICK lu \in Nat, ld \in Nat : lu = Len(up[i]) /\ ld = Len(down[i])
      BY LineIs, LenProperties
    <3>3. InFlight(i) = ld + lu
      BY <3>2 DEF InFlight
    <3>4. ld + lu < MaxCallbacks
      BY <3>1, <3>3
    <3>5. InFlight(i) < LineBound
      BY <3>3, <3>4, MaxCallbacksAssumption
    <3>6. up' = up /\ down' = [down EXCEPT ![i] = Append(down[i], new)]
      BY <1>3, <3>5 DEF WriteToSlip
    <3>7. lu + ld < MaxCallbacks
      BY <3>4, MaxCallbacksAssumption
    <3> QED
      BY <3>2, <3>6, <3>7 DEF Room
  <2> HIDE DEF req, new
  <2>4. SetupCallback(s, req) /\ NextSlot(s) /\ cbPos' = s
    BY <1>3 DEF SetupCallback, req
  <2>5. /\ Used' = Used \union {s}
        /\ cb'[s].req = req /\ \A t \in Used : cb'[t] = cb[t] /\ t # s
    BY <2>1, <2>4, SetupKeeps DEF Inv
  <2>6. down'[i] = Append(down[i], new)
    BY <2>3 DEF Inv, LinkTypeOK
  <2>7. ~InUse(Following(cbPos))
    <3>1. ASSUME NEW t \in Used PROVE t # Following(cbPos)
      <4>1. Carries(up[i], t, cb[t].req.id) \/ Carries(down[i], t, cb[t].req.id)
        BY <1>1 DEF OnTheWay
      <4>2. /\ up[i] \in Seq(Messages(Sids, Frames)) /\ down[i] \in Seq(Messages(Sids, Frames))
            /\ cbPos \in Sids
        BY LineIs
      <4> QED
        BY <1>1, <2>3, <4>1, <4>2, SidsDistinct
    <3>2. Following(cbPos) \in Sids
      BY LineIs, MaxCallbacksAssumption DEF Following, Sids
    <3> QED
      BY <3>1, <3>2 DEF Used
  <2>8. s = Following(cbPos)
    BY <2>4, <2>7, LineIs, FollowingIsNext
  <2>9. /\ InOrder(up[i], Append(down[i], new), Following(cbPos))
        /\ \A t, g : Carries(down[i], t, g) => Carries(Append(down[i], new), t, g)
        /\ Carries(Append(down[i], new), s, f)
    BY <1>1, <2>2, <2>3, <2>8, LineIs, WrittenInOrder
  <2>10. InOrder(up[i], down[i], cbPos)'
    BY <2>3, <2>4, <2>6, <2>8, <2>9
  <2>11. ASSUME NEW t \in Used'
         PROVE  Carries(up'[i], t, cb'[t].req.id) \/ Carries(down'[i], t, cb'[t].req.id)
    <3>1. CASE t = s
      BY <2>1, <2>5, <2>6, <2>9, <3>1
    <3>2. CASE t # s
      <4>1. t \in Used /\ cb'[t] = cb[t]
        BY <2>5, <3>2
      <4>2. Carries(up[i], t, cb[t].req.id) \/ Carries(down[i], t, cb[t].req.id)
        BY <1>1, <4>1 DEF OnTheWay
      <4> QED
        BY <2>3, <2>6, <2>9, <4>1, <4>2
    <3> QED
      BY <3>1, <3>2
  <2> QED
    BY <2>10, <2>11 DEF Ordered, OnTheWay
<1> QED
  BY <1>2, <1>3 DEF SendPacket

\* A slot is released when its report is read, or free already.
LEMMA PacketSentOrdered ==
  ASSUME NEW i, Radios = {i}, Inv, Ordered(i), regular,
         NEW status \in RadioStatus, PacketSent(i, status)
  PROVE  Ordered(i)'
<1>1. InOrder(up[i], down[i], cbPos) /\ OnTheWay(i)
  BY DEF Ordered
<1>2. PICK s \in Sids : up[i] # << >> /\ s = Head(up[i]).sid
  BY ReportSid DEF PacketSent, ReadReport, Inv
<1>3. up'[i] = Tail(up[i]) /\ down' = down
  BY DEF PacketSent, ReadReport, Inv, LinkTypeOK
<1>4. cbPos' = cbPos /\ Used' = Used \ {s} /\ \A t \in Used \ {s} : cb'[t] = cb[t]
  <2>1. CASE InUse(s)
    <3>1. s \in Used /\ ReleaseSlot(s)
      BY <1>2, <2>1 DEF PacketSent, Used
    <3> QED
      BY <3>1, ReleaseKeeps DEF Inv
  <2>2. CASE ~InUse(s)
    BY <1>2, <2>2 DEF PacketSent, tableVars, Used, InUse
  <2> QED
    BY <2>1, <2>2
<1>5. /\ InOrder(Tail(up[i]), down[i], cbPos)
      /\ \A t, g : Carries(up[i], t, g) => Carries(Tail(up[i]), t, g) \/ t = s
  BY <1>1, <1>2, LineIs, ReadInOrder
<1>6. InOrder(up[i], down[i], cbPos)'
  BY <1>3, <1>4, <1>5
<1>7. ASSUME NEW t \in Used'
      PROVE  Carries(up'[i], t, cb'[t].req.id) \/ Carries(down'[i], t, cb'[t].req.id)
  <2>1. t \in Used /\ t # s /\ cb'[t] = cb[t]
    BY <1>4
  <2>2. Carries(up[i], t, cb[t].req.id) \/ Carries(down[i], t, cb[t].req.id)
    BY <1>1, <2>1 DEF OnTheWay
  <2> QED
    BY <1>3, <1>5, <2>1, <2>2
<1> QED
  BY <1>6, <1>7 DEF Ordered, OnTheWay

LEMMA TimeoutOrdered ==
  ASSUME NEW i, Radios = {i}, Inv, Ordered(i), regular, NEW s \in Sids, PacketTimeout(s)
  PROVE  Ordered(i)'
<1>1. s \in Used
  BY DEF PacketTimeout, Used
<1>2. CASE regular' = FALSE
  BY <1>2 DEF Ordered
<1>3. CASE ReleaseSlot(s) /\ UNCHANGED <<linkVars, regular>>
  <2>1. cbPos' = cbPos /\ Used' = Used \ {s} /\ \A t \in Used \ {s} : cb'[t] = cb[t]
    BY <1>1, <1>3, ReleaseKeeps DEF Inv
  <2>2. up' = up /\ down' = down
    BY <1>3 DEF linkVars
  <2> QED
    BY <2>1, <2>2 DEF Ordered, OnTheWay
<1> QED
  BY <1>2, <1>3 DEF PacketTimeout

LEMMA LineOrdered ==
  ASSUME NEW i, Radios = {i}, Inv, Ordered(i), regular, Line(i)
  PROVE  Ordered(i)'
<1>1. CASE regular' = FALSE
  BY <1>1 DEF Ordered
<1>2. CASE RadioSends(i)
  <2>1. down[i] # << >> /\ up'[i] = Append(up[i], Head(down[i])) /\ down'[i] = Tail(down[i])
    BY <1>2 DEF RadioSends, Inv, LinkTypeOK
  <2>2. cb' = cb /\ cbPos' = cbPos /\ Used' = Used
    BY DEF Line, tableVars, Used, InUse
  <2>3. InOrder(up[i], down[i], cbPos) /\ OnTheWay(i)
    BY DEF Ordered
  <2>4. /\ InOrder(Append(up[i], Head(down[i])), Tail(down[i]), cbPos)
        /\ \A s, f : Carries(up[i], s, f) \/ Carries(down[i], s, f) =>
             Carries(Append(up[i], Head(down[i])), s, f) \/ Carries(Tail(down[i]), s, f)
    BY <2>1, <2>3, LineIs, SentInOrder
  <2>5. InOrder(up[i], down[i], cbPos)'
    BY <2>1, <2>2, <2>4
  <2>6. ASSUME NEW s \in Used
        PROVE  Carries(up'[i], s, cb[s].req.id) \/ Carries(down'[i], s, cb[s].req.id)
    <3>1. Carries(up[i], s, cb[s].req.id) \/ Carries(down[i], s, cb[s].req.id)
      BY <2>3 DEF OnTheWay
    <3> QED
      BY <2>1, <2>4, <3>1
  <2> QED
    BY <2>2, <2>5, <2>6 DEF Ordered, OnTheWay
<1> QED
  BY <1>1, <1>2 DEF Line

\* A report reaches the sender of the frame it is about, or finds its slot free, as long
\* as nothing was lost or sent twice: one radio, whose line takes as many frames and
\* reports as the table has slots.
THEOREM ReportsMatch ==
  ASSUME NEW i, Radios = {i}, LineBound \in Nat, LineBound >= MaxCallbacks
  PROVE  Spec => []ReportsFindTheirFrame
<1>1. ASSUME Init PROVE Inv /\ Ordered(i)
  <2>1. Inv /\ Used = {} /\ up[i] = << >> /\ down[i] = << >>
    BY <1>1, InitInv DEF Init, TableInit, LinkInit, Used, InUse
  <2>2. InOrder(up[i], down[i], cbPos)
    BY <2>1, MaxCallbacksAssumption DEF InOrder
  <2> QED
    BY <2>1, <2>2 DEF Ordered, OnTheWay
<1>2. ASSUME Inv /\ Ordered(i), [Next]_vars PROVE (Inv /\ Ordered(i))'
  <2>1. Inv'
    BY <1>2, InvNext
  <2>2. CASE UNCHANGED vars
    <3>1. Ordered(i)'
      BY <1>2, <2>2 DEF vars, tableVars, linkVars, Ordered, OnTheWay, Used, InUse
    <3> QED
      BY <2>1, <3>1
  <2>3. CASE ~regular
    <3>1. ~regular'
      BY <1>2, <2>3 DEF Next, vars, SendPacket, PacketSent, PacketTimeout, Line
    <3> QED
      BY <2>1, <3>1 DEF Ordered
  <2>4. CASE regular /\ Next
    BY <1>2, <2>1, <2>4, SendOrdered, PacketSentOrdered, TimeoutOrdered, LineOrdered DEF Next
  <2> QED
    BY <1>2, <2>1, <2>2, <2>3, <2>4
<1>3. ASSUME Inv /\ Ordered(i) PROVE ReportsFindTheirFrame
  BY <1>3, OrderedFinds
<1> QED
  BY <1>1, <1>2, <1>3, PTL DEF Spec

-----------------------------------------------------------------------------
(* The bytes of a frame.  FlattenSeq is a recursive function: that it is   *)
(* one is proved by looking at the shortest prefix for which it were none. *)

\* f is the function that FlattenSeq recurs on, for the first n of seqs.
Flattens(f, seqs, n) ==
  f = [i \in 1 .. n |-> IF i = 1 THEN seqs[i] ELSE f[i - 1] \o seqs[i]]

LEMMA FlattensExists ==
  ASSUME NEW seqs, NEW n \in Nat
  PROVE  \E f : Flattens(f, seqs, n)
<1> DEFINE bad == {m \in Nat : ~ \E f : Flattens(f, seqs, m)}
<1>1. SUFFICES ASSUME bad # {} PROVE FALSE
  OBVIOUS
<1>2. PICK m \in bad : \A k \in bad : m <= k
  BY <1>1, LeastOf
<1>3. m \in Nat /\ ~ \E f : Flattens(f, seqs, m)
  OBVIOUS
<1>4. CASE m = 0
  <2>1. Flattens([i \in 1 .. m |-> << >>], seqs, m)
    BY <1>4 DEF Flattens
  <2> QED
    BY <1>3, <2>1
<1>5. CASE m # 0
  <2>1. m - 1 \in Nat /\ m - 1 \notin bad
    BY <1>2, <1>3, <1>5
  <2>2. PICK f : Flattens(f, seqs, m - 1)
    BY <2>1
  <2> DEFINE Last_ == IF m = 1 THEN seqs[m] ELSE f[m - 1] \o seqs[m]
             g == [i \in 1 .. m |-> IF i = m THEN Last_ ELSE f[i]]
  <2>3. \A i \in 1 .. m - 1 : g[i] = f[i]
    BY <1>3
  <2>4. \A i \in 1 .. m - 1 : f[i] = IF i = 1 THEN seqs[i] ELSE f[i - 1] \o seqs[i]
    BY <2>2 DEF Flattens
  <2>5. \A i \in 1 .. m : g[i] = IF i = 1 THEN seqs[i] ELSE g[i - 1] \o seqs[i]
    <3>1. ASSUME NEW i \in 1 .. m, i # m
          PROVE  g[i] = IF i = 1 THEN seqs[i] ELSE g[i - 1] \o seqs[i]
      <4>1. i \in 1 .. m - 1 /\ (i # 1 => i - 1 \in 1 .. m - 1)
        BY <1>3, <3>1
      <4>2. g[i] = f[i] /\ (i # 1 => g[i - 1] = f[i - 1])
        BY <2>3, <4>1
      <4> HIDE DEF g
      <4> QED
        BY <2>4, <4>1, <4>2
    <3>2. g[m] = IF m = 1 THEN seqs[m] ELSE g[m - 1] \o seqs[m]
      <4>1. g[m] = Last_ /\ (m # 1 => g[m - 1] = f[m - 1])
        BY <1>3, <1>5, <2>3
      <4> QED
        BY <4>1
    <3> HIDE DEF g
    <3> QED
      BY <3>1, <3>2
  <2>6. g = [i \in 1 .. m |-> g[i]]
    OBVIOUS
  <2> HIDE DEF g
  <2>7. Flattens(g, seqs, m)
    BY <2>5, <2>6 DEF Flattens
  <2> QED
    BY <1>3, <2>7
<1> QED
  BY <1>4, <1>5

LEMMA FlattenIs ==
  ASSUME NEW seqs, Len(seqs) \in Nat \ {0}
  PROVE  \E f : Flattens(f, seqs, Len(seqs)) /\ FlattenSeq(seqs) = f[Len(seqs)]
<1> DEFINE F == CHOOSE f : Flattens(f, seqs, Len(seqs))
<1>1. FlattenSeq(seqs) = F[Len(seqs)]
  BY Zenon DEF FlattenSeq, Flattens
<1> QED
  BY <1>1, FlattensExists

LEMMA NoneLeft ==
  ASSUME NEW S, NEW s \in Seq(S), Len(s) = 0
  PROVE  s = << >>
BY EmptySeq

\* What the function returns does not depend on what follows.
LEMMA FlattensAgree ==
  ASSUME NEW f, NEW g, NEW s, NEW t, NEW n \in Nat, NEW m \in Nat,
         Flattens(f, s, n), Flattens(g, t, m), n <= m,
         \A i \in 1 .. n : s[i] = t[i]
  PROVE  \A i \in 1 .. n : f[i] = g[i]
<1> DEFINE bad == {i \in 1 .. n : f[i] # g[i]}
<1>1. SUFFICES ASSUME bad # {} PROVE FALSE
  OBVIOUS
<1>2. bad \in SUBSET Nat
  OBVIOUS
<1>3. PICK i \in bad : \A j \in bad : i <= j
  BY <1>1, <1>2, LeastOf
<1>4. i \in 1 .. n /\ f[i] # g[i] /\ i \in 1 .. m
  OBVIOUS
<1>5. /\ f[i] = IF i = 1 THEN s[i] ELSE f[i - 1] \o s[i]
      /\ g[i] = IF i = 1 THEN t[i] ELSE g[i - 1] \o t[i]
  BY <1>4 DEF Flattens
<1>6. CASE i = 1
  BY <1>4, <1>5, <1>6
<1>7. CASE i # 1
  <2>1. i - 1 \in 1 .. n /\ i - 1 \notin bad
    BY <1>3, <1>4, <1>7
  <2>2. f[i - 1] = g[i - 1]
    BY <2>1
  <2> HIDE DEF bad
  <2> QED
    BY <1>4, <1>5, <1>7, <2>2
<1> QED
  BY <1>6, <1>7

LEMMA FlattensTyped ==
  ASSUME NEW S, NEW f, NEW seqs \in Seq(Seq(S)), NEW n \in Nat, n = Len(seqs),
         Flattens(f, seqs, n)
  PROVE  \A i \in 1 .. n : f[i] \in Seq(S)
<1> DEFINE bad == {i \in 1 .. n : f[i] \notin Seq(S)}
<1>1. SUFFICES ASSUME bad # {} PROVE FALSE
  OBVIOUS
<1>2. bad \in SUBSET Nat
  OBVIOUS
<1>3. PICK i \in bad : \A j \in bad : i <= j
  BY <1>1, <1>2, LeastOf
<1>4. i \in 1 .. n /\ f[i] \notin Seq(S)
  OBVIOUS
<1>5. f[i] = IF i = 1 THEN seqs[i] ELSE f[i - 1] \o seqs[i]
  BY <1>4 DEF Flattens
<1>6. seqs[i] \in Seq(S)
  BY <1>4
<1>7. i # 1 => f[i - 1] \in Seq(S)
  <2>1. i # 1 => i - 1 \in 1 .. n /\ i - 1 \notin bad
    BY <1>3, <1>4
  <2> QED
    BY <2>1
<1>8. PICK b, e : b = f[i - 1] /\ e = seqs[i]
  OBVIOUS
<1>9. i # 1 => b \o e \in Seq(S)
  BY <1>6, <1>7, <1>8, ConcatProperties
<1> HIDE DEF bad
<1> QED
  BY <1>4, <1>5, <1>6, <1>8, <1>9

LEMMA FlattenNone == FlattenSeq(<< >>) = << >>
BY DEF FlattenSeq

LEMMA FlattenTyped ==
  ASSUME NEW S, NEW seqs \in Seq(Seq(S))
  PROVE  FlattenSeq(seqs) \in Seq(S)
<1>1. PICK n : n = Len(seqs)
  OBVIOUS
<1>2. n \in Nat
  BY <1>1
<1>3. CASE n = 0
  <2>1. seqs = << >>
    BY <1>1, <1>3, NoneLeft
  <2> QED
    BY <2>1, FlattenNone, EmptySeq
<1>4. CASE n # 0
  <2>1. PICK f : Flattens(f, seqs, n) /\ FlattenSeq(seqs) = f[n]
    BY <1>1, <1>2, <1>4, FlattenIs
  <2>2. f[n] \in Seq(S)
    BY <1>1, <1>2, <1>4, <2>1, FlattensTyped
  <2> QED
    BY <2>1, <2>2
<1> QED
  BY <1>3, <1>4

LEMMA FlattenOne ==
  ASSUME NEW S, NEW x \in Seq(S)
  PROVE  FlattenSeq(<<x>>) = x
<1>1. PICK seqs : seqs = <<x>>
  OBVIOUS
<1>2. Len(seqs) = 1 /\ seqs[1] = x
  BY <1>1
<1>3. PICK f : Flattens(f, seqs, 1) /\ FlattenSeq(seqs) = f[1]
  <2>1. Len(seqs) \in Nat \ {0}
    BY <1>2
  <2> QED
    BY <1>2, <2>1, FlattenIs
<1>4. f[1] = seqs[1]
  BY <1>3 DEF Flattens
<1> QED
  BY <1>1, <1>2, <1>3, <1>4

LEMMA FlattenAppend ==
  ASSUME NEW S, NEW seqs \in Seq(Seq(S)), NEW x \in Seq(S)
  PROVE  FlattenSeq(Append(seqs, x)) = FlattenSeq(seqs) \o x
<1>1. PICK n, more : n = Len(seqs) /\ more = Append(seqs, x)
  OBVIOUS
<1>2. /\ n \in Nat /\ Len(more) = n + 1 /\ more[n + 1] = x
      /\ \A i \in 1 .. n : more[i] = seqs[i]
  BY <1>1
<1>3. PICK g : Flattens(g, more, n + 1) /\ FlattenSeq(more) = g[n + 1]
  <2>1. Len(more) \in Nat \ {0}
    BY <1>2
  <2> QED
    BY <1>2, <2>1, FlattenIs
<1>4. g[n + 1] = IF n = 0 THEN x ELSE g[n] \o x
  <2>1. n + 1 \in 1 .. n + 1 /\ (n + 1) - 1 = n
    BY <1>2
  <2>2. g[n + 1] = IF n + 1 = 1 THEN more[n + 1] ELSE g[(n + 1) - 1] \o more[n + 1]
    BY <1>3, <2>1 DEF Flattens
  <2> QED
    BY <1>2, <2>1, <2>2
<1>5. CASE n = 0
  <2>1. seqs = << >>
    BY <1>1, <1>5, NoneLeft
  <2>2. << >> \o x = x
    BY ConcatEmptySeq
  <2> QED
    BY <1>1, <1>3, <1>4, <1>5, <2>1, <2>2, FlattenNone
<1>6. CASE n # 0
  <2>1. PICK f : Flattens(f, seqs, n) /\ FlattenSeq(seqs) = f[n]
    BY <1>1, <1>2, <1>6, FlattenIs
  <2>2. \A i \in 1 .. n : f[i] = g[i]
    <3>1. n + 1 \in Nat /\ n <= n + 1 /\ \A i \in 1 .. n : seqs[i] = more[i]
      BY <1>2
    <3> QED
      BY <1>2, <1>3, <2>1, <3>1, FlattensAgree
  <2>3. f[n] = g[n]
    BY <1>2, <1>6, <2>2
  <2> QED
    BY <1>1, <1>3, <1>4, <1>6, <2>1, <2>3
<1> QED
  BY <1>5, <1>6

LEMMA FlattenCons ==
  ASSUME NEW S, NEW seqs \in Seq(Seq(S)), NEW x \in Seq(S)
  PROVE  FlattenSeq(<<x>> \o seqs) = x \o FlattenSeq(seqs)
<1>1. PICK n, more : n = Len(seqs) /\ more = <<x>> \o seqs
  OBVIOUS
<1>2. /\ n \in Nat /\ Len(more) = n + 1 /\ more[1] = x
      /\ \A i \in 1 .. n : more[i + 1] = seqs[i] /\ seqs[i] \in Seq(S)
  BY <1>1
<1>3. CASE n = 0
  <2>1. seqs = << >>
    BY <1>1, <1>3, NoneLeft
  <2>2. more = <<x>> /\ x \o << >> = x
    BY <1>1, <2>1, ConcatEmptySeq
  <2> QED
    BY <1>1, <2>1, <2>2, FlattenNone, FlattenOne
<1>4. CASE n # 0
  <2>1. PICK f : Flattens(f, seqs, n) /\ FlattenSeq(seqs) = f[n]
    BY <1>1, <1>2, <1>4, FlattenIs
  <2>2. PICK g : Flattens(g, more, n + 1) /\ FlattenSeq(more) = g[n + 1]
    <3>1. Len(more) \in Nat \ {0}
      BY <1>2
    <3> QED
      BY <1>2, <3>1, FlattenIs
  <2>3. g[1] = x /\ \A i \in 1 .. n : g[i + 1] = g[i] \o seqs[i]
    <3>1. g[1] = x
      BY <1>2, <2>2 DEF Flattens
    <3>2. ASSUME NEW i \in 1 .. n PROVE g[i + 1] = g[i] \o seqs[i]
      <4>1. i + 1 \in 1 .. n + 1 /\ i + 1 # 1 /\ (i + 1) - 1 = i
        BY <1>2
      <4>2. g[i + 1] = IF i + 1 = 1 THEN more[i + 1] ELSE g[(i + 1) - 1] \o more[i + 1]
        BY <2>2, <4>1 DEF Flattens
      <4> QED
        BY <1>2, <4>1, <4>2
    <3> QED
      BY <3>1, <3>2
  <2>4. f[1] = seqs[1] /\ \A i \in 1 .. n : i # 1 => f[i] = f[i - 1] \o seqs[i]
    <3>1. 1 \in 1 .. n
      BY <1>2, <1>4
    <3>2. \A i \in 1 .. n : f[i] = IF i = 1 THEN seqs[i] ELSE f[i - 1] \o seqs[i]
      BY <2>1 DEF Flattens
    <3> QED
      BY <3>1, <3>2
  <2>5. \A i \in 1 .. n : f[i] \in Seq(S)
    BY <1>1, <1>2, <2>1, FlattensTyped
  <2> DEFINE Same(i) == g[i + 1] = x \o f[i]
  <2>6. Same(1)
    <3>1. 1 \in 1 .. n
      BY <1>2, <1>4
    <3>2. g[1 + 1] = g[1] \o seqs[1]
      BY <2>3, <3>1
    <3> QED
      BY <2>3, <2>4, <3>2
  <2>7. ASSUME NEW i \in 1 .. n, i # 1, Same(i - 1) PROVE Same(i)
    <3>1. i - 1 \in 1 .. n /\ (i - 1) + 1 = i
      BY <1>2, <2>7
    <3>2. g[i] = x \o f[i - 1]
      BY <2>7, <3>1
    <3>3. g[i + 1] = g[i] \o seqs[i] /\ f[i] = f[i - 1] \o seqs[i]
      BY <2>3, <2>4, <2>7
    <3>4. PICK a, b : a = f[i - 1] /\ b = seqs[i]
      OBVIOUS
    <3>5. x \in Seq(S) /\ a \in Seq(S) /\ b \in Seq(S)
      BY <1>2, <2>5, <3>1, <3>4
    <3>6. (x \o a) \o b = x \o (a \o b)
      BY <3>5, ConcatAssociative
    <3> QED
      BY <3>2, <3>3, <3>4, <3>6
  <2> HIDE DEF Same
  <2> DEFINE bad == {i \in 1 .. n : ~Same(i)}
  <2>8. bad = {}
    <3>1. SUFFICES ASSUME bad # {} PROVE FALSE
      OBVIOUS
    <3>2. bad \in SUBSET Nat
      OBVIOUS
    <3>3. PICK i \in bad : \A j \in bad : i <= j
      BY <3>1, <3>2, LeastOf
    <3>4. i \in 1 .. n /\ ~Same(i)
      OBVIOUS
    <3>5. i # 1
      BY <2>6, <3>4
    <3>6. i - 1 \in 1 .. n /\ ~(i <= i - 1)
      BY <1>2, <3>4, <3>5
    <3>7. Same(i - 1)
      BY <3>3, <3>6
    <3> QED
      BY <2>7, <3>4, <3>5, <3>7
  <2>9. n \in 1 .. n
    BY <1>2, <1>4
  <2>10. Same(n)
    BY <2>8, <2>9
  <2>11. g[n + 1] = x \o f[n]
    BY <2>10 DEF Same
  <2> QED
    BY <1>1, <2>1, <2>2, <2>11
<1> QED
  BY <1>3, <1>4

\* The bytes between two SLIP_END.
Plain == Bytes \ {END}

LEMMA EscapeIs ==
  ASSUME NEW b \in Bytes
  PROVE  /\ Escape(b) \in Seq(Plain)
         /\ Escape(b) = IF b = END THEN <<ESC, ESC_END>>
                        ELSE IF b = ESC THEN <<ESC, ESC_ESC>> ELSE <<b>>
<1>1. /\ ESC \in Plain /\ ESC_END \in Plain /\ ESC_ESC \in Plain /\ END # ESC
      /\ b # END => b \in Plain
  BY DEF Plain, Bytes, ESC, ESC_END, ESC_ESC, END
<1>2. CASE b = END
  BY <1>1, <1>2 DEF Escape
<1>3. CASE b = ESC
  BY <1>1, <1>3 DEF Escape
<1>4. CASE b # END /\ b # ESC
  BY <1>1, <1>4 DEF Escape
<1> QED
  BY <1>2, <1>3, <1>4

\* The pieces of a sequence that gets longer.
LEMMA PiecesAppend ==
  ASSUME NEW S, NEW n \in Nat, NEW p, NEW q,
         p \in [1 .. n -> S], q \in [1 .. n + 1 -> S], \A k \in 1 .. n : q[k] = p[k]
  PROVE  p \in Seq(S) /\ q = Append(p, q[n + 1])
<1>2. n + 1 \in Nat /\ n + 1 \in 1 .. n + 1
  OBVIOUS
<1>3. p \in Seq(S) /\ Len(p) = n /\ q \in Seq(S) /\ Len(q) = n + 1
  BY <1>2
<1>4. PICK e : e = q[n + 1] /\ e \in S
  BY <1>2
<1>5. /\ Append(p, e) \in Seq(S) /\ Len(Append(p, e)) = n + 1
      /\ Append(p, e)[n + 1] = e
      /\ \A k \in 1 .. n : Append(p, e)[k] = p[k]
  BY <1>3, <1>4, AppendProperties
<1>6. PICK r : r = Append(p, e)
  OBVIOUS
<1>7. \A k \in 1 .. n + 1 : q[k] = r[k]
  <2>1. \A k \in 1 .. n + 1 : k \in 1 .. n \/ k = n + 1
    OBVIOUS
  <2>2. \A k \in 1 .. n : q[k] = r[k]
    BY <1>5, <1>6
  <2>3. q[n + 1] = r[n + 1]
    BY <1>4, <1>5, <1>6
  <2> QED
    BY <2>1, <2>2, <2>3
<1>8. q = r
  BY <1>3, <1>5, <1>6, <1>7, SeqEqual
<1> QED
  BY <1>3, <1>4, <1>6, <1>8

Body(frame) == FlattenSeq([k \in DOMAIN frame |-> Escape(frame[k])])

LEMMA EncodeIs == \A frame : Encode(frame) = Body(frame) \o <<END>>
BY DEF Encode, Body

LEMMA BodyTyped ==
  ASSUME NEW frame \in Seq(Bytes)
  PROVE  Body(frame) \in Seq(Plain)
<1>1. \A k \in DOMAIN frame : Escape(frame[k]) \in Seq(Plain)
  BY EscapeIs
<1>2. [k \in DOMAIN frame |-> Escape(frame[k])] \in Seq(Seq(Plain))
  <2>1. DOMAIN frame = 1 .. Len(frame) /\ Len(frame) \in Nat
    OBVIOUS
  <2>2. [k \in DOMAIN frame |-> Escape(frame[k])] \in [1 .. Len(frame) -> Seq(Plain)]
    BY <1>1, <2>1
  <2> QED
    BY <2>1, <2>2
<1> QED
  BY <1>2, FlattenTyped DEF Body

LEMMA BodyAppend ==
  ASSUME NEW frame \in Seq(Bytes), NEW b \in Bytes
  PROVE  Body(Append(frame, b)) = Body(frame) \o Escape(b)
<1>1. PICK n, more : n = Len(frame) /\ more = Append(frame, b)
  OBVIOUS
<1>2. /\ n \in Nat /\ more \in Seq(Bytes) /\ Len(more) = n + 1 /\ more[n + 1] = b
      /\ DOMAIN frame = 1 .. n /\ DOMAIN more = 1 .. n + 1
      /\ \A k \in 1 .. n : more[k] = frame[k] /\ frame[k] \in Bytes
  BY <1>1
<1>3. PICK p, q : p = [k \in DOMAIN frame |-> Escape(frame[k])]
                  /\ q = [k \in DOMAIN more |-> Escape(more[k])]
  OBVIOUS
<1>5. /\ \A k \in 1 .. n : q[k] = p[k] /\ p[k] \in Seq(Plain)
      /\ q[n + 1] = Escape(b) /\ Escape(b) \in Seq(Plain)
  BY <1>2, <1>3, EscapeIs
<1>6. p \in [1 .. n -> Seq(Plain)] /\ q \in [1 .. n + 1 -> Seq(Plain)]
  <2>1. \A k \in 1 .. n + 1 : k \in 1 .. n \/ k = n + 1
    BY <1>2
  <2>2. \A k \in 1 .. n + 1 : q[k] \in Seq(Plain)
    BY <1>5, <2>1
  <2> QED
    BY <1>2, <1>3, <1>5, <2>2
<1>7. p \in Seq(Seq(Plain)) /\ q = Append(p, q[n + 1])
  BY <1>2, <1>5, <1>6, PiecesAppend
<1>8. FlattenSeq(q) = FlattenSeq(p) \o Escape(b)
  BY <1>5, <1>7, FlattenAppend
<1> QED
  BY <1>1, <1>3, <1>8 DEF Body

LEMMA BodyNone == Body(<< >>) = << >>
<1>1. [k \in DOMAIN << >> |-> Escape(<< >>[k])] = << >>
  OBVIOUS
<1> QED
  BY <1>1, FlattenNone DEF Body

LEMMA BodySome ==
  ASSUME NEW frame \in Seq(Bytes), frame # << >>
  PROVE  Len(Body(frame)) > 0
<1>1. PICK s \in Seq(Bytes), b \in Bytes : frame = Append(s, b)
  BY SequenceEmptyOrAppend
<1>2. Body(frame) = Body(s) \o Escape(b)
  BY <1>1, BodyAppend
<1>3. Body(s) \in Seq(Plain) /\ Escape(b) \in Seq(Plain)
  BY BodyTyped, EscapeIs
<1>4. PICK l : l = Len(Escape(b))
  OBVIOUS
<1>5. l \in 1 .. 2
  <2>1. PICK e : e = Escape(b)
    OBVIOUS
  <2>2. e = <<ESC, ESC_END>> \/ e = <<ESC, ESC_ESC>> \/ e = <<b>>
    BY <2>1, EscapeIs
  <2>3. Len(<<ESC, ESC_END>>) = 2 /\ Len(<<ESC, ESC_ESC>>) = 2 /\ Len(<<b>>) = 1
    OBVIOUS
  <2> QED
    BY <1>4, <2>1, <2>2, <2>3
<1> QED
  BY <1>2, <1>3, <1>4, <1>5

\* What a byte of a packet stands for, in Decode.
Piece(bytes, k) ==
  IF k > 1 /\ bytes[k - 1] = ESC
  THEN IF bytes[k] = ESC_END THEN <<END>>
       ELSE IF bytes[k] = ESC_ESC THEN <<ESC>> ELSE << >>
  ELSE IF bytes[k] = ESC THEN << >> ELSE <<bytes[k]>>

LEMMA PieceIs ==
  ASSUME NEW bytes \in Seq(Bytes), NEW k \in 1 .. Len(bytes)
  PROVE  Piece(bytes, k) \in Seq(Bytes)
<1>1. bytes[k] \in Bytes
  OBVIOUS
<1>2. END \in Bytes /\ ESC \in Bytes
  BY DEF Bytes, END, ESC
<1> QED
  BY <1>1, <1>2 DEF Piece

LEMMA DecodeTyped ==
  ASSUME NEW bytes \in Seq(Bytes)
  PROVE  Decode(bytes) \in Seq(Bytes)
<1>1. DOMAIN bytes = 1 .. Len(bytes) /\ Len(bytes) \in Nat
  OBVIOUS
<1>2. PICK p : p = [k \in DOMAIN bytes |-> Piece(bytes, k)]
  OBVIOUS
<1>3. p \in [1 .. Len(bytes) -> Seq(Bytes)]
  BY <1>1, <1>2, PieceIs
<1>4. p \in Seq(Seq(Bytes))
  BY <1>1, <1>3
<1>5. Decode(bytes) = FlattenSeq(p)
  BY <1>2, Zenon DEF Decode, Piece
<1> QED
  BY <1>4, <1>5, FlattenTyped

LEMMA DecodeAppend ==
  ASSUME NEW bytes \in Seq(Bytes), NEW x \in Bytes
  PROVE  LET more == Append(bytes, x)
         IN  Decode(more) = Decode(bytes) \o Piece(more, Len(bytes) + 1)
<1>1. PICK n, more : n = Len(bytes) /\ more = Append(bytes, x)
  OBVIOUS
<1>2. /\ n \in Nat /\ more \in Seq(Bytes) /\ Len(more) = n + 1
      /\ DOMAIN bytes = 1 .. n /\ DOMAIN more = 1 .. n + 1
      /\ \A k \in 1 .. n : more[k] = bytes[k]
  BY <1>1
<1>3. PICK p, q : p = [k \in DOMAIN bytes |-> Piece(bytes, k)]
                  /\ q = [k \in DOMAIN more |-> Piece(more, k)]
  OBVIOUS
<1>4. \A k \in 1 .. n + 1 : q[k] = Piece(more, k) /\ Piece(more, k) \in Seq(Bytes)
  BY <1>2, <1>3, PieceIs
<1>5. ASSUME NEW k \in 1 .. n PROVE q[k] = p[k] /\ p[k] \in Seq(Bytes)
  <2>1. p[k] = Piece(bytes, k) /\ q[k] = Piece(more, k) /\ p[k] \in Seq(Bytes)
    BY <1>1, <1>2, <1>3, PieceIs
  <2>2. more[k] = bytes[k] /\ (k > 1 => k - 1 \in 1 .. n)
    BY <1>2
  <2>3. Piece(bytes, k) = Piece(more, k)
    BY <1>2, <2>2 DEF Piece
  <2> QED
    BY <2>1, <2>3
<1>6. p \in [1 .. n -> Seq(Bytes)] /\ q \in [1 .. n + 1 -> Seq(Bytes)]
  BY <1>2, <1>3, <1>4, <1>5
<1>7. p \in Seq(Seq(Bytes)) /\ q = Append(p, q[n + 1])
  BY <1>2, <1>5, <1>6, PiecesAppend
<1>8. n + 1 \in 1 .. n + 1
  BY <1>2
<1>9. FlattenSeq(q) = FlattenSeq(p) \o Piece(more, n + 1)
  BY <1>4, <1>7, <1>8, FlattenAppend
<1>10. Decode(bytes) = FlattenSeq(p) /\ Decode(more) = FlattenSeq(q)
  BY <1>3, Zenon DEF Decode, Piece
<1> QED
  BY <1>1, <1>9, <1>10

LEMMA DecodeNone == Decode(<< >>) = << >>
<1>1. [k \in DOMAIN << >> |-> Piece(<< >>, k)] = << >>
  OBVIOUS
<1>2. Decode(<< >>) = FlattenSeq([k \in DOMAIN << >> |-> Piece(<< >>, k)])
  BY Zenon DEF Decode, Piece
<1> QED
  BY <1>1, <1>2, FlattenNone

\* The last byte of a packet, when there is any, does not begin an escape sequence.
Ends(bytes) == bytes # << >> => bytes[Len(bytes)] # ESC

\* A frame is escaped byte by byte, and unescaped to itself.
Undone(frame) == Decode(Body(frame)) = frame /\ Ends(Body(frame))

LEMMA UndoneAppend ==
  ASSUME NEW frame \in Seq(Bytes), NEW b \in Bytes, Undone(frame)
  PROVE  Undone(Append(frame, b))
<1>1. PICK body, n : body = Body(frame) /\ n = Len(body)
  OBVIOUS
<1>2. body \in Seq(Bytes) /\ n \in Nat
  <2>1. body \in Seq(Plain)
    BY <1>1, BodyTyped
  <2> QED
    BY <1>1, <2>1, SeqMonotonic DEF Plain
<1>3. body # << >> => body[n] # ESC
  BY <1>1 DEF Undone, Ends
<1>4. Body(Append(frame, b)) = body \o Escape(b)
  BY <1>1, BodyAppend
<1>5. Decode(body) = frame
  BY <1>1 DEF Undone
<1>6. n + 1 > 1 => n >= 1 /\ body # << >>
  BY <1>1, <1>2
<1>7. ASSUME NEW x \in Bytes
      PROVE  /\ Append(body, x) \in Seq(Bytes) /\ Len(Append(body, x)) = n + 1
             /\ Append(body, x)[n + 1] = x
             /\ Decode(Append(body, x)) = frame \o (IF x = ESC THEN << >> ELSE <<x>>)
  <2>1. PICK more : more = Append(body, x)
    OBVIOUS
  <2>2. /\ more \in Seq(Bytes) /\ Len(more) = n + 1 /\ more[n + 1] = x
        /\ n >= 1 => more[n] = body[n]
    BY <1>1, <1>2, <2>1
  <2>3. Decode(more) = frame \o Piece(more, n + 1)
    BY <1>1, <1>2, <1>5, <2>1, DecodeAppend
  <2>4. Piece(more, n + 1) = IF x = ESC THEN << >> ELSE <<x>>
    BY <1>2, <1>3, <1>6, <2>2 DEF Piece
  <2> QED
    BY <2>1, <2>2, <2>3, <2>4
<1>8. CASE b # END /\ b # ESC
  <2>1. body \o Escape(b) = Append(body, b)
    <3>1. Escape(b) = <<b>>
      BY <1>8, EscapeIs
    <3> QED
      BY <1>2, <3>1
  <2>2. Undone(Append(frame, b)) <=> Decode(Append(body, b)) = Append(frame, b) /\ Ends(Append(body, b))
    BY <1>4, <2>1 DEF Undone
  <2>3. Append(frame, b) = frame \o <<b>>
    OBVIOUS
  <2> QED
    BY <1>7, <1>8, <2>2, <2>3 DEF Ends
<1>9. CASE b = END \/ b = ESC
  <2> PICK y : y = IF b = END THEN ESC_END ELSE ESC_ESC
    OBVIOUS
  <2>1. /\ y \in Bytes /\ y # ESC /\ Escape(b) = <<ESC, y>> /\ ESC \in Bytes
        /\ (y = ESC_END /\ b = END) \/ (y = ESC_ESC /\ b = ESC)
    <3>1. ESC_END \in Bytes /\ ESC_ESC \in Bytes /\ ESC \in Bytes
      BY DEF Bytes, ESC_END, ESC_ESC, ESC
    <3>2. ESC_END # ESC /\ ESC_ESC # ESC /\ END # ESC
      BY DEF ESC_END, ESC_ESC, END, ESC
    <3>3. b = END => Escape(b) = <<ESC, ESC_END>>
      BY EscapeIs
    <3>4. b = ESC => Escape(b) = <<ESC, ESC_ESC>>
      BY <3>2, EscapeIs
    <3>5. CASE b = END
      BY <3>1, <3>2, <3>3, <3>5
    <3>6. CASE b = ESC
      BY <3>1, <3>2, <3>4, <3>6
    <3> QED
      BY <1>9, <3>5, <3>6
  <2>2. PICK half, whole : half = Append(body, ESC) /\ whole = Append(half, y)
    OBVIOUS
  <2>3. half \in Seq(Bytes) /\ Len(half) = n + 1 /\ half[n + 1] = ESC /\ Decode(half) = frame
    <3>1. frame \o << >> = frame
      BY ConcatEmptySeq
    <3> QED
      BY <1>7, <2>1, <2>2, <3>1
  <2>4. /\ whole \in Seq(Bytes) /\ Len(whole) = n + 2 /\ whole[n + 2] = y
        /\ whole[n + 1] = ESC
    BY <1>2, <2>1, <2>2, <2>3
  <2>5. Decode(whole) = frame \o Piece(whole, n + 2)
    <3>1. Decode(whole) = Decode(half) \o Piece(whole, Len(half) + 1)
      BY <2>1, <2>2, <2>3, DecodeAppend
    <3> QED
      BY <1>2, <2>3, <3>1
  <2>6. Piece(whole, n + 2) = <<b>>
    BY <1>2, <2>1, <2>4 DEF Piece, ESC_END, ESC_ESC, END, ESC
  <2>7. body \o Escape(b) = whole
    BY <1>2, <2>1, <2>2
  <2>8. Append(frame, b) = frame \o <<b>>
    OBVIOUS
  <2>9. Ends(whole)
    BY <1>2, <2>1, <2>4 DEF Ends
  <2> QED
    BY <1>4, <2>5, <2>6, <2>7, <2>8, <2>9 DEF Undone
<1> QED
  BY <1>8, <1>9

\* What slip-dev.c escapes, slip_poll_handler() unescapes.
LEMMA DecodeBody ==
  ASSUME NEW frame \in Seq(Bytes)
  PROVE  Decode(Body(frame)) = frame
<1> DEFINE bad == {n \in Nat : \E f \in Seq(Bytes) : Len(f) = n /\ ~Undone(f)}
<1>1. bad = {}
  <2>1. SUFFICES ASSUME bad # {} PROVE FALSE
    OBVIOUS
  <2>2. PICK n \in bad : \A m \in bad : n <= m
    BY <2>1, LeastOf
  <2>3. PICK f \in Seq(Bytes) : Len(f) = n /\ ~Undone(f)
    OBVIOUS
  <2>4. CASE f = << >>
    BY <2>3, <2>4, BodyNone, DecodeNone DEF Undone, Ends
  <2>5. CASE f # << >>
    <3>1. PICK s \in Seq(Bytes), b \in Bytes : f = Append(s, b)
      BY <2>5, SequenceEmptyOrAppend
    <3>2. Len(s) \in Nat /\ ~(n <= Len(s))
      BY <2>3, <3>1
    <3>3. Len(s) \notin bad
      BY <2>2, <3>2
    <3>4. Undone(s)
      BY <3>2, <3>3
    <3> QED
      BY <2>3, <3>1, <3>4, UndoneAppend
  <2> QED
    BY <2>4, <2>5
<1>2. Len(frame) \in Nat /\ Len(frame) \notin bad
  BY <1>1
<1>3. Undone(frame)
  BY <1>2
<1> QED
  BY <1>3 DEF Undone

\* A packet's first bytes stand for no more bytes than the packet.
LEMMA DecodeShorter ==
  ASSUME NEW bytes \in Seq(Bytes), NEW m \in 0 .. Len(bytes)
  PROVE  Len(Decode(SubSeq(bytes, 1, m))) <= Len(Decode(bytes))
<1>1. PICK size : size = Len(bytes)
  OBVIOUS
<1>2. PICK D : D = [n \in 0 .. size |-> Len(Decode(SubSeq(bytes, 1, n)))]
  OBVIOUS
<1>3. size \in Nat
  BY <1>1
<1>4. ASSUME NEW n \in 0 .. size
      PROVE  /\ D[n] = Len(Decode(SubSeq(bytes, 1, n))) /\ D[n] \in Nat
             /\ SubSeq(bytes, 1, n) \in Seq(Bytes) /\ Len(SubSeq(bytes, 1, n)) = n
  <2>1. SubSeq(bytes, 1, n) \in Seq(Bytes) /\ Len(SubSeq(bytes, 1, n)) = n
    BY <1>1, <1>3
  <2>2. Len(Decode(SubSeq(bytes, 1, n))) \in Nat
    BY <2>1, DecodeTyped, LenProperties
  <2> QED
    BY <1>2, <2>1, <2>2
<1>5. ASSUME NEW n \in 1 .. size PROVE D[n - 1] <= D[n]
  <2>1. PICK k, s, t, x :
          k = n - 1 /\ s = SubSeq(bytes, 1, k) /\ t = SubSeq(bytes, 1, n) /\ x = bytes[n]
    OBVIOUS
  <2>2. k \in 0 .. size /\ n \in 0 .. size /\ n = k + 1 /\ x \in Bytes
    BY <1>1, <1>3, <2>1
  <2>3. /\ s \in Seq(Bytes) /\ t \in Seq(Bytes) /\ Len(s) = k /\ Len(t) = n
        /\ D[k] = Len(Decode(s)) /\ D[n] = Len(Decode(t))
    BY <1>4, <2>1, <2>2
  <2>4. t = Append(s, x)
    BY <1>1, <1>3, <2>1, <2>2
  <2>5. Decode(t) = Decode(s) \o Piece(t, Len(s) + 1)
    BY <2>2, <2>3, <2>4, DecodeAppend
  <2>6. Len(s) + 1 \in 1 .. Len(t)
    BY <2>2, <2>3
  <2>7. Decode(s) \in Seq(Bytes) /\ Piece(t, Len(s) + 1) \in Seq(Bytes)
    BY <2>3, <2>6, DecodeTyped, PieceIs
  <2>8. PICK a, b : a = Decode(s) /\ b = Piece(t, Len(s) + 1)
    OBVIOUS
  <2>9. a \in Seq(Bytes) /\ b \in Seq(Bytes) /\ Decode(t) = a \o b
    BY <2>5, <2>7, <2>8
  <2>10. Len(a \o b) = Len(a) + Len(b) /\ Len(a) \in Nat /\ Len(b) \in Nat
    BY <2>9
  <2> QED
    BY <2>1, <2>3, <2>8, <2>9, <2>10
<1> DEFINE bad == {j \in Nat : j <= size /\ ~(D[size - j] <= D[size])}
<1>6. bad = {}
  <2>1. SUFFICES ASSUME bad # {} PROVE FALSE
    OBVIOUS
  <2>2. PICK j \in bad : \A i \in bad : j <= i
    BY <2>1, LeastOf
  <2>3. j \in Nat /\ j <= size /\ ~(D[size - j] <= D[size])
    OBVIOUS
  <2>4. /\ size - j \in 0 .. size /\ size \in 0 .. size /\ size - 0 = size
    BY <1>3, <2>3
  <2>5. D[size - j] \in Nat /\ D[size] \in Nat
    BY <1>4, <2>4
  <2>6. j # 0
    BY <2>3, <2>4, <2>5
  <2>7. j - 1 \in Nat /\ j - 1 <= size /\ ~(j <= j - 1)
    BY <1>3, <2>3, <2>6
  <2>8. D[size - (j - 1)] <= D[size]
    BY <2>2, <2>7
  <2>9. PICK n : n = size - (j - 1)
    OBVIOUS
  <2>10. n \in 1 .. size /\ n - 1 = size - j /\ n \in 0 .. size
    BY <1>3, <2>3, <2>6, <2>9
  <2>11. D[n - 1] <= D[n] /\ D[n] <= D[size] /\ D[n] \in Nat
    BY <1>4, <1>5, <2>8, <2>9, <2>10
  <2> QED
    BY <2>3, <2>5, <2>10, <2>11
<1>7. size - m \in Nat /\ size - m <= size /\ size - (size - m) = m /\ m \in 0 .. size /\ size \in 0 .. size
  BY <1>1, <1>3
<1>8. D[m] <= D[size]
  BY <1>6, <1>7
<1>9. D[m] = Len(Decode(SubSeq(bytes, 1, m))) /\ D[size] = Len(Decode(SubSeq(bytes, 1, size)))
  BY <1>4, <1>7
<1>10. SubSeq(bytes, 1, size) = bytes
  BY <1>1
<1> QED
  BY <1>8, <1>9, <1>10

\* The first SLIP_END of some bytes.
FirstEnd(s, k) == k \in 1 .. Len(s) /\ s[k] = END /\ \A j \in 1 .. k - 1 : s[j] # END

LEMMA FirstEndOnly ==
  ASSUME NEW s, Len(s) \in Nat, NEW j, NEW k, FirstEnd(s, j), FirstEnd(s, k)
  PROVE  j = k
<1>1. j \in Nat /\ k \in Nat /\ j > 0 /\ k > 0 /\ s[j] = END /\ s[k] = END
  BY DEF FirstEnd
<1>2. ~(j < k) /\ ~(k < j)
  BY <1>1 DEF FirstEnd
<1> QED
  BY <1>1, <1>2

RealFrames == Seq(Bytes) \ {<< >>}

\* A frame is escaped to its body, in which there is no SLIP_END, and one SLIP_END.
LEMMA EncodeTyped ==
  ASSUME NEW frame \in RealFrames
  PROVE  LET body == Body(frame)
             code == Encode(frame)
             n == Len(body)
         IN  /\ body \in Seq(Bytes) /\ n \in Nat \ {0}
             /\ code \in Seq(Bytes) /\ Len(code) = n + 1
             /\ code[n + 1] = END
             /\ \A k \in 1 .. n : code[k] = body[k] /\ code[k] # END
<1>1. PICK body, code, n : body = Body(frame) /\ code = Encode(frame) /\ n = Len(body)
  OBVIOUS
<1>2. body \in Seq(Plain) /\ n \in Nat /\ n > 0
  <2>1. frame \in Seq(Bytes) /\ frame # << >>
    BY DEF RealFrames
  <2>2. Len(body) > 0
    BY <1>1, <2>1, BodySome
  <2>3. body \in Seq(Plain)
    BY <1>1, <2>1, BodyTyped
  <2> QED
    BY <1>1, <2>2, <2>3
<1>3. body \in Seq(Bytes)
  BY <1>2, SeqMonotonic DEF Plain
<1>4. END \in Bytes
  BY DEF END, Bytes
<1>5. code = body \o <<END>>
  BY <1>1, EncodeIs
<1>6. code = Append(body, END)
  BY <1>3, <1>4, <1>5, AppendIsConcat
<1>7. /\ code \in Seq(Bytes) /\ Len(code) = n + 1 /\ code[n + 1] = END
      /\ \A k \in 1 .. n : code[k] = body[k]
  BY <1>1, <1>3, <1>4, <1>6, AppendProperties
<1>8. \A k \in 1 .. n : body[k] # END
  <2>1. \A k \in 1 .. n : body[k] \in Plain
    BY <1>1, <1>2
  <2> QED
    BY <2>1 DEF Plain
<1> QED
  BY <1>1, <1>2, <1>3, <1>7, <1>8

\* What is written for some frames.
Stream(frames) == FlattenSeq([k \in DOMAIN frames |-> Encode(frames[k])])

LEMMA CodesAre ==
  ASSUME NEW p \in Seq(RealFrames)
  PROVE  [k \in DOMAIN p |-> Encode(p[k])] \in Seq(Seq(Bytes))
<1>1. DOMAIN p = 1 .. Len(p) /\ Len(p) \in Nat
  OBVIOUS
<1>2. \A k \in 1 .. Len(p) : Encode(p[k]) \in Seq(Bytes)
  BY <1>1, EncodeTyped
<1>3. [k \in DOMAIN p |-> Encode(p[k])] \in [1 .. Len(p) -> Seq(Bytes)]
  BY <1>1, <1>2
<1> QED
  BY <1>1, <1>3

LEMMA StreamTyped ==
  ASSUME NEW p \in Seq(RealFrames)
  PROVE  Stream(p) \in Seq(Bytes)
BY CodesAre, FlattenTyped DEF Stream

LEMMA StreamNone == Stream(<< >>) = << >>
<1>1. [k \in DOMAIN << >> |-> Encode(<< >>[k])] = << >>
  OBVIOUS
<1> QED
  BY <1>1, FlattenNone DEF Stream

LEMMA StreamAppend ==
  ASSUME NEW p \in Seq(RealFrames), NEW f \in RealFrames
  PROVE  Stream(Append(p, f)) = Stream(p) \o Encode(f)
<1>1. PICK n, more : n = Len(p) /\ more = Append(p, f)
  OBVIOUS
<1>2. /\ n \in Nat /\ more \in Seq(RealFrames) /\ Len(more) = n + 1 /\ more[n + 1] = f
      /\ DOMAIN p = 1 .. n /\ DOMAIN more = 1 .. n + 1
      /\ \A k \in 1 .. n : more[k] = p[k]
  BY <1>1
<1>3. PICK s, t : s = [k \in DOMAIN p |-> Encode(p[k])] /\ t = [k \in DOMAIN more |-> Encode(more[k])]
  OBVIOUS
<1>4. s \in Seq(Seq(Bytes)) /\ t \in Seq(Seq(Bytes))
  BY <1>2, <1>3, CodesAre
<1>5. s \in [1 .. n -> Seq(Bytes)] /\ t \in [1 .. n + 1 -> Seq(Bytes)]
  BY <1>2, <1>3, <1>4
<1>6. n + 1 \in 1 .. n + 1 /\ \A k \in 1 .. n : k \in 1 .. n + 1
  BY <1>2
<1>7. t[n + 1] = Encode(f) /\ \A k \in 1 .. n : t[k] = s[k]
  BY <1>2, <1>3, <1>6
<1>8. t = Append(s, Encode(f)) /\ Encode(f) \in Seq(Bytes)
  BY <1>2, <1>5, <1>6, <1>7, PiecesAppend, EncodeTyped
<1> QED
  BY <1>1, <1>3, <1>4, <1>8, FlattenAppend DEF Stream

LEMMA StreamCons ==
  ASSUME NEW p \in Seq(RealFrames), p # << >>
  PROVE  /\ Head(p) \in RealFrames /\ Tail(p) \in Seq(RealFrames)
         /\ Stream(p) = Encode(Head(p)) \o Stream(Tail(p))
<1>1. PICK n, rest, f : n = Len(p) /\ rest = Tail(p) /\ f = Head(p)
  OBVIOUS
<1>2. /\ n \in Nat /\ n > 0 /\ rest \in Seq(RealFrames) /\ Len(rest) = n - 1 /\ p[1] = f
      /\ f \in RealFrames
      /\ DOMAIN p = 1 .. n /\ DOMAIN rest = 1 .. n - 1
      /\ \A k \in 1 .. n - 1 : rest[k] = p[k + 1]
  BY <1>1
<1>3. PICK s, t : s = [k \in DOMAIN p |-> Encode(p[k])] /\ t = [k \in DOMAIN rest |-> Encode(rest[k])]
  OBVIOUS
<1>4. s \in Seq(Seq(Bytes)) /\ t \in Seq(Seq(Bytes)) /\ Encode(f) \in Seq(Bytes)
  BY <1>2, <1>3, CodesAre, EncodeTyped
<1>5. PICK e : e = Encode(f)
  OBVIOUS
<1>6. Len(s) = n /\ Len(t) = n - 1 /\ s[1] = e /\ \A k \in 1 .. n - 1 : s[k + 1] = t[k]
  <2>1. 1 \in 1 .. n /\ \A k \in 1 .. n - 1 : k + 1 \in 1 .. n
    BY <1>2
  <2> QED
    BY <1>2, <1>3, <1>5, <2>1
<1>7. PICK u : u = <<e>> \o t
  OBVIOUS
<1>8. u \in Seq(Seq(Bytes)) /\ Len(u) = n /\ u[1] = e /\ \A k \in 1 .. n - 1 : u[k + 1] = t[k]
  BY <1>2, <1>4, <1>5, <1>6, <1>7
<1>9. ASSUME NEW k \in 1 .. n PROVE s[k] = u[k]
  <2>1. CASE k = 1
    BY <1>6, <1>8, <2>1
  <2>2. CASE k # 1
    <3>1. k - 1 \in 1 .. n - 1 /\ (k - 1) + 1 = k
      BY <1>2, <2>2
    <3>2. s[(k - 1) + 1] = u[(k - 1) + 1]
      BY <1>6, <1>8, <3>1
    <3> QED
      BY <3>1, <3>2
  <2> QED
    BY <2>1, <2>2
<1>10. s = u
  BY <1>4, <1>6, <1>8, <1>9, SeqEqual
<1>11. FlattenSeq(u) = e \o FlattenSeq(t)
  BY <1>4, <1>5, <1>7, FlattenCons
<1>12. Stream(p) = FlattenSeq(s) /\ Stream(rest) = FlattenSeq(t)
  BY <1>3 DEF Stream
<1>13. Stream(p) = e \o Stream(rest)
  BY <1>10, <1>11, <1>12
<1> QED
  BY <1>1, <1>2, <1>5, <1>13

\* The first frame of a stream, found by its SLIP_END.
LEMMA FrameAhead ==
  ASSUME NEW p \in Seq(RealFrames), NEW k, FirstEnd(Stream(p), k)
  PROVE  /\ p # << >> /\ k - 1 = Len(Body(Head(p)))
         /\ SubSeq(Stream(p), 1, k - 1) = Body(Head(p))
         /\ SubSeq(Stream(p), k + 1, Len(Stream(p))) = Stream(Tail(p))
<1>1. p # << >>
  <2>1. k \in 1 .. Len(Stream(p))
    BY DEF FirstEnd
  <2>2. SUFFICES ASSUME p = << >> PROVE FALSE
    OBVIOUS
  <2> QED
    BY <2>1, <2>2, StreamNone, EmptySeq
<1>2. PICK f, rest, s, body, code, n :
        /\ f = Head(p) /\ rest = Stream(Tail(p)) /\ s = Stream(p)
        /\ body = Body(f) /\ code = Encode(f) /\ n = Len(body)
  OBVIOUS
<1>3. f \in RealFrames /\ rest \in Seq(Bytes) /\ s = code \o rest /\ s \in Seq(Bytes)
  <2>1. f \in RealFrames /\ Tail(p) \in Seq(RealFrames)
    BY <1>1, <1>2, StreamCons
  <2> QED
    BY <1>1, <1>2, <2>1, StreamCons, StreamTyped
<1>4. /\ body \in Seq(Bytes) /\ n \in Nat \ {0}
      /\ code \in Seq(Bytes) /\ Len(code) = n + 1
      /\ code[n + 1] = END
      /\ \A j \in 1 .. n : code[j] = body[j] /\ code[j] # END
  BY <1>2, <1>3, EncodeTyped
<1>5. /\ Len(s) = n + 1 + Len(rest) /\ Len(rest) \in Nat
      /\ \A j \in 1 .. n + 1 : s[j] = code[j]
      /\ \A j \in 1 .. Len(rest) : s[n + 1 + j] = rest[j]
  <2>1. /\ Len(s) = Len(code) + Len(rest)
        /\ \A j \in 1 .. Len(code) + Len(rest) :
             s[j] = IF j <= Len(code) THEN code[j] ELSE rest[j - Len(code)]
    BY <1>3, <1>4, ConcatProperties
  <2>2. Len(rest) \in Nat /\ n + 1 \in Nat
    BY <1>3, <1>4
  <2>3. ASSUME NEW j \in 1 .. Len(rest) PROVE s[n + 1 + j] = rest[j]
    <3>1. PICK i : i = n + 1 + j
      OBVIOUS
    <3>2. i \in 1 .. Len(code) + Len(rest) /\ ~(i <= Len(code)) /\ i - Len(code) = j
      BY <1>4, <2>2, <3>1
    <3>3. s[i] = rest[i - Len(code)]
      BY <2>1, <3>2
    <3> QED
      BY <3>1, <3>2, <3>3
  <2>4. ASSUME NEW j \in 1 .. n + 1 PROVE s[j] = code[j]
    BY <1>4, <2>1, <2>2
  <2> QED
    BY <1>4, <2>1, <2>2, <2>3, <2>4
<1>6. FirstEnd(s, n + 1)
  BY <1>4, <1>5 DEF FirstEnd
<1>7. k = n + 1
  <2>1. Len(s) \in Nat
    BY <1>4, <1>5
  <2> QED
    BY <1>2, <1>6, <2>1, FirstEndOnly
<1>8. PICK l : l = Len(s)
  OBVIOUS
<1>9. PICK a, b : a = SubSeq(s, 1, n) /\ b = SubSeq(s, n + 2, l)
  OBVIOUS
<1>10. a = body
  <2>1. a \in Seq(Bytes) /\ Len(a) = n /\ \A j \in 1 .. n : a[j] = s[j]
    BY <1>3, <1>4, <1>5, <1>9
  <2>2. \A j \in 1 .. n : a[j] = body[j]
    BY <1>4, <1>5, <2>1
  <2> QED
    BY <1>2, <1>4, <2>1, <2>2, SeqEqual
<1>11. b = rest
  <2>1. b \in Seq(Bytes) /\ Len(b) = Len(rest) /\ \A j \in 1 .. Len(rest) : b[j] = s[n + 1 + j]
    <3>1. PICK m : m = n + 2
      OBVIOUS
    <3>2. m \in 1 .. Len(s) + 1 /\ l \in m - 1 .. Len(s) /\ l - m + 1 = Len(rest)
      BY <1>4, <1>5, <1>8, <3>1
    <3>3. b = SubSeq(s, m, l)
      BY <1>9, <3>1
    <3>4. b \in Seq(Bytes) /\ Len(b) = l - m + 1 /\ \A j \in 1 .. l - m + 1 : b[j] = s[m + j - 1]
      BY <1>3, <3>2, <3>3, SubSeqProperties
    <3>5. \A j \in 1 .. Len(rest) : m + j - 1 = n + 1 + j
      BY <1>4, <1>5, <3>1
    <3> QED
      BY <3>2, <3>4, <3>5
  <2>2. \A j \in 1 .. Len(rest) : b[j] = rest[j]
    BY <1>5, <2>1
  <2> QED
    BY <1>3, <2>1, <2>2, SeqEqual
<1> QED
  BY <1>1, <1>2, <1>4, <1>7, <1>8, <1>9, <1>10, <1>11

\* No frame begins with a SLIP_END.
LEMMA StreamBegins ==
  ASSUME NEW p \in Seq(RealFrames), Stream(p) # << >>
  PROVE  Stream(p)[1] # END
<1>1. p # << >>
  BY StreamNone
<1>2. PICK f, rest, code, n :
        /\ f = Head(p) /\ rest = Stream(Tail(p)) /\ code = Encode(f) /\ n = Len(Body(f))
  OBVIOUS
<1>3. f \in RealFrames /\ rest \in Seq(Bytes) /\ Stream(p) = code \o rest
  <2>1. f \in RealFrames /\ Tail(p) \in Seq(RealFrames)
    BY <1>1, <1>2, StreamCons
  <2> QED
    BY <1>1, <1>2, <2>1, StreamCons, StreamTyped
<1>4. /\ n \in Nat \ {0} /\ code \in Seq(Bytes) /\ Len(code) = n + 1
      /\ \A j \in 1 .. n : code[j] # END
  BY <1>2, <1>3, EncodeTyped
<1>5. 1 \in 1 .. n /\ 1 \in 1 .. Len(code)
  BY <1>4
<1>6. (code \o rest)[1] = code[1]
  BY <1>3, <1>4, <1>5
<1> QED
  BY <1>3, <1>4, <1>5, <1>6

-----------------------------------------------------------------------------
(* The bookkeeping of slip-dev.c.                                          *)

\* The next SLIP_END from some byte on, as slip_flushbuf() looks for it.
NextEnd(s, from) == SelectInSubSeq(s, from, Len(s), LAMBDA b : b = END)

LEMMA NextEndIs ==
  ASSUME NEW s \in Seq(Bytes), NEW from \in Nat \ {0}
  PROVE  \/ NextEnd(s, from) = 0 /\ \A i \in from .. Len(s) : s[i] # END
         \/ /\ NextEnd(s, from) \in from .. Len(s) /\ s[NextEnd(s, from)] = END
            /\ \A i \in from .. NextEnd(s, from) - 1 : s[i] # END
<1>1. PICK S : S = {i \in from .. Len(s) : s[i] = END}
  OBVIOUS
<1>2. NextEnd(s, from) = IF S # {} THEN Min(S) ELSE 0
  BY <1>1, Zenon DEF NextEnd, SelectInSubSeq
<1>3. CASE S = {}
  BY <1>1, <1>2, <1>3
<1>4. CASE S # {}
  <2>1. S \in SUBSET Nat
    BY <1>1
  <2>2. PICK x \in S : \A y \in S : x <= y
    BY <1>4, <2>1, LeastOf
  <2>3. Min(S) \in S /\ \A y \in S : Min(S) <= y
    BY <2>2 DEF Min
  <2>4. PICK e : e = NextEnd(s, from)
    OBVIOUS
  <2>5. e \in S /\ \A y \in S : e <= y
    BY <1>2, <1>4, <2>3, <2>4
  <2>6. e \in from .. Len(s) /\ s[e] = END
    BY <1>1, <2>5
  <2>7. ASSUME NEW i \in from .. e - 1 PROVE s[i] # END
    <3>1. i \in from .. Len(s) /\ ~(e <= i)
      BY <2>6
    <3> QED
      BY <1>1, <2>5, <3>1
  <2> QED
    BY <2>4, <2>6, <2>7
<1> QED
  BY <1>3, <1>4

\* The first SLIP_END is the next one from any byte up to it.
LEMMA NextEndFirst ==
  ASSUME NEW s \in Seq(Bytes), NEW k, FirstEnd(s, k), NEW from \in 1 .. k
  PROVE  NextEnd(s, from) = k
<1>1. k \in 1 .. Len(s) /\ s[k] = END /\ \A j \in 1 .. k - 1 : s[j] # END
  BY DEF FirstEnd
<1>2. PICK e : e = NextEnd(s, from)
  OBVIOUS
<1>3. k \in from .. Len(s) /\ from \in Nat \ {0} /\ Len(s) \in Nat
  BY <1>1
<1>4. \/ e = 0 /\ \A i \in from .. Len(s) : s[i] # END
      \/ /\ e \in from .. Len(s) /\ s[e] = END
         /\ \A i \in from .. e - 1 : s[i] # END
  BY <1>2, <1>3, NextEndIs
<1>5. e \in from .. Len(s) /\ s[e] = END /\ \A i \in from .. e - 1 : s[i] # END
  BY <1>1, <1>3, <1>4
<1>6. ~(e < k) /\ ~(k < e)
  <2>1. e < k => e \in 1 .. k - 1
    BY <1>1, <1>3, <1>5
  <2>2. k < e => k \in from .. e - 1
    BY <1>3, <1>5
  <2> QED
    BY <1>1, <1>5, <2>1, <2>2
<1> QED
  BY <1>2, <1>3, <1>5, <1>6

EndsOf(s) == {k \in 1 .. Len(s) : s[k] = END}

\* The frames in slip_buf are whole, and none of them is empty.
Whole(s) ==
  /\ s # << >> => s[Len(s)] = END
  /\ \A k \in 1 .. Len(s) - 1 : ~(s[k] = END /\ s[k + 1] = END)

LEMMA EndsFinite ==
  ASSUME NEW s \in Seq(Bytes)
  PROVE  IsFiniteSet(EndsOf(s))
<1>1. IsFiniteSet(1 .. Len(s))
  BY FS_Interval
<1> QED
  BY <1>1, FS_Subset DEF EndsOf

\* One more frame is one more SLIP_END.
LEMMA OneMoreFrame ==
  ASSUME NEW s \in Seq(Bytes), Whole(s), NEW frame \in RealFrames
  PROVE  LET more == s \o Encode(frame)
         IN  /\ more \in Seq(Bytes) /\ more # << >>
             /\ Len(more) = Len(s) + Len(Encode(frame))
             /\ Whole(more)
             /\ Cardinality(EndsOf(more)) = Cardinality(EndsOf(s)) + 1
             /\ s = << >> => FirstEnd(more, Len(more))
             /\ \A k : FirstEnd(s, k) => FirstEnd(more, k)
<1>1. PICK code, n : code = Encode(frame) /\ n = Len(Body(frame))
  OBVIOUS
<1>2. /\ n \in Nat \ {0} /\ code \in Seq(Bytes) /\ Len(code) = n + 1
       /\ code[n + 1] = END /\ \A k \in 1 .. n : code[k] # END
  BY <1>1, EncodeTyped
<1>3. PICK l, more : l = Len(s) /\ more = s \o code
  OBVIOUS
<1>4. /\ n \in Nat \ {0} /\ l \in Nat /\ code \in Seq(Bytes) /\ Len(code) = n + 1
      /\ code[n + 1] = END /\ \A k \in 1 .. n : code[k] # END
  BY <1>3, <1>2
<1>5. /\ more \in Seq(Bytes) /\ Len(more) = l + n + 1
      /\ \A k \in 1 .. l : more[k] = s[k]
      /\ \A k \in 1 .. n + 1 : more[l + k] = code[k]
  <2>1. /\ more \in Seq(Bytes) /\ Len(more) = Len(s) + Len(code)
        /\ \A k \in 1 .. Len(s) + Len(code) :
             more[k] = IF k <= Len(s) THEN s[k] ELSE code[k - Len(s)]
    BY <1>3, <1>4, ConcatProperties
  <2>2. Len(more) = l + n + 1
    BY <1>3, <1>4, <2>1
  <2>3. ASSUME NEW k \in 1 .. l PROVE more[k] = s[k]
    <3>1. k \in 1 .. Len(s) + Len(code) /\ k <= Len(s)
      BY <1>3, <1>4
    <3> QED
      BY <2>1, <3>1
  <2>4. ASSUME NEW k \in 1 .. n + 1 PROVE more[l + k] = code[k]
    <3>1. PICK i : i = l + k
      OBVIOUS
    <3>2. i \in 1 .. Len(s) + Len(code) /\ ~(i <= Len(s)) /\ i - Len(s) = k
      BY <1>3, <1>4, <3>1
    <3>3. more[i] = code[i - Len(s)]
      BY <2>1, <3>2
    <3> QED
      BY <3>1, <3>2, <3>3
  <2> QED
    BY <2>1, <2>2, <2>3, <2>4
<1>6. PICK last : last = l + n + 1
  OBVIOUS
<1>7. last \in Nat \ {0} /\ last = Len(more) /\ more[last] = END /\ more # << >>
  <2>1. more[l + (n + 1)] = code[n + 1] /\ l + (n + 1) = last
    BY <1>4, <1>5, <1>6
  <2>2. last \in Nat \ {0} /\ last = Len(more)
    BY <1>4, <1>5, <1>6
  <2>3. more # << >>
    BY <2>2, EmptySeq
  <2> QED
    BY <1>4, <2>1, <2>2, <2>3
<1>8. ASSUME NEW k \in 1 .. last
      PROVE  \/ k \in 1 .. l /\ more[k] = s[k]
             \/ k \in l + 1 .. l + n /\ more[k] # END
             \/ k = last
  <2>1. CASE k \in 1 .. l
    BY <1>5, <2>1
  <2>2. CASE k \in l + 1 .. l + n
    <3>1. k - l \in 1 .. n /\ k - l \in 1 .. n + 1 /\ l + (k - l) = k
      BY <1>4, <2>2
    <3>2. more[l + (k - l)] = code[k - l]
      BY <1>5, <3>1
    <3> QED
      BY <1>4, <2>2, <3>1, <3>2
  <2> QED
    BY <1>4, <1>6, <2>1, <2>2
<1>9. Whole(more)
  <2>1. ASSUME NEW k \in 1 .. Len(more) - 1, more[k] = END, more[k + 1] = END PROVE FALSE
    <3>1. k \in 1 .. last /\ k + 1 \in 1 .. last /\ k # last
      BY <1>7
    <3>2. k \in 1 .. l /\ more[k] = s[k]
      BY <1>8, <2>1, <3>1
    <3>3. CASE k = l
      <4>1. k + 1 \in l + 1 .. l + n /\ k + 1 # last /\ k + 1 \notin 1 .. l
        BY <1>4, <1>6, <3>3
      <4> QED
        BY <1>8, <2>1, <3>1, <4>1
    <3>4. CASE k # l
      <4>1. k + 1 \in 1 .. l /\ k \in 1 .. Len(s) - 1
        BY <1>3, <1>4, <3>2, <3>4
      <4>2. more[k + 1] = s[k + 1]
        BY <1>5, <4>1
      <4> QED
        BY <2>1, <3>2, <4>1, <4>2 DEF Whole
    <3> QED
      BY <3>3, <3>4
  <2> QED
    BY <1>7, <2>1 DEF Whole
<1>10. EndsOf(more) = EndsOf(s) \cup {last} /\ last \notin EndsOf(s)
  <2>1. ASSUME NEW k PROVE k \in EndsOf(more) <=> k \in EndsOf(s) \/ k = last
    <3>1. k \in EndsOf(more) <=> k \in 1 .. last /\ more[k] = END
      BY <1>7 DEF EndsOf
    <3>2. k \in EndsOf(s) <=> k \in 1 .. l /\ s[k] = END
      BY <1>3 DEF EndsOf
    <3>3. k \in 1 .. l => k \in 1 .. last /\ more[k] = s[k]
      BY <1>4, <1>5, <1>6
    <3>4. last \in 1 .. last
      BY <1>7
    <3>5. CASE k \in 1 .. last
      <4>1. k \in l + 1 .. l + n => k \notin 1 .. l
        BY <1>4
      <4> QED
        BY <1>7, <1>8, <3>1, <3>2, <3>5, <4>1
    <3>6. CASE k \notin 1 .. last
      BY <3>1, <3>2, <3>3, <3>4, <3>6
    <3> QED
      BY <3>5, <3>6
  <2>2. last \notin EndsOf(s)
    BY <1>3, <1>4, <1>6 DEF EndsOf
  <2> QED
    BY <2>1, <2>2
<1>11. Cardinality(EndsOf(more)) = Cardinality(EndsOf(s)) + 1
  BY <1>10, EndsFinite, FS_AddElement
<1>12. s = << >> => FirstEnd(more, last)
  <2>1. SUFFICES ASSUME s = << >> PROVE FirstEnd(more, last)
    OBVIOUS
  <2>2. l = 0
    BY <1>3, <2>1
  <2>3. ASSUME NEW j \in 1 .. last - 1 PROVE more[j] # END
    <3>1. j \in 1 .. last /\ j # last /\ j \notin 1 .. l
      BY <1>7, <2>2
    <3> QED
      BY <1>8, <3>1
  <2> QED
    BY <1>7, <2>3 DEF FirstEnd
<1>13. ASSUME NEW k, FirstEnd(s, k) PROVE FirstEnd(more, k)
  <2>1. k \in 1 .. l /\ s[k] = END /\ \A j \in 1 .. k - 1 : s[j] # END
    BY <1>3, <1>13, Zenon DEF FirstEnd
  <2>2. k \in 1 .. Len(more) /\ \A j \in 1 .. k - 1 : j \in 1 .. l
    BY <1>4, <1>6, <1>7, <2>1
  <2>3. more[k] = s[k] /\ \A j \in 1 .. k - 1 : more[j] = s[j]
    BY <1>5, <2>1, <2>2
  <2> QED
    BY <2>1, <2>2, <2>3 DEF FirstEnd
<1>14. Len(more) = Len(s) + Len(code)
  BY <1>3, <1>4, <1>5
<1> QED
  BY <1>1, <1>3, <1>5, <1>7, <1>9, <1>11, <1>12, <1>13, <1>14

\* What is left when the first frame is written out.
LEMMA OneFrameLess ==
  ASSUME NEW s \in Seq(Bytes), Whole(s), NEW k, FirstEnd(s, k)
  PROVE  LET rest == SubSeq(s, k + 1, Len(s))
         IN  /\ rest \in Seq(Bytes) /\ Len(rest) = Len(s) - k
             /\ Whole(rest)
             /\ Cardinality(EndsOf(rest)) \in Nat
             /\ Cardinality(EndsOf(s)) = Cardinality(EndsOf(rest)) + 1
             /\ rest = << >> => NextEnd(rest, 2) = 0
             /\ rest # << >> => FirstEnd(rest, NextEnd(rest, 2))
<1>1. PICK l, rest : l = Len(s) /\ rest = SubSeq(s, k + 1, Len(s))
  OBVIOUS
<1>2. l \in Nat /\ k \in 1 .. l /\ s[k] = END /\ \A j \in 1 .. k - 1 : s[j] # END
  BY <1>1 DEF FirstEnd
<1>3. PICK n : n = l - k
  OBVIOUS
<1>4. n \in Nat /\ rest \in Seq(Bytes) /\ Len(rest) = n /\ \A j \in 1 .. n : rest[j] = s[k + j]
  <2>1. PICK m : m = k + 1
    OBVIOUS
  <2>2. m \in Int /\ l \in Int /\ \A i \in m .. l : s[i] \in Bytes
    BY <1>1, <1>2, <2>1
  <2>3. rest = SubSeq(s, m, l)
    BY <1>1, <2>1
  <2>4. /\ rest \in Seq(Bytes) /\ Len(rest) = IF m <= l THEN l - m + 1 ELSE 0
        /\ \A i \in 1 .. l - m + 1 : rest[i] = s[m + i - 1]
    BY <2>2, <2>3, SubSeqProperties
  <2>5. n = l - m + 1 /\ n \in Nat /\ ~(m <= l) => n = 0
    BY <1>2, <1>3, <2>1
  <2>6. \A j \in 1 .. n : m + j - 1 = k + j
    BY <1>2, <1>3, <2>1
  <2>7. n \in Nat
    BY <1>2, <1>3
  <2> QED
    BY <1>2, <1>3, <2>1, <2>4, <2>6, <2>7
<1>5. Whole(rest)
  <2>1. rest # << >> => rest[n] = END
    <3>1. SUFFICES ASSUME rest # << >> PROVE rest[n] = END
      OBVIOUS
    <3>2. n # 0
      BY <1>4, <3>1, EmptySeq
    <3>3. n \in 1 .. n /\ k + n = l
      BY <1>2, <1>3, <1>4, <3>2
    <3>4. s # << >> /\ s[l] = END
      BY <1>1, <1>2, EmptySeq DEF Whole
    <3> QED
      BY <1>4, <3>3, <3>4
  <2>2. ASSUME NEW j \in 1 .. n - 1 PROVE ~(rest[j] = END /\ rest[j + 1] = END)
    <3>1. PICK i : i = k + j
      OBVIOUS
    <3>2. i \in 1 .. Len(s) - 1 /\ j \in 1 .. n /\ j + 1 \in 1 .. n /\ k + (j + 1) = i + 1
      BY <1>1, <1>2, <1>3, <3>1
    <3>3. rest[j] = s[i] /\ rest[j + 1] = s[i + 1]
      BY <1>4, <3>1, <3>2
    <3> QED
      BY <3>2, <3>3 DEF Whole
  <2> QED
    BY <1>4, <2>1, <2>2 DEF Whole
<1>6. /\ Cardinality(EndsOf(rest)) \in Nat
      /\ Cardinality(EndsOf(s)) = Cardinality(EndsOf(rest)) + 1
  <2> DEFINE S == EndsOf(rest)
             T == EndsOf(s) \ {k}
             shift == [i \in S |-> i + k]
  <2>1. ASSUME NEW i PROVE i \in S <=> i \in 1 .. n /\ rest[i] = END
    BY <1>4 DEF EndsOf
  <2>2. ASSUME NEW i PROVE i \in T <=> i \in 1 .. l /\ s[i] = END /\ i # k
    BY <1>1 DEF EndsOf
  <2>3. ASSUME NEW i \in S PROVE i \in Nat /\ i + k \in T
    <3>1. i \in 1 .. n /\ rest[i] = END /\ rest[i] = s[k + i]
      BY <1>4, <2>1
    <3>2. i \in Nat /\ i + k = k + i /\ i + k \in 1 .. l /\ i + k # k
      BY <1>2, <1>3, <3>1
    <3> QED
      BY <2>2, <3>1, <3>2
  <2>4. ASSUME NEW t \in T PROVE t - k \in S /\ (t - k) + k = t
    <3>1. t \in 1 .. l /\ s[t] = END /\ t # k
      BY <2>2
    <3>2. ~(t \in 1 .. k - 1)
      BY <1>2, <3>1
    <3>3. t - k \in 1 .. n /\ k + (t - k) = t /\ (t - k) + k = t
      BY <1>2, <1>3, <3>1, <3>2
    <3>4. rest[t - k] = s[k + (t - k)]
      BY <1>4, <3>3
    <3> QED
      BY <2>1, <3>1, <3>3, <3>4
  <2>5. shift \in [S -> T] /\ \A i \in S : shift[i] = i + k
    BY <2>3
  <2>6. ASSUME NEW i \in S, NEW j \in S, i + k = j + k PROVE i = j
    BY <1>2, <2>3, <2>6
  <2>7. \A t \in T : \E i \in S : i + k = t
    BY <2>4
  <2>8. IsFiniteSet(S) /\ IsFiniteSet(EndsOf(s))
    BY <1>4, EndsFinite
  <2> HIDE DEF S, T, shift
  <2>9. DOMAIN shift = S
    BY <2>5
  <2>10. shift \in Bijection(S, T)
    BY <2>5, <2>6, <2>7, <2>9 DEF Bijection, Injection, Surjection, IsInjective
  <2>11. ExistsBijection(S, T)
    BY <2>10 DEF ExistsBijection
  <2>12. Cardinality(T) = Cardinality(S) /\ IsFiniteSet(T)
    BY <2>8, <2>11, FS_Bijection
  <2>13. k \in EndsOf(s)
    BY <1>1, <1>2 DEF EndsOf
  <2>14. T = EndsOf(s) \ {k}
    BY DEF T
  <2>15. Cardinality(T) = Cardinality(EndsOf(s)) - 1
    BY <2>8, <2>13, <2>14, FS_RemoveElement
  <2>16. Cardinality(S) \in Nat /\ Cardinality(EndsOf(s)) \in Nat
    BY <2>8, FS_CardinalityType
  <2> QED
    BY <2>12, <2>15, <2>16 DEF S
<1>7. PICK e : e = NextEnd(rest, 2)
  OBVIOUS
<1>8. \/ e = 0 /\ \A i \in 2 .. n : rest[i] # END
      \/ /\ e \in 2 .. n /\ rest[e] = END
         /\ \A i \in 2 .. e - 1 : rest[i] # END
  BY <1>4, <1>7, NextEndIs
<1>9. ASSUME rest = << >> PROVE e = 0
  <2>1. n = 0
    BY <1>4, <1>9
  <2> QED
    BY <1>8, <2>1
<1>10. ASSUME rest # << >> PROVE FirstEnd(rest, e)
  <2>1. n # 0
    BY <1>4, <1>10, EmptySeq
  <2>2. rest[n] = END
    BY <1>4, <1>5, <1>10 DEF Whole
  <2>3. rest[1] # END
    <3>1. 1 \in 1 .. n /\ k \in 1 .. Len(s) - 1
      BY <1>1, <1>2, <1>3, <1>4, <2>1
    <3>2. rest[1] = s[k + 1]
      BY <1>4, <3>1
    <3> QED
      BY <1>2, <3>1, <3>2 DEF Whole
  <2>4. n \in 2 .. n
    <3>1. n # 1
      BY <2>2, <2>3
    <3> QED
      BY <1>4, <2>1, <3>1
  <2>5. e \in 2 .. n /\ rest[e] = END /\ \A i \in 2 .. e - 1 : rest[i] # END
    BY <1>8, <2>2, <2>4
  <2>6. ASSUME NEW i \in 1 .. e - 1 PROVE rest[i] # END
    <3>1. i = 1 \/ i \in 2 .. e - 1
      BY <1>4, <2>5
    <3> QED
      BY <2>3, <2>5, <3>1
  <2>7. e \in 1 .. Len(rest)
    BY <1>4, <2>5
  <2> QED
    BY <2>5, <2>6, <2>7 DEF FirstEnd
<1> QED
  BY <1>1, <1>3, <1>4, <1>5, <1>6, <1>7, <1>9, <1>10

\* Some bytes behind the first k.
After(s, k) == SubSeq(s, k + 1, Len(s))

LEMMA AfterTyped ==
  ASSUME NEW s \in Seq(Bytes), NEW k \in 0 .. Len(s)
  PROVE  /\ After(s, k) \in Seq(Bytes) /\ Len(After(s, k)) = Len(s) - k
         /\ \A i \in 1 .. Len(s) - k : After(s, k)[i] = s[k + i]
<1>1. PICK l, m : l = Len(s) /\ m = k + 1
  OBVIOUS
<1>2. l \in Nat /\ m \in Int /\ \A i \in m .. l : s[i] \in Bytes
  BY <1>1
<1>3. /\ SubSeq(s, m, l) \in Seq(Bytes)
      /\ Len(SubSeq(s, m, l)) = IF m <= l THEN l - m + 1 ELSE 0
      /\ \A i \in 1 .. l - m + 1 : SubSeq(s, m, l)[i] = s[m + i - 1]
  BY <1>2, SubSeqProperties
<1>4. Len(SubSeq(s, m, l)) = l - k
  BY <1>1, <1>2, <1>3
<1>5. ASSUME NEW i \in 1 .. l - k PROVE SubSeq(s, m, l)[i] = s[k + i]
  <2>1. i \in 1 .. l - m + 1 /\ m + i - 1 = k + i
    BY <1>1, <1>2
  <2> QED
    BY <1>3, <2>1
<1> QED
  BY <1>1, <1>3, <1>4, <1>5 DEF After

LEMMA AfterNone ==
  ASSUME NEW s \in Seq(Bytes)
  PROVE  After(s, 0) = s
<1>1. 0 + 1 = 1
  OBVIOUS
<1> QED
  BY <1>1, SubSeqFull DEF After

LEMMA AfterSplit ==
  ASSUME NEW s \in Seq(Bytes), NEW k \in 0 .. Len(s), NEW m \in k .. Len(s)
  PROVE  SubSeq(s, k + 1, m) \o After(s, m) = After(s, k)
<1>1. PICK l, j : l = Len(s) /\ j = k + 1
  OBVIOUS
<1>2. j \in 1 .. Len(s) + 1 /\ m \in j - 1 .. Len(s) /\ l \in m .. Len(s)
  BY <1>1
<1>3. SubSeq(s, j, m) \o SubSeq(s, m + 1, l) = SubSeq(s, j, l)
  BY <1>2, ConcatAdjacentSubSeq
<1> QED
  BY <1>1, <1>3 DEF After

LEMMA AfterConcat ==
  ASSUME NEW s \in Seq(Bytes), NEW t \in Seq(Bytes), NEW k \in 0 .. Len(s)
  PROVE  After(s \o t, k) = After(s, k) \o t
<1>1. PICK l, n, u : l = Len(s) /\ n = Len(t) /\ u = s \o t
  OBVIOUS
<1>2. /\ l \in Nat /\ n \in Nat /\ u \in Seq(Bytes) /\ Len(u) = l + n
      /\ \A i \in 1 .. l + n : u[i] = IF i <= l THEN s[i] ELSE t[i - l]
  BY <1>1, ConcatProperties
<1>3. PICK a, b : a = After(s, k) /\ b = After(u, k)
  OBVIOUS
<1>4. a \in Seq(Bytes) /\ Len(a) = l - k /\ \A i \in 1 .. l - k : a[i] = s[k + i]
  BY <1>1, <1>3, AfterTyped
<1>5. b \in Seq(Bytes) /\ Len(b) = l + n - k /\ \A i \in 1 .. l + n - k : b[i] = u[k + i]
  <2>1. k \in 0 .. Len(u)
    BY <1>1, <1>2
  <2>2. /\ After(u, k) \in Seq(Bytes) /\ Len(After(u, k)) = Len(u) - k
        /\ \A i \in 1 .. Len(u) - k : After(u, k)[i] = u[k + i]
    BY <1>2, <2>1, AfterTyped
  <2> QED
    BY <1>2, <1>3, <2>2
<1>6. PICK c : c = a \o t
  OBVIOUS
<1>7. /\ c \in Seq(Bytes) /\ Len(c) = l - k + n
      /\ \A i \in 1 .. l - k + n : c[i] = IF i <= l - k THEN a[i] ELSE t[i - (l - k)]
  <2>1. /\ c \in Seq(Bytes) /\ Len(c) = Len(a) + Len(t)
        /\ \A i \in 1 .. Len(a) + Len(t) : c[i] = IF i <= Len(a) THEN a[i] ELSE t[i - Len(a)]
    BY <1>4, <1>6, ConcatProperties
  <2> QED
    BY <1>1, <1>4, <2>1
<1>8. ASSUME NEW i \in 1 .. Len(b) PROVE b[i] = c[i]
  <2>1. i \in 1 .. l + n - k /\ i \in 1 .. l - k + n
    BY <1>1, <1>2, <1>5
  <2>2. PICK j : j = k + i
    OBVIOUS
  <2>3. j \in 1 .. l + n
    BY <1>1, <1>2, <2>1, <2>2
  <2>4. b[i] = IF j <= l THEN s[j] ELSE t[j - l]
    BY <1>2, <1>5, <2>1, <2>2, <2>3
  <2>5. CASE i <= l - k
    <3>1. i \in 1 .. l - k /\ j <= l
      BY <1>1, <1>2, <2>1, <2>2, <2>5
    <3> QED
      BY <1>4, <1>7, <2>1, <2>2, <2>4, <2>5, <3>1
  <2>6. CASE ~(i <= l - k)
    <3>1. ~(j <= l) /\ j - l = i - (l - k)
      BY <1>1, <1>2, <2>1, <2>2, <2>6
    <3> QED
      BY <1>7, <2>1, <2>4, <2>6, <3>1
  <2> QED
    BY <2>5, <2>6
<1>9. Len(b) = Len(c)
  BY <1>1, <1>2, <1>5, <1>7
<1> QED
  BY <1>1, <1>3, <1>5, <1>6, <1>7, <1>8, <1>9, SeqEqual

-----------------------------------------------------------------------------
OutputInv ==
  /\ Whole(slipBuf)
  /\ slipBuf = << >> => packetEnd = 0 /\ slipBegin = 0
  /\ slipBuf # << >> => FirstEnd(slipBuf, packetEnd) /\ slipBegin < packetEnd
  /\ packetCount = Cardinality(EndsOf(slipBuf))

\* The type of slip-dev.c's variables, and what is not written out yet.
OutputTypeOK ==
  /\ slipBuf \in Seq(Bytes) /\ Len(slipBuf) <= BufSize
  /\ slipBegin \in 0 .. BufSize /\ packetEnd \in 0 .. BufSize
  /\ packetCount \in Nat /\ exited \in BOOLEAN

Unwritten == After(slipBuf, slipBegin)

LEMMA WithinBuffer ==
  ASSUME OutputTypeOK, OutputInv
  PROVE  slipBegin \in 0 .. Len(slipBuf) /\ packetEnd \in slipBegin .. Len(slipBuf)
<1>1. CASE slipBuf = << >>
  <2>1. Len(slipBuf) = 0
    BY <1>1
  <2> QED
    BY <1>1, <2>1 DEF OutputInv
<1>2. CASE slipBuf # << >>
  <2>1. packetEnd \in 1 .. Len(slipBuf) /\ slipBegin < packetEnd
    BY <1>2 DEF OutputInv, FirstEnd
  <2> QED
    BY <2>1 DEF OutputTypeOK
<1> QED
  BY <1>1, <1>2

LEMMA OutputInitOk ==
  ASSUME OutputInit
  PROVE  OutputTypeOK /\ OutputInv /\ Unwritten = <<END>>
<1>1. /\ slipBuf = <<END>> /\ slipBegin = 0 /\ packetEnd = 1 /\ packetCount = 1
      /\ exited = FALSE
  BY DEF OutputInit
<1>2. /\ slipBuf \in Seq(Bytes) /\ Len(slipBuf) = 1 /\ slipBuf[1] = END /\ slipBuf # << >>
  <2>1. END \in Bytes
    BY DEF Bytes, END
  <2>2. <<END>> \in Seq(Bytes) /\ Len(<<END>>) = 1 /\ <<END>>[1] = END /\ <<END>> # << >>
    BY <2>1
  <2> QED
    BY <1>1, <2>2
<1>3. OutputTypeOK
  <2>1. 0 \in 0 .. BufSize /\ 1 \in 0 .. BufSize /\ 1 <= BufSize
    BY BufSizeAssumption
  <2> QED
    BY <1>1, <1>2, <2>1 DEF OutputTypeOK
<1>4. FirstEnd(slipBuf, packetEnd)
  BY <1>1, <1>2 DEF FirstEnd
<1>5. Whole(slipBuf)
  BY <1>2 DEF Whole
<1>6. EndsOf(slipBuf) = {1}
  BY <1>2 DEF EndsOf
<1>7. Cardinality(EndsOf(slipBuf)) = 1
  BY <1>6, FS_Singleton
<1>8. Unwritten = <<END>>
  BY <1>1, <1>2, AfterNone DEF Unwritten
<1> QED
  BY <1>1, <1>2, <1>3, <1>4, <1>5, <1>7, <1>8 DEF OutputInv

LEMMA WriteBytesKeeps ==
  ASSUME OutputTypeOK, OutputInv, NEW frame \in RealFrames, WriteBytes(frame)
  PROVE  OutputTypeOK' /\ OutputInv' /\ Unwritten' = Unwritten \o Encode(frame)
<1>1. PICK code, end : code = Encode(frame) /\ end = Len(slipBuf) + Len(Encode(frame))
  OBVIOUS
<1>2. code \in Seq(Bytes) /\ Len(code) \in Nat
  BY <1>1, EncodeTyped
<1>3. /\ end <= BufSize /\ slipBuf' = slipBuf \o code /\ packetCount' = packetCount + 1
      /\ packetEnd' = IF packetEnd = 0 THEN end ELSE packetEnd
      /\ slipBegin' = slipBegin /\ exited' = exited
  BY <1>1 DEF WriteBytes
<1>4. slipBuf \in Seq(Bytes) /\ Whole(slipBuf) /\ packetCount = Cardinality(EndsOf(slipBuf))
  BY DEF OutputTypeOK, OutputInv
<1>5. /\ slipBuf' \in Seq(Bytes) /\ slipBuf' # << >> /\ Len(slipBuf') = end
      /\ Whole(slipBuf')
      /\ Cardinality(EndsOf(slipBuf')) = Cardinality(EndsOf(slipBuf)) + 1
      /\ slipBuf = << >> => FirstEnd(slipBuf', end)
      /\ \A k : FirstEnd(slipBuf, k) => FirstEnd(slipBuf', k)
  BY <1>1, <1>3, <1>4, OneMoreFrame
<1>6. FirstEnd(slipBuf', packetEnd') /\ slipBegin' < packetEnd'
  <2>1. CASE slipBuf = << >>
    <3>1. packetEnd = 0 /\ slipBegin = 0
      BY <2>1 DEF OutputInv
    <3>2. end \in Nat \ {0}
      BY <1>5
    <3> QED
      BY <1>3, <1>5, <2>1, <3>1, <3>2
  <2>2. CASE slipBuf # << >>
    <3>1. FirstEnd(slipBuf, packetEnd) /\ slipBegin < packetEnd
      BY <2>2 DEF OutputInv
    <3>2. packetEnd # 0
      BY <3>1 DEF FirstEnd
    <3> QED
      BY <1>3, <1>5, <3>1, <3>2
  <2> QED
    BY <2>1, <2>2
<1>7. OutputInv'
  BY <1>3, <1>4, <1>5, <1>6 DEF OutputInv
<1>8. OutputTypeOK'
  <2>1. end \in 0 .. BufSize
    BY <1>3, <1>5, BufSizeAssumption
  <2> QED
    BY <1>3, <1>5, <2>1 DEF OutputTypeOK
<1>9. Unwritten' = Unwritten \o code
  <2>1. slipBegin \in 0 .. Len(slipBuf)
    BY WithinBuffer
  <2>2. After(slipBuf \o code, slipBegin) = After(slipBuf, slipBegin) \o code
    BY <1>2, <1>4, <2>1, AfterConcat
  <2>3. Unwritten' = After(slipBuf', slipBegin')
    BY DEF Unwritten
  <2> QED
    BY <1>3, <2>2, <2>3 DEF Unwritten
<1> QED
  BY <1>1, <1>7, <1>8, <1>9

\* write() takes the next n bytes.
LEMMA FlushKeeps ==
  ASSUME OutputTypeOK, OutputInv, NEW n, Flush(n)
  PROVE  /\ OutputTypeOK' /\ OutputInv'
         /\ n \in Nat /\ Flushed(n) \in Seq(Bytes) /\ Len(Flushed(n)) = n
         /\ Flushed(n) \o Unwritten' = Unwritten
<1>1. /\ slipBuf \in Seq(Bytes) /\ Len(slipBuf) <= BufSize /\ Len(slipBuf) \in Nat
      /\ slipBegin \in Nat /\ packetEnd \in Nat /\ packetCount \in Nat /\ exited \in BOOLEAN
      /\ slipBegin \in 0 .. BufSize /\ packetEnd \in 0 .. BufSize
  BY BufSizeAssumption DEF OutputTypeOK
<1>2. packetEnd # 0 /\ n \in 1 .. packetEnd - slipBegin /\ exited' = exited
  BY DEF Flush
<1>3. slipBuf # << >>
  BY <1>2 DEF OutputInv
<1>4. FirstEnd(slipBuf, packetEnd) /\ slipBegin < packetEnd /\ Whole(slipBuf)
  BY <1>3 DEF OutputInv
<1>5. packetEnd \in 1 .. Len(slipBuf)
  BY <1>4 DEF FirstEnd
<1>6. PICK e : e = slipBegin + n
  OBVIOUS
<1>7. /\ n \in Nat /\ slipBegin \in 0 .. Len(slipBuf) /\ e \in slipBegin .. Len(slipBuf)
      /\ e <= packetEnd /\ slipBegin < e
  BY <1>1, <1>2, <1>4, <1>5, <1>6
<1>8. Flushed(n) = SubSeq(slipBuf, slipBegin + 1, e)
  BY <1>6 DEF Flushed
<1>9. Flushed(n) \in Seq(Bytes) /\ Len(Flushed(n)) = n
  <2>1. PICK m : m = slipBegin + 1
    OBVIOUS
  <2>2. m \in Int /\ e \in Int /\ \A i \in m .. e : slipBuf[i] \in Bytes
    BY <1>1, <1>7, <2>1
  <2>3. /\ SubSeq(slipBuf, m, e) \in Seq(Bytes)
        /\ Len(SubSeq(slipBuf, m, e)) = IF m <= e THEN e - m + 1 ELSE 0
    BY <2>2, SubSeqProperties
  <2>4. m <= e /\ e - m + 1 = n
    BY <1>1, <1>6, <1>7, <2>1
  <2> QED
    BY <1>8, <2>1, <2>3, <2>4
<1>10. Flushed(n) \o After(slipBuf, e) = Unwritten
  BY <1>1, <1>7, <1>8, AfterSplit DEF Unwritten
<1>11. Unwritten' = After(slipBuf', slipBegin')
  BY DEF Unwritten
<1>12. CASE e = packetEnd
  <2>1. PICK rest : rest = SubSeq(slipBuf, packetEnd + 1, Len(slipBuf))
    OBVIOUS
  <2>2. /\ slipBuf' = rest /\ slipBegin' = 0 /\ packetCount' = packetCount - 1
        /\ packetEnd' = NextPacketEnd(rest)
    BY <1>6, <1>12, <2>1 DEF Flush
  <2>3. NextPacketEnd(rest) = NextEnd(rest, 2)
    BY DEF NextPacketEnd, NextEnd
  <2>4. /\ rest \in Seq(Bytes) /\ Len(rest) = Len(slipBuf) - packetEnd
        /\ Whole(rest)
        /\ Cardinality(EndsOf(rest)) \in Nat
        /\ Cardinality(EndsOf(slipBuf)) = Cardinality(EndsOf(rest)) + 1
        /\ rest = << >> => NextEnd(rest, 2) = 0
        /\ rest # << >> => FirstEnd(rest, NextEnd(rest, 2))
    BY <1>1, <1>4, <2>1, OneFrameLess
  <2>5. packetCount = Cardinality(EndsOf(slipBuf))
    BY DEF OutputInv
  <2>6. rest # << >> => packetEnd' \in 1 .. Len(rest)
    BY <2>2, <2>3, <2>4 DEF FirstEnd
  <2>7. packetCount' = Cardinality(EndsOf(rest)) /\ packetCount' \in Nat
    BY <2>2, <2>4, <2>5
  <2>8. OutputInv'
    <3>1. rest # << >> => 0 < packetEnd'
      BY <2>6
    <3> QED
      BY <2>2, <2>3, <2>4, <2>7, <3>1 DEF OutputInv
  <2>9. packetEnd' \in 0 .. BufSize /\ Len(rest) <= BufSize /\ 0 \in 0 .. BufSize
    <3>1. Len(rest) \in Nat /\ Len(rest) <= BufSize /\ BufSize \in Nat
      BY <1>1, <1>5, <2>4, BufSizeAssumption
    <3>2. packetEnd' = 0 \/ packetEnd' \in 1 .. Len(rest)
      BY <2>2, <2>3, <2>4, <2>6
    <3> QED
      BY <3>1, <3>2
  <2>10. OutputTypeOK'
    BY <1>1, <1>2, <2>2, <2>4, <2>7, <2>9 DEF OutputTypeOK
  <2>11. Unwritten' = After(slipBuf, e)
    <3>1. After(rest, 0) = rest
      BY <2>4, AfterNone
    <3> QED
      BY <1>11, <1>12, <2>1, <2>2, <3>1 DEF After
  <2> QED
    BY <1>7, <1>9, <1>10, <2>8, <2>10, <2>11
<1>13. CASE e # packetEnd
  <2>1. /\ slipBegin' = e /\ slipBuf' = slipBuf /\ packetCount' = packetCount
        /\ packetEnd' = packetEnd
    BY <1>6, <1>13 DEF Flush
  <2>2. OutputInv'
    <3>1. e < packetEnd
      BY <1>1, <1>7, <1>13
    <3> QED
      BY <1>3, <1>4, <2>1, <3>1 DEF OutputInv
  <2>3. OutputTypeOK'
    <3>1. e \in 0 .. BufSize
      BY <1>1, <1>7, BufSizeAssumption
    <3> QED
      BY <1>1, <1>2, <2>1, <3>1 DEF OutputTypeOK
  <2> QED
    BY <1>7, <1>9, <1>10, <1>11, <2>1, <2>2, <2>3
<1> QED
  BY <1>12, <1>13

-----------------------------------------------------------------------------
(* The ring of the radio's driver, as a sequence of bytes.                 *)

\* Distance and the cells behind j, without a remainder.
Apart(j, k) == IF k >= j THEN k - j ELSE k - j + RxSize
CellAt(j, i) == IF j + i < RxSize THEN j + i ELSE j + i - RxSize

LEMMA RingArithmetic ==
  /\ \A j \in Ring, k \in Ring :
       Distance(j, k) = Apart(j, k) /\ Apart(j, k) \in 0 .. RxSize - 1 /\ Apart(j, k) \in Nat
  /\ \A k \in Ring : Succ(k) \in Ring /\ Succ(k) = IF k + 1 = RxSize THEN 0 ELSE k + 1
  /\ \A j \in Ring, i \in 0 .. RxSize - 1 :
       /\ (j + i) % RxSize = CellAt(j, i) /\ CellAt(j, i) \in Ring
       /\ Apart(j, CellAt(j, i)) = i
  /\ \A j \in Ring, k \in Ring : CellAt(j, Apart(j, k)) = k
<1>1. \A a \in 0 .. RxSize - 1 : a % RxSize = a
  BY RxSizeAssumption
<1>2. \A a \in RxSize .. 2 * RxSize - 1 : a % RxSize = a - RxSize
  BY RxSizeAssumption
<1>3. \A a \in -RxSize .. -1 : a % RxSize = a + RxSize
  BY RxSizeAssumption
<1>4. ASSUME NEW j \in Ring, NEW k \in Ring
      PROVE  /\ Distance(j, k) = Apart(j, k)
             /\ Apart(j, k) \in 0 .. RxSize - 1 /\ Apart(j, k) \in Nat
  <2>1. PICK d : d = k - j
    OBVIOUS
  <2>2. j \in Int /\ k \in Int /\ (d \in 0 .. RxSize - 1 \/ d \in -RxSize .. -1)
    BY <2>1, RxSizeAssumption DEF Ring
  <2>3. d % RxSize = IF d >= 0 THEN d ELSE d + RxSize
    BY <1>1, <1>3, <2>2
  <2>4. Distance(j, k) = d % RxSize
    BY <2>1 DEF Distance
  <2> QED
    BY <2>1, <2>2, <2>3, <2>4, RxSizeAssumption DEF Apart
<1>5. ASSUME NEW k \in Ring
      PROVE  Succ(k) \in Ring /\ Succ(k) = IF k + 1 = RxSize THEN 0 ELSE k + 1
  <2>1. PICK d : d = k + 1
    OBVIOUS
  <2>2. d \in 0 .. RxSize - 1 \/ (d = RxSize /\ d \in RxSize .. 2 * RxSize - 1)
    BY <2>1, RxSizeAssumption DEF Ring
  <2>3. d % RxSize = IF d = RxSize THEN 0 ELSE d
    BY <1>1, <1>2, <2>2, RxSizeAssumption
  <2>4. Succ(k) = d % RxSize
    BY <2>1 DEF Succ
  <2> QED
    BY <2>1, <2>2, <2>3, <2>4, RxSizeAssumption DEF Ring
<1>6. ASSUME NEW j \in Ring, NEW i \in 0 .. RxSize - 1
      PROVE  /\ (j + i) % RxSize = CellAt(j, i) /\ CellAt(j, i) \in Ring
             /\ Apart(j, CellAt(j, i)) = i
  <2>1. PICK d : d = j + i
    OBVIOUS
  <2>2. d \in 0 .. RxSize - 1 \/ d \in RxSize .. 2 * RxSize - 1
    BY <2>1, RxSizeAssumption DEF Ring
  <2>3. d % RxSize = IF d < RxSize THEN d ELSE d - RxSize
    BY <1>1, <1>2, <2>2, RxSizeAssumption
  <2>4. (j + i) % RxSize = CellAt(j, i)
    <3>1. (j + i) % RxSize = d % RxSize
      BY <2>1, Zenon
    <3>2. CellAt(j, i) = IF d < RxSize THEN d ELSE d - RxSize
      BY <2>1, RxSizeAssumption DEF CellAt, Ring
    <3> QED
      BY <2>3, <3>1, <3>2, Zenon
  <2>5. CellAt(j, i) \in Ring
    BY RxSizeAssumption DEF CellAt, Ring
  <2>6. Apart(j, CellAt(j, i)) = i
    BY RxSizeAssumption DEF CellAt, Ring, Apart
  <2> QED
    BY <2>4, <2>5, <2>6
<1>7. ASSUME NEW j \in Ring, NEW k \in Ring PROVE CellAt(j, Apart(j, k)) = k
  BY RxSizeAssumption DEF CellAt, Apart, Ring
<1> QED
  BY <1>4, <1>5, <1>6, <1>7

\* The bytes of [j, k).
Cells(rx, j, k) == [i \in 1 .. Apart(j, k) |-> rx[CellAt(j, i - 1)]]

LEMMA CellsTyped ==
  ASSUME NEW rx \in [Ring -> Bytes], NEW j \in Ring, NEW k \in Ring
  PROVE  /\ Cells(rx, j, k) \in Seq(Bytes) /\ Len(Cells(rx, j, k)) = Apart(j, k)
         /\ Apart(j, k) \in 0 .. RxSize - 1 /\ Apart(j, k) \in Nat
         /\ \A i \in 1 .. Apart(j, k) : Cells(rx, j, k)[i] = rx[CellAt(j, i - 1)]
<1>1. PICK n : n = Apart(j, k)
  OBVIOUS
<1>2. n \in 0 .. RxSize - 1 /\ n \in Nat
  BY <1>1, RingArithmetic
<1>3. ASSUME NEW i \in 1 .. n PROVE rx[CellAt(j, i - 1)] \in Bytes
  <2>1. i - 1 \in 0 .. RxSize - 1
    BY <1>2, RxSizeAssumption
  <2> QED
    BY <2>1, RingArithmetic
<1>4. PICK s : s = Cells(rx, j, k)
  OBVIOUS
<1>5. s \in [1 .. n -> Bytes] /\ \A i \in 1 .. n : s[i] = rx[CellAt(j, i - 1)]
  BY <1>1, <1>3, <1>4 DEF Cells
<1>6. s \in Seq(Bytes) /\ Len(s) = n
  BY <1>2, <1>5
<1> QED
  BY <1>1, <1>2, <1>4, <1>5, <1>6

LEMMA RingBytesAre ==
  ASSUME NEW j \in Ring, NEW k \in Ring
  PROVE  RingBytes(j, k) = Cells(rxbuf, j, k)
<1>1. Distance(j, k) = Apart(j, k) /\ Apart(j, k) \in 0 .. RxSize - 1
  BY RingArithmetic
<1>2. ASSUME NEW i \in 1 .. Apart(j, k)
      PROVE  (j + i - 1) % RxSize = CellAt(j, i - 1)
  <2>1. i - 1 \in 0 .. RxSize - 1 /\ j + i - 1 = j + (i - 1)
    BY <1>1, RxSizeAssumption DEF Ring
  <2> QED
    BY <2>1, RingArithmetic
<1> QED
  BY <1>1, <1>2 DEF RingBytes, Cells

\* Where the cells of a packet's parts are.
LEMMA ApartAre ==
  ASSUME NEW j \in Ring, NEW k \in Ring
  PROVE  /\ Apart(j, k) = 0 <=> j = k
         /\ Succ(k) # j => Apart(j, Succ(k)) = Apart(j, k) + 1
         /\ \A e \in Ring : Apart(j, e) <= Apart(j, k) =>
              /\ Apart(e, k) = Apart(j, k) - Apart(j, e)
              /\ Succ(k) # j => Succ(k) # e
         /\ \A e \in Ring : Apart(j, e) < Apart(j, k) =>
              /\ Succ(e) # j /\ Apart(j, Succ(e)) = Apart(j, e) + 1
              /\ Apart(Succ(e), k) = Apart(j, k) - (Apart(j, e) + 1)
<1>1. Succ(k) \in Ring /\ Succ(k) = IF k + 1 = RxSize THEN 0 ELSE k + 1
  BY RingArithmetic
<1>2. Apart(j, k) = 0 <=> j = k
  BY RxSizeAssumption DEF Apart, Ring
<1>3. Succ(k) # j => Apart(j, Succ(k)) = Apart(j, k) + 1
  BY <1>1, RxSizeAssumption DEF Apart, Ring
<1>4. ASSUME NEW e \in Ring, Apart(j, e) <= Apart(j, k)
      PROVE  /\ Apart(e, k) = Apart(j, k) - Apart(j, e)
             /\ Succ(k) # j => Succ(k) # e
  BY <1>1, <1>4, RxSizeAssumption DEF Apart, Ring
<1>5. ASSUME NEW e \in Ring, Apart(j, e) < Apart(j, k)
      PROVE  /\ Succ(e) # j /\ Apart(j, Succ(e)) = Apart(j, e) + 1
             /\ Apart(Succ(e), k) = Apart(j, k) - (Apart(j, e) + 1)
  <2>1. Succ(e) \in Ring /\ Succ(e) = IF e + 1 = RxSize THEN 0 ELSE e + 1
    BY RingArithmetic
  <2> QED
    BY <1>5, <2>1, RxSizeAssumption DEF Apart, Ring
<1> QED
  BY <1>2, <1>3, <1>4, <1>5

\* One more byte in the ring.
LEMMA CellsStore ==
  ASSUME NEW rx \in [Ring -> Bytes], NEW j \in Ring, NEW k \in Ring, NEW c \in Bytes,
         Succ(k) # j
  PROVE  Cells([rx EXCEPT ![k] = c], j, Succ(k)) = Append(Cells(rx, j, k), c)
<1>1. PICK more, n, s, t :
        /\ more = [rx EXCEPT ![k] = c] /\ n = Apart(j, k)
        /\ s = Cells(rx, j, k) /\ t = Cells(more, j, Succ(k))
  OBVIOUS
<1>2. more \in [Ring -> Bytes] /\ more[k] = c /\ \A i \in Ring : i # k => more[i] = rx[i]
  BY <1>1
<1>3. /\ s \in Seq(Bytes) /\ Len(s) = n /\ n \in 0 .. RxSize - 1 /\ n \in Nat
      /\ \A i \in 1 .. n : s[i] = rx[CellAt(j, i - 1)]
  BY <1>1, CellsTyped
<1>4. Succ(k) \in Ring /\ Apart(j, Succ(k)) = n + 1
  BY <1>1, RingArithmetic, ApartAre
<1>5. /\ t \in Seq(Bytes) /\ Len(t) = n + 1 /\ n + 1 \in 0 .. RxSize - 1
      /\ \A i \in 1 .. n + 1 : t[i] = more[CellAt(j, i - 1)]
  <2>1. PICK k2 : k2 = Succ(k)
    OBVIOUS
  <2>2. /\ Cells(more, j, k2) \in Seq(Bytes) /\ Len(Cells(more, j, k2)) = Apart(j, k2)
        /\ Apart(j, k2) \in 0 .. RxSize - 1
        /\ \A i \in 1 .. Apart(j, k2) : Cells(more, j, k2)[i] = more[CellAt(j, i - 1)]
    BY <1>2, <1>4, <2>1, CellsTyped
  <2> QED
    BY <1>1, <1>4, <2>1, <2>2
<1>6. PICK u : u = Append(s, c)
  OBVIOUS
<1>7. /\ u \in Seq(Bytes) /\ Len(u) = n + 1 /\ u[n + 1] = c
      /\ \A i \in 1 .. n : u[i] = s[i]
  BY <1>3, <1>6, AppendProperties
<1>8. ASSUME NEW i \in 1 .. n + 1 PROVE t[i] = u[i]
  <2>1. PICK m : m = i - 1
    OBVIOUS
  <2>2. m \in 0 .. RxSize - 1 /\ m \in 0 .. n
    BY <1>3, <1>5, <2>1, RxSizeAssumption
  <2>3. CellAt(j, m) \in Ring /\ Apart(j, CellAt(j, m)) = m
    BY <2>2, RingArithmetic
  <2>4. CASE m = n
    <3>1. CellAt(j, m) = k
      BY <1>1, <2>4, RingArithmetic
    <3>2. i = n + 1
      BY <1>3, <2>1, <2>4
    <3> QED
      BY <1>2, <1>5, <1>7, <2>1, <3>1, <3>2
  <2>5. CASE m # n
    <3>1. i \in 1 .. n /\ CellAt(j, m) # k
      BY <1>1, <1>3, <2>1, <2>2, <2>3, <2>5
    <3>2. t[i] = rx[CellAt(j, m)]
      BY <1>2, <1>5, <2>1, <2>3, <3>1
    <3> QED
      BY <1>3, <1>7, <2>1, <3>1, <3>2
  <2> QED
    BY <2>4, <2>5
<1>9. t = u
  BY <1>3, <1>5, <1>7, <1>8, SeqEqual
<1> QED
  BY <1>1, <1>6, <1>9

\* The packet at the beginning of the ring.
LEMMA CellsUpTo ==
  ASSUME NEW rx \in [Ring -> Bytes], NEW j \in Ring, NEW k \in Ring, NEW e \in Ring,
         Apart(j, e) <= Apart(j, k)
  PROVE  Cells(rx, j, e) = SubSeq(Cells(rx, j, k), 1, Apart(j, e))
<1>1. PICK n, m, s, t :
        n = Apart(j, k) /\ m = Apart(j, e) /\ s = Cells(rx, j, k) /\ t = Cells(rx, j, e)
  OBVIOUS
<1>2. /\ s \in Seq(Bytes) /\ Len(s) = n /\ n \in Nat
      /\ \A i \in 1 .. n : s[i] = rx[CellAt(j, i - 1)]
  BY <1>1, CellsTyped
<1>3. /\ t \in Seq(Bytes) /\ Len(t) = m /\ m \in Nat /\ m <= n
      /\ \A i \in 1 .. m : t[i] = rx[CellAt(j, i - 1)]
  BY <1>1, CellsTyped
<1>4. PICK u : u = SubSeq(s, 1, m)
  OBVIOUS
<1>5. u \in Seq(Bytes) /\ Len(u) = m /\ \A i \in 1 .. m : u[i] = s[i]
  BY <1>2, <1>3, <1>4
<1>6. \A i \in 1 .. m : t[i] = u[i]
  BY <1>2, <1>3, <1>5
<1>7. t = u
  BY <1>3, <1>5, <1>6, SeqEqual
<1> QED
  BY <1>1, <1>4, <1>7

\* What is behind its SLIP_END.
LEMMA CellsBehind ==
  ASSUME NEW rx \in [Ring -> Bytes], NEW j \in Ring, NEW k \in Ring, NEW e \in Ring,
         Apart(j, e) < Apart(j, k)
  PROVE  Cells(rx, Succ(e), k) = After(Cells(rx, j, k), Apart(j, e) + 1)
<1>1. PICK n, m, s, t :
        /\ n = Apart(j, k) /\ m = Apart(j, e) + 1
        /\ s = Cells(rx, j, k) /\ t = Cells(rx, Succ(e), k)
  OBVIOUS
<1>2. /\ s \in Seq(Bytes) /\ Len(s) = n /\ n \in Nat /\ n \in 0 .. RxSize - 1
      /\ \A i \in 1 .. n : s[i] = rx[CellAt(j, i - 1)]
  BY <1>1, CellsTyped
<1>3. m \in 1 .. n /\ Apart(Succ(e), k) = n - m /\ Succ(e) \in Ring /\ Apart(j, Succ(e)) = m
  <2>1. Apart(j, e) \in Nat
    BY RingArithmetic
  <2>2. m \in 1 .. n
    BY <1>1, <1>2, <2>1
  <2>3. Apart(Succ(e), k) = n - m /\ Apart(j, Succ(e)) = m
    BY <1>1, ApartAre
  <2>4. Succ(e) \in Ring
    BY RingArithmetic
  <2> QED
    BY <2>2, <2>3, <2>4
<1>4. /\ t \in Seq(Bytes) /\ Len(t) = n - m
      /\ \A i \in 1 .. n - m : t[i] = rx[CellAt(Succ(e), i - 1)]
  <2>1. PICK j2 : j2 = Succ(e)
    OBVIOUS
  <2>2. /\ Cells(rx, j2, k) \in Seq(Bytes) /\ Len(Cells(rx, j2, k)) = Apart(j2, k)
        /\ \A i \in 1 .. Apart(j2, k) : Cells(rx, j2, k)[i] = rx[CellAt(j2, i - 1)]
    BY <1>3, <2>1, CellsTyped
  <2> QED
    BY <1>1, <1>3, <2>1, <2>2
<1>5. PICK u : u = After(s, m)
  OBVIOUS
<1>6. u \in Seq(Bytes) /\ Len(u) = n - m /\ \A i \in 1 .. n - m : u[i] = s[m + i]
  <2>1. m \in 0 .. Len(s)
    BY <1>2, <1>3
  <2>2. /\ After(s, m) \in Seq(Bytes) /\ Len(After(s, m)) = Len(s) - m
        /\ \A i \in 1 .. Len(s) - m : After(s, m)[i] = s[m + i]
    BY <1>2, <2>1, AfterTyped
  <2> QED
    BY <1>2, <1>5, <2>2
<1>7. ASSUME NEW i \in 1 .. n - m PROVE t[i] = u[i]
  <2>1. PICK q, x : q = m + i /\ x = q - 1
    OBVIOUS
  <2>2. q \in 1 .. n /\ x \in 0 .. RxSize - 1 /\ x = m + (i - 1)
    BY <1>2, <1>3, <2>1, RxSizeAssumption
  <2>3. CellAt(Succ(e), i - 1) = CellAt(j, x)
    <3>1. i \in Int /\ i >= 1 /\ i + m <= RxSize /\ m \in Int
      BY <1>2, <1>3, RxSizeAssumption
    <3> QED
      BY <1>3, <2>2, <3>1, RxSizeAssumption DEF CellAt, Apart, Ring
  <2>4. u[i] = s[q] /\ s[q] = rx[CellAt(j, x)]
    BY <1>2, <1>6, <2>1, <2>2
  <2>5. t[i] = rx[CellAt(Succ(e), i - 1)]
    BY <1>4
  <2> QED
    BY <2>3, <2>4, <2>5
<1>8. t = u
  BY <1>2, <1>3, <1>4, <1>6, <1>7, SeqEqual
<1> QED
  BY <1>1, <1>5, <1>8

LEMMA CellsKept ==
  ASSUME NEW rx \in [Ring -> Bytes], NEW j \in Ring, NEW k \in Ring, NEW c \in Bytes
  PROVE  Cells([rx EXCEPT ![k] = c], j, k) = Cells(rx, j, k)
<1>1. PICK more, n : more = [rx EXCEPT ![k] = c] /\ n = Apart(j, k)
  OBVIOUS
<1>2. \A i \in Ring : i # k => more[i] = rx[i]
  BY <1>1
<1>3. n \in 0 .. RxSize - 1
  BY <1>1, RingArithmetic
<1>4. ASSUME NEW i \in 1 .. n PROVE more[CellAt(j, i - 1)] = rx[CellAt(j, i - 1)]
  <2>1. PICK m : m = i - 1
    OBVIOUS
  <2>2. m \in 0 .. RxSize - 1 /\ m # n
    BY <1>3, <2>1, RxSizeAssumption
  <2>3. CellAt(j, m) \in Ring /\ Apart(j, CellAt(j, m)) = m
    BY <2>2, RingArithmetic
  <2>4. CellAt(j, m) # k
    BY <1>1, <2>2, <2>3
  <2> QED
    BY <1>2, <2>1, <2>3, <2>4
<1> QED
  BY <1>1, <1>4 DEF Cells

-----------------------------------------------------------------------------
(* Types.                                                                  *)

DriverTypeOK ==
  /\ rxbuf \in [Ring -> Bytes]
  /\ begin \in Ring /\ nextFree \in Ring /\ pktEnd \in Ring /\ found \in Ring
  /\ state \in {"OK", "ESC", "RUBBISH"} /\ needspoll \in BOOLEAN
  /\ pc \in {"idle", "skip", "scan", "more", "begin", "empty", "deliver"}
  /\ out \in Seq(Bytes)

LineTypeOK ==
  /\ line \in Seq(Bytes) /\ Len(line) <= LineBytes
  /\ pending \in Seq(RawFrames) /\ Len(pending) <= MaxInFlight
  /\ undisturbed \in BOOLEAN

LEMMA SerialTypes == SerialTypeOK <=> OutputTypeOK /\ DriverTypeOK /\ LineTypeOK
BY DEF SerialTypeOK, OutputTypeOK, DriverTypeOK, LineTypeOK

LEMMA FramesAreReal == RawFrames \subseteq RealFrames
BY RawFramesAssumption DEF RealFrames, Bytes

LEMMA PendingTyped ==
  ASSUME LineTypeOK
  PROVE  pending \in Seq(RealFrames)
<1>1. pending \in Seq(RawFrames)
  BY DEF LineTypeOK
<1> QED
  BY <1>1, FramesAreReal, SeqMonotonic

LEMMA CopiedTyped ==
  ASSUME DriverTypeOK
  PROVE  Copied(begin, pktEnd) \in Seq(Bytes)
<1>1. /\ begin \in Ring /\ pktEnd \in Ring /\ 0 \in Ring
      /\ rxbuf \in [Ring -> Bytes]
  BY RxSizeAssumption DEF DriverTypeOK, Ring
<1>2. ASSUME NEW j \in Ring, NEW k \in Ring
      PROVE  Decode(RingBytes(j, k)) \in Seq(Bytes)
  <2>1. RingBytes(j, k) \in Seq(Bytes)
    BY <1>1, RingBytesAre, CellsTyped
  <2> QED
    BY <2>1, DecodeTyped
<1>3. << >> \in Seq(Bytes)
  BY EmptySeq
<1> QED
  BY <1>1, <1>2, <1>3, Zenon DEF Copied

\* A frame that fits is copied whole, also where it wraps around.
LEMMA FrameCopied ==
  ASSUME NEW frame \in RawFrames, rxbuf \in [Ring -> Bytes],
         NEW j \in Ring, NEW k \in Ring, RingBytes(j, k) = Body(frame)
  PROVE  Copied(j, k) = frame
<1>1. frame \in Seq(Bytes) /\ Len(frame) <= OutSize /\ Len(frame) \in Nat
  BY FramesAreReal, FramesFitAssumption DEF RealFrames
<1>2. PICK bytes : bytes = RingBytes(j, k)
  OBVIOUS
<1>3. bytes \in Seq(Bytes) /\ Decode(bytes) = frame /\ Len(bytes) = Apart(j, k)
  <2>1. bytes \in Seq(Bytes) /\ Len(bytes) = Apart(j, k)
    BY <1>2, RingBytesAre, CellsTyped
  <2>2. Decode(bytes) = frame
    BY <1>1, <1>2, DecodeBody
  <2> QED
    BY <2>1, <2>2
<1>4. ASSUME NEW n \in 0 .. Len(bytes)
      PROVE  ~Overruns(SubSeq(bytes, 1, n))
  <2>1. PICK s : s = SubSeq(bytes, 1, n)
    OBVIOUS
  <2>2. s \in Seq(Bytes) /\ Len(s) = n
    BY <1>3, <2>1
  <2>3. CASE s = << >>
    BY <2>1, <2>3 DEF Overruns
  <2>4. CASE s # << >>
    <3>1. n # 0
      BY <2>2, <2>4
    <3>2. Len(bytes) \in Nat
      BY <1>3
    <3>3. n - 1 \in 0 .. Len(bytes)
      BY <3>1, <3>2
    <3>4. Front(s) = SubSeq(bytes, 1, n - 1)
      <4>1. Front(s) = SubSeq(s, 1, n - 1)
        BY <2>2 DEF Front
      <4>2. SubSeq(SubSeq(bytes, 1, n), 1, n - 1) = SubSeq(bytes, 1, n - 1)
        BY <1>3, <3>1, <3>3
      <4> QED
        BY <2>1, <4>1, <4>2
    <3>5. Len(Decode(SubSeq(bytes, 1, n - 1))) <= Len(Decode(bytes))
      BY <1>3, <3>3, DecodeShorter
    <3>6. Decode(SubSeq(bytes, 1, n - 1)) \in Seq(Bytes)
      <4>1. SubSeq(bytes, 1, n - 1) \in Seq(Bytes)
        BY <1>3, <3>3
      <4> QED
        BY <4>1, DecodeTyped
    <3>7. PICK l : l = Len(Decode(SubSeq(bytes, 1, n - 1)))
      OBVIOUS
    <3>8. l \in Nat /\ l <= Len(frame)
      BY <1>3, <3>5, <3>6, <3>7, LenProperties
    <3>9. ~(l > OutSize)
      BY <1>1, <3>8, OutSizeAssumption
    <3> QED
      BY <2>1, <3>4, <3>7, <3>9, Zenon DEF Overruns
  <2> QED
    BY <2>3, <2>4
<1>5. ~Overruns(bytes)
  <2>1. SubSeq(bytes, 1, Len(bytes)) = bytes /\ Len(bytes) \in 0 .. Len(bytes)
    BY <1>3
  <2> QED
    BY <1>4, <2>1
<1>6. j > k => ~Overruns(RingBytes(j, 0))
  <2>1. SUFFICES ASSUME j > k PROVE ~Overruns(RingBytes(j, 0))
    OBVIOUS
  <2>2. /\ 0 \in Ring /\ Apart(j, 0) <= Apart(j, k)
        /\ Apart(j, 0) \in Nat /\ Apart(j, k) \in Nat
    BY <2>1, RxSizeAssumption DEF Apart, Ring
  <2>3. Cells(rxbuf, j, 0) = SubSeq(Cells(rxbuf, j, k), 1, Apart(j, 0))
    BY <2>2, CellsUpTo
  <2>4. RingBytes(j, 0) = Cells(rxbuf, j, 0) /\ bytes = Cells(rxbuf, j, k)
    BY <1>2, <2>2, RingBytesAre
  <2>5. Apart(j, 0) \in 0 .. Len(bytes)
    BY <1>3, <2>2
  <2> QED
    BY <1>4, <2>3, <2>4, <2>5
<1> QED
  BY <1>2, <1>3, <1>5, <1>6 DEF Copied

LEMMA DriverInitTyped ==
  ASSUME DriverInit
  PROVE  DriverTypeOK
<1>1. 0 \in Ring /\ 0 \in Bytes
  BY RxSizeAssumption DEF Ring, Bytes
<1>2. << >> \in Seq(Bytes)
  BY EmptySeq
<1> QED
  BY <1>1, <1>2 DEF DriverInit, DriverTypeOK

LEMMA InputTyped ==
  ASSUME DriverTypeOK, NEW c \in Bytes, InputByte(c)
  PROVE  DriverTypeOK'
<1>1. /\ rxbuf \in [Ring -> Bytes]
      /\ begin \in Ring /\ nextFree \in Ring /\ pktEnd \in Ring /\ found \in Ring
      /\ needspoll \in BOOLEAN
      /\ Succ(nextFree) \in Ring
  BY RingArithmetic DEF DriverTypeOK
<1>2. begin' = begin /\ pc' = pc /\ out' = out /\ found' = found
  BY DEF InputByte
<1>3. \/ rxbuf' = rxbuf \/ rxbuf' = [rxbuf EXCEPT ![nextFree] = c]
  BY DEF InputByte, RemoveRubbish
<1>4. rxbuf' \in [Ring -> Bytes]
  BY <1>1, <1>3
<1>5. state' \in {"OK", "ESC", "RUBBISH"}
  BY DEF InputByte, RemoveRubbish
<1>6. nextFree' \in Ring /\ pktEnd' \in Ring /\ needspoll' \in BOOLEAN
  <2>1. CASE state = "RUBBISH"
    BY <1>1, <2>1 DEF InputByte
  <2>2. CASE state # "RUBBISH" /\ ~Stores(c)
    BY <1>1, <2>2 DEF InputByte, RemoveRubbish
  <2>3. CASE state # "RUBBISH" /\ Stores(c) /\ c = END
    BY <1>1, <2>3 DEF InputByte, EndOfPacket
  <2>4. CASE state # "RUBBISH" /\ Stores(c) /\ c # END
    BY <1>1, <2>4 DEF InputByte
  <2> QED
    BY <2>1, <2>2, <2>3, <2>4
<1> QED
  BY <1>1, <1>2, <1>4, <1>5, <1>6 DEF DriverTypeOK

LEMMA HandlerTyped ==
  ASSUME DriverTypeOK, PollHandler \/ Deliver
  PROVE  DriverTypeOK'
<1> USE DEF DriverTypeOK
<1>1. << >> \in Seq(Bytes)
  BY EmptySeq
<1>2. CASE PollCopy
  <2>1. Copied(begin, pktEnd) \in Seq(Bytes)
    BY CopiedTyped
  <2> QED
    BY <1>2, <2>1 DEF PollCopy
<1>3. CASE PollSkip
  BY <1>3, RingArithmetic DEF PollSkip
<1>4. CASE PollScan
  BY <1>4 DEF PollScan, Between
<1>5. CASE PollMore
  BY <1>5 DEF PollMore, PolledAgain
<1>6. CASE PollEmpty
  BY <1>6 DEF PollEmpty
<1>7. CASE Deliver
  BY <1>1, <1>7 DEF Deliver
<1> QED
  BY <1>2, <1>3, <1>4, <1>5, <1>6, <1>7 DEF PollHandler

-----------------------------------------------------------------------------
(* The bytes on their way to the radio and those in its ring are the       *)
(* frames that it has not read.                                            *)

\* Where slip_process goes on reading, and the SLIP_END it knows of behind.
From == IF pc \in {"scan", "more", "empty"} THEN pktEnd
        ELSE IF pc = "begin" THEN found ELSE begin
To == IF pc = "more" THEN found ELSE pktEnd

Unread == Cells(rxbuf, From, nextFree)

EndKnown ==
  \/ pc \in {"skip", "more", "begin"}
  \/ pc \in {"idle", "deliver"} /\ begin # pktEnd
NoneKnown ==
  \/ pc = "empty"
  \/ pc \in {"idle", "deliver"} /\ begin = pktEnd

NoEnd(s) == \A k \in 1 .. Len(s) : s[k] # END

\* pkt_end is the end of the first packet that the ring holds from begin on,
\* or begin when it holds none; while the handler moves them, this holds of
\* where they will be.
Pointers ==
  /\ Apart(begin, From) <= Apart(begin, nextFree)
  /\ pc \in {"skip", "scan", "more", "begin", "empty"} => begin # pktEnd
  /\ pc = "begin" => begin # found
  /\ NoneKnown => NoEnd(Unread)
  /\ EndKnown => From # To /\ FirstEnd(Unread, Apart(From, To) + 1)

BytesAhead == Unread \o (line \o Unwritten)

\* The frames that the handler has not copied; the SLIP_END of
\* slip_init_dev() may still come before the first.
Uncopied == IF pc \in {"idle", "skip"} THEN pending ELSE Tail(pending)
FirstByteAhead == pc = "idle" /\ begin = nextFree /\ BytesAhead = <<END>> \o Stream(pending)
Arriving == BytesAhead = Stream(Uncopied) \/ FirstByteAhead

LineInv ==
  undisturbed =>
    /\ state # "RUBBISH"
    /\ Pointers
    /\ pc # "idle" => pending # << >> /\ out = Head(pending)
    /\ Arriving

LEMMA UnreadTyped ==
  ASSUME DriverTypeOK
  PROVE  /\ From \in Ring /\ To \in Ring
         /\ Unread \in Seq(Bytes) /\ Len(Unread) = Apart(From, nextFree)
         /\ Apart(From, nextFree) \in Nat /\ Apart(From, nextFree) \in 0 .. RxSize - 1
         /\ Unread = << >> <=> From = nextFree
<1>1. From \in Ring /\ To \in Ring
  BY DEF DriverTypeOK, From, To
<1>2. rxbuf \in [Ring -> Bytes] /\ nextFree \in Ring
  BY DEF DriverTypeOK
<1>3. /\ Unread \in Seq(Bytes) /\ Len(Unread) = Apart(From, nextFree)
      /\ Apart(From, nextFree) \in 0 .. RxSize - 1 /\ Apart(From, nextFree) \in Nat
  BY <1>1, <1>2, CellsTyped DEF Unread
<1>4. Unread = << >> <=> Len(Unread) = 0
  BY <1>3, EmptySeq
<1>5. Apart(From, nextFree) = 0 <=> From = nextFree
  BY <1>1, <1>2, ApartAre
<1> QED
  BY <1>1, <1>3, <1>4, <1>5

LEMMA UncopiedTyped ==
  ASSUME LineTypeOK, pc # "idle" => pending # << >>
  PROVE  Uncopied \in Seq(RealFrames) /\ Stream(Uncopied) \in Seq(Bytes)
<1>1. pending \in Seq(RealFrames)
  BY PendingTyped
<1>2. Uncopied \in Seq(RealFrames)
  BY <1>1, StreamCons DEF Uncopied
<1> QED
  BY <1>2, StreamTyped

LEMMA FirstEndAppend ==
  ASSUME NEW s \in Seq(Bytes), NEW c \in Bytes
  PROVE  /\ \A k : FirstEnd(s, k) => FirstEnd(Append(s, c), k)
         /\ NoEnd(s) /\ c # END => NoEnd(Append(s, c))
         /\ NoEnd(s) /\ c = END => FirstEnd(Append(s, c), Len(s) + 1)
<1>1. PICK n, t : n = Len(s) /\ t = Append(s, c)
  OBVIOUS
<1>2. /\ n \in Nat /\ t \in Seq(Bytes) /\ Len(t) = n + 1 /\ t[n + 1] = c
      /\ \A i \in 1 .. n : t[i] = s[i]
  BY <1>1, AppendProperties
<1>3. ASSUME NEW k, FirstEnd(s, k) PROVE FirstEnd(t, k)
  <2>1. k \in 1 .. n /\ s[k] = END /\ \A i \in 1 .. k - 1 : s[i] # END
    BY <1>1, <1>3 DEF FirstEnd
  <2>2. k \in 1 .. n + 1 /\ \A i \in 1 .. k - 1 : i \in 1 .. n
    BY <1>2, <2>1
  <2> QED
    BY <1>2, <2>1, <2>2 DEF FirstEnd
<1>4. ASSUME NoEnd(s), c # END PROVE NoEnd(t)
  <2>1. \A i \in 1 .. n : t[i] # END
    BY <1>1, <1>2, <1>4 DEF NoEnd
  <2>2. \A i \in 1 .. n + 1 : i \in 1 .. n \/ i = n + 1
    BY <1>2
  <2> QED
    BY <1>2, <1>4, <2>1, <2>2 DEF NoEnd
<1>5. ASSUME NoEnd(s), c = END PROVE FirstEnd(t, n + 1)
  <2>1. \A i \in 1 .. n : t[i] # END
    BY <1>1, <1>2, <1>5 DEF NoEnd
  <2>2. n + 1 \in 1 .. n + 1 /\ n + 1 - 1 = n
    BY <1>2
  <2> QED
    BY <1>2, <1>5, <2>1, <2>2 DEF FirstEnd
<1> QED
  BY <1>1, <1>3, <1>4, <1>5

\* A known end lies before next_free.
LEMMA KnownEnd ==
  ASSUME DriverTypeOK, Pointers, EndKnown
  PROVE  /\ From # nextFree /\ To # nextFree /\ Unread # << >>
         /\ Apart(From, To) < Apart(From, nextFree)
<1>1. PICK d : d = Apart(From, To)
  OBVIOUS
<1>2. d \in Nat /\ From \in Ring /\ To \in Ring
  BY <1>1, UnreadTyped, RingArithmetic
<1>3. d + 1 \in 1 .. Len(Unread) /\ Len(Unread) = Apart(From, nextFree) /\ Len(Unread) \in Nat
  BY <1>1, UnreadTyped DEF Pointers, FirstEnd
<1>4. d < Apart(From, nextFree)
  BY <1>2, <1>3
<1>5. To # nextFree
  BY <1>1, <1>2, <1>4
<1>6. Len(Unread) # 0
  BY <1>3
<1>7. Unread # << >> /\ From # nextFree
  BY <1>6, UnreadTyped, EmptySeq
<1> QED
  BY <1>1, <1>4, <1>5, <1>7

\* The interrupt stores a byte: in front of the handler nothing changes.
LEMMA StoreUnread ==
  ASSUME DriverTypeOK, Pointers, NEW c \in Bytes, ~RingFull,
         rxbuf' = [rxbuf EXCEPT ![nextFree] = c], nextFree' = Succ(nextFree),
         begin' = begin, pc' = pc, found' = found,
         pktEnd' = pktEnd \/ pc \in {"idle", "deliver"}
  PROVE  /\ From' = From /\ Unread' = Append(Unread, c)
         /\ Apart(begin', From') <= Apart(begin', nextFree')
<1>1. rxbuf \in [Ring -> Bytes] /\ begin \in Ring /\ nextFree \in Ring
  BY DEF DriverTypeOK
<1>2. From \in Ring
  BY UnreadTyped
<1>3. From' = From
  <2>1. pc \in {"idle", "deliver"} => From = begin /\ From' = begin
    BY DEF From
  <2>2. pktEnd' = pktEnd => From' = From
    BY DEF From
  <2> QED
    BY <2>1, <2>2
<1>4. Succ(nextFree) # begin
  BY DEF RingFull
<1>5. Apart(begin, From) <= Apart(begin, nextFree)
  BY DEF Pointers
<1>6. Succ(nextFree) # From /\ Apart(begin, Succ(nextFree)) = Apart(begin, nextFree) + 1
  BY <1>1, <1>2, <1>4, <1>5, ApartAre
<1>7. Cells([rxbuf EXCEPT ![nextFree] = c], From, Succ(nextFree))
        = Append(Cells(rxbuf, From, nextFree), c)
  BY <1>1, <1>2, <1>6, CellsStore
<1>8. Unread' = Append(Unread, c)
  <2>1. Unread' = Cells(rxbuf', From', nextFree')
    BY DEF Unread
  <2> QED
    BY <1>3, <1>7, <2>1 DEF Unread
<1>9. Apart(begin, From) <= Apart(begin, Succ(nextFree))
  <2>1. Apart(begin, From) \in Nat /\ Apart(begin, nextFree) \in Nat
    BY <1>1, <1>2, RingArithmetic
  <2> QED
    BY <1>5, <1>6, <2>1
<1> QED
  BY <1>3, <1>8, <1>9

\* A byte of a packet.
LEMMA StoreKeeps ==
  ASSUME DriverTypeOK, Pointers, NEW c \in Bytes, ~RingFull, c # END,
         rxbuf' = [rxbuf EXCEPT ![nextFree] = c], nextFree' = Succ(nextFree),
         begin' = begin, pc' = pc, found' = found, pktEnd' = pktEnd
  PROVE  Pointers' /\ Unread' = Append(Unread, c)
<1>1. /\ From' = From /\ Unread' = Append(Unread, c)
      /\ Apart(begin', From') <= Apart(begin', nextFree')
  BY StoreUnread
<1>2. Unread \in Seq(Bytes)
  BY UnreadTyped
<1>3. To' = To /\ (EndKnown' <=> EndKnown) /\ (NoneKnown' <=> NoneKnown)
  BY DEF To, EndKnown, NoneKnown
<1>4. ASSUME NoneKnown PROVE NoEnd(Unread')
  <2>1. NoEnd(Unread)
    BY <1>4 DEF Pointers
  <2> QED
    BY <1>1, <1>2, <2>1, FirstEndAppend
<1>5. ASSUME EndKnown PROVE From # To /\ FirstEnd(Unread', Apart(From, To) + 1)
  <2>1. From # To /\ FirstEnd(Unread, Apart(From, To) + 1)
    BY <1>5 DEF Pointers
  <2> QED
    BY <1>1, <1>2, <2>1, FirstEndAppend
<1>6. /\ pc \in {"skip", "scan", "more", "begin", "empty"} => begin # pktEnd
      /\ pc = "begin" => begin # found
  BY DEF Pointers
<1> QED
  BY <1>1, <1>3, <1>4, <1>5, <1>6 DEF Pointers

\* The end of a packet.
LEMMA EndKeeps ==
  ASSUME DriverTypeOK, Pointers, END \in Bytes, ~RingFull, nextFree # pktEnd, pc # "empty",
         rxbuf' = [rxbuf EXCEPT ![nextFree] = END], nextFree' = Succ(nextFree),
         begin' = begin, pc' = pc, found' = found,
         pktEnd' = IF begin = pktEnd THEN nextFree ELSE pktEnd
  PROVE  Pointers' /\ Unread' = Append(Unread, END)
<1>1. /\ pc \in {"skip", "scan", "more", "begin", "empty"} => begin # pktEnd
      /\ pc = "begin" => begin # found
  BY DEF Pointers
<1>2. pktEnd' = pktEnd \/ pc \in {"idle", "deliver"}
  BY <1>1 DEF DriverTypeOK
<1>3. /\ From' = From /\ Unread' = Append(Unread, END)
      /\ Apart(begin', From') <= Apart(begin', nextFree')
  BY <1>2, StoreUnread
<1>4. Unread \in Seq(Bytes) /\ Len(Unread) = Apart(From, nextFree)
  BY UnreadTyped
<1>5. CASE begin = pktEnd
  <2>1. pc \in {"idle", "deliver"} /\ From = begin /\ pktEnd' = nextFree /\ begin # nextFree
    BY <1>1, <1>5 DEF DriverTypeOK, From
  <2>2. NoEnd(Unread)
    BY <1>5, <2>1 DEF Pointers, NoneKnown
  <2>3. FirstEnd(Append(Unread, END), Len(Unread) + 1)
    BY <1>4, <2>2, FirstEndAppend
  <2>4. FirstEnd(Unread', Apart(begin, nextFree) + 1)
    BY <1>3, <1>4, <2>1, <2>3
  <2>5. ~NoneKnown' /\ To' = nextFree /\ From' = begin
    BY <1>3, <2>1 DEF NoneKnown, To
  <2>6. pc' \notin {"skip", "scan", "more", "begin", "empty"} /\ pc' # "begin"
    BY <2>1
  <2> QED
    BY <1>3, <2>1, <2>4, <2>5, <2>6 DEF Pointers
<1>6. CASE begin # pktEnd
  <2>1. To' = To /\ (EndKnown' <=> EndKnown) /\ ~NoneKnown' /\ pktEnd' = pktEnd
    BY <1>6 DEF To, EndKnown, NoneKnown
  <2>2. ASSUME EndKnown PROVE From # To /\ FirstEnd(Unread', Apart(From, To) + 1)
    <3>1. From # To /\ FirstEnd(Unread, Apart(From, To) + 1)
      BY <2>2 DEF Pointers
    <3> QED
      BY <1>3, <1>4, <3>1, FirstEndAppend
  <2> QED
    BY <1>1, <1>3, <2>1, <2>2 DEF Pointers
<1> QED
  BY <1>5, <1>6

\* A SLIP_END in front of a packet.
LEMMA DropKeeps ==
  ASSUME DriverTypeOK, Pointers, NEW c \in Bytes,
         rxbuf' = [rxbuf EXCEPT ![nextFree] = c], nextFree' = nextFree,
         begin' = begin, pc' = pc, found' = found, pktEnd' = pktEnd
  PROVE  Pointers' /\ Unread' = Unread
<1>1. rxbuf \in [Ring -> Bytes] /\ nextFree \in Ring /\ From \in Ring
  BY UnreadTyped DEF DriverTypeOK
<1>2. /\ From' = From /\ To' = To /\ (EndKnown' <=> EndKnown) /\ (NoneKnown' <=> NoneKnown)
  BY DEF From, To, EndKnown, NoneKnown
<1>3. Unread' = Unread
  <2>1. Unread' = Cells(rxbuf', From', nextFree')
    BY DEF Unread
  <2> QED
    BY <1>1, <1>2, <2>1, CellsKept DEF Unread
<1> QED
  BY <1>2, <1>3 DEF Pointers

\* The interrupt takes a byte from the line.
LEMMA ReceiveKeeps ==
  ASSUME OutputTypeOK, OutputInv, DriverTypeOK, LineTypeOK, LineInv, Receive
  PROVE  LineInv'
<1> SUFFICES ASSUME undisturbed'
             PROVE  LineInv'
  BY DEF LineInv
<1>1. PICK c, rest : c = Head(line) /\ rest = Tail(line) \o Unwritten
  OBVIOUS
<1>2. /\ line # << >> /\ InputByte(c) /\ line' = Tail(line)
      /\ undisturbed' = (undisturbed /\ state' # "RUBBISH" /\ ~(pc = "empty" /\ c = END))
      /\ pending' = pending /\ slipBuf' = slipBuf /\ slipBegin' = slipBegin
  BY <1>1 DEF Receive, outputVars
<1>3. undisturbed /\ state' # "RUBBISH" /\ ~(pc = "empty" /\ c = END)
  BY <1>2 DEF LineTypeOK
<1>4. /\ state # "RUBBISH" /\ Pointers /\ Arriving
      /\ pc # "idle" => pending # << >> /\ out = Head(pending)
  BY <1>3 DEF LineInv
<1>5. begin' = begin /\ pc' = pc /\ out' = out /\ found' = found
  BY <1>2 DEF InputByte
<1>6. Stores(c)
  BY <1>2, <1>3, <1>4 DEF InputByte, RemoveRubbish
<1>7. /\ ~RingFull /\ rxbuf' = [rxbuf EXCEPT ![nextFree] = c]
      /\ c = END => EndOfPacket
      /\ c # END => nextFree' = Succ(nextFree) /\ pktEnd' = pktEnd
  BY <1>2, <1>4, <1>6 DEF InputByte, Stores
<1>8. /\ c \in Bytes /\ Tail(line) \in Seq(Bytes) /\ line = <<c>> \o Tail(line)
      /\ Unwritten \in Seq(Bytes)
  <2>1. line \in Seq(Bytes)
    BY DEF LineTypeOK
  <2>2. slipBuf \in Seq(Bytes) /\ slipBegin \in 0 .. Len(slipBuf)
    BY WithinBuffer DEF OutputTypeOK
  <2>3. Unwritten \in Seq(Bytes)
    BY <2>2, AfterTyped DEF Unwritten
  <2>4. c \in Bytes /\ Tail(line) \in Seq(Bytes)
    BY <1>1, <1>2, <2>1
  <2>5. line = <<c>> \o Tail(line)
    <3>1. PICK n : n = Len(line)
      OBVIOUS
    <3>2. 1 \in 1 .. Len(line) /\ n \in 1 .. Len(line) /\ Len(line) \in Nat
      <4>1. Len(line) \in Nat \ {0}
        BY <1>2, <2>1, EmptySeq
      <4> QED
        BY <3>1, <4>1
    <3>3. SubSeq(line, 1, n) = <<line[1]>> \o SubSeq(line, 1 + 1, n)
      BY <2>1, <3>2, SubSeqRecursiveFirst
    <3>4. SubSeq(line, 1, n) = line
      BY <2>1, <3>1, SubSeqFull
    <3>5. SubSeq(line, 1 + 1, n) = Tail(line)
      <4>1. 1 + 1 = 2
        OBVIOUS
      <4>2. SubSeq(line, 2, n) = Tail(line)
        BY <1>2, <2>1, <3>1, TailIsSubSeq
      <4> QED
        BY <4>1, <4>2, Zenon
    <3>6. c = line[1]
      BY <1>1, <1>2, <2>1
    <3> QED
      BY <3>3, <3>4, <3>5, <3>6, Zenon
  <2> QED
    BY <2>3, <2>4, <2>5
<1>9. Unread \in Seq(Bytes) /\ rest \in Seq(Bytes) /\ <<c>> \in Seq(Bytes)
  <2>1. <<c>> \in Seq(Bytes)
    BY <1>8
  <2> QED
    BY <1>1, <1>8, <2>1, UnreadTyped, ConcatProperties
<1>10. BytesAhead = Unread \o (<<c>> \o rest)
  <2>1. line \o Unwritten = <<c>> \o rest
    BY <1>1, <1>8, <1>9, BytesAssociative
  <2> QED
    BY <2>1 DEF BytesAhead
<1>11. BytesAhead' = Unread' \o rest
  <2>1. Unwritten' = Unwritten
    BY <1>2 DEF Unwritten
  <2> QED
    BY <1>1, <1>2, <2>1 DEF BytesAhead
<1>12. Uncopied' = Uncopied
  BY <1>2, <1>5 DEF Uncopied
<1>13. ASSUME Unread = << >> PROVE BytesAhead = <<c>> \o rest /\ BytesAhead[1] = c
  <2>1. BytesAhead = <<c>> \o rest
    <3>1. <<c>> \o rest \in Seq(Bytes)
      BY <1>9, ConcatProperties
    <3> QED
      BY <1>10, <1>13, <3>1, ConcatEmptySeq
  <2>2. (<<c>> \o rest)[1] = c
    BY <1>9
  <2> QED
    BY <2>1, <2>2
<1>14. ASSUME FirstByteAhead PROVE Unread = << >> /\ c = END /\ begin = pktEnd /\ nextFree = pktEnd
  <2>1. pc = "idle" /\ begin = nextFree /\ BytesAhead = <<END>> \o Stream(pending)
    BY <1>14 DEF FirstByteAhead
  <2>2. From = begin
    BY <2>1 DEF From
  <2>3. Unread = << >>
    BY <2>1, <2>2, UnreadTyped
  <2>4. ~EndKnown
    BY <1>4, <2>3, KnownEnd
  <2>5. begin = pktEnd
    BY <2>1, <2>4 DEF EndKnown
  <2>6. Stream(pending) \in Seq(Bytes) /\ END \in Bytes
    BY PendingTyped, StreamTyped DEF END, Bytes
  <2>7. BytesAhead[1] = END
    BY <2>1, <2>6
  <2> QED
    BY <1>13, <2>1, <2>3, <2>5, <2>7
<1>15. ASSUME Pointers', Unread' = Append(Unread, c), ~FirstByteAhead
       PROVE  LineInv'
  <2>1. Append(Unread, c) = Unread \o <<c>>
    BY <1>8, <1>9, AppendIsConcat
  <2>2. (Unread \o <<c>>) \o rest = Unread \o (<<c>> \o rest)
    BY <1>9, BytesAssociative
  <2>3. BytesAhead' = BytesAhead
    BY <1>10, <1>11, <1>15, <2>1, <2>2
  <2>4. BytesAhead = Stream(Uncopied)
    BY <1>4, <1>15 DEF Arriving
  <2>5. Arriving'
    BY <1>12, <2>3, <2>4 DEF Arriving
  <2> QED
    BY <1>2, <1>3, <1>4, <1>5, <1>15, <2>5 DEF LineInv
<1>16. CASE c # END
  <2>1. Pointers' /\ Unread' = Append(Unread, c)
    BY <1>4, <1>5, <1>7, <1>8, <1>16, StoreKeeps
  <2> QED
    BY <1>14, <1>15, <1>16, <2>1
<1>17. CASE c = END /\ nextFree # pktEnd
  <2>1. /\ nextFree' = Succ(nextFree)
        /\ pktEnd' = IF begin = pktEnd THEN nextFree ELSE pktEnd
    BY <1>7, <1>17 DEF EndOfPacket
  <2>2. pc # "empty" /\ END \in Bytes
    BY <1>3, <1>8, <1>17
  <2>3. Pointers' /\ Unread' = Append(Unread, END)
    BY <1>4, <1>5, <1>7, <1>17, <2>1, <2>2, EndKeeps
  <2> QED
    BY <1>14, <1>15, <1>17, <2>3
<1>18. CASE c = END /\ nextFree = pktEnd
  <2>1. nextFree' = nextFree /\ pktEnd' = pktEnd
    BY <1>7, <1>18 DEF EndOfPacket
  <2>2. Pointers' /\ Unread' = Unread
    BY <1>4, <1>5, <1>7, <1>8, <2>1, DropKeeps
  <2>3. ~EndKnown
    <3>1. pc = "more" => From = nextFree
      BY <1>18 DEF From
    <3>2. pc # "more" => To = nextFree
      BY <1>18 DEF To
    <3> QED
      BY <1>4, <3>1, <3>2, KnownEnd
  <2>4. pc \in {"idle", "deliver", "scan"} /\ (pc # "scan" => begin = pktEnd)
    BY <1>3, <1>18, <2>3 DEF EndKnown, DriverTypeOK
  <2>5. From = nextFree
    BY <1>18, <2>4 DEF From
  <2>6. Unread = << >>
    BY <2>5, UnreadTyped
  <2>7. BytesAhead = <<END>> \o rest /\ BytesAhead[1] = END
    BY <1>13, <1>18, <2>6
  <2>8. BytesAhead # Stream(Uncopied)
    <3>1. Uncopied \in Seq(RealFrames)
      BY <1>4, UncopiedTyped
    <3>2. BytesAhead # << >>
      <4>1. <<END>> \in Seq(Bytes) /\ <<END>> # << >>
        BY <1>9, <1>18
      <4> QED
        BY <1>9, <2>7, <4>1, ConcatSimplifications
    <3> QED
      BY <2>7, <3>1, <3>2, StreamBegins
  <2>9. pc = "idle" /\ BytesAhead = <<END>> \o Stream(pending)
    BY <1>4, <2>8 DEF Arriving, FirstByteAhead
  <2>10. rest = Stream(pending)
    <3>1. Stream(pending) \in Seq(Bytes) /\ <<END>> \in Seq(Bytes)
      BY <1>9, <1>18, PendingTyped, StreamTyped
    <3> QED
      BY <1>9, <2>7, <2>9, <3>1, ConcatSimplifications
  <2>11. BytesAhead' = rest
    BY <1>9, <1>11, <2>2, <2>6, ConcatEmptySeq
  <2>12. Arriving'
    <3>1. Uncopied' = pending
      BY <1>12, <2>9 DEF Uncopied
    <3> QED
      BY <2>10, <2>11, <3>1 DEF Arriving
  <2> QED
    BY <1>2, <1>3, <1>4, <1>5, <2>2, <2>12 DEF LineInv
<1> QED
  BY <1>16, <1>17, <1>18

\* The border router's steps leave the ring alone.
LEMMA SameRing ==
  ASSUME UNCHANGED driverVars
  PROVE  /\ Unread' = Unread /\ (Pointers => Pointers')
         /\ pc' = pc /\ begin' = begin /\ nextFree' = nextFree /\ out' = out /\ state' = state
<1>1. /\ rxbuf' = rxbuf /\ begin' = begin /\ nextFree' = nextFree /\ pktEnd' = pktEnd
      /\ state' = state /\ pc' = pc /\ out' = out /\ found' = found
  BY DEF driverVars
<1>2. From' = From /\ To' = To /\ (EndKnown' <=> EndKnown) /\ (NoneKnown' <=> NoneKnown)
  BY <1>1 DEF From, To, EndKnown, NoneKnown
<1>3. Unread' = Unread
  BY <1>1, <1>2 DEF Unread
<1> QED
  BY <1>1, <1>2, <1>3 DEF Pointers

LEMMA AheadTyped ==
  ASSUME OutputTypeOK, OutputInv, DriverTypeOK, LineTypeOK
  PROVE  /\ Unread \in Seq(Bytes) /\ line \in Seq(Bytes) /\ Unwritten \in Seq(Bytes)
         /\ line \o Unwritten \in Seq(Bytes) /\ BytesAhead \in Seq(Bytes)
<1>1. slipBuf \in Seq(Bytes) /\ slipBegin \in 0 .. Len(slipBuf)
  BY WithinBuffer DEF OutputTypeOK
<1>2. Unwritten \in Seq(Bytes)
  BY <1>1, AfterTyped DEF Unwritten
<1>3. Unread \in Seq(Bytes) /\ line \in Seq(Bytes)
  BY UnreadTyped DEF LineTypeOK
<1>4. line \o Unwritten \in Seq(Bytes)
  BY <1>2, <1>3, ConcatProperties
<1> QED
  BY <1>2, <1>3, <1>4, ConcatProperties DEF BytesAhead

LEMMA LineUnchanged ==
  ASSUME LineInv, UNCHANGED driverVars, line' = line, pending' = pending,
         undisturbed' = undisturbed, Unwritten' = Unwritten
  PROVE  LineInv'
<1>1. SUFFICES ASSUME undisturbed PROVE LineInv'
  BY DEF LineInv
<1>2. /\ Unread' = Unread /\ (Pointers => Pointers')
      /\ pc' = pc /\ begin' = begin /\ nextFree' = nextFree /\ out' = out /\ state' = state
  BY SameRing
<1>3. BytesAhead' = BytesAhead /\ Uncopied' = Uncopied
  BY <1>2 DEF BytesAhead, Uncopied
<1>4. Arriving => Arriving'
  BY <1>2, <1>3 DEF Arriving, FirstByteAhead
<1> QED
  BY <1>1, <1>2, <1>4 DEF LineInv

\* A frame is written.
LEMMA WriteLine ==
  ASSUME OutputTypeOK, OutputInv, DriverTypeOK, LineTypeOK, LineInv,
         NEW frame \in RealFrames, WriteBytes(frame), pending' = Append(pending, frame),
         UNCHANGED driverVars, line' = line, undisturbed' = undisturbed
  PROVE  LineInv'
<1>1. SUFFICES ASSUME undisturbed PROVE LineInv'
  BY DEF LineInv
<1>2. /\ state # "RUBBISH" /\ Pointers /\ Arriving
      /\ pc # "idle" => pending # << >> /\ out = Head(pending)
  BY <1>1 DEF LineInv
<1>3. /\ Unread' = Unread /\ (Pointers => Pointers')
      /\ pc' = pc /\ begin' = begin /\ nextFree' = nextFree /\ out' = out /\ state' = state
  BY SameRing
<1>4. PICK code : code = Encode(frame)
  OBVIOUS
<1>5. code \in Seq(Bytes) /\ pending \in Seq(RealFrames)
  BY <1>4, EncodeTyped, PendingTyped
<1>6. /\ Unread \in Seq(Bytes) /\ line \in Seq(Bytes) /\ Unwritten \in Seq(Bytes)
      /\ line \o Unwritten \in Seq(Bytes)
  BY AheadTyped
<1>7. BytesAhead' = BytesAhead \o code
  <2>1. Unwritten' = Unwritten \o code
    BY <1>4, WriteBytesKeeps
  <2>2. (line \o Unwritten) \o code = line \o (Unwritten \o code)
    <3>1. PICK u : u = Unwritten
      OBVIOUS
    <3>2. u \in Seq(Bytes) /\ line \in Seq(Bytes) /\ code \in Seq(Bytes)
      BY <1>5, <1>6, <3>1
    <3>3. (line \o u) \o code = line \o (u \o code)
      BY <3>2, BytesAssociative
    <3> QED
      BY <3>1, <3>3, Zenon
  <2>3. Unread \o ((line \o Unwritten) \o code) = (Unread \o (line \o Unwritten)) \o code
    <3>1. PICK u, v : u = Unread /\ v = line \o Unwritten
      OBVIOUS
    <3>2. u \in Seq(Bytes) /\ v \in Seq(Bytes) /\ code \in Seq(Bytes)
      BY <1>5, <1>6, <3>1
    <3>3. (u \o v) \o code = u \o (v \o code)
      BY <3>2, BytesAssociative
    <3> QED
      BY <3>1, <3>3, Zenon
  <2>4. BytesAhead' = Unread \o (line \o (Unwritten \o code))
    BY <1>3, <2>1 DEF BytesAhead
  <2> QED
    BY <2>2, <2>3, <2>4 DEF BytesAhead
<1>8. ASSUME pending # << >>
      PROVE  /\ pending' # << >> /\ Head(pending') = Head(pending)
             /\ Tail(pending') = Append(Tail(pending), frame)
  BY <1>5, <1>8, HeadTailAppend, AppendProperties
<1>9. Uncopied' = Append(Uncopied, frame) /\ Uncopied \in Seq(RealFrames)
  <2>1. Uncopied \in Seq(RealFrames)
    BY <1>2, UncopiedTyped
  <2>2. CASE pc \in {"idle", "skip"}
    BY <1>3, <2>1, <2>2 DEF Uncopied
  <2>3. CASE pc \notin {"idle", "skip"}
    <3>1. pending # << >>
      BY <1>2, <2>3
    <3> QED
      BY <1>3, <1>8, <2>1, <2>3, <3>1 DEF Uncopied
  <2> QED
    BY <2>2, <2>3
<1>10. Stream(Uncopied') = Stream(Uncopied) \o code
  BY <1>4, <1>9, StreamAppend
<1>11. ASSUME FirstByteAhead PROVE FirstByteAhead'
  <2>1. pc = "idle" /\ begin = nextFree /\ BytesAhead = <<END>> \o Stream(pending)
    BY <1>11 DEF FirstByteAhead
  <2>2. Stream(pending) \in Seq(Bytes) /\ <<END>> \in Seq(Bytes)
    BY <1>5, StreamTyped DEF END, Bytes
  <2>3. (<<END>> \o Stream(pending)) \o code = <<END>> \o (Stream(pending) \o code)
    BY <1>5, <2>2, BytesAssociative
  <2>4. Stream(pending') = Stream(pending) \o code
    BY <1>4, <1>5, StreamAppend
  <2> QED
    BY <1>3, <1>7, <2>1, <2>3, <2>4 DEF FirstByteAhead
<1>12. Arriving'
  BY <1>2, <1>7, <1>10, <1>11 DEF Arriving
<1> QED
  BY <1>1, <1>2, <1>3, <1>8, <1>12 DEF LineInv

\* Some of it goes to the line.
LEMMA FlushLine ==
  ASSUME OutputTypeOK, OutputInv, DriverTypeOK, LineTypeOK, LineInv,
         NEW n, Flush(n), line' = line \o Flushed(n),
         UNCHANGED driverVars, pending' = pending, undisturbed' = undisturbed
  PROVE  LineInv'
<1>1. SUFFICES ASSUME undisturbed PROVE LineInv'
  BY DEF LineInv
<1>2. /\ Unread' = Unread /\ (Pointers => Pointers')
      /\ pc' = pc /\ begin' = begin /\ nextFree' = nextFree /\ out' = out /\ state' = state
  BY SameRing
<1>3. /\ OutputTypeOK' /\ OutputInv'
      /\ Flushed(n) \in Seq(Bytes) /\ Flushed(n) \o Unwritten' = Unwritten
  BY FlushKeeps
<1>4. Unwritten' \in Seq(Bytes) /\ line \in Seq(Bytes)
  <2>1. slipBuf' \in Seq(Bytes) /\ slipBegin' \in 0 .. Len(slipBuf')
    <3>1. CASE slipBuf' = << >>
      <4>1. Len(slipBuf') = 0 /\ slipBegin' = 0
        BY <1>3, <3>1 DEF OutputInv
      <4> QED
        BY <1>3, <4>1 DEF OutputTypeOK
    <3>2. CASE slipBuf' # << >>
      <4>1. packetEnd' \in 1 .. Len(slipBuf') /\ slipBegin' < packetEnd'
        BY <1>3, <3>2 DEF OutputInv, FirstEnd
      <4> QED
        BY <1>3, <4>1 DEF OutputTypeOK
    <3> QED
      BY <3>1, <3>2
  <2>2. Unwritten' = After(slipBuf', slipBegin')
    BY DEF Unwritten
  <2> QED
    BY <2>1, <2>2, AfterTyped DEF LineTypeOK
<1>5. (line \o Flushed(n)) \o Unwritten' = line \o (Flushed(n) \o Unwritten')
  <2>1. PICK a, u : a = Flushed(n) /\ u = Unwritten'
    OBVIOUS
  <2>2. line \in Seq(Bytes) /\ a \in Seq(Bytes) /\ u \in Seq(Bytes)
    BY <1>3, <1>4, <2>1
  <2>3. (line \o a) \o u = line \o (a \o u)
    BY <2>2, BytesAssociative
  <2> QED
    BY <2>1, <2>3
<1>6. BytesAhead' = BytesAhead /\ Uncopied' = Uncopied
  <2>1. BytesAhead' = Unread' \o (line' \o Unwritten')
    BY DEF BytesAhead
  <2> QED
    BY <1>2, <1>3, <1>5, <2>1 DEF BytesAhead, Uncopied
<1>7. Arriving => Arriving'
  BY <1>2, <1>6 DEF Arriving, FirstByteAhead
<1> QED
  BY <1>1, <1>2, <1>7 DEF LineInv

LEMMA FirstEndConcat ==
  ASSUME NEW s \in Seq(Bytes), NEW t \in Seq(Bytes), NEW k, FirstEnd(s, k)
  PROVE  /\ FirstEnd(s \o t, k)
         /\ SubSeq(s \o t, 1, k - 1) = SubSeq(s, 1, k - 1)
<1>1. PICK n, u : n = Len(s) /\ u = s \o t
  OBVIOUS
<1>2. /\ n \in Nat /\ u \in Seq(Bytes) /\ Len(u) = n + Len(t) /\ Len(t) \in Nat
      /\ \A i \in 1 .. n + Len(t) : u[i] = IF i <= n THEN s[i] ELSE t[i - n]
  BY <1>1, ConcatProperties
<1>3. k \in 1 .. n /\ s[k] = END /\ \A i \in 1 .. k - 1 : s[i] # END
  BY <1>1 DEF FirstEnd
<1>4. ASSUME NEW i \in 1 .. k PROVE i \in 1 .. n + Len(t) /\ u[i] = s[i]
  BY <1>2, <1>3
<1>5. k \in 1 .. k /\ \A i \in 1 .. k - 1 : i \in 1 .. k
  BY <1>3
<1>6. FirstEnd(u, k)
  <2>1. k \in 1 .. Len(u) /\ u[k] = END
    BY <1>2, <1>3, <1>4, <1>5
  <2>2. \A i \in 1 .. k - 1 : u[i] # END
    BY <1>3, <1>4, <1>5
  <2> QED
    BY <2>1, <2>2 DEF FirstEnd
<1>7. SubSeq(u, 1, k - 1) = SubSeq(s, 1, k - 1)
  <2>1. PICK m : m = k - 1
    OBVIOUS
  <2>2. CASE m = 0
    BY <1>3, <2>1, <2>2, SubSeqEmpty
  <2>3. CASE m # 0
    <3>1. m \in 1 .. Len(s) /\ 1 \in 1 .. Len(s)
      BY <1>1, <1>2, <1>3, <2>1, <2>3
    <3> QED
      BY <1>1, <2>1, <3>1, SubSeqOfConcat1
  <2> QED
    BY <2>2, <2>3
<1> QED
  BY <1>1, <1>6, <1>7

\* The packet at the beginning of the ring is the first frame's.
LEMMA PacketAhead ==
  ASSUME OutputTypeOK, OutputInv, DriverTypeOK, LineTypeOK, Pointers, Arriving,
         EndKnown, pc \in {"idle", "skip"}
  PROVE  /\ pending # << >>
         /\ Copied(begin, pktEnd) = Head(pending)
         /\ After(BytesAhead, Apart(begin, pktEnd) + 1) = Stream(Tail(pending))
<1>1. From = begin /\ To = pktEnd
  BY DEF From, To
<1>2. PICK d, k, rest : d = Apart(begin, pktEnd) /\ k = d + 1 /\ rest = line \o Unwritten
  OBVIOUS
<1>3. /\ rxbuf \in [Ring -> Bytes] /\ begin \in Ring /\ pktEnd \in Ring /\ nextFree \in Ring
      /\ d \in Nat /\ k - 1 = d
  <2>1. rxbuf \in [Ring -> Bytes] /\ begin \in Ring /\ pktEnd \in Ring /\ nextFree \in Ring
    BY DEF DriverTypeOK
  <2>2. d \in Nat
    BY <1>2, <2>1, RingArithmetic
  <2> QED
    BY <1>2, <2>1, <2>2
<1>4. /\ begin # nextFree /\ d < Apart(begin, nextFree)
  BY <1>1, <1>2, KnownEnd
<1>5. FirstEnd(Unread, k)
  BY <1>1, <1>2 DEF Pointers
<1>6. Unread \in Seq(Bytes) /\ rest \in Seq(Bytes) /\ pending \in Seq(RealFrames)
  BY <1>2, AheadTyped, PendingTyped
<1>7. BytesAhead = Stream(pending)
  BY <1>4 DEF Arriving, FirstByteAhead, Uncopied
<1>8. BytesAhead = Unread \o rest
  BY <1>2 DEF BytesAhead
<1>9. /\ FirstEnd(Stream(pending), k)
      /\ SubSeq(Stream(pending), 1, k - 1) = SubSeq(Unread, 1, k - 1)
  <2>1. PICK u : u = Unread
    OBVIOUS
  <2>2. u \in Seq(Bytes) /\ rest \in Seq(Bytes) /\ FirstEnd(u, k)
    BY <1>5, <1>6, <2>1
  <2>3. FirstEnd(u \o rest, k) /\ SubSeq(u \o rest, 1, k - 1) = SubSeq(u, 1, k - 1)
    BY <2>2, FirstEndConcat
  <2>4. Stream(pending) = u \o rest
    BY <1>7, <1>8, <2>1
  <2> QED
    BY <2>1, <2>3, <2>4
<1>10. /\ pending # << >>
       /\ SubSeq(Stream(pending), 1, k - 1) = Body(Head(pending))
       /\ SubSeq(Stream(pending), k + 1, Len(Stream(pending))) = Stream(Tail(pending))
  BY <1>6, <1>9, FrameAhead
<1>11. RingBytes(begin, pktEnd) = SubSeq(Unread, 1, k - 1)
  <2>1. RingBytes(begin, pktEnd) = Cells(rxbuf, begin, pktEnd)
    BY <1>3, RingBytesAre
  <2>2. d <= Apart(begin, nextFree)
    <3>1. Apart(begin, nextFree) \in Nat
      BY <1>3, RingArithmetic
    <3> QED
      BY <1>3, <1>4, <3>1
  <2>3. Cells(rxbuf, begin, pktEnd) = SubSeq(Cells(rxbuf, begin, nextFree), 1, d)
    BY <1>2, <1>3, <2>2, CellsUpTo
  <2> QED
    BY <1>1, <1>3, <2>1, <2>3 DEF Unread
<1>12. Copied(begin, pktEnd) = Head(pending)
  <2>1. Head(pending) \in RawFrames
    BY <1>10 DEF LineTypeOK
  <2>2. RingBytes(begin, pktEnd) = Body(Head(pending))
    BY <1>9, <1>10, <1>11
  <2> QED
    BY <1>3, <2>1, <2>2, FrameCopied
<1>13. After(BytesAhead, k) = Stream(Tail(pending))
  BY <1>7, <1>10 DEF After
<1> QED
  BY <1>2, <1>10, <1>12, <1>13

LEMMA CopyLine ==
  ASSUME OutputTypeOK, OutputInv, DriverTypeOK, LineTypeOK, LineInv, PollCopy,
         Unwritten' = Unwritten, line' = line, pending' = pending, undisturbed' = undisturbed
  PROVE  LineInv'
<1>1. SUFFICES ASSUME undisturbed PROVE LineInv'
  BY DEF LineInv
<1>2. state # "RUBBISH" /\ Pointers /\ Arriving
  BY <1>1 DEF LineInv
<1>3. /\ pc = "idle" /\ rxbuf' = rxbuf /\ begin' = begin /\ nextFree' = nextFree
      /\ pktEnd' = pktEnd /\ state' = state /\ found' = found
      /\ IF begin # pktEnd
         THEN out' = Copied(begin, pktEnd) /\ pc' = "skip"
         ELSE out' = out /\ pc' = pc
  BY DEF PollCopy
<1>4. From' = From /\ To' = To /\ (EndKnown' <=> EndKnown) /\ (NoneKnown' <=> NoneKnown)
  BY <1>3 DEF From, To, EndKnown, NoneKnown
<1>5. Unread' = Unread
  BY <1>3, <1>4 DEF Unread
<1>6. Pointers'
  BY <1>2, <1>3, <1>4, <1>5 DEF Pointers
<1>7. BytesAhead' = BytesAhead /\ Uncopied' = Uncopied
  BY <1>3, <1>5 DEF BytesAhead, Uncopied
<1>8. CASE begin # pktEnd
  <2>1. EndKnown
    BY <1>3, <1>8 DEF EndKnown
  <2>2. pending # << >> /\ Copied(begin, pktEnd) = Head(pending)
    BY <1>2, <1>3, <2>1, PacketAhead
  <2>3. From = begin /\ From # nextFree
    BY <1>2, <1>3, <2>1, KnownEnd DEF From
  <2>4. Arriving'
    BY <1>2, <1>7, <2>3 DEF Arriving, FirstByteAhead
  <2> QED
    BY <1>1, <1>2, <1>3, <1>6, <1>8, <2>2, <2>4 DEF LineInv
<1>9. CASE begin = pktEnd
  <2>1. pc' = "idle"
    BY <1>3, <1>9
  <2>2. Arriving'
    BY <1>2, <1>3, <1>7, <2>1 DEF Arriving, FirstByteAhead
  <2> QED
    BY <1>1, <1>2, <1>3, <1>6, <2>1, <2>2 DEF LineInv
<1> QED
  BY <1>8, <1>9

LEMMA SkipLine ==
  ASSUME OutputTypeOK, OutputInv, DriverTypeOK, LineTypeOK, LineInv, PollSkip,
         Unwritten' = Unwritten, line' = line, pending' = pending, undisturbed' = undisturbed
  PROVE  LineInv'
<1>1. SUFFICES ASSUME undisturbed PROVE LineInv'
  BY DEF LineInv
<1>2. /\ pc = "skip" /\ pc' = "scan" /\ pktEnd' = Succ(pktEnd)
      /\ rxbuf' = rxbuf /\ begin' = begin /\ nextFree' = nextFree
      /\ state' = state /\ out' = out /\ found' = found
  BY DEF PollSkip
<1>3. /\ state # "RUBBISH" /\ Pointers /\ Arriving
      /\ pending # << >> /\ out = Head(pending)
  BY <1>1, <1>2 DEF LineInv
<1>4. EndKnown /\ From = begin /\ To = pktEnd
  BY <1>2 DEF EndKnown, From, To
<1>5. /\ rxbuf \in [Ring -> Bytes] /\ begin \in Ring /\ pktEnd \in Ring /\ nextFree \in Ring
  BY DEF DriverTypeOK
<1>6. PICK d, rest : d = Apart(begin, pktEnd) /\ rest = line \o Unwritten
  OBVIOUS
<1>7. /\ d < Apart(begin, nextFree) /\ d \in Nat /\ Apart(begin, nextFree) \in Nat
  BY <1>3, <1>4, <1>5, <1>6, KnownEnd, RingArithmetic
<1>8. From' = pktEnd' /\ ~EndKnown' /\ ~NoneKnown'
  BY <1>2 DEF From, EndKnown, NoneKnown
<1>9. Succ(pktEnd) # begin /\ Apart(begin, Succ(pktEnd)) = d + 1
  BY <1>5, <1>6, <1>7, ApartAre
<1>10. Pointers'
  <2>1. d + 1 <= Apart(begin, nextFree)
    BY <1>7
  <2>2. pc' # "begin"
    BY <1>2
  <2> QED
    BY <1>2, <1>8, <1>9, <2>1, <2>2 DEF Pointers
<1>11. Unread' = After(Unread, d + 1)
  <2>1. Cells(rxbuf, Succ(pktEnd), nextFree) = After(Cells(rxbuf, begin, nextFree), d + 1)
    BY <1>5, <1>6, <1>7, CellsBehind
  <2>2. Unread' = Cells(rxbuf', From', nextFree')
    BY DEF Unread
  <2> QED
    BY <1>2, <1>4, <1>8, <2>1, <2>2 DEF Unread
<1>12. BytesAhead' = After(BytesAhead, d + 1)
  <2>1. Unread \in Seq(Bytes) /\ rest \in Seq(Bytes) /\ Len(Unread) = Apart(begin, nextFree)
    BY <1>4, <1>6, AheadTyped, UnreadTyped
  <2>2. PICK m : m = d + 1
    OBVIOUS
  <2>3. m \in 0 .. Len(Unread)
    BY <1>7, <2>1, <2>2
  <2>4. After(Unread \o rest, m) = After(Unread, m) \o rest
    BY <2>1, <2>3, AfterConcat
  <2>5. BytesAhead' = Unread' \o (line' \o Unwritten')
    BY DEF BytesAhead
  <2> QED
    BY <1>6, <1>11, <2>2, <2>4, <2>5 DEF BytesAhead
<1>13. After(BytesAhead, d + 1) = Stream(Tail(pending))
  BY <1>2, <1>3, <1>4, <1>6, PacketAhead
<1>14. Arriving'
  <2>1. Uncopied' = Tail(pending)
    BY <1>2 DEF Uncopied
  <2> QED
    BY <1>12, <1>13, <2>1 DEF Arriving
<1> QED
  BY <1>1, <1>2, <1>3, <1>10, <1>14 DEF LineInv

LEMMA ScanLine ==
  ASSUME OutputTypeOK, OutputInv, DriverTypeOK, LineTypeOK, LineInv, PollScan,
         Unwritten' = Unwritten, line' = line, pending' = pending, undisturbed' = undisturbed
  PROVE  LineInv'
<1>1. SUFFICES ASSUME undisturbed PROVE LineInv'
  BY DEF LineInv
<1> DEFINE ends == {k \in Between(pktEnd, nextFree) : rxbuf[k] = END}
<1>2. /\ pc = "scan" /\ pktEnd' = pktEnd /\ rxbuf' = rxbuf /\ begin' = begin
      /\ nextFree' = nextFree /\ state' = state /\ out' = out
      /\ IF ends = {}
         THEN pc' = "empty" /\ found' = found
         ELSE /\ found' \in ends
              /\ \A k \in ends : Distance(pktEnd, found') <= Distance(pktEnd, k)
              /\ pc' = "more"
  BY DEF PollScan
<1>3. /\ state # "RUBBISH" /\ Pointers /\ Arriving
      /\ pending # << >> /\ out = Head(pending)
  BY <1>1, <1>2 DEF LineInv
<1>4. From = pktEnd /\ From' = pktEnd /\ pc' \in {"empty", "more"}
  BY <1>2 DEF From
<1>5. rxbuf \in [Ring -> Bytes] /\ begin \in Ring /\ pktEnd \in Ring /\ nextFree \in Ring
  BY DEF DriverTypeOK
<1>6. Unread' = Unread
  <2>1. Unread' = Cells(rxbuf', From', nextFree')
    BY DEF Unread
  <2> QED
    BY <1>2, <1>4, <2>1 DEF Unread
<1>7. PICK s, n : s = Unread /\ n = Apart(pktEnd, nextFree)
  OBVIOUS
<1>8. /\ s \in Seq(Bytes) /\ Len(s) = n /\ n \in Nat /\ n \in 0 .. RxSize - 1
      /\ \A i \in 1 .. n : s[i] = rxbuf[CellAt(pktEnd, i - 1)]
  BY <1>4, <1>5, <1>7, CellsTyped DEF Unread
\* The cells that are searched are those of s.
<1>9. ASSUME NEW i \in 1 .. n, s[i] = END
      PROVE  \E k \in ends : Apart(pktEnd, k) = i - 1 /\ k \in Ring
  <2>1. PICK m : m = i - 1
    OBVIOUS
  <2>2. m \in 0 .. RxSize - 1 /\ m < n /\ m \in Nat
    BY <1>8, <2>1, RxSizeAssumption
  <2>3. PICK k : k = CellAt(pktEnd, m)
    OBVIOUS
  <2>4. k \in Ring /\ Apart(pktEnd, k) = m
    BY <1>5, <2>2, <2>3, RingArithmetic
  <2>5. Distance(pktEnd, k) = m /\ Distance(pktEnd, nextFree) = n
    BY <1>5, <1>7, <2>4, RingArithmetic
  <2>6. k \in Between(pktEnd, nextFree)
    BY <2>2, <2>4, <2>5 DEF Between
  <2>7. rxbuf[k] = END
    BY <1>8, <1>9, <2>1, <2>3
  <2> QED
    BY <2>1, <2>4, <2>6, <2>7
<1>10. ASSUME NEW k \in ends
       PROVE  /\ k \in Ring /\ Distance(pktEnd, k) = Apart(pktEnd, k)
              /\ Apart(pktEnd, k) \in Nat /\ Apart(pktEnd, k) + 1 \in 1 .. n
              /\ s[Apart(pktEnd, k) + 1] = END
  <2>1. k \in Ring /\ Distance(pktEnd, k) < Distance(pktEnd, nextFree) /\ rxbuf[k] = END
    BY DEF Between
  <2>2. PICK m : m = Apart(pktEnd, k)
    OBVIOUS
  <2>3. /\ Distance(pktEnd, k) = m /\ Distance(pktEnd, nextFree) = n
        /\ m \in Nat /\ CellAt(pktEnd, m) = k
    BY <1>5, <1>7, <2>1, <2>2, RingArithmetic
  <2>4. m + 1 \in 1 .. n /\ (m + 1) - 1 = m
    BY <1>8, <2>1, <2>3
  <2>5. s[m + 1] = rxbuf[CellAt(pktEnd, (m + 1) - 1)]
    BY <1>8, <2>4
  <2> QED
    BY <2>1, <2>2, <2>3, <2>4, <2>5
<1>11. Uncopied' = Uncopied /\ Uncopied = Tail(pending)
  BY <1>2, <1>4 DEF Uncopied
<1>12. BytesAhead' = BytesAhead
  BY <1>6 DEF BytesAhead
<1>13. BytesAhead = Stream(Uncopied)
  BY <1>2, <1>3 DEF Arriving, FirstByteAhead
<1>14. Arriving'
  BY <1>11, <1>12, <1>13 DEF Arriving
<1> HIDE DEF ends
<1>15. CASE ends = {}
  <2>1. pc' = "empty" /\ found' = found
    BY <1>2, <1>15
  <2>2. NoEnd(Unread')
    BY <1>6, <1>7, <1>8, <1>9, <1>15 DEF NoEnd
  <2>3. ~EndKnown'
    BY <2>1 DEF EndKnown
  <2>4. Pointers'
    BY <1>2, <1>3, <1>4, <2>1, <2>2, <2>3 DEF Pointers
  <2> QED
    BY <1>1, <1>2, <1>3, <1>14, <2>1, <2>4 DEF LineInv
<1>16. CASE ends # {}
  <2>1. /\ pc' = "more" /\ found' \in ends
        /\ \A k \in ends : Distance(pktEnd, found') <= Distance(pktEnd, k)
    BY <1>2, <1>16
  <2>2. PICK e, m : e = found' /\ m = Apart(pktEnd, e)
    OBVIOUS
  <2>3. m \in Nat /\ m + 1 \in 1 .. n /\ s[m + 1] = END /\ Distance(pktEnd, e) = m
    BY <1>10, <2>1, <2>2
  <2>4. ASSUME NEW i \in 1 .. m + 1 - 1 PROVE s[i] # END
    <3>1. i \in 1 .. n /\ i - 1 < m
      BY <1>8, <2>3
    <3>2. SUFFICES ASSUME s[i] = END PROVE FALSE
      OBVIOUS
    <3>3. PICK k \in ends : Apart(pktEnd, k) = i - 1 /\ k \in Ring
      BY <1>9, <3>1, <3>2
    <3>4. Distance(pktEnd, k) = i - 1
      BY <1>10, <3>3
    <3>5. m <= i - 1
      BY <2>1, <2>2, <2>3, <3>4
    <3> QED
      BY <2>3, <3>1, <3>5
  <2>5. FirstEnd(s, m + 1)
    BY <1>8, <2>3, <2>4 DEF FirstEnd
  <2>6. pktEnd # e
    <3>1. SUFFICES ASSUME pktEnd = e PROVE FALSE
      OBVIOUS
    <3>2. m = 0
      BY <1>5, <2>2, <3>1, ApartAre
    <3>3. s[1] = END /\ 1 \in 1 .. n
      BY <2>3, <3>2
    <3>4. PICK rest : rest = line \o Unwritten
      OBVIOUS
    <3>5. rest \in Seq(Bytes) /\ BytesAhead = s \o rest /\ BytesAhead \in Seq(Bytes)
      BY <1>7, <3>4, AheadTyped DEF BytesAhead
    <3>6. BytesAhead[1] = END /\ BytesAhead # << >>
      <4>1. FirstEnd(s \o rest, m + 1)
        BY <1>8, <2>5, <3>5, FirstEndConcat
      <4>2. 1 \in 1 .. Len(BytesAhead) /\ BytesAhead[1] = END
        BY <3>2, <3>5, <4>1 DEF FirstEnd
      <4> QED
        BY <3>5, <4>2, EmptySeq
    <3>7. Uncopied \in Seq(RealFrames)
      BY <1>3, UncopiedTyped
    <3> QED
      BY <1>13, <3>6, <3>7, StreamBegins
  <2>7. To' = e
    BY <2>1, <2>2 DEF To
  <2>8. ~NoneKnown' /\ pc' # "begin"
    BY <2>1 DEF NoneKnown
  <2>9. begin # pktEnd /\ Apart(begin, pktEnd) <= Apart(begin, nextFree)
    BY <1>2, <1>3, <1>4 DEF Pointers
  <2>10. FirstEnd(Unread', Apart(From', To') + 1) /\ From' # To'
    BY <1>4, <1>6, <1>7, <2>2, <2>5, <2>6, <2>7
  <2>11. Pointers'
    BY <1>2, <1>4, <2>8, <2>9, <2>10 DEF Pointers
  <2> QED
    BY <1>1, <1>2, <1>3, <1>14, <2>1, <2>11 DEF LineInv
<1> QED
  BY <1>15, <1>16

\* What slip_process goes on with does not change.
LEMMA MovesLine ==
  ASSUME OutputTypeOK, OutputInv, DriverTypeOK, LineTypeOK, LineInv,
         PollMore \/ PollEmpty,
         Unwritten' = Unwritten, line' = line, pending' = pending, undisturbed' = undisturbed
  PROVE  LineInv'
<1>1. SUFFICES ASSUME undisturbed PROVE LineInv'
  BY DEF LineInv
<1>2. /\ pc \in {"more", "begin", "empty"} /\ pc' \in {"begin", "deliver"}
      /\ rxbuf' = rxbuf /\ nextFree' = nextFree /\ state' = state /\ out' = out
  BY DEF PollMore, PollEmpty
<1>3. /\ state # "RUBBISH" /\ Pointers /\ Arriving
      /\ pending # << >> /\ out = Head(pending)
  BY <1>1, <1>2 DEF LineInv
<1>4. /\ begin \in Ring /\ pktEnd \in Ring /\ nextFree \in Ring /\ found \in Ring
      /\ From \in Ring
  BY UnreadTyped DEF DriverTypeOK
<1>5. From' = From /\ (EndKnown' => EndKnown /\ To' = To) /\ (NoneKnown' => NoneKnown)
  <2>1. CASE PollMore /\ pc = "more"
    BY <2>1 DEF PollMore, From, To, EndKnown, NoneKnown
  <2>2. CASE PollMore /\ pc = "begin"
    <3>1. EndKnown /\ From = found /\ To = pktEnd
      BY <2>2 DEF EndKnown, From, To
    <3>2. found # pktEnd
      BY <1>3, <3>1 DEF Pointers
    <3> QED
      BY <2>2, <3>1, <3>2 DEF PollMore, From, To, EndKnown, NoneKnown
  <2>3. CASE PollEmpty
    BY <2>3 DEF PollEmpty, From, EndKnown, NoneKnown
  <2> QED
    BY <2>1, <2>2, <2>3 DEF PollMore
<1>6. Unread' = Unread
  BY <1>2, <1>5 DEF Unread
<1>7. BytesAhead' = BytesAhead /\ Uncopied' = Uncopied
  <2>1. BytesAhead' = BytesAhead
    BY <1>6 DEF BytesAhead
  <2>2. Uncopied' = Uncopied
    BY <1>2 DEF Uncopied
  <2> QED
    BY <2>1, <2>2
<1>8. Arriving'
  BY <1>2, <1>3, <1>7 DEF Arriving, FirstByteAhead
<1>9. Apart(begin, From) <= Apart(begin, nextFree)
  BY <1>3 DEF Pointers
<1>10. pc' = "deliver" => begin' = From'
  BY <1>2 DEF PollMore, PollEmpty, From
<1>11. Apart(begin', From') <= Apart(begin', nextFree')
  <2>1. CASE pc' = "begin"
    <3>1. begin' = begin
      BY <2>1 DEF PollMore, PollEmpty
    <3> QED
      BY <1>2, <1>5, <1>9, <3>1
  <2>2. CASE pc' = "deliver"
    <3>1. Apart(From, From) = 0 /\ Apart(From, nextFree) \in Nat
      BY <1>4, ApartAre, RingArithmetic
    <3> QED
      BY <1>2, <1>5, <1>10, <2>2, <3>1
  <2> QED
    BY <1>2, <2>1, <2>2
<1>12. pc' = "begin" => begin' # pktEnd' /\ begin' # found'
  <2>1. SUFFICES ASSUME pc' = "begin" PROVE begin' # pktEnd' /\ begin' # found'
    OBVIOUS
  <2>2. pc = "more" /\ begin' = begin /\ pktEnd' = found /\ found' = pktEnd
    BY <2>1 DEF PollMore, PollEmpty
  <2>3. begin # pktEnd /\ From = pktEnd /\ To = found /\ EndKnown
    BY <1>3, <2>2 DEF Pointers, From, To, EndKnown
  <2>4. Apart(pktEnd, found) < Apart(pktEnd, nextFree)
    BY <1>3, <2>3, KnownEnd
  <2>5. Apart(begin, pktEnd) <= Apart(begin, nextFree)
    BY <1>9, <2>3
  <2>6. begin # found
    BY <1>4, <2>3, <2>4, <2>5, RxSizeAssumption DEF Apart, Ring
  <2> QED
    BY <2>2, <2>3, <2>6
<1>13. NoneKnown' => NoEnd(Unread')
  BY <1>3, <1>5, <1>6 DEF Pointers
<1>14. EndKnown' => From' # To' /\ FirstEnd(Unread', Apart(From', To') + 1)
  BY <1>3, <1>5, <1>6 DEF Pointers
<1>15. Pointers'
  <2>1. pc' \in {"skip", "scan", "more", "begin", "empty"} => pc' = "begin"
    BY <1>2
  <2> QED
    BY <1>11, <1>12, <1>13, <1>14, <2>1 DEF Pointers
<1> QED
  BY <1>1, <1>2, <1>3, <1>8, <1>15 DEF LineInv

LEMMA DeliverLine ==
  ASSUME OutputTypeOK, OutputInv, DriverTypeOK, LineTypeOK, LineInv, Deliver,
         pending' = IF out = << >> \/ pending = << >> THEN pending ELSE Tail(pending),
         Unwritten' = Unwritten, line' = line, undisturbed' = undisturbed
  PROVE  LineInv'
<1>1. SUFFICES ASSUME undisturbed PROVE LineInv'
  BY DEF LineInv
<1>2. /\ pc = "deliver" /\ pc' = "idle" /\ rxbuf' = rxbuf /\ begin' = begin
      /\ nextFree' = nextFree /\ pktEnd' = pktEnd /\ state' = state /\ found' = found
  BY DEF Deliver
<1>3. /\ state # "RUBBISH" /\ Pointers /\ Arriving
      /\ pending # << >> /\ out = Head(pending)
  BY <1>1, <1>2 DEF LineInv
<1>4. From' = From /\ To' = To /\ (EndKnown' <=> EndKnown) /\ (NoneKnown' <=> NoneKnown)
  BY <1>2 DEF From, To, EndKnown, NoneKnown
<1>5. Unread' = Unread
  BY <1>2, <1>4 DEF Unread
<1>6. Pointers'
  BY <1>2, <1>3, <1>4, <1>5 DEF Pointers
<1>7. pending' = Tail(pending)
  <2>1. Head(pending) \in RealFrames
    BY <1>3, PendingTyped, StreamCons
  <2>2. out # << >>
    BY <1>3, <2>1 DEF RealFrames
  <2> QED
    BY <1>3, <2>2
<1>8. BytesAhead' = BytesAhead /\ Uncopied' = Uncopied
  BY <1>2, <1>5, <1>7 DEF BytesAhead, Uncopied
<1>9. Arriving'
  BY <1>2, <1>3, <1>8 DEF Arriving, FirstByteAhead
<1> QED
  BY <1>1, <1>2, <1>3, <1>6, <1>9 DEF LineInv

-----------------------------------------------------------------------------
(* The invariant of the line.                                              *)

SerialInv == SerialTypeOK /\ OutputInv /\ LineInv

LEMMA SerialInitInv == SerialInit => SerialInv
<1> SUFFICES ASSUME SerialInit PROVE SerialInv
  OBVIOUS
<1>1. OutputInit /\ DriverInit /\ line = << >> /\ pending = << >> /\ undisturbed = TRUE
  BY DEF SerialInit
<1>2. OutputTypeOK /\ OutputInv /\ Unwritten = <<END>> /\ DriverTypeOK
  BY <1>1, OutputInitOk, DriverInitTyped
<1>3. LineTypeOK
  <2>1. << >> \in Seq(Bytes) /\ << >> \in Seq(RawFrames) /\ Len(<< >>) = 0
    BY EmptySeq
  <2> QED
    BY <1>1, <2>1, LineBytesAssumption, MaxInFlightAssumption DEF LineTypeOK
<1>4. state = "OK" /\ pc = "idle" /\ begin = 0 /\ nextFree = 0 /\ pktEnd = 0
  BY <1>1 DEF DriverInit
<1>5. From = nextFree /\ Unread = << >> /\ Len(Unread) = 0
  <2>1. From = nextFree
    BY <1>4 DEF From
  <2> QED
    BY <1>2, <2>1, UnreadTyped, EmptySeq
<1>6. Pointers
  <2>1. ~EndKnown /\ NoEnd(Unread) /\ From = begin
    BY <1>4, <1>5 DEF EndKnown, NoEnd
  <2>2. Apart(begin, From) <= Apart(begin, nextFree)
    <3>1. Apart(0, 0) = 0
      BY DEF Apart
    <3> QED
      BY <1>4, <2>1, <3>1
  <2> QED
    BY <1>4, <2>1, <2>2 DEF Pointers
<1>7. Arriving
  <2>1. <<END>> \in Seq(Bytes)
    BY DEF END, Bytes
  <2>2. BytesAhead = <<END>>
    <3>1. line \o Unwritten = <<END>>
      BY <1>1, <1>2, <2>1, ConcatEmptySeq
    <3> QED
      BY <1>5, <2>1, <3>1, ConcatEmptySeq DEF BytesAhead
  <2>3. <<END>> \o Stream(pending) = <<END>>
    BY <1>1, <2>1, StreamNone, ConcatEmptySeq
  <2> QED
    BY <1>4, <2>2, <2>3 DEF Arriving, FirstByteAhead
<1> QED
  BY <1>2, <1>3, <1>4, <1>6, <1>7, SerialTypes DEF SerialInv, LineInv

LEMMA SerialStep == SerialInv /\ [SerialNext]_serialVars => SerialInv'
<1> SUFFICES ASSUME SerialInv, [SerialNext]_serialVars PROVE SerialInv'
  OBVIOUS
<1>1. OutputTypeOK /\ DriverTypeOK /\ LineTypeOK /\ OutputInv /\ LineInv
  BY SerialTypes DEF SerialInv
<1>2. SUFFICES OutputTypeOK' /\ DriverTypeOK' /\ LineTypeOK' /\ OutputInv' /\ LineInv'
  BY SerialTypes DEF SerialTypeOK, OutputTypeOK, DriverTypeOK, LineTypeOK, SerialInv
\* Steps that leave one side alone.
<1>3. ASSUME UNCHANGED outputVars
      PROVE  OutputTypeOK' /\ OutputInv' /\ Unwritten' = Unwritten
  BY <1>1, <1>3 DEF outputVars, OutputTypeOK, OutputInv, Unwritten
<1>4. ASSUME UNCHANGED driverVars PROVE DriverTypeOK'
  BY <1>1, <1>4 DEF driverVars, DriverTypeOK
<1>5. ASSUME NEW frame \in RawFrames, Write(frame)
      PROVE  OutputTypeOK' /\ DriverTypeOK' /\ LineTypeOK' /\ OutputInv' /\ LineInv'
  <2>1. /\ frame \in RealFrames /\ UNCHANGED driverVars /\ line' = line
        /\ undisturbed' = undisturbed
    BY <1>5, FramesAreReal DEF Write
  <2>2. CASE WriteBytes(frame) /\ pending' = Append(pending, frame)
    <3>1. LineTypeOK'
      <4>1. Len(pending) < MaxInFlight /\ pending \in Seq(RawFrames)
        BY <1>1, <1>5 DEF Write, LineTypeOK
      <4>2. pending' \in Seq(RawFrames) /\ Len(pending') = Len(pending) + 1
        BY <2>2, <4>1, AppendProperties
      <4>3. Len(pending') <= MaxInFlight
        BY <4>1, <4>2, MaxInFlightAssumption
      <4> QED
        BY <1>1, <2>1, <4>2, <4>3 DEF LineTypeOK
    <3>2. LineInv'
      BY <1>1, <2>1, <2>2, WriteLine
    <3> QED
      BY <1>1, <1>4, <2>1, <2>2, <3>1, <3>2, WriteBytesKeeps
  <2>3. CASE Overflow(frame) /\ pending' = pending
    <3>1. /\ slipBuf' = slipBuf /\ slipBegin' = slipBegin /\ packetEnd' = packetEnd
          /\ packetCount' = packetCount /\ exited' = TRUE
      BY <2>3 DEF Overflow
    <3>2. OutputTypeOK' /\ OutputInv' /\ Unwritten' = Unwritten
      BY <1>1, <3>1 DEF OutputTypeOK, OutputInv, Unwritten
    <3>3. LineTypeOK' /\ LineInv'
      BY <1>1, <2>1, <2>3, <3>2, LineUnchanged DEF LineTypeOK
    <3> QED
      BY <1>4, <2>1, <3>2, <3>3
  <2> QED
    BY <1>5, <2>2, <2>3 DEF Write
<1>6. ASSUME FlushBuf
      PROVE  OutputTypeOK' /\ DriverTypeOK' /\ LineTypeOK' /\ OutputInv' /\ LineInv'
  <2>1. PICK n \in 1 .. LineBytes - Len(line) : Flush(n) /\ line' = line \o Flushed(n)
    BY <1>6 DEF FlushBuf
  <2>2. UNCHANGED driverVars /\ pending' = pending /\ undisturbed' = undisturbed
    BY <1>6 DEF FlushBuf
  <2>3. /\ OutputTypeOK' /\ OutputInv'
        /\ n \in Nat /\ Flushed(n) \in Seq(Bytes) /\ Len(Flushed(n)) = n
    BY <1>1, <2>1, FlushKeeps
  <2>4. LineInv'
    BY <1>1, <2>1, <2>2, FlushLine
  <2>5. LineTypeOK'
    <3>1. line \in Seq(Bytes) /\ Len(line) \in Nat
      BY <1>1 DEF LineTypeOK
    <3>2. line' \in Seq(Bytes) /\ Len(line') = Len(line) + n
      BY <2>1, <2>3, <3>1, ConcatProperties
    <3>3. Len(line') <= LineBytes
      BY <2>1, <3>1, <3>2, LineBytesAssumption
    <3> QED
      BY <1>1, <2>2, <3>2, <3>3 DEF LineTypeOK
  <2> QED
    BY <1>4, <2>2, <2>3, <2>4, <2>5
<1>7. ASSUME Receive
      PROVE  OutputTypeOK' /\ DriverTypeOK' /\ LineTypeOK' /\ OutputInv' /\ LineInv'
  <2>1. /\ line # << >> /\ InputByte(Head(line)) /\ line' = Tail(line)
        /\ pending' = pending /\ UNCHANGED outputVars
        /\ undisturbed' \in BOOLEAN
    BY <1>7 DEF Receive
  <2>2. /\ Head(line) \in Bytes /\ line' \in Seq(Bytes) /\ Len(line') = Len(line) - 1
        /\ Len(line) \in Nat
    <3>1. line \in Seq(Bytes)
      BY <1>1 DEF LineTypeOK
    <3> QED
      BY <2>1, <3>1, HeadTailProperties
  <2>3. LineTypeOK'
    <3>1. Len(line') <= LineBytes
      BY <1>1, <2>2, LineBytesAssumption DEF LineTypeOK
    <3> QED
      BY <1>1, <2>1, <2>2, <3>1 DEF LineTypeOK
  <2> QED
    BY <1>1, <1>3, <1>7, <2>1, <2>2, <2>3, InputTyped, ReceiveKeeps
<1>8. ASSUME SlipProcess
      PROVE  OutputTypeOK' /\ DriverTypeOK' /\ LineTypeOK' /\ OutputInv' /\ LineInv'
  <2>1. UNCHANGED outputVars /\ line' = line /\ undisturbed' = undisturbed
    BY <1>8 DEF SlipProcess
  <2>2. OutputTypeOK' /\ OutputInv' /\ Unwritten' = Unwritten
    BY <1>3, <2>1
  <2>3. CASE PollHandler /\ pending' = pending
    <3>1. LineTypeOK'
      BY <1>1, <2>1, <2>3 DEF LineTypeOK
    <3>2. LineInv'
      BY <1>1, <2>1, <2>2, <2>3, CopyLine, SkipLine, ScanLine, MovesLine DEF PollHandler
    <3> QED
      BY <1>1, <2>2, <2>3, <3>1, <3>2, HandlerTyped
  <2>4. CASE /\ Deliver
             /\ pending' = IF out = << >> \/ pending = << >> THEN pending ELSE Tail(pending)
    <3>1. LineTypeOK'
      <4>1. pending \in Seq(RawFrames) /\ Len(pending) <= MaxInFlight
        BY <1>1 DEF LineTypeOK
      <4>2. pending' \in Seq(RawFrames) /\ Len(pending') <= MaxInFlight
        <5>1. CASE out = << >> \/ pending = << >>
          BY <2>4, <4>1, <5>1
        <5>2. CASE ~(out = << >> \/ pending = << >>)
          <6>1. pending' = Tail(pending) /\ pending # << >>
            BY <2>4, <5>2
          <6>2. /\ Tail(pending) \in Seq(RawFrames) /\ Len(Tail(pending)) = Len(pending) - 1
                /\ Len(pending) \in Nat
            BY <4>1, <6>1, HeadTailProperties
          <6> QED
            BY <4>1, <6>1, <6>2, MaxInFlightAssumption
        <5> QED
          BY <5>1, <5>2
      <4> QED
        BY <1>1, <2>1, <4>2 DEF LineTypeOK
    <3>2. LineInv'
      BY <1>1, <2>1, <2>2, <2>4, DeliverLine
    <3> QED
      BY <1>1, <2>2, <2>4, <3>1, <3>2, HandlerTyped
  <2> QED
    BY <1>8, <2>3, <2>4 DEF SlipProcess
<1>9. ASSUME UNCHANGED serialVars
      PROVE  OutputTypeOK' /\ DriverTypeOK' /\ LineTypeOK' /\ OutputInv' /\ LineInv'
  <2>1. /\ UNCHANGED outputVars /\ UNCHANGED driverVars /\ line' = line /\ pending' = pending
        /\ undisturbed' = undisturbed
    BY <1>9 DEF serialVars
  <2>2. OutputTypeOK' /\ OutputInv' /\ Unwritten' = Unwritten
    BY <1>3, <2>1
  <2>3. LineTypeOK' /\ LineInv'
    BY <1>1, <2>1, <2>2, LineUnchanged DEF LineTypeOK
  <2> QED
    BY <1>4, <2>1, <2>2, <2>3
<1> QED
  BY <1>5, <1>6, <1>7, <1>8, <1>9 DEF SerialNext

THEOREM SerialInvariant == SerialSpec => []SerialInv
<1> QED
  BY SerialInitInv, SerialStep, PTL DEF SerialSpec

\* slip-dev.c's bookkeeping of what it still has to write is right, whatever
\* the frames, the size of slip_buf and what write() takes: slip_packet_end is
\* the next SLIP_END, none is forgotten, and slip_packet_count counts them.
THEOREM BookkeepingSound == SerialSpec => []OutputSound
<1>1. SerialInv => OutputSound
  <2>1. SUFFICES ASSUME SerialInv PROVE OutputSound
    OBVIOUS
  <2>2. SerialTypeOK /\ OutputTypeOK /\ OutputInv
    BY <2>1, SerialTypes DEF SerialInv
  <2>3. packetCount = Cardinality({k \in 1 .. Len(slipBuf) : slipBuf[k] = END})
    BY <2>2 DEF OutputInv, EndsOf
  <2>4. packetEnd = NextEnd(slipBuf, slipBegin + 1)
    <3>1. CASE slipBuf = << >>
      <4>1. packetEnd = 0 /\ slipBegin + 1 \in Nat \ {0} /\ slipBegin = 0
        BY <2>2, <3>1 DEF OutputInv
      <4>2. slipBuf \in Seq(Bytes) /\ Len(slipBuf) = 0
        BY <2>2, <3>1 DEF OutputTypeOK
      <4>3. ~(NextEnd(slipBuf, slipBegin + 1) \in slipBegin + 1 .. Len(slipBuf))
        BY <4>1, <4>2
      <4> QED
        BY <4>1, <4>2, <4>3, NextEndIs
    <3>2. CASE slipBuf # << >>
      <4>1. FirstEnd(slipBuf, packetEnd) /\ slipBegin < packetEnd
        BY <2>2, <3>2 DEF OutputInv
      <4>2. slipBuf \in Seq(Bytes) /\ slipBegin + 1 \in 1 .. packetEnd
        BY <2>2, <4>1, BufSizeAssumption DEF OutputTypeOK
      <4> QED
        BY <4>1, <4>2, NextEndFirst
    <3> QED
      BY <3>1, <3>2
  <2>5. packetEnd = 0 => slipBuf = << >>
    <3>1. slipBuf # << >> => packetEnd \in 1 .. Len(slipBuf)
      BY <2>2 DEF OutputInv, FirstEnd
    <3> QED
      BY <3>1
  <2> QED
    BY <2>2, <2>3, <2>4, <2>5 DEF OutputSound, NextEnd
<1> QED
  BY <1>1, SerialInvariant, PTL

\* The frames that slip_poll_handler() gives to input_callback() are those
\* that were written, byte for byte and in their order, until a byte is
\* discarded or a SLIP_END comes after its last look at the ring.
THEOREM FramesArriveInOrder == SerialSpec => []FramesInOrder
<1>1. SerialInv => FramesInOrder
  BY DEF SerialInv, LineInv, FramesInOrder
<1> QED
  BY <1>1, SerialInvariant, PTL

\* Until then slip_input_byte() neither writes to the packet that
\* slip_poll_handler() may be copying nor moves its ends, however the steps of
\* the two interleave.
THEOREM PacketsStayIntact == SerialSpec => PacketIntact
<1> DEFINE Intact ==
      undisturbed /\ begin # pktEnd /\ pc \in {"idle", "skip"} /\ UNCHANGED pc =>
        /\ begin' = begin /\ pktEnd' = pktEnd
        /\ \A k \in Between(begin, pktEnd) : rxbuf'[k] = rxbuf[k]
<1>1. ASSUME SerialInv, [SerialNext]_serialVars PROVE [Intact]_serialVars
  <2>1. OutputTypeOK /\ DriverTypeOK /\ LineTypeOK /\ OutputInv /\ LineInv
    BY <1>1, SerialTypes DEF SerialInv
  <2>2. SUFFICES ASSUME SerialNext, undisturbed, begin # pktEnd, pc \in {"idle", "skip"},
                        UNCHANGED pc
                 PROVE  /\ begin' = begin /\ pktEnd' = pktEnd
                        /\ \A k \in Between(begin, pktEnd) : rxbuf'[k] = rxbuf[k]
    BY <1>1
  <2>3. state # "RUBBISH" /\ Pointers /\ EndKnown
    BY <2>1, <2>2 DEF LineInv, EndKnown
  <2>4. ~SlipProcess
    BY <2>2 DEF SlipProcess, PollHandler, PollCopy, PollSkip, PollScan, PollMore, PollEmpty, Deliver
  <2>5. CASE UNCHANGED driverVars
    BY <2>5 DEF driverVars
  <2>6. CASE Receive
    <3>1. InputByte(Head(line)) /\ begin' = begin
      BY <2>6 DEF Receive, InputByte
    <3>2. /\ pktEnd' = pktEnd
          /\ rxbuf' = rxbuf \/ rxbuf' = [rxbuf EXCEPT ![nextFree] = Head(line)]
      BY <2>2, <2>3, <3>1 DEF InputByte, RemoveRubbish, EndOfPacket
    <3>3. nextFree \notin Between(begin, pktEnd)
      <4>1. From = begin /\ To = pktEnd
        BY <2>2 DEF From, To
      <4>2. Apart(begin, pktEnd) < Apart(begin, nextFree)
        BY <2>1, <2>3, <4>1, KnownEnd
      <4>3. /\ begin \in Ring /\ pktEnd \in Ring /\ nextFree \in Ring
        BY <2>1 DEF DriverTypeOK
      <4>4. /\ Distance(begin, pktEnd) = Apart(begin, pktEnd) /\ Apart(begin, pktEnd) \in Nat
            /\ Distance(begin, nextFree) = Apart(begin, nextFree)
            /\ Apart(begin, nextFree) \in Nat
        BY <4>3, RingArithmetic
      <4> QED
        BY <4>2, <4>4 DEF Between
    <3>4. ASSUME NEW k \in Between(begin, pktEnd) PROVE rxbuf'[k] = rxbuf[k]
      BY <2>1, <3>2, <3>3 DEF DriverTypeOK, Between
    <3> QED
      BY <3>1, <3>2, <3>4
  <2> QED
    BY <2>2, <2>4, <2>5, <2>6 DEF SerialNext, Write, FlushBuf
<1> QED
  BY <1>1, SerialInvariant, PTL DEF SerialSpec, PacketIntact
=============================================================================
