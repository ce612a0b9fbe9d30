----------------------------- MODULE Lists_proofs -----------------------------
(***************************************************************************)
(* Theorems about the components that keep linked lists, for lists of any  *)
(* length: callback timers (Timers) and reassembly behind the list of      *)
(* sequence numbers (Reassembly).                                          *)
(*                                                                         *)
(* Inv adds to the soundness of the lists of timers what becomes of one    *)
(* that waits for its callback when it is unlinked: it is due, and its     *)
(* event is in the queue.  ReassInv says what each context has counted,    *)
(* OnceInv in addition which fragments the list of sequence numbers knows  *)
(* of: whatever could come again is its sender's last.                     *)
(***************************************************************************)
EXTENDS Timers, Reassembly, FiniteSetTheorems, WellFoundedInduction, TLAPS

-----------------------------------------------------------------------------
(* What the functions on lists return, for lists of any length.  Kept is a *)
(* recursive function: that it is one, and what it returns, is proved by   *)
(* looking at the shortest prefix that would be an exception.              *)

LEMMA LeastOf ==
  ASSUME NEW S \in SUBSET Nat, S # {}
  PROVE  \E x \in S : \A y \in S : x <= y
<1>1. PICK x \in S : \A y \in S : ~ (<<y, x>> \in OpToRel(<, Nat))
  BY WFMin, NatLessThanWellFounded, Zenon
<1>2. x \in Nat /\ \A y \in S : y \in Nat
  OBVIOUS
<1>3. \A y \in S : ~ (y < x)
  BY <1>1, <1>2, Zenon DEF OpToRel
<1> QED
  BY <1>2, <1>3

\* One step of Kept, on what is kept so far.
KeptWith(before, c, items) == IF c \in items THEN Append(before, c) ELSE before

\* f is the function that Kept recurs on, for the first n elements of the list.
Keeps(f, list, items, n) ==
  f = [k \in 0 .. n |-> IF k = 0 THEN << >> ELSE KeptWith(f[k - 1], list[k], items)]

LEMMA KeepsExists ==
  ASSUME NEW list, NEW items, NEW n \in Nat
  PROVE  \E f : Keeps(f, list, items, n)
<1> DEFINE bad == {m \in Nat : ~ \E f : Keeps(f, list, items, m)}
<1>1. SUFFICES ASSUME bad # {} PROVE FALSE
  OBVIOUS
<1>2. PICK m \in bad : \A k \in bad : m <= k
  BY <1>1, LeastOf
<1>3. m \in Nat /\ ~ \E f : Keeps(f, list, items, m)
  OBVIOUS
<1>4. CASE m = 0
  <2>1. Keeps([k \in 0 .. m |-> << >>], list, items, m)
    BY <1>4 DEF Keeps
  <2> QED
    BY <1>3, <2>1
<1>5. CASE m # 0
  <2>1. m - 1 \in Nat /\ m - 1 \notin bad
    BY <1>2, <1>3, <1>5
  <2>2. PICK f : Keeps(f, list, items, m - 1)
    BY <2>1
  <2> DEFINE g == [k \in 0 .. m |-> IF k = m THEN KeptWith(f[m - 1], list[m], items) ELSE f[k]]
  <2>3. \A k \in 0 .. m - 1 : g[k] = f[k]
    BY <1>3
  <2>4. \A k \in 0 .. m - 1 : f[k] = IF k = 0 THEN << >> ELSE KeptWith(f[k - 1], list[k], items)
    BY <2>2 DEF Keeps
  <2>5. g[m] = KeptWith(f[m - 1], list[m], items)
    BY <1>3
  <2>6. ASSUME NEW k \in 0 .. m
        PROVE  g[k] = IF k = 0 THEN << >> ELSE KeptWith(g[k - 1], list[k], items)
    <3> HIDE DEF g
    <3>1. CASE k = m
      BY <1>3, <1>5, <2>3, <2>5, <3>1
    <3>2. CASE k # m
      <4>1. k \in 0 .. m - 1 /\ (k # 0 => k - 1 \in 0 .. m - 1)
        BY <1>3, <3>2
      <4> QED
        BY <2>3, <2>4, <4>1
    <3> QED
      BY <3>1, <3>2
  <2>7. g = [k \in 0 .. m |-> g[k]]
    OBVIOUS
  <2> HIDE DEF g
  <2>8. Keeps(g, list, items, m)
    BY <2>6, <2>7 DEF Keeps
  <2> QED
    BY <1>3, <2>8
<1> QED
  BY <1>4, <1>5

LEMMA KeptIs ==
  ASSUME NEW list, NEW items, Len(list) \in Nat
  PROVE  \E f : Keeps(f, list, items, Len(list)) /\ Kept(list, items) = f[Len(list)]
<1>1. PICK f : f = CHOOSE g : Keeps(g, list, items, Len(list))
  OBVIOUS
<1>2. Keeps(f, list, items, Len(list))
  BY <1>1, KeepsExists
<1>3. Kept(list, items) = f[Len(list)]
  BY <1>1 DEF Kept, Keeps, KeptWith
<1> QED
  BY <1>2, <1>3

-----------------------------------------------------------------------------

\* What is kept of the first k elements.
KeptSoFar(list, items, S, k, kept) ==
  /\ kept \in Seq(S) /\ Len(kept) <= k
  /\ \A j \in 1 .. Len(kept) : kept[j] \in items /\ \E i \in 1 .. k : list[i] = kept[j]
  /\ \A i \in 1 .. k : list[i] \in items => \E j \in 1 .. Len(kept) : kept[j] = list[i]
  /\ NoRepetition(list) => NoRepetition(kept)

LEMMA KeptWithIs ==
  ASSUME NEW S, NEW list \in Seq(S), NEW items, NEW k \in Nat, k < Len(list), NEW kept,
         KeptSoFar(list, items, S, k, kept)
  PROVE  KeptSoFar(list, items, S, k + 1, KeptWith(kept, list[k + 1], items))
<1>1. /\ kept \in Seq(S) /\ Len(kept) \in Nat /\ Len(kept) <= k
      /\ k + 1 \in 1 .. Len(list) /\ list[k + 1] \in S
  BY DEF KeptSoFar
<1>2. CASE list[k + 1] \notin items
  <2>1. KeptWith(kept, list[k + 1], items) = kept
    BY <1>2 DEF KeptWith
  <2>2. \A i \in 1 .. k + 1 : list[i] \in items => i \in 1 .. k
    BY <1>1, <1>2
  <2> QED
    BY <1>1, <2>1, <2>2 DEF KeptSoFar
<1>3. CASE list[k + 1] \in items
  <2>1. PICK more : more = Append(kept, list[k + 1])
    OBVIOUS
  <2>2. KeptWith(kept, list[k + 1], items) = more
    BY <1>3, <2>1 DEF KeptWith
  <2>3. /\ more \in Seq(S) /\ Len(more) = Len(kept) + 1
        /\ more[Len(kept) + 1] = list[k + 1]
        /\ \A j \in 1 .. Len(kept) : more[j] = kept[j]
    BY <1>1, <2>1
  <2>4. \A j \in 1 .. Len(more) : j \in 1 .. Len(kept) \/ j = Len(kept) + 1
    BY <1>1, <2>3
  <2>5. ASSUME NEW j \in 1 .. Len(more)
        PROVE  more[j] \in items /\ \E i \in 1 .. k + 1 : list[i] = more[j]
    <3>1. CASE j \in 1 .. Len(kept)
      <4>1. PICK i \in 1 .. k : list[i] = kept[j]
        BY <3>1 DEF KeptSoFar
      <4> QED
        BY <2>3, <3>1, <4>1 DEF KeptSoFar
    <3>2. CASE j = Len(kept) + 1
      BY <1>1, <1>3, <2>3, <3>2
    <3> QED
      BY <2>4, <3>1, <3>2
  <2>6. ASSUME NEW i \in 1 .. k + 1, list[i] \in items
        PROVE  \E j \in 1 .. Len(more) : more[j] = list[i]
    <3>1. CASE i \in 1 .. k
      <4>1. PICK j \in 1 .. Len(kept) : kept[j] = list[i]
        BY <2>6, <3>1 DEF KeptSoFar
      <4> QED
        BY <1>1, <2>3, <4>1
    <3>2. CASE i = k + 1
      BY <1>1, <2>3, <3>2
    <3> QED
      BY <3>1, <3>2
  <2>7. ASSUME NoRepetition(list) PROVE NoRepetition(more)
    <3>1. ASSUME NEW j \in 1 .. Len(kept) PROVE kept[j] # list[k + 1]
      <4>1. PICK i \in 1 .. k : list[i] = kept[j]
        BY DEF KeptSoFar
      <4> QED
        BY <1>1, <2>7, <4>1 DEF NoRepetition
    <3>2. \A i, j \in 1 .. Len(kept) : kept[i] = kept[j] => i = j
      BY <2>7 DEF KeptSoFar, NoRepetition
    <3> QED
      BY <2>3, <2>4, <3>1, <3>2 DEF NoRepetition
  <2>8. Len(more) <= k + 1
    BY <1>1, <2>3
  <2> QED
    BY <2>2, <2>3, <2>5, <2>6, <2>7, <2>8 DEF KeptSoFar
<1> QED
  BY <1>2, <1>3

\* What is kept of a list are those of its elements that are among the items, in a
\* list that is no longer and repeats nothing if the list does not.
LEMMA KeptOnly ==
  ASSUME NEW S, NEW list \in Seq(S), NEW items
  PROVE  /\ Kept(list, items) \in Seq(S)
         /\ Len(Kept(list, items)) <= Len(list)
         /\ \A c : OnList(c, Kept(list, items)) <=> OnList(c, list) /\ c \in items
         /\ NoRepetition(list) => NoRepetition(Kept(list, items))
<1>1. PICK f : Keeps(f, list, items, Len(list)) /\ Kept(list, items) = f[Len(list)]
  BY KeptIs
<1>2. Len(list) \in Nat /\ f[0] = << >>
      /\ \A k \in 1 .. Len(list) : f[k] = KeptWith(f[k - 1], list[k], items)
  BY <1>1 DEF Keeps
<1> DEFINE bad == {k \in 0 .. Len(list) : ~KeptSoFar(list, items, S, k, f[k])}
<1>3. ASSUME bad # {} PROVE FALSE
  <2>1. PICK m \in bad : \A k \in bad : m <= k
    <3>1. bad \in SUBSET Nat
      BY <1>2
    <3> QED
      BY <1>3, <3>1, LeastOf
  <2>2. m \in 0 .. Len(list) /\ ~KeptSoFar(list, items, S, m, f[m])
    OBVIOUS
  <2>3. CASE m = 0
    <3>1. << >> \in Seq(S) /\ Len(<< >>) = 0
      OBVIOUS
    <3>2. KeptSoFar(list, items, S, 0, << >>)
      BY <3>1 DEF KeptSoFar, NoRepetition
    <3> QED
      BY <1>2, <2>2, <2>3, <3>2
  <2>4. CASE m # 0
    <3>1. PICK k \in Nat : k + 1 = m /\ k < Len(list) /\ k \in 0 .. Len(list)
      <4>1. m - 1 \in Nat /\ m - 1 + 1 = m /\ m - 1 < Len(list) /\ m - 1 \in 0 .. Len(list)
        BY <1>2, <2>2, <2>4
      <4> QED
        BY <4>1
    <3>2. k \notin bad
      BY <1>2, <2>1, <2>2, <3>1
    <3>3. KeptSoFar(list, items, S, k, f[k])
      BY <3>1, <3>2
    <3>4. f[m] = KeptWith(f[k], list[k + 1], items)
      BY <1>2, <2>2, <3>1
    <3> QED
      BY <2>2, <3>1, <3>3, <3>4, KeptWithIs
  <2> QED
    BY <2>3, <2>4
<1>4. KeptSoFar(list, items, S, Len(list), Kept(list, items))
  BY <1>1, <1>2, <1>3
<1> QED
  BY <1>4 DEF KeptSoFar, OnList

\* A list without c.
LEMMA RemoveFromIs ==
  ASSUME NEW S, NEW list \in Seq(S), NEW c, NoRepetition(list)
  PROVE  /\ RemoveFrom(list, c) \in Seq(S)
         /\ Len(RemoveFrom(list, c)) <= Len(list)
         /\ \A d : OnList(d, RemoveFrom(list, c)) <=> OnList(d, list) /\ d # c
         /\ NoRepetition(RemoveFrom(list, c))
<1>1. CASE ~OnList(c, list)
  BY <1>1 DEF RemoveFrom, OnList
<1>2. CASE OnList(c, list)
  <2>1. PICK n : n = Len(list)
    OBVIOUS
  <2>2. n \in Nat /\ n > 0 /\ \A j \in 1 .. n : list[j] \in S
    BY <1>2, <2>1 DEF OnList
  <2>3. \A i, j \in 1 .. n : list[i] = list[j] => i = j
    BY <2>1 DEF NoRepetition
  <2>4. PICK k : k = CHOOSE i \in 1 .. n : list[i] = c /\ \A j \in 1 .. i - 1 : list[j] # c
    OBVIOUS
  <2>5. k \in 1 .. n /\ list[k] = c
    <3>1. PICK i \in 1 .. n : list[i] = c
      BY <1>2, <2>1 DEF OnList
    <3>2. \A j \in 1 .. i - 1 : list[j] # c
      BY <2>2, <2>3, <3>1
    <3> QED
      BY <2>4, <3>1, <3>2
  <2>6. PICK rest : rest = [j \in 1 .. n - 1 |-> IF j < k THEN list[j] ELSE list[j + 1]]
    OBVIOUS
  <2>7. RemoveFrom(list, c) = rest
    BY <1>2, <2>1, <2>4, <2>6 DEF RemoveFrom
  <2>8. /\ rest \in Seq(S) /\ Len(rest) = n - 1
        /\ \A j \in 1 .. n - 1 : rest[j] = IF j < k THEN list[j] ELSE list[j + 1]
    BY <2>2, <2>6
  <2>9. \A i, j \in 1 .. n - 1 : rest[i] = rest[j] => i = j
    BY <2>2, <2>3, <2>5, <2>8
  <2>10. ASSUME NEW d
         PROVE  OnList(d, rest) <=> OnList(d, list) /\ d # c
    <3>1. ASSUME NEW j \in 1 .. n - 1, rest[j] = d
          PROVE  OnList(d, list) /\ d # c
      <4>1. CASE j < k
        BY <2>1, <2>2, <2>3, <2>5, <2>8, <3>1, <4>1 DEF OnList
      <4>2. CASE ~(j < k)
        <5>1. j + 1 \in 1 .. n /\ list[j + 1] = d /\ j + 1 # k
          BY <2>2, <2>5, <2>8, <3>1, <4>2
        <5> QED
          BY <2>1, <2>3, <2>5, <5>1 DEF OnList
      <4> QED
        BY <4>1, <4>2
    <3>2. ASSUME NEW i \in 1 .. n, list[i] = d, d # c
          PROVE  \E j \in 1 .. n - 1 : rest[j] = d
      <4>1. CASE i < k
        BY <2>2, <2>5, <2>8, <3>2, <4>1
      <4>2. CASE i > k
        <5>1. i - 1 \in 1 .. n - 1 /\ ~(i - 1 < k) /\ (i - 1) + 1 = i
          BY <2>2, <2>5, <4>2
        <5> QED
          BY <2>8, <3>2, <5>1
      <4> QED
        BY <2>2, <2>5, <3>2, <4>1, <4>2
    <3> QED
      BY <2>1, <2>8, <3>1, <3>2 DEF OnList
  <2> QED
    BY <2>1, <2>2, <2>7, <2>8, <2>9, <2>10 DEF NoRepetition
<1> QED
  BY <1>1, <1>2

LEMMA AppendIs ==
  ASSUME NEW S, NEW list \in Seq(S), NEW c \in S
  PROVE  /\ Append(list, c) \in Seq(S) /\ Len(Append(list, c)) = Len(list) + 1
         /\ \A d : OnList(d, Append(list, c)) <=> OnList(d, list) \/ d = c
         /\ NoRepetition(list) /\ ~OnList(c, list) => NoRepetition(Append(list, c))
<1>1. PICK more : more = Append(list, c)
  OBVIOUS
<1>2. /\ more \in Seq(S) /\ Len(more) = Len(list) + 1 /\ more[Len(list) + 1] = c
      /\ \A j \in 1 .. Len(list) : more[j] = list[j]
      /\ Len(list) \in Nat
  BY <1>1
<1>3. \A j \in 1 .. Len(more) : j \in 1 .. Len(list) \/ j = Len(list) + 1
  BY <1>2
<1>4. \A d : OnList(d, more) <=> OnList(d, list) \/ d = c
  BY <1>2, <1>3 DEF OnList
<1>5. NoRepetition(list) /\ ~OnList(c, list) => NoRepetition(more)
  BY <1>2, <1>3 DEF OnList, NoRepetition
<1> QED
  BY <1>1, <1>2, <1>4, <1>5

LEMMA ListAddIs ==
  ASSUME NEW S, NEW list \in Seq(S), NEW c \in S, NoRepetition(list)
  PROVE  /\ ListAdd(list, c) \in Seq(S)
         /\ \A d : OnList(d, ListAdd(list, c)) <=> OnList(d, list) \/ d = c
         /\ NoRepetition(ListAdd(list, c))
<1>1. PICK rest \in Seq(S) :
        /\ rest = RemoveFrom(list, c)
        /\ \A d : OnList(d, rest) <=> OnList(d, list) /\ d # c
        /\ NoRepetition(rest)
  BY RemoveFromIs
<1>2. /\ Append(rest, c) \in Seq(S)
      /\ \A d : OnList(d, Append(rest, c)) <=> OnList(d, rest) \/ d = c
      /\ NoRepetition(rest) /\ ~OnList(c, rest) => NoRepetition(Append(rest, c))
  BY AppendIs
<1> QED
  BY <1>1, <1>2 DEF ListAdd

LEMMA ConsIs ==
  ASSUME NEW S, NEW list \in Seq(S), NEW c \in S
  PROVE  /\ <<c>> \o list \in Seq(S)
         /\ \A d : OnList(d, <<c>> \o list) <=> OnList(d, list) \/ d = c
         /\ NoRepetition(list) /\ ~OnList(c, list) => NoRepetition(<<c>> \o list)
<1>1. PICK more : more = <<c>> \o list
  OBVIOUS
<1>2. /\ more \in Seq(S) /\ Len(more) = Len(list) + 1 /\ more[1] = c
      /\ \A j \in 1 .. Len(list) : more[j + 1] = list[j]
      /\ Len(list) \in Nat
  BY <1>1
<1>3. ASSUME NEW j \in 1 .. Len(more)
      PROVE  j = 1 \/ \E i \in 1 .. Len(list) : j = i + 1
  <2>1. j # 1 => j - 1 \in 1 .. Len(list) /\ j = j - 1 + 1
    BY <1>2
  <2> QED
    BY <2>1
<1>4. \A j \in 1 .. Len(list) : j + 1 \in 1 .. Len(more)
  BY <1>2
<1>5. 1 \in 1 .. Len(more)
  BY <1>2
<1>6. ASSUME NEW d PROVE OnList(d, more) <=> OnList(d, list) \/ d = c
  <2>1. ASSUME OnList(d, more) PROVE OnList(d, list) \/ d = c
    <3>1. PICK j \in 1 .. Len(more) : more[j] = d
      BY <2>1 DEF OnList
    <3> QED
      BY <1>2, <1>3, <3>1 DEF OnList
  <2>2. OnList(d, list) => OnList(d, more)
    BY <1>2, <1>4 DEF OnList
  <2>3. OnList(c, more)
    BY <1>2, <1>5 DEF OnList
  <2> QED
    BY <2>1, <2>2, <2>3
<1>7. ASSUME NoRepetition(list), ~OnList(c, list) PROVE NoRepetition(more)
  <2> SUFFICES ASSUME NEW i \in 1 .. Len(more), NEW j \in 1 .. Len(more), more[i] = more[j]
               PROVE  i = j
    BY DEF NoRepetition
  <2>1. ASSUME NEW k \in 1 .. Len(list) PROVE more[k + 1] # more[1]
    BY <1>2, <1>7 DEF OnList
  <2>2. CASE i = 1 \/ j = 1
    BY <1>3, <2>1, <2>2
  <2>3. CASE i # 1 /\ j # 1
    <3>1. PICK k \in 1 .. Len(list), l \in 1 .. Len(list) : i = k + 1 /\ j = l + 1
      BY <1>3, <2>3
    <3>2. k = l
      BY <1>2, <1>7, <3>1 DEF NoRepetition
    <3> QED
      BY <3>1, <3>2
  <2> QED
    BY <2>2, <2>3
<1> QED
  BY <1>1, <1>2, <1>6, <1>7

\* The list without its first element.
LEMMA TailIs ==
  ASSUME NEW S, NEW list \in Seq(S), list # << >>
  PROVE  /\ Tail(list) \in Seq(S) /\ Len(Tail(list)) = Len(list) - 1 /\ Head(list) \in S
         /\ OnList(Head(list), list)
         /\ \A d : OnList(d, Tail(list)) => OnList(d, list)
         /\ \A d : OnList(d, list) => OnList(d, Tail(list)) \/ d = Head(list)
         /\ NoRepetition(list) => NoRepetition(Tail(list)) /\ ~OnList(Head(list), Tail(list))
<1>1. PICK rest : rest = Tail(list)
  OBVIOUS
<1>2. /\ rest \in Seq(S) /\ Len(rest) = Len(list) - 1 /\ Head(list) = list[1] /\ list[1] \in S
      /\ \A j \in 1 .. Len(rest) : rest[j] = list[j + 1]
      /\ Len(list) \in Nat /\ Len(list) >= 1
  BY <1>1
<1>3. \A j \in 1 .. Len(rest) : j + 1 \in 1 .. Len(list) /\ j + 1 # 1
  BY <1>2
<1>4. 1 \in 1 .. Len(list)
  BY <1>2
<1>5. \A j \in 1 .. Len(list) : j = 1 \/ \E i \in 1 .. Len(rest) : j = i + 1
  <2> SUFFICES ASSUME NEW j \in 1 .. Len(list), j # 1
               PROVE  \E i \in 1 .. Len(rest) : j = i + 1
    OBVIOUS
  <2>1. j - 1 \in 1 .. Len(rest) /\ j = j - 1 + 1
    BY <1>2
  <2> QED
    BY <2>1
<1>6. \A d : OnList(d, rest) => OnList(d, list)
  BY <1>2, <1>3 DEF OnList
<1>7. \A d : OnList(d, list) => OnList(d, rest) \/ d = list[1]
  BY <1>2, <1>5 DEF OnList
<1>8. ASSUME NoRepetition(list) PROVE NoRepetition(rest) /\ ~OnList(list[1], rest)
  <2>1. ASSUME NEW i \in 1 .. Len(rest), NEW j \in 1 .. Len(rest), rest[i] = rest[j] PROVE i = j
    <3>1. i + 1 = j + 1
      BY <1>2, <1>3, <1>8, <2>1 DEF NoRepetition
    <3> QED
      BY <3>1
  <2>2. ~OnList(list[1], rest)
    BY <1>2, <1>3, <1>4, <1>8 DEF OnList, NoRepetition
  <2> QED
    BY <2>1, <2>2 DEF NoRepetition
<1> QED
  BY <1>1, <1>2, <1>4, <1>6, <1>7, <1>8 DEF OnList

LEMMA EmptyIs ==
  ASSUME NEW S
  PROVE  /\ << >> \in Seq(S) /\ Len(<< >>) = 0
         /\ \A d : ~OnList(d, << >>)
         /\ NoRepetition(<< >>)
  BY DEF OnList, NoRepetition

LEMMA MembersAre ==
  ASSUME NEW list, NEW c PROVE c \in Members(list) <=> OnList(c, list)
  BY DEF Members, OnList

LEMMA ConcatIs ==
  ASSUME NEW S, NEW first \in Seq(S), NEW second \in Seq(S)
  PROVE  /\ first \o second \in Seq(S) /\ Len(first \o second) = Len(first) + Len(second)
         /\ \A d : OnList(d, first) \/ OnList(d, second) => OnList(d, first \o second)
<1>1. PICK both : both = first \o second
  OBVIOUS
<1>2. /\ both \in Seq(S) /\ Len(both) = Len(first) + Len(second)
      /\ \A j \in 1 .. Len(first) : both[j] = first[j]
      /\ \A j \in 1 .. Len(second) : both[Len(first) + j] = second[j]
      /\ Len(first) \in Nat /\ Len(second) \in Nat
  BY <1>1
<1>3. \A j \in 1 .. Len(first) : j \in 1 .. Len(both)
  BY <1>2
<1>4. \A j \in 1 .. Len(second) : Len(first) + j \in 1 .. Len(both)
  BY <1>2
<1> QED
  BY <1>1, <1>2, <1>3, <1>4 DEF OnList

\* The first elements of a list.
LEMMA SubSeqIs ==
  ASSUME NEW S, NEW list \in Seq(S), NEW n \in Nat, n <= Len(list)
  PROVE  /\ SubSeq(list, 1, n) \in Seq(S) /\ Len(SubSeq(list, 1, n)) = n
         /\ \A d : OnList(d, SubSeq(list, 1, n)) => OnList(d, list)
<1>1. PICK first : first = SubSeq(list, 1, n)
  OBVIOUS
<1>2. Len(list) \in Nat /\ \A j \in 1 .. n : j \in 1 .. Len(list) /\ list[j] \in S
  OBVIOUS
<1>3. /\ first \in Seq(S) /\ Len(first) = n
      /\ \A j \in 1 .. n : first[j] = list[j]
  BY <1>1, <1>2
<1> QED
  BY <1>1, <1>2, <1>3 DEF OnList

-----------------------------------------------------------------------------
(* The invariant.                                                          *)

Linked ==
  /\ left \in [Timers -> Int] /\ interval \in [Timers -> Intervals \union {0}]
  /\ owned \in [Timers -> BOOLEAN]
  /\ timerlist \in Seq(Timers) /\ NoRepetition(timerlist)
  /\ \A c \in Timers : owned[c] <=> OnList(c, timerlist)

\* ctimer_list is cl, the event queue ev, the list of event timers running, and
\* rest is what is left of each.
Waiting(cl, ev, running, rest) ==
  /\ cl \in Seq(Timers) /\ NoRepetition(cl)
  /\ ev \in Seq(Timers \union {Other}) /\ Len(ev) <= NumEvents
  /\ \A c \in Timers :
       OnList(c, cl) /\ ~OnList(c, running) => rest[c] <= 0 /\ OnList(c, ev)

Loop == poll \in BOOLEAN /\ pc \in {"poll", "event", "select"}

Inv == Linked /\ Waiting(ctimerList, events, timerlist, left) /\ Loop

LEMMA InvImplies ==
  ASSUME Inv PROVE ListsSound /\ ArmedIsPending /\ NeverEarly
<1>1. TypeOK
  BY DEF Inv, Linked, Waiting, Loop, TypeOK
<1> QED
  BY <1>1 DEF Inv, Linked, Waiting, ListsSound, ArmedIsPending, NeverEarly, CallsNext

LEMMA InitInv ==
  ASSUME Init PROVE Inv
<1>1. Linked
  BY EmptyIs DEF Init, Linked
<1>2. Waiting(ctimerList, events, timerlist, left)
  <2>1. ctimerList = << >> /\ events = << >> /\ 0 <= NumEvents
    BY NumEventsAssumption DEF Init
  <2> QED
    BY <2>1, EmptyIs DEF Waiting
<1>3. Loop
  BY DEF Init, Loop
<1> QED
  BY <1>1, <1>2, <1>3 DEF Inv

-----------------------------------------------------------------------------
(* The calls of ctimer.c.                                                  *)

LEMMA StartKeeps ==
  ASSUME Linked, NEW cl, NEW ev, Waiting(cl, ev, timerlist, left), NEW c \in Timers, NEW remaining \in Int,
         Start(c, remaining, cl), interval' \in [Timers -> Intervals \union {0}]
  PROVE  Linked' /\ Waiting(ctimerList', ev, timerlist', left')
<1>1. /\ left' = [left EXCEPT ![c] = remaining]
      /\ timerlist' = AddTimer(c)
      /\ owned' = [owned EXCEPT ![c] = TRUE]
      /\ ctimerList' = ListAdd(cl, c)
  BY DEF Start
<1>2. /\ timerlist' \in Seq(Timers) /\ NoRepetition(timerlist')
      /\ \A d : OnList(d, timerlist') <=> OnList(d, timerlist) \/ d = c
  <2>1. CASE OnList(c, timerlist)
    BY <1>1, <2>1 DEF AddTimer, Linked
  <2>2. CASE ~OnList(c, timerlist)
    <3>1. timerlist' = <<c>> \o timerlist
      BY <1>1, <2>2 DEF AddTimer
    <3> QED
      BY <2>2, <3>1, ConsIs DEF Linked
  <2> QED
    BY <2>1, <2>2
<1>3. /\ left' \in [Timers -> Int] /\ owned' \in [Timers -> BOOLEAN]
      /\ owned'[c] /\ \A d \in Timers \ {c} : owned'[d] = owned[d] /\ left'[d] = left[d]
  BY <1>1 DEF Linked
<1>4. \A d \in Timers : owned'[d] <=> OnList(d, timerlist')
  BY <1>2, <1>3 DEF Linked
<1>5. Linked'
  BY <1>2, <1>3, <1>4 DEF Linked
<1>6. /\ ctimerList' \in Seq(Timers) /\ NoRepetition(ctimerList')
      /\ \A d : OnList(d, ctimerList') <=> OnList(d, cl) \/ d = c
  BY <1>1, ListAddIs DEF Waiting
<1>7. \A d \in Timers :
        OnList(d, ctimerList') /\ ~OnList(d, timerlist') => left'[d] <= 0 /\ OnList(d, ev)
  BY <1>2, <1>3, <1>6 DEF Waiting
<1> QED
  BY <1>5, <1>6, <1>7 DEF Waiting

\* The calls that start a timer.
LEMMA SetKeeps ==
  ASSUME Linked, NEW cl, NEW ev, Waiting(cl, ev, timerlist, left), NEW c \in Timers,
         \/ \E t \in Intervals : CtimerSet(c, t, cl)
         \/ CtimerRestart(c, cl)
         \/ CtimerReset(c, cl)
  PROVE  Linked' /\ Waiting(ctimerList', ev, timerlist', left')
<1>1. \A t \in Intervals \union {0} : t \in Int
  BY IntervalsAssumption
<1>2. interval \in [Timers -> Intervals \union {0}] /\ left[c] \in Int /\ interval[c] \in Int
  BY <1>1 DEF Linked
<1>3. ASSUME NEW t \in Intervals, CtimerSet(c, t, cl) PROVE Linked' /\ Waiting(ctimerList', ev, timerlist', left')
  <2>1. interval' \in [Timers -> Intervals \union {0}] /\ t \in Int /\ Start(c, t, cl)
    BY <1>1, <1>2, <1>3 DEF CtimerSet
  <2> QED
    BY <2>1, StartKeeps
<1>4. CASE CtimerRestart(c, cl)
  <2>1. interval' \in [Timers -> Intervals \union {0}] /\ Start(c, interval[c], cl)
    BY <1>2, <1>4 DEF CtimerRestart
  <2> QED
    BY <1>2, <2>1, StartKeeps
<1>5. CASE CtimerReset(c, cl)
  <2>1. interval' \in [Timers -> Intervals \union {0}] /\ Start(c, left[c] + interval[c], cl)
    BY <1>2, <1>5 DEF CtimerReset
  <2>2. left[c] + interval[c] \in Int
    BY <1>2
  <2> QED
    BY <2>1, <2>2, StartKeeps
<1> QED
  BY <1>3, <1>4, <1>5

LEMMA StopKeeps ==
  ASSUME Linked, NEW cl, NEW ev, Waiting(cl, ev, timerlist, left), NEW c \in Timers, CtimerStop(c, cl)
  PROVE  Linked' /\ Waiting(ctimerList', ev, timerlist', left')
<1>1. /\ timerlist' = RemoveFrom(timerlist, c)
      /\ owned' = [owned EXCEPT ![c] = FALSE]
      /\ ctimerList' = RemoveFrom(cl, c)
      /\ left' = left /\ interval' = interval
  BY DEF CtimerStop
<1>2. /\ timerlist' \in Seq(Timers) /\ NoRepetition(timerlist')
      /\ \A d : OnList(d, timerlist') <=> OnList(d, timerlist) /\ d # c
  BY <1>1, RemoveFromIs DEF Linked
<1>3. /\ ctimerList' \in Seq(Timers) /\ NoRepetition(ctimerList')
      /\ \A d : OnList(d, ctimerList') <=> OnList(d, cl) /\ d # c
  BY <1>1, RemoveFromIs DEF Waiting
<1>4. /\ owned' \in [Timers -> BOOLEAN] /\ ~owned'[c]
      /\ \A d \in Timers \ {c} : owned'[d] = owned[d]
  BY <1>1 DEF Linked
<1>5. \A d \in Timers : owned'[d] <=> OnList(d, timerlist')
  BY <1>2, <1>4 DEF Linked
<1>6. Linked'
  BY <1>1, <1>2, <1>4, <1>5 DEF Linked
<1> QED
  BY <1>1, <1>2, <1>3, <1>6 DEF Waiting

LEMMA NoCallKeeps ==
  ASSUME Linked, NEW cl, NEW ev, Waiting(cl, ev, timerlist, left), NoTimerCall(cl)
  PROVE  Linked' /\ Waiting(ctimerList', ev, timerlist', left')
  BY DEF NoTimerCall, Linked, Waiting

\* Another event is posted.
LEMMA PostKeeps ==
  ASSUME NEW cl, NEW ev, Waiting(cl, ev, timerlist, left), Len(ev) < NumEvents
  PROVE  Waiting(cl, Append(ev, Other), timerlist, left)
<1>1. ev \in Seq(Timers \union {Other}) /\ Other \in Timers \union {Other}
  BY DEF Waiting
<1> DEFINE more == Append(ev, Other)
<1>2. /\ more \in Seq(Timers \union {Other}) /\ Len(more) = Len(ev) + 1
      /\ \A d : OnList(d, more) <=> OnList(d, ev) \/ d = Other
  BY <1>1, AppendIs
<1> HIDE DEF more
<1>3. Waiting(cl, more, timerlist, left)
  <2>1. Len(ev) \in Nat
    BY <1>1
  <2>2. Len(more) <= NumEvents
    BY <1>2, <2>1, NumEventsAssumption
  <2> QED
    BY <1>2, <2>2 DEF Waiting
<1> QED
  BY <1>3 DEF more

LEMMA HandlerKeeps ==
  ASSUME Linked, Loop, NEW cl, NEW ev, Waiting(cl, ev, timerlist, left), Handler(cl, ev),
         pc' \in {"poll", "event", "select"}
  PROVE  Inv'
<1>1. Loop'
  BY DEF Loop, Handler
<1>2. CASE /\ \E c \in Timers : \/ \E t \in Intervals : CtimerSet(c, t, cl)
                                 \/ CtimerRestart(c, cl)
                                 \/ CtimerReset(c, cl)
           /\ events' = ev
  BY <1>1, <1>2, SetKeeps DEF Inv
<1>3. CASE ((\E c \in Timers : CtimerStop(c, cl)) \/ NoTimerCall(cl)) /\ events' = ev
  BY <1>1, <1>3, StopKeeps, NoCallKeeps DEF Inv
<1>4. CASE NoTimerCall(cl) /\ PostOther(ev)
  <2>1. Linked' /\ Waiting(ctimerList', ev, timerlist', left')
    BY <1>4, NoCallKeeps
  <2>2. Len(ev) < NumEvents /\ events' = Append(ev, Other)
    BY <1>4 DEF PostOther
  <2>3. Waiting(cl, events', timerlist, left)
    BY <2>2, PostKeeps
  <2>4. Waiting(ctimerList', events', timerlist', left')
    BY <1>4, <2>3 DEF NoTimerCall, Waiting
  <2> QED
    BY <1>1, <2>1, <2>4 DEF Inv
<1> QED
  BY <1>2, <1>3, <1>4 DEF Handler

-----------------------------------------------------------------------------
(* The processes and the main loop.                                        *)

\* etimer_process unlinks the timers that it has posted, and no other.
LEMMA PollEtimerKeeps ==
  ASSUME Inv, PollEtimer PROVE Inv'
<1>1. /\ left' = left /\ interval' = interval /\ ctimerList' = ctimerList /\ pc' = "event"
  BY DEF PollEtimer
<1>2. CASE ~poll
  BY <1>1, <1>2 DEF PollEtimer, Inv, Linked, Waiting, Loop
<1>3. CASE poll
  <2> DEFINE sent == SubSeq(Expired, 1, Posted)
  <2>1. /\ events' = events \o sent
        /\ timerlist' = Unposted(sent)
        /\ owned' = [c \in Timers |-> owned[c] /\ ~OnList(c, sent)]
        /\ poll' = (Posted < Len(Expired))
    BY <1>3 DEF PollEtimer
  <2>2. /\ Expired \in Seq(Timers)
        /\ \A c : OnList(c, Expired) => c \in Timers /\ left[c] <= 0
    BY KeptOnly DEF Inv, Linked, Expired
  <2>3. Len(events) \in Nat /\ Len(Expired) \in Nat /\ Len(events) <= NumEvents
        /\ NumEvents \in Nat
    BY <2>2, NumEventsAssumption DEF Inv, Waiting
  <2>4. Posted \in Nat /\ Posted <= Len(Expired) /\ Len(events) + Posted <= NumEvents
    BY <2>3 DEF Posted
  <2>5. /\ sent \in Seq(Timers) /\ Len(sent) = Posted
        /\ \A c : OnList(c, sent) => c \in Timers /\ left[c] <= 0
    BY <2>2, <2>4, SubSeqIs
  <2> HIDE DEF sent
  <2>6. /\ events' \in Seq(Timers \union {Other}) /\ Len(events') = Len(events) + Len(sent)
        /\ \A d : OnList(d, events) \/ OnList(d, sent) => OnList(d, events')
    <3>1. events \in Seq(Timers \union {Other}) /\ sent \in Seq(Timers \union {Other})
      BY <2>5 DEF Inv, Waiting
    <3> QED
      BY <2>1, <3>1, ConcatIs
  <2>7. /\ timerlist' \in Seq(Timers) /\ NoRepetition(timerlist')
        /\ \A d : OnList(d, timerlist') <=> OnList(d, timerlist) /\ d \in Timers \ Members(sent)
    BY <2>1, KeptOnly DEF Inv, Linked, Unposted
  <2>8. \A d \in Timers : OnList(d, timerlist') <=> OnList(d, timerlist) /\ ~OnList(d, sent)
    BY <2>7, MembersAre
  <2>9. /\ owned' \in [Timers -> BOOLEAN]
        /\ \A d \in Timers : owned'[d] <=> owned[d] /\ ~OnList(d, sent)
    BY <2>1
  <2>10. Linked'
    BY <1>1, <2>7, <2>8, <2>9 DEF Inv, Linked
  <2>11. ASSUME NEW d \in Timers, OnList(d, ctimerList), ~OnList(d, timerlist')
         PROVE  left[d] <= 0 /\ OnList(d, events')
    BY <2>5, <2>6, <2>8, <2>11 DEF Inv, Waiting
  <2>12. Len(events') <= NumEvents
    BY <2>4, <2>5, <2>6
  <2>13. Waiting(ctimerList', events', timerlist', left')
    BY <1>1, <2>6, <2>11, <2>12 DEF Inv, Waiting
  <2>14. Loop'
    BY <1>1, <2>1 DEF Loop
  <2> QED
    BY <2>10, <2>13, <2>14 DEF Inv
<1> QED
  BY <1>2, <1>3 DEF Inv, Loop

\* ctimer_process takes an event, and with it the timer from ctimer_list.
LEMMA DoEventKeeps ==
  ASSUME Inv, DoEvent PROVE Inv'
<1>1. Linked /\ Loop /\ Waiting(ctimerList, events, timerlist, left) /\ pc' = "select"
  BY DEF Inv, DoEvent
<1>2. CASE events = << >> /\ NoTimerCall(ctimerList) /\ UNCHANGED <<events, poll>>
  <2>1. Linked' /\ Waiting(ctimerList', events, timerlist', left')
    BY <1>1, <1>2, NoCallKeeps
  <2> QED
    BY <1>1, <1>2, <2>1 DEF Inv, Loop, Waiting
<1>3. CASE events # << >>
  <2>1. PICK rest \in Seq(Timers \union {Other}) :
          /\ rest = Tail(events) /\ Len(rest) = Len(events) - 1
          /\ \A d : OnList(d, events) => OnList(d, rest) \/ d = Head(events)
    BY <1>3, TailIs DEF Inv, Waiting
  <2>2. Len(rest) <= NumEvents
    BY <2>1, NumEventsAssumption DEF Inv, Waiting
  <2>3. CASE Handler(RemoveFrom(ctimerList, Head(events)), Tail(events))
    <3>1. PICK cl \in Seq(Timers) :
            /\ cl = RemoveFrom(ctimerList, Head(events)) /\ NoRepetition(cl)
            /\ \A d : OnList(d, cl) <=> OnList(d, ctimerList) /\ d # Head(events)
      BY RemoveFromIs DEF Inv, Waiting
    <3>2. Waiting(cl, rest, timerlist, left)
      BY <1>1, <2>1, <2>2, <3>1 DEF Waiting
    <3>3. Handler(cl, rest)
      BY <2>1, <2>3, <3>1
    <3> QED
      BY <1>1, <3>2, <3>3, HandlerKeeps
  <2>4. CASE /\ ~OnList(Head(events), ctimerList) /\ NoTimerCall(ctimerList)
             /\ events' = Tail(events) /\ UNCHANGED poll
    <3>1. Waiting(ctimerList, rest, timerlist, left)
      BY <1>1, <2>1, <2>2, <2>4 DEF Waiting
    <3>2. Linked' /\ Waiting(ctimerList', rest, timerlist', left')
      BY <1>1, <2>4, <3>1, NoCallKeeps
    <3> QED
      BY <1>1, <2>1, <2>4, <3>2 DEF Inv, Loop, Waiting
  <2> QED
    BY <1>3, <2>3, <2>4 DEF DoEvent
<1> QED
  BY <1>2, <1>3 DEF DoEvent

LEMMA SelectKeeps ==
  ASSUME Inv, Select PROVE Inv'
<1>1. Linked /\ Waiting(ctimerList, events, timerlist, left) /\ Loop' /\ events' = events
  BY DEF Inv, Select, Loop
<1>2. Linked' /\ Waiting(ctimerList', events, timerlist', left')
  BY <1>1, SetKeeps, StopKeeps, NoCallKeeps DEF Select
<1> QED
  BY <1>1, <1>2 DEF Inv, Waiting

LEMMA TickKeeps ==
  ASSUME Inv, Tick PROVE Inv'
<1>1. /\ left' = [c \in Timers |-> IF left[c] > -MaxLate THEN left[c] - 1 ELSE left[c]]
      /\ UNCHANGED <<interval, owned, timerlist, ctimerList, events, poll, pc>>
  BY DEF Tick
<1>2. left \in [Timers -> Int]
  BY DEF Inv, Linked
<1>3. /\ left' \in [Timers -> Int]
      /\ \A c \in Timers : left'[c] \in {left[c], left[c] - 1}
  BY <1>1, <1>2
<1>4. \A c \in Timers : left[c] <= 0 => left'[c] <= 0
  BY <1>2, <1>3
<1> QED
  BY <1>1, <1>3, <1>4 DEF Inv, Linked, Waiting, Loop

LEMMA Invariance == Spec => []Inv
<1>1. ASSUME Inv, [Next]_vars PROVE Inv'
  <2>1. CASE UNCHANGED vars
    BY <1>1, <2>1 DEF vars, Inv, Linked, Waiting, Loop
  <2>2. CASE PollOther
    BY <1>1, <2>2, HandlerKeeps DEF PollOther, Inv, Loop
  <2> QED
    BY <1>1, <2>1, <2>2, PollEtimerKeeps, DoEventKeeps, SelectKeeps, TickKeeps DEF Next
<1> QED
  BY <1>1, InitInv, PTL DEF Spec

\* The intrusive lists stay lists, and etimer.p tells whether a timer is linked,
\* whatever is set, restarted, reset and stopped from whatever callback.
THEOREM Sound == Spec => []ListsSound
  BY Invariance, InvImplies, PTL

\* No timer is forgotten: whoever waits for a callback has its event timer running, or
\* its event is in the queue, also when the queue was full.
THEOREM NoneForgotten == Spec => []ArmedIsPending
  BY Invariance, InvImplies, PTL

\* No callback function is called before the timer's interval has passed.
THEOREM NoneEarly == Spec => []NeverEarly
  BY Invariance, InvImplies, PTL

-----------------------------------------------------------------------------
(* Reassembly.  The contexts and their buffers.                            *)

Infos == [len : Sizes \union {0}, datagram : Datagrams \union {Stale}, timer : BOOLEAN,
          reassembled_len : Nat, first : Datagrams \union {Stale}, twice : BOOLEAN]
Bufs == [index : Contexts, offset : Nat, data : Datagrams, copy : Nat]

\* A datagram that is fragmented has two fragments at least.
LEMMA SizeIs ==
  ASSUME NEW x \in Sizes
  PROVE  x \in Nat /\ x > 1 /\ x > 0 /\ x # 0
BY SizesAssumption

Of(bufs, c) == {b \in bufs : b.index = c}
SameOffset(bufs, c, offset) == {b \in bufs : b.index = c /\ b.offset = offset}

\* A stored fragment is one of the datagram of its context.
BufferOK(info, bufs, b) ==
  /\ info[b.index].len # 0
  /\ b.data = info[b.index].datagram
  /\ b.copy < Cardinality(SameOffset(bufs, b.index, b.offset))

\* What a context with n fragments stored has counted.
ContextOK(x, n) ==
  x.len # 0 =>
    /\ x.datagram # Stale
    /\ x.first # Stale =>
         /\ x.first = x.datagram
         /\ x.reassembled_len = 1 + n
         /\ x.reassembled_len < x.len \/ x.len > BufSize

Typed(info, bufs) ==
  /\ info \in [Contexts -> Infos]
  /\ bufs \subseteq Bufs /\ IsFiniteSet(bufs) /\ Cardinality(bufs) <= NumBuffers

Accounted(info, bufs) ==
  /\ Typed(info, bufs)
  /\ \A b \in bufs : BufferOK(info, bufs, b)
  /\ \A c \in Contexts : ContextOK(info[c], Cardinality(Of(bufs, c)))

\* Only context c changes.
Changed(info, c, new) ==
  new \in [Contexts -> Infos] /\ \A e \in Contexts \ {c} : new[e] = info[e]

\* What clear_fragments() of the contexts cs leaves.
Cleared(info, bufs, cs) ==
  /\ \A c \in cs : /\ info[c].len = 0 /\ info[c].first = Stale /\ ~info[c].twice
                   /\ Of(bufs, c) = {}
  /\ \A c \in Contexts \ cs : info[c] = frag_info[c] /\ Of(bufs, c) = Of(frag_buf, c)
  /\ bufs \subseteq frag_buf

\* clear_fragments() keeps what the contexts have counted.
LEMMA ClearedIs ==
  ASSUME Accounted(frag_info, frag_buf), NEW cs \in SUBSET Contexts,
         NEW info, info = ClearedInfo(cs), NEW bufs, bufs = ClearedBufs(cs)
  PROVE  Accounted(info, bufs) /\ Cleared(info, bufs, cs)
<1>1. /\ frag_info \in [Contexts -> Infos]
      /\ frag_buf \subseteq Bufs /\ IsFiniteSet(frag_buf)
      /\ Cardinality(frag_buf) \in Nat /\ Cardinality(frag_buf) <= NumBuffers
  BY FS_CardinalityType DEF Accounted, Typed
<1>2. info \in [Contexts -> Infos] /\ \A c \in Contexts : info[c] \in Infos
  BY <1>1 DEF ClearedInfo, Infos
<1>3. /\ \A c \in cs : info[c].len = 0 /\ info[c].first = Stale /\ ~info[c].twice
      /\ \A c \in Contexts \ cs : info[c] = frag_info[c]
  BY <1>1 DEF ClearedInfo, Infos
<1>4. /\ bufs \subseteq frag_buf /\ IsFiniteSet(bufs) /\ Cardinality(bufs) <= NumBuffers
  <2>1. bufs \in SUBSET frag_buf
    BY DEF ClearedBufs
  <2>2. IsFiniteSet(bufs) /\ Cardinality(bufs) <= Cardinality(frag_buf)
    BY <1>1, <2>1, FS_Subset
  <2>3. Cardinality(bufs) \in Nat /\ NumBuffers \in Nat
    BY <2>2, FS_CardinalityType, PoolsAssumption
  <2> QED
    BY <1>1, <2>1, <2>2, <2>3
<1>5. \A b \in bufs : b \in Bufs /\ b.index \in Contexts \ cs
  BY <1>1 DEF ClearedBufs, Bufs
<1>6. /\ \A c \in cs : Of(bufs, c) = {}
      /\ \A c \in Contexts \ cs : Of(bufs, c) = Of(frag_buf, c)
  BY DEF ClearedBufs, Of
<1>7. \A c \in Contexts \ cs : \A o : SameOffset(bufs, c, o) = SameOffset(frag_buf, c, o)
  BY DEF ClearedBufs, SameOffset
<1>8. ASSUME NEW b \in bufs PROVE BufferOK(info, bufs, b)
  <2>1. BufferOK(frag_info, frag_buf, b) /\ b.index \in Contexts \ cs
    BY <1>4, <1>5 DEF Accounted
  <2> QED
    BY <1>3, <1>7, <2>1 DEF BufferOK
<1>9. ASSUME NEW c \in Contexts PROVE ContextOK(info[c], Cardinality(Of(bufs, c)))
  <2>1. CASE c \in cs
    BY <1>3, <2>1 DEF ContextOK
  <2>2. CASE c \notin cs
    BY <1>3, <1>6, <2>2 DEF Accounted
  <2> QED
    BY <2>1, <2>2
<1> QED
  BY <1>1, <1>2, <1>3, <1>4, <1>6, <1>8, <1>9 DEF Accounted, Typed, Cleared

\* A context that is free has nothing stored, and any of its contents will do.
LEMMA FreeIsEmpty ==
  ASSUME NEW info, NEW bufs, Accounted(info, bufs), NEW c \in Contexts, info[c].len = 0
  PROVE  Of(bufs, c) = {} /\ Cardinality(Of(bufs, c)) = 0
<1>1. \A b \in bufs : b.index # c
  BY DEF Accounted, BufferOK
<1>2. Of(bufs, c) = {}
  BY <1>1 DEF Of
<1> QED
  BY <1>2, FS_EmptySet

\* A context that is free changes: none of its fragments are stored.
LEMMA OpenedKeeps ==
  ASSUME NEW info, NEW bufs, Accounted(info, bufs), NEW c \in Contexts, info[c].len = 0,
         NEW new, Changed(info, c, new), ContextOK(new[c], 0)
  PROVE  Accounted(new, bufs)
<1>1. Of(bufs, c) = {} /\ Cardinality(Of(bufs, c)) = 0
  BY FreeIsEmpty
<1>2. \A b \in bufs : b \in Bufs /\ b.index \in Contexts /\ b.index # c
  BY <1>1 DEF Accounted, Typed, Bufs, Of
<1>3. \A b \in bufs : BufferOK(new, bufs, b)
  BY <1>2 DEF Accounted, BufferOK, Changed
<1>4. \A e \in Contexts : ContextOK(new[e], Cardinality(Of(bufs, e)))
  BY <1>1 DEF Accounted, Changed
<1> QED
  BY <1>3, <1>4 DEF Accounted, Typed, Changed

\* A fragment is stored in the context of its datagram.
Fragment(c, offset, d, copy) == [index |-> c, offset |-> offset, data |-> d, copy |-> copy]

\* The count goes on by one, though a fragment be stored twice: copies are told apart.
LEMMA StoredKeeps ==
  ASSUME NEW info, NEW bufs, Accounted(info, bufs), NEW c \in Contexts, info[c].len # 0,
         Cardinality(bufs) # NumBuffers, NEW offset \in Nat,
         NEW more, more = bufs \union {Fragment(c, offset, info[c].datagram,
                                                Cardinality(SameOffset(bufs, c, offset)))},
         NEW new, Changed(info, c, new),
         /\ new[c].len = info[c].len /\ new[c].datagram = info[c].datagram
         /\ new[c].first = info[c].first
         /\ new[c].reassembled_len = info[c].reassembled_len + 1,
         info[c].first # Stale =>
           info[c].reassembled_len + 1 < info[c].len \/ info[c].len > BufSize
  PROVE  Accounted(new, more)
<1> DEFINE same == SameOffset(bufs, c, offset)
<1>1. PICK n, b : n = Cardinality(same) /\ b = Fragment(c, offset, info[c].datagram, n)
  OBVIOUS
<1>2. /\ info \in [Contexts -> Infos] /\ bufs \subseteq Bufs /\ IsFiniteSet(bufs)
      /\ Cardinality(bufs) \in Nat /\ Cardinality(bufs) <= NumBuffers /\ NumBuffers \in Nat
  BY FS_CardinalityType, PoolsAssumption DEF Accounted, Typed
<1>3. IsFiniteSet(same) /\ n \in Nat
  <2>1. same \in SUBSET bufs
    BY DEF SameOffset
  <2> QED
    BY <1>1, <1>2, <2>1, FS_Subset, FS_CardinalityType
<1>4. info[c] \in Infos /\ info[c].datagram \in Datagrams
  BY <1>2 DEF Accounted, ContextOK, Infos
<1>5. b \in Bufs /\ b.index = c /\ b.offset = offset /\ b.data = info[c].datagram /\ b.copy = n
  BY <1>1, <1>3, <1>4 DEF Fragment, Bufs
<1>6. b \notin bufs
  <2> SUFFICES ASSUME b \in bufs PROVE FALSE
    OBVIOUS
  <2>1. b.copy < Cardinality(SameOffset(bufs, b.index, b.offset))
    BY DEF Accounted, BufferOK
  <2> QED
    BY <1>1, <1>3, <1>5, <2>1
<1>7. more = bufs \union {b}
  BY <1>1
<1>8. /\ IsFiniteSet(more) /\ Cardinality(more) = Cardinality(bufs) + 1
      /\ Cardinality(more) <= NumBuffers
  <2>1. IsFiniteSet(more) /\ Cardinality(more) = Cardinality(bufs) + 1
    BY <1>2, <1>6, <1>7, FS_AddElement
  <2> QED
    BY <1>2, <2>1
<1>9. /\ SameOffset(more, c, offset) = same \union {b}
      /\ Cardinality(SameOffset(more, c, offset)) = n + 1
  <2>1. SameOffset(more, c, offset) = same \union {b}
    BY <1>5, <1>7 DEF SameOffset
  <2>2. b \notin same
    BY <1>6 DEF SameOffset
  <2>3. Cardinality(same \union {b}) = n + 1
    BY <1>1, <1>3, <2>2, FS_AddElement
  <2> QED
    BY <2>1, <2>3
<1>10. \A e, o : e # c \/ o # offset => SameOffset(more, e, o) = SameOffset(bufs, e, o)
  BY <1>5, <1>7 DEF SameOffset
<1>11. /\ Of(more, c) = Of(bufs, c) \union {b}
       /\ Cardinality(Of(more, c)) = Cardinality(Of(bufs, c)) + 1
       /\ Cardinality(Of(bufs, c)) \in Nat
  <2>1. Of(more, c) = Of(bufs, c) \union {b}
    BY <1>5, <1>7 DEF Of
  <2>2. b \notin Of(bufs, c) /\ Of(bufs, c) \in SUBSET bufs
    BY <1>6 DEF Of
  <2>3. IsFiniteSet(Of(bufs, c))
    BY <1>2, <2>2, FS_Subset
  <2>4. Cardinality(Of(bufs, c) \union {b}) = Cardinality(Of(bufs, c)) + 1
    BY <2>2, <2>3, FS_AddElement
  <2> QED
    BY <2>1, <2>3, <2>4, FS_CardinalityType
<1>12. \A e \in Contexts \ {c} : Of(more, e) = Of(bufs, e)
  BY <1>5, <1>7 DEF Of
<1>13. ASSUME NEW a \in more PROVE BufferOK(new, more, a)
  <2>1. CASE a = b
    <3>1. n < n + 1
      BY <1>3
    <3> QED
      BY <1>5, <1>9, <2>1, <3>1 DEF BufferOK
  <2>2. CASE a # b
    <3>1. a \in bufs /\ a \in Bufs /\ BufferOK(info, bufs, a) /\ a.index \in Contexts
      BY <1>2, <1>7, <2>2 DEF Accounted, Bufs
    <3>2. new[a.index].len # 0 /\ a.data = new[a.index].datagram
      BY <3>1 DEF BufferOK, Changed
    <3>3. CASE a.index = c /\ a.offset = offset
      <4>1. a.copy < n /\ a.copy \in Nat
        BY <1>1, <3>1, <3>3 DEF BufferOK, Bufs
      <4>2. a.copy < n + 1
        BY <1>3, <4>1
      <4> QED
        BY <1>9, <3>2, <3>3, <4>2 DEF BufferOK
    <3>4. CASE ~(a.index = c /\ a.offset = offset)
      BY <1>10, <3>1, <3>2, <3>4 DEF BufferOK
    <3> QED
      BY <3>3, <3>4
  <2> QED
    BY <2>1, <2>2
<1>14. ASSUME NEW e \in Contexts PROVE ContextOK(new[e], Cardinality(Of(more, e)))
  <2>1. CASE e = c
    <3>1. PICK k \in Nat : k = Cardinality(Of(bufs, c)) /\ Cardinality(Of(more, c)) = k + 1
      BY <1>11
    <3>2. ContextOK(info[c], k)
      BY <3>1 DEF Accounted
    <3>3. ContextOK(new[c], k + 1)
      BY <3>2 DEF ContextOK
    <3> QED
      BY <2>1, <3>1, <3>3
  <2>2. CASE e # c
    BY <1>12, <2>2 DEF Accounted, Changed
  <2> QED
    BY <2>1, <2>2
<1>15. Typed(new, more)
  BY <1>2, <1>5, <1>7, <1>8 DEF Typed, Changed
<1> QED
  BY <1>13, <1>14, <1>15 DEF Accounted

LEMMA LowestIs ==
  ASSUME NEW S \in SUBSET Contexts, S # {}
  PROVE  Lowest(S) \in S
<1>1. S \in SUBSET Nat
  BY PoolsAssumption
<1>2. \E x \in S : \A y \in S : x <= y
  BY <1>1, LeastOf
<1> QED
  BY <1>2 DEF Lowest

\* Context x has just been given to datagram d.
Begun(x, d, size) == x.len = size /\ x.datagram = d /\ ContextOK(x, 0)

\* What input() of a FRAG1 does: the contexts that have expired are cleared, and a
\* free one, if there is any, is taken.
FirstDone(d, size, info, bufs) ==
  /\ Accounted(info, bufs) /\ Cleared(info, bufs, TimedOut)
  /\ frag_buf' = bufs /\ uip_buf' = NoPacket
  /\ \/ frag_info' = info
     \/ \E c \in Contexts :
          /\ info[c].len = 0
          /\ Changed(info, c, frag_info')
          /\ Begun(frag_info'[c], d, size) /\ frag_info'[c].twice = info[c].twice

\* add_fragment() of a FRAG1 finds a free context, or none.
LEMMA FirstFragmentIs ==
  ASSUME Accounted(frag_info, frag_buf), NEW d \in Datagrams, NEW size \in Sizes,
         NEW known \in BOOLEAN, FirstFragment(d, size, known)
  PROVE  /\ Accounted(frag_info', frag_buf')
         /\ \E info, bufs : FirstDone(d, size, info, bufs)
<1>1. PICK info, bufs : info = ClearedInfo(TimedOut) /\ bufs = ClearedBufs(TimedOut)
  OBVIOUS
<1>2. TimedOut \in SUBSET Contexts
  BY DEF TimedOut, Open
<1>3. Accounted(info, bufs) /\ Cleared(info, bufs, TimedOut)
  BY <1>1, <1>2, ClearedIs
<1>4. info \in [Contexts -> Infos]
  BY <1>3 DEF Accounted, Typed
<1> DEFINE free == {c \in Contexts : info[c].len = 0}
<1>5. CASE free = {}
  <2>1. frag_info' = info /\ frag_buf' = bufs /\ uip_buf' = NoPacket
    BY <1>1, <1>5 DEF FirstFragment
  <2> QED
    BY <1>3, <2>1 DEF FirstDone
<1>6. CASE free # {}
  <2>1. PICK c : c = Lowest(free)
    OBVIOUS
  <2>2. c \in Contexts /\ info[c].len = 0
    BY <1>6, <2>1, LowestIs
  <2>3. /\ frag_info' = [info EXCEPT ![c].len = size, ![c].datagram = d,
                                     ![c].first = IF known THEN d ELSE Stale,
                                     ![c].reassembled_len = IF known THEN 1 ELSE @]
        /\ frag_buf' = bufs /\ uip_buf' = NoPacket
    BY <1>1, <1>6, <2>1 DEF FirstFragment
  <2>4. size \in Nat /\ size > 1 /\ d # Stale
    BY SizesAssumption, StaleAssumption DEF Datagrams, Tags
  <2>5. info[c] \in Infos
    BY <1>4, <2>2
  <2>6. /\ Changed(info, c, frag_info')
        /\ frag_info'[c].len = size /\ frag_info'[c].datagram = d
        /\ frag_info'[c].first = (IF known THEN d ELSE Stale)
        /\ frag_info'[c].reassembled_len = (IF known THEN 1 ELSE info[c].reassembled_len)
        /\ frag_info'[c].twice = info[c].twice
    BY <1>4, <2>2, <2>3, <2>5 DEF Changed, Infos
  <2>7. Begun(frag_info'[c], d, size)
    BY <2>4, <2>6 DEF Begun, ContextOK
  <2>8. Accounted(frag_info', bufs)
    BY <1>3, <2>2, <2>6, <2>7, OpenedKeeps DEF Begun
  <2> QED
    BY <1>3, <2>2, <2>3, <2>6, <2>7, <2>8 DEF FirstDone
<1> QED
  BY <1>5, <1>6

\* What input() of a FRAGN with a context c does: contexts that have expired are cleared,
\* and the fragment is dropped, completes its datagram or is stored.
NextDone(c, d, size, offset, info, bufs, cs) ==
  /\ c \in Contexts /\ frag_info[c].len # 0 /\ frag_info[c].datagram = d
  /\ cs \in SUBSET Contexts
  /\ Accounted(info, bufs) /\ Cleared(info, bufs, cs)
  /\ \/ c \notin cs /\ frag_info' = info /\ frag_buf' = bufs /\ uip_buf' = NoPacket
     \/ /\ c \in cs
        /\ Changed(info, c, frag_info')
        /\ frag_info'[c].len = 0 /\ ~frag_info'[c].twice
        /\ frag_buf' = bufs
        /\ frag_info[c].reassembled_len + 1 >= size
        /\ uip_buf' = Packet(c, d, size, offset)
     \/ /\ c \notin cs
        /\ Changed(info, c, frag_info')
        /\ frag_info'[c].len = info[c].len /\ frag_info'[c].datagram = d
        /\ frag_info'[c].twice <=> info[c].twice \/ SameOffset(bufs, c, offset) # {}
        /\ frag_buf' = bufs \union {Fragment(c, offset, d,
                                             Cardinality(SameOffset(bufs, c, offset)))}
        /\ uip_buf' = NoPacket

\* The three outcomes of a FRAGN: no buffer, the last that was missing, or stored.
LEMMA NextFragmentIs ==
  ASSUME Accounted(frag_info, frag_buf), NEW d \in Datagrams, NEW size \in Sizes,
         NEW offset \in Nat, offset < size, Sessions(d) # {},
         \A c \in Sessions(d) : frag_info[c].len = size,
         NextFragment(d, size, offset)
  PROVE  /\ Accounted(frag_info', frag_buf')
         /\ \E c, info, bufs, cs : NextDone(c, d, size, offset, info, bufs, cs)
<1>1. PICK c : c = Lowest(Sessions(d))
  OBVIOUS
<1>2. /\ c \in Sessions(d) /\ c \in Contexts /\ frag_info[c].datagram = d
      /\ frag_info[c].len = size /\ frag_info[c].len # 0
      /\ size \in Nat /\ size > 1
  BY <1>1, LowestIs, SizesAssumption DEF Sessions, Open
<1>3. PICK cs, info, bufs : /\ cs = Outdated(c) /\ info = ClearedInfo(cs)
                            /\ bufs = ClearedBufs(cs)
  OBVIOUS
<1>4. cs \in SUBSET Contexts /\ c \notin cs
  BY <1>3 DEF Outdated, TimedOut, Open
<1>5. Accounted(info, bufs) /\ Cleared(info, bufs, cs)
  BY <1>3, <1>4, ClearedIs
<1>6. info[c] = frag_info[c] /\ Of(bufs, c) = Of(frag_buf, c)
  BY <1>2, <1>4, <1>5 DEF Cleared
<1>7. PICK len : len = frag_info[c].reassembled_len + 1
  OBVIOUS
<1>8. frag_info[c] \in Infos /\ frag_info[c].reassembled_len \in Nat /\ len \in Nat
  BY <1>2, <1>7 DEF Accounted, Typed, Infos
<1>9. {b \in Stored(c) : b.offset = offset} = SameOffset(bufs, c, offset)
  BY <1>6 DEF Stored, Of, SameOffset
<1>10. BufSize \in Nat
  BY SizesAssumption
<1>11. CASE Cardinality(bufs) = NumBuffers
  <2>1. frag_info' = info /\ frag_buf' = bufs /\ uip_buf' = NoPacket
    BY <1>1, <1>3, <1>11 DEF NextFragment
  <2>2. NextDone(c, d, size, offset, info, bufs, cs)
    BY <1>2, <1>4, <1>5, <2>1 DEF NextDone
  <2> QED
    BY <1>5, <2>1, <2>2
<1>12. CASE Cardinality(bufs) # NumBuffers /\ Completes(len, size) /\ offset < BufSize
  <2>1. PICK all, clear, kept : /\ all = cs \union {c} /\ clear = ClearedInfo(all)
                                /\ kept = ClearedBufs(all)
    OBVIOUS
  <2>2. /\ frag_info' = [clear EXCEPT ![c].reassembled_len = size]
        /\ frag_buf' = kept /\ uip_buf' = Packet(c, d, size, offset)
    BY <1>1, <1>3, <1>7, <1>12, <2>1 DEF NextFragment
  <2>3. all \in SUBSET Contexts /\ c \in all
    BY <1>2, <1>4, <2>1
  <2>4. Accounted(clear, kept) /\ Cleared(clear, kept, all)
    BY <2>1, <2>3, ClearedIs
  <2>5. clear \in [Contexts -> Infos] /\ clear[c] \in Infos
        /\ clear[c].len = 0 /\ ~clear[c].twice
    BY <1>2, <2>3, <2>4 DEF Accounted, Typed, Cleared
  <2>6. /\ Changed(clear, c, frag_info')
        /\ frag_info'[c].len = 0 /\ ~frag_info'[c].twice
    BY <1>2, <2>2, <2>5 DEF Changed, Infos
  <2>7. Accounted(frag_info', kept)
    BY <1>2, <2>4, <2>5, <2>6, OpenedKeeps DEF ContextOK
  <2>8. NextDone(c, d, size, offset, clear, kept, all)
    BY <1>2, <1>7, <1>12, <2>2, <2>3, <2>4, <2>6 DEF NextDone, Completes
  <2> QED
    BY <2>2, <2>7, <2>8
<1>13. CASE Cardinality(bufs) # NumBuffers /\ ~(Completes(len, size) /\ offset < BufSize)
  <2>1. PICK same, more : /\ same = SameOffset(bufs, c, offset)
                          /\ more = bufs \union {Fragment(c, offset, d, Cardinality(same))}
    OBVIOUS
  <2>2. /\ frag_info' = [info EXCEPT ![c].reassembled_len = len,
                                     ![c].twice = @ \/ same # {}]
        /\ frag_buf' = more /\ uip_buf' = NoPacket
    BY <1>1, <1>3, <1>7, <1>9, <1>13, <2>1 DEF NextFragment, Fragment
  <2>3. info \in [Contexts -> Infos] /\ info[c] \in Infos
    BY <1>2, <1>5 DEF Accounted, Typed
  <2>4. /\ Changed(info, c, frag_info')
        /\ frag_info'[c].len = info[c].len /\ frag_info'[c].datagram = info[c].datagram
        /\ frag_info'[c].first = info[c].first
        /\ frag_info'[c].reassembled_len = len
        /\ frag_info'[c].twice <=> info[c].twice \/ same # {}
    BY <1>2, <1>8, <2>2, <2>3 DEF Changed, Infos
  <2>5. len < info[c].len \/ info[c].len > BufSize
    BY <1>2, <1>6, <1>8, <1>10, <1>13 DEF Completes
  <2>6. Accounted(frag_info', more)
    BY <1>2, <1>5, <1>6, <1>7, <1>13, <2>1, <2>4, <2>5, StoredKeeps
  <2>7. NextDone(c, d, size, offset, info, bufs, cs)
    BY <1>2, <1>4, <1>5, <1>6, <2>1, <2>2, <2>4 DEF NextDone
  <2> QED
    BY <2>2, <2>6, <2>7
<1> QED
  BY <1>11, <1>12, <1>13

-----------------------------------------------------------------------------
(* The motes, the sequence numbers, and what is delivered.                 *)

Seqnos == Tags \X Nat \union {NoFragment}
Entries == [sender : Motes, seqno : Seqnos \union {Aged}]
SeqsOK(seqs) == seqs \in Seq(Entries) /\ Len(seqs) <= MaxSeqnos

Current(mt, m) == <<m, mt[m].tag>>

\* The context of the datagram that a mote sends knows its size.
MotesOK(info, mt) ==
  /\ mt \in [Motes -> [tag : Tags, size : Sizes \union {0}, offset : Nat]]
  /\ \A m \in Motes :
       /\ IF mt[m].size = 0 THEN mt[m].offset = 0 ELSE mt[m].offset < mt[m].size
       /\ mt[m].size # 0 =>
            \A c \in Contexts :
              info[c].len # 0 /\ info[c].datagram = Current(mt, m)
                => info[c].len = mt[m].size

PacketOK(packet) ==
  packet \in [size : Nat, first : Datagrams \union {Stale}, rest : SUBSET (Nat \X Datagrams)]

ReassInv ==
  /\ Accounted(frag_info, frag_buf)
  /\ MotesOK(frag_info, mote)
  /\ SeqsOK(received_seqnos)
  /\ PacketOK(uip_buf)

\* The invariant implies the property that the run checks.
LEMMA ReassInvImplies ==
  ASSUME ReassInv
  PROVE  FragmentsAccounted
<1>1. /\ frag_info \in [Contexts -> Infos] /\ frag_buf \subseteq Bufs
      /\ IsFiniteSet(frag_buf) /\ Cardinality(frag_buf) <= NumBuffers
  BY DEF ReassInv, Accounted, Typed
<1>2. ReassTypeOK
  <2>1. \A m \in Motes : mote[m].offset <= mote[m].size
    <3> SUFFICES ASSUME NEW m \in Motes PROVE mote[m].offset <= mote[m].size
      OBVIOUS
    <3>1. mote[m].offset \in Nat /\ mote[m].size \in Nat
      BY SizesAssumption DEF ReassInv, MotesOK
    <3> QED
      BY <3>1 DEF ReassInv, MotesOK
  <2> QED
    BY <1>1, <2>1 DEF ReassTypeOK, ReassInv, MotesOK, SeqsOK, PacketOK, MacSequenceTypeOK,
                      Entries, Seqnos, Infos, Bufs
<1>3. \A c \in Contexts : frag_info[c].len \in Nat
  <2>1. \A c \in Contexts : frag_info[c] \in Infos
    BY <1>1
  <2>2. \A c \in Contexts : frag_info[c].len \in Sizes \union {0}
    BY <2>1 DEF Infos
  <2>3. \A x \in Sizes \union {0} : x \in Nat
    BY SizesAssumption
  <2> QED
    BY <2>2, <2>3
<1>4. \A c \in Contexts : c \in Open <=> frag_info[c].len # 0
  BY <1>3 DEF Open
<1>5. \A b \in frag_buf : b.index \in Open
  BY <1>1, <1>4 DEF ReassInv, Accounted, BufferOK, Bufs
<1>6. ASSUME NEW c \in Open, frag_info[c].first # Stale
      PROVE  /\ frag_info[c].reassembled_len = 1 + Cardinality(Stored(c))
             /\ frag_info[c].reassembled_len < frag_info[c].len \/ frag_info[c].len > BufSize
  <2>1. c \in Contexts /\ Of(frag_buf, c) = Stored(c)
    BY DEF Open, Of, Stored
  <2> QED
    BY <1>4, <1>6, <2>1 DEF ReassInv, Accounted, ContextOK
<1> QED
  BY <1>2, <1>5, <1>6 DEF FragmentsAccounted

LEMMA NoPacketOK == PacketOK(NoPacket)
BY DEF PacketOK, NoPacket

LEMMA ReassInitInv ==
  ASSUME ReassInit
  PROVE  ReassInv
<1>1. Accounted(frag_info, frag_buf)
  <2>1. frag_buf = {} /\ frag_info \in [Contexts -> Infos]
        /\ \A c \in Contexts : frag_info[c].len = 0
    BY DEF ReassInit, Infos
  <2>2. IsFiniteSet({}) /\ Cardinality({}) = 0 /\ NumBuffers \in Nat
    BY FS_EmptySet, PoolsAssumption
  <2>3. 0 <= NumBuffers
    BY <2>2
  <2> QED
    BY <2>1, <2>2, <2>3 DEF Accounted, Typed, ContextOK
<1>2. MotesOK(frag_info, mote)
  <2>1. 0 \in Tags
    BY NumTagsAssumption DEF Tags
  <2> QED
    BY <2>1 DEF ReassInit, MotesOK, Idle
<1>3. SeqsOK(received_seqnos)
  <2>1. received_seqnos = << >> /\ Len(<< >>) = 0 /\ << >> \in Seq(Entries) /\ MaxSeqnos \in Nat
    BY MaxSeqnosAssumption DEF ReassInit
  <2> QED
    BY <2>1 DEF SeqsOK
<1> QED
  BY <1>1, <1>2, <1>3, NoPacketOK DEF ReassInit, ReassInv

\* The list of sequence numbers is one whatever is registered.
LEMMA RegisterTyped ==
  ASSUME SeqsOK(received_seqnos), NEW m \in Motes, NEW s \in Seqnos, RegisterSeqno(m, s)
  PROVE  SeqsOK(received_seqnos')
<1>1. PICK others : others = Kept(received_seqnos,
                                  {e \in Members(received_seqnos) : e.sender # m})
  OBVIOUS
<1>2. received_seqnos \in Seq(Entries) /\ Len(received_seqnos) <= MaxSeqnos
      /\ MaxSeqnos \in Nat /\ MaxSeqnos # 0
  BY MaxSeqnosAssumption DEF SeqsOK
<1>3. others \in Seq(Entries)
  BY <1>1, <1>2, KeptOnly
<1>4. PICK kept, e : /\ kept = IF Len(others) < MaxSeqnos THEN others
                               ELSE SubSeq(others, 1, MaxSeqnos - 1)
                     /\ e = [sender |-> m, seqno |-> s]
  OBVIOUS
<1>5. kept \in Seq(Entries) /\ Len(kept) <= MaxSeqnos - 1
  <2>1. CASE Len(others) < MaxSeqnos
    <3>1. kept = others /\ Len(others) \in Nat
      BY <1>3, <1>4, <2>1
    <3> QED
      BY <1>2, <1>3, <2>1, <3>1
  <2>2. CASE ~(Len(others) < MaxSeqnos)
    <3>1. Len(others) \in Nat /\ MaxSeqnos - 1 \in Nat /\ MaxSeqnos - 1 <= Len(others)
      BY <1>2, <1>3, <2>2
    <3>2. SubSeq(others, 1, MaxSeqnos - 1) \in Seq(Entries)
          /\ Len(SubSeq(others, 1, MaxSeqnos - 1)) = MaxSeqnos - 1
      BY <1>3, <3>1, SubSeqIs
    <3> QED
      BY <1>4, <2>2, <3>1, <3>2
  <2> QED
    BY <2>1, <2>2
<1>6. received_seqnos' = <<e>> \o kept
  BY <1>1, <1>4 DEF RegisterSeqno
<1>7. e \in Entries
  BY <1>4 DEF Entries
<1>8. <<e>> \o kept \in Seq(Entries) /\ Len(<<e>> \o kept) = Len(kept) + 1
  BY <1>5, <1>7
<1> QED
  BY <1>2, <1>5, <1>6, <1>8 DEF SeqsOK

\* No context is taken for another datagram than d, and none gets another size.
Moves(info, new, d, size) ==
  \A c \in Contexts :
    \/ new[c].len = 0
    \/ new[c].len = info[c].len /\ new[c].datagram = info[c].datagram
    \/ new[c].len = size /\ new[c].datagram = d

LEMMA FirstMoves ==
  ASSUME NEW d, NEW size, NEW info, NEW bufs, FirstDone(d, size, info, bufs)
  PROVE  Moves(frag_info, frag_info', d, size)
<1>1. \A c \in Contexts : info[c].len = 0 \/ info[c] = frag_info[c]
  BY DEF FirstDone, Cleared
<1>2. CASE frag_info' = info
  BY <1>1, <1>2 DEF Moves
<1>3. ASSUME NEW c \in Contexts, Changed(info, c, frag_info'), Begun(frag_info'[c], d, size)
      PROVE  Moves(frag_info, frag_info', d, size)
  BY <1>1, <1>3 DEF Moves, Changed, Begun
<1> QED
  BY <1>2, <1>3 DEF FirstDone

LEMMA NextMoves ==
  ASSUME NEW c, NEW d, NEW size, NEW offset, NEW info, NEW bufs, NEW cs,
         NextDone(c, d, size, offset, info, bufs, cs)
  PROVE  Moves(frag_info, frag_info', d, size)
<1>1. \A e \in Contexts : info[e].len = 0 \/ info[e] = frag_info[e]
  BY DEF NextDone, Cleared
<1>2. frag_info[c].datagram = d /\ c \in Contexts
  BY DEF NextDone
<1>3. CASE frag_info' = info
  BY <1>1, <1>3 DEF Moves
<1>4. CASE Changed(info, c, frag_info') /\ frag_info'[c].len = 0
  BY <1>1, <1>4 DEF Moves, Changed
<1>5. CASE /\ Changed(info, c, frag_info') /\ c \notin cs
           /\ frag_info'[c].len = info[c].len /\ frag_info'[c].datagram = d
  <2>1. info[c] = frag_info[c]
    BY <1>2, <1>5 DEF NextDone, Cleared
  <2> QED
    BY <1>1, <1>2, <1>5, <2>1 DEF Moves, Changed
<1> QED
  BY <1>3, <1>4, <1>5 DEF NextDone

\* Then the context of what a mote sends still has the size of its datagram.
LEMMA MovesKeep ==
  ASSUME NEW info, NEW new, NEW mt, MotesOK(info, mt), NEW m \in Motes,
         Moves(info, new, Current(mt, m), mt[m].size)
  PROVE  MotesOK(new, mt)
<1> SUFFICES ASSUME NEW n \in Motes, mt[n].size # 0, NEW c \in Contexts, new[c].len # 0,
                    new[c].datagram = Current(mt, n)
             PROVE  new[c].len = mt[n].size
  BY DEF MotesOK
<1>1. CASE new[c].len = info[c].len /\ new[c].datagram = info[c].datagram
  BY <1>1 DEF MotesOK
<1>2. CASE new[c].len = mt[m].size /\ new[c].datagram = Current(mt, m)
  <2>1. n = m
    BY <1>2 DEF Current
  <2> QED
    BY <1>2, <2>1
<1> QED
  BY <1>1, <1>2 DEF Moves

-----------------------------------------------------------------------------
(* The steps.                                                              *)

\* Where input() has come to when a fragment of the mote m was received.
InputDone(m) ==
  \/ frag_info' = frag_info /\ frag_buf' = frag_buf /\ uip_buf' = NoPacket
  \/ /\ mote[m].offset = 0
     /\ \E info, bufs : FirstDone(Current(mote, m), mote[m].size, info, bufs)
  \/ /\ mote[m].offset # 0
     /\ \E c, info, bufs, cs :
          NextDone(c, Current(mote, m), mote[m].size, mote[m].offset, info, bufs, cs)

\* The whole of input() for the fragment that a mote sends.
LEMMA ReceivedIs ==
  ASSUME Accounted(frag_info, frag_buf), MotesOK(frag_info, mote), NEW m \in Motes,
         FragmentReceived(m)
  PROVE  /\ Accounted(frag_info', frag_buf')
         /\ InputDone(m)
         /\ mote' = mote /\ RegisterSeqno(m, Seqno(m)) /\ ~IsDuplicate(m, Seqno(m))
         /\ Current(mote, m) \in Datagrams /\ mote[m].size \in Sizes
         /\ mote[m].offset \in Nat /\ mote[m].offset < mote[m].size
<1> DEFINE known == mote[m].tag \notin Unknown
<1>1. PICK d, size, offset : /\ d = Current(mote, m) /\ size = mote[m].size
                             /\ offset = mote[m].offset
  OBVIOUS
<1>2. /\ Input(d, size, known, offset) /\ size # 0
      /\ mote' = mote /\ RegisterSeqno(m, Seqno(m)) /\ ~IsDuplicate(m, Seqno(m))
  <2>1. mote[m].size # 0
    <3>1. mote[m].size > 0
      BY DEF FragmentReceived, Sending
    <3> QED
      BY <3>1
  <2> QED
    BY <1>1, <2>1 DEF FragmentReceived, Current
<1>3. d \in Datagrams /\ size \in Sizes /\ offset \in Nat /\ offset < size
  BY <1>1, <1>2 DEF MotesOK, Current, Datagrams
<1>4. CASE offset = 0 /\ FirstFragment(d, size, known)
  <2>1. known \in BOOLEAN
    OBVIOUS
  <2>2. /\ Accounted(frag_info', frag_buf')
        /\ \E info, bufs : FirstDone(d, size, info, bufs)
    <3> HIDE DEF known
    <3> QED
      BY <1>3, <1>4, <2>1, FirstFragmentIs
  <2> QED
    BY <1>1, <1>2, <1>3, <1>4, <2>2 DEF InputDone
<1>5. CASE FragmentLost
  BY <1>1, <1>2, <1>3, <1>5 DEF FragmentLost, InputDone
<1>6. CASE offset > 0 /\ Sessions(d) # {} /\ NextFragment(d, size, offset)
  <2>1. \A c \in Sessions(d) : frag_info[c].len = size
    <3> SUFFICES ASSUME NEW c \in Sessions(d) PROVE frag_info[c].len = size
      OBVIOUS
    <3>1. c \in Contexts /\ frag_info[c].len > 0 /\ frag_info[c].datagram = d
      BY DEF Sessions, Open
    <3>2. frag_info[c].len # 0
      BY <3>1
    <3> QED
      BY <1>1, <1>2, <3>1, <3>2 DEF MotesOK
  <2>2. /\ Accounted(frag_info', frag_buf')
        /\ \E c, info, bufs, cs : NextDone(c, d, size, offset, info, bufs, cs)
    BY <1>3, <1>6, <2>1, NextFragmentIs
  <2>3. offset # 0
    BY <1>6
  <2> QED
    BY <1>1, <1>2, <1>3, <2>2, <2>3 DEF InputDone
<1> QED
  BY <1>2, <1>4, <1>5, <1>6 DEF Input

LEMMA InputMoves ==
  ASSUME NEW m \in Motes, InputDone(m)
  PROVE  Moves(frag_info, frag_info', Current(mote, m), mote[m].size)
<1>1. CASE frag_info' = frag_info
  BY <1>1 DEF Moves
<1> QED
  BY <1>1, FirstMoves, NextMoves DEF InputDone

LEMMA InputPacketOK ==
  ASSUME Accounted(frag_info, frag_buf), NEW m \in Motes, InputDone(m),
         Current(mote, m) \in Datagrams, mote[m].size \in Sizes, mote[m].offset \in Nat
  PROVE  PacketOK(uip_buf')
<1>1. ASSUME NEW c \in Contexts, NEW d \in Datagrams, NEW size \in Sizes, NEW offset \in Nat
      PROVE  PacketOK(Packet(c, d, size, offset))
  <2>1. frag_info[c].first \in Datagrams \union {Stale}
    BY DEF Accounted, Typed, Infos
  <2>2. \A b \in Stored(c) : b.offset \in Nat /\ b.data \in Datagrams
    BY DEF Stored, Accounted, Typed, Bufs
  <2>3. size \in Nat
    BY SizesAssumption
  <2> QED
    BY <2>1, <2>2, <2>3 DEF PacketOK, Packet
<1> QED
  BY <1>1, NoPacketOK DEF InputDone, FirstDone, NextDone

LEMMA ReceivedKeeps ==
  ASSUME ReassInv, NEW m \in Motes, FragmentReceived(m)
  PROVE  ReassInv'
<1>1. /\ Accounted(frag_info', frag_buf') /\ InputDone(m)
      /\ mote' = mote /\ RegisterSeqno(m, Seqno(m))
      /\ Current(mote, m) \in Datagrams /\ mote[m].size \in Sizes /\ mote[m].offset \in Nat
  BY ReceivedIs DEF ReassInv
<1>2. MotesOK(frag_info', mote')
  BY <1>1, InputMoves, MovesKeep DEF ReassInv
<1>3. SeqsOK(received_seqnos')
  <2>1. Seqno(m) \in Seqnos
    BY <1>1 DEF Seqno, Seqnos, Current, Datagrams
  <2> QED
    BY <1>1, <2>1, RegisterTyped DEF ReassInv
<1>4. PacketOK(uip_buf')
  BY <1>1, InputPacketOK DEF ReassInv
<1> QED
  BY <1>1, <1>2, <1>3, <1>4 DEF ReassInv

LEMMA NewDatagramKeeps ==
  ASSUME ReassInv, NEW m \in Motes, NEW size \in Sizes, NewDatagram(m, size)
  PROVE  ReassInv'
<1>1. PICK tag : tag = (mote[m].tag + 1) % NumTags
  OBVIOUS
<1>2. mote \in [Motes -> [tag : Tags, size : Sizes \union {0}, offset : Nat]]
  BY DEF ReassInv, MotesOK
<1>3. tag \in Tags
  <2>1. mote[m].tag \in Nat /\ NumTags \in Nat /\ NumTags # 0
    BY <1>2, NumTagsAssumption DEF Tags
  <2> QED
    BY <1>1, <2>1 DEF Tags
<1>4. /\ mote' = [mote EXCEPT ![m] = [tag |-> tag, size |-> size, offset |-> 0]]
      /\ \A c \in Open : frag_info[c].datagram # <<m, tag>>
      /\ uip_buf' = NoPacket
      /\ frag_info' = frag_info /\ frag_buf' = frag_buf /\ received_seqnos' = received_seqnos
  BY <1>1 DEF NewDatagram
<1>5. \A c \in Contexts : frag_info[c].len # 0 => frag_info[c].datagram # <<m, tag>>
  <2> SUFFICES ASSUME NEW c \in Contexts, frag_info[c].len # 0
               PROVE  frag_info[c].datagram # <<m, tag>>
    OBVIOUS
  <2>1. frag_info[c].len \in Sizes \union {0}
    BY DEF ReassInv, Accounted, Typed, Infos
  <2>2. \A x \in Sizes : x > 0
    BY SizeIs
  <2>3. frag_info[c].len > 0
    BY <2>1, <2>2
  <2>4. c \in Open
    BY <2>3 DEF Open
  <2> QED
    BY <1>4, <2>4
<1>6. MotesOK(frag_info, mote')
  <2>1. mote' \in [Motes -> [tag : Tags, size : Sizes \union {0}, offset : Nat]]
    BY <1>2, <1>3, <1>4
  <2>2. /\ mote'[m].tag = tag /\ mote'[m].size = size /\ mote'[m].offset = 0
        /\ \A n \in Motes \ {m} : mote'[n] = mote[n]
    BY <1>2, <1>4
  <2>3. size \in Nat /\ size # 0 /\ 0 < size
    BY SizesAssumption
  <2>4. \A n \in Motes : n # m => Current(mote', n) = Current(mote, n)
    BY <2>2 DEF Current
  <2>5. Current(mote', m) = <<m, tag>>
    BY <2>2 DEF Current
  <2> QED
    BY <1>5, <2>1, <2>2, <2>3, <2>4, <2>5 DEF ReassInv, MotesOK
<1> QED
  BY <1>4, <1>6, NoPacketOK DEF ReassInv

LEMMA NextToSendKeeps ==
  ASSUME ReassInv, NEW m \in Motes, NextToSend(m)
  PROVE  ReassInv'
<1>1. mote \in [Motes -> [tag : Tags, size : Sizes \union {0}, offset : Nat]]
  BY DEF ReassInv, MotesOK
<1>2. /\ mote' = [mote EXCEPT ![m] =
                   IF mote[m].offset + 1 < mote[m].size
                   THEN [mote[m] EXCEPT !.offset = mote[m].offset + 1] ELSE Idle(mote[m].tag)]
      /\ uip_buf' = NoPacket
      /\ frag_info' = frag_info /\ frag_buf' = frag_buf /\ received_seqnos' = received_seqnos
  BY DEF NextToSend
<1>3. /\ mote' \in [Motes -> [tag : Tags, size : Sizes \union {0}, offset : Nat]]
      /\ mote'[m].tag = mote[m].tag
      /\ \/ mote'[m].size = 0 /\ mote'[m].offset = 0
         \/ mote'[m].size = mote[m].size /\ mote'[m].offset < mote[m].size
      /\ \A n \in Motes \ {m} : mote'[n] = mote[n]
  <2>1. PICK f : f = mote[m]
    OBVIOUS
  <2>2. f.tag \in Tags /\ f.size \in Sizes \union {0} /\ f.offset \in Nat
    BY <1>1, <2>1
  <2>3. PICK g : g = IF f.offset + 1 < f.size THEN [f EXCEPT !.offset = f.offset + 1]
                     ELSE Idle(f.tag)
    OBVIOUS
  <2>4. mote' = [mote EXCEPT ![m] = g]
    <3>1. g = IF mote[m].offset + 1 < mote[m].size
              THEN [mote[m] EXCEPT !.offset = mote[m].offset + 1] ELSE Idle(mote[m].tag)
      BY <2>1, <2>3
    <3> QED
      BY <1>2, <3>1
  <2>5. /\ g \in [tag : Tags, size : Sizes \union {0}, offset : Nat] /\ g.tag = f.tag
        /\ \/ g.size = 0 /\ g.offset = 0
           \/ g.size = f.size /\ g.offset < f.size
    <3>1. CASE f.offset + 1 < f.size
      <4>1. g = [f EXCEPT !.offset = f.offset + 1]
        BY <2>3, <3>1
      <4> QED
        BY <1>1, <2>1, <2>2, <3>1, <4>1
    <3>2. CASE ~(f.offset + 1 < f.size)
      BY <2>2, <2>3, <3>2 DEF Idle
    <3> QED
      BY <3>1, <3>2
  <2> QED
    BY <1>1, <2>1, <2>4, <2>5
<1>4. \A n \in Motes : Current(mote', n) = Current(mote, n)
  BY <1>3 DEF Current
<1>5. MotesOK(frag_info, mote')
  <2>1. CASE mote'[m].size = 0 /\ mote'[m].offset = 0
    BY <1>3, <1>4, <2>1 DEF ReassInv, MotesOK
  <2>2. CASE mote'[m].size = mote[m].size /\ mote'[m].offset < mote[m].size
    <3>1. mote'[m].size # 0
      BY <1>1, <1>3, <2>2, SizesAssumption
    <3> QED
      BY <1>3, <1>4, <2>2, <3>1 DEF ReassInv, MotesOK
  <2> QED
    BY <1>3, <2>1, <2>2
<1> QED
  BY <1>2, <1>5, NoPacketOK DEF ReassInv

LEMMA OtherFrameKeeps ==
  ASSUME ReassInv, NEW m \in Motes, OtherFrame(m)
  PROVE  ReassInv'
<1>1. SeqsOK(received_seqnos')
  <2>1. NoFragment \in Seqnos
    BY DEF Seqnos
  <2> QED
    BY <2>1, RegisterTyped DEF ReassInv, OtherFrame
<1> QED
  BY <1>1, NoPacketOK DEF ReassInv, OtherFrame

\* An entry of the list gets old.
Ages(seqs, k, new) == new = [seqs EXCEPT ![k].seqno = Aged]

LEMMA AgesIs ==
  ASSUME NEW seqs, SeqsOK(seqs), NEW k \in 1 .. Len(seqs), NEW new, Ages(seqs, k, new)
  PROVE  /\ SeqsOK(new) /\ Len(new) = Len(seqs)
         /\ \A j \in 1 .. Len(seqs) :
              new[j].sender = seqs[j].sender /\ (j # k => new[j] = seqs[j])
<1>1. seqs \in Seq(Entries) /\ Len(seqs) <= MaxSeqnos
  BY DEF SeqsOK
<1>2. seqs[k] \in Entries
  BY <1>1
<1>3. PICK e : e = [seqs[k] EXCEPT !.seqno = Aged]
  OBVIOUS
<1>4. e \in Entries /\ e.sender = seqs[k].sender
  BY <1>2, <1>3 DEF Entries
<1>5. new = [seqs EXCEPT ![k] = e]
  BY <1>3 DEF Ages
<1>6. new \in Seq(Entries) /\ Len(new) = Len(seqs)
      /\ \A j \in 1 .. Len(seqs) : new[j] = IF j = k THEN e ELSE seqs[j]
  BY <1>1, <1>4, <1>5
<1> QED
  BY <1>1, <1>4, <1>6 DEF SeqsOK

LEMMA TimePassesKeeps ==
  ASSUME ReassInv, TimePasses
  PROVE  ReassInv'
<1>1. frag_buf' = frag_buf /\ mote' = mote /\ uip_buf' = NoPacket
  BY DEF TimePasses
<1>2. CASE /\ \E c \in Open \ TimedOut : frag_info' = [frag_info EXCEPT ![c].timer = TRUE]
           /\ UNCHANGED received_seqnos
  <2>1. PICK c \in Contexts : frag_info' = [frag_info EXCEPT ![c].timer = TRUE]
    BY <1>2 DEF Open
  <2>2. frag_info \in [Contexts -> Infos]
    BY DEF ReassInv, Accounted, Typed
  <2>3. /\ frag_info' \in [Contexts -> Infos]
        /\ \A e \in Contexts :
             /\ frag_info'[e].len = frag_info[e].len
             /\ frag_info'[e].datagram = frag_info[e].datagram
             /\ frag_info'[e].first = frag_info[e].first
             /\ frag_info'[e].reassembled_len = frag_info[e].reassembled_len
    BY <2>1, <2>2 DEF Infos
  <2>4. Accounted(frag_info', frag_buf)
    <3>1. \A b \in frag_buf : b.index \in Contexts
      BY DEF ReassInv, Accounted, Typed, Bufs
    <3>2. \A b \in frag_buf : BufferOK(frag_info', frag_buf, b)
      BY <2>3, <3>1 DEF ReassInv, Accounted, BufferOK
    <3>3. \A e \in Contexts : ContextOK(frag_info'[e], Cardinality(Of(frag_buf, e)))
      BY <2>3 DEF ReassInv, Accounted, ContextOK
    <3> QED
      BY <2>3, <3>2, <3>3 DEF ReassInv, Accounted, Typed
  <2>5. MotesOK(frag_info', mote)
    BY <2>3 DEF ReassInv, MotesOK
  <2> QED
    BY <1>1, <1>2, <2>4, <2>5, NoPacketOK DEF ReassInv
<1>3. CASE /\ \E k \in 1 .. Len(received_seqnos) : SeqnoAges(k)
           /\ UNCHANGED frag_info
  <2>1. PICK k \in 1 .. Len(received_seqnos) : Ages(received_seqnos, k, received_seqnos')
    BY <1>3 DEF SeqnoAges, Ages
  <2>2. SeqsOK(received_seqnos')
    BY <2>1, AgesIs DEF ReassInv
  <2> QED
    BY <1>1, <1>3, <2>2, NoPacketOK DEF ReassInv
<1> QED
  BY <1>2, <1>3 DEF TimePasses

LEMMA ReassInvariance == ReassSpec => []ReassInv
<1>1. ASSUME ReassInv, [ReassNext]_reassVars PROVE ReassInv'
  <2>1. ASSUME NEW m \in Motes, NEW size \in Sizes, NewDatagram(m, size) PROVE ReassInv'
    BY <1>1, <2>1, NewDatagramKeeps
  <2>2. ASSUME NEW m \in Motes, FragmentReceived(m) PROVE ReassInv'
    BY <1>1, <2>2, ReceivedKeeps
  <2>3. ASSUME NEW m \in Motes, NextToSend(m) PROVE ReassInv'
    BY <1>1, <2>3, NextToSendKeeps
  <2>4. ASSUME NEW m \in Motes, OtherFrame(m) PROVE ReassInv'
    BY <1>1, <2>4, OtherFrameKeeps
  <2>5. CASE TimePasses
    BY <1>1, <2>5, TimePassesKeeps
  <2>6. CASE UNCHANGED reassVars
    BY <1>1, <2>6 DEF reassVars, ReassInv
  <2> QED
    BY <1>1, <2>1, <2>2, <2>3, <2>4, <2>5, <2>6 DEF ReassNext
<1>2. ReassInit => ReassInv
  BY ReassInitInv
<1> QED
  BY <1>1, <1>2, PTL DEF ReassSpec

\* Fragments wait only for contexts in use, as many as the context has counted, and no
\* datagram waits that is complete, whatever motes interleave, time out and run out of
\* buffers in input() of sicslowpan.c, and whatever the duplicate detection lets through.
THEOREM AllAccounted == ReassSpec => []FragmentsAccounted
<1>1. ReassInv => FragmentsAccounted
  BY ReassInvImplies
<1> QED
  BY <1>1, ReassInvariance, PTL

-----------------------------------------------------------------------------
(* What the duplicate detection lets through, as long as a mote sends      *)
(* nothing else while it sends a fragment again, and all are remembered.   *)

SendersOnce(seqs) ==
  \A j, k \in 1 .. Len(seqs) : seqs[j].sender = seqs[k].sender => j = k

Entry(m, s) == [sender |-> m, seqno |-> s]

LEMMA DuplicateIs ==
  ASSUME NEW m, NEW s
  PROVE  IsDuplicate(m, s) <=> OnList(Entry(m, s), received_seqnos)
BY DEF IsDuplicate, OnList, Entry

\* A sequence number that is registered replaces that of its sender and no other.
Registered(m, s, seqs) ==
  /\ SendersOnce(seqs)
  /\ \A n, t : OnList(Entry(n, t), seqs)
                 <=> IF n = m THEN t = s ELSE OnList(Entry(n, t), received_seqnos)

\* mac_sequence_register_seqno() forgets nobody while there is room for all senders:
\* the others on the list are one mote less than there are.
LEMMA RegisterOnce ==
  ASSUME IsFiniteSet(Motes), Cardinality(Motes) <= MaxSeqnos,
         SeqsOK(received_seqnos), SendersOnce(received_seqnos),
         NEW m \in Motes, NEW s \in Seqnos, RegisterSeqno(m, s)
  PROVE  Registered(m, s, received_seqnos')
<1> DEFINE items == {e \in Members(received_seqnos) : e.sender # m}
<1>1. PICK others, old : /\ old = received_seqnos /\ others = Kept(old, items)
  OBVIOUS
<1>2. old \in Seq(Entries) /\ Len(old) \in Nat
  BY <1>1 DEF SeqsOK
<1>3. \A e, f : OnList(e, old) /\ OnList(f, old) /\ e.sender = f.sender => e = f
  BY <1>1 DEF SendersOnce, OnList
<1>4. NoRepetition(old)
  BY <1>1 DEF SendersOnce, NoRepetition
<1>5. /\ others \in Seq(Entries) /\ NoRepetition(others)
      /\ \A e : OnList(e, others) <=> OnList(e, old) /\ e \in items
  BY <1>1, <1>2, <1>4, KeptOnly
<1>6. \A e : OnList(e, others) <=> OnList(e, old) /\ e.sender # m
  BY <1>1, <1>5, MembersAre
<1>7. Len(others) \in Nat /\ \A j \in 1 .. Len(others) :
        others[j] \in Entries /\ OnList(others[j], others)
  BY <1>5 DEF OnList
<1>8. \A j \in 1 .. Len(others) : others[j].sender \in Motes \ {m}
  BY <1>6, <1>7 DEF Entries
<1>9. \A j, k \in 1 .. Len(others) : others[j].sender = others[k].sender => j = k
  BY <1>3, <1>5, <1>6, <1>7 DEF NoRepetition
<1>10. Len(others) < MaxSeqnos
  <2> DEFINE from == [j \in 1 .. Len(others) |-> others[j].sender]
             rest == Motes \ {m}
  <2>1. from \in [1 .. Len(others) -> rest]
    BY <1>8
  <2>2. \A j, k \in 1 .. Len(others) : from[j] = from[k] => j = k
    BY <1>9
  <2>3. IsFiniteSet(rest) /\ Cardinality(rest) = Cardinality(Motes) - 1
        /\ Cardinality(Motes) \in Nat
    BY FS_RemoveElement, FS_CardinalityType
  <2>4. Cardinality(1 .. Len(others)) = Len(others)
    <3>1. 1 \in Int /\ Len(others) \in Int
      BY <1>7
    <3>2. Cardinality(1 .. Len(others)) = IF 1 > Len(others) THEN 0 ELSE Len(others) - 1 + 1
      BY <3>1, FS_Interval
    <3> QED
      BY <1>7, <3>2
  <2> HIDE DEF from, rest
  <2>5. from \in Injection(1 .. Len(others), rest)
    BY <2>1, <2>2 DEF Injection, IsInjective
  <2>6. Cardinality(1 .. Len(others)) <= Cardinality(rest)
    BY <2>3, <2>5, FS_Injection
  <2> QED
    BY <1>7, <2>3, <2>4, <2>6, MaxSeqnosAssumption
<1>11. PICK e : e = Entry(m, s)
  OBVIOUS
<1>12. received_seqnos' = <<e>> \o others
  BY <1>1, <1>10, <1>11 DEF RegisterSeqno, Entry
<1>13. e \in Entries /\ e.sender = m /\ e.seqno = s
  BY <1>11 DEF Entries, Entry
<1>14. PICK new : new = <<e>> \o others
  OBVIOUS
<1>15. /\ Len(new) = Len(others) + 1 /\ new[1] = e
       /\ \A j \in 1 .. Len(others) : new[j + 1] = others[j]
  BY <1>5, <1>13, <1>14
<1>16. \A d : OnList(d, new) <=> OnList(d, others) \/ d = e
  BY <1>5, <1>13, <1>14, ConsIs
<1>17. SendersOnce(new)
  <2>1. ASSUME NEW j \in 1 .. Len(new), j # 1
        PROVE  \E i \in 1 .. Len(others) : j = i + 1
    <3>1. j - 1 \in 1 .. Len(others) /\ j = j - 1 + 1
      BY <1>7, <1>15, <2>1
    <3> QED
      BY <3>1
  <2>2. \A j \in 1 .. Len(new) : j # 1 => new[j].sender # new[1].sender
    BY <1>8, <1>13, <1>15, <2>1
  <2>3. ASSUME NEW j \in 1 .. Len(new), NEW k \in 1 .. Len(new), j # 1, k # 1,
               new[j].sender = new[k].sender
        PROVE  j = k
    <3>1. PICK i, l \in 1 .. Len(others) : j = i + 1 /\ k = l + 1
      BY <2>1, <2>3
    <3>2. i = l
      BY <1>9, <1>15, <2>3, <3>1
    <3> QED
      BY <3>1, <3>2
  <2> QED
    BY <2>2, <2>3 DEF SendersOnce
<1>18. ASSUME NEW n, NEW t
       PROVE  OnList(Entry(n, t), new)
                <=> IF n = m THEN t = s ELSE OnList(Entry(n, t), received_seqnos)
  <2>1. Entry(n, t).sender = n /\ Entry(n, t).seqno = t
    BY DEF Entry
  <2>2. Entry(n, t) = e <=> n = m /\ t = s
    BY <1>11, <1>13, <2>1
  <2>3. OnList(Entry(n, t), others) <=> OnList(Entry(n, t), old) /\ n # m
    BY <1>6, <2>1
  <2> QED
    BY <1>1, <1>16, <2>2, <2>3
<1> QED
  BY <1>12, <1>14, <1>17, <1>18 DEF Registered

\* No datagram has two contexts, and no fragment is stored twice.
Once(info, bufs) ==
  /\ \A c \in Contexts : ~info[c].twice
  /\ \A c, e \in Contexts :
       info[c].len # 0 /\ info[e].len # 0 /\ info[c].datagram = info[e].datagram => c = e
  /\ \A a, b \in bufs : a.index = b.index /\ a.offset = b.offset => a = b

\* What is stored of the datagram that a mote sends was sent already.
Behind(bufs, mt) ==
  \A m \in Motes : \A b \in bufs :
    mt[m].size # 0 /\ b.data = Current(mt, m) => b.offset # 0 /\ b.offset <= mt[m].offset

\* The fragment that a mote sends has been taken.
Came(info, bufs, mt, m) ==
  \/ /\ mt[m].offset = 0
     /\ \E c \in Contexts : info[c].len # 0 /\ info[c].datagram = Current(mt, m)
  \/ /\ mt[m].offset # 0
     /\ \E b \in bufs : b.data = Current(mt, m) /\ b.offset = mt[m].offset

\* Then the mote's last sequence number is that of this fragment.
Seen(info, bufs, mt, seqs) ==
  \A m \in Motes :
    mt[m].size # 0 /\ Came(info, bufs, mt, m)
      => OnList(Entry(m, <<mt[m].tag, mt[m].offset>>), seqs)

LEMMA ClearedOnce ==
  ASSUME NEW info, NEW bufs, NEW cs, Cleared(info, bufs, cs), Once(frag_info, frag_buf)
  PROVE  Once(info, bufs)
<1>1. \A c \in Contexts : info[c].len # 0 => info[c] = frag_info[c]
  BY DEF Cleared
<1>2. \A c \in Contexts : ~info[c].twice
  BY DEF Cleared, Once
<1>3. \A b \in bufs : b \in frag_buf
  BY DEF Cleared
<1> QED
  BY <1>1, <1>2, <1>3 DEF Once

\* What input() of a fragment of m leaves for all others.
OthersKeep(m) ==
  \A n \in Motes \ {m} :
    Came(frag_info', frag_buf', mote, n) => Came(frag_info, frag_buf, mote, n)

\* A FRAG1 that is no duplicate makes the first context of its datagram.
LEMMA FirstOnce ==
  ASSUME NEW info, NEW bufs, NEW m \in Motes, mote[m].offset = 0,
         FirstDone(Current(mote, m), mote[m].size, info, bufs),
         Once(frag_info, frag_buf), Behind(frag_buf, mote),
         ~Came(frag_info, frag_buf, mote, m)
  PROVE  Once(frag_info', frag_buf') /\ Behind(frag_buf', mote) /\ OthersKeep(m)
<1>1. Cleared(info, bufs, TimedOut) /\ frag_buf' = bufs
  BY DEF FirstDone
<1>2. Once(info, bufs)
  BY <1>1, ClearedOnce
<1>3. /\ \A b \in bufs : b \in frag_buf
      /\ \A c \in Contexts : info[c].len # 0 => info[c] = frag_info[c]
  BY <1>1 DEF Cleared
<1>4. Behind(frag_buf', mote)
  BY <1>1, <1>3 DEF Behind
<1>5. CASE frag_info' = info
  <2>1. OthersKeep(m)
    BY <1>1, <1>3, <1>5 DEF OthersKeep, Came
  <2> QED
    BY <1>1, <1>2, <1>4, <1>5, <2>1
<1>6. ASSUME NEW c \in Contexts, info[c].len = 0, Changed(info, c, frag_info'),
             Begun(frag_info'[c], Current(mote, m), mote[m].size),
             frag_info'[c].twice = info[c].twice
      PROVE  Once(frag_info', frag_buf') /\ OthersKeep(m)
  <2>1. \A e \in Contexts : info[e].len # 0 => info[e].datagram # Current(mote, m)
    BY <1>3 DEF Came
  <2>2. \A e \in Contexts : e # c => frag_info'[e] = info[e]
    BY <1>6 DEF Changed
  <2>3. frag_info'[c].datagram = Current(mote, m)
    BY <1>6 DEF Begun
  <2>4. Once(frag_info', bufs)
    <3>1. \A e \in Contexts : ~frag_info'[e].twice
      BY <1>2, <1>6, <2>2 DEF Once
    <3>2. ASSUME NEW e \in Contexts, NEW f \in Contexts,
                 frag_info'[e].len # 0, frag_info'[f].len # 0,
                 frag_info'[e].datagram = frag_info'[f].datagram
          PROVE  e = f
      BY <1>2, <2>1, <2>2, <2>3, <3>2 DEF Once
    <3> QED
      BY <1>2, <3>1, <3>2 DEF Once
  <2>5. ASSUME NEW n \in Motes \ {m}, Came(frag_info', bufs, mote, n)
        PROVE  Came(frag_info, frag_buf, mote, n)
    <3>1. Current(mote, n) # Current(mote, m)
      BY DEF Current
    <3> QED
      BY <1>3, <2>2, <2>3, <2>5, <3>1 DEF Came
  <2> QED
    BY <1>1, <2>4, <2>5 DEF OthersKeep
<1> QED
  BY <1>4, <1>5, <1>6 DEF FirstDone

\* A FRAGN that is no duplicate is not stored yet.
LEMMA NextOnce ==
  ASSUME NEW c, NEW info, NEW bufs, NEW cs, NEW m \in Motes, mote[m].offset \in Nat,
         mote[m].offset # 0,
         NextDone(c, Current(mote, m), mote[m].size, mote[m].offset, info, bufs, cs),
         Once(frag_info, frag_buf), Behind(frag_buf, mote),
         ~Came(frag_info, frag_buf, mote, m)
  PROVE  Once(frag_info', frag_buf') /\ Behind(frag_buf', mote) /\ OthersKeep(m)
<1>1. PICK d, offset : d = Current(mote, m) /\ offset = mote[m].offset
  OBVIOUS
<1>2. /\ Cleared(info, bufs, cs) /\ Accounted(info, bufs)
      /\ c \in Contexts /\ frag_info[c].datagram = d
  BY <1>1 DEF NextDone
<1>3. Once(info, bufs)
  BY <1>2, ClearedOnce
<1>4. /\ \A b \in bufs : b \in frag_buf
      /\ \A e \in Contexts : info[e].len # 0 => info[e] = frag_info[e]
  BY <1>2 DEF Cleared
<1>5. Behind(bufs, mote)
  BY <1>4 DEF Behind
<1>6. \A n \in Motes \ {m} : Current(mote, n) # d
  BY <1>1 DEF Current
<1>7. \A n \in Motes : Came(info, bufs, mote, n) => Came(frag_info, frag_buf, mote, n)
  BY <1>4 DEF Came
<1>8. CASE frag_info' = info /\ frag_buf' = bufs
  BY <1>3, <1>5, <1>7, <1>8 DEF OthersKeep
<1>9. CASE /\ Changed(info, c, frag_info') /\ frag_info'[c].len = 0 /\ ~frag_info'[c].twice
           /\ frag_buf' = bufs
  <2>1. \A e \in Contexts : e # c => frag_info'[e] = info[e]
    BY <1>9 DEF Changed
  <2>2. Once(frag_info', bufs)
    BY <1>3, <1>9, <2>1 DEF Once
  <2>3. \A n \in Motes : Came(frag_info', bufs, mote, n) => Came(info, bufs, mote, n)
    BY <1>9, <2>1 DEF Came
  <2> QED
    BY <1>5, <1>7, <1>9, <2>2, <2>3 DEF OthersKeep
<1>10. CASE /\ c \notin cs /\ Changed(info, c, frag_info')
            /\ frag_info'[c].len = info[c].len /\ frag_info'[c].datagram = d
            /\ frag_info'[c].twice <=> info[c].twice \/ SameOffset(bufs, c, offset) # {}
            /\ frag_buf' = bufs \union {Fragment(c, offset, d,
                                                 Cardinality(SameOffset(bufs, c, offset)))}
  <2>1. \A e \in Contexts : e # c => frag_info'[e] = info[e]
    BY <1>10 DEF Changed
  <2>2. info[c].datagram = d
    BY <1>2, <1>10 DEF Cleared
  <2>3. \A a \in bufs : ~(a.index = c /\ a.offset = offset)
    <3> SUFFICES ASSUME NEW a \in bufs, a.index = c, a.offset = offset
                 PROVE  FALSE
      OBVIOUS
    <3>1. a.data = d
      BY <1>2, <2>2 DEF Accounted, BufferOK
    <3> QED
      BY <1>1, <1>4, <3>1 DEF Came
  <2>4. SameOffset(bufs, c, offset) = {}
    BY <2>3 DEF SameOffset
  <2>5. PICK b : /\ b = Fragment(c, offset, d, Cardinality(SameOffset(bufs, c, offset)))
                 /\ frag_buf' = bufs \union {b}
    BY <1>10
  <2>6. b.index = c /\ b.offset = offset /\ b.data = d
    BY <2>5 DEF Fragment
  <2>7. Once(frag_info', frag_buf')
    <3>1. \A e \in Contexts : ~frag_info'[e].twice
      BY <1>3, <1>10, <2>1, <2>4 DEF Once
    <3>2. \A e \in Contexts : /\ frag_info'[e].len = info[e].len
                              /\ frag_info'[e].datagram = info[e].datagram
      BY <1>10, <2>1, <2>2
    <3>3. \A a1, a2 \in bufs \union {b} :
            a1.index = a2.index /\ a1.offset = a2.offset => a1 = a2
      BY <1>3, <2>3, <2>6 DEF Once
    <3> QED
      BY <1>3, <2>5, <3>1, <3>2, <3>3 DEF Once
  <2>8. Behind(frag_buf', mote)
    <3> SUFFICES ASSUME NEW n \in Motes, NEW a \in bufs \union {b}, mote[n].size # 0,
                        a.data = Current(mote, n)
                 PROVE  a.offset # 0 /\ a.offset <= mote[n].offset
      BY <2>5 DEF Behind
    <3>1. CASE a = b
      <4>1. n = m
        BY <1>6, <2>6, <3>1
      <4> QED
        BY <1>1, <2>6, <3>1, <4>1
    <3>2. CASE a \in bufs
      BY <1>5, <3>2 DEF Behind
    <3> QED
      BY <3>1, <3>2
  <2>9. ASSUME NEW n \in Motes \ {m}, Came(frag_info', frag_buf', mote, n)
        PROVE  Came(info, bufs, mote, n)
    <3>1. \A e \in Contexts : /\ frag_info'[e].len = info[e].len
                              /\ frag_info'[e].datagram = info[e].datagram
      BY <1>10, <2>1, <2>2
    <3> QED
      BY <1>6, <2>5, <2>6, <2>9, <3>1 DEF Came
  <2> QED
    BY <1>7, <2>7, <2>8, <2>9 DEF OthersKeep
<1> QED
  BY <1>1, <1>8, <1>9, <1>10 DEF NextDone

\* The lengths add up only when every fragment is there: as many offsets as fragments
\* are below the one that came last.
LEMMA WholeIs ==
  ASSUME Accounted(frag_info, frag_buf), Once(frag_info, frag_buf),
         Behind(frag_buf, mote), NEW m \in Motes, ~Came(frag_info, frag_buf, mote, m),
         NEW c \in Contexts, frag_info[c].len # 0,
         NEW d, d = Current(mote, m), frag_info[c].datagram = d,
         NEW size \in Nat, NEW offset \in Nat, size = mote[m].size, offset = mote[m].offset,
         offset # 0, offset < size, frag_info[c].reassembled_len + 1 >= size,
         frag_info[c].first # Stale
  PROVE  /\ Packet(c, d, size, offset).first = d
         /\ Packet(c, d, size, offset).rest = {<<k, d>> : k \in 1 .. size - 1}
<1> DEFINE S == Of(frag_buf, c)
           at == [b \in S |-> b.offset]
<1>1. S \in SUBSET frag_buf /\ frag_buf \subseteq Bufs /\ IsFiniteSet(frag_buf)
  BY DEF Accounted, Typed, Of
<1>2. IsFiniteSet(S) /\ Cardinality(S) \in Nat
  BY <1>1, FS_Subset, FS_CardinalityType
<1>3. frag_info[c].first = d /\ frag_info[c].reassembled_len = 1 + Cardinality(S)
  BY DEF Accounted, ContextOK
<1>4. ASSUME NEW b \in S PROVE b.data = d /\ b.index = c /\ b.offset \in 1 .. offset - 1
  <2>1. b \in frag_buf /\ b.index = c /\ b.offset \in Nat
    BY <1>1 DEF Of, Bufs
  <2>2. b.data = d
    BY <2>1 DEF Accounted, BufferOK
  <2>3. mote[m].size # 0
    OBVIOUS
  <2>4. b.offset # 0 /\ b.offset <= offset
    BY <2>1, <2>2, <2>3 DEF Behind
  <2>5. b.offset # offset
    BY <2>1, <2>2 DEF Came
  <2> QED
    BY <2>1, <2>2, <2>4, <2>5
<1>5. at \in [S -> 1 .. offset - 1]
  BY <1>4
<1>6. \A a, b \in S : at[a] = at[b] => a = b
  BY <1>1, <1>4 DEF Once
<1>7. IsFiniteSet(1 .. offset - 1) /\ Cardinality(1 .. offset - 1) = offset - 1
  <2>1. 1 \in Int /\ offset - 1 \in Int
    OBVIOUS
  <2>2. /\ IsFiniteSet(1 .. offset - 1)
        /\ Cardinality(1 .. offset - 1) = IF 1 > offset - 1 THEN 0 ELSE offset - 1 - 1 + 1
    BY <2>1, FS_Interval
  <2> QED
    BY <2>2
<1>8. \A b \in S : at[b] = b.offset
  OBVIOUS
<1>9. PICK n \in Nat : n = Cardinality(S)
  BY <1>2
<1> HIDE DEF S, at
<1>10. at \in Injection(S, 1 .. offset - 1)
  BY <1>5, <1>6 DEF Injection, IsInjective
<1>11. /\ n <= offset - 1
       /\ n = offset - 1 => at \in Surjection(S, 1 .. offset - 1)
  BY <1>7, <1>9, <1>10, FS_Injection
<1>12. n = offset - 1 /\ offset = size - 1
  BY <1>3, <1>9, <1>11
<1>13. \A k \in 1 .. offset - 1 : \E b \in S : b.offset = k
  BY <1>8, <1>11, <1>12 DEF Surjection
<1>14. Stored(c) = S
  BY DEF Stored, Of, S
<1>15. PICK stored : stored = {<<b.offset, b.data>> : b \in S}
  OBVIOUS
<1>16. stored = {<<k, d>> : k \in 1 .. offset - 1}
  BY <1>4, <1>13, <1>15
<1>17. stored \union {<<offset, d>>} = {<<k, d>> : k \in 1 .. size - 1}
  <2>1. \A k : k \in 1 .. size - 1 <=> k \in 1 .. offset - 1 \/ k = offset
    BY <1>12
  <2> QED
    BY <1>16, <2>1
<1> QED
  BY <1>3, <1>14, <1>15, <1>17 DEF Packet

OnceInv ==
  /\ ReassInv
  /\ SendersOnce(received_seqnos)
  /\ Once(frag_info, frag_buf)
  /\ Behind(frag_buf, mote)
  /\ Seen(frag_info, frag_buf, mote, received_seqnos)
  /\ DeliveredWhole

LEMMA NoPacketWhole ==
  ASSUME uip_buf' = NoPacket
  PROVE  DeliveredWhole'
BY DEF DeliveredWhole, NoPacket

LEMMA InitOnce ==
  ASSUME ReassInit
  PROVE  OnceInv
<1>1. SendersOnce(received_seqnos)
  BY DEF ReassInit, SendersOnce
<1>2. frag_buf = {} /\ \A c \in Contexts : frag_info[c].len = 0 /\ ~frag_info[c].twice
  BY DEF ReassInit
<1>3. Once(frag_info, frag_buf) /\ Behind(frag_buf, mote)
  BY <1>2 DEF Once, Behind
<1>4. Seen(frag_info, frag_buf, mote, received_seqnos)
  BY <1>2 DEF Seen, Came
<1>5. DeliveredWhole
  BY DEF ReassInit, DeliveredWhole, NoPacket
<1> QED
  BY <1>1, <1>3, <1>4, <1>5, ReassInitInv DEF OnceInv

\* A fragment that is not a duplicate has not come yet.
LEMMA NotDuplicate ==
  ASSUME OnceInv, NEW m \in Motes, mote[m].size # 0, ~IsDuplicate(m, Seqno(m))
  PROVE  ~Came(frag_info, frag_buf, mote, m)
BY DuplicateIs DEF OnceInv, Seen, Seqno

LEMMA ReceivedOnce ==
  ASSUME IsFiniteSet(Motes), Cardinality(Motes) <= MaxSeqnos,
         OnceInv, NEW m \in Motes, FragmentReceived(m)
  PROVE  OnceInv'
<1>0. ReassInv /\ Accounted(frag_info, frag_buf) /\ MotesOK(frag_info, mote)
      /\ SeqsOK(received_seqnos)
  BY DEF OnceInv, ReassInv
<1>1. /\ InputDone(m)
      /\ mote' = mote /\ RegisterSeqno(m, Seqno(m)) /\ ~IsDuplicate(m, Seqno(m))
      /\ Current(mote, m) \in Datagrams /\ mote[m].size \in Sizes
      /\ mote[m].offset \in Nat /\ mote[m].offset < mote[m].size
  BY <1>0, ReceivedIs
<1>2. mote[m].size \in Nat /\ mote[m].size # 0
  BY <1>1, SizeIs
<1>3. ~Came(frag_info, frag_buf, mote, m)
  BY <1>1, <1>2, NotDuplicate
<1>4. Once(frag_info', frag_buf') /\ Behind(frag_buf', mote) /\ OthersKeep(m)
  <2>1. CASE frag_info' = frag_info /\ frag_buf' = frag_buf
    BY <2>1 DEF OnceInv, OthersKeep
  <2>2. ASSUME mote[m].offset = 0, NEW info, NEW bufs,
               FirstDone(Current(mote, m), mote[m].size, info, bufs)
        PROVE  Once(frag_info', frag_buf') /\ Behind(frag_buf', mote) /\ OthersKeep(m)
    BY <1>3, <2>2, FirstOnce DEF OnceInv
  <2>3. ASSUME mote[m].offset # 0, NEW c, NEW info, NEW bufs, NEW cs,
               NextDone(c, Current(mote, m), mote[m].size, mote[m].offset, info, bufs, cs)
        PROVE  Once(frag_info', frag_buf') /\ Behind(frag_buf', mote) /\ OthersKeep(m)
    BY <1>1, <1>3, <2>3, NextOnce DEF OnceInv
  <2> QED
    BY <1>1, <2>1, <2>2, <2>3 DEF InputDone
<1>5. Registered(m, Seqno(m), received_seqnos')
  <2>1. Seqno(m) \in Seqnos
    BY <1>1 DEF Seqno, Seqnos, Current, Datagrams
  <2> QED
    BY <1>0, <1>1, <2>1, RegisterOnce DEF OnceInv
<1>6. Seen(frag_info', frag_buf', mote, received_seqnos')
  <2> SUFFICES ASSUME NEW n \in Motes, mote[n].size # 0,
                      Came(frag_info', frag_buf', mote, n)
               PROVE  OnList(Entry(n, <<mote[n].tag, mote[n].offset>>), received_seqnos')
    BY DEF Seen
  <2>1. CASE n = m
    BY <1>5, <2>1 DEF Registered, Seqno
  <2>2. CASE n # m
    <3>1. Came(frag_info, frag_buf, mote, n)
      BY <1>4, <2>2 DEF OthersKeep
    <3>2. OnList(Entry(n, <<mote[n].tag, mote[n].offset>>), received_seqnos)
      BY <3>1 DEF OnceInv, Seen
    <3> QED
      BY <1>5, <2>2, <3>2 DEF Registered
  <2> QED
    BY <2>1, <2>2
<1>7. DeliveredWhole'
  <2>1. CASE uip_buf' = NoPacket
    BY <2>1, NoPacketWhole
  <2>2. ASSUME mote[m].offset # 0, NEW c, NEW info, NEW bufs, NEW cs,
               NextDone(c, Current(mote, m), mote[m].size, mote[m].offset, info, bufs, cs),
               uip_buf' # NoPacket
        PROVE  DeliveredWhole'
    <3>1. PICK d, size, offset : /\ d = Current(mote, m) /\ size = mote[m].size
                                 /\ offset = mote[m].offset
      OBVIOUS
    <3>2. /\ c \in Contexts /\ frag_info[c].len # 0 /\ frag_info[c].datagram = d
          /\ frag_info[c].reassembled_len + 1 >= size
          /\ uip_buf' = Packet(c, d, size, offset)
      BY <2>2, <3>1 DEF NextDone
    <3>3. Packet(c, d, size, offset).size = size
          /\ Packet(c, d, size, offset).first = frag_info[c].first
      BY DEF Packet
    <3>4. frag_info[c].first # Stale =>
            /\ Packet(c, d, size, offset).first = d
            /\ Packet(c, d, size, offset).rest = {<<k, d>> : k \in 1 .. size - 1}
      <4>1. size \in Nat /\ offset \in Nat /\ offset # 0 /\ offset < size
        BY <1>1, <1>2, <2>2, <3>1
      <4>2. Once(frag_info, frag_buf) /\ Behind(frag_buf, mote)
        BY DEF OnceInv
      <4> QED
        BY <1>0, <1>3, <3>1, <3>2, <4>1, <4>2, WholeIs
    <3>5. PICK packet : packet = Packet(c, d, size, offset)
      OBVIOUS
    <3>6. uip_buf' = packet
      BY <3>2, <3>5
    <3>7. packet.first # Stale => packet.rest = {<<k, packet.first>> : k \in 1 .. packet.size - 1}
      BY <3>3, <3>4, <3>5
    <3> QED
      BY <3>6, <3>7 DEF DeliveredWhole
  <2> QED
    BY <1>1, <2>1, <2>2 DEF InputDone, FirstDone
<1> QED
  BY <1>0, <1>1, <1>4, <1>5, <1>6, <1>7, ReceivedKeeps DEF OnceInv, Registered

LEMMA NewDatagramOnce ==
  ASSUME OnceInv, NEW m \in Motes, NEW size \in Sizes, NewDatagram(m, size)
  PROVE  OnceInv'
<1>1. ReassInv'
  BY NewDatagramKeeps DEF OnceInv
<1>2. PICK tag : /\ mote' = [mote EXCEPT ![m] = [tag |-> tag, size |-> size, offset |-> 0]]
                 /\ \A c \in Open : frag_info[c].datagram # <<m, tag>>
  BY DEF NewDatagram
<1>3. uip_buf' = NoPacket
      /\ frag_info' = frag_info /\ frag_buf' = frag_buf /\ received_seqnos' = received_seqnos
  BY DEF NewDatagram
<1>4. Accounted(frag_info, frag_buf) /\ mote \in [Motes -> [tag : Tags, size : Sizes \union {0}, offset : Nat]]
  BY DEF OnceInv, ReassInv, MotesOK
<1>5. /\ mote'[m].tag = tag /\ mote'[m].offset = 0
      /\ \A n \in Motes \ {m} : mote'[n] = mote[n]
  BY <1>2, <1>4
<1>6. \A c \in Contexts : frag_info[c].len # 0 => frag_info[c].datagram # <<m, tag>>
  <2> SUFFICES ASSUME NEW c \in Contexts, frag_info[c].len # 0
               PROVE  c \in Open
    BY <1>2
  <2>1. frag_info[c].len \in Sizes
    BY <1>4 DEF Accounted, Typed, Infos
  <2>2. frag_info[c].len > 0
    BY <2>1, SizeIs
  <2> QED
    BY <2>2 DEF Open
<1>7. \A b \in frag_buf : b.data # <<m, tag>>
  <2> SUFFICES ASSUME NEW b \in frag_buf PROVE b.data # <<m, tag>>
    OBVIOUS
  <2>1. b.index \in Contexts
    BY <1>4 DEF Accounted, Typed, Bufs
  <2> QED
    BY <1>4, <1>6, <2>1 DEF Accounted, BufferOK
<1>8. Current(mote', m) = <<m, tag>> /\ \A n \in Motes \ {m} : Current(mote', n) = Current(mote, n)
  BY <1>5 DEF Current
<1>9. Behind(frag_buf, mote')
  BY <1>5, <1>7, <1>8 DEF OnceInv, Behind
<1>10. Seen(frag_info, frag_buf, mote', received_seqnos)
  <2>1. ~Came(frag_info, frag_buf, mote', m)
    BY <1>5, <1>6, <1>8 DEF Came
  <2>2. \A n \in Motes \ {m} : Came(frag_info, frag_buf, mote', n) => Came(frag_info, frag_buf, mote, n)
    BY <1>5, <1>8 DEF Came
  <2> QED
    BY <1>5, <2>1, <2>2 DEF OnceInv, Seen
<1> QED
  BY <1>1, <1>3, <1>9, <1>10, NoPacketWhole DEF OnceInv

LEMMA NextToSendOnce ==
  ASSUME OnceInv, NEW m \in Motes, NextToSend(m)
  PROVE  OnceInv'
<1>1. ReassInv'
  BY NextToSendKeeps DEF OnceInv
<1>2. mote \in [Motes -> [tag : Tags, size : Sizes \union {0}, offset : Nat]]
  BY DEF OnceInv, ReassInv, MotesOK
<1>3. uip_buf' = NoPacket
      /\ frag_info' = frag_info /\ frag_buf' = frag_buf /\ received_seqnos' = received_seqnos
  BY DEF NextToSend
<1>4. PICK f : f = mote[m]
  OBVIOUS
<1>5. f.tag \in Tags /\ f.size \in Sizes \union {0} /\ f.offset \in Nat
  BY <1>2, <1>4
<1>6. PICK g : /\ mote' = [mote EXCEPT ![m] = g]
               /\ g = IF f.offset + 1 < f.size THEN [f EXCEPT !.offset = f.offset + 1]
                      ELSE Idle(f.tag)
  BY <1>4 DEF NextToSend
<1>7. g.tag = f.tag /\ (g.size = 0 \/ (g.size = f.size /\ g.offset = f.offset + 1))
  <2>1. CASE f.offset + 1 < f.size
    <3>1. g = [f EXCEPT !.offset = f.offset + 1]
      BY <1>6, <2>1
    <3> QED
      BY <1>2, <1>4, <1>5, <3>1
  <2>2. CASE ~(f.offset + 1 < f.size)
    <3>1. g = Idle(f.tag)
      BY <1>6, <2>2
    <3> QED
      BY <3>1 DEF Idle
  <2> QED
    BY <2>1, <2>2
<1>8. mote'[m] = g /\ \A n \in Motes \ {m} : mote'[n] = mote[n]
  BY <1>2, <1>6
<1>9. \A n \in Motes : Current(mote', n) = Current(mote, n)
  BY <1>4, <1>7, <1>8 DEF Current
<1>10. \A n \in Motes \ {m} : Came(frag_info, frag_buf, mote', n) => Came(frag_info, frag_buf, mote, n)
  BY <1>8, <1>9 DEF Came
<1>11. ASSUME g.size # 0, NEW b \in frag_buf, b.data = Current(mote', m)
       PROVE  b.offset # 0 /\ b.offset \in Nat /\ b.offset <= f.offset
  <2>1. b.offset \in Nat
    BY DEF OnceInv, ReassInv, Accounted, Typed, Bufs
  <2>2. b.data = Current(mote, m) /\ f.size # 0
    BY <1>7, <1>9, <1>11
  <2> QED
    BY <1>4, <2>1, <2>2 DEF OnceInv, Behind
<1>12. Behind(frag_buf, mote')
  <2> SUFFICES ASSUME NEW n \in Motes, NEW b \in frag_buf, mote'[n].size # 0,
                      b.data = Current(mote', n)
               PROVE  b.offset # 0 /\ b.offset <= mote'[n].offset
    BY DEF Behind
  <2>1. CASE n = m
    <3>1. g.size # 0 /\ mote'[n].offset = f.offset + 1
      BY <1>7, <1>8, <2>1
    <3>2. b.offset # 0 /\ b.offset \in Nat /\ b.offset <= f.offset
      BY <1>11, <2>1, <3>1
    <3> QED
      BY <1>5, <3>1, <3>2
  <2>2. CASE n # m
    BY <1>8, <1>9, <2>2 DEF OnceInv, Behind
  <2> QED
    BY <2>1, <2>2
<1>13. g.size # 0 => ~Came(frag_info, frag_buf, mote', m)
  <2> SUFFICES ASSUME g.size # 0, Came(frag_info, frag_buf, mote', m) PROVE FALSE
    OBVIOUS
  <2>1. mote'[m].offset = f.offset + 1 /\ f.offset + 1 # 0
    BY <1>5, <1>7, <1>8
  <2>2. PICK b \in frag_buf : b.data = Current(mote', m) /\ b.offset = f.offset + 1
    BY <2>1 DEF Came
  <2>3. b.offset \in Nat /\ b.offset <= f.offset
    BY <1>11, <2>2
  <2> QED
    BY <1>5, <2>2, <2>3
<1>14. Seen(frag_info, frag_buf, mote', received_seqnos)
  BY <1>8, <1>10, <1>13 DEF OnceInv, Seen
<1> QED
  BY <1>1, <1>3, <1>12, <1>14, NoPacketWhole DEF OnceInv

LEMMA OtherFrameOnce ==
  ASSUME ~Interleaved, IsFiniteSet(Motes), Cardinality(Motes) <= MaxSeqnos,
         OnceInv, NEW m \in Motes, OtherFrame(m)
  PROVE  OnceInv'
<1>1. ReassInv'
  BY OtherFrameKeeps DEF OnceInv
<1>2. /\ uip_buf' = NoPacket /\ RegisterSeqno(m, NoFragment)
      /\ frag_info' = frag_info /\ frag_buf' = frag_buf /\ mote' = mote
      /\ ~Sending(m) \/ ~IsDuplicate(m, Seqno(m))
  BY DEF OtherFrame
<1>3. Registered(m, NoFragment, received_seqnos')
  <2>1. NoFragment \in Seqnos /\ SeqsOK(received_seqnos)
    BY DEF Seqnos, OnceInv, ReassInv
  <2> QED
    BY <1>2, <2>1, RegisterOnce DEF OnceInv
<1>4. mote[m].size # 0 => ~Came(frag_info, frag_buf, mote, m)
  <2> SUFFICES ASSUME mote[m].size # 0 PROVE ~Came(frag_info, frag_buf, mote, m)
    OBVIOUS
  <2>1. mote[m].size \in Sizes
    BY DEF OnceInv, ReassInv, MotesOK
  <2>2. Sending(m)
    BY <2>1, SizeIs DEF Sending
  <2> QED
    BY <1>2, <2>2, NotDuplicate
<1>5. Seen(frag_info, frag_buf, mote, received_seqnos')
  BY <1>3, <1>4 DEF OnceInv, Seen, Registered
<1> QED
  BY <1>1, <1>2, <1>3, <1>5, NoPacketWhole DEF OnceInv, Registered

LEMMA TimePassesOnce ==
  ASSUME OnceInv, TimePasses
  PROVE  OnceInv'
<1>1. ReassInv' /\ frag_buf' = frag_buf /\ mote' = mote /\ uip_buf' = NoPacket
  BY TimePassesKeeps DEF OnceInv, TimePasses
<1>2. CASE /\ \E c \in Open \ TimedOut : frag_info' = [frag_info EXCEPT ![c].timer = TRUE]
           /\ UNCHANGED received_seqnos
  <2>1. PICK c \in Contexts : frag_info' = [frag_info EXCEPT ![c].timer = TRUE]
    BY <1>2 DEF Open
  <2>2. frag_info \in [Contexts -> Infos]
    BY DEF OnceInv, ReassInv, Accounted, Typed
  <2>3. \A e \in Contexts :
          /\ frag_info'[e].len = frag_info[e].len
          /\ frag_info'[e].datagram = frag_info[e].datagram
          /\ frag_info'[e].twice = frag_info[e].twice
    BY <2>1, <2>2 DEF Infos
  <2>4. Once(frag_info', frag_buf)
    BY <2>3 DEF OnceInv, Once
  <2>5. \A m \in Motes : Came(frag_info', frag_buf, mote, m) => Came(frag_info, frag_buf, mote, m)
    BY <2>3 DEF Came
  <2>6. Seen(frag_info', frag_buf, mote, received_seqnos)
    BY <2>5 DEF OnceInv, Seen
  <2> QED
    BY <1>1, <1>2, <2>4, <2>6, NoPacketWhole DEF OnceInv
<1>3. CASE /\ \E k \in 1 .. Len(received_seqnos) :
                LET m == received_seqnos[k].sender
                IN  ~(Sending(m) /\ IsDuplicate(m, Seqno(m))) /\ SeqnoAges(k)
           /\ UNCHANGED frag_info
  <2>1. PICK k \in 1 .. Len(received_seqnos) :
          \E m : /\ m = received_seqnos[k].sender
                /\ ~(Sending(m) /\ IsDuplicate(m, Seqno(m)))
                /\ Ages(received_seqnos, k, received_seqnos')
    BY <1>3 DEF SeqnoAges, Ages
  <2> PICK m : /\ m = received_seqnos[k].sender
               /\ ~(Sending(m) /\ IsDuplicate(m, Seqno(m)))
               /\ Ages(received_seqnos, k, received_seqnos')
    BY <2>1
  <2>2. PICK old, new : old = received_seqnos /\ new = received_seqnos'
    OBVIOUS
  <2>3. SeqsOK(old)
    BY <2>2 DEF OnceInv, ReassInv
  <2>4. /\ Len(new) = Len(old)
        /\ \A j \in 1 .. Len(old) : new[j].sender = old[j].sender /\ (j # k => new[j] = old[j])
    BY <2>1, <2>2, <2>3, AgesIs
  <2>5. SendersOnce(new)
    BY <2>2, <2>4 DEF OnceInv, SendersOnce
  <2>6. m \in Motes
    <3>1. old \in Seq(Entries) /\ k \in 1 .. Len(old)
      BY <2>1, <2>2, <2>3 DEF SeqsOK
    <3>2. old[k] \in Entries
      BY <3>1
    <3> QED
      BY <2>1, <2>2, <3>2 DEF Entries
  <2>7. mote[m].size # 0 => ~Came(frag_info, frag_buf, mote, m)
    <3> SUFFICES ASSUME mote[m].size # 0 PROVE ~Came(frag_info, frag_buf, mote, m)
      OBVIOUS
    <3>1. mote[m].size \in Sizes
      BY <2>6 DEF OnceInv, ReassInv, MotesOK
    <3>2. Sending(m)
      BY <3>1, SizeIs DEF Sending
    <3> QED
      BY <2>1, <2>6, <3>2, NotDuplicate
  <2>8. ASSUME NEW n \in Motes, n # m, NEW t, OnList(Entry(n, t), old)
        PROVE  OnList(Entry(n, t), new)
    <3>1. PICK j \in 1 .. Len(old) : old[j] = Entry(n, t)
      BY <2>8 DEF OnList
    <3>2. old[j].sender = n
      BY <3>1 DEF Entry
    <3>3. new[j] = old[j]
      BY <2>1, <2>2, <2>4, <2>8, <3>2
    <3> QED
      BY <2>4, <3>1, <3>3 DEF OnList
  <2>9. Seen(frag_info, frag_buf, mote, new)
    BY <2>2, <2>7, <2>8 DEF OnceInv, Seen
  <2> QED
    BY <1>1, <1>3, <2>2, <2>5, <2>9, NoPacketWhole DEF OnceInv
<1> QED
  BY <1>2, <1>3 DEF TimePasses

\* Each step keeps what CountedOnce and DeliveredWhole rest on.
LEMMA OnceInvariance ==
  ASSUME ~Interleaved, IsFiniteSet(Motes), Cardinality(Motes) <= MaxSeqnos
  PROVE  ReassSpec => []OnceInv
<1>1. ASSUME OnceInv, [ReassNext]_reassVars PROVE OnceInv'
  <2>1. ASSUME NEW m \in Motes, NEW size \in Sizes, NewDatagram(m, size) PROVE OnceInv'
    BY <1>1, <2>1, NewDatagramOnce
  <2>2. ASSUME NEW m \in Motes, FragmentReceived(m) PROVE OnceInv'
    BY <1>1, <2>2, ReceivedOnce
  <2>3. ASSUME NEW m \in Motes, NextToSend(m) PROVE OnceInv'
    BY <1>1, <2>3, NextToSendOnce
  <2>4. ASSUME NEW m \in Motes, OtherFrame(m) PROVE OnceInv'
    BY <1>1, <2>4, OtherFrameOnce
  <2>5. CASE TimePasses
    BY <1>1, <2>5, TimePassesOnce
  <2>6. CASE UNCHANGED reassVars
    BY <1>1, <2>6 DEF reassVars, OnceInv, ReassInv, DeliveredWhole
  <2> QED
    BY <1>1, <2>1, <2>2, <2>3, <2>4, <2>5, <2>6 DEF ReassNext
<1>2. ReassInit => OnceInv
  BY InitOnce
<1> QED
  BY <1>1, <1>2, PTL DEF ReassSpec

\* A fragment that is sent again because its acknowledgement was lost is neither counted
\* again nor the start of a second reassembly, as long as mac-sequence.c has room for
\* every sender and a mote sends nothing else between two transmissions of a fragment.
THEOREM NoneCountedTwice ==
  ASSUME ~Interleaved, IsFiniteSet(Motes), Cardinality(Motes) <= MaxSeqnos
  PROVE  ReassSpec => []CountedOnce
<1>1. OnceInv => CountedOnce
  <2> SUFFICES ASSUME OnceInv PROVE CountedOnce
    OBVIOUS
  <2>1. \A c \in Open : c \in Contexts /\ frag_info[c].len # 0
    BY DEF Open
  <2> QED
    BY <2>1 DEF OnceInv, Once, CountedOnce
<1>2. ReassSpec => []OnceInv
  BY OnceInvariance
<1> QED
  BY <1>1, <1>2, PTL

\* Then what tcpip_input() is called with is all of one datagram of one mote, whatever
\* is lost, sent again, late or given up for want of contexts and buffers.
THEOREM WholeOrNothing ==
  ASSUME ~Interleaved, IsFiniteSet(Motes), Cardinality(Motes) <= MaxSeqnos
  PROVE  ReassSpec => []DeliveredWhole
<1>1. OnceInv => DeliveredWhole
  BY DEF OnceInv
<1>2. ReassSpec => []OnceInv
  BY OnceInvariance
<1> QED
  BY <1>1, <1>2, PTL
=============================================================================
