------------------------------ MODULE RplNs_proofs ------------------------------
(***************************************************************************)
(* Theorems about the topology of a non-storing DODAG, for every number of *)
(* motes and blocks.                                                       *)
(*                                                                         *)
(* HopsAnnouncedUnlessOrphaned is inductive as it stands.  Its proof does  *)
(* not look into rpl_ns_is_node_reachable(): whether the new parent is     *)
(* taken or refused, what the node has is a parent that was announced.     *)
(*                                                                         *)
(* That no path is lost does.  Its loop is as good as a path of any length *)
(* (ReachableIs), since a path passes no block twice.  A path that passes  *)
(* no orphan passes no block that has just been allocated or freed         *)
(* (AttachedStays), given that the root itself never expires (RootKnown),  *)
(* and a new parent that leaves its own node a path leaves one to every    *)
(* node that had one (LeadsAround), through freed blocks or not.           *)
(***************************************************************************)
EXTENDS RplNs, Integers, FiniteSetTheorems, WellFoundedInduction, TLAPS

Inv == HopsAnnouncedUnlessOrphaned

Hops ==
  \A s \in Nodes \ orphans : parent[s] # Null =>
    parent[s] \in Nodes /\ id[parent[s]] = announced[s]

-----------------------------------------------------------------------------
(* The least of some numbers, and what the functions on lists return.      *)

LEMMA LeastOf ==
  ASSUME NEW S \in SUBSET Nat, S # {}
  PROVE  \E x \in S : \A y \in S : x <= y
<1>1. PICK x \in S : \A y \in S : ~ (<<y, x>> \in OpToRel(<, Nat))
  BY WFMin, NatLessThanWellFounded, Zenon
<1>2. x \in Nat /\ \A y \in S : y \in Nat
  OBVIOUS
<1>3. \A y \in S : ~ (y < x)
  BY <1>1, <1>2, Zenon DEF OpToRel
<1> QED
  BY <1>2, <1>3

LEMMA RemoveFromIs ==
  ASSUME NEW S, NEW list \in Seq(S), NEW c, NoRepetition(list)
  PROVE  /\ RemoveFrom(list, c) \in Seq(S)
         /\ Len(RemoveFrom(list, c)) <= Len(list)
         /\ \A d : OnList(d, RemoveFrom(list, c)) <=> OnList(d, list) /\ d # c
         /\ NoRepetition(RemoveFrom(list, c))
<1>1. CASE ~OnList(c, list)
  BY <1>1 DEF RemoveFrom, OnList
<1>2. CASE OnList(c, list)
  <2>1. PICK n : n = Len(list)
    OBVIOUS
  <2>2. n \in Nat /\ n > 0 /\ \A j \in 1 .. n : list[j] \in S
    BY <1>2, <2>1 DEF OnList
  <2>3. \A i, j \in 1 .. n : list[i] = list[j] => i = j
    BY <2>1 DEF NoRepetition
  <2>4. PICK k : k = CHOOSE i \in 1 .. n : list[i] = c /\ \A j \in 1 .. i - 1 : list[j] # c
    OBVIOUS
  <2>5. k \in 1 .. n /\ list[k] = c
    <3>1. PICK i \in 1 .. n : list[i] = c
      BY <1>2, <2>1 DEF OnList
    <3>2. \A j \in 1 .. i - 1 : list[j] # c
      BY <2>2, <2>3, <3>1
    <3> QED
      BY <2>4, <3>1, <3>2
  <2>6. PICK rest : rest = [j \in 1 .. n - 1 |-> IF j < k THEN list[j] ELSE list[j + 1]]
    OBVIOUS
  <2>7. RemoveFrom(list, c) = rest
    BY <1>2, <2>1, <2>4, <2>6 DEF RemoveFrom
  <2>8. /\ rest \in Seq(S) /\ Len(rest) = n - 1
        /\ \A j \in 1 .. n - 1 : rest[j] = IF j < k THEN list[j] ELSE list[j + 1]
    BY <2>2, <2>6
  <2>9. \A i, j \in 1 .. n - 1 : rest[i] = rest[j] => i = j
    BY <2>2, <2>3, <2>5, <2>8
  <2>10. ASSUME NEW d
         PROVE  OnList(d, rest) <=> OnList(d, list) /\ d # c
    <3>1. ASSUME NEW j \in 1 .. n - 1, rest[j] = d
          PROVE  OnList(d, list) /\ d # c
      <4>1. CASE j < k
        BY <2>1, <2>2, <2>3, <2>5, <2>8, <3>1, <4>1 DEF OnList
      <4>2. CASE ~(j < k)
        <5>1. j + 1 \in 1 .. n /\ list[j + 1] = d /\ j + 1 # k
          BY <2>2, <2>5, <2>8, <3>1, <4>2
        <5> QED
          BY <2>1, <2>3, <2>5, <5>1 DEF OnList
      <4> QED
        BY <4>1, <4>2
    <3>2. ASSUME NEW i \in 1 .. n, list[i] = d, d # c
          PROVE  \E j \in 1 .. n - 1 : rest[j] = d
      <4>1. CASE i < k
        BY <2>2, <2>5, <2>8, <3>2, <4>1
      <4>2. CASE i > k
        <5>1. i - 1 \in 1 .. n - 1 /\ ~(i - 1 < k) /\ (i - 1) + 1 = i
          BY <2>2, <2>5, <4>2
        <5> QED
          BY <2>8, <3>2, <5>1
      <4> QED
        BY <2>2, <2>5, <3>2, <4>1, <4>2
    <3> QED
      BY <2>1, <2>8, <3>1, <3>2 DEF OnList
  <2> QED
    BY <2>1, <2>2, <2>7, <2>8, <2>9, <2>10 DEF NoRepetition
<1> QED
  BY <1>1, <1>2

LEMMA AppendIs ==
  ASSUME NEW S, NEW list \in Seq(S), NEW c \in S
  PROVE  /\ Append(list, c) \in Seq(S) /\ Len(Append(list, c)) = Len(list) + 1
         /\ \A d : OnList(d, Append(list, c)) <=> OnList(d, list) \/ d = c
         /\ NoRepetition(list) /\ ~OnList(c, list) => NoRepetition(Append(list, c))
<1>1. PICK more : more = Append(list, c)
  OBVIOUS
<1>2. /\ more \in Seq(S) /\ Len(more) = Len(list) + 1 /\ more[Len(list) + 1] = c
      /\ \A j \in 1 .. Len(list) : more[j] = list[j]
      /\ Len(list) \in Nat
  BY <1>1
<1>3. \A j \in 1 .. Len(more) : j \in 1 .. Len(list) \/ j = Len(list) + 1
  BY <1>2
<1>4. \A d : OnList(d, more) <=> OnList(d, list) \/ d = c
  BY <1>2, <1>3 DEF OnList
<1>5. NoRepetition(list) /\ ~OnList(c, list) => NoRepetition(more)
  BY <1>2, <1>3 DEF OnList, NoRepetition
<1> QED
  BY <1>1, <1>2, <1>4, <1>5

LEMMA ListAddIs ==
  ASSUME NEW S, NEW list \in Seq(S), NEW c \in S, NoRepetition(list)
  PROVE  /\ ListAdd(list, c) \in Seq(S)
         /\ \A d : OnList(d, ListAdd(list, c)) <=> OnList(d, list) \/ d = c
         /\ NoRepetition(ListAdd(list, c))
<1>1. PICK rest \in Seq(S) :
        /\ rest = RemoveFrom(list, c)
        /\ \A d : OnList(d, rest) <=> OnList(d, list) /\ d # c
        /\ NoRepetition(rest)
  BY RemoveFromIs
<1>2. /\ Append(rest, c) \in Seq(S)
      /\ \A d : OnList(d, Append(rest, c)) <=> OnList(d, rest) \/ d = c
      /\ NoRepetition(rest) /\ ~OnList(c, rest) => NoRepetition(Append(rest, c))
  BY AppendIs
<1> QED
  BY <1>1, <1>2 DEF ListAdd

LEMMA MembersAre ==
  ASSUME NEW S, NEW list \in Seq(S)
  PROVE  /\ Members(list) \subseteq S
         /\ \A d : OnList(d, list) <=> d \in Members(list)
         /\ \A k \in 1 .. Len(list) : list[k] \in Members(list)
BY DEF Members, OnList

LEMMA AddedTo ==
  ASSUME NEW S, NEW list \in Seq(S), NEW c \in S, NoRepetition(list)
  PROVE  /\ ListAdd(list, c) \in Seq(S) /\ NoRepetition(ListAdd(list, c))
         /\ Members(ListAdd(list, c)) = Members(list) \union {c}
<1>1. PICK more : more = ListAdd(list, c)
  OBVIOUS
<1>2. /\ more \in Seq(S) /\ NoRepetition(more)
      /\ \A d : OnList(d, more) <=> OnList(d, list) \/ d = c
  BY <1>1, ListAddIs
<1>3. /\ \A d : OnList(d, list) <=> d \in Members(list)
      /\ \A d : OnList(d, more) <=> d \in Members(more)
  BY <1>2, MembersAre
<1> QED
  BY <1>1, <1>2, <1>3

LEMMA RemovedFrom ==
  ASSUME NEW S, NEW list \in Seq(S), NEW c, NoRepetition(list)
  PROVE  /\ RemoveFrom(list, c) \in Seq(S) /\ NoRepetition(RemoveFrom(list, c))
         /\ Members(RemoveFrom(list, c)) = Members(list) \ {c}
<1>1. PICK rest : rest = RemoveFrom(list, c)
  OBVIOUS
<1>2. /\ rest \in Seq(S) /\ NoRepetition(rest)
      /\ \A d : OnList(d, rest) <=> OnList(d, list) /\ d # c
  BY <1>1, RemoveFromIs
<1>3. /\ \A d : OnList(d, list) <=> d \in Members(list)
      /\ \A d : OnList(d, rest) <=> d \in Members(rest)
  BY <1>2, MembersAre
<1> QED
  BY <1>1, <1>2, <1>3

-----------------------------------------------------------------------------
(* The invariant.                                                          *)

LEMMA IdsAre ==
  /\ Null \notin Slots /\ Null \notin Ids
  /\ 0 \in 0 .. Lifetime \union {Infinite}
  /\ Lifetime \in 0 .. Lifetime \union {Infinite} /\ Lifetime > 0
  /\ NoPathDelay \in 0 .. Lifetime \union {Infinite} /\ NoPathDelay > 0
  /\ Infinite > 0
  BY SlotsAssumption, MotesAssumption, LifetimeAssumption DEF Ids

LEMMA InitInv == Init => Inv
<1> SUFFICES ASSUME Init PROVE Inv
  OBVIOUS
<1>1. nodelist = << >> /\ Nodes = {} /\ nodelist \in Seq(Slots) /\ NoRepetition(nodelist)
  BY DEF Init, Nodes, Members, NoRepetition
<1>2. TypeOK
  BY <1>1, IdsAre DEF Init, TypeOK
<1> QED
  BY <1>1, <1>2 DEF Inv, HopsAnnouncedUnlessOrphaned, NodesUnique

LEMMA NodesAre ==
  ASSUME TypeOK
  PROVE  /\ Nodes \subseteq Slots /\ orphans \subseteq Slots
         /\ \A k \in 1 .. Len(nodelist) : nodelist[k] \in Nodes
BY MembersAre DEF TypeOK, Nodes

-----------------------------------------------------------------------------
(* rpl_ns_update_node()                                                    *)

\* The block that a node gets is the one it has, or a free one.
LEMMA SlotsForAre ==
  ASSUME TypeOK, NEW a, NEW nodes, Nodes \subseteq nodes, NEW s \in SlotsFor(a, nodes)
  PROVE  /\ s \in Slots
         /\ Node(a) = {} => s \notin nodes
         /\ Node(a) # {} => s \in Nodes /\ id[s] = a
BY NodesAre DEF SlotsFor, FirstFree, Node, NodeIn

\* Whether the node was known or not, it is on the list then, once.
LEMMA WithNodeIs ==
  ASSUME NEW list \in Seq(Slots), NoRepetition(list), NEW s \in Slots
  PROVE  /\ WithNode(list, s) \in Seq(Slots) /\ NoRepetition(WithNode(list, s))
         /\ Members(WithNode(list, s)) = Members(list) \union {s}
<1>1. OnList(s, list) <=> s \in Members(list)
  BY MembersAre
<1> QED
  BY <1>1, AddedTo DEF WithNode

\* The new parents, whether the parent that is announced is taken or not.
LEMMA AdoptedIs ==
  ASSUME NEW c \in Slots, NEW up \in Slots, NEW nodes, NEW ids,
         NEW par \in [Slots -> Slots \union {Null}]
  PROVE  /\ Adopted(c, up, nodes, ids, par) \in [Slots -> Slots \union {Null}]
         /\ \A s \in Slots \ {c} : Adopted(c, up, nodes, ids, par)[s] = par[s]
         /\ Adopted(c, up, nodes, ids, par)[c] \in {up, par[c]}
<1>1. Adopted(c, up, nodes, ids, par) \in {par, [par EXCEPT ![c] = up]}
  BY DEF Adopted
<1> QED
  BY <1>1

\* What the function leaves behind when it has both nodes, in blocks up and c.
Placed(child, p, up, c) ==
  /\ Nodes' = Nodes \union {up, c} /\ NoRepetition(nodelist)'
  /\ TypeOK'
  /\ id'[up] = p /\ id'[c] = child
  /\ \A s \in Slots \ {up, c} : id'[s] = id[s]
  /\ \A s \in Nodes \ {c} : parent'[s] = parent[s]
  /\ up \notin Nodes => parent'[up] = Null
  /\ parent'[c] \in {up, IF c \in Nodes THEN parent[c] ELSE Null}
  /\ \A s \in Nodes \ {c} : announced'[s] = announced[s]
  /\ announced'[c] = IF parent'[c] = up THEN p ELSE announced[c]
  /\ orphans' = IF parent'[c] = up THEN orphans \ {c} ELSE orphans
  /\ \A s \in Nodes \ {c} : lifetime'[s] = lifetime[s]
  /\ up \notin Nodes => lifetime'[up] = Infinite

LEMMA UpdateNodeIs ==
  ASSUME TypeOK, NoRepetition(nodelist), NEW child \in Ids, NEW p \in Ids, child # p,
         UpdateNode(child, p), settled' \in BOOLEAN, sender' \in Motes \union {Null}
  PROVE  \/ UNCHANGED <<nodelist, id, parent, lifetime, announced, orphans>>
         \/ Node(p) = {} /\ \E s \in Slots \ Nodes : ParentOnly(p, s)
         \/ \E up, c \in Slots :
              /\ up # c
              /\ Node(p) = {} => up \notin Nodes
              /\ Node(p) # {} => up \in Nodes /\ id[up] = p
              /\ Node(child) = {} => c \notin Nodes
              /\ Node(child) # {} => c \in Nodes /\ id[c] = child
              /\ Placed(child, p, up, c)
              /\ parent' = Adopted(c, up, Nodes', id', Parents(Nodes' \ Nodes))
<1>1. CASE UNCHANGED <<nodelist, id, parent, lifetime, announced, orphans>>
  BY <1>1
<1>2. ASSUME NEW up \in SlotsFor(p, Nodes), up \notin Nodes, ParentOnly(p, up)
      PROVE  Node(p) = {} /\ \E s \in Slots \ Nodes : ParentOnly(p, s)
  <2>1. up \in Slots /\ (Node(p) # {} => up \in Nodes)
    BY SlotsForAre
  <2> QED
    BY <1>2, <2>1
<1>3. ASSUME NEW up \in SlotsFor(p, Nodes), NEW c \in SlotsFor(child, Nodes \union {up}),
             Linked(child, p, c, up)
      PROVE  /\ up \in Slots /\ c \in Slots /\ up # c
             /\ Node(p) = {} => up \notin Nodes
             /\ Node(p) # {} => up \in Nodes /\ id[up] = p
             /\ Node(child) = {} => c \notin Nodes
             /\ Node(child) # {} => c \in Nodes /\ id[c] = child
             /\ Placed(child, p, up, c)
             /\ parent' = Adopted(c, up, Nodes', id', Parents(Nodes' \ Nodes))
  <2> DEFINE fresh == {up, c} \ Nodes
             list == WithNode(WithNode(nodelist, up), c)
  <2>1. /\ nodelist' = list
        /\ id' = [id EXCEPT ![up] = p, ![c] = child]
        /\ parent' = Adopted(c, up, Nodes', id', Parents(fresh))
        /\ lifetime' = [lifetime EXCEPT
                          ![up] = IF up \in fresh THEN Infinite ELSE @,
                          ![c] = Lifetime]
        /\ announced' = [announced EXCEPT
                           ![up] = IF up \in fresh THEN Null ELSE @,
                           ![c] = IF parent'[c] = up THEN p ELSE @]
        /\ orphans' = IF parent'[c] = up THEN orphans \ {c} ELSE orphans
    BY <1>3, Zenon DEF Linked
  <2>2. /\ up \in Slots
        /\ Node(p) = {} => up \notin Nodes
        /\ Node(p) # {} => up \in Nodes /\ id[up] = p
    BY SlotsForAre
  <2>3. /\ c \in Slots
        /\ Node(child) = {} => c \notin Nodes \union {up}
        /\ Node(child) # {} => c \in Nodes /\ id[c] = child
    BY SlotsForAre
  <2>4. list \in Seq(Slots) /\ NoRepetition(list) /\ Members(list) = Nodes \union {up, c}
    <3>1. nodelist \in Seq(Slots) /\ Members(nodelist) = Nodes
      BY DEF TypeOK, Nodes
    <3>2. PICK with : /\ with = WithNode(nodelist, up)
                      /\ with \in Seq(Slots) /\ NoRepetition(with)
                      /\ Members(with) = Nodes \union {up}
      BY <2>2, <3>1, WithNodeIs
    <3>3. /\ WithNode(with, c) \in Seq(Slots) /\ NoRepetition(WithNode(with, c))
          /\ Members(WithNode(with, c)) = Members(with) \union {c}
      BY <2>3, <3>2, WithNodeIs
    <3> QED
      BY <3>2, <3>3
  <2>5. Nodes' = Nodes \union {up, c} /\ nodelist' \in Seq(Slots) /\ NoRepetition(nodelist)'
    BY <2>1, <2>4 DEF Nodes
  <2>6. up # c
    BY <2>2, <2>3
  <2>7. fresh = Nodes' \ Nodes
    BY <2>5
  <2>8. /\ Parents(fresh) \in [Slots -> Slots \union {Null}]
        /\ \A s \in Slots : Parents(fresh)[s] = IF s \in fresh THEN Null ELSE parent[s]
    BY DEF Parents, TypeOK
  <2>9. parent' = Adopted(c, up, Nodes', id', Parents(Nodes' \ Nodes))
    BY <2>1, <2>7
  <2>10. \A s : s \in fresh <=> s \in {up, c} /\ s \notin Nodes
    OBVIOUS
  <2> HIDE DEF fresh, list
  <2>11. /\ parent' \in [Slots -> Slots \union {Null}]
         /\ \A s \in Slots \ {c} : parent'[s] = Parents(fresh)[s]
         /\ parent'[c] \in {up, Parents(fresh)[c]}
    BY <2>1, <2>2, <2>3, <2>8, AdoptedIs
  <2>12. /\ p \in Ids \union {Null} /\ child \in Ids \union {Null}
         /\ Nodes \subseteq Slots /\ orphans \subseteq Nodes
    BY NodesAre DEF TypeOK
  <2>13. /\ \A s \in Nodes \ {c} : parent'[s] = parent[s]
         /\ up \notin Nodes => parent'[up] = Null
         /\ parent'[c] \in {up, IF c \in Nodes THEN parent[c] ELSE Null}
    BY <2>2, <2>3, <2>6, <2>8, <2>10, <2>11, <2>12
  <2>14. /\ id' \in [Slots -> Ids \union {Null}] /\ id'[up] = p /\ id'[c] = child
         /\ \A s \in Slots \ {up, c} : id'[s] = id[s]
    BY <2>1, <2>2, <2>3, <2>6, <2>12 DEF TypeOK
  <2>15. /\ lifetime' \in [Slots -> 0 .. Lifetime \union {Infinite}]
         /\ \A s \in Nodes \ {c} : lifetime'[s] = lifetime[s]
         /\ up \notin Nodes => lifetime'[up] = Infinite
    <3>1. PICK l \in 0 .. Lifetime \union {Infinite} :
            /\ l = IF up \in fresh THEN Infinite ELSE lifetime[up]
            /\ lifetime' = [lifetime EXCEPT ![up] = l, ![c] = Lifetime]
      BY <2>1, <2>2, IdsAre DEF TypeOK
    <3> QED
      BY <2>2, <2>3, <2>6, <2>10, <2>12, <3>1, IdsAre DEF TypeOK
  <2>16. PICK u, v \in Ids \union {Null} :
           /\ u = IF up \in fresh THEN Null ELSE announced[up]
           /\ v = IF parent'[c] = up THEN p ELSE announced[c]
           /\ announced' = [announced EXCEPT ![up] = u, ![c] = v]
    BY <2>1, <2>2, <2>3, <2>6, <2>12 DEF TypeOK
  <2>17. /\ announced' \in [Slots -> Ids \union {Null}]
         /\ \A s \in Nodes \ {c} : announced'[s] = announced[s]
         /\ announced'[c] = v
    BY <2>2, <2>3, <2>6, <2>10, <2>12, <2>16 DEF TypeOK
  <2>18. /\ orphans' = IF parent'[c] = up THEN orphans \ {c} ELSE orphans
         /\ orphans' \subseteq Nodes'
    BY <2>1, <2>5, <2>12
  <2>19. TypeOK'
    BY <2>5, <2>11, <2>14, <2>15, <2>17, <2>18 DEF TypeOK
  <2>20. Placed(child, p, up, c)
    BY <2>5, <2>13, <2>14, <2>15, <2>16, <2>17, <2>18, <2>19 DEF Placed
  <2>21. Node(child) = {} => c \notin Nodes
    BY <2>3
  <2> QED
    BY <2>2, <2>3, <2>6, <2>9, <2>20, <2>21
<1>4. \/ UNCHANGED <<nodelist, id, parent, lifetime, announced, orphans>>
      \/ \E up \in SlotsFor(p, Nodes) : up \notin Nodes /\ ParentOnly(p, up)
      \/ \E up \in SlotsFor(p, Nodes) : \E c \in SlotsFor(child, Nodes \union {up}) :
           Linked(child, p, c, up)
  BY Zenon DEF UpdateNode
<1> QED
  BY <1>1, <1>2, <1>3, <1>4

-----------------------------------------------------------------------------
(* Every step keeps the hops.                                              *)

LEMMA PlacedInv ==
  ASSUME Inv, NEW child \in Motes, NEW p \in Ids,
         NEW up \in Slots, NEW c \in Slots, up # c,
         Node(p) = {} => up \notin Nodes,
         Node(p) # {} => up \in Nodes /\ id[up] = p,
         Node(child) = {} => c \notin Nodes,
         Node(child) # {} => c \in Nodes /\ id[c] = child,
         child # p, Placed(child, p, up, c)
  PROVE  Inv'
<1>1. TypeOK /\ NodesUnique /\ Hops /\ TypeOK' /\ Nodes \subseteq Slots
      /\ orphans \subseteq Nodes
  BY NodesAre DEF Inv, HopsAnnouncedUnlessOrphaned, Hops, Placed, TypeOK
<1>2. /\ Nodes' = Nodes \union {up, c} /\ NoRepetition(nodelist)'
      /\ id'[up] = p /\ id'[c] = child
      /\ \A s \in Slots \ {up, c} : id'[s] = id[s]
  BY DEF Placed
<1>3. \A s \in Nodes : s \in Slots /\ id'[s] = id[s] /\ id[s] # Null
  BY <1>1, <1>2, IdsAre DEF NodesUnique
<1>4. \A s \in Nodes \ {up, c} : id[s] # p /\ id[s] # child
  BY <1>1 DEF NodesUnique, Node, NodeIn
<1>5. NodesUnique'
  <2>1. \A s, t \in Nodes' : id'[s] = id'[t] => s = t
    BY <1>1, <1>2, <1>3, <1>4 DEF NodesUnique
  <2>2. \A s \in Nodes' : id'[s] \in Ids
    BY <1>1, <1>2, <1>3 DEF NodesUnique, Ids
  <2> QED
    BY <1>2, <2>1, <2>2 DEF NodesUnique
<1>6. ASSUME NEW s \in Nodes' \ orphans', parent'[s] # Null
      PROVE  parent'[s] \in Nodes' /\ id'[parent'[s]] = announced'[s]
  <2>1. CASE s \in Nodes \ orphans /\ parent'[s] = parent[s] /\ announced'[s] = announced[s]
    BY <1>1, <1>2, <1>3, <1>6, <2>1 DEF Hops
  <2>2. CASE s = c
    <3>1. CASE parent'[c] = up
      BY <1>2, <1>6, <2>2, <3>1 DEF Placed
    <3>2. CASE parent'[c] # up
      <4>1. /\ c \in Nodes /\ parent'[c] = parent[c] /\ announced'[c] = announced[c]
            /\ orphans' = orphans
        BY <1>6, <2>2, <3>2 DEF Placed
      <4> QED
        BY <1>6, <2>1, <2>2, <4>1
    <3> QED
      BY <3>1, <3>2
  <2>3. CASE s # c
    <3>1. s \in Nodes
      BY <1>2, <1>6, <2>3 DEF Placed
    <3>2. s \notin orphans
      BY <1>6, <2>3 DEF Placed
    <3> QED
      BY <1>6, <2>1, <2>3, <3>1, <3>2 DEF Placed
  <2> QED
    BY <2>2, <2>3
<1> QED
  BY <1>1, <1>5, <1>6 DEF Inv, HopsAnnouncedUnlessOrphaned

LEMMA ParentOnlyInv ==
  ASSUME Inv, NEW p \in Ids, Node(p) = {}, NEW s \in Slots \ Nodes, ParentOnly(p, s),
         settled' \in BOOLEAN, sender' \in Motes \union {Null}
  PROVE  /\ Inv' /\ Nodes' = Nodes \union {s}
         /\ \A t \in Nodes : id'[t] = id[t] /\ parent'[t] = parent[t]
<1>1. TypeOK /\ NodesUnique /\ Hops /\ Nodes \subseteq Slots /\ orphans \subseteq Nodes
  BY NodesAre DEF Inv, HopsAnnouncedUnlessOrphaned, Hops, TypeOK
<1>2. nodelist' \in Seq(Slots) /\ NoRepetition(nodelist)' /\ Nodes' = Nodes \union {s}
  <2>1. nodelist' = ListAdd(nodelist, s) /\ nodelist \in Seq(Slots) /\ NoRepetition(nodelist)
    BY <1>1 DEF ParentOnly, TypeOK, NodesUnique
  <2>2. /\ ListAdd(nodelist, s) \in Seq(Slots) /\ NoRepetition(ListAdd(nodelist, s))
        /\ Members(ListAdd(nodelist, s)) = Members(nodelist) \union {s}
    BY <2>1, AddedTo
  <2> QED
    BY <2>1, <2>2 DEF Nodes
<1>3. TypeOK'
  BY <1>1, <1>2, IdsAre DEF TypeOK, ParentOnly
<1>4. \A t \in Nodes : /\ id'[t] = id[t] /\ id[t] # p
                       /\ parent'[t] = parent[t] /\ announced'[t] = announced[t]
  BY <1>1 DEF TypeOK, ParentOnly, Node, NodeIn
<1>5. id'[s] = p /\ parent'[s] = Null /\ orphans' = orphans
  BY <1>1 DEF TypeOK, ParentOnly
<1>6. NodesUnique'
  BY <1>1, <1>2, <1>4, <1>5 DEF NodesUnique
<1>7. ASSUME NEW t \in Nodes' \ orphans', parent'[t] # Null
      PROVE  parent'[t] \in Nodes' /\ id'[parent'[t]] = announced'[t]
  BY <1>1, <1>2, <1>4, <1>5, <1>7 DEF Hops
<1> QED
  BY <1>2, <1>3, <1>4, <1>6, <1>7 DEF Inv, HopsAnnouncedUnlessOrphaned

LEMMA DaoInputInv ==
  ASSUME Inv, NEW m \in Motes, NEW p \in Ids, DaoInput(m, p)
  PROVE  Inv'
<1>1. /\ TypeOK /\ NoRepetition(nodelist) /\ m \in Ids /\ m # p /\ UpdateNode(m, p)
      /\ settled' = settled /\ sender' \in Motes \union {Null}
  BY DEF DaoInput, Inv, HopsAnnouncedUnlessOrphaned, NodesUnique, Ids
<1>2. settled' \in BOOLEAN
  BY <1>1 DEF TypeOK
<1>3. CASE UNCHANGED <<nodelist, id, parent, lifetime, announced, orphans>>
  BY <1>1, <1>2, <1>3 DEF Inv, HopsAnnouncedUnlessOrphaned, TypeOK, NodesUnique, Nodes
<1>4. CASE Node(p) = {} /\ \E s \in Slots \ Nodes : ParentOnly(p, s)
  BY <1>1, <1>2, <1>4, ParentOnlyInv
<1> QED
  BY <1>1, <1>2, <1>3, <1>4, UpdateNodeIs, PlacedInv

LEMMA NoPathDaoInv ==
  ASSUME Inv, NEW m \in Motes, NEW p \in Ids, NoPathDao(m, p)
  PROVE  Inv'
<1>1. PICK s \in Node(m) : lifetime' = [lifetime EXCEPT ![s] = NoPathDelay]
  BY DEF NoPathDao
<1>2. UNCHANGED <<nodelist, id, parent, settled, sender, announced, orphans>>
  BY DEF NoPathDao
<1>3. TypeOK /\ NodesUnique
  BY DEF Inv, HopsAnnouncedUnlessOrphaned
<1>4. Nodes' = Nodes
  BY <1>2 DEF Nodes
<1>5. TypeOK'
  BY <1>1, <1>2, <1>3, <1>4, IdsAre DEF TypeOK
<1>6. NodesUnique'
  BY <1>2, <1>3, <1>4 DEF NodesUnique
<1> QED
  BY <1>2, <1>4, <1>5, <1>6 DEF Inv, HopsAnnouncedUnlessOrphaned

\* A node is freed, with children or without.
LEMMA FreeIs ==
  ASSUME TypeOK, NodesUnique, NEW k \in 1 .. Len(nodelist), Free(nodelist[k])
  PROVE  /\ nodelist[k] \in Nodes /\ Nodes' = Nodes \ {nodelist[k]}
         /\ nodelist' \in Seq(Slots) /\ NoRepetition(nodelist)'
<1>1. nodelist' = RemoveFrom(nodelist, nodelist[k])
  BY DEF Free
<1>2. nodelist \in Seq(Slots) /\ NoRepetition(nodelist)
  BY DEF TypeOK, NodesUnique
<1>3. PICK s : s = nodelist[k]
  OBVIOUS
<1>4. /\ RemoveFrom(nodelist, s) \in Seq(Slots) /\ NoRepetition(RemoveFrom(nodelist, s))
      /\ Members(RemoveFrom(nodelist, s)) = Members(nodelist) \ {s}
  BY <1>2, RemovedFrom
<1> QED
  BY <1>1, <1>3, <1>4, NodesAre DEF Nodes

LEMMA PeriodicInv ==
  ASSUME Inv, Periodic PROVE Inv'
<1> DEFINE life == [s \in Slots |-> IF s \in Nodes THEN Aged(lifetime[s]) ELSE lifetime[s]]
<1>1. lifetime' = life /\ UNCHANGED <<id, parent, settled, sender>>
  BY DEF Periodic
<1>2. /\ TypeOK /\ NodesUnique /\ Hops /\ Nodes \subseteq Slots /\ orphans \subseteq Nodes
  BY NodesAre DEF Inv, HopsAnnouncedUnlessOrphaned, Hops, TypeOK
<1>3. ASSUME NEW l \in 0 .. Lifetime \union {Infinite}
      PROVE  Aged(l) \in 0 .. Lifetime \union {Infinite}
  BY LifetimeAssumption DEF Aged
<1>4. life \in [Slots -> 0 .. Lifetime \union {Infinite}]
  BY <1>2, <1>3 DEF TypeOK
<1>5. \/ UNCHANGED <<nodelist, announced, orphans>>
      \/ \E k \in 1 .. Len(nodelist) : Free(nodelist[k])
  BY DEF Periodic
<1> HIDE DEF life
<1>6. CASE UNCHANGED <<nodelist, announced, orphans>>
  <2>1. Nodes' = Nodes
    BY <1>6 DEF Nodes
  <2> QED
    BY <1>1, <1>2, <1>4, <1>6, <2>1 DEF TypeOK, NodesUnique, Hops, Inv, HopsAnnouncedUnlessOrphaned
<1>7. ASSUME NEW k \in 1 .. Len(nodelist), Free(nodelist[k])
      PROVE  Inv'
  <2>1. PICK d : d = nodelist[k]
    OBVIOUS
  <2>2. /\ d \in Nodes /\ Nodes' = Nodes \ {d}
        /\ nodelist' \in Seq(Slots) /\ NoRepetition(nodelist)'
    BY <1>2, <1>7, <2>1, FreeIs
  <2>3. PICK left : left = {t \in Nodes : parent[t] = d}
    OBVIOUS
  <2>4. /\ orphans' = (orphans \union left) \ {d}
        /\ announced' = [t \in Slots |-> IF t \in left \union {d} THEN Null ELSE announced[t]]
    BY <1>7, <2>1, <2>3 DEF Free
  <2>5. announced' \in [Slots -> Ids \union {Null}] /\ orphans' \subseteq Nodes'
    BY <1>2, <2>2, <2>3, <2>4 DEF TypeOK
  <2>6. TypeOK'
    BY <1>1, <1>2, <1>4, <2>2, <2>5 DEF TypeOK
  <2>7. NodesUnique'
    BY <1>1, <1>2, <2>2 DEF NodesUnique
  <2>8. ASSUME NEW s \in Nodes' \ orphans', parent'[s] # Null
        PROVE  parent'[s] \in Nodes' /\ id'[parent'[s]] = announced'[s]
    <3>1. s \in Nodes \ orphans /\ s \notin left /\ s # d /\ s \in Slots
      BY <1>2, <2>2, <2>4, <2>8
    <3>2. parent[s] # d /\ announced'[s] = announced[s]
      BY <2>3, <2>4, <3>1
    <3> QED
      BY <1>1, <1>2, <2>2, <2>8, <3>1, <3>2 DEF Hops
  <2> QED
    BY <2>6, <2>7, <2>8 DEF Inv, HopsAnnouncedUnlessOrphaned
<1> QED
  BY <1>5, <1>6, <1>7

\* One node leaves the list at most, and it has expired.
LEMMA PeriodicFrees ==
  ASSUME Inv, Periodic
  PROVE  /\ Nodes' \subseteq Nodes
         /\ \A s \in Nodes : lifetime[s] = Infinite => s \in Nodes'
<1>1. /\ TypeOK /\ NodesUnique /\ Nodes \subseteq Slots
  BY NodesAre DEF Inv, HopsAnnouncedUnlessOrphaned
<1> DEFINE life == [s \in Slots |-> IF s \in Nodes THEN Aged(lifetime[s]) ELSE lifetime[s]]
<1>2. \/ UNCHANGED <<nodelist, announced, orphans>>
      \/ \E k \in 1 .. Len(nodelist) : Expired(nodelist[k], life) /\ Free(nodelist[k])
  BY DEF Periodic
<1>3. \A s \in Nodes : lifetime[s] = Infinite => ~Expired(s, life)
  BY <1>1, IdsAre DEF Expired, Aged
<1> HIDE DEF life
<1>4. CASE UNCHANGED <<nodelist, announced, orphans>>
  BY <1>4 DEF Nodes
<1>5. ASSUME NEW k \in 1 .. Len(nodelist), Expired(nodelist[k], life), Free(nodelist[k])
      PROVE  /\ Nodes' \subseteq Nodes
             /\ \A s \in Nodes : lifetime[s] = Infinite => s \in Nodes'
  <2>1. PICK d : d = nodelist[k]
    OBVIOUS
  <2>2. Nodes' = Nodes \ {d} /\ Expired(d, life)
    BY <1>1, <1>5, <2>1, FreeIs
  <2> QED
    BY <1>3, <2>2
<1> QED
  BY <1>2, <1>4, <1>5

\* Each hop of a source route is a link that the mote below it has announced, unless
\* its parent was freed under it: whatever DAOs come, in whatever order, however many
\* expired nodes still wait to be freed, and whatever blocks are allocated again.
THEOREM HopsAnnounced == Spec => []HopsAnnouncedUnlessOrphaned
<1>1. ASSUME Inv, [Next]_vars PROVE Inv'
  <2>1. CASE UNCHANGED vars
    BY <1>1, <2>1 DEF Inv, HopsAnnouncedUnlessOrphaned, TypeOK, NodesUnique, Nodes, vars
  <2>2. CASE Settle
    BY <1>1, <2>2 DEF Inv, HopsAnnouncedUnlessOrphaned, TypeOK, NodesUnique, Nodes, Settle
  <2> QED
    BY <1>1, <2>1, <2>2, DaoInputInv, NoPathDaoInv, PeriodicInv DEF Next
<1> QED
  BY <1>1, InitInv, PTL DEF Spec, Inv

-----------------------------------------------------------------------------
(* rpl_ns_is_node_reachable().  Its loop finds the root within as many     *)
(* steps as there are blocks if and only if the parents lead there at all: *)
(* a path to the root passes no block twice.                               *)

\* One step of the loop.
Upward(t, r, par) == IF t \in {r, Null} THEN t ELSE par[t]

\* up is the function that Climb recurs on, for the first n steps.
Climbs(up, n, s, r, par) ==
  up = [k \in 0 .. n |-> IF k = 0 THEN s ELSE Upward(up[k - 1], r, par)]

LEMMA ClimbsExists ==
  ASSUME NEW s, NEW r, NEW par, NEW n \in Nat
  PROVE  \E f : Climbs(f, n, s, r, par)
<1> DEFINE bad == {m \in Nat : ~ \E f : Climbs(f, m, s, r, par)}
<1>1. SUFFICES ASSUME bad # {} PROVE FALSE
  OBVIOUS
<1>2. PICK m \in bad : \A k \in bad : m <= k
  BY <1>1, LeastOf
<1>3. m \in Nat /\ ~ \E f : Climbs(f, m, s, r, par)
  OBVIOUS
<1>4. CASE m = 0
  <2>1. Climbs([k \in 0 .. m |-> s], m, s, r, par)
    BY <1>4 DEF Climbs
  <2> QED
    BY <1>3, <2>1
<1>5. CASE m # 0
  <2>1. m - 1 \in Nat /\ m - 1 \notin bad
    BY <1>2, <1>3, <1>5
  <2>2. PICK f : Climbs(f, m - 1, s, r, par)
    BY <2>1
  <2> DEFINE g == [k \in 0 .. m |-> IF k = m THEN Upward(f[m - 1], r, par) ELSE f[k]]
  <2>3. \A k \in 0 .. m - 1 : g[k] = f[k]
    BY <1>3
  <2>4. \A k \in 0 .. m - 1 : f[k] = IF k = 0 THEN s ELSE Upward(f[k - 1], r, par)
    BY <2>2 DEF Climbs
  <2>5. g[m] = Upward(f[m - 1], r, par)
    BY <1>3
  <2>6. ASSUME NEW k \in 0 .. m
        PROVE  g[k] = IF k = 0 THEN s ELSE Upward(g[k - 1], r, par)
    <3> HIDE DEF g
    <3>1. CASE k = m
      BY <1>3, <1>5, <2>3, <2>5, <3>1
    <3>2. CASE k # m
      <4>1. k \in 0 .. m - 1 /\ (k # 0 => k - 1 \in 0 .. m - 1)
        BY <1>3, <3>2
      <4> QED
        BY <2>3, <2>4, <4>1
    <3> QED
      BY <3>1, <3>2
  <2>7. g = [k \in 0 .. m |-> g[k]]
    OBVIOUS
  <2> HIDE DEF g
  <2>8. Climbs(g, m, s, r, par)
    BY <2>6, <2>7 DEF Climbs
  <2> QED
    BY <1>3, <2>8
<1> QED
  BY <1>4, <1>5

LEMMA ClimbIs ==
  ASSUME NEW s, NEW r, NEW par
  PROVE  \E f : /\ Climbs(f, Cardinality(Slots), s, r, par)
                /\ Climb(s, r, par) = f[Cardinality(Slots)]
<1>1. PICK f : f = CHOOSE g : Climbs(g, Cardinality(Slots), s, r, par)
  OBVIOUS
<1>2. Climbs(f, Cardinality(Slots), s, r, par)
  BY <1>1, ClimbsExists, FS_CardinalityType, SlotsAssumption
<1>3. Climb(s, r, par) = f[Cardinality(Slots)]
  BY <1>1 DEF Climb, Climbs, Upward
<1> QED
  BY <1>2, <1>3

LEMMA ClimbsStep ==
  ASSUME NEW s, NEW r, NEW par, NEW n \in Nat, NEW f, Climbs(f, n, s, r, par)
  PROVE  f[0] = s /\ \A k \in 1 .. n : f[k] = Upward(f[k - 1], r, par)
<1>1. \A k \in 0 .. n : f[k] = IF k = 0 THEN s ELSE Upward(f[k - 1], r, par)
  BY DEF Climbs
<1>2. 0 \in 0 .. n /\ \A k \in 1 .. n : k \in 0 .. n /\ k # 0
  OBVIOUS
<1> QED
  BY <1>1, <1>2

\* The blocks q[0], q[1], .. q[n] are linked one to the next, from s up to the
\* first one that is in top.
Path(q, n, s, top, par) ==
  /\ n \in Nat /\ q \in [0 .. n -> Slots] /\ q[0] = s /\ q[n] \in top
  /\ \A k \in 0 .. n - 1 : q[k] \notin top /\ q[k + 1] = par[q[k]]
Leads(s, top, par) == \E q, n : Path(q, n, s, top, par)

\* The loop that ends at the root has followed a path.
LEMMA ClimbsPath ==
  ASSUME NEW top, Null \notin top, NEW r \in top, NEW par \in [Slots -> Slots \union {Null}], NEW s \in Slots,
         NEW n \in Nat, NEW f, Climbs(f, n, s, r, par), f[n] = r
  PROVE  Leads(s, top, par)
<1>1. f[0] = s /\ \A k \in 1 .. n : f[k] = Upward(f[k - 1], r, par)
  BY ClimbsStep
<1>2. ASSUME NEW j \in 0 .. n, f[j] = Null PROVE FALSE
  <2> DEFINE bad == {k \in j .. n : f[k] # Null}
  <2>1. n \in bad /\ bad \in SUBSET Nat
    BY <1>2
  <2>2. PICK m \in bad : \A k \in bad : m <= k
    BY <2>1, LeastOf
  <2>3. m \in j .. n /\ f[m] # Null /\ m # j
    BY <1>2
  <2>4. m - 1 \in j .. n /\ m - 1 \notin bad /\ m \in 1 .. n
    BY <2>2, <2>3
  <2>5. f[m - 1] = Null
    BY <2>4
  <2> QED
    BY <1>1, <2>3, <2>4, <2>5 DEF Upward
<1>3. \A k \in 0 .. n : f[k] \in Slots
  <2> DEFINE bad == {k \in 0 .. n : f[k] \notin Slots}
  <2>1. SUFFICES ASSUME bad # {} PROVE FALSE
    OBVIOUS
  <2>2. bad \in SUBSET Nat
    OBVIOUS
  <2>3. PICK m \in bad : \A k \in bad : m <= k
    BY <2>1, <2>2, LeastOf
  <2>4. m \in 0 .. n /\ f[m] \notin Slots /\ m # 0
    BY <1>1
  <2>5. m - 1 \in 0 .. n /\ m - 1 \notin bad /\ m \in 1 .. n
    BY <2>3, <2>4
  <2>6. f[m - 1] \in Slots
    BY <2>5
  <2>7. f[m] \in Slots \union {Null}
    BY <1>1, <2>5, <2>6 DEF Upward
  <2> QED
    BY <1>2, <2>4, <2>7
<1> DEFINE ends == {k \in 0 .. n : f[k] \in top}
<1>4. n \in ends /\ ends \in SUBSET Nat
  OBVIOUS
<1>5. PICK l \in ends : \A k \in ends : l <= k
  BY <1>4, LeastOf
<1>6. l \in 0 .. n /\ f[l] \in top
  OBVIOUS
<1>7. ASSUME NEW k \in 0 .. l - 1
      PROVE  f[k] \notin top /\ f[k + 1] = par[f[k]]
  <2>1. k \in 0 .. n /\ k \notin ends /\ k + 1 \in 1 .. n /\ (k + 1) - 1 = k
    BY <1>5, <1>6
  <2>2. f[k] \notin top /\ f[k] # Null
    BY <1>2, <2>1
  <2> QED
    BY <1>1, <2>1, <2>2 DEF Upward
<1> DEFINE q == [k \in 0 .. l |-> f[k]]
<1>8. \A k \in 0 .. l : q[k] = f[k] /\ f[k] \in Slots
  BY <1>3, <1>6
<1>9. q \in [0 .. l -> Slots]
  BY <1>8
<1>10. \A k \in 0 .. l - 1 : k \in 0 .. l /\ k + 1 \in 0 .. l
  BY <1>6
<1>11. 0 \in 0 .. l /\ l \in 0 .. l /\ l \in Nat
  BY <1>6
<1> HIDE DEF q
<1>12. Path(q, l, s, top, par)
  BY <1>1, <1>6, <1>7, <1>8, <1>9, <1>10, <1>11 DEF Path
<1> QED
  BY <1>12 DEF Leads

\* A path passes no block twice, or it would go round for ever.
LEMMA PathShort ==
  ASSUME NEW top, NEW par, NEW s, NEW q, NEW n, Path(q, n, s, top, par)
  PROVE  n < Cardinality(Slots)
<1>1. /\ n \in Nat /\ q \in [0 .. n -> Slots] /\ q[n] \in top
      /\ \A k \in 0 .. n - 1 : q[k] \notin top /\ q[k + 1] = par[q[k]]
  BY DEF Path
<1>2. ASSUME NEW i \in 0 .. n, NEW j \in 0 .. n, i < j, q[i] = q[j]
      PROVE  FALSE
  <2> DEFINE bad == {d \in 0 .. n - j : q[i + d] # q[j + d]}
  <2>1. bad # {}
    <3>1. n - j \in 0 .. n - j /\ i + (n - j) \in 0 .. n - 1 /\ j + (n - j) = n
      BY <1>1, <1>2
    <3>2. q[i + (n - j)] # q[j + (n - j)]
      BY <1>1, <3>1
    <3> QED
      BY <3>1, <3>2
  <2>2. bad \in SUBSET Nat
    BY <1>1
  <2>3. PICK d \in bad : \A k \in bad : d <= k
    BY <2>1, <2>2, LeastOf
  <2>4. d \in 0 .. n - j /\ q[i + d] # q[j + d]
    OBVIOUS
  <2>5. d # 0
    BY <1>1, <1>2, <2>4
  <2>6. d - 1 \in 0 .. n - j /\ d - 1 \notin bad
    BY <1>1, <2>3, <2>4, <2>5
  <2> DEFINE a == i + (d - 1)
             b == j + (d - 1)
  <2>7. q[a] = q[b]
    BY <2>6
  <2>8. a \in 0 .. n - 1 /\ b \in 0 .. n - 1 /\ a + 1 = i + d /\ b + 1 = j + d
    BY <1>1, <1>2, <2>4, <2>5
  <2> HIDE DEF a, b
  <2>9. q[a + 1] = par[q[a]] /\ q[b + 1] = par[q[b]]
    BY <1>1, <2>8
  <2> QED
    BY <2>4, <2>7, <2>8, <2>9
<1>3. ASSUME NEW i \in 0 .. n, NEW j \in 0 .. n, i # j PROVE q[i] # q[j]
  <2>1. i < j \/ j < i
    BY <1>1, <1>3
  <2> QED
    BY <1>2, <2>1
<1>4. IsFiniteSet(0 .. n) /\ Cardinality(0 .. n) = n + 1
  BY <1>1, FS_Interval
<1>5. IsFiniteSet(Slots) /\ Cardinality(Slots) \in Nat
  BY SlotsAssumption, FS_CardinalityType
<1>6. ~ (Cardinality(Slots) < Cardinality(0 .. n))
  BY <1>1, <1>3, <1>4, <1>5, FS_PigeonHole
<1> QED
  BY <1>1, <1>4, <1>5, <1>6

\* The loop follows a path to its end, and stays there.
LEMMA PathClimbs ==
  ASSUME NEW top, NEW par, NEW s, NEW q, NEW l, Path(q, l, s, top, par),
         NEW n \in Nat, l <= n, NEW f, Climbs(f, n, s, q[l], par)
  PROVE  f[n] = q[l]
<1>1. /\ l \in Nat /\ q \in [0 .. l -> Slots] /\ q[0] = s /\ q[l] \in top
      /\ \A k \in 0 .. l - 1 : q[k] \notin top /\ q[k + 1] = par[q[k]]
  BY DEF Path
<1>2. f[0] = s /\ \A k \in 1 .. n : f[k] = Upward(f[k - 1], q[l], par)
  BY ClimbsStep
<1>3. \A k \in 0 .. l : f[k] = q[k]
  <2> DEFINE bad == {k \in 0 .. l : f[k] # q[k]}
  <2>1. SUFFICES ASSUME bad # {} PROVE FALSE
    OBVIOUS
  <2>2. bad \in SUBSET Nat
    OBVIOUS
  <2>3. PICK m \in bad : \A k \in bad : m <= k
    BY <2>1, <2>2, LeastOf
  <2>4. m \in 0 .. l /\ f[m] # q[m] /\ m # 0
    BY <1>1, <1>2
  <2>5. m - 1 \in 0 .. l - 1 /\ m - 1 \in 0 .. l /\ m - 1 \notin bad /\ m \in 1 .. n /\ (m - 1) + 1 = m
    BY <1>1, <2>3, <2>4
  <2>6. f[m - 1] = q[m - 1] /\ q[m - 1] \in Slots /\ q[m - 1] # q[l]
    BY <1>1, <2>5
  <2>7. q[m] = par[q[m - 1]]
    BY <1>1, <2>5
  <2>8. f[m] = par[q[m - 1]]
    BY <1>2, <2>5, <2>6, SlotsAssumption DEF Upward
  <2> QED
    BY <2>4, <2>7, <2>8
<1>4. \A k \in l .. n : f[k] = q[l]
  <2> DEFINE bad == {k \in l .. n : f[k] # q[l]}
  <2>1. SUFFICES ASSUME bad # {} PROVE FALSE
    OBVIOUS
  <2>2. bad \in SUBSET Nat
    BY <1>1
  <2>3. PICK m \in bad : \A k \in bad : m <= k
    BY <2>1, <2>2, LeastOf
  <2>4. m \in l .. n /\ f[m] # q[l] /\ m # l
    BY <1>1, <1>3
  <2>5. m - 1 \in l .. n /\ m - 1 \notin bad /\ m \in 1 .. n
    BY <1>1, <2>3, <2>4
  <2>6. f[m - 1] = q[l]
    BY <2>5
  <2> QED
    BY <1>1, <1>2, <2>4, <2>5, <2>6 DEF Upward
<1> QED
  BY <1>1, <1>4

LEMMA ReachableIs ==
  ASSUME NEW s \in Slots, NEW nodes \in SUBSET Slots, NEW ids,
         NEW par \in [Slots -> Slots \union {Null}]
  PROVE  ReachableIn(s, nodes, ids, par) <=> Leads(s, NodeIn(nodes, ids, Root), par)
<1>1. PICK top : top = NodeIn(nodes, ids, Root)
  OBVIOUS
<1>2. Null \notin top
  BY <1>1, SlotsAssumption DEF NodeIn
<1>3. PICK n \in Nat : n = Cardinality(Slots)
  BY SlotsAssumption, FS_CardinalityType
<1>4. ReachableIn(s, nodes, ids, par) <=> \E r \in top : Climb(s, r, par) = r
  BY <1>1 DEF ReachableIn
<1>5. ASSUME NEW r \in top, Climb(s, r, par) = r PROVE Leads(s, top, par)
  <2>1. PICK f : Climbs(f, n, s, r, par) /\ Climb(s, r, par) = f[n]
    BY <1>3, ClimbIs
  <2> QED
    BY <1>2, <1>5, <2>1, ClimbsPath
<1>6. ASSUME Leads(s, top, par) PROVE \E r \in top : Climb(s, r, par) = r
  <2>1. PICK q, l : Path(q, l, s, top, par)
    BY <1>6 DEF Leads
  <2>2. l <= n
    <3>1. l \in Nat
      BY <2>1 DEF Path
    <3>2. l < n
      BY <1>3, <2>1, PathShort
    <3> QED
      BY <3>1, <3>2
  <2>3. PICK r : r = q[l] /\ r \in top
    BY <2>1 DEF Path
  <2>4. PICK f : Climbs(f, n, s, r, par) /\ Climb(s, r, par) = f[n]
    BY <1>3, ClimbIs
  <2>5. f[n] = q[l]
    BY <2>1, <2>2, <2>3, <2>4, PathClimbs
  <2> QED
    BY <2>3, <2>4, <2>5
<1> QED
  BY <1>1, <1>4, <1>5, <1>6

-----------------------------------------------------------------------------
(* The paths are kept.                                                     *)

\* A node whose path does not pass c keeps it when c's parent changes; one whose
\* path does so has a path as long as c has one.
LEMMA LeadsAround ==
  ASSUME NEW s \in Slots, NEW top, NEW par \in [Slots -> Slots \union {Null}],
         NEW c \in Slots, NEW new \in [Slots -> Slots \union {Null}],
         \A t \in Slots \ {c} : new[t] = par[t],
         Leads(s, top, par), Leads(c, top, par) => Leads(c, top, new)
  PROVE  Leads(s, top, new)
<1>1. PICK q, n : Path(q, n, s, top, par)
  BY DEF Leads
<1>2. /\ n \in Nat /\ q \in [0 .. n -> Slots] /\ q[0] = s /\ q[n] \in top
      /\ \A k \in 0 .. n - 1 : q[k] \notin top /\ q[k + 1] = par[q[k]]
  BY <1>1 DEF Path
<1> DEFINE at == {k \in 0 .. n - 1 : q[k] = c}
<1>3. CASE at = {}
  <2>1. \A k \in 0 .. n - 1 : k \in 0 .. n /\ q[k] \in Slots \ {c}
    BY <1>2, <1>3
  <2>2. Path(q, n, s, top, new)
    BY <1>2, <2>1 DEF Path
  <2> QED
    BY <2>2 DEF Leads
<1>4. CASE at # {}
  <2>1. at \in SUBSET Nat
    BY <1>2
  <2>2. PICK j \in at : \A k \in at : j <= k
    BY <1>4, <2>1, LeastOf
  <2>3. j \in 0 .. n - 1 /\ j \in Nat /\ n - j \in Nat /\ q[j] = c
    BY <1>2
  <2>4. Leads(c, top, par)
    <3> DEFINE r == [k \in 0 .. n - j |-> q[j + k]]
    <3>1. \A k \in 0 .. n - j : r[k] = q[j + k] /\ j + k \in 0 .. n
      BY <1>2, <2>3
    <3>2. r \in [0 .. n - j -> Slots]
      BY <1>2, <3>1
    <3>3. 0 \in 0 .. n - j /\ n - j \in 0 .. n - j /\ j + 0 = j /\ j + (n - j) = n
      BY <1>2, <2>3
    <3> HIDE DEF r
    <3>4. r[0] = c /\ r[n - j] \in top
      BY <1>2, <2>3, <3>1, <3>3
    <3>5. ASSUME NEW k \in 0 .. (n - j) - 1
          PROVE  r[k] \notin top /\ r[k + 1] = par[r[k]]
      <4>1. /\ k \in 0 .. n - j /\ k + 1 \in 0 .. n - j
            /\ j + k \in 0 .. n - 1 /\ j + (k + 1) = (j + k) + 1
        BY <1>2, <2>3
      <4>2. r[k] = q[j + k] /\ r[k + 1] = q[(j + k) + 1]
        BY <3>1, <4>1
      <4> QED
        BY <1>2, <4>1, <4>2
    <3>6. Path(r, n - j, c, top, par)
      BY <2>3, <3>2, <3>4, <3>5 DEF Path
    <3> QED
      BY <3>6 DEF Leads
  <2>5. PICK r, m : Path(r, m, c, top, new)
    BY <2>4 DEF Leads
  <2>6. /\ m \in Nat /\ r \in [0 .. m -> Slots] /\ r[0] = c /\ r[m] \in top
        /\ \A k \in 0 .. m - 1 : r[k] \notin top /\ r[k + 1] = new[r[k]]
    BY <2>5 DEF Path
  <2> DEFINE g == [k \in 0 .. j + m |-> IF k < j THEN q[k] ELSE r[k - j]]
  <2>7. /\ \A k \in 0 .. j + m : g[k] = IF k < j THEN q[k] ELSE r[k - j]
        /\ \A k \in 0 .. j - 1 : k \in 0 .. n - 1 /\ k \in 0 .. n
        /\ \A k \in j .. j + m : k - j \in 0 .. m
        /\ \A k \in 0 .. j + m : IF k < j THEN k \in 0 .. j - 1 ELSE k \in j .. j + m
    BY <1>2, <2>3, <2>6
  <2>8. g \in [0 .. j + m -> Slots]
    BY <1>2, <2>6, <2>7
  <2> HIDE DEF g
  <2>9. j + m \in Nat /\ 0 \in 0 .. j + m /\ j + m \in 0 .. j + m /\ (j + m) - j = m
    BY <2>3, <2>6
  <2>10. g[0] = s
    <3>1. CASE j = 0
      BY <1>2, <2>3, <2>6, <2>7, <2>9, <3>1
    <3>2. CASE j # 0
      BY <1>2, <2>3, <2>7, <2>9, <3>2
    <3> QED
      BY <3>1, <3>2
  <2>11. g[j + m] \in top
    BY <2>3, <2>6, <2>7, <2>9
  <2>12. ASSUME NEW k \in 0 .. (j + m) - 1
         PROVE  g[k] \notin top /\ g[k + 1] = new[g[k]]
    <3>1. k \in 0 .. j + m /\ k + 1 \in 0 .. j + m
      BY <2>3, <2>6
    <3>2. CASE k < j
      <4>1. k \in 0 .. n - 1 /\ k \in 0 .. n /\ k \notin at
        BY <2>2, <2>3, <1>2, <3>2
      <4>2. g[k] = q[k] /\ q[k] \in Slots \ {c} /\ q[k] \notin top
        BY <1>2, <2>7, <3>1, <3>2, <4>1
      <4>3. g[k + 1] = q[k + 1]
        <5>1. CASE k + 1 < j
          BY <2>7, <3>1, <5>1
        <5>2. CASE k + 1 = j
          <6>1. g[k + 1] = r[0]
            BY <2>3, <2>7, <3>1, <5>2
          <6> QED
            BY <2>3, <2>6, <5>2, <6>1
        <5> QED
          BY <2>3, <3>2, <5>1, <5>2
      <4> QED
        BY <1>2, <4>1, <4>2, <4>3
    <3>3. CASE ~(k < j)
      <4>1. k - j \in 0 .. m - 1 /\ (k - j) + 1 = (k + 1) - j /\ ~(k + 1 < j)
        BY <2>3, <2>6, <3>3
      <4>2. g[k] = r[k - j] /\ g[k + 1] = r[(k - j) + 1]
        BY <2>7, <3>1, <3>3, <4>1
      <4> QED
        BY <2>6, <4>1, <4>2
    <3> QED
      BY <3>2, <3>3
  <2>13. Path(g, j + m, s, top, new)
    BY <2>8, <2>9, <2>10, <2>11, <2>12 DEF Path
  <2> QED
    BY <2>13 DEF Leads
<1> QED
  BY <1>3, <1>4

\* The test at the end of rpl_ns_update_node() suffices: it looks at the node whose
\* parent changes only, and no other node loses its path.
LEMMA AdoptedKeeps ==
  ASSUME NEW c \in Slots, NEW up \in Slots, NEW nodes \in SUBSET Slots, NEW ids,
         NEW par \in [Slots -> Slots \union {Null}], NEW s \in Slots,
         ReachableIn(s, nodes, ids, par)
  PROVE  ReachableIn(s, nodes, ids, Adopted(c, up, nodes, ids, par))
<1>1. PICK new : new = [par EXCEPT ![c] = up]
  OBVIOUS
<1>2. new \in [Slots -> Slots \union {Null}] /\ \A t \in Slots \ {c} : new[t] = par[t]
  BY <1>1
<1>3. CASE ReachableIn(c, nodes, ids, par) /\ ~ReachableIn(c, nodes, ids, new)
  BY <1>1, <1>3 DEF Adopted
<1>4. CASE ~(ReachableIn(c, nodes, ids, par) /\ ~ReachableIn(c, nodes, ids, new))
  <2>1. Adopted(c, up, nodes, ids, par) = new
    BY <1>1, <1>4 DEF Adopted
  <2>2. PICK top : top = NodeIn(nodes, ids, Root)
    OBVIOUS
  <2>3. Leads(s, top, par) /\ (Leads(c, top, par) => Leads(c, top, new))
    BY <1>2, <1>4, <2>2, ReachableIs
  <2>4. Leads(s, top, new)
    BY <1>2, <2>3, LeadsAround
  <2> QED
    BY <1>2, <2>1, <2>2, <2>4, ReachableIs
<1> QED
  BY <1>3, <1>4

\* The parents without the pointers to freed blocks.
Own == [t \in Slots |-> IF t \in orphans THEN Null ELSE parent[t]]

\* A path without orphans leads through nodes only, and is one as well when blocks
\* are allocated, though the contents of those change.
LEMMA AttachedStays ==
  ASSUME Inv, NEW nodes \in SUBSET Slots, NEW ids, NEW par \in [Slots -> Slots \union {Null}],
         \A t \in Nodes : t \in nodes \/ id[t] # Root,
         \A t \in Nodes : ids[t] = id[t] /\ par[t] = parent[t],
         NEW s \in Nodes, ReachableIn(s, Nodes, id, Own)
  PROVE  ReachableIn(s, nodes, ids, par)
<1>1. /\ TypeOK /\ Hops /\ s \in Slots /\ Nodes \subseteq Slots
  BY NodesAre DEF Inv, HopsAnnouncedUnlessOrphaned, Hops
<1>2. PICK top : top = NodeIn(Nodes, id, Root)
  OBVIOUS
<1>3. PICK more : more = NodeIn(nodes, ids, Root)
  OBVIOUS
<1>4. \A t \in Nodes : t \in top <=> t \in more
  BY <1>2, <1>3 DEF NodeIn
<1>5. PICK own : own = Own
  OBVIOUS
<1>6. /\ own \in [Slots -> Slots \union {Null}]
      /\ \A t \in Nodes : own[t] # Null => own[t] \in Nodes /\ own[t] = par[t]
  BY <1>1, <1>5 DEF Own, Hops, TypeOK
<1>7. Leads(s, top, own)
  BY <1>1, <1>2, <1>5, <1>6, ReachableIs
<1>8. PICK q, n : Path(q, n, s, top, own)
  BY <1>7 DEF Leads
<1>9. /\ n \in Nat /\ q \in [0 .. n -> Slots] /\ q[0] = s /\ q[n] \in top
      /\ \A k \in 0 .. n - 1 : q[k] \notin top /\ q[k + 1] = own[q[k]]
  BY <1>8 DEF Path
<1>10. \A k \in 0 .. n : q[k] \in Nodes
  <2> DEFINE bad == {k \in 0 .. n : q[k] \notin Nodes}
  <2>1. SUFFICES ASSUME bad # {} PROVE FALSE
    OBVIOUS
  <2>2. bad \in SUBSET Nat
    OBVIOUS
  <2>3. PICK m \in bad : \A k \in bad : m <= k
    BY <2>1, <2>2, LeastOf
  <2>4. m \in 0 .. n /\ q[m] \notin Nodes /\ q[m] \in Slots /\ m # 0
    BY <1>9
  <2>5. m - 1 \in 0 .. n - 1 /\ m - 1 \in 0 .. n /\ m - 1 \notin bad /\ (m - 1) + 1 = m
    BY <1>9, <2>3, <2>4
  <2>6. q[m - 1] \in Nodes /\ q[m] = own[q[m - 1]] /\ q[m] # Null
    BY <1>9, <2>4, <2>5, SlotsAssumption
  <2> QED
    BY <1>6, <2>4, <2>6
<1>11. ASSUME NEW k \in 0 .. n - 1 PROVE q[k] \notin more /\ q[k + 1] = par[q[k]]
  <2>1. k \in 0 .. n /\ k + 1 \in 0 .. n
    BY <1>9
  <2>2. q[k + 1] # Null
    BY <1>9, <2>1, SlotsAssumption
  <2> QED
    BY <1>4, <1>6, <1>9, <1>10, <2>1, <2>2
<1>12. q[n] \in more
  BY <1>4, <1>9, <1>10
<1>13. Path(q, n, s, more, par)
  BY <1>9, <1>11, <1>12 DEF Path
<1> QED
  BY <1>1, <1>3, <1>13, ReachableIs DEF Leads

\* It is a node of the same mote that has the path.
LEMMA StaysReachable ==
  ASSUME NEW a, Attached(a),
         \A s \in Node(a) : ReachableIn(s, Nodes, id, Own) =>
           \/ s \in Nodes' /\ id'[s] = id[s] /\ ReachableIn(s, Nodes', id', parent')
           \/ Node(a)' = {}
  PROVE  Reachable(a)' \/ Node(a)' = {}
BY DEF Attached, Own, Reachable, Node, NodeIn

LEMMA DaoInputKeepsPaths ==
  ASSUME Inv, NEW m \in Motes, NEW p \in Ids, DaoInput(m, p), NEW a, Attached(a)
  PROVE  Reachable(a)' \/ Node(a)' = {}
<1>1. /\ TypeOK /\ NoRepetition(nodelist) /\ m \in Ids /\ m # p /\ UpdateNode(m, p)
      /\ settled' = settled /\ sender' \in Motes \union {Null}
  BY DEF DaoInput, Inv, HopsAnnouncedUnlessOrphaned, NodesUnique, Ids
<1>2. settled' \in BOOLEAN
  BY <1>1 DEF TypeOK
<1>3. /\ Nodes \subseteq Slots /\ parent \in [Slots -> Slots \union {Null}]
      /\ \A s \in Node(a) : s \in Nodes
  BY <1>1, NodesAre DEF TypeOK, Node, NodeIn
<1>4. Inv' /\ TypeOK'
  BY DaoInputInv DEF Inv, HopsAnnouncedUnlessOrphaned
<1>5. /\ Nodes' \subseteq Slots /\ parent' \in [Slots -> Slots \union {Null}]
  <2>1. Nodes' \subseteq Slots
    BY <1>4, MembersAre DEF TypeOK, Nodes
  <2> QED
    BY <1>4, <2>1 DEF TypeOK
<1>6. ASSUME Nodes \subseteq Nodes',
             \A t \in Nodes : id'[t] = id[t] /\ parent'[t] = parent[t]
      PROVE  Reachable(a)' \/ Node(a)' = {}
  <2>1. \A t \in Nodes : ReachableIn(t, Nodes, id, Own)
                           => ReachableIn(t, Nodes', id', parent')
    BY <1>5, <1>6, AttachedStays
  <2> QED
    BY <1>3, <1>6, <2>1, StaysReachable
<1>7. CASE UNCHANGED <<nodelist, id, parent, lifetime, announced, orphans>>
  BY <1>6, <1>7 DEF Nodes
<1>8. CASE Node(p) = {} /\ \E s \in Slots \ Nodes : ParentOnly(p, s)
  BY <1>1, <1>2, <1>6, <1>8, ParentOnlyInv
<1>9. ASSUME NEW up \in Slots, NEW c \in Slots, up # c,
             Node(p) = {} => up \notin Nodes,
             Node(p) # {} => up \in Nodes /\ id[up] = p,
             Node(m) = {} => c \notin Nodes,
             Node(m) # {} => c \in Nodes /\ id[c] = m,
             Placed(m, p, up, c),
             parent' = Adopted(c, up, Nodes', id', Parents(Nodes' \ Nodes))
      PROVE  Reachable(a)' \/ Node(a)' = {}
  <2>1. /\ Nodes \subseteq Nodes'
        /\ id'[up] = p /\ id'[c] = m
        /\ \A s \in Slots \ {up, c} : id'[s] = id[s]
    BY <1>9 DEF Placed
  <2>2. \A t \in Nodes : id'[t] = id[t]
    BY <1>3, <1>9, <2>1
  <2>3. PICK par : par = Parents(Nodes' \ Nodes)
    OBVIOUS
  <2>4. par \in [Slots -> Slots \union {Null}] /\ \A t \in Nodes : par[t] = parent[t]
    BY <1>3, <2>3 DEF Parents
  <2>5. \A t \in Nodes : ReachableIn(t, Nodes, id, Own) => ReachableIn(t, Nodes', id', par)
    BY <1>5, <2>1, <2>2, <2>4, AttachedStays
  <2>6. \A t \in Nodes : ReachableIn(t, Nodes', id', par)
                           => ReachableIn(t, Nodes', id', parent')
    BY <1>3, <1>5, <1>9, <2>3, <2>4, AdoptedKeeps
  <2> QED
    BY <1>3, <2>1, <2>2, <2>5, <2>6, StaysReachable
<1> QED
  BY <1>1, <1>2, <1>7, <1>8, <1>9, UpdateNodeIs

-----------------------------------------------------------------------------
(* The root is known for good: nobody sends a DAO for it, and so its node  *)
(* never expires.                                                          *)

RootStays == \A s \in Nodes : id[s] = Root => lifetime[s] = Infinite

LEMMA RootStaysInv ==
  ASSUME Inv, RootStays, Next PROVE RootStays'
<1>1. /\ TypeOK /\ NodesUnique /\ Nodes \subseteq Slots
  BY NodesAre DEF Inv, HopsAnnouncedUnlessOrphaned
<1>2. ASSUME NEW m \in Motes, NEW p \in Ids, DaoInput(m, p)
      PROVE  RootStays'
  <2>1. /\ NoRepetition(nodelist) /\ m \in Ids /\ m # Root /\ m # p /\ UpdateNode(m, p)
        /\ settled' \in BOOLEAN /\ sender' \in Motes \union {Null}
    BY <1>1, <1>2, MotesAssumption DEF DaoInput, NodesUnique, Ids, TypeOK
  <2>2. CASE UNCHANGED <<nodelist, id, parent, lifetime, announced, orphans>>
    BY <2>2 DEF RootStays, Nodes
  <2>3. ASSUME Node(p) = {}, NEW s \in Slots \ Nodes, ParentOnly(p, s)
        PROVE  RootStays'
    <3>1. Nodes' = Nodes \union {s} /\ \A t \in Nodes : id'[t] = id[t]
      BY <2>1, <2>3, ParentOnlyInv
    <3>2. lifetime'[s] = Infinite /\ \A t \in Nodes : lifetime'[t] = lifetime[t]
      BY <1>1, <2>3 DEF ParentOnly, TypeOK
    <3> QED
      BY <3>1, <3>2 DEF RootStays
  <2>4. ASSUME NEW up \in Slots, NEW c \in Slots,
               Node(p) # {} => up \in Nodes /\ id[up] = p,
               Node(p) = {} => up \notin Nodes,
               Placed(m, p, up, c)
        PROVE  RootStays'
    <3>1. /\ Nodes' = Nodes \union {up, c} /\ id'[up] = p /\ id'[c] = m
          /\ \A s \in Slots \ {up, c} : id'[s] = id[s]
          /\ \A s \in Nodes \ {c} : lifetime'[s] = lifetime[s]
          /\ up \notin Nodes => lifetime'[up] = Infinite
      BY <2>4 DEF Placed
    <3>2. ASSUME NEW s \in Nodes', id'[s] = Root PROVE lifetime'[s] = Infinite
      <4>1. s # c /\ (s = up \/ s \in Nodes \ {up, c})
        BY <2>1, <3>1, <3>2
      <4>2. CASE s = up /\ up \notin Nodes
        BY <3>1, <4>2
      <4>3. CASE s \in Nodes
        <5>1. id[s] = Root
          BY <1>1, <2>4, <3>1, <3>2, <4>1, <4>3
        <5> QED
          BY <3>1, <4>1, <4>3, <5>1 DEF RootStays
      <4> QED
        BY <4>1, <4>2, <4>3
    <3> QED
      BY <3>2 DEF RootStays
  <2> QED
    BY <1>1, <2>1, <2>2, <2>3, <2>4, UpdateNodeIs
<1>3. ASSUME NEW m \in Motes, NEW p \in Ids, NoPathDao(m, p)
      PROVE  RootStays'
  <2>1. PICK s \in Node(m) : lifetime' = [lifetime EXCEPT ![s] = NoPathDelay]
    BY <1>3 DEF NoPathDao
  <2>2. id[s] # Root
    BY <2>1, MotesAssumption DEF Node, NodeIn
  <2>3. \A t \in Nodes \ {s} : lifetime'[t] = lifetime[t]
    BY <1>1, <2>1 DEF TypeOK
  <2> QED
    BY <1>3, <2>2, <2>3 DEF NoPathDao, RootStays, Nodes
<1>4. CASE Settle
  BY <1>4 DEF Settle, RootStays, Nodes
<1>5. CASE Periodic
  <2>1. /\ id' = id
        /\ lifetime' = [s \in Slots |-> IF s \in Nodes THEN Aged(lifetime[s]) ELSE lifetime[s]]
    BY <1>5 DEF Periodic
  <2>2. Nodes' \subseteq Nodes
    BY <1>5, PeriodicFrees
  <2> QED
    BY <1>1, <2>1, <2>2 DEF RootStays, Aged
<1> QED
  BY <1>2, <1>3, <1>4, <1>5 DEF Next

\* The node of the root is never one of those that rpl_ns_periodic() may free, so
\* that there is a root for the paths to lead to.
THEOREM RootKnown == Spec => [](Inv /\ RootStays)
<1>1. Init => RootStays
  BY DEF Init, RootStays, Nodes, Members
<1>2. Inv /\ RootStays /\ [Next]_vars => RootStays'
  BY RootStaysInv DEF RootStays, Nodes, vars
<1>3. Spec => []Inv
  BY HopsAnnounced, PTL DEF Inv
<1> QED
  BY <1>1, <1>2, <1>3, PTL DEF Spec

\* A node that is freed costs no other one its path, unless the path leads through
\* its block.
LEMMA PeriodicKeepsPaths ==
  ASSUME Inv, RootStays, Periodic, NEW a, a # Root, Attached(a)
  PROVE  Reachable(a)' \/ Node(a)' = {}
<1>1. /\ TypeOK /\ NodesUnique /\ Nodes \subseteq Slots /\ parent \in [Slots -> Slots \union {Null}]
  BY NodesAre DEF Inv, HopsAnnouncedUnlessOrphaned, TypeOK
<1>2. id' = id /\ parent' = parent
  BY DEF Periodic
<1>3. Nodes' \subseteq Nodes /\ \A s \in Nodes : id[s] = Root => s \in Nodes'
  BY PeriodicFrees DEF RootStays
<1>4. ASSUME NEW s \in Node(a), ReachableIn(s, Nodes, id, Own)
      PROVE  \/ s \in Nodes' /\ id'[s] = id[s] /\ ReachableIn(s, Nodes', id', parent')
             \/ Node(a)' = {}
  <2>1. s \in Nodes /\ id[s] = a
    BY DEF Node, NodeIn
  <2>2. CASE s \in Nodes'
    <3>1. Nodes' \in SUBSET Slots /\ \A t \in Nodes : t \in Nodes' \/ id[t] # Root
      BY <1>1, <1>3
    <3>2. ReachableIn(s, Nodes', id', parent')
      BY <1>1, <1>2, <1>4, <2>1, <3>1, AttachedStays
    <3> QED
      BY <1>2, <2>2, <3>2
  <2>3. CASE s \notin Nodes'
    BY <1>1, <1>2, <1>3, <2>1, <2>3 DEF NodesUnique, Node, NodeIn
  <2> QED
    BY <2>2, <2>3
<1> QED
  BY <1>4, StaysReachable

\* A mote whose path to the root passes no orphan has a path after every step, or no
\* node any more: neither DAOs take it away, whoever sends them, nor the freeing of
\* other nodes, whatever is left of those.
THEOREM PathsStay == Spec => PathsKept
<1> DEFINE Keep == \A a \in Motes : Attached(a) => Reachable(a)' \/ Node(a)' = {}
<1>1. ASSUME Inv, RootStays, Next, NEW a \in Motes, Attached(a)
      PROVE  Reachable(a)' \/ Node(a)' = {}
  <2>1. CASE UNCHANGED <<nodelist, id, parent>>
    <3>1. Nodes' = Nodes
      BY <2>1 DEF Nodes
    <3>2. /\ Nodes \in SUBSET Slots /\ parent \in [Slots -> Slots \union {Null}]
          /\ \A s \in Node(a) : s \in Nodes
      BY <1>1, NodesAre DEF Inv, HopsAnnouncedUnlessOrphaned, TypeOK, Node, NodeIn
    <3>3. \A t \in Nodes : ReachableIn(t, Nodes, id, Own) => ReachableIn(t, Nodes, id, parent)
      BY <1>1, <3>2, AttachedStays
    <3> QED
      BY <1>1, <2>1, <3>1, <3>2, <3>3, StaysReachable
  <2>2. CASE \E m \in Motes, p \in Ids : DaoInput(m, p)
    BY <1>1, <2>2, DaoInputKeepsPaths
  <2>3. ASSUME NEW m \in Motes, NEW p \in Ids, NoPathDao(m, p)
        PROVE  UNCHANGED <<nodelist, id, parent>>
    BY <2>3 DEF NoPathDao
  <2>4. ASSUME Settle PROVE UNCHANGED <<nodelist, id, parent>>
    BY <2>4 DEF Settle
  <2>5. CASE Periodic
    BY <1>1, <2>5, MotesAssumption, PeriodicKeepsPaths
  <2> QED
    BY <1>1, <2>1, <2>2, <2>3, <2>4, <2>5 DEF Next
<1>2. Inv /\ RootStays /\ [Next]_vars => [Keep]_<<nodelist, id, parent>>
  BY <1>1 DEF vars
<1>3. Spec => [][Keep]_<<nodelist, id, parent>>
  BY <1>2, RootKnown, PTL DEF Spec
<1> QED
  BY <1>3 DEF PathsKept
=============================================================================
