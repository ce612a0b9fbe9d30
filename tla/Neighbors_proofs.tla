---------------------------- MODULE Neighbors_proofs ----------------------------
(***************************************************************************)
(* Theorems about the neighbor cache, for every number of neighbors, keys  *)
(* and packets.                                                            *)
(*                                                                         *)
(* AddrInv is about the addresses: the key of a neighbor tells whether it  *)
(* is being resolved.  WaitInv is about the packets that wait, and needs   *)
(* AddrInv; it also says what ns_input() leaves behind for the one step    *)
(* until its answer is sent: a handle whose packet is free already.        *)
(***************************************************************************)
EXTENDS Neighbors, WellFoundedInduction, TLAPS

Item ==
  [ipaddr : Addrs \union {Null}, state : States, nscount : 0 .. MaxSolicit,
   handle : Packets \union {Null}]

Block == [used : BOOLEAN, to : Addrs \union {Null}, timer : Slots \union {Null}]

Typed ==
  /\ NbrTableTypeOK
  /\ item \in [Slots -> Item]
  /\ packet \in [Packets -> Block]
  /\ uip_buf \in Addrs \union {Null}
  /\ torn \in BOOLEAN

Resolving(i) == item[i].state = "INCOMPLETE"
Resolved ==
  \A i \in Neighbors :
    /\ item[i].ipaddr \in Addrs
    /\ lladdr[i] = IF Resolving(i) THEN LLNull ELSE LLOf(item[i].ipaddr)
OneNeighbor == \A i, j \in Neighbors : item[i].ipaddr = item[j].ipaddr => i = j

\* An item that is not in use is blank.
OthersBlank == \A i \in Slots \ Neighbors : item[i] = Blank

AddrInv == Typed /\ KeysSound /\ Resolved /\ OneNeighbor /\ OthersBlank

-----------------------------------------------------------------------------
(* The addresses.                                                          *)

LEMMA TablesAre == "neighbors" \in Tables /\ \A t \in Tables : t = "neighbors"
  BY TablesAssumption

LEMMA ItemTypes ==
  /\ Blank \in Item
  /\ \A n \in Addrs, st \in States :
       /\ Entry(n, st) \in Item
       /\ Entry(n, st).ipaddr = n /\ Entry(n, st).state = st
       /\ Entry(n, st).nscount = 0 /\ Entry(n, st).handle = Null
<1>1. 0 \in 0 .. MaxSolicit
  BY MaxSolicitAssumption
<1> QED
  BY <1>1 DEF Blank, Entry, Item, States

\* The key that an address gets is the one it has, if it has one.
LEMMA KeyAllocated ==
  ASSUME AddrInv, NEW ll \in LLAddrs \union {LLNull}, NEW removable \in SUBSET Slots,
         NEW i \in Allocated(ll, removable)
  PROVE  /\ i \in Slots
         /\ \A j \in Slots : lladdr[j] = ll => j = i
         /\ removable = {} => ~Evicts(i, ll)
         /\ \A j \in Slots : LLAfter(ll, i)[j] = IF j = i THEN ll ELSE lladdr[j]
<1>1. /\ lladdr \in [Slots -> LLAddrs \union {LLNull, Free}]
      /\ \A j, k \in Slots : lladdr[j] = lladdr[k] /\ lladdr[j] # Free => j = k
  BY DEF AddrInv, Typed, NbrTableTypeOK, KeysSound
<1>2. \/ i \in Slots /\ lladdr[i] = ll
      \/ i \in Slots /\ lladdr[i] = Free /\ Index(ll) = {}
      \/ i \in removable /\ Index(ll) = {}
  BY DEF Allocated, Index
<1>3. \A j \in Slots : lladdr[j] = ll => j = i
  BY <1>1, <1>2, LLAssumption DEF Index
<1> QED
  BY <1>1, <1>2, <1>3 DEF Evicts, LLAfter

\* Neighbor n takes key i of link-layer address ll, and those in gone leave.
Takes(n, ll, i, gone) ==
  /\ lladdr' = LLAfter(ll, i)
  /\ used' \in [Tables -> SUBSET Slots] /\ locked' \in [Tables -> SUBSET Slots]
  /\ used'["neighbors"] = (Neighbors \ gone) \union {i}
  /\ locked'["neighbors"] \subseteq used'["neighbors"]
  /\ item' \in [Slots -> Item]
  /\ \A j \in Slots \ {i} : item'[j] = IF j \in gone THEN Blank ELSE item[j]
  /\ item'[i].ipaddr = n
  /\ item'[i].state = "INCOMPLETE" <=> ll = LLNull
  /\ packet' \in [Packets -> Block]
  /\ uip_buf' \in Addrs \union {Null} /\ torn' \in BOOLEAN

LEMMA TakesInv ==
  ASSUME AddrInv, NEW n \in Addrs, NEW ll \in {LLOf(n), LLNull},
         NEW removable \in SUBSET Slots, NEW i \in Allocated(ll, removable),
         NEW gone \in SUBSET Neighbors, Nbr(n) \subseteq gone, Takes(n, ll, i, gone)
  PROVE  AddrInv'
<1>1. ll \in LLAddrs \union {LLNull} /\ ll # Free /\ LLOf(n) # LLNull
  BY AddrsAssumption, LLAssumption
<1>2. /\ i \in Slots /\ \A j \in Slots : lladdr[j] = ll => j = i
      /\ \A j \in Slots : lladdr'[j] = IF j = i THEN ll ELSE lladdr[j]
  <2>1. ll \in LLAddrs \union {LLNull}
    BY <1>1
  <2>2. lladdr' = LLAfter(ll, i)
    BY DEF Takes
  <2>3. /\ i \in Slots /\ \A j \in Slots : lladdr[j] = ll => j = i
        /\ \A j \in Slots : LLAfter(ll, i)[j] = IF j = i THEN ll ELSE lladdr[j]
    BY <2>1, KeyAllocated
  <2> QED
    BY <2>2, <2>3
<1>3. /\ lladdr \in [Slots -> LLAddrs \union {LLNull, Free}]
      /\ Neighbors \subseteq Slots
      /\ \A j \in Neighbors : lladdr[j] # Free
      /\ \A j, k \in Slots : lladdr[j] = lladdr[k] /\ lladdr[j] # Free => j = k
  BY TablesAre DEF AddrInv, Typed, NbrTableTypeOK, KeysSound, Index, Neighbors
<1>4. Neighbors' = (Neighbors \ gone) \union {i}
  BY DEF Takes, Neighbors
<1>5. Typed'
  <2>1. lladdr' \in [Slots -> LLAddrs \union {LLNull, Free}]
    BY <1>1, <1>2, <1>3 DEF Takes, LLAfter
  <2> QED
    BY <2>1 DEF Takes, Typed, NbrTableTypeOK
<1>6. KeysSound'
  <2>1. \A j, k \in Slots : lladdr'[j] = lladdr'[k] /\ lladdr'[j] # Free => j = k
    BY <1>2, <1>3
  <2>2. used'["neighbors"] \subseteq Slots \ {j \in Slots : lladdr'[j] = Free}
    BY <1>1, <1>2, <1>3, <1>4 DEF Neighbors
  <2>3. locked'["neighbors"] \subseteq used'["neighbors"]
    BY DEF Takes
  <2> QED
    BY <2>1, <2>2, <2>3, TablesAre DEF KeysSound, Index
<1>7. /\ \A j \in Slots \ {i} : item'[j] = IF j \in gone THEN Blank ELSE item[j]
      /\ item'[i].ipaddr = n
      /\ item'[i].state = "INCOMPLETE" <=> ll = LLNull
  BY DEF Takes
<1>8. Resolved'
  <2>1. ASSUME NEW j \in Neighbors', j # i
        PROVE  j \in Neighbors /\ item'[j] = item[j] /\ lladdr'[j] = lladdr[j]
    BY <1>2, <1>3, <1>4, <1>7, <2>1
  <2>2. ASSUME NEW j \in Neighbors', j # i
        PROVE  /\ item'[j].ipaddr \in Addrs
               /\ lladdr'[j] = IF item'[j].state = "INCOMPLETE" THEN LLNull
                               ELSE LLOf(item'[j].ipaddr)
    BY <2>1, <2>2 DEF AddrInv, Resolved, Resolving
  <2>3. /\ item'[i].ipaddr \in Addrs
        /\ lladdr'[i] = IF item'[i].state = "INCOMPLETE" THEN LLNull
                        ELSE LLOf(item'[i].ipaddr)
    BY <1>1, <1>2, <1>7
  <2> QED
    BY <2>2, <2>3 DEF Resolved, Resolving
<1>9. OneNeighbor'
  <2>1. \A j \in Neighbors \ gone : item[j].ipaddr # n
    BY DEF Nbr
  <2> QED
    BY <1>3, <1>4, <1>7, <2>1 DEF AddrInv, OneNeighbor
<1>10. OthersBlank'
  BY <1>4, <1>7 DEF AddrInv, OthersBlank
<1> QED
  BY <1>5, <1>6, <1>8, <1>9, <1>10 DEF AddrInv

\* The neighbors in gone leave, and the others stay resolved or unresolved.
Leave(gone) ==
  /\ lladdr' = lladdr
  /\ used' \in [Tables -> SUBSET Slots] /\ locked' \in [Tables -> SUBSET Slots]
  /\ used'["neighbors"] = Neighbors \ gone
  /\ locked'["neighbors"] \subseteq used'["neighbors"]
  /\ item' \in [Slots -> Item]
  /\ \A j \in Slots \ Neighbors : item'[j] = item[j]
  /\ \A j \in gone : item'[j] = Blank
  /\ \A j \in Neighbors \ gone :
       /\ item'[j].ipaddr = item[j].ipaddr
       /\ item'[j].state = "INCOMPLETE" <=> item[j].state = "INCOMPLETE"
  /\ packet' \in [Packets -> Block]
  /\ uip_buf' \in Addrs \union {Null} /\ torn' \in BOOLEAN

LEMMA LeaveInv ==
  ASSUME AddrInv, NEW gone \in SUBSET Neighbors, Leave(gone)
  PROVE  AddrInv'
<1>1. Neighbors' = Neighbors \ gone
  BY DEF Leave, Neighbors
<1>2. Typed'
  BY DEF Leave, AddrInv, Typed, NbrTableTypeOK
<1>3. KeysSound'
  <2>1. Index(Free)' = Index(Free)
    BY DEF Index, Leave
  <2>2. used'["neighbors"] \subseteq Slots \ Index(Free)
    BY TablesAre DEF Leave, AddrInv, KeysSound, Neighbors
  <2>3. /\ locked'["neighbors"] \subseteq used'["neighbors"]
        /\ \A i, j \in Slots : lladdr'[i] = lladdr'[j] /\ lladdr'[i] # Free => i = j
    BY DEF Leave, AddrInv, KeysSound
  <2> QED
    BY <2>1, <2>2, <2>3, TablesAre DEF KeysSound
<1>4. \A j \in Neighbors \ gone :
        /\ lladdr'[j] = lladdr[j] /\ item'[j].ipaddr = item[j].ipaddr
        /\ item'[j].state = "INCOMPLETE" <=> item[j].state = "INCOMPLETE"
  BY DEF Leave
<1>5. Resolved'
  BY <1>1, <1>4 DEF AddrInv, Resolved, Resolving
<1>6. OneNeighbor'
  BY <1>1, <1>4 DEF AddrInv, OneNeighbor
<1>7. OthersBlank'
  BY <1>1 DEF Leave, AddrInv, OthersBlank
<1> QED
  BY <1>2, <1>3, <1>5, <1>6, <1>7 DEF AddrInv

-----------------------------------------------------------------------------
(* The packet queue.                                                       *)

LEMMA LeastOf ==
  ASSUME NEW S \in SUBSET Nat, S # {}
  PROVE  \E x \in S : \A y \in S : x <= y
<1>1. PICK x \in S : \A y \in S : ~ (<<y, x>> \in OpToRel(<, Nat))
  BY WFMin, NatLessThanWellFounded, Zenon
<1>2. x \in Nat /\ \A y \in S : y \in Nat
  OBVIOUS
<1>3. \A y \in S : ~ (y < x)
  BY <1>1, <1>2, Zenon DEF OpToRel
<1> QED
  BY <1>2, <1>3

HandleOf(items, p) == \E i \in items : item[i].handle = p

LEMMA ReleasedIs ==
  ASSUME AddrInv, NEW items
  PROVE  /\ Released(items) \in [Packets -> Block]
         /\ \A p \in Packets :
              /\ Released(items)[p].to = packet[p].to
              /\ ~HandleOf(items, p) => Released(items)[p] = packet[p]
              /\ HandleOf(items, p) => /\ ~Released(items)[p].used
                                        /\ Released(items)[p].timer = Null
<1> DEFINE dead == {item[i].handle : i \in items}
           Freed(b) == [b EXCEPT !.used = FALSE, !.timer = Null]
<1>1. packet \in [Packets -> Block]
  BY DEF AddrInv, Typed
<1>2. Released(items) = [p \in Packets |-> IF p \in dead THEN Freed(packet[p]) ELSE packet[p]]
  BY DEF Released
<1>3. \A p : p \in dead <=> HandleOf(items, p)
  BY DEF HandleOf
<1>4. ASSUME NEW b \in Block
      PROVE  /\ Freed(b) \in Block /\ Freed(b).to = b.to
             /\ ~Freed(b).used /\ Freed(b).timer = Null
  BY DEF Block
<1> HIDE DEF dead, Freed
<1>5. \A p \in Packets :
        Released(items)[p] = IF HandleOf(items, p) THEN Freed(packet[p]) ELSE packet[p]
  BY <1>2, <1>3
<1>6. Released(items) \in [Packets -> Block]
  BY <1>1, <1>2, <1>4
<1>7. ASSUME NEW p \in Packets, HandleOf(items, p)
      PROVE  /\ Released(items)[p].to = packet[p].to
             /\ ~Released(items)[p].used /\ Released(items)[p].timer = Null
  <2>1. packet[p] \in Block /\ Released(items)[p] = Freed(packet[p])
    BY <1>1, <1>5, <1>7
  <2> QED
    BY <1>4, <2>1
<1> QED
  BY <1>5, <1>6, <1>7

\* uip_packetqueue_alloc() takes a block that is free, unless the handle has one.
Enqueued(n, i, entry) ==
  \/ /\ item'[i] = entry /\ packet' = packet
     /\ entry.handle # Null \/ \A p \in Packets : packet[p].used
  \/ /\ entry.handle = Null
     /\ \E p \in Packets :
          /\ ~packet[p].used /\ item'[i].handle = p
          /\ packet'[p] = [used |-> TRUE, to |-> n, timer |-> i]
          /\ \A q \in Packets \ {p} : packet'[q] = packet[q]

LEMMA EnqueueIs ==
  ASSUME AddrInv, NEW n \in Addrs, NEW i \in Slots, NEW entry \in Item, Enqueue(n, i, entry)
  PROVE  /\ item' \in [Slots -> Item] /\ packet' \in [Packets -> Block]
         /\ \A j \in Slots \ {i} : item'[j] = item[j]
         /\ item'[i].ipaddr = entry.ipaddr /\ item'[i].state = entry.state
         /\ Enqueued(n, i, entry)
<1> USE DEF Enqueued
<1> DEFINE free == {p \in Packets : ~packet[p].used}
           p == CHOOSE q \in free : \A r \in free : q <= r
<1>1. item \in [Slots -> Item] /\ packet \in [Packets -> Block]
  BY DEF AddrInv, Typed
<1>2. CASE entry.handle # Null \/ free = {}
  <2>1. item' = [item EXCEPT ![i] = entry] /\ packet' = packet
    BY <1>2 DEF Enqueue
  <2>2. entry.handle # Null \/ \A q \in Packets : packet[q].used
    BY <1>2
  <2> QED
    BY <1>1, <2>1, <2>2
<1>3. CASE entry.handle = Null /\ free # {}
  <2>1. /\ item' = [item EXCEPT ![i] = [entry EXCEPT !.handle = p]]
        /\ packet' = [packet EXCEPT ![p] = [used |-> TRUE, to |-> n, timer |-> i]]
    BY <1>3 DEF Enqueue
  <2>2. p \in free
    BY <1>3, LeastOf, PacketsAssumption
  <2>3. p \in Packets /\ ~packet[p].used
    BY <2>2
  <2> DEFINE taken == [entry EXCEPT !.handle = p]
             block == [used |-> TRUE, to |-> n, timer |-> i]
  <2> HIDE DEF p, free
  <2>4. taken \in Item /\ taken.handle = p /\ taken.ipaddr = entry.ipaddr
        /\ taken.state = entry.state
    BY <2>3 DEF Item
  <2>5. block \in Block
    BY DEF Block
  <2>6. item' = [item EXCEPT ![i] = taken] /\ packet' = [packet EXCEPT ![p] = block]
    BY <2>1
  <2> HIDE DEF taken, block
  <2>7. /\ item' \in [Slots -> Item] /\ packet' \in [Packets -> Block]
        /\ \A j \in Slots \ {i} : item'[j] = item[j]
        /\ item'[i] = taken /\ packet'[p] = block
        /\ \A q \in Packets \ {p} : packet'[q] = packet[q]
    BY <1>1, <2>3, <2>4, <2>5, <2>6
  <2> QED
    BY <1>3, <2>3, <2>4, <2>7 DEF block
<1> QED
  BY <1>2, <1>3

-----------------------------------------------------------------------------
(* What each operation does to the addresses.                              *)

\* The link-layer address of a neighbor is none of the reserved ones.
LEMMA LLOfIs ==
  ASSUME NEW n \in Addrs
  PROVE  LLOf(n) \in LLAddrs \union {LLNull} /\ LLOf(n) # LLNull /\ LLOf(n) \in {LLOf(n), LLNull}
  BY AddrsAssumption, LLAssumption

LEMMA KeyTypes ==
  ASSUME AddrInv, NEW ll, NEW i \in Slots
  PROVE  /\ UsedAfter("neighbors", ll, i) \in [Tables -> SUBSET Slots]
         /\ UsedAfter("neighbors", ll, i)["neighbors"] = Neighbors \union {i}
         /\ LockedAfter(ll, i) \in [Tables -> SUBSET Slots]
         /\ LockedAfter(ll, i)["neighbors"] \subseteq Neighbors
<1>1. /\ used \in [Tables -> SUBSET Slots] /\ locked \in [Tables -> SUBSET Slots]
      /\ locked["neighbors"] \subseteq Neighbors
  BY TablesAre DEF AddrInv, Typed, NbrTableTypeOK, KeysSound, Neighbors
<1> QED
  BY <1>1, TablesAre DEF UsedAfter, LockedAfter, Neighbors

LEMMA WithoutIs ==
  ASSUME AddrInv, NEW items
  PROVE  /\ Without(used, "neighbors", items) \in [Tables -> SUBSET Slots]
         /\ Without(used, "neighbors", items)["neighbors"] = Neighbors \ items
         /\ Without(locked, "neighbors", items) \in [Tables -> SUBSET Slots]
         /\ Without(locked, "neighbors", items)["neighbors"] \subseteq Neighbors \ items
<1>1. /\ used \in [Tables -> SUBSET Slots] /\ locked \in [Tables -> SUBSET Slots]
      /\ locked["neighbors"] \subseteq Neighbors
  BY TablesAre DEF AddrInv, Typed, NbrTableTypeOK, KeysSound, Neighbors
<1> QED
  BY <1>1, TablesAre DEF Without, Neighbors

LEMMA NbrAddInv ==
  ASSUME AddrInv, NEW n \in Addrs, NEW st \in {"STALE", "REACHABLE"},
         NEW removable \in SUBSET Slots, Nbr(n) = {}, NbrAdd(n, st, removable),
         uip_buf' \in Addrs \union {Null}
  PROVE  AddrInv'
<1>1. PICK i \in Allocated(LLOf(n), removable) :
        /\ lladdr' = LLAfter(LLOf(n), i)
        /\ used' = UsedAfter("neighbors", LLOf(n), i)
        /\ locked' = LockedAfter(LLOf(n), i)
        /\ item' = [item EXCEPT ![i] = Entry(n, st)]
        /\ packet' = IF Evicts(i, LLOf(n)) THEN Released({i}) ELSE packet
        /\ torn' = (torn \/ Overwrites(i, LLOf(n)))
  BY DEF NbrAdd
<1>2. i \in Slots
  BY LLOfIs, KeyAllocated
<1>3. st \in States /\ st # "INCOMPLETE"
  BY DEF States
<1>4. item' \in [Slots -> Item] /\ \A j \in Slots \ {i} : item'[j] = item[j]
  BY <1>1, <1>2, <1>3, ItemTypes DEF AddrInv, Typed
<1>5. item'[i].ipaddr = n /\ item'[i].state = st
  BY <1>1, <1>2, <1>3, ItemTypes DEF AddrInv, Typed
<1>6. packet' \in [Packets -> Block]
  BY <1>1, ReleasedIs DEF AddrInv, Typed
<1>7. torn' \in BOOLEAN
  BY <1>1
<1>8. Neighbors \ {} = Neighbors
  OBVIOUS
<1>9. Takes(n, LLOf(n), i, {})
  <2>1. /\ used' \in [Tables -> SUBSET Slots] /\ locked' \in [Tables -> SUBSET Slots]
        /\ used'["neighbors"] = (Neighbors \ {}) \union {i}
        /\ locked'["neighbors"] \subseteq used'["neighbors"]
    BY <1>1, <1>2, <1>8, KeyTypes
  <2>2. LLOf(n) # LLNull
    BY LLOfIs
  <2> QED
    BY <1>1, <1>3, <1>4, <1>5, <1>6, <1>7, <2>1, <2>2 DEF Takes
<1>10. {} \in SUBSET Neighbors /\ Nbr(n) \subseteq {}
  OBVIOUS
<1> QED
  BY <1>9, <1>10, LLOfIs, TakesInv

LEMMA OutputUnknownInv ==
  ASSUME AddrInv, NEW n \in Addrs, OutputUnknown(n), uip_buf' \in Addrs \union {Null}
  PROVE  AddrInv'
<1> DEFINE entry == [Entry(n, "INCOMPLETE") EXCEPT !.nscount = 1]
<1>1. PICK i \in Allocated(LLNull, {}) :
        /\ lladdr' = LLAfter(LLNull, i)
        /\ used' = UsedAfter("neighbors", LLNull, i)
        /\ locked' = LockedAfter(LLNull, i)
        /\ Enqueue(n, i, entry)
        /\ torn' = (torn \/ Overwrites(i, LLNull))
  BY DEF OutputUnknown
<1>2. LLNull \in LLAddrs \union {LLNull} /\ LLNull \in {LLOf(n), LLNull} /\ {} \in SUBSET Slots
  OBVIOUS
<1>3. i \in Slots
  BY <1>2, KeyAllocated
<1>4. entry \in Item /\ entry.ipaddr = n /\ entry.state = "INCOMPLETE"
  <2>1. 1 \in 0 .. MaxSolicit
    BY MaxSolicitAssumption
  <2> QED
    BY <2>1, ItemTypes DEF Item, States, Entry, Blank
<1> HIDE DEF entry
<1>5. /\ item' \in [Slots -> Item] /\ packet' \in [Packets -> Block]
      /\ \A j \in Slots \ {i} : item'[j] = item[j]
      /\ item'[i].ipaddr = n /\ item'[i].state = "INCOMPLETE"
  BY <1>1, <1>3, <1>4, EnqueueIs
<1>6. torn' \in BOOLEAN
  BY <1>1
<1>7. Neighbors \ {} = Neighbors
  OBVIOUS
<1>8. Takes(n, LLNull, i, {})
  <2>1. /\ used' \in [Tables -> SUBSET Slots] /\ locked' \in [Tables -> SUBSET Slots]
        /\ used'["neighbors"] = (Neighbors \ {}) \union {i}
        /\ locked'["neighbors"] \subseteq used'["neighbors"]
    BY <1>1, <1>3, <1>7, KeyTypes
  <2>2. lladdr' = LLAfter(LLNull, i)
    BY <1>1
  <2> QED
    BY <1>5, <1>6, <2>1, <2>2 DEF Takes
<1>9. {} \in SUBSET Neighbors /\ Nbr(n) \subseteq {}
  BY DEF OutputUnknown
<1> QED
  BY <1>2, <1>8, <1>9, TakesInv

LEMMA NbrRmInv ==
  ASSUME AddrInv, NEW items \in SUBSET Neighbors, NbrRm(items),
         uip_buf' \in Addrs \union {Null}, torn' \in BOOLEAN
  PROVE  AddrInv'
<1>1. /\ used' = Without(used, "neighbors", items)
      /\ locked' = Without(locked, "neighbors", items)
      /\ item' = [i \in Slots |-> IF i \in items THEN Blank ELSE item[i]]
      /\ packet' = Released(items) /\ lladdr' = lladdr
  BY DEF NbrRm
<1>2. packet' \in [Packets -> Block]
  BY <1>1, ReleasedIs
<1>3. /\ used' \in [Tables -> SUBSET Slots] /\ locked' \in [Tables -> SUBSET Slots]
      /\ used'["neighbors"] = Neighbors \ items
      /\ locked'["neighbors"] \subseteq used'["neighbors"]
  BY <1>1, WithoutIs
<1>4. /\ item \in [Slots -> Item] /\ Neighbors \subseteq Slots
  BY TablesAre DEF AddrInv, Typed, NbrTableTypeOK, Neighbors
<1>5. item' \in [Slots -> Item]
  BY <1>1, <1>4, ItemTypes
<1>6. \A j \in Slots : item'[j] = IF j \in items THEN Blank ELSE item[j]
  BY <1>1
<1>7. Leave(items)
  BY <1>1, <1>2, <1>3, <1>4, <1>5, <1>6 DEF Leave
<1> QED
  BY <1>7, LeaveInv

\* A neighbor that is being resolved leaves its item and takes that of its address.
LEMMA MovesInv ==
  ASSUME AddrInv, NEW n \in Addrs, NEW old \in Unresolved(n), NEW i \in Allocated(LLOf(n), {}),
         lladdr' = LLAfter(LLOf(n), i),
         used' = [used EXCEPT !["neighbors"] = (@ \ {old}) \union {i}],
         NEW left, old \in left, locked' = Without(locked, "neighbors", left),
         NEW entry \in Item, entry.ipaddr = n, entry.state # "INCOMPLETE",
         item' = [item EXCEPT ![old] = Blank, ![i] = entry],
         NEW dead, packet' = Released(dead),
         uip_buf' \in Addrs \union {Null}, torn' \in BOOLEAN
  PROVE  AddrInv' /\ i \in Slots /\ i # old /\ old \in Neighbors
<1>1. i \in Slots /\ LLOf(n) # LLNull /\ ~Evicts(i, LLOf(n))
  BY LLOfIs, KeyAllocated
<1>2. /\ used \in [Tables -> SUBSET Slots] /\ item \in [Slots -> Item]
      /\ old \in Slots /\ old \in Neighbors /\ item[old].ipaddr = n /\ lladdr[old] = LLNull
  BY TablesAre DEF AddrInv, Typed, NbrTableTypeOK, Unresolved, Nbr, Neighbors
<1>3. i # old
  BY <1>1, <1>2, LLAssumption DEF Evicts
<1>4. /\ used' \in [Tables -> SUBSET Slots]
      /\ used'["neighbors"] = (Neighbors \ {old}) \union {i}
  BY <1>1, <1>2, TablesAre DEF Neighbors
<1>5. /\ locked' \in [Tables -> SUBSET Slots]
      /\ locked'["neighbors"] \subseteq used'["neighbors"]
  BY <1>4, WithoutIs
<1>6. /\ item' \in [Slots -> Item] /\ item'[i] = entry
      /\ \A j \in Slots \ {i} : item'[j] = IF j = old THEN Blank ELSE item[j]
  BY <1>1, <1>2, ItemTypes
<1>7. packet' \in [Packets -> Block]
  BY ReleasedIs
<1>8. Takes(n, LLOf(n), i, {old})
  BY <1>1, <1>4, <1>5, <1>6, <1>7 DEF Takes
<1>9. {old} \in SUBSET Neighbors /\ Nbr(n) \subseteq {old}
  BY <1>2 DEF AddrInv, OneNeighbor, Nbr
<1>10. {} \in SUBSET Slots
  OBVIOUS
<1> QED
  BY <1>1, <1>2, <1>3, <1>8, <1>9, <1>10, LLOfIs, TakesInv

\* What uip_ds6_nbr_update_lladdr() makes of n, which was item old.
Moved(n, old, st, handle) ==
  [Entry(n, st) EXCEPT !.handle = handle,
                       !.nscount = IF st = "REACHABLE" THEN 0 ELSE item[old].nscount]

LEMMA MovedIs ==
  ASSUME AddrInv, NEW n \in Addrs, NEW old \in Slots, NEW st \in {"STALE", "REACHABLE"},
         NEW handle \in Packets \union {Null}
  PROVE  /\ Moved(n, old, st, handle) \in Item
         /\ Moved(n, old, st, handle).ipaddr = n
         /\ Moved(n, old, st, handle).state = st
         /\ Moved(n, old, st, handle).handle = handle
<1>1. st \in States
  BY DEF States
<1>2. 0 \in 0 .. MaxSolicit /\ item[old].nscount \in 0 .. MaxSolicit
  BY MaxSolicitAssumption DEF AddrInv, Typed, Item
<1>3. PICK k \in 0 .. MaxSolicit : k = IF st = "REACHABLE" THEN 0 ELSE item[old].nscount
  BY <1>2
<1>4. Moved(n, old, st, handle) = [Entry(n, st) EXCEPT !.handle = handle, !.nscount = k]
  BY <1>3 DEF Moved
<1> QED
  BY <1>1, <1>4 DEF Entry, Blank, Item

\* The neighbors that have n's link-layer address already.
Dup(n, old) == ItemOf("neighbors", LLOf(n)) \ {old}

LEMMA UpdateLladdrInv ==
  ASSUME AddrInv, NEW n \in Addrs, NEW old \in Unresolved(n), NEW st \in {"STALE", "REACHABLE"},
         NEW handle \in Packets \union {Null}, NEW buf \in Addrs \union {Null},
         UpdateLladdr(n, old, st, handle, buf), torn' = torn
  PROVE  AddrInv'
<1>1. old \in Neighbors /\ old \in Slots /\ Dup(n, old) \subseteq Neighbors
  BY TablesAre DEF AddrInv, Typed, NbrTableTypeOK, Unresolved, Nbr, Neighbors, Dup, ItemOf
<1>2. uip_buf \in Addrs \union {Null} /\ torn' \in BOOLEAN
  BY DEF AddrInv, Typed
<1>3. CASE NbrRm({old} \union Dup(n, old)) /\ UNCHANGED uip_buf
  <2>1. {old} \union Dup(n, old) \in SUBSET Neighbors
    BY <1>1
  <2>2. uip_buf' \in Addrs \union {Null}
    BY <1>2, <1>3
  <2> QED
    BY <1>2, <1>3, <2>1, <2>2, NbrRmInv
<1>4. CASE /\ \E i \in Allocated(LLOf(n), {}) :
                /\ lladdr' = LLAfter(LLOf(n), i)
                /\ used' = [used EXCEPT !["neighbors"] = (@ \ {old}) \union {i}]
                /\ item' = [item EXCEPT ![old] = Blank, ![i] = Moved(n, old, st, handle)]
           /\ locked' = Without(locked, "neighbors", {old} \union Dup(n, old))
           /\ packet' = Released({old} \union Dup(n, old))
           /\ uip_buf' = buf
  <2>1. PICK i \in Allocated(LLOf(n), {}) :
               /\ lladdr' = LLAfter(LLOf(n), i)
               /\ used' = [used EXCEPT !["neighbors"] = (@ \ {old}) \union {i}]
               /\ item' = [item EXCEPT ![old] = Blank, ![i] = Moved(n, old, st, handle)]
    BY <1>4
  <2>2. PICK entry \in Item : /\ entry = Moved(n, old, st, handle)
                              /\ entry.ipaddr = n /\ entry.state # "INCOMPLETE"
    BY <1>1, MovedIs
  <2>3. PICK left : left = {old} \union Dup(n, old)
    OBVIOUS
  <2>4. old \in left
    BY <2>3
  <2> QED
    BY <1>2, <1>4, <2>1, <2>2, <2>3, <2>4, MovesInv
<1> QED
  BY <1>3, <1>4 DEF UpdateLladdr, Dup, Moved

\* Items keep their neighbors, and these stay resolved or unresolved.
LEMMA ItemsKeptInv ==
  ASSUME AddrInv, UNCHANGED nbrTableVars, item' \in [Slots -> Item],
         \A j \in Slots \ Neighbors : item'[j] = item[j],
         \A j \in Neighbors : /\ item'[j].ipaddr = item[j].ipaddr
                              /\ item'[j].state = "INCOMPLETE" <=> item[j].state = "INCOMPLETE",
         packet' \in [Packets -> Block], uip_buf' \in Addrs \union {Null}, torn' \in BOOLEAN
  PROVE  AddrInv'
<1>1. /\ lladdr' = lladdr /\ used' = used /\ locked' = locked
      /\ used \in [Tables -> SUBSET Slots] /\ locked \in [Tables -> SUBSET Slots]
      /\ locked["neighbors"] \subseteq used["neighbors"]
  BY TablesAre DEF AddrInv, Typed, NbrTableTypeOK, KeysSound, nbrTableVars
<1>2. used'["neighbors"] = Neighbors \ {} /\ Neighbors \ {} = Neighbors
  BY <1>1 DEF Neighbors
<1>3. Leave({})
  BY <1>1, <1>2 DEF Leave
<1> QED
  BY <1>3, LeaveInv

LEMMA OutputIncompleteInv ==
  ASSUME AddrInv, NEW n \in Addrs, OutputIncomplete(n), uip_buf' \in Addrs \union {Null}
  PROVE  AddrInv'
<1>1. PICK i \in Nbr(n) : Enqueue(n, i, item[i])
  BY DEF OutputIncomplete
<1>2. i \in Slots /\ item[i] \in Item
  BY TablesAre DEF AddrInv, Typed, NbrTableTypeOK, Nbr, Neighbors
<1>3. /\ item' \in [Slots -> Item] /\ packet' \in [Packets -> Block]
      /\ \A j \in Slots \ {i} : item'[j] = item[j]
      /\ item'[i].ipaddr = item[i].ipaddr /\ item'[i].state = item[i].state
  BY <1>1, <1>2, EnqueueIs
<1>4. UNCHANGED nbrTableVars /\ torn' \in BOOLEAN
  BY DEF OutputIncomplete, AddrInv, Typed
<1>5. i \in Neighbors /\ Neighbors \subseteq Slots
  BY TablesAre DEF AddrInv, Typed, NbrTableTypeOK, Nbr, Neighbors
<1> QED
  BY <1>3, <1>4, <1>5, ItemsKeptInv

\* An item changes, but neither whose it is nor whether it is being resolved.
LEMMA ItemKeptInv ==
  ASSUME AddrInv, UNCHANGED nbrTableVars, NEW i \in Slots, NEW entry \in Item,
         item' = [item EXCEPT ![i] = entry], entry.ipaddr = item[i].ipaddr,
         entry.state = "INCOMPLETE" <=> item[i].state = "INCOMPLETE", i \in Neighbors,
         packet' \in [Packets -> Block], uip_buf' \in Addrs \union {Null}, torn' \in BOOLEAN
  PROVE  AddrInv'
<1>1. item \in [Slots -> Item] /\ Neighbors \subseteq Slots
  BY TablesAre DEF AddrInv, Typed, NbrTableTypeOK, Neighbors
<1>2. /\ item' \in [Slots -> Item] /\ item'[i] = entry
      /\ \A j \in Slots \ {i} : item'[j] = item[j]
  BY <1>1
<1> QED
  BY <1>1, <1>2, ItemsKeptInv

\* What tcpip_ipv6_output() makes of a neighbor that it sends to.
Sent(e) == [e EXCEPT !.handle = Null, !.state = IF @ = "STALE" THEN "DELAY" ELSE @,
                     !.nscount = IF e.state = "STALE" THEN 0 ELSE @]

LEMMA OutputKnownInv ==
  ASSUME AddrInv, NEW n \in Addrs, OutputKnown(n), uip_buf' \in Addrs \union {Null}
  PROVE  /\ AddrInv'
         /\ \E i \in Nbr(n) : /\ item[i].state # "INCOMPLETE" /\ packet' = Released({i})
                              /\ item' \in [Slots -> Item] /\ item'[i].handle = Null
                              /\ \A j \in Slots \ {i} : item'[j] = item[j]
<1>1. PICK i \in Nbr(n) :
        /\ item[i].state # "INCOMPLETE"
        /\ packet' = Released({i})
        /\ item' = [item EXCEPT ![i] = Sent(item[i])]
  <2>1. PICK i \in Nbr(n) :
          /\ item[i].state # "INCOMPLETE"
          /\ packet' = Released({i})
          /\ item' = [item EXCEPT ![i].handle = Null,
                         ![i].state = IF @ = "STALE" THEN "DELAY" ELSE @,
                         ![i].nscount = IF item[i].state = "STALE" THEN 0 ELSE @]
    BY DEF OutputKnown
  <2>2. i \in Slots /\ item \in [Slots -> Item]
    BY TablesAre DEF AddrInv, Typed, NbrTableTypeOK, Nbr, Neighbors
  <2>3. [item EXCEPT ![i].handle = Null,
                     ![i].state = IF @ = "STALE" THEN "DELAY" ELSE @,
                     ![i].nscount = IF item[i].state = "STALE" THEN 0 ELSE @]
        = [item EXCEPT ![i] = Sent(item[i])]
    BY <2>2 DEF Sent
  <2> QED
    BY <2>1, <2>3
<1>2. i \in Slots /\ i \in Neighbors /\ item \in [Slots -> Item]
  BY TablesAre DEF AddrInv, Typed, NbrTableTypeOK, Nbr, Neighbors
<1>3. ASSUME NEW e \in Item, e.state # "INCOMPLETE"
      PROVE  /\ Sent(e) \in Item /\ Sent(e).ipaddr = e.ipaddr
             /\ Sent(e).state # "INCOMPLETE" /\ Sent(e).handle = Null
  <2>1. 0 \in 0 .. MaxSolicit
    BY MaxSolicitAssumption
  <2> QED
    BY <1>3, <2>1 DEF Sent, Item, States
<1>4. PICK entry \in Item : /\ entry = Sent(item[i]) /\ entry.ipaddr = item[i].ipaddr
                            /\ entry.state # "INCOMPLETE" /\ entry.handle = Null
  BY <1>1, <1>2, <1>3
<1>5. UNCHANGED nbrTableVars /\ torn' \in BOOLEAN /\ packet' \in [Packets -> Block]
  BY <1>1, ReleasedIs DEF OutputKnown, AddrInv, Typed
<1>6. item' = [item EXCEPT ![i] = entry]
  BY <1>1, <1>4
<1>7. AddrInv'
  BY <1>1, <1>2, <1>4, <1>5, <1>6, ItemKeptInv
<1>8. item' \in [Slots -> Item] /\ item'[i].handle = Null /\ \A j \in Slots \ {i} : item'[j] = item[j]
  BY <1>2, <1>4, <1>6
<1> QED
  BY <1>1, <1>7, <1>8

LEMMA RefreshInv ==
  ASSUME AddrInv, NEW n \in Addrs, Refresh(n)
  PROVE  /\ AddrInv'
         /\ \E i \in Nbr(n) : /\ item[i].state # "INCOMPLETE"
                              /\ item' \in [Slots -> Item] /\ item'[i].handle = item[i].handle
                              /\ item'[i].ipaddr = item[i].ipaddr
                              /\ \A j \in Slots \ {i} : item'[j] = item[j]
<1> DEFINE Reached(e) == [e EXCEPT !.state = "REACHABLE", !.nscount = 0]
<1>1. PICK i \in Nbr(n) :
        /\ item[i].state # "INCOMPLETE"
        /\ item' = [item EXCEPT ![i].state = "REACHABLE", ![i].nscount = 0]
  BY DEF Refresh, Refreshed
<1>2. i \in Slots /\ i \in Neighbors /\ item \in [Slots -> Item]
  BY TablesAre DEF AddrInv, Typed, NbrTableTypeOK, Nbr, Neighbors
<1>3. item' = [item EXCEPT ![i] = Reached(item[i])]
  BY <1>1, <1>2
<1>4. ASSUME NEW e \in Item
      PROVE  /\ Reached(e) \in Item /\ Reached(e).ipaddr = e.ipaddr
             /\ Reached(e).state # "INCOMPLETE" /\ Reached(e).handle = e.handle
  <2>1. 0 \in 0 .. MaxSolicit
    BY MaxSolicitAssumption
  <2> QED
    BY <2>1 DEF Item, States
<1>5. PICK entry \in Item : /\ entry = Reached(item[i]) /\ entry.ipaddr = item[i].ipaddr
                            /\ entry.state # "INCOMPLETE" /\ entry.handle = item[i].handle
  BY <1>2, <1>4
<1> HIDE DEF Reached
<1>6. /\ UNCHANGED nbrTableVars /\ torn' \in BOOLEAN /\ packet' \in [Packets -> Block]
      /\ uip_buf' \in Addrs \union {Null}
  BY DEF Refresh, AddrInv, Typed
<1>7. item' = [item EXCEPT ![i] = entry]
  BY <1>3, <1>5
<1>8. AddrInv'
  BY <1>1, <1>2, <1>5, <1>6, <1>7, ItemKeptInv
<1>9. /\ item' \in [Slots -> Item] /\ item'[i].handle = item[i].handle
      /\ item'[i].ipaddr = item[i].ipaddr /\ \A j \in Slots \ {i} : item'[j] = item[j]
  BY <1>2, <1>5, <1>7
<1> QED
  BY <1>1, <1>8, <1>9

LEMMA PacketTimedOutInv ==
  ASSUME AddrInv, NEW p \in Packets, PacketTimedOut(p)
  PROVE  /\ AddrInv' /\ uip_buf = Null
         /\ \E i \in Slots :
              /\ i = packet[p].timer
              /\ item'[i].handle = Null /\ item'[i].ipaddr = item[i].ipaddr
              /\ \A j \in Slots \ {i} : item'[j] = item[j]
              /\ \A q \in Packets :
                   /\ packet'[q].to = packet[q].to
                   /\ packet'[q].used <=> packet[q].used /\ q # item[i].handle
                   /\ packet'[q].timer = IF q = p THEN Null ELSE packet[q].timer
<1> DEFINE Cut(b, q, h) == [b EXCEPT !.used = @ /\ q # h, !.timer = IF q = p THEN Null ELSE @]
           TimedOut(q, i) == Cut(packet[q], q, item[i].handle)
           Emptied(e) == [e EXCEPT !.handle = Null]
<1>1. PICK i : i = packet[p].timer
  OBVIOUS
<1>2. /\ uip_buf = Null /\ i # Null
      /\ packet' = [q \in Packets |-> TimedOut(q, i)]
      /\ item' = [item EXCEPT ![i].handle = Null]
      /\ UNCHANGED <<nbrTableVars, uip_buf, torn>>
  BY <1>1 DEF PacketTimedOut
<1>3. i \in Slots /\ item \in [Slots -> Item] /\ packet \in [Packets -> Block]
  BY <1>1, <1>2 DEF AddrInv, Typed, Block
<1>4. ASSUME NEW b \in Block, NEW q, NEW h
      PROVE  /\ Cut(b, q, h) \in Block /\ Cut(b, q, h).to = b.to
             /\ Cut(b, q, h).used <=> b.used /\ q # h
             /\ Cut(b, q, h).timer = IF q = p THEN Null ELSE b.timer
  <2>1. Cut(b, q, h) \in Block
    BY DEF Block
  <2>2. Cut(b, q, h).used <=> b.used /\ q # h
    BY DEF Block
  <2>3. Cut(b, q, h).to = b.to /\ Cut(b, q, h).timer = IF q = p THEN Null ELSE b.timer
    BY DEF Block
  <2> QED
    BY <2>1, <2>2, <2>3
<1>5. ASSUME NEW q \in Packets
      PROVE  /\ TimedOut(q, i) \in Block /\ TimedOut(q, i).to = packet[q].to
             /\ TimedOut(q, i).used <=> packet[q].used /\ q # item[i].handle
             /\ TimedOut(q, i).timer = IF q = p THEN Null ELSE packet[q].timer
  <2> HIDE DEF Cut
  <2>1. packet[q] \in Block
    BY <1>3
  <2>2. PICK b, h : b = packet[q] /\ h = item[i].handle
    OBVIOUS
  <2>3. TimedOut(q, i) = Cut(b, q, h) /\ b \in Block
    BY <2>1, <2>2
  <2> HIDE DEF TimedOut
  <2>4. TimedOut(q, i) \in Block
    BY <1>4, <2>3
  <2>5. TimedOut(q, i).to = b.to /\ TimedOut(q, i).timer = IF q = p THEN Null ELSE b.timer
    BY <1>4, <2>3
  <2>6. TimedOut(q, i).used <=> b.used /\ q # h
    BY <1>4, <2>3
  <2> QED
    BY <2>2, <2>4, <2>5, <2>6
<1>6. ASSUME NEW e \in Item
      PROVE  /\ Emptied(e) \in Item /\ Emptied(e).ipaddr = e.ipaddr
             /\ Emptied(e).state = e.state /\ Emptied(e).handle = Null
  BY DEF Item
<1>7. item' = [item EXCEPT ![i] = Emptied(item[i])]
  BY <1>2, <1>3
<1> HIDE DEF Cut, TimedOut, Emptied
<1>8. /\ packet' \in [Packets -> Block]
      /\ \A q \in Packets : packet'[q] = TimedOut(q, i)
  BY <1>2, <1>5
<1>9. /\ item' \in [Slots -> Item] /\ item'[i] = Emptied(item[i])
      /\ \A j \in Slots \ {i} : item'[j] = item[j]
  BY <1>3, <1>6, <1>7
<1>10. /\ item'[i].handle = Null /\ item'[i].ipaddr = item[i].ipaddr
       /\ item'[i].state = item[i].state
  BY <1>3, <1>6, <1>9
<1>11. CASE i \in Neighbors
  <2>1. uip_buf' \in Addrs \union {Null} /\ torn' \in BOOLEAN
    BY <1>2 DEF AddrInv, Typed
  <2>2. Neighbors \subseteq Slots /\ UNCHANGED nbrTableVars
    BY <1>2, TablesAre DEF AddrInv, Typed, NbrTableTypeOK, Neighbors
  <2>3. AddrInv'
    BY <1>8, <1>9, <1>10, <1>11, <2>1, <2>2, ItemsKeptInv
  <2> QED
    BY <1>1, <1>2, <1>3, <1>5, <1>8, <1>9, <1>10, <2>3
<1>12. CASE i \notin Neighbors
  <2>1. uip_buf' \in Addrs \union {Null} /\ torn' \in BOOLEAN
    BY <1>2 DEF AddrInv, Typed
  <2>2. Neighbors \subseteq Slots /\ UNCHANGED nbrTableVars
    BY <1>2, TablesAre DEF AddrInv, Typed, NbrTableTypeOK, Neighbors
  <2>3. Emptied(item[i]) = item[i]
    BY <1>3, <1>12 DEF AddrInv, OthersBlank, Emptied, Blank
  <2>4. AddrInv'
    BY <1>8, <1>9, <1>12, <2>1, <2>2, <2>3, ItemsKeptInv
  <2> QED
    BY <1>1, <1>2, <1>3, <1>5, <1>8, <1>9, <1>10, <2>4
<1> QED
  BY <1>11, <1>12

LEMMA AgedIs ==
  ASSUME AddrInv, NEW i \in Slots, NEW router, ~GivenUp(i)
  PROVE  /\ Aged(i, router) \in Item
         /\ Aged(i, router).ipaddr = item[i].ipaddr
         /\ Aged(i, router).handle = item[i].handle
         /\ Aged(i, router).state = "INCOMPLETE" <=> item[i].state = "INCOMPLETE"
<1>1. PICK e \in Item : e = item[i]
  BY DEF AddrInv, Typed
<1>2. 0 \in 0 .. MaxSolicit /\ \A k \in 0 .. MaxSolicit : ~(k >= MaxSolicit) => k + 1 \in 0 .. MaxSolicit
  BY MaxSolicitAssumption
<1>3. CASE e.state = "REACHABLE" /\ i \in router
  <2>1. Aged(i, router) = [e EXCEPT !.state = "DELAY", !.nscount = 0]
    BY <1>1, <1>3 DEF Aged
  <2> QED
    BY <1>1, <1>2, <1>3, <2>1 DEF Item, States
<1>4. CASE e.state = "REACHABLE" /\ i \notin router
  <2>1. Aged(i, router) = [e EXCEPT !.state = "STALE"]
    BY <1>1, <1>4 DEF Aged
  <2> QED
    BY <1>1, <1>4, <2>1 DEF Item, States
<1>5. CASE e.state = "DELAY"
  <2>1. Aged(i, router) = [e EXCEPT !.state = "PROBE", !.nscount = 0]
    BY <1>1, <1>5 DEF Aged
  <2> QED
    BY <1>1, <1>2, <1>5, <2>1 DEF Item, States
<1>6. CASE e.state \in {"INCOMPLETE", "PROBE"}
  <2>1. PICK k \in 0 .. MaxSolicit : k = e.nscount + 1
    BY <1>1, <1>2, <1>6 DEF GivenUp, Item
  <2>2. Aged(i, router) = [e EXCEPT !.nscount = e.nscount + 1]
    BY <1>1, <1>6 DEF Aged
  <2>3. Aged(i, router) = [e EXCEPT !.nscount = k]
    BY <2>1, <2>2
  <2> QED
    BY <1>1, <2>3 DEF Item
<1>7. CASE e.state \in {"none", "STALE"}
  <2>1. Aged(i, router) = e
    BY <1>1, <1>7 DEF Aged
  <2> QED
    BY <1>1, <2>1
<1> QED
  BY <1>3, <1>4, <1>5, <1>6, <1>7 DEF Item, States

LEMMA PeriodicInv ==
  ASSUME AddrInv, NEW due \in SUBSET Neighbors, Periodic(due)
  PROVE  /\ AddrInv' /\ uip_buf = Null /\ torn' = torn
         /\ \E gone \in SUBSET Slots :
              /\ packet' = Released(gone)
              /\ \A j \in Slots :
                   \/ j \in gone /\ item'[j].handle = Null
                   \/ /\ j \notin gone /\ item'[j].handle = item[j].handle
                      /\ item'[j].ipaddr = item[j].ipaddr
                      /\ item'[j].state = "INCOMPLETE" <=> item[j].state = "INCOMPLETE"
<1> DEFINE gone == {i \in Neighbors : GivenUp(i)}
<1>1. PICK router :
        item' = [i \in Slots |-> IF i \in gone THEN Blank
                                 ELSE IF i \in due THEN Aged(i, router) ELSE item[i]]
  BY DEF Periodic
<1>2. /\ uip_buf = Null
      /\ used' = Without(used, "neighbors", gone)
      /\ locked' = Without(locked, "neighbors", gone)
      /\ packet' = Released(gone)
      /\ lladdr' = lladdr /\ uip_buf' = uip_buf /\ torn' = torn
  BY DEF Periodic
<1>3. gone \in SUBSET Neighbors /\ \A i \in Neighbors \ gone : ~GivenUp(i)
  OBVIOUS
<1> HIDE DEF gone
<1>4. item \in [Slots -> Item] /\ Neighbors \subseteq Slots
  BY TablesAre DEF AddrInv, Typed, NbrTableTypeOK, Neighbors
<1>5. ASSUME NEW j \in Slots
      PROVE  /\ item'[j] \in Item
             /\ j \in gone => item'[j] = Blank
             /\ j \notin Neighbors => item'[j] = item[j]
             /\ j \notin gone =>
                  /\ item'[j].handle = item[j].handle
                  /\ item'[j].ipaddr = item[j].ipaddr
                  /\ item'[j].state = "INCOMPLETE" <=> item[j].state = "INCOMPLETE"
  <2>1. CASE j \in gone
    BY <1>1, <1>3, <2>1, ItemTypes
  <2>2. CASE j \notin gone /\ j \in due
    <3>1. item'[j] = Aged(j, router) /\ ~GivenUp(j) /\ j \in Neighbors
      BY <1>1, <1>3, <2>2
    <3> QED
      BY <2>2, <3>1, AgedIs
  <2>3. CASE j \notin gone /\ j \notin due
    <3>1. item'[j] = item[j]
      BY <1>1, <2>3
    <3> QED
      BY <1>4, <2>3, <3>1
  <2> QED
    BY <2>1, <2>2, <2>3
<1>6. item' \in [Slots -> Item]
  BY <1>1, <1>5
<1>7. packet' \in [Packets -> Block] /\ uip_buf' \in Addrs \union {Null} /\ torn' \in BOOLEAN
  BY <1>2, ReleasedIs DEF AddrInv, Typed
<1>8. /\ used' \in [Tables -> SUBSET Slots] /\ locked' \in [Tables -> SUBSET Slots]
      /\ used'["neighbors"] = Neighbors \ gone
      /\ locked'["neighbors"] \subseteq used'["neighbors"]
  BY <1>2, WithoutIs
<1>9. Leave(gone)
  BY <1>2, <1>3, <1>4, <1>5, <1>6, <1>7, <1>8 DEF Leave
<1>10. AddrInv'
  BY <1>3, <1>9, LeaveInv
<1>11. Blank.handle = Null
  BY DEF Blank
<1> QED
  BY <1>2, <1>3, <1>4, <1>5, <1>10, <1>11

-----------------------------------------------------------------------------
(* The packets that wait.                                                  *)

\* The packet that is queued for a neighbor waits with it,
WaitsAt(i, p) ==
  packet[p].used /\ packet[p].to = item[i].ipaddr /\ packet[p].timer = i /\ Resolving(i)

\* or is free already, and goes out with the answer that uip_buf holds.
LeftAt(i, p) ==
  /\ ~packet[p].used /\ packet[p].to = item[i].ipaddr /\ packet[p].timer = Null
  /\ ~Resolving(i) /\ uip_buf = item[i].ipaddr

Waits == \A i \in Slots, p \in Packets : item[i].handle = p => WaitsAt(i, p) \/ LeftAt(i, p)

\* A block that is used is some neighbor's, and one that is free has no timer.
Blocks ==
  torn \/ \A p \in Packets : /\ packet[p].used => \E i \in Slots : item[i].handle = p
                             /\ ~packet[p].used => packet[p].timer = Null

WaitInv == Waits /\ Blocks

LEMMA HandleKnown ==
  ASSUME AddrInv, NEW i \in Slots, NEW p \in Packets, item[i].handle = p
  PROVE  i \in Neighbors /\ item[i].ipaddr \in Addrs /\ item[i].ipaddr # Null /\ p # Null
<1>1. p # Null
  BY PacketsAssumption
<1>2. i \in Neighbors
  BY <1>1 DEF AddrInv, OthersBlank, Blank
<1> QED
  BY <1>1, <1>2, AddrsAssumption DEF AddrInv, Resolved

LEMMA NoneLeft ==
  ASSUME AddrInv, WaitInv, uip_buf = Null
  PROVE  \A i \in Slots, p \in Packets : item[i].handle = p => WaitsAt(i, p)
  BY HandleKnown DEF WaitInv, Waits, LeftAt

LEMMA ReleasedNone ==
  ASSUME AddrInv PROVE Released({}) = packet
<1>1. packet \in [Packets -> Block] /\ Released({}) \in [Packets -> Block]
  BY ReleasedIs DEF AddrInv, Typed
<1>2. \A p \in Packets : Released({})[p] = packet[p]
  BY ReleasedIs DEF HandleOf
<1> QED
  BY <1>1, <1>2

\* The packets of the neighbors in gone are released, and the others keep theirs,
\* or lose it for good; ns_input() moves a released packet's handle.
HandlesKept(gone) ==
  \A j \in Slots :
    \/ item'[j].handle = Null
    \/ /\ j \notin gone /\ item'[j].handle = item[j].handle
       /\ item'[j].ipaddr = item[j].ipaddr
       /\ item'[j].state = "INCOMPLETE" <=> item[j].state = "INCOMPLETE"
    \/ /\ \E g \in gone : item'[j].handle = item[g].handle /\ item'[j].ipaddr = item[g].ipaddr
       /\ item'[j].state # "INCOMPLETE" /\ uip_buf' = item'[j].ipaddr
NoneLost(gone) ==
  torn' \/ (~torn /\ \A j \in Slots \ gone : item[j].handle = Null \/ item'[j].handle = item[j].handle)

LEMMA ReleasedWait ==
  ASSUME AddrInv, WaitInv, NEW gone \in SUBSET Slots, packet' = Released(gone),
         \A j \in Slots \ gone, p \in Packets : item[j].handle = p => WaitsAt(j, p),
         HandlesKept(gone), NoneLost(gone)
  PROVE  WaitInv'
<1>1. \A p \in Packets :
        /\ packet'[p].to = packet[p].to
        /\ ~HandleOf(gone, p) => packet'[p] = packet[p]
        /\ HandleOf(gone, p) => ~packet'[p].used /\ packet'[p].timer = Null
  BY ReleasedIs
<1>2. ASSUME NEW j \in Slots, NEW p \in Packets, item'[j].handle = p
      PROVE  WaitsAt(j, p)' \/ LeftAt(j, p)'
  <2>1. p # Null
    BY PacketsAssumption
  <2>2. CASE /\ j \notin gone /\ item'[j].handle = item[j].handle
             /\ item'[j].ipaddr = item[j].ipaddr
             /\ item'[j].state = "INCOMPLETE" <=> item[j].state = "INCOMPLETE"
    <3>1. WaitsAt(j, p)
      BY <1>2, <2>2
    <3>2. ~HandleOf(gone, p)
      <4> SUFFICES ASSUME NEW g \in gone, item[g].handle = p PROVE FALSE
        BY DEF HandleOf
      <4>1. WaitsAt(g, p) \/ LeftAt(g, p)
        BY DEF WaitInv, Waits
      <4> QED
        BY <2>2, <3>1, <4>1 DEF WaitsAt, LeftAt
    <3>3. packet'[p] = packet[p]
      BY <1>1, <3>2
    <3> QED
      BY <2>2, <3>1, <3>3 DEF WaitsAt, Resolving
  <2>3. CASE /\ \E g \in gone : item'[j].handle = item[g].handle /\ item'[j].ipaddr = item[g].ipaddr
             /\ item'[j].state # "INCOMPLETE" /\ uip_buf' = item'[j].ipaddr
    <3>1. PICK g \in gone : item[g].handle = p /\ item'[j].ipaddr = item[g].ipaddr
      BY <1>2, <2>3
    <3>2. packet[p].to = item[g].ipaddr
      BY <3>1 DEF WaitInv, Waits, WaitsAt, LeftAt
    <3>3. /\ packet'[p].to = packet[p].to
          /\ ~packet'[p].used /\ packet'[p].timer = Null
      BY <1>1, <3>1 DEF HandleOf
    <3> QED
      BY <2>3, <3>1, <3>2, <3>3 DEF LeftAt, Resolving
  <2> QED
    BY <1>2, <2>1, <2>2, <2>3 DEF HandlesKept
<1>3. ASSUME ~torn' PROVE ~torn /\ \A j \in Slots \ gone : item[j].handle = Null \/ item'[j].handle = item[j].handle
  BY <1>3 DEF NoneLost
<1>4. ASSUME ~torn', NEW p \in Packets, packet'[p].used
      PROVE  \E i \in Slots : item'[i].handle = p
  <2>1. ~HandleOf(gone, p) /\ packet[p].used
    BY <1>1, <1>4
  <2>2. PICK j \in Slots : item[j].handle = p
    BY <1>3, <1>4, <2>1 DEF WaitInv, Blocks
  <2>3. j \notin gone /\ p # Null
    BY <2>1, <2>2, PacketsAssumption DEF HandleOf
  <2> QED
    BY <1>3, <1>4, <2>2, <2>3
<1>5. ASSUME ~torn', NEW p \in Packets, ~packet'[p].used
      PROVE  packet'[p].timer = Null
  BY <1>1, <1>3, <1>5 DEF WaitInv, Blocks
<1> QED
  BY <1>2, <1>4, <1>5 DEF WaitInv, Waits, Blocks

\* uip_packetqueue_alloc() for neighbor n in item i, which is being resolved.
LEMMA EnqueuedWait ==
  ASSUME AddrInv, WaitInv, NEW n \in Addrs, NEW i \in Slots, NEW entry \in Item,
         Enqueued(n, i, entry), \A j \in Slots \ {i} : item'[j] = item[j],
         entry.ipaddr = n, entry.state = "INCOMPLETE",
         item'[i].ipaddr = n, item'[i].state = "INCOMPLETE",
         \A j \in Slots, p \in Packets : item[j].handle = p => WaitsAt(j, p),
         entry = item[i] \/ (entry.handle = Null /\ (torn' \/ item[i].handle = Null)),
         torn' \/ ~torn
  PROVE  WaitInv'
<1>1. CASE item'[i] = entry /\ packet' = packet
  <2>1. ASSUME NEW j \in Slots, NEW p \in Packets, item'[j].handle = p
        PROVE  WaitsAt(j, p)'
    <3>1. p # Null
      BY PacketsAssumption
    <3>2. item'[j] = item[j]
      BY <1>1, <2>1, <3>1
    <3> QED
      BY <1>1, <2>1, <3>2 DEF WaitsAt, Resolving
  <2>2. ASSUME ~torn', NEW p \in Packets, packet'[p].used
        PROVE  \E j \in Slots : item'[j].handle = p
    <3>1. PICK j \in Slots : item[j].handle = p /\ p # Null
      BY <1>1, <2>2, PacketsAssumption DEF WaitInv, Blocks
    <3> QED
      BY <1>1, <2>2, <3>1
  <2>3. ASSUME ~torn', NEW p \in Packets, ~packet'[p].used PROVE packet'[p].timer = Null
    BY <1>1, <2>3 DEF WaitInv, Blocks
  <2> QED
    BY <2>1, <2>2, <2>3 DEF WaitInv, Waits, Blocks
<1>2. CASE /\ entry.handle = Null
           /\ \E p \in Packets :
                /\ ~packet[p].used /\ item'[i].handle = p
                /\ packet'[p] = [used |-> TRUE, to |-> n, timer |-> i]
                /\ \A q \in Packets \ {p} : packet'[q] = packet[q]
  <2>1. PICK p \in Packets :
          /\ ~packet[p].used /\ item'[i].handle = p
          /\ packet'[p] = [used |-> TRUE, to |-> n, timer |-> i]
          /\ \A q \in Packets \ {p} : packet'[q] = packet[q]
    BY <1>2
  <2>2. packet'[p].used /\ packet'[p].to = n /\ packet'[p].timer = i
    BY <2>1
  <2>3. ASSUME NEW j \in Slots, NEW q \in Packets, item'[j].handle = q
        PROVE  WaitsAt(j, q)'
    <3>1. CASE j = i
      BY <2>1, <2>2, <2>3, <3>1 DEF WaitsAt, Resolving
    <3>2. CASE j # i
      <4>1. item'[j] = item[j] /\ WaitsAt(j, q)
        BY <2>3, <3>2
      <4>2. q # p /\ packet'[q] = packet[q]
        BY <2>1, <4>1 DEF WaitsAt
      <4> QED
        BY <4>1, <4>2 DEF WaitsAt, Resolving
    <3> QED
      BY <3>1, <3>2
  <2>4. ASSUME ~torn', NEW q \in Packets, packet'[q].used
        PROVE  \E j \in Slots : item'[j].handle = q
    <3>1. CASE q = p
      BY <2>1, <3>1
    <3>2. CASE q # p
      <4>1. packet[q].used
        BY <2>1, <2>4, <3>2
      <4>2. PICK j \in Slots : item[j].handle = q /\ q # Null
        BY <2>4, <4>1, PacketsAssumption DEF WaitInv, Blocks
      <4>3. j # i
        BY <1>2, <2>4, <4>2
      <4> QED
        BY <4>2, <4>3
    <3> QED
      BY <3>1, <3>2
  <2>5. ASSUME ~torn', NEW q \in Packets, ~packet'[q].used PROVE packet'[q].timer = Null
    BY <2>1, <2>2, <2>5 DEF WaitInv, Blocks
  <2> QED
    BY <2>3, <2>4, <2>5 DEF WaitInv, Waits, Blocks
<1> QED
  BY <1>1, <1>2 DEF Enqueued

-----------------------------------------------------------------------------
(* Every step keeps the addresses.                                         *)

LEMMA InitInv ==
  ASSUME Init PROVE AddrInv /\ WaitInv
<1>1. /\ lladdr = [i \in Slots |-> Free]
      /\ used = [t \in Tables |-> {}] /\ locked = [t \in Tables |-> {}]
      /\ item = [i \in Slots |-> Blank]
      /\ packet = [p \in Packets |-> [used |-> FALSE, to |-> Null, timer |-> Null]]
      /\ uip_buf = Null /\ torn = FALSE
  BY DEF Init, NbrTableInit
<1>2. Neighbors = {}
  BY <1>1, TablesAre DEF Neighbors
<1>3. Typed
  <2>1. [used |-> FALSE, to |-> Null, timer |-> Null] \in Block
    BY DEF Block
  <2>2. item \in [Slots -> Item] /\ packet \in [Packets -> Block]
    BY <1>1, <2>1, ItemTypes
  <2>3. NbrTableTypeOK
    BY <1>1 DEF NbrTableTypeOK
  <2> QED
    BY <1>1, <2>2, <2>3 DEF Typed
<1>4. KeysSound
  BY <1>1 DEF KeysSound, Index
<1>5. Resolved /\ OneNeighbor /\ OthersBlank
  BY <1>1, <1>2 DEF Resolved, OneNeighbor, OthersBlank
<1>6. Blank.handle = Null
  BY DEF Blank
<1>7. Waits
  BY <1>1, <1>6, PacketsAssumption DEF Waits
<1>8. Blocks
  BY <1>1 DEF Blocks
<1> QED
  BY <1>3, <1>4, <1>5, <1>7, <1>8 DEF AddrInv, WaitInv

LEMMA OutputInv ==
  ASSUME AddrInv, NEW n \in Addrs, Output(n), uip_buf' \in Addrs \union {Null}
  PROVE  AddrInv'
  BY OutputUnknownInv, OutputIncompleteInv, OutputKnownInv DEF Output

LEMMA RemovableTypes ==
  ASSUME AddrInv PROVE Neighbors \in SUBSET Slots /\ {} \in SUBSET Slots
  BY TablesAre DEF AddrInv, Typed, NbrTableTypeOK, Neighbors

LEMMA WaitingType ==
  ASSUME AddrInv, NEW i \in Slots
  PROVE  Waiting(i) \in Addrs \union {Null} /\ item[i].handle \in Packets \union {Null}
  BY DEF AddrInv, Typed, Item, Block, Waiting

LEMMA UnresolvedIs ==
  ASSUME AddrInv, NEW n \in Addrs, NEW i \in Unresolved(n)
  PROVE  i \in Slots /\ i \in Neighbors /\ item[i].ipaddr = n /\ Resolving(i)
<1>1. i \in Slots /\ i \in Neighbors /\ item[i].ipaddr = n /\ lladdr[i] = LLNull
  BY TablesAre DEF AddrInv, Typed, NbrTableTypeOK, Unresolved, Nbr, Neighbors
<1>2. Resolving(i)
  BY <1>1, LLOfIs DEF AddrInv, Resolved
<1> QED
  BY <1>1, <1>2

LEMMA NaInputInv ==
  ASSUME AddrInv, NEW n \in Addrs, NaInput(n) PROVE AddrInv'
<1>1. PICK i \in Unresolved(n), st \in {"REACHABLE", "STALE"} :
        UpdateLladdr(n, i, st, Null, Waiting(i)) /\ torn' = torn
  BY DEF NaInput
<1>2. Waiting(i) \in Addrs \union {Null} /\ Null \in Packets \union {Null}
  BY UnresolvedIs, WaitingType
<1>3. st \in {"STALE", "REACHABLE"}
  OBVIOUS
<1> QED
  BY <1>1, <1>2, <1>3, UpdateLladdrInv

LEMMA NsInputInv ==
  ASSUME AddrInv, NEW n \in Addrs, NsInput(n) PROVE AddrInv'
<1>1. PICK answer \in Answers(n) :
        \/ Nbr(n) = {} /\ NbrAdd(n, "STALE", {}) /\ uip_buf' = answer
        \/ \E i \in Unresolved(n) :
             UpdateLladdr(n, i, "STALE", item[i].handle, answer) /\ torn' = torn
  BY DEF NsInput
<1>2. answer \in Addrs \union {Null} /\ "STALE" \in {"STALE", "REACHABLE"}
  BY DEF Answers
<1>3. CASE Nbr(n) = {} /\ NbrAdd(n, "STALE", {}) /\ uip_buf' = answer
  BY <1>2, <1>3, RemovableTypes, NbrAddInv
<1>4. CASE \E i \in Unresolved(n) :
             UpdateLladdr(n, i, "STALE", item[i].handle, answer) /\ torn' = torn
  <2>1. PICK i \in Unresolved(n) :
             UpdateLladdr(n, i, "STALE", item[i].handle, answer) /\ torn' = torn
    BY <1>4
  <2>2. item[i].handle \in Packets \union {Null}
    BY UnresolvedIs, WaitingType
  <2> QED
    BY <1>2, <2>1, <2>2, UpdateLladdrInv
<1> QED
  BY <1>1, <1>3, <1>4

\* rs_input() moves a neighbor without its packet.
RsEntry(n, old) == [Entry(n, "STALE") EXCEPT !.nscount = item[old].nscount]
RsMoves(n, old, i) ==
  /\ lladdr' = LLAfter(LLOf(n), i)
  /\ used' = [used EXCEPT !["neighbors"] = (@ \ {old}) \union {i}]
  /\ locked' = Without(locked, "neighbors", {old})
  /\ item' = [item EXCEPT ![old] = Blank, ![i] = RsEntry(n, old)]
  /\ packet' = Released({old})
  /\ torn' = (torn \/ Overwrites(i, LLOf(n)))

LEMMA RsEntryIs ==
  ASSUME AddrInv, NEW n \in Addrs, NEW old \in Slots
  PROVE  /\ RsEntry(n, old) \in Item /\ RsEntry(n, old).ipaddr = n
         /\ RsEntry(n, old).state # "INCOMPLETE" /\ RsEntry(n, old).handle = Null
<1>1. PICK k \in 0 .. MaxSolicit : k = item[old].nscount
  BY DEF AddrInv, Typed, Item
<1>2. RsEntry(n, old) = [Entry(n, "STALE") EXCEPT !.nscount = k]
  BY <1>1 DEF RsEntry
<1> QED
  BY <1>2 DEF Entry, Blank, Item, States

LEMMA RsInputIs ==
  ASSUME NEW n \in Addrs, RsInput(n)
  PROVE  /\ uip_buf = Null /\ uip_buf' = uip_buf
         /\ \/ Nbr(n) = {} /\ NbrAdd(n, "STALE", {})
            \/ \E old \in Unresolved(n), i \in Allocated(LLOf(n), {}) : RsMoves(n, old, i)
  BY DEF RsInput, RsMoves, RsEntry

LEMMA RsInputInv ==
  ASSUME AddrInv, NEW n \in Addrs, RsInput(n) PROVE AddrInv'
<1>1. uip_buf' \in Addrs \union {Null} /\ "STALE" \in {"STALE", "REACHABLE"}
  BY RsInputIs DEF AddrInv, Typed
<1>2. CASE Nbr(n) = {} /\ NbrAdd(n, "STALE", {})
  BY <1>1, <1>2, RemovableTypes, NbrAddInv
<1>3. CASE \E old \in Unresolved(n), i \in Allocated(LLOf(n), {}) : RsMoves(n, old, i)
  <2>1. PICK old \in Unresolved(n), i \in Allocated(LLOf(n), {}) : RsMoves(n, old, i)
    BY <1>3
  <2>2. old \in Slots
    BY UnresolvedIs
  <2>3. PICK entry \in Item : /\ entry = RsEntry(n, old)
                              /\ entry.ipaddr = n /\ entry.state # "INCOMPLETE"
    BY <2>2, RsEntryIs
  <2>4. PICK left : left = {old}
    OBVIOUS
  <2>5. /\ lladdr' = LLAfter(LLOf(n), i)
        /\ used' = [used EXCEPT !["neighbors"] = (@ \ {old}) \union {i}]
        /\ locked' = Without(locked, "neighbors", left)
        /\ item' = [item EXCEPT ![old] = Blank, ![i] = entry]
        /\ packet' = Released({old}) /\ torn' \in BOOLEAN /\ old \in left
    BY <2>1, <2>3, <2>4 DEF RsMoves
  <2> QED
    BY <1>1, <2>3, <2>5, MovesInv
<1> QED
  BY <1>2, <1>3, RsInputIs

LEMMA NextAddrInv ==
  ASSUME AddrInv, [Next]_vars PROVE AddrInv'
<1>1. uip_buf \in Addrs \union {Null} /\ torn \in BOOLEAN
  BY DEF AddrInv, Typed
<1>2. ASSUME NEW n \in Addrs, SendPacket(n) PROVE AddrInv'
  BY <1>1, <1>2, OutputInv DEF SendPacket
<1>3. ASSUME NEW n \in Addrs, RplInput(n) PROVE AddrInv'
  <2>1. "REACHABLE" \in {"STALE", "REACHABLE"} /\ uip_buf' \in Addrs \union {Null} /\ Nbr(n) = {}
    BY <1>1, <1>3 DEF RplInput
  <2>2. NbrAdd(n, "REACHABLE", Neighbors) \/ NbrAdd(n, "REACHABLE", {})
    BY <1>3 DEF RplInput
  <2> QED
    BY <2>1, <2>2, RemovableTypes, NbrAddInv
<1>4. ASSUME NEW n \in Addrs, RemoveNbr(n) PROVE AddrInv'
  <2>1. Nbr(n) \in SUBSET Neighbors /\ uip_buf' \in Addrs \union {Null} /\ torn' \in BOOLEAN
    BY <1>1, <1>4 DEF RemoveNbr, Nbr
  <2> QED
    BY <1>4, <2>1, NbrRmInv DEF RemoveNbr
<1>5. CASE SendBuffer
  <2>1. uip_buf' \in Addrs \union {Null} /\ uip_buf \in Addrs
    BY <1>1, <1>5 DEF SendBuffer
  <2>2. CASE Output(uip_buf)
    BY <2>1, <2>2, OutputInv
  <2>3. CASE UNCHANGED <<nbrTableVars, item, packet, torn>>
    <3>1. /\ UNCHANGED nbrTableVars /\ item' \in [Slots -> Item]
          /\ packet' \in [Packets -> Block] /\ torn' \in BOOLEAN /\ Neighbors \subseteq Slots
      BY <2>3, RemovableTypes DEF AddrInv, Typed
    <3> QED
      BY <2>1, <2>3, <3>1, ItemsKeptInv
  <2> QED
    BY <1>5, <2>2, <2>3 DEF SendBuffer
<1>6. CASE UNCHANGED vars
  <2>1. /\ UNCHANGED nbrTableVars /\ item' \in [Slots -> Item] /\ item' = item
        /\ packet' \in [Packets -> Block] /\ torn' \in BOOLEAN /\ Neighbors \subseteq Slots
        /\ uip_buf' \in Addrs \union {Null}
    BY <1>6, RemovableTypes DEF AddrInv, Typed, vars
  <2> QED
    BY <2>1, ItemsKeptInv
<1> QED
  BY <1>2, <1>3, <1>4, <1>5, <1>6, NaInputInv, NsInputInv, RsInputInv, RefreshInv,
     PeriodicInv, PacketTimedOutInv DEF Next

LEMMA AddrInvHolds == Spec => []AddrInv
<1>1. Init => AddrInv
  BY InitInv
<1>2. AddrInv /\ [Next]_vars => AddrInv'
  BY NextAddrInv
<1> QED
  BY <1>1, <1>2, PTL DEF Spec

\* What is sent to a neighbor that is not INCOMPLETE goes to its own link-layer
\* address, and no address has two neighbors, whatever the messages, the timers and
\* the evictions: uip_ds6_nbr_lladdr_from_ipaddr() never gives linkaddr_null for it.
THEOREM Addresses == Spec => []AddressesResolved
<1>1. ASSUME AddrInv PROVE AddressesResolved
  <2>1. /\ NbrTableTypeOK /\ packet \in [Packets -> Block]
        /\ uip_buf \in Addrs \union {Null} /\ torn \in BOOLEAN
    BY <1>1 DEF AddrInv, Typed
  <2>2. ASSUME NEW i \in Slots
        PROVE  /\ item[i].ipaddr \in Addrs \union {Null} /\ item[i].state \in States
               /\ item[i].nscount \in 0 .. MaxSolicit
               /\ item[i].handle \in Packets \union {Null}
    BY <1>1 DEF AddrInv, Typed, Item
  <2>3. TypeOK
    BY <2>1, <2>2 DEF TypeOK, Block
  <2> QED
    BY <1>1, <2>3 DEF AddrInv, Resolved, Resolving, OneNeighbor, AddressesResolved
<1> QED
  BY <1>1, AddrInvHolds, PTL

-----------------------------------------------------------------------------
(* Every step keeps the packets, if ns_input() always answers.             *)

\* A handle whose packet is free already is that of the neighbor that is answered.
LEMMA LeftIs ==
  ASSUME AddrInv, WaitInv, NEW i \in Slots, NEW p \in Packets, item[i].handle = p, ~WaitsAt(i, p)
  PROVE  uip_buf # Null /\ i \in Nbr(uip_buf) /\ ~Resolving(i)
<1>1. LeftAt(i, p)
  BY DEF WaitInv, Waits
<1>2. i \in Neighbors /\ item[i].ipaddr # Null
  BY HandleKnown
<1> QED
  BY <1>1, <1>2 DEF LeftAt, Nbr

LEMMA OutputWait ==
  ASSUME AddrInv, WaitInv, NEW n \in Addrs, Output(n), uip_buf \in {Null, n},
         uip_buf' \in Addrs \union {Null}
  PROVE  WaitInv'
<1>1. ASSUME NEW i \in Slots, NEW p \in Packets, item[i].handle = p, ~WaitsAt(i, p)
      PROVE  i \in Nbr(n) /\ ~Resolving(i)
  BY <1>1, LeftIs
<1>2. CASE OutputUnknown(n)
  <2> DEFINE entry == [Entry(n, "INCOMPLETE") EXCEPT !.nscount = 1]
  <2>1. PICK i \in Allocated(LLNull, {}) :
          Enqueue(n, i, entry) /\ torn' = (torn \/ Overwrites(i, LLNull))
    BY <1>2 DEF OutputUnknown
  <2>2. i \in Slots /\ ~Evicts(i, LLNull)
    <3>1. LLNull \in LLAddrs \union {LLNull} /\ {} \in SUBSET Slots
      OBVIOUS
    <3> QED
      BY <3>1, KeyAllocated
  <2>3. entry \in Item /\ entry.ipaddr = n /\ entry.state = "INCOMPLETE" /\ entry.handle = Null
    <3>1. 1 \in 0 .. MaxSolicit
      BY MaxSolicitAssumption
    <3> QED
      BY <3>1, ItemTypes DEF Item, States, Entry, Blank
  <2> HIDE DEF entry
  <2>4. /\ \A j \in Slots \ {i} : item'[j] = item[j]
        /\ item'[i].ipaddr = n /\ item'[i].state = "INCOMPLETE"
        /\ Enqueued(n, i, entry)
    BY <2>1, <2>2, <2>3, EnqueueIs
  <2>5. torn' \/ item[i].handle = Null
    <3> SUFFICES ASSUME item[i].handle # Null PROVE torn'
      OBVIOUS
    <3>1. i \in Neighbors
      BY <2>2 DEF AddrInv, OthersBlank, Blank
    <3>2. Overwrites(i, LLNull)
      BY <2>2, <3>1 DEF Overwrites
    <3> QED
      BY <2>1, <3>2
  <2>6. torn' \/ ~torn
    BY <2>1
  <2>7. \A j \in Slots, p \in Packets : item[j].handle = p => WaitsAt(j, p)
    BY <1>1, <1>2 DEF OutputUnknown
  <2> QED
    BY <2>2, <2>3, <2>4, <2>5, <2>6, <2>7, EnqueuedWait
<1>3. CASE OutputIncomplete(n)
  <2>1. PICK i \in Nbr(n) : item[i].state = "INCOMPLETE" /\ Enqueue(n, i, item[i])
    BY <1>3 DEF OutputIncomplete
  <2>2. i \in Slots /\ item[i] \in Item /\ item[i].ipaddr = n
    BY TablesAre DEF AddrInv, Typed, NbrTableTypeOK, Nbr, Neighbors
  <2>3. /\ \A j \in Slots \ {i} : item'[j] = item[j]
        /\ item'[i].ipaddr = item[i].ipaddr /\ item'[i].state = item[i].state
        /\ Enqueued(n, i, item[i])
    BY <2>1, <2>2, EnqueueIs
  <2>4. \A j \in Slots, p \in Packets : item[j].handle = p => WaitsAt(j, p)
    <3>1. \A j \in Nbr(n) : j = i
      BY DEF AddrInv, OneNeighbor, Nbr
    <3> QED
      BY <1>1, <2>1, <3>1 DEF Resolving
  <2>5. PICK entry \in Item : entry = item[i]
    BY <2>2
  <2>6. torn' \/ ~torn
    BY <1>3 DEF OutputIncomplete
  <2> QED
    BY <2>1, <2>2, <2>3, <2>4, <2>5, <2>6, EnqueuedWait
<1>4. CASE OutputKnown(n)
  <2>1. uip_buf \in Addrs \union {Null} /\ torn' = torn /\ torn \in BOOLEAN
    BY <1>4 DEF AddrInv, Typed, OutputKnown
  <2>2. PICK i \in Nbr(n) : /\ packet' = Released({i}) /\ item'[i].handle = Null
                            /\ \A j \in Slots \ {i} : item'[j] = item[j]
    BY <1>4, OutputKnownInv
  <2>3. i \in Slots /\ {i} \in SUBSET Slots
    BY TablesAre DEF AddrInv, Typed, NbrTableTypeOK, Nbr, Neighbors
  <2>4. \A j \in Nbr(n) : j = i
    BY DEF AddrInv, OneNeighbor, Nbr
  <2>5. \A j \in Slots \ {i}, p \in Packets : item[j].handle = p => WaitsAt(j, p)
    BY <1>1, <2>4
  <2>6. HandlesKept({i})
    BY <2>2 DEF HandlesKept
  <2>7. NoneLost({i})
    BY <2>1, <2>2 DEF NoneLost
  <2> QED
    BY <2>2, <2>3, <2>5, <2>6, <2>7, ReleasedWait
<1> QED
  BY <1>2, <1>3, <1>4 DEF Output

LEMMA NbrAddWait ==
  ASSUME AddrInv, WaitInv, NEW n \in Addrs, NEW st \in {"STALE", "REACHABLE"},
         NEW removable \in SUBSET Slots, NbrAdd(n, st, removable), uip_buf = Null
  PROVE  WaitInv'
<1>1. PICK i \in Allocated(LLOf(n), removable) :
        /\ item' = [item EXCEPT ![i] = Entry(n, st)]
        /\ packet' = IF Evicts(i, LLOf(n)) THEN Released({i}) ELSE packet
        /\ torn' = (torn \/ Overwrites(i, LLOf(n)))
  BY DEF NbrAdd
<1>2. i \in Slots
  BY LLOfIs, KeyAllocated
<1>3. PICK entry \in Item : entry = Entry(n, st) /\ entry.handle = Null
  <2>1. st \in States
    BY DEF States
  <2> QED
    BY <2>1, ItemTypes
<1>4. item'[i].handle = Null /\ \A j \in Slots \ {i} : item'[j] = item[j]
  BY <1>1, <1>2, <1>3 DEF AddrInv, Typed
<1>5. \A j \in Slots, p \in Packets : item[j].handle = p => WaitsAt(j, p)
  BY NoneLeft
<1>6. torn \in BOOLEAN /\ torn' \in BOOLEAN
  BY <1>1 DEF AddrInv, Typed
<1>7. CASE Evicts(i, LLOf(n))
  <2>1. HandlesKept({i}) /\ NoneLost({i})
    BY <1>1, <1>4, <1>6 DEF HandlesKept, NoneLost
  <2>2. {i} \in SUBSET Slots /\ packet' = Released({i})
    BY <1>1, <1>2, <1>7
  <2> QED
    BY <1>5, <2>1, <2>2, ReleasedWait
<1>8. CASE ~Evicts(i, LLOf(n))
  <2>1. HandlesKept({})
    BY <1>4 DEF HandlesKept
  <2>2. torn' \/ item[i].handle = Null
    <3> SUFFICES ASSUME item[i].handle # Null PROVE torn'
      OBVIOUS
    <3>1. i \in Neighbors
      BY <1>2 DEF AddrInv, OthersBlank, Blank
    <3>2. Overwrites(i, LLOf(n))
      BY <1>2, <1>8, <3>1 DEF Overwrites
    <3> QED
      BY <1>1, <3>2
  <2>3. NoneLost({})
    BY <1>1, <1>4, <1>6, <2>2 DEF NoneLost
  <2>4. {} \in SUBSET Slots /\ packet' = Released({})
    BY <1>1, <1>8, ReleasedNone
  <2> QED
    BY <1>5, <2>1, <2>3, <2>4, ReleasedWait
<1> QED
  BY <1>7, <1>8

LEMMA NbrRmWait ==
  ASSUME AddrInv, WaitInv, NEW items \in SUBSET Slots, NbrRm(items), uip_buf = Null, torn' = torn
  PROVE  WaitInv'
<1>1. /\ item' = [i \in Slots |-> IF i \in items THEN Blank ELSE item[i]]
      /\ packet' = Released(items)
  BY DEF NbrRm
<1>2. \A j \in Slots : item'[j] = IF j \in items THEN Blank ELSE item[j]
  BY <1>1
<1>3. Blank.handle = Null
  BY DEF Blank
<1>4. HandlesKept(items)
  BY <1>2, <1>3 DEF HandlesKept
<1>5. NoneLost(items)
  BY <1>2 DEF NoneLost, AddrInv, Typed
<1>6. \A j \in Slots, p \in Packets : item[j].handle = p => WaitsAt(j, p)
  BY NoneLeft
<1> QED
  BY <1>1, <1>4, <1>5, <1>6, ReleasedWait

\* The neighbor moves to item i, with the handle or without, and so does no other.
LEMMA MovesWait ==
  ASSUME AddrInv, WaitInv, uip_buf = Null, NEW n \in Addrs, NEW old \in Unresolved(n),
         NEW i \in Allocated(LLOf(n), {}), NEW entry \in Item, entry.ipaddr = n,
         entry.state # "INCOMPLETE",
         entry.handle = Null \/ (entry.handle = item[old].handle /\ uip_buf' = n),
         item' = [item EXCEPT ![old] = Blank, ![i] = entry],
         NEW gone \in SUBSET Slots, old \in gone, gone \subseteq {old, i},
         packet' = Released(gone), torn' \in BOOLEAN,
         torn => torn', torn' \/ i \in gone \/ item[i].handle = Null
  PROVE  WaitInv'
<1>1. i \in Slots
  BY LLOfIs, KeyAllocated
<1>2. old \in Slots /\ item[old].ipaddr = n
  BY UnresolvedIs
<1>3. /\ item'[i] = entry /\ (old # i => item'[old] = Blank)
      /\ \A j \in Slots \ {i, old} : item'[j] = item[j]
  BY <1>1, <1>2 DEF AddrInv, Typed
<1>4. Blank.handle = Null
  BY DEF Blank
<1>5. HandlesKept(gone)
  BY <1>2, <1>3, <1>4 DEF HandlesKept
<1>6. NoneLost(gone)
  BY <1>3 DEF NoneLost, AddrInv, Typed
<1>7. \A j \in Slots, p \in Packets : item[j].handle = p => WaitsAt(j, p)
  BY NoneLeft
<1> QED
  BY <1>5, <1>6, <1>7, ReleasedWait

LEMMA UpdateLladdrWait ==
  ASSUME AddrInv, WaitInv, uip_buf = Null, NEW n \in Addrs, NEW old \in Unresolved(n),
         NEW st \in {"STALE", "REACHABLE"}, NEW handle \in Packets \union {Null}, NEW buf,
         handle = Null \/ (handle = item[old].handle /\ buf = n),
         UpdateLladdr(n, old, st, handle, buf), torn' = torn
  PROVE  WaitInv'
<1>1. old \in Slots /\ old \in Neighbors /\ Dup(n, old) \subseteq Slots
  BY UnresolvedIs DEF Dup, ItemOf, Index
<1>2. CASE NbrRm({old} \union Dup(n, old))
  <2>1. {old} \union Dup(n, old) \in SUBSET Slots
    BY <1>1
  <2> QED
    BY <1>2, <2>1, NbrRmWait
<1>3. CASE /\ \E i \in Allocated(LLOf(n), {}) :
                item' = [item EXCEPT ![old] = Blank, ![i] = Moved(n, old, st, handle)]
           /\ packet' = Released({old} \union Dup(n, old))
           /\ uip_buf' = buf
  <2>1. PICK i \in Allocated(LLOf(n), {}) :
               item' = [item EXCEPT ![old] = Blank, ![i] = Moved(n, old, st, handle)]
    BY <1>3
  <2>2. PICK entry \in Item : /\ entry = Moved(n, old, st, handle) /\ entry.handle = handle
                              /\ entry.ipaddr = n /\ entry.state # "INCOMPLETE"
    BY <1>1, MovedIs
  <2>3. PICK gone : gone = {old} \union Dup(n, old)
    OBVIOUS
  <2>4. /\ i \in Slots /\ \A j \in Slots : lladdr[j] = LLOf(n) => j = i
        /\ ~Evicts(i, LLOf(n))
    BY LLOfIs, KeyAllocated
  <2>5. gone \in SUBSET Slots /\ old \in gone /\ gone \subseteq {old, i}
    BY <1>1, <2>3, <2>4 DEF Dup, ItemOf, Index
  <2>6. i \in gone \/ item[i].handle = Null
    <3> SUFFICES ASSUME item[i].handle # Null PROVE i \in gone
      OBVIOUS
    <3>1. i \in Neighbors
      BY <2>4 DEF AddrInv, OthersBlank, Blank
    <3>2. lladdr[i] # Free
      BY <2>4, <3>1, TablesAre DEF AddrInv, KeysSound, Index, Neighbors
    <3>3. i \in ItemOf("neighbors", LLOf(n))
      BY <2>4, <3>1, <3>2 DEF Evicts, ItemOf, Index, Neighbors
    <3> QED
      BY <2>3, <3>3 DEF Dup
  <2>7. packet' = Released(gone) /\ item' = [item EXCEPT ![old] = Blank, ![i] = entry]
    BY <1>3, <2>1, <2>2, <2>3
  <2>8. entry.handle = Null \/ (entry.handle = item[old].handle /\ uip_buf' = n)
    BY <1>3, <2>2
  <2>9. torn' \in BOOLEAN /\ (torn => torn')
    BY DEF AddrInv, Typed
  <2> QED
    BY <2>2, <2>5, <2>6, <2>7, <2>8, <2>9, MovesWait
<1> QED
  BY <1>2, <1>3 DEF UpdateLladdr, Dup, Moved

LEMMA RsMovesWait ==
  ASSUME AddrInv, WaitInv, uip_buf = Null, NEW n \in Addrs, NEW old \in Unresolved(n),
         NEW i \in Allocated(LLOf(n), {}), RsMoves(n, old, i)
  PROVE  WaitInv'
<1>1. old \in Slots
  BY UnresolvedIs
<1>2. PICK entry \in Item : /\ entry = RsEntry(n, old) /\ entry.ipaddr = n
                            /\ entry.state # "INCOMPLETE" /\ entry.handle = Null
  BY <1>1, RsEntryIs
<1>3. PICK gone : gone = {old}
  OBVIOUS
<1>4. /\ item' = [item EXCEPT ![old] = Blank, ![i] = entry]
      /\ packet' = Released(gone) /\ torn' = (torn \/ Overwrites(i, LLOf(n)))
  BY <1>2, <1>3 DEF RsMoves
<1>5. gone \in SUBSET Slots /\ old \in gone /\ gone \subseteq {old, i}
  BY <1>1, <1>3
<1>6. torn' \in BOOLEAN /\ (torn => torn')
  BY <1>4
<1>7. torn' \/ item[i].handle = Null
  <2> SUFFICES ASSUME item[i].handle # Null PROVE torn'
    OBVIOUS
  <2>1. i \in Slots /\ ~Evicts(i, LLOf(n))
    BY LLOfIs, KeyAllocated
  <2>2. i \in Neighbors
    BY <2>1 DEF AddrInv, OthersBlank, Blank
  <2>3. Overwrites(i, LLOf(n))
    BY <2>1, <2>2 DEF Overwrites
  <2> QED
    BY <1>4, <2>3
<1> QED
  BY <1>2, <1>4, <1>5, <1>6, <1>7, MovesWait

\* packet_timedout() frees the packet that it was called for.
LEMMA PacketTimedOutWait ==
  ASSUME AddrInv, WaitInv, NEW p \in Packets, PacketTimedOut(p)
  PROVE  WaitInv'
<1>1. PICK i \in Slots :
        /\ i = packet[p].timer
        /\ item'[i].handle = Null /\ item'[i].ipaddr = item[i].ipaddr
        /\ \A j \in Slots \ {i} : item'[j] = item[j]
        /\ \A q \in Packets :
             /\ packet'[q].to = packet[q].to
             /\ packet'[q].used <=> packet[q].used /\ q # item[i].handle
             /\ packet'[q].timer = IF q = p THEN Null ELSE packet[q].timer
  BY PacketTimedOutInv
<1>2. uip_buf = Null /\ packet[p].timer # Null /\ torn' = torn
  BY DEF PacketTimedOut
<1>3. \A j \in Slots, q \in Packets : item[j].handle = q => WaitsAt(j, q)
  BY <1>2, NoneLeft
<1>4. \A q \in Packets : q # Null
  BY PacketsAssumption
<1>5. ASSUME NEW j \in Slots, NEW q \in Packets, item'[j].handle = q PROVE WaitsAt(j, q)'
  <2>1. j # i /\ item'[j] = item[j] /\ WaitsAt(j, q)
    BY <1>1, <1>3, <1>4, <1>5
  <2>2. q # item[i].handle /\ q # p
    BY <1>1, <1>3, <2>1 DEF WaitsAt
  <2> QED
    BY <1>1, <2>1, <2>2 DEF WaitsAt, Resolving
<1>6. ASSUME ~torn', NEW q \in Packets, packet'[q].used
      PROVE  \E j \in Slots : item'[j].handle = q
  <2>1. packet[q].used /\ q # item[i].handle
    BY <1>1, <1>6
  <2>2. PICK j \in Slots : item[j].handle = q
    BY <1>2, <1>6, <2>1 DEF WaitInv, Blocks
  <2> QED
    BY <1>1, <2>1, <2>2
<1>7. ASSUME ~torn', NEW q \in Packets, ~packet'[q].used
      PROVE  packet'[q].timer = Null
  <2>1. CASE ~packet[q].used
    BY <1>1, <1>2, <1>7, <2>1 DEF WaitInv, Blocks
  <2>2. CASE q = item[i].handle
    <3>1. packet[p].used
      BY <1>2, <1>7 DEF WaitInv, Blocks
    <3>2. PICK j \in Slots : item[j].handle = p
      BY <1>2, <1>7, <3>1 DEF WaitInv, Blocks
    <3>3. j = i
      BY <1>1, <1>3, <3>2 DEF WaitsAt
    <3> QED
      BY <1>1, <2>2, <3>2, <3>3
  <2> QED
    BY <1>1, <1>7, <2>1, <2>2
<1> QED
  BY <1>5, <1>6, <1>7 DEF WaitInv, Waits, Blocks

LEMMA NextWaitInv ==
  ASSUME ~ForeignTargets, AddrInv, WaitInv, [Next]_vars PROVE WaitInv'
<1>1. uip_buf \in Addrs \union {Null} /\ torn \in BOOLEAN /\ {} \in SUBSET Slots
  BY DEF AddrInv, Typed
<1>2. ASSUME NEW n \in Addrs, SendPacket(n) PROVE WaitInv'
  <2>1. uip_buf \in {Null, n} /\ uip_buf' \in Addrs \union {Null}
    BY <1>2 DEF SendPacket
  <2> QED
    BY <1>2, <2>1, OutputWait DEF SendPacket
<1>3. ASSUME NEW n \in Addrs, NaInput(n) PROVE WaitInv'
  <2>1. PICK i \in Unresolved(n), st \in {"STALE", "REACHABLE"} :
          UpdateLladdr(n, i, st, Null, Waiting(i)) /\ torn' = torn /\ uip_buf = Null
    BY <1>3 DEF NaInput
  <2>2. Null \in Packets \union {Null}
    OBVIOUS
  <2> QED
    BY <2>1, <2>2, UpdateLladdrWait
<1>4. ASSUME NEW n \in Addrs, NsInput(n) PROVE WaitInv'
  <2>1. /\ uip_buf = Null
        /\ \/ NbrAdd(n, "STALE", {})
           \/ \E i \in Unresolved(n) :
                UpdateLladdr(n, i, "STALE", item[i].handle, n) /\ torn' = torn
    BY <1>4 DEF NsInput, Answers
  <2>2. "STALE" \in {"STALE", "REACHABLE"}
    OBVIOUS
  <2>3. CASE NbrAdd(n, "STALE", {})
    BY <1>1, <2>1, <2>2, <2>3, NbrAddWait
  <2>4. CASE \E i \in Unresolved(n) :
                UpdateLladdr(n, i, "STALE", item[i].handle, n) /\ torn' = torn
    <3>1. PICK i \in Unresolved(n) :
                UpdateLladdr(n, i, "STALE", item[i].handle, n) /\ torn' = torn
      BY <2>4
    <3>2. item[i].handle \in Packets \union {Null}
      BY UnresolvedIs, WaitingType
    <3> QED
      BY <2>1, <2>2, <3>1, <3>2, UpdateLladdrWait
  <2> QED
    BY <2>1, <2>3, <2>4
<1>5. ASSUME NEW n \in Addrs, RsInput(n) PROVE WaitInv'
  <2>1. "STALE" \in {"STALE", "REACHABLE"} /\ uip_buf = Null
    BY <1>5, RsInputIs
  <2>2. CASE NbrAdd(n, "STALE", {})
    BY <1>1, <2>1, <2>2, NbrAddWait
  <2>3. CASE \E old \in Unresolved(n), i \in Allocated(LLOf(n), {}) : RsMoves(n, old, i)
    BY <2>1, <2>3, RsMovesWait
  <2> QED
    BY <1>5, <2>2, <2>3, RsInputIs
<1>6. ASSUME NEW n \in Addrs, RplInput(n) PROVE WaitInv'
  <2>1. "REACHABLE" \in {"STALE", "REACHABLE"} /\ uip_buf = Null
    BY <1>6 DEF RplInput
  <2>2. NbrAdd(n, "REACHABLE", Neighbors) \/ NbrAdd(n, "REACHABLE", {})
    BY <1>6 DEF RplInput
  <2> QED
    BY <2>1, <2>2, RemovableTypes, NbrAddWait
<1>7. ASSUME NEW n \in Addrs, Refresh(n) PROVE WaitInv'
  <2>1. PICK i \in Nbr(n) : /\ item[i].state # "INCOMPLETE"
                            /\ item'[i].handle = item[i].handle
                            /\ \A j \in Slots \ {i} : item'[j] = item[j]
    BY <1>7, RefreshInv
  <2>2. uip_buf = Null /\ packet' = packet /\ torn' = torn
    BY <1>7 DEF Refresh
  <2>3. \A j \in Slots, p \in Packets : item[j].handle = p => WaitsAt(j, p)
    BY <2>2, NoneLeft
  <2>4. i \in Slots
    BY RemovableTypes DEF Nbr
  <2>5. item[i].handle = Null
    <3>1. item[i].handle \in Packets \union {Null}
      BY <2>4, WaitingType
    <3> QED
      BY <2>1, <2>3, <2>4, <3>1 DEF WaitsAt, Resolving
  <2>6. HandlesKept({}) /\ NoneLost({})
    BY <1>1, <2>1, <2>2, <2>5 DEF HandlesKept, NoneLost
  <2>7. packet' = Released({})
    BY <2>2, ReleasedNone
  <2> QED
    BY <1>1, <2>3, <2>6, <2>7, ReleasedWait
<1>8. ASSUME NEW n \in Addrs, RemoveNbr(n) PROVE WaitInv'
  <2>1. Nbr(n) \in SUBSET Slots /\ NbrRm(Nbr(n)) /\ uip_buf = Null /\ torn' = torn
    BY <1>8, RemovableTypes DEF RemoveNbr, Nbr
  <2> QED
    BY <2>1, NbrRmWait
<1>9. CASE SendBuffer
  <2>1. uip_buf' \in Addrs \union {Null} /\ uip_buf \in Addrs /\ uip_buf' = Null
    BY <1>1, <1>9 DEF SendBuffer
  <2>2. CASE Output(uip_buf)
    <3>1. PICK n \in Addrs : n = uip_buf
      BY <2>1
    <3>2. Output(n) /\ uip_buf \in {Null, n}
      BY <2>2, <3>1
    <3> QED
      BY <2>1, <3>2, OutputWait
  <2>3. CASE Dropped(uip_buf) /\ UNCHANGED <<nbrTableVars, item, packet, torn>>
    <3>1. \A j \in Slots, p \in Packets : item[j].handle = p => WaitsAt(j, p)
      BY <2>3, LeftIs DEF Dropped
    <3>2. HandlesKept({}) /\ NoneLost({})
      BY <1>1, <2>3 DEF HandlesKept, NoneLost
    <3>3. packet' = Released({})
      BY <2>3, ReleasedNone
    <3> QED
      BY <1>1, <3>1, <3>2, <3>3, ReleasedWait
  <2> QED
    BY <1>9, <2>2, <2>3 DEF SendBuffer
<1>10. ASSUME NEW due \in SUBSET Neighbors, Periodic(due) PROVE WaitInv'
  <2>1. uip_buf = Null /\ torn' = torn
    BY <1>10, PeriodicInv
  <2>2. PICK gone \in SUBSET Slots :
          /\ packet' = Released(gone)
          /\ \A j \in Slots :
               \/ j \in gone /\ item'[j].handle = Null
               \/ /\ j \notin gone /\ item'[j].handle = item[j].handle
                  /\ item'[j].ipaddr = item[j].ipaddr
                  /\ item'[j].state = "INCOMPLETE" <=> item[j].state = "INCOMPLETE"
    BY <1>10, PeriodicInv
  <2>3. \A j \in Slots, p \in Packets : item[j].handle = p => WaitsAt(j, p)
    BY <2>1, NoneLeft
  <2>4. HandlesKept(gone)
    BY <2>2 DEF HandlesKept
  <2>5. NoneLost(gone)
    BY <1>1, <2>1, <2>2 DEF NoneLost
  <2> QED
    BY <2>2, <2>3, <2>4, <2>5, ReleasedWait
<1>11. CASE UNCHANGED vars
  BY <1>11 DEF vars, WaitInv, Waits, Blocks, WaitsAt, LeftAt, Resolving
<1> QED
  BY <1>2, <1>3, <1>4, <1>5, <1>6, <1>7, <1>8, <1>9, <1>10, <1>11, PacketTimedOutWait DEF Next

LEMMA WaitInvHolds ==
  ASSUME ~ForeignTargets PROVE Spec => [](AddrInv /\ WaitInv)
<1>1. Init => AddrInv /\ WaitInv
  BY InitInv
<1>2. AddrInv /\ WaitInv /\ [Next]_vars => AddrInv' /\ WaitInv'
  BY NextAddrInv, NextWaitInv
<1> QED
  BY <1>1, <1>2, PTL DEF Spec

\* Where every solicitation that is received is for the border router (it is no
\* smart bridge), a packet waits with the neighbor that it is for, its timer leads
\* there, and no block of the pool is lost but where a handle is overwritten.
THEOREM PacketsKept ==
  ASSUME ~ForeignTargets PROVE Spec => []PacketsWait
<1>1. ASSUME AddrInv, WaitInv, uip_buf = Null PROVE PacketsWait
  <2>1. ASSUME NEW i \in Slots, NEW p \in Packets, item[i].handle = p
        PROVE  /\ packet[p] = [used |-> TRUE, to |-> item[i].ipaddr, timer |-> i]
               /\ item[i].state = "INCOMPLETE"
    <3>1. packet[p].used /\ packet[p].to = item[i].ipaddr /\ packet[p].timer = i /\ Resolving(i)
      BY <1>1, <2>1, NoneLeft DEF WaitsAt
    <3>2. packet[p] \in Block
      BY <1>1 DEF AddrInv, Typed
    <3> QED
      BY <3>1, <3>2 DEF Block, Resolving
  <2>2. torn \/ \A p \in Packets : packet[p].used => \E i \in Slots : item[i].handle = p
    BY <1>1 DEF WaitInv, Blocks
  <2> QED
    BY <2>1, <2>2 DEF PacketsWait
<1>2. AddrInv /\ WaitInv => PacketsWait
  BY <1>1 DEF PacketsWait
<1> QED
  BY <1>2, WaitInvHolds, PTL

\* Likewise, a packet that goes out with another one goes to the neighbor that it
\* was queued for, though ns_input() has freed its block before.
THEOREM SendsItsOwn ==
  ASSUME ~ForeignTargets PROVE Spec => SendsOwn
<1> DEFINE Own ==
      \A n \in Addrs, i \in Slots :
        i \in Nbr(n) /\ item[i].handle # Null /\ OutputKnown(n) => packet[item[i].handle].to = n
<1>1. AddrInv /\ WaitInv => Own
  <2> SUFFICES ASSUME AddrInv, WaitInv, NEW n \in Addrs, NEW i \in Slots, i \in Nbr(n),
                      item[i].handle # Null
               PROVE  packet[item[i].handle].to = n
    OBVIOUS
  <2>1. PICK p \in Packets : item[i].handle = p
    BY WaitingType
  <2>2. packet[p].to = item[i].ipaddr
    BY <2>1 DEF WaitInv, Waits, WaitsAt, LeftAt
  <2> QED
    BY <2>1, <2>2 DEF Nbr
<1>2. AddrInv /\ WaitInv /\ [Next]_vars => [Own]_vars
  BY <1>1
<1> QED
  BY <1>2, WaitInvHolds, PTL DEF Spec, SendsOwn
=============================================================================
