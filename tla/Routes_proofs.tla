----------------------------- MODULE Routes_proofs -----------------------------
(***************************************************************************)
(* Theorems about the routes of the border router, for every number of     *)
(* motes, destinations, keys and blocks, and for every nesting of prefixes.*)
(*                                                                         *)
(* What the runs check of the tables is inductive once it is joined by two *)
(* facts: a neighbor's key is its own link-layer address or none           *)
(* (KeysKnown), and the key that a route hangs on is that of the mote whose *)
(* DAO was accepted last (ViaSender).  The eviction policy is what makes   *)
(* them last: a key with routes is never given away (KeyAllocated).        *)
(***************************************************************************)
EXTENDS Routes, TLAPS

Route ==
  [dest : Dests \union {Null}, slot : Slots \union {Null},
   nexthop : Motes \union {Null}, lifetime : 0 .. Infinite, nopath : BOOLEAN,
   from : Motes \union {Null}, dead : BOOLEAN]

Typed ==
  /\ NbrTableTypeOK
  /\ ipaddr \in [Slots -> Motes \union {Null}]
  /\ routelist \subseteq RouteMem
  /\ route \in [RouteMem -> Route]
  /\ \A r \in routelist : route[r].dest \in Dests /\ route[r].lifetime \in 1 .. Infinite
  /\ route_list \in [Slots -> SUBSET RouteMem]

Linked ==
  /\ \A r \in RouteMem, i \in Slots :
       r \in route_list[i] <=> r \in routelist /\ route[r].slot = i
  /\ used["routes"] = {i \in Slots : route_list[i] # {}}
  /\ locked["routes"] = used["routes"]

OneNeighbor == \A i, j \in used["neighbors"] : ipaddr[i] = ipaddr[j] => i = j
OneRoute == \A r, s \in routelist : SameAddress(route[r].dest, route[s].dest) => r = s

\* The key of a neighbor whose address is resolved is that address.
KeysKnown ==
  \A i \in used["neighbors"] : ipaddr[i] \in Motes /\ lladdr[i] \in {LLNull, ipaddr[i]}

\* A route hangs on the key of the mote that its last DAO came from.
ViaSender ==
  \A r \in routelist :
    route[r].slot # Null /\ ~route[r].dead /\ lladdr[route[r].slot] # LLNull
      => lladdr[route[r].slot] = route[r].from

\* The neighbors and their keys; the routes.
TableInv == KeysSound /\ OneNeighbor /\ KeysKnown
RouteInv == Linked /\ OneRoute /\ ViaSender
Inv == Typed /\ TableInv /\ RouteInv

-----------------------------------------------------------------------------
(* Lemmas about the operators.                                             *)

LEMMA TablesAre ==
  /\ "neighbors" \in Tables /\ "routes" \in Tables
  /\ \A t \in Tables : t = "neighbors" \/ t = "routes"
  BY TablesAssumption

\* Two prefixes with the address of a third one have the same address.
LEMMA SameAddressIs ==
  ASSUME NEW d \in Dests
  PROVE  /\ SameAddress(d, d)
         /\ \A x, y : SameAddress(x, d) /\ SameAddress(y, d) => SameAddress(x, y)
<1>1. d \in Covering(d)
  BY CoveringAssumption
<1>2. ASSUME NEW x, NEW y, SameAddress(x, d), SameAddress(y, d)
      PROVE  SameAddress(x, y)
  <2>1. x \in Covering(d) /\ y \in Covering(d)
    BY <1>2 DEF SameAddress
  <2>2. Covering(x) = Covering(d) /\ Covering(y) = Covering(d)
    BY <1>2, <2>1, CoveringAssumption
  <2> QED
    BY <2>1, <2>2 DEF SameAddress
<1> QED
  BY <1>1, <1>2 DEF SameAddress

\* A lookup finds one route at most, and the route to the address that is looked up
\* if there is one: those to prefixes around it are shorter.
LEMMA LookupOne ==
  ASSUME Typed, OneRoute, NEW d \in Dests
  PROVE  /\ Lookup(d) \subseteq routelist
         /\ \A r, s \in Lookup(d) : r = s
         /\ \A r \in routelist : SameAddress(route[r].dest, d) => r \in Lookup(d)
         /\ \A r \in Lookup(d) : route[r].dest \in Covering(d)
<1> DEFINE matching == {r \in routelist : route[r].dest \in Covering(d)}
<1>1. \A r : r \in Lookup(d) <=>
        /\ r \in matching
        /\ \A s \in matching : Length(route[s].dest) <= Length(route[r].dest)
  BY DEF Lookup, LookupIn
<1>2. \A r \in matching : r \in routelist /\ route[r].dest \in Covering(d)
  OBVIOUS
<1>3. \A r \in matching : route[r].dest \in Dests /\ Length(route[r].dest) \in Nat
  BY <1>2, CoveringAssumption
<1>4. ASSUME NEW r \in routelist, SameAddress(route[r].dest, d) PROVE r \in matching
  BY <1>4 DEF SameAddress
<1> HIDE DEF matching
<1>5. ASSUME NEW r \in Lookup(d), NEW s \in Lookup(d) PROVE r = s
  <2>1. r \in matching /\ s \in matching
    BY <1>1
  <2>2. Length(route[r].dest) = Length(route[s].dest)
    <3>1. /\ Length(route[r].dest) <= Length(route[s].dest)
          /\ Length(route[s].dest) <= Length(route[r].dest)
      BY <1>1, <2>1
    <3>2. PICK j \in Nat, k \in Nat : j = Length(route[r].dest) /\ k = Length(route[s].dest)
      BY <1>3, <2>1
    <3> QED
      BY <3>1, <3>2
  <2>3. route[r].dest = route[s].dest
    BY <1>2, <2>1, <2>2, CoveringAssumption
  <2>4. SameAddress(route[r].dest, route[s].dest)
    BY <1>3, <2>1, <2>3, SameAddressIs
  <2> QED
    BY <1>2, <2>1, <2>4 DEF OneRoute
<1>6. ASSUME NEW r \in routelist, SameAddress(route[r].dest, d) PROVE r \in Lookup(d)
  <2>1. r \in matching
    BY <1>4, <1>6
  <2>2. ASSUME NEW s \in matching PROVE Length(route[s].dest) <= Length(route[r].dest)
    <3>1. CASE SameAddress(route[s].dest, d)
      <4>1. SameAddress(route[s].dest, route[r].dest)
        BY <1>6, <3>1, SameAddressIs
      <4>2. s = r
        BY <1>2, <2>2, <4>1 DEF OneRoute
      <4>3. PICK k \in Nat : k = Length(route[r].dest)
        BY <1>3, <2>1
      <4> QED
        BY <4>2, <4>3
    <3>2. CASE ~SameAddress(route[s].dest, d)
      <4>1. Length(route[s].dest) < Length(route[r].dest)
        BY <1>2, <1>6, <2>1, <2>2, <3>2, CoveringAssumption
      <4>2. PICK j \in Nat, k \in Nat : j = Length(route[s].dest) /\ k = Length(route[r].dest)
        BY <1>3, <2>1, <2>2
      <4> QED
        BY <4>1, <4>2
    <3> QED
      BY <3>1, <3>2
  <2> QED
    BY <1>1, <2>1, <2>2
<1> QED
  BY <1>1, <1>2, <1>5, <1>6

\* nbr_table_add_lladdr() takes the key of the address if it has one, and never
\* takes one away that routes hang on.
LEMMA KeyAllocated ==
  ASSUME Inv, NEW ll \in LLAddrs \union {LLNull}, NEW removable \in SUBSET Removable,
         NEW i \in Allocated(ll, removable)
  PROVE  /\ i \in Slots /\ Evicted(i, ll) = {}
         /\ \A j \in Slots : lladdr[j] = ll => j = i
         /\ \A j \in used["routes"] : LLAfter(ll, i)[j] = lladdr[j]
         /\ UsedAfter("neighbors", ll, i) \in [Tables -> SUBSET Slots]
         /\ UsedAfter("neighbors", ll, i)["neighbors"] = used["neighbors"] \union {i}
         /\ UsedAfter("neighbors", ll, i)["routes"] = used["routes"]
         /\ LockedAfter(ll, i) \in [Tables -> SUBSET Slots]
         /\ LockedAfter(ll, i)["neighbors"] \subseteq locked["neighbors"]
         /\ LockedAfter(ll, i)["routes"] = locked["routes"]
<1> USE TablesAre
<1>1. /\ used \in [Tables -> SUBSET Slots] /\ locked \in [Tables -> SUBSET Slots]
      /\ lladdr \in [Slots -> LLAddrs \union {LLNull, Free}]
  BY DEF Inv, Typed, NbrTableTypeOK
<1>2. \/ i \in Slots /\ lladdr[i] = ll
      \/ i \in Slots /\ lladdr[i] = Free /\ Index(ll) = {}
      \/ i \in Removable /\ Index(ll) = {}
  BY DEF Allocated, Index
<1>3. i \in Slots
  BY <1>1, <1>2 DEF Removable
<1>4. Evicts(i, ll) => i \notin used["routes"]
  BY <1>2 DEF Evicts, Removable
<1>5. Evicted(i, ll) = {}
  BY <1>3, <1>4 DEF Evicted, Inv, RouteInv, Linked
<1>6. \A j \in Slots : lladdr[j] = ll => j = i
  BY <1>2, LLAssumption DEF Inv, TableInv, KeysSound, Index
<1>7. \A j \in used["routes"] : j \in Slots /\ lladdr[j] # Free
  BY <1>1 DEF Inv, TableInv, KeysSound, Index
<1>8. \A j \in used["routes"] : LLAfter(ll, i)[j] = lladdr[j]
  BY <1>1, <1>4, <1>7 DEF LLAfter, Evicts
<1>9. locked["routes"] = used["routes"]
  BY DEF Inv, RouteInv, Linked
<1>10. /\ UsedAfter("neighbors", ll, i) \in [Tables -> SUBSET Slots]
       /\ UsedAfter("neighbors", ll, i)["neighbors"] = used["neighbors"] \union {i}
       /\ UsedAfter("neighbors", ll, i)["routes"] = used["routes"]
  BY <1>1, <1>3, <1>4 DEF UsedAfter
<1>11. /\ LockedAfter(ll, i) \in [Tables -> SUBSET Slots]
       /\ LockedAfter(ll, i)["neighbors"] \subseteq locked["neighbors"]
       /\ LockedAfter(ll, i)["routes"] = locked["routes"]
  BY <1>1, <1>4, <1>9 DEF LockedAfter
<1> QED
  BY <1>3, <1>5, <1>6, <1>8, <1>10, <1>11

-----------------------------------------------------------------------------
(* The neighbors and their keys.                                           *)

\* A neighbor takes a key.
LEMMA KeyTaken ==
  ASSUME Inv, NEW n \in Motes, NEW ll \in {n, LLNull},
         NEW removable \in SUBSET Removable, NEW i \in Allocated(ll, removable),
         Nbr(n) = {}, NbrAddAt(n, ll, i),
         used' \in [Tables -> SUBSET Slots], locked' \in [Tables -> SUBSET Slots],
         used'["neighbors"] = used["neighbors"] \union {i},
         used'["routes"] \subseteq used["routes"] \union {i},
         locked'["neighbors"] \subseteq locked["neighbors"],
         locked'["routes"] = used'["routes"]
  PROVE  TableInv'
<1>1. ll \in LLAddrs \union {LLNull} /\ ll # Free
  BY LLAssumption DEF Motes
<1>2. i \in Slots /\ \A j \in Slots : lladdr[j] = ll => j = i
  BY <1>1, KeyAllocated
<1>3. /\ lladdr \in [Slots -> LLAddrs \union {LLNull, Free}]
      /\ ipaddr \in [Slots -> Motes \union {Null}]
      /\ used["neighbors"] \subseteq Slots /\ used["routes"] \subseteq Slots
  BY TablesAre DEF Inv, Typed, NbrTableTypeOK
<1>4. /\ \A j \in Slots : lladdr'[j] = IF j = i THEN ll ELSE lladdr[j]
      /\ \A j \in Slots : ipaddr'[j] = IF j = i THEN n ELSE ipaddr[j]
  BY <1>2, <1>3 DEF NbrAddAt, LLAfter
<1>5. /\ \A j, k \in Slots : lladdr[j] = lladdr[k] /\ lladdr[j] # Free => j = k
      /\ \A t \in Tables : \A j \in used[t] : lladdr[j] # Free
      /\ locked["neighbors"] \subseteq used["neighbors"]
  BY <1>3, TablesAre DEF Inv, TableInv, KeysSound, Index
<1>6. KeysSound'
  <2>1. \A j, k \in Slots : lladdr'[j] = lladdr'[k] /\ lladdr'[j] # Free => j = k
    BY <1>2, <1>4, <1>5
  <2>2. \A t \in Tables : used'[t] \subseteq Slots \ {j \in Slots : lladdr'[j] = Free}
    BY <1>1, <1>2, <1>3, <1>4, <1>5, TablesAre
  <2>3. \A t \in Tables : locked'[t] \subseteq used'[t]
    BY <1>5, TablesAre
  <2> QED
    BY <2>1, <2>2, <2>3 DEF KeysSound, Index
<1>7. \A j \in used["neighbors"] : ipaddr[j] # n
  BY DEF Nbr
<1>8. OneNeighbor'
  BY <1>2, <1>3, <1>4, <1>7 DEF OneNeighbor, Inv, TableInv
<1>9. KeysKnown'
  BY <1>2, <1>3, <1>4 DEF KeysKnown, Inv, TableInv
<1> QED
  BY <1>6, <1>8, <1>9 DEF TableInv

\* The keys stay as they are when only the routes change.
LEMMA TablesKept ==
  ASSUME Inv, UNCHANGED <<lladdr, ipaddr>>,
         used'["neighbors"] = used["neighbors"],
         locked'["neighbors"] = locked["neighbors"],
         \A i \in used'["routes"] : i \in used["routes"] \/ i \in used["neighbors"],
         locked'["routes"] = used'["routes"]
  PROVE  TableInv'
<1>1. KeysSound'
  <2>1. \A i, j \in Slots : lladdr'[i] = lladdr'[j] /\ lladdr'[i] # Free => i = j
    BY DEF Inv, TableInv, KeysSound
  <2>2. /\ used["neighbors"] \subseteq Slots \ Index(Free)
        /\ used["routes"] \subseteq Slots \ Index(Free)
        /\ locked["neighbors"] \subseteq used["neighbors"]
    BY TablesAre DEF Inv, TableInv, KeysSound
  <2>3. \A t \in Tables : /\ used'[t] \subseteq Slots \ Index(Free)
                          /\ locked'[t] \subseteq used'[t]
    BY <2>2, TablesAre
  <2>4. Index(Free)' = Index(Free)
    BY DEF Index
  <2> QED
    BY <2>1, <2>3, <2>4 DEF KeysSound
<1>2. OneNeighbor' /\ KeysKnown'
  BY DEF Inv, TableInv, OneNeighbor, KeysKnown
<1> QED
  BY <1>1, <1>2 DEF TableInv

\* The routes stay as they are when only the keys change.
LEMMA RoutesKept ==
  ASSUME Inv, UNCHANGED routeVars,
         used'["routes"] = used["routes"], locked'["routes"] = locked["routes"],
         \A j \in used["routes"] : lladdr'[j] = lladdr[j]
  PROVE  RouteInv'
<1>1. Linked'
  BY DEF Inv, RouteInv, Linked, routeVars
<1>2. OneRoute'
  BY DEF Inv, RouteInv, OneRoute, routeVars
<1>3. \A r \in routelist : route[r].slot # Null => route[r].slot \in used["routes"]
  <2> SUFFICES ASSUME NEW r \in routelist, route[r].slot # Null
               PROVE  route[r].slot \in used["routes"]
    OBVIOUS
  <2>1. r \in RouteMem /\ route[r].slot \in Slots
    BY DEF Inv, Typed, Route
  <2>2. r \in route_list[route[r].slot]
    BY <2>1 DEF Inv, RouteInv, Linked
  <2> QED
    BY <2>1, <2>2 DEF Inv, RouteInv, Linked
<1>4. ViaSender'
  BY <1>3 DEF Inv, RouteInv, ViaSender, routeVars
<1> QED
  BY <1>1, <1>2, <1>4 DEF RouteInv

\* uip_ds6_nbr_add() without a route for it.
LEMMA NbrAddInv ==
  ASSUME Inv, NEW n \in Motes, NEW ll \in {n, LLNull},
         NEW removable \in SUBSET Removable, Nbr(n) = {}, NbrAdd(n, ll, removable)
  PROVE  Inv'
<1>0. ll \in LLAddrs \union {LLNull}
  BY DEF Motes
<1>1. PICK i \in Allocated(ll, removable) :
        /\ NbrAddAt(n, ll, i)
        /\ used' = UsedAfter("neighbors", ll, i)
        /\ locked' = LockedAfter(ll, i)
        /\ RoutesWithout(Evicted(i, ll), route)
  BY DEF NbrAdd
<1>2. /\ i \in Slots /\ Evicted(i, ll) = {}
      /\ \A j \in used["routes"] : LLAfter(ll, i)[j] = lladdr[j]
      /\ used' \in [Tables -> SUBSET Slots]
      /\ used'["neighbors"] = used["neighbors"] \union {i}
      /\ used'["routes"] = used["routes"]
      /\ locked' \in [Tables -> SUBSET Slots]
      /\ locked'["neighbors"] \subseteq locked["neighbors"]
      /\ locked'["routes"] = locked["routes"]
  BY <1>0, <1>1, KeyAllocated
<1>3. UNCHANGED routeVars
  BY <1>1, <1>2 DEF RoutesWithout, LeftOf, routeVars, Inv, Typed
<1>4. Typed'
  <2>1. lladdr' \in [Slots -> LLAddrs \union {LLNull, Free}]
    BY <1>0, <1>1 DEF NbrAddAt, LLAfter, Inv, Typed, NbrTableTypeOK
  <2>2. ipaddr' \in [Slots -> Motes \union {Null}]
    BY <1>1 DEF NbrAddAt, Inv, Typed
  <2> QED
    BY <1>2, <1>3, <2>1, <2>2 DEF Inv, Typed, NbrTableTypeOK, routeVars
<1>5. TableInv'
  <2>1. locked'["routes"] = used'["routes"] /\ used'["routes"] \subseteq used["routes"] \union {i}
    BY <1>2 DEF Inv, RouteInv, Linked
  <2> QED
    BY <1>1, <1>2, <2>1, KeyTaken
<1>6. RouteInv'
  <2>1. \A j \in used["routes"] : lladdr'[j] = lladdr[j]
    BY <1>1, <1>2 DEF NbrAddAt
  <2> QED
    BY <1>2, <1>3, <2>1, RoutesKept
<1> QED
  BY <1>4, <1>5, <1>6 DEF Inv

LEMMA NbrResolvedInv ==
  ASSUME Inv, NEW n \in Motes, NbrResolved(n)
  PROVE  Inv'
<1>1. PICK old \in Nbr(n) :
        /\ lladdr[old] = LLNull
        /\ \/ \E i \in Allocated(n, {}) :
                /\ lladdr' = LLAfter(n, i)
                /\ ipaddr' = [ipaddr EXCEPT ![old] = Null, ![i] = n]
                /\ used' = [used EXCEPT !["neighbors"] = (@ \ {old}) \union {i}]
           \/ /\ ipaddr' = [ipaddr EXCEPT ![old] = Null]
              /\ used' = Without(used, "neighbors", {old})
              /\ UNCHANGED lladdr
        /\ locked' = Without(locked, "neighbors", {old})
  BY DEF NbrResolved
<1>2. UNCHANGED routeVars
  BY DEF NbrResolved
<1>3. /\ lladdr \in [Slots -> LLAddrs \union {LLNull, Free}]
      /\ ipaddr \in [Slots -> Motes \union {Null}]
      /\ used \in [Tables -> SUBSET Slots] /\ locked \in [Tables -> SUBSET Slots]
      /\ old \in Slots /\ old \in used["neighbors"] /\ ipaddr[old] = n
  BY TablesAre DEF Inv, Typed, NbrTableTypeOK, Nbr
<1>4. /\ \A j, k \in Slots : lladdr[j] = lladdr[k] /\ lladdr[j] # Free => j = k
      /\ \A t \in Tables : \A j \in used[t] : lladdr[j] # Free
      /\ \A t \in Tables : locked[t] \subseteq used[t]
  BY <1>3, TablesAre DEF Inv, TableInv, KeysSound, Index
<1>5. /\ locked' \in [Tables -> SUBSET Slots]
      /\ locked'["neighbors"] = locked["neighbors"] \ {old}
      /\ locked'["routes"] = locked["routes"]
  BY <1>1, <1>3, TablesAre DEF Without
<1>6. \A j \in used["neighbors"] : ipaddr[j] = n => j = old
  BY <1>3 DEF Inv, TableInv, OneNeighbor
<1>7. CASE \E i \in Allocated(n, {}) :
             /\ lladdr' = LLAfter(n, i)
             /\ ipaddr' = [ipaddr EXCEPT ![old] = Null, ![i] = n]
             /\ used' = [used EXCEPT !["neighbors"] = (@ \ {old}) \union {i}]
  <2>1. PICK i \in Allocated(n, {}) :
             /\ lladdr' = LLAfter(n, i)
             /\ ipaddr' = [ipaddr EXCEPT ![old] = Null, ![i] = n]
             /\ used' = [used EXCEPT !["neighbors"] = (@ \ {old}) \union {i}]
    BY <1>7
  <2>2. n \in LLAddrs \union {LLNull} /\ n # LLNull /\ n # Free
    BY LLAssumption DEF Motes
  <2>3. /\ i \in Slots /\ \A j \in Slots : lladdr[j] = n => j = i
        /\ \A j \in used["routes"] : LLAfter(n, i)[j] = lladdr[j]
    BY <2>2, KeyAllocated
  <2>4. /\ \A j \in Slots : lladdr'[j] = IF j = i THEN n ELSE lladdr[j]
        /\ \A j \in Slots : ipaddr'[j] = IF j = i THEN n
                                         ELSE IF j = old THEN Null ELSE ipaddr[j]
        /\ used' \in [Tables -> SUBSET Slots]
        /\ used'["neighbors"] = (used["neighbors"] \ {old}) \union {i}
        /\ used'["routes"] = used["routes"]
    BY <1>3, <2>1, <2>3, TablesAre DEF LLAfter
  <2>5. Typed'
    <3>1. lladdr' \in [Slots -> LLAddrs \union {LLNull, Free}]
      BY <1>3, <2>1, <2>2 DEF LLAfter
    <3>2. ipaddr' \in [Slots -> Motes \union {Null}]
      BY <1>3, <2>1
    <3> QED
      BY <1>2, <1>5, <2>4, <3>1, <3>2 DEF Inv, Typed, NbrTableTypeOK, routeVars
  <2>6. KeysSound'
    <3>1. \A j, k \in Slots : lladdr'[j] = lladdr'[k] /\ lladdr'[j] # Free => j = k
      BY <1>4, <2>3, <2>4
    <3>2. \A t \in Tables : used'[t] \subseteq Slots \ {j \in Slots : lladdr'[j] = Free}
      BY <1>3, <1>4, <2>2, <2>3, <2>4, TablesAre
    <3>3. \A t \in Tables : locked'[t] \subseteq used'[t]
      BY <1>4, <1>5, <2>4, TablesAre
    <3> QED
      BY <3>1, <3>2, <3>3 DEF KeysSound, Index
  <2>7. used["neighbors"] \subseteq Slots
    BY <1>3, TablesAre
  <2>8. OneNeighbor'
    BY <1>6, <2>3, <2>4, <2>7 DEF OneNeighbor, Inv, TableInv
  <2>9. KeysKnown'
    BY <2>3, <2>4, <2>7 DEF KeysKnown, Inv, TableInv
  <2>10. RouteInv'
    BY <1>2, <1>5, <2>1, <2>3, <2>4, RoutesKept
  <2> QED
    BY <2>5, <2>6, <2>8, <2>9, <2>10 DEF Inv, TableInv
<1>8. CASE /\ ipaddr' = [ipaddr EXCEPT ![old] = Null]
           /\ used' = Without(used, "neighbors", {old})
           /\ UNCHANGED lladdr
  <2>1. /\ \A j \in Slots : ipaddr'[j] = IF j = old THEN Null ELSE ipaddr[j]
        /\ used' \in [Tables -> SUBSET Slots]
        /\ used'["neighbors"] = used["neighbors"] \ {old}
        /\ used'["routes"] = used["routes"]
    BY <1>3, <1>8, TablesAre DEF Without
  <2>2. Typed'
    BY <1>2, <1>3, <1>5, <1>8, <2>1 DEF Inv, Typed, NbrTableTypeOK, routeVars
  <2>3. KeysSound'
    <3>1. \A t \in Tables : used'[t] \subseteq Slots \ {j \in Slots : lladdr[j] = Free}
      BY <1>3, <1>4, <2>1, TablesAre
    <3>2. \A t \in Tables : locked'[t] \subseteq used'[t]
      BY <1>4, <1>5, <2>1, TablesAre
    <3> QED
      BY <1>4, <1>8, <3>1, <3>2 DEF KeysSound, Index
  <2>4. used["neighbors"] \subseteq Slots
    BY <1>3, TablesAre
  <2>5. OneNeighbor'
    BY <2>1, <2>4 DEF OneNeighbor, Inv, TableInv
  <2>6. KeysKnown'
    BY <1>8, <2>1, <2>4 DEF KeysKnown, Inv, TableInv
  <2>7. RouteInv'
    BY <1>2, <1>5, <1>8, <2>1, RoutesKept
  <2> QED
    BY <2>2, <2>3, <2>5, <2>6, <2>7 DEF Inv, TableInv
<1> QED
  BY <1>1, <1>7, <1>8

LEMMA NbrRmInv ==
  ASSUME Inv, NEW n \in Motes, NbrRm(n)
  PROVE  Inv'
<1>1. /\ used' = Without(used, "neighbors", Nbr(n))
      /\ locked' = Without(locked, "neighbors", Nbr(n))
      /\ ipaddr' = [i \in Slots |-> IF i \in Nbr(n) THEN Null ELSE ipaddr[i]]
      /\ UNCHANGED <<lladdr, routeVars>>
  BY DEF NbrRm
<1>2. /\ lladdr \in [Slots -> LLAddrs \union {LLNull, Free}]
      /\ ipaddr \in [Slots -> Motes \union {Null}]
      /\ used \in [Tables -> SUBSET Slots] /\ locked \in [Tables -> SUBSET Slots]
  BY DEF Inv, Typed, NbrTableTypeOK
<1>3. /\ used' \in [Tables -> SUBSET Slots] /\ locked' \in [Tables -> SUBSET Slots]
      /\ used'["neighbors"] = used["neighbors"] \ Nbr(n)
      /\ locked'["neighbors"] = locked["neighbors"] \ Nbr(n)
      /\ used'["routes"] = used["routes"] /\ locked'["routes"] = locked["routes"]
      /\ \A j \in Slots : j \notin Nbr(n) => ipaddr'[j] = ipaddr[j]
  BY <1>1, <1>2, TablesAre DEF Without
<1>4. Typed'
  <2>1. ipaddr' \in [Slots -> Motes \union {Null}]
    BY <1>1, <1>2
  <2> QED
    BY <1>1, <1>3, <2>1 DEF Inv, Typed, NbrTableTypeOK, routeVars
<1>5. KeysSound'
  <2>1. Index(Free)' = Index(Free)
    BY <1>1 DEF Index
  <2>2. \A t \in Tables : /\ used'[t] \subseteq Slots \ Index(Free)
                          /\ locked'[t] \subseteq used'[t]
    BY <1>3, TablesAre DEF Inv, TableInv, KeysSound
  <2> QED
    BY <1>1, <2>1, <2>2 DEF Inv, TableInv, KeysSound
<1>6. used["neighbors"] \subseteq Slots
  BY <1>2, TablesAre
<1>7. OneNeighbor'
  BY <1>3, <1>6 DEF OneNeighbor, Inv, TableInv
<1>8. KeysKnown'
  BY <1>1, <1>3, <1>6 DEF KeysKnown, Inv, TableInv
<1>9. RouteInv'
  BY <1>1, <1>3, RoutesKept
<1> QED
  BY <1>4, <1>5, <1>7, <1>8, <1>9 DEF Inv, TableInv

-----------------------------------------------------------------------------
(* The routes.                                                             *)

\* The items of neighbors that are left with a route when dead are removed.
LEMMA StillUsed ==
  ASSUME Linked, Typed, NEW dead \in SUBSET routelist, NEW i \in Slots
  PROVE  /\ i \in used["routes"] \ Unused(dead) <=> route_list[i] \ dead # {}
         /\ LeftOf(dead)[i] = route_list[i] \ dead
         /\ \A r \in RouteMem : r \in LeftOf(dead)[i] <=>
               r \in routelist \ dead /\ route[r].slot = i
  BY DEF Linked, Typed, Unused, LeftOf

\* Routes are removed, and the others keep what the tables depend on.
LEMMA RouteRmInv ==
  ASSUME Inv, NEW dead \in SUBSET routelist, NEW aged \in [RouteMem -> Route],
         \A r \in RouteMem : /\ aged[r].dest = route[r].dest
                              /\ aged[r].slot = route[r].slot
                              /\ aged[r].from = route[r].from
                              /\ aged[r].dead = route[r].dead,
         \A r \in routelist \ dead : aged[r].lifetime \in 1 .. Infinite,
         RouteRm(dead, aged), UNCHANGED <<lladdr, ipaddr>>
  PROVE  Inv'
<1>1. /\ routelist' = routelist \ dead
      /\ route' = [r \in RouteMem |-> IF r \in dead THEN NoRoute ELSE aged[r]]
      /\ route_list' = LeftOf(dead)
      /\ used' = Without(used, "routes", Unused(dead))
      /\ locked' = Without(locked, "routes", Unused(dead))
  BY DEF RouteRm, RoutesWithout
<1>2. /\ used \in [Tables -> SUBSET Slots] /\ locked \in [Tables -> SUBSET Slots]
      /\ routelist \subseteq RouteMem
  BY DEF Inv, Typed, NbrTableTypeOK
<1>3. /\ used' \in [Tables -> SUBSET Slots] /\ locked' \in [Tables -> SUBSET Slots]
      /\ used'["neighbors"] = used["neighbors"] /\ locked'["neighbors"] = locked["neighbors"]
      /\ used'["routes"] = used["routes"] \ Unused(dead)
      /\ locked'["routes"] = locked["routes"] \ Unused(dead)
  BY <1>1, <1>2, TablesAre DEF Without
<1>4. \A r \in routelist \ dead : route'[r] = aged[r]
  BY <1>1, <1>2
<1>5. Typed'
  <2>1. NoRoute \in Route
    BY LifetimeAssumption DEF NoRoute, Route
  <2>2. route' \in [RouteMem -> Route]
    BY <1>1, <2>1
  <2>3. \A r \in routelist' : route'[r].dest \in Dests /\ route'[r].lifetime \in 1 .. Infinite
    BY <1>1, <1>2, <1>4 DEF Inv, Typed
  <2>4. route_list' \in [Slots -> SUBSET RouteMem]
    BY <1>1 DEF LeftOf, Inv, Typed
  <2> QED
    BY <1>1, <1>3, <2>2, <2>3, <2>4 DEF Inv, Typed, NbrTableTypeOK
<1>6. TableInv'
  BY <1>3, TablesKept DEF Inv, RouteInv, Linked
<1>7. Linked'
  <2>1. \A r \in RouteMem, i \in Slots :
          r \in route_list'[i] <=> r \in routelist' /\ route'[r].slot = i
    BY <1>1, <1>2, <1>4, StillUsed DEF Inv, RouteInv
  <2>2. used'["routes"] = {i \in Slots : route_list'[i] # {}}
    <3>1. \A i \in Slots : i \in used'["routes"] <=> route_list'[i] # {}
      BY <1>1, <1>3, StillUsed DEF Inv, RouteInv
    <3> QED
      BY <1>3, <3>1, TablesAre
  <2> QED
    BY <1>3, <2>1, <2>2 DEF Inv, RouteInv, Linked
<1>8. OneRoute'
  BY <1>1, <1>2, <1>4 DEF Inv, RouteInv, OneRoute
<1>9. ViaSender'
  BY <1>1, <1>2, <1>4 DEF Inv, RouteInv, ViaSender
<1> QED
  BY <1>5, <1>6, <1>7, <1>8, <1>9 DEF Inv, RouteInv

\* A new route in place of old, through the item i of a neighbor or, if i is
\* Null, through none.
Replaces(d, i, old, r, new) ==
  /\ \A s \in routelist : SameAddress(route[s].dest, d) => s \in old
  /\ r \notin routelist \ old
  /\ new.dest = d /\ new.slot = i /\ new.lifetime \in 1 .. Infinite
  /\ routelist' = (routelist \ old) \union {r}
  /\ route' = [b \in RouteMem |-> IF b = r THEN new
                                  ELSE IF b \in old THEN NoRoute ELSE route[b]]
  /\ route_list' \in [Slots -> SUBSET RouteMem]
  /\ \A j \in Slots : route_list'[j] = LeftOf(old)[j] \union (IF j = i THEN {r} ELSE {})
  /\ used' \in [Tables -> SUBSET Slots]
  /\ \A j \in Slots : j \in used'["routes"] <=> j \in used["routes"] \ Unused(old) \/ j = i
  /\ locked'["routes"] = used'["routes"]
  /\ \A j \in used["routes"] : lladdr'[j] = lladdr[j]
  /\ i # Null /\ lladdr'[i] # LLNull => lladdr'[i] = new.from

LEMMA RouteReplaced ==
  ASSUME Inv, NEW d \in Dests, NEW i \in Slots \union {Null}, NEW old \in SUBSET routelist,
         NEW r \in RouteMem, NEW new \in Route, Replaces(d, i, old, r, new)
  PROVE  /\ RouteInv'
         /\ routelist' \subseteq RouteMem /\ route' \in [RouteMem -> Route]
         /\ \A s \in routelist' : route'[s].dest \in Dests /\ route'[s].lifetime \in 1 .. Infinite
<1> USE DEF Replaces
<1>1. NoRoute \in Route
  BY LifetimeAssumption DEF NoRoute, Route
<1>2. /\ routelist \subseteq RouteMem /\ route \in [RouteMem -> Route]
      /\ \A s \in routelist : route[s].dest \in Dests /\ route[s].lifetime \in 1 .. Infinite
      /\ \A s \in routelist : route[s].slot # Null => route[s].slot \in Slots
  BY DEF Inv, Typed, Route
<1>3. /\ route'[r] = new
      /\ \A s \in routelist \ old : s # r /\ route'[s] = route[s]
  BY <1>2
<1>4. /\ routelist' \subseteq RouteMem /\ route' \in [RouteMem -> Route]
      /\ \A s \in routelist' : route'[s].dest \in Dests /\ route'[s].lifetime \in 1 .. Infinite
  BY <1>1, <1>2, <1>3
<1>5. Linked'
  <2>1. \A s \in RouteMem, j \in Slots :
          s \in LeftOf(old)[j] <=> s \in routelist \ old /\ route[s].slot = j
    BY StillUsed DEF Inv, RouteInv
  <2>2. \A s \in RouteMem, j \in Slots :
          s \in route_list'[j] <=> s \in routelist' /\ route'[s].slot = j
    BY <1>3, <2>1
  <2>3. \A j \in Slots : j \in used'["routes"] <=> route_list'[j] # {}
    BY StillUsed DEF Inv, RouteInv
  <2>4. used'["routes"] = {j \in Slots : route_list'[j] # {}}
    BY <2>3, TablesAre
  <2> QED
    BY <2>2, <2>4 DEF Linked
<1>6. OneRoute'
  <2>1. \A x, y : SameAddress(x, y) <=> SameAddress(y, x)
    BY DEF SameAddress
  <2>2. \A s \in routelist \ old : ~SameAddress(route'[s].dest, d) /\ ~SameAddress(d, route'[s].dest)
    BY <1>3, <2>1
  <2>3. \A s, t \in routelist \ old : SameAddress(route'[s].dest, route'[t].dest) => s = t
    BY <1>3 DEF OneRoute, Inv, RouteInv
  <2> QED
    BY <1>3, <2>2, <2>3 DEF OneRoute
<1>7. ViaSender'
  <2>1. \A s \in routelist : route[s].slot # Null => route[s].slot \in used["routes"]
    BY <1>2 DEF Inv, RouteInv, Linked
  <2>2. \A s \in routelist \ old : route[s].slot # Null =>
          lladdr'[route[s].slot] = lladdr[route[s].slot]
    BY <2>1
  <2> QED
    BY <1>3, <2>2 DEF ViaSender, Inv, RouteInv
<1> QED
  BY <1>4, <1>5, <1>6, <1>7 DEF RouteInv

\* The routes in old have their lifetime renewed by a DAO of n; a route whose
\* next hop is gone is marked.
Renewed(old, n, gone) ==
  [r \in RouteMem |->
     IF r \notin old THEN route[r]
     ELSE [route[r] EXCEPT !.lifetime = DaoLifetime, !.nopath = FALSE,
                           !.from = n, !.dead = gone]]

LEMMA RouteRenewed ==
  ASSUME Inv, NEW n \in Motes, NEW old \in SUBSET routelist, NEW gone \in BOOLEAN,
         UNCHANGED <<routelist, route_list>>,
         route' = Renewed(old, n, gone),
         used'["routes"] = used["routes"], locked'["routes"] = locked["routes"],
         \A j \in used["routes"] : lladdr'[j] = lladdr[j],
         ~gone => \A r \in old : route[r].slot # Null =>
                                    lladdr'[route[r].slot] \in {LLNull, n}
  PROVE  /\ RouteInv'
         /\ routelist' \subseteq RouteMem /\ route' \in [RouteMem -> Route]
         /\ \A s \in routelist' : route'[s].dest \in Dests /\ route'[s].lifetime \in 1 .. Infinite
<1>1. /\ routelist \subseteq RouteMem /\ route \in [RouteMem -> Route]
      /\ \A s \in routelist : route[s].dest \in Dests /\ route[s].lifetime \in 1 .. Infinite
      /\ \A s \in routelist : route[s].slot # Null => route[s].slot \in Slots
  BY DEF Inv, Typed, Route
<1>2. DaoLifetime \in 1 .. Infinite /\ DaoLifetime \in 0 .. Infinite
  <2>1. DaoLifetime \in Nat /\ DaoLifetime # 0 /\ Infinite \in Nat /\ DaoLifetime < Infinite
    BY LifetimeAssumption
  <2> QED
    BY <2>1
<1>3. /\ \A r \in RouteMem \ old : route'[r] = route[r]
      /\ \A r \in old : /\ route'[r] \in Route
                         /\ route'[r].dest = route[r].dest
                         /\ route'[r].slot = route[r].slot
                         /\ route'[r].lifetime = DaoLifetime
                         /\ route'[r].from = n
                         /\ route'[r].dead = gone
  BY <1>1, <1>2 DEF Renewed, Route
<1>4. route' \in [RouteMem -> Route]
  BY <1>1, <1>3 DEF Renewed
<1>5. \A r \in RouteMem : route'[r].dest = route[r].dest /\ route'[r].slot = route[r].slot
  BY <1>3
<1>6. Linked'
  <2>1. \A r \in RouteMem, i \in Slots :
          r \in route_list'[i] <=> r \in routelist' /\ route'[r].slot = i
    BY <1>5 DEF Inv, RouteInv, Linked
  <2>2. used'["routes"] = {i \in Slots : route_list'[i] # {}}
    BY DEF Inv, RouteInv, Linked
  <2> QED
    BY <2>1, <2>2 DEF Inv, RouteInv, Linked
<1>7. OneRoute'
  <2>1. \A r \in routelist : r \in RouteMem
    BY <1>1
  <2> QED
    BY <1>5, <2>1 DEF Inv, RouteInv, OneRoute
<1>8. ViaSender'
  <2>1. \A s \in routelist : route[s].slot # Null => route[s].slot \in used["routes"]
    BY <1>1 DEF Inv, RouteInv, Linked
  <2>2. \A s \in routelist : route[s].slot # Null =>
          lladdr'[route[s].slot] = lladdr[route[s].slot]
    BY <2>1
  <2>3. \A s \in routelist : s \in RouteMem
    BY <1>1
  <2>4. ASSUME NEW s \in routelist, s \in old, route'[s].slot # Null, ~route'[s].dead,
               lladdr'[route'[s].slot] # LLNull
        PROVE  lladdr'[route'[s].slot] = route'[s].from
    BY <1>3, <2>4
  <2>5. ASSUME NEW s \in routelist, s \notin old, route'[s].slot # Null, ~route'[s].dead,
               lladdr'[route'[s].slot] # LLNull
        PROVE  lladdr'[route'[s].slot] = route'[s].from
    <3>1. route'[s] = route[s]
      BY <1>3, <2>3, <2>5
    <3> QED
      BY <2>2, <2>5, <3>1 DEF ViaSender, Inv, RouteInv
  <2> QED
    BY <2>4, <2>5 DEF ViaSender
<1>9. \A s \in routelist : route'[s].dest \in Dests /\ route'[s].lifetime \in 1 .. Infinite
  BY <1>1, <1>2, <1>3
<1> QED
  BY <1>1, <1>4, <1>6, <1>7, <1>8, <1>9 DEF RouteInv

\* rpl_add_route() hangs the route on the item of the mote that sent the DAO.
LEMMA RplAddRouteInv ==
  ASSUME Inv, NEW n \in Motes, NEW d \in Dests, NEW i \in Slots,
         NEW m \in [Tables -> SUBSET Slots], NEW l \in [Tables -> SUBSET Slots],
         NEW a, m["routes"] = used["routes"], l["routes"] = locked["routes"],
         RplAddRoute(d, n, i, m, l, a, {}),
         \A j \in used["routes"] : lladdr'[j] = lladdr[j],
         lladdr'[i] \in {LLNull, n},
         \A j \in m["neighbors"] : a[j] = n => lladdr'[j] \in {LLNull, n}
  PROVE  /\ RouteInv'
         /\ routelist' \subseteq RouteMem /\ route' \in [RouteMem -> Route]
         /\ \A s \in routelist' : route'[s].dest \in Dests /\ route'[s].lifetime \in 1 .. Infinite
         /\ route_list' \in [Slots -> SUBSET RouteMem]
         /\ used' \in [Tables -> SUBSET Slots] /\ locked' \in [Tables -> SUBSET Slots]
         /\ used'["neighbors"] = m["neighbors"] /\ locked'["neighbors"] = l["neighbors"]
         /\ used'["routes"] \subseteq used["routes"] \union {i}
         /\ locked'["routes"] = used'["routes"]
<1> DEFINE old == Lookup(d)
           hops == UNION {NextHop(r, m, a) : r \in old}
<1>1. /\ old \subseteq routelist /\ \A r, s \in old : r = s
      /\ \A r \in routelist : SameAddress(route[r].dest, d) => r \in old
  BY LookupOne DEF Inv, RouteInv
<1>2. /\ routelist \subseteq RouteMem /\ route \in [RouteMem -> Route]
      /\ route_list \in [Slots -> SUBSET RouteMem]
      /\ \A s \in routelist : route[s].dest \in Dests /\ route[s].lifetime \in 1 .. Infinite
      /\ locked["routes"] = used["routes"]
  BY DEF Inv, Typed, RouteInv, Linked
<1>3. LookupIn(d, routelist \ {}) = old /\ old \union {} = old
  <2>1. routelist \ {} = routelist
    OBVIOUS
  <2> QED
    BY <2>1 DEF Lookup
<1>4. \/ ~RouteFull(old) /\ RouteAdd(d, n, i, old, m, l)
      \/ used' = m /\ locked' = l /\ UNCHANGED routeVars
      \/ /\ Keeps(old, hops, n) /\ used' = m /\ locked' = l
         /\ RoutesWithout({}, Renewed(old, n, hops = {}))
  BY <1>3 DEF RplAddRoute, Renewed
<1> HIDE DEF old, hops
<1>5. CASE ~RouteFull(old) /\ RouteAdd(d, n, i, old, m, l)
  <2> DEFINE r == CHOOSE b \in RouteMem : b \notin routelist \ old
             new == [NoRoute EXCEPT !.dest = d, !.slot = i,
                                    !.lifetime = DaoLifetime, !.from = n]
  <2>1. r \in RouteMem /\ r \notin routelist \ old
    BY <1>5 DEF RouteFull
  <2>2. /\ new \in Route /\ new.dest = d /\ new.slot = i
        /\ new.lifetime = DaoLifetime /\ new.from = n
    <3>1. DaoLifetime \in 0 .. Infinite
      BY LifetimeAssumption
    <3> QED
      BY <3>1 DEF NoRoute, Route
  <2>3. new.lifetime \in 1 .. Infinite
    BY <2>2, LifetimeAssumption
  <2>4. /\ routelist' = (routelist \ old) \union {r}
        /\ route' = [b \in RouteMem |-> IF b = r THEN new
                                        ELSE IF b \in old THEN NoRoute ELSE route[b]]
        /\ route_list' = [LeftOf(old) EXCEPT ![i] = @ \union {r}]
        /\ used' = [m EXCEPT !["routes"] = (@ \ Unused(old)) \union {i}]
        /\ locked' = [l EXCEPT !["routes"] = (@ \ Unused(old)) \union {i}]
    BY <1>5 DEF RouteAdd
  <2> HIDE DEF r, new
  <2>5. LeftOf(old) \in [Slots -> SUBSET RouteMem]
    BY <1>2 DEF LeftOf
  <2>6. /\ route_list' \in [Slots -> SUBSET RouteMem]
        /\ \A j \in Slots : route_list'[j] = LeftOf(old)[j] \union (IF j = i THEN {r} ELSE {})
    BY <2>1, <2>4, <2>5
  <2>7. /\ used' \in [Tables -> SUBSET Slots] /\ locked' \in [Tables -> SUBSET Slots]
        /\ used'["neighbors"] = m["neighbors"] /\ locked'["neighbors"] = l["neighbors"]
        /\ used'["routes"] = (used["routes"] \ Unused(old)) \union {i}
        /\ locked'["routes"] = (used["routes"] \ Unused(old)) \union {i}
    BY <1>2, <2>4, TablesAre
  <2>8. \A j \in Slots : j \in used'["routes"] <=>
                            j \in used["routes"] \ Unused(old) \/ j = i
    BY <2>7
  <2>9. i # Null /\ lladdr'[i] # LLNull => lladdr'[i] = new.from
    BY <2>2
  <2>10. /\ RouteInv'
         /\ routelist' \subseteq RouteMem /\ route' \in [RouteMem -> Route]
         /\ \A s \in routelist' : route'[s].dest \in Dests /\ route'[s].lifetime \in 1 .. Infinite
    <3>1. i \in Slots \union {Null} /\ old \in SUBSET routelist
      BY <1>1
    <3>2. new \in Route /\ new.dest = d /\ new.slot = i
      BY <2>2
    <3>3. locked'["routes"] = used'["routes"] /\ used' \in [Tables -> SUBSET Slots]
      BY <2>7
    <3>4. Replaces(d, i, old, r, new)
      BY <1>1, <2>1, <2>2, <2>3, <2>4, <2>6, <2>8, <2>9, <3>3 DEF Replaces
    <3> QED
      BY <2>1, <3>1, <3>2, <3>4, RouteReplaced
  <2> QED
    BY <2>6, <2>7, <2>10
<1>6. CASE used' = m /\ locked' = l /\ UNCHANGED routeVars
  <2>1. RouteInv'
    BY <1>6, RoutesKept
  <2> QED
    BY <1>2, <1>6, <2>1 DEF routeVars
<1>7. CASE /\ Keeps(old, hops, n) /\ used' = m /\ locked' = l
           /\ RoutesWithout({}, Renewed(old, n, hops = {}))
  <2> DEFINE gone == hops = {}
  <2>1. UNCHANGED <<routelist, route_list>> /\ route' = Renewed(old, n, gone)
    BY <1>2, <1>7 DEF RoutesWithout, LeftOf, Renewed
  <2>2. ASSUME ~gone, NEW r \in old, route[r].slot # Null
        PROVE  lladdr'[route[r].slot] \in {LLNull, n}
    <3>1. hops = {n} /\ hops = NextHop(r, m, a)
      BY <1>1, <1>7, <2>2 DEF Keeps, hops
    <3>2. route[r].slot \in m["neighbors"] /\ a[route[r].slot] = n
      BY <2>2, <3>1 DEF NextHop
    <3> QED
      BY <3>2
  <2>3. gone \in BOOLEAN
    OBVIOUS
  <2> HIDE DEF gone
  <2>4. /\ RouteInv'
        /\ routelist' \subseteq RouteMem /\ route' \in [RouteMem -> Route]
        /\ \A s \in routelist' : route'[s].dest \in Dests /\ route'[s].lifetime \in 1 .. Infinite
    <3>1. used'["routes"] = used["routes"] /\ locked'["routes"] = locked["routes"]
      BY <1>7
    <3>2. ~gone => \A r \in old : route[r].slot # Null =>
                                   lladdr'[route[r].slot] \in {LLNull, n}
      BY <2>2
    <3>3. old \in SUBSET routelist
      BY <1>1
    <3> QED
      BY <2>1, <2>3, <3>1, <3>2, <3>3, RouteRenewed
  <2> QED
    BY <1>2, <1>7, <2>1, <2>4
<1> QED
  BY <1>4, <1>5, <1>6, <1>7

LEMMA DaoInputInv ==
  ASSUME Inv, NEW n \in Motes, NEW d \in Dests, DaoInput(n, d)
  PROVE  Inv'
<1>1. /\ lladdr \in [Slots -> LLAddrs \union {LLNull, Free}]
      /\ ipaddr \in [Slots -> Motes \union {Null}]
      /\ used \in [Tables -> SUBSET Slots] /\ locked \in [Tables -> SUBSET Slots]
      /\ used["neighbors"] \subseteq Slots
  BY TablesAre DEF Inv, Typed, NbrTableTypeOK
<1>2. CASE /\ \E i \in Nbr(n) : RplAddRoute(d, n, i, used, locked, ipaddr, {})
           /\ UNCHANGED <<lladdr, ipaddr>>
  <2>1. PICK i \in Nbr(n) : RplAddRoute(d, n, i, used, locked, ipaddr, {})
    BY <1>2
  <2>2. i \in Slots /\ i \in used["neighbors"] /\ ipaddr[i] = n
    BY <1>1 DEF Nbr
  <2>3. \A j \in used["neighbors"] : ipaddr[j] = n => lladdr'[j] \in {LLNull, n}
    BY <1>2 DEF Inv, TableInv, KeysKnown
  <2>4. \A j \in used["routes"] : lladdr'[j] = lladdr[j]
    BY <1>2
  <2>5. /\ RouteInv'
        /\ routelist' \subseteq RouteMem /\ route' \in [RouteMem -> Route]
        /\ \A s \in routelist' : route'[s].dest \in Dests /\ route'[s].lifetime \in 1 .. Infinite
        /\ route_list' \in [Slots -> SUBSET RouteMem]
        /\ used' \in [Tables -> SUBSET Slots] /\ locked' \in [Tables -> SUBSET Slots]
        /\ used'["neighbors"] = used["neighbors"] /\ locked'["neighbors"] = locked["neighbors"]
        /\ used'["routes"] \subseteq used["routes"] \union {i}
        /\ locked'["routes"] = used'["routes"]
    BY <1>1, <2>1, <2>2, <2>3, <2>4, RplAddRouteInv
  <2>6. TableInv'
    BY <1>2, <2>2, <2>5, TablesKept
  <2> QED
    BY <1>1, <1>2, <2>5, <2>6 DEF Inv, Typed, NbrTableTypeOK
<1>3. CASE /\ Nbr(n) = {}
           /\ \E i \in Allocated(n, Removable) :
                /\ NbrAddAt(n, n, i)
                /\ RplAddRoute(d, n, i, UsedAfter("neighbors", n, i), LockedAfter(n, i),
                               [ipaddr EXCEPT ![i] = n], Evicted(i, n))
  <2>1. PICK i \in Allocated(n, Removable) :
          /\ NbrAddAt(n, n, i)
          /\ RplAddRoute(d, n, i, UsedAfter("neighbors", n, i), LockedAfter(n, i),
                         [ipaddr EXCEPT ![i] = n], Evicted(i, n))
    BY <1>3
  <2>2. n \in LLAddrs \union {LLNull} /\ n \in {n, LLNull}
    BY DEF Motes
  <2>3. PICK m \in [Tables -> SUBSET Slots] : m = UsedAfter("neighbors", n, i)
    BY <2>2, KeyAllocated
  <2>4. PICK l \in [Tables -> SUBSET Slots] : l = LockedAfter(n, i)
    BY <2>2, KeyAllocated
  <2>5. /\ i \in Slots /\ Evicted(i, n) = {}
        /\ m["neighbors"] = used["neighbors"] \union {i} /\ m["routes"] = used["routes"]
        /\ l["neighbors"] \subseteq locked["neighbors"] /\ l["routes"] = locked["routes"]
        /\ \A j \in used["routes"] : LLAfter(n, i)[j] = lladdr[j]
    <3>1. /\ i \in Slots /\ Evicted(i, n) = {}
          /\ \A j \in used["routes"] : LLAfter(n, i)[j] = lladdr[j]
      BY <2>2, KeyAllocated
    <3>2. m["neighbors"] = used["neighbors"] \union {i} /\ m["routes"] = used["routes"]
      BY <2>2, <2>3, KeyAllocated
    <3>3. l["neighbors"] \subseteq locked["neighbors"] /\ l["routes"] = locked["routes"]
      BY <2>2, <2>4, KeyAllocated
    <3> QED
      BY <3>1, <3>2, <3>3
  <2>6. PICK a : a = [ipaddr EXCEPT ![i] = n]
    OBVIOUS
  <2>7. RplAddRoute(d, n, i, m, l, a, {})
    BY <2>1, <2>3, <2>4, <2>5, <2>6
  <2>8. /\ \A j \in used["routes"] : lladdr'[j] = lladdr[j]
        /\ lladdr' \in [Slots -> LLAddrs \union {LLNull, Free}]
        /\ lladdr'[i] = n
    BY <1>1, <2>1, <2>2, <2>5 DEF NbrAddAt, LLAfter
  <2>9. \A j \in m["neighbors"] : a[j] = n => lladdr'[j] \in {LLNull, n}
    BY <1>1, <1>3, <2>5, <2>6, <2>8 DEF Nbr
  <2>10. /\ RouteInv'
         /\ routelist' \subseteq RouteMem /\ route' \in [RouteMem -> Route]
         /\ \A s \in routelist' : route'[s].dest \in Dests /\ route'[s].lifetime \in 1 .. Infinite
         /\ route_list' \in [Slots -> SUBSET RouteMem]
         /\ used' \in [Tables -> SUBSET Slots] /\ locked' \in [Tables -> SUBSET Slots]
         /\ used'["neighbors"] = m["neighbors"] /\ locked'["neighbors"] = l["neighbors"]
         /\ used'["routes"] \subseteq used["routes"] \union {i}
         /\ locked'["routes"] = used'["routes"]
    BY <2>5, <2>7, <2>8, <2>9, RplAddRouteInv
  <2>11. TableInv'
    BY <1>3, <2>1, <2>2, <2>5, <2>10, KeyTaken
  <2>12. ipaddr' \in [Slots -> Motes \union {Null}]
    BY <1>1, <2>1 DEF NbrAddAt
  <2> QED
    BY <2>8, <2>10, <2>11, <2>12 DEF Inv, Typed, NbrTableTypeOK
<1> QED
  BY <1>2, <1>3 DEF DaoInput

\* What the tables depend on stays as it is when routes only age.
LEMMA NoPathDaoInv ==
  ASSUME Inv, NEW n \in Motes, NEW d \in Dests, NoPathDao(n, d)
  PROVE  Inv'
<1>1. PICK r \in Lookup(d) :
        route' = [route EXCEPT ![r].nopath = TRUE, ![r].lifetime = NoPathDelay]
  BY DEF NoPathDao
<1>2. UNCHANGED <<nbrTableVars, ipaddr, routelist, route_list>>
  BY DEF NoPathDao
<1>3. r \in routelist /\ routelist \subseteq RouteMem /\ route \in [RouteMem -> Route]
  BY LookupOne DEF Inv, Typed, RouteInv
<1>4. NoPathDelay \in 1 .. Infinite /\ NoPathDelay \in 0 .. Infinite
  BY LifetimeAssumption
<1>5. /\ route' \in [RouteMem -> Route]
      /\ \A s \in RouteMem :
           /\ route'[s].dest = route[s].dest /\ route'[s].slot = route[s].slot
           /\ route'[s].from = route[s].from /\ route'[s].dead = route[s].dead
           /\ route'[s].lifetime = IF s = r THEN NoPathDelay ELSE route[s].lifetime
  BY <1>1, <1>3, <1>4 DEF Route
<1>6. \A s \in routelist : s \in RouteMem
  BY <1>3
<1>7. Typed'
  BY <1>2, <1>4, <1>5, <1>6 DEF Inv, Typed, NbrTableTypeOK, nbrTableVars
<1>8. TableInv'
  BY <1>2, <1>3, TablesKept DEF Inv, RouteInv, Linked, nbrTableVars
<1>9. Linked'
  <2>1. \A s \in RouteMem, i \in Slots :
          s \in route_list'[i] <=> s \in routelist' /\ route'[s].slot = i
    BY <1>2, <1>5 DEF Inv, RouteInv, Linked
  <2>2. /\ used'["routes"] = {i \in Slots : route_list'[i] # {}}
        /\ locked'["routes"] = used'["routes"]
    BY <1>2 DEF Inv, RouteInv, Linked, nbrTableVars
  <2> QED
    BY <2>1, <2>2 DEF Linked
<1>10. OneRoute'
  BY <1>2, <1>5, <1>6 DEF Inv, RouteInv, OneRoute
<1>11. ViaSender'
  BY <1>2, <1>5, <1>6 DEF Inv, RouteInv, ViaSender, nbrTableVars
<1> QED
  BY <1>7, <1>8, <1>9, <1>10, <1>11 DEF Inv, RouteInv

LEMMA PurgeRoutesInv ==
  ASSUME Inv, PurgeRoutes
  PROVE  Inv'
<1> DEFINE aged == [r \in RouteMem |-> [route[r] EXCEPT !.lifetime = Aged(@)]]
           dead == {r \in routelist : aged[r].lifetime = 0}
<1>1. RouteRm(dead, aged) /\ UNCHANGED <<lladdr, ipaddr>>
  BY DEF PurgeRoutes
<1>2. route \in [RouteMem -> Route] /\ routelist \subseteq RouteMem
  BY DEF Inv, Typed
<1>3. \A life \in 0 .. Infinite : Aged(life) \in 0 .. Infinite
  BY LifetimeAssumption DEF Aged
<1>4. \A r \in RouteMem :
        /\ aged[r] \in Route
        /\ aged[r].dest = route[r].dest /\ aged[r].slot = route[r].slot
        /\ aged[r].from = route[r].from /\ aged[r].dead = route[r].dead
        /\ aged[r].lifetime \in 0 .. Infinite
  BY <1>2, <1>3 DEF Route
<1>5. aged \in [RouteMem -> Route]
  BY <1>4
<1> HIDE DEF aged
<1>6. \A r \in routelist \ dead : aged[r].lifetime \in 1 .. Infinite
  <2>1. \A life \in 0 .. Infinite : life # 0 => life \in 1 .. Infinite
    BY LifetimeAssumption
  <2> QED
    BY <1>2, <1>4, <2>1
<1>7. dead \in SUBSET routelist
  OBVIOUS
<1> HIDE DEF dead
<1> QED
  BY <1>1, <1>4, <1>5, <1>6, <1>7, RouteRmInv

\* tcpip_ipv6_output() and the web server remove what the lookup finds.
LEMMA LookupRemovedInv ==
  ASSUME Inv, NEW d \in Dests, RouteRm(Lookup(d), route), UNCHANGED <<lladdr, ipaddr>>
  PROVE  Inv'
<1>1. Lookup(d) \in SUBSET routelist
  BY LookupOne DEF Inv, RouteInv
<1>2. /\ route \in [RouteMem -> Route]
      /\ \A r \in routelist \ Lookup(d) : route[r].lifetime \in 1 .. Infinite
  BY DEF Inv, Typed
<1> QED
  BY <1>1, <1>2, RouteRmInv

LEMMA AddStaticInv ==
  ASSUME Inv, NEW n \in Motes, NEW d \in Dests, AddStatic(d, n)
  PROVE  Inv'
<1> DEFINE old == Lookup(d)
           r == CHOOSE b \in RouteMem : b \notin routelist \ old
           new == [NoRoute EXCEPT !.dest = d, !.nexthop = n, !.lifetime = Infinite]
<1>1. /\ old \in SUBSET routelist
      /\ \A s \in routelist : SameAddress(route[s].dest, d) => s \in old
  BY LookupOne DEF Inv, RouteInv
<1>2. UNCHANGED <<lladdr, ipaddr>>
  BY DEF AddStatic
<1>3. /\ used \in [Tables -> SUBSET Slots] /\ locked \in [Tables -> SUBSET Slots]
      /\ locked["routes"] = used["routes"] /\ used["routes"] \subseteq Slots
      /\ route_list \in [Slots -> SUBSET RouteMem]
  BY TablesAre DEF Inv, Typed, NbrTableTypeOK, RouteInv, Linked
<1>4. CASE RouteFull(old)
  <2>1. UNCHANGED <<routeVars, used, locked>>
    BY <1>4 DEF AddStatic
  <2>2. RouteInv'
    BY <1>2, <2>1, RoutesKept
  <2>3. TableInv'
    BY <1>2, <1>3, <2>1, TablesKept
  <2> QED
    BY <1>2, <2>1, <2>2, <2>3 DEF Inv, Typed, NbrTableTypeOK, routeVars
<1>5. CASE ~RouteFull(old)
  <2>1. r \in RouteMem /\ r \notin routelist \ old
    BY <1>5 DEF RouteFull
  <2>2. /\ new \in Route /\ new.dest = d /\ new.slot = Null
        /\ new.lifetime = Infinite /\ new.from = Null
    <3>1. Infinite \in 0 .. Infinite
      BY LifetimeAssumption
    <3> QED
      BY <3>1 DEF NoRoute, Route
  <2>3. new.lifetime \in 1 .. Infinite
    BY <2>2, LifetimeAssumption
  <2>4. /\ routelist' = (routelist \ old) \union {r}
        /\ route' = [b \in RouteMem |-> IF b = r THEN new
                                        ELSE IF b \in old THEN NoRoute ELSE route[b]]
        /\ route_list' = LeftOf(old)
        /\ used' = Without(used, "routes", Unused(old))
        /\ locked' = Without(locked, "routes", Unused(old))
    BY <1>5 DEF AddStatic
  <2> HIDE DEF r, new, old
  <2>5. LeftOf(old) \in [Slots -> SUBSET RouteMem]
    BY <1>3 DEF LeftOf
  <2>6. /\ used' \in [Tables -> SUBSET Slots] /\ locked' \in [Tables -> SUBSET Slots]
        /\ used'["neighbors"] = used["neighbors"] /\ locked'["neighbors"] = locked["neighbors"]
        /\ used'["routes"] = used["routes"] \ Unused(old)
        /\ locked'["routes"] = used["routes"] \ Unused(old)
    BY <1>3, <2>4, TablesAre DEF Without
  <2>7. \A j \in Slots : j # Null
    BY NullAssumption
  <2>8. Replaces(d, Null, old, r, new)
    <3>1. \A j \in Slots : route_list'[j] = LeftOf(old)[j] \union (IF j = Null THEN {r} ELSE {})
      BY <2>4, <2>7
    <3>2. \A j \in Slots : j \in used'["routes"] <=>
                              j \in used["routes"] \ Unused(old) \/ j = Null
      BY <2>6, <2>7
    <3> QED
      BY <1>1, <1>2, <2>1, <2>2, <2>3, <2>4, <2>5, <2>6, <3>1, <3>2 DEF Replaces
  <2>9. /\ RouteInv'
        /\ routelist' \subseteq RouteMem /\ route' \in [RouteMem -> Route]
        /\ \A s \in routelist' : route'[s].dest \in Dests /\ route'[s].lifetime \in 1 .. Infinite
    <3>1. Null \in Slots \union {Null}
      OBVIOUS
    <3> QED
      BY <1>1, <2>1, <2>2, <2>8, <3>1, RouteReplaced
  <2>10. TableInv'
    BY <1>2, <1>3, <2>6, TablesKept
  <2> QED
    BY <1>2, <2>4, <2>5, <2>6, <2>9, <2>10 DEF Inv, Typed, NbrTableTypeOK
<1> QED
  BY <1>4, <1>5

-----------------------------------------------------------------------------
(* The invariant.                                                          *)

LEMMA InitInv == Init => Inv
<1> SUFFICES ASSUME Init PROVE Inv
  OBVIOUS
<1>1. /\ lladdr = [i \in Slots |-> Free]
      /\ used = [t \in Tables |-> {}] /\ locked = [t \in Tables |-> {}]
      /\ ipaddr = [i \in Slots |-> Null] /\ routelist = {}
      /\ route = [r \in RouteMem |-> NoRoute] /\ route_list = [i \in Slots |-> {}]
  BY DEF Init, NbrTableInit
<1>2. used["neighbors"] = {} /\ used["routes"] = {} /\ locked["routes"] = {}
  BY <1>1, TablesAre
<1>3. NoRoute \in Route
  BY LifetimeAssumption DEF NoRoute, Route
<1>4. Typed
  BY <1>1, <1>3 DEF Typed, NbrTableTypeOK
<1>5. TableInv
  BY <1>1, <1>2 DEF TableInv, KeysSound, OneNeighbor, KeysKnown
<1>6. RouteInv
  <2>1. Linked
    BY <1>1, <1>2 DEF Linked
  <2> QED
    BY <1>1, <2>1 DEF RouteInv, OneRoute, ViaSender
<1> QED
  BY <1>4, <1>5, <1>6 DEF Inv

LEMMA NextInv == Inv /\ [Next]_vars => Inv'
<1> SUFFICES ASSUME Inv, [Next]_vars PROVE Inv'
  OBVIOUS
<1>1. ASSUME NEW n \in Motes, NbrHeard(n) PROVE Inv'
  <2>1. Nbr(n) = {} /\ (NbrAdd(n, n, {}) \/ NbrAdd(n, n, Removable))
    BY <1>1 DEF NbrHeard
  <2>2. n \in {n, LLNull} /\ {} \in SUBSET Removable /\ Removable \in SUBSET Removable
    OBVIOUS
  <2> QED
    BY <2>1, <2>2, NbrAddInv
<1>2. ASSUME NEW n \in Motes, NbrUnresolved(n) PROVE Inv'
  <2>1. Nbr(n) = {} /\ NbrAdd(n, LLNull, {})
    BY <1>2 DEF NbrUnresolved
  <2>2. LLNull \in {n, LLNull} /\ {} \in SUBSET Removable
    OBVIOUS
  <2> QED
    BY <2>1, <2>2, NbrAddInv
<1>3. ASSUME NEW n \in Motes, NbrResolved(n) PROVE Inv'
  BY <1>3, NbrResolvedInv
<1>4. ASSUME NEW n \in Motes, NbrRm(n) PROVE Inv'
  BY <1>4, NbrRmInv
<1>5. ASSUME NEW n \in Motes, NEW d \in Dests, DaoInput(n, d) PROVE Inv'
  BY <1>5, DaoInputInv
<1>6. ASSUME NEW n \in Motes, NEW d \in Dests, NoPathDao(n, d) PROVE Inv'
  BY <1>6, NoPathDaoInv
<1>7. ASSUME NEW n \in Motes, NEW d \in Dests, AddStatic(d, n) PROVE Inv'
  BY <1>7, AddStaticInv
<1>8. ASSUME NEW d \in Dests, Output(d) \/ RemoveRoute(d) PROVE Inv'
  <2>1. RouteRm(Lookup(d), route) /\ UNCHANGED <<lladdr, ipaddr>>
    BY <1>8 DEF Output, RemoveRoute
  <2> QED
    BY <2>1, LookupRemovedInv
<1>9. ASSUME PurgeRoutes PROVE Inv'
  BY <1>9, PurgeRoutesInv
<1>10. ASSUME UNCHANGED vars PROVE Inv'
  <2>1. UNCHANGED <<lladdr, used, locked, ipaddr, routelist, route, route_list>>
    BY <1>10 DEF vars, nbrTableVars, routeVars
  <2>2. Typed'
    BY <2>1 DEF Inv, Typed, NbrTableTypeOK
  <2>3. TableInv'
    BY <2>1, TablesKept DEF Inv, RouteInv, Linked
  <2>4. RouteInv'
    BY <2>1, RoutesKept DEF routeVars
  <2> QED
    BY <2>2, <2>3, <2>4 DEF Inv
<1> QED
  BY <1>1, <1>2, <1>3, <1>4, <1>5, <1>6, <1>7, <1>8, <1>9, <1>10 DEF Next

THEOREM Invariance == Spec => []Inv
  BY InitInv, NextInv, PTL DEF Spec

\* The route list, the lists of the neighbors and the keys' maps and locks tell
\* the same routes, whatever order uip_ds6_route_add() and uip_ds6_route_rm(),
\* the periodic timer and the policy of the neighbor table come in.
THEOREM TablesAgree == Spec => []RouteTablesAgree
<1>1. Inv => RouteTablesAgree
  <2> SUFFICES ASSUME Inv PROVE RouteTablesAgree
    OBVIOUS
  <2>1. TypeOK
    BY DEF TypeOK, Inv, Typed, Route
  <2> QED
    BY <2>1 DEF Inv, RouteInv, Linked, RouteTablesAgree
<1> QED
  BY <1>1, Invariance, PTL

\* uip_ds6_nbr_lookup(), uip_ds6_route_lookup() for a route's own prefix and
\* index_from_lladdr() never have two answers to choose from.
THEOREM Unambiguous == Spec => []LookupsUnambiguous
<1>1. Inv => LookupsUnambiguous
  BY DEF Inv, TableInv, RouteInv, OneNeighbor, OneRoute, LookupsUnambiguous
<1> QED
  BY <1>1, Invariance, PTL

\* What uip_ds6_route_nexthop() returns is the mote whose DAO was accepted last
\* for the route, through every reuse of its neighbor's key.
THEOREM FollowsDao == Spec => []RouteFollowsDao
<1>1. Inv => RouteFollowsDao
  <2> SUFFICES ASSUME Inv, NEW r \in routelist, route[r].slot # Null,
                      lladdr[route[r].slot] # LLNull, ~route[r].dead,
                      NEW h \in NextHop(r, used, ipaddr)
               PROVE  h = route[r].from
    BY DEF RouteFollowsDao
  <2>1. route[r].slot \in used["neighbors"] /\ h = ipaddr[route[r].slot]
    BY DEF NextHop
  <2>2. lladdr[route[r].slot] = h
    BY <2>1 DEF Inv, TableInv, KeysKnown
  <2> QED
    BY <2>2 DEF Inv, RouteInv, ViaSender
<1> QED
  BY <1>1, Invariance, PTL

\* nbr_table_add_lladdr() never gives the key of a neighbor that has routes to
\* another one: its link-layer address stays while a route hangs on it.
KeysWithRoutesStay == [][\A i \in used["routes"] : lladdr'[i] = lladdr[i]]_vars
THEOREM KeysStay == Spec => KeysWithRoutesStay
<1>1. Inv /\ [Next]_vars => [\A i \in used["routes"] : lladdr'[i] = lladdr[i]]_vars
  <2> SUFFICES ASSUME Inv, Next, NEW j \in used["routes"] PROVE lladdr'[j] = lladdr[j]
    OBVIOUS
  <2>1. ASSUME NEW n \in Motes, NEW ll \in LLAddrs \union {LLNull},
               NEW removable \in SUBSET Removable, NEW i \in Allocated(ll, removable),
               lladdr' = LLAfter(ll, i)
        PROVE  lladdr'[j] = lladdr[j]
    BY <2>1, KeyAllocated
  <2>2. ASSUME NEW n \in Motes, NbrHeard(n) \/ NbrUnresolved(n) PROVE lladdr'[j] = lladdr[j]
    <3>1. n \in LLAddrs \union {LLNull} /\ LLNull \in LLAddrs \union {LLNull}
      BY DEF Motes
    <3>2. PICK ll \in LLAddrs \union {LLNull}, removable \in SUBSET Removable :
            NbrAdd(n, ll, removable)
      BY <2>2, <3>1 DEF NbrHeard, NbrUnresolved
    <3> QED
      BY <2>1, <3>2 DEF NbrAdd, NbrAddAt
  <2>3. ASSUME NEW n \in Motes, NbrResolved(n) PROVE lladdr'[j] = lladdr[j]
    <3>1. n \in LLAddrs \union {LLNull} /\ {} \in SUBSET Removable
      BY DEF Motes
    <3> QED
      BY <2>1, <2>3, <3>1 DEF NbrResolved
  <2>4. ASSUME NEW n \in Motes, NEW d \in Dests, DaoInput(n, d) PROVE lladdr'[j] = lladdr[j]
    <3>1. n \in LLAddrs \union {LLNull} /\ Removable \in SUBSET Removable
      BY DEF Motes
    <3> QED
      BY <2>1, <2>4, <3>1 DEF DaoInput, NbrAddAt
  <2>5. ASSUME UNCHANGED lladdr PROVE lladdr'[j] = lladdr[j]
    BY <2>5
  <2> QED
    BY <2>2, <2>3, <2>4, <2>5
       DEF Next, NbrRm, NoPathDao, AddStatic, Output, RemoveRoute, PurgeRoutes, nbrTableVars
<1> QED
  BY <1>1, Invariance, PTL DEF Spec, KeysWithRoutesStay

-----------------------------------------------------------------------------
(* What a DAO costs.                                                       *)

LEMMA RplAddRouteCosts ==
  ASSUME Inv, NEW n \in Motes, NEW d \in Dests, NEW i \in Slots, NEW m, NEW l, NEW a,
         RplAddRoute(d, n, i, m, l, a, {})
  PROVE  \/ Reached \subseteq Reached'
         \/ /\ d \in Reached'
            /\ \E x \in Covering(d) : Reached \subseteq Reached' \union {x}
<1> DEFINE old == Lookup(d)
           hops == UNION {NextHop(x, m, a) : x \in old}
<1>1. \A x, y \in old : x = y
  BY LookupOne DEF Inv, RouteInv
<1>2. \A x \in old : route[x].dest \in Covering(d)
  BY LookupOne DEF Inv, RouteInv
<1>3. routelist \subseteq RouteMem /\ route \in [RouteMem -> Route]
  BY DEF Inv, Typed
<1>4. LookupIn(d, routelist \ {}) = old /\ old \union {} = old
  <2>1. routelist \ {} = routelist
    OBVIOUS
  <2> QED
    BY <2>1 DEF Lookup
<1>5. \/ ~RouteFull(old) /\ RouteAdd(d, n, i, old, m, l)
      \/ UNCHANGED routeVars
      \/ RoutesWithout({}, Renewed(old, n, hops = {}))
  BY <1>4 DEF RplAddRoute, Renewed
<1> HIDE DEF old, hops
<1>6. CASE ~RouteFull(old) /\ RouteAdd(d, n, i, old, m, l)
  <2> DEFINE b == CHOOSE x \in RouteMem : x \notin routelist \ old
             new == [NoRoute EXCEPT !.dest = d, !.slot = i,
                                    !.lifetime = DaoLifetime, !.from = n]
  <2>1. b \in RouteMem /\ b \notin routelist \ old
    BY <1>6 DEF RouteFull
  <2>2. new.dest = d
    BY DEF NoRoute
  <2>3. /\ routelist' = (routelist \ old) \union {b}
        /\ route' = [x \in RouteMem |-> IF x = b THEN new
                                        ELSE IF x \in old THEN NoRoute ELSE route[x]]
    BY <1>6 DEF RouteAdd
  <2> HIDE DEF b, new
  <2>4. d \in Reached'
    BY <2>1, <2>2, <2>3 DEF Reached
  <2>5. \A r \in routelist \ old : r \in routelist' /\ route'[r] = route[r]
    BY <1>3, <2>1, <2>3
  <2>6. \A r \in routelist \ old : route[r].dest \in Reached'
    BY <2>5 DEF Reached
  <2>7. CASE old = {}
    BY <2>6, <2>7 DEF Reached
  <2>8. CASE old # {}
    <3>1. PICK s \in old : TRUE
      BY <2>8
    <3>2. \A r \in routelist : r \in routelist \ old \/ r = s
      BY <1>1, <3>1
    <3>3. Reached \subseteq Reached' \union {route[s].dest}
      BY <2>6, <3>2 DEF Reached
    <3> QED
      BY <1>2, <2>4, <3>1, <3>3
  <2> QED
    BY <2>7, <2>8
<1>7. CASE UNCHANGED routeVars
  BY <1>7 DEF routeVars, Reached
<1>8. CASE RoutesWithout({}, Renewed(old, n, hops = {}))
  <2> DEFINE gone == hops = {}
             renewed == Renewed(old, n, gone)
  <2>1. \A r \in routelist : renewed[r].dest = route[r].dest
    BY <1>3 DEF Renewed, Route
  <2> HIDE DEF renewed
  <2>2. RoutesWithout({}, renewed)
    BY <1>8 DEF renewed
  <2>3. \A r \in routelist : r \in routelist' /\ route'[r] = renewed[r]
    BY <1>3, <2>2 DEF RoutesWithout
  <2> QED
    BY <2>1, <2>3 DEF Reached
<1> QED
  BY <1>5, <1>6, <1>7, <1>8

\* A DAO costs one destination its route at most, however prefixes are nested, and
\* only to give it to the announced one: rpl_add_route() takes the longest prefix that
\* its lookup finds for the destination's own route, and replaces it.
THEOREM DaoCosts == Spec => DaoCostsOneMatch
<1> DEFINE Cost(d) == \/ Reached \subseteq Reached'
                      \/ /\ d \in Reached'
                         /\ \E x \in Covering(d) : Reached \subseteq Reached' \union {x}
<1>1. ASSUME Inv, NEW n \in Motes, NEW d \in Dests, DaoInput(n, d)
      PROVE  Cost(d)
  <2>1. CASE \E i \in Nbr(n) : RplAddRoute(d, n, i, used, locked, ipaddr, {})
    <3>1. PICK i \in Nbr(n) : RplAddRoute(d, n, i, used, locked, ipaddr, {})
      BY <2>1
    <3>2. i \in Slots
      BY <1>1, TablesAre DEF Nbr, Inv, Typed, NbrTableTypeOK
    <3> QED
      BY <1>1, <3>1, <3>2, RplAddRouteCosts
  <2>2. CASE \E i \in Allocated(n, Removable) :
               RplAddRoute(d, n, i, UsedAfter("neighbors", n, i), LockedAfter(n, i),
                           [ipaddr EXCEPT ![i] = n], Evicted(i, n))
    <3>1. PICK i \in Allocated(n, Removable) :
               RplAddRoute(d, n, i, UsedAfter("neighbors", n, i), LockedAfter(n, i),
                           [ipaddr EXCEPT ![i] = n], Evicted(i, n))
      BY <2>2
    <3>2. n \in LLAddrs \union {LLNull} /\ Removable \in SUBSET Removable
      BY DEF Motes
    <3>3. i \in Slots /\ Evicted(i, n) = {}
      BY <1>1, <3>2, KeyAllocated
    <3>4. RplAddRoute(d, n, i, UsedAfter("neighbors", n, i), LockedAfter(n, i),
                      [ipaddr EXCEPT ![i] = n], {})
      BY <3>1, <3>3
    <3> QED
      BY <1>1, <3>3, <3>4, RplAddRouteCosts
  <2> QED
    BY <1>1, <2>1, <2>2 DEF DaoInput
<1> DEFINE Costs ==
             \/ Reached \subseteq Reached'
             \/ \A n \in Motes, d \in Dests : DaoInput(n, d) =>
                  /\ d \in Reached'
                  /\ \E x \in Covering(d) : Reached \subseteq Reached' \union {x}
<1>2. Inv /\ [Next]_vars => [Costs]_vars
  BY <1>1
<1>3. Spec => [][Costs]_vars
  BY <1>2, Invariance, PTL DEF Spec
<1> QED
  BY <1>3 DEF DaoCostsOneMatch

\* Where no prefix matches the address of another one, as when routes lead to hosts,
\* a DAO costs no other destination its route: neither the neighbor that has to
\* go for the sender nor a full route table does.
THEOREM DaoSpares ==
  ASSUME \A d \in Dests : Covering(d) = {d}
  PROVE  Spec => DaoSparesOthers
<1>1. [\/ Reached \subseteq Reached'
       \/ \A n \in Motes, d \in Dests : DaoInput(n, d) =>
            /\ d \in Reached'
            /\ \E x \in Covering(d) : Reached \subseteq Reached' \union {x}]_vars
      => [\A n \in Motes, d \in Dests : DaoInput(n, d) => Reached \subseteq Reached']_vars
  <2>1. \A d \in Dests : Covering(d) = {d}
    OBVIOUS
  <2> QED
    BY <2>1
<1> QED
  BY <1>1, DaoCosts, PTL DEF DaoCostsOneMatch, DaoSparesOthers
=============================================================================
