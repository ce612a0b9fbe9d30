--------------------------------- MODULE Routes ---------------------------------
(***************************************************************************)
(* The routes of the border router in storing mode: uip-ds6-route.c over   *)
(* the neighbors of uip-ds6-nbr.c and the keys of nbr-table.c, with what   *)
(* RPL (rpl-icmp6.c, rpl.c), tcpip_ipv6_output() and the web server do to  *)
(* them at the root of the DODAG.                                          *)
(*                                                                         *)
(* A mote's IPv6 address and its link-layer address are both the mote      *)
(* here; one address per neighbor suffices.  routelist is a set: no build  *)
(* defines UIP_DS6_ROUTE_REMOVE_LEAST_RECENTLY_USED, so its order tells    *)
(* nothing.  Lists of at most one element stand for pointers that may be   *)
(* NULL.                                                                   *)
(***************************************************************************)
EXTENDS NbrTable

CONSTANTS
  Dests,        \* prefixes that routes lead to
  Covering(_),  \* the prefixes that the address of another one matches
  Length(_),    \* of a prefix, in bytes
  RouteMem,     \* routememb: UIP_DS6_ROUTE_NB blocks
  DaoLifetime,  \* of a DAO, in rounds of the periodic timer
  NoPathDelay,  \* RPL_NOPATH_REMOVAL_DELAY, likewise
  Infinite,     \* RPL_ROUTE_INFINITE_LIFETIME
  Null

ASSUME RouteMemAssumption == IsFiniteSet(RouteMem)
ASSUME NullAssumption == Null \notin RouteMem \union Slots \union LLAddrs \union Dests
\* The address of a prefix, as P:: of P::/56, matches the prefix itself, those around
\* it, and narrower ones that have the same address, as P::/64 has.  The last byte of
\* that address that is not zero lies in those, but not in one around it whose
\* address is another one.
SameAddress(x, y) == x \in Covering(y) /\ y \in Covering(x)
ASSUME CoveringAssumption == \A d \in Dests :
  /\ d \in Covering(d) /\ Covering(d) \subseteq Dests
  /\ Length(d) \in Nat
  /\ \A x, y \in Covering(d) : Length(x) = Length(y) => x = y
  /\ \A x, y \in Covering(d) :
       SameAddress(x, d) /\ ~SameAddress(y, d) => Length(y) < Length(x)
  /\ \A x \in Covering(d) : SameAddress(x, d) => Covering(x) = Covering(d)
ASSUME LifetimeAssumption ==
  /\ DaoLifetime \in Nat \ {0} /\ NoPathDelay \in 1 .. DaoLifetime
  /\ Infinite \in Nat /\ Infinite > DaoLifetime
ASSUME TablesAssumption == Tables = {"neighbors", "routes"}

Motes == LLAddrs

VARIABLES
  ipaddr,       \* of the neighbor, for the items of ds6_neighbors
  routelist,    \* the routes that are in use
  route,        \* what each block holds; slot is neighbor_routes, NULL if static
  route_list    \* routes->route_list, for the items of nbr_routes

routeVars == <<routelist, route, route_list>>
vars == <<nbrTableVars, ipaddr, routeVars>>

\* from and dead are history: who sent the last DAO that was accepted for the
\* route, and whether it met a next hop that was no neighbor any more.
NoRoute == [dest |-> Null, slot |-> Null, nexthop |-> Null, lifetime |-> 0,
            nopath |-> FALSE, from |-> Null, dead |-> FALSE]

Init ==
  /\ NbrTableInit
  /\ ipaddr = [i \in Slots |-> Null]
  /\ routelist = {}
  /\ route = [r \in RouteMem |-> NoRoute]
  /\ route_list = [i \in Slots |-> {}]

-----------------------------------------------------------------------------
(* Neighbors.                                                              *)

\* uip_ds6_nbr_lookup()
Nbr(n) == {i \in used["neighbors"] : ipaddr[i] = n}

\* update_nbr(): any neighbor that is not a next hop may come out as the worst;
\* the root has no parents.
Removable_NextHops == used["neighbors"]
Removable == used["neighbors"] \ used["routes"]

\* uip_ds6_nbr_add() with the key it gets.
NbrAddAt(n, ll, i) ==
  /\ lladdr' = LLAfter(ll, i)
  /\ ipaddr' = [ipaddr EXCEPT ![i] = n]

\* rm_routelist_callback(): the routes through the neighbor that has to go.
LeftOf(dead) == [i \in Slots |-> route_list[i] \ dead]
RoutesWithout(dead, aged) ==
  /\ routelist' = routelist \ dead
  /\ route' = [r \in RouteMem |-> IF r \in dead THEN NoRoute ELSE aged[r]]
  /\ route_list' = LeftOf(dead)
Evicted(i, ll) == IF Evicts(i, ll) THEN route_list[i] ELSE {}

NbrAdd(n, ll, removable) ==
  \E i \in Allocated(ll, removable) :
    /\ NbrAddAt(n, ll, i)
    /\ used' = UsedAfter("neighbors", ll, i)
    /\ locked' = LockedAfter(ll, i)
    /\ RoutesWithout(Evicted(i, ll), route)

\* A neighbor is heard (ND, a DIO or a DIS); only RPL has others removed.
NbrHeard(n) ==
  /\ Nbr(n) = {}
  /\ NbrAdd(n, n, {}) \/ NbrAdd(n, n, Removable)

\* tcpip_ipv6_output() to a neighbor that is not known: an INCOMPLETE one takes
\* the item without an address, whoever had it.
NbrUnresolved(n) ==
  /\ Nbr(n) = {}
  /\ NbrAdd(n, LLNull, {})

\* uip_ds6_nbr_update_lladdr(): the neighbor leaves its item and takes that of
\* its address, or is lost when no key is left.
NbrResolved(n) ==
  /\ \E old \in Nbr(n) :
       /\ lladdr[old] = LLNull
       /\ \/ \E i \in Allocated(n, {}) :
               /\ lladdr' = LLAfter(n, i)
               /\ ipaddr' = [ipaddr EXCEPT ![old] = Null, ![i] = n]
               /\ used' = [used EXCEPT !["neighbors"] = (@ \ {old}) \union {i}]
          \/ /\ Allocated(n, {}) = {}
             /\ ipaddr' = [ipaddr EXCEPT ![old] = Null]
             /\ used' = Without(used, "neighbors", {old})
             /\ UNCHANGED lladdr
       /\ locked' = Without(locked, "neighbors", {old})
  /\ UNCHANGED routeVars

\* uip_ds6_nbr_rm(): it did not answer, or the web server removes it.
NbrRm(n) ==
  /\ Nbr(n) # {}
  /\ used' = Without(used, "neighbors", Nbr(n))
  /\ locked' = Without(locked, "neighbors", Nbr(n))
  /\ ipaddr' = [i \in Slots |-> IF i \in Nbr(n) THEN Null ELSE ipaddr[i]]
  /\ UNCHANGED <<lladdr, routeVars>>

-----------------------------------------------------------------------------
(* Routes; m is used, and a is ipaddr, when the function is called.        *)

\* uip_ds6_route_nexthop()
NextHop(r, m, a) ==
  IF route[r].slot = Null THEN {route[r].nexthop}
  ELSE {a[i] : i \in {route[r].slot} \intersect m["neighbors"]}

\* uip_ds6_route_lookup() of the address of d: the longest prefix that it matches.
LookupIn_Shortest(d, routes) ==
  LET matching == {r \in routes : route[r].dest \in Covering(d)}
  IN  {r \in matching :
         \A s \in matching : Length(route[s].dest) >= Length(route[r].dest)}
LookupIn(d, routes) ==
  LET matching == {r \in routes : route[r].dest \in Covering(d)}
  IN  {r \in matching :
         \A s \in matching : Length(route[s].dest) <= Length(route[r].dest)}
Lookup(d) == LookupIn(d, routelist)

\* uip_ds6_route_rm(), of several routes: the last one through a neighbor takes
\* its item and its lock with it.
Unused_Never(dead) == {}
Unused(dead) == {i \in Slots : route_list[i] \intersect dead # {} /\ LeftOf(dead)[i] = {}}
RouteRm(dead, aged) ==
  /\ RoutesWithout(dead, aged)
  /\ used' = Without(used, "routes", Unused(dead))
  /\ locked' = Without(locked, "routes", Unused(dead))

\* uip_ds6_route_add(), and what rpl_add_route() and dao_input_storing() then
\* write into the route: old is what the lookup has found, i the key of n.
RouteAdd(d, n, i, old, m, l) ==
  LET r == CHOOSE b \in RouteMem : b \notin routelist \ old
  IN  /\ routelist' = (routelist \ old) \union {r}
      /\ route' = [b \in RouteMem |->
                     IF b = r THEN [NoRoute EXCEPT !.dest = d, !.slot = i,
                                      !.lifetime = DaoLifetime, !.from = n]
                     ELSE IF b \in old THEN NoRoute ELSE route[b]]
      /\ route_list' = [LeftOf(old) EXCEPT ![i] = @ \union {r}]
      /\ used' = [m EXCEPT !["routes"] = (@ \ Unused(old)) \union {i}]
      /\ locked' = [l EXCEPT !["routes"] = (@ \ Unused(old)) \union {i}]

\* rpl_add_route() for a DAO of n, whose neighbor is item i, when the routes in dead
\* have had to go for it: a route through n is
\* kept, and so is one whose next hop is no neighbor any more.
RouteFull(old) == RouteMem \subseteq routelist \ old
Keeps_Any(old, hops, n) == old # {}
Keeps(old, hops, n) == old # {} /\ hops \in {{}, {n}}
RplAddRoute(d, n, i, m, l, a, dead) ==
  LET old == LookupIn(d, routelist \ dead)
      hops == UNION {NextHop(r, m, a) : r \in old}
  IN  \/ /\ ~Keeps(old, hops, n) /\ ~RouteFull(old \union dead)
         /\ RouteAdd(d, n, i, old \union dead, m, l)
      \/ /\ ~Keeps(old, hops, n) /\ RouteFull(old \union dead)
         /\ used' = m /\ locked' = l
         /\ UNCHANGED routeVars
      \/ /\ Keeps(old, hops, n)
         /\ RoutesWithout(dead,
              [r \in RouteMem |->
                 IF r \notin old THEN route[r]
                 ELSE [route[r] EXCEPT !.lifetime = DaoLifetime, !.nopath = FALSE,
                                       !.from = n, !.dead = hops = {}]])
         /\ used' = m /\ locked' = l

-----------------------------------------------------------------------------
(* What uses them.                                                         *)

\* dao_input_storing(), a lifetime other than zero: the sender becomes a
\* neighbor, if there is room, and the target a route through it.
DaoInput(n, d) ==
  \/ /\ \E i \in Nbr(n) : RplAddRoute(d, n, i, used, locked, ipaddr, {})
     /\ UNCHANGED <<lladdr, ipaddr>>
  \/ /\ Nbr(n) = {}
     /\ \E i \in Allocated(n, Removable) :
          /\ NbrAddAt(n, n, i)
          /\ RplAddRoute(d, n, i, UsedAfter("neighbors", n, i), LockedAfter(n, i),
                         [ipaddr EXCEPT ![i] = n], Evicted(i, n))

\* dao_input_storing(), a lifetime of zero.
NoPathDao(n, d) ==
  /\ \E r \in Lookup(d) :
       /\ ~route[r].nopath /\ route[r].dest = d
       /\ NextHop(r, used, ipaddr) = {n}
       /\ route' = [route EXCEPT ![r].nopath = TRUE, ![r].lifetime = NoPathDelay]
  /\ UNCHANGED <<nbrTableVars, ipaddr, routelist, route_list>>

\* rpl_purge_routes(), every second.
Aged(life) == IF life \in {0, Infinite} THEN life ELSE life - 1
PurgeRoutes ==
  LET aged == [r \in RouteMem |-> [route[r] EXCEPT !.lifetime = Aged(@)]]
  IN  RouteRm({r \in routelist : aged[r].lifetime = 0}, aged)
  /\ UNCHANGED <<lladdr, ipaddr>>

\* tcpip_ipv6_output(), where a route is found: one whose next hop is not a
\* neighbor any more is removed, and the packet with it.
Output(d) ==
  /\ Lookup(d) # {}
  /\ UNION {NextHop(r, used, ipaddr) : r \in Lookup(d)} = {}
  /\ RouteRm(Lookup(d), route)
  /\ UNCHANGED <<lladdr, ipaddr>>

\* uip_ds6_route_add_static(), from the configuration or the web server.
AddStatic(d, n) ==
  LET old == Lookup(d)
      r == CHOOSE b \in RouteMem : b \notin routelist \ old
  IN  /\ UNION {NextHop(x, used, ipaddr) : x \in old} # {n}
      /\ IF RouteFull(old) THEN UNCHANGED <<routeVars, used, locked>>
         ELSE /\ routelist' = (routelist \ old) \union {r}
              /\ route' = [b \in RouteMem |->
                             IF b = r THEN [NoRoute EXCEPT !.dest = d, !.nexthop = n,
                                                           !.lifetime = Infinite]
                             ELSE IF b \in old THEN NoRoute ELSE route[b]]
              /\ route_list' = LeftOf(old)
              /\ used' = Without(used, "routes", Unused(old))
              /\ locked' = Without(locked, "routes", Unused(old))
      /\ UNCHANGED <<lladdr, ipaddr>>

\* The web server, or a packet with the forwarding error flag, removes a route.
RemoveRoute(d) ==
  /\ Lookup(d) # {}
  /\ RouteRm(Lookup(d), route)
  /\ UNCHANGED <<lladdr, ipaddr>>

Next ==
  \/ \E n \in Motes :
       NbrHeard(n) \/ NbrUnresolved(n) \/ NbrResolved(n) \/ NbrRm(n)
  \/ \E n \in Motes, d \in Dests : DaoInput(n, d) \/ NoPathDao(n, d) \/ AddStatic(d, n)
  \/ \E d \in Dests : Output(d) \/ RemoveRoute(d)
  \/ PurgeRoutes

Spec == Init /\ [][Next]_vars

-----------------------------------------------------------------------------

TypeOK ==
  /\ NbrTableTypeOK
  /\ ipaddr \in [Slots -> Motes \union {Null}]
  /\ routelist \subseteq RouteMem
  /\ \A r \in routelist :
       /\ route[r].dest \in Dests
       /\ route[r].slot \in Slots \union {Null}
       /\ route[r].nexthop \in Motes \union {Null}
       /\ route[r].lifetime \in 1 .. Infinite
       /\ route[r].nopath \in BOOLEAN
  /\ route_list \in [Slots -> SUBSET RouteMem]

\* The route list and the lists of the neighbors hold the same routes, and a
\* neighbor's key is in use and locked for routes exactly as long as there is a
\* route through it: no freed route is linked, no lock is left behind.
RouteTablesAgree ==
  /\ TypeOK
  /\ \A r \in RouteMem, i \in Slots :
       r \in route_list[i] <=> r \in routelist /\ route[r].slot = i
  /\ used["routes"] = {i \in Slots : route_list[i] # {}}
  /\ locked["routes"] = used["routes"]

\* One key per link-layer address, one neighbor per address and one route per
\* address of a prefix, whichever messages have made them known and whatever other
\* prefixes are around it: lookups are unambiguous, and no route is added twice.
LookupsUnambiguous ==
  /\ KeysSound
  /\ \A i, j \in used["neighbors"] : ipaddr[i] = ipaddr[j] => i = j
  /\ \A r, s \in routelist : SameAddress(route[r].dest, route[s].dest) => r = s

\* A route leads where the last DAO that was accepted for it came from, or
\* nowhere, however its next hop's key was reused in the meantime; but for the
\* routes of a mote that sent its DAO before its address was resolved, which hang
\* on the item without an address, whoever has it next.
RouteFollowsDao ==
  \A r \in routelist :
    \/ route[r].slot = Null
    \/ lladdr[route[r].slot] = LLNull
    \/ route[r].dead
    \/ NextHop(r, used, ipaddr) \subseteq {route[r].from}

Reached == {route[r].dest : r \in routelist}

\* Where no prefix matches the address of another one, nothing but the destination's
\* own route is given up for a DAO: neither the neighbor that has to go nor a full
\* table costs another destination its route.
DaoSparesOthers ==
  [][\A n \in Motes, d \in Dests : DaoInput(n, d) => Reached \subseteq Reached']_vars

\* A DAO costs one destination its route at most, one that the announced address
\* matches, and only to give it to the announced one.
DaoCostsOneMatch ==
  [][\/ Reached \subseteq Reached'
     \/ \A n \in Motes, d \in Dests : DaoInput(n, d) =>
          /\ d \in Reached'
          /\ \E x \in Covering(d) : Reached \subseteq Reached' \union {x}]_vars
=============================================================================
