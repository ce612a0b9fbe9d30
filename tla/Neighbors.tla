-------------------------------- MODULE Neighbors --------------------------------
(***************************************************************************)
(* The neighbor cache: uip-ds6-nbr.c over nbr-table.c, with the packets    *)
(* that wait for an address to be resolved (uip-packetqueue.c) and those   *)
(* that change it: tcpip_ipv6_output(), the neighbor solicitations,        *)
(* advertisements and router solicitations of uip-nd6.c, RPL, the periodic *)
(* timer and the web server.                                               *)
(*                                                                         *)
(* A mote has one link-layer address and may have several IPv6 addresses,  *)
(* each a neighbor.  A packet is the neighbor that it is for, the next hop *)
(* that tcpip_ipv6_output() has found.  Timers expire at any moment.       *)
(***************************************************************************)
EXTENDS NbrTable

CONSTANTS
  Addrs,        \* IPv6 addresses of neighbors
  LLOf(_),      \* the link-layer address of each
  Packets,      \* packets_memb: 1 .. MAX_NUM_QUEUED_PACKETS
  MaxSolicit,   \* UIP_ND6_MAX_MULTICAST_SOLICIT, UIP_ND6_MAX_UNICAST_SOLICIT
  ForeignTargets, \* are solicitations received that are for somebody else's address?
  Null

ASSUME AddrsAssumption == Null \notin Addrs /\ \A n \in Addrs : LLOf(n) \in LLAddrs
ASSUME PacketsAssumption == Packets \subseteq Nat /\ IsFiniteSet(Packets) /\ Null \notin Packets
ASSUME MaxSolicitAssumption == MaxSolicit \in Nat \ {0}
ASSUME TablesAssumption == Tables = {"neighbors"}

VARIABLES
  item,         \* the items of ds6_neighbors; handle is packethandle.packet
  packet,       \* the blocks of packets_memb; timer is the handle, by its item,
                \* that packet_timedout() will be called with
  uip_buf,      \* whom the packet is for that uip_buf holds, if any
  torn          \* history: a handle was overwritten that had a packet

vars == <<nbrTableVars, item, packet, uip_buf, torn>>

Blank == [ipaddr |-> Null, state |-> "none", nscount |-> 0, handle |-> Null]
Entry(n, st) == [Blank EXCEPT !.ipaddr = n, !.state = st]

Neighbors == used["neighbors"]
\* uip_ds6_nbr_lookup()
Nbr(n) == {i \in Neighbors : item[i].ipaddr = n}

Init ==
  /\ NbrTableInit
  /\ item = [i \in Slots |-> Blank]
  /\ packet = [p \in Packets |-> [used |-> FALSE, to |-> Null, timer |-> Null]]
  /\ uip_buf = Null
  /\ torn = FALSE

-----------------------------------------------------------------------------
(* uip-packetqueue.c                                                       *)

\* uip_packetqueue_free() of the handles of some items.
Released_Nothing(items) == packet
Released(items) ==
  LET dead == {item[i].handle : i \in items}
  IN  [p \in Packets |->
         IF p \in dead THEN [packet[p] EXCEPT !.used = FALSE, !.timer = Null]
                       ELSE packet[p]]

\* uip_packetqueue_alloc() for item i, of neighbor n, in its new form.
Enqueue(n, i, entry) ==
  LET free == {p \in Packets : ~packet[p].used}
      p == CHOOSE q \in free : \A r \in free : q <= r
  IN  IF entry.handle # Null \/ free = {}
      THEN item' = [item EXCEPT ![i] = entry] /\ UNCHANGED packet
      ELSE /\ item' = [item EXCEPT ![i] = [entry EXCEPT !.handle = p]]
           /\ packet' = [packet EXCEPT ![p] = [used |-> TRUE, to |-> n, timer |-> i]]

\* packet_timedout(), called with a handle, whatever packet that has by now.
PacketTimedOut(p) ==
  LET i == packet[p].timer
  IN  /\ uip_buf = Null /\ i # Null
      /\ packet' = [q \in Packets |->
                      [packet[q] EXCEPT !.used = @ /\ q # item[i].handle,
                                        !.timer = IF q = p THEN Null ELSE @]]
      /\ item' = [item EXCEPT ![i].handle = Null]
      /\ UNCHANGED <<nbrTableVars, uip_buf, torn>>

-----------------------------------------------------------------------------
(* uip-ds6-nbr.c                                                           *)

\* uip_ds6_nbr_add(): the key's former user is called back if it has to go, but
\* not the neighbor that had the same link-layer address.
Overwrites(i, ll) == i \in Neighbors /\ ~Evicts(i, ll) /\ item[i].handle # Null
NbrAdd(n, st, removable) ==
  \E i \in Allocated(LLOf(n), removable) :
    /\ lladdr' = LLAfter(LLOf(n), i)
    /\ used' = UsedAfter("neighbors", LLOf(n), i)
    /\ locked' = LockedAfter(LLOf(n), i)
    /\ item' = [item EXCEPT ![i] = Entry(n, st)]
    /\ packet' = IF Evicts(i, LLOf(n)) THEN Released({i}) ELSE packet
    /\ torn' = (torn \/ Overwrites(i, LLOf(n)))

\* uip_ds6_nbr_rm()
NbrRm(items) ==
  /\ used' = Without(used, "neighbors", items)
  /\ locked' = Without(locked, "neighbors", items)
  /\ item' = [i \in Slots |-> IF i \in items THEN Blank ELSE item[i]]
  /\ packet' = Released(items)
  /\ UNCHANGED lladdr

\* uip_ds6_nbr_update_lladdr() of n, which is item old: the neighbor that has the
\* address goes, and n's own item with its packet, but the copy of n that is made
\* has the handle still.  st is what the caller makes of the state, handle what it
\* leaves there, and buf what it leaves in uip_buf.
UpdateLladdr(n, old, st, handle, buf) ==
  LET dup == ItemOf("neighbors", LLOf(n)) \ {old}
  IN  \/ /\ Allocated(LLOf(n), {}) = {}
         /\ NbrRm({old} \union dup)
         /\ UNCHANGED uip_buf
      \/ /\ \E i \in Allocated(LLOf(n), {}) :
              /\ lladdr' = LLAfter(LLOf(n), i)
              /\ used' = [used EXCEPT !["neighbors"] = (@ \ {old}) \union {i}]
              /\ item' = [item EXCEPT ![old] = Blank,
                            ![i] = [Entry(n, st) EXCEPT !.handle = handle,
                                      !.nscount = IF st = "REACHABLE" THEN 0
                                                  ELSE item[old].nscount]]
         /\ locked' = Without(locked, "neighbors", {old} \union dup)
         /\ packet' = Released({old} \union dup)
         /\ uip_buf' = buf

Unresolved(n) == {i \in Nbr(n) : lladdr[i] = LLNull}

-----------------------------------------------------------------------------
(* Packets out, and the answers to solicitations.                          *)

\* tcpip_ipv6_output() to next hop n: one that is unknown becomes INCOMPLETE and
\* takes the one item without an address,
OutputUnknown(n) ==
  /\ Nbr(n) = {}
  /\ \E i \in Allocated(LLNull, {}) :
       /\ lladdr' = LLAfter(LLNull, i)
       /\ used' = UsedAfter("neighbors", LLNull, i)
       /\ locked' = LockedAfter(LLNull, i)
       /\ Enqueue(n, i, [Entry(n, "INCOMPLETE") EXCEPT !.nscount = 1])
       /\ torn' = (torn \/ Overwrites(i, LLNull))

\* one that is INCOMPLETE keeps the packet, if it has none yet,
OutputIncomplete(n) ==
  /\ \E i \in Nbr(n) : item[i].state = "INCOMPLETE" /\ Enqueue(n, i, item[i])
  /\ UNCHANGED <<nbrTableVars, torn>>

\* and any other is sent the packet and the one that was queued for it.
OutputKnown(n) ==
  /\ \E i \in Nbr(n) :
       /\ item[i].state # "INCOMPLETE"
       /\ packet' = Released({i})
       /\ item' = [item EXCEPT ![i].handle = Null,
                     ![i].state = IF @ = "STALE" THEN "DELAY" ELSE @,
                     ![i].nscount = IF item[i].state = "STALE" THEN 0 ELSE @]
  /\ UNCHANGED <<nbrTableVars, torn>>

\* The packet is dropped when an unknown neighbor gets no item.
Dropped(n) == Nbr(n) = {} /\ Allocated(LLNull, {}) = {}
Output(n) == OutputUnknown(n) \/ OutputIncomplete(n) \/ OutputKnown(n)

SendPacket(n) == uip_buf = Null /\ Output(n) /\ UNCHANGED uip_buf

\* What na_input() or ns_input() leaves in uip_buf is sent when it returns.
SendBuffer ==
  /\ uip_buf # Null
  /\ uip_buf' = Null
  /\ \/ Output(uip_buf)
     \/ Dropped(uip_buf) /\ UNCHANGED <<nbrTableVars, item, packet, torn>>

\* na_input(), solicited or not, with the option: the packet that was queued is
\* left in uip_buf.
Waiting(i) == IF item[i].handle = Null THEN Null ELSE packet[item[i].handle].to
NaInput(n) ==
  /\ uip_buf = Null
  /\ \E i \in Unresolved(n), st \in {"REACHABLE", "STALE"} :
       UpdateLladdr(n, i, st, Null, Waiting(i))
  /\ UNCHANGED torn

\* What ns_input() leaves in uip_buf: its answer, if the target is an address of the
\* border router.  A smart bridge receives the solicitations for others as well.
Answers_Discarded(n) == {Null}
Answers(n) == IF ForeignTargets THEN {n, Null} ELSE {n}

\* ns_input() with the option: the packet that was queued, which is free by now, is
\* left in its handle.
NsInput(n) ==
  /\ uip_buf = Null
  /\ \E answer \in Answers(n) :
       \/ Nbr(n) = {} /\ NbrAdd(n, "STALE", {}) /\ uip_buf' = answer
       \/ \E i \in Unresolved(n) :
            UpdateLladdr(n, i, "STALE", item[i].handle, answer) /\ UNCHANGED torn

\* rs_input() with the option; without a key for the address it faults.
RsInput(n) ==
  /\ uip_buf = Null
  /\ \/ Nbr(n) = {} /\ NbrAdd(n, "STALE", {})
     \/ \E old \in Unresolved(n), i \in Allocated(LLOf(n), {}) :
          /\ lladdr' = LLAfter(LLOf(n), i)
          /\ used' = [used EXCEPT !["neighbors"] = (@ \ {old}) \union {i}]
          /\ locked' = Without(locked, "neighbors", {old})
          /\ item' = [item EXCEPT ![old] = Blank,
                        ![i] = [Entry(n, "STALE") EXCEPT !.nscount = item[old].nscount]]
          /\ packet' = Released({old})
          /\ torn' = (torn \/ Overwrites(i, LLOf(n)))
  /\ UNCHANGED uip_buf

\* rpl_icmp6_update_nbr_table() and dao_input_storing(): any neighbor that is
\* neither a next hop nor a parent may have to go.
RplInput(n) ==
  /\ uip_buf = Null
  /\ Nbr(n) = {}
  /\ NbrAdd(n, "REACHABLE", Neighbors) \/ NbrAdd(n, "REACHABLE", {})
  /\ UNCHANGED uip_buf

\* uip_ds6_nbr_refresh_reachable_state(), for any unicast packet.
Refreshed_Any(i) == TRUE
Refreshed(i) == item[i].state # "INCOMPLETE"
Refresh(n) ==
  /\ uip_buf = Null
  /\ \E i \in Nbr(n) :
       /\ Refreshed(i)
       /\ item' = [item EXCEPT ![i].state = "REACHABLE", ![i].nscount = 0]
  /\ UNCHANGED <<nbrTableVars, packet, uip_buf, torn>>

RemoveNbr(n) ==
  /\ uip_buf = Null
  /\ Nbr(n) # {}
  /\ NbrRm(Nbr(n))
  /\ UNCHANGED <<uip_buf, torn>>

-----------------------------------------------------------------------------
(* uip_ds6_neighbor_periodic(); due are the neighbors whose timer expired. *)

GivenUp(i) == item[i].state \in {"INCOMPLETE", "PROBE"} /\ item[i].nscount >= MaxSolicit
\* A neighbor that is reachable no longer is probed at once if it is a default
\* router.
Aged_Uncounted(i, router) ==
  CASE item[i].state = "REACHABLE" -> [item[i] EXCEPT !.state = "STALE"]
    [] item[i].state = "DELAY" -> [item[i] EXCEPT !.state = "PROBE", !.nscount = 0]
    [] OTHER -> item[i]
Aged(i, router) ==
  LET e == item[i]
  IN  CASE e.state = "REACHABLE" /\ i \in router ->
             [e EXCEPT !.state = "DELAY", !.nscount = 0]
        [] e.state = "REACHABLE" /\ i \notin router -> [e EXCEPT !.state = "STALE"]
        [] e.state = "DELAY" -> [e EXCEPT !.state = "PROBE", !.nscount = 0]
        [] e.state \in {"INCOMPLETE", "PROBE"} -> [e EXCEPT !.nscount = @ + 1]
        [] OTHER -> e

Periodic(due) ==
  LET gone == {i \in Neighbors : GivenUp(i)}
  IN  /\ uip_buf = Null
      /\ \E router \in SUBSET {i \in due : item[i].state = "REACHABLE"} :
           item' = [i \in Slots |-> IF i \in gone THEN Blank
                                    ELSE IF i \in due THEN Aged(i, router) ELSE item[i]]
      /\ used' = Without(used, "neighbors", gone)
      /\ locked' = Without(locked, "neighbors", gone)
      /\ packet' = Released(gone)
      /\ UNCHANGED <<lladdr, uip_buf, torn>>

Next ==
  \/ \E n \in Addrs : \/ SendPacket(n) \/ NaInput(n) \/ NsInput(n) \/ RsInput(n)
                      \/ RplInput(n) \/ Refresh(n) \/ RemoveNbr(n)
  \/ SendBuffer
  \/ \E due \in SUBSET Neighbors : Periodic(due)
  \/ \E p \in Packets : PacketTimedOut(p)

Spec == Init /\ [][Next]_vars

\* Timers expire and the main loop comes round, with uip_buf empty.
Fairness ==
  /\ \A i \in Slots : SF_vars(\E due \in SUBSET Neighbors : i \in due /\ Periodic(due))
  /\ \A p \in Packets : SF_vars(PacketTimedOut(p))
  /\ WF_vars(SendBuffer)

FairSpec == Spec /\ Fairness

-----------------------------------------------------------------------------

States == {"none", "INCOMPLETE", "REACHABLE", "STALE", "DELAY", "PROBE"}
TypeOK ==
  /\ NbrTableTypeOK
  /\ \A i \in Slots :
       /\ item[i].ipaddr \in Addrs \union {Null}
       /\ item[i].state \in States
       /\ item[i].nscount \in 0 .. MaxSolicit
       /\ item[i].handle \in Packets \union {Null}
  /\ packet \in [Packets -> [used : BOOLEAN, to : Addrs \union {Null},
                             timer : Slots \union {Null}]]
  /\ uip_buf \in Addrs \union {Null}
  /\ torn \in BOOLEAN

\* A neighbor has no link-layer address exactly while it is being resolved, and
\* then it is the address of the neighbor, whichever messages have made it known:
\* what is sent to a neighbor that is not INCOMPLETE goes to its own link-layer
\* address and never to linkaddr_null.
AddressesResolved ==
  /\ TypeOK /\ KeysSound
  /\ \A i \in Neighbors :
       lladdr[i] = IF item[i].state = "INCOMPLETE" THEN LLNull ELSE LLOf(item[i].ipaddr)
  /\ \A i, j \in Neighbors : item[i].ipaddr = item[j].ipaddr => i = j

\* A packet waits with the neighbor that it is for, which is being resolved, and its
\* timer leads to it; and as long as no handle has been overwritten, no block of the
\* pool is lost.
PacketsWait ==
  uip_buf # Null \/
    /\ \A i \in Slots, p \in Packets :
         item[i].handle = p =>
           /\ packet[p] = [used |-> TRUE, to |-> item[i].ipaddr, timer |-> i]
           /\ item[i].state = "INCOMPLETE"
    /\ torn \/ \A p \in Packets : packet[p].used => \E i \in Slots : item[i].handle = p

\* A queued packet that goes out with another one goes to the neighbor that it
\* was queued for, though its block has been freed before.
SendsOwn ==
  [][\A n \in Addrs, i \in Slots :
       i \in Nbr(n) /\ item[i].handle # Null /\ OutputKnown(n)
         => packet[item[i].handle].to = n]_vars

\* A neighbor that is solicited answers, is given up or makes room: none stays
\* INCOMPLETE or in PROBE for good, however many packets are sent to it.
Solicited(n) == \E i \in Nbr(n) : item[i].state \in {"INCOMPLETE", "PROBE"}
SolicitationEnds == \A n \in Addrs : Solicited(n) ~> ~Solicited(n)

\* The packets that wait leave the pool: none is kept longer than its lifetime, as
\* long as no handle is overwritten.
PoolRefills == \A p \in Packets : []<>(torn \/ ~packet[p].used)
=============================================================================
