---------------------------------- MODULE RplNs ----------------------------------
(***************************************************************************)
(* The topology that the root of a non-storing DODAG keeps to source-route *)
(* with: core/net/rpl/rpl-ns.c, under dao_input_nonstoring() and the       *)
(* periodic timer of RPL.                                                  *)
(*                                                                         *)
(* A node is a block of nodememb and its parent another one, which is what *)
(* this module is about: a block that is freed keeps its contents, and the *)
(* pointers to it.  The order of nodelist tells which expired node is the  *)
(* next to be freed.  There is one DODAG, and path sequences are off, as   *)
(* in every build.                                                         *)
(***************************************************************************)
EXTENDS Lists, FiniteSets

CONSTANTS
  Slots,        \* nodememb: 1 .. RPL_NS_LINK_NUM
  Root,         \* dag_id
  Motes,        \* the other link identifiers
  Tree,         \* the parent of each mote once the network has settled
  Lifetime,     \* of a DAO, in rounds of the periodic timer
  NoPathDelay,  \* RPL_NOPATH_REMOVAL_DELAY, likewise
  Infinite,     \* 0xffffffff
  Null

ASSUME SlotsAssumption == Slots \subseteq Nat /\ IsFiniteSet(Slots) /\ Null \notin Slots
ASSUME MotesAssumption == Root \notin Motes /\ Null \notin Motes \union {Root}
ASSUME TreeAssumption == Tree \in [Motes -> Motes \union {Root}]
ASSUME LifetimeAssumption ==
  /\ Lifetime \in Nat \ {0} /\ NoPathDelay \in 1 .. Lifetime
  /\ Infinite \in Nat /\ Infinite > Lifetime

Ids == Motes \union {Root}

VARIABLES
  nodelist,     \* the blocks that are in use, the oldest first
  id,           \* node->link_identifier
  parent,       \* node->parent
  lifetime,     \* node->lifetime
  settled,      \* environment: do the motes keep their parents from now on?
  sender,       \* environment: since then, who has sent the last DAO
  announced,    \* history: who the parent of each node that is no orphan is
  orphans       \* history: the nodes whose parent was freed since they took it

vars == <<nodelist, id, parent, lifetime, settled, sender, announced, orphans>>

Init ==
  /\ nodelist = << >>
  /\ id = [s \in Slots |-> Null]
  /\ parent = [s \in Slots |-> Null]
  /\ lifetime = [s \in Slots |-> 0]
  /\ settled = FALSE
  /\ sender = Null
  /\ announced = [s \in Slots |-> Null]
  /\ orphans = {}

-----------------------------------------------------------------------------

\* rpl_ns_get_node(), in nodes of whatever identifiers: one, or none.
Nodes == Members(nodelist)
NodeIn(nodes, ids, a) == {s \in nodes : ids[s] = a}
Node(a) == NodeIn(Nodes, id, a)

\* The loop of rpl_ns_is_node_reachable(): at most RPL_NS_LINK_NUM steps up.
Climb(s, r, par) ==
  LET up[k \in 0 .. Cardinality(Slots)] ==
        IF k = 0 THEN s
        ELSE LET t == up[k - 1] IN IF t \in {r, Null} THEN t ELSE par[t]
  IN  up[Cardinality(Slots)]

\* rpl_ns_is_node_reachable() of the node in s.
ReachableIn(s, nodes, ids, par) ==
  \E r \in NodeIn(nodes, ids, Root) : Climb(s, r, par) = r
Reachable(a) == \E s \in Node(a) : ReachableIn(s, Nodes, id, parent)

\* The node of a, or else the block that memb_alloc() has for it, if any.
FirstFree(nodes) == {s \in Slots \ nodes : \A t \in Slots \ nodes : s <= t}
SlotsFor(a, nodes) == IF Node(a) = {} THEN FirstFree(nodes) ELSE Node(a)

\* rpl_ns_update_node() for a parent that is not known: it never expires.
ParentOnly(p, s) ==
  /\ nodelist' = ListAdd(nodelist, s)
  /\ id' = [id EXCEPT ![s] = p]
  /\ parent' = [parent EXCEPT ![s] = Null]
  /\ lifetime' = [lifetime EXCEPT ![s] = Infinite]
  /\ announced' = [announced EXCEPT ![s] = Null]
  /\ UNCHANGED orphans

\* The end of rpl_ns_update_node(), with both nodes in place: a new parent that
\* cuts the node off from the root is not taken.
Adopted_Unchecked(c, up, nodes, ids, par) == [par EXCEPT ![c] = up]
Adopted_OnceOnly(c, up, nodes, ids, par) ==
  IF par[c] = Null THEN [par EXCEPT ![c] = up] ELSE par
Adopted(c, up, nodes, ids, par) ==
  LET new == [par EXCEPT ![c] = up]
  IN  IF ReachableIn(c, nodes, ids, par) /\ ~ReachableIn(c, nodes, ids, new)
      THEN par ELSE new

\* The parents, when the blocks in fresh have just been allocated.
Parents_Uncleared(fresh) == parent
Parents(fresh) == [s \in Slots |-> IF s \in fresh THEN Null ELSE parent[s]]

\* A node that is not known is linked at the end of the list.
WithNode(list, s) == IF OnList(s, list) THEN list ELSE ListAdd(list, s)

\* rpl_ns_update_node() when there are nodes for both.
Linked(child, p, c, up) ==
  LET fresh == {up, c} \ Nodes
  IN  /\ nodelist' = WithNode(WithNode(nodelist, up), c)
      /\ id' = [id EXCEPT ![up] = p, ![c] = child]
      /\ parent' = Adopted(c, up, Nodes', id', Parents(fresh))
      /\ lifetime' = [lifetime EXCEPT
                        ![up] = IF up \in fresh THEN Infinite ELSE @,
                        ![c] = Lifetime]
      /\ announced' = [announced EXCEPT
                         ![up] = IF up \in fresh THEN Null ELSE @,
                         ![c] = IF parent'[c] = up THEN p ELSE @]
      /\ orphans' = IF parent'[c] = up THEN orphans \ {c} ELSE orphans

\* rpl_ns_update_node()
UpdateNode(child, p) ==
  \/ /\ SlotsFor(p, Nodes) = {}
     /\ UNCHANGED <<nodelist, id, parent, lifetime, announced, orphans>>
  \/ \E up \in SlotsFor(p, Nodes) :
       \/ /\ SlotsFor(child, Nodes \union {up}) = {}
          /\ IF up \in Nodes
             THEN UNCHANGED <<nodelist, id, parent, lifetime, announced, orphans>>
             ELSE ParentOnly(p, up)
       \/ \E c \in SlotsFor(child, Nodes \union {up}) : Linked(child, p, c, up)

-----------------------------------------------------------------------------

\* dao_input_nonstoring(): a mote announces its parent.
DaoInput(m, p) ==
  /\ m # p
  /\ settled => p = Tree[m]
  /\ sender' = IF settled THEN m ELSE Null
  /\ UpdateNode(m, p)
  /\ UNCHANGED settled

\* dao_input_nonstoring(), a lifetime of zero: rpl_ns_expire_parent(), which
\* compares the parent's identifier, in use or not.
NoPathDao(m, p) ==
  /\ ~settled
  /\ \E s \in Node(m) : /\ parent[s] # Null /\ id[parent[s]] = p
                        /\ lifetime' = [lifetime EXCEPT ![s] = NoPathDelay]
  /\ UNCHANGED <<nodelist, id, parent, settled, sender, announced, orphans>>

\* memb_free(): the block keeps its contents, and its children keep pointing to it.
Free(s) ==
  LET left == {t \in Nodes : parent[t] = s}
  IN  /\ nodelist' = RemoveFrom(nodelist, s)
      /\ orphans' = (orphans \union left) \ {s}
      /\ announced' = [t \in Slots |-> IF t \in left \union {s} THEN Null ELSE announced[t]]

\* rpl_ns_periodic(): all nodes age, and the first one whose lifetime has ended is
\* freed, with children or without.  list_remove() clears its next, and so the
\* walk ends with it.  In a network that has settled the motes renew their DAOs
\* before their lifetimes end.
Aged(life) == IF life \in {0, Infinite} THEN life ELSE life - 1
Expired(s, life) == life[s] = 0
Periodic ==
  LET life == [s \in Slots |-> IF s \in Nodes THEN Aged(lifetime[s]) ELSE lifetime[s]]
  IN  /\ settled => \A s \in Nodes : Expired(s, life) => Expired(s, lifetime)
      /\ lifetime' = life
      /\ \/ /\ \A s \in Nodes : ~Expired(s, life)
            /\ UNCHANGED <<nodelist, announced, orphans>>
         \/ \E k \in 1 .. Len(nodelist) :
              /\ Expired(nodelist[k], life)
              /\ \A j \in 1 .. k - 1 : ~Expired(nodelist[j], life)
              /\ Free(nodelist[k])
      /\ UNCHANGED <<id, parent, settled, sender>>

Settle ==
  /\ ~settled /\ settled' = TRUE
  /\ UNCHANGED <<nodelist, id, parent, lifetime, sender, announced, orphans>>

Next ==
  \/ \E m \in Motes, p \in Ids : DaoInput(m, p) \/ NoPathDao(m, p)
  \/ Periodic
  \/ Settle

Spec == Init /\ [][Next]_vars

\* Every mote sends its DAO again and again, and some get through.
FairSpec == Spec /\ \A m \in Motes : []<>(settled => sender = m)

-----------------------------------------------------------------------------

TypeOK ==
  /\ nodelist \in Seq(Slots)
  /\ id \in [Slots -> Ids \union {Null}]
  /\ parent \in [Slots -> Slots \union {Null}]
  /\ lifetime \in [Slots -> 0 .. Lifetime \union {Infinite}]
  /\ settled \in BOOLEAN
  /\ sender \in Motes \union {Null}
  /\ announced \in [Slots -> Ids \union {Null}]
  /\ orphans \subseteq Nodes

\* One node for each mote, linked once.
NodesUnique ==
  /\ NoRepetition(nodelist)
  /\ \A s, t \in Nodes : id[s] = id[t] => s = t
  /\ \A s \in Nodes : id[s] \in Ids

\* Each hop of a source route is a link that the mote below it has announced,
\* unless its parent was freed under it: blocks that are freed and allocated again,
\* nodes that are known only as parents and DAOs that find no block leave no parent
\* behind that was never announced, and an orphan is one no longer when a new
\* parent is taken.
HopsAnnouncedUnlessOrphaned ==
  /\ TypeOK /\ NodesUnique
  /\ \A s \in Nodes \ orphans : parent[s] # Null =>
       parent[s] \in Nodes /\ id[parent[s]] = announced[s]

\* A mote whose path to the root passes no orphan.
Attached(a) ==
  \E s \in Node(a) :
    ReachableIn(s, Nodes, id, [t \in Slots |-> IF t \in orphans THEN Null ELSE parent[t]])

\* A mote whose path passes no orphan keeps a path until its own node is freed,
\* whatever else is freed.  No DAO costs it its path, neither its own nor another's,
\* whatever loops the parents announced so far would close and whatever blocks are
\* reused.
PathsKept ==
  [][\A a \in Motes : Attached(a) => Reachable(a)' \/ Node(a)' = {}]_<<nodelist, id, parent>>

\* Once the motes keep their parents, the root learns all of them for good,
\* whatever it had learnt before and in whatever order the DAOs come: a parent
\* that is refused for the loop it would close is taken in the end.
Learnt == \A m \in Motes : \E s \in Node(m) : /\ parent[s] \in Node(Tree[m])
                                              /\ Reachable(m)
Converges == <>[](settled => Learnt)
=============================================================================
