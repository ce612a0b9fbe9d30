-------------------------------- MODULE NbrTable --------------------------------
(***************************************************************************)
(* core/net/nbr-table.c: the link-layer addresses that are known, each a   *)
(* key in a block of neighbor_addr_mem, and the tables that are indexed by *)
(* the keys.  A block that has been allocated is never freed: its key is   *)
(* in nbr_table_keys until the block is given to another address, so one   *)
(* variable stands for the pool and the list.                              *)
(*                                                                         *)
(* With RPL, NBR_TABLE_FIND_REMOVABLE is rpl_nbr_policy_find_removable:    *)
(* what it may name is a parameter of the allocation, and the search for   *)
(* the least used key below it is never reached.                           *)
(***************************************************************************)
EXTENDS Naturals, FiniteSets

CONSTANTS
  Slots,        \* the blocks of neighbor_addr_mem: 1 .. NBR_TABLE_MAX_NEIGHBORS
  LLAddrs,      \* link-layer addresses
  LLNull,       \* linkaddr_null, the key of what has no address yet
  Free,         \* the content of a block that has not been allocated
  Tables        \* the tables that are registered

ASSUME SlotsAssumption == Slots \subseteq Nat /\ IsFiniteSet(Slots)
ASSUME LLAssumption == LLNull \notin LLAddrs /\ Free \notin LLAddrs \union {LLNull}

VARIABLES
  lladdr,       \* key->lladdr
  used,         \* used_map, the other way round: the keys each table uses
  locked        \* locked_map, likewise

nbrTableVars == <<lladdr, used, locked>>

NbrTableInit ==
  /\ lladdr = [i \in Slots |-> Free]
  /\ used = [t \in Tables |-> {}]
  /\ locked = [t \in Tables |-> {}]

NbrTableTypeOK ==
  /\ lladdr \in [Slots -> LLAddrs \union {LLNull, Free}]
  /\ used \in [Tables -> SUBSET Slots]
  /\ locked \in [Tables -> SUBSET Slots]

\* index_from_lladdr()
Index(ll) == {i \in Slots : lladdr[i] = ll}

\* The items of table t for an address: one, or none.
ItemOf(t, ll) == Index(ll) \intersect used[t]

\* The keys that nbr_table_add_lladdr() may come to use: that of the address,
\* a free block, or one that the policy names.
Allocated(ll, removable) ==
  IF Index(ll) # {} THEN Index(ll)
  ELSE IF Index(Free) # {} THEN {CHOOSE i \in Index(Free) : TRUE}
  ELSE removable

\* remove_key() is called for i, with the callbacks of the tables that use it.
Evicts(i, ll) == lladdr[i] \notin {ll, Free}

\* The maps when nbr_table_add_lladdr() has come to use key i for table t.
LLAfter(ll, i) == [lladdr EXCEPT ![i] = ll]
UsedAfter(t, ll, i) ==
  [x \in Tables |-> IF x = t THEN used[x] \union {i}
                   ELSE IF Evicts(i, ll) THEN used[x] \ {i} ELSE used[x]]
LockedAfter(ll, i) ==
  [x \in Tables |-> IF Evicts(i, ll) THEN locked[x] \ {i} ELSE locked[x]]

\* nbr_table_remove(), of several items; map is used or locked.
Without(map, t, items) == [map EXCEPT ![t] = @ \ items]

\* Every address has one key, and what a table uses or locks is a key; a lock is
\* of an item that is in use, or nobody would take it off again.
KeysSound ==
  /\ \A i, j \in Slots : lladdr[i] = lladdr[j] /\ lladdr[i] # Free => i = j
  /\ \A t \in Tables : used[t] \subseteq Slots \ Index(Free) /\ locked[t] \subseteq used[t]
=============================================================================
