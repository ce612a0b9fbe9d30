---------------------------------- MODULE Lists ----------------------------------
(***************************************************************************)
(* The linked lists of the kernel, core/lib/list.c and those that etimer.c *)
(* and mac-sequence.c link themselves, as sequences of what is linked.     *)
(***************************************************************************)
EXTENDS Naturals, Sequences

OnList(c, list) == \E k \in 1 .. Len(list) : list[k] = c

\* What stays linked when everything that is not among items has been unlinked.
Kept(list, items) ==
  LET kept[k \in 0 .. Len(list)] ==
        IF k = 0 THEN << >>
        ELSE IF list[k] \in items THEN Append(kept[k - 1], list[k]) ELSE kept[k - 1]
  IN  kept[Len(list)]

Members(list) == {list[k] : k \in 1 .. Len(list)}

\* list_remove() unlinks the first c that it finds.
RemoveFrom(list, c) ==
  IF OnList(c, list)
  THEN LET k == CHOOSE i \in 1 .. Len(list) : list[i] = c /\ \A j \in 1 .. i - 1 : list[j] # c
       IN  [j \in 1 .. Len(list) - 1 |-> IF j < k THEN list[j] ELSE list[j + 1]]
  ELSE list

\* list_add()
ListAdd(list, c) == Append(RemoveFrom(list, c), c)

\* Nothing is linked twice: a cycle would hang every later walk.
NoRepetition(list) ==
  \A j, k \in 1 .. Len(list) : list[j] = list[k] => j = k
=============================================================================
