------------------------------ MODULE Freelist ------------------------------
(***************************************************************************)
(* The freelists of src/api/xternal/xfreelist.c: an array of items and the *)
(* extensions that were chained to it.  A freelist is a record of the      *)
(* lengths of its arrays and of the items that are free; an item is its    *)
(* array and its place there.  Which free item is taken does not matter.   *)
(***************************************************************************)
EXTENDS Integers, Sequences

CONSTANTS
  MaxLists,   \* bound: the arrays of a freelist
  NoItem

ASSUME FreelistAssumption == MaxLists \in Nat \ {0} /\ NoItem \notin Nat \X Nat

\* What malloc may refuse: the small blocks, or the large ones.
Blocks == {"struct", "heap"}

Array(j, n) == {j} \X (1 .. n)

\* xfreelist_init of the array j.
NewList(n) == [lens |-> <<n>>, free |-> Array(1, n)]

Contents(list) == UNION {Array(j, list.lens[j]) : j \in DOMAIN list.lens}

Extended(list, n) ==
  [lens |-> Append(list.lens, n), free |-> list.free \cup Array(Len(list.lens) + 1, n)]

\* What an extraction may come to: an item or none, and the list that is left.
Extracted(item, list) == [item |-> item, list |-> list, overrun |-> FALSE]
From(list) == {Extracted(i, [list EXCEPT !.free = @ \ {i}]) : i \in list.free}
Nothing(list) == Extracted(NoItem, list)

\* xfreelist_init with a length of 0 writes to items[default_length - 1], an unsigned
\* index 2^32 - 1: the process is killed.
Overrun(list) == [item |-> NoItem, list |-> list, overrun |-> TRUE]

\* xfreelist_extend by as many items as the last array has: an initialisation that
\* lacks memory leaves a new last array without items, which the extraction turns to
\* and tries to extend at once.
LastLen(list) == list.lens[Len(list.lens)]

Extensions(list, refused) ==
  {Nothing(list) : b \in {"struct"} \cap refused}
    \cup IF LastLen(list) = 0 THEN {Overrun(list)}
         ELSE From(Extended(list, LastLen(list)))
                \cup {Overrun(Extended(list, 0)) : b \in {"heap"} \cap refused}
                \cup {Nothing(Extended(list, 0)) : b \in IF Blocks \subseteq refused THEN {"both"} ELSE {}}

\* xfreelist_extract_item
Extractions(list, refused) ==
  CASE list.free # {} -> From(list)
    [] list.free = {} /\ Len(list.lens) < MaxLists -> Extensions(list, refused)
    [] OTHER -> {}

\* xfreelist_release_item: into the array that the item belongs to, wherever the
\* release starts; an item that is free stays so.
Released(list, item) == [list EXCEPT !.free = @ \cup ({item} \cap Contents(list))]
=============================================================================
