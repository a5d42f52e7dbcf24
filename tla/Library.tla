------------------------------- MODULE Library -------------------------------
(***************************************************************************)
(* xlibrary.c: objects under references, in a tree of items of one         *)
(* freelist that point to items of another.  The caller holds the mutex:   *)
(* an operation is one step, of several allocations that may each fail.    *)
(* The tree is the set of its items.                                       *)
(***************************************************************************)
EXTENDS Freelist

CONSTANTS
  Keys,      \* references
  Vals,      \* contents of an object
  Absent,    \* no content
  Refusals,  \* what malloc may refuse in one behaviour
  Length     \* default_length of both freelists

ASSUME LibraryAssumption ==
  Length \in Nat \ {0} /\ Absent \notin Vals /\ Refusals \subseteq SUBSET Blocks

Slots == (1 .. MaxLists) \X (1 .. Length)

VARIABLES
  refs, objs,   \* ref_freelist, obj_freelist
  tree,         \* the items of refs that are in the tree
  rdata,        \* what the items of refs hold: a reference and an item of objs
  odata,        \* what the items of objs hold
  ret,          \* the status, or the object, of the last operation
  refused,      \* what malloc may refuse
  crashed       \* the process is gone

libVars == <<refs, objs, tree, rdata, odata, ret, refused, crashed>>

NoRef == [key |-> Absent, obj |-> NoItem]

\* The operators work on a library as a record, which the actions make of the variables.
Library == [refs |-> refs, objs |-> objs, tree |-> tree, rdata |-> rdata, odata |-> odata]

Becomes(lib, status) ==
  /\ refs' = lib.refs /\ objs' = lib.objs /\ tree' = lib.tree
  /\ rdata' = lib.rdata /\ odata' = lib.odata
  /\ ret' = status /\ UNCHANGED <<refused, crashed>>

\* tfind(3)
Found(lib, k) == {i \in lib.tree : lib.rdata[i].key = k}

\* Mutant: releases the item and not its object.
ReleaseItemOnly(lib, i) ==
  [lib EXCEPT !.refs = Released(@, i), !.rdata[i] = NoRef, !.tree = @ \ {i}]

\* Mutant: releases the object of an item that stays in the tree.
ReleaseItemKept(lib, i) ==
  [lib EXCEPT !.objs = Released(@, lib.rdata[i].obj)]

\* tdelete(3) and _release_item: both items are zeroed.
ReleaseItem(lib, i) ==
  [lib EXCEPT !.objs = Released(@, lib.rdata[i].obj), !.odata[lib.rdata[i].obj] = Absent,
              !.refs = Released(@, i), !.rdata[i] = NoRef, !.tree = @ \ {i}]

\* The library without the item under k, once a working item could be had for the
\* search; w is the outcome of its extraction, and it is given back.
WithoutKey(lib, k, w) ==
  LET searched == [lib EXCEPT !.refs = w.list]
      found == Found(lib, k)
  IN  IF w.item = NoItem THEN searched
      ELSE LET left == IF found = {} THEN searched ELSE ReleaseItem(searched, CHOOSE i \in found : TRUE)
           IN  [left EXCEPT !.refs = Released(@, w.item)]

LibInit ==
  /\ refs = NewList(Length) /\ objs = NewList(Length)
  /\ tree = {} /\ rdata = [i \in Slots |-> NoRef] /\ odata = [i \in Slots |-> Absent]
  /\ ret = "none" /\ refused \in Refusals /\ crashed = FALSE

-----------------------------------------------------------------------------
(* xlibrary_add_item_nolock: takes an object, removes what is there under  *)
(* the reference, whatever comes of it, takes an item and inserts it.      *)

\* The object that was taken goes back when the rest fails.
Refused(lib, o) == [lib EXCEPT !.objs = Released(@, o)]

\* Mutant: inserts beside an item whose removal has failed.
InsertionsAnyway(lib, k, o) ==
  UNION { IF r.item = NoItem THEN {<<Refused([lib EXCEPT !.refs = r.list], o), "empty">>}
          ELSE {<<[lib EXCEPT !.refs = r.list, !.rdata[r.item] = [key |-> k, obj |-> o],
                              !.tree = @ \cup {r.item}], "success">>}
        : r \in {x \in Extractions(lib.refs, refused) : ~x.overrun} }

\* tsearch(3): a new node, none for lack of memory, or the node that is already there
\* because its removal failed; the new items are then in nobody's hands.
Insertions(lib, k, o) ==
  UNION { IF r.item = NoItem THEN {<<Refused([lib EXCEPT !.refs = r.list], o), "empty">>}
          ELSE LET taken == [lib EXCEPT !.refs = r.list, !.rdata[r.item] = [key |-> k, obj |-> o]]
               IN  IF Found(lib, k) # {} THEN {<<taken, "success">>}
                   ELSE {<<[taken EXCEPT !.tree = @ \cup {r.item}], "success">>}
                          \cup IF "struct" \in refused
                               THEN {<<Refused([taken EXCEPT !.refs = Released(@, r.item)], o), "library_add">>}
                               ELSE {}
        : r \in {x \in Extractions(lib.refs, refused) : ~x.overrun} }

Add(k, v) ==
  /\ ~crashed
  /\ \E o \in Extractions(objs, refused) :
       /\ ~o.overrun
       /\ \/ o.item = NoItem /\ Becomes([Library EXCEPT !.objs = o.list], "empty")
          \/ /\ o.item # NoItem
             /\ \E w \in Extractions(refs, refused) :
                  /\ ~w.overrun
                  /\ LET left == WithoutKey([Library EXCEPT !.objs = o.list], k, w)
                         filled == [left EXCEPT !.odata[o.item] = v]
                     IN  \E out \in Insertions(filled, k, o.item) : Becomes(out[1], out[2])

\* xlibrary_remove_item_nolock
Remove(k) ==
  /\ ~crashed
  /\ \E w \in Extractions(refs, refused) :
       /\ ~w.overrun
       /\ Becomes(WithoutKey(Library, k, w),
                  CASE w.item = NoItem -> "empty"
                    [] w.item # NoItem /\ Found(Library, k) = {} -> "not_found"
                    [] OTHER -> "success")

\* xlibrary_get_item_nolock
Get(k) ==
  /\ ~crashed
  /\ \E w \in Extractions(refs, refused) :
       /\ ~w.overrun
       /\ Becomes([Library EXCEPT !.refs = IF w.item = NoItem THEN w.list ELSE Released(w.list, w.item)],
                  CASE w.item = NoItem -> "empty"
                    [] w.item # NoItem /\ Found(Library, k) = {} -> "not_found"
                    [] OTHER -> odata[rdata[CHOOSE i \in Found(Library, k) : TRUE].obj])

\* An extension by nothing, in any of them.
Crash ==
  /\ ~crashed
  /\ \E x \in Extractions(refs, refused) \cup Extractions(objs, refused) : x.overrun
  /\ crashed' = TRUE
  /\ UNCHANGED <<refs, objs, tree, rdata, odata, ret, refused>>

LibNext ==
  \/ \E k \in Keys : (\E v \in Vals : Add(k, v)) \/ Remove(k) \/ Get(k)
  \/ Crash

LibSpec == LibInit /\ [][LibNext]_libVars

-----------------------------------------------------------------------------
(* Properties. *)

Refers(i) == rdata[i].obj

\* Every item is in one place: what is in the tree, or the object of it, is not free, no
\* two items of the tree have the same object or the same reference, and every object
\* in the tree has a content.
NoAliases ==
  /\ tree \subseteq Contents(refs) \ refs.free
  /\ \A i \in tree : Refers(i) \in Contents(objs) \ objs.free /\ odata[Refers(i)] # Absent
  /\ \A i, j \in tree : i # j => (Refers(i) # Refers(j) /\ rdata[i].key # rdata[j].key)

\* Unless small blocks are refused, every item that is not in use is free.
NothingLost ==
  "struct" \notin refused => (refs.free = Contents(refs) \ tree
                      /\ objs.free = Contents(objs) \ {Refers(i) : i \in tree})

\* The library is the map that the repository takes it for.
Content(k) ==
  IF Found(Library, k) = {} THEN Absent ELSE odata[Refers(CHOOSE i \in Found(Library, k) : TRUE)]

Map == INSTANCE LibMap WITH map <- [k \in Keys |-> Content(k)]

ImplementsMap == Map!MapSpec
=============================================================================
