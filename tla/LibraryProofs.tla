---------------------------- MODULE LibraryProofs ----------------------------
(* Theorems about xlibrary over its two freelists (Library, Freelist), for  *)
(* every length of the freelists and every pattern of refused allocations. *)
EXTENDS Library, TLAPS

----------------------------------------------------------------------------
(* Freelists                                                               *)

ListOK(list) ==
  /\ list \in [lens : Seq({0, Length}), free : SUBSET (Nat \X Nat)]
  /\ Len(list.lens) \in 1 .. MaxLists
  /\ list.free \subseteq Contents(list)

\* The items that somebody has.
Used(list) == Contents(list) \ list.free

LEMMA Sizes == MaxLists \in Nat /\ MaxLists # 0 /\ Length \in Nat /\ Length # 0
BY FreelistAssumption, LibraryAssumption

LEMMA InContents ==
  ASSUME NEW list, NEW x
  PROVE  x \in Contents(list) <=>
           \E j \in DOMAIN list.lens : \E n \in 1 .. list.lens[j] : x = <<j, n>>
BY DEF Contents, Array

LEMMA ContentsType ==
  ASSUME NEW list, ListOK(list)
  PROVE  /\ Contents(list) \subseteq Slots
         /\ NoItem \notin Contents(list)
<1>1. ASSUME NEW x \in Contents(list) PROVE x \in Slots
  <2>1. PICK j \in DOMAIN list.lens : \E n \in 1 .. list.lens[j] : x = <<j, n>>
    BY InContents
  <2>2. j \in 1 .. MaxLists /\ list.lens[j] \in {0, Length}
    BY <2>1, Sizes DEF ListOK
  <2>3. 1 .. list.lens[j] \subseteq 1 .. Length
    BY <2>2, Sizes
  <2> QED
    BY <2>1, <2>2, <2>3 DEF Slots
<1>2. NoItem \notin Slots
  BY FreelistAssumption, Sizes DEF Slots
<1> QED
  BY <1>1, <1>2

\* A new array adds its items to what there is.
LEMMA ExtendedContents ==
  ASSUME NEW list, ListOK(list), Len(list.lens) < MaxLists, NEW n \in {0, Length}
  PROVE  /\ Contents(Extended(list, n)) = Contents(list) \cup Array(Len(list.lens) + 1, n)
         /\ Contents(list) \cap Array(Len(list.lens) + 1, n) = {}
         /\ ListOK(Extended(list, n))
         /\ Used(Extended(list, n)) = Used(list)
<1> DEFINE new == Extended(list, n)
           m == Len(list.lens)
<1>1. /\ list.lens \in Seq({0, Length}) /\ m \in Nat /\ DOMAIN list.lens = 1 .. m
      /\ list.free \in SUBSET (Nat \X Nat) /\ list.free \subseteq Contents(list)
  BY DEF ListOK
<1>2. /\ new.lens \in Seq({0, Length}) /\ Len(new.lens) = m + 1 /\ DOMAIN new.lens = 1 .. (m + 1)
      /\ new.lens[m + 1] = n /\ \A j \in 1 .. m : new.lens[j] = list.lens[j]
      /\ new.free = list.free \cup Array(m + 1, n)
  BY <1>1 DEF Extended
<1> HIDE DEF new
<1>3. Contents(new) = Contents(list) \cup Array(m + 1, n)
  <2>1. ASSUME NEW x PROVE x \in Contents(new) <=> x \in Contents(list) \/ x \in Array(m + 1, n)
    <3>1. x \in Array(m + 1, n) <=> \E i \in 1 .. n : x = <<m + 1, i>>
      BY DEF Array
    <3>2. DOMAIN new.lens = DOMAIN list.lens \cup {m + 1}
      BY <1>1, <1>2
    <3>3. x \in Contents(new) <=>
            \/ \E j \in DOMAIN list.lens : \E i \in 1 .. new.lens[j] : x = <<j, i>>
            \/ \E i \in 1 .. new.lens[m + 1] : x = <<m + 1, i>>
      <4>1. x \in Contents(new) <=>
              \E j \in DOMAIN new.lens : \E i \in 1 .. new.lens[j] : x = <<j, i>>
        BY InContents
      <4> QED
        BY <3>2, <4>1
    <3>4. \A j \in DOMAIN list.lens : new.lens[j] = list.lens[j]
      BY <1>1, <1>2
    <3>5. x \in Contents(list) <=>
            \E j \in DOMAIN list.lens : \E i \in 1 .. new.lens[j] : x = <<j, i>>
      <4>1. x \in Contents(list) <=>
              \E j \in DOMAIN list.lens : \E i \in 1 .. list.lens[j] : x = <<j, i>>
        BY InContents
      <4> QED
        BY <3>4, <4>1
    <3> QED
      BY <1>2, <3>1, <3>3, <3>5, Zenon
  <2> QED
    BY <2>1
<1>4. Contents(list) \cap Array(m + 1, n) = {}
  <2>1. ASSUME NEW x \in Contents(list), x \in Array(m + 1, n) PROVE FALSE
    <3>1. PICK j \in DOMAIN list.lens : \E i \in 1 .. list.lens[j] : x = <<j, i>>
      BY <2>1, InContents
    <3>2. j # m + 1
      BY <1>1, <3>1
    <3> QED
      BY <2>1, <3>1, <3>2 DEF Array
  <2> QED
    BY <2>1
<1>5. Array(m + 1, n) \subseteq Nat \X Nat
  BY <1>1 DEF Array
<1>6. new \in [lens : Seq({0, Length}), free : SUBSET (Nat \X Nat)]
  BY <1>1, <1>2, <1>5 DEF new, Extended
<1>7. ListOK(new)
  BY <1>1, <1>2, <1>3, <1>6, Sizes DEF ListOK
<1>8. Used(new) = Used(list)
  BY <1>2, <1>3, <1>4 DEF Used
<1> QED
  BY <1>3, <1>4, <1>7, <1>8 DEF new

\* What an extraction comes to: nothing, which takes a refusal of the small
\* blocks, or an item that nobody has.
LEMMA ExtractionIs ==
  ASSUME NEW list, ListOK(list), NEW x \in Extractions(list, refused), ~x.overrun
  PROVE  /\ ListOK(x.list)
         /\ \/ x.item = NoItem /\ Used(x.list) = Used(list) /\ "struct" \in refused
            \/ /\ x.item \in Slots /\ x.item # NoItem /\ x.item \notin Used(list)
               /\ Used(x.list) = Used(list) \cup {x.item}
<1>1. ASSUME NEW l, ListOK(l), Used(l) = Used(list), NEW y \in From(l)
      PROVE  /\ ListOK(y.list)
             /\ y.item \in Slots /\ y.item # NoItem /\ y.item \notin Used(list)
             /\ Used(y.list) = Used(list) \cup {y.item}
  <2>1. PICK i \in l.free : y = Extracted(i, [l EXCEPT !.free = @ \ {i}])
    BY <1>1 DEF From
  <2>2. /\ l \in [lens : Seq({0, Length}), free : SUBSET (Nat \X Nat)]
        /\ l.free \subseteq Contents(l)
    BY <1>1 DEF ListOK
  <2>3. y.item = i /\ y.list = [l EXCEPT !.free = @ \ {i}]
    BY <2>1 DEF Extracted
  <2>4. y.list.lens = l.lens /\ y.list.free = l.free \ {i}
    BY <2>2, <2>3
  <2>5. Contents(y.list) = Contents(l)
    BY <2>4 DEF Contents
  <2>6. ListOK(y.list)
    BY <1>1, <2>2, <2>3, <2>4, <2>5 DEF ListOK
  <2>7. i \in Contents(l) /\ i \in Slots /\ i # NoItem
    BY <1>1, <2>2, ContentsType
  <2> QED
    BY <1>1, <2>3, <2>4, <2>5, <2>6, <2>7 DEF Used
<1>2. CASE list.free # {}
  <2>1. x \in From(list)
    BY <1>2 DEF Extractions
  <2> QED
    BY <1>1, <2>1
<1>3. CASE list.free = {} /\ Len(list.lens) < MaxLists
  <2>1. x \in Extensions(list, refused)
    BY <1>3 DEF Extractions
  <2>2. LastLen(list) \in {0, Length}
    <3>1. list.lens \in Seq({0, Length}) /\ Len(list.lens) \in 1 .. MaxLists
      BY DEF ListOK
    <3>2. Len(list.lens) \in 1 .. Len(list.lens)
      BY <3>1, Sizes
    <3> QED
      BY <3>1, <3>2 DEF LastLen
  <2>3. \/ x = Nothing(list) /\ "struct" \in refused
        \/ x \in From(Extended(list, LastLen(list)))
        \/ x = Nothing(Extended(list, 0)) /\ "struct" \in refused
    <3>1. \A y : y = Overrun(list) \/ y = Overrun(Extended(list, 0)) => y.overrun
      BY DEF Overrun
    <3>2. x # Overrun(list) /\ x # Overrun(Extended(list, 0))
      BY <3>1
    <3> QED
      BY <2>1, <3>2 DEF Extensions, Blocks
  <2>4. CASE x \in From(Extended(list, LastLen(list)))
    BY <1>1, <1>3, <2>2, <2>4, ExtendedContents
  <2>5. CASE x = Nothing(list) /\ "struct" \in refused
    BY <2>5 DEF Nothing, Extracted
  <2>6. CASE x = Nothing(Extended(list, 0)) /\ "struct" \in refused
    <3>1. x.item = NoItem /\ x.list = Extended(list, 0)
      BY <2>6 DEF Nothing, Extracted
    <3> QED
      BY <1>3, <2>6, <3>1, ExtendedContents
  <2> QED
    BY <2>3, <2>4, <2>5, <2>6
<1> QED
  BY <1>2, <1>3 DEF Extractions

LEMMA ReleasedIs ==
  ASSUME NEW list, ListOK(list), NEW i
  PROVE  ListOK(Released(list, i)) /\ Used(Released(list, i)) = Used(list) \ {i}
<1>1. /\ list \in [lens : Seq({0, Length}), free : SUBSET (Nat \X Nat)]
      /\ list.free \subseteq Contents(list) /\ Contents(list) \subseteq Slots
  BY ContentsType DEF ListOK
<1>2. /\ Released(list, i).lens = list.lens
      /\ Released(list, i).free = list.free \cup ({i} \cap Contents(list))
  BY <1>1 DEF Released
<1>3. Contents(Released(list, i)) = Contents(list)
  BY <1>2 DEF Contents
<1>4. {i} \cap Contents(list) \subseteq Nat \X Nat
  BY <1>1, Sizes DEF Slots
<1>5. Released(list, i) \in [lens : Seq({0, Length}), free : SUBSET (Nat \X Nat)]
  BY <1>1, <1>2, <1>4 DEF Released
<1> QED
  BY <1>1, <1>2, <1>3, <1>5 DEF ListOK, Used

LEMMA NewListIs ==
  ListOK(NewList(Length)) /\ Used(NewList(Length)) = {}
<1> DEFINE list == NewList(Length)
<1>1. /\ list.lens = <<Length>> /\ list.free = Array(1, Length)
      /\ DOMAIN list.lens = {1} /\ list.lens[1] = Length
  BY DEF NewList
<1>2. Contents(list) = Array(1, Length)
  BY <1>1, Zenon DEF Contents
<1>3. Array(1, Length) \subseteq Nat \X Nat
  BY Sizes DEF Array
<1>4. list \in [lens : Seq({0, Length}), free : SUBSET (Nat \X Nat)]
  BY <1>3, Sizes DEF NewList
<1>5. Len(list.lens) \in 1 .. MaxLists
  BY <1>1, Sizes
<1> QED
  BY <1>1, <1>2, <1>4, <1>5 DEF ListOK, Used

----------------------------------------------------------------------------
(* The inductive invariant                                                 *)

Lists == [lens : Seq({0, Length}), free : SUBSET (Nat \X Nat)]
RefItems == [key : Keys \cup {Absent}, obj : Slots \cup {NoItem}]

LibType ==
  [refs : Lists, objs : Lists, tree : SUBSET Slots,
   rdata : [Slots -> RefItems], odata : [Slots -> Vals \cup {Absent}]]

Object(lib, i) == lib.rdata[i].obj

\* What an item of the tree holds.
ItemOK(lib, i) ==
  /\ lib.rdata[i].key \in Keys
  /\ Object(lib, i) \in Slots
  /\ lib.odata[Object(lib, i)] \in Vals

\* A library of which an operation has the items R of refs and O of objs in its
\* hands: they and the items of the tree are all that is used, unless small
\* blocks are refused.
Sound(lib, R, O) ==
  /\ lib \in LibType /\ ListOK(lib.refs) /\ ListOK(lib.objs)
  /\ R \subseteq Used(lib.refs) \ lib.tree /\ O \subseteq Used(lib.objs)
  /\ lib.tree \subseteq Used(lib.refs)
  /\ \A i \in lib.tree : ItemOK(lib, i) /\ Object(lib, i) \in Used(lib.objs) \ O
  /\ \A i, j \in lib.tree : i # j =>
        Object(lib, i) # Object(lib, j) /\ lib.rdata[i].key # lib.rdata[j].key
  /\ "struct" \notin refused =>
       /\ Used(lib.refs) = lib.tree \cup R
       /\ Used(lib.objs) = {Object(lib, i) : i \in lib.tree} \cup O

\* Between operations nothing is in hand.
LibInv == Sound(Library, {}, {})

----------------------------------------------------------------------------
(* The fields of a library                                                 *)

TookRef(lib, l) == [lib EXCEPT !.refs = l]
TookObj(lib, l) == [lib EXCEPT !.objs = l]
GaveRef(lib, i) == [lib EXCEPT !.refs = Released(@, i)]
Filled(lib, o, v) == [lib EXCEPT !.odata[o] = v]
RefTo(k, o) == [key |-> k, obj |-> o]
Holding(lib, i, k, o) == [lib EXCEPT !.rdata[i] = RefTo(k, o)]
Inserted(lib, i) == [lib EXCEPT !.tree = @ \cup {i}]
Rewritten(lib, r, l, t, p, d) ==
  [lib EXCEPT !.objs = l, !.odata = d, !.refs = r, !.rdata = p, !.tree = t]

LEMMA WithRefs ==
  ASSUME NEW lib \in LibType, NEW l \in Lists
  PROVE  LET new == TookRef(lib, l) IN
         /\ new \in LibType /\ new.refs = l /\ new.objs = lib.objs /\ new.tree = lib.tree
         /\ new.rdata = lib.rdata /\ new.odata = lib.odata
BY DEF LibType, TookRef

LEMMA WithObjs ==
  ASSUME NEW lib \in LibType, NEW l \in Lists
  PROVE  LET new == TookObj(lib, l) IN
         /\ new \in LibType /\ new.refs = lib.refs /\ new.objs = l /\ new.tree = lib.tree
         /\ new.rdata = lib.rdata /\ new.odata = lib.odata
BY DEF LibType, TookObj

LEMMA WithAll ==
  ASSUME NEW lib \in LibType, NEW r \in Lists, NEW l \in Lists, NEW t \in SUBSET Slots,
         NEW p \in [Slots -> RefItems], NEW d \in [Slots -> Vals \cup {Absent}]
  PROVE  LET new == Rewritten(lib, r, l, t, p, d) IN
         /\ new \in LibType /\ new.refs = r /\ new.objs = l /\ new.tree = t
         /\ new.rdata = p /\ new.odata = d
BY DEF LibType, Rewritten

----------------------------------------------------------------------------
(* What is under a key                                                     *)

Value(lib, k) ==
  IF Found(lib, k) = {} THEN Absent ELSE lib.odata[Object(lib, CHOOSE i \in Found(lib, k) : TRUE)]

LEMMA FoundIs ==
  ASSUME NEW lib, NEW R, NEW O, Sound(lib, R, O), NEW i \in lib.tree
  PROVE  /\ Found(lib, lib.rdata[i].key) = {i}
         /\ Value(lib, lib.rdata[i].key) = lib.odata[Object(lib, i)]
<1>1. Found(lib, lib.rdata[i].key) = {i}
  BY DEF Sound, Found
<1>2. (CHOOSE j \in {i} : TRUE) = i
  OBVIOUS
<1> QED
  BY <1>1, <1>2 DEF Value

LEMMA ValueIs ==
  ASSUME NEW lib, NEW R, NEW O, Sound(lib, R, O), NEW k
  PROVE  IF Found(lib, k) = {} THEN Value(lib, k) = Absent
         ELSE \E i \in lib.tree : /\ Found(lib, k) = {i} /\ lib.rdata[i].key = k
                                  /\ Value(lib, k) = lib.odata[Object(lib, i)]
                                  /\ Value(lib, k) \in Vals
<1>1. CASE Found(lib, k) = {}
  BY <1>1 DEF Value
<1>2. CASE Found(lib, k) # {}
  <2>1. PICK i \in lib.tree : lib.rdata[i].key = k
    BY <1>2 DEF Found
  <2>2. ItemOK(lib, i)
    BY DEF Sound
  <2> QED
    BY <1>2, <2>1, <2>2, FoundIs DEF ItemOK
<1> QED
  BY <1>1, <1>2

\* Only the tree counts, and what its items hold.
LEMMA SameValue ==
  ASSUME NEW lib, NEW new, NEW R, NEW O, NEW S, NEW P, Sound(lib, R, O), Sound(new, S, P), NEW k,
         Found(new, k) = Found(lib, k),
         \A i \in Found(lib, k) : /\ new.rdata[i] = lib.rdata[i]
                                /\ new.odata[Object(lib, i)] = lib.odata[Object(lib, i)]
  PROVE  Value(new, k) = Value(lib, k)
<1>1. CASE Found(lib, k) = {}
  BY <1>1 DEF Value
<1>2. CASE Found(lib, k) # {}
  <2>1. PICK i : Found(lib, k) = {i} /\ Value(lib, k) = lib.odata[Object(lib, i)]
    BY <1>2, ValueIs
  <2>2. PICK j : Found(new, k) = {j} /\ Value(new, k) = new.odata[Object(new, j)]
    BY <1>2, ValueIs
  <2> QED
    BY <2>1, <2>2 DEF Object
<1> QED
  BY <1>1, <1>2

----------------------------------------------------------------------------
(* Items are taken and given back                                          *)

LEMMA TakeRef ==
  ASSUME NEW lib, NEW O, Sound(lib, {}, O), NEW x \in Extractions(lib.refs, refused), ~x.overrun
  PROVE  LET new == TookRef(lib, x.list) IN
         /\ Sound(new, IF x.item = NoItem THEN {} ELSE {x.item}, O)
         /\ x.item = NoItem => "struct" \in refused
         /\ x.item # NoItem => x.item \in Slots \ lib.tree
         /\ \A k : Value(new, k) = Value(lib, k) /\ Found(new, k) = Found(lib, k)
<1> DEFINE new == TookRef(lib, x.list)
<1>1. /\ ListOK(x.list) /\ x.list \in Lists
      /\ \/ x.item = NoItem /\ Used(x.list) = Used(lib.refs) /\ "struct" \in refused
         \/ /\ x.item \in Slots /\ x.item # NoItem /\ x.item \notin Used(lib.refs)
            /\ Used(x.list) = Used(lib.refs) \cup {x.item}
  <2>1. ListOK(lib.refs)
    BY DEF Sound
  <2> QED
    BY <2>1, ExtractionIs DEF ListOK, Lists
<1>2. /\ new \in LibType /\ new.refs = x.list /\ new.objs = lib.objs /\ new.tree = lib.tree
      /\ new.rdata = lib.rdata /\ new.odata = lib.odata
  BY <1>1, WithRefs DEF Sound
<1> HIDE DEF new
<1>3. Sound(new, IF x.item = NoItem THEN {} ELSE {x.item}, O)
  BY <1>1, <1>2 DEF Sound, Object, ItemOK
<1>4. \A k : Value(new, k) = Value(lib, k) /\ Found(new, k) = Found(lib, k)
  BY <1>2 DEF Value, Found, Object
<1>5. x.item # NoItem => x.item \in Slots \ lib.tree
  BY <1>1 DEF Sound
<1> QED
  BY <1>1, <1>3, <1>4, <1>5 DEF new

LEMMA TakeObj ==
  ASSUME NEW lib, NEW R, Sound(lib, R, {}), NEW x \in Extractions(lib.objs, refused), ~x.overrun
  PROVE  LET new == TookObj(lib, x.list) IN
         /\ Sound(new, R, IF x.item = NoItem THEN {} ELSE {x.item})
         /\ x.item # NoItem => x.item \in Slots
         /\ \A k : Value(new, k) = Value(lib, k)
<1> DEFINE new == TookObj(lib, x.list)
<1>1. /\ ListOK(x.list) /\ x.list \in Lists
      /\ \/ x.item = NoItem /\ Used(x.list) = Used(lib.objs) /\ "struct" \in refused
         \/ /\ x.item \in Slots /\ x.item # NoItem /\ x.item \notin Used(lib.objs)
            /\ Used(x.list) = Used(lib.objs) \cup {x.item}
  <2>1. ListOK(lib.objs)
    BY DEF Sound
  <2> QED
    BY <2>1, ExtractionIs DEF ListOK, Lists
<1>2. /\ new \in LibType /\ new.refs = lib.refs /\ new.objs = x.list /\ new.tree = lib.tree
      /\ new.rdata = lib.rdata /\ new.odata = lib.odata
  BY <1>1, WithObjs DEF Sound
<1> HIDE DEF new
<1>3. Sound(new, R, IF x.item = NoItem THEN {} ELSE {x.item})
  BY <1>1, <1>2 DEF Sound, Object, ItemOK
<1>4. \A k : Value(new, k) = Value(lib, k)
  BY <1>2 DEF Value, Found, Object
<1> QED
  BY <1>1, <1>3, <1>4 DEF new

LEMMA GiveRef ==
  ASSUME NEW lib, NEW O, NEW i, Sound(lib, {i}, O)
  PROVE  LET new == GaveRef(lib, i) IN
         /\ Sound(new, {}, O)
         /\ \A k : Value(new, k) = Value(lib, k) /\ Found(new, k) = Found(lib, k)
<1> DEFINE new == GaveRef(lib, i)
<1>1. /\ ListOK(Released(lib.refs, i)) /\ Released(lib.refs, i) \in Lists
      /\ Used(Released(lib.refs, i)) = Used(lib.refs) \ {i}
  BY ReleasedIs DEF Sound, ListOK, Lists
<1>2. /\ new \in LibType /\ new.refs = Released(lib.refs, i) /\ new.objs = lib.objs
      /\ new.tree = lib.tree /\ new.rdata = lib.rdata /\ new.odata = lib.odata
  BY <1>1, WithRefs DEF Sound, GaveRef, TookRef
<1> HIDE DEF new
<1>3. Sound(new, {}, O)
  <2>1. \A j : Object(new, j) = Object(lib, j)
    BY <1>2 DEF Object
  <2>2. {Object(new, j) : j \in new.tree} = {Object(lib, j) : j \in lib.tree}
    BY <1>2, <2>1
  <2>3. ASSUME "struct" \notin refused
        PROVE  /\ Used(new.refs) = new.tree \cup {}
               /\ Used(new.objs) = {Object(new, j) : j \in new.tree} \cup O
    <3>1. /\ Used(lib.refs) = lib.tree \cup {i} /\ i \notin lib.tree
          /\ Used(lib.objs) = {Object(lib, j) : j \in lib.tree} \cup O
      BY <2>3 DEF Sound
    <3> QED
      BY <1>1, <1>2, <2>2, <3>1
  <2>4. /\ \A j \in new.tree : ItemOK(new, j) /\ Object(new, j) \in Used(new.objs) \ O
        /\ \A j, l \in new.tree : j # l =>
             Object(new, j) # Object(new, l) /\ new.rdata[j].key # new.rdata[l].key
    BY <1>2, <2>1 DEF Sound, ItemOK
  <2>5. /\ new \in LibType /\ ListOK(new.refs) /\ ListOK(new.objs)
        /\ {} \subseteq Used(new.refs) \ new.tree /\ O \subseteq Used(new.objs)
        /\ new.tree \subseteq Used(new.refs)
    BY <1>1, <1>2 DEF Sound
  <2> QED
    BY <2>3, <2>4, <2>5 DEF Sound
<1>4. \A k : Value(new, k) = Value(lib, k) /\ Found(new, k) = Found(lib, k)
  BY <1>2 DEF Value, Found, Object
<1> QED
  BY <1>3, <1>4 DEF new

LEMMA GiveObj ==
  ASSUME NEW lib, NEW R, NEW o, Sound(lib, R, {o})
  PROVE  /\ Sound(Refused(lib, o), R, {})
         /\ \A k : Value(Refused(lib, o), k) = Value(lib, k)
<1> DEFINE new == Refused(lib, o)
<1>1. /\ ListOK(Released(lib.objs, o)) /\ Released(lib.objs, o) \in Lists
      /\ Used(Released(lib.objs, o)) = Used(lib.objs) \ {o}
  BY ReleasedIs DEF Sound, ListOK, Lists
<1>2. /\ new \in LibType /\ new.refs = lib.refs /\ new.objs = Released(lib.objs, o)
      /\ new.tree = lib.tree /\ new.rdata = lib.rdata /\ new.odata = lib.odata
  BY <1>1, WithObjs DEF Sound, Refused, TookObj
<1> HIDE DEF new
<1>3. Sound(new, R, {})
  <2>1. \A i : Object(new, i) = Object(lib, i)
    BY <1>2 DEF Object
  <2>2. \A i \in lib.tree : ItemOK(lib, i) /\ Object(lib, i) \in Used(lib.objs) \ {o}
    BY DEF Sound
  <2>3. {Object(new, i) : i \in new.tree} = {Object(lib, i) : i \in lib.tree}
    BY <1>2, <2>1
  <2>4. ASSUME "struct" \notin refused
        PROVE  /\ Used(new.refs) = new.tree \cup R
               /\ Used(new.objs) = {Object(new, i) : i \in new.tree} \cup {}
    <3>1. /\ Used(lib.refs) = lib.tree \cup R
          /\ Used(lib.objs) = {Object(lib, i) : i \in lib.tree} \cup {o}
      BY <2>4 DEF Sound
    <3>2. o \notin {Object(lib, i) : i \in lib.tree}
      BY <2>2
    <3> QED
      BY <1>1, <1>2, <2>3, <3>1, <3>2
  <2>5. \A i \in new.tree : ItemOK(new, i) /\ Object(new, i) \in Used(new.objs) \ {}
    BY <1>1, <1>2, <2>1, <2>2 DEF ItemOK
  <2>6. \A i, j \in new.tree : i # j =>
          Object(new, i) # Object(new, j) /\ new.rdata[i].key # new.rdata[j].key
    BY <1>2, <2>1 DEF Sound
  <2>7. /\ new \in LibType /\ ListOK(new.refs) /\ ListOK(new.objs)
        /\ R \subseteq Used(new.refs) \ new.tree /\ {} \subseteq Used(new.objs)
        /\ new.tree \subseteq Used(new.refs)
    BY <1>1, <1>2 DEF Sound
  <2> QED
    BY <2>4, <2>5, <2>6, <2>7 DEF Sound
<1>4. \A k : Value(new, k) = Value(lib, k)
  BY <1>2 DEF Value, Found, Object
<1> QED
  BY <1>3, <1>4 DEF new

\* An item leaves the tree, with its object.
LEMMA ReleaseItemIs ==
  ASSUME NEW lib, NEW R, NEW O, Sound(lib, R, O), NEW i \in lib.tree
  PROVE  LET new == ReleaseItem(lib, i) IN
         /\ Sound(new, R, O)
         /\ new.tree = lib.tree \ {i} /\ new.refs = Released(lib.refs, i)
         /\ Value(new, lib.rdata[i].key) = Absent
         /\ Found(new, lib.rdata[i].key) = {}
         /\ \A k : k # lib.rdata[i].key => Value(new, k) = Value(lib, k)
<1> DEFINE new == ReleaseItem(lib, i)
           o == Object(lib, i)
<1>1. /\ lib \in LibType /\ ListOK(lib.refs) /\ ListOK(lib.objs) /\ lib.tree \subseteq Slots
      /\ i \in Slots /\ o \in Slots /\ lib.refs \in Lists /\ lib.objs \in Lists
      /\ lib.rdata \in [Slots -> RefItems] /\ lib.odata \in [Slots -> Vals \cup {Absent}]
  BY DEF Sound, ItemOK, LibType
<1>2. /\ ListOK(Released(lib.refs, i)) /\ Released(lib.refs, i) \in Lists
      /\ Used(Released(lib.refs, i)) = Used(lib.refs) \ {i}
      /\ ListOK(Released(lib.objs, o)) /\ Released(lib.objs, o) \in Lists
      /\ Used(Released(lib.objs, o)) = Used(lib.objs) \ {o}
  BY <1>1, ReleasedIs DEF ListOK, Lists
<1>3. NoRef \in RefItems
  BY DEF NoRef, RefItems
<1>4. /\ new.refs = Released(lib.refs, i) /\ new.objs = Released(lib.objs, o)
      /\ new.tree = lib.tree \ {i}
      /\ new.rdata = [lib.rdata EXCEPT ![i] = NoRef]
      /\ new.odata = [lib.odata EXCEPT ![o] = Absent]
      /\ new \in LibType
  <2>1. new = Rewritten(lib, Released(lib.refs, i), Released(lib.objs, o), lib.tree \ {i},
                          [lib.rdata EXCEPT ![i] = NoRef], [lib.odata EXCEPT ![o] = Absent])
    BY <1>1 DEF ReleaseItem, LibType, Object, Rewritten
  <2>2. /\ [lib.rdata EXCEPT ![i] = NoRef] \in [Slots -> RefItems]
        /\ [lib.odata EXCEPT ![o] = Absent] \in [Slots -> Vals \cup {Absent}]
        /\ lib.tree \ {i} \in SUBSET Slots
    BY <1>1, <1>3
  <2> HIDE DEF new
  <2> QED
    BY <1>1, <1>2, <2>1, <2>2, WithAll
<1> HIDE DEF new
<1>5. \A j \in lib.tree \ {i} : /\ new.rdata[j] = lib.rdata[j] /\ Object(new, j) = Object(lib, j)
                               /\ Object(lib, j) # o /\ Object(lib, j) \in Slots
                               /\ new.odata[Object(lib, j)] = lib.odata[Object(lib, j)]
                               /\ lib.rdata[j].key # lib.rdata[i].key
  <2>1. \A j \in lib.tree \ {i} : Object(lib, j) # o /\ Object(lib, j) \in Slots
                               /\ lib.rdata[j].key # lib.rdata[i].key
    BY DEF Sound, ItemOK
  <2> QED
    BY <1>1, <1>4, <2>1 DEF Object
<1>6. Sound(new, R, O)
  <2>1. R \subseteq Used(new.refs) \ new.tree /\ O \subseteq Used(new.objs)
        /\ new.tree \subseteq Used(new.refs)
    BY <1>2, <1>4 DEF Sound
  <2>2. \A j \in new.tree : ItemOK(new, j) /\ Object(new, j) \in Used(new.objs) \ O
    BY <1>2, <1>4, <1>5 DEF Sound, ItemOK
  <2>3. \A j, l \in new.tree : j # l =>
          Object(new, j) # Object(new, l) /\ new.rdata[j].key # new.rdata[l].key
    BY <1>4, <1>5 DEF Sound
  <2>4. ASSUME "struct" \notin refused
        PROVE  /\ Used(new.refs) = new.tree \cup R
               /\ Used(new.objs) = {Object(new, j) : j \in new.tree} \cup O
    <3>1. /\ Used(lib.refs) = lib.tree \cup R /\ i \notin R
          /\ Used(lib.objs) = {Object(lib, j) : j \in lib.tree} \cup O /\ o \notin O
      BY <2>4 DEF Sound
    <3>2. {Object(new, j) : j \in new.tree} = {Object(lib, j) : j \in lib.tree} \ {o}
      BY <1>4, <1>5
    <3> QED
      BY <1>2, <1>4, <3>1, <3>2
  <2> QED
    BY <1>2, <1>4, <2>1, <2>2, <2>3, <2>4 DEF Sound
<1>7. Found(new, lib.rdata[i].key) = {}
  BY <1>4, <1>5 DEF Found
<1>8. ASSUME NEW k, k # lib.rdata[i].key PROVE Value(new, k) = Value(lib, k)
  <2>1. Found(new, k) = Found(lib, k) /\ Found(lib, k) \subseteq lib.tree \ {i}
    BY <1>4, <1>5, <1>8 DEF Found
  <2> QED
    BY <1>5, <1>6, <2>1, SameValue
<1> QED
  BY <1>4, <1>6, <1>7, <1>8 DEF new, Value

\* A library under operation of which nothing but the items in hand is written keeps
\* what it has under every key.
LEMMA FillIs ==
  ASSUME NEW lib, NEW R, NEW o, Sound(lib, R, {o}), NEW v \in Vals
  PROVE  LET new == Filled(lib, o, v) IN
         /\ Sound(new, R, {o}) /\ new.odata[o] = v
         /\ \A k : Value(new, k) = Value(lib, k) /\ Found(new, k) = Found(lib, k)
<1> DEFINE new == Filled(lib, o, v)
<1>1. /\ lib \in LibType /\ o \in Slots /\ lib.odata \in [Slots -> Vals \cup {Absent}]
      /\ \A i \in lib.tree : Object(lib, i) # o /\ Object(lib, i) \in Slots
  <2>1. ListOK(lib.objs) /\ o \in Used(lib.objs)
    BY DEF Sound
  <2>2. o \in Slots
    BY <2>1, ContentsType DEF Used
  <2> QED
    BY <2>2 DEF Sound, ItemOK, LibType
<1>2. /\ new \in LibType /\ new.refs = lib.refs /\ new.objs = lib.objs /\ new.tree = lib.tree
      /\ new.rdata = lib.rdata /\ new.odata = [lib.odata EXCEPT ![o] = v]
  BY <1>1 DEF LibType, Filled
<1> HIDE DEF new
<1>3. /\ \A i : Object(new, i) = Object(lib, i) /\ new.rdata[i] = lib.rdata[i]
      /\ \A i \in lib.tree : new.odata[Object(lib, i)] = lib.odata[Object(lib, i)]
      /\ new.odata[o] = v
  BY <1>1, <1>2 DEF Object
<1>4. Sound(new, R, {o})
  <2>1. {Object(new, j) : j \in new.tree} = {Object(lib, j) : j \in lib.tree}
    BY <1>2, <1>3
  <2>2. /\ \A j \in new.tree : ItemOK(new, j) /\ Object(new, j) \in Used(new.objs) \ {o}
        /\ \A j, l \in new.tree : j # l =>
             Object(new, j) # Object(new, l) /\ new.rdata[j].key # new.rdata[l].key
    BY <1>2, <1>3 DEF Sound, ItemOK
  <2>3. "struct" \notin refused =>
          /\ Used(new.refs) = new.tree \cup R
          /\ Used(new.objs) = {Object(new, j) : j \in new.tree} \cup {o}
    BY <1>2, <2>1 DEF Sound
  <2> QED
    BY <1>2, <2>2, <2>3 DEF Sound
<1>5. \A k : Found(new, k) = Found(lib, k) /\ Found(lib, k) \subseteq lib.tree
  BY <1>2 DEF Found
<1>6. \A k : Value(new, k) = Value(lib, k)
  BY <1>3, <1>4, <1>5, SameValue
<1> QED
  BY <1>3, <1>4, <1>5, <1>6 DEF new

\* What an item that is in hand is made to hold changes nothing under any key.
Held(new, lib, r, k, o) ==
  /\ Sound(new, {r}, {o}) /\ new.rdata[r] = RefTo(k, o)
  /\ new.odata = lib.odata
  /\ \A l : Value(new, l) = Value(lib, l) /\ Found(new, l) = Found(lib, l)

LEMMA HoldIs ==
  ASSUME NEW lib, NEW k \in Keys, NEW r, NEW o, Sound(lib, {r}, {o})
  PROVE  Held(Holding(lib, r, k, o), lib, r, k, o)
<1> DEFINE new == Holding(lib, r, k, o)
<1>1. /\ lib \in LibType /\ r \in Slots /\ o \in Slots /\ r \notin lib.tree
      /\ lib.rdata \in [Slots -> RefItems] /\ lib.tree \subseteq Slots
  <2>1. ListOK(lib.objs) /\ o \in Used(lib.objs) /\ ListOK(lib.refs) /\ r \in Used(lib.refs)
    BY DEF Sound
  <2>2. o \in Slots /\ r \in Slots
    BY <2>1, ContentsType DEF Used
  <2> QED
    BY <2>2 DEF Sound, LibType
<1>2. /\ new \in LibType /\ new.refs = lib.refs /\ new.objs = lib.objs /\ new.tree = lib.tree
      /\ new.rdata = [lib.rdata EXCEPT ![r] = RefTo(k, o)] /\ new.odata = lib.odata
  BY <1>1 DEF LibType, RefItems, Holding, RefTo
<1> HIDE DEF new
<1>3. /\ \A i \in lib.tree : Object(new, i) = Object(lib, i) /\ new.rdata[i] = lib.rdata[i]
      /\ new.rdata[r] = RefTo(k, o)
  BY <1>1, <1>2 DEF Object, RefTo
<1>4. Sound(new, {r}, {o})
  <2>1. {Object(new, j) : j \in new.tree} = {Object(lib, j) : j \in lib.tree}
    BY <1>2, <1>3
  <2>2. /\ \A j \in new.tree : ItemOK(new, j) /\ Object(new, j) \in Used(new.objs) \ {o}
        /\ \A j, l \in new.tree : j # l =>
             Object(new, j) # Object(new, l) /\ new.rdata[j].key # new.rdata[l].key
    BY <1>2, <1>3 DEF Sound, ItemOK
  <2>3. "struct" \notin refused =>
          /\ Used(new.refs) = new.tree \cup {r}
          /\ Used(new.objs) = {Object(new, j) : j \in new.tree} \cup {o}
    BY <1>2, <2>1 DEF Sound
  <2> QED
    BY <1>2, <2>2, <2>3 DEF Sound
<1>5. \A l : Found(new, l) = Found(lib, l) /\ Found(lib, l) \subseteq lib.tree
  BY <1>2, <1>3 DEF Found
<1>6. ASSUME NEW l PROVE Value(new, l) = Value(lib, l)
  <2>1. \A i \in Found(lib, l) : /\ new.rdata[i] = lib.rdata[i]
                                /\ new.odata[Object(lib, i)] = lib.odata[Object(lib, i)]
    BY <1>2, <1>3, <1>5
  <2> QED
    BY <1>4, <1>5, <2>1, SameValue
<1> QED
  BY <1>2, <1>3, <1>4, <1>5, <1>6 DEF new, Held

\* The items in hand go into the tree.
LEMMA InsertIs ==
  ASSUME NEW lib, NEW r, NEW o, Sound(lib, {r}, {o}), NEW k \in Keys, NEW v \in Vals,
         lib.rdata[r] = RefTo(k, o), lib.odata[o] = v, Found(lib, k) = {}
  PROVE  LET new == Inserted(lib, r) IN
         /\ Sound(new, {}, {})
         /\ Value(new, k) = v
         /\ \A l : l # k => Value(new, l) = Value(lib, l)
<1> DEFINE new == Inserted(lib, r)
<1>1. /\ lib \in LibType /\ r \in Slots /\ o \in Slots /\ r \notin lib.tree /\ lib.tree \subseteq Slots
      /\ r \in Used(lib.refs) /\ o \in Used(lib.objs)
  <2>1. ListOK(lib.objs) /\ o \in Used(lib.objs) /\ ListOK(lib.refs) /\ r \in Used(lib.refs)
    BY DEF Sound
  <2>2. o \in Slots /\ r \in Slots
    BY <2>1, ContentsType DEF Used
  <2> QED
    BY <2>1, <2>2 DEF Sound, LibType
<1>2. /\ new \in LibType /\ new.refs = lib.refs /\ new.objs = lib.objs
      /\ new.tree = lib.tree \cup {r} /\ new.rdata = lib.rdata /\ new.odata = lib.odata
  BY <1>1 DEF LibType, Inserted
<1> HIDE DEF new
<1>3. /\ \A i : Object(new, i) = Object(lib, i)
      /\ Object(lib, r) = o /\ lib.rdata[r].key = k
      /\ \A i \in lib.tree : Object(lib, i) # o /\ lib.rdata[i].key # k
  BY <1>2 DEF Object, Sound, Found, RefTo
<1>4. Sound(new, {}, {})
  <2>1. {Object(new, j) : j \in new.tree} = {Object(lib, j) : j \in lib.tree} \cup {o}
    BY <1>2, <1>3
  <2>2. \A j \in new.tree : ItemOK(new, j) /\ Object(new, j) \in Used(new.objs) \ {}
    BY <1>1, <1>2, <1>3 DEF Sound, ItemOK
  <2>3. \A j, l \in new.tree : j # l =>
          Object(new, j) # Object(new, l) /\ new.rdata[j].key # new.rdata[l].key
    <3>1. \A j, l \in lib.tree : j # l =>
            Object(lib, j) # Object(lib, l) /\ lib.rdata[j].key # lib.rdata[l].key
      BY DEF Sound
    <3> QED
      BY <1>2, <1>3, <3>1
  <2>4. "struct" \notin refused =>
          /\ Used(new.refs) = new.tree \cup {}
          /\ Used(new.objs) = {Object(new, j) : j \in new.tree} \cup {}
    BY <1>2, <2>1 DEF Sound
  <2>5. /\ ListOK(new.refs) /\ ListOK(new.objs)
        /\ {} \subseteq Used(new.refs) \ new.tree /\ {} \subseteq Used(new.objs)
        /\ new.tree \subseteq Used(new.refs)
    BY <1>1, <1>2 DEF Sound
  <2> QED
    BY <1>2, <2>2, <2>3, <2>4, <2>5 DEF Sound
<1>5. Value(new, k) = v
  BY <1>2, <1>3, <1>4, FoundIs
<1>6. ASSUME NEW l, l # k PROVE Value(new, l) = Value(lib, l)
  <2>1. Found(new, l) = Found(lib, l)
    BY <1>2, <1>3, <1>6 DEF Found
  <2> QED
    BY <1>2, <2>1, <1>4, SameValue
<1> QED
  BY <1>4, <1>5, <1>6 DEF new

\* With small blocks refused, items may be in nobody's hands.
LEMMA Dropped ==
  ASSUME NEW lib, NEW R, NEW O, Sound(lib, R, O), "struct" \in refused
  PROVE  Sound(lib, {}, {})
BY DEF Sound

----------------------------------------------------------------------------
(* The operations                                                          *)

LEMMA WithoutKeyIs ==
  ASSUME NEW lib, NEW O, Sound(lib, {}, O), NEW k \in Keys,
         NEW w \in Extractions(lib.refs, refused), ~w.overrun
  PROVE  LET new == WithoutKey(lib, k, w) IN
         /\ Sound(new, {}, O)
         /\ \A l : l # k => Value(new, l) = Value(lib, l)
         /\ IF w.item = NoItem
            THEN "struct" \in refused /\ Value(new, k) = Value(lib, k)
            ELSE Found(new, k) = {} /\ Value(new, k) = Absent
<1> DEFINE new == WithoutKey(lib, k, w)
           searched == TookRef(lib, w.list)
<1>1. /\ Sound(searched, IF w.item = NoItem THEN {} ELSE {w.item}, O)
      /\ w.item = NoItem => "struct" \in refused
      /\ \A l : Value(searched, l) = Value(lib, l) /\ Found(searched, l) = Found(lib, l)
  BY TakeRef
<1>2. new = IF w.item = NoItem THEN searched
            ELSE LET left == IF Found(lib, k) = {} THEN searched
                             ELSE ReleaseItem(searched, CHOOSE i \in Found(lib, k) : TRUE)
                 IN  GaveRef(left, w.item)
  BY DEF WithoutKey, TookRef, GaveRef
<1> HIDE DEF new, searched
<1>3. CASE w.item = NoItem
  BY <1>1, <1>2, <1>3 DEF new
<1>4. CASE w.item # NoItem /\ Found(lib, k) = {}
  <2>1. new = GaveRef(searched, w.item) /\ Sound(searched, {w.item}, O)
    BY <1>1, <1>2, <1>4
  <2>2. /\ Sound(new, {}, O)
        /\ \A l : Value(new, l) = Value(searched, l) /\ Found(new, l) = Found(searched, l)
    BY <2>1, GiveRef
  <2> QED
    BY <1>1, <1>4, <2>2 DEF Value, new
<1>5. CASE w.item # NoItem /\ Found(lib, k) # {}
  <2> DEFINE i == CHOOSE i \in Found(lib, k) : TRUE
             left == ReleaseItem(searched, i)
  <2>1. i \in searched.tree /\ searched.rdata[i].key = k
    BY <1>1, <1>5 DEF Found
  <2>2. new = GaveRef(left, w.item) /\ Sound(searched, {w.item}, O)
    BY <1>1, <1>2, <1>5
  <2> HIDE DEF i
  <2>3. /\ Sound(left, {w.item}, O) /\ Value(left, k) = Absent /\ Found(left, k) = {}
        /\ \A l : l # k => Value(left, l) = Value(searched, l)
    BY <2>1, <2>2, ReleaseItemIs
  <2> HIDE DEF left
  <2>4. /\ Sound(new, {}, O)
        /\ \A l : Value(new, l) = Value(left, l) /\ Found(new, l) = Found(left, l)
    <3>1. Sound(left, {w.item}, O)
      BY <2>3
    <3>2. /\ Sound(GaveRef(left, w.item), {}, O)
          /\ \A l : /\ Value(GaveRef(left, w.item), l) = Value(left, l)
                   /\ Found(GaveRef(left, w.item), l) = Found(left, l)
      BY <3>1, GiveRef
    <3> QED
      BY <2>2, <3>2
  <2> QED
    BY <1>1, <1>5, <2>3, <2>4 DEF new
<1> QED
  BY <1>3, <1>4, <1>5

\* An insertion puts the object under its key, leaves what it could not replace, or
\* fails and leaves everything.
LEMMA InsertionsAre ==
  ASSUME NEW lib, NEW o, Sound(lib, {}, {o}), NEW k \in Keys, NEW v \in Vals, lib.odata[o] = v,
         Found(lib, k) # {} => "struct" \in refused,
         NEW out \in Insertions(lib, k, o)
  PROVE  /\ Sound(out[1], {}, {})
         /\ \A l : l # k => Value(out[1], l) = Value(lib, l)
         /\ \/ out[2] = "success" /\ Value(out[1], k) = v
            \/ out[2] = "success" /\ Found(lib, k) # {} /\ Value(out[1], k) = Value(lib, k)
            \/ out[2] \in {"empty", "library_add"} /\ Value(out[1], k) = Value(lib, k)
<1> DEFINE Had(r) == TookRef(lib, r.list)
           Taken(r) == Holding(TookRef(lib, r.list), r.item, k, o)
<1>1. PICK r \in {x \in Extractions(lib.refs, refused) : ~x.overrun} :
        \/ r.item = NoItem /\ out = <<Refused(Had(r), o), "empty">>
        \/ r.item # NoItem /\ Found(lib, k) # {} /\ out = <<Taken(r), "success">>
        \/ /\ r.item # NoItem /\ Found(lib, k) = {}
           /\ out = <<Inserted(Taken(r), r.item), "success">>
        \/ /\ r.item # NoItem /\ Found(lib, k) = {}
           /\ out = <<Refused(GaveRef(Taken(r), r.item), o), "library_add">>
  BY DEF Insertions, TookRef, Holding, GaveRef, Inserted, RefTo
<1>2. /\ r.item = NoItem => Sound(Had(r), {}, {o}) /\ "struct" \in refused
      /\ r.item # NoItem => Sound(Had(r), {r.item}, {o})
      /\ \A l : Value(Had(r), l) = Value(lib, l) /\ Found(Had(r), l) = Found(lib, l)
      /\ Had(r).odata = lib.odata
  <2>1. lib.odata = Had(r).odata
    BY DEF Sound, LibType, TookRef
  <2> QED
    BY <2>1, TakeRef
<1>3. Taken(r) = Holding(Had(r), r.item, k, o)
  OBVIOUS
<1> DEFINE had == Had(r)
           taken == Taken(r)
<1> HIDE DEF had
<1>4. r.item # NoItem =>
        /\ Sound(taken, {r.item}, {o}) /\ taken.rdata[r.item] = RefTo(k, o)
        /\ taken.odata = lib.odata
        /\ \A l : Value(taken, l) = Value(lib, l) /\ Found(taken, l) = Found(lib, l)
  <2>1. r.item # NoItem => Sound(had, {r.item}, {o})
    BY <1>2 DEF had
  <2>2. taken = Holding(had, r.item, k, o)
    BY <1>3 DEF had
  <2> HIDE DEF taken
  <2>3. r.item # NoItem =>
          /\ Sound(taken, {r.item}, {o}) /\ taken.rdata[r.item] = RefTo(k, o)
          /\ taken.odata = had.odata
          /\ \A l : Value(taken, l) = Value(had, l) /\ Found(taken, l) = Found(had, l)
    <3> HAVE r.item # NoItem
    <3>1. Held(Holding(had, r.item, k, o), had, r.item, k, o)
      BY <2>1, HoldIs
    <3> QED
      BY <2>2, <3>1 DEF Held
  <2> QED
    BY <1>2, <2>3 DEF had
<1> HIDE DEF Had, Taken, taken
<1>5. CASE r.item = NoItem /\ out = <<Refused(Had(r), o), "empty">>
  BY <1>2, <1>5, GiveObj
<1>6. CASE r.item # NoItem /\ Found(lib, k) # {} /\ out = <<Taken(r), "success">>
  <2>1. Sound(taken, {}, {})
    BY <1>4, <1>6, Dropped
  <2> QED
    BY <1>4, <1>6, <2>1 DEF taken
<1>7. CASE /\ r.item # NoItem /\ Found(lib, k) = {}
           /\ out = <<Inserted(Taken(r), r.item), "success">>
  <2>1. LET new == Inserted(taken, r.item) IN
        Sound(new, {}, {}) /\ Value(new, k) = v /\ \A l : l # k => Value(new, l) = Value(taken, l)
    BY <1>4, <1>7, InsertIs
  <2> QED
    BY <1>4, <1>7, <2>1 DEF taken
<1>8. CASE /\ r.item # NoItem /\ Found(lib, k) = {}
           /\ out = <<Refused(GaveRef(Taken(r), r.item), o), "library_add">>
  <2> DEFINE back == GaveRef(taken, r.item)
  <2>1. Sound(back, {}, {o}) /\ \A l : Value(back, l) = Value(taken, l)
    BY <1>4, <1>8, GiveRef
  <2>2. out = <<Refused(back, o), "library_add">>
    BY <1>8 DEF taken
  <2> HIDE DEF back
  <2>3. Sound(Refused(back, o), {}, {}) /\ \A l : Value(Refused(back, o), l) = Value(back, l)
    BY <2>1, GiveObj
  <2> QED
    BY <1>4, <1>8, <2>1, <2>2, <2>3
<1> QED
  BY <1>1, <1>5, <1>6, <1>7, <1>8

----------------------------------------------------------------------------
(* The steps                                                               *)

Contained == [k \in Keys |-> Content(k)]

LEMMA ContainedIs ==
  /\ Contained = [k \in Keys |-> Value(Library, k)]
  /\ Contained' = [k \in Keys |-> Value(Library', k)]
<1>1. \A k : Content(k) = Value(Library, k)
  BY DEF Content, Value, Library, Object, Refers
<1>2. ASSUME NEW k PROVE Content(k)' = Value(Library', k)
  BY DEF Content, Value, Library, Object, Refers, Found
<1> QED
  BY <1>1, <1>2 DEF Contained

LEMMA BecomesIs ==
  ASSUME NEW lib, NEW s, Sound(lib, {}, {}), Becomes(lib, s)
  PROVE  LibInv' /\ ret' = s /\ Contained' = [k \in Keys |-> Value(lib, k)]
<1>1. Library' = lib /\ refused' = refused /\ ret' = s
  BY DEF Becomes, Library, Sound, LibType
<1>2. LibInv'
  BY <1>1 DEF LibInv, Sound
<1> QED
  BY <1>1, <1>2, ContainedIs

\* A step of the map that the repository takes the library for.
Step(k) ==
  \/ \E v \in Vals : Map!Put(k, v)
  \/ Map!PutShadowed(k) \/ Map!PutFails(k) \/ Map!Delete(k) \/ Map!DeleteFails(k) \/ Map!Lookup(k)

LEMMA AddStep ==
  ASSUME LibInv, NEW k \in Keys, NEW v \in Vals, Add(k, v)
  PROVE  LibInv' /\ Step(k)
<1>1. Sound(Library, {}, {}) /\ Library.refs = refs /\ Library.objs = objs
  BY DEF LibInv, Library
<1>2. PICK o \in Extractions(objs, refused) :
        /\ ~o.overrun
        /\ \/ o.item = NoItem /\ Becomes([Library EXCEPT !.objs = o.list], "empty")
           \/ /\ o.item # NoItem
              /\ \E w \in Extractions(refs, refused) :
                   /\ ~w.overrun
                   /\ LET left == WithoutKey([Library EXCEPT !.objs = o.list], k, w)
                          filled == [left EXCEPT !.odata[o.item] = v]
                      IN  \E out \in Insertions(filled, k, o.item) : Becomes(out[1], out[2])
  BY Zenon DEF Add
<1> DEFINE lib == TookObj(Library, o.list)
<1>3. /\ Sound(lib, {}, IF o.item = NoItem THEN {} ELSE {o.item})
      /\ \A l : Value(lib, l) = Value(Library, l)
      /\ lib.refs = refs
  <2>1. lib.refs = refs
    BY DEF Library, TookObj
  <2> QED
    BY <1>1, <1>2, <2>1, TakeObj
<1> HIDE DEF lib
<1>4. CASE o.item = NoItem /\ Becomes(lib, "empty")
  <2>1. /\ LibInv' /\ ret' = "empty"
        /\ Contained' = [l \in Keys |-> Value(lib, l)]
    BY <1>3, <1>4, BecomesIs
  <2>2. Contained' = Contained
    BY <1>3, <2>1, ContainedIs
  <2>3. Map!PutFails(k)
    BY <2>1, <2>2 DEF Map!PutFails, Contained
  <2> QED
    BY <2>1, <2>3 DEF Step
<1>5. ASSUME o.item # NoItem, NEW w \in Extractions(refs, refused), ~w.overrun,
             NEW left, left = WithoutKey(lib, k, w),
             NEW filled, filled = Filled(left, o.item, v),
             NEW out \in Insertions(filled, k, o.item), Becomes(out[1], out[2])
      PROVE  LibInv' /\ Step(k)
  <2>1. /\ Sound(left, {}, {o.item})
        /\ \A l : l # k => Value(left, l) = Value(lib, l)
        /\ IF w.item = NoItem THEN "struct" \in refused /\ Value(left, k) = Value(lib, k)
           ELSE Found(left, k) = {} /\ Value(left, k) = Absent
    BY <1>3, <1>5, WithoutKeyIs
  <2>2. /\ Sound(filled, {}, {o.item}) /\ filled.odata[o.item] = v
        /\ \A l : Value(filled, l) = Value(left, l) /\ Found(filled, l) = Found(left, l)
    <3>1. Sound(left, {}, {o.item})
      BY <2>1
    <3>2. LET new == Filled(left, o.item, v) IN
          /\ Sound(new, {}, {o.item}) /\ new.odata[o.item] = v
          /\ \A l : Value(new, l) = Value(left, l) /\ Found(new, l) = Found(left, l)
      BY <3>1, FillIs, SMTT(30)
    <3> QED
      BY <1>5, <3>2
  <2>3. Found(filled, k) # {} => "struct" \in refused
    BY <2>1, <2>2
  <2>4. /\ Sound(out[1], {}, {})
        /\ \A l : l # k => Value(out[1], l) = Value(filled, l)
        /\ \/ out[2] = "success" /\ Value(out[1], k) = v
           \/ out[2] = "success" /\ Found(filled, k) # {} /\ Value(out[1], k) = Value(filled, k)
           \/ out[2] \in {"empty", "library_add"} /\ Value(out[1], k) = Value(filled, k)
    BY <1>5, <2>2, <2>3, InsertionsAre, SMTT(30)
  <2>5. /\ LibInv' /\ ret' = out[2]
        /\ Contained' = [l \in Keys |-> Value(out[1], l)]
    BY <1>5, <2>4, BecomesIs
  <2>6. Contained' = [Contained EXCEPT ![k] = Value(out[1], k)]
    BY <1>3, <2>1, <2>2, <2>4, <2>5, ContainedIs
  <2>7. Value(filled, k) \in {Absent, Value(Library, k)}
    BY <1>3, <2>1, <2>2
  <2>8. CASE out[2] = "success" /\ Value(out[1], k) = v
    <3>1. Map!Put(k, v)
      BY <2>5, <2>6, <2>8 DEF Map!Put, Contained
    <3> QED
      BY <2>5, <3>1 DEF Step
  <2>9. CASE /\ out[2] = "success" /\ Found(filled, k) # {}
             /\ Value(out[1], k) = Value(filled, k)
    <3>1. Value(filled, k) = Value(Library, k) /\ Value(Library, k) # Absent
      <4>1. Value(filled, k) \in Vals
        BY <2>2, <2>9, ValueIs
      <4> QED
        BY <2>7, <4>1, LibraryAssumption
    <3>2. Contained' = Contained /\ Contained[k] # Absent
      BY <2>6, <2>9, <3>1, ContainedIs
    <3>3. Map!PutShadowed(k)
      BY <2>5, <2>9, <3>2 DEF Map!PutShadowed, Contained
    <3> QED
      BY <2>5, <3>3 DEF Step
  <2>10. CASE out[2] \in {"empty", "library_add"} /\ Value(out[1], k) = Value(filled, k)
    <3>1. Contained' \in {Contained, [Contained EXCEPT ![k] = Absent]}
      BY <2>6, <2>7, <2>10, ContainedIs, ZenonT(30)
    <3>2. Map!PutFails(k)
      BY <2>5, <2>10, <3>1 DEF Map!PutFails, Contained
    <3> QED
      BY <2>5, <3>2 DEF Step
  <2> QED
    BY <2>4, <2>8, <2>9, <2>10
<1> QED
  BY <1>2, <1>4, <1>5 DEF lib, TookObj, Filled

LEMMA RemoveStep ==
  ASSUME LibInv, NEW k \in Keys, Remove(k)
  PROVE  LibInv' /\ Step(k)
<1>1. Sound(Library, {}, {}) /\ Library.refs = refs
  BY DEF LibInv, Library
<1>2. PICK w \in Extractions(refs, refused) :
        /\ ~w.overrun
        /\ Becomes(WithoutKey(Library, k, w),
                   CASE w.item = NoItem -> "empty"
                     [] w.item # NoItem /\ Found(Library, k) = {} -> "not_found"
                     [] OTHER -> "success")
  BY Zenon DEF Remove
<1> DEFINE left == WithoutKey(Library, k, w)
           status == CASE w.item = NoItem -> "empty"
                       [] w.item # NoItem /\ Found(Library, k) = {} -> "not_found"
                       [] OTHER -> "success"
<1>3. /\ Sound(left, {}, {})
      /\ \A l : l # k => Value(left, l) = Value(Library, l)
      /\ IF w.item = NoItem THEN Value(left, k) = Value(Library, k) ELSE Value(left, k) = Absent
  BY <1>1, <1>2, WithoutKeyIs
<1>4. Becomes(left, status)
  BY <1>2
<1> HIDE DEF left
<1>5. status = IF w.item = NoItem THEN "empty" ELSE IF Found(Library, k) = {} THEN "not_found" ELSE "success"
  OBVIOUS
<1> HIDE DEF status
<1>6. LibInv' /\ ret' = status /\ Contained' = [l \in Keys |-> Value(left, l)]
  BY <1>3, <1>4, BecomesIs
<1>7. Contained' = [Contained EXCEPT ![k] = Value(left, k)] /\ Contained[k] = Value(Library, k)
  BY <1>3, <1>6, ContainedIs
<1>8. Value(Library, k) = Absent <=> Found(Library, k) = {}
  BY <1>1, ValueIs, LibraryAssumption
<1>9. Contained = [Contained EXCEPT ![k] = Contained[k]]
  BY ContainedIs
<1>10. CASE w.item = NoItem \/ Found(Library, k) = {}
  <2>1. Contained' = Contained /\ (ret' = "empty" \/ (Contained[k] = Absent /\ ret' = "not_found"))
    BY <1>3, <1>5, <1>6, <1>7, <1>8, <1>9, <1>10
  <2>2. Map!DeleteFails(k)
    BY <2>1 DEF Map!DeleteFails, Contained
  <2> QED
    BY <1>6, <2>2 DEF Step
<1>11. CASE w.item # NoItem /\ Found(Library, k) # {}
  <2>1. /\ Contained' = [Contained EXCEPT ![k] = Absent]
        /\ ret' = "success" /\ Contained[k] # Absent
    BY <1>3, <1>5, <1>6, <1>7, <1>8, <1>11
  <2>2. Map!Delete(k)
    BY <2>1 DEF Map!Delete, Contained
  <2> QED
    BY <1>6, <2>2 DEF Step
<1> QED
  BY <1>10, <1>11

LEMMA GetStep ==
  ASSUME LibInv, NEW k \in Keys, Get(k)
  PROVE  LibInv' /\ Step(k)
<1>1. Sound(Library, {}, {}) /\ Library.refs = refs /\ Library.odata = odata /\ Library.rdata = rdata
  BY DEF LibInv, Library
<1>2. PICK w \in Extractions(refs, refused) :
        /\ ~w.overrun
        /\ Becomes([Library EXCEPT !.refs = IF w.item = NoItem THEN w.list ELSE Released(w.list, w.item)],
                   CASE w.item = NoItem -> "empty"
                     [] w.item # NoItem /\ Found(Library, k) = {} -> "not_found"
                     [] OTHER -> odata[rdata[CHOOSE i \in Found(Library, k) : TRUE].obj])
  BY Zenon DEF Get
<1> DEFINE had == TookRef(Library, w.list)
           new == [Library EXCEPT !.refs = IF w.item = NoItem THEN w.list ELSE Released(w.list, w.item)]
           status == CASE w.item = NoItem -> "empty"
                       [] w.item # NoItem /\ Found(Library, k) = {} -> "not_found"
                       [] OTHER -> odata[rdata[CHOOSE i \in Found(Library, k) : TRUE].obj]
<1>3. Becomes(new, status)
  BY <1>2
<1>4. status = IF w.item = NoItem THEN "empty"
               ELSE IF Found(Library, k) = {} THEN "not_found" ELSE Value(Library, k)
  BY <1>1 DEF Value, Object
<1>5. new = IF w.item = NoItem THEN had ELSE GaveRef(had, w.item)
  BY DEF Library, TookRef, GaveRef
<1> HIDE DEF new, status
<1>6. /\ w.item = NoItem => Sound(had, {}, {})
      /\ w.item # NoItem => Sound(had, {w.item}, {})
      /\ \A l : Value(had, l) = Value(Library, l)
  BY <1>1, <1>2, TakeRef
<1> HIDE DEF had
<1>7. Sound(new, {}, {}) /\ \A l : Value(new, l) = Value(Library, l)
  <2>1. CASE w.item = NoItem
    BY <1>5, <1>6, <2>1
  <2>2. CASE w.item # NoItem
    <3>1. Sound(new, {}, {}) /\ \A l : Value(new, l) = Value(had, l)
      BY <1>5, <1>6, <2>2, GiveRef
    <3> QED
      BY <1>6, <3>1
  <2> QED
    BY <2>1, <2>2
<1>8. LibInv' /\ ret' = status /\ Contained' = [l \in Keys |-> Value(new, l)]
  BY <1>3, <1>7, BecomesIs
<1>9. Contained' = Contained /\ Contained[k] = Value(Library, k)
  BY <1>7, <1>8, ContainedIs
<1>10. Value(Library, k) = Absent <=> Found(Library, k) = {}
  BY <1>1, ValueIs, LibraryAssumption
<1>11. ret' = "empty" \/ ret' = IF Contained[k] = Absent THEN "not_found" ELSE Contained[k]
  BY <1>4, <1>8, <1>9, <1>10
<1>12. Map!Lookup(k)
  BY <1>9, <1>11 DEF Map!Lookup, Contained
<1> QED
  BY <1>8, <1>12 DEF Step

LEMMA InitSound == LibInit => LibInv /\ Map!MapInit
<1> SUFFICES ASSUME LibInit PROVE LibInv /\ Map!MapInit
  OBVIOUS
<1>1. /\ ListOK(refs) /\ ListOK(objs) /\ Used(refs) = {} /\ Used(objs) = {}
  BY NewListIs DEF LibInit
<1>2. /\ tree = {} /\ rdata \in [Slots -> RefItems] /\ odata \in [Slots -> Vals \cup {Absent}]
  BY DEF LibInit, NoRef, RefItems
<1>3. Library \in LibType
  BY <1>1, <1>2 DEF Library, LibType, ListOK, Lists
<1>4. /\ Library.refs = refs /\ Library.objs = objs /\ Library.tree = {}
  BY <1>2 DEF Library
<1>5. {Object(Library, i) : i \in Library.tree} = {}
  BY <1>4
<1>6. LibInv
  BY <1>1, <1>3, <1>4, <1>5 DEF LibInv, Sound
<1>7. \A k : Value(Library, k) = Absent
  BY <1>4 DEF Value, Found
<1>8. Contained = [k \in Keys |-> Absent]
  BY <1>7, ContainedIs
<1>9. ret = "none"
  BY DEF LibInit
<1> QED
  BY <1>6, <1>8, <1>9 DEF Map!MapInit, Contained

LEMMA StepIs ==
  ASSUME LibInv, [LibNext]_libVars
  PROVE  LibInv' /\ [Map!MapNext]_<<Contained, ret>>
<1>1. ASSUME NEW k \in Keys, NEW v \in Vals, Add(k, v) PROVE LibInv' /\ Step(k)
  BY <1>1, AddStep
<1>2. ASSUME NEW k \in Keys, Remove(k) PROVE LibInv' /\ Step(k)
  BY <1>2, RemoveStep
<1>3. ASSUME NEW k \in Keys, Get(k) PROVE LibInv' /\ Step(k)
  BY <1>3, GetStep
<1>4. CASE Crash \/ UNCHANGED libVars
  <2>1. UNCHANGED <<refs, objs, tree, rdata, odata, ret, refused>>
    BY <1>4 DEF Crash, libVars
  <2>2. Library' = Library
    BY <2>1 DEF Library
  <2>3. LibInv'
    BY <2>1, <2>2 DEF LibInv, Sound
  <2>4. Contained' = Contained
    BY <2>2, ContainedIs
  <2> QED
    BY <2>1, <2>3, <2>4
<1>5. ASSUME NEW k \in Keys, Step(k) PROVE Map!MapNext
  BY <1>5, Zenon DEF Step, Map!MapNext
<1> QED
  BY <1>1, <1>2, <1>3, <1>4, <1>5 DEF LibNext

----------------------------------------------------------------------------
(* What holds of every library                                             *)

THEOREM LibraryInvariant == LibSpec => []LibInv
<1>1. LibInit => LibInv
  BY InitSound
<1>2. LibInv /\ [LibNext]_libVars => LibInv'
  BY StepIs
<1> QED
  BY <1>1, <1>2, PTL DEF LibSpec

\* No item of either freelist is in two places: neither in the tree and free, nor
\* the object of two references, nor under a reference that the tree has twice.
THEOREM ItemsAreInOnePlace == LibSpec => []NoAliases
<1>1. LibInv => NoAliases
  BY LibraryAssumption DEF LibInv, Sound, ItemOK, Object, Refers, NoAliases, Library, Used
<1> QED
  BY <1>1, LibraryInvariant, PTL

\* Unless malloc refuses small blocks, what is not in the tree can be extracted again.
THEOREM ItemsComeBack == LibSpec => []NothingLost
<1>1. LibInv => NothingLost
  <2> SUFFICES ASSUME LibInv, "struct" \notin refused
               PROVE  /\ refs.free = Contents(refs) \ tree
                      /\ objs.free = Contents(objs) \ {Refers(i) : i \in tree}
    BY DEF NothingLost
  <2>1. /\ Used(refs) = tree /\ refs.free \subseteq Contents(refs)
        /\ Used(objs) = {Refers(i) : i \in tree} /\ objs.free \subseteq Contents(objs)
    BY DEF LibInv, Sound, Object, Refers, Library, ListOK
  <2> QED
    BY <2>1 DEF Used
<1> QED
  BY <1>1, LibraryInvariant, PTL

\* xlibrary.c is the map that the repository takes it for, with its failures: the
\* steps of LibMap are those that CredRepo has for its library.
THEOREM LibraryImplementsMap == LibSpec => ImplementsMap
<1>1. LibInit => Map!MapInit
  BY InitSound
<1>2. LibInv /\ [LibNext]_libVars => [Map!MapNext]_<<Contained, ret>>
  BY StepIs
<1>3. LibInv /\ [LibNext]_libVars => [Map!MapNext]_<<[k \in Keys |-> Content(k)], ret>>
  BY <1>2 DEF Contained
<1> QED
  BY <1>1, <1>3, LibraryInvariant, PTL DEF LibSpec, ImplementsMap, Map!MapSpec
=============================================================================
