---------------------------- MODULE XqueueProofs ----------------------------
(***************************************************************************)
(* Proof that the queue loses no wakeup, for any number of consumers and   *)
(* any length.  One condition variable serves both sides, so that the      *)
(* signal of an enqueue may be taken by another producer that waits for a  *)
(* free item: either there is one producer, as the dispatcher of auksd is, *)
(* or malloc always extends the freelist and no producer ever waits.       *)
(***************************************************************************)
EXTENDS Xqueue, FiniteSetTheorems, TLAPS

OneProducer == \A p, q \in Producers : p = q

NoRival == OneProducer \/ MayExtend = {TRUE}

\* Each side makes its own calls, a wait is inside a call, and an enqueue has an item.
Roles ==
  /\ \A p \in Producers : frame[p].call # "dequeue"
  /\ \A c \in Consumers : frame[c].call # "enqueue"
  /\ \A t \in Threads : frame[t].waiting => frame[t].call # "none"
  /\ \A t \in Threads : frame[t].call = "enqueue" => frame[t].item \in Items

\* While a producer runs no other one waits.
RivalsAwake == \A p, q \in Producers : p # q => ~frame[p].waiting

QueueInv == XqueueTypeOK /\ Roles /\ RivalsAwake /\ NoLostWakeup

-----------------------------------------------------------------------------

LEMMA ReturnedType == Returned \in Frames
BY DEF Returned, Frames

\* What a signal does to the frames: nothing, or one waiting thread wakes.
LEMMA SignalEffect ==
  ASSUME XqueueTypeOK, NEW t \in Threads, NEW r \in Frames, ~r.waiting,
         Signal([frame EXCEPT ![t] = r])
  PROVE  /\ frame' \in [Threads -> Frames]
         /\ \A u \in Threads \ {t} :
              /\ frame'[u].call = frame[u].call /\ frame'[u].item = frame[u].item
              /\ frame'[u].waiting => frame[u].waiting
         /\ frame'[t].call = r.call /\ frame'[t].item = r.item /\ ~frame'[t].waiting
         /\ Waiting # {} => \E u \in Waiting : ~frame'[u].waiting
PROOF
  <1> DEFINE f == [frame EXCEPT ![t] = r]
  <1>1. f \in [Threads -> Frames] /\ f[t] = r /\ \A u \in Threads \ {t} : f[u] = frame[u]
    BY DEF XqueueTypeOK
  <1>2. CASE Waiting = {}
    <2>1. frame' = f
      BY <1>2 DEF Signal
    <2> QED
      BY <1>1, <1>2, <2>1 DEF Frames
  <1>3. CASE Waiting # {}
    <2>1. PICK u \in Waiting : frame' = Wake(f, u)
      BY <1>3 DEF Signal
    <2>2. u \in Threads
      BY DEF Waiting
    <2>3. frame' = [f EXCEPT ![u] = [f[u] EXCEPT !.waiting = FALSE]]
      BY <2>1 DEF Wake
    <2>4. f[u] \in Frames
      BY <1>1, <2>2
    <2>5. [f[u] EXCEPT !.waiting = FALSE] \in Frames
      BY <2>4 DEF Frames
    <2> QED
      BY <1>1, <1>3, <2>2, <2>3, <2>4, <2>5 DEF Frames
  <1> QED
    BY <1>2, <1>3

LEMMA AwakeFinite == IsFiniteSet(Awake)
BY XqueueAssumption, FS_Subset DEF Awake


LEMMA InitInv == XqueueInit => QueueInv
<1> SUFFICES ASSUME XqueueInit PROVE QueueInv
  OBVIOUS
<1>1. frame \in [Threads -> Frames] /\ \A t \in Threads : frame[t] = Returned
  BY ReturnedType DEF XqueueInit
<1>2. XqueueTypeOK
  BY <1>1, XqueueAssumption DEF XqueueInit, XqueueTypeOK
<1>3. Roles
  BY <1>1 DEF Roles, Threads, Returned
<1>4. RivalsAwake
  BY <1>1 DEF RivalsAwake, Threads, Returned
<1>5. Sleeping = {}
  BY <1>1 DEF Sleeping, Threads, Returned
<1> QED
  BY <1>2, <1>3, <1>4, <1>5 DEF QueueInv, NoLostWakeup

\* A step after which the same consumers are awake, or more, that puts nothing into the
\* queue, and after which nobody sleeps who did not, loses no wakeup.
LEMMA NobodyFallsAsleep ==
  ASSUME QueueInv, queue' = queue, Sleeping' \subseteq Sleeping,
         \A c \in Awake : Sleeping' = {} \/ c \in Awake' \/ queue = <<>>
  PROVE  NoLostWakeup'
PROOF
  <1> SUFFICES ASSUME Sleeping' # {} PROVE Len(queue') <= Cardinality(Awake')
    BY DEF NoLostWakeup
  <1>1. IsFiniteSet(Awake')
    BY XqueueAssumption, FS_Subset DEF Awake
  <1>2. Cardinality(Awake) \in Nat /\ Cardinality(Awake') \in Nat
    BY <1>1, AwakeFinite, FS_CardinalityType
  <1>3. CASE queue = <<>>
    BY <1>2, <1>3
  <1>4. CASE queue # <<>>
    <2>1. Awake \in SUBSET Awake'
      BY <1>4
    <2>2. Cardinality(Awake) <= Cardinality(Awake')
      BY ONLY <2>1, <1>1, FS_Subset
    <2> QED
      BY <1>2, <2>2 DEF QueueInv, NoLostWakeup, XqueueTypeOK
  <1> QED
    BY <1>3, <1>4

\* The frame of one thread changes, the queue does not: a call begins, ends without
\* an element or begins to wait on an empty queue, or a wait ends.
LEMMA OneFrame ==
  ASSUME QueueInv, NEW t \in Threads, NEW r \in Frames, UNCHANGED <<queue, spare>>,
         frame' = [frame EXCEPT ![t] = r],
         t \in Producers => r.call # "dequeue",
         t \in Consumers => r.call # "enqueue",
         r.waiting => r.call # "none",
         r.call = "enqueue" => r.item \in Items,
         t \in Producers => (r.waiting => frame[t].waiting \/ \A q \in Producers : q = t),
         t \in Consumers => (r.waiting => frame[t].waiting \/ queue = <<>>),
         t \in Awake => (queue = <<>> \/ (r.call = "dequeue" /\ ~r.waiting))
  PROVE  QueueInv'
PROOF
  <1>1. frame' \in [Threads -> Frames] /\ frame'[t] = r /\ \A u \in Threads \ {t} : frame'[u] = frame[u]
    BY DEF QueueInv, XqueueTypeOK
  <1>2. XqueueTypeOK'
    BY <1>1 DEF QueueInv, XqueueTypeOK
  <1>3. Roles'
    BY <1>1 DEF QueueInv, Roles, Threads
  <1>4. RivalsAwake'
    BY <1>1 DEF QueueInv, RivalsAwake, Threads
  <1>5. NoLostWakeup'
    <2>1. CASE queue = <<>>
      <3>1. IsFiniteSet(Awake')
        BY XqueueAssumption, FS_Subset DEF Awake
      <3> QED
        BY <2>1, <3>1, FS_CardinalityType DEF NoLostWakeup
    <2>2. CASE queue # <<>>
      <3>1. Sleeping' \subseteq Sleeping
        BY <1>1, <2>2 DEF Sleeping, Calling, Threads, QueueInv, Roles, XqueueTypeOK, Frames
      <3>2. \A c \in Awake : c \in Awake'
        BY <1>1, <2>2 DEF Awake, Running, Calling, Threads
      <3> QED
        BY <3>1, <3>2, NobodyFallsAsleep
    <2> QED
      BY <2>1, <2>2
  <1> QED
    BY <1>2, <1>3, <1>4, <1>5 DEF QueueInv


\* An element goes in, and its signal wakes a consumer if one sleeps: no other producer
\* waits that could take the signal.
LEMMA EnqueueKeeps ==
  ASSUME QueueInv, NEW p \in Producers, Enqueue(p),
         \A q \in Producers : q # p => ~frame[q].waiting
  PROVE  QueueInv'
PROOF
  <1>0. p \in Threads /\ ~frame[p].waiting /\ frame[p].call = "enqueue"
    BY DEF Enqueue, Running, Calling, Threads
  <1>1. Returned \in Frames /\ ~Returned.waiting /\ Returned.call = "none"
    BY ReturnedType DEF Returned
  <1>2. Signal([frame EXCEPT ![p] = Returned])
    BY DEF Enqueue
  <1>3. /\ frame' \in [Threads -> Frames]
        /\ \A u \in Threads \ {p} : /\ frame'[u].call = frame[u].call /\ frame'[u].item = frame[u].item
                                    /\ frame'[u].waiting => frame[u].waiting
        /\ frame'[p].call = "none" /\ ~frame'[p].waiting
        /\ Waiting # {} => \E u \in Waiting : ~frame'[u].waiting
    BY <1>0, <1>1, <1>2, SignalEffect DEF QueueInv
  <1>4. frame[p].item \in Items
    BY <1>0 DEF QueueInv, Roles
  <1>5. queue \in Seq(Items) /\ queue' = Append(queue, frame[p].item) /\ spare \in Nat
    BY DEF Enqueue, QueueInv, XqueueTypeOK
  <1>6. queue' \in Seq(Items) /\ Len(queue') = Len(queue) + 1 /\ Len(queue) \in Nat
    BY <1>4, <1>5
  <1>7. spare' \in Nat
    <2>1. Extract
      BY DEF Enqueue
    <2>2. QueueSize - 1 \in Nat
      BY XqueueAssumption
    <2>3. CASE spare > 0 /\ spare' = spare - 1
      BY <1>5, <2>3
    <2>4. CASE spare' = QueueSize - 1
      BY <2>2, <2>4
    <2> QED
      BY <2>1, <2>3, <2>4, Zenon DEF Extract
  <1>8. XqueueTypeOK'
    BY <1>3, <1>6, <1>7 DEF XqueueTypeOK
  <1>9. Roles'
    BY <1>3 DEF QueueInv, Roles, Threads
  <1>10. RivalsAwake'
    BY <1>3 DEF QueueInv, RivalsAwake, Threads
  <1>11. NoLostWakeup'
    <2> SUFFICES ASSUME Sleeping' # {} PROVE Len(queue') <= Cardinality(Awake')
      BY DEF NoLostWakeup
    <2>1. p \notin Consumers
      BY XqueueAssumption
    <2>2. \A c \in Consumers : c \in Threads \ {p}
      BY <2>1 DEF Threads
    <2>3. Sleeping' \subseteq Sleeping
      BY <1>3, <2>2 DEF Sleeping, Calling
    <2>4. Waiting # {}
      BY <2>3 DEF Sleeping, Waiting, Threads
    <2>5. PICK w \in Waiting : ~frame'[w].waiting
      BY <1>3, <2>4
    <2>6. w \in Consumers /\ frame[w].waiting
      BY <1>0 DEF Waiting, Threads
    <2>7. frame[w].call = "dequeue"
      <3>1. w \in Threads /\ frame[w] \in Frames
        BY <2>6 DEF Threads, QueueInv, XqueueTypeOK
      <3> QED
        BY <2>6, <3>1 DEF QueueInv, Roles, Frames
    <2>8. w \in Awake' /\ w \notin Awake
      BY <1>3, <2>2, <2>5, <2>6, <2>7 DEF Awake, Running, Calling
    <2>9. Awake \subseteq Awake'
      BY <1>3, <2>2 DEF Awake, Running, Calling
    <2>10. IsFiniteSet(Awake')
      BY XqueueAssumption, FS_Subset DEF Awake
    <2>11. Cardinality(Awake \cup {w}) = Cardinality(Awake) + 1
      BY <2>8, AwakeFinite, FS_AddElement
    <2>12. Awake \cup {w} \in SUBSET Awake'
      BY <2>8, <2>9
    <2>13. Cardinality(Awake \cup {w}) <= Cardinality(Awake')
      BY ONLY <2>10, <2>12, FS_Subset
    <2>14. Sleeping # {}
      BY <2>3
    <2>15. Len(queue) <= Cardinality(Awake)
      BY <2>14 DEF QueueInv, NoLostWakeup
    <2>16. Cardinality(Awake) \in Nat /\ Cardinality(Awake') \in Nat
      BY <2>10, AwakeFinite, FS_CardinalityType
    <2> QED
      BY <1>6, <2>11, <2>13, <2>15, <2>16
  <1> QED
    BY <1>8, <1>9, <1>10, <1>11 DEF QueueInv

\* An element goes out with one of the awake consumers.
LEMMA DequeueKeeps ==
  ASSUME QueueInv, NEW c \in Consumers, Dequeue(c)
  PROVE  QueueInv'
PROOF
  <1> DEFINE r == [Returned EXCEPT !.item = Head(queue)]
  <1>0. c \in Threads /\ ~frame[c].waiting /\ frame[c].call = "dequeue" /\ queue # <<>>
    BY DEF Dequeue, Running, Calling, Threads
  <1>5. queue \in Seq(Items) /\ queue' = Tail(queue) /\ spare \in Nat /\ spare' = spare + 1
    BY DEF Dequeue, QueueInv, XqueueTypeOK
  <1>6. queue' \in Seq(Items) /\ Len(queue') = Len(queue) - 1 /\ Len(queue) \in Nat /\ Head(queue) \in Items
    BY <1>0, <1>5
  <1>1. r \in Frames /\ ~r.waiting /\ r.call = "none"
    BY <1>6 DEF Returned, Frames
  <1>2. Signal([frame EXCEPT ![c] = r])
    BY DEF Dequeue
  <1> HIDE DEF r
  <1>3. /\ frame' \in [Threads -> Frames]
        /\ \A u \in Threads \ {c} : /\ frame'[u].call = frame[u].call /\ frame'[u].item = frame[u].item
                                    /\ frame'[u].waiting => frame[u].waiting
        /\ frame'[c].call = "none" /\ ~frame'[c].waiting
    BY <1>0, <1>1, <1>2, SignalEffect DEF QueueInv
  <1>8. XqueueTypeOK'
    BY <1>3, <1>5, <1>6 DEF XqueueTypeOK
  <1>9. Roles'
    BY <1>3 DEF QueueInv, Roles, Threads
  <1>10. RivalsAwake'
    BY <1>3 DEF QueueInv, RivalsAwake, Threads
  <1>11. NoLostWakeup'
    <2> SUFFICES ASSUME Sleeping' # {} PROVE Len(queue') <= Cardinality(Awake')
      BY DEF NoLostWakeup
    <2>1. Sleeping' \subseteq Sleeping
      BY <1>3 DEF Sleeping, Calling, Threads
    <2>2. Len(queue) <= Cardinality(Awake)
      BY <2>1 DEF QueueInv, NoLostWakeup
    <2>3. c \in Awake
      BY <1>0 DEF Awake, Running, Calling
    <2>4. Cardinality(Awake \ {c}) = Cardinality(Awake) - 1
      BY <2>3, AwakeFinite, FS_RemoveElement
    <2>5. Awake \ {c} \in SUBSET Awake'
      BY <1>3 DEF Awake, Running, Calling, Threads
    <2>6. IsFiniteSet(Awake')
      BY XqueueAssumption, FS_Subset DEF Awake
    <2>7. Cardinality(Awake \ {c}) <= Cardinality(Awake')
      BY ONLY <2>5, <2>6, FS_Subset
    <2>8. Cardinality(Awake) \in Nat /\ Cardinality(Awake') \in Nat
      BY <2>6, AwakeFinite, FS_CardinalityType
    <2> QED
      BY <1>6, <2>2, <2>4, <2>7, <2>8
  <1> QED
    BY <1>8, <1>9, <1>10, <1>11 DEF QueueInv


LEMMA WaitKeeps ==
  ASSUME QueueInv, NEW t \in Threads, NEW w \in BOOLEAN, UNCHANGED <<queue, spare>>,
         frame' = [frame EXCEPT ![t].waiting = w],
         frame[t].call # "none",
         t \in Producers => (w => \A q \in Producers : q = t),
         t \in Consumers => (w => queue = <<>>)
  PROVE  QueueInv'
PROOF
  <1> DEFINE r == [call |-> frame[t].call, blocking |-> frame[t].blocking, waiting |-> w, item |-> frame[t].item]
  <1>1. frame \in [Threads -> Frames] /\ frame[t] \in Frames
    BY DEF QueueInv, XqueueTypeOK
  <1>2. r \in Frames /\ r = [frame[t] EXCEPT !.waiting = w]
    BY <1>1 DEF Frames
  <1>3. frame' = [frame EXCEPT ![t] = r]
    BY <1>2
  <1>4. r.call = frame[t].call /\ r.waiting = w /\ r.item = frame[t].item
    OBVIOUS
  <1>5. /\ t \in Producers => r.call # "dequeue"
        /\ t \in Consumers => r.call # "enqueue"
        /\ r.call = "enqueue" => r.item \in Items
    BY <1>4 DEF QueueInv, Roles
  <1>6. t \in Awake => (queue = <<>> \/ (r.call = "dequeue" /\ ~r.waiting))
    BY <1>4 DEF Awake, Running, Calling
  <1>7. /\ r.waiting => r.call # "none"
        /\ t \in Producers => (r.waiting => frame[t].waiting \/ \A q \in Producers : q = t)
        /\ t \in Consumers => (r.waiting => frame[t].waiting \/ queue = <<>>)
    BY <1>4, Zenon
  <1> HIDE DEF r
  <1> QED
    BY <1>2, <1>3, <1>5, <1>6, <1>7, OneFrame

LEMMA ReturnKeeps ==
  ASSUME QueueInv, NEW t \in Threads, UNCHANGED <<queue, spare>>,
         frame' = [frame EXCEPT ![t] = Returned],
         t \in Awake => queue = <<>>
  PROVE  QueueInv'
PROOF
  <1>1. Returned \in Frames /\ Returned.call = "none" /\ ~Returned.waiting
    BY ReturnedType DEF Returned
  <1> QED
    BY <1>1, OneFrame

LEMMA ProducerKeeps ==
  ASSUME NoRival, QueueInv, NEW p \in Producers,
         (\E d \in Items, b \in BOOLEAN : CallEnqueue(p, d, b)) \/ EnqueueStep(p)
  PROVE  QueueInv'
PROOF
  <1>0. p \in Threads /\ p \notin Consumers /\ p \notin Awake
    BY XqueueAssumption DEF Threads, Awake
  <1>1. CASE \E d \in Items, b \in BOOLEAN : CallEnqueue(p, d, b)
    <2>1. PICK d \in Items, b \in BOOLEAN : CallEnqueue(p, d, b)
      BY <1>1
    <2> DEFINE r == [call |-> "enqueue", blocking |-> b, waiting |-> FALSE, item |-> d]
    <2>2. r \in Frames /\ r.call = "enqueue" /\ ~r.waiting /\ r.item \in Items
      BY DEF Frames
    <2>3. frame' = [frame EXCEPT ![p] = r] /\ UNCHANGED <<queue, spare>>
      BY <2>1 DEF CallEnqueue
    <2> HIDE DEF r
    <2> QED
      BY <1>0, <2>2, <2>3, OneFrame
  <1>2. CASE Enqueue(p)
    <2>1. \A q \in Producers : q # p => ~frame[q].waiting
      BY DEF QueueInv, RivalsAwake
    <2> QED
      BY <1>2, <2>1, EnqueueKeeps
  <1>3. CASE EnqueueWait(p)
    <2>1. \A q \in Producers : q = p
      BY <1>3 DEF NoRival, OneProducer, EnqueueWait, ExtractFails
    <2>2. frame' = [frame EXCEPT ![p].waiting = TRUE] /\ UNCHANGED <<queue, spare>> /\ frame[p].call # "none"
      BY <1>3 DEF EnqueueWait, Running, Calling
    <2> QED
      BY <1>0, <2>1, <2>2, WaitKeeps
  <1>4. CASE EnqueueRefused(p)
    BY <1>0, <1>4, ReturnKeeps DEF EnqueueRefused
  <1> QED
    BY <1>1, <1>2, <1>3, <1>4 DEF EnqueueStep

LEMMA ConsumerKeeps ==
  ASSUME QueueInv, NEW c \in Consumers, Consume(c) \/ DequeueStep(c) \/ CancelWait(c)
  PROVE  QueueInv'
PROOF
  <1>0. c \in Threads /\ c \notin Producers
    BY XqueueAssumption DEF Threads
  <1>1. CASE Consume(c)
    <2>1. PICK b \in BOOLEAN : CallDequeue(c, b)
      BY <1>1 DEF Consume
    <2> DEFINE r == [call |-> "dequeue", blocking |-> b, waiting |-> FALSE, item |-> NoItem]
    <2>2. r \in Frames /\ r.call = "dequeue" /\ ~r.waiting
      BY DEF Frames
    <2>3. frame' = [frame EXCEPT ![c] = r] /\ UNCHANGED <<queue, spare>>
      BY <2>1 DEF CallDequeue
    <2> HIDE DEF r
    <2> QED
      BY <1>0, <2>2, <2>3, OneFrame
  <1>2. CASE Dequeue(c)
    BY <1>2, DequeueKeeps
  <1>3. CASE DequeueWait(c)
    <2>1. queue = <<>> /\ frame[c].call # "none"
      BY <1>3 DEF DequeueWait, MustWait, Running, Calling
    <2>2. frame' = [frame EXCEPT ![c].waiting = TRUE] /\ UNCHANGED <<queue, spare>>
      BY <1>3 DEF DequeueWait
    <2> QED
      BY <1>0, <2>1, <2>2, WaitKeeps
  <1>4. CASE DequeueEmpty(c)
    BY <1>0, <1>4, ReturnKeeps DEF DequeueEmpty
  <1>5. CASE CancelWait(c)
    <2>1. c \in Awake => queue = <<>>
      BY <1>5 DEF CancelWait, MustWait, Awake, Running
    <2> QED
      BY <1>0, <1>5, <2>1, ReturnKeeps DEF CancelWait
  <1> QED
    BY <1>1, <1>2, <1>3, <1>4, <1>5 DEF DequeueStep

LEMMA StutterKeeps == ASSUME QueueInv, UNCHANGED queueVars PROVE QueueInv'
BY DEF queueVars, QueueInv, XqueueTypeOK, Roles, RivalsAwake, NoLostWakeup, Sleeping, Awake, Running, Calling

\* With one producer, or memory for every extension, the invariant holds whatever the
\* numbers of threads, elements and free items.
THEOREM QueueInvariant == ASSUME NoRival PROVE XqueueSpec => []QueueInv
PROOF
  <1>1. QueueInv /\ [XqueueNext]_queueVars => QueueInv'
    <2> SUFFICES ASSUME QueueInv, [XqueueNext]_queueVars PROVE QueueInv'
      OBVIOUS
    <2>1. CASE \E p \in Producers : Produce(p) \/ EnqueueStep(p)
      BY <2>1, ProducerKeeps DEF Produce
    <2>2. CASE \E c \in Consumers : Consume(c) \/ DequeueStep(c) \/ CancelWait(c)
      BY <2>2, ConsumerKeeps
    <2>3. ASSUME NEW t \in Threads, SpuriousWakeup(t) PROVE QueueInv'
      <3>1. frame' = [frame EXCEPT ![t].waiting = FALSE] /\ UNCHANGED <<queue, spare>>
        BY <2>3 DEF SpuriousWakeup, Wake
      <3>2. frame[t].call # "none"
        BY <2>3 DEF SpuriousWakeup, QueueInv, Roles
      <3> QED
        BY <3>1, <3>2, WaitKeeps
    <2>4. CASE UNCHANGED queueVars
      BY <2>4, StutterKeeps
    <2> QED
      BY <2>1, <2>2, <2>3, <2>4 DEF XqueueNext
  <1> QED
    BY <1>1, InitInv, PTL DEF XqueueSpec

\* No wakeup is lost (xqueue.c: one pthread_cond_signal per element, on a condition
\* variable that producers and consumers share): while a consumer sleeps, each queued
\* element has an awake consumer on its way.
THEOREM WakeupsReachConsumers == ASSUME NoRival PROVE XqueueSpec => []NoLostWakeup
<1>1. QueueInv => NoLostWakeup
  BY DEF QueueInv
<1> QED
  BY <1>1, QueueInvariant, PTL
=============================================================================
