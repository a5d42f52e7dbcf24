------------------------------- MODULE Xqueue -------------------------------
(***************************************************************************)
(* The bounded FIFO queue of src/api/xternal/xqueue.c, through which the   *)
(* dispatcher of auksd hands accepted sockets over to its workers.  One    *)
(* mutex, held over each passage through a loop body, and one condition    *)
(* variable, which consumers wait on for an element and producers for a    *)
(* free item of the freelist (src/api/xternal/xfreelist.c).                *)
(*                                                                         *)
(* A passage from the taking of the mutex to its release, or to            *)
(* pthread_cond_wait, is one action.                                       *)
(***************************************************************************)
EXTENDS Integers, Sequences, FiniteSets

CONSTANTS
  Producers,   \* the threads that enqueue
  Consumers,   \* the threads that dequeue
  Items,       \* the elements
  NoItem,
  QueueSize,   \* the length of the freelist, and of each of its extensions
  MayExtend,   \* what malloc may answer to an extension, a subset of BOOLEAN
  MaxLength    \* bound: producers stop at this length

ASSUME XqueueAssumption ==
  /\ IsFiniteSet(Producers \cup Consumers)
  /\ Producers \cap Consumers = {}
  /\ NoItem \notin Items
  /\ QueueSize \in Nat \ {0}
  /\ MayExtend \subseteq BOOLEAN /\ MayExtend # {}
  /\ MaxLength \in Nat

Threads == Producers \cup Consumers

VARIABLES
  queue,   \* the queued elements, oldest first
  spare,   \* the number of free items in the freelist and its extensions
  frame    \* the call each thread is in

queueVars == <<queue, spare, frame>>

\* item is the argument of an enqueue, or the last result of a dequeue.
Returned == [call |-> "none", blocking |-> TRUE, waiting |-> FALSE, item |-> NoItem]

Frames == [call : {"none", "enqueue", "dequeue"}, blocking : BOOLEAN,
           waiting : BOOLEAN, item : Items \cup {NoItem}]

Calling(t, call) == frame[t].call = call
Running(t, call) == Calling(t, call) /\ ~frame[t].waiting

Waiting == {t \in Threads : frame[t].waiting}

XqueueInit ==
  /\ queue = <<>>
  /\ spare = QueueSize
  /\ frame = [t \in Threads |-> Returned]

----------------------------------------------------------------------------
(* pthread_cond_signal: wakes one of the waiting threads, any one.  A woken *)
(* thread takes the mutex again and goes through its loop once more.        *)

Wake(f, t) == [f EXCEPT ![t].waiting = FALSE]

Signal(f) ==
  IF Waiting = {} THEN frame' = f ELSE \E t \in Waiting : frame' = Wake(f, t)

\* pthread_cond_wait may return without a signal.
SpuriousWakeup(t) ==
  /\ frame[t].waiting
  /\ frame' = Wake(frame, t)
  /\ UNCHANGED <<queue, spare>>

----------------------------------------------------------------------------
(* xqueue_enqueue, xqueue_enqueue_non_blocking                             *)

CallEnqueue(t, d, blocking) ==
  /\ Calling(t, "none")
  /\ frame' = [frame EXCEPT ![t] = [call |-> "enqueue", blocking |-> blocking,
                                    waiting |-> FALSE, item |-> d]]
  /\ UNCHANGED <<queue, spare>>

\* xfreelist_extract_item finds a free item, or extends an exhausted list by
\* as many items as it was created with.
Extract ==
  \/ spare > 0 /\ spare' = spare - 1
  \/ spare = 0 /\ TRUE \in MayExtend /\ spare' = QueueSize - 1

ExtractFails == spare = 0 /\ FALSE \in MayExtend

\* Mutant: an enqueue that does not signal.
EnqueueSilent(t) ==
  /\ Running(t, "enqueue")
  /\ Extract
  /\ queue' = Append(queue, frame[t].item)
  /\ frame' = [frame EXCEPT ![t] = Returned]

Enqueue(t) ==
  /\ Running(t, "enqueue")
  /\ Extract
  /\ queue' = Append(queue, frame[t].item)
  /\ Signal([frame EXCEPT ![t] = Returned])

EnqueueWait(t) ==
  /\ Running(t, "enqueue")
  /\ ExtractFails
  /\ frame[t].blocking
  /\ frame' = [frame EXCEPT ![t].waiting = TRUE]
  /\ UNCHANGED <<queue, spare>>

EnqueueRefused(t) ==
  /\ Running(t, "enqueue")
  /\ ExtractFails
  /\ ~frame[t].blocking
  /\ frame' = [frame EXCEPT ![t] = Returned]
  /\ UNCHANGED <<queue, spare>>

----------------------------------------------------------------------------
(* xqueue_dequeue, xqueue_dequeue_non_blocking                             *)

CallDequeue(t, blocking) ==
  /\ Calling(t, "none")
  /\ frame' = [frame EXCEPT ![t] = [call |-> "dequeue", blocking |-> blocking,
                                    waiting |-> FALSE, item |-> NoItem]]
  /\ UNCHANGED <<queue, spare>>

\* Mutant: the tail is not shifted.
DequeueCopies(t) ==
  /\ Running(t, "dequeue")
  /\ queue # <<>>
  /\ Signal([frame EXCEPT ![t] = [Returned EXCEPT !.item = Head(queue)]])
  /\ UNCHANGED <<queue, spare>>

Dequeue(t) ==
  /\ Running(t, "dequeue")
  /\ queue # <<>>
  /\ queue' = Tail(queue)
  /\ spare' = spare + 1
  /\ Signal([frame EXCEPT ![t] = [Returned EXCEPT !.item = Head(queue)]])

MustWait(t) == Running(t, "dequeue") /\ queue = <<>> /\ frame[t].blocking

DequeueWait(t) ==
  /\ MustWait(t)
  /\ frame' = [frame EXCEPT ![t].waiting = TRUE]
  /\ UNCHANGED <<queue, spare>>

DequeueEmpty(t) ==
  /\ Running(t, "dequeue")
  /\ queue = <<>>
  /\ ~frame[t].blocking
  /\ frame' = [frame EXCEPT ![t] = Returned]
  /\ UNCHANGED <<queue, spare>>

\* pthread_cancel takes effect in pthread_cond_wait, or on entry to it; the
\* cleanup handler gives the mutex back.
CancelWait(t) ==
  /\ frame[t].waiting \/ MustWait(t)
  /\ frame' = [frame EXCEPT ![t] = Returned]
  /\ UNCHANGED <<queue, spare>>

----------------------------------------------------------------------------
(* Threads that only enqueue and threads that only dequeue, for ever.      *)

EnqueueStep(p) == Enqueue(p) \/ EnqueueWait(p) \/ EnqueueRefused(p)
DequeueStep(c) == Dequeue(c) \/ DequeueWait(c) \/ DequeueEmpty(c)

Produce(p) ==
  /\ Len(queue) < MaxLength
  /\ \E d \in Items, b \in BOOLEAN : CallEnqueue(p, d, b)

Consume(c) == \E b \in BOOLEAN : CallDequeue(c, b)

XqueueNext ==
  \/ \E p \in Producers : Produce(p) \/ EnqueueStep(p)
  \/ \E c \in Consumers : Consume(c) \/ DequeueStep(c) \/ CancelWait(c)
  \/ \E t \in Threads : SpuriousWakeup(t)

XqueueSpec == XqueueInit /\ [][XqueueNext]_queueVars

\* Threads run, and a consumer always comes back for another element.
\* Nothing obliges a wait to end without a signal.
FairXqueueSpec ==
  /\ XqueueSpec
  /\ \A p \in Producers : WF_queueVars(EnqueueStep(p))
  /\ \A c \in Consumers : WF_queueVars(CallDequeue(c, TRUE)) /\ WF_queueVars(DequeueStep(c))

----------------------------------------------------------------------------
(* Properties                                                              *)

XqueueTypeOK ==
  /\ queue \in Seq(Items)
  /\ spare \in Nat
  /\ frame \in [Threads -> Frames]

\* No wakeup is lost: while a consumer sleeps, every queued element has an
\* awake consumer on its way to it.  One pthread_cond_signal per element is
\* enough although dequeuers signal the same condition variable.
Sleeping == {c \in Consumers : Calling(c, "dequeue") /\ frame[c].waiting}
Awake == {c \in Consumers : Running(c, "dequeue")}

NoLostWakeup == Sleeping # {} => Len(queue) <= Cardinality(Awake)

\* A queued element reaches a consumer.
Empty == \A c \in Consumers : frame[c].item = NoItem

Delivered == (queue # <<>> /\ Empty) ~> ~Empty
=============================================================================
