------------------------------- MODULE Auksd -------------------------------
(***************************************************************************)
(* The life of the auksd process (src/auksd/auksd.c): the main thread      *)
(* loads the configuration, starts a cleaner and the workers, dispatches   *)
(* connections through the queue of Xqueue, and on a signal purges the     *)
(* queue, cancels and joins its threads, then exits or starts again.       *)
(*                                                                         *)
(* What a worker does with a connection is the subject of AuksdReq; here   *)
(* it is one step.  Of the log, what matters is the mutex that xverbose    *)
(* holds while it writes (src/api/xternal/xlogger.c): writing is a         *)
(* cancellation point.  Levels above 3 log from inside the repository and  *)
(* the queue; they are not modelled.                                       *)
(***************************************************************************)
EXTENDS Xqueue

CONSTANTS
  Main,        \* the main thread, the only producer
  Cleaner,     \* worker_args[0]
  NoThread,
  LogLevel,    \* LogLevel of auks.conf, at most 3
  CleanFails,  \* what auks_cred_repo_clean may do, a subset of BOOLEAN
  MaxSignals   \* bound on the number of signals

ASSUME AuksdAssumption ==
  /\ Producers = {Main}
  /\ Cleaner \notin Threads
  /\ NoThread \notin Threads \cup {Cleaner}
  /\ LogLevel \in 0..3
  /\ CleanFails \subseteq BOOLEAN /\ CleanFails # {}
  /\ MaxSignals \in Nat

VARIABLES
  pc,           \* where each thread is
  exitFlag,     \* exit_flag
  eofMain,      \* eof_main_loop_flag
  eofWorker,    \* eof_worker_flag
  signals,      \* the number of signals received so far
  backlog,      \* connections that the kernel holds for the listening socket
  accepted,     \* history: connections accepted and not yet closed
  fstatus,      \* what dispatcher_main_function returned
  cancelled,    \* threads with a pending cancellation
  logger        \* the holder of verbose_mutex

flags == <<exitFlag, eofMain, eofWorker, signals>>
sockets == <<backlog, accepted>>
control == <<fstatus, cancelled, logger>>
auksdVars == <<queueVars, pc, flags, sockets, control>>

Children == Consumers \cup {Cleaner}
Dispatching == {"loop", "accept", "blocked", "enqueue"}

MainPlaces == {"test", "setup", "open", "purge", "cancel", "join", "free", "exited"} \cup Dispatching
WorkerPlaces == {"loop", "purge_log", "dequeue", "got_log", "serving", "testcancel", "done"}
CleanerPlaces == {"clean", "clean_log", "check", "sleep", "done"}

Is(t, place) == pc[t] = place
Move(t, place) == pc' = [pc EXCEPT ![t] = place]
Logs(level) == level <= LogLevel

AuksdInit ==
  /\ XqueueInit
  /\ pc = [t \in Children \cup {Main} |-> IF t = Main THEN "test" ELSE "done"]
  /\ exitFlag = FALSE
  /\ eofMain = FALSE
  /\ eofWorker = FALSE
  /\ signals = 0
  /\ backlog = {}
  /\ accepted = {}
  /\ fstatus = "success"
  /\ cancelled = {}
  /\ logger = NoThread

----------------------------------------------------------------------------
(* Signals and clients.                                                    *)

\* SIGTERM and SIGINT, or SIGHUP.  Linux delivers the signal to the main
\* thread; the handler interrupts accept(2) when it is already blocked there.
Handle(exit) ==
  /\ signals < MaxSignals
  /\ ~Is(Main, "exited")
  /\ signals' = signals + 1
  /\ exitFlag' = (exitFlag \/ exit)
  /\ eofMain' = TRUE
  /\ pc' = IF Is(Main, "blocked") THEN [pc EXCEPT ![Main] = "loop"] ELSE pc
  /\ UNCHANGED <<queueVars, eofWorker, sockets, control>>

Connect(c) ==
  /\ pc[Main] \in Dispatching
  /\ c \notin backlog \cup accepted
  /\ backlog' = backlog \cup {c}
  /\ UNCHANGED <<queueVars, pc, flags, accepted, control>>

----------------------------------------------------------------------------
(* The main thread.                                                        *)

\* The loop of main(): a configuration that does not load ends the process.
Configure ==
  /\ Is(Main, "test")
  /\ IF exitFlag
     THEN Move(Main, "exited") /\ UNCHANGED flags
     ELSE \/ Move(Main, "setup") /\ UNCHANGED flags
          \/ Move(Main, "exited") /\ exitFlag' = TRUE /\ UNCHANGED <<eofMain, eofWorker, signals>>
  /\ UNCHANGED <<queueVars, sockets, control>>

\* Mutant: the cleaner is started as a worker.
SetupAllWorkers ==
  /\ Is(Main, "setup")
  /\ eofMain' = FALSE
  /\ eofWorker' = FALSE
  /\ pc' = [t \in DOMAIN pc |-> IF t = Main THEN "open" ELSE "loop"]
  /\ UNCHANGED <<queueVars, exitFlag, signals, sockets, control>>

\* auksd_main_loop clears both flags, whatever has set them, makes the
\* repository and the queue, and starts the threads.
Setup ==
  /\ Is(Main, "setup")
  /\ eofMain' = FALSE
  /\ eofWorker' = FALSE
  /\ queue' = <<>>
  /\ spare' = QueueSize
  /\ frame' = [t \in Threads |-> Returned]
  /\ pc' = [t \in DOMAIN pc |-> CASE t = Cleaner -> "clean"
                                [] t = Main -> "open"
                                [] OTHER -> "loop"]
  /\ cancelled' = {}
  /\ UNCHANGED <<exitFlag, signals, sockets, fstatus, logger>>

\* The repository or the queue cannot be made: main() stops there.
SetupFails ==
  /\ Is(Main, "setup")
  /\ eofMain' = FALSE
  /\ eofWorker' = FALSE
  /\ exitFlag' = TRUE
  /\ Move(Main, "test")
  /\ UNCHANGED <<queueVars, signals, sockets, control>>

\* The dispatcher makes its listening socket; when it cannot, its threads
\* are stopped in the same way as after a signal.
Open ==
  /\ Is(Main, "open")
  /\ \/ Move(Main, "loop") /\ fstatus' = "success" /\ UNCHANGED eofWorker
     \/ Move(Main, "purge") /\ fstatus' = "error" /\ eofWorker' = TRUE
  /\ UNCHANGED <<queueVars, exitFlag, eofMain, signals, sockets, cancelled, logger>>

\* Mutant: the loop watches exit_flag, which SIGHUP does not set.
LoopTestExit ==
  /\ Is(Main, "loop")
  /\ IF exitFlag
     THEN Move(Main, "purge") /\ eofWorker' = TRUE /\ backlog' = {}
     ELSE Move(Main, "accept") /\ UNCHANGED <<eofWorker, backlog>>
  /\ UNCHANGED <<queueVars, exitFlag, eofMain, signals, accepted, control>>

\* The loop of dispatcher_main_function; at its end the listening socket is
\* closed, which refuses the connections still in the backlog.
LoopTest ==
  /\ Is(Main, "loop")
  /\ IF eofMain
     THEN Move(Main, "purge") /\ eofWorker' = TRUE /\ backlog' = {}
     ELSE Move(Main, "accept") /\ UNCHANGED <<eofWorker, backlog>>
  /\ UNCHANGED <<queueVars, exitFlag, eofMain, signals, accepted, control>>

Block ==
  /\ Is(Main, "accept")
  /\ backlog = {}
  /\ Move(Main, "blocked")
  /\ UNCHANGED <<queueVars, flags, sockets, control>>

Accept(c) ==
  /\ pc[Main] \in {"accept", "blocked"}
  /\ c \in backlog
  /\ backlog' = backlog \ {c}
  /\ accepted' = accepted \cup {c}
  /\ CallEnqueue(Main, c, TRUE)
  /\ Move(Main, "enqueue")
  /\ UNCHANGED <<flags, control>>

\* Mutant: a connection accepted as the signal comes in is forgotten.
DispatchUnlessAsked ==
  /\ Is(Main, "enqueue")
  /\ IF eofMain
     THEN frame' = [frame EXCEPT ![Main] = Returned] /\ UNCHANGED <<queue, spare>>
     ELSE Enqueue(Main)
  /\ Move(Main, "loop")
  /\ UNCHANGED <<flags, sockets, control>>

Dispatch ==
  /\ Is(Main, "enqueue")
  /\ \/ Enqueue(Main) /\ Move(Main, "loop")
     \/ EnqueueWait(Main) /\ UNCHANGED pc
  /\ UNCHANGED <<flags, sockets, control>>

\* Mutant: the threads are cancelled without waiting for the queue to drain.
AwaitNothing ==
  /\ Is(Main, "purge")
  /\ Move(Main, "cancel")
  /\ UNCHANGED <<queueVars, flags, sockets, control>>

\* xqueue_get_length, xqueue_wait_4_emptiness
AwaitEmptiness ==
  /\ Is(Main, "purge")
  /\ queue = <<>>
  /\ Move(Main, "cancel")
  /\ UNCHANGED <<queueVars, flags, sockets, control>>

\* Mutant: the threads are joined and not cancelled.
CancelNone ==
  /\ Is(Main, "cancel")
  /\ Move(Main, "join")
  /\ UNCHANGED <<queueVars, flags, sockets, control>>

CancelThreads ==
  /\ Is(Main, "cancel")
  /\ cancelled' = Children
  /\ Move(Main, "join")
  /\ UNCHANGED <<queueVars, flags, sockets, fstatus, logger>>

Join ==
  /\ Is(Main, "join")
  /\ \A t \in Children : Is(t, "done")
  /\ Move(Main, "free")
  /\ UNCHANGED <<queueVars, flags, sockets, control>>

\* The main thread logs that it is done, then frees queue and repository.
\* main() stops after a dispatcher that has failed.
Free ==
  /\ Is(Main, "free")
  /\ Logs(1) => logger = NoThread
  /\ Move(Main, "test")
  /\ exitFlag' = (exitFlag \/ fstatus = "error")
  /\ UNCHANGED <<queueVars, eofMain, eofWorker, signals, sockets, control>>

MainStep ==
  \/ Configure \/ Setup \/ SetupFails \/ Open
  \/ LoopTest \/ Block \/ (\E c \in Items : Accept(c)) \/ Dispatch
  \/ AwaitEmptiness \/ CancelThreads \/ Join \/ Free

----------------------------------------------------------------------------
(* The log: verbose_mutex is held while a line is written; a cancellation  *)
(* that arrives before the last write(2) ends the thread, which does not   *)
(* give the mutex back.                                                    *)

BeginLog(t) ==
  /\ pc[t] \in {"purge_log", "got_log", "clean_log"}
  /\ logger = NoThread
  /\ logger' = t
  /\ UNCHANGED <<queueVars, pc, flags, sockets, fstatus, cancelled>>

EndLog(t) ==
  /\ logger = t
  /\ ~Is(t, "done")
  /\ logger' = NoThread
  /\ CASE Is(t, "purge_log") -> CallDequeue(t, FALSE) /\ Move(t, "dequeue")
       [] Is(t, "got_log") -> Move(t, "serving") /\ UNCHANGED queueVars
       [] Is(t, "clean_log") -> Move(t, "check") /\ UNCHANGED queueVars
  /\ UNCHANGED <<flags, sockets, fstatus, cancelled>>

CancelLog(t) ==
  /\ logger = t
  /\ ~Is(t, "done")
  /\ t \in cancelled
  /\ Move(t, "done")
  /\ UNCHANGED <<queueVars, flags, sockets, control>>

----------------------------------------------------------------------------
(* A worker: processor_main_function.                                      *)

WorkerLoop(w) ==
  /\ Is(w, "loop")
  /\ IF eofWorker /\ Logs(3)
     THEN Move(w, "purge_log") /\ UNCHANGED queueVars
     ELSE Move(w, "dequeue") /\ CallDequeue(w, ~eofWorker)
  /\ UNCHANGED <<flags, sockets, control>>

\* A purging worker that finds the queue empty leaves.
WorkerDequeue(w) ==
  /\ Is(w, "dequeue")
  /\ \/ Dequeue(w) /\ Move(w, IF Logs(3) THEN "got_log" ELSE "serving")
     \/ w \notin cancelled /\ DequeueWait(w) /\ UNCHANGED pc
     \/ DequeueEmpty(w) /\ Move(w, "done")
  /\ UNCHANGED <<flags, sockets, control>>

CancelDequeue(w) ==
  /\ w \in cancelled
  /\ CancelWait(w)
  /\ Move(w, "done")
  /\ UNCHANGED <<flags, sockets, control>>

\* Cancellation is disabled; the connection is served and closed.
Serve(w) ==
  /\ Is(w, "serving")
  /\ accepted' = accepted \ {frame[w].item}
  /\ Move(w, "testcancel")
  /\ UNCHANGED <<queueVars, flags, backlog, control>>

TestCancel(w) ==
  /\ Is(w, "testcancel")
  /\ Move(w, IF w \in cancelled THEN "done" ELSE "loop")
  /\ UNCHANGED <<queueVars, flags, sockets, control>>

WorkerStep(w) ==
  \/ WorkerLoop(w) \/ WorkerDequeue(w) \/ CancelDequeue(w) \/ Serve(w) \/ TestCancel(w)
  \/ EndLog(w) \/ CancelLog(w)

----------------------------------------------------------------------------
(* The cleaner: cleaner_main_function.                                     *)

\* A cleaning that failed is logged at level 1, one that succeeded at 2.
Clean ==
  /\ Is(Cleaner, "clean")
  /\ \E failed \in CleanFails :
       Move(Cleaner, IF Logs(IF failed THEN 1 ELSE 2) THEN "clean_log" ELSE "check")
  /\ UNCHANGED <<queueVars, flags, sockets, control>>

Check ==
  /\ Is(Cleaner, "check")
  /\ Move(Cleaner, IF eofWorker THEN "done" ELSE "sleep")
  /\ UNCHANGED <<queueVars, flags, sockets, control>>

WakeUp ==
  /\ Is(Cleaner, "sleep")
  /\ Move(Cleaner, IF eofWorker \/ Cleaner \in cancelled THEN "done" ELSE "clean")
  /\ UNCHANGED <<queueVars, flags, sockets, control>>

CleanerStep == Clean \/ Check \/ WakeUp \/ EndLog(Cleaner) \/ CancelLog(Cleaner)

----------------------------------------------------------------------------

AuksdNext ==
  \/ \E exit \in BOOLEAN : Handle(exit)
  \/ \E c \in Items : Connect(c)
  \/ MainStep
  \/ \E w \in Consumers : WorkerStep(w)
  \/ CleanerStep
  \/ \E t \in Children : BeginLog(t)
  \/ \E t \in Threads : SpuriousWakeup(t) /\ UNCHANGED <<pc, flags, sockets, control>>

AuksdSpec == AuksdInit /\ [][AuksdNext]_auksdVars

\* Threads run, requests come to an end, and a thread that keeps asking for
\* verbose_mutex gets it when it keeps being free.
FairAuksdSpec ==
  /\ AuksdSpec
  /\ WF_auksdVars(MainStep)
  /\ \A w \in Consumers : WF_auksdVars(WorkerStep(w))
  /\ WF_auksdVars(CleanerStep)
  /\ \A t \in Children : SF_auksdVars(BeginLog(t))

\* The same on a busy host, where there is always another client to connect.
BusyAuksdSpec == FairAuksdSpec /\ WF_auksdVars(\E c \in Items : Connect(c))

----------------------------------------------------------------------------
(* Properties                                                              *)

AuksdTypeOK ==
  /\ XqueueTypeOK
  /\ pc[Main] \in MainPlaces
  /\ \A w \in Consumers : pc[w] \in WorkerPlaces
  /\ pc[Cleaner] \in CleanerPlaces
  /\ {exitFlag, eofMain, eofWorker} \subseteq BOOLEAN
  /\ signals \in 0..MaxSignals
  /\ backlog \subseteq Items /\ accepted \subseteq Items
  /\ fstatus \in {"success", "error"}
  /\ cancelled \subseteq Children
  /\ logger \in Children \cup {NoThread}

\* The handlers of a connection: the dispatcher that is enqueuing it, the
\* queue, a worker that has dequeued it.
Enqueuing(c) == IF Calling(Main, "enqueue") /\ frame[Main].item = c THEN {Main} ELSE {}
Queued(c) == {i \in DOMAIN queue : queue[i] = c}
Serving(c) == {w \in Consumers : pc[w] \in {"got_log", "serving"} /\ frame[w].item = c}

\* An accepted connection is in exactly one pair of hands until it is closed:
\* none is leaked, none is served twice, whatever is signalled when (below
\* log level 3).
Hands(c) == Cardinality(Enqueuing(c)) + Cardinality(Queued(c)) + Cardinality(Serving(c))

NoneDropped == \A c \in Items : Hands(c) = IF c \in accepted THEN 1 ELSE 0

\* What is left of it when the log is at level 3, where a worker can be
\* cancelled between its dequeue and the disabling of cancellation: no
\* connection is ever in two pairs of hands, or in one after it is closed.
NeverShared == \A c \in Items : Hands(c) <= IF c \in accepted THEN 1 ELSE 0

\* auksd_main_loop frees the queue and the repository when no thread can use
\* them any more and every accepted connection has been served, at the log
\* levels at which no worker is cancelled with one in its hands.
QuietWhenFreed ==
  Is(Main, "free") =>
    /\ \A t \in Children : Is(t, "done")
    /\ queue = <<>>
    /\ ~Logs(3) => accepted = {}

\* auksd.c, of every signal it handles: "break main loop".
BreaksLoop == (eofMain /\ pc[Main] \in Dispatching) ~> (pc[Main] \notin Dispatching)

\* The purge, the cancellation and the joins come to an end, and main() goes
\* on to exit or, after SIGHUP, to "reload configuration".
Stops == (pc[Main] = "purge") ~> (pc[Main] = "test")

=============================================================================
