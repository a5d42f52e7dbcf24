----------------------------- MODULE AuksdProofs -----------------------------
(***************************************************************************)
(* Proof that auksd never has a connection in two pairs of hands, drops    *)
(* none below log level 3, and frees its queue when nobody uses it, for    *)
(* any number of workers, connections, signals and reloads; and that its   *)
(* queue loses no wakeup.                                                  *)
(***************************************************************************)
EXTENDS Auksd, XqueueProofs

\* Where a worker has the connection that it has dequeued.
Holding == {"got_log", "serving"}

Enq(c) == frame[Main].call = "enqueue" /\ frame[Main].item = c
InQueue(c) == \E i \in DOMAIN queue : queue[i] = c
Srv(w, c) == pc[w] \in Holding /\ frame[w].item = c

\* A thread is where its call and the log say.
Places ==
  /\ pc \in [Children \cup {Main} -> MainPlaces \cup WorkerPlaces \cup CleanerPlaces]
  /\ pc[Main] \in MainPlaces
  /\ \A w \in Consumers : pc[w] \in WorkerPlaces
  /\ pc[Cleaner] \in CleanerPlaces
  /\ frame[Main].call = "enqueue" <=> pc[Main] = "enqueue"
  /\ \A w \in Consumers : frame[w].call = "dequeue" <=> pc[w] = "dequeue"
  /\ \A w \in Consumers : pc[w] \in {"got_log", "purge_log"} => Logs(3)
  /\ pc[Cleaner] = "clean_log" => Logs(1)
  /\ logger \in Children \cup {NoThread}
  /\ logger # NoThread => pc[logger] \in {"purge_log", "got_log", "clean_log", "done"} /\ Logs(1)

\* Nobody enqueues after the loop, nobody is left when the queue is freed, and
\* the main thread does not get past its own line while the log is locked.
Stopped ==
  /\ pc[Main] \in {"cancel", "join", "free", "test", "setup", "exited"} => queue = <<>>
  /\ pc[Main] \in {"free", "test", "setup", "exited"} => \A t \in Children : pc[t] = "done"
  /\ pc[Main] \in {"test", "setup", "exited"} => logger = NoThread

\* A connection is in one pair of hands at most, and then it is accepted.
OneHand ==
  /\ backlog \subseteq Items /\ accepted \subseteq Items /\ backlog \cap accepted = {}
  /\ \A c \in Items : Enq(c) => c \in accepted /\ ~InQueue(c)
  /\ \A i \in DOMAIN queue : queue[i] \in accepted
  /\ \A i, j \in DOMAIN queue : queue[i] = queue[j] => i = j
  /\ \A w \in Consumers, c \in Items : Srv(w, c) => c \in accepted /\ ~Enq(c) /\ ~InQueue(c)
  /\ \A w, v \in Consumers, c \in Items : Srv(w, c) /\ Srv(v, c) => w = v

\* Below log level 3 an accepted connection is in somebody's hands.
AllHeld ==
  ~Logs(3) => \A c \in accepted : Enq(c) \/ InQueue(c) \/ \E w \in Consumers : Srv(w, c)

Lives ==
  /\ exitFlag \in BOOLEAN /\ eofMain \in BOOLEAN /\ eofWorker \in BOOLEAN
  /\ signals \in 0..MaxSignals
  /\ fstatus \in {"success", "error"}
  /\ cancelled \subseteq Children

AuksdInv == QueueInv /\ Places /\ Stopped /\ OneHand /\ AllHeld /\ Lives

-----------------------------------------------------------------------------

LEMMA Who ==
  /\ Threads = Consumers \cup {Main} /\ Children = Consumers \cup {Cleaner}
  /\ Main \notin Consumers /\ Cleaner \notin Consumers /\ Cleaner # Main
  /\ NoThread \notin Children /\ NoThread # Main
BY AuksdAssumption, XqueueAssumption DEF Threads, Children

LEMMA OnlyMain == NoRival
BY AuksdAssumption DEF NoRival, OneProducer

LEMMA QueueTypes ==
  ASSUME QueueInv
  PROVE  /\ queue \in Seq(Items) /\ Len(queue) \in Nat /\ DOMAIN queue = 1..Len(queue)
         /\ frame \in [Threads -> Frames]
         /\ \A i \in DOMAIN queue : queue[i] \in Items
BY DEF QueueInv, XqueueTypeOK

LEMMA AuksdInitInv == AuksdInit => AuksdInv
<1> SUFFICES ASSUME AuksdInit
             PROVE  AuksdInv
  OBVIOUS
<1>1. QueueInv
  BY InitInv DEF AuksdInit
<1>2. /\ pc = [t \in Children \cup {Main} |-> IF t = Main THEN "test" ELSE "done"]
      /\ queue = <<>> /\ \A t \in Threads : frame[t].call = "none"
      /\ backlog = {} /\ accepted = {} /\ logger = NoThread /\ cancelled = {}
  BY DEF AuksdInit, XqueueInit, Returned
<1>3. pc[Main] = "test" /\ \A t \in Children : pc[t] = "done"
  BY <1>2, Who
<1>4. Places
  BY <1>2, <1>3, Who DEF Places, MainPlaces, WorkerPlaces, CleanerPlaces
<1>5. OneHand
  BY <1>2, <1>3, Who DEF OneHand, Enq, InQueue, Srv, Holding
<1>6. Stopped /\ AllHeld
  BY <1>2, <1>3 DEF Stopped, AllHeld
<1>7. Lives
  <2>1. exitFlag \in BOOLEAN /\ eofMain \in BOOLEAN /\ eofWorker \in BOOLEAN
    BY DEF AuksdInit
  <2>2. signals \in 0..MaxSignals
    BY AuksdAssumption DEF AuksdInit
  <2>3. fstatus \in {"success", "error"} /\ cancelled \subseteq Children
    BY DEF AuksdInit
  <2> QED
    BY <2>1, <2>2, <2>3, Zenon DEF Lives
<1> QED
  BY <1>1, <1>4, <1>5, <1>6, <1>7 DEF AuksdInv

\* One thread moves, and no connection changes hands, but for one that a worker
\* drops at log level 3.
LEMMA MoveKeeps ==
  ASSUME AuksdInv, QueueInv', queue' = queue, accepted' = accepted, Lives',
         backlog' \subseteq Items, backlog' \cap accepted = {},
         NEW t \in Children \cup {Main}, NEW p, pc' = [pc EXCEPT ![t] = p],
         \A u \in Threads : u # t \/ t = Main =>
           frame'[u].call = frame[u].call /\ frame'[u].item = frame[u].item,
         t = Main =>
           /\ p \in MainPlaces
           /\ p = "enqueue" <=> pc[Main] = "enqueue"
           /\ p \in {"cancel", "join", "free", "test", "setup", "exited"} => queue = <<>>
           /\ p \in {"free", "test", "setup", "exited"} => \A c \in Children : pc[c] = "done"
           /\ p \in {"test", "setup", "exited"} => logger' = NoThread,
         t \in Children => pc[t] # "done",
         t \in Consumers =>
           /\ p \in WorkerPlaces
           /\ frame'[t].call = "dequeue" <=> p = "dequeue"
           /\ p \in {"got_log", "purge_log"} => Logs(3)
           /\ p \in Holding => pc[t] \in Holding /\ frame'[t].item = frame[t].item
           /\ pc[t] \in Holding => p \in Holding \/ Logs(3),
         t = Cleaner => p \in CleanerPlaces /\ (p = "clean_log" => Logs(1)),
         logger' \in Children \cup {NoThread},
         logger' # NoThread =>
           pc'[logger'] \in {"purge_log", "got_log", "clean_log", "done"} /\ Logs(1)
  PROVE  AuksdInv'
<1>1. /\ pc \in [Children \cup {Main} -> MainPlaces \cup WorkerPlaces \cup CleanerPlaces]
      /\ pc'[t] = p /\ \A u \in Children \cup {Main} : u # t => pc'[u] = pc[u]
  BY DEF AuksdInv, Places
<1>2. Places'
  <2>1. pc' \in [Children \cup {Main} -> MainPlaces \cup WorkerPlaces \cup CleanerPlaces]
    BY <1>1, Who
  <2>2. pc'[Main] \in MainPlaces /\ (frame'[Main].call = "enqueue" <=> pc'[Main] = "enqueue")
    BY <1>1, Who DEF AuksdInv, Places
  <2>3. \A w \in Consumers :
          /\ pc'[w] \in WorkerPlaces
          /\ frame'[w].call = "dequeue" <=> pc'[w] = "dequeue"
          /\ pc'[w] \in {"got_log", "purge_log"} => Logs(3)
    BY <1>1, Who DEF AuksdInv, Places
  <2>4. pc'[Cleaner] \in CleanerPlaces /\ (pc'[Cleaner] = "clean_log" => Logs(1))
    BY <1>1, Who DEF AuksdInv, Places
  <2> QED
    BY <2>1, <2>2, <2>3, <2>4 DEF Places, Logs
<1>3. Stopped'
  <2>1. CASE t = Main
    BY <1>1, <2>1, Who DEF AuksdInv, Stopped
  <2>2. CASE t \in Children
    <3>1. pc'[Main] = pc[Main] /\ pc[Main] \notin {"free", "test", "setup", "exited"}
      BY <1>1, <2>2, Who DEF AuksdInv, Stopped
    <3> QED
      BY <3>1 DEF AuksdInv, Stopped
  <2> QED
    BY <2>1, <2>2
<1>4. \A c : Enq(c)' = Enq(c) /\ InQueue(c)' = InQueue(c)
  BY Who DEF Enq, InQueue
<1>5. \A w \in Consumers, c \in Items :
        /\ Srv(w, c)' => Srv(w, c)
        /\ ~Logs(3) => (Srv(w, c) => Srv(w, c)')
  <2> SUFFICES ASSUME NEW w \in Consumers, NEW c \in Items
               PROVE  /\ Srv(w, c)' => Srv(w, c)
                      /\ ~Logs(3) => (Srv(w, c) => Srv(w, c)')
    OBVIOUS
  <2>1. CASE w = t
    BY <1>1, <2>1, Who DEF Srv
  <2>2. CASE w # t
    BY <1>1, <2>2, Who DEF Srv
  <2> QED
    BY <2>1, <2>2
<1>6. OneHand'
  BY <1>4, <1>5 DEF AuksdInv, OneHand
<1>7. AllHeld'
  BY <1>4, <1>5 DEF AuksdInv, OneHand, AllHeld, Logs
<1> QED
  BY <1>2, <1>3, <1>6, <1>7 DEF AuksdInv

\* Nobody moves at all.
LEMMA NobodyMoves ==
  ASSUME AuksdInv, QueueInv', queue' = queue, accepted' = accepted, pc' = pc, Lives',
         backlog' \subseteq Items, backlog' \cap accepted = {},
         \A u \in Threads : frame'[u].call = frame[u].call /\ frame'[u].item = frame[u].item,
         logger' \in Children \cup {NoThread},
         logger' # NoThread =>
           pc[logger'] \in {"purge_log", "got_log", "clean_log", "done"} /\ Logs(1),
         pc[Main] \in {"test", "setup", "exited"} => logger' = NoThread
  PROVE  AuksdInv'
<1>1. Places'
  BY Who DEF AuksdInv, Places, Logs
<1>2. Stopped'
  BY DEF AuksdInv, Stopped
<1>3. \A c : Enq(c)' = Enq(c) /\ InQueue(c)' = InQueue(c)
  BY Who DEF Enq, InQueue
<1>4. \A w \in Consumers, c \in Items : Srv(w, c)' = Srv(w, c)
  BY Who DEF Srv
<1>5. OneHand'
  BY <1>3, <1>4 DEF AuksdInv, OneHand
<1>6. AllHeld'
  BY <1>3, <1>4 DEF AuksdInv, OneHand, AllHeld, Logs
<1> QED
  BY <1>1, <1>2, <1>5, <1>6 DEF AuksdInv

-----------------------------------------------------------------------------
(* Signals, clients, the main thread. *)

USE DEF Is, Move, flags, sockets, control

\* A step that leaves queue, calls and log alone.
LEMMA MainMoves ==
  ASSUME AuksdInv, UNCHANGED <<queueVars, accepted, logger>>, Lives',
         backlog' \subseteq backlog, NEW p, pc' = [pc EXCEPT ![Main] = p],
         p \in MainPlaces, p # "enqueue", pc[Main] # "enqueue",
         p \in {"cancel", "join", "free", "test", "setup", "exited"} => queue = <<>>,
         p \in {"free", "test", "setup", "exited"} => \A c \in Children : pc[c] = "done",
         p \in {"test", "setup", "exited"} => logger = NoThread
  PROVE  AuksdInv'
<1>1. QueueInv' /\ queue' = queue /\ frame' = frame
  BY StutterKeeps DEF AuksdInv, queueVars
<1>2. backlog' \subseteq Items /\ backlog' \cap accepted = {}
  BY DEF AuksdInv, OneHand
<1>3. /\ logger' \in Children \cup {NoThread}
      /\ logger' # NoThread =>
           pc'[logger'] \in {"purge_log", "got_log", "clean_log", "done"} /\ Logs(1)
  BY Who DEF AuksdInv, Places
<1> HIDE DEF AuksdInv
<1> QED
  BY <1>1, <1>2, <1>3, Who, MoveKeeps

LEMMA WorldKeeps ==
  ASSUME AuksdInv, (\E exit \in BOOLEAN : Handle(exit)) \/ (\E c \in Items : Connect(c))
  PROVE  AuksdInv'
<1>1. ASSUME NEW exit \in BOOLEAN, Handle(exit)
      PROVE  AuksdInv'
  <2>1. Lives'
    <3>1. signals' \in 0..MaxSignals
      BY <1>1, AuksdAssumption DEF Handle, AuksdInv, Lives
    <3>2. exitFlag' \in BOOLEAN /\ eofMain' \in BOOLEAN
      BY <1>1 DEF Handle, AuksdInv, Lives
    <3> QED
      BY <1>1, <3>1, <3>2 DEF Handle, AuksdInv, Lives
  <2>2. UNCHANGED <<queueVars, accepted, backlog, logger>>
    BY <1>1 DEF Handle
  <2>3. CASE pc[Main] = "blocked"
    <3>1. pc' = [pc EXCEPT ![Main] = "loop"]
      BY <1>1, <2>3 DEF Handle
    <3> QED
      BY <2>1, <2>2, <2>3, <3>1, MainMoves DEF MainPlaces, Dispatching
  <2>4. CASE pc' = pc
    <3>1. QueueInv' /\ queue' = queue /\ frame' = frame
      BY <2>2, StutterKeeps DEF AuksdInv, queueVars
    <3> QED
      BY <2>1, <2>2, <2>4, <3>1, NobodyMoves DEF AuksdInv, OneHand, Places, Stopped
  <2> QED
    BY <1>1, <2>3, <2>4 DEF Handle
<1>2. ASSUME NEW c \in Items, Connect(c)
      PROVE  AuksdInv'
  <2>1. QueueInv' /\ queue' = queue /\ frame' = frame /\ pc' = pc /\ accepted' = accepted
        /\ logger' = logger
    BY <1>2, StutterKeeps DEF Connect, AuksdInv, queueVars
  <2>2. backlog' \subseteq Items /\ backlog' \cap accepted = {}
    BY <1>2 DEF Connect, AuksdInv, OneHand
  <2>3. Lives'
    BY <1>2 DEF Connect, AuksdInv, Lives
  <2> QED
    BY <2>1, <2>2, <2>3, NobodyMoves DEF AuksdInv, Places, Stopped
<1> QED
  BY <1>1, <1>2

\* Everything has come to a stop, with no connection in nobody's hands below level 3.
LEMMA NothingHeld ==
  ASSUME AuksdInv, queue = <<>>, pc[Main] # "enqueue", \A t \in Children : pc[t] = "done"
  PROVE  \A c : ~Enq(c) /\ ~InQueue(c) /\ \A w \in Consumers : ~Srv(w, c)
BY Who DEF AuksdInv, Places, Enq, InQueue, Srv, Holding

LEMMA SetupKeeps ==
  ASSUME AuksdInv, Setup
  PROVE  AuksdInv'
<1>1. /\ pc[Main] = "setup" /\ queue' = <<>> /\ spare' = QueueSize
      /\ frame' = [t \in Threads |-> Returned]
      /\ pc' = [t \in DOMAIN pc |-> CASE t = Cleaner -> "clean"
                                    [] t = Main -> "open"
                                    [] OTHER -> "loop"]
      /\ UNCHANGED <<backlog, accepted, logger>>
  BY DEF Setup
<1>2. DOMAIN pc = Children \cup {Main}
  BY DEF AuksdInv, Places
<1>3. pc'[Main] = "open" /\ pc'[Cleaner] = "clean" /\ \A w \in Consumers : pc'[w] = "loop"
  BY <1>1, <1>2, Who
<1>4. frame'[Main].call = "none" /\ \A w \in Consumers : frame'[w].call = "none"
  BY <1>1, Who DEF Returned
<1>5. QueueInv'
  <2>1. frame' \in [Threads -> Frames] /\ \A t \in Threads : frame'[t] = Returned
    BY <1>1, ReturnedType
  <2>2. XqueueTypeOK'
    BY <1>1, <2>1, XqueueAssumption DEF XqueueTypeOK
  <2>3. Roles' /\ RivalsAwake'
    BY <2>1 DEF Roles, RivalsAwake, Threads, Returned
  <2>4. Sleeping' = {}
    BY <2>1 DEF Sleeping, Threads, Returned
  <2> QED
    BY <2>2, <2>3, <2>4 DEF QueueInv, NoLostWakeup
<1>6. /\ \A t \in Children : pc[t] = "done"
      /\ queue = <<>>
  BY <1>1 DEF AuksdInv, Stopped
<1>7. logger' = NoThread
  BY <1>1 DEF AuksdInv, Stopped
<1>8. Places'
  <2>1. pc' \in [Children \cup {Main} -> MainPlaces \cup WorkerPlaces \cup CleanerPlaces]
    BY <1>1, <1>2, Who DEF MainPlaces, WorkerPlaces, CleanerPlaces
  <2> QED
    BY <2>1, <1>3, <1>4, <1>7, Who DEF Places, MainPlaces, WorkerPlaces, CleanerPlaces
<1>9. Stopped'
  BY <1>3 DEF Stopped
<1>10. \A c : ~Enq(c) /\ ~InQueue(c) /\ \A w \in Consumers : ~Srv(w, c)
  BY <1>1, <1>6, NothingHeld
<1>11. \A c : ~Enq(c)' /\ ~InQueue(c)' /\ \A w \in Consumers : ~Srv(w, c)'
  BY <1>1, <1>3, <1>4 DEF Enq, InQueue, Srv, Holding
<1>12. OneHand'
  <2>1. DOMAIN queue' = {}
    BY <1>1
  <2> QED
    BY <1>1, <1>11, <2>1 DEF AuksdInv, OneHand
<1>13. AllHeld'
  BY <1>1, <1>10 DEF AuksdInv, AllHeld, Logs
<1>14. Lives'
  <2>1. eofMain' \in BOOLEAN /\ eofWorker' \in BOOLEAN /\ cancelled' \subseteq Children
    BY DEF Setup
  <2>2. UNCHANGED <<exitFlag, signals, fstatus>>
    BY DEF Setup
  <2> QED
    BY <2>1, <2>2 DEF AuksdInv, Lives
<1> QED
  BY <1>5, <1>8, <1>9, <1>12, <1>13, <1>14 DEF AuksdInv

\* The steps of the main thread that take no connection.
LEMMA MainWalks ==
  ASSUME AuksdInv,
         \/ Configure \/ SetupFails \/ Open \/ LoopTest \/ Block
         \/ AwaitEmptiness \/ CancelThreads \/ Join \/ Free
  PROVE  AuksdInv'
<1> USE DEF MainPlaces, Dispatching
<1>0. /\ exitFlag \in BOOLEAN /\ eofMain \in BOOLEAN /\ eofWorker \in BOOLEAN
      /\ signals \in 0..MaxSignals /\ fstatus \in {"success", "error"} /\ cancelled \subseteq Children
  BY DEF AuksdInv, Lives
<1>1. CASE Configure
  <2>1. Lives'
    BY <1>0, <1>1 DEF Configure, Lives
  <2>2. UNCHANGED <<queueVars, sockets, logger>> /\ pc[Main] = "test"
    BY <1>1 DEF Configure
  <2>3. PICK p \in {"setup", "exited"} : pc' = [pc EXCEPT ![Main] = p]
    BY <1>1 DEF Configure
  <2>4. queue = <<>> /\ (\A c \in Children : pc[c] = "done") /\ logger = NoThread
    BY <2>2 DEF AuksdInv, Stopped
  <2> QED
    BY <2>1, <2>2, <2>3, <2>4, MainMoves
<1>2. CASE SetupFails
  <2>1. Lives'
    BY <1>0, <1>2 DEF SetupFails, Lives
  <2>2. /\ UNCHANGED <<queueVars, sockets, logger>> /\ pc[Main] = "setup"
        /\ pc' = [pc EXCEPT ![Main] = "test"]
    BY <1>2 DEF SetupFails
  <2>3. queue = <<>> /\ (\A c \in Children : pc[c] = "done") /\ logger = NoThread
    BY <2>2 DEF AuksdInv, Stopped
  <2> QED
    BY <2>1, <2>2, <2>3, MainMoves
<1>3. CASE Open
  <2>1. Lives'
    BY <1>0, <1>3 DEF Open, Lives
  <2>2. UNCHANGED <<queueVars, sockets, logger>> /\ pc[Main] = "open"
    BY <1>3 DEF Open
  <2>3. PICK p \in {"loop", "purge"} : pc' = [pc EXCEPT ![Main] = p]
    BY <1>3 DEF Open
  <2> QED
    BY <2>1, <2>2, <2>3, MainMoves
<1>4. CASE LoopTest
  <2>1. Lives'
    BY <1>0, <1>4 DEF LoopTest, Lives
  <2>2. /\ UNCHANGED <<queueVars, accepted, logger>> /\ pc[Main] = "loop"
        /\ backlog' \subseteq backlog
    BY <1>4 DEF LoopTest
  <2>3. PICK p \in {"accept", "purge"} : pc' = [pc EXCEPT ![Main] = p]
    BY <1>4 DEF LoopTest
  <2> QED
    BY <2>1, <2>2, <2>3, MainMoves
<1>5. CASE Block
  <2>1. /\ UNCHANGED <<queueVars, flags, sockets, control>> /\ pc[Main] = "accept"
        /\ pc' = [pc EXCEPT ![Main] = "blocked"]
    BY <1>5 DEF Block
  <2>2. Lives'
    BY <1>0, <2>1 DEF Lives
  <2> QED
    BY <2>1, <2>2, MainMoves
<1>6. CASE AwaitEmptiness
  <2>1. /\ UNCHANGED <<queueVars, flags, sockets, control>> /\ pc[Main] = "purge" /\ queue = <<>>
        /\ pc' = [pc EXCEPT ![Main] = "cancel"]
    BY <1>6 DEF AwaitEmptiness
  <2>2. Lives'
    BY <1>0, <2>1 DEF Lives
  <2> QED
    BY <2>1, <2>2, MainMoves
<1>7. CASE CancelThreads
  <2>1. /\ UNCHANGED <<queueVars, sockets, logger>> /\ pc[Main] = "cancel"
        /\ pc' = [pc EXCEPT ![Main] = "join"]
    BY <1>7 DEF CancelThreads
  <2>2. Lives'
    BY <1>0, <1>7 DEF CancelThreads, Lives
  <2>3. queue = <<>>
    BY <2>1 DEF AuksdInv, Stopped
  <2> QED
    BY <2>1, <2>2, <2>3, MainMoves
<1>8. CASE Join
  <2>1. /\ UNCHANGED <<queueVars, flags, sockets, control>> /\ pc[Main] = "join"
        /\ pc' = [pc EXCEPT ![Main] = "free"] /\ \A c \in Children : pc[c] = "done"
    BY <1>8 DEF Join
  <2>2. Lives'
    BY <1>0, <2>1 DEF Lives
  <2>3. queue = <<>>
    BY <2>1 DEF AuksdInv, Stopped
  <2> QED
    BY <2>1, <2>2, <2>3, MainMoves
<1>9. CASE Free
  <2>1. /\ UNCHANGED <<queueVars, sockets, logger>> /\ pc[Main] = "free"
        /\ pc' = [pc EXCEPT ![Main] = "test"]
    BY <1>9 DEF Free
  <2>2. exitFlag' \in BOOLEAN
    BY <1>9, Zenon DEF Free
  <2>3. Lives'
    BY <1>0, <1>9, <2>2 DEF Free, Lives
  <2>4. queue = <<>> /\ (\A c \in Children : pc[c] = "done")
    BY <2>1 DEF AuksdInv, Stopped
  <2>5. logger = NoThread
    BY <1>9 DEF Free, AuksdInv, Places
  <2> QED
    BY <2>1, <2>3, <2>4, <2>5, MainMoves
<1> QED
  BY <1>1, <1>2, <1>3, <1>4, <1>5, <1>6, <1>7, <1>8, <1>9

\* What two steps of the main thread leave as it is.
LEMMA MainDispatches ==
  ASSUME AuksdInv, NEW p \in {"loop", "enqueue"}, pc' = [pc EXCEPT ![Main] = p],
         pc[Main] \in Dispatching, UNCHANGED <<flags, control>>,
         frame'[Main].call = "enqueue" <=> p = "enqueue",
         \A w \in Consumers : frame'[w].call = frame[w].call /\ frame'[w].item = frame[w].item
  PROVE  /\ Places' /\ Stopped' /\ Lives'
         /\ \A w \in Consumers : \A c : Srv(w, c)' = Srv(w, c)
<1> USE DEF MainPlaces, Dispatching
<1>1. pc'[Main] = p /\ \A u \in Children : pc'[u] = pc[u]
  BY Who DEF AuksdInv, Places
<1>2. pc' \in [Children \cup {Main} -> MainPlaces \cup WorkerPlaces \cup CleanerPlaces]
  BY DEF AuksdInv, Places
<1>3. Places'
  BY <1>1, <1>2, Who DEF AuksdInv, Places, Logs
<1>4. Stopped' /\ Lives'
  BY <1>1 DEF Stopped, AuksdInv, Lives
<1>5. \A w \in Consumers : \A c : Srv(w, c)' = Srv(w, c)
  BY <1>1, Who DEF Srv
<1> QED
  BY <1>3, <1>4, <1>5

\* A connection leaves the backlog for the dispatcher's hands.
LEMMA AcceptKeeps ==
  ASSUME AuksdInv, NEW c \in Items, Accept(c)
  PROVE  AuksdInv'
<1>1. /\ pc[Main] \in {"accept", "blocked"} /\ c \in backlog
      /\ backlog' = backlog \ {c} /\ accepted' = accepted \cup {c}
      /\ CallEnqueue(Main, c, TRUE) /\ pc' = [pc EXCEPT ![Main] = "enqueue"]
      /\ UNCHANGED <<flags, control>>
  BY DEF Accept
<1>2. queue' = queue /\ frame' = [frame EXCEPT ![Main] =
        [call |-> "enqueue", blocking |-> TRUE, waiting |-> FALSE, item |-> c]]
  BY <1>1 DEF CallEnqueue
<1>3. /\ frame'[Main].call = "enqueue" /\ frame'[Main].item = c
      /\ \A w \in Consumers : frame'[w] = frame[w]
  BY <1>2, Who, QueueTypes DEF AuksdInv
<1>4. QueueInv'
  BY <1>1, OnlyMain, ProducerKeeps, AuksdAssumption DEF AuksdInv
<1>5. /\ Places' /\ Stopped' /\ Lives'
      /\ \A w \in Consumers : \A d : Srv(w, d)' = Srv(w, d)
  BY <1>1, <1>3, MainDispatches DEF Dispatching
<1>6. /\ \A d : Enq(d)' <=> d = c
      /\ \A d : ~Enq(d)
      /\ \A d : InQueue(d)' = InQueue(d)
  BY <1>1, <1>2, <1>3 DEF Enq, InQueue, AuksdInv, Places
<1>7. c \notin accepted /\ ~InQueue(c) /\ \A w \in Consumers : ~Srv(w, c)
  BY <1>1 DEF AuksdInv, OneHand, InQueue
<1>8. OneHand'
  <2>1. backlog' \subseteq Items /\ accepted' \subseteq Items /\ backlog' \cap accepted' = {}
    BY <1>1 DEF AuksdInv, OneHand
  <2>2. \A d \in Items : Enq(d)' => d \in accepted' /\ ~InQueue(d)'
    BY <1>1, <1>6, <1>7
  <2>3. \A i \in DOMAIN queue' : queue'[i] \in accepted'
    BY <1>1, <1>2 DEF AuksdInv, OneHand
  <2>4. \A i, j \in DOMAIN queue' : queue'[i] = queue'[j] => i = j
    BY <1>2 DEF AuksdInv, OneHand
  <2>5. \A w \in Consumers, d \in Items : Srv(w, d)' => d \in accepted' /\ ~Enq(d)' /\ ~InQueue(d)'
    BY <1>1, <1>5, <1>6, <1>7 DEF AuksdInv, OneHand
  <2>6. \A w, v \in Consumers, d \in Items : Srv(w, d)' /\ Srv(v, d)' => w = v
    BY <1>5 DEF AuksdInv, OneHand
  <2> QED
    BY <2>1, <2>2, <2>3, <2>4, <2>5, <2>6 DEF OneHand
<1>9. AllHeld'
  BY <1>1, <1>5, <1>6 DEF AuksdInv, AllHeld, Logs
<1> QED
  BY <1>4, <1>5, <1>8, <1>9 DEF AuksdInv

\* The dispatcher waits for a free item, or hands its connection to the queue.
LEMMA DispatchKeeps ==
  ASSUME AuksdInv, Dispatch
  PROVE  AuksdInv'
<1>0. /\ pc[Main] = "enqueue" /\ frame[Main].call = "enqueue" /\ Main \in Producers
      /\ UNCHANGED <<flags, sockets, control>>
  BY AuksdAssumption DEF Dispatch, AuksdInv, Places
<1>1. QueueInv'
  BY <1>0, OnlyMain, ProducerKeeps DEF Dispatch, AuksdInv, EnqueueStep
<1>2. CASE EnqueueWait(Main) /\ pc' = pc
  <2>1. frame' = [frame EXCEPT ![Main].waiting = TRUE] /\ queue' = queue
    BY <1>2 DEF EnqueueWait
  <2>2. \A u \in Threads : frame'[u].call = frame[u].call /\ frame'[u].item = frame[u].item
    BY <2>1, QueueTypes DEF AuksdInv, Frames
  <2>3. Lives'
    BY <1>0 DEF AuksdInv, Lives
  <2> QED
    BY <1>0, <1>1, <1>2, <2>1, <2>2, <2>3, NobodyMoves DEF AuksdInv, OneHand, Places, Stopped
<1>3. CASE Enqueue(Main) /\ pc' = [pc EXCEPT ![Main] = "loop"]
  <2> DEFINE c == frame[Main].item
  <2>1. /\ Main \in Threads /\ ~frame[Main].waiting
        /\ queue' = Append(queue, c) /\ Signal([frame EXCEPT ![Main] = Returned])
    BY <1>3, Who DEF Enqueue, Running
  <2>2. /\ frame'[Main].call = "none"
        /\ \A w \in Consumers : frame'[w].call = frame[w].call /\ frame'[w].item = frame[w].item
    <3>1. Returned \in Frames /\ ~Returned.waiting /\ Returned.call = "none" /\ XqueueTypeOK
      BY ReturnedType DEF Returned, AuksdInv, QueueInv
    <3> HIDE DEF Returned, c
    <3>2. \A u \in Threads \ {Main} :
            frame'[u].call = frame[u].call /\ frame'[u].item = frame[u].item
      BY <2>1, <3>1, SignalEffect
    <3>3. frame'[Main].call = "none"
      BY <2>1, <3>1, SignalEffect
    <3> QED
      BY <3>2, <3>3, Who
  <2>3. c \in Items
    BY <1>0, <2>1 DEF AuksdInv, QueueInv, Roles
  <2>4. /\ Places' /\ Stopped' /\ Lives'
        /\ \A w \in Consumers : \A d : Srv(w, d)' = Srv(w, d)
    BY <1>0, <1>3, <2>2, MainDispatches DEF Dispatching
  <2>5. /\ DOMAIN queue' = 1..(Len(queue) + 1) /\ DOMAIN queue = 1..Len(queue) /\ Len(queue) \in Nat
        /\ queue'[Len(queue) + 1] = c /\ \A i \in DOMAIN queue : queue'[i] = queue[i]
    BY <2>1, <2>3, QueueTypes DEF AuksdInv
  <2>6. \A d : ~Enq(d)'
    BY <2>2 DEF Enq
  <2>7. \A d : Enq(d) <=> d = c
    BY <1>0 DEF Enq
  <2>8. \A d : InQueue(d)' <=> InQueue(d) \/ d = c
    BY <2>5 DEF InQueue
  <2>9. c \in accepted /\ ~InQueue(c) /\ \A w \in Consumers : ~Srv(w, c)
    BY <2>3, <2>7 DEF AuksdInv, OneHand
  <2> HIDE DEF c
  <2>10. OneHand'
    <3>1. \A i \in DOMAIN queue' : queue'[i] \in accepted'
      BY <1>0, <2>5, <2>9 DEF AuksdInv, OneHand
    <3>2. \A i, j \in DOMAIN queue' : queue'[i] = queue'[j] => i = j
      BY <2>5, <2>9 DEF AuksdInv, OneHand, InQueue
    <3>3. \A w \in Consumers, d \in Items : Srv(w, d)' => d \in accepted' /\ ~Enq(d)' /\ ~InQueue(d)'
      BY <1>0, <2>4, <2>6, <2>8, <2>9 DEF AuksdInv, OneHand
    <3>4. \A w, v \in Consumers, d \in Items : Srv(w, d)' /\ Srv(v, d)' => w = v
      BY <2>4 DEF AuksdInv, OneHand
    <3> QED
      BY <1>0, <2>6, <3>1, <3>2, <3>3, <3>4 DEF AuksdInv, OneHand
  <2>11. AllHeld'
    BY <1>0, <2>4, <2>7, <2>8 DEF AuksdInv, AllHeld, Logs
  <2> QED
    BY <1>1, <2>4, <2>10, <2>11 DEF AuksdInv
<1> QED
  BY <1>2, <1>3 DEF Dispatch

-----------------------------------------------------------------------------
(* The threads that the main thread starts. *)

LEMMA ChildMoves ==
  ASSUME AuksdInv, NEW t \in Children, NEW p, pc' = [pc EXCEPT ![t] = p], pc[t] # "done",
         UNCHANGED <<queueVars, sockets, flags, fstatus, cancelled>>,
         t \in Consumers =>
           /\ p \in WorkerPlaces /\ p # "dequeue" /\ pc[t] # "dequeue"
           /\ p \in {"got_log", "purge_log"} => Logs(3)
           /\ p \in Holding => pc[t] \in Holding
           /\ pc[t] \in Holding => p \in Holding \/ Logs(3),
         t = Cleaner => p \in CleanerPlaces /\ (p = "clean_log" => Logs(1)),
         logger' = NoThread \/ (logger' = logger /\ (logger = t => p = "done"))
  PROVE  AuksdInv'
<1>1. QueueInv' /\ queue' = queue /\ frame' = frame
  BY StutterKeeps DEF AuksdInv, queueVars
<1>2. backlog' \subseteq Items /\ backlog' \cap accepted = {} /\ accepted' = accepted
  BY DEF AuksdInv, OneHand
<1>3. Lives'
  BY DEF AuksdInv, Lives
<1>4. /\ logger' \in Children \cup {NoThread}
      /\ logger' # NoThread =>
           pc'[logger'] \in {"purge_log", "got_log", "clean_log", "done"} /\ Logs(1)
  BY Who DEF AuksdInv, Places
<1>5. t \in Consumers => frame[t].call # "dequeue"
  BY DEF AuksdInv, Places
<1>6. t # Main /\ t \in Children \cup {Main}
  BY Who
<1> HIDE DEF AuksdInv
<1> QED
  BY <1>1, <1>2, <1>3, <1>4, <1>5, <1>6, MoveKeeps

\* While a thread runs, the main thread is not past its join, and the threads that
\* log are at a level that does.
LEMMA ChildRuns ==
  ASSUME AuksdInv, NEW t \in Children, pc[t] # "done"
  PROVE  /\ pc[Main] \notin {"free", "test", "setup", "exited"}
         /\ pc[t] \in {"purge_log", "got_log", "clean_log"} => Logs(1)
         /\ pc[t] \in {"purge_log", "got_log"} => t \in Consumers
         /\ pc[t] = "clean_log" => t = Cleaner
         /\ logger = t => pc[t] \in {"purge_log", "got_log", "clean_log"}
<1>1. pc[Main] \notin {"free", "test", "setup", "exited"}
  BY DEF AuksdInv, Stopped
<1>2. Logs(3) => Logs(1)
  BY AuksdAssumption DEF Logs
<1>3. logger = t => pc[t] \in {"purge_log", "got_log", "clean_log"}
  BY Who DEF AuksdInv, Places
<1>4. /\ pc[t] \in {"purge_log", "got_log"} => t \in Consumers
      /\ pc[t] = "clean_log" => t = Cleaner
  BY Who DEF AuksdInv, Places, WorkerPlaces, CleanerPlaces
<1> QED
  BY <1>1, <1>2, <1>3, <1>4 DEF AuksdInv, Places

LEMMA BeginLogKeeps ==
  ASSUME AuksdInv, NEW t \in Children, BeginLog(t)
  PROVE  AuksdInv'
<1>1. /\ pc[t] \in {"purge_log", "got_log", "clean_log"} /\ logger' = t /\ pc' = pc
      /\ UNCHANGED <<queueVars, sockets, flags, fstatus, cancelled>>
  BY DEF BeginLog
<1>2. QueueInv' /\ queue' = queue /\ frame' = frame
  BY <1>1, StutterKeeps DEF AuksdInv, queueVars
<1>3. Lives'
  BY <1>1 DEF AuksdInv, Lives
<1>4. Logs(1) /\ pc[Main] \notin {"test", "setup", "exited"}
  BY <1>1, ChildRuns
<1>5. backlog' \subseteq Items /\ backlog' \cap accepted = {} /\ accepted' = accepted
  BY <1>1 DEF AuksdInv, OneHand
<1> HIDE DEF AuksdInv
<1> QED
  BY <1>1, <1>2, <1>3, <1>4, <1>5, NobodyMoves

\* A worker asks the queue for a connection.
LEMMA CallKeeps ==
  ASSUME AuksdInv, NEW w \in Consumers, NEW b \in BOOLEAN, CallDequeue(w, b),
         pc' = [pc EXCEPT ![w] = "dequeue"], pc[w] \in {"loop", "purge_log"},
         UNCHANGED <<sockets, flags, fstatus, cancelled>>,
         logger' = NoThread \/ (logger' = logger /\ logger # w)
  PROVE  AuksdInv'
<1>1. QueueInv'
  BY ConsumerKeeps DEF AuksdInv, Consume
<1>2. queue' = queue /\ frame' = [frame EXCEPT ![w] =
        [call |-> "dequeue", blocking |-> b, waiting |-> FALSE, item |-> NoItem]]
  BY DEF CallDequeue
<1>3. w \in Threads /\ w \in Children /\ w # Main /\ w # Cleaner
  BY Who
<1>4. /\ frame'[w].call = "dequeue" /\ queue' = queue
      /\ \A u \in Threads : u # w \/ w = Main =>
           frame'[u].call = frame[u].call /\ frame'[u].item = frame[u].item
  BY <1>2, <1>3, QueueTypes DEF AuksdInv
<1>5. Lives'
  BY DEF AuksdInv, Lives
<1>6. backlog' \subseteq Items /\ backlog' \cap accepted = {} /\ accepted' = accepted
  BY DEF AuksdInv, OneHand
<1>7. /\ logger' \in Children \cup {NoThread}
      /\ logger' # NoThread =>
           pc'[logger'] \in {"purge_log", "got_log", "clean_log", "done"} /\ Logs(1)
  BY DEF AuksdInv, Places
<1>8. /\ "dequeue" \in WorkerPlaces /\ "dequeue" \notin Holding /\ pc[w] \notin Holding
      /\ "dequeue" \notin {"got_log", "purge_log"} /\ pc[w] # "done"
  BY DEF WorkerPlaces, Holding
<1>9. w \in Children \cup {Main}
  BY <1>3
<1> HIDE DEF AuksdInv
<1> QED
  BY <1>1, <1>3, <1>4, <1>5, <1>6, <1>7, <1>8, <1>9, MoveKeeps

LEMMA EndLogKeeps ==
  ASSUME AuksdInv, NEW t \in Children, EndLog(t)
  PROVE  AuksdInv'
<1>0. /\ logger = t /\ pc[t] # "done" /\ logger' = NoThread
      /\ UNCHANGED <<sockets, flags, fstatus, cancelled>>
  BY DEF EndLog
<1>1. pc[t] \in {"purge_log", "got_log", "clean_log"}
  BY <1>0, ChildRuns
<1>2. CASE pc[t] = "purge_log"
  <2>1. CallDequeue(t, FALSE) /\ pc' = [pc EXCEPT ![t] = "dequeue"]
    BY <1>2 DEF EndLog
  <2>2. t \in Consumers
    BY <1>0, <1>2, ChildRuns
  <2> QED
    BY <1>0, <1>2, <2>1, <2>2, CallKeeps
<1>3. CASE pc[t] = "got_log"
  <2>1. UNCHANGED queueVars /\ pc' = [pc EXCEPT ![t] = "serving"]
    BY <1>3 DEF EndLog
  <2>2. t \in Consumers /\ t # Cleaner
    BY <1>0, <1>3, ChildRuns, Who
  <2> QED
    BY <1>0, <1>3, <2>1, <2>2, ChildMoves DEF Holding, WorkerPlaces
<1>4. CASE pc[t] = "clean_log"
  <2>1. UNCHANGED queueVars /\ pc' = [pc EXCEPT ![t] = "check"]
    BY <1>4 DEF EndLog
  <2>2. t = Cleaner /\ t \notin Consumers
    BY <1>0, <1>4, ChildRuns, Who
  <2> QED
    BY <1>0, <1>4, <2>1, <2>2, ChildMoves DEF CleanerPlaces
<1> QED
  BY <1>1, <1>2, <1>3, <1>4

\* A thread that is cancelled as it writes takes its connection, if any, with it, and
\* the mutex of the log.
LEMMA CancelLogKeeps ==
  ASSUME AuksdInv, NEW t \in Children, CancelLog(t)
  PROVE  AuksdInv'
<1>1. /\ logger = t /\ pc[t] # "done" /\ pc' = [pc EXCEPT ![t] = "done"]
      /\ UNCHANGED <<queueVars, flags, sockets, control>>
  BY DEF CancelLog
<1>2. pc[t] \in {"purge_log", "got_log", "clean_log"}
  BY <1>1, ChildRuns
<1>3. t \in Consumers => (pc[t] \in Holding => Logs(3))
  BY <1>2 DEF AuksdInv, Places, Holding
<1>4. "done" \in WorkerPlaces /\ "done" \in CleanerPlaces /\ "done" \notin Holding
  BY DEF WorkerPlaces, CleanerPlaces, Holding
<1> QED
  BY <1>1, <1>2, <1>3, <1>4, ChildMoves

-----------------------------------------------------------------------------
(* Workers and cleaner. *)

LEMMA WorkerLoopKeeps ==
  ASSUME AuksdInv, NEW w \in Consumers, WorkerLoop(w)
  PROVE  AuksdInv'
<1>0. /\ pc[w] = "loop" /\ w \in Children /\ w # Cleaner
      /\ UNCHANGED <<flags, sockets, control>>
  BY Who DEF WorkerLoop
<1>1. logger # w
  BY <1>0, ChildRuns
<1>2. CASE Logs(3) /\ UNCHANGED queueVars /\ pc' = [pc EXCEPT ![w] = "purge_log"]
  BY <1>0, <1>1, <1>2, ChildMoves DEF WorkerPlaces, Holding
<1>3. CASE CallDequeue(w, ~eofWorker) /\ pc' = [pc EXCEPT ![w] = "dequeue"]
  <2>1. (~eofWorker) \in BOOLEAN
    BY DEF AuksdInv, Lives
  <2> QED
    BY <1>0, <1>1, <1>3, <2>1, CallKeeps
<1> QED
  BY <1>2, <1>3 DEF WorkerLoop

\* A worker returns from its dequeue with nothing and leaves: the queue is empty, or
\* its wait is cancelled.
LEMMA LeaveKeeps ==
  ASSUME AuksdInv, NEW w \in Consumers, QueueInv', UNCHANGED <<queue, spare>>,
         pc[w] = "dequeue", frame' = [frame EXCEPT ![w] = Returned],
         pc' = [pc EXCEPT ![w] = "done"], UNCHANGED <<flags, sockets, control>>
  PROVE  AuksdInv'
<1>1. w \in Threads /\ w \in Children /\ w # Main /\ w # Cleaner
  BY Who
<1>2. frame'[w].call = "none" /\ \A u \in Threads : u # w => frame'[u] = frame[u]
  BY <1>1, QueueTypes DEF AuksdInv, Returned
<1>3. Lives'
  BY DEF AuksdInv, Lives
<1>4. backlog' \subseteq Items /\ backlog' \cap accepted = {} /\ accepted' = accepted
  BY DEF AuksdInv, OneHand
<1>5. /\ logger' \in Children \cup {NoThread}
      /\ logger' # NoThread =>
           pc'[logger'] \in {"purge_log", "got_log", "clean_log", "done"} /\ Logs(1)
  BY DEF AuksdInv, Places
<1>6. "done" \in WorkerPlaces /\ "done" \notin Holding /\ pc[w] \notin Holding /\ pc[w] # "done"
  BY DEF WorkerPlaces, Holding
<1>7. frame'[w].call # "dequeue"
  BY <1>2
<1> HIDE DEF AuksdInv
<1> QED
  BY <1>1, <1>2, <1>3, <1>4, <1>5, <1>6, <1>7, MoveKeeps

\* A connection goes from the head of the queue into the hands of a worker.
LEMMA DequeueKeepsHands ==
  ASSUME AuksdInv, NEW w \in Consumers, Dequeue(w), pc[w] = "dequeue",
         NEW p \in Holding, p = "got_log" => Logs(3), pc' = [pc EXCEPT ![w] = p],
         UNCHANGED <<flags, sockets, control>>
  PROVE  AuksdInv'
<1>0. PICK c : c = Head(queue)
  OBVIOUS
<1> DEFINE r == [Returned EXCEPT !.item = c]
<1>1. QueueInv'
  BY ConsumerKeeps DEF AuksdInv, DequeueStep
<1>2. w \in Threads /\ w \in Children /\ w # Main /\ w # Cleaner
  BY Who
<1>3. queue # <<>> /\ queue' = Tail(queue) /\ Signal([frame EXCEPT ![w] = r])
  BY <1>0 DEF Dequeue
<1>4. /\ c \in Items /\ queue[1] = c /\ 1 \in DOMAIN queue
      /\ \A i \in DOMAIN queue' : i + 1 \in DOMAIN queue /\ queue'[i] = queue[i + 1] /\ i + 1 # 1
      /\ \A i \in DOMAIN queue : i # 1 => i - 1 \in DOMAIN queue' /\ queue'[i - 1] = queue[i]
  BY <1>0, <1>3, QueueTypes DEF AuksdInv
<1>5. r \in Frames /\ ~r.waiting /\ r.call = "none" /\ r.item = c
  BY <1>4 DEF Returned, Frames
<1> HIDE DEF r
<1>6. /\ \A u \in Threads \ {w} : frame'[u].call = frame[u].call /\ frame'[u].item = frame[u].item
      /\ frame'[w].call = "none" /\ frame'[w].item = c
  BY <1>2, <1>3, <1>5, SignalEffect DEF AuksdInv, QueueInv
<1>7. pc[Main] \notin {"cancel", "join", "free", "test", "setup", "exited"}
  BY <1>3 DEF AuksdInv, Stopped
<1>8. pc'[w] = p /\ \A u \in Children \cup {Main} : u # w => pc'[u] = pc[u]
  BY <1>2 DEF AuksdInv, Places
<1>9. Places'
  <2>1. p \in WorkerPlaces /\ p # "dequeue" /\ p # "purge_log"
    BY DEF Holding, WorkerPlaces
  <2>2. pc' \in [Children \cup {Main} -> MainPlaces \cup WorkerPlaces \cup CleanerPlaces]
    BY <1>2, <2>1 DEF AuksdInv, Places
  <2>3. logger # w
    BY <1>2, ChildRuns
  <2>4. \A v \in Consumers :
          /\ pc'[v] \in WorkerPlaces
          /\ frame'[v].call = "dequeue" <=> pc'[v] = "dequeue"
          /\ pc'[v] \in {"got_log", "purge_log"} => Logs(3)
    BY <1>6, <1>8, <2>1, Who DEF AuksdInv, Places
  <2>5. pc'[Main] = pc[Main] /\ pc'[Cleaner] = pc[Cleaner] /\ frame'[Main].call = frame[Main].call
    BY <1>2, <1>6, <1>8, Who
  <2>6. /\ logger' \in Children \cup {NoThread}
        /\ logger' # NoThread =>
             pc'[logger'] \in {"purge_log", "got_log", "clean_log", "done"} /\ Logs(1)
    BY <1>8, <2>3 DEF AuksdInv, Places
  <2> QED
    BY <2>2, <2>4, <2>5, <2>6 DEF AuksdInv, Places, Logs
<1>10. Stopped'
  BY <1>2, <1>7, <1>8 DEF Stopped
<1>11. Lives'
  BY DEF AuksdInv, Lives
<1>12. \A d : Enq(d)' = Enq(d)
  BY <1>2, <1>6, Who DEF Enq
<1>13. InQueue(c) /\ \A d : InQueue(d)' => InQueue(d)
  BY <1>4 DEF InQueue
<1>14. ~InQueue(c)'
  <2>1. \A i \in DOMAIN queue' : queue[i + 1] # queue[1]
    BY <1>4 DEF AuksdInv, OneHand
  <2> QED
    BY <1>4, <2>1 DEF InQueue
<1>15. \A d : InQueue(d) /\ d # c => InQueue(d)'
  BY <1>4, QueueTypes DEF InQueue, AuksdInv
<1>16. \A d : Srv(w, d)' <=> d = c
  BY <1>6, <1>8 DEF Srv
<1>17. \A v \in Consumers : \A d : v # w => Srv(v, d)' = Srv(v, d)
  BY <1>2, <1>6, <1>8, Who DEF Srv
<1>18. \A d : ~Srv(w, d)
  BY DEF Srv, Holding
<1>19. c \in accepted /\ ~Enq(c) /\ \A v \in Consumers : ~Srv(v, c)
  BY <1>4, <1>13 DEF AuksdInv, OneHand
<1>20. OneHand'
  <2>1. \A d \in Items : Enq(d)' => d \in accepted' /\ ~InQueue(d)'
    BY <1>12, <1>13 DEF AuksdInv, OneHand
  <2>2. \A i \in DOMAIN queue' : queue'[i] \in accepted'
    BY <1>4 DEF AuksdInv, OneHand
  <2>3. \A i, j \in DOMAIN queue' : queue'[i] = queue'[j] => i = j
    <3> SUFFICES ASSUME NEW i \in DOMAIN queue', NEW j \in DOMAIN queue', queue'[i] = queue'[j]
                 PROVE  i = j
      OBVIOUS
    <3>1. i + 1 \in DOMAIN queue /\ j + 1 \in DOMAIN queue /\ queue[i + 1] = queue[j + 1]
      BY <1>4
    <3>2. i + 1 = j + 1
      BY <3>1 DEF AuksdInv, OneHand
    <3>3. i \in Int /\ j \in Int
      BY <1>1, QueueTypes DEF QueueInv, XqueueTypeOK
    <3> QED
      BY <3>2, <3>3
  <2>4. \A v \in Consumers, d \in Items : Srv(v, d)' => d \in accepted' /\ ~Enq(d)' /\ ~InQueue(d)'
    <3> SUFFICES ASSUME NEW v \in Consumers, NEW d \in Items, Srv(v, d)'
                 PROVE  d \in accepted /\ ~Enq(d) /\ ~InQueue(d)'
      BY <1>12
    <3>1. CASE v = w
      BY <1>14, <1>16, <1>19, <3>1
    <3>2. CASE v # w
      BY <1>13, <1>17, <3>2 DEF AuksdInv, OneHand
    <3> QED
      BY <3>1, <3>2
  <2>5. \A u, v \in Consumers, d \in Items : Srv(u, d)' /\ Srv(v, d)' => u = v
    BY <1>16, <1>17, <1>19 DEF AuksdInv, OneHand
  <2> QED
    BY <2>1, <2>2, <2>3, <2>4, <2>5 DEF AuksdInv, OneHand
<1>21. AllHeld'
  BY <1>12, <1>15, <1>16, <1>17, <1>18 DEF AuksdInv, AllHeld, Logs
<1> QED
  BY <1>1, <1>9, <1>10, <1>11, <1>20, <1>21 DEF AuksdInv

LEMMA WorkerDequeueKeeps ==
  ASSUME AuksdInv, NEW w \in Consumers, WorkerDequeue(w)
  PROVE  AuksdInv'
<1>0. pc[w] = "dequeue" /\ UNCHANGED <<flags, sockets, control>>
  BY DEF WorkerDequeue
<1>1. CASE Dequeue(w) /\ pc' = [pc EXCEPT ![w] = IF Logs(3) THEN "got_log" ELSE "serving"]
  <2> DEFINE p == IF Logs(3) THEN "got_log" ELSE "serving"
  <2>1. p \in Holding /\ (p = "got_log" => Logs(3))
    BY DEF Holding
  <2> HIDE DEF p
  <2> QED
    BY <1>0, <1>1, <2>1, DequeueKeepsHands DEF p
<1>2. CASE DequeueWait(w) /\ pc' = pc
  <2>1. QueueInv'
    BY <1>2, ConsumerKeeps DEF AuksdInv, DequeueStep
  <2>2. frame' = [frame EXCEPT ![w].waiting = TRUE] /\ queue' = queue
    BY <1>2 DEF DequeueWait
  <2>3. \A u \in Threads : frame'[u].call = frame[u].call /\ frame'[u].item = frame[u].item
    BY <2>2, QueueTypes DEF AuksdInv, Frames
  <2>4. Lives'
    BY <1>0 DEF AuksdInv, Lives
  <2> QED
    BY <1>0, <1>2, <2>1, <2>2, <2>3, <2>4, NobodyMoves DEF AuksdInv, OneHand, Places, Stopped
<1>3. CASE DequeueEmpty(w) /\ pc' = [pc EXCEPT ![w] = "done"]
  <2>1. QueueInv'
    BY <1>3, ConsumerKeeps DEF AuksdInv, DequeueStep
  <2> QED
    BY <1>0, <1>3, <2>1, LeaveKeeps DEF DequeueEmpty
<1> QED
  BY <1>1, <1>2, <1>3 DEF WorkerDequeue

LEMMA CancelDequeueKeeps ==
  ASSUME AuksdInv, NEW w \in Consumers, CancelDequeue(w)
  PROVE  AuksdInv'
<1>1. /\ CancelWait(w) /\ pc' = [pc EXCEPT ![w] = "done"]
      /\ UNCHANGED <<flags, sockets, control>>
  BY DEF CancelDequeue
<1>2. QueueInv'
  BY <1>1, ConsumerKeeps DEF AuksdInv
<1>3. frame[w].call = "dequeue"
  <2>1. w \in Threads /\ frame[w] \in Frames
    BY Who, QueueTypes DEF AuksdInv
  <2> QED
    BY <1>1, <2>1 DEF CancelWait, MustWait, Running, Calling, AuksdInv, QueueInv, Roles, Frames
<1>4. pc[w] = "dequeue"
  BY <1>3 DEF AuksdInv, Places
<1> QED
  BY <1>1, <1>2, <1>4, LeaveKeeps DEF CancelWait

\* A connection that has been served is closed.
LEMMA ServeKeeps ==
  ASSUME AuksdInv, NEW w \in Consumers, Serve(w)
  PROVE  AuksdInv'
<1> DEFINE c == frame[w].item
<1>1. /\ pc[w] = "serving" /\ accepted' = accepted \ {c} /\ pc' = [pc EXCEPT ![w] = "testcancel"]
      /\ UNCHANGED <<queueVars, flags, backlog, control>>
  BY DEF Serve
<1>2. QueueInv' /\ queue' = queue /\ frame' = frame
  BY <1>1, StutterKeeps DEF AuksdInv, queueVars
<1>3. w \in Threads /\ w \in Children /\ w # Main /\ w # Cleaner
  BY Who
<1>4. Srv(w, c)
  BY <1>1 DEF Srv, Holding
<1> HIDE DEF c
<1>5. pc'[w] = "testcancel" /\ \A u \in Children \cup {Main} : u # w => pc'[u] = pc[u]
  BY <1>1, <1>3 DEF AuksdInv, Places
<1>6. pc[Main] \notin {"free", "test", "setup", "exited"} /\ logger # w
  BY <1>1, <1>3, ChildRuns
<1>7. Places'
  <2>1. pc' \in [Children \cup {Main} -> MainPlaces \cup WorkerPlaces \cup CleanerPlaces]
    BY <1>1, <1>3 DEF AuksdInv, Places, WorkerPlaces
  <2>2. \A v \in Consumers :
          /\ pc'[v] \in WorkerPlaces
          /\ frame'[v].call = "dequeue" <=> pc'[v] = "dequeue"
          /\ pc'[v] \in {"got_log", "purge_log"} => Logs(3)
    BY <1>1, <1>2, <1>5, Who DEF AuksdInv, Places, WorkerPlaces
  <2>3. pc'[Main] = pc[Main] /\ pc'[Cleaner] = pc[Cleaner]
    BY <1>3, <1>5, Who
  <2>4. /\ logger' \in Children \cup {NoThread}
        /\ logger' # NoThread =>
             pc'[logger'] \in {"purge_log", "got_log", "clean_log", "done"} /\ Logs(1)
    BY <1>1, <1>5, <1>6 DEF AuksdInv, Places
  <2> QED
    BY <1>2, <2>1, <2>2, <2>3, <2>4 DEF AuksdInv, Places, Logs
<1>8. Stopped'
  BY <1>1, <1>2, <1>3, <1>5, <1>6 DEF AuksdInv, Stopped
<1>9. Lives'
  BY <1>1 DEF AuksdInv, Lives
<1>10. \A d : Enq(d)' = Enq(d) /\ InQueue(d)' = InQueue(d)
  BY <1>2 DEF Enq, InQueue
<1>11. \A v \in Consumers : \A d : v # w => Srv(v, d)' = Srv(v, d)
  BY <1>2, <1>3, <1>5, Who DEF Srv
<1>12. \A d : ~Srv(w, d)' /\ (Srv(w, d) => d = c)
  BY <1>5 DEF Srv, Holding, c
<1>13. c \in Items => ~Enq(c) /\ ~InQueue(c) /\ \A v \in Consumers : Srv(v, c) => v = w
  BY <1>4 DEF AuksdInv, OneHand
<1>14. OneHand'
  <2>1. \A d \in Items : Enq(d)' => d \in accepted' /\ ~InQueue(d)'
    BY <1>1, <1>10, <1>13 DEF AuksdInv, OneHand
  <2>2. \A i \in DOMAIN queue' : queue'[i] \in accepted'
    BY <1>1, <1>2, <1>13, QueueTypes DEF AuksdInv, OneHand, InQueue
  <2>3. \A v \in Consumers, d \in Items : Srv(v, d)' => d \in accepted' /\ ~Enq(d)' /\ ~InQueue(d)'
    BY <1>1, <1>10, <1>11, <1>12, <1>13 DEF AuksdInv, OneHand
  <2>4. \A u, v \in Consumers, d \in Items : Srv(u, d)' /\ Srv(v, d)' => u = v
    BY <1>11, <1>12 DEF AuksdInv, OneHand
  <2> QED
    BY <1>1, <1>2, <2>1, <2>2, <2>3, <2>4 DEF AuksdInv, OneHand
<1>15. AllHeld'
  BY <1>1, <1>10, <1>11, <1>12 DEF AuksdInv, AllHeld, Logs
<1> QED
  BY <1>2, <1>7, <1>8, <1>9, <1>14, <1>15 DEF AuksdInv

LEMMA WorkerKeeps ==
  ASSUME AuksdInv, NEW w \in Consumers, WorkerStep(w)
  PROVE  AuksdInv'
<1>0. w \in Children /\ w # Cleaner
  BY Who
<1>1. CASE TestCancel(w)
  <2> DEFINE p == IF w \in cancelled THEN "done" ELSE "loop"
  <2>1. /\ pc[w] = "testcancel" /\ pc' = [pc EXCEPT ![w] = p]
        /\ UNCHANGED <<queueVars, flags, sockets, control>>
    BY <1>1 DEF TestCancel
  <2>2. p \in {"done", "loop"}
    OBVIOUS
  <2> HIDE DEF p
  <2>3. logger # w
    BY <1>0, <2>1, ChildRuns
  <2> QED
    BY <1>0, <2>1, <2>2, <2>3, ChildMoves DEF WorkerPlaces, Holding
<1> QED
  BY <1>0, <1>1, WorkerLoopKeeps, WorkerDequeueKeeps, CancelDequeueKeeps, ServeKeeps,
     EndLogKeeps, CancelLogKeeps DEF WorkerStep

LEMMA CleanerKeeps ==
  ASSUME AuksdInv, CleanerStep
  PROVE  AuksdInv'
<1>0. Cleaner \in Children /\ Cleaner \notin Consumers
  BY Who
<1>1. ASSUME NEW p \in {"done", "check", "sleep", "clean", "clean_log"},
             p = "clean_log" => Logs(1), pc' = [pc EXCEPT ![Cleaner] = p],
             pc[Cleaner] \in {"clean", "check", "sleep"},
             UNCHANGED <<queueVars, flags, sockets, control>>
      PROVE  AuksdInv'
  <2>1. logger # Cleaner
    BY <1>0, <1>1, ChildRuns
  <2>2. p \in CleanerPlaces
    BY DEF CleanerPlaces
  <2> QED
    BY <1>0, <1>1, <2>1, <2>2, ChildMoves
<1>2. CASE Clean
  <2>1. PICK failed \in CleanFails :
          pc' = [pc EXCEPT ![Cleaner] =
                  IF Logs(IF failed THEN 1 ELSE 2) THEN "clean_log" ELSE "check"]
    BY <1>2 DEF Clean
  <2>2. CASE Logs(IF failed THEN 1 ELSE 2)
    <3>1. Logs(1)
      BY <2>2, AuksdAssumption DEF Logs
    <3> QED
      BY <1>1, <1>2, <2>1, <2>2, <3>1 DEF Clean
  <2>3. CASE ~Logs(IF failed THEN 1 ELSE 2)
    BY <1>1, <1>2, <2>1, <2>3 DEF Clean
  <2> QED
    BY <2>2, <2>3
<1>3. CASE Check
  BY <1>1, <1>3 DEF Check
<1>4. CASE WakeUp
  BY <1>1, <1>4 DEF WakeUp
<1> QED
  BY <1>0, <1>2, <1>3, <1>4, EndLogKeeps, CancelLogKeeps DEF CleanerStep

-----------------------------------------------------------------------------

LEMMA SpuriousKeeps ==
  ASSUME AuksdInv, NEW t \in Threads, SpuriousWakeup(t), UNCHANGED <<pc, flags, sockets, control>>
  PROVE  AuksdInv'
<1>1. frame' = [frame EXCEPT ![t].waiting = FALSE] /\ UNCHANGED <<queue, spare>>
  BY DEF SpuriousWakeup, Wake
<1>2. frame[t].call # "none"
  BY DEF SpuriousWakeup, AuksdInv, QueueInv, Roles
<1>3. QueueInv'
  BY <1>1, <1>2, WaitKeeps DEF AuksdInv
<1>4. \A u \in Threads : frame'[u].call = frame[u].call /\ frame'[u].item = frame[u].item
  BY <1>1, QueueTypes DEF AuksdInv, Frames
<1>5. Lives'
  BY DEF AuksdInv, Lives
<1> QED
  BY <1>1, <1>3, <1>4, <1>5, NobodyMoves DEF AuksdInv, OneHand, Places, Stopped

LEMMA StandingStill == ASSUME AuksdInv, UNCHANGED auksdVars PROVE AuksdInv'
<1>1. QueueInv' /\ queue' = queue /\ frame' = frame
  BY StutterKeeps DEF AuksdInv, queueVars, auksdVars
<1>2. UNCHANGED <<pc, flags, sockets, control>>
  BY DEF auksdVars
<1>3. Lives'
  BY <1>2 DEF AuksdInv, Lives
<1> QED
  BY <1>1, <1>2, <1>3, NobodyMoves DEF AuksdInv, OneHand, Places, Stopped

\* The invariant of the whole process, for any number of workers and of connections,
\* signals that arrive anywhere and reloads.
THEOREM AuksdInvariant == AuksdSpec => []AuksdInv
<1>1. AuksdInv /\ [AuksdNext]_auksdVars => AuksdInv'
  <2> SUFFICES ASSUME AuksdInv, [AuksdNext]_auksdVars
               PROVE  AuksdInv'
    OBVIOUS
  <2>1. CASE (\E exit \in BOOLEAN : Handle(exit)) \/ (\E c \in Items : Connect(c))
    BY <2>1, WorldKeeps
  <2>2. CASE MainStep
    BY <2>2, SetupKeeps, MainWalks, AcceptKeeps, DispatchKeeps DEF MainStep
  <2>3. CASE \E w \in Consumers : WorkerStep(w)
    BY <2>3, WorkerKeeps
  <2>4. CASE CleanerStep
    BY <2>4, CleanerKeeps
  <2>5. CASE \E t \in Children : BeginLog(t)
    BY <2>5, BeginLogKeeps
  <2>6. CASE \E t \in Threads : SpuriousWakeup(t) /\ UNCHANGED <<pc, flags, sockets, control>>
    BY <2>6, SpuriousKeeps
  <2>7. CASE UNCHANGED auksdVars
    BY <2>7, StandingStill
  <2> QED
    BY <2>1, <2>2, <2>3, <2>4, <2>5, <2>6, <2>7 DEF AuksdNext
<1> QED
  BY <1>1, AuksdInitInv, PTL DEF AuksdSpec

LEMMA AtMostOne ==
  ASSUME NEW S, \A x, y \in S : x = y
  PROVE  Cardinality(S) = IF S = {} THEN 0 ELSE 1
<1>1. CASE S = {}
  BY <1>1, FS_EmptySet
<1>2. CASE S # {}
  <2>1. PICK x \in S : TRUE
    BY <1>2
  <2>2. S = {x}
    BY <2>1
  <2>3. Cardinality({x}) = 1
    BY FS_Singleton
  <2> QED
    BY <1>2, <2>2, <2>3
<1> QED
  BY <1>1, <1>2

LEMMA CountHands ==
  ASSUME AuksdInv, NEW c \in Items
  PROVE  /\ Hands(c) \in 0..1
         /\ Hands(c) = 1 <=> Enq(c) \/ InQueue(c) \/ \E w \in Consumers : Srv(w, c)
         /\ Hands(c) = 1 => c \in accepted
<1>1. Cardinality(Enqueuing(c)) = IF Enq(c) THEN 1 ELSE 0
  <2>1. Enqueuing(c) = {} <=> ~Enq(c)
    BY DEF Enqueuing, Enq, Calling
  <2>2. \A x, y \in Enqueuing(c) : x = y
    BY DEF Enqueuing
  <2> QED
    BY <2>1, <2>2, AtMostOne
<1>2. Cardinality(Queued(c)) = IF InQueue(c) THEN 1 ELSE 0
  <2>1. Queued(c) = {} <=> ~InQueue(c)
    BY DEF Queued, InQueue
  <2>2. \A x, y \in Queued(c) : x = y
    BY DEF Queued, AuksdInv, OneHand
  <2> QED
    BY <2>1, <2>2, AtMostOne
<1>3. Cardinality(Serving(c)) = IF \E w \in Consumers : Srv(w, c) THEN 1 ELSE 0
  <2>1. Serving(c) = {} <=> ~\E w \in Consumers : Srv(w, c)
    BY DEF Serving, Srv, Holding
  <2>2. \A x, y \in Serving(c) : x = y
    BY DEF Serving, Srv, Holding, AuksdInv, OneHand
  <2> QED
    BY <2>1, <2>2, AtMostOne
<1>4. Enq(c) => c \in accepted /\ ~InQueue(c)
  BY DEF AuksdInv, OneHand
<1>5. InQueue(c) => c \in accepted
  BY DEF AuksdInv, OneHand, InQueue
<1>6. \A w \in Consumers : Srv(w, c) => c \in accepted /\ ~Enq(c) /\ ~InQueue(c)
  BY DEF AuksdInv, OneHand
<1> QED
  BY <1>1, <1>2, <1>3, <1>4, <1>5, <1>6 DEF Hands

\* No connection is ever in two pairs of hands, or in one after it is closed (auksd.c,
\* xqueue.c), at every log level, whatever is signalled when.
THEOREM NeverInTwoHands == AuksdSpec => []NeverShared
<1>1. AuksdInv => NeverShared
  BY CountHands DEF NeverShared
<1> QED
  BY <1>1, AuksdInvariant, PTL

\* Below log level 3 no accepted connection is dropped either: it is in one pair of
\* hands until it is closed.
THEOREM NoneIsDropped == ASSUME ~Logs(3) PROVE AuksdSpec => []NoneDropped
<1>1. AuksdInv => NoneDropped
  <2> SUFFICES ASSUME AuksdInv, NEW c \in Items
               PROVE  Hands(c) = IF c \in accepted THEN 1 ELSE 0
    BY DEF NoneDropped
  <2>1. c \in accepted => Hands(c) = 1
    BY CountHands DEF AuksdInv, AllHeld
  <2> QED
    BY <2>1, CountHands
<1> QED
  BY <1>1, AuksdInvariant, PTL

\* auksd_main_loop frees its queue when no thread can use it any more and, below log
\* level 3, every connection has been served.
THEOREM FreedWhenQuiet == AuksdSpec => []QuietWhenFreed
<1>1. AuksdInv => QuietWhenFreed
  <2> SUFFICES ASSUME AuksdInv, pc[Main] = "free"
               PROVE  /\ \A t \in Children : pc[t] = "done"
                      /\ queue = <<>>
                      /\ ~Logs(3) => accepted = {}
    BY DEF QuietWhenFreed
  <2>1. queue = <<>> /\ \A t \in Children : pc[t] = "done"
    BY DEF AuksdInv, Stopped
  <2>2. ~Logs(3) => accepted = {}
    BY <2>1, NothingHeld DEF AuksdInv, AllHeld
  <2> QED
    BY <2>1, <2>2
<1> QED
  BY <1>1, AuksdInvariant, PTL

\* The queue of auksd loses no wakeup: the dispatcher is the only producer, so that no
\* other one can take the signal of its enqueue.
THEOREM WakeupsReachWorkers == AuksdSpec => []NoLostWakeup
<1>1. AuksdInv => NoLostWakeup
  BY DEF AuksdInv, QueueInv
<1> QED
  BY <1>1, AuksdInvariant, PTL

\* Types, and the places of the threads.
THEOREM AuksdTypes == AuksdSpec => []AuksdTypeOK
<1>1. AuksdInv => AuksdTypeOK
  BY DEF AuksdInv, QueueInv, Places, OneHand, Lives, AuksdTypeOK
<1> QED
  BY <1>1, AuksdInvariant, PTL
=============================================================================
