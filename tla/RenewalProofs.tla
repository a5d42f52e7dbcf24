---------------------------- MODULE RenewalProofs ----------------------------
(* Theorems about the renewal of credentials (Renewal), for every delay,   *)
(* every minimal lifetime and every number of users and of job steps.      *)
EXTENDS Renewal, TLAPS

----------------------------------------------------------------------------
(* The inductive invariant                                                 *)

Stages == {"dump", "next", "add", "end"}
Working == {"test", "get", "kdc", "put"}

\* The clock of auksdrenewer, which nothing has told to stop.
RenewerInTime ==
  /\ ~renewer.eof /\ ~renewer.exit /\ ~InRenewer("exited")
  /\ renewer.since <= now /\ now <= renewer.due
  /\ renewer.pc \in {"main", "loop"} => renewer.since = 0 /\ renewer.due = Work
  /\ renewer.pc \in Stages => renewer.due = renewer.since + Work
  /\ InRenewer("rest") => renewer.due <= renewer.since + Delay
  /\ InRenewer("sleep") => renewer.due = renewer.since + Delay
  /\ ~(renewer.pc \in {"next", "add"}) => renewer.todo = {}

\* The clock of the renewal loop of a step.
StepInTime(s) ==
  /\ step[s].pc \in Working => step[s].due - Work <= now /\ now <= step[s].due
  /\ InStep(s, "sleep") => now <= step[s].due

\* No ticket starts in the future.
Begun(c) == c \in Cred => c.start <= now

AllBegun ==
  /\ \A u \in Users : Begun(store[u])
  /\ \A m \in renewer.todo : Begun(m[2])
  /\ Begun(renewer.cred)
  /\ \A s \in Steps : Begun(step[s].ccache) /\ Begun(step[s].cred)

\* A credential is renewed only when its lifetime allows for it.
Tested(s) ==
  step[s].pc \in {"get", "kdc"} => step[s].ccache.end - step[s].ccache.start > MinLife

AllTested == \A s \in Steps : Tested(s)

\* The current stage has still to come to the credential of the user.
Awaited(u) ==
  \/ InRenewer("dump")
  \/ InRenewer("next") /\ <<u, store[u]>> \in renewer.todo
  \/ /\ InRenewer("add")
     /\ \/ <<u, store[u]>> \in renewer.todo
        \/ renewer.user = u /\ Replaces(renewer.cred, store[u])

\* The time until when the credential of the user lasts at least, when one
\* that is left alone by a stage lasts for k more.
Until(u, k) ==
  IF renewer.pc \in {"main", "loop"} THEN k - Delay + Work
  ELSE IF Awaited(u) THEN renewer.since + k - Delay
  ELSE renewer.since + k

Lasts(u, k) == Extendable(store[u]) => store[u].end >= Until(u, k)

\* A renewed credential is left alone by the next test.
RenewedLasts ==
  InRenewer("add") /\ Extendable(renewer.cred) =>
    renewer.cred.end >= renewer.since + MinLife + 1

RepoLasts == RepoMargin => \A u \in Users : Timely(u) => Lasts(u, Delay + Work)

\* What the cache of a step has left at each point of its loop.
StepLasts(s) ==
  LET p == step[s] IN
  /\ Lasts(OwnerOf[s], MinLife + 1)
  /\ p.pc # "none"
  /\ p.pc \in Working /\ Extendable(p.ccache) => p.ccache.end >= p.due
  /\ p.pc = "put" /\ Extendable(p.cred) => p.cred.end >= p.due + Delay + Work
  /\ p.pc = "sleep" /\ Extendable(p.ccache) => p.ccache.end >= p.due + Work
  /\ p.pc = "gone" => ~Extendable(p.ccache)

StepsLast == StepMargin => \A s \in Steps : given[s] > MinLife => StepLasts(s)

RenewalLasts ==
  Undisturbed =>
    /\ RenewerInTime
    /\ \A s \in Steps : StepInTime(s)
    /\ RenewedLasts
    /\ RepoLasts
    /\ StepsLast

RenewalInv == RenewalTypeOK /\ AllBegun /\ AllTested /\ RenewalLasts

----------------------------------------------------------------------------
(* Tickets                                                                 *)

\* A slot that is not empty holds a credential.
LEMMA SlotIsCred ==
  ASSUME NEW c \in Slot, c # NoCred
  PROVE  c \in Cred
BY DEF Slot

\* What the KDC gives for a credential that is long enough is a credential,
\* which starts now.
LEMMA RenewedIsCred ==
  ASSUME NEW c \in Cred, NEW t \in Nat, c.start <= t, Renewable(c, t),
         MinLife \in Nat, c.end - c.start > MinLife
  PROVE  /\ Renewed(c, t) \in Cred
         /\ Renewed(c, t).start = t
         /\ Renewed(c, t).till = c.till
         /\ Renewed(c, t).end = Lesser(t + (c.end - c.start), c.till)
BY DEF Cred, Renewed, Lesser, Renewable

----------------------------------------------------------------------------
(* Types                                                                   *)

LEMMA Constants ==
  /\ Delay \in Nat /\ MinLife \in Nat /\ Work \in Nat
  /\ OwnerOf \in [Steps -> Users] /\ Users \cap Steps = {}
  /\ Lives \subseteq Nat /\ Renewables \subseteq Nat
BY RenewalAssumption

\* What a user adds.
Added(start, life, renewable) ==
  [start |-> start, end |-> start + life,
   till |-> IF renewable = 0 THEN 0 ELSE start + renewable]

LEMMA AddedIsCred ==
  ASSUME NEW start \in Nat, NEW life \in Nat, NEW renewable \in Nat
  PROVE  Added(start, life, renewable) \in Cred
BY DEF Added, Cred

LEMMA UserAdds ==
  ASSUME RenewalTypeOK, NEW u \in Users, UserAdd(u)
  PROVE  \E c \in Cred :
           /\ c.start <= now /\ c.end >= now
           /\ store' = [store EXCEPT ![u] = c]
           /\ given' = [x \in Users \cup Steps |->
                          IF x = u THEN c.end - now
                          ELSE IF x \in Steps /\ OwnerOf[x] = u THEN 0 ELSE given[x]]
<1>1. PICK start \in 0..now, life \in Lives, renewable \in Renewables :
        LET c == Added(start, life, renewable) IN
        /\ c.end >= now
        /\ store' = [store EXCEPT ![u] = c]
        /\ given' = [x \in Users \cup Steps |->
                       IF x = u THEN c.end - now
                       ELSE IF x \in Steps /\ OwnerOf[x] = u THEN 0 ELSE given[x]]
  BY Zenon DEF UserAdd, Added
<1>2. start \in Nat /\ start <= now /\ life \in Nat /\ renewable \in Nat
  BY Constants DEF RenewalTypeOK
<1>3. Added(start, life, renewable) \in Cred /\ Added(start, life, renewable).start = start
  BY <1>2, AddedIsCred DEF Added
<1> QED
  BY <1>1, <1>2, <1>3

\* A process goes on, with a new time to be ready.
LEMMA RenewerGoesOn ==
  ASSUME NEW r \in RenewerStates, NEW d \in Nat, NEW t \in Nat,
         NEW pc \in {"main", "dump", "rest", "sleep"}
  PROVE  /\ [r EXCEPT !.pc = pc, !.due = d] \in RenewerStates
         /\ [r EXCEPT !.pc = pc, !.since = t, !.due = d] \in RenewerStates
         /\ [r EXCEPT !.pc = pc, !.since = t, !.due = d, !.eof = FALSE] \in RenewerStates
BY DEF RenewerStates

LEMMA StepGoesOn ==
  ASSUME NEW p \in StepStates, NEW d \in Nat, NEW pc \in {"test", "sleep"}
  PROVE  /\ [p EXCEPT !.pc = pc, !.due = d] \in StepStates
         /\ \A c \in Cred : [pc |-> pc, ccache |-> c, cred |-> NoCred, due |-> d] \in StepStates
BY DEF StepStates, Slot

\* A step goes wrong, and is counted, or it does not.
LEMMA Accidents ==
  ASSUME mishaps \in Nat
  PROVE  /\ RenewerStep => mishaps' \in {mishaps, mishaps + 1}
         /\ \A s \in Steps : StepStart(s) \/ LoopStep(s) => mishaps' \in {mishaps, mishaps + 1}
<1>1. RenewerStep => mishaps' = mishaps \/ mishaps' = mishaps + 1
  BY Zenon DEF RenewerStep, RenewerMain, RenewerLoop, RenewerDump, Examine, RenewerAdd, RenewerBreak,
                RenewerEnd, RenewerSleep, RenewerWake, Fine, Mishap, Denied, Granted
<1>2. \A s \in Steps : StepStart(s) \/ LoopStep(s) => mishaps' = mishaps \/ mishaps' = mishaps + 1
  BY Zenon DEF StepStart, LoopStep, StepTest, StepGet, StepGetFails, StepKdc, StepPut, StepPutFails,
                StepWake, Fine, Mishap, Granted, Denied
<1> QED
  BY <1>1, <1>2

\* auksdrenewer works on one credential at a time, and keeps to its states.
LEMMA RenewerTypeNext ==
  ASSUME RenewalTypeOK, AllBegun, RenewerStep
  PROVE  RenewerOK'
<1>1. /\ now \in Nat /\ store \in [Users -> Slot]
      /\ renewer \in RenewerStates
      /\ renewer.since \in Nat
  BY DEF RenewalTypeOK, RenewerOK, RenewerStates
<1>11. now + Work \in Nat /\ renewer.since + Delay \in Nat
  BY <1>1, Constants
<1> USE Constants DEF InRenewer
<1>2. CASE RenewerMain
  BY <1>1, <1>2 DEF RenewerMain, RenewerOK, RenewerStates
<1>3. CASE RenewerLoop
  <2>1. renewer' \in RenewerStates
    BY <1>1, <1>11, <1>3, RenewerGoesOn, Zenon DEF RenewerLoop, Stage
  <2> QED
    BY <1>1, <1>3, <2>1 DEF RenewerLoop, RenewerOK, RenewerStates, Stage
<1>4. CASE RenewerDump
  <2>1. {<<u, store[u]>> : u \in {v \in Users : store[v] # NoCred}} \in SUBSET (Users \X Cred)
    BY <1>1 DEF Slot
  <2> QED
    BY <1>1, <1>4, <2>1 DEF RenewerDump, RenewerOK, RenewerStates
<1>5. ASSUME NEW m \in renewer.todo, Examine(m[1], m[2]) PROVE RenewerOK'
  <2>1. m[1] \in Users /\ m[2] \in Cred /\ m[2].start <= now
    BY <1>1 DEF RenewerStates, AllBegun, Begun
  <2>2. CASE Due(m[2], now) /\ Granted(m[2]) /\
             renewer' = [renewer EXCEPT !.todo = @ \ {<<m[1], m[2]>>}, !.pc = "add",
                                        !.user = m[1], !.cred = Renewed(m[2], now)]
    <3>1. m[2].end - m[2].start > MinLife
      BY <2>1, <2>2 DEF Due, Hopeless, Cred
    <3>2. Renewed(m[2], now) \in Cred
      BY <1>1, <2>1, <2>2, <3>1, RenewedIsCred DEF Granted
    <3> QED
      BY <1>1, <2>1, <2>2, <3>2 DEF RenewerOK, RenewerStates, Slot
  <2>3. CASE renewer' = [renewer EXCEPT !.todo = @ \ {<<m[1], m[2]>>}]
    BY <1>1, <1>5, <2>3 DEF RenewerOK, RenewerStates, Examine
  <2> QED
    BY <1>5, <2>2, <2>3 DEF Examine
<1>6. CASE RenewerAdd
  BY <1>1, <1>6 DEF RenewerAdd, RenewerOK, RenewerStates, Slot
<1>7. CASE RenewerBreak
  BY <1>1, <1>7 DEF RenewerBreak, RenewerOK, RenewerStates, Slot
<1>8. CASE RenewerEnd
  <2>1. renewer' \in RenewerStates
    BY <1>1, <1>11, <1>8, RenewerGoesOn, Zenon DEF RenewerEnd, Stage
  <2>2. renewer'.pc # "add"
    BY <1>1, <1>8 DEF RenewerEnd, Stage, RenewerStates
  <2> QED
    BY <2>1, <2>2 DEF RenewerOK
<1>9. CASE RenewerSleep
  <2>1. renewer' \in RenewerStates
    BY <1>1, <1>11, <1>9, RenewerGoesOn, Zenon DEF RenewerSleep
  <2>2. renewer'.pc # "add"
    BY <1>1, <1>9 DEF RenewerSleep, RenewerStates
  <2> QED
    BY <2>1, <2>2 DEF RenewerOK
<1>10. CASE RenewerWake
  <2>1. renewer' \in RenewerStates
    BY <1>1, <1>11, <1>10, RenewerGoesOn, Zenon DEF RenewerWake, Stage
  <2>2. renewer'.pc # "add"
    BY <1>1, <1>10 DEF RenewerWake, Stage, RenewerStates
  <2> QED
    BY <2>1, <2>2 DEF RenewerOK
<1> QED
  BY <1>2, <1>3, <1>4, <1>5, <1>6, <1>7, <1>8, <1>9, <1>10 DEF RenewerStep

\* The loop of a step changes its own state only, and keeps to its states.
LEMMA StepTypeNext ==
  ASSUME RenewalTypeOK, AllBegun, AllTested, NEW s \in Steps, StepStart(s) \/ LoopStep(s)
  PROVE  /\ step' \in [Steps -> StepStates] /\ StepOK(s)'
         /\ \A t \in Steps \ {s} : step'[t] = step[t]
<1>1. now \in Nat /\ store[OwnerOf[s]] \in Slot /\ step \in [Steps -> StepStates] /\ StepOK(s)
  BY Constants DEF RenewalTypeOK
<1> SUFFICES ASSUME NEW q, step' = [step EXCEPT ![s] = q]
             PROVE  /\ q \in StepStates
                    /\ q.pc # "none" => q.ccache \in Cred
                    /\ q.pc = "put" => q.cred \in Cred
  <2>1. \E q : step' = [step EXCEPT ![s] = q]
    BY <1>1, Zenon DEF StepStart, LoopStep, StepTest, StepGet, StepGetFails, StepKdc, StepPut,
                StepPutFails, StepWake
  <2> QED
    BY <1>1, <2>1 DEF StepOK, InStep
<1>2. q = step'[s]
  BY <1>1
<1>11. step[s] \in StepStates /\ now + Work \in Nat /\ now + Delay \in Nat
  BY <1>1, Constants DEF StepOK
<1> USE Constants DEF InStep
<1>3. CASE StepStart(s)
  <2>1. q = [pc |-> "test", ccache |-> store[OwnerOf[s]], cred |-> NoCred, due |-> now + Work]
    BY <1>1, <1>2, <1>3 DEF StepStart
  <2>2. store[OwnerOf[s]] \in Cred
    BY <1>1, <1>3 DEF StepStart, Slot
  <2>3. q \in StepStates
    BY <1>11, <2>1, <2>2, StepGoesOn, Zenon
  <2> QED
    BY <2>1, <2>2, <2>3
<1>4. CASE StepTest(s)
  <2>1. \/ q = [step[s] EXCEPT !.pc = "gone"]
        \/ q = [step[s] EXCEPT !.pc = "get"]
        \/ q = [step[s] EXCEPT !.pc = "sleep", !.due = now + Delay]
    BY <1>1, <1>2, <1>4 DEF StepTest
  <2>2. q \in StepStates
    <3>1. CASE q = [step[s] EXCEPT !.pc = "sleep", !.due = now + Delay]
      BY <1>11, <3>1, StepGoesOn, Zenon
    <3> QED
      BY <1>11, <2>1, <3>1 DEF StepStates
  <2> QED
    BY <1>1, <1>4, <2>1, <2>2 DEF StepTest, StepOK, StepStates
<1>5. CASE StepGet(s)
  <2>1. CASE store[OwnerOf[s]] # NoCred
    <3>1. q = [step[s] EXCEPT !.pc = "put", !.cred = store[OwnerOf[s]]]
      BY <1>1, <1>2, <1>5, <2>1 DEF StepGet
    <3> QED
      BY <1>1, <1>5, <2>1, <3>1 DEF StepGet, StepOK, StepStates, Slot
  <2>2. CASE store[OwnerOf[s]] = NoCred
    <3>1. q = [step[s] EXCEPT !.pc = "kdc"]
      BY <1>1, <1>2, <1>5, <2>2 DEF StepGet
    <3> QED
      BY <1>1, <1>5, <3>1 DEF StepGet, StepOK, StepStates
  <2> QED
    BY <2>1, <2>2
<1>6. CASE StepGetFails(s)
  BY <1>1, <1>2, <1>6 DEF StepGetFails, StepOK, StepStates
<1>7. CASE StepKdc(s)
  <2>1. Granted(step[s].ccache) => Renewed(step[s].ccache, now) \in Cred
    BY <1>1, <1>7, RenewedIsCred DEF StepKdc, StepOK, AllBegun, Begun, AllTested, Tested, Granted
  <2>2. \/ /\ Granted(step[s].ccache)
           /\ q = [step[s] EXCEPT !.pc = "put", !.cred = Renewed(step[s].ccache, now)]
        \/ q = [step[s] EXCEPT !.pc = "gone"]
    BY <1>1, <1>2, <1>7 DEF StepKdc
  <2>3. step[s].ccache \in Cred
    BY <1>1, <1>7 DEF StepKdc, StepOK
  <2> QED
    BY <1>1, <2>1, <2>2, <2>3 DEF StepOK, StepStates, Slot
<1>8. CASE StepPut(s)
  <2>1. q = [pc |-> "sleep", ccache |-> step[s].cred, cred |-> NoCred, due |-> now + Delay]
    BY <1>1, <1>2, <1>8 DEF StepPut
  <2>2. step[s].cred \in Cred
    BY <1>1, <1>8 DEF StepOK, StepPut
  <2>3. q \in StepStates
    BY <1>11, <2>1, <2>2, StepGoesOn, Zenon
  <2> QED
    BY <2>1, <2>2, <2>3
<1>9. CASE StepPutFails(s)
  BY <1>1, <1>2, <1>9 DEF StepPutFails, StepOK, StepStates
<1>10. CASE StepWake(s)
  <2>1. q = [step[s] EXCEPT !.pc = "test", !.due = now + Work]
    BY <1>1, <1>2, <1>10 DEF StepWake
  <2>2. q \in StepStates
    BY <1>11, <2>1, StepGoesOn, Zenon
  <2> QED
    BY <1>1, <1>10, <2>1, <2>2 DEF StepWake, StepOK, StepStates
<1> QED
  BY <1>3, <1>4, <1>5, <1>6, <1>7, <1>8, <1>9, <1>10 DEF LoopStep

\* Every state keeps to the types.
LEMMA RenewalTypeNext ==
  ASSUME RenewalTypeOK, AllBegun, AllTested, [RenewalNext]_renewalVars
  PROVE  RenewalTypeOK'
<1>1. ASSUME UNCHANGED <<renewer, step>>,
             {now', adds', mishaps'} \subseteq Nat, store' \in [Users -> Slot],
             given' \in [Users \cup Steps -> Int]
      PROVE  RenewalTypeOK'
  BY <1>1 DEF RenewalTypeOK, RenewerOK, StepOK, InRenewer, InStep
<1>2. CASE UNCHANGED renewalVars
  BY <1>1, <1>2 DEF RenewalTypeOK, renewalVars
<1>3. CASE Tick
  BY <1>1, <1>3 DEF RenewalTypeOK, Tick
<1>4. ASSUME NEW u \in Users, UserAdd(u) PROVE RenewalTypeOK'
  <2>1. PICK c \in Cred :
          /\ store' = [store EXCEPT ![u] = c]
          /\ given' = [x \in Users \cup Steps |->
                         IF x = u THEN c.end - now
                         ELSE IF x \in Steps /\ OwnerOf[x] = u THEN 0 ELSE given[x]]
    BY <1>4, UserAdds
  <2>2. store' \in [Users -> Slot]
    BY <2>1 DEF RenewalTypeOK, Slot
  <2>3. given' \in [Users \cup Steps -> Int]
    BY <2>1 DEF RenewalTypeOK, Cred
  <2>4. {now', adds', mishaps'} \subseteq Nat /\ UNCHANGED <<renewer, step>>
    BY <1>4 DEF RenewalTypeOK, UserAdd
  <2> QED
    BY <1>1, <2>2, <2>3, <2>4
<1>5. ASSUME NEW u \in Users, Drop(u) PROVE RenewalTypeOK'
  BY <1>1, <1>5 DEF RenewalTypeOK, Drop, Slot
<1>6. ASSUME RenewerOK', UNCHANGED <<now, adds, step, given>>, store' \in [Users -> Slot],
             mishaps' \in Nat
      PROVE  RenewalTypeOK'
  BY <1>6 DEF RenewalTypeOK, StepOK, InStep
<1>7. ASSUME NEW exit \in BOOLEAN, Signal(exit) PROVE RenewalTypeOK'
  <2>1. RenewerOK'
    <3>1. /\ renewer \in RenewerStates /\ renewer.exit \in BOOLEAN
          /\ InRenewer("add") => renewer.user \in Users /\ renewer.cred \in Cred
          /\ now \in Nat /\ renewer.due \in Nat
      BY DEF RenewalTypeOK, RenewerOK, RenewerStates
    <3>2. PICK b \in BOOLEAN, d \in Nat :
            renewer' = [renewer EXCEPT !.eof = TRUE, !.exit = b, !.due = d]
      BY <1>7, <3>1, Zenon DEF Signal
    <3> QED
      BY <3>1, <3>2 DEF RenewerOK, RenewerStates, InRenewer
  <2> QED
    BY <1>6, <1>7, <2>1 DEF Signal, Mishap, RenewerOnly, RenewalTypeOK
<1>8. ASSUME RenewerStep PROVE RenewalTypeOK'
  <2>1. RenewerOK'
    BY <1>8, RenewerTypeNext
  <2>2. store' \in [Users -> Slot] /\ UNCHANGED <<now, adds, step, given>>
    <3>1. CASE RenewerAdd
      <4>1. renewer.cred \in Slot /\ store \in [Users -> Slot]
        BY DEF RenewalTypeOK, RenewerOK, RenewerStates
      <4> QED
        BY <3>1, <4>1 DEF RenewerAdd
    <3>2. CASE ~RenewerAdd
      BY <1>8, <3>2 DEF RenewerStep, RenewerMain, RenewerLoop, RenewerDump, Examine, RenewerBreak,
                        RenewerEnd, RenewerSleep, RenewerWake, RenewerOnly, RenewalTypeOK
    <3> QED
      BY <3>1, <3>2
  <2>3. mishaps' \in Nat
    BY <1>8, Accidents DEF RenewalTypeOK
  <2> QED
    BY <1>6, <2>1, <2>2, <2>3
<1>9. ASSUME NEW s \in Steps, StepStart(s) \/ LoopStep(s) PROVE RenewalTypeOK'
  <2>1. /\ step' \in [Steps -> StepStates] /\ StepOK(s)'
        /\ \A t \in Steps \ {s} : step'[t] = step[t]
    BY <1>9, StepTypeNext
  <2>2. \A t \in Steps : StepOK(t)'
    BY <2>1 DEF RenewalTypeOK, StepOK, InStep
  <2>3. given' \in [Users \cup Steps -> Int]
    <3>1. CASE StepStart(s)
      <4>1. store[OwnerOf[s]].end \in Nat
        BY <3>1, Constants DEF StepStart, RenewalTypeOK, Slot, Cred
      <4>2. store[OwnerOf[s]].end - now \in Int /\ given \in [Users \cup Steps -> Int]
        BY <4>1 DEF RenewalTypeOK
      <4>3. given' = [given EXCEPT ![s] = store[OwnerOf[s]].end - now]
        BY <3>1 DEF StepStart
      <4> QED
        BY <4>2, <4>3
    <3>2. CASE LoopStep(s)
      BY <3>2 DEF LoopStep, StepTest, StepGet, StepGetFails, StepKdc, StepPut, StepPutFails, StepWake,
                  StepOnly, RenewalTypeOK
    <3> QED
      BY <1>9, <3>1, <3>2
  <2>4. UNCHANGED <<now, adds, store, renewer>>
    BY <1>9, Zenon DEF StepStart, LoopStep, StepTest, StepGet, StepGetFails, StepKdc, StepPut,
                       StepPutFails, StepWake, StepOnly
  <2>5. mishaps' \in Nat
    BY <1>9, Accidents DEF RenewalTypeOK
  <2> QED
    BY <2>1, <2>2, <2>3, <2>4, <2>5 DEF RenewalTypeOK, RenewerOK, InRenewer
<1> QED
  BY <1>2, <1>3, <1>4, <1>5, <1>7, <1>8, <1>9 DEF RenewalNext, UserRemove, Clean

----------------------------------------------------------------------------
(* The steps of auksdrenewer, field by field                               *)

RenewerKeeps ==
  /\ renewer'.todo = renewer.todo /\ renewer'.user = renewer.user
  /\ renewer'.cred = renewer.cred /\ renewer'.exit = renewer.exit

InSameStage ==
  /\ renewer'.since = renewer.since /\ renewer'.due = renewer.due
  /\ renewer'.eof = renewer.eof

NewStage ==
  /\ renewer'.pc = "dump" /\ renewer'.since = now /\ renewer'.due = now + Work

LoopEnds ==
  /\ renewer.eof /\ renewer'.eof
  /\ renewer'.pc = "main" /\ renewer'.due = now + Work /\ renewer'.since = renewer.since

LEMMA MainFields ==
  ASSUME renewer \in RenewerStates, RenewerMain
  PROVE  /\ renewer.pc = "main" /\ RenewerKeeps /\ InSameStage
         /\ renewer'.pc = IF renewer.exit THEN "exited" ELSE "loop"
BY DEF RenewerStates, RenewerMain, InRenewer, RenewerKeeps, InSameStage

LEMMA LoopFields ==
  ASSUME renewer \in RenewerStates, RenewerLoop
  PROVE  renewer.pc = "loop" /\ RenewerKeeps /\ NewStage /\ ~renewer'.eof
BY DEF RenewerStates, RenewerLoop, InRenewer, RenewerKeeps, Stage, NewStage

LEMMA DumpFields ==
  ASSUME renewer \in RenewerStates, RenewerDump
  PROVE  /\ renewer.pc = "dump" /\ InSameStage
         /\ renewer'.user = renewer.user /\ renewer'.cred = renewer.cred
         /\ renewer'.exit = renewer.exit
         /\ \/ /\ renewer'.pc = "next"
               /\ renewer'.todo = {<<u, store[u]>> : u \in {v \in Users : store[v] # NoCred}}
            \/ /\ renewer'.pc = "end" /\ mishaps' = mishaps + 1
               /\ renewer'.todo = renewer.todo
<1> DEFINE dumped == {<<u, store[u]>> : u \in {v \in Users : store[v] # NoCred}}
<1>1. \/ renewer' = [renewer EXCEPT !.pc = "next", !.todo = dumped]
      \/ renewer' = [renewer EXCEPT !.pc = "end"] /\ mishaps' = mishaps + 1
  BY Zenon DEF RenewerDump, Mishap
<1>2. renewer.pc = "dump"
  BY DEF RenewerDump, InRenewer
<1> HIDE DEF dumped
<1>3. /\ InSameStage
      /\ renewer'.user = renewer.user /\ renewer'.cred = renewer.cred
      /\ renewer'.exit = renewer.exit
      /\ \/ renewer'.pc = "next" /\ renewer'.todo = dumped
         \/ renewer'.pc = "end" /\ mishaps' = mishaps + 1 /\ renewer'.todo = renewer.todo
  BY <1>1 DEF RenewerStates, InSameStage
<1> QED
  BY <1>2, <1>3 DEF dumped

\* The credential that is due is renewed, unless the KDC does not do it; the
\* others are passed over.
LEMMA ExamineFields ==
  ASSUME RenewalTypeOK, AllBegun, NEW m \in renewer.todo, Examine(m[1], m[2])
  PROVE  LET c == m[2] IN
         /\ m[1] \in Users /\ c \in Cred /\ c.start <= now /\ m = <<m[1], c>>
         /\ renewer.pc = "next" /\ ~renewer.eof /\ InSameStage /\ renewer'.exit = renewer.exit
         /\ renewer'.todo = renewer.todo \ {m}
         /\ \/ /\ Due(c, now) /\ Granted(c) /\ renewer'.pc = "add" /\ renewer'.user = m[1]
               /\ renewer'.cred = Renewed(c, now) /\ renewer'.cred \in Cred
               /\ renewer'.cred.start = now
            \/ /\ (~Due(c, now) /\ Fine) \/ (Due(c, now) /\ Denied(c))
               /\ renewer'.pc = "next" /\ renewer'.user = renewer.user
               /\ renewer'.cred = renewer.cred
<1>1. renewer \in RenewerStates /\ now \in Nat
  BY DEF RenewalTypeOK, RenewerOK
<1>2. m[1] \in Users /\ m[2] \in Cred /\ m[2].start <= now /\ m = <<m[1], m[2]>>
  BY <1>1 DEF RenewerStates, AllBegun, Begun
<1>3. CASE Due(m[2], now) /\ Granted(m[2]) /\
           renewer' = [renewer EXCEPT !.todo = @ \ {<<m[1], m[2]>>}, !.pc = "add",
                                      !.user = m[1], !.cred = Renewed(m[2], now)]
  <2>1. m[2].end - m[2].start > MinLife
    BY <1>2, <1>3, Constants DEF Due, Hopeless, Cred
  <2>2. Renewed(m[2], now) \in Cred /\ Renewed(m[2], now).start = now
    BY <1>1, <1>2, <1>3, <2>1, Constants, RenewedIsCred DEF Granted
  <2> QED
    BY <1>1, <1>2, <1>3, <2>2 DEF Examine, InRenewer, RenewerStates, InSameStage
<1>4. CASE /\ (~Due(m[2], now) /\ Fine) \/ (Due(m[2], now) /\ Denied(m[2]))
           /\ renewer' = [renewer EXCEPT !.todo = @ \ {<<m[1], m[2]>>}]
  BY <1>1, <1>2, <1>4 DEF Examine, InRenewer, RenewerStates, InSameStage
<1> QED
  BY <1>3, <1>4, Zenon DEF Examine

LEMMA AddFields ==
  ASSUME renewer \in RenewerStates, RenewerAdd
  PROVE  /\ renewer.pc = "add" /\ InSameStage /\ renewer'.exit = renewer.exit
         /\ renewer'.todo = renewer.todo
         /\ renewer'.pc = "next" /\ renewer'.user = Never /\ renewer'.cred = NoCred
BY DEF RenewerStates, RenewerAdd, InRenewer, InSameStage

LEMMA BreakFields ==
  ASSUME renewer \in RenewerStates, RenewerBreak
  PROVE  /\ renewer.pc = "next" /\ (renewer.todo = {} \/ renewer.eof)
         /\ InSameStage /\ renewer'.exit = renewer.exit
         /\ renewer'.todo = {} /\ renewer'.pc = "end" /\ renewer'.user = Never
         /\ renewer'.cred = NoCred
BY DEF RenewerStates, RenewerBreak, InRenewer, InSameStage

LEMMA EndFields ==
  ASSUME renewer \in RenewerStates, RenewerEnd
  PROVE  /\ renewer.pc = "end" /\ RenewerKeeps
         /\ \/ LoopEnds
            \/ /\ now - renewer.since < Delay /\ renewer'.pc = "rest"
               /\ renewer'.since = renewer.since /\ renewer'.due = now
               /\ renewer'.eof = renewer.eof
            \/ ~(now - renewer.since < Delay) /\ NewStage /\ renewer'.eof = renewer.eof
BY DEF RenewerStates, RenewerEnd, InRenewer, RenewerKeeps, Stage, NewStage, LoopEnds

LEMMA SleepFields ==
  ASSUME renewer \in RenewerStates, RenewerSleep
  PROVE  /\ renewer.pc = "rest" /\ RenewerKeeps
         /\ renewer'.pc = "sleep" /\ renewer'.since = renewer.since
         /\ renewer'.due = renewer.since + Delay /\ renewer'.eof = renewer.eof
BY DEF RenewerStates, RenewerSleep, InRenewer, RenewerKeeps

LEMMA WakeFields ==
  ASSUME renewer \in RenewerStates, RenewerWake
  PROVE  /\ renewer.pc = "sleep" /\ now >= renewer.due /\ RenewerKeeps
         /\ LoopEnds \/ (NewStage /\ renewer'.eof = renewer.eof)
BY DEF RenewerStates, RenewerWake, InRenewer, RenewerKeeps, Stage, NewStage, LoopEnds

----------------------------------------------------------------------------
(* The steps of the loop of a job step, field by field                     *)

LEMMA StartFields ==
  ASSUME RenewalTypeOK, NEW s \in Steps, StepStart(s)
  PROVE  /\ store[OwnerOf[s]] \in Cred
         /\ step'[s].pc = "test" /\ step'[s].ccache = store[OwnerOf[s]]
         /\ step'[s].cred = NoCred /\ step'[s].due = now + Work
         /\ given' = [given EXCEPT ![s] = store[OwnerOf[s]].end - now]
BY Constants DEF RenewalTypeOK, StepStart, Slot

LEMMA TestFields ==
  ASSUME RenewalTypeOK, NEW s \in Steps, StepTest(s)
  PROVE  LET p == step[s]
             q == step'[s]
         IN
         /\ p.pc = "test" /\ p.ccache \in Cred /\ q.ccache = p.ccache /\ q.cred = p.cred
         /\ \/ Hopeless(p.ccache, now) /\ q.pc = "gone" /\ q.due = p.due
            \/ ~Hopeless(p.ccache, now) /\ q.pc = "get" /\ q.due = p.due
            \/ /\ ~Hopeless(p.ccache, now) /\ ~Due(p.ccache, now)
               /\ q.pc = "sleep" /\ q.due = now + Delay
<1>1. step \in [Steps -> StepStates] /\ StepOK(s)
  BY DEF RenewalTypeOK
<1>2. step[s].pc = "test" /\ step[s].ccache \in Cred
  BY <1>1 DEF StepTest, InStep, StepOK
<1>3. \/ Hopeless(step[s].ccache, now) /\ step'[s] = [step[s] EXCEPT !.pc = "gone"]
      \/ ~Hopeless(step[s].ccache, now) /\ step'[s] = [step[s] EXCEPT !.pc = "get"]
      \/ /\ ~Hopeless(step[s].ccache, now) /\ ~Due(step[s].ccache, now)
         /\ step'[s] = [step[s] EXCEPT !.pc = "sleep", !.due = now + Delay]
  BY <1>1 DEF StepTest
<1> QED
  BY <1>1, <1>2, <1>3 DEF StepOK, StepStates

LEMMA GetFields ==
  ASSUME RenewalTypeOK, NEW s \in Steps, StepGet(s) \/ StepGetFails(s)
  PROVE  LET p == step[s]
             q == step'[s]
             c == store[OwnerOf[s]]
         IN
         /\ p.pc = "get" /\ p.ccache \in Cred /\ q.ccache = p.ccache /\ q.due = p.due
         /\ \/ c \in Cred /\ q.pc = "put" /\ q.cred = c /\ Fine
            \/ (c = NoCred \/ mishaps' = mishaps + 1) /\ q.pc = "kdc" /\ q.cred = p.cred
<1>1. step \in [Steps -> StepStates] /\ StepOK(s) /\ store[OwnerOf[s]] \in Slot
  BY Constants DEF RenewalTypeOK
<1>2. step[s].pc = "get" /\ step[s].ccache \in Cred
  BY <1>1 DEF StepGet, StepGetFails, InStep, StepOK
<1>3. \/ /\ store[OwnerOf[s]] \in Cred /\ Fine
         /\ step'[s] = [step[s] EXCEPT !.pc = "put", !.cred = store[OwnerOf[s]]]
      \/ /\ store[OwnerOf[s]] = NoCred \/ mishaps' = mishaps + 1
         /\ step'[s] = [step[s] EXCEPT !.pc = "kdc"]
  BY <1>1 DEF StepGet, StepGetFails, Mishap, Slot
<1> QED
  BY <1>1, <1>2, <1>3 DEF StepOK, StepStates

LEMMA KdcFields ==
  ASSUME RenewalTypeOK, AllBegun, AllTested, NEW s \in Steps, StepKdc(s)
  PROVE  LET p == step[s]
             q == step'[s]
         IN
         /\ p.pc = "kdc" /\ p.ccache \in Cred /\ q.ccache = p.ccache /\ q.due = p.due
         /\ p.ccache.end - p.ccache.start > MinLife
         /\ \/ /\ Granted(p.ccache) /\ q.pc = "put" /\ q.cred = Renewed(p.ccache, now)
               /\ q.cred \in Cred /\ q.cred.start = now
            \/ Denied(p.ccache) /\ q.pc = "gone" /\ q.cred = p.cred
<1>1. step \in [Steps -> StepStates] /\ StepOK(s) /\ now \in Nat
  BY Constants DEF RenewalTypeOK
<1>2. /\ step[s].pc = "kdc" /\ step[s].ccache \in Cred /\ step[s].ccache.start <= now
      /\ step[s].ccache.end - step[s].ccache.start > MinLife
  BY <1>1 DEF StepKdc, InStep, StepOK, AllTested, Tested, AllBegun, Begun
<1>3. \/ /\ Granted(step[s].ccache)
         /\ step'[s] = [step[s] EXCEPT !.pc = "put", !.cred = Renewed(step[s].ccache, now)]
      \/ Denied(step[s].ccache) /\ step'[s] = [step[s] EXCEPT !.pc = "gone"]
  BY <1>1 DEF StepKdc
<1>4. Granted(step[s].ccache) =>
        Renewed(step[s].ccache, now) \in Cred /\ Renewed(step[s].ccache, now).start = now
  BY <1>1, <1>2, Constants, RenewedIsCred DEF Granted
<1> QED
  BY <1>1, <1>2, <1>3, <1>4 DEF StepOK, StepStates

LEMMA PutFields ==
  ASSUME RenewalTypeOK, NEW s \in Steps, StepPut(s) \/ StepPutFails(s)
  PROVE  LET p == step[s]
             q == step'[s]
         IN
         /\ p.pc = "put" /\ p.ccache \in Cred /\ p.cred \in Cred
         /\ \/ q.pc = "sleep" /\ q.ccache = p.cred /\ q.cred = NoCred /\ q.due = now + Delay
            \/ /\ mishaps' = mishaps + 1 /\ q.pc = "gone"
               /\ q.ccache = p.ccache /\ q.cred = p.cred /\ q.due = p.due
<1>1. step \in [Steps -> StepStates] /\ StepOK(s)
  BY DEF RenewalTypeOK
<1>2. step[s].pc = "put" /\ step[s].ccache \in Cred /\ step[s].cred \in Cred
  BY <1>1 DEF StepPut, StepPutFails, InStep, StepOK
<1>3. CASE StepPut(s)
  BY <1>1, <1>2, <1>3 DEF StepPut
<1>4. CASE StepPutFails(s)
  <2>1. step'[s] = [step[s] EXCEPT !.pc = "gone"] /\ mishaps' = mishaps + 1
    BY <1>1, <1>4 DEF StepPutFails, Mishap
  <2> QED
    BY <1>1, <1>2, <2>1 DEF StepOK, StepStates
<1> QED
  BY <1>3, <1>4

LEMMA StepWakeFields ==
  ASSUME RenewalTypeOK, NEW s \in Steps, StepWake(s)
  PROVE  LET p == step[s]
             q == step'[s]
         IN  /\ p.pc = "sleep" /\ p.ccache \in Cred /\ now >= p.due
             /\ q.pc = "test" /\ q.ccache = p.ccache /\ q.cred = p.cred /\ q.due = now + Work
<1>1. step \in [Steps -> StepStates] /\ StepOK(s)
  BY DEF RenewalTypeOK
<1>2. /\ step[s].pc = "sleep" /\ step[s].ccache \in Cred /\ now >= step[s].due
      /\ step'[s] = [step[s] EXCEPT !.pc = "test", !.due = now + Work]
  BY <1>1 DEF StepWake, InStep, StepOK
<1> QED
  BY <1>1, <1>2 DEF StepStates

\* A step changes nothing but itself.
LEMMA StepAlone ==
  ASSUME RenewalTypeOK, AllBegun, AllTested, NEW s \in Steps, StepStart(s) \/ LoopStep(s)
  PROVE  /\ UNCHANGED <<now, adds, store, renewer>>
         /\ \A t \in Steps \ {s} : step'[t] = step[t]
<1>1. UNCHANGED <<now, adds, store, renewer>>
  BY Zenon DEF StepStart, LoopStep, StepTest, StepGet, StepGetFails, StepKdc, StepPut,
                       StepPutFails, StepWake, StepOnly
<1> QED
  BY <1>1, StepTypeNext

\* auksdrenewer changes one credential of the repository at most.
LEMMA RenewerAlone ==
  ASSUME RenewalTypeOK, RenewerStep
  PROVE  /\ UNCHANGED <<now, adds, step, given>>
         /\ ~RenewerAdd => UNCHANGED store
<1>1. UNCHANGED <<now, adds, step, given>>
  BY Zenon DEF RenewerStep, RenewerMain, RenewerLoop, RenewerDump, Examine, RenewerAdd, RenewerBreak,
               RenewerEnd, RenewerSleep, RenewerWake, RenewerOnly
<1>2. ~RenewerAdd => UNCHANGED store
  BY Zenon DEF RenewerStep, RenewerMain, RenewerLoop, RenewerDump, Examine, RenewerBreak,
               RenewerEnd, RenewerSleep, RenewerWake, RenewerOnly
<1> QED
  BY <1>1, <1>2
----------------------------------------------------------------------------
(* Where the credentials come from                                         *)

\* A stage takes what it examines from the repository, and the credential
\* that auksdrenewer holds is one it has renewed.
LEMMA RenewerSources ==
  ASSUME RenewalTypeOK, AllBegun, RenewerStep
  PROVE  /\ \A m \in renewer'.todo :
              m \in renewer.todo \/ \E u \in Users : m = <<u, store[u]>>
         /\ \/ renewer'.cred \in {NoCred, renewer.cred}
            \/ renewer'.cred \in Cred /\ renewer'.cred.start = now
         /\ \A u \in Users : store'[u] \in {store[u], renewer.cred}
<1>1. renewer \in RenewerStates /\ store \in [Users -> Slot]
  BY DEF RenewalTypeOK, RenewerOK
<1>2. \A u \in Users : store'[u] \in {store[u], renewer.cred}
  BY <1>1, RenewerAlone DEF RenewerAdd
<1>3. CASE RenewerMain
  BY <1>1, <1>2, <1>3, MainFields DEF RenewerKeeps
<1>4. CASE RenewerLoop
  BY <1>1, <1>2, <1>4, LoopFields DEF RenewerKeeps
<1>5. CASE RenewerDump
  BY <1>1, <1>2, <1>5, DumpFields
<1>6. ASSUME NEW m \in renewer.todo, Examine(m[1], m[2])
      PROVE  /\ renewer'.todo \subseteq renewer.todo
             /\ \/ renewer'.cred \in {NoCred, renewer.cred}
                \/ renewer'.cred \in Cred /\ renewer'.cred.start = now
  BY <1>6, ExamineFields
<1>7. CASE RenewerAdd
  BY <1>1, <1>2, <1>7, AddFields
<1>8. CASE RenewerBreak
  BY <1>1, <1>2, <1>8, BreakFields
<1>9. CASE RenewerEnd
  BY <1>1, <1>2, <1>9, EndFields DEF RenewerKeeps
<1>10. CASE RenewerSleep
  BY <1>1, <1>2, <1>10, SleepFields DEF RenewerKeeps
<1>11. CASE RenewerWake
  BY <1>1, <1>2, <1>11, WakeFields DEF RenewerKeeps
<1> QED
  BY <1>2, <1>3, <1>4, <1>5, <1>6, <1>7, <1>8, <1>9, <1>10, <1>11, Zenon DEF RenewerStep

\* No ticket ever starts in the future.
LEMMA AllBegunNext ==
  ASSUME RenewalTypeOK, AllBegun, AllTested, [RenewalNext]_renewalVars
  PROVE  AllBegun'
<1>1. /\ now \in Nat /\ store \in [Users -> Slot] /\ OwnerOf \in [Steps -> Users]
      /\ renewer \in RenewerStates
      /\ step \in [Steps -> StepStates]
  BY Constants DEF RenewalTypeOK, RenewerOK
<1>2. CASE UNCHANGED renewalVars
  BY <1>2 DEF renewalVars, AllBegun, Begun
<1>3. CASE Tick
  BY <1>1, <1>3 DEF Tick, AllBegun, Begun, Cred
<1>4. ASSUME NEW u \in Users, UserAdd(u) PROVE AllBegun'
  <2>1. PICK c \in Cred : c.start <= now /\ store' = [store EXCEPT ![u] = c]
    BY <1>4, UserAdds
  <2> QED
    BY <1>1, <1>4, <2>1 DEF UserAdd, AllBegun, Begun
<1>5. ASSUME NEW u \in Users, Drop(u) PROVE AllBegun'
  BY <1>1, <1>5, CredAssumption DEF Drop, AllBegun, Begun
<1>6. ASSUME NEW exit \in BOOLEAN, Signal(exit) PROVE AllBegun'
  <2>1. renewer'.todo = renewer.todo /\ renewer'.cred = renewer.cred
    BY <1>1, <1>6 DEF Signal, RenewerStates
  <2> QED
    BY <1>6, <2>1 DEF Signal, RenewerOnly, AllBegun, Begun
<1>7. CASE RenewerStep
  <2>1. UNCHANGED <<now, step>>
    BY <1>7, RenewerAlone
  <2>2. /\ \A u \in Users : Begun(store[u])'
        /\ \A m \in renewer'.todo : Begun(m[2])'
    BY <1>7, <2>1, RenewerSources DEF AllBegun, Begun
  <2>3. Begun(renewer.cred)'
    BY <1>1, <1>7, <2>1, RenewerSources, CredAssumption DEF AllBegun, Begun
  <2> QED
    BY <2>1, <2>2, <2>3 DEF AllBegun, Begun
<1>8. ASSUME NEW s \in Steps, StepStart(s) \/ LoopStep(s) PROVE AllBegun'
  <2>1. /\ UNCHANGED <<now, store, renewer>>
        /\ \A t \in Steps \ {s} : step'[t] = step[t]
    BY <1>8, StepAlone
  <2>2. /\ Begun(store[OwnerOf[s]]) /\ Begun(step[s].ccache) /\ Begun(step[s].cred)
        /\ Begun(NoCred)
    BY <1>1, CredAssumption DEF AllBegun, Begun
  <2>3. Begun(step[s].ccache)' /\ Begun(step[s].cred)'
    <3>1. CASE StepStart(s)
      BY <2>1, <2>2, <3>1, StartFields DEF Begun
    <3>2. CASE StepTest(s)
      BY <2>1, <2>2, <3>2, TestFields DEF Begun
    <3>3. CASE StepGet(s) \/ StepGetFails(s)
      BY <2>1, <2>2, <3>3, GetFields DEF Begun
    <3>4. CASE StepKdc(s)
      BY <1>1, <2>1, <2>2, <3>4, KdcFields DEF Begun
    <3>5. CASE StepPut(s) \/ StepPutFails(s)
      BY <2>1, <2>2, <3>5, PutFields DEF Begun
    <3>6. CASE StepWake(s)
      BY <2>1, <2>2, <3>6, StepWakeFields DEF Begun
    <3> QED
      BY <1>8, <3>1, <3>2, <3>3, <3>4, <3>5, <3>6 DEF LoopStep
  <2> QED
    BY <2>1, <2>2, <2>3 DEF AllBegun, Begun
<1> QED
  BY <1>2, <1>3, <1>4, <1>5, <1>6, <1>7, <1>8 DEF RenewalNext, UserRemove, Clean

\* What a step renews has passed the test.
LEMMA AllTestedNext ==
  ASSUME RenewalTypeOK, AllBegun, AllTested, [RenewalNext]_renewalVars
  PROVE  AllTested'
<1>1. CASE UNCHANGED step
  BY <1>1 DEF AllTested, Tested
<1>2. ASSUME NEW s \in Steps, StepStart(s) \/ LoopStep(s) PROVE AllTested'
  <2>1. \A t \in Steps \ {s} : step'[t] = step[t]
    BY <1>2, StepAlone
  <2>2. Tested(s) /\ now \in Nat
    BY DEF RenewalTypeOK, AllTested
  <2>3. Tested(s)'
    <3>1. CASE StepStart(s)
      BY <3>1, StartFields DEF Tested
    <3>2. CASE StepTest(s)
      BY <2>2, <3>2, TestFields, Constants DEF Tested, Hopeless, Cred
    <3>3. CASE StepGet(s) \/ StepGetFails(s)
      BY <2>2, <3>3, GetFields DEF Tested
    <3>4. CASE StepKdc(s)
      BY <3>4, KdcFields DEF Tested
    <3>5. CASE StepPut(s) \/ StepPutFails(s)
      BY <3>5, PutFields DEF Tested
    <3>6. CASE StepWake(s)
      BY <3>6, StepWakeFields DEF Tested
    <3> QED
      BY <1>2, <3>1, <3>2, <3>3, <3>4, <3>5, <3>6 DEF LoopStep
  <2> QED
    BY <2>1, <2>3 DEF AllTested, Tested
<1>3. UNCHANGED renewalVars \/ Tick \/ RenewerStep \/ (\E u \in Users : UserAdd(u) \/ Drop(u))
        \/ (\E exit \in BOOLEAN : Signal(exit))
      => UNCHANGED step
  BY RenewerAlone DEF Tick, UserAdd, Drop, Signal, RenewerOnly, renewalVars
<1> QED
  BY <1>1, <1>2, <1>3, Zenon DEF RenewalNext, UserRemove, Clean
----------------------------------------------------------------------------
(* In time                                                                 *)

\* A state that nothing has disturbed follows one that nothing has disturbed.
LEMMA Quiet ==
  ASSUME RenewalTypeOK, [RenewalNext]_renewalVars, Undisturbed'
  PROVE  Undisturbed /\ mishaps = 0 /\ mishaps' = 0 /\ Work <= Delay
<1>1. mishaps \in Nat /\ mishaps' = 0 /\ Work <= Delay
  BY DEF RenewalTypeOK, Undisturbed
<1>2. mishaps' \in {mishaps, mishaps + 1}
  BY <1>1, Accidents DEF RenewalNext, renewalVars, Tick, UserAdd, UserRemove, Clean, Drop, Signal,
                         Mishap
<1> QED
  BY <1>1, <1>2 DEF Undisturbed

LEMMA RenewerInTimeNext ==
  ASSUME RenewalTypeOK, AllBegun, RenewerStep, RenewerInTime, mishaps = 0, mishaps' = 0,
         Work <= Delay
  PROVE  RenewerInTime'
<1>1. /\ now \in Nat /\ now' = now /\ renewer \in RenewerStates
      /\ renewer.since \in Nat /\ renewer.due \in Nat
  BY RenewerAlone DEF RenewalTypeOK, RenewerOK, RenewerStates
<1> USE Constants DEF RenewerInTime, InRenewer, Stages
<1>2. CASE RenewerMain
  BY <1>1, <1>2, MainFields DEF RenewerKeeps, InSameStage
<1>3. CASE RenewerLoop
  BY <1>1, <1>3, LoopFields DEF RenewerKeeps, NewStage
<1>4. CASE RenewerDump
  BY <1>1, <1>4, DumpFields DEF InSameStage
<1>5. ASSUME NEW m \in renewer.todo, Examine(m[1], m[2]) PROVE RenewerInTime'
  BY <1>1, <1>5, ExamineFields DEF InSameStage
<1>6. CASE RenewerAdd
  BY <1>1, <1>6, AddFields DEF InSameStage
<1>7. CASE RenewerBreak
  BY <1>1, <1>7, BreakFields DEF InSameStage
<1>8. CASE RenewerEnd
  BY <1>1, <1>8, EndFields DEF RenewerKeeps, NewStage, LoopEnds
<1>9. CASE RenewerSleep
  BY <1>1, <1>9, SleepFields DEF RenewerKeeps
<1>10. CASE RenewerWake
  BY <1>1, <1>10, WakeFields DEF RenewerKeeps, NewStage, LoopEnds
<1> QED
  BY <1>2, <1>3, <1>4, <1>5, <1>6, <1>7, <1>8, <1>9, <1>10 DEF RenewerStep

LEMMA StepInTimeNext ==
  ASSUME RenewalTypeOK, AllBegun, AllTested, NEW s \in Steps, StepStart(s) \/ LoopStep(s),
         StepInTime(s)
  PROVE  StepInTime(s)'
<1>1. now \in Nat /\ now' = now
  BY StepAlone DEF RenewalTypeOK
<1> USE Constants DEF StepInTime, Working, InStep
<1>2. CASE StepStart(s)
  BY <1>1, <1>2, StartFields
<1>3. CASE StepTest(s)
  BY <1>1, <1>3, TestFields
<1>4. CASE StepGet(s) \/ StepGetFails(s)
  BY <1>1, <1>4, GetFields
<1>5. CASE StepKdc(s)
  BY <1>1, <1>5, KdcFields
<1>6. CASE StepPut(s) \/ StepPutFails(s)
  BY <1>1, <1>6, PutFields
<1>7. CASE StepWake(s)
  BY <1>1, <1>7, StepWakeFields
<1> QED
  BY <1>2, <1>3, <1>4, <1>5, <1>6, <1>7 DEF LoopStep

\* Time goes on only as far as every process is ready.
LEMMA TickInTime ==
  ASSUME RenewalTypeOK, Tick, RenewerInTime, \A s \in Steps : StepInTime(s)
  PROVE  RenewerInTime' /\ \A s \in Steps : StepInTime(s)'
<1>1. /\ now \in Nat /\ now' = now + 1 /\ UNCHANGED <<renewer, step>>
      /\ InRenewer("exited") \/ ~Overdue(renewer)
      /\ \A s \in Steps : step[s].pc \in {"none", "gone"} \/ ~Overdue(step[s])
  BY DEF Tick, RenewalTypeOK
<1>2. renewer.since \in Nat /\ renewer.due \in Nat
  BY DEF RenewalTypeOK, RenewerOK, RenewerStates
<1>3. RenewerInTime'
  BY <1>1, <1>2 DEF RenewerInTime, InRenewer, Overdue
<1>4. ASSUME NEW s \in Steps PROVE StepInTime(s)'
  <2>1. step[s].due \in Nat
    BY DEF RenewalTypeOK, StepOK, StepStates
  <2> QED
    BY <1>1, <2>1, Constants DEF StepInTime, InStep, Overdue, Working
<1> QED
  BY <1>3, <1>4

LEMMA InTimeNext ==
  ASSUME RenewalTypeOK, AllBegun, AllTested, [RenewalNext]_renewalVars, Undisturbed',
         RenewerInTime, \A s \in Steps : StepInTime(s)
  PROVE  RenewerInTime' /\ \A s \in Steps : StepInTime(s)'
<1>1. mishaps = 0 /\ mishaps' = 0 /\ Work <= Delay
  BY Quiet
<1>2. ASSUME UNCHANGED <<now, renewer>> PROVE RenewerInTime'
  BY <1>2 DEF RenewerInTime, InRenewer
<1>3. ASSUME NEW s \in Steps, now' = now, step'[s] = step[s] PROVE StepInTime(s)'
  BY <1>3 DEF StepInTime, InStep
<1>4. CASE UNCHANGED renewalVars \/ \E u \in Users : UserAdd(u) \/ Drop(u)
  BY <1>2, <1>3, <1>4 DEF renewalVars, UserAdd, Drop
<1>5. CASE Tick
  BY <1>5, TickInTime
<1>6. CASE \E exit \in BOOLEAN : Signal(exit)
  BY <1>1, <1>6 DEF Signal, Mishap
<1>7. CASE RenewerStep
  BY <1>1, <1>3, <1>7, RenewerAlone, RenewerInTimeNext
<1>8. ASSUME NEW s \in Steps, StepStart(s) \/ LoopStep(s)
      PROVE  RenewerInTime' /\ \A t \in Steps : StepInTime(t)'
  BY <1>2, <1>3, <1>8, StepAlone, StepInTimeNext
<1> QED
  BY <1>4, <1>5, <1>6, <1>7, <1>8 DEF RenewalNext, UserRemove, Clean
----------------------------------------------------------------------------
(* The stages of auksdrenewer come in time                                 *)

LEMMA ExtendableIsCred ==
  ASSUME NEW c \in Slot, Extendable(c)
  PROVE  c \in Cred /\ c.end - c.start > MinLife /\ c.end < c.till
BY SlotIsCred DEF Extendable

\* The KDC renews what is due and can still be extended; the result replaces
\* the old credential, and is left alone by the test as long as it can be
\* extended again.
LEMMA RenewedLonger ==
  ASSUME NEW c \in Cred, now \in Nat, c.start <= now, c.end >= now, Extendable(c)
  PROVE  /\ ~Hopeless(c, now) /\ Renewable(c, now)
         /\ ~Due(c, now) => c.end >= now + MinLife + 1
         /\ Replaces(Renewed(c, now), c)
BY Constants DEF Extendable, Hopeless, Renewable, Due, Replaces, Renewed, Lesser, Cred

LEMMA RenewedEnd ==
  ASSUME NEW c \in Cred, now \in Nat, c.start <= now, c.end - c.start > MinLife,
         Extendable(Renewed(c, now))
  PROVE  Renewed(c, now).end >= now + MinLife + 1
BY Constants DEF Extendable, Renewed, Lesser, Cred

LEMMA RenewedLastsNext ==
  ASSUME RenewalTypeOK, AllBegun, RenewerStep, RenewerInTime, RenewedLasts
  PROVE  RenewedLasts'
<1>1. renewer \in RenewerStates /\ now \in Nat /\ renewer.since \in Nat
  BY DEF RenewalTypeOK, RenewerOK, RenewerStates
<1>2. ASSUME NEW m \in renewer.todo, Examine(m[1], m[2]) PROVE RenewedLasts'
  <2>1. CASE renewer'.pc = "add" /\ Extendable(renewer.cred)'
    <3>1. /\ Due(m[2], now) /\ renewer'.cred = Renewed(m[2], now)
          /\ m[2] \in Cred /\ m[2].start <= now /\ renewer'.since = renewer.since
      BY <1>2, <2>1, ExamineFields DEF InSameStage
    <3>2. m[2].end - m[2].start > MinLife
      BY <3>1, Constants DEF Due, Hopeless, Cred
    <3>3. Renewed(m[2], now).end >= now + MinLife + 1
      BY <1>1, <2>1, <3>1, <3>2, RenewedEnd DEF Extendable
    <3>4. Renewed(m[2], now).end \in Int /\ renewer.since <= now
      BY <1>1, <3>1 DEF Renewed, Lesser, Cred, RenewerInTime
    <3> QED
      BY <1>1, <3>1, <3>3, <3>4, Constants DEF RenewedLasts
  <2> QED
    BY <2>1 DEF RenewedLasts, InRenewer
<1>3. CASE ~\E m \in renewer.todo : Examine(m[1], m[2])
  <2>1. renewer'.pc # "add"
    BY <1>1, <1>3, MainFields, LoopFields, DumpFields, AddFields, BreakFields, EndFields, SleepFields,
       WakeFields DEF RenewerStep, NewStage, LoopEnds
  <2> QED
    BY <2>1 DEF RenewedLasts, InRenewer
<1> QED
  BY <1>2, <1>3

\* What the current stage does not come to lasts for k more; k is a period and
\* a stage for the repository alone, and all of MinLifeTime with the steps.
LEMMA RenewerLasts ==
  ASSUME RenewalTypeOK, AllBegun, RenewerStep, RenewerInTime, RenewedLasts,
         mishaps = 0, mishaps' = 0, Work <= Delay,
         NEW k \in Nat, Delay + Work <= k, k <= MinLife + 1,
         NEW u \in Users, Lasts(u, k)
  PROVE  Lasts(u, k)'
<1> SUFFICES ASSUME Extendable(store'[u])
             PROVE  store'[u].end >= Until(u, k)'
  BY DEF Lasts, Extendable
<1>1. /\ now \in Nat /\ renewer \in RenewerStates /\ now' = now
      /\ renewer.since \in Nat /\ renewer.due \in Nat
      /\ store \in [Users -> Slot] /\ store[u] \in Slot
  BY RenewerAlone DEF RenewalTypeOK, RenewerOK, RenewerStates
<1>2. ASSUME ~RenewerAdd
      PROVE  /\ store' = store /\ store[u] \in Cred /\ Extendable(store[u])
             /\ store[u].end \in Nat /\ store[u].end >= Until(u, k)
             /\ store[u].start <= now
  <2>1. store' = store
    BY <1>2, RenewerAlone
  <2>2. store[u] \in Cred /\ Extendable(store[u])
    BY <1>1, <2>1, ExtendableIsCred
  <2> QED
    BY <2>1, <2>2 DEF Lasts, Cred, AllBegun, Begun
<1> USE Constants
<1>3. CASE RenewerMain
  BY <1>1, <1>2, <1>3, MainFields, AddFields DEF RenewerInTime, Until, Awaited, InRenewer, InSameStage,
                                      RenewerKeeps
<1>4. CASE RenewerLoop
  BY <1>1, <1>2, <1>4, LoopFields, AddFields DEF RenewerInTime, Until, Awaited, InRenewer, NewStage
<1>5. CASE RenewerDump
  <2>1. /\ renewer.pc = "dump" /\ renewer'.pc = "next" /\ renewer'.since = renewer.since
        /\ renewer'.todo = {<<v, store[v]>> : v \in {w \in Users : store[w] # NoCred}}
    BY <1>1, <1>5, DumpFields DEF InSameStage
  <2>2. store' = store /\ store[u] # NoCred /\ store[u].end >= Until(u, k)
    BY <1>1, <1>2, <2>1, AddFields, CredAssumption
  <2>3. <<u, store[u]>> \in renewer'.todo
    BY <2>1, <2>2
  <2> QED
    BY <2>1, <2>2, <2>3 DEF Until, Awaited, InRenewer
<1>6. ASSUME NEW m \in renewer.todo, Examine(m[1], m[2])
      PROVE  store'[u].end >= Until(u, k)'
  <2>1. /\ renewer.pc = "next" /\ renewer'.since = renewer.since
        /\ renewer.due = renewer.since + Work /\ renewer.since <= now /\ now <= renewer.due
        /\ renewer'.todo = renewer.todo \ {m}
        /\ renewer'.pc \in {"next", "add"}
    BY <1>6, ExamineFields DEF InSameStage, RenewerInTime, Stages
  <2>2. /\ store' = store /\ store[u] \in Cred /\ Extendable(store[u]) /\ store[u].start <= now
        /\ store[u].end \in Nat /\ store[u].end >= Until(u, k)
    BY <1>1, <1>2, <2>1, AddFields
  <2>3. CASE m # <<u, store[u]>>
    <3>1. Awaited(u) => Awaited(u)'
      BY <2>1, <2>2, <2>3 DEF Awaited, InRenewer
    <3> QED
      BY <1>1, <2>1, <2>2, <3>1 DEF Until
  <2>4. CASE m = <<u, store[u]>>
    <3>1. Awaited(u) /\ m[1] = u /\ m[2] = store[u]
      BY <2>1, <2>4 DEF Awaited, InRenewer
    <3>2. store[u].end >= now
      BY <1>1, <2>1, <2>2, <3>1 DEF Until
    <3>3. /\ Renewable(store[u], now) /\ Replaces(Renewed(store[u], now), store[u])
          /\ ~Due(store[u], now) => store[u].end >= now + MinLife + 1
      BY <1>1, <2>2, <3>2, RenewedLonger
    <3>4. CASE Due(store[u], now)
      <4>1. renewer'.pc = "add" /\ renewer'.user = u /\ renewer'.cred = Renewed(store[u], now)
        BY <1>6, <3>1, <3>3, <3>4, ExamineFields DEF Denied, Mishap
      <4>2. Awaited(u)'
        BY <2>2, <3>3, <4>1 DEF Awaited, InRenewer
      <4> QED
        BY <1>1, <2>1, <2>2, <3>1, <4>2 DEF Until
    <3>5. CASE ~Due(store[u], now)
      BY <1>1, <2>1, <2>2, <3>3, <3>5 DEF Until
    <3> QED
      BY <3>4, <3>5
  <2> QED
    BY <2>3, <2>4
<1>7. CASE RenewerAdd
  <2>1. /\ renewer.pc = "add" /\ renewer'.since = renewer.since /\ renewer'.pc = "next"
        /\ renewer'.todo = renewer.todo
    BY <1>1, <1>7, AddFields DEF InSameStage
  <2>2. renewer.user \in Users /\ renewer.cred \in Cred
    BY <2>1 DEF RenewalTypeOK, RenewerOK, InRenewer
  <2>3. \/ Replaces(renewer.cred, store[renewer.user])
           /\ store' = [store EXCEPT ![renewer.user] = renewer.cred]
        \/ ~Replaces(renewer.cred, store[renewer.user]) /\ store' = store
    BY <1>7 DEF RenewerAdd, Mishap
  <2>4. CASE store'[u] = renewer.cred
    <3>1. renewer.cred.end >= renewer.since + MinLife + 1 /\ renewer.cred.end \in Nat
      BY <2>1, <2>2, <2>4 DEF RenewedLasts, InRenewer, Cred
    <3> QED
      BY <1>1, <2>1, <2>4, <3>1 DEF Until
  <2>5. CASE store'[u] = store[u] /\ ~(renewer.user = u /\ Replaces(renewer.cred, store[u]))
    <3>1. Awaited(u)' <=> Awaited(u)
      BY <2>1, <2>5 DEF Awaited, InRenewer
    <3>2. store[u].end >= Until(u, k)
      BY <2>5 DEF Lasts
    <3> QED
      BY <2>1, <2>5, <3>1, <3>2 DEF Until
  <2> QED
    BY <1>1, <2>2, <2>3, <2>4, <2>5
<1>8. CASE RenewerBreak
  BY <1>1, <1>2, <1>8, BreakFields, AddFields DEF RenewerInTime, Until, Awaited, InRenewer, InSameStage
<1>9. CASE RenewerEnd
  <2>1. /\ renewer.pc = "end" /\ now <= renewer.since + Work
        /\ \/ renewer'.pc = "rest" /\ renewer'.since = renewer.since
           \/ renewer'.pc = "dump" /\ renewer'.since = now /\ now >= renewer.since + Delay
    BY <1>1, <1>9, EndFields DEF RenewerInTime, NewStage, LoopEnds, Stages
  <2>2. store' = store /\ store[u].end \in Nat /\ store[u].end >= Until(u, k)
    BY <1>1, <1>2, <2>1, AddFields
  <2> QED
    BY <1>1, <2>1, <2>2 DEF Until, Awaited, InRenewer
<1>10. CASE RenewerSleep
  BY <1>1, <1>2, <1>10, SleepFields, AddFields DEF RenewerInTime, Until, Awaited, InRenewer
<1>11. CASE RenewerWake
  <2>1. /\ renewer.pc = "sleep" /\ now <= renewer.since + Delay
        /\ renewer'.pc = "dump" /\ renewer'.since = now /\ now >= renewer.since + Delay
    BY <1>1, <1>11, WakeFields DEF RenewerInTime, NewStage, LoopEnds, InRenewer
  <2>2. store' = store /\ store[u].end \in Nat /\ store[u].end >= Until(u, k)
    BY <1>1, <1>2, <2>1, AddFields
  <2> QED
    BY <1>1, <2>1, <2>2 DEF Until, Awaited, InRenewer
<1> QED
  BY <1>3, <1>4, <1>5, <1>6, <1>7, <1>8, <1>9, <1>10, <1>11 DEF RenewerStep
\* What a user adds lasts, if it has enough left.
LEMMA AddedLasts ==
  ASSUME now \in Nat, RenewerInTime, renewer \in RenewerStates, Work <= Delay,
         NEW k \in Nat, Delay + Work <= k, NEW u \in Users, NEW e \in Nat, e >= now + k
  PROVE  e >= Until(u, k)
<1>1. renewer.since \in Nat /\ renewer.since <= now
  BY DEF RenewerInTime, RenewerStates
<1> QED
  BY <1>1, Constants DEF Until

LEMMA DropLasts ==
  ASSUME RenewalTypeOK, NEW v \in Users, Drop(v), NEW u \in Users, NEW k \in Nat, Lasts(u, k)
  PROVE  Lasts(u, k)'
<1>1. /\ renewer' = renewer /\ store' \in [Users -> Slot]
      /\ store'[u] = store[u] \/ store'[u] = NoCred
  BY DEF Drop, RenewalTypeOK, Slot
<1> QED
  BY <1>1 DEF Lasts, Extendable, Until, Awaited, InRenewer

\* The credential of a step comes from a user whose credential lasts, or from
\* the KDC, and lasts until the step looks at it again.
LEMMA OwnStepLasts ==
  ASSUME RenewalTypeOK, AllBegun, AllTested, RenewerInTime, NEW s \in Steps,
         StepStart(s) \/ LoopStep(s), StepInTime(s), mishaps = 0, mishaps' = 0, Work <= Delay,
         StepMargin, Lasts(OwnerOf[s], MinLife + 1), given'[s] > MinLife,
         StepStart(s) \/ StepLasts(s)
  PROVE  StepLasts(s)'
<1>1. /\ now \in Nat /\ now' = now /\ store' = store /\ renewer' = renewer
      /\ OwnerOf[s] \in Users /\ store[OwnerOf[s]] \in Slot
      /\ step[s].due \in Nat /\ renewer.since \in Nat /\ renewer.due \in Nat
      /\ renewer \in RenewerStates
  BY StepAlone, Constants DEF RenewalTypeOK, RenewerOK, StepOK, StepStates, RenewerStates
<1>2. Lasts(OwnerOf[s], MinLife + 1)'
  BY <1>1 DEF Lasts, Until, Awaited, InRenewer
<1> USE Constants DEF StepLasts, Working, StepInTime, InStep
<1>3. CASE StepStart(s)
  <2>1. store[OwnerOf[s]].end - now > MinLife /\ store[OwnerOf[s]].end \in Nat
    BY <1>3, StartFields DEF RenewalTypeOK, Cred
  <2>2. MinLife + 1 >= Work
    BY DEF StepMargin
  <2> QED
    BY <1>1, <1>2, <1>3, <2>1, <2>2, StartFields
<1>4. CASE StepTest(s)
  <2>1. step[s].ccache \in Cred /\ step[s].ccache.end \in Nat /\ step[s].ccache.start <= now
    BY <1>4, TestFields DEF Cred, AllBegun, Begun
  <2>2. Extendable(step[s].ccache) => step[s].ccache.end >= step[s].due /\ now <= step[s].due
    BY <1>4, TestFields DEF StepTest, StepStart
  <2>3. Extendable(step[s].ccache) =>
          /\ ~Hopeless(step[s].ccache, now)
          /\ ~Due(step[s].ccache, now) => step[s].ccache.end >= now + MinLife + 1
    BY <1>1, <2>1, <2>2, RenewedLonger
  <2>4. MinLife + 1 >= Delay + Work
    BY DEF StepMargin
  <2>5. ~StepStart(s)
    BY <1>4, TestFields DEF StepStart
  <2> QED
    BY <1>1, <1>2, <1>4, <2>1, <2>2, <2>3, <2>4, <2>5, TestFields DEF Extendable
<1>5. CASE StepGet(s) \/ StepGetFails(s)
  <2>1. Extendable(store[OwnerOf[s]]) => store[OwnerOf[s]].end >= step[s].due + Delay + Work
    <3>1. SUFFICES ASSUME Extendable(store[OwnerOf[s]])
                   PROVE  store[OwnerOf[s]].end >= step[s].due + Delay + Work
      OBVIOUS
    <3>2. store[OwnerOf[s]].end \in Nat /\ store[OwnerOf[s]].end >= Until(OwnerOf[s], MinLife + 1)
      BY <1>1, <3>1, ExtendableIsCred DEF Lasts, Cred
    <3>3. step[s].due <= now + Work
      BY <1>1, <1>5, GetFields
    <3>4. Until(OwnerOf[s], MinLife + 1) >= now + Delay + 2 * Work
      BY <1>1 DEF Until, RenewerInTime, Awaited, InRenewer, Stages, StepMargin, RenewerStates
    <3>5. Until(OwnerOf[s], MinLife + 1) \in Int
      BY <1>1 DEF Until
    <3> QED
      BY <1>1, <3>2, <3>3, <3>4, <3>5
  <2>2. ~StepStart(s)
    BY <1>5, GetFields DEF StepStart
  <2> QED
    BY <1>1, <1>2, <1>5, <2>1, <2>2, GetFields DEF Extendable
<1>6. CASE StepKdc(s)
  <2>1. /\ step[s].pc = "kdc" /\ step[s].ccache \in Cred /\ step[s].ccache.end \in Nat
        /\ step[s].ccache.till \in Nat /\ step[s].ccache.start <= now
        /\ step[s].ccache.end - step[s].ccache.start > MinLife
        /\ step[s].due - Work <= now /\ now <= step[s].due
    BY <1>6, KdcFields DEF Cred, AllBegun, Begun
  <2>2. ~StepStart(s)
    BY <2>1 DEF StepStart
  <2>3. Extendable(step[s].ccache) => Renewable(step[s].ccache, now)
    BY <1>1, <2>1, <2>2 DEF Extendable, Renewable
  <2>4. Denied(step[s].ccache) => ~Renewable(step[s].ccache, now)
    BY DEF Denied, Mishap
  <2>5. Extendable(Renewed(step[s].ccache, now)) =>
          Renewed(step[s].ccache, now).end >= step[s].due + Delay + Work
    <3>1. SUFFICES ASSUME Extendable(Renewed(step[s].ccache, now))
                   PROVE  Renewed(step[s].ccache, now).end >= step[s].due + Delay + Work
      OBVIOUS
    <3>2. Renewed(step[s].ccache, now).end >= now + MinLife + 1
      BY <1>1, <2>1, <3>1, RenewedEnd
    <3>3. Renewed(step[s].ccache, now).end \in Int
      BY <1>1, <2>1 DEF Renewed, Lesser, Cred
    <3> QED
      BY <1>1, <2>1, <3>2, <3>3 DEF StepMargin
  <2> QED
    BY <1>1, <1>2, <1>6, <2>1, <2>2, <2>3, <2>4, <2>5, KdcFields DEF Extendable
<1>7. CASE StepPut(s) \/ StepPutFails(s)
  <2>1. ~StepStart(s)
    BY <1>7, PutFields DEF StepStart
  <2>2. step[s].cred \in Cred /\ step[s].cred.end \in Nat
    BY <1>7, PutFields DEF Cred
  <2> QED
    BY <1>1, <1>2, <1>7, <2>1, <2>2, PutFields DEF Extendable
<1>8. CASE StepWake(s)
  <2>1. ~StepStart(s)
    BY <1>8, StepWakeFields DEF StepStart
  <2>2. step[s].ccache.end \in Nat
    BY <1>8, StepWakeFields DEF Cred
  <2> QED
    BY <1>1, <1>2, <1>8, <2>1, <2>2, StepWakeFields DEF Extendable
<1> QED
  BY <1>3, <1>4, <1>5, <1>6, <1>7, <1>8 DEF LoopStep
----------------------------------------------------------------------------
(* The invariant is inductive                                              *)

LEMMA Margins ==
  /\ RepoMargin => Delay + Work <= MinLife + 1
  /\ StepMargin => Delay + Work <= MinLife + 1
BY Constants DEF RepoMargin, StepMargin

LEMMA RepoLastsNext ==
  ASSUME RenewalInv, [RenewalNext]_renewalVars, Undisturbed'
  PROVE  RepoLasts'
<1>1. /\ RenewalTypeOK /\ AllBegun /\ AllTested
      /\ mishaps = 0 /\ mishaps' = 0 /\ Work <= Delay
      /\ RenewerInTime /\ RenewedLasts /\ RepoLasts
  BY Quiet DEF RenewalInv, RenewalLasts
<1>2. /\ now \in Nat /\ renewer \in RenewerStates /\ store \in [Users -> Slot]
      /\ Delay + Work \in Nat
  BY <1>1, Constants DEF RenewalTypeOK, RenewerOK
<1> SUFFICES ASSUME RepoMargin, NEW u \in Users, Timely(u)'
             PROVE  Lasts(u, Delay + Work)'
  BY DEF RepoLasts, RepoMargin
<1>3. Timely(u) => Lasts(u, Delay + Work)
  BY <1>1 DEF RepoLasts
<1>4. ASSUME UNCHANGED <<store, renewer>>, given'[u] = given[u]
      PROVE  Lasts(u, Delay + Work)'
  BY <1>3, <1>4 DEF Lasts, Until, Awaited, InRenewer, Timely
<1>5. CASE UNCHANGED renewalVars \/ Tick
  BY <1>4, <1>5 DEF renewalVars, Tick
<1>6. ASSUME NEW v \in Users, UserAdd(v) PROVE Lasts(u, Delay + Work)'
  <2>1. PICK c \in Cred :
          /\ store' = [store EXCEPT ![v] = c]
          /\ given' = [x \in Users \cup Steps |->
                         IF x = v THEN c.end - now
                         ELSE IF x \in Steps /\ OwnerOf[x] = v THEN 0 ELSE given[x]]
    BY <1>1, <1>6, UserAdds
  <2>2. renewer' = renewer
    BY <1>6 DEF UserAdd
  <2>3. CASE u = v
    <3>1. store'[u] = c /\ given'[u] = c.end - now /\ c.end \in Nat
      BY <1>2, <2>1, <2>3 DEF Cred
    <3>2. c.end >= now + (Delay + Work)
      BY <1>2, <3>1, Constants DEF Timely
    <3>3. c.end >= Until(u, Delay + Work)' 
      <4>1. renewer \in RenewerStates /\ renewer.since \in Nat /\ renewer.since <= now
        BY <1>1, <1>2 DEF RenewerInTime, RenewerStates
      <4> QED
        BY <1>1, <1>2, <2>2, <3>1, <3>2, <4>1, Constants DEF Until
    <3> QED
      BY <3>1, <3>3 DEF Lasts
  <2>4. CASE u # v
    <3>1. u \notin Steps
      BY Constants
    <3>2. store'[u] = store[u] /\ given'[u] = given[u]
      BY <1>2, <2>1, <2>4, <3>1
    <3> QED
      BY <1>3, <2>2, <3>2 DEF Lasts, Until, Awaited, InRenewer, Timely
  <2> QED
    BY <2>3, <2>4
<1>7. ASSUME NEW v \in Users, Drop(v) PROVE Lasts(u, Delay + Work)'
  BY <1>1, <1>2, <1>3, <1>7, DropLasts DEF Drop, Timely
<1>8. CASE \E exit \in BOOLEAN : Signal(exit)
  BY <1>1, <1>8 DEF Signal, Mishap
<1>9. CASE RenewerStep
  BY <1>1, <1>2, <1>3, <1>9, Margins, RenewerAlone, RenewerLasts DEF Timely
<1>10. ASSUME NEW s \in Steps, StepStart(s) \/ LoopStep(s) PROVE Lasts(u, Delay + Work)'
  <2>1. UNCHANGED <<store, renewer>>
    BY <1>1, <1>10, StepAlone
  <2>2. given' = given \/ given' = [given EXCEPT ![s] = store[OwnerOf[s]].end - now]
    BY <1>10, Zenon DEF StepStart, LoopStep, StepTest, StepGet, StepGetFails, StepKdc, StepPut,
                        StepPutFails, StepWake, StepOnly
  <2>3. given'[u] = given[u]
    BY <1>1, <2>2, Constants DEF RenewalTypeOK
  <2> QED
    BY <1>4, <2>1, <2>3
<1> QED
  BY <1>5, <1>6, <1>7, <1>8, <1>9, <1>10 DEF RenewalNext, UserRemove, Clean

LEMMA StepsLastNext ==
  ASSUME RenewalInv, [RenewalNext]_renewalVars, Undisturbed'
  PROVE  StepsLast'
<1>1. /\ RenewalTypeOK /\ AllBegun /\ AllTested
      /\ mishaps = 0 /\ mishaps' = 0 /\ Work <= Delay
      /\ RenewerInTime /\ RenewedLasts /\ StepsLast /\ \A t \in Steps : StepInTime(t)
  BY Quiet DEF RenewalInv, RenewalLasts
<1>2. /\ now \in Nat /\ renewer \in RenewerStates /\ store \in [Users -> Slot]
      /\ given \in [Users \cup Steps -> Int] /\ step \in [Steps -> StepStates]
      /\ MinLife + 1 \in Nat /\ MinLife \in Nat
  BY <1>1, Constants DEF RenewalTypeOK, RenewerOK
<1> SUFFICES ASSUME StepMargin, NEW s \in Steps, given'[s] > MinLife
             PROVE  StepLasts(s)'
  BY DEF StepsLast, StepMargin
<1>3. given[s] > MinLife => StepLasts(s) /\ Lasts(OwnerOf[s], MinLife + 1)
  BY <1>1 DEF StepsLast, StepLasts
<1>4. OwnerOf[s] \in Users
  BY Constants
<1>5. ASSUME step'[s] = step[s], given'[s] = given[s], Lasts(OwnerOf[s], MinLife + 1)'
      PROVE  StepLasts(s)'
  BY <1>3, <1>5 DEF StepLasts
<1>6. ASSUME renewer' = renewer, store'[OwnerOf[s]] = store[OwnerOf[s]],
             Lasts(OwnerOf[s], MinLife + 1)
      PROVE  Lasts(OwnerOf[s], MinLife + 1)'
  BY <1>6 DEF Lasts, Until, Awaited, InRenewer
<1>7. CASE UNCHANGED renewalVars \/ Tick
  BY <1>3, <1>5, <1>6, <1>7 DEF renewalVars, Tick
<1>8. ASSUME NEW v \in Users, UserAdd(v) PROVE StepLasts(s)'
  <2>1. PICK c \in Cred :
          /\ store' = [store EXCEPT ![v] = c]
          /\ given' = [x \in Users \cup Steps |->
                         IF x = v THEN c.end - now
                         ELSE IF x \in Steps /\ OwnerOf[x] = v THEN 0 ELSE given[x]]
    BY <1>1, <1>8, UserAdds
  <2>2. renewer' = renewer /\ step' = step
    BY <1>8 DEF UserAdd
  <2>3. s # v
    BY Constants
  <2>4. OwnerOf[s] # v /\ given'[s] = given[s]
    BY <1>2, <2>1, <2>3
  <2>5. store'[OwnerOf[s]] = store[OwnerOf[s]]
    BY <1>2, <1>4, <2>1, <2>4
  <2> QED
    BY <1>3, <1>5, <1>6, <2>2, <2>4, <2>5
<1>9. ASSUME NEW v \in Users, Drop(v) PROVE StepLasts(s)'
  <2>1. given' = given /\ step' = step
    BY <1>9 DEF Drop
  <2>2. Lasts(OwnerOf[s], MinLife + 1)'
    BY <1>1, <1>2, <1>3, <1>4, <1>9, <2>1, DropLasts
  <2> QED
    BY <1>5, <2>1, <2>2
<1>10. CASE \E exit \in BOOLEAN : Signal(exit)
  BY <1>1, <1>10 DEF Signal, Mishap
<1>11. CASE RenewerStep
  <2>1. given' = given /\ step' = step
    BY <1>1, <1>11, RenewerAlone
  <2>2. Lasts(OwnerOf[s], MinLife + 1)'
    BY <1>1, <1>2, <1>3, <1>4, <1>11, <2>1, Margins, RenewerLasts
  <2> QED
    BY <1>5, <2>1, <2>2
<1>12. ASSUME NEW t \in Steps, StepStart(t) \/ LoopStep(t) PROVE StepLasts(s)'
  <2>1. /\ UNCHANGED <<now, store, renewer>> /\ \A x \in Steps \ {t} : step'[x] = step[x]
    BY <1>1, <1>12, StepAlone
  <2>2. given' = given \/ (StepStart(t) /\ given' = [given EXCEPT ![t] = store[OwnerOf[t]].end - now])
    BY <1>12, Zenon DEF StepStart, LoopStep, StepTest, StepGet, StepGetFails, StepKdc, StepPut,
                        StepPutFails, StepWake, StepOnly
  <2>3. CASE t # s
    <3>1. given'[s] = given[s] /\ step'[s] = step[s]
      BY <1>2, <2>1, <2>2, <2>3
    <3> QED
      BY <1>3, <1>5, <1>6, <2>1, <3>1
  <2>4. CASE t = s /\ ~StepStart(s)
    BY <1>1, <1>3, <1>12, <2>2, <2>4, OwnStepLasts
  <2>5. CASE t = s /\ StepStart(s)
    <3>1. /\ store[OwnerOf[s]] \in Cred
          /\ given'[s] = store[OwnerOf[s]].end - now
      BY <1>1, <1>2, <2>5, StartFields
    <3>2. store[OwnerOf[s]].end \in Nat /\ store[OwnerOf[s]].end >= now + (MinLife + 1)
      BY <1>2, <3>1 DEF Cred
    <3>3. store[OwnerOf[s]].end >= Until(OwnerOf[s], MinLife + 1)
      BY <1>1, <1>2, <1>4, <3>2, Margins, AddedLasts
    <3>4. Lasts(OwnerOf[s], MinLife + 1)
      BY <3>3 DEF Lasts
    <3> QED
      BY <1>1, <2>5, <3>4, OwnStepLasts
  <2> QED
    BY <2>3, <2>4, <2>5
<1> QED
  BY <1>7, <1>8, <1>9, <1>10, <1>11, <1>12 DEF RenewalNext, UserRemove, Clean

LEMMA RenewalInvInit ==
  ASSUME RenewalInit
  PROVE  RenewalInv
<1> USE Constants, CredAssumption, RenewalAssumption DEF RenewalInit, RenewerIdle, StepIdle, Slot
<1>1. RenewalTypeOK
  BY DEF RenewalTypeOK, RenewerOK, RenewerStates, StepOK, StepStates, InRenewer, InStep
<1>2. AllBegun /\ AllTested
  BY DEF AllBegun, Begun, AllTested, Tested
<1>3. RenewerInTime /\ \A s \in Steps : StepInTime(s)
  BY DEF RenewerInTime, InRenewer, Stages, StepInTime, InStep, Working
<1>4. RenewedLasts /\ RepoLasts
  BY DEF RenewedLasts, InRenewer, RepoLasts, Lasts, Extendable
<1>5. StepsLast
  BY DEF StepsLast
<1> QED
  BY <1>1, <1>2, <1>3, <1>4, <1>5 DEF RenewalInv, RenewalLasts

LEMMA RenewalInvNext ==
  ASSUME RenewalInv, [RenewalNext]_renewalVars
  PROVE  RenewalInv'
<1>1. RenewalTypeOK' /\ AllBegun' /\ AllTested'
  BY RenewalTypeNext, AllBegunNext, AllTestedNext DEF RenewalInv
<1>2. ASSUME Undisturbed'
      PROVE  RenewerInTime' /\ (\A s \in Steps : StepInTime(s)') /\ RepoLasts' /\ StepsLast'
  BY <1>2, Quiet, InTimeNext, RepoLastsNext, StepsLastNext DEF RenewalInv, RenewalLasts
<1>3. ASSUME Undisturbed' PROVE RenewedLasts'
  <2>1. RenewalTypeOK /\ AllBegun /\ RenewerInTime /\ RenewedLasts /\ mishaps = 0 /\ mishaps' = 0
    BY <1>3, Quiet DEF RenewalInv, RenewalLasts
  <2>2. UNCHANGED renewer => RenewedLasts'
    BY <2>1 DEF RenewedLasts, InRenewer
  <2>3. CASE RenewerStep
    BY <2>1, <2>3, RenewedLastsNext
  <2>4. CASE ~RenewerStep
    <3>1. UNCHANGED renewer
      BY <2>1, <2>4, StepAlone DEF RenewalInv, RenewalNext, renewalVars, Tick, UserAdd, UserRemove, Clean,
                                   Drop, Signal, Mishap
    <3> QED
      BY <2>2, <3>1
  <2> QED
    BY <2>3, <2>4
<1> QED
  BY <1>1, <1>2, <1>3 DEF RenewalInv, RenewalLasts

----------------------------------------------------------------------------
(* The theorems                                                            *)

\* The types, and the inductive invariant.
THEOREM RenewalInvariant == RenewalSpec => [](RenewalTypeOK /\ RenewalInv)
<1>1. RenewalInit => RenewalInv
  BY RenewalInvInit
<1>2. RenewalInv /\ [RenewalNext]_renewalVars => RenewalInv'
  BY RenewalInvNext
<1>3. RenewalInv => RenewalTypeOK
  BY DEF RenewalInv
<1> QED
  BY <1>1, <1>2, <1>3, PTL DEF RenewalSpec

LEMMA InvRepoFresh == RenewalInv => RepoFresh
<1> SUFFICES ASSUME RenewalInv, Undisturbed, RepoMargin, NEW u \in Users, Extendable(store[u]),
                    Timely(u)
             PROVE  now <= store[u].end
  BY DEF RepoFresh
<1>1. /\ RenewerInTime /\ Lasts(u, Delay + Work) /\ store[u] \in Slot /\ Work <= Delay
      /\ renewer \in RenewerStates /\ now \in Nat
  BY DEF RenewalInv, RenewalLasts, RepoLasts, RenewalTypeOK, RenewerOK, Undisturbed
<1>2. renewer.since \in Nat /\ renewer.due \in Nat /\ store[u].end \in Nat
  BY <1>1, ExtendableIsCred DEF RenewerStates, Cred
<1>3. store[u].end >= Until(u, Delay + Work)
  BY <1>1 DEF Lasts
<1>4. now <= Until(u, Delay + Work) /\ Until(u, Delay + Work) \in Int
  BY <1>1, <1>2, Constants DEF Until, Awaited, RenewerInTime, Stages, InRenewer, RenewerStates
<1> QED
  BY <1>1, <1>2, <1>3, <1>4

LEMMA InvStepFresh == RenewalInv => StepFresh
<1> SUFFICES ASSUME RenewalInv, Undisturbed, StepMargin, NEW s \in Steps,
                    Extendable(step[s].ccache), given[s] > MinLife
             PROVE  now <= step[s].ccache.end
  BY DEF StepFresh
<1>1. StepInTime(s) /\ StepLasts(s) /\ StepOK(s) /\ now \in Nat
  BY DEF RenewalInv, RenewalLasts, StepsLast, RenewalTypeOK
<1>2. step[s].ccache \in Cred /\ step[s].ccache.end \in Nat /\ step[s].due \in Nat
  BY <1>1 DEF StepLasts, StepOK, StepStates, InStep, Cred
<1> QED
  BY <1>1, <1>2, Constants DEF StepInTime, StepLasts, StepOK, StepStates, InStep, Working

\* auks.conf(5), of the repository: a credential that can be renewed and had
\* enough left when it was added does not expire there, for every delay and
\* every minimal lifetime that covers a period and a stage (RepoFresh).
THEOREM RepositoryStaysFresh == RenewalSpec => []RepoFresh
BY RenewalInvariant, InvRepoFresh, PTL

\* Nor does the credential of a job step, when the minimal lifetime covers
\* the periods of both tiers (StepFresh).
THEOREM StepsStayFresh == RenewalSpec => []StepFresh
BY RenewalInvariant, InvStepFresh, PTL
=============================================================================
