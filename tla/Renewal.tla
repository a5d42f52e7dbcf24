------------------------------- MODULE Renewal -------------------------------
(***************************************************************************)
(* The renewal of credentials, in two tiers.  auksdrenewer                 *)
(* (src/auksd/auksdrenewer.c) dumps the repository of auksd every Delay    *)
(* seconds, renews at the KDC the credentials that come near their end and *)
(* adds them back.  "auks -R loop" (auks_api_renew_cred), started for each *)
(* job step, looks at the credential cache of the step every Delay seconds *)
(* and replaces it by the credential of auksd, or renews it at the KDC     *)
(* when auksd does not answer.                                             *)
(*                                                                         *)
(* Time is explicit: now advances when no process is overdue.  A process   *)
(* sleeps until due, or works on one stage of its loop until due at most.  *)
(* The KDC and auksd are the environment, auksd by what it promises.       *)
(***************************************************************************)
EXTENDS Integers, FiniteSets

CONSTANTS
  Users,       \* users with a credential
  Steps,       \* job steps with a renewal loop
  OwnerOf,     \* the user of each step
  NoCred,
  Never,       \* no time
  Delay,       \* renewer_delay
  MinLife,     \* renewer_minlifetime
  Work,        \* bound on the duration of a stage
  Lives,       \* lifetimes of the tickets that users get
  Renewables,  \* for how long these tickets are renewable
  Mishaps,     \* what may go wrong in this instance, a subset of MishapKinds
  MaxAdds,     \* bound on the number of additions by users
  MaxMishaps,  \* bound on how often something goes wrong
  MaxTime      \* bound of the clock

\* Calls of auksd fail; renewals at the KDC fail; storing a cache fails;
\* auksdrenewer gets signals.
MishapKinds == {"auksd", "kdc", "store", "signal"}

ASSUME RenewalAssumption ==
  /\ IsFiniteSet(Users)
  /\ IsFiniteSet(Steps)
  /\ Users \cap Steps = {}
  /\ OwnerOf \in [Steps -> Users]
  /\ {Delay, MinLife, Work, MaxAdds, MaxMishaps, MaxTime} \subseteq Nat
  /\ Lives \subseteq Nat /\ Renewables \subseteq Nat
  /\ Never \notin Nat
  /\ Mishaps \subseteq MishapKinds

VARIABLES
  now,       \* time(2)
  store,     \* the repository of auksd: user -> credential
  renewer,   \* auksdrenewer
  step,      \* the renewal loop of each step
  adds,      \* the number of additions by users so far
  mishaps,   \* history: how often something has gone wrong
  given      \* history: the time that the credential of each user, and of
             \* each step, had left when it was put there by hand

renewalVars == <<now, store, renewer, step, adds, mishaps, given>>

Cred == [start : Nat, end : Nat, till : Nat]
ASSUME CredAssumption == NoCred \notin Cred

\* Something goes wrong, or nothing does.
Mishap(m) ==
  /\ m \in Mishaps
  /\ mishaps < MaxMishaps
  /\ mishaps' = mishaps + 1

Fine == UNCHANGED mishaps

----------------------------------------------------------------------------
(* Tickets                                                                 *)

\* Mutant: the renewal starts below MinLifeTime, as auks.conf(5) has it.
DueBelow(c, t) ==
  /\ c.end - c.start > MinLife
  /\ c.end - t \in 0..(MinLife - 1)

\* auks_cred_renew_test, and the same tests in renewer_main_function.
Hopeless(c, t) == c.end - c.start <= MinLife \/ c.end < t
Due(c, t) ==
  /\ ~Hopeless(c, t)
  /\ c.end - t <= MinLife

\* The KDC renews a valid ticket, for as long as it lived before, until its
\* renew_till at most.
Lesser(a, b) == IF a < b THEN a ELSE b
Renewable(c, t) == c.end >= t /\ c.till > t

\* The KDC renews a ticket, or not.
Granted(c) == Renewable(c, now) /\ Fine
Denied(c) == (~Renewable(c, now) /\ Fine) \/ Mishap("kdc")
Renewed(c, t) == [start |-> t, end |-> Lesser(t + (c.end - c.start), c.till), till |-> c.till]

\* auks_cred_repo_add
Replaces(new, old) ==
  old # NoCred =>
    \/ new.till > old.till
    \/ new.till = old.till /\ new.end >= old.end

----------------------------------------------------------------------------

\* since is atime; due is when a process must have moved on.
RenewerIdle == [pc |-> "main", todo |-> {}, user |-> Never, cred |-> NoCred,
                since |-> 0, due |-> Work, eof |-> FALSE, exit |-> FALSE]

StepIdle == [pc |-> "none", ccache |-> NoCred, cred |-> NoCred, due |-> 0]

RenewalInit ==
  /\ now = 0
  /\ store = [u \in Users |-> NoCred]
  /\ renewer = RenewerIdle
  /\ step = [s \in Steps |-> StepIdle]
  /\ adds = 0
  /\ mishaps = 0
  /\ given = [x \in Users \cup Steps |-> 0]

----------------------------------------------------------------------------
(* Users, and the cleaner of auksd                                         *)

\* A user adds a valid ticket, which may be some time old; the steps of the
\* user have then been disturbed.
UserAdd(u) ==
  /\ adds < MaxAdds
  /\ adds' = adds + 1
  /\ \E start \in 0..now, life \in Lives, renewable \in Renewables :
       LET c == [start |-> start, end |-> start + life,
                 till |-> IF renewable = 0 THEN 0 ELSE start + renewable]
       IN  /\ renewable \notin 1..(life - 1)
           /\ c.end >= now
           /\ Replaces(c, store[u])
           /\ store' = [store EXCEPT ![u] = c]
           /\ given' = [x \in Users \cup Steps |->
                          IF x = u THEN c.end - now
                          ELSE IF x \in Steps /\ OwnerOf[x] = u THEN 0 ELSE given[x]]
  /\ UNCHANGED <<now, renewer, step, mishaps>>

Drop(u) ==
  /\ store[u] # NoCred
  /\ store' = [store EXCEPT ![u] = NoCred]
  /\ UNCHANGED <<now, adds, mishaps, renewer, step, given>>

UserRemove(u) == Drop(u)

Clean(u) ==
  /\ IF store[u] = NoCred THEN FALSE ELSE store[u].end < now
  /\ Drop(u)

----------------------------------------------------------------------------
(* auksdrenewer                                                            *)

InRenewer(pc) == renewer.pc = pc
RenewerOnly == UNCHANGED <<now, adds, store, step, given>>

\* SIGTERM and SIGINT, or SIGHUP, which ends sleep(3).
Signal(exit) ==
  /\ ~InRenewer("exited")
  /\ Mishap("signal")
  /\ renewer' = [renewer EXCEPT !.eof = TRUE, !.exit = @ \/ exit,
                                !.due = IF InRenewer("sleep") THEN now ELSE @]
  /\ RenewerOnly

\* main(): the configuration is loaded again for each run of the loop.
RenewerMain ==
  /\ InRenewer("main")
  /\ renewer' = [renewer EXCEPT !.pc = IF renewer.exit THEN "exited" ELSE "loop"]
  /\ RenewerOnly /\ Fine

\* A stage begins; do reads the clock.
Stage(r) == [r EXCEPT !.pc = "dump", !.since = now, !.due = now + Work]

\* auksd_renewer_loop clears the flag, whatever has set it.
RenewerLoop ==
  /\ InRenewer("loop")
  /\ renewer' = [Stage(renewer) EXCEPT !.eof = FALSE]
  /\ RenewerOnly /\ Fine

RenewerDump ==
  /\ InRenewer("dump")
  /\ \/ renewer' = [renewer EXCEPT !.pc = "next",
                       !.todo = {<<u, store[u]>> : u \in {v \in Users : store[v] # NoCred}}]
        /\ Fine
     \/ renewer' = [renewer EXCEPT !.pc = "end"] /\ Mishap("auksd")
  /\ RenewerOnly

\* The loop over the dumped credentials: the one that is due is renewed.
Examine(u, c) ==
  /\ InRenewer("next")
  /\ ~renewer.eof
  /\ <<u, c>> \in renewer.todo
  /\ LET rest == [renewer EXCEPT !.todo = @ \ {<<u, c>>}] IN
     \/ /\ Due(c, now) /\ Granted(c)
        /\ renewer' = [rest EXCEPT !.pc = "add", !.user = u, !.cred = Renewed(c, now)]
     \/ /\ (~Due(c, now) /\ Fine) \/ (Due(c, now) /\ Denied(c))
        /\ renewer' = rest
  /\ RenewerOnly

\* Mutant: the renewed credential is not sent back.
RenewerAddNothing ==
  /\ InRenewer("add")
  /\ renewer' = [renewer EXCEPT !.pc = "next", !.user = Never, !.cred = NoCred]
  /\ RenewerOnly /\ Fine

\* It is added back, whatever has become of the credential meanwhile.
RenewerAdd ==
  LET u == renewer.user
      c == renewer.cred
  IN
  /\ InRenewer("add")
  /\ renewer' = [renewer EXCEPT !.pc = "next", !.user = Never, !.cred = NoCred]
  /\ \/ /\ Replaces(c, store[u]) /\ Fine
        /\ store' = [store EXCEPT ![u] = c]
     \/ /\ (~Replaces(c, store[u]) /\ Fine) \/ Mishap("auksd")
        /\ UNCHANGED store
  /\ UNCHANGED <<now, adds, step, given>>

RenewerBreak ==
  /\ InRenewer("next")
  /\ renewer.todo = {} \/ renewer.eof
  /\ renewer' = [renewer EXCEPT !.pc = "end", !.todo = {}, !.user = Never, !.cred = NoCred]
  /\ RenewerOnly /\ Fine

\* The stage is over: the loop ends, sleeps for the rest of the period, or
\* goes on at once when the stage has taken longer than that.
RenewerEnd ==
  /\ InRenewer("end")
  /\ renewer' = IF renewer.eof THEN [renewer EXCEPT !.pc = "main", !.due = now + Work]
                ELSE IF now - renewer.since < Delay
                THEN [renewer EXCEPT !.pc = "rest", !.due = now]
                ELSE Stage(renewer)
  /\ RenewerOnly /\ Fine

\* A signal that comes before this step does not shorten the sleep.
RenewerSleep ==
  /\ InRenewer("rest")
  /\ renewer' = [renewer EXCEPT !.pc = "sleep", !.due = renewer.since + Delay]
  /\ RenewerOnly /\ Fine

RenewerWake ==
  /\ InRenewer("sleep")
  /\ now >= renewer.due
  /\ renewer' = IF renewer.eof THEN [renewer EXCEPT !.pc = "main", !.due = now + Work]
                ELSE Stage(renewer)
  /\ RenewerOnly /\ Fine

RenewerStep ==
  \/ RenewerMain \/ RenewerLoop \/ RenewerDump
  \/ (\E m \in renewer.todo : Examine(m[1], m[2]))
  \/ RenewerAdd \/ RenewerBreak \/ RenewerEnd \/ RenewerSleep \/ RenewerWake

----------------------------------------------------------------------------
(* auks_api_renew_cred, in a loop                                          *)

InStep(s, pc) == step[s].pc = pc
StepOnly == UNCHANGED <<now, adds, store, renewer, given>>

\* The step is started with the credential of auksd, and its loop with it.
StepStart(s) ==
  LET c == store[OwnerOf[s]] IN
  /\ InStep(s, "none")
  /\ c # NoCred
  /\ step' = [step EXCEPT ![s] = [pc |-> "test", ccache |-> c, cred |-> NoCred,
                                  due |-> now + Work]]
  /\ given' = [given EXCEPT ![s] = c.end - now]
  /\ UNCHANGED <<now, adds, mishaps, store, renewer>>

StepTest(s) ==
  LET c == step[s].ccache IN
  /\ InStep(s, "test")
  /\ step' = [step EXCEPT ![s] =
       IF Hopeless(c, now) THEN [@ EXCEPT !.pc = "gone"]
       ELSE IF Due(c, now) THEN [@ EXCEPT !.pc = "get"]
       ELSE [@ EXCEPT !.pc = "sleep", !.due = now + Delay]]
  /\ StepOnly /\ Fine

\* auks_api_renew_auks_cred: whatever auksd has is taken for renewed.
StepGet(s) ==
  LET c == store[OwnerOf[s]] IN
  /\ InStep(s, "get")
  /\ step' = [step EXCEPT ![s] =
       IF c # NoCred THEN [@ EXCEPT !.pc = "put", !.cred = c] ELSE [@ EXCEPT !.pc = "kdc"]]
  /\ StepOnly /\ Fine

StepGetFails(s) ==
  /\ InStep(s, "get")
  /\ Mishap("auksd")
  /\ step' = [step EXCEPT ![s].pc = "kdc"]
  /\ StepOnly

StepKdc(s) ==
  LET c == step[s].ccache IN
  /\ InStep(s, "kdc")
  /\ \/ /\ Granted(c)
        /\ step' = [step EXCEPT ![s].pc = "put", ![s].cred = Renewed(c, now)]
     \/ /\ Denied(c)
        /\ step' = [step EXCEPT ![s].pc = "gone"]
  /\ StepOnly

\* The cache is written, the helper script is run.
StepPut(s) ==
  /\ InStep(s, "put")
  /\ step' = [step EXCEPT ![s] =
       [pc |-> "sleep", ccache |-> step[s].cred, cred |-> NoCred, due |-> now + Delay]]
  /\ StepOnly /\ Fine

StepPutFails(s) ==
  /\ InStep(s, "put")
  /\ Mishap("store")
  /\ step' = [step EXCEPT ![s].pc = "gone"]
  /\ StepOnly

StepWake(s) ==
  /\ InStep(s, "sleep")
  /\ now >= step[s].due
  /\ step' = [step EXCEPT ![s].pc = "test", ![s].due = now + Work]
  /\ StepOnly /\ Fine

LoopStep(s) ==
  \/ StepTest(s) \/ StepGet(s) \/ StepGetFails(s) \/ StepKdc(s)
  \/ StepPut(s) \/ StepPutFails(s) \/ StepWake(s)

----------------------------------------------------------------------------

Overdue(p) == now >= p.due

Tick ==
  /\ now < MaxTime
  /\ InRenewer("exited") \/ ~Overdue(renewer)
  /\ \A s \in Steps : step[s].pc \in {"none", "gone"} \/ ~Overdue(step[s])
  /\ now' = now + 1
  /\ UNCHANGED <<adds, mishaps, store, renewer, step, given>>

RenewalNext ==
  \/ Tick
  \/ \E u \in Users : UserAdd(u) \/ UserRemove(u) \/ Clean(u)
  \/ \E exit \in BOOLEAN : Signal(exit)
  \/ RenewerStep
  \/ \E s \in Steps : StepStart(s) \/ LoopStep(s)

RenewalSpec == RenewalInit /\ [][RenewalNext]_renewalVars

----------------------------------------------------------------------------
(* Properties                                                              *)

Slot == Cred \cup {NoCred}

RenewerStates ==
  [pc : {"main", "loop", "dump", "next", "add", "end", "rest", "sleep", "exited"},
   todo : SUBSET (Users \X Cred), user : Users \cup {Never}, cred : Slot,
   since : Nat, due : Nat, eof : BOOLEAN, exit : BOOLEAN]

StepStates ==
  [pc : {"none", "test", "get", "kdc", "put", "sleep", "gone"},
   ccache : Slot, cred : Slot, due : Nat]

RenewerOK ==
  /\ renewer \in RenewerStates
  /\ InRenewer("add") => renewer.user \in Users /\ renewer.cred \in Cred

StepOK(s) ==
  /\ step[s] \in StepStates
  /\ ~InStep(s, "none") => step[s].ccache \in Cred
  /\ InStep(s, "put") => step[s].cred \in Cred

RenewalTypeOK ==
  /\ {now, adds, mishaps} \subseteq Nat
  /\ store \in [Users -> Slot]
  /\ RenewerOK
  /\ step \in [Steps -> StepStates] /\ \A s \in Steps : StepOK(s)
  /\ given \in [Users \cup Steps -> Int]

\* What the mechanism can still renew.
Extendable(c) ==
  c # NoCred /\ c.end - c.start > MinLife /\ c.end < c.till

\* auksd and the KDC answer, auksdrenewer is not told to stop or to reload,
\* and a stage takes no longer than the period.
Undisturbed == mishaps = 0 /\ Work <= Delay

RepoMargin == MinLife + 1 >= Delay + Work
Timely(u) == given[u] >= Delay + Work

\* auks.conf(5): every Delay seconds the credentials are checked, and those
\* that have no more than MinLifeTime left are renewed.  A credential of the
\* repository that can be renewed never expires there, whatever its age when
\* it was added and wherever the stages of auksdrenewer fall, if it had enough
\* left for the next stage to come to it and MinLifeTime covers a period.
RepoFresh ==
  Undisturbed /\ RepoMargin => \A u \in Users :
    Extendable(store[u]) /\ Timely(u) => now <= store[u].end

StepMargin == MinLife + 1 >= 2 * Delay + 3 * Work

\* Nor does the credential of a running step, although its loop takes from
\* auksd what auksdrenewer may not yet have renewed; with two tiers
\* MinLifeTime has to cover two periods.
StepFresh ==
  Undisturbed /\ StepMargin => \A s \in Steps :
    Extendable(step[s].ccache) /\ given[s] > MinLife =>
      now <= step[s].ccache.end
=============================================================================
