-------------------------------- MODULE Spank --------------------------------
(***************************************************************************)
(* A job step as Slurm runs it around a SPANK plugin of auks: the options  *)
(* and the environment at submission, the hooks in slurmstepd, the tasks,  *)
(* and the renewer, "auks -R loop", that the plugin starts.  SpankC and    *)
(* SpankRs are the two plugins: they extend this module with the hooks;    *)
(* MCSpank checks a node that has either.                                  *)
(*                                                                         *)
(* stage is the hook that Slurm calls next, at the place inside of it.     *)
(***************************************************************************)
EXTENDS Integers

CONSTANTS
  Plugins,     \* the plugins that the node may have: c, rs
  NTasks,      \* S_JOB_LOCAL_TASK_COUNT
  Confs,       \* the plugstack configurations of this instance
  Options,     \* what the user may give to --auks
  ShellEnvs,   \* what SLURM_SPANK_AUKS may be in the shell of the user
  FaultSets    \* the sets of things that may go wrong in one behaviour

Modes == {"disabled", "enabled", "done"}
Caches == {"user", "default", "unique"}
EnvValues == {"unset", "yes", "no", "done", "other"}

\* default, enforced, force_file_ccache, sync: plugstack.conf; allowed: the uid is
\* not below minimum_uid; required: the plugin is not optional.
Conf == [default : {"disabled", "enabled"}, enforced : BOOLEAN, fileCache : BOOLEAN,
         sync : BOOLEAN, allowed : BOOLEAN, required : BOOLEAN]

\* items: spank_get_item; privilege: setresuid and setresgid; cc: a new cache; kill:
\* a signal to the renewer; wait: waitpid for it, which is not a child of slurmstepd
\* when Slurm contains its plugins; abort: Slurm tears the step down before its tasks
\* have been reported.
FaultKinds == {"add", "items", "api", "get", "privilege", "cc", "store", "setenv",
               "helper", "fork", "kill", "wait", "destroy", "abort"}

ASSUME SpankAssumption ==
  /\ Plugins \subseteq {"c", "rs"}
  /\ NTasks \in Nat \ {0}
  /\ Confs \subseteq Conf
  /\ Options \subseteq {"none", "yes", "no", "done"}
  /\ ShellEnvs \subseteq EnvValues
  /\ FaultSets \subseteq SUBSET FaultKinds

VARIABLES
  plugin, conf, faults, option,
  shell,      \* whether the user has a credential where it submits
  repo,       \* whether auksd has one of the user
  env,        \* SLURM_SPANK_AUKS: of the submission, then of the job
  opt,        \* the mode that the option callback has set in this process
  stage, at,
  rc,         \* the status that the running hook is going to return
  euid,       \* of slurmstepd: root, user, or gid when only the group is changed
  caches,     \* absent, empty or full: the credential caches of the user on the node
  ccname,     \* KRB5CCNAME of the job: a cache, or none
  name,       \* null, valid or freed: the cache that the plugin remembers
  reused,     \* the cache of the job that the plugin found good, or none
  pid,        \* none, set, failed: the renewer that the plugin remembers
  renewer,    \* none, testing, fetched, gone
  rcache,     \* the cache that the renewer works on
  signal,     \* none, term, kill: pending for the renewer
  ended,      \* the tasks that have exited
  exited,     \* exited_tasks
  dirty,      \* history: a task wrote to a file system since the last sync
  synced,
  misused     \* history: a name that was freed has been used

jobVars == <<plugin, conf, faults, option, shell>>
submitVars == <<repo, env, opt>>
privVars == <<euid>>
cacheVars == <<caches, ccname, name, reused>>
renewerVars == <<pid, renewer, rcache, signal>>
taskVars == <<ended, exited, dirty, synced>>
spankVars == <<jobVars, submitVars, stage, at, rc, privVars, cacheVars, renewerVars, taskVars, misused>>

SpankTypeOK ==
  /\ plugin \in Plugins
  /\ conf \in Confs /\ faults \in FaultSets /\ option \in Options
  /\ shell \in BOOLEAN /\ repo \in BOOLEAN /\ misused \in BOOLEAN
  /\ dirty \in BOOLEAN /\ synced \in BOOLEAN
  /\ env \in EnvValues /\ opt \in Modes \cup {"none"}
  /\ stage \in {"options", "post_opt", "launch", "init", "remote_opt", "user_init", "tasks", "exit", "over"}
  /\ at \in {"idle", "api", "get", "drop", "existing", "new", "store", "publish", "helper",
             "out_err", "out_cred", "wait", "poll", "destroy"}
  /\ rc \in {"ok", "error"}
  /\ euid \in {"root", "gid", "user"}
  /\ caches \in [Caches -> {"absent", "empty", "full"}]
  /\ ccname \in Caches \cup {"none"} /\ reused \in Caches \cup {"none"}
  /\ name \in {"null", "valid", "freed"}
  /\ pid \in {"none", "set", "failed"}
  /\ renewer \in {"none", "testing", "fetched", "gone"} /\ rcache \in Caches
  /\ signal \in {"none", "term", "kill"}
  /\ ended \in 0 .. NTasks /\ exited \in 0 .. NTasks

\* The job may bring a KRB5CCNAME along, whose cache may exist on the node; the
\* default cache of the user may exist there too.
SpankInit ==
  /\ plugin \in Plugins
  /\ conf \in Confs /\ faults \in FaultSets /\ option \in Options
  /\ shell \in BOOLEAN /\ repo \in BOOLEAN
  /\ env \in ShellEnvs /\ opt = "none"
  /\ stage = "options" /\ at = "idle" /\ rc = "ok" /\ euid = "root"
  /\ \E u, d \in {"absent", "full"} :
       caches = [user |-> u, default |-> d, unique |-> "absent"]
  /\ ccname \in {"none", "user"} /\ name = "null" /\ reused = "none"
  /\ pid = "none" /\ renewer = "none" /\ rcache = "default" /\ signal = "none"
  /\ ended = 0 /\ exited = 0 /\ dirty = FALSE /\ synced = FALSE /\ misused = FALSE

MayFail(f) == f \in faults

\* A store writes ticket after ticket, the TGT first: what it leaves when it fails.
PartlyStored == {[caches EXCEPT !["unique"] = c] : c \in {"empty", "full"}}

-----------------------------------------------------------------------------
(* Slurm. *)

\* A hook starts at, and runs on from one place to another.
Starts(s) == stage = s /\ at = "idle"
Goto(from, to) == at = from /\ at' = to /\ UNCHANGED stage

\* The hook returns, and Slurm goes on to stage next unless the plugin is required
\* and failed: the submission then ends, the step is torn down.
Return(next, status) ==
  /\ at' = "idle" /\ rc' = "ok"
  /\ stage' = IF status = "error" /\ conf.required
              THEN IF stage \in {"options", "post_opt", "exit"} THEN "over" ELSE "exit"
              ELSE next

\* slurmstepd starts on the node, another process: SLURM_SPANK_AUKS comes along, as
\* every SLURM_ variable does, and the options are given later.
Launch ==
  /\ Starts("launch")
  /\ stage' = "init"
  /\ opt' = "none"
  /\ UNCHANGED <<jobVars, repo, env, at, rc, privVars, cacheVars, renewerVars, taskVars, misused>>

\* A task writes to a file system.
TaskWrites ==
  /\ stage = "tasks" /\ ended < NTasks
  /\ dirty' = TRUE
  /\ UNCHANGED <<jobVars, submitVars, stage, at, rc, privVars, cacheVars, renewerVars, ended, exited, synced, misused>>

\* The step is torn down while some of its tasks have not been reported.
Abort ==
  /\ MayFail("abort") /\ Starts("tasks")
  /\ stage' = "exit"
  /\ UNCHANGED <<jobVars, submitVars, at, rc, privVars, cacheVars, renewerVars, taskVars, misused>>

Slurm == Launch \/ TaskWrites \/ Abort

-----------------------------------------------------------------------------
(* The renewer, auks_api_renew_cred in loop mode: it looks at its cache,   *)
(* fetches the credential again and stores it, see Renewal.                *)

Alive == renewer \in {"testing", "fetched"}

RenewerTest ==
  /\ renewer = "testing"
  /\ renewer' = IF caches[rcache] = "full" THEN "fetched" ELSE "gone"
  /\ UNCHANGED <<jobVars, submitVars, stage, at, rc, privVars, cacheVars, pid, rcache, signal, taskVars, misused>>

RenewerStore ==
  /\ renewer = "fetched"
  /\ caches' = [caches EXCEPT ![rcache] = "full"]
  /\ renewer' = "testing"
  /\ UNCHANGED <<jobVars, submitVars, stage, at, rc, privVars, ccname, name, reused, pid, rcache, signal, taskVars, misused>>

\* A signal, or an error of the loop, ends it.
RenewerDies ==
  /\ Alive
  /\ renewer' = "gone"
  /\ UNCHANGED <<jobVars, submitVars, stage, at, rc, privVars, cacheVars, pid, rcache, signal, taskVars, misused>>

Renewer == RenewerTest \/ RenewerStore \/ RenewerDies

-----------------------------------------------------------------------------
(* Properties. *)

\* The cache that a task of the job uses.
JobCache == IF ccname = "none" THEN "default" ELSE ccname

\* What --auks=no asks for: the step does not get the credential of auksd
\* (auks.so(8): "the plugin is active unless users explicitly ask not to use it").
\* The C plugin decides before the option has come to the node.
Honoured == (plugin = "rs" /\ option = "no") => ccname # "unique"

\* Between two hooks slurmstepd is privileged again, whatever failed in the hook.
PrivilegesRestored == at = "idle" => euid = "root"

\* What the removal needs: the plugin becomes the user, destroys the cache, is told of
\* every task, and knows that the renewer, which would store again, is gone.  A cache
\* that could be filled in part only is unlinked when it is a file.  The Rust plugin
\* forgets its cache when the helper, or the setenv before it, fails, and its renewer
\* when a signal does.
Removable ==
  /\ faults \cap ({"privilege", "items", "destroy", "abort", "wait"}
                   \cup IF plugin = "rs" THEN {"helper", "setenv", "kill"} ELSE {}) = {}
  /\ "store" \in faults => conf.fileCache

\* When the step is over, no credential is left in the cache that was made for it,
\* with the exceptions of Removable.
NothingLeftBehind == (stage = "over" /\ Removable) => caches["unique"] # "full"

\* The name of a cache is not used once it has been freed, unless a store has failed
\* in the C plugin, which then keeps it ("only process if a cred file was defined in a
\* previous call").
NameIsDefined == misused => (plugin = "c" /\ "store" \in faults)

\* The renewer of a step works on the cache that its tasks use, when the plugin has
\* found or made one.  The C plugin does not name to its renewer a cache that it has
\* found, nor the Rust plugin one that it has made when the helper failed.
RenewsCacheOfJob ==
  (Alive /\ stage = "tasks" /\ IF plugin = "rs"
                                THEN (ccname = "unique" /\ "helper" \notin faults) \/ reused # "none"
                                ELSE ccname = "unique")
    => rcache = JobCache

\* With sync=, what the tasks wrote is flushed before the renewer is stopped and
\* before the credential is removed: there may be no ticket left to flush it with.
\* (The comment of _sync_fs.)
FlushedFirst ==
  [][conf.sync /\ ((signal = "none" /\ signal' = "term") \/ (at = "destroy" /\ at' # at))
       => ~dirty']_spankVars

\* A renewer that nobody has seen die: the C plugin ignores the status of waitpid, the
\* Rust plugin gives up with the first call that fails.
Unconfirmed ==
  \/ plugin = "rs" /\ MayFail("kill")
  \/ MayFail("wait") /\ (signal # "none" \/ MayFail("kill"))

\* No renewer is at work on the credential of the step when it is removed, unless
\* the plugin was not told of every task, could not become the user, or could not wait
\* for a renewer that it has signalled (auks.so(8): "launches a credential renewer
\* that is killed at the end of the step, prior credential removal").
RenewerFirst ==
  [][(at = "destroy" /\ at' # at /\ faults \cap {"items", "privilege", "abort"} = {})
       => ~Alive \/ Unconfirmed]_spankVars

\* Once the last task has been reported, or the step is torn down, the hooks come to
\* an end, unless the C plugin waits for a renewer that it could not signal.
StepEnds ==
  (ended = NTasks \/ stage = "exit") ~>
    (stage = "over" \/ (plugin = "c" /\ MayFail("kill") /\ at = "wait" /\ signal = "none"))
=============================================================================
