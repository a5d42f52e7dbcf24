------------------------------- MODULE SpankC -------------------------------
(***************************************************************************)
(* The hooks of slurm-spank-auks.c.  name is auks_credcache, pid is        *)
(* renewer_pid, opt overrides the default= that auks_mode starts from.     *)
(***************************************************************************)
EXTENDS Spank

\* _spank_auks_get_current_mode: the environment first.  On the node a value that
\* does not fit into five characters counts as unset.
Mode(remote) ==
  LET static == IF opt = "none" THEN conf.default ELSE opt
  IN  CASE ~conf.allowed -> "disabled"
        [] conf.allowed /\ (env = "unset" \/ (remote /\ env = "other")) -> static
        [] conf.allowed /\ env = "yes" -> "enabled"
        [] conf.allowed /\ env = "done" -> "done"
        [] OTHER -> "disabled"

\* setenv(3) without overwriting.
SetIfUnset(v) == env' = IF env = "unset" THEN v ELSE env

-----------------------------------------------------------------------------
(* The submission: srun, sbatch, salloc. *)

\* _auks_opt_process, called when the option is given; only done is exported.
OptionMode == CASE option = "yes" -> "enabled" [] option = "no" -> "disabled" [] OTHER -> "done"

OptProcess ==
  /\ Starts("options")
  /\ IF option = "none" THEN UNCHANGED <<opt, env>>
     ELSE opt' = OptionMode /\ IF option = "done" THEN SetIfUnset("done") ELSE UNCHANGED env
  /\ Return("post_opt", "ok")
  /\ UNCHANGED <<jobVars, repo, privVars, cacheVars, renewerVars, taskVars, misused>>

\* spank_auks_local_user_init: auks_api_add_cred and what is made of its status.
LocalUserInit ==
  /\ Starts("post_opt")
  /\ \/ Mode(FALSE) # "enabled" /\ Return("launch", "ok") /\ UNCHANGED <<repo, env>>
     \/ /\ Mode(FALSE) = "enabled" /\ MayFail("add")
        /\ Return("launch", "error") /\ UNCHANGED <<repo, env>>
     \/ /\ Mode(FALSE) = "enabled" /\ shell
        /\ repo' = TRUE /\ SetIfUnset("done") /\ Return("launch", "ok")
     \/ /\ Mode(FALSE) = "enabled" /\ ~shell /\ UNCHANGED repo
        /\ IF conf.enforced THEN SetIfUnset("done") /\ Return("launch", "error")
           ELSE SetIfUnset("no") /\ Return("launch", "ok")
  /\ UNCHANGED <<jobVars, opt, privVars, cacheVars, renewerVars, taskVars, misused>>

-----------------------------------------------------------------------------
(* slurm_spank_init in slurmstepd: spank_auks_remote_init. *)

RemoteInit ==
  /\ Starts("init")
  /\ \/ Mode(TRUE) = "disabled" /\ Return("remote_opt", "ok") /\ UNCHANGED name
     \/ /\ Mode(TRUE) # "disabled" /\ MayFail("items")
        /\ name' = "null" /\ Return("remote_opt", "error")
     \/ /\ Mode(TRUE) # "disabled"
        /\ name' = "null" /\ at' = "api" /\ UNCHANGED <<stage, rc>>
  /\ UNCHANGED <<jobVars, submitVars, privVars, caches, ccname, reused, renewerVars, taskVars, misused>>

ApiInit ==
  /\ \/ Goto("api", "get") /\ UNCHANGED rc
     \/ at = "api" /\ MayFail("api") /\ Return("remote_opt", "error")
  /\ UNCHANGED <<jobVars, submitVars, privVars, cacheVars, renewerVars, taskVars, misused>>

\* auks_api_get_auks_cred.
GetCred ==
  /\ \/ repo /\ Goto("get", "drop") /\ UNCHANGED rc
     \/ (MayFail("get") \/ ~repo) /\ at = "get" /\ Return("remote_opt", "error")
  /\ UNCHANGED <<jobVars, submitVars, privVars, cacheVars, renewerVars, taskVars, misused>>

\* _setegid and _seteuid: a failure ends the hook with the status of the request
\* before, success.
DropPrivileges ==
  /\ \/ Goto("drop", "existing") /\ euid' = "user"
     \/ MayFail("privilege") /\ Goto("drop", "out_cred") /\ euid' \in {"root", "gid"}
  /\ UNCHANGED <<jobVars, submitVars, rc, cacheVars, renewerVars, taskVars, misused>>

\* auks_cred_extract of KRB5CCNAME, or of the default cache: a good one is left alone.
CheckExisting ==
  /\ IF caches[JobCache] = "full" THEN Goto("existing", "out_cred") /\ reused' = JobCache
     ELSE Goto("existing", "new") /\ UNCHANGED reused
  /\ UNCHANGED <<jobVars, submitVars, rc, privVars, caches, ccname, name, renewerVars, taskVars, misused>>

\* Mutant: remembers the name before the cache exists.
NewCacheNamed ==
  /\ \/ /\ Goto("new", "store")
        /\ caches' = [caches EXCEPT !["unique"] = "empty"] /\ name' = "valid"
        /\ UNCHANGED rc
     \/ /\ MayFail("cc") /\ Goto("new", "out_err") /\ name' = "valid"
        /\ rc' = "error" /\ UNCHANGED caches
  /\ UNCHANGED <<jobVars, submitVars, privVars, ccname, reused, renewerVars, taskVars, misused>>

\* auks_krb5_cc_new_unique, or mkstemp and strdup.
NewCache ==
  /\ \/ /\ Goto("new", "store")
        /\ caches' = [caches EXCEPT !["unique"] = "empty"] /\ name' = "valid"
        /\ UNCHANGED rc
     \/ /\ MayFail("cc") /\ Goto("new", IF conf.fileCache THEN "out_cred" ELSE "out_err")
        /\ rc' = "error" /\ UNCHANGED <<caches, name>>
  /\ UNCHANGED <<jobVars, submitVars, privVars, ccname, reused, renewerVars, taskVars, misused>>

\* auks_cred_store, ticket by ticket.
StoreCred ==
  /\ \/ /\ Goto("store", "publish")
        /\ caches' = [caches EXCEPT !["unique"] = "full"] /\ UNCHANGED rc
     \/ MayFail("store") /\ Goto("store", "out_err") /\ rc' = "error" /\ caches' \in PartlyStored
  /\ UNCHANGED <<jobVars, submitVars, privVars, ccname, name, reused, renewerVars, taskVars, misused>>

\* spank_setenv, whose failure is returned, and the helper, whose failure is not.
Publish ==
  /\ Goto("publish", "out_cred")
  /\ \/ ccname' = "unique" /\ UNCHANGED rc
     \/ MayFail("setenv") /\ rc' = "error" /\ UNCHANGED ccname
  /\ UNCHANGED <<jobVars, submitVars, privVars, caches, name, reused, renewerVars, taskVars, misused>>

\* out_err: a file is unlinked, a cache of another type is left as the store has left
\* it; the name is freed, not forgotten.
OutErr ==
  /\ Goto("out_err", "out_cred")
  /\ caches' = IF conf.fileCache THEN [caches EXCEPT !["unique"] = "absent"] ELSE caches
  /\ name' = IF name = "valid" THEN "freed" ELSE name
  /\ UNCHANGED <<jobVars, submitVars, rc, privVars, ccname, reused, renewerVars, taskVars, misused>>

\* out_cred and unload.
\* Mutant: restores after a success only.
OutCredOnSuccess ==
  /\ at = "out_cred"
  /\ euid' = (IF rc = "ok" THEN "root" ELSE euid) /\ Return("remote_opt", rc)
  /\ UNCHANGED <<jobVars, submitVars, cacheVars, renewerVars, taskVars, misused>>

OutCred ==
  /\ at = "out_cred"
  /\ euid' = "root" /\ Return("remote_opt", rc)
  /\ UNCHANGED <<jobVars, submitVars, cacheVars, renewerVars, taskVars, misused>>

-----------------------------------------------------------------------------
(* The other hooks in slurmstepd. *)

\* The option callback, after slurm_spank_init.
RemoteOption ==
  /\ Starts("remote_opt")
  /\ opt' = IF option = "none" THEN opt ELSE OptionMode
  /\ Return("user_init", "ok")
  /\ UNCHANGED <<jobVars, repo, env, privVars, cacheVars, renewerVars, taskVars, misused>>

\* slurm_spank_user_init: KRB5CCNAME of the renewer is auks_credcache, if there is one.
UserInit ==
  /\ Starts("user_init") /\ Return("tasks", "ok")
  /\ \/ Mode(TRUE) = "disabled" /\ UNCHANGED <<renewerVars, misused>>
     \/ /\ Mode(TRUE) # "disabled" /\ MayFail("fork")
        /\ pid' = "failed" /\ UNCHANGED <<renewer, rcache, signal, misused>>
     \/ /\ Mode(TRUE) # "disabled"
        /\ pid' = "set" /\ renewer' = "testing" /\ UNCHANGED signal
        /\ rcache' = IF name = "null" THEN "default" ELSE "unique"
        /\ misused' = (misused \/ name = "freed")
  /\ UNCHANGED <<jobVars, submitVars, privVars, cacheVars, taskVars>>

\* Mutant: remembers the call it did not make.
SyncFsSkipped ==
  /\ synced' = (synced \/ conf.sync)
  /\ UNCHANGED dirty

\* _sync_fs: once.
SyncFs ==
  /\ synced' = (synced \/ conf.sync)
  /\ dirty' = (dirty /\ (synced \/ ~conf.sync))

NextAfterTask == IF ended' = NTasks THEN "exit" ELSE "tasks"

\* slurm_spank_task_exit of a task that does not stop the renewer.
TaskExit ==
  /\ Starts("tasks") /\ ended < NTasks /\ ended' = ended + 1
  /\ \/ /\ MayFail("items")
        /\ Return(NextAfterTask, "error") /\ UNCHANGED exited
     \/ /\ ~(pid = "set" /\ exited + 1 = NTasks)
        /\ exited' = exited + 1 /\ Return(NextAfterTask, "ok")
     \/ /\ pid = "set" /\ exited + 1 = NTasks /\ MayFail("privilege")
        /\ exited' = exited + 1 /\ Return(NextAfterTask, "error")
  /\ UNCHANGED <<jobVars, submitVars, privVars, cacheVars, renewerVars, dirty, synced, misused>>

\* Mutant: waits without a signal.
StopRenewerWaits ==
  /\ Starts("tasks") /\ ended < NTasks /\ ended' = ended + 1
  /\ pid = "set" /\ exited + 1 = NTasks /\ exited' = exited + 1
  /\ euid' = "user" /\ SyncFs
  /\ at' = "wait" /\ UNCHANGED <<stage, rc>>
  /\ UNCHANGED <<jobVars, submitVars, cacheVars, renewerVars, misused>>

\* The last one: sync, kill, whose status is ignored, and wait without a limit.
StopRenewer ==
  /\ Starts("tasks") /\ ended < NTasks /\ ended' = ended + 1
  /\ pid = "set" /\ exited + 1 = NTasks /\ exited' = exited + 1
  /\ euid' = "user" /\ SyncFs
  /\ signal' = "term" \/ (MayFail("kill") /\ UNCHANGED signal)
  /\ at' = "wait" /\ UNCHANGED <<stage, rc>>
  /\ UNCHANGED <<jobVars, submitVars, cacheVars, pid, renewer, rcache, misused>>

\* Mutant: does not wait.
WaitRenewerNot ==
  /\ at = "wait"
  /\ pid' = "none" /\ euid' = "root"
  /\ Return("exit", "ok")
  /\ UNCHANGED <<jobVars, submitVars, cacheVars, renewer, rcache, signal, taskVars, misused>>

\* waitpid, whose status is ignored: a call that fails ends the wait as well.
WaitRenewer ==
  /\ at = "wait" /\ (renewer = "gone" \/ MayFail("wait"))
  /\ pid' = "none" /\ euid' = "root"
  /\ Return("exit", "ok")
  /\ UNCHANGED <<jobVars, submitVars, cacheVars, renewer, rcache, signal, taskVars, misused>>

\* spank_auks_remote_exit, up to the removal: its failures only free the name.
RemoteExit ==
  /\ Starts("exit")
  /\ \/ /\ name = "null" /\ Return("over", "ok")
        /\ UNCHANGED <<name, euid, dirty, synced, misused>>
     \/ /\ name # "null" /\ (MayFail("items") \/ MayFail("privilege"))
        /\ misused' = (misused \/ name = "freed") /\ name' = "null"
        /\ Return("over", "error") /\ UNCHANGED <<euid, dirty, synced>>
     \/ /\ name # "null"
        /\ euid' = "user" /\ SyncFs
        /\ at' = "destroy" /\ UNCHANGED <<stage, rc, name, misused>>
  /\ UNCHANGED <<jobVars, submitVars, caches, ccname, reused, renewerVars, ended, exited>>

\* Mutant: removes files only.
DestroyCacheFile ==
  /\ at = "destroy"
  /\ caches' = [caches EXCEPT !["unique"] = IF conf.fileCache THEN "absent" ELSE @]
  /\ misused' = (misused \/ name = "freed") /\ name' = "null"
  /\ euid' = "root" /\ Return("over", "ok")
  /\ UNCHANGED <<jobVars, submitVars, ccname, reused, renewerVars, taskVars>>

\* auks_krb5_cc_destroy: of the cache, or of whatever a freed name says.
DestroyCache ==
  /\ at = "destroy"
  /\ \/ caches' = [caches EXCEPT !["unique"] = "absent"]
     \/ (MayFail("destroy") \/ name = "freed") /\ UNCHANGED caches
  /\ misused' = (misused \/ name = "freed") /\ name' = "null"
  /\ euid' = "root" /\ Return("over", "ok")
  /\ UNCHANGED <<jobVars, submitVars, ccname, reused, renewerVars, taskVars>>

-----------------------------------------------------------------------------
Submission == OptProcess \/ LocalUserInit
RemoteInitSteps ==
  \/ RemoteInit \/ ApiInit \/ GetCred \/ DropPrivileges \/ CheckExisting
  \/ NewCache \/ StoreCred \/ Publish \/ OutErr \/ OutCred
Teardown == TaskExit \/ StopRenewer \/ WaitRenewer \/ RemoteExit \/ DestroyCache

SpankCNext ==
  Submission \/ RemoteInitSteps \/ RemoteOption \/ UserInit \/ Teardown \/ Slurm \/ Renewer

\* slurmstepd runs; a renewer that has got a signal dies of it: "auks -R loop" keeps
\* the default action.
SpankCFairly == RemoteInitSteps \/ RemoteOption \/ UserInit \/ WaitRenewer \/ RemoteExit \/ DestroyCache
SpankCKilled == signal # "none" /\ RenewerDies
=============================================================================
