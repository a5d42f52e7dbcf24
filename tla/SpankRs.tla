------------------------------ MODULE SpankRs ------------------------------
(***************************************************************************)
(* The hooks of rust/auks-spank.  name is state.credcache, reused is       *)
(* state.renewer_ccache, pid is state.renewer_pid, opt is OPTION_MODE, and *)
(* drop ... out_cred is the closure that as_user runs.                     *)
(***************************************************************************)
EXTENDS Spank

\* mode::decide_for_spank: the option, the environment, then the configuration.
Mode ==
  CASE ~conf.allowed -> "disabled"
    [] conf.allowed /\ opt # "none" -> opt
    [] conf.allowed /\ opt = "none" /\ env = "unset" -> conf.default
    [] conf.allowed /\ opt = "none" /\ env = "yes" -> "enabled"
    [] conf.allowed /\ opt = "none" /\ env = "done" -> "done"
    [] OTHER -> "disabled"

SetIfUnset(v) == env' = IF env = "unset" THEN v ELSE env

OptionMode == CASE option = "yes" -> "enabled" [] option = "no" -> "disabled" [] OTHER -> "done"

\* Mutant: does not replace what the shell has exported.
OptionCallbackKeeps(local) ==
  IF option = "none" THEN UNCHANGED <<opt, env>>
  ELSE opt' = OptionMode /\ IF local THEN SetIfUnset(option) ELSE UNCHANGED env

\* option_callback; at submission the value is exported over what the shell had.
OptionCallback(local) ==
  IF option = "none" THEN UNCHANGED <<opt, env>>
  ELSE opt' = OptionMode /\ env' = IF local THEN option ELSE env

-----------------------------------------------------------------------------
(* The submission. *)

SubmitOption ==
  /\ Starts("options")
  /\ OptionCallback(TRUE) /\ Return("post_opt", "ok")
  /\ UNCHANGED <<jobVars, repo, privVars, cacheVars, renewerVars, taskVars, misused>>

LocalUserInit ==
  /\ Starts("post_opt")
  /\ \/ Mode # "enabled" /\ Return("launch", "ok") /\ UNCHANGED <<repo, env>>
     \/ /\ Mode = "enabled" /\ MayFail("add")
        /\ Return("launch", "error") /\ UNCHANGED <<repo, env>>
     \/ /\ Mode = "enabled" /\ shell
        /\ repo' = TRUE /\ SetIfUnset("done") /\ Return("launch", "ok")
     \/ /\ Mode = "enabled" /\ ~shell /\ UNCHANGED repo
        /\ IF conf.enforced THEN SetIfUnset("done") /\ Return("launch", "error")
           ELSE SetIfUnset("no") /\ Return("launch", "ok")
  /\ UNCHANGED <<jobVars, opt, privVars, cacheVars, renewerVars, taskVars, misused>>

-----------------------------------------------------------------------------
(* slurm_spank_init in slurmstepd: init and remote_init. *)

\* update_config forgets what an earlier step has left.
RemoteInit ==
  /\ Starts("init")
  /\ name' = "null" /\ reused' = "none" /\ pid' = "none" /\ exited' = 0 /\ synced' = FALSE
  /\ \/ Mode = "disabled" /\ Return("remote_opt", "ok")
     \/ Mode # "disabled" /\ MayFail("items") /\ Return("remote_opt", "error")
     \/ Mode # "disabled" /\ at' = "api" /\ UNCHANGED <<stage, rc>>
  /\ UNCHANGED <<jobVars, submitVars, privVars, caches, ccname, renewer, rcache, signal, ended, dirty, misused>>

ConfiguredClient ==
  /\ \/ Goto("api", "get") /\ UNCHANGED rc
     \/ at = "api" /\ MayFail("api") /\ Return("remote_opt", "error")
  /\ UNCHANGED <<jobVars, submitVars, privVars, cacheVars, renewerVars, taskVars, misused>>

GetCred ==
  /\ \/ repo /\ Goto("get", "drop") /\ UNCHANGED rc
     \/ (MayFail("get") \/ ~repo) /\ at = "get" /\ Return("remote_opt", "error")
  /\ UNCHANGED <<jobVars, submitVars, privVars, cacheVars, renewerVars, taskVars, misused>>

\* as_user: the group, then the user; a failure of the second restores the first.
DropPrivileges ==
  /\ \/ Goto("drop", "existing") /\ euid' = "user" /\ UNCHANGED rc
     \/ /\ MayFail("privilege") /\ Goto("drop", "out_cred")
        /\ euid' \in {"root", "gid"} /\ rc' = "error"
  /\ UNCHANGED <<jobVars, submitVars, cacheVars, renewerVars, taskVars, misused>>

\* Only a cache that KRB5CCNAME of the job names is looked at.
CheckExisting ==
  /\ IF ccname # "none" /\ caches[JobCache] = "full"
     THEN Goto("existing", "out_cred") /\ reused' = ccname
     ELSE Goto("existing", "new") /\ UNCHANGED reused
  /\ UNCHANGED <<jobVars, submitVars, rc, privVars, caches, ccname, name, renewerVars, taskVars, misused>>

\* make_file_ccache or new_unique_ccache.
NewCache ==
  /\ \/ /\ Goto("new", "store") /\ UNCHANGED rc
        /\ caches' = [caches EXCEPT !["unique"] = "empty"]
     \/ MayFail("cc") /\ Goto("new", "out_cred") /\ rc' = "error" /\ UNCHANGED caches
  /\ UNCHANGED <<jobVars, submitVars, privVars, ccname, name, reused, renewerVars, taskVars, misused>>

\* cred_blob::store, ticket by ticket; a file that could not be filled is unlinked, a
\* cache of another type is left.
StoreCred ==
  /\ \/ /\ Goto("store", "publish") /\ UNCHANGED rc
        /\ caches' = [caches EXCEPT !["unique"] = "full"]
     \/ /\ MayFail("store") /\ Goto("store", "out_cred") /\ rc' = "error"
        /\ IF conf.fileCache THEN caches' = [caches EXCEPT !["unique"] = "absent"]
           ELSE caches' \in PartlyStored
  /\ UNCHANGED <<jobVars, submitVars, privVars, ccname, name, reused, renewerVars, taskVars, misused>>

Publish ==
  /\ \/ Goto("publish", "helper") /\ ccname' = "unique" /\ UNCHANGED rc
     \/ MayFail("setenv") /\ Goto("publish", "out_cred") /\ rc' = "error" /\ UNCHANGED ccname
  /\ UNCHANGED <<jobVars, submitVars, privVars, caches, name, reused, renewerVars, taskVars, misused>>

\* run_helper, whose status counts.
RunHelper ==
  /\ Goto("helper", "out_cred")
  /\ \/ UNCHANGED rc
     \/ MayFail("helper") /\ rc' = "error"
  /\ UNCHANGED <<jobVars, submitVars, privVars, cacheVars, renewerVars, taskVars, misused>>

\* as_user restores; the new cache is remembered when everything went well.
OutCred ==
  /\ at = "out_cred"
  /\ euid' = "root" /\ Return("remote_opt", rc)
  /\ name' = IF rc = "ok" /\ reused = "none" THEN "valid" ELSE name
  /\ UNCHANGED <<jobVars, submitVars, caches, ccname, reused, renewerVars, taskVars, misused>>

-----------------------------------------------------------------------------
(* The other hooks in slurmstepd. *)

RemoteOption ==
  /\ Starts("remote_opt")
  /\ OptionCallback(FALSE) /\ Return("user_init", "ok")
  /\ UNCHANGED <<jobVars, repo, privVars, cacheVars, renewerVars, taskVars, misused>>

\* Mutant: forgets the cache that was found.
RenewerInitNewOnly ==
  /\ Starts("user_init")
  /\ \/ Mode = "disabled" /\ Return("tasks", "ok") /\ UNCHANGED renewerVars
     \/ Mode # "disabled" /\ MayFail("fork") /\ Return("tasks", "error") /\ UNCHANGED renewerVars
     \/ /\ Mode # "disabled" /\ Return("tasks", "ok")
        /\ pid' = "set" /\ renewer' = "testing" /\ UNCHANGED signal
        /\ rcache' = IF name = "valid" THEN "unique" ELSE "default"
  /\ UNCHANGED <<jobVars, submitVars, privVars, cacheVars, taskVars, misused>>

\* renewer_init: the cache that was found good, or the new one, or the default one.
\* A child that cannot start writes why to the pipe and is waited for.
RenewerInit ==
  /\ Starts("user_init")
  /\ \/ Mode = "disabled" /\ Return("tasks", "ok") /\ UNCHANGED renewerVars
     \/ Mode # "disabled" /\ MayFail("fork") /\ Return("tasks", "error") /\ UNCHANGED renewerVars
     \/ /\ Mode # "disabled" /\ Return("tasks", "ok")
        /\ pid' = "set" /\ renewer' = "testing" /\ UNCHANGED signal
        /\ rcache' = CASE reused # "none" -> reused
                       [] reused = "none" /\ name = "valid" -> "unique"
                       [] OTHER -> "default"
  /\ UNCHANGED <<jobVars, submitVars, privVars, cacheVars, taskVars, misused>>

\* sync_files: once.
SyncFiles ==
  /\ synced' = TRUE
  /\ dirty' = (dirty /\ (synced \/ ~conf.sync))

NextAfterTask == IF ended' = NTasks THEN "exit" ELSE "tasks"

\* task_exit of a task that does not stop the renewer.
TaskExit ==
  /\ Starts("tasks") /\ ended < NTasks /\ ended' = ended + 1
  /\ \/ MayFail("items") /\ Return(NextAfterTask, "error") /\ UNCHANGED <<exited, pid>>
     \/ /\ ~(pid = "set" /\ exited + 1 = NTasks)
        /\ exited' = exited + 1 /\ Return(NextAfterTask, "ok") /\ UNCHANGED pid
     \/ /\ pid = "set" /\ exited + 1 = NTasks /\ MayFail("privilege")
        /\ exited' = exited + 1 /\ pid' = "none" /\ Return(NextAfterTask, "error")
  /\ UNCHANGED <<jobVars, submitVars, privVars, cacheVars, renewer, rcache, signal, dirty, synced, misused>>

\* The last one: sync, SIGTERM.
StopRenewer ==
  /\ Starts("tasks") /\ ended < NTasks /\ ended' = ended + 1
  /\ pid = "set" /\ exited + 1 = NTasks /\ exited' = exited + 1
  /\ euid' = "user" /\ SyncFiles
  /\ signal' = "term" \/ (MayFail("kill") /\ UNCHANGED signal)
  /\ at' = "poll" /\ UNCHANGED <<stage, rc>>
  /\ UNCHANGED <<jobVars, submitVars, cacheVars, pid, renewer, rcache, misused>>

\* The fifty polls of waitpid are over: SIGKILL, and wait.
KillRenewer ==
  /\ Goto("poll", "wait") /\ Alive /\ signal = "term"
  /\ signal' = "kill"
  /\ UNCHANGED <<jobVars, submitVars, rc, privVars, cacheVars, pid, renewer, rcache, taskVars, misused>>

\* The child has been waited for, as_user restores.
RenewerReaped ==
  /\ at \in {"poll", "wait"} /\ renewer = "gone" /\ signal # "none"
  /\ pid' = "none" /\ euid' = "root"
  /\ Return("exit", "ok")
  /\ UNCHANGED <<jobVars, submitVars, cacheVars, renewer, rcache, signal, taskVars, misused>>

\* A signal that was not sent, or a failing waitpid: as_user restores, and the renewer
\* is forgotten, be it alive or not.
StopFails ==
  /\ \/ at = "poll" /\ signal = "none"
     \/ at = "poll" /\ signal = "term" /\ Alive /\ MayFail("kill")
     \/ at \in {"poll", "wait"} /\ signal # "none" /\ MayFail("wait")
  /\ pid' = "none" /\ euid' = "root"
  /\ Return("exit", "error")
  /\ UNCHANGED <<jobVars, submitVars, cacheVars, renewer, rcache, signal, taskVars, misused>>

\* remote_exit, up to the removal.
RemoteExit ==
  /\ Starts("exit")
  /\ \/ name = "null" /\ Return("over", "ok") /\ UNCHANGED <<euid, dirty, synced>>
     \/ /\ name # "null" /\ (MayFail("items") \/ MayFail("privilege"))
        /\ Return("over", "error") /\ UNCHANGED <<euid, dirty, synced>>
     \/ /\ name # "null"
        /\ euid' = "user" /\ SyncFiles
        /\ at' = "destroy" /\ UNCHANGED <<stage, rc>>
  /\ UNCHANGED <<jobVars, submitVars, cacheVars, renewerVars, ended, exited, misused>>

DestroyCache ==
  /\ at = "destroy" /\ euid' = "root"
  /\ \/ /\ caches' = [caches EXCEPT !["unique"] = "absent"] /\ name' = "null"
        /\ Return("over", "ok")
     \/ MayFail("destroy") /\ Return("over", "error") /\ UNCHANGED <<caches, name>>
  /\ UNCHANGED <<jobVars, submitVars, ccname, reused, renewerVars, taskVars, misused>>

-----------------------------------------------------------------------------
Submission == SubmitOption \/ LocalUserInit
RemoteInitSteps ==
  \/ RemoteInit \/ ConfiguredClient \/ GetCred \/ DropPrivileges \/ CheckExisting
  \/ NewCache \/ StoreCred \/ Publish \/ RunHelper \/ OutCred
Teardown ==
  \/ TaskExit \/ StopRenewer \/ KillRenewer \/ RenewerReaped \/ StopFails
  \/ RemoteExit \/ DestroyCache

SpankRsNext ==
  Submission \/ RemoteInitSteps \/ RemoteOption \/ RenewerInit \/ Teardown \/ Slurm \/ Renewer

\* slurmstepd runs; only of SIGKILL is the renewer sure to die.
SpankRsFairly ==
  \/ RemoteInitSteps \/ RemoteOption \/ RenewerInit
  \/ KillRenewer \/ RenewerReaped \/ StopFails \/ RemoteExit \/ DestroyCache
SpankRsKilled == signal = "kill" /\ RenewerDies
=============================================================================
