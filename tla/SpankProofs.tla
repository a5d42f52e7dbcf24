----------------------------- MODULE SpankProofs -----------------------------
(***************************************************************************)
(* Theorems about a job step under either plugin (SpankNode), for any      *)
(* number of tasks, every configuration and any faults together, of which  *)
(* the run has one at a time.                                              *)
(***************************************************************************)
EXTENDS SpankNode, TLAPS

----------------------------------------------------------------------------
(* The invariant                                                           *)

JobOK ==
  /\ plugin \in Plugins
  /\ conf \in Confs /\ faults \in FaultSets /\ option \in Options
  /\ shell \in BOOLEAN /\ repo \in BOOLEAN /\ misused \in BOOLEAN
  /\ env \in EnvValues /\ opt \in Modes \cup {"none"}

StageOK ==
  /\ stage \in {"options", "post_opt", "launch", "init", "remote_opt", "user_init", "tasks", "exit", "over"}
  /\ at \in {"idle", "api", "get", "drop", "existing", "new", "store", "publish", "helper",
             "out_err", "out_cred", "wait", "poll", "destroy"}
  /\ rc \in {"ok", "error"} /\ euid \in {"root", "gid", "user"}

CachesOK ==
  /\ caches \in [Caches -> {"absent", "empty", "full"}]
  /\ ccname \in Caches \cup {"none"} /\ reused \in Caches \cup {"none"}
  /\ name \in {"null", "valid", "freed"}
  /\ pid \in {"none", "set", "failed"}
  /\ renewer \in {"none", "testing", "fetched", "gone"} /\ rcache \in Caches
  /\ signal \in {"none", "term", "kill"}

\* No task is counted that has not ended.
TasksOK ==
  /\ ended \in 0 .. NTasks /\ exited \in 0 .. NTasks /\ exited <= ended
  /\ dirty \in BOOLEAN /\ synced \in BOOLEAN

\* A place belongs to a hook, and a status to the way out of one.  Up to the change
\* of the user, and between the hooks, slurmstepd is root.
InitPlaces == {"api", "get", "drop", "existing", "new", "store", "publish", "helper",
               "out_err", "out_cred"}

Places ==
  /\ at \in InitPlaces => stage = "init"
  /\ at \in {"wait", "poll"} => stage = "tasks" /\ ended = NTasks
  /\ at = "destroy" => stage = "exit"
  /\ at \in {"idle", "api", "get", "drop"} => euid = "root"
  /\ rc = "error" => at \in {"out_cred", "out_err"}

\* Before there are tasks there is no renewer; before the new cache is made, the
\* plugin has no cache at all.
Before == stage \in {"options", "post_opt", "launch", "init", "remote_opt", "user_init"}

Unmade ==
  \/ stage \in {"options", "post_opt", "launch"}
  \/ stage = "init" /\ at \in {"idle", "api", "get", "drop", "existing"}

Beginnings ==
  /\ Before => /\ pid = "none" /\ renewer = "none" /\ ended = 0 /\ exited = 0
               /\ ~synced /\ ~dirty
  /\ Unmade => /\ name = "null" /\ reused = "none" /\ ccname # "unique"
               /\ caches["unique"] = "absent"

\* --auks=no comes to the node in the environment, and slurm_spank_init of the Rust
\* plugin does nothing.
Refusal ==
  (plugin = "rs" /\ option = "no") =>
    /\ stage = "options" \/ env = "no"
    /\ stage = "post_opt" => opt = "disabled"
    /\ stage = "init" => at = "idle" /\ opt = "none"
    /\ ccname # "unique"

\* A name is freed on the way out of a failed store only.
Freed ==
  /\ name = "freed" \/ misused => plugin = "c" /\ "store" \in faults
  /\ plugin = "rs" => at # "out_err"
  /\ plugin = "c" /\ at = "out_err" /\ name = "valid" => "store" \in faults
  /\ at = "new" => name = "null"

\* A new cache is made when none was found, and is named to the job last.
Making ==
  /\ at \in {"new", "store", "publish"} => reused = "none" /\ ccname # "unique"
  /\ at = "helper" => reused = "none"

\* The C plugin remembers the cache that the job has.
CNames ==
  plugin = "c" =>
    /\ at \in {"store", "publish"} => name = "valid"
    /\ ccname = "unique" => name # "null" \/ stage \in {"exit", "over"}
    /\ stage = "over" => name = "null"

\* The Rust plugin remembers the cache that it has found, and the one that it has
\* made as soon as the helper has succeeded.
RsNames ==
  plugin = "rs" =>
    /\ reused # "none" => ccname = reused
    /\ (ccname = "unique" /\ "helper" \notin faults) =>
         /\ reused = "none"
         /\ \/ name = "valid" \/ at = "helper" \/ (at = "out_cred" /\ rc = "ok")
            \/ stage \in {"exit", "over"}

\* The renewer works on what the plugin remembers.
RenewerNames ==
  (Alive /\ stage = "tasks") =>
    rcache = IF plugin = "c" THEN (IF name = "null" THEN "default" ELSE "unique")
             ELSE IF reused # "none" THEN reused
             ELSE IF name = "valid" THEN "unique" ELSE "default"

\* When the plugin hears of every task, the last one does not leave the renewer behind,
\* but for one that it could not signal or wait for.
Undisturbed == faults \cap {"items", "privilege", "abort"} = {}

Reaping ==
  /\ stage = "tasks" /\ at = "idle" => ended < NTasks
  /\ at \in {"wait", "poll"} => signal # "none" \/ "kill" \in faults
  /\ at = "poll" => plugin = "rs"
  /\ Undisturbed => /\ exited = ended
                    /\ Alive => (stage = "tasks" /\ pid = "set") \/ Unconfirmed

\* Who can still remove the credential in the new cache.
Holds ==
  /\ at \in {"new", "store"} => caches["unique"] # "full"
  /\ at = "out_err" => caches["unique"] # "full" \/ (name = "valid" /\ "store" \in faults)
  /\ Removable =>
      /\ caches["unique"] = "full" =>
           \/ name = "valid"
           \/ plugin = "rs" /\ at \in {"publish", "helper"}
           \/ plugin = "rs" /\ at = "out_cred" /\ rc = "ok" /\ reused = "none"
      /\ renewer = "fetched" /\ rcache = "unique" => name = "valid"
      /\ stage = "over" => name # "valid"

\* The one flush comes after the last write.
Flushing ==
  /\ stage = "tasks" /\ ended < NTasks => ~synced
  /\ conf.sync /\ synced => ~dirty
  /\ conf.sync /\ at = "destroy" => ~dirty

SpankInv ==
  /\ JobOK /\ StageOK /\ CachesOK /\ TasksOK
  /\ Places /\ Beginnings /\ Refusal /\ Freed /\ Making /\ CNames /\ RsNames
  /\ RenewerNames /\ Reaping /\ Holds /\ Flushing

----------------------------------------------------------------------------
(* The steps                                                               *)

\* The submission, with the C plugin.
LEMMA CSubmissionStep ==
  ASSUME SpankInv, plugin = "c", C!Submission
  PROVE  SpankInv'
<1> USE DEF C!jobVars, C!submitVars, C!privVars, C!cacheVars, C!renewerVars, C!taskVars,
  C!Starts, C!Goto, C!Return, C!MayFail, MayFail, Unconfirmed, Alive, C!OptProcess, C!OptionMode,
  C!SetIfUnset, C!LocalUserInit
<1>1. JobOK'
  BY DEF C!Submission, SpankInv, JobOK, Modes, EnvValues
<1>2. StageOK'
  BY DEF C!Submission, SpankInv, StageOK
<1>3. CachesOK'
  <2>1. CASE C!OptProcess
    BY <2>1 DEF SpankInv, CachesOK, Caches
  <2>2. CASE C!LocalUserInit
    BY <2>2 DEF SpankInv, CachesOK, Caches
  <2> QED
    BY <2>1, <2>2 DEF C!Submission
<1>4. TasksOK'
  BY SpankAssumption DEF C!Submission, SpankInv, TasksOK
<1>5. Places'
  BY SpankAssumption DEF C!Submission, SpankInv, Places, TasksOK, InitPlaces
<1>6. Beginnings'
  <2>1. CASE C!OptProcess
    BY <2>1 DEF SpankInv, Beginnings, Places, CachesOK, Before, Unmade, InitPlaces,
      Caches
  <2>2. CASE C!LocalUserInit
    BY <2>2 DEF SpankInv, Beginnings, Places, CachesOK, Before, Unmade, InitPlaces,
      Caches
  <2> QED
    BY <2>1, <2>2 DEF C!Submission
<1>7. Refusal'
  BY DEF C!Submission, SpankInv, Refusal, Places, InitPlaces
<1>8. Freed'
  <2>1. CASE C!OptProcess
    BY <2>1 DEF SpankInv, Freed, Beginnings, Places, Before, Unmade, InitPlaces
  <2>2. CASE C!LocalUserInit
    BY <2>2 DEF SpankInv, Freed, Beginnings, Places, Before, Unmade, InitPlaces
  <2> QED
    BY <2>1, <2>2 DEF C!Submission
<1>9. Making'
  BY DEF C!Submission, SpankInv, Making, Beginnings, Places, Before, Unmade, InitPlaces
<1>10. CNames'
  BY DEF C!Submission, SpankInv, CNames, Making, Beginnings, StageOK, Places, Before,
    Unmade, InitPlaces
<1>11. RsNames'
  BY DEF C!Submission, SpankInv, RsNames, Places, Making, Beginnings, StageOK, Freed,
    InitPlaces, Before, Unmade
<1>12. RenewerNames'
  BY DEF C!Submission, SpankInv, RenewerNames, Places, Beginnings, StageOK, CachesOK,
    InitPlaces, Before, Unmade, Caches
<1>13. Reaping'
  BY SpankAssumption DEF C!Submission, SpankInv, Reaping, Places, TasksOK, StageOK,
    Beginnings, Undisturbed, InitPlaces, Before, Unmade
<1>14. Holds'
  BY DEF C!Submission, SpankInv, Holds, CachesOK, Beginnings, Places, Making, CNames,
    Freed, RenewerNames, Reaping, Removable, Undisturbed, Caches, Before, Unmade,
    InitPlaces
<1>15. Flushing'
  <2>1. CASE C!OptProcess
    BY <2>1 DEF SpankInv, Flushing, Beginnings, TasksOK, Places, StageOK, Before,
      Unmade, InitPlaces
  <2>2. CASE C!LocalUserInit
    BY <2>2 DEF SpankInv, Flushing, Beginnings, TasksOK, Places, StageOK, Before,
      Unmade, InitPlaces
  <2> QED
    BY <2>1, <2>2 DEF C!Submission
<1> QED
  BY <1>1, <1>2, <1>3, <1>4, <1>5, <1>6, <1>7, <1>8, <1>9, <1>10, <1>11, <1>12, <1>13,
    <1>14, <1>15 DEF SpankInv

\* slurm_spank_init of the C plugin.
LEMMA CInitStep ==
  ASSUME SpankInv, plugin = "c", C!RemoteInitSteps
  PROVE  SpankInv'
<1> USE DEF C!jobVars, C!submitVars, C!privVars, C!cacheVars, C!renewerVars, C!taskVars,
  C!Starts, C!Goto, C!Return, C!MayFail, MayFail, Unconfirmed, C!JobCache, Alive, C!RemoteInit, C!ApiInit,
  C!GetCred, C!DropPrivileges, C!CheckExisting, C!NewCache, C!StoreCred, C!PartlyStored,
  C!Publish, C!OutErr, C!OutCred
<1>1. JobOK'
  BY DEF C!RemoteInitSteps, SpankInv, JobOK, Modes, EnvValues
<1>2. StageOK'
  BY DEF C!RemoteInitSteps, SpankInv, StageOK
<1>3. CachesOK'
  <2>1. CASE C!RemoteInit
    BY <2>1, ZenonT(30) DEF SpankInv, CachesOK, Caches
  <2>2. CASE C!ApiInit
    BY <2>2 DEF SpankInv, CachesOK, Caches
  <2>3. CASE C!GetCred
    BY <2>3 DEF SpankInv, CachesOK, Caches
  <2>4. CASE C!DropPrivileges
    BY <2>4 DEF SpankInv, CachesOK, Caches
  <2>5. CASE C!CheckExisting
    BY <2>5 DEF SpankInv, CachesOK, Caches
  <2>6. CASE C!NewCache
    BY <2>6 DEF SpankInv, CachesOK, Caches
  <2>7. CASE C!StoreCred
    BY <2>7 DEF SpankInv, CachesOK, Caches
  <2>8. CASE C!Publish
    BY <2>8 DEF SpankInv, CachesOK, Caches
  <2>9. CASE C!OutErr
    BY <2>9 DEF SpankInv, CachesOK, Caches
  <2>10. CASE C!OutCred
    BY <2>10 DEF SpankInv, CachesOK, Caches
  <2> QED
    BY <2>1, <2>2, <2>3, <2>4, <2>5, <2>6, <2>7, <2>8, <2>9, <2>10 DEF C!RemoteInitSteps
<1>4. TasksOK'
  BY SpankAssumption DEF C!RemoteInitSteps, SpankInv, TasksOK
<1>5. Places'
  BY SpankAssumption DEF C!RemoteInitSteps, SpankInv, Places, TasksOK, InitPlaces
<1>6. Beginnings'
  <2>1. CASE C!RemoteInit
    BY <2>1 DEF SpankInv, Beginnings, Places, CachesOK, Before, Unmade, InitPlaces,
      Caches
  <2>2. CASE C!ApiInit
    BY <2>2 DEF SpankInv, Beginnings, Places, CachesOK, Before, Unmade, InitPlaces,
      Caches
  <2>3. CASE C!GetCred
    BY <2>3 DEF SpankInv, Beginnings, Places, CachesOK, Before, Unmade, InitPlaces,
      Caches
  <2>4. CASE C!DropPrivileges
    BY <2>4 DEF SpankInv, Beginnings, Places, CachesOK, Before, Unmade, InitPlaces,
      Caches
  <2>5. CASE C!CheckExisting
    BY <2>5 DEF SpankInv, Beginnings, Places, CachesOK, Before, Unmade, InitPlaces,
      Caches
  <2>6. CASE C!NewCache
    BY <2>6 DEF SpankInv, Beginnings, Places, CachesOK, Before, Unmade, InitPlaces,
      Caches
  <2>7. CASE C!StoreCred
    BY <2>7 DEF SpankInv, Beginnings, Places, CachesOK, Before, Unmade, InitPlaces,
      Caches
  <2>8. CASE C!Publish
    BY <2>8 DEF SpankInv, Beginnings, Places, CachesOK, Before, Unmade, InitPlaces,
      Caches
  <2>9. CASE C!OutErr
    BY <2>9 DEF SpankInv, Beginnings, Places, CachesOK, Before, Unmade, InitPlaces,
      Caches
  <2>10. CASE C!OutCred
    BY <2>10 DEF SpankInv, Beginnings, Places, CachesOK, Before, Unmade, InitPlaces,
      Caches
  <2> QED
    BY <2>1, <2>2, <2>3, <2>4, <2>5, <2>6, <2>7, <2>8, <2>9, <2>10 DEF C!RemoteInitSteps
<1>7. Refusal'
  BY DEF C!RemoteInitSteps, SpankInv, Refusal, Places, InitPlaces
<1>8. Freed'
  <2>1. CASE C!RemoteInit
    BY <2>1 DEF SpankInv, Freed, Beginnings, Places, Before, Unmade, InitPlaces
  <2>2. CASE C!ApiInit
    BY <2>2 DEF SpankInv, Freed, Beginnings, Places, Before, Unmade, InitPlaces
  <2>3. CASE C!GetCred
    BY <2>3 DEF SpankInv, Freed, Beginnings, Places, Before, Unmade, InitPlaces
  <2>4. CASE C!DropPrivileges
    BY <2>4 DEF SpankInv, Freed, Beginnings, Places, Before, Unmade, InitPlaces
  <2>5. CASE C!CheckExisting
    BY <2>5 DEF SpankInv, Freed, Beginnings, Places, Before, Unmade, InitPlaces
  <2>6. CASE C!NewCache
    BY <2>6 DEF SpankInv, Freed, Beginnings, Places, Before, Unmade, InitPlaces
  <2>7. CASE C!StoreCred
    BY <2>7 DEF SpankInv, Freed, Beginnings, Places, Before, Unmade, InitPlaces
  <2>8. CASE C!Publish
    BY <2>8 DEF SpankInv, Freed, Beginnings, Places, Before, Unmade, InitPlaces
  <2>9. CASE C!OutErr
    BY <2>9 DEF SpankInv, Freed, Beginnings, Places, Before, Unmade, InitPlaces
  <2>10. CASE C!OutCred
    BY <2>10 DEF SpankInv, Freed, Beginnings, Places, Before, Unmade, InitPlaces
  <2> QED
    BY <2>1, <2>2, <2>3, <2>4, <2>5, <2>6, <2>7, <2>8, <2>9, <2>10 DEF C!RemoteInitSteps
<1>9. Making'
  BY DEF C!RemoteInitSteps, SpankInv, Making, Beginnings, Places, Before, Unmade,
    InitPlaces
<1>10. CNames'
  BY DEF C!RemoteInitSteps, SpankInv, CNames, Making, Beginnings, StageOK, Places,
    Before, Unmade, InitPlaces
<1>11. RsNames'
  BY DEF C!RemoteInitSteps, SpankInv, RsNames, Places, Making, Beginnings, StageOK,
    Freed, InitPlaces, Before, Unmade
<1>12. RenewerNames'
  BY DEF C!RemoteInitSteps, SpankInv, RenewerNames, Places, Beginnings, StageOK,
    CachesOK, InitPlaces, Before, Unmade, Caches
<1>13. Reaping'
  BY SpankAssumption DEF C!RemoteInitSteps, SpankInv, Reaping, Places, TasksOK, StageOK,
    Beginnings, Undisturbed, InitPlaces, Before, Unmade
<1>14. Holds'
  BY DEF C!RemoteInitSteps, SpankInv, Holds, CachesOK, Beginnings, Places, Making,
    CNames, Freed, RenewerNames, Reaping, Removable, Undisturbed, Caches, Before, Unmade,
    InitPlaces
<1>15. Flushing'
  <2>1. CASE C!RemoteInit
    BY <2>1 DEF SpankInv, Flushing, Beginnings, TasksOK, Places, StageOK, Before,
      Unmade, InitPlaces
  <2>2. CASE C!ApiInit
    BY <2>2 DEF SpankInv, Flushing, Beginnings, TasksOK, Places, StageOK, Before,
      Unmade, InitPlaces
  <2>3. CASE C!GetCred
    BY <2>3 DEF SpankInv, Flushing, Beginnings, TasksOK, Places, StageOK, Before,
      Unmade, InitPlaces
  <2>4. CASE C!DropPrivileges
    BY <2>4 DEF SpankInv, Flushing, Beginnings, TasksOK, Places, StageOK, Before,
      Unmade, InitPlaces
  <2>5. CASE C!CheckExisting
    BY <2>5 DEF SpankInv, Flushing, Beginnings, TasksOK, Places, StageOK, Before,
      Unmade, InitPlaces
  <2>6. CASE C!NewCache
    BY <2>6 DEF SpankInv, Flushing, Beginnings, TasksOK, Places, StageOK, Before,
      Unmade, InitPlaces
  <2>7. CASE C!StoreCred
    BY <2>7 DEF SpankInv, Flushing, Beginnings, TasksOK, Places, StageOK, Before,
      Unmade, InitPlaces
  <2>8. CASE C!Publish
    BY <2>8 DEF SpankInv, Flushing, Beginnings, TasksOK, Places, StageOK, Before,
      Unmade, InitPlaces
  <2>9. CASE C!OutErr
    BY <2>9 DEF SpankInv, Flushing, Beginnings, TasksOK, Places, StageOK, Before,
      Unmade, InitPlaces
  <2>10. CASE C!OutCred
    BY <2>10 DEF SpankInv, Flushing, Beginnings, TasksOK, Places, StageOK, Before,
      Unmade, InitPlaces
  <2> QED
    BY <2>1, <2>2, <2>3, <2>4, <2>5, <2>6, <2>7, <2>8, <2>9, <2>10 DEF C!RemoteInitSteps
<1> QED
  BY <1>1, <1>2, <1>3, <1>4, <1>5, <1>6, <1>7, <1>8, <1>9, <1>10, <1>11, <1>12, <1>13,
    <1>14, <1>15 DEF SpankInv

LEMMA COptionStep ==
  ASSUME SpankInv, plugin = "c", C!RemoteOption
  PROVE  SpankInv'
<1> USE DEF C!jobVars, C!submitVars, C!privVars, C!cacheVars, C!renewerVars, C!taskVars,
  C!Starts, C!Goto, C!Return, C!MayFail, MayFail, Unconfirmed, Alive
<1>1. JobOK'
  BY DEF C!RemoteOption, C!OptionMode, SpankInv, JobOK, Modes, EnvValues
<1>2. StageOK'
  BY DEF C!RemoteOption, C!OptionMode, SpankInv, StageOK
<1>3. CachesOK'
  BY DEF C!RemoteOption, C!OptionMode, SpankInv, CachesOK, Caches
<1>4. TasksOK'
  BY SpankAssumption DEF C!RemoteOption, C!OptionMode, SpankInv, TasksOK
<1>5. Places'
  BY SpankAssumption DEF C!RemoteOption, C!OptionMode, SpankInv, Places, TasksOK,
    InitPlaces
<1>6. Beginnings'
  BY SpankAssumption DEF C!RemoteOption, C!OptionMode, SpankInv, Beginnings, Places,
    CachesOK, Before, Unmade, InitPlaces, Caches
<1>7. Refusal'
  BY DEF C!RemoteOption, C!OptionMode, SpankInv, Refusal, Places, InitPlaces
<1>8. Freed'
  BY DEF C!RemoteOption, C!OptionMode, SpankInv, Freed, Beginnings, Places, Before,
    Unmade, InitPlaces
<1>9. Making'
  BY DEF C!RemoteOption, C!OptionMode, SpankInv, Making, Beginnings, Places, Before,
    Unmade, InitPlaces
<1>10. CNames'
  BY DEF C!RemoteOption, C!OptionMode, SpankInv, CNames, Making, Beginnings, StageOK,
    Places, Before, Unmade, InitPlaces
<1>11. RsNames'
  BY DEF C!RemoteOption, C!OptionMode, SpankInv, RsNames, Places, Making, Beginnings,
    StageOK, Freed, InitPlaces, Before, Unmade
<1>12. RenewerNames'
  BY DEF C!RemoteOption, C!OptionMode, SpankInv, RenewerNames, Places, Beginnings,
    StageOK, CachesOK, InitPlaces, Before, Unmade, Caches
<1>13. Reaping'
  BY SpankAssumption DEF C!RemoteOption, C!OptionMode, SpankInv, Reaping, Places,
    TasksOK, StageOK, Beginnings, Undisturbed, InitPlaces, Before, Unmade
<1>14. Holds'
  BY DEF C!RemoteOption, C!OptionMode, SpankInv, Holds, CachesOK, Beginnings, Places,
    Making, CNames, Freed, RenewerNames, Reaping, Removable, Undisturbed, Caches, Before,
    Unmade, InitPlaces
<1>15. Flushing'
  BY SpankAssumption DEF C!RemoteOption, C!OptionMode, SpankInv, Flushing, Beginnings,
    TasksOK, Places, StageOK, Before, Unmade, InitPlaces
<1> QED
  BY <1>1, <1>2, <1>3, <1>4, <1>5, <1>6, <1>7, <1>8, <1>9, <1>10, <1>11, <1>12, <1>13,
    <1>14, <1>15 DEF SpankInv

LEMMA CUserInitStep ==
  ASSUME SpankInv, plugin = "c", C!UserInit
  PROVE  SpankInv'
<1> USE DEF C!jobVars, C!submitVars, C!privVars, C!cacheVars, C!renewerVars, C!taskVars,
  C!Starts, C!Goto, C!Return, C!MayFail, MayFail, Unconfirmed, Alive
<1>1. JobOK'
  BY DEF C!UserInit, SpankInv, JobOK, Modes, EnvValues
<1>2. StageOK'
  BY DEF C!UserInit, SpankInv, StageOK
<1>3. CachesOK'
  BY DEF C!UserInit, SpankInv, CachesOK, Caches
<1>4. TasksOK'
  BY SpankAssumption DEF C!UserInit, SpankInv, TasksOK
<1>5. Places'
  BY SpankAssumption DEF C!UserInit, SpankInv, Places, TasksOK, InitPlaces
<1>6. Beginnings'
  BY SpankAssumption DEF C!UserInit, SpankInv, Beginnings, Places, CachesOK, Before,
    Unmade, InitPlaces, Caches
<1>7. Refusal'
  BY DEF C!UserInit, SpankInv, Refusal, Places, InitPlaces
<1>8. Freed'
  <2>1. UNCHANGED <<name, plugin, faults>> /\ at' = "idle"
    BY DEF C!UserInit
  <2>2. misused' => misused \/ name = "freed"
    BY Zenon DEF C!UserInit
  <2> QED
    BY <2>1, <2>2 DEF SpankInv, Freed
<1>9. Making'
  BY DEF C!UserInit, SpankInv, Making, Beginnings, Places, Before, Unmade, InitPlaces
<1>10. CNames'
  BY DEF C!UserInit, SpankInv, CNames, Making, Beginnings, StageOK, Places, Before,
    Unmade, InitPlaces
<1>11. RsNames'
  BY DEF C!UserInit, SpankInv, RsNames, Places, Making, Beginnings, StageOK, Freed,
    InitPlaces, Before, Unmade
<1>12. RenewerNames'
  BY DEF C!UserInit, SpankInv, RenewerNames, Places, Beginnings, StageOK, CachesOK,
    InitPlaces, Before, Unmade, Caches
<1>13. Reaping'
  <2>1. ended = 0 /\ exited = 0 /\ renewer = "none"
    BY DEF C!UserInit, SpankInv, Beginnings, Before
  <2>2. stage' = "tasks" /\ at' = "idle" /\ ended' = 0 /\ exited' = 0
    BY <2>1 DEF C!UserInit
  <2>3. renewer' = "none" \/ (renewer' = "testing" /\ pid' = "set")
    BY <2>1 DEF C!UserInit
  <2> QED
    BY <2>2, <2>3, SpankAssumption DEF Reaping, Undisturbed
<1>14. Holds'
  BY DEF C!UserInit, SpankInv, Holds, CachesOK, Beginnings, Places, Making, CNames,
    Freed, RenewerNames, Reaping, Removable, Undisturbed, Caches, Before, Unmade,
    InitPlaces
<1>15. Flushing'
  BY SpankAssumption DEF C!UserInit, SpankInv, Flushing, Beginnings, TasksOK, Places,
    StageOK, Before, Unmade, InitPlaces
<1> QED
  BY <1>1, <1>2, <1>3, <1>4, <1>5, <1>6, <1>7, <1>8, <1>9, <1>10, <1>11, <1>12, <1>13,
    <1>14, <1>15 DEF SpankInv

\* The end of the step, with the C plugin.
LEMMA CTeardownStep ==
  ASSUME SpankInv, plugin = "c", C!Teardown
  PROVE  SpankInv'
<1> USE DEF C!jobVars, C!submitVars, C!privVars, C!cacheVars, C!renewerVars, C!taskVars,
  C!Starts, C!Goto, C!Return, C!MayFail, MayFail, Unconfirmed, Alive, C!TaskExit, C!NextAfterTask,
  C!StopRenewer, C!SyncFs, C!WaitRenewer, C!RemoteExit, C!DestroyCache
<1>1. JobOK'
  BY DEF C!Teardown, SpankInv, JobOK, Modes, EnvValues
<1>2. StageOK'
  BY DEF C!Teardown, SpankInv, StageOK
<1>3. CachesOK'
  BY DEF C!Teardown, SpankInv, CachesOK, Caches
<1>4. TasksOK'
  <2>1. CASE C!TaskExit
    BY <2>1, SpankAssumption DEF SpankInv, TasksOK
  <2>2. CASE C!StopRenewer
    BY <2>2, SpankAssumption DEF SpankInv, TasksOK
  <2>3. CASE C!WaitRenewer
    BY <2>3, SpankAssumption DEF SpankInv, TasksOK
  <2>4. CASE C!RemoteExit
    BY <2>4, SpankAssumption DEF SpankInv, TasksOK
  <2>5. CASE C!DestroyCache
    BY <2>5, SpankAssumption DEF SpankInv, TasksOK
  <2> QED
    BY <2>1, <2>2, <2>3, <2>4, <2>5 DEF C!Teardown
<1>5. Places'
  BY SpankAssumption DEF C!Teardown, SpankInv, Places, TasksOK, InitPlaces
<1>6. Beginnings'
  BY SpankAssumption DEF C!Teardown, SpankInv, Beginnings, Places, CachesOK, Before,
    Unmade, InitPlaces, Caches
<1>7. Refusal'
  BY DEF C!Teardown, SpankInv, Refusal, Places, InitPlaces
<1>8. Freed'
  <2>1. CASE C!TaskExit
    BY <2>1 DEF SpankInv, Freed, Beginnings, Places, Before, Unmade, InitPlaces
  <2>2. CASE C!StopRenewer
    BY <2>2 DEF SpankInv, Freed, Beginnings, Places, Before, Unmade, InitPlaces
  <2>3. CASE C!WaitRenewer
    BY <2>3 DEF SpankInv, Freed, Beginnings, Places, Before, Unmade, InitPlaces
  <2>4. CASE C!RemoteExit
    <3>1. /\ UNCHANGED <<plugin, faults>> /\ at' \in {"idle", "destroy"}
          /\ name' \in {"null", name}
      BY <2>4
    <3>2. misused' => misused \/ name = "freed"
      BY <2>4, Zenon
    <3> QED
      BY <3>1, <3>2 DEF SpankInv, Freed
  <2>5. CASE C!DestroyCache
    BY <2>5 DEF SpankInv, Freed, Beginnings, Places, Before, Unmade, InitPlaces
  <2> QED
    BY <2>1, <2>2, <2>3, <2>4, <2>5 DEF C!Teardown
<1>9. Making'
  BY DEF C!Teardown, SpankInv, Making, Beginnings, Places, Before, Unmade, InitPlaces
<1>10. CNames'
  BY DEF C!Teardown, SpankInv, CNames, Making, Beginnings, StageOK, Places, Before,
    Unmade, InitPlaces
<1>11. RsNames'
  BY DEF C!Teardown, SpankInv, RsNames, Places, Making, Beginnings, StageOK, Freed,
    InitPlaces, Before, Unmade
<1>12. RenewerNames'
  BY DEF C!Teardown, SpankInv, RenewerNames, Places, Beginnings, StageOK, CachesOK,
    InitPlaces, Before, Unmade, Caches
<1>13. Reaping'
  BY SpankAssumption DEF C!Teardown, SpankInv, Reaping, Places, TasksOK, StageOK,
    Beginnings, Undisturbed, InitPlaces, Before, Unmade
<1>14. Holds'
  BY DEF C!Teardown, SpankInv, Holds, CachesOK, Beginnings, Places, Making, CNames,
    Freed, RenewerNames, Reaping, Removable, Undisturbed, Caches, Before, Unmade,
    InitPlaces
<1>15. Flushing'
  BY SpankAssumption DEF C!Teardown, SpankInv, Flushing, Beginnings, TasksOK, Places,
    StageOK, Before, Unmade, InitPlaces
<1> QED
  BY <1>1, <1>2, <1>3, <1>4, <1>5, <1>6, <1>7, <1>8, <1>9, <1>10, <1>11, <1>12, <1>13,
    <1>14, <1>15 DEF SpankInv

\* The submission, with the Rust plugin.
LEMMA RsSubmissionStep ==
  ASSUME SpankInv, plugin = "rs", Rs!Submission
  PROVE  SpankInv'
<1> USE DEF Rs!jobVars, Rs!submitVars, Rs!privVars, Rs!cacheVars, Rs!renewerVars,
  Rs!taskVars, Rs!Starts, Rs!Goto, Rs!Return, Rs!MayFail, MayFail, Unconfirmed, Alive, Rs!SubmitOption,
  Rs!OptionCallback, Rs!OptionMode, Rs!LocalUserInit, Rs!SetIfUnset
<1>1. JobOK'
  <2>1. CASE Rs!SubmitOption
    <3>1. option \in {"none", "yes", "no", "done"} /\ env \in EnvValues
      BY SpankAssumption DEF SpankInv, JobOK
    <3>2. env' = env \/ (option # "none" /\ env' = option)
      BY <2>1
    <3>3. env' \in EnvValues
      BY <3>1, <3>2 DEF EnvValues
    <3>4. opt' \in Modes \cup {"none"}
      BY <2>1 DEF SpankInv, JobOK, Modes
    <3>5. UNCHANGED <<plugin, conf, faults, option, shell, repo, misused>>
      BY <2>1
    <3> QED
      BY <3>3, <3>4, <3>5 DEF SpankInv, JobOK
  <2>2. CASE Rs!LocalUserInit
    BY <2>2 DEF SpankInv, JobOK, Modes, EnvValues
  <2> QED
    BY <2>1, <2>2 DEF Rs!Submission
<1>2. StageOK'
  BY DEF Rs!Submission, SpankInv, StageOK
<1>3. CachesOK'
  BY DEF Rs!Submission, SpankInv, CachesOK, Caches
<1>4. TasksOK'
  BY SpankAssumption DEF Rs!Submission, SpankInv, TasksOK
<1>5. Places'
  BY SpankAssumption DEF Rs!Submission, SpankInv, Places, TasksOK, InitPlaces
<1>6. Beginnings'
  BY SpankAssumption DEF Rs!Submission, SpankInv, Beginnings, Places, CachesOK, Before,
    Unmade, InitPlaces, Caches
<1>7. Refusal'
  BY DEF Rs!Submission, SpankInv, Refusal, Places, InitPlaces
<1>8. Freed'
  BY DEF Rs!Submission, SpankInv, Freed, Beginnings, Places, Before, Unmade, InitPlaces
<1>9. Making'
  BY DEF Rs!Submission, SpankInv, Making, Beginnings, Places, Before, Unmade, InitPlaces
<1>10. CNames'
  BY DEF Rs!Submission, SpankInv, CNames, Making, Beginnings, StageOK, Places, Before,
    Unmade, InitPlaces
<1>11. RsNames'
  BY DEF Rs!Submission, SpankInv, RsNames, Places, Making, Beginnings, StageOK, Freed,
    InitPlaces, Before, Unmade
<1>12. RenewerNames'
  BY DEF Rs!Submission, SpankInv, RenewerNames, Places, Beginnings, StageOK, CachesOK,
    InitPlaces, Before, Unmade, Caches
<1>13. Reaping'
  BY SpankAssumption DEF Rs!Submission, SpankInv, Reaping, Places, TasksOK, StageOK,
    Beginnings, Undisturbed, InitPlaces, Before, Unmade
<1>14. Holds'
  BY DEF Rs!Submission, SpankInv, Holds, CachesOK, Beginnings, Places, Making, CNames,
    Freed, RenewerNames, Reaping, Removable, Undisturbed, Caches, Before, Unmade,
    InitPlaces
<1>15. Flushing'
  BY SpankAssumption DEF Rs!Submission, SpankInv, Flushing, Beginnings, TasksOK, Places,
    StageOK, Before, Unmade, InitPlaces
<1> QED
  BY <1>1, <1>2, <1>3, <1>4, <1>5, <1>6, <1>7, <1>8, <1>9, <1>10, <1>11, <1>12, <1>13,
    <1>14, <1>15 DEF SpankInv

\* init of the Rust plugin.
LEMMA RsInitStep ==
  ASSUME SpankInv, plugin = "rs", Rs!RemoteInitSteps
  PROVE  SpankInv'
<1> USE DEF Rs!jobVars, Rs!submitVars, Rs!privVars, Rs!cacheVars, Rs!renewerVars,
  Rs!taskVars, Rs!Starts, Rs!Goto, Rs!Return, Rs!MayFail, MayFail, Unconfirmed, Rs!JobCache, Alive,
  Rs!RemoteInit, Rs!ConfiguredClient, Rs!GetCred, Rs!DropPrivileges, Rs!CheckExisting,
  Rs!NewCache, Rs!StoreCred, Rs!PartlyStored, Rs!Publish, Rs!RunHelper, Rs!OutCred
<1>1. JobOK'
  BY DEF Rs!RemoteInitSteps, SpankInv, JobOK, Modes, EnvValues
<1>2. StageOK'
  BY DEF Rs!RemoteInitSteps, SpankInv, StageOK
<1>3. CachesOK'
  BY DEF Rs!RemoteInitSteps, SpankInv, CachesOK, Caches
<1>4. TasksOK'
  <2>1. CASE Rs!RemoteInit
    <3>1. ended' = ended /\ dirty' = dirty /\ exited' = 0 /\ synced' = FALSE
      BY <2>1
    <3>2. ended \in 0 .. NTasks /\ dirty \in BOOLEAN
      BY DEF SpankInv, TasksOK
    <3>3. exited' \in 0 .. NTasks /\ exited' <= ended'
      BY <3>1, <3>2, SpankAssumption
    <3> QED
      BY <3>1, <3>2, <3>3 DEF TasksOK
  <2>2. CASE Rs!ConfiguredClient
    BY <2>2, SpankAssumption DEF SpankInv, TasksOK
  <2>3. CASE Rs!GetCred
    BY <2>3, SpankAssumption DEF SpankInv, TasksOK
  <2>4. CASE Rs!DropPrivileges
    BY <2>4, SpankAssumption DEF SpankInv, TasksOK
  <2>5. CASE Rs!CheckExisting
    BY <2>5, SpankAssumption DEF SpankInv, TasksOK
  <2>6. CASE Rs!NewCache
    BY <2>6, SpankAssumption DEF SpankInv, TasksOK
  <2>7. CASE Rs!StoreCred
    BY <2>7, SpankAssumption DEF SpankInv, TasksOK
  <2>8. CASE Rs!Publish
    BY <2>8, SpankAssumption DEF SpankInv, TasksOK
  <2>9. CASE Rs!RunHelper
    BY <2>9, SpankAssumption DEF SpankInv, TasksOK
  <2>10. CASE Rs!OutCred
    BY <2>10, SpankAssumption DEF SpankInv, TasksOK
  <2> QED
    BY <2>1, <2>2, <2>3, <2>4, <2>5, <2>6, <2>7, <2>8, <2>9, <2>10 DEF Rs!RemoteInitSteps
<1>5. Places'
  BY SpankAssumption DEF Rs!RemoteInitSteps, SpankInv, Places, TasksOK, InitPlaces
<1>6. Beginnings'
  BY SpankAssumption DEF Rs!RemoteInitSteps, SpankInv, Beginnings, Places, CachesOK,
    Before, Unmade, InitPlaces, Caches
<1>7. Refusal'
  <2>1. CASE Rs!RemoteInit
    <3>1. UNCHANGED <<plugin, option, env, opt, ccname>> /\ stage = "init"
      BY <2>1
    <3>2. opt = "none" /\ env = "no" => Rs!Mode = "disabled"
      BY DEF Rs!Mode
    <3>3. Rs!Mode = "disabled" => stage' = "remote_opt"
      BY <2>1
    <3> QED
      BY <3>1, <3>2, <3>3 DEF SpankInv, Refusal
  <2>2. CASE Rs!ConfiguredClient
    BY <2>2 DEF SpankInv, Refusal, Places, InitPlaces
  <2>3. CASE Rs!GetCred
    BY <2>3 DEF SpankInv, Refusal, Places, InitPlaces
  <2>4. CASE Rs!DropPrivileges
    BY <2>4 DEF SpankInv, Refusal, Places, InitPlaces
  <2>5. CASE Rs!CheckExisting
    BY <2>5 DEF SpankInv, Refusal, Places, InitPlaces
  <2>6. CASE Rs!NewCache
    BY <2>6 DEF SpankInv, Refusal, Places, InitPlaces
  <2>7. CASE Rs!StoreCred
    BY <2>7 DEF SpankInv, Refusal, Places, InitPlaces
  <2>8. CASE Rs!Publish
    BY <2>8 DEF SpankInv, Refusal, Places, InitPlaces
  <2>9. CASE Rs!RunHelper
    BY <2>9 DEF SpankInv, Refusal, Places, InitPlaces
  <2>10. CASE Rs!OutCred
    BY <2>10 DEF SpankInv, Refusal, Places, InitPlaces
  <2> QED
    BY <2>1, <2>2, <2>3, <2>4, <2>5, <2>6, <2>7, <2>8, <2>9, <2>10 DEF Rs!RemoteInitSteps
<1>8. Freed'
  BY DEF Rs!RemoteInitSteps, SpankInv, Freed, Beginnings, Places, Before, Unmade,
    InitPlaces
<1>9. Making'
  BY DEF Rs!RemoteInitSteps, SpankInv, Making, Beginnings, Places, Before, Unmade,
    InitPlaces
<1>10. CNames'
  BY DEF Rs!RemoteInitSteps, SpankInv, CNames, Making, Beginnings, StageOK, Places,
    Before, Unmade, InitPlaces
<1>11. RsNames'
  BY DEF Rs!RemoteInitSteps, SpankInv, RsNames, Places, Making, Beginnings, StageOK,
    Freed, InitPlaces, Before, Unmade
<1>12. RenewerNames'
  BY DEF Rs!RemoteInitSteps, SpankInv, RenewerNames, Places, Beginnings, StageOK,
    CachesOK, InitPlaces, Before, Unmade, Caches
<1>13. Reaping'
  BY SpankAssumption DEF Rs!RemoteInitSteps, SpankInv, Reaping, Places, TasksOK,
    StageOK, Beginnings, Undisturbed, InitPlaces, Before, Unmade
<1>14. Holds'
  <2>1. CASE Rs!RemoteInit
    BY <2>1 DEF SpankInv, Holds, CachesOK, Beginnings, Places, Making, CNames, Freed,
      RenewerNames, Reaping, Removable, Undisturbed, Caches, Before, Unmade, InitPlaces
  <2>2. CASE Rs!ConfiguredClient
    BY <2>2 DEF SpankInv, Holds, CachesOK, Beginnings, Places, Making, CNames, Freed,
      RenewerNames, Reaping, Removable, Undisturbed, Caches, Before, Unmade, InitPlaces
  <2>3. CASE Rs!GetCred
    BY <2>3 DEF SpankInv, Holds, CachesOK, Beginnings, Places, Making, CNames, Freed,
      RenewerNames, Reaping, Removable, Undisturbed, Caches, Before, Unmade, InitPlaces
  <2>4. CASE Rs!DropPrivileges
    BY <2>4 DEF SpankInv, Holds, CachesOK, Beginnings, Places, Making, CNames, Freed,
      RenewerNames, Reaping, Removable, Undisturbed, Caches, Before, Unmade, InitPlaces
  <2>5. CASE Rs!CheckExisting
    BY <2>5 DEF SpankInv, Holds, CachesOK, Beginnings, Places, Making, CNames, Freed,
      RenewerNames, Reaping, Removable, Undisturbed, Caches, Before, Unmade, InitPlaces
  <2>6. CASE Rs!NewCache
    BY <2>6 DEF SpankInv, Holds, CachesOK, Beginnings, Places, Making, CNames, Freed,
      RenewerNames, Reaping, Removable, Undisturbed, Caches, Before, Unmade, InitPlaces
  <2>7. CASE Rs!StoreCred
    BY <2>7 DEF SpankInv, Holds, CachesOK, Beginnings, Places, Making, CNames, Freed,
      RenewerNames, Reaping, Removable, Undisturbed, Caches, Before, Unmade, InitPlaces
  <2>8. CASE Rs!Publish
    BY <2>8 DEF SpankInv, Holds, CachesOK, Beginnings, Places, Making, CNames, Freed,
      RenewerNames, Reaping, Removable, Undisturbed, Caches, Before, Unmade, InitPlaces
  <2>9. CASE Rs!RunHelper
    <3>1. /\ UNCHANGED <<plugin, faults, conf, stage, name, caches, renewer, rcache, reused>>
          /\ at = "helper" /\ at' = "out_cred" /\ rc' \in {rc, "error"}
          /\ rc' = rc \/ "helper" \in faults
      BY <2>9
    <3>2. rc = "ok" /\ reused = "none"
      BY <3>1 DEF SpankInv, Places, StageOK, Making
    <3> QED
      BY <3>1, <3>2 DEF SpankInv, Holds, Removable
  <2>10. CASE Rs!OutCred
    BY <2>10 DEF SpankInv, Holds, CachesOK, Beginnings, Places, Making, CNames, Freed,
      RenewerNames, Reaping, Removable, Undisturbed, Caches, Before, Unmade, InitPlaces
  <2> QED
    BY <2>1, <2>2, <2>3, <2>4, <2>5, <2>6, <2>7, <2>8, <2>9, <2>10 DEF Rs!RemoteInitSteps
<1>15. Flushing'
  BY SpankAssumption DEF Rs!RemoteInitSteps, SpankInv, Flushing, Beginnings, TasksOK,
    Places, StageOK, Before, Unmade, InitPlaces
<1> QED
  BY <1>1, <1>2, <1>3, <1>4, <1>5, <1>6, <1>7, <1>8, <1>9, <1>10, <1>11, <1>12, <1>13,
    <1>14, <1>15 DEF SpankInv

LEMMA RsOptionStep ==
  ASSUME SpankInv, plugin = "rs", Rs!RemoteOption
  PROVE  SpankInv'
<1> USE DEF Rs!jobVars, Rs!submitVars, Rs!privVars, Rs!cacheVars, Rs!renewerVars,
  Rs!taskVars, Rs!Starts, Rs!Goto, Rs!Return, Rs!MayFail, MayFail, Unconfirmed, Alive
<1>1. JobOK'
  BY DEF Rs!RemoteOption, Rs!OptionCallback, Rs!OptionMode, SpankInv, JobOK, Modes,
    EnvValues
<1>2. StageOK'
  BY DEF Rs!RemoteOption, Rs!OptionCallback, Rs!OptionMode, SpankInv, StageOK
<1>3. CachesOK'
  BY DEF Rs!RemoteOption, Rs!OptionCallback, Rs!OptionMode, SpankInv, CachesOK, Caches
<1>4. TasksOK'
  BY SpankAssumption DEF Rs!RemoteOption, Rs!OptionCallback, Rs!OptionMode, SpankInv,
    TasksOK
<1>5. Places'
  BY SpankAssumption DEF Rs!RemoteOption, Rs!OptionCallback, Rs!OptionMode, SpankInv,
    Places, TasksOK, InitPlaces
<1>6. Beginnings'
  BY SpankAssumption DEF Rs!RemoteOption, Rs!OptionCallback, Rs!OptionMode, SpankInv,
    Beginnings, Places, CachesOK, Before, Unmade, InitPlaces, Caches
<1>7. Refusal'
  BY DEF Rs!RemoteOption, Rs!OptionCallback, Rs!OptionMode, SpankInv, Refusal, Places,
    InitPlaces
<1>8. Freed'
  BY DEF Rs!RemoteOption, Rs!OptionCallback, Rs!OptionMode, SpankInv, Freed, Beginnings,
    Places, Before, Unmade, InitPlaces
<1>9. Making'
  BY DEF Rs!RemoteOption, Rs!OptionCallback, Rs!OptionMode, SpankInv, Making,
    Beginnings, Places, Before, Unmade, InitPlaces
<1>10. CNames'
  BY DEF Rs!RemoteOption, Rs!OptionCallback, Rs!OptionMode, SpankInv, CNames, Making,
    Beginnings, StageOK, Places, Before, Unmade, InitPlaces
<1>11. RsNames'
  BY DEF Rs!RemoteOption, Rs!OptionCallback, Rs!OptionMode, SpankInv, RsNames, Places,
    Making, Beginnings, StageOK, Freed, InitPlaces, Before, Unmade
<1>12. RenewerNames'
  BY DEF Rs!RemoteOption, Rs!OptionCallback, Rs!OptionMode, SpankInv, RenewerNames,
    Places, Beginnings, StageOK, CachesOK, InitPlaces, Before, Unmade, Caches
<1>13. Reaping'
  BY SpankAssumption DEF Rs!RemoteOption, Rs!OptionCallback, Rs!OptionMode, SpankInv,
    Reaping, Places, TasksOK, StageOK, Beginnings, Undisturbed, InitPlaces, Before,
    Unmade
<1>14. Holds'
  BY DEF Rs!RemoteOption, Rs!OptionCallback, Rs!OptionMode, SpankInv, Holds, CachesOK,
    Beginnings, Places, Making, CNames, Freed, RenewerNames, Reaping, Removable,
    Undisturbed, Caches, Before, Unmade, InitPlaces
<1>15. Flushing'
  BY SpankAssumption DEF Rs!RemoteOption, Rs!OptionCallback, Rs!OptionMode, SpankInv,
    Flushing, Beginnings, TasksOK, Places, StageOK, Before, Unmade, InitPlaces
<1> QED
  BY <1>1, <1>2, <1>3, <1>4, <1>5, <1>6, <1>7, <1>8, <1>9, <1>10, <1>11, <1>12, <1>13,
    <1>14, <1>15 DEF SpankInv

LEMMA RsRenewerInitStep ==
  ASSUME SpankInv, plugin = "rs", Rs!RenewerInit
  PROVE  SpankInv'
<1> USE DEF Rs!jobVars, Rs!submitVars, Rs!privVars, Rs!cacheVars, Rs!renewerVars,
  Rs!taskVars, Rs!Starts, Rs!Goto, Rs!Return, Rs!MayFail, MayFail, Unconfirmed, Alive
<1>1. JobOK'
  BY DEF Rs!RenewerInit, SpankInv, JobOK, Modes, EnvValues
<1>2. StageOK'
  BY DEF Rs!RenewerInit, SpankInv, StageOK
<1>3. CachesOK'
  BY DEF Rs!RenewerInit, SpankInv, CachesOK, Caches
<1>4. TasksOK'
  BY SpankAssumption DEF Rs!RenewerInit, SpankInv, TasksOK
<1>5. Places'
  BY SpankAssumption DEF Rs!RenewerInit, SpankInv, Places, TasksOK, InitPlaces
<1>6. Beginnings'
  BY SpankAssumption DEF Rs!RenewerInit, SpankInv, Beginnings, Places, CachesOK, Before,
    Unmade, InitPlaces, Caches
<1>7. Refusal'
  BY DEF Rs!RenewerInit, SpankInv, Refusal, Places, InitPlaces
<1>8. Freed'
  BY DEF Rs!RenewerInit, SpankInv, Freed, Beginnings, Places, Before, Unmade, InitPlaces
<1>9. Making'
  BY DEF Rs!RenewerInit, SpankInv, Making, Beginnings, Places, Before, Unmade,
    InitPlaces
<1>10. CNames'
  BY DEF Rs!RenewerInit, SpankInv, CNames, Making, Beginnings, StageOK, Places, Before,
    Unmade, InitPlaces
<1>11. RsNames'
  BY DEF Rs!RenewerInit, SpankInv, RsNames, Places, Making, Beginnings, StageOK, Freed,
    InitPlaces, Before, Unmade
<1>12. RenewerNames'
  BY DEF Rs!RenewerInit, SpankInv, RenewerNames, Places, Beginnings, StageOK, CachesOK,
    InitPlaces, Before, Unmade, Caches
<1>13. Reaping'
  BY SpankAssumption DEF Rs!RenewerInit, SpankInv, Reaping, Places, TasksOK, StageOK,
    Beginnings, Undisturbed, InitPlaces, Before, Unmade
<1>14. Holds'
  BY DEF Rs!RenewerInit, SpankInv, Holds, CachesOK, Beginnings, Places, Making, CNames,
    Freed, RenewerNames, Reaping, Removable, Undisturbed, Caches, Before, Unmade,
    InitPlaces
<1>15. Flushing'
  BY SpankAssumption DEF Rs!RenewerInit, SpankInv, Flushing, Beginnings, TasksOK,
    Places, StageOK, Before, Unmade, InitPlaces
<1> QED
  BY <1>1, <1>2, <1>3, <1>4, <1>5, <1>6, <1>7, <1>8, <1>9, <1>10, <1>11, <1>12, <1>13,
    <1>14, <1>15 DEF SpankInv

\* The end of the step, with the Rust plugin.
LEMMA RsTeardownStep ==
  ASSUME SpankInv, plugin = "rs", Rs!Teardown
  PROVE  SpankInv'
<1> USE DEF Rs!jobVars, Rs!submitVars, Rs!privVars, Rs!cacheVars, Rs!renewerVars,
  Rs!taskVars, Rs!Starts, Rs!Goto, Rs!Return, Rs!MayFail, MayFail, Unconfirmed, Rs!Alive, Alive, Rs!TaskExit,
  Rs!NextAfterTask, Rs!StopRenewer, Rs!SyncFiles, Rs!KillRenewer, Rs!RenewerReaped,
  Rs!StopFails, Rs!RemoteExit, Rs!DestroyCache
<1>1. JobOK'
  BY DEF Rs!Teardown, SpankInv, JobOK, Modes, EnvValues
<1>2. StageOK'
  BY DEF Rs!Teardown, SpankInv, StageOK
<1>3. CachesOK'
  BY DEF Rs!Teardown, SpankInv, CachesOK, Caches
<1>4. TasksOK'
  <2>1. CASE Rs!TaskExit
    BY <2>1, SpankAssumption DEF SpankInv, TasksOK
  <2>2. CASE Rs!StopRenewer
    BY <2>2, SpankAssumption DEF SpankInv, TasksOK
  <2>3. CASE Rs!KillRenewer
    BY <2>3, SpankAssumption DEF SpankInv, TasksOK
  <2>4. CASE Rs!RenewerReaped
    BY <2>4, SpankAssumption DEF SpankInv, TasksOK
  <2>5. CASE Rs!StopFails
    BY <2>5, SpankAssumption DEF SpankInv, TasksOK
  <2>6. CASE Rs!RemoteExit
    BY <2>6, SpankAssumption DEF SpankInv, TasksOK
  <2>7. CASE Rs!DestroyCache
    BY <2>7, SpankAssumption DEF SpankInv, TasksOK
  <2> QED
    BY <2>1, <2>2, <2>3, <2>4, <2>5, <2>6, <2>7 DEF Rs!Teardown
<1>5. Places'
  BY SpankAssumption DEF Rs!Teardown, SpankInv, Places, TasksOK, InitPlaces
<1>6. Beginnings'
  BY SpankAssumption DEF Rs!Teardown, SpankInv, Beginnings, Places, CachesOK, Before,
    Unmade, InitPlaces, Caches
<1>7. Refusal'
  BY DEF Rs!Teardown, SpankInv, Refusal, Places, InitPlaces
<1>8. Freed'
  BY DEF Rs!Teardown, SpankInv, Freed, Beginnings, Places, Before, Unmade, InitPlaces
<1>9. Making'
  BY DEF Rs!Teardown, SpankInv, Making, Beginnings, Places, Before, Unmade, InitPlaces
<1>10. CNames'
  BY DEF Rs!Teardown, SpankInv, CNames, Making, Beginnings, StageOK, Places, Before,
    Unmade, InitPlaces
<1>11. RsNames'
  BY DEF Rs!Teardown, SpankInv, RsNames, Places, Making, Beginnings, StageOK, Freed,
    InitPlaces, Before, Unmade
<1>12. RenewerNames'
  BY DEF Rs!Teardown, SpankInv, RenewerNames, Places, Beginnings, StageOK, CachesOK,
    InitPlaces, Before, Unmade, Caches
<1>13. Reaping'
  BY SpankAssumption DEF Rs!Teardown, SpankInv, Reaping, Places, TasksOK, StageOK,
    Beginnings, Undisturbed, InitPlaces, Before, Unmade
<1>14. Holds'
  BY DEF Rs!Teardown, SpankInv, Holds, CachesOK, Beginnings, Places, Making, CNames,
    Freed, RenewerNames, Reaping, Removable, Undisturbed, Caches, Before, Unmade,
    InitPlaces
<1>15. Flushing'
  BY SpankAssumption DEF Rs!Teardown, SpankInv, Flushing, Beginnings, TasksOK, Places,
    StageOK, Before, Unmade, InitPlaces
<1> QED
  BY <1>1, <1>2, <1>3, <1>4, <1>5, <1>6, <1>7, <1>8, <1>9, <1>10, <1>11, <1>12, <1>13,
    <1>14, <1>15 DEF SpankInv

LEMMA SlurmStep ==
  ASSUME SpankInv, Slurm
  PROVE  SpankInv'
<1> USE DEF jobVars, submitVars, privVars, cacheVars, renewerVars, taskVars, Starts,
  Goto, Return, MayFail, Unconfirmed, Alive, Launch, TaskWrites, Abort
<1>1. JobOK'
  BY DEF Slurm, SpankInv, JobOK, Modes, EnvValues
<1>2. StageOK'
  BY DEF Slurm, SpankInv, StageOK
<1>3. CachesOK'
  BY DEF Slurm, SpankInv, CachesOK, Caches
<1>4. TasksOK'
  BY SpankAssumption DEF Slurm, SpankInv, TasksOK
<1>5. Places'
  BY SpankAssumption DEF Slurm, SpankInv, Places, TasksOK, InitPlaces
<1>6. Beginnings'
  BY SpankAssumption DEF Slurm, SpankInv, Beginnings, Places, CachesOK, Before, Unmade,
    InitPlaces, Caches
<1>7. Refusal'
  BY DEF Slurm, SpankInv, Refusal, Places, InitPlaces
<1>8. Freed'
  BY DEF Slurm, SpankInv, Freed, Beginnings, Places, Before, Unmade, InitPlaces
<1>9. Making'
  BY DEF Slurm, SpankInv, Making, Beginnings, Places, Before, Unmade, InitPlaces
<1>10. CNames'
  BY DEF Slurm, SpankInv, CNames, Making, Beginnings, StageOK, Places, Before, Unmade,
    InitPlaces
<1>11. RsNames'
  BY DEF Slurm, SpankInv, RsNames, Places, Making, Beginnings, StageOK, Freed,
    InitPlaces, Before, Unmade
<1>12. RenewerNames'
  BY DEF Slurm, SpankInv, RenewerNames, Places, Beginnings, StageOK, CachesOK,
    InitPlaces, Before, Unmade, Caches
<1>13. Reaping'
  BY SpankAssumption DEF Slurm, SpankInv, Reaping, Places, TasksOK, StageOK, Beginnings,
    Undisturbed, InitPlaces, Before, Unmade
<1>14. Holds'
  BY DEF Slurm, SpankInv, Holds, CachesOK, Beginnings, Places, Making, CNames, Freed,
    RenewerNames, Reaping, Removable, Undisturbed, Caches, Before, Unmade, InitPlaces
<1>15. Flushing'
  BY SpankAssumption DEF Slurm, SpankInv, Flushing, Beginnings, TasksOK, Places,
    StageOK, Before, Unmade, InitPlaces
<1> QED
  BY <1>1, <1>2, <1>3, <1>4, <1>5, <1>6, <1>7, <1>8, <1>9, <1>10, <1>11, <1>12, <1>13,
    <1>14, <1>15 DEF SpankInv

LEMMA RenewerStep ==
  ASSUME SpankInv, Renewer
  PROVE  SpankInv'
<1> USE DEF jobVars, submitVars, privVars, cacheVars, renewerVars, taskVars, Starts,
  Goto, Return, MayFail, Unconfirmed, Alive, RenewerTest, RenewerStore, RenewerDies
<1>1. JobOK'
  BY DEF Renewer, SpankInv, JobOK, Modes, EnvValues
<1>2. StageOK'
  BY DEF Renewer, SpankInv, StageOK
<1>3. CachesOK'
  BY DEF Renewer, SpankInv, CachesOK, Caches
<1>4. TasksOK'
  BY SpankAssumption DEF Renewer, SpankInv, TasksOK
<1>5. Places'
  BY SpankAssumption DEF Renewer, SpankInv, Places, TasksOK, InitPlaces
<1>6. Beginnings'
  BY SpankAssumption DEF Renewer, SpankInv, Beginnings, Places, CachesOK, Before,
    Unmade, InitPlaces, Caches
<1>7. Refusal'
  BY DEF Renewer, SpankInv, Refusal, Places, InitPlaces
<1>8. Freed'
  BY DEF Renewer, SpankInv, Freed, Beginnings, Places, Before, Unmade, InitPlaces
<1>9. Making'
  BY DEF Renewer, SpankInv, Making, Beginnings, Places, Before, Unmade, InitPlaces
<1>10. CNames'
  BY DEF Renewer, SpankInv, CNames, Making, Beginnings, StageOK, Places, Before, Unmade,
    InitPlaces
<1>11. RsNames'
  BY DEF Renewer, SpankInv, RsNames, Places, Making, Beginnings, StageOK, Freed,
    InitPlaces, Before, Unmade
<1>12. RenewerNames'
  BY DEF Renewer, SpankInv, RenewerNames, Places, Beginnings, StageOK, CachesOK,
    InitPlaces, Before, Unmade, Caches
<1>13. Reaping'
  BY SpankAssumption DEF Renewer, SpankInv, Reaping, Places, TasksOK, StageOK,
    Beginnings, Undisturbed, InitPlaces, Before, Unmade
<1>14. Holds'
  BY DEF Renewer, SpankInv, Holds, CachesOK, Beginnings, Places, Making, CNames, Freed,
    RenewerNames, Reaping, Removable, Undisturbed, Caches, Before, Unmade, InitPlaces
<1>15. Flushing'
  BY SpankAssumption DEF Renewer, SpankInv, Flushing, Beginnings, TasksOK, Places,
    StageOK, Before, Unmade, InitPlaces
<1> QED
  BY <1>1, <1>2, <1>3, <1>4, <1>5, <1>6, <1>7, <1>8, <1>9, <1>10, <1>11, <1>12, <1>13,
    <1>14, <1>15 DEF SpankInv

----------------------------------------------------------------------------
(* The theorems                                                            *)

LEMMA SpankInvInit == SpankInit => SpankInv
<1> SUFFICES ASSUME SpankInit PROVE SpankInv
  OBVIOUS
<1> USE DEF SpankInit, Alive
<1>1. PICK u \in {"absent", "full"}, d \in {"absent", "full"} :
        caches = [user |-> u, default |-> d, unique |-> "absent"]
  OBVIOUS
<1>2. JobOK
  BY SpankAssumption DEF JobOK, EnvValues
<1>3. StageOK
  BY DEF StageOK
<1>4. CachesOK
  <2>1. DOMAIN caches = Caches
    BY <1>1 DEF Caches
  <2>2. \A k \in Caches : caches[k] \in {"absent", "empty", "full"}
    BY <1>1 DEF Caches
  <2>3. caches = [k \in Caches |-> caches[k]]
    BY <1>1, <2>1
  <2>4. caches \in [Caches -> {"absent", "empty", "full"}]
    BY <2>2, <2>3
  <2> QED
    BY <2>4 DEF CachesOK, Caches
<1>5. TasksOK
  <2>1. NTasks \in Nat
    BY SpankAssumption
  <2>2. ended = 0 /\ exited = 0 /\ dirty \in BOOLEAN /\ synced \in BOOLEAN
    OBVIOUS
  <2> HIDE DEF SpankInit
  <2> QED
    BY <2>1, <2>2 DEF TasksOK
<1>6. Places /\ Refusal /\ Freed /\ Making /\ CNames /\ RsNames /\ RenewerNames
  BY DEF Places, InitPlaces, Refusal, Freed, Making, CNames, RsNames, RenewerNames
<1>7. Beginnings
  BY <1>1 DEF Beginnings, Before, Unmade
<1>8. Reaping /\ Flushing
  BY DEF Reaping, Undisturbed, Flushing
<1>9. Holds
  BY <1>1 DEF Holds, Removable
<1> QED
  BY <1>2, <1>3, <1>4, <1>5, <1>6, <1>7, <1>8, <1>9 DEF SpankInv

\* Slurm and the renewer are the same with either plugin.
LEMMA CShared == (C!Slurm => Slurm) /\ (C!Renewer => Renewer)
<1>1. ASSUME C!Slurm PROVE Slurm
  BY <1>1 DEF C!Slurm, C!Launch, C!TaskWrites, C!Abort, C!Starts, C!MayFail, C!jobVars,
    C!submitVars, C!privVars, C!cacheVars, C!renewerVars, C!taskVars, Slurm, Launch,
    TaskWrites, Abort, Starts, MayFail, jobVars, submitVars, privVars, cacheVars,
    renewerVars, taskVars
<1>2. ASSUME C!Renewer PROVE Renewer
  BY <1>2 DEF C!Renewer, C!RenewerTest, C!RenewerStore, C!RenewerDies, C!Alive, C!jobVars,
    C!submitVars, C!privVars, C!cacheVars, C!renewerVars, C!taskVars, Renewer, RenewerTest,
    RenewerStore, RenewerDies, Alive, jobVars, submitVars, privVars, cacheVars, renewerVars,
    taskVars
<1> QED
  BY <1>1, <1>2

LEMMA RsShared == (Rs!Slurm => Slurm) /\ (Rs!Renewer => Renewer)
<1>1. ASSUME Rs!Slurm PROVE Slurm
  BY <1>1 DEF Rs!Slurm, Rs!Launch, Rs!TaskWrites, Rs!Abort, Rs!Starts, Rs!MayFail,
    Rs!jobVars, Rs!submitVars, Rs!privVars, Rs!cacheVars, Rs!renewerVars, Rs!taskVars,
    Slurm, Launch, TaskWrites, Abort, Starts, MayFail, jobVars, submitVars, privVars,
    cacheVars, renewerVars, taskVars
<1>2. ASSUME Rs!Renewer PROVE Renewer
  BY <1>2 DEF Rs!Renewer, Rs!RenewerTest, Rs!RenewerStore, Rs!RenewerDies, Rs!Alive,
    Rs!jobVars, Rs!submitVars, Rs!privVars, Rs!cacheVars, Rs!renewerVars, Rs!taskVars,
    Renewer, RenewerTest, RenewerStore, RenewerDies, Alive, jobVars, submitVars, privVars,
    cacheVars, renewerVars, taskVars
<1> QED
  BY <1>1, <1>2

LEMMA CStep == ASSUME SpankInv, plugin = "c", C!SpankCNext PROVE SpankInv'
  BY CSubmissionStep, CInitStep, COptionStep, CUserInitStep, CTeardownStep, SlurmStep,
    RenewerStep, CShared DEF C!SpankCNext

LEMMA RsStep == ASSUME SpankInv, plugin = "rs", Rs!SpankRsNext PROVE SpankInv'
  BY RsSubmissionStep, RsInitStep, RsOptionStep, RsRenewerInitStep, RsTeardownStep,
    SlurmStep, RenewerStep, RsShared DEF Rs!SpankRsNext

LEMMA IdleStep == SpankInv /\ UNCHANGED spankVars => SpankInv'
<1> SUFFICES ASSUME SpankInv, UNCHANGED spankVars PROVE SpankInv'
  OBVIOUS
<1> USE DEF spankVars, jobVars, submitVars, privVars, cacheVars, renewerVars, taskVars
<1>1. (JobOK /\ StageOK /\ CachesOK /\ TasksOK)'
  BY DEF SpankInv, JobOK, StageOK, CachesOK, TasksOK
<1>2. (Places /\ Beginnings /\ Refusal /\ Freed /\ Making)'
  BY DEF SpankInv, Places, Beginnings, Before, Unmade, Refusal, Freed, Making
<1>3. (CNames /\ RsNames /\ RenewerNames)'
  BY DEF SpankInv, CNames, RsNames, RenewerNames, Alive
<1>4. (Reaping /\ Holds /\ Flushing)'
  BY DEF SpankInv, Reaping, Undisturbed, Unconfirmed, MayFail, Holds, Removable, Flushing, Alive
<1> QED
  BY <1>1, <1>2, <1>3, <1>4 DEF SpankInv

\* The invariant holds of every step of every job.
THEOREM StepInvariant == StepSpec => []SpankInv
<1>1. SpankInv /\ [StepNext]_spankVars => SpankInv'
  BY CStep, RsStep, IdleStep DEF StepNext
<1> QED
  BY SpankInvInit, <1>1, PTL DEF StepSpec

\* The variables of a step keep to their types.
THEOREM StepTypes == StepSpec => []SpankTypeOK
<1>1. SpankInv => SpankTypeOK
  BY DEF SpankInv, JobOK, StageOK, CachesOK, TasksOK, SpankTypeOK
<1> QED
  BY <1>1, StepInvariant, PTL

\* Between two hooks slurmstepd is root again, whatever failed in the hook and however
\* far the change to the user had come.
THEOREM StepdIsRootAgain == StepSpec => []PrivilegesRestored
<1>1. SpankInv => PrivilegesRestored
  BY DEF SpankInv, Places, PrivilegesRestored
<1> QED
  BY <1>1, StepInvariant, PTL

\* A step that is over leaves no credential in the cache that was made for it, with
\* the exceptions that the property names.
THEOREM CredentialIsRemoved == StepSpec => []NothingLeftBehind
<1>1. SpankInv => NothingLeftBehind
  <2> SUFFICES ASSUME SpankInv, stage = "over", Removable PROVE caches["unique"] # "full"
    BY DEF NothingLeftBehind, Removable
  <2>1. at \notin {"publish", "helper", "out_cred"} /\ name # "valid"
    BY DEF SpankInv, Places, InitPlaces, Holds
  <2> QED
    BY <2>1 DEF SpankInv, Holds
<1> QED
  BY <1>1, StepInvariant, PTL

\* The Rust plugin makes no cache for a step whose user said --auks=no.
THEOREM RefusalIsHonoured == StepSpec => []Honoured
<1>1. SpankInv => Honoured
  BY DEF SpankInv, Refusal, Honoured
<1> QED
  BY <1>1, StepInvariant, PTL

\* A name that was freed is used after a failed store of the C plugin only.
THEOREM FreedNamesAreNotUsed == StepSpec => []NameIsDefined
<1>1. SpankInv => NameIsDefined
  BY DEF SpankInv, Freed, NameIsDefined
<1> QED
  BY <1>1, StepInvariant, PTL

\* The renewer works on the cache of the tasks.
THEOREM RenewerHasTheCacheOfTheJob == StepSpec => []RenewsCacheOfJob
<1>1. SpankInv => RenewsCacheOfJob
  <2> SUFFICES ASSUME SpankInv, Alive, stage = "tasks",
                      IF plugin = "rs"
                      THEN (ccname = "unique" /\ "helper" \notin faults) \/ reused # "none"
                      ELSE ccname = "unique"
               PROVE  rcache = JobCache
    BY DEF RenewsCacheOfJob
  <2>1. at \notin InitPlaces
    BY DEF SpankInv, Places
  <2>2. CASE plugin = "c"
    BY <2>2 DEF SpankInv, CNames, RenewerNames, JobCache
  <2>3. CASE plugin = "rs"
    BY <2>1, <2>3 DEF SpankInv, RsNames, RenewerNames, JobCache, InitPlaces, CachesOK, Caches
  <2> QED
    BY <2>2, <2>3, SpankAssumption DEF SpankInv, JobOK
<1> QED
  BY <1>1, StepInvariant, PTL

\* No renewer is at work when the credential is removed, but for one that the plugin
\* could not signal, or has signalled and could not wait for.
THEOREM RenewerIsGoneFirst == StepSpec => RenewerFirst
<1>1. SpankInv =>
        [(at = "destroy" /\ at' # at /\ faults \cap {"items", "privilege", "abort"} = {})
           => ~Alive \/ Unconfirmed]_spankVars
  BY DEF SpankInv, Places, Reaping, Undisturbed
<1> QED
  BY <1>1, StepInvariant, PTL DEF RenewerFirst

\* The steps that FlushedFirst is about.  Whatever the hook, a flush comes before.
LEMMA CFlush ==
  ASSUME SpankInv, C!SpankCNext, conf.sync,
         (signal = "none" /\ signal' = "term") \/ (at = "destroy" /\ at' # at)
  PROVE  ~dirty'
<1> USE DEF C!jobVars, C!submitVars, C!privVars, C!cacheVars, C!renewerVars, C!taskVars,
  C!Starts, C!Goto, C!Return
<1>1. CASE C!Submission
  BY <1>1 DEF C!Submission, C!OptProcess, C!LocalUserInit
<1>2. CASE C!RemoteInitSteps
  BY <1>2 DEF C!RemoteInitSteps, C!RemoteInit, C!ApiInit, C!GetCred, C!DropPrivileges,
    C!CheckExisting, C!NewCache, C!StoreCred, C!Publish, C!OutErr, C!OutCred
<1>3. CASE C!RemoteOption \/ C!UserInit
  BY <1>3 DEF C!RemoteOption, C!UserInit
<1>4. CASE C!Teardown
  BY <1>4 DEF C!Teardown, C!TaskExit, C!StopRenewer, C!WaitRenewer, C!RemoteExit,
    C!DestroyCache, C!SyncFs, SpankInv, Flushing
<1>5. CASE C!Slurm \/ C!Renewer
  BY <1>5 DEF C!Slurm, C!Launch, C!TaskWrites, C!Abort, C!Renewer, C!RenewerTest,
    C!RenewerStore, C!RenewerDies
<1> QED
  BY <1>1, <1>2, <1>3, <1>4, <1>5 DEF C!SpankCNext

LEMMA RsFlush ==
  ASSUME SpankInv, Rs!SpankRsNext, conf.sync,
         (signal = "none" /\ signal' = "term") \/ (at = "destroy" /\ at' # at)
  PROVE  ~dirty'
<1> USE DEF Rs!jobVars, Rs!submitVars, Rs!privVars, Rs!cacheVars, Rs!renewerVars,
  Rs!taskVars, Rs!Starts, Rs!Goto, Rs!Return
<1>1. CASE Rs!Submission
  BY <1>1 DEF Rs!Submission, Rs!SubmitOption, Rs!LocalUserInit
<1>2. CASE Rs!RemoteInitSteps
  BY <1>2 DEF Rs!RemoteInitSteps, Rs!RemoteInit, Rs!ConfiguredClient, Rs!GetCred,
    Rs!DropPrivileges, Rs!CheckExisting, Rs!NewCache, Rs!StoreCred, Rs!Publish,
    Rs!RunHelper, Rs!OutCred
<1>3. CASE Rs!RemoteOption \/ Rs!RenewerInit
  BY <1>3 DEF Rs!RemoteOption, Rs!RenewerInit
<1>4. CASE Rs!Teardown
  BY <1>4 DEF Rs!Teardown, Rs!TaskExit, Rs!StopRenewer, Rs!KillRenewer, Rs!RenewerReaped,
    Rs!StopFails, Rs!RemoteExit, Rs!DestroyCache, Rs!SyncFiles, SpankInv, Flushing
<1>5. CASE Rs!Slurm \/ Rs!Renewer
  BY <1>5 DEF Rs!Slurm, Rs!Launch, Rs!TaskWrites, Rs!Abort, Rs!Renewer, Rs!RenewerTest,
    Rs!RenewerStore, Rs!RenewerDies
<1> QED
  BY <1>1, <1>2, <1>3, <1>4, <1>5 DEF Rs!SpankRsNext

\* With sync=, what the tasks wrote is flushed before the renewer is signalled and
\* before the credential is removed.
THEOREM WritesAreFlushedFirst == StepSpec => FlushedFirst
<1>1. SpankInv /\ [StepNext]_spankVars =>
        [conf.sync /\ ((signal = "none" /\ signal' = "term") \/ (at = "destroy" /\ at' # at))
           => ~dirty']_spankVars
  BY CFlush, RsFlush DEF StepNext
<1> QED
  BY <1>1, StepInvariant, PTL DEF StepSpec, FlushedFirst
=============================================================================
