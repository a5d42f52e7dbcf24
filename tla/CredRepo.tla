------------------------------ MODULE CredRepo ------------------------------
(***************************************************************************)
(* The credential repository of auksd (src/api/auks/auks_cred_repo.c): an  *)
(* in-memory library indexed by uid, doubled by one ccache file per uid in *)
(* CacheDir.  Every operation runs inside the repository mutex, so at most *)
(* one is in progress; `op' is its frame, and op.pc = "idle" means that    *)
(* the mutex is free.  The steps of an operation are kept apart where the  *)
(* code touches the disk, because the process may die between two of them. *)
(*                                                                         *)
(* The krb5 library, libc and the kernel are the environment: faults names *)
(* what they may refuse to do in a behaviour.                              *)
(***************************************************************************)
EXTENDS Integers, FiniteSets

CONSTANTS
  Principals,   \* kerberos principals that own credentials
  Uids,         \* local user ids
  RootUid,      \* uid 0, what a zeroed auks_cred_t designates
  Account,      \* the uid of a principal's local account, or NoAccount
  NoAccount,
  EndTimes,     \* the endtimes of the credentials that clients hold
  RenewTills,   \* the renew_till of these credentials (0: not renewable)
  NoCred,       \* no credential in the library, no file in CacheDir
  Partial,      \* a ccache file that krb5_cc_initialize has just truncated
  Unknown,      \* nothing is promised about the credential of a uid
  FaultSets,    \* what may fail together, a set of subsets of FaultKinds
  MaxTime,      \* bound of the clock
  MaxRestarts   \* bound on the number of starts after the first

\* "oom": malloc fails under a freelist or an index; "unlink" and "store":
\* the removal or the writing of a ccache file fails; "load": a ccache file
\* cannot be read back at startup; "crash": the process dies at any point.
FaultKinds == {"oom", "unlink", "store", "load", "crash"}

ASSUME RepoAssumption ==
  /\ RootUid \in Uids
  /\ IsFiniteSet(Uids)
  /\ NoAccount \notin Uids
  /\ Account \in [Principals -> Uids \cup {NoAccount}]
  /\ EndTimes \subseteq Nat \ {0}
  /\ RenewTills \subseteq Nat
  /\ FaultSets \subseteq SUBSET FaultKinds
  /\ MaxTime \in Nat \ {0}
  /\ MaxRestarts \in Nat

Cred == [owner : Principals, uid : Uids, endtime : EndTimes, renewTill : RenewTills]

ASSUME ValuesAssumption ==
  /\ NoCred \notin Cred
  /\ Partial \notin Cred
  /\ Unknown \notin Cred
  /\ NoCred # Partial
  /\ NoCred # Unknown

VARIABLES
  library,      \* uid -> the credential held in memory
  disk,         \* uid -> the contents of CacheDir/aukscc_<uid>
  op,           \* the operation that holds the repository mutex
  now,          \* time(2)
  restarts,     \* starts of the daemon after the first
  faults,       \* what may fail, chosen at the start and for ever
  promise,      \* history: what the last acknowledged operation promised
  torn          \* history: uids whose addition a crash interrupted

repoVars == <<library, disk, op, now, restarts, faults, promise, torn>>

----------------------------------------------------------------------------
(* Credentials.                                                            *)

\* The uids that auks_cred_init may give to a credential of p.  When p has
\* no local account getpwnam_r succeeds without an entry, the result pointer
\* is not tested, and pw_uid is read uninitialised: any value.
InitUids(p) == IF Account[p] = NoAccount THEN Uids ELSE {Account[p]}

\* The replacement rule of auks_cred_repo_add_nolock.
AtLeastAsGood(new, old) ==
  \/ new.renewTill > old.renewTill
  \/ new.renewTill = old.renewTill /\ new.endtime >= old.endtime

\* The cleaner's test.
Expired(c, t) ==
  \/ c.endtime < t
  \/ c.renewTill > 0 /\ c.renewTill < t

Held == {u \in Uids : library[u] # NoCred}
Files == {u \in Uids : disk[u] # NoCred}

Fault(f) == f \in faults

----------------------------------------------------------------------------
(* The frame of the operation in progress.                                 *)

Idle == [kind |-> "none", pc |-> "idle", uid |-> RootUid, cred |-> NoCred,
         old |-> NoCred, ret |-> "none", todo |-> {}, ctime |-> 0]

Kinds == {"none", "add", "remove", "clean", "load"}
Pcs == {"idle", "unlink", "insert", "init", "write", "clean", "load", "done"}
Rets == {"none", "success", "not_found", "unlink_failed", "store_failed",
         "library_add", "update_index"}

Slot == Cred \cup {NoCred}

Frames == [kind : Kinds, pc : Pcs, uid : Uids, cred : Slot, old : Slot,
           ret : Rets, todo : SUBSET Uids, ctime : Nat]

Free == op.pc = "idle"
At(pc) == op.pc = pc
Goto(pc) == op' = [op EXCEPT !.pc = pc]
Finish(ret) == op' = [op EXCEPT !.pc = "done", !.ret = ret]

RepoInit ==
  /\ library = [u \in Uids |-> NoCred]
  /\ disk = [u \in Uids |-> NoCred]
  /\ op = Idle
  /\ now = 1
  /\ restarts = 0
  /\ faults \in FaultSets
  /\ promise = [u \in Uids |-> Unknown]
  /\ torn = {}

history == <<promise, torn>>
world == <<now, restarts, faults>>

----------------------------------------------------------------------------
(* auks_cred_repo_add                                                      *)

\* Mutant: the old credential is replaced even when it is the better one.
BeginAddAlways(c) ==
  /\ Free
  /\ op' = [Idle EXCEPT !.kind = "add", !.uid = c.uid, !.cred = c, !.old = library[c.uid],
                        !.pc = IF library[c.uid] = NoCred THEN "insert" ELSE "unlink"]
  /\ library' = [library EXCEPT ![c.uid] = NoCred]
  /\ UNCHANGED <<disk, world, history>>

\* Takes the mutex, looks the old credential up and compares.  An old one
\* that is strictly better stays and the addition succeeds without effect;
\* one that is not is first removed from the library, then its file is.
BeginAdd(c) ==
  LET old == library[c.uid]
      frame == [Idle EXCEPT !.kind = "add", !.uid = c.uid, !.cred = c, !.old = old]
  IN
  /\ Free
  /\ \/ /\ old = NoCred
        /\ op' = [frame EXCEPT !.pc = "insert"]
        /\ UNCHANGED library
     \/ /\ old # NoCred
        /\ ~AtLeastAsGood(c, old)
        /\ op' = [frame EXCEPT !.pc = "done", !.ret = "success"]
        /\ UNCHANGED library
     \/ /\ old # NoCred
        /\ AtLeastAsGood(c, old)
        /\ op' = [frame EXCEPT !.pc = "unlink"]
        /\ library' = [library EXCEPT ![c.uid] = NoCred]
  /\ UNCHANGED <<disk, world, history>>

\* The same when the lookup cannot get a working item: the old credential,
\* better or not, is taken for absent and xlibrary_add_item replaces it.
\* It is also what happens when the removal of the old one cannot get it.
BeginAddBlind(c) ==
  /\ Fault("oom")
  /\ Free
  /\ library[c.uid] # NoCred
  /\ op' = [Idle EXCEPT !.kind = "add", !.uid = c.uid, !.cred = c,
                        !.old = library[c.uid], !.pc = "insert"]
  /\ UNCHANGED <<library, disk, world, history>>

\* unlink(2) in auks_cred_repo_remove_nolock; it fails when told to, and
\* when the file is not there.
UnlinkOk(u) ==
  /\ disk[u] # NoCred
  /\ disk' = [disk EXCEPT ![u] = NoCred]

UnlinkFails(u) ==
  /\ Fault("unlink") \/ disk[u] = NoCred
  /\ UNCHANGED disk

\* Mutant: the old file is left to be overwritten by the new credential.
AddUnlinkLeft ==
  /\ At("unlink")
  /\ op.kind = "add"
  /\ Goto("insert")
  /\ UNCHANGED <<library, disk, world, history>>

\* The addition ignores the status of the removal.
AddUnlink ==
  /\ At("unlink")
  /\ op.kind = "add"
  /\ UnlinkOk(op.uid) \/ UnlinkFails(op.uid)
  /\ Goto("insert")
  /\ UNCHANGED <<library, world, history>>

\* Mutant: an addition that never writes the file.
AddInsertOnly ==
  /\ At("insert")
  /\ library' = [library EXCEPT ![op.uid] = op.cred]
  /\ Finish("success")
  /\ UNCHANGED <<disk, world, history>>

AddInsert ==
  /\ At("insert")
  /\ library' = [library EXCEPT ![op.uid] = op.cred]
  /\ Goto("init")
  /\ UNCHANGED <<disk, world, history>>

\* The old credential is still in the tree when its removal, inside
\* xlibrary_add_item, cannot get a working item.  tsearch(3) then finds it
\* and does not replace it: only the file gets the new one.
AddInsertShadowed ==
  /\ Fault("oom")
  /\ At("insert")
  /\ library[op.uid] # NoCred
  /\ Goto("init")
  /\ UNCHANGED <<library, disk, world, history>>

\* xlibrary_add_item fails before or after it has dropped the old item.
AddInsertFails ==
  /\ Fault("oom")
  /\ At("insert")
  /\ \/ UNCHANGED library
     \/ library' = [library EXCEPT ![op.uid] = NoCred]
  /\ Finish("library_add")
  /\ UNCHANGED <<disk, world, history>>

\* krb5_cc_initialize truncates the file ...
AddInitFile ==
  /\ At("init")
  /\ disk' = [disk EXCEPT ![op.uid] = Partial]
  /\ Goto("write")
  /\ UNCHANGED <<library, world, history>>

\* ... and krb5_cc_store_cred fills it.
AddWriteFile ==
  /\ At("write")
  /\ disk' = [disk EXCEPT ![op.uid] = op.cred]
  /\ Finish("success")
  /\ UNCHANGED <<library, world, history>>

\* Either call may fail; the credential stays in the library.
AddStoreFails ==
  /\ Fault("store")
  /\ At("init") \/ At("write")
  /\ Finish("store_failed")
  /\ UNCHANGED <<library, disk, world, history>>

----------------------------------------------------------------------------
(* auks_cred_repo_remove                                                   *)

BeginRemove(u) ==
  LET frame == [Idle EXCEPT !.kind = "remove", !.uid = u, !.old = library[u]]
  IN
  /\ Free
  /\ \/ /\ library[u] # NoCred
        /\ library' = [library EXCEPT ![u] = NoCred]
        /\ op' = [frame EXCEPT !.pc = "unlink"]
     \/ /\ library[u] = NoCred \/ Fault("oom")
        /\ op' = [frame EXCEPT !.pc = "done", !.ret = "not_found"]
        /\ UNCHANGED library
  /\ UNCHANGED <<disk, world, history>>

\* Mutant: the removal does not report that the file is still there.
RemoveUnlinkIgnored ==
  /\ At("unlink")
  /\ op.kind = "remove"
  /\ UnlinkOk(op.uid) \/ UnlinkFails(op.uid)
  /\ Finish("success")
  /\ UNCHANGED <<library, world, history>>

RemoveUnlink ==
  /\ At("unlink")
  /\ op.kind = "remove"
  /\ \/ UnlinkOk(op.uid) /\ Finish("success")
     \/ UnlinkFails(op.uid) /\ Finish("unlink_failed")
  /\ UNCHANGED <<library, world, history>>

----------------------------------------------------------------------------
(* auks_cred_repo_clean                                                    *)

\* Mutant: the index is not rebuilt.
BeginCleanStale ==
  /\ Free
  /\ op' = [Idle EXCEPT !.kind = "clean", !.pc = "clean", !.ret = "success", !.ctime = now]
  /\ UNCHANGED <<library, disk, world, history>>

\* The index lists the library's items; the clock is read once.
BeginClean ==
  /\ Free
  /\ \/ op' = [Idle EXCEPT !.kind = "clean", !.pc = "clean", !.ret = "success",
                           !.todo = Held, !.ctime = now]
     \/ /\ Fault("oom")
        /\ Held # {}
        /\ op' = [Idle EXCEPT !.kind = "clean", !.pc = "done", !.ret = "update_index"]
  /\ UNCHANGED <<library, disk, world, history>>

\* auks_cred_repo_remove_nolock, up to the unlink.
CleanRemove(u, rest) ==
  \/ /\ library[u] # NoCred
     /\ library' = [library EXCEPT ![u] = NoCred]
     /\ op' = [op EXCEPT !.pc = "unlink", !.uid = u, !.old = library[u], !.todo = rest]
  \/ /\ library[u] = NoCred \/ Fault("oom")
     /\ op' = [op EXCEPT !.ret = "not_found", !.todo = rest]
     /\ UNCHANGED library

CleanKeep(u) ==
  /\ At("clean")
  /\ u \in op.todo
  /\ library[u] # NoCred
  /\ ~Expired(library[u], op.ctime)
  /\ op' = [op EXCEPT !.todo = @ \ {u}, !.ret = "success"]
  /\ UNCHANGED <<library, disk, world, history>>

\* Mutant: the comparison with the clock is off by one.
CleanExpiredEarly(u) ==
  /\ At("clean")
  /\ u \in op.todo
  /\ library[u] # NoCred
  /\ Expired(library[u], op.ctime + 1)
  /\ CleanRemove(u, op.todo \ {u})
  /\ UNCHANGED <<disk, world, history>>

CleanExpired(u) ==
  /\ At("clean")
  /\ u \in op.todo
  /\ library[u] # NoCred
  /\ Expired(library[u], op.ctime)
  /\ CleanRemove(u, op.todo \ {u})
  /\ UNCHANGED <<disk, world, history>>

\* When the lookup of an indexed item fails the zeroed auks_cred_t is tested
\* in its place: its endtime, 0, is past and its uid is 0.
CleanLookupFails(u) ==
  /\ At("clean")
  /\ u \in op.todo
  /\ library[u] = NoCred \/ Fault("oom")
  /\ CleanRemove(RootUid, op.todo \ {u})
  /\ UNCHANGED <<disk, world, history>>

\* The removal of one credential ends; the loop keeps the last status only.
ResumeClean(ret) ==
  op' = [op EXCEPT !.pc = "clean", !.ret = ret, !.uid = RootUid, !.old = NoCred]

CleanUnlink ==
  /\ At("unlink")
  /\ op.kind = "clean"
  /\ \/ /\ UnlinkOk(op.uid)
        /\ ResumeClean("success")
        /\ promise' = [promise EXCEPT ![op.uid] = NoCred]
     \/ /\ UnlinkFails(op.uid)
        /\ ResumeClean("unlink_failed")
        /\ promise' = [promise EXCEPT ![op.uid] = Unknown]
  /\ torn' = torn \ {op.uid}
  /\ UNCHANGED <<library, world>>

CleanEnd ==
  /\ At("clean")
  /\ op.todo = {}
  /\ Goto("done")
  /\ UNCHANGED <<library, disk, world, history>>

----------------------------------------------------------------------------
(* The end of an operation: the mutex is released and the caller learns the *)
(* status.  The history keeps what it may rely on from now on: after an     *)
(* accepted addition, a credential at least as good as every one accepted   *)
(* since the last removal; after a removal, none.                           *)

Better(c, p) == p \in Cred /\ AtLeastAsGood(p, c) /\ ~AtLeastAsGood(c, p)

Promised ==
  CASE op.kind = "add" /\ op.ret = "success" ->
         IF op.uid \notin torn /\ Better(op.cred, promise[op.uid])
         THEN promise[op.uid] ELSE op.cred
    [] op.kind = "remove" /\ op.ret = "success" -> NoCred
    [] OTHER -> Unknown

Settles == op.kind \in {"add", "remove"} /\ op.ret # "not_found"

End ==
  /\ At("done")
  /\ op' = Idle
  /\ IF Settles
     THEN /\ promise' = [promise EXCEPT ![op.uid] = Promised]
          /\ torn' = torn \ {op.uid}
     ELSE UNCHANGED history
  /\ UNCHANGED <<library, disk, world>>

----------------------------------------------------------------------------
(* Starts: auks_cred_repo_init and auks_cred_repo_load_cache.              *)

\* The memory is lost and the files of CacheDir are to be loaded.
Start ==
  /\ restarts < MaxRestarts
  /\ restarts' = restarts + 1
  /\ library' = [u \in Uids |-> NoCred]
  /\ op' = [Idle EXCEPT !.kind = "load", !.pc = "load", !.todo = Files]
  /\ UNCHANGED <<disk, now, faults>>

\* SIGHUP, or SIGTERM and a later start: no operation is in progress.
Restart ==
  /\ Free
  /\ Start
  /\ UNCHANGED history

\* A crash leaves it open whether a removal in progress took place, and it
\* tears an addition.
Crash ==
  /\ Fault("crash")
  /\ ~Free
  /\ Start
  /\ promise' = IF op.kind = "remove" \/ (op.kind = "clean" /\ At("unlink"))
                THEN [promise EXCEPT ![op.uid] = Unknown]
                ELSE promise
  /\ torn' = IF op.kind = "add" THEN torn \cup {op.uid} ELSE torn

\* auks_cred_extract recomputes the uid; auks_cred_repo_add runs read-only,
\* so that the removal of a credential it replaces fails and is ignored; its
\* lookup and its insertion may lack memory as in any addition.
LoadFile(v, u) ==
  LET c == [disk[v] EXCEPT !.uid = u]
      old == library[u]
      better == IF old = NoCred \/ AtLeastAsGood(c, old) THEN c ELSE old
      outcomes == IF Fault("oom") THEN {c, old, NoCred} ELSE {better}
  IN
  /\ At("load")
  /\ v \in op.todo
  /\ disk[v] \in Cred
  /\ u \in InitUids(disk[v].owner)
  /\ \E kept \in outcomes : library' = [library EXCEPT ![u] = kept]
  /\ op' = [op EXCEPT !.todo = @ \ {v}]
  /\ UNCHANGED <<disk, world, history>>

\* Mutant: a file without a TGT is loaded all the same.
LoadFailsLoads(v) ==
  /\ At("load")
  /\ v \in op.todo
  /\ disk[v] = Partial
  /\ library' = [library EXCEPT ![v] = disk[v]]
  /\ op' = [op EXCEPT !.todo = @ \ {v}]
  /\ UNCHANGED <<disk, world, history>>

\* A file without a TGT, or one that cannot be read, is left where it is.
LoadFails(v) ==
  /\ At("load")
  /\ v \in op.todo
  /\ disk[v] = Partial \/ Fault("load") \/ Fault("oom")
  /\ op' = [op EXCEPT !.todo = @ \ {v}]
  /\ UNCHANGED <<library, disk, world, history>>

LoadEnd ==
  /\ At("load")
  /\ op.todo = {}
  /\ op' = Idle
  /\ UNCHANGED <<library, disk, world, history>>

----------------------------------------------------------------------------

Tick ==
  /\ now < MaxTime
  /\ now' = now + 1
  /\ UNCHANGED <<library, disk, op, restarts, faults, history>>

\* The steps of the thread that holds the mutex.
Proceed ==
  \/ AddUnlink
  \/ AddInsert
  \/ AddInsertShadowed
  \/ AddInsertFails
  \/ AddInitFile
  \/ AddWriteFile
  \/ AddStoreFails
  \/ RemoveUnlink
  \/ \E u \in Uids : CleanKeep(u)
  \/ \E u \in Uids : CleanExpired(u)
  \/ \E u \in Uids : CleanLookupFails(u)
  \/ CleanUnlink
  \/ CleanEnd
  \/ \E v, u \in Uids : LoadFile(v, u)
  \/ \E v \in Uids : LoadFails(v)
  \/ LoadEnd

\* What auks_cred_init can make of a client's credential.
Offered == {c \in Cred : c.uid \in InitUids(c.owner)}

\* The calls: additions and removals come from the workers, cleanings from
\* the cleaner thread.  Lookups (get, pack) change nothing.
RepoNext ==
  \/ \E c \in Offered : BeginAdd(c)
  \/ \E c \in Offered : BeginAddBlind(c)
  \/ \E u \in Uids : BeginRemove(u)
  \/ BeginClean
  \/ Proceed
  \/ End
  \/ Restart
  \/ Crash
  \/ Tick

RepoSpec == RepoInit /\ [][RepoNext]_repoVars

\* The daemon's threads run: the operation that holds the mutex goes on, and
\* the cleaner, which asks for the mutex again every CleanDelay seconds for
\* as long as the daemon lives, gets it in the end although the workers ask
\* for it too.
RepoFairness ==
  /\ WF_repoVars(Proceed \/ End)
  /\ SF_repoVars(BeginClean)

FairRepoSpec == RepoSpec /\ RepoFairness

----------------------------------------------------------------------------
(* Properties                                                              *)

\* Types of the variables and of the frame.
RepoTypeOK ==
  /\ library \in [Uids -> Slot]
  /\ disk \in [Uids -> Slot \cup {Partial}]
  /\ op \in Frames
  /\ now \in 1..MaxTime
  /\ restarts \in 0..MaxRestarts
  /\ faults \in FaultSets
  /\ promise \in [Uids -> Slot \cup {Unknown}]
  /\ torn \subseteq Uids

Reliable == ~Fault("store") /\ ~Fault("oom")

\* Memory and disk agree: whenever the mutex is free, the file of every uid
\* that the library knows holds the very credential of the library.  This is
\* what add_nolock and remove_nolock keep with their library and file steps,
\* and load_cache re-establishes, as long as files can be written and every
\* owner has an account and memory does not run out.
Mirrored ==
  Free /\ Reliable => \A u \in Held : disk[u] = library[u]

\* A restart brings back nothing older than what memory had: whenever the
\* mutex is free, a complete file holds the very credential of the library.
\* A store that fails, in krb5_cc_initialize or half way through the tickets,
\* and a crash in between leave no file or a torn one, as auks_cred_repo_add
\* has unlinked the old file first; the credential is then in memory only.
\* A file that an unlink leaves behind is excepted, as is one that cannot be
\* read back or a library that lacks memory.
Overwrites == faults \cap {"unlink", "load", "oom"} = {}

FilesCurrent ==
  Free /\ Overwrites => \A u \in Uids : disk[u] \in Cred => disk[u] = library[u]

\* Every principal has a local account.
LocalOwners == \A p \in Principals : Account[p] \in Uids

Owned(c, u) == c.uid = u /\ Account[c.owner] = u

\* What the frame of an operation says of the library at each of its steps.
FrameInv ==
  /\ op.pc \in {"insert", "init", "write"} => op.kind = "add"
  /\ op.pc = "clean" => op.kind = "clean"
  /\ op.kind = "add" => op.cred \in Cred /\ Owned(op.cred, op.uid)
  /\ op.pc = "unlink" => library[op.uid] = NoCred
  /\ op.pc \in {"init", "write"} /\ Reliable => library[op.uid] = op.cred

\* A file is found again under the uid that it is named after.
DiskInv == \A u \in Uids : disk[u] \in Cred => Owned(disk[u], u)

\* Mirrored, as it stands in the middle of an operation: an addition has its
\* credential in the library before its file is complete.
Writing(u) == op.pc \in {"init", "write"} /\ op.uid = u

LibraryInv ==
  Reliable => \A u \in Uids : library[u] # NoCred /\ ~Writing(u) => disk[u] = library[u]

\* Mirrored strengthened to an inductive invariant.
MirrorInv == RepoTypeOK /\ FrameInv /\ DiskInv /\ LibraryInv

\* An acknowledged operation holds until another is acknowledged: after an
\* addition the library has a credential for the uid at least as good as the
\* accepted one, after a removal neither library nor CacheDir has one - not
\* even after restarts.  Only a uid whose own addition a crash interrupted
\* is excepted.  What it takes is memory for the lookups, files that can be
\* read back and, for what is in memory only, that there is no restart.
Keeps(u) ==
  /\ promise[u] \in Cred =>
       library[u] # NoCred /\ AtLeastAsGood(library[u], promise[u])
  /\ promise[u] = NoCred =>
       library[u] = NoCred /\ disk[u] \notin Cred

Dependable ==
  /\ ~Fault("oom")
  /\ ~Fault("load")
  /\ Fault("store") => restarts = 0

PromiseKept == Free /\ Dependable => \A u \in Uids \ torn : Keeps(u)

\* auks_cred_repo.h: the cleaner removes "obsolete credentials".  What it
\* drops is expired, by the clock of the step that drops it; there is one
\* exception, the credential of uid 0, which any lookup that lacks memory
\* designates, expired or not.
CleanOnlyExpired ==
  [][ op.kind = "clean" /\ op'.kind = "clean" =>
        \A u \in Held : library'[u] = NoCred =>
          Expired(library[u], now) \/ (u = RootUid /\ Fault("oom")) ]_repoVars

\* The credential of u as other threads see it: the one an addition replaces,
\* or a removal drops, stays until the operation is past its file.
Stored(u) ==
  CASE op.uid = u /\ op.pc \in {"unlink", "insert"} -> op.old
    [] op.pc = "load" /\ u \in op.todo /\ disk[u] \in Cred -> disk[u]
    [] OTHER -> library[u]

\* The cleaner gets rid of an expired credential in the end, although
\* additions and removals keep competing for the mutex and unlink may fail.
HoldsExpired(u) == Stored(u) # NoCred /\ Expired(Stored(u), now)

EventuallyCleaned ==
  \A u \in Uids : HoldsExpired(u) ~> ~HoldsExpired(u)

\* The repository implements the store of CredStore.tla.
Store == INSTANCE CredStore WITH store <- [u \in Uids |-> Stored(u)]

ImplementsStore == Store!StoreSpec
=============================================================================
