--------------------------- MODULE AuksdReqProofs ---------------------------
(***************************************************************************)
(* Proofs about the repository and about the handlers that change it, for  *)
(* any number of uids, credentials, workers and restarts, any ACL files    *)
(* and any faults.                                                         *)
(*                                                                         *)
(* CredRepo: its type correctness, that memory and disk agree (Mirrored)   *)
(* when every principal has a local account, that a restart brings back    *)
(* nothing older than what memory had (FilesCurrent), that the cleaner drops*)
(* expired credentials (CleanOnlyExpired), that the repository is the      *)
(* store of CredStore (ImplementsStore), and that what was acknowledged    *)
(* holds (PromiseKept).                                                    *)
(*                                                                         *)
(* AuksdReq: the handlers change the repository through its operations     *)
(* only, so that this holds below them, and no reply carries a credential  *)
(* that the ACL in force keeps from its client.                            *)
(***************************************************************************)
EXTENDS AuksdReq, TLAPS

----------------------------------------------------------------------------
(* The repository                                                          *)

----------------------------------------------------------------------------
(* Type correctness                                                        *)

LEMMA IdleType == Idle \in Frames
BY RepoAssumption DEF Idle, Kinds, Pcs, Rets, Slot, Frames

LEMMA InitType == RepoInit => RepoTypeOK
BY RepoAssumption, IdleType DEF RepoInit, RepoTypeOK, Slot

LEMMA OfferedType == Offered \subseteq Cred
BY DEF Offered

USE DEF world, history

\* The steps of an addition.
LEMMA AddType ==
  ASSUME RepoTypeOK,
         \/ \E c \in Offered : BeginAdd(c) \/ BeginAddBlind(c)
         \/ AddUnlink \/ AddInsert \/ AddInsertShadowed \/ AddInsertFails
         \/ AddInitFile \/ AddWriteFile \/ AddStoreFails
  PROVE  RepoTypeOK'
<1> USE DEF RepoTypeOK, Slot
<1>1. ASSUME NEW c \in Offered, BeginAdd(c)
      PROVE  RepoTypeOK'
  <2>1. c \in Cred /\ c.uid \in Uids
    BY <1>1, OfferedType DEF Cred
  <2>2. library[c.uid] \in Slot
    BY <2>1, SMTT(30)
  <2>3. op' \in Frames
    BY <1>1, <2>1, <2>2, IdleType, ZenonT(60) DEF BeginAdd, Frames, Kinds, Pcs, Rets
  <2>4. library' \in [Uids -> Slot]
    BY <1>1, <2>1 DEF BeginAdd
  <2> QED
    BY <1>1, <2>3, <2>4 DEF BeginAdd
<1>2. ASSUME NEW c \in Offered, BeginAddBlind(c)
      PROVE  RepoTypeOK'
  <2>1. c \in Cred /\ c.uid \in Uids
    BY <1>2, OfferedType DEF Cred
  <2>2. library[c.uid] \in Slot
    BY <2>1, SMTT(30)
  <2>3. op' \in Frames
    BY <1>2, <2>1, <2>2, IdleType DEF BeginAddBlind, Frames, Kinds, Pcs
  <2> QED
    BY <1>2, <2>3 DEF BeginAddBlind
<1>3. CASE AddUnlink
  BY <1>3 DEF AddUnlink, UnlinkOk, UnlinkFails, Goto, Frames, Pcs
<1>4. CASE AddInsert
  BY <1>4 DEF AddInsert, Goto, Frames, Pcs
<1>s. CASE AddInsertShadowed
  BY <1>s DEF AddInsertShadowed, Goto, Frames, Pcs
<1>5. CASE AddInsertFails
  BY <1>5 DEF AddInsertFails, Finish, Frames, Pcs, Rets
<1>6. CASE AddInitFile
  BY <1>6 DEF AddInitFile, Goto, Frames, Pcs
<1>7. CASE AddWriteFile
  BY <1>7 DEF AddWriteFile, Finish, Frames, Pcs, Rets
<1>8. CASE AddStoreFails
  BY <1>8 DEF AddStoreFails, Finish, Frames, Pcs, Rets
<1> QED
  BY <1>1, <1>2, <1>3, <1>4, <1>s, <1>5, <1>6, <1>7, <1>8, SMTT(30)

LEMMA RemoveFrame ==
  ASSUME NEW u \in Uids, NEW old \in Slot
  PROVE  LET frame == [Idle EXCEPT !.kind = "remove", !.uid = u, !.old = old]
         IN  /\ [frame EXCEPT !.pc = "unlink"] \in Frames
             /\ [frame EXCEPT !.pc = "done", !.ret = "not_found"] \in Frames
BY IdleType DEF Frames, Kinds, Pcs, Rets

LEMMA CleanFrame ==
  ASSUME NEW todo \in SUBSET Uids, NEW ctime \in Nat
  PROVE  /\ [Idle EXCEPT !.kind = "clean", !.pc = "clean", !.ret = "success",
                         !.todo = todo, !.ctime = ctime] \in Frames
         /\ [Idle EXCEPT !.kind = "clean", !.pc = "done", !.ret = "update_index"] \in Frames
BY IdleType DEF Frames, Kinds, Pcs, Rets

\* The steps of a removal and of a cleaning.
LEMMA RemoveType ==
  ASSUME RepoTypeOK,
         \/ \E u \in Uids : BeginRemove(u)
         \/ RemoveUnlink
         \/ BeginClean
         \/ \E u \in Uids : CleanKeep(u) \/ CleanExpired(u) \/ CleanLookupFails(u)
         \/ CleanUnlink \/ CleanEnd
  PROVE  RepoTypeOK'
<1> USE DEF RepoTypeOK, Slot
<1>1. ASSUME NEW u \in Uids, BeginRemove(u)
      PROVE  RepoTypeOK'
  <2>1. op' \in Frames
    <3>1. library[u] \in Slot
      OBVIOUS
    <3> HIDE DEF Slot, RepoTypeOK
    <3> DEFINE frame == [Idle EXCEPT !.kind = "remove", !.uid = u, !.old = library[u]]
    <3>2. \/ op' = [frame EXCEPT !.pc = "unlink"]
          \/ op' = [frame EXCEPT !.pc = "done", !.ret = "not_found"]
      BY <1>1, Zenon DEF BeginRemove
    <3>3. /\ [frame EXCEPT !.pc = "unlink"] \in Frames
          /\ [frame EXCEPT !.pc = "done", !.ret = "not_found"] \in Frames
      BY <3>1, RemoveFrame, Zenon
    <3> QED
      BY <3>2, <3>3, Zenon
  <2> QED
    BY <1>1, <2>1 DEF BeginRemove
<1>2. CASE RemoveUnlink
  BY <1>2 DEF RemoveUnlink, UnlinkOk, UnlinkFails, Finish, Frames, Pcs, Rets
<1>3. CASE BeginClean
  <2>0. Held \in SUBSET Uids /\ now \in Nat
    BY RepoAssumption DEF Held
  <2>1. op' \in Frames
    <3> HIDE DEF Slot, RepoTypeOK
    <3> QED
      BY <1>3, <2>0, CleanFrame DEF BeginClean
  <2> QED
    BY <1>3, <2>1 DEF BeginClean
<1>4. ASSUME NEW u \in Uids, NEW rest \in SUBSET Uids, CleanRemove(u, rest)
      PROVE  library' \in [Uids -> Slot] /\ op' \in Frames
  BY <1>4 DEF CleanRemove, Frames, Pcs, Rets
<1>5. ASSUME NEW u \in Uids, CleanKeep(u)
      PROVE  RepoTypeOK'
  BY <1>5 DEF CleanKeep, Frames, Rets
<1>6. ASSUME NEW u \in Uids, CleanExpired(u)
      PROVE  RepoTypeOK'
  <2>1. op.todo \ {u} \in SUBSET Uids
    BY DEF Frames
  <2> QED
    BY <1>4, <1>6, <2>1 DEF CleanExpired
<1>7. ASSUME NEW u \in Uids, CleanLookupFails(u)
      PROVE  RepoTypeOK'
  <2>1. op.todo \ {u} \in SUBSET Uids /\ RootUid \in Uids
    BY RepoAssumption DEF Frames
  <2> QED
    BY <1>4, <1>7, <2>1 DEF CleanLookupFails
<1>8. CASE CleanUnlink
  BY <1>8, RepoAssumption, ZenonT(60)
  DEF CleanUnlink, UnlinkOk, UnlinkFails, ResumeClean, Frames, Pcs, Rets
<1>9. CASE CleanEnd
  BY <1>9 DEF CleanEnd, Goto, Frames, Pcs
<1> QED
  BY <1>1, <1>2, <1>3, <1>5, <1>6, <1>7, <1>8, <1>9

\* Starts, loads, the end of an operation and the clock.
LEMMA LifeType ==
  ASSUME RepoTypeOK,
         \/ Restart \/ Crash
         \/ \E v, u \in Uids : LoadFile(v, u)
         \/ \E v \in Uids : LoadFails(v)
         \/ LoadEnd \/ End \/ Tick
  PROVE  RepoTypeOK'
<1> USE DEF RepoTypeOK, Slot
<1>1. Start => /\ library' \in [Uids -> Slot]
               /\ op' \in Frames
               /\ restarts' \in 0..MaxRestarts
  <2>1. Files \in SUBSET Uids
    BY DEF Files
  <2>2. Start => op' \in Frames
    BY <2>1, IdleType DEF Start, Frames, Kinds, Pcs
  <2>3. Start => restarts' \in 0..MaxRestarts
    BY RepoAssumption DEF Start
  <2> QED
    BY <2>2, <2>3 DEF Start
<1>2. CASE Restart
  BY <1>1, <1>2 DEF Restart, Start
<1>3. CASE Crash
  <2>1. promise' \in [Uids -> Slot \cup {Unknown}]
    BY <1>3 DEF Crash, Frames
  <2>2. torn' \subseteq Uids
    BY <1>3 DEF Crash, Frames
  <2> QED
    BY <1>1, <1>3, <2>1, <2>2 DEF Crash, Start
<1>4. ASSUME NEW v \in Uids, NEW u \in Uids, LoadFile(v, u)
      PROVE  RepoTypeOK'
  <2>1. [disk[v] EXCEPT !.uid = u] \in Cred
    BY <1>4 DEF LoadFile, Cred
  <2>2. library' \in [Uids -> Slot]
    BY <1>4, <2>1 DEF LoadFile
  <2> QED
    BY <1>4, <2>2 DEF LoadFile, Frames
<1>5. ASSUME NEW v \in Uids, LoadFails(v)
      PROVE  RepoTypeOK'
  BY <1>5 DEF LoadFails, Frames
<1>6. CASE LoadEnd
  BY <1>6, IdleType DEF LoadEnd
<1>7. CASE End
  <2>1. Promised \in Slot \cup {Unknown}
    BY DEF Promised, Better, Frames
  <2>2. promise' \in [Uids -> Slot \cup {Unknown}] /\ torn' \subseteq Uids
    BY <1>7, <2>1 DEF End, Frames
  <2> QED
    BY <1>7, <2>2, IdleType DEF End
<1>8. CASE Tick
  BY <1>8, RepoAssumption DEF Tick
<1> QED
  BY <1>2, <1>3, <1>4, <1>5, <1>6, <1>7, <1>8

LEMMA NextType == RepoTypeOK /\ [RepoNext]_repoVars => RepoTypeOK'
<1> SUFFICES ASSUME RepoTypeOK, [RepoNext]_repoVars
             PROVE  RepoTypeOK'
  OBVIOUS
<1>1. CASE RepoNext
  BY <1>1, AddType, RemoveType, LifeType DEF RepoNext, Proceed
<1>2. CASE UNCHANGED repoVars
  BY <1>2 DEF repoVars, RepoTypeOK
<1> QED
  BY <1>1, <1>2

\* The variables and the frame of the operation in progress keep their types,
\* whatever fails.
THEOREM TypeCorrect == RepoSpec => []RepoTypeOK
BY InitType, NextType, PTL DEF RepoSpec

----------------------------------------------------------------------------
(* Memory and disk                                                         *)

LEMMA InitMirror == RepoInit => MirrorInv
BY InitType, ValuesAssumption
DEF RepoInit, MirrorInv, FrameInv, DiskInv, LibraryInv, Idle

LEMMA OfferedOwned ==
  ASSUME LocalOwners, NEW c \in Offered
  PROVE  c \in Cred /\ c.uid \in Uids /\ Owned(c, c.uid)
BY RepoAssumption DEF LocalOwners, Offered, Owned, InitUids, Cred

LEMMA AddMirror ==
  ASSUME LocalOwners, MirrorInv, RepoTypeOK',
         \/ \E c \in Offered : BeginAdd(c) \/ BeginAddBlind(c)
         \/ AddUnlink \/ AddInsert \/ AddInsertShadowed \/ AddInsertFails
         \/ AddInitFile \/ AddWriteFile \/ AddStoreFails
  PROVE  MirrorInv'
<1> USE DEF MirrorInv, FrameInv, DiskInv, LibraryInv, Reliable, Writing, Fault
<1>1. ASSUME NEW c \in Offered, BeginAdd(c)
      PROVE  MirrorInv'
  <2>1. c \in Cred /\ c.uid \in Uids /\ Owned(c, c.uid)
    BY OfferedOwned
  <2>2. /\ op'.cred = c /\ op'.uid = c.uid
        /\ op'.pc \in {"insert", "done", "unlink"} /\ op'.kind = "add"
        /\ disk' = disk /\ faults' = faults
    BY <1>1, ZenonT(60) DEF BeginAdd, Idle
  <2>3. \/ library' = library /\ op'.pc # "unlink"
        \/ library' = [library EXCEPT ![c.uid] = NoCred]
    BY <1>1 DEF BeginAdd, Idle
  <2>4. op.pc = "idle"
    BY <1>1 DEF BeginAdd, Free
  <2>5. FrameInv'
    BY <2>1, <2>2, <2>3 DEF RepoTypeOK, Owned
  <2>6. DiskInv'
    BY <2>2 DEF Owned
  <2>7. LibraryInv'
    BY <2>1, <2>2, <2>3, <2>4 DEF RepoTypeOK
  <2> QED
    BY <2>5, <2>6, <2>7
<1>2. ASSUME NEW c \in Offered, BeginAddBlind(c)
      PROVE  MirrorInv'
  <2>1. c \in Cred /\ c.uid \in Uids /\ Owned(c, c.uid)
    BY OfferedOwned
  <2> QED
    BY <1>2, <2>1 DEF BeginAddBlind, Idle, Owned, RepoTypeOK, Free
<1>3. CASE AddUnlink
  BY <1>3, ValuesAssumption
  DEF AddUnlink, UnlinkOk, UnlinkFails, Goto, At, Owned, RepoTypeOK, Frames
<1>4. CASE AddInsert
  BY <1>4 DEF AddInsert, Goto, At, Owned, RepoTypeOK, Frames
<1>s. CASE AddInsertShadowed
  BY <1>s DEF AddInsertShadowed, Goto, At, Owned, RepoTypeOK, Frames
<1>5. CASE AddInsertFails
  BY <1>5 DEF AddInsertFails, Finish, At, Owned, RepoTypeOK, Frames
<1>6. CASE AddInitFile
  BY <1>6, ValuesAssumption DEF AddInitFile, Goto, At, Owned, RepoTypeOK, Frames
<1>7. CASE AddWriteFile
  BY <1>7 DEF AddWriteFile, Finish, At, Owned, RepoTypeOK, Frames
<1>8. CASE AddStoreFails
  BY <1>8 DEF AddStoreFails, Finish, At, Owned, RepoTypeOK, Frames
<1> QED
  BY <1>1, <1>2, <1>3, <1>4, <1>s, <1>5, <1>6, <1>7, <1>8

LEMMA RemoveMirror ==
  ASSUME MirrorInv, RepoTypeOK',
         \/ \E u \in Uids : BeginRemove(u)
         \/ RemoveUnlink
         \/ BeginClean
         \/ \E u \in Uids : CleanKeep(u) \/ CleanExpired(u) \/ CleanLookupFails(u)
         \/ CleanUnlink \/ CleanEnd
  PROVE  MirrorInv'
<1> USE DEF MirrorInv, FrameInv, DiskInv, LibraryInv, Reliable, Writing, Fault
<1>1. ASSUME NEW u \in Uids, BeginRemove(u)
      PROVE  MirrorInv'
  <2>1. /\ op'.uid = u /\ op'.pc \in {"unlink", "done"} /\ op'.kind = "remove"
        /\ disk' = disk /\ faults' = faults
        /\ op.pc = "idle"
    BY <1>1 DEF BeginRemove, Idle, Free
  <2>2. \/ library' = library /\ op'.pc # "unlink"
        \/ library' = [library EXCEPT ![u] = NoCred]
    BY <1>1 DEF BeginRemove, Idle
  <2>3. FrameInv'
    BY <2>1, <2>2 DEF RepoTypeOK
  <2>4. DiskInv' /\ LibraryInv'
    BY <2>1, <2>2 DEF RepoTypeOK, Owned
  <2> QED
    BY <2>3, <2>4
<1>a. ASSUME op.pc = "unlink", UnlinkOk(op.uid) \/ UnlinkFails(op.uid),
             library' = library, faults' = faults, op'.pc \notin {"insert", "init", "write", "unlink"},
             op'.kind # "add", op'.pc = "clean" => op'.kind = "clean"
      PROVE  MirrorInv'
  <2>1. op.uid \in Uids
    BY DEF RepoTypeOK, Frames
  <2>2. disk' = disk \/ disk' = [disk EXCEPT ![op.uid] = NoCred]
    BY <1>a DEF UnlinkOk, UnlinkFails
  <2>3. DiskInv'
    BY <2>1, <2>2, ValuesAssumption DEF RepoTypeOK, Owned
  <2>4. LibraryInv'
    BY <1>a, <2>1, <2>2 DEF RepoTypeOK
  <2> QED
    BY <1>a, <2>3, <2>4
<1>2. CASE RemoveUnlink
  <2>1. op'.pc = "done" /\ op'.kind = op.kind /\ op.kind = "remove"
    BY <1>2 DEF RemoveUnlink, Finish, RepoTypeOK, Frames
  <2> QED
    BY <1>2, <1>a, <2>1 DEF RemoveUnlink, At
<1>3. CASE BeginClean
  BY <1>3 DEF BeginClean, Idle, RepoTypeOK, Free
<1>4. ASSUME NEW u \in Uids, NEW rest, CleanRemove(u, rest), At("clean"),
             UNCHANGED <<disk, faults>>
      PROVE  MirrorInv'
  <2>1. /\ op.pc = "clean" /\ op.kind \in Kinds
        /\ op'.kind = op.kind /\ op'.cred = op.cred
    BY <1>4 DEF CleanRemove, At, RepoTypeOK, Frames
  <2>2. \/ /\ library' = [library EXCEPT ![u] = NoCred]
           /\ op'.pc = "unlink" /\ op'.uid = u
        \/ library' = library /\ op'.pc = "clean" /\ op'.uid = op.uid
    <3>1. CASE /\ library' = [library EXCEPT ![u] = NoCred]
               /\ op' = [op EXCEPT !.pc = "unlink", !.uid = u, !.old = library[u], !.todo = rest]
      BY <3>1 DEF RepoTypeOK, Frames
    <3>2. CASE /\ library' = library
               /\ op' = [op EXCEPT !.ret = "not_found", !.todo = rest]
      BY <3>2, <2>1 DEF RepoTypeOK, Frames
    <3> QED
      BY <1>4, <3>1, <3>2 DEF CleanRemove
  <2>3. op.kind = "clean"
    BY <2>1
  <2>4. FrameInv'
    BY <2>1, <2>2, <2>3 DEF RepoTypeOK
  <2>5. DiskInv' /\ LibraryInv'
    BY <1>4, <2>1, <2>2 DEF RepoTypeOK, Owned
  <2> QED
    BY <2>4, <2>5
<1>5. ASSUME NEW u \in Uids, CleanKeep(u)
      PROVE  MirrorInv'
  BY <1>5 DEF CleanKeep, At, RepoTypeOK, Frames
<1>6. ASSUME NEW u \in Uids, CleanExpired(u)
      PROVE  MirrorInv'
  BY <1>4, <1>6 DEF CleanExpired
<1>7. ASSUME NEW u \in Uids, CleanLookupFails(u)
      PROVE  MirrorInv'
  BY <1>4, <1>7, RepoAssumption DEF CleanLookupFails
<1>8. CASE CleanUnlink
  <2>1. op'.pc = "clean" /\ op'.kind = op.kind /\ op.kind = "clean"
    BY <1>8 DEF CleanUnlink, ResumeClean, RepoTypeOK, Frames
  <2> QED
    BY <1>8, <1>a, <2>1 DEF CleanUnlink, At
<1>9. CASE CleanEnd
  BY <1>9 DEF CleanEnd, Goto, At, RepoTypeOK, Frames
<1> QED
  BY <1>1, <1>2, <1>3, <1>5, <1>6, <1>7, <1>8, <1>9

LEMMA LifeMirror ==
  ASSUME LocalOwners, MirrorInv, RepoTypeOK',
         \/ Restart \/ Crash
         \/ \E v, u \in Uids : LoadFile(v, u)
         \/ \E v \in Uids : LoadFails(v)
         \/ LoadEnd \/ End \/ Tick
  PROVE  MirrorInv'
<1> USE DEF MirrorInv, FrameInv, DiskInv, LibraryInv, Reliable, Writing, Fault
<1>1. Start => FrameInv' /\ DiskInv' /\ LibraryInv'
  BY DEF Start, Idle, Owned, RepoTypeOK
<1>2. CASE Restart
  BY <1>1, <1>2 DEF Restart
<1>3. CASE Crash
  BY <1>1, <1>3 DEF Crash
<1>4. ASSUME NEW v \in Uids, NEW u \in Uids, LoadFile(v, u)
      PROVE  MirrorInv'
  <2>1. disk[v] \in Cred /\ disk[v].owner \in Principals /\ Owned(disk[v], v)
    BY <1>4 DEF LoadFile, Cred
  <2>2. u = v
    BY <1>4, <2>1, RepoAssumption DEF LoadFile, InitUids, LocalOwners, Owned
  <2>3. [disk[v] EXCEPT !.uid = u] = disk[v]
    BY <2>1, <2>2 DEF Cred, Owned
  <2>4. \/ library' = library
        \/ library' = [library EXCEPT ![v] = disk[v]]
        \/ ~Reliable /\ library' = [library EXCEPT ![v] = NoCred]
    <3>1. PICK kept : /\ library' = [library EXCEPT ![v] = kept]
                      /\ \/ kept \in {disk[v], library[v]}
                         \/ ~Reliable /\ kept = NoCred
      BY <1>4, <2>2, <2>3 DEF LoadFile
    <3> QED
      BY <3>1 DEF RepoTypeOK
  <2>5. /\ op.pc = "load" /\ op'.pc = "load"
        /\ op'.kind = op.kind /\ op'.cred = op.cred /\ op'.uid = op.uid
        /\ disk' = disk /\ faults' = faults
    BY <1>4 DEF LoadFile, At, RepoTypeOK, Frames
  <2>6. LibraryInv'
    BY <2>4, <2>5 DEF RepoTypeOK
  <2> QED
    BY <2>5, <2>6
<1>5. ASSUME NEW v \in Uids, LoadFails(v)
      PROVE  MirrorInv'
  BY <1>5 DEF LoadFails, At, RepoTypeOK, Frames
<1>6. CASE LoadEnd
  BY <1>6 DEF LoadEnd, At, Idle, RepoTypeOK
<1>7. CASE End
  BY <1>7 DEF End, At, Idle, RepoTypeOK
<1>8. CASE Tick
  BY <1>8 DEF Tick
<1> QED
  BY <1>2, <1>3, <1>4, <1>5, <1>6, <1>7, <1>8

LEMMA NextMirror ==
  ASSUME LocalOwners
  PROVE  MirrorInv /\ [RepoNext]_repoVars => MirrorInv'
<1> SUFFICES ASSUME MirrorInv, [RepoNext]_repoVars
             PROVE  MirrorInv'
  OBVIOUS
<1>1. RepoTypeOK'
  BY NextType DEF MirrorInv
<1>2. CASE RepoNext
  BY <1>1, <1>2, AddMirror, RemoveMirror, LifeMirror DEF RepoNext, Proceed
<1>3. CASE UNCHANGED repoVars
  BY <1>3 DEF repoVars, MirrorInv, RepoTypeOK, FrameInv, DiskInv, LibraryInv,
    Reliable, Writing, Fault
<1> QED
  BY <1>2, <1>3

LEMMA MirrorInvMirrors == MirrorInv => Mirrored
BY DEF MirrorInv, LibraryInv, Mirrored, Reliable, Free, Writing, Held

\* Whenever the mutex is free the library and CacheDir agree on every
\* credential that the library holds, after any sequence of additions,
\* removals, cleanings, restarts and crashes, as long as files can be written.
THEOREM MemoryMirrorsDisk ==
  ASSUME LocalOwners
  PROVE  RepoSpec => []Mirrored
BY InitMirror, NextMirror, MirrorInvMirrors, PTL DEF RepoSpec

----------------------------------------------------------------------------
(* A failing store leaves nothing older behind.  FilesCurrent speaks of    *)
(* the moments when the mutex is free; before, the file of the uid at work *)
(* is about to be unlinked, gone, or torn, and during a load the library   *)
(* has nothing of the files that are still to be read.                     *)

Awaited(u) ==
  \/ op.pc = "unlink" /\ op.uid = u
  \/ op.pc = "load" /\ u \in op.todo

FileInv ==
  Overwrites =>
    /\ \A u \in Uids : disk[u] \in Cred /\ ~Awaited(u) => disk[u] = library[u]
    /\ op.pc \in {"insert", "init", "write"} => disk[op.uid] \notin Cred
    /\ op.pc \in {"init", "write"} => library[op.uid] = op.cred
    /\ op.pc = "load" => \A u \in op.todo : library[u] = NoCred

CurrentInv == MirrorInv /\ FileInv

LEMMA InitCurrent == RepoInit => FileInv
BY ValuesAssumption DEF RepoInit, FileInv, Idle

\* What these proofs take from the types.
RepoTyped ==
  /\ library \in [Uids -> Cred \cup {NoCred}]
  /\ disk \in [Uids -> Cred \cup {NoCred, Partial}]
  /\ op \in Frames

\* The frame of an addition, and what it does to the library.
LEMMA BeginAddIs ==
  ASSUME NEW c, BeginAdd(c)
  PROVE  /\ op.pc = "idle" /\ disk' = disk /\ faults' = faults /\ op'.uid = c.uid
         /\ \/ op'.pc = "insert" /\ library[c.uid] = NoCred /\ library' = library
            \/ op'.pc = "done" /\ library' = library
            \/ op'.pc = "unlink" /\ library' = [library EXCEPT ![c.uid] = NoCred]
<1>1. op.pc = "idle" /\ disk' = disk /\ faults' = faults
  BY DEF BeginAdd, Free, world
<1>2. CASE library[c.uid] = NoCred
  BY <1>1, <1>2 DEF BeginAdd, Idle
<1>3. CASE library[c.uid] # NoCred
  BY <1>1, <1>3 DEF BeginAdd, Idle
<1> QED
  BY <1>2, <1>3

LEMMA AddCurrent ==
  ASSUME CurrentInv, RepoTypeOK',
         \/ \E c \in Offered : BeginAdd(c) \/ BeginAddBlind(c)
         \/ AddUnlink \/ AddInsert \/ AddInsertShadowed \/ AddInsertFails
         \/ AddInitFile \/ AddWriteFile \/ AddStoreFails
  PROVE  FileInv'
<1> USE ValuesAssumption
    DEF CurrentInv, MirrorInv, FileInv, Awaited, Overwrites, Fault, At, Free, Frames
<1>0. RepoTyped
  BY DEF RepoTypeOK, Slot, RepoTyped
<1>1. ASSUME NEW c \in Offered, BeginAdd(c)
      PROVE  FileInv'
  <2>1. c.uid \in Uids
    BY <1>0, OfferedOwned, OfferedType DEF Cred, RepoTyped
  <2>2. /\ op.pc = "idle" /\ disk' = disk /\ faults' = faults /\ op'.uid = c.uid
        /\ \/ op'.pc = "insert" /\ library[c.uid] = NoCred /\ library' = library
           \/ op'.pc = "done" /\ library' = library
           \/ op'.pc = "unlink" /\ library' = [library EXCEPT ![c.uid] = NoCred]
    BY <1>1, BeginAddIs
  <2>3. CASE op'.pc = "insert" \/ op'.pc = "done"
    <3>1. Overwrites => \A u \in Uids : disk[u] \in Cred => disk[u] = library[u]
      BY <2>2
    <3> QED
      BY <1>0, <2>1, <2>2, <2>3, <3>1 DEF RepoTyped
  <2>4. CASE op'.pc = "unlink"
    BY <1>0, <2>1, <2>2, <2>4 DEF RepoTyped
  <2> QED
    BY <2>2, <2>3, <2>4
<1>2. ASSUME NEW c \in Offered, BeginAddBlind(c)
      PROVE  FileInv'
  <2>1. ~Overwrites'
    BY <1>0, <1>2 DEF BeginAddBlind, world, RepoTyped
  <2> QED
    BY <1>0, <2>1 DEF RepoTyped
<1>3. CASE AddUnlink
  BY <1>0, <1>3 DEF AddUnlink, UnlinkOk, UnlinkFails, Goto, world, RepoTyped
<1>4. CASE AddInsert
  BY <1>0, <1>4 DEF AddInsert, Goto, world, RepoTyped
<1>5. CASE AddInsertShadowed \/ AddInsertFails
  BY <1>0, <1>5 DEF AddInsertShadowed, AddInsertFails, world, RepoTyped
<1>6. CASE AddInitFile
  BY <1>0, <1>6 DEF AddInitFile, Goto, world, RepoTyped
<1>7. CASE AddWriteFile
  BY <1>0, <1>7 DEF AddWriteFile, Finish, world, RepoTyped
<1>8. CASE AddStoreFails
  BY <1>0, <1>8 DEF AddStoreFails, Finish, world, RepoTyped
<1> QED
  BY <1>1, <1>2, <1>3, <1>4, <1>5, <1>6, <1>7, <1>8

LEMMA RemoveCurrent ==
  ASSUME CurrentInv, RepoTypeOK',
         \/ \E u \in Uids : BeginRemove(u) \/ CleanKeep(u) \/ CleanExpired(u) \/ CleanLookupFails(u)
         \/ RemoveUnlink \/ BeginClean \/ CleanUnlink \/ CleanEnd
  PROVE  FileInv'
<1> USE ValuesAssumption, RepoAssumption
    DEF CurrentInv, MirrorInv, FileInv, Awaited, Overwrites, Fault, At, Free, Frames
<1>0. RepoTyped
  BY DEF RepoTypeOK, Slot, RepoTyped
<1>1. ASSUME NEW u \in Uids, BeginRemove(u)
      PROVE  FileInv'
  <2>1. /\ op.pc = "idle" /\ disk' = disk /\ faults' = faults /\ op'.uid = u
        /\ \/ op'.pc = "unlink" /\ library' = [library EXCEPT ![u] = NoCred]
           \/ op'.pc = "done" /\ library' = library
    BY <1>0, <1>1 DEF BeginRemove, Idle, world, RepoTyped
  <2> QED
    BY <1>0, <2>1 DEF RepoTyped
<1>2. ASSUME NEW v \in Uids, NEW rest, CleanRemove(v, rest), op.pc = "clean", disk' = disk, faults' = faults
      PROVE  FileInv'
  <2>1. \/ op'.pc = "unlink" /\ op'.uid = v /\ library' = [library EXCEPT ![v] = NoCred]
        \/ op'.pc = "clean" /\ library' = library
    BY <1>0, <1>2 DEF CleanRemove, RepoTyped
  <2> QED
    BY <1>0, <1>2, <2>1 DEF RepoTyped
<1>3. ASSUME NEW u \in Uids, CleanKeep(u) \/ CleanExpired(u) \/ CleanLookupFails(u)
      PROVE  FileInv'
  BY <1>0, <1>2, <1>3 DEF CleanKeep, CleanExpired, CleanLookupFails, world, RepoTyped
<1>4. ASSUME op.pc = "unlink", op'.pc \in {"done", "clean"}, library' = library, faults' = faults,
             UnlinkOk(op.uid) \/ UnlinkFails(op.uid)
      PROVE  FileInv'
  <2>1. Overwrites => disk' = [disk EXCEPT ![op.uid] = NoCred]
    BY <1>0, <1>4 DEF UnlinkOk, UnlinkFails, RepoTyped
  <2> QED
    BY <1>0, <1>4, <2>1 DEF RepoTyped
<1>5. CASE BeginClean
  BY <1>0, <1>5 DEF BeginClean, Idle, world, RepoTyped
<1>6. CASE RemoveUnlink \/ CleanUnlink
  <2>1. op.pc = "unlink" /\ op'.pc \in {"done", "clean"} /\ library' = library /\ faults' = faults
    BY <1>0, <1>6 DEF RemoveUnlink, CleanUnlink, Finish, ResumeClean, world, RepoTyped
  <2>2. UnlinkOk(op.uid) \/ UnlinkFails(op.uid)
    BY <1>6 DEF RemoveUnlink, CleanUnlink
  <2> QED
    BY <1>4, <2>1, <2>2
<1>7. CASE CleanEnd
  BY <1>0, <1>7 DEF CleanEnd, Goto, world, RepoTyped
<1> QED
  BY <1>1, <1>3, <1>5, <1>6, <1>7

LEMMA LifeCurrent ==
  ASSUME LocalOwners, CurrentInv, RepoTypeOK',
         \/ Restart \/ Crash
         \/ \E v, u \in Uids : LoadFile(v, u)
         \/ \E v \in Uids : LoadFails(v)
         \/ LoadEnd \/ End \/ Tick
  PROVE  FileInv'
<1> USE ValuesAssumption
    DEF CurrentInv, MirrorInv, FileInv, Awaited, Overwrites, Fault, At, Free, Frames
<1>0. RepoTyped
  BY DEF RepoTypeOK, Slot, RepoTyped
<1>1. CASE Restart \/ Crash
  <2>1. Start
    BY <1>0, <1>1 DEF Restart, Crash, RepoTyped
  <2> QED
    BY <1>0, <2>1 DEF Start, Idle, Files, RepoTyped
<1>2. ASSUME NEW v \in Uids, NEW u \in Uids, LoadFile(v, u)
      PROVE  FileInv'
  <2>1. disk[v] \in Cred /\ disk[v].owner \in Principals /\ Owned(disk[v], v)
    BY <1>0, <1>2 DEF LoadFile, Cred, DiskInv, RepoTyped
  <2>2. u = v
    BY <1>0, <1>2, <2>1, RepoAssumption DEF LoadFile, InitUids, LocalOwners, Owned, RepoTyped
  <2>3. [disk[v] EXCEPT !.uid = u] = disk[v]
    BY <1>0, <2>1, <2>2 DEF Cred, Owned, RepoTyped
  <2>4. Overwrites => library' = [library EXCEPT ![v] = disk[v]]
    BY <1>0, <1>2, <2>2, <2>3 DEF LoadFile, RepoTyped
  <2>5. /\ op.pc = "load" /\ op'.pc = "load" /\ op'.todo = op.todo \ {v}
        /\ disk' = disk /\ faults' = faults
    BY <1>0, <1>2 DEF LoadFile, world, RepoTyped
  <2> QED
    BY <1>0, <2>4, <2>5 DEF RepoTyped
<1>3. ASSUME NEW v \in Uids, LoadFails(v)
      PROVE  FileInv'
  BY <1>0, <1>3 DEF LoadFails, world, RepoTyped
<1>4. CASE LoadEnd
  BY <1>0, <1>4 DEF LoadEnd, Idle, world, RepoTyped
<1>5. CASE End
  BY <1>0, <1>5 DEF End, Idle, world, RepoTyped
<1>6. CASE Tick
  BY <1>0, <1>6 DEF Tick, RepoTyped
<1> QED
  BY <1>1, <1>2, <1>3, <1>4, <1>5, <1>6

LEMMA NextCurrent ==
  ASSUME LocalOwners
  PROVE  CurrentInv /\ [RepoNext]_repoVars => CurrentInv'
<1> SUFFICES ASSUME CurrentInv, [RepoNext]_repoVars
             PROVE  CurrentInv'
  OBVIOUS
<1>1. MirrorInv' /\ RepoTypeOK'
  BY NextMirror DEF CurrentInv, MirrorInv
<1>2. CASE RepoNext
  <2>1. FileInv'
    BY <1>1, <1>2, AddCurrent, RemoveCurrent, LifeCurrent DEF RepoNext, Proceed
  <2> QED
    BY <1>1, <2>1 DEF CurrentInv
<1>3. CASE UNCHANGED repoVars
  BY <1>1, <1>3 DEF CurrentInv, FileInv, Awaited, Overwrites, repoVars
<1> QED
  BY <1>2, <1>3

LEMMA CurrentInvIsCurrent == CurrentInv => FilesCurrent
BY DEF CurrentInv, FileInv, FilesCurrent, Awaited, Free

\* auks_cred_repo_add unlinks the old file before anything can fail: however
\* many stores fail and wherever the process dies, a restart finds in
\* CacheDir nothing but what memory had, though possibly less.
THEOREM NothingOlderComesBack ==
  ASSUME LocalOwners
  PROVE  RepoSpec => []FilesCurrent
<1>1. RepoInit => CurrentInv
  BY InitMirror, InitCurrent DEF CurrentInv
<1> QED
  BY <1>1, NextCurrent, CurrentInvIsCurrent, PTL DEF RepoSpec

----------------------------------------------------------------------------
(* The cleaner                                                             *)

\* A cleaning in progress has read the clock in the past, and what it still
\* has to look at is in the library, unless a failed lookup has designated
\* uid 0.
CleanInv ==
  /\ RepoTypeOK
  /\ op.kind = "clean" =>
       /\ op.pc \in {"clean", "unlink", "done"}
       /\ op.ctime <= now
       /\ ~Fault("oom") => op.todo \subseteq Held

LEMMA InitClean == RepoInit => CleanInv
BY InitType DEF RepoInit, CleanInv, Idle

LEMMA ExpiredLater ==
  ASSUME NEW c \in Cred, NEW s \in Nat, NEW t \in Nat, s <= t, Expired(c, s)
  PROVE  Expired(c, t)
<1>1. c.endtime \in Nat
  BY RepoAssumption DEF Cred
<1>2. c.renewTill \in Nat
  BY RepoAssumption DEF Cred
<1> QED
  BY <1>1, <1>2 DEF Expired

\* In a cleaning, a step leaves the library alone, drops one credential that
\* is expired, or drops that of uid 0 when a lookup fails.
LEMMA CleanStep ==
  ASSUME CleanInv, RepoNext, op.kind = "clean", op'.kind = "clean"
  PROVE  \/ library' = library
         \/ \E u \in op.todo : /\ library' = [library EXCEPT ![u] = NoCred]
                               /\ op'.todo = op.todo \ {u}
                               /\ Expired(library[u], now)
         \/ Fault("oom") /\ library' = [library EXCEPT ![RootUid] = NoCred]
<1> USE DEF CleanInv
<1>1. op.pc \in {"clean", "unlink", "done"}
  OBVIOUS
<1>2. ASSUME NEW u \in Uids, CleanExpired(u)
      PROVE  \/ library' = library
             \/ /\ u \in op.todo
                /\ library' = [library EXCEPT ![u] = NoCred]
                /\ op'.todo = op.todo \ {u}
                /\ Expired(library[u], now)
  <2>1. u \in op.todo /\ Expired(library[u], op.ctime) /\ library[u] # NoCred
    BY <1>2 DEF CleanExpired
  <2>2. library[u] \in Cred /\ op.ctime \in Nat /\ now \in Nat
    BY <2>1, RepoAssumption DEF RepoTypeOK, Slot, Frames
  <2>3. Expired(library[u], now)
    BY <1>2, <2>1, <2>2, ExpiredLater DEF CleanExpired, At
  <2>4. \/ library' = library
        \/ /\ library' = [library EXCEPT ![u] = NoCred]
           /\ op' = [op EXCEPT !.pc = "unlink", !.uid = u, !.old = library[u],
                               !.todo = op.todo \ {u}]
    BY <1>2, Zenon DEF CleanExpired, CleanRemove
  <2> QED
    BY <2>1, <2>3, <2>4 DEF RepoTypeOK, Frames
<1>3. ASSUME NEW u \in Uids, CleanLookupFails(u)
      PROVE  /\ Fault("oom")
             /\ \/ library' = library
                \/ library' = [library EXCEPT ![RootUid] = NoCred]
  <2>1. Fault("oom")
    BY <1>3 DEF CleanLookupFails, Held
  <2>2. CleanRemove(RootUid, op.todo \ {u})
    BY <1>3, Zenon DEF CleanLookupFails
  <2>3. \/ library' = library
        \/ library' = [library EXCEPT ![RootUid] = NoCred]
    BY <2>2, Zenon DEF CleanRemove
  <2> QED
    BY <2>1, <2>3
<1>4. CASE End
  BY <1>4 DEF End, Idle
<1>5. CASE Restart \/ Crash
  BY <1>5 DEF Restart, Crash, Start, Idle
<1>6. CASE \/ \E c \in Offered : BeginAdd(c) \/ BeginAddBlind(c)
           \/ \E u \in Uids : BeginRemove(u)
           \/ BeginClean
  BY <1>1, <1>6 DEF BeginAdd, BeginAddBlind, BeginRemove, BeginClean, Free
<1>7. CASE AddUnlink \/ AddInsert \/ AddInsertShadowed \/ AddInsertFails \/ AddInitFile \/ AddWriteFile
           \/ AddStoreFails \/ RemoveUnlink \/ CleanUnlink \/ CleanEnd \/ LoadEnd \/ Tick
  BY <1>1, <1>7 DEF AddUnlink, AddInsert, AddInsertShadowed, AddInsertFails, AddInitFile, AddWriteFile,
    AddStoreFails, RemoveUnlink, CleanUnlink, CleanEnd, LoadEnd, Tick, At
<1>8. CASE \/ \E u \in Uids : CleanKeep(u)
           \/ \E v \in Uids : LoadFails(v)
           \/ \E v, u \in Uids : LoadFile(v, u)
  BY <1>1, <1>8 DEF CleanKeep, LoadFails, LoadFile, At
<1> QED
  BY <1>2, <1>3, <1>4, <1>5, <1>6, <1>7, <1>8 DEF RepoNext, Proceed

\* A step into a cleaning begins it; a step in it only removes from op.todo.
LEMMA CleanTodo ==
  ASSUME CleanInv, RepoNext, op'.kind = "clean"
  PROVE  \/ /\ op.kind = "clean"
            /\ op'.todo \subseteq op.todo /\ op'.ctime = op.ctime
            /\ op'.pc \in {"clean", "unlink", "done"}
         \/ /\ BeginClean
            /\ op'.todo \subseteq Held /\ op'.ctime \in {0, now}
            /\ op'.pc \in {"clean", "done"}
<1> USE DEF CleanInv
<1>1. CASE \/ End \/ Restart \/ Crash \/ LoadEnd
           \/ \E c \in Offered : BeginAdd(c) \/ BeginAddBlind(c)
           \/ \E u \in Uids : BeginRemove(u)
  <2>1. CASE End \/ Restart \/ Crash \/ LoadEnd
    <3>1. Start => op'.kind = "load"
      BY DEF Start, Idle
    <3>2. CASE Restart \/ Crash
      BY <3>1, <3>2 DEF Restart, Crash
    <3>3. CASE End \/ LoadEnd
      BY <3>3 DEF End, LoadEnd, Idle
    <3> QED
      BY <2>1, <3>2, <3>3
  <2>2. ASSUME NEW c \in Offered, BeginAdd(c) \/ BeginAddBlind(c)
        PROVE  op'.kind = "add"
    BY <2>2 DEF BeginAdd, BeginAddBlind, Idle
  <2>3. ASSUME NEW u \in Uids, BeginRemove(u)
        PROVE  op'.kind = "remove"
    <3> DEFINE frame == [Idle EXCEPT !.kind = "remove", !.uid = u, !.old = library[u]]
    <3>1. \/ op' = [frame EXCEPT !.pc = "unlink"]
          \/ op' = [frame EXCEPT !.pc = "done", !.ret = "not_found"]
      BY <2>3, Zenon DEF BeginRemove
    <3> QED
      BY <3>1 DEF Idle
  <2> QED
    BY <1>1, <2>1, <2>2, <2>3
<1>2. CASE BeginClean
  BY <1>2 DEF BeginClean, Idle, Held
<1>3. CASE AddUnlink \/ AddInsert \/ AddInsertShadowed \/ AddInsertFails \/ AddInitFile \/ AddWriteFile
           \/ AddStoreFails \/ RemoveUnlink \/ CleanUnlink \/ CleanEnd \/ Tick
  BY <1>3 DEF AddUnlink, AddInsert, AddInsertShadowed, AddInsertFails, AddInitFile, AddWriteFile,
    AddStoreFails, RemoveUnlink, CleanUnlink, CleanEnd, Tick, Goto, Finish, ResumeClean,
    At, RepoTypeOK, Frames
<1>4. ASSUME NEW u \in Uids, CleanKeep(u)
      PROVE  /\ op.kind = "clean"
             /\ op'.todo \subseteq op.todo /\ op'.ctime = op.ctime /\ op'.pc = op.pc
  BY <1>4 DEF CleanKeep, RepoTypeOK, Frames
<1>5. ASSUME NEW u \in Uids, NEW v, CleanRemove(u, op.todo \ {v})
      PROVE  /\ op.kind = "clean"
             /\ op'.todo \subseteq op.todo /\ op'.ctime = op.ctime
             /\ op'.pc = op.pc \/ op'.pc = "unlink"
  BY <1>5 DEF CleanRemove, RepoTypeOK, Frames
<1>6. CASE \E u \in Uids : CleanKeep(u) \/ CleanExpired(u) \/ CleanLookupFails(u)
  BY <1>4, <1>5, <1>6, RepoAssumption DEF CleanExpired, CleanLookupFails
<1>7. ASSUME NEW v \in Uids, NEW u \in Uids, LoadFile(v, u) \/ LoadFails(v)
      PROVE  FALSE
  BY <1>7 DEF LoadFile, LoadFails, At, RepoTypeOK, Frames
<1> QED
  BY <1>1, <1>2, <1>3, <1>6, <1>7 DEF RepoNext, Proceed

LEMMA WorldStep == RepoNext => now' \in {now, now + 1} /\ faults' = faults
<1>1. CASE \/ \E c \in Offered : BeginAdd(c) \/ BeginAddBlind(c)
           \/ \E u \in Uids : BeginRemove(u)
           \/ BeginClean \/ End
  BY <1>1 DEF BeginAdd, BeginAddBlind, BeginRemove, BeginClean, End
<1>2. CASE AddUnlink \/ AddInsert \/ AddInsertShadowed \/ AddInsertFails \/ AddInitFile \/ AddWriteFile
           \/ AddStoreFails \/ RemoveUnlink
  BY <1>2 DEF AddUnlink, AddInsert, AddInsertShadowed, AddInsertFails, AddInitFile, AddWriteFile,
    AddStoreFails, RemoveUnlink
<1>3. CASE \/ \E u \in Uids : CleanKeep(u) \/ CleanExpired(u) \/ CleanLookupFails(u)
           \/ CleanUnlink \/ CleanEnd
  BY <1>3 DEF CleanKeep, CleanExpired, CleanLookupFails, CleanUnlink, CleanEnd
<1>4. CASE \/ \E v, u \in Uids : LoadFile(v, u)
           \/ \E v \in Uids : LoadFails(v)
           \/ LoadEnd \/ Restart \/ Crash \/ Tick
  BY <1>4 DEF LoadFile, LoadFails, LoadEnd, Restart, Crash, Start, Tick
<1> QED
  BY <1>1, <1>2, <1>3, <1>4, SMTT(30) DEF RepoNext, Proceed

LEMMA NextClean == CleanInv /\ [RepoNext]_repoVars => CleanInv'
<1> SUFFICES ASSUME CleanInv, [RepoNext]_repoVars
             PROVE  CleanInv'
  OBVIOUS
<1>1. RepoTypeOK'
  BY NextType DEF CleanInv
<1>2. CASE UNCHANGED repoVars
  BY <1>1, <1>2 DEF repoVars, CleanInv, Held, Fault
<1>3. CASE RepoNext /\ op'.kind = "clean"
  <2>1. now' \in {now, now + 1} /\ now \in Nat
    BY <1>3, WorldStep, RepoAssumption DEF CleanInv, RepoTypeOK
  <2>2. op'.ctime <= now'
    BY <1>3, <2>1, CleanTodo DEF CleanInv, RepoTypeOK, Frames
  <2>3. ASSUME ~Fault("oom")
        PROVE  op'.todo \subseteq Held'
    <3>1. CASE BeginClean
      BY <1>3, <2>3, <3>1, CleanTodo DEF BeginClean, Held, CleanInv
    <3>2. CASE ~BeginClean
      <4>1. op.kind = "clean" /\ op'.todo \subseteq op.todo /\ op.todo \subseteq Held
        BY <1>3, <2>3, <3>2, CleanTodo, Zenon DEF CleanInv
      <4>2. \/ library' = library
            \/ \E u \in op.todo : /\ library' = [library EXCEPT ![u] = NoCred]
                                  /\ op'.todo = op.todo \ {u}
        BY <1>3, <2>3, <4>1, CleanStep, Zenon
      <4>3. library \in [Uids -> Slot] /\ Held \subseteq Uids
        BY DEF CleanInv, Held, RepoTypeOK
      <4>4. CASE library' = library
        BY <4>1, <4>4 DEF Held
      <4>5. ASSUME NEW u \in op.todo, library' = [library EXCEPT ![u] = NoCred],
                   op'.todo = op.todo \ {u}, NEW v \in op'.todo
            PROVE  v \in Held'
        <5>1. v # u /\ v \in Uids /\ library[v] # NoCred
          BY <4>1, <4>3, <4>5 DEF Held
        <5>2. library'[v] = library[v]
          BY <4>3, <4>5, <5>1
        <5> QED
          BY <5>1, <5>2 DEF Held
      <4> QED
        BY <4>2, <4>4, <4>5
    <3> QED
      BY <3>1, <3>2
  <2>4. faults' = faults
    BY <1>3, WorldStep
  <2> QED
    BY <1>1, <1>3, <2>2, <2>3, <2>4, CleanTodo DEF CleanInv, Fault
<1>4. CASE op'.kind # "clean"
  BY <1>1, <1>4 DEF CleanInv
<1> QED
  BY <1>2, <1>3, <1>4

\* Whatever fails, the cleaner drops nothing but credentials that are expired
\* when it drops them, and that of uid 0 when a lookup lacks memory.
THEOREM CleanerDropsExpired == RepoSpec => CleanOnlyExpired
<1> DEFINE Drops == op.kind = "clean" /\ op'.kind = "clean" =>
             \A u \in Held : library'[u] = NoCred =>
               Expired(library[u], now) \/ (u = RootUid /\ Fault("oom"))
<1>1. ASSUME CleanInv, [RepoNext]_repoVars
      PROVE  [Drops]_repoVars
  <2>1. CASE UNCHANGED repoVars
    BY <2>1
  <2>2. CASE RepoNext
    <3>1. ASSUME op.kind = "clean", op'.kind = "clean",
                 NEW u \in Held, library'[u] = NoCred
          PROVE  Expired(library[u], now) \/ (u = RootUid /\ Fault("oom"))
      <4>1. library \in [Uids -> Slot] /\ u \in Uids /\ library[u] # NoCred
        BY <1>1 DEF CleanInv, RepoTypeOK, Held
      <4>2. CASE \E v \in op.todo : /\ library' = [library EXCEPT ![v] = NoCred]
                                    /\ Expired(library[v], now)
        BY <3>1, <4>1, <4>2
      <4>3. CASE Fault("oom") /\ library' = [library EXCEPT ![RootUid] = NoCred]
        BY <3>1, <4>1, <4>3
      <4> QED
        BY <1>1, <2>2, <3>1, <4>1, <4>2, <4>3, CleanStep
    <3> QED
      BY <3>1
  <2> QED
    BY <1>1, <2>1, <2>2
<1> QED
  BY <1>1, InitClean, NextClean, PTL DEF RepoSpec, CleanOnlyExpired

----------------------------------------------------------------------------
(* The repository implements the store of CredStore when the only fault is *)
(* the death of the process, at whatever step: what the memory, the files  *)
(* and the frame of the operation in progress hold together is one         *)
(* credential per uid, which changes in one step at a time.                *)

OnlyCrashes == FaultSets \subseteq SUBSET {"crash"}

\* A file that the library does not know is about to be removed, or loaded.
FilesKnown ==
  \A u \in Uids : library[u] = NoCred /\ disk[u] \in Cred =>
    \/ op.pc = "unlink" /\ op.uid = u
    \/ op.pc = "load" /\ u \in op.todo

\* What the frame holds while the library does not have it.
FrameHolds ==
  /\ op.pc \in {"unlink", "insert"} => library[op.uid] = NoCred
  /\ op.pc = "unlink" => op.old \in Cred /\ disk[op.uid] = op.old
  /\ op.pc \in {"init", "write"} => disk[op.uid] \notin Cred
  /\ op.kind = "add" /\ op.pc \in {"unlink", "insert"} =>
       op.old = NoCred \/ AtLeastAsGood(op.cred, op.old)
  /\ op.pc = "load" => \A u \in op.todo : library[u] = NoCred

StoreInv == MirrorInv /\ faults \subseteq {"crash"} /\ FilesKnown /\ FrameHolds

-----------------------------------------------------------------------------
(* Steps of the store. *)

Same(u) == Stored(u)' = Stored(u)

Stutters == \A u \in Uids : Same(u)

Drops(v) ==
  /\ Stored(v) # NoCred /\ Stored(v)' = NoCred
  /\ \A u \in Uids \ {v} : Same(u)

Puts(c) ==
  /\ c.uid \in Uids
  /\ Stored(c.uid) = NoCred \/ AtLeastAsGood(c, Stored(c.uid))
  /\ Stored(c.uid)' = c
  /\ \A u \in Uids \ {c.uid} : Same(u)

StoreStep ==
  \/ Stutters
  \/ \E v \in Uids : Drops(v)
  \/ \E c \in Cred : Puts(c)

\* What the proofs take from the types.
LEMMA RepoTypes ==
  ASSUME RepoTypeOK
  PROVE  /\ library \in [Uids -> Cred \cup {NoCred}]
         /\ disk \in [Uids -> Cred \cup {NoCred, Partial}]
         /\ op \in Frames
         /\ op.uid \in Uids /\ op.todo \subseteq Uids
         /\ op.old \in Cred \cup {NoCred}
BY DEF RepoTypeOK, Slot, Frames

LEMMA NoFault ==
  ASSUME StoreInv, NEW f \in {"oom", "unlink", "store", "load"}
  PROVE  ~Fault(f)
BY DEF StoreInv, Fault

\* With crashes only, the files mirror the library but for the one that an
\* addition is writing.
LEMMA StoreMirror ==
  ASSUME StoreInv, NEW u \in Uids, library[u] # NoCred, ~Writing(u)
  PROVE  disk[u] = library[u]
BY NoFault DEF StoreInv, MirrorInv, LibraryInv, Reliable

LEMMA InitStoreInv == OnlyCrashes /\ RepoInit => StoreInv
BY InitMirror, ValuesAssumption
DEF OnlyCrashes, StoreInv, FilesKnown, FrameHolds, RepoInit, Idle

-----------------------------------------------------------------------------
(* Additions. *)

USE DEF At, Free

LEMMA BeginAddStore ==
  ASSUME StoreInv, NEW c \in Cred, c.uid \in Uids, BeginAdd(c)
  PROVE  FilesKnown' /\ FrameHolds' /\ Stutters
<1> DEFINE v == c.uid
<1>1. /\ library \in [Uids -> Cred \cup {NoCred}]
      /\ disk \in [Uids -> Cred \cup {NoCred, Partial}]
  BY RepoTypes DEF StoreInv, MirrorInv
<1>2. /\ op.pc = "idle" /\ disk' = disk
      /\ op'.uid = v /\ op'.old = library[v] /\ op'.cred = c /\ op'.kind = "add"
  BY ZenonT(30) DEF BeginAdd, Idle
<1>3. \/ op'.pc = "insert" /\ library[v] = NoCred /\ library' = library
      \/ op'.pc = "done" /\ library' = library
      \/ /\ op'.pc = "unlink" /\ library[v] # NoCred /\ AtLeastAsGood(c, library[v])
         /\ library' = [library EXCEPT ![v] = NoCred]
  BY DEF BeginAdd, Idle
<1>4. library[v] # NoCred => disk[v] = library[v]
  BY <1>2, StoreMirror DEF Writing
<1>5. FilesKnown /\ FrameHolds
  BY DEF StoreInv
<1>6. FilesKnown'
  BY <1>1, <1>2, <1>3, <1>5 DEF FilesKnown
<1>7. FrameHolds'
  BY <1>1, <1>2, <1>3, <1>4 DEF FrameHolds
<1>8. Stutters
  BY <1>1, <1>2, <1>3 DEF Stutters, Same, Stored
<1> QED
  BY <1>6, <1>7, <1>8

LEMMA AddUnlinkStore ==
  ASSUME StoreInv, AddUnlink
  PROVE  FilesKnown' /\ FrameHolds' /\ Stutters
<1>1. /\ library \in [Uids -> Cred \cup {NoCred}]
      /\ disk \in [Uids -> Cred \cup {NoCred, Partial}]
      /\ op \in Frames /\ op.uid \in Uids
  BY RepoTypes DEF StoreInv, MirrorInv
<1>2. /\ op.pc = "unlink" /\ op.kind = "add" /\ library' = library
      /\ op' = [op EXCEPT !.pc = "insert"]
  BY DEF AddUnlink, Goto
<1>3. disk' = [disk EXCEPT ![op.uid] = NoCred]
  BY <1>1, <1>2, NoFault, ValuesAssumption
  DEF AddUnlink, UnlinkOk, UnlinkFails, StoreInv, FrameHolds
<1>4. /\ op'.pc = "insert" /\ op'.uid = op.uid /\ op'.old = op.old
      /\ op'.cred = op.cred /\ op'.kind = "add"
  BY <1>1, <1>2 DEF Frames
<1>5. FilesKnown /\ FrameHolds
  BY DEF StoreInv
<1>6. FilesKnown'
  BY <1>1, <1>2, <1>3, <1>4, <1>5, ValuesAssumption DEF FilesKnown
<1>7. FrameHolds'
  BY <1>1, <1>2, <1>4, <1>5 DEF FrameHolds
<1>8. Stutters
  BY <1>1, <1>2, <1>4 DEF Stutters, Same, Stored
<1> QED
  BY <1>6, <1>7, <1>8

LEMMA AddInsertStore ==
  ASSUME StoreInv, NEW c, c = op.cred, AddInsert
  PROVE  FilesKnown' /\ FrameHolds' /\ c \in Cred /\ Puts(c)
<1>1. /\ library \in [Uids -> Cred \cup {NoCred}]
      /\ disk \in [Uids -> Cred \cup {NoCred, Partial}]
      /\ op \in Frames /\ op.uid \in Uids
  BY RepoTypes DEF StoreInv, MirrorInv
<1>2. op.kind = "add" /\ c \in Cred /\ c.uid = op.uid
  BY DEF AddInsert, StoreInv, MirrorInv, FrameInv, Owned
<1> DEFINE v == c.uid
<1>3. /\ op.pc = "insert" /\ disk' = disk
      /\ library' = [library EXCEPT ![v] = c]
      /\ op'.pc = "init" /\ op'.uid = v
  BY <1>1, <1>2 DEF AddInsert, Goto, Frames
<1>4. FilesKnown /\ FrameHolds
  BY DEF StoreInv
<1>5. library[v] = NoCred /\ disk[v] \notin Cred
  BY <1>1, <1>2, <1>3, <1>4 DEF FilesKnown, FrameHolds
<1>6. FilesKnown'
  BY <1>1, <1>2, <1>3, <1>4, ValuesAssumption DEF FilesKnown
<1>7. FrameHolds'
  BY <1>1, <1>2, <1>3, <1>5 DEF FrameHolds
<1>8. Stored(v) = op.old /\ Stored(v)' = c
  BY <1>1, <1>2, <1>3 DEF Stored
<1>9. ASSUME NEW u \in Uids \ {v}
      PROVE  Same(u)
  BY <1>1, <1>2, <1>3 DEF Same, Stored
<1>10. op.old = NoCred \/ AtLeastAsGood(c, op.old)
  BY <1>2, <1>3, <1>4 DEF FrameHolds
<1> QED
  BY <1>1, <1>2, <1>6, <1>7, <1>8, <1>9, <1>10 DEF Puts

\* The file of the new credential is written.
LEMMA AddWriteStore ==
  ASSUME StoreInv, AddInitFile \/ AddWriteFile
  PROVE  FilesKnown' /\ FrameHolds' /\ Stutters
<1>1. /\ library \in [Uids -> Cred \cup {NoCred}]
      /\ disk \in [Uids -> Cred \cup {NoCred, Partial}]
      /\ op \in Frames /\ op.uid \in Uids
  BY RepoTypes DEF StoreInv, MirrorInv
<1>2. /\ op.pc \in {"init", "write"} /\ library' = library /\ op'.uid = op.uid
      /\ \/ op'.pc = "write" /\ disk' = [disk EXCEPT ![op.uid] = Partial]
         \/ op'.pc = "done" /\ disk' = [disk EXCEPT ![op.uid] = op.cred]
  BY <1>1 DEF AddInitFile, AddWriteFile, Goto, Finish, Frames
<1>3. FilesKnown /\ FrameHolds
  BY DEF StoreInv
<1>4. library[op.uid] = op.cred /\ op.cred \in Cred
  BY <1>2, NoFault DEF StoreInv, MirrorInv, FrameInv, Reliable
<1>5. FilesKnown'
  BY <1>1, <1>2, <1>3, <1>4, ValuesAssumption DEF FilesKnown
<1>6. FrameHolds'
  BY <1>1, <1>2, ValuesAssumption DEF FrameHolds
<1>7. Stutters
  BY <1>1, <1>2 DEF Stutters, Same, Stored
<1> QED
  BY <1>5, <1>6, <1>7

-----------------------------------------------------------------------------
(* Removals and cleanings. *)

\* A credential leaves the library for the frame of the operation.
LEMMA TakenOut ==
  ASSUME StoreInv, NEW v \in Uids, library[v] # NoCred,
         op.pc \in {"idle", "clean"}, disk' = disk,
         library' = [library EXCEPT ![v] = NoCred],
         op'.pc = "unlink", op'.uid = v, op'.old = library[v], op'.kind # "add"
  PROVE  FilesKnown' /\ FrameHolds' /\ Stutters
<1>1. /\ library \in [Uids -> Cred \cup {NoCred}]
      /\ disk \in [Uids -> Cred \cup {NoCred, Partial}]
  BY RepoTypes DEF StoreInv, MirrorInv
<1>2. disk[v] = library[v]
  BY StoreMirror DEF Writing
<1>3. FilesKnown'
  BY <1>1 DEF StoreInv, FilesKnown
<1>4. FrameHolds'
  BY <1>1, <1>2 DEF FrameHolds
<1>5. Stutters
  BY <1>1 DEF Stutters, Same, Stored
<1> QED
  BY <1>3, <1>4, <1>5

\* The operation leaves library and files alone.
LEMMA LeftAlone ==
  ASSUME StoreInv, library' = library, disk' = disk,
         op.pc \in {"idle", "clean", "done"}, op'.pc \in {"idle", "clean", "done"}
  PROVE  FilesKnown' /\ FrameHolds' /\ Stutters
<1>1. FilesKnown'
  BY DEF StoreInv, FilesKnown
<1>2. FrameHolds'
  BY DEF FrameHolds
<1>3. Stutters
  BY DEF Stutters, Same, Stored
<1> QED
  BY <1>1, <1>2, <1>3

LEMMA BeginRemoveStore ==
  ASSUME StoreInv, NEW v \in Uids, BeginRemove(v)
  PROVE  FilesKnown' /\ FrameHolds' /\ Stutters
<1> DEFINE frame == [Idle EXCEPT !.kind = "remove", !.uid = v, !.old = library[v]]
<1>1. disk' = disk /\ op.pc = "idle"
  BY DEF BeginRemove
<1>2. CASE /\ library[v] # NoCred /\ library' = [library EXCEPT ![v] = NoCred]
           /\ op' = [frame EXCEPT !.pc = "unlink"]
  <2>1. op'.pc = "unlink" /\ op'.uid = v /\ op'.old = library[v] /\ op'.kind # "add"
    BY <1>2 DEF Idle
  <2> QED
    BY <1>1, <1>2, <2>1, TakenOut
<1>3. CASE op' = [frame EXCEPT !.pc = "done", !.ret = "not_found"] /\ library' = library
  <2>1. op'.pc = "done"
    BY <1>3 DEF Idle
  <2> QED
    BY <1>1, <1>3, <2>1, LeftAlone
<1> QED
  BY <1>2, <1>3, Zenon DEF BeginRemove

LEMMA CleanExpiredStore ==
  ASSUME StoreInv, NEW v \in Uids, NEW rest, CleanRemove(v, rest), op.pc = "clean", disk' = disk
  PROVE  FilesKnown' /\ FrameHolds' /\ Stutters
<1>1. op \in Frames
  BY RepoTypes DEF StoreInv, MirrorInv
<1>2. op.kind = "clean"
  BY DEF StoreInv, MirrorInv, FrameInv
<1>3. CASE /\ library[v] # NoCred /\ library' = [library EXCEPT ![v] = NoCred]
           /\ op' = [op EXCEPT !.pc = "unlink", !.uid = v, !.old = library[v], !.todo = rest]
  <2>1. op'.pc = "unlink" /\ op'.uid = v /\ op'.old = library[v] /\ op'.kind # "add"
    BY <1>1, <1>2, <1>3 DEF Frames
  <2> QED
    BY <1>3, <2>1, TakenOut
<1>4. CASE op' = [op EXCEPT !.ret = "not_found", !.todo = rest] /\ library' = library
  <2>1. op'.pc = "clean"
    BY <1>1, <1>4 DEF Frames
  <2> QED
    BY <1>4, <2>1, LeftAlone
<1> QED
  BY <1>3, <1>4, Zenon DEF CleanRemove

\* The file goes, and with it the last copy of the credential.
LEMMA UnlinkStore ==
  ASSUME StoreInv, op.pc = "unlink", NEW v, v = op.uid, UnlinkOk(v) \/ UnlinkFails(v),
         library' = library, op'.pc \in {"done", "clean"}
  PROVE  FilesKnown' /\ FrameHolds' /\ Drops(v)
<1>1. /\ library \in [Uids -> Cred \cup {NoCred}]
      /\ disk \in [Uids -> Cred \cup {NoCred, Partial}]
      /\ op \in Frames /\ op.uid \in Uids
  BY RepoTypes DEF StoreInv, MirrorInv
<1>2. FilesKnown /\ FrameHolds
  BY DEF StoreInv
<1>3. disk' = [disk EXCEPT ![v] = NoCred]
  BY <1>1, <1>2, NoFault, ValuesAssumption DEF UnlinkOk, UnlinkFails, FrameHolds
<1>4. FilesKnown'
  BY <1>1, <1>2, <1>3, ValuesAssumption DEF FilesKnown
<1>5. FrameHolds'
  BY DEF FrameHolds
<1>6. Stored(v) = op.old /\ op.old # NoCred
  BY <1>2, ValuesAssumption DEF Stored, FrameHolds
<1>7. Stored(v)' = NoCred
  BY <1>2 DEF Stored, FrameHolds
<1>8. ASSUME NEW u \in Uids \ {v}
      PROVE  Same(u)
  BY DEF Same, Stored
<1> QED
  BY <1>1, <1>4, <1>5, <1>6, <1>7, <1>8 DEF Drops

-----------------------------------------------------------------------------
(* Starts and loads. *)

\* The file to load is that of a credential the library has not got yet.
LEMMA LoadFileStore ==
  ASSUME LocalOwners, StoreInv, NEW v \in Uids, NEW u \in Uids, LoadFile(v, u)
  PROVE  FilesKnown' /\ FrameHolds' /\ Stutters
<1>1. /\ library \in [Uids -> Cred \cup {NoCred}]
      /\ disk \in [Uids -> Cred \cup {NoCred, Partial}]
      /\ op \in Frames /\ op.todo \subseteq Uids
  BY RepoTypes DEF StoreInv, MirrorInv
<1>2. /\ op.pc = "load" /\ v \in op.todo /\ disk[v] \in Cred
      /\ disk' = disk /\ op'.pc = "load" /\ op'.todo = op.todo \ {v}
      /\ op'.kind = op.kind /\ op'.uid = op.uid
  BY <1>1 DEF LoadFile, Frames
<1>3. FilesKnown /\ FrameHolds
  BY DEF StoreInv
<1>4. Owned(disk[v], v) /\ disk[v].owner \in Principals
  BY <1>2 DEF StoreInv, MirrorInv, DiskInv, Cred
<1>5. u = v
  BY <1>4, RepoAssumption DEF LoadFile, InitUids, LocalOwners, Owned
<1>6. [disk[v] EXCEPT !.uid = u] = disk[v]
  BY <1>2, <1>4, <1>5 DEF Cred, Owned
<1>7. library[v] = NoCred
  BY <1>2, <1>3 DEF FrameHolds
<1>8. library' = [library EXCEPT ![v] = disk[v]]
  BY <1>5, <1>6, <1>7, NoFault DEF LoadFile
<1>9. FilesKnown'
  BY <1>1, <1>2, <1>3, <1>8, ValuesAssumption DEF FilesKnown
<1>10. FrameHolds'
  BY <1>1, <1>2, <1>3, <1>8 DEF FrameHolds
<1>11. Stutters
  BY <1>1, <1>2, <1>8 DEF Stutters, Same, Stored
<1> QED
  BY <1>9, <1>10, <1>11

LEMMA LoadFailsStore ==
  ASSUME StoreInv, NEW v \in Uids, LoadFails(v)
  PROVE  FilesKnown' /\ FrameHolds' /\ Stutters
<1>1. op \in Frames
  BY RepoTypes DEF StoreInv, MirrorInv
<1>2. /\ op.pc = "load" /\ disk[v] \notin Cred /\ disk' = disk /\ library' = library
      /\ op'.pc = "load" /\ op'.todo = op.todo \ {v}
  BY <1>1, NoFault, ValuesAssumption DEF LoadFails, Frames
<1>3. FilesKnown /\ FrameHolds
  BY DEF StoreInv
<1>4. FilesKnown'
  BY <1>2, <1>3 DEF FilesKnown
<1>5. FrameHolds'
  BY <1>2, <1>3 DEF FrameHolds
<1>6. Stutters
  BY <1>2 DEF Stutters, Same, Stored
<1> QED
  BY <1>4, <1>5, <1>6

LEMMA LoadEndStore ==
  ASSUME StoreInv, LoadEnd
  PROVE  FilesKnown' /\ FrameHolds' /\ Stutters
<1>1. /\ op.pc = "load" /\ op.todo = {} /\ op'.pc = "idle"
      /\ library' = library /\ disk' = disk
  BY DEF LoadEnd, Idle
<1>2. FilesKnown'
  BY <1>1 DEF StoreInv, FilesKnown
<1>3. FrameHolds'
  BY <1>1 DEF FrameHolds
<1>4. Stutters
  BY <1>1 DEF Stutters, Same, Stored
<1> QED
  BY <1>2, <1>3, <1>4

\* A start finds again, in the files, every credential but the one that an
\* addition has not written yet.
LEMMA StartStore ==
  ASSUME StoreInv, NEW v, v = op.uid, Start
  PROVE  FilesKnown' /\ FrameHolds' /\ StoreStep
<1> DEFINE writes == op.pc \in {"insert", "init", "write"}
<1>1. /\ library \in [Uids -> Cred \cup {NoCred}]
      /\ disk \in [Uids -> Cred \cup {NoCred, Partial}]
      /\ v \in Uids
  BY RepoTypes DEF StoreInv, MirrorInv
<1>2. /\ library' = [u \in Uids |-> NoCred] /\ disk' = disk
      /\ op'.pc = "load" /\ op'.kind = "load" /\ op'.todo = Files
  BY DEF Start, Idle
<1>3. FilesKnown /\ FrameHolds
  BY DEF StoreInv
<1>4. FilesKnown'
  BY <1>1, <1>2, ValuesAssumption DEF FilesKnown, Files
<1>5. FrameHolds'
  BY <1>2 DEF FrameHolds, Files
<1>6. ASSUME NEW u \in Uids
      PROVE  Stored(u)' = IF disk[u] \in Cred THEN disk[u] ELSE NoCred
  BY <1>1, <1>2, ValuesAssumption DEF Stored, Files
<1>7. ASSUME NEW u \in Uids, ~(writes /\ v = u)
      PROVE  Same(u)
  <2>1. library[u] # NoCred => disk[u] = library[u]
    BY <1>7, StoreMirror DEF Writing
  <2>2. CASE op.pc = "unlink" /\ op.uid = u
    BY <1>3, <1>6, <2>2 DEF Same, Stored, FrameHolds
  <2>3. CASE op.pc = "load" /\ u \in op.todo /\ disk[u] \in Cred
    BY <1>6, <2>3 DEF Same, Stored
  <2>4. CASE ~(op.pc = "unlink" /\ op.uid = u) /\ ~(op.pc = "load" /\ u \in op.todo /\ disk[u] \in Cred)
    <3>1. Stored(u) = library[u]
      BY <1>7, <2>4 DEF Stored
    <3>2. disk[u] \in Cred => library[u] # NoCred
      BY <1>3, <2>4 DEF FilesKnown
    <3> QED
      BY <1>1, <1>6, <2>1, <3>1, <3>2 DEF Same
  <2> QED
    BY <2>2, <2>3, <2>4
<1>8. CASE writes
  <2>1. disk[v] \notin Cred
    BY <1>1, <1>3, <1>8 DEF FilesKnown, FrameHolds
  <2>2. Stored(v)' = NoCred
    BY <1>1, <1>6, <2>1
  <2>3. CASE Stored(v) = NoCred
    <3>1. Same(v)
      BY <2>2, <2>3 DEF Same
    <3>2. \A u \in Uids \ {v} : Same(u)
      BY <1>7, Zenon
    <3>3. Stutters
      BY <3>1, <3>2, Zenon DEF Stutters
    <3> QED
      BY <1>4, <1>5, <3>3, Zenon DEF StoreStep
  <2>4. CASE Stored(v) # NoCred
    <3>1. \A u \in Uids \ {v} : Same(u)
      BY <1>7, Zenon
    <3>2. Drops(v)
      BY <2>2, <2>4, <3>1, Zenon DEF Drops
    <3> QED
      BY <1>1, <1>4, <1>5, <3>2, Zenon DEF StoreStep
  <2> QED
    BY <1>4, <1>5, <2>3, <2>4
<1>9. CASE ~writes
  BY <1>4, <1>5, <1>7, <1>9 DEF StoreStep, Stutters
<1> QED
  BY <1>8, <1>9

-----------------------------------------------------------------------------
(* The refinement. *)

\* Steps that touch neither the library, nor the files, nor the frame.
LEMMA IdleStore ==
  ASSUME StoreInv, UNCHANGED <<library, disk, op>>
  PROVE  FilesKnown' /\ FrameHolds' /\ Stutters
<1>1. FilesKnown'
  BY DEF StoreInv, FilesKnown
<1>2. FrameHolds'
  BY DEF StoreInv, FrameHolds
<1>3. Stutters
  BY DEF Stutters, Same, Stored
<1> QED
  BY <1>1, <1>2, <1>3

Refines == FilesKnown' /\ FrameHolds' /\ StoreStep

LEMMA NextStore ==
  ASSUME LocalOwners, StoreInv, RepoNext
  PROVE  Refines
<1>0. FilesKnown' /\ FrameHolds' /\ Stutters => Refines
  BY DEF StoreStep, Refines
<1>1. ASSUME NEW c \in Offered, BeginAdd(c) \/ BeginAddBlind(c)
      PROVE  Refines
  BY <1>0, <1>1, OfferedOwned, BeginAddStore, NoFault DEF BeginAddBlind
<1>2. CASE AddUnlink \/ AddInitFile \/ AddWriteFile
  BY <1>0, <1>2, AddUnlinkStore, AddWriteStore
<1>3. CASE AddInsert
  BY <1>3, AddInsertStore DEF Refines, StoreStep
<1>4. CASE AddInsertShadowed \/ AddInsertFails \/ AddStoreFails
  BY <1>4, NoFault DEF AddInsertShadowed, AddInsertFails, AddStoreFails
<1>5. ASSUME NEW u \in Uids, BeginRemove(u)
      PROVE  Refines
  BY <1>0, <1>5, BeginRemoveStore
<1>6. CASE RemoveUnlink \/ CleanUnlink
  <2>1. op \in Frames /\ op.uid \in Uids
    BY RepoTypes DEF StoreInv, MirrorInv
  <2>2. /\ op.pc = "unlink" /\ library' = library
        /\ UnlinkOk(op.uid) \/ UnlinkFails(op.uid)
    BY <1>6 DEF RemoveUnlink, CleanUnlink
  <2>3. op'.pc \in {"done", "clean"}
    BY <1>6, <2>1 DEF RemoveUnlink, CleanUnlink, Finish, ResumeClean, Frames
  <2> QED
    BY <2>1, <2>2, <2>3, UnlinkStore DEF Refines, StoreStep
<1>7. CASE BeginClean \/ CleanEnd \/ End
  <2>1. op \in Frames
    BY RepoTypes DEF StoreInv, MirrorInv
  <2>2. /\ library' = library /\ disk' = disk
        /\ op.pc \in {"idle", "clean", "done"} /\ op'.pc \in {"idle", "clean", "done"}
    <3>1. CASE BeginClean
      BY <3>1 DEF BeginClean, Idle
    <3>2. CASE CleanEnd
      BY <2>1, <3>2 DEF CleanEnd, Goto, Frames
    <3>3. CASE End
      BY <3>3 DEF End, Idle
    <3> QED
      BY <1>7, <3>1, <3>2, <3>3
  <2> QED
    BY <1>0, <2>2, LeftAlone
<1>8. ASSUME NEW u \in Uids, CleanKeep(u)
      PROVE  Refines
  <2>1. op \in Frames
    BY RepoTypes DEF StoreInv, MirrorInv
  <2>2. library' = library /\ disk' = disk /\ op.pc = "clean" /\ op'.pc = "clean"
    BY <1>8, <2>1 DEF CleanKeep, Frames
  <2> QED
    BY <1>0, <2>2, LeftAlone
<1>9. ASSUME NEW u \in Uids, CleanExpired(u) \/ CleanLookupFails(u)
      PROVE  Refines
  <2>1. op.pc = "clean" /\ disk' = disk /\ RootUid \in Uids
    BY <1>9, RepoAssumption DEF CleanExpired, CleanLookupFails
  <2>2. \E v \in Uids, rest \in SUBSET Uids : CleanRemove(v, rest)
    <3>1. op.todo \ {u} \in SUBSET Uids
      BY RepoTypes DEF StoreInv, MirrorInv
    <3>2. CleanRemove(u, op.todo \ {u}) \/ CleanRemove(RootUid, op.todo \ {u})
      BY <1>9, Zenon DEF CleanExpired, CleanLookupFails
    <3> QED
      BY <2>1, <3>1, <3>2, Zenon
  <2> QED
    BY <1>0, <2>1, <2>2, CleanExpiredStore
<1>10. ASSUME NEW v \in Uids, NEW u \in Uids, LoadFile(v, u)
       PROVE  Refines
  BY <1>0, <1>10, LoadFileStore
<1>11. ASSUME NEW v \in Uids, LoadFails(v)
       PROVE  Refines
  BY <1>0, <1>11, LoadFailsStore
<1>12. CASE LoadEnd
  BY <1>0, <1>12, LoadEndStore
<1>13. CASE Restart \/ Crash
  BY <1>13, StartStore DEF Restart, Crash, Refines
<1>14. CASE Tick
  BY <1>0, <1>14, IdleStore DEF Tick
<1> QED
  BY <1>1, <1>2, <1>3, <1>4, <1>5, <1>6, <1>7, <1>8, <1>9, <1>10, <1>11, <1>12, <1>13, <1>14
  DEF RepoNext, Proceed

LEMMA NextStoreInv ==
  ASSUME LocalOwners, StoreInv, [RepoNext]_repoVars
  PROVE  StoreInv' /\ StoreStep
<1>1. MirrorInv'
  BY NextMirror DEF StoreInv
<1>2. CASE RepoNext
  BY <1>1, <1>2, NextStore, WorldStep DEF StoreInv, Refines
<1>3. CASE UNCHANGED repoVars
  BY <1>1, <1>3, IdleStore DEF repoVars, StoreInv, StoreStep
<1> QED
  BY <1>2, <1>3

\* The store that the repository stands for.
Shown == [u \in Uids |-> Stored(u)]

LEMMA StepRefines ==
  ASSUME StoreStep
  PROVE  [Store!StoreNext]_Shown
<1>1. CASE Stutters
  <2>1. Shown' = Shown
    BY <1>1 DEF Stutters, Same, Shown
  <2> QED
    BY <2>1
<1>2. ASSUME NEW v \in Uids, Drops(v)
      PROVE  Store!StoreNext
  <2>1. \A u \in Uids : Stored(u)' = IF u = v THEN NoCred ELSE Stored(u)
    BY <1>2 DEF Drops, Same
  <2>2. Store!Drop(v)
    BY <1>2, <2>1 DEF Store!Drop, Drops
  <2> QED
    BY <2>2 DEF Store!StoreNext
<1>3. ASSUME NEW c \in Cred, Puts(c)
      PROVE  Store!StoreNext
  <2>1. Store!Put(c)
    BY <1>3 DEF Puts, Same, Store!Put, Store!Outlasts, AtLeastAsGood
  <2> QED
    BY <2>1 DEF Store!StoreNext, Store!StoreCred, Cred
<1> QED
  BY <1>1, <1>2, <1>3 DEF StoreStep

LEMMA InitRefines == RepoInit => Store!StoreInit
BY DEF RepoInit, Store!StoreInit, Stored, Idle

\* When the only fault is the death of the process and every principal has an
\* account, the repository is the store of CredStore: a restart, wherever it
\* cuts an operation short, loses one credential at most and brings none back.
THEOREM RepoImplementsStore ==
  ASSUME LocalOwners, OnlyCrashes
  PROVE  RepoSpec => ImplementsStore
<1>1. RepoInit => StoreInv /\ Store!StoreInit
  BY InitStoreInv, InitRefines
<1>2. StoreInv /\ [RepoNext]_repoVars => StoreInv' /\ [Store!StoreNext]_Shown
  BY NextStoreInv, StepRefines
<1> QED
  BY <1>1, <1>2, PTL DEF RepoSpec, ImplementsStore, Store!StoreSpec, Shown

----------------------------------------------------------------------------
(* Acknowledged operations hold (PromiseKept) when every principal has a   *)
(* local account, although files may refuse to go away and the process may *)
(* die between any two steps.                                              *)

\* The promise about the uid of the operation in progress is being replaced.
Busy(u) ==
  /\ op.uid = u
  /\ \/ op.kind = "add"
     \/ op.pc = "unlink"
     \/ op.kind = "remove" /\ op.pc = "done" /\ op.ret # "not_found"

\* What the library has for u is at least as good as p.
Has(u, p) == library[u] # NoCred /\ AtLeastAsGood(library[u], p)

\* An addition, from its comparison to the acknowledgement.
AddKeeps ==
  op.kind = "add" =>
    /\ op.pc \in {"unlink", "insert", "init", "write", "done"}
    /\ op.pc = "done" => op.ret # "not_found"
    /\ op.pc \in {"init", "write"} => library[op.uid] = op.cred
    /\ op.pc = "done" /\ op.ret = "success" => Has(op.uid, op.cred)
    /\ op.uid \notin torn /\ promise[op.uid] \in Cred =>
         /\ op.pc # "done" => AtLeastAsGood(op.cred, promise[op.uid])
         /\ op.pc = "done" /\ op.ret = "success" => Has(op.uid, promise[op.uid])

RemoveKeeps ==
  op.kind = "remove" =>
    /\ op.pc \in {"unlink", "done"}
    /\ op.pc = "done" /\ op.ret = "success" =>
         library[op.uid] = NoCred /\ disk[op.uid] \notin Cred

\* While the files are loaded a promised credential is in one of them or in
\* the library, and one that was removed in neither.
Loads(u) ==
  /\ promise[u] \in Cred =>
       \/ u \in op.todo /\ disk[u] \in Cred /\ AtLeastAsGood(disk[u], promise[u])
       \/ Has(u, promise[u])
  /\ promise[u] = NoCred => library[u] = NoCred /\ disk[u] \notin Cred

KeepInv ==
  /\ AddKeeps
  /\ RemoveKeeps
  /\ op.pc = "load" => op.kind = "load"
  /\ op.pc = "unlink" => op.kind \in {"add", "remove", "clean"}
  /\ \A u \in Uids \ torn :
       IF op.pc = "load" THEN Loads(u) ELSE ~Busy(u) => Keeps(u)

PromiseInv == MirrorInv /\ (Dependable => KeepInv)

-----------------------------------------------------------------------------

\* The replacement rule is a total preorder.
LEMMA Ordered ==
  ASSUME NEW a \in Cred, NEW b \in Cred, NEW c \in Cred
  PROVE  /\ AtLeastAsGood(a, a)
         /\ AtLeastAsGood(a, b) \/ AtLeastAsGood(b, a)
         /\ AtLeastAsGood(a, b) /\ AtLeastAsGood(b, c) => AtLeastAsGood(a, c)
<1>1. /\ a.renewTill \in Nat /\ b.renewTill \in Nat /\ c.renewTill \in Nat
      /\ a.endtime \in Nat /\ b.endtime \in Nat /\ c.endtime \in Nat
  BY RepoAssumption DEF Cred
<1> DEFINE Rule(x, y, s, t) == x > y \/ (x = y /\ s >= t)
<1>2. \A x, y, z, r, s, t \in Nat :
        /\ Rule(x, x, r, r)
        /\ Rule(x, y, r, s) \/ Rule(y, x, s, r)
        /\ Rule(x, y, r, s) /\ Rule(y, z, s, t) => Rule(x, z, r, t)
  OBVIOUS
<1>3. \A d, e \in {a, b, c} :
        AtLeastAsGood(d, e) <=> Rule(d.renewTill, e.renewTill, d.endtime, e.endtime)
  BY DEF AtLeastAsGood
<1> HIDE DEF Rule
<1> QED
  BY <1>1, <1>2, <1>3

LEMMA Types ==
  ASSUME MirrorInv
  PROVE  /\ library \in [Uids -> Cred \cup {NoCred}]
         /\ disk \in [Uids -> Cred \cup {NoCred, Partial}]
         /\ promise \in [Uids -> Cred \cup {NoCred, Unknown}]
         /\ op \in Frames
         /\ op.uid \in Uids /\ op.todo \subseteq Uids
BY DEF MirrorInv, RepoTypeOK, Slot, Frames

LEMMA InitPromise == RepoInit => PromiseInv
<1> SUFFICES ASSUME RepoInit
             PROVE  PromiseInv
  OBVIOUS
<1>1. op.kind = "none" /\ op.pc = "idle" /\ promise = [u \in Uids |-> Unknown]
  BY DEF RepoInit, Idle
<1> QED
  BY <1>1, InitMirror, ValuesAssumption
  DEF PromiseInv, KeepInv, AddKeeps, RemoveKeeps, Keeps

\* Nothing about u has changed.
LEMMA StillKeeps ==
  ASSUME NEW u, Keeps(u), library'[u] = library[u], disk'[u] = disk[u], promise'[u] = promise[u]
  PROVE  Keeps(u)'
BY DEF Keeps

-----------------------------------------------------------------------------
(* Additions. *)

LEMMA BeginAddKeeps ==
  ASSUME MirrorInv, KeepInv, NEW c \in Cred, c.uid \in Uids, BeginAdd(c)
  PROVE  KeepInv'
<1> DEFINE v == c.uid
<1>1. /\ op.pc = "idle" /\ disk' = disk /\ promise' = promise /\ torn' = torn
      /\ op'.uid = v /\ op'.cred = c /\ op'.kind = "add"
  BY ZenonT(30) DEF BeginAdd, Idle, history
<1>2. \/ op'.pc = "insert" /\ library[v] = NoCred /\ library' = library
      \/ /\ op'.pc = "done" /\ op'.ret = "success" /\ library' = library
         /\ library[v] # NoCred /\ ~AtLeastAsGood(c, library[v])
      \/ /\ op'.pc = "unlink" /\ library[v] # NoCred /\ AtLeastAsGood(c, library[v])
         /\ library' = [library EXCEPT ![v] = NoCred]
  BY DEF BeginAdd, Idle
<1>3. \A u \in Uids \ torn : Keeps(u)
  BY <1>1 DEF KeepInv, AddKeeps, RemoveKeeps, Busy
<1>4. library[v] # NoCred =>
        /\ library[v] \in Cred
        /\ AtLeastAsGood(c, library[v]) \/ AtLeastAsGood(library[v], c)
  BY Types, Ordered
<1>5. v \notin torn /\ promise[v] \in Cred =>
        /\ library[v] # NoCred /\ AtLeastAsGood(library[v], promise[v])
        /\ AtLeastAsGood(c, library[v]) => AtLeastAsGood(c, promise[v])
  BY <1>3, <1>4, Ordered DEF Keeps
<1>6. AddKeeps'
  BY <1>1, <1>2, <1>4, <1>5 DEF AddKeeps, Has
<1>7. \A u \in Uids \ torn : u # v => Keeps(u)'
  BY <1>1, <1>2, <1>3, Types DEF Keeps
<1> QED
  BY <1>1, <1>2, <1>6, <1>7 DEF KeepInv, RemoveKeeps, Busy

\* A step of an addition changes what concerns its own uid only.
LEMMA AddKeepsOthers ==
  ASSUME MirrorInv, KeepInv, AddKeeps', op.kind = "add", op'.kind = "add",
         op'.uid = op.uid, op'.pc # "load", promise' = promise, torn' = torn,
         \A u \in Uids : u # op.uid => library'[u] = library[u] /\ disk'[u] = disk[u]
  PROVE  KeepInv'
<1>1. op.pc # "load"
  BY DEF KeepInv
<1>2. \A u \in Uids \ torn : u # op.uid => Keeps(u)'
  BY <1>1 DEF KeepInv, Busy, Keeps
<1> QED
  BY <1>2 DEF KeepInv, RemoveKeeps, Busy

LEMMA AddStepKeeps ==
  ASSUME MirrorInv, KeepInv, ~Fault("oom"),
         \/ AddUnlink \/ AddInsert \/ AddInsertShadowed \/ AddInsertFails
         \/ AddInitFile \/ AddWriteFile \/ AddStoreFails
  PROVE  KeepInv'
<1>0. /\ library \in [Uids -> Cred \cup {NoCred}]
      /\ disk \in [Uids -> Cred \cup {NoCred, Partial}]
      /\ op \in Frames /\ op.uid \in Uids
  BY Types
<1>1. op.kind = "add" /\ op.cred \in Cred
  BY DEF AddUnlink, AddInsert, AddInsertShadowed, AddInsertFails, AddInitFile, AddWriteFile,
    AddStoreFails, MirrorInv, FrameInv
<1>2. AddKeeps /\ (op.kind = "add" => AtLeastAsGood(op.cred, op.cred))
  BY <1>1, Ordered DEF KeepInv
<1>3. CASE AddUnlink
  <2>1. /\ op'.pc = "insert" /\ op'.kind = "add" /\ op'.uid = op.uid /\ op'.cred = op.cred
        /\ library' = library /\ promise' = promise /\ torn' = torn /\ op.pc = "unlink"
    BY <1>0, <1>3 DEF AddUnlink, Goto, Frames, history
  <2>2. \A u \in Uids : u # op.uid => library'[u] = library[u] /\ disk'[u] = disk[u]
    BY <1>0, <1>3 DEF AddUnlink, UnlinkOk, UnlinkFails
  <2>3. AddKeeps'
    BY <1>1, <1>2, <2>1 DEF AddKeeps
  <2> QED
    BY <1>1, <2>1, <2>2, <2>3, AddKeepsOthers
<1>4. CASE AddInsert
  <2>1. /\ op'.pc = "init" /\ op'.kind = "add" /\ op'.uid = op.uid /\ op'.cred = op.cred
        /\ library' = [library EXCEPT ![op.uid] = op.cred]
        /\ disk' = disk /\ promise' = promise /\ torn' = torn /\ op.pc = "insert"
    BY <1>0, <1>1, <1>4 DEF AddInsert, Goto, Frames, history
  <2>2. AddKeeps'
    BY <1>0, <1>1, <1>2, <2>1 DEF AddKeeps
  <2> QED
    BY <1>0, <1>1, <2>1, <2>2, AddKeepsOthers
<1>5. CASE AddInitFile
  <2>1. /\ op'.pc = "write" /\ op'.kind = "add" /\ op'.uid = op.uid /\ op'.cred = op.cred
        /\ disk' = [disk EXCEPT ![op.uid] = Partial]
        /\ library' = library /\ promise' = promise /\ torn' = torn /\ op.pc = "init"
    BY <1>0, <1>1, <1>5 DEF AddInitFile, Goto, Frames, history
  <2>2. AddKeeps'
    BY <1>1, <1>2, <2>1 DEF AddKeeps
  <2> QED
    BY <1>0, <1>1, <2>1, <2>2, AddKeepsOthers
<1>6. CASE AddWriteFile
  <2>1. /\ op'.pc = "done" /\ op'.ret = "success" /\ op'.kind = "add"
        /\ op'.uid = op.uid /\ op'.cred = op.cred
        /\ disk' = [disk EXCEPT ![op.uid] = op.cred]
        /\ library' = library /\ promise' = promise /\ torn' = torn /\ op.pc = "write"
    BY <1>0, <1>1, <1>6 DEF AddWriteFile, Finish, Frames, history
  <2>2. AddKeeps'
    BY <1>1, <1>2, <2>1, ValuesAssumption DEF AddKeeps, Has
  <2> QED
    BY <1>0, <1>1, <2>1, <2>2, AddKeepsOthers
<1>7. CASE AddStoreFails
  <2>1. /\ op'.pc = "done" /\ op'.ret = "store_failed" /\ op'.kind = "add"
        /\ op'.uid = op.uid /\ op'.cred = op.cred
        /\ disk' = disk /\ library' = library /\ promise' = promise /\ torn' = torn
    BY <1>0, <1>1, <1>7 DEF AddStoreFails, Finish, Frames, history
  <2>2. AddKeeps'
    BY <2>1 DEF AddKeeps
  <2> QED
    BY <1>1, <2>1, <2>2, AddKeepsOthers
<1> QED
  BY <1>3, <1>4, <1>5, <1>6, <1>7 DEF AddInsertShadowed, AddInsertFails

-----------------------------------------------------------------------------
(* Removals and cleanings. *)

\* A removal or a cleaning takes the credential of v out of the library.
LEMMA TakesOutKeeps ==
  ASSUME MirrorInv, KeepInv, NEW v \in Uids, op.pc \in {"idle", "clean"},
         library' = [library EXCEPT ![v] = NoCred], disk' = disk,
         promise' = promise, torn' = torn,
         op'.pc = "unlink", op'.uid = v, op'.kind \in {"remove", "clean"}
  PROVE  KeepInv'
<1>1. \A u \in Uids \ torn : Keeps(u)
  BY DEF KeepInv, AddKeeps, RemoveKeeps, Busy
<1>2. \A u \in Uids \ torn : u # v => Keeps(u)'
  BY <1>1, Types DEF Keeps
<1> QED
  BY <1>2 DEF KeepInv, AddKeeps, RemoveKeeps, Busy

\* An operation begins, ends or goes on without touching anything.
LEMMA NothingDoneKeeps ==
  ASSUME KeepInv, op.pc \in {"idle", "clean"},
         UNCHANGED <<library, disk, promise, torn>>,
         \/ op'.kind \in {"none", "clean"} /\ op'.pc \in {"idle", "clean", "done"}
         \/ op'.kind = "remove" /\ op'.pc = "done" /\ op'.ret = "not_found"
  PROVE  KeepInv'
<1>1. \A u \in Uids \ torn : Keeps(u)
  BY DEF KeepInv, AddKeeps, RemoveKeeps, Busy
<1>2. \A u \in Uids \ torn : Keeps(u)'
  BY <1>1 DEF Keeps
<1> QED
  BY <1>2 DEF KeepInv, AddKeeps, RemoveKeeps

LEMMA RemoveStepKeeps ==
  ASSUME MirrorInv, KeepInv, ~Fault("oom"), (\E v \in Uids : BeginRemove(v)) \/ RemoveUnlink
  PROVE  KeepInv'
<1>1. ASSUME NEW v \in Uids, BeginRemove(v)
      PROVE  KeepInv'
  <2> DEFINE frame == [Idle EXCEPT !.kind = "remove", !.uid = v, !.old = library[v]]
  <2>1. disk' = disk /\ promise' = promise /\ torn' = torn /\ op.pc = "idle"
    BY <1>1 DEF BeginRemove, history
  <2>2. CASE library' = [library EXCEPT ![v] = NoCred] /\ op' = [frame EXCEPT !.pc = "unlink"]
    <3>1. op'.pc = "unlink" /\ op'.uid = v /\ op'.kind = "remove"
      BY <2>2 DEF Idle
    <3> QED
      BY <2>1, <2>2, <3>1, TakesOutKeeps
  <2>3. CASE op' = [frame EXCEPT !.pc = "done", !.ret = "not_found"] /\ library' = library
    <3>1. op'.kind = "remove" /\ op'.pc = "done" /\ op'.ret = "not_found"
      BY <2>3 DEF Idle
    <3> QED
      BY <2>1, <2>3, <3>1, NothingDoneKeeps
  <2> QED
    BY <1>1, <2>2, <2>3, Zenon DEF BeginRemove
<1>2. CASE RemoveUnlink
  <2>1. /\ library \in [Uids -> Cred \cup {NoCred}]
        /\ disk \in [Uids -> Cred \cup {NoCred, Partial}]
        /\ op \in Frames /\ op.uid \in Uids
    BY Types
  <2>2. /\ op.pc = "unlink" /\ op.kind = "remove"
        /\ library' = library /\ promise' = promise /\ torn' = torn
        /\ op'.pc = "done" /\ op'.kind = "remove" /\ op'.uid = op.uid
        /\ op'.ret \in {"success", "unlink_failed"}
        /\ op'.ret = "success" => disk' = [disk EXCEPT ![op.uid] = NoCred]
        /\ disk' = disk \/ disk' = [disk EXCEPT ![op.uid] = NoCred]
    BY <1>2, <2>1 DEF RemoveUnlink, UnlinkOk, UnlinkFails, Finish, Frames, history
  <2>3. library[op.uid] = NoCred
    BY <2>2 DEF MirrorInv, FrameInv
  <2>4. \A u \in Uids \ torn : u # op.uid => Keeps(u)
    BY <2>2 DEF KeepInv, Busy
  <2>5. \A u \in Uids \ torn : u # op.uid => Keeps(u)'
    BY <2>1, <2>2, <2>4 DEF Keeps
  <2> QED
    BY <2>1, <2>2, <2>3, <2>5, ValuesAssumption DEF KeepInv, AddKeeps, RemoveKeeps, Busy
<1> QED
  BY <1>1, <1>2

LEMMA CleanStepKeeps ==
  ASSUME MirrorInv, KeepInv, ~Fault("oom"),
         \/ BeginClean
         \/ \E u \in Uids : CleanKeep(u) \/ CleanExpired(u) \/ CleanLookupFails(u)
         \/ CleanUnlink \/ CleanEnd
  PROVE  KeepInv'
<1>0. /\ library \in [Uids -> Cred \cup {NoCred}]
      /\ disk \in [Uids -> Cred \cup {NoCred, Partial}]
      /\ promise \in [Uids -> Cred \cup {NoCred, Unknown}]
      /\ op \in Frames /\ op.uid \in Uids
  BY Types
<1>1. CASE BeginClean
  <2>1. /\ op.pc = "idle" /\ op'.kind = "clean" /\ op'.pc = "clean"
        /\ UNCHANGED <<library, disk, promise, torn>>
    BY <1>1 DEF BeginClean, Idle, history
  <2> QED
    BY <2>1, NothingDoneKeeps
<1>2. ASSUME NEW u \in Uids, CleanKeep(u)
      PROVE  KeepInv'
  <2>1. /\ op.pc = "clean" /\ op'.pc = "clean" /\ op'.kind = op.kind
        /\ UNCHANGED <<library, disk, promise, torn>>
    BY <1>0, <1>2 DEF CleanKeep, Frames, history
  <2> QED
    BY <2>1, NothingDoneKeeps DEF MirrorInv, FrameInv
<1>3. ASSUME NEW v \in Uids, NEW rest, CleanRemove(v, rest), op.pc = "clean",
             UNCHANGED <<disk, promise, torn>>
      PROVE  KeepInv'
  <2>1. op.kind = "clean"
    BY <1>3 DEF MirrorInv, FrameInv
  <2>2. CASE /\ library' = [library EXCEPT ![v] = NoCred]
             /\ op' = [op EXCEPT !.pc = "unlink", !.uid = v, !.old = library[v], !.todo = rest]
    <3>1. op'.pc = "unlink" /\ op'.uid = v /\ op'.kind = "clean"
      BY <1>0, <2>1, <2>2 DEF Frames
    <3> QED
      BY <1>3, <2>2, <3>1, TakesOutKeeps
  <2>3. CASE op' = [op EXCEPT !.ret = "not_found", !.todo = rest] /\ library' = library
    <3>1. op'.pc = "clean" /\ op'.kind = "clean"
      BY <1>0, <1>3, <2>1, <2>3 DEF Frames
    <3> QED
      BY <1>3, <2>3, <3>1, NothingDoneKeeps
  <2> QED
    BY <1>3, <2>2, <2>3, Zenon DEF CleanRemove
<1>4. ASSUME NEW u \in Uids, CleanExpired(u) \/ CleanLookupFails(u)
      PROVE  KeepInv'
  <2>1. op.pc = "clean" /\ UNCHANGED <<disk, promise, torn>> /\ RootUid \in Uids
    BY <1>4, RepoAssumption DEF CleanExpired, CleanLookupFails, history
  <2>2. CleanRemove(u, op.todo \ {u}) \/ CleanRemove(RootUid, op.todo \ {u})
    BY <1>4, Zenon DEF CleanExpired, CleanLookupFails
  <2> QED
    BY <1>3, <2>1, <2>2, Zenon
<1>5. CASE CleanUnlink
  <2>1. /\ op.pc = "unlink" /\ library' = library /\ torn' = torn \ {op.uid}
        /\ op'.pc = "clean" /\ op'.kind = "clean"
    BY <1>0, <1>5 DEF CleanUnlink, ResumeClean, Frames
  <2>2. \/ /\ disk' = [disk EXCEPT ![op.uid] = NoCred]
           /\ promise' = [promise EXCEPT ![op.uid] = NoCred]
        \/ disk' = disk /\ promise' = [promise EXCEPT ![op.uid] = Unknown]
    BY <1>5 DEF CleanUnlink, UnlinkOk, UnlinkFails
  <2>3. library[op.uid] = NoCred
    BY <2>1 DEF MirrorInv, FrameInv
  <2>4. \A u \in Uids \ torn : u # op.uid => Keeps(u)
    BY <2>1 DEF KeepInv, Busy
  <2>5. \A u \in Uids \ torn : u # op.uid => Keeps(u)'
    BY <1>0, <2>1, <2>2, <2>4 DEF Keeps
  <2>6. \A u \in Uids : u = op.uid => Keeps(u)'
    BY <1>0, <2>1, <2>2, <2>3, ValuesAssumption DEF Keeps
  <2> QED
    BY <2>1, <2>5, <2>6 DEF KeepInv, AddKeeps, RemoveKeeps
<1>6. CASE CleanEnd
  <2>1. /\ op.pc = "clean" /\ op'.pc = "done" /\ op'.kind = op.kind
        /\ UNCHANGED <<library, disk, promise, torn>>
    BY <1>0, <1>6 DEF CleanEnd, Goto, Frames, history
  <2> QED
    BY <2>1, NothingDoneKeeps DEF MirrorInv, FrameInv
<1> QED
  BY <1>1, <1>2, <1>4, <1>5, <1>6

-----------------------------------------------------------------------------
(* Acknowledgements. *)

\* The caller is told of an addition or a removal, and the promise follows.
LEMMA EndKeeps ==
  ASSUME MirrorInv, KeepInv, End
  PROVE  KeepInv'
<1>0. /\ library \in [Uids -> Cred \cup {NoCred}]
      /\ disk \in [Uids -> Cred \cup {NoCred, Partial}]
      /\ promise \in [Uids -> Cred \cup {NoCred, Unknown}]
      /\ op.uid \in Uids
  BY Types
<1>1. /\ op.pc = "done" /\ library' = library /\ disk' = disk
      /\ op'.pc = "idle" /\ op'.kind = "none"
  BY DEF End, Idle
<1>2. \A u \in Uids \ torn : ~Busy(u) => Keeps(u)
  BY <1>1 DEF KeepInv
<1>3. CASE Settles
  <2>1. promise' = [promise EXCEPT ![op.uid] = Promised] /\ torn' = torn \ {op.uid}
    BY <1>3 DEF End
  <2>2. \A u \in Uids \ torn : u # op.uid => Keeps(u)'
    BY <1>0, <1>1, <1>2, <2>1 DEF Busy, Keeps
  <2>3. CASE op.kind = "add" /\ op.ret = "success"
    <3>1. /\ Has(op.uid, op.cred) /\ op.cred \in Cred
          /\ op.uid \notin torn /\ promise[op.uid] \in Cred => Has(op.uid, promise[op.uid])
      BY <1>1, <2>3 DEF KeepInv, AddKeeps, MirrorInv, FrameInv
    <3>2. Promised \in Cred /\ Has(op.uid, Promised)
      BY <2>3, <3>1 DEF Promised, Better
    <3>3. \A u \in Uids : u = op.uid => Keeps(u)'
      BY <1>0, <1>1, <2>1, <3>2, ValuesAssumption DEF Keeps, Has
    <3> QED
      BY <1>1, <2>1, <2>2, <3>3 DEF KeepInv, AddKeeps, RemoveKeeps
  <2>4. CASE op.kind = "remove" /\ op.ret = "success"
    <3>1. Promised = NoCred
      BY <2>4 DEF Promised
    <3>2. library[op.uid] = NoCred /\ disk[op.uid] \notin Cred
      BY <1>1, <2>4 DEF KeepInv, RemoveKeeps
    <3>3. \A u \in Uids : u = op.uid => Keeps(u)'
      BY <1>0, <1>1, <2>1, <3>1, <3>2, ValuesAssumption DEF Keeps
    <3> QED
      BY <1>1, <2>1, <2>2, <3>3 DEF KeepInv, AddKeeps, RemoveKeeps
  <2>5. CASE op.ret # "success"
    <3>1. Promised = Unknown
      BY <2>5 DEF Promised
    <3>2. \A u \in Uids : u = op.uid => Keeps(u)'
      BY <1>0, <1>1, <2>1, <3>1, ValuesAssumption DEF Keeps
    <3> QED
      BY <1>1, <2>1, <2>2, <3>2 DEF KeepInv, AddKeeps, RemoveKeeps
  <2> QED
    BY <1>3, <2>3, <2>4, <2>5 DEF Settles
<1>4. CASE ~Settles
  <2>1. promise' = promise /\ torn' = torn
    BY <1>4 DEF End, history
  <2>2. \A u \in Uids : ~Busy(u)
    BY <1>1, <1>4 DEF Settles, Busy, KeepInv, AddKeeps
  <2>3. \A u \in Uids \ torn : Keeps(u)'
    BY <1>1, <1>2, <2>1, <2>2 DEF Keeps
  <2> QED
    BY <1>1, <2>1, <2>3 DEF KeepInv, AddKeeps, RemoveKeeps
<1> QED
  BY <1>3, <1>4

-----------------------------------------------------------------------------
(* Starts and loads. *)

\* What is promised is in the files when the memory is lost.
LEMMA StartLoads ==
  ASSUME MirrorInv, KeepInv, Reliable, Start, NEW u \in Uids,
         promise'[u] # Unknown => promise'[u] = promise[u],
         promise'[u] # Unknown =>
           IF op.pc = "load" THEN Loads(u) ELSE Keeps(u) /\ ~Writing(u)
  PROVE  Loads(u)'
<1>0. /\ library \in [Uids -> Cred \cup {NoCred}]
      /\ disk \in [Uids -> Cred \cup {NoCred, Partial}]
  BY Types
<1>1. /\ library' = [v \in Uids |-> NoCred] /\ disk' = disk /\ op'.todo = Files
  BY DEF Start, Idle
<1>2. library[u] # NoCred /\ ~Writing(u) => disk[u] = library[u] /\ disk[u] \in Cred
  BY <1>0 DEF MirrorInv, LibraryInv
<1>3. op.pc = "load" => ~Writing(u)
  BY DEF Writing
<1>4. ASSUME promise'[u] \in Cred
      PROVE  disk[u] \in Cred /\ AtLeastAsGood(disk[u], promise[u])
  <2>1. promise'[u] # Unknown /\ promise[u] \in Cred
    BY <1>4, ValuesAssumption
  <2> QED
    BY <1>2, <1>3, <2>1 DEF Loads, Keeps, Has
<1>5. ASSUME promise'[u] = NoCred
      PROVE  disk[u] \notin Cred
  <2>1. promise'[u] # Unknown /\ promise[u] = NoCred
    BY <1>5, ValuesAssumption
  <2> QED
    BY <2>1 DEF Loads, Keeps
<1>6. disk[u] \in Cred => u \in Files
  BY ValuesAssumption DEF Files
<1>7. promise'[u] \in Cred => promise'[u] = promise[u]
  BY ValuesAssumption
<1> QED
  BY <1>1, <1>4, <1>5, <1>6, <1>7 DEF Loads

LEMMA StartKeeps ==
  ASSUME MirrorInv, KeepInv, Reliable, Restart \/ Crash
  PROVE  KeepInv'
<1>0. promise \in [Uids -> Cred \cup {NoCred, Unknown}] /\ op.uid \in Uids
  BY Types
<1>1. Start /\ op'.pc = "load" /\ op'.kind = "load"
  BY DEF Restart, Crash, Start, Idle
<1>2. ASSUME NEW u \in Uids \ torn'
      PROVE  Loads(u)'
  <2>1. CASE Restart
    <3>1. op.pc = "idle" /\ promise' = promise /\ torn' = torn
      BY <2>1 DEF Restart, history
    <3>2. Keeps(u) /\ ~Writing(u)
      BY <1>2, <3>1 DEF KeepInv, AddKeeps, RemoveKeeps, Busy, Writing
    <3> QED
      BY <1>1, <3>1, <3>2, StartLoads
  <2>2. CASE Crash
    <3>1. /\ u \notin torn
          /\ op.kind = "add" => u # op.uid
          /\ promise'[u] # Unknown =>
               /\ promise'[u] = promise[u]
               /\ op.kind = "remove" \/ (op.kind = "clean" /\ op.pc = "unlink") => u # op.uid
      BY <1>0, <1>2, <2>2 DEF Crash
    <3>2. ~Writing(u)
      BY <3>1 DEF Writing, MirrorInv, FrameInv
    <3>3. promise'[u] # Unknown => ~Busy(u)
      BY <3>1 DEF Busy, KeepInv
    <3>4. promise'[u] # Unknown =>
            IF op.pc = "load" THEN Loads(u) ELSE Keeps(u) /\ ~Writing(u)
      BY <3>1, <3>2, <3>3 DEF KeepInv
    <3> QED
      BY <1>1, <3>1, <3>4, StartLoads
  <2> QED
    BY <2>1, <2>2
<1> QED
  BY <1>1, <1>2 DEF KeepInv, AddKeeps, RemoveKeeps

LEMMA LoadFileKeeps ==
  ASSUME LocalOwners, MirrorInv, KeepInv, ~Fault("oom"),
         NEW v \in Uids, NEW u \in Uids, LoadFile(v, u)
  PROVE  KeepInv'
<1>0. /\ library \in [Uids -> Cred \cup {NoCred}]
      /\ disk \in [Uids -> Cred \cup {NoCred, Partial}]
      /\ promise \in [Uids -> Cred \cup {NoCred, Unknown}]
      /\ op \in Frames
  BY Types
<1>1. /\ op.pc = "load" /\ v \in op.todo /\ disk[v] \in Cred
      /\ disk' = disk /\ promise' = promise /\ torn' = torn
      /\ op'.pc = "load" /\ op'.kind = op.kind /\ op'.todo = op.todo \ {v}
  BY <1>0 DEF LoadFile, Frames, history
<1>2. Owned(disk[v], v) /\ disk[v].owner \in Principals
  BY <1>1 DEF MirrorInv, DiskInv, Cred
<1>3. u = v
  BY <1>2, RepoAssumption DEF LoadFile, InitUids, LocalOwners, Owned
<1>4. [disk[v] EXCEPT !.uid = u] = disk[v]
  BY <1>1, <1>2, <1>3 DEF Cred, Owned
<1>5. library' = [library EXCEPT ![v] =
                    IF library[v] = NoCred \/ AtLeastAsGood(disk[v], library[v])
                    THEN disk[v] ELSE library[v]]
  BY <1>3, <1>4 DEF LoadFile
<1>6. \A w \in Uids \ torn : Loads(w)
  BY <1>1 DEF KeepInv
<1>7. \A w \in Uids \ torn : w # v => Loads(w)'
  BY <1>0, <1>1, <1>5, <1>6 DEF Loads, Has
<1>8. v \notin torn => Loads(v)'
  <2> SUFFICES ASSUME v \notin torn
               PROVE  Loads(v)'
    OBVIOUS
  <2>1. Loads(v) /\ promise[v] # NoCred
    BY <1>1, <1>6 DEF Loads
  <2>2. library'[v] \in Cred /\ AtLeastAsGood(library'[v], disk[v])
        /\ (library[v] # NoCred => AtLeastAsGood(library'[v], library[v]))
    BY <1>0, <1>1, <1>5, Ordered
  <2>3. promise[v] \in Cred => AtLeastAsGood(library'[v], promise[v])
    BY <1>0, <1>1, <2>1, <2>2, Ordered DEF Loads, Has
  <2> QED
    BY <1>1, <2>1, <2>2, <2>3, ValuesAssumption DEF Loads, Has
<1> QED
  BY <1>1, <1>7, <1>8 DEF KeepInv, AddKeeps, RemoveKeeps

LEMMA LoadStepKeeps ==
  ASSUME MirrorInv, KeepInv, ~Fault("oom"), ~Fault("load"),
         (\E v \in Uids : LoadFails(v)) \/ LoadEnd
  PROVE  KeepInv'
<1>0. op \in Frames
  BY Types
<1>1. ASSUME NEW v \in Uids, LoadFails(v)
      PROVE  KeepInv'
  <2>1. /\ op.pc = "load" /\ disk[v] \notin Cred
        /\ UNCHANGED <<library, disk, promise, torn>>
        /\ op'.pc = "load" /\ op'.kind = op.kind /\ op'.todo = op.todo \ {v}
    BY <1>0, <1>1, ValuesAssumption DEF LoadFails, Frames, history
  <2>2. \A w \in Uids \ torn : Loads(w)'
    BY <2>1 DEF KeepInv, Loads, Has
  <2> QED
    BY <2>1, <2>2 DEF KeepInv, AddKeeps, RemoveKeeps
<1>2. CASE LoadEnd
  <2>1. /\ op.pc = "load" /\ op.todo = {} /\ op'.pc = "idle" /\ op'.kind = "none"
        /\ UNCHANGED <<library, disk, promise, torn>>
    BY <1>2 DEF LoadEnd, Idle, history
  <2>2. \A w \in Uids \ torn : Keeps(w)'
    BY <2>1 DEF KeepInv, Loads, Has, Keeps
  <2> QED
    BY <2>1, <2>2 DEF KeepInv, AddKeeps, RemoveKeeps
<1> QED
  BY <1>1, <1>2

-----------------------------------------------------------------------------

\* A step that is no start leaves the number of restarts alone.
LEMMA Restarting ==
  ASSUME RepoTypeOK, RepoNext, Dependable'
  PROVE  Dependable /\ (Restart \/ Crash => Reliable)
<1>1. faults' = faults
  BY WorldStep
<1>2. Restart \/ Crash => restarts' = restarts + 1 /\ restarts \in Nat
  BY RepoAssumption DEF Restart, Crash, Start, RepoTypeOK
<1>3. restarts' = restarts \/ Restart \/ Crash
  <2>1. CASE \/ \E c \in Offered : BeginAdd(c) \/ BeginAddBlind(c)
             \/ \E u \in Uids : BeginRemove(u)
             \/ BeginClean \/ End \/ Tick
    BY <2>1 DEF BeginAdd, BeginAddBlind, BeginRemove, BeginClean, End, Tick, world
  <2>2. CASE Proceed
    BY <2>2 DEF Proceed, AddUnlink, AddInsert, AddInsertShadowed, AddInsertFails, AddInitFile,
      AddWriteFile, AddStoreFails, RemoveUnlink, CleanKeep, CleanExpired, CleanLookupFails,
      CleanUnlink, CleanEnd, LoadFile, LoadFails, LoadEnd, world
  <2> QED
    BY <2>1, <2>2, SMTT(30) DEF RepoNext
<1> QED
  BY <1>1, <1>2, <1>3 DEF Dependable, Reliable, Fault

LEMMA NextPromise ==
  ASSUME LocalOwners, PromiseInv, [RepoNext]_repoVars
  PROVE  PromiseInv'
<1>1. MirrorInv'
  BY NextMirror DEF PromiseInv
<1>2. CASE UNCHANGED repoVars
  BY <1>1, <1>2 DEF repoVars, PromiseInv, Dependable, Fault, KeepInv, AddKeeps, RemoveKeeps,
    Busy, Has, Keeps, Loads
<1>3. ASSUME RepoNext, Dependable'
      PROVE  KeepInv'
  <2>1. MirrorInv /\ KeepInv /\ ~Fault("oom") /\ ~Fault("load") /\ (Restart \/ Crash => Reliable)
    BY <1>3, Restarting DEF PromiseInv, MirrorInv, Dependable
  <2>2. ASSUME NEW c \in Offered, BeginAdd(c) \/ BeginAddBlind(c)
        PROVE  KeepInv'
    BY <2>1, <2>2, OfferedOwned, BeginAddKeeps DEF BeginAddBlind
  <2>3. CASE AddUnlink \/ AddInsert \/ AddInsertShadowed \/ AddInsertFails
             \/ AddInitFile \/ AddWriteFile \/ AddStoreFails
    BY <2>1, <2>3, AddStepKeeps
  <2>4. CASE (\E v \in Uids : BeginRemove(v)) \/ RemoveUnlink
    BY <2>1, <2>4, RemoveStepKeeps
  <2>5. CASE \/ BeginClean
             \/ \E u \in Uids : CleanKeep(u) \/ CleanExpired(u) \/ CleanLookupFails(u)
             \/ CleanUnlink \/ CleanEnd
    BY <2>1, <2>5, CleanStepKeeps
  <2>6. CASE End
    BY <2>1, <2>6, EndKeeps
  <2>7. CASE Restart \/ Crash
    BY <2>1, <2>7, StartKeeps
  <2>8. ASSUME NEW v \in Uids, NEW u \in Uids, LoadFile(v, u)
        PROVE  KeepInv'
    BY <2>1, <2>8, LoadFileKeeps
  <2>9. CASE (\E v \in Uids : LoadFails(v)) \/ LoadEnd
    BY <2>1, <2>9, LoadStepKeeps
  <2>10. CASE Tick
    BY <2>1, <2>10 DEF Tick, KeepInv, AddKeeps, RemoveKeeps, Busy, Has, Keeps, Loads, history
  <2> QED
    BY <1>3, <2>2, <2>3, <2>4, <2>5, <2>6, <2>7, <2>8, <2>9, <2>10 DEF RepoNext, Proceed
<1> QED
  BY <1>1, <1>2, <1>3 DEF PromiseInv

\* With local accounts for all principals and memory for the lookups, what was
\* acknowledged holds until another acknowledgement, across crashes and
\* restarts, for every uid but those whose addition a crash interrupted.
THEOREM PromisesAreKept ==
  ASSUME LocalOwners
  PROVE  RepoSpec => []PromiseKept
<1>1. PromiseInv => PromiseKept
  BY DEF PromiseInv, PromiseKept, KeepInv, AddKeeps, RemoveKeeps, Busy
<1>2. PromiseInv /\ [RepoNext]_repoVars => PromiseInv'
  BY NextPromise
<1> QED
  BY <1>1, <1>2, InitPromise, PTL DEF RepoSpec

----------------------------------------------------------------------------
(* The handlers                                                            *)


Session == [st : States, who : Clients \cup {NoClient}, role : Roles, uid : Uids,
            reply : [type : ReplyTypes, creds : SUBSET Cred]]

LEMMA ClosedType == Closed \in Session /\ NoReply \in [type : ReplyTypes, creds : SUBSET Cred]
BY RepoAssumption DEF Closed, NoReply, Session, States, Roles, ReplyTypes

\* A valid file has a known role for everybody.
LEMMA RoleType ==
  ASSUME NEW f, Valid(f), NEW p
  PROVE  RoleIn(f, p, "*") \in Roles
<1> DEFINE rules == Rules(f)
           first == {i \in DOMAIN rules : /\ Matches(rules[i], p, "*")
                                          /\ \A j \in 1..(i - 1) : ~Matches(rules[j], p, "*")}
           i == CHOOSE j \in first : TRUE
<1>1. RoleIn(f, p, "*") = IF first = {} THEN "unknown" ELSE RoleOfWord[rules[i].role]
  BY DEF RoleIn
<1>2. first # {} => i \in first
  OBVIOUS
<1>3. first # {} => rules[i].role \in DOMAIN RoleOfWord
  BY <1>2 DEF Valid
<1>4. \A word \in DOMAIN RoleOfWord : RoleOfWord[word] \in Roles
  BY DEF RoleOfWord, Roles
<1> HIDE DEF first, i, rules
<1> QED
  BY <1>1, <1>3, <1>4 DEF Roles

ReqInv ==
  /\ RepoTypeOK
  /\ session \in [Workers -> Session]
  /\ Valid(acl)
  /\ RepliesAuthorised
  /\ \A w \in Workers :
       /\ In(w, "closed") \/ RoleOf(w) = RoleIn(acl, session[w].who, "*")
       /\ In(w, "reply") \/ session[w].reply = NoReply

----------------------------------------------------------------------------
(* The repository below the handlers                                       *)

LEMMA RepoStepOfReq ==
  ASSUME session \in [Workers -> Session], [ReqNext]_reqVars
  PROVE  [RepoNext]_repoVars
<1>1. CASE UNCHANGED reqVars
  BY <1>1 DEF reqVars
<1>2. ASSUME NEW w \in Workers, Handle(w) PROVE [RepoNext]_repoVars
  <2>1. CASE Ping(w) \/ BadRequest(w) \/ Dump(w)
    BY <2>1 DEF Ping, BadRequest, Dump
  <2>2. CASE \E c \in Offered : AddRefused(w, c) \/ Add(w, c)
    BY <2>2 DEF AddRefused, Add, RepoNext
  <2>3. CASE AddDone(w) \/ RemoveDone(w)
    BY <2>3 DEF AddDone, RemoveDone, RepoNext
  <2>4. CASE \E u \in Uids : Get(w, u) \/ RemoveCheck(w, u)
    BY <2>4 DEF Get, RemoveCheck
  <2>5. CASE RemoveBegin(w)
    BY <2>5 DEF RemoveBegin, RepoNext, Session
  <2> QED
    BY <1>2, <2>1, <2>2, <2>3, <2>4, <2>5 DEF Handle
<1>3. CASE \E w \in Workers : (\E p \in Clients : Open(w, p)) \/ Close(w) \/ Send(w)
  BY <1>3 DEF Open, Close, Send
<1>4. CASE Clean \/ CleanDone \/ RepoStep \/ ReqRestart \/ ReqCrash \/ Tick
  BY <1>4 DEF Clean, CleanDone, RepoStep, ReqRestart, ReqCrash, RepoNext
<1> QED
  BY <1>1, <1>2, <1>3, <1>4 DEF ReqNext

----------------------------------------------------------------------------
(* Sessions                                                                *)

\* A step of one worker, which leaves the ACL as it is.
LEMMA SessionStep ==
  ASSUME ReqInv, RepoTypeOK', acl' = acl, NEW w \in Workers, NEW s \in Session,
         session' = [session EXCEPT ![w] = s],
         s.st = "closed" \/ s.role = RoleIn(acl, s.who, "*"),
         s.st = "reply" \/ s.reply = NoReply,
         \A c \in s.reply.creds : Allows(s.who, c)
  PROVE  ReqInv'
<1>1. session' \in [Workers -> Session] /\ session'[w] = s
      /\ \A v \in Workers \ {w} : session'[v] = session[v]
  BY DEF ReqInv
<1>2. RepliesAuthorised'
  BY <1>1 DEF ReqInv, RepliesAuthorised, Allows
<1>3. ASSUME NEW v \in Workers
      PROVE  /\ In(v, "closed")' \/ RoleOf(v)' = RoleIn(acl', session'[v].who, "*")
             /\ In(v, "reply")' \/ session'[v].reply = NoReply
  BY <1>1 DEF ReqInv, In, RoleOf
<1> QED
  BY <1>1, <1>2, <1>3 DEF ReqInv, In, RoleOf

\* A reply to the request that a worker has in hand.
LEMMA ReplyStep ==
  ASSUME ReqInv, RepoTypeOK', acl' = acl, NEW w \in Workers, ~In(w, "closed"),
         NEW type \in ReplyTypes, NEW creds \in SUBSET Cred,
         \A c \in creds : Allows(session[w].who, c),
         Reply(w, type, creds)
  PROVE  ReqInv'
<1> DEFINE s == [session[w] EXCEPT !.st = "reply", !.uid = RootUid,
                                  !.reply = [type |-> type, creds |-> creds]]
<1>1. session[w] \in Session
  BY DEF ReqInv
<1>2. /\ s \in Session /\ s.st = "reply" /\ s.role = session[w].role /\ s.who = session[w].who
      /\ s.reply.creds = creds
  BY <1>1, RepoAssumption DEF Session, States
<1>3. session' = [session EXCEPT ![w] = s]
  BY DEF Reply, ReqInv
<1>4. s.role = RoleIn(acl, s.who, "*")
  BY <1>2 DEF ReqInv, In, RoleOf
<1> HIDE DEF s
<1> QED
  BY <1>2, <1>3, <1>4, SessionStep

LEMMA ErrorStep ==
  ASSUME ReqInv, RepoTypeOK', acl' = acl, NEW w \in Workers, ~In(w, "closed"), Error(w)
  PROVE  ReqInv'
BY ReplyStep DEF Error, ReplyTypes

\* What the handlers check is what the ACL says.
LEMMA MayUseAllows ==
  ASSUME ReqInv, NEW w \in Workers, ~In(w, "closed"), NEW c, MayUse(w, c) \/ RoleOf(w) = "admin"
  PROVE  Allows(session[w].who, c)
BY DEF ReqInv, MayUse, Allows, RoleOf, In

\* A step that leaves the session open, and does not reply.
LEMMA MoveStep ==
  ASSUME ReqInv, RepoTypeOK', acl' = acl, NEW w \in Workers, In(w, "ready") \/ In(w, "checked"),
         NEW st \in States \ {"closed", "reply"}, NEW u \in Uids,
         session' = [session EXCEPT ![w].st = st, ![w].uid = u]
  PROVE  ReqInv'
<1> DEFINE s == [session[w] EXCEPT !.st = st, !.uid = u]
<1>1. session[w] \in Session
  BY DEF ReqInv
<1>2. /\ s \in Session /\ s.role = session[w].role /\ s.who = session[w].who
      /\ s.reply = session[w].reply
  BY <1>1 DEF Session
<1>3. session' = [session EXCEPT ![w] = s]
  BY DEF ReqInv
<1>4. s.role = RoleIn(acl, s.who, "*") /\ s.reply = NoReply
  BY <1>2 DEF ReqInv, In, RoleOf
<1>5. s.reply.creds = {}
  BY <1>4 DEF NoReply
<1> HIDE DEF s
<1> QED
  BY <1>2, <1>3, <1>4, <1>5, SessionStep

LEMMA HandleStep ==
  ASSUME ReqInv, RepoTypeOK', acl' = acl, NEW w \in Workers, Handle(w)
  PROVE  ReqInv'
<1>0. session[w] \in Session /\ session \in [Workers -> Session] /\ library \in [Uids -> Slot]
  BY DEF ReqInv, RepoTypeOK
<1>1. CASE Ping(w) \/ BadRequest(w)
  BY <1>1, ReplyStep, ErrorStep DEF Ping, BadRequest, ReplyTypes, In
<1>2. ASSUME NEW c \in Offered, AddRefused(w, c) \/ Add(w, c) PROVE ReqInv'
  <2>1. CASE AddRefused(w, c)
    BY <2>1, ErrorStep DEF AddRefused, In
  <2>2. CASE Add(w, c)
    <3>1. session' = [session EXCEPT ![w].st = "adding", ![w].uid = session[w].uid]
      BY <1>0, <2>2 DEF Add, Becomes, Session
    <3> QED
      BY <1>0, <2>2, <3>1, MoveStep DEF Add, States, Session
  <2> QED
    BY <1>2, <2>1, <2>2
<1>3. CASE AddDone(w) \/ RemoveDone(w)
  BY <1>3, ReplyStep, ErrorStep DEF AddDone, RemoveDone, ReplyTypes, In
<1>4. ASSUME NEW u \in Uids, Get(w, u) PROVE ReqInv'
  <2>1. CASE Error(w)
    BY <1>4, <2>1, ErrorStep DEF Get, In
  <2>2. CASE library[u] # NoCred /\ MayUse(w, library[u]) /\ Reply(w, "get_reply", {library[u]})
    <3>1. library[u] \in Cred
      BY <1>0, <2>2 DEF Slot
    <3>2. ~In(w, "closed")
      BY <1>4 DEF Get, In
    <3> QED
      BY <2>2, <3>1, <3>2, MayUseAllows, ReplyStep DEF ReplyTypes
  <2> QED
    BY <1>4, <2>1, <2>2 DEF Get
<1>5. ASSUME NEW u \in Uids, RemoveCheck(w, u) PROVE ReqInv'
  <2>1. CASE Error(w)
    BY <1>5, <2>1, ErrorStep DEF RemoveCheck, In
  <2>2. CASE session' = [session EXCEPT ![w].st = "checked", ![w].uid = u]
    BY <1>5, <2>2, MoveStep DEF RemoveCheck, States
  <2> QED
    BY <1>5, <2>1, <2>2 DEF RemoveCheck
<1>6. CASE RemoveBegin(w)
  <2>1. session' = [session EXCEPT ![w].st = "removing", ![w].uid = session[w].uid]
    BY <1>0, <1>6 DEF RemoveBegin, Becomes, Session
  <2> QED
    BY <1>0, <1>6, <2>1, MoveStep DEF RemoveBegin, States, Session
<1>7. CASE Dump(w)
  <2>1. CASE Error(w)
    BY <1>7, <2>1, ErrorStep DEF Dump, In
  <2>2. CASE RoleOf(w) = "admin" /\ Reply(w, "dump_reply", Contents)
    <3>1. Contents \in SUBSET Cred
      BY <1>0 DEF Contents, Held, Slot
    <3>2. ~In(w, "closed")
      BY <1>7 DEF Dump, In
    <3> QED
      BY <2>2, <3>1, <3>2, MayUseAllows, ReplyStep DEF ReplyTypes
  <2> QED
    BY <1>7, <2>1, <2>2 DEF Dump
<1> QED
  BY <1>1, <1>2, <1>3, <1>4, <1>5, <1>6, <1>7 DEF Handle

LEMMA SessionLife ==
  ASSUME ReqInv, RepoTypeOK', acl' = acl, NEW w \in Workers,
         (\E p \in Clients : Open(w, p)) \/ Close(w) \/ Send(w)
  PROVE  ReqInv'
<1>0. session[w] \in Session /\ session \in [Workers -> Session] /\ Valid(acl)
  BY DEF ReqInv
<1>1. ASSUME session' = [session EXCEPT ![w] = Closed] PROVE ReqInv'
  BY <1>1, ClosedType, SessionStep DEF Closed, NoReply
<1>2. ASSUME NEW p \in Clients, Open(w, p) PROVE ReqInv'
  <2> DEFINE role == RoleIn(acl, p, "*")
             s == [Closed EXCEPT !.st = "ready", !.who = p, !.role = role]
  <2>1. role \in Roles
    BY <1>0, RoleType
  <2>2. s \in Session /\ s.role = role /\ s.who = p /\ s.reply = NoReply /\ s.reply.creds = {}
    BY <2>1, ClosedType DEF Session, States, Closed, NoReply
  <2>3. session' = [session EXCEPT ![w] = s]
    BY <1>2 DEF Open
  <2> HIDE DEF s
  <2> QED
    BY <2>2, <2>3, SessionStep
<1>3. CASE Send(w)
  <2> DEFINE s == [session[w] EXCEPT !.st = "ready", !.reply = NoReply]
  <2>1. s \in Session /\ s.role = session[w].role /\ s.who = session[w].who /\ s.reply = NoReply
    BY <1>0, ClosedType DEF Session, States
  <2>2. session' = [session EXCEPT ![w] = s] \/ session' = [session EXCEPT ![w] = Closed]
    BY <1>0, <1>3 DEF Send
  <2>3. s.role = RoleIn(acl, s.who, "*") /\ s.reply.creds = {}
    BY <1>3, <2>1 DEF Send, In, ReqInv, RoleOf, NoReply
  <2> HIDE DEF s
  <2> QED
    BY <1>1, <2>1, <2>2, <2>3, SessionStep
<1> QED
  BY <1>1, <1>2, <1>3 DEF Close

\* The ACL changes only when no session is open.
LEMMA AclStep ==
  ASSUME ReqInv, RepoTypeOK', ReqRestart \/ ReqCrash
  PROVE  ReqInv'
<1>1. Valid(acl')
  BY DEF ReqRestart, ReqCrash, LoadAcl
<1>2. session' \in [Workers -> Session]
  BY ClosedType DEF ReqInv, ReqRestart, ReqCrash
<1>3. \A w \in Workers : session'[w].st = "closed" /\ session'[w].reply = NoReply
  BY DEF ReqInv, ReqRestart, ReqCrash, In, Closed
<1>4. RepliesAuthorised'
  BY <1>3 DEF RepliesAuthorised, NoReply
<1> QED
  BY <1>1, <1>2, <1>3, <1>4 DEF ReqInv, In

LEMMA ReqNextInv == ReqInv /\ [ReqNext]_reqVars => ReqInv'
<1> SUFFICES ASSUME ReqInv, [ReqNext]_reqVars PROVE ReqInv'
  OBVIOUS
<1>1. RepoTypeOK'
  BY RepoStepOfReq, NextType DEF ReqInv
<1>2. CASE acl' = acl /\ \E w \in Workers : (\E p \in Clients : Open(w, p)) \/ Close(w) \/ Send(w)
  BY <1>1, <1>2, SessionLife
<1>3. CASE acl' = acl /\ \E w \in Workers : Handle(w)
  BY <1>1, <1>3, HandleStep
<1>4. CASE UNCHANGED <<session, acl>>
  BY <1>1, <1>4 DEF ReqInv, RepliesAuthorised, Allows, In, RoleOf
<1>5. CASE ReqRestart \/ ReqCrash
  BY <1>1, <1>5, AclStep
<1> QED
  BY <1>2, <1>3, <1>4, <1>5 DEF ReqNext, reqVars, Clean, CleanDone, RepoStep

LEMMA ReqInitInv == ReqInit => ReqInv
<1> SUFFICES ASSUME ReqInit PROVE ReqInv
  OBVIOUS
<1>1. RepoTypeOK
  BY InitType DEF ReqInit
<1> QED
  BY <1>1, ClosedType DEF ReqInit, ReqInv, In, RepliesAuthorised, Closed, NoReply

\* Whatever the workers, the cleaner, restarts and crashes do, every reply holds
\* credentials that the ACL in force gives to its client (auksd_req.c).
THEOREM RepliesAreAuthorised == ReqSpec => []RepliesAuthorised
<1>1. ReqInv => RepliesAuthorised
  BY DEF ReqInv
<1> QED
  BY <1>1, ReqInitInv, ReqNextInv, PTL DEF ReqSpec

\* The handlers implement the calls of the repository: everything that is proved of
\* CredRepo holds below them.
THEOREM HandlersUseRepository == ReqSpec => UsesRepository
<1>1. ReqInv /\ [ReqNext]_reqVars => [RepoNext]_repoVars
  BY RepoStepOfReq DEF ReqInv
<1>2. ReqInit => RepoInit
  BY DEF ReqInit
<1> QED
  BY <1>1, <1>2, ReqInitInv, ReqNextInv, PTL DEF ReqSpec, UsesRepository, RepoSpec

\* The types of the sessions, with those of the repository.
THEOREM SessionsWellTyped == ReqSpec => []ReqTypeOK
<1>1. ReqInv => ReqTypeOK
  BY DEF ReqInv, ReqTypeOK, Session
<1> QED
  BY <1>1, ReqInitInv, ReqNextInv, PTL DEF ReqSpec

----------------------------------------------------------------------------
(* One operation at a time                                                 *)

BusyInv ==
  /\ OneInRepository
  /\ op.pc = "idle" <=> op.kind = "none"
  /\ op.pc = "load" => op.kind = "load"

\* Who holds the mutex goes on with the same operation, until the load ends.
LEMMA ProceedKind ==
  ASSUME RepoTypeOK, Proceed, op.pc = "load" => op.kind = "load"
  PROVE  \/ /\ op'.kind = op.kind /\ op'.pc # "idle" /\ op.pc # "idle"
            /\ op'.pc = "load" => op.kind = "load"
         \/ op.kind = "load" /\ op' = Idle
<1>0. op \in Frames
  BY DEF RepoTypeOK
<1>1. CASE \/ AddUnlink \/ AddInsert \/ AddInsertShadowed \/ AddInsertFails
           \/ AddInitFile \/ AddWriteFile \/ AddStoreFails
  BY <1>0, <1>1 DEF AddUnlink, AddInsert, AddInsertShadowed, AddInsertFails, AddInitFile,
                    AddWriteFile, AddStoreFails, Goto, Finish, At, Frames
<1>2. CASE RemoveUnlink
  BY <1>0, <1>2 DEF RemoveUnlink, Finish, At, Frames
<1>3. CASE \E u \in Uids : CleanKeep(u) \/ CleanExpired(u) \/ CleanLookupFails(u)
  BY <1>0, <1>3 DEF CleanKeep, CleanExpired, CleanLookupFails, CleanRemove, At, Frames
<1>4. CASE CleanUnlink \/ CleanEnd
  BY <1>0, <1>4 DEF CleanUnlink, CleanEnd, ResumeClean, Goto, At, Frames
<1>5. CASE (\E v, u \in Uids : LoadFile(v, u)) \/ (\E v \in Uids : LoadFails(v))
  BY <1>0, <1>5 DEF LoadFile, LoadFails, At, Frames
<1>6. CASE LoadEnd
  BY <1>6 DEF LoadEnd, At
<1> QED
  BY <1>1, <1>2, <1>3, <1>4, <1>5, <1>6 DEF Proceed

LEMMA BusyStep ==
  ASSUME ReqInv, BusyInv, [ReqNext]_reqVars
  PROVE  BusyInv'
<1>0. session \in [Workers -> Session] /\ op \in Frames /\ RepoTypeOK
  BY DEF ReqInv, RepoTypeOK
<1> DEFINE Only(w, st) == /\ session'[w].st = st
                          /\ \A v \in Workers \ {w} : session'[v] = session[v]
\* A step of a worker outside the repository.
<1>1. ASSUME NEW w \in Workers, NEW st, Only(w, st), UNCHANGED repoVars,
             st \notin {"adding", "removing"}, session[w].st \notin {"adding", "removing"}
      PROVE  BusyInv'
  BY <1>1 DEF BusyInv, OneInRepository, Serving, In, repoVars
\* A worker enters.
<1>2. ASSUME NEW w \in Workers, Free, Only(w, "adding"), op'.kind = "add", op'.pc \notin {"idle", "load"}
      PROVE  BusyInv'
  BY <1>2 DEF BusyInv, OneInRepository, Serving, In, Free
<1>3. ASSUME NEW w \in Workers, Free, Only(w, "removing"), op'.kind = "remove", op'.pc \notin {"idle", "load"}
      PROVE  BusyInv'
  BY <1>3 DEF BusyInv, OneInRepository, Serving, In, Free
\* A worker leaves.
<1>4. ASSUME NEW w \in Workers, session[w].st \in {"adding", "removing"}, Only(w, "reply"), op' = Idle
      PROVE  BusyInv'
  BY <1>4 DEF BusyInv, OneInRepository, Serving, In, Idle
<1>5. ASSUME NEW w \in Workers, NEW type, NEW creds, Reply(w, type, creds) PROVE Only(w, "reply")
  <2> DEFINE s == [session[w] EXCEPT !.st = "reply", !.uid = RootUid,
                                    !.reply = [type |-> type, creds |-> creds]]
  <2>1. session' = [session EXCEPT ![w] = s] /\ s.st = "reply"
    BY <1>0, <1>5 DEF Reply, Session
  <2> QED
    BY <1>0, <2>1
<1>6. ASSUME NEW w \in Workers, Error(w) PROVE Only(w, "reply")
  BY <1>5, <1>6 DEF Error
<1>7. ASSUME NEW w \in Workers, (\E p \in Clients : Open(w, p)) \/ Close(w) \/ Send(w) PROVE BusyInv'
  <2>1. session[w].st \in {"closed", "ready", "reply"} /\ UNCHANGED repoVars
    BY <1>7 DEF Open, Close, Send, In
  <2>2. ASSUME NEW p \in Clients, Open(w, p) PROVE Only(w, "ready")
    <3> DEFINE s == [Closed EXCEPT !.st = "ready", !.who = p, !.role = RoleIn(acl, p, "*")]
    <3>1. session' = [session EXCEPT ![w] = s]
      BY <2>2 DEF Open
    <3>2. s.st = "ready"
      BY DEF Closed
    <3> QED
      BY <1>0, <3>1, <3>2
  <2>3. CASE Close(w)
    <3>1. session' = [session EXCEPT ![w] = Closed] /\ Closed.st = "closed"
      BY <2>3 DEF Close, Closed
    <3> QED
      BY <1>0, <1>1, <2>1, <3>1
  <2>4. CASE Send(w)
    <3> DEFINE s == [session[w] EXCEPT !.st = "ready", !.reply = NoReply]
    <3>1. session' = [session EXCEPT ![w] = s] \/ session' = [session EXCEPT ![w] = Closed]
      BY <1>0, <2>4 DEF Send
    <3>2. s.st = "ready" /\ Closed.st = "closed"
      BY <1>0 DEF Session, Closed
    <3>3. Only(w, "ready") \/ Only(w, "closed")
      BY <1>0, <3>1, <3>2
    <3> QED
      BY <1>1, <2>1, <3>3
  <2> QED
    BY <1>1, <1>7, <2>1, <2>2, <2>3, <2>4
<1>8. ASSUME NEW w \in Workers, Handle(w) PROVE BusyInv'
  <2>1. CASE Ping(w) \/ BadRequest(w) \/ Dump(w) \/ \E c \in Offered : AddRefused(w, c)
    <3>1. session[w].st = "ready" /\ UNCHANGED repoVars /\ Only(w, "reply")
      BY <1>5, <1>6, <2>1 DEF Ping, BadRequest, Dump, AddRefused, In
    <3> QED
      BY <1>1, <3>1
  <2>2. CASE \E u \in Uids : Get(w, u) \/ RemoveCheck(w, u)
    <3>1. session[w].st = "ready" /\ UNCHANGED repoVars
      BY <2>2 DEF Get, RemoveCheck, In
    <3>2. Only(w, "reply") \/ Only(w, "checked")
      BY <1>0, <1>5, <1>6, <2>2 DEF Get, RemoveCheck, Session
    <3> QED
      BY <1>1, <3>1, <3>2
  <2>3. ASSUME NEW c \in Offered, Add(w, c) PROVE BusyInv'
    <3>1. Free /\ op'.kind = "add" /\ op'.pc \notin {"idle", "load"}
      BY <2>3 DEF Add, BeginAdd, BeginAddBlind, Idle
    <3>2. Only(w, "adding")
      BY <1>0, <2>3 DEF Add, Becomes, Session
    <3> QED
      BY <1>2, <3>1, <3>2
  <2>4. CASE RemoveBegin(w)
    <3>1. Free /\ op'.kind = "remove" /\ op'.pc \notin {"idle", "load"}
      BY <2>4 DEF RemoveBegin, BeginRemove, Idle
    <3>2. Only(w, "removing")
      BY <1>0, <2>4 DEF RemoveBegin, Becomes, Session
    <3> QED
      BY <1>3, <3>1, <3>2
  <2>5. CASE AddDone(w) \/ RemoveDone(w)
    <3>1. session[w].st \in {"adding", "removing"} /\ op' = Idle /\ Only(w, "reply")
      BY <1>5, <1>6, <2>5 DEF AddDone, RemoveDone, End, In
    <3> QED
      BY <1>4, <3>1
  <2> QED
    BY <1>8, <2>1, <2>2, <2>3, <2>4, <2>5 DEF Handle
<1>9. CASE Clean \/ CleanDone
  <2>1. session' = session
    BY <1>9 DEF Clean, CleanDone
  <2>2. CASE Clean
    <3>1. op.pc = "idle" /\ op'.kind = "clean" /\ op'.pc \notin {"idle", "load"}
      BY <2>2 DEF Clean, BeginClean, Free, Idle
    <3> QED
      BY <2>1, <3>1 DEF BusyInv, OneInRepository, Serving, In
  <2>3. CASE CleanDone
    <3>1. op.kind = "clean" /\ op' = Idle
      BY <2>3 DEF CleanDone, End
    <3> QED
      BY <2>1, <3>1 DEF Idle, BusyInv, OneInRepository, Serving, In
  <2> QED
    BY <1>9, <2>2, <2>3
<1>10. CASE RepoStep
  <2>1. session' = session /\ Proceed
    BY <1>10 DEF RepoStep
  <2>2. \/ op'.kind = op.kind /\ op'.pc # "idle" /\ op.pc # "idle" /\ (op'.pc = "load" => op.kind = "load")
        \/ op.kind = "load" /\ op' = Idle
    BY <1>0, <2>1, ProceedKind DEF BusyInv
  <2> QED
    BY <2>1, <2>2 DEF Idle, BusyInv, OneInRepository, Serving, In
<1>11. CASE ReqRestart \/ ReqCrash
  <2>1. \A w \in Workers : session'[w].st = "closed"
    BY <1>11 DEF ReqRestart, ReqCrash, Closed, In
  <2>2. op'.kind = "load" /\ op'.pc = "load"
    BY <1>11 DEF ReqRestart, ReqCrash, Restart, Crash, Start, Idle
  <2> QED
    BY <2>1, <2>2 DEF BusyInv, OneInRepository, Serving, In
<1>12. CASE Tick /\ UNCHANGED session
  BY <1>12 DEF Tick, BusyInv, OneInRepository, Serving, In
<1>13. CASE UNCHANGED reqVars
  BY <1>13 DEF reqVars, repoVars, BusyInv, OneInRepository, Serving, In
<1> QED
  BY <1>7, <1>8, <1>9, <1>10, <1>11, <1>12, <1>13 DEF ReqNext

\* The critical sections of two workers, of the cleaner and of the load never overlap.
THEOREM OneAtATime == ReqSpec => []OneInRepository
<1>1. ReqInit => BusyInv
  BY DEF ReqInit, RepoInit, Start, Idle, Closed, BusyInv, OneInRepository, Serving, In
<1>2. BusyInv => OneInRepository
  BY DEF BusyInv
<1> QED
  BY <1>1, <1>2, ReqInitInv, ReqNextInv, BusyStep, PTL DEF ReqSpec

----------------------------------------------------------------------------
(* What a REMOVE takes                                                     *)

\* A credential is in the library under the account of its owner.
LibraryOwned == \A u \in Uids : library[u] # NoCred => Owned(library[u], u)

\* Between the two critical sections of a REMOVE the credential may be replaced; what
\* lasts is that the uid is the one of the client.
MayRemove(w) ==
  \/ RoleOf(w) = "admin"
  \/ /\ RoleOf(w) = "user" /\ session[w].who \in Principals
     /\ Account[session[w].who] = session[w].uid

CheckedInv == \A w \in Workers : In(w, "checked") => MayRemove(w)

OwnInv == ReqInv /\ MirrorInv /\ LibraryOwned /\ CheckedInv

LEMMA OwnedStep ==
  ASSUME LocalOwners, MirrorInv, LibraryOwned, [RepoNext]_repoVars
  PROVE  LibraryOwned'
<1>0. /\ library \in [Uids -> Slot] /\ op \in Frames /\ RepoTypeOK'
      /\ FrameInv /\ DiskInv
  BY NextType DEF MirrorInv, RepoTypeOK
<1>1. ASSUME NEW v \in Uids, NEW c, c = NoCred \/ c = library[v] \/ Owned(c, v),
             library' = [library EXCEPT ![v] = c]
      PROVE  LibraryOwned'
  BY <1>0, <1>1 DEF LibraryOwned
<1>2. ASSUME library' = library PROVE LibraryOwned'
  BY <1>2 DEF LibraryOwned
<1>3. CASE \E c \in Offered : BeginAdd(c) \/ BeginAddBlind(c)
  <2>1. PICK c \in Offered : BeginAdd(c) \/ BeginAddBlind(c)
    BY <1>3
  <2>2. c.uid \in Uids
    BY DEF Offered, Cred
  <2> QED
    BY <1>1, <1>2, <2>1, <2>2 DEF BeginAdd, BeginAddBlind
<1>4. CASE (\E u \in Uids : BeginRemove(u)) \/ BeginClean \/ End
  BY <1>1, <1>2, <1>4 DEF BeginRemove, BeginClean, End
<1>5. CASE AddUnlink \/ AddInsertShadowed \/ AddInitFile \/ AddWriteFile \/ AddStoreFails
           \/ RemoveUnlink \/ CleanUnlink \/ CleanEnd \/ LoadEnd
           \/ (\E u \in Uids : CleanKeep(u)) \/ (\E v \in Uids : LoadFails(v))
  BY <1>2, <1>5 DEF AddUnlink, AddInsertShadowed, AddInitFile, AddWriteFile, AddStoreFails,
    RemoveUnlink, CleanUnlink, CleanEnd, LoadEnd, CleanKeep, LoadFails
<1>6. CASE AddInsert \/ AddInsertFails
  <2>1. op.uid \in Uids /\ Owned(op.cred, op.uid)
    BY <1>0, <1>6 DEF AddInsert, AddInsertFails, At, FrameInv, Frames
  <2> QED
    BY <1>1, <1>2, <1>6, <2>1 DEF AddInsert, AddInsertFails
<1>7. CASE \E u \in Uids : CleanExpired(u) \/ CleanLookupFails(u)
  BY <1>1, <1>2, <1>7, RepoAssumption DEF CleanExpired, CleanLookupFails, CleanRemove
<1>8. ASSUME NEW v \in Uids, NEW u \in Uids, LoadFile(v, u) PROVE LibraryOwned'
  <2> DEFINE c == [disk[v] EXCEPT !.uid = u]
  <2>1. disk[v] \in Cred /\ Account[disk[v].owner] = u
    BY <1>0, <1>8, RepoAssumption DEF LoadFile, InitUids, LocalOwners, Cred, DiskInv, Owned
  <2>2. Owned(c, u)
    BY <2>1 DEF Owned, Cred
  <2>3. \E kept \in {c, library[u], NoCred} : library' = [library EXCEPT ![u] = kept]
    BY <1>8 DEF LoadFile
  <2> QED
    BY <1>1, <2>2, <2>3
<1>9. CASE Restart \/ Crash
  BY <1>9 DEF Restart, Crash, Start, LibraryOwned
<1>10. CASE Tick \/ UNCHANGED repoVars
  BY <1>2, <1>10 DEF Tick, repoVars
<1> QED
  BY <1>3, <1>4, <1>5, <1>6, <1>7, <1>8, <1>9, <1>10 DEF RepoNext, Proceed

\* A worker whose REMOVE has been checked can only go on with it, or die.
LEMMA OnlyRemoveBegin ==
  ASSUME ReqInv, [ReqNext]_reqVars, NEW w \in Workers, In(w, "checked")
  PROVE  session'[w] = session[w] \/ session'[w].st = "closed" \/ RemoveBegin(w)
<1>1. session \in [Workers -> Session]
  BY DEF ReqInv
<1>2. ASSUME NEW v \in Workers, (\E p \in Clients : Open(v, p)) \/ Close(v) \/ Send(v) \/ Handle(v)
      PROVE  session'[w] = session[w] \/ RemoveBegin(w)
  <2>1. CASE v = w
    <3>1. ~(\E p \in Clients : Open(w, p)) /\ ~Close(w) /\ ~Send(w)
      BY DEF Open, Close, Send, In
    <3> QED
      BY <1>2, <2>1, <3>1 DEF Handle, Ping, BadRequest, AddRefused, Add, AddDone, Get, RemoveCheck,
        RemoveDone, Dump, In
  <2>2. CASE v # w
    <3>1. \E s : session' = [session EXCEPT ![v] = s]
      <4>1. CASE (\E p \in Clients : Open(v, p)) \/ Close(v) \/ Send(v)
        BY <4>1 DEF Open, Close, Send
      <4>2. CASE Ping(v) \/ BadRequest(v) \/ Dump(v) \/ \E c \in Offered : AddRefused(v, c)
        BY <4>2 DEF Ping, BadRequest, Dump, AddRefused, Reply, Error
      <4>3. CASE (\E c \in Offered : Add(v, c)) \/ RemoveBegin(v)
        BY <4>3 DEF Add, RemoveBegin, Becomes
      <4>4. CASE AddDone(v) \/ RemoveDone(v)
        BY <4>4 DEF AddDone, RemoveDone, Reply, Error
      <4>5. CASE \E u \in Uids : Get(v, u) \/ RemoveCheck(v, u)
        BY <4>5 DEF Get, RemoveCheck, Reply, Error
      <4> QED
        BY <1>2, <4>1, <4>2, <4>3, <4>4, <4>5 DEF Handle
    <3> QED
      BY <1>1, <2>2, <3>1
  <2> QED
    BY <2>1, <2>2
<1>3. CASE ReqRestart \/ ReqCrash
  BY <1>3 DEF ReqRestart, ReqCrash, Closed
<1>4. CASE UNCHANGED session
  BY <1>4
<1> QED
  BY <1>2, <1>3, <1>4 DEF ReqNext, reqVars, Clean, CleanDone, RepoStep

\* A worker gets there through the check only.
LEMMA OnlyRemoveCheck ==
  ASSUME ReqInv, [ReqNext]_reqVars, NEW w \in Workers, In(w, "checked")'
  PROVE  session'[w] = session[w] \/ \E u \in Uids : RemoveCheck(w, u)
<1>1. session \in [Workers -> Session]
  BY DEF ReqInv
<1>2. ASSUME NEW v \in Workers, (\E p \in Clients : Open(v, p)) \/ Close(v) \/ Send(v) \/ Handle(v)
      PROVE  session'[w] = session[w] \/ \E u \in Uids : RemoveCheck(w, u)
  <2>1. \A s : session' = [session EXCEPT ![v] = s] =>
          \/ v # w /\ session'[w] = session[w]
          \/ v = w /\ s.st = "checked"
    BY <1>1 DEF In
  <2>2. ASSUME NEW st, Becomes(v, st), st # "checked" PROVE session'[w] = session[w]
    <3>1. session' = [session EXCEPT ![v] = [session[v] EXCEPT !.st = st]]
      BY <2>2 DEF Becomes
    <3>2. [session[v] EXCEPT !.st = st].st = st
      BY <1>1 DEF Session
    <3> QED
      BY <2>1, <2>2, <3>1, <3>2
  <2>3. ASSUME NEW type, NEW creds, Reply(v, type, creds) PROVE session'[w] = session[w]
    <3> DEFINE s == [session[v] EXCEPT !.st = "reply", !.uid = RootUid,
                                      !.reply = [type |-> type, creds |-> creds]]
    <3>1. session' = [session EXCEPT ![v] = s]
      BY <2>3 DEF Reply
    <3>2. s.st = "reply"
      BY <1>1 DEF Session
    <3> QED
      BY <2>1, <3>1, <3>2
  <2>4. Error(v) => session'[w] = session[w]
    BY <2>3 DEF Error
  <2>5. CASE (\E p \in Clients : Open(v, p)) \/ Close(v) \/ Send(v)
    <3>1. \/ session' = [session EXCEPT ![v] = Closed]
          \/ session' = [session EXCEPT ![v] = [session[v] EXCEPT !.st = "ready", !.reply = NoReply]]
          \/ \E p \in Clients : session' = [session EXCEPT ![v] =
                [Closed EXCEPT !.st = "ready", !.who = p, !.role = RoleIn(acl, p, "*")]]
      BY <2>5 DEF Open, Close, Send
    <3>2. /\ Closed.st # "checked"
          /\ [session[v] EXCEPT !.st = "ready", !.reply = NoReply].st # "checked"
          /\ \A p \in Clients :
               [Closed EXCEPT !.st = "ready", !.who = p, !.role = RoleIn(acl, p, "*")].st # "checked"
      BY <1>1 DEF Closed, Session
    <3> QED
      BY <2>1, <3>1, <3>2
  <2>6. CASE Ping(v) \/ BadRequest(v) \/ Dump(v) \/ AddDone(v) \/ RemoveDone(v)
             \/ \E c \in Offered : AddRefused(v, c)
    BY <2>3, <2>4, <2>6 DEF Ping, BadRequest, Dump, AddRefused, AddDone, RemoveDone
  <2>7. CASE (\E c \in Offered : Add(v, c)) \/ RemoveBegin(v)
    BY <2>2, <2>7 DEF Add, RemoveBegin
  <2>8. CASE \E u \in Uids : Get(v, u)
    BY <2>3, <2>4, <2>8 DEF Get
  <2>9. CASE \E u \in Uids : RemoveCheck(v, u)
    <3>1. CASE v = w
      BY <2>9, <3>1
    <3>2. CASE v # w
      BY <1>1, <2>9, <3>2 DEF RemoveCheck, Error, Reply
    <3> QED
      BY <3>1, <3>2
  <2> QED
    BY <1>2, <2>5, <2>6, <2>7, <2>8, <2>9 DEF Handle
<1>3. CASE ReqRestart \/ ReqCrash
  <2>1. session'[w].st = "closed"
    BY <1>3 DEF ReqRestart, ReqCrash, Closed, In
  <2> QED
    BY <2>1 DEF In
<1>4. CASE UNCHANGED session
  BY <1>4
<1> QED
  BY <1>2, <1>3, <1>4 DEF ReqNext, reqVars, Clean, CleanDone, RepoStep

LEMMA CheckedStep ==
  ASSUME OwnInv, [ReqNext]_reqVars
  PROVE  CheckedInv'
<1> SUFFICES ASSUME NEW w \in Workers, In(w, "checked")' PROVE MayRemove(w)'
  BY DEF CheckedInv
<1>1. /\ ReqInv /\ session \in [Workers -> Session] /\ library \in [Uids -> Slot]
      /\ LibraryOwned
  BY DEF OwnInv, ReqInv, RepoTypeOK
<1>2. CASE session'[w] = session[w]
  BY <1>2 DEF OwnInv, CheckedInv, MayRemove, In, RoleOf
<1>3. ASSUME NEW u \in Uids, RemoveCheck(w, u), session'[w] # session[w] PROVE MayRemove(w)'
  <2> DEFINE s == [session[w] EXCEPT !.st = "checked", !.uid = u]
  <2>1. ~Error(w)
    <3> DEFINE r == [session[w] EXCEPT !.st = "reply", !.uid = RootUid,
                                      !.reply = [type |-> "error_reply", creds |-> {}]]
    <3>1. Error(w) => session' = [session EXCEPT ![w] = r]
      BY DEF Error, Reply
    <3>2. r.st = "reply"
      BY <1>1 DEF Session
    <3> QED
      BY <1>1, <3>1, <3>2 DEF In
  <2>2. library[u] # NoCred /\ MayUse(w, library[u]) /\ session' = [session EXCEPT ![w] = s]
    BY <1>1, <1>3, <2>1 DEF RemoveCheck
  <2>3. session'[w] = s /\ s.role = session[w].role /\ s.who = session[w].who /\ s.uid = u
    BY <1>1, <2>2 DEF Session
  <2>4. library[u] \in Cred /\ Account[library[u].owner] = u /\ library[u].owner \in Principals
    BY <1>1, <2>2 DEF LibraryOwned, Owned, Slot, Cred
  <2> HIDE DEF s
  <2> QED
    BY <2>2, <2>3, <2>4 DEF MayUse, MayRemove, RoleOf
<1> QED
  BY <1>1, <1>2, <1>3, OnlyRemoveCheck

\* auksd checks the owner in one critical section and removes by uid in another.  The
\* credential that it removes may not be the one it has looked at, nor one of the
\* client when principals share an account, but it is of the client's account.
THEOREM OwnIsRemoved ==
  ASSUME LocalOwners
  PROVE  ReqSpec => RemovesOwn
<1>1. ReqInit => OwnInv
  <2> SUFFICES ASSUME ReqInit PROVE OwnInv
    OBVIOUS
  <2>1. ReqInv /\ MirrorInv
    BY ReqInitInv, InitMirror DEF ReqInit
  <2>2. LibraryOwned /\ CheckedInv
    BY DEF ReqInit, RepoInit, LibraryOwned, CheckedInv, In, Closed
  <2> QED
    BY <2>1, <2>2 DEF OwnInv
<1>2. OwnInv /\ [ReqNext]_reqVars => OwnInv'
  <2> SUFFICES ASSUME OwnInv, [ReqNext]_reqVars PROVE OwnInv'
    OBVIOUS
  <2>1. ReqInv' /\ [RepoNext]_repoVars
    BY ReqNextInv, RepoStepOfReq DEF OwnInv, ReqInv
  <2> QED
    BY <2>1, NextMirror, OwnedStep, CheckedStep DEF OwnInv
<1>3. OwnInv /\ [ReqNext]_reqVars =>
        [ \A w \in Workers :
            In(w, "checked") /\ session'[w].st = "removing" =>
              \A u \in Held : library'[u] = NoCred => OfItsAccount(w, library[u]) ]_reqVars
  <2> SUFFICES ASSUME OwnInv, [ReqNext]_reqVars, NEW w \in Workers, In(w, "checked"),
                      session'[w].st = "removing", NEW u \in Held, library'[u] = NoCred
               PROVE  OfItsAccount(w, library[u])
    OBVIOUS
  <2>1. /\ ReqInv /\ session \in [Workers -> Session] /\ library \in [Uids -> Slot]
        /\ u \in Uids /\ library[u] # NoCred
    BY DEF OwnInv, ReqInv, RepoTypeOK, Held
  <2>2. RemoveBegin(w)
    BY <2>1, OnlyRemoveBegin DEF In
  <2>3. u = session[w].uid
    BY <2>1, <2>2 DEF RemoveBegin, BeginRemove, Session
  <2>4. MayRemove(w) /\ Owned(library[u], u) /\ library[u].owner \in Principals
    BY <2>1 DEF OwnInv, CheckedInv, LibraryOwned, Slot, Cred
  <2> QED
    BY <2>3, <2>4 DEF MayRemove, OfItsAccount, Owned
<1> QED
  BY <1>1, <1>2, <1>3, PTL DEF ReqSpec, RemovesOwn
=============================================================================
