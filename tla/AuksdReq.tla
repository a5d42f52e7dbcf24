------------------------------ MODULE AuksdReq ------------------------------
(***************************************************************************)
(* The request handlers of auksd (src/auksd/auksd_req.c) over the shared   *)
(* repository of CredRepo.  A worker serves one connection at a time: it   *)
(* authenticates the client, reads its role, then answers requests until   *)
(* the client closes or a transmission fails.  Several workers and the     *)
(* cleaner interleave between the critical sections of the repository.     *)
(***************************************************************************)
EXTENDS CredRepo, Acl

CONSTANTS
  Workers,     \* threads that serve connections
  Clients,     \* principals that connect: users, and hosts that own nothing
  AclFiles,    \* what the file of the ACL may hold when auksd starts
  NoClient     \* an idle worker

Roles == {"unknown", "guest", "user", "admin"}

ASSUME ReqAssumption ==
  /\ Principals \subseteq Clients
  /\ \E f \in AclFiles : Valid(f)
  /\ NoClient \notin Clients

VARIABLES
  session,   \* what each worker is doing
  acl        \* the rules of the engine

reqVars == <<repoVars, session, acl>>

NoReply == [type |-> "none", creds |-> {}]
Closed == [st |-> "closed", who |-> NoClient, role |-> "unknown", uid |-> RootUid, reply |-> NoReply]

States == {"closed", "ready", "adding", "checked", "removing", "reply"}
ReplyTypes == {"none", "ping_reply", "add_reply", "get_reply", "remove_reply",
               "dump_reply", "error_reply"}

In(w, st) == session[w].st = st
Becomes(w, st) == session' = [session EXCEPT ![w].st = st]
Reply(w, type, creds) ==
  session' = [session EXCEPT ![w].st = "reply", ![w].uid = RootUid,
                             ![w].reply = [type |-> type, creds |-> creds]]
Error(w) == Reply(w, "error_reply", {})

RoleOf(w) == session[w].role

\* A file that is not valid ends the daemon.
LoadAcl(loaded) == \E f \in AclFiles : Valid(f) /\ loaded = f

ReqInit ==
  /\ RepoInit
  /\ session = [w \in Workers |-> Closed]
  /\ acl \in {f \in AclFiles : Valid(f)}

----------------------------------------------------------------------------
(* Sessions: auksd_process_req, _auksd_process_msg                         *)

\* The role is asked for once, and for the host "*" wherever the client is; a
\* client that has none is disconnected without an answer.
Open(w, p) ==
  /\ In(w, "closed")
  /\ LET role == RoleIn(acl, p, "*")
     IN  /\ role # "unknown"
         /\ session' = [session EXCEPT ![w] = [Closed EXCEPT !.st = "ready", !.who = p, !.role = role]]
  /\ UNCHANGED repoVars

\* A CLOSE request, which has no reply, or the end of the stream.
Close(w) ==
  /\ In(w, "ready")
  /\ session' = [session EXCEPT ![w] = Closed]
  /\ UNCHANGED repoVars

\* The reply goes out and the session waits for the next request, even when
\* the reply is an error; a reply that cannot be sent ends the session.
Send(w) ==
  /\ In(w, "reply")
  /\ \/ session' = [session EXCEPT ![w].st = "ready", ![w].reply = NoReply]
     \/ session' = [session EXCEPT ![w] = Closed]
  /\ UNCHANGED repoVars

\* PING, and LIST which is answered alike.
Ping(w) ==
  /\ In(w, "ready")
  /\ Reply(w, "ping_reply", {})
  /\ UNCHANGED repoVars

\* A request of an unknown type, one whose payload does not decode, an
\* addition whose credential is not addressless.
BadRequest(w) ==
  /\ In(w, "ready")
  /\ Error(w)
  /\ UNCHANGED repoVars

----------------------------------------------------------------------------
(* Authorisation                                                           *)

\* Any role may add, but only administrators for somebody else.
MayAdd(w, c) == RoleOf(w) = "admin" \/ c.owner = session[w].who

\* _auksd_check_rw_right
MayUse(w, c) ==
  \/ RoleOf(w) = "admin"
  \/ RoleOf(w) = "user" /\ c.owner = session[w].who

----------------------------------------------------------------------------
(* ADD                                                                     *)

AddRefused(w, c) ==
  /\ In(w, "ready")
  /\ ~MayAdd(w, c)
  /\ Error(w)
  /\ UNCHANGED repoVars

Add(w, c) ==
  /\ In(w, "ready")
  /\ MayAdd(w, c)
  /\ BeginAdd(c) \/ BeginAddBlind(c)
  /\ Becomes(w, "adding")

\* Mutant: the reply goes out before the mutex is released.
AddDoneEarly(w) ==
  /\ In(w, "adding")
  /\ At("done")
  /\ Reply(w, "add_reply", {})
  /\ UNCHANGED repoVars

AddDone(w) ==
  /\ In(w, "adding")
  /\ End
  /\ IF op.ret = "success" THEN Reply(w, "add_reply", {}) ELSE Error(w)

----------------------------------------------------------------------------
(* GET                                                                     *)

\* The lookup copies the credential under the mutex; the copy is checked.
Get(w, u) ==
  /\ In(w, "ready")
  /\ Free
  /\ \/ /\ library[u] # NoCred
        /\ IF MayUse(w, library[u])
           THEN Reply(w, "get_reply", {library[u]})
           ELSE Error(w)
     \/ /\ library[u] = NoCred \/ Fault("oom")
        /\ Error(w)
  /\ UNCHANGED repoVars

----------------------------------------------------------------------------
(* REMOVE                                                                  *)

\* Mutant: REMOVE checks that the credential exists and not whose it is.
RemoveCheckExists(w, u) ==
  /\ In(w, "ready")
  /\ Free
  /\ library[u] # NoCred
  /\ session' = [session EXCEPT ![w].st = "checked", ![w].uid = u]
  /\ UNCHANGED repoVars

\* First critical section: the credential is looked up, and its owner is
\* compared with the client after the mutex is released.
RemoveCheck(w, u) ==
  /\ In(w, "ready")
  /\ Free
  /\ \/ /\ library[u] # NoCred
        /\ IF MayUse(w, library[u])
           THEN session' = [session EXCEPT ![w].st = "checked", ![w].uid = u]
           ELSE Error(w)
     \/ /\ library[u] = NoCred \/ Fault("oom")
        /\ Error(w)
  /\ UNCHANGED repoVars

\* Second critical section: whatever the library has for the uid now.
RemoveBegin(w) ==
  /\ In(w, "checked")
  /\ BeginRemove(session[w].uid)
  /\ Becomes(w, "removing")

RemoveDone(w) ==
  /\ In(w, "removing")
  /\ End
  /\ IF op.ret = "success" THEN Reply(w, "remove_reply", {}) ELSE Error(w)

----------------------------------------------------------------------------
(* DUMP                                                                    *)

\* auks_cred_repo_pack: every credential of the index.
Contents == {library[u] : u \in Held}

Dump(w) ==
  /\ In(w, "ready")
  /\ Free
  /\ \/ /\ RoleOf(w) = "admin"
        /\ Reply(w, "dump_reply", Contents)
     \/ /\ RoleOf(w) # "admin" \/ Fault("oom")
        /\ Error(w)
  /\ UNCHANGED repoVars

----------------------------------------------------------------------------
(* The cleaner, the repository's own steps, and the end of the process.    *)

Clean == BeginClean /\ UNCHANGED session

CleanDone ==
  /\ op.kind = "clean"
  /\ End
  /\ UNCHANGED session

RepoStep == Proceed /\ UNCHANGED session

\* Mutant: the configuration is loaded while workers still serve.
ReqRestartAtOnce ==
  /\ Restart
  /\ LoadAcl(acl')
  /\ UNCHANGED session

\* The workers are joined before the engine and the repository are rebuilt: the
\* file of the ACL is read again.
ReqRestart ==
  /\ \A w \in Workers : In(w, "closed")
  /\ Restart
  /\ LoadAcl(acl')
  /\ UNCHANGED session

\* A crash takes the sessions with it.
ReqCrash ==
  /\ Fault("crash")
  /\ Crash \/ Restart
  /\ session' = [w \in Workers |-> Closed]
  /\ LoadAcl(acl')

Handle(w) ==
  \/ Ping(w)
  \/ BadRequest(w)
  \/ \E c \in Offered : AddRefused(w, c) \/ Add(w, c)
  \/ AddDone(w)
  \/ \E u \in Uids : Get(w, u) \/ RemoveCheck(w, u)
  \/ RemoveBegin(w)
  \/ RemoveDone(w)
  \/ Dump(w)

ReqNext ==
  \/ UNCHANGED acl /\ \E w \in Workers : \E p \in Clients : Open(w, p)
  \/ UNCHANGED acl /\ \E w \in Workers : Close(w) \/ Send(w) \/ Handle(w)
  \/ UNCHANGED acl /\ (Clean \/ CleanDone \/ RepoStep)
  \/ ReqRestart
  \/ ReqCrash
  \/ UNCHANGED <<session, acl>> /\ Tick

ReqSpec == ReqInit /\ [][ReqNext]_reqVars

----------------------------------------------------------------------------
(* Properties                                                              *)

ReqTypeOK ==
  /\ RepoTypeOK
  /\ session \in [Workers -> [st : States, who : Clients \cup {NoClient}, role : Roles, uid : Uids,
                              reply : [type : ReplyTypes, creds : SUBSET Cred]]]

\* auksd(8): a user gets the credentials that belong to him, an administrator
\* any.  Whatever the other workers do between the lookup and the reply, and
\* whenever the ACL is read again, a reply carries no credential that the rules
\* in force keep from its client.
Allows(p, c) ==
  LET role == RoleIn(acl, p, "*")
  IN  role = "admin" \/ (role = "user" /\ c.owner = p)

RepliesAuthorised ==
  \A w \in Workers : \A c \in session[w].reply.creds : Allows(session[w].who, c)

\* What a REMOVE may take: the credential of the account of its client.
OfItsAccount(w, c) ==
  \/ RoleOf(w) = "admin"
  \/ /\ RoleOf(w) = "user" /\ session[w].who \in Principals
     /\ Account[c.owner] = Account[session[w].who]

\* auksd(8): a user removes "credentials that belong to him".  The owner is checked in
\* one critical section and the uid removed in another: whatever is added or removed,
\* cleaned or loaded in between, what a REMOVE takes from the library is a credential of
\* the account of its client.  It need not be its client's own: another principal of
\* the account may have replaced the one that was checked.
RemovesOwn ==
  [][ \A w \in Workers :
        In(w, "checked") /\ session'[w].st = "removing" =>
          \A u \in Held : library'[u] = NoCred => OfItsAccount(w, library[u]) ]_reqVars

\* The critical sections of two workers never overlap: the operation in
\* progress is the one of the only worker that is adding or removing, or it
\* is the cleaner's or the load's.
Serving == {w \in Workers : session[w].st \in {"adding", "removing"}}

OneInRepository ==
  /\ \A v, w \in Serving : v = w
  /\ op.kind = "add" <=> \E w \in Workers : In(w, "adding")
  /\ op.kind = "remove" <=> \E w \in Workers : In(w, "removing")

\* The handlers touch the repository through its operations only.
UsesRepository == RepoSpec
=============================================================================
