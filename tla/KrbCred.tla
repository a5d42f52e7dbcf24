------------------------------ MODULE KrbCred ------------------------------
(***************************************************************************)
(* auks_krb5_cred.c: the operations on credentials that auks builds out of *)
(* libkrb5.  Each function is a sequence of calls, every one of which may  *)
(* fail and then jumps to a label; from a label the function falls through *)
(* the releases below it.  Each has a body: its calls and its labels.       *)
(*                                                                         *)
(* A call works on a credential cache and on the data of an auks           *)
(* credential, which are sequences of tickets here.                        *)
(***************************************************************************)
EXTENDS Calls, Sequences, SequencesExt, Naturals

CONSTANTS
  Fns,       \* the functions of this instance
  Caches,    \* what the cache of the user may hold at first
  Inputs,    \* what the auks credential may hold at first
  MaxLife,   \* bound on the renewals of a ticket
  Absent     \* a cache that does not exist

AllFns == {"get", "store", "get_fwd", "renew", "renew_buffer", "cross_realm_buffer", "deladdr_buffer",
           "cc_new_unique", "cc_switch", "cc_destroy"}

\* kind: a TGT of the realm, a TGT for another one, a service ticket.
Ticket == [kind : {"tgt", "cross", "service"}, life : 0 .. MaxLife, renewable : BOOLEAN, addr : BOOLEAN]

\* An auks credential holds a TGT, and at most one for another realm after it.
Local == {t \in Ticket : t.kind = "tgt"}
Foreign == {t \in Ticket : t.kind = "cross"}
Pairs == {<< t, x >> : t \in Local, x \in Foreign}
Credential == {<< t >> : t \in Local} \cup Pairs

\* What is put into it at first comes from an earlier get or get_fwd.
ASSUME KrbCredAssumption ==
  /\ Fns \subseteq AllFns /\ MaxLife \in Nat
  /\ \A c \in Caches : c = Absent \/ c \in Seq(Ticket)
  /\ Inputs \subseteq {<<>>} \cup Credential

VARIABLES
  fn,       \* the function that runs, or idle
  pc,       \* its next call
  rd,       \* krb5_cc_next_cred: the tickets that it has read
  held,     \* the resources that its variables name
  lost,     \* resources that no variable names any more
  misused,  \* something was released that was not held
  status,   \* of the last function
  work,     \* the local and the cross-realm TGT found, the outcome of the KDC
  cache, buf

krbVars == <<fn, pc, rd, held, lost, misused, status, work, cache, buf>>

NoTickets == [tgt |-> <<>>, cross |-> <<>>, out |-> <<>>]

\* _krb_is_local_tgt
IsTgt(t) == t.kind = "tgt"

-----------------------------------------------------------------------------
(* The calls.                                                              *)

\* The common start of the functions that work on a buffer.
Context == Take("ctx", "exit")
AuthContext == Take("actx", "ctx_exit")
ReadCred == Take("creds", "auth_ctx_exit")

\* Mutant: a label too high.
CopyLate(res) == Take(res, "renew_exit")

\* A principal is copied into the request.
Copy(res) == Take(res, "cred_exit")

\* The releases: a label and what is released there, down to the return.
Label(name, frees) == [name |-> name, frees |-> frees]
FreeAuthContext == Label("auth_ctx_exit", {"actx"})
FreeContext == Label("ctx_exit", {"ctx"})
Exit == Label("exit", {})

\* Mutant: forgets the reply of the KDC.
ReleaseRenewedNoReply ==
  << Label("mk_exit", {"data"}), Label("renew_exit", {}), Label("cred_exit", {"client", "server", "creds"}),
     FreeAuthContext, FreeContext, Exit >>

\* renew_exit is cr_exit or fwd_exit in the functions that do not renew.
ReleaseRenewed ==
  << Label("mk_exit", {"data"}), Label("renew_exit", {"reply"}), Label("cred_exit", {"client", "server", "creds"}),
     FreeAuthContext, FreeContext, Exit >>

-----------------------------------------------------------------------------
(* The functions.                                                          *)
(* null: variables that are null, or zeroed, until they name something;    *)
(* their release is then harmless.  end: the label after the last call.    *)

Body(calls, labels, null, end) == [calls |-> calls, labels |-> labels, null |-> null, end |-> end]

\* auks_krb5_cc_new_unique
NewUniqueBody ==
  Body(<< Context, Take("cc", "out"), Take("cc", "out"), Take("name", "destroy"), Drop("cc") >>,
       << Label("destroy", {"cc"}), Label("out", {"name", "ctx"}), Exit >>,
       {"name"}, "out")

\* auks_krb5_cc_switch; a cache that does not support the switch skips it.
SwitchBody ==
  Body(<< Context, Take("cc", "out"), Try("switch", "close") >>,
       << Label("close", {"cc"}), Label("out", {"ctx"}), Exit >>,
       {}, "close")

\* auks_krb5_cc_destroy: cc_exit lies behind the return.
DestroyBody ==
  Body(<< Context, Take("cc", "cc_exit"), Step("destroy", "cc", "out") >>,
       << Label("cc_exit", {"cc"}), Label("out", {"ctx"}), Exit >>,
       {}, "out")

\* auks_krb5_cred_get; read_cred is guarded by read_cred_was_used.
GetBody ==
  Body(<< Context, Take("cc", "ctx_exit"), Take("cursor", "cc_exit"), Take("princ", "ctx_exit"),
          Try("read", "none"), Drop("cursor"), Try("found", "seq_exit"), Take("actx", "seq_exit"),
          Step("mk_ncred", "data", "auth_ctx_exit"), Take("buffer", "cred_exit") >>,
       << Label("cred_exit", {"data"}), FreeAuthContext, Label("seq_exit", {"read", "tgt", "cross"}),
          Label("cc_exit", {"cc"}), FreeContext, Exit >>,
       {"read", "tgt", "cross"}, "cred_exit")

\* auks_krb5_cred_store
StoreBody ==
  Body(<< Context, AuthContext, ReadCred, Take("cc", "cred_exit"), Try("initialize", "cc_exit"),
          Try("store_cred", "cc_exit") >>,
       << Label("cc_exit", {"cc"}), Label("cred_exit", {"creds"}), FreeAuthContext, FreeContext, Exit >>,
       {}, "cc_exit")

\* auks_krb5_cred_get_fwd; auth_context is null between its two lives.
GetFwdBody ==
  Body(<< Context, Take("cc", "ctx_exit"), Take("princ", "cc_exit"), Take("actx", "princ_exit"),
          Take("fwd", "auth_ctx_exit"), Take("creds", "fwd_exit"), Drop("actx"), Take("actx", "rd_cred_exit"),
          Take("data", "rd_cred_exit"), Take("buffer", "free_data") >>,
       << Label("free_data", {"data"}), Label("rd_cred_exit", {"creds"}), Label("fwd_exit", {"fwd"}),
          FreeAuthContext, Label("princ_exit", {"princ"}), Label("cc_exit", {"cc"}),
          FreeContext, Exit >>,
       {"actx"}, "free_data")

\* auks_krb5_cred_renew
RenewBody ==
  Body(<< Context, Take("cc", "ctx_exit"), Take("princ", "ctx_exit"), Take("cursor", "cc_exit"),
          Try("read", "none"), Drop("cursor"), Try("found", "seq_exit"), Try("renewable", "seq_exit"),
          Copy("client"), Copy("server"), Step("kdc", "reply", "cred_exit"), Drop("reply") >>,
       << Label("cred_exit", {"client", "server"}), Label("seq_exit", {"read"}), Label("cc_exit", {"cc"}),
          FreeContext, Exit >>,
       {"client", "server"}, "cred_exit")

\* auks_krb5_cred_renew_buffer
RenewBufferBody ==
  Body(<< Context, AuthContext, ReadCred, Try("found", "cred_exit"), Copy("client"), Copy("server"),
          Step("kdc", "reply", "cred_exit"), Step("mk_1cred", "data", "renew_exit"), Take("buffer", "mk_exit") >>,
       ReleaseRenewed, {"client", "server"}, "mk_exit")

\* auks_krb5_cred_cross_realm_buffer
CrossRealmBufferBody ==
  Body(<< Context, AuthContext, ReadCred, Copy("client"), Copy("server"),
          Step("kdc", "reply", "cred_exit"), Step("mk_ncred", "data", "renew_exit"), Take("buffer", "mk_exit") >>,
       ReleaseRenewed, {"client", "server"}, "mk_exit")

\* auks_krb5_cred_deladdr_buffer
DeladdrBufferBody ==
  Body(<< Context, AuthContext, ReadCred, Try("found", "cred_exit"), Copy("client"), Copy("server"),
          Step("kdc", "reply", "cred_exit"), Step("mk_1cred", "data", "renew_exit"), Take("buffer", "mk_exit") >>,
       ReleaseRenewed, {"client", "server"}, "mk_exit")

BodyOf ==
  [f \in AllFns |->
    CASE f = "get" -> GetBody
      [] f = "store" -> StoreBody
      [] f = "get_fwd" -> GetFwdBody
      [] f = "renew" -> RenewBody
      [] f = "renew_buffer" -> RenewBufferBody
      [] f = "cross_realm_buffer" -> CrossRealmBufferBody
      [] f = "deladdr_buffer" -> DeladdrBufferBody
      [] f = "cc_new_unique" -> NewUniqueBody
      [] f = "cc_switch" -> SwitchBody
      [] f = "cc_destroy" -> DestroyBody]

-----------------------------------------------------------------------------
(* Running a function. *)

Current == BodyOf[fn].calls[pc]
Running == fn # "idle" /\ pc <= Len(BodyOf[fn].calls)

\* The tickets that the function looks at.
First(S) == CHOOSE i \in S : \A j \in S : i <= j
Tgts == {i \in DOMAIN buf : IsTgt(buf[i])}

Subject ==
  CASE fn = "renew" -> work.tgt
    [] fn = "cross_realm_buffer" -> << buf[1] >>
    [] OTHER -> IF Tgts = {} THEN <<>> ELSE << buf[First(Tgts)] >>

Call(f) ==
  /\ fn = "idle"
  /\ f \in {"store", "renew_buffer", "cross_realm_buffer", "deladdr_buffer"} => buf # <<>>
  /\ fn' = f /\ pc' = 1 /\ rd' = 0 /\ held' = {} /\ lost' = {} /\ work' = NoTickets
  /\ status' = "ok"
  /\ misused' = FALSE /\ UNCHANGED <<cache, buf>>

Advance == pc' = pc + 1 /\ UNCHANGED <<fn, status, misused, buf>>

\* A resource is assigned to a variable; what it named before is lost.
Acquire(res) ==
  /\ held' = IF res = "none" THEN held ELSE held \cup {res}
  /\ lost' = IF res \in held THEN lost \cup {res} ELSE lost

Succeed ==
  /\ Running /\ Current.op = "take"
  /\ Current.res \in {"cursor", "princ"} => cache # Absent
  /\ Acquire(Current.res) /\ Advance /\ UNCHANGED <<rd, work, cache>>

Release ==
  /\ Running /\ Current.op = "drop"
  /\ held' = held \ {Current.res}
  /\ misused' = (misused \/ Current.res \notin held \cup BodyOf[fn].null)
  /\ pc' = pc + 1 /\ UNCHANGED <<fn, status, buf, rd, lost, work, cache>>

\* krb5_cc_next_cred into read_cred, and the copies: get takes both TGTs, renew the
\* first renewable one.
Wanted(t) == IF fn = "get" THEN t.kind \in {"tgt", "cross"} ELSE IsTgt(t)

ReadDone ==
  IF fn = "get" THEN work.tgt # <<>> /\ work.cross # <<>>
  ELSE work.tgt # <<>> /\ work.tgt[1].renewable

ReadNext ==
  /\ Running /\ Current.op = "read" /\ rd < Len(cache) /\ ~ReadDone
  /\ rd' = rd + 1
  /\ LET t == cache[rd + 1]
         copy == IF fn = "get" /\ Wanted(t) THEN {t.kind} ELSE {}
     IN  /\ held' = held \cup {"read"} \cup copy
         /\ lost' = lost \cup (held \cap ({"read"} \cup copy))
         /\ work' = IF Wanted(t) THEN [work EXCEPT ![t.kind] = << t >>] ELSE work
  /\ UNCHANGED <<fn, pc, status, misused, cache, buf>>

\* A copy that fails ends the loop too.
ReadNotCopied ==
  /\ Running /\ Current.op = "read" /\ rd < Len(cache) /\ ~ReadDone
  /\ fn = "get" /\ Wanted(cache[rd + 1])
  /\ rd' = rd + 1
  /\ held' = held \cup {"read"} /\ lost' = lost \cup (held \cap {"read"})
  /\ Advance /\ UNCHANGED <<work, cache>>

\* The end of the cache, or an error that the loop takes for it.
ReadEnd ==
  /\ Running /\ Current.op = "read"
  /\ Advance /\ UNCHANGED <<rd, held, lost, work, cache>>

\* A TGT was found; it is renewable and not at the end of its renewals.
Holds ==
  CASE Current.op = "found" -> IF fn = "get" THEN work.tgt # <<>> ELSE Subject # <<>>
    [] Current.op = "renewable" -> work.tgt[1].renewable /\ work.tgt[1].life < MaxLife
    [] OTHER -> TRUE

Test ==
  /\ Running /\ Current.op \in {"found", "renewable", "switch"} /\ Holds
  /\ Advance /\ UNCHANGED <<rd, held, lost, work, cache>>

\* krb5_get_cred_via_tkt: the KDC renews, forwards, or grants a ticket for the other realm.
Granted(t) ==
  CASE fn \in {"renew", "renew_buffer"} -> {[t EXCEPT !.life = @ + 1, !.addr = a] : a \in {FALSE, t.addr}}
    [] fn = "deladdr_buffer" -> {[t EXCEPT !.addr = FALSE]}
    [] OTHER -> {[t EXCEPT !.kind = "cross", !.addr = FALSE]}

Kdc ==
  /\ Running /\ Current.op = "kdc"
  /\ IsTgt(Subject[1])
  /\ fn \in {"renew", "renew_buffer"} => Subject[1].renewable /\ Subject[1].life < MaxLife
  /\ \E t \in Granted(Subject[1]) : work' = [work EXCEPT !.out = << t >>]
  /\ Acquire("reply") /\ Advance /\ UNCHANGED <<rd, cache>>

\* Mutants: the tickets in the other order; one ticket; the whole credential again.
PackedReversed ==
  CASE fn = "get" -> work.cross \o work.tgt
    [] fn = "cross_realm_buffer" -> << buf[1] >> \o work.out
    [] OTHER -> work.out
PackedOne ==
  CASE fn = "get" -> IF work.cross # <<>> THEN work.cross ELSE work.tgt
    [] fn = "cross_realm_buffer" -> << buf[1] >> \o work.out
    [] OTHER -> work.out
\* krb5_mk_ncred of the TGT and the cross-realm TGT, krb5_mk_1cred of the reply.
Packed ==
  CASE fn = "get" -> work.tgt \o work.cross
    [] fn = "cross_realm_buffer" -> << buf[1] >> \o work.out
    [] OTHER -> work.out

Pack ==
  /\ Running /\ Current.op \in {"mk_ncred", "mk_1cred"}
  /\ work' = [work EXCEPT !.out = Packed]
  /\ Acquire("data") /\ Advance /\ UNCHANGED <<rd, cache>>

\* krb5_cc_initialize empties the cache, krb5_cc_store_cred fills it.
Initialize ==
  /\ Running /\ Current.op = "initialize"
  /\ cache' = <<>>
  /\ Advance /\ UNCHANGED <<rd, held, lost, work>>

\* Mutant: stores the first ticket only.
StoreCredOnce ==
  /\ Running /\ Current.op = "store_cred"
  /\ cache' = Append(cache, buf[rd + 1]) /\ rd' = rd + 1
  /\ pc' = pc + 1
  /\ UNCHANGED <<fn, status, misused, buf, held, lost, work>>

StoreCred ==
  /\ Running /\ Current.op = "store_cred"
  /\ cache' = Append(cache, buf[rd + 1]) /\ rd' = rd + 1
  /\ pc' = IF rd' = Len(buf) THEN pc + 1 ELSE pc
  /\ UNCHANGED <<fn, status, misused, buf, held, lost, work>>

\* krb5_cc_destroy closes its handle, whatever it returns.  That there is no file is not
\* an error for the function, but it is what it returns.
Destroy ==
  /\ Running /\ Current.op = "destroy" /\ cache # Absent
  /\ held' = held \ {"cc"} /\ cache' = Absent
  /\ Advance /\ UNCHANGED <<rd, lost, work>>

-----------------------------------------------------------------------------
(* The way out. *)

\* What is released from a label of the running function on.
From(label) ==
  LET labels == BodyOf[fn].labels
      k == CHOOSE i \in DOMAIN labels : labels[i].name = label
  IN  UNION {labels[i].frees : i \in k .. Len(labels)}

\* The function falls through the releases from label and returns.
Leave(label, result, holding) ==
  /\ held' = holding \ From(label)
  /\ misused' = (misused \/ ~(From(label) \subseteq holding \cup BodyOf[fn].null))
  /\ status' = result /\ fn' = "idle"
  /\ UNCHANGED <<pc, rd, lost, work>>

Fails ==
  /\ Running /\ Current.label # "none"
  /\ Current.op \in {"found", "renewable"} => ~Holds
  /\ Leave(Current.label, "error", IF Current.op = "destroy" THEN held \ {"cc"} ELSE held)
  /\ UNCHANGED <<cache, buf>>

\* The caller owns the buffer: auks_cred_extract, auks_cred_renew, ... initialise the
\* auks credential with it.
Returns ==
  /\ fn # "idle" /\ ~Running
  /\ Leave(BodyOf[fn].end, "ok", held \ {"buffer"})
  /\ buf' = IF "buffer" \in held /\ fn # "get_fwd" THEN work.out ELSE buf
  /\ UNCHANGED cache

-----------------------------------------------------------------------------
KrbInit ==
  /\ fn = "idle" /\ pc = 1 /\ rd = 0 /\ held = {} /\ lost = {} /\ misused = FALSE
  /\ status = "ok" /\ work = NoTickets
  /\ cache \in Caches /\ buf \in Inputs

KrbNext ==
  \/ \E f \in Fns : Call(f)
  \/ Succeed \/ Release \/ ReadNext \/ ReadNotCopied \/ ReadEnd \/ Test \/ Kdc \/ Pack
  \/ Initialize \/ StoreCred \/ Destroy \/ Fails \/ Returns

KrbSpec == KrbInit /\ [][KrbNext]_krbVars

-----------------------------------------------------------------------------
(* Properties. *)

Resources == {"ctx", "actx", "cc", "cursor", "princ", "read", "tgt", "cross", "creds", "client",
              "server", "reply", "data", "buffer", "fwd", "name"}

Some(S) == {<<>>} \cup {<< t >> : t \in S}

KrbTypeOK ==
  /\ fn \in Fns \cup {"idle"} /\ pc \in 1 .. 13 /\ rd \in Nat
  /\ held \subseteq Resources /\ lost \subseteq Resources /\ misused \in BOOLEAN
  /\ status \in {"ok", "error"}
  /\ work.tgt \in Some(Ticket) /\ work.cross \in Some(Ticket)
  /\ \A s \in {buf, work.out} : Len(s) <= 2 /\ Range(s) \subseteq Ticket
  /\ cache = Absent \/ Range(cache) \subseteq Ticket

\* The functions that are known to leak, and to release what they do not hold: get keeps
\* the principal, an overwritten copy, and everything when the principal cannot be read;
\* renew keeps the principal and frees a ticket it has not read; cc_new_unique overwrites
\* the handle of the default cache; cc_destroy closes a null handle.
Leaky == {"get", "renew", "cc_new_unique"}
Careless == {"renew", "cc_destroy"}

\* A function releases whatever it has acquired before it returns, but for the buffer
\* that it hands over, at whichever call it has failed.
NothingHeldAtExit ==
  [][(fn \notin Leaky /\ fn # "idle" /\ fn' = "idle") => (held' = {} /\ lost' = {})]_krbVars

\* No function releases what it does not hold.
ReleasesWhatItHolds == [][(misused' /\ ~misused) => fn \in Careless]_krbVars

\* The first ticket of an auks credential is the TGT of the realm, after any sequence
\* of operations: auks_cred_init takes principal, uid, times and addresses from the
\* first one, and cross_realm_buffer asks the KDC with it.
FirstIsTgt == buf # <<>> => IsTgt(buf[1])

\* A store that reports success has stored the whole credential, and nothing else.
StoredWhole ==
  [][(fn = "store" /\ fn' = "idle" /\ status' = "ok") => cache' = buf]_krbVars

\* A credential that was stored is found again: what get takes out of the cache that
\* holds it starts with the same TGT, even if the cache cannot be read to its end.
SurvivesStore ==
  [][(fn = "get" /\ fn' = "idle" /\ status' = "ok" /\ cache = buf) => buf'[1] = buf[1]]_krbVars
=============================================================================
