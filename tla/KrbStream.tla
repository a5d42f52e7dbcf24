------------------------------ MODULE KrbStream ------------------------------
(***************************************************************************)
(* The Kerberos stream of src/api/auks/auks_krb5_stream.c at one end of a  *)
(* connection, as auks_api_request and auksd_process_req use it.  The      *)
(* stream is a structure whose flags tell auks_krb5_stream_free_contents   *)
(* what there is to release; everything else that a connection needs is in *)
(* variables of the functions.  Any call may fail.                         *)
(*                                                                         *)
(* The structure is a variable of the caller: the flags that one attempt   *)
(* leaves behind are there when the next one begins.                       *)
(***************************************************************************)
EXTENDS Calls, Integers, Sequences

CONSTANTS
  Sides,      \* the ends of this instance, a subset of AllSides
  Attempts    \* the attempts of a client: retries, on two daemons each

\* "bare": a daemon whose configuration disables the replay cache.
AllSides == {"client", "server", "bare"}

ASSUME StreamAssumption == Sides \subseteq AllSides /\ Attempts \in Nat

VARIABLES
  side,     \* the end that this is
  at,       \* the part of the attempt that it is in, 0 between two attempts
  next,     \* the next call of that part
  left,     \* the attempts that are left
  flags,    \* the flags of the structure
  holds,    \* the resources that exist
  wrong     \* something was released that does not exist

streamVars == <<side, at, next, left, flags, holds, wrong>>

-----------------------------------------------------------------------------
(* The calls of an attempt. *)

\* A resource that a flag of the structure stands for.
Flagged(res, label) == Step("flagged", res, label)
\* A resource that is gone whether the call succeeds or not.
Use(res, label) == Step("use", res, label)

\* auks_krb5_stream_init_base.  A replay cache that is set belongs to the
\* authentication context.
Base ==
  << Try("getsockname", "exit"), Try("getpeername", "exit"), Flagged("context", "exit"),
     Flagged("auth_context", "ctx_exit") >>
ReplayCache == << Take("rcache", "auth_ctx_exit"), Use("rcache", "auth_ctx_exit") >>
Addresses == << Try("setaddrs", "auth_ctx_exit"), Try("setflags", "auth_ctx_exit") >>

\* auks_krb5_stream_clnt_init
ClntInit == << Flagged("ccache", "init_exit"), Flagged("local_principal", "cc_exit") >>

\* auks_krb5_stream_clnt_auth
ClntAuth == << Flagged("remote_principal", "kstream"), Try("sendauth", "kstream") >>

\* auks_krb5_stream_srv_init
SrvInit == << Flagged("keytab", "init_exit"), Flagged("local_principal", "kt_exit") >>

\* auks_krb5_stream_srv_auth
SrvAuth ==
  << Try("recvauth", "kstream"), Take("authenticator", "kstream"),
     Flagged("remote_principal", "auth_exit"), Drop("authenticator") >>

\* auks_krb5_stream_get_rprinc: a name that is too long is an error.
PrincipalName == << Take("name", "kstream"), Use("name", "kstream") >>

\* auks_krb5_stream_send_msg: krb5_mk_priv, krb5_write_message
Transmit(label) == << Take("cyphered", label), Use("cyphered", label) >>

\* auks_krb5_stream_receive_msg: krb5_read_message, krb5_rd_priv, malloc
Obtain ==
  << Take("cyphered", "kstream"), Take("plain", "read_exit"), Take("buffer", "malloc_exit"),
     Drop("plain"), Drop("cyphered") >>

\* The calls by what they are part of.  From the request to the end of an attempt,
\* auks_api_request: the message that closes the connection releases what it takes, and
\* its failure is ignored, as is the one of auks_message_load until the buffer is released.
\* _auksd_process_msg: a CLOSE, or a failure to build even an error reply, has no reply.
\* A client whose role is unknown is dropped.
Parts ==
  [base |-> Base, rcache |-> ReplayCache, addresses |-> Addresses,
   clnt_init |-> ClntInit, clnt_auth |-> ClntAuth,
   srv_init |-> SrvInit, srv_auth |-> SrvAuth, principal |-> PrincipalName,
   role |-> << Try("role", "kstream") >>,
   ask |-> Transmit("kstream"), obtain |-> Obtain,
   load |-> << Take("reply", "req_exit"), Drop("buffer") >>,
   process |-> << Take("request", "req_exit"), Take("reply", "msg_exit") >>,
   answer |-> Transmit("rep_exit"),
   again |-> << Drop("reply"), Drop("request"), Drop("buffer"), Try("again", "none") >>]

\* An attempt, and how much of it comes before the first message.
Attempt ==
  [client |-> << "base", "addresses", "clnt_init", "clnt_auth", "ask", "obtain", "load" >>,
   server |-> << "base", "addresses", "srv_init", "srv_auth", "principal", "role",
                 "obtain", "process", "answer", "again" >>,
   bare   |-> << "base", "rcache", "addresses", "srv_init", "srv_auth", "principal", "role",
                 "obtain", "process", "answer", "again" >>]
Opening == [client |-> 4, server |-> 6, bare |-> 7]

Part == Parts[Attempt[side][at]]
Now == Part[next]
Calling == at # 0 /\ at <= Len(Attempt[side])

-----------------------------------------------------------------------------
(* The way out. *)

\* What is released on the way from a label to the end of its function, and of the
\* callers down to auks_krb5_stream_free_contents.
Releases(label) ==
  CASE label = "ctx_exit" -> {"context"}
    [] label = "auth_ctx_exit" -> {"context", "auth_context"}
    [] label = "cc_exit" -> {"ccache"}
    [] label = "kt_exit" -> {"keytab"}
    [] label = "auth_exit" -> {"authenticator"}
    [] label = "read_exit" -> {"cyphered"}
    [] label = "malloc_exit" -> {"plain", "cyphered"}
    [] label = "req_exit" -> {"buffer"}
    [] label = "msg_exit" -> {"request", "buffer"}
    [] label = "rep_exit" -> {"reply", "request", "buffer"}
    [] OTHER -> {}

\* The labels that take the flag back with the resource.
Clears(label) == IF label \in {"cc_exit", "kt_exit"} THEN Releases(label) ELSE {}

\* Mutant: every failure goes through the release of the structure.
FreesContentsAlways(label) == TRUE

\* The labels of auks_krb5_stream_init_base are followed by the exit of its caller,
\* and by the one of the caller's caller, which pass the release by.
FreesContents(label) == label \notin {"exit", "ctx_exit", "auth_ctx_exit"}

\* A client keeps the reply, and releases it once it has looked at it.
Unwind(label, holding) ==
  LET flagged == flags \ Clears(label)
      kept    == holding \ Releases(label)
      freed   == IF FreesContents(label) THEN flagged ELSE {}
  IN  /\ wrong' = (wrong \/ ~(Releases(label) \subseteq holding) \/ ~(freed \subseteq kept))
      /\ holds' = (kept \ freed) \ {IF side = "client" THEN "reply" ELSE "none"}
      /\ flags' = IF FreesContents(label) THEN {} ELSE flagged
      /\ at' = 0 /\ next' = 1 /\ UNCHANGED side

-----------------------------------------------------------------------------
(* Steps. *)

\* auks_krb5_stream_init_base begins with the flags.
StartAttempt ==
  /\ at = 0 /\ left > 0
  /\ at' = 1 /\ left' = left - 1 /\ flags' = {}
  /\ UNCHANGED <<side, next, holds, wrong>>

OnTo(holding, flagged) ==
  /\ IF next < Len(Part) THEN next' = next + 1 /\ at' = at ELSE next' = 1 /\ at' = at + 1
  /\ holds' = holding /\ flags' = flagged
  /\ UNCHANGED <<side, left>>

Obtains ==
  /\ Calling /\ Now.op \in {"take", "flagged"}
  /\ OnTo(holds \cup {Now.res}, IF Now.op = "flagged" THEN flags \cup {Now.res} ELSE flags)
  /\ wrong' = (wrong \/ Now.res \in holds)

Gives ==
  /\ Calling /\ Now.op \in {"drop", "use"}
  /\ OnTo(holds \ {Now.res}, flags)
  /\ wrong' = (wrong \/ Now.res \notin holds)

Passes ==
  /\ Calling /\ Now.op \notin {"take", "flagged", "drop", "use", "again"}
  /\ OnTo(holds, flags) /\ UNCHANGED wrong

\* The worker waits for the next request on the same stream.
ServesNext ==
  /\ Calling /\ Now.op = "again"
  /\ at' = Opening[side] + 1 /\ next' = 1
  /\ UNCHANGED <<side, left, flags, holds, wrong>>

\* A client that was authenticated makes no other attempt.
Authenticated == at > Opening[side]

FailsAt ==
  /\ Calling /\ Now.label # "none"
  /\ Unwind(Now.label, IF Now.op = "use" THEN holds \ {Now.res} ELSE holds)
  /\ left' = IF side = "client" /\ Authenticated THEN 0 ELSE left

Ends ==
  /\ at > Len(Attempt[side])
  /\ Unwind("kstream", holds)
  /\ left' = 0

\* The structure is not initialised: its flags are what the stack holds.
AllFlags == {"context", "auth_context", "local_principal", "remote_principal", "ccache", "keytab"}

\* The next call of the client, the next connections of the worker.
NextCall ==
  /\ at = 0 /\ left = 0
  /\ left' = Attempts /\ flags' \in {{}, AllFlags}
  /\ UNCHANGED <<side, at, next, holds, wrong>>

StreamInit ==
  /\ side \in Sides /\ at = 0 /\ next = 1 /\ left = 0
  /\ flags = {} /\ holds = {} /\ wrong = FALSE

StreamNext ==
  \/ NextCall \/ StartAttempt \/ Obtains \/ Gives \/ Passes \/ ServesNext \/ FailsAt \/ Ends

-----------------------------------------------------------------------------
(* Properties. *)

\* "Balanced": whichever call fails, and however many attempts have failed before, the
\* error paths of three functions and the flags between them release everything that
\* exists once, and nothing exists between two connections.
Balanced == ~wrong /\ (at = 0 => holds = {})
=============================================================================
