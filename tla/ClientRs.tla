------------------------------ MODULE ClientRs ------------------------------
(***************************************************************************)
(* The two client libraries, C (Client) and Rust (rust/auks-client), over  *)
(* the same daemons and the same network.  The Rust one repeats the steps  *)
(* of the C one but for what is here.  It makes one attempt at least, it   *)
(* can do without a secondary daemon, each call of an attempt returns an   *)
(* error of the kind Retry or Return, and its errors do not tell whether   *)
(* the request has been sent.                                              *)
(***************************************************************************)
EXTENDS Client

VARIABLE lib   \* the library, and whether its configuration names one daemon only

libsVars == <<clientVars, lib>>

Libs == {"c", "rust", "rust_alone"}

RsOps == Ops \ {"dump"}

----------------------------------------------------------------------------
(* Client::request                                                         *)

RsBegin(c) == \E op \in RsOps : Begin(c, op)

\* Mutant: goes on with the next daemon after any error.
RsReturnRetries(c, status) == Fails(c, status)

\* AttemptError::Retry and AttemptError::Return
RsRetry(c, status) == Fails(c, status)
RsReturn(c, status) == Ends(c, status)

RsWhile(c) ==
  /\ In(c, "while")
  /\ \/ /\ call[c].retry <= MostAttempts
        /\ call' = [call EXCEPT ![c].pc = "connect", ![c].server = "primary"]
     \/ /\ call[c].retry > MostAttempts
        /\ Goto(c, "check")
  /\ UNCHANGED <<count, network, history>>

RsTryNext(c) ==
  /\ In(c, "next")
  /\ LET last == lib = "rust_alone" \/ call[c].server = "secondary"
     IN  \/ /\ ~last
            /\ call' = [call EXCEPT ![c].pc = "connect", ![c].server = "secondary"]
         \/ /\ last
            /\ call' = [call EXCEPT ![c].pc = "while", ![c].retry = @ + 1]
  /\ UNCHANGED <<count, network, history>>

----------------------------------------------------------------------------
(* Client::try_request                                                     *)

\* A port that is no number, a name without address, no address that answers.
RsConnect(c) ==
  \/ Connect(c)
  \/ /\ In(c, "connect")
     /\ daemon[call[c].server] = "down" \/ Fault("network")
     /\ RsRetry(c, "connection_failed")

\* Context, cache, principals, both addresses, authentication context: the
\* address of the peer is gone with the connection.
RsInit(c) ==
  /\ In(c, "init")
  /\ \/ Goto(c, "authenticate") /\ UNCHANGED <<count, network, history>>
     \/ (Fault("kerberos") \/ call[c].broken) /\ RsRetry(c, "stream_failed")

RsAuthenticate(c) ==
  \/ Authenticate(c)
  \/ /\ In(c, "authenticate")
     /\ call[c].broken \/ (Fault("kerberos") /\ daemon[call[c].server] = "up")
     /\ RsRetry(c, "auth_failed")

\* set_dummy_addrs, mk_priv, write_message
RsSend(c) ==
  \/ Send(c)
  \/ /\ In(c, "send")
     /\ call[c].broken \/ Fault("kerberos")
     /\ RsReturn(c, "send_failed")

\* read_message, rd_priv, and Message::decode, before the CLOSE is sent whose
\* failure is ignored.
RsReceive(c) ==
  \/ Receive(c)
  \/ /\ In(c, "receive")
     /\ call[c].broken \/ (Fault("kerberos") /\ reply[c] # "none")
     /\ RsReturn(c, "receive_failed")

RsLoad(c) ==
  /\ In(c, "load")
  /\ \/ Goto(c, "check") /\ UNCHANGED <<count, network, history>>
     \/ Fault("garbage") /\ RsReturn(c, "load_failed")

----------------------------------------------------------------------------
(* add_cred, get_cred, remove_cred, ping                                   *)

\* Every error of the request is passed on, and none tells where it comes from:
\* the caller learns as much as from request_processing.
RsVerdicts(c) ==
  CASE reply[c] = "none" -> {"request_processing"}
    [] reply[c] = "error_reply" -> {"invalid_reply"}
    [] reply[c] = "reply" ->
         {"success"} \cup
         IF call[c].op = "get" /\ Fault("garbage") THEN {"corrupted_reply"} ELSE {}

RsCheck(c) ==
  /\ In(c, "check")
  /\ \E verdict \in RsVerdicts(c) : result' = [result EXCEPT ![Now(c)] = verdict]
  /\ call' = [call EXCEPT ![c] = Returned]
  /\ reply' = [reply EXCEPT ![c] = "none"]
  /\ UNCHANGED <<count, daemon, inbox, effects>>

RsStep(c) ==
  \/ RsWhile(c) \/ RsTryNext(c) \/ RsConnect(c) \/ RsInit(c) \/ RsAuthenticate(c)
  \/ RsSend(c) \/ RsReceive(c) \/ RsLoad(c) \/ RsCheck(c)

----------------------------------------------------------------------------
(* Both libraries                                                          *)

InC == lib = "c"

LibsInit == ClientInit /\ lib \in Libs

LibsNext ==
  /\ \/ \E c \in Clients : (InC /\ \E op \in Ops : Begin(c, op)) \/ (~InC /\ RsBegin(c))
     \/ \E c \in Clients : (InC /\ ClientStep(c)) \/ (~InC /\ RsStep(c)) \/ Break(c)
     \/ Serve
     \/ \E s \in Servers : Stop(s) \/ Start(s) \/ Hang(s)
  /\ UNCHANGED lib

LibsSpec == LibsInit /\ [][LibsNext]_libsVars

\* Processes run.  A daemon that is up serves its requests, one that is down
\* is started again; nothing wakes a daemon that hangs.
FairLibsSpec ==
  /\ LibsSpec
  /\ \A c \in Clients : WF_libsVars((IF InC THEN ClientStep(c) ELSE RsStep(c)) /\ UNCHANGED lib)
  /\ \A k \in Calls, s \in Servers :
       WF_libsVars(Execute([call |-> k, server |-> s]) /\ UNCHANGED lib)
  /\ \A s \in Servers : WF_libsVars(Start(s) /\ UNCHANGED lib)
=============================================================================
