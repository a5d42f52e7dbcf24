------------------------------- MODULE Client -------------------------------
(***************************************************************************)
(* The client library (src/api/auks/auks_api.c): a call opens a connection *)
(* to the primary daemon, then to the secondary one, up to Retries times,  *)
(* until it is authenticated by one of them; it sends its request there    *)
(* and waits for the reply.  From the authentication on it never turns to  *)
(* another daemon, whatever becomes of the request.                        *)
(*                                                                         *)
(* The daemons, the network and the kernel are the environment.  A daemon  *)
(* is up, down, or hung: its kernel still completes connections, and no    *)
(* worker serves them.  A request that has left may be executed after its  *)
(* client has given up.  What is asked of a daemon does not matter here.   *)
(***************************************************************************)
EXTENDS Integers, FiniteSets

CONSTANTS
  Clients,    \* the processes that call the library, one call at a time
  Ops,        \* the requests they make
  Retries,    \* engine->retries
  Faults,     \* what may happen in this instance, a subset of FaultKinds
  MaxCalls    \* bound on the number of calls of each client

\* "down": a daemon dies and comes back; "hang": its workers are stuck;
\* "network": connections fail and break; "kerberos": contexts, tickets and
\* authentications fail; "garbage": a reply does not decode.
FaultKinds == {"down", "hang", "network", "kerberos", "garbage"}

ASSUME ClientAssumption ==
  /\ IsFiniteSet(Clients)
  /\ Ops \subseteq {"ping", "add", "get", "remove", "dump"}
  /\ Retries \in Nat
  /\ Faults \subseteq FaultKinds
  /\ MaxCalls \in Nat

Servers == {"primary", "secondary"}
Calls == Clients \X (1..MaxCalls)

VARIABLES
  call,      \* the frame of auks_api_request in each client
  count,     \* the number of calls each client has made
  daemon,    \* the state of each daemon
  inbox,     \* requests that have reached a daemon and wait for a worker
  reply,     \* the reply on its way to each client
  result,    \* history: the status that each call has returned
  effects    \* history: how often the request of each call took effect

clientVars == <<call, count, daemon, inbox, reply, result, effects>>

\* broken: the connection is lost, which the client finds out on its next use.
Returned == [pc |-> "idle", op |-> "none", retry |-> 1, server |-> "primary",
             broken |-> FALSE, status |-> "success"]

Pcs == {"idle", "while", "connect", "init", "authenticate", "send", "receive",
        "load", "next", "check"}
Statuses == {"success", "error", "connection_failed", "stream_failed", "auth_failed",
             "send_failed", "receive_failed", "load_failed"}
Results == Statuses \cup {"none", "pending", "request_processing", "invalid_reply",
                          "corrupted_reply"}

\* The library in Rust (ClientRs) makes one attempt at least.
MostAttempts == IF Retries = 0 THEN 1 ELSE Retries

Frames == [pc : Pcs, op : Ops \cup {"none"}, retry : 1..(MostAttempts + 1), server : Servers,
           broken : BOOLEAN, status : Statuses]

Fault(f) == f \in Faults
In(c, pc) == call[c].pc = pc
Goto(c, pc) == call' = [call EXCEPT ![c].pc = pc]
Now(c) == <<c, count[c]>>

ClientInit ==
  /\ call = [c \in Clients |-> Returned]
  /\ count = [c \in Clients |-> 0]
  /\ daemon = [s \in Servers |-> "up"]
  /\ inbox = {}
  /\ reply = [c \in Clients |-> "none"]
  /\ result = [k \in Calls |-> "none"]
  /\ effects = [k \in Calls |-> 0]

history == <<result, effects>>
network == <<daemon, inbox, reply>>

----------------------------------------------------------------------------
(* auks_api_request                                                        *)

\* The caller has built its request; an empty one is refused at once.
Begin(c, op) ==
  /\ In(c, "idle")
  /\ count[c] < MaxCalls
  /\ count' = [count EXCEPT ![c] = @ + 1]
  /\ call' = [call EXCEPT ![c] = [Returned EXCEPT !.pc = "while", !.op = op]]
  /\ result' = [result EXCEPT ![<<c, count[c] + 1>>] = "pending"]
  /\ UNCHANGED <<network, effects>>

\* With no retries at all the status is the initial one of rstatus.
While(c) ==
  /\ In(c, "while")
  /\ \/ /\ call[c].retry <= Retries
        /\ call' = [call EXCEPT ![c].pc = "connect", ![c].server = "primary"]
     \/ /\ call[c].retry > Retries
        /\ call' = [call EXCEPT ![c].pc = "check",
                               ![c].status = IF Retries = 0 THEN "error" ELSE @]
  /\ UNCHANGED <<count, network, history>>

\* xstream_connect: the kernel of a hung daemon answers for it.
Connect(c) ==
  /\ In(c, "connect")
  /\ daemon[call[c].server] # "down"
  /\ call' = [call EXCEPT ![c].pc = "init", ![c].broken = FALSE]
  /\ UNCHANGED <<count, network, history>>

\* An attempt on one daemon fails before the request is sent: on to the next.
Fails(c, status) ==
  /\ call' = [call EXCEPT ![c].pc = "next", ![c].status = status]
  /\ UNCHANGED <<count, network, history>>

\* A connection that is refused, or still incomplete after Timeout seconds.
ConnectFails(c) ==
  /\ In(c, "connect")
  /\ daemon[call[c].server] = "down" \/ Fault("network")
  /\ Fails(c, "connection_failed")

InitStream(c) ==
  /\ In(c, "init")
  /\ \/ Goto(c, "authenticate") /\ UNCHANGED <<count, network, history>>
     \/ Fault("kerberos") /\ Fails(c, "stream_failed")

\* auks_krb5_stream_authenticate: takes a worker of the daemon.  It waits
\* for it as long as the connection lives.
Authenticate(c) ==
  /\ In(c, "authenticate")
  /\ daemon[call[c].server] = "up"
  /\ ~call[c].broken
  /\ Goto(c, "send")
  /\ UNCHANGED <<count, network, history>>

AuthenticateFails(c) ==
  /\ In(c, "authenticate")
  /\ call[c].broken \/ (Fault("kerberos") /\ daemon[call[c].server] = "up")
  /\ Fails(c, "auth_failed")

\* Mutant: the retries are not counted.
TryNextForever(c) ==
  /\ In(c, "next")
  /\ \/ /\ call[c].server = "primary"
        /\ call' = [call EXCEPT ![c].pc = "connect", ![c].server = "secondary"]
     \/ /\ call[c].server = "secondary"
        /\ Goto(c, "while")
  /\ UNCHANGED <<count, network, history>>

\* The for loop goes on with the secondary, the while loop with a delay.
TryNext(c) ==
  /\ In(c, "next")
  /\ \/ /\ call[c].server = "primary"
        /\ call' = [call EXCEPT ![c].pc = "connect", ![c].server = "secondary"]
     \/ /\ call[c].server = "secondary"
        /\ call' = [call EXCEPT ![c].pc = "while", ![c].retry = @ + 1]
  /\ UNCHANGED <<count, network, history>>

\* The end of the exchange: the call is over whatever the status.
Ends(c, status) ==
  /\ call' = [call EXCEPT ![c].pc = "check", ![c].status = status, ![c].broken = FALSE]
  /\ reply' = [reply EXCEPT ![c] = "none"]
  /\ UNCHANGED <<count, daemon, inbox, history>>

\* What is written to a connection that is lost gets nowhere.
Send(c) ==
  /\ In(c, "send")
  /\ Goto(c, "receive")
  /\ inbox' = IF call[c].broken THEN inbox
              ELSE inbox \cup {[call |-> Now(c), server |-> call[c].server]}
  /\ UNCHANGED <<count, daemon, reply, history>>

\* Mutant: the reply is waited for although the request has not left.
SendFailsIgnored(c) ==
  /\ In(c, "send")
  /\ call[c].broken \/ Fault("kerberos")
  /\ Goto(c, "receive")
  /\ UNCHANGED <<count, network, history>>

SendFails(c) ==
  /\ In(c, "send")
  /\ call[c].broken \/ Fault("kerberos")
  /\ Ends(c, "send_failed")

\* The reply arrives, and the CLOSE request is sent, whatever becomes of it.
Receive(c) ==
  /\ In(c, "receive")
  /\ reply[c] # "none"
  /\ Goto(c, "load")
  /\ UNCHANGED <<count, network, history>>

\* Mutant: a request whose reply is lost is tried on the next daemon.
ReceiveFailsNext(c) ==
  /\ In(c, "receive")
  /\ call[c].broken
  /\ Fails(c, "receive_failed")

\* The connection is lost, or the reply cannot be decrypted.
ReceiveFails(c) ==
  /\ In(c, "receive")
  /\ call[c].broken \/ (Fault("kerberos") /\ reply[c] # "none")
  /\ Ends(c, "receive_failed")

\* auks_message_load
Load(c) ==
  /\ In(c, "load")
  /\ \/ Goto(c, "check") /\ UNCHANGED <<count, network, history>>
     \/ Fault("garbage") /\ Ends(c, "load_failed")

----------------------------------------------------------------------------
(* The callers of auks_api_request: ping, dump, add, get, remove.          *)

\* Only auks_api_add_auks_cred passes the status of the request on.
Reported(op, status) == IF op = "add" THEN status ELSE "request_processing"

\* A reply of the expected type means success, once the payload of GET and
\* DUMP is unpacked; any other type is an invalid reply.
Verdicts(c) ==
  CASE reply[c] = "none" -> {Reported(call[c].op, call[c].status)}
    [] reply[c] = "error_reply" -> {"invalid_reply"}
    [] reply[c] = "reply" ->
         {"success"} \cup
         IF call[c].op \in {"get", "dump"} /\ Fault("garbage") THEN {"corrupted_reply"} ELSE {}

Check(c) ==
  /\ In(c, "check")
  /\ \E verdict \in Verdicts(c) : result' = [result EXCEPT ![Now(c)] = verdict]
  /\ call' = [call EXCEPT ![c] = Returned]
  /\ reply' = [reply EXCEPT ![c] = "none"]
  /\ UNCHANGED <<count, daemon, inbox, effects>>

ClientStep(c) ==
  \/ While(c) \/ Connect(c) \/ ConnectFails(c) \/ InitStream(c)
  \/ Authenticate(c) \/ AuthenticateFails(c) \/ TryNext(c)
  \/ Send(c) \/ SendFails(c) \/ Receive(c) \/ ReceiveFails(c) \/ Load(c) \/ Check(c)

----------------------------------------------------------------------------
(* The daemons and the network.                                            *)

\* A worker executes a request and replies, to nobody when the client has
\* left.  An operation that is answered with an error may have taken effect:
\* an addition whose file could not be written stays in memory.
Waits(m) ==
  LET c == m.call[1] IN Now(c) = m.call /\ In(c, "receive") /\ ~call[c].broken

Execute(m) ==
  /\ m \in inbox
  /\ daemon[m.server] = "up"
  /\ inbox' = inbox \ {m}
  /\ \E effect \in BOOLEAN, kind \in {"reply", "error_reply"} :
       /\ kind = "reply" => effect
       /\ effects' = [effects EXCEPT ![m.call] = IF effect THEN @ + 1 ELSE @]
       /\ reply' = IF Waits(m) THEN [reply EXCEPT ![m.call[1]] = kind] ELSE reply
  /\ UNCHANGED <<call, count, daemon, result>>

\* A daemon that dies takes its connections and its requests with it.
Connected(c, s) ==
  call[c].server = s /\ call[c].pc \in {"init", "authenticate", "send", "receive"}

Stop(s) ==
  /\ Fault("down")
  /\ daemon[s] # "down"
  /\ daemon' = [daemon EXCEPT ![s] = "down"]
  /\ inbox' = {m \in inbox : m.server # s}
  /\ call' = [c \in Clients |-> [call[c] EXCEPT !.broken = @ \/ Connected(c, s)]]
  /\ UNCHANGED <<count, reply, history>>

Start(s) ==
  /\ daemon[s] = "down"
  /\ daemon' = [daemon EXCEPT ![s] = "up"]
  /\ UNCHANGED <<call, count, inbox, reply, history>>

Hang(s) ==
  /\ Fault("hang")
  /\ daemon[s] = "up"
  /\ daemon' = [daemon EXCEPT ![s] = "hung"]
  /\ UNCHANGED <<call, count, inbox, reply, history>>

\* The network breaks a connection; what it has carried stays at the daemon.
Break(c) ==
  /\ Fault("network")
  /\ Connected(c, call[c].server)
  /\ ~call[c].broken
  /\ call' = [call EXCEPT ![c].broken = TRUE]
  /\ UNCHANGED <<count, network, history>>

Serve == \E m \in inbox : Execute(m)

ClientNext ==
  \/ \E c \in Clients : (\E op \in Ops : Begin(c, op)) \/ ClientStep(c) \/ Break(c)
  \/ Serve
  \/ \E s \in Servers : Stop(s) \/ Start(s) \/ Hang(s)

ClientSpec == ClientInit /\ [][ClientNext]_clientVars

----------------------------------------------------------------------------
(* Properties                                                              *)

Requests == [call : Calls, server : Servers]

ClientTypeOK ==
  /\ call \in [Clients -> Frames]
  /\ count \in [Clients -> 0..MaxCalls]
  /\ daemon \in [Servers -> {"up", "down", "hung"}]
  /\ inbox \subseteq Requests
  /\ reply \in [Clients -> {"none", "reply", "error_reply"}]
  /\ result \in [Calls -> Results]
  /\ effects \in [Calls -> Nat]

\* A call whose status says that no daemon could be reached or that none has
\* authenticated the client has not taken effect and will not; one that
\* succeeds has, once and on one daemon, although there are two daemons to
\* turn to and several retries.  Of the others nothing is known.
Refusals == {"connection_failed", "stream_failed", "auth_failed", "error"}

Outcome(status) ==
  IF status \in {"none", "pending", "success"} THEN status
  ELSE IF status \in Refusals THEN "refused" ELSE "unknown"

Promise == INSTANCE Rpc WITH outcome <- [k \in Calls |-> Outcome(result[k])]

ImplementsRpc == Promise!RpcSpec

Sent(k) == \E m \in inbox : m.call = k
Untouched(k) == ~Sent(k) /\ effects[k] = 0
Trying == {"while", "connect", "init", "authenticate", "next", "send"}

MessageInv ==
  \A m \in inbox : /\ effects[m.call] = 0
                  /\ \A n \in inbox : n.call = m.call => n = m

ResultInv ==
  \A k \in Calls :
    /\ effects[k] \in {0, 1}
    /\ Outcome(result[k]) \in {"none", "refused"} => Untouched(k)
    /\ Outcome(result[k]) = "success" => effects[k] = 1

CallInv ==
  \A c \in Clients :
    /\ \A n \in (count[c] + 1)..MaxCalls : result[<<c, n>>] = "none"
    /\ ~In(c, "idle") => count[c] # 0 /\ result[Now(c)] = "pending"

FrameOK(c) ==
  /\ call[c].pc \in Trying \ {"while"} => call[c].retry <= MostAttempts
  /\ call[c].pc \in Trying => Untouched(Now(c))
  /\ In(c, "next") \/ (In(c, "while") /\ call[c].retry # 1) => call[c].status \in Refusals
  /\ In(c, "load") => reply[c] # "none"
  /\ reply[c] # "none" => ~Sent(Now(c)) /\ call[c].pc \in {"receive", "load", "check"}
  /\ reply[c] = "reply" => effects[Now(c)] = 1
  /\ In(c, "check") /\ reply[c] = "none" =>
       /\ call[c].status # "success"
       /\ call[c].status \in Refusals => Untouched(Now(c))

FrameInv == \A c \in Clients : FrameOK(c)

\* Why ImplementsRpc holds.  A call is tried again only as long as its request
\* has not been sent; there is one message for it at most, which is gone once
\* it has taken effect; and every status that an attempt leaves behind is a
\* refusal until the request is sent, and never one afterwards.
ClientInv == ClientTypeOK /\ MessageInv /\ ResultInv /\ CallInv /\ FrameInv

\* A call returns in the end, however often daemons die and connections
\* break, unless the daemon that it has turned to hangs.
Returns ==
  \A c \in Clients :
    ~In(c, "idle") ~> (In(c, "idle") \/ daemon[call[c].server] = "hung")

\* A client that waits for a reply and is not told that its connection is
\* lost has its request at a daemon, or the reply on its way.
Expected ==
  \A c \in Clients :
    In(c, "receive") /\ ~call[c].broken =>
      \/ reply[c] # "none"
      \/ [call |-> Now(c), server |-> call[c].server] \in inbox

=============================================================================
