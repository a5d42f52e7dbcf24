---------------------------- MODULE ClientProofs ----------------------------
(***************************************************************************)
(* Proofs about Client and ClientRs: a call of either library keeps the    *)
(* promise of Rpc, for any number of clients, calls and retries and        *)
(* whatever fails.                                                         *)
(***************************************************************************)
EXTENDS ClientRs, TLAPS

USE DEF Servers, Calls, MostAttempts

----------------------------------------------------------------------------
(* Types                                                                   *)

LEMMA ReturnedType == Returned \in Frames
BY ClientAssumption DEF Returned, Frames, Pcs, Statuses

LEMMA NowType ==
  ASSUME ClientTypeOK, NEW c \in Clients, count[c] # 0
  PROVE  Now(c) \in Calls
BY ClientAssumption DEF ClientTypeOK, Now

LEMMA InitInv == ClientInit => ClientInv
<1> SUFFICES ASSUME ClientInit PROVE ClientInv
  OBVIOUS
<1>1. ClientTypeOK
  BY ClientAssumption, ReturnedType DEF ClientInit, ClientTypeOK, Results
<1>2. MessageInv /\ ResultInv /\ CallInv
  BY ClientAssumption DEF ClientInit, MessageInv, ResultInv, CallInv, Outcome, Untouched, Sent,
                          Returned, In, Refusals
<1>3. FrameInv
  BY DEF ClientInit, FrameInv, FrameOK, Returned, In, Trying
<1> QED
  BY <1>1, <1>2, <1>3 DEF ClientInv

----------------------------------------------------------------------------
(* The steps of a client in auks_api_request, or in Client::request, that  *)
(* send nothing.                                                           *)

Moves(c) ==
  \/ While(c) \/ Connect(c) \/ ConnectFails(c) \/ InitStream(c)
  \/ Authenticate(c) \/ AuthenticateFails(c) \/ TryNext(c) \/ SendFails(c)
  \/ Receive(c) \/ ReceiveFails(c) \/ Load(c) \/ Break(c)
  \/ RsWhile(c) \/ RsTryNext(c) \/ RsInit(c)

LEMMA MoveFrame ==
  ASSUME ClientInv, NEW c \in Clients, Moves(c)
  PROVE  /\ ~In(c, "idle") /\ call'[c] \in Frames /\ call'[c].pc # "idle"
         /\ \E g \in Frames : call' = [call EXCEPT ![c] = g]
         /\ reply' \in {reply, [reply EXCEPT ![c] = "none"]}
         /\ FrameOK(c)'
         /\ ~In(c, "receive")' \/ call'[c].broken
         /\ UNCHANGED <<count, daemon, inbox, history>>
<1>1. call[c] \in Frames /\ call \in [Clients -> Frames] /\ FrameOK(c)
      /\ reply \in [Clients -> {"none", "reply", "error_reply"}]
  BY DEF ClientInv, ClientTypeOK, FrameInv
<1> USE ClientAssumption DEF Frames, Pcs, Statuses, Refusals, Trying, Goto, Fails, Ends, In, Now,
                             history, network, Connected, FrameOK, Untouched, Sent
<1>2. CASE While(c)
  BY <1>1, <1>2 DEF While
<1>3. CASE Connect(c)
  BY <1>1, <1>3 DEF Connect
<1>4. CASE ConnectFails(c)
  BY <1>1, <1>4 DEF ConnectFails
<1>5. CASE InitStream(c)
  BY <1>1, <1>5 DEF InitStream
<1>6. CASE Authenticate(c)
  BY <1>1, <1>6 DEF Authenticate
<1>7. CASE AuthenticateFails(c)
  BY <1>1, <1>7 DEF AuthenticateFails
<1>8. CASE TryNext(c)
  BY <1>1, <1>8 DEF TryNext
<1>9. CASE SendFails(c)
  BY <1>1, <1>9 DEF SendFails
<1>10. CASE Receive(c)
  BY <1>1, <1>10 DEF Receive
<1>11. CASE ReceiveFails(c)
  BY <1>1, <1>11, ZenonT(60) DEF ReceiveFails
<1>12. CASE Load(c)
  BY <1>1, <1>12 DEF Load
<1>13. CASE Break(c)
  BY <1>1, <1>13, ZenonT(60) DEF Break
<1>14. CASE RsWhile(c)
  BY <1>1, <1>14 DEF RsWhile
<1>15. CASE RsTryNext(c)
  BY <1>1, <1>15 DEF RsTryNext
<1>16. CASE RsInit(c)
  BY <1>1, <1>16 DEF RsInit, RsRetry
<1> QED
  BY <1>2, <1>3, <1>4, <1>5, <1>6, <1>7, <1>8, <1>9, <1>10, <1>11, <1>12, <1>13, <1>14, <1>15,
     <1>16 DEF Moves

LEMMA MoveInv ==
  ASSUME ClientInv, NEW c \in Clients, Moves(c)
  PROVE  ClientInv'
<1>1. /\ ~In(c, "idle") /\ call'[c] \in Frames /\ call'[c].pc # "idle"
      /\ \E g \in Frames : call' = [call EXCEPT ![c] = g]
      /\ reply' \in {reply, [reply EXCEPT ![c] = "none"]}
      /\ FrameOK(c)'
      /\ UNCHANGED <<count, daemon, inbox, history>>
  BY MoveFrame
<1>2. ClientTypeOK'
  BY <1>1 DEF ClientInv, ClientTypeOK, history
<1>3. MessageInv' /\ ResultInv'
  BY <1>1 DEF ClientInv, MessageInv, ResultInv, Untouched, Sent, history
<1>4. \A d \in Clients \ {c} : call'[d] = call[d] /\ reply'[d] = reply[d]
  BY <1>1 DEF ClientInv, ClientTypeOK
<1>5. CallInv'
  BY <1>1, <1>4 DEF ClientInv, CallInv, In, Now, history
<1>6. FrameInv'
  BY <1>1, <1>4 DEF ClientInv, FrameInv, FrameOK, In, Now, Untouched, Sent, history
<1> QED
  BY <1>2, <1>3, <1>5, <1>6 DEF ClientInv

----------------------------------------------------------------------------
(* The other steps.                                                        *)

LEMMA BeginInv ==
  ASSUME ClientInv, NEW c \in Clients, NEW o \in Ops, Begin(c, o)
  PROVE  ClientInv'
<1> DEFINE k == <<c, count[c] + 1>>
<1>1. /\ k \in Calls /\ result[k] = "none" /\ Untouched(k) /\ count'[c] = count[c] + 1
      /\ Now(c)' = k
  <2>1. count[c] \in 0..MaxCalls /\ count[c] < MaxCalls /\ count'[c] = count[c] + 1
    BY DEF Begin, ClientInv, ClientTypeOK
  <2>2. k \in Calls /\ count[c] + 1 \in (count[c] + 1)..MaxCalls
    BY <2>1, ClientAssumption
  <2>3. result[k] = "none"
    BY <2>2 DEF ClientInv, CallInv
  <2>4. Untouched(k)
    BY <2>2, <2>3 DEF ClientInv, ResultInv, Outcome
  <2> QED
    BY <2>1, <2>2, <2>3, <2>4 DEF Now
<1>2. ClientTypeOK'
  <2>1. [Returned EXCEPT !.pc = "while", !.op = o] \in Frames
    BY ReturnedType DEF Frames, Pcs
  <2>2. call' \in [Clients -> Frames] /\ result' \in [Calls -> Results]
    BY <1>1, <2>1 DEF Begin, ClientInv, ClientTypeOK, Results
  <2>3. count' \in [Clients -> 0..MaxCalls]
    BY ClientAssumption DEF Begin, ClientInv, ClientTypeOK
  <2> QED
    BY <2>2, <2>3 DEF Begin, ClientInv, ClientTypeOK, network
<1>3. MessageInv'
  BY DEF Begin, ClientInv, MessageInv, network
<1>4. ResultInv'
  <2>1. /\ result' = [result EXCEPT ![k] = "pending"] /\ result \in [Calls -> Results]
        /\ UNCHANGED <<inbox, effects>>
    BY DEF Begin, network, ClientInv, ClientTypeOK
  <2>2. \A j \in Calls : result'[j] = IF j = k THEN "pending" ELSE result[j]
    BY <2>1
  <2>3. Outcome("pending") = "pending"
    BY DEF Outcome
  <2> QED
    BY <1>1, <2>1, <2>2, <2>3 DEF ClientInv, ResultInv, Untouched, Sent, Outcome
<1>5. CallInv'
  <2>1. /\ result' = [result EXCEPT ![k] = "pending"] /\ result \in [Calls -> Results]
        /\ count' = [count EXCEPT ![c] = @ + 1] /\ count \in [Clients -> 0..MaxCalls]
        /\ \A d \in Clients \ {c} : In(d, "idle")' = In(d, "idle")
    BY DEF Begin, ClientInv, ClientTypeOK, In
  <2>2. ASSUME NEW d \in Clients, NEW n \in (count'[d] + 1)..MaxCalls
        PROVE  result'[<<d, n>>] = "none"
    <3>1. <<d, n>> # k /\ n \in (count[d] + 1)..MaxCalls /\ <<d, n>> \in Calls
      BY <2>1, <2>2, ClientAssumption
    <3> QED
      BY <2>1, <3>1 DEF ClientInv, CallInv
  <2>3. ASSUME NEW d \in Clients, ~In(d, "idle")'
        PROVE  count'[d] # 0 /\ result'[Now(d)'] = "pending"
    <3>1. CASE d = c
      BY <1>1, <2>1, <3>1
    <3>2. CASE d # c
      <4>1. ~In(d, "idle") /\ count'[d] = count[d] /\ Now(d)' = Now(d) /\ Now(d) # k
        BY <2>1, <2>3, <3>2 DEF Now
      <4>2. count[d] # 0 /\ result[Now(d)] = "pending" /\ Now(d) \in Calls
        BY <4>1, NowType DEF ClientInv, CallInv
      <4> QED
        BY <2>1, <4>1, <4>2
    <3> QED
      BY <3>1, <3>2
  <2> QED
    BY <2>2, <2>3 DEF CallInv
<1>6. reply[c] = "none"
  BY DEF Begin, ClientInv, ClientTypeOK, FrameInv, FrameOK, In
<1>7. FrameOK(c)'
  BY <1>1, <1>6 DEF Begin, ClientInv, ClientTypeOK, FrameOK, In, Untouched, Sent, network, Returned, Trying
<1>8. ASSUME NEW d \in Clients, d # c
      PROVE  FrameOK(d)'
  BY <1>8 DEF Begin, ClientInv, ClientTypeOK, FrameInv, FrameOK, In, Now, Untouched, Sent, network
<1> QED
  BY <1>2, <1>3, <1>4, <1>5, <1>7, <1>8 DEF ClientInv, FrameInv

LEMMA SendInv ==
  ASSUME ClientInv, NEW c \in Clients, Send(c)
  PROVE  ClientInv'
<1> DEFINE m == [call |-> Now(c), server |-> call[c].server]
<1>1. In(c, "send") /\ Now(c) \in Calls /\ Untouched(Now(c)) /\ reply[c] = "none"
  BY NowType DEF Send, ClientInv, CallInv, FrameInv, FrameOK, In, Trying, ClientTypeOK
<1>2. m \in Requests /\ inbox' \in {inbox, inbox \cup {m}}
  BY <1>1 DEF Send, ClientInv, ClientTypeOK, Frames, Requests
<1>3. /\ call' = [call EXCEPT ![c].pc = "receive"] /\ call[c] \in Frames
      /\ UNCHANGED <<count, daemon, reply, result, effects>>
  BY DEF Send, Goto, history, ClientInv, ClientTypeOK
<1>4. result[Now(c)] = "pending"
  BY <1>1 DEF ClientInv, CallInv, In
<1>5. ClientTypeOK'
  BY <1>2, <1>3 DEF ClientInv, ClientTypeOK, Frames, Pcs
<1>6. MessageInv'
  BY <1>1, <1>2, <1>3 DEF ClientInv, MessageInv, Untouched, Sent
<1>7. ResultInv'
  BY <1>1, <1>2, <1>3, <1>4 DEF ClientInv, ResultInv, Untouched, Sent, Outcome
<1>8. CallInv'
  BY <1>1, <1>3 DEF ClientInv, ClientTypeOK, CallInv, In, Now
<1>9. FrameOK(c)'
  BY <1>1, <1>3 DEF ClientInv, ClientTypeOK, FrameOK, In, Trying
<1>10. ASSUME NEW d \in Clients, d # c
       PROVE  FrameOK(d)'
  <2>1. Now(d) # Now(c) /\ Now(d)' = Now(d)
    BY <1>3, <1>10 DEF Now
  <2> QED
    BY <1>2, <1>3, <1>10, <2>1 DEF ClientInv, ClientTypeOK, FrameInv, FrameOK, In, Untouched, Sent
<1> QED
  BY <1>5, <1>6, <1>7, <1>8, <1>9, <1>10 DEF ClientInv, FrameInv

LEMMA CheckInv ==
  ASSUME ClientInv, NEW c \in Clients, Check(c) \/ RsCheck(c)
  PROVE  /\ ClientInv'
         /\ \E verdict \in Results :
              /\ result' = [result EXCEPT ![Now(c)] = verdict]
              /\ result[Now(c)] = "pending" /\ Now(c) \in Calls
              /\ Outcome(verdict) \in {"success", "refused", "unknown"}
              /\ Outcome(verdict) = "success" => effects[Now(c)] = 1
              /\ Outcome(verdict) = "refused" => Untouched(Now(c))
<1>1. /\ In(c, "check") /\ call[c] \in Frames /\ FrameOK(c)
      /\ reply[c] \in {"none", "reply", "error_reply"}
      /\ count[c] # 0 /\ result[Now(c)] = "pending"
  BY DEF Check, RsCheck, ClientInv, ClientTypeOK, FrameInv, CallInv, In
<1>2. Now(c) \in Calls
  BY <1>1, NowType DEF ClientInv
<1>3. PICK verdict \in Verdicts(c) \cup RsVerdicts(c) :
        result' = [result EXCEPT ![Now(c)] = verdict]
  BY DEF Check, RsCheck
<1>4. /\ verdict \in Results
      /\ Outcome(verdict) \in {"success", "refused", "unknown"}
      /\ Outcome(verdict) = "success" => effects[Now(c)] = 1
      /\ Outcome(verdict) = "refused" => Untouched(Now(c))
  <2>1. CASE reply[c] = "none"
    <3>1. verdict \in {call[c].status, "request_processing"}
      BY <2>1, <1>3 DEF Verdicts, RsVerdicts, Reported
    <3> QED
      BY <1>1, <2>1, <3>1 DEF FrameOK, Outcome, Refusals, Results, Frames, Statuses
  <2>2. CASE reply[c] = "error_reply"
    BY <1>3, <2>2 DEF Verdicts, RsVerdicts, Outcome, Results, Refusals
  <2>3. CASE reply[c] = "reply"
    <3>1. verdict \in {"success", "corrupted_reply"}
      BY <1>3, <2>3 DEF Verdicts, RsVerdicts
    <3> QED
      BY <1>1, <2>3, <3>1 DEF FrameOK, Outcome, Results, Refusals, Statuses
  <2> QED
    BY <1>1, <2>1, <2>2, <2>3
<1>5. /\ call' = [call EXCEPT ![c] = Returned] /\ reply' = [reply EXCEPT ![c] = "none"]
      /\ UNCHANGED <<count, daemon, inbox, effects>>
  BY DEF Check, RsCheck
<1>6. ClientTypeOK'
  BY <1>3, <1>4, <1>5, ReturnedType DEF ClientInv, ClientTypeOK
<1>7. MessageInv'
  BY <1>5 DEF ClientInv, MessageInv
<1>8. ResultInv'
  <2>1. \A j \in Calls : result'[j] = IF j = Now(c) THEN verdict ELSE result[j]
    BY <1>3 DEF ClientInv, ClientTypeOK
  <2> QED
    BY <1>2, <1>4, <1>5, <2>1 DEF ClientInv, ResultInv, Untouched, Sent
<1>9. \A d \in Clients \ {c} : /\ call'[d] = call[d] /\ reply'[d] = reply[d]
                              /\ Now(d)' = Now(d) /\ Now(d) # Now(c)
  BY <1>5 DEF ClientInv, ClientTypeOK, Now
<1>10. CallInv'
  <2>1. ASSUME NEW d \in Clients, NEW n \in (count'[d] + 1)..MaxCalls
        PROVE  result'[<<d, n>>] = "none"
    <3>1. <<d, n>> # Now(c) /\ <<d, n>> \in Calls /\ result[<<d, n>>] = "none"
      <4>1. n \in (count[d] + 1)..MaxCalls /\ count[d] \in Nat
        BY <1>5, <2>1, ClientAssumption DEF ClientInv, ClientTypeOK
      <4>2. <<d, n>> \in Calls /\ n # count[d]
        BY <4>1, ClientAssumption
      <4> QED
        BY <4>1, <4>2, ZenonT(30) DEF ClientInv, CallInv, Now
    <3> QED
      BY <1>3, <3>1 DEF ClientInv, ClientTypeOK
  <2>2. ASSUME NEW d \in Clients, ~In(d, "idle")'
        PROVE  count'[d] # 0 /\ result'[Now(d)'] = "pending"
    <3>1. d # c
      BY <1>5, <2>2 DEF In, Returned, ClientInv, ClientTypeOK
    <3>2. ~In(d, "idle") /\ count[d] # 0 /\ result[Now(d)] = "pending"
      BY <1>9, <2>2, <3>1 DEF In, ClientInv, CallInv
    <3>3. Now(d) \in Calls
      BY <3>2, NowType DEF ClientInv
    <3> QED
      BY <1>3, <1>5, <1>9, <3>1, <3>2, <3>3 DEF ClientInv, ClientTypeOK
  <2> QED
    BY <2>1, <2>2 DEF CallInv
<1>11. FrameOK(c)'
  BY <1>5 DEF ClientInv, ClientTypeOK, FrameOK, Returned, In, Trying
<1>12. ASSUME NEW d \in Clients, d # c
       PROVE  FrameOK(d)'
  BY <1>5, <1>9, <1>12 DEF ClientInv, FrameInv, FrameOK, In, Untouched, Sent
<1> QED
  BY <1>1, <1>2, <1>3, <1>4, <1>6, <1>7, <1>8, <1>10, <1>11, <1>12 DEF ClientInv, FrameInv

\* The request of m takes effect, or not; its call is one of which the caller
\* knows nothing.
LEMMA ExecuteInv ==
  ASSUME ClientInv, NEW m \in inbox, Execute(m)
  PROVE  /\ ClientInv'
         /\ m.call \in Calls /\ Outcome(result[m.call]) \in {"pending", "unknown"}
         /\ effects[m.call] = 0
         /\ effects' \in {effects, [effects EXCEPT ![m.call] = 1]}
<1> DEFINE k == m.call
<1>1. /\ m \in Requests /\ k \in Calls /\ effects[k] = 0 /\ Sent(k)
      /\ \A n \in inbox : n.call = k => n = m
  BY DEF ClientInv, ClientTypeOK, MessageInv, Sent, Requests
<1>2. Outcome(result[k]) \in {"pending", "unknown"}
  <2>1. Outcome(result[k]) \notin {"none", "refused", "success"}
    BY <1>1 DEF ClientInv, ResultInv, Untouched
  <2> QED
    BY <2>1 DEF Outcome
<1>3. PICK effect \in BOOLEAN, kind \in {"reply", "error_reply"} :
        /\ kind = "reply" => effect
        /\ effects' = [effects EXCEPT ![k] = IF effect THEN @ + 1 ELSE @]
        /\ reply' = IF Waits(m) THEN [reply EXCEPT ![k[1]] = kind] ELSE reply
  BY DEF Execute
<1>4. inbox' = inbox \ {m} /\ UNCHANGED <<call, count, daemon, result>>
  BY DEF Execute
<1>5. /\ effects' \in [Calls -> Nat]
      /\ effects'[k] = IF effect THEN 1 ELSE 0
      /\ \A j \in Calls \ {k} : effects'[j] = effects[j]
  BY <1>1, <1>3 DEF ClientInv, ClientTypeOK
<1>6. ~Sent(k)' /\ \A j \in Calls : Sent(j)' => Sent(j)
  BY <1>1, <1>4 DEF Sent
<1>7. k[1] \in Clients
  BY <1>1
<1>8. ClientTypeOK'
  BY <1>3, <1>4, <1>5, <1>7 DEF ClientInv, ClientTypeOK
<1>9. MessageInv'
  BY <1>1, <1>4, <1>5 DEF ClientInv, ClientTypeOK, MessageInv, Requests
<1>10. ResultInv'
  BY <1>1, <1>2, <1>4, <1>5, <1>6 DEF ClientInv, ResultInv, Untouched
<1>11. CallInv'
  BY <1>4 DEF ClientInv, CallInv, In, Now
<1>12. ASSUME NEW c \in Clients
       PROVE  FrameOK(c)'
  <2>1. /\ FrameOK(c) /\ Now(c)' = Now(c) /\ call'[c] = call[c]
    BY <1>4 DEF ClientInv, FrameInv, Now
  <2>2. CASE Now(c) = k
    <3>1. /\ call[c].pc \notin Trying /\ reply[c] = "none"
          /\ ~(In(c, "check") /\ call[c].status \in Refusals)
      BY <1>1, <2>1, <2>2 DEF FrameOK, Untouched
    <3>2. c = k[1] /\ (Waits(m) => In(c, "receive"))
      BY <2>2 DEF Now, Waits
    <3>3. reply'[c] = IF Waits(m) THEN kind ELSE "none"
      BY <1>3, <1>7, <3>1, <3>2 DEF ClientInv, ClientTypeOK
    <3> QED
      BY <1>3, <1>5, <1>6, <2>1, <2>2, <3>1, <3>2, <3>3 DEF FrameOK, In, Trying, Untouched
  <2>3. CASE Now(c) # k
    <3>1. reply'[c] = reply[c]
      BY <1>3, <1>7, <2>3 DEF Waits, ClientInv, ClientTypeOK
    <3>2. CASE count[c] = 0
      <4>1. In(c, "idle") /\ reply[c] = "none"
        BY <2>1, <3>2 DEF ClientInv, CallInv, FrameOK, In
      <4> QED
        BY <2>1, <3>1, <4>1 DEF FrameOK, In, Trying
    <3>3. CASE count[c] # 0
      <4>1. Now(c) \in Calls \ {k}
        BY <2>3, <3>3, NowType DEF ClientInv
      <4> QED
        BY <1>5, <1>6, <2>1, <3>1, <4>1 DEF FrameOK, In, Untouched
    <3> QED
      BY <3>2, <3>3
  <2> QED
    BY <2>2, <2>3
<1>13. effects' \in {effects, [effects EXCEPT ![k] = 1]}
  <2>1. CASE effect
    BY <1>1, <1>3, <2>1
  <2>2. CASE ~effect
    BY <1>1, <1>3, <2>2 DEF ClientInv, ClientTypeOK
  <2> QED
    BY <2>1, <2>2
<1> QED
  BY <1>1, <1>2, <1>8, <1>9, <1>10, <1>11, <1>12, <1>13 DEF ClientInv, FrameInv

LEMMA BrokenType ==
  ASSUME NEW f \in Frames, NEW broken \in BOOLEAN
  PROVE  [f EXCEPT !.broken = broken] \in Frames
BY DEF Frames

LEMMA DaemonInv ==
  ASSUME ClientInv, NEW s \in Servers, Stop(s) \/ Start(s) \/ Hang(s)
  PROVE  ClientInv' /\ UNCHANGED <<result, effects>>
<1>1. /\ inbox' \subseteq inbox /\ UNCHANGED <<count, reply, result, effects>>
      /\ daemon' \in [Servers -> {"up", "down", "hung"}]
  BY DEF Stop, Start, Hang, history, ClientInv, ClientTypeOK
<1>2. /\ call' \in [Clients -> Frames]
      /\ \A c \in Clients : /\ call'[c].pc = call[c].pc /\ call'[c].retry = call[c].retry
                            /\ call'[c].status = call[c].status
  <2>1. CASE Stop(s)
    <3>1. ASSUME NEW c \in Clients
          PROVE  [call[c] EXCEPT !.broken = @ \/ Connected(c, s)] \in Frames
      <4>1. (call[c].broken \/ Connected(c, s)) \in BOOLEAN
        OBVIOUS
      <4>2. call[c] \in Frames
        BY DEF ClientInv, ClientTypeOK
      <4> QED
        BY <4>1, <4>2, BrokenType
    <3> QED
      BY <2>1, <3>1 DEF Stop, ClientInv, ClientTypeOK, Frames
  <2>2. CASE Start(s) \/ Hang(s)
    BY <2>2 DEF Start, Hang, ClientInv, ClientTypeOK
  <2> QED
    BY <2>1, <2>2
<1>3. ClientTypeOK'
  BY <1>1, <1>2 DEF ClientInv, ClientTypeOK
<1>4. MessageInv' /\ ResultInv' /\ CallInv'
  BY <1>1, <1>2 DEF ClientInv, MessageInv, ResultInv, CallInv, Untouched, Sent, In, Now
<1>5. FrameInv'
  BY <1>1, <1>2 DEF ClientInv, FrameInv, FrameOK, Untouched, Sent, In, Now
<1> QED
  BY <1>1, <1>3, <1>4, <1>5 DEF ClientInv

----------------------------------------------------------------------------
(* Every step of a client or a daemon is a step of Rpc, or changes nothing *)
(* that Rpc speaks of.                                                     *)

\* The steps of both libraries, and of what they talk to.
AnyStep ==
  \/ \E c \in Clients : (\E o \in Ops : Begin(c, o)) \/ Moves(c) \/ Send(c) \/ Check(c) \/ RsCheck(c)
  \/ Serve
  \/ \E s \in Servers : Stop(s) \/ Start(s) \/ Hang(s)
  \/ UNCHANGED clientVars

\* The library in Rust repeats the steps of the one in C but for the loops, the
\* errors of the initialisation and the verdict.
LEMMA BothLibraries == [ClientNext]_clientVars \/ [LibsNext]_libsVars => AnyStep
<1>1. ASSUME NEW c \in Clients, ClientStep(c) PROVE AnyStep
  BY <1>1 DEF ClientStep, AnyStep, Moves
<1>2. ASSUME NEW c \in Clients, RsStep(c) PROVE AnyStep
  BY <1>2 DEF RsStep, AnyStep, Moves, RsConnect, RsAuthenticate, RsSend, RsReceive, RsLoad, RsRetry,
              RsReturn, ConnectFails, AuthenticateFails, SendFails, ReceiveFails, Load
<1>3. ASSUME NEW c \in Clients, RsBegin(c) PROVE AnyStep
  BY <1>3 DEF RsBegin, RsOps, AnyStep
<1> QED
  BY <1>1, <1>2, <1>3, Zenon DEF ClientNext, LibsNext, libsVars, AnyStep, Moves

LEMMA StepImplements ==
  ASSUME ClientInv, AnyStep
  PROVE  ClientInv' /\ [Promise!RpcNext]_(Promise!rpcVars)
<1>0. /\ result \in [Calls -> Results] /\ effects \in [Calls -> Nat]
  BY DEF ClientInv, ClientTypeOK
<1> USE DEF Promise!rpcVars
<1>1. ASSUME NEW c \in Clients, NEW o \in Ops, Begin(c, o)
      PROVE  ClientInv' /\ [Promise!RpcNext]_(Promise!rpcVars)
  <2> DEFINE k == <<c, count[c] + 1>>
  <2>1. ClientInv'
    BY <1>1, BeginInv
  <2>2. k \in Calls /\ result[k] = "none"
    <3>1. count[c] \in 0..MaxCalls /\ count[c] < MaxCalls
      BY <1>1 DEF Begin, ClientInv, ClientTypeOK
    <3>2. k \in Calls /\ count[c] + 1 \in (count[c] + 1)..MaxCalls
      BY <3>1, ClientAssumption
    <3> QED
      BY <3>2 DEF ClientInv, CallInv
  <2>3. result' = [result EXCEPT ![k] = "pending"] /\ effects' = effects
    BY <1>1 DEF Begin
  <2>4. Outcome("none") = "none" /\ Outcome("pending") = "pending"
    BY DEF Outcome
  <2>5. Promise!Invoke(k)
    BY <1>0, <2>2, <2>3, <2>4 DEF Promise!Invoke
  <2> QED
    BY <2>1, <2>2, <2>5 DEF Promise!RpcNext
<1>2. ASSUME NEW c \in Clients, Moves(c)
      PROVE  ClientInv' /\ [Promise!RpcNext]_(Promise!rpcVars)
  <2>1. ClientInv' /\ UNCHANGED <<result, effects>>
    BY <1>2, MoveInv, MoveFrame DEF history
  <2> QED
    BY <2>1
<1>3. ASSUME NEW c \in Clients, Send(c)
      PROVE  ClientInv' /\ [Promise!RpcNext]_(Promise!rpcVars)
  <2>1. ClientInv' /\ UNCHANGED <<result, effects>>
    BY <1>3, SendInv DEF Send, history
  <2> QED
    BY <2>1
<1>4. ASSUME NEW c \in Clients, Check(c) \/ RsCheck(c)
      PROVE  ClientInv' /\ [Promise!RpcNext]_(Promise!rpcVars)
  <2>1. ClientInv'
    BY <1>4, CheckInv
  <2>2. PICK verdict \in Results :
          /\ result' = [result EXCEPT ![Now(c)] = verdict]
          /\ result[Now(c)] = "pending" /\ Now(c) \in Calls
          /\ Outcome(verdict) \in {"success", "refused", "unknown"}
          /\ Outcome(verdict) = "success" => effects[Now(c)] = 1
          /\ Outcome(verdict) = "refused" => Untouched(Now(c))
    BY <1>4, CheckInv
  <2>3. Outcome("pending") = "pending" /\ effects' = effects
    BY <1>4 DEF Outcome, Check, RsCheck
  <2>4. Promise!Return(Now(c), Outcome(verdict))
    BY <1>0, <2>2, <2>3 DEF Promise!Return, Untouched
  <2> QED
    BY <2>1, <2>2, <2>4 DEF Promise!RpcNext
<1>5. ASSUME NEW m \in inbox, Execute(m)
      PROVE  ClientInv' /\ [Promise!RpcNext]_(Promise!rpcVars)
  <2>1. /\ ClientInv'
        /\ m.call \in Calls /\ Outcome(result[m.call]) \in {"pending", "unknown"}
        /\ effects[m.call] = 0
        /\ effects' \in {effects, [effects EXCEPT ![m.call] = 1]}
        /\ result' = result
    BY <1>5, ExecuteInv DEF Execute
  <2>2. CASE effects' = effects
    BY <2>1, <2>2
  <2>3. CASE effects' = [effects EXCEPT ![m.call] = 1]
    <3>1. Promise!Effect(m.call)
      BY <2>1, <2>3 DEF Promise!Effect
    <3> QED
      BY <2>1, <3>1 DEF Promise!RpcNext
  <2> QED
    BY <2>1, <2>2, <2>3
<1>6. ASSUME NEW s \in Servers, Stop(s) \/ Start(s) \/ Hang(s)
      PROVE  ClientInv' /\ [Promise!RpcNext]_(Promise!rpcVars)
  <2>1. ClientInv' /\ UNCHANGED <<result, effects>>
    BY <1>6, DaemonInv
  <2> QED
    BY <2>1
<1>7. CASE UNCHANGED clientVars
  BY <1>7 DEF clientVars, ClientInv, ClientTypeOK, MessageInv, ResultInv, CallInv, FrameInv, FrameOK,
              Untouched, Sent, In, Now
<1> QED
  BY <1>1, <1>2, <1>3, <1>4, <1>5, <1>6, <1>7 DEF AnyStep, Serve

LEMMA InitImplements == ClientInit => Promise!RpcInit
BY DEF ClientInit, Promise!RpcInit, Outcome

\* Only the client itself, with its request, comes to wait for a reply.
LEMMA ExpectedNext ==
  ASSUME ClientInv, Expected, AnyStep
  PROVE  Expected'
<1> DEFINE message(c) == [call |-> Now(c), server |-> call[c].server]
<1> SUFFICES ASSUME NEW c \in Clients, In(c, "receive")', ~call'[c].broken
             PROVE  reply'[c] # "none" \/ message(c)' \in inbox'
  BY DEF Expected
<1>1. /\ call \in [Clients -> Frames] /\ reply \in [Clients -> {"none", "reply", "error_reply"}]
      /\ inbox \subseteq Requests
  BY DEF ClientInv, ClientTypeOK
<1>2. ASSUME call'[c] = call[c], count'[c] = count[c], reply'[c] = reply[c], inbox \subseteq inbox'
      PROVE  reply'[c] # "none" \/ message(c)' \in inbox'
  BY <1>2 DEF Expected, In, Now
<1>3. ASSUME NEW d \in Clients, NEW o \in Ops, Begin(d, o)
      PROVE  reply'[c] # "none" \/ message(c)' \in inbox'
  <2>1. c # d
    BY <1>1, <1>3 DEF Begin, In, Returned
  <2> QED
    BY <1>1, <1>2, <1>3, <2>1 DEF Begin, network
<1>4. ASSUME NEW d \in Clients, Moves(d)
      PROVE  reply'[c] # "none" \/ message(c)' \in inbox'
  <2>1. /\ \E g \in Frames : call' = [call EXCEPT ![d] = g]
        /\ reply' \in {reply, [reply EXCEPT ![d] = "none"]}
        /\ ~In(d, "receive")' \/ call'[d].broken
        /\ UNCHANGED <<count, daemon, inbox, history>>
    BY <1>4, MoveFrame
  <2>2. c # d
    BY <2>1
  <2> QED
    BY <1>1, <1>2, <2>1, <2>2
<1>5. ASSUME NEW d \in Clients, Send(d)
      PROVE  reply'[c] # "none" \/ message(c)' \in inbox'
  <2>1. CASE c = d
    <3>1. /\ call'[c].server = call[c].server /\ call'[c].broken = call[c].broken /\ Now(c)' = Now(c)
          /\ inbox' = IF call[c].broken THEN inbox
                      ELSE inbox \cup {[call |-> Now(c), server |-> call[c].server]}
      BY <1>1, <1>5, <2>1 DEF Send, Goto, Now, Frames
    <3> QED
      BY <3>1
  <2>2. CASE c # d
    BY <1>1, <1>2, <1>5, <2>2 DEF Send, Goto
  <2> QED
    BY <2>1, <2>2
<1>6. ASSUME NEW d \in Clients, Check(d) \/ RsCheck(d)
      PROVE  reply'[c] # "none" \/ message(c)' \in inbox'
  <2>1. /\ call' = [call EXCEPT ![d] = Returned] /\ reply' = [reply EXCEPT ![d] = "none"]
        /\ UNCHANGED <<count, inbox>>
    BY <1>6 DEF Check, RsCheck
  <2>2. c # d
    BY <1>1, <2>1 DEF In, Returned
  <2> QED
    BY <1>1, <1>2, <2>1, <2>2
<1>7. ASSUME NEW m \in inbox, Execute(m)
      PROVE  reply'[c] # "none" \/ message(c)' \in inbox'
  <2>1. PICK kind \in {"reply", "error_reply"} :
          reply' = IF Waits(m) THEN [reply EXCEPT ![m.call[1]] = kind] ELSE reply
    BY <1>7 DEF Execute
  <2>2. call' = call /\ count' = count /\ inbox' = inbox \ {m}
    BY <1>7 DEF Execute
  <2>3. reply[c] # "none" \/ message(c) \in inbox
    BY <2>2 DEF Expected, In, Now
  <2>4. reply[c] # "none" => reply'[c] # "none"
    BY <1>1, <2>1
  <2>5. CASE message(c) = m
    <3>1. m.call = Now(c) /\ m.call[1] = c
      BY <2>5 DEF Now
    <3>2. Waits(m)
      BY <2>2, <3>1 DEF Waits, In
    <3> QED
      BY <1>1, <2>1, <3>1, <3>2
  <2>6. CASE message(c) # m
    BY <2>2, <2>3, <2>4, <2>6 DEF Now
  <2> QED
    BY <2>5, <2>6
<1>8. ASSUME NEW s \in Servers, Stop(s)
      PROVE  reply'[c] # "none" \/ message(c)' \in inbox'
  <2>1. /\ count' = count /\ reply' = reply /\ inbox' = {m \in inbox : m.server # s}
        /\ call'[c] = [call[c] EXCEPT !.broken = @ \/ Connected(c, s)]
    BY <1>8 DEF Stop
  <2>2. /\ call'[c].pc = call[c].pc /\ call'[c].server = call[c].server
        /\ ~call[c].broken /\ ~Connected(c, s)
    <3>1. call[c] \in Frames
      BY <1>1
    <3>2. call'[c].broken = (call[c].broken \/ Connected(c, s))
      BY <2>1, <3>1 DEF Frames
    <3> QED
      BY <2>1, <3>1, <3>2 DEF Frames
  <2>3. call[c].server # s
    BY <2>2 DEF In, Connected
  <2>4. reply[c] # "none" \/ message(c) \in inbox
    BY <2>2 DEF Expected, In
  <2>5. message(c)' = message(c)
    BY <2>1, <2>2 DEF Now
  <2> QED
    BY <2>1, <2>3, <2>4, <2>5
<1>9. ASSUME NEW s \in Servers, Start(s) \/ Hang(s)
      PROVE  reply'[c] # "none" \/ message(c)' \in inbox'
  BY <1>2, <1>9 DEF Start, Hang
<1>10. CASE UNCHANGED clientVars
  BY <1>2, <1>10 DEF clientVars
<1> QED
  BY <1>3, <1>4, <1>5, <1>6, <1>7, <1>8, <1>9, <1>10 DEF AnyStep, Serve

LEMMA InitExpected == ClientInit => Expected
BY DEF ClientInit, Expected, In, Returned

\* In every reachable state a request has taken effect once at most, has done
\* so if its call succeeded, and is neither executed nor under way if its call
\* was refused: auks_api_request turns to another daemon only before sending.
THEOREM CallsInvariant == ClientSpec => []ClientInv
<1>1. ClientInit => ClientInv
  BY InitInv
<1>2. ClientInv /\ [ClientNext]_clientVars => ClientInv'
  BY StepImplements, BothLibraries
<1> QED
  BY <1>1, <1>2, PTL DEF ClientSpec

\* The same of the two libraries in C and in Rust (Client::request), whichever
\* is configured, with one daemon or two.
THEOREM LibsInvariant == LibsSpec => []ClientInv
<1>1. LibsInit => ClientInv
  BY InitInv DEF LibsInit
<1>2. ClientInv /\ [LibsNext]_libsVars => ClientInv'
  BY StepImplements, BothLibraries
<1> QED
  BY <1>1, <1>2, PTL DEF LibsSpec

\* A call of the library in C keeps the promise of Rpc.
THEOREM ClientImplementsRpc == ClientSpec => ImplementsRpc
<1>1. ClientInit => Promise!RpcInit
  BY InitImplements
<1>2. ClientInv /\ [ClientNext]_clientVars => [Promise!RpcNext]_(Promise!rpcVars)
  BY StepImplements, BothLibraries
<1>3. ClientSpec => []ClientInv
  BY CallsInvariant
<1> QED
  BY <1>1, <1>2, <1>3, PTL DEF ClientSpec, ImplementsRpc, Promise!RpcSpec

\* So does a call of either library.
THEOREM LibsImplementRpc == LibsSpec => ImplementsRpc
<1>1. LibsInit => Promise!RpcInit
  BY InitImplements DEF LibsInit
<1>2. ClientInv /\ [LibsNext]_libsVars => [Promise!RpcNext]_(Promise!rpcVars)
  BY StepImplements, BothLibraries
<1>3. LibsSpec => []ClientInv
  BY LibsInvariant
<1> QED
  BY <1>1, <1>2, <1>3, PTL DEF LibsSpec, ImplementsRpc, Promise!RpcSpec

\* A client that waits for a reply, and has not lost its connection, has its
\* request at the daemon or the reply on its way: auks_api_request waits for
\* nothing that it has not asked for.
THEOREM NothingAwaitedInVain == LibsSpec => []Expected
<1>1. LibsInit => Expected
  BY InitExpected DEF LibsInit
<1>2. ClientInv /\ Expected /\ [LibsNext]_libsVars => Expected'
  BY ExpectedNext, BothLibraries
<1>3. LibsSpec => []ClientInv
  BY LibsInvariant
<1> QED
  BY <1>1, <1>2, <1>3, PTL DEF LibsSpec
=============================================================================
