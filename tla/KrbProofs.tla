------------------------------ MODULE KrbProofs ------------------------------
(***************************************************************************)
(* Proofs about Krb, for any caches, any credentials and any bound on the  *)
(* life of a ticket: what the functions of auks_krb5_cred.c hold and       *)
(* release, what they make of a cache and of a credential, and that the    *)
(* error paths of auks_krb5_stream.c and of its callers are balanced.      *)
(*                                                                         *)
(* A function is a sequence of calls.  Held says what it holds before each *)
(* of them when no earlier one has failed, and FunctionOK that this fits   *)
(* its calls, and its labels.  What is left to prove is that a function    *)
(* that runs is where the table says.                                      *)
(***************************************************************************)
EXTENDS Krb, SequenceTheorems, TLAPS

----------------------------------------------------------------------------
(* What a function holds                                                   *)

\* Before each of its calls, and when it is through.
GetHeld ==
  << {}, {"ctx"}, {"ctx", "cc"}, {"ctx", "cc", "cursor"}, {"ctx", "cc", "cursor", "princ"},
     {"ctx", "cc", "cursor", "princ"}, {"ctx", "cc", "princ"}, {"ctx", "cc", "princ"},
     {"ctx", "cc", "princ", "actx"}, {"ctx", "cc", "princ", "actx", "data"},
     {"ctx", "cc", "princ", "actx", "data", "buffer"} >>

StoreHeld ==
  << {}, {"ctx"}, {"ctx", "actx"}, {"ctx", "actx", "creds"}, {"ctx", "actx", "creds", "cc"},
     {"ctx", "actx", "creds", "cc"}, {"ctx", "actx", "creds", "cc"} >>

GetFwdHeld ==
  << {}, {"ctx"}, {"ctx", "cc"}, {"ctx", "cc", "princ"}, {"ctx", "cc", "princ", "actx"},
     {"ctx", "cc", "princ", "actx", "fwd"}, {"ctx", "cc", "princ", "actx", "fwd", "creds"},
     {"ctx", "cc", "princ", "fwd", "creds"}, {"ctx", "cc", "princ", "fwd", "creds", "actx"},
     {"ctx", "cc", "princ", "fwd", "creds", "actx", "data"},
     {"ctx", "cc", "princ", "fwd", "creds", "actx", "data", "buffer"} >>

RenewHeld ==
  << {}, {"ctx"}, {"ctx", "cc"}, {"ctx", "cc", "princ"}, {"ctx", "cc", "princ", "cursor"},
     {"ctx", "cc", "princ", "cursor"}, {"ctx", "cc", "princ"}, {"ctx", "cc", "princ"},
     {"ctx", "cc", "princ"}, {"ctx", "cc", "princ", "client"},
     {"ctx", "cc", "princ", "client", "server"},
     {"ctx", "cc", "princ", "client", "server", "reply"},
     {"ctx", "cc", "princ", "client", "server"} >>

RenewBufferHeld ==
  << {}, {"ctx"}, {"ctx", "actx"}, {"ctx", "actx", "creds"}, {"ctx", "actx", "creds"},
     {"ctx", "actx", "creds", "client"}, {"ctx", "actx", "creds", "client", "server"},
     {"ctx", "actx", "creds", "client", "server", "reply"},
     {"ctx", "actx", "creds", "client", "server", "reply", "data"},
     {"ctx", "actx", "creds", "client", "server", "reply", "data", "buffer"} >>

CrossRealmBufferHeld ==
  << {}, {"ctx"}, {"ctx", "actx"}, {"ctx", "actx", "creds"}, {"ctx", "actx", "creds", "client"},
     {"ctx", "actx", "creds", "client", "server"},
     {"ctx", "actx", "creds", "client", "server", "reply"},
     {"ctx", "actx", "creds", "client", "server", "reply", "data"},
     {"ctx", "actx", "creds", "client", "server", "reply", "data", "buffer"} >>

DeladdrBufferHeld ==
  << {}, {"ctx"}, {"ctx", "actx"}, {"ctx", "actx", "creds"}, {"ctx", "actx", "creds"},
     {"ctx", "actx", "creds", "client"}, {"ctx", "actx", "creds", "client", "server"},
     {"ctx", "actx", "creds", "client", "server", "reply"},
     {"ctx", "actx", "creds", "client", "server", "reply", "data"},
     {"ctx", "actx", "creds", "client", "server", "reply", "data", "buffer"} >>

NewUniqueHeld ==
  << {}, {"ctx"}, {"ctx", "cc"}, {"ctx", "cc"}, {"ctx", "cc", "name"}, {"ctx", "name"} >>

SwitchHeld ==
  << {}, {"ctx"}, {"ctx", "cc"}, {"ctx", "cc"} >>

DestroyHeld ==
  << {}, {"ctx"}, {"ctx", "cc"}, {"ctx"} >>

Held ==
  [f \in AllFns |->
    CASE f = "get" -> GetHeld
      [] f = "store" -> StoreHeld
      [] f = "get_fwd" -> GetFwdHeld
      [] f = "renew" -> RenewHeld
      [] f = "renew_buffer" -> RenewBufferHeld
      [] f = "cross_realm_buffer" -> CrossRealmBufferHeld
      [] f = "deladdr_buffer" -> DeladdrBufferHeld
      [] f = "cc_new_unique" -> NewUniqueHeld
      [] f = "cc_switch" -> SwitchHeld
      [] f = "cc_destroy" -> DestroyHeld]

\* From, of the body of any function.
Freed(body, label) ==
  LET k == CHOOSE i \in DOMAIN body.labels : body.labels[i].name = label
  IN  UNION {body.labels[i].frees : i \in k .. Len(body.labels)}

\* The tickets that get and renew read and copy, as many as there are in the cache.
Copies == {"read", "tgt", "cross"}

\* What a call does to the resources of its function when it succeeds, and when it fails.
Gains(c) == c.op \in {"take", "kdc", "mk_ncred", "mk_1cred"}
Loses(c) == c.op \in {"drop", "destroy"}

After(c, H) == IF Gains(c) THEN H \cup {c.res} ELSE IF Loses(c) THEN H \ {c.res} ELSE H

Failed(c, H) == IF c.op = "destroy" THEN H \ {"cc"} ELSE H

\* Where the calls are that change a cache, or what has been found so far.
Placed(f, k, c) ==
  /\ c.op = "read" => f \in {"get", "renew"} /\ k = 5
  /\ f \in {"get", "renew"} => (c.op = "found" <=> k = 7)
  /\ c.op = "kdc" <=> <<f, k>> \in {<<"renew", 11>>, <<"renew_buffer", 7>>, <<"deladdr_buffer", 7>>,
                                   <<"cross_realm_buffer", 6>>}
  /\ c.op = "mk_1cred" <=> <<f, k>> \in {<<"renew_buffer", 8>>, <<"deladdr_buffer", 8>>}
  /\ c.op = "mk_ncred" <=> <<f, k>> \in {<<"get", 9>>, <<"cross_realm_buffer", 7>>}
  /\ c.op = "initialize" <=> <<f, k>> = <<"store", 5>>
  /\ c.op = "store_cred" <=> <<f, k>> = <<"store", 6>>
  /\ c.op = "destroy" => f = "cc_destroy"
  /\ <<f, k>> = <<"get", 3>> => c.op = "take" /\ c.res = "cursor"
  /\ <<f, k>> = <<"renew", 3>> => c.op = "take" /\ c.res = "princ"

\* A call leads to what the table says next, and its failure releases what is held.
CallOK(f, k) ==
  LET c == BodyOf[f].calls[k]
      H == Held[f][k]
      freed == Freed(BodyOf[f], c.label)
  IN  /\ Held[f][k + 1] = After(c, H)
      /\ Gains(c) \/ Loses(c) => c.res \notin Copies /\ c.res # "none"
      /\ c.op = "kdc" => c.res = "reply"
      /\ c.op \in {"mk_ncred", "mk_1cred"} => c.res = "data"
      /\ c.op = "destroy" => c.res = "cc"
      /\ Placed(f, k, c)
      /\ f \notin Leaky =>
           /\ c.label # "none" => Failed(c, H) \subseteq freed
           /\ Gains(c) => c.res \notin H
      /\ f \notin Careless =>
           /\ c.label # "none" => freed \subseteq Failed(c, H) \cup BodyOf[f].null
           /\ c.op = "drop" => c.res \in H \cup BodyOf[f].null

\* The functions that hand a buffer over.
Getters == {"get", "get_fwd", "renew_buffer", "deladdr_buffer", "cross_realm_buffer"}

\* So does the return.
ExitOK(f) ==
  LET H == Held[f][Len(BodyOf[f].calls) + 1] \ {"buffer"}
      freed == Freed(BodyOf[f], BodyOf[f].end)
  IN  /\ f \notin Leaky => H \subseteq freed
      /\ f \notin Careless => freed \subseteq H \cup BodyOf[f].null
      /\ "buffer" \in Held[f][Len(BodyOf[f].calls) + 1] <=> f \in Getters

FunctionOK(f) ==
  /\ Len(BodyOf[f].calls) \in Nat
  /\ Held[f][1] = {}
  /\ \A k \in 1 .. Len(BodyOf[f].calls) : CallOK(f, k)
  /\ ExitOK(f)

----------------------------------------------------------------------------
(* The functions, one by one                                               *)

LEMMA GetCalls ==
  /\ LET calls == BodyOf["get"].calls IN
     /\ Len(calls) = 10
     /\ calls[1] = Context /\ calls[2] = Take("cc", "ctx_exit")
     /\ calls[3] = Take("cursor", "cc_exit") /\ calls[4] = Take("princ", "ctx_exit")
     /\ calls[5] = Try("read", "none") /\ calls[6] = Drop("cursor")
     /\ calls[7] = Try("found", "seq_exit") /\ calls[8] = Take("actx", "seq_exit")
     /\ calls[9] = Step("mk_ncred", "data", "auth_ctx_exit")
     /\ calls[10] = Take("buffer", "cred_exit")
  /\ BodyOf["get"].null = {"read", "tgt", "cross"} /\ BodyOf["get"].end = "cred_exit"
  /\ Held["get"][1] = {} /\ Held["get"][2] = {"ctx"} /\ Held["get"][3] = {"ctx", "cc"}
  /\ Held["get"][4] = {"ctx", "cc", "cursor"} /\ Held["get"][5] = {"ctx", "cc", "cursor", "princ"}
  /\ Held["get"][6] = {"ctx", "cc", "cursor", "princ"} /\ Held["get"][7] = {"ctx", "cc", "princ"}
  /\ Held["get"][8] = {"ctx", "cc", "princ"} /\ Held["get"][9] = {"ctx", "cc", "princ", "actx"}
  /\ Held["get"][10] = {"ctx", "cc", "princ", "actx", "data"}
  /\ Held["get"][11] = {"ctx", "cc", "princ", "actx", "data", "buffer"}
BY DEF BodyOf, AllFns, GetBody, Body, Held, GetHeld

LEMMA GetLabels ==
  /\ Freed(BodyOf["get"], "exit") = {} /\ Freed(BodyOf["get"], "ctx_exit") = {"ctx"}
  /\ Freed(BodyOf["get"], "cc_exit") = {"cc", "ctx"}
  /\ Freed(BodyOf["get"], "seq_exit") = {"cross", "read", "tgt", "cc", "ctx"}
  /\ Freed(BodyOf["get"], "auth_ctx_exit") = {"actx", "cross", "read", "tgt", "cc", "ctx"}
  /\ Freed(BodyOf["get"], "cred_exit") = {"data", "actx", "cross", "read", "tgt", "cc", "ctx"}
<1> DEFINE labels == BodyOf["get"].labels
<1>1. /\ DOMAIN labels = 1 .. 6 /\ Len(labels) = 6
      /\ labels[1] = Label("cred_exit", {"data"}) /\ labels[2] = FreeAuthContext
      /\ labels[3] = Label("seq_exit", {"read", "tgt", "cross"})
      /\ labels[4] = Label("cc_exit", {"cc"}) /\ labels[5] = FreeContext /\ labels[6] = Exit
  BY DEF BodyOf, AllFns, GetBody, Body
<1>2. /\ (CHOOSE i \in DOMAIN labels : labels[i].name = "exit") = 6
      /\ (CHOOSE i \in DOMAIN labels : labels[i].name = "ctx_exit") = 5
      /\ (CHOOSE i \in DOMAIN labels : labels[i].name = "cc_exit") = 4
      /\ (CHOOSE i \in DOMAIN labels : labels[i].name = "seq_exit") = 3
      /\ (CHOOSE i \in DOMAIN labels : labels[i].name = "auth_ctx_exit") = 2
      /\ (CHOOSE i \in DOMAIN labels : labels[i].name = "cred_exit") = 1
  BY <1>1 DEF Label, FreeContext, FreeAuthContext, Exit
<1>3. /\ UNION {labels[i].frees : i \in 6 .. 6} = {}
      /\ UNION {labels[i].frees : i \in 5 .. 6} = {"ctx"}
      /\ UNION {labels[i].frees : i \in 4 .. 6} = {"cc", "ctx"}
      /\ UNION {labels[i].frees : i \in 3 .. 6} = {"cross", "read", "tgt", "cc", "ctx"}
      /\ UNION {labels[i].frees : i \in 2 .. 6} = {"actx", "cross", "read", "tgt", "cc", "ctx"}
      /\ UNION {labels[i].frees : i \in 1 .. 6} = {"data", "actx", "cross", "read", "tgt", "cc", "ctx"}
  <2> HIDE DEF labels
  <2> QED
    BY <1>1 DEF Label, FreeContext, FreeAuthContext, Exit
<1> QED
  BY <1>1, <1>2, <1>3 DEF Freed

LEMMA GetChecked == FunctionOK("get")
<1> USE GetCalls, GetLabels
    DEF After, Failed, Gains, Loses, Copies, Leaky, Careless, Context, AuthContext, ReadCred, Copy, Take,
        Try, Drop, Step
<1>1. /\ CallOK("get", 1) /\ CallOK("get", 2) /\ CallOK("get", 3) /\ CallOK("get", 4)
      /\ CallOK("get", 5) /\ CallOK("get", 6) /\ CallOK("get", 7) /\ CallOK("get", 8)
      /\ CallOK("get", 9) /\ CallOK("get", 10)
  BY DEF CallOK, Placed
<1>2. ExitOK("get")
  BY DEF ExitOK, Getters
<1> QED
  BY <1>1, <1>2 DEF FunctionOK

LEMMA StoreCalls ==
  /\ LET calls == BodyOf["store"].calls IN
     /\ Len(calls) = 6
     /\ calls[1] = Context /\ calls[2] = AuthContext /\ calls[3] = ReadCred
     /\ calls[4] = Take("cc", "cred_exit") /\ calls[5] = Try("initialize", "cc_exit")
     /\ calls[6] = Try("store_cred", "cc_exit")
  /\ BodyOf["store"].null = {} /\ BodyOf["store"].end = "cc_exit"
  /\ Held["store"][1] = {} /\ Held["store"][2] = {"ctx"} /\ Held["store"][3] = {"ctx", "actx"}
  /\ Held["store"][4] = {"ctx", "actx", "creds"}
  /\ Held["store"][5] = {"ctx", "actx", "creds", "cc"}
  /\ Held["store"][6] = {"ctx", "actx", "creds", "cc"}
  /\ Held["store"][7] = {"ctx", "actx", "creds", "cc"}
BY DEF BodyOf, AllFns, StoreBody, Body, Held, StoreHeld

LEMMA StoreLabels ==
  /\ Freed(BodyOf["store"], "exit") = {} /\ Freed(BodyOf["store"], "ctx_exit") = {"ctx"}
  /\ Freed(BodyOf["store"], "auth_ctx_exit") = {"actx", "ctx"}
  /\ Freed(BodyOf["store"], "cred_exit") = {"creds", "actx", "ctx"}
  /\ Freed(BodyOf["store"], "cc_exit") = {"cc", "creds", "actx", "ctx"}
<1> DEFINE labels == BodyOf["store"].labels
<1>1. /\ DOMAIN labels = 1 .. 5 /\ Len(labels) = 5
      /\ labels[1] = Label("cc_exit", {"cc"}) /\ labels[2] = Label("cred_exit", {"creds"})
      /\ labels[3] = FreeAuthContext /\ labels[4] = FreeContext /\ labels[5] = Exit
  BY DEF BodyOf, AllFns, StoreBody, Body
<1>2. /\ (CHOOSE i \in DOMAIN labels : labels[i].name = "exit") = 5
      /\ (CHOOSE i \in DOMAIN labels : labels[i].name = "ctx_exit") = 4
      /\ (CHOOSE i \in DOMAIN labels : labels[i].name = "auth_ctx_exit") = 3
      /\ (CHOOSE i \in DOMAIN labels : labels[i].name = "cred_exit") = 2
      /\ (CHOOSE i \in DOMAIN labels : labels[i].name = "cc_exit") = 1
  BY <1>1 DEF Label, FreeContext, FreeAuthContext, Exit
<1>3. /\ UNION {labels[i].frees : i \in 5 .. 5} = {}
      /\ UNION {labels[i].frees : i \in 4 .. 5} = {"ctx"}
      /\ UNION {labels[i].frees : i \in 3 .. 5} = {"actx", "ctx"}
      /\ UNION {labels[i].frees : i \in 2 .. 5} = {"creds", "actx", "ctx"}
      /\ UNION {labels[i].frees : i \in 1 .. 5} = {"cc", "creds", "actx", "ctx"}
  <2> HIDE DEF labels
  <2> QED
    BY <1>1 DEF Label, FreeContext, FreeAuthContext, Exit
<1> QED
  BY <1>1, <1>2, <1>3 DEF Freed

LEMMA StoreChecked == FunctionOK("store")
<1> USE StoreCalls, StoreLabels
    DEF After, Failed, Gains, Loses, Copies, Leaky, Careless, Context, AuthContext, ReadCred, Copy, Take,
        Try, Drop, Step
<1>1. /\ CallOK("store", 1) /\ CallOK("store", 2) /\ CallOK("store", 3) /\ CallOK("store", 4)
      /\ CallOK("store", 5) /\ CallOK("store", 6)
  BY DEF CallOK, Placed
<1>2. ExitOK("store")
  BY DEF ExitOK, Getters
<1> QED
  BY <1>1, <1>2 DEF FunctionOK

LEMMA GetFwdCalls ==
  /\ LET calls == BodyOf["get_fwd"].calls IN
     /\ Len(calls) = 10
     /\ calls[1] = Context /\ calls[2] = Take("cc", "ctx_exit")
     /\ calls[3] = Take("princ", "cc_exit") /\ calls[4] = Take("actx", "princ_exit")
     /\ calls[5] = Take("fwd", "auth_ctx_exit") /\ calls[6] = Take("creds", "fwd_exit")
     /\ calls[7] = Drop("actx") /\ calls[8] = Take("actx", "rd_cred_exit")
     /\ calls[9] = Take("data", "rd_cred_exit") /\ calls[10] = Take("buffer", "free_data")
  /\ BodyOf["get_fwd"].null = {"actx"} /\ BodyOf["get_fwd"].end = "free_data"
  /\ Held["get_fwd"][1] = {} /\ Held["get_fwd"][2] = {"ctx"} /\ Held["get_fwd"][3] = {"ctx", "cc"}
  /\ Held["get_fwd"][4] = {"ctx", "cc", "princ"}
  /\ Held["get_fwd"][5] = {"ctx", "cc", "princ", "actx"}
  /\ Held["get_fwd"][6] = {"ctx", "cc", "princ", "actx", "fwd"}
  /\ Held["get_fwd"][7] = {"ctx", "cc", "princ", "actx", "fwd", "creds"}
  /\ Held["get_fwd"][8] = {"ctx", "cc", "princ", "fwd", "creds"}
  /\ Held["get_fwd"][9] = {"ctx", "cc", "princ", "fwd", "creds", "actx"}
  /\ Held["get_fwd"][10] = {"ctx", "cc", "princ", "fwd", "creds", "actx", "data"}
  /\ Held["get_fwd"][11] = {"ctx", "cc", "princ", "fwd", "creds", "actx", "data", "buffer"}
BY DEF BodyOf, AllFns, GetFwdBody, Body, Held, GetFwdHeld

LEMMA GetFwdLabels ==
  /\ Freed(BodyOf["get_fwd"], "exit") = {} /\ Freed(BodyOf["get_fwd"], "ctx_exit") = {"ctx"}
  /\ Freed(BodyOf["get_fwd"], "cc_exit") = {"cc", "ctx"}
  /\ Freed(BodyOf["get_fwd"], "princ_exit") = {"princ", "cc", "ctx"}
  /\ Freed(BodyOf["get_fwd"], "auth_ctx_exit") = {"actx", "princ", "cc", "ctx"}
  /\ Freed(BodyOf["get_fwd"], "fwd_exit") = {"fwd", "actx", "princ", "cc", "ctx"}
  /\ Freed(BodyOf["get_fwd"], "rd_cred_exit") = {"creds", "fwd", "actx", "princ", "cc", "ctx"}
  /\ Freed(BodyOf["get_fwd"], "free_data") = {"data", "creds", "fwd", "actx", "princ", "cc", "ctx"}
<1> DEFINE labels == BodyOf["get_fwd"].labels
<1>1. /\ DOMAIN labels = 1 .. 8 /\ Len(labels) = 8
      /\ labels[1] = Label("free_data", {"data"}) /\ labels[2] = Label("rd_cred_exit", {"creds"})
      /\ labels[3] = Label("fwd_exit", {"fwd"}) /\ labels[4] = FreeAuthContext
      /\ labels[5] = Label("princ_exit", {"princ"}) /\ labels[6] = Label("cc_exit", {"cc"})
      /\ labels[7] = FreeContext /\ labels[8] = Exit
  BY DEF BodyOf, AllFns, GetFwdBody, Body
<1>2. /\ (CHOOSE i \in DOMAIN labels : labels[i].name = "exit") = 8
      /\ (CHOOSE i \in DOMAIN labels : labels[i].name = "ctx_exit") = 7
      /\ (CHOOSE i \in DOMAIN labels : labels[i].name = "cc_exit") = 6
      /\ (CHOOSE i \in DOMAIN labels : labels[i].name = "princ_exit") = 5
      /\ (CHOOSE i \in DOMAIN labels : labels[i].name = "auth_ctx_exit") = 4
      /\ (CHOOSE i \in DOMAIN labels : labels[i].name = "fwd_exit") = 3
      /\ (CHOOSE i \in DOMAIN labels : labels[i].name = "rd_cred_exit") = 2
      /\ (CHOOSE i \in DOMAIN labels : labels[i].name = "free_data") = 1
  BY <1>1 DEF Label, FreeContext, FreeAuthContext, Exit
<1>3. /\ UNION {labels[i].frees : i \in 8 .. 8} = {}
      /\ UNION {labels[i].frees : i \in 7 .. 8} = {"ctx"}
      /\ UNION {labels[i].frees : i \in 6 .. 8} = {"cc", "ctx"}
      /\ UNION {labels[i].frees : i \in 5 .. 8} = {"princ", "cc", "ctx"}
      /\ UNION {labels[i].frees : i \in 4 .. 8} = {"actx", "princ", "cc", "ctx"}
      /\ UNION {labels[i].frees : i \in 3 .. 8} = {"fwd", "actx", "princ", "cc", "ctx"}
      /\ UNION {labels[i].frees : i \in 2 .. 8} = {"creds", "fwd", "actx", "princ", "cc", "ctx"}
      /\ UNION {labels[i].frees : i \in 1 .. 8} = {"data", "creds", "fwd", "actx", "princ", "cc", "ctx"}
  <2> HIDE DEF labels
  <2> QED
    BY <1>1 DEF Label, FreeContext, FreeAuthContext, Exit
<1> QED
  BY <1>1, <1>2, <1>3 DEF Freed

LEMMA GetFwdChecked == FunctionOK("get_fwd")
<1> USE GetFwdCalls, GetFwdLabels
    DEF After, Failed, Gains, Loses, Copies, Leaky, Careless, Context, AuthContext, ReadCred, Copy, Take,
        Try, Drop, Step
<1>1. /\ CallOK("get_fwd", 1) /\ CallOK("get_fwd", 2) /\ CallOK("get_fwd", 3)
      /\ CallOK("get_fwd", 4) /\ CallOK("get_fwd", 5) /\ CallOK("get_fwd", 6)
      /\ CallOK("get_fwd", 7) /\ CallOK("get_fwd", 8) /\ CallOK("get_fwd", 9)
      /\ CallOK("get_fwd", 10)
  BY DEF CallOK, Placed
<1>2. ExitOK("get_fwd")
  BY DEF ExitOK, Getters
<1> QED
  BY <1>1, <1>2 DEF FunctionOK

LEMMA RenewCalls ==
  /\ LET calls == BodyOf["renew"].calls IN
     /\ Len(calls) = 12
     /\ calls[1] = Context /\ calls[2] = Take("cc", "ctx_exit")
     /\ calls[3] = Take("princ", "ctx_exit") /\ calls[4] = Take("cursor", "cc_exit")
     /\ calls[5] = Try("read", "none") /\ calls[6] = Drop("cursor")
     /\ calls[7] = Try("found", "seq_exit") /\ calls[8] = Try("renewable", "seq_exit")
     /\ calls[9] = Copy("client") /\ calls[10] = Copy("server")
     /\ calls[11] = Step("kdc", "reply", "cred_exit") /\ calls[12] = Drop("reply")
  /\ BodyOf["renew"].null = {"client", "server"} /\ BodyOf["renew"].end = "cred_exit"
  /\ Held["renew"][1] = {} /\ Held["renew"][2] = {"ctx"} /\ Held["renew"][3] = {"ctx", "cc"}
  /\ Held["renew"][4] = {"ctx", "cc", "princ"}
  /\ Held["renew"][5] = {"ctx", "cc", "princ", "cursor"}
  /\ Held["renew"][6] = {"ctx", "cc", "princ", "cursor"}
  /\ Held["renew"][7] = {"ctx", "cc", "princ"} /\ Held["renew"][8] = {"ctx", "cc", "princ"}
  /\ Held["renew"][9] = {"ctx", "cc", "princ"}
  /\ Held["renew"][10] = {"ctx", "cc", "princ", "client"}
  /\ Held["renew"][11] = {"ctx", "cc", "princ", "client", "server"}
  /\ Held["renew"][12] = {"ctx", "cc", "princ", "client", "server", "reply"}
  /\ Held["renew"][13] = {"ctx", "cc", "princ", "client", "server"}
BY DEF BodyOf, AllFns, RenewBody, Body, Held, RenewHeld

LEMMA RenewLabels ==
  /\ Freed(BodyOf["renew"], "exit") = {} /\ Freed(BodyOf["renew"], "ctx_exit") = {"ctx"}
  /\ Freed(BodyOf["renew"], "cc_exit") = {"cc", "ctx"}
  /\ Freed(BodyOf["renew"], "seq_exit") = {"read", "cc", "ctx"}
  /\ Freed(BodyOf["renew"], "cred_exit") = {"client", "server", "read", "cc", "ctx"}
<1> DEFINE labels == BodyOf["renew"].labels
<1>1. /\ DOMAIN labels = 1 .. 5 /\ Len(labels) = 5
      /\ labels[1] = Label("cred_exit", {"client", "server"})
      /\ labels[2] = Label("seq_exit", {"read"}) /\ labels[3] = Label("cc_exit", {"cc"})
      /\ labels[4] = FreeContext /\ labels[5] = Exit
  BY DEF BodyOf, AllFns, RenewBody, Body
<1>2. /\ (CHOOSE i \in DOMAIN labels : labels[i].name = "exit") = 5
      /\ (CHOOSE i \in DOMAIN labels : labels[i].name = "ctx_exit") = 4
      /\ (CHOOSE i \in DOMAIN labels : labels[i].name = "cc_exit") = 3
      /\ (CHOOSE i \in DOMAIN labels : labels[i].name = "seq_exit") = 2
      /\ (CHOOSE i \in DOMAIN labels : labels[i].name = "cred_exit") = 1
  BY <1>1 DEF Label, FreeContext, FreeAuthContext, Exit
<1>3. /\ UNION {labels[i].frees : i \in 5 .. 5} = {}
      /\ UNION {labels[i].frees : i \in 4 .. 5} = {"ctx"}
      /\ UNION {labels[i].frees : i \in 3 .. 5} = {"cc", "ctx"}
      /\ UNION {labels[i].frees : i \in 2 .. 5} = {"read", "cc", "ctx"}
      /\ UNION {labels[i].frees : i \in 1 .. 5} = {"client", "server", "read", "cc", "ctx"}
  <2> HIDE DEF labels
  <2> QED
    BY <1>1 DEF Label, FreeContext, FreeAuthContext, Exit
<1> QED
  BY <1>1, <1>2, <1>3 DEF Freed

LEMMA RenewChecked == FunctionOK("renew")
<1> USE RenewCalls, RenewLabels
    DEF After, Failed, Gains, Loses, Copies, Leaky, Careless, Context, AuthContext, ReadCred, Copy, Take,
        Try, Drop, Step
<1>1. /\ CallOK("renew", 1) /\ CallOK("renew", 2) /\ CallOK("renew", 3) /\ CallOK("renew", 4)
      /\ CallOK("renew", 5) /\ CallOK("renew", 6) /\ CallOK("renew", 7) /\ CallOK("renew", 8)
      /\ CallOK("renew", 9) /\ CallOK("renew", 10) /\ CallOK("renew", 11) /\ CallOK("renew", 12)
  BY DEF CallOK, Placed
<1>2. ExitOK("renew")
  BY DEF ExitOK, Getters
<1> QED
  BY <1>1, <1>2 DEF FunctionOK

LEMMA RenewBufferCalls ==
  /\ LET calls == BodyOf["renew_buffer"].calls IN
     /\ Len(calls) = 9
     /\ calls[1] = Context /\ calls[2] = AuthContext /\ calls[3] = ReadCred
     /\ calls[4] = Try("found", "cred_exit") /\ calls[5] = Copy("client")
     /\ calls[6] = Copy("server") /\ calls[7] = Step("kdc", "reply", "cred_exit")
     /\ calls[8] = Step("mk_1cred", "data", "renew_exit") /\ calls[9] = Take("buffer", "mk_exit")
  /\ BodyOf["renew_buffer"].null = {"client", "server"} /\ BodyOf["renew_buffer"].end = "mk_exit"
  /\ Held["renew_buffer"][1] = {} /\ Held["renew_buffer"][2] = {"ctx"}
  /\ Held["renew_buffer"][3] = {"ctx", "actx"}
  /\ Held["renew_buffer"][4] = {"ctx", "actx", "creds"}
  /\ Held["renew_buffer"][5] = {"ctx", "actx", "creds"}
  /\ Held["renew_buffer"][6] = {"ctx", "actx", "creds", "client"}
  /\ Held["renew_buffer"][7] = {"ctx", "actx", "creds", "client", "server"}
  /\ Held["renew_buffer"][8] = {"ctx", "actx", "creds", "client", "server", "reply"}
  /\ Held["renew_buffer"][9] = {"ctx", "actx", "creds", "client", "server", "reply", "data"}
  /\ Held["renew_buffer"][10] = {"ctx", "actx", "creds", "client", "server", "reply", "data", "buffer"}
BY DEF BodyOf, AllFns, RenewBufferBody, Body, Held, RenewBufferHeld

LEMMA RenewBufferLabels ==
  /\ Freed(BodyOf["renew_buffer"], "exit") = {}
  /\ Freed(BodyOf["renew_buffer"], "ctx_exit") = {"ctx"}
  /\ Freed(BodyOf["renew_buffer"], "auth_ctx_exit") = {"actx", "ctx"}
  /\ Freed(BodyOf["renew_buffer"], "cred_exit") = {"client", "creds", "server", "actx", "ctx"}
  /\ Freed(BodyOf["renew_buffer"], "renew_exit") = {"reply", "client", "creds", "server", "actx", "ctx"}
  /\ Freed(BodyOf["renew_buffer"], "mk_exit") = {"data", "reply", "client", "creds", "server", "actx", "ctx"}
<1> DEFINE labels == BodyOf["renew_buffer"].labels
<1>1. /\ DOMAIN labels = 1 .. 6 /\ Len(labels) = 6
      /\ labels[1] = Label("mk_exit", {"data"}) /\ labels[2] = Label("renew_exit", {"reply"})
      /\ labels[3] = Label("cred_exit", {"client", "server", "creds"})
      /\ labels[4] = FreeAuthContext /\ labels[5] = FreeContext /\ labels[6] = Exit
  BY DEF BodyOf, AllFns, RenewBufferBody, Body, ReleaseRenewed
<1>2. /\ (CHOOSE i \in DOMAIN labels : labels[i].name = "exit") = 6
      /\ (CHOOSE i \in DOMAIN labels : labels[i].name = "ctx_exit") = 5
      /\ (CHOOSE i \in DOMAIN labels : labels[i].name = "auth_ctx_exit") = 4
      /\ (CHOOSE i \in DOMAIN labels : labels[i].name = "cred_exit") = 3
      /\ (CHOOSE i \in DOMAIN labels : labels[i].name = "renew_exit") = 2
      /\ (CHOOSE i \in DOMAIN labels : labels[i].name = "mk_exit") = 1
  BY <1>1 DEF Label, FreeContext, FreeAuthContext, Exit
<1>3. /\ UNION {labels[i].frees : i \in 6 .. 6} = {}
      /\ UNION {labels[i].frees : i \in 5 .. 6} = {"ctx"}
      /\ UNION {labels[i].frees : i \in 4 .. 6} = {"actx", "ctx"}
      /\ UNION {labels[i].frees : i \in 3 .. 6} = {"client", "creds", "server", "actx", "ctx"}
      /\ UNION {labels[i].frees : i \in 2 .. 6} = {"reply", "client", "creds", "server", "actx", "ctx"}
      /\ UNION {labels[i].frees : i \in 1 .. 6} = {"data", "reply", "client", "creds", "server", "actx", "ctx"}
  <2> HIDE DEF labels
  <2> QED
    BY <1>1 DEF Label, FreeContext, FreeAuthContext, Exit
<1> QED
  BY <1>1, <1>2, <1>3 DEF Freed

LEMMA RenewBufferChecked == FunctionOK("renew_buffer")
<1> USE RenewBufferCalls, RenewBufferLabels
    DEF After, Failed, Gains, Loses, Copies, Leaky, Careless, Context, AuthContext, ReadCred, Copy, Take,
        Try, Drop, Step
<1>1. /\ CallOK("renew_buffer", 1) /\ CallOK("renew_buffer", 2) /\ CallOK("renew_buffer", 3)
      /\ CallOK("renew_buffer", 4) /\ CallOK("renew_buffer", 5) /\ CallOK("renew_buffer", 6)
      /\ CallOK("renew_buffer", 7) /\ CallOK("renew_buffer", 8) /\ CallOK("renew_buffer", 9)
  BY DEF CallOK, Placed
<1>2. ExitOK("renew_buffer")
  BY DEF ExitOK, Getters
<1> QED
  BY <1>1, <1>2 DEF FunctionOK

LEMMA CrossRealmBufferCalls ==
  /\ LET calls == BodyOf["cross_realm_buffer"].calls IN
     /\ Len(calls) = 8
     /\ calls[1] = Context /\ calls[2] = AuthContext /\ calls[3] = ReadCred
     /\ calls[4] = Copy("client") /\ calls[5] = Copy("server")
     /\ calls[6] = Step("kdc", "reply", "cred_exit")
     /\ calls[7] = Step("mk_ncred", "data", "renew_exit") /\ calls[8] = Take("buffer", "mk_exit")
  /\ BodyOf["cross_realm_buffer"].null = {"client", "server"} /\ BodyOf["cross_realm_buffer"].end = "mk_exit"
  /\ Held["cross_realm_buffer"][1] = {} /\ Held["cross_realm_buffer"][2] = {"ctx"}
  /\ Held["cross_realm_buffer"][3] = {"ctx", "actx"}
  /\ Held["cross_realm_buffer"][4] = {"ctx", "actx", "creds"}
  /\ Held["cross_realm_buffer"][5] = {"ctx", "actx", "creds", "client"}
  /\ Held["cross_realm_buffer"][6] = {"ctx", "actx", "creds", "client", "server"}
  /\ Held["cross_realm_buffer"][7] = {"ctx", "actx", "creds", "client", "server", "reply"}
  /\ Held["cross_realm_buffer"][8] = {"ctx", "actx", "creds", "client", "server", "reply", "data"}
  /\ Held["cross_realm_buffer"][9] = {"ctx", "actx", "creds", "client", "server", "reply", "data", "buffer"}
BY DEF BodyOf, AllFns, CrossRealmBufferBody, Body, Held, CrossRealmBufferHeld

LEMMA CrossRealmBufferLabels ==
  /\ Freed(BodyOf["cross_realm_buffer"], "exit") = {}
  /\ Freed(BodyOf["cross_realm_buffer"], "ctx_exit") = {"ctx"}
  /\ Freed(BodyOf["cross_realm_buffer"], "auth_ctx_exit") = {"actx", "ctx"}
  /\ Freed(BodyOf["cross_realm_buffer"], "cred_exit") = {"client", "creds", "server", "actx", "ctx"}
  /\ Freed(BodyOf["cross_realm_buffer"], "renew_exit") = {"reply", "client", "creds", "server", "actx", "ctx"}
  /\ Freed(BodyOf["cross_realm_buffer"], "mk_exit") = {"data", "reply", "client", "creds", "server", "actx", "ctx"}
<1> DEFINE labels == BodyOf["cross_realm_buffer"].labels
<1>1. /\ DOMAIN labels = 1 .. 6 /\ Len(labels) = 6
      /\ labels[1] = Label("mk_exit", {"data"}) /\ labels[2] = Label("renew_exit", {"reply"})
      /\ labels[3] = Label("cred_exit", {"client", "server", "creds"})
      /\ labels[4] = FreeAuthContext /\ labels[5] = FreeContext /\ labels[6] = Exit
  BY DEF BodyOf, AllFns, CrossRealmBufferBody, Body, ReleaseRenewed
<1>2. /\ (CHOOSE i \in DOMAIN labels : labels[i].name = "exit") = 6
      /\ (CHOOSE i \in DOMAIN labels : labels[i].name = "ctx_exit") = 5
      /\ (CHOOSE i \in DOMAIN labels : labels[i].name = "auth_ctx_exit") = 4
      /\ (CHOOSE i \in DOMAIN labels : labels[i].name = "cred_exit") = 3
      /\ (CHOOSE i \in DOMAIN labels : labels[i].name = "renew_exit") = 2
      /\ (CHOOSE i \in DOMAIN labels : labels[i].name = "mk_exit") = 1
  BY <1>1 DEF Label, FreeContext, FreeAuthContext, Exit
<1>3. /\ UNION {labels[i].frees : i \in 6 .. 6} = {}
      /\ UNION {labels[i].frees : i \in 5 .. 6} = {"ctx"}
      /\ UNION {labels[i].frees : i \in 4 .. 6} = {"actx", "ctx"}
      /\ UNION {labels[i].frees : i \in 3 .. 6} = {"client", "creds", "server", "actx", "ctx"}
      /\ UNION {labels[i].frees : i \in 2 .. 6} = {"reply", "client", "creds", "server", "actx", "ctx"}
      /\ UNION {labels[i].frees : i \in 1 .. 6} = {"data", "reply", "client", "creds", "server", "actx", "ctx"}
  <2> HIDE DEF labels
  <2> QED
    BY <1>1 DEF Label, FreeContext, FreeAuthContext, Exit
<1> QED
  BY <1>1, <1>2, <1>3 DEF Freed

LEMMA CrossRealmBufferChecked == FunctionOK("cross_realm_buffer")
<1> USE CrossRealmBufferCalls, CrossRealmBufferLabels
    DEF After, Failed, Gains, Loses, Copies, Leaky, Careless, Context, AuthContext, ReadCred, Copy, Take,
        Try, Drop, Step
<1>1. /\ CallOK("cross_realm_buffer", 1) /\ CallOK("cross_realm_buffer", 2)
      /\ CallOK("cross_realm_buffer", 3) /\ CallOK("cross_realm_buffer", 4)
      /\ CallOK("cross_realm_buffer", 5) /\ CallOK("cross_realm_buffer", 6)
      /\ CallOK("cross_realm_buffer", 7) /\ CallOK("cross_realm_buffer", 8)
  BY DEF CallOK, Placed
<1>2. ExitOK("cross_realm_buffer")
  BY DEF ExitOK, Getters
<1> QED
  BY <1>1, <1>2 DEF FunctionOK

LEMMA DeladdrBufferCalls ==
  /\ LET calls == BodyOf["deladdr_buffer"].calls IN
     /\ Len(calls) = 9
     /\ calls[1] = Context /\ calls[2] = AuthContext /\ calls[3] = ReadCred
     /\ calls[4] = Try("found", "cred_exit") /\ calls[5] = Copy("client")
     /\ calls[6] = Copy("server") /\ calls[7] = Step("kdc", "reply", "cred_exit")
     /\ calls[8] = Step("mk_1cred", "data", "renew_exit") /\ calls[9] = Take("buffer", "mk_exit")
  /\ BodyOf["deladdr_buffer"].null = {"client", "server"} /\ BodyOf["deladdr_buffer"].end = "mk_exit"
  /\ Held["deladdr_buffer"][1] = {} /\ Held["deladdr_buffer"][2] = {"ctx"}
  /\ Held["deladdr_buffer"][3] = {"ctx", "actx"}
  /\ Held["deladdr_buffer"][4] = {"ctx", "actx", "creds"}
  /\ Held["deladdr_buffer"][5] = {"ctx", "actx", "creds"}
  /\ Held["deladdr_buffer"][6] = {"ctx", "actx", "creds", "client"}
  /\ Held["deladdr_buffer"][7] = {"ctx", "actx", "creds", "client", "server"}
  /\ Held["deladdr_buffer"][8] = {"ctx", "actx", "creds", "client", "server", "reply"}
  /\ Held["deladdr_buffer"][9] = {"ctx", "actx", "creds", "client", "server", "reply", "data"}
  /\ Held["deladdr_buffer"][10] = {"ctx", "actx", "creds", "client", "server", "reply", "data", "buffer"}
BY DEF BodyOf, AllFns, DeladdrBufferBody, Body, Held, DeladdrBufferHeld

LEMMA DeladdrBufferLabels ==
  /\ Freed(BodyOf["deladdr_buffer"], "exit") = {}
  /\ Freed(BodyOf["deladdr_buffer"], "ctx_exit") = {"ctx"}
  /\ Freed(BodyOf["deladdr_buffer"], "auth_ctx_exit") = {"actx", "ctx"}
  /\ Freed(BodyOf["deladdr_buffer"], "cred_exit") = {"client", "creds", "server", "actx", "ctx"}
  /\ Freed(BodyOf["deladdr_buffer"], "renew_exit") = {"reply", "client", "creds", "server", "actx", "ctx"}
  /\ Freed(BodyOf["deladdr_buffer"], "mk_exit") = {"data", "reply", "client", "creds", "server", "actx", "ctx"}
<1> DEFINE labels == BodyOf["deladdr_buffer"].labels
<1>1. /\ DOMAIN labels = 1 .. 6 /\ Len(labels) = 6
      /\ labels[1] = Label("mk_exit", {"data"}) /\ labels[2] = Label("renew_exit", {"reply"})
      /\ labels[3] = Label("cred_exit", {"client", "server", "creds"})
      /\ labels[4] = FreeAuthContext /\ labels[5] = FreeContext /\ labels[6] = Exit
  BY DEF BodyOf, AllFns, DeladdrBufferBody, Body, ReleaseRenewed
<1>2. /\ (CHOOSE i \in DOMAIN labels : labels[i].name = "exit") = 6
      /\ (CHOOSE i \in DOMAIN labels : labels[i].name = "ctx_exit") = 5
      /\ (CHOOSE i \in DOMAIN labels : labels[i].name = "auth_ctx_exit") = 4
      /\ (CHOOSE i \in DOMAIN labels : labels[i].name = "cred_exit") = 3
      /\ (CHOOSE i \in DOMAIN labels : labels[i].name = "renew_exit") = 2
      /\ (CHOOSE i \in DOMAIN labels : labels[i].name = "mk_exit") = 1
  BY <1>1 DEF Label, FreeContext, FreeAuthContext, Exit
<1>3. /\ UNION {labels[i].frees : i \in 6 .. 6} = {}
      /\ UNION {labels[i].frees : i \in 5 .. 6} = {"ctx"}
      /\ UNION {labels[i].frees : i \in 4 .. 6} = {"actx", "ctx"}
      /\ UNION {labels[i].frees : i \in 3 .. 6} = {"client", "creds", "server", "actx", "ctx"}
      /\ UNION {labels[i].frees : i \in 2 .. 6} = {"reply", "client", "creds", "server", "actx", "ctx"}
      /\ UNION {labels[i].frees : i \in 1 .. 6} = {"data", "reply", "client", "creds", "server", "actx", "ctx"}
  <2> HIDE DEF labels
  <2> QED
    BY <1>1 DEF Label, FreeContext, FreeAuthContext, Exit
<1> QED
  BY <1>1, <1>2, <1>3 DEF Freed

LEMMA DeladdrBufferChecked == FunctionOK("deladdr_buffer")
<1> USE DeladdrBufferCalls, DeladdrBufferLabels
    DEF After, Failed, Gains, Loses, Copies, Leaky, Careless, Context, AuthContext, ReadCred, Copy, Take,
        Try, Drop, Step
<1>1. /\ CallOK("deladdr_buffer", 1) /\ CallOK("deladdr_buffer", 2) /\ CallOK("deladdr_buffer", 3)
      /\ CallOK("deladdr_buffer", 4) /\ CallOK("deladdr_buffer", 5) /\ CallOK("deladdr_buffer", 6)
      /\ CallOK("deladdr_buffer", 7) /\ CallOK("deladdr_buffer", 8) /\ CallOK("deladdr_buffer", 9)
  BY DEF CallOK, Placed
<1>2. ExitOK("deladdr_buffer")
  BY DEF ExitOK, Getters
<1> QED
  BY <1>1, <1>2 DEF FunctionOK

LEMMA NewUniqueCalls ==
  /\ LET calls == BodyOf["cc_new_unique"].calls IN
     /\ Len(calls) = 5
     /\ calls[1] = Context /\ calls[2] = Take("cc", "out") /\ calls[3] = Take("cc", "out")
     /\ calls[4] = Take("name", "destroy") /\ calls[5] = Drop("cc")
  /\ BodyOf["cc_new_unique"].null = {"name"} /\ BodyOf["cc_new_unique"].end = "out"
  /\ Held["cc_new_unique"][1] = {} /\ Held["cc_new_unique"][2] = {"ctx"}
  /\ Held["cc_new_unique"][3] = {"ctx", "cc"} /\ Held["cc_new_unique"][4] = {"ctx", "cc"}
  /\ Held["cc_new_unique"][5] = {"ctx", "cc", "name"} /\ Held["cc_new_unique"][6] = {"ctx", "name"}
BY DEF BodyOf, AllFns, NewUniqueBody, Body, Held, NewUniqueHeld

LEMMA NewUniqueLabels ==
  /\ Freed(BodyOf["cc_new_unique"], "exit") = {}
  /\ Freed(BodyOf["cc_new_unique"], "out") = {"ctx", "name"}
  /\ Freed(BodyOf["cc_new_unique"], "destroy") = {"cc", "ctx", "name"}
<1> DEFINE labels == BodyOf["cc_new_unique"].labels
<1>1. /\ DOMAIN labels = 1 .. 3 /\ Len(labels) = 3
      /\ labels[1] = Label("destroy", {"cc"}) /\ labels[2] = Label("out", {"name", "ctx"})
      /\ labels[3] = Exit
  BY DEF BodyOf, AllFns, NewUniqueBody, Body
<1>2. /\ (CHOOSE i \in DOMAIN labels : labels[i].name = "exit") = 3
      /\ (CHOOSE i \in DOMAIN labels : labels[i].name = "out") = 2
      /\ (CHOOSE i \in DOMAIN labels : labels[i].name = "destroy") = 1
  BY <1>1 DEF Label, FreeContext, FreeAuthContext, Exit
<1>3. /\ UNION {labels[i].frees : i \in 3 .. 3} = {}
      /\ UNION {labels[i].frees : i \in 2 .. 3} = {"ctx", "name"}
      /\ UNION {labels[i].frees : i \in 1 .. 3} = {"cc", "ctx", "name"}
  <2> HIDE DEF labels
  <2> QED
    BY <1>1 DEF Label, FreeContext, FreeAuthContext, Exit
<1> QED
  BY <1>1, <1>2, <1>3 DEF Freed

LEMMA NewUniqueChecked == FunctionOK("cc_new_unique")
<1> USE NewUniqueCalls, NewUniqueLabels
    DEF After, Failed, Gains, Loses, Copies, Leaky, Careless, Context, AuthContext, ReadCred, Copy, Take,
        Try, Drop, Step
<1>1. /\ CallOK("cc_new_unique", 1) /\ CallOK("cc_new_unique", 2) /\ CallOK("cc_new_unique", 3)
      /\ CallOK("cc_new_unique", 4) /\ CallOK("cc_new_unique", 5)
  BY DEF CallOK, Placed
<1>2. ExitOK("cc_new_unique")
  BY DEF ExitOK, Getters
<1> QED
  BY <1>1, <1>2 DEF FunctionOK

LEMMA SwitchCalls ==
  /\ LET calls == BodyOf["cc_switch"].calls IN
     /\ Len(calls) = 3
     /\ calls[1] = Context /\ calls[2] = Take("cc", "out") /\ calls[3] = Try("switch", "close")
  /\ BodyOf["cc_switch"].null = {} /\ BodyOf["cc_switch"].end = "close"
  /\ Held["cc_switch"][1] = {} /\ Held["cc_switch"][2] = {"ctx"}
  /\ Held["cc_switch"][3] = {"ctx", "cc"} /\ Held["cc_switch"][4] = {"ctx", "cc"}
BY DEF BodyOf, AllFns, SwitchBody, Body, Held, SwitchHeld

LEMMA SwitchLabels ==
  /\ Freed(BodyOf["cc_switch"], "exit") = {} /\ Freed(BodyOf["cc_switch"], "out") = {"ctx"}
  /\ Freed(BodyOf["cc_switch"], "close") = {"cc", "ctx"}
<1> DEFINE labels == BodyOf["cc_switch"].labels
<1>1. /\ DOMAIN labels = 1 .. 3 /\ Len(labels) = 3
      /\ labels[1] = Label("close", {"cc"}) /\ labels[2] = Label("out", {"ctx"})
      /\ labels[3] = Exit
  BY DEF BodyOf, AllFns, SwitchBody, Body
<1>2. /\ (CHOOSE i \in DOMAIN labels : labels[i].name = "exit") = 3
      /\ (CHOOSE i \in DOMAIN labels : labels[i].name = "out") = 2
      /\ (CHOOSE i \in DOMAIN labels : labels[i].name = "close") = 1
  BY <1>1 DEF Label, FreeContext, FreeAuthContext, Exit
<1>3. /\ UNION {labels[i].frees : i \in 3 .. 3} = {}
      /\ UNION {labels[i].frees : i \in 2 .. 3} = {"ctx"}
      /\ UNION {labels[i].frees : i \in 1 .. 3} = {"cc", "ctx"}
  <2> HIDE DEF labels
  <2> QED
    BY <1>1 DEF Label, FreeContext, FreeAuthContext, Exit
<1> QED
  BY <1>1, <1>2, <1>3 DEF Freed

LEMMA SwitchChecked == FunctionOK("cc_switch")
<1> USE SwitchCalls, SwitchLabels
    DEF After, Failed, Gains, Loses, Copies, Leaky, Careless, Context, AuthContext, ReadCred, Copy, Take,
        Try, Drop, Step
<1>1. /\ CallOK("cc_switch", 1) /\ CallOK("cc_switch", 2) /\ CallOK("cc_switch", 3)
  BY DEF CallOK, Placed
<1>2. ExitOK("cc_switch")
  BY DEF ExitOK, Getters
<1> QED
  BY <1>1, <1>2 DEF FunctionOK

LEMMA DestroyCalls ==
  /\ LET calls == BodyOf["cc_destroy"].calls IN
     /\ Len(calls) = 3
     /\ calls[1] = Context /\ calls[2] = Take("cc", "cc_exit")
     /\ calls[3] = Step("destroy", "cc", "out")
  /\ BodyOf["cc_destroy"].null = {} /\ BodyOf["cc_destroy"].end = "out"
  /\ Held["cc_destroy"][1] = {} /\ Held["cc_destroy"][2] = {"ctx"}
  /\ Held["cc_destroy"][3] = {"ctx", "cc"} /\ Held["cc_destroy"][4] = {"ctx"}
BY DEF BodyOf, AllFns, DestroyBody, Body, Held, DestroyHeld

LEMMA DestroyLabels ==
  /\ Freed(BodyOf["cc_destroy"], "exit") = {} /\ Freed(BodyOf["cc_destroy"], "out") = {"ctx"}
  /\ Freed(BodyOf["cc_destroy"], "cc_exit") = {"cc", "ctx"}
<1> DEFINE labels == BodyOf["cc_destroy"].labels
<1>1. /\ DOMAIN labels = 1 .. 3 /\ Len(labels) = 3
      /\ labels[1] = Label("cc_exit", {"cc"}) /\ labels[2] = Label("out", {"ctx"})
      /\ labels[3] = Exit
  BY DEF BodyOf, AllFns, DestroyBody, Body
<1>2. /\ (CHOOSE i \in DOMAIN labels : labels[i].name = "exit") = 3
      /\ (CHOOSE i \in DOMAIN labels : labels[i].name = "out") = 2
      /\ (CHOOSE i \in DOMAIN labels : labels[i].name = "cc_exit") = 1
  BY <1>1 DEF Label, FreeContext, FreeAuthContext, Exit
<1>3. /\ UNION {labels[i].frees : i \in 3 .. 3} = {}
      /\ UNION {labels[i].frees : i \in 2 .. 3} = {"ctx"}
      /\ UNION {labels[i].frees : i \in 1 .. 3} = {"cc", "ctx"}
  <2> HIDE DEF labels
  <2> QED
    BY <1>1 DEF Label, FreeContext, FreeAuthContext, Exit
<1> QED
  BY <1>1, <1>2, <1>3 DEF Freed

LEMMA DestroyChecked == FunctionOK("cc_destroy")
<1> USE DestroyCalls, DestroyLabels
    DEF After, Failed, Gains, Loses, Copies, Leaky, Careless, Context, AuthContext, ReadCred, Copy, Take,
        Try, Drop, Step
<1>1. /\ CallOK("cc_destroy", 1) /\ CallOK("cc_destroy", 2) /\ CallOK("cc_destroy", 3)
  BY DEF CallOK, Placed
<1>2. ExitOK("cc_destroy")
  BY DEF ExitOK, Getters
<1> QED
  BY <1>1, <1>2 DEF FunctionOK

----------------------------------------------------------------------------
(* What a function holds while it runs                                     *)

PlaceOK ==
  /\ fn \in Fns \cup {"idle"}
  /\ fn # "idle" => pc \in 1 .. (Len(BodyOf[fn].calls) + 1)

HeldOK ==
  fn # "idle" =>
    /\ held \ Copies = Held[fn][pc]
    /\ fn \notin {"get", "renew"} => held \cap Copies = {}
    /\ fn \notin Leaky => lost = {}

KrbInv == PlaceOK /\ HeldOK

LEMMA FunctionsOK ==
  ASSUME NEW f \in AllFns
  PROVE  FunctionOK(f)
BY GetChecked, StoreChecked, GetFwdChecked, RenewChecked, RenewBufferChecked, CrossRealmBufferChecked,
   DeladdrBufferChecked, NewUniqueChecked, SwitchChecked, DestroyChecked DEF AllFns

LEMMA RunningIs ==
  ASSUME PlaceOK, fn # "idle"
  PROVE  /\ fn \in AllFns /\ FunctionOK(fn) /\ pc \in Nat
         /\ Running => /\ pc \in 1 .. Len(BodyOf[fn].calls) /\ CallOK(fn, pc)
                       /\ pc + 1 \in 1 .. (Len(BodyOf[fn].calls) + 1)
         /\ ~Running => pc = Len(BodyOf[fn].calls) + 1
<1>1. fn \in AllFns
  BY KrbCredAssumption DEF PlaceOK
<1>2. FunctionOK(fn)
  BY <1>1, FunctionsOK
<1>3. Len(BodyOf[fn].calls) \in Nat /\ \A k \in 1 .. Len(BodyOf[fn].calls) : CallOK(fn, k)
  BY <1>2 DEF FunctionOK
<1> QED
  BY <1>1, <1>2, <1>3 DEF PlaceOK, Running

\* A call that succeeds.
LEMMA Onward ==
  ASSUME KrbInv, Running, fn' = fn, pc' = pc + 1,
         held' \ Copies = After(Current, held \ Copies),
         fn \notin {"get", "renew"} => held' \cap Copies = {},
         fn \notin Leaky => lost' = {}
  PROVE  KrbInv'
<1>1. fn # "idle" /\ pc + 1 \in 1 .. (Len(BodyOf[fn].calls) + 1) /\ CallOK(fn, pc)
  BY RunningIs DEF KrbInv, Running
<1>2. Held[fn][pc + 1] = After(Current, Held[fn][pc])
  BY <1>1 DEF CallOK, Current
<1> QED
  BY <1>1, <1>2 DEF KrbInv, PlaceOK, HeldOK

LEMMA CallsGoOn ==
  ASSUME KrbInv,
         \/ Succeed \/ Release \/ ReadNext \/ ReadNotCopied \/ ReadEnd \/ Test \/ Kdc \/ Pack
         \/ Initialize \/ StoreCred \/ Destroy
  PROVE  KrbInv'
<1>1. /\ fn # "idle" /\ CallOK(fn, pc) /\ fn' = fn
      /\ held \ Copies = Held[fn][pc]
      /\ fn \notin {"get", "renew"} => held \cap Copies = {}
      /\ fn \notin Leaky => lost = {}
  <2>1. Running /\ fn' = fn
    BY DEF Succeed, Release, ReadNext, ReadNotCopied, ReadEnd, Test, Kdc, Pack, Initialize, StoreCred,
           Destroy, Advance
  <2> QED
    BY <2>1, RunningIs DEF KrbInv, HeldOK, Running
<1>2. ASSUME Running, Gains(Current), Acquire(Current.res), pc' = pc + 1
      PROVE  KrbInv'
  <2>1. Current.res # "none" /\ Current.res \notin Copies
    BY <1>1, <1>2 DEF CallOK, Current
  <2>2. held' = held \cup {Current.res} /\ lost' = IF Current.res \in held THEN lost \cup {Current.res} ELSE lost
    BY <1>2, <2>1 DEF Acquire
  <2>3. fn \notin Leaky => Current.res \notin held
    BY <1>1, <1>2, <2>1 DEF CallOK, Current
  <2> QED
    BY <1>1, <1>2, <2>1, <2>2, <2>3, Onward DEF After
<1>3. ASSUME Running, Loses(Current), held' = held \ {Current.res}, pc' = pc + 1, UNCHANGED lost
      PROVE  KrbInv'
  <2>1. Current.res \notin Copies /\ ~Gains(Current)
    BY <1>1, <1>3 DEF CallOK, Current, Gains, Loses
  <2> QED
    BY <1>1, <1>3, <2>1, Onward DEF After
<1>4. ASSUME Running, ~Gains(Current), ~Loses(Current), held' \ Copies = held \ Copies,
             fn \notin {"get", "renew"} => UNCHANGED <<held, lost>>
      PROVE  /\ pc' = pc => KrbInv'
             /\ pc' = pc + 1 => KrbInv'
  <2>1. pc' = pc => KrbInv'
    BY <1>1, <1>4 DEF KrbInv, PlaceOK, HeldOK, Leaky
  <2>2. pc' = pc + 1 => KrbInv'
    BY <1>1, <1>4, Onward DEF After, Leaky
  <2> QED
    BY <2>1, <2>2
<1> USE DEF Gains, Loses, Advance
<1>5. CASE Succeed
  BY <1>2, <1>5 DEF Succeed
<1>6. CASE Release
  BY <1>3, <1>6 DEF Release
<1>7. CASE ReadNext
  <2>1. fn \in {"get", "renew"}
    BY <1>1, <1>7 DEF ReadNext, CallOK, Placed, Current
  <2>2. held' \ Copies = held \ Copies
    BY <1>7 DEF ReadNext, Wanted, Copies
  <2> QED
    BY <1>4, <1>7, <2>1, <2>2 DEF ReadNext
<1>8. CASE ReadNotCopied
  BY <1>4, <1>8 DEF ReadNotCopied, Copies
<1>9. CASE ReadEnd
  BY <1>4, <1>9 DEF ReadEnd
<1>10. CASE Test
  BY <1>4, <1>10 DEF Test
<1>11. CASE Kdc
  <2>1. Current.res = "reply"
    BY <1>1, <1>11 DEF Kdc, CallOK, Current
  <2> QED
    BY <1>2, <1>11, <2>1 DEF Kdc
<1>12. CASE Pack
  <2>1. Current.res = "data"
    BY <1>1, <1>12 DEF Pack, CallOK, Current
  <2> QED
    BY <1>2, <1>12, <2>1 DEF Pack
<1>13. CASE Initialize
  BY <1>4, <1>13 DEF Initialize
<1>14. CASE StoreCred
  BY <1>4, <1>14 DEF StoreCred
<1>15. CASE Destroy
  <2>1. Current.res = "cc"
    BY <1>1, <1>15 DEF Destroy, CallOK, Current
  <2> QED
    BY <1>3, <1>15, <2>1 DEF Destroy
<1> QED
  BY <1>5, <1>6, <1>7, <1>8, <1>9, <1>10, <1>11, <1>12, <1>13, <1>14, <1>15

\* The way out of a function releases what it should.
LEMMA WayOut ==
  ASSUME KrbInv, Fails \/ Returns
  PROVE  /\ fn # "idle" /\ fn' = "idle" /\ UNCHANGED lost
         /\ fn \notin Leaky => held' = {} /\ lost' = {}
         /\ fn \notin Careless => (misused' => misused)
<1>1. \A label : From(label) = Freed(BodyOf[fn], label)
  BY DEF From, Freed
<1>2. fn # "idle" /\ fn' = "idle" /\ UNCHANGED lost
  BY DEF Fails, Returns, Running, Leave
<1>3. /\ held \ Copies = Held[fn][pc]
      /\ fn \notin Leaky => held = Held[fn][pc] /\ lost = {}
  BY <1>2 DEF KrbInv, HeldOK, Leaky
<1>4. CASE Fails
  <2> DEFINE rest == IF Current.op = "destroy" THEN held \ {"cc"} ELSE held
  <2>1. CallOK(fn, pc) /\ Current.label # "none" /\ Leave(Current.label, "error", rest)
    BY <1>2, <1>4, RunningIs DEF Fails, KrbInv
  <2>2. /\ fn \notin Leaky => Failed(Current, Held[fn][pc]) \subseteq From(Current.label)
        /\ fn \notin Careless => From(Current.label) \subseteq Failed(Current, Held[fn][pc]) \cup BodyOf[fn].null
    BY <1>1, <2>1 DEF CallOK, Current
  <2>3. /\ fn \notin Leaky => rest \subseteq From(Current.label)
        /\ Failed(Current, Held[fn][pc]) \subseteq rest
    BY <1>3, <2>2 DEF Failed
  <2>4. fn \notin Careless => From(Current.label) \subseteq rest \cup BodyOf[fn].null
    BY <2>2, <2>3
  <2> HIDE DEF rest
  <2>5. fn \notin Careless => (misused' => misused)
    BY <2>1, <2>4 DEF Leave
  <2>6. fn \notin Leaky => held' = {} /\ lost' = {}
    BY <1>2, <1>3, <2>1, <2>3 DEF Leave
  <2> QED
    BY <1>2, <2>5, <2>6
<1>5. CASE Returns
  <2>1. ~Running /\ Leave(BodyOf[fn].end, "ok", held \ {"buffer"})
    BY <1>5 DEF Returns
  <2>2. ExitOK(fn) /\ pc = Len(BodyOf[fn].calls) + 1
    BY <1>2, <2>1, RunningIs DEF KrbInv, FunctionOK
  <2>3. /\ fn \notin Leaky => held \ {"buffer"} \subseteq From(BodyOf[fn].end)
        /\ fn \notin Careless => From(BodyOf[fn].end) \subseteq (held \ {"buffer"}) \cup BodyOf[fn].null
    BY <1>1, <1>3, <2>2 DEF ExitOK
  <2>4. fn \notin Careless => (misused' => misused)
    BY <2>1, <2>3 DEF Leave
  <2>5. fn \notin Leaky => held' = {} /\ lost' = {}
    BY <1>2, <1>3, <2>1, <2>3 DEF Leave
  <2> QED
    BY <1>2, <2>4, <2>5
<1> QED
  BY <1>4, <1>5

LEMMA KrbStep ==
  ASSUME KrbInv, [KrbNext]_krbVars
  PROVE  KrbInv'
<1>1. ASSUME NEW f \in Fns, Call(f) PROVE KrbInv'
  <2>1. f \in AllFns /\ FunctionOK(f)
    BY KrbCredAssumption, FunctionsOK
  <2> QED
    BY <1>1, <2>1 DEF Call, KrbInv, PlaceOK, HeldOK, FunctionOK
<1>2. CASE Fails \/ Returns
  BY <1>2, WayOut DEF KrbInv, PlaceOK, HeldOK
<1>3. CASE UNCHANGED krbVars
  BY <1>3 DEF krbVars, KrbInv, PlaceOK, HeldOK
<1> QED
  BY <1>1, <1>2, <1>3, CallsGoOn DEF KrbNext

----------------------------------------------------------------------------
(* What the calls make of a cache and of a credential                      *)

OneOf(S) == {<< t >> : t \in S}

DataTypes ==
  /\ rd \in Nat
  /\ cache = Absent \/ cache \in Seq(Ticket)
  /\ buf \in {<<>>} \cup Credential
  /\ work.tgt \in {<<>>} \cup OneOf(Local) /\ work.cross \in {<<>>} \cup OneOf(Foreign)
  /\ work = [tgt |-> work.tgt, cross |-> work.cross, out |-> work.out]

\* One sequence after the other.
Both(s, t) == s \o t

\* get has found the TGT by the time that it packs it.
Getting ==
  fn = "get" =>
    /\ pc > 3 => cache # Absent
    /\ pc > 7 => work.tgt # <<>>
    /\ pc > 9 => work.out = Both(work.tgt, work.cross)
    /\ pc < 5 => work.tgt = <<>>
    /\ cache = buf /\ work.tgt # <<>> => work.tgt[1] = buf[1]

\* store empties the cache, and then stores ticket by ticket.
Storing ==
  fn = "store" =>
    /\ buf # <<>>
    /\ pc < 6 => rd = 0
    /\ pc = 6 => rd < Len(buf) /\ cache = SubSeq(buf, 1, rd)
    /\ pc = 7 => cache = buf

\* What the KDC grants for a TGT is a TGT in one case, a ticket for another realm in the other.
Renewing ==
  /\ fn = "renew" => (pc > 3 => cache # Absent) /\ (pc > 7 => work.tgt # <<>>)
  /\ fn \in {"renew_buffer", "deladdr_buffer"} =>
       buf # <<>> /\ (pc > 7 => work.out \in OneOf(Local))

Crossing ==
  fn = "cross_realm_buffer" =>
    /\ buf # <<>>
    /\ pc = 7 => work.out \in OneOf(Foreign)
    /\ pc > 7 => work.out \in {<< buf[1], x >> : x \in Foreign}

DataInv == KrbInv /\ DataTypes /\ Getting /\ Storing /\ Renewing /\ Crossing

\* The first ticket of a credential is the only TGT of the realm in it.
LEMMA CredentialIs ==
  ASSUME NEW b \in Credential
  PROVE  /\ b \in Seq(Ticket) /\ Len(b) \in {1, 2} /\ b # <<>>
         /\ b[1] \in Local
         /\ Len(b) = 2 => b[2] \in Foreign /\ b = << b[1], b[2] >>
         /\ Len(b) = 1 => b = << b[1] >>
         /\ \A i \in 1 .. Len(b) : IsTgt(b[i]) => i = 1
<1>1. CASE \E t \in Local : b = << t >>
  <2>1. PICK t \in Local : b = << t >>
    BY <1>1
  <2> QED
    BY <2>1 DEF Local
<1>2. CASE \E t \in Local, x \in Foreign : b = << t, x >>
  <2>1. PICK t \in Local, x \in Foreign : b = << t, x >>
    BY <1>2
  <2>2. ~IsTgt(x)
    BY DEF Foreign, IsTgt
  <2> QED
    BY <2>1, <2>2 DEF Local, Foreign
<1> QED
  BY <1>1, <1>2 DEF Credential, Pairs

LEMMA PairIs ==
  ASSUME NEW S, NEW t \in S, NEW x \in S
  PROVE  << t >> \o << x >> = << t, x >>
<1> DEFINE s == Append(<< t >>, x)
<1>1. << t >> \in Seq(S) /\ Len(<< t >>) = 1
  OBVIOUS
<1>2. s \in Seq(S) /\ Len(s) = 2 /\ s[1] = t /\ s[2] = x
  BY <1>1
<1>3. \A p \in Seq(S) : Len(p) = 2 => p = << p[1], p[2] >>
  OBVIOUS
<1>4. s = << t >> \o << x >>
  BY <1>1, AppendIsConcat, Zenon
<1> HIDE DEF s
<1> QED
  BY <1>2, <1>3, <1>4

\* A TGT, and what goes with it.
LEMMA Packs ==
  ASSUME NEW t \in Local
  PROVE  /\ << t >> \in Credential
         /\ << t >> \o <<>> = << t >>
         /\ \A x \in Foreign : << t >> \o << x >> = << t, x >> /\ << t, x >> \in Credential
<1>1. << t >> \in Credential /\ \A x \in Foreign : << t, x >> \in Credential
  BY DEF Credential, Pairs
<1>2. << t >> \o <<>> = << t >>
  BY ConcatEmptySeq, t \in Local
<1>3. \A x \in Foreign : << t >> \o << x >> = << t, x >>
  BY PairIs DEF Local, Foreign
<1> QED
  BY <1>1, <1>2, <1>3

\* The tickets of a sequence.
LEMMA FirstTgt ==
  ASSUME buf \in Credential
  PROVE  Tgts # {} /\ First(Tgts) = 1
<1>1. buf \in Seq(Ticket) /\ 1 \in 1 .. Len(buf) /\ IsTgt(buf[1])
      /\ \A i \in 1 .. Len(buf) : IsTgt(buf[i]) => i = 1
  BY CredentialIs DEF Local, IsTgt
<1>2. Tgts = {1}
  BY <1>1 DEF Tgts
<1> QED
  BY <1>2 DEF First

\* What the KDC gives for a ticket is a ticket.
LEMMA GrantedIs ==
  ASSUME NEW t \in Local, NEW g \in Granted(t),
         fn \in {"renew", "renew_buffer"} => t.life < MaxLife
  PROVE  IF fn \in {"renew", "renew_buffer", "deladdr_buffer"} THEN g \in Local ELSE g \in Foreign
<1>1. MaxLife \in Nat
  BY KrbCredAssumption
<1>2. t \in Ticket /\ t.kind = "tgt"
  BY DEF Local
<1>3. CASE fn \in {"renew", "renew_buffer"}
  <2>1. PICK a \in {FALSE, t.addr} : g = [t EXCEPT !.life = @ + 1, !.addr = a]
    <3>1. Granted(t) = {[t EXCEPT !.life = @ + 1, !.addr = a] : a \in {FALSE, t.addr}}
      BY <1>3, Zenon DEF Granted
    <3> QED
      BY <3>1
  <2>2. t.life \in 0 .. MaxLife /\ t.addr \in BOOLEAN /\ t.life < MaxLife
    BY <1>2, <1>3 DEF Ticket
  <2>3. t.life + 1 \in 0 .. MaxLife
    BY <1>1, <2>2
  <2>4. a \in BOOLEAN
    BY <2>2, Zenon
  <2> QED
    BY <1>2, <1>3, <2>1, <2>3, <2>4 DEF Ticket, Local
<1>4. CASE fn = "deladdr_buffer"
  BY <1>2, <1>4 DEF Granted, Ticket, Local
<1>5. CASE fn \notin {"renew", "renew_buffer", "deladdr_buffer"}
  BY <1>2, <1>5 DEF Granted, Ticket, Foreign
<1> QED
  BY <1>3, <1>4, <1>5


\* What a step may rely on.
LEMMA AtCall ==
  ASSUME DataInv, Running
  PROVE  /\ fn # "idle" /\ fn \in AllFns /\ pc \in Nat /\ Placed(fn, pc, Current)
BY RunningIs DEF DataInv, KrbInv, CallOK, Current, Running

\* Calls that read no ticket and change no credential.
LEMMA PassingStep ==
  ASSUME DataInv, Succeed \/ Release \/ ReadNotCopied \/ ReadEnd \/ Test
  PROVE  DataTypes' /\ Getting' /\ Storing' /\ Renewing' /\ Crossing'
<1>1. /\ Running /\ pc' = pc + 1 /\ UNCHANGED <<fn, work, cache, buf>>
      /\ Current.op \notin {"kdc", "mk_ncred", "mk_1cred", "initialize", "store_cred"}
      /\ rd' = rd \/ (Current.op = "read" /\ rd' = rd + 1)
      /\ Current.op = "found" => Holds
      /\ Current.op = "take" /\ Current.res \in {"cursor", "princ"} => cache # Absent
  BY DEF Succeed, Release, ReadNotCopied, ReadEnd, Test, Advance
<1>2. /\ fn # "idle" /\ pc \in Nat /\ Placed(fn, pc, Current)
  BY <1>1, AtCall
<1> USE <1>1, <1>2 DEF DataInv
<1>3. DataTypes'
  BY DEF DataTypes
<1>4. Getting'
  <2> SUFFICES ASSUME fn = "get" PROVE Getting'
    BY DEF Getting
  <2>1. pc # 9
    BY DEF Placed
  <2>2. pc = 7 => work.tgt # <<>>
    BY DEF Placed, Holds
  <2>3. pc = 3 => cache # Absent
    BY DEF Placed
  <2> HIDE <1>2
  <2> QED
    BY <1>2, <2>1, <2>2, <2>3 DEF Getting
<1>5. Storing'
  BY DEF Storing, Placed
<1>6. Renewing'
  <2>1. fn = "renew" /\ pc = 7 => work.tgt # <<>>
    BY DEF Placed, Holds, Subject
  <2> QED
    BY <2>1 DEF Renewing, Placed
<1>7. Crossing'
  BY DEF Crossing, Placed
<1> QED
  BY <1>3, <1>4, <1>5, <1>6, <1>7

\* A ticket is read, and copied if it is one that the function looks for.
LEMMA ReadNextStep ==
  ASSUME DataInv, ReadNext
  PROVE  DataTypes' /\ Getting' /\ Storing' /\ Renewing' /\ Crossing'
<1> DEFINE t == cache[rd + 1]
<1>1. /\ Running /\ Current.op = "read" /\ rd < Len(cache) /\ rd' = rd + 1
      /\ work' = IF Wanted(t) THEN [work EXCEPT ![t.kind] = << t >>] ELSE work
      /\ UNCHANGED <<fn, pc, cache, buf>>
  BY DEF ReadNext
<1>2. fn \in {"get", "renew"} /\ pc = 5
  BY <1>1, AtCall DEF Placed
<1>3. cache \in Seq(Ticket) /\ rd \in Nat
  BY <1>2 DEF DataInv, DataTypes, Getting, Renewing
<1>4. t \in Ticket /\ rd + 1 \in 1 .. Len(cache)
  BY <1>1, <1>3
<1> HIDE DEF t
<1>5. /\ work'.tgt \in {work.tgt} \cup {<< t >>} /\ (work'.tgt # work.tgt => t \in Local /\ work'.tgt = << t >>)
      /\ work'.cross # work.cross => t \in Foreign /\ work'.cross = << t >>
      /\ work' = [tgt |-> work'.tgt, cross |-> work'.cross, out |-> work'.out]
  <2>1. work = [tgt |-> work.tgt, cross |-> work.cross, out |-> work.out]
    BY DEF DataInv, DataTypes
  <2>2. CASE Wanted(t) /\ t.kind = "tgt"
    BY <1>1, <1>4, <2>1, <2>2 DEF Local
  <2>3. CASE Wanted(t) /\ t.kind = "cross"
    BY <1>1, <1>4, <2>1, <2>3 DEF Foreign
  <2>4. CASE ~Wanted(t)
    BY <1>1, <2>1, <2>4
  <2> QED
    BY <1>2, <2>2, <2>3, <2>4 DEF Wanted, IsTgt
<1>6. DataTypes'
  <2>1. work'.tgt \in {<<>>} \cup OneOf(Local) /\ work'.cross \in {<<>>} \cup OneOf(Foreign)
    BY <1>5 DEF DataInv, DataTypes, OneOf
  <2> QED
    BY <1>1, <1>3, <1>5, <2>1 DEF DataInv, DataTypes
<1>7. Getting'
  <2>1. cache = buf /\ t \in Local => t = buf[1]
    <3> SUFFICES ASSUME cache = buf, t \in Local PROVE t = buf[1]
      OBVIOUS
    <3>1. buf \in Credential
      BY <1>4 DEF DataInv, DataTypes
    <3>2. t = buf[rd + 1] /\ IsTgt(t)
      BY DEF t, Local, IsTgt
    <3> QED
      BY <1>4, <3>1, <3>2, CredentialIs
  <2>2. work'.tgt = work.tgt \/ (t \in Local /\ work'.tgt = << t >>)
    BY <1>5
  <2> QED
    BY <1>1, <1>2, <2>1, <2>2 DEF DataInv, Getting
<1> QED
  BY <1>1, <1>2, <1>6, <1>7 DEF DataInv, Storing, Renewing, Crossing

\* The KDC is asked with the TGT of the realm.
LEMMA KdcStep ==
  ASSUME DataInv, Kdc
  PROVE  DataTypes' /\ Getting' /\ Storing' /\ Renewing' /\ Crossing'
<1>1. /\ Running /\ Current.op = "kdc" /\ pc' = pc + 1 /\ UNCHANGED <<fn, rd, cache, buf>>
  BY DEF Kdc, Advance
<1>2. /\ pc \in Nat
      /\ <<fn, pc>> \in {<<"renew", 11>>, <<"renew_buffer", 7>>, <<"deladdr_buffer", 7>>, <<"cross_realm_buffer", 6>>}
  BY <1>1, AtCall DEF Placed
<1>3. Subject[1] \in Local
  <2>1. CASE fn = "renew"
    BY <1>2, <2>1 DEF DataInv, DataTypes, Renewing, Subject, OneOf
  <2>2. CASE fn # "renew"
    <3>1. buf \in Credential
      BY <1>2, <2>2 DEF DataInv, DataTypes, Renewing, Crossing
    <3>2. Subject = << buf[1] >>
      BY <1>2, <2>2, <3>1, FirstTgt DEF Subject
    <3> QED
      BY <3>1, <3>2, CredentialIs
  <2> QED
    BY <2>1, <2>2
<1>4. PICK g \in Granted(Subject[1]) : work' = [work EXCEPT !.out = << g >>]
  BY DEF Kdc
<1>5. IF fn \in {"renew", "renew_buffer", "deladdr_buffer"} THEN g \in Local ELSE g \in Foreign
  BY <1>3, <1>4, GrantedIs DEF Kdc
<1>6. /\ work'.tgt = work.tgt /\ work'.cross = work.cross /\ work'.out = << g >>
      /\ work' = [tgt |-> work'.tgt, cross |-> work'.cross, out |-> work'.out]
  <2>1. work = [tgt |-> work.tgt, cross |-> work.cross, out |-> work.out]
    BY DEF DataInv, DataTypes
  <2> QED
    BY <1>4, <2>1
<1>7. DataTypes'
  BY <1>1, <1>6 DEF DataInv, DataTypes
<1>8. Renewing' /\ Crossing'
  BY <1>1, <1>2, <1>5, <1>6 DEF DataInv, Renewing, Crossing, OneOf
<1> QED
  BY <1>1, <1>2, <1>7, <1>8 DEF DataInv, Getting, Storing

\* The credential is packed: the TGT of the realm goes first.
LEMMA PackStep ==
  ASSUME DataInv, Pack
  PROVE  DataTypes' /\ Getting' /\ Storing' /\ Renewing' /\ Crossing'
<1>1. /\ Running /\ Current.op \in {"mk_ncred", "mk_1cred"} /\ pc' = pc + 1 /\ UNCHANGED <<fn, rd, cache, buf>>
      /\ work' = [work EXCEPT !.out = Packed]
  BY DEF Pack, Advance
<1>2. /\ pc \in Nat
      /\ <<fn, pc>> \in {<<"renew_buffer", 8>>, <<"deladdr_buffer", 8>>, <<"get", 9>>, <<"cross_realm_buffer", 7>>}
  BY <1>1, AtCall DEF Placed
<1>3. /\ work'.tgt = work.tgt /\ work'.cross = work.cross /\ work'.out = Packed
      /\ work' = [tgt |-> work'.tgt, cross |-> work'.cross, out |-> work'.out]
  <2>1. work = [tgt |-> work.tgt, cross |-> work.cross, out |-> work.out]
    BY DEF DataInv, DataTypes
  <2> QED
    BY <1>1, <2>1
<1>4. DataTypes'
  BY <1>1, <1>3 DEF DataInv, DataTypes
<1>5. Getting'
  <2> SUFFICES ASSUME fn = "get" PROVE Getting'
    BY <1>1 DEF Getting
  <2>1. pc = 9 /\ Packed = Both(work.tgt, work.cross)
    BY <1>2 DEF Packed, Both
  <2>2. /\ cache # Absent /\ work.tgt # <<>>
        /\ cache = buf => work.tgt[1] = buf[1]
    BY <2>1 DEF DataInv, Getting
  <2>3. work'.out = Both(work'.tgt, work'.cross)
    BY <1>3, <2>1, Zenon
  <2> QED
    BY <1>1, <1>3, <2>1, <2>2, <2>3 DEF Getting
<1>6. Renewing'
  BY <1>1, <1>2, <1>3 DEF DataInv, Renewing, Packed
<1>7. Crossing'
  <2> SUFFICES ASSUME fn = "cross_realm_buffer" PROVE Crossing'
    BY <1>1 DEF Crossing
  <2>1. pc = 7 /\ buf \in Credential
    BY <1>2 DEF DataInv, DataTypes, Crossing
  <2>2. PICK x \in Foreign : work.out = << x >>
    BY <2>1 DEF DataInv, Crossing, OneOf
  <2>3. Packed = << buf[1], x >>
    BY <2>1, <2>2, Packs, CredentialIs DEF Packed
  <2> QED
    BY <1>1, <1>3, <2>1, <2>3 DEF DataInv, Crossing
<1> QED
  BY <1>1, <1>2, <1>4, <1>5, <1>6, <1>7 DEF DataInv, Storing

\* The cache is emptied, and what is stored in it after that is what comes next in the credential.
LEMMA StoreStep ==
  ASSUME DataInv, Initialize \/ StoreCred
  PROVE  DataTypes' /\ Getting' /\ Storing' /\ Renewing' /\ Crossing'
<1>1. Running /\ Current.op \in {"initialize", "store_cred"} /\ UNCHANGED <<fn, work, buf>>
  BY DEF Initialize, StoreCred, Advance
<1>2. pc \in Nat /\ fn = "store" /\ pc = (IF Current.op = "initialize" THEN 5 ELSE 6)
  BY <1>1, AtCall DEF Placed
<1>3. buf \in Credential /\ rd \in Nat
  BY <1>2 DEF DataInv, DataTypes, Storing
<1>4. buf \in Seq(Ticket) /\ Len(buf) \in {1, 2}
  BY <1>3, CredentialIs
<1>5. CASE Initialize
  <2>1. pc = 5 /\ cache' = <<>> /\ pc' = 6 /\ rd' = rd /\ rd = 0
    BY <1>2, <1>5 DEF Initialize, Advance, DataInv, Storing
  <2>2. SubSeq(buf, 1, 0) = <<>>
    BY <1>4, SubSeqEmpty
  <2>3. DataTypes'
    BY <1>1, <2>1 DEF DataInv, DataTypes
  <2>4. Storing'
    BY <1>1, <1>2, <1>4, <2>1, <2>2 DEF DataInv, Storing
  <2> QED
    BY <1>1, <1>2, <2>3, <2>4 DEF Getting, Renewing, Crossing
<1>6. CASE StoreCred
  <2>1. /\ pc = 6 /\ cache' = Append(cache, buf[rd + 1]) /\ rd' = rd + 1
        /\ pc' = IF rd' = Len(buf) THEN 7 ELSE 6
        /\ rd < Len(buf) /\ cache = SubSeq(buf, 1, rd)
    BY <1>2, <1>6 DEF StoreCred, DataInv, Storing
  <2>2. cache \in Seq(Ticket) /\ buf[rd + 1] \in Ticket
    BY <1>3, <1>4, <2>1
  <2>3. cache' = SubSeq(buf, 1, rd') /\ cache' \in Seq(Ticket)
    <3>1. SubSeq(buf, 1, rd + 1) = SubSeq(buf, 1, rd) \o << buf[rd + 1] >>
      BY <1>3, <1>4, <2>1, SubSeqRecursiveSecond
    <3>2. Append(cache, buf[rd + 1]) = cache \o << buf[rd + 1] >>
      BY <2>2, AppendIsConcat
    <3>3. Append(cache, buf[rd + 1]) \in Seq(Ticket)
      BY <2>2
    <3> QED
      BY <2>1, <3>1, <3>2, <3>3, Zenon
  <2>4. rd' = Len(buf) => cache' = buf
    BY <1>4, <2>3, SubSeqFull
  <2>5. DataTypes'
    BY <1>1, <1>3, <2>1, <2>3 DEF DataInv, DataTypes
  <2>6. Storing'
    BY <1>1, <1>2, <1>3, <1>4, <2>1, <2>3, <2>4 DEF DataInv, Storing
  <2> QED
    BY <1>1, <1>2, <2>5, <2>6 DEF Getting, Renewing, Crossing
<1> QED
  BY <1>5, <1>6

\* A function begins, or returns.
LEMMA CallStep ==
  ASSUME DataInv, NEW f \in Fns, Call(f)
  PROVE  DataTypes' /\ Getting' /\ Storing' /\ Renewing' /\ Crossing'
<1>1. /\ fn' = f /\ pc' = 1 /\ rd' = 0 /\ UNCHANGED <<cache, buf>>
      /\ work' = [tgt |-> <<>>, cross |-> <<>>, out |-> <<>>]
      /\ f \in {"store", "renew_buffer", "cross_realm_buffer", "deladdr_buffer"} => buf # <<>>
  BY DEF Call, NoTickets
<1>2. DataTypes'
  BY <1>1 DEF DataInv, DataTypes
<1> QED
  BY <1>1, <1>2 DEF Getting, Storing, Renewing, Crossing

LEMMA FailsStep ==
  ASSUME DataInv, Fails
  PROVE  DataTypes' /\ Getting' /\ Storing' /\ Renewing' /\ Crossing'
<1>1. fn' = "idle" /\ UNCHANGED <<rd, work, cache, buf>>
  BY DEF Fails, Leave
<1> QED
  BY <1>1 DEF DataInv, DataTypes, Getting, Storing, Renewing, Crossing

\* What a function hands over is a credential.
LEMMA HandedOver ==
  ASSUME DataInv, Returns
  PROVE  /\ fn # "idle" /\ ~Running /\ fn' = "idle" /\ UNCHANGED <<rd, work, cache>> /\ status' = "ok"
         /\ pc = Len(BodyOf[fn].calls) + 1
         /\ buf' = IF fn \in Getters \ {"get_fwd"} THEN work.out ELSE buf
<1>1. /\ fn # "idle" /\ ~Running /\ fn' = "idle" /\ UNCHANGED <<rd, work, cache>> /\ status' = "ok"
      /\ buf' = IF "buffer" \in held /\ fn # "get_fwd" THEN work.out ELSE buf
  BY DEF Returns, Leave
<1>2. ExitOK(fn) /\ pc = Len(BodyOf[fn].calls) + 1
  BY <1>1, RunningIs DEF DataInv, KrbInv, FunctionOK
<1>3. "buffer" \in held <=> "buffer" \in Held[fn][pc]
  BY <1>1 DEF DataInv, KrbInv, HeldOK, Copies
<1>4. "buffer" \in held <=> fn \in Getters
  BY <1>2, <1>3 DEF ExitOK
<1> QED
  BY <1>1, <1>2, <1>4

LEMMA ReturnsStep ==
  ASSUME DataInv, Returns
  PROVE  DataTypes' /\ Getting' /\ Storing' /\ Renewing' /\ Crossing'
<1>1. fn' = "idle" /\ UNCHANGED <<rd, work, cache>> /\ pc = Len(BodyOf[fn].calls) + 1
      /\ buf' = IF fn \in Getters \ {"get_fwd"} THEN work.out ELSE buf
  BY HandedOver
<1>2. ASSUME fn = "get" PROVE buf' \in Credential
  <2>1. pc = 11
    BY <1>1, <1>2, GetCalls
  <2>2. work.tgt \in OneOf(Local) /\ work.cross \in {<<>>} \cup OneOf(Foreign) /\ work.out = work.tgt \o work.cross
    BY <1>2, <2>1 DEF DataInv, DataTypes, Getting, Both
  <2>3. work.out \in Credential
    <3>1. PICK t \in Local : work.tgt = << t >>
      BY <2>2 DEF OneOf
    <3>2. CASE work.cross = <<>>
      BY <2>2, <3>1, <3>2, Packs, Zenon
    <3>3. ASSUME NEW x \in Foreign, work.cross = << x >> PROVE work.out \in Credential
      BY <2>2, <3>1, <3>3, Packs, Zenon
    <3> QED
      BY <2>2, <3>2, <3>3 DEF OneOf
  <2> QED
    BY <1>1, <1>2, <2>3 DEF Getters
<1>3. ASSUME fn \in {"renew_buffer", "deladdr_buffer"} PROVE buf' \in Credential
  <2>1. pc = 10
    <3>1. Len(BodyOf["renew_buffer"].calls) = 9
      BY RenewBufferCalls
    <3>2. Len(BodyOf["deladdr_buffer"].calls) = 9
      BY DeladdrBufferCalls
    <3>3. Len(BodyOf[fn].calls) = 9
      BY <1>3, <3>1, <3>2, Zenon
    <3> QED
      BY <1>1, <3>3
  <2>2. work.out \in OneOf(Local)
    BY <1>3, <2>1 DEF DataInv, Renewing
  <2> QED
    BY <1>1, <1>3, <2>2, Packs DEF Getters, OneOf
<1>4. ASSUME fn = "cross_realm_buffer" PROVE buf' \in Credential
  <2>1. pc = 9
    BY <1>1, <1>4, CrossRealmBufferCalls
  <2>2. buf \in Credential
    BY <1>4 DEF DataInv, DataTypes, Crossing
  <2>3. work.out \in {<< buf[1], x >> : x \in Foreign}
    BY <1>4, <2>1 DEF DataInv, Crossing
  <2>4. work.out \in Credential
    BY <2>2, <2>3, CredentialIs, Packs
  <2> QED
    BY <1>1, <1>4, <2>4 DEF Getters
<1>5. buf' \in {<<>>} \cup Credential
  BY <1>1, <1>2, <1>3, <1>4 DEF Getters, DataInv, DataTypes
<1> QED
  BY <1>1, <1>5 DEF DataInv, DataTypes, Getting, Storing, Renewing, Crossing

LEMMA DataStep ==
  ASSUME DataInv, [KrbNext]_krbVars
  PROVE  DataInv'
<1>1. KrbInv'
  BY KrbStep DEF DataInv
<1>2. CASE UNCHANGED krbVars
  <2>1. UNCHANGED <<fn, pc, rd, work, cache, buf>>
    BY <1>2 DEF krbVars
  <2>2. DataTypes'
    BY <2>1 DEF DataInv, DataTypes
  <2> QED
    BY <1>1, <2>1, <2>2 DEF DataInv, Getting, Storing, Renewing, Crossing
<1>3. CASE Destroy
  <2>1. /\ Running /\ Current.op = "destroy" /\ UNCHANGED <<fn, rd, work, buf>> /\ cache' = Absent
    BY <1>3 DEF Destroy, Advance
  <2>2. fn = "cc_destroy"
    BY <2>1, AtCall DEF Placed
  <2>3. DataTypes'
    BY <2>1 DEF DataInv, DataTypes
  <2> QED
    BY <1>1, <2>1, <2>2, <2>3 DEF DataInv, Getting, Storing, Renewing, Crossing
<1>4. CASE \E f \in Fns : Call(f)
  BY <1>1, <1>4, CallStep DEF DataInv
<1>5. CASE Succeed \/ Release \/ ReadNotCopied \/ ReadEnd \/ Test
  BY <1>1, <1>5, PassingStep DEF DataInv
<1>6. CASE ReadNext
  BY <1>1, <1>6, ReadNextStep DEF DataInv
<1>7. CASE Kdc
  BY <1>1, <1>7, KdcStep DEF DataInv
<1>8. CASE Pack
  BY <1>1, <1>8, PackStep DEF DataInv
<1>9. CASE Initialize \/ StoreCred
  BY <1>1, <1>9, StoreStep DEF DataInv
<1>10. CASE Fails
  BY <1>1, <1>10, FailsStep DEF DataInv
<1>11. CASE Returns
  BY <1>1, <1>11, ReturnsStep DEF DataInv
<1> QED
  BY <1>2, <1>3, <1>4, <1>5, <1>6, <1>7, <1>8, <1>9, <1>10, <1>11 DEF KrbNext

LEMMA LibTypes ==
  /\ LibInit => DataInv
  /\ DataInv /\ [LibNext]_libVars => DataInv' /\ [KrbNext]_krbVars
<1>1. LibInit => DataInv
  <2> SUFFICES ASSUME KrbInit PROVE DataInv
    BY DEF LibInit
  <2>1. /\ fn = "idle" /\ rd = 0 /\ work = [tgt |-> <<>>, cross |-> <<>>, out |-> <<>>]
        /\ cache \in Caches /\ buf \in Inputs
    BY DEF KrbInit, NoTickets
  <2>2. DataTypes
    BY <2>1, KrbCredAssumption DEF DataTypes
  <2> QED
    BY <2>1, <2>2 DEF DataInv, KrbInv, PlaceOK, HeldOK, Getting, Storing, Renewing, Crossing
<1>2. [LibNext]_libVars => [KrbNext]_krbVars
  BY DEF LibNext, libVars
<1> QED
  BY <1>1, <1>2, DataStep

----------------------------------------------------------------------------
(* What is true of the operations on credentials                           *)

\* Between two calls of libkrb5 a function holds what its table says, and has found, packed
\* and stored what the place that it is at says.
THEOREM CredentialsInvariant == LibSpec => []DataInv
BY LibTypes, PTL DEF LibSpec

\* The first ticket of an auks credential is the TGT of the realm, after any sequence of get,
\* get_fwd, renew_buffer, cross_realm_buffer and deladdr_buffer.
THEOREM TgtIsFirst == LibSpec => []FirstIsTgt
<1>1. DataInv => FirstIsTgt
  BY CredentialIs DEF DataInv, DataTypes, FirstIsTgt, Local, IsTgt
<1> QED
  BY <1>1, CredentialsInvariant, PTL

\* The steps that end a function.
LEMMA EndsBy ==
  ASSUME DataInv, [KrbNext]_krbVars, fn # "idle", fn' = "idle"
  PROVE  Fails \/ Returns
<1>1. "idle" \notin AllFns
  BY DEF AllFns
<1> QED
  BY <1>1 DEF KrbNext, krbVars, Call, Succeed, Release, ReadNext, ReadNotCopied, ReadEnd, Test, Kdc, Pack, Initialize,
     StoreCred, Destroy, Advance

\* Whichever call fails, a function has released all it acquired when it returns, but for
\* the buffer it hands over; auks_krb5_cred_get, _renew and auks_krb5_cc_new_unique excepted.
THEOREM EverythingIsReleased == LibSpec => NothingHeldAtExit
<1>1. ASSUME DataInv, [KrbNext]_krbVars, fn \notin Leaky, fn # "idle", fn' = "idle"
      PROVE  held' = {} /\ lost' = {}
  BY <1>1, EndsBy, WayOut DEF DataInv
<1>2. DataInv /\ [LibNext]_libVars
        => [(fn \notin Leaky /\ fn # "idle" /\ fn' = "idle") => (held' = {} /\ lost' = {})]_krbVars
  BY <1>1, LibTypes
<1> QED
  BY <1>2, CredentialsInvariant, PTL DEF LibSpec, NothingHeldAtExit

\* No function but auks_krb5_cred_renew and auks_krb5_cc_destroy releases what it does not hold.
THEOREM OnlyHeldIsReleased == LibSpec => ReleasesWhatItHolds
<1>1. ASSUME DataInv, [KrbNext]_krbVars, misused', ~misused
      PROVE  fn \in Careless
  <2>1. CASE Release
    <3>1. /\ Running /\ Current.op = "drop" /\ fn # "idle"
          /\ misused' = (misused \/ Current.res \notin held \cup BodyOf[fn].null)
      BY <2>1 DEF Release, Running
    <3>2. CallOK(fn, pc)
      BY <1>1, <3>1, RunningIs DEF DataInv, KrbInv
    <3>3. held \ Copies = Held[fn][pc]
      BY <1>1, <3>1 DEF DataInv, KrbInv, HeldOK
    <3>4. fn \notin Careless => Current.res \in Held[fn][pc] \cup BodyOf[fn].null
      BY <3>1, <3>2 DEF CallOK, Current
    <3> QED
      BY <1>1, <3>1, <3>3, <3>4
  <2>2. CASE Fails \/ Returns
    BY <1>1, <2>2, WayOut DEF DataInv
  <2>3. CASE ~Release /\ ~Fails /\ ~Returns
    BY <1>1, <2>3 DEF KrbNext, krbVars, Call, Succeed, ReadNext, ReadNotCopied, ReadEnd, Test, Kdc, Pack, Initialize,
       StoreCred, Destroy, Advance
  <2> QED
    BY <2>1, <2>2, <2>3
<1>2. DataInv /\ [LibNext]_libVars => [(misused' /\ ~misused) => fn \in Careless]_krbVars
  BY <1>1, LibTypes
<1> QED
  BY <1>2, CredentialsInvariant, PTL DEF LibSpec, ReleasesWhatItHolds

\* When auks_krb5_cred_store succeeds the cache holds the tickets of the credential and no others.
THEOREM StoreIsWhole == LibSpec => StoredWhole
<1>1. ASSUME DataInv, [KrbNext]_krbVars, fn = "store", fn' = "idle", status' = "ok"
      PROVE  cache' = buf
  <2>1. Returns
    BY <1>1, EndsBy DEF Fails, Leave
  <2>2. pc = 7 /\ cache' = cache
    BY <1>1, <2>1, HandedOver, StoreCalls
  <2> QED
    BY <1>1, <2>2 DEF DataInv, Storing
<1>2. DataInv /\ [LibNext]_libVars => [(fn = "store" /\ fn' = "idle" /\ status' = "ok") => cache' = buf]_krbVars
  BY <1>1, LibTypes
<1> QED
  BY <1>2, CredentialsInvariant, PTL DEF LibSpec, StoredWhole

\* auks_krb5_cred_get takes the same TGT out of a cache that holds a credential, wherever its
\* reading of the cache ends.
THEOREM StoredIsFoundAgain == LibSpec => SurvivesStore
<1>1. ASSUME DataInv, [KrbNext]_krbVars, fn = "get", fn' = "idle", status' = "ok", cache = buf
      PROVE  buf'[1] = buf[1]
  <2>1. Returns
    BY <1>1, EndsBy DEF Fails, Leave
  <2>2. pc = 11 /\ buf' = work.out
    BY <1>1, <2>1, HandedOver, GetCalls DEF Getters
  <2>3. /\ work.tgt \in OneOf(Local) /\ work.cross \in {<<>>} \cup OneOf(Foreign)
        /\ work.out = work.tgt \o work.cross /\ work.tgt[1] = buf[1]
    BY <1>1, <2>2 DEF DataInv, DataTypes, Getting, Both
  <2>4. work.out[1] = work.tgt[1]
    <3>1. PICK t \in Local : work.tgt = << t >>
      BY <2>3 DEF OneOf
    <3>2. CASE work.cross = <<>>
      BY <2>3, <3>1, <3>2, Packs
    <3>3. ASSUME NEW x \in Foreign, work.cross = << x >> PROVE work.out[1] = work.tgt[1]
      <4>1. work.out = << t, x >>
        BY <2>3, <3>1, <3>3, Packs, Zenon
      <4> QED
        BY <3>1, <4>1
    <3> QED
      BY <2>3, <3>2, <3>3 DEF OneOf
  <2> QED
    BY <2>2, <2>3, <2>4
<1>2. DataInv /\ [LibNext]_libVars =>
        [(fn = "get" /\ fn' = "idle" /\ status' = "ok" /\ cache = buf) => buf'[1] = buf[1]]_krbVars
  BY <1>1, LibTypes
<1> QED
  BY <1>2, CredentialsInvariant, PTL DEF LibSpec, SurvivesStore

----------------------------------------------------------------------------
(* The streams: what the flags stand for, and what else there is           *)

Basic == {"context", "auth_context"}
Key(s) == IF s = "client" THEN "ccache" ELSE "keytab"
Opened(s) == Basic \cup {Key(s), "local_principal"}
Full(s) == Opened(s) \cup {"remote_principal"}

\* Before each call of a part, and after the last one.
FlagsIn(s) ==
  [base |-> << {}, {}, {}, {"context"}, Basic >>, rcache |-> << Basic, Basic, Basic >>,
   addresses |-> << Basic, Basic, Basic >>,
   clnt_init |-> << Basic, Basic \cup {"ccache"}, Opened("client") >>,
   clnt_auth |-> << Opened("client"), Full("client"), Full("client") >>,
   srv_init |-> << Basic, Basic \cup {"keytab"}, Opened("server") >>,
   srv_auth |-> << Opened("server"), Opened("server"), Opened("server"), Full("server"), Full("server") >>,
   principal |-> << Full(s), Full(s), Full(s) >>,
   role |-> << Full(s), Full(s) >>,
   ask |-> << Full(s), Full(s), Full(s) >>,
   obtain |-> << Full(s), Full(s), Full(s), Full(s), Full(s), Full(s) >>,
   load |-> << Full(s), Full(s), Full(s) >>,
   process |-> << Full(s), Full(s), Full(s) >>,
   answer |-> << Full(s), Full(s), Full(s) >>,
   again |-> << Full(s), Full(s), Full(s), Full(s), Full(s) >>]

Handled == {"buffer", "request", "reply"}

OthersIn ==
  [base |-> << {}, {}, {}, {}, {} >>, rcache |-> << {}, {"rcache"}, {} >>, addresses |-> << {}, {}, {} >>,
   clnt_init |-> << {}, {}, {} >>, clnt_auth |-> << {}, {}, {} >>, srv_init |-> << {}, {}, {} >>,
   srv_auth |-> << {}, {}, {"authenticator"}, {"authenticator"}, {} >>,
   principal |-> << {}, {"name"}, {} >>, role |-> << {}, {} >>, ask |-> << {}, {"cyphered"}, {} >>,
   obtain |-> << {}, {"cyphered"}, {"cyphered", "plain"}, {"cyphered", "plain", "buffer"}, {"cyphered", "buffer"},
                 {"buffer"} >>,
   load |-> << {"buffer"}, {"buffer", "reply"}, {"reply"} >>,
   process |-> << {"buffer"}, {"buffer", "request"}, Handled >>,
   answer |-> << Handled, Handled \cup {"cyphered"}, Handled >>,
   again |-> << Handled, {"buffer", "request"}, {"buffer"}, {}, {} >>]

\* What a client keeps is what it releases last.
Kept(s) == IF s = "client" THEN {"reply"} ELSE {}

\* The way out from a label releases everything once.
LeavesNothing(s, label, F, H) ==
  LET flagged == F \ Clears(label)
      kept    == H \ Releases(label)
      freed   == IF FreesContents(label) THEN flagged ELSE {}
  IN  Releases(label) \subseteq H /\ freed \subseteq kept /\ kept \ freed \subseteq Kept(s)

StreamCallOK(s, p, i) ==
  LET c == Parts[p][i]
      F == FlagsIn(s)[p][i]
      H == F \cup OthersIn[p][i]
      F1 == FlagsIn(s)[p][i + 1]
      H1 == F1 \cup OthersIn[p][i + 1]
  IN  /\ F1 = IF c.op = "flagged" THEN F \cup {c.res} ELSE F
      /\ c.op \in {"take", "flagged"} => c.res \notin H /\ H1 = H \cup {c.res}
      /\ c.op \in {"drop", "use"} => c.res \in H /\ H1 = H \ {c.res}
      /\ c.op \notin {"take", "flagged", "drop", "use"} => H1 = H
      /\ c.op = "again" => F = Full(s) /\ H = Full(s)
      /\ c.label # "none" => LeavesNothing(s, c.label, F, IF c.op = "use" THEN H \ {c.res} ELSE H)

PartOK(s, p) ==
  /\ Len(Parts[p]) \in Nat \ {0}
  /\ \A i \in 1 .. Len(Parts[p]) : StreamCallOK(s, p, i)

\* A part that leads from these flags and these other resources to those.
PartRuns(s, p, F, X, F1, X1) ==
  /\ PartOK(s, p)
  /\ FlagsIn(s)[p][1] = F /\ OthersIn[p][1] = X
  /\ FlagsIn(s)[p][Len(Parts[p]) + 1] = F1 /\ OthersIn[p][Len(Parts[p]) + 1] = X1

\* One part follows another.
Starts(s, p, F) == FlagsIn(s)[p][1] = F /\ OthersIn[p][1] = {}

Follows(s, p, q) ==
  /\ FlagsIn(s)[q][1] = FlagsIn(s)[p][Len(Parts[p]) + 1]
  /\ OthersIn[q][1] = OthersIn[p][Len(Parts[p]) + 1]

AttemptOK(s) ==
  LET A == Attempt[s]
      n == Len(A)
  IN  /\ n \in Nat \ {0} /\ Opening[s] + 1 \in 1 .. n
      /\ \A k \in 1 .. n : PartOK(s, A[k])
      /\ \A k \in 1 .. n - 1 : Follows(s, A[k], A[k + 1])
      /\ Starts(s, A[1], {}) /\ Starts(s, A[Opening[s] + 1], Full(s))
      /\ FlagsIn(s)[A[n]][Len(Parts[A[n]]) + 1] = Full(s)
      /\ OthersIn[A[n]][Len(Parts[A[n]]) + 1] \subseteq Kept(s)

\* The labels of the functions on streams.
LEMMA WaysOut ==
  /\ Releases("exit") = {} /\ Releases("ctx_exit") = {"context"}
  /\ Releases("auth_ctx_exit") = {"context", "auth_context"} /\ Releases("init_exit") = {}
  /\ Releases("cc_exit") = {"ccache"} /\ Releases("kt_exit") = {"keytab"} /\ Releases("kstream") = {}
  /\ Releases("auth_exit") = {"authenticator"} /\ Releases("read_exit") = {"cyphered"}
  /\ Releases("malloc_exit") = {"plain", "cyphered"} /\ Releases("req_exit") = {"buffer"}
  /\ Releases("msg_exit") = {"request", "buffer"} /\ Releases("rep_exit") = {"reply", "request", "buffer"}
  /\ Clears("exit") = {} /\ Clears("ctx_exit") = {} /\ Clears("auth_ctx_exit") = {} /\ Clears("init_exit") = {}
  /\ Clears("cc_exit") = {"ccache"} /\ Clears("kt_exit") = {"keytab"} /\ Clears("kstream") = {}
  /\ Clears("auth_exit") = {} /\ Clears("read_exit") = {} /\ Clears("malloc_exit") = {}
  /\ Clears("req_exit") = {} /\ Clears("msg_exit") = {} /\ Clears("rep_exit") = {} /\ ~FreesContents("exit")
  /\ ~FreesContents("ctx_exit") /\ ~FreesContents("auth_ctx_exit") /\ FreesContents("init_exit")
  /\ FreesContents("cc_exit") /\ FreesContents("kt_exit") /\ FreesContents("kstream")
  /\ FreesContents("auth_exit") /\ FreesContents("read_exit") /\ FreesContents("malloc_exit")
  /\ FreesContents("req_exit") /\ FreesContents("msg_exit") /\ FreesContents("rep_exit")
BY DEF Releases, Clears, FreesContents

LEMMA NotFlagged ==
  ASSUME NEW s
  PROVE  Full(s) \cap {"cyphered", "plain", "buffer", "request", "reply", "name", "authenticator", "rcache"} = {}
BY DEF Full, Opened, Key, Basic

\* The parts of an attempt, one by one.
LEMMA BasePart ==
  ASSUME NEW s \in AllSides
  PROVE  PartRuns(s, "base", {}, {}, Basic, {})
<1>1. /\ Len(Parts["base"]) = 4 /\ Parts["base"][1] = Try("getsockname", "exit")
      /\ Parts["base"][2] = Try("getpeername", "exit") /\ Parts["base"][3] = Flagged("context", "exit")
      /\ Parts["base"][4] = Flagged("auth_context", "ctx_exit")
  BY DEF Parts, Base
<1>2. /\ FlagsIn(s)["base"][1] = {} /\ FlagsIn(s)["base"][2] = {} /\ FlagsIn(s)["base"][3] = {}
      /\ FlagsIn(s)["base"][4] = {"context"} /\ FlagsIn(s)["base"][5] = Basic /\ OthersIn["base"][1] = {}
      /\ OthersIn["base"][2] = {} /\ OthersIn["base"][3] = {} /\ OthersIn["base"][4] = {}
      /\ OthersIn["base"][5] = {}
  BY DEF FlagsIn, OthersIn
<1>3. PartOK(s, "base")
  <2> USE <1>1, <1>2, WaysOut
      DEF StreamCallOK, LeavesNothing, Kept, Basic, Flagged, Use, Take, Drop, Try, Step
  <2>1. StreamCallOK(s, "base", 1)
    OBVIOUS
  <2>2. StreamCallOK(s, "base", 2)
    OBVIOUS
  <2>3. StreamCallOK(s, "base", 3)
    OBVIOUS
  <2>4. StreamCallOK(s, "base", 4)
    OBVIOUS
  <2> HIDE DEF StreamCallOK
  <2> QED
    BY <2>1, <2>2, <2>3, <2>4 DEF PartOK
<1> QED
  BY <1>1, <1>2, <1>3 DEF PartRuns

LEMMA ReplayCachePart ==
  ASSUME NEW s \in {"bare"}
  PROVE  PartRuns(s, "rcache", Basic, {}, Basic, {})
<1>1. /\ Len(Parts["rcache"]) = 2 /\ Parts["rcache"][1] = Take("rcache", "auth_ctx_exit")
      /\ Parts["rcache"][2] = Use("rcache", "auth_ctx_exit")
  BY DEF Parts, ReplayCache
<1>2. /\ FlagsIn(s)["rcache"][1] = Basic /\ FlagsIn(s)["rcache"][2] = Basic /\ FlagsIn(s)["rcache"][3] = Basic
      /\ OthersIn["rcache"][1] = {} /\ OthersIn["rcache"][2] = {"rcache"} /\ OthersIn["rcache"][3] = {}
  BY DEF FlagsIn, OthersIn
<1>3. PartOK(s, "rcache")
  <2> USE <1>1, <1>2, WaysOut
      DEF StreamCallOK, LeavesNothing, Kept, Basic, Flagged, Use, Take, Drop, Try, Step
  <2>1. StreamCallOK(s, "rcache", 1)
    OBVIOUS
  <2>2. StreamCallOK(s, "rcache", 2)
    OBVIOUS
  <2> HIDE DEF StreamCallOK
  <2> QED
    BY <2>1, <2>2 DEF PartOK
<1> QED
  BY <1>1, <1>2, <1>3 DEF PartRuns

LEMMA AddressesPart ==
  ASSUME NEW s \in AllSides
  PROVE  PartRuns(s, "addresses", Basic, {}, Basic, {})
<1>1. /\ Len(Parts["addresses"]) = 2 /\ Parts["addresses"][1] = Try("setaddrs", "auth_ctx_exit")
      /\ Parts["addresses"][2] = Try("setflags", "auth_ctx_exit")
  BY DEF Parts, Addresses
<1>2. /\ FlagsIn(s)["addresses"][1] = Basic /\ FlagsIn(s)["addresses"][2] = Basic
      /\ FlagsIn(s)["addresses"][3] = Basic /\ OthersIn["addresses"][1] = {} /\ OthersIn["addresses"][2] = {}
      /\ OthersIn["addresses"][3] = {}
  BY DEF FlagsIn, OthersIn
<1>3. PartOK(s, "addresses")
  <2> USE <1>1, <1>2, WaysOut
      DEF StreamCallOK, LeavesNothing, Kept, Basic, Flagged, Use, Take, Drop, Try, Step
  <2>1. StreamCallOK(s, "addresses", 1)
    OBVIOUS
  <2>2. StreamCallOK(s, "addresses", 2)
    OBVIOUS
  <2> HIDE DEF StreamCallOK
  <2> QED
    BY <2>1, <2>2 DEF PartOK
<1> QED
  BY <1>1, <1>2, <1>3 DEF PartRuns

LEMMA ClntInitPart ==
  ASSUME NEW s \in {"client"}
  PROVE  PartRuns(s, "clnt_init", Basic, {}, Opened("client"), {})
<1>1. /\ Len(Parts["clnt_init"]) = 2 /\ Parts["clnt_init"][1] = Flagged("ccache", "init_exit")
      /\ Parts["clnt_init"][2] = Flagged("local_principal", "cc_exit")
  BY DEF Parts, ClntInit
<1>2. /\ FlagsIn(s)["clnt_init"][1] = Basic /\ FlagsIn(s)["clnt_init"][2] = Basic \cup {"ccache"}
      /\ FlagsIn(s)["clnt_init"][3] = Opened("client") /\ OthersIn["clnt_init"][1] = {}
      /\ OthersIn["clnt_init"][2] = {} /\ OthersIn["clnt_init"][3] = {}
  BY DEF FlagsIn, OthersIn
<1>3. PartOK(s, "clnt_init")
  <2> USE <1>1, <1>2, WaysOut
      DEF StreamCallOK, LeavesNothing, Kept, Opened, Key, Basic, Flagged, Use, Take, Drop, Try, Step
  <2>1. StreamCallOK(s, "clnt_init", 1)
    OBVIOUS
  <2>2. StreamCallOK(s, "clnt_init", 2)
    OBVIOUS
  <2> HIDE DEF StreamCallOK
  <2> QED
    BY <2>1, <2>2 DEF PartOK
<1> QED
  BY <1>1, <1>2, <1>3 DEF PartRuns

LEMMA ClntAuthPart ==
  ASSUME NEW s \in {"client"}
  PROVE  PartRuns(s, "clnt_auth", Opened("client"), {}, Full("client"), {})
<1>1. /\ Len(Parts["clnt_auth"]) = 2 /\ Parts["clnt_auth"][1] = Flagged("remote_principal", "kstream")
      /\ Parts["clnt_auth"][2] = Try("sendauth", "kstream")
  BY DEF Parts, ClntAuth
<1>2. /\ FlagsIn(s)["clnt_auth"][1] = Opened("client") /\ FlagsIn(s)["clnt_auth"][2] = Full("client")
      /\ FlagsIn(s)["clnt_auth"][3] = Full("client") /\ OthersIn["clnt_auth"][1] = {}
      /\ OthersIn["clnt_auth"][2] = {} /\ OthersIn["clnt_auth"][3] = {}
  BY DEF FlagsIn, OthersIn
<1>3. PartOK(s, "clnt_auth")
  <2> USE <1>1, <1>2, WaysOut
      DEF StreamCallOK, LeavesNothing, Kept, Full, Opened, Key, Basic, Flagged, Use, Take, Drop, Try, Step
  <2>1. StreamCallOK(s, "clnt_auth", 1)
    OBVIOUS
  <2>2. StreamCallOK(s, "clnt_auth", 2)
    OBVIOUS
  <2> HIDE DEF StreamCallOK
  <2> QED
    BY <2>1, <2>2 DEF PartOK
<1> QED
  BY <1>1, <1>2, <1>3 DEF PartRuns

LEMMA SrvInitPart ==
  ASSUME NEW s \in {"server", "bare"}
  PROVE  PartRuns(s, "srv_init", Basic, {}, Opened("server"), {})
<1>1. /\ Len(Parts["srv_init"]) = 2 /\ Parts["srv_init"][1] = Flagged("keytab", "init_exit")
      /\ Parts["srv_init"][2] = Flagged("local_principal", "kt_exit")
  BY DEF Parts, SrvInit
<1>2. /\ FlagsIn(s)["srv_init"][1] = Basic /\ FlagsIn(s)["srv_init"][2] = Basic \cup {"keytab"}
      /\ FlagsIn(s)["srv_init"][3] = Opened("server") /\ OthersIn["srv_init"][1] = {}
      /\ OthersIn["srv_init"][2] = {} /\ OthersIn["srv_init"][3] = {}
  BY DEF FlagsIn, OthersIn
<1>3. PartOK(s, "srv_init")
  <2> USE <1>1, <1>2, WaysOut
      DEF StreamCallOK, LeavesNothing, Kept, Opened, Key, Basic, Flagged, Use, Take, Drop, Try, Step
  <2>1. StreamCallOK(s, "srv_init", 1)
    OBVIOUS
  <2>2. StreamCallOK(s, "srv_init", 2)
    OBVIOUS
  <2> HIDE DEF StreamCallOK
  <2> QED
    BY <2>1, <2>2 DEF PartOK
<1> QED
  BY <1>1, <1>2, <1>3 DEF PartRuns

LEMMA SrvAuthPart ==
  ASSUME NEW s \in {"server", "bare"}
  PROVE  PartRuns(s, "srv_auth", Opened("server"), {}, Full("server"), {})
<1>1. /\ Len(Parts["srv_auth"]) = 4 /\ Parts["srv_auth"][1] = Try("recvauth", "kstream")
      /\ Parts["srv_auth"][2] = Take("authenticator", "kstream")
      /\ Parts["srv_auth"][3] = Flagged("remote_principal", "auth_exit")
      /\ Parts["srv_auth"][4] = Drop("authenticator")
  BY DEF Parts, SrvAuth
<1>2. /\ FlagsIn(s)["srv_auth"][1] = Opened("server") /\ FlagsIn(s)["srv_auth"][2] = Opened("server")
      /\ FlagsIn(s)["srv_auth"][3] = Opened("server") /\ FlagsIn(s)["srv_auth"][4] = Full("server")
      /\ FlagsIn(s)["srv_auth"][5] = Full("server") /\ OthersIn["srv_auth"][1] = {}
      /\ OthersIn["srv_auth"][2] = {} /\ OthersIn["srv_auth"][3] = {"authenticator"}
      /\ OthersIn["srv_auth"][4] = {"authenticator"} /\ OthersIn["srv_auth"][5] = {}
  BY DEF FlagsIn, OthersIn
<1>3. PartOK(s, "srv_auth")
  <2> USE <1>1, <1>2, WaysOut
      DEF StreamCallOK, LeavesNothing, Kept, Full, Opened, Key, Basic, Flagged, Use, Take, Drop, Try, Step
  <2>1. StreamCallOK(s, "srv_auth", 1)
    OBVIOUS
  <2>2. StreamCallOK(s, "srv_auth", 2)
    OBVIOUS
  <2>3. StreamCallOK(s, "srv_auth", 3)
    OBVIOUS
  <2>4. StreamCallOK(s, "srv_auth", 4)
    OBVIOUS
  <2> HIDE DEF StreamCallOK
  <2> QED
    BY <2>1, <2>2, <2>3, <2>4 DEF PartOK
<1> QED
  BY <1>1, <1>2, <1>3 DEF PartRuns

LEMMA PrincipalPart ==
  ASSUME NEW s \in {"server", "bare"}
  PROVE  PartRuns(s, "principal", Full(s), {}, Full(s), {})
<1>1. /\ Len(Parts["principal"]) = 2 /\ Parts["principal"][1] = Take("name", "kstream")
      /\ Parts["principal"][2] = Use("name", "kstream")
  BY DEF Parts, PrincipalName
<1>2. /\ FlagsIn(s)["principal"][1] = Full(s) /\ FlagsIn(s)["principal"][2] = Full(s)
      /\ FlagsIn(s)["principal"][3] = Full(s) /\ OthersIn["principal"][1] = {}
      /\ OthersIn["principal"][2] = {"name"} /\ OthersIn["principal"][3] = {}
  BY DEF FlagsIn, OthersIn
<1>3. PartOK(s, "principal")
  <2> USE <1>1, <1>2, WaysOut, NotFlagged
      DEF StreamCallOK, LeavesNothing, Kept, Flagged, Use, Take, Drop, Try, Step
  <2>1. StreamCallOK(s, "principal", 1)
    OBVIOUS
  <2>2. StreamCallOK(s, "principal", 2)
    OBVIOUS
  <2> HIDE DEF StreamCallOK
  <2> QED
    BY <2>1, <2>2 DEF PartOK
<1> QED
  BY <1>1, <1>2, <1>3 DEF PartRuns

LEMMA RolePart ==
  ASSUME NEW s \in {"server", "bare"}
  PROVE  PartRuns(s, "role", Full(s), {}, Full(s), {})
<1>1. /\ Len(Parts["role"]) = 1 /\ Parts["role"][1] = Try("role", "kstream")
  BY DEF Parts
<1>2. /\ FlagsIn(s)["role"][1] = Full(s) /\ FlagsIn(s)["role"][2] = Full(s) /\ OthersIn["role"][1] = {}
      /\ OthersIn["role"][2] = {}
  BY DEF FlagsIn, OthersIn
<1>3. PartOK(s, "role")
  <2> USE <1>1, <1>2, WaysOut, NotFlagged
      DEF StreamCallOK, LeavesNothing, Kept, Flagged, Use, Take, Drop, Try, Step
  <2>1. StreamCallOK(s, "role", 1)
    OBVIOUS
  <2> HIDE DEF StreamCallOK
  <2> QED
    BY <2>1 DEF PartOK
<1> QED
  BY <1>1, <1>2, <1>3 DEF PartRuns

LEMMA AskPart ==
  ASSUME NEW s \in {"client"}
  PROVE  PartRuns(s, "ask", Full(s), {}, Full(s), {})
<1>1. /\ Len(Parts["ask"]) = 2 /\ Parts["ask"][1] = Take("cyphered", "kstream")
      /\ Parts["ask"][2] = Use("cyphered", "kstream")
  BY DEF Parts, Transmit
<1>2. /\ FlagsIn(s)["ask"][1] = Full(s) /\ FlagsIn(s)["ask"][2] = Full(s) /\ FlagsIn(s)["ask"][3] = Full(s)
      /\ OthersIn["ask"][1] = {} /\ OthersIn["ask"][2] = {"cyphered"} /\ OthersIn["ask"][3] = {}
  BY DEF FlagsIn, OthersIn
<1>3. PartOK(s, "ask")
  <2> USE <1>1, <1>2, WaysOut, NotFlagged
      DEF StreamCallOK, LeavesNothing, Kept, Flagged, Use, Take, Drop, Try, Step
  <2>1. StreamCallOK(s, "ask", 1)
    OBVIOUS
  <2>2. StreamCallOK(s, "ask", 2)
    OBVIOUS
  <2> HIDE DEF StreamCallOK
  <2> QED
    BY <2>1, <2>2 DEF PartOK
<1> QED
  BY <1>1, <1>2, <1>3 DEF PartRuns

LEMMA ObtainPart ==
  ASSUME NEW s \in AllSides
  PROVE  PartRuns(s, "obtain", Full(s), {}, Full(s), {"buffer"})
<1>1. /\ Len(Parts["obtain"]) = 5 /\ Parts["obtain"][1] = Take("cyphered", "kstream")
      /\ Parts["obtain"][2] = Take("plain", "read_exit") /\ Parts["obtain"][3] = Take("buffer", "malloc_exit")
      /\ Parts["obtain"][4] = Drop("plain") /\ Parts["obtain"][5] = Drop("cyphered")
  BY DEF Parts, Obtain
<1>2. /\ FlagsIn(s)["obtain"][1] = Full(s) /\ FlagsIn(s)["obtain"][2] = Full(s)
      /\ FlagsIn(s)["obtain"][3] = Full(s) /\ FlagsIn(s)["obtain"][4] = Full(s)
      /\ FlagsIn(s)["obtain"][5] = Full(s) /\ FlagsIn(s)["obtain"][6] = Full(s) /\ OthersIn["obtain"][1] = {}
      /\ OthersIn["obtain"][2] = {"cyphered"} /\ OthersIn["obtain"][3] = {"cyphered", "plain"}
      /\ OthersIn["obtain"][4] = {"cyphered", "plain", "buffer"}
      /\ OthersIn["obtain"][5] = {"cyphered", "buffer"} /\ OthersIn["obtain"][6] = {"buffer"}
  BY DEF FlagsIn, OthersIn
<1>3. PartOK(s, "obtain")
  <2> USE <1>1, <1>2, WaysOut, NotFlagged
      DEF StreamCallOK, LeavesNothing, Kept, Flagged, Use, Take, Drop, Try, Step
  <2>1. StreamCallOK(s, "obtain", 1)
    OBVIOUS
  <2>2. StreamCallOK(s, "obtain", 2)
    OBVIOUS
  <2>3. StreamCallOK(s, "obtain", 3)
    OBVIOUS
  <2>4. StreamCallOK(s, "obtain", 4)
    OBVIOUS
  <2>5. StreamCallOK(s, "obtain", 5)
    OBVIOUS
  <2> HIDE DEF StreamCallOK
  <2> QED
    BY <2>1, <2>2, <2>3, <2>4, <2>5 DEF PartOK
<1> QED
  BY <1>1, <1>2, <1>3 DEF PartRuns

LEMMA LoadPart ==
  ASSUME NEW s \in {"client"}
  PROVE  PartRuns(s, "load", Full(s), {"buffer"}, Full(s), {"reply"})
<1>1. /\ Len(Parts["load"]) = 2 /\ Parts["load"][1] = Take("reply", "req_exit")
      /\ Parts["load"][2] = Drop("buffer")
  BY DEF Parts
<1>2. /\ FlagsIn(s)["load"][1] = Full(s) /\ FlagsIn(s)["load"][2] = Full(s) /\ FlagsIn(s)["load"][3] = Full(s)
      /\ OthersIn["load"][1] = {"buffer"} /\ OthersIn["load"][2] = {"buffer", "reply"}
      /\ OthersIn["load"][3] = {"reply"}
  BY DEF FlagsIn, OthersIn
<1>3. PartOK(s, "load")
  <2> USE <1>1, <1>2, WaysOut, NotFlagged
      DEF StreamCallOK, LeavesNothing, Kept, Flagged, Use, Take, Drop, Try, Step
  <2>1. StreamCallOK(s, "load", 1)
    OBVIOUS
  <2>2. StreamCallOK(s, "load", 2)
    OBVIOUS
  <2> HIDE DEF StreamCallOK
  <2> QED
    BY <2>1, <2>2 DEF PartOK
<1> QED
  BY <1>1, <1>2, <1>3 DEF PartRuns

LEMMA ProcessPart ==
  ASSUME NEW s \in {"server", "bare"}
  PROVE  PartRuns(s, "process", Full(s), {"buffer"}, Full(s), Handled)
<1>1. /\ Len(Parts["process"]) = 2 /\ Parts["process"][1] = Take("request", "req_exit")
      /\ Parts["process"][2] = Take("reply", "msg_exit")
  BY DEF Parts
<1>2. /\ FlagsIn(s)["process"][1] = Full(s) /\ FlagsIn(s)["process"][2] = Full(s)
      /\ FlagsIn(s)["process"][3] = Full(s) /\ OthersIn["process"][1] = {"buffer"}
      /\ OthersIn["process"][2] = {"buffer", "request"} /\ OthersIn["process"][3] = Handled
  BY DEF FlagsIn, OthersIn
<1>3. PartOK(s, "process")
  <2> USE <1>1, <1>2, WaysOut, NotFlagged
      DEF StreamCallOK, LeavesNothing, Kept, Handled, Flagged, Use, Take, Drop, Try, Step
  <2>1. StreamCallOK(s, "process", 1)
    OBVIOUS
  <2>2. StreamCallOK(s, "process", 2)
    OBVIOUS
  <2> HIDE DEF StreamCallOK
  <2> QED
    BY <2>1, <2>2 DEF PartOK
<1> QED
  BY <1>1, <1>2, <1>3 DEF PartRuns

LEMMA AnswerPart ==
  ASSUME NEW s \in {"server", "bare"}
  PROVE  PartRuns(s, "answer", Full(s), Handled, Full(s), Handled)
<1>1. /\ Len(Parts["answer"]) = 2 /\ Parts["answer"][1] = Take("cyphered", "rep_exit")
      /\ Parts["answer"][2] = Use("cyphered", "rep_exit")
  BY DEF Parts, Transmit
<1>2. /\ FlagsIn(s)["answer"][1] = Full(s) /\ FlagsIn(s)["answer"][2] = Full(s)
      /\ FlagsIn(s)["answer"][3] = Full(s) /\ OthersIn["answer"][1] = Handled
      /\ OthersIn["answer"][2] = Handled \cup {"cyphered"} /\ OthersIn["answer"][3] = Handled
  BY DEF FlagsIn, OthersIn
<1>3. PartOK(s, "answer")
  <2> USE <1>1, <1>2, WaysOut, NotFlagged
      DEF StreamCallOK, LeavesNothing, Kept, Handled, Flagged, Use, Take, Drop, Try, Step
  <2>1. StreamCallOK(s, "answer", 1)
    OBVIOUS
  <2>2. StreamCallOK(s, "answer", 2)
    OBVIOUS
  <2> HIDE DEF StreamCallOK
  <2> QED
    BY <2>1, <2>2 DEF PartOK
<1> QED
  BY <1>1, <1>2, <1>3 DEF PartRuns

LEMMA AgainPart ==
  ASSUME NEW s \in {"server", "bare"}
  PROVE  PartRuns(s, "again", Full(s), Handled, Full(s), {})
<1>1. /\ Len(Parts["again"]) = 4 /\ Parts["again"][1] = Drop("reply") /\ Parts["again"][2] = Drop("request")
      /\ Parts["again"][3] = Drop("buffer") /\ Parts["again"][4] = Try("again", "none")
  BY DEF Parts
<1>2. /\ FlagsIn(s)["again"][1] = Full(s) /\ FlagsIn(s)["again"][2] = Full(s)
      /\ FlagsIn(s)["again"][3] = Full(s) /\ FlagsIn(s)["again"][4] = Full(s)
      /\ FlagsIn(s)["again"][5] = Full(s) /\ OthersIn["again"][1] = Handled
      /\ OthersIn["again"][2] = {"buffer", "request"} /\ OthersIn["again"][3] = {"buffer"}
      /\ OthersIn["again"][4] = {} /\ OthersIn["again"][5] = {}
  BY DEF FlagsIn, OthersIn
<1>3. PartOK(s, "again")
  <2> USE <1>1, <1>2, WaysOut, NotFlagged
      DEF StreamCallOK, LeavesNothing, Kept, Handled, Flagged, Use, Take, Drop, Try, Step
  <2>1. StreamCallOK(s, "again", 1)
    OBVIOUS
  <2>2. StreamCallOK(s, "again", 2)
    OBVIOUS
  <2>3. StreamCallOK(s, "again", 3)
    OBVIOUS
  <2>4. StreamCallOK(s, "again", 4)
    OBVIOUS
  <2> HIDE DEF StreamCallOK
  <2> QED
    BY <2>1, <2>2, <2>3, <2>4 DEF PartOK
<1> QED
  BY <1>1, <1>2, <1>3 DEF PartRuns

\* The parts fit together.
LEMMA ClientAttempt == AttemptOK("client")
<1>1. /\ Len(Attempt["client"]) = 7 /\ Opening["client"] = 4 /\ Attempt["client"][1] = "base"
      /\ Attempt["client"][2] = "addresses" /\ Attempt["client"][3] = "clnt_init"
      /\ Attempt["client"][4] = "clnt_auth" /\ Attempt["client"][5] = "ask" /\ Attempt["client"][6] = "obtain"
      /\ Attempt["client"][7] = "load"
  BY DEF Attempt, Opening
<1>2. /\ PartOK("client", "base") /\ PartOK("client", "addresses") /\ PartOK("client", "clnt_init")
      /\ PartOK("client", "clnt_auth") /\ PartOK("client", "ask") /\ PartOK("client", "obtain")
      /\ PartOK("client", "load")
  BY BasePart, AddressesPart, ClntInitPart, ClntAuthPart, AskPart, ObtainPart, LoadPart DEF PartRuns, AllSides
<1>3. /\ Follows("client", "base", "addresses") /\ Follows("client", "addresses", "clnt_init")
      /\ Follows("client", "clnt_init", "clnt_auth") /\ Follows("client", "clnt_auth", "ask")
      /\ Follows("client", "ask", "obtain") /\ Follows("client", "obtain", "load")
  BY BasePart, AddressesPart, ClntInitPart, ClntAuthPart, AskPart, ObtainPart,
     LoadPart DEF PartRuns, Follows, AllSides
<1>4. /\ Starts("client", "base", {}) /\ Starts("client", "ask", Full("client"))
      /\ FlagsIn("client")["load"][Len(Parts["load"]) + 1] = Full("client")
      /\ OthersIn["load"][Len(Parts["load"]) + 1] \subseteq Kept("client")
  BY BasePart, AskPart, LoadPart DEF PartRuns, Starts, Kept, AllSides
<1> QED
  BY <1>1, <1>2, <1>3, <1>4 DEF AttemptOK

LEMMA ServerAttempt == AttemptOK("server")
<1>1. /\ Len(Attempt["server"]) = 10 /\ Opening["server"] = 6 /\ Attempt["server"][1] = "base"
      /\ Attempt["server"][2] = "addresses" /\ Attempt["server"][3] = "srv_init"
      /\ Attempt["server"][4] = "srv_auth" /\ Attempt["server"][5] = "principal"
      /\ Attempt["server"][6] = "role" /\ Attempt["server"][7] = "obtain" /\ Attempt["server"][8] = "process"
      /\ Attempt["server"][9] = "answer" /\ Attempt["server"][10] = "again"
  BY DEF Attempt, Opening
<1>2. /\ PartOK("server", "base") /\ PartOK("server", "addresses") /\ PartOK("server", "srv_init")
      /\ PartOK("server", "srv_auth") /\ PartOK("server", "principal") /\ PartOK("server", "role")
      /\ PartOK("server", "obtain") /\ PartOK("server", "process") /\ PartOK("server", "answer")
      /\ PartOK("server", "again")
  BY BasePart, AddressesPart, SrvInitPart, SrvAuthPart, PrincipalPart, RolePart, ObtainPart, ProcessPart,
     AnswerPart, AgainPart DEF PartRuns, AllSides
<1>3. /\ Follows("server", "base", "addresses") /\ Follows("server", "addresses", "srv_init")
      /\ Follows("server", "srv_init", "srv_auth") /\ Follows("server", "srv_auth", "principal")
      /\ Follows("server", "principal", "role") /\ Follows("server", "role", "obtain")
      /\ Follows("server", "obtain", "process") /\ Follows("server", "process", "answer")
      /\ Follows("server", "answer", "again")
  BY BasePart, AddressesPart, SrvInitPart, SrvAuthPart, PrincipalPart, RolePart, ObtainPart, ProcessPart,
     AnswerPart, AgainPart DEF PartRuns, Follows, AllSides
<1>4. /\ Starts("server", "base", {}) /\ Starts("server", "obtain", Full("server"))
      /\ FlagsIn("server")["again"][Len(Parts["again"]) + 1] = Full("server")
      /\ OthersIn["again"][Len(Parts["again"]) + 1] \subseteq Kept("server")
  BY BasePart, ObtainPart, AgainPart DEF PartRuns, Starts, Kept, AllSides, Full, Opened, Key
<1> QED
  BY <1>1, <1>2, <1>3, <1>4 DEF AttemptOK

LEMMA BareAttempt == AttemptOK("bare")
<1>1. /\ Len(Attempt["bare"]) = 11 /\ Opening["bare"] = 7 /\ Attempt["bare"][1] = "base"
      /\ Attempt["bare"][2] = "rcache" /\ Attempt["bare"][3] = "addresses" /\ Attempt["bare"][4] = "srv_init"
      /\ Attempt["bare"][5] = "srv_auth" /\ Attempt["bare"][6] = "principal" /\ Attempt["bare"][7] = "role"
      /\ Attempt["bare"][8] = "obtain" /\ Attempt["bare"][9] = "process" /\ Attempt["bare"][10] = "answer"
      /\ Attempt["bare"][11] = "again"
  BY DEF Attempt, Opening
<1>2. /\ PartOK("bare", "base") /\ PartOK("bare", "rcache") /\ PartOK("bare", "addresses")
      /\ PartOK("bare", "srv_init") /\ PartOK("bare", "srv_auth") /\ PartOK("bare", "principal")
      /\ PartOK("bare", "role") /\ PartOK("bare", "obtain") /\ PartOK("bare", "process")
      /\ PartOK("bare", "answer") /\ PartOK("bare", "again")
  BY BasePart, ReplayCachePart, AddressesPart, SrvInitPart, SrvAuthPart, PrincipalPart, RolePart, ObtainPart,
     ProcessPart, AnswerPart, AgainPart DEF PartRuns, AllSides
<1>3. /\ Follows("bare", "base", "rcache") /\ Follows("bare", "rcache", "addresses")
      /\ Follows("bare", "addresses", "srv_init") /\ Follows("bare", "srv_init", "srv_auth")
      /\ Follows("bare", "srv_auth", "principal") /\ Follows("bare", "principal", "role")
      /\ Follows("bare", "role", "obtain") /\ Follows("bare", "obtain", "process")
      /\ Follows("bare", "process", "answer") /\ Follows("bare", "answer", "again")
  BY BasePart, ReplayCachePart, AddressesPart, SrvInitPart, SrvAuthPart, PrincipalPart, RolePart, ObtainPart,
     ProcessPart, AnswerPart, AgainPart DEF PartRuns, Follows, AllSides
<1>4. /\ Starts("bare", "base", {}) /\ Starts("bare", "obtain", Full("bare"))
      /\ FlagsIn("bare")["again"][Len(Parts["again"]) + 1] = Full("bare")
      /\ OthersIn["again"][Len(Parts["again"]) + 1] \subseteq Kept("bare")
  BY BasePart, ObtainPart, AgainPart DEF PartRuns, Starts, Kept, AllSides, Full, Opened, Key
<1> QED
  BY <1>1, <1>2, <1>3, <1>4 DEF AttemptOK

LEMMA AttemptsOK ==
  ASSUME NEW s \in AllSides
  PROVE  AttemptOK(s)
BY ClientAttempt, ServerAttempt, BareAttempt DEF AllSides

\* What exists is what the flags and the place in the attempt say.
InPart ==
  /\ next \in 1 .. Len(Part)
  /\ flags = FlagsIn(side)[Attempt[side][at]][next]
  /\ holds = flags \cup OthersIn[Attempt[side][at]][next]

AtEnd == next = 1 /\ flags = Full(side) /\ flags \subseteq holds /\ holds \ flags \subseteq Kept(side)

StreamInv ==
  /\ side \in AllSides /\ at \in 0 .. Len(Attempt[side]) + 1 /\ wrong = FALSE
  /\ at = 0 => next = 1 /\ holds = {}
  /\ Calling => InPart
  /\ at = Len(Attempt[side]) + 1 => AtEnd

LEMMA CallingIs ==
  ASSUME StreamInv, Calling
  PROVE  /\ at \in 1 .. Len(Attempt[side]) /\ InPart
         /\ next \in 1 .. Len(Part) /\ StreamCallOK(side, Attempt[side][at], next)
         /\ Len(Part) \in Nat \ {0}
<1>1. AttemptOK(side)
  BY AttemptsOK DEF StreamInv
<1>2. at \in 1 .. Len(Attempt[side]) /\ InPart
  BY <1>1 DEF StreamInv, Calling, AttemptOK
<1>3. PartOK(side, Attempt[side][at])
  BY <1>1, <1>2 DEF AttemptOK
<1> QED
  BY <1>2, <1>3 DEF InPart, PartOK, Part

\* A call that succeeds.
LEMMA StreamOnward ==
  ASSUME StreamInv, Calling,
         NEW F, NEW H, OnTo(H, F), wrong' = FALSE,
         F = FlagsIn(side)[Attempt[side][at]][next + 1],
         H = F \cup OthersIn[Attempt[side][at]][next + 1]
  PROVE  StreamInv'
<1> DEFINE n == Len(Attempt[side])
<1>1. /\ side' = side /\ flags' = F /\ holds' = H
      /\ IF next < Len(Part) THEN next' = next + 1 /\ at' = at ELSE next' = 1 /\ at' = at + 1
  BY DEF OnTo
<1>2. at \in 1 .. n /\ next \in 1 .. Len(Part) /\ side \in AllSides
  BY CallingIs DEF StreamInv
<1>3. AttemptOK(side)
  BY <1>2, AttemptsOK
<1>4. n \in Nat /\ Len(Part) \in Nat \ {0}
  BY <1>3, CallingIs DEF AttemptOK
<1>5. CASE next < Len(Part)
  <2>1. next' = next + 1 /\ at' = at /\ Part' = Part
    BY <1>1, <1>5 DEF Part
  <2>2. InPart'
    BY <1>1, <1>2, <1>4, <1>5, <2>1 DEF InPart
  <2> QED
    BY <1>1, <1>2, <1>4, <2>1, <2>2 DEF StreamInv, Calling
<1>6. CASE next = Len(Part) /\ at < n
  <2>1. next' = 1 /\ at' = at + 1 /\ at + 1 \in 1 .. n
    BY <1>1, <1>2, <1>4, <1>6
  <2>2. Follows(side, Attempt[side][at], Attempt[side][at + 1])
    BY <1>2, <1>3, <1>4, <1>6 DEF AttemptOK
  <2>3. /\ flags' = FlagsIn(side)[Attempt[side][at + 1]][1]
        /\ holds' = flags' \cup OthersIn[Attempt[side][at + 1]][1]
    BY <1>1, <1>6, <2>2 DEF Follows, Part
  <2>4. Len(Parts[Attempt[side][at + 1]]) \in Nat \ {0}
    BY <1>3, <2>1 DEF AttemptOK, PartOK
  <2>5. InPart'
    BY <1>1, <2>1, <2>3, <2>4 DEF InPart, Part
  <2> QED
    BY <1>1, <1>2, <1>4, <2>1, <2>5 DEF StreamInv, Calling
<1>7. CASE next = Len(Part) /\ at = n
  <2>1. next' = 1 /\ at' = n + 1
    BY <1>1, <1>7, <1>4
  <2>2. F = Full(side) /\ OthersIn[Attempt[side][n]][Len(Parts[Attempt[side][n]]) + 1] \subseteq Kept(side)
    BY <1>3, <1>7 DEF AttemptOK, Part
  <2>3. AtEnd'
    BY <1>1, <1>7, <2>1, <2>2 DEF AtEnd, Part
  <2> QED
    BY <1>1, <1>2, <1>4, <2>1, <2>3 DEF StreamInv, Calling
<1> QED
  BY <1>2, <1>4, <1>5, <1>6, <1>7

\* A way out leaves nothing, but what a client keeps until the very end.
LEMMA StreamWayOut ==
  ASSUME StreamInv, NEW label, NEW H, Unwind(label, H), LeavesNothing(side, label, flags, H)
  PROVE  StreamInv'
<1> DEFINE flagged == flags \ Clears(label)
           kept    == H \ Releases(label)
           freed   == IF FreesContents(label) THEN flagged ELSE {}
<1>1. /\ wrong' = (wrong \/ ~(Releases(label) \subseteq H) \/ ~(freed \subseteq kept))
      /\ holds' = (kept \ freed) \ {IF side = "client" THEN "reply" ELSE "none"}
      /\ at' = 0 /\ next' = 1 /\ side' = side
  BY DEF Unwind
<1>2. Releases(label) \subseteq H /\ freed \subseteq kept /\ kept \ freed \subseteq Kept(side)
  BY DEF LeavesNothing
<1> HIDE DEF flagged, kept, freed
<1>3. wrong' = FALSE
  BY <1>1, <1>2 DEF StreamInv
<1>4. holds' = {}
  BY <1>1, <1>2 DEF Kept
<1>5. Len(Attempt[side]) \in Nat \ {0}
  BY AttemptsOK DEF StreamInv, AttemptOK
<1> QED
  BY <1>1, <1>3, <1>4, <1>5 DEF StreamInv, Calling

LEMMA StreamStep ==
  ASSUME StreamInv, [StreamNext]_streamVars
  PROVE  StreamInv'
<1>1. side \in AllSides /\ AttemptOK(side) /\ Len(Attempt[side]) \in Nat \ {0}
  BY AttemptsOK DEF StreamInv, AttemptOK
<1>2. CASE NextCall
  BY <1>1, <1>2 DEF NextCall, StreamInv, Calling
<1>3. CASE StartAttempt
  <2>1. at' = 1 /\ next' = 1 /\ flags' = {} /\ holds' = {} /\ wrong' = FALSE /\ side' = side
    BY <1>3 DEF StartAttempt, StreamInv
  <2>2. Starts(side, Attempt[side][1], {}) /\ Len(Parts[Attempt[side][1]]) \in Nat \ {0}
    BY <1>1 DEF AttemptOK, PartOK
  <2>3. InPart'
    BY <2>1, <2>2 DEF InPart, Part, Starts
  <2> QED
    BY <1>1, <2>1, <2>3 DEF StreamInv, Calling
<1> DEFINE F1 == FlagsIn(side)[Attempt[side][at]][next + 1]
           H1 == F1 \cup OthersIn[Attempt[side][at]][next + 1]
<1>4. ASSUME Calling
      PROVE  /\ wrong = FALSE
             /\ F1 = IF Now.op = "flagged" THEN flags \cup {Now.res} ELSE flags
             /\ Now.op \in {"take", "flagged"} => Now.res \notin holds /\ H1 = holds \cup {Now.res}
             /\ Now.op \in {"drop", "use"} => Now.res \in holds /\ H1 = holds \ {Now.res}
             /\ Now.op \notin {"take", "flagged", "drop", "use"} => H1 = holds
             /\ Now.op = "again" => flags = Full(side) /\ holds = Full(side)
             /\ Now.label # "none"
                  => LeavesNothing(side, Now.label, flags, IF Now.op = "use" THEN holds \ {Now.res} ELSE holds)
  <2>1. /\ StreamCallOK(side, Attempt[side][at], next) /\ Now = Parts[Attempt[side][at]][next]
        /\ flags = FlagsIn(side)[Attempt[side][at]][next]
        /\ holds = flags \cup OthersIn[Attempt[side][at]][next]
        /\ wrong = FALSE
    BY <1>4, CallingIs DEF InPart, Now, Part, StreamInv
  <2> QED
    BY <2>1 DEF StreamCallOK
<1> HIDE DEF F1, H1
<1>5. CASE Obtains
  <2> DEFINE F == IF Now.op = "flagged" THEN flags \cup {Now.res} ELSE flags
             H == holds \cup {Now.res}
  <2>1. Calling /\ Now.op \in {"take", "flagged"} /\ OnTo(H, F) /\ wrong' = (wrong \/ Now.res \in holds)
    BY <1>5 DEF Obtains
  <2>2. F = F1 /\ H = H1 /\ Now.res \notin holds
    BY <1>4, <2>1
  <2>3. wrong' = FALSE
    BY <1>4, <2>1, <2>2
  <2> HIDE DEF F, H
  <2> QED
    BY <2>1, <2>2, <2>3, StreamOnward DEF F1, H1
<1>6. CASE Gives
  <2> DEFINE H == holds \ {Now.res}
  <2>1. Calling /\ Now.op \in {"drop", "use"} /\ OnTo(H, flags) /\ wrong' = (wrong \/ Now.res \notin holds)
    BY <1>6 DEF Gives
  <2>2. flags = F1 /\ H = H1 /\ Now.res \in holds
    BY <1>4, <2>1
  <2>3. wrong' = FALSE
    BY <1>4, <2>1, <2>2
  <2> HIDE DEF H
  <2> QED
    BY <2>1, <2>2, <2>3, StreamOnward DEF F1, H1
<1>7. CASE Passes
  <2>1. Calling /\ Now.op \notin {"take", "flagged", "drop", "use"} /\ OnTo(holds, flags) /\ wrong' = wrong
    BY <1>7 DEF Passes
  <2>2. flags = F1 /\ holds = H1
    BY <1>4, <2>1
  <2>3. wrong' = FALSE
    BY <1>4, <2>1
  <2> QED
    BY <2>1, <2>2, <2>3, StreamOnward DEF F1, H1
<1>8. CASE ServesNext
  <2> DEFINE k == Opening[side] + 1
  <2>1. Calling /\ Now.op = "again" /\ at' = k /\ next' = 1 /\ UNCHANGED <<side, flags, holds, wrong>>
    BY <1>8 DEF ServesNext
  <2>2. flags = Full(side) /\ holds = Full(side) /\ wrong = FALSE
    BY <1>4, <2>1
  <2>3. k \in 1 .. Len(Attempt[side]) /\ Starts(side, Attempt[side][k], Full(side))
        /\ Len(Parts[Attempt[side][k]]) \in Nat \ {0}
    BY <1>1 DEF AttemptOK, PartOK
  <2> HIDE DEF k
  <2>4. InPart'
    BY <2>1, <2>2, <2>3 DEF InPart, Part, Starts
  <2> QED
    BY <1>1, <2>1, <2>2, <2>3, <2>4 DEF StreamInv, Calling
<1>9. CASE FailsAt
  <2> DEFINE H == IF Now.op = "use" THEN holds \ {Now.res} ELSE holds
  <2>1. Calling /\ Now.label # "none" /\ Unwind(Now.label, H)
    BY <1>9 DEF FailsAt
  <2>2. LeavesNothing(side, Now.label, flags, H)
    BY <1>4, <2>1
  <2> HIDE DEF H
  <2> QED
    BY <2>1, <2>2, StreamWayOut
<1>10. CASE Ends
  <2>1. at > Len(Attempt[side]) /\ Unwind("kstream", holds)
    BY <1>10 DEF Ends
  <2>2. AtEnd
    BY <1>1, <2>1 DEF StreamInv
  <2>3. LeavesNothing(side, "kstream", flags, holds)
    BY <2>2, WaysOut DEF AtEnd, LeavesNothing
  <2> QED
    BY <2>1, <2>3, StreamWayOut
<1>11. CASE UNCHANGED streamVars
  BY <1>11 DEF streamVars, StreamInv, Calling, InPart, AtEnd, Part
<1> QED
  BY <1>2, <1>3, <1>5, <1>6, <1>7, <1>8, <1>9, <1>10, <1>11 DEF StreamNext

\* Whichever call of an attempt fails, at either end, what exists is released once, and nothing
\* exists between two attempts: the flags of the structure say what there is to release.
THEOREM StreamsAreBalanced == LibSpec => []Balanced
<1>1. LibInit => StreamInv
  <2> SUFFICES ASSUME StreamInit PROVE StreamInv
    BY DEF LibInit
  <2>1. side \in AllSides /\ at = 0 /\ next = 1 /\ holds = {} /\ wrong = FALSE
    BY StreamAssumption DEF StreamInit
  <2>2. Len(Attempt[side]) \in Nat \ {0}
    BY <2>1, AttemptsOK DEF AttemptOK
  <2> QED
    BY <2>1, <2>2 DEF StreamInv, Calling
<1>2. StreamInv /\ [LibNext]_libVars => StreamInv'
  BY StreamStep DEF LibNext, libVars
<1>3. StreamInv => Balanced
  BY DEF StreamInv, Balanced
<1> QED
  BY <1>1, <1>2, <1>3, PTL DEF LibSpec
=============================================================================
