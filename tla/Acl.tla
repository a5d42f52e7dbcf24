-------------------------------- MODULE Acl --------------------------------
(***************************************************************************)
(* The access control list of src/api/auks/auks_acl.c.  A file is a        *)
(* sequence of blocks; a regular expression is the set of the principals   *)
(* that it matches, which is empty for one that does not compile.          *)
(***************************************************************************)
EXTENDS Integers, Sequences

\* The roles that rules give, by the word in the file: "guest" is compared
\* without its end.
RoleOfWord == [user |-> "user", admin |-> "admin", guest |-> "guest", guests |-> "guest"]

\* Blocks of another name and rules without a role are passed over.
IsRule(block) == block.name = "rule" /\ block.role # "absent"
Rules(file) == SelectSeq(file, IsRule)

\* auks_acl_init_from_config_file: one bad rule makes the file invalid.
Valid(file) ==
  /\ file # <<>>
  /\ \A i \in DOMAIN Rules(file) :
       Rules(file)[i].role \in DOMAIN RoleOfWord /\ Rules(file)[i].complete

\* _auks_acl_rule_check_principal, _auks_acl_rule_check_host.  Names are
\* resolved too, but to no address that is equal to "*".
Matches(rule, principal, host) ==
  /\ principal \in rule.principals
  /\ rule.host \in {"*", host}

\* auks_acl_get_role: the first rule that matches.
RoleIn(file, principal, host) ==
  LET rules == Rules(file)
      Hits(i) == Matches(rules[i], principal, host)
      first == {i \in DOMAIN rules : Hits(i) /\ \A j \in 1..(i - 1) : ~Hits(j)}
  IN  IF first = {} THEN "unknown" ELSE RoleOfWord[rules[CHOOSE i \in first : TRUE].role]
=============================================================================
