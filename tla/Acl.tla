-------------------------------- MODULE Acl --------------------------------
(***************************************************************************)
(* The ACL of rg-acl (acl/mod.rs, acl/black_list.rs): the AclRule trait    *)
(* behind an AclCenter, with its two implementations.  A rule is a record: *)
(* DefaultAclRule is a unit struct; BlackListAclRule holds three sets of   *)
(* strings.                                                                *)
(*                                                                         *)
(* A black-list key is format!("{}-{}", a, host) with `a` a user_id (an    *)
(* integer) or a local ip (digits and dots or colons): neither contains a  *)
(* '-', so the text before the key's first '-' is `a` and the rest is      *)
(* `host`.  The key therefore stands for the pair <<a, host>>.             *)
(*                                                                         *)
(* Which rules exist: both AclCenters the server builds (main.rs:51 for    *)
(* the control session, dc_server.rs:39 for the proxy) hold a              *)
(* DefaultAclRule.  BlackListAclRule sits in a private module (`mod        *)
(* black_list;`), its fields are private, and the only way to build one is *)
(* its derived Default: three empty sets.  Neither update reads its data.  *)
(***************************************************************************)

DefaultAclRule == [kind |-> "default"]

\* BlackListAclRule::default(): the only value of the type the code builds.
BlackListAclRule == [kind |-> "black", host |-> {}, user_host |-> {}, ip_host |-> {}]

\* The rules an AclCenter can hold.
AclRules == {DefaultAclRule, BlackListAclRule}

\* BlackListAclRule::check: deny the host, then the user-host key, then the
\* ip-host key.
BlackListCheck(rule, uid, host, ip) ==
    /\ host \notin rule.host
    /\ <<uid, host>> \notin rule.user_host
    /\ <<ip, host>> \notin rule.ip_host

\* AclRule::check through the trait object: DefaultAclRule returns true.
Check(rule, uid, host, ip) ==
    IF rule.kind = "default" THEN TRUE ELSE BlackListCheck(rule, uid, host, ip)

\* AclRule::update(data): both implementations have an empty body, so the
\* rule is what it was whatever the data.
Update(rule, data) == rule

=============================================================================
