------------------------- MODULE MCControlSession -------------------------
(* ControlSession for TLC: two sessions, three server messages in all,     *)
(* drawn from a DisableUser, three UserAuth lists (user 1 available, user  *)
(* 1 disabled, and no user), an UpdateUser of an IP user (user 2), an     *)
(* allowlist entry naming user 1 and an AclData blob.                      *)
EXTENDS ControlSession

MCLocal == {"L1"}
MCRemote == {"R1"}
MCNames == {"n1", "adm"}
MCPasswords == {"p1", "apw"}

U1(avail) ==
    [user_id |-> 1, username |-> "n1", password |-> "p1", white_ip |-> "R1",
     auth_type |-> "PASSWORD", ips |-> {"L1"}, available |-> avail]
U2 ==
    [user_id |-> 2, username |-> "", password |-> "", white_ip |-> "R1",
     auth_type |-> "IP", ips |-> {"L1"}, available |-> TRUE]
W1 == [ip |-> "L1", username |-> "n1", password |-> "p1", user_id |-> 1]

MCUserPool == {U1(TRUE), U1(FALSE), U2}
MCWhitePool == {W1}

MCMsgPool ==
    { [kind |-> "DisableUser", body |-> 1],
      [kind |-> "UserAuth", body |-> <<U1(TRUE)>>],
      [kind |-> "UserAuth", body |-> <<U1(FALSE)>>],
      [kind |-> "UserAuth", body |-> <<>>],
      [kind |-> "UpdateUser", body |-> U2],
      [kind |-> "UserWhiteList", body |-> <<W1>>],
      [kind |-> "AclData", body |-> "rules"] }

\* The server's frames and the stat snapshots share one budget of events:
\* without snapshots the session part is explored to MaxFrames as before,
\* and two snapshots (enough for a lagged ring and for their order) come
\* with up to one frame.
EventBudget == sent + published <= 3
=============================================================================
