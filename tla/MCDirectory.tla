---------------------------- MODULE MCDirectory ----------------------------
(* Directory for TLC: one listener ip, one client ip, two users.  User 1 is *)
(* a PASSWORD user stated under two usernames and as unavailable; user 2   *)
(* is an IP user of the client ip.  The allowlist entries name the client *)
(* ip alone, the client ip with credentials, and the listener ip with     *)
(* user 1's credentials.                                                   *)
EXTENDS Directory

MCLocal == {"L1"}
MCRemote == {"R1"}
MCNames == {"n1", "n2", "adm"}
MCPasswords == {"p1", "apw"}

U1(name, avail) ==
    [user_id |-> 1, username |-> name, password |-> "p1", white_ip |-> "R1",
     auth_type |-> "PASSWORD", ips |-> {"L1"}, available |-> avail]
U2 ==
    [user_id |-> 2, username |-> "", password |-> "", white_ip |-> "R1",
     auth_type |-> "IP", ips |-> {"L1"}, available |-> TRUE]

MCUserPool == {U1("n1", TRUE), U1("n2", TRUE), U1("n1", FALSE), U2}

MCWhitePool ==
    { [ip |-> "R1", username |-> "", password |-> "", user_id |-> 0],
      [ip |-> "R1", username |-> "n1", password |-> "p1", user_id |-> 0],
      [ip |-> "L1", username |-> "n1", password |-> "p1", user_id |-> 1] }
=============================================================================
