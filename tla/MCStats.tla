------------------------------ MODULE MCStats ------------------------------
(* Stats instantiated for TLC: two connections, two users, two flow keys. *)
EXTENDS Stats

CONSTANTS c1, c2, u1, u2, f1, f2

MCConns == {c1, c2}
MCUsers == {u1, u2}
MCFlows == {f1}
MCSizes == {1}

=============================================================================
