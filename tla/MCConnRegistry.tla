--------------------------- MODULE MCConnRegistry ---------------------------
(* Model-checking instance of ConnRegistry: two users, three connection     *)
(* tasks sharing two shutdown_tx addresses (so addresses get reused), and   *)
(* two DisableUser messages.                                                *)
EXTENDS ConnRegistry

MCUsers == {"u1", "u2"}
MCIds == {"a1", "a2"}
=============================================================================
