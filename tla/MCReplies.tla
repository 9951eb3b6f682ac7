----------------------------- MODULE MCReplies -----------------------------
(* Small instances of the calls between clients for TLC. *)
EXTENDS PendingReplies

CONSTANTS c1, c2, c3

MCConn2 == {c1, c2}
MCConn3 == {c1, c2, c3}
OnlyC1 == {c1}
Nobody == {}
=============================================================================
