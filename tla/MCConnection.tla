---------------------------- MODULE MCConnection ----------------------------
(* Instances of Connection for TLC: a main thread and a second one. *)
EXTENDS Connection, TLC
CONSTANTS main, worker, cm, cw
MCCaller == [c \in Calls |-> IF c = cw THEN worker ELSE main]
============================================================================
