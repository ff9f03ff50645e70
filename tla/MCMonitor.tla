----------------------------- MODULE MCMonitor ------------------------------
(***************************************************************************)
(* An instance of the monitoring requests for TLC: two users, one with two *)
(* messages and one with one.                                              *)
(***************************************************************************)
EXTENDS Monitor, TLC

CONSTANTS u1, u2, c1, c2, d1

MCUserOf == [m \in Msgs |-> IF m = d1 THEN u2 ELSE u1]
MCStreamMsg == [s \in Streams |-> c1]

===========================================================================
