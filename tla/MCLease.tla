------------------------------ MODULE MCLease ------------------------------
(***************************************************************************)
(* Instances of the broker with clocks for TLC.  One user with two callback*)
(* messages and the SSE message e1, which the stream s1 names.  The times  *)
(* are those of config.py and of the modules: 60 seconds for the worker, a *)
(* buffer of 60, a registration of 30 and a handoff of 120.  Answers and   *)
(* streams of the worker last up to 60 seconds or, in MCLeaseWork, up to   *)
(* 150, and callbacks up to 30.                                            *)
(***************************************************************************)
EXTENDS Lease, TLC

CONSTANTS u1, c1, c2, e1, s1

MCUserOf == [m \in Msgs |-> u1]
MCCallbackMsgs == Msgs \cap {c1, c2}
MCStreamMsg == [s \in Streams |-> e1]

===========================================================================
