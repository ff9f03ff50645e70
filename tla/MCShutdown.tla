----------------------------- MODULE MCShutdown -----------------------------
(***************************************************************************)
(* The instances of MCBroker, with the shutdown of the process.            *)
(***************************************************************************)
EXTENDS MCBroker, Shutdown

===========================================================================
