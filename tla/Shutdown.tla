------------------------------ MODULE Shutdown ------------------------------
(***************************************************************************)
(* The end of the broker process: the server stops accepting requests,     *)
(* cancels the SSE streams and waits for the handlers, the lifespan        *)
(* function closes the clients (main.py), and asyncio.run cancels the      *)
(* background tasks that are left, runs the event loop until those have    *)
(* ended and leaves it.  A signal may end the process at any moment of it. *)
(*                                                                         *)
(*   phase   up, stopping (no new requests), cancelled                     *)
(*                                                                         *)
(* A CancelledError is no Exception: the except clauses of                 *)
(* _process_next_message let it pass and only its finally clause runs.  So *)
(* a cancelled call is completed without a callback, and a task that was   *)
(* between two Redis commands leaves everything as it is.                  *)
(***************************************************************************)
EXTENDS BrokerInvariant

\* The server ends the streams the way a client's disconnect does.
ASSUME ShutdownAssumption == "disconnect" \in Faults

VARIABLE phase

shutdownVars == <<vars, phase>>

ShutdownInit == Init /\ phase = "up"

---------------------------------------------------------------------------
(* Faulty variant: the cancellation is handled like a failing worker. *)

AfterCancelCaught(place) ==
    CASE place \in {"calling", "replying", "replyingError"} -> "replyingError"
      [] place \in {"dequeued", "dispatch", "waiting", "completing", "scheduling"} -> "dead"
      [] OTHER -> place

---------------------------------------------------------------------------

\* Where a task is after the CancelledError: the inner try has a finally
\* clause with mark_complete; everywhere else the task ends.
AfterCancel(place) ==
    CASE place \in {"calling", "replying", "replyingError"} -> "completing"
      [] place \in {"dequeued", "dispatch", "waiting", "completing", "scheduling"} -> "dead"
      [] OTHER -> place

\* The callback POST that was cancelled may have reached the client.
VerdictOf(place) ==
    CASE place = "replying" -> {"completed"}
      [] place = "replyingError" -> {"error"}
      [] OTHER -> {}

BeginShutdown ==
    /\ phase = "up"
    /\ phase' = "stopping"
    /\ UNCHANGED vars

\* The handlers have ended; every task gets a CancelledError at its await.
\* The finally clause of wait_for_registration takes the event out.
CancelTasks ==
    /\ phase = "stopping"
    /\ \A m \in Msgs : post[m] \notin {"pushedFirst", "pushedBehind"}
    /\ \A s \in Streams : ~Live(s)
    /\ phase' = "cancelled"
    /\ tasks' = [u \in Users |-> 0]
    /\ proc' = [m \in Msgs |-> AfterCancel(proc[m])]
    /\ events' = [m \in Msgs |-> IF proc[m] = "waiting" THEN "none" ELSE events[m]]
    /\ \E arrived \in SUBSET Msgs :
           delivered' = [m \in Msgs |-> IF m \in arrived THEN delivered[m] \cup VerdictOf(proc[m])
                                                         ELSE delivered[m]]
    /\ UNCHANGED <<queueVars, registry, future, sent, stream, post>>

\* The event loop is left, whatever its last tasks are at: those that a
\* finally clause scheduled are not waited for.  A new process starts.
Stop ==
    /\ phase # "up"
    /\ ProcessEnds
    /\ phase' = "up"

\* Tasks go on in every phase, the tasks that a finally clause schedules too.
ShutdownNext ==
    \/ phase = "up" /\ ClientStep /\ UNCHANGED phase
    \/ Run /\ UNCHANGED phase
    \/ Crash /\ phase' = "up"
    \/ BeginShutdown
    \/ CancelTasks
    \/ Stop

ShutdownSpec == ShutdownInit /\ [][ShutdownNext]_shutdownVars

===========================================================================
