-------------------------- MODULE StreamRegistry --------------------------
(***************************************************************************)
(* The in-memory registry of StreamProxy (services/stream_proxy.py) through*)
(* which the background processor hands a dequeued message to the handler  *)
(* of an SSE stream.  Its methods do not await: each runs in one step of   *)
(* the event loop.                                                         *)
(*                                                                         *)
(*   registry[m]  _registry: the stream whose future stands for m          *)
(*   future[s]    the asyncio.Future that register made for stream s       *)
(*   events[m]    _registration_events: the event of the task that waits   *)
(*                for a stream of m ("armed" until register sets it)       *)
(*                                                                         *)
(* events belongs to wait_for_registration: the operators that leave it    *)
(* alone in the code say nothing of it, their callers do.                  *)
(***************************************************************************)
EXTENDS Requests

VARIABLES registry, future, events

registryVars == <<registry, future, events>>

RegistryTypeOK ==
    /\ registry \in [Msgs -> Streams \cup {NoStream}]
    /\ future \in [Streams -> {"none", "pending", "result", "cancelled"}]
    /\ events \in [Msgs -> {"none", "armed", "set"}]

RegistryInit ==
    /\ registry = [m \in Msgs |-> NoStream]
    /\ future = [s \in Streams |-> "none"]
    /\ events = [m \in Msgs |-> "none"]

\* The broker process ends: nothing of this is stored anywhere.
RegistryLost ==
    /\ registry' = [m \in Msgs |-> NoStream]
    /\ future' = [s \in Streams |-> "none"]
    /\ events' = [m \in Msgs |-> "none"]

IsRegistered(m) == registry[m] # NoStream

---------------------------------------------------------------------------
(* Faulty variants. *)

\* register without the event: a waiting processor is not told.
RegisterSilently(s) ==
    /\ registry' = [registry EXCEPT ![StreamMsg[s]] = s]
    /\ future' = [future EXCEPT ![s] = "pending"]
    /\ events' = events

\* unregister stores None where it should pop the entry.
UnregisterKeepsKey(m) ==
    /\ registry' = [registry EXCEPT ![m] = NoMsg]
    /\ future' = [s \in Streams |-> IF registry[m] = s /\ future[s] = "pending"
                                     THEN "cancelled" ELSE future[s]]

---------------------------------------------------------------------------

\* register: overwrites whatever stream was registered for the message (the
\* older future stays pending and unreachable) and wakes a waiting processor.
Register(s) ==
    /\ registry' = [registry EXCEPT ![StreamMsg[s]] = s]
    /\ future' = [future EXCEPT ![s] = "pending"]
    /\ events' = [events EXCEPT ![StreamMsg[s]] = IF @ = "armed" THEN "set" ELSE @]

\* unregister: pops the entry of the message, whichever stream made it, and
\* cancels that stream's future if it is not done.
Unregister(m) ==
    /\ registry' = [registry EXCEPT ![m] = NoStream]
    /\ future' = [s \in Streams |-> IF registry[m] = s /\ future[s] = "pending"
                                     THEN "cancelled" ELSE future[s]]

\* handoff: pops the entry and resolves its future, unless that is done already.
HandOff(m) ==
    /\ registry' = [registry EXCEPT ![m] = NoStream]
    /\ future' = [s \in Streams |-> IF registry[m] = s /\ future[s] = "pending"
                                     THEN "result" ELSE future[s]]

\* wait_for_registration: makes the event it waits on, and in its finally
\* clause takes it out again.
ArmEvent(m) == events' = [events EXCEPT ![m] = "armed"]
DropEvent(m) == events' = [events EXCEPT ![m] = "none"]

===========================================================================
