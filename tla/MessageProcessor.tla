------------------------- MODULE MessageProcessor -------------------------
(***************************************************************************)
(* MessageProcessor (services/message_processor.py): the background tasks  *)
(* that drain a user's queue.  Every task runs _process_next_message once: *)
(* it dequeues at most one message, gets it answered and completed, and    *)
(* creates the task for the next one.                                      *)
(*                                                                         *)
(*   tasks[u]      tasks created for u whose dequeue script has not run    *)
(*   proc[m]       where the task that dequeued m stands:                  *)
(*     none         m has not been dequeued                                *)
(*     dequeued     the script returned m, HSET started_at is under way    *)
(*     dispatch     LLEN is under way, then the task looks at m            *)
(*     waiting      in wait_for_registration                               *)
(*     calling      in worker_client.send_message                          *)
(*     replying     in _deliver_callback                                   *)
(*     replyingError  in _deliver_error_callback                           *)
(*     completing   in mark_complete                                       *)
(*     scheduling   mark_complete took effect, its reply is under way      *)
(*     done, handed, dead   the task ended: after scheduling the next one, *)
(*                  after a handoff, by an exception or with the process   *)
(*   delivered[m]  the callbacks of m that the client got                  *)
(*   sent[u]       history: the messages of u whose worker call began      *)
(*                                                                         *)
(* A step runs from one await to the next: the effect of the command that  *)
(* was awaited and the synchronous code after it.                          *)
(***************************************************************************)
EXTENDS QueueManager, StreamRegistry

CONSTANT Faults     \* what may go wrong in the environment, see Broker

VARIABLES tasks, proc, delivered, sent

processorVars == <<tasks, proc, delivered, sent>>

ProcStates ==
    {"none", "dequeued", "dispatch", "waiting", "calling", "replying",
     "replyingError", "completing", "scheduling", "done", "handed", "dead"}

ProcessorTypeOK ==
    /\ tasks \in [Users -> Nat]
    /\ proc \in [Msgs -> ProcStates]
    /\ delivered \in [Msgs -> SUBSET {"completed", "error"}]
    /\ sent \in [Users -> Seq(Msgs)]

ProcessorInit ==
    /\ tasks = [u \in Users |-> 0]
    /\ proc = [m \in Msgs |-> "none"]
    /\ delivered = [m \in Msgs |-> {}]
    /\ sent = [u \in Users |-> <<>>]

\* The task that dequeued m has not ended.
Active(m) == proc[m] \notin {"none", "done", "handed", "dead"}

\* One more element of the history: the worker call of m begins.
RecordCall(m) == sent' = [sent EXCEPT ![UserOf[m]] = Append(@, m)]

\* The task of m goes on to the next await.
Proceed(m, from, to) ==
    /\ proc[m] = from
    /\ proc' = [proc EXCEPT ![m] = to]

---------------------------------------------------------------------------

\* trigger_processing and _schedule_next_processing: create_task.
Trigger(u) == tasks' = [tasks EXCEPT ![u] = @ + 1]

\* A task starts with the dequeue script, which returns nil: the task ends.
ProcessNone(u) ==
    /\ tasks[u] > 0
    /\ DequeueNone(u)
    /\ tasks' = [tasks EXCEPT ![u] = @ - 1]
    /\ UNCHANGED <<registryVars, proc, delivered, sent>>

\* The script pops m and sets the lock.
ProcessDequeue(u, m) ==
    /\ tasks[u] > 0
    /\ Dequeue(u, m)
    /\ tasks' = [tasks EXCEPT ![u] = @ - 1]
    /\ proc' = [proc EXCEPT ![m] = "dequeued"]
    /\ UNCHANGED <<registryVars, delivered, sent>>

\* HSET started_at.
StoreStartedAt(m) ==
    /\ Proceed(m, "dequeued", "dispatch")
    /\ StoreMetadata(m)
    /\ UNCHANGED <<registryVars, tasks, delivered, sent>>

\* Faulty variant: the return after the handoff is missing, the task calls the
\* worker as well.
HandOffFallsThrough(m) ==
    /\ Proceed(m, "dispatch", "calling")
    /\ IsRegistered(m)
    /\ HandOff(m)
    /\ RecordCall(m)
    /\ UNCHANGED <<queueVars, events, tasks, delivered>>

\* A stream of m is registered: it takes over, mark_complete and trigger included.
HandOffRegistered(m) ==
    /\ Proceed(m, "dispatch", "handed")
    /\ IsRegistered(m)
    /\ HandOff(m)
    /\ UNCHANGED <<queueVars, events, tasks, delivered, sent>>

\* No stream of an SSE message is registered: wait for one.
AwaitStream(m) ==
    /\ Proceed(m, "dispatch", "waiting")
    /\ ~IsRegistered(m)
    /\ m \notin CallbackMsgs
    /\ ArmEvent(m)
    /\ UNCHANGED <<queueVars, registry, future, tasks, delivered, sent>>

\* The stream registered in time.
RegistrationArrives(m) ==
    /\ Proceed(m, "waiting", "handed")
    /\ events[m] = "set"
    /\ IsRegistered(m)
    /\ DropEvent(m)
    /\ HandOff(m)
    /\ UNCHANGED <<queueVars, tasks, delivered, sent>>

\* The stream registered and was gone again: the message is discarded.
RegistrationGone(m) ==
    /\ Proceed(m, "waiting", "completing")
    /\ events[m] = "set"
    /\ ~IsRegistered(m)
    /\ DropEvent(m)
    /\ UNCHANGED <<queueVars, registry, future, tasks, delivered, sent>>

\* _STREAM_REGISTRATION_TIMEOUT: the message is discarded.  The timer may
\* fire although the event is set, before the task has resumed.
RegistrationTimeout(m) ==
    /\ Proceed(m, "waiting", "completing")
    /\ DropEvent(m)
    /\ UNCHANGED <<queueVars, registry, future, tasks, delivered, sent>>

\* send_message begins.
CallWorker(m) ==
    /\ Proceed(m, "dispatch", "calling")
    /\ ~IsRegistered(m)
    /\ m \in CallbackMsgs
    /\ RecordCall(m)
    /\ UNCHANGED <<queueVars, registryVars, tasks, delivered>>

\* send_message returns a WorkerResponse.
WorkerAnswers(m) ==
    /\ Proceed(m, "calling", "replying")
    /\ UNCHANGED <<queueVars, registryVars, tasks, delivered, sent>>

\* send_message raises: a timeout, no connection, or an error status.  An
\* exception of _validate_callback_host that is no ValueError, before anything is
\* posted, goes to the same except clause (250).
WorkerFails(m) ==
    /\ Proceed(m, "calling", "replyingError")
    /\ UNCHANGED <<queueVars, registryVars, tasks, delivered, sent>>

\* A delivery that is blocked by the check of the URL, refused or lost is only
\* logged, and the method returns.
Deliver(m, verdict) ==
    /\ delivered' \in {delivered, [delivered EXCEPT ![m] = @ \cup {verdict}]}
    /\ UNCHANGED <<queueVars, registryVars, tasks, sent>>

\* Faulty variant: a failing delivery is handled like a failing worker, as
\* if _deliver_callback let its exceptions through to _process_next_message.
DeliverCallbackRaises(m) ==
    /\ proc[m] = "replying"
    /\ proc' \in {[proc EXCEPT ![m] = "completing"], [proc EXCEPT ![m] = "replyingError"]}
    /\ Deliver(m, "completed")

DeliverCallback(m) ==
    /\ Proceed(m, "replying", "completing")
    /\ Deliver(m, "completed")

DeliverErrorCallback(m) ==
    /\ Proceed(m, "replyingError", "completing")
    /\ Deliver(m, "error")

\* Faulty variant: the task returns before it schedules the next one.
ScheduleNothing(m) ==
    /\ Proceed(m, "scheduling", "done")
    /\ UNCHANGED <<queueVars, registryVars, tasks, delivered, sent>>

\* The finally clause (and the end of a discard): mark_complete, ...
Complete(m) ==
    /\ Proceed(m, "completing", "scheduling")
    /\ MarkComplete(m)
    /\ UNCHANGED <<registryVars, tasks, delivered, sent>>

\* ... then the task for the next message.
ScheduleNext(m) ==
    /\ Proceed(m, "scheduling", "done")
    /\ Trigger(UserOf[m])
    /\ UNCHANGED <<queueVars, registryVars, delivered, sent>>

---------------------------------------------------------------------------
(* A Redis command raises.  The outer except clause logs it and the task   *)
(* ends: nothing is completed and nothing scheduled.  A command that took  *)
(* effect although its reply got lost is the command's step followed by    *)
(* one of these.                                                           *)

DequeueRaises(u) ==
    /\ "redis" \in Faults
    /\ tasks[u] > 0
    /\ tasks' = [tasks EXCEPT ![u] = @ - 1]
    /\ UNCHANGED <<queueVars, registryVars, proc, delivered, sent>>

CommandRaises(m) ==
    /\ "redis" \in Faults
    /\ proc[m] \in {"dequeued", "dispatch", "completing", "scheduling"}
    /\ proc' = [proc EXCEPT ![m] = "dead"]
    /\ UNCHANGED <<queueVars, registryVars, tasks, delivered, sent>>

===========================================================================
