------------------------------ MODULE Broker ------------------------------
(***************************************************************************)
(* The broker: clients that POST messages and open SSE streams, the HTTP   *)
(* routes (api/routes.py), the background tasks of the MessageProcessor,   *)
(* the stream handlers, and the Redis state all of them share.  One broker *)
(* process runs (fly.toml, Dockerfile), with Redis and a worker configured *)
(* (main.py 45-65): message_processor and queue_manager are there.         *)
(*                                                                         *)
(*   post[m]   the handler of POST /api/v1/message for m:                  *)
(*     new                       the client has not sent it                *)
(*     pushedFirst, pushedBehind RPUSH returned 1, or more; in HSET        *)
(*     replied                   the client has its message_id             *)
(*     failed                    the client got an error, or nothing       *)
(*                                                                         *)
(* Faults chooses what else may happen:                                    *)
(*   redis         a command raises, after or instead of its effect        *)
(*   disconnect    a client closes its SSE connection                      *)
(*   crash         the broker process ends and a new one starts            *)
(*   early_expiry  the TTL of the processing key runs out during the work  *)
(***************************************************************************)
EXTENDS StreamProxy

CONSTANT SlowUsers  \* users whose worker calls may last as long as they like

FaultKinds == {"redis", "disconnect", "crash", "early_expiry"}

ASSUME BrokerAssumption ==
    /\ Faults \subseteq FaultKinds
    /\ SlowUsers \subseteq Users

VARIABLE post

vars == <<queueVars, registryVars, processorVars, stream, post>>

PostStates == {"new", "pushedFirst", "pushedBehind", "replied", "failed"}

TypeOK ==
    /\ QueueTypeOK
    /\ RegistryTypeOK
    /\ ProcessorTypeOK
    /\ StreamTypeOK
    /\ post \in [Msgs -> PostStates]

Init ==
    /\ QueueInit
    /\ RegistryInit
    /\ ProcessorInit
    /\ StreamInit
    /\ post = [m \in Msgs |-> "new"]

---------------------------------------------------------------------------
(* The routes. *)

\* submit_message up to the reply of RPUSH.
SubmitPush(m) ==
    /\ post[m] = "new"
    /\ Enqueue(m)
    /\ post' = [post EXCEPT ![m] = IF FirstInQueue(m) THEN "pushedFirst" ELSE "pushedBehind"]
    /\ UNCHANGED <<registryVars, processorVars, stream>>

\* Only a callback message that is first in its queue triggers a task (and none
\* does in a broker without a worker, which has no message_processor).
Triggers(m) == post[m] = "pushedFirst" /\ m \in CallbackMsgs

\* HSET, the decision to trigger, and the reply.
SubmitReply(m) ==
    /\ post[m] \in {"pushedFirst", "pushedBehind"}
    /\ StoreMetadata(m)
    /\ \/ Triggers(m) /\ Trigger(UserOf[m])
       \/ ~Triggers(m) /\ UNCHANGED tasks
    /\ post' = [post EXCEPT ![m] = "replied"]
    /\ UNCHANGED <<registryVars, proc, delivered, sent, stream>>

\* RPUSH raises (or HSET does, before its effect): the client gets a 500.
SubmitRaises(m) ==
    /\ "redis" \in Faults
    /\ post[m] \in {"new", "pushedFirst", "pushedBehind"}
    /\ post' = [post EXCEPT ![m] = "failed"]
    /\ UNCHANGED <<queueVars, registryVars, processorVars, stream>>

\* HSET raises after its effect.
SubmitLosesReply(m) ==
    /\ "redis" \in Faults
    /\ post[m] \in {"pushedFirst", "pushedBehind"}
    /\ StoreMetadata(m)
    /\ post' = [post EXCEPT ![m] = "failed"]
    /\ UNCHANGED <<registryVars, processorVars, stream>>

\* stream_response: a client opens a stream with the message_id it was given.
ClientOpens(s) ==
    /\ post[StreamMsg[s]] = "replied"
    /\ OpenStream(s)
    /\ UNCHANGED post

---------------------------------------------------------------------------
(* The environment. *)

\* The message has been handed to s, and s has not reached its finally clause.
HandedTo(s) ==
    /\ future[s] = "result"
    /\ stream[s] \in {"checkLength", "checkProcessing", "waiting", "streaming"}

\* The places of a task that has dequeued its message and not completed it.
AtWork == {"dequeued", "dispatch", "waiting", "calling", "replying",
           "replyingError", "completing"}

\* A task or a stream handler is at work for m and has not completed it.
Working(m) ==
    \/ proc[m] \in AtWork
    \/ \E s \in Streams : StreamMsg[s] = m /\ HandedTo(s)

\* The TTL runs out: without early_expiry only after the work has ended.
LockExpires(u) ==
    /\ ProcessingExpires(u)
    /\ "early_expiry" \in Faults \/ ~Working(processing[u])
    /\ UNCHANGED <<registryVars, processorVars, stream, post>>

\* The process ends, and whatever is not in Redis with it.  Nothing in the
\* start-up code (main.py, lifespan) looks at what Redis holds.
ProcessEnds ==
    /\ RegistryLost
    /\ tasks' = [u \in Users |-> 0]
    /\ proc' = [m \in Msgs |-> IF Active(m) THEN "dead" ELSE proc[m]]
    /\ stream' = [s \in Streams |-> IF Live(s) THEN "closed" ELSE stream[s]]
    /\ post' = [m \in Msgs |-> IF post[m] \in {"pushedFirst", "pushedBehind"}
                               THEN "failed" ELSE post[m]]
    /\ UNCHANGED <<queueVars, delivered, sent>>

\* It ends while it is at work, and a new one starts.
Crash == "crash" \in Faults /\ ProcessEnds

---------------------------------------------------------------------------
(* Who takes which step. *)

\* A background task of u starts.
TaskStep(u) ==
    /\ ProcessNone(u) \/ \E m \in Msgs : ProcessDequeue(u, m)
    /\ UNCHANGED <<stream, post>>

\* The task that dequeued m, waiting for the worker apart.
ProcessorStep(m) ==
    /\ \/ StoreStartedAt(m)
       \/ HandOffRegistered(m)
       \/ AwaitStream(m)
       \/ RegistrationArrives(m)
       \/ RegistrationGone(m)
       \/ RegistrationTimeout(m)
       \/ CallWorker(m)
       \/ DeliverCallback(m)
       \/ DeliverErrorCallback(m)
       \/ Complete(m)
       \/ ScheduleNext(m)
    /\ UNCHANGED <<stream, post>>

WorkerReturns(m) ==
    /\ WorkerAnswers(m) \/ WorkerFails(m)
    /\ UNCHANGED <<stream, post>>

\* The handler of s, the worker's stream apart.
StreamStep(s) ==
    /\ \/ LengthPositive(s)
       \/ LengthZero(s)
       \/ ProcessingFound(s)
       \/ NoWorkFound(s)
       \/ StartStreaming(s)
       \/ HandoffTimeout(s)
       \/ FutureCancelled(s)
       \/ StreamUnregisters(s)
       \/ StreamCompletes(s)
       \/ StreamTriggers(s)
    /\ UNCHANGED post

WorkerStreamEnds(s) == StreamEnds(s) /\ UNCHANGED post

TaskFault(u) == DequeueRaises(u) /\ UNCHANGED <<stream, post>>
ProcessorFault(m) == CommandRaises(m) /\ UNCHANGED <<stream, post>>
StreamFault(s) ==
    /\ StreamCommandRaises(s) \/ Disconnect(s) \/ DisconnectUncaught(s)
    /\ UNCHANGED post

\* The client sends a request.
ClientStep ==
    \/ \E m \in Msgs : SubmitPush(m)
    \/ \E s \in Streams : ClientOpens(s)

\* The coroutines of the process go on.
Work ==
    \/ \E m \in Msgs : \/ SubmitReply(m) \/ SubmitRaises(m) \/ SubmitLosesReply(m)
                       \/ ProcessorStep(m) \/ WorkerReturns(m) \/ ProcessorFault(m)
    \/ \E s \in Streams : StreamStep(s) \/ WorkerStreamEnds(s) \/ StreamFault(s)
    \/ \E u \in Users : TaskStep(u) \/ TaskFault(u)

\* The process runs, and so does Redis.
Run == Work \/ \E u \in Users : LockExpires(u)

Next == ClientStep \/ Run \/ Crash

Spec == Init /\ [][Next]_vars

\* The event loop runs every coroutine that can run, Redis answers, timers
\* fire, and the worker's calls and streams end at some time, except those for
\* SlowUsers.  Nothing in the broker makes them end: the timeout of httpx is one
\* for each read, and a worker that keeps sending is read for ever.
Fairness ==
    /\ \A m \in Msgs : WF_vars(SubmitReply(m)) /\ WF_vars(ProcessorStep(m))
    /\ \A m \in Msgs : UserOf[m] \notin SlowUsers => WF_vars(WorkerReturns(m))
    /\ \A s \in Streams : WF_vars(StreamStep(s))
    /\ \A s \in Streams :
           UserOf[StreamMsg[s]] \notin SlowUsers => WF_vars(WorkerStreamEnds(s))
    /\ \A u \in Users : WF_vars(TaskStep(u)) /\ WF_vars(LockExpires(u))

FairSpec == Spec /\ Fairness

\* In addition, every client opens the stream of the message it was given.
ClientFairSpec == FairSpec /\ \A s \in Streams : WF_vars(ClientOpens(s))

===========================================================================
