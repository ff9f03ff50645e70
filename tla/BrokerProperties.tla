------------------------- MODULE BrokerProperties -------------------------
(***************************************************************************)
(* What the broker must never do, and what it must do in the end.          *)
(***************************************************************************)
EXTENDS Broker, Functions

\* The worker calls of user u that are going on: background calls, named by
\* their message, and streams.
InFlight(u) ==
    {m \in Msgs : UserOf[m] = u /\ proc[m] = "calling"}
        \cup {s \in Streams : UserOf[StreamMsg[s]] = u /\ stream[s] = "streaming"}

\* Something will look at the queue of u without a further request.
HasDrainer(u) ==
    \/ tasks[u] > 0
    \/ \E m \in Msgs : /\ UserOf[m] = u
                       /\ Active(m) \/ Triggers(m)
    \/ \E s \in Streams : UserOf[StreamMsg[s]] = u /\ Live(s)

\* m waits for its client, which has not opened the stream it was told to open.
ClientPending(m) ==
    /\ m \notin CallbackMsgs
    /\ \A s \in Streams : StreamMsg[s] = m => stream[s] = "idle"

---------------------------------------------------------------------------
(* Safety. *)

\* At most one worker call of a user at a time: background calls
\* (message_processor.py:236) and streams (stream_proxy.py:230) together,
\* whatever triggers, handoffs and timeouts there were.
OneAtATime == \A u \in Users : \A a, b \in InFlight(u) : a = b

\* The worker sees the messages of a user in the order of their RPUSHes, also
\* when a message is discarded or waits for its stream in between.
SentInArrivalOrder ==
    \A u \in Users : \A i, j \in DOMAIN sent[u] :
        i < j => arrival[sent[u][i]] < arrival[sent[u][j]]

\* The worker is called at most once for a message, even if the lock expires
\* under a running call, a client reconnects or Redis loses a reply.
AtMostOnce ==
    \A u \in Users : \A i, j \in DOMAIN sent[u] : sent[u][i] = sent[u][j] => i = j

\* A queue is never left without somebody to drain it, unless its first message
\* is an SSE message whose client has not opened its stream.  The trigger in
\* submit_message is conditional (routes.py:62); this is what the chain of
\* triggers after every completion (message_processor.py:267,
\* stream_proxy.py:248) has to make up for.
NeverStranded ==
    \A u \in Users :
        queue[u] # <<>> => HasDrainer(u) \/ ClientPending(Head(queue[u]))

\* "SSE handler takes over mark_complete + trigger_next"
\* (message_processor.py:206): while a message that was handed off holds the
\* lock, a handler of a stream for it is there to release it.
HandoffCompleted ==
    \A m \in Msgs :
        proc[m] = "handed" /\ processing[UserOf[m]] = m =>
            \E s \in Streams : StreamMsg[s] = m /\ Live(s)

\* A client gets at most one callback for a message, and none for one that
\* was handed to the handler of a stream, also after that stream has ended.
SingleVerdict ==
    \A m \in Msgs :
        /\ delivered[m] # {"completed", "error"}
        /\ delivered[m] # {} => \A s \in Streams : StreamMsg[s] = m => future[s] # "result"

\* A queued message whose POST was answered has its metadata hash: no
\* completion of another message, late or repeated, deletes it
\* (MARK_COMPLETE_SCRIPT deletes only after the comparison).
QueuedHasMetadata ==
    \A m \in Msgs :
        post[m] = "replied" /\ m \in Range(queue[UserOf[m]]) => metadata[m]

---------------------------------------------------------------------------
(* Action properties. *)

\* The lock of u is released by the task or by a stream handler that completes
\* the message it names, or expires when nobody works on that message.
ReleasedByOwner(u) ==
    \/ proc[processing[u]] = "completing" /\ proc'[processing[u]] = "scheduling"
    \/ \E s \in Streams : /\ StreamMsg[s] = processing[u]
                          /\ stream[s] = "completing" /\ stream'[s] = "triggering"
    \/ ~Working(processing[u])

\* The lock of a message goes away only with a completion of that message, or
\* by expiry after the work: a stale completion (of a stream that timed out,
\* or of a message that lost its lock) never frees another message's lock.
LockReleasedByOwner ==
    [][\A u \in Users :
         processing[u] # NoMsg /\ processing'[u] # processing[u] => ReleasedByOwner(u)]_vars

---------------------------------------------------------------------------
(* Liveness. *)

\* The broker has done with m: its task completed it, or the stream it was
\* handed to has ended.
Resolved(m) ==
    \/ proc[m] = "done"
    \/ proc[m] = "handed" /\ \E s \in Streams : StreamMsg[s] = m /\ stream[s] = "closed"

\* Every message that was accepted is resolved in the end: the chain of
\* triggers and handoffs never breaks.
EveryMessageResolved == \A m \in Msgs : post[m] = "replied" ~> Resolved(m)

\* "This ensures every message gets a visible response, even when messages
\* queue behind each other" (docs/phase-3-implementation-plan.md:30): in the
\* end the background tasks have answered every callback message, whatever
\* other clients of the user do.
EveryCallbackAnswered == \A m \in CallbackMsgs : post[m] = "replied" ~> Resolved(m)

\* Users do not wait for each other: the messages of the others are resolved
\* even if the worker calls of the slow users never end.
UserIndependence ==
    \A m \in Msgs : UserOf[m] \notin SlowUsers => (post[m] = "replied" ~> Resolved(m))

---------------------------------------------------------------------------
(* The promise to the worker. *)

Fifo == INSTANCE PerUserFifo WITH
    accepted <- {m \in Msgs : arrival[m] # 0},
    waiting <- queue,
    serving <- processing,
    working <- [u \in Users |-> InFlight(u) # {}],
    called <- sent

\* The broker implements PerUserFifo.
RefinesPerUserFifo == Fifo!Spec

===========================================================================
