--------------------------- MODULE StreamProxy ----------------------------
(***************************************************************************)
(* proxy_stream (services/stream_proxy.py): the handler of an SSE request. *)
(* It registers for its message, waits until the processor hands the       *)
(* message over, streams the worker's answer and, in its finally clause,   *)
(* does the bookkeeping the processor does for the other messages.         *)
(*                                                                         *)
(*   stream[s]   where the handler of s stands:                            *)
(*     idle            the request has not come in                         *)
(*     checkLength, checkProcessing  registered; in get_queue_length, in   *)
(*                     is_processing, both outside the try                 *)
(*     waiting         sends "queued", awaits the future of the handoff    *)
(*     streaming       in stream_from_worker                               *)
(*     closing         about to enter the finally clause                   *)
(*     completing      in mark_complete                                    *)
(*     triggering      mark_complete took effect, its reply is under way   *)
(*     closed          the handler ended                                   *)
(***************************************************************************)
EXTENDS MessageProcessor

VARIABLE stream

StreamStates ==
    {"idle", "checkLength", "checkProcessing", "waiting", "streaming",
     "closing", "completing", "triggering", "closed"}

StreamTypeOK == stream \in [Streams -> StreamStates]

StreamInit == stream = [s \in Streams |-> "idle"]

\* The handler of s has not ended.
Live(s) == stream[s] \notin {"idle", "closed"}

\* The handler goes on to the next await.
Advance(s, from, to) ==
    /\ stream[s] = from
    /\ stream' = [stream EXCEPT ![s] = to]

\* Cancelling asyncio.wait_for cancels the future it waits for, too late if
\* that is done.
CancelFuture(s) ==
    future' = [future EXCEPT ![s] = IF @ = "pending" THEN "cancelled" ELSE @]

---------------------------------------------------------------------------

\* The request comes in: register, before the first await.  The proxy has its
\* queue and processor (configure, main.py 64).
OpenStream(s) ==
    /\ Advance(s, "idle", "checkLength")
    /\ Register(s)
    /\ UNCHANGED <<queueVars, processorVars>>

\* get_queue_length is positive: make sure that a task drains the queue.
LengthPositive(s) ==
    /\ Advance(s, "checkLength", "waiting")
    /\ HasQueued(UserOf[StreamMsg[s]])
    /\ Trigger(UserOf[StreamMsg[s]])
    /\ UNCHANGED <<queueVars, registryVars, proc, delivered, sent>>

\* get_queue_length is 0: the or goes on to is_processing.
LengthZero(s) ==
    /\ Advance(s, "checkLength", "checkProcessing")
    /\ ~HasQueued(UserOf[StreamMsg[s]])
    /\ UNCHANGED <<queueVars, registryVars, processorVars>>

ProcessingFound(s) ==
    /\ Advance(s, "checkProcessing", "waiting")
    /\ IsProcessing(UserOf[StreamMsg[s]])
    /\ Trigger(UserOf[StreamMsg[s]])
    /\ UNCHANGED <<queueVars, registryVars, proc, delivered, sent>>

NoWorkFound(s) ==
    /\ Advance(s, "checkProcessing", "waiting")
    /\ ~IsProcessing(UserOf[StreamMsg[s]])
    /\ UNCHANGED <<queueVars, registryVars, processorVars>>

\* The future has a result: stream_from_worker opens the worker's stream.
StartStreaming(s) ==
    /\ Advance(s, "waiting", "streaming")
    /\ future[s] = "result"
    /\ RecordCall(StreamMsg[s])
    /\ UNCHANGED <<queueVars, registryVars, tasks, proc, delivered>>

\* Faulty variant: the timeout returns from outside the try, no finally clause.
TimeoutWithoutCleanup(s) ==
    /\ Advance(s, "waiting", "closed")
    /\ CancelFuture(s)
    /\ UNCHANGED <<queueVars, registry, events, processorVars>>

\* _STREAM_HANDOFF_TIMEOUT.  A handoff that has set the result before the
\* handler resumed is lost: the handler gets the TimeoutError.
HandoffTimeout(s) ==
    /\ Advance(s, "waiting", "closing")
    /\ CancelFuture(s)
    /\ UNCHANGED <<queueVars, registry, events, processorVars>>

\* The handler of another stream for the message cancelled the future.
FutureCancelled(s) ==
    /\ Advance(s, "waiting", "closing")
    /\ future[s] = "cancelled"
    /\ UNCHANGED <<queueVars, registryVars, processorVars>>

\* The worker's stream ends, with its last event, an error or an exception.
StreamEnds(s) ==
    /\ Advance(s, "streaming", "closing")
    /\ UNCHANGED <<queueVars, registryVars, processorVars>>

\* The finally clause: unregister, ...
StreamUnregisters(s) ==
    /\ Advance(s, "closing", "completing")
    /\ Unregister(StreamMsg[s])
    /\ UNCHANGED <<queueVars, events, processorVars>>

\* ... mark_complete, ...
StreamCompletes(s) ==
    /\ Advance(s, "completing", "triggering")
    /\ MarkComplete(StreamMsg[s])
    /\ UNCHANGED <<registryVars, processorVars>>

\* Faulty variant: the finally clause ends after mark_complete.
StreamTriggersNothing(s) ==
    /\ Advance(s, "triggering", "closed")
    /\ UNCHANGED <<queueVars, registryVars, processorVars>>

\* ... trigger_processing.
StreamTriggers(s) ==
    /\ Advance(s, "triggering", "closed")
    /\ Trigger(UserOf[StreamMsg[s]])
    /\ UNCHANGED <<queueVars, registryVars, proc, delivered, sent>>

---------------------------------------------------------------------------
(* Faults. *)

\* A Redis command raises.  Before the try that leaves the registration behind.
StreamCommandRaises(s) ==
    /\ "redis" \in Faults
    /\ stream[s] \in {"checkLength", "checkProcessing", "completing", "triggering"}
    /\ stream' = [stream EXCEPT ![s] = "closed"]
    /\ UNCHANGED <<queueVars, registryVars, processorVars>>

\* The client disconnects and the server cancels the handler.  Within the
\* first part of the try the CancelledError is caught.
Disconnect(s) ==
    /\ "disconnect" \in Faults
    /\ stream[s] \in {"waiting", "streaming"}
    /\ stream' = [stream EXCEPT ![s] = "closing"]
    /\ CancelFuture(s)
    /\ UNCHANGED <<queueVars, registry, events, processorVars>>

\* Outside of it, before the try and in the finally clause, the await that
\* the cancellation reaches is the handler's last step.  The server's cancel
\* scope cancels every await after a disconnect, so this may follow Disconnect.
DisconnectUncaught(s) ==
    /\ "disconnect" \in Faults
    /\ stream[s] \in {"checkLength", "checkProcessing", "completing", "triggering"}
    /\ stream' = [stream EXCEPT ![s] = "closed"]
    /\ UNCHANGED <<queueVars, registryVars, processorVars>>

===========================================================================
