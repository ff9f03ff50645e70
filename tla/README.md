# TLA+ models of bt-servant-message-broker

The broker takes chat messages over HTTP, queues them per user in Redis, and sends them
to a worker one at a time. The answer goes to a callback URL or, for web clients, over an
SSE stream. This directory models how its parts interleave, checks the models with TLC
and proves the central properties with TLAPS. Source paths below are relative to
`src/src/bt_servant_message_broker/` unless they start with `docs/`.

## 1. The system

| part | state | operations |
|---|---|---|
| QueueManager (`services/queue_manager.py`) | Redis: list `user:{u}:queue`, string with TTL `user:{u}:processing` (the lock), hash `message:{m}` | `enqueue` (RPUSH, then HSET), `dequeue` (Lua script, then HSET, then LLEN), `mark_complete` (Lua compare-and-delete), reads |
| MessageProcessor (`services/message_processor.py`) | the tasks it creates | `trigger_processing`, `_process_next_message`, callback delivery |
| StreamProxy registry (`services/stream_proxy.py:70-134`) | `_registry` (message to future), `_registration_events` | `register`, `unregister`, `handoff`, `is_registered`, `wait_for_registration` |
| stream handler (`services/stream_proxy.py:201-248`) | one coroutine per `GET /api/v1/stream` | `proxy_stream` |
| routes (`api/routes.py`) | one coroutine per `POST /api/v1/message` | `submit_message`, `stream_response`, status, health |
| worker client (`services/worker_client.py`) | HTTP client | `send_message` |
| application (`main.py`, `config.py`) | settings, the singletons | start-up, shutdown |
| request models (`models/messages.py`), authentication (`api/dependencies.py`), logging (`utils/logging.py`) | none | checks, formatting |

How they interact. A POST pushes the message and starts a background task only if it has a
callback URL and is first in its queue. A task runs the dequeue script, which pops the head
and sets the lock, or finds the user busy. A callback message is sent to the worker by the
task itself. An SSE message is handed through a future to the handler of its stream, which
streams from the worker and then does the task's bookkeeping: release the lock, start the
next task. If no stream is registered the task waits 30 s for one, then discards the message.
A stream that is opened starts a task too if the user has anything queued or in process; it
waits 120 s for its message.

What is hard. Everything runs in one event loop and interleaves at every `await`; every Redis
command is atomic, nothing longer is. Correctness rests on the two Lua scripts, on a chain of
triggers that must not break, on a handoff between two coroutines with three timeouts around
it, and on `finally` clauses that themselves await Redis. Clients disconnect and reconnect,
Redis commands fail before or after their effect, the process restarts with the Redis state
it left behind, shutdowns cancel every task at once, and the lock has a TTL. `PROJECT.json` lists
the hazards at their lines.

What makes the parts correct:

* queue: order of the pushes, one lock holder, a completion frees only its own lock;
* tasks and handlers: at most one worker call per user and at most one per message, exactly
  one of task and handler completes a message, at most one verdict per client;
* chain of triggers: no queue is left alone, every accepted message is resolved;
* users do not wait for each other.

## 2. Modules

The system, from its parts to the whole:

| module | models | from |
|---|---|---|
| `Requests` | the constants: users, messages, streams, who names whom | `models/messages.py`, `api/routes.py` |
| `QueueManager` | the Redis state and one operator per command or script | `services/queue_manager.py` |
| `StreamRegistry` | registry, futures, registration events | `services/stream_proxy.py:70-134` |
| `MessageProcessor` (extends both) | the background tasks, one step per await | `services/message_processor.py` |
| `StreamProxy` (extends it) | the handlers of SSE requests, one step per await | `services/stream_proxy.py:201-248` |
| `Broker` (extends it) | POSTs, lock expiry, crash, `Next`, fairness: the system | `api/routes.py`, `main.py` |
| `PerUserFifo` | abstract specification: what the worker is promised | |
| `BrokerProperties` | the properties, and the refinement mapping to `PerUserFifo` | |
| `BrokerInvariant` | the inductive invariants | |
| `Shutdown` (extends Broker) | the end of the process: no new requests, all tasks cancelled, the loop left, a new start | `main.py:76-85`, `message_processor.py:264` |
| `Lease` (extends Broker) | the TTL, the timeouts of the broker and the times of the worker as clocks, started on what a crashed process left | `main.py:33`, `message_processor.py:20`, `stream_proxy.py:22`, `config.py` |

Beside it:

| module | models | from |
|---|---|---|
| `Monitor` (extends QueueManager) | status and health requests, one step per await, next to any order of Redis commands | `api/routes.py:100-183`, `queue_manager.py:265-365` |
| `SseParser` | `_parse_sse_stream` as a fold over lines, and a reference over whole streams | `stream_proxy.py:251-285` |
| `Replies` (extends it) | the events that the client of one stream reads | `stream_proxy.py:151-248` |

`Replies` is the inside of what `Broker` takes for one place, `streaming`; `Monitor` sees the Redis part of `Broker` only. Proofs are in
`BrokerProofs`, `RecordProofs`, `ShutdownProofs`, `FifoProofs`, `ChainProofs`, `LeaseProofs`,
`MonitorProofs` and `RepliesProofs`; instances for TLC in `MCBroker`, `MCShutdown`, `MCLease`,
`MCMonitor`, `MCReplies` and the `.cfg` files.

State. `queue`, `processing`, `metadata` are the three Redis keys (a hash is only there or
not). `registry`, `future`, `events` are the proxy's dictionaries and futures. `tasks[u]`
counts tasks that have not run the dequeue script; `proc[m]` is the place of the task that
dequeued `m`; `stream[s]` and `post[m]` are the places of the handlers; `delivered[m]` the
callbacks received. `arrival`, `pushes` and `sent` are history variables for the properties
and are read by no action. `phase` (Shutdown) is the state of the server. `lockLeft`,
`taskLeft` and `streamLeft` (Lease) are timers that count down. In `Monitor`,
`at`, `report`, `health` and `scan` are the local variables of one request, and `asked`,
`backlog`, `locked` and `unseen` histories. In `Replies`, `at` is the place of the handler,
`parser` the local variables of the parser, `lines` and `ended` what the worker has sent and
how its stream ended, and `events` what the client got: type and data, as on the wire.

Steps. A step runs from one `await` to the next: the effect of the awaited command together
with the code up to the next command. For reads this makes the answer fresh when it is used;
in `Broker` the only consequence of an older answer is one trigger more or less, and a trigger
more is a task that finds nothing, while for a trigger less the handler's own `finally`
triggers again. In `Monitor`, where the age of the answers is the question, the reads are steps
of their own. A command whose effect takes place although its reply is lost is its step
followed by a failure step (`scheduling` and `triggering` exist for this). The timers of
`wait_for_registration` and of the handoff may fire after the event or the future was set
and before the coroutine resumes, as asyncio allows: the result is then lost.

Faults. `Faults` selects what the environment may do: `redis` (a command raises), `disconnect`
(an SSE client goes away; in the `try` of `proxy_stream` the cancellation is caught, before it
and in the `finally` clause it ends the handler), `crash` (restart; Redis keeps its state),
`early_expiry` (the TTL runs out during the work; without it the lock expires only when nobody
works on its message, which is how a leaked lock goes away).

Shutdown. uvicorn ends the streams the way a disconnect does, `lifespan` closes the clients, and
`asyncio.run` cancels what is left. `CancelledError` is no `Exception`: the `except` clauses of
`_process_next_message` let it pass and its `finally` clause runs, so a cancelled call is
completed without a callback and the task it schedules may still run the dequeue script.
`Shutdown` lets the process end at any moment of this.

Time. `Broker` has none: a timeout may fire whenever its wait lasts. `Lease` adds it.
Redis commands and the event loop take no time; `Tick` happens only when every coroutine waits
for a timer, a client or the worker, and no timer is due. The broker itself bounds two
waits, that for a registration and that for a handoff. It does not bound what others do: the
timeout of httpx is one for the pool, for connecting, for sending and for every read, for
plain calls as for streams; a callback has 10 s each to connect, to send and to read, and none
for the resolution of its host and the closing of its connection. How long these last is a
constant: `CallTime`, `StreamTime`, `CallbackTime`. Theorems hold for all values, or for those
of `LeaseIsLong`; the runs show one value on either side of it.

Operators called "faulty variant" are used by no specification. They are plausible mistakes,
each substituted for the definition it varies to see that a property notices.

## 3. Runs

`c1`, `c2`, `d1` are callback messages, `e1`, `e2` SSE messages; `s1`, `s3` streams of `e1`, `s2`
of `e2`, `s4` of `c1`. All messages are of one user `u1` except `d1`.

| run | instance | faults | checks | shows |
|---|---|---|---|---|
| `chain` | c1, e1, e2; s1, s2 | none | `NeverStranded`, `HandoffCompleted` | the chain of triggers never leaves a queue without a drainer (unless its first message is an SSE message whose client has not come), a handoff is always completed by a live handler |
| `live` | c1, e1; s1, s3 | none | `EveryMessageResolved` | every accepted message is resolved, also with a reconnect |
| `faults` | c1, c2, e1; s1 | redis, disconnect, crash | `TypeOK`, `OneAtATime`, `SentInArrivalOrder`, `LockReleasedByOwner`, `RefinesPerUserFifo` | errors at any await cost liveness, never order or exclusion |
| `any` (MCShutdown) | c1, e1; s1, s4 | all four | `AtMostOnce`, `QueuedHasMetadata`, `SingleVerdict` | what survives an expired lock, a stream for a callback message, errors, crashes and shutdowns together |
| `users` | u1: c1, e1, s1; u2: d1 | none | `UserIndependence` | u2 is served although the worker never answers u1 |
| `lease` (MCLease) | c1, c2, e1; s1; on every state a crashed process leaves | none | `LeaseCoversWork`, `KeepsFifo`, `DiscardOnlyIfLate`, `QueueResumes` | for calls and streams of up to 60 s in all: the TTL outlasts the work, the worker is called as `PerUserFifo` promises, a registered stream is not discarded, and a stream that is opened gets the queue of its user going again after a restart |
| `status` (MCMonitor) | u1: c1, c2; u2: d1; SCAN loops of up to 2 batches | Redis and worker fail or are missing | `IdleMeansServed`, `HealthCountsBacklog` | reports put together from several moments do not hide work |
| `replies` (MCReplies) | streams of up to 6 lines that end in any way, with events of the worker called "done" | worker, connection, client | `ForwardsBlocks`, `DoneMeansComplete` | the client gets the blocks the worker completed and nothing between them; a "done" with its message id is the last event, and the answer before it is complete or an error |
| `reconnect` | c1, e1; s1, s3 | disconnect | `OneAtATime` (violated) | finding 1 |
| `disconnect` | c1, e1; s1 | disconnect | `HandoffCompleted` (violated) | finding 2 |
| `no_client` | c1, e1; s1 | none | `EveryCallbackAnswered` (violated) | finding 3 |
| `lease_work` | as `lease`, calls and streams of up to 150 s | none | `LeaseCoversWork` (violated) | finding 4 |

Deadlock is checked in `any` and `status`, where something can always go on. The other
configurations say `CHECK_DEADLOCK FALSE`: the clients send the requests of the instance, then
the system has nothing left to do.

Bounds. Every interaction in the code is between a message, its predecessor or successor in
the queue of one user, and the streams of these two; three messages give a predecessor and
a successor of each kind, and two streams of one message give the reconnect. Two users
suffice for independence because users share no key. The numbers of faults are not bounded: a
message or a stream can fail once at each of its awaits, and the process can crash in any
state. In `Lease` a unit of time is 30 s, the greatest common divisor of the settings:
`WorkerTimeout` 2, `LockBuffer` 2, `RegistrationLimit` 1, `HandoffLimit` 4, `CallbackTime` 1,
`CallTime` and `StreamTime` 2, which is as long as `worker_timeout` (5 in `lease_work`, longer
than the TTL). The locks of a process that crashed may have any age, each its own; what is
left of one is counted in whole units, the broken one dropped. `MaxBatches` 2 allows SCAN an empty or repeated batch before the end.
`MaxLines` 6 allows two events with both fields and their separators; one of the two values a field may have is "done".
Symmetry swaps requests or values the instance treats alike and is used in runs of safety
properties only.

Fairness. `FairSpec` assumes weak fairness of every step of a coroutine (the event loop runs
what can run), of the timers, of Redis, and of the end of worker calls and streams except
for `SlowUsers`. This last is an assumption on the worker that the code does not enforce: a
worker that is silent is cut off by the timeout of a read, one that sends a little for ever is
not. It does not assume that clients send anything.
`ClientFairSpec` adds that a client with a message id opens its streams. `FairLeaseSpec` assumes
weak fairness of the same steps with their clocks, of `Tick` and of the expiry of keys, and
nothing of the clients: `QueueResumes` starts when a stream has been opened. Calls and streams end
there when their time is up. No fault is fair.

### Findings

1. `reconnect`: registration, cleanup and completion of a stream go by message id. With two
   streams for one message the end of either releases the lock while the other is streaming,
   and the next message of the user is sent: two calls at once. `docs/prd.md:91` promises one
   at a time. Theorem `OneCallAtATime` shows that this, a stream for a callback message, and an
   expired lock are the only ways.
2. `disconnect`: a client that goes away during `get_queue_length`, `is_processing` or the
   final `mark_complete` ends the handler without completing the message it was handed:
   `message_processor.py:206` relies on it. The user is blocked until the lock expires, and
   then until another request triggers a task. Theorem `HandoffAlwaysCompleted` shows that it
   takes a disconnect, a Redis error or a crash.
3. `no_client`: a callback message behind an SSE message whose client never opens its stream is
   not processed at all: the SSE message triggers no task and the second POST is not first in
   the queue (`routes.py:62`), so there is no completion for the drain to continue from.
   Theorem `NoQueueStranded` shows that without disturbances this is the only way.
4. `lease_work`: `main.py:33` sets the TTL to `worker_timeout` and 60 s "to prevent lock
   expiry". The worker timeout bounds neither a call nor a stream, because httpx applies it to
   connecting, sending and each read separately (`worker_client.py:64`, `stream_proxy.py:142`): a
   worker that takes 120 s over an answer, in parts, or over a stream, is still at work when the
   lock expires, and the next message can be dequeued. Theorem `LeaseLongEnough` gives the times
   that are safe: streams that last less than `LockTTL - RegistrationLimit`, calls that last less
   than `LockTTL` together with their callbacks. What such an expiry cannot cost is in
   `LeaseCallsOnce`, `LeaseOneVerdict` and `LeaseKeepsMetadata`.

Two things that are no finding, because no text of the repository promises otherwise, but
that a reader of the properties should know. After a restart, the client of an SSE message that
waits behind a leftover lock does not get its answer: its handoff times out, the task that
its handler then starts finds no stream and discards the message (`QueueResumes` speaks of the
queue, not of that answer). And events of the worker are forwarded under their own names
(`tests/unit/test_stream_proxy.py:210-218` has one called "done"): only the message id in its
data tells the broker's "done" from them.

## 4. Proofs

All theorems are for any number of users, messages and streams, from `RequestAssumption` (the
constants are functions of the right type); `Lease` also needs `TimeAssumption` (times are
numbers) and `FiniteAssumption` (finitely many messages, because `pushes` counts them). Those
of `Replies` are for any values and streams of any length, from `RepliesAssumption` (no field of
the worker's stream is the message id, which the worker is not sent).

| theorem | states | further assumption |
|---|---|---|
| `TypeCorrect` | `Spec => []TypeOK` | |
| `CalledAtMostOnce` | `Spec => []AtMostOnce` | none: all faults, any streams |
| `OneCallAtATime` | `Spec => []OneAtATime` | `OneStreamEach`: one stream per SSE message, none for callback messages, no early expiry |
| `LockOnlyReleasedByOwner` | `Spec => LockReleasedByOwner` | no early expiry |
| `OneVerdict`, `MetadataKept` | `Spec => []SingleVerdict`, `[]QueuedHasMetadata` | none: all faults, any streams |
| `ShutdownCallsOnce`, `ShutdownOneVerdict`, `ShutdownKeepsMetadata` | `ShutdownSpec => []AtMostOnce`, `[]SingleVerdict`, `[]QueuedHasMetadata` | none |
| `ShutdownOneCallAtATime`, `ShutdownReleasedByOwner`, `ShutdownImplementsFifo` | `ShutdownSpec => []OneAtATime`, `LockReleasedByOwner`, `RefinesPerUserFifo` | `OneStreamEach` |
| `SentInOrder` | `Spec => []SentInArrivalOrder` | `OneStreamEach` |
| `ImplementsFifo` | `Spec => RefinesPerUserFifo` | `OneStreamEach` |
| `HandoffAlwaysCompleted`, `NoQueueStranded` | `Spec => []HandoffCompleted`, `[]NeverStranded` | `Undisturbed`: no fault but early expiry; any streams |
| `LeaseLongEnough` | `LeaseSpec => []LeaseCoversWork` | `OneStreamEach`, `LeaseIsLong` |
| `LeaseOneCallAtATime`, `LeaseSentInOrder`, `LeaseReleasedByOwner`, `LeaseStepsAreFifo` | `LeaseSpec => []OneAtATime`, `[]SentInArrivalOrder`, `LockReleasedByOwner`, `KeepsFifo` | `OneStreamEach`, `LeaseIsLong` |
| `LeaseCallsOnce`, `LeaseOneVerdict`, `LeaseKeepsMetadata` | `LeaseSpec => []AtMostOnce`, `[]SingleVerdict`, `[]QueuedHasMetadata` | none: leases of any length |
| `DiscardedOnlyIfLate` | `LeaseSpec => DiscardOnlyIfLate` | `HandlersStay`: a handoff limit above 0, no Redis error, no disconnect; leases of any length, any streams |
| `IdleStatusIsTrue` | `MonitorSpec => []IdleMeansServed` | none |
| `HealthMissesNothing` | `MonitorSpec => []HealthCountsBacklog` | finitely many users |
| `BlocksForwarded`, `DoneIsTheEnd` | `RepliesSpec => []ForwardsBlocks`, `[]DoneMeansComplete` | none |

Places and exclusion (`BrokerProofs`). Neither `AtMostOnce` nor `OneAtATime` is inductive.
`BaseInv` says where a message can be: in one queue only while no task has dequeued it (so that
LPOP yields fresh messages), a registry entry belongs to a stream of its message, and at most
one future of a message has a result, and then its task has ended with a handoff. On top of
it, `SentInv` says that a message in the call history has no task before its call and no handler
that could still start, which makes the next call a first one. For `OneAtATime`, `TaskHoldsLock`
says that a task at work holds the lock or that the message's handler gave up and released it
(a handler that times out calls `mark_complete` for a message a task may just have dequeued:
the reason why the plain "a task holds the lock" is not inductive), and `HandlerHoldsLock` that
a handler that got its message holds it until its `finally` clause. The handoff step needs
both: a handler that can still be handed a message has not given up. Lemmas named `...Frame`
dispose of the steps that do not touch a part of the invariant.

Verdicts and hashes (`RecordProofs`). A callback was delivered only by a task that is past its
delivery (`VerdictInv`), a lock names a message that has left the queue (`ServingInv`), so the
compare-and-delete of a late completion finds the lock of another message or a message no
queue holds (`MetadataInv`). `ShutdownProofs` shows that the cancellation, and the end of the
process at any moment, preserve the same invariants; all other steps are steps of `Broker`.
For the calls it uses that both only end things (`Ending`): no lock goes away with them, no call
begins, whatever may still be called could be called before, and to `PerUserFifo` they are the
return of the calls that they interrupt.

Order (`FifoProofs`). A queue is sorted by arrival, what has left it is older
than what is in it, and everything the worker was called for is older than any message it may
still be called for. That last part, `CallInv` with `MayCall`, is the point: a message can be
between dequeue and call in three coroutines, and it may be called later only while it holds
the lock, so nothing younger was dequeued. `ImplementsFifo` has one lemma for each abstract
action; the lock is the message being served, the calls in flight are the worker at work.

The chain (`ChainProofs`). A registered handler has not been handed anything and has not left
its `finally` clause (`EntryInv`), so every handoff goes to a handler that will complete it
(`HandedInv`); a held lock names a message at work or handed off (`LockTakenInv`); hence
somebody is going to trigger. `NeverStranded` then follows step by step: whoever stops
draining leaves an empty queue, a lock, or a trigger.

The lease (`LeaseProofs`). What is left of the lease is compared with what is left of the
work: a task has the whole lease until its first wait (no time passes before), a wait for a
registration leaves enough for a stream, a call enough for its callback (`TaskLease`,
`HandlerLease`). Three kinds of moves of tasks, locks and handlers cover all steps of
`Broker`, and `Tick` takes one unit from all timers. So a key expires only when nobody works,
which is the step `LockExpires` of `Broker`: every step of the broker with clocks is one of
`Broker` or leaves it alone (`TimersAreBrokerSteps`), and the lemmas of `BrokerProofs` and
`FifoProofs` give the rest.
`LeaseInitOrder` shows that whatever a crash leaves in Redis satisfies the invariants of order,
verdicts and hashes, so that all promises of `Broker` hold with clocks and after restarts.
Those about a single message do not depend on the lock and survive a lease that is too short.

Late discards (`LeaseProofs`). `WaitInv` says that a stream registered for a message whose task
waits has come after the wait began, has set the event, and no time has passed since: `Tick`
needs the task to wait for an event that is not set. `WaitMoves` says how a step can change what
it relates, the registry, the futures and the places of both coroutines. The timer of the task
can then only win against a stream that came at that moment. Redis errors and
disconnects are excluded because they end a handler and may leave its entry in the registry:
the message is then discarded with a registered stream that nobody reads any more.

Answers (`RepliesProofs`). The reference of `SseParser` says of a whole stream which events it
has: one for each blank line that ends a block with fields, found by counting lines
(`Rank`, `Nth`). The parser keeps a state and sees one line at a time. `ParserInv` relates the
two: what was forwarded is what the lines so far complete, and the state is the block that is
not yet complete. Its step needs no induction over the stream, only what one line more
changes in the reference: the lemmas `...Grow` say that positions and fields of the earlier lines
stay, and `AtAdding` that the sequence of the events gets the new one at its end or stays
as it was. `PlaceInv` says what the client has before the worker is asked. `DoneIsTheEnd` then
reads the end off the shape of the whole: no block of the worker carries the message id,
whatever its type, so the only "done" that does is the one the handler appends.

The monitor (`MonitorProofs`). Once the length was 0, no message pushed before the request can
be queued again, and so none of them can get the lock after the flag was read; had the code
read the flag first, a message could move from the queue to the lock in between. The counts of the
health report are never below the number of lasting keys minus those SCAN still owes and
those of the batch whose LLEN is to come.

Model-checked only: the liveness properties `EveryMessageResolved`, `UserIndependence` and
`QueueResumes` (TLAPS has neither fairness nor ENABLED). Every invariant and action
property of a passing run is a theorem.

## 5. Not modelled

* authentication (a comparison of keys, `api/dependencies.py`), settings and logging: no state
  that changes; the values of the settings are constants of `Lease`;
* a broker without Redis: `submit_message` and `stream_response` answer 503 and change nothing
  (the monitoring requests without Redis or worker are in `Monitor`), and the stream proxy that
  `main.py:53-64` then builds, without queue and processor (`stream_proxy.py:208`), hands nothing over: its streams time out;
* a broker without a worker: a POST is answered "queued" and pushed, but there is no
  `message_processor` to trigger (`routes.py:62`), so the message stays in Redis until a process
  with a worker takes it up; streams get a 503;
* the validation of requests (`models/messages.py`) and the payload built from them: pure
  functions of one body, as are the texts of worker errors (`worker_client.py:129-192`; that
  `docs/phase-3-implementation-plan.md:59` shows "Worker error 500" where the code has a 502 is
  one of wording);
* `stream_message` of the worker client, which nothing calls, and the branches of
  `_process_next_message` for a processor without stream proxy, which `main.py` never builds;
* clients that name another user's id in a stream request;
* which host names and addresses `_validate_callback_host` rejects: its result is a choice;
* the text of fields, prefixes and JSON: fields of the stream are values or empty;
* what the worker does after its client has hung up or timed out (`worker_client.py:129`): it
  is not part of this repository, and the broker sends the next message;
* several broker processes on one Redis: the registry of streams is in the memory of one, and
  the properties hold for one.

## 6. Plan

1. (done) queue, registry, tasks, handlers, the composed broker, `PerUserFifo`, safety and
   liveness runs, type correctness, `AtMostOnce`, `OneAtATime`, `LockReleasedByOwner`.
2. (done) `Shutdown`, `Lease`, `Monitor`, `SseParser`, `Replies` with their runs.
3. (done) proofs of order and refinement, verdicts and hashes, the chain of triggers, shutdown,
   lease, monitoring; all promises also for the broker with clocks and with shutdowns; late
   discards; the answers, parser against reference.
4. Open: larger instances for the liveness runs; `HandoffCompleted` and `NeverStranded` for the
   broker with clocks, whose start on a leftover lock has no task until a client comes.
