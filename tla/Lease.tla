------------------------------- MODULE Lease -------------------------------
(***************************************************************************)
(* The broker with its clocks.  The lock of a user is a Redis key with a   *)
(* TTL (QueueManager._processing_ttl, set in main.py); it is a lease that  *)
(* must outlast the work it protects.  Broker lets a timeout fire at any   *)
(* time and an expiry wait for the end of the work; here both come from    *)
(* timers.                                                                 *)
(*                                                                         *)
(*   lockLeft[u]    time until the processing key of u expires             *)
(*   taskLeft[m]    time left to the task of m in its present place        *)
(*   streamLeft[s]  time left to the handler of s in its present place     *)
(*                                                                         *)
(* Two waits end by a timeout of the broker, for a registration and for a  *)
(* handoff.  How long a call, a stream or a callback lasts is up to the    *)
(* others: the timeouts of httpx are for each of connecting, sending and   *)
(* every read, those of a callback for connecting, sending and reading,    *)
(* and the resolution of its host and the closing of its connection have   *)
(* none.  These times are constants.                                       *)
(*                                                                         *)
(* Time is counted in units of 30 seconds.  Redis commands and the event   *)
(* loop take none: time passes only while everybody waits for a timer, a   *)
(* client or the worker.                                                   *)
(*                                                                         *)
(* Every behaviour starts with the restart of a process that crashed, on   *)
(* the queue and the lock it has left in Redis (nothing, the first time).  *)
(***************************************************************************)
EXTENDS BrokerInvariant, FiniteSets

CONSTANTS
    WorkerTimeout,      \* settings.worker_timeout
    LockBuffer,         \* the 60 seconds that main.py adds to it
    RegistrationLimit,  \* _STREAM_REGISTRATION_TIMEOUT
    HandoffLimit,       \* _STREAM_HANDOFF_TIMEOUT
    CallTime,           \* how long the worker's answers take at most,
    StreamTime,         \* its streams,
    CallbackTime        \* and the delivery of a callback, or two

ASSUME TimeAssumption ==
    {WorkerTimeout, LockBuffer, RegistrationLimit, HandoffLimit, CallTime, StreamTime,
     CallbackTime} \subseteq Nat

\* pushes counts the messages.
ASSUME FiniteAssumption == IsFiniteSet(Msgs)

VARIABLES lockLeft, taskLeft, streamLeft

timers == <<lockLeft, taskLeft, streamLeft>>
leaseVars == <<vars, timers>>

---------------------------------------------------------------------------
(* Faulty variants. *)

\* The processing_ttl has no buffer on top of the worker timeout.
LockTTLWithoutBuffer == WorkerTimeout

\* main.py passes none on: the default of QueueManager, 300 seconds.
LockTTLDefault == 5 * LockBuffer

\* The registration waits as long as the handoff.
TaskLimitOfHandoff(place) ==
    CASE place = "waiting" -> HandoffLimit
      [] place = "calling" -> CallTime
      [] place \in {"replying", "replyingError"} -> CallbackTime
      [] OTHER -> 0

---------------------------------------------------------------------------

\* The TTL that SETEX gives the processing key.
LockTTL == WorkerTimeout + LockBuffer

\* How long the task of a message, or a handler, may stay where it waits for
\* a timer or for others.
TaskLimit(place) ==
    CASE place = "waiting" -> RegistrationLimit
      [] place = "calling" -> CallTime
      [] place \in {"replying", "replyingError"} -> CallbackTime
      [] OTHER -> 0

StreamLimit(place) ==
    CASE place = "waiting" -> HandoffLimit
      [] place = "streaming" -> StreamTime
      [] OTHER -> 0

\* The times for which the lease is long enough: a wait for the registration
\* and a stream, or a call and its callback.
LeaseIsLong ==
    /\ RegistrationLimit + StreamTime < LockTTL
    /\ CallTime + CallbackTime < LockTTL

TimersTypeOK ==
    /\ lockLeft \in [Users -> Nat]
    /\ taskLeft \in [Msgs -> Nat]
    /\ streamLeft \in [Streams -> Nat]

---------------------------------------------------------------------------

\* Sequences of different messages of u.
LeftQueues(u) ==
    {q \in UNION {[1..n -> Msgs] : n \in 0..Cardinality(Msgs)} :
        \A i, j \in DOMAIN q : UserOf[q[i]] = u /\ (q[i] = q[j] => i = j)}

\* The process before this one stored m.
Stored(m) == processing[UserOf[m]] = m \/ m \in Range(queue[UserOf[m]])

\* What a process finds in Redis when it starts: queues of messages that were
\* answered "queued", or whose POST failed after the RPUSH, with or without the
\* HSET, and for some users the lock of a message whose task or handler has
\* died.  Its SETEX is older than the process, by any time: what is left is
\* less than the TTL, and the broken unit of it is dropped (all other timers
\* start later, with whole units, and end after it as they do in real time).
LeaseInit ==
    /\ queue \in {q \in [Users -> UNION {LeftQueues(u) : u \in Users}] :
                     \A u \in Users : q[u] \in LeftQueues(u)}
    /\ processing \in [Users -> Msgs \cup {NoMsg}]
    /\ \A u \in Users : processing[u] # NoMsg =>
            UserOf[processing[u]] = u /\ processing[u] \notin Range(queue[u])
    /\ post \in [Msgs -> {"new", "replied", "failed"}]
    /\ \A m \in Msgs : post[m] = "new" <=> ~Stored(m)
    /\ metadata \in [Msgs -> BOOLEAN]
    /\ \A m \in Msgs : /\ post[m] = "replied" => metadata[m]
                       /\ post[m] = "new" => ~metadata[m]
    /\ pushes = Cardinality(Msgs)
    /\ arrival \in [Msgs -> 0..pushes]
    /\ \A m \in Msgs : arrival[m] = 0 <=> ~Stored(m)
    /\ \A u \in Users :
            /\ processing[u] # NoMsg => arrival[processing[u]] = 1
            /\ \A i \in DOMAIN queue[u] :
                   arrival[queue[u][i]] = IF processing[u] = NoMsg THEN i ELSE i + 1
    /\ proc = [m \in Msgs |-> IF processing[UserOf[m]] = m THEN "dead" ELSE "none"]
    /\ tasks = [u \in Users |-> 0]
    /\ delivered = [m \in Msgs |-> {}]
    /\ sent = [u \in Users |-> <<>>]
    /\ RegistryInit
    /\ StreamInit
    /\ lockLeft \in [Users -> 0..LockTTL]
    /\ \A u \in Users : IF processing[u] = NoMsg THEN lockLeft[u] = 0 ELSE lockLeft[u] < LockTTL
    /\ taskLeft = [m \in Msgs |-> 0]
    /\ streamLeft = [s \in Streams |-> 0]

---------------------------------------------------------------------------

\* SETEX sets the TTL; who enters a place starts its timer.
SetTimers ==
    /\ lockLeft' = [u \in Users |-> IF processing'[u] = processing[u] THEN lockLeft[u]
                                     ELSE IF processing'[u] = NoMsg THEN 0 ELSE LockTTL]
    /\ taskLeft' = [m \in Msgs |-> IF proc'[m] = proc[m] THEN taskLeft[m]
                                     ELSE TaskLimit(proc'[m])]
    /\ streamLeft' = [s \in Streams |-> IF stream'[s] = stream[s] THEN streamLeft[s]
                                          ELSE StreamLimit(stream'[s])]

\* A registration or handoff timeout fires when its time is up (the stream
\* gone, the future cancelled or the client disconnected apart, which lead to
\* the same place).
InTime ==
    /\ \A m \in Msgs :
           proc[m] = "waiting" /\ proc'[m] = "completing" =>
               taskLeft[m] = 0 \/ (events[m] = "set" /\ ~IsRegistered(m))
    /\ \A s \in Streams :
           stream[s] = "waiting" /\ stream'[s] = "closing" =>
               streamLeft[s] = 0 \/ future[s] = "cancelled" \/ "disconnect" \in Faults

TimedStep == (ClientStep \/ Work \/ Crash) /\ InTime /\ SetTimers

\* The key expires, whatever goes on.
LeaseEnds(u) ==
    /\ lockLeft[u] = 0
    /\ ProcessingExpires(u)
    /\ UNCHANGED <<registryVars, processorVars, stream, post>>
    /\ SetTimers

\* Nothing can go on at once: every coroutine waits for a timer, a client or
\* the worker.
Quiet ==
    /\ \A u \in Users : tasks[u] = 0
    /\ \A m \in Msgs :
           /\ post[m] \notin {"pushedFirst", "pushedBehind"}
           /\ proc[m] \notin {"dequeued", "dispatch", "completing", "scheduling"}
           /\ proc[m] = "waiting" => events[m] = "armed"
    /\ \A s \in Streams :
           /\ stream[s] \in {"idle", "waiting", "streaming", "closed"}
           /\ stream[s] = "waiting" => future[s] = "pending"

\* No timer is due.
NoneDue ==
    /\ \A u \in Users : processing[u] # NoMsg => lockLeft[u] > 0
    /\ \A m \in Msgs :
           proc[m] \in {"waiting", "calling", "replying", "replyingError"} => taskLeft[m] > 0
    /\ \A s \in Streams : stream[s] \in {"waiting", "streaming"} => streamLeft[s] > 0

Less(n) == IF n = 0 THEN 0 ELSE n - 1

Tick ==
    /\ Quiet
    /\ NoneDue
    /\ lockLeft' = [u \in Users |-> Less(lockLeft[u])]
    /\ taskLeft' = [m \in Msgs |-> Less(taskLeft[m])]
    /\ streamLeft' = [s \in Streams |-> Less(streamLeft[s])]
    /\ UNCHANGED vars

LeaseNext ==
    \/ TimedStep
    \/ \E u \in Users : LeaseEnds(u)
    \/ Tick

LeaseSpec == LeaseInit /\ [][LeaseNext]_leaseVars

\* The process goes on and time passes, whether or not a client does anything.
FairLeaseSpec ==
    /\ LeaseSpec
    /\ WF_leaseVars(Work /\ InTime /\ SetTimers)
    /\ \A u \in Users : WF_leaseVars(LeaseEnds(u))
    /\ WF_leaseVars(Tick)

---------------------------------------------------------------------------
(* Properties. *)

\* "Set processing TTL to worker_timeout + 60s buffer to prevent lock expiry"
\* (main.py:33): whoever is at work for a message still holds its lock, after
\* any wait for a registration, a handoff, the worker and the callback.
LeaseCoversWork == TaskHoldsLock /\ HandlerHoldsLock

\* The worker is called as PerUserFifo promises, one message of a user after the
\* other and in their order, by a process that begins with what a crash has left
\* (message_processor.py:186-206) and whose locks go away when their time is up.
KeepsFifo == [][Fifo!Next]_(Fifo!vars)

\* A message is discarded as "no stream registration" (message_processor.py:220)
\* although its stream is registered only if that stream came at the very moment
\* the timer fired, never if it had been there before.
JustOpened(s) ==
    \/ stream[s] \in {"checkLength", "checkProcessing"}
    \/ stream[s] = "waiting" /\ streamLeft[s] = HandoffLimit

DiscardOnlyIfLate ==
    [][\A m \in Msgs :
         proc[m] = "waiting" /\ proc'[m] = "completing" /\ IsRegistered(m) =>
             JustOpened(registry[m])]_leaseVars

\* Nothing looks at the queues when the process starts (main.py:19), and a lock
\* that was left keeps every task away.  But a client that opens a stream gets
\* the whole queue of its user going again: at once (stream_proxy.py:209), or
\* when its handoff has timed out (stream_proxy.py:218, 248), by when the lock has
\* expired.  In the second case the message of the stream itself, having lost
\* its handler, is not answered but discarded (message_processor.py:220).
QueueResumes ==
    \A s \in Streams, m \in Msgs :
        stream[s] = "checkLength" /\ m \in Range(queue[UserOf[StreamMsg[s]]]) ~> Resolved(m)

---------------------------------------------------------------------------
(* The inductive invariant behind LeaseCoversWork: what is left of the     *)
(* lease covers what is left of the work.                                  *)

\* For a task that holds the lock: from SETEX to the first wait no time passes;
\* the wait for a registration may be followed by a stream, a call by a callback.
TaskLease ==
    \A m \in Msgs : Lock(m) =>
        LET left == lockLeft[UserOf[m]] IN
        /\ proc[m] \in {"dequeued", "dispatch"} => left = LockTTL
        /\ proc[m] = "waiting" => left > taskLeft[m] + StreamTime
        /\ proc[m] = "calling" => left > taskLeft[m] + CallbackTime
        /\ proc[m] \in {"replying", "replyingError"} => left > taskLeft[m]
        /\ proc[m] = "completing" => left > 0

\* For a handler that was handed its message: a stream is to come, or goes on.
HandlerLease ==
    \A s \in Streams : HandedTo(s) =>
        LET left == lockLeft[UserOf[StreamMsg[s]]] IN
        IF stream[s] = "streaming" THEN left > streamLeft[s] ELSE left > StreamTime

\* The lock of a user names a message of the user.
OwnLock == \A u \in Users : processing[u] # NoMsg => UserOf[processing[u]] = u

LeaseInv == LockInv /\ OwnLock /\ TimersTypeOK /\ TaskLease /\ HandlerLease

---------------------------------------------------------------------------
(* The inductive invariant behind DiscardOnlyIfLate.                       *)

\* A stream of a message whose task waits for it was opened after the task began
\* to wait, and since then no time has passed: the event is set, so that the
\* task can go on at once.
WaitInv ==
    \A m \in Msgs : proc[m] = "waiting" =>
        /\ events[m] \in {"armed", "set"}
        /\ events[m] = "armed" => ~IsRegistered(m)
        /\ \A s \in Streams : registry[m] = s =>
               /\ future[s] = "pending"
               /\ \/ stream[s] \in {"checkLength", "checkProcessing"}
                  \/ stream[s] = "waiting" /\ streamLeft[s] = HandoffLimit

\* What it needs: a registered handler stays until its handoff or its timeout.
HandlersStay == HandoffLimit > 0 /\ Faults \cap {"redis", "disconnect"} = {}

===========================================================================
