-------------------------- MODULE BrokerInvariant --------------------------
(***************************************************************************)
(* The inductive invariants behind the theorems of BrokerProofs.  They     *)
(* relate what the four kinds of actors know of a message: its place in    *)
(* Redis, the task that dequeued it, the registry, and its streams.        *)
(***************************************************************************)
EXTENDS BrokerProperties

\* The message of s has been looked up and completed by the handler of s.
Ended(s) == stream[s] \in {"triggering", "closed"}

Lock(m) == processing[UserOf[m]] = m

\* A queue holds messages of its user, each once, and none that was dequeued.
QueueInv ==
    \A u \in Users : \A i \in 1..Len(queue[u]) :
        /\ UserOf[queue[u][i]] = u
        /\ proc[queue[u][i]] = "none"
        /\ \A j \in 1..Len(queue[u]) : queue[u][i] = queue[u][j] => i = j

\* A message whose POST has not come in is in no queue and has no task.
NewInv ==
    \A m \in Msgs : post[m] = "new" =>
        /\ proc[m] = "none"
        /\ \A u \in Users : \A i \in 1..Len(queue[u]) : queue[u][i] # m

\* The registry maps a message to a stream of that message.
RegistryInv ==
    \A m \in Msgs : registry[m] \in Streams => StreamMsg[registry[m]] = m

\* Only a handoff resolves a future, a message is handed off once, and only
\* a handler with a resolved future streams.
HandoffInv ==
    /\ \A s \in Streams : future[s] = "result" => proc[StreamMsg[s]] = "handed"
    /\ \A s, t \in Streams :
           future[s] = "result" /\ future[t] = "result" /\ StreamMsg[s] = StreamMsg[t] => s = t
    /\ \A s \in Streams : stream[s] = "streaming" => future[s] = "result"

BaseInv == TypeOK /\ QueueInv /\ NewInv /\ RegistryInv /\ HandoffInv

---------------------------------------------------------------------------
(* For AtMostOnce. *)

\* The places of a task before its call or handoff, of a handler before its stream.
BeforeCall == {"none", "dequeued", "dispatch", "waiting"}
BeforeStream == {"checkLength", "checkProcessing", "waiting"}

\* A message in the history belongs to the user, its task is past the call or
\* the handoff, and no handler is left that could still begin to stream it.
SentInv ==
    \A u \in Users : \A i \in 1..Len(sent[u]) :
        /\ UserOf[sent[u][i]] = u
        /\ proc[sent[u][i]] \notin BeforeCall
        /\ \A s \in Streams :
               StreamMsg[s] = sent[u][i] /\ future[s] = "result" =>
                   stream[s] \notin BeforeStream

OnceInv == BaseInv /\ SentInv /\ AtMostOnce

---------------------------------------------------------------------------
(* For OneAtATime. *)

\* A task at work holds the lock of its message, unless the handler of a
\* stream that gave up on the message has released it.
TaskHoldsLock ==
    \A m \in Msgs :
        proc[m] \in AtWork =>
            Lock(m) \/ \E s \in Streams : StreamMsg[s] = m /\ Ended(s)

\* A handler that was handed its message holds the lock until its finally clause.
HandlerHoldsLock == \A s \in Streams : HandedTo(s) => Lock(StreamMsg[s])

\* Background tasks call the worker for callback messages only.
CallsAreCallbacks == \A m \in Msgs : proc[m] = "calling" => m \in CallbackMsgs

LockInv == BaseInv /\ TaskHoldsLock /\ HandlerHoldsLock /\ CallsAreCallbacks

\* What OneAtATime needs of the clients and the environment: one stream per
\* SSE message, none for a callback message, and a TTL that outlasts the work.
OneStreamEach ==
    /\ \A s, t \in Streams : StreamMsg[s] = StreamMsg[t] => s = t
    /\ \A s \in Streams : StreamMsg[s] \notin CallbackMsgs
    /\ "early_expiry" \notin Faults

---------------------------------------------------------------------------
(* For SingleVerdict and QueuedHasMetadata. *)

\* The places of a task that has been through a delivery.
AfterDelivery == {"completing", "scheduling", "done", "dead"}

\* A callback was delivered at most once, by a task that did not hand over.
VerdictInv ==
    \A m \in Msgs :
        /\ delivered[m] # {} => proc[m] \in AfterDelivery
        /\ delivered[m] # {"completed", "error"}

\* A lock names a message of its user that has left the queue.
ServingInv ==
    \A u \in Users :
        processing[u] # NoMsg => UserOf[processing[u]] = u /\ proc[processing[u]] # "none"

\* The hash of an accepted message is there until a task has the message.
MetadataInv == \A m \in Msgs : post[m] = "replied" /\ proc[m] = "none" => metadata[m]

RecordInv == BaseInv /\ VerdictInv /\ ServingInv /\ MetadataInv

---------------------------------------------------------------------------
(* For SentInArrivalOrder and the refinement of PerUserFifo. *)

\* The RPUSHes are numbered, a message that is still to come has no number.
ArrivalInv ==
    \A m \in Msgs : arrival[m] <= pushes /\ (post[m] = "new" => arrival[m] = 0)

\* A queue holds its messages in the order of their RPUSHes, ...
QueueOrder ==
    \A u \in Users : \A i, j \in 1..Len(queue[u]) :
        i < j => arrival[queue[u][i]] < arrival[queue[u][j]]

\* ... and what has left it came before what is in it.
TakenInv ==
    \A m \in Msgs : proc[m] # "none" =>
        \A i \in 1..Len(queue[UserOf[m]]) : arrival[m] < arrival[queue[UserOf[m]][i]]

\* The worker may still be called for m: by the task, by a handler that was
\* handed m, or by one that may yet be.
MayCall(m) ==
    \/ /\ proc[m] \in {"dequeued", "dispatch", "waiting"}
       /\ \A s \in Streams : StreamMsg[s] = m => ~Ended(s)
    \/ \E s \in Streams : StreamMsg[s] = m /\ future[s] = "result" /\ stream[s] \in BeforeStream

\* Whatever the worker was called for came before such a message.
CallInv ==
    \A m \in Msgs : MayCall(m) =>
        \A i \in 1..Len(sent[UserOf[m]]) : arrival[sent[UserOf[m]][i]] < arrival[m]

OrderInv ==
    /\ LockInv /\ SentInv /\ AtMostOnce
    /\ ArrivalInv /\ QueueOrder /\ TakenInv
    /\ CallInv /\ SentInArrivalOrder

---------------------------------------------------------------------------
(* For HandoffCompleted and NeverStranded: no command raises, no client    *)
(* disconnects, the process stays up.  Only the TTL may run out at any     *)
(* time, and there may be any number of streams for a message.             *)

Undisturbed == Faults \subseteq {"early_expiry"}

\* The places of a handler that may be in the registry, ...
Registered == {"checkLength", "checkProcessing", "waiting", "closing"}

\* ... and of one that has not completed its message.
Holding == Registered \cup {"streaming", "completing"}

\* An entry of the registry names a handler that has not been handed a message
\* and has not left its finally clause.
EntryInv ==
    \A m \in Msgs : \A s \in Streams :
        registry[m] = s => future[s] # "result" /\ stream[s] \in Registered

\* While a message that was handed off holds the lock, a handler of a stream
\* for it has yet to complete it.
HandedInv ==
    \A m \in Msgs :
        proc[m] = "handed" /\ Lock(m) =>
            \E s \in Streams : StreamMsg[s] = m /\ stream[s] \in Holding

\* A lock names a message that a task is at work on or has handed off.
LockTakenInv ==
    \A u \in Users :
        processing[u] # NoMsg =>
            UserOf[processing[u]] = u /\ proc[processing[u]] \in AtWork \cup {"handed"}

\* A stream is opened after the reply to the POST of its message.
OpenedInv == \A s \in Streams : stream[s] # "idle" => post[StreamMsg[s]] = "replied"

ChainInv ==
    BaseInv /\ EntryInv /\ HandedInv /\ LockTakenInv /\ OpenedInv /\ NeverStranded

===========================================================================
