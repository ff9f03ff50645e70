----------------------------- MODULE ChainProofs -----------------------------
(***************************************************************************)
(* As long as no command raises, no client disconnects and the process     *)
(* stays up, the chain of triggers, handoffs and completions has no gap:   *)
(* HandoffCompleted and NeverStranded are invariants of Spec, for any      *)
(* number of streams per message and also if locks expire early.           *)
(***************************************************************************)
EXTENDS BrokerProofs

---------------------------------------------------------------------------
(* What leaves the parts of ChainInv alone. *)

\* No handler registers, gets a message or leaves its finally clause.
LEMMA EntryFrame ==
    ASSUME EntryInv, RequestAssumption,
           \A m \in Msgs : registry'[m] \in {registry[m], NoStream},
           \A s \in Streams : future'[s] = "result" => future[s] = "result",
           \A s \in Streams : stream[s] \in Registered => stream'[s] \in Registered
    PROVE  EntryInv'
BY DEF EntryInv, RequestAssumption

\* No lock is set, nothing is handed off, no handler completes its message.
LEMMA HandedFrame ==
    ASSUME HandedInv, RequestAssumption,
           \A u \in Users : processing'[u] \in {processing[u], NoMsg},
           \A m \in Msgs : proc'[m] = "handed" => proc[m] = "handed",
           \A s \in Streams : stream[s] \in Holding => stream'[s] \in Holding
    PROVE  HandedInv'
BY DEF HandedInv, Lock, RequestAssumption

\* No lock is set and no task ends its work.
LEMMA LockTakenFrame ==
    ASSUME LockTakenInv, TypeOK,
           \A u \in Users : processing'[u] \in {processing[u], NoMsg},
           \A m \in Msgs : proc[m] \in AtWork \cup {"handed"} => proc'[m] \in AtWork \cup {"handed"}
    PROVE  LockTakenInv'
BY DEF LockTakenInv, TypeOK, QueueTypeOK

\* No stream is opened.
LEMMA OpenedFrame ==
    ASSUME OpenedInv, RequestAssumption,
           \A s \in Streams : stream'[s] # "idle" => stream[s] # "idle",
           \A m \in Msgs : post[m] = "replied" => post'[m] = "replied"
    PROVE  OpenedInv'
BY DEF OpenedInv, RequestAssumption

\* Nobody who will look at the queue of u goes away.
LEMMA DrainerFrame ==
    ASSUME RequestAssumption, NEW u \in Users, HasDrainer(u),
           tasks[u] > 0 => tasks'[u] > 0,
           \A m \in Msgs : Active(m) => Active(m)',
           \A m \in Msgs : Triggers(m) => Triggers(m)',
           \A s \in Streams : Live(s) => Live(s)'
    PROVE  HasDrainer(u)'
BY DEF HasDrainer

\* Nor from any other queue, and no message is queued, dequeued or gets a stream.
LEMMA StrandedFrame ==
    ASSUME NeverStranded, UNCHANGED queue,
           \A u \in Users : HasDrainer(u) => HasDrainer(u)',
           \A s \in Streams : stream[s] = "idle" => stream'[s] = "idle"
    PROVE  NeverStranded'
BY DEF NeverStranded, ClientPending

---------------------------------------------------------------------------
(* The steps that disturb them. *)

\* A handoff: the handler it finds in the registry takes over, alive and
\* before its finally clause.
LEMMA HandOffKeepsChain ==
    ASSUME ChainInv, NEW m \in Msgs, HandOff(m), IsRegistered(m),
           proc[m] \in {"dispatch", "waiting"}, proc' = [proc EXCEPT ![m] = "handed"],
           UNCHANGED <<queueVars, tasks, stream, post>>
    PROVE  EntryInv' /\ HandedInv' /\ LockTakenInv' /\ OpenedInv' /\ NeverStranded'
<1>0. /\ TypeOK /\ RegistryInv /\ EntryInv /\ HandedInv /\ LockTakenInv
      /\ OpenedInv /\ NeverStranded
  BY DEF ChainInv, BaseInv
<1> USE <1>0, RequestAssumption
    DEF TypeOK, QueueTypeOK, RegistryTypeOK, ProcessorTypeOK, StreamTypeOK, queueVars
<1>1. PICK s \in Streams : registry[m] = s
  BY DEF IsRegistered
<1>2. StreamMsg[s] = m /\ stream[s] \in Registered
  BY <1>1 DEF RegistryInv, EntryInv
<1>3. /\ \A k \in Msgs : registry'[k] = IF k = m THEN NoStream ELSE registry[k]
      /\ \A t \in Streams : future'[t] = "result" => future[t] = "result" \/ t = s
  BY <1>1 DEF HandOff
<1>4. EntryInv'
  <2> SUFFICES ASSUME NEW k \in Msgs, NEW t \in Streams, registry'[k] = t
               PROVE  future'[t] # "result" /\ stream[t] \in Registered
    BY DEF EntryInv
  <2>1. k # m /\ registry[k] = t
    BY <1>3
  <2>2. t # s
    BY <1>2, <2>1 DEF RegistryInv
  <2> QED
    BY <1>3, <2>1, <2>2 DEF EntryInv
<1>5. HandedInv'
  <2> SUFFICES ASSUME NEW k \in Msgs, proc'[k] = "handed", Lock(k)'
               PROVE  \E t \in Streams : StreamMsg[t] = k /\ stream'[t] \in Holding
    BY DEF HandedInv
  <2>1. CASE k = m
    BY <1>2, <2>1 DEF Holding
  <2>2. CASE k # m
    BY <2>2 DEF HandedInv, Lock
  <2> QED
    BY <2>1, <2>2
<1>6. LockTakenInv' /\ OpenedInv'
  BY LockTakenFrame, OpenedFrame
<1>7. NeverStranded'
  <2> SUFFICES ASSUME NEW u \in Users, HasDrainer(u) PROVE HasDrainer(u)'
    BY StrandedFrame
  <2>1. CASE UserOf[m] = u
    BY <1>2, <2>1 DEF HasDrainer, Live, Registered
  <2>2. CASE UserOf[m] # u
    BY <2>2 DEF HasDrainer, Active, Triggers, Live
  <2> QED
    BY <2>1, <2>2
<1> QED
  BY <1>4, <1>5, <1>6, <1>7

\* A new message: a callback message that is first triggers its task, one that
\* is not joins a queue that is looked after, and for an SSE message no stream
\* was opened yet.
LEMMA PushKeepsChain ==
    ASSUME ChainInv, NEW m \in Msgs, SubmitPush(m) PROVE NeverStranded'
<1>0. TypeOK /\ OpenedInv /\ NeverStranded
  BY DEF ChainInv, BaseInv
<1> USE <1>0, RequestAssumption DEF TypeOK, QueueTypeOK
<1> DEFINE v == UserOf[m]
<1>1. /\ queue' = [queue EXCEPT ![v] = Append(queue[v], m)] /\ v \in Users
      /\ post[m] = "new"
      /\ post' = [post EXCEPT ![m] = IF queue[v] = <<>> THEN "pushedFirst" ELSE "pushedBehind"]
      /\ UNCHANGED <<tasks, proc, stream>>
  BY DEF SubmitPush, Enqueue, FirstInQueue, processorVars
<1>2. \A u \in Users : HasDrainer(u) => HasDrainer(u)'
  <2>1. \A k \in Msgs : Triggers(k) => Triggers(k)'
    BY <1>1 DEF Triggers
  <2> QED
    BY <1>1, <2>1, DrainerFrame DEF Active, Live
<1>4. \A u \in Users : u # v => queue'[u] = queue[u]
  BY <1>1
<1>5. /\ queue[v] # <<>> => Head(queue'[v]) = Head(queue[v])
      /\ queue[v] = <<>> => Head(queue'[v]) = m
  <2>1. queue'[v] = Append(queue[v], m) /\ queue[v] \in Seq(Msgs)
    BY <1>1
  <2> QED
    BY <2>1
<1> SUFFICES ASSUME NEW u \in Users, queue'[u] # <<>>
             PROVE  (HasDrainer(u) \/ ClientPending(Head(queue[u])))'
  BY DEF NeverStranded
<1>6. CASE u # v
  BY <1>1, <1>2, <1>4, <1>6 DEF NeverStranded, ClientPending
<1>7. CASE u = v /\ queue[v] # <<>>
  BY <1>1, <1>2, <1>5, <1>7 DEF NeverStranded, ClientPending
<1>8. CASE u = v /\ queue[v] = <<>> /\ m \in CallbackMsgs
  BY <1>1, <1>8 DEF HasDrainer, Triggers
<1>9. CASE u = v /\ queue[v] = <<>> /\ m \notin CallbackMsgs
  <2>1. ClientPending(m)
    BY <1>1, <1>9 DEF ClientPending, OpenedInv
  <2> QED
    BY <1>5, <1>9, <1>1, <2>1 DEF ClientPending
<1> QED
  BY <1>6, <1>7, <1>8, <1>9

\* A dequeue: the task that has the message looks after the rest, and the new
\* lock names it.
LEMMA DequeueKeepsChain ==
    ASSUME ChainInv, NEW u \in Users, NEW m \in Msgs, ProcessDequeue(u, m),
           UNCHANGED <<stream, post>>
    PROVE  EntryInv' /\ HandedInv' /\ LockTakenInv' /\ OpenedInv' /\ NeverStranded'
<1>0. /\ TypeOK /\ QueueInv /\ EntryInv /\ HandedInv /\ LockTakenInv /\ OpenedInv
      /\ NeverStranded
  BY DEF ChainInv, BaseInv
<1> USE <1>0, RequestAssumption
    DEF TypeOK, QueueTypeOK, RegistryTypeOK, ProcessorTypeOK, StreamTypeOK
<1>1. /\ queue' = [queue EXCEPT ![u] = Tail(queue[u])]
      /\ processing' = [processing EXCEPT ![u] = m]
      /\ proc' = [proc EXCEPT ![m] = "dequeued"]
      /\ tasks' = [tasks EXCEPT ![u] = tasks[u] - 1]
      /\ UNCHANGED <<registry, future>>
  BY DEF ProcessDequeue, Dequeue, registryVars
<1>2. proc[m] = "none" /\ UserOf[m] = u
  BY DequeuedIsNew DEF ProcessDequeue
<1>3. EntryInv' /\ OpenedInv'
  BY <1>1, EntryFrame, OpenedFrame
<1>4. HandedInv'
  <2> SUFFICES ASSUME NEW k \in Msgs, proc'[k] = "handed", Lock(k)'
               PROVE  \E t \in Streams : StreamMsg[t] = k /\ stream'[t] \in Holding
    BY DEF HandedInv
  <2>1. k # m /\ proc[k] = "handed"
    BY <1>1
  <2>2. Lock(k)
    BY <1>1, <2>1 DEF Lock
  <2> QED
    BY <2>1, <2>2 DEF HandedInv
<1>5. LockTakenInv'
  <2> SUFFICES ASSUME NEW v \in Users, processing'[v] # NoMsg
               PROVE  /\ UserOf[processing'[v]] = v
                      /\ proc'[processing'[v]] \in AtWork \cup {"handed"}
    BY DEF LockTakenInv
  <2>1. CASE v = u
    BY <1>1, <1>2, <2>1 DEF AtWork
  <2>2. CASE v # u
    <3>1. processing'[v] = processing[v] /\ processing[v] \in Msgs
      BY <1>1, <2>2
    <3>2. /\ UserOf[processing[v]] = v
          /\ proc[processing[v]] \in AtWork \cup {"handed"}
      BY <3>1 DEF LockTakenInv
    <3> QED
      BY <1>1, <1>2, <2>2, <3>1, <3>2
  <2> QED
    BY <2>1, <2>2
<1>6. NeverStranded'
  <2> SUFFICES ASSUME NEW v \in Users, queue'[v] # <<>>
               PROVE  (HasDrainer(v) \/ ClientPending(Head(queue[v])))'
    BY DEF NeverStranded
  <2>1. CASE v = u
    BY <1>1, <1>2, <2>1 DEF HasDrainer, Active
  <2>2. CASE v # u
    <3>1. queue'[v] = queue[v]
      BY <1>1, <2>2
    <3>2. \A k \in Msgs : Active(k) => Active(k)'
      BY <1>1 DEF Active
    <3>3. HasDrainer(v) => HasDrainer(v)'
      BY <1>1, <2>2, <3>2, DrainerFrame DEF Triggers, Live
    <3> QED
      BY <3>1, <3>3 DEF NeverStranded, ClientPending
  <2> QED
    BY <2>1, <2>2
<1> QED
  BY <1>3, <1>4, <1>5, <1>6

\* A task that finds the user busy ends, but whoever made the user busy is there.
LEMMA EmptyTaskKeepsChain ==
    ASSUME ChainInv, NEW u \in Users, ProcessNone(u), UNCHANGED <<stream, post>>
    PROVE  NeverStranded'
<1>0. /\ TypeOK /\ HandedInv /\ LockTakenInv /\ NeverStranded
  BY DEF ChainInv, BaseInv
<1> USE <1>0, RequestAssumption DEF TypeOK, QueueTypeOK, ProcessorTypeOK, queueVars
<1>1. /\ processing[u] # NoMsg \/ queue[u] = <<>>
      /\ tasks' = [tasks EXCEPT ![u] = tasks[u] - 1]
      /\ UNCHANGED <<queueVars, proc>>
  BY DEF ProcessNone, DequeueNone
<1> SUFFICES ASSUME NEW v \in Users, queue[v] # <<>>
             PROVE  (HasDrainer(v) \/ ClientPending(Head(queue[v])))'
  BY <1>1 DEF NeverStranded
<1>2. CASE v # u
  <2>1. HasDrainer(v) => HasDrainer(v)'
    BY <1>1, <1>2, DrainerFrame DEF Active, Triggers, Live
  <2>2. UNCHANGED <<queue, stream>>
    BY <1>1 DEF queueVars
  <2>3. HasDrainer(v) \/ ClientPending(Head(queue[v]))
    BY DEF NeverStranded
  <2> QED
    BY <2>1, <2>2, <2>3 DEF ClientPending
<1>3. CASE v = u
  <2> DEFINE k == processing[u]
  <2>1. k \in Msgs /\ UserOf[k] = u /\ proc[k] \in AtWork \cup {"handed"}
    BY <1>1, <1>3 DEF LockTakenInv
  <2>2. CASE proc[k] \in AtWork
    BY <1>1, <1>3, <2>1, <2>2 DEF HasDrainer, Active, AtWork
  <2>3. CASE proc[k] = "handed"
    <3>1. PICK s \in Streams : StreamMsg[s] = k /\ stream[s] \in Holding
      BY <2>1, <2>3 DEF HandedInv, Lock
    <3> QED
      BY <1>3, <2>1, <3>1 DEF HasDrainer, Live, Holding, Registered
  <2> QED
    BY <2>1, <2>2, <2>3
<1> QED
  BY <1>2, <1>3

\* Every step preserves ChainInv.
LEMMA ChainStep == Undisturbed /\ ChainInv /\ [Next]_vars => ChainInv'
<1> SUFFICES ASSUME Undisturbed, ChainInv, [Next]_vars
             PROVE  EntryInv' /\ HandedInv' /\ LockTakenInv' /\ OpenedInv' /\ NeverStranded'
  BY BaseStep DEF ChainInv
<1>0. /\ TypeOK /\ QueueInv /\ RegistryInv /\ HandoffInv /\ EntryInv /\ HandedInv
      /\ LockTakenInv /\ OpenedInv /\ NeverStranded
  BY DEF ChainInv, BaseInv
<1> DEFINE Preserved ==
      EntryInv' /\ HandedInv' /\ LockTakenInv' /\ OpenedInv' /\ NeverStranded'
<1> USE <1>0, RequestAssumption
    DEF TypeOK, QueueTypeOK, RegistryTypeOK, ProcessorTypeOK, StreamTypeOK,
        queueVars, registryVars, processorVars
<1>a. ASSUME UNCHANGED queue, \A u \in Users : tasks[u] > 0 => tasks'[u] > 0,
             \A m \in Msgs : Active(m) => Active(m)',
             \A m \in Msgs : Triggers(m) => Triggers(m)',
             \A s \in Streams : Live(s) => Live(s)',
             \A s \in Streams : stream[s] = "idle" => stream'[s] = "idle"
      PROVE  NeverStranded'
  BY <1>a, DrainerFrame, StrandedFrame
<1>b. ASSUME \A m \in Msgs : registry'[m] \in {registry[m], NoStream},
             \A u \in Users : processing'[u] \in {processing[u], NoMsg},
             \A s \in Streams : future'[s] = "result" => future[s] = "result",
             \A s \in Streams : stream[s] \in Registered => stream'[s] \in Registered,
             \A s \in Streams : stream[s] \in Holding => stream'[s] \in Holding,
             \A s \in Streams : stream'[s] # "idle" => stream[s] # "idle",
             \A m \in Msgs : proc'[m] = "handed" => proc[m] = "handed",
             \A m \in Msgs : proc[m] \in AtWork \cup {"handed"} =>
                                 proc'[m] \in AtWork \cup {"handed"},
             \A m \in Msgs : post[m] = "replied" => post'[m] = "replied"
      PROVE  EntryInv' /\ HandedInv' /\ LockTakenInv' /\ OpenedInv'
  BY <1>b, EntryFrame, HandedFrame, LockTakenFrame, OpenedFrame

<1>1. ASSUME NEW m \in Msgs, SubmitPush(m) PROVE Preserved
  <2>1. EntryInv' /\ HandedInv' /\ LockTakenInv' /\ OpenedInv'
    BY <1>1, <1>b DEF SubmitPush, Enqueue
  <2> QED
    BY <1>1, <2>1, PushKeepsChain
<1>2. ASSUME NEW m \in Msgs, SubmitReply(m) PROVE Preserved
  <2>1. EntryInv' /\ HandedInv' /\ LockTakenInv' /\ OpenedInv'
    BY <1>2, <1>b DEF SubmitReply, StoreMetadata, Trigger
  <2>2. \A u \in Users : HasDrainer(u) => HasDrainer(u)'
    <3> SUFFICES ASSUME NEW u \in Users, HasDrainer(u) PROVE HasDrainer(u)'
      OBVIOUS
    <3>1. CASE Triggers(m) /\ UserOf[m] = u
      BY <1>2, <3>1 DEF SubmitReply, Trigger, HasDrainer
    <3>2. CASE ~(Triggers(m) /\ UserOf[m] = u)
      <4>1. \A k \in Msgs : Triggers(k) /\ UserOf[k] = u => Triggers(k)'
        BY <1>2, <3>2 DEF SubmitReply, Triggers
      <4>2. tasks[u] > 0 => tasks'[u] > 0
        <5>1. \/ tasks' = tasks
              \/ tasks' = [tasks EXCEPT ![UserOf[m]] = tasks[UserOf[m]] + 1]
          BY <1>2 DEF SubmitReply, Trigger
        <5>2. tasks[u] \in Nat /\ UserOf[m] \in Users
          OBVIOUS
        <5>3. CASE tasks' = tasks
          BY <5>3
        <5>4. CASE tasks' = [tasks EXCEPT ![UserOf[m]] = tasks[UserOf[m]] + 1]
          <6>1. tasks'[u] = IF u = UserOf[m] THEN tasks[u] + 1 ELSE tasks[u]
            BY <5>4
          <6> QED
            BY <5>2, <6>1
        <5> QED
          BY <5>1, <5>3, <5>4
      <4> QED
        BY <1>2, <4>1, <4>2 DEF SubmitReply, HasDrainer, Active, Live
    <3> QED
      BY <3>1, <3>2
  <2>3. NeverStranded'
    BY <1>2, <2>2, StrandedFrame DEF SubmitReply, StoreMetadata
  <2> QED
    BY <2>1, <2>3
<1>3. ASSUME NEW m \in Msgs, SubmitRaises(m) PROVE Preserved
  BY <1>3 DEF SubmitRaises, Undisturbed
<1>4. ASSUME NEW m \in Msgs, SubmitLosesReply(m) PROVE Preserved
  BY <1>4 DEF SubmitLosesReply, Undisturbed
<1>5. ASSUME NEW s \in Streams, ClientOpens(s) PROVE Preserved
  <2>0. /\ stream[s] = "idle" /\ stream' = [stream EXCEPT ![s] = "checkLength"]
        /\ registry' = [registry EXCEPT ![StreamMsg[s]] = s]
        /\ future' = [future EXCEPT ![s] = "pending"]
        /\ post[StreamMsg[s]] = "replied"
        /\ UNCHANGED <<queueVars, processorVars, post>>
    BY <1>5 DEF ClientOpens, OpenStream, Advance, Register
  <2>1. EntryInv'
    BY <2>0 DEF EntryInv, Registered
  <2>2. HandedInv' /\ LockTakenInv'
    BY <2>0, HandedFrame, LockTakenFrame DEF Holding, Registered
  <2>3. OpenedInv'
    BY <2>0 DEF OpenedInv
  <2>4. NeverStranded'
    <3> SUFFICES ASSUME NEW u \in Users, queue[u] # <<>>
                 PROVE  (HasDrainer(u) \/ ClientPending(Head(queue[u])))'
      BY <2>0 DEF NeverStranded
    <3>1. CASE UserOf[StreamMsg[s]] = u
      BY <2>0, <3>1 DEF HasDrainer, Live
    <3>2. CASE UserOf[StreamMsg[s]] # u /\ HasDrainer(u)
      BY <2>0, <3>2, DrainerFrame DEF Active, Triggers, Live
    <3>3. CASE UserOf[StreamMsg[s]] # u /\ ~HasDrainer(u)
      <4>1. ClientPending(Head(queue[u]))
        BY <3>3 DEF NeverStranded
      <4>2. UserOf[Head(queue[u])] = u
        <5>1. 1 \in 1..Len(queue[u]) /\ Head(queue[u]) = queue[u][1]
          OBVIOUS
        <5> QED
          BY <5>1 DEF QueueInv
      <4> QED
        BY <2>0, <3>3, <4>1, <4>2 DEF ClientPending
    <3> QED
      BY <3>1, <3>2, <3>3
  <2> QED
    BY <2>1, <2>2, <2>3, <2>4
<1>6. ASSUME NEW u \in Users, ProcessNone(u), UNCHANGED <<stream, post>> PROVE Preserved
  <2>1. EntryInv' /\ HandedInv' /\ LockTakenInv' /\ OpenedInv'
    BY <1>6, <1>b DEF ProcessNone, DequeueNone
  <2> QED
    BY <1>6, <2>1, EmptyTaskKeepsChain
<1>7. ASSUME NEW u \in Users, NEW m \in Msgs, ProcessDequeue(u, m), UNCHANGED <<stream,
     post>> PROVE Preserved
  BY <1>7, DequeueKeepsChain
<1>8. ASSUME NEW u \in Users, DequeueRaises(u), UNCHANGED <<stream, post>> PROVE Preserved
  BY <1>8 DEF DequeueRaises, Undisturbed
<1>9. ASSUME NEW m \in Msgs, StoreStartedAt(m), UNCHANGED <<stream, post>> PROVE Preserved
  <2>1. EntryInv' /\ HandedInv' /\ LockTakenInv' /\ OpenedInv'
    BY <1>9, <1>b DEF StoreStartedAt, Proceed, StoreMetadata, AtWork, Registered, Holding
  <2>2. NeverStranded'
    BY <1>9, <1>a DEF StoreStartedAt, Proceed, StoreMetadata, Active, Triggers, Live
  <2> QED
    BY <2>1, <2>2
<1>10. ASSUME NEW m \in Msgs, HandOffRegistered(m), UNCHANGED <<stream, post>> PROVE
     Preserved
  BY <1>10, HandOffKeepsChain DEF HandOffRegistered, Proceed
<1>11. ASSUME NEW m \in Msgs, AwaitStream(m), UNCHANGED <<stream, post>> PROVE Preserved
  <2>1. EntryInv' /\ HandedInv' /\ LockTakenInv' /\ OpenedInv'
    BY <1>11, <1>b DEF AwaitStream, Proceed, ArmEvent, AtWork, Registered, Holding
  <2>2. NeverStranded'
    BY <1>11, <1>a DEF AwaitStream, Proceed, ArmEvent, Active, Triggers, Live
  <2> QED
    BY <2>1, <2>2
<1>12. ASSUME NEW m \in Msgs, RegistrationArrives(m), UNCHANGED <<stream, post>> PROVE
     Preserved
  BY <1>12, HandOffKeepsChain DEF RegistrationArrives, Proceed
<1>13. ASSUME NEW m \in Msgs, RegistrationGone(m), UNCHANGED <<stream, post>> PROVE
     Preserved
  <2>1. EntryInv' /\ HandedInv' /\ LockTakenInv' /\ OpenedInv'
    BY <1>13, <1>b DEF RegistrationGone, Proceed, DropEvent, AtWork, Registered, Holding
  <2>2. NeverStranded'
    BY <1>13, <1>a DEF RegistrationGone, Proceed, DropEvent, Active, Triggers, Live
  <2> QED
    BY <2>1, <2>2
<1>14. ASSUME NEW m \in Msgs, RegistrationTimeout(m), UNCHANGED <<stream, post>> PROVE
     Preserved
  <2>1. EntryInv' /\ HandedInv' /\ LockTakenInv' /\ OpenedInv'
    BY <1>14, <1>b DEF RegistrationTimeout, Proceed, DropEvent, AtWork, Registered, Holding
  <2>2. NeverStranded'
    BY <1>14, <1>a DEF RegistrationTimeout, Proceed, DropEvent, Active, Triggers, Live
  <2> QED
    BY <2>1, <2>2
<1>15. ASSUME NEW m \in Msgs, CallWorker(m), UNCHANGED <<stream, post>> PROVE Preserved
  <2>1. EntryInv' /\ HandedInv' /\ LockTakenInv' /\ OpenedInv'
    BY <1>15, <1>b DEF CallWorker, Proceed, RecordCall, AtWork, Registered, Holding
  <2>2. NeverStranded'
    BY <1>15, <1>a DEF CallWorker, Proceed, RecordCall, Active, Triggers, Live
  <2> QED
    BY <2>1, <2>2
<1>16. ASSUME NEW m \in Msgs, WorkerAnswers(m), UNCHANGED <<stream, post>> PROVE Preserved
  <2>1. EntryInv' /\ HandedInv' /\ LockTakenInv' /\ OpenedInv'
    BY <1>16, <1>b DEF WorkerAnswers, Proceed, AtWork, Registered, Holding
  <2>2. NeverStranded'
    BY <1>16, <1>a DEF WorkerAnswers, Proceed, Active, Triggers, Live
  <2> QED
    BY <2>1, <2>2
<1>17. ASSUME NEW m \in Msgs, WorkerFails(m), UNCHANGED <<stream, post>> PROVE Preserved
  <2>1. EntryInv' /\ HandedInv' /\ LockTakenInv' /\ OpenedInv'
    BY <1>17, <1>b DEF WorkerFails, Proceed, AtWork, Registered, Holding
  <2>2. NeverStranded'
    BY <1>17, <1>a DEF WorkerFails, Proceed, Active, Triggers, Live
  <2> QED
    BY <2>1, <2>2
<1>18. ASSUME NEW m \in Msgs, DeliverCallback(m), UNCHANGED <<stream, post>> PROVE
     Preserved
  <2>1. EntryInv' /\ HandedInv' /\ LockTakenInv' /\ OpenedInv'
    BY <1>18, <1>b DEF DeliverCallback, Proceed, Deliver, AtWork, Registered, Holding
  <2>2. NeverStranded'
    BY <1>18, <1>a DEF DeliverCallback, Proceed, Deliver, Active, Triggers, Live
  <2> QED
    BY <2>1, <2>2
<1>19. ASSUME NEW m \in Msgs, DeliverErrorCallback(m), UNCHANGED <<stream, post>> PROVE
     Preserved
  <2>1. EntryInv' /\ HandedInv' /\ LockTakenInv' /\ OpenedInv'
    BY <1>19, <1>b DEF DeliverErrorCallback, Proceed, Deliver, AtWork, Registered, Holding
  <2>2. NeverStranded'
    BY <1>19, <1>a DEF DeliverErrorCallback, Proceed, Deliver, Active, Triggers, Live
  <2> QED
    BY <2>1, <2>2
<1>20. ASSUME NEW m \in Msgs, Complete(m), UNCHANGED <<stream, post>> PROVE Preserved
  <2>0. /\ proc[m] = "completing" /\ proc' = [proc EXCEPT ![m] = "scheduling"]
        /\ processing' = [processing EXCEPT ![UserOf[m]] =
               IF processing[UserOf[m]] = m THEN NoMsg ELSE processing[UserOf[m]]]
        /\ UNCHANGED <<queue, registryVars, tasks, stream, post>>
    BY <1>20 DEF Complete, Proceed, MarkComplete
  <2>1. EntryInv' /\ HandedInv' /\ OpenedInv'
    BY <2>0, EntryFrame, HandedFrame, OpenedFrame
  <2>2. LockTakenInv'
    <3> SUFFICES ASSUME NEW u \in Users, processing'[u] # NoMsg
                 PROVE  /\ UserOf[processing'[u]] = u
                        /\ proc'[processing'[u]] \in AtWork \cup {"handed"}
      BY DEF LockTakenInv
    <3>1. processing'[u] = processing[u] /\ processing[u] \in Msgs
      BY <2>0
    <3>2. UserOf[processing[u]] = u /\ proc[processing[u]] \in AtWork \cup {"handed"}
      BY <3>1 DEF LockTakenInv
    <3>3. processing[u] # m
      BY <2>0, <3>1, <3>2
    <3> QED
      BY <2>0, <3>1, <3>2, <3>3
  <2>3. NeverStranded'
    BY <2>0, <1>a DEF Active, Triggers, Live
  <2> QED
    BY <2>1, <2>2, <2>3
<1>21. ASSUME NEW m \in Msgs, ScheduleNext(m), UNCHANGED <<stream, post>> PROVE Preserved
  <2>0. /\ proc[m] = "scheduling" /\ proc' = [proc EXCEPT ![m] = "done"]
        /\ tasks' = [tasks EXCEPT ![UserOf[m]] = tasks[UserOf[m]] + 1]
        /\ UNCHANGED <<queueVars, registryVars, stream, post>>
    BY <1>21 DEF ScheduleNext, Proceed, Trigger
  <2>1. EntryInv' /\ HandedInv' /\ LockTakenInv' /\ OpenedInv'
    BY <2>0, <1>b DEF AtWork
  <2>2. \A u \in Users : HasDrainer(u) => HasDrainer(u)'
    <3> SUFFICES ASSUME NEW u \in Users, HasDrainer(u) PROVE HasDrainer(u)'
      OBVIOUS
    <3>1. CASE UserOf[m] = u
      BY <2>0, <3>1 DEF HasDrainer
    <3>2. CASE UserOf[m] # u
      BY <2>0, <3>2 DEF HasDrainer, Active, Triggers, Live
    <3> QED
      BY <3>1, <3>2
  <2> QED
    BY <2>0, <2>1, <2>2, StrandedFrame
<1>22. ASSUME NEW m \in Msgs, CommandRaises(m), UNCHANGED <<stream, post>> PROVE Preserved
  BY <1>22 DEF CommandRaises, Undisturbed
<1>23. ASSUME NEW s \in Streams, LengthPositive(s), UNCHANGED post PROVE Preserved
  <2>1. EntryInv' /\ HandedInv' /\ LockTakenInv' /\ OpenedInv'
    BY <1>23, <1>b DEF LengthPositive, Advance, Trigger, AtWork, Registered, Holding
  <2>2. NeverStranded'
    BY <1>23, <1>a DEF LengthPositive, Advance, Trigger, Active, Triggers, Live
  <2> QED
    BY <2>1, <2>2
<1>24. ASSUME NEW s \in Streams, LengthZero(s), UNCHANGED post PROVE Preserved
  <2>1. EntryInv' /\ HandedInv' /\ LockTakenInv' /\ OpenedInv'
    BY <1>24, <1>b DEF LengthZero, Advance, AtWork, Registered, Holding
  <2>2. NeverStranded'
    BY <1>24, <1>a DEF LengthZero, Advance, Active, Triggers, Live
  <2> QED
    BY <2>1, <2>2
<1>25. ASSUME NEW s \in Streams, ProcessingFound(s), UNCHANGED post PROVE Preserved
  <2>1. EntryInv' /\ HandedInv' /\ LockTakenInv' /\ OpenedInv'
    BY <1>25, <1>b DEF ProcessingFound, Advance, Trigger, AtWork, Registered, Holding
  <2>2. NeverStranded'
    BY <1>25, <1>a DEF ProcessingFound, Advance, Trigger, Active, Triggers, Live
  <2> QED
    BY <2>1, <2>2
<1>26. ASSUME NEW s \in Streams, NoWorkFound(s), UNCHANGED post PROVE Preserved
  <2>1. EntryInv' /\ HandedInv' /\ LockTakenInv' /\ OpenedInv'
    BY <1>26, <1>b DEF NoWorkFound, Advance, AtWork, Registered, Holding
  <2>2. NeverStranded'
    BY <1>26, <1>a DEF NoWorkFound, Advance, Active, Triggers, Live
  <2> QED
    BY <2>1, <2>2
<1>27. ASSUME NEW s \in Streams, StartStreaming(s), UNCHANGED post PROVE Preserved
  <2>0. /\ stream[s] = "waiting" /\ stream' = [stream EXCEPT ![s] = "streaming"]
        /\ future[s] = "result"
        /\ UNCHANGED <<queueVars, registryVars, tasks, proc, post>>
    BY <1>27 DEF StartStreaming, Advance
  <2>1. EntryInv'
    BY <2>0 DEF EntryInv
  <2>2. HandedInv' /\ LockTakenInv' /\ OpenedInv'
    BY <2>0, HandedFrame, LockTakenFrame, OpenedFrame DEF Holding, Registered
  <2>3. NeverStranded'
    BY <2>0, <1>a DEF Active, Triggers, Live
  <2> QED
    BY <2>1, <2>2, <2>3
<1>28. ASSUME NEW s \in Streams, HandoffTimeout(s), UNCHANGED post PROVE Preserved
  <2>1. EntryInv' /\ HandedInv' /\ LockTakenInv' /\ OpenedInv'
    BY <1>28, <1>b DEF HandoffTimeout, Advance, CancelFuture, AtWork, Registered, Holding
  <2>2. NeverStranded'
    BY <1>28, <1>a DEF HandoffTimeout, Advance, CancelFuture, Active, Triggers, Live
  <2> QED
    BY <2>1, <2>2
<1>29. ASSUME NEW s \in Streams, FutureCancelled(s), UNCHANGED post PROVE Preserved
  <2>1. EntryInv' /\ HandedInv' /\ LockTakenInv' /\ OpenedInv'
    BY <1>29, <1>b DEF FutureCancelled, Advance, AtWork, Registered, Holding
  <2>2. NeverStranded'
    BY <1>29, <1>a DEF FutureCancelled, Advance, Active, Triggers, Live
  <2> QED
    BY <2>1, <2>2
<1>30. ASSUME NEW s \in Streams, StreamEnds(s), UNCHANGED post PROVE Preserved
  <2>1. EntryInv' /\ HandedInv' /\ LockTakenInv' /\ OpenedInv'
    BY <1>30, <1>b DEF StreamEnds, Advance, AtWork, Registered, Holding
  <2>2. NeverStranded'
    BY <1>30, <1>a DEF StreamEnds, Advance, Active, Triggers, Live
  <2> QED
    BY <2>1, <2>2
<1>31. ASSUME NEW s \in Streams, StreamUnregisters(s), UNCHANGED post PROVE Preserved
  <2> DEFINE m == StreamMsg[s]
  <2>0. /\ stream[s] = "closing" /\ stream' = [stream EXCEPT ![s] = "completing"]
        /\ m \in Msgs /\ registry' = [registry EXCEPT ![m] = NoStream]
        /\ \A t \in Streams : future'[t] = "result" => future[t] = "result"
        /\ UNCHANGED <<queueVars, tasks, proc, post>>
    BY <1>31 DEF StreamUnregisters, Advance, Unregister
  <2>1. EntryInv'
    <3> SUFFICES ASSUME NEW k \in Msgs, NEW t \in Streams, registry'[k] = t
                 PROVE  future'[t] # "result" /\ stream'[t] \in Registered
      BY DEF EntryInv
    <3>1. k # m /\ registry[k] = t
      BY <2>0
    <3>2. StreamMsg[t] = k
      BY <3>1 DEF RegistryInv
    <3>3. t # s
      BY <3>1, <3>2
    <3> QED
      BY <2>0, <3>1, <3>3 DEF EntryInv
  <2>2. HandedInv' /\ LockTakenInv' /\ OpenedInv'
    BY <2>0, HandedFrame, LockTakenFrame, OpenedFrame DEF Holding, Registered
  <2>3. NeverStranded'
    BY <2>0, <1>a DEF Active, Triggers, Live
  <2> QED
    BY <2>1, <2>2, <2>3
<1>32. ASSUME NEW s \in Streams, StreamCompletes(s), UNCHANGED post PROVE Preserved
  <2> DEFINE m == StreamMsg[s]
  <2>0. /\ stream[s] = "completing" /\ stream' = [stream EXCEPT ![s] = "triggering"]
        /\ m \in Msgs
        /\ processing' = [processing EXCEPT ![UserOf[m]] =
               IF processing[UserOf[m]] = m THEN NoMsg ELSE processing[UserOf[m]]]
        /\ UNCHANGED <<queue, registryVars, tasks, proc, post>>
    BY <1>32 DEF StreamCompletes, Advance, MarkComplete
  <2>1. EntryInv' /\ LockTakenInv' /\ OpenedInv'
    BY <2>0, EntryFrame, LockTakenFrame, OpenedFrame DEF Registered
  <2>2. HandedInv'
    <3> SUFFICES ASSUME NEW k \in Msgs, proc[k] = "handed", Lock(k)'
                 PROVE  \E t \in Streams : StreamMsg[t] = k /\ stream'[t] \in Holding
      BY <2>0 DEF HandedInv
    <3>1. k # m /\ Lock(k)
      BY <2>0 DEF Lock
    <3>2. PICK t \in Streams : StreamMsg[t] = k /\ stream[t] \in Holding
      BY <3>1 DEF HandedInv
    <3>3. t # s
      BY <3>1, <3>2
    <3> QED
      BY <2>0, <3>2, <3>3
  <2>3. NeverStranded'
    BY <2>0, <1>a DEF Active, Triggers, Live
  <2> QED
    BY <2>1, <2>2, <2>3
<1>33. ASSUME NEW s \in Streams, StreamTriggers(s), UNCHANGED post PROVE Preserved
  <2>0. /\ stream[s] = "triggering" /\ stream' = [stream EXCEPT ![s] = "closed"]
        /\ tasks' = [tasks EXCEPT ![UserOf[StreamMsg[s]]] = tasks[UserOf[StreamMsg[s]]] + 1]
        /\ UNCHANGED <<queueVars, registryVars, proc, post>>
    BY <1>33 DEF StreamTriggers, Advance, Trigger
  <2>1. EntryInv' /\ HandedInv' /\ LockTakenInv' /\ OpenedInv'
    BY <2>0, <1>b DEF Registered, Holding
  <2>2. \A u \in Users : HasDrainer(u) => HasDrainer(u)'
    <3> SUFFICES ASSUME NEW u \in Users, HasDrainer(u) PROVE HasDrainer(u)'
      OBVIOUS
    <3>1. CASE UserOf[StreamMsg[s]] = u
      BY <2>0, <3>1 DEF HasDrainer
    <3>2. CASE UserOf[StreamMsg[s]] # u
      BY <2>0, <3>2 DEF HasDrainer, Active, Triggers, Live
    <3> QED
      BY <3>1, <3>2
  <2> QED
    BY <2>0, <2>1, <2>2, StrandedFrame
<1>34. ASSUME NEW s \in Streams, StreamCommandRaises(s), UNCHANGED post PROVE Preserved
  BY <1>34 DEF StreamCommandRaises, Undisturbed
<1>35. ASSUME NEW s \in Streams, Disconnect(s), UNCHANGED post PROVE Preserved
  BY <1>35 DEF Disconnect, Undisturbed
<1>36. ASSUME NEW s \in Streams, DisconnectUncaught(s), UNCHANGED post PROVE Preserved
  BY <1>36 DEF DisconnectUncaught, Undisturbed
<1>37. ASSUME NEW u \in Users, LockExpires(u) PROVE Preserved
  <2>1. EntryInv' /\ HandedInv' /\ LockTakenInv' /\ OpenedInv'
    BY <1>37, <1>b DEF LockExpires, ProcessingExpires, AtWork, Registered, Holding
  <2>2. NeverStranded'
    BY <1>37, <1>a DEF LockExpires, ProcessingExpires, Active, Triggers, Live
  <2> QED
    BY <2>1, <2>2
<1>38. ASSUME Crash PROVE Preserved
  BY <1>38 DEF Crash, Undisturbed
<1>39. CASE UNCHANGED vars
  <2>1. EntryInv' /\ HandedInv' /\ LockTakenInv' /\ OpenedInv'
    BY <1>39, <1>b DEF vars, AtWork, Registered, Holding
  <2>2. NeverStranded'
    BY <1>39, <1>a DEF vars, Active, Triggers, Live
  <2> QED
    BY <2>1, <2>2
<1> QED
  BY <1>1, <1>2, <1>3, <1>4, <1>5, <1>6, <1>7, <1>8, <1>9, <1>10, <1>11, <1>12, <1>13,
       <1>14, <1>15, <1>16, <1>17, <1>18, <1>19, <1>20, <1>21, <1>22, <1>23, <1>24, <1>25, <1>26,
       <1>27, <1>28, <1>29, <1>30, <1>31, <1>32, <1>33, <1>34, <1>35, <1>36, <1>37, <1>38, <1>39
     DEF Next, ClientStep, Run, Work, TaskStep, ProcessorStep, WorkerReturns, StreamStep,
         WorkerStreamEnds, TaskFault, ProcessorFault, StreamFault

LEMMA ChainInit == Init => ChainInv
BY BaseInit, RequestAssumption
   DEF ChainInv, EntryInv, HandedInv, LockTakenInv, OpenedInv, NeverStranded,
       Init, QueueInit, RegistryInit, ProcessorInit, StreamInit

\* "SSE handler takes over mark_complete + trigger_next"
\* (message_processor.py:206): while nothing raises and no client disconnects,
\* a handoff always finds a handler that does.
THEOREM HandoffAlwaysCompleted == ASSUME Undisturbed PROVE Spec => []HandoffCompleted
<1>1. ChainInv /\ [Next]_vars => ChainInv'
  BY Undisturbed, ChainStep
<1>2. ChainInv => HandoffCompleted
  <2> SUFFICES ASSUME ChainInv, NEW m \in Msgs, proc[m] = "handed", Lock(m)
               PROVE  \E s \in Streams : StreamMsg[s] = m /\ Live(s)
    BY DEF HandoffCompleted, Lock
  <2>1. PICK s \in Streams : StreamMsg[s] = m /\ stream[s] \in Holding
    BY DEF ChainInv, HandedInv
  <2> QED
    BY <2>1 DEF Live, Holding, Registered
<1> QED
  BY <1>1, <1>2, ChainInit, PTL DEF Spec

\* The conditional trigger of routes.py:62 and the triggers after the
\* completions (message_processor.py:267, stream_proxy.py:248) leave no queue
\* without somebody to drain it, except behind an SSE message whose client has
\* not opened its stream.
THEOREM NoQueueStranded == ASSUME Undisturbed PROVE Spec => []NeverStranded
<1>1. ChainInv /\ [Next]_vars => ChainInv'
  BY Undisturbed, ChainStep
<1>2. ChainInv => NeverStranded
  BY DEF ChainInv
<1> QED
  BY <1>1, <1>2, ChainInit, PTL DEF Spec

===========================================================================
