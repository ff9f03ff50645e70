----------------------------- MODULE FifoProofs -----------------------------
(***************************************************************************)
(* The per-user FIFO promise, if the lock outlasts the work and every SSE  *)
(* message has one stream.  First: the worker is called for the messages   *)
(* of a user in the order in which their POSTs reached the queue           *)
(* (SentInArrivalOrder is an invariant of Spec).  From it: each step of    *)
(* the broker is a step of PerUserFifo under the mapping of                *)
(* BrokerProperties, or changes nothing of it.                             *)
(***************************************************************************)
EXTENDS BrokerProofs

\* A message that may still be called holds the lock: no other message of its
\* user may be.
LEMMA MayCallHoldsLock ==
    ASSUME LockInv, NEW m \in Msgs, MayCall(m) PROVE Lock(m)
BY DEF LockInv, TaskHoldsLock, HandlerHoldsLock, MayCall, AtWork, HandedTo, BeforeStream

---------------------------------------------------------------------------
(* What leaves the parts of OrderInv alone. *)

\* Nothing is pushed, no task gets a message.
LEMMA ArrivalFrame ==
    ASSUME TypeOK, ArrivalInv, QueueOrder, TakenInv, UNCHANGED <<queue, arrival, pushes>>,
           \A m \in Msgs : proc'[m] # "none" => proc[m] # "none",
           \A m \in Msgs : post'[m] = "new" => post[m] = "new"
    PROVE  ArrivalInv' /\ QueueOrder' /\ TakenInv'
BY DEF ArrivalInv, QueueOrder, TakenInv

\* No call begins and none becomes possible.
LEMMA CallFrame ==
    ASSUME CallInv, SentInArrivalOrder, UNCHANGED <<arrival, sent>>,
           \A m \in Msgs : MayCall(m)' => MayCall(m)
    PROVE  CallInv' /\ SentInArrivalOrder'
BY DEF CallInv, SentInArrivalOrder

\* No task goes back, no handler's end is undone, and no future gets its result.
LEMMA MayCallFrame ==
    ASSUME \A m \in Msgs : proc'[m] \in {"dequeued", "dispatch", "waiting"} =>
               proc[m] \in {"dequeued", "dispatch", "waiting"},
           \A s \in Streams : Ended(s) => Ended(s)',
           \A s \in Streams : future'[s] = "result" /\ stream'[s] \in BeforeStream =>
               future[s] = "result" /\ stream[s] \in BeforeStream
    PROVE  \A m \in Msgs : MayCall(m)' => MayCall(m)
BY DEF MayCall

---------------------------------------------------------------------------
(* The steps that disturb them. *)

\* A handoff only passes on the call that the task could have made: the
\* stream that gets it has not ended, and it is the only one of the message.
LEMMA HandOffKeepsMayCall ==
    ASSUME TypeOK, RegistryInv, OneStreamEach, NEW m \in Msgs, HandOff(m),
           proc[m] \in {"dequeued", "dispatch", "waiting"},
           proc' = [proc EXCEPT ![m] = "handed"], UNCHANGED stream
    PROVE  \A k \in Msgs : MayCall(k)' => MayCall(k)
<1> USE RequestAssumption DEF TypeOK, RegistryTypeOK, ProcessorTypeOK
<1> SUFFICES ASSUME NEW k \in Msgs, MayCall(k)' PROVE MayCall(k)
  OBVIOUS
<1>1. CASE proc'[k] \in {"dequeued", "dispatch", "waiting"}
           /\ \A s \in Streams : StreamMsg[s] = k => ~Ended(s)'
  BY <1>1 DEF MayCall, Ended
<1>2. ASSUME NEW s \in Streams, StreamMsg[s] = k, future'[s] = "result", stream'[s] \in BeforeStream
      PROVE  MayCall(k)
  <2>1. CASE future[s] = "result"
    BY <1>2, <2>1 DEF MayCall
  <2>2. CASE future[s] # "result"
    <3>1. registry[m] = s
      BY <1>2, <2>2 DEF HandOff
    <3>2. k = m
      BY <1>2, <3>1 DEF RegistryInv
    <3>3. \A t \in Streams : StreamMsg[t] = m => ~Ended(t)
      BY <1>2, <3>2 DEF OneStreamEach, Ended, BeforeStream
    <3> QED
      BY <3>2, <3>3 DEF MayCall
  <2> QED
    BY <2>1, <2>2
<1> QED
  BY <1>1, <1>2 DEF MayCall

\* The call of m begins.  It was possible, so what was sent came before m; and
\* no other message of the user can be called.
LEMMA CallKeepsOrder ==
    ASSUME TypeOK, LockInv, CallInv, SentInArrivalOrder,
           NEW m \in Msgs, RecordCall(m), MayCall(m), ~MayCall(m)',
           \A k \in Msgs : MayCall(k)' => MayCall(k), UNCHANGED arrival
    PROVE  CallInv' /\ SentInArrivalOrder'
<1> USE RequestAssumption DEF TypeOK, QueueTypeOK, ProcessorTypeOK
<1> DEFINE v == UserOf[m]
<1>1. sent' = [sent EXCEPT ![v] = Append(sent[v], m)] /\ v \in Users
  BY DEF RecordCall
<1>2. /\ sent'[v] = Append(sent[v], m) /\ sent[v] \in Seq(Msgs)
      /\ \A u \in Users : u # v => sent'[u] = sent[u]
  BY <1>1
<1>3. /\ Len(sent'[v]) = Len(sent[v]) + 1 /\ sent'[v][Len(sent[v]) + 1] = m
      /\ \A i \in 1..Len(sent[v]) : sent'[v][i] = sent[v][i]
      /\ \A i \in 1..Len(sent'[v]) : i \in 1..Len(sent[v]) \/ i = Len(sent[v]) + 1
      /\ Len(sent[v]) \in Nat
  BY <1>2
<1>4. \A i \in 1..Len(sent[v]) : arrival[sent[v][i]] < arrival[m]
  BY DEF CallInv
<1>5. \A k \in Msgs : MayCall(k)' => UserOf[k] # v
  BY MayCallHoldsLock DEF Lock
<1>6. CallInv'
  BY <1>2, <1>5 DEF CallInv
<1>7. SentInArrivalOrder'
  <2> SUFFICES ASSUME NEW u \in Users, NEW i \in DOMAIN sent'[u], NEW j \in DOMAIN sent'[u], i < j
               PROVE  arrival[sent'[u][i]] < arrival[sent'[u][j]]
    BY DEF SentInArrivalOrder
  <2>0. DOMAIN sent'[u] = 1..Len(sent'[u])
    BY <1>2
  <2>1. CASE u # v
    <3>1. sent'[u] = sent[u]
      BY <1>2, <2>1
    <3> QED
      BY <3>1 DEF SentInArrivalOrder
  <2>2. CASE u = v
    <3>1. i \in 1..Len(sent'[v]) /\ j \in 1..Len(sent'[v])
      BY <2>0, <2>2
    <3>2. i \in 1..Len(sent[v])
      BY <1>3, <3>1
    <3>3. CASE j \in 1..Len(sent[v])
      <4>0. DOMAIN sent[v] = 1..Len(sent[v])
        BY <1>2
      <4>1. /\ sent'[v][i] = sent[v][i] /\ sent'[v][j] = sent[v][j]
            /\ i \in DOMAIN sent[v] /\ j \in DOMAIN sent[v]
        BY <1>3, <3>2, <3>3, <4>0
      <4> QED
        BY <1>1, <2>2, <4>1 DEF SentInArrivalOrder
    <3>4. CASE j = Len(sent[v]) + 1
      BY <1>3, <1>4, <2>2, <3>2, <3>4
    <3> QED
      BY <1>3, <3>1, <3>3, <3>4
  <2> QED
    BY <2>1, <2>2
<1> QED
  BY <1>6, <1>7

\* A new message gets the highest number, at the end of its queue.
LEMMA PushKeepsOrder ==
    ASSUME TypeOK, QueueInv, NewInv, HandoffInv, SentInv, ArrivalInv, QueueOrder, TakenInv,
           CallInv, SentInArrivalOrder, NEW m \in Msgs, SubmitPush(m)
    PROVE  ArrivalInv' /\ QueueOrder' /\ TakenInv' /\ CallInv' /\ SentInArrivalOrder'
<1> USE RequestAssumption DEF TypeOK, QueueTypeOK, ProcessorTypeOK
<1> DEFINE v == UserOf[m]
<1>1. /\ queue' = [queue EXCEPT ![v] = Append(queue[v], m)] /\ v \in Users
      /\ arrival' = [arrival EXCEPT ![m] = pushes + 1]
      /\ pushes' = pushes + 1
      /\ UNCHANGED <<registryVars, processorVars, stream>>
      /\ post[m] = "new"
      /\ \A k \in Msgs : post'[k] = "new" => k # m /\ post[k] = "new"
  BY DEF SubmitPush, Enqueue
<1>2. arrival'[m] = pushes + 1 /\ \A k \in Msgs : k # m => arrival'[k] = arrival[k]
  BY <1>1
<1>3. \A k \in Msgs : k # m => arrival'[k] < arrival'[m]
  BY <1>2 DEF ArrivalInv
<1>4. /\ queue'[v] = Append(queue[v], m) /\ queue[v] \in Seq(Msgs)
      /\ \A u \in Users : u # v => queue'[u] = queue[u]
  BY <1>1
<1>a. /\ Len(queue'[v]) = Len(queue[v]) + 1 /\ queue'[v][Len(queue[v]) + 1] = m
      /\ \A i \in 1..Len(queue[v]) : queue'[v][i] = queue[v][i]
      /\ \A i \in 1..Len(queue'[v]) : i \in 1..Len(queue[v]) \/ i = Len(queue[v]) + 1
  <2>1. queue'[v] = Append(queue[v], m) /\ queue[v] \in Seq(Msgs)
    BY <1>4
  <2>2. Len(queue'[v]) = Len(queue[v]) + 1 /\ Len(queue[v]) \in Nat
    BY <2>1
  <2>3. queue'[v][Len(queue[v]) + 1] = m
    BY <2>1
  <2>4. \A i \in 1..Len(queue[v]) : queue'[v][i] = queue[v][i]
    BY <2>1
  <2>5. \A i \in 1..Len(queue'[v]) : i \in 1..Len(queue[v]) \/ i = Len(queue[v]) + 1
    BY <2>2
  <2> QED
    BY <2>2, <2>3, <2>4, <2>5
<1>b. \A u \in Users : Len(queue[u]) \in Nat
  OBVIOUS
<1>5. \A u \in Users : \A i \in 1..Len(queue'[u]) :
          \/ /\ i \in 1..Len(queue[u]) /\ queue'[u][i] = queue[u][i]
             /\ queue[u][i] \in Msgs /\ queue[u][i] # m
          \/ u = v /\ i = Len(queue[u]) + 1 /\ queue'[u][i] = m
  <2> SUFFICES ASSUME NEW u \in Users, NEW i \in 1..Len(queue'[u])
               PROVE  \/ /\ i \in 1..Len(queue[u]) /\ queue'[u][i] = queue[u][i]
                         /\ queue[u][i] \in Msgs /\ queue[u][i] # m
                      \/ u = v /\ i = Len(queue[u]) + 1 /\ queue'[u][i] = m
    OBVIOUS
  <2>1. \A j \in 1..Len(queue[u]) : queue[u][j] \in Msgs
    OBVIOUS
  <2>2. \A j \in 1..Len(queue[u]) : queue[u][j] # m
    BY <1>1, Zenon DEF NewInv
  <2>3. CASE u = v
    BY <1>a, <2>1, <2>2, <2>3
  <2>4. CASE u # v
    BY <1>4, <2>1, <2>2, <2>4
  <2> QED
    BY <2>3, <2>4
<1>6. proc[m] = "none" /\ \A k \in Msgs : proc'[k] = proc[k]
  BY <1>1 DEF NewInv, processorVars
<1>7. ArrivalInv'
  <2> SUFFICES ASSUME NEW k \in Msgs
               PROVE  arrival'[k] <= pushes' /\ (post'[k] = "new" => arrival'[k] = 0)
    BY DEF ArrivalInv
  <2> QED
    BY <1>1, <1>2 DEF ArrivalInv
<1>8. QueueOrder'
  <2> SUFFICES ASSUME NEW u \in Users, NEW i \in 1..Len(queue'[u]), NEW j \in 1..Len(queue'[u]),
                      i < j
               PROVE  arrival'[queue'[u][i]] < arrival'[queue'[u][j]]
    BY DEF QueueOrder
  <2>1. CASE j \in 1..Len(queue[u]) /\ queue'[u][j] = queue[u][j]
             /\ queue[u][j] \in Msgs /\ queue[u][j] # m
    <3>1. /\ i \in 1..Len(queue[u]) /\ queue'[u][i] = queue[u][i]
          /\ queue[u][i] \in Msgs /\ queue[u][i] # m
      <4>1. i # Len(queue[u]) + 1
        BY <1>b, <2>1
      <4> QED
        BY <1>5, <4>1
    <3> QED
      BY <1>2, <2>1, <3>1 DEF QueueOrder
  <2>2. CASE u = v /\ j = Len(queue[u]) + 1 /\ queue'[u][j] = m
    <3>1. queue'[u][i] \in Msgs /\ queue'[u][i] # m
      <4>1. i # Len(queue[u]) + 1
        BY <1>b, <2>2
      <4> QED
        BY <1>5, <4>1
    <3> QED
      BY <1>3, <2>2, <3>1
  <2> QED
    BY <1>5, <2>1, <2>2
<1>9. TakenInv'
  <2> SUFFICES ASSUME NEW k \in Msgs, proc[k] # "none", NEW i \in 1..Len(queue'[UserOf[k]])
               PROVE  arrival'[k] < arrival'[queue'[UserOf[k]][i]]
    BY <1>6 DEF TakenInv
  <2>1. k # m /\ UserOf[k] \in Users
    BY <1>6
  <2>2. CASE queue'[UserOf[k]][i] = m
    BY <1>3, <2>1, <2>2
  <2>3. CASE queue'[UserOf[k]][i] # m
    <3>1. /\ i \in 1..Len(queue[UserOf[k]])
          /\ queue'[UserOf[k]][i] = queue[UserOf[k]][i] /\ queue[UserOf[k]][i] \in Msgs
      BY <1>5, <2>1, <2>3
    <3> QED
      BY <1>2, <2>1, <2>3, <3>1 DEF TakenInv
  <2> QED
    BY <2>2, <2>3
<1>10. \A u \in Users : \A i \in 1..Len(sent[u]) : sent[u][i] \in Msgs /\ sent[u][i] # m
  <2> SUFFICES ASSUME NEW u \in Users, NEW i \in 1..Len(sent[u])
               PROVE  sent[u][i] \in Msgs /\ sent[u][i] # m
    OBVIOUS
  <2> QED
    BY <1>6, SentFacts DEF BeforeCall
<1>11. \A k \in Msgs : MayCall(k)' => MayCall(k) /\ k # m
  BY <1>1, <1>6 DEF MayCall, HandoffInv, Ended, registryVars, processorVars
<1>12. sent' = sent /\ \A u \in Users : \A i \in 1..Len(sent[u]) :
                            arrival'[sent[u][i]] = arrival[sent[u][i]]
  BY <1>1, <1>2, <1>10 DEF processorVars
<1>13. CallInv'
  <2> SUFFICES ASSUME NEW k \in Msgs, MayCall(k)', NEW i \in 1..Len(sent[UserOf[k]])
               PROVE  arrival'[sent[UserOf[k]][i]] < arrival'[k]
    BY <1>12 DEF CallInv
  <2>1. arrival'[k] = arrival[k] /\ MayCall(k) /\ UserOf[k] \in Users
    BY <1>2, <1>11
  <2>2. arrival'[sent[UserOf[k]][i]] = arrival[sent[UserOf[k]][i]]
    BY <1>12, <2>1
  <2> QED
    BY <2>1, <2>2 DEF CallInv
<1>14. SentInArrivalOrder'
  <2> SUFFICES ASSUME NEW u \in Users, NEW i \in DOMAIN sent[u], NEW j \in DOMAIN sent[u], i < j
               PROVE  arrival'[sent[u][i]] < arrival'[sent[u][j]]
    BY <1>12 DEF SentInArrivalOrder
  <2>1. DOMAIN sent[u] = 1..Len(sent[u])
    OBVIOUS
  <2>2. /\ arrival'[sent[u][i]] = arrival[sent[u][i]]
        /\ arrival'[sent[u][j]] = arrival[sent[u][j]]
    BY <1>12, <2>1
  <2> QED
    BY <2>2 DEF SentInArrivalOrder
<1> QED
  BY <1>7, <1>8, <1>9, <1>13, <1>14

\* The head of the queue is taken: it came before the rest, and after whatever
\* was taken and sent before.
LEMMA DequeueKeepsOrder ==
    ASSUME TypeOK, QueueInv, HandoffInv, SentInv, ArrivalInv, QueueOrder, TakenInv, CallInv,
           SentInArrivalOrder,
           NEW u \in Users, NEW m \in Msgs, ProcessDequeue(u, m), UNCHANGED <<stream, post>>
    PROVE  ArrivalInv' /\ QueueOrder' /\ TakenInv' /\ CallInv' /\ SentInArrivalOrder'
<1> USE RequestAssumption DEF TypeOK, QueueTypeOK, ProcessorTypeOK
<1>1. /\ queue[u] # <<>> /\ m = Head(queue[u])
      /\ queue' = [queue EXCEPT ![u] = Tail(queue[u])]
      /\ proc' = [proc EXCEPT ![m] = "dequeued"]
      /\ UNCHANGED <<arrival, pushes, registryVars, sent>>
  BY DEF ProcessDequeue, Dequeue
<1>2. proc[m] = "none" /\ UserOf[m] = u
  BY DequeuedIsNew DEF ProcessDequeue
<1>3. queue[u] \in Seq(Msgs) /\ queue'[u] = Tail(queue[u])
      /\ \A v \in Users : v # u => queue'[v] = queue[v]
  BY <1>1
<1>4. 1 \in 1..Len(queue[u]) /\ queue[u][1] = m
  BY <1>1, <1>3
<1>5. \A i \in 1..Len(queue'[u]) : /\ queue'[u][i] = queue[u][i + 1]
                                  /\ i + 1 \in 1..Len(queue[u])
  <2>1. queue'[u] = Tail(queue[u]) /\ queue[u] \in Seq(Msgs) /\ queue[u] # <<>>
    BY <1>1, <1>3
  <2> QED
    BY <2>1
<1>6. \A i \in 1..Len(queue'[u]) : arrival[m] < arrival[queue'[u][i]]
  <2> SUFFICES ASSUME NEW i \in 1..Len(queue'[u]) PROVE arrival[m] < arrival[queue'[u][i]]
    OBVIOUS
  <2>1. 1 < i + 1
    OBVIOUS
  <2> QED
    BY <1>4, <1>5, <2>1 DEF QueueOrder
<1>7. ArrivalInv'
  BY <1>1 DEF ArrivalInv
<1>8. QueueOrder'
  <2> SUFFICES ASSUME NEW v \in Users, NEW i \in 1..Len(queue'[v]), NEW j \in 1..Len(queue'[v]),
                      i < j
               PROVE  arrival[queue'[v][i]] < arrival[queue'[v][j]]
    BY <1>1 DEF QueueOrder
  <2>1. CASE v = u
    <3>1. i + 1 < j + 1
      OBVIOUS
    <3>2. /\ queue'[u][i] = queue[u][i + 1] /\ i + 1 \in 1..Len(queue[u])
          /\ queue'[u][j] = queue[u][j + 1] /\ j + 1 \in 1..Len(queue[u])
      BY <1>5, <2>1
    <3>3. arrival[queue[u][i + 1]] < arrival[queue[u][j + 1]]
      BY <3>1, <3>2 DEF QueueOrder
    <3> QED
      BY <2>1, <3>2, <3>3
  <2>2. CASE v # u
    BY <1>3, <2>2 DEF QueueOrder
  <2> QED
    BY <2>1, <2>2
<1>9. TakenInv'
  <2> SUFFICES ASSUME NEW k \in Msgs, proc'[k] # "none", NEW i \in 1..Len(queue'[UserOf[k]])
               PROVE  arrival[k] < arrival[queue'[UserOf[k]][i]]
    BY <1>1 DEF TakenInv
  <2>1. CASE k = m
    BY <1>2, <1>6, <2>1
  <2>2. CASE k # m /\ UserOf[k] = u
    <3>1. queue'[u][i] = queue[u][i + 1] /\ i + 1 \in 1..Len(queue[u]) /\ proc[k] # "none"
      BY <1>1, <1>5, <2>2
    <3>2. arrival[k] < arrival[queue[u][i + 1]]
      BY <2>2, <3>1 DEF TakenInv
    <3> QED
      BY <2>2, <3>1, <3>2
  <2>3. CASE k # m /\ UserOf[k] # u
    BY <1>1, <1>3, <2>3 DEF TakenInv
  <2> QED
    BY <2>1, <2>2, <2>3
<1>10. \A i \in 1..Len(sent[u]) : arrival[sent[u][i]] < arrival[m]
  <2> SUFFICES ASSUME NEW i \in 1..Len(sent[u]) PROVE arrival[sent[u][i]] < arrival[m]
    OBVIOUS
  <2>1. sent[u][i] \in Msgs
    OBVIOUS
  <2>2. UserOf[sent[u][i]] = u /\ proc[sent[u][i]] # "none"
    BY SentFacts DEF BeforeCall
  <2> QED
    BY <1>4, <2>1, <2>2 DEF TakenInv
<1>11. \A k \in Msgs : MayCall(k)' => MayCall(k) \/ k = m
  BY <1>1 DEF MayCall, Ended, registryVars
<1>12. CallInv'
  BY <1>1, <1>2, <1>10, <1>11 DEF CallInv
<1>13. SentInArrivalOrder'
  BY <1>1 DEF SentInArrivalOrder
<1> QED
  BY <1>7, <1>8, <1>9, <1>12, <1>13

\* Every step preserves the parts of OrderInv that are not those of OneAtATime
\* and AtMostOnce.
LEMMA OrderStep == OneStreamEach /\ OrderInv /\ [Next]_vars => OrderInv'
<1> SUFFICES ASSUME OneStreamEach, OrderInv, [Next]_vars
             PROVE  ArrivalInv' /\ QueueOrder' /\ TakenInv' /\ CallInv' /\ SentInArrivalOrder'
  BY LockStep, OnceStep DEF OrderInv, OnceInv, LockInv
<1>0. /\ TypeOK /\ QueueInv /\ NewInv /\ RegistryInv /\ HandoffInv /\ LockInv /\ SentInv
      /\ ArrivalInv /\ QueueOrder /\ TakenInv /\ CallInv /\ SentInArrivalOrder
  BY DEF OrderInv, LockInv, BaseInv
<1> DEFINE Preserved ==
      ArrivalInv' /\ QueueOrder' /\ TakenInv' /\ CallInv' /\ SentInArrivalOrder'
<1>a. ASSUME UNCHANGED <<queue, arrival, pushes, sent>>,
             \A m \in Msgs : proc'[m] # "none" => proc[m] # "none",
             \A m \in Msgs : post'[m] = "new" => post[m] = "new",
             \A m \in Msgs : MayCall(m)' => MayCall(m)
      PROVE  Preserved
  BY <1>0, <1>a, ArrivalFrame, CallFrame
<1> USE <1>0, RequestAssumption
    DEF TypeOK, QueueTypeOK, RegistryTypeOK, ProcessorTypeOK, StreamTypeOK,
        queueVars, registryVars, processorVars, Ended, BeforeStream

<1>1. ASSUME NEW m \in Msgs, SubmitPush(m) PROVE Preserved
  BY <1>1, PushKeepsOrder
<1>2. ASSUME NEW m \in Msgs, SubmitReply(m) PROVE Preserved
  BY <1>2, <1>a, MayCallFrame DEF SubmitReply, StoreMetadata, Trigger
<1>3. ASSUME NEW m \in Msgs, SubmitRaises(m) PROVE Preserved
  BY <1>3, <1>a, MayCallFrame DEF SubmitRaises
<1>4. ASSUME NEW m \in Msgs, SubmitLosesReply(m) PROVE Preserved
  BY <1>4, <1>a, MayCallFrame DEF SubmitLosesReply, StoreMetadata
<1>5. ASSUME NEW s \in Streams, ClientOpens(s) PROVE Preserved
  BY <1>5, <1>a, MayCallFrame DEF ClientOpens, OpenStream, Advance, Register
<1>6. ASSUME NEW u \in Users, ProcessNone(u), UNCHANGED <<stream, post>> PROVE Preserved
  BY <1>6, <1>a, MayCallFrame DEF ProcessNone, DequeueNone
<1>7. ASSUME NEW u \in Users, NEW m \in Msgs, ProcessDequeue(u, m), UNCHANGED <<stream,
     post>> PROVE Preserved
  BY <1>7, DequeueKeepsOrder
<1>8. ASSUME NEW u \in Users, DequeueRaises(u), UNCHANGED <<stream, post>> PROVE Preserved
  BY <1>8, <1>a, MayCallFrame DEF DequeueRaises
<1>9. ASSUME NEW m \in Msgs, StoreStartedAt(m), UNCHANGED <<stream, post>> PROVE Preserved
  BY <1>9, <1>a, MayCallFrame DEF StoreStartedAt, Proceed, StoreMetadata
<1>10. ASSUME NEW m \in Msgs, HandOffRegistered(m), UNCHANGED <<stream, post>> PROVE
     Preserved
  <2>1. \A k \in Msgs : MayCall(k)' => MayCall(k)
    BY <1>10, HandOffKeepsMayCall DEF HandOffRegistered, Proceed
  <2> QED
    BY <1>10, <2>1, <1>a DEF HandOffRegistered, Proceed
<1>11. ASSUME NEW m \in Msgs, AwaitStream(m), UNCHANGED <<stream, post>> PROVE Preserved
  BY <1>11, <1>a, MayCallFrame DEF AwaitStream, Proceed, ArmEvent
<1>12. ASSUME NEW m \in Msgs, RegistrationArrives(m), UNCHANGED <<stream, post>> PROVE
     Preserved
  <2>1. \A k \in Msgs : MayCall(k)' => MayCall(k)
    BY <1>12, HandOffKeepsMayCall DEF RegistrationArrives, Proceed
  <2> QED
    BY <1>12, <2>1, <1>a DEF RegistrationArrives, Proceed
<1>13. ASSUME NEW m \in Msgs, RegistrationGone(m), UNCHANGED <<stream, post>> PROVE
     Preserved
  BY <1>13, <1>a, MayCallFrame DEF RegistrationGone, Proceed, DropEvent
<1>14. ASSUME NEW m \in Msgs, RegistrationTimeout(m), UNCHANGED <<stream, post>> PROVE
     Preserved
  BY <1>14, <1>a, MayCallFrame DEF RegistrationTimeout, Proceed, DropEvent
<1>15. ASSUME NEW m \in Msgs, CallWorker(m), UNCHANGED <<stream, post>> PROVE Preserved
  <2>1. /\ RecordCall(m) /\ proc[m] = "dispatch" /\ proc' = [proc EXCEPT ![m] = "calling"]
        /\ UNCHANGED <<queueVars, registryVars, stream, post>>
    BY <1>15 DEF CallWorker, Proceed
  <2>2. \A s \in Streams : StreamMsg[s] # m
    BY <1>15 DEF CallWorker, OneStreamEach
  <2>3. \A k \in Msgs : MayCall(k)' => MayCall(k)
    BY <2>1, MayCallFrame
  <2>4. MayCall(m) /\ ~MayCall(m)'
    BY <2>1, <2>2 DEF MayCall
  <2>5. CallInv' /\ SentInArrivalOrder'
    BY <2>1, <2>3, <2>4, CallKeepsOrder
  <2> QED
    BY <2>1, <2>5, ArrivalFrame
<1>16. ASSUME NEW m \in Msgs, WorkerAnswers(m), UNCHANGED <<stream, post>> PROVE Preserved
  BY <1>16, <1>a, MayCallFrame DEF WorkerAnswers, Proceed
<1>17. ASSUME NEW m \in Msgs, WorkerFails(m), UNCHANGED <<stream, post>> PROVE Preserved
  BY <1>17, <1>a, MayCallFrame DEF WorkerFails, Proceed
<1>18. ASSUME NEW m \in Msgs, DeliverCallback(m), UNCHANGED <<stream, post>> PROVE
     Preserved
  BY <1>18, <1>a, MayCallFrame DEF DeliverCallback, Proceed, Deliver
<1>19. ASSUME NEW m \in Msgs, DeliverErrorCallback(m), UNCHANGED <<stream, post>> PROVE
     Preserved
  BY <1>19, <1>a, MayCallFrame DEF DeliverErrorCallback, Proceed, Deliver
<1>20. ASSUME NEW m \in Msgs, Complete(m), UNCHANGED <<stream, post>> PROVE Preserved
  BY <1>20, <1>a, MayCallFrame DEF Complete, Proceed, MarkComplete
<1>21. ASSUME NEW m \in Msgs, ScheduleNext(m), UNCHANGED <<stream, post>> PROVE Preserved
  BY <1>21, <1>a, MayCallFrame DEF ScheduleNext, Proceed, Trigger
<1>22. ASSUME NEW m \in Msgs, CommandRaises(m), UNCHANGED <<stream, post>> PROVE Preserved
  BY <1>22, <1>a, MayCallFrame DEF CommandRaises
<1>23. ASSUME NEW s \in Streams, LengthPositive(s), UNCHANGED post PROVE Preserved
  BY <1>23, <1>a, MayCallFrame DEF LengthPositive, Advance, Trigger
<1>24. ASSUME NEW s \in Streams, LengthZero(s), UNCHANGED post PROVE Preserved
  BY <1>24, <1>a, MayCallFrame DEF LengthZero, Advance
<1>25. ASSUME NEW s \in Streams, ProcessingFound(s), UNCHANGED post PROVE Preserved
  BY <1>25, <1>a, MayCallFrame DEF ProcessingFound, Advance, Trigger
<1>26. ASSUME NEW s \in Streams, NoWorkFound(s), UNCHANGED post PROVE Preserved
  BY <1>26, <1>a, MayCallFrame DEF NoWorkFound, Advance
<1>27. ASSUME NEW s \in Streams, StartStreaming(s), UNCHANGED post PROVE Preserved
  <2> DEFINE m == StreamMsg[s]
  <2>1. /\ RecordCall(m) /\ m \in Msgs /\ future[s] = "result"
        /\ stream[s] = "waiting" /\ stream' = [stream EXCEPT ![s] = "streaming"]
        /\ UNCHANGED <<queueVars, registryVars, proc, post>>
    BY <1>27 DEF StartStreaming, Advance
  <2>2. proc[m] = "handed" /\ \A t \in Streams : StreamMsg[t] = m => t = s
    BY <2>1 DEF HandoffInv, OneStreamEach
  <2>3. \A k \in Msgs : MayCall(k)' => MayCall(k)
    BY <2>1, MayCallFrame
  <2>4. MayCall(m) /\ ~MayCall(m)'
    BY <2>1, <2>2 DEF MayCall
  <2> HIDE DEF m
  <2>5. CallInv' /\ SentInArrivalOrder'
    BY <2>1, <2>3, <2>4, CallKeepsOrder
  <2> QED
    BY <2>1, <2>5, ArrivalFrame
<1>28. ASSUME NEW s \in Streams, HandoffTimeout(s), UNCHANGED post PROVE Preserved
  BY <1>28, <1>a, MayCallFrame DEF HandoffTimeout, Advance, CancelFuture
<1>29. ASSUME NEW s \in Streams, FutureCancelled(s), UNCHANGED post PROVE Preserved
  BY <1>29, <1>a, MayCallFrame DEF FutureCancelled, Advance
<1>30. ASSUME NEW s \in Streams, StreamEnds(s), UNCHANGED post PROVE Preserved
  BY <1>30, <1>a, MayCallFrame DEF StreamEnds, Advance
<1>31. ASSUME NEW s \in Streams, StreamUnregisters(s), UNCHANGED post PROVE Preserved
  BY <1>31, <1>a, MayCallFrame DEF StreamUnregisters, Advance, Unregister
<1>32. ASSUME NEW s \in Streams, StreamCompletes(s), UNCHANGED post PROVE Preserved
  BY <1>32, <1>a, MayCallFrame DEF StreamCompletes, Advance, MarkComplete
<1>33. ASSUME NEW s \in Streams, StreamTriggers(s), UNCHANGED post PROVE Preserved
  BY <1>33, <1>a, MayCallFrame DEF StreamTriggers, Advance, Trigger
<1>34. ASSUME NEW s \in Streams, StreamCommandRaises(s), UNCHANGED post PROVE Preserved
  BY <1>34, <1>a, MayCallFrame DEF StreamCommandRaises
<1>35. ASSUME NEW s \in Streams, Disconnect(s), UNCHANGED post PROVE Preserved
  BY <1>35, <1>a, MayCallFrame DEF Disconnect, CancelFuture
<1>36. ASSUME NEW s \in Streams, DisconnectUncaught(s), UNCHANGED post PROVE Preserved
  BY <1>36, <1>a, MayCallFrame DEF DisconnectUncaught
<1>37. ASSUME NEW u \in Users, LockExpires(u) PROVE Preserved
  BY <1>37, <1>a, MayCallFrame DEF LockExpires, ProcessingExpires
<1>38. ASSUME Crash PROVE Preserved
  BY <1>38, <1>a, MayCallFrame DEF Crash, ProcessEnds, RegistryLost, Active, Live
<1>39. CASE UNCHANGED vars
  BY <1>39, <1>a, MayCallFrame DEF vars
<1> QED
  BY <1>1, <1>2, <1>3, <1>4, <1>5, <1>6, <1>7, <1>8, <1>9, <1>10, <1>11, <1>12, <1>13,
       <1>14, <1>15, <1>16, <1>17, <1>18, <1>19, <1>20, <1>21, <1>22, <1>23, <1>24, <1>25, <1>26,
       <1>27, <1>28, <1>29, <1>30, <1>31, <1>32, <1>33, <1>34, <1>35, <1>36, <1>37, <1>38, <1>39
     DEF Next, ClientStep, Run, Work, TaskStep, ProcessorStep, WorkerReturns, StreamStep,
         WorkerStreamEnds, TaskFault, ProcessorFault, StreamFault

LEMMA OrderInit == Init => OrderInv
<1> SUFFICES ASSUME Init PROVE OrderInv
  OBVIOUS
<1>1. LockInv
  BY BaseInit DEF LockInv, TaskHoldsLock, HandlerHoldsLock, CallsAreCallbacks, AtWork,
                  HandedTo, Init, ProcessorInit, RegistryInit
<1>2. SentInv /\ AtMostOnce /\ CallInv /\ SentInArrivalOrder
  BY RequestAssumption DEF SentInv, AtMostOnce, CallInv, SentInArrivalOrder, Init, ProcessorInit
<1>3. ArrivalInv /\ QueueOrder /\ TakenInv
  BY DEF ArrivalInv, QueueOrder, TakenInv, Init, QueueInit, ProcessorInit
<1> QED
  BY <1>1, <1>2, <1>3 DEF OrderInv

\* The worker sees the messages of a user in the order of their RPUSHes, with
\* Redis errors, disconnects and crashes at any point (queue_manager.py:15,
\* DEQUEUE_SCRIPT, and the two places that call the worker).
THEOREM SentInOrder == ASSUME OneStreamEach PROVE Spec => []SentInArrivalOrder
<1>1. OrderInv /\ [Next]_vars => OrderInv'
  BY OneStreamEach, OrderStep
<1>2. OrderInv => SentInArrivalOrder
  BY DEF OrderInv
<1> QED
  BY <1>1, <1>2, OrderInit, PTL DEF Spec

---------------------------------------------------------------------------
(* The refinement. *)

\* The message of a call that is going on holds the lock.
LEMMA InFlightHoldsLock ==
    ASSUME LockInv, OneStreamEach
    PROVE  /\ \A m \in Msgs : proc[m] = "calling" => Lock(m) /\ m \in CallbackMsgs
           /\ \A s \in Streams : stream[s] = "streaming" =>
                  Lock(StreamMsg[s]) /\ HandedTo(s) /\ proc[StreamMsg[s]] = "handed"
BY DEF LockInv, BaseInv, HandoffInv, TaskHoldsLock, HandlerHoldsLock, CallsAreCallbacks,
       AtWork, HandedTo, OneStreamEach

\* No call begins or ends.
LEMMA SameInFlight ==
    ASSUME \A m \in Msgs : proc'[m] = "calling" <=> proc[m] = "calling",
           \A s \in Streams : stream'[s] = "streaming" <=> stream[s] = "streaming"
    PROVE  \A u \in Users : InFlight(u)' = InFlight(u)
BY DEF InFlight

---------------------------------------------------------------------------
(* One lemma for each action of PerUserFifo. *)

\* Calls end at most: Return.
LEMMA QuietStep ==
    ASSUME UNCHANGED <<arrival, queue, processing, sent>>,
           \A m \in Msgs : proc'[m] = "calling" => proc[m] = "calling",
           \A s \in Streams : stream'[s] = "streaming" => stream[s] = "streaming"
    PROVE  Fifo!Next
<1> DEFINE S == {u \in Users : InFlight(u)' = {}}
<1>1. \A u \in Users : InFlight(u)' # {} => InFlight(u) # {}
  BY DEF InFlight
<1>2. Fifo!Return(S)
  BY <1>1 DEF Fifo!Return
<1>3. S \in SUBSET Users
  OBVIOUS
<1> QED
  BY <1>2, <1>3 DEF Fifo!Next

\* A POST reaches the queue: Accept.
LEMMA PushAccepts ==
    ASSUME TypeOK, ArrivalInv, NEW m \in Msgs, SubmitPush(m)
    PROVE  Fifo!Next
<1> USE RequestAssumption DEF TypeOK, QueueTypeOK
<1> DEFINE accepted == {k \in Msgs : arrival[k] # 0}
<1>1. /\ arrival' = [arrival EXCEPT ![m] = pushes + 1]
      /\ queue' = [queue EXCEPT ![UserOf[m]] = Append(queue[UserOf[m]], m)]
      /\ UNCHANGED <<processing, sent, proc, stream>>
      /\ post[m] = "new"
  BY DEF SubmitPush, Enqueue, processorVars
<1>2. m \notin accepted
  BY <1>1 DEF ArrivalInv
<1>3. accepted' = accepted \cup {m}
  <2>1. arrival'[m] # 0 /\ \A k \in Msgs : k # m => arrival'[k] = arrival[k]
    BY <1>1
  <2> QED
    BY <2>1
<1>4. \A u \in Users : InFlight(u)' = InFlight(u)
  BY <1>1, SameInFlight
<1>5. Fifo!Accept(m)
  BY <1>1, <1>2, <1>3, <1>4 DEF Fifo!Accept
<1> QED
  BY <1>5 DEF Fifo!Next

\* The dequeue script takes a message: Take.
LEMMA DequeueTakes ==
    ASSUME TypeOK, QueueInv, NEW u \in Users, NEW m \in Msgs, ProcessDequeue(u, m),
           UNCHANGED stream
    PROVE  Fifo!Next
<1> USE RequestAssumption DEF TypeOK, QueueTypeOK, ProcessorTypeOK
<1>1. /\ processing[u] = NoMsg /\ queue[u] # <<>> /\ m = Head(queue[u])
      /\ queue' = [queue EXCEPT ![u] = Tail(queue[u])]
      /\ processing' = [processing EXCEPT ![u] = m]
      /\ proc' = [proc EXCEPT ![m] = "dequeued"]
      /\ UNCHANGED <<arrival, sent>>
  BY DEF ProcessDequeue, Dequeue
<1>2. proc[m] = "none"
  BY DequeuedIsNew DEF ProcessDequeue
<1>3. \A v \in Users : InFlight(v)' = InFlight(v)
  BY <1>1, <1>2, SameInFlight
<1>4. Fifo!Take(u)
  BY <1>1, <1>3 DEF Fifo!Take
<1> QED
  BY <1>4 DEF Fifo!Next

\* A call begins, of a message that holds the lock and was not called before: Call.
LEMMA CallCalls ==
    ASSUME TypeOK, NEW m \in Msgs, RecordCall(m), Lock(m),
           \A i \in 1..Len(sent[UserOf[m]]) : sent[UserOf[m]][i] # m,
           UNCHANGED <<arrival, queue, processing>>,
           InFlight(UserOf[m])' # {},
           \A u \in Users : u # UserOf[m] => InFlight(u)' = InFlight(u)
    PROVE  Fifo!Next
<1> USE RequestAssumption DEF TypeOK, QueueTypeOK, ProcessorTypeOK
<1> DEFINE v == UserOf[m]
<1>1. v \in Users /\ processing[v] = m /\ m # NoMsg
  BY DEF Lock
<1>2. sent' = [sent EXCEPT ![v] = Append(sent[v], m)]
  BY DEF RecordCall
<1>3. \A i \in DOMAIN sent[v] : sent[v][i] # m
  BY <1>1
<1>4. Fifo!Call(v)
  BY <1>1, <1>2, <1>3 DEF Fifo!Call
<1> QED
  BY <1>1, <1>4 DEF Fifo!Next

\* The lock of u goes away while no call is going on: Release.
LEMMA UnlockReleases ==
    ASSUME TypeOK, NEW u \in Users, InFlight(u) = {},
           processing' = [processing EXCEPT ![u] = NoMsg],
           UNCHANGED <<arrival, queue, sent>>,
           \A v \in Users : InFlight(v)' = InFlight(v)
    PROVE  Fifo!Next
<1>1. Fifo!Release(u)
  BY DEF Fifo!Release, TypeOK, QueueTypeOK
<1> QED
  BY <1>1 DEF Fifo!Next

\* mark_complete, of a message that no call is going on for, releases the lock
\* or leaves it alone.
LEMMA CompletionReleasesOrNot ==
    ASSUME OneStreamEach, LockInv, NEW m \in Msgs, MarkComplete(m), UNCHANGED sent,
           proc[m] # "calling",
           \A s \in Streams : StreamMsg[s] = m => stream[s] # "streaming",
           \A k \in Msgs : proc'[k] = "calling" <=> proc[k] = "calling",
           \A s \in Streams : stream'[s] = "streaming" <=> stream[s] = "streaming"
    PROVE  Fifo!Next
<1>0. TypeOK
  BY DEF LockInv, BaseInv
<1> USE <1>0, RequestAssumption DEF TypeOK, QueueTypeOK
<1> DEFINE v == UserOf[m]
<1>1. /\ v \in Users
      /\ processing' = [processing EXCEPT ![v] = IF processing[v] = m THEN NoMsg ELSE processing[v]]
      /\ UNCHANGED <<queue, arrival>>
  BY DEF MarkComplete
<1>2. CASE processing[v] = m
  <2>1. InFlight(v) = {}
    BY <1>2, InFlightHoldsLock DEF InFlight, Lock
  <2>2. processing' = [processing EXCEPT ![v] = NoMsg]
    BY <1>1, <1>2
  <2> QED
    BY <1>1, <2>1, <2>2, SameInFlight, UnlockReleases
<1>3. CASE processing[v] # m
  <2>1. UNCHANGED processing
    BY <1>1, <1>3
  <2> QED
    BY <1>1, <2>1, QuietStep
<1> QED
  BY <1>2, <1>3

---------------------------------------------------------------------------

\* Every step of the broker is a step of PerUserFifo.
LEMMA StepIsFifo == OneStreamEach /\ OrderInv /\ [Next]_vars => [Fifo!Next]_(Fifo!vars)
<1> SUFFICES ASSUME OneStreamEach, OrderInv, [Next]_vars PROVE Fifo!Next
  OBVIOUS
<1>0. /\ TypeOK /\ QueueInv /\ HandoffInv /\ LockInv /\ SentInv /\ ArrivalInv
  BY DEF OrderInv, LockInv, BaseInv
<1> USE <1>0, RequestAssumption
    DEF TypeOK, QueueTypeOK, RegistryTypeOK, ProcessorTypeOK, StreamTypeOK,
        queueVars, registryVars, processorVars

<1>1. ASSUME NEW m \in Msgs, SubmitPush(m) PROVE Fifo!Next
  BY <1>1, PushAccepts
<1>2. ASSUME NEW m \in Msgs, SubmitReply(m) PROVE Fifo!Next
  BY <1>2, QuietStep DEF SubmitReply, StoreMetadata, Trigger
<1>3. ASSUME NEW m \in Msgs, SubmitRaises(m) PROVE Fifo!Next
  BY <1>3, QuietStep DEF SubmitRaises
<1>4. ASSUME NEW m \in Msgs, SubmitLosesReply(m) PROVE Fifo!Next
  BY <1>4, QuietStep DEF SubmitLosesReply, StoreMetadata
<1>5. ASSUME NEW s \in Streams, ClientOpens(s) PROVE Fifo!Next
  BY <1>5, QuietStep DEF ClientOpens, OpenStream, Advance, Register
<1>6. ASSUME NEW u \in Users, ProcessNone(u), UNCHANGED <<stream, post>> PROVE Fifo!Next
  BY <1>6, QuietStep DEF ProcessNone, DequeueNone
<1>7. ASSUME NEW u \in Users, NEW m \in Msgs, ProcessDequeue(u, m), UNCHANGED <<stream,
     post>> PROVE Fifo!Next
  BY <1>7, DequeueTakes
<1>8. ASSUME NEW u \in Users, DequeueRaises(u), UNCHANGED <<stream, post>> PROVE Fifo!Next
  BY <1>8, QuietStep DEF DequeueRaises
<1>9. ASSUME NEW m \in Msgs, StoreStartedAt(m), UNCHANGED <<stream, post>> PROVE Fifo!Next
  BY <1>9, QuietStep DEF StoreStartedAt, Proceed, StoreMetadata
<1>10. ASSUME NEW m \in Msgs, HandOffRegistered(m), UNCHANGED <<stream, post>> PROVE
     Fifo!Next
  BY <1>10, QuietStep DEF HandOffRegistered, Proceed, HandOff
<1>11. ASSUME NEW m \in Msgs, AwaitStream(m), UNCHANGED <<stream, post>> PROVE Fifo!Next
  BY <1>11, QuietStep DEF AwaitStream, Proceed, ArmEvent
<1>12. ASSUME NEW m \in Msgs, RegistrationArrives(m), UNCHANGED <<stream, post>> PROVE
     Fifo!Next
  BY <1>12, QuietStep DEF RegistrationArrives, Proceed, DropEvent, HandOff
<1>13. ASSUME NEW m \in Msgs, RegistrationGone(m), UNCHANGED <<stream, post>> PROVE
     Fifo!Next
  BY <1>13, QuietStep DEF RegistrationGone, Proceed, DropEvent
<1>14. ASSUME NEW m \in Msgs, RegistrationTimeout(m), UNCHANGED <<stream, post>> PROVE
     Fifo!Next
  BY <1>14, QuietStep DEF RegistrationTimeout, Proceed, DropEvent
<1>15. ASSUME NEW m \in Msgs, CallWorker(m), UNCHANGED <<stream, post>> PROVE Fifo!Next
  <2>1. /\ RecordCall(m) /\ proc[m] = "dispatch" /\ proc' = [proc EXCEPT ![m] = "calling"]
        /\ UNCHANGED <<queueVars, registryVars, stream, post>>
    BY <1>15 DEF CallWorker, Proceed
  <2>2. MayCall(m)
    BY <1>15, <2>1 DEF CallWorker, OneStreamEach, MayCall
  <2>3. \A i \in 1..Len(sent[UserOf[m]]) : sent[UserOf[m]][i] # m
    BY <2>1, SentFacts DEF BeforeCall
  <2>4. m \in InFlight(UserOf[m])'
    BY <2>1 DEF InFlight
  <2>5. \A u \in Users : u # UserOf[m] => InFlight(u)' = InFlight(u)
    BY <2>1 DEF InFlight
  <2> QED
    BY <2>1, <2>2, <2>3, <2>4, <2>5, MayCallHoldsLock, CallCalls
<1>16. ASSUME NEW m \in Msgs, WorkerAnswers(m), UNCHANGED <<stream, post>> PROVE Fifo!Next
  BY <1>16, QuietStep DEF WorkerAnswers, Proceed
<1>17. ASSUME NEW m \in Msgs, WorkerFails(m), UNCHANGED <<stream, post>> PROVE Fifo!Next
  BY <1>17, QuietStep DEF WorkerFails, Proceed
<1>18. ASSUME NEW m \in Msgs, DeliverCallback(m), UNCHANGED <<stream, post>> PROVE
     Fifo!Next
  BY <1>18, QuietStep DEF DeliverCallback, Proceed, Deliver
<1>19. ASSUME NEW m \in Msgs, DeliverErrorCallback(m), UNCHANGED <<stream, post>> PROVE
     Fifo!Next
  BY <1>19, QuietStep DEF DeliverErrorCallback, Proceed, Deliver
<1>20. ASSUME NEW m \in Msgs, Complete(m), UNCHANGED <<stream, post>> PROVE Fifo!Next
  <2>1. /\ MarkComplete(m) /\ proc[m] = "completing" /\ proc' = [proc EXCEPT ![m] = "scheduling"]
        /\ UNCHANGED <<sent, stream>>
    BY <1>20 DEF Complete, Proceed
  <2>2. \A s \in Streams : StreamMsg[s] = m => stream[s] # "streaming"
    BY <2>1, InFlightHoldsLock
  <2> QED
    BY <2>1, <2>2, CompletionReleasesOrNot
<1>21. ASSUME NEW m \in Msgs, ScheduleNext(m), UNCHANGED <<stream, post>> PROVE Fifo!Next
  BY <1>21, QuietStep DEF ScheduleNext, Proceed, Trigger
<1>22. ASSUME NEW m \in Msgs, CommandRaises(m), UNCHANGED <<stream, post>> PROVE Fifo!Next
  BY <1>22, QuietStep DEF CommandRaises
<1>23. ASSUME NEW s \in Streams, LengthPositive(s), UNCHANGED post PROVE Fifo!Next
  BY <1>23, QuietStep DEF LengthPositive, Advance, Trigger
<1>24. ASSUME NEW s \in Streams, LengthZero(s), UNCHANGED post PROVE Fifo!Next
  BY <1>24, QuietStep DEF LengthZero, Advance
<1>25. ASSUME NEW s \in Streams, ProcessingFound(s), UNCHANGED post PROVE Fifo!Next
  BY <1>25, QuietStep DEF ProcessingFound, Advance, Trigger
<1>26. ASSUME NEW s \in Streams, NoWorkFound(s), UNCHANGED post PROVE Fifo!Next
  BY <1>26, QuietStep DEF NoWorkFound, Advance
<1>27. ASSUME NEW s \in Streams, StartStreaming(s), UNCHANGED post PROVE Fifo!Next
  <2> DEFINE m == StreamMsg[s]
  <2>1. /\ RecordCall(m) /\ m \in Msgs /\ future[s] = "result"
        /\ stream[s] = "waiting" /\ stream' = [stream EXCEPT ![s] = "streaming"]
        /\ UNCHANGED <<queueVars, registryVars, proc, post>>
    BY <1>27 DEF StartStreaming, Advance
  <2>2. MayCall(m)
    BY <2>1 DEF MayCall, BeforeStream
  <2>3. \A i \in 1..Len(sent[UserOf[m]]) : sent[UserOf[m]][i] # m
    BY <2>1, SentFacts DEF BeforeStream
  <2>4. s \in InFlight(UserOf[m])'
    BY <2>1 DEF InFlight
  <2>5. \A u \in Users : u # UserOf[m] => InFlight(u)' = InFlight(u)
    BY <2>1 DEF InFlight
  <2> HIDE DEF m
  <2> QED
    BY <2>1, <2>2, <2>3, <2>4, <2>5, MayCallHoldsLock, CallCalls
<1>28. ASSUME NEW s \in Streams, HandoffTimeout(s), UNCHANGED post PROVE Fifo!Next
  BY <1>28, QuietStep DEF HandoffTimeout, Advance, CancelFuture
<1>29. ASSUME NEW s \in Streams, FutureCancelled(s), UNCHANGED post PROVE Fifo!Next
  BY <1>29, QuietStep DEF FutureCancelled, Advance
<1>30. ASSUME NEW s \in Streams, StreamEnds(s), UNCHANGED post PROVE Fifo!Next
  BY <1>30, QuietStep DEF StreamEnds, Advance
<1>31. ASSUME NEW s \in Streams, StreamUnregisters(s), UNCHANGED post PROVE Fifo!Next
  BY <1>31, QuietStep DEF StreamUnregisters, Advance, Unregister
<1>32. ASSUME NEW s \in Streams, StreamCompletes(s), UNCHANGED post PROVE Fifo!Next
  <2> DEFINE m == StreamMsg[s]
  <2>1. /\ MarkComplete(m) /\ m \in Msgs
        /\ stream[s] = "completing" /\ stream' = [stream EXCEPT ![s] = "triggering"]
        /\ UNCHANGED <<sent, proc>>
    BY <1>32 DEF StreamCompletes, Advance
  <2>2. \A t \in Streams : StreamMsg[t] = m => stream[t] # "streaming"
    BY <2>1 DEF OneStreamEach
  <2>3. proc[m] # "calling"
    BY InFlightHoldsLock DEF OneStreamEach
  <2> HIDE DEF m
  <2> QED
    BY <2>1, <2>2, <2>3, CompletionReleasesOrNot
<1>33. ASSUME NEW s \in Streams, StreamTriggers(s), UNCHANGED post PROVE Fifo!Next
  BY <1>33, QuietStep DEF StreamTriggers, Advance, Trigger
<1>34. ASSUME NEW s \in Streams, StreamCommandRaises(s), UNCHANGED post PROVE Fifo!Next
  BY <1>34, QuietStep DEF StreamCommandRaises
<1>35. ASSUME NEW s \in Streams, Disconnect(s), UNCHANGED post PROVE Fifo!Next
  BY <1>35, QuietStep DEF Disconnect, CancelFuture
<1>36. ASSUME NEW s \in Streams, DisconnectUncaught(s), UNCHANGED post PROVE Fifo!Next
  BY <1>36, QuietStep DEF DisconnectUncaught
<1>37. ASSUME NEW u \in Users, LockExpires(u) PROVE Fifo!Next
  <2>1. /\ processing' = [processing EXCEPT ![u] = NoMsg]
        /\ ~Working(processing[u])
        /\ UNCHANGED <<arrival, queue, sent, proc, stream>>
    BY <1>37 DEF LockExpires, ProcessingExpires, OneStreamEach
  <2>2. InFlight(u) = {}
    BY <2>1, InFlightHoldsLock DEF InFlight, Lock, Working, AtWork
  <2> QED
    BY <2>1, <2>2, SameInFlight, UnlockReleases
<1>38. ASSUME Crash PROVE Fifo!Next
  BY <1>38, QuietStep DEF Crash, ProcessEnds, RegistryLost, Active, Live
<1>39. CASE UNCHANGED vars
  BY <1>39, QuietStep DEF vars
<1> QED
  BY <1>1, <1>2, <1>3, <1>4, <1>5, <1>6, <1>7, <1>8, <1>9, <1>10, <1>11, <1>12, <1>13,
       <1>14, <1>15, <1>16, <1>17, <1>18, <1>19, <1>20, <1>21, <1>22, <1>23, <1>24, <1>25, <1>26,
       <1>27, <1>28, <1>29, <1>30, <1>31, <1>32, <1>33, <1>34, <1>35, <1>36, <1>37, <1>38, <1>39
     DEF Next, ClientStep, Run, Work, TaskStep, ProcessorStep, WorkerReturns, StreamStep,
         WorkerStreamEnds, TaskFault, ProcessorFault, StreamFault

LEMMA FifoInit == Init => Fifo!Init
<1> SUFFICES ASSUME Init PROVE Fifo!Init
  OBVIOUS
<1>1. {m \in Msgs : arrival[m] # 0} = {}
  BY DEF Init, QueueInit
<1>2. \A u \in Users : InFlight(u) = {}
  BY DEF InFlight, Init, ProcessorInit, StreamInit
<1> QED
  BY <1>1, <1>2 DEF Fifo!Init, Init, QueueInit, ProcessorInit

\* The broker promises what PerUserFifo says: the messages of a user are taken
\* one at a time in the order of their POSTs, the worker is called at most once
\* for each, while it is the one being served, and the next is taken only when
\* the call is over (the queue of queue_manager.py, the two callers
\* message_processor.py:236 and stream_proxy.py:230).
THEOREM ImplementsFifo == ASSUME OneStreamEach PROVE Spec => RefinesPerUserFifo
<1>1. OrderInv /\ [Next]_vars => OrderInv'
  BY OneStreamEach, OrderStep
<1>2. OrderInv /\ [Next]_vars => [Fifo!Next]_(Fifo!vars)
  BY OneStreamEach, StepIsFifo
<1> QED
  BY <1>1, <1>2, FifoInit, OrderInit, PTL DEF Spec, RefinesPerUserFifo, Fifo!Spec

===========================================================================
