--------------------------- MODULE BrokerProofs ---------------------------
(***************************************************************************)
(* Theorems about the broker, for any number of users, messages and        *)
(* streams.  Every lemma about a step has one case per action of Next.     *)
(***************************************************************************)
EXTENDS BrokerInvariant, SequenceTheorems, TLAPS

---------------------------------------------------------------------------
(* Type correctness. *)

\* The initial state has its types.
LEMMA TypeInit == Init => TypeOK
BY RequestAssumption
   DEF Init, QueueInit, RegistryInit, ProcessorInit, StreamInit, TypeOK, QueueTypeOK,
       RegistryTypeOK, ProcessorTypeOK, StreamTypeOK, ProcStates, StreamStates, PostStates

\* A delivery adds one of the two verdicts to what the client got.
LEMMA DeliverType ==
    ASSUME TypeOK, NEW m \in Msgs, NEW v \in {"completed", "error"}, Deliver(m, v)
    PROVE  delivered' \in [Msgs -> SUBSET {"completed", "error"}]
<1> DEFINE D == SUBSET {"completed", "error"}
<1>1. delivered \in [Msgs -> D]
  BY DEF TypeOK, ProcessorTypeOK
<1>2. delivered[m] \cup {v} \in D
  <2>1. delivered[m] \in D
    BY <1>1
  <2> QED
    BY <2>1
<1> HIDE DEF D
<1>3. [delivered EXCEPT ![m] = @ \cup {v}] \in [Msgs -> D]
  BY <1>1, <1>2
<1>4. delivered' \in [Msgs -> D]
  BY <1>1, <1>3 DEF Deliver
<1> QED
  BY <1>4 DEF D

\* Every step keeps the types.
LEMMA TypeStep == TypeOK /\ [Next]_vars => TypeOK'
<1> SUFFICES ASSUME TypeOK, [Next]_vars PROVE TypeOK'
  OBVIOUS
<1> USE RequestAssumption
    DEF TypeOK, QueueTypeOK, RegistryTypeOK, ProcessorTypeOK, StreamTypeOK,
        ProcStates, StreamStates, PostStates, queueVars, registryVars, processorVars

<1>1. ASSUME NEW m \in Msgs, SubmitPush(m) PROVE TypeOK'
  <2>1. post' \in [Msgs -> PostStates]
    BY <1>1 DEF SubmitPush, FirstInQueue
  <2>2. queue' \in [Users -> Seq(Msgs)]
    BY <1>1 DEF SubmitPush, Enqueue
  <2> QED
    BY <1>1, <2>1, <2>2 DEF SubmitPush, Enqueue
<1>2. ASSUME NEW m \in Msgs, SubmitReply(m) PROVE TypeOK'
  BY <1>2 DEF SubmitReply, StoreMetadata, Trigger
<1>3. ASSUME NEW m \in Msgs, SubmitRaises(m) PROVE TypeOK'
  BY <1>3 DEF SubmitRaises
<1>4. ASSUME NEW m \in Msgs, SubmitLosesReply(m) PROVE TypeOK'
  BY <1>4 DEF SubmitLosesReply, StoreMetadata
<1>5. ASSUME NEW s \in Streams, ClientOpens(s) PROVE TypeOK'
  BY <1>5 DEF ClientOpens, OpenStream, Advance, Register
<1>6. ASSUME NEW u \in Users, ProcessNone(u), UNCHANGED <<stream, post>> PROVE TypeOK'
  <2>1. tasks' \in [Users -> Nat]
    BY <1>6 DEF ProcessNone
  <2> QED
    BY <1>6, <2>1 DEF ProcessNone, DequeueNone
<1>7. ASSUME NEW u \in Users, NEW m \in Msgs, ProcessDequeue(u, m), UNCHANGED <<stream,
     post>> PROVE TypeOK'
  <2>1. tasks' \in [Users -> Nat]
    BY <1>7 DEF ProcessDequeue
  <2>2. queue' \in [Users -> Seq(Msgs)]
    BY <1>7 DEF ProcessDequeue, Dequeue
  <2> QED
    BY <1>7, <2>1, <2>2 DEF ProcessDequeue, Dequeue
<1>8. ASSUME NEW u \in Users, DequeueRaises(u), UNCHANGED <<stream, post>> PROVE TypeOK'
  BY <1>8 DEF DequeueRaises
<1>9. ASSUME NEW m \in Msgs, StoreStartedAt(m), UNCHANGED <<stream, post>> PROVE TypeOK'
  BY <1>9 DEF StoreStartedAt, Proceed, StoreMetadata
<1>10. ASSUME NEW m \in Msgs, HandOffRegistered(m), UNCHANGED <<stream, post>> PROVE
     TypeOK'
  BY <1>10 DEF HandOffRegistered, Proceed, IsRegistered, HandOff
<1>11. ASSUME NEW m \in Msgs, AwaitStream(m), UNCHANGED <<stream, post>> PROVE TypeOK'
  BY <1>11 DEF AwaitStream, Proceed, ArmEvent
<1>12. ASSUME NEW m \in Msgs, RegistrationArrives(m), UNCHANGED <<stream, post>> PROVE
     TypeOK'
  BY <1>12 DEF RegistrationArrives, Proceed, IsRegistered, DropEvent, HandOff
<1>13. ASSUME NEW m \in Msgs, RegistrationGone(m), UNCHANGED <<stream, post>> PROVE
     TypeOK'
  BY <1>13 DEF RegistrationGone, Proceed, DropEvent
<1>14. ASSUME NEW m \in Msgs, RegistrationTimeout(m), UNCHANGED <<stream, post>> PROVE
     TypeOK'
  BY <1>14 DEF RegistrationTimeout, Proceed, DropEvent
<1>15. ASSUME NEW m \in Msgs, CallWorker(m), UNCHANGED <<stream, post>> PROVE TypeOK'
  BY <1>15 DEF CallWorker, Proceed, RecordCall
<1>16. ASSUME NEW m \in Msgs, WorkerAnswers(m), UNCHANGED <<stream, post>> PROVE TypeOK'
  BY <1>16 DEF WorkerAnswers, Proceed
<1>17. ASSUME NEW m \in Msgs, WorkerFails(m), UNCHANGED <<stream, post>> PROVE TypeOK'
  BY <1>17 DEF WorkerFails, Proceed
<1>18. ASSUME NEW m \in Msgs, DeliverCallback(m), UNCHANGED <<stream, post>> PROVE
     TypeOK'
  <2>1. delivered' \in [Msgs -> SUBSET {"completed", "error"}]
    BY <1>18, DeliverType DEF DeliverCallback
  <2> QED
    BY <1>18, <2>1 DEF DeliverCallback, Proceed, Deliver
<1>19. ASSUME NEW m \in Msgs, DeliverErrorCallback(m), UNCHANGED <<stream, post>> PROVE
     TypeOK'
  <2>1. delivered' \in [Msgs -> SUBSET {"completed", "error"}]
    BY <1>19, DeliverType DEF DeliverErrorCallback
  <2> QED
    BY <1>19, <2>1 DEF DeliverErrorCallback, Proceed, Deliver
<1>20. ASSUME NEW m \in Msgs, Complete(m), UNCHANGED <<stream, post>> PROVE TypeOK'
  BY <1>20 DEF Complete, Proceed, MarkComplete
<1>21. ASSUME NEW m \in Msgs, ScheduleNext(m), UNCHANGED <<stream, post>> PROVE TypeOK'
  BY <1>21 DEF ScheduleNext, Proceed, Trigger
<1>22. ASSUME NEW m \in Msgs, CommandRaises(m), UNCHANGED <<stream, post>> PROVE TypeOK'
  BY <1>22 DEF CommandRaises
<1>23. ASSUME NEW s \in Streams, LengthPositive(s), UNCHANGED post PROVE TypeOK'
  BY <1>23 DEF LengthPositive, Advance, Trigger
<1>24. ASSUME NEW s \in Streams, LengthZero(s), UNCHANGED post PROVE TypeOK'
  BY <1>24 DEF LengthZero, Advance
<1>25. ASSUME NEW s \in Streams, ProcessingFound(s), UNCHANGED post PROVE TypeOK'
  BY <1>25 DEF ProcessingFound, Advance, Trigger
<1>26. ASSUME NEW s \in Streams, NoWorkFound(s), UNCHANGED post PROVE TypeOK'
  BY <1>26 DEF NoWorkFound, Advance
<1>27. ASSUME NEW s \in Streams, StartStreaming(s), UNCHANGED post PROVE TypeOK'
  BY <1>27 DEF StartStreaming, Advance, RecordCall
<1>28. ASSUME NEW s \in Streams, HandoffTimeout(s), UNCHANGED post PROVE TypeOK'
  BY <1>28 DEF HandoffTimeout, Advance, CancelFuture
<1>29. ASSUME NEW s \in Streams, FutureCancelled(s), UNCHANGED post PROVE TypeOK'
  BY <1>29 DEF FutureCancelled, Advance
<1>30. ASSUME NEW s \in Streams, StreamEnds(s), UNCHANGED post PROVE TypeOK'
  BY <1>30 DEF StreamEnds, Advance
<1>31. ASSUME NEW s \in Streams, StreamUnregisters(s), UNCHANGED post PROVE TypeOK'
  BY <1>31 DEF StreamUnregisters, Advance, Unregister
<1>32. ASSUME NEW s \in Streams, StreamCompletes(s), UNCHANGED post PROVE TypeOK'
  BY <1>32 DEF StreamCompletes, Advance, MarkComplete
<1>33. ASSUME NEW s \in Streams, StreamTriggers(s), UNCHANGED post PROVE TypeOK'
  BY <1>33 DEF StreamTriggers, Advance, Trigger
<1>34. ASSUME NEW s \in Streams, StreamCommandRaises(s), UNCHANGED post PROVE TypeOK'
  BY <1>34 DEF StreamCommandRaises
<1>35. ASSUME NEW s \in Streams, Disconnect(s), UNCHANGED post PROVE TypeOK'
  BY <1>35 DEF Disconnect, CancelFuture
<1>36. ASSUME NEW s \in Streams, DisconnectUncaught(s), UNCHANGED post PROVE TypeOK'
  BY <1>36 DEF DisconnectUncaught
<1>37. ASSUME NEW u \in Users, LockExpires(u) PROVE TypeOK'
  BY <1>37 DEF LockExpires, ProcessingExpires
<1>38. ASSUME Crash PROVE TypeOK'
  BY <1>38 DEF Crash, ProcessEnds, RegistryLost
<1>39. CASE UNCHANGED vars
  BY <1>39 DEF vars
<1> QED
  BY <1>1, <1>2, <1>3, <1>4, <1>5, <1>6, <1>7, <1>8, <1>9, <1>10, <1>11, <1>12, <1>13,
       <1>14, <1>15, <1>16, <1>17, <1>18, <1>19, <1>20, <1>21, <1>22, <1>23, <1>24,
       <1>25, <1>26, <1>27, <1>28, <1>29, <1>30, <1>31, <1>32, <1>33, <1>34, <1>35,
       <1>36, <1>37, <1>38, <1>39
     DEF Next, ClientStep, Run, Work, TaskStep, ProcessorStep, WorkerReturns, StreamStep, WorkerStreamEnds,
         TaskFault, ProcessorFault, StreamFault

\* The state of the broker always has its types: Redis, the registry, the
\* tasks, the stream handlers and the POSTs.
THEOREM TypeCorrect == Spec => []TypeOK
<1>1. Init => TypeOK
  BY TypeInit
<1>2. TypeOK /\ [Next]_vars => TypeOK'
  BY TypeStep
<1> QED
  BY <1>1, <1>2, PTL DEF Spec


---------------------------------------------------------------------------
(* What leaves the parts of BaseInv alone. *)

\* No queue changes and no message is dequeued.
LEMMA QueueFrame ==
    ASSUME TypeOK, QueueInv, UNCHANGED queue,
           \A m \in Msgs : proc[m] = "none" => proc'[m] = "none"
    PROVE  QueueInv'
<1> SUFFICES ASSUME NEW u \in Users, NEW i \in 1..Len(queue[u])
             PROVE  /\ UserOf[queue[u][i]] = u
                    /\ proc'[queue[u][i]] = "none"
                    /\ \A j \in 1..Len(queue[u]) : queue[u][i] = queue[u][j] => i = j
  BY DEF QueueInv
<1>1. queue[u][i] \in Msgs
  BY DEF TypeOK, QueueTypeOK
<1> QED
  BY <1>1 DEF QueueInv

\* In addition, no POST becomes new.
LEMMA NewFrame ==
    ASSUME NewInv, UNCHANGED queue,
           \A m \in Msgs : proc[m] = "none" => proc'[m] = "none",
           \A m \in Msgs : post'[m] = "new" => post[m] = "new"
    PROVE  NewInv'
BY DEF NewInv

\* Entries of the registry only go away.
LEMMA RegistryFrame ==
    ASSUME RegistryInv, RequestAssumption,
           \A m \in Msgs : registry'[m] \in {registry[m], NoStream}
    PROVE  RegistryInv'
BY DEF RegistryInv, RequestAssumption

\* No future gets its result or loses it, no stream begins, and a message
\* that was handed off remains so.
LEMMA HandoffFrame ==
    ASSUME HandoffInv, RequestAssumption,
           \A m \in Msgs : proc[m] = "handed" => proc'[m] = "handed",
           \A s \in Streams : future'[s] = "result" => future[s] = "result",
           \A s \in Streams : stream'[s] = "streaming" =>
               stream[s] = "streaming" /\ future'[s] = future[s]
    PROVE  HandoffInv'
<1>1. \A s \in Streams : StreamMsg[s] \in Msgs
  BY DEF RequestAssumption
<1> QED
  BY <1>1 DEF HandoffInv

---------------------------------------------------------------------------
(* The steps that disturb the parts of BaseInv. *)

\* A handoff resolves one future of the message, which was not handed off before.
LEMMA HandOffStep ==
    ASSUME TypeOK, RegistryInv, HandoffInv, NEW m \in Msgs, HandOff(m),
           proc[m] # "handed", proc' = [proc EXCEPT ![m] = "handed"], UNCHANGED stream
    PROVE  RegistryInv' /\ HandoffInv'
<1> USE RequestAssumption DEF TypeOK, RegistryTypeOK, ProcessorTypeOK
<1>1. RegistryInv'
  BY DEF HandOff, RegistryInv
<1>2. \A s \in Streams : future'[s] = "result" /\ future[s] # "result" => registry[m] = s
  BY DEF HandOff
<1>3. \A s \in Streams : future[s] = "result" => future'[s] = "result" /\ StreamMsg[s] # m
  BY DEF HandOff, HandoffInv
<1>4. \A s \in Streams : registry[m] = s => StreamMsg[s] = m
  BY DEF RegistryInv
<1>5. HandoffInv'
  <2>1. \A s \in Streams : future'[s] = "result" => proc'[StreamMsg[s]] = "handed"
    BY <1>2, <1>4 DEF HandoffInv
  <2>2. \A s, t \in Streams :
            future'[s] = "result" /\ future'[t] = "result" /\ StreamMsg[s] = StreamMsg[t] => s = t
    BY <1>2, <1>3, <1>4 DEF HandoffInv
  <2>3. \A s \in Streams : stream'[s] = "streaming" => future'[s] = "result"
    BY <1>3 DEF HandoffInv
  <2> QED
    BY <2>1, <2>2, <2>3 DEF HandoffInv
<1> QED
  BY <1>1, <1>5

\* What the dequeue script returns has not been dequeued before and belongs to u.
LEMMA DequeuedIsNew ==
    ASSUME TypeOK, QueueInv, NEW u \in Users, NEW m \in Msgs, Dequeue(u, m)
    PROVE  proc[m] = "none" /\ UserOf[m] = u
<1>1. 1 \in 1..Len(queue[u]) /\ queue[u][1] = m
  BY DEF TypeOK, QueueTypeOK, Dequeue
<1> QED
  BY <1>1 DEF QueueInv

\* The head of a queue is dequeued: the rest keeps its order and is not affected.
LEMMA DequeueKeepsQueue ==
    ASSUME TypeOK, QueueInv, NEW u \in Users, NEW m \in Msgs,
           queue[u] # <<>>, m = Head(queue[u]), UserOf[m] = u,
           queue' = [queue EXCEPT ![u] = Tail(queue[u])],
           proc' = [proc EXCEPT ![m] = "dequeued"]
    PROVE  QueueInv'
<1> SUFFICES ASSUME NEW v \in Users, NEW i \in 1..Len(queue'[v])
             PROVE  /\ UserOf[queue'[v][i]] = v
                    /\ proc'[queue'[v][i]] = "none"
                    /\ \A j \in 1..Len(queue'[v]) : queue'[v][i] = queue'[v][j] => i = j
  BY DEF QueueInv
<1> USE RequestAssumption DEF TypeOK, QueueTypeOK, ProcessorTypeOK
<1>1. CASE v = u
  <2>1. queue'[u] = Tail(queue[u]) /\ queue[u] \in Seq(Msgs)
    OBVIOUS
  <2>2. \A j \in 1..Len(queue'[u]) : /\ queue'[u][j] = queue[u][j + 1]
                                    /\ j + 1 \in 1..Len(queue[u])
    BY <2>1
  <2>3. queue[u][1] = m /\ 1 \in 1..Len(queue[u])
    BY <2>1
  <2>4. queue[u][i + 1] # m
    BY <1>1, <2>2, <2>3 DEF QueueInv
  <2>5. queue[u][i + 1] \in Msgs /\ proc[queue[u][i + 1]] = "none" /\ UserOf[queue[u][i + 1]] = u
    BY <1>1, <2>2, <2>1 DEF QueueInv
  <2>6. \A j \in 1..Len(queue'[u]) : queue[u][i + 1] = queue[u][j + 1] => i + 1 = j + 1
    BY <1>1, <2>2 DEF QueueInv
  <2> QED
    BY <1>1, <2>2, <2>4, <2>5, <2>6
<1>2. CASE v # u
  <2>1. queue'[v] = queue[v] /\ queue[v] \in Seq(Msgs)
    BY <1>2
  <2>2. queue[v][i] \in Msgs
    BY <2>1
  <2>3. /\ UserOf[queue[v][i]] = v /\ proc[queue[v][i]] = "none"
        /\ \A j \in 1..Len(queue[v]) : queue[v][i] = queue[v][j] => i = j
    BY <2>1 DEF QueueInv
  <2>4. queue[v][i] # m
    BY <1>2, <2>3
  <2> QED
    BY <2>1, <2>2, <2>3, <2>4
<1> QED
  BY <1>1, <1>2

\* A dequeue touches no message whose POST is still to come.
LEMMA DequeueKeepsNew ==
    ASSUME TypeOK, NewInv, NEW u \in Users, NEW m \in Msgs,
           queue[u] # <<>>, m = Head(queue[u]),
           queue' = [queue EXCEPT ![u] = Tail(queue[u])],
           proc' = [proc EXCEPT ![m] = "dequeued"], UNCHANGED post
    PROVE  NewInv'
<1> SUFFICES ASSUME NEW k \in Msgs, post[k] = "new"
             PROVE  /\ proc'[k] = "none"
                    /\ \A v \in Users : \A i \in 1..Len(queue'[v]) : queue'[v][i] # k
  BY DEF NewInv
<1> USE RequestAssumption DEF TypeOK, QueueTypeOK, ProcessorTypeOK
<1>1. queue[u] \in Seq(Msgs)
  OBVIOUS
<1>2. k # m
  <2>1. 1 \in 1..Len(queue[u]) /\ queue[u][1] = m
    BY <1>1
  <2> QED
    BY <2>1 DEF NewInv
<1>3. ASSUME NEW v \in Users, NEW i \in 1..Len(queue'[v]) PROVE queue'[v][i] # k
  <2>1. CASE v = u
    BY <1>1, <1>3, <2>1 DEF NewInv
  <2>2. CASE v # u
    BY <1>3, <2>2 DEF NewInv
  <2> QED
    BY <2>1, <2>2
<1> QED
  BY <1>2, <1>3 DEF NewInv

\* A new message is appended to the queue of its user.
LEMMA PushKeepsQueue ==
    ASSUME TypeOK, QueueInv, NewInv, NEW m \in Msgs, post[m] = "new",
           queue' = [queue EXCEPT ![UserOf[m]] = Append(queue[UserOf[m]], m)],
           UNCHANGED proc
    PROVE  QueueInv'
<1> SUFFICES ASSUME NEW v \in Users, NEW i \in 1..Len(queue'[v])
             PROVE  /\ UserOf[queue'[v][i]] = v
                    /\ proc'[queue'[v][i]] = "none"
                    /\ \A j \in 1..Len(queue'[v]) : queue'[v][i] = queue'[v][j] => i = j
  BY DEF QueueInv
<1> USE RequestAssumption DEF TypeOK, QueueTypeOK, ProcessorTypeOK
<1>1. CASE v = UserOf[m]
  <2>1. queue'[v] = Append(queue[v], m) /\ queue[v] \in Seq(Msgs)
    BY <1>1
  <2>2. /\ Len(queue'[v]) = Len(queue[v]) + 1
        /\ queue'[v][Len(queue[v]) + 1] = m
        /\ \A j \in 1..Len(queue[v]) : queue'[v][j] = queue[v][j]
    BY <2>1, AppendProperties
  <2>3. proc[m] = "none" /\ \A j \in 1..Len(queue[v]) : queue[v][j] # m
    BY DEF NewInv
  <2>4. \A j \in 1..Len(queue'[v]) : j \in 1..Len(queue[v]) \/ j = Len(queue[v]) + 1
    BY <2>1, <2>2
  <2>5. \A j \in 1..Len(queue[v]) :
            /\ UserOf[queue[v][j]] = v /\ proc[queue[v][j]] = "none"
            /\ \A k \in 1..Len(queue[v]) : queue[v][j] = queue[v][k] => j = k
    BY DEF QueueInv
  <2>6. CASE i \in 1..Len(queue[v])
    <3>1. queue'[v][i] = queue[v][i] /\ queue[v][i] # m
      BY <2>2, <2>3, <2>6
    <3>2. UserOf[queue'[v][i]] = v /\ proc'[queue'[v][i]] = "none"
      BY <2>5, <2>6, <3>1
    <3>3. ASSUME NEW j \in 1..Len(queue'[v]), queue'[v][i] = queue'[v][j]
          PROVE  i = j
      <4>1. j \in 1..Len(queue[v])
        BY <2>2, <2>4, <3>1, <3>3
      <4> QED
        BY <2>2, <2>5, <2>6, <3>1, <3>3, <4>1
    <3> QED
      BY <3>2, <3>3
  <2>7. CASE i = Len(queue[v]) + 1
    BY <1>1, <2>2, <2>3, <2>4, <2>7
  <2> QED
    BY <2>4, <2>6, <2>7
<1>2. CASE v # UserOf[m]
  BY <1>2 DEF QueueInv
<1> QED
  BY <1>1, <1>2

\* Nor does the push of another message.
LEMMA PushKeepsNew ==
    ASSUME TypeOK, NewInv, NEW m \in Msgs,
           queue' = [queue EXCEPT ![UserOf[m]] = Append(queue[UserOf[m]], m)],
           post'[m] # "new", \A k \in Msgs : k # m => post'[k] = post[k],
           UNCHANGED proc
    PROVE  NewInv'
<1> SUFFICES ASSUME NEW k \in Msgs, post'[k] = "new"
             PROVE  /\ proc'[k] = "none"
                    /\ \A v \in Users : \A i \in 1..Len(queue'[v]) : queue'[v][i] # k
  BY DEF NewInv
<1> USE RequestAssumption DEF TypeOK, QueueTypeOK, ProcessorTypeOK
<1>1. k # m /\ post[k] = "new"
  OBVIOUS
<1>2. ASSUME NEW v \in Users, NEW i \in 1..Len(queue'[v]) PROVE queue'[v][i] # k
  <2>1. CASE v = UserOf[m]
    <3>1. queue'[v] = Append(queue[v], m) /\ queue[v] \in Seq(Msgs)
      BY <2>1
    <3>2. \/ i \in 1..Len(queue[v]) /\ queue'[v][i] = queue[v][i]
          \/ queue'[v][i] = m
      BY <3>1, <1>2
    <3> QED
      BY <1>1, <3>2 DEF NewInv
  <2>2. CASE v # UserOf[m]
    BY <1>1, <1>2, <2>2 DEF NewInv
  <2> QED
    BY <2>1, <2>2
<1> QED
  BY <1>1, <1>2 DEF NewInv

---------------------------------------------------------------------------
(* BaseInv is inductive. *)

\* The initial state satisfies BaseInv.
LEMMA BaseInit == Init => BaseInv
BY TypeInit, RequestAssumption
   DEF Init, QueueInit, RegistryInit, ProcessorInit, StreamInit, BaseInv,
       QueueInv, NewInv, RegistryInv, HandoffInv

\* Every step preserves BaseInv; most of them by the frames above.
LEMMA BaseStep == BaseInv /\ [Next]_vars => BaseInv'
<1> SUFFICES ASSUME BaseInv, [Next]_vars
             PROVE  QueueInv' /\ NewInv' /\ RegistryInv' /\ HandoffInv'
  BY TypeStep DEF BaseInv
<1>0. TypeOK /\ TypeOK' /\ QueueInv /\ NewInv /\ RegistryInv /\ HandoffInv
  BY TypeStep DEF BaseInv
<1> DEFINE Preserved == QueueInv' /\ NewInv' /\ RegistryInv' /\ HandoffInv'
<1> USE <1>0, RequestAssumption, QueueFrame, NewFrame, RegistryFrame, HandoffFrame
    DEF TypeOK, QueueTypeOK, RegistryTypeOK, ProcessorTypeOK, StreamTypeOK,
        queueVars, registryVars, processorVars

<1>1. ASSUME NEW m \in Msgs, SubmitPush(m) PROVE Preserved
  <2>1. queue' = [queue EXCEPT ![UserOf[m]] = Append(queue[UserOf[m]], m)]
    BY <1>1 DEF SubmitPush, Enqueue
  <2>2. post[m] = "new" /\ UNCHANGED <<registry, future, proc, stream>>
    BY <1>1 DEF SubmitPush
  <2>3. post'[m] # "new" /\ \A k \in Msgs : k # m => post'[k] = post[k]
    BY <1>1 DEF SubmitPush
  <2>4. QueueInv'
    BY <2>1, <2>2, PushKeepsQueue
  <2>5. NewInv'
    BY <2>1, <2>2, <2>3, PushKeepsNew
  <2>6. HandoffInv' /\ RegistryInv'
    BY <2>2
  <2> QED
    BY <2>4, <2>5, <2>6
<1>2. ASSUME NEW m \in Msgs, SubmitReply(m) PROVE Preserved
  BY <1>2 DEF SubmitReply, StoreMetadata, Trigger
<1>3. ASSUME NEW m \in Msgs, SubmitRaises(m) PROVE Preserved
  BY <1>3 DEF SubmitRaises
<1>4. ASSUME NEW m \in Msgs, SubmitLosesReply(m) PROVE Preserved
  BY <1>4 DEF SubmitLosesReply, StoreMetadata
<1>5. ASSUME NEW s \in Streams, ClientOpens(s) PROVE Preserved
  <2>1. RegistryInv'
    BY <1>5 DEF ClientOpens, OpenStream, Register, RegistryInv
  <2>2. \A t \in Streams : future'[t] = "result" => future[t] = "result"
    BY <1>5 DEF ClientOpens, OpenStream, Register
  <2>3. \A t \in Streams : stream'[t] = "streaming" =>
            stream[t] = "streaming" /\ future'[t] = future[t]
    BY <1>5 DEF ClientOpens, OpenStream, Advance, Register
  <2>4. QueueInv' /\ NewInv'
    BY <1>5 DEF ClientOpens, OpenStream
  <2> QED
    BY <1>5, <2>1, <2>2, <2>3, <2>4 DEF ClientOpens, OpenStream
<1>6. ASSUME NEW u \in Users, ProcessNone(u), UNCHANGED <<stream, post>> PROVE Preserved
  BY <1>6 DEF ProcessNone, DequeueNone
<1>7. ASSUME NEW u \in Users, NEW m \in Msgs, ProcessDequeue(u, m), UNCHANGED <<stream,
     post>> PROVE Preserved
  <2>1. proc[m] = "none" /\ UserOf[m] = u
    BY <1>7, DequeuedIsNew DEF ProcessDequeue
  <2>2. queue' = [queue EXCEPT ![u] = Tail(queue[u])] /\ m = Head(queue[u]) /\ queue[u]
       # <<>>
    BY <1>7 DEF ProcessDequeue, Dequeue
  <2>3. proc' = [proc EXCEPT ![m] = "dequeued"] /\ UNCHANGED <<registry, future, stream,
       post>>
    BY <1>7 DEF ProcessDequeue
  <2>4. QueueInv'
    BY <2>1, <2>2, <2>3, DequeueKeepsQueue
  <2>5. NewInv'
    BY <2>1, <2>2, <2>3, DequeueKeepsNew
  <2>6. HandoffInv' /\ RegistryInv'
    BY <2>1, <2>3
  <2> QED
    BY <2>4, <2>5, <2>6
<1>8. ASSUME NEW u \in Users, DequeueRaises(u), UNCHANGED <<stream, post>> PROVE
     Preserved
  BY <1>8 DEF DequeueRaises
<1>9. ASSUME NEW m \in Msgs, StoreStartedAt(m), UNCHANGED <<stream, post>> PROVE
     Preserved
  BY <1>9 DEF StoreStartedAt, Proceed, StoreMetadata
<1>10. ASSUME NEW m \in Msgs, HandOffRegistered(m), UNCHANGED <<stream, post>> PROVE
     Preserved
  <2>1. QueueInv' /\ NewInv'
    BY <1>10 DEF HandOffRegistered, Proceed
  <2>2. HandOff(m) /\ proc[m] # "handed" /\ proc' = [proc EXCEPT ![m] = "handed"] /\
       UNCHANGED stream
    BY <1>10 DEF HandOffRegistered, Proceed
  <2> QED
    BY <2>1, <2>2, HandOffStep
<1>11. ASSUME NEW m \in Msgs, AwaitStream(m), UNCHANGED <<stream, post>> PROVE Preserved
  BY <1>11 DEF AwaitStream, Proceed, ArmEvent
<1>12. ASSUME NEW m \in Msgs, RegistrationArrives(m), UNCHANGED <<stream, post>> PROVE
     Preserved
  <2>1. QueueInv' /\ NewInv'
    BY <1>12 DEF RegistrationArrives, Proceed
  <2>2. HandOff(m) /\ proc[m] # "handed" /\ proc' = [proc EXCEPT ![m] = "handed"] /\
       UNCHANGED stream
    BY <1>12 DEF RegistrationArrives, Proceed
  <2> QED
    BY <2>1, <2>2, HandOffStep
<1>13. ASSUME NEW m \in Msgs, RegistrationGone(m), UNCHANGED <<stream, post>> PROVE
     Preserved
  BY <1>13 DEF RegistrationGone, Proceed, DropEvent
<1>14. ASSUME NEW m \in Msgs, RegistrationTimeout(m), UNCHANGED <<stream, post>> PROVE
     Preserved
  BY <1>14 DEF RegistrationTimeout, Proceed, DropEvent
<1>15. ASSUME NEW m \in Msgs, CallWorker(m), UNCHANGED <<stream, post>> PROVE Preserved
  BY <1>15 DEF CallWorker, Proceed, RecordCall
<1>16. ASSUME NEW m \in Msgs, WorkerAnswers(m), UNCHANGED <<stream, post>> PROVE
     Preserved
  BY <1>16 DEF WorkerAnswers, Proceed
<1>17. ASSUME NEW m \in Msgs, WorkerFails(m), UNCHANGED <<stream, post>> PROVE Preserved
  BY <1>17 DEF WorkerFails, Proceed
<1>18. ASSUME NEW m \in Msgs, DeliverCallback(m), UNCHANGED <<stream, post>> PROVE
     Preserved
  BY <1>18 DEF DeliverCallback, Proceed, Deliver
<1>19. ASSUME NEW m \in Msgs, DeliverErrorCallback(m), UNCHANGED <<stream, post>> PROVE
     Preserved
  BY <1>19 DEF DeliverErrorCallback, Proceed, Deliver
<1>20. ASSUME NEW m \in Msgs, Complete(m), UNCHANGED <<stream, post>> PROVE Preserved
  BY <1>20 DEF Complete, Proceed, MarkComplete
<1>21. ASSUME NEW m \in Msgs, ScheduleNext(m), UNCHANGED <<stream, post>> PROVE
     Preserved
  BY <1>21 DEF ScheduleNext, Proceed, Trigger
<1>22. ASSUME NEW m \in Msgs, CommandRaises(m), UNCHANGED <<stream, post>> PROVE
     Preserved
  BY <1>22 DEF CommandRaises
<1>23. ASSUME NEW s \in Streams, LengthPositive(s), UNCHANGED post PROVE Preserved
  BY <1>23 DEF LengthPositive, Advance, Trigger
<1>24. ASSUME NEW s \in Streams, LengthZero(s), UNCHANGED post PROVE Preserved
  BY <1>24 DEF LengthZero, Advance
<1>25. ASSUME NEW s \in Streams, ProcessingFound(s), UNCHANGED post PROVE Preserved
  BY <1>25 DEF ProcessingFound, Advance, Trigger
<1>26. ASSUME NEW s \in Streams, NoWorkFound(s), UNCHANGED post PROVE Preserved
  BY <1>26 DEF NoWorkFound, Advance
<1>27. ASSUME NEW s \in Streams, StartStreaming(s), UNCHANGED post PROVE Preserved
  <2>1. HandoffInv'
    BY <1>27 DEF StartStreaming, Advance, HandoffInv
  <2> QED
    BY <1>27, <2>1 DEF StartStreaming
<1>28. ASSUME NEW s \in Streams, HandoffTimeout(s), UNCHANGED post PROVE Preserved
  BY <1>28 DEF HandoffTimeout, Advance, CancelFuture
<1>29. ASSUME NEW s \in Streams, FutureCancelled(s), UNCHANGED post PROVE Preserved
  BY <1>29 DEF FutureCancelled, Advance
<1>30. ASSUME NEW s \in Streams, StreamEnds(s), UNCHANGED post PROVE Preserved
  BY <1>30 DEF StreamEnds, Advance
<1>31. ASSUME NEW s \in Streams, StreamUnregisters(s), UNCHANGED post PROVE Preserved
  <2>1. RegistryInv'
    BY <1>31 DEF StreamUnregisters, Unregister
  <2>2. \A t \in Streams : future'[t] = "result" => future[t] = "result"
    BY <1>31 DEF StreamUnregisters, Unregister
  <2>3. \A t \in Streams : stream'[t] = "streaming" =>
            stream[t] = "streaming" /\ future'[t] = future[t]
    BY <1>31 DEF StreamUnregisters, Advance, Unregister, HandoffInv
  <2> QED
    BY <1>31, <2>1, <2>2, <2>3 DEF StreamUnregisters
<1>32. ASSUME NEW s \in Streams, StreamCompletes(s), UNCHANGED post PROVE Preserved
  BY <1>32 DEF StreamCompletes, Advance, MarkComplete
<1>33. ASSUME NEW s \in Streams, StreamTriggers(s), UNCHANGED post PROVE Preserved
  BY <1>33 DEF StreamTriggers, Advance, Trigger
<1>34. ASSUME NEW s \in Streams, StreamCommandRaises(s), UNCHANGED post PROVE Preserved
  BY <1>34 DEF StreamCommandRaises
<1>35. ASSUME NEW s \in Streams, Disconnect(s), UNCHANGED post PROVE Preserved
  BY <1>35 DEF Disconnect, CancelFuture
<1>36. ASSUME NEW s \in Streams, DisconnectUncaught(s), UNCHANGED post PROVE Preserved
  BY <1>36 DEF DisconnectUncaught
<1>37. ASSUME NEW u \in Users, LockExpires(u) PROVE Preserved
  BY <1>37 DEF LockExpires, ProcessingExpires
<1>38. ASSUME Crash PROVE Preserved
  BY <1>38 DEF Crash, ProcessEnds, RegistryLost, Active, Live
<1>39. CASE UNCHANGED vars
  BY <1>39 DEF vars
<1> QED
  BY <1>1, <1>2, <1>3, <1>4, <1>5, <1>6, <1>7, <1>8, <1>9, <1>10, <1>11, <1>12, <1>13,
       <1>14, <1>15, <1>16, <1>17, <1>18, <1>19, <1>20, <1>21, <1>22, <1>23, <1>24,
       <1>25, <1>26, <1>27, <1>28, <1>29, <1>30, <1>31, <1>32, <1>33, <1>34, <1>35,
       <1>36, <1>37, <1>38, <1>39
     DEF Next, ClientStep, Run, Work, TaskStep, ProcessorStep, WorkerReturns, StreamStep, WorkerStreamEnds,
         TaskFault, ProcessorFault, StreamFault

---------------------------------------------------------------------------
(* AtMostOnce. *)

\* SentInv, for one element of the history.
LEMMA SentFacts ==
    ASSUME SentInv, NEW u \in Users, NEW i \in 1..Len(sent[u])
    PROVE  /\ UserOf[sent[u][i]] = u
           /\ proc[sent[u][i]] \notin BeforeCall
           /\ \A s \in Streams : StreamMsg[s] = sent[u][i] /\ future[s] = "result" =>
                                    stream[s] \notin BeforeStream
BY DEF SentInv

\* No call begins, no task goes back, and no handler gets its message.
LEMMA SentFrame ==
    ASSUME TypeOK, SentInv, AtMostOnce, UNCHANGED sent,
           \A m \in Msgs : proc'[m] \in BeforeCall => proc[m] \in BeforeCall,
           \A s \in Streams : future'[s] = "result" /\ stream'[s] \in BeforeStream =>
               future[s] = "result" /\ stream[s] \in BeforeStream
    PROVE  SentInv' /\ AtMostOnce'
<1>1. AtMostOnce'
  BY DEF AtMostOnce
<1>2. SentInv'
  <2> SUFFICES ASSUME NEW u \in Users, NEW i \in 1..Len(sent[u])
               PROVE  /\ UserOf[sent[u][i]] = u
                      /\ proc'[sent[u][i]] \notin BeforeCall
                      /\ \A s \in Streams :
                             StreamMsg[s] = sent[u][i] /\ future'[s] = "result" =>
                                 stream'[s] \notin BeforeStream
    BY DEF SentInv
  <2>1. sent[u][i] \in Msgs
    BY DEF TypeOK, ProcessorTypeOK
  <2> QED
    BY <2>1 DEF SentInv
<1> QED
  BY <1>1, <1>2

\* The call of a message that is not in the history begins; its task is past
\* the call or the handoff, and no other handler can begin to stream it.
LEMMA SentCall ==
    ASSUME TypeOK, SentInv, AtMostOnce, NEW m \in Msgs, RecordCall(m),
           \A i \in 1..Len(sent[UserOf[m]]) : sent[UserOf[m]][i] # m,
           \A k \in Msgs : proc'[k] \in BeforeCall => proc[k] \in BeforeCall,
           proc'[m] \notin BeforeCall,
           \A s \in Streams : future'[s] = "result" /\ stream'[s] \in BeforeStream =>
               /\ StreamMsg[s] # m
               /\ future[s] = "result" /\ stream[s] \in BeforeStream
    PROVE  SentInv' /\ AtMostOnce'
<1> USE RequestAssumption DEF TypeOK, ProcessorTypeOK
<1> DEFINE v == UserOf[m]
<1>1. sent' = [sent EXCEPT ![v] = Append(sent[v], m)] /\ v \in Users
  BY DEF RecordCall
<1>2. /\ sent'[v] = Append(sent[v], m) /\ sent[v] \in Seq(Msgs)
      /\ \A u \in Users : u # v => sent'[u] = sent[u]
  BY <1>1
<1>3. /\ Len(sent'[v]) = Len(sent[v]) + 1 /\ sent'[v][Len(sent[v]) + 1] = m
      /\ \A i \in 1..Len(sent[v]) : sent'[v][i] = sent[v][i]
      /\ \A i \in 1..Len(sent'[v]) : i \in 1..Len(sent[v]) \/ i = Len(sent[v]) + 1
  BY <1>2
<1>4. \A u \in Users : \A i \in 1..Len(sent'[u]) :
          \/ i \in 1..Len(sent[u]) /\ sent'[u][i] = sent[u][i]
          \/ u = v /\ sent'[u][i] = m
  BY <1>2, <1>3
<1>5. SentInv'
  <2> SUFFICES ASSUME NEW u \in Users, NEW i \in 1..Len(sent'[u])
               PROVE  /\ UserOf[sent'[u][i]] = u
                      /\ proc'[sent'[u][i]] \notin BeforeCall
                      /\ \A s \in Streams :
                             StreamMsg[s] = sent'[u][i] /\ future'[s] = "result" =>
                                 stream'[s] \notin BeforeStream
    BY DEF SentInv
  <2>1. CASE i \in 1..Len(sent[u]) /\ sent'[u][i] = sent[u][i]
    <3>1. sent[u][i] \in Msgs
      BY <2>1
    <3>2. /\ UserOf[sent[u][i]] = u /\ proc[sent[u][i]] \notin BeforeCall
          /\ \A s \in Streams : StreamMsg[s] = sent[u][i] /\ future[s] = "result" =>
                                   stream[s] \notin BeforeStream
      BY <2>1 DEF SentInv
    <3> QED
      BY <2>1, <3>1, <3>2
  <2>2. CASE u = v /\ sent'[u][i] = m
    BY <2>2
  <2> QED
    BY <1>4, <2>1, <2>2
<1>6. AtMostOnce'
  <2> SUFFICES ASSUME NEW u \in Users, NEW i \in 1..Len(sent'[u]), NEW j \in 1..Len(sent'[u]),
                      sent'[u][i] = sent'[u][j]
               PROVE  i = j
    <3>1. \A u \in Users : DOMAIN sent'[u] = 1..Len(sent'[u])
      BY <1>2
    <3> QED
      BY <3>1 DEF AtMostOnce
  <2>1. \A k, l \in 1..Len(sent[u]) : sent[u][k] = sent[u][l] => k = l
    <3>1. DOMAIN sent[u] = 1..Len(sent[u])
      OBVIOUS
    <3> QED
      BY <3>1 DEF AtMostOnce
  <2>2. CASE u # v
    BY <1>2, <2>1, <2>2
  <2>3. CASE u = v
    <3>1. CASE i \in 1..Len(sent[v]) /\ j \in 1..Len(sent[v])
      BY <1>3, <2>1, <2>3, <3>1
    <3>2. CASE i = Len(sent[v]) + 1
      BY <1>3, <2>3, <3>2
    <3>3. CASE j = Len(sent[v]) + 1
      BY <1>3, <2>3, <3>3
    <3> QED
      BY <1>3, <2>3, <3>1, <3>2, <3>3
  <2> QED
    BY <2>2, <2>3
<1> QED
  BY <1>5, <1>6

\* A handoff: the message has not been called yet.
LEMMA SentHandOff ==
    ASSUME TypeOK, RegistryInv, SentInv, AtMostOnce, NEW m \in Msgs, HandOff(m),
           proc[m] \in BeforeCall, proc' = [proc EXCEPT ![m] = "handed"],
           UNCHANGED <<sent, stream>>
    PROVE  SentInv' /\ AtMostOnce'
<1>1. AtMostOnce'
  BY DEF AtMostOnce
<1>2. \A s \in Streams : future'[s] = "result" /\ future[s] # "result" => StreamMsg[s] = m
  BY RequestAssumption DEF HandOff, RegistryInv, TypeOK, RegistryTypeOK
<1>3. SentInv'
  <2> SUFFICES ASSUME NEW u \in Users, NEW i \in 1..Len(sent[u])
               PROVE  /\ UserOf[sent[u][i]] = u
                      /\ proc'[sent[u][i]] \notin BeforeCall
                      /\ \A s \in Streams :
                             StreamMsg[s] = sent[u][i] /\ future'[s] = "result" =>
                                 stream[s] \notin BeforeStream
    BY DEF SentInv
  <2>1. sent[u][i] \in Msgs
    BY DEF TypeOK, ProcessorTypeOK
  <2>2. /\ UserOf[sent[u][i]] = u /\ proc[sent[u][i]] \notin BeforeCall
        /\ \A s \in Streams : StreamMsg[s] = sent[u][i] /\ future[s] = "result" =>
                                 stream[s] \notin BeforeStream
    BY SentFacts
  <2>3. sent[u][i] # m /\ proc'[sent[u][i]] = proc[sent[u][i]]
    BY <2>1, <2>2 DEF TypeOK, ProcessorTypeOK
  <2> QED
    BY <1>2, <2>1, <2>2, <2>3
<1> QED
  BY <1>1, <1>3

\* Every step preserves OnceInv: no call is made twice.
LEMMA OnceStep == OnceInv /\ [Next]_vars => OnceInv'
<1> SUFFICES ASSUME OnceInv, [Next]_vars
             PROVE  SentInv' /\ AtMostOnce'
  BY BaseStep DEF OnceInv
<1>0. TypeOK /\ QueueInv /\ RegistryInv /\ HandoffInv /\ SentInv /\ AtMostOnce
  BY DEF OnceInv, BaseInv
<1> DEFINE Preserved == SentInv' /\ AtMostOnce'
<1> USE <1>0, RequestAssumption, SentFrame
    DEF TypeOK, QueueTypeOK, RegistryTypeOK, ProcessorTypeOK, StreamTypeOK,
        queueVars, registryVars, processorVars, BeforeCall, BeforeStream

<1>1. ASSUME NEW m \in Msgs, SubmitPush(m) PROVE Preserved
  BY <1>1 DEF SubmitPush, Enqueue
<1>2. ASSUME NEW m \in Msgs, SubmitReply(m) PROVE Preserved
  BY <1>2 DEF SubmitReply, StoreMetadata, Trigger
<1>3. ASSUME NEW m \in Msgs, SubmitRaises(m) PROVE Preserved
  BY <1>3 DEF SubmitRaises
<1>4. ASSUME NEW m \in Msgs, SubmitLosesReply(m) PROVE Preserved
  BY <1>4 DEF SubmitLosesReply, StoreMetadata
<1>5. ASSUME NEW s \in Streams, ClientOpens(s) PROVE Preserved
  BY <1>5 DEF ClientOpens, OpenStream, Advance, Register
<1>6. ASSUME NEW u \in Users, ProcessNone(u), UNCHANGED <<stream, post>> PROVE Preserved
  BY <1>6 DEF ProcessNone, DequeueNone
<1>7. ASSUME NEW u \in Users, NEW m \in Msgs, ProcessDequeue(u, m), UNCHANGED <<stream,
     post>> PROVE Preserved
  <2>1. proc[m] = "none"
    BY <1>7, DequeuedIsNew DEF ProcessDequeue
  <2> QED
    BY <1>7, <2>1 DEF ProcessDequeue
<1>8. ASSUME NEW u \in Users, DequeueRaises(u), UNCHANGED <<stream, post>> PROVE
     Preserved
  BY <1>8 DEF DequeueRaises
<1>9. ASSUME NEW m \in Msgs, StoreStartedAt(m), UNCHANGED <<stream, post>> PROVE
     Preserved
  BY <1>9 DEF StoreStartedAt, Proceed, StoreMetadata
<1>10. ASSUME NEW m \in Msgs, HandOffRegistered(m), UNCHANGED <<stream, post>> PROVE
     Preserved
  <2>1. HandOff(m) /\ proc[m] \in BeforeCall
    BY <1>10 DEF HandOffRegistered, Proceed
  <2> QED
    BY <1>10, <2>1, SentHandOff DEF HandOffRegistered, Proceed
<1>11. ASSUME NEW m \in Msgs, AwaitStream(m), UNCHANGED <<stream, post>> PROVE Preserved
  BY <1>11 DEF AwaitStream, Proceed, ArmEvent
<1>12. ASSUME NEW m \in Msgs, RegistrationArrives(m), UNCHANGED <<stream, post>> PROVE
     Preserved
  <2>1. HandOff(m) /\ proc[m] \in BeforeCall
    BY <1>12 DEF RegistrationArrives, Proceed
  <2> QED
    BY <1>12, <2>1, SentHandOff DEF RegistrationArrives, Proceed
<1>13. ASSUME NEW m \in Msgs, RegistrationGone(m), UNCHANGED <<stream, post>> PROVE
     Preserved
  BY <1>13 DEF RegistrationGone, Proceed, DropEvent
<1>14. ASSUME NEW m \in Msgs, RegistrationTimeout(m), UNCHANGED <<stream, post>> PROVE
     Preserved
  BY <1>14 DEF RegistrationTimeout, Proceed, DropEvent
<1>15. ASSUME NEW m \in Msgs, CallWorker(m), UNCHANGED <<stream, post>> PROVE Preserved
  <2>1. \A i \in 1..Len(sent[UserOf[m]]) : sent[UserOf[m]][i] # m
    <3>1. proc[m] \in BeforeCall /\ UserOf[m] \in Users
      BY <1>15 DEF CallWorker, Proceed
    <3> QED
      BY <3>1 DEF SentInv
  <2>2. \A s \in Streams : StreamMsg[s] = m => future[s] # "result"
    BY <1>15 DEF CallWorker, Proceed, HandoffInv
  <2>3. RecordCall(m) /\ UNCHANGED <<future, stream>> /\ proc' = [proc EXCEPT ![m] =
       "calling"]
    BY <1>15 DEF CallWorker, Proceed
  <2> QED
    BY <2>1, <2>2, <2>3, SentCall
<1>16. ASSUME NEW m \in Msgs, WorkerAnswers(m), UNCHANGED <<stream, post>> PROVE
     Preserved
  BY <1>16 DEF WorkerAnswers, Proceed
<1>17. ASSUME NEW m \in Msgs, WorkerFails(m), UNCHANGED <<stream, post>> PROVE Preserved
  BY <1>17 DEF WorkerFails, Proceed
<1>18. ASSUME NEW m \in Msgs, DeliverCallback(m), UNCHANGED <<stream, post>> PROVE
     Preserved
  BY <1>18 DEF DeliverCallback, Proceed, Deliver
<1>19. ASSUME NEW m \in Msgs, DeliverErrorCallback(m), UNCHANGED <<stream, post>> PROVE
     Preserved
  BY <1>19 DEF DeliverErrorCallback, Proceed, Deliver
<1>20. ASSUME NEW m \in Msgs, Complete(m), UNCHANGED <<stream, post>> PROVE Preserved
  BY <1>20 DEF Complete, Proceed, MarkComplete
<1>21. ASSUME NEW m \in Msgs, ScheduleNext(m), UNCHANGED <<stream, post>> PROVE
     Preserved
  BY <1>21 DEF ScheduleNext, Proceed, Trigger
<1>22. ASSUME NEW m \in Msgs, CommandRaises(m), UNCHANGED <<stream, post>> PROVE
     Preserved
  BY <1>22 DEF CommandRaises
<1>23. ASSUME NEW s \in Streams, LengthPositive(s), UNCHANGED post PROVE Preserved
  BY <1>23 DEF LengthPositive, Advance, Trigger
<1>24. ASSUME NEW s \in Streams, LengthZero(s), UNCHANGED post PROVE Preserved
  BY <1>24 DEF LengthZero, Advance
<1>25. ASSUME NEW s \in Streams, ProcessingFound(s), UNCHANGED post PROVE Preserved
  BY <1>25 DEF ProcessingFound, Advance, Trigger
<1>26. ASSUME NEW s \in Streams, NoWorkFound(s), UNCHANGED post PROVE Preserved
  BY <1>26 DEF NoWorkFound, Advance
<1>27. ASSUME NEW s \in Streams, StartStreaming(s), UNCHANGED post PROVE Preserved
  <2> DEFINE m == StreamMsg[s]
  <2>1. m \in Msgs /\ proc[m] = "handed" /\ stream[s] = "waiting" /\ future[s] =
       "result"
    BY <1>27 DEF StartStreaming, Advance, HandoffInv
  <2>2. \A i \in 1..Len(sent[UserOf[m]]) : sent[UserOf[m]][i] # m
    <3>1. UserOf[m] \in Users /\ stream[s] \in BeforeStream
      BY <2>1
    <3> QED
      BY <2>1, <3>1, SentFacts
  <2>3. RecordCall(m) /\ UNCHANGED <<future, proc>> /\ stream' = [stream EXCEPT ![s] =
       "streaming"]
    BY <1>27 DEF StartStreaming, Advance
  <2>4. \A t \in Streams : future[t] = "result" /\ StreamMsg[t] = m => t = s
    BY <2>1 DEF HandoffInv
  <2> HIDE DEF m
  <2> QED
    BY <2>1, <2>2, <2>3, <2>4, SentCall
<1>28. ASSUME NEW s \in Streams, HandoffTimeout(s), UNCHANGED post PROVE Preserved
  BY <1>28 DEF HandoffTimeout, Advance, CancelFuture
<1>29. ASSUME NEW s \in Streams, FutureCancelled(s), UNCHANGED post PROVE Preserved
  BY <1>29 DEF FutureCancelled, Advance
<1>30. ASSUME NEW s \in Streams, StreamEnds(s), UNCHANGED post PROVE Preserved
  BY <1>30 DEF StreamEnds, Advance
<1>31. ASSUME NEW s \in Streams, StreamUnregisters(s), UNCHANGED post PROVE Preserved
  BY <1>31 DEF StreamUnregisters, Advance, Unregister
<1>32. ASSUME NEW s \in Streams, StreamCompletes(s), UNCHANGED post PROVE Preserved
  BY <1>32 DEF StreamCompletes, Advance, MarkComplete
<1>33. ASSUME NEW s \in Streams, StreamTriggers(s), UNCHANGED post PROVE Preserved
  BY <1>33 DEF StreamTriggers, Advance, Trigger
<1>34. ASSUME NEW s \in Streams, StreamCommandRaises(s), UNCHANGED post PROVE Preserved
  BY <1>34 DEF StreamCommandRaises
<1>35. ASSUME NEW s \in Streams, Disconnect(s), UNCHANGED post PROVE Preserved
  BY <1>35 DEF Disconnect, CancelFuture
<1>36. ASSUME NEW s \in Streams, DisconnectUncaught(s), UNCHANGED post PROVE Preserved
  BY <1>36 DEF DisconnectUncaught
<1>37. ASSUME NEW u \in Users, LockExpires(u) PROVE Preserved
  BY <1>37 DEF LockExpires, ProcessingExpires
<1>38. ASSUME Crash PROVE Preserved
  BY <1>38 DEF Crash, ProcessEnds, RegistryLost, Active, Live
<1>39. CASE UNCHANGED vars
  BY <1>39 DEF vars
<1> QED
  BY <1>1, <1>2, <1>3, <1>4, <1>5, <1>6, <1>7, <1>8, <1>9, <1>10, <1>11, <1>12, <1>13,
       <1>14, <1>15, <1>16, <1>17, <1>18, <1>19, <1>20, <1>21, <1>22, <1>23, <1>24,
       <1>25, <1>26, <1>27, <1>28, <1>29, <1>30, <1>31, <1>32, <1>33, <1>34, <1>35,
       <1>36, <1>37, <1>38, <1>39
     DEF Next, ClientStep, Run, Work, TaskStep, ProcessorStep, WorkerReturns, StreamStep, WorkerStreamEnds,
         TaskFault, ProcessorFault, StreamFault

\* The worker is called at most once for a message, whatever faults happen and
\* however many streams the clients open: LPOP and the handoff give a message
\* to one task or to one handler.
THEOREM CalledAtMostOnce == Spec => []AtMostOnce
<1>1. Init => OnceInv
  BY BaseInit DEF OnceInv, SentInv, AtMostOnce, Init, ProcessorInit
<1>2. OnceInv /\ [Next]_vars => OnceInv'
  BY OnceStep
<1>3. OnceInv => AtMostOnce
  BY DEF OnceInv
<1> QED
  BY <1>1, <1>2, <1>3, PTL DEF Spec

---------------------------------------------------------------------------
(* OneAtATime. *)

\* No lock changes, no task starts its work, no handler's end is undone.
LEMMA TaskFrame ==
    ASSUME TaskHoldsLock, UNCHANGED processing,
           \A m \in Msgs : proc'[m] \in AtWork => proc[m] \in AtWork,
           \A s \in Streams : Ended(s) => Ended(s)'
    PROVE  TaskHoldsLock'
BY DEF TaskHoldsLock, Lock

\* No lock changes and nothing is handed to a handler.
LEMMA HandlerFrame ==
    ASSUME HandlerHoldsLock, UNCHANGED processing,
           \A s \in Streams : HandedTo(s)' => HandedTo(s)
    PROVE  HandlerHoldsLock'
BY DEF HandlerHoldsLock, Lock

\* No call begins.
LEMMA CallsFrame ==
    ASSUME CallsAreCallbacks,
           \A m \in Msgs : proc'[m] = "calling" => proc[m] = "calling"
    PROVE  CallsAreCallbacks'
BY DEF CallsAreCallbacks

\* A lock is set only where there was none: the other locks stay.
LEMMA DequeueKeepsLocks ==
    ASSUME TypeOK, NEW u \in Users, NEW m \in Msgs, Dequeue(u, m), UserOf[m] = u
    PROVE  Lock(m)' /\ \A k \in Msgs : Lock(k) => Lock(k)'
BY RequestAssumption DEF TypeOK, QueueTypeOK, Dequeue, Lock

\* A completion releases the lock of its own message at most.
LEMMA CompletionKeepsLocks ==
    ASSUME TypeOK, NEW m \in Msgs, MarkComplete(m)
    PROVE  \A k \in Msgs : k # m /\ Lock(k) => Lock(k)'
BY RequestAssumption DEF TypeOK, QueueTypeOK, MarkComplete, Lock

\* An expiry releases no lock of a message that is being worked on.
LEMMA ExpiryKeepsLocks ==
    ASSUME TypeOK, OneStreamEach, NEW u \in Users, LockExpires(u)
    PROVE  \A k \in Msgs : Working(k) /\ Lock(k) => Lock(k)'
BY RequestAssumption DEF TypeOK, QueueTypeOK, LockExpires, ProcessingExpires, Lock, OneStreamEach

\* The task that hands a message over still holds the lock for the handler: a
\* handler that gave up before has reached its finally clause.
LEMMA HandOffKeepsLocks ==
    ASSUME TypeOK, RegistryInv, OneStreamEach, TaskHoldsLock, HandlerHoldsLock,
           NEW m \in Msgs, HandOff(m), proc[m] \in AtWork, UNCHANGED <<processing, stream>>
    PROVE  HandlerHoldsLock'
<1> SUFFICES ASSUME NEW s \in Streams, HandedTo(s)' PROVE Lock(StreamMsg[s])'
  BY DEF HandlerHoldsLock
<1>1. CASE HandedTo(s)
  BY <1>1 DEF HandlerHoldsLock, Lock
<1>2. CASE ~HandedTo(s)
  <2>1. registry[m] = s
    BY <1>2, RequestAssumption DEF HandedTo, HandOff, TypeOK, RegistryTypeOK
  <2>2. StreamMsg[s] = m
    BY <2>1 DEF RegistryInv
  <2>3. \A t \in Streams : StreamMsg[t] = m => ~Ended(t)
    BY <2>2 DEF OneStreamEach, HandedTo, Ended
  <2> QED
    BY <2>2, <2>3 DEF TaskHoldsLock, Lock
<1> QED
  BY <1>1, <1>2

\* Every step preserves LockInv.
LEMMA LockStep == OneStreamEach /\ LockInv /\ [Next]_vars => LockInv'
<1> SUFFICES ASSUME OneStreamEach, LockInv, [Next]_vars
             PROVE  TaskHoldsLock' /\ HandlerHoldsLock' /\ CallsAreCallbacks'
  BY BaseStep DEF LockInv
<1>0. /\ TypeOK /\ QueueInv /\ RegistryInv /\ HandoffInv
      /\ TaskHoldsLock /\ HandlerHoldsLock /\ CallsAreCallbacks
  BY DEF LockInv, BaseInv
<1> DEFINE Preserved == TaskHoldsLock' /\ HandlerHoldsLock' /\ CallsAreCallbacks'
<1> USE <1>0, RequestAssumption, TaskFrame, HandlerFrame, CallsFrame
    DEF TypeOK, QueueTypeOK, RegistryTypeOK, ProcessorTypeOK, StreamTypeOK,
        queueVars, registryVars, processorVars, AtWork, HandedTo, Ended

<1>1. ASSUME NEW m \in Msgs, SubmitPush(m) PROVE Preserved
  BY <1>1 DEF SubmitPush, Enqueue
<1>2. ASSUME NEW m \in Msgs, SubmitReply(m) PROVE Preserved
  BY <1>2 DEF SubmitReply, StoreMetadata, Trigger
<1>3. ASSUME NEW m \in Msgs, SubmitRaises(m) PROVE Preserved
  BY <1>3 DEF SubmitRaises
<1>4. ASSUME NEW m \in Msgs, SubmitLosesReply(m) PROVE Preserved
  BY <1>4 DEF SubmitLosesReply, StoreMetadata
<1>5. ASSUME NEW s \in Streams, ClientOpens(s) PROVE Preserved
  BY <1>5 DEF ClientOpens, OpenStream, Advance, Register
<1>6. ASSUME NEW u \in Users, ProcessNone(u), UNCHANGED <<stream, post>> PROVE Preserved
  BY <1>6 DEF ProcessNone, DequeueNone
<1>7. ASSUME NEW u \in Users, NEW m \in Msgs, ProcessDequeue(u, m), UNCHANGED <<stream,
     post>> PROVE Preserved
  <2>1. proc[m] = "none" /\ UserOf[m] = u
    BY <1>7, DequeuedIsNew DEF ProcessDequeue
  <2>2. Lock(m)' /\ \A k \in Msgs : Lock(k) => Lock(k)'
    BY <1>7, <2>1, DequeueKeepsLocks DEF ProcessDequeue
  <2>3. \A k \in Msgs : k # m => proc'[k] = proc[k]
    BY <1>7 DEF ProcessDequeue
  <2>4. UNCHANGED <<future, stream>>
    BY <1>7 DEF ProcessDequeue
  <2>5. TaskHoldsLock'
    <3> SUFFICES ASSUME NEW k \in Msgs, proc'[k] \in AtWork
                 PROVE  Lock(k)' \/ \E s \in Streams : StreamMsg[s] = k /\ Ended(s)'
      BY DEF TaskHoldsLock
    <3>1. CASE k = m
      BY <2>2, <3>1
    <3>2. CASE k # m
      <4>1. proc[k] \in AtWork
        BY <2>3, <3>2
      <4> QED
        BY <2>2, <2>4, <4>1 DEF TaskHoldsLock
    <3> QED
      BY <3>1, <3>2
  <2>6. HandlerHoldsLock'
    BY <2>2, <2>4 DEF HandlerHoldsLock
  <2> QED
    BY <1>7, <2>5, <2>6 DEF ProcessDequeue
<1>8. ASSUME NEW u \in Users, DequeueRaises(u), UNCHANGED <<stream, post>> PROVE
     Preserved
  BY <1>8 DEF DequeueRaises
<1>9. ASSUME NEW m \in Msgs, StoreStartedAt(m), UNCHANGED <<stream, post>> PROVE
     Preserved
  BY <1>9 DEF StoreStartedAt, Proceed, StoreMetadata
<1>10. ASSUME NEW m \in Msgs, HandOffRegistered(m), UNCHANGED <<stream, post>> PROVE
     Preserved
  <2>1. HandOff(m) /\ proc[m] \in AtWork /\ UNCHANGED <<processing, stream>>
    BY <1>10 DEF HandOffRegistered, Proceed
  <2>2. HandlerHoldsLock'
    BY <2>1, HandOffKeepsLocks
  <2> QED
    BY <1>10, <2>2 DEF HandOffRegistered, Proceed
<1>11. ASSUME NEW m \in Msgs, AwaitStream(m), UNCHANGED <<stream, post>> PROVE Preserved
  BY <1>11 DEF AwaitStream, Proceed, ArmEvent
<1>12. ASSUME NEW m \in Msgs, RegistrationArrives(m), UNCHANGED <<stream, post>> PROVE
     Preserved
  <2>1. HandOff(m) /\ proc[m] \in AtWork /\ UNCHANGED <<processing, stream>>
    BY <1>12 DEF RegistrationArrives, Proceed
  <2>2. HandlerHoldsLock'
    BY <2>1, HandOffKeepsLocks
  <2> QED
    BY <1>12, <2>2 DEF RegistrationArrives, Proceed
<1>13. ASSUME NEW m \in Msgs, RegistrationGone(m), UNCHANGED <<stream, post>> PROVE
     Preserved
  BY <1>13 DEF RegistrationGone, Proceed, DropEvent
<1>14. ASSUME NEW m \in Msgs, RegistrationTimeout(m), UNCHANGED <<stream, post>> PROVE
     Preserved
  BY <1>14 DEF RegistrationTimeout, Proceed, DropEvent
<1>15. ASSUME NEW m \in Msgs, CallWorker(m), UNCHANGED <<stream, post>> PROVE Preserved
  <2>1. CallsAreCallbacks'
    BY <1>15 DEF CallWorker, Proceed, CallsAreCallbacks
  <2> QED
    BY <1>15, <2>1 DEF CallWorker, Proceed, RecordCall
<1>16. ASSUME NEW m \in Msgs, WorkerAnswers(m), UNCHANGED <<stream, post>> PROVE
     Preserved
  BY <1>16 DEF WorkerAnswers, Proceed
<1>17. ASSUME NEW m \in Msgs, WorkerFails(m), UNCHANGED <<stream, post>> PROVE Preserved
  BY <1>17 DEF WorkerFails, Proceed
<1>18. ASSUME NEW m \in Msgs, DeliverCallback(m), UNCHANGED <<stream, post>> PROVE
     Preserved
  BY <1>18 DEF DeliverCallback, Proceed, Deliver
<1>19. ASSUME NEW m \in Msgs, DeliverErrorCallback(m), UNCHANGED <<stream, post>> PROVE
     Preserved
  BY <1>19 DEF DeliverErrorCallback, Proceed, Deliver
<1>20. ASSUME NEW m \in Msgs, Complete(m), UNCHANGED <<stream, post>> PROVE Preserved
  <2>1. \A k \in Msgs : k # m /\ Lock(k) => Lock(k)'
    BY <1>20, CompletionKeepsLocks DEF Complete
  <2>2. proc[m] = "completing" /\ proc' = [proc EXCEPT ![m] = "scheduling"]
    BY <1>20 DEF Complete, Proceed
  <2>3. UNCHANGED <<future, stream>>
    BY <1>20 DEF Complete
  <2>4. TaskHoldsLock'
    BY <2>1, <2>2, <2>3 DEF TaskHoldsLock
  <2>5. HandlerHoldsLock'
    BY <2>1, <2>2, <2>3 DEF HandlerHoldsLock, HandoffInv
  <2> QED
    BY <2>2, <2>4, <2>5
<1>21. ASSUME NEW m \in Msgs, ScheduleNext(m), UNCHANGED <<stream, post>> PROVE
     Preserved
  BY <1>21 DEF ScheduleNext, Proceed, Trigger
<1>22. ASSUME NEW m \in Msgs, CommandRaises(m), UNCHANGED <<stream, post>> PROVE
     Preserved
  BY <1>22 DEF CommandRaises
<1>23. ASSUME NEW s \in Streams, LengthPositive(s), UNCHANGED post PROVE Preserved
  BY <1>23 DEF LengthPositive, Advance, Trigger
<1>24. ASSUME NEW s \in Streams, LengthZero(s), UNCHANGED post PROVE Preserved
  BY <1>24 DEF LengthZero, Advance
<1>25. ASSUME NEW s \in Streams, ProcessingFound(s), UNCHANGED post PROVE Preserved
  BY <1>25 DEF ProcessingFound, Advance, Trigger
<1>26. ASSUME NEW s \in Streams, NoWorkFound(s), UNCHANGED post PROVE Preserved
  BY <1>26 DEF NoWorkFound, Advance
<1>27. ASSUME NEW s \in Streams, StartStreaming(s), UNCHANGED post PROVE Preserved
  BY <1>27 DEF StartStreaming, Advance, RecordCall
<1>28. ASSUME NEW s \in Streams, HandoffTimeout(s), UNCHANGED post PROVE Preserved
  BY <1>28 DEF HandoffTimeout, Advance, CancelFuture
<1>29. ASSUME NEW s \in Streams, FutureCancelled(s), UNCHANGED post PROVE Preserved
  BY <1>29 DEF FutureCancelled, Advance
<1>30. ASSUME NEW s \in Streams, StreamEnds(s), UNCHANGED post PROVE Preserved
  BY <1>30 DEF StreamEnds, Advance
<1>31. ASSUME NEW s \in Streams, StreamUnregisters(s), UNCHANGED post PROVE Preserved
  BY <1>31 DEF StreamUnregisters, Advance, Unregister
<1>32. ASSUME NEW s \in Streams, StreamCompletes(s), UNCHANGED post PROVE Preserved
  <2>1. \A k \in Msgs : k # StreamMsg[s] /\ Lock(k) => Lock(k)'
    BY <1>32, CompletionKeepsLocks DEF StreamCompletes
  <2>2. stream[s] = "completing" /\ stream' = [stream EXCEPT ![s] = "triggering"]
    BY <1>32 DEF StreamCompletes, Advance
  <2>3. UNCHANGED <<future, proc>>
    BY <1>32 DEF StreamCompletes
  <2>4. TaskHoldsLock'
    BY <2>1, <2>2, <2>3 DEF TaskHoldsLock
  <2>5. HandlerHoldsLock'
    BY <2>1, <2>2, <2>3 DEF HandlerHoldsLock, OneStreamEach
  <2> QED
    BY <2>3, <2>4, <2>5
<1>33. ASSUME NEW s \in Streams, StreamTriggers(s), UNCHANGED post PROVE Preserved
  BY <1>33 DEF StreamTriggers, Advance, Trigger
<1>34. ASSUME NEW s \in Streams, StreamCommandRaises(s), UNCHANGED post PROVE Preserved
  BY <1>34 DEF StreamCommandRaises
<1>35. ASSUME NEW s \in Streams, Disconnect(s), UNCHANGED post PROVE Preserved
  BY <1>35 DEF Disconnect, CancelFuture
<1>36. ASSUME NEW s \in Streams, DisconnectUncaught(s), UNCHANGED post PROVE Preserved
  BY <1>36 DEF DisconnectUncaught
<1>37. ASSUME NEW u \in Users, LockExpires(u) PROVE Preserved
  <2>1. \A k \in Msgs : Working(k) /\ Lock(k) => Lock(k)'
    BY <1>37, ExpiryKeepsLocks
  <2>2. UNCHANGED <<future, stream, proc>>
    BY <1>37 DEF LockExpires
  <2>3. TaskHoldsLock'
    BY <2>1, <2>2 DEF TaskHoldsLock, Working
  <2>4. HandlerHoldsLock'
    BY <2>1, <2>2 DEF HandlerHoldsLock, Working
  <2> QED
    BY <2>2, <2>3, <2>4
<1>38. ASSUME Crash PROVE Preserved
  BY <1>38 DEF Crash, ProcessEnds, RegistryLost, Active, Live
<1>39. CASE UNCHANGED vars
  BY <1>39 DEF vars
<1> QED
  BY <1>1, <1>2, <1>3, <1>4, <1>5, <1>6, <1>7, <1>8, <1>9, <1>10, <1>11, <1>12, <1>13,
       <1>14, <1>15, <1>16, <1>17, <1>18, <1>19, <1>20, <1>21, <1>22, <1>23, <1>24,
       <1>25, <1>26, <1>27, <1>28, <1>29, <1>30, <1>31, <1>32, <1>33, <1>34, <1>35,
       <1>36, <1>37, <1>38, <1>39
     DEF Next, ClientStep, Run, Work, TaskStep, ProcessorStep, WorkerReturns, StreamStep, WorkerStreamEnds,
         TaskFault, ProcessorFault, StreamFault

\* Two calls of one user would need the lock for two messages, or be a
\* background call and a stream of one message.
LEMMA LockInvExcludes == OneStreamEach /\ LockInv => OneAtATime
<1> SUFFICES ASSUME OneStreamEach, LockInv,
                    NEW u \in Users, NEW a \in InFlight(u), NEW b \in InFlight(u)
             PROVE  a = b
  BY DEF OneAtATime
<1>1. \A m \in Msgs : proc[m] = "calling" => m \in CallbackMsgs /\ Lock(m)
  BY DEF LockInv, TaskHoldsLock, CallsAreCallbacks, AtWork, OneStreamEach
<1>2. \A s \in Streams : stream[s] = "streaming" => Lock(StreamMsg[s])
  BY DEF LockInv, BaseInv, HandoffInv, HandlerHoldsLock, HandedTo
<1> QED
  BY <1>1, <1>2 DEF InFlight, Lock, OneStreamEach

\* The worker has at most one call of a user at a time, with Redis errors,
\* disconnects and crashes at any point, if the lock outlasts the work and the
\* clients open one stream for each SSE message and none for the others.
THEOREM OneCallAtATime == ASSUME OneStreamEach PROVE Spec => []OneAtATime
<1>1. Init => LockInv
  BY BaseInit DEF LockInv, TaskHoldsLock, HandlerHoldsLock, CallsAreCallbacks, AtWork,
                  HandedTo, Init, ProcessorInit, RegistryInit
<1>2. LockInv /\ [Next]_vars => LockInv'
  BY OneStreamEach, LockStep
<1>3. LockInv => OneAtATime
  BY OneStreamEach, LockInvExcludes
<1> QED
  BY <1>1, <1>2, <1>3, PTL DEF Spec

---------------------------------------------------------------------------
(* LockReleasedByOwner. *)

\* A completion releases the lock only if the lock names its message.
LEMMA CompletionReleases ==
    ASSUME TypeOK, NEW m \in Msgs, MarkComplete(m),
           NEW u \in Users, processing'[u] # processing[u]
    PROVE  processing[u] = m
BY RequestAssumption DEF TypeOK, QueueTypeOK, MarkComplete

\* A step that frees or replaces the lock of u is a step of its owner.
LEMMA ReleaseStep ==
    ASSUME "early_expiry" \notin Faults, TypeOK, [Next]_vars,
           NEW u \in Users, processing[u] # NoMsg, processing'[u] # processing[u]
    PROVE  ReleasedByOwner(u)
<1> USE RequestAssumption
    DEF TypeOK, QueueTypeOK, RegistryTypeOK, ProcessorTypeOK, StreamTypeOK,
        queueVars, registryVars, processorVars

<1>1. ASSUME NEW m \in Msgs, SubmitPush(m) PROVE ReleasedByOwner(u)
  BY <1>1 DEF SubmitPush, Enqueue
<1>2. ASSUME NEW m \in Msgs, SubmitReply(m) PROVE ReleasedByOwner(u)
  BY <1>2 DEF SubmitReply, StoreMetadata, Trigger
<1>3. ASSUME NEW m \in Msgs, SubmitRaises(m) PROVE ReleasedByOwner(u)
  BY <1>3 DEF SubmitRaises
<1>4. ASSUME NEW m \in Msgs, SubmitLosesReply(m) PROVE ReleasedByOwner(u)
  BY <1>4 DEF SubmitLosesReply, StoreMetadata
<1>5. ASSUME NEW s \in Streams, ClientOpens(s) PROVE ReleasedByOwner(u)
  BY <1>5 DEF ClientOpens, OpenStream, Advance, Register
<1>6. ASSUME NEW v \in Users, ProcessNone(v), UNCHANGED <<stream, post>> PROVE
     ReleasedByOwner(u)
  BY <1>6 DEF ProcessNone, DequeueNone
<1>7. ASSUME NEW v \in Users, NEW m \in Msgs, ProcessDequeue(v, m), UNCHANGED <<stream,
     post>> PROVE ReleasedByOwner(u)
  BY <1>7 DEF ProcessDequeue, Dequeue
<1>8. ASSUME NEW v \in Users, DequeueRaises(v), UNCHANGED <<stream, post>> PROVE
     ReleasedByOwner(u)
  BY <1>8 DEF DequeueRaises
<1>9. ASSUME NEW m \in Msgs, StoreStartedAt(m), UNCHANGED <<stream, post>> PROVE
     ReleasedByOwner(u)
  BY <1>9 DEF StoreStartedAt, Proceed, StoreMetadata
<1>10. ASSUME NEW m \in Msgs, HandOffRegistered(m), UNCHANGED <<stream, post>> PROVE
     ReleasedByOwner(u)
  BY <1>10 DEF HandOffRegistered, Proceed, IsRegistered, HandOff
<1>11. ASSUME NEW m \in Msgs, AwaitStream(m), UNCHANGED <<stream, post>> PROVE
     ReleasedByOwner(u)
  BY <1>11 DEF AwaitStream, Proceed, ArmEvent
<1>12. ASSUME NEW m \in Msgs, RegistrationArrives(m), UNCHANGED <<stream, post>> PROVE
     ReleasedByOwner(u)
  BY <1>12 DEF RegistrationArrives, Proceed, IsRegistered, DropEvent, HandOff
<1>13. ASSUME NEW m \in Msgs, RegistrationGone(m), UNCHANGED <<stream, post>> PROVE
     ReleasedByOwner(u)
  BY <1>13 DEF RegistrationGone, Proceed, DropEvent
<1>14. ASSUME NEW m \in Msgs, RegistrationTimeout(m), UNCHANGED <<stream, post>> PROVE
     ReleasedByOwner(u)
  BY <1>14 DEF RegistrationTimeout, Proceed, DropEvent
<1>15. ASSUME NEW m \in Msgs, CallWorker(m), UNCHANGED <<stream, post>> PROVE
     ReleasedByOwner(u)
  BY <1>15 DEF CallWorker, Proceed, RecordCall
<1>16. ASSUME NEW m \in Msgs, WorkerAnswers(m), UNCHANGED <<stream, post>> PROVE
     ReleasedByOwner(u)
  BY <1>16 DEF WorkerAnswers, Proceed
<1>17. ASSUME NEW m \in Msgs, WorkerFails(m), UNCHANGED <<stream, post>> PROVE
     ReleasedByOwner(u)
  BY <1>17 DEF WorkerFails, Proceed
<1>18. ASSUME NEW m \in Msgs, DeliverCallback(m), UNCHANGED <<stream, post>> PROVE
     ReleasedByOwner(u)
  BY <1>18 DEF DeliverCallback, Proceed, Deliver
<1>19. ASSUME NEW m \in Msgs, DeliverErrorCallback(m), UNCHANGED <<stream, post>> PROVE
     ReleasedByOwner(u)
  BY <1>19 DEF DeliverErrorCallback, Proceed, Deliver
<1>20. ASSUME NEW m \in Msgs, Complete(m), UNCHANGED <<stream, post>> PROVE
     ReleasedByOwner(u)
  <2>1. processing[u] = m
    BY <1>20, CompletionReleases DEF Complete
  <2> QED
    BY <1>20, <2>1 DEF Complete, Proceed, ReleasedByOwner
<1>21. ASSUME NEW m \in Msgs, ScheduleNext(m), UNCHANGED <<stream, post>> PROVE
     ReleasedByOwner(u)
  BY <1>21 DEF ScheduleNext, Proceed, Trigger
<1>22. ASSUME NEW m \in Msgs, CommandRaises(m), UNCHANGED <<stream, post>> PROVE
     ReleasedByOwner(u)
  BY <1>22 DEF CommandRaises
<1>23. ASSUME NEW s \in Streams, LengthPositive(s), UNCHANGED post PROVE
     ReleasedByOwner(u)
  BY <1>23 DEF LengthPositive, Advance, Trigger
<1>24. ASSUME NEW s \in Streams, LengthZero(s), UNCHANGED post PROVE ReleasedByOwner(u)
  BY <1>24 DEF LengthZero, Advance
<1>25. ASSUME NEW s \in Streams, ProcessingFound(s), UNCHANGED post PROVE
     ReleasedByOwner(u)
  BY <1>25 DEF ProcessingFound, Advance, Trigger
<1>26. ASSUME NEW s \in Streams, NoWorkFound(s), UNCHANGED post PROVE ReleasedByOwner(u)
  BY <1>26 DEF NoWorkFound, Advance
<1>27. ASSUME NEW s \in Streams, StartStreaming(s), UNCHANGED post PROVE
     ReleasedByOwner(u)
  BY <1>27 DEF StartStreaming, Advance, RecordCall
<1>28. ASSUME NEW s \in Streams, HandoffTimeout(s), UNCHANGED post PROVE
     ReleasedByOwner(u)
  BY <1>28 DEF HandoffTimeout, Advance, CancelFuture
<1>29. ASSUME NEW s \in Streams, FutureCancelled(s), UNCHANGED post PROVE
     ReleasedByOwner(u)
  BY <1>29 DEF FutureCancelled, Advance
<1>30. ASSUME NEW s \in Streams, StreamEnds(s), UNCHANGED post PROVE ReleasedByOwner(u)
  BY <1>30 DEF StreamEnds, Advance
<1>31. ASSUME NEW s \in Streams, StreamUnregisters(s), UNCHANGED post PROVE
     ReleasedByOwner(u)
  BY <1>31 DEF StreamUnregisters, Advance, Unregister
<1>32. ASSUME NEW s \in Streams, StreamCompletes(s), UNCHANGED post PROVE
     ReleasedByOwner(u)
  <2>1. processing[u] = StreamMsg[s]
    BY <1>32, CompletionReleases DEF StreamCompletes
  <2> QED
    BY <1>32, <2>1 DEF StreamCompletes, Advance, ReleasedByOwner
<1>33. ASSUME NEW s \in Streams, StreamTriggers(s), UNCHANGED post PROVE
     ReleasedByOwner(u)
  BY <1>33 DEF StreamTriggers, Advance, Trigger
<1>34. ASSUME NEW s \in Streams, StreamCommandRaises(s), UNCHANGED post PROVE
     ReleasedByOwner(u)
  BY <1>34 DEF StreamCommandRaises
<1>35. ASSUME NEW s \in Streams, Disconnect(s), UNCHANGED post PROVE ReleasedByOwner(u)
  BY <1>35 DEF Disconnect, CancelFuture
<1>36. ASSUME NEW s \in Streams, DisconnectUncaught(s), UNCHANGED post PROVE
     ReleasedByOwner(u)
  BY <1>36 DEF DisconnectUncaught
<1>37. ASSUME NEW v \in Users, LockExpires(v) PROVE ReleasedByOwner(u)
  BY <1>37 DEF LockExpires, ProcessingExpires, ReleasedByOwner
<1>38. ASSUME Crash PROVE ReleasedByOwner(u)
  BY <1>38 DEF Crash, ProcessEnds, RegistryLost
<1>39. CASE UNCHANGED vars
  BY <1>39 DEF vars
<1> QED
  BY <1>1, <1>2, <1>3, <1>4, <1>5, <1>6, <1>7, <1>8, <1>9, <1>10, <1>11, <1>12, <1>13,
       <1>14, <1>15, <1>16, <1>17, <1>18, <1>19, <1>20, <1>21, <1>22, <1>23, <1>24,
       <1>25, <1>26, <1>27, <1>28, <1>29, <1>30, <1>31, <1>32, <1>33, <1>34, <1>35,
       <1>36, <1>37, <1>38, <1>39
     DEF Next, ClientStep, Run, Work, TaskStep, ProcessorStep, WorkerReturns, StreamStep, WorkerStreamEnds,
         TaskFault, ProcessorFault, StreamFault

\* A lock that outlasts the work is released only by who holds it: the
\* compare-and-delete of MARK_COMPLETE_SCRIPT makes stale completions harmless.
THEOREM LockOnlyReleasedByOwner ==
    ASSUME "early_expiry" \notin Faults PROVE Spec => LockReleasedByOwner
<1> DEFINE Released ==
      \A u \in Users :
        processing[u] # NoMsg /\ processing'[u] # processing[u] => ReleasedByOwner(u)
<1>1. TypeOK /\ [Next]_vars => [Released]_vars
  BY ReleaseStep
<1>2. Spec => []TypeOK
  BY TypeCorrect
<1>3. Spec => [][Next]_vars
  BY PTL DEF Spec
<1>4. Spec => [][Released]_vars
  BY <1>1, <1>2, <1>3, PTL
<1> QED
  BY <1>4 DEF LockReleasedByOwner

===========================================================================
