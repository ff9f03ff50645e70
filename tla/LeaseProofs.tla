---------------------------- MODULE LeaseProofs ----------------------------
(***************************************************************************)
(* If the lease is long (LeaseIsLong) for the times the work takes, any    *)
(* times, it covers the work: LeaseCoversWork is an invariant of LeaseSpec,*)
(* the broker with clocks takes only steps of Broker without expiry under  *)
(* the work, and it keeps what Broker promises, from a start on whatever a *)
(* crash has left in Redis.  No message is discarded while its stream has  *)
(* been registered for a while (DiscardOnlyIfLate), for leases of any      *)
(* length.                                                                 *)
(***************************************************************************)
EXTENDS FifoProofs, RecordProofs, Lease, FiniteSetTheorems, SequenceTheorems

\* Where a task can go in one step, ...
TaskMoves ==
    \A m \in Msgs :
        \/ proc'[m] = proc[m]
        \/ proc[m] = "none" /\ proc'[m] = "dequeued" /\ processing[UserOf[m]] = NoMsg
        \/ proc[m] = "dequeued" /\ proc'[m] = "dispatch"
        \/ proc[m] = "dispatch" /\ proc'[m] \in {"waiting", "calling"}
        \/ proc[m] = "calling" /\ proc'[m] \in {"replying", "replyingError"}
        \/ proc[m] \in {"waiting", "replying", "replyingError"} /\ proc'[m] = "completing"
        \/ proc'[m] \in {"handed", "scheduling", "done", "dead"}

\* ... how a lock is set, ...
LockMoves ==
    \A u \in Users :
        \/ processing'[u] \in {processing[u], NoMsg}
        \/ /\ processing[u] = NoMsg /\ proc'[processing'[u]] = "dequeued"
           /\ UserOf[processing'[u]] = u

\* ... and how a handler gets or keeps its message.
StreamMoves ==
    \A s \in Streams : HandedTo(s)' =>
        \/ /\ HandedTo(s)
           /\ \/ stream'[s] = stream[s]
              \/ stream[s] # "streaming" /\ stream'[s] # "streaming"
              \/ stream[s] = "waiting" /\ stream'[s] = "streaming"
        \/ /\ proc[StreamMsg[s]] \in {"dispatch", "waiting"}
           /\ stream'[s] = stream[s] /\ stream[s] # "streaming"
           /\ UNCHANGED processing

Moves == TaskMoves /\ LockMoves /\ StreamMoves

\* A handoff gives the message to a handler of a stream for it.
LEMMA HandOffMoves ==
    ASSUME TypeOK, RegistryInv, HandoffInv, NEW m \in Msgs, HandOff(m),
           proc[m] \in {"dispatch", "waiting"}, UNCHANGED <<stream, processing>>
    PROVE  StreamMoves
<1> SUFFICES ASSUME NEW s \in Streams, HandedTo(s)', ~HandedTo(s)
             PROVE  /\ proc[StreamMsg[s]] \in {"dispatch", "waiting"}
                    /\ stream'[s] = stream[s] /\ stream[s] # "streaming"
                    /\ UNCHANGED processing
  BY DEF StreamMoves
<1>1. future'[s] = "result" /\ future[s] # "result"
  BY DEF HandedTo
<1>2. registry[m] = s
  BY <1>1, RequestAssumption DEF HandOff, TypeOK, RegistryTypeOK
<1>3. StreamMsg[s] = m
  BY <1>2 DEF RegistryInv
<1> QED
  BY <1>1, <1>3 DEF HandoffInv

\* Every step of the broker is such a move.
LEMMA StepMoves == BaseInv /\ [Next]_vars => Moves
<1> SUFFICES ASSUME BaseInv, [Next]_vars PROVE Moves
  OBVIOUS
<1>0. TypeOK /\ QueueInv /\ RegistryInv /\ HandoffInv
  BY DEF BaseInv
<1> USE <1>0, RequestAssumption
    DEF TypeOK, QueueTypeOK, RegistryTypeOK, ProcessorTypeOK, StreamTypeOK,
        queueVars, registryVars, processorVars
<1>a. ASSUME \A s \in Streams : HandedTo(s)' => HandedTo(s) /\ stream'[s] = stream[s]
      PROVE  StreamMoves
  BY <1>a DEF StreamMoves

<1>1. ASSUME NEW m \in Msgs, SubmitPush(m) PROVE Moves
  <2>1. TaskMoves /\ LockMoves
    BY <1>1 DEF TaskMoves, LockMoves, SubmitPush, Enqueue
  <2>2. StreamMoves
    BY <1>1, <1>a DEF HandedTo, SubmitPush, Enqueue
  <2> QED
    BY <2>1, <2>2 DEF Moves
<1>2. ASSUME NEW m \in Msgs, SubmitReply(m) PROVE Moves
  <2>1. TaskMoves /\ LockMoves
    BY <1>2 DEF TaskMoves, LockMoves, SubmitReply, StoreMetadata, Trigger
  <2>2. StreamMoves
    BY <1>2, <1>a DEF HandedTo, SubmitReply, StoreMetadata, Trigger
  <2> QED
    BY <2>1, <2>2 DEF Moves
<1>3. ASSUME NEW m \in Msgs, SubmitRaises(m) PROVE Moves
  <2>1. TaskMoves /\ LockMoves
    BY <1>3 DEF TaskMoves, LockMoves, SubmitRaises
  <2>2. StreamMoves
    BY <1>3, <1>a DEF HandedTo, SubmitRaises
  <2> QED
    BY <2>1, <2>2 DEF Moves
<1>4. ASSUME NEW m \in Msgs, SubmitLosesReply(m) PROVE Moves
  <2>1. TaskMoves /\ LockMoves
    BY <1>4 DEF TaskMoves, LockMoves, SubmitLosesReply, StoreMetadata
  <2>2. StreamMoves
    BY <1>4, <1>a DEF HandedTo, SubmitLosesReply, StoreMetadata
  <2> QED
    BY <2>1, <2>2 DEF Moves
<1>5. ASSUME NEW s \in Streams, ClientOpens(s) PROVE Moves
  <2>1. TaskMoves /\ LockMoves
    BY <1>5 DEF TaskMoves, LockMoves, ClientOpens, OpenStream, Advance, Register
  <2>2. StreamMoves
    BY <1>5, <1>a DEF HandedTo, ClientOpens, OpenStream, Advance, Register
  <2> QED
    BY <2>1, <2>2 DEF Moves
<1>6. ASSUME NEW u \in Users, ProcessNone(u), UNCHANGED <<stream, post>> PROVE Moves
  <2>1. TaskMoves /\ LockMoves
    BY <1>6 DEF TaskMoves, LockMoves, ProcessNone, DequeueNone
  <2>2. StreamMoves
    BY <1>6, <1>a DEF HandedTo, ProcessNone, DequeueNone
  <2> QED
    BY <2>1, <2>2 DEF Moves
<1>7. ASSUME NEW u \in Users, NEW m \in Msgs, ProcessDequeue(u, m), UNCHANGED <<stream,
     post>> PROVE Moves
  <2>0. proc[m] = "none" /\ UserOf[m] = u
    BY <1>7, DequeuedIsNew DEF ProcessDequeue
  <2>1. TaskMoves /\ LockMoves
    BY <1>7, <2>0 DEF TaskMoves, LockMoves, ProcessDequeue, Dequeue
  <2>2. StreamMoves
    BY <1>7, <1>a DEF HandedTo, ProcessDequeue, Dequeue
  <2> QED
    BY <2>1, <2>2 DEF Moves
<1>8. ASSUME NEW u \in Users, DequeueRaises(u), UNCHANGED <<stream, post>> PROVE Moves
  <2>1. TaskMoves /\ LockMoves
    BY <1>8 DEF TaskMoves, LockMoves, DequeueRaises
  <2>2. StreamMoves
    BY <1>8, <1>a DEF HandedTo, DequeueRaises
  <2> QED
    BY <2>1, <2>2 DEF Moves
<1>9. ASSUME NEW m \in Msgs, StoreStartedAt(m), UNCHANGED <<stream, post>> PROVE Moves
  <2>1. TaskMoves /\ LockMoves
    BY <1>9 DEF TaskMoves, LockMoves, StoreStartedAt, Proceed, StoreMetadata
  <2>2. StreamMoves
    BY <1>9, <1>a DEF HandedTo, StoreStartedAt, Proceed, StoreMetadata
  <2> QED
    BY <2>1, <2>2 DEF Moves
<1>10. ASSUME NEW m \in Msgs, HandOffRegistered(m), UNCHANGED <<stream, post>> PROVE Moves
  <2>1. TaskMoves /\ LockMoves
    BY <1>10 DEF TaskMoves, LockMoves, HandOffRegistered, Proceed
  <2>2. StreamMoves
    BY <1>10, HandOffMoves DEF HandOffRegistered, Proceed
  <2> QED
    BY <2>1, <2>2 DEF Moves
<1>11. ASSUME NEW m \in Msgs, AwaitStream(m), UNCHANGED <<stream, post>> PROVE Moves
  <2>1. TaskMoves /\ LockMoves
    BY <1>11 DEF TaskMoves, LockMoves, AwaitStream, Proceed, ArmEvent
  <2>2. StreamMoves
    BY <1>11, <1>a DEF HandedTo, AwaitStream, Proceed, ArmEvent
  <2> QED
    BY <2>1, <2>2 DEF Moves
<1>12. ASSUME NEW m \in Msgs, RegistrationArrives(m), UNCHANGED <<stream, post>> PROVE
     Moves
  <2>1. TaskMoves /\ LockMoves
    BY <1>12 DEF TaskMoves, LockMoves, RegistrationArrives, Proceed
  <2>2. StreamMoves
    BY <1>12, HandOffMoves DEF RegistrationArrives, Proceed
  <2> QED
    BY <2>1, <2>2 DEF Moves
<1>13. ASSUME NEW m \in Msgs, RegistrationGone(m), UNCHANGED <<stream, post>> PROVE Moves
  <2>1. TaskMoves /\ LockMoves
    BY <1>13 DEF TaskMoves, LockMoves, RegistrationGone, Proceed, DropEvent
  <2>2. StreamMoves
    BY <1>13, <1>a DEF HandedTo, RegistrationGone, Proceed, DropEvent
  <2> QED
    BY <2>1, <2>2 DEF Moves
<1>14. ASSUME NEW m \in Msgs, RegistrationTimeout(m), UNCHANGED <<stream, post>> PROVE
     Moves
  <2>1. TaskMoves /\ LockMoves
    BY <1>14 DEF TaskMoves, LockMoves, RegistrationTimeout, Proceed, DropEvent
  <2>2. StreamMoves
    BY <1>14, <1>a DEF HandedTo, RegistrationTimeout, Proceed, DropEvent
  <2> QED
    BY <2>1, <2>2 DEF Moves
<1>15. ASSUME NEW m \in Msgs, CallWorker(m), UNCHANGED <<stream, post>> PROVE Moves
  <2>1. TaskMoves /\ LockMoves
    BY <1>15 DEF TaskMoves, LockMoves, CallWorker, Proceed, RecordCall
  <2>2. StreamMoves
    BY <1>15, <1>a DEF HandedTo, CallWorker, Proceed, RecordCall
  <2> QED
    BY <2>1, <2>2 DEF Moves
<1>16. ASSUME NEW m \in Msgs, WorkerAnswers(m), UNCHANGED <<stream, post>> PROVE Moves
  <2>1. TaskMoves /\ LockMoves
    BY <1>16 DEF TaskMoves, LockMoves, WorkerAnswers, Proceed
  <2>2. StreamMoves
    BY <1>16, <1>a DEF HandedTo, WorkerAnswers, Proceed
  <2> QED
    BY <2>1, <2>2 DEF Moves
<1>17. ASSUME NEW m \in Msgs, WorkerFails(m), UNCHANGED <<stream, post>> PROVE Moves
  <2>1. TaskMoves /\ LockMoves
    BY <1>17 DEF TaskMoves, LockMoves, WorkerFails, Proceed
  <2>2. StreamMoves
    BY <1>17, <1>a DEF HandedTo, WorkerFails, Proceed
  <2> QED
    BY <2>1, <2>2 DEF Moves
<1>18. ASSUME NEW m \in Msgs, DeliverCallback(m), UNCHANGED <<stream, post>> PROVE Moves
  <2>1. TaskMoves /\ LockMoves
    BY <1>18 DEF TaskMoves, LockMoves, DeliverCallback, Proceed, Deliver
  <2>2. StreamMoves
    BY <1>18, <1>a DEF HandedTo, DeliverCallback, Proceed, Deliver
  <2> QED
    BY <2>1, <2>2 DEF Moves
<1>19. ASSUME NEW m \in Msgs, DeliverErrorCallback(m), UNCHANGED <<stream, post>> PROVE
     Moves
  <2>1. TaskMoves /\ LockMoves
    BY <1>19 DEF TaskMoves, LockMoves, DeliverErrorCallback, Proceed, Deliver
  <2>2. StreamMoves
    BY <1>19, <1>a DEF HandedTo, DeliverErrorCallback, Proceed, Deliver
  <2> QED
    BY <2>1, <2>2 DEF Moves
<1>20. ASSUME NEW m \in Msgs, Complete(m), UNCHANGED <<stream, post>> PROVE Moves
  <2>1. TaskMoves /\ LockMoves
    BY <1>20 DEF TaskMoves, LockMoves, Complete, Proceed, MarkComplete
  <2>2. StreamMoves
    BY <1>20, <1>a DEF HandedTo, Complete, Proceed, MarkComplete
  <2> QED
    BY <2>1, <2>2 DEF Moves
<1>21. ASSUME NEW m \in Msgs, ScheduleNext(m), UNCHANGED <<stream, post>> PROVE Moves
  <2>1. TaskMoves /\ LockMoves
    BY <1>21 DEF TaskMoves, LockMoves, ScheduleNext, Proceed, Trigger
  <2>2. StreamMoves
    BY <1>21, <1>a DEF HandedTo, ScheduleNext, Proceed, Trigger
  <2> QED
    BY <2>1, <2>2 DEF Moves
<1>22. ASSUME NEW m \in Msgs, CommandRaises(m), UNCHANGED <<stream, post>> PROVE Moves
  <2>1. TaskMoves /\ LockMoves
    BY <1>22 DEF TaskMoves, LockMoves, CommandRaises
  <2>2. StreamMoves
    BY <1>22, <1>a DEF HandedTo, CommandRaises
  <2> QED
    BY <2>1, <2>2 DEF Moves
<1>23. ASSUME NEW s \in Streams, LengthPositive(s), UNCHANGED post PROVE Moves
  <2>1. TaskMoves /\ LockMoves
    BY <1>23 DEF TaskMoves, LockMoves, LengthPositive, Advance, Trigger
  <2>2. StreamMoves
    BY <1>23 DEF StreamMoves, HandedTo, LengthPositive, Advance, Trigger
  <2> QED
    BY <2>1, <2>2 DEF Moves
<1>24. ASSUME NEW s \in Streams, LengthZero(s), UNCHANGED post PROVE Moves
  <2>1. TaskMoves /\ LockMoves
    BY <1>24 DEF TaskMoves, LockMoves, LengthZero, Advance
  <2>2. StreamMoves
    BY <1>24 DEF StreamMoves, HandedTo, LengthZero, Advance
  <2> QED
    BY <2>1, <2>2 DEF Moves
<1>25. ASSUME NEW s \in Streams, ProcessingFound(s), UNCHANGED post PROVE Moves
  <2>1. TaskMoves /\ LockMoves
    BY <1>25 DEF TaskMoves, LockMoves, ProcessingFound, Advance, Trigger
  <2>2. StreamMoves
    BY <1>25 DEF StreamMoves, HandedTo, ProcessingFound, Advance, Trigger
  <2> QED
    BY <2>1, <2>2 DEF Moves
<1>26. ASSUME NEW s \in Streams, NoWorkFound(s), UNCHANGED post PROVE Moves
  <2>1. TaskMoves /\ LockMoves
    BY <1>26 DEF TaskMoves, LockMoves, NoWorkFound, Advance
  <2>2. StreamMoves
    BY <1>26 DEF StreamMoves, HandedTo, NoWorkFound, Advance
  <2> QED
    BY <2>1, <2>2 DEF Moves
<1>27. ASSUME NEW s \in Streams, StartStreaming(s), UNCHANGED post PROVE Moves
  <2>1. TaskMoves /\ LockMoves
    BY <1>27 DEF TaskMoves, LockMoves, StartStreaming, Advance, RecordCall
  <2>2. StreamMoves
    BY <1>27 DEF StreamMoves, HandedTo, StartStreaming, Advance, RecordCall
  <2> QED
    BY <2>1, <2>2 DEF Moves
<1>28. ASSUME NEW s \in Streams, HandoffTimeout(s), UNCHANGED post PROVE Moves
  <2>1. TaskMoves /\ LockMoves
    BY <1>28 DEF TaskMoves, LockMoves, HandoffTimeout, Advance, CancelFuture
  <2>2. StreamMoves
    BY <1>28, <1>a DEF HandedTo, HandoffTimeout, Advance, CancelFuture
  <2> QED
    BY <2>1, <2>2 DEF Moves
<1>29. ASSUME NEW s \in Streams, FutureCancelled(s), UNCHANGED post PROVE Moves
  <2>1. TaskMoves /\ LockMoves
    BY <1>29 DEF TaskMoves, LockMoves, FutureCancelled, Advance
  <2>2. StreamMoves
    BY <1>29, <1>a DEF HandedTo, FutureCancelled, Advance
  <2> QED
    BY <2>1, <2>2 DEF Moves
<1>30. ASSUME NEW s \in Streams, StreamEnds(s), UNCHANGED post PROVE Moves
  <2>1. TaskMoves /\ LockMoves
    BY <1>30 DEF TaskMoves, LockMoves, StreamEnds, Advance
  <2>2. StreamMoves
    BY <1>30, <1>a DEF HandedTo, StreamEnds, Advance
  <2> QED
    BY <2>1, <2>2 DEF Moves
<1>31. ASSUME NEW s \in Streams, StreamUnregisters(s), UNCHANGED post PROVE Moves
  <2>1. TaskMoves /\ LockMoves
    BY <1>31 DEF TaskMoves, LockMoves, StreamUnregisters, Advance, Unregister
  <2>2. StreamMoves
    BY <1>31, <1>a DEF HandedTo, StreamUnregisters, Advance, Unregister
  <2> QED
    BY <2>1, <2>2 DEF Moves
<1>32. ASSUME NEW s \in Streams, StreamCompletes(s), UNCHANGED post PROVE Moves
  <2>1. TaskMoves /\ LockMoves
    BY <1>32 DEF TaskMoves, LockMoves, StreamCompletes, Advance, MarkComplete
  <2>2. StreamMoves
    BY <1>32, <1>a DEF HandedTo, StreamCompletes, Advance, MarkComplete
  <2> QED
    BY <2>1, <2>2 DEF Moves
<1>33. ASSUME NEW s \in Streams, StreamTriggers(s), UNCHANGED post PROVE Moves
  <2>1. TaskMoves /\ LockMoves
    BY <1>33 DEF TaskMoves, LockMoves, StreamTriggers, Advance, Trigger
  <2>2. StreamMoves
    BY <1>33, <1>a DEF HandedTo, StreamTriggers, Advance, Trigger
  <2> QED
    BY <2>1, <2>2 DEF Moves
<1>34. ASSUME NEW s \in Streams, StreamCommandRaises(s), UNCHANGED post PROVE Moves
  <2>1. TaskMoves /\ LockMoves
    BY <1>34 DEF TaskMoves, LockMoves, StreamCommandRaises
  <2>2. StreamMoves
    BY <1>34, <1>a DEF HandedTo, StreamCommandRaises
  <2> QED
    BY <2>1, <2>2 DEF Moves
<1>35. ASSUME NEW s \in Streams, Disconnect(s), UNCHANGED post PROVE Moves
  <2>1. TaskMoves /\ LockMoves
    BY <1>35 DEF TaskMoves, LockMoves, Disconnect, CancelFuture
  <2>2. StreamMoves
    BY <1>35, <1>a DEF HandedTo, Disconnect, CancelFuture
  <2> QED
    BY <2>1, <2>2 DEF Moves
<1>36. ASSUME NEW s \in Streams, DisconnectUncaught(s), UNCHANGED post PROVE Moves
  <2>1. TaskMoves /\ LockMoves
    BY <1>36 DEF TaskMoves, LockMoves, DisconnectUncaught
  <2>2. StreamMoves
    BY <1>36, <1>a DEF HandedTo, DisconnectUncaught
  <2> QED
    BY <2>1, <2>2 DEF Moves
<1>37. ASSUME NEW u \in Users, LockExpires(u) PROVE Moves
  <2>1. TaskMoves /\ LockMoves
    BY <1>37 DEF TaskMoves, LockMoves, LockExpires, ProcessingExpires
  <2>2. StreamMoves
    BY <1>37, <1>a DEF HandedTo, LockExpires, ProcessingExpires
  <2> QED
    BY <2>1, <2>2 DEF Moves
<1>38. ASSUME Crash PROVE Moves
  <2>1. TaskMoves /\ LockMoves
    BY <1>38 DEF TaskMoves, LockMoves, Crash, ProcessEnds, RegistryLost, Active, Live
  <2>2. StreamMoves
    BY <1>38, <1>a DEF HandedTo, Crash, ProcessEnds, RegistryLost, Active, Live
  <2> QED
    BY <2>1, <2>2 DEF Moves
<1>39. CASE UNCHANGED vars
  <2>1. TaskMoves /\ LockMoves
    BY <1>39 DEF TaskMoves, LockMoves, vars
  <2>2. StreamMoves
    BY <1>39, <1>a DEF HandedTo, vars
  <2> QED
    BY <2>1, <2>2 DEF Moves
<1> QED
  BY <1>1, <1>2, <1>3, <1>4, <1>5, <1>6, <1>7, <1>8, <1>9, <1>10, <1>11, <1>12, <1>13,
       <1>14, <1>15, <1>16, <1>17, <1>18, <1>19, <1>20, <1>21, <1>22, <1>23, <1>24, <1>25, <1>26,
       <1>27, <1>28, <1>29, <1>30, <1>31, <1>32, <1>33, <1>34, <1>35, <1>36, <1>37, <1>38, <1>39
     DEF Next, ClientStep, Run, Work, TaskStep, ProcessorStep, WorkerReturns, StreamStep,
         WorkerStreamEnds, TaskFault, ProcessorFault, StreamFault

---------------------------------------------------------------------------
(* The lease. *)

\* The limits are numbers, and the lease is longer than each of them.
LEMMA LimitsAreNat ==
    ASSUME LeaseIsLong
    PROVE  /\ CallTime \in Nat /\ CallbackTime \in Nat /\ RegistrationLimit \in Nat
           /\ HandoffLimit \in Nat /\ StreamTime \in Nat /\ LockTTL \in Nat
           /\ RegistrationLimit + StreamTime < LockTTL
           /\ CallTime + CallbackTime < LockTTL
BY TimeAssumption DEF LeaseIsLong, LockTTL

LEMMA TimersTypeStep ==
    ASSUME TimersTypeOK, LeaseIsLong, SetTimers
    PROVE  TimersTypeOK'
<1> USE LimitsAreNat DEF TimersTypeOK
<1>1. \A place : TaskLimit(place) \in Nat /\ StreamLimit(place) \in Nat
  BY DEF TaskLimit, StreamLimit
<1>2. lockLeft' \in [Users -> Nat]
  BY DEF SetTimers
<1>3. taskLeft' \in [Msgs -> Nat]
  BY <1>1 DEF SetTimers
<1>4. streamLeft' \in [Streams -> Nat]
  BY <1>1 DEF SetTimers
<1> QED
  BY <1>2, <1>3, <1>4

\* The timers of a step: a lock that stays keeps what is left of it, and so
\* does who stays where he is.
LEMMA TimersOf ==
    ASSUME SetTimers, RequestAssumption
    PROVE  /\ \A m \in Msgs : Lock(m) /\ Lock(m)' => lockLeft'[UserOf[m]] = lockLeft[UserOf[m]]
           /\ \A m \in Msgs : ~Lock(m) /\ Lock(m)' => lockLeft'[UserOf[m]] = LockTTL
           /\ \A m \in Msgs : proc'[m] = proc[m] => taskLeft'[m] = taskLeft[m]
           /\ \A m \in Msgs : proc'[m] # proc[m] => taskLeft'[m] = TaskLimit(proc'[m])
           /\ \A s \in Streams : stream'[s] = stream[s] => streamLeft'[s] = streamLeft[s]
           /\ \A s \in Streams : stream'[s] = "streaming" /\ stream[s] # "streaming" =>
                  streamLeft'[s] = StreamTime
BY DEF SetTimers, StreamLimit, Lock, RequestAssumption

\* A move keeps the lease ahead of the tasks ...
LEMMA TaskLeaseMoves ==
    ASSUME LeaseIsLong, LeaseInv, Moves, SetTimers
    PROVE  TaskLease'
<1> USE LimitsAreNat, RequestAssumption
<1>0. TypeOK /\ TimersTypeOK /\ TaskLease
  BY DEF LeaseInv, LockInv, BaseInv
<1> SUFFICES ASSUME NEW m \in Msgs, Lock(m)'
             PROVE  LET left == lockLeft'[UserOf[m]] IN
                    /\ proc'[m] \in {"dequeued", "dispatch"} => left = LockTTL
                    /\ proc'[m] = "waiting" => left > taskLeft'[m] + StreamTime
                    /\ proc'[m] = "calling" => left > taskLeft'[m] + CallbackTime
                    /\ proc'[m] \in {"replying", "replyingError"} => left > taskLeft'[m]
                    /\ proc'[m] = "completing" => left > 0
  BY DEF TaskLease
<1>1. UserOf[m] \in Users /\ lockLeft[UserOf[m]] \in Nat /\ taskLeft[m] \in Nat
  BY <1>0 DEF TimersTypeOK
<1>2. CASE ~Lock(m)
  <2>1. processing'[UserOf[m]] = m /\ m # NoMsg /\ processing[UserOf[m]] # m
    BY <1>2 DEF Lock
  <2>2. proc'[m] = "dequeued"
    BY <1>1, <2>1 DEF Moves, LockMoves
  <2>3. lockLeft'[UserOf[m]] = LockTTL
    BY <1>2, TimersOf
  <2> QED
    BY <2>2, <2>3
<1>3. CASE Lock(m)
  <2> DEFINE left == lockLeft[UserOf[m]]
  <2>1. lockLeft'[UserOf[m]] = left
    BY <1>3, TimersOf
  <2>2. /\ proc[m] \in {"dequeued", "dispatch"} => left = LockTTL
        /\ proc[m] = "waiting" => left > taskLeft[m] + StreamTime
        /\ proc[m] = "calling" => left > taskLeft[m] + CallbackTime
        /\ proc[m] \in {"replying", "replyingError"} => left > taskLeft[m]
        /\ proc[m] = "completing" => left > 0
    BY <1>0, <1>3 DEF TaskLease
  <2> HIDE DEF left
  <2>3. left \in Nat
    BY <1>1 DEF left
  <2>4. CASE proc'[m] = proc[m]
    <3>1. taskLeft'[m] = taskLeft[m]
      BY <2>4, TimersOf
    <3> QED
      BY <2>1, <2>2, <2>4, <3>1
  <2>5. CASE proc'[m] # proc[m]
    <3>1. taskLeft'[m] = TaskLimit(proc'[m])
      BY <2>5, TimersOf
    <3>2. processing[UserOf[m]] # NoMsg
      BY <1>3 DEF Lock
    <3> QED
      BY <1>1, <2>1, <2>2, <2>3, <2>5, <3>1, <3>2 DEF Moves, TaskMoves, TaskLimit
  <2> QED
    BY <2>4, <2>5
<1> QED
  BY <1>2, <1>3

\* ... and of the handlers.
LEMMA HandlerLeaseMoves ==
    ASSUME LeaseIsLong, LeaseInv, Moves, SetTimers, HandlerHoldsLock'
    PROVE  HandlerLease'
<1> USE LimitsAreNat, RequestAssumption
<1>0. /\ TypeOK /\ TimersTypeOK /\ TaskLease /\ HandlerLease
      /\ HandlerHoldsLock
  BY DEF LeaseInv, LockInv, BaseInv
<1> SUFFICES ASSUME NEW s \in Streams, HandedTo(s)'
             PROVE  LET left == lockLeft'[UserOf[StreamMsg[s]]] IN
                    IF stream'[s] = "streaming" THEN left > streamLeft'[s] ELSE left > StreamTime
  BY DEF HandlerLease
<1> DEFINE m == StreamMsg[s]
           left == lockLeft[UserOf[m]]
<1>1. m \in Msgs /\ left \in Nat /\ streamLeft[s] \in Nat /\ taskLeft[m] \in Nat
  BY <1>0 DEF TimersTypeOK
<1>2. Lock(m)'
  BY DEF HandlerHoldsLock
<1>3. CASE /\ HandedTo(s)
           /\ \/ stream'[s] = stream[s]
              \/ stream[s] # "streaming" /\ stream'[s] # "streaming"
              \/ stream[s] = "waiting" /\ stream'[s] = "streaming"
  <2>1. Lock(m)
    BY <1>0, <1>3 DEF HandlerHoldsLock
  <2>2. lockLeft'[UserOf[m]] = left
    BY <1>1, <1>2, <2>1, TimersOf
  <2>3. IF stream[s] = "streaming" THEN left > streamLeft[s] ELSE left > StreamTime
    BY <1>0, <1>3 DEF HandlerLease
  <2>4. /\ stream'[s] = stream[s] => streamLeft'[s] = streamLeft[s]
        /\ stream'[s] = "streaming" /\ stream[s] # "streaming" => streamLeft'[s] = StreamTime
    BY TimersOf
  <2> HIDE DEF m, left
  <2> QED
    BY <1>1, <1>3, <2>2, <2>3, <2>4 DEF m
<1>4. CASE /\ proc[m] \in {"dispatch", "waiting"}
           /\ stream'[s] = stream[s] /\ stream[s] # "streaming"
           /\ UNCHANGED processing
  <2>1. Lock(m)
    BY <1>2, <1>4 DEF Lock
  <2>2. lockLeft'[UserOf[m]] = left
    BY <1>1, <1>2, <2>1, TimersOf
  <2>3. /\ proc[m] = "dispatch" => left = LockTTL
        /\ proc[m] = "waiting" => left > taskLeft[m] + StreamTime
    BY <1>0, <1>1, <2>1 DEF TaskLease
  <2> HIDE DEF m, left
  <2> QED
    BY <1>1, <1>4, <2>2, <2>3 DEF m
<1> QED
  BY <1>3, <1>4 DEF Moves, StreamMoves

\* Whoever is at work has something left of the lease.
LEMMA WorkHasLease ==
    ASSUME LeaseIsLong, LeaseInv, NEW u \in Users, processing[u] # NoMsg, lockLeft[u] = 0
    PROVE  ~Working(processing[u])
<1> USE LimitsAreNat, RequestAssumption
<1>0. TypeOK /\ TimersTypeOK /\ TaskLease /\ HandlerLease
  BY DEF LeaseInv, LockInv, BaseInv
<1> DEFINE m == processing[u]
<1>1. m \in Msgs /\ UserOf[m] = u /\ Lock(m) /\ taskLeft[m] \in Nat
  BY <1>0 DEF LeaseInv, OwnLock, Lock, TypeOK, QueueTypeOK, TimersTypeOK
<1>2. proc[m] \notin AtWork
  BY <1>0, <1>1 DEF TaskLease, AtWork
<1>3. ASSUME NEW s \in Streams, StreamMsg[s] = m, HandedTo(s) PROVE FALSE
  <2>1. streamLeft[s] \in Nat
    BY <1>0 DEF TimersTypeOK
  <2> QED
    BY <1>0, <1>1, <1>3, <2>1 DEF HandlerLease
<1> QED
  BY <1>2, <1>3 DEF Working

\* So the key expires only as Broker lets it.
LEMMA LeaseEndsAsInBroker ==
    ASSUME LeaseIsLong, LeaseInv, NEW u \in Users, LeaseEnds(u) PROVE LockExpires(u)
<1>1. processing[u] # NoMsg /\ lockLeft[u] = 0
  BY DEF LeaseEnds, ProcessingExpires
<1> QED
  BY <1>1, WorkHasLease DEF LeaseEnds, LockExpires

\* Every step with clocks is a step of Broker.
LEMMA LeaseStepInBroker == LeaseIsLong /\ LeaseInv /\ [LeaseNext]_leaseVars => [Next]_vars
<1> SUFFICES ASSUME LeaseIsLong, LeaseInv, [LeaseNext]_leaseVars PROVE [Next]_vars
  OBVIOUS
<1>1. CASE TimedStep
  BY <1>1 DEF TimedStep, Next, Run
<1>2. ASSUME NEW u \in Users, LeaseEnds(u) PROVE Next
  BY <1>2, LeaseEndsAsInBroker DEF Next, Run
<1>3. CASE Tick
  BY <1>3 DEF Tick
<1>4. CASE UNCHANGED leaseVars
  BY <1>4 DEF leaseVars
<1> QED
  BY <1>1, <1>2, <1>3, <1>4 DEF LeaseNext

\* Time passes only while nobody is between two waits, and for everybody alike.
LEMMA TickKeepsLease ==
    ASSUME LeaseIsLong, LeaseInv, Tick
    PROVE  TimersTypeOK' /\ TaskLease' /\ HandlerLease'
<1> USE LimitsAreNat, RequestAssumption
<1>0. /\ TypeOK /\ TimersTypeOK /\ TaskLease /\ HandlerLease /\ HandlerHoldsLock
  BY DEF LeaseInv, LockInv, BaseInv
<1>1. /\ UNCHANGED vars /\ UNCHANGED <<processing, proc, stream, future>>
      /\ lockLeft' = [u \in Users |-> Less(lockLeft[u])]
      /\ taskLeft' = [m \in Msgs |-> Less(taskLeft[m])]
      /\ streamLeft' = [s \in Streams |-> Less(streamLeft[s])]
  BY DEF Tick, vars, queueVars, registryVars, processorVars
<1>2. \A n \in Nat : Less(n) \in Nat /\ (n > 0 => Less(n) = n - 1)
  BY DEF Less
<1>3. TimersTypeOK'
  BY <1>0, <1>1, <1>2 DEF TimersTypeOK
<1>4. TaskLease'
  <2> SUFFICES ASSUME NEW m \in Msgs, Lock(m)
               PROVE  LET left == lockLeft'[UserOf[m]] IN
                      /\ proc[m] \in {"dequeued", "dispatch"} => left = LockTTL
                      /\ proc[m] = "waiting" => left > taskLeft'[m] + StreamTime
                      /\ proc[m] = "calling" => left > taskLeft'[m] + CallbackTime
                      /\ proc[m] \in {"replying", "replyingError"} => left > taskLeft'[m]
                      /\ proc[m] = "completing" => left > 0
    BY <1>1 DEF TaskLease, Lock
  <2>1. /\ UserOf[m] \in Users /\ processing[UserOf[m]] # NoMsg
        /\ lockLeft[UserOf[m]] \in Nat /\ taskLeft[m] \in Nat
    BY <1>0 DEF Lock, TimersTypeOK
  <2>2. lockLeft[UserOf[m]] > 0 /\ lockLeft'[UserOf[m]] = lockLeft[UserOf[m]] - 1
    BY <1>1, <1>2, <2>1 DEF Tick, NoneDue
  <2>3. proc[m] \notin {"dequeued", "dispatch", "completing"}
    BY DEF Tick, Quiet
  <2>4. proc[m] \in {"waiting", "calling", "replying", "replyingError"} =>
            taskLeft'[m] = taskLeft[m] - 1
    BY <1>1, <1>2, <2>1 DEF Tick, NoneDue
  <2>5. /\ proc[m] = "waiting" => lockLeft[UserOf[m]] > taskLeft[m] + StreamTime
        /\ proc[m] = "calling" => lockLeft[UserOf[m]] > taskLeft[m] + CallbackTime
        /\ proc[m] \in {"replying", "replyingError"} => lockLeft[UserOf[m]] > taskLeft[m]
    BY <1>0 DEF TaskLease
  <2> QED
    BY <2>1, <2>2, <2>3, <2>4, <2>5
<1>5. HandlerLease'
  <2> SUFFICES ASSUME NEW s \in Streams, HandedTo(s)
               PROVE  LET left == lockLeft'[UserOf[StreamMsg[s]]] IN
                      IF stream[s] = "streaming" THEN left > streamLeft'[s]
                                                 ELSE left > StreamTime
    BY <1>1 DEF HandlerLease, HandedTo
  <2> DEFINE u == UserOf[StreamMsg[s]]
  <2>1. stream[s] = "streaming"
    BY DEF Tick, Quiet, HandedTo
  <2>2. u \in Users /\ processing[u] # NoMsg /\ lockLeft[u] \in Nat /\ streamLeft[s] \in Nat
    BY <1>0 DEF HandlerHoldsLock, Lock, TimersTypeOK
  <2>3. lockLeft[u] > 0 /\ streamLeft[s] > 0
    BY <2>1, <2>2 DEF Tick, NoneDue
  <2>4. lockLeft'[u] = lockLeft[u] - 1 /\ streamLeft'[s] = streamLeft[s] - 1
    BY <1>1, <1>2, <2>2, <2>3
  <2>5. lockLeft[u] > streamLeft[s]
    BY <1>0, <2>1 DEF HandlerLease
  <2> QED
    BY <2>1, <2>2, <2>4, <2>5
<1> QED
  BY <1>3, <1>4, <1>5

\* Every step preserves LeaseInv.
LEMMA LeaseStep ==
    OneStreamEach /\ LeaseIsLong /\ LeaseInv /\ [LeaseNext]_leaseVars => LeaseInv'
<1> SUFFICES ASSUME OneStreamEach, LeaseIsLong, LeaseInv, [LeaseNext]_leaseVars PROVE LeaseInv'
  OBVIOUS
<1>1. [Next]_vars
  BY LeaseStepInBroker
<1>2. LockInv' /\ HandlerHoldsLock'
  BY <1>1, LockStep DEF LeaseInv, LockInv
<1>3. Moves
  BY <1>1, StepMoves DEF LeaseInv, LockInv
<1>4. OwnLock'
  BY <1>3 DEF LeaseInv, OwnLock, Moves, LockMoves
<1>5. CASE SetTimers
  BY <1>2, <1>3, <1>4, <1>5, TimersTypeStep, TaskLeaseMoves, HandlerLeaseMoves DEF LeaseInv
<1>6. CASE Tick
  BY <1>2, <1>4, <1>6, TickKeepsLease DEF LeaseInv
<1>7. CASE UNCHANGED leaseVars
  <2>1. UNCHANGED timers /\ UNCHANGED <<processing, proc, stream, future>>
    BY <1>7 DEF leaseVars, vars, queueVars, registryVars, processorVars
  <2>2. TimersTypeOK' /\ TaskLease' /\ HandlerLease'
    BY <2>1 DEF LeaseInv, TimersTypeOK, TaskLease, HandlerLease, Lock, HandedTo, timers
  <2> QED
    BY <1>2, <1>4, <2>2 DEF LeaseInv
<1> QED
  BY <1>5, <1>6, <1>7 DEF LeaseNext, TimedStep, LeaseEnds

---------------------------------------------------------------------------
(* The start on what a crashed process has left. *)

\* What Redis holds: sequences of different messages of the user, none of which
\* is the one that holds the lock.
LEMMA LeftQueueFacts ==
    ASSUME NEW u \in Users, NEW q \in LeftQueues(u)
    PROVE  /\ q \in Seq(Msgs) /\ DOMAIN q = 1..Len(q)
           /\ \A i, j \in 1..Len(q) : UserOf[q[i]] = u /\ (q[i] = q[j] => i = j)
<1>1. PICK n \in 0..Cardinality(Msgs) : q \in [1..n -> Msgs]
  BY DEF LeftQueues
<1>2. Cardinality(Msgs) \in Nat
  BY FiniteAssumption, FS_CardinalityType
<1>3. n \in Nat
  BY <1>2
<1>4. q \in Seq(Msgs) /\ DOMAIN q = 1..Len(q)
  BY <1>1, <1>3, IsASeq, LenProperties
<1>5. \A i, j \in DOMAIN q : UserOf[q[i]] = u /\ (q[i] = q[j] => i = j)
  BY DEF LeftQueues
<1> QED
  BY <1>4, <1>5

LEMMA LeftBehind ==
    ASSUME LeaseInit
    PROVE  /\ BaseInv
           /\ \A u \in Users : \A i \in 1..Len(queue[u]) :
                  /\ queue[u][i] \in Msgs /\ UserOf[queue[u][i]] = u
                  /\ arrival[queue[u][i]] = IF processing[u] = NoMsg THEN i ELSE i + 1
           /\ \A m \in Msgs : /\ proc[m] = IF processing[UserOf[m]] = m THEN "dead" ELSE "none"
                              /\ post[m] = "new" <=> ~Stored(m)
           /\ \A s \in Streams : future[s] = "none" /\ stream[s] = "idle"
<1> USE RequestAssumption
<1>1. /\ queue \in [Users -> UNION {LeftQueues(u) : u \in Users}]
      /\ \A u \in Users : queue[u] \in LeftQueues(u)
  BY DEF LeaseInit
<1>2. \A u \in Users :
          /\ queue[u] \in Seq(Msgs) /\ DOMAIN queue[u] = 1..Len(queue[u])
          /\ \A i, j \in 1..Len(queue[u]) :
                 UserOf[queue[u][i]] = u /\ (queue[u][i] = queue[u][j] => i = j)
  <2> TAKE u \in Users
  <2>1. queue[u] \in LeftQueues(u)
    BY <1>1
  <2> QED
    BY <2>1, LeftQueueFacts
<1>3. QueueTypeOK
  <2>1. queue \in [Users -> Seq(Msgs)]
    BY <1>1, <1>2
  <2>2. pushes \in Nat
    BY FiniteAssumption, FS_CardinalityType DEF LeaseInit
  <2>3. arrival \in [Msgs -> Nat]
    BY <2>2 DEF LeaseInit
  <2>4. metadata \in [Msgs -> BOOLEAN]
    BY DEF LeaseInit
  <2>5. processing \in [Users -> Msgs \cup {NoMsg}]
    BY DEF LeaseInit
  <2> QED
    BY <2>1, <2>2, <2>3, <2>4, <2>5 DEF QueueTypeOK
<1>4. TypeOK
  <2>1. RegistryTypeOK
    BY DEF LeaseInit, RegistryInit, RegistryTypeOK
  <2>2. ProcessorTypeOK
    BY DEF LeaseInit, ProcessorTypeOK, ProcStates
  <2>3. StreamTypeOK
    BY DEF LeaseInit, StreamInit, StreamTypeOK, StreamStates
  <2>4. post \in [Msgs -> PostStates]
    BY DEF LeaseInit, PostStates
  <2> QED
    BY <1>3, <2>1, <2>2, <2>3, <2>4 DEF TypeOK
<1>5. /\ proc = [m \in Msgs |-> IF processing[UserOf[m]] = m THEN "dead" ELSE "none"]
      /\ \A m \in Msgs : post[m] = "new" <=> ~Stored(m)
      /\ \A m \in Msgs : registry[m] = NoStream
      /\ \A s \in Streams : future[s] = "none" /\ stream[s] = "idle"
  BY DEF LeaseInit, RegistryInit, StreamInit
<1>6. \A u \in Users : \A i \in 1..Len(queue[u]) :
          queue[u][i] \in Msgs /\ queue[u][i] \in Range(queue[u])
  BY <1>2 DEF Range
<1>7. QueueInv
  <2> SUFFICES ASSUME NEW u \in Users, NEW i \in 1..Len(queue[u])
               PROVE  /\ UserOf[queue[u][i]] = u
                      /\ proc[queue[u][i]] = "none"
                      /\ \A j \in 1..Len(queue[u]) : queue[u][i] = queue[u][j] => i = j
    BY DEF QueueInv
  <2>1. queue[u][i] \in Msgs /\ UserOf[queue[u][i]] = u /\ queue[u][i] \in Range(queue[u])
    BY <1>2, <1>6
  <2>2. processing[u] # queue[u][i]
    BY <2>1 DEF LeaseInit
  <2>3. proc[queue[u][i]] = "none"
    BY <1>5, <2>1, <2>2
  <2> QED
    BY <1>2, <2>1, <2>3
<1>8. NewInv
  <2> SUFFICES ASSUME NEW m \in Msgs, post[m] = "new"
               PROVE  /\ proc[m] = "none"
                      /\ \A u \in Users : \A i \in 1..Len(queue[u]) : queue[u][i] # m
    BY DEF NewInv
  <2>1. processing[UserOf[m]] # m /\ m \notin Range(queue[UserOf[m]])
    BY <1>5 DEF Stored
  <2>2. proc[m] = "none"
    BY <1>5, <2>1
  <2>3. ASSUME NEW u \in Users, NEW i \in 1..Len(queue[u]), queue[u][i] = m PROVE FALSE
    <3>1. UserOf[m] = u /\ m \in Range(queue[u])
      BY <1>2, <1>6, <2>3
    <3> QED
      BY <2>1, <3>1
  <2> QED
    BY <2>2, <2>3
<1>9. RegistryInv /\ HandoffInv
  BY <1>5 DEF RegistryInv, HandoffInv
<1>10. \A u \in Users : \A i \in 1..Len(queue[u]) :
           arrival[queue[u][i]] = IF processing[u] = NoMsg THEN i ELSE i + 1
  <2>1. \A u \in Users : \A i \in DOMAIN queue[u] :
            arrival[queue[u][i]] = IF processing[u] = NoMsg THEN i ELSE i + 1
    BY Zenon DEF LeaseInit
  <2>2. \A u \in Users : DOMAIN queue[u] = 1..Len(queue[u])
    BY <1>2
  <2> QED
    BY <2>1, <2>2, Zenon
<1>11. BaseInv
  BY <1>4, <1>7, <1>8, <1>9 DEF BaseInv
<1> QED
  BY <1>2, <1>5, <1>6, <1>10, <1>11

LEMMA LeaseInitHolds == LeaseIsLong /\ LeaseInit => LeaseInv
<1> SUFFICES ASSUME LeaseIsLong, LeaseInit PROVE LeaseInv
  OBVIOUS
<1> USE LimitsAreNat, RequestAssumption
<1>9. BaseInv
  BY LeftBehind
<1>10. \A m \in Msgs : proc[m] \in {"none", "dead"}
  BY LeftBehind
<1>11. \A s \in Streams : ~HandedTo(s)
  BY LeftBehind DEF HandedTo
<1>12. TaskHoldsLock /\ HandlerHoldsLock /\ CallsAreCallbacks
  BY <1>10, <1>11 DEF TaskHoldsLock, HandlerHoldsLock, CallsAreCallbacks, AtWork
<1>13. OwnLock
  BY DEF LeaseInit, OwnLock
<1>14. TimersTypeOK
  <2>1. lockLeft \in [Users -> Nat]
    BY DEF LeaseInit
  <2> QED
    BY <2>1 DEF LeaseInit, TimersTypeOK
<1>15. TaskLease /\ HandlerLease
  BY <1>10, <1>11 DEF TaskLease, HandlerLease
<1> QED
  BY <1>9, <1>12, <1>13, <1>14, <1>15 DEF LeaseInv, LockInv

---------------------------------------------------------------------------
(* A message is discarded only if its stream is late. *)

\* Every step keeps what the broker's actors know of a message, also when the
\* lease is too short.
LEMMA LeaseKeepsBase == BaseInv /\ [LeaseNext]_leaseVars => BaseInv'
<1> SUFFICES ASSUME BaseInv, [LeaseNext]_leaseVars PROVE BaseInv'
  OBVIOUS
<1>1. CASE TimedStep
  BY <1>1, BaseStep DEF TimedStep, Next, Run
<1>2. ASSUME NEW u \in Users, LeaseEnds(u) PROVE BaseInv'
  <2>1. /\ processing' = [processing EXCEPT ![u] = NoMsg]
        /\ UNCHANGED <<queue, metadata, arrival, pushes>>
        /\ UNCHANGED <<registryVars, processorVars, stream, post>>
    BY <1>2 DEF LeaseEnds, ProcessingExpires
  <2>2. /\ TypeOK /\ QueueInv /\ NewInv /\ RegistryInv /\ HandoffInv
        /\ UNCHANGED <<registry, future, events, tasks, proc, delivered, sent, stream, post>>
    BY <2>1 DEF BaseInv, registryVars, processorVars
  <2>3. TypeOK'
    BY <2>1, <2>2 DEF TypeOK, QueueTypeOK, RegistryTypeOK, ProcessorTypeOK, StreamTypeOK
  <2>4. QueueInv' /\ NewInv'
    BY <2>1, <2>2 DEF QueueInv, NewInv
  <2>5. RegistryInv' /\ HandoffInv'
    BY <2>2 DEF RegistryInv, HandoffInv
  <2> QED
    BY <2>3, <2>4, <2>5 DEF BaseInv
<1>3. CASE Tick
  <2>1. UNCHANGED vars
    BY <1>3 DEF Tick
  <2> QED
    BY <2>1, BaseStep
<1>4. CASE UNCHANGED leaseVars
  <2>1. UNCHANGED vars
    BY <1>4 DEF leaseVars
  <2> QED
    BY <2>1, BaseStep
<1> QED
  BY <1>1, <1>2, <1>3, <1>4 DEF LeaseNext

\* A registered handler goes on to its wait, and stays there; or the entry goes
\* away; or the task begins to wait; or a stream comes and sets the event.
WaitMoves ==
    \A m \in Msgs : proc'[m] = "waiting" =>
        \/ /\ proc[m] = "waiting" /\ events'[m] = events[m]
           /\ \A s \in Streams : registry'[m] = s =>
                  /\ registry[m] = s /\ future'[s] = future[s]
                  /\ stream'[s] = stream[s] \/ stream'[s] \in {"checkProcessing", "waiting"}
        \/ proc[m] = "dispatch" /\ events'[m] = "armed" /\ registry'[m] = NoStream
        \/ /\ proc[m] = "waiting" /\ events'[m] = "set"
           /\ \A s \in Streams : registry'[m] = s =>
                  future'[s] = "pending" /\ stream'[s] = "checkLength"

\* The handoff of one message leaves the entries of the others alone.
LEMMA HandOffKeepsWait ==
    ASSUME RegistryInv, RequestAssumption, NEW m \in Msgs, HandOff(m), UNCHANGED stream,
           registry \in [Msgs -> Streams \cup {NoStream}],
           \A k \in Msgs : proc'[k] = "waiting" => proc[k] = "waiting" /\ events'[k] = events[k]
    PROVE  WaitMoves
BY DEF HandOff, RegistryInv, RequestAssumption, WaitMoves

LEMMA StepWaitMoves ==
    HandlersStay /\ BaseInv /\ WaitInv /\ InTime /\ [Next]_vars
        => WaitMoves
<1> SUFFICES ASSUME HandlersStay, BaseInv, WaitInv, InTime, [Next]_vars PROVE WaitMoves
  OBVIOUS
<1>0. TypeOK /\ RegistryInv /\ HandoffLimit \in Nat
  BY TimeAssumption DEF BaseInv
<1> USE <1>0, RequestAssumption
    DEF TypeOK, QueueTypeOK, RegistryTypeOK, ProcessorTypeOK, StreamTypeOK,
        queueVars, registryVars, processorVars, WaitMoves

<1>1. ASSUME NEW m \in Msgs, SubmitPush(m) PROVE WaitMoves
  BY <1>1 DEF SubmitPush, Enqueue
<1>2. ASSUME NEW m \in Msgs, SubmitReply(m) PROVE WaitMoves
  BY <1>2 DEF SubmitReply, StoreMetadata, Trigger
<1>3. ASSUME NEW m \in Msgs, SubmitRaises(m) PROVE WaitMoves
  BY <1>3 DEF SubmitRaises, HandlersStay
<1>4. ASSUME NEW m \in Msgs, SubmitLosesReply(m) PROVE WaitMoves
  BY <1>4 DEF SubmitLosesReply, HandlersStay
<1>5. ASSUME NEW s \in Streams, ClientOpens(s) PROVE WaitMoves
  BY <1>5 DEF ClientOpens, OpenStream, Advance, Register, WaitInv, RegistryInv
<1>6. ASSUME NEW u \in Users, ProcessNone(u), UNCHANGED <<stream, post>> PROVE WaitMoves
  BY <1>6 DEF ProcessNone, DequeueNone
<1>7. ASSUME NEW u \in Users, NEW m \in Msgs, ProcessDequeue(u, m), UNCHANGED <<stream,
     post>> PROVE WaitMoves
  BY <1>7 DEF ProcessDequeue, Dequeue
<1>8. ASSUME NEW u \in Users, DequeueRaises(u), UNCHANGED <<stream, post>> PROVE WaitMoves
  BY <1>8 DEF DequeueRaises, HandlersStay
<1>9. ASSUME NEW m \in Msgs, StoreStartedAt(m), UNCHANGED <<stream, post>> PROVE WaitMoves
  BY <1>9 DEF StoreStartedAt, Proceed, StoreMetadata
<1>10. ASSUME NEW m \in Msgs, HandOffRegistered(m), UNCHANGED <<stream, post>> PROVE
     WaitMoves
  BY <1>10, HandOffKeepsWait DEF HandOffRegistered, Proceed
<1>11. ASSUME NEW m \in Msgs, AwaitStream(m), UNCHANGED <<stream, post>> PROVE WaitMoves
  BY <1>11 DEF AwaitStream, Proceed, ArmEvent, IsRegistered
<1>12. ASSUME NEW m \in Msgs, RegistrationArrives(m), UNCHANGED <<stream, post>> PROVE
     WaitMoves
  <2>1. /\ \A k \in Msgs : proc'[k] = "waiting" => proc[k] = "waiting" /\ k # m
        /\ \A k \in Msgs : k # m => events'[k] = events[k]
    BY <1>12 DEF RegistrationArrives, Proceed, DropEvent
  <2> QED
    BY <1>12, <2>1, HandOffKeepsWait DEF RegistrationArrives
<1>13. ASSUME NEW m \in Msgs, RegistrationGone(m), UNCHANGED <<stream, post>> PROVE
     WaitMoves
  BY <1>13 DEF RegistrationGone, Proceed, DropEvent
<1>14. ASSUME NEW m \in Msgs, RegistrationTimeout(m), UNCHANGED <<stream, post>> PROVE
     WaitMoves
  BY <1>14 DEF RegistrationTimeout, Proceed, DropEvent
<1>15. ASSUME NEW m \in Msgs, CallWorker(m), UNCHANGED <<stream, post>> PROVE WaitMoves
  BY <1>15 DEF CallWorker, Proceed, RecordCall
<1>16. ASSUME NEW m \in Msgs, WorkerAnswers(m), UNCHANGED <<stream, post>> PROVE WaitMoves
  BY <1>16 DEF WorkerAnswers, Proceed
<1>17. ASSUME NEW m \in Msgs, WorkerFails(m), UNCHANGED <<stream, post>> PROVE WaitMoves
  BY <1>17 DEF WorkerFails, Proceed
<1>18. ASSUME NEW m \in Msgs, DeliverCallback(m), UNCHANGED <<stream, post>> PROVE
     WaitMoves
  BY <1>18 DEF DeliverCallback, Proceed, Deliver
<1>19. ASSUME NEW m \in Msgs, DeliverErrorCallback(m), UNCHANGED <<stream, post>> PROVE
     WaitMoves
  BY <1>19 DEF DeliverErrorCallback, Proceed, Deliver
<1>20. ASSUME NEW m \in Msgs, Complete(m), UNCHANGED <<stream, post>> PROVE WaitMoves
  BY <1>20 DEF Complete, Proceed, MarkComplete
<1>21. ASSUME NEW m \in Msgs, ScheduleNext(m), UNCHANGED <<stream, post>> PROVE WaitMoves
  BY <1>21 DEF ScheduleNext, Proceed, Trigger
<1>22. ASSUME NEW m \in Msgs, CommandRaises(m), UNCHANGED <<stream, post>> PROVE WaitMoves
  BY <1>22 DEF CommandRaises, HandlersStay
<1>23. ASSUME NEW s \in Streams, LengthPositive(s), UNCHANGED post PROVE WaitMoves
  BY <1>23 DEF LengthPositive, Advance, Trigger
<1>24. ASSUME NEW s \in Streams, LengthZero(s), UNCHANGED post PROVE WaitMoves
  BY <1>24 DEF LengthZero, Advance
<1>25. ASSUME NEW s \in Streams, ProcessingFound(s), UNCHANGED post PROVE WaitMoves
  BY <1>25 DEF ProcessingFound, Advance, Trigger
<1>26. ASSUME NEW s \in Streams, NoWorkFound(s), UNCHANGED post PROVE WaitMoves
  BY <1>26 DEF NoWorkFound, Advance
<1>27. ASSUME NEW s \in Streams, StartStreaming(s), UNCHANGED post PROVE WaitMoves
  BY <1>27 DEF StartStreaming, Advance, RecordCall, WaitInv
<1>28. ASSUME NEW s \in Streams, HandoffTimeout(s), UNCHANGED post PROVE WaitMoves
  <2>1. streamLeft[s] = 0 \/ future[s] = "cancelled"
    BY <1>28 DEF HandoffTimeout, Advance, InTime, HandlersStay
  <2>2. /\ stream[s] = "waiting" /\ stream' = [stream EXCEPT ![s] = "closing"]
        /\ UNCHANGED <<registry, events, proc>>
        /\ \A t \in Streams : t # s => future'[t] = future[t] /\ stream'[t] = stream[t]
    BY <1>28 DEF HandoffTimeout, Advance, CancelFuture
  <2>3. ASSUME NEW m \in Msgs, proc[m] = "waiting" PROVE registry[m] # s
    <3>1. registry[m] = s => future[s] = "pending" /\ streamLeft[s] = HandoffLimit
      BY <2>2, <2>3 DEF WaitInv
    <3> QED
      BY <2>1, <3>1 DEF HandlersStay
  <2> QED
    BY <2>2, <2>3
<1>29. ASSUME NEW s \in Streams, FutureCancelled(s), UNCHANGED post PROVE WaitMoves
  BY <1>29 DEF FutureCancelled, Advance, WaitInv
<1>30. ASSUME NEW s \in Streams, StreamEnds(s), UNCHANGED post PROVE WaitMoves
  BY <1>30 DEF StreamEnds, Advance, WaitInv
<1>31. ASSUME NEW s \in Streams, StreamUnregisters(s), UNCHANGED post PROVE WaitMoves
  BY <1>31 DEF StreamUnregisters, Advance, Unregister, WaitInv, RegistryInv
<1>32. ASSUME NEW s \in Streams, StreamCompletes(s), UNCHANGED post PROVE WaitMoves
  BY <1>32 DEF StreamCompletes, Advance, MarkComplete, WaitInv
<1>33. ASSUME NEW s \in Streams, StreamTriggers(s), UNCHANGED post PROVE WaitMoves
  BY <1>33 DEF StreamTriggers, Advance, Trigger, WaitInv
<1>34. ASSUME NEW s \in Streams, StreamCommandRaises(s), UNCHANGED post PROVE WaitMoves
  BY <1>34 DEF StreamCommandRaises, HandlersStay
<1>35. ASSUME NEW s \in Streams, Disconnect(s), UNCHANGED post PROVE WaitMoves
  BY <1>35 DEF Disconnect, HandlersStay
<1>36. ASSUME NEW s \in Streams, DisconnectUncaught(s), UNCHANGED post PROVE WaitMoves
  BY <1>36 DEF DisconnectUncaught, HandlersStay
<1>37. ASSUME NEW u \in Users, LockExpires(u) PROVE WaitMoves
  BY <1>37 DEF LockExpires, ProcessingExpires
<1>38. ASSUME Crash PROVE WaitMoves
  BY <1>38 DEF Crash, ProcessEnds, RegistryLost, Active, Live
<1>39. CASE UNCHANGED vars
  BY <1>39 DEF vars
<1> QED
  BY <1>1, <1>2, <1>3, <1>4, <1>5, <1>6, <1>7, <1>8, <1>9, <1>10, <1>11, <1>12, <1>13,
       <1>14, <1>15, <1>16, <1>17, <1>18, <1>19, <1>20, <1>21, <1>22, <1>23, <1>24, <1>25, <1>26,
       <1>27, <1>28, <1>29, <1>30, <1>31, <1>32, <1>33, <1>34, <1>35, <1>36, <1>37, <1>38, <1>39
     DEF Next, ClientStep, Run, Work, TaskStep, ProcessorStep, WorkerReturns, StreamStep,
         WorkerStreamEnds, TaskFault, ProcessorFault, StreamFault

LEMMA WaitStep == HandlersStay /\ BaseInv /\ WaitInv /\ [LeaseNext]_leaseVars => WaitInv'
<1> SUFFICES ASSUME HandlersStay, BaseInv, WaitInv, [LeaseNext]_leaseVars PROVE WaitInv'
  OBVIOUS
<1>0. TypeOK /\ TypeOK'
  BY LeaseKeepsBase DEF BaseInv
<1>1. CASE TimedStep
  <2>1. WaitMoves
    BY <1>1, StepWaitMoves DEF TimedStep, Next, Run
  <2>2. /\ \A s \in Streams : stream'[s] = stream[s] => streamLeft'[s] = streamLeft[s]
        /\ \A s \in Streams : stream'[s] = "waiting" /\ stream[s] # "waiting" =>
               streamLeft'[s] = HandoffLimit
    BY <1>1 DEF TimedStep, SetTimers, StreamLimit
  <2> SUFFICES ASSUME NEW m \in Msgs, proc'[m] = "waiting"
               PROVE  /\ events'[m] \in {"armed", "set"}
                      /\ events'[m] = "armed" => registry'[m] = NoStream
                      /\ \A s \in Streams : registry'[m] = s =>
                             /\ future'[s] = "pending"
                             /\ \/ stream'[s] \in {"checkLength", "checkProcessing"}
                                \/ stream'[s] = "waiting" /\ streamLeft'[s] = HandoffLimit
    BY DEF WaitInv, IsRegistered
  <2>3. registry'[m] \in Streams \cup {NoStream}
    BY <1>0 DEF TypeOK, RegistryTypeOK
  <2> QED
    BY <2>1, <2>2, <2>3, RequestAssumption DEF WaitMoves, WaitInv, IsRegistered
<1>2. ASSUME NEW u \in Users, LeaseEnds(u) PROVE WaitInv'
  <2>1. UNCHANGED <<registry, future, events, proc, stream>> /\ SetTimers
    BY <1>2 DEF LeaseEnds, registryVars, processorVars
  <2>2. \A s \in Streams : streamLeft'[s] = streamLeft[s]
    BY <2>1 DEF SetTimers
  <2> QED
    BY <2>1, <2>2 DEF WaitInv, IsRegistered
<1>3. CASE Tick
  <2>1. /\ UNCHANGED <<registry, future, events, proc, stream>>
        /\ \A m \in Msgs : proc[m] = "waiting" => events[m] = "armed"
    BY <1>3 DEF Tick, Quiet, vars, registryVars, processorVars
  <2>2. \A m \in Msgs : proc[m] = "waiting" => registry[m] = NoStream
    BY <2>1 DEF WaitInv, IsRegistered
  <2> QED
    BY <2>1, <2>2, RequestAssumption DEF WaitInv, IsRegistered
<1>4. CASE UNCHANGED leaseVars
  <2>1. UNCHANGED <<registry, future, events, proc, stream, streamLeft>>
    BY <1>4 DEF leaseVars, timers, vars, registryVars, processorVars
  <2> QED
    BY <2>1 DEF WaitInv, IsRegistered
<1> QED
  BY <1>1, <1>2, <1>3, <1>4 DEF LeaseNext

\* "Set processing TTL to worker_timeout + 60s buffer to prevent lock expiry"
\* (main.py:33): whatever the times are, a lease that is longer than a
\* registration with a stream, and than a call with its callback, covers all
\* work, with Redis errors, disconnects and crashes.
THEOREM LeaseLongEnough ==
    ASSUME OneStreamEach, LeaseIsLong PROVE LeaseSpec => []LeaseCoversWork
<1>1. LeaseInit => LeaseInv
  BY LeaseIsLong, LeaseInitHolds
<1>2. LeaseInv /\ [LeaseNext]_leaseVars => LeaseInv'
  BY OneStreamEach, LeaseIsLong, LeaseStep
<1>3. LeaseInv => LeaseCoversWork
  BY DEF LeaseInv, LockInv, LeaseCoversWork
<1> QED
  BY <1>1, <1>2, <1>3, PTL DEF LeaseSpec

\* The broker with clocks takes only steps of the broker whose locks outlast
\* the work, which the other theorems are about.
LEMMA TimersAreBrokerSteps ==
    ASSUME OneStreamEach, LeaseIsLong PROVE LeaseSpec => [][Next]_vars
<1>1. LeaseInit => LeaseInv
  BY LeaseIsLong, LeaseInitHolds
<1>2. LeaseInv /\ [LeaseNext]_leaseVars => LeaseInv'
  BY OneStreamEach, LeaseIsLong, LeaseStep
<1>3. LeaseInv /\ [LeaseNext]_leaseVars => [Next]_vars
  BY LeaseIsLong, LeaseStepInBroker
<1> QED
  BY <1>1, <1>2, <1>3, PTL DEF LeaseSpec

\* A message is discarded as "no stream registration" (message_processor.py:220)
\* only if no stream was registered for it before the timer fired, unless one
\* came at that very moment: for any limits and any number of streams for the
\* message, with crashes, also when the lock expires under the work.
THEOREM DiscardedOnlyIfLate == ASSUME HandlersStay PROVE LeaseSpec => DiscardOnlyIfLate
<1>1. LeaseInit => BaseInv /\ WaitInv
  <2> SUFFICES ASSUME LeaseInit PROVE BaseInv /\ WaitInv
    OBVIOUS
  <2>1. BaseInv /\ \A m \in Msgs : proc[m] # "waiting"
    BY LeftBehind
  <2> QED
    BY <2>1 DEF WaitInv
<1>2. BaseInv /\ WaitInv /\ [LeaseNext]_leaseVars => BaseInv' /\ WaitInv'
  BY HandlersStay, LeaseKeepsBase, WaitStep
<1>3. BaseInv /\ WaitInv =>
          [\A m \in Msgs :
             proc[m] = "waiting" /\ proc'[m] = "completing" /\ IsRegistered(m) =>
                 JustOpened(registry[m])]_leaseVars
  <2> SUFFICES ASSUME BaseInv, WaitInv, NEW m \in Msgs, proc[m] = "waiting", IsRegistered(m)
               PROVE  JustOpened(registry[m])
    OBVIOUS
  <2>1. registry[m] \in Streams
    BY DEF BaseInv, TypeOK, RegistryTypeOK, IsRegistered
  <2> QED
    BY <2>1 DEF WaitInv, JustOpened
<1> QED
  BY <1>1, <1>2, <1>3, PTL DEF LeaseSpec, DiscardOnlyIfLate

---------------------------------------------------------------------------
(* What the broker promises, of the broker with clocks. *)

\* The start on what a crash has left, and every step, keep the invariants
\* behind the promises.
LEMMA LeaseInitOrder == LeaseInit => OrderInv /\ RecordInv
<1> SUFFICES ASSUME LeaseInit PROVE OrderInv /\ RecordInv
  OBVIOUS
<1> USE RequestAssumption
<1>1. /\ BaseInv
      /\ \A u \in Users : \A i \in 1..Len(queue[u]) :
             /\ queue[u][i] \in Msgs /\ UserOf[queue[u][i]] = u
             /\ arrival[queue[u][i]] = IF processing[u] = NoMsg THEN i ELSE i + 1
      /\ \A m \in Msgs : /\ proc[m] = IF processing[UserOf[m]] = m THEN "dead" ELSE "none"
                         /\ post[m] = "new" <=> ~Stored(m)
      /\ \A s \in Streams : future[s] = "none" /\ stream[s] = "idle"
  BY LeftBehind
<1>2. /\ \A u \in Users : sent[u] = <<>> /\ Len(sent[u]) = 0
      /\ \A m \in Msgs : delivered[m] = {}
      /\ \A m \in Msgs : post[m] = "replied" => metadata[m]
      /\ \A m \in Msgs : arrival[m] = 0 <=> ~Stored(m)
      /\ \A m \in Msgs : arrival[m] \in 0..pushes
      /\ \A u \in Users : processing[u] # NoMsg =>
             UserOf[processing[u]] = u /\ arrival[processing[u]] = 1
      /\ processing \in [Users -> Msgs \cup {NoMsg}]
      /\ pushes \in Nat
  BY FiniteAssumption, FS_CardinalityType DEF LeaseInit
<1>3. LockInv
  <2>1. \A m \in Msgs : proc[m] \in {"none", "dead"}
    BY <1>1
  <2> QED
    BY <1>1, <2>1 DEF LockInv, TaskHoldsLock, HandlerHoldsLock, CallsAreCallbacks, AtWork, HandedTo
<1>4. SentInv /\ AtMostOnce /\ SentInArrivalOrder /\ CallInv
  BY <1>2 DEF SentInv, AtMostOnce, SentInArrivalOrder, CallInv
<1>5. ArrivalInv
  BY <1>1, <1>2 DEF ArrivalInv
<1>6. QueueOrder
  BY <1>1 DEF QueueOrder
<1>7. TakenInv
  <2> SUFFICES ASSUME NEW m \in Msgs, proc[m] # "none", NEW i \in 1..Len(queue[UserOf[m]])
               PROVE  arrival[m] < arrival[queue[UserOf[m]][i]]
    BY DEF TakenInv
  <2>1. processing[UserOf[m]] = m /\ UserOf[m] \in Users /\ m # NoMsg
    BY <1>1
  <2>2. arrival[m] = 1 /\ arrival[queue[UserOf[m]][i]] = i + 1
    BY <1>1, <1>2, <2>1
  <2> QED
    BY <2>2
<1>8. VerdictInv
  BY <1>2 DEF VerdictInv
<1>9. ServingInv
  BY <1>1, <1>2 DEF ServingInv
<1>10. MetadataInv
  BY <1>1, <1>2 DEF MetadataInv
<1> QED
  BY <1>1, <1>3, <1>4, <1>5, <1>6, <1>7, <1>8, <1>9, <1>10 DEF OrderInv, RecordInv

LEMMA LeaseKeepsPromises ==
    ASSUME OneStreamEach, LeaseIsLong PROVE LeaseSpec => [](OrderInv /\ RecordInv)
<1>1. LeaseInit => LeaseInv
  BY LeaseIsLong, LeaseInitHolds
<1>2. LeaseInv /\ [LeaseNext]_leaseVars => LeaseInv'
  BY OneStreamEach, LeaseIsLong, LeaseStep
<1>3. LeaseInv /\ [LeaseNext]_leaseVars => [Next]_vars
  BY LeaseIsLong, LeaseStepInBroker
<1>4. OrderInv /\ RecordInv /\ [Next]_vars => OrderInv' /\ RecordInv'
  BY OneStreamEach, OrderStep, RecordStep
<1> QED
  BY <1>1, <1>2, <1>3, <1>4, LeaseInitOrder, PTL DEF LeaseSpec

\* With the lock as a lease instead of one that outlasts the work: never two
\* calls of a user at a time, from a start on whatever a crash has left.
THEOREM LeaseOneCallAtATime ==
    ASSUME OneStreamEach, LeaseIsLong PROVE LeaseSpec => []OneAtATime
<1>1. OrderInv => OneAtATime
  BY OneStreamEach, LockInvExcludes DEF OrderInv
<1> QED
  BY <1>1, LeaseKeepsPromises, OneStreamEach, LeaseIsLong, PTL

\* ... in the order of the RPUSHes, those before the crash first, ...
THEOREM LeaseSentInOrder ==
    ASSUME OneStreamEach, LeaseIsLong PROVE LeaseSpec => []SentInArrivalOrder
<1>1. OrderInv => SentInArrivalOrder
  BY DEF OrderInv
<1> QED
  BY <1>1, LeaseKeepsPromises, OneStreamEach, LeaseIsLong, PTL

\* ... each step one of PerUserFifo, which may begin with what was left in
\* Redis (the initial states differ in that), ...
THEOREM LeaseStepsAreFifo ==
    ASSUME OneStreamEach, LeaseIsLong PROVE LeaseSpec => KeepsFifo
<1>1. OrderInv /\ [Next]_vars => [Fifo!Next]_(Fifo!vars)
  BY OneStreamEach, StepIsFifo
<1>2. LeaseSpec => [][Next]_vars
  BY TimersAreBrokerSteps, OneStreamEach, LeaseIsLong
<1> QED
  BY <1>1, <1>2, LeaseKeepsPromises, OneStreamEach, LeaseIsLong, PTL DEF KeepsFifo

\* ... and no lock but that of who completes its message goes away early: a
\* lease that ends is that of work that has ended or died.
THEOREM LeaseReleasedByOwner ==
    ASSUME OneStreamEach, LeaseIsLong PROVE LeaseSpec => LockReleasedByOwner
<1> DEFINE Released ==
      \A u \in Users :
        processing[u] # NoMsg /\ processing'[u] # processing[u] => ReleasedByOwner(u)
<1>1. OrderInv /\ [Next]_vars => [Released]_vars
  BY OneStreamEach, ReleaseStep DEF OneStreamEach, OrderInv, LockInv, BaseInv
<1>2. LeaseSpec => [][Next]_vars
  BY TimersAreBrokerSteps, OneStreamEach, LeaseIsLong
<1>3. LeaseSpec => [][Released]_vars
  BY <1>1, <1>2, LeaseKeepsPromises, OneStreamEach, LeaseIsLong, PTL
<1> QED
  BY <1>3 DEF LockReleasedByOwner

\* What needs no long lease: the promises for a single message.
LEMMA LeaseKeepsMessages == LeaseSpec => [](OnceInv /\ RecordInv)
<1>1. LeaseInit => OnceInv /\ RecordInv
  BY LeaseInitOrder DEF OrderInv, LockInv, OnceInv
<1>2. OnceInv /\ RecordInv /\ [LeaseNext]_leaseVars => OnceInv' /\ RecordInv'
  <2> SUFFICES ASSUME OnceInv, RecordInv, [LeaseNext]_leaseVars PROVE OnceInv' /\ RecordInv'
    OBVIOUS
  <2>1. CASE TimedStep
    BY <2>1, OnceStep, RecordStep DEF TimedStep, Next, Run
  <2>2. ASSUME NEW u \in Users, LeaseEnds(u) PROVE OnceInv' /\ RecordInv'
    <3>1. /\ processing' = [processing EXCEPT ![u] = NoMsg]
          /\ UNCHANGED <<metadata, delivered, sent, proc, future, stream, post>>
      BY <2>2 DEF LeaseEnds, ProcessingExpires, registryVars, processorVars
    <3>2. SentInv' /\ AtMostOnce'
      BY <3>1 DEF OnceInv, SentInv, AtMostOnce
    <3>3. VerdictInv' /\ MetadataInv'
      BY <3>1 DEF RecordInv, VerdictInv, MetadataInv
    <3>4. ServingInv'
      BY <3>1 DEF RecordInv, ServingInv, BaseInv, TypeOK, QueueTypeOK
    <3> QED
      BY <3>2, <3>3, <3>4, LeaseKeepsBase DEF OnceInv, RecordInv
  <2>3. CASE Tick
    <3>1. UNCHANGED vars
      BY <2>3 DEF Tick
    <3> QED
      BY <3>1, OnceStep, RecordStep
  <2>4. CASE UNCHANGED leaseVars
    <3>1. UNCHANGED vars
      BY <2>4 DEF leaseVars
    <3> QED
      BY <3>1, OnceStep, RecordStep
  <2> QED
    BY <2>1, <2>2, <2>3, <2>4 DEF LeaseNext
<1> QED
  BY <1>1, <1>2, PTL DEF LeaseSpec

\* Whether the lease is long or not, a message reaches the worker at most once, ...
THEOREM LeaseCallsOnce == LeaseSpec => []AtMostOnce
<1>1. OnceInv => AtMostOnce
  BY DEF OnceInv
<1> QED
  BY <1>1, LeaseKeepsMessages, PTL

\* ... its client gets at most one verdict, ...
THEOREM LeaseOneVerdict == LeaseSpec => []SingleVerdict
<1>1. RecordInv => SingleVerdict
  BY RecordGivesVerdict
<1> QED
  BY <1>1, LeaseKeepsMessages, PTL

\* ... and while it waits in a queue its metadata is there.
THEOREM LeaseKeepsMetadata == LeaseSpec => []QueuedHasMetadata
<1>1. RecordInv => QueuedHasMetadata
  BY RecordGivesMetadata
<1> QED
  BY <1>1, LeaseKeepsMessages, PTL

============================================================================
