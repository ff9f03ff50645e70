---------------------------- MODULE RecordProofs ----------------------------
(***************************************************************************)
(* What the broker keeps of a message, its verdict and its metadata, is    *)
(* right under every fault: SingleVerdict and QueuedHasMetadata are        *)
(* invariants of Spec.                                                     *)
(***************************************************************************)
EXTENDS BrokerProofs

\* No callback arrives, and no task that delivered one goes back.
LEMMA VerdictFrame ==
    ASSUME VerdictInv, UNCHANGED delivered,
           \A m \in Msgs : proc[m] \in AfterDelivery => proc'[m] \in AfterDelivery
    PROVE  VerdictInv'
BY DEF VerdictInv

\* Locks are at most released.
LEMMA ServingFrame ==
    ASSUME ServingInv, RequestAssumption, TypeOK,
           \A u \in Users : processing'[u] \in {processing[u], NoMsg},
           \A m \in Msgs : proc[m] # "none" => proc'[m] # "none"
    PROVE  ServingInv'
<1> SUFFICES ASSUME NEW u \in Users, processing'[u] # NoMsg
             PROVE  UserOf[processing'[u]] = u /\ proc'[processing'[u]] # "none"
  BY DEF ServingInv
<1>1. processing'[u] = processing[u] /\ processing[u] \in Msgs
  BY DEF TypeOK, QueueTypeOK
<1>2. UserOf[processing[u]] = u /\ proc[processing[u]] # "none"
  BY <1>1 DEF ServingInv
<1> QED
  BY <1>1, <1>2

\* No message is accepted and no hash deleted.
LEMMA MetadataFrame ==
    ASSUME MetadataInv,
           \A m \in Msgs : metadata[m] => metadata'[m],
           \A m \in Msgs : proc'[m] = "none" => proc[m] = "none",
           \A m \in Msgs : post'[m] = "replied" => post[m] = "replied"
    PROVE  MetadataInv'
BY DEF MetadataInv

\* The compare-and-delete deletes no hash of a message that is queued: the
\* lock names a message that was dequeued.
LEMMA CompletionKeepsRecord ==
    ASSUME TypeOK, ServingInv, MetadataInv, NEW m \in Msgs, MarkComplete(m), UNCHANGED post,
           \A k \in Msgs : proc[k] # "none" <=> proc'[k] # "none"
    PROVE  ServingInv' /\ MetadataInv'
<1> USE RequestAssumption DEF TypeOK, QueueTypeOK
<1>1. \A u \in Users : processing'[u] \in {processing[u], NoMsg}
  BY DEF MarkComplete
<1>2. \A k \in Msgs : metadata[k] /\ ~metadata'[k] => k = m /\ processing[UserOf[m]] = m
  BY DEF MarkComplete
<1>3. processing[UserOf[m]] = m => proc[m] # "none"
  BY DEF ServingInv
<1>4. MetadataInv'
  <2> SUFFICES ASSUME NEW k \in Msgs, post'[k] = "replied", proc'[k] = "none" PROVE metadata'[k]
    BY DEF MetadataInv
  <2>1. proc[k] = "none" /\ post[k] = "replied"
    OBVIOUS
  <2>2. metadata[k]
    BY <2>1, Zenon DEF MetadataInv
  <2> QED
    BY <1>2, <1>3, <2>1, <2>2
<1>5. \A k \in Msgs : proc[k] # "none" => proc'[k] # "none"
  OBVIOUS
<1>6. ServingInv'
  BY <1>1, <1>5, ServingFrame
<1> QED
  BY <1>4, <1>6

\* One callback is not both.
LEMMA VerdictsDiffer ==
    {"completed"} # {"completed", "error"} /\ {"error"} # {"completed", "error"}
<1>1. "error" \notin {"completed"} /\ "completed" \notin {"error"}
  OBVIOUS
<1> QED
  BY <1>1

\* Every step preserves RecordInv.
LEMMA RecordStep == RecordInv /\ [Next]_vars => RecordInv'
<1> SUFFICES ASSUME RecordInv, [Next]_vars
             PROVE  VerdictInv' /\ ServingInv' /\ MetadataInv'
  BY BaseStep DEF RecordInv
<1>0. TypeOK /\ QueueInv /\ VerdictInv /\ ServingInv /\ MetadataInv
  BY DEF RecordInv, BaseInv
<1> DEFINE Preserved == VerdictInv' /\ ServingInv' /\ MetadataInv'
<1> USE <1>0, RequestAssumption, VerdictFrame, ServingFrame, MetadataFrame
    DEF TypeOK, QueueTypeOK, RegistryTypeOK, ProcessorTypeOK, StreamTypeOK,
        queueVars, registryVars, processorVars, AfterDelivery

<1>1. ASSUME NEW m \in Msgs, SubmitPush(m) PROVE Preserved
  BY <1>1 DEF SubmitPush, Enqueue
<1>2. ASSUME NEW m \in Msgs, SubmitReply(m) PROVE Preserved
  <2>1. MetadataInv'
    BY <1>2 DEF SubmitReply, StoreMetadata, MetadataInv
  <2> QED
    BY <1>2, <2>1 DEF SubmitReply, StoreMetadata, Trigger
<1>3. ASSUME NEW m \in Msgs, SubmitRaises(m) PROVE Preserved
  BY <1>3 DEF SubmitRaises
<1>4. ASSUME NEW m \in Msgs, SubmitLosesReply(m) PROVE Preserved
  BY <1>4 DEF SubmitLosesReply, StoreMetadata
<1>5. ASSUME NEW s \in Streams, ClientOpens(s) PROVE Preserved
  BY <1>5 DEF ClientOpens, OpenStream, Advance, Register
<1>6. ASSUME NEW u \in Users, ProcessNone(u), UNCHANGED <<stream, post>> PROVE Preserved
  BY <1>6 DEF ProcessNone, DequeueNone
<1>7. ASSUME NEW u \in Users, NEW m \in Msgs, ProcessDequeue(u, m), UNCHANGED <<stream,
     post>> PROVE Preserved
  <2>1. proc[m] = "none" /\ UserOf[m] = u
    BY <1>7, DequeuedIsNew DEF ProcessDequeue
  <2>2. processing' = [processing EXCEPT ![u] = m] /\ proc' = [proc EXCEPT ![m] = "dequeued"]
    BY <1>7 DEF ProcessDequeue, Dequeue
  <2>3. ServingInv'
    <3> SUFFICES ASSUME NEW v \in Users, processing'[v] # NoMsg
                 PROVE  UserOf[processing'[v]] = v /\ proc'[processing'[v]] # "none"
      BY DEF ServingInv
    <3>1. CASE v = u
      BY <2>1, <2>2, <3>1
    <3>2. CASE v # u
      BY <2>1, <2>2, <3>2 DEF ServingInv
    <3> QED
      BY <3>1, <3>2
  <2>4. VerdictInv' /\ MetadataInv'
    BY <1>7, <2>1 DEF ProcessDequeue, Dequeue
  <2> QED
    BY <2>3, <2>4
<1>8. ASSUME NEW u \in Users, DequeueRaises(u), UNCHANGED <<stream, post>> PROVE Preserved
  BY <1>8 DEF DequeueRaises
<1>9. ASSUME NEW m \in Msgs, StoreStartedAt(m), UNCHANGED <<stream, post>> PROVE Preserved
  BY <1>9 DEF StoreStartedAt, Proceed, StoreMetadata
<1>10. ASSUME NEW m \in Msgs, HandOffRegistered(m), UNCHANGED <<stream, post>> PROVE
     Preserved
  BY <1>10 DEF HandOffRegistered, Proceed, HandOff
<1>11. ASSUME NEW m \in Msgs, AwaitStream(m), UNCHANGED <<stream, post>> PROVE Preserved
  BY <1>11 DEF AwaitStream, Proceed, ArmEvent
<1>12. ASSUME NEW m \in Msgs, RegistrationArrives(m), UNCHANGED <<stream, post>> PROVE
     Preserved
  BY <1>12 DEF RegistrationArrives, Proceed, DropEvent, HandOff
<1>13. ASSUME NEW m \in Msgs, RegistrationGone(m), UNCHANGED <<stream, post>> PROVE
     Preserved
  BY <1>13 DEF RegistrationGone, Proceed, DropEvent
<1>14. ASSUME NEW m \in Msgs, RegistrationTimeout(m), UNCHANGED <<stream, post>> PROVE
     Preserved
  BY <1>14 DEF RegistrationTimeout, Proceed, DropEvent
<1>15. ASSUME NEW m \in Msgs, CallWorker(m), UNCHANGED <<stream, post>> PROVE Preserved
  BY <1>15 DEF CallWorker, Proceed, RecordCall
<1>16. ASSUME NEW m \in Msgs, WorkerAnswers(m), UNCHANGED <<stream, post>> PROVE Preserved
  BY <1>16 DEF WorkerAnswers, Proceed
<1>17. ASSUME NEW m \in Msgs, WorkerFails(m), UNCHANGED <<stream, post>> PROVE Preserved
  BY <1>17 DEF WorkerFails, Proceed
<1>18. ASSUME NEW m \in Msgs, DeliverCallback(m), UNCHANGED <<stream, post>> PROVE
     Preserved
  <2>1. delivered[m] = {} /\ proc' = [proc EXCEPT ![m] = "completing"]
    BY <1>18 DEF DeliverCallback, Proceed, VerdictInv, AfterDelivery
  <2>2. \A k \in Msgs : delivered'[k] = delivered[k] \/ (k = m /\ delivered'[k] = {"completed"})
    BY <1>18, <2>1 DEF DeliverCallback, Deliver
  <2>3. VerdictInv'
    BY <2>1, <2>2, VerdictsDiffer DEF VerdictInv, AfterDelivery
  <2> QED
    BY <1>18, <2>1, <2>3 DEF DeliverCallback, Deliver
<1>19. ASSUME NEW m \in Msgs, DeliverErrorCallback(m), UNCHANGED <<stream, post>> PROVE
     Preserved
  <2>1. delivered[m] = {} /\ proc' = [proc EXCEPT ![m] = "completing"]
    BY <1>19 DEF DeliverErrorCallback, Proceed, VerdictInv, AfterDelivery
  <2>2. \A k \in Msgs : delivered'[k] = delivered[k] \/ (k = m /\ delivered'[k] = {"error"})
    BY <1>19, <2>1 DEF DeliverErrorCallback, Deliver
  <2>3. VerdictInv'
    BY <2>1, <2>2, VerdictsDiffer DEF VerdictInv, AfterDelivery
  <2> QED
    BY <1>19, <2>1, <2>3 DEF DeliverErrorCallback, Deliver
<1>20. ASSUME NEW m \in Msgs, Complete(m), UNCHANGED <<stream, post>> PROVE Preserved
  <2>1. MarkComplete(m) /\ UNCHANGED <<delivered, post>>
    BY <1>20 DEF Complete
  <2>2. \A k \in Msgs : proc[k] # "none" <=> proc'[k] # "none"
    BY <1>20 DEF Complete, Proceed
  <2>3. ServingInv' /\ MetadataInv'
    BY <2>1, <2>2, CompletionKeepsRecord
  <2>4. VerdictInv'
    BY <1>20 DEF Complete, Proceed
  <2> QED
    BY <2>3, <2>4
<1>21. ASSUME NEW m \in Msgs, ScheduleNext(m), UNCHANGED <<stream, post>> PROVE Preserved
  BY <1>21 DEF ScheduleNext, Proceed, Trigger
<1>22. ASSUME NEW m \in Msgs, CommandRaises(m), UNCHANGED <<stream, post>> PROVE Preserved
  BY <1>22 DEF CommandRaises
<1>23. ASSUME NEW s \in Streams, LengthPositive(s), UNCHANGED post PROVE Preserved
  BY <1>23 DEF LengthPositive, Advance, Trigger
<1>24. ASSUME NEW s \in Streams, LengthZero(s), UNCHANGED post PROVE Preserved
  BY <1>24 DEF LengthZero, Advance
<1>25. ASSUME NEW s \in Streams, ProcessingFound(s), UNCHANGED post PROVE Preserved
  BY <1>25 DEF ProcessingFound, Advance, Trigger
<1>26. ASSUME NEW s \in Streams, NoWorkFound(s), UNCHANGED post PROVE Preserved
  BY <1>26 DEF NoWorkFound, Advance
<1>27. ASSUME NEW s \in Streams, StartStreaming(s), UNCHANGED post PROVE Preserved
  BY <1>27 DEF StartStreaming, Advance, RecordCall
<1>28. ASSUME NEW s \in Streams, HandoffTimeout(s), UNCHANGED post PROVE Preserved
  BY <1>28 DEF HandoffTimeout, Advance, CancelFuture
<1>29. ASSUME NEW s \in Streams, FutureCancelled(s), UNCHANGED post PROVE Preserved
  BY <1>29 DEF FutureCancelled, Advance
<1>30. ASSUME NEW s \in Streams, StreamEnds(s), UNCHANGED post PROVE Preserved
  BY <1>30 DEF StreamEnds, Advance
<1>31. ASSUME NEW s \in Streams, StreamUnregisters(s), UNCHANGED post PROVE Preserved
  BY <1>31 DEF StreamUnregisters, Advance, Unregister
<1>32. ASSUME NEW s \in Streams, StreamCompletes(s), UNCHANGED post PROVE Preserved
  <2>1. MarkComplete(StreamMsg[s]) /\ UNCHANGED <<delivered, post>>
    BY <1>32 DEF StreamCompletes
  <2>2. \A k \in Msgs : proc[k] # "none" <=> proc'[k] # "none"
    BY <1>32 DEF StreamCompletes, Advance
  <2>3. ServingInv' /\ MetadataInv'
    BY <2>1, <2>2, CompletionKeepsRecord
  <2>4. VerdictInv'
    BY <1>32 DEF StreamCompletes, Advance
  <2> QED
    BY <2>3, <2>4
<1>33. ASSUME NEW s \in Streams, StreamTriggers(s), UNCHANGED post PROVE Preserved
  BY <1>33 DEF StreamTriggers, Advance, Trigger
<1>34. ASSUME NEW s \in Streams, StreamCommandRaises(s), UNCHANGED post PROVE Preserved
  BY <1>34 DEF StreamCommandRaises
<1>35. ASSUME NEW s \in Streams, Disconnect(s), UNCHANGED post PROVE Preserved
  BY <1>35 DEF Disconnect, CancelFuture
<1>36. ASSUME NEW s \in Streams, DisconnectUncaught(s), UNCHANGED post PROVE Preserved
  BY <1>36 DEF DisconnectUncaught
<1>37. ASSUME NEW u \in Users, LockExpires(u) PROVE Preserved
  BY <1>37 DEF LockExpires, ProcessingExpires
<1>38. ASSUME Crash PROVE Preserved
  BY <1>38 DEF Crash, ProcessEnds, RegistryLost, Active, Live
<1>39. CASE UNCHANGED vars
  BY <1>39 DEF vars
<1> QED
  BY <1>1, <1>2, <1>3, <1>4, <1>5, <1>6, <1>7, <1>8, <1>9, <1>10, <1>11, <1>12, <1>13,
       <1>14, <1>15, <1>16, <1>17, <1>18, <1>19, <1>20, <1>21, <1>22, <1>23, <1>24, <1>25, <1>26,
       <1>27, <1>28, <1>29, <1>30, <1>31, <1>32, <1>33, <1>34, <1>35, <1>36, <1>37, <1>38, <1>39
     DEF Next, ClientStep, Run, Work, TaskStep, ProcessorStep, WorkerReturns, StreamStep,
         WorkerStreamEnds, TaskFault, ProcessorFault, StreamFault

LEMMA RecordInit == Init => RecordInv
BY BaseInit
   DEF RecordInv, VerdictInv, ServingInv, MetadataInv, Init, QueueInit, ProcessorInit

\* A message has at most one verdict: a task delivers once, and only where
\* nothing was handed over, so that no stream of the message ever runs.
LEMMA RecordGivesVerdict == RecordInv => SingleVerdict
BY DEF RecordInv, BaseInv, HandoffInv, VerdictInv, AfterDelivery, SingleVerdict

\* A queued message has not been dequeued, so its metadata is there.
LEMMA RecordGivesMetadata == RecordInv => QueuedHasMetadata
<1> SUFFICES ASSUME RecordInv, NEW m \in Msgs, post[m] = "replied", m \in Range(queue[UserOf[m]])
             PROVE  metadata[m]
  BY DEF QueuedHasMetadata
<1>1. PICK i \in DOMAIN queue[UserOf[m]] : queue[UserOf[m]][i] = m
  BY DEF Range
<1>2. UserOf[m] \in Users /\ DOMAIN queue[UserOf[m]] = 1..Len(queue[UserOf[m]])
  BY RequestAssumption DEF RecordInv, BaseInv, TypeOK, QueueTypeOK
<1>3. proc[m] = "none"
  BY <1>1, <1>2 DEF RecordInv, BaseInv, QueueInv
<1> QED
  BY <1>3 DEF RecordInv, MetadataInv

\* A client gets at most one callback for a message (the deliveries of
\* message_processor.py:243-263 exclude each other), and none next to a stream.
THEOREM OneVerdict == Spec => []SingleVerdict
<1> QED
  BY RecordInit, RecordStep, RecordGivesVerdict, PTL DEF Spec

\* A queued message that was accepted keeps its hash: no late or repeated
\* completion (MARK_COMPLETE_SCRIPT) deletes it.
THEOREM MetadataKept == Spec => []QueuedHasMetadata
<1> QED
  BY RecordInit, RecordStep, RecordGivesMetadata, PTL DEF Spec

=============================================================================
