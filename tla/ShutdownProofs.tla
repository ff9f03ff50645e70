--------------------------- MODULE ShutdownProofs ---------------------------
(***************************************************************************)
(* The invariants of the broker and the promise to the worker survive the  *)
(* shutdown: the cancellation of all tasks at once, their finally clauses, *)
(* and the end of the process at any moment.                               *)
(***************************************************************************)
EXTENDS RecordProofs, FifoProofs, Shutdown

KeptInv == OnceInv /\ RecordInv

\* A step of the running process is a step of Broker.
LEMMA KeptStep == KeptInv /\ [Next]_vars => KeptInv'
BY OnceStep, RecordStep DEF KeptInv

\* The process ends: tasks die and handlers close, nothing begins.
LEMMA EndKeeps == KeptInv /\ ProcessEnds => KeptInv'
<1> SUFFICES ASSUME KeptInv, ProcessEnds PROVE KeptInv'
  OBVIOUS
<1>0. /\ TypeOK /\ QueueInv /\ NewInv /\ RegistryInv /\ HandoffInv
      /\ SentInv /\ AtMostOnce /\ VerdictInv /\ ServingInv /\ MetadataInv
  BY DEF KeptInv, OnceInv, RecordInv, BaseInv
<1> USE <1>0, RequestAssumption
    DEF TypeOK, QueueTypeOK, RegistryTypeOK, ProcessorTypeOK, StreamTypeOK,
        queueVars, registryVars, processorVars
<1>1. \A m \in Msgs : /\ proc'[m] = proc[m] \/ (Active(m) /\ proc'[m] = "dead")
                      /\ post'[m] = post[m] \/ post'[m] = "failed"
  BY DEF ProcessEnds
<1>2. \A m \in Msgs : /\ proc[m] = "none" <=> proc'[m] = "none"
                      /\ proc[m] = "handed" <=> proc'[m] = "handed"
                      /\ proc'[m] \in BeforeCall => proc[m] \in BeforeCall
                      /\ proc[m] \in AfterDelivery => proc'[m] \in AfterDelivery
  BY <1>1 DEF Active, BeforeCall, AfterDelivery
<1>3. \A s \in Streams : future'[s] = "none" /\ stream'[s] \in {stream[s], "closed"}
  BY DEF ProcessEnds, RegistryLost
<1>4. \A s \in Streams : stream'[s] # "streaming"
  BY DEF ProcessEnds, Live
<1>5. UNCHANGED <<queueVars, delivered, sent>>
  BY DEF ProcessEnds
<1>6. TypeOK'
  BY DEF ProcessEnds, RegistryLost, ProcStates, StreamStates, PostStates
<1>7. QueueInv' /\ NewInv'
  BY <1>1, <1>2, <1>5, QueueFrame, NewFrame
<1>8. RegistryInv' /\ HandoffInv'
  <2>1. RegistryInv'
    BY DEF ProcessEnds, RegistryLost, RegistryInv
  <2>2. HandoffInv'
    BY <1>3, <1>4 DEF HandoffInv
  <2> QED
    BY <2>1, <2>2
<1>9. SentInv' /\ AtMostOnce'
  BY <1>2, <1>3, <1>5, SentFrame
<1>10. VerdictInv' /\ ServingInv' /\ MetadataInv'
  BY <1>1, <1>2, <1>5, VerdictFrame, ServingFrame, MetadataFrame
<1> QED
  BY <1>6, <1>7, <1>8, <1>9, <1>10 DEF KeptInv, OnceInv, RecordInv, BaseInv

\* The places a CancelledError leads to.
LEMMA CancelPlaces ==
    ASSUME TypeOK, NEW m \in Msgs, NEW next, next = AfterCancel(proc[m])
    PROVE  /\ next \in ProcStates
           /\ next = "none" <=> proc[m] = "none"
           /\ next = "handed" <=> proc[m] = "handed"
           /\ next \in BeforeCall => proc[m] \in BeforeCall
           /\ proc[m] \in AfterDelivery => next \in AfterDelivery
           /\ VerdictOf(proc[m]) # {} =>
                  next \in AfterDelivery /\ proc[m] \notin AfterDelivery
BY DEF TypeOK, ProcessorTypeOK, ProcStates, AfterCancel, VerdictOf, BeforeCall, AfterDelivery

\* The cancellation completes or ends every task at once.  A callback that it
\* interrupts may have arrived, the first and last one of its message.
LEMMA CancelKeeps == KeptInv /\ CancelTasks => KeptInv'
<1> SUFFICES ASSUME KeptInv, CancelTasks PROVE KeptInv'
  OBVIOUS
<1>0. /\ TypeOK /\ QueueInv /\ NewInv /\ RegistryInv /\ HandoffInv
      /\ SentInv /\ AtMostOnce /\ VerdictInv /\ ServingInv /\ MetadataInv
  BY DEF KeptInv, OnceInv, RecordInv, BaseInv
<1> USE <1>0, RequestAssumption
    DEF TypeOK, QueueTypeOK, RegistryTypeOK, ProcessorTypeOK, StreamTypeOK,
        queueVars, registryVars, processorVars
<1>1. /\ UNCHANGED <<queueVars, registry, future, sent, stream, post>>
      /\ tasks' = [u \in Users |-> 0]
      /\ proc' = [m \in Msgs |-> AfterCancel(proc[m])]
      /\ events' = [m \in Msgs |-> IF proc[m] = "waiting" THEN "none" ELSE events[m]]
  BY DEF CancelTasks
<1>2. \A m \in Msgs : /\ proc'[m] \in ProcStates
                      /\ proc'[m] = "none" <=> proc[m] = "none"
                      /\ proc'[m] = "handed" <=> proc[m] = "handed"
                      /\ proc'[m] \in BeforeCall => proc[m] \in BeforeCall
                      /\ proc[m] \in AfterDelivery => proc'[m] \in AfterDelivery
                      /\ VerdictOf(proc[m]) # {} =>
                             proc'[m] \in AfterDelivery /\ proc[m] \notin AfterDelivery
  <2> SUFFICES ASSUME NEW m \in Msgs
               PROVE  /\ proc'[m] \in ProcStates
                      /\ proc'[m] = "none" <=> proc[m] = "none"
                      /\ proc'[m] = "handed" <=> proc[m] = "handed"
                      /\ proc'[m] \in BeforeCall => proc[m] \in BeforeCall
                      /\ proc[m] \in AfterDelivery => proc'[m] \in AfterDelivery
                      /\ VerdictOf(proc[m]) # {} =>
                             proc'[m] \in AfterDelivery /\ proc[m] \notin AfterDelivery
    OBVIOUS
  <2>1. proc'[m] = AfterCancel(proc[m])
    BY <1>1
  <2> QED
    BY <2>1, CancelPlaces
<1>3. PICK arrived \in SUBSET Msgs :
        delivered' = [m \in Msgs |-> IF m \in arrived THEN delivered[m] \cup VerdictOf(proc[m])
                                                      ELSE delivered[m]]
  BY DEF CancelTasks
<1>4. \A m \in Msgs : /\ VerdictOf(proc[m]) \in {{}, {"completed"}, {"error"}}
                      /\ delivered'[m] \in {delivered[m], delivered[m] \cup VerdictOf(proc[m])}
  BY <1>3 DEF VerdictOf
<1>5. VerdictInv'
  <2> SUFFICES ASSUME NEW m \in Msgs
               PROVE  /\ delivered'[m] # {} => proc'[m] \in AfterDelivery
                      /\ delivered'[m] # {"completed", "error"}
    BY DEF VerdictInv
  <2>1. CASE delivered'[m] = delivered[m]
    BY <1>2, <2>1 DEF VerdictInv
  <2>2. CASE delivered'[m] # delivered[m]
    <3>1. VerdictOf(proc[m]) # {} /\ delivered'[m] = delivered[m] \cup VerdictOf(proc[m])
      BY <1>4, <2>2
    <3>2. delivered[m] = {} /\ proc'[m] \in AfterDelivery
      BY <1>2, <3>1 DEF VerdictInv
    <3>3. delivered'[m] \in {{"completed"}, {"error"}}
      BY <1>4, <3>1, <3>2
    <3> QED
      BY <3>2, <3>3, VerdictsDiffer
  <2> QED
    BY <2>1, <2>2
<1>6. TypeOK'
  <2>1. delivered' \in [Msgs -> SUBSET {"completed", "error"}]
    <3> DEFINE D(m) == IF m \in arrived THEN delivered[m] \cup VerdictOf(proc[m])
                                         ELSE delivered[m]
    <3>1. \A m \in Msgs : D(m) \in SUBSET {"completed", "error"}
      <4> SUFFICES ASSUME NEW m \in Msgs PROVE D(m) \in SUBSET {"completed", "error"}
        OBVIOUS
      <4>1. delivered[m] \in SUBSET {"completed", "error"}
        OBVIOUS
      <4>2. VerdictOf(proc[m]) \in SUBSET {"completed", "error"}
        BY DEF VerdictOf
      <4> QED
        BY <4>1, <4>2
    <3>2. delivered' = [m \in Msgs |-> D(m)]
      BY <1>3
    <3> HIDE DEF D
    <3> QED
      BY <3>1, <3>2
  <2>2. proc' \in [Msgs -> ProcStates]
    BY <1>1, <1>2
  <2> QED
    BY <1>1, <2>1, <2>2
<1>7. QueueInv' /\ NewInv' /\ RegistryInv'
  BY <1>1, <1>2, QueueFrame, NewFrame, RegistryFrame
<1>8. HandoffInv'
  BY <1>1, <1>2, HandoffFrame
<1>9. SentInv' /\ AtMostOnce'
  BY <1>1, <1>2, SentFrame
<1>10. ServingInv' /\ MetadataInv'
  BY <1>1, <1>2, ServingFrame, MetadataFrame
<1> QED
  BY <1>5, <1>6, <1>7, <1>8, <1>9, <1>10 DEF KeptInv, OnceInv, RecordInv, BaseInv

LEMMA ShutdownStep == KeptInv /\ [ShutdownNext]_shutdownVars => KeptInv'
<1> SUFFICES ASSUME KeptInv, [ShutdownNext]_shutdownVars PROVE KeptInv'
  OBVIOUS
<1>1. CASE ClientStep \/ Run \/ Crash
  BY <1>1, KeptStep DEF Next
<1>2. CASE BeginShutdown \/ UNCHANGED shutdownVars
  BY <1>2, KeptStep DEF BeginShutdown, shutdownVars
<1>3. CASE CancelTasks
  BY <1>3, CancelKeeps
<1>4. CASE Stop
  BY <1>4, EndKeeps DEF Stop
<1> QED
  BY <1>1, <1>2, <1>3, <1>4 DEF ShutdownNext

LEMMA ShutdownKeeps == ShutdownSpec => []KeptInv
<1>1. ShutdownInit => KeptInv
  <2>1. Init => SentInv /\ AtMostOnce
    BY DEF SentInv, AtMostOnce, Init, ProcessorInit
  <2> QED
    BY <2>1, BaseInit, RecordInit DEF ShutdownInit, KeptInv, OnceInv
<1> QED
  BY <1>1, ShutdownStep, PTL DEF ShutdownSpec

\* The worker is called at most once for a message, whatever the shutdown
\* interrupts and the next process finds in Redis (main.py:76-85).
THEOREM ShutdownCallsOnce == ShutdownSpec => []AtMostOnce
<1>1. KeptInv => AtMostOnce
  BY DEF KeptInv, OnceInv
<1> QED
  BY <1>1, ShutdownKeeps, PTL

\* A cancelled delivery is never followed by another callback, although the
\* finally clause of its task runs on (message_processor.py:264).
THEOREM ShutdownOneVerdict == ShutdownSpec => []SingleVerdict
<1>1. KeptInv => SingleVerdict
  BY RecordGivesVerdict DEF KeptInv
<1> QED
  BY <1>1, ShutdownKeeps, PTL

\* The completions of cancelled tasks delete no hash of a queued message
\* (MARK_COMPLETE_SCRIPT).
THEOREM ShutdownKeepsMetadata == ShutdownSpec => []QueuedHasMetadata
<1>1. KeptInv => QueuedHasMetadata
  BY RecordGivesMetadata DEF KeptInv
<1> QED
  BY <1>1, ShutdownKeeps, PTL

---------------------------------------------------------------------------
(* One call at a time, and the promise to the worker. *)

FullInv == OrderInv /\ RecordInv

LEMMA FullIsKept == FullInv => KeptInv
BY DEF FullInv, KeptInv, OrderInv, OnceInv, LockInv

\* A step that only ends tasks, handlers and calls.
Ending ==
    /\ UNCHANGED <<queueVars, sent>>
    /\ \A m \in Msgs : /\ proc'[m] = "none" <=> proc[m] = "none"
                       /\ proc'[m] \in AtWork => proc[m] \in AtWork
                       /\ proc'[m] = "calling" => proc[m] = "calling"
                       /\ proc'[m] \in BeforeCall => proc[m] \in BeforeCall
                       /\ post'[m] = "new" => post[m] = "new"
    /\ \A s \in Streams : /\ future'[s] = "result" => future[s] = "result"
                          /\ stream'[s] \in {stream[s], "closed"}

\* What the places of a task are before and after it has died.
LEMMA EndIsEnding == ProcessEnds => Ending
<1> SUFFICES ASSUME ProcessEnds PROVE Ending
  OBVIOUS
<1>1. /\ UNCHANGED <<queueVars, sent>>
      /\ \A m \in Msgs : proc'[m] = proc[m] \/ (Active(m) /\ proc'[m] = "dead")
      /\ \A m \in Msgs : post'[m] = post[m] \/ post'[m] = "failed"
      /\ \A s \in Streams : future'[s] = "none" /\ stream'[s] \in {stream[s], "closed"}
  BY DEF ProcessEnds, RegistryLost
<1> QED
  BY <1>1 DEF Ending, Active, AtWork, BeforeCall

\* ... and of one that got a CancelledError.
LEMMA CancelIsEnding == TypeOK /\ CancelTasks => Ending
<1> SUFFICES ASSUME TypeOK, CancelTasks PROVE Ending
  OBVIOUS
<1>1. /\ UNCHANGED <<queueVars, future, sent, stream, post>>
      /\ proc' = [m \in Msgs |-> AfterCancel(proc[m])]
  BY DEF CancelTasks
<1>2. \A m \in Msgs : /\ proc'[m] = "none" <=> proc[m] = "none"
                      /\ proc'[m] \in AtWork => proc[m] \in AtWork
                      /\ proc'[m] = "calling" => proc[m] = "calling"
                      /\ proc'[m] \in BeforeCall => proc[m] \in BeforeCall
  <2> TAKE m \in Msgs
  <2>1. proc'[m] = AfterCancel(proc[m]) /\ proc[m] \in ProcStates
    BY <1>1 DEF TypeOK, ProcessorTypeOK
  <2> QED
    BY <2>1 DEF AfterCancel, ProcStates, AtWork, BeforeCall
<1> QED
  BY <1>1, <1>2 DEF Ending

\* Such a step keeps the order: the calls that are left could be made before.
LEMMA EndingKeepsOrder ==
    ASSUME OrderInv, Ending, BaseInv', SentInv', AtMostOnce' PROVE OrderInv'
<1>0. /\ TypeOK /\ TaskHoldsLock /\ HandlerHoldsLock /\ CallsAreCallbacks
      /\ ArrivalInv /\ QueueOrder /\ TakenInv /\ CallInv /\ SentInArrivalOrder
  BY DEF OrderInv, LockInv, BaseInv
<1>1. \A s \in Streams : /\ Ended(s) => Ended(s)'
                         /\ HandedTo(s)' => HandedTo(s)
  BY DEF Ending, Ended, HandedTo
<1>2. TaskHoldsLock' /\ HandlerHoldsLock' /\ CallsAreCallbacks'
  BY <1>0, <1>1, TaskFrame, HandlerFrame, CallsFrame DEF Ending, queueVars
<1>3. ArrivalInv' /\ QueueOrder' /\ TakenInv'
  BY <1>0, ArrivalFrame DEF Ending, queueVars
<1>4. \A m \in Msgs : MayCall(m)' => MayCall(m)
  BY <1>1 DEF Ending, MayCall, Ended, BeforeStream, BeforeCall
<1>5. CallInv' /\ SentInArrivalOrder'
  BY <1>0, <1>4, CallFrame DEF Ending, queueVars
<1> QED
  BY <1>2, <1>3, <1>5 DEF OrderInv, LockInv

\* Every step of the process with its shutdown is one of Broker, or ends things.
LEMMA ShutdownMoves ==
    TypeOK /\ [ShutdownNext]_shutdownVars => [Next]_vars \/ Ending
<1> SUFFICES ASSUME TypeOK, [ShutdownNext]_shutdownVars PROVE [Next]_vars \/ Ending
  OBVIOUS
<1>1. CASE ClientStep \/ Run \/ Crash
  BY <1>1 DEF Next
<1>2. CASE BeginShutdown \/ UNCHANGED shutdownVars
  BY <1>2 DEF BeginShutdown, shutdownVars
<1>3. CASE CancelTasks
  BY <1>3, CancelIsEnding
<1>4. CASE Stop
  BY <1>4, EndIsEnding DEF Stop
<1> QED
  BY <1>1, <1>2, <1>3, <1>4 DEF ShutdownNext

LEMMA FullStep == OneStreamEach /\ FullInv /\ [ShutdownNext]_shutdownVars => FullInv'
<1> SUFFICES ASSUME OneStreamEach, FullInv, [ShutdownNext]_shutdownVars PROVE FullInv'
  OBVIOUS
<1>0. OrderInv /\ RecordInv /\ TypeOK
  BY DEF FullInv, RecordInv, BaseInv
<1>1. KeptInv'
  BY FullIsKept, ShutdownStep
<1>2. CASE [Next]_vars
  BY <1>0, <1>1, <1>2, OrderStep DEF FullInv, KeptInv
<1>3. CASE Ending
  BY <1>0, <1>1, <1>3, EndingKeepsOrder DEF FullInv, KeptInv, OnceInv
<1> QED
  BY <1>0, <1>2, <1>3, ShutdownMoves

LEMMA FullKept == ASSUME OneStreamEach PROVE ShutdownSpec => []FullInv
<1>1. ShutdownInit => FullInv
  BY OrderInit, RecordInit DEF ShutdownInit, FullInv
<1>2. FullInv /\ [ShutdownNext]_shutdownVars => FullInv'
  BY OneStreamEach, FullStep
<1> QED
  BY <1>1, <1>2, PTL DEF ShutdownSpec

\* The tasks that a shutdown cancels and the ones that their finally clauses
\* schedule make at most one call of a user at a time (message_processor.py:264).
THEOREM ShutdownOneCallAtATime == ASSUME OneStreamEach PROVE ShutdownSpec => []OneAtATime
<1>1. FullInv => OneAtATime
  BY OneStreamEach, LockInvExcludes DEF FullInv, OrderInv
<1> QED
  BY <1>1, FullKept, OneStreamEach, PTL

\* No lock goes away with the tasks that hold it: a cancelled task releases its
\* own lock in mark_complete, or leaves it to the TTL.
THEOREM ShutdownReleasedByOwner ==
    ASSUME OneStreamEach PROVE ShutdownSpec => LockReleasedByOwner
<1> DEFINE Released ==
      \A u \in Users :
        processing[u] # NoMsg /\ processing'[u] # processing[u] => ReleasedByOwner(u)
<1>1. FullInv /\ [ShutdownNext]_shutdownVars => [Released]_vars
  <2> SUFFICES ASSUME FullInv, [ShutdownNext]_shutdownVars PROVE Released
    OBVIOUS
  <2>0. TypeOK
    BY DEF FullInv, RecordInv, BaseInv
  <2>1. CASE [Next]_vars
    BY <2>0, <2>1, OneStreamEach, ReleaseStep DEF OneStreamEach
  <2>2. CASE Ending
    BY <2>2 DEF Ending, queueVars
  <2> QED
    BY <2>0, <2>1, <2>2, ShutdownMoves
<1>2. ShutdownSpec => []FullInv
  BY FullKept, OneStreamEach
<1>3. ShutdownSpec => [][ShutdownNext]_shutdownVars
  BY PTL DEF ShutdownSpec
<1>4. ShutdownSpec => [][Released]_vars
  BY <1>1, <1>2, <1>3, PTL
<1> QED
  BY <1>4 DEF LockReleasedByOwner

\* Shutdowns and restarts included, the broker is a PerUserFifo: a cancellation
\* and the end of the process are no more than the return of calls.
THEOREM ShutdownImplementsFifo ==
    ASSUME OneStreamEach PROVE ShutdownSpec => RefinesPerUserFifo
<1>1. ShutdownInit => Fifo!Init
  BY FifoInit DEF ShutdownInit
<1>2. FullInv /\ [ShutdownNext]_shutdownVars => [Fifo!Next]_(Fifo!vars)
  <2> SUFFICES ASSUME FullInv, [ShutdownNext]_shutdownVars PROVE [Fifo!Next]_(Fifo!vars)
    OBVIOUS
  <2>0. TypeOK /\ OrderInv
    BY DEF FullInv, RecordInv, BaseInv
  <2>1. CASE [Next]_vars
    BY <2>0, <2>1, OneStreamEach, StepIsFifo
  <2>2. CASE Ending
    <3>1. /\ UNCHANGED <<arrival, queue, processing, sent>>
          /\ \A m \in Msgs : proc'[m] = "calling" => proc[m] = "calling"
          /\ \A s \in Streams : stream'[s] = "streaming" => stream[s] = "streaming"
      BY <2>2 DEF Ending, queueVars
    <3> QED
      BY <3>1, QuietStep
  <2> QED
    BY <2>0, <2>1, <2>2, ShutdownMoves
<1>3. ShutdownSpec => []FullInv
  BY FullKept, OneStreamEach
<1> QED
  BY <1>1, <1>2, <1>3, PTL DEF ShutdownSpec, RefinesPerUserFifo, Fifo!Spec

=============================================================================
