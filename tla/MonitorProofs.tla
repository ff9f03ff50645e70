--------------------------- MODULE MonitorProofs ----------------------------
(***************************************************************************)
(* What the reports of the monitoring endpoints tell is true, for any      *)
(* users and messages, any order of Redis commands in between and any      *)
(* batches of SCAN.                                                        *)
(***************************************************************************)
EXTENDS Monitor, FiniteSetTheorems, TLAPS

\* A push puts only its own message into a queue, a dequeue takes one out.
LEMMA QueuesAfter ==
    ASSUME QueueTypeOK, RequestAssumption, RedisCommand
    PROVE  /\ QueueTypeOK'
           /\ pushes' \in {pushes, pushes + 1}
           /\ \A m \in Msgs : arrival'[m] = arrival[m] \/ arrival'[m] = pushes + 1
           /\ \A u \in Users, m \in Msgs :
                  /\ m \in Range(queue'[u]) => m \in Range(queue[u]) \/ arrival'[m] = pushes + 1
                  /\ processing'[u] = m => processing[u] = m \/ m \in Range(queue[u])
<1> USE RequestAssumption DEF QueueTypeOK
<1>1. ASSUME NEW k \in Msgs, Enqueue(k)
      PROVE  /\ QueueTypeOK'
             /\ pushes' = pushes + 1
             /\ \A m \in Msgs : arrival'[m] = arrival[m] \/ arrival'[m] = pushes + 1
             /\ \A u \in Users, m \in Msgs :
                    m \in Range(queue'[u]) => m \in Range(queue[u]) \/ arrival'[m] = pushes + 1
  <2>1. UserOf[k] \in Users /\ arrival' = [arrival EXCEPT ![k] = pushes + 1]
    BY <1>1 DEF Enqueue
  <2>2. \A u \in Users : queue'[u] = IF u = UserOf[k] THEN Append(queue[u], k) ELSE queue[u]
    BY <1>1, <2>1 DEF Enqueue
  <2>3. ASSUME NEW u \in Users, NEW m \in Range(queue'[u]) PROVE m \in Range(queue[u]) \/ m = k
    <3>1. queue[u] \in Seq(Msgs) /\ queue'[u] \in {queue[u], Append(queue[u], k)}
      BY <2>2
    <3>2. PICK i \in DOMAIN queue'[u] : queue'[u][i] = m
      BY DEF Range
    <3>3. CASE queue'[u] = Append(queue[u], k)
      <4>1. i \in 1..(Len(queue[u]) + 1)
        BY <3>1, <3>2, <3>3
      <4>2. i \in 1..Len(queue[u]) => queue'[u][i] = queue[u][i] /\ i \in DOMAIN queue[u]
        BY <3>1, <3>3
      <4>3. i = Len(queue[u]) + 1 => queue'[u][i] = k
        BY <3>1, <3>3
      <4>4. i \in 1..Len(queue[u]) \/ i = Len(queue[u]) + 1
        BY <3>1, <4>1
      <4> QED
        BY <3>2, <4>2, <4>3, <4>4 DEF Range
    <3> QED
      BY <3>1, <3>2, <3>3 DEF Range
  <2>4. QueueTypeOK'
    BY <1>1, <2>1 DEF Enqueue
  <2> QED
    BY <1>1, <2>1, <2>3, <2>4 DEF Enqueue
<1>2. ASSUME NEW u \in Users, NEW k \in Msgs, Dequeue(u, k)
      PROVE  /\ QueueTypeOK'
             /\ \A v \in Users, m \in Msgs :
                    /\ m \in Range(queue'[v]) => m \in Range(queue[v])
                    /\ processing'[v] = m => processing[v] = m \/ m \in Range(queue[v])
  <2>1. \A v \in Users : queue'[v] = IF v = u THEN Tail(queue[v]) ELSE queue[v]
    BY <1>2 DEF Dequeue
  <2>2. k \in Range(queue[u])
    BY <1>2 DEF Dequeue, Range
  <2>3. \A v \in Users : processing'[v] = IF v = u THEN k ELSE processing[v]
    BY <1>2 DEF Dequeue
  <2>4. \A v \in Users, m \in Msgs : m \in Range(queue'[v]) => m \in Range(queue[v])
    BY <1>2, <2>1 DEF Dequeue, Range
  <2>5. QueueTypeOK'
    BY <1>2 DEF Dequeue
  <2> QED
    BY <2>2, <2>3, <2>4, <2>5
<1>3. ASSUME NEW k \in Msgs, StoreMetadata(k) \/ MarkComplete(k)
      PROVE  /\ QueueTypeOK'
             /\ UNCHANGED <<queue, arrival, pushes>>
             /\ \A u \in Users, m \in Msgs : processing'[u] = m => processing[u] = m
  <2>1. CASE StoreMetadata(k)
    BY <2>1 DEF StoreMetadata
  <2>2. CASE MarkComplete(k)
    BY <2>2 DEF MarkComplete
  <2> QED
    BY <1>3, <2>1, <2>2
<1>4. ASSUME NEW v \in Users, ProcessingExpires(v)
      PROVE  /\ QueueTypeOK'
             /\ UNCHANGED <<queue, arrival, pushes>>
             /\ \A u \in Users, m \in Msgs : processing'[u] = m => processing[u] = m
  BY <1>4 DEF ProcessingExpires
<1>5. CASE \E k \in Msgs : arrival[k] = 0 /\ Enqueue(k)
  BY <1>1, <1>5 DEF Enqueue
<1>6. CASE \E u \in Users, k \in Msgs : Dequeue(u, k)
  BY <1>2, <1>6 DEF Dequeue
<1>7. CASE \/ \E k \in Msgs : StoreMetadata(k) \/ MarkComplete(k)
           \/ \E v \in Users : ProcessingExpires(v)
  BY <1>3, <1>4, <1>7
<1> QED
  BY <1>5, <1>6, <1>7 DEF RedisCommand

\* What the others do in between does not queue or lock an earlier message.
LEMMA OthersKeep == StatusInv /\ Others => StatusInv'
<1> SUFFICES ASSUME StatusInv, Others PROVE StatusInv'
  OBVIOUS
<1>1. RedisCommand /\ UNCHANGED <<at, report, asked>>
  BY DEF Others
<1>2. QueueTypeOK /\ pushes \in Nat
  BY DEF StatusInv, QueueTypeOK
<1>3. /\ QueueTypeOK' /\ pushes' \in {pushes, pushes + 1}
      /\ \A m \in Msgs : arrival'[m] = arrival[m] \/ arrival'[m] = pushes + 1
      /\ \A u \in Users, m \in Msgs :
             /\ m \in Range(queue'[u]) => m \in Range(queue[u]) \/ arrival'[m] = pushes + 1
             /\ processing'[u] = m => processing[u] = m \/ m \in Range(queue[u])
  BY <1>1, <1>2, RequestAssumption, QueuesAfter
<1>4. asked \in Nat /\ asked <= pushes
  BY <1>2 DEF StatusInv
<1>5. \A m \in Msgs : AskedAbout(m)' => AskedAbout(m) /\ arrival'[m] # pushes + 1
  BY <1>1, <1>2, <1>3, <1>4 DEF AskedAbout
<1>6. NoneQueued'
  BY <1>1, <1>3, <1>5 DEF NoneQueued, StatusInv
<1>7. NoneProcessing'
  BY <1>1, <1>3, <1>5 DEF NoneQueued, NoneProcessing, StatusInv
<1> QED
  BY <1>1, <1>2, <1>3, <1>4, <1>6, <1>7 DEF StatusInv

\* The awaits of the status handler.
LEMMA StatusStepKeeps == StatusInv /\ StatusStep => StatusInv'
<1> SUFFICES ASSUME StatusInv, StatusStep PROVE StatusInv'
  OBVIOUS
<1> DEFINE u == report.user
<1>1. u \in Users /\ UNCHANGED <<queueVars, asked>>
  BY DEF StatusStep
<1>2. UNCHANGED <<queue, processing, arrival, pushes, metadata>>
  BY <1>1 DEF queueVars
<1>3. QueueTypeOK /\ report \in Reports /\ asked \in 0..pushes
  BY DEF StatusInv
<1>4. QueueTypeOK' /\ asked' \in 0..pushes'
  BY <1>1, <1>2, <1>3 DEF QueueTypeOK
<1>5. CASE at = "readLength" /\ at' = "readProcessing"
           /\ report' = [report EXCEPT !.length = Len(queue[u])]
  <2>0. queue[u] \in Seq(Msgs) /\ Len(queue[u]) \in Nat
    BY <1>1, <1>3 DEF QueueTypeOK
  <2> HIDE DEF u
  <2>1. report' \in Reports /\ report'.user = report.user /\ report'.length = Len(queue[u])
    BY <1>3, <1>5, <2>0 DEF Reports
  <2>2. Len(queue[u]) = 0 => \A m : m \notin Range(queue[u])
    BY <2>0 DEF Range
  <2> USE DEF u
  <2> QED
    BY <1>1, <1>2, <1>4, <1>5, <2>1, <2>2 DEF StatusInv, NoneQueued, NoneProcessing
<1>6. CASE at = "readProcessing" /\ at' = "readCurrent"
           /\ report' = [report EXCEPT !.processing = IsProcessing(u)]
  <2>1. /\ report' \in Reports /\ report'.user = u /\ report'.length = report.length
        /\ report'.processing = IsProcessing(u)
    BY <1>1, <1>3, <1>6 DEF Reports, IsProcessing
  <2>2. \A m \in Msgs : AskedAbout(m)' => AskedAbout(m)
    BY <1>1, <1>2, <2>1 DEF AskedAbout
  <2>3. NoneQueued'
    BY <1>2, <1>6, <2>1, <2>2 DEF StatusInv, NoneQueued
  <2>4. NoneProcessing'
    BY <1>2, <2>1, RequestAssumption DEF NoneProcessing, IsProcessing
  <2> QED
    BY <1>1, <1>4, <2>1, <2>3, <2>4 DEF StatusInv
<1>7. CASE ReadCurrent(u)
  <2>1. /\ report' \in Reports /\ report'.user = u /\ report'.length = report.length
        /\ report'.processing = report.processing
    BY <1>1, <1>3, <1>7 DEF Reports, ReadCurrent, QueueTypeOK
  <2>2. \A m \in Msgs : AskedAbout(m)' => AskedAbout(m)
    BY <1>1, <1>2, <2>1 DEF AskedAbout
  <2>3. at = "readCurrent" /\ at' = "statusSent"
    BY <1>7 DEF ReadCurrent
  <2>4. NoneQueued' /\ NoneProcessing'
    BY <1>2, <2>1, <2>2, <2>3 DEF StatusInv, NoneQueued, NoneProcessing
  <2> QED
    BY <1>1, <1>4, <2>1, <2>4 DEF StatusInv
<1> QED
  BY <1>5, <1>6, <1>7 DEF StatusStep, ReadLengthFirst

\* All other steps lead away from a status report, or begin one.
LEMMA RestKeeps ==
    ASSUME StatusInv, UNCHANGED queueVars,
           \/ UNCHANGED <<report, asked>>
              /\ at' \notin {"readLength", "readProcessing", "readCurrent", "statusSent"}
           \/ UNCHANGED <<report, asked, at>>
           \/ /\ at' \in {"readLength", "unavailable"} /\ asked' = pushes
              /\ \E u \in Users : report' = [report EXCEPT !.user = u]
           \/ at' = "idle" /\ report' = NoReport /\ asked' = 0
    PROVE  StatusInv'
<1>1. UNCHANGED <<queue, processing, arrival, pushes, metadata>>
  BY DEF queueVars
<1>2. QueueTypeOK' /\ QueueTypeOK /\ report \in Reports /\ asked \in 0..pushes /\ pushes \in Nat
  BY <1>1 DEF StatusInv, QueueTypeOK
<1>3. CASE UNCHANGED <<report, asked, at>>
  BY <1>1, <1>2, <1>3 DEF StatusInv, NoneQueued, NoneProcessing, AskedAbout
<1>4. CASE at' \notin {"readLength", "readProcessing", "readCurrent", "statusSent"}
           /\ UNCHANGED <<report, asked>>
  BY <1>1, <1>2, <1>4 DEF StatusInv, NoneQueued, NoneProcessing
<1>5. CASE /\ at' \in {"readLength", "unavailable"} /\ asked' = pushes
           /\ \E u \in Users : report' = [report EXCEPT !.user = u]
  <2>1. report' \in Reports /\ report'.user \in Users
    BY <1>2, <1>5 DEF Reports
  <2> QED
    BY <1>1, <1>2, <1>5, <2>1 DEF StatusInv, NoneQueued, NoneProcessing
<1>6. CASE at' = "idle" /\ report' = NoReport /\ asked' = 0
  <2>1. report' \in Reports
    BY <1>6 DEF NoReport, Reports
  <2> QED
    BY <1>1, <1>2, <1>6, <2>1 DEF StatusInv, NoneQueued, NoneProcessing
<1> QED
  BY <1>3, <1>4, <1>5, <1>6

LEMMA StatusInvStep == StatusInv /\ [MonitorNext]_monitorVars => StatusInv'
<1> SUFFICES ASSUME StatusInv, [MonitorNext]_monitorVars PROVE StatusInv'
  OBVIOUS
<1>1. CASE Others
  BY <1>1, OthersKeep
<1>2. CASE StatusStep
  BY <1>2, StatusStepKeeps
<1>3. ASSUME NEW u \in Users, AskStatus(u) PROVE StatusInv'
  BY <1>3, RestKeeps DEF AskStatus
<1>4. ASSUME NEW u \in Users, CountQueue(u) PROVE StatusInv'
  BY <1>4, RestKeeps DEF CountQueue
<1>5. CASE StatusRaises \/ CheckWorkerRaises
  BY <1>5, RestKeeps DEF StatusRaises, CheckWorkerRaises, requestVars
<1>6. CASE AskHealth
  BY <1>6, RestKeeps DEF AskHealth
<1>7. CASE CheckWorker
  BY <1>7, RestKeeps DEF CheckWorker
<1>8. CASE Ping
  BY <1>8, RestKeeps DEF Ping
<1>9. CASE ScanQueues \/ NextQueueBatch
  BY <1>9, RestKeeps DEF ScanQueues, NextQueueBatch
<1>10. CASE ScanProcessing
  BY <1>10, RestKeeps DEF ScanProcessing
<1>11. CASE ScanRaises
  BY <1>11, RestKeeps DEF ScanRaises
<1>12. CASE Sent
  BY <1>12, RestKeeps DEF Sent
<1>13. CASE UNCHANGED monitorVars
  BY <1>13, RestKeeps DEF monitorVars, requestVars
<1> QED
  BY <1>1, <1>2, <1>3, <1>4, <1>5, <1>6, <1>7, <1>8, <1>9, <1>10, <1>11, <1>12, <1>13
     DEF MonitorNext

\* "Nothing queued, nothing processing" (routes.py:113-114) is true of every
\* message that was pushed before the request, although the length and the
\* flag are read at different moments: the length comes first.
THEOREM IdleStatusIsTrue == MonitorSpec => []IdleMeansServed
<1>1. MonitorInit => StatusInv
  <2> SUFFICES ASSUME MonitorInit PROVE StatusInv
    OBVIOUS
  <2>1. QueueTypeOK /\ pushes = 0
    BY RequestAssumption DEF MonitorInit, QueueInit, QueueTypeOK
  <2>2. report \in Reports
    BY DEF MonitorInit, NoReport, Reports
  <2> QED
    BY <2>1, <2>2 DEF MonitorInit, StatusInv, NoneQueued, NoneProcessing
<1>2. StatusInv /\ [MonitorNext]_monitorVars => StatusInv'
  BY StatusInvStep
<1>3. StatusInv => IdleMeansServed
  BY DEF StatusInv, NoneQueued, NoneProcessing, AskedAbout, IdleMeansServed
<1> QED
  BY <1>1, <1>2, <1>3, PTL DEF MonitorSpec

---------------------------------------------------------------------------
(* The counts of the health report. *)

FiniteUsers == IsFiniteSet(Users)

LEMMA SizeOfSubset ==
    ASSUME FiniteUsers, NEW T \in SUBSET Users, NEW S \in SUBSET T
    PROVE  Cardinality(S) \in Nat /\ Cardinality(T) \in Nat /\ Cardinality(S) <= Cardinality(T)
<1>1. IsFiniteSet(T)
  BY FS_Subset DEF FiniteUsers
<1>2. IsFiniteSet(S)
  BY <1>1, FS_Subset
<1> QED
  BY <1>1, <1>2, FS_Subset, FS_CardinalityType

\* A key more in the count covers a key less to come, a batch more a batch.
LEMMA SizeAfterBatch ==
    ASSUME FiniteUsers, NEW S \in SUBSET Users, NEW batch \in SUBSET Users,
           NEW T \in SUBSET (S \cup batch)
    PROVE  Cardinality(T) <= Cardinality(S) + Cardinality(batch)
<1>1. IsFiniteSet(S) /\ IsFiniteSet(batch)
  BY FS_Subset DEF FiniteUsers
<1>2. Cardinality(S \cup batch) = Cardinality(S) + Cardinality(batch) - Cardinality(S \cap batch)
  BY <1>1, FS_Union
<1>3. Cardinality(S \cap batch) \in Nat
  BY SizeOfSubset
<1>4. Cardinality(S) \in Nat /\ Cardinality(batch) \in Nat
  BY SizeOfSubset
<1>5. S \cup batch \in SUBSET Users
  OBVIOUS
<1>6. /\ Cardinality(T) <= Cardinality(S \cup batch)
      /\ Cardinality(T) \in Nat /\ Cardinality(S \cup batch) \in Nat
  BY <1>5, SizeOfSubset
<1> QED
  BY <1>2, <1>3, <1>4, <1>6

LEMMA SizeAfterKey ==
    ASSUME FiniteUsers, NEW S \in SUBSET Users, NEW u \in Users, NEW T \in SUBSET (S \cup {u})
    PROVE  Cardinality(T) <= Cardinality(S) + 1
<1>1. IsFiniteSet(S) /\ Cardinality(S) \in Nat
  BY SizeOfSubset, FS_Subset DEF FiniteUsers
<1>2. Cardinality(S \cup {u}) = IF u \in S THEN Cardinality(S) ELSE Cardinality(S) + 1
  BY <1>1, FS_AddElement
<1>3. S \cup {u} \in SUBSET Users
  OBVIOUS
<1>4. /\ Cardinality(T) <= Cardinality(S \cup {u})
      /\ Cardinality(T) \in Nat /\ Cardinality(S \cup {u}) \in Nat
  BY <1>3, SizeOfSubset
<1> QED
  BY <1>1, <1>2, <1>4

LEMMA KeysAreUsers == QueueKeys \subseteq Users /\ ProcessingKeys \subseteq Users
BY DEF QueueKeys, ProcessingKeys

\* Keys that are gone leave all sets at once.
LEMMA OthersKeepHealth == FiniteUsers /\ HealthInv /\ Others => HealthInv'
<1> SUFFICES ASSUME FiniteUsers, HealthInv, Others PROVE HealthInv'
  OBVIOUS
<1> DEFINE keys == IF at \in {"scanQueues", "llen"} THEN QueueKeys' ELSE ProcessingKeys'
<1>1. /\ backlog' = backlog \cap QueueKeys' /\ locked' = locked \cap ProcessingKeys'
      /\ unseen' = unseen \cap keys
      /\ UNCHANGED <<services, at, health, scan>>
  BY DEF Others
<1>2. /\ HealthTypeOK /\ backlog \subseteq Users /\ locked \subseteq Users
      /\ health.active \in Nat /\ health.processing \in Nat
  BY KeysAreUsers DEF HealthInv, HealthTypeOK
<1>3. HealthTypeOK'
  BY <1>1, <1>2 DEF HealthTypeOK
<1>4. QueuesCounted'
  <2>1. CASE at \in {"scanQueues", "llen"}
    <3> DEFINE T == backlog \ (unseen \cup scan.keys)
               S == backlog' \ (unseen' \cup scan'.keys)
    <3>1. S \in SUBSET T /\ T \in SUBSET Users
      BY <1>1, <1>2, <2>1
    <3>2. Cardinality(S) \in Nat /\ Cardinality(T) \in Nat /\ Cardinality(S) <= Cardinality(T)
      BY <3>1, SizeOfSubset
    <3>3. health.active >= Cardinality(T)
      BY <2>1 DEF HealthInv, QueuesCounted
    <3>4. health'.active >= Cardinality(S)
      BY <1>1, <1>2, <3>2, <3>3
    <3>5. /\ at = "scanQueues" => scan.keys = {}
          /\ at = "llen" /\ scan.last => unseen = {}
      BY DEF HealthInv, QueuesCounted
    <3> QED
      BY <1>1, <3>4, <3>5 DEF QueuesCounted
  <2>2. CASE at \notin {"scanQueues", "llen"}
    BY <1>1, <2>2 DEF QueuesCounted
  <2> QED
    BY <2>1, <2>2
<1>5. /\ Cardinality(backlog') \in Nat /\ Cardinality(backlog) \in Nat
      /\ Cardinality(backlog') <= Cardinality(backlog)
  <2>1. backlog' \in SUBSET backlog
    BY <1>1
  <2> QED
    BY <1>2, <2>1, SizeOfSubset
<1>6. LocksCounted'
  <2> SUFFICES ASSUME at = "scanProcessing"
               PROVE  /\ health.active >= Cardinality(backlog')
                      /\ health.processing >= Cardinality(locked' \ unseen')
    BY <1>1 DEF LocksCounted
  <2> DEFINE T == locked \ unseen
             S == locked' \ unseen'
  <2>1. S \in SUBSET T /\ T \in SUBSET Users
    BY <1>1, <1>2
  <2>2. Cardinality(S) \in Nat /\ Cardinality(T) \in Nat /\ Cardinality(S) <= Cardinality(T)
    BY <2>1, SizeOfSubset
  <2>3. health.active >= Cardinality(backlog) /\ health.processing >= Cardinality(T)
    BY DEF HealthInv, LocksCounted
  <2> HIDE DEF S, T
  <2>4. health.active >= Cardinality(backlog') /\ health.processing >= Cardinality(S)
    BY <1>2, <1>5, <2>2, <2>3
  <2> QED
    BY <2>4 DEF S
<1>7. HealthCountsBacklog'
  <2>1. locked' \in SUBSET locked
    BY <1>1
  <2>2. /\ Cardinality(locked') \in Nat /\ Cardinality(locked) \in Nat
        /\ Cardinality(locked') <= Cardinality(locked)
    BY <1>2, <2>1, SizeOfSubset
  <2>3. HealthCountsBacklog
    BY DEF HealthInv
  <2> QED
    BY <1>1, <1>2, <1>5, <2>2, <2>3 DEF HealthCountsBacklog, Available
<1> QED
  BY <1>3, <1>4, <1>6, <1>7 DEF HealthInv

\* Steps that neither count nor finish a report.
LEMMA ElsewhereKeepsHealth ==
    ASSUME HealthInv, UNCHANGED <<queueVars, scan, backlog, locked>>,
           at' \notin {"scanQueues", "llen", "scanProcessing", "healthSent"},
           UNCHANGED health
    PROVE  HealthInv'
<1>1. UNCHANGED <<QueueKeys, ProcessingKeys>>
  BY DEF queueVars, QueueKeys, ProcessingKeys, HasQueued, IsProcessing
<1>2. HealthTypeOK'
  BY <1>1 DEF HealthInv, HealthTypeOK
<1> QED
  BY <1>2 DEF HealthInv, QueuesCounted, LocksCounted, HealthCountsBacklog

\* The requests begin and end: the histories begin with what exists, and end.
LEMMA HealthEdges ==
    HealthInv /\ (AskHealth \/ CheckWorker \/ Ping \/ ScanRaises \/ Sent) => HealthInv'
<1> SUFFICES ASSUME HealthInv, AskHealth \/ CheckWorker \/ Ping \/ ScanRaises \/ Sent
             PROVE  HealthInv'
  OBVIOUS
<1>1. HealthTypeOK
  BY DEF HealthInv
<1>2. UNCHANGED <<QueueKeys, ProcessingKeys>>
  BY DEF AskHealth, CheckWorker, Ping, ScanRaises, Sent,
         queueVars, QueueKeys, ProcessingKeys, HasQueued, IsProcessing
<1>3. CASE AskHealth
  BY <1>1, <1>2, <1>3
     DEF AskHealth, HealthInv, HealthTypeOK, QueuesCounted, LocksCounted, HealthCountsBacklog
<1>4. CASE CheckWorker
  <2>1. /\ UNCHANGED <<scan, backlog, locked, services>>
        /\ \E healthy \in BOOLEAN :
               \/ at' = "ping" /\ health' = [health EXCEPT !.worker = healthy]
               \/ /\ at' = "healthSent" /\ ~Available("queue_manager")
                  /\ health' = [health EXCEPT !.worker = healthy, !.status = "degraded"]
    BY <1>4, Zenon DEF CheckWorker
  <2>2. HealthTypeOK'
    BY <1>1, <1>2, <2>1 DEF HealthTypeOK
  <2> QED
    BY <2>1, <2>2
       DEF HealthInv, QueuesCounted, LocksCounted, HealthCountsBacklog, Available
<1>5. CASE Ping
  <2>1. HealthTypeOK'
    BY <1>1, <1>2, <1>5 DEF Ping, HealthTypeOK, NoScan
  <2>2. backlog' \ (unseen' \cup scan'.keys) = {}
    BY <1>1, <1>5 DEF Ping, HealthTypeOK
  <2>3. health'.active >= Cardinality({})
    BY <2>1, FS_EmptySet DEF HealthTypeOK
  <2>4. at' = "scanQueues" /\ scan'.keys = {}
    BY <1>5 DEF Ping, NoScan
  <2> QED
    BY <2>1, <2>2, <2>3, <2>4 DEF HealthInv, QueuesCounted, LocksCounted, HealthCountsBacklog
<1>6. CASE ScanRaises
  <2>1. health' = [NoHealth EXCEPT !.worker = health.worker, !.status = "unhealthy"]
    BY <1>6 DEF ScanRaises
  <2>2. HealthTypeOK'
    <3>1. health.worker \in BOOLEAN
      BY <1>1 DEF HealthTypeOK
    <3>2. health' = [status |-> "unhealthy", redis |-> FALSE, worker |-> health.worker,
                     active |-> 0, processing |-> 0]
      BY <2>1 DEF NoHealth
    <3>3. UNCHANGED <<scan, backlog, locked>>
      BY <1>6 DEF ScanRaises
    <3> QED
      BY <1>1, <1>2, <3>1, <3>2, <3>3 DEF HealthTypeOK
  <2>3. health'.status = "unhealthy"
    BY <2>1 DEF NoHealth
  <2> QED
    BY <1>6, <2>2, <2>3
       DEF ScanRaises, HealthInv, QueuesCounted, LocksCounted, HealthCountsBacklog
<1>7. CASE Sent
  <2>1. HealthTypeOK'
    BY <1>7 DEF Sent, HealthTypeOK, NoHealth, NoScan
  <2> QED
    BY <1>7, <2>1 DEF Sent, HealthInv, QueuesCounted, LocksCounted, HealthCountsBacklog
<1> QED
  BY <1>3, <1>4, <1>5, <1>6, <1>7

\* What one call of SCAN leaves.
LEMMA BatchFacts ==
    ASSUME HealthTypeOK, NEW existing \in SUBSET Users, NEW batch, ScanBatch(existing, batch)
    PROVE  /\ batch \in SUBSET Users
           /\ unseen' = unseen \ batch
           /\ scan' \in [keys : SUBSET Users, last : BOOLEAN, batches : Nat]
           /\ scan'.keys = batch
           /\ scan'.last => unseen' = {}
<1>1. PICK cursor \in {0, 1} :
          /\ cursor = 0 => unseen' = {}
          /\ scan' = [keys |-> batch, last |-> LoopEnds(batch, cursor), batches |-> scan.batches + 1]
  BY DEF ScanBatch
<1>2. batch \in SUBSET Users /\ unseen' = unseen \ batch /\ scan.batches \in Nat
  BY DEF ScanBatch, HealthTypeOK
<1>3. scan'.last = (cursor = 0) /\ scan'.keys = batch
  BY <1>1 DEF LoopEnds
<1>4. scan' \in [keys : SUBSET Users, last : BOOLEAN, batches : Nat]
  BY <1>1, <1>2 DEF LoopEnds
<1> QED
  BY <1>1, <1>2, <1>3, <1>4

\* The loop over the queues.
LEMMA QueueLoop ==
    ASSUME FiniteUsers, HealthInv,
           ScanQueues \/ NextQueueBatch \/ \E u \in Users : CountQueue(u)
    PROVE  HealthInv'
<1>1. HealthTypeOK /\ QueuesCounted
  BY DEF HealthInv
<1>2. UNCHANGED <<QueueKeys, ProcessingKeys, backlog, locked>>
  BY DEF ScanQueues, NextQueueBatch, CountQueue,
         queueVars, QueueKeys, ProcessingKeys, HasQueued, IsProcessing
<1>3. CASE ScanQueues
  <2>1. PICK batch \in SUBSET QueueKeys : ScanBatch(QueueKeys, batch)
    BY <1>3 DEF ScanQueues
  <2>2. /\ unseen' = unseen \ batch /\ scan'.keys = batch
        /\ scan'.last => unseen' = {}
        /\ scan' \in [keys : SUBSET Users, last : BOOLEAN, batches : Nat]
    BY <1>1, <2>1, KeysAreUsers, BatchFacts
  <2>3. at = "scanQueues" /\ at' = "llen" /\ UNCHANGED health
    BY <1>3 DEF ScanQueues
  <2>4. HealthTypeOK'
    BY <1>1, <1>2, <2>2, <2>3 DEF HealthTypeOK
  <2> DEFINE T == backlog \ (unseen \cup scan.keys)
             S == backlog \ (unseen' \cup scan'.keys)
  <2>5. S \in SUBSET T /\ T \in SUBSET Users
    BY <1>1, <2>2, <2>3, KeysAreUsers DEF QueuesCounted, HealthTypeOK
  <2>6. Cardinality(S) \in Nat /\ Cardinality(T) \in Nat /\ Cardinality(S) <= Cardinality(T)
    BY <2>5, SizeOfSubset
  <2>7. health.active >= Cardinality(T) /\ health.active \in Nat
    BY <1>1, <2>3 DEF QueuesCounted, HealthTypeOK
  <2> HIDE DEF S, T
  <2>8. health'.active >= Cardinality(S)
    BY <2>3, <2>6, <2>7
  <2> USE DEF S
  <2> QED
    BY <1>2, <2>2, <2>3, <2>4, <2>8
       DEF HealthInv, QueuesCounted, LocksCounted, HealthCountsBacklog
<1>4. ASSUME NEW u \in Users, CountQueue(u) PROVE HealthInv'
  <2>1. /\ at = "llen" /\ at' = "llen" /\ u \in scan.keys /\ unseen' = unseen
        /\ scan' = [scan EXCEPT !.keys = @ \ {u}]
    BY <1>4 DEF CountQueue
  <2>2. scan'.keys = scan.keys \ {u} /\ scan'.last = scan.last
    BY <1>1, <2>1 DEF HealthTypeOK
  <2>3. health' = IF HasQueued(u) THEN [health EXCEPT !.active = @ + 1] ELSE health
    BY <1>4 DEF CountQueue
  <2>4. HealthTypeOK'
    BY <1>1, <1>2, <2>1, <2>3 DEF HealthTypeOK
  <2>5. health'.active = IF HasQueued(u) THEN health.active + 1 ELSE health.active
    BY <1>1, <2>3 DEF HealthTypeOK
  <2> DEFINE T == backlog \ (unseen \cup scan.keys)
             S == backlog \ (unseen \cup (scan.keys \ {u}))
  <2>6. T \in SUBSET Users /\ S \in SUBSET (T \cup {u})
    BY <1>1, KeysAreUsers DEF HealthTypeOK
  <2>7. ~HasQueued(u) => S \in SUBSET T
    BY <1>1 DEF HealthTypeOK, QueueKeys
  <2>8. /\ Cardinality(S) <= Cardinality(T) + 1
        /\ ~HasQueued(u) => Cardinality(S) <= Cardinality(T)
        /\ Cardinality(T) \in Nat
    BY <2>6, <2>7, SizeAfterKey, SizeOfSubset
  <2>9. S \in SUBSET Users
    BY <2>6
  <2>10. Cardinality(S) \in Nat
    BY <2>9, SizeOfSubset
  <2>11. health.active >= Cardinality(T) /\ health.active \in Nat
    BY <1>1, <2>1 DEF QueuesCounted, HealthTypeOK
  <2> HIDE DEF S, T
  <2>12. health'.active >= Cardinality(S)
    BY <2>5, <2>8, <2>10, <2>11
  <2>13. at' = "llen" /\ scan'.last => unseen' = {}
    BY <1>1, <2>1, <2>2 DEF QueuesCounted
  <2> USE DEF S
  <2> QED
    BY <1>2, <2>1, <2>2, <2>4, <2>12, <2>13
       DEF HealthInv, QueuesCounted, LocksCounted, HealthCountsBacklog
<1>5. CASE NextQueueBatch /\ ~scan.last
  <2>1. /\ at = "llen" /\ at' = "scanQueues" /\ scan.keys = {}
        /\ UNCHANGED <<health, scan, unseen>>
    BY <1>5 DEF NextQueueBatch
  <2>2. HealthTypeOK'
    BY <1>1, <1>2, <2>1 DEF HealthTypeOK
  <2> QED
    BY <1>1, <1>2, <2>1, <2>2
       DEF HealthInv, QueuesCounted, LocksCounted, HealthCountsBacklog
<1>6. CASE NextQueueBatch /\ scan.last
  <2>1. /\ at = "llen" /\ at' = "scanProcessing" /\ scan.keys = {} /\ unseen = {}
        /\ UNCHANGED health /\ scan' = NoScan /\ unseen' = ProcessingKeys
    BY <1>1, <1>6 DEF NextQueueBatch, QueuesCounted
  <2>2. HealthTypeOK'
    BY <1>1, <1>2, <2>1 DEF HealthTypeOK, NoScan
  <2>3. backlog \ (unseen \cup scan.keys) = backlog /\ locked \ unseen' = {}
    BY <1>1, <2>1 DEF HealthTypeOK
  <2>4. health.active >= Cardinality(backlog) /\ health.processing >= Cardinality(locked \ unseen')
    <3>1. health.active >= Cardinality(backlog)
      BY <1>1, <2>1, <2>3 DEF QueuesCounted
    <3>2. health.processing >= Cardinality({})
      BY <1>1, FS_EmptySet DEF HealthTypeOK
    <3> QED
      BY <2>3, <3>1, <3>2
  <2> QED
    BY <1>2, <2>1, <2>2, <2>4
       DEF HealthInv, QueuesCounted, LocksCounted, HealthCountsBacklog
<1> QED
  BY <1>3, <1>4, <1>5, <1>6

\* The loop over the locks.
LEMMA LockLoop ==
    ASSUME FiniteUsers, HealthInv, ScanProcessing
    PROVE  HealthInv'
<1>1. HealthTypeOK /\ LocksCounted
  BY DEF HealthInv
<1>2. UNCHANGED <<QueueKeys, ProcessingKeys, backlog, locked, services>> /\ at = "scanProcessing"
  BY DEF ScanProcessing, queueVars, QueueKeys, ProcessingKeys, HasQueued, IsProcessing
<1>3. PICK batch \in SUBSET ProcessingKeys :
          /\ ScanBatch(ProcessingKeys, batch)
          /\ \/ /\ scan'.last /\ at' = "healthSent"
                /\ health' = [health EXCEPT !.processing = @ + Cardinality(batch),
                                            !.status = Verdict(health.redis, health.worker)]
             \/ /\ at' = at
                /\ health' = [health EXCEPT !.processing = @ + Cardinality(batch)]
  BY Zenon DEF ScanProcessing
<1>4. /\ batch \in SUBSET Users
      /\ unseen' = unseen \ batch
      /\ scan'.last => unseen' = {}
      /\ scan' \in [keys : SUBSET Users, last : BOOLEAN, batches : Nat]
  BY <1>1, <1>3, KeysAreUsers, BatchFacts
<1>5. Cardinality(batch) \in Nat
  BY <1>4, SizeOfSubset
<1>6. Verdict(health.redis, health.worker) \in {"healthy", "degraded", "unhealthy"}
  BY <1>1 DEF HealthTypeOK, Verdict
<1>7. HealthTypeOK'
  <2> DEFINE count == health.processing + Cardinality(batch)
             verdict == Verdict(health.redis, health.worker)
  <2>1. count \in Nat
    BY <1>1, <1>5 DEF HealthTypeOK
  <2>2. \/ health' = [health EXCEPT !.processing = count, !.status = verdict]
        \/ health' = [health EXCEPT !.processing = count]
    BY <1>3
  <2> HIDE DEF count, verdict
  <2>3. verdict \in {"healthy", "degraded", "unhealthy"}
    BY <1>6 DEF verdict
  <2>4. health' \in [status : {"none", "healthy", "degraded", "unhealthy"},
                     redis : BOOLEAN, worker : BOOLEAN, active : Nat, processing : Nat]
    BY <1>1, <2>1, <2>2, <2>3 DEF HealthTypeOK
  <2> QED
    BY <1>1, <1>2, <1>4, <2>4 DEF HealthTypeOK
<1>8. /\ health'.active = health.active
      /\ health'.processing = health.processing + Cardinality(batch)
      /\ health.active \in Nat /\ health.processing \in Nat
  BY <1>1, <1>3, <1>5 DEF HealthTypeOK
<1> DEFINE S == locked \ unseen
           T == locked \ unseen'
<1>9. S \in SUBSET Users /\ T \in SUBSET (S \cup batch) /\ T \in SUBSET Users
  BY <1>1, <1>4, KeysAreUsers DEF HealthTypeOK
<1>10. /\ Cardinality(T) <= Cardinality(S) + Cardinality(batch)
       /\ Cardinality(S) \in Nat /\ Cardinality(T) \in Nat
  BY <1>4, <1>9, SizeAfterBatch, SizeOfSubset
<1>11. health.active >= Cardinality(backlog) /\ health.processing >= Cardinality(S)
  BY <1>1, <1>2 DEF LocksCounted
<1> HIDE DEF S, T
<1>12. health'.active >= Cardinality(backlog) /\ health'.processing >= Cardinality(T)
  BY <1>5, <1>8, <1>10, <1>11
<1> USE DEF T
<1>13. scan'.last => T = locked
  BY <1>4
<1>14. at' = "healthSent" => scan'.last
  BY <1>2, <1>3
<1> QED
  BY <1>2, <1>3, <1>7, <1>12, <1>13, <1>14
     DEF HealthInv, QueuesCounted, LocksCounted, HealthCountsBacklog

LEMMA HealthStep == FiniteUsers /\ HealthInv /\ [MonitorNext]_monitorVars => HealthInv'
<1> SUFFICES ASSUME FiniteUsers, HealthInv, [MonitorNext]_monitorVars PROVE HealthInv'
  OBVIOUS
<1>1. CASE Others
  BY <1>1, OthersKeepHealth
<1>2. CASE AskHealth \/ CheckWorker \/ Ping \/ ScanRaises \/ Sent
  BY <1>2, HealthEdges
<1>3. CASE ScanQueues \/ NextQueueBatch \/ \E u \in Users : CountQueue(u)
  BY <1>3, QueueLoop
<1>4. CASE ScanProcessing
  BY <1>4, LockLoop
<1>5. ASSUME NEW u \in Users, AskStatus(u) PROVE HealthInv'
  BY <1>5, ElsewhereKeepsHealth DEF AskStatus
<1>6. CASE StatusStep
  BY <1>6, ElsewhereKeepsHealth DEF StatusStep, ReadLengthFirst, ReadCurrent
<1>7. CASE StatusRaises \/ CheckWorkerRaises
  BY <1>7, ElsewhereKeepsHealth DEF StatusRaises, CheckWorkerRaises, requestVars
<1>8. CASE UNCHANGED monitorVars
  <2>1. UNCHANGED <<QueueKeys, ProcessingKeys, services, at, health, scan, unseen, backlog, locked>>
    BY <1>8 DEF monitorVars, requestVars, queueVars,
                QueueKeys, ProcessingKeys, HasQueued, IsProcessing
  <2> QED
    BY <2>1 DEF HealthInv, HealthTypeOK, QueuesCounted, LocksCounted, HealthCountsBacklog, Available
<1> QED
  BY <1>1, <1>2, <1>3, <1>4, <1>5, <1>6, <1>7, <1>8 DEF MonitorNext

\* The counts of /health cover every backlog and every lock that lasted through
\* the request, for any number of SCAN calls and any keys in their batches
\* (queue_manager.py:304-353).
THEOREM HealthMissesNothing == ASSUME FiniteUsers PROVE MonitorSpec => []HealthCountsBacklog
<1>1. MonitorInit => HealthInv
  BY DEF MonitorInit, NoHealth, NoScan, HealthInv, HealthTypeOK, QueuesCounted, LocksCounted,
         HealthCountsBacklog
<1>2. HealthInv /\ [MonitorNext]_monitorVars => HealthInv'
  BY FiniteUsers, HealthStep
<1>3. HealthInv => HealthCountsBacklog
  BY DEF HealthInv
<1> QED
  BY <1>1, <1>2, <1>3, PTL DEF MonitorSpec

=============================================================================
