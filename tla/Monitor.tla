------------------------------ MODULE Monitor -------------------------------
(***************************************************************************)
(* The two endpoints that report on the queues while others change them:   *)
(* GET /api/v1/queue/{user_id} and GET /health (api/routes.py).  Each reads*)
(* Redis several times, one await for each, and puts the answers together. *)
(* A request changes nothing, so it is enough to follow one at a time.     *)
(*                                                                         *)
(*   services   the clients that lifespan could make at start-up: without  *)
(*              Redis there is no queue manager, without the settings of   *)
(*              the worker no worker client (main.py)                      *)
(*   at         where the handler of the request stands                    *)
(*   report     the queue status so far                                    *)
(*   health     the health report so far                                   *)
(*   scan       the SCAN loop under way: the keys of the last batch whose  *)
(*              LLEN is to come, whether the loop ends after this batch,   *)
(*              and the number of batches so far                           *)
(*                                                                         *)
(* asked, backlog, locked and unseen are history: the number of messages   *)
(* pushed before the request, the users whose queue (whose lock) has       *)
(* existed ever since, and the keys that SCAN must still return.           *)
(***************************************************************************)
EXTENDS QueueManager, FiniteSets, Functions

CONSTANT MaxBatches     \* bound on the SCAN calls of a loop

ASSUME MonitorAssumption == MaxBatches \in Nat \ {0}

VARIABLES services, at, report, health, scan, asked, backlog, locked, unseen

requestVars == <<report, health, scan, asked, unseen>>
monitorVars == <<queueVars, services, at, requestVars, backlog, locked>>

\* What get_queue_manager and get_worker_client find in the application's state.
Available(service) == service \in services

\* The users with a key user:{u}:queue, and those with user:{u}:processing.
\* Redis deletes a list with its last element.
QueueKeys == {u \in Users : HasQueued(u)}
ProcessingKeys == {u \in Users : IsProcessing(u)}

NoReport == [user |-> "none", length |-> 0, processing |-> FALSE, current |-> NoMsg]
NoHealth == [status |-> "none", redis |-> FALSE, worker |-> FALSE, active |-> 0, processing |-> 0]
NoScan == [keys |-> {}, last |-> FALSE, batches |-> 0]

MonitorInit ==
    /\ QueueInit
    /\ services \in SUBSET {"queue_manager", "worker_client"}
    /\ at = "idle"
    /\ report = NoReport
    /\ health = NoHealth
    /\ scan = NoScan
    /\ asked = 0
    /\ backlog = {}
    /\ locked = {}
    /\ unseen = {}

---------------------------------------------------------------------------
(* The others. *)

\* Whatever the routes, the tasks and the stream handlers send to Redis: every
\* message is pushed once, and the rest of the commands in any order.
RedisCommand ==
    \/ \E m \in Msgs : arrival[m] = 0 /\ Enqueue(m)
    \/ \E m \in Msgs : StoreMetadata(m) \/ MarkComplete(m)
    \/ \E u \in Users, m \in Msgs : Dequeue(u, m)
    \/ \E u \in Users : ProcessingExpires(u)

\* The keys that are gone leave the histories.
Others ==
    /\ Available("queue_manager")
    /\ RedisCommand
    /\ backlog' = backlog \cap QueueKeys'
    /\ locked' = locked \cap ProcessingKeys'
    /\ unseen' = unseen \cap (IF at \in {"scanQueues", "llen"} THEN QueueKeys' ELSE ProcessingKeys')
    /\ UNCHANGED <<services, at, report, health, scan, asked>>

---------------------------------------------------------------------------
(* Faulty variants. *)

\* The status handler asks for the processing flag before the length.
ReadLengthSecond(u) ==
    \/ /\ at = "readLength"
       /\ at' = "readProcessing"
       /\ report' = [report EXCEPT !.processing = IsProcessing(u)]
    \/ /\ at = "readProcessing"
       /\ at' = "readCurrent"
       /\ report' = [report EXCEPT !.length = Len(queue[u])]

\* The SCAN loop takes an empty batch for the end.
EndsOnEmptyBatch(keys, cursor) == cursor = 0 \/ keys = {}

---------------------------------------------------------------------------
(* get_queue_status *)

AskStatus(u) ==
    /\ at = "idle"
    /\ at' = IF Available("queue_manager") THEN "readLength" ELSE "unavailable"
    /\ report' = [report EXCEPT !.user = u]
    /\ asked' = pushes
    /\ UNCHANGED <<queueVars, services, health, scan, backlog, locked, unseen>>

\* get_queue_length, then is_processing.
ReadLengthFirst(u) ==
    \/ /\ at = "readLength"
       /\ at' = "readProcessing"
       /\ report' = [report EXCEPT !.length = Len(queue[u])]
    \/ /\ at = "readProcessing"
       /\ at' = "readCurrent"
       /\ report' = [report EXCEPT !.processing = IsProcessing(u)]

\* ... and get_current_message_id.
ReadCurrent(u) ==
    /\ at = "readCurrent"
    /\ at' = "statusSent"
    /\ report' = [report EXCEPT !.current = processing[u]]

StatusStep ==
    /\ report.user \in Users
    /\ ReadLengthFirst(report.user) \/ ReadCurrent(report.user)
    /\ UNCHANGED <<queueVars, services, health, scan, asked, backlog, locked, unseen>>

\* Redis fails: no except clause, the client gets a 500.
StatusRaises ==
    /\ at \in {"readLength", "readProcessing", "readCurrent"}
    /\ at' = "failed"
    /\ UNCHANGED <<queueVars, services, requestVars, backlog, locked>>

---------------------------------------------------------------------------
(* health_check *)

AskHealth ==
    /\ at = "idle"
    /\ at' = "checkWorker"
    /\ backlog' = QueueKeys
    /\ locked' = ProcessingKeys
    /\ UNCHANGED <<queueVars, services, report, health, scan, asked, unseen>>

\* WorkerClient.health_check: 200 or not, or no answer.
CheckWorker ==
    /\ at = "checkWorker"
    /\ \E healthy \in (IF Available("worker_client") THEN BOOLEAN ELSE {FALSE}) :
           IF Available("queue_manager")
           THEN /\ at' = "ping"
                /\ health' = [health EXCEPT !.worker = healthy]
           ELSE /\ at' = "healthSent"
                /\ health' = [health EXCEPT !.worker = healthy, !.status = "degraded"]
    /\ UNCHANGED <<queueVars, services, report, scan, asked, backlog, locked, unseen>>

\* It catches timeouts and failing connects; a connection that breaks later is a 500.
CheckWorkerRaises ==
    /\ at = "checkWorker"
    /\ Available("worker_client")
    /\ at' = "failed"
    /\ UNCHANGED <<queueVars, services, requestVars, backlog, locked>>

\* QueueManager.ping returns False where Redis fails.
Ping ==
    /\ at = "ping"
    /\ at' = "scanQueues"
    /\ \E ok \in BOOLEAN : health' = [health EXCEPT !.redis = ok]
    /\ scan' = NoScan
    /\ unseen' = QueueKeys
    /\ UNCHANGED <<queueVars, services, report, asked, backlog, locked>>

\* The loop of get_active_queue_count and get_processing_count goes on until
\* SCAN returns the cursor 0.
LoopEnds(keys, cursor) == cursor = 0

\* SCAN returns any batch of existing keys, empty ones and keys it has returned
\* before included.  The cursor is 0 only after every key that existed all
\* the time was returned.
ScanBatch(existing, batch) ==
    /\ scan.batches < MaxBatches
    /\ batch \subseteq existing
    /\ unseen' = unseen \ batch
    /\ \E cursor \in {0, 1} :
        /\ cursor = 0 => unseen' = {}
        /\ scan.batches + 1 = MaxBatches => cursor = 0
        /\ scan' = [keys |-> batch, last |-> LoopEnds(batch, cursor), batches |-> scan.batches + 1]

ScanQueues ==
    /\ at = "scanQueues"
    /\ \E batch \in SUBSET QueueKeys : ScanBatch(QueueKeys, batch)
    /\ at' = "llen"
    /\ UNCHANGED <<queueVars, services, report, health, asked, backlog, locked>>

\* LLEN of one key after the other.
CountQueue(u) ==
    /\ at = "llen"
    /\ u \in scan.keys
    /\ scan' = [scan EXCEPT !.keys = @ \ {u}]
    /\ health' = IF HasQueued(u) THEN [health EXCEPT !.active = @ + 1] ELSE health
    /\ UNCHANGED <<queueVars, services, at, report, asked, backlog, locked, unseen>>

NextQueueBatch ==
    /\ at = "llen"
    /\ scan.keys = {}
    /\ IF scan.last
       THEN /\ at' = "scanProcessing"
            /\ scan' = NoScan
            /\ unseen' = ProcessingKeys
       ELSE /\ at' = "scanQueues"
            /\ UNCHANGED <<scan, unseen>>
    /\ UNCHANGED <<queueVars, services, report, health, asked, backlog, locked>>

\* The status of a report that is complete.
Verdict(redis, worker) ==
    CASE redis /\ worker -> "healthy"
      [] redis /\ ~worker -> "degraded"
      [] OTHER -> "unhealthy"

\* The processing count adds the size of every batch; after the last one the
\* report is sent.
ScanProcessing ==
    /\ at = "scanProcessing"
    /\ \E batch \in SUBSET ProcessingKeys :
        /\ ScanBatch(ProcessingKeys, batch)
        /\ IF scan'.last
           THEN /\ at' = "healthSent"
                /\ health' = [health EXCEPT !.processing = @ + Cardinality(batch),
                                            !.status = Verdict(health.redis, health.worker)]
           ELSE /\ at' = at
                /\ health' = [health EXCEPT !.processing = @ + Cardinality(batch)]
    /\ UNCHANGED <<queueVars, services, report, asked, backlog, locked>>

\* A command fails: the report says "unhealthy" and has no counts.
ScanRaises ==
    /\ at \in {"scanQueues", "llen", "scanProcessing"}
    /\ at' = "healthSent"
    /\ health' = [NoHealth EXCEPT !.worker = health.worker, !.status = "unhealthy"]
    /\ UNCHANGED <<queueVars, services, report, scan, asked, backlog, locked, unseen>>

---------------------------------------------------------------------------

\* The response is sent, or a 503 or a 500: the request is over.
Sent ==
    /\ at \in {"statusSent", "healthSent", "unavailable", "failed"}
    /\ at' = "idle"
    /\ report' = NoReport
    /\ health' = NoHealth
    /\ scan' = NoScan
    /\ asked' = 0
    /\ backlog' = {}
    /\ locked' = {}
    /\ unseen' = {}
    /\ UNCHANGED <<queueVars, services>>

MonitorNext ==
    \/ Others
    \/ \E u \in Users : AskStatus(u) \/ CountQueue(u)
    \/ StatusStep
    \/ StatusRaises
    \/ AskHealth
    \/ CheckWorker
    \/ CheckWorkerRaises
    \/ Ping
    \/ ScanQueues
    \/ NextQueueBatch
    \/ ScanProcessing
    \/ ScanRaises
    \/ Sent

MonitorSpec == MonitorInit /\ [][MonitorNext]_monitorVars

---------------------------------------------------------------------------
(* Properties. *)

\* A status that says "nothing queued, nothing processing" means that every
\* message accepted before the request has been served, although the two
\* answers are from different moments (routes.py:113-114).
IdleMeansServed ==
    at = "statusSent" /\ report.length = 0 /\ ~report.processing =>
        \A m \in Msgs : UserOf[m] = report.user /\ arrival[m] \in 1..asked =>
            m \notin Range(queue[report.user]) /\ processing[report.user] # m

\* A health report with counts never hides a backlog: users whose queue, or
\* whose lock, existed during the whole request are counted, whatever SCAN
\* returns in between (queue_manager.py:315-327, 342-351).
HealthCountsBacklog ==
    at = "healthSent" /\ health.status \in {"healthy", "degraded"} /\ Available("queue_manager") =>
        /\ health.active >= Cardinality(backlog)
        /\ health.processing >= Cardinality(locked)

---------------------------------------------------------------------------
(* The inductive invariant behind IdleMeansServed.                         *)

Reports == [user : Users \cup {"none"}, length : Nat, processing : BOOLEAN,
            current : Msgs \cup {NoMsg}]

\* The messages of the user that had been pushed when the request came.
AskedAbout(m) == UserOf[m] = report.user /\ arrival[m] \in 1..asked

\* Once the length was 0 none of them is queued, nor will be again ...
NoneQueued ==
    at \in {"readProcessing", "readCurrent", "statusSent"} /\ report.length = 0 =>
        \A m \in Msgs : AskedAbout(m) => m \notin Range(queue[report.user])

\* ... so that none of them can get the lock once the lock was free.
NoneProcessing ==
    at \in {"readCurrent", "statusSent"} /\ report.length = 0 /\ ~report.processing =>
        \A m \in Msgs : AskedAbout(m) => processing[report.user] # m

StatusInv ==
    /\ QueueTypeOK
    /\ report \in Reports
    /\ at \in {"readLength", "readProcessing", "readCurrent", "statusSent"} => report.user \in Users
    /\ asked \in 0..pushes
    /\ NoneQueued
    /\ NoneProcessing

---------------------------------------------------------------------------
(* The inductive invariant behind HealthCountsBacklog.                     *)

HealthTypeOK ==
    /\ health \in [status : {"none", "healthy", "degraded", "unhealthy"},
                   redis : BOOLEAN, worker : BOOLEAN,
                   active : Nat, processing : Nat]
    /\ scan \in [keys : SUBSET Users, last : BOOLEAN, batches : Nat]
    /\ backlog \subseteq QueueKeys
    /\ locked \subseteq ProcessingKeys

\* The loop over the queues has counted the backlog except for the keys that
\* SCAN has not returned yet, and those of its last batch.
QueuesCounted ==
    /\ at = "scanQueues" => scan.keys = {}
    /\ at = "llen" /\ scan.last => unseen = {}
    /\ at \in {"scanQueues", "llen"} =>
           health.active >= Cardinality(backlog \ (unseen \cup scan.keys))

\* The loop over the locks has counted all that SCAN has returned.
LocksCounted ==
    at = "scanProcessing" =>
        /\ health.active >= Cardinality(backlog)
        /\ health.processing >= Cardinality(locked \ unseen)

HealthInv == HealthTypeOK /\ QueuesCounted /\ LocksCounted /\ HealthCountsBacklog

===========================================================================
