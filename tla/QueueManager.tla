--------------------------- MODULE QueueManager ---------------------------
(***************************************************************************)
(* The Redis state behind QueueManager (services/queue_manager.py) and one *)
(* operator per command or Lua script it sends.  Redis runs each of them   *)
(* atomically; everything between two of them is an await at which other   *)
(* coroutines run, so callers in the modules above take one step for each. *)
(*                                                                         *)
(*   queue[u]       user:{u}:queue, a list: RPUSH at the end, LPOP in front*)
(*   processing[u]  user:{u}:processing, the id of the message being       *)
(*                  processed, or NoMsg when the key does not exist        *)
(*   metadata[m]    whether the hash message:{m} exists                    *)
(*                                                                         *)
(* arrival and pushes are history variables: the number of the RPUSH that  *)
(* stored a message (0: never stored), and how many RPUSHes there were.    *)
(***************************************************************************)
EXTENDS Requests, Naturals, Sequences

VARIABLES queue, processing, metadata, arrival, pushes

queueVars == <<queue, processing, metadata, arrival, pushes>>

QueueTypeOK ==
    /\ queue \in [Users -> Seq(Msgs)]
    /\ processing \in [Users -> Msgs \cup {NoMsg}]
    /\ metadata \in [Msgs -> BOOLEAN]
    /\ arrival \in [Msgs -> Nat]
    /\ pushes \in Nat

QueueInit ==
    /\ queue = [u \in Users |-> <<>>]
    /\ processing = [u \in Users |-> NoMsg]
    /\ metadata = [m \in Msgs |-> FALSE]
    /\ arrival = [m \in Msgs |-> 0]
    /\ pushes = 0

---------------------------------------------------------------------------
(* Faulty variants, to see that the properties notice them. *)

\* RPUSH replaced by LPUSH: the newest message is served first.
EnqueueInFront(m) ==
    /\ queue' = [queue EXCEPT ![UserOf[m]] = <<m>> \o @]
    /\ arrival' = [arrival EXCEPT ![m] = pushes + 1]
    /\ pushes' = pushes + 1
    /\ UNCHANGED <<processing, metadata>>

\* LINDEX instead of LPOP: the entry stays in the list and is served again.
DequeueWithoutPop(u, m) ==
    /\ processing[u] = NoMsg
    /\ queue[u] # <<>>
    /\ m = Head(queue[u])
    /\ processing' = [processing EXCEPT ![u] = m]
    /\ UNCHANGED <<queue, metadata, arrival, pushes>>

\* LPOP without the EXISTS check of the processing key.
DequeueUnchecked(u, m) ==
    /\ queue[u] # <<>>
    /\ m = Head(queue[u])
    /\ queue' = [queue EXCEPT ![u] = Tail(@)]
    /\ processing' = [processing EXCEPT ![u] = m]
    /\ UNCHANGED <<metadata, arrival, pushes>>

\* One processing key for all users.
DequeueGlobalLock(u, m) ==
    /\ \A v \in Users : processing[v] = NoMsg
    /\ queue[u] # <<>>
    /\ m = Head(queue[u])
    /\ queue' = [queue EXCEPT ![u] = Tail(@)]
    /\ processing' = [processing EXCEPT ![u] = m]
    /\ UNCHANGED <<metadata, arrival, pushes>>

\* The compare-and-delete without the comparison.
MarkCompleteUnconditional(m) ==
    /\ processing' = [processing EXCEPT ![UserOf[m]] = NoMsg]
    /\ metadata' = [metadata EXCEPT ![m] = FALSE]
    /\ UNCHANGED <<queue, arrival, pushes>>

\* DEL message_key moved out of the if.
MarkCompleteAlwaysDeletes(m) ==
    /\ processing' = [processing EXCEPT ![UserOf[m]] = IF @ = m THEN NoMsg ELSE @]
    /\ metadata' = [metadata EXCEPT ![m] = FALSE]
    /\ UNCHANGED <<queue, arrival, pushes>>

---------------------------------------------------------------------------

\* enqueue, first command: RPUSH.  It returns the new length of the list.
Enqueue(m) ==
    /\ queue' = [queue EXCEPT ![UserOf[m]] = Append(@, m)]
    /\ arrival' = [arrival EXCEPT ![m] = pushes + 1]
    /\ pushes' = pushes + 1
    /\ UNCHANGED <<processing, metadata>>

\* The position the RPUSH of m would return is 1.
FirstInQueue(m) == queue[UserOf[m]] = <<>>

\* HSET message:{m}: enqueue's second command (queued_at) and dequeue's
\* (started_at).  HSET creates the hash when it does not exist.
StoreMetadata(m) ==
    /\ metadata' = [metadata EXCEPT ![m] = TRUE]
    /\ UNCHANGED <<queue, processing, arrival, pushes>>

\* DEQUEUE_SCRIPT when it returns an entry: check, pop and set the flag.
Dequeue(u, m) ==
    /\ processing[u] = NoMsg
    /\ queue[u] # <<>>
    /\ m = Head(queue[u])
    /\ queue' = [queue EXCEPT ![u] = Tail(@)]
    /\ processing' = [processing EXCEPT ![u] = m]
    /\ UNCHANGED <<metadata, arrival, pushes>>

\* DEQUEUE_SCRIPT when it returns nil: the user is busy or has nothing queued.
DequeueNone(u) ==
    /\ processing[u] # NoMsg \/ queue[u] = <<>>
    /\ UNCHANGED queueVars

\* MARK_COMPLETE_SCRIPT: the processing key and the hash are deleted only if
\* the key still names m.
MarkComplete(m) ==
    /\ processing' = [processing EXCEPT ![UserOf[m]] = IF @ = m THEN NoMsg ELSE @]
    /\ metadata' = [metadata EXCEPT ![m] = @ /\ processing[UserOf[m]] # m]
    /\ UNCHANGED <<queue, arrival, pushes>>

\* The TTL that SETEX gave the processing key runs out.
ProcessingExpires(u) ==
    /\ processing[u] # NoMsg
    /\ processing' = [processing EXCEPT ![u] = NoMsg]
    /\ UNCHANGED <<queue, metadata, arrival, pushes>>

\* get_queue_length and is_processing, as their callers use them.
HasQueued(u) == queue[u] # <<>>
IsProcessing(u) == processing[u] # NoMsg

===========================================================================
