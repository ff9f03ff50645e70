---------------------------- MODULE PerUserFifo ----------------------------
(***************************************************************************)
(* What the broker promises the worker: for every user the messages are    *)
(* taken one at a time, in the order in which they were accepted, and the  *)
(* worker is called at most once for a message, while it is the one being  *)
(* served.  Users do not wait for each other.                              *)
(***************************************************************************)
EXTENDS Sequences

CONSTANTS Users, Msgs, UserOf, NoMsg

VARIABLES
    accepted,   \* the messages that were ever queued
    waiting,    \* of each user: the messages not yet served, oldest first
    serving,    \* of each user: the message being served, or NoMsg
    working,    \* of each user: whether a worker call is going on
    called      \* of each user: the messages the worker was called for

vars == <<accepted, waiting, serving, working, called>>

Init ==
    /\ accepted = {}
    /\ waiting = [u \in Users |-> <<>>]
    /\ serving = [u \in Users |-> NoMsg]
    /\ working = [u \in Users |-> FALSE]
    /\ called = [u \in Users |-> <<>>]

Accept(m) ==
    /\ m \notin accepted
    /\ accepted' = accepted \cup {m}
    /\ waiting' = [waiting EXCEPT ![UserOf[m]] = Append(@, m)]
    /\ UNCHANGED <<serving, working, called>>

Take(u) ==
    /\ serving[u] = NoMsg
    /\ waiting[u] # <<>>
    /\ serving' = [serving EXCEPT ![u] = Head(waiting[u])]
    /\ waiting' = [waiting EXCEPT ![u] = Tail(@)]
    /\ UNCHANGED <<accepted, working, called>>

\* The call for the message being served, unless it has been made before.
Call(u) ==
    /\ serving[u] # NoMsg
    /\ \A i \in DOMAIN called[u] : called[u][i] # serving[u]
    /\ working' = [working EXCEPT ![u] = TRUE]
    /\ called' = [called EXCEPT ![u] = Append(@, serving[u])]
    /\ UNCHANGED <<accepted, waiting, serving>>

\* The calls of some users end: one returns, or the broker goes down.
Return(S) ==
    /\ working' = [u \in Users |-> working[u] /\ u \notin S]
    /\ UNCHANGED <<accepted, waiting, serving, called>>

\* The next message is taken only when the call is over.
Release(u) ==
    /\ ~working[u]
    /\ serving' = [serving EXCEPT ![u] = NoMsg]
    /\ UNCHANGED <<accepted, waiting, working, called>>

Next ==
    \/ \E m \in Msgs : Accept(m)
    \/ \E u \in Users : Take(u) \/ Call(u) \/ Release(u)
    \/ \E S \in SUBSET Users : Return(S)

Spec == Init /\ [][Next]_vars

===========================================================================
