----------------------------- MODULE MCBroker -----------------------------
(***************************************************************************)
(* Instances of the broker for TLC.  User u1 posts callback messages       *)
(* (c1, c2) and SSE messages (e1, e2), user u2 the callback message d1.    *)
(* Each SSE message has a stream of its own (s1, s2); s3 is a second       *)
(* request for e1, of a client that reconnects, and s4 a request for the   *)
(* callback message c1.  A configuration takes the ones it needs.          *)
(***************************************************************************)
EXTENDS BrokerInvariant, TLC

CONSTANTS u1, u2, c1, c2, d1, e1, e2, s1, s2, s3, s4

MCUserOf == [m \in Msgs |-> IF m = d1 THEN u2 ELSE u1]

MCCallbackMsgs == Msgs \cap {c1, c2, d1}

MCStreamMsg ==
    [s \in Streams |-> CASE s \in {s1, s3} -> e1
                         [] s = s2 -> e2
                         [] s = s4 -> c1]

\* Requests that are interchangeable: the two callback messages (without s4),
\* the two SSE messages, each with its stream (without s3), the two streams of e1.
Swap(pairs) == {[x \in DOMAIN pairs |-> x], pairs}
SwapCallbacks == Swap((c1 :> c2) @@ (c2 :> c1))
SwapMessages == Swap((e1 :> e2) @@ (e2 :> e1) @@ (s1 :> s2) @@ (s2 :> s1))
SwapStreams == Swap((s1 :> s3) @@ (s3 :> s1))

===========================================================================
