----------------------------- MODULE Requests -----------------------------
(***************************************************************************)
(* What the clients of the broker send: POST /api/v1/message (a message,   *)
(* models/messages.py) and GET /api/v1/stream (a stream, api/routes.py).   *)
(* A message is delivered by callback when its request names a             *)
(* callback_url, over an SSE stream otherwise.                             *)
(***************************************************************************)
CONSTANTS
    Users,         \* user ids, each with a queue of its own
    Msgs,          \* message ids: every POST gets a fresh one
    UserOf,        \* the user_id of each message
    CallbackMsgs,  \* the messages whose request has a callback_url
    NoMsg,         \* a Redis key that does not exist
    Streams,       \* SSE requests; a client that reconnects sends another one
    StreamMsg,     \* the message_id each SSE request names
    NoStream       \* no entry in the stream registry

\* A stream request names the user of its message: clients send the user_id
\* they posted the message with.
ASSUME RequestAssumption ==
    /\ UserOf \in [Msgs -> Users]
    /\ CallbackMsgs \subseteq Msgs
    /\ NoMsg \notin Msgs
    /\ StreamMsg \in [Streams -> Msgs]
    /\ NoStream \notin Streams

===========================================================================
