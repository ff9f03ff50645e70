------------------------------ MODULE Replies -------------------------------
(***************************************************************************)
(* What a client reads on its SSE stream: the events of proxy_stream and   *)
(* stream_from_worker (services/stream_proxy.py).  This is the inside of   *)
(* what Broker takes for one place, the streaming; the queue, the registry *)
(* and the other messages are left to it.                                  *)
(*                                                                         *)
(* An event is what is on the wire, a type and the lines of its data.  The *)
(* events of the worker are forwarded as they are (proxy_stream 231-234),  *)
(* also with the types of the broker's own: what tells the broker's        *)
(* "queued" and "done" from those is the message_id they carry, which the  *)
(* worker never learns (_build_worker_payload).                            *)
(*                                                                         *)
(*   at      where the coroutine stands                                    *)
(*     connected                    the stream is not registered yet       *)
(*     queued, opening, reading     waiting for the handoff, for the       *)
(*                                  worker's status, for its next line     *)
(*     over                         the client gets nothing more           *)
(*   lines   what the worker has sent on the stream                        *)
(*   ended   how the worker's stream ended: unasked (it was not opened),   *)
(*           open, clean, broken, refused                                  *)
(*   parser  the local variables of _parse_sse_stream                      *)
(*   events  what the client got                                           *)
(***************************************************************************)
EXTENDS SseParser

CONSTANTS
    MessageId,  \* the message_id
    Reason,     \* what an error event of the broker says
    MaxLines    \* bound on the lines of a stream

ASSUME RepliesAssumption ==
    /\ MessageId \notin Values \cup {Empty, Reason}
    /\ MaxLines \in Nat

VARIABLES at, lines, ended, parser, events

replyVars == <<at, lines, ended, parser, events>>

\* The broker's own events.
Queued == [type |-> "queued", data |-> <<MessageId>>]
Processing == [type |-> "processing", data |-> <<Empty>>]
Error == [type |-> "error", data |-> <<Reason>>]
Done == [type |-> "done", data |-> <<MessageId>>]

RepliesInit ==
    /\ at = "connected"
    /\ lines = <<>>
    /\ ended = "unasked"
    /\ parser = Fresh
    /\ events = <<>>

---------------------------------------------------------------------------

Registers ==
    /\ at = "connected"
    /\ at' = "queued"
    /\ events' = <<Queued>>
    /\ UNCHANGED <<lines, ended, parser>>

HandedOff ==
    /\ at = "queued"
    /\ at' = "opening"
    /\ ended' = "open"
    /\ events' = Append(events, Processing)
    /\ UNCHANGED <<lines, parser>>

HandoffTimesOut ==
    /\ at = "queued"
    /\ at' = "over"
    /\ events' = Append(events, Error)
    /\ UNCHANGED <<lines, ended, parser>>

WorkerAccepts ==
    /\ at = "opening"
    /\ at' = "reading"
    /\ UNCHANGED <<lines, ended, parser, events>>

\* A status of 400 or more: an error event, and proxy_stream goes on to "done".
WorkerRefuses ==
    /\ at = "opening"
    /\ at' = "over"
    /\ ended' = "refused"
    /\ events' = events \o <<Error, Done>>
    /\ UNCHANGED <<lines, parser>>

ReadLine(line) ==
    /\ at = "reading"
    /\ Len(lines) < MaxLines
    /\ lines' = Append(lines, line)
    /\ parser' = Consume(parser, line)
    /\ events' = events \o Yielded(parser, line)
    /\ UNCHANGED <<at, ended>>

StreamEndsClean ==
    /\ at = "reading"
    /\ at' = "over"
    /\ ended' = "clean"
    /\ events' = Append(events \o Flushed(parser), Done)
    /\ UNCHANGED <<lines, parser>>

\* Faulty variant: an exception of httpx is taken for the end of the stream.
BreakIsTheEnd ==
    /\ at \in {"opening", "reading"}
    /\ at' = "over"
    /\ ended' = "broken"
    /\ events' = Append(events, Done)
    /\ UNCHANGED <<lines, parser>>

\* No connection, a timeout, or a connection that breaks: the exception leaves
\* the generator, which forwards nothing more.
StreamBreaks ==
    /\ at \in {"opening", "reading"}
    /\ at' = "over"
    /\ ended' = "broken"
    /\ UNCHANGED <<lines, parser, events>>

\* The CancelledError is caught, or comes before the try, and the generator ends.
ClientLeaves ==
    /\ at \in {"connected", "queued", "opening", "reading"}
    /\ at' = "over"
    /\ UNCHANGED <<lines, ended, parser, events>>

RepliesNext ==
    \/ Registers
    \/ HandedOff
    \/ HandoffTimesOut
    \/ WorkerAccepts
    \/ WorkerRefuses
    \/ \E line \in Lines : ReadLine(line)
    \/ StreamEndsClean
    \/ StreamBreaks
    \/ ClientLeaves

RepliesSpec == RepliesInit /\ [][RepliesNext]_replyVars

---------------------------------------------------------------------------
(* Properties. *)

\* What the client should have read of a stream that was opened.
Answer ==
    CASE ended = "clean" -> Append(AllEvents(lines), Done)
      [] ended = "refused" -> <<Error, Done>>
      [] OTHER -> CompleteEvents(lines)

\* The client gets an event for every block the worker has completed, in the
\* same order and with the same type and data, when it is completed, and nothing
\* between them; a block without its blank line only when the stream has ended
\* cleanly, never the half of an event that a broken connection cut off
\* (stream_proxy.py:280).
ForwardsBlocks == ended # "unasked" => events = <<Queued, Processing>> \o Answer

\* A "done" with its message_id tells the client that nothing follows and that
\* it has the worker's whole answer, unless the event before it is an "error":
\* never that of a stream that broke or of a handoff that timed out
\* (stream_proxy.py:236).  The worker may send events of the type "done", too,
\* at any point of its answer (tests/unit/test_stream_proxy.py:210-218): a client
\* that goes by the type alone is told nothing.
DoneMeansComplete ==
    \A i \in DOMAIN events : events[i] = Done =>
        /\ i = Len(events)
        /\ ended = "clean" \/ events[i - 1].type = "error"

===========================================================================
