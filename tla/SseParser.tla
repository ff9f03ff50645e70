----------------------------- MODULE SseParser ------------------------------
(***************************************************************************)
(* _parse_sse_stream (services/stream_proxy.py) as a fold over the lines   *)
(* of the worker's stream, and what it should compute: an event for every  *)
(* block of lines that a blank line ends.                                  *)
(*                                                                         *)
(* A line is an "event:" or "data:" field with its stripped value, a blank *)
(* line, or anything else (comments, other fields).                        *)
(***************************************************************************)
EXTENDS Integers, Sequences, FiniteSets

CONSTANTS
    Values,     \* the values of fields, apart from the empty one
    Empty,      \* the empty string
    Default     \* the event type of a block that names none: "message"

Lines == [kind : {"event", "data"}, value : Values \cup {Empty}]
             \cup [kind : {"blank", "other"}, value : {Empty}]

\* The local variables between two lines: event_type (Empty for None, which
\* is as false) and data_lines.
Fresh == [type |-> Empty, data |-> <<>>]

\* An event was begun: data_lines or event_type.
Begun(p) == p.data # <<>> \/ p.type # Empty

\* The ServerSentEvent that is yielded: "" is the data of an event without any.
Event(p) ==
    [type |-> IF p.type = Empty THEN Default ELSE p.type,
     data |-> IF p.data = <<>> THEN <<Empty>> ELSE p.data]

\* Faulty variant: data_lines is not reset after an event.
ConsumeKeepsData(p, line) ==
    CASE line.kind = "event" -> [p EXCEPT !.type = line.value]
      [] line.kind = "data" -> [p EXCEPT !.data = Append(@, line.value)]
      [] line.kind = "blank" /\ Begun(p) -> [p EXCEPT !.type = Empty]
      [] OTHER -> p

\* The variables after a line ...
Consume(p, line) ==
    CASE line.kind = "event" -> [p EXCEPT !.type = line.value]
      [] line.kind = "data" -> [p EXCEPT !.data = Append(@, line.value)]
      [] line.kind = "blank" /\ Begun(p) -> Fresh
      [] OTHER -> p

\* ... and the events it yields; at the end of the stream, the one begun.
Yielded(p, line) == IF line.kind = "blank" /\ Begun(p) THEN <<Event(p)>> ELSE <<>>
Flushed(p) == IF Begun(p) THEN <<Event(p)>> ELSE <<>>

---------------------------------------------------------------------------
(* The reference. *)

\* The number of positions of a set up to j, the k-th of its positions, and the
\* items of a sequence at its positions, in order.
Rank(S, j) == Cardinality({x \in S : x <= j})
Nth(S, k) == CHOOSE j \in S : Rank(S, j) = k
At(s, S) == [k \in 1..Cardinality(S) |-> s[Nth(S, k)]]

\* The fields of one kind in the block before position i, which goes back to
\* the last blank line before i.
Fields(lines, i, kind) ==
    {j \in 1..(i - 1) : /\ lines[j].kind = kind
                        /\ \A h \in j..(i - 1) : lines[h].kind # "blank"}

FieldValues(lines, i, kind) ==
    At([j \in 1..(i - 1) |-> lines[j].value], Fields(lines, i, kind))

\* A block has the type of its last event field and the data of all its data
\* fields, in order.
Block(lines, i) ==
    LET types == FieldValues(lines, i, "event")
    IN  [type |-> IF types = <<>> THEN Empty ELSE types[Len(types)],
         data |-> FieldValues(lines, i, "data")]

\* The events of the lines, without or with the block at the end that no blank
\* line ends: an event for every blank line that ends a block with fields.
CompleteEvents(lines) ==
    At([i \in DOMAIN lines |-> Event(Block(lines, i))],
       {i \in DOMAIN lines : lines[i].kind = "blank" /\ Begun(Block(lines, i))})
AllEvents(lines) == CompleteEvents(Append(lines, [kind |-> "blank", value |-> Empty]))

===========================================================================
