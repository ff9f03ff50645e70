----------------------------- MODULE MCReplies ------------------------------
(***************************************************************************)
(* An instance of the replies for TLC: streams of up to six lines whose    *)
(* fields have one of two values or none.  One of the values is a type of  *)
(* the broker's own events.                                                *)
(***************************************************************************)
EXTENDS Replies, TLC

CONSTANT text

MCValues == {text, "done"}

===========================================================================
