-------------------------- MODULE ChannelQueueSpec --------------------------
(***************************************************************************)
(* What a channel queue promises its users (spec section 3, "Channel      *)
(* Queue"): a FIFO queue returns the oldest unread write and consumes it;  *)
(* a single-value queue is a register whose read returns the most recent   *)
(* write and leaves it in place.  A read of an empty queue reports "no     *)
(* data" and changes nothing, so it is a stuttering step here.            *)
(***************************************************************************)
EXTENDS Sequences

CONSTANTS
  Values,         \* the element values written to the queue
  Zero            \* what a caller's output buffer holds before any read

VARIABLES
  single,         \* TRUE for a SingleValue channel, FALSE for FIFO; fixed
  contents,       \* the unread elements, oldest first
  out             \* the value the last successful Read copied out

vars == <<single, contents, out>>

Init ==
  /\ single \in BOOLEAN
  /\ contents = <<>>
  /\ out = Zero

Write(v) ==
  /\ contents' = IF single THEN <<v>> ELSE Append(contents, v)
  /\ UNCHANGED <<single, out>>

Read ==
  /\ contents # <<>>
  /\ out' = Head(contents)
  /\ contents' = IF single THEN contents ELSE Tail(contents)
  /\ UNCHANGED single

Next == (\E v \in Values : Write(v)) \/ Read

Spec == Init /\ [][Next]_vars

=============================================================================
