------------------------------ MODULE TypeAhead ------------------------------
(***************************************************************************)
(* What the keyboard buffer promises: a queue of bounded length.  What is  *)
(* typed into a full queue is lost, and only that; what is read comes in   *)
(* the order it was typed, each character once; execve discards what       *)
(* nobody has read.                                                        *)
(***************************************************************************)
EXTENDS Integers, Sequences

CONSTANTS Chars,      \* the characters that can be typed
          Capacity,   \* how many of them wait at most
          Nothing     \* what a read of an empty queue gives

VARIABLES queue,
          event       \* what happened last; turn alternates, so that two
                      \* events are two steps even if they look the same

Happens(op, c) == event' = [op |-> op, char |-> c, turn |-> 1 - event.turn]

Init ==
  /\ queue = <<>>
  /\ event = [op |-> "flushed", char |-> Nothing, turn |-> 0]

\* A character is typed; a full queue loses it.
Typed(c) ==
  /\ Happens("typed", c)
  /\ queue' = IF Len(queue) < Capacity THEN Append(queue, c) ELSE queue

Read ==
  /\ queue # <<>>
  /\ Happens("read", Head(queue))
  /\ queue' = Tail(queue)

ReadNothing == queue = <<>> /\ Happens("read", Nothing) /\ UNCHANGED queue

Discarded == Happens("flushed", Nothing) /\ queue' = <<>>

Next == (\E c \in Chars : Typed(c)) \/ Read \/ ReadNothing \/ Discarded

Spec == Init /\ [][Next]_<<queue, event>>
=============================================================================
