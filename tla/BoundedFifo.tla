---------------------------- MODULE BoundedFifo ----------------------------
(***************************************************************************)
(* What a ring between the two threads promises its callers: a bounded     *)
(* first-in first-out queue.  A push that finds no room is refused and     *)
(* takes nothing, which at this level is a step that changes nothing.      *)
(***************************************************************************)
EXTENDS Naturals, Sequences

CONSTANTS Message,   \* what the queue carries
          Capacity,  \* how many messages it holds
          NoMessage  \* what the consumer holds before its first pop

VARIABLES queue,   \* the messages pushed and not yet popped
          popped   \* the message the latest pop delivered

vars == <<queue, popped>>

Init == queue = <<>> /\ popped = NoMessage

Push(m) ==
  /\ Len(queue) < Capacity
  /\ queue' = Append(queue, m)
  /\ UNCHANGED popped

Pop ==
  /\ queue # <<>>
  /\ popped' = Head(queue)
  /\ queue' = Tail(queue)

Next == Pop \/ \E m \in Message : Push(m)

Spec == Init /\ [][Next]_vars
=============================================================================
