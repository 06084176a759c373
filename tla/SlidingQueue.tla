---------------------------- MODULE SlidingQueue ----------------------------
(* What CircularBuffer promises: a queue of at most capacity_ elements that   *)
(* drops its oldest element when a new one is pushed into a full queue.       *)
EXTENDS Integers, Sequences

CONSTANTS
  T,            \* the elements
  capacity_     \* the most the queue holds

VARIABLE contents   \* the elements, oldest first

Init == contents = << >>

Push(item) ==
  contents' = IF Len(contents) = capacity_
              THEN Append(Tail(contents), item)
              ELSE Append(contents, item)

Pop ==
  /\ contents # << >>
  /\ contents' = Tail(contents)

Clear == contents' = << >>

Next == (\E item \in T : Push(item)) \/ Pop \/ Clear

Spec == Init /\ [][Next]_contents
=============================================================================
