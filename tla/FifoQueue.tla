------------------------------ MODULE FifoQueue ------------------------------
(* What a first-in first-out queue shared by threads promises its callers:    *)
(* every operation takes effect atomically at one instant between its call    *)
(* and its return.  put appends its argument, take removes the oldest element *)
(* and cannot take effect while the queue is empty, and a try either removes  *)
(* the oldest element or reports that the queue was empty at that instant.    *)
(* BlockingQueue implements this specification.                               *)
EXTENDS Sequences

CONSTANTS Threads, Values, NoVal

VARIABLES
  queue,     \* the elements, oldest first
  op,        \* op[t]: the operation thread t has called, or "idle"
  done,      \* done[t]: t's operation has taken effect but not returned
  val        \* val[t]: put's argument, or the element a take has removed

vars == <<queue, op, done, val>>

Init ==
  /\ queue = << >>
  /\ op = [t \in Threads |-> "idle"]
  /\ done = [t \in Threads |-> FALSE]
  /\ val = [t \in Threads |-> NoVal]

CallPut(t, v) ==
  /\ op[t] = "idle"
  /\ op' = [op EXCEPT ![t] = "put"]
  /\ val' = [val EXCEPT ![t] = v]
  /\ UNCHANGED <<queue, done>>

CallTake(t, o) ==
  /\ op[t] = "idle"
  /\ op' = [op EXCEPT ![t] = o]
  /\ UNCHANGED <<queue, done, val>>

Enqueue(t) ==
  /\ op[t] = "put" /\ ~done[t]
  /\ queue' = Append(queue, val[t])
  /\ done' = [done EXCEPT ![t] = TRUE]
  /\ UNCHANGED <<op, val>>

Dequeue(t) ==
  /\ op[t] \in {"take", "try"} /\ ~done[t]
  /\ queue # << >>
  /\ val' = [val EXCEPT ![t] = Head(queue)]
  /\ queue' = Tail(queue)
  /\ done' = [done EXCEPT ![t] = TRUE]
  /\ UNCHANGED op

\* A try that finds the queue empty ends without an element.
Miss(t) ==
  /\ op[t] = "try" /\ ~done[t]
  /\ queue = << >>
  /\ done' = [done EXCEPT ![t] = TRUE]
  /\ UNCHANGED <<queue, op, val>>

Return(t) ==
  /\ done[t]
  /\ op' = [op EXCEPT ![t] = "idle"]
  /\ done' = [done EXCEPT ![t] = FALSE]
  /\ val' = [val EXCEPT ![t] = NoVal]
  /\ UNCHANGED queue

Next ==
  \E t \in Threads :
    \/ \E v \in Values : CallPut(t, v)
    \/ \E o \in {"take", "try"} : CallTake(t, o)
    \/ Enqueue(t)
    \/ Dequeue(t)
    \/ Miss(t)
    \/ Return(t)

Spec == Init /\ [][Next]_vars
==============================================================================
