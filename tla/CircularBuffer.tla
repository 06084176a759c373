--------------------------- MODULE CircularBuffer ---------------------------
(* CircularBuffer<T> of utils/CircularBuffer.h: a ring of capacity_ cells of  *)
(* raw memory in which elements are constructed, assigned and destroyed, and  *)
(* two indices kept by hand: head_ is the oldest element, tail_ the newest,   *)
(* and an empty buffer has head_ one cell after tail_.                        *)
(*                                                                            *)
(* pop_front of an empty buffer is the caller's mistake and not an action.    *)
(* operator= exchanges the fields with a copy and lacks its return statement; *)
(* the copy itself is CopyConstruct.                                          *)
EXTENDS Integers, Sequences

CONSTANTS
  T,            \* the elements
  Raw,          \* a cell without an element
  capacity_

ASSUME BufferAssumption ==
  /\ Raw \notin T
  /\ capacity_ \in Nat \ {0}

VARIABLES
  array_,          \* array_[i]: the cell i
  head_, tail_,
  contents_size_

ringVars == <<array_, head_, tail_, contents_size_>>

Cells == 0 .. capacity_ - 1

\* The constructor allocates; the members have their default initializers.
RingInit ==
  /\ array_ = [i \in Cells |-> Raw]
  /\ head_ = 1
  /\ tail_ = 0
  /\ contents_size_ = 0

\* Mutant of Successor: the last cell is skipped.
SuccessorShort(i) ==
  IF i + 2 = capacity_ THEN 0 ELSE i + 1

\* increment_head, increment_tail: the cell after i.
Successor(i) ==
  IF i + 1 = capacity_ THEN 0 ELSE i + 1

\* A full buffer assigns over its oldest element and moves head_ on; otherwise
\* an element is constructed in the next cell.
push_back(item) ==
  /\ array_' = [array_ EXCEPT ![Successor(tail_)] = item]
  /\ tail_' = Successor(tail_)
  /\ \/ /\ contents_size_ = capacity_
        /\ head_' = Successor(head_)
        /\ UNCHANGED contents_size_
     \/ /\ contents_size_ # capacity_
        /\ contents_size_' = contents_size_ + 1
        /\ UNCHANGED head_

\* Mutant of pop_front: the cell destroyed is the one head_ moves to.
pop_frontLate ==
  /\ contents_size_ > 0
  /\ contents_size_' = contents_size_ - 1
  /\ head_' = Successor(head_)
  /\ array_' = [array_ EXCEPT ![Successor(head_)] = Raw]
  /\ UNCHANGED tail_

pop_front ==
  /\ contents_size_ > 0
  /\ contents_size_' = contents_size_ - 1
  /\ head_' = Successor(head_)
  /\ array_' = [array_ EXCEPT ![head_] = Raw]
  /\ UNCHANGED tail_

\* operator[]: the cell of the n-th element, counted from 0.
At(n) == (n + head_) % capacity_

\* clear destroys the elements one by one and starts over.
clear ==
  /\ array_' = [i \in Cells |->
                  IF \E n \in 0 .. contents_size_ - 1 : i = At(n) THEN Raw ELSE array_[i]]
  /\ head_' = 1
  /\ tail_' = 0
  /\ contents_size_' = 0

\* The copy constructor allocates as much and pushes the elements in order, the
\* first one into cell 1: the program goes on with the copy.
CopyConstruct ==
  /\ array_' = [i \in Cells |->
                  LET n == (i + capacity_ - 1) % capacity_
                  IN IF n < contents_size_ THEN array_[At(n)] ELSE Raw]
  /\ head_' = 1
  /\ tail_' = contents_size_ % capacity_
  /\ UNCHANGED contents_size_

RingNext ==
  \/ \E item \in T : push_back(item)
  \/ pop_front
  \/ clear
  \/ CopyConstruct

RingSpec == RingInit /\ [][RingNext]_ringVars

------------------------------------------------------------------------------

\* front(), back() and pop_front, which use head_ and tail_ as they are, reach
\* the first and the last element that operator[] and the iterators see.
EndsAgree ==
  contents_size_ > 0 => head_ = At(0) /\ tail_ = At(contents_size_ - 1)

\* Elements live exactly in the cells of the window: push_back never constructs
\* over a live element or assigns to raw memory, pop_front and clear destroy
\* each element once.
LiveCells ==
  {i \in Cells : array_[i] # Raw} = {At(n) : n \in 0 .. contents_size_ - 1}

\* What the iterators show, from begin() to end().
Contents == [n \in 1 .. contents_size_ |-> array_[At(n - 1)]]

Sliding == INSTANCE SlidingQueue WITH contents <- Contents

\* The ring behaves as the queue that drops its oldest element when full.
ImplementsQueue == Sliding!Spec
=============================================================================
