--------------------------- MODULE ContainerProofs ---------------------------
(* Proofs about the containers: CircularBuffer, for any capacity of two or    *)
(* more and any elements, and those of Structures, for any number of keys,    *)
(* levels, cached nodes and bytes.                                            *)
(*                                                                            *)
(* Structures has one invariant for each kind of container, from which both   *)
(* follow: that the representation stands for what the container holds, and   *)
(* that each call returns what it should.  The loops of the code are          *)
(* functions of the state of their variables, run often enough; LoopEnds      *)
(* shows that a loop whose measure falls in every turn has come to its end    *)
(* with its invariant.                                                        *)
EXTENDS CircularBuffer, Structures, SequenceTheorems, FiniteSetTheorems,
        WellFoundedInduction, TLAPS

------------------------------------------------------------------------------
\* CircularBuffer.  The cell after tail_ is always the cell one past the window,
\* At(contents_size_), so that a push extends the window by one cell, or moves it
\* by one when it covers the ring.

\* An index that runs over the end of the ring at most once.
LEMMA Wrap ==
  ASSUME NEW n \in Nat \ {0}, NEW x \in 0 .. n + n - 1
  PROVE  x % n = IF x < n THEN x ELSE x - n
<1>1. x = (x \div n) * n + (x % n) /\ x \div n \in Int /\ x % n \in 0 .. n - 1
  OBVIOUS
<1> DEFINE q == x \div n
           r == x % n
<1> HIDE DEF q, r
<1>2. q \in Int /\ r \in 0 .. n - 1 /\ x = q * n + r
  BY <1>1 DEF q, r
<1>3. q = 0 \/ q = 1
  <2>1. CASE q >= 2
    <3>1. q * n >= 2 * n
      BY <1>2, <2>1
    <3> QED
      BY <1>2, <3>1
  <2>2. CASE q <= -1
    <3>1. q * n <= -n
      BY <1>2, <2>2
    <3> QED
      BY <1>2, <3>1
  <2> QED
    BY <1>2, <2>1, <2>2
<1>4. r = IF x < n THEN x ELSE x - n
  BY <1>2, <1>3
<1> QED
  BY <1>4 DEF r

\* A full turn of the ring comes back to where it began.
LEMMA FullTurn ==
  ASSUME NEW n \in Nat \ {0}, NEW h \in 0 .. n - 1
  PROVE  (n + h) % n = h
<1> DEFINE x == n + h
<1>1. x \in 0 .. n + n - 1 /\ ~(x < n) /\ x - n = h
  OBVIOUS
<1>2. x % n = h
  <2> HIDE DEF x
  <2> QED
    BY <1>1, Wrap
<1> QED
  BY <1>2

------------------------------------------------------------------------------
\* The inductive invariant.

\* push_back writes one cell past the window.
TailNext == Successor(tail_) = At(contents_size_)

\* LiveCells, cell by cell.
CellLive ==
  \A i \in Cells : array_[i] # Raw <=> \E n \in 0 .. contents_size_ - 1 : i = At(n)

IndInv ==
  /\ array_ \in [Cells -> T \cup {Raw}]
  /\ head_ \in Cells
  /\ tail_ \in Cells
  /\ contents_size_ \in 0 .. capacity_
  /\ TailNext
  /\ CellLive

\* The cell of the n-th element, without the modulus.
LEMMA AtIs ==
  ASSUME head_ \in Cells, NEW n \in 0 .. capacity_
  PROVE  At(n) = IF n + head_ < capacity_ THEN n + head_ ELSE (n + head_) - capacity_
<1>1. capacity_ \in Nat \ {0} /\ n + head_ \in 0 .. capacity_ + capacity_ - 1
  BY BufferAssumption DEF Cells
<1> DEFINE x == n + head_
<1>2. x % capacity_ = IF x < capacity_ THEN x ELSE x - capacity_
  <2> HIDE DEF x
  <2> QED
    BY <1>1, Wrap DEF x
<1>3. At(n) = x % capacity_
  BY Zenon DEF At
<1> QED
  BY <1>2, <1>3, Zenon

\* A function over 1 .. k is a sequence of length k.
LEMMA WindowSeq ==
  ASSUME NEW S, NEW k \in Nat, NEW f \in [1 .. k -> S]
  PROVE  f \in Seq(S) /\ Len(f) = k
OBVIOUS

\* What pushing into a buffer with room does to every element.
LEMMA PushRoom ==
  ASSUME IndInv, NEW item \in T, push_back(item), contents_size_ # capacity_
  PROVE  IndInv' /\ Contents' = Append(Contents, item)
<1> USE BufferAssumption
<1> DEFINE k == contents_size_
           c == At(k)
<1>1. /\ array_' = [array_ EXCEPT ![c] = item]
      /\ tail_' = c
      /\ contents_size_' = k + 1
      /\ head_' = head_
  BY DEF push_back, IndInv, TailNext
<1>2. k \in Nat /\ k < capacity_ /\ head_ \in Cells
  BY DEF IndInv
<1>3. \A n \in 0 .. capacity_ :
        At(n) = IF n + head_ < capacity_ THEN n + head_ ELSE (n + head_) - capacity_
  BY <1>2, AtIs
<1>4. c \in Cells /\ \A n \in 0 .. k - 1 : At(n) \in Cells /\ At(n) # c
  BY <1>2, <1>3 DEF Cells
<1>5. \A n : At(n)' = At(n)
  BY <1>1 DEF At
<1>6. TailNext'
  <2>1. Successor(c) = At(k + 1)
    BY <1>2, <1>3 DEF Successor, Cells
  <2>2. Successor(tail_)' = Successor(c)
    BY <1>1 DEF Successor
  <2> QED
    BY <1>1, <1>5, <2>1, <2>2 DEF TailNext
<1>7. CellLive'
  <2> SUFFICES ASSUME NEW i \in Cells
               PROVE  array_'[i] # Raw <=> \E n \in 0 .. k : i = At(n)
    BY <1>1, <1>2, <1>5 DEF CellLive
  <2>1. CASE i = c
    BY <1>1, <1>2, <1>4, <2>1 DEF IndInv
  <2>2. CASE i # c
    <3>1. array_'[i] = array_[i]
      BY <1>1, <1>4, <2>2 DEF IndInv
    <3>2. (\E n \in 0 .. k : i = At(n)) <=> (\E n \in 0 .. k - 1 : i = At(n))
      BY <1>2, <2>2
    <3> QED
      BY <3>1, <3>2 DEF IndInv, CellLive
  <2> QED
    BY <2>1, <2>2
<1>8. IndInv'
  BY <1>1, <1>2, <1>4, <1>6, <1>7 DEF IndInv
<1>9. Contents' = Append(Contents, item)
  <2>1. /\ Contents = [n \in 1 .. k |-> array_[At(n - 1)]]
        /\ Contents' = [n \in 1 .. k + 1 |-> array_'[At(n - 1)]]
    BY <1>1, <1>5 DEF Contents
  <2>2. \A n \in 1 .. k : array_'[At(n - 1)] = array_[At(n - 1)]
    BY <1>1, <1>2, <1>4 DEF IndInv
  <2>3. array_'[At(k)] = item
    BY <1>1, <1>4 DEF IndInv
  <2>4. /\ Contents \in [1 .. k -> T \cup {Raw}]
        /\ Contents' \in [1 .. k + 1 -> T \cup {Raw}]
    <3>1. \A n \in 1 .. k : array_[At(n - 1)] \in T \cup {Raw}
      BY <1>2, <1>4 DEF IndInv
    <3>2. \A n \in 1 .. k + 1 : array_'[At(n - 1)] \in T \cup {Raw}
      BY <1>2, <2>2, <2>3, <3>1
    <3> QED
      BY <2>1, <3>1, <3>2
  <2>5. /\ Contents \in Seq(T \cup {Raw}) /\ Len(Contents) = k
        /\ Contents' \in Seq(T \cup {Raw}) /\ Len(Contents') = k + 1
    BY <1>2, <2>4, WindowSeq
  <2>6. /\ Append(Contents, item) \in Seq(T \cup {Raw})
        /\ Len(Append(Contents, item)) = k + 1
        /\ \A n \in 1 .. k : Append(Contents, item)[n] = Contents[n]
        /\ Append(Contents, item)[k + 1] = item
    BY <2>5, AppendProperties
  <2>7. \A n \in 1 .. k + 1 : Contents'[n] = Append(Contents, item)[n]
    BY <1>2, <2>1, <2>2, <2>3, <2>6
  <2> QED
    BY <2>5, <2>6, <2>7, SeqEqual
<1> QED
  BY <1>8, <1>9

\* The window after the first element has moved on by one cell.
LEMMA HeadMoves ==
  ASSUME head_ \in Cells, head_' = Successor(head_)
  PROVE  /\ head_' \in Cells
         /\ \A n \in 0 .. capacity_ - 1 : At(n)' = At(n + 1)
<1> USE BufferAssumption
<1>1. head_' \in Cells /\ head_' = IF head_ + 1 = capacity_ THEN 0 ELSE head_ + 1
  BY DEF Successor, Cells
<1>2. ASSUME NEW n \in 0 .. capacity_ - 1
      PROVE  At(n)' = At(n + 1)
  <2>1. At(n + 1) = IF n + 1 + head_ < capacity_ THEN n + 1 + head_
                    ELSE (n + 1 + head_) - capacity_
    BY AtIs
  <2> DEFINE x == n + head_'
  <2>2. x \in 0 .. capacity_ + capacity_ - 1
    BY <1>1 DEF Cells
  <2>3. x % capacity_ = IF x < capacity_ THEN x ELSE x - capacity_
    <3> HIDE DEF x
    <3> QED
      BY <2>2, Wrap
  <2>4. At(n)' = x % capacity_
    BY Zenon DEF At
  <2>5. (IF x < capacity_ THEN x ELSE x - capacity_) = At(n + 1)
    BY <1>1, <2>1 DEF Cells
  <2> QED
    BY <2>3, <2>4, <2>5, Zenon
<1> QED
  BY <1>1, <1>2

\* Pushing into a full buffer replaces the oldest element by the newest.
LEMMA PushFull ==
  ASSUME IndInv, NEW item \in T, push_back(item), contents_size_ = capacity_
  PROVE  IndInv' /\ Contents' = Append(Tail(Contents), item)
<1> USE BufferAssumption
<1> DEFINE k == capacity_
<1>1. \A n \in 0 .. k :
        At(n) = IF n + head_ < k THEN n + head_ ELSE (n + head_) - k
  BY AtIs DEF IndInv
<1>2. At(k) = head_ /\ At(0) = head_ /\ head_ \in Cells
  BY <1>1 DEF Cells, IndInv
<1>3. /\ array_' = [array_ EXCEPT ![head_] = item]
      /\ tail_' = head_
      /\ contents_size_' = k
      /\ contents_size_ = k
      /\ head_' = Successor(head_)
  BY <1>2 DEF push_back, IndInv, TailNext
<1>4. head_' \in Cells /\ \A n \in 0 .. k - 1 : At(n)' = At(n + 1)
  BY <1>2, <1>3, HeadMoves
<1>5. \A n \in 1 .. k - 1 : At(n) \in Cells /\ At(n) # head_
  BY <1>1, <1>2 DEF Cells
<1>6. TailNext'
  <2>1. Successor(tail_)' = head_'
    BY <1>3 DEF Successor
  <2>2. (capacity_ + head_') % capacity_ = head_'
    BY <1>4, FullTurn DEF Cells
  <2>3. At(contents_size_)' = (capacity_ + head_') % capacity_
    BY <1>3, Zenon DEF At
  <2> QED
    BY <2>1, <2>2, <2>3, Zenon DEF TailNext
<1>7. CellLive'
  <2> SUFFICES ASSUME NEW i \in Cells
               PROVE  array_'[i] # Raw /\ \E n \in 0 .. k - 1 : i = At(n)'
    BY <1>3 DEF CellLive
  <2>1. \E n \in 0 .. k - 1 : i = At(n + 1)
    <3>1. CASE i = head_
      BY <1>2, <3>1
    <3>2. CASE i > head_
      <4>1. i - head_ \in 1 .. k - 1 /\ At(i - head_) = i
        BY <1>1, <1>2, <3>2 DEF Cells
      <4>2. i - head_ - 1 \in 0 .. k - 1 /\ (i - head_ - 1) + 1 = i - head_
        BY <1>2, <4>1 DEF Cells
      <4> QED
        BY <4>1, <4>2
    <3>3. CASE i < head_
      <4>1. i + k - head_ \in 1 .. k - 1 /\ At(i + k - head_) = i
        BY <1>1, <1>2, <3>3 DEF Cells
      <4>2. i + k - head_ - 1 \in 0 .. k - 1 /\ (i + k - head_ - 1) + 1 = i + k - head_
        BY <1>2, <4>1 DEF Cells
      <4> QED
        BY <4>1, <4>2
    <3> QED
      BY <1>2, <3>1, <3>2, <3>3 DEF Cells
  <2>2. array_'[i] # Raw
    <3>1. CASE i = head_
      BY <1>3, <3>1 DEF IndInv
    <3>2. CASE i # head_
      <4>1. \E n \in 0 .. k - 1 : i = At(n)
        <5>1. PICK n \in 0 .. k - 1 : i = At(n + 1)
          BY <2>1
        <5>2. n + 1 # k
          BY <1>2, <3>2, <5>1
        <5> QED
          BY <5>1, <5>2
      <4>2. array_[i] # Raw
        BY <1>3, <4>1 DEF IndInv, CellLive
      <4> QED
        BY <1>2, <1>3, <3>2, <4>2 DEF IndInv
    <3> QED
      BY <3>1, <3>2
  <2> QED
    BY <1>4, <2>1, <2>2
<1>8. IndInv'
  BY <1>2, <1>3, <1>4, <1>6, <1>7 DEF IndInv
<1>9. Contents' = Append(Tail(Contents), item)
  <2>1. /\ Contents = [n \in 1 .. k |-> array_[At(n - 1)]]
        /\ Contents' = [n \in 1 .. k |-> array_'[At(n - 1)']]
    BY <1>3 DEF Contents
  <2>2. \A n \in 1 .. k : At(n - 1)' = At(n)
    BY <1>4
  <2>3. \A n \in 1 .. k - 1 : array_'[At(n)] = array_[At(n)]
    BY <1>3, <1>5 DEF IndInv
  <2>4. array_'[At(k)] = item
    BY <1>2, <1>3 DEF IndInv
  <2>5. \A n \in 0 .. k - 1 : array_[At(n)] \in T \cup {Raw}
    BY <1>2, <1>5 DEF IndInv
  <2>6. /\ Contents \in [1 .. k -> T \cup {Raw}]
        /\ Contents' \in [1 .. k -> T \cup {Raw}]
    <3>1. \A n \in 1 .. k : array_[At(n - 1)] \in T \cup {Raw}
      BY <2>5
    <3>2. \A n \in 1 .. k : array_'[At(n - 1)'] \in T \cup {Raw}
      BY <2>2, <2>3, <2>4, <2>5
    <3> QED
      BY <2>1, <3>1, <3>2
  <2>7. /\ Contents \in Seq(T \cup {Raw}) /\ Len(Contents) = k
        /\ Contents' \in Seq(T \cup {Raw}) /\ Len(Contents') = k
    BY <2>6, WindowSeq
  <2>8. /\ Tail(Contents) \in Seq(T \cup {Raw}) /\ Len(Tail(Contents)) = k - 1
        /\ \A n \in 1 .. k - 1 : Tail(Contents)[n] = Contents[n + 1]
    <3>1. Contents # << >>
      BY <2>7
    <3> QED
      BY <2>7, <3>1, HeadTailProperties
  <2>9. /\ Append(Tail(Contents), item) \in Seq(T \cup {Raw})
        /\ Len(Append(Tail(Contents), item)) = k
        /\ \A n \in 1 .. k - 1 : Append(Tail(Contents), item)[n] = Contents[n + 1]
        /\ Append(Tail(Contents), item)[k] = item
    BY <2>8, AppendProperties
  <2>10. ASSUME NEW n \in 1 .. k
         PROVE  Contents'[n] = Append(Tail(Contents), item)[n]
    <3>1. Contents'[n] = array_'[At(n)]
      BY <2>1, <2>2
    <3>2. CASE n = k
      BY <2>4, <2>9, <3>1, <3>2
    <3>3. CASE n # k
      <4>1. Contents[n + 1] = array_[At(n)]
        BY <2>1, <3>3
      <4> QED
        BY <2>3, <2>9, <3>1, <3>3, <4>1
    <3> QED
      BY <3>2, <3>3
  <2> QED
    BY <2>7, <2>9, <2>10, SeqEqual
<1> QED
  BY <1>8, <1>9

\* pop_front takes the first element away.
LEMMA PopInv ==
  ASSUME IndInv, pop_front
  PROVE  IndInv' /\ Contents # << >> /\ Contents' = Tail(Contents)
<1> USE BufferAssumption
<1> DEFINE k == contents_size_
<1>1. /\ k \in 1 .. capacity_ /\ contents_size_' = k - 1
      /\ array_' = [array_ EXCEPT ![head_] = Raw]
      /\ tail_' = tail_
      /\ head_' = Successor(head_)
  BY DEF pop_front, IndInv
<1>2. \A n \in 0 .. capacity_ :
        At(n) = IF n + head_ < capacity_ THEN n + head_ ELSE (n + head_) - capacity_
  BY AtIs DEF IndInv
<1>3. At(0) = head_ /\ head_ \in Cells
  BY <1>2 DEF Cells, IndInv
<1>4. head_' \in Cells /\ \A n \in 0 .. capacity_ - 1 : At(n)' = At(n + 1)
  BY <1>1, <1>3, HeadMoves
<1>5. \A n \in 1 .. k - 1 : At(n) \in Cells /\ At(n) # head_
  BY <1>1, <1>2, <1>3 DEF Cells
<1>6. TailNext'
  <2>1. PICK m \in 0 .. capacity_ - 1 : m = k - 1
    BY <1>1
  <2>2. At(m)' = At(k)
    BY <1>1, <1>4, <2>1
  <2>3. At(contents_size_)' = At(m)'
    BY <1>1, <2>1 DEF At
  <2>4. Successor(tail_)' = Successor(tail_)
    BY <1>1 DEF Successor
  <2> QED
    BY <2>2, <2>3, <2>4 DEF TailNext, IndInv
<1>7. CellLive'
  <2> SUFFICES ASSUME NEW i \in Cells
               PROVE  array_'[i] # Raw <=> \E n \in 0 .. k - 2 : i = At(n + 1)
    BY <1>1, <1>4 DEF CellLive
  <2>1. CASE i = head_
    <3>1. array_'[i] = Raw
      BY <1>1, <1>3, <2>1 DEF IndInv
    <3>2. ~ \E n \in 0 .. k - 2 : i = At(n + 1)
      BY <1>1, <1>5, <2>1
    <3> QED
      BY <3>1, <3>2
  <2>2. CASE i # head_
    <3>1. array_'[i] = array_[i]
      BY <1>1, <1>3, <2>2 DEF IndInv
    <3>2. ASSUME NEW m \in 0 .. k - 1, i = At(m)
          PROVE  \E n \in 0 .. k - 2 : i = At(n + 1)
      <4>1. m - 1 \in 0 .. k - 2 /\ (m - 1) + 1 = m
        BY <1>1, <1>3, <2>2, <3>2
      <4> QED
        BY <3>2, <4>1
    <3>3. ASSUME NEW n \in 0 .. k - 2, i = At(n + 1)
          PROVE  \E m \in 0 .. k - 1 : i = At(m)
      <4>1. n + 1 \in 0 .. k - 1
        BY <1>1
      <4> QED
        BY <3>3, <4>1
    <3>4. array_[i] # Raw <=> \E n \in 0 .. k - 1 : i = At(n)
      BY DEF IndInv, CellLive
    <3> QED
      BY <3>1, <3>2, <3>3, <3>4
  <2> QED
    BY <2>1, <2>2
<1>8. IndInv'
  <2>1. array_' \in [Cells -> T \cup {Raw}] /\ contents_size_' \in 0 .. capacity_
    BY <1>1, <1>3 DEF IndInv
  <2> QED
    BY <1>1, <1>4, <1>6, <1>7, <2>1 DEF IndInv
<1>9. Contents # << >> /\ Contents' = Tail(Contents)
  <2>1. /\ Contents = [n \in 1 .. k |-> array_[At(n - 1)]]
        /\ Contents' = [n \in 1 .. k - 1 |-> array_'[At(n - 1)']]
    BY <1>1 DEF Contents
  <2>2. \A n \in 1 .. k - 1 : array_'[At(n - 1)'] = array_[At(n)]
    <3> SUFFICES ASSUME NEW n \in 1 .. k - 1
                 PROVE  array_'[At(n - 1)'] = array_[At(n)]
      OBVIOUS
    <3>1. At(n - 1)' = At(n)
      BY <1>1, <1>4
    <3> QED
      BY <1>1, <1>5, <3>1 DEF IndInv
  <2>3. \A n \in 0 .. k - 1 : array_[At(n)] \in T \cup {Raw}
    BY <1>3, <1>5 DEF IndInv
  <2>4. /\ Contents \in [1 .. k -> T \cup {Raw}]
        /\ Contents' \in [1 .. k - 1 -> T \cup {Raw}]
    <3>1. \A n \in 1 .. k : array_[At(n - 1)] \in T \cup {Raw}
      BY <1>1, <2>3
    <3>2. \A n \in 1 .. k - 1 : array_'[At(n - 1)'] \in T \cup {Raw}
      BY <1>1, <2>2, <2>3
    <3> QED
      BY <2>1, <3>1, <3>2
  <2>5. /\ Contents \in Seq(T \cup {Raw}) /\ Len(Contents) = k
        /\ Contents' \in Seq(T \cup {Raw}) /\ Len(Contents') = k - 1
    <3>1. k \in Nat /\ k - 1 \in Nat
      BY <1>1
    <3> HIDE DEF k
    <3> QED
      BY <2>4, <3>1, WindowSeq
  <2>6. Contents # << >>
    BY <1>1, <2>5
  <2>7. /\ Tail(Contents) \in Seq(T \cup {Raw}) /\ Len(Tail(Contents)) = k - 1
        /\ \A n \in 1 .. k - 1 : Tail(Contents)[n] = Contents[n + 1]
    BY <2>5, <2>6, HeadTailProperties
  <2>8. \A n \in 1 .. k - 1 : Contents'[n] = Tail(Contents)[n]
    <3> SUFFICES ASSUME NEW n \in 1 .. k - 1
                 PROVE  Contents'[n] = Tail(Contents)[n]
      OBVIOUS
    <3>1. Contents[n + 1] = array_[At(n)]
      BY <1>1, <2>1
    <3>2. Contents'[n] = array_[At(n)]
      BY <2>1, <2>2
    <3> QED
      BY <2>7, <3>1, <3>2
  <2> QED
    BY <2>5, <2>6, <2>7, <2>8, SeqEqual
<1> QED
  BY <1>8, <1>9

\* An empty buffer shows nothing.
LEMMA NothingInside ==
  ASSUME NEW f \in [1 .. 0 -> T \cup {Raw}]
  PROVE  f = << >>
<1>1. f \in Seq(T \cup {Raw}) /\ Len(f) = 0
  BY WindowSeq
<1> QED
  BY <1>1, EmptySeq

\* clear leaves the buffer as it was constructed.
LEMMA ClearInv ==
  ASSUME IndInv, capacity_ > 1, clear
  PROVE  IndInv' /\ Contents' = << >>
<1> USE BufferAssumption
<1>1. array_' = [i \in Cells |-> Raw] /\ head_' = 1 /\ tail_' = 0 /\ contents_size_' = 0
  <2>1. \A i \in Cells :
          (IF \E n \in 0 .. contents_size_ - 1 : i = At(n) THEN Raw ELSE array_[i]) = Raw
    BY DEF IndInv, CellLive
  <2> QED
    BY <2>1 DEF clear
<1>2. At(0)' = 1
  <2>1. 1 % capacity_ = 1
    BY Wrap
  <2>2. At(0)' = (0 + 1) % capacity_
    BY <1>1 DEF At
  <2> QED
    BY <2>1, <2>2
<1>3. TailNext'
  <2>1. Successor(tail_)' = 1
    BY <1>1 DEF Successor
  <2>2. At(contents_size_)' = At(0)'
    BY <1>1 DEF At
  <2> QED
    BY <1>2, <2>1, <2>2 DEF TailNext
<1>4. CellLive'
  BY <1>1 DEF CellLive
<1>5. IndInv'
  BY <1>1, <1>3, <1>4 DEF IndInv, Cells
<1>6. Contents' \in [1 .. 0 -> T \cup {Raw}]
  BY <1>1 DEF Contents
<1> QED
  BY <1>5, <1>6, NothingInside

\* The cells of a copy: element n lies in the cell after the n-th.
LEMMA CopyAt ==
  ASSUME capacity_ > 1, NEW n \in 0 .. capacity_, head_' = 1
  PROVE  At(n)' = IF n + 1 < capacity_ THEN n + 1 ELSE (n + 1) - capacity_
<1> USE BufferAssumption
<1> DEFINE x == n + 1
<1>1. x \in 0 .. capacity_ + capacity_ - 1
  OBVIOUS
<1>2. x % capacity_ = IF x < capacity_ THEN x ELSE x - capacity_
  <2> HIDE DEF x
  <2> QED
    BY <1>1, Wrap
<1>3. At(n)' = x % capacity_
  BY Zenon DEF At
<1> QED
  BY <1>2, <1>3, Zenon

\* The element that the copy constructor puts into cell i.
LEMMA CopySource ==
  ASSUME NEW i \in Cells
  PROVE  (i + capacity_ - 1) % capacity_ = IF i = 0 THEN capacity_ - 1 ELSE i - 1
<1> USE BufferAssumption
<1> DEFINE x == i + capacity_ - 1
<1>1. x \in 0 .. capacity_ + capacity_ - 1
  BY DEF Cells
<1>2. x % capacity_ = IF x < capacity_ THEN x ELSE x - capacity_
  <2> HIDE DEF x
  <2> QED
    BY <1>1, Wrap
<1>3. (IF x < capacity_ THEN x ELSE x - capacity_) = IF i = 0 THEN capacity_ - 1 ELSE i - 1
  BY DEF Cells
<1> QED
  BY <1>2, <1>3, Zenon

\* A copy shows the same elements.
LEMMA CopyInv ==
  ASSUME IndInv, capacity_ > 1, CopyConstruct
  PROVE  IndInv' /\ Contents' = Contents
<1> USE BufferAssumption
<1> DEFINE Src(i) == IF i = 0 THEN capacity_ - 1 ELSE i - 1
<1>1. PICK k \in 0 .. capacity_ : k = contents_size_
  BY DEF IndInv
<1>2. /\ array_' = [i \in Cells |-> IF Src(i) < k THEN array_[At(Src(i))] ELSE Raw]
      /\ head_' = 1 /\ tail_' = k % capacity_ /\ contents_size_' = k
  BY <1>1, CopySource DEF CopyConstruct
<1>3. \A n \in 0 .. capacity_ :
        At(n)' = IF n + 1 < capacity_ THEN n + 1 ELSE (n + 1) - capacity_
  BY <1>2, CopyAt
<1>4. \A n \in 0 .. capacity_ : At(n) \in Cells
  <2>1. \A n \in 0 .. capacity_ :
          At(n) = IF n + head_ < capacity_ THEN n + head_ ELSE (n + head_) - capacity_
    BY AtIs DEF IndInv
  <2> QED
    BY <2>1 DEF IndInv, Cells
<1>5. \A n \in 0 .. capacity_ - 1 : At(n)' \in Cells /\ Src(At(n)') = n
  BY <1>3 DEF Cells
<1>6. \A i \in Cells : Src(i) \in 0 .. capacity_ - 1 /\ At(Src(i)) \in Cells
                       /\ \A n \in 0 .. capacity_ - 1 : Src(i) = n => i = At(n)'
  BY <1>3, <1>4 DEF Cells
<1>7. \A n \in 0 .. k - 1 : array_[At(n)] # Raw
  BY <1>1, <1>4 DEF IndInv, CellLive
<1>8. tail_' = IF k < capacity_ THEN k ELSE k - capacity_
  <2>1. k \in 0 .. capacity_ + capacity_ - 1 /\ capacity_ \in Nat \ {0}
    OBVIOUS
  <2>2. k % capacity_ = IF k < capacity_ THEN k ELSE k - capacity_
    BY <2>1, Wrap
  <2> QED
    BY <1>2, <2>2
<1>9. TailNext'
  <2>1. Successor(tail_)' = IF k + 1 < capacity_ THEN k + 1 ELSE (k + 1) - capacity_
    BY <1>1, <1>8 DEF Successor
  <2>2. At(contents_size_)' = At(k)'
    BY <1>2 DEF At
  <2> QED
    BY <1>1, <1>3, <2>1, <2>2 DEF TailNext
<1>10. CellLive'
  <2> SUFFICES ASSUME NEW i \in Cells
               PROVE  array_'[i] # Raw <=> \E n \in 0 .. k - 1 : i = At(n)'
    BY <1>2 DEF CellLive
  <2>1. array_'[i] # Raw <=> Src(i) < k
    <3>1. Src(i) \in 0 .. capacity_ - 1
      BY <1>6
    <3>2. array_'[i] = IF Src(i) < k THEN array_[At(Src(i))] ELSE Raw
      BY <1>2
    <3> HIDE DEF Src
    <3>3. CASE Src(i) < k
      <4>1. array_[At(Src(i))] # Raw
        BY <1>1, <1>7, <3>1, <3>3
      <4> QED
        BY <3>2, <3>3, <4>1
    <3>4. CASE ~ (Src(i) < k)
      BY <3>2, <3>4
    <3> QED
      BY <3>3, <3>4
  <2>2. Src(i) < k <=> \E n \in 0 .. k - 1 : i = At(n)'
    <3> HIDE DEF Src
    <3>1. ASSUME Src(i) < k
          PROVE  \E n \in 0 .. k - 1 : i = At(n)'
      <4>1. PICK n \in 0 .. capacity_ - 1 : n = Src(i)
        BY <1>6
      <4> QED
        BY <1>1, <1>6, <3>1, <4>1
    <3>2. ASSUME NEW n \in 0 .. k - 1, i = At(n)'
          PROVE  Src(i) < k
      BY <1>1, <1>5, <3>2
    <3> QED
      BY <3>1, <3>2
  <2> QED
    BY <2>1, <2>2
<1>11. IndInv'
  <2>1. array_' \in [Cells -> T \cup {Raw}]
    BY <1>2, <1>6 DEF IndInv
  <2>2. head_' \in Cells /\ tail_' \in Cells /\ contents_size_' \in 0 .. capacity_
    BY <1>1, <1>2, <1>8 DEF Cells
  <2> QED
    BY <1>9, <1>10, <2>1, <2>2 DEF IndInv
<1>12. Contents' = Contents
  <2>1. /\ Contents = [n \in 1 .. k |-> array_[At(n - 1)]]
        /\ Contents' = [n \in 1 .. k |-> array_'[At(n - 1)']]
    BY <1>1, <1>2 DEF Contents
  <2>2. \A m \in 0 .. k - 1 : array_'[At(m)'] = array_[At(m)]
    <3> SUFFICES ASSUME NEW m \in 0 .. k - 1
                 PROVE  array_'[At(m)'] = array_[At(m)]
      OBVIOUS
    <3>1. At(m)' \in Cells /\ Src(At(m)') = m
      BY <1>1, <1>5
    <3> HIDE DEF Src
    <3> QED
      BY <1>1, <1>2, <3>1
  <2>3. \A n \in 1 .. k : array_'[At(n - 1)'] = array_[At(n - 1)]
    BY <1>1, <2>2
  <2> QED
    BY <2>1, <2>3
<1> QED
  BY <1>11, <1>12

\* An empty buffer has the invariant.
LEMMA InitInv ==
  ASSUME capacity_ > 1, RingInit
  PROVE  IndInv /\ Contents = << >>
<1> USE BufferAssumption
<1>1. At(contents_size_) = 1
  <2>1. 1 % capacity_ = 1
    BY Wrap
  <2>2. At(contents_size_) = (0 + 1) % capacity_
    BY DEF At, RingInit
  <2> QED
    BY <2>1, <2>2
<1>2. TailNext
  BY <1>1 DEF TailNext, Successor, RingInit
<1>3. IndInv
  BY <1>2 DEF RingInit, IndInv, CellLive, Cells
<1>4. Contents \in [1 .. 0 -> T \cup {Raw}]
  BY DEF Contents, RingInit
<1> QED
  BY <1>3, <1>4, NothingInside

------------------------------------------------------------------------------

\* The invariant is inductive: the cell after tail_ is one past the window and
\* the live cells are those of the window.
THEOREM RingInvariance ==
  ASSUME capacity_ > 1
  PROVE  RingSpec => []IndInv
<1>1. RingInit => IndInv
  BY InitInv
<1>2. IndInv /\ [RingNext]_ringVars => IndInv'
  <2> SUFFICES ASSUME IndInv, [RingNext]_ringVars
               PROVE  IndInv'
    OBVIOUS
  <2>1. ASSUME NEW item \in T, push_back(item) PROVE IndInv'
    BY <2>1, PushRoom, PushFull
  <2>2. CASE pop_front
    BY <2>2, PopInv
  <2>3. CASE clear
    BY <2>3, ClearInv
  <2>4. CASE CopyConstruct
    BY <2>4, CopyInv
  <2>5. CASE UNCHANGED ringVars
    BY <2>5 DEF ringVars, IndInv, TailNext, CellLive, At, Successor
  <2> QED
    BY <2>1, <2>2, <2>3, <2>4, <2>5 DEF RingNext
<1> QED
  BY <1>1, <1>2, PTL DEF RingSpec

\* front(), back() and pop_front use the cells that operator[] gives the first
\* and the last element, for every capacity above one.
THEOREM EndsAreReached ==
  ASSUME capacity_ > 1
  PROVE  RingSpec => []EndsAgree
<1>1. IndInv => EndsAgree
  <2> SUFFICES ASSUME IndInv, contents_size_ > 0
               PROVE  head_ = At(0) /\ tail_ = At(contents_size_ - 1)
    BY DEF EndsAgree
  <2>1. \A n \in 0 .. capacity_ :
          At(n) = IF n + head_ < capacity_ THEN n + head_ ELSE (n + head_) - capacity_
    BY AtIs DEF IndInv
  <2>2. head_ \in Cells /\ tail_ \in Cells /\ contents_size_ \in 1 .. capacity_
    BY BufferAssumption DEF IndInv
  <2>3. Successor(tail_) = At(contents_size_)
    BY DEF IndInv, TailNext
  <2> QED
    BY <2>1, <2>2, <2>3, BufferAssumption DEF Successor, Cells
<1> QED
  BY <1>1, RingInvariance, PTL

\* Every element is constructed once and destroyed once: the live cells are the
\* window.
THEOREM LifetimesKept ==
  ASSUME capacity_ > 1
  PROVE  RingSpec => []LiveCells
<1>1. IndInv => LiveCells
  <2> SUFFICES ASSUME IndInv PROVE LiveCells
    OBVIOUS
  <2>1. \A n \in 0 .. contents_size_ - 1 : At(n) \in Cells
    <3>1. \A n \in 0 .. capacity_ :
            At(n) = IF n + head_ < capacity_ THEN n + head_ ELSE (n + head_) - capacity_
      BY AtIs DEF IndInv
    <3> QED
      BY <3>1, BufferAssumption DEF IndInv, Cells
  <2> QED
    BY <2>1 DEF IndInv, CellLive, LiveCells
<1> QED
  BY <1>1, RingInvariance, PTL

\* The ring implements the queue that drops its oldest element when full.
THEOREM RingIsSlidingQueue ==
  ASSUME capacity_ > 1
  PROVE  RingSpec => ImplementsQueue
<1>1. RingInit => Sliding!Init
  BY InitInv DEF Sliding!Init
<1>2. IndInv /\ [RingNext]_ringVars => [Sliding!Next]_Contents
  <2> SUFFICES ASSUME IndInv, [RingNext]_ringVars
               PROVE  Sliding!Next \/ Contents' = Contents
    OBVIOUS
  <2>1. Len(Contents) = contents_size_
    <3>1. contents_size_ \in Nat /\ Contents = [n \in 1 .. contents_size_ |-> array_[At(n - 1)]]
      BY BufferAssumption DEF IndInv, Contents
    <3>2. Contents \in [1 .. contents_size_ -> {array_[At(n - 1)] : n \in 1 .. contents_size_}]
      BY <3>1
    <3> QED
      BY <3>1, <3>2, WindowSeq
  <2>2. ASSUME NEW item \in T, push_back(item) PROVE Sliding!Next
    BY <2>1, <2>2, PushRoom, PushFull DEF Sliding!Next, Sliding!Push
  <2>3. CASE pop_front
    BY <2>3, PopInv DEF Sliding!Next, Sliding!Pop
  <2>4. CASE clear
    BY <2>4, ClearInv DEF Sliding!Next, Sliding!Clear
  <2>5. CASE CopyConstruct
    BY <2>5, CopyInv
  <2>6. CASE UNCHANGED ringVars
    BY <2>6 DEF ringVars, Contents, At
  <2> QED
    BY <2>2, <2>3, <2>4, <2>5, <2>6 DEF RingNext
<1> QED
  BY <1>1, <1>2, RingInvariance, PTL DEF RingSpec, ImplementsQueue, Sliding!Spec

------------------------------------------------------------------------------
\* Induction over the naturals and over a depth, the recursive functions it
\* makes, and loops.  The definitions here are the vocabulary of all proofs below.

\* What the last call of a container returned is what it should have returned.
AnswerRight == answer[1] = answer[2]

\* Induction, as a set of naturals that has no least one outside of it.
LEMMA NatClosed ==
  ASSUME NEW S, 0 \in S, \A n \in Nat : n \in S => n + 1 \in S
  PROVE  Nat \subseteq S
<1> SUFFICES ASSUME Nat \ S # {} PROVE FALSE
  OBVIOUS
<1>1. PICK R : R = OpToRel(<, Nat)
  OBVIOUS
<1>2. IsWellFoundedOn(R, Nat)
  BY <1>1, NatLessThanWellFounded
<1>3. PICK Known : Known = Nat \ S
  OBVIOUS
<1>4. Known \subseteq Nat /\ Known # {}
  BY <1>3
<1>5. PICK x \in Known : \A y \in Known : ~(<<y, x>> \in R)
  BY <1>2, <1>4, WFMin
<1>6. x \in Nat /\ x # 0
  BY <1>3
<1>7. x - 1 \in Nat /\ (x - 1) + 1 = x
  BY <1>6
<1>8. x - 1 \in Known
  BY <1>3, <1>7
<1>9. <<x - 1, x>> \in R
  BY <1>1, <1>6, <1>7 DEF OpToRel
<1> QED BY <1>5, <1>8, <1>9

\* A set that is not empty has a least natural.
LEMMA LeastIn ==
  ASSUME NEW Known, Known \subseteq Nat, Known # {}
  PROVE  \E x \in Known : \A y \in Known : x <= y
<1>1. PICK R : R = OpToRel(<, Nat)
  OBVIOUS
<1>2. IsWellFoundedOn(R, Nat)
  BY <1>1, NatLessThanWellFounded
<1>3. PICK x \in Known : \A y \in Known : ~(<<y, x>> \in R)
  BY <1>2, WFMin
<1>4. ASSUME NEW y \in Known PROVE x <= y
  <2>1. x \in Nat /\ y \in Nat
    OBVIOUS
  <2>2. ~(<<y, x>> \in R)
    BY <1>3
  <2>3. ~(y < x)
    BY <1>1, <2>1, <2>2 DEF OpToRel
  <2> QED BY <2>1, <2>3
<1> QED BY <1>4

\* Parents that lead to a smaller depth, recursion along them and induction on
\* the depth.
Measured(D, N, depth) == N \in Nat /\ depth \in [D -> 0 .. N]

Descending(D, depth, parent) ==
  /\ parent \in [D -> D]
  /\ \A y \in D : parent[y] # y => depth[parent[y]] < depth[y]

Recursion(D, S, parent, base, G) ==
  \E f \in [D -> S] :
    \A y \in D : f[y] = IF parent[y] = y THEN base[y] ELSE G[y][f[parent[y]]]

Inductive(D, depth, S) ==
  \A y \in D : (\A z \in D : depth[z] < depth[y] => z \in S) => y \in S

\* A function whose values are found from those of a parent of less depth exists:
\* the function of the CHOOSE in a recursive definition is one that satisfies it.
LEMMA RecursionExists ==
  ASSUME NEW D, NEW S, NEW N, NEW depth, NEW parent, NEW base, NEW G,
         Measured(D, N, depth), Descending(D, depth, parent),
         base \in [D -> S], G \in [D -> [S -> S]]
  PROVE  Recursion(D, S, parent, base, G)
<1> USE DEF Measured, Descending
<1> DEFINE Step(f, y) == IF parent[y] = y THEN base[y] ELSE G[y][f[parent[y]]]
           Known == {m \in Nat : \E f \in [D -> S] : \A y \in D : depth[y] < m => f[y] = Step(f, y)}
<1>1. 0 \in Known
  <2>1. \A y \in D : ~(depth[y] < 0)
    OBVIOUS
  <2> QED BY <2>1
<1>2. ASSUME NEW m \in Nat, m \in Known PROVE m + 1 \in Known
  <2>1. PICK f \in [D -> S] : \A y \in D : depth[y] < m => f[y] = Step(f, y)
    BY <1>2
  <2> DEFINE g == [y \in D |-> IF depth[y] = m THEN Step(f, y) ELSE f[y]]
  <2>2. \A y \in D : Step(f, y) \in S
    OBVIOUS
  <2>3. g \in [D -> S]
    BY <2>2
  <2>4. ASSUME NEW y \in D, depth[y] < m + 1 PROVE g[y] = Step(g, y)
    <3>1. Step(g, y) = Step(f, y)
      <4>1. CASE parent[y] = y
        BY <4>1
      <4>2. CASE parent[y] # y
        <5>1. parent[y] \in D /\ depth[parent[y]] \in Nat /\ depth[y] \in Nat /\ depth[parent[y]] < depth[y]
          BY <4>2
        <5>2. depth[parent[y]] # m
          BY <2>4, <5>1
        <5>3. g[parent[y]] = f[parent[y]]
          BY <5>1, <5>2
        <5> QED BY <5>3
      <4> QED BY <4>1, <4>2
    <3>2. CASE depth[y] = m
      BY <3>1, <3>2
    <3>3. CASE depth[y] # m
      <4>0. depth[y] \in Nat
        OBVIOUS
      <4>1. depth[y] < m
        <5>1. PICK d \in Nat : d = depth[y]
          BY <4>0, Zenon
        <5>2. d < m + 1 /\ d # m
          BY <5>1, <2>4, <3>3, Zenon
        <5>3. d < m
          BY <5>2
        <5> QED BY <5>1, <5>3, Zenon
      <4>2. f[y] = Step(f, y)
        BY <2>1, <4>1
      <4>3. g[y] = f[y]
        BY <3>3
      <4> QED BY <3>1, <4>2, <4>3
    <3> QED BY <3>2, <3>3
  <2> HIDE DEF g
  <2>5. \E h \in [D -> S] : \A y \in D : depth[y] < m + 1 => h[y] = Step(h, y)
    BY <2>3, <2>4
  <2> QED BY <2>5
<1>3. Nat \subseteq Known
  <2> HIDE DEF Known
  <2> QED BY <1>1, <1>2, NatClosed, Zenon
<1>4. N + 1 \in Known
  <2>1. N + 1 \in Nat
    OBVIOUS
  <2> QED BY <1>3, <2>1, Zenon
<1>5. PICK f \in [D -> S] : \A y \in D : depth[y] < N + 1 => f[y] = Step(f, y)
  BY <1>4
<1>6. \A y \in D : depth[y] < N + 1
  OBVIOUS
<1> QED BY <1>5, <1>6 DEF Recursion

\* Induction over the depth: a set that has an element as soon as it has all
\* that are less deep has every element.
LEMMA DepthInduction ==
  ASSUME NEW D, NEW N, NEW depth, NEW S, Measured(D, N, depth), Inductive(D, depth, S)
  PROVE  D \subseteq S
<1> USE DEF Measured
<1> SUFFICES ASSUME NEW y \in D, y \notin S PROVE FALSE
  OBVIOUS
<1> DEFINE Known == {depth[z] : z \in D \ S}
<1>1. Known \subseteq Nat /\ Known # {}
  OBVIOUS
<1>2. PICK x \in Known : \A t \in Known : x <= t
  <2> HIDE DEF Known
  <2> QED BY <1>1, LeastIn
<1>3. PICK z \in D \ S : x = depth[z]
  BY <1>2
<1>4. \A w \in D : depth[w] < depth[z] => w \in S
  <2> SUFFICES ASSUME NEW w \in D, depth[w] < depth[z], w \notin S PROVE FALSE
    OBVIOUS
  <2>1. depth[w] \in Known
    OBVIOUS
  <2>2. depth[w] \in Nat /\ depth[z] \in Nat
    OBVIOUS
  <2> QED BY <2>1, <2>2, <1>2, <1>3
<1> QED BY <1>3, <1>4 DEF Inductive

\* A loop keeps what each of its turns keeps, and n turns are enough for it to
\* end when every turn that does something makes a number below n smaller.
Keeps(body, Good) == \A x \in Good : body[x] \in Good
Falls(body, Good, measure) ==
  measure \in [Good -> Nat] /\ \A x \in Good : body[x] = x \/ measure[body[x]] < measure[x]

\* n turns are enough for a loop whose measure falls: it has come to a state that
\* its body leaves alone.
LEMMA LoopEnds ==
  ASSUME NEW Good, NEW body, NEW measure, NEW s, NEW n, Keeps(body, Good),
         Falls(body, Good, measure), s \in Good, n \in Nat, measure[s] <= n
  PROVE  Loop(body, s, n) \in Good /\ body[Loop(body, s, n)] = Loop(body, s, n)
<1> USE DEF Keeps, Falls
<1> DEFINE Turn(f, k) == IF k = 0 THEN s ELSE body[f[k - 1]]
           Known == {m \in Nat : \E f : f = [k \in 0 .. m |-> Turn(f, k)]}
<1>1. 0 \in Known
  <2> DEFINE f == [k \in 0 .. 0 |-> s]
  <2>1. \A k \in 0 .. 0 : f[k] = Turn(f, k)
    OBVIOUS
  <2>2. f = [k \in 0 .. 0 |-> Turn(f, k)]
    BY <2>1
  <2> QED BY <2>2
<1>2. ASSUME NEW m \in Nat, m \in Known PROVE m + 1 \in Known
  <2>1. PICK f : f = [k \in 0 .. m |-> Turn(f, k)]
    BY <1>2
  <2> DEFINE g == [k \in 0 .. m + 1 |-> IF k <= m THEN f[k] ELSE body[f[m]]]
  <2>2. ASSUME NEW k \in 0 .. m + 1 PROVE g[k] = Turn(g, k)
    <3>1. CASE k = 0
      <4>1. 0 \in 0 .. m /\ 0 \in 0 .. m + 1 /\ 0 <= m
        OBVIOUS
      <4> QED BY <2>1, <3>1, <4>1
    <3>2. CASE k # 0
      <4>1. k - 1 \in 0 .. m + 1 /\ k - 1 <= m /\ k - 1 \in 0 .. m
        BY <3>2
      <4>2. g[k - 1] = f[k - 1]
        BY <4>1
      <4>4. CASE k <= m
        <5>1. k \in 0 .. m
          BY <4>4
        <5>2. f[k] = body[f[k - 1]]
          BY <5>1, <3>2, <2>1
        <5> QED BY <4>2, <4>4, <3>2, <5>2
      <4>5. CASE k = m + 1
        <5>1. k - 1 = m /\ ~(k <= m)
          BY <4>5
        <5> QED BY <4>2, <5>1, <3>2
      <4> QED BY <4>4, <4>5
    <3> QED BY <3>1, <3>2
  <2>3. g = [k \in 0 .. m + 1 |-> Turn(g, k)]
    <3> HIDE DEF Turn
    <3> QED BY <2>2, Zenon
  <2>4. \E h : h = [k \in 0 .. m + 1 |-> Turn(h, k)]
    <3> HIDE DEF g, Turn
    <3> QED BY <2>3, Zenon
  <2> QED BY <2>4
<1>3. Nat \subseteq Known
  <2> HIDE DEF Known
  <2> QED BY <1>1, <1>2, NatClosed, Zenon
<1>4. \E f : f = [k \in 0 .. n |-> Turn(f, k)]
  BY <1>3
<1>5. PICK f : f = CHOOSE g : g = [k \in 0 .. n |-> Turn(g, k)]
  OBVIOUS
<1>6. f = [k \in 0 .. n |-> Turn(f, k)]
  BY <1>4, <1>5, Zenon
<1>7. Loop(body, s, n) = f[n]
  BY <1>5, Zenon DEF Loop
<1> DEFINE U == {k \in Nat : k <= n => /\ f[k] \in Good
                                       /\ body[f[k]] = f[k] \/ measure[f[k]] + k <= n}
<1>8. 0 \in U
  <2>1. f[0] = s
    BY <1>6
  <2> QED BY <2>1
<1>9. ASSUME NEW k \in Nat, k \in U PROVE k + 1 \in U
  <2> SUFFICES ASSUME k + 1 <= n PROVE /\ f[k + 1] \in Good
                                       /\ body[f[k + 1]] = f[k + 1] \/ measure[f[k + 1]] + (k + 1) <= n
    OBVIOUS
  <2>1. k + 1 \in 0 .. n /\ k + 1 # 0 /\ (k + 1) - 1 = k /\ k <= n
    OBVIOUS
  <2>2. f[k + 1] = body[f[k]]
    BY <1>6, <2>1
  <2>3. PICK x : x = f[k]
    OBVIOUS
  <2>4. x \in Good /\ (body[x] = x \/ measure[x] + k <= n)
    BY <1>9, <2>1, <2>3
  <2>5. body[x] \in Good /\ measure[x] \in Nat /\ measure[body[x]] \in Nat
    BY <2>4
  <2>6. body[body[x]] = body[x] \/ measure[body[x]] + (k + 1) <= n
    <3>1. CASE body[x] = x
      BY <3>1
    <3>2. CASE body[x] # x
      BY <3>2, <2>4, <2>5
    <3> QED BY <3>1, <3>2
  <2> QED BY <2>2, <2>3, <2>5, <2>6
<1>10. Nat \subseteq U
  <2> HIDE DEF U
  <2> QED BY <1>8, <1>9, NatClosed, Zenon
<1>11. f[n] \in Good /\ (body[f[n]] = f[n] \/ measure[f[n]] + n <= n)
  BY <1>10
<1>12. body[f[n]] = f[n]
  <2>1. PICK x \in Good : x = f[n]
    BY <1>11
  <2>2. body[x] \in Good /\ measure[x] \in Nat /\ measure[body[x]] \in Nat
    OBVIOUS
  <2> QED BY <1>11, <2>1, <2>2
<1> QED BY <1>7, <1>11, <1>12

Ends(body, Good, s, n) ==
  Loop(body, s, n) \in Good /\ body[Loop(body, s, n)] = Loop(body, s, n)

\* The same, with what the loop comes to under a name.
LEMMA LoopComesToEnd ==
  ASSUME NEW Good, NEW body, NEW measure, NEW s, NEW n, Keeps(body, Good),
         Falls(body, Good, measure), s \in Good, n \in Nat, measure[s] <= n
  PROVE  Ends(body, Good, s, n)
BY LoopEnds DEF Ends

\* A function on 1 .. n is a sequence of length n.
LEMMA FunctionIsSeq ==
  ASSUME NEW n, NEW S, NEW f, n \in Nat, f \in [1 .. n -> S]
  PROVE  f \in Seq(S) /\ Len(f) = n
<1>1. f \in Seq(S)
  BY SeqDef
<1>2. DOMAIN f = 1 .. n /\ DOMAIN f = 1 .. Len(f) /\ Len(f) \in Nat
  BY <1>1, LenProperties
<1>3. Len(f) = n
  BY <1>2
<1> QED BY <1>1, <1>3

------------------------------------------------------------------------------
\* DisjointSet and DSU.  The invariant: the parents are a forest, every node has a
\* root that the parents lead to, and the blocks are the made nodes with one root.

\* root is the root of each node of the forest, and depth, below N, falls towards it.
Forest(D, parent, root, depth, N) ==
  /\ parent \in [D -> D] /\ root \in [D -> D] /\ depth \in [D -> 0 .. N]
  /\ \A x \in D :
       /\ parent[root[x]] = root[x] /\ root[parent[x]] = root[x]
       /\ parent[x] = x => root[x] = x
       /\ parent[x] # x => depth[parent[x]] < depth[x] /\ depth[root[x]] < depth[x]

\* Find moves nodes on the way to the root to be children of it, and no other.
LEMMA FindCompresses ==
  ASSUME NEW D, NEW parent, NEW root, NEW depth, NEW N \in Nat,
         Forest(D, parent, root, depth, N), NEW x \in D
  PROVE  /\ Find(parent, x) \in [D -> D]
         /\ Find(parent, x)[x] = root[x]
         /\ \A z \in D : Find(parent, x)[z] = parent[z] \/ Find(parent, x)[z] = root[z]
<1>1. /\ parent \in [D -> D] /\ root \in [D -> D] /\ depth \in [D -> 0 .. N]
      /\ \A y \in D : /\ root[parent[y]] = root[y] /\ (parent[y] = y => root[y] = y)
                      /\ parent[y] # y => depth[parent[y]] < depth[y]
  BY DEF Forest
<1>2. DOMAIN parent = D
  BY <1>1
<1>0. \A y \in D : parent[y] # y => depth[parent[y]] < depth[y]
  BY <1>1
<1>a. parent \in [D -> D] /\ depth \in [D -> 0 .. N]
  BY <1>1
<1> DEFINE S == [D -> D]
           base == [y \in D |-> parent]
           G == [y \in D |-> [p \in S |-> [p EXCEPT ![y] = p[parent[y]]]]]
           After(f, y) == IF parent[y] = y THEN parent
                          ELSE [f[parent[y]] EXCEPT ![y] = f[parent[y]][parent[y]]]
<1>3. base \in [D -> S]
  BY <1>1
<1>4. G \in [D -> [S -> S]]
  BY <1>1
<1>5. PICK g \in [D -> S] :
        \A y \in D : g[y] = IF parent[y] = y THEN base[y] ELSE G[y][g[parent[y]]]
  <2> HIDE DEF S, base, G
  <2>1. Measured(D, N, depth) /\ Descending(D, depth, parent)
    BY <1>0, <1>a DEF Measured, Descending
  <2>2. Recursion(D, S, parent, base, G)
    BY <2>1, <1>3, <1>4, RecursionExists, Zenon
  <2> QED BY <2>2, Zenon DEF Recursion
<1>6. \A y \in D : g[y] = After(g, y)
  <2> SUFFICES ASSUME NEW y \in D PROVE g[y] = After(g, y)
    OBVIOUS
  <2>1. parent[y] \in D /\ g[parent[y]] \in S
    BY <1>1
  <2>2. PICK p \in S : p = g[parent[y]]
    BY <2>1
  <2>3. G[y][p] = [p EXCEPT ![y] = p[parent[y]]]
    OBVIOUS
  <2>4. g[y] = IF parent[y] = y THEN base[y] ELSE G[y][p]
    BY <1>5, <2>2
  <2>5. base[y] = parent
    OBVIOUS
  <2> HIDE DEF S, base, G
  <2> QED BY <2>2, <2>3, <2>4, <2>5
<1>7. g = [y \in D |-> After(g, y)]
  <2> HIDE DEF After
  <2> QED BY <1>5, <1>6
<1>8. PICK f : f = CHOOSE h : h = [y \in D |-> After(h, y)]
  OBVIOUS
<1>9. f = [y \in D |-> After(f, y)]
  <2> HIDE DEF After
  <2> QED BY <1>7, <1>8, Zenon
<1>10. Find(parent, x) = f[x]
  BY <1>2, <1>8, Zenon DEF Find
<1> DEFINE Right(y, p) == /\ p \in [D -> D] /\ p[y] = root[y]
                          /\ \A z \in D : p[z] = parent[z] \/ p[z] = root[z]
           Known == {y \in D : Right(y, f[y])}
<1>11. ASSUME NEW y \in D, \A z \in D : depth[z] < depth[y] => z \in Known
       PROVE  y \in Known
  <2>1. f[y] = After(f, y)
    BY <1>9
  <2>2. CASE parent[y] = y
    <3>1. f[y] = parent
      BY <2>1, <2>2
    <3>2. Right(y, parent)
      BY <1>1, <2>2
    <3> QED BY <3>1, <3>2
  <2>3. CASE parent[y] # y
    <3>1. parent[y] \in D /\ depth[parent[y]] < depth[y]
      BY <1>1, <2>3
    <3>2. PICK p : p = f[parent[y]]
      OBVIOUS
    <3>3. Right(parent[y], p)
      BY <1>11, <3>1, <3>2
    <3>4. f[y] = [p EXCEPT ![y] = p[parent[y]]]
      BY <2>1, <2>3, <3>2
    <3>5. p[parent[y]] = root[y] /\ root[y] \in D
      BY <1>1, <3>3
    <3>6. Right(y, [p EXCEPT ![y] = p[parent[y]]])
      BY <3>3, <3>5
    <3> HIDE DEF Right
    <3> QED BY <3>4, <3>6
  <2> QED BY <2>2, <2>3
<1>12. D \subseteq Known
  <2> HIDE DEF Known
  <2>1. Measured(D, N, depth)
    BY <1>a DEF Measured
  <2>2. Inductive(D, depth, Known)
    BY <1>11, Zenon DEF Inductive
  <2> QED BY <2>1, <2>2, DepthInduction, Zenon
<1> QED BY <1>10, <1>12

\* p is parent but for nodes that have moved to their root, x among them.
Compressed(D, parent, root, x, p) ==
  p[x] = root[x] /\ \A z \in D : p[z] = parent[z] \/ p[z] = root[z]

\* What Find returns is again a forest with these roots.
LEMMA FindKeepsForest ==
  ASSUME NEW D, NEW parent, NEW root, NEW depth, NEW N, N \in Nat,
         Forest(D, parent, root, depth, N), NEW x, x \in D, NEW p, p = Find(parent, x)
  PROVE  Forest(D, p, root, depth, N) /\ Compressed(D, parent, root, x, p)
<1>2. /\ p \in [D -> D] /\ p[x] = root[x]
      /\ \A z \in D : p[z] = parent[z] \/ p[z] = root[z]
  BY FindCompresses, SMTT(60)
<1>3. Forest(D, p, root, depth, N)
  <2> SUFFICES ASSUME NEW z \in D
               PROVE  /\ p[root[z]] = root[z] /\ root[p[z]] = root[z]
                      /\ p[z] = z => root[z] = z
                      /\ p[z] # z => depth[p[z]] < depth[z] /\ depth[root[z]] < depth[z]
    BY <1>2 DEF Forest
  <2>1. root[z] \in D /\ parent[z] \in D /\ parent[root[z]] = root[z] /\ root[parent[z]] = root[z]
    BY DEF Forest
  <2>2. root[root[z]] = root[z]
    BY <2>1 DEF Forest
  <2>3. p[root[z]] = root[z]
    BY <1>2, <2>1, <2>2
  <2>4. p[z] = parent[z] \/ p[z] = root[z]
    BY <1>2
  <2> QED BY <2>1, <2>2, <2>3, <2>4 DEF Forest
<1> QED BY <1>2, <1>3 DEF Compressed

------------------------------------------------------------------------------
\* The sets of nodes with one root.
Part(D, root, r) == {y \in D : root[y] = r}
Parts(D, root) == {Part(D, root, root[x]) : x \in D}

\* The block of a node are the nodes that have its root.
LEMMA BlockIsPart ==
  ASSUME NEW D, NEW root, abs = Parts(D, root), NEW x \in D
  PROVE  Block(x) = Part(D, root, root[x])
<1>1. Part(D, root, root[x]) \in abs /\ x \in Part(D, root, root[x])
  BY DEF Parts, Part
<1>2. ASSUME NEW B \in abs, x \in B PROVE B = Part(D, root, root[x])
  <2>1. PICK y \in D : B = Part(D, root, root[y])
    BY DEF Parts
  <2>2. root[x] = root[y]
    BY <1>2, <2>1 DEF Part
  <2> QED BY <2>1, <2>2
<1> QED BY <1>1, <1>2 DEF Block

\* Two nodes are in one block just when they have one root.
LEMMA SamePart ==
  ASSUME NEW D, NEW root, NEW x \in D, NEW y \in D
  PROVE  Part(D, root, root[x]) = Part(D, root, root[y]) <=> root[x] = root[y]
<1>1. x \in Part(D, root, root[x])
  BY DEF Part
<1>2. x \in Part(D, root, root[y]) => root[x] = root[y]
  BY DEF Part
<1> QED BY <1>1, <1>2

\* The root small becomes a child of the root large.
JoinedRoot(D, root, small, large) == [y \in D |-> IF root[y] = small THEN large ELSE root[y]]

\* A root that is put under another one leaves a forest, deeper by at most the
\* depth of what it is put under.
LEMMA ForestJoined ==
  ASSUME NEW D, NEW p, NEW root, NEW depth, NEW N \in Nat, Forest(D, p, root, depth, N),
         NEW small \in D, NEW large \in D, p[small] = small, p[large] = large, small # large
  PROVE  \E d : Forest(D, [p EXCEPT ![small] = large], JoinedRoot(D, root, small, large), d, N + N + 1)
<1> DEFINE q == [p EXCEPT ![small] = large]
           R == JoinedRoot(D, root, small, large)
           d == [y \in D |-> IF root[y] = small THEN depth[y] + N + 1 ELSE depth[y]]
<1>1. p \in [D -> D] /\ root \in [D -> D] /\ depth \in [D -> 0 .. N]
  BY DEF Forest
<1>2. q \in [D -> D] /\ R \in [D -> D] /\ d \in [D -> 0 .. N + N + 1]
  <2>1. q \in [D -> D] /\ R \in [D -> D]
    BY <1>1 DEF JoinedRoot
  <2>2. ASSUME NEW y \in D PROVE d[y] \in 0 .. N + N + 1
    <3>1. depth[y] \in 0 .. N
      BY <1>1
    <3> QED BY <3>1
  <2> QED BY <2>1, <2>2
<1>3. root[small] = small /\ root[large] = large
  BY DEF Forest
<1>4. ASSUME NEW x \in D
      PROVE  /\ q[R[x]] = R[x] /\ R[q[x]] = R[x] /\ (q[x] = x => R[x] = x)
             /\ q[x] # x => d[q[x]] < d[x] /\ d[R[x]] < d[x]
  <2>1. /\ root[x] \in D /\ p[x] \in D /\ p[root[x]] = root[x] /\ root[p[x]] = root[x]
        /\ p[x] = x => root[x] = x
        /\ p[x] # x => depth[p[x]] < depth[x] /\ depth[root[x]] < depth[x]
    BY DEF Forest
  <2>2. root[root[x]] = root[x]
    BY <2>1 DEF Forest
  <2>3. R[x] = IF root[x] = small THEN large ELSE root[x]
    BY DEF JoinedRoot
  <2>4. depth[x] \in 0 .. N /\ depth[p[x]] \in 0 .. N /\ depth[root[x]] \in 0 .. N /\ depth[large] \in 0 .. N
    BY <1>1, <2>1
  <2>5. q[x] = IF x = small THEN large ELSE p[x]
    BY <1>1
  <2>6. \A z \in D : R[z] = IF root[z] = small THEN large ELSE root[z]
    BY DEF JoinedRoot
  <2>7. \A z \in D : d[z] = IF root[z] = small THEN depth[z] + N + 1 ELSE depth[z]
    OBVIOUS
  <2>8. \A z \in D : q[z] = IF z = small THEN large ELSE p[z]
    BY <1>1
  <2> HIDE DEF q, R, d
  <2>9. q[R[x]] = R[x]
    BY <2>1, <2>3, <2>8, <1>3
  <2>10. R[q[x]] = R[x]
    BY <2>1, <2>3, <2>5, <2>6, <1>3
  <2>11. q[x] = x => R[x] = x
    BY <2>1, <2>3, <2>5, <1>3
  <2>12. ASSUME q[x] # x PROVE d[q[x]] < d[x] /\ d[R[x]] < d[x]
    <3>1. CASE root[x] = small
      <4>1. d[x] = depth[x] + N + 1
        BY <2>7, <3>1
      <4>2. R[x] = large /\ d[large] = depth[large]
        BY <2>3, <2>7, <3>1, <1>3
      <4>3. d[R[x]] < d[x]
        BY <2>4, <4>1, <4>2
      <4>4. CASE x = small
        BY <2>5, <4>2, <4>3, <4>4
      <4>5. CASE x # small
        <5>1. q[x] = p[x] /\ root[p[x]] = small /\ p[x] # x
          BY <2>1, <2>5, <3>1, <4>5, <2>12
        <5>2. d[p[x]] = depth[p[x]] + N + 1
          BY <2>7, <2>1, <5>1
        <5> QED BY <2>1, <2>4, <4>1, <4>3, <5>1, <5>2
      <4> QED BY <4>4, <4>5
    <3>2. CASE root[x] # small
      <4>1. d[x] = depth[x]
        BY <2>7, <3>2
      <4>2. x # small
        BY <1>3, <3>2
      <4>3. q[x] = p[x] /\ p[x] # x
        BY <2>5, <2>12, <4>2
      <4>4. R[x] = root[x] /\ d[root[x]] = depth[root[x]]
        BY <2>1, <2>2, <2>3, <2>7, <3>2
      <4>5. d[p[x]] = depth[p[x]]
        BY <2>1, <2>7, <3>2
      <4> QED BY <2>1, <4>1, <4>3, <4>4, <4>5
    <3> QED BY <3>1, <3>2
  <2> QED BY <2>9, <2>10, <2>11, <2>12
<1>5. Forest(D, q, R, d, N + N + 1)
  <2> HIDE DEF q, R, d
  <2> QED BY <1>2, <1>4 DEF Forest
<1> HIDE DEF d
<1> QED BY <1>5

\* A and B are the sets of two nodes with different roots, small and large.
Apart(D, root, a, b, small, large, A, B) ==
  /\ \A z \in D : root[z] \in D /\ root[root[z]] = root[z]
  /\ a \in D /\ b \in D /\ root[a] # root[b]
  /\ \/ small = root[a] /\ large = root[b]
     \/ small = root[b] /\ large = root[a]
  /\ A = Part(D, root, root[a]) /\ B = Part(D, root, root[b])

\* With the roots R they are one set.
Together(D, root, R, A, B) ==
  /\ Parts(D, R) = (Parts(D, root) \ {A, B}) \cup {A \cup B}
  /\ A \cup B \notin Parts(D, root)
  /\ A \in Parts(D, root) /\ B \in Parts(D, root) /\ A # B

\* R is root but that small has become a child of large.
UnderLarge(D, root, small, large, R) ==
  \A y \in D : R[y] = IF root[y] = small THEN large ELSE root[y]

\* Of the blocks, just the two whose roots are joined become one.
LEMMA PartsJoined ==
  ASSUME NEW D, NEW root, NEW a, NEW b, NEW small, NEW large, NEW A, NEW B,
         Apart(D, root, a, b, small, large, A, B),
         NEW R, UnderLarge(D, root, small, large, R)
  PROVE  Together(D, root, R, A, B)
<1> USE DEF Apart
<1>1. \A y \in D : R[y] = IF root[y] = small THEN large ELSE root[y]
  BY DEF UnderLarge
<1>2. A # B /\ a \in A /\ b \in B /\ a \notin B /\ b \notin A
  BY DEF Part
<1>3. A \in Parts(D, root) /\ B \in Parts(D, root)
  BY DEF Parts
<1>4. Part(D, R, large) = A \cup B
  <2> QED BY <1>1 DEF Part
<1>5. \A r : r # small /\ r # large => Part(D, R, r) = Part(D, root, r)
  <2> QED BY <1>1 DEF Part
<1>6. A \cup B \notin Parts(D, root)
  <2> SUFFICES ASSUME NEW z \in D, A \cup B = Part(D, root, root[z]) PROVE FALSE
    BY DEF Parts
  <2>1. a \in Part(D, root, root[z]) /\ b \in Part(D, root, root[z])
    BY <1>2
  <2> QED BY <2>1 DEF Part
<1>7. Parts(D, R) \subseteq (Parts(D, root) \ {A, B}) \cup {A \cup B}
  <2> SUFFICES ASSUME NEW z \in D
               PROVE  Part(D, R, R[z]) \in (Parts(D, root) \ {A, B}) \cup {A \cup B}
    BY DEF Parts
  <2>1. CASE root[z] \in {small, large}
    <3>1. R[z] = large
      BY <1>1, <2>1
    <3> QED BY <1>4, <3>1
  <2>2. CASE root[z] \notin {small, large}
    <3>1. R[z] = root[z]
      BY <1>1, <2>2
    <3>2. Part(D, R, R[z]) = Part(D, root, root[z])
      BY <1>5, <2>2, <3>1
    <3>3. Part(D, root, root[z]) \in Parts(D, root)
      BY DEF Parts
    <3>4. a \notin Part(D, root, root[z]) /\ b \notin Part(D, root, root[z])
      BY <2>2 DEF Part
    <3> QED BY <1>2, <3>2, <3>3, <3>4
  <2> QED BY <2>1, <2>2
<1>8. ASSUME NEW E \in (Parts(D, root) \ {A, B}) \cup {A \cup B} PROVE E \in Parts(D, R)
  <2>1. CASE E = A \cup B
    <3>1. R[a] = large
      BY <1>1
    <3>2. Part(D, R, R[a]) \in Parts(D, R)
      BY DEF Parts
    <3> QED BY <1>4, <2>1, <3>1, <3>2
  <2>2. CASE E \in Parts(D, root) /\ E # A /\ E # B
    <3>1. PICK z \in D : E = Part(D, root, root[z])
      BY <2>2 DEF Parts
    <3>2. root[z] # root[a] /\ root[z] # root[b]
      BY <2>2, <3>1
    <3>3. R[z] = root[z]
      BY <1>1, <3>2
    <3>4. E = Part(D, R, R[z])
      BY <1>5, <3>1, <3>2, <3>3
    <3> QED BY <3>4 DEF Parts
  <2> QED BY <2>1, <2>2
<1> QED BY <1>2, <1>3, <1>6, <1>7, <1>8 DEF Together

------------------------------------------------------------------------------
\* The two searches of a merge.
LEMMA FindBoth ==
  ASSUME NEW D, NEW parent, NEW root, NEW depth, NEW N, N \in Nat,
         Forest(D, parent, root, depth, N), NEW x, x \in D, NEW y, y \in D,
         NEW p, p = Find(Find(parent, x), y)
  PROVE  /\ Forest(D, p, root, depth, N)
         /\ Compressed(D, parent, root, x, p) /\ Compressed(D, parent, root, y, p)
<1>1. PICK q : q = Find(parent, x)
  OBVIOUS
<1>2. Forest(D, q, root, depth, N) /\ Compressed(D, parent, root, x, q)
  BY <1>1, FindKeepsForest, Zenon
<1>3. p = Find(q, y)
  BY <1>1, Zenon
<1>4. Forest(D, p, root, depth, N) /\ Compressed(D, q, root, y, p)
  BY <1>2, <1>3, FindKeepsForest, Zenon
<1> QED BY <1>2, <1>4 DEF Compressed

\* The nodes M are made, those of 1 .. n that are not are gaps.  The roots of the
\* made nodes are made, and of the gaps only the node 1 may have children.
Closed(n, M, f) ==
  /\ f \in [1 .. n -> 1 .. n] /\ \A x \in M : f[x] \in M
  /\ \A x \in 1 .. n : f[x] \in M \cup {1}
  /\ 1 \in M \/ n = 0 \/ f[1] = 1

\* The sets of the made nodes are the blocks, with an edge for each merge.
Sets(n, M, parent, edges, blocks, root, depth, N) ==
  /\ n \in Nat /\ N \in Nat
  /\ Forest(1 .. n, parent, root, depth, N)
  /\ M \subseteq 1 .. n /\ Closed(n, M, parent) /\ Closed(n, M, root)
  /\ blocks = Parts(M, root)
  /\ IsFiniteSet(blocks) /\ edges = Cardinality(M) - Cardinality(blocks)

\* A search leaves the gaps alone.
LEMMA FindKeepsClosed ==
  ASSUME NEW n, n \in Nat, NEW M, M \subseteq 1 .. n, NEW parent, NEW root, NEW depth, NEW N, N \in Nat,
         Forest(1 .. n, parent, root, depth, N), Closed(n, M, parent), Closed(n, M, root),
         NEW x, x \in 1 .. n, NEW y, y \in 1 .. n, NEW p, p = Find(Find(parent, x), y)
  PROVE  Closed(n, M, p)
<1>1. PICK q : q = Find(parent, x)
  OBVIOUS
<1>2. Forest(1 .. n, q, root, depth, N) /\ Compressed(1 .. n, parent, root, x, q)
  BY <1>1, FindKeepsForest, Zenon
<1>3. p = Find(q, y)
  BY <1>1, Zenon
<1>4. Forest(1 .. n, p, root, depth, N) /\ Compressed(1 .. n, q, root, y, p)
  BY <1>2, <1>3, FindKeepsForest, Zenon
<1>5. p \in [1 .. n -> 1 .. n]
  BY <1>4 DEF Forest
<1>6. \A z \in 1 .. n : p[z] = parent[z] \/ p[z] = root[z]
  BY <1>2, <1>4 DEF Compressed
<1>7. n = 0 \/ 1 \in 1 .. n
  OBVIOUS
<1> QED BY <1>5, <1>6, <1>7 DEF Closed

\* A merge of two nodes with different roots, whichever of them becomes the root.
LEMMA SetsMerged ==
  ASSUME NEW n, NEW M, NEW parent, NEW edges, NEW blocks, NEW root, NEW depth, NEW N,
         Sets(n, M, parent, edges, blocks, root, depth, N),
         NEW x \in M, NEW y \in M, NEW p, p = Find(Find(parent, x), y),
         NEW small, NEW large, root[x] # root[y],
         \/ small = root[x] /\ large = root[y]
         \/ small = root[y] /\ large = root[x],
         NEW A, A = Part(M, root, root[x]), NEW B, B = Part(M, root, root[y])
  PROVE  \E d, O : Sets(n, M, [p EXCEPT ![small] = large], edges + 1,
                        (blocks \ {A, B}) \cup {A \cup B},
                        JoinedRoot(1 .. n, root, small, large), d, O)
<1> DEFINE D == 1 .. n
           R == JoinedRoot(D, root, small, large)
           q == [p EXCEPT ![small] = large]
           C == (blocks \ {A, B}) \cup {A \cup B}
<1>1. /\ n \in Nat /\ N \in Nat /\ Forest(D, parent, root, depth, N) /\ blocks = Parts(M, root)
      /\ M \subseteq D /\ Closed(n, M, parent) /\ Closed(n, M, root)
  BY DEF Sets
<1>11. x \in D /\ y \in D
  BY <1>1
<1>12. Closed(n, M, p)
  <2>1. n \in Nat /\ N \in Nat /\ M \subseteq 1 .. n /\ Forest(1 .. n, parent, root, depth, N)
        /\ x \in 1 .. n /\ y \in 1 .. n
    BY <1>1, <1>11
  <2> QED BY <1>1, <2>1, FindKeepsClosed, Zenon
<1>2. Forest(D, p, root, depth, N)
  BY <1>1, <1>11, FindBoth
<1>3. root \in [D -> D] /\ \A z \in D : root[root[z]] = root[z] /\ root[z] \in D /\ p[root[z]] = root[z]
  <2>1. root \in [D -> D] /\ p \in [D -> D]
    BY <1>2 DEF Forest
  <2>2. ASSUME NEW z \in D PROVE root[root[z]] = root[z] /\ root[z] \in D /\ p[root[z]] = root[z]
    <3>1. root[z] \in D /\ p[root[z]] = root[z]
      BY <2>1, <1>2 DEF Forest
    <3>2. root[root[z]] = root[z]
      BY <3>1, <1>2 DEF Forest
    <3> QED BY <3>1, <3>2
  <2> QED BY <2>1, <2>2
<1>13. small \in M /\ large \in M
  BY <1>1 DEF Closed
<1>4. small \in D /\ large \in D /\ p[small] = small /\ p[large] = large /\ small # large
  BY <1>1, <1>3, <1>11, <1>13
<1>5. PICK d : Forest(D, q, R, d, N + N + 1)
  <2> HIDE DEF D
  <2> QED BY <1>1, <1>2, <1>4, ForestJoined
<1>14. \A z \in D : R[z] = IF root[z] = small THEN large ELSE root[z]
  BY DEF JoinedRoot
<1>6. Parts(M, R) = C /\ A \cup B \notin blocks /\ A \in blocks /\ B \in blocks /\ A # B
  <2>1. \A z \in M : root[z] \in M /\ root[root[z]] = root[z]
    BY <1>1, <1>3 DEF Closed
  <2>2. A = Part(M, root, root[x]) /\ B = Part(M, root, root[y])
    OBVIOUS
  <2>3. UnderLarge(M, root, small, large, R)
    BY <1>1, <1>14 DEF UnderLarge
  <2> HIDE DEF D, R
  <2>4. Apart(M, root, x, y, small, large, A, B)
    BY <2>1, <2>2 DEF Apart
  <2>5. Together(M, root, R, A, B)
    BY <2>3, <2>4, PartsJoined, Zenon
  <2> QED BY <1>1, <2>5 DEF Together
<1>7. IsFiniteSet(C) /\ Cardinality(C) = Cardinality(blocks) - 1
  <2>1. IsFiniteSet(blocks) /\ Cardinality(blocks) \in Nat
    BY FS_CardinalityType DEF Sets
  <2>2. IsFiniteSet(blocks \ {A}) /\ Cardinality(blocks \ {A}) = Cardinality(blocks) - 1
    BY <1>6, <2>1, FS_RemoveElement
  <2>3. /\ IsFiniteSet((blocks \ {A}) \ {B})
        /\ Cardinality((blocks \ {A}) \ {B}) = Cardinality(blocks) - 2
    <3>1. B \in blocks \ {A}
      BY <1>6
    <3>2. PICK E : E = blocks \ {A}
      OBVIOUS
    <3>3. IsFiniteSet(E \ {B}) /\ Cardinality(E \ {B}) = Cardinality(E) - 1
      BY <2>2, <3>1, <3>2, FS_RemoveElement, ZenonT(60)
    <3> QED BY <2>1, <2>2, <3>2, <3>3
  <2>4. PICK E : E = (blocks \ {A}) \ {B}
    OBVIOUS
  <2>5. C = E \cup {A \cup B} /\ A \cup B \notin E
    BY <1>6, <2>4
  <2>6. IsFiniteSet(E \cup {A \cup B}) /\ Cardinality(E \cup {A \cup B}) = Cardinality(E) + 1
    BY <2>3, <2>4, <2>5, FS_AddElement
  <2>7. Cardinality(E) = Cardinality(blocks) - 2
    BY <2>3, <2>4
  <2>8. Cardinality(E \cup {A \cup B}) = Cardinality(blocks) - 1
    BY <2>1, <2>6, <2>7
  <2> HIDE DEF C
  <2> QED BY <2>5, <2>6, <2>8
<1>8. edges + 1 = Cardinality(M) - Cardinality(C)
  <2>1. Cardinality(blocks) \in Nat /\ edges = Cardinality(M) - Cardinality(blocks)
    BY FS_CardinalityType DEF Sets
  <2>2. Cardinality(M) \in Nat
    <3>1. IsFiniteSet(1 .. n)
      BY <1>1, FS_Interval
    <3>2. IsFiniteSet(M)
      BY <1>1, <3>1, FS_Subset
    <3> QED BY <3>2, FS_CardinalityType
  <2>3. PICK m \in Nat : m = Cardinality(M)
    BY <2>2
  <2>4. PICK k \in Nat : k = Cardinality(blocks)
    BY <2>1
  <2>5. PICK l : l = Cardinality(C)
    OBVIOUS
  <2>6. edges = m - k /\ l = k - 1
    BY <1>7, <2>1, <2>3, <2>4, <2>5
  <2>7. edges + 1 = m - l
    BY <2>6
  <2> QED BY <2>3, <2>5, <2>7
<1>15. Closed(n, M, q) /\ Closed(n, M, R)
  <2>1. p \in [D -> D] /\ root \in [D -> D]
    BY <1>2 DEF Forest
  <2>2. /\ q \in [D -> D] /\ R \in [D -> D]
        /\ \A z \in D : q[z] = IF z = small THEN large ELSE p[z]
    BY <1>4, <2>1 DEF JoinedRoot
  <2>3. 1 \in M \/ n = 0 \/ (small # 1 /\ root[1] # small /\ 1 \in D)
    <3>1. SUFFICES ASSUME 1 \notin M, n # 0 PROVE small # 1 /\ root[1] # small /\ 1 \in D
      OBVIOUS
    <3>2. root[1] = 1 /\ small # 1
      BY <1>1, <1>13, <3>1 DEF Closed
    <3>3. 1 \in D
      BY <1>1, <3>1
    <3> QED BY <3>2, <3>3
  <2> HIDE DEF q, R
  <2> QED BY <1>1, <1>12, <1>13, <1>14, <2>2, <2>3 DEF Closed
<1>9. N + N + 1 \in Nat
  BY <1>1
<1>10. Sets(n, M, q, edges + 1, C, R, d, N + N + 1)
  <2> HIDE DEF q, R, C
  <2> QED BY <1>1, <1>5, <1>6, <1>7, <1>8, <1>9, <1>15 DEF Sets
<1> HIDE DEF q, R, C
<1> QED BY <1>10 DEF q, R, C

\* A merge of two nodes with one root only compresses the paths to it.
LEMMA SetsFound ==
  ASSUME NEW n, NEW M, NEW parent, NEW edges, NEW blocks, NEW root, NEW depth, NEW N,
         Sets(n, M, parent, edges, blocks, root, depth, N),
         NEW x \in M, NEW y \in M, NEW p, p = Find(Find(parent, x), y)
  PROVE  Sets(n, M, p, edges, blocks, root, depth, N)
<1>1. /\ n \in Nat /\ N \in Nat /\ M \subseteq 1 .. n /\ Forest(1 .. n, parent, root, depth, N)
      /\ Closed(n, M, parent) /\ Closed(n, M, root)
  BY DEF Sets
<1>2. x \in 1 .. n /\ y \in 1 .. n
  BY <1>1
<1>3. Closed(n, M, p)
  BY <1>1, <1>2, FindKeepsClosed, Zenon
<1>4. Forest(1 .. n, p, root, depth, N)
  BY <1>1, <1>2, FindBoth, Zenon
<1> QED BY <1>3, <1>4 DEF Sets

\* The ranks grow towards the root, which has less than the size of its set.
Ranked(D, parent, root, rank) ==
  /\ \A x \in D : rank[x] \in Nat
  /\ \A x \in D : IF parent[x] = x THEN rank[x] < Cardinality(Part(D, root, x))
                  ELSE rank[x] < rank[parent[x]] /\ rank[x] < rank[root[x]]

\* Ranks still grow towards the root when a node is put right under its root.
LEMMA RankedFound ==
  ASSUME NEW D, NEW parent, NEW root, NEW depth, NEW N \in Nat,
         Forest(D, parent, root, depth, N), NEW M, M \subseteq D,
         NEW rank, Ranked(M, parent, root, rank),
         NEW p, Forest(D, p, root, depth, N),
         \A z \in D : p[z] = parent[z] \/ p[z] = root[z]
  PROVE  Ranked(M, p, root, rank)
<1> SUFFICES ASSUME NEW z \in M
             PROVE  IF p[z] = z THEN rank[z] < Cardinality(Part(M, root, z))
                    ELSE rank[z] < rank[p[z]] /\ rank[z] < rank[root[z]]
  BY DEF Ranked
<1>1. p[z] = z <=> parent[z] = z
  BY DEF Forest
<1> QED BY <1>1 DEF Ranked

\* Union by rank: the larger rank is one more than before, and the set it bounds
\* has at least one more node.
LEMMA RankedMerged ==
  ASSUME NEW D, NEW M, M \subseteq D, IsFiniteSet(M), NEW p, NEW root, NEW depth, NEW N \in Nat,
         Forest(D, p, root, depth, N), \A z \in M : p[z] \in M /\ root[z] \in M,
         NEW rank, rank \in [D -> Nat], Ranked(M, p, root, rank),
         NEW small \in M, NEW large \in M, p[small] = small, p[large] = large, small # large,
         ~(rank[large] < rank[small])
  PROVE  Ranked(M, [p EXCEPT ![small] = large], JoinedRoot(D, root, small, large),
                [rank EXCEPT ![large] = @ + 1])
<1> DEFINE q == [p EXCEPT ![small] = large]
           R == JoinedRoot(D, root, small, large)
           k == [rank EXCEPT ![large] = @ + 1]
<1>1. p \in [D -> D] /\ root \in [D -> D] /\ rank \in [D -> Nat]
  BY DEF Forest, Ranked
<1>2. k \in [D -> Nat]
  BY <1>1
<1>3. /\ \A z \in D : q[z] = IF z = small THEN large ELSE p[z]
      /\ \A z \in D : R[z] = IF root[z] = small THEN large ELSE root[z]
      /\ \A z \in D : k[z] = IF z = large THEN rank[z] + 1 ELSE rank[z]
  BY <1>1 DEF JoinedRoot
<1>4. \A z \in M : Part(M, root, z) \subseteq M /\ IsFiniteSet(Part(M, root, z)) /\ Cardinality(Part(M, root, z)) \in Nat
  <2> SUFFICES ASSUME NEW z \in M
               PROVE  Part(M, root, z) \subseteq M /\ IsFiniteSet(Part(M, root, z)) /\ Cardinality(Part(M, root, z)) \in Nat
    OBVIOUS
  <2>1. Part(M, root, z) \in SUBSET M
    BY DEF Part
  <2>2. IsFiniteSet(Part(M, root, z))
    BY <2>1, FS_Subset
  <2> QED BY <2>1, <2>2, FS_CardinalityType
<1>5. ASSUME NEW z \in M
      PROVE  IF q[z] = z THEN k[z] < Cardinality(Part(M, R, z))
             ELSE k[z] < k[q[z]] /\ k[z] < k[R[z]]
  <2>1. /\ z \in D /\ p[z] \in M /\ root[z] \in M /\ rank[z] \in Nat /\ rank[p[z]] \in Nat
        /\ rank[root[z]] \in Nat /\ rank[small] \in Nat /\ rank[large] \in Nat
    BY <1>1
  <2>2. CASE z = small
    <3>1. q[z] = large /\ k[z] = rank[small] /\ k[large] = rank[large] + 1
      BY <1>3, <2>2
    <3>2. root[z] = small
      BY <2>2 DEF Forest
    <3>3. R[z] = large
      BY <1>3, <3>2
    <3>4. k[z] < k[large]
      BY <2>1, <3>1
    <3> HIDE DEF q, R, k
    <3> QED BY <2>2, <3>1, <3>3, <3>4
  <2>3. CASE z = large
    <3>1. q[z] = z /\ k[z] = rank[large] + 1
      BY <1>3, <2>3
    <3>2. root[small] = small /\ root[large] = large
      BY DEF Forest
    <3>3. PICK A : A = Part(M, root, large)
      OBVIOUS
    <3>4. PICK B : B = Part(M, root, small)
      OBVIOUS
    <3>5. Part(M, R, large) = A \cup B
      <4> HIDE DEF R
      <4> QED BY <1>3, <3>2, <3>3, <3>4 DEF Part
    <3>6. A \cap B = {}
      BY <3>3, <3>4 DEF Part
    <3>7. /\ IsFiniteSet(A) /\ IsFiniteSet(B) /\ Cardinality(A) \in Nat /\ Cardinality(B) \in Nat
      BY <1>4, <3>3, <3>4
    <3>8. Cardinality(A \cup B) = Cardinality(A) + Cardinality(B)
      <4>1. Cardinality(A \cup B) = Cardinality(A) + Cardinality(B) - Cardinality(A \cap B)
        BY <3>7, FS_Union
      <4>2. Cardinality(A \cap B) = 0
        BY <3>6, FS_EmptySet
      <4> QED BY <3>7, <4>1, <4>2
    <3>9. rank[large] < Cardinality(A) /\ rank[small] < Cardinality(B)
      BY <3>3, <3>4 DEF Ranked
    <3>10. k[z] < Cardinality(Part(M, R, z))
      <4> HIDE DEF q, R, k
      <4> QED BY <2>1, <2>3, <3>1, <3>5, <3>7, <3>8, <3>9
    <3> HIDE DEF q, R, k
    <3> QED BY <3>1, <3>10
  <2>4. CASE z # small /\ z # large
    <3>1. q[z] = p[z] /\ k[z] = rank[z]
      BY <1>3, <2>4
    <3>2. CASE p[z] = z
      <4>1. Part(M, R, z) = Part(M, root, z)
        <5> HIDE DEF R
        <5> QED BY <1>3, <2>4 DEF Part
      <4>2. rank[z] < Cardinality(Part(M, root, z))
        BY <3>2 DEF Ranked
      <4> HIDE DEF q, R, k
      <4> QED BY <3>1, <3>2, <4>1, <4>2
    <3>3. CASE p[z] # z
      <4>1. rank[z] < rank[p[z]] /\ rank[z] < rank[root[z]]
        BY <3>3 DEF Ranked
      <4>2. k[p[z]] = rank[p[z]] \/ k[p[z]] = rank[p[z]] + 1
        BY <1>3, <2>1
      <4>3. k[z] < k[q[z]]
        <5> HIDE DEF q, R, k
        <5> QED BY <2>1, <3>1, <4>1, <4>2
      <4>4. k[z] < k[R[z]]
        <5> HIDE DEF q, R, k
        <5>1. CASE root[z] = small
          <6>1. R[z] = large /\ k[large] = rank[large] + 1
            BY <1>3, <5>1
          <6>2. rank[z] < rank[large] + 1
            BY <2>1, <4>1, <5>1
          <6> QED BY <3>1, <6>1, <6>2
        <5>2. CASE root[z] # small
          <6>1. R[z] = root[z]
            BY <1>3, <5>2
          <6>2. k[root[z]] = rank[root[z]] \/ k[root[z]] = rank[root[z]] + 1
            BY <1>3, <2>1
          <6>3. rank[z] < k[root[z]]
            BY <2>1, <4>1, <6>2
          <6> QED BY <3>1, <6>1, <6>3
        <5> QED BY <5>1, <5>2
      <4> HIDE DEF q, R, k
      <4> QED BY <3>1, <3>3, <4>3, <4>4
    <3> QED BY <3>2, <3>3
  <2> QED BY <2>2, <2>3, <2>4
<1> HIDE DEF q, R, k
<1>6. Ranked(M, q, R, k)
  BY <1>2, <1>5 DEF Ranked
<1> QED BY <1>6 DEF q, R, k

DsuInd ==
  \E parent, edges, root, depth, N :
    /\ rep = [parent |-> parent, edges |-> edges]
    /\ Sets(Size, 1 .. Size, parent, edges, abs, root, depth, N)

DisjointSetInd ==
  \E n, M, parent, rank, edges, root, depth, N :
    /\ rep = [parent |-> parent, rank |-> rank, edges |-> edges]
    /\ Sets(n, M, parent, edges, abs, root, depth, N)
    /\ rank \in [1 .. n -> Nat] /\ Ranked(M, parent, root, rank)

\* The made nodes are those of the blocks.
LEMMA MadeAre ==
  ASSUME NEW M, NEW root, abs = Parts(M, root)
  PROVE  Made = M
<1>1. ASSUME NEW x \in M PROVE x \in Made
  <2>1. x \in Part(M, root, root[x]) /\ Part(M, root, root[x]) \in abs
    BY DEF Part, Parts
  <2> QED BY <2>1 DEF Made
<1>2. ASSUME NEW x \in Made PROVE x \in M
  <2>1. PICK y \in M : x \in Part(M, root, root[y])
    BY DEF Made, Parts
  <2> QED BY <2>1 DEF Part
<1> QED BY <1>1, <1>2

\* Every node of a new DSU is its own root.
LEMMA DsuStart ==
  ASSUME rep = [parent |-> [k \in Keys |-> k], edges |-> 0], abs = {{k} : k \in Keys}
  PROVE  DsuInd
<1> DEFINE id == [k \in Keys |-> k]
           depth == [k \in Keys |-> 0]
<1>1. Size \in Nat /\ Keys = 1 .. Size
  BY StructuresAssumption DEF Keys
<1>2. Forest(1 .. Size, id, id, depth, 0)
  BY <1>1 DEF Forest
<1>3. Parts(1 .. Size, id) = abs
  <2>1. \A k \in Keys : Part(Keys, id, id[k]) = {k}
    BY DEF Part
  <2>2. Parts(Keys, id) = {{k} : k \in Keys}
    <3> HIDE DEF id
    <3> QED BY <2>1 DEF Parts
  <2> QED BY <1>1, <2>2
<1>4. IsFiniteSet(abs) /\ 0 = Cardinality(1 .. Size) - Cardinality(abs)
  <2> DEFINE single == [k \in Keys |-> {k}]
  <2>1. single \in Surjection(Keys, abs) /\ single \in Injection(Keys, abs)
    BY DEF Surjection, Injection, IsInjective
  <2>2. IsFiniteSet(Keys) /\ Cardinality(Keys) = Size
    BY <1>1, FS_Interval
  <2> HIDE DEF single
  <2>3. IsFiniteSet(abs) /\ Cardinality(abs) = Cardinality(Keys)
    BY <2>1, <2>2, FS_Surjection
  <2> QED BY <1>1, <2>2, <2>3
<1>7. Closed(Size, 1 .. Size, id)
  BY <1>1 DEF Closed
<1>5. Sets(Size, 1 .. Size, id, 0, abs, id, depth, 0)
  <2> HIDE DEF id, depth
  <2> QED BY <1>1, <1>2, <1>3, <1>4, <1>7 DEF Sets
<1>6. rep = [parent |-> id, edges |-> 0]
  OBVIOUS
<1> HIDE DEF id, depth
<1> QED BY <1>5, <1>6 DEF DsuInd

\* A new DisjointSet has no nodes.
LEMMA DisjointSetStart ==
  ASSUME rep = [parent |-> << >>, rank |-> << >>, edges |-> 0], abs = {}
  PROVE  DisjointSetInd
<1>1. 1 .. 0 = {}
  OBVIOUS
<1>2. << >> \in [{} -> {}] /\ << >> \in [{} -> 0 .. 0] /\ << >> \in [{} -> Nat]
  OBVIOUS
<1>3. Forest(1 .. 0, << >>, << >>, << >>, 0)
  BY <1>1, <1>2 DEF Forest
<1>4. abs = Parts(1 .. 0, << >>)
  BY <1>1 DEF Parts
<1>5. IsFiniteSet(abs) /\ 0 = Cardinality({}) - Cardinality(abs)
  BY FS_EmptySet
<1>8. Closed(0, {}, << >>)
  BY <1>1, <1>2 DEF Closed
<1>6. Sets(0, {}, << >>, 0, abs, << >>, << >>, 0)
  BY <1>1, <1>3, <1>4, <1>5, <1>8 DEF Sets
<1>7. << >> \in [1 .. 0 -> Nat] /\ Ranked({}, << >>, << >>, << >>)
  BY <1>1, <1>2 DEF Ranked
<1> QED BY <1>6, <1>7 DEF DisjointSetInd

\* DSU::merge: one root, or the roots joined.
LEMMA DsuStep ==
  ASSUME DsuInd, NEW x \in Keys, NEW y \in Keys, DSUMerge(x, y)
  PROVE  DsuInd' /\ AnswerRight'
<1>1. PICK parent, edges, root, depth, N :
        /\ rep = [parent |-> parent, edges |-> edges]
        /\ Sets(Size, 1 .. Size, parent, edges, abs, root, depth, N)
  BY DEF DsuInd
<1>2. PICK p : p = Find(Find(parent, x), y)
  OBVIOUS
<1>3. x \in 1 .. Size /\ y \in 1 .. Size
  BY DEF Keys
<1>4. N \in Nat /\ Forest(1 .. Size, parent, root, depth, N)
  BY <1>1 DEF Sets
<1>5. p[x] = root[x] /\ p[y] = root[y]
  <2>1. Compressed(1 .. Size, parent, root, x, p) /\ Compressed(1 .. Size, parent, root, y, p)
    BY <1>2, <1>3, <1>4, FindBoth, Zenon
  <2> QED BY <2>1 DEF Compressed
<1>6. rep.parent = parent /\ rep.edges = edges
  BY <1>1
<1>7. root \in [1 .. Size -> 1 .. Size] /\ abs = Parts(1 .. Size, root)
  BY <1>1, <1>4 DEF Sets, Forest
<1>8. PICK A : A = Part(1 .. Size, root, root[x])
  OBVIOUS
<1>9. PICK B : B = Part(1 .. Size, root, root[y])
  OBVIOUS
<1>10. Block(x) = A /\ Block(y) = B
  BY <1>3, <1>7, <1>8, <1>9, BlockIsPart
<1>11. A = B <=> root[x] = root[y]
  BY <1>3, <1>7, <1>8, <1>9, SamePart
<1>12. /\ rep' = IF p[x] = p[y] THEN [rep EXCEPT !.parent = p]
                 ELSE [rep EXCEPT !.parent = [p EXCEPT ![p[x]] = p[y]], !.edges = edges + 1]
       /\ answer' = <<p[x] = p[y], Block(x) = Block(y)>>
       /\ abs' = IF Block(x) = Block(y) THEN abs
                 ELSE (abs \ {Block(x), Block(y)}) \cup {Block(x) \cup Block(y)}
  BY <1>2, <1>6 DEF DSUMerge, Joined
<1>13. AnswerRight'
  BY <1>5, <1>10, <1>11, <1>12 DEF AnswerRight
<1>14. CASE root[x] = root[y]
  <2>1. rep' = [parent |-> p, edges |-> edges] /\ abs' = abs
    BY <1>1, <1>5, <1>10, <1>11, <1>12, <1>14
  <2>2. Sets(Size, 1 .. Size, p, edges, abs, root, depth, N)
    BY <1>1, <1>2, <1>3, SetsFound
  <2> QED BY <1>13, <2>1, <2>2 DEF DsuInd
<1>15. CASE root[x] # root[y]
  <2>1. PICK q : q = [p EXCEPT ![root[x]] = root[y]]
    OBVIOUS
  <2>2. rep' = [parent |-> q, edges |-> edges + 1]
    BY <1>1, <1>5, <1>12, <1>15, <2>1
  <2>3. abs' = (abs \ {A, B}) \cup {A \cup B}
    BY <1>10, <1>11, <1>12, <1>15
  <2>4. PICK d, M : Sets(Size, 1 .. Size, q, edges + 1, (abs \ {A, B}) \cup {A \cup B},
                         JoinedRoot(1 .. Size, root, root[x], root[y]), d, M)
    BY <1>1, <1>2, <1>3, <1>8, <1>9, <1>15, <2>1, SetsMerged
  <2> QED BY <1>13, <2>2, <2>3, <2>4 DEF DsuInd
<1> QED BY <1>14, <1>15

\* Merge of DisjointSet, and the answer of it.
LEMMA DisjointSetStep ==
  ASSUME DisjointSetInd, NEW x \in Keys, NEW y \in Keys, DisjointSetMerge(x, y)
  PROVE  DisjointSetInd' /\ AnswerRight'
<1>1. PICK n, M, parent, rank, edges, root, depth, N :
        /\ rep = [parent |-> parent, rank |-> rank, edges |-> edges]
        /\ Sets(n, M, parent, edges, abs, root, depth, N)
        /\ rank \in [1 .. n -> Nat] /\ Ranked(M, parent, root, rank)
  BY DEF DisjointSetInd
<1>2. PICK p : p = Find(Find(parent, x), y)
  OBVIOUS
<1>4. /\ n \in Nat /\ N \in Nat /\ Forest(1 .. n, parent, root, depth, N)
      /\ M \subseteq 1 .. n /\ Closed(n, M, parent) /\ Closed(n, M, root) /\ abs = Parts(M, root)
  BY <1>1 DEF Sets
<1>6. rep.parent = parent /\ rep.edges = edges /\ rep.rank = rank
  BY <1>1
<1>3. x \in M /\ y \in M /\ x \in 1 .. n /\ y \in 1 .. n
  <2>1. {x, y} \subseteq Made
    BY DEF DisjointSetMerge
  <2>2. Made = M
    BY <1>4, MadeAre
  <2> QED BY <1>4, <2>1, <2>2
<1>5. /\ p[x] = root[x] /\ p[y] = root[y] /\ Forest(1 .. n, p, root, depth, N)
      /\ \A z \in 1 .. n : p[z] = parent[z] \/ p[z] = root[z]
  <2>1. /\ Forest(1 .. n, p, root, depth, N)
        /\ Compressed(1 .. n, parent, root, x, p) /\ Compressed(1 .. n, parent, root, y, p)
    BY <1>2, <1>3, <1>4, FindBoth, Zenon
  <2> QED BY <2>1 DEF Compressed
<1>7. root \in [1 .. n -> 1 .. n] /\ root[x] \in M /\ root[y] \in M
  BY <1>3, <1>4 DEF Forest, Closed
<1>8. PICK A : A = Part(M, root, root[x])
  OBVIOUS
<1>9. PICK B : B = Part(M, root, root[y])
  OBVIOUS
<1>10. Block(x) = A /\ Block(y) = B
  BY <1>3, <1>4, <1>8, <1>9, BlockIsPart
<1>11. A = B <=> root[x] = root[y]
  BY <1>3, <1>8, <1>9, SamePart
<1>16. PICK large : large = IF rank[p[x]] < rank[p[y]] THEN p[y] ELSE p[x]
  OBVIOUS
<1>17. PICK small : small = IF large = p[x] THEN p[y] ELSE p[x]
  OBVIOUS
<1>12. /\ rep' = IF p[x] = p[y] THEN [rep EXCEPT !.parent = p]
                 ELSE [parent |-> [p EXCEPT ![small] = large],
                       rank |-> [rank EXCEPT ![large] = @ + 1],
                       edges |-> edges + 1]
       /\ answer' = <<p[x] = p[y], Block(x) = Block(y)>>
       /\ abs' = IF Block(x) = Block(y) THEN abs
                 ELSE (abs \ {Block(x), Block(y)}) \cup {Block(x) \cup Block(y)}
  BY <1>2, <1>6, <1>16, <1>17 DEF DisjointSetMerge, Joined
<1>13. AnswerRight'
  BY <1>5, <1>10, <1>11, <1>12 DEF AnswerRight
<1>19. Closed(n, M, p)
  BY <1>2, <1>3, <1>4, FindKeepsClosed, Zenon
<1>18. Ranked(M, p, root, rank)
  BY <1>1, <1>4, <1>5, RankedFound
<1>14. CASE root[x] = root[y]
  <2>1. rep' = [parent |-> p, rank |-> rank, edges |-> edges] /\ abs' = abs
    BY <1>1, <1>5, <1>10, <1>11, <1>12, <1>14
  <2>2. Sets(n, M, p, edges, abs, root, depth, N)
    BY <1>1, <1>2, <1>3, SetsFound
  <2> QED BY <1>1, <1>13, <1>18, <2>1, <2>2 DEF DisjointSetInd
<1>15. CASE root[x] # root[y]
  <2>1. PICK q : q = [p EXCEPT ![small] = large]
    OBVIOUS
  <2>9. PICK k : k = [rank EXCEPT ![large] = @ + 1]
    OBVIOUS
  <2>2. rep' = [parent |-> q, rank |-> k, edges |-> edges + 1]
    BY <1>1, <1>5, <1>12, <1>15, <2>1, <2>9
  <2>3. abs' = (abs \ {A, B}) \cup {A \cup B}
    BY <1>10, <1>11, <1>12, <1>15
  <2>5. \/ small = root[x] /\ large = root[y]
        \/ small = root[y] /\ large = root[x]
    BY <1>5, <1>15, <1>16, <1>17
  <2>4. PICK d, O : Sets(n, M, q, edges + 1, (abs \ {A, B}) \cup {A \cup B},
                         JoinedRoot(1 .. n, root, small, large), d, O)
    BY <1>1, <1>2, <1>3, <1>8, <1>9, <1>15, <2>1, <2>5, SetsMerged, ZenonT(60)
  <2>6. /\ small \in M /\ large \in M /\ p[small] = small /\ p[large] = large
        /\ small # large
    BY <1>3, <1>4, <1>5, <1>7, <1>15, <2>5 DEF Forest
  <2>7. ~(rank[large] < rank[small])
    <3>1. rank[small] \in Nat /\ rank[large] \in Nat
      BY <1>18, <2>6 DEF Ranked
    <3> QED BY <1>5, <1>15, <1>16, <1>17, <3>1
  <2>10. IsFiniteSet(M) /\ \A z \in M : p[z] \in M /\ root[z] \in M
    <3>1. IsFiniteSet(1 .. n)
      BY <1>4, FS_Interval
    <3> QED BY <1>4, <1>19, <3>1, FS_Subset DEF Closed
  <2>11. rank \in [1 .. n -> Nat] /\ k \in [1 .. n -> Nat]
    BY <1>1, <1>4, <2>6, <2>9
  <2>8. Ranked(M, q, JoinedRoot(1 .. n, root, small, large), k)
    BY <1>4, <1>5, <1>18, <2>1, <2>6, <2>7, <2>9, <2>10, <2>11, RankedMerged
  <2> QED BY <1>13, <2>2, <2>3, <2>4, <2>8, <2>11 DEF DisjointSetInd
<1> QED BY <1>14, <1>15

\* MakeSet: a node that is a set of its own, in front of which gaps may appear.
\* The tables grow to n2; r1 is the root that a gap, a child of the node 1, has.
Grown(n, n2, node, root, depth, N, r1, root2, depth2) ==
  /\ n2 = (IF node <= n THEN n ELSE node)
  /\ r1 = (IF n = 0 THEN 1 ELSE root[1])
  /\ root2 = [k \in 1 .. n2 |-> IF k = node THEN node ELSE IF k <= n THEN root[k] ELSE r1]
  /\ depth2 = [k \in 1 .. n2 |-> IF k <= n THEN depth[k]
                                 ELSE IF k = 1 \/ k = node THEN 0 ELSE N + 1]

\* The parents that MakeSet leaves.
NewParents(n, n2, node, parent, parent2) ==
  parent2 = [k \in 1 .. n2 |-> IF k = node THEN node ELSE IF k <= n THEN parent[k] ELSE 1]

\* The forest has grown to n2 and has the node, and is as before on the nodes M.
HasGrown(n2, M, node, parent, root, parent2, root2, depth2, N2) ==
  /\ n2 \in Nat /\ Forest(1 .. n2, parent2, root2, depth2, N2) /\ M \cup {node} \subseteq 1 .. n2
  /\ Closed(n2, M \cup {node}, parent2) /\ Closed(n2, M \cup {node}, root2)
  /\ \A k \in M : root2[k] = root[k] /\ parent2[k] = parent[k]

\* A forest that may grow by the node.
MayGrow(n, M, parent, root, depth, N, node) ==
  /\ n \in Nat /\ M \subseteq 1 .. n /\ N \in Nat /\ Forest(1 .. n, parent, root, depth, N)
  /\ Closed(n, M, parent) /\ Closed(n, M, root) /\ node \in Nat \ {0} /\ node \notin M

\* The forest with the node, and with the gaps in front of it, if any.
LEMMA ForestGrown ==
  ASSUME NEW n, NEW M, NEW parent, NEW root, NEW depth, NEW N, NEW node,
         MayGrow(n, M, parent, root, depth, N, node), NEW n2, NEW r1, NEW root2, NEW depth2, NEW parent2,
         Grown(n, n2, node, root, depth, N, r1, root2, depth2),
         NewParents(n, n2, node, parent, parent2)
  PROVE  HasGrown(n2, M, node, parent, root, parent2, root2, depth2, N + 1)
<1> USE DEF MayGrow
<1> DEFINE D == 1 .. n2
<1>1. n2 \in Nat /\ n <= n2 /\ node <= n2 /\ node \in D /\ 1 \in D /\ \A k \in 1 .. n : k \in D
  BY DEF Grown
<1>2. /\ parent \in [1 .. n -> 1 .. n] /\ root \in [1 .. n -> 1 .. n] /\ depth \in [1 .. n -> 0 .. N]
      /\ \A x \in 1 .. n : /\ parent[root[x]] = root[x] /\ root[parent[x]] = root[x]
                           /\ parent[x] = x => root[x] = x
                           /\ parent[x] # x => depth[parent[x]] < depth[x] /\ depth[root[x]] < depth[x]
  BY DEF Forest
<1>3. \A k \in D : k \in 1 .. n \/ (~(k <= n) /\ k # 0)
  OBVIOUS
\* Where the node was a gap, nothing was below it, unless it is the node 1.
<1>4. /\ \A x \in 1 .. n : parent[x] # node \/ node = 1
      /\ \A x \in 1 .. n : root[x] # node \/ node = 1
      /\ node = 1 => n = 0 \/ (root[1] = 1 /\ parent[1] = 1)
  BY DEF Closed
<1>5. /\ r1 \in D /\ (node = 1 => r1 = 1) /\ (n = 0 => r1 = 1) /\ (n # 0 => r1 \in 1 .. n /\ r1 = root[1])
      /\ r1 \in M \cup {1} /\ (n # 0 => 1 \in 1 .. n)
  <2>1. CASE n = 0
    <3>1. r1 = 1
      BY <2>1 DEF Grown
    <3> QED BY <1>1, <2>1, <3>1
  <2>2. CASE n # 0
    <3>1. 1 \in 1 .. n /\ r1 = root[1]
      BY <2>2 DEF Grown
    <3>2. root[1] \in 1 .. n /\ root[1] \in M \cup {1}
      BY <1>2, <3>1 DEF Closed
    <3> QED BY <1>1, <1>4, <2>2, <3>1, <3>2
  <2> QED BY <2>1, <2>2
\* On the old nodes the functions are as before, but at the node itself.
<1>6. /\ \A k \in 1 .. n : k # node => parent2[k] = parent[k] /\ root2[k] = root[k]
      /\ \A k \in 1 .. n : depth2[k] = depth[k]
      /\ parent2[node] = node /\ root2[node] = node
  <2>1. \A k \in 1 .. n : k <= n /\ k \in D
    BY <1>1
  <2> HIDE DEF D
  <2> QED BY <1>1, <2>1 DEF Grown, NewParents, D
<1>7. \A k \in D : ~(k <= n) /\ k # node =>
                     /\ parent2[k] = 1 /\ root2[k] = r1
                     /\ depth2[k] = IF k = 1 THEN 0 ELSE N + 1
  BY DEF Grown, NewParents
<1>8. node = 1 => \A k \in 1 .. n : parent2[k] = parent[k] /\ root2[k] = root[k]
  <2> SUFFICES ASSUME node = 1, NEW k \in 1 .. n PROVE parent2[k] = parent[k] /\ root2[k] = root[k]
    OBVIOUS
  <2>1. n # 0
    OBVIOUS
  <2>2. CASE k = 1
    BY <1>4, <1>6, <2>1, <2>2
  <2>3. CASE k # 1
    BY <1>6, <2>3
  <2> QED BY <2>2, <2>3
<1>9. parent2 \in [D -> D] /\ root2 \in [D -> D] /\ depth2 \in [D -> 0 .. N + 1]
  <2>1. ASSUME NEW k \in D PROVE parent2[k] \in D /\ root2[k] \in D /\ depth2[k] \in 0 .. N + 1
    <3>1. CASE k \in 1 .. n
      <4>1. parent[k] \in D /\ root[k] \in D /\ depth[k] \in 0 .. N
        BY <1>1, <1>2, <3>1
      <4>2. depth[k] \in 0 .. N + 1
        BY <4>1
      <4> QED BY <1>1, <1>6, <3>1, <4>1, <4>2
    <3>2. CASE ~(k <= n)
      <4>1. CASE k = node
        <5>1. depth2[k] = 0
          BY <3>2, <4>1 DEF Grown
        <5> QED BY <1>1, <1>6, <4>1, <5>1
      <4>2. CASE k # node
        BY <1>1, <1>5, <1>7, <3>2, <4>2
      <4> QED BY <4>1, <4>2
    <3> QED BY <1>3, <3>1, <3>2
  <2>2. /\ parent2 = [k \in D |-> parent2[k]] /\ root2 = [k \in D |-> root2[k]]
        /\ depth2 = [k \in D |-> depth2[k]]
    BY DEF Grown, NewParents
  <2> HIDE DEF D
  <2> QED BY <2>1, <2>2
<1>10. Forest(D, parent2, root2, depth2, N + 1)
  <2> SUFFICES ASSUME NEW z \in D
               PROVE  /\ parent2[root2[z]] = root2[z] /\ root2[parent2[z]] = root2[z]
                      /\ parent2[z] = z => root2[z] = z
                      /\ parent2[z] # z => depth2[parent2[z]] < depth2[z] /\ depth2[root2[z]] < depth2[z]
    BY <1>9 DEF Forest
  <2>1. CASE z = node
    BY <1>6, <2>1
  <2>2. CASE z \in 1 .. n /\ z # node
    <3>1. parent[z] \in 1 .. n /\ root[z] \in 1 .. n
      BY <1>2, <2>2
    <3>2. parent2[z] = parent[z] /\ root2[z] = root[z]
      BY <1>6, <2>2
    <3>3. parent2[root[z]] = parent[root[z]] /\ root2[parent[z]] = root[parent[z]]
      BY <1>4, <1>6, <1>8, <2>2, <3>1
    <3>4. depth2[z] = depth[z] /\ depth2[parent[z]] = depth[parent[z]] /\ depth2[root[z]] = depth[root[z]]
      BY <1>6, <2>2, <3>1
    <3> QED BY <1>2, <2>2, <3>2, <3>3, <3>4
  <2>3. CASE ~(z <= n) /\ z # node
    <3>1. parent2[z] = 1 /\ root2[z] = r1 /\ depth2[z] = IF z = 1 THEN 0 ELSE N + 1
      BY <1>7, <2>3
    <3>2. root2[1] = r1 /\ parent2[r1] = r1 /\ depth2[1] < N + 1 /\ depth2[r1] < N + 1
          /\ (z = 1 => r1 = 1)
      <4>1. CASE n = 0
        <5>1. r1 = 1 /\ ~(1 <= n)
          BY <1>5, <4>1
        <5>2. parent2[1] = 1 /\ root2[1] = 1
          BY <1>1, <1>6, <1>7, <5>1
        <5>3. depth2[1] = 0
          BY <1>1, <5>1 DEF Grown
        <5> QED BY <5>1, <5>2, <5>3
      <4>2. CASE n # 0
        <5>1. 1 \in 1 .. n /\ r1 \in 1 .. n /\ r1 = root[1]
          BY <1>5, <4>2
        <5>2. parent[r1] = r1
          BY <1>2, <5>1
        <5>3. parent2[r1] = r1
          BY <1>6, <1>8, <5>1, <5>2
        <5>4. root2[1] = r1
          BY <1>6, <1>8, <5>1
        <5>5. depth2[1] \in 0 .. N /\ depth2[r1] \in 0 .. N
          BY <1>2, <1>6, <5>1
        <5> QED BY <2>3, <5>1, <5>3, <5>4, <5>5
      <4> QED BY <4>1, <4>2
    <3> QED BY <3>1, <3>2
  <2> QED BY <1>3, <2>1, <2>2, <2>3
<1>11. /\ M \cup {node} \subseteq D
       /\ \A k \in M : k \in 1 .. n /\ k # node /\ root2[k] = root[k] /\ parent2[k] = parent[k]
  BY <1>1, <1>6
<1>12. 1 \in M \cup {node} \/ n2 = 0 \/ (parent2[1] = 1 /\ root2[1] = 1)
  <2> SUFFICES ASSUME 1 \notin M, node # 1 PROVE parent2[1] = 1 /\ root2[1] = 1
    OBVIOUS
  <2>1. CASE n = 0
    BY <1>1, <1>5, <1>7, <2>1
  <2>2. CASE n # 0
    <3>1. 1 \in 1 .. n /\ parent[1] = 1 /\ root[1] = 1
      BY <2>2 DEF Closed
    <3> QED BY <1>6, <3>1
  <2> QED BY <2>1, <2>2
<1>13. ASSUME NEW z \in D PROVE parent2[z] \in (M \cup {node}) \cup {1} /\ root2[z] \in (M \cup {node}) \cup {1}
  <2>1. CASE z = node
    BY <1>6, <2>1
  <2>2. CASE z \in 1 .. n /\ z # node
    BY <1>6, <2>2 DEF Closed
  <2>3. CASE ~(z <= n) /\ z # node
    BY <1>5, <1>7, <2>3
  <2> QED BY <1>3, <2>1, <2>2, <2>3
<1>14. \A k \in M \cup {node} : parent2[k] \in M \cup {node} /\ root2[k] \in M \cup {node}
  BY <1>6, <1>11 DEF Closed
<1>15. Closed(n2, M \cup {node}, parent2) /\ Closed(n2, M \cup {node}, root2)
  BY <1>9, <1>12, <1>13, <1>14 DEF Closed
<1> QED BY <1>1, <1>10, <1>11, <1>15 DEF HasGrown

\* A node that is made is a block of its own.
Alone(M, node, root, root2) ==
  /\ node \notin M /\ \A x \in M : root[x] \in M
  /\ root2[node] = node /\ \A x \in M : root2[x] = root[x]

AnotherPart(M, node, root, root2) ==
  /\ Parts(M \cup {node}, root2) = Parts(M, root) \cup {{node}}
  /\ {node} \notin Parts(M, root)
  /\ Part(M \cup {node}, root2, node) = {node}
  /\ \A r \in M : Part(M \cup {node}, root2, r) = Part(M, root, r)

\* With the node there is one more block, and the others are as before.
LEMMA PartMade ==
  ASSUME NEW M, NEW root, NEW node, NEW root2, Alone(M, node, root, root2)
  PROVE  AnotherPart(M, node, root, root2)
<1> USE DEF Alone
<1> DEFINE D == M \cup {node}
<1>1. \A r \in M : Part(D, root2, r) = Part(M, root, r)
  <2> SUFFICES ASSUME NEW r \in M PROVE Part(D, root2, r) = Part(M, root, r)
    OBVIOUS
  <2>1. ASSUME NEW y PROVE y \in Part(D, root2, r) <=> y \in Part(M, root, r)
    BY DEF Part
  <2> QED BY <2>1
<1>2. Part(D, root2, node) = {node}
  BY DEF Part
<1>3. ASSUME NEW E \in Parts(D, root2) PROVE E \in Parts(M, root) \cup {{node}}
  <2>1. PICK k \in D : E = Part(D, root2, root2[k])
    BY DEF Parts
  <2>2. CASE k = node
    BY <1>2, <2>1, <2>2
  <2>3. CASE k \in M
    <3>1. E = Part(M, root, root[k])
      BY <1>1, <2>1, <2>3
    <3> QED BY <2>3, <3>1 DEF Parts
  <2> QED BY <2>2, <2>3
<1>4. {node} \in Parts(D, root2)
  BY <1>2 DEF Parts
<1>5. ASSUME NEW E \in Parts(M, root) PROVE E \in Parts(D, root2)
  <2>1. PICK k \in M : E = Part(M, root, root[k])
    BY DEF Parts
  <2>2. E = Part(D, root2, root2[k])
    BY <1>1, <2>1
  <2> QED BY <2>2 DEF Parts
<1>6. {node} \notin Parts(M, root)
  <2> SUFFICES ASSUME {node} \in Parts(M, root) PROVE FALSE
    OBVIOUS
  <2>1. PICK k \in M : {node} = Part(M, root, root[k])
    BY DEF Parts
  <2>2. node \in M
    BY <2>1 DEF Part
  <2> QED BY <2>2
<1> QED BY <1>1, <1>2, <1>3, <1>4, <1>5, <1>6 DEF AnotherPart

\* A table that has grown and got the value v at the node.
Table(f, n, n2, node, fill, v) ==
  [k \in 1 .. n2 |-> IF k = node THEN v ELSE IF k <= n THEN f[k] ELSE fill]

\* MakeSet of a node that is not made yet.
LEMMA MakeSetStep ==
  ASSUME DisjointSetInd, NEW node \in Keys, MakeSet(node)
  PROVE  DisjointSetInd' /\ AnswerRight'
<1>1. PICK n, M, parent, rank, edges, root, depth, N :
        /\ rep = [parent |-> parent, rank |-> rank, edges |-> edges]
        /\ Sets(n, M, parent, edges, abs, root, depth, N)
        /\ rank \in [1 .. n -> Nat] /\ Ranked(M, parent, root, rank)
  BY DEF DisjointSetInd
<1>2. /\ n \in Nat /\ N \in Nat /\ Forest(1 .. n, parent, root, depth, N) /\ M \subseteq 1 .. n
      /\ Closed(n, M, parent) /\ Closed(n, M, root)
      /\ abs = Parts(M, root) /\ IsFiniteSet(abs) /\ edges = Cardinality(M) - Cardinality(abs)
  BY <1>1 DEF Sets
<1>3. node \in Nat \ {0} /\ node \notin M
  <2>1. Made = M
    BY <1>2, MadeAre
  <2> QED BY <2>1 DEF MakeSet, Keys
<1>4. PICK n2 : n2 = IF node <= n THEN n ELSE node
  OBVIOUS
<1>5. PICK r1 : r1 = IF n = 0 THEN 1 ELSE root[1]
  OBVIOUS
<1>6. PICK root2 : root2 = [k \in 1 .. n2 |-> IF k = node THEN node ELSE IF k <= n THEN root[k] ELSE r1]
  OBVIOUS
<1>7. PICK depth2 : depth2 = [k \in 1 .. n2 |-> IF k <= n THEN depth[k]
                                                ELSE IF k = 1 \/ k = node THEN 0 ELSE N + 1]
  OBVIOUS
<1>8. PICK parent2 : parent2 = [k \in 1 .. n2 |-> IF k = node THEN node ELSE IF k <= n THEN parent[k] ELSE 1]
  OBVIOUS
<1>9. PICK rank2 : rank2 = [k \in 1 .. n2 |-> IF k = node THEN 0 ELSE IF k <= n THEN rank[k] ELSE 0]
  OBVIOUS
<1>10. Grown(n, n2, node, root, depth, N, r1, root2, depth2) /\ NewParents(n, n2, node, parent, parent2)
  BY <1>4, <1>5, <1>6, <1>7, <1>8 DEF Grown, NewParents
<1>11. /\ n2 \in Nat /\ Forest(1 .. n2, parent2, root2, depth2, N + 1) /\ M \cup {node} \subseteq 1 .. n2
       /\ Closed(n2, M \cup {node}, parent2) /\ Closed(n2, M \cup {node}, root2)
       /\ \A k \in M : root2[k] = root[k] /\ parent2[k] = parent[k]
  <2>1. MayGrow(n, M, parent, root, depth, N, node)
    BY <1>2, <1>3 DEF MayGrow
  <2>2. HasGrown(n2, M, node, parent, root, parent2, root2, depth2, N + 1)
    BY <1>10, <2>1, ForestGrown, Zenon
  <2> QED BY <2>2 DEF HasGrown
<1>12. root2[node] = node /\ parent2[node] = node /\ rank2[node] = 0 /\ rank2 \in [1 .. n2 -> Nat]
       /\ \A k \in M : rank2[k] = rank[k]
  <2>1. node \in 1 .. n2 /\ M \subseteq 1 .. n2
    BY <1>11
  <2>2. \A k \in M : k <= n /\ k # node
    BY <1>2, <1>3
  <2>3. rank2 \in [1 .. n2 -> Nat]
    <3> SUFFICES ASSUME NEW k \in 1 .. n2
                 PROVE  (IF k = node THEN 0 ELSE IF k <= n THEN rank[k] ELSE 0) \in Nat
      BY <1>9
    <3>1. k <= n => k \in 1 .. n
      OBVIOUS
    <3> QED BY <1>1, <3>1
  <2> QED BY <1>6, <1>8, <1>9, <2>1, <2>2, <2>3
<1>13. /\ Parts(M \cup {node}, root2) = abs \cup {{node}} /\ {node} \notin abs
       /\ Part(M \cup {node}, root2, node) = {node}
       /\ \A r \in M : Part(M \cup {node}, root2, r) = Part(M, root, r)
  <2>1. \A x \in M : root[x] \in M
    BY <1>2 DEF Closed
  <2>2. \A x \in M : root2[x] = root[x]
    BY <1>11
  <2>3. Alone(M, node, root, root2)
    BY <1>3, <1>12, <2>1, <2>2 DEF Alone
  <2>4. AnotherPart(M, node, root, root2)
    BY <2>3, PartMade, Zenon
  <2> QED BY <1>2, <2>4 DEF AnotherPart
<1>14. /\ rep' = [parent |-> parent2, rank |-> rank2, edges |-> edges]
       /\ abs' = abs \cup {{node}} /\ answer' = <<0, 0>>
  <2>1. parent \in [1 .. n -> 1 .. n] /\ rank \in [1 .. n -> Nat]
    BY <1>1, <1>2 DEF Forest
  <2>6. Len(parent) = n /\ Len(rank) = n /\ node \in 1 .. n2
    BY <1>2, <1>11, <2>1, FunctionIsSeq
  <2>8. n \in Nat
    BY <1>2
  <2>2. [Resized(parent, n2, 1) EXCEPT ![node] = node] = parent2
    <3>1. [Resized(parent, n2, 1) EXCEPT ![node] = node] = Table(parent, n, n2, node, 1, node)
      BY <2>6, <2>8 DEF Resized, Table
    <3> QED BY <1>8, <3>1 DEF Table
  <2>3. [Resized(rank, n2, 0) EXCEPT ![node] = 0] = rank2
    <3>1. [Resized(rank, n2, 0) EXCEPT ![node] = 0] = Table(rank, n, n2, node, 0, 0)
      BY <2>6, <2>8 DEF Resized, Table
    <3> QED BY <1>9, <3>1 DEF Table
  <2>7. Max({node, Len(parent)}) = n2
    <3>1. node \in Int /\ n \in Int
      BY <1>2, <1>3
    <3>2. \A x \in {node, n} : (\A y \in {node, n} : x >= y) => x = n2
      BY <1>4, <3>1
    <3>3. n2 \in {node, n} /\ \A y \in {node, n} : n2 >= y
      BY <1>4, <3>1
    <3> QED BY <2>6, <3>2, <3>3 DEF Max
  <2>4. rep.parent = parent /\ rep.rank = rank
    BY <1>1
  <2>5. rep' = [rep EXCEPT !.parent = parent2, !.rank = rank2]
    BY <2>2, <2>3, <2>4, <2>7 DEF MakeSet
  <2> QED BY <1>1, <2>5 DEF MakeSet, Agree
<1>15. IsFiniteSet(abs') /\ edges = Cardinality(M \cup {node}) - Cardinality(abs')
  <2>1. Cardinality(abs) \in Nat
    BY <1>2, FS_CardinalityType
  <2>2. IsFiniteSet(abs \cup {{node}}) /\ Cardinality(abs \cup {{node}}) = Cardinality(abs) + 1
    BY <1>2, <1>13, FS_AddElement
  <2>3. IsFiniteSet(M)
    <3>1. IsFiniteSet(1 .. n)
      BY <1>2, FS_Interval
    <3> QED BY <1>2, <3>1, FS_Subset
  <2>4. Cardinality(M) \in Nat /\ Cardinality(M \cup {node}) = Cardinality(M) + 1
    BY <1>3, <2>3, FS_CardinalityType, FS_AddElement
  <2>5. PICK c : c = Cardinality(abs)
    OBVIOUS
  <2>6. PICK m : m = Cardinality(M)
    OBVIOUS
  <2>7. PICK c2 : c2 = Cardinality(abs \cup {{node}})
    OBVIOUS
  <2>8. PICK m2 : m2 = Cardinality(M \cup {node})
    OBVIOUS
  <2>9. c \in Nat /\ m \in Nat /\ c2 = c + 1 /\ m2 = m + 1 /\ edges = m - c
    BY <1>2, <2>1, <2>2, <2>4, <2>5, <2>6, <2>7, <2>8
  <2>10. edges = m2 - c2
    BY <2>9
  <2> QED BY <1>14, <2>2, <2>7, <2>8, <2>10
<1>16. Sets(n2, M \cup {node}, parent2, edges, abs', root2, depth2, N + 1)
  <2>1. N + 1 \in Nat
    BY <1>2
  <2> QED BY <1>11, <1>13, <1>14, <1>15, <2>1 DEF Sets
<1>17. Ranked(M \cup {node}, parent2, root2, rank2)
  <2> SUFFICES ASSUME NEW k \in M \cup {node}
               PROVE  /\ rank2[k] \in Nat
                      /\ IF parent2[k] = k THEN rank2[k] < Cardinality(Part(M \cup {node}, root2, k))
                         ELSE rank2[k] < rank2[parent2[k]] /\ rank2[k] < rank2[root2[k]]
    BY DEF Ranked
  <2>1. CASE k = node
    <3>1. Cardinality({node}) = 1
      BY FS_Singleton
    <3>2. Part(M \cup {node}, root2, k) = {node}
      BY <1>13, <2>1
    <3>3. rank2[k] = 0 /\ parent2[k] = k
      BY <1>12, <2>1
    <3>4. Cardinality(Part(M \cup {node}, root2, k)) = 1
      BY <3>1, <3>2
    <3> QED BY <3>3, <3>4
  <2>2. CASE k \in M
    <3>1. parent[k] \in M /\ root[k] \in M
      BY <1>2, <2>2 DEF Closed
    <3>2. /\ parent2[k] = parent[k] /\ root2[k] = root[k] /\ rank2[k] = rank[k]
          /\ rank2[parent[k]] = rank[parent[k]] /\ rank2[root[k]] = rank[root[k]]
          /\ Part(M \cup {node}, root2, k) = Part(M, root, k)
      BY <1>11, <1>12, <1>13, <2>2, <3>1
    <3>3. /\ rank[k] \in Nat
          /\ IF parent[k] = k THEN rank[k] < Cardinality(Part(M, root, k))
             ELSE rank[k] < rank[parent[k]] /\ rank[k] < rank[root[k]]
      BY <1>1, <2>2 DEF Ranked
    <3> QED BY <3>2, <3>3
  <2> QED BY <2>1, <2>2
<1>18. AnswerRight'
  BY <1>14 DEF AnswerRight
<1> QED BY <1>12, <1>14, <1>16, <1>17, <1>18 DEF DisjointSetInd

------------------------------------------------------------------------------
\* RootOf is the root of a node.
LEMMA FindsRoot ==
  ASSUME NEW D, NEW parent, NEW root, NEW depth, NEW N, N \in Nat,
         Forest(D, parent, root, depth, N), NEW x, x \in D
  PROVE  RootOf(parent, x) = root[x]
<1>1. Find(parent, x)[x] = root[x]
  BY FindCompresses
<1> QED BY <1>1, Zenon DEF RootOf

\* In a forest that has the blocks as its trees, Find finds what SetsRight says.
LEMMA ForestRight ==
  ASSUME NEW n, NEW M, NEW edges, NEW root, NEW depth, NEW N,
         Sets(n, M, rep.parent, rep.edges, abs, root, depth, N)
  PROVE  SetsRight
<1>1. /\ n \in Nat /\ N \in Nat /\ Forest(1 .. n, rep.parent, root, depth, N) /\ M \subseteq 1 .. n
      /\ abs = Parts(M, root) /\ rep.edges = Cardinality(M) - Cardinality(abs)
  BY DEF Sets
<1>2. PICK p : p = rep.parent
  OBVIOUS
<1>3. Forest(1 .. n, p, root, depth, N)
  BY <1>1, <1>2
<1>6. N \in Nat
  BY <1>1, Zenon
<1>4. Made = M
  BY <1>1, MadeAre
<1>5. ASSUME NEW x \in M, NEW y \in M
      PROVE  RootOf(p, x) = RootOf(p, y) <=> Block(x) = Block(y)
  <2>0. x \in 1 .. n /\ y \in 1 .. n
    BY <1>1
  <2>1. ASSUME NEW z, z \in 1 .. n
        PROVE  RootOf(p, z) = root[z]
    <3>1. PICK D : D = 1 .. n
      OBVIOUS
    <3>2. Forest(D, p, root, depth, N)
      BY <1>3, <3>1, Zenon
    <3>3. z \in D
      BY <2>1, <3>1, Zenon
    <3> QED BY <1>6, <3>2, <3>3, FindsRoot, Zenon
  <2>2. Block(x) = Part(M, root, root[x]) /\ Block(y) = Part(M, root, root[y])
    BY <1>1, BlockIsPart
  <2>3. Part(M, root, root[x]) = Part(M, root, root[y]) <=> root[x] = root[y]
    BY SamePart
  <2>4. RootOf(p, x) = root[x] /\ RootOf(p, y) = root[y]
    BY <2>0, <2>1
  <2> QED BY <2>2, <2>3, <2>4
<1> QED BY <1>1, <1>2, <1>4, <1>5 DEF SetsRight

\* What the invariant of DSU says of it.
LEMMA DsuRepresents ==
  ASSUME DsuInd
  PROVE  SetsRight
<1>1. PICK parent, edges, root, depth, N :
        /\ rep = [parent |-> parent, edges |-> edges]
        /\ Sets(Size, 1 .. Size, parent, edges, abs, root, depth, N)
  BY DEF DsuInd
<1>2. Sets(Size, 1 .. Size, rep.parent, rep.edges, abs, root, depth, N)
  BY <1>1
<1> QED BY <1>2, ForestRight

\* What the invariant of DisjointSet says of it.
LEMMA DisjointSetRepresents ==
  ASSUME DisjointSetInd
  PROVE  SetsRight /\ RanksRight
<1>1. PICK n, M, parent, rank, edges, root, depth, N :
        /\ rep = [parent |-> parent, rank |-> rank, edges |-> edges]
        /\ Sets(n, M, parent, edges, abs, root, depth, N)
        /\ rank \in [1 .. n -> Nat] /\ Ranked(M, parent, root, rank)
  BY DEF DisjointSetInd
<1>2. Sets(n, M, rep.parent, rep.edges, abs, root, depth, N)
  BY <1>1
<1>3. SetsRight
  BY <1>2, ForestRight
<1>4. M \subseteq 1 .. n /\ abs = Parts(M, root) /\ \A x \in 1 .. n : parent[x] = x => root[x] = x
  BY <1>1 DEF Sets, Forest
<1>5. ASSUME NEW x \in M
      PROVE  IF parent[x] = x THEN rank[x] < Cardinality(Block(x)) ELSE rank[x] < rank[parent[x]]
  <2>1. Block(x) = Part(M, root, root[x])
    BY <1>4, BlockIsPart
  <2> QED BY <1>1, <1>4, <2>1 DEF Ranked
<1>6. rep.parent = parent /\ rep.rank = rank /\ Made = M
  BY <1>1, <1>4, MadeAre
<1>7. RanksRight
  BY <1>5, <1>6 DEF RanksRight
<1> QED BY <1>3, <1>7

------------------------------------------------------------------------------
\* FenwickTree.  The invariant: every place has the sum of the elements behind
\* its step down and up to itself.

\* The positions of the Fenwick tree.
Places == 1 .. 2 * Size

\* A place is its own depth.
LEMMA PlacesMeasured ==
  Measured(Places, 2 * Size, [x \in Places |-> x])
BY StructuresAssumption DEF Measured, Places

\* A fact about the depth of places is one about the places.
LEMMA PlaceInduction ==
  ASSUME NEW S, \A y \in Places : (\A z \in Places : z < y => z \in S) => y \in S
  PROVE  Places \subseteq S
<1> DEFINE depth == [x \in Places |-> x]
<1>1. \A y \in Places : depth[y] = y
  OBVIOUS
<1>2. Measured(Places, 2 * Size, depth)
  BY PlacesMeasured
<1> HIDE DEF depth
<1>3. Inductive(Places, depth, S)
  BY <1>1 DEF Inductive
<1> QED BY <1>2, <1>3, DepthInduction, Zenon

\* The half of an even place is a smaller place.
LEMMA Halves ==
  ASSUME NEW x \in Places
  PROVE  /\ x \in Nat \ {0} /\ x <= 2 * Size
         /\ x % 2 = 1 \/ /\ x % 2 = 0 /\ x \div 2 \in Places /\ x = 2 * (x \div 2)
                         /\ x \div 2 < x
BY StructuresAssumption DEF Places

\* lowbit satisfies the equation it is defined by.
LEMMA LowbitIs ==
  /\ lowbit \in [Places -> Nat]
  /\ \A x \in Places : lowbit[x] = IF x % 2 = 1 THEN 1 ELSE 2 * lowbit[x \div 2]
<1> DEFINE parent == [x \in Places |-> IF x % 2 = 1 THEN x ELSE x \div 2]
           depth == [x \in Places |-> x]
           base == [x \in Places |-> 1]
           G == [x \in Places |-> [v \in Nat |-> 2 * v]]
           Low(f, x) == IF x % 2 = 1 THEN 1 ELSE 2 * f[x \div 2]
<1>1. parent \in [Places -> Places]
  BY Halves
<1>2. Descending(Places, depth, parent)
  <2>1. ASSUME NEW x \in Places, parent[x] # x PROVE depth[parent[x]] < depth[x]
    <3>1. parent[x] = x \div 2 /\ parent[x] \in Places /\ x \div 2 < x
      BY <1>1, <2>1, Halves
    <3> QED BY <3>1
  <2> HIDE DEF parent, depth
  <2> QED BY <1>1, <2>1 DEF Descending
<1>3. Measured(Places, 2 * Size, depth)
  BY PlacesMeasured
<1>4. base \in [Places -> Nat] /\ G \in [Places -> [Nat -> Nat]]
  OBVIOUS
<1>5. PICK g \in [Places -> Nat] :
        \A x \in Places : g[x] = IF parent[x] = x THEN base[x] ELSE G[x][g[parent[x]]]
  <2> HIDE DEF parent, depth, base, G
  <2>1. Recursion(Places, Nat, parent, base, G)
    BY <1>2, <1>3, <1>4, RecursionExists, Zenon
  <2> QED BY <2>1, Zenon DEF Recursion
<1>6. \A x \in Places : g[x] = Low(g, x)
  <2> SUFFICES ASSUME NEW x \in Places PROVE g[x] = Low(g, x)
    OBVIOUS
  <2>1. CASE x % 2 = 1
    <3>1. parent[x] = x /\ base[x] = 1
      BY <2>1
    <3> HIDE DEF parent, base, G
    <3> QED BY <1>5, <2>1, <3>1
  <2>2. CASE x % 2 # 1
    <3>1. parent[x] = x \div 2 /\ x \div 2 \in Places /\ x \div 2 < x /\ x \in Nat
      BY <2>2, Halves
    <3>2. parent[x] # x
      BY <3>1 DEF Places
    <3>3. PICK v \in Nat : v = g[x \div 2]
      BY <3>1
    <3>4. G[x][v] = 2 * v
      OBVIOUS
    <3> HIDE DEF parent, base, G
    <3> QED BY <1>5, <2>2, <3>1, <3>2, <3>3, <3>4
  <2> QED BY <2>1, <2>2
<1>7. g = [x \in Places |-> Low(g, x)]
  <2> HIDE DEF Low
  <2> QED BY <1>5, <1>6
<1>8. lowbit = CHOOSE h : h = [x \in Places |-> Low(h, x)]
  BY DEF lowbit, Places
<1>9. lowbit = [x \in Places |-> Low(lowbit, x)]
  <2> HIDE DEF Low
  <2> QED BY <1>7, <1>8, Zenon
<1>10. \A x \in Places : lowbit[x] = Low(lowbit, x)
  <2> HIDE DEF Low
  <2> QED BY <1>9, Zenon
<1> DEFINE Known == {x \in Places : lowbit[x] \in Nat}
<1>11. ASSUME NEW y \in Places, \A z \in Places : z < y => z \in Known PROVE y \in Known
  <2>1. CASE y % 2 = 1
    BY <1>10, <2>1
  <2>2. CASE y % 2 # 1
    <3>1. y \div 2 \in Places /\ y \div 2 < y
      BY <2>2, Halves
    <3>2. lowbit[y \div 2] \in Nat
      BY <1>11, <3>1
    <3>3. lowbit[y] = 2 * lowbit[y \div 2]
      BY <1>10, <2>2
    <3> QED BY <3>2, <3>3
  <2> QED BY <2>1, <2>2
<1>12. Places \subseteq Known
  <2> HIDE DEF Known
  <2> QED BY <1>11, PlaceInduction, Zenon
<1>13. lowbit \in [Places -> Nat]
  BY <1>9, <1>12
<1> QED BY <1>10, <1>13

\* The lowest bit of a place is no more than the place.
LEMMA LowbitBounds ==
  \A x \in Places : lowbit[x] \in 1 .. x
<1> DEFINE Known == {x \in Places : lowbit[x] \in 1 .. x}
<1>1. ASSUME NEW y \in Places, \A z \in Places : z < y => z \in Known PROVE y \in Known
  <2>0. y \in Nat \ {0}
    BY Halves
  <2>1. CASE y % 2 = 1
    BY <2>0, <2>1, LowbitIs
  <2>2. CASE y % 2 # 1
    <3>1. PICK h \in Places : h = y \div 2
      BY <2>2, Halves
    <3>2. y = 2 * h /\ h < y /\ h \in Nat
      BY <2>2, <3>1, Halves
    <3>3. lowbit[h] \in 1 .. h
      BY <1>1, <3>2
    <3>4. lowbit[y] = 2 * lowbit[h]
      BY <2>2, <3>1, LowbitIs
    <3> QED BY <3>2, <3>3, <3>4
  <2> QED BY <2>1, <2>2
<1>2. Places \subseteq Known
  <2> HIDE DEF Known
  <2> QED BY <1>1, PlaceInduction, Zenon
<1> QED BY <1>2

\* The places between x and x + lowbit[x] have low bits that do not reach back
\* to x, and the low bit of x + lowbit[x] is at least twice that of x.
LEMMA LowbitBetween ==
  ASSUME NEW x \in Places, NEW j \in Places, x < j, j < x + lowbit[x]
  PROVE  j - lowbit[j] >= x
<1> DEFINE Known == {y \in Places : \A k \in Places : y < k /\ k < y + lowbit[y] => k - lowbit[k] >= y}
<1>1. ASSUME NEW y \in Places, \A z \in Places : z < y => z \in Known PROVE y \in Known
  <2> SUFFICES ASSUME NEW k \in Places, y < k, k < y + lowbit[y] PROVE k - lowbit[k] >= y
    OBVIOUS
  <2>0. y \in Nat \ {0} /\ k \in Nat
    BY Halves
  <2>1. CASE y % 2 = 1
    <3>1. lowbit[y] = 1
      BY <2>1, LowbitIs
    <3> QED BY <2>0, <3>1
  <2>2. CASE y % 2 # 1
    <3>1. PICK h \in Places : h = y \div 2
      BY <2>2, Halves
    <3>2. y = 2 * h /\ h < y /\ h \in Nat
      BY <2>2, <3>1, Halves
    <3>3. lowbit[y] = 2 * lowbit[h] /\ lowbit[h] \in Nat
      BY <2>2, <3>1, LowbitIs
    <3>4. CASE k % 2 = 1
      <4>1. lowbit[k] = 1
        BY <3>4, LowbitIs
      <4> QED BY <2>0, <4>1
    <3>5. CASE k % 2 # 1
      <4>1. PICK m \in Places : m = k \div 2
        BY <3>5, Halves
      <4>2. k = 2 * m /\ m \in Nat
        BY <3>5, <4>1, Halves
      <4>3. lowbit[k] = 2 * lowbit[m] /\ lowbit[m] \in Nat
        BY <3>5, <4>1, LowbitIs
      <4>4. h < m /\ m < h + lowbit[h]
        BY <3>2, <3>3, <4>2
      <4>5. m - lowbit[m] >= h
        BY <1>1, <3>2, <4>4
      <4> QED BY <3>2, <4>2, <4>3, <4>5
    <3> QED BY <3>4, <3>5
  <2> QED BY <2>1, <2>2
<1>2. Places \subseteq Known
  <2> HIDE DEF Known
  <2> QED BY <1>1, PlaceInduction, Zenon
<1> QED BY <1>2

\* A step up in Update at least doubles the lowest bit.
LEMMA LowbitDoubles ==
  ASSUME NEW x \in Places, x + lowbit[x] \in Places
  PROVE  lowbit[x + lowbit[x]] >= 2 * lowbit[x]
<1> DEFINE Known == {y \in Places : \A k \in Places : k = y + lowbit[y] => lowbit[k] >= 2 * lowbit[y]}
<1>1. ASSUME NEW y \in Places, \A z \in Places : z < y => z \in Known PROVE y \in Known
  <2> SUFFICES ASSUME NEW k \in Places, k = y + lowbit[y] PROVE lowbit[k] >= 2 * lowbit[y]
    OBVIOUS
  <2>0. y \in Nat \ {0} /\ k \in Nat
    BY Halves
  <2>1. CASE y % 2 = 1
    <3>1. lowbit[y] = 1
      BY <2>1, LowbitIs
    <3>2. k % 2 # 1
      BY <2>0, <2>1, <3>1
    <3>3. PICK m \in Places : m = k \div 2
      BY <3>2, Halves
    <3>4. lowbit[k] = 2 * lowbit[m] /\ lowbit[m] \in Nat
      BY <3>2, <3>3, LowbitIs
    <3>5. lowbit[m] \in 1 .. m /\ m \in Nat
      BY <3>3, LowbitBounds, Halves
    <3> QED BY <3>1, <3>4, <3>5
  <2>2. CASE y % 2 # 1
    <3>1. PICK h \in Places : h = y \div 2
      BY <2>2, Halves
    <3>2. y = 2 * h /\ h < y /\ h \in Nat
      BY <2>2, <3>1, Halves
    <3>3. lowbit[y] = 2 * lowbit[h] /\ lowbit[h] \in Nat
      BY <2>2, <3>1, LowbitIs
    <3>4. k = 2 * (h + lowbit[h])
      BY <3>2, <3>3
    <3>5. k % 2 # 1
      BY <2>0, <3>2, <3>3, <3>4
    <3>6. PICK m \in Places : m = k \div 2
      BY <3>5, Halves
    <3>7. k = 2 * m /\ m \in Nat
      BY <3>5, <3>6, Halves
    <3>8. lowbit[k] = 2 * lowbit[m] /\ lowbit[m] \in Nat
      BY <3>5, <3>6, LowbitIs
    <3>9. m = h + lowbit[h]
      BY <3>2, <3>3, <3>4, <3>7
    <3>10. lowbit[m] >= 2 * lowbit[h]
      BY <1>1, <3>2, <3>9
    <3> QED BY <3>3, <3>8, <3>10
  <2> QED BY <2>1, <2>2
<1>2. Places \subseteq Known
  <2> HIDE DEF Known
  <2> QED BY <1>1, PlaceInduction, Zenon
<1> QED BY <1>2

\* The sums of prefixes satisfy the equation they are defined by.
LEMMA TotalIs ==
  ASSUME NEW n, n \in Nat, NEW e, e \in [1 .. n -> Int]
  PROVE  /\ Total(e, 0) = 0
         /\ \A k \in 1 .. n : Total(e, k) = Total(e, k - 1) + e[k]
         /\ \A k \in 0 .. n : Total(e, k) \in Int
<1> DEFINE D == 0 .. n
           parent == [k \in D |-> IF k = 0 THEN 0 ELSE k - 1]
           depth == [k \in D |-> k]
           base == [k \in D |-> 0]
           G == [k \in D |-> [v \in Int |-> IF k = 0 THEN 0 ELSE v + e[k]]]
           Sum(f, k) == IF k = 0 THEN 0 ELSE f[k - 1] + e[k]
<1>0. Len(e) = n
  BY FunctionIsSeq
<1>1. parent \in [D -> D]
  OBVIOUS
<1>2. Descending(D, depth, parent)
  <2>1. ASSUME NEW k \in D, parent[k] # k PROVE depth[parent[k]] < depth[k]
    <3>1. k # 0 /\ parent[k] = k - 1 /\ k - 1 \in D
      BY <2>1
    <3> QED BY <3>1
  <2> HIDE DEF D, parent, depth
  <2> QED BY <1>1, <2>1 DEF Descending
<1>3. Measured(D, n, depth)
  BY DEF Measured
<1>4. base \in [D -> Int] /\ G \in [D -> [Int -> Int]]
  <2>1. ASSUME NEW k \in D, NEW v \in Int PROVE (IF k = 0 THEN 0 ELSE v + e[k]) \in Int
    <3>1. k # 0 => k \in 1 .. n
      OBVIOUS
    <3> QED BY <3>1
  <2> QED BY <2>1
<1>5. PICK g \in [D -> Int] :
        \A k \in D : g[k] = IF parent[k] = k THEN base[k] ELSE G[k][g[parent[k]]]
  <2> HIDE DEF D, parent, depth, base, G
  <2>1. Recursion(D, Int, parent, base, G)
    BY <1>2, <1>3, <1>4, RecursionExists, Zenon
  <2> QED BY <2>1, Zenon DEF Recursion
<1>6. ASSUME NEW k \in D PROVE g[k] = Sum(g, k)
  <2>1. CASE k = 0
    <3>1. parent[k] = k /\ base[k] = 0
      BY <2>1
    <3> HIDE DEF D, parent, base, G
    <3> QED BY <1>5, <2>1, <3>1
  <2>2. CASE k # 0
    <3>1. parent[k] = k - 1 /\ parent[k] # k /\ k - 1 \in D
      BY <2>2
    <3>2. PICK v \in Int : v = g[k - 1]
      BY <3>1
    <3>3. G[k][v] = v + e[k]
      BY <2>2
    <3> HIDE DEF D, parent, base, G
    <3> QED BY <1>5, <2>2, <3>1, <3>2, <3>3
  <2> QED BY <2>1, <2>2
<1>7. g = [k \in D |-> Sum(g, k)]
  <2> HIDE DEF Sum, D
  <2> QED BY <1>5, <1>6
<1>8. PICK f : f = CHOOSE h : h = [k \in D |-> Sum(h, k)]
  OBVIOUS
<1>9. f = [k \in D |-> Sum(f, k)]
  <2> HIDE DEF Sum, D
  <2> QED BY <1>7, <1>8, Zenon
<1>10. \A k \in D : f[k] = Sum(f, k)
  <2> HIDE DEF Sum, D
  <2> QED BY <1>9, Zenon
<1>11. \A k : Total(e, k) = f[k]
  BY <1>0, <1>8, Zenon DEF Total
<1>12. Total(e, 0) = 0
  <2>1. 0 \in D
    OBVIOUS
  <2>2. f[0] = 0
    BY <1>10, <2>1
  <2> QED BY <1>11, <2>2
<1>13. ASSUME NEW k \in 1 .. n PROVE Total(e, k) = Total(e, k - 1) + e[k]
  <2>1. k \in D /\ k # 0
    OBVIOUS
  <2>2. f[k] = f[k - 1] + e[k]
    BY <1>10, <2>1
  <2> QED BY <1>11, <2>2
<1> DEFINE Known == {k \in Nat : k <= n => Total(e, k) \in Int}
<1>14. 0 \in Known
  BY <1>12
<1>15. ASSUME NEW k \in Nat, k \in Known PROVE k + 1 \in Known
  <2> SUFFICES ASSUME k + 1 <= n PROVE Total(e, k + 1) \in Int
    OBVIOUS
  <2>1. k + 1 \in 1 .. n /\ (k + 1) - 1 = k /\ k <= n
    OBVIOUS
  <2>2. Total(e, k + 1) = Total(e, k) + e[k + 1]
    BY <1>13, <2>1
  <2>3. Total(e, k) \in Int /\ e[k + 1] \in Int
    BY <1>15, <2>1
  <2> QED BY <2>2, <2>3
<1>16. Nat \subseteq Known
  <2> HIDE DEF Known
  <2> QED BY <1>14, <1>15, NatClosed, Zenon
<1>17. \A k \in 0 .. n : Total(e, k) \in Int
  BY <1>16
<1> QED BY <1>12, <1>13, <1>17

\* The totals from a changed element on.
AddedAt(n, e, i, delta, c) ==
  /\ n \in Nat /\ e \in [1 .. n -> Int] /\ i \in 1 .. n /\ delta \in Int
  /\ c = [e EXCEPT ![i] = @ + delta]

\* An element that changes changes the sums of the prefixes it is in.
LEMMA TotalChanged ==
  ASSUME NEW n, NEW e, NEW i, NEW delta, NEW c, AddedAt(n, e, i, delta, c)
  PROVE  \A k \in 0 .. n : Total(c, k) = Total(e, k) + (IF i <= k THEN delta ELSE 0)
<1> USE DEF AddedAt
<1>1. c \in [1 .. n -> Int] /\ \A k \in 1 .. n : c[k] = IF k = i THEN e[k] + delta ELSE e[k]
  OBVIOUS
<1>2. /\ Total(e, 0) = 0 /\ \A k \in 1 .. n : Total(e, k) = Total(e, k - 1) + e[k]
      /\ \A k \in 0 .. n : Total(e, k) \in Int
  BY TotalIs
<1>3. /\ Total(c, 0) = 0 /\ \A k \in 1 .. n : Total(c, k) = Total(c, k - 1) + c[k]
  BY <1>1, TotalIs
<1> DEFINE Known == {k \in Nat : k <= n => Total(c, k) = Total(e, k) + (IF i <= k THEN delta ELSE 0)}
<1>4. 0 \in Known
  BY <1>2, <1>3
<1>5. ASSUME NEW k \in Nat, k \in Known PROVE k + 1 \in Known
  <2> SUFFICES ASSUME k + 1 <= n
               PROVE  Total(c, k + 1) = Total(e, k + 1) + (IF i <= k + 1 THEN delta ELSE 0)
    OBVIOUS
  <2>1. k + 1 \in 1 .. n /\ (k + 1) - 1 = k /\ k \in 0 .. n
    OBVIOUS
  <2>2. Total(c, k + 1) = Total(c, k) + c[k + 1] /\ Total(e, k + 1) = Total(e, k) + e[k + 1]
    BY <1>2, <1>3, <2>1
  <2>3. PICK v \in Int : v = Total(e, k)
    BY <1>2, <2>1
  <2>4. PICK w \in Int : w = e[k + 1]
    BY <2>1
  <2>5. Total(c, k) = v + (IF i <= k THEN delta ELSE 0)
    BY <1>5, <2>1, <2>3
  <2>6. c[k + 1] = IF k + 1 = i THEN w + delta ELSE w
    BY <1>1, <2>1, <2>4
  <2>7. Total(c, k + 1) = (v + w) + (IF i <= k + 1 THEN delta ELSE 0)
    <3>1. i \in Nat
      OBVIOUS
    <3>2. CASE i <= k
      <4>1. Total(c, k) = v + delta /\ c[k + 1] = w /\ i <= k + 1
        BY <2>5, <2>6, <3>1, <3>2
      <4> QED BY <2>2, <4>1
    <3>3. CASE i = k + 1
      <4>1. Total(c, k) = v /\ c[k + 1] = w + delta /\ i <= k + 1
        BY <2>5, <2>6, <3>1, <3>3
      <4> QED BY <2>2, <4>1
    <3>4. CASE i > k + 1
      <4>1. Total(c, k) = v /\ c[k + 1] = w /\ ~(i <= k + 1)
        BY <2>5, <2>6, <3>1, <3>4
      <4> QED BY <2>2, <4>1
    <3> QED BY <3>1, <3>2, <3>3, <3>4
  <2> QED BY <2>2, <2>3, <2>4, <2>7
<1>6. Nat \subseteq Known
  <2> HIDE DEF Known
  <2> QED BY <1>4, <1>5, NatClosed, Zenon
<1>7. ASSUME NEW k \in 0 .. n
      PROVE  Total(c, k) = Total(e, k) + (IF i <= k THEN delta ELSE 0)
  <2>0. k \in Nat /\ k <= n
    OBVIOUS
  <2>1. k \in Known
    <3> HIDE DEF Known
    <3> QED BY <1>6, <2>0
  <2> QED BY <2>0, <2>1
<1> QED BY <1>7

------------------------------------------------------------------------------
\* Each sum is that of the elements from behind the place below its low bit on.
Covered(sums, e) ==
  /\ sums \in [Places -> Int] /\ e \in [Places -> Int]
  /\ \A j \in Places : sums[j] = Total(e, j) - Total(e, j - lowbit[j])

\* A place covers the elements from behind the place of its step down up to itself.
LEMMA PlacesAre ==
  /\ 2 * Size \in Nat /\ Places = 1 .. 2 * Size
  /\ \A j \in Places : j - lowbit[j] \in 0 .. 2 * Size /\ j \in 0 .. 2 * Size /\ j - lowbit[j] < j
<1>1. 2 * Size \in Nat /\ Places = 1 .. 2 * Size
  BY StructuresAssumption DEF Places
<1> QED BY <1>1, LowbitBounds

\* Query goes down over adjacent ranges and so adds up a prefix.
LEMMA QueryTotals ==
  ASSUME NEW sums, NEW e, Covered(sums, e), NEW i \in 0 .. 2 * Size
  PROVE  Query(sums, i) = Total(e, i)
<1> DEFINE States == [sum : Int, at : Nat]
           body == [q \in States |->
                      IF q.at = 0 THEN q
                      ELSE [sum |-> q.sum + sums[q.at], at |-> q.at - lowbit[q.at]]]
           Good == {q \in States : q.at <= 2 * Size /\ q.sum + Total(e, q.at) = Total(e, i)}
           measure == [q \in Good |-> q.at]
           start == [sum |-> 0, at |-> i]
<1>1. /\ e \in [1 .. 2 * Size -> Int] /\ sums \in [1 .. 2 * Size -> Int] /\ 2 * Size \in Nat
      /\ i \in Nat
  BY PlacesAre DEF Covered
<1>2. Total(e, 0) = 0 /\ \A k \in 0 .. 2 * Size : Total(e, k) \in Int
  BY <1>1, TotalIs
<1>3. start \in Good /\ measure[start] = i
  BY <1>1, <1>2
<1>4. ASSUME NEW q \in Good
      PROVE  /\ body[q] \in Good /\ (body[q] = q \/ measure[body[q]] < measure[q])
             /\ body[q] = q => q.at = 0
  <2>1. q \in States /\ q.at <= 2 * Size /\ q.sum + Total(e, q.at) = Total(e, i)
    OBVIOUS
  <2>2. CASE q.at = 0
    BY <2>2
  <2>3. CASE q.at # 0
    <3>1. PICK j \in Places : j = q.at
      BY <2>1, <2>3, <1>1 DEF Places
    <3>2. PICK l \in 0 .. 2 * Size : l = j - lowbit[j]
      BY PlacesAre
    <3>3. l < j /\ j \in 0 .. 2 * Size
      BY <3>2, PlacesAre
    <3>4. sums[j] = Total(e, j) - Total(e, l)
      BY <3>2 DEF Covered
    <3>5. Total(e, l) \in Int /\ Total(e, j) \in Int /\ q.sum \in Int /\ Total(e, i) \in Int /\ sums[j] \in Int
      BY <1>1, <1>2, <2>1, <3>2, <3>3, <3>4
    <3>6. body[q] = [sum |-> q.sum + sums[j], at |-> l]
      BY <2>1, <2>3, <3>1, <3>2
    <3>7. (q.sum + sums[j]) + Total(e, l) = Total(e, i)
      <4>1. q.sum + Total(e, j) = Total(e, i)
        BY <2>1, <3>1
      <4> QED BY <3>4, <3>5, <4>1
    <3>8. [sum |-> q.sum + sums[j], at |-> l] \in Good
      <4>1. l \in Nat /\ l <= 2 * Size
        BY <1>1, <3>2
      <4> QED BY <3>5, <3>7, <4>1
    <3>9. measure[[sum |-> q.sum + sums[j], at |-> l]] = l
      BY <3>8
    <3>10. measure[q] = j
      BY <3>1
    <3> HIDE DEF body, measure, Good
    <3> QED BY <3>1, <3>3, <3>6, <3>8, <3>9, <3>10 DEF Places
  <2> QED BY <2>2, <2>3
<1>5. Keeps(body, Good) /\ Falls(body, Good, measure)
  <2>1. measure \in [Good -> Nat]
    OBVIOUS
  <2> HIDE DEF body, measure, Good
  <2> QED BY <1>4, <2>1 DEF Keeps, Falls
<1>6. PICK t : t = Loop(body, start, i)
  OBVIOUS
<1>7. t \in Good /\ body[t] = t
  <2> HIDE DEF body, measure, Good, start
  <2>1. measure[start] <= i
    BY <1>1, <1>3
  <2>2. i \in Nat /\ start \in Good
    BY <1>1, <1>3
  <2>3. Ends(body, Good, start, i)
    BY <1>5, <2>1, <2>2, LoopComesToEnd, Zenon
  <2> QED BY <1>6, <2>3, Zenon DEF Ends
<1>8. t.at = 0
  BY <1>4, <1>7
<1>9. t.sum = Total(e, i)
  <2>1. t.sum + Total(e, 0) = Total(e, i) /\ t.sum \in Int
    BY <1>7, <1>8
  <2> QED BY <1>2, <2>1
<1> QED BY <1>6, <1>9, Zenon DEF Query

\* Update adds to the sums that cover the place i, and to no other.
Covers(j, i) == j - lowbit[j] < i /\ i <= j

\* Update changes just the places that cover the element.
LEMMA UpdateCovers ==
  ASSUME NEW sums, sums \in [Places -> Int], NEW i \in Places, NEW delta \in Int
  PROVE  /\ Update(sums, i, delta) \in [Places -> Int]
         /\ \A j \in Places : Update(sums, i, delta)[j] =
                                sums[j] + (IF Covers(j, i) THEN delta ELSE 0)
<1> DEFINE M == 2 * Size
           Have(s, p) == \A j \in Places : s[j] = sums[j] + (IF j < p /\ Covers(j, i) THEN delta ELSE 0)
           States == [sums : Seq(Int), at : Nat]
           body == [u \in States |->
                      IF u.at > Len(u.sums) THEN u
                      ELSE [sums |-> [u.sums EXCEPT ![u.at] = @ + delta],
                            at |-> u.at + lowbit[u.at]]]
           Good == {u \in States : /\ u.sums \in [Places -> Int] /\ i <= u.at
                                   /\ u.at <= M => Covers(u.at, i)
                                   /\ Have(u.sums, u.at)}
           measure == [u \in Good |-> IF u.at > M THEN 0 ELSE M + 1 - u.at]
           start == [sums |-> sums, at |-> i]
<1>1. M \in Nat /\ Places = 1 .. M /\ i \in Nat /\ 1 <= i /\ i <= M
  BY PlacesAre DEF Places
<1>2. \A s \in [Places -> Int] : s \in Seq(Int) /\ Len(s) = M
  <2> HIDE DEF M
  <2> QED BY <1>1, FunctionIsSeq
<1>3. \A j \in Places : lowbit[j] \in Nat /\ lowbit[j] >= 1 /\ lowbit[j] <= j /\ j \in Nat /\ j <= M
  BY <1>1, LowbitBounds
<1>4. start \in Good /\ measure[start] = M + 1 - i
  <2>1. start \in States
    BY <1>1, <1>2
  <2>2. Covers(i, i)
    BY <1>3 DEF Covers
  <2>3. Have(sums, i)
    <3> SUFFICES ASSUME NEW j \in Places, j < i, Covers(j, i) PROVE FALSE
      OBVIOUS
    <3> QED BY <1>3 DEF Covers
  <2> HIDE DEF Have
  <2>4. start \in Good
    BY <1>1, <2>1, <2>2, <2>3
  <2> QED BY <1>1, <2>4
<1>5. ASSUME NEW u \in Good
      PROVE  /\ body[u] \in Good /\ (body[u] = u \/ measure[body[u]] < measure[u])
             /\ body[u] = u => u.at > M
  <2>1. /\ u \in States /\ u.sums \in [Places -> Int] /\ i <= u.at
        /\ u.at <= M => Covers(u.at, i)
        /\ Have(u.sums, u.at)
    OBVIOUS
  <2>2. Len(u.sums) = M
    BY <1>2, <2>1
  <2>3. CASE u.at > M
    BY <2>1, <2>2, <2>3
  <2>4. CASE ~(u.at > M)
    <3>1. PICK p \in Places : p = u.at
      BY <1>1, <2>1, <2>4
    <3>2. PICK s : s = u.sums
      OBVIOUS
    <3>3. s \in [Places -> Int] /\ Have(s, p) /\ i <= p /\ Covers(p, i)
      BY <1>1, <2>1, <2>4, <3>1, <3>2
    <3>4. PICK s2 : s2 = [s EXCEPT ![p] = @ + delta]
      OBVIOUS
    <3>5. PICK q \in Nat : q = p + lowbit[p]
      BY <1>3
    <3>6. s2 \in [Places -> Int] /\ \A j \in Places : s2[j] = IF j = p THEN s[j] + delta ELSE s[j]
      BY <3>3, <3>4
    <3>7. body[u] = [sums |-> s2, at |-> q]
      BY <2>1, <2>2, <2>4, <3>1, <3>2, <3>4, <3>5
    <3>0. PICK l \in Nat : l = lowbit[p]
      BY <1>3
    <3>8. p \in Nat /\ p < q /\ q = p + l /\ p <= M /\ p - l < i
      <4>1. p \in Nat /\ p <= M /\ l >= 1
        BY <1>3, <3>0
      <4>2. q = p + l /\ p - l < i
        BY <3>3, <3>5, <3>0 DEF Covers
      <4>3. p < q
        BY <4>1, <4>2
      <4> QED BY <4>1, <4>2, <4>3
    <3>9. i <= q
      BY <1>1, <3>3, <3>8
    <3>10. ASSUME q <= M PROVE Covers(q, i)
      <4>1. q \in Places
        BY <1>1, <3>8, <3>10
      <4>2. lowbit[q] >= 2 * l
        BY <3>0, <3>5, <4>1, LowbitDoubles
      <4>3. PICK k \in Nat : k = lowbit[q]
        BY <1>3, <4>1
      <4>5. q - k < i
        <5>1. k >= 2 * l /\ i \in Nat /\ q = p + l /\ p - l < i /\ p \in Nat
          BY <1>1, <3>8, <4>2, <4>3
        <5> QED BY <5>1
      <4>4. q - lowbit[q] < i
        BY <4>3, <4>5
      <4> QED BY <3>9, <4>4 DEF Covers
    <3>11. Have(s2, q)
      <4> SUFFICES ASSUME NEW j \in Places
                   PROVE  s2[j] = sums[j] + (IF j < q /\ Covers(j, i) THEN delta ELSE 0)
        OBVIOUS
      <4>1. s[j] = sums[j] + (IF j < p /\ Covers(j, i) THEN delta ELSE 0)
        BY <3>3
      <4>2. j \in Nat /\ sums[j] \in Int /\ lowbit[j] \in Nat
        BY <1>3
      <4>3. CASE j = p
        <5>1. s[j] = sums[j]
          BY <4>1, <4>2, <4>3
        <5>2. j < q /\ Covers(j, i)
          BY <3>3, <3>8, <4>3
        <5> QED BY <3>6, <4>3, <5>1, <5>2
      <4>4. CASE j < p
        <5>1. j < q /\ j # p
          <6>1. p < q /\ p \in Nat /\ j \in Nat
            BY <3>8, <4>2
          <6> QED BY <4>4, <6>1
        <5> QED BY <3>6, <4>1, <4>4, <5>1
      <4>5. CASE p < j
        <5>1. s[j] = sums[j] /\ j # p
          BY <3>8, <4>1, <4>2, <4>5
        <5>2. ~(j < q /\ Covers(j, i))
          <6> SUFFICES ASSUME j < q, Covers(j, i) PROVE FALSE
            OBVIOUS
          <6>1. j - lowbit[j] >= p
            BY <3>5, <4>5, LowbitBetween
          <6>2. j - lowbit[j] < i
            BY DEF Covers
          <6> QED BY <1>1, <3>3, <3>8, <4>2, <6>1, <6>2, SMTT(60)
        <5> QED BY <3>6, <4>2, <5>1, <5>2, SMTT(60)
      <4> QED BY <3>8, <4>2, <4>3, <4>4, <4>5
    <3> HIDE DEF Have
    <3>12. PICK v : v = [sums |-> s2, at |-> q]
      OBVIOUS
    <3>13. v \in Good
      <4>1. v \in States /\ v.sums = s2 /\ v.at = q
        BY <1>2, <3>6, <3>12
      <4> QED BY <3>6, <3>9, <3>10, <3>11, <4>1
    <3>14. measure[v] = IF q > M THEN 0 ELSE M + 1 - q
      BY <3>12, <3>13
    <3>15. measure[u] = M + 1 - p
      BY <2>4, <3>1
    <3>16. measure[v] < measure[u]
      <4> HIDE DEF measure, M
      <4>1. M \in Nat /\ p \in Nat /\ p < q /\ p <= M
        BY <1>1, <3>8
      <4>2. (IF q > M THEN 0 ELSE M + 1 - q) < M + 1 - p
        BY <4>1
      <4> QED BY <3>14, <3>15, <4>2
    <3>17. v # u
      BY <3>1, <3>8, <3>12
    <3> HIDE DEF body, measure, Good
    <3> QED BY <3>7, <3>12, <3>13, <3>16, <3>17, Zenon
  <2> QED BY <2>3, <2>4
<1>6. Keeps(body, Good) /\ Falls(body, Good, measure)
  <2>1. measure \in [Good -> Nat]
    <3> HIDE DEF M
    <3>1. ASSUME NEW u \in Good PROVE (IF u.at > M THEN 0 ELSE M + 1 - u.at) \in Nat
      BY <1>1
    <3> QED BY <3>1
  <2> HIDE DEF body, measure, Good
  <2> QED BY <1>5, <2>1 DEF Keeps, Falls
<1>7. PICK t : t = Loop(body, start, M)
  OBVIOUS
<1>8. t \in Good /\ body[t] = t
  <2> HIDE DEF body, measure, Good, start, M
  <2>1. measure[start] <= M
    BY <1>1, <1>4
  <2>2. M \in Nat /\ start \in Good
    BY <1>1, <1>4
  <2>3. Ends(body, Good, start, M)
    BY <1>6, <2>1, <2>2, LoopComesToEnd, Zenon
  <2> QED BY <1>7, <2>3, Zenon DEF Ends
<1>9. t.at > M
  BY <1>5, <1>8
<1>10. t.sums \in [Places -> Int] /\ Have(t.sums, t.at) /\ t.at \in Nat
  BY <1>8
<1>11. \A j \in Places : t.sums[j] = sums[j] + (IF Covers(j, i) THEN delta ELSE 0)
  <2> SUFFICES ASSUME NEW j \in Places
               PROVE  t.sums[j] = sums[j] + (IF Covers(j, i) THEN delta ELSE 0)
    OBVIOUS
  <2>1. j < t.at
    <3>1. PICK a \in Nat : a = t.at
      BY <1>10
    <3> HIDE DEF M
    <3> QED BY <1>1, <1>3, <1>9, <3>1
  <2> QED BY <1>10, <2>1
<1>12. Len(sums) = M
  BY <1>2
<1>13. Update(sums, i, delta) = t.sums
  BY <1>7, <1>12, Zenon DEF Update
<1> QED BY <1>10, <1>11, <1>13

\* After Update every place has the sum of its range again.
LEMMA UpdateKeepsCovered ==
  ASSUME NEW sums, NEW e, Covered(sums, e), NEW i \in Places, NEW delta \in Int,
         NEW c, c = [e EXCEPT ![i] = @ + delta]
  PROVE  Covered(Update(sums, i, delta), c)
<1>1. /\ sums \in [Places -> Int] /\ e \in [Places -> Int] /\ c \in [Places -> Int]
      /\ \A j \in Places : sums[j] = Total(e, j) - Total(e, j - lowbit[j])
  BY DEF Covered
<1>2. PICK u : u = Update(sums, i, delta)
  OBVIOUS
<1>3. /\ u \in [Places -> Int]
      /\ \A j \in Places : u[j] = sums[j] + (IF Covers(j, i) THEN delta ELSE 0)
  <2>1. sums \in [Places -> Int]
    BY <1>1
  <2>2. /\ Update(sums, i, delta) \in [Places -> Int]
        /\ \A j \in Places : Update(sums, i, delta)[j] =
                               sums[j] + (IF Covers(j, i) THEN delta ELSE 0)
    BY <2>1, UpdateCovers
  <2> QED BY <1>2, <2>2
<1>4. 2 * Size \in Nat /\ e \in [1 .. 2 * Size -> Int] /\ i \in 1 .. 2 * Size
  BY <1>1, PlacesAre
<1>5. \A k \in 0 .. 2 * Size : Total(c, k) = Total(e, k) + (IF i <= k THEN delta ELSE 0)
  <2>1. PICK m : m = 2 * Size
    OBVIOUS
  <2>3. AddedAt(m, e, i, delta, c)
    BY <1>4, <2>1 DEF AddedAt
  <2>2. \A k \in 0 .. m : Total(c, k) = Total(e, k) + (IF i <= k THEN delta ELSE 0)
    BY <2>3, TotalChanged
  <2> QED BY <2>1, <2>2
<1>6. \A k \in 0 .. 2 * Size : Total(e, k) \in Int
  BY <1>4, TotalIs
<1>7. ASSUME NEW j \in Places PROVE u[j] = Total(c, j) - Total(c, j - lowbit[j])
  <2>1. PICK l \in 0 .. 2 * Size : l = j - lowbit[j]
    BY PlacesAre
  <2>2. j \in 0 .. 2 * Size /\ l < j
    BY <2>1, PlacesAre
  <2>3. PICK a \in Int : a = Total(e, j)
    BY <1>6, <2>2
  <2>4. PICK b \in Int : b = Total(e, l)
    BY <1>6, <2>1
  <2>5. u[j] = (a - b) + (IF l < i /\ i <= j THEN delta ELSE 0)
    BY <1>1, <1>3, <2>1, <2>3, <2>4 DEF Covers
  <2>6. Total(c, j) = a + (IF i <= j THEN delta ELSE 0)
    BY <1>5, <2>2, <2>3
  <2>7. Total(c, l) = b + (IF i <= l THEN delta ELSE 0)
    BY <1>5, <2>1, <2>4
  <2>8. i \in Nat /\ l \in Nat /\ j \in Nat
    BY <1>4, <2>1, <2>2
  <2>9. CASE i <= l
    <3>1. Total(c, j) = a + delta /\ Total(c, l) = b + delta /\ u[j] = a - b
      BY <2>2, <2>5, <2>6, <2>7, <2>8, <2>9
    <3> QED BY <2>1, <3>1
  <2>10. CASE l < i /\ i <= j
    <3>1. Total(c, j) = a + delta /\ Total(c, l) = b /\ u[j] = (a - b) + delta
      BY <2>2, <2>5, <2>6, <2>7, <2>8, <2>10
    <3> QED BY <2>1, <3>1
  <2>11. CASE j < i
    <3>1. Total(c, j) = a /\ Total(c, l) = b /\ u[j] = a - b
      BY <2>2, <2>5, <2>6, <2>7, <2>8, <2>11
    <3> QED BY <2>1, <3>1
  <2> QED BY <2>8, <2>9, <2>10, <2>11
<1> QED BY <1>1, <1>2, <1>3, <1>7 DEF Covered

------------------------------------------------------------------------------
FenwickInd == Covered(rep, abs)

\* Every range of a new tree has the sum 0.
LEMMA FenwickStart ==
  ASSUME rep = [k \in 1 .. 2 * Size |-> 0], abs = rep
  PROVE  FenwickInd
<1>1. rep \in [1 .. 2 * Size -> Int] /\ 2 * Size \in Nat /\ Places = 1 .. 2 * Size
  BY PlacesAre
<1>2. PICK e \in [1 .. 2 * Size -> Int] : e = rep /\ \A k \in 1 .. 2 * Size : e[k] = 0
  BY <1>1
<1>3. /\ Total(e, 0) = 0
      /\ \A k \in 1 .. 2 * Size : Total(e, k) = Total(e, k - 1) + e[k]
  BY <1>1, TotalIs
<1> DEFINE Known == {k \in Nat : k <= 2 * Size => Total(e, k) = 0}
<1>4. 0 \in Known
  BY <1>3
<1>5. ASSUME NEW k \in Nat, k \in Known PROVE k + 1 \in Known
  <2> SUFFICES ASSUME k + 1 <= 2 * Size PROVE Total(e, k + 1) = 0
    OBVIOUS
  <2>1. k + 1 \in 1 .. 2 * Size /\ (k + 1) - 1 = k /\ k <= 2 * Size
    BY <1>1
  <2>2. Total(e, k + 1) = Total(e, k) + e[k + 1]
    BY <1>3, <2>1
  <2>3. Total(e, k) = 0 /\ e[k + 1] = 0
    BY <1>2, <1>5, <2>1
  <2> QED BY <2>2, <2>3
<1>6. Nat \subseteq Known
  <2> HIDE DEF Known
  <2> QED BY <1>4, <1>5, NatClosed, Zenon
<1>7. ASSUME NEW j \in Places PROVE e[j] = Total(e, j) - Total(e, j - lowbit[j])
  <2>1. j \in Nat /\ j - lowbit[j] \in Nat /\ j <= 2 * Size /\ j - lowbit[j] <= 2 * Size
    BY PlacesAre
  <2>2. Total(e, j) = 0 /\ Total(e, j - lowbit[j]) = 0
    BY <1>6, <2>1
  <2> QED BY <1>1, <1>2, <2>2
<1> QED BY <1>1, <1>2, <1>7 DEF FenwickInd, Covered

\* Update keeps the invariant.
LEMMA FenwickStep ==
  ASSUME FenwickInd, NEW i \in 1 .. 2 * Size, NEW delta \in {-1, 2}, FenwickUpdate(i, delta)
  PROVE  FenwickInd' /\ AnswerRight'
<1>1. rep' = Update(rep, i, delta) /\ abs' = [abs EXCEPT ![i] = @ + delta] /\ answer' = <<0, 0>>
  BY DEF FenwickUpdate, Agree
<1>2. i \in Places /\ delta \in Int
  BY PlacesAre
<1>3. PICK c : c = [abs EXCEPT ![i] = @ + delta]
  OBVIOUS
<1>4. Covered(Update(rep, i, delta), c)
  BY <1>2, <1>3, UpdateKeepsCovered DEF FenwickInd
<1>5. Covered(rep', abs')
  BY <1>1, <1>3, <1>4, Zenon
<1>6. AnswerRight'
  BY <1>1 DEF AnswerRight
<1> QED BY <1>5, <1>6 DEF FenwickInd

\* What the invariant of the tree says of it.
LEMMA FenwickRepresents ==
  ASSUME FenwickInd
  PROVE  FenwickRight
<1>1. Len(abs) = 2 * Size
  <2>1. abs \in [1 .. 2 * Size -> Int] /\ 2 * Size \in Nat
    BY PlacesAre DEF FenwickInd, Covered
  <2> QED BY <2>1, FunctionIsSeq
<1>2. \A i \in 0 .. 2 * Size : Query(rep, i) = Total(abs, i)
  BY QueryTotals DEF FenwickInd
<1> QED BY <1>1, <1>2 DEF FenwickRight

------------------------------------------------------------------------------
\* LRUCache.  The invariant: the list has each key at most once, and the map has
\* just the nodes of the list.

\* The least element of a singleton.
LEMMA MinSingle ==
  ASSUME NEW i \in Int
  PROVE  Min({i}) = i
BY DEF Min

Nodes == Keys \X {1, 2}

\* A node of the cache is a key with a value.
LEMMA NodesAre ==
  /\ \A x \in Nodes : x # << >> /\ x[1] \in Keys /\ x = <<x[1], x[2]>>
  /\ \A k \in Keys, v \in {1, 2} : <<k, v>> \in Nodes /\ <<k, v>>[1] = k /\ <<k, v>>[2] = v
BY DEF Nodes

\* The list s of the nodes has each key once, and m names the node of each key.
Cached(s, m) ==
  /\ s \in Seq(Nodes) /\ m \in [Keys -> Nodes \cup {<< >>}]
  /\ \A i, j \in 1 .. Len(s) : s[i][1] = s[j][1] => i = j
  /\ \A k \in Keys : m[k] = << >> => \A i \in 1 .. Len(s) : s[i][1] # k
  /\ \A k \in Keys : m[k] # << >> => \E i \in 1 .. Len(s) : s[i] = m[k] /\ s[i][1] = k

\* The node at i is the one of its key.
LEMMA CachedAt ==
  ASSUME NEW s, NEW m, Cached(s, m), NEW k \in Keys, m[k] # << >>
  PROVE  \E i \in 1 .. Len(s) : /\ s[i] = m[k] /\ s[i][1] = k /\ KeyAt(s, k) = {i}
                                /\ Place(s, m[k]) = i /\ Min(KeyAt(s, k)) = i
<1>1. s \in Seq(Nodes) /\ DOMAIN s = 1 .. Len(s) /\ Len(s) \in Nat
  BY DEF Cached
<1>2. PICK i \in 1 .. Len(s) : s[i] = m[k] /\ s[i][1] = k
  BY DEF Cached
<1>3. \A j \in 1 .. Len(s) : s[j][1] = k => j = i
  BY <1>2 DEF Cached
<1>4. KeyAt(s, k) = {i}
  BY <1>1, <1>2, <1>3 DEF KeyAt
<1>5. Place(s, m[k]) = i
  <2>1. \A j \in DOMAIN s : s[j] = m[k] => j = i
    BY <1>1, <1>2, <1>3
  <2> QED BY <1>1, <1>2, <2>1 DEF Place
<1>6. Min(KeyAt(s, k)) = i
  BY <1>4, MinSingle
<1> QED BY <1>2, <1>4, <1>5, <1>6

\* A key that the map does not have is in no node.
LEMMA CachedNot ==
  ASSUME NEW s, NEW m, Cached(s, m), NEW k \in Keys, m[k] = << >>
  PROVE  KeyAt(s, k) = {} /\ \A i \in 1 .. Len(s) : s[i][1] # k
<1>1. DOMAIN s = 1 .. Len(s)
  BY DEF Cached
<1> QED BY <1>1 DEF Cached, KeyAt

\* The node at i, or one with its key, moved to the front.
LEMMA MovedToFront ==
  ASSUME NEW S, NEW s, s \in Seq(S), NEW i, i \in 1 .. Len(s), NEW e, e \in S
  PROVE  /\ <<e>> \o RemoveAt(s, i) \in Seq(S)
         /\ Len(<<e>> \o RemoveAt(s, i)) = Len(s)
         /\ \A j \in 1 .. Len(s) : (<<e>> \o RemoveAt(s, i))[j] =
              IF j = 1 THEN e ELSE IF j <= i THEN s[j - 1] ELSE s[j]
<1>1. Len(s) \in Nat /\ i \in Nat /\ 1 <= i /\ i <= Len(s)
  OBVIOUS
<1>2. PICK a : a = SubSeq(s, 1, i - 1)
  OBVIOUS
<1>3. PICK b : b = SubSeq(s, i + 1, Len(s))
  OBVIOUS
<1>4. /\ a \in Seq(S) /\ Len(a) = i - 1
      /\ \A j \in 1 .. i - 1 : a[j] = s[j]
  BY <1>1, <1>2
<1>5. /\ b \in Seq(S) /\ Len(b) = Len(s) - i
      /\ \A j \in 1 .. Len(s) - i : b[j] = s[i + j]
  BY <1>1, <1>3
<1>6. PICK c : c = a \o b
  OBVIOUS
<1>7. /\ c \in Seq(S) /\ Len(c) = Len(s) - 1
      /\ \A j \in 1 .. Len(s) - 1 : c[j] = IF j <= i - 1 THEN s[j] ELSE s[j + 1]
  <2>1. c \in Seq(S) /\ Len(c) = Len(s) - 1
    <3>1. c \in Seq(S) /\ Len(c) = Len(a) + Len(b)
      BY <1>4, <1>5, <1>6, ConcatProperties
    <3> QED BY <1>1, <1>4, <1>5, <3>1
  <2>2. ASSUME NEW j \in 1 .. Len(s) - 1 PROVE c[j] = IF j <= i - 1 THEN s[j] ELSE s[j + 1]
    <3>0. j \in 1 .. Len(a) + Len(b)
      BY <1>1, <1>4, <1>5
    <3>1. c[j] = IF j <= Len(a) THEN a[j] ELSE b[j - Len(a)]
      BY <1>4, <1>5, <1>6, <3>0, ConcatProperties
    <3>2. CASE j <= i - 1
      BY <1>1, <1>4, <3>1, <3>2
    <3>3. CASE ~(j <= i - 1)
      <4>1. PICK k \in 1 .. Len(s) - i : k = j - (i - 1)
        BY <1>1, <3>3
      <4>2. b[k] = s[i + k] /\ i + k = j + 1
        BY <1>1, <1>5, <4>1
      <4> QED BY <1>4, <3>1, <3>3, <4>1, <4>2
    <3> QED BY <3>2, <3>3
  <2> QED BY <2>1, <2>2
<1>8. RemoveAt(s, i) = c
  BY <1>2, <1>3, <1>6 DEF RemoveAt
<1>9. PICK t : t = <<e>> \o c
  OBVIOUS
<1>10. t \in Seq(S) /\ Len(t) = Len(s)
  BY <1>1, <1>7, <1>9
<1>11. ASSUME NEW j \in 1 .. Len(s)
       PROVE  t[j] = IF j = 1 THEN e ELSE IF j <= i THEN s[j - 1] ELSE s[j]
  <2>1. CASE j = 1
    BY <1>7, <1>9, <2>1
  <2>2. CASE j # 1
    <3>1. PICK k \in 1 .. Len(s) - 1 : k = j - 1
      BY <1>1, <2>2
    <3>2. t[j] = c[k]
      BY <1>1, <1>7, <1>9, <2>2, <3>1
    <3>3. c[k] = IF k <= i - 1 THEN s[k] ELSE s[k + 1]
      BY <1>7
    <3>4. (k <= i - 1 <=> j <= i) /\ k + 1 = j
      BY <1>1, <3>1
    <3> QED BY <2>2, <3>1, <3>2, <3>3, <3>4
  <2> QED BY <2>1, <2>2
<1> QED BY <1>8, <1>9, <1>10, <1>11

\* A node of the key moved to the front, with a new value or not.
Moved(s, m, k, e, i, t) ==
  /\ Cached(s, m) /\ k \in Keys /\ m[k] # << >> /\ e \in Nodes /\ e[1] = k
  /\ i \in 1 .. Len(s) /\ s[i][1] = k /\ t = <<e>> \o RemoveAt(s, i)

\* A node that is moved to the front, with the value of e.
LEMMA CachedMoved ==
  ASSUME NEW s, NEW m, NEW k, NEW e, NEW i, NEW t, Moved(s, m, k, e, i, t)
  PROVE  Cached(t, [m EXCEPT ![k] = e]) /\ Len(t) = Len(s)
<1>0. /\ Cached(s, m) /\ k \in Keys /\ m[k] # << >> /\ e \in Nodes /\ e[1] = k
      /\ i \in 1 .. Len(s) /\ s[i][1] = k /\ t = <<e>> \o RemoveAt(s, i)
  BY DEF Moved
<1>1. /\ s \in Seq(Nodes) /\ m \in [Keys -> Nodes \cup {<< >>}] /\ Len(s) \in Nat
      /\ \A a, b \in 1 .. Len(s) : s[a][1] = s[b][1] => a = b
      /\ i \in Nat /\ 1 <= i /\ i <= Len(s)
  BY <1>0 DEF Cached
<1>2. /\ t \in Seq(Nodes) /\ Len(t) = Len(s)
      /\ \A j \in 1 .. Len(s) : t[j] = IF j = 1 THEN e ELSE IF j <= i THEN s[j - 1] ELSE s[j]
  BY <1>0, <1>1, MovedToFront, SMTT(60)
<1> DEFINE w == [m EXCEPT ![k] = e]
           from == [j \in 1 .. Len(s) |-> IF j = 1 THEN i ELSE IF j <= i THEN j - 1 ELSE j]
           to == [j \in 1 .. Len(s) |-> IF j = i THEN 1 ELSE IF j < i THEN j + 1 ELSE j]
<1>3. \A j \in 1 .. Len(s) : from[j] \in 1 .. Len(s) /\ to[j] \in 1 .. Len(s)
  BY <1>0, <1>1
<1>4. \A j \in 1 .. Len(s) : from[to[j]] = j /\ to[from[j]] = j
  BY <1>0, <1>1
<1>5. \A j \in 1 .. Len(s) : t[j][1] = s[from[j]][1] /\ (j # 1 => t[j] = s[from[j]])
  BY <1>0, <1>1, <1>2
<1>6. w \in [Keys -> Nodes \cup {<< >>}] /\ \A q \in Keys : w[q] = IF q = k THEN e ELSE m[q]
  BY <1>0, <1>1
<1>7. to[i] = 1 /\ t[1] = e /\ 1 \in 1 .. Len(s) /\ from[1] = i
  BY <1>0, <1>1, <1>2
<1> HIDE DEF w, from, to
<1>8. ASSUME NEW a \in 1 .. Len(t), NEW b \in 1 .. Len(t), t[a][1] = t[b][1] PROVE a = b
  <2>1. s[from[a]][1] = s[from[b]][1]
    BY <1>0, <1>2, <1>5, <1>8
  <2>2. from[a] = from[b]
    BY <1>0, <1>1, <1>2, <1>3, <2>1
  <2> QED BY <1>0, <1>2, <1>4, <2>2
<1>9. ASSUME NEW q \in Keys, w[q] = << >> PROVE \A j \in 1 .. Len(t) : t[j][1] # q
  <2>1. q # k /\ m[q] = << >>
    BY <1>0, <1>6, <1>9, NodesAre
  <2>2. \A j \in 1 .. Len(s) : s[j][1] # q
    BY <1>0, <2>1 DEF Cached
  <2> QED BY <1>0, <1>2, <1>3, <1>5, <2>2
<1>10. ASSUME NEW q \in Keys, w[q] # << >> PROVE \E j \in 1 .. Len(t) : t[j] = w[q] /\ t[j][1] = q
  <2>1. CASE q = k
    BY <1>0, <1>2, <1>6, <1>7, <2>1
  <2>2. CASE q # k
    <3>1. w[q] = m[q]
      BY <1>0, <1>6, <2>2
    <3>2. PICK j \in 1 .. Len(s) : s[j] = m[q] /\ s[j][1] = q
      BY <1>0, <1>10, <3>1 DEF Cached
    <3>3. j # i
      BY <1>0, <2>2, <3>2
    <3>4. PICK h \in 1 .. Len(s) : h = to[j]
      BY <1>0, <1>3
    <3>5. from[h] = j /\ h # 1
      BY <1>0, <1>4, <1>7, <3>3, <3>4
    <3>6. t[h] = s[j]
      BY <1>0, <1>5, <3>5
    <3> QED BY <1>0, <1>2, <3>1, <3>2, <3>6
  <2> QED BY <1>0, <2>1, <2>2
<1>11. Cached(t, w)
  BY <1>0, <1>2, <1>6, <1>8, <1>9, <1>10 DEF Cached
<1> QED BY <1>2, <1>11 DEF w

\* A node of a new key at the front.
LEMMA CachedPushed ==
  ASSUME NEW s, NEW m, Cached(s, m), NEW k, k \in Keys, m[k] = << >>, NEW e, e \in Nodes, e[1] = k,
         NEW t, t = <<e>> \o s
  PROVE  Cached(t, [m EXCEPT ![k] = e]) /\ Len(t) = Len(s) + 1
<1>1. /\ s \in Seq(Nodes) /\ m \in [Keys -> Nodes \cup {<< >>}] /\ Len(s) \in Nat
      /\ \A a, b \in 1 .. Len(s) : s[a][1] = s[b][1] => a = b
      /\ \A j \in 1 .. Len(s) : s[j][1] # k
  BY DEF Cached
<1>2. t \in Seq(Nodes) /\ Len(t) = Len(s) + 1
  BY <1>1
<1>3. t[1] = e /\ \A j \in 1 .. Len(s) : t[j + 1] = s[j]
  <2>1. <<e>> \in Seq(Nodes) /\ Len(<<e>>) = 1
    OBVIOUS
  <2>2. \A j \in 1 .. 1 + Len(s) : t[j] = IF j <= 1 THEN <<e>>[j] ELSE s[j - 1]
    BY <1>1, <2>1, ConcatProperties
  <2>3. \A j \in 1 .. Len(s) : j + 1 \in 1 .. 1 + Len(s) /\ (j + 1) - 1 = j /\ ~(j + 1 <= 1)
    BY <1>1
  <2>4. 1 \in 1 .. 1 + Len(s)
    BY <1>1
  <2>5. t[1] = e
    BY <2>2, <2>4
  <2> QED BY <2>2, <2>3, <2>5
<1>4. \A j \in 1 .. Len(t) : j = 1 \/ \E i \in 1 .. Len(s) : j = i + 1
  <2> SUFFICES ASSUME NEW j \in 1 .. Len(t), j # 1 PROVE \E i \in 1 .. Len(s) : j = i + 1
    OBVIOUS
  <2>1. j - 1 \in 1 .. Len(s) /\ j = (j - 1) + 1
    BY <1>1, <1>2
  <2> QED BY <2>1
<1>5. /\ 1 \in 1 .. Len(t)
      /\ \A i \in 1 .. Len(s) : i + 1 \in 1 .. Len(t)
  BY <1>1, <1>2
<1> DEFINE w == [m EXCEPT ![k] = e]
<1>6. w \in [Keys -> Nodes \cup {<< >>}] /\ \A q \in Keys : w[q] = IF q = k THEN e ELSE m[q]
  BY <1>1
<1> HIDE DEF w
<1>8. ASSUME NEW a \in 1 .. Len(t), NEW b \in 1 .. Len(t), t[a][1] = t[b][1] PROVE a = b
  <2>1. CASE a = 1 /\ b = 1
    BY <2>1
  <2>2. CASE a = 1 /\ b # 1
    BY <1>1, <1>3, <1>4, <1>8, <2>2
  <2>3. CASE a # 1 /\ b = 1
    BY <1>1, <1>3, <1>4, <1>8, <2>3
  <2>4. CASE a # 1 /\ b # 1
    <3>1. PICK i \in 1 .. Len(s) : a = i + 1
      BY <1>4, <2>4
    <3>2. PICK j \in 1 .. Len(s) : b = j + 1
      BY <1>4, <2>4
    <3>3. s[i][1] = s[j][1]
      BY <1>3, <1>8, <3>1, <3>2
    <3> QED BY <1>1, <3>1, <3>2, <3>3
  <2> QED BY <2>1, <2>2, <2>3, <2>4
<1>9. ASSUME NEW q \in Keys, w[q] = << >> PROVE \A j \in 1 .. Len(t) : t[j][1] # q
  <2>1. q # k /\ m[q] = << >>
    BY <1>6, <1>9, NodesAre
  <2>2. \A j \in 1 .. Len(s) : s[j][1] # q
    BY <2>1 DEF Cached
  <2> QED BY <1>3, <1>4, <2>1, <2>2
<1>10. ASSUME NEW q \in Keys, w[q] # << >> PROVE \E j \in 1 .. Len(t) : t[j] = w[q] /\ t[j][1] = q
  <2>1. CASE q = k
    BY <1>3, <1>5, <1>6, <2>1
  <2>2. CASE q # k
    <3>1. w[q] = m[q]
      BY <1>6, <2>2
    <3>2. PICK j \in 1 .. Len(s) : s[j] = m[q] /\ s[j][1] = q
      BY <1>10, <3>1 DEF Cached
    <3> QED BY <1>3, <1>5, <3>1, <3>2
  <2> QED BY <2>1, <2>2
<1>11. Cached(t, w)
  BY <1>2, <1>6, <1>8, <1>9, <1>10 DEF Cached
<1> QED BY <1>2, <1>11 DEF w

\* The last node taken away.
LEMMA CachedPopped ==
  ASSUME NEW s, NEW m, Cached(s, m), Len(s) > 0
  PROVE  /\ Cached(Front(s), [m EXCEPT ![Last(s)[1]] = << >>]) /\ Len(Front(s)) = Len(s) - 1
         /\ Last(s)[1] \in Keys
<1>1. /\ s \in Seq(Nodes) /\ m \in [Keys -> Nodes \cup {<< >>}] /\ Len(s) \in Nat
      /\ \A a, b \in 1 .. Len(s) : s[a][1] = s[b][1] => a = b
  BY DEF Cached
<1>2. PICK n \in Nat : n = Len(s)
  BY <1>1
<1>3. n > 0 /\ n \in 1 .. n
  BY <1>2
<1>4. PICK z : z = s[n][1]
  OBVIOUS
<1>5. z \in Keys /\ Last(s)[1] = z
  BY <1>1, <1>2, <1>3, <1>4, NodesAre DEF Last
<1>6. PICK t : t = Front(s)
  OBVIOUS
<1>7. t \in Seq(Nodes) /\ Len(t) = n - 1 /\ \A j \in 1 .. n - 1 : t[j] = s[j]
  BY <1>1, <1>2, <1>3, <1>6 DEF Front
<1> DEFINE w == [m EXCEPT ![z] = << >>]
<1>8. w \in [Keys -> Nodes \cup {<< >>}] /\ \A q \in Keys : w[q] = IF q = z THEN << >> ELSE m[q]
  BY <1>1, <1>5
<1>9. \A j \in 1 .. n - 1 : j \in 1 .. n /\ j # n
  BY <1>3
<1> HIDE DEF w
<1>10. ASSUME NEW a \in 1 .. Len(t), NEW b \in 1 .. Len(t), t[a][1] = t[b][1] PROVE a = b
  BY <1>1, <1>2, <1>7, <1>9, <1>10
<1>11. ASSUME NEW q \in Keys, w[q] = << >> PROVE \A j \in 1 .. Len(t) : t[j][1] # q
  <2>1. CASE q = z
    BY <1>1, <1>2, <1>3, <1>4, <1>7, <1>9, <2>1
  <2>2. CASE q # z
    <3>1. \A j \in 1 .. n : s[j][1] # q
      BY <1>2, <1>8, <1>11, <2>2 DEF Cached
    <3> QED BY <1>7, <1>9, <3>1
  <2> QED BY <2>1, <2>2
<1>12. ASSUME NEW q \in Keys, w[q] # << >> PROVE \E j \in 1 .. Len(t) : t[j] = w[q] /\ t[j][1] = q
  <2>1. q # z /\ w[q] = m[q] /\ m[q] # << >>
    BY <1>8, <1>12
  <2>2. PICK j \in 1 .. n : s[j] = m[q] /\ s[j][1] = q
    BY <1>2, <2>1 DEF Cached
  <2>3. j # n
    BY <1>4, <2>1, <2>2
  <2>4. j \in 1 .. n - 1
    BY <2>3
  <2> QED BY <1>7, <2>1, <2>2, <2>4
<1>13. Cached(t, w)
  BY <1>7, <1>8, <1>10, <1>11, <1>12 DEF Cached
<1> QED BY <1>2, <1>5, <1>6, <1>7, <1>13 DEF w

\* The node that does not fit is the last one of the list.
LEMMA FrontPushed ==
  ASSUME NEW S, NEW s, s \in Seq(S), NEW e, e \in S, Len(s) > 0
  PROVE  Front(<<e>> \o s) = <<e>> \o Front(s)
<1>1. PICK n \in Nat : n = Len(s) /\ n > 0
  OBVIOUS
<1>2. <<e>> \in Seq(S) /\ Len(<<e>>) = 1 /\ <<e>>[1] = e
  OBVIOUS
<1>3. PICK t : t = <<e>> \o s
  OBVIOUS
<1>4. /\ t \in Seq(S) /\ Len(t) = n + 1
      /\ \A j \in 1 .. 1 + n : t[j] = IF j <= 1 THEN <<e>>[j] ELSE s[j - 1]
  BY <1>1, <1>2, <1>3, ConcatProperties
<1>5. PICK f : f = Front(s)
  OBVIOUS
<1>6. f \in Seq(S) /\ Len(f) = n - 1 /\ \A j \in 1 .. n - 1 : f[j] = s[j]
  BY <1>1, <1>5 DEF Front
<1>7. PICK u : u = <<e>> \o f
  OBVIOUS
<1>8. /\ u \in Seq(S) /\ Len(u) = n
      /\ \A j \in 1 .. n : u[j] = IF j <= 1 THEN <<e>>[j] ELSE f[j - 1]
  <2>1. /\ u \in Seq(S) /\ Len(u) = 1 + (n - 1)
        /\ \A j \in 1 .. 1 + (n - 1) : u[j] = IF j <= 1 THEN <<e>>[j] ELSE f[j - 1]
    BY <1>2, <1>6, <1>7, ConcatProperties
  <2>2. 1 + (n - 1) = n
    BY <1>1
  <2> QED BY <2>1, <2>2
<1>9. PICK v : v = Front(t)
  OBVIOUS
<1>10. v \in Seq(S) /\ Len(v) = n /\ \A j \in 1 .. n : v[j] = t[j]
  BY <1>1, <1>4, <1>9 DEF Front
<1>11. \A j \in 1 .. n : v[j] = u[j]
  <2> SUFFICES ASSUME NEW j \in 1 .. n PROVE v[j] = u[j]
    OBVIOUS
  <2>1. CASE j = 1
    BY <1>4, <1>8, <1>10, <2>1
  <2>2. CASE j # 1
    <3>1. PICK i \in 1 .. n - 1 : i = j - 1
      BY <2>2
    <3>2. ~(j <= 1) /\ j \in 1 .. 1 + n
      BY <2>2
    <3> QED BY <1>4, <1>6, <1>8, <1>10, <3>1, <3>2
  <2> QED BY <2>1, <2>2
<1>12. v = u
  BY <1>8, <1>10, <1>11, SeqEqual
<1> QED BY <1>3, <1>5, <1>7, <1>9, <1>12

\* The cache between two calls.
LruInd == \E m : rep = [cache |-> abs, m |-> m] /\ Cached(abs, m) /\ Len(abs) <= Capacity

\* A new cache is empty.
LEMMA LruStart ==
  ASSUME rep = [cache |-> << >>, m |-> [k \in Keys |-> << >>]], abs = << >>, StructuresAssumption
  PROVE  LruInd
<1>1. PICK m : m = [k \in Keys |-> << >>]
  OBVIOUS
<1>2. Cached(<< >>, m)
  BY <1>1 DEF Cached
<1>3. Len(<< >>) <= Capacity
  BY DEF StructuresAssumption
<1> QED BY <1>1, <1>2, <1>3 DEF LruInd

\* What the invariant of the cache says of it.
LEMMA LruRepresents ==
  ASSUME LruInd
  PROVE  CacheRight
<1>1. PICK m : rep = [cache |-> abs, m |-> m] /\ Cached(abs, m)
  BY DEF LruInd
<1>2. rep.cache = abs /\ rep.m = m
  BY <1>1
<1>3. ASSUME NEW k \in Keys, m[k] # << >>
      PROVE  KeyAt(abs, k) # {} /\ Contains(abs, m[k])
  <2>1. PICK i \in 1 .. Len(abs) : abs[i] = m[k] /\ KeyAt(abs, k) = {i}
    BY <1>1, <1>3, CachedAt
  <2> QED BY <2>1 DEF Contains
<1>4. ASSUME NEW k \in Keys, m[k] = << >>
      PROVE  KeyAt(abs, k) = {}
  BY <1>1, <1>4, CachedNot
<1> QED BY <1>2, <1>3, <1>4 DEF CacheRight

\* Get moves the node of the key to the front.
LEMMA LruGetStep ==
  ASSUME LruInd, NEW key \in Keys, LruGet(key)
  PROVE  LruInd' /\ AnswerRight'
<1>1. PICK m : rep = [cache |-> abs, m |-> m] /\ Cached(abs, m) /\ Len(abs) <= Capacity
  BY DEF LruInd
<1>2. rep.cache = abs /\ rep.m = m
  BY <1>1
<1>3. CASE m[key] = << >>
  <2>1. KeyAt(abs, key) = {}
    BY <1>1, <1>3, CachedNot
  <2>2. rep' = rep /\ abs' = abs /\ answer' = <<-1, -1>>
    BY <1>2, <1>3, <2>1 DEF LruGet
  <2> QED BY <1>1, <2>2 DEF LruInd, AnswerRight
<1>4. CASE m[key] # << >>
  <2>1. PICK i \in 1 .. Len(abs) : /\ abs[i] = m[key] /\ abs[i][1] = key /\ KeyAt(abs, key) = {i}
                                   /\ Place(abs, m[key]) = i /\ Min(KeyAt(abs, key)) = i
    BY <1>1, <1>4, CachedAt
  <2>2. PICK t : t = <<m[key]>> \o RemoveAt(abs, i)
    OBVIOUS
  <2>3. Erased(abs, key) = RemoveAt(abs, i) /\ KeyAt(abs, key) # {}
    BY <2>1 DEF Erased
  <2>4. abs' = t
    BY <2>1, <2>2, <2>3 DEF LruGet
  <2>5. /\ rep' = [rep EXCEPT !.cache = <<rep.m[key]>> \o RemoveAt(@, Place(@, rep.m[key]))]
        /\ answer' = <<rep.m[key][2], abs[Min(KeyAt(abs, key))][2]>>
    BY <1>2, <1>4 DEF LruGet
  <2>6. rep' = [cache |-> t, m |-> m]
    BY <1>1, <1>2, <2>1, <2>2, <2>5
  <2>7. answer'[1] = answer'[2]
    BY <1>2, <2>1, <2>5
  <2>8. m[key] \in Nodes /\ m[key][1] = key /\ m \in [Keys -> Nodes \cup {<< >>}]
    BY <1>1, <1>4, <2>1 DEF Cached
  <2>9. [m EXCEPT ![key] = m[key]] = m
    BY <2>8
  <2>10. PICK e : e = m[key]
    OBVIOUS
  <2>11. Cached(t, [m EXCEPT ![key] = e]) /\ Len(t) = Len(abs)
    <3>1. Moved(abs, m, key, e, i, t)
      BY <1>1, <1>4, <2>1, <2>2, <2>8, <2>10 DEF Moved
    <3> QED BY <3>1, CachedMoved, Zenon
  <2>12. Cached(t, m)
    BY <2>9, <2>10, <2>11, Zenon
  <2>13. Len(t) <= Capacity
    BY <1>1, <2>11
  <2> QED BY <2>4, <2>6, <2>7, <2>12, <2>13 DEF LruInd, AnswerRight
<1> QED BY <1>3, <1>4

\* Put moves it there with its new value, or makes one there, for which the last
\* node of a full list is taken away.
LEMMA LruPutStep ==
  ASSUME LruInd, NEW key \in Keys, NEW value \in {1, 2}, LruPut(key, value), StructuresAssumption
  PROVE  LruInd' /\ AnswerRight'
<1>1. PICK m : rep = [cache |-> abs, m |-> m] /\ Cached(abs, m) /\ Len(abs) <= Capacity
  BY DEF LruInd
<1>2. rep.cache = abs /\ rep.m = m
  BY <1>1
<1>3. AnswerRight'
  BY DEF LruPut, AnswerRight, Agree
<1>4. PICK e : e = <<key, value>>
  OBVIOUS
<1>5. e \in Nodes /\ e[1] = key
  BY <1>4, NodesAre
<1>6. Len(abs) \in Nat /\ Capacity \in Nat /\ Capacity > 0 /\ abs \in Seq(Nodes)
  BY <1>1 DEF Cached, StructuresAssumption
<1>7. abs' = LET used == <<e>> \o Erased(abs, key) IN IF Len(used) > Capacity THEN Front(used) ELSE used
  BY <1>4 DEF LruPut
<1>8. CASE m[key] # << >>
  <2>1. PICK i \in 1 .. Len(abs) : /\ abs[i] = m[key] /\ abs[i][1] = key /\ KeyAt(abs, key) = {i}
                                   /\ Place(abs, m[key]) = i /\ Min(KeyAt(abs, key)) = i
    BY <1>1, <1>8, CachedAt
  <2>2. PICK t : t = <<e>> \o RemoveAt(abs, i)
    OBVIOUS
  <2>3. Erased(abs, key) = RemoveAt(abs, i)
    BY <2>1 DEF Erased
  <2>4. Cached(t, [m EXCEPT ![key] = e]) /\ Len(t) = Len(abs)
    <3>1. Moved(abs, m, key, e, i, t)
      BY <1>1, <1>5, <1>8, <2>1, <2>2 DEF Moved
    <3> QED BY <3>1, CachedMoved, Zenon
  <2>5. ~(Len(t) > Capacity)
    BY <1>1, <1>6, <2>4
  <2>6. abs' = t
    BY <1>7, <2>2, <2>3, <2>5
  <2>7. rep' = [cache |-> <<e>> \o RemoveAt(rep.cache, Place(rep.cache, rep.m[key])),
                m |-> [rep.m EXCEPT ![key] = e]]
    BY <1>2, <1>4, <1>8 DEF LruPut
  <2>8. rep' = [cache |-> t, m |-> [m EXCEPT ![key] = e]]
    BY <1>2, <2>1, <2>2, <2>7
  <2>9. Len(t) <= Capacity
    BY <1>1, <2>4
  <2> QED BY <1>3, <2>4, <2>6, <2>8, <2>9 DEF LruInd
<1>9. CASE m[key] = << >> /\ Len(abs) # Capacity
  <2>1. Erased(abs, key) = abs
    BY <1>1, <1>9, CachedNot DEF Erased
  <2>2. PICK t : t = <<e>> \o abs
    OBVIOUS
  <2>3. Cached(t, [m EXCEPT ![key] = e]) /\ Len(t) = Len(abs) + 1
    BY <1>1, <1>5, <1>9, <2>2, CachedPushed, Zenon
  <2>4. Len(t) <= Capacity /\ ~(Len(t) > Capacity)
    BY <1>1, <1>6, <1>9, <2>3
  <2>5. abs' = t
    BY <1>7, <2>1, <2>2, <2>4
  <2>6. rep' = [cache |-> <<e>> \o rep.cache, m |-> [rep.m EXCEPT ![key] = e]]
    BY <1>2, <1>4, <1>9 DEF LruPut
  <2>7. rep' = [cache |-> t, m |-> [m EXCEPT ![key] = e]]
    BY <1>2, <2>2, <2>6
  <2> QED BY <1>3, <2>3, <2>4, <2>5, <2>7 DEF LruInd
<1>10. CASE m[key] = << >> /\ Len(abs) = Capacity
  <2>1. Erased(abs, key) = abs
    BY <1>1, <1>10, CachedNot DEF Erased
  <2>2. Len(abs) > 0
    BY <1>6, <1>10
  <2>3. PICK f : f = Front(abs)
    OBVIOUS
  <2>4. PICK w : w = [m EXCEPT ![Last(abs)[1]] = << >>]
    OBVIOUS
  <2>5. Cached(f, w) /\ Len(f) = Len(abs) - 1 /\ Last(abs)[1] \in Keys
    BY <1>1, <2>2, <2>3, <2>4, CachedPopped
  <2>6. w[key] = << >>
    BY <1>1, <1>10, <2>4, <2>5 DEF Cached
  <2>7. PICK t : t = <<e>> \o f
    OBVIOUS
  <2>8. Cached(t, [w EXCEPT ![key] = e]) /\ Len(t) = Len(f) + 1
    BY <1>5, <2>5, <2>6, <2>7, CachedPushed, Zenon
  <2>9. Len(t) <= Capacity
    BY <1>6, <1>10, <2>5, <2>8
  <2>10. Front(<<e>> \o abs) = t
    BY <1>5, <1>6, <2>2, <2>3, <2>7, FrontPushed
  <2>11. Len(<<e>> \o abs) > Capacity
    <3>1. Len(<<e>> \o abs) = Len(abs) + 1
      BY <1>5, <1>6
    <3> QED BY <1>6, <1>10, <3>1
  <2>12. abs' = t
    BY <1>7, <2>1, <2>10, <2>11
  <2>13. rep' = [cache |-> <<e>> \o Front(rep.cache),
                 m |-> [[rep.m EXCEPT ![Last(rep.cache)[1]] = << >>] EXCEPT ![key] = e]]
    BY <1>2, <1>4, <1>10 DEF LruPut
  <2>14. rep' = [cache |-> t, m |-> [w EXCEPT ![key] = e]]
    BY <1>2, <2>3, <2>4, <2>7, <2>13
  <2> QED BY <1>3, <2>8, <2>9, <2>12, <2>14 DEF LruInd
<1> QED BY <1>8, <1>9, <1>10

------------------------------------------------------------------------------
\* Trie.  The invariant: the nodes are the prefixes of the words.

\* A bounded sequence is a sequence.
LEMMA SeqOfIsSeq ==
  ASSUME NEW S, NEW n, n \in Nat, NEW w, w \in SeqOf(S, n)
  PROVE  w \in Seq(S) /\ Len(w) \in Nat /\ Len(w) <= n
<1>1. PICK m \in 0 .. n : w \in [1 .. m -> S]
  BY DEF SeqOf
<1>2. m \in Nat /\ m <= n
  OBVIOUS
<1>3. w \in Seq(S) /\ Len(w) = m
  BY <1>1, <1>2, FunctionIsSeq
<1> QED BY <1>2, <1>3

Letters == {1, 2}

\* Words are sequences of letters.
LEMMA WordsAre ==
  ASSUME StructuresAssumption
  PROVE  Words \subseteq Seq(Letters)
<1>1. Longest \in Nat
  BY DEF StructuresAssumption
<1> QED BY <1>1, SeqOfIsSeq DEF Words, Letters

\* The first letters of a prefix are the first letters of the word.
LEMMA PrefixOfPrefix ==
  ASSUME NEW S, NEW w, w \in Seq(S), NEW u, u \in Seq(S), IsPrefix(w, u), NEW n, n \in 1 .. Len(w)
  PROVE  SubSeq(w, 1, n) = SubSeq(u, 1, n) /\ n \in 1 .. Len(u)
<1>1. Len(w) \in Nat /\ Len(u) \in Nat /\ Len(w) <= Len(u) /\ n \in Nat /\ 1 <= n /\ n <= Len(w)
  BY DEF IsPrefix
<1>2. w = SubSeq(u, 1, Len(w))
  BY SubSeqFull DEF IsPrefix
<1>3. \A j \in 1 .. Len(w) : w[j] = u[j]
  <2>1. PICK k \in Nat : k = Len(w)
    BY <1>1
  <2>2. \A j \in 1 .. k : SubSeq(u, 1, k)[j] = u[j]
    BY <1>1, <2>1
  <2> QED BY <1>2, <2>1, <2>2
<1>4. PICK a : a = SubSeq(w, 1, n)
  OBVIOUS
<1>5. PICK b : b = SubSeq(u, 1, n)
  OBVIOUS
<1>6. a \in Seq(S) /\ Len(a) = n /\ \A j \in 1 .. n : a[j] = w[j]
  BY <1>1, <1>4
<1>7. b \in Seq(S) /\ Len(b) = n /\ \A j \in 1 .. n : b[j] = u[j]
  BY <1>1, <1>5
<1>8. \A j \in 1 .. n : j \in 1 .. Len(w)
  BY <1>1
<1>9. a = b
  BY <1>3, <1>6, <1>7, <1>8, SeqEqual
<1> QED BY <1>1, <1>4, <1>5, <1>9

\* The nodes are the empty path and the beginnings of the words.
TrieInd ==
  \E nodes :
    /\ rep = [nodes |-> nodes, words |-> abs] /\ abs \subseteq Words
    /\ \A x : x \in nodes <=> \/ x = << >>
                              \/ \E w \in abs : \E n \in 1 .. Len(w) : x = SubSeq(w, 1, n)

\* A new trie has its root only.
LEMMA TrieStart ==
  ASSUME rep = [nodes |-> {<< >>}, words |-> {}], abs = {}
  PROVE  TrieInd
<1>1. PICK nodes : nodes = {<< >>}
  OBVIOUS
<1>2. \A x : x \in nodes <=> \/ x = << >>
                            \/ \E w \in abs : \E n \in 1 .. Len(w) : x = SubSeq(w, 1, n)
  BY <1>1
<1>3. rep = [nodes |-> nodes, words |-> abs] /\ abs \subseteq Words
  BY <1>1
<1> QED BY <1>2, <1>3 DEF TrieInd

\* Insert keeps the invariant.
LEMMA TrieStep ==
  ASSUME TrieInd, NEW word \in Words, TrieInsert(word)
  PROVE  TrieInd' /\ AnswerRight'
<1>1. PICK nodes :
        /\ rep = [nodes |-> nodes, words |-> abs] /\ abs \subseteq Words
        /\ \A x : x \in nodes <=> \/ x = << >>
                                  \/ \E w \in abs : \E n \in 1 .. Len(w) : x = SubSeq(w, 1, n)
  BY DEF TrieInd
<1>2. PICK more : more = TrieNodes(nodes, word)
  OBVIOUS
<1>3. abs' = abs \cup {word} /\ rep' = [nodes |-> more, words |-> abs \cup {word}]
  BY <1>1, <1>2 DEF TrieInsert
<1>4. \A x : x \in more <=> x \in nodes \/ \E n \in 1 .. Len(word) : x = SubSeq(word, 1, n)
  BY <1>2 DEF TrieNodes
<1>5. \A x : x \in more <=> \/ x = << >>
                            \/ \E w \in abs' : \E n \in 1 .. Len(w) : x = SubSeq(w, 1, n)
  BY <1>1, <1>3, <1>4
<1>6. AnswerRight'
  BY DEF TrieInsert, AnswerRight, Agree
<1> QED BY <1>1, <1>3, <1>5, <1>6, ZenonT(60) DEF TrieInd

\* What the invariant of the trie says of it.
LEMMA TrieRepresents ==
  ASSUME TrieInd, StructuresAssumption
  PROVE  TrieRight
<1>1. PICK nodes :
        /\ rep = [nodes |-> nodes, words |-> abs] /\ abs \subseteq Words
        /\ \A x : x \in nodes <=> \/ x = << >>
                                  \/ \E w \in abs : \E n \in 1 .. Len(w) : x = SubSeq(w, 1, n)
  BY DEF TrieInd
<1>2. rep.nodes = nodes /\ rep.words = abs
  BY <1>1
<1>3. ASSUME NEW w \in Words
      PROVE  /\ TrieFind(nodes, w) <=> w = << >> \/ \E u \in abs : IsPrefix(w, u)
             /\ w \in abs => TrieFind(nodes, w)
  <2>1. w \in Seq(Letters) /\ Len(w) \in Nat
    BY WordsAre
  <2>2. ASSUME TrieFind(nodes, w), w # << >> PROVE \E u \in abs : IsPrefix(w, u)
    <3>1. Len(w) \in 1 .. Len(w)
      BY <2>1, <2>2, EmptySeq
    <3>2. SubSeq(w, 1, Len(w)) = w
      BY <2>1, SubSeqFull
    <3>3. w \in nodes
      BY <2>2, <3>1, <3>2 DEF TrieFind
    <3>4. PICK u \in abs : \E n \in 1 .. Len(u) : w = SubSeq(u, 1, n)
      BY <1>1, <2>2, <3>3
    <3>5. PICK n \in 1 .. Len(u) : w = SubSeq(u, 1, n)
      BY <3>4
    <3>6. u \in Seq(Letters) /\ Len(u) \in Nat
      BY <1>1, WordsAre
    <3>7. Len(w) = n /\ n <= Len(u)
      BY <3>5, <3>6
    <3>8. IsPrefix(w, u)
      BY <3>2, <3>5, <3>7 DEF IsPrefix
    <3> QED BY <3>8
  <2>3. ASSUME NEW u \in abs, IsPrefix(w, u) PROVE TrieFind(nodes, w)
    <3>1. u \in Seq(Letters)
      BY <1>1, WordsAre
    <3>2. ASSUME NEW n \in 1 .. Len(w) PROVE SubSeq(w, 1, n) \in nodes
      <4>1. SubSeq(w, 1, n) = SubSeq(u, 1, n) /\ n \in 1 .. Len(u)
        BY <2>1, <2>3, <3>1, PrefixOfPrefix
      <4> QED BY <1>1, <4>1
    <3> QED BY <3>2 DEF TrieFind
  <2>4. w = << >> => TrieFind(nodes, w)
    BY DEF TrieFind
  <2>5. w \in abs => IsPrefix(w, w)
    BY <2>1 DEF IsPrefix
  <2> QED BY <2>2, <2>3, <2>4, <2>5
<1> QED BY <1>2, <1>3 DEF TrieRight, TrieSearch, TrieStartsWith

------------------------------------------------------------------------------
\* The Rio package.  The invariant of each loop: what it has got, then the buffer,
\* then the descriptor are the bytes there were.

\* The lesser of two numbers.
LEMMA MinPair ==
  ASSUME NEW a, NEW b, a \in Int, b \in Int
  PROVE  Min({a, b}) = IF a <= b THEN a ELSE b
<1>1. CASE a <= b
  <2>1. \A x \in {a, b} : (\A y \in {a, b} : x <= y) => x = a
    BY <1>1
  <2>2. a \in {a, b} /\ \A y \in {a, b} : a <= y
    BY <1>1
  <2> QED BY <1>1, <2>1, <2>2 DEF Min
<1>2. CASE ~(a <= b)
  <2>1. \A x \in {a, b} : (\A y \in {a, b} : x <= y) => x = b
    BY <1>2
  <2>2. b \in {a, b} /\ \A y \in {a, b} : b <= y
    BY <1>2
  <2> QED BY <1>2, <2>1, <2>2 DEF Min
<1> QED BY <1>1, <1>2

\* The first n elements of a sequence, and those after them.
LEMMA UptoIs ==
  ASSUME NEW S, NEW s, s \in Seq(S), NEW n, n \in Nat
  PROVE  /\ Upto(s, n) \in Seq(S) /\ Len(Upto(s, n)) = IF n <= Len(s) THEN n ELSE Len(s)
         /\ \A j \in 1 .. Len(Upto(s, n)) : Upto(s, n)[j] = s[j]
<1>1. PICK k \in Nat : k = IF n <= Len(s) THEN n ELSE Len(s)
  OBVIOUS
<1>2. k <= Len(s) /\ Len(s) \in Nat
  BY <1>1
<1>3. Min({n, Len(s)}) = k
  BY <1>1, <1>2, MinPair
<1>4. PICK u : u = SubSeq(s, 1, k)
  OBVIOUS
<1>5. u \in Seq(S) /\ Len(u) = k /\ \A j \in 1 .. k : u[j] = s[j]
  BY <1>2, <1>4
<1>6. Upto(s, n) = u
  BY <1>3, <1>4 DEF Upto
<1> QED BY <1>1, <1>5, <1>6

\* What is behind the first n elements.
LEMMA FromIs ==
  ASSUME NEW S, NEW s, s \in Seq(S), NEW n, n \in Nat
  PROVE  /\ From(s, n) \in Seq(S) /\ Len(From(s, n)) = IF n <= Len(s) THEN Len(s) - n ELSE 0
         /\ \A j \in 1 .. Len(From(s, n)) : From(s, n)[j] = s[n + j]
<1>1. PICK l \in Nat : l = Len(s)
  OBVIOUS
<1>2. PICK u : u = SubSeq(s, n + 1, l)
  OBVIOUS
<1>3. From(s, n) = u
  BY <1>1, <1>2 DEF From
<1>4. \A j \in n + 1 .. l : s[j] \in S
  BY <1>1
<1>5. /\ u \in Seq(S) /\ Len(u) = (IF n + 1 <= l THEN l - (n + 1) + 1 ELSE 0)
      /\ \A j \in 1 .. l - (n + 1) + 1 : u[j] = s[(n + 1) + j - 1]
  BY <1>2, <1>4, SubSeqProperties
<1>6. Len(u) = IF n <= l THEN l - n ELSE 0
  BY <1>5
<1>7. ASSUME NEW j \in 1 .. Len(u) PROVE u[j] = s[n + j]
  <2>1. j \in 1 .. l - (n + 1) + 1 /\ (n + 1) + j - 1 = n + j
    BY <1>6
  <2>2. u[j] = s[(n + 1) + j - 1]
    BY <1>5, <2>1
  <2> QED BY <2>1, <2>2, Zenon
<1> QED BY <1>1, <1>3, <1>5, <1>6, <1>7

IsFrom(S, s, n) ==
  /\ From(s, n) \in Seq(S) /\ Len(From(s, n)) = IF n <= Len(s) THEN Len(s) - n ELSE 0
  /\ \A j \in 1 .. Len(From(s, n)) : From(s, n)[j] = s[n + j]
\* The same, as a predicate.
LEMMA FromIsFrom ==
  ASSUME NEW S, NEW s, s \in Seq(S), NEW n, n \in Nat
  PROVE  IsFrom(S, s, n)
BY FromIs DEF IsFrom

\* A sequence is its first n elements and those behind.
LEMMA Cut ==
  ASSUME NEW S, NEW s, s \in Seq(S), NEW n, n \in Nat
  PROVE  Upto(s, n) \o From(s, n) = s
<1>1. PICK u : u = Upto(s, n)
  OBVIOUS
<1>2. PICK f : f = From(s, n)
  OBVIOUS
<1>3. PICK l \in Nat : l = Len(s)
  OBVIOUS
<1>4. u \in Seq(S) /\ Len(u) = (IF n <= l THEN n ELSE l) /\ \A j \in 1 .. Len(u) : u[j] = s[j]
  BY <1>1, <1>3, UptoIs
<1>5. f \in Seq(S) /\ Len(f) = (IF n <= l THEN l - n ELSE 0) /\ \A j \in 1 .. Len(f) : f[j] = s[n + j]
  <2>1. /\ From(s, n) \in Seq(S) /\ Len(From(s, n)) = IF n <= Len(s) THEN Len(s) - n ELSE 0
        /\ \A j \in 1 .. Len(From(s, n)) : From(s, n)[j] = s[n + j]
    BY FromIs
  <2> QED BY <1>2, <1>3, <2>1
<1>6. PICK t : t = u \o f
  OBVIOUS
<1>7. /\ t \in Seq(S) /\ Len(t) = Len(u) + Len(f)
      /\ \A j \in 1 .. Len(u) + Len(f) : t[j] = IF j <= Len(u) THEN u[j] ELSE f[j - Len(u)]
  BY <1>4, <1>5, <1>6, ConcatProperties
<1>8. Len(u) + Len(f) = l
  BY <1>4, <1>5
<1>9. ASSUME NEW j \in 1 .. l PROVE t[j] = s[j]
  <2>1. CASE j <= Len(u)
    BY <1>4, <1>7, <1>8, <2>1
  <2>2. CASE ~(j <= Len(u))
    <3>1. n <= l /\ Len(u) = n /\ Len(f) = l - n
      BY <1>4, <1>5, <2>2
    <3>2. PICK i : i = j - n
      OBVIOUS
    <3>3. i \in 1 .. Len(f) /\ n + i = j
      BY <2>2, <3>1, <3>2
    <3>4. t[j] = f[i]
      BY <1>7, <1>8, <2>2, <3>1, <3>2
    <3>5. f[i] = s[n + i]
      BY <1>5, <3>3
    <3> QED BY <3>3, <3>4, <3>5
  <2> QED BY <2>1, <2>2
<1>10. t = s
  BY <1>3, <1>7, <1>8, <1>9, SeqEqual
<1> QED BY <1>1, <1>2, <1>6, <1>10

\* The first k elements of the first m, when m are enough.
LEMMA UptoUpto ==
  ASSUME NEW S, NEW s, s \in Seq(S), NEW m, m \in Nat, NEW k, k \in Nat, k <= m
  PROVE  Upto(Upto(s, m), k) = Upto(s, k)
<1>1. PICK u : u = Upto(s, m)
  OBVIOUS
<1>2. PICK v : v = Upto(s, k)
  OBVIOUS
<1>3. PICK w : w = Upto(u, k)
  OBVIOUS
<1>4. u \in Seq(S) /\ Len(u) = (IF m <= Len(s) THEN m ELSE Len(s)) /\ \A j \in 1 .. Len(u) : u[j] = s[j]
  BY <1>1, UptoIs
<1>5. v \in Seq(S) /\ Len(v) = (IF k <= Len(s) THEN k ELSE Len(s)) /\ \A j \in 1 .. Len(v) : v[j] = s[j]
  BY <1>2, UptoIs
<1>6. w \in Seq(S) /\ Len(w) = (IF k <= Len(u) THEN k ELSE Len(u)) /\ \A j \in 1 .. Len(w) : w[j] = u[j]
  BY <1>3, <1>4, UptoIs
<1>7. Len(w) = Len(v) /\ Len(w) <= Len(u)
  <2>1. PICK l \in Nat : l = Len(s)
    OBVIOUS
  <2> QED BY <1>4, <1>5, <1>6, <2>1
<1>8. \A j \in 1 .. Len(w) : w[j] = v[j]
  <2> SUFFICES ASSUME NEW j \in 1 .. Len(w) PROVE w[j] = v[j]
    OBVIOUS
  <2>1. Len(w) \in Nat /\ Len(u) \in Nat
    BY <1>4, <1>6
  <2>2. j \in 1 .. Len(u) /\ j \in 1 .. Len(v)
    BY <1>7, <2>1
  <2> QED BY <1>4, <1>5, <1>6, <2>2
<1>9. w = v
  BY <1>5, <1>6, <1>7, <1>8, SeqEqual
<1> QED BY <1>1, <1>2, <1>3, <1>9

\* A sequence in two parts.
InParts(S, a, b, t) ==
  /\ From(t, Len(a)) = b /\ Upto(t, Len(a)) = a
  /\ t \in Seq(S) /\ Len(t) = Len(a) + Len(b)
  /\ \A j \in 1 .. Len(a) : t[j] = a[j]
  /\ \A n \in Nat : (Len(a) = n \/ (b = << >> /\ Len(a) <= n)) => Upto(t, n) = a

\* The elements of a sequence that is made of two.
LEMMA SplitIs ==
  ASSUME NEW S, NEW a, a \in Seq(S), NEW b, b \in Seq(S), NEW t, t = a \o b
  PROVE  InParts(S, a, b, t)
<1>1. PICK k \in Nat : k = Len(a)
  OBVIOUS
<1>2. PICK l \in Nat : l = Len(b)
  OBVIOUS
<1>3. /\ t \in Seq(S) /\ Len(t) = k + l
      /\ \A j \in 1 .. k + l : t[j] = IF j <= k THEN a[j] ELSE b[j - k]
  BY <1>1, <1>2, ConcatProperties
<1>4. \A j \in 1 .. k : t[j] = a[j]
  BY <1>3
<1>5. \A j \in 1 .. l : t[k + j] = b[j]
  <2> SUFFICES ASSUME NEW j \in 1 .. l PROVE t[k + j] = b[j]
    OBVIOUS
  <2>1. k + j \in 1 .. k + l /\ ~(k + j <= k) /\ (k + j) - k = j
    OBVIOUS
  <2> QED BY <1>3, <2>1
<1>6. PICK f : f = From(t, k)
  OBVIOUS
<1>7. f \in Seq(S) /\ Len(f) = l /\ \A j \in 1 .. l : f[j] = t[k + j]
  <2>1. /\ f \in Seq(S) /\ Len(f) = (IF k <= Len(t) THEN Len(t) - k ELSE 0)
        /\ \A j \in 1 .. Len(f) : f[j] = t[k + j]
    <3>1. /\ From(t, k) \in Seq(S) /\ Len(From(t, k)) = IF k <= Len(t) THEN Len(t) - k ELSE 0
          /\ \A j \in 1 .. Len(From(t, k)) : From(t, k)[j] = t[k + j]
      <4>1. PICK x : x = t
        OBVIOUS
      <4>2. x \in Seq(S)
        BY <1>3, <4>1
      <4>3. IsFrom(S, x, k)
        BY <4>2, FromIsFrom, Zenon
      <4> QED BY <4>1, <4>3 DEF IsFrom
    <3> QED BY <1>6, <3>1
  <2>2. Len(f) = l
    BY <1>3, <2>1
  <2> QED BY <2>1, <2>2
<1>8. f = b
  BY <1>2, <1>5, <1>7, SeqEqual
<1>9. ASSUME NEW n \in Nat, k = n \/ (b = << >> /\ k <= n) PROVE Upto(t, n) = a
  <2>1. PICK u : u = Upto(t, n)
    OBVIOUS
  <2>2. u \in Seq(S) /\ Len(u) = (IF n <= Len(t) THEN n ELSE Len(t)) /\ \A j \in 1 .. Len(u) : u[j] = t[j]
    <3>1. /\ Upto(t, n) \in Seq(S) /\ Len(Upto(t, n)) = IF n <= Len(t) THEN n ELSE Len(t)
          /\ \A j \in 1 .. Len(Upto(t, n)) : Upto(t, n)[j] = t[j]
      BY <1>3, UptoIs, ZenonT(60)
    <3> QED BY <2>1, <3>1
  <2>3. b = << >> => l = 0
    BY <1>2
  <2>4. Len(u) = k
    BY <1>3, <1>9, <2>2, <2>3
  <2>5. u = a
    BY <1>1, <1>4, <2>2, <2>4, SeqEqual
  <2> QED BY <2>1, <2>5
<1>10. Upto(t, k) = a
  BY <1>9
<1> QED BY <1>1, <1>2, <1>3, <1>4, <1>6, <1>8, <1>9, <1>10 DEF InParts

\* c has a count for every number of bytes that a loop of at most n may have got.
Counts(c, n) == \A k \in 0 .. n : c[k] \in Nat

RioT == [stream : Seq(RioBytes), buf : Seq(RioBytes)]

\* What the caller has got, and what the rio_t still has, is the whole.
Divided(bytes, r, all) == bytes \in Seq(RioBytes) /\ r \in RioT /\ bytes \o (r.buf \o r.stream) = all

\* rio_read hands out the next bytes, and none only at the end or on a failure.
LEMMA RioReads ==
  ASSUME StructuresAssumption, NEW r, r \in RioT, NEW n, n \in Nat, n > 0, NEW c, c \in Nat,
         NEW g, g = rio_read(r, n, c)
  PROVE  /\ Divided(g.bytes, g.r, r.buf \o r.stream) /\ Len(g.bytes) <= n
         /\ g.bytes = << >> => r.buf \o r.stream = << >> \/ Fails(r, c)
<1> DEFINE B == RioBytes
<1>0. r.buf \in Seq(B) /\ r.stream \in Seq(B) /\ r = [stream |-> r.stream, buf |-> r.buf]
  BY DEF RioT
<1>1. PICK k : k = Min({RioSize, c})
  OBVIOUS
<1>2. k \in Nat /\ (k = 0 => c = 0)
  <2>1. RioSize \in Nat /\ RioSize > 0
    BY DEF StructuresAssumption
  <2>2. k = IF RioSize <= c THEN RioSize ELSE c
    BY <1>1, <2>1, MinPair
  <2> QED BY <2>1, <2>2
<1>3. PICK f : f = IF r.buf # << >> THEN r ELSE [stream |-> From(r.stream, k), buf |-> Upto(r.stream, k)]
  OBVIOUS
<1>4. g = [bytes |-> Upto(f.buf, n), r |-> [f EXCEPT !.buf = From(@, n)]]
  BY <1>1, <1>3 DEF rio_read
<1> HIDE DEF B
<1>5. /\ f = [stream |-> f.stream, buf |-> f.buf] /\ f.stream \in Seq(B) /\ f.buf \in Seq(B)
      /\ f.buf \o f.stream = r.buf \o r.stream
      /\ f.buf = << >> => r.buf \o r.stream = << >> \/ Fails(r, c)
  <2>1. CASE r.buf # << >>
    BY <1>0, <1>3, <2>1
  <2>2. CASE r.buf = << >>
    <3>1. f = [stream |-> From(r.stream, k), buf |-> Upto(r.stream, k)]
      BY <1>3, <2>2
    <3>2. f.stream = From(r.stream, k) /\ f.buf = Upto(r.stream, k)
      BY <3>1
    <3>3. f.stream \in Seq(B) /\ f.buf \in Seq(B)
      BY <1>0, <1>2, <3>2, FromIs, UptoIs
    <3>4. f.buf \o f.stream = r.stream
      BY <1>0, <1>2, <3>2, Cut
    <3>5. r.buf \o r.stream = r.stream
      BY <1>0, <2>2, ConcatEmptySeq
    <3>6. ASSUME f.buf = << >> PROVE r.stream = << >> \/ Fails(r, c)
      <4>1. Len(f.buf) = IF k <= Len(r.stream) THEN k ELSE Len(r.stream)
        <5>1. Len(Upto(r.stream, k)) = IF k <= Len(r.stream) THEN k ELSE Len(r.stream)
          BY <1>0, <1>2, UptoIs, Zenon
        <5> QED BY <3>2, <5>1
      <4>2. Len(f.buf) = 0
        BY <3>6
      <4>3. CASE Len(r.stream) = 0
        BY <1>0, <4>3, EmptySeq
      <4>4. CASE Len(r.stream) # 0
        <5>1. k = 0
          <6>1. PICK l \in Nat : l = Len(r.stream)
            BY <1>0
          <6> QED BY <1>2, <4>1, <4>2, <4>4, <6>1
        <5> QED BY <1>2, <2>2, <5>1 DEF Fails
      <4> QED BY <4>3, <4>4
    <3> QED BY <3>1, <3>2, <3>3, <3>4, <3>5, <3>6
  <2> QED BY <2>1, <2>2
<1>6. PICK u : u = Upto(f.buf, n)
  OBVIOUS
<1>7. PICK v : v = From(f.buf, n)
  OBVIOUS
<1>8. g.bytes = u /\ g.r = [stream |-> f.stream, buf |-> v]
  BY <1>4, <1>5, <1>6, <1>7
<1>9. u \in Seq(B) /\ v \in Seq(B) /\ u \o v = f.buf
  BY <1>5, <1>6, <1>7, UptoIs, FromIs, Cut
<1>10. g.r.buf = v /\ g.r.stream = f.stream
  BY <1>8
<1>11. u \o (v \o f.stream) = r.buf \o r.stream
  <2>1. PICK st : st = f.stream
    OBVIOUS
  <2>2. st \in Seq(B) /\ u \in Seq(B) /\ v \in Seq(B)
    BY <1>5, <1>9, <2>1
  <2>3. (u \o v) \o st = u \o (v \o st)
    BY <2>2, ConcatAssociative, SMTT(60)
  <2> QED BY <1>5, <1>9, <2>1, <2>3
<1>12. Len(u) = IF n <= Len(f.buf) THEN n ELSE Len(f.buf)
  BY <1>5, <1>6, UptoIs
<1>13. Len(f.buf) \in Nat /\ (Len(f.buf) = 0 => f.buf = << >>)
  BY <1>5, EmptySeq
<1>14. Len(u) <= n
  BY <1>12, <1>13
<1>15. u = << >> => f.buf = << >>
  <2> SUFFICES ASSUME u = << >> PROVE f.buf = << >>
    OBVIOUS
  <2>1. Len(u) = 0
    OBVIOUS
  <2> QED BY <1>12, <1>13, <2>1
<1>16. g.r \in RioT
  BY <1>5, <1>8, <1>9 DEF RioT, B
<1> QED BY <1>5, <1>8, <1>9, <1>10, <1>11, <1>14, <1>15, <1>16 DEF Divided, B

\* Bytes that a call of rio_read adds to those got before.
LEMMA DividedOn ==
  ASSUME NEW bytes, NEW r, NEW all, Divided(bytes, r, all),
         NEW more, NEW q, Divided(more, q, r.buf \o r.stream)
  PROVE  Divided(bytes \o more, q, all) /\ Len(bytes \o more) = Len(bytes) + Len(more)
<1>1. /\ bytes \in Seq(RioBytes) /\ more \in Seq(RioBytes) /\ q \in RioT
      /\ q.buf \in Seq(RioBytes) /\ q.stream \in Seq(RioBytes)
  BY DEF Divided, RioT
<1>2. PICK rest : rest = q.buf \o q.stream
  OBVIOUS
<1>3. rest \in Seq(RioBytes)
  <2>1. PICK x : x = q.buf
    OBVIOUS
  <2>2. PICK y : y = q.stream
    OBVIOUS
  <2>3. x \in Seq(RioBytes) /\ y \in Seq(RioBytes)
    BY <1>1, <2>1, <2>2
  <2>4. x \o y \in Seq(RioBytes)
    BY <2>3, ConcatProperties
  <2> QED BY <1>2, <2>1, <2>2, <2>4
<1>4. bytes \o (more \o rest) = all
  BY <1>2 DEF Divided
<1>5. (bytes \o more) \o rest = bytes \o (more \o rest)
  BY <1>1, <1>3, ConcatAssociative, SMTT(60)
<1>6. bytes \o more \in Seq(RioBytes) /\ Len(bytes \o more) = Len(bytes) + Len(more)
  BY <1>1, ConcatProperties
<1> QED BY <1>1, <1>2, <1>4, <1>5, <1>6 DEF Divided

\* A call has got what it should, or on a failure the first of that, and the rio_t
\* has the rest.
Handed(s, all, want) ==
  /\ s.bytes = Expected(s, want) /\ s.r \in RioT
  /\ s.r.buf \o s.r.stream = From(all, Len(s.bytes))

\* A loop that has got bytes, has come to its end e, and returns g.
Over(e, more, c, g) ==
  /\ g = Returned(e, more, c)
  /\ ~more \/ e.r.buf \o e.r.stream = << >> \/ Fails(e.r, c[Len(e.bytes)])

\* A division of the bytes whose first part has n of them, or all.
LEMMA DividedEnds ==
  ASSUME NEW bytes, NEW r, NEW all, NEW n, n \in Nat, Divided(bytes, r, all),
         Len(bytes) = n \/ (r.buf \o r.stream = << >> /\ Len(bytes) <= n)
  PROVE  bytes = Upto(all, n) /\ r.buf \o r.stream = From(all, Len(bytes))
<1>1. /\ bytes \in Seq(RioBytes) /\ r.buf \in Seq(RioBytes) /\ r.stream \in Seq(RioBytes)
      /\ all = bytes \o (r.buf \o r.stream)
  BY DEF Divided, RioT
<1>2. PICK rest : rest = r.buf \o r.stream
  OBVIOUS
<1>3. rest \in Seq(RioBytes) /\ all = bytes \o rest
  <2>1. PICK x : x = r.buf
    OBVIOUS
  <2>2. PICK y : y = r.stream
    OBVIOUS
  <2>3. x \in Seq(RioBytes) /\ y \in Seq(RioBytes)
    BY <1>1, <2>1, <2>2
  <2>4. x \o y \in Seq(RioBytes)
    BY <2>3, ConcatProperties
  <2> QED BY <1>1, <1>2, <2>1, <2>2, <2>4
<1>4. bytes \in Seq(RioBytes)
  BY <1>1
<1>5. InParts(RioBytes, bytes, rest, all)
  BY <1>3, <1>4, SplitIs, Zenon
<1>6. From(all, Len(bytes)) = rest /\ ((Len(bytes) = n \/ (rest = << >> /\ Len(bytes) <= n)) => Upto(all, n) = bytes)
  BY <1>5, Zenon DEF InParts
<1> QED BY <1>2, <1>6

\* The whole is a sequence of bytes.
LEMMA DividedWhole ==
  ASSUME NEW bytes, NEW r, NEW all, Divided(bytes, r, all)
  PROVE  all \in Seq(RioBytes) /\ bytes \in Seq(RioBytes) /\ Len(bytes) \in Nat
<1>1. PICK x : x = r.buf
  OBVIOUS
<1>2. PICK y : y = r.stream
  OBVIOUS
<1>3. x \in Seq(RioBytes) /\ y \in Seq(RioBytes) /\ bytes \in Seq(RioBytes)
  BY <1>1, <1>2 DEF Divided, RioT
<1>4. PICK rest : rest = x \o y
  OBVIOUS
<1>5. rest \in Seq(RioBytes)
  BY <1>3, <1>4, ConcatProperties
<1>6. bytes \o rest \in Seq(RioBytes)
  BY <1>3, <1>5, ConcatProperties
<1>7. bytes \o rest = all
  BY <1>1, <1>2, <1>4 DEF Divided
<1>8. Len(bytes) \in Nat
  BY <1>3
<1> QED BY <1>3, <1>6, <1>7, <1>8, Zenon

\* What a loop that asked for the next n bytes has returned.
LEMMA ReturnedIs ==
  ASSUME NEW e, NEW all, NEW n, n \in Nat, NEW c, NEW g, Divided(e.bytes, e.r, all), Len(e.bytes) <= n,
         Over(e, Len(e.bytes) < n, c, g)
  PROVE  Handed(g, all, Upto(all, n))
<1>a. PICK b : b = e.bytes
  OBVIOUS
<1>b. PICK q : q = e.r
  OBVIOUS
<1>c. Divided(b, q, all)
  BY <1>a, <1>b
<1>1. PICK l \in Nat : l = Len(b) /\ l = Len(e.bytes)
  BY <1>a, <1>c, DividedWhole
<1>2. l <= n /\ all \in Seq(RioBytes)
  <2>1. all \in Seq(RioBytes)
    BY <1>c, DividedWhole, Zenon
  <2> QED BY <1>1, <2>1
<1>3. g.bytes = e.bytes /\ g.r = e.r /\ g.err = (l < n /\ Fails(e.r, c[l])) /\ e.r \in RioT
  BY <1>1 DEF Over, Returned, Divided
<1>d. ASSUME NEW m, m \in Nat, l = m \/ (q.buf \o q.stream = << >> /\ l <= m)
      PROVE  b = Upto(all, m) /\ q.buf \o q.stream = From(all, Len(b))
  <2>1. Len(b) = m \/ (q.buf \o q.stream = << >> /\ Len(b) <= m)
    BY <1>1, <1>d, Zenon
  <2> QED BY <1>c, <1>d, <2>1, DividedEnds, Zenon
<1>4. e.bytes = Upto(all, l) /\ e.r.buf \o e.r.stream = From(all, l)
  BY <1>1, <1>a, <1>b, <1>d
<1>5. CASE g.err
  <2>1. Upto(Upto(all, n), l) = Upto(all, l)
    BY <1>2, UptoUpto, Zenon
  <2> QED BY <1>1, <1>3, <1>4, <1>5, <2>1 DEF Handed, Expected
<1>6. CASE ~g.err
  <2>1. l = n \/ (e.r.buf \o e.r.stream = << >> /\ l <= n)
    <3>1. ~(l < n) \/ e.r.buf \o e.r.stream = << >> \/ Fails(e.r, c[l])
      BY <1>1 DEF Over
    <3>2. ~(l < n) => l = n
      BY <1>2
    <3> QED BY <1>2, <1>3, <1>6, <3>1, <3>2
  <2>2. e.bytes = Upto(all, n)
    BY <1>a, <1>b, <1>d, <2>1
  <2> QED BY <1>1, <1>3, <1>4, <1>6, <2>2 DEF Handed, Expected
<1> QED BY <1>5, <1>6

\* Nothing is got at first.
LEMMA DividedStart ==
  ASSUME NEW r, r \in RioT
  PROVE  Divided(<< >>, r, r.buf \o r.stream)
<1>1. PICK x : x = r.buf
  OBVIOUS
<1>2. PICK y : y = r.stream
  OBVIOUS
<1>3. x \in Seq(RioBytes) /\ y \in Seq(RioBytes)
  BY <1>1, <1>2 DEF RioT
<1>4. x \o y \in Seq(RioBytes)
  BY <1>3, ConcatProperties
<1>5. << >> \o (x \o y) = x \o y
  BY <1>4, ConcatEmptySeq
<1>6. << >> \in Seq(RioBytes)
  OBVIOUS
<1> QED BY <1>1, <1>2, <1>5, <1>6 DEF Divided

\* A sequence that is not empty has an element.
LEMMA LenZero ==
  ASSUME NEW S, NEW s, s \in Seq(S)
  PROVE  Len(s) \in Nat /\ (s # << >> => Len(s) > 0)
BY EmptySeq

\* rio_readnb gets n bytes, or all that there are, but for a failure.
LEMMA ReadnbIs ==
  ASSUME StructuresAssumption, NEW r, r \in RioT, NEW n, n \in Nat, NEW c, Counts(c, n)
  PROVE  Handed(rio_readnb(r, n, c), r.buf \o r.stream, Upto(r.buf \o r.stream, n))
<1> DEFINE body == [s \in RioStates |->
                      LET got == rio_read(s.r, n - Len(s.bytes), c[Len(s.bytes)])
                      IN  IF Len(s.bytes) = n \/ got.bytes = << >> THEN s
                          ELSE [bytes |-> s.bytes \o got.bytes, r |-> got.r]]
           all == r.buf \o r.stream
           Good == {s \in RioStates : Divided(s.bytes, s.r, all) /\ Len(s.bytes) <= n}
           measure == [s \in Good |-> n - Len(s.bytes)]
           start == [bytes |-> << >>, r |-> r]
<1> HIDE DEF all
<1>1. ASSUME NEW s \in Good
      PROVE  /\ s.bytes \in Seq(RioBytes) /\ Len(s.bytes) \in Nat /\ s.r \in RioT /\ s \in RioStates
             /\ body[s] = s \/ (body[s] \in Good /\ Len(body[s].bytes) > Len(s.bytes))
             /\ body[s] = s => \/ Len(s.bytes) = n \/ s.r.buf \o s.r.stream = << >>
                               \/ Fails(s.r, c[Len(s.bytes)])
  <2>1. s.bytes \in Seq(RioBytes) /\ Len(s.bytes) \in Nat /\ s.r \in RioT /\ s \in RioStates
    BY DEF Divided
  <2>0. PICK d \in Nat : d = c[Len(s.bytes)]
    BY <2>1 DEF Counts
  <2>2. PICK g : g = rio_read(s.r, n - Len(s.bytes), d)
    OBVIOUS
  <2>3. body[s] = IF Len(s.bytes) = n \/ g.bytes = << >> THEN s
                  ELSE [bytes |-> s.bytes \o g.bytes, r |-> g.r]
    BY <2>0, <2>1, <2>2
  <2>4. CASE Len(s.bytes) = n
    BY <2>1, <2>3, <2>4
  <2>5. CASE Len(s.bytes) # n
    <3>1. PICK m \in Nat : m = n - Len(s.bytes) /\ m > 0
      <4>1. PICK x \in Nat : x = Len(s.bytes)
        BY <2>1
      <4>2. x <= n /\ x # n
        BY <2>5, <4>1
      <4>3. n - x \in Nat /\ n - x > 0
        BY <4>2
      <4> QED BY <4>1, <4>3, Zenon
    <3>2. PICK q : q = s.r
      OBVIOUS
    <3>3. Divided(g.bytes, g.r, q.buf \o q.stream) /\ Len(g.bytes) <= m
          /\ (g.bytes = << >> => q.buf \o q.stream = << >> \/ Fails(q, d))
      BY <2>0, <2>1, <2>2, <3>1, <3>2, RioReads
    <3>4. CASE g.bytes = << >>
      BY <2>0, <2>1, <2>3, <3>2, <3>3, <3>4
    <3>5. CASE g.bytes # << >>
      <4>1. PICK h : h = [bytes |-> s.bytes \o g.bytes, r |-> g.r]
        OBVIOUS
      <4>2. body[s] = h
        BY <2>3, <2>5, <3>5, <4>1
      <4>3. Divided(s.bytes, q, all)
        BY <3>2
      <4>4. Divided(s.bytes \o g.bytes, g.r, all) /\ Len(s.bytes \o g.bytes) = Len(s.bytes) + Len(g.bytes)
        BY <3>3, <4>3, DividedOn, Zenon
      <4>5. g.bytes \in Seq(RioBytes) /\ Len(g.bytes) \in Nat /\ Len(g.bytes) > 0
        BY <3>3, <3>5, LenZero DEF Divided
      <4>6. Len(s.bytes \o g.bytes) > Len(s.bytes) /\ Len(s.bytes \o g.bytes) <= n
        <5>1. PICK x \in Nat : x = Len(s.bytes)
          BY <2>1
        <5>2. PICK y \in Nat : y = Len(g.bytes)
          BY <4>5
        <5>3. PICK z : z = Len(s.bytes \o g.bytes)
          OBVIOUS
        <5>4. z = x + y /\ y > 0 /\ y <= m /\ m = n - x
          BY <3>1, <3>3, <4>4, <4>5, <5>1, <5>2, <5>3, Zenon
        <5>5. z > x /\ z <= n
          BY <5>4
        <5> QED BY <5>1, <5>3, <5>5, Zenon
      <4>7. h \in RioStates
        BY <4>1, <4>4 DEF RioStates, Divided, RioT
      <4>8. h.bytes = s.bytes \o g.bytes /\ h.r = g.r
        BY <4>1
      <4>9. h \in Good
        BY <4>4, <4>6, <4>7, <4>8
      <4>10. Len(h.bytes) > Len(s.bytes) /\ h # s
        <5>1. Len(h.bytes) > Len(s.bytes)
          BY <4>6, <4>8, Zenon
        <5>2. ~(Len(s.bytes) > Len(s.bytes))
          BY <2>1
        <5> QED BY <5>1, <5>2, Zenon
      <4> QED BY <2>1, <4>2, <4>9, <4>10
    <3> QED BY <3>4, <3>5
  <2> QED BY <2>4, <2>5
<1>2. start \in Good
  <2>1. Divided(<< >>, r, all)
    BY DividedStart DEF all
  <2>2. start \in RioStates
    BY DEF RioStates, RioT
  <2>3. Len(<< >>) <= n
    OBVIOUS
  <2> QED BY <2>1, <2>2, <2>3
<1>3. \A s \in Good : Len(s.bytes) <= n
  OBVIOUS
<1>4. measure \in [Good -> Nat]
  BY <1>1, <1>3
<1>5. \A s \in Good : measure[s] = n - Len(s.bytes)
  OBVIOUS
<1>6. measure[start] <= n
  <2>1. Len(start.bytes) = 0
    OBVIOUS
  <2> QED BY <1>2, <1>5, <2>1
<1> HIDE DEF body, measure
<1>7. Keeps(body, Good)
  BY <1>1 DEF Keeps
<1>8. Falls(body, Good, measure)
  BY <1>1, <1>3, <1>4, <1>5 DEF Falls
<1>9. PICK e : e = Loop(body, start, n)
  OBVIOUS
<1>10. e \in Good /\ body[e] = e
  <2> HIDE DEF Good, start
  <2>1. Ends(body, Good, start, n)
    BY <1>2, <1>6, <1>7, <1>8, LoopComesToEnd, Zenon
  <2> QED BY <1>9, <2>1, Zenon DEF Ends
<1>11. rio_readnb(r, n, c) = Returned(e, Len(e.bytes) < n, c)
  BY <1>9, Zenon DEF rio_readnb, body
<1>12. Divided(e.bytes, e.r, all) /\ Len(e.bytes) <= n
  BY <1>10
<1>13. Len(e.bytes) = n \/ e.r.buf \o e.r.stream = << >> \/ Fails(e.r, c[Len(e.bytes)])
  BY <1>1, <1>10
<1>14. Len(e.bytes) = n => ~(Len(e.bytes) < n)
  BY <1>12
<1>15. PICK g : g = rio_readnb(r, n, c)
  OBVIOUS
<1>16. Over(e, Len(e.bytes) < n, c, g)
  BY <1>11, <1>13, <1>14, <1>15 DEF Over
<1>17. Handed(g, all, Upto(all, n))
  BY <1>12, <1>16, ReturnedIs
<1> QED BY <1>15, <1>17 DEF all

\* Part of the first line of all, without its end or with it.
InLine(bytes, r, all, maxlen) ==
  /\ Divided(bytes, r, all) /\ Len(bytes) + 1 <= maxlen
  /\ \A k \in 1 .. Len(bytes) - 1 : bytes[k] # Newline

\* They are the first bytes of the line, and all of it if the loop ends for any
\* reason but a failure.
OfLine(bytes, r, all, maxlen) ==
  /\ bytes = Upto(Line(all, maxlen), Len(bytes))
  /\ r.buf \o r.stream = From(all, Len(bytes))
  /\ Complete(bytes, maxlen) \/ r.buf \o r.stream = << >> => bytes = Line(all, maxlen)

\* What a loop has got is the first part of the line, and the line if it is complete.
LEMMA LineEnds ==
  ASSUME NEW bytes, NEW r, NEW all, NEW maxlen, maxlen \in Nat, InLine(bytes, r, all, maxlen)
  PROVE  OfLine(bytes, r, all, maxlen)
<1>1. /\ bytes \in Seq(RioBytes) /\ r.buf \in Seq(RioBytes) /\ r.stream \in Seq(RioBytes)
      /\ all = bytes \o (r.buf \o r.stream)
  BY DEF InLine, Divided, RioT
<1>2. PICK rest : rest = r.buf \o r.stream
  OBVIOUS
<1>3. rest \in Seq(RioBytes) /\ all = bytes \o rest
  <2>1. PICK x : x = r.buf
    OBVIOUS
  <2>2. PICK y : y = r.stream
    OBVIOUS
  <2>3. x \in Seq(RioBytes) /\ y \in Seq(RioBytes)
    BY <1>1, <2>1, <2>2
  <2>4. x \o y \in Seq(RioBytes)
    BY <2>3, ConcatProperties
  <2> QED BY <1>1, <1>2, <2>1, <2>2, <2>4
<1>4. bytes \in Seq(RioBytes)
  BY <1>1
<1>5. InParts(RioBytes, bytes, rest, all)
  BY <1>3, <1>4, SplitIs, Zenon
<1>6. PICK l \in Nat : l = Len(bytes)
  BY <1>4
<1>7. PICK m \in Nat : m = Len(rest)
  BY <1>3
<1>8. /\ Upto(all, l) = bytes /\ From(all, l) = rest /\ all \in Seq(RioBytes) /\ Len(all) = l + m
      /\ \A j \in 1 .. l : all[j] = bytes[j]
  BY <1>5, <1>6, <1>7 DEF InParts
<1>9. l + 1 <= maxlen /\ \A k \in 1 .. l - 1 : bytes[k] # Newline
  BY <1>6, Zenon DEF InLine
<1> DEFINE ends == {k \in DOMAIN all : all[k] = Newline}
           stops == {maxlen - 1, Len(all)} \cup ends
<1>10. DOMAIN all = 1 .. l + m
  BY <1>8
<1>11. ASSUME Complete(bytes, maxlen) \/ rest = << >> PROVE l \in stops
  <2>1. CASE Len(bytes) + 1 >= maxlen
    <3>1. l = maxlen - 1
      BY <1>6, <1>9, <2>1
    <3> QED BY <3>1
  <2>2. CASE rest = << >>
    <3>1. m = 0
      BY <1>7, <2>2
    <3> QED BY <1>8, <3>1
  <2>3. CASE bytes # << >> /\ Last(bytes) = Newline
    <3>1. l > 0
      BY <1>4, <1>6, <2>3, LenZero
    <3>2. l \in 1 .. l /\ l \in 1 .. l + m /\ bytes[l] = Newline
      BY <1>6, <2>3, <3>1 DEF Last
    <3>3. all[l] = Newline
      BY <1>8, <3>2
    <3> QED BY <1>10, <3>2, <3>3
  <2> QED BY <1>11, <2>1, <2>2, <2>3 DEF Complete
<1>12. \A x \in stops : x \in Int /\ l <= x
  <2> SUFFICES ASSUME NEW x \in stops PROVE x \in Int /\ l <= x
    OBVIOUS
  <2>1. CASE x = maxlen - 1
    BY <1>9, <2>1
  <2>2. CASE x = Len(all)
    BY <1>8, <2>2
  <2>3. CASE x \in ends
    <3>1. x \in 1 .. l + m /\ all[x] = Newline
      BY <1>10, <2>3
    <3>2. SUFFICES ASSUME ~(l <= x) PROVE FALSE
      BY <3>1
    <3>3. x \in 1 .. l - 1 /\ x \in 1 .. l
      BY <3>1, <3>2
    <3> QED BY <1>8, <1>9, <3>1, <3>3
  <2> QED BY <2>1, <2>2, <2>3
<1>13. PICK m2 \in Nat : m2 \in stops /\ \A x \in stops : m2 <= x
  <2>1. ASSUME NEW x \in stops PROVE x \in Nat
    <3>1. x \in Int /\ l <= x
      BY <1>12
    <3> QED BY <3>1
  <2>2. maxlen - 1 \in stops
    OBVIOUS
  <2> HIDE DEF stops
  <2>3. stops \subseteq Nat /\ stops # {}
    BY <2>1, <2>2
  <2> QED BY <2>3, LeastIn, Zenon
<1>14. Min(stops) = m2 /\ l <= m2
  <2>0. l <= m2
    BY <1>12, <1>13
  <2> HIDE DEF stops
  <2>1. \A x \in stops : (\A y \in stops : x <= y) => x = m2
    BY <1>12, <1>13
  <2> QED BY <1>13, <2>0, <2>1 DEF Min
<1>15. Line(all, maxlen) = Upto(all, m2)
  BY <1>14, Zenon DEF Line
<1>16. Upto(Upto(all, m2), l) = Upto(all, l)
  BY <1>8, <1>14, UptoUpto, Zenon
<1>17. ASSUME Complete(bytes, maxlen) \/ r.buf \o r.stream = << >> PROVE bytes = Line(all, maxlen)
  <2>1. l \in stops
    BY <1>2, <1>11, <1>17
  <2>2. m2 = l
    BY <1>13, <1>14, <2>1
  <2> QED BY <1>8, <1>15, <2>2
<1> QED BY <1>2, <1>6, <1>8, <1>15, <1>16, <1>17 DEF OfLine

\* The line that a loop has got when it ends.
LEMMA LineReturned ==
  ASSUME NEW e, NEW all, NEW maxlen, maxlen \in Nat, NEW c, NEW g, InLine(e.bytes, e.r, all, maxlen),
         Over(e, ~Complete(e.bytes, maxlen), c, g)
  PROVE  Handed(g, all, Line(all, maxlen))
<1>1. PICK b : b = e.bytes
  OBVIOUS
<1>2. PICK q : q = e.r
  OBVIOUS
<1>3. InLine(b, q, all, maxlen) /\ q \in RioT
  BY <1>1, <1>2 DEF InLine, Divided
<1>4. g.bytes = b /\ g.r = q /\ g.err = (~Complete(b, maxlen) /\ Fails(q, c[Len(b)]))
  BY <1>1, <1>2 DEF Over, Returned
<1>5. OfLine(b, q, all, maxlen)
  BY <1>3, LineEnds, Zenon
<1>6. Complete(b, maxlen) \/ q.buf \o q.stream = << >> \/ Fails(q, c[Len(b)])
  BY <1>1, <1>2 DEF Over
<1>7. b = Expected(g, Line(all, maxlen))
  <2>1. CASE g.err
    BY <1>4, <1>5, <2>1 DEF Expected, OfLine
  <2>2. CASE ~g.err
    BY <1>4, <1>5, <1>6, <2>2 DEF Expected, OfLine
  <2> QED BY <2>1, <2>2
<1> QED BY <1>3, <1>4, <1>5, <1>7 DEF Handed, OfLine

\* rio_readlineb gets the rest of the line, as far as it fits, but for a failure.
LEMMA ReadlinebIs ==
  ASSUME StructuresAssumption, NEW r, r \in RioT, NEW maxlen, maxlen \in Nat, maxlen > 0,
         NEW c, Counts(c, maxlen - 1)
  PROVE  Handed(rio_readlineb(r, maxlen, c), r.buf \o r.stream, Line(r.buf \o r.stream, maxlen))
<1> DEFINE body == [s \in RioStates |->
                      LET got == rio_read(s.r, 1, c[Len(s.bytes)])
                      IN  IF Complete(s.bytes, maxlen) \/ got.bytes = << >> THEN s
                          ELSE [bytes |-> s.bytes \o got.bytes, r |-> got.r]]
           all == r.buf \o r.stream
           Good == {s \in RioStates : InLine(s.bytes, s.r, all, maxlen)}
           measure == [s \in Good |-> maxlen - Len(s.bytes)]
           start == [bytes |-> << >>, r |-> r]
           Ended(s) == \/ Complete(s.bytes, maxlen) \/ s.r.buf \o s.r.stream = << >>
                       \/ Fails(s.r, c[Len(s.bytes)])
<1> HIDE DEF all
<1>1. ASSUME NEW s \in Good
      PROVE  /\ Len(s.bytes) \in Nat /\ Len(s.bytes) <= maxlen
             /\ body[s] = s \/ (body[s] \in Good /\ Len(body[s].bytes) > Len(s.bytes))
             /\ body[s] = s => Ended(s)
  <2>1. s.bytes \in Seq(RioBytes) /\ Len(s.bytes) \in Nat /\ s.r \in RioT /\ s \in RioStates
    BY DEF InLine, Divided
  <2>0. PICK d \in Nat : d = c[Len(s.bytes)]
    BY <2>1 DEF Counts, InLine
  <2>2. PICK g : g = rio_read(s.r, 1, d)
    OBVIOUS
  <2>3. body[s] = IF Complete(s.bytes, maxlen) \/ g.bytes = << >> THEN s
                  ELSE [bytes |-> s.bytes \o g.bytes, r |-> g.r]
    BY <2>0, <2>1, <2>2
  <2>4. PICK l \in Nat : l = Len(s.bytes)
    BY <2>1
  <2>5. l + 1 <= maxlen /\ \A k \in 1 .. l - 1 : s.bytes[k] # Newline
    BY <2>4 DEF InLine
  <2>6. l <= maxlen
    BY <2>5
  <2>7. PICK q : q = s.r
    OBVIOUS
  <2>8. Divided(g.bytes, g.r, q.buf \o q.stream) /\ Len(g.bytes) <= 1
        /\ (g.bytes = << >> => q.buf \o q.stream = << >> \/ Fails(q, d))
    <3>1. q \in RioT /\ d \in Nat /\ g = rio_read(q, 1, d)
      BY <2>0, <2>1, <2>2, <2>7, Zenon
    <3>2. 1 \in Nat /\ 1 > 0
      OBVIOUS
    <3> QED BY <3>1, <3>2, RioReads, Zenon
  <2>9. CASE Complete(s.bytes, maxlen) \/ g.bytes = << >>
    <3>1. Ended(s)
      BY <2>0, <2>7, <2>8, <2>9
    <3> QED BY <2>3, <2>4, <2>6, <2>9, <3>1
  <2>10. CASE ~(Complete(s.bytes, maxlen) \/ g.bytes = << >>)
    <3>1. PICK h : h = [bytes |-> s.bytes \o g.bytes, r |-> g.r]
      OBVIOUS
    <3>2. body[s] = h
      BY <2>3, <2>10, <3>1
    <3>3. Divided(s.bytes, q, all)
      BY <2>7 DEF InLine
    <3>4. PICK b : b = s.bytes
      OBVIOUS
    <3>5. PICK t : t = b \o g.bytes
      OBVIOUS
    <3>6. Divided(t, g.r, all) /\ Len(t) = l + Len(g.bytes)
      <4>1. Divided(s.bytes \o g.bytes, g.r, all)
            /\ Len(s.bytes \o g.bytes) = Len(s.bytes) + Len(g.bytes)
        BY <2>8, <3>3, DividedOn, Zenon
      <4> QED BY <2>4, <3>4, <3>5, <4>1
    <3>7. g.bytes \in Seq(RioBytes) /\ Len(g.bytes) \in Nat /\ Len(g.bytes) > 0
      BY <2>8, <2>10, LenZero DEF Divided
    <3>8. PICK y \in Nat : y = Len(g.bytes)
      BY <3>7
    <3>9. y = 1 /\ Len(t) = l + 1
      <4>1. y <= 1 /\ y > 0 /\ Len(t) = l + y
        BY <2>8, <3>6, <3>7, <3>8, Zenon
      <4> QED BY <4>1
    <3>10. ~(l + 1 >= maxlen)
      BY <2>4, <2>10 DEF Complete
    <3>11. Len(t) + 1 <= maxlen
      BY <3>9, <3>10
    <3>12. \A k \in 1 .. l : t[k] = b[k]
      <4>1. b \in Seq(RioBytes) /\ Len(b) = l
        BY <2>1, <2>4, <3>4
      <4>2. PICK more : more = g.bytes
        OBVIOUS
      <4>3. more \in Seq(RioBytes) /\ t = b \o more
        BY <3>5, <3>7, <4>2
      <4>4. InParts(RioBytes, b, more, t)
        BY <4>1, <4>3, SplitIs, Zenon
      <4> QED BY <4>1, <4>4 DEF InParts
    <3>13. ASSUME NEW k \in 1 .. Len(t) - 1 PROVE t[k] # Newline
      <4>1. k \in 1 .. l
        BY <3>9
      <4>2. CASE k = l
        <5>1. s.bytes # << >>
          BY <2>4, <4>1, <4>2
        <5>2. Last(s.bytes) # Newline
          BY <2>10, <5>1 DEF Complete
        <5>3. b[k] # Newline
          BY <2>4, <3>4, <4>2, <5>2 DEF Last
        <5> QED BY <3>12, <4>1, <5>3
      <4>3. CASE k # l
        <5>1. k \in 1 .. l - 1
          BY <4>1, <4>3
        <5> QED BY <2>5, <3>4, <3>12, <4>1, <5>1
      <4> QED BY <4>2, <4>3
    <3>14. InLine(t, g.r, all, maxlen)
      BY <3>6, <3>11, <3>13 DEF InLine
    <3>15. h.bytes = t /\ h.r = g.r
      BY <3>1, <3>4, <3>5
    <3>16. h \in RioStates
      BY <3>1, <3>4, <3>5, <3>6 DEF RioStates, Divided, RioT
    <3>17. h \in Good
      BY <3>14, <3>15, <3>16
    <3>18. Len(h.bytes) = l + 1 /\ h # s
      BY <2>4, <3>9, <3>15
    <3>19. l + 1 > l
      OBVIOUS
    <3> QED BY <2>4, <2>6, <3>2, <3>17, <3>18, <3>19
  <2> QED BY <2>9, <2>10
<1>2. start \in Good
  <2>1. Divided(<< >>, r, all)
    BY DividedStart DEF all
  <2>2. start \in RioStates
    BY DEF RioStates, RioT
  <2>3. Len(<< >>) + 1 <= maxlen /\ \A k \in 1 .. Len(<< >>) - 1 : << >>[k] # Newline
    OBVIOUS
  <2> QED BY <2>1, <2>2, <2>3 DEF InLine
<1>3. \A s \in Good : Len(s.bytes) \in Nat /\ Len(s.bytes) <= maxlen
  BY <1>1, Zenon
<1> HIDE DEF body, Good, Ended
<1>4. measure \in [Good -> Nat]
  BY <1>3
<1>5. \A s \in Good : measure[s] = maxlen - Len(s.bytes)
  OBVIOUS
<1>6. measure[start] <= maxlen
  <2>1. Len(start.bytes) = 0
    OBVIOUS
  <2> QED BY <1>2, <1>5, <2>1
<1> HIDE DEF measure, start
<1>7. Keeps(body, Good)
  BY <1>1 DEF Keeps
<1>8. Falls(body, Good, measure)
  BY <1>1, <1>4, <1>5 DEF Falls
<1>9. PICK e : e = Loop(body, start, maxlen)
  OBVIOUS
<1>10. e \in Good /\ body[e] = e
  <2>1. Ends(body, Good, start, maxlen)
    BY <1>2, <1>6, <1>7, <1>8, LoopComesToEnd, Zenon
  <2> QED BY <1>9, <2>1, Zenon DEF Ends
<1>11. rio_readlineb(r, maxlen, c) = Returned(e, ~Complete(e.bytes, maxlen), c)
  BY <1>9, Zenon DEF rio_readlineb, body, start
<1>12. InLine(e.bytes, e.r, all, maxlen) /\ Ended(e)
  BY <1>1, <1>10 DEF Good
<1>13. PICK g : g = rio_readlineb(r, maxlen, c)
  OBVIOUS
<1>14. Over(e, ~Complete(e.bytes, maxlen), c, g)
  BY <1>11, <1>12, <1>13 DEF Over, Ended
<1>15. Handed(g, all, Line(all, maxlen))
  BY <1>12, <1>14, LineReturned, Zenon
<1> QED BY <1>13, <1>15 DEF all

Associates(a, b, c) == (a \o b) \o c = a \o (b \o c)
\* Concatenation associates.
LEMMA Associative ==
  ASSUME NEW S, NEW a, NEW b, NEW c, a \in Seq(S), b \in Seq(S), c \in Seq(S)
  PROVE  Associates(a, b, c)
BY ConcatAssociative DEF Associates

\* rio_readn gets n bytes, or all that there are, without the buffer, but for a
\* failure.
LEMMA ReadnIs ==
  ASSUME NEW stream, stream \in Seq(RioBytes), NEW n, n \in Nat, NEW c, Counts(c, n)
  PROVE  /\ Handed(rio_readn(stream, n, c), stream, Upto(stream, n))
         /\ rio_readn(stream, n, c).r.buf = << >>
<1> DEFINE body == [s \in RioStates |->
                      LET k == Min({n - Len(s.bytes), c[Len(s.bytes)]})
                      IN  [bytes |-> s.bytes \o Upto(s.r.stream, k),
                           r |-> [s.r EXCEPT !.stream = From(@, k)]]]
           Good == {s \in RioStates : /\ s.bytes \o s.r.stream = stream
                                      /\ Len(s.bytes) <= n /\ s.r.buf = << >>}
           measure == [s \in Good |-> n - Len(s.bytes)]
           start == [bytes |-> << >>, r |-> [stream |-> stream, buf |-> << >>]]
           Ended(s) == Len(s.bytes) = n \/ s.r.stream = << >> \/ c[Len(s.bytes)] = 0
<1>1. ASSUME NEW s \in Good
      PROVE  /\ Len(s.bytes) \in Nat /\ Len(s.bytes) <= n
             /\ body[s] = s \/ (body[s] \in Good /\ Len(body[s].bytes) > Len(s.bytes))
             /\ body[s] = s => Ended(s)
  <2>1. PICK b : b = s.bytes
    OBVIOUS
  <2>2. PICK t : t = s.r.stream
    OBVIOUS
  <2>3. /\ b \in Seq(RioBytes) /\ t \in Seq(RioBytes) /\ b \o t = stream /\ Len(b) <= n
        /\ s = [bytes |-> b, r |-> [stream |-> t, buf |-> << >>]]
    BY <2>1, <2>2 DEF RioStates
  <2>4. PICK l \in Nat : l = Len(b)
    BY <2>3
  <2>5. PICK k : k = Min({n - Len(s.bytes), c[Len(s.bytes)]})
    OBVIOUS
  <2>0. PICK x \in Nat : x = c[l]
    <3>1. l \in 0 .. n
      BY <2>3, <2>4
    <3>2. \A j \in 0 .. n : c[j] \in Nat
      BY Zenon DEF Counts
    <3>3. c[l] \in Nat
      BY <3>1, <3>2, Zenon
    <3> QED BY <3>3, Zenon
  <2>6. k = IF n - l <= x THEN n - l ELSE x
    <3>1. k = Min({n - l, x})
      BY <2>0, <2>1, <2>4, <2>5
    <3>2. PICK d \in Int : d = n - l
      OBVIOUS
    <3>3. Min({d, x}) = IF d <= x THEN d ELSE x
      <4>1. x \in Int
        OBVIOUS
      <4> QED BY <4>1, MinPair, Zenon
    <3> QED BY <3>1, <3>2, <3>3
  <2>7. l <= n /\ k \in Nat /\ k <= n - l /\ (k = 0 => l = n \/ x = 0)
    BY <2>0, <2>3, <2>4, <2>6
  <2>8. PICK u : u = Upto(t, k)
    OBVIOUS
  <2>9. PICK f : f = From(t, k)
    OBVIOUS
  <2>10. u \in Seq(RioBytes) /\ Len(u) = (IF k <= Len(t) THEN k ELSE Len(t))
    BY <2>3, <2>7, <2>8, UptoIs
  <2>11. f \in Seq(RioBytes)
    BY <2>3, <2>7, <2>9, FromIs
  <2>12. u \o f = t
    BY <2>3, <2>7, <2>8, <2>9, Cut
  <2>13. body[s] = [bytes |-> s.bytes \o Upto(s.r.stream, k), r |-> [s.r EXCEPT !.stream = From(@, k)]]
    BY <2>5
  <2>14. PICK h : h = [bytes |-> b \o u, r |-> [stream |-> f, buf |-> << >>]]
    OBVIOUS
  <2>15. s.r = [stream |-> t, buf |-> << >>]
    BY <2>3
  <2>16. [s.r EXCEPT !.stream = From(@, k)] = [stream |-> f, buf |-> << >>]
    BY <2>9, <2>15
  <2>17. body[s] = h
    BY <2>1, <2>2, <2>8, <2>13, <2>14, <2>16
  <2>18. Len(t) \in Nat /\ Len(u) \in Nat /\ (t # << >> => Len(t) > 0)
    BY <2>3, <2>10, LenZero
  <2>19. CASE u = << >>
    <3>1. f = t
      BY <2>11, <2>12, <2>19, ConcatEmptySeq
    <3>2. b \o u = b
      BY <2>3, <2>19, ConcatEmptySeq
    <3>3. h = s
      BY <2>3, <2>14, <3>1, <3>2
    <3>4. Len(u) = 0
      BY <2>19
    <3>5. k = 0 \/ Len(t) = 0
      BY <2>10, <2>18, <3>4
    <3>6. l = n \/ t = << >> \/ x = 0
      BY <2>7, <2>18, <3>5
    <3>7. Ended(s)
      BY <2>0, <2>1, <2>2, <2>4, <3>6
    <3> QED BY <2>1, <2>4, <2>7, <2>17, <3>3, <3>7
  <2>20. CASE u # << >>
    <3>1. PICK y \in Nat : y = Len(u) /\ y > 0 /\ y <= k
      <4>1. Len(u) > 0
        BY <2>10, <2>20, LenZero
      <4>2. Len(u) <= k
        BY <2>7, <2>10, <2>18
      <4> QED BY <2>18, <4>1, <4>2
    <3>2. b \o u \in Seq(RioBytes) /\ Len(b \o u) = Len(b) + Len(u)
      BY <2>3, <2>10, ConcatProperties
    <3>3. Len(b \o u) = l + y
      BY <2>4, <3>1, <3>2
    <3>4. l + y <= n /\ l + y > l
      BY <2>7, <3>1
    <3>5. (b \o u) \o f = b \o (u \o f)
      <4>1. b \in Seq(RioBytes) /\ u \in Seq(RioBytes) /\ f \in Seq(RioBytes)
        BY <2>3, <2>10, <2>11, Zenon
      <4>2. Associates(b, u, f)
        BY <4>1, Associative, Zenon
      <4> QED BY <4>2, Zenon DEF Associates
    <3>6. (b \o u) \o f = stream
      BY <2>3, <2>12, <3>5
    <3>7. h \in RioStates
      BY <2>11, <2>14, <3>2 DEF RioStates
    <3>8. h.bytes = b \o u /\ h.r.stream = f /\ h.r.buf = << >>
      BY <2>14
    <3>9. h \in Good
      BY <3>3, <3>4, <3>6, <3>7, <3>8
    <3>10. Len(h.bytes) = l + y
      BY <3>3, <3>8
    <3>11. Len(h.bytes) > Len(s.bytes)
      BY <2>1, <2>4, <3>4, <3>10
    <3>12. ~(l > l)
      OBVIOUS
    <3>13. h # s
      BY <2>1, <2>4, <3>11, <3>12
    <3> QED BY <2>1, <2>4, <2>7, <2>17, <3>9, <3>11, <3>13
  <2> QED BY <2>19, <2>20
<1>2. start \in Good
  <2>1. start \in RioStates
    BY DEF RioStates
  <2>2. << >> \o stream = stream
    BY ConcatEmptySeq
  <2>3. start.bytes = << >> /\ start.r.stream = stream /\ start.r.buf = << >>
    OBVIOUS
  <2>4. Len(<< >>) <= n
    OBVIOUS
  <2> QED BY <2>1, <2>2, <2>3, <2>4
<1>3. \A s \in Good : Len(s.bytes) \in Nat /\ Len(s.bytes) <= n
  BY <1>1, Zenon
<1>4. \A s \in Good : /\ s.bytes \in Seq(RioBytes) /\ s.r.stream \in Seq(RioBytes) /\ s.r \in RioT
                      /\ stream = s.bytes \o s.r.stream /\ s.r.buf = << >>
  BY DEF RioStates, RioT
<1> HIDE DEF body, Good, Ended
<1>5. measure \in [Good -> Nat]
  BY <1>3
<1>6. \A s \in Good : measure[s] = n - Len(s.bytes)
  OBVIOUS
<1>7. measure[start] <= n
  <2>1. Len(start.bytes) = 0
    OBVIOUS
  <2> QED BY <1>2, <1>6, <2>1
<1> HIDE DEF measure, start
<1>8. Keeps(body, Good)
  BY <1>1 DEF Keeps
<1>9. Falls(body, Good, measure)
  BY <1>1, <1>3, <1>5, <1>6 DEF Falls
<1>10. PICK e : e = Loop(body, start, n)
  OBVIOUS
<1>11. e \in Good /\ body[e] = e
  <2>1. Ends(body, Good, start, n)
    BY <1>2, <1>7, <1>8, <1>9, LoopComesToEnd, Zenon
  <2> QED BY <1>10, <2>1, Zenon DEF Ends
<1>12. rio_readn(stream, n, c) = Returned(e, Len(e.bytes) < n, c)
  BY <1>10, Zenon DEF rio_readn, body, start
<1>13. PICK t : t = e.r.stream
  OBVIOUS
<1>14. t \in Seq(RioBytes) /\ e.r.buf = << >> /\ e.r \in RioT
  BY <1>4, <1>11, <1>13
<1>15. << >> \o t = t
  BY <1>14, ConcatEmptySeq
<1>16. Divided(e.bytes, e.r, stream) /\ e.r.buf \o e.r.stream = t
  BY <1>4, <1>11, <1>13, <1>14, <1>15 DEF Divided
<1>17. Len(e.bytes) \in Nat /\ Len(e.bytes) <= n
  BY <1>3, <1>11
<1>18. Len(e.bytes) = n \/ t = << >> \/ Fails(e.r, c[Len(e.bytes)])
  BY <1>1, <1>11, <1>13, <1>14 DEF Ended, Fails
<1>19. Len(e.bytes) = n => ~(Len(e.bytes) < n)
  BY <1>17
<1>20. PICK g : g = rio_readn(stream, n, c)
  OBVIOUS
<1>21. Over(e, Len(e.bytes) < n, c, g)
  BY <1>12, <1>16, <1>18, <1>19, <1>20 DEF Over
<1>22. Handed(g, stream, Upto(stream, n))
  BY <1>16, <1>17, <1>21, ReturnedIs, Zenon
<1>23. g.r.buf = << >>
  BY <1>12, <1>14, <1>20 DEF Returned
<1> QED BY <1>20, <1>22, <1>23

\* The rio_t between two calls.
RioInd == rep \in RioT /\ rep.buf \o rep.stream = abs

\* A new rio_t has an empty buffer.
LEMMA RioStart ==
  ASSUME StructuresAssumption, NEW stream \in SeqOf(RioBytes, 2 * RioSize),
         rep = [stream |-> stream, buf |-> << >>], abs = stream
  PROVE  RioInd
<1>1. 2 * RioSize \in Nat
  BY DEF StructuresAssumption
<1>2. stream \in Seq(RioBytes)
  <2>1. PICK m \in 0 .. 2 * RioSize : stream \in [1 .. m -> RioBytes]
    BY DEF SeqOf
  <2>2. m \in Nat
    BY <1>1
  <2> QED BY <2>1, <2>2, FunctionIsSeq
<1>3. << >> \o stream = stream
  BY <1>2, ConcatEmptySeq
<1>4. rep \in RioT
  BY <1>2 DEF RioT
<1> QED BY <1>3, <1>4 DEF RioInd

\* A call that hands over what it should leaves the rest.
LEMMA DeliveredRight ==
  ASSUME NEW got, NEW want, Handed(got, abs, want), Delivered(got, want)
  PROVE  RioInd' /\ AnswerRight'
BY DEF RioInd, AnswerRight, Handed, Delivered

\* rio_readnb returns the next n bytes, or all there are.
LEMMA RioReadnbStep ==
  ASSUME StructuresAssumption, RioInd, NEW n \in Nat, NEW c, Counts(c, n), RioReadnb(n, c)
  PROVE  RioInd' /\ AnswerRight'
<1>1. PICK got : got = rio_readnb(rep, n, c)
  OBVIOUS
<1>2. rep \in RioT /\ abs = rep.buf \o rep.stream
  BY DEF RioInd
<1>3. Handed(got, abs, Upto(abs, n))
  <2>1. Handed(rio_readnb(rep, n, c), rep.buf \o rep.stream, Upto(rep.buf \o rep.stream, n))
    BY <1>2, ReadnbIs
  <2> QED BY <1>1, <1>2, <2>1
<1>4. Delivered(got, Upto(abs, n))
  BY <1>1 DEF RioReadnb
<1> QED BY <1>3, <1>4, DeliveredRight

\* rio_readlineb returns the next line.
LEMMA RioReadlinebStep ==
  ASSUME StructuresAssumption, RioInd, NEW n \in Nat, n > 0, NEW c, Counts(c, n - 1), RioReadlineb(n, c)
  PROVE  RioInd' /\ AnswerRight'
<1>1. PICK got : got = rio_readlineb(rep, n, c)
  OBVIOUS
<1>2. rep \in RioT /\ abs = rep.buf \o rep.stream
  BY DEF RioInd
<1>3. Handed(got, abs, Line(abs, n))
  <2>1. Handed(rio_readlineb(rep, n, c), rep.buf \o rep.stream, Line(rep.buf \o rep.stream, n))
    BY <1>2, ReadlinebIs
  <2> QED BY <1>1, <1>2, <2>1
<1>4. Delivered(got, Line(abs, n))
  BY <1>1 DEF RioReadlineb
<1> QED BY <1>3, <1>4, DeliveredRight

\* rio_readn and rio_writen move all bytes they should.
LEMMA RioUnbufferedStep ==
  ASSUME StructuresAssumption, RioInd, NEW n \in Nat, NEW c, Counts(c, n), RioUnbuffered(n, c)
  PROVE  RioInd' /\ AnswerRight'
<1>1. PICK t : t = rep.stream
  OBVIOUS
<1>2. t \in Seq(RioBytes) /\ rep = [stream |-> t, buf |-> << >>]
  BY <1>1 DEF RioInd, RioT, RioUnbuffered
<1>3. abs = t
  BY <1>1, <1>2, ConcatEmptySeq DEF RioInd
<1>4. PICK u : u = Upto(t, n)
  OBVIOUS
<1>5. u \in Seq(RioBytes) /\ Len(u) \in Nat
  BY <1>2, <1>4, UptoIs
<1>8. Counts(c, Len(u))
  <2>1. Len(u) <= n
    BY <1>2, <1>4, UptoIs
  <2> QED BY <1>5, <2>1 DEF Counts
<1>6. CASE Delivered(rio_readn(rep.stream, n, c), Upto(abs, n))
  <2>1. PICK got : got = rio_readn(t, n, c)
    OBVIOUS
  <2>2. Handed(got, t, u)
    BY <1>2, <1>4, <2>1, ReadnIs
  <2>3. Delivered(got, u) /\ Handed(got, abs, u)
    BY <1>1, <1>3, <1>4, <1>6, <2>1, <2>2
  <2> QED BY <2>3, DeliveredRight
<1>7. CASE LET took == rio_writen(Upto(abs, n), c)
           IN  answer' = <<took.bytes, Expected(took, Upto(abs, n))>> /\ UNCHANGED <<rep, abs>>
  <2>1. PICK got : got = rio_readn(u, Len(u), c)
    OBVIOUS
  <2>2. Handed(got, u, Upto(u, Len(u)))
    BY <1>5, <1>8, <2>1, ReadnIs
  <2>3. Upto(u, Len(u)) = u
    <3>1. << >> \in Seq(RioBytes) /\ u = u \o << >>
      BY <1>5, ConcatEmptySeq
    <3>2. u \in Seq(RioBytes)
      BY <1>5
    <3>3. InParts(RioBytes, u, << >>, u)
      BY <3>1, <3>2, SplitIs, Zenon
    <3> QED BY <3>3 DEF InParts
  <2>4. got.bytes = Expected(got, u)
    BY <2>2, <2>3 DEF Handed
  <2>5. answer' = <<got.bytes, Expected(got, u)>>
    BY <1>3, <1>4, <1>7, <2>1 DEF rio_writen
  <2>6. rep' = rep /\ abs' = abs
    BY <1>7
  <2>7. answer'[1] = answer'[2]
    BY <2>4, <2>5
  <2> QED BY <2>6, <2>7 DEF RioInd, AnswerRight
<1> QED BY <1>6, <1>7 DEF RioUnbuffered

\* What the invariant of a rio_t says of it.
LEMMA RioRepresents ==
  ASSUME RioInd
  PROVE  RioRight
BY DEF RioInd, RioRight

------------------------------------------------------------------------------
\* MinHeap.  The invariant of each loop: one element only may be out of order, and
\* its parent and its children are in order with each other.

\* The parent of an index.
LEMMA Half ==
  ASSUME NEW i, i \in Nat
  PROVE  i \div 2 \in Nat /\ 2 * (i \div 2) <= i /\ i <= 2 * (i \div 2) + 1
OBVIOUS

\* The two elements trade places, and all others stay.
IsSwapped(s, i, j, t) ==
  /\ t \in Seq(Keys) /\ Len(t) = Len(s)
  /\ \A k \in 1 .. Len(s) : t[k] = IF k = i THEN s[j] ELSE IF k = j THEN s[i] ELSE s[k]

\* The definition of Swapped, as a predicate.
LEMMA SwappedIs ==
  ASSUME NEW s, s \in Seq(Keys), NEW i, i \in 1 .. Len(s), NEW j, j \in 1 .. Len(s)
  PROVE  IsSwapped(s, i, j, Swapped(s, i, j))
<1> DEFINE S == Keys
<1>0. PICK t : t = Swapped(s, i, j)
  OBVIOUS
<1> HIDE DEF S
<1>1. PICK n \in Nat : n = Len(s)
  OBVIOUS
<1>2. s \in [1 .. n -> S] /\ i \in 1 .. n /\ j \in 1 .. n
  BY <1>1 DEF S
<1>3. t \in [1 .. n -> S]
  BY <1>0, <1>2 DEF Swapped
<1>4. t \in Seq(S) /\ Len(t) = n
  BY <1>1, <1>3, FunctionIsSeq
<1>5. ASSUME NEW k \in 1 .. n PROVE t[k] = IF k = i THEN s[j] ELSE IF k = j THEN s[i] ELSE s[k]
  <2>1. CASE k = i /\ k = j
    BY <1>0, <1>2, <2>1 DEF Swapped
  <2>2. CASE k = i /\ k # j
    BY <1>0, <1>2, <2>2 DEF Swapped
  <2>3. CASE k # i /\ k = j
    BY <1>0, <1>2, <2>3 DEF Swapped
  <2>4. CASE k # i /\ k # j
    BY <1>0, <1>2, <2>4 DEF Swapped
  <2> QED BY <2>1, <2>2, <2>3, <2>4
<1> QED BY <1>0, <1>1, <1>4, <1>5 DEF IsSwapped, S

\* The elements of d in another order.
Rearranged(d, e) ==
  /\ e \in Seq(Keys) /\ Len(e) = Len(d)
  /\ \A v \in Keys : Occurrences(e, v) = Occurrences(d, v)

\* A swap keeps the elements.
LEMMA SwappedRearranged ==
  ASSUME NEW s, s \in Seq(Keys), NEW i, i \in 1 .. Len(s), NEW j, j \in 1 .. Len(s)
  PROVE  Rearranged(s, Swapped(s, i, j))
<1>1. PICK t : t = Swapped(s, i, j)
  OBVIOUS
<1>2. PICK n \in Nat : n = Len(s)
  OBVIOUS
<1>3. /\ t \in Seq(Keys) /\ Len(t) = n
      /\ \A k \in 1 .. n : t[k] = IF k = i THEN s[j] ELSE IF k = j THEN s[i] ELSE s[k]
  <2>1. IsSwapped(s, i, j, Swapped(s, i, j))
    BY SwappedIs
  <2> QED BY <1>1, <1>2, <2>1 DEF IsSwapped
<1>4. ASSUME NEW v \in Keys PROVE Occurrences(t, v) = Occurrences(s, v)
  <2> DEFINE A == {k \in 1 .. n : s[k] = v}
             C == {k \in 1 .. n : t[k] = v}
             f == [k \in A |-> IF k = i THEN j ELSE IF k = j THEN i ELSE k]
  <2>1. i \in 1 .. n /\ j \in 1 .. n
    BY <1>2
  <2>2. f \in [A -> C]
    BY <1>3, <2>1
  <2>3. \A x, y \in A : f[x] = f[y] => x = y
    BY <2>1
  <2>4. ASSUME NEW y \in C PROVE \E x \in A : f[x] = y
    <3>1. PICK x : x = IF y = i THEN j ELSE IF y = j THEN i ELSE y
      OBVIOUS
    <3>2. x \in A
      BY <1>3, <2>1, <3>1
    <3>3. f[x] = y
      BY <3>1, <3>2
    <3> QED BY <3>2, <3>3
  <2>5. f \in Bijection(A, C)
    <3> HIDE DEF f, A, C
    <3> QED BY <2>2, <2>3, <2>4 DEF Bijection, Injection, Surjection, IsInjective
  <2>6. ExistsBijection(A, C)
    BY <2>5 DEF ExistsBijection
  <2>7. IsFiniteSet(A)
    <3>1. IsFiniteSet(1 .. n)
      BY FS_Interval
    <3>2. A \in SUBSET (1 .. n)
      OBVIOUS
    <3> HIDE DEF A
    <3> QED BY <3>1, <3>2, FS_Subset
  <2>8. Cardinality(C) = Cardinality(A)
    <3> HIDE DEF A, C
    <3> QED BY <2>6, <2>7, FS_Bijection
  <2>9. DOMAIN s = 1 .. n /\ DOMAIN t = 1 .. n
    BY <1>2, <1>3
  <2> QED BY <2>8, <2>9 DEF Occurrences
<1> QED BY <1>1, <1>2, <1>3, <1>4 DEF Rearranged

\* One element more at the end.
LEMMA OccurrencesLonger ==
  ASSUME NEW s, s \in Seq(Keys), NEW t, t \in Seq(Keys), Len(t) = Len(s) + 1,
         \A k \in 1 .. Len(s) : t[k] = s[k], NEW v
  PROVE  /\ Occurrences(t, v) = Occurrences(s, v) + IF t[Len(t)] = v THEN 1 ELSE 0
         /\ Occurrences(s, v) \in Nat
<1>1. PICK n \in Nat : n = Len(s)
  OBVIOUS
<1> DEFINE A == {k \in 1 .. n : s[k] = v}
           C == {k \in 1 .. n + 1 : t[k] = v}
<1>2. IsFiniteSet(A)
  <2>1. IsFiniteSet(1 .. n)
    BY FS_Interval
  <2>2. A \in SUBSET (1 .. n)
    OBVIOUS
  <2> HIDE DEF A
  <2> QED BY <2>1, <2>2, FS_Subset
<1>3. C = IF t[n + 1] = v THEN A \cup {n + 1} ELSE A
  <2>1. \A k \in 1 .. n + 1 : k = n + 1 \/ k \in 1 .. n
    OBVIOUS
  <2>2. \A k \in 1 .. n : k \in 1 .. n + 1 /\ t[k] = s[k]
    BY <1>1
  <2>3. n + 1 \in 1 .. n + 1
    OBVIOUS
  <2> QED BY <2>1, <2>2, <2>3
<1>4. n + 1 \notin A
  OBVIOUS
<1>5. DOMAIN s = 1 .. n /\ DOMAIN t = 1 .. n + 1 /\ Len(t) = n + 1
  BY <1>1
<1>6. Occurrences(s, v) = Cardinality(A) /\ Occurrences(t, v) = Cardinality(C)
  BY <1>5 DEF Occurrences
<1> HIDE DEF A, C
<1>7. Cardinality(A) \in Nat
  BY <1>2, FS_CardinalityType
<1>8. Cardinality(A \cup {n + 1}) = Cardinality(A) + 1
  BY <1>2, <1>4, FS_AddElement
<1> QED BY <1>1, <1>3, <1>5, <1>6, <1>7, <1>8

\* An element occurs if it has a place.
LEMMA OccurrencesSome ==
  ASSUME NEW s, s \in Seq(Keys), NEW v
  PROVE  Occurrences(s, v) \in Nat /\ (Occurrences(s, v) > 0 <=> \E k \in 1 .. Len(s) : s[k] = v)
<1>1. PICK n \in Nat : n = Len(s) /\ DOMAIN s = 1 .. n
  OBVIOUS
<1> DEFINE A == {k \in 1 .. n : s[k] = v}
<1>2. IsFiniteSet(A)
  <2>1. IsFiniteSet(1 .. n)
    BY FS_Interval
  <2>2. A \in SUBSET (1 .. n)
    OBVIOUS
  <2> HIDE DEF A
  <2> QED BY <2>1, <2>2, FS_Subset
<1>3. Occurrences(s, v) = Cardinality(A)
  BY <1>1 DEF Occurrences
<1>4. A # {} <=> \E k \in 1 .. n : s[k] = v
  OBVIOUS
<1> HIDE DEF A
<1>5. Cardinality(A) \in Nat /\ (Cardinality(A) = 0 <=> A = {})
  BY <1>2, FS_CardinalityType, FS_EmptySet
<1> QED BY <1>1, <1>3, <1>4, <1>5

\* Ordered, but for the element at a, which may be smaller than its parent.
Rising(d, a) ==
  /\ d \in Seq(Keys) /\ a \in 1 .. Len(d)
  /\ \A i \in 2 .. Len(d) : i # a => d[i \div 2] <= d[i]
  /\ \A i \in 2 .. Len(d) : i \div 2 = a /\ a > 1 => d[a \div 2] <= d[i]

\* Ordered below i, but for the element at a, which may be larger than its children.
Sinking(d, i, a) ==
  /\ d \in Seq(Keys) /\ i \in Nat /\ i > 0 /\ a \in Nat /\ a >= i
  /\ \A j \in 2 .. Len(d) : j \div 2 >= i /\ j \div 2 # a => d[j \div 2] <= d[j]
  /\ \A j \in 2 .. Len(d) : j \div 2 = a /\ a \div 2 >= i => d[a \div 2] <= d[j]

Below(d, i) == \A j \in 2 .. Len(d) : j \div 2 >= i => d[j \div 2] <= d[j]

\* The elements of data_ are numbers.
LEMMA KeysAre ==
  ASSUME NEW s, s \in Seq(Keys), StructuresAssumption
  PROVE  Len(s) \in Nat /\ \A k \in 1 .. Len(s) : s[k] \in Keys /\ s[k] \in Int
BY DEF Keys, StructuresAssumption

\* A swap with the parent: the only element out of order is now the parent.
LEMMA RisingSwapped ==
  ASSUME NEW d, NEW a, StructuresAssumption, Rising(d, a), a > 1, d[a] <= d[a \div 2]
  PROVE  Rising(Swapped(d, a \div 2, a), a \div 2)
<1>1. PICK n \in Nat : n = Len(d)
  BY DEF Rising
<1>2. PICK p : p = a \div 2
  OBVIOUS
<1>3. a \in Nat /\ a \in 1 .. n
  BY <1>1 DEF Rising
<1>4. p \in Nat /\ p >= 1 /\ p < a /\ p \in 1 .. n
  BY <1>2, <1>3, Half
<1>5. PICK e : e = Swapped(d, p, a)
  OBVIOUS
<1>6. /\ e \in Seq(Keys) /\ Len(e) = n
      /\ \A k \in 1 .. n : e[k] = IF k = p THEN d[a] ELSE IF k = a THEN d[p] ELSE d[k]
  <2>1. d \in Seq(Keys)
    BY DEF Rising
  <2>2. IsSwapped(d, p, a, Swapped(d, p, a))
    BY <1>1, <1>3, <1>4, <2>1, SwappedIs
  <2> QED BY <1>1, <1>5, <2>2 DEF IsSwapped
<1>7. \A k \in 1 .. n : d[k] \in Int
  BY <1>1, KeysAre DEF Rising
<1>8. e[p] = d[a] /\ e[a] = d[p]
  BY <1>3, <1>4, <1>6
<1>9. \A i \in 2 .. n : i \in Nat /\ i \div 2 \in 1 .. n /\ i \div 2 < i /\ i \in 1 .. n
  BY Half
<1>10. d[a] <= d[p] /\ d[a] \in Int /\ d[p] \in Int
  BY <1>2, <1>3, <1>4, <1>7
<1>11. ASSUME NEW i \in 2 .. n, i # p PROVE e[i \div 2] <= e[i]
  <2>1. PICK q \in 1 .. n : q = i \div 2 /\ q < i /\ i \in 1 .. n
    BY <1>9
  <2>2. CASE i = a
    <3>1. q = p
      BY <1>2, <2>1, <2>2
    <3> QED BY <1>8, <1>10, <2>1, <2>2, <3>1
  <2>3. CASE i # a /\ q = a
    <3>1. d[a \div 2] <= d[i]
      BY <1>1, <2>1, <2>3 DEF Rising
    <3>2. e[q] = d[p] /\ e[i] = d[i]
      BY <1>6, <1>8, <1>11, <2>1, <2>3
    <3> QED BY <1>2, <2>1, <3>1, <3>2
  <2>4. CASE i # a /\ q = p
    <3>1. d[p] <= d[i]
      BY <1>1, <2>1, <2>4 DEF Rising
    <3>2. e[q] = d[a] /\ e[i] = d[i] /\ d[i] \in Int
      BY <1>6, <1>7, <1>8, <1>11, <2>1, <2>4
    <3> QED BY <1>10, <2>1, <3>1, <3>2
  <2>5. CASE i # a /\ q # a /\ q # p
    <3>1. d[q] <= d[i]
      BY <1>1, <2>1, <2>5 DEF Rising
    <3>2. e[q] = d[q] /\ e[i] = d[i]
      BY <1>6, <1>11, <2>1, <2>5
    <3> QED BY <2>1, <3>1, <3>2
  <2> QED BY <2>2, <2>3, <2>4, <2>5
<1>12. ASSUME NEW i \in 2 .. n, i \div 2 = p, p > 1 PROVE e[p \div 2] <= e[i]
  <2>1. i \in 1 .. n /\ p < i
    BY <1>9, <1>12
  <2>2. PICK g \in 1 .. n : g = p \div 2 /\ g < p
    BY <1>4, <1>9, <1>12
  <2>3. p \in 2 .. n
    BY <1>4, <1>12
  <2>4. d[g] <= d[p]
    BY <1>1, <1>4, <2>2, <2>3 DEF Rising
  <2>5. e[g] = d[g] /\ d[g] \in Int
    BY <1>4, <1>6, <1>7, <2>2
  <2>6. CASE i = a
    BY <1>8, <2>2, <2>4, <2>5, <2>6
  <2>7. CASE i # a
    <3>1. d[p] <= d[i]
      BY <1>1, <1>12, <2>7 DEF Rising
    <3>2. e[i] = d[i] /\ d[i] \in Int
      BY <1>6, <1>7, <2>1, <2>7
    <3> QED BY <1>10, <2>2, <2>4, <2>5, <3>1, <3>2
  <2> QED BY <2>6, <2>7
<1>13. Rising(e, p)
  BY <1>4, <1>6, <1>11, <1>12 DEF Rising
<1> QED BY <1>2, <1>5, <1>13

\* The child that MinChild names is one, and the smaller one.
LEMMA MinChildIs ==
  ASSUME NEW d, StructuresAssumption, d \in Seq(Keys), NEW a, a \in Nat, a > 0, 2 * a <= Len(d)
  PROVE  /\ MinChild(d, a) \in Nat /\ MinChild(d, a) \in 1 .. Len(d) /\ MinChild(d, a) > a
         /\ MinChild(d, a) \div 2 = a
         /\ \A j \in 2 .. Len(d) : j \div 2 = a => d[MinChild(d, a)] <= d[j]
<1>1. PICK n \in Nat : n = Len(d)
  OBVIOUS
<1>2. \A k \in 1 .. n : d[k] \in Int
  BY <1>1, KeysAre
<1>3. PICK m : m = MinChild(d, a)
  OBVIOUS
<1>4. m = IF 2 * a + 1 <= n /\ d[2 * a + 1] < d[2 * a] THEN 2 * a + 1 ELSE 2 * a
  BY <1>1, <1>3 DEF MinChild
<1>5. m \in Nat /\ m \in 1 .. n /\ m > a /\ m \div 2 = a /\ m \in {2 * a, 2 * a + 1}
  BY <1>1, <1>4
<1>6. ASSUME NEW j \in 2 .. n, j \div 2 = a PROVE d[m] <= d[j]
  <2>1. j = 2 * a \/ j = 2 * a + 1
    BY <1>6
  <2>2. d[2 * a] \in Int
    BY <1>1, <1>2
  <2>3. j \in 1 .. n /\ d[j] \in Int
    BY <1>2
  <2>4. CASE j = 2 * a
    <3>1. CASE m = 2 * a
      BY <2>3, <2>4, <3>1
    <3>2. CASE m # 2 * a
      <4>1. m = 2 * a + 1 /\ 2 * a + 1 <= n /\ d[2 * a + 1] < d[2 * a]
        BY <1>4, <3>2
      <4>2. d[m] \in Int
        BY <1>2, <1>5
      <4> QED BY <2>2, <2>4, <4>1, <4>2
    <3> QED BY <3>1, <3>2
  <2>5. CASE j = 2 * a + 1
    <3>1. CASE m = 2 * a + 1
      BY <2>3, <2>5, <3>1
    <3>2. CASE m # 2 * a + 1
      <4>1. m = 2 * a /\ ~(d[2 * a + 1] < d[2 * a])
        BY <1>4, <2>5, <3>2
      <4> QED BY <2>2, <2>3, <2>5, <4>1
    <3> QED BY <3>1, <3>2
  <2> QED BY <2>1, <2>4, <2>5
<1> QED BY <1>1, <1>3, <1>5, <1>6

\* A swap with the lesser child: the only element out of order is now that child.
LEMMA SinkingSwapped ==
  ASSUME NEW d, NEW i, NEW a, StructuresAssumption, Sinking(d, i, a), 2 * a <= Len(d),
         NEW m, m = MinChild(d, a), ~(d[a] <= d[m])
  PROVE  Sinking(Swapped(d, a, m), i, m)
<1>1. PICK n \in Nat : n = Len(d)
  BY DEF Sinking
<1>2. d \in Seq(Keys) /\ i \in Nat /\ i > 0 /\ a \in Nat /\ a >= i /\ a > 0 /\ 2 * a <= n /\ a \in 1 .. n
  BY <1>1 DEF Sinking
<1>3. /\ m \in Nat /\ m \in 1 .. n /\ m > a /\ m \div 2 = a
      /\ \A j \in 2 .. n : j \div 2 = a => d[m] <= d[j]
  BY <1>1, <1>2, MinChildIs
<1>4. PICK e : e = Swapped(d, a, m)
  OBVIOUS
<1>5. /\ e \in Seq(Keys) /\ Len(e) = n
      /\ \A k \in 1 .. n : e[k] = IF k = a THEN d[m] ELSE IF k = m THEN d[a] ELSE d[k]
  <2>1. IsSwapped(d, a, m, Swapped(d, a, m))
    BY <1>1, <1>2, <1>3, SwappedIs
  <2> QED BY <1>1, <1>4, <2>1 DEF IsSwapped
<1>6. \A k \in 1 .. n : d[k] \in Int
  BY <1>1, <1>2, KeysAre
<1>7. e[a] = d[m] /\ e[m] = d[a]
  BY <1>2, <1>3, <1>5
<1>8. d[m] <= d[a] /\ d[a] \in Int /\ d[m] \in Int
  BY <1>2, <1>3, <1>6
<1>9. \A j \in 2 .. n : j \in Nat /\ j \div 2 \in 1 .. n /\ j \div 2 < j /\ j \in 1 .. n
  BY Half
<1>10. ASSUME NEW j \in 2 .. n, j \div 2 >= i, j \div 2 # m PROVE e[j \div 2] <= e[j]
  <2>1. PICK q \in 1 .. n : q = j \div 2 /\ q < j /\ j \in 1 .. n
    BY <1>9
  <2>2. CASE q = a
    <3>1. CASE j = m
      BY <1>7, <1>8, <2>1, <2>2, <3>1
    <3>2. CASE j # m
      <4>1. d[m] <= d[j] /\ j # a
        BY <1>3, <2>1, <2>2
      <4>2. e[j] = d[j]
        BY <1>5, <2>1, <3>2, <4>1
      <4> QED BY <1>7, <2>1, <2>2, <4>1, <4>2
    <3> QED BY <3>1, <3>2
  <2>3. CASE q # a /\ j = a
    <3>1. a \div 2 = q /\ a \div 2 >= i
      BY <1>10, <2>1, <2>3
    <3>2. m \in 2 .. n
      BY <1>2, <1>3
    <3>3. d[q] <= d[m]
      BY <1>1, <1>3, <3>1, <3>2 DEF Sinking
    <3>4. e[q] = d[q]
      BY <1>5, <1>10, <2>1, <2>3
    <3> QED BY <1>7, <2>1, <2>3, <3>3, <3>4
  <2>4. CASE q # a /\ j # a
    <3>1. j # m
      BY <1>3, <2>1, <2>4
    <3>2. d[q] <= d[j]
      BY <1>1, <1>10, <2>1, <2>4 DEF Sinking
    <3>3. e[q] = d[q] /\ e[j] = d[j]
      BY <1>5, <1>10, <2>1, <2>4, <3>1
    <3> QED BY <2>1, <3>2, <3>3
  <2> QED BY <2>2, <2>3, <2>4
<1>11. ASSUME NEW j \in 2 .. n, j \div 2 = m PROVE e[a] <= e[j]
  <2>1. m < j /\ j \in 1 .. n
    BY <1>9, <1>11
  <2>2. m >= i /\ m # a
    BY <1>2, <1>3
  <2>3. d[m] <= d[j]
    BY <1>1, <1>11, <2>2 DEF Sinking
  <2>4. j # a /\ j # m
    BY <1>2, <1>3, <2>1
  <2>5. e[j] = d[j]
    BY <1>5, <2>1, <2>4
  <2> QED BY <1>7, <2>3, <2>5
<1>12. m >= i
  BY <1>2, <1>3
<1>13. Sinking(e, i, m)
  BY <1>2, <1>3, <1>5, <1>10, <1>11, <1>12 DEF Sinking
<1> QED BY <1>4, <1>13

\* Nothing is left to do for the element at a.
LEMMA SinkingEnds ==
  ASSUME NEW d, NEW i, NEW a, StructuresAssumption, Sinking(d, i, a),
         2 * a > Len(d) \/ d[a] <= d[MinChild(d, a)]
  PROVE  Below(d, i)
<1>1. PICK n \in Nat : n = Len(d)
  BY DEF Sinking
<1>2. d \in Seq(Keys) /\ a \in Nat /\ a > 0
  BY DEF Sinking
<1>3. \A k \in 1 .. n : d[k] \in Int
  BY <1>1, <1>2, KeysAre
<1>4. ASSUME NEW j \in 2 .. n, j \div 2 >= i PROVE d[j \div 2] <= d[j]
  <2>1. CASE j \div 2 # a
    BY <1>1, <1>4, <2>1 DEF Sinking
  <2>2. CASE j \div 2 = a
    <3>1. 2 * a <= n /\ a \in 1 .. n /\ j \in 1 .. n
      BY <1>2, <2>2
    <3>2. PICK m : m = MinChild(d, a)
      OBVIOUS
    <3>3. m \in 1 .. n /\ d[m] <= d[j]
      BY <1>1, <1>2, <2>2, <3>1, <3>2, MinChildIs
    <3>4. d[a] <= d[m]
      BY <1>1, <1>2, <3>1, <3>2
    <3>5. d[a] \in Int /\ d[m] \in Int /\ d[j] \in Int
      BY <1>3, <3>1, <3>3
    <3> QED BY <2>2, <3>3, <3>4, <3>5
  <2> QED BY <2>1, <2>2
<1> QED BY <1>1, <1>4 DEF Below

\* Rearranging twice is rearranging.
LEMMA RearrangedOn ==
  ASSUME NEW d, NEW e, NEW f, Rearranged(d, e), Rearranged(e, f)
  PROVE  Rearranged(d, f)
BY DEF Rearranged

\* data_ is one of the sequences that HeapStates has.
LEMMA KeysInInt ==
  ASSUME StructuresAssumption, NEW s, s \in Seq(Keys)
  PROVE  s \in Seq(Int)
<1>1. Keys \subseteq Int
  BY DEF Keys, StructuresAssumption
<1> QED BY <1>1, SeqMonotonic

Sorted(d) == \A i \in 2 .. Len(d) : d[i \div 2] <= d[i]

\* HeapifyUp brings the element at i to its place.
LEMMA UpIs ==
  ASSUME StructuresAssumption, NEW d, NEW i, Rising(d, i), NEW swapEqual
  PROVE  Rearranged(d, HeapifyUp(d, i, swapEqual)) /\ Sorted(HeapifyUp(d, i, swapEqual))
<1> DEFINE body == [h \in HeapStates |->
                      LET p == h.at \div 2
                      IN  IF \/ h.at = 1 \/ h.data[p] < h.data[h.at]
                             \/ ~swapEqual /\ h.data[p] = h.data[h.at]
                          THEN h ELSE [data |-> Swapped(h.data, p, h.at), at |-> p]]
           Good == {h \in HeapStates : Rising(h.data, h.at) /\ Rearranged(d, h.data)}
           measure == [h \in Good |-> h.at]
           start == [data |-> d, at |-> i]
           Ended(h) == h.at = 1 \/ h.data[h.at \div 2] <= h.data[h.at]
<1>1. ASSUME NEW h \in Good
      PROVE  /\ h.at \in Nat
             /\ body[h] = h \/ (body[h] \in Good /\ body[h].at < h.at)
             /\ body[h] = h => Ended(h)
  <2>1. PICK c : c = h.data
    OBVIOUS
  <2>2. PICK a : a = h.at
    OBVIOUS
  <2>3. Rising(c, a) /\ Rearranged(d, c) /\ h \in HeapStates /\ h = [data |-> c, at |-> a]
    BY <2>1, <2>2 DEF HeapStates
  <2>4. c \in Seq(Keys) /\ a \in 1 .. Len(c) /\ a \in Nat /\ a >= 1
    BY <2>3 DEF Rising
  <2>5. PICK p : p = a \div 2
    OBVIOUS
  <2>6. body[h] = IF \/ a = 1 \/ c[p] < c[a] \/ (~swapEqual /\ c[p] = c[a])
                  THEN h ELSE [data |-> Swapped(c, p, a), at |-> p]
    BY <2>1, <2>2, <2>3, <2>5
  <2>7. CASE a = 1
    BY <2>2, <2>4, <2>6, <2>7
  <2>8. CASE a # 1
    <3>1. p \in Nat /\ p >= 1 /\ p < a /\ p \in 1 .. Len(c)
      BY <2>4, <2>5, <2>8, Half
    <3>2. c[p] \in Int /\ c[a] \in Int
      BY <2>4, <3>1, KeysAre
    <3>3. CASE c[p] < c[a] \/ (~swapEqual /\ c[p] = c[a])
      <4>1. c[p] <= c[a]
        BY <3>2, <3>3
      <4>2. Ended(h)
        BY <2>1, <2>2, <2>5, <4>1
      <4>3. body[h] = h
        BY <2>6, <3>3
      <4> QED BY <2>2, <2>4, <4>2, <4>3
    <3>4. CASE ~(c[p] < c[a] \/ (~swapEqual /\ c[p] = c[a]))
      <4>1. c[a] <= c[p]
        BY <3>2, <3>4
      <4>2. PICK e : e = Swapped(c, p, a)
        OBVIOUS
      <4>3. PICK g : g = [data |-> e, at |-> p]
        OBVIOUS
      <4>4. body[h] = g
        BY <2>6, <2>8, <3>4, <4>2, <4>3
      <4>5. a > 1
        BY <2>4, <2>8
      <4>6. Rising(e, p)
        BY <2>3, <2>5, <4>1, <4>2, <4>5, RisingSwapped
      <4>7. Rearranged(c, e)
        BY <2>4, <3>1, <4>2, SwappedRearranged
      <4>8. Rearranged(d, e)
        BY <2>3, <4>7, RearrangedOn, Zenon
      <4>9. e \in Seq(Int)
        BY <4>8, KeysInInt DEF Rearranged
      <4>10. g \in HeapStates /\ g.data = e /\ g.at = p
        BY <3>1, <4>3, <4>9 DEF HeapStates
      <4>11. g \in Good
        BY <4>6, <4>8, <4>10
      <4>12. g # h /\ g.at < h.at
        BY <2>2, <2>4, <3>1, <4>10
      <4> QED BY <2>2, <2>4, <4>4, <4>11, <4>12
    <3> QED BY <3>3, <3>4
  <2> QED BY <2>7, <2>8
<1>2. start \in Good
  <2>1. d \in Seq(Keys) /\ i \in Nat
    BY DEF Rising
  <2>2. start \in HeapStates /\ start.data = d /\ start.at = i
    BY <2>1, KeysInInt DEF HeapStates
  <2>3. Rearranged(d, d)
    BY <2>1 DEF Rearranged
  <2> QED BY <2>2, <2>3
<1>3. start.at = i /\ i \in Nat /\ i <= i
  BY DEF Rising
<1>4. \A h \in Good : h.at \in Nat
  BY <1>1
<1>5. ASSUME NEW h \in Good, Ended(h) PROVE Sorted(h.data)
  <2>1. PICK c : c = h.data
    OBVIOUS
  <2>2. PICK a : a = h.at
    OBVIOUS
  <2>3. Rising(c, a) /\ (a = 1 \/ c[a \div 2] <= c[a])
    BY <1>5, <2>1, <2>2
  <2>4. \A k \in 2 .. Len(c) : c[k \div 2] <= c[k]
    BY <2>3 DEF Rising
  <2> QED BY <2>1, <2>4 DEF Sorted
<1>6. \A h \in Good : Rearranged(d, h.data)
  OBVIOUS
<1> HIDE DEF body, Good, Ended, start
<1>7. measure \in [Good -> Nat] /\ \A h \in Good : measure[h] = h.at
  BY <1>4
<1> HIDE DEF measure
<1>8. Keeps(body, Good)
  BY <1>1 DEF Keeps
<1>9. Falls(body, Good, measure)
  BY <1>1, <1>7 DEF Falls
<1>10. i \in Nat /\ measure[start] <= i
  BY <1>2, <1>3, <1>7
<1>11. PICK e : e = Loop(body, start, i)
  OBVIOUS
<1>12. e \in Good /\ body[e] = e
  <2>1. Ends(body, Good, start, i)
    BY <1>2, <1>8, <1>9, <1>10, LoopComesToEnd, Zenon
  <2> QED BY <1>11, <2>1, Zenon DEF Ends
<1>13. HeapifyUp(d, i, swapEqual) = e.data
  BY <1>11, Zenon DEF HeapifyUp, body, start
<1> QED BY <1>1, <1>5, <1>6, <1>12, <1>13

\* HeapifyDown brings the element at i to its place below.
LEMMA DownIs ==
  ASSUME StructuresAssumption, NEW d, NEW i, Sinking(d, i, i)
  PROVE  Rearranged(d, HeapifyDown(d, i)) /\ Below(HeapifyDown(d, i), i)
<1> DEFINE body == [h \in HeapStates |->
                      LET m == MinChild(h.data, h.at)
                      IN  IF 2 * h.at > Len(h.data) \/ h.data[h.at] <= h.data[m]
                          THEN h ELSE [data |-> Swapped(h.data, h.at, m), at |-> m]]
           Good == {h \in HeapStates : Sinking(h.data, i, h.at) /\ Rearranged(d, h.data)}
           measure == [h \in Good |-> IF h.at <= Len(d) THEN Len(d) - h.at ELSE 0]
           start == [data |-> d, at |-> i]
           Ended(h) == 2 * h.at > Len(h.data) \/ h.data[h.at] <= h.data[MinChild(h.data, h.at)]
<1>0. PICK n \in Nat : n = Len(d)
  BY DEF Sinking
<1>1. ASSUME NEW h \in Good
      PROVE  /\ h.at \in Nat
             /\ body[h] = h \/ (body[h] \in Good /\ body[h].at > h.at /\ body[h].at <= n)
             /\ body[h] = h => Ended(h)
  <2>1. PICK c : c = h.data
    OBVIOUS
  <2>2. PICK a : a = h.at
    OBVIOUS
  <2>3. Sinking(c, i, a) /\ Rearranged(d, c) /\ h \in HeapStates /\ h = [data |-> c, at |-> a]
    BY <2>1, <2>2 DEF HeapStates
  <2>4. c \in Seq(Keys) /\ a \in Nat /\ a > 0 /\ Len(c) = n
    BY <1>0, <2>3 DEF Sinking, Rearranged
  <2>5. PICK m : m = MinChild(c, a)
    OBVIOUS
  <2>6. body[h] = IF 2 * a > Len(c) \/ c[a] <= c[m] THEN h ELSE [data |-> Swapped(c, a, m), at |-> m]
    BY <2>1, <2>2, <2>3, <2>5
  <2>7. CASE 2 * a > Len(c) \/ c[a] <= c[m]
    <3>1. Ended(h)
      BY <2>1, <2>2, <2>5, <2>7
    <3> QED BY <2>2, <2>4, <2>6, <2>7, <3>1
  <2>8. CASE ~(2 * a > Len(c) \/ c[a] <= c[m])
    <3>1. 2 * a <= Len(c) /\ ~(c[a] <= c[m])
      BY <2>4, <2>8
    <3>2. m \in Nat /\ m \in 1 .. Len(c) /\ m > a
      BY <2>4, <2>5, <3>1, MinChildIs
    <3>3. PICK e : e = Swapped(c, a, m)
      OBVIOUS
    <3>4. PICK g : g = [data |-> e, at |-> m]
      OBVIOUS
    <3>5. body[h] = g
      BY <2>6, <2>8, <3>3, <3>4
    <3>6. Sinking(e, i, m)
      BY <2>3, <2>5, <3>1, <3>3, SinkingSwapped
    <3>7. a \in 1 .. Len(c)
      BY <2>4, <3>1
    <3>8. Rearranged(c, e)
      BY <2>4, <3>2, <3>3, <3>7, SwappedRearranged
    <3>9. Rearranged(d, e)
      BY <2>3, <3>8, RearrangedOn, Zenon
    <3>10. e \in Seq(Int)
      BY <3>9, KeysInInt DEF Rearranged
    <3>11. g \in HeapStates /\ g.data = e /\ g.at = m
      BY <3>2, <3>4, <3>10 DEF HeapStates
    <3>12. g \in Good
      BY <3>6, <3>9, <3>11
    <3>13. g # h /\ g.at > h.at /\ g.at <= n
      BY <2>2, <2>4, <3>2, <3>11
    <3> QED BY <2>2, <2>4, <3>5, <3>12, <3>13
  <2> QED BY <2>7, <2>8
<1>2. start \in Good
  <2>1. d \in Seq(Keys) /\ i \in Nat
    BY DEF Sinking
  <2>2. start \in HeapStates /\ start.data = d /\ start.at = i
    BY <2>1, KeysInInt DEF HeapStates
  <2>3. Rearranged(d, d)
    BY <2>1 DEF Rearranged
  <2> QED BY <2>2, <2>3
<1>3. \A h \in Good : h.at \in Nat
  BY <1>1
<1>4. ASSUME NEW h \in Good, Ended(h) PROVE Below(h.data, i)
  <2>1. PICK c : c = h.data
    OBVIOUS
  <2>2. PICK a : a = h.at
    OBVIOUS
  <2>3. Sinking(c, i, a) /\ (2 * a > Len(c) \/ c[a] <= c[MinChild(c, a)])
    BY <1>4, <2>1, <2>2
  <2> QED BY <2>1, <2>3, SinkingEnds
<1>5. \A h \in Good : Rearranged(d, h.data)
  OBVIOUS
<1>6. start.at = i /\ i \in Nat
  BY DEF Sinking
<1> HIDE DEF body, Good, Ended, start
<1>7. \A h \in Good : measure[h] = IF h.at <= n THEN n - h.at ELSE 0
  BY <1>0
<1>8. measure \in [Good -> Nat]
  BY <1>0, <1>3
<1> HIDE DEF measure
<1>9. Keeps(body, Good)
  BY <1>1 DEF Keeps
<1>10. ASSUME NEW h \in Good, body[h] # h PROVE measure[body[h]] < measure[h]
  <2>1. PICK g \in Good : g = body[h] /\ g.at > h.at /\ g.at <= n
    BY <1>1, <1>10
  <2>2. PICK x \in Nat : x = g.at
    BY <1>3
  <2>3. PICK y \in Nat : y = h.at
    BY <1>3
  <2>4. x > y /\ x <= n
    BY <2>1, <2>2, <2>3
  <2>5. measure[g] = n - x
    BY <1>7, <2>2, <2>4
  <2>6. measure[h] = n - y
    BY <1>7, <2>3, <2>4
  <2>7. n - x < n - y
    BY <2>4
  <2> QED BY <2>1, <2>5, <2>6, <2>7
<1>11. Falls(body, Good, measure)
  BY <1>8, <1>10 DEF Falls
<1>12. measure[start] <= n
  BY <1>2, <1>6, <1>7
<1>13. PICK e : e = Loop(body, start, n)
  OBVIOUS
<1>14. e \in Good /\ body[e] = e
  <2>1. Ends(body, Good, start, n)
    BY <1>2, <1>9, <1>11, <1>12, LoopComesToEnd, Zenon
  <2> QED BY <1>13, <2>1, Zenon DEF Ends
<1>15. HeapifyDown(d, i) = e.data
  BY <1>0, <1>13, Zenon DEF HeapifyDown, body, start
<1> QED BY <1>1, <1>4, <1>5, <1>14, <1>15

\* HeapOf orders the elements it is given.
LEMMA HeapOfIs ==
  ASSUME StructuresAssumption, NEW d, d \in Seq(Keys)
  PROVE  Rearranged(d, HeapOf(d)) /\ Sorted(HeapOf(d))
<1> DEFINE body == [h \in HeapStates |->
                      IF h.at = 0 THEN h ELSE [data |-> HeapifyDown(h.data, h.at), at |-> h.at - 1]]
           Good == {h \in HeapStates : Below(h.data, h.at + 1) /\ Rearranged(d, h.data)}
           measure == [h \in Good |-> h.at]
           start == [data |-> d, at |-> Len(d)]
<1>0. PICK n \in Nat : n = Len(d)
  OBVIOUS
<1>1. ASSUME NEW h \in Good
      PROVE  /\ h.at \in Nat
             /\ body[h] = h \/ (body[h] \in Good /\ body[h].at < h.at)
             /\ body[h] = h => h.at = 0
  <2>1. PICK c : c = h.data
    OBVIOUS
  <2>2. PICK a : a = h.at
    OBVIOUS
  <2>3. Below(c, a + 1) /\ Rearranged(d, c) /\ h \in HeapStates /\ a \in Nat
    BY <2>1, <2>2 DEF HeapStates
  <2>4. body[h] = IF a = 0 THEN h ELSE [data |-> HeapifyDown(c, a), at |-> a - 1]
    BY <2>1, <2>2, <2>3
  <2>5. CASE a = 0
    BY <2>2, <2>3, <2>4, <2>5
  <2>6. CASE a # 0
    <3>1. PICK b \in Nat : b = a - 1 /\ b + 1 = a /\ b < a
      BY <2>3, <2>6
    <3>2. Sinking(c, a, a)
      <4>1. c \in Seq(Keys) /\ a > 0 /\ a >= a
        BY <2>3, <2>6 DEF Rearranged
      <4>2. \A j \in 2 .. Len(c) : j \div 2 \in Nat /\ (j \div 2 >= a /\ j \div 2 # a => j \div 2 >= a + 1)
        BY <2>3, <4>1, Half
      <4>3. \A j \in 2 .. Len(c) : j \div 2 >= a /\ j \div 2 # a => c[j \div 2] <= c[j]
        BY <2>3, <4>2 DEF Below
      <4>4. ~(a \div 2 >= a)
        BY <2>3, <2>6, Half
      <4> QED BY <2>3, <4>1, <4>3, <4>4 DEF Sinking
    <3>3. PICK e : e = HeapifyDown(c, a)
      OBVIOUS
    <3>4. Rearranged(c, e) /\ Below(e, a)
      BY <3>2, <3>3, DownIs
    <3>5. Rearranged(d, e)
      BY <2>3, <3>4, RearrangedOn, Zenon
    <3>6. PICK g : g = [data |-> e, at |-> b]
      OBVIOUS
    <3>7. body[h] = g
      BY <2>4, <2>6, <3>1, <3>3, <3>6
    <3>8. e \in Seq(Int)
      BY <3>5, KeysInInt DEF Rearranged
    <3>9. g \in HeapStates /\ g.data = e /\ g.at = b
      BY <3>6, <3>8 DEF HeapStates
    <3>10. g \in Good
      BY <3>1, <3>4, <3>5, <3>9
    <3>11. g # h /\ g.at < h.at
      BY <2>2, <2>3, <3>1, <3>9
    <3> QED BY <2>2, <2>3, <3>7, <3>10, <3>11
  <2> QED BY <2>5, <2>6
<1>2. start \in Good
  <2>1. start \in HeapStates /\ start.data = d /\ start.at = n
    BY <1>0, KeysInInt DEF HeapStates
  <2>2. Rearranged(d, d)
    BY DEF Rearranged
  <2>3. \A j \in 2 .. n : ~(j \div 2 >= n + 1)
    BY Half
  <2>4. Below(d, n + 1)
    BY <1>0, <2>3 DEF Below
  <2> QED BY <2>1, <2>2, <2>4
<1>3. \A h \in Good : h.at \in Nat
  BY <1>1
<1>4. ASSUME NEW h \in Good, h.at = 0 PROVE Sorted(h.data)
  <2>1. PICK c : c = h.data
    OBVIOUS
  <2>2. Below(c, 1) /\ c \in Seq(Keys)
    BY <1>4, <2>1 DEF Rearranged
  <2>3. \A j \in 2 .. Len(c) : j \div 2 >= 1
    BY <2>2, Half
  <2> QED BY <2>1, <2>2, <2>3 DEF Below, Sorted
<1>5. \A h \in Good : Rearranged(d, h.data)
  OBVIOUS
<1>6. start.at = n
  BY <1>0
<1> HIDE DEF body, Good, start
<1>7. measure \in [Good -> Nat] /\ \A h \in Good : measure[h] = h.at
  BY <1>3
<1> HIDE DEF measure
<1>8. Keeps(body, Good)
  BY <1>1 DEF Keeps
<1>9. Falls(body, Good, measure)
  BY <1>1, <1>7 DEF Falls
<1>10. measure[start] <= n
  BY <1>2, <1>6, <1>7
<1>11. PICK e : e = Loop(body, start, n)
  OBVIOUS
<1>12. e \in Good /\ body[e] = e
  <2>1. Loop(body, start, n) \in Good /\ body[Loop(body, start, n)] = Loop(body, start, n)
    <3>1. Ends(body, Good, start, n)
      BY <1>2, <1>8, <1>9, <1>10, LoopComesToEnd, Zenon
    <3> QED BY <3>1, Zenon DEF Ends
  <2> QED BY <1>11, <2>1
<1>13. HeapOf(d) = e.data
  BY <1>0, <1>11, Zenon DEF HeapOf, body, start
<1> QED BY <1>1, <1>4, <1>5, <1>12, <1>13

\* The root is the least element.
LEMMA RootLeast ==
  ASSUME StructuresAssumption, NEW d, d \in Seq(Keys), Sorted(d)
  PROVE  \A k \in 1 .. Len(d) : d[1] <= d[k]
<1>1. PICK n \in Nat : n = Len(d)
  OBVIOUS
<1>2. \A k \in 1 .. n : d[k] \in Int
  BY <1>1, KeysAre
<1> DEFINE Known == {m \in Nat : \A k \in 1 .. n : k <= m => d[1] <= d[k]}
<1>3. 0 \in Known
  OBVIOUS
<1>4. ASSUME NEW m \in Nat, m \in Known PROVE m + 1 \in Known
  <2> SUFFICES ASSUME NEW k \in 1 .. n, k <= m + 1 PROVE d[1] <= d[k]
    OBVIOUS
  <2>1. CASE k = 1
    BY <1>2, <2>1
  <2>2. CASE k # 1
    <3>1. PICK p : p = k \div 2
      OBVIOUS
    <3>2. p \in 1 .. n /\ p <= m /\ k \in 2 .. n /\ 1 \in 1 .. n
      BY <2>2, <3>1, Half
    <3>3. d[1] <= d[p]
      BY <1>4, <3>2
    <3>4. d[p] <= d[k]
      BY <1>1, <3>1, <3>2 DEF Sorted
    <3>5. d[1] \in Int /\ d[p] \in Int /\ d[k] \in Int
      BY <1>2, <3>2
    <3> QED BY <3>3, <3>4, <3>5
  <2> QED BY <2>1, <2>2
<1>5. Nat \subseteq Known
  <2> HIDE DEF Known
  <2> QED BY <1>3, <1>4, NatClosed, Zenon
<1>6. n \in Known
  BY <1>5
<1> QED BY <1>1, <1>6

\* The heap between two calls.
HeapInd ==
  /\ rep \in Seq(Keys) /\ Sorted(rep) /\ abs \in [Keys -> Nat]
  /\ \A v \in Keys : Occurrences(rep, v) = abs[v]

\* The constructor, bottom up from the last index, makes a heap of any data.
LEMMA HeapStart ==
  ASSUME StructuresAssumption, NEW data \in SeqOf(Keys, Longest),
         rep = HeapOf(data), abs = [v \in Keys |-> Occurrences(data, v)]
  PROVE  HeapInd
<1>1. data \in Seq(Keys)
  <2>1. PICK m \in 0 .. Longest : data \in [1 .. m -> Keys]
    BY DEF SeqOf
  <2>2. m \in Nat
    BY DEF StructuresAssumption
  <2> QED BY <2>1, <2>2, FunctionIsSeq
<1>2. Rearranged(data, rep) /\ Sorted(rep)
  BY <1>1, HeapOfIs
<1>3. \A v \in Keys : Occurrences(data, v) \in Nat
  BY <1>1, OccurrencesSome
<1>4. abs \in [Keys -> Nat] /\ \A v \in Keys : abs[v] = Occurrences(data, v)
  BY <1>3
<1> QED BY <1>2, <1>4 DEF HeapInd, Rearranged

\* Push keeps the order, and so do the swaps of equal elements.
LEMMA HeapPushStep ==
  ASSUME StructuresAssumption, HeapInd, NEW v \in Keys, HeapPush(v)
  PROVE  HeapInd' /\ AnswerRight'
<1>1. PICK swapEqual \in BOOLEAN : rep' = HeapifyUp(Append(rep, v), Len(rep) + 1, swapEqual)
  BY DEF HeapPush
<1>2. PICK d : d = Append(rep, v)
  OBVIOUS
<1>3. PICK n \in Nat : n = Len(rep)
  BY DEF HeapInd
<1>4. d \in Seq(Keys) /\ Len(d) = n + 1 /\ d[n + 1] = v /\ \A k \in 1 .. n : d[k] = rep[k]
  <2>1. rep \in Seq(Keys)
    BY DEF HeapInd
  <2> QED BY <1>2, <1>3, <2>1, AppendProperties
<1>5. Rising(d, n + 1)
  <2>1. ASSUME NEW i \in 2 .. n + 1, i # n + 1 PROVE d[i \div 2] <= d[i]
    <3>1. i \in 2 .. n /\ i \in 1 .. n /\ i \div 2 \in 1 .. n
      BY <2>1, Half
    <3>2. rep[i \div 2] <= rep[i]
      BY <1>3, <3>1 DEF HeapInd, Sorted
    <3> QED BY <1>4, <3>1, <3>2
  <2>2. \A i \in 2 .. n + 1 : i \div 2 # n + 1
    BY Half
  <2>3. n + 1 \in 1 .. n + 1
    OBVIOUS
  <2> QED BY <1>4, <2>1, <2>2, <2>3 DEF Rising
<1>6. PICK e : e = HeapifyUp(d, n + 1, swapEqual)
  OBVIOUS
<1>7. Rearranged(d, e) /\ Sorted(e)
  BY <1>5, <1>6, UpIs
<1>8. rep' = e
  BY <1>1, <1>2, <1>3, <1>6
<1>9. PICK s : s = rep
  OBVIOUS
<1>10. ASSUME NEW w \in Keys
       PROVE  Occurrences(d, w) = abs[w] + IF w = v THEN 1 ELSE 0
  <2>1. s \in Seq(Keys) /\ Len(d) = Len(s) + 1 /\ \A k \in 1 .. Len(s) : d[k] = s[k]
    BY <1>3, <1>4, <1>9 DEF HeapInd
  <2>2. d \in Seq(Keys)
    BY <1>4
  <2>3. Occurrences(d, w) = Occurrences(s, w) + IF d[Len(d)] = w THEN 1 ELSE 0
    BY <2>1, <2>2, OccurrencesLonger
  <2>4. d[Len(d)] = v
    BY <1>4
  <2>5. Occurrences(s, w) = abs[w]
    BY <1>9 DEF HeapInd
  <2> QED BY <2>3, <2>4, <2>5
<1>11. abs' = [abs EXCEPT ![v] = @ + 1] /\ abs \in [Keys -> Nat]
  BY DEF HeapPush, HeapInd
<1>12. abs' \in [Keys -> Nat] /\ \A w \in Keys : abs'[w] = abs[w] + IF w = v THEN 1 ELSE 0
  BY <1>11
<1>13. e \in Seq(Keys) /\ \A w \in Keys : Occurrences(e, w) = abs'[w]
  BY <1>7, <1>10, <1>12 DEF Rearranged
<1>14. AnswerRight'
  BY DEF HeapPush, AnswerRight, Agree
<1> QED BY <1>7, <1>8, <1>12, <1>13, <1>14 DEF HeapInd

\* Pop returns the least element and keeps the order of the others.
LEMMA HeapPopStep ==
  ASSUME StructuresAssumption, HeapInd, HeapPop
  PROVE  HeapInd' /\ AnswerRight'
<1>1. CASE rep = << >>
  <2>1. rep' = rep /\ abs' = abs /\ answer' = <<0, 0>>
    BY <1>1 DEF HeapPop, Agree
  <2> QED BY <2>1 DEF HeapInd, AnswerRight
<1>2. CASE rep # << >>
  <2>1. PICK s : s = rep
    OBVIOUS
  <2>2. s \in Seq(Keys) /\ s # << >> /\ Sorted(s)
    BY <1>2, <2>1 DEF HeapInd
  <2>3. PICK n \in Nat : n = Len(s) /\ n > 0
    BY <2>2, EmptySeq
  <2>4. 1 \in 1 .. n /\ n \in 1 .. n /\ Head(s) = s[1] /\ s[1] \in Keys
    BY <2>2, <2>3
  <2>5. \A k \in 1 .. n : s[1] <= s[k]
    BY <2>2, <2>3, RootLeast
  <2>6. abs \in [Keys -> Nat] /\ \A w \in Keys : Occurrences(s, w) = abs[w]
    BY <2>1 DEF HeapInd
  <2> DEFINE held == {w \in Keys : abs[w] > 0}
  <2>7. ASSUME NEW w \in Keys PROVE w \in held <=> \E k \in 1 .. n : s[k] = w
    <3>1. Occurrences(s, w) > 0 <=> \E k \in 1 .. Len(s) : s[k] = w
      BY <2>2, OccurrencesSome
    <3> QED BY <2>3, <2>6, <3>1
  <2>8. s[1] \in held
    BY <2>4, <2>7
  <2>9. \A w \in held : s[1] <= w /\ w \in Int
    BY <2>5, <2>7 DEF Keys, StructuresAssumption
  <2>10. Min(held) = s[1]
    <3> HIDE DEF held
    <3>1. \A x \in held : (\A y \in held : x <= y) => x = s[1]
      BY <2>8, <2>9
    <3>2. \A y \in held : s[1] <= y
      BY <2>9
    <3> QED BY <2>8, <3>1, <3>2 DEF Min
  <2>11. PICK least : least = s[1]
    OBVIOUS
  <2>12. /\ rep' = HeapifyDown(Front(Swapped(s, 1, n)), 1)
         /\ abs' = [abs EXCEPT ![least] = @ - 1]
         /\ answer' = <<least, least>>
    BY <1>2, <2>1, <2>3, <2>4, <2>10, <2>11 DEF HeapPop
  <2>13. PICK t : t = Swapped(s, 1, n)
    OBVIOUS
  <2>14. /\ t \in Seq(Keys) /\ Len(t) = n
         /\ \A k \in 1 .. n : t[k] = IF k = 1 THEN s[n] ELSE IF k = n THEN s[1] ELSE s[k]
    <3>1. IsSwapped(s, 1, n, Swapped(s, 1, n))
      BY <2>2, <2>3, <2>4, SwappedIs
    <3> QED BY <2>3, <2>13, <3>1 DEF IsSwapped
  <2>15. Rearranged(s, t)
    BY <2>2, <2>3, <2>4, <2>13, SwappedRearranged
  <2>16. t[n] = least
    BY <2>4, <2>11, <2>14
  <2>17. PICK f : f = Front(t)
    OBVIOUS
  <2>18. f \in Seq(Keys) /\ Len(f) = n - 1 /\ \A k \in 1 .. n - 1 : f[k] = t[k]
    BY <2>3, <2>14, <2>17 DEF Front
  <2>19. ASSUME NEW w \in Keys
         PROVE  abs[w] = Occurrences(f, w) + (IF w = least THEN 1 ELSE 0) /\ Occurrences(f, w) \in Nat
    <3>1. Len(t) = Len(f) + 1 /\ \A k \in 1 .. Len(f) : t[k] = f[k]
      BY <2>14, <2>18
    <3>2. f \in Seq(Keys) /\ t \in Seq(Keys)
      BY <2>14, <2>18
    <3>3. Occurrences(t, w) = Occurrences(f, w) + (IF t[Len(t)] = w THEN 1 ELSE 0) /\ Occurrences(f, w) \in Nat
      BY <3>1, <3>2, OccurrencesLonger
    <3>4. t[Len(t)] = least
      BY <2>14, <2>16
    <3>5. Occurrences(t, w) = abs[w]
      BY <2>6, <2>15 DEF Rearranged
    <3> QED BY <3>3, <3>4, <3>5
  <2>20. Sinking(f, 1, 1)
    <3>1. ASSUME NEW j \in 2 .. n - 1, j \div 2 # 1 PROVE f[j \div 2] <= f[j]
      <4>1. PICK q : q = j \div 2
        OBVIOUS
      <4>2. q \in 2 .. n - 1 /\ q \in 1 .. n - 1 /\ j \in 1 .. n - 1
        BY <3>1, <4>1, Half
      <4>3. f[q] = s[q] /\ f[j] = s[j]
        <5>1. q \in 1 .. n /\ j \in 1 .. n /\ q # 1 /\ j # 1 /\ q # n /\ j # n
          BY <4>2
        <5> QED BY <2>14, <2>18, <4>2, <5>1
      <4>4. j \in 2 .. n
        OBVIOUS
      <4>5. s[q] <= s[j]
        BY <2>2, <2>3, <4>1, <4>4 DEF Sorted
      <4> QED BY <4>1, <4>3, <4>5
    <3>2. ~(1 \div 2 >= 1)
      OBVIOUS
    <3> QED BY <2>18, <3>1, <3>2 DEF Sinking
  <2>21. PICK e : e = HeapifyDown(f, 1)
    OBVIOUS
  <2>22. Rearranged(f, e) /\ Below(e, 1)
    BY <2>20, <2>21, DownIs
  <2>23. rep' = e
    BY <2>12, <2>13, <2>17, <2>21
  <2>24. e \in Seq(Keys)
    BY <2>22 DEF Rearranged
  <2>25. \A j \in 2 .. Len(e) : j \div 2 >= 1
    BY <2>24, Half
  <2>26. Sorted(e)
    BY <2>22, <2>25 DEF Below, Sorted
  <2>27. least \in Keys /\ abs[least] \in Nat /\ abs[least] - 1 \in Nat
    BY <2>4, <2>6, <2>11, <2>19
  <2>28. abs' \in [Keys -> Nat] /\ \A w \in Keys : abs'[w] = IF w = least THEN abs[w] - 1 ELSE abs[w]
    BY <2>6, <2>12, <2>27
  <2>29. ASSUME NEW w \in Keys PROVE Occurrences(e, w) = abs'[w]
    <3>1. Occurrences(e, w) = Occurrences(f, w)
      BY <2>22 DEF Rearranged
    <3>2. PICK x \in Nat : x = Occurrences(f, w)
      BY <2>19
    <3>3. abs[w] = x + (IF w = least THEN 1 ELSE 0)
      BY <2>19, <3>2
    <3>4. abs'[w] = IF w = least THEN abs[w] - 1 ELSE abs[w]
      BY <2>28
    <3>5. CASE w = least
      BY <3>1, <3>2, <3>3, <3>4, <3>5
    <3>6. CASE w # least
      BY <3>1, <3>2, <3>3, <3>4, <3>6
    <3> QED BY <3>5, <3>6
  <2>30. answer'[1] = answer'[2]
    BY <2>12
  <2> QED BY <2>23, <2>24, <2>26, <2>28, <2>29, <2>30 DEF HeapInd, AnswerRight
<1> QED BY <1>1, <1>2

\* What the invariant of the heap says of it.
LEMMA HeapRepresents ==
  ASSUME HeapInd
  PROVE  HeapRight
BY DEF HeapInd, HeapRight, Sorted

------------------------------------------------------------------------------
\* SkipList.  The invariant: on each level a node leads to the next larger one
\* that reaches the level, and no node reaches above the highest in use.

\* The values that reach level i, and the one that follows n among them.
On(A, i) == {p[1] : p \in {q \in A : q[2] >= i}}
IsNext(L, n, m) == m \in L \cup {Tail0} /\ n < m /\ \A x \in L : n < x => m <= x

Skips(F, M, A) ==
  /\ M \in 0 .. MaxLevel /\ A \subseteq Keys \X (0 .. MaxLevel)
  /\ \A p, q \in A : p[1] = q[1] => p = q
  /\ \A p \in A : p[2] <= M /\ DOMAIN F[p[1]] = 0 .. p[2]
  /\ DOMAIN F = {Head0} \cup On(A, 0) /\ DOMAIN F[Head0] = 0 .. MaxLevel
  /\ \A i \in 0 .. MaxLevel : \A n \in On(A, i) \cup {Head0} : IsNext(On(A, i), n, F[n][i])

\* The nodes that a search for value may come to on level i, and the last of them.
Before(A, i, value) == {n \in On(A, i) \cup {Head0} : n < value}
InFront(A, i, value, n) == n \in Before(A, i, value) /\ \A x \in On(A, i) : x < value => x <= n

\* A node that reaches a level reaches the ones below.
LEMMA OnIs ==
  ASSUME StructuresAssumption, NEW A, A \subseteq Keys \X (0 .. MaxLevel), NEW i, i \in Nat
  PROVE  /\ On(A, i) \subseteq Keys
         /\ \A x : x \in On(A, i) <=> \E p \in A : p[1] = x /\ p[2] >= i
         /\ \A j \in Nat : j <= i => On(A, i) \subseteq On(A, j)
<1>1. \A p \in A : p[1] \in Keys /\ p[2] \in Nat
  BY DEF StructuresAssumption
<1>2. \A x : x \in On(A, i) <=> \E p \in A : p[1] = x /\ p[2] >= i
  BY DEF On
<1>3. On(A, i) \subseteq Keys
  BY <1>1, <1>2
<1>4. ASSUME NEW j \in Nat, j <= i, NEW x \in On(A, i) PROVE x \in On(A, j)
  <2>1. PICK p \in A : p[1] = x /\ p[2] >= i
    BY <1>2
  <2>2. p[2] >= j
    BY <1>1, <1>4, <2>1
  <2> QED BY <2>1, <2>2 DEF On
<1> QED BY <1>2, <1>3, <1>4

\* head_ is in front of every value, tail_ behind.
LEMMA KeysBetween ==
  ASSUME StructuresAssumption
  PROVE  /\ Head0 = 0 /\ Tail0 \in Nat /\ Head0 \in Nat
         /\ \A k \in Keys : k \in Nat /\ Head0 < k /\ k < Tail0
BY DEF StructuresAssumption, Keys, Head0, Tail0

\* The walk along a level ends at the last node in front of the value.
LEMMA AdvanceIs ==
  ASSUME StructuresAssumption, NEW F, NEW M, NEW A, Skips(F, M, A), NEW value, value \in Keys,
         NEW i, i \in 0 .. MaxLevel, NEW node, node \in Before(A, i, value)
  PROVE  InFront(A, i, value, Advance(F, node, i, value))
<1> DEFINE L == On(A, i)
           Good == Before(A, i, value)
           body == [n \in Nat |-> IF F[n][i] < value THEN F[n][i] ELSE n]
           measure == [n \in Good |-> value - n]
<1>1. value \in Nat /\ Head0 < value /\ value < Tail0 /\ Head0 = 0 /\ Tail0 \in Nat
  BY KeysBetween
<1>2. i \in Nat /\ L \subseteq Keys
  <2>1. i \in Nat
    BY DEF StructuresAssumption
  <2>2. A \subseteq Keys \X (0 .. MaxLevel)
    BY DEF Skips
  <2> QED BY <2>1, <2>2, OnIs
<1>3. Good = {n \in L \cup {Head0} : n < value}
  BY DEF Before
<1> HIDE DEF Good
<1>4. \A n \in Good : n \in Nat /\ n < value /\ n \in L \cup {Head0}
  BY <1>1, <1>2, <1>3, KeysBetween
<1>5. \A n \in Good : IsNext(L, n, F[n][i])
  BY <1>4 DEF Skips
<1> HIDE DEF L
<1>6. ASSUME NEW n \in Good
      PROVE  /\ body[n] \in Good
             /\ body[n] = n \/ body[n] > n
             /\ body[n] = n => InFront(A, i, value, n)
  <2>1. PICK m : m = F[n][i]
    OBVIOUS
  <2>2. body[n] = IF m < value THEN m ELSE n
    BY <1>4, <2>1
  <2>3. m \in L \cup {Tail0} /\ n < m /\ \A x \in L : n < x => m <= x
    BY <1>5, <2>1 DEF IsNext
  <2>4. n \in Nat /\ n < value
    BY <1>4
  <2>5. m \in Nat
    BY <1>1, <1>2, <2>3, KeysBetween
  <2>6. CASE m < value
    <3>1. m \in L
      BY <1>1, <2>3, <2>6
    <3>2. m \in Good
      BY <1>3, <2>6, <3>1
    <3> QED BY <2>2, <2>3, <2>4, <2>5, <2>6, <3>2
  <2>7. CASE ~(m < value)
    <3>1. ASSUME NEW x \in L, x < value PROVE x <= n
      <4>1. x \in Nat
        BY <1>2, KeysBetween
      <4>2. n < x => m <= x
        BY <2>3
      <4> QED BY <1>1, <2>4, <2>5, <2>7, <3>1, <4>1, <4>2
    <3>2. InFront(A, i, value, n)
      BY <3>1 DEF InFront, Good, L
    <3> QED BY <2>2, <2>7, <3>2
  <2> QED BY <2>6, <2>7
<1> HIDE DEF body
<1>7. measure \in [Good -> Nat] /\ \A n \in Good : measure[n] = value - n
  BY <1>1, <1>4
<1> HIDE DEF measure
<1>8. Keeps(body, Good)
  BY <1>6 DEF Keeps
<1>9. ASSUME NEW n \in Good, body[n] # n PROVE measure[body[n]] < measure[n]
  <2>1. PICK m \in Good : m = body[n] /\ m > n
    BY <1>6, <1>9
  <2>2. value - m < value - n
    BY <1>1, <1>4, <2>1
  <2> QED BY <1>7, <2>1, <2>2
<1>10. Falls(body, Good, measure)
  BY <1>7, <1>9 DEF Falls
<1>11. node \in Good
  BY DEF Good
<1>12. measure[node] <= value
  BY <1>1, <1>4, <1>7, <1>11
<1>13. Ends(body, Good, node, value)
  BY <1>1, <1>8, <1>10, <1>11, <1>12, LoopComesToEnd, Zenon
<1>14. PICK e : e = Loop(body, node, value)
  OBVIOUS
<1>15. e \in Good /\ body[e] = e
  BY <1>13, <1>14 DEF Ends
<1>16. Advance(F, node, i, value) = e
  BY <1>14, Zenon DEF Advance, body
<1> QED BY <1>6, <1>15, <1>16

\* From a level to the one below, and from the head on the highest.
Above(f, M, i) == IF i = M THEN Head0 ELSE f[i + 1]

Descends(F, M, A, value, f) ==
  \A i \in 0 .. M :
    Above(f, M, i) \in Before(A, i, value) => f[i] = Advance(F, Above(f, M, i), i, value)
Arrives(F, M, A, value, f) ==
  \A i \in 0 .. M : InFront(A, i, value, f[i]) /\ f[i] = Advance(F, Above(f, M, i), i, value)

\* So does the whole descent, on every level.
LEMMA DownRight ==
  ASSUME StructuresAssumption, NEW F, NEW M, NEW A, Skips(F, M, A), NEW value, value \in Keys, NEW f,
         Descends(F, M, A, value, f)
  PROVE  Arrives(F, M, A, value, f)
<1>1. M \in Nat /\ M <= MaxLevel /\ MaxLevel \in Nat /\ A \subseteq Keys \X (0 .. MaxLevel)
  BY DEF Skips, StructuresAssumption
<1> DEFINE Right(i) == InFront(A, i, value, f[i]) /\ f[i] = Advance(F, Above(f, M, i), i, value)
           Known == {k \in Nat : \A i \in 0 .. M : i + k = M => Right(i)}
<1>2. ASSUME NEW i \in 0 .. M, Above(f, M, i) \in Before(A, i, value) PROVE Right(i)
  <2>1. i \in 0 .. MaxLevel
    BY <1>1
  <2>2. f[i] = Advance(F, Above(f, M, i), i, value)
    BY <1>2 DEF Descends
  <2>3. PICK node : node = Above(f, M, i)
    OBVIOUS
  <2>4. InFront(A, i, value, Advance(F, node, i, value))
    BY <1>2, <2>1, <2>3, AdvanceIs
  <2> QED BY <2>2, <2>3, <2>4
<1>3. 0 \in Known
  <2>1. Head0 \in Before(A, M, value)
    BY KeysBetween DEF Before
  <2>2. \A i \in 0 .. M : i + 0 = M => i = M
    BY <1>1
  <2>3. Above(f, M, M) \in Before(A, M, value) /\ M \in 0 .. M
    BY <1>1, <2>1 DEF Above
  <2>4. Right(M)
    BY <1>2, <2>3
  <2> HIDE DEF Right
  <2> QED BY <2>2, <2>4
<1>4. ASSUME NEW k \in Nat, k \in Known PROVE k + 1 \in Known
  <2> SUFFICES ASSUME NEW i \in 0 .. M, i + (k + 1) = M PROVE Right(i)
    OBVIOUS
  <2>1. i + 1 \in 0 .. M /\ (i + 1) + k = M /\ i # M /\ i \in Nat /\ i + 1 \in Nat /\ i <= i + 1
    BY <1>1
  <2>2. InFront(A, i + 1, value, f[i + 1])
    BY <1>4, <2>1
  <2>3. On(A, i + 1) \subseteq On(A, i)
    BY <1>1, <2>1, OnIs
  <2>4. f[i + 1] \in Before(A, i, value)
    BY <2>2, <2>3 DEF InFront, Before
  <2>5. Above(f, M, i) \in Before(A, i, value)
    BY <2>1, <2>4 DEF Above
  <2> QED BY <1>2, <2>5
<1>5. Nat \subseteq Known
  <2> HIDE DEF Known
  <2> QED BY <1>3, <1>4, NatClosed, Zenon
<1>6. ASSUME NEW i \in 0 .. M PROVE Right(i)
  <2>1. M - i \in Nat /\ i + (M - i) = M
    BY <1>1
  <2>2. M - i \in Known
    BY <1>5, <2>1
  <2> HIDE DEF Right
  <2> QED BY <2>1, <2>2
<1> QED BY <1>6 DEF Arrives

\* AbsLowerBound is the node in front of value on every level in use.
LEMMA LowerBoundIs ==
  ASSUME StructuresAssumption, NEW F, NEW M, NEW A, Skips(F, M, A), NEW value, value \in Keys,
         NEW r, r = [forward |-> F, max |-> M]
  PROVE  \A i \in 0 .. M : InFront(A, i, value, AbsLowerBound(r, value)[i])
<1>1. M \in Nat
  BY DEF Skips, StructuresAssumption
<1> DEFINE D == 0 .. M
           To(x, i) == Advance(F, x, i, value)
           depth == [i \in D |-> M - i]
           next == [i \in D |-> IF i = M THEN i ELSE i + 1]
           base == [i \in D |-> IF To(Head0, i) \in Nat THEN To(Head0, i) ELSE 0]
           G == [i \in D |-> [x \in Nat |-> IF To(x, i) \in Nat THEN To(x, i) ELSE 0]]
<1>2. Measured(D, M, depth)
  BY <1>1 DEF Measured
<1>3. Descending(D, depth, next)
  BY <1>1 DEF Descending
<1>4. base \in [D -> Nat] /\ G \in [D -> [Nat -> Nat]]
  <2> HIDE DEF To
  <2> QED OBVIOUS
<1>5. Recursion(D, Nat, next, base, G)
  <2> HIDE DEF D, depth, next, base, G
  <2> QED BY <1>2, <1>3, <1>4, RecursionExists, Zenon
<1>6. PICK f \in [D -> Nat] : \A i \in D : f[i] = IF next[i] = i THEN base[i] ELSE G[i][f[next[i]]]
  BY <1>5 DEF Recursion
<1>7. ASSUME NEW i \in D, Above(f, M, i) \in Before(A, i, value) PROVE f[i] = To(Above(f, M, i), i)
  <2>1. PICK x : x = Above(f, M, i)
    OBVIOUS
  <2>2. i \in 0 .. MaxLevel
    BY DEF Skips, StructuresAssumption
  <2>3. InFront(A, i, value, To(x, i))
    BY <1>7, <2>1, <2>2, AdvanceIs
  <2>4. A \subseteq Keys \X (0 .. MaxLevel) /\ i \in Nat
    BY <2>2 DEF Skips, StructuresAssumption
  <2>5. On(A, i) \subseteq Keys
    BY <2>4, OnIs
  <2>6. To(x, i) \in Nat
    BY <2>3, <2>5, KeysBetween DEF InFront, Before
  <2>7. CASE i = M
    <3>1. x = Head0 /\ next[i] = i
      BY <2>1, <2>7 DEF Above
    <3>2. f[i] = base[i]
      BY <1>6, <3>1
    <3> HIDE DEF To
    <3> QED BY <2>1, <2>6, <3>1, <3>2
  <2>8. CASE i # M
    <3>1. next[i] = i + 1 /\ i + 1 # i /\ i + 1 \in D
      BY <1>1, <2>8
    <3>2. x = f[i + 1] /\ x \in Nat
      BY <2>1, <2>8, <3>1 DEF Above
    <3>3. f[i] = G[i][x]
      BY <1>6, <3>1, <3>2
    <3> HIDE DEF To
    <3> QED BY <2>1, <2>6, <3>2, <3>3
  <2> QED BY <2>7, <2>8
<1>8. \A i \in D : f[i] = Advance(F, Above(f, M, i), i, value)
  <2>1. Descends(F, M, A, value, f)
    BY <1>7 DEF Descends
  <2>2. Arrives(F, M, A, value, f)
    BY <2>1, DownRight, Zenon
  <2> QED BY <2>2 DEF Arrives
<1>9. f = [i \in D |-> Advance(F, IF i = M THEN Head0 ELSE f[i + 1], i, value)]
  BY <1>6, <1>8, ZenonT(60) DEF Above
<1>10. PICK g : g = CHOOSE h : h = [i \in D |-> Advance(F, IF i = M THEN Head0 ELSE h[i + 1], i, value)]
  OBVIOUS
<1>11. g = [i \in D |-> Advance(F, IF i = M THEN Head0 ELSE g[i + 1], i, value)]
  BY <1>9, <1>10, Zenon
<1>12. \A i \in 0 .. M : g[i] = Advance(F, Above(g, M, i), i, value)
  BY <1>11 DEF Above
<1>13. \A i \in 0 .. M : InFront(A, i, value, g[i])
  <2>1. Descends(F, M, A, value, g)
    BY <1>12 DEF Descends
  <2>2. Arrives(F, M, A, value, g)
    BY <2>1, DownRight, Zenon
  <2> QED BY <2>2 DEF Arrives
<1>14. AbsLowerBound(r, value) = g
  <2>1. r.forward = F /\ r.max = M
    OBVIOUS
  <2> QED BY <1>10, <2>1 DEF AbsLowerBound
<1> QED BY <1>13, <1>14

\* SkipFind finds just the values that were inserted.
LEMMA FindIs ==
  ASSUME StructuresAssumption, NEW F, NEW M, NEW A, Skips(F, M, A), NEW value, value \in Keys,
         NEW r, r = [forward |-> F, max |-> M]
  PROVE  SkipFind(r, value) <=> value \in On(A, 0)
<1>1. M \in Nat /\ 0 \in 0 .. M /\ 0 \in 0 .. MaxLevel /\ A \subseteq Keys \X (0 .. MaxLevel)
  BY DEF Skips, StructuresAssumption
<1>2. PICK n : n = AbsLowerBound(r, value)[0]
  OBVIOUS
<1>3. InFront(A, 0, value, n)
  BY <1>1, <1>2, LowerBoundIs
<1>4. n \in On(A, 0) \cup {Head0} /\ n < value /\ \A x \in On(A, 0) : x < value => x <= n
  BY <1>3 DEF InFront, Before
<1>5. On(A, 0) \subseteq Keys
  BY <1>1, OnIs
<1>6. PICK m : m = F[n][0]
  OBVIOUS
<1>7. m \in On(A, 0) \cup {Tail0} /\ n < m /\ \A x \in On(A, 0) : n < x => m <= x
  BY <1>1, <1>4, <1>6 DEF Skips, IsNext
<1>8. n \in Nat /\ m \in Nat /\ value \in Nat /\ value < Tail0 /\ Tail0 \in Nat
  BY <1>4, <1>5, <1>7, KeysBetween
<1>9. SkipFind(r, value) <=> m = value
  <2>1. r.forward = F
    OBVIOUS
  <2> QED BY <1>2, <1>6, <2>1 DEF SkipFind
<1>10. ASSUME m = value PROVE value \in On(A, 0)
  BY <1>7, <1>8, <1>10
<1>11. ASSUME value \in On(A, 0) PROVE m = value
  <2>1. m <= value
    BY <1>4, <1>7, <1>11
  <2>2. ~(m < value)
    <3> SUFFICES ASSUME m < value PROVE FALSE
      OBVIOUS
    <3>1. m \in On(A, 0)
      BY <1>7, <1>8
    <3>2. m <= n
      BY <1>4, <3>1
    <3> QED BY <1>7, <1>8, <3>2
  <2> QED BY <1>8, <2>1, <2>2
<1> QED BY <1>9, <1>10, <1>11

\* The greater of two numbers.
LEMMA MaxPair ==
  ASSUME NEW a, NEW b, a \in Int, b \in Int
  PROVE  Max({a, b}) = IF a >= b THEN a ELSE b
<1>1. CASE a >= b
  <2>1. \A x \in {a, b} : (\A y \in {a, b} : x >= y) => x = a
    BY <1>1
  <2>2. a \in {a, b} /\ \A y \in {a, b} : a >= y
    BY <1>1
  <2> QED BY <1>1, <2>1, <2>2 DEF Max
<1>2. CASE ~(a >= b)
  <2>1. \A x \in {a, b} : (\A y \in {a, b} : x >= y) => x = b
    BY <1>2
  <2>2. b \in {a, b} /\ \A y \in {a, b} : b >= y
    BY <1>2
  <2> QED BY <1>2, <2>1, <2>2 DEF Max
<1> QED BY <1>1, <1>2

AddsTo(A, value, level, i) ==
  On(A \cup {<<value, level>>}, i) = IF i <= level THEN On(A, i) \cup {value} ELSE On(A, i)

\* A new value is on the levels up to its own.
LEMMA OnMore ==
  ASSUME StructuresAssumption, NEW A, A \subseteq Keys \X (0 .. MaxLevel), NEW value, value \in Keys,
         NEW level, level \in 0 .. MaxLevel, NEW i, i \in Nat
  PROVE  AddsTo(A, value, level, i)
<1>1. PICK C : C = A \cup {<<value, level>>}
  OBVIOUS
<1>2. C \subseteq Keys \X (0 .. MaxLevel)
  BY <1>1
<1>3. \A x : x \in On(A, i) <=> \E p \in A : p[1] = x /\ p[2] >= i
  BY OnIs
<1>4. \A x : x \in On(C, i) <=> \E p \in C : p[1] = x /\ p[2] >= i
  BY <1>2, OnIs
<1>5. level \in Nat
  BY DEF StructuresAssumption
<1>6. \A x : x \in On(C, i) <=> x \in On(A, i) \/ (x = value /\ level >= i)
  <2>1. PICK e : e = <<value, level>>
    OBVIOUS
  <2>2. e[1] = value /\ e[2] = level
    BY <2>1
  <2>3. \A p : p \in C <=> p \in A \/ p = e
    BY <1>1, <2>1
  <2> QED BY <1>3, <1>4, <2>2, <2>3
<1>7. level >= i <=> i <= level
  BY <1>5
<1> QED BY <1>1, <1>6, <1>7 DEF AddsTo

\* The new value follows the node in front of it on its levels, and is followed
\* by what followed that node.
LinksIn(r, value, level, A) ==
  \E H, N : /\ Linked(r, value, level) = [forward |-> H, max |-> N]
            /\ Skips(H, N, A \cup {<<value, level>>})

\* The new node is linked in between its neighbours on each of its levels.
LEMMA LinkedIs ==
  ASSUME StructuresAssumption, NEW F, NEW M, NEW A, Skips(F, M, A), NEW value, value \in Keys,
         NEW level, level \in 0 .. MaxLevel, value \notin On(A, 0), NEW r, r = [forward |-> F, max |-> M]
  PROVE  LinksIn(r, value, level, A)
<1>1. /\ M \in Nat /\ M <= MaxLevel /\ MaxLevel \in Nat /\ level \in Nat /\ level <= MaxLevel
      /\ A \subseteq Keys \X (0 .. MaxLevel)
  BY DEF Skips, StructuresAssumption
<1>2. PICK lower : lower = AbsLowerBound(r, value)
  OBVIOUS
<1>3. \A i \in 0 .. M : InFront(A, i, value, lower[i])
  BY <1>2, LowerBoundIs
<1> DEFINE prev(i) == IF i <= M THEN lower[i] ELSE Head0
           H == [n \in DOMAIN F \cup {value} |->
                   IF n = value THEN [i \in 0 .. level |-> IF i <= M THEN F[prev(i)][i] ELSE Tail0]
                   ELSE [i \in DOMAIN F[n] |-> IF i <= level /\ prev(i) = n THEN value ELSE F[n][i]]]
           N == Max({level, M})
           C == A \cup {<<value, level>>}
<1>4. Linked(r, value, level) = [forward |-> H, max |-> N]
  <2>1. r.forward = F /\ r.max = M
    OBVIOUS
  <2> QED BY <1>2, <2>1 DEF Linked
<1>5. /\ value \in Nat /\ Head0 < value /\ value < Tail0 /\ Head0 = 0 /\ Tail0 \in Nat
      /\ value # Head0 /\ value # Tail0
  BY KeysBetween
<1>6. N \in Nat /\ N <= MaxLevel /\ level <= N /\ M <= N
  <2>1. N = IF level >= M THEN level ELSE M
    BY <1>1, MaxPair, SMTT(60)
  <2> QED BY <1>1, <2>1
<1>7. \A i \in Nat : On(A, i) \subseteq Keys /\ On(A, i) \subseteq On(A, 0)
  BY <1>1, OnIs
<1>8. \A i \in Nat : value \notin On(A, i)
  BY <1>7
<1>9. \A i \in Nat : i > M => On(A, i) = {}
  <2> SUFFICES ASSUME NEW i \in Nat, i > M, NEW x \in On(A, i) PROVE FALSE
    OBVIOUS
  <2>1. PICK p \in A : p[1] = x /\ p[2] >= i
    BY <1>1, OnIs
  <2>2. p[2] <= M /\ p[2] \in Nat
    BY <1>1 DEF Skips
  <2> QED BY <1>1, <2>1, <2>2
<1>10. ASSUME NEW i \in 0 .. MaxLevel
       PROVE  InFront(A, i, value, prev(i))
  <2>1. CASE i <= M
    BY <1>1, <1>3, <2>1
  <2>2. CASE ~(i <= M)
    <3>1. On(A, i) = {} /\ prev(i) = Head0
      BY <1>1, <1>9, <2>2
    <3> QED BY <1>5, <3>1 DEF InFront, Before
  <2> QED BY <2>1, <2>2
<1>11. \A i \in Nat : On(C, i) = IF i <= level THEN On(A, i) \cup {value} ELSE On(A, i)
  <2> SUFFICES ASSUME NEW i \in Nat
               PROVE  On(C, i) = IF i <= level THEN On(A, i) \cup {value} ELSE On(A, i)
    OBVIOUS
  <2>1. AddsTo(A, value, level, i)
    BY <1>1, OnMore, Zenon
  <2> QED BY <2>1 DEF AddsTo
<1>12. \A i \in 0 .. MaxLevel : \A n \in On(A, i) \cup {Head0} : IsNext(On(A, i), n, F[n][i])
  BY DEF Skips
<1>13. DOMAIN F = {Head0} \cup On(A, 0) /\ DOMAIN F[Head0] = 0 .. MaxLevel
  BY DEF Skips
<1>14. ASSUME NEW i \in 0 .. MaxLevel, NEW n \in On(A, i) \cup {Head0}
       PROVE  i \in DOMAIN F[n] /\ n \in DOMAIN F /\ n # value
  <2>1. i \in Nat
    BY <1>1
  <2>2. CASE n = Head0
    BY <1>5, <1>13, <2>2
  <2>3. CASE n \in On(A, i)
    <3>1. PICK p \in A : p[1] = n /\ p[2] >= i
      BY <1>1, <2>1, <2>3, OnIs
    <3>2. DOMAIN F[n] = 0 .. p[2] /\ p[2] \in Nat
      BY <1>1, <3>1 DEF Skips
    <3>3. i \in 0 .. p[2]
      BY <2>1, <3>1, <3>2
    <3> QED BY <1>7, <1>8, <1>13, <2>1, <2>3, <3>2, <3>3
  <2> QED BY <2>2, <2>3
<1> HIDE DEF prev
<1>15. DOMAIN H = DOMAIN F \cup {value}
  OBVIOUS
<1>16. H[value] = [i \in 0 .. level |-> IF i <= M THEN F[prev(i)][i] ELSE Tail0]
  OBVIOUS
<1>17. \A n \in DOMAIN F : n # value => H[n] = [i \in DOMAIN F[n] |-> IF i <= level /\ prev(i) = n THEN value ELSE F[n][i]]
  OBVIOUS
<1> HIDE DEF H, N
<1>18. ASSUME NEW i \in 0 .. MaxLevel, NEW n \in On(C, i) \cup {Head0}
       PROVE  IsNext(On(C, i), n, H[n][i])
  <2>1. i \in Nat
    BY <1>1
  <2>2. PICK L : L = On(A, i)
    OBVIOUS
  <2>3. L \subseteq Keys /\ \A x \in L : x \in Nat
    BY <1>7, <2>1, <2>2, KeysBetween
  <2>4. PICK q : q = prev(i)
    OBVIOUS
  <2>5. q \in L \cup {Head0} /\ q < value /\ \A x \in L : x < value => x <= q
    BY <1>10, <2>2, <2>4 DEF InFront, Before
  <2>6. q \in Nat
    BY <1>5, <2>3, <2>5
  <2>7. value \notin L
    BY <1>8, <2>1, <2>2
  <2>8. \A y \in L \cup {Head0} : IsNext(L, y, F[y][i])
    BY <1>12, <2>2
  <2>9. CASE n = value
    <3>1. i <= level /\ On(C, i) = L \cup {value}
      BY <1>5, <1>11, <1>18, <2>1, <2>2, <2>7, <2>9
    <3>2. i \in 0 .. level
      BY <2>1, <3>1
    <3>3. CASE i <= M
      <4>1. PICK m : m = F[q][i]
        OBVIOUS
      <4>2. H[value][i] = m
        BY <1>16, <2>4, <3>2, <3>3, <4>1
      <4>3. m \in L \cup {Tail0} /\ q < m /\ \A x \in L : q < x => m <= x
        BY <2>5, <2>8, <4>1 DEF IsNext
      <4>4. m \in Nat /\ m # value
        BY <1>5, <2>3, <2>7, <4>3
      <4>5. value < m
        <5> SUFFICES ASSUME m < value PROVE FALSE
          BY <1>5, <4>4
        <5>1. m \in L
          BY <1>5, <4>3
        <5>2. m <= q
          BY <2>5, <5>1
        <5> QED BY <2>6, <4>3, <4>4, <5>2
      <4>6. ASSUME NEW x \in L \cup {value}, value < x PROVE m <= x
        <5>1. x \in L /\ x \in Nat
          BY <1>5, <2>3, <4>6
        <5>2. q < x
          BY <1>5, <2>5, <2>6, <4>6, <5>1
        <5> QED BY <4>3, <5>1, <5>2
      <4> QED BY <2>9, <3>1, <4>2, <4>3, <4>5, <4>6 DEF IsNext
    <3>4. CASE ~(i <= M)
      <4>1. L = {}
        BY <1>1, <1>9, <2>1, <2>2, <3>4
      <4>2. H[value][i] = Tail0
        BY <1>16, <3>2, <3>4
      <4>3. \A x \in L \cup {value} : ~(value < x)
        BY <1>5, <4>1
      <4> QED BY <1>5, <2>9, <3>1, <4>2, <4>3 DEF IsNext
    <3> QED BY <3>3, <3>4
  <2>10. CASE n # value
    <3>1. n \in L \cup {Head0}
      BY <1>11, <1>18, <2>1, <2>2, <2>10
    <3>2. n \in Nat
      BY <1>5, <2>3, <3>1
    <3>3. i \in DOMAIN F[n] /\ n \in DOMAIN F
      BY <1>14, <2>2, <3>1
    <3>4. H[n][i] = IF i <= level /\ q = n THEN value ELSE F[n][i]
      BY <1>17, <2>4, <2>10, <3>3, ZenonT(60)
    <3>5. PICK m : m = F[n][i]
      OBVIOUS
    <3>6. m \in L \cup {Tail0} /\ n < m /\ \A x \in L : n < x => m <= x
      BY <2>8, <3>1, <3>5 DEF IsNext
    <3>7. CASE i <= level /\ q = n
      <4>1. H[n][i] = value /\ On(C, i) = L \cup {value}
        BY <1>11, <2>1, <2>2, <3>4, <3>7
      <4>2. ASSUME NEW x \in L \cup {value}, n < x PROVE value <= x
        <5>1. CASE x = value
          BY <1>5, <5>1
        <5>2. CASE x # value
          <6>1. x \in L /\ x \in Nat
            BY <2>3, <4>2, <5>2
          <6>2. ~(x < value)
            BY <2>5, <3>2, <3>7, <4>2, <6>1
          <6> QED BY <1>5, <6>1, <6>2
        <5> QED BY <5>1, <5>2
      <4> QED BY <2>5, <3>7, <4>1, <4>2 DEF IsNext
    <3>8. CASE i <= level /\ q # n
      <4>1. H[n][i] = m /\ On(C, i) = L \cup {value}
        BY <1>11, <2>1, <2>2, <3>4, <3>5, <3>8
      <4>2. ASSUME n < value PROVE m <= value
        <5>1. n <= q
          BY <1>5, <2>5, <2>6, <3>1, <4>2
        <5>2. n < q
          BY <2>6, <3>2, <3>8, <5>1
        <5>3. q \in L
          BY <1>5, <2>5, <3>2, <5>2
        <5>4. m <= q
          BY <3>6, <5>2, <5>3
        <5>5. m \in Nat
          BY <1>5, <2>3, <3>6
        <5> QED BY <1>5, <2>5, <2>6, <5>4, <5>5
      <4>3. \A x \in L \cup {value} : n < x => m <= x
        BY <3>6, <4>2
      <4> QED BY <3>6, <4>1, <4>3 DEF IsNext
    <3>9. CASE ~(i <= level)
      <4>1. H[n][i] = m /\ On(C, i) = L
        BY <1>11, <2>1, <2>2, <3>4, <3>5, <3>9
      <4> QED BY <3>6, <4>1 DEF IsNext
    <3> QED BY <3>7, <3>8, <3>9
  <2> QED BY <2>9, <2>10
<1>19. C \subseteq Keys \X (0 .. MaxLevel)
  BY <1>1
<1>20. \A p \in A : p[1] # value /\ p[1] \in DOMAIN F /\ p[2] \in Nat
  <2> SUFFICES ASSUME NEW p \in A PROVE p[1] # value /\ p[1] \in DOMAIN F /\ p[2] \in Nat
    OBVIOUS
  <2>1. p[2] \in Nat /\ p[2] >= 0
    BY <1>1
  <2>2. p[1] \in On(A, 0)
    BY <1>1, <2>1, OnIs
  <2> QED BY <1>13, <2>1, <2>2
<1>21. \A p, q \in C : p[1] = q[1] => p = q
  <2>1. \A p, q \in A : p[1] = q[1] => p = q
    BY DEF Skips
  <2> QED BY <1>20, <2>1
<1>22. ASSUME NEW p \in C PROVE p[2] <= N /\ DOMAIN H[p[1]] = 0 .. p[2]
  <2>1. CASE p \in A
    <3>1. p[2] <= M /\ DOMAIN F[p[1]] = 0 .. p[2] /\ p[2] \in Nat
      BY <1>20, <2>1 DEF Skips
    <3>2. p[2] <= N
      BY <1>1, <1>6, <3>1
    <3>3. DOMAIN H[p[1]] = DOMAIN F[p[1]]
      BY <1>17, <1>20, <2>1
    <3> QED BY <3>1, <3>2, <3>3
  <2>2. CASE p = <<value, level>>
    BY <1>6, <1>16, <2>2
  <2> QED BY <2>1, <2>2
<1>23. DOMAIN H = {Head0} \cup On(C, 0)
  <2>1. On(C, 0) = On(A, 0) \cup {value}
    <3>1. 0 \in Nat /\ 0 <= level
      BY <1>1
    <3> HIDE DEF C
    <3> QED BY <1>11, <3>1
  <2> QED BY <1>13, <1>15, <2>1
<1>24. DOMAIN H[Head0] = 0 .. MaxLevel
  BY <1>5, <1>13, <1>17
<1>25. N \in 0 .. MaxLevel
  BY <1>1, <1>6
<1> HIDE DEF C
<1>26. Skips(H, N, C)
  BY <1>18, <1>19, <1>21, <1>22, <1>23, <1>24, <1>25 DEF Skips
<1> QED BY <1>4, <1>26 DEF C, LinksIn

\* The skip list between two calls.
SkipInd == \E F, M : rep = [forward |-> F, max |-> M] /\ Skips(F, M, abs)

\* In a new list head_ leads to tail_ on every level.
LEMMA SkipStart ==
  ASSUME StructuresAssumption, abs = {},
         rep = [forward |-> [n \in {Head0} |-> [i \in 0 .. MaxLevel |-> Tail0]], max |-> 0]
  PROVE  SkipInd
<1>1. PICK F : F = [n \in {Head0} |-> [i \in 0 .. MaxLevel |-> Tail0]]
  OBVIOUS
<1>2. \A i \in 0 .. MaxLevel : On({}, i) = {}
  BY DEF On
<1>3. On({}, 0) = {}
  BY DEF On
<1>4. F[Head0] = [i \in 0 .. MaxLevel |-> Tail0] /\ DOMAIN F = {Head0}
  BY <1>1
<1>5. ASSUME NEW i \in 0 .. MaxLevel PROVE IsNext({}, Head0, F[Head0][i])
  BY <1>4 DEF IsNext, Head0, Tail0, StructuresAssumption
<1>6. 0 \in 0 .. MaxLevel
  BY DEF StructuresAssumption
<1>7. Skips(F, 0, {})
  BY <1>2, <1>3, <1>4, <1>5, <1>6 DEF Skips
<1> QED BY <1>1, <1>7 DEF SkipInd

\* Insert keeps the invariant, and answers if the value was there.
LEMMA SkipStep ==
  ASSUME StructuresAssumption, SkipInd, NEW value \in Keys, NEW level \in 0 .. MaxLevel,
         SkipInsert(value, level)
  PROVE  SkipInd' /\ AnswerRight'
<1>1. PICK F, M : rep = [forward |-> F, max |-> M] /\ Skips(F, M, abs)
  BY DEF SkipInd
<1>2. SkipFind(rep, value) <=> value \in On(abs, 0)
  BY <1>1, FindIs
<1>3. value \in On(abs, 0) <=> \E p \in abs : p[1] = value
  <2>1. abs \subseteq Keys \X (0 .. MaxLevel)
    BY <1>1 DEF Skips
  <2>2. \A p \in abs : p[2] >= 0
    BY <2>1
  <2>3. value \in On(abs, 0) <=> \E p \in abs : p[1] = value /\ p[2] >= 0
    BY <2>1, OnIs
  <2> QED BY <2>2, <2>3
<1>4. answer' = <<SkipFind(rep, value), \E p \in abs : p[1] = value>>
  BY DEF SkipInsert
<1>5. AnswerRight'
  <2>1. SkipFind(rep, value) = (\E p \in abs : p[1] = value)
    BY <1>2, <1>3 DEF SkipFind
  <2>2. PICK found : found = (\E p \in abs : p[1] = value)
    OBVIOUS
  <2>3. answer' = <<found, found>>
    BY <1>4, <2>1, <2>2
  <2> QED BY <2>3 DEF AnswerRight
<1>6. CASE SkipFind(rep, value)
  <2>1. rep' = rep /\ abs' = abs
    BY <1>6 DEF SkipInsert
  <2> QED BY <1>1, <1>5, <2>1 DEF SkipInd
<1>7. CASE ~SkipFind(rep, value)
  <2>1. rep' = Linked(rep, value, level) /\ abs' = abs \cup {<<value, level>>}
    BY <1>7 DEF SkipInsert
  <2>2. value \notin On(abs, 0)
    BY <1>2, <1>7
  <2>3. LinksIn(rep, value, level, abs)
    BY <1>1, <2>2, LinkedIs, Zenon
  <2> QED BY <1>5, <2>1, <2>3 DEF SkipInd, LinksIn
<1> QED BY <1>6, <1>7

\* What the invariant of the skip list says of it.
LEMMA SkipRepresents ==
  ASSUME StructuresAssumption, SkipInd
  PROVE  SkipRight
<1>1. PICK F, M : rep = [forward |-> F, max |-> M] /\ Skips(F, M, abs)
  BY DEF SkipInd
<1>2. rep.forward = F
  BY <1>1
<1>3. ASSUME NEW i \in 0 .. MaxLevel, NEW n \in On(abs, i) \cup {Head0}
      PROVE  F[n][i] = Min({m \in On(abs, i) \cup {Tail0} : n < m})
  <2>1. PICK L : L = On(abs, i)
    OBVIOUS
  <2>2. PICK m : m = F[n][i]
    OBVIOUS
  <2>3. m \in L \cup {Tail0} /\ n < m /\ \A x \in L : n < x => m <= x
    BY <1>1, <1>3, <2>1, <2>2 DEF Skips, IsNext
  <2>4. abs \subseteq Keys \X (0 .. MaxLevel) /\ i \in Nat
    BY <1>1 DEF Skips, StructuresAssumption
  <2>5. L \subseteq Keys
    BY <2>1, <2>4, OnIs
  <2>6. Tail0 \in Nat /\ \A x \in L : x \in Nat /\ x < Tail0
    BY <2>5, KeysBetween
  <2>7. m \in Nat /\ m <= Tail0
    BY <2>3, <2>6
  <2> DEFINE later == {x \in L \cup {Tail0} : n < x}
  <2>8. m \in later /\ \A x \in later : x \in Nat /\ m <= x
    BY <2>3, <2>6, <2>7
  <2>9. Min(later) = m
    <3> HIDE DEF later
    <3>1. \A x \in later : (\A y \in later : x <= y) => x = m
      BY <2>7, <2>8
    <3> QED BY <2>8, <3>1 DEF Min
  <2> QED BY <2>1, <2>2, <2>9
<1>4. \A i : OnLevel(i) = On(abs, i)
  BY DEF OnLevel, On
<1> QED BY <1>2, <1>3, <1>4 DEF SkipRight

------------------------------------------------------------------------------
\* All containers.

\* The invariant: each kind of container has its own.
SInd ==
  /\ kind = "heap" => HeapInd
  /\ kind = "DisjointSet" => DisjointSetInd
  /\ kind = "DSU" => DsuInd
  /\ kind = "fenwick" => FenwickInd
  /\ kind = "skiplist" => SkipInd
  /\ kind = "lru" => LruInd
  /\ kind = "trie" => TrieInd
  /\ kind = "rio" => RioInd
  /\ AnswerRight

\* A call is a call of one kind of container.
LEMMA OneKind ==
  ASSUME NEW name, Called(name)
  PROVE  kind = name /\ kind' = name
BY DEF Called

\* A new container, of whichever kind, has its invariant.
LEMMA SIndInit ==
  SInit => SInd
<1> SUFFICES ASSUME SInit PROVE SInd
  OBVIOUS
<1>a. AnswerRight
  BY DEF SInit, AnswerRight, Agree
<1>1. CASE kind = "heap"
  <2>1. \E data \in SeqOf(Keys, Longest) :
          rep = HeapOf(data) /\ abs = [v \in Keys |-> Occurrences(data, v)]
    BY <1>1 DEF SInit
  <2>2. HeapInd
    BY <2>1, StructuresAssumption, HeapStart
  <2> QED
    BY <1>1, <1>a, <2>2 DEF SInd
<1>2. CASE kind = "DisjointSet"
  <2>1. rep = [parent |-> << >>, rank |-> << >>, edges |-> 0] /\ abs = {}
    BY <1>2 DEF SInit
  <2>2. DisjointSetInd
    BY <2>1, DisjointSetStart
  <2> QED
    BY <1>2, <1>a, <2>2 DEF SInd
<1>3. CASE kind = "DSU"
  <2>1. rep = [parent |-> [k \in Keys |-> k], edges |-> 0] /\ abs = {{k} : k \in Keys}
    BY <1>3 DEF SInit
  <2>2. DsuInd
    BY <2>1, DsuStart
  <2> QED
    BY <1>3, <1>a, <2>2 DEF SInd
<1>4. CASE kind = "fenwick"
  <2>1. rep = [k \in 1 .. 2 * Size |-> 0] /\ abs = rep
    BY <1>4 DEF SInit
  <2>2. FenwickInd
    BY <2>1, FenwickStart
  <2> QED
    BY <1>4, <1>a, <2>2 DEF SInd
<1>5. CASE kind = "skiplist"
  <2>1. /\ rep = [forward |-> [n \in {Head0} |-> [i \in 0 .. MaxLevel |-> Tail0]], max |-> 0]
        /\ abs = {}
    BY <1>5 DEF SInit
  <2>2. SkipInd
    BY <2>1, StructuresAssumption, SkipStart
  <2> QED
    BY <1>5, <1>a, <2>2 DEF SInd
<1>6. CASE kind = "lru"
  <2>1. rep = [cache |-> << >>, m |-> [k \in Keys |-> << >>]] /\ abs = << >>
    BY <1>6 DEF SInit
  <2>2. LruInd
    BY <2>1, StructuresAssumption, LruStart
  <2> QED
    BY <1>6, <1>a, <2>2 DEF SInd
<1>7. CASE kind = "trie"
  <2>1. rep = [nodes |-> {<< >>}, words |-> {}] /\ abs = {}
    BY <1>7 DEF SInit
  <2>2. TrieInd
    BY <2>1, TrieStart
  <2> QED
    BY <1>7, <1>a, <2>2 DEF SInd
<1>8. CASE kind = "rio"
  <2>1. \E stream \in SeqOf(RioBytes, 2 * RioSize) :
          rep = [stream |-> stream, buf |-> << >>] /\ abs = stream
    BY <1>8 DEF SInit
  <2>2. RioInd
    BY <2>1, StructuresAssumption, RioStart
  <2> QED
    BY <1>8, <1>a, <2>2 DEF SInd
<1>9. kind \in {"heap", "DisjointSet", "DSU", "fenwick", "skiplist", "lru", "trie", "rio"}
  BY DEF SInit
<1> QED
  BY <1>1, <1>2, <1>3, <1>4, <1>5, <1>6, <1>7, <1>8, <1>9

\* Every call keeps the invariant of its container and answers as it should.
LEMMA SIndNext ==
  SInd /\ [SNext]_sVars => SInd'
<1> SUFFICES ASSUME SInd, [SNext]_sVars PROVE SInd'
  OBVIOUS
<1>a. StructuresAssumption
  BY StructuresAssumption
<1>1. ASSUME NEW v \in Keys, HeapPush(v) PROVE SInd'
  <2>1. kind = "heap" /\ kind' = "heap"
    BY <1>1, OneKind DEF HeapPush
  <2>2. HeapInd
    BY <2>1 DEF SInd
  <2>3. HeapInd' /\ AnswerRight'
    BY <1>1, <1>a, <2>2, HeapPushStep
  <2> QED
    BY <2>1, <2>3 DEF SInd
<1>2. ASSUME HeapPop PROVE SInd'
  <2>1. kind = "heap" /\ kind' = "heap"
    BY <1>2, OneKind DEF HeapPop
  <2>2. HeapInd
    BY <2>1 DEF SInd
  <2>3. HeapInd' /\ AnswerRight'
    BY <1>2, <1>a, <2>2, HeapPopStep
  <2> QED
    BY <2>1, <2>3 DEF SInd
<1>3. ASSUME NEW node \in Keys, MakeSet(node) PROVE SInd'
  <2>1. kind = "DisjointSet" /\ kind' = "DisjointSet"
    BY <1>3, OneKind DEF MakeSet
  <2>2. DisjointSetInd
    BY <2>1 DEF SInd
  <2>3. DisjointSetInd' /\ AnswerRight'
    BY <1>3, <2>2, MakeSetStep
  <2> QED
    BY <2>1, <2>3 DEF SInd
<1>4. ASSUME NEW x \in Keys, NEW y \in Keys, DisjointSetMerge(x, y) PROVE SInd'
  <2>1. kind = "DisjointSet" /\ kind' = "DisjointSet"
    BY <1>4, OneKind DEF DisjointSetMerge
  <2>2. DisjointSetInd
    BY <2>1 DEF SInd
  <2>3. DisjointSetInd' /\ AnswerRight'
    BY <1>4, <2>2, DisjointSetStep
  <2> QED
    BY <2>1, <2>3 DEF SInd
<1>5. ASSUME NEW x \in Keys, NEW y \in Keys, DSUMerge(x, y) PROVE SInd'
  <2>1. kind = "DSU" /\ kind' = "DSU"
    BY <1>5, OneKind DEF DSUMerge
  <2>2. DsuInd
    BY <2>1 DEF SInd
  <2>3. DsuInd' /\ AnswerRight'
    BY <1>5, <2>2, DsuStep
  <2> QED
    BY <2>1, <2>3 DEF SInd
<1>6. ASSUME NEW i \in 1 .. 2 * Size, NEW delta \in {-1, 2}, FenwickUpdate(i, delta)
      PROVE  SInd'
  <2>1. kind = "fenwick" /\ kind' = "fenwick"
    BY <1>6, OneKind DEF FenwickUpdate
  <2>2. FenwickInd
    BY <2>1 DEF SInd
  <2>3. FenwickInd' /\ AnswerRight'
    BY <1>6, <2>2, FenwickStep
  <2> QED
    BY <2>1, <2>3 DEF SInd
<1>7. ASSUME NEW v \in Keys, NEW level \in 0 .. MaxLevel, SkipInsert(v, level) PROVE SInd'
  <2>1. kind = "skiplist" /\ kind' = "skiplist"
    BY <1>7, OneKind DEF SkipInsert
  <2>2. SkipInd
    BY <2>1 DEF SInd
  <2>3. SkipInd' /\ AnswerRight'
    BY <1>7, <1>a, <2>2, SkipStep
  <2> QED
    BY <2>1, <2>3 DEF SInd
<1>8. ASSUME NEW k \in Keys, LruGet(k) PROVE SInd'
  <2>1. kind = "lru" /\ kind' = "lru"
    BY <1>8, OneKind DEF LruGet
  <2>2. LruInd
    BY <2>1 DEF SInd
  <2>3. LruInd' /\ AnswerRight'
    BY <1>8, <1>a, <2>2, LruGetStep
  <2> QED
    BY <2>1, <2>3 DEF SInd
<1>9. ASSUME NEW k \in Keys, NEW v \in {1, 2}, LruPut(k, v) PROVE SInd'
  <2>1. kind = "lru" /\ kind' = "lru"
    BY <1>9, OneKind DEF LruPut
  <2>2. LruInd
    BY <2>1 DEF SInd
  <2>3. LruInd' /\ AnswerRight'
    BY <1>9, <1>a, <2>2, LruPutStep
  <2> QED
    BY <2>1, <2>3 DEF SInd
<1>10. ASSUME NEW w \in Words, TrieInsert(w) PROVE SInd'
  <2>1. kind = "trie" /\ kind' = "trie"
    BY <1>10, OneKind DEF TrieInsert
  <2>2. TrieInd
    BY <2>1 DEF SInd
  <2>3. TrieInd' /\ AnswerRight'
    BY <1>10, <2>2, TrieStep
  <2> QED
    BY <2>1, <2>3 DEF SInd
<1>11. ASSUME NEW n \in 1 .. RioSize + 1, NEW c \in [0 .. RioSize + 1 -> 0 .. RioSize],
              RioReadnb(n, c) \/ RioReadlineb(n + 1, c) \/ RioUnbuffered(n, c)
       PROVE  SInd'
  <2>1. kind = "rio" /\ kind' = "rio"
    BY <1>11, OneKind DEF RioReadnb, RioReadlineb, RioUnbuffered
  <2>2. RioInd
    BY <2>1 DEF SInd
  <2>3. n \in Nat /\ n + 1 \in Nat /\ n + 1 > 0 /\ (n + 1) - 1 = n
    BY <1>a DEF StructuresAssumption
  <2>5. Counts(c, n)
    <3> SUFFICES ASSUME NEW k \in 0 .. n PROVE c[k] \in Nat
      BY DEF Counts
    <3>1. k \in 0 .. RioSize + 1
      BY <1>a, <2>3 DEF StructuresAssumption
    <3>2. c[k] \in 0 .. RioSize
      BY <3>1
    <3>3. \A x \in 0 .. RioSize : x \in Nat
      BY <1>a DEF StructuresAssumption
    <3> QED BY <3>2, <3>3, Zenon
  <2>6. PICK maxlen \in Nat : maxlen = n + 1 /\ maxlen > 0 /\ Counts(c, maxlen - 1)
    BY <2>3, <2>5
  <2>4. RioInd' /\ AnswerRight'
    <3>1. CASE RioReadnb(n, c)
      BY <3>1, <1>a, <2>2, <2>3, <2>5, RioReadnbStep
    <3>2. CASE RioReadlineb(n + 1, c)
      BY <3>2, <1>a, <2>2, <2>6, RioReadlinebStep
    <3>3. CASE RioUnbuffered(n, c)
      BY <3>3, <1>a, <2>2, <2>3, <2>5, RioUnbufferedStep
    <3> QED
      BY <1>11, <3>1, <3>2, <3>3
  <2> QED
    BY <2>1, <2>4 DEF SInd
<1>12. CASE UNCHANGED sVars
  <2>1. kind' = kind /\ rep' = rep /\ abs' = abs /\ answer' = answer
    BY <1>12 DEF sVars
  <2>2. HeapInd' <=> HeapInd
    BY <2>1 DEF HeapInd
  <2>3. DisjointSetInd' <=> DisjointSetInd
    BY <2>1 DEF DisjointSetInd
  <2>4. DsuInd' <=> DsuInd
    BY <2>1 DEF DsuInd
  <2>5. FenwickInd' <=> FenwickInd
    BY <2>1 DEF FenwickInd
  <2>6. SkipInd' <=> SkipInd
    BY <2>1 DEF SkipInd
  <2>7. LruInd' <=> LruInd
    BY <2>1 DEF LruInd
  <2>8. TrieInd' <=> TrieInd
    BY <2>1 DEF TrieInd
  <2>9. RioInd' <=> RioInd
    BY <2>1 DEF RioInd
  <2>10. AnswerRight' <=> AnswerRight
    BY <2>1 DEF AnswerRight
  <2> QED
    BY <2>1, <2>2, <2>3, <2>4, <2>5, <2>6, <2>7, <2>8, <2>9, <2>10 DEF SInd
<1> QED
  BY <1>1, <1>2, <1>3, <1>4, <1>5, <1>6, <1>7, <1>8, <1>9, <1>10, <1>11, <1>12 DEF SNext

\* The invariant says all that ContainersHold does.
LEMMA SIndHolds ==
  SInd => ContainersHold
<1> SUFFICES ASSUME SInd PROVE ContainersHold
  OBVIOUS
<1>a. StructuresAssumption
  BY StructuresAssumption
<1>1. kind = "heap" => HeapRight
  BY HeapRepresents DEF SInd
<1>2. kind = "DisjointSet" => SetsRight /\ RanksRight
  BY DisjointSetRepresents DEF SInd
<1>3. kind = "DSU" => SetsRight
  BY DsuRepresents DEF SInd
<1>4. kind = "fenwick" => FenwickRight
  BY FenwickRepresents DEF SInd
<1>5. kind = "skiplist" => SkipRight
  BY <1>a, SkipRepresents DEF SInd
<1>6. kind = "lru" => CacheRight
  BY LruRepresents DEF SInd
<1>7. kind = "trie" => TrieRight
  BY <1>a, TrieRepresents DEF SInd
<1>8. kind = "rio" => RioRight
  BY RioRepresents DEF SInd
<1>9. answer[1] = answer[2]
  BY DEF SInd, AnswerRight
<1> QED
  BY <1>1, <1>2, <1>3, <1>4, <1>5, <1>6, <1>7, <1>8, <1>9 DEF ContainersHold, Represents

\* After every sequence of calls the heap, the disjoint sets, the Fenwick tree, the
\* skip list, the cache, the trie and the buffered reader stand for what was put
\* in, and every call has returned what it is meant to return.
THEOREM ContainersCorrect ==
  SSpec => []ContainersHold
<1>1. SSpec => []SInd
  BY SIndInit, SIndNext, PTL DEF SSpec
<1> QED
  BY <1>1, SIndHolds, PTL
==============================================================================
