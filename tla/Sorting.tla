------------------------------ MODULE Sorting ------------------------------
(***************************************************************************)
(* The sorts of leetcode/divideANDconquer/sortArray.cc, and the programs   *)
(* of that directory that look for an element of an array.  An array is a  *)
(* sequence, so the code's index i is i + 1 here; a read outside the array *)
(* has no value, and stops TLC.                                            *)
(***************************************************************************)
EXTENDS Integers, SequencesExt

CONSTANT Grain    \* parallelQuickSort sorts shorter ranges in one thread

ASSUME GrainAssumption == Grain \in Nat \ {0}

LOCAL Swap(s, i, j) == [s EXCEPT ![i] = s[j], ![j] = s[i]]

(* How often v occurs in the positions lo .. hi of s.                      *)
Count(s, lo, hi, v) == Cardinality({k \in lo .. hi : s[k] = v})

(* Mutant of InsertStep: the loop does not reach the first position.       *)
InsertStepShort(s, i) ==
  LET j == Max({1} \cup {k \in 1 .. i - 1 : ~(s[i] < s[k])})
  IN  [k \in DOMAIN s |-> CASE k = j + 1 -> s[i]
                            [] k \in j + 2 .. i -> s[k - 1]
                            [] OTHER -> s[k]]

----------------------------------------------------------------------------
(* One round of insertionSort: the i-th element moves down to where the    *)
(* first smaller or equal one stops it.                                    *)
InsertStep(s, i) ==
  LET j == Max({0} \cup {k \in 1 .. i - 1 : ~(s[i] < s[k])})
  IN  [k \in DOMAIN s |-> CASE k = j + 1 -> s[i]
                            [] k \in j + 2 .. i -> s[k - 1]
                            [] OTHER -> s[k]]

insertionSort(s) == FoldLeft(InsertStep, s, [k \in 1 .. Len(s) - 1 |-> k + 1])

(* The loop that quickSort and parallelQuickSort write out four times: the *)
(* two ends move towards each other, swapping what is on the wrong side.   *)
RECURSIVE partition(_, _, _, _)
partition(s, l, r, p) ==
  IF l > r THEN [seq |-> s, l |-> l, r |-> r]
  ELSE LET l1 == Min({k \in l .. Len(s) : ~(s[k] < p)})
           r1 == Max({k \in 1 .. r : ~(s[k] > p)})
       IN  IF l1 <= r1 THEN partition(Swap(s, l1, r1), l1 + 1, r1 - 1, p)
                       ELSE [seq |-> s, l |-> l1, r |-> r1]

RECURSIVE sortRange(_, _, _)
sortRange(s, l, r) ==
  IF l >= r THEN s
  ELSE LET q == partition(s, l, r, s[l + ((r - l) \div 2)])
       IN  sortRange(sortRange(q.seq, l, q.r), q.l, r)

quickSort(s) == sortRange(s, 1, Len(s))

(* The two asynchronous sorts may run in either order.                     *)
parallelQuickSort(s, leftFirst) ==
  LET q == partition(s, 1, Len(s), s[1 + ((Len(s) - 1) \div 2)])
  IN  IF Len(s) <= 1 THEN s
      ELSE IF Len(s) - 1 < Grain THEN quickSort(s)
      ELSE IF leftFirst THEN sortRange(sortRange(q.seq, 1, q.r), q.l, Len(s))
      ELSE sortRange(sortRange(q.seq, q.l, Len(s)), 1, q.r)

(* std::partition: the elements of S come first, those that are in front   *)
(* already stay where they are.                                            *)
stdPartition(s, S) ==
  SelectSeq(s, LAMBDA v : v \in S) \o Reverse(SelectSeq(s, LAMBDA v : v \notin S))

(* utils/parallelQuickSort.cc partitions twice over the whole range, by    *)
(* "below the pivot" and by "not above it"; the two ranges that are sorted *)
(* asynchronously do not overlap.                                          *)
RECURSIVE quicksort(_)
quicksort(s) ==
  IF Len(s) < Grain THEN SortSeq(s, <)
  ELSE LET pivot == s[(Len(s) \div 2) + 1]
           below == {v \in ToSet(s) : v < pivot}
           upTo == {v \in ToSet(s) : ~(pivot < v)}
           t == stdPartition(stdPartition(s, below), upTo)
           middle1 == Cardinality({k \in DOMAIN s : s[k] \in below})
           middle2 == Cardinality({k \in DOMAIN s : s[k] \in upTo})
       IN  quicksort(SubSeq(t, 1, middle1)) \o SubSeq(t, middle1 + 1, middle2)
             \o quicksort(SubSeq(t, middle2 + 1, Len(s)))

countingSort(s) ==
  LET l == Min(ToSet(s))
      tally == [i \in 0 .. Max(ToSet(s)) - l |-> Count(s, 1, Len(s), l + i)]
      run(i) == [k \in 1 .. tally[i - 1] |-> l + i - 1]
  IN  FlattenSeq([i \in 1 .. Max(ToSet(s)) - l + 1 |-> run(i)])

(* heapify(i, e) of heapSort2, with the code's indices from 0.             *)
RECURSIVE heapify(_, _, _)
heapify(s, i, e) ==
  LET l == 2 * i + 1
      r == 2 * i + 2
      j1 == IF l <= e /\ s[l + 1] > s[i + 1] THEN l ELSE i
      j == IF r <= e /\ s[r + 1] > s[j1 + 1] THEN r ELSE j1
  IN  IF i > e \/ j = i THEN s ELSE heapify(Swap(s, i + 1, j + 1), j, e)

heapSort2(s) ==
  LET n == Len(s)
      build == FoldLeft(LAMBDA t, k : heapify(t, k, n - 1), s,
                        [k \in 1 .. (n \div 2) + 1 |-> (n \div 2) + 1 - k])
  IN  FoldLeft(LAMBDA t, i : heapify(Swap(t, 1, i + 1), 0, i - 1), build,
               [k \in 1 .. n - 1 |-> n - k])

(* The merge of two sorted ranges; equal elements of the right one first.  *)
RECURSIVE merge(_, _)
merge(a, b) ==
  IF a = << >> \/ b = << >> THEN a \o b
  ELSE IF Head(a) < Head(b) THEN <<Head(a)>> \o merge(Tail(a), b)
  ELSE <<Head(b)>> \o merge(a, Tail(b))

RECURSIVE mergeSort(_)
mergeSort(s) ==
  LET m == Len(s) \div 2
  IN  IF Len(s) <= 1 THEN s
      ELSE merge(mergeSort(SubSeq(s, 1, m)), mergeSort(SubSeq(s, m + 1, Len(s))))

----------------------------------------------------------------------------
(* majorityElement1 and 2 differ only in the map they count with.          *)
majorityElement1(s) ==
  LET hit == {k \in DOMAIN s : Count(s, 1, k, s[k]) > Len(s) \div 2}
  IN  IF hit = {} THEN -1 ELSE s[Min(hit)]

(* Every value majorityElement3 may return; it looks for ever if none.     *)
majorityElement3(s) == {v \in ToSet(s) : Count(s, 1, Len(s), v) > Len(s) \div 2}

CONSTANT WordBits    \* the bits of an int that the elements use

majorityElement4(s) ==
  LET set(i) == Cardinality({k \in DOMAIN s : (s[k] \div 2^i) % 2 = 1})
                  > Len(s) \div 2
  IN  MapThenSumSet(LAMBDA i : IF set(i) THEN 2^i ELSE 0, 0 .. WordBits - 1)

(* Boyer and Moore's vote, with the candidate replaced when its votes have *)
(* just come to 0.                                                         *)
majorityElement5(s) ==
  LET vote(c, num) ==
        CASE num = c.majority -> [c EXCEPT !.count = @ + 1]
          [] num # c.majority /\ c.count - 1 = 0 -> [majority |-> num, count |-> 1]
          [] OTHER -> [c EXCEPT !.count = @ - 1]
  IN  FoldLeft(vote, [majority |-> s[1], count |-> 0], s).majority

(* Full and partial sorting of the library, then the middle element.       *)
majorityElement6(s) == SortSeq(s, <)[(Len(s) \div 2) + 1]

RECURSIVE majorityHelper(_, _, _)
majorityHelper(s, l, r) ==
  LET mid == l + ((r - l) \div 2)
      ml == majorityHelper(s, l, mid)
      mr == majorityHelper(s, mid + 1, r)
  IN  CASE l = r -> <<s[l], 1>>
        [] l # r /\ ml[1] = mr[1] -> <<ml[1], ml[2] + mr[2]>>
        [] l # r /\ ml[1] # mr[1] /\ ml[2] > mr[2] ->
             <<ml[1], ml[2] + Count(s, mid + 1, r, ml[1])>>
        [] OTHER -> <<mr[1], mr[2] + Count(s, l, mid, mr[1])>>

majorityElement8(s) == majorityHelper(s, 1, Len(s))[1]

----------------------------------------------------------------------------
RECURSIVE findMin(_, _, _)
findMin(s, l, r) ==
  LET mid == l + ((r - l) \div 2)
  IN  IF l + 1 >= r THEN Min({s[l], s[r]})
      ELSE IF s[l] < s[r] THEN s[l]
      ELSE Min({findMin(s, l, mid - 1), findMin(s, mid, r)})

(* The index, from 0, of target in a rotated sorted array, or -1.          *)
RECURSIVE search(_, _, _, _)
search(s, target, left, right) ==
  LET mid == (left + right) \div 2
      m == s[mid + 1]
      low == search(s, target, left, mid - 1)
      high == search(s, target, mid + 1, right)
  IN  CASE left > right -> -1
        [] left <= right /\ m = target -> mid
        [] left <= right /\ m # target /\ m > s[right + 1] ->
             IF target >= s[left + 1] /\ target < m THEN low ELSE high
        [] left <= right /\ m # target /\ m < s[left + 1] ->
             IF target > m /\ target <= s[right + 1] THEN high ELSE low
        [] OTHER -> IF target < m THEN low ELSE high

----------------------------------------------------------------------------
SortOf(s, t) == /\ IsSorted(t, <=)
                /\ Len(t) = Len(s)
                /\ \A v \in ToSet(s) : Count(t, 1, Len(t), v) = Count(s, 1, Len(s), v)

Rotations(s) == {[k \in DOMAIN s |-> s[((k + d - 1) % Len(s)) + 1]] : d \in DOMAIN s}

(* Every sort of sortArray.cc returns the sorted rearrangement of its      *)
(* input, whichever of the two asynchronous halves runs first.             *)
SortsSort(s) ==
  s # << >> =>
    \A t \in {insertionSort(s), quickSort(s), parallelQuickSort(s, TRUE),
              parallelQuickSort(s, FALSE), countingSort(s), heapSort2(s),
              mergeSort(s), quicksort(s)} : SortOf(s, t)

(* An element that makes up more than half of the array is what each of    *)
(* the eight searches returns, and the first and third never another one.  *)
MajoritiesAgree(s) ==
  /\ \A v \in ToSet(s) : Count(s, 1, Len(s), v) > Len(s) \div 2 =>
       /\ majorityElement3(s) = {v}
       /\ \A w \in {majorityElement1(s), majorityElement4(s), majorityElement5(s),
                    majorityElement6(s), majorityElement8(s)} : w = v
  /\ majorityElement3(s) = {} => majorityElement1(s) = -1

(* In every rotation of a sorted array the least element is found, and, if *)
(* the elements differ, each element is found at its index and no other    *)
(* value is.                                                               *)
RotatedFound(s) ==
  \A t \in Rotations(SortSeq(s, <)) :
    /\ IsInjective(s) => findMin(t, 1, Len(t)) = Min(ToSet(t))
    /\ IsInjective(s) => \A v \in 0 .. 4 :
         search(t, v, 0, Len(t) - 1) =
           IF v \in ToSet(t) THEN (CHOOSE k \in DOMAIN t : t[k] = v) - 1 ELSE -1
============================================================================
