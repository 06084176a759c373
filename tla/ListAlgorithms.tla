--------------------------- MODULE ListAlgorithms ---------------------------
(***************************************************************************)
(* The programs of leetcode/list, and List of misc/struct/list.h.  Where a *)
(* program only takes lists apart and joins them, a list is the sequence   *)
(* of its values; where it rewrites next pointers in place, a list is a    *)
(* record of values and pointers, with Nullptr for nullptr and the node 1  *)
(* at its head.                                                            *)
(***************************************************************************)
EXTENDS Integers, SequencesExt

Nullptr == 0

(* ListNode(nums): nodes 1 .. n in the order of nums.  The last node may   *)
(* point back to a node.                                                   *)
ListNode(nums, back) ==
  [val |-> nums, next |-> [k \in DOMAIN nums |-> IF k < Len(nums) THEN k + 1 ELSE back]]

RECURSIVE Walk(_, _)
Walk(l, p) == IF p = Nullptr THEN << >> ELSE <<l.val[p]>> \o Walk(l, l.next[p])

----------------------------------------------------------------------------
RECURSIVE addTwoNums(_, _)
addTwoNums(l1, l2) ==
  IF l1 = << >> THEN l2
  ELSE IF l2 = << >> THEN l1
  ELSE LET a == l1[1] + l2[1]
           rest == addTwoNums(Tail(l1), Tail(l2))
       IN  <<a % 10>> \o (IF a >= 10 THEN addTwoNums(rest, <<1>>) ELSE rest)

RECURSIVE addTwoNums2(_, _, _)
addTwoNums2(l1, l2, carry) ==
  LET digit(l) == IF l = << >> THEN 0 ELSE l[1]
      rest(l) == IF l = << >> THEN l ELSE Tail(l)
      sum == carry + digit(l1) + digit(l2)
  IN  IF l1 = << >> /\ l2 = << >> /\ carry = 0 THEN << >>
      ELSE <<sum % 10>> \o addTwoNums2(rest(l1), rest(l2), sum \div 10)

RECURSIVE mergeTwoList(_, _)
mergeTwoList(l1, l2) ==
  IF l1 = << >> \/ l2 = << >> THEN l1 \o l2
  ELSE IF l1[1] < l2[1] THEN <<l1[1]>> \o mergeTwoList(Tail(l1), l2)
  ELSE <<l2[1]>> \o mergeTwoList(l1, Tail(l2))

(* The three functions of mergeLists.cc differ in the container that holds *)
(* what is left of the lists; each takes a least head and puts its next    *)
(* node back.                                                              *)
RECURSIVE mergeLists(_)
mergeLists(lists) ==
  IF lists = << >> THEN << >>
  ELSE LET i == CHOOSE i \in DOMAIN lists : \A j \in DOMAIN lists : lists[i][1] <= lists[j][1]
           l == lists[i]
       IN  <<l[1]>> \o mergeLists(IF Len(l) > 1 THEN [lists EXCEPT ![i] = Tail(l)]
                                                ELSE RemoveAt(lists, i))

(* The slow pointer has passed half of the list when the fast one is out.  *)
RECURSIVE mergeSortTopDown(_)
mergeSortTopDown(l) ==
  IF Len(l) <= 1 THEN l
  ELSE LET slow == (Len(l) + 1) \div 2
       IN  mergeTwoList(mergeSortTopDown(SubSeq(l, 1, slow)),
                        mergeSortTopDown(SubSeq(l, slow + 1, Len(l))))

(* One pass merges the sorted pieces of length n two by two.               *)
RECURSIVE mergePass(_, _)
mergePass(l, n) ==
  LET left == SubSeq(l, 1, n)
      right == SubSeq(l, n + 1, Min({2 * n, Len(l)}))
      rest == SubSeq(l, 2 * n + 1, Len(l))
  IN  IF Len(l) <= n THEN l
      ELSE mergeTwoList(left, right) \o mergePass(rest, n)

RECURSIVE mergeSortBottomUp(_, _)
mergeSortBottomUp(l, n) ==
  IF n < Len(l) THEN mergeSortBottomUp(mergePass(l, n), 2 * n) ELSE l

(* p runs n - 1 nodes ahead, then both run to the end; *pp is unlinked.    *)
removeNthFromEnd(l, n) == RemoveAt(l, 1 + (Len(l) - n))

----------------------------------------------------------------------------
(* The look-ahead of listStruct.h stops in time.                           *)
RECURSIVE chaseSafely(_, _, _)
chaseSafely(l, p1, p2) ==
  IF p2 = Nullptr THEN FALSE
  ELSE IF l.next[p2] = Nullptr THEN FALSE
  ELSE IF l.next[l.next[p2]] = Nullptr THEN FALSE
  ELSE IF p1 = p2 THEN TRUE
  ELSE chaseSafely(l, l.next[p1], l.next[l.next[p2]])

RECURSIVE reverseFrom(_, _, _)
reverseFrom(l, prev, cur) ==
  IF cur = Nullptr THEN Walk(l, prev)
  ELSE reverseFrom([l EXCEPT !.next[cur] = prev], cur, l.next[cur])

reverse(s) == reverseFrom(ListNode(s, Nullptr), Nullptr, IF s = << >> THEN Nullptr ELSE 1)

(* Mutant of swapFrom: the link behind the pair is lost.                   *)
swapFromLost(l, head) ==
  LET n1 == l.next[head]
      n2 == l.next[n1]
  IN  IF n1 = Nullptr THEN l
      ELSE IF n2 = Nullptr THEN l
      ELSE [l EXCEPT !.next[n1] = Nullptr, !.next[n2] = n1, !.next[head] = n2]

(* A pair is linked in the other order and the walk goes on behind it.     *)
RECURSIVE swapFrom(_, _)
swapFrom(l, head) ==
  LET n1 == l.next[head]
      n2 == l.next[n1]
  IN  IF n1 = Nullptr THEN l
      ELSE IF n2 = Nullptr THEN l
      ELSE swapFrom([l EXCEPT !.next[n1] = l.next[n2], !.next[n2] = n1,
                              !.next[head] = n2], n1)

(* The list with a dummy node in front of its head, the last index.        *)
WithDummy(s) ==
  [val |-> Append(s, 0), next |-> Append(ListNode(s, Nullptr).next, IF s = << >> THEN Nullptr ELSE 1)]

swapPairs(s) ==
  LET l == swapFrom(WithDummy(s), Len(s) + 1)
  IN  IF Len(s) < 2 THEN s ELSE Walk(l, l.next[Len(s) + 1])

(* insertionSort.cc: a node smaller than the one before it moves to where  *)
(* it belongs, found from the dummy.                                       *)
RECURSIVE place(_, _, _)
place(l, prev, v) ==
  IF l.next[prev] = Nullptr THEN prev
  ELSE IF l.val[l.next[prev]] < v THEN place(l, l.next[prev], v)
  ELSE prev

RECURSIVE insertFrom(_, _, _)
insertFrom(l, dummy, cur) ==
  IF cur = Nullptr THEN Walk(l, l.next[dummy])
  ELSE LET moved == l.next[cur]
           prev == place(l, dummy, l.val[moved])
           cut == [l EXCEPT !.next[cur] = l.next[moved]]
       IN  IF moved = Nullptr THEN insertFrom(l, dummy, Nullptr)
           ELSE IF l.val[moved] < l.val[cur]
           THEN insertFrom([cut EXCEPT !.next[prev] = moved, !.next[moved] = l.next[prev]],
                           dummy, cur)
           ELSE insertFrom(l, dummy, moved)

insertionSortList(s) == insertFrom(WithDummy(s), Len(s) + 1, IF s = << >> THEN Nullptr ELSE 1)

----------------------------------------------------------------------------
(* List of misc/struct/list.h.  The constructor puts the values in front,  *)
(* from the last one on; the sorts and Reverse set head.                   *)
List(vec) == FoldLeft(LAMBDA l, i : <<vec[i]>> \o l, << >>,
                      [k \in DOMAIN vec |-> Len(vec) + 1 - k])

HasCycle(l) == l.val # << >> /\ chaseSafely(l, 1, l.next[1])

(* The merged list and its last node: p runs on behind the shorter list.   *)
RECURSIVE MergeFrom(_, _, _)
MergeFrom(lhs, rhs, p) ==
  IF lhs = << >> \/ rhs = << >> THEN p \o lhs \o rhs
  ELSE IF lhs[1] < rhs[1] THEN MergeFrom(Tail(lhs), rhs, Append(p, lhs[1]))
  ELSE MergeFrom(lhs, Tail(rhs), Append(p, rhs[1]))

Merge(lhs, rhs) ==
  LET l == MergeFrom(lhs, rhs, << >>) IN [first |-> l, second |-> Len(l)]

RECURSIVE MergeSortTopDown(_)
MergeSortTopDown(node) ==
  IF Len(node) <= 1 THEN node
  ELSE LET mid == (Len(node) + 1) \div 2      \* slow stops before it
       IN  Merge(MergeSortTopDown(SubSeq(node, 1, mid)),
                 MergeSortTopDown(SubSeq(node, mid + 1, Len(node)))).first

(* A round for the pieces of n nodes: tail stands at the end of what is    *)
(* merged already, node at the rest.                                       *)
RECURSIVE MergeRound(_, _, _)
MergeRound(tail, node, n) ==
  LET l == SubSeq(node, 1, Min({n, Len(node)}))
      r == SubSeq(node, n + 1, Min({2 * n, Len(node)}))
      rest == SubSeq(node, 2 * n + 1, Len(node))
  IN  IF node = << >> THEN tail ELSE MergeRound(tail \o Merge(l, r).first, rest, n)

RECURSIVE MergeSortBottomUp(_, _)
MergeSortBottomUp(node, n) ==
  IF n < Len(node) THEN MergeSortBottomUp(MergeRound(<< >>, node, n), 2 * n) ELSE node

InsertionSort(vec) == insertFrom(WithDummy(vec), Len(vec) + 1, IF vec = << >> THEN Nullptr ELSE 1)

ReverseList(vec) == reverseFrom(ListNode(vec, Nullptr), Nullptr, IF vec = << >> THEN Nullptr ELSE 1)

----------------------------------------------------------------------------
LOCAL Number(digits) ==
  FoldLeft(+, 0, [k \in DOMAIN digits |-> digits[k] * 10^(k - 1)])

LOCAL Sorts(s, t) == t = SortSeq(s, <)

(* Addition of the digits of two numbers gives the digits of their sum.    *)
AddsRight(a, b) ==
  \A r \in {addTwoNums(a, b), addTwoNums2(a, b, 0)} :
    /\ Number(r) = Number(a) + Number(b)
    /\ \A k \in DOMAIN r : r[k] \in 0 .. 9

(* Sorting a list, in any of the three ways, merging and rewiring lose no  *)
(* node, repeat none and close no cycle.                                   *)
ListsKept(s) ==
  LET h == Len(s) \div 2
      lo == SortSeq(SubSeq(s, 1, h), <)
      hi == SortSeq(SubSeq(s, h + 1, Len(s)), <)
      other(k) == IF k % 2 = 1 THEN (IF k < Len(s) THEN k + 1 ELSE k) ELSE k - 1
  IN  /\ \A t \in {mergeSortTopDown(s), mergeSortBottomUp(s, 1), insertionSortList(s),
                   MergeSortTopDown(List(s)), MergeSortBottomUp(List(s), 1),
                   InsertionSort(s), Merge(lo, hi).first, mergeTwoList(lo, hi),
                   mergeLists(SelectSeq(<<lo, hi, <<>>>>, LAMBDA l : l # << >>))} :
           Sorts(s, t)
      /\ reverse(s) = Reverse(s) /\ ReverseList(s) = Reverse(s) /\ List(s) = s
      /\ swapPairs(s) = [k \in DOMAIN s |-> s[other(k)]]
      /\ \A n \in DOMAIN s :
           removeNthFromEnd(s, n) = Reverse(RemoveAt(Reverse(s), n))

(* The walk that print() relies on tells a list that ends from one whose   *)
(* last node points back.                                                  *)
CyclesFound(s) ==
  s # << >> => \A back \in 0 .. Len(s) : HasCycle(ListNode(s, back)) <=> back # Nullptr

(* What holds of the programs of leetcode/list, and of List, on one input. *)
ListsRight(s) ==
  LET digit == [k \in DOMAIN s |-> <<0, 1, 5, 9>>[s[k] + 1]]
      h == Len(s) \div 2
  IN  /\ AddsRight(SubSeq(digit, 1, h), SubSeq(digit, h + 1, Len(s)))
      /\ ListsKept(s)
      /\ CyclesFound(s)
============================================================================
