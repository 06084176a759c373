-------------------------- MODULE ArrayAlgorithms --------------------------
(***************************************************************************)
(* The programs of leetcode/other that work on arrays, with std/permutation*)
(* and std/combination, utils/numCombination, utils/memcpy and             *)
(* network/IPrange.  An array is a sequence: the code's index i is i + 1.  *)
(***************************************************************************)
EXTENDS Integers, SequencesExt

LOCAL Larger(x, y) == IF x < y THEN y ELSE x
LOCAL Smaller(x, y) == IF y < x THEN y ELSE x
LOCAL SumOf(s) == FoldLeft(+, 0, s)
LOCAL UpTo(lo, hi) == [k \in 1 .. hi - lo + 1 |-> lo + k - 1]
LOCAL Swap(s, i, j) == [s EXCEPT ![i] = s[j], ![j] = s[i]]
LOCAL FirstFrom(lo, hi, Stop(_)) == Min({hi} \cup {k \in lo .. hi : Stop(k)})
LOCAL LastFrom(hi, lo, Stop(_)) == Max({lo} \cup {k \in lo .. hi : Stop(k)})

----------------------------------------------------------------------------
(* Combinations by their sum; the candidates are sorted, as the break      *)
(* needs them to be.                                                       *)
combinationSum(candidates, target) ==
  LET extend(dp, i) ==
        LET usable == SelectSeq(candidates, LAMBDA n : n <= i)
            grow(n) == LET fits == SelectSeq(dp[i - n + 1],
                                             LAMBDA v : v = << >> \/ Last(v) <= n)
                       IN  [k \in DOMAIN fits |-> Append(fits[k], n)]
        IN  Append(dp, FlattenSeq([k \in DOMAIN usable |-> grow(usable[k])]))
  IN  FoldLeft(extend, <<<< <<>> >>>>, UpTo(1, target))[target + 1]

(* Both ends move inwards past everything that is not higher.              *)
RECURSIVE maxAreaFrom(_, _, _, _)
maxAreaFrom(s, l, r, res) ==
  IF l >= r THEN res
  ELSE LET h == Smaller(s[l], s[r])
           l1 == FirstFrom(l, r, LAMBDA k : s[k] > h)
           r1 == LastFrom(r, l1, LAMBDA k : s[k] > h)
       IN  maxAreaFrom(s, l1, r1, Larger(res, (r - l) * h))

maxArea(s) == maxAreaFrom(s, 1, Len(s), 0)

RECURSIVE drain(_, _)
drain(interval, diff) ==
  IF diff <= 0 THEN 0 ELSE 1 + drain(Front(interval), diff - Last(interval))

minOperations(nums1, nums2) ==
  LET s1 == Len(nums1)
      s2 == Len(nums2)
      more == SumOf(nums1) > SumOf(nums2)
      bigger == IF more THEN nums1 ELSE nums2
      smaller == IF more THEN nums2 ELSE nums1
      interval == [k \in DOMAIN bigger |-> bigger[k] - 1]
                    \o [k \in DOMAIN smaller |-> 6 - smaller[k]]
  IN  IF Smaller(s1, s2) * 6 < Larger(s1, s2) THEN -1
      ELSE drain(SortSeq(interval, <), SumOf(bigger) - SumOf(smaller))

searchRange(s, target) ==
  LET lower == Min({Len(s) + 1} \cup {k \in DOMAIN s : s[k] >= target})
      upper == Min({Len(s) + 1} \cup {k \in DOMAIN s : s[k] > target})
  IN  <<lower - 1, upper - 2>>

(* Each value in range is swapped to the index it counts.                  *)
RECURSIVE settle(_, _)
settle(s, i) ==
  IF s[i] \in 1 .. Len(s)
  THEN IF s[i] # s[s[i]] THEN settle(Swap(s, i, s[i]), i) ELSE s
  ELSE s

firstMissingPositive(s) ==
  LET t == FoldLeft(settle, s, UpTo(1, Len(s)))
  IN  Min({Len(s) + 1} \cup {k \in DOMAIN t : t[k] # k})

(* The list and the iterator of josephus.cc; n is at least 2.              *)
RECURSIVE josephusFrom(_, _, _)
josephusFrom(l, it, n) ==
  LET len == Len(l)
      at == ((it - 1 + (n - 2)) % len) + 1
      next == (at % len) + 1
      left == RemoveAt(l, next)
      here == IF next < at THEN at - 1 ELSE at
  IN  IF len = 1 THEN l[it] ELSE josephusFrom(left, (here % (len - 1)) + 1, n)

josephus(m, n) == josephusFrom(UpTo(1, m), 1, n)

(* Breadth first, with a queue of indices from 0; an index is pushed as    *)
(* often as it is reached.                                                 *)
RECURSIVE canJumpFrom(_, _)
canJumpFrom(s, q) ==
  IF q = << >> THEN FALSE
  ELSE LET idx == Head(q)
       IN  \/ idx < Len(s) - 1 /\ idx + s[idx + 1] >= Len(s) - 1
           \/ canJumpFrom(s, Tail(q) \o [i \in 1 .. s[idx + 1] |-> idx + i])

canJump(s) == canJumpFrom(s, <<0>>)

RECURSIVE jumpFrom(_, _)
jumpFrom(s, dest) ==
  IF Len(s) - 1 \in dest THEN 0
  ELSE 1 + jumpFrom(s, UNION {i + 1 .. i + s[i + 1] : i \in dest})

jump(s) == jumpFrom(s, {0})

(* The stack holds indices of non-decreasing heights; a lower bar closes   *)
(* the rectangles of those above it.                                       *)
RECURSIVE unstack(_, _, _)
unstack(h, i, st) ==
  IF st.idx = << >> THEN st
  ELSE IF ~(h[i] < h[Last(st.idx)]) THEN st
  ELSE LET rest == Front(st.idx)
           prev == IF rest = << >> THEN 0 ELSE Last(rest)
       IN  unstack(h, i, [idx |-> rest,
                          res |-> Larger(st.res, h[Last(st.idx)] * (i - prev - 1))])

largestRectangleArea(s) ==
  LET h == Append(s, 0)
      step(st, i) == LET u == unstack(h, i, st) IN [u EXCEPT !.idx = Append(@, i)]
  IN  FoldLeft(step, [idx |-> << >>, res |-> 0], UpTo(1, Len(h))).res

(* maxAvgPassRatio.cc: the classes <<pass, total>> after k more students,  *)
(* each put where the ratio gains most; fractions are compared exactly.    *)
RECURSIVE maxAvgRatio(_, _)
maxAvgRatio(classes, k) ==
  LET num(i) == classes[i][2] - classes[i][1]
      den(i) == classes[i][2] * (classes[i][2] + 1)
      less(i, j) == num(i) * den(j) < num(j) * den(i)
      top == Max({i \in DOMAIN classes : \A j \in DOMAIN classes : ~less(i, j)})
  IN  IF k = 0 THEN classes
      ELSE maxAvgRatio([classes EXCEPT ![top] = <<@[1] + 1, @[2] + 1>>], k - 1)

(* Twice the median.  The search takes m1 elements of the shorter array    *)
(* and k - m1 of the other.                                                *)
RECURSIVE cutMedian(_, _, _, _, _)
cutMedian(a, b, k, l, r) ==
  LET m1 == l + ((r - l) \div 2)
  IN  IF l >= r THEN l
      ELSE IF a[m1 + 1] < b[k - m1] THEN cutMedian(a, b, k, m1 + 1, r)
      ELSE cutMedian(a, b, k, l, m1)

findMedian(nums1, nums2) ==
  LET swap == Len(nums1) > Len(nums2)
      a == IF swap THEN nums2 ELSE nums1
      b == IF swap THEN nums1 ELSE nums2
      k == (Len(a) + Len(b) + 1) \div 2
      m1 == cutMedian(a, b, k, 0, Len(a))
      m2 == k - m1
      c1 == Max((IF m1 > 0 THEN {a[m1]} ELSE {}) \cup (IF m2 > 0 THEN {b[m2]} ELSE {}))
      c2 == Min((IF m1 < Len(a) THEN {a[m1 + 1]} ELSE {})
                  \cup (IF m2 < Len(b) THEN {b[m2 + 1]} ELSE {}))
  IN  IF (Len(a) + Len(b)) % 2 = 1 THEN 2 * c1 ELSE c1 + c2

----------------------------------------------------------------------------
(* The next arrangement in the order given by Less, with TRUE, or the      *)
(* first one, with FALSE.                                                  *)
LOCAL Rearrange(s, Less(_, _)) ==
  LET rise == {i \in 1 .. Len(s) - 1 : Less(s[i], s[i + 1])}
      i == Max(rise)
      i2 == Max({j \in i .. Len(s) : Less(s[i], s[j])})
      swapped == Swap(s, i, i2)
  IN  IF Len(s) <= 1 THEN <<s, FALSE>>
      ELSE IF rise = {} THEN <<Reverse(s), FALSE>>
      ELSE <<SubSeq(swapped, 1, i) \o Reverse(SubSeq(swapped, i + 1, Len(s))), TRUE>>

nextPermutation(s) == Rearrange(s, <)
my_next_permutation(s) == Rearrange(s, <)
my_prev_permutation(s) == Rearrange(s, >)

RECURSIVE arrangements(_, _)
arrangements(s, upwards) ==
  LET step == IF upwards THEN nextPermutation(s) ELSE my_prev_permutation(s)
  IN  <<s>> \o (IF step[2] THEN arrangements(step[1], upwards) ELSE << >>)

permute(s) == arrangements(SortSeq(s, <), TRUE)

(* std/combination.cc: the selectors start with their ones in front.       *)
combinations(n, r) ==
  arrangements([k \in 1 .. n |-> IF k <= r THEN 1 ELSE 0], FALSE)

subsets(s) ==
  FoldLeft(LAMBDA res, num : res \o [k \in DOMAIN res |-> Append(res[k], num)], <<<< >>>>, s)

subsetsBit(s) ==
  LET bit(pos, idx) == (pos \div 2^(idx - 1)) % 2 = 1
      chosen(pos) == SelectSeq(UpTo(1, Len(s)), LAMBDA idx : bit(pos, idx))
  IN  [p \in 1 .. 2^Len(s) |-> [k \in DOMAIN chosen(p - 1) |-> s[chosen(p - 1)[k]]]]

RECURSIVE NCR(_, _)
NCR(n, r) ==
  IF r = 0 THEN 1
  ELSE IF r > n \div 2 THEN NCR(n, n - r)
  ELSE FoldLeft(LAMBDA res, k : (res * (n - k + 1)) \div k, 1, UpTo(1, r))

(* Pascal's triangle, above its diagonal the ones it was filled with.      *)
ncr(n) ==
  LET row(prev, i) == [j \in 1 .. n + 1 |-> IF j \in 2 .. i THEN prev[j] + prev[j - 1] ELSE 1]
      rows == FoldLeft(LAMBDA t, i : Append(t, row(Last(t), i)),
                       <<[j \in 1 .. n + 1 |-> 1]>>, UpTo(1, n))
  IN  rows

----------------------------------------------------------------------------
rotate(m) ==
  LET flipped == Reverse(m)
  IN  [i \in DOMAIN m |-> [j \in DOMAIN m |-> flipped[j][i]]]

anti_rotate(m) == Reverse([i \in DOMAIN m |-> [j \in DOMAIN m |-> m[j][i]]])

(* The brute force, a multiset, and the two monotonic queues.              *)
maxSlidingWindow(s, k) == [i \in 1 .. Len(s) - k + 1 |-> Max(ToSet(SubSeq(s, i, i + k - 1)))]

maxSlidingWindow2(s, k) ==
  LET step(st, i) == LET window == Append(st.window, s[i])
                     IN  [window |-> RemoveFirst(window, s[i - k + 1]),
                          res |-> Append(st.res, Max(ToSet(window)))]
  IN  FoldLeft(step, [window |-> SubSeq(s, 1, k - 1), res |-> << >>], UpTo(k, Len(s))).res

(* What stays of the queue when e is pushed: nothing Lost from its back on.*)
LOCAL PushBack(q, e, Lost(_)) ==
  Append(SubSeq(q, 1, Max({0} \cup {k \in DOMAIN q : ~Lost(q[k])})), e)

maxSlidingWindow3(s, k) ==
  LET step(st, i) ==
        LET q == PushBack(st.q, s[i], LAMBDA d : s[i] > d)
        IN  IF i < k THEN [st EXCEPT !.q = q]
            ELSE [q |-> IF s[i - k + 1] = q[1] THEN Tail(q) ELSE q, res |-> Append(st.res, q[1])]
  IN  FoldLeft(step, [q |-> << >>, res |-> << >>], UpTo(1, Len(s))).res

maxSlidingWindow4(s, k) ==
  LET step(st, i) ==
        LET q == PushBack(st.q, i, LAMBDA d : s[i] >= s[d])
        IN  [q |-> IF i - k + 1 >= q[1] THEN Tail(q) ELSE q,
             res |-> IF i < k THEN st.res ELSE Append(st.res, s[q[1]])]
  IN  FoldLeft(step, [q |-> << >>, res |-> << >>], UpTo(1, Len(s))).res

(* The pairs of a sorted array with a sum, from the outside inwards.       *)
RECURSIVE pairsFrom(_, _, _, _)
pairsFrom(s, target, l, r) ==
  LET sum == s[l] + s[r]
      l1 == FirstFrom(l, r, LAMBDA k : s[k] # s[l])
      r1 == LastFrom(r, l1, LAMBDA k : s[k] # s[r])
  IN  IF l >= r THEN << >>
      ELSE IF sum < target THEN pairsFrom(s, target, l + 1, r)
      ELSE IF sum > target THEN pairsFrom(s, target, l, r - 1)
      ELSE <<<<-target, s[l], s[r]>>>> \o pairsFrom(s, target, l1, r1)

RECURSIVE threeSumFrom(_, _)
threeSumFrom(s, i) ==
  LET last == Max({k \in i .. Len(s) : s[k] = s[i]})
  IN  IF i > Len(s) THEN << >>
      ELSE IF -s[i] < 0 THEN << >>
      ELSE pairsFrom(s, -s[i], i + 1, Len(s)) \o threeSumFrom(s, last + 1)

threeSum(nums) == threeSumFrom(SortSeq(nums, <), 1)

RECURSIVE trapFrom(_, _, _, _)
trapFrom(s, l, r, minH) ==
  IF l >= r THEN 0
  ELSE LET l1 == FirstFrom(l, r, LAMBDA k : s[k] > minH)
           r1 == LastFrom(r, l1, LAMBDA k : s[k] > minH)
           filled == MapThenSumSet(LAMBDA k : minH - s[k], (l .. l1 - 1) \cup (r1 + 1 .. r))
       IN  filled + trapFrom(s, l1, r1, Smaller(s[l1], s[r1]))

trap(s) == trapFrom(s, 1, Len(s), 0)

(* tiny/csapp.c: the walk over the addresses of a host.  The outcome of an  *)
(* address is 0 when socket() fails, 1 when connect() or bind() does, 2 when *)
(* both succeed, 3 when connect() or bind() fails and close() as well.  The  *)
(* descriptor of address k is k; open has those left open, freed tells if    *)
(* the list was given back.                                                  *)
RECURSIVE tryAddresses(_, _)
tryAddresses(outcome, k) ==
  IF k > Len(outcome) THEN [fd |-> -1, open |-> {}, freed |-> TRUE]
  ELSE CASE outcome[k] \in {0, 1} -> tryAddresses(outcome, k + 1)
         [] outcome[k] = 2 -> [fd |-> k, open |-> {k}, freed |-> TRUE]
         [] OTHER -> [fd |-> -1, open |-> {k}, freed |-> FALSE]

open_clientfd(resolved, outcome) ==
  IF resolved THEN tryAddresses(outcome, 1) ELSE [fd |-> -2, open |-> {}, freed |-> TRUE]

open_listenfd(resolved, outcome, listens) ==
  LET r == open_clientfd(resolved, outcome)
  IN  IF r.fd > 0 /\ ~listens THEN [r EXCEPT !.fd = -1, !.open = {}] ELSE r

(* network/IPrange.cc: sorted, disjoint ranges <<start, end>>; the index   *)
(* of the one that holds ip stands for its value.                          *)
findIpValue(ranges, ip) ==
  LET n == Len(ranges)
      lower == Min({n + 1} \cup {k \in 1 .. n : ranges[k][1] >= ip})
      it == IF lower = n + 1 \/ (lower # 1 /\ ranges[lower][1] > ip) THEN lower - 1 ELSE lower
  IN  IF n = 0 THEN -1
      ELSE IF ranges[it][1] <= ip /\ ranges[it][2] >= ip THEN it ELSE -1

(* utils/memcpy.cc: byte by byte, from the back where the target overlaps  *)
(* the source from behind.                                                 *)
memcpy2(mem, dest, src, count) ==
  LET back == src < dest /\ src + count > dest
      order == IF back THEN Reverse(UpTo(0, count - 1)) ELSE UpTo(0, count - 1)
  IN  FoldLeft(LAMBDA m, k : [m EXCEPT ![dest + k] = m[src + k]], mem, order)

----------------------------------------------------------------------------
(* The references.                                                         *)
LOCAL Areas(s) == {(q[2] - q[1]) * Smaller(s[q[1]], s[q[2]])
                     : q \in {q \in (DOMAIN s) \X (DOMAIN s) : q[1] <= q[2]}}
LOCAL Bars(s) == {(q[2] - q[1] + 1) * Min(ToSet(SubSeq(s, q[1], q[2])))
                    : q \in {q \in (DOMAIN s) \X (DOMAIN s) : q[1] <= q[2]}}
LOCAL Water(s, i) == Smaller(Max(ToSet(SubSeq(s, 1, i))), Max(ToSet(SubSeq(s, i, Len(s)))))
LOCAL Rearrangements(s) == {[k \in DOMAIN s |-> s[p[k]]] : p \in Permutations(DOMAIN s)}
LOCAL Lexical(s, t) ==
  \E k \in DOMAIN s : s[k] < t[k] /\ SubSeq(s, 1, k - 1) = SubSeq(t, 1, k - 1)
LOCAL Distinct(s) == Cardinality(ToSet(s)) = Len(s)

(* The ratios of classes of at most 10 students, in parts of 2520.         *)
LOCAL Ratios(classes) == SumOf([i \in DOMAIN classes |-> (classes[i][1] * 2520) \div classes[i][2]])
LOCAL Spread(n, k) == {d \in [1 .. n -> 0 .. k] : SumFunction(d) = k}

LOCAL Changes(a, b) ==
  LET sum(s, C) == SumOf([k \in DOMAIN s |-> IF k \in C THEN 0 ELSE s[k]])
      meet(C, D) == /\ sum(a, C) + Cardinality(C) <= sum(b, D) + 6 * Cardinality(D)
                    /\ sum(b, D) + Cardinality(D) <= sum(a, C) + 6 * Cardinality(C)
      ways == {w \in (SUBSET DOMAIN a) \X (SUBSET DOMAIN b) : meet(w[1], w[2])}
  IN  IF ways = {} THEN -1 ELSE Min({Cardinality(w[1]) + Cardinality(w[2]) : w \in ways})

RECURSIVE Reach(_, _)
Reach(s, S) == LET next == S \cup UNION {i + 1 .. i + s[i + 1] : i \in S \cap (0 .. Len(s) - 1)}
               IN  IF next = S THEN S ELSE Reach(s, next)

(* Where jumps of these lengths end, 0 if one of them is too long.         *)
LOCAL Lands(s, d) ==
  FoldLeft(LAMBDA i, x : IF i \in DOMAIN s THEN IF x <= s[i] THEN i + x ELSE 0 ELSE 0,
           1, [k \in DOMAIN d |-> d[k]])

(* The first to stay when every n-th of m in a circle is dropped.          *)
LOCAL Survivor(m, n) == 1 + FoldLeft(LAMBDA j, k : (j + n) % k, 0, UpTo(2, m))

----------------------------------------------------------------------------
(* The programs that look for a best choice find it.                       *)
BestFound(s) ==
  LET n == Len(s)
      dice == [k \in DOMAIN s |-> s[k] + 2]
      h == n \div 3
      class(i) == <<s[2 * i - 1], Larger(1, s[2 * i - 1] + s[2 * i])>>
      classes == [i \in 1 .. n \div 2 |-> class(i)]
      given(d) == [i \in DOMAIN classes |-> <<classes[i][1] + d[i], classes[i][2] + d[i]>>]
  IN  /\ maxArea(s) = Max(Areas(s))
      /\ largestRectangleArea(s) = Max(Bars(s))
      /\ trap(s) = SumOf([i \in DOMAIN s |-> Water(s, i) - s[i]])
      /\ minOperations(SubSeq(dice, 1, h), SubSeq(dice, h + 1, n)) =
           Changes(SubSeq(dice, 1, h), SubSeq(dice, h + 1, n))
      /\ n > 1 => \A k \in 1 .. 2 : Ratios(maxAvgRatio(classes, k)) =
           Max({Ratios(given(d)) : d \in Spread(Len(classes), k)})
      /\ n > 1 => (canJump(s) <=> n - 1 \in Reach(s, {0}))
      /\ n - 1 \in Reach(s, {0}) =>
           jump(s) = Min({k \in 0 .. n - 1 : \E d \in [1 .. k -> 1 .. 3] : Lands(s, d) = n})

(* The programs that look something up or rearrange an array: the answer   *)
(* is where the code says it is, and nothing is lost or listed twice.      *)
Found(s) ==
  LET n == Len(s)
      sorted == SortSeq(s, <)
      signed == [k \in DOMAIN s |-> s[k] - 2]
      h == n \div 2
      lo == SortSeq(SubSeq(s, 1, h), <)
      hi == SortSeq(SubSeq(s, h + 1, n), <)
      ranges == [i \in DOMAIN sorted |-> <<5 * i + sorted[i], 5 * i + 4>>]
      triples == {q \in (DOMAIN s) \X (DOMAIN s) \X (DOMAIN s) :
                    q[1] < q[2] /\ q[2] < q[3] /\ signed[q[1]] + signed[q[2]] + signed[q[3]] = 0}
  IN  /\ \A v \in 0 .. 4 :
           LET r == searchRange(sorted, v)
           IN  {k \in DOMAIN s : sorted[k] = v} = r[1] + 1 .. r[2] + 1
      /\ firstMissingPositive(signed) = Min(1 .. n + 1 \ ToSet(signed))
      /\ \A k \in 2 .. 4 : josephus(n, k) = Survivor(n, k)
      /\ findMedian(lo, hi) =
           IF n % 2 = 1 THEN 2 * sorted[h + 1] ELSE sorted[h] + sorted[h + 1]
      /\ \A k \in DOMAIN s : {maxSlidingWindow2(s, k), maxSlidingWindow3(s, k),
                              maxSlidingWindow4(s, k)} = {maxSlidingWindow(s, k)}
      /\ Distinct(threeSum(signed))
      /\ ToSet(threeSum(signed)) =
           {SortSeq(<<signed[q[1]], signed[q[2]], signed[q[3]]>>, <) : q \in triples}
      /\ \A ip \in 0 .. 5 * n + 5 : findIpValue(ranges, ip) =
           IF \E i \in DOMAIN s : ip \in ranges[i][1] .. ranges[i][2]
           THEN CHOOSE i \in DOMAIN s : ip \in ranges[i][1] .. ranges[i][2] ELSE -1
      /\ \A src, dest \in 1 .. n, c \in 0 .. n :
           (src + c <= n + 1 /\ dest + c <= n + 1) =>
             memcpy2(s, dest, src, c) =
               [k \in DOMAIN s |-> IF k \in dest .. dest + c - 1 THEN s[src + k - dest] ELSE s[k]]

(* The descriptor returned is the one of the first address that works, and *)
(* it is the only one left open; an error leaves none open and frees the    *)
(* list, unless close() failed before an address worked.                    *)
Connected(s) ==
  \A resolved, listens \in BOOLEAN :
    LET c == open_clientfd(resolved, s)
        l == open_listenfd(resolved, s, listens)
        works == {k \in DOMAIN s : s[k] = 2 /\ \A j \in 1 .. k - 1 : s[j] \in {0, 1}}
        stuck == \E k \in DOMAIN s : s[k] = 3 /\ \A j \in 1 .. k - 1 : s[j] \in {0, 1}
    IN  \A r \in {c, l} :
          /\ r.fd > 0 => r.fd \in works /\ resolved /\ r.open = {r.fd} /\ r.freed
          /\ r.fd < 0 => (r.open = {} /\ r.freed) \/ (resolved /\ stuck)
          /\ (r = c \/ listens) /\ resolved => (r.fd > 0 <=> works # {})

(* Everything is listed once: the arrangements in order, the selections,   *)
(* the subsets and the combinations with a sum.                            *)
Listed(s) ==
  LET n == Len(s)
      p == permute(s)
      c == SetToSortSeq({x + 1 : x \in ToSet(s)}, <)
      chosen(S) == SelectSeq([k \in DOMAIN s |-> k], LAMBDA k : k \in S)
      run(f) == FlattenSeq([k \in DOMAIN c |-> [i \in 1 .. f[k] |-> c[k]]])
  IN  /\ ToSet(p) = Rearrangements(s)
      /\ \A k \in 1 .. Len(p) - 1 : Lexical(p[k], p[k + 1])
      /\ my_next_permutation(s) = nextPermutation(s)
      /\ arrangements(SortSeq(s, >), FALSE) = Reverse(p)
      /\ \A r \in 0 .. n : Len(combinations(n, r)) = Cardinality(kSubset(r, 1 .. n))
      /\ \A r \in 0 .. n : NCR(n, r) = Cardinality(kSubset(r, 1 .. n))
      /\ \A r \in 0 .. n : ncr(n)[n + 1][r + 1] = NCR(n, r)
      /\ subsets(s) = subsetsBit(s)
      /\ ToSet(subsetsBit(UpTo(1, n))) = {chosen(S) : S \in SUBSET DOMAIN s}
      /\ \A target \in 1 .. 5 :
           /\ Distinct(combinationSum(c, target))
           /\ ToSet(combinationSum(c, target)) =
                {run(f) : f \in {f \in [DOMAIN c -> 0 .. target] :
                                   SumOf([k \in DOMAIN c |-> f[k] * c[k]]) = target}}

(* Turning an image both ways leaves it as it was, and a turn moves the    *)
(* first row to the last column.                                           *)
Turned(s) ==
  LET m == <<SubSeq(s, 1, 2), SubSeq(s, 3, 4)>>
      t == rotate(m)
  IN  Len(s) = 4 => /\ anti_rotate(t) = m
                    /\ \A i, j \in 1 .. 2 : t[j][3 - i] = m[i][j]

(* What holds of the programs on arrays on one input.                      *)
ArraysRight(s) == s # << >> => BestFound(s) /\ Found(s) /\ Connected(s) /\ Listed(s)
                              /\ Turned(s)
============================================================================
