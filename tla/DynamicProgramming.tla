------------------------ MODULE DynamicProgramming ------------------------
(***************************************************************************)
(* The programs of leetcode/DP: tables filled by a recurrence, compared    *)
(* with the optimum or the count that the problem asks for, which is taken *)
(* over all choices.  A row of a table that the code overwrites in place   *)
(* is a sequence that is folded over the rows of the input.                *)
(***************************************************************************)
EXTENDS Integers, SequencesExt

LOCAL SumOf(s) == FoldLeft(+, 0, s)
LOCAL Larger(x, y) == IF x < y THEN y ELSE x
LOCAL Smaller(x, y) == IF y < x THEN y ELSE x
LOCAL UpTo(lo, hi) == [k \in 1 .. hi - lo + 1 |-> lo + k - 1]
LOCAL Lowest(a, b, c) == Smaller(a, Smaller(b, c))
(* std::gcd of the library, of two positive numbers.                       *)
Gcd(x, y) == Max({d \in 1 .. x : x % d = 0 /\ y % d = 0})
(* std::lower_bound of the library: the first of n positions that is not   *)
(* less, or the end.                                                       *)
LowerBound(n, Less(_)) == Min({n + 1} \cup {k \in 1 .. n : ~Less(k)})

----------------------------------------------------------------------------
(* MaximizeScoreAfterOperations.cc; a mask is the set of its bits.         *)
Pairs(S) == {p \in S \X S : p[1] < p[2]}

RECURSIVE maxScoreTopDown(_, _)
maxScoreTopDown(s, mask) ==
  LET k == ((Len(s) - Cardinality(mask)) \div 2) + 1
  IN  Max({0} \cup {k * Gcd(s[p[1]], s[p[2]]) + maxScoreTopDown(s, mask \ {p[1], p[2]})
                      : p \in Pairs(mask)})

(* The value left in cache[mask]; odd masks are skipped and keep 0.        *)
RECURSIVE maxScoreBottomUp(_, _)
maxScoreBottomUp(s, mask) ==
  LET k == ((Cardinality(mask) - 2) \div 2) + 1
  IN  IF Cardinality(mask) % 2 = 1 THEN 0
      ELSE Max({0} \cup {k * Gcd(s[p[1]], s[p[2]])
                           + maxScoreBottomUp(s, mask \ {p[1], p[2]}) : p \in Pairs(mask)})

(* Mutant of robStep: the neighbour may be robbed as well.                 *)
robStepFree(b, money) == [prev |-> b.cur, cur |-> Larger(b.cur, b.cur + money)]

(* The loop of the robbers: the best with and without the last house.      *)
robStep(b, money) == [prev |-> b.cur, cur |-> Larger(b.cur, b.prev + money)]

deleteAndEarn(s) ==
  LET earned == [i \in 1 .. Max(ToSet(s)) + 1 |->
                  (i - 1) * Cardinality({k \in DOMAIN s : s[k] = i - 1})]
  IN  IF Len(earned) = 1 THEN 0
      ELSE FoldLeft(robStep, [prev |-> earned[1], cur |-> earned[2]],
                    SubSeq(earned, 3, Len(earned))).cur

rob(s) ==
  IF s = << >> THEN 0
  ELSE IF Len(s) = 1 THEN s[1]
  ELSE FoldLeft(robStep, [prev |-> s[1], cur |-> Larger(s[1], s[2])],
                SubSeq(s, 3, Len(s))).cur

robCircle(s) ==
  LET helper(l, r) == FoldLeft(robStep, [prev |-> 0, cur |-> 0], SubSeq(s, l, r)).cur
  IN  Larger(helper(1, Len(s) - 1), helper(2, Len(s)))

----------------------------------------------------------------------------
lengthOfLIS(s) ==
  LET best(dp, i) ==
        Append(dp, Max({1} \cup {dp[j] + 1 : j \in {j \in 1 .. i - 1 : s[j] < s[i]}}))
  IN  Max(ToSet(FoldLeft(best, << >>, UpTo(1, Len(s)))))

lengthOfLIS2(s) ==
  LET put(dp, x) ==
        LET it == LowerBound(Len(dp), LAMBDA k : dp[k] < x)
        IN  IF it = Len(dp) + 1 THEN Append(dp, x) ELSE [dp EXCEPT ![it] = x]
  IN  Len(FoldLeft(put, << >>, s))

(* maxNumberOfEvent.cc: events are <<first day, last day, value>>, sorted  *)
(* by their last day; dp[i][j] is the best of i events with j attended.    *)
RECURSIVE maxValue(_, _, _)
maxValue(events, i, k) ==
  IF i = 0 \/ k = 0 THEN 0
  ELSE LET p == LowerBound(i, LAMBDA e : events[e][2] < events[i][1]) - 1
       IN  Larger(maxValue(events, i - 1, k), maxValue(events, p, k - 1) + events[i][3])

minDays(n) ==
  LET dp[k \in 0 .. n] ==
        IF k <= 1 THEN k ELSE 1 + Smaller((k % 2) + dp[k \div 2], (k % 3) + dp[k \div 3])
  IN  dp[n]

minSumOfLengths(s, target) ==
  LET n == Len(s)
      sum(i) == SumOf(SubSeq(s, 1, i))
      \* cnt: the latest prefix with this sum, the empty one included
      step(st, i) ==
        LET seen == {j \in 0 .. i : sum(j) = sum(i) - target}
            last == Max(seen)
            before == IF i > 1 THEN st.dp[i - 1] ELSE n + 1
        IN  IF seen = {} THEN [st EXCEPT !.dp = Append(@, before)]
            ELSE [res |-> IF last >= 1 /\ st.dp[last] <= n
                            THEN Smaller(i - last + st.dp[last], st.res) ELSE st.res,
                  dp |-> Append(st.dp, Smaller(before, i - last))]
      final == FoldLeft(step, [res |-> n + 1, dp |-> << >>], UpTo(1, n))
  IN  IF final.res > n THEN -1 ELSE final.res

(* The value of the range l .. r for the player to move.                   *)
RECURSIVE stoneGameTopDown(_, _, _, _)
stoneGameTopDown(s, l, r, sum) ==
  IF l >= r THEN 0
  ELSE Larger(sum - s[l] - stoneGameTopDown(s, l + 1, r, sum - s[l]),
              sum - s[r] - stoneGameTopDown(s, l, r - 1, sum - s[r]))

stoneGameBottomUp(s) ==
  LET prefixSum(i) == SumOf(SubSeq(s, 1, i))
      \* row[l] is dp[l][l + len - 1]
      next(row, len) ==
        [l \in 1 .. Len(s) - len + 1 |->
           LET r == l + len - 1
           IN  Larger(prefixSum(r) - prefixSum(l) - row[l + 1],
                      prefixSum(r - 1) - prefixSum(l - 1) - row[l])]
  IN  FoldLeft(next, [l \in DOMAIN s |-> 0], UpTo(2, Len(s)))[1]

numTrees(n) ==
  LET add(dp, i) == Append(dp, SumOf([j \in 1 .. i |-> dp[j] * dp[i - j + 1]]))
  IN  FoldLeft(add, <<1, 1>>, UpTo(2, n))[n + 1]

----------------------------------------------------------------------------
(* The programs on grids: cur is the row in work, from left to right, or   *)
(* from right to left in dungeonGame.cc.                                   *)
Grid(s, width) == [i \in 1 .. Len(s) \div width |-> SubSeq(s, (i - 1) * width + 1, i * width)]

LOCAL Sweep(first, n, Cell(_, _)) ==
  FoldLeft(LAMBDA row, j : Append(row, Cell(row[j - 1], j)), <<first>>, UpTo(2, n))

minPathSum(grid) ==
  LET n == Len(grid[1])
      first == Sweep(grid[1][1], n, LAMBDA left, j : left + grid[1][j])
      row(cur, g) == Sweep(cur[1] + g[1], n, LAMBDA left, j : Smaller(left, cur[j]) + g[j])
  IN  FoldLeft(row, first, Tail(grid))[n]

(* The entry f[0][0] of uniquePaths is never written, so the code has no   *)
(* answer for a grid of one cell.                                          *)
uniquePaths(m, n) ==
  LET f[i \in 1 .. m, j \in 1 .. n] ==
        IF i = 1 \/ j = 1 THEN 1 ELSE f[i - 1, j] + f[i, j - 1]
  IN  f[m, n]

uniquePathsSimpler(m, n) ==
  LET row(cur, i) == Sweep(cur[1], n, LAMBDA left, j : cur[j] + left)
  IN  FoldLeft(row, [j \in 1 .. n |-> 1], UpTo(2, m))[n]

(* The first cell is not looked at.                                        *)
uniquePathsWithObstacles(grid) ==
  LET n == Len(grid[1])
      first == [j \in 1 .. n |-> IF \E k \in 2 .. j : grid[1][k] = 1 THEN 0 ELSE 1]
      row(cur, g) == Sweep(IF g[1] = 1 THEN 0 ELSE cur[1], n,
                           LAMBDA left, j : IF g[j] = 1 THEN 0 ELSE cur[j] + left)
  IN  FoldLeft(row, first, Tail(grid))[n]

(* Rows are read from the right: need is the health to enter the rest.     *)
calculateMinimumHP(dungeon) ==
  LET n == Len(dungeon[1])
      need(x) == IF x >= 0 THEN 0 ELSE -x
      rows == [i \in DOMAIN dungeon |-> Reverse(dungeon[i])]
      last == rows[Len(rows)]
      first == Sweep(need(last[1]), n, LAMBDA right, j : need(last[j] - right))
      row(cur, g) == Sweep(need(g[1] - cur[1]), n,
                           LAMBDA right, j : need(g[j] - Smaller(cur[j], right)))
  IN  FoldLeft(row, first, Tail(Reverse(rows)))[n] + 1

maximalRectangle(matrix) ==
  LET n == Len(matrix[1])
      row(st, g) ==
        LET one(j) == g[j] = 1
            curLeft(j) == Max({1} \cup {k + 1 : k \in {k \in 1 .. j : ~one(k)}})
            curRight(j) == Min({n + 1} \cup {k \in j .. n : ~one(k)})
            height == [j \in 1 .. n |-> IF one(j) THEN st.height[j] + 1 ELSE 0]
            left == [j \in 1 .. n |-> IF one(j) THEN Larger(st.left[j], curLeft(j)) ELSE 1]
            right == [j \in 1 .. n |->
                        IF one(j) THEN Smaller(st.right[j], curRight(j)) ELSE n + 1]
        IN  [height |-> height, left |-> left, right |-> right,
             area |-> Max({st.area} \cup {height[j] * (right[j] - left[j]) : j \in 1 .. n})]
      start == [height |-> [j \in 1 .. n |-> 0], left |-> [j \in 1 .. n |-> 1],
                right |-> [j \in 1 .. n |-> n + 1], area |-> 0]
  IN  FoldLeft(row, start, matrix).area

----------------------------------------------------------------------------
minDistance(word1, word2) ==
  LET dp[i \in 0 .. Len(word1), j \in 0 .. Len(word2)] ==
        IF i = 0 \/ j = 0 THEN i + j
        ELSE IF word1[i] = word2[j] THEN dp[i - 1, j - 1]
        ELSE Lowest(dp[i - 1, j - 1], dp[i - 1, j], dp[i, j - 1]) + 1
  IN  dp[Len(word1), Len(word2)]

Dot == 2
Star == 3
LOCAL Fits(c, p) == c = p \/ p = Dot

isMatch_DP(s, p) ==
  LET dp[i \in 0 .. Len(s), j \in 0 .. Len(p)] ==
        CASE i = 0 /\ j = 0 -> TRUE
          [] i > 0 /\ j = 0 -> FALSE
          [] i = 0 /\ j > 0 -> j > 1 /\ p[j] = Star /\ dp[0, j - 2]
          [] i > 0 /\ j > 0 /\ p[j] # Star -> dp[i - 1, j - 1] /\ Fits(s[i], p[j])
          [] OTHER -> dp[i, j - 2] \/ (dp[i - 1, j] /\ Fits(s[i], p[j - 1]))
  IN  dp[Len(s), Len(p)]

RECURSIVE isMatch_recursive(_, _)
isMatch_recursive(s, p) ==
  LET first == s # << >> /\ Fits(s[1], p[1])
  IN  IF p = << >> THEN s = << >>
      ELSE IF Len(p) >= 2 /\ p[2] = Star
      THEN isMatch_recursive(s, Tail(Tail(p))) \/ (first /\ isMatch_recursive(Tail(s), p))
      ELSE first /\ isMatch_recursive(Tail(s), Tail(p))

----------------------------------------------------------------------------
(* The references: what is chosen, and over which choices.                 *)
LOCAL Pick(s, S) == MapThenSumSet(LAMBDA i : s[i], S)
LOCAL NoNeighbours(S) == \A i \in S : i + 1 \notin S

LOCAL BestScore(s) ==
  Max({SumOf([i \in 1 .. Len(s) \div 2 |-> i * Gcd(s[p[2 * i - 1]], s[p[2 * i]])])
         : p \in Permutations(DOMAIN s)})

LOCAL BestEarning(s) ==
  Max({MapThenSumSet(LAMBDA v : v * Cardinality({k \in DOMAIN s : s[k] = v}), V)
         : V \in {V \in SUBSET ToSet(s) : NoNeighbours(V)}})

LOCAL Increasing(s, S) == \A i, j \in S : i < j => s[i] < s[j]

(* Paths from the first cell to the last, as the cells they visit.         *)
LOCAL Paths(m, n) ==
  {[t \in 1 .. m + n - 1 |->
      LET down == Cardinality(D \cap (1 .. t - 1)) IN <<1 + down, t - down>>]
     : D \in kSubset(m - 1, 1 .. m + n - 2)}
LOCAL Along(grid, path) == [t \in DOMAIN path |-> grid[path[t][1]][path[t][2]]]
LOCAL PathsOf(grid) == Paths(Len(grid), Len(grid[1]))

LOCAL BestValue(events, k) ==
  Max({MapThenSumSet(LAMBDA e : events[e][3], S) : S \in
         {S \in SUBSET DOMAIN events :
            /\ Cardinality(S) <= k
            /\ \A d, e \in S : d # e => \/ events[d][2] < events[e][1]
                                        \/ events[e][2] < events[d][1]}})

LOCAL FewestDays(n) ==
  LET f[k \in 0 .. n] ==
        IF k = 0 THEN 0
        ELSE 1 + Min({f[k - 1]} \cup (IF k % 2 = 0 THEN {f[k \div 2]} ELSE {})
                                \cup (IF k % 3 = 0 THEN {f[k \div 3]} ELSE {}))
  IN  f[n]

LOCAL TwoRanges(s, target) ==
  LET hits == {r \in (DOMAIN s) \X (DOMAIN s) :
                 r[1] <= r[2] /\ SumOf(SubSeq(s, r[1], r[2])) = target}
      both == {q \in hits \X hits : q[1][2] < q[2][1]}
  IN  IF both = {} THEN -1
      ELSE Min({q[1][2] - q[1][1] + q[2][2] - q[2][1] + 2 : q \in both})

(* Alice enlarges the difference of the scores and Bob lessens it.         *)
RECURSIVE Play(_, _, _, _)
Play(s, l, r, alice) ==
  LET gain(i, j) == SumOf(SubSeq(s, i, j))
  IN  IF l >= r THEN 0
      ELSE IF alice THEN Larger(gain(l + 1, r) + Play(s, l + 1, r, FALSE),
                                gain(l, r - 1) + Play(s, l, r - 1, FALSE))
      ELSE Smaller(Play(s, l + 1, r, TRUE) - gain(l + 1, r),
                   Play(s, l, r - 1, TRUE) - gain(l, r - 1))

RECURSIVE Shapes(_)
Shapes(n) == IF n = 0 THEN {<< >>}
                   ELSE UNION {Shapes(i) \X Shapes(n - 1 - i) : i \in 0 .. n - 1}

LOCAL LargestOnes(grid) ==
  LET rows == DOMAIN grid
      columns == DOMAIN grid[1]
  IN
  Max({0} \cup {(b - a + 1) * (d - c + 1) : <<a, b, c, d>> \in
    {q \in rows \X rows \X columns \X columns :
       /\ q[1] <= q[2] /\ q[3] <= q[4]
       /\ \A i \in q[1] .. q[2], j \in q[3] .. q[4] : grid[i][j] = 1}})

(* A trace keeps some letters of both words in their order; the others are *)
(* deleted or inserted, and a kept letter that differs is replaced.        *)
LOCAL Kept(s, S) == LET at == SetToSortSeq(S, <) IN [k \in DOMAIN at |-> s[at[k]]]
LOCAL Edits(v, w) ==
  Min({LET a == Kept(v, t[1])
           b == Kept(w, t[2])
       IN  Len(v) + Len(w) - 2 * Len(a) + Cardinality({k \in DOMAIN a : a[k] # b[k]})
         : t \in {t \in (SUBSET DOMAIN v) \X (SUBSET DOMAIN w) :
                    Cardinality(t[1]) = Cardinality(t[2])}})

(* A pattern's letters, each with how many times the word repeats it.      *)
ValidPattern(p) == \A k \in DOMAIN p : p[k] = Star => k > 1 /\ p[k - 1] # Star
LOCAL InLanguage(s, p) ==
  LET unit == {k \in DOMAIN p : p[k] # Star}
      starred(k) == k < Len(p) /\ p[k + 1] = Star
      from(times, k) == MapThenSumSet(LAMBDA u : times[u], {u \in unit : u < k})
  IN  \E times \in [unit -> 0 .. Len(s)] :
        /\ \A k \in unit : starred(k) \/ times[k] = 1
        /\ from(times, Len(p) + 1) = Len(s)
        /\ \A k \in unit : \A i \in 1 .. times[k] : Fits(s[from(times, k) + i], p[k])

----------------------------------------------------------------------------
(* On a row of numbers each program returns the optimum over all choices:  *)
(* the tables of leetcode/DP leave out no choice and count none twice.     *)
RowOptima(s) ==
  LET pos == [k \in DOMAIN s |-> s[k] + 1]
      apart == {S \in SUBSET DOMAIN s : NoNeighbours(S)}
  IN  /\ Len(s) % 2 = 0 /\ Len(s) <= 4 =>
           {maxScoreTopDown(pos, DOMAIN s), maxScoreBottomUp(pos, DOMAIN s)} = {BestScore(pos)}
      /\ deleteAndEarn(s) = BestEarning(s)
      /\ rob(s) = Max({Pick(s, S) : S \in apart})
      /\ Len(s) > 1 =>
           robCircle(s) = Max({Pick(s, S) : S \in {S \in apart : ~({1, Len(s)} \subseteq S)}})
      /\ {lengthOfLIS(s), lengthOfLIS2(s)} =
           {Max({Cardinality(S) : S \in {S \in SUBSET DOMAIN s : Increasing(s, S)}})}
      /\ \A target \in 1 .. 4 : minSumOfLengths(s, target) = TwoRanges(s, target)
      /\ {stoneGameTopDown(s, 1, Len(s), SumOf(s)), stoneGameBottomUp(s)} =
           {Play(s, 1, Len(s), TRUE)}
      /\ minDays(SumOf(s)) = FewestDays(SumOf(s))
      /\ numTrees(Len(s)) = Cardinality(Shapes(Len(s)))

(* On a grid the programs agree with the enumeration of all paths, or of   *)
(* all rectangles; the knight of dungeonGame.cc survives with the health   *)
(* returned and with no less.                                              *)
GridOptima(s, width) ==
  LET grid == Grid(s, width)
      m == Len(s) \div width
      rooms == [i \in 1 .. m |-> [j \in 1 .. width |-> grid[i][j] - 2]]
  IN  m >= 1 =>
      /\ minPathSum(grid) = Min({SumOf(Along(grid, p)) : p \in PathsOf(grid)})
      /\ m * width > 1 => {uniquePaths(m, width), uniquePathsSimpler(m, width)} =
                            {Cardinality(Paths(m, width))}
      /\ uniquePathsWithObstacles(grid) =
           Cardinality({p \in PathsOf(grid) : \A t \in DOMAIN p \ {1} : Along(grid, p)[t] # 1})
      /\ calculateMinimumHP(rooms) =
           Min({1 + Max({0} \cup {-SumOf(SubSeq(Along(rooms, p), 1, t)) : t \in DOMAIN p})
                  : p \in PathsOf(rooms)})
      /\ maximalRectangle(grid) = LargestOnes(grid)

(* On two words the edit distance is that of the cheapest trace, and both  *)
(* matchers accept the words of the pattern's language.                    *)
WordOptima(v, p) ==
  LET letters == [k \in DOMAIN v |-> v[k] % 2]
  IN  /\ minDistance(v, p) = Edits(v, p)
      /\ ValidPattern(p) =>
           {isMatch_DP(letters, p), isMatch_recursive(letters, p)} = {InLanguage(letters, p)}

(* The value returned for the events does not depend on the order in which *)
(* std::sort leaves those that end on the same day.                        *)
EventOptima(events) ==
  \A k \in 1 .. 2, p \in Permutations(DOMAIN events) :
    LET sorted == [i \in DOMAIN events |-> events[p[i]]]
    IN  IsSorted(sorted, LAMBDA d, e : d[2] <= e[2]) =>
          maxValue(sorted, Len(sorted), k) = BestValue(events, k)
============================================================================
