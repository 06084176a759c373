--------------------------- MODULE TreeAlgorithms ---------------------------
(***************************************************************************)
(* The programs of leetcode/tree and leetcode/BST and Tree of misc/struct. *)
(* A tree is << >> for a null pointer or <<value, left, right>>; programs  *)
(* that compare or rewrite pointers work on the nodes that initTreeNode    *)
(* allocates, 0 being the null pointer.                                    *)
(***************************************************************************)
EXTENDS Integers, SequencesExt

LOCAL Larger(x, y) == IF x < y THEN y ELSE x
LOCAL SumOf(s) == FoldLeft(+, 0, s)
LOCAL Nil == << >>
LOCAL Val(t) == t[1]
LOCAL Left(t) == t[2]
LOCAL Right(t) == t[3]
LOCAL Leaf(t) == Left(t) = Nil /\ Right(t) = Nil

(* initTreeNode(values): node k holds values[k], 0 stands for no node, and *)
(* the queue hands out the parents.  ok is FALSE where the code reads the  *)
(* front of an empty queue, which is no way to describe a tree.            *)
RECURSIVE attach(_, _, _, _, _)
attach(values, i, cur, q, nodes) ==
  LET n == Len(values)
      new(k) == IF k <= n /\ values[k] # 0 THEN <<k>> ELSE << >>
      child(k) == IF new(k) = << >> THEN 0 ELSE k
      q1 == q \o new(i) \o new(i + 1)
      grown == [nodes EXCEPT !.left[cur] = child(i), !.right[cur] = child(i + 1)]
  IN  IF i > n THEN nodes
      ELSE IF i + 1 > n THEN grown
      ELSE IF q1 = << >> THEN [grown EXCEPT !.ok = FALSE]
      ELSE attach(values, i + 2, Head(q1), Tail(q1), grown)

initTreeNode(values) ==
  LET none == [k \in DOMAIN values |-> 0]
  IN  attach(values, 2, 1, << >>, [val |-> values, left |-> none, right |-> none, ok |-> TRUE])

RECURSIVE TreeAt(_, _)
TreeAt(h, k) == IF k = 0 THEN Nil ELSE <<h.val[k], TreeAt(h, h.left[k]), TreeAt(h, h.right[k])>>

----------------------------------------------------------------------------
(* The recursive traversals, and the same orders with an explicit stack.   *)
RECURSIVE preorderTraversal_recursive(_)
preorderTraversal_recursive(t) ==
  IF t = Nil THEN << >>
  ELSE <<Val(t)>> \o preorderTraversal_recursive(Left(t)) \o preorderTraversal_recursive(Right(t))

RECURSIVE inorderTraversal_recursive(_)
inorderTraversal_recursive(t) ==
  IF t = Nil THEN << >>
  ELSE inorderTraversal_recursive(Left(t)) \o <<Val(t)>> \o inorderTraversal_recursive(Right(t))

RECURSIVE postorderTraversal_recursive(_)
postorderTraversal_recursive(t) ==
  IF t = Nil THEN << >>
  ELSE postorderTraversal_recursive(Left(t)) \o postorderTraversal_recursive(Right(t)) \o <<Val(t)>>

LOCAL Push(t, stk) == IF t = Nil THEN stk ELSE <<t>> \o stk

RECURSIVE preorderTraversal_iterative(_)
preorderTraversal_iterative(stk) ==
  IF stk = << >> THEN << >>
  ELSE LET t == Head(stk)
       IN  <<Val(t)>> \o preorderTraversal_iterative(Push(Left(t), Push(Right(t), Tail(stk))))

(* push_front onto a deque: the nodes come out in the opposite order.      *)
RECURSIVE postorderTraversal_iterative(_)
postorderTraversal_iterative(stk) ==
  IF stk = << >> THEN << >>
  ELSE LET t == Head(stk)
       IN  Append(postorderTraversal_iterative(Push(Right(t), Push(Left(t), Tail(stk)))), Val(t))

RECURSIVE inorderTraversal_iterative(_, _)
inorderTraversal_iterative(t, stk) ==
  IF t # Nil THEN inorderTraversal_iterative(Left(t), <<t>> \o stk)
  ELSE IF stk = << >> THEN << >>
  ELSE <<Val(Head(stk))>> \o inorderTraversal_iterative(Right(Head(stk)), Tail(stk))

(* Morris's traversal threads the tree through the right pointers of the   *)
(* nodes and takes the threads out again; it returns the visited values    *)
(* and the tree as it leaves it.                                           *)
RECURSIVE rightmost(_, _, _)
rightmost(h, prev, root) ==
  IF h.right[prev] = 0 \/ h.right[prev] = root THEN prev
  ELSE rightmost(h, h.right[prev], root)

RECURSIVE inorderTraversal_morris(_, _, _)
inorderTraversal_morris(h, root, nodes) ==
  LET prev == rightmost(h, h.left[root], root)
      visited == Append(nodes, h.val[root])
  IN  IF root = 0 THEN <<nodes, h>>
      ELSE IF h.left[root] = 0 THEN inorderTraversal_morris(h, h.right[root], visited)
      ELSE IF h.right[prev] = 0
      THEN inorderTraversal_morris([h EXCEPT !.right[prev] = root], h.left[root], nodes)
      ELSE inorderTraversal_morris([h EXCEPT !.right[prev] = 0], h.right[root], visited)

(* Tree of misc/struct/tree.cpp: the same walks from &root on the nodes,   *)
(* a stack of pointers instead of one of trees.                            *)
RECURSIVE Preorder(_, _)
Preorder(h, stk) ==
  LET node == Head(stk)
      kids == SelectSeq(<<h.left[node], h.right[node]>>, LAMBDA k : k # 0)
  IN  IF stk = << >> THEN << >> ELSE <<h.val[node]>> \o Preorder(h, kids \o Tail(stk))

(* The right child is taken before the left one, and all turned round.     *)
RECURSIVE PostorderReversed(_, _)
PostorderReversed(h, stk) ==
  LET node == Head(stk)
      kids == SelectSeq(<<h.right[node], h.left[node]>>, LAMBDA k : k # 0)
  IN  IF stk = << >> THEN << >> ELSE <<h.val[node]>> \o PostorderReversed(h, kids \o Tail(stk))

RECURSIVE Inorder(_, _, _)
Inorder(h, node, stk) ==
  IF node # 0 THEN Inorder(h, h.left[node], <<node>> \o stk)
  ELSE IF stk = << >> THEN << >>
  ELSE <<h.val[Head(stk)]>> \o Inorder(h, h.right[Head(stk)], Tail(stk))

PreorderTraversal(h) == Preorder(h, <<1>>)
PostorderTraversal(h) == Reverse(PostorderReversed(h, <<1>>))
InorderTraversal(h) == Inorder(h, 1, << >>)
InorderTraversalMorris(h) == inorderTraversal_morris(h, 1, << >>)[1]
IsBinarySearchTree(h) == IsSorted(InorderTraversalMorris(h), <=)

isValidBST(t) == IsSorted(inorderTraversal_iterative(t, << >>), <=)

----------------------------------------------------------------------------
RECURSIVE lowestCommonAncestor(_, _, _, _)
lowestCommonAncestor(h, root, p, q) ==
  IF root \in {0, p, q} THEN root
  ELSE LET l == lowestCommonAncestor(h, h.left[root], p, q)
           r == lowestCommonAncestor(h, h.right[root], p, q)
       IN  IF l # 0 /\ r # 0 THEN root ELSE IF l # 0 THEN l ELSE r

(* The nodes in the order of the depth-first search, with their depths.    *)
RECURSIVE dfs(_, _)
dfs(t, d) == IF t = Nil THEN << >>
             ELSE <<<<Val(t), d>>>> \o dfs(Left(t), d + 1) \o dfs(Right(t), d + 1)

deepestLeavesSum(t) ==
  LET visit(st, n) == IF n[2] > st.depth THEN [sum |-> n[1], depth |-> n[2]]
                      ELSE IF n[2] = st.depth THEN [st EXCEPT !.sum = @ + n[1]]
                      ELSE st
  IN  FoldLeft(visit, [sum |-> 0, depth |-> 0], dfs(t, 0)).sum

(* res[0] without this house, res[1] with it.                              *)
RECURSIVE robHelper(_)
robHelper(t) ==
  IF t = Nil THEN <<0, 0>>
  ELSE LET l == robHelper(Left(t))
           r == robHelper(Right(t))
       IN  <<Larger(l[1], l[2]) + Larger(r[1], r[2]), Val(t) + l[1] + r[1]>>

(* The sums of all subtrees, in the order they are counted.                *)
RECURSIVE traverse(_)
traverse(t) ==
  IF t = Nil THEN << >>
  ELSE traverse(Left(t)) \o traverse(Right(t)) \o <<SumOf(preorderTraversal_recursive(t))>>

findFrequentTreeSum(t) ==
  LET mp == traverse(t)
      times(v) == Cardinality({k \in DOMAIN mp : mp[k] = v})
  IN  {v \in ToSet(mp) : \A w \in ToSet(mp) : times(w) <= times(v)}

(* The chain of a node's ancestors, itself first.                          *)
RECURSIVE ancestors(_, _)
ancestors(h, k) ==
  LET up == {p \in DOMAIN h.val : h.left[p] = k \/ h.right[p] = k}
  IN  <<k>> \o (IF up = {} THEN << >> ELSE ancestors(h, CHOOSE p \in up : TRUE))

LOCAL Live(h) == ({1} \cup ToSet(h.left) \cup ToSet(h.right)) \ {0}
LOCAL Leaves(h) == {k \in Live(h) : h.left[k] = 0 /\ h.right[k] = 0}
LOCAL LeafPairs(h) == {p \in Leaves(h) \X Leaves(h) : p[1] < p[2]}

countPairs1(h, distance) ==
  LET near(k) == LET a == ancestors(h, k) IN SubSeq(a, 1, Min({distance, Len(a)}))
      isGood(a, b) == \E i \in DOMAIN b, k \in DOMAIN a :
                        a[k] = b[i] /\ (k - 1) + (i - 1) <= distance
  IN  Cardinality({p \in LeafPairs(h) : isGood(near(p[1]), near(p[2]))})

(* f[i + 1] leaves at distance i, and the pairs found so far.              *)
RECURSIVE countPairs2(_, _)
countPairs2(t, distance) ==
  LET zero == [i \in 1 .. distance + 1 |-> 0]
      l == countPairs2(Left(t), distance)
      r == countPairs2(Right(t), distance)
      pairs == {ij \in (0 .. distance) \X (0 .. distance) : ij[1] + ij[2] + 2 <= distance}
  IN  CASE t = Nil -> [f |-> zero, res |-> 0]
        [] t # Nil /\ Leaf(t) -> [f |-> [zero EXCEPT ![1] = 1], res |-> 0]
        [] OTHER -> [f |-> [i \in 1 .. distance + 1 |->
                             IF i = 1 THEN 0 ELSE l.f[i - 1] + r.f[i - 1]],
                     res |-> l.res + r.res
                       + MapThenSumSet(LAMBDA ij : l.f[ij[1] + 1] * r.f[ij[2] + 1], pairs)]

RECURSIVE hasPathSum(_, _)
hasPathSum(t, sum) ==
  IF t = Nil THEN FALSE
  ELSE IF Leaf(t) THEN sum = Val(t)
  ELSE hasPathSum(Left(t), sum - Val(t)) \/ hasPathSum(Right(t), sum - Val(t))

RECURSIVE sumNumbers(_, _)
sumNumbers(t, num) ==
  IF t = Nil THEN 0
  ELSE LET n == num * 10 + Val(t)
       IN  IF Leaf(t) THEN n ELSE sumNumbers(Left(t), n) + sumNumbers(Right(t), n)

RECURSIVE isSameTree(_, _)
isSameTree(p, q) ==
  IF p = Nil /\ q = Nil THEN TRUE
  ELSE IF p = Nil \/ q = Nil THEN FALSE
  ELSE Val(p) = Val(q) /\ isSameTree(Left(p), Left(q)) /\ isSameTree(Right(p), Right(q))

RECURSIVE isMirror(_, _)
isMirror(p, q) ==
  IF p = Nil /\ q = Nil THEN TRUE
  ELSE IF p = Nil \/ q = Nil THEN FALSE
  ELSE Val(p) = Val(q) /\ isMirror(Left(p), Right(q)) /\ isMirror(Right(p), Left(q))

(* A null pointer counts as covered; a node with an uncovered child gets a *)
(* camera.                                                                 *)
RECURSIVE cover(_)
cover(t) ==
  LET l == cover(Left(t))
      r == cover(Right(t))
      seen == {l.state, r.state}
      with(state, more) == [state |-> state, res |-> l.res + r.res + more]
  IN  CASE t = Nil -> [state |-> "COVERED", res |-> 0]
        [] t # Nil /\ "NONE" \in seen -> with("CAMERA", 1)
        [] t # Nil /\ "NONE" \notin seen /\ "CAMERA" \in seen -> with("COVERED", 0)
        [] OTHER -> with("NONE", 0)

minCameraCover(t) == cover(t).res + (IF cover(t).state = "NONE" THEN 1 ELSE 0)

----------------------------------------------------------------------------
(* serialize.cc: the stream is a sequence of tokens or of bytes; Hash is   *)
(* the token "#", a status byte has the bits ROOT, LEFT and RIGHT.         *)
Hash == 99

RECURSIVE serializeASCII(_)
serializeASCII(t) == IF t = Nil THEN <<Hash>>
                     ELSE <<Val(t)>> \o serializeASCII(Left(t)) \o serializeASCII(Right(t))

RECURSIVE deserializeASCII(_)
deserializeASCII(in) ==
  LET l == deserializeASCII(Tail(in))
      r == deserializeASCII(l.rest)
  IN  IF Head(in) = Hash THEN [tree |-> Nil, rest |-> Tail(in)]
      ELSE [tree |-> <<Head(in), l.tree, r.tree>>, rest |-> r.rest]

ROOT == 1
LEFT == 2
RIGHT == 4
LOCAL Has(status, bit) == (status \div bit) % 2 = 1

RECURSIVE serializeBinary(_)
serializeBinary(t) ==
  LET bit(c, b) == IF c = Nil THEN 0 ELSE b
      part(c) == IF c = Nil THEN << >> ELSE serializeBinary(c)
  IN  IF t = Nil THEN <<0>>
      ELSE <<ROOT + bit(Left(t), LEFT) + bit(Right(t), RIGHT), Val(t)>>
             \o part(Left(t)) \o part(Right(t))

RECURSIVE deserializeBinary(_)
deserializeBinary(in) ==
  LET status == in[1]
      part(bit, rest) == IF Has(status, bit) THEN deserializeBinary(rest)
                                             ELSE [tree |-> Nil, rest |-> rest]
      l == part(LEFT, SubSeq(in, 3, Len(in)))
      r == part(RIGHT, l.rest)
  IN  IF ~Has(status, ROOT) THEN [tree |-> Nil, rest |-> Tail(in)]
      ELSE [tree |-> <<in[2], l.tree, r.tree>>, rest |-> r.rest]

----------------------------------------------------------------------------
(* The references.                                                         *)
RECURSIVE Mirror(_)
Mirror(t) == IF t = Nil THEN Nil ELSE <<Val(t), Mirror(Right(t)), Mirror(Left(t))>>

LOCAL Depth(h, k) == Len(ancestors(h, k)) - 1
LOCAL Common(h, p, q) == ToSet(ancestors(h, p)) \cap ToSet(ancestors(h, q))
LOCAL Lowest(h, S) == CHOOSE k \in S : \A j \in S : Depth(h, j) <= Depth(h, k)
LOCAL Apart(h, p, q) == Depth(h, p) + Depth(h, q) - 2 * Depth(h, Lowest(h, Common(h, p, q)))
LOCAL Adjacent(h, p, q) == p \in {h.left[q], h.right[q]} \/ q \in {h.left[p], h.right[p]}
LOCAL RootPath(h, k) == Reverse(ancestors(h, k))
LOCAL PathValue(h, k, base) ==
  FoldLeft(LAMBDA n, j : n * base + h.val[j], 0, RootPath(h, k))
LOCAL Below(h, k) == {j \in Live(h) : k \in ToSet(ancestors(h, j))}
LOCAL Weight(h, S) == MapThenSumSet(LAMBDA k : h.val[k], S)

(* The traversals agree with each other, Morris's leaves the tree as it    *)
(* found it, and what is written is read back, to the last token, in both  *)
(* formats.                                                                *)
TraversalsAgree(h) ==
  LET t == TreeAt(h, 1)
      in == inorderTraversal_recursive(t)
      morris == inorderTraversal_morris(h, 1, << >>)
  IN  /\ preorderTraversal_iterative(<<t>>) = preorderTraversal_recursive(t)
      /\ postorderTraversal_iterative(<<t>>) = postorderTraversal_recursive(t)
      /\ inorderTraversal_iterative(t, << >>) = in
      /\ morris[1] = in /\ morris[2] = h
      /\ InorderTraversal(h) = in
      /\ PreorderTraversal(h) = preorderTraversal_recursive(t)
      /\ PostorderTraversal(h) = postorderTraversal_recursive(t)
      /\ deserializeASCII(serializeASCII(t)) = [tree |-> t, rest |-> << >>]
      /\ deserializeBinary(serializeBinary(t)) = [tree |-> t, rest |-> << >>]

(* Answers about a tree are those its nodes, paths and sets of nodes give; *)
(* a search tree may hold a value twice.                                   *)
AnswersRight(h) ==
  LET t == TreeAt(h, 1)
      nodes == Live(h)
      deepest == Max({Depth(h, k) : k \in nodes})
      apart == {S \in SUBSET nodes : \A p, q \in S : ~Adjacent(h, p, q)}
      watched(S) == \A k \in nodes : k \in S \/ \E c \in S : Adjacent(h, c, k)
      subtree(k) == Weight(h, Below(h, k))
      often(v) == Cardinality({k \in nodes : subtree(k) = v})
  IN  /\ \A p, q \in nodes : lowestCommonAncestor(h, 1, p, q) = Lowest(h, Common(h, p, q))
      /\ deepestLeavesSum(t) = Weight(h, {k \in nodes : Depth(h, k) = deepest})
      /\ Larger(robHelper(t)[1], robHelper(t)[2]) = Max({Weight(h, S) : S \in apart})
      /\ minCameraCover(t) = Min({Cardinality(S) : S \in {S \in SUBSET nodes : watched(S)}})
      /\ \A v \in findFrequentTreeSum(t) : \A k \in nodes : often(subtree(k)) <= often(v)
      /\ \A d \in 1 .. 4 :
           LET good == Cardinality({p \in LeafPairs(h) : Apart(h, p[1], p[2]) <= d})
           IN  countPairs1(h, d) = good /\ countPairs2(t, d).res = good
      /\ \A sum \in 0 .. 8 : hasPathSum(t, sum) <=>
           \E k \in Leaves(h) : Weight(h, ToSet(ancestors(h, k))) = sum
      /\ sumNumbers(t, 0) = MapThenSumSet(LAMBDA k : PathValue(h, k, 10), Leaves(h))
      /\ IsBinarySearchTree(h) <=> isValidBST(t)
      /\ isValidBST(t) <=> \A k \in nodes : \A j \in Below(h, k) \ {k} :
           IF j \in Below(h, h.left[k]) THEN h.val[j] <= h.val[k] ELSE h.val[k] <= h.val[j]
      /\ isSameTree(Left(t), Right(t)) <=> Left(t) = Right(t)
      /\ isMirror(t, t) <=> t = Mirror(t)

(* What holds of the programs of leetcode/tree and leetcode/BST.           *)
TreesRight(values) ==
  values # << >> =>
    LET h == initTreeNode(values) IN h.ok => TraversalsAgree(h) /\ AnswersRight(h)
============================================================================
