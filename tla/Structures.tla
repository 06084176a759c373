------------------------------ MODULE Structures ------------------------------
(* The containers of misc/struct, struct and leetcode: a heap, disjoint sets, *)
(* a Fenwick tree, a skip list, a least recently used cache and a trie, and   *)
(* the buffered reader of tiny/csapp.c.  Each action is one call: it changes  *)
(* the representation that the code keeps in rep, and abs, what the container *)
(* is meant to hold, by the meaning of the call.  answer is what the call     *)
(* returned and what it should have returned.                                 *)
(*                                                                            *)
(* Indices start at 1; a node of a list is named by what it holds.  Loops and *)
(* calls that repeat themselves are recursive functions.                      *)
EXTENDS Integers, SequencesExt

CONSTANTS
  Size,        \* keys, values, nodes and positions are 1 .. Size
  MaxLevel,    \* MAX_LEVEL of the skip list
  Capacity,    \* capacity_ of the cache
  RioSize,     \* sizeof(rio_buf)
  Longest,     \* bound: length of a word, and of the data a heap is made of
  MaxCalls     \* bound: calls of one behaviour

ASSUME StructuresAssumption ==
  /\ Size \in Nat /\ MaxLevel \in Nat /\ Longest \in Nat
  /\ Capacity \in Nat \ {0} /\ RioSize \in Nat \ {0}

VARIABLES
  kind,        \* which container
  rep,         \* its representation
  abs,         \* what it holds
  answer,      \* result of the last call: as returned, and as expected
  calls        \* calls made

sVars == <<kind, rep, abs, answer, calls>>

Keys == 1 .. Size
Head0 == 0              \* head_ of the skip list
Tail0 == Size + 1       \* tail_, whose value is INT_MAX
Agree == <<0, 0>>
Swapped(s, i, j) == [s EXCEPT ![i] = s[j], ![j] = s[i]]
Occurrences(s, v) == Cardinality({k \in DOMAIN s : s[k] = v})

\* A loop over the state s of its variables: n turns of body, a function of that
\* state, which leaves a state in which the loop ends as it is.
Loop(body, s, n) ==
  LET run[k \in 0 .. n] == IF k = 0 THEN s ELSE body[run[k - 1]] IN run[n]

Called(name) == kind = name /\ calls < MaxCalls /\ calls' = calls + 1 /\ UNCHANGED kind

------------------------------------------------------------------------------
\* MinHeap: data_ in rep, the number of times each key is held in abs.  The heap
\* of struct/minHeap.cc also swaps equal elements on their way up.

\* The data and the index that the loop has come to.
HeapStates == [data : Seq(Int), at : Nat]

HeapifyUp(data, i, swapEqual) ==
  Loop([h \in HeapStates |->
          LET p == h.at \div 2
          IN  IF \/ h.at = 1 \/ h.data[p] < h.data[h.at]
                 \/ ~swapEqual /\ h.data[p] = h.data[h.at]
              THEN h ELSE [data |-> Swapped(h.data, p, h.at), at |-> p]],
       [data |-> data, at |-> i], i).data

MinChild(data, i) ==
  IF 2 * i + 1 <= Len(data) /\ data[2 * i + 1] < data[2 * i] THEN 2 * i + 1 ELSE 2 * i

HeapifyDown(data, i) ==
  Loop([h \in HeapStates |->
          LET m == MinChild(h.data, h.at)
          IN  IF 2 * h.at > Len(h.data) \/ h.data[h.at] <= h.data[m]
              THEN h ELSE [data |-> Swapped(h.data, h.at, m), at |-> m]],
       [data |-> data, at |-> i], Len(data)).data

HeapOf(data) ==
  Loop([h \in HeapStates |->
          IF h.at = 0 THEN h ELSE [data |-> HeapifyDown(h.data, h.at), at |-> h.at - 1]],
       [data |-> data, at |-> Len(data)], Len(data)).data

HeapPush(v) ==
  /\ Called("heap")
  /\ \E swapEqual \in BOOLEAN : rep' = HeapifyUp(Append(rep, v), Len(rep) + 1, swapEqual)
  /\ abs' = [abs EXCEPT ![v] = @ + 1]
  /\ answer' = Agree

\* The last element takes the place of the first.  Pop of the empty heap of
\* misc/struct returns 0.
HeapPop ==
  /\ Called("heap")
  /\ IF rep = << >> THEN rep' = rep /\ abs' = abs /\ answer' = Agree
     ELSE LET least == Min({v \in Keys : abs[v] > 0})
          IN  /\ rep' = HeapifyDown(Front(Swapped(rep, 1, Len(rep))), 1)
              /\ abs' = [abs EXCEPT ![least] = @ - 1]
              /\ answer' = <<Head(rep), least>>

------------------------------------------------------------------------------
\* DisjointSet (union by rank) and DSU: the blocks of the partition in abs.

Find(parent, x) ==      \* the parents after Find(x); that of x is the root
  LET after[y \in DOMAIN parent] ==
        IF parent[y] = y THEN parent
        ELSE [after[parent[y]] EXCEPT ![y] = after[parent[y]][parent[y]]]
  IN  after[x]

Block(x) == CHOOSE B \in abs : x \in B

Made == UNION abs

Resized(table, size, fill) ==
  [k \in 1 .. size |-> IF k <= Len(table) THEN table[k] ELSE fill]

\* The nodes may be made in any order, each of them once, as the callers do: the
\* tables grow up to the node, over gaps that have the parent 0, the node 1 here.
MakeSet(node) ==
  /\ Called("DisjointSet") /\ node \notin Made
  /\ LET size == Max({node, Len(rep.parent)})
     IN  rep' = [rep EXCEPT !.parent = [Resized(@, size, 1) EXCEPT ![node] = node],
                            !.rank = [Resized(@, size, 0) EXCEPT ![node] = 0]]
  /\ abs' = abs \cup {{node}}
  /\ answer' = Agree

Joined(x, y) == IF Block(x) = Block(y) THEN abs
                ELSE (abs \ {Block(x), Block(y)}) \cup {Block(x) \cup Block(y)}

DisjointSetMerge(x, y) ==
  /\ Called("DisjointSet") /\ {x, y} \subseteq Made
  /\ LET p == Find(Find(rep.parent, x), y)
         xRoot == p[x]
         yRoot == p[y]
         large == IF rep.rank[xRoot] < rep.rank[yRoot] THEN yRoot ELSE xRoot
         small == IF large = xRoot THEN yRoot ELSE xRoot
     IN  /\ rep' = IF xRoot = yRoot THEN [rep EXCEPT !.parent = p]
                   ELSE [parent |-> [p EXCEPT ![small] = large],
                         rank |-> [rep.rank EXCEPT ![large] = @ + 1],
                         edges |-> rep.edges + 1]
         /\ answer' = <<xRoot = yRoot, Block(x) = Block(y)>>
  /\ abs' = Joined(x, y)

DSUMerge(x, y) ==
  /\ Called("DSU")
  /\ LET p == Find(Find(rep.parent, x), y)
         rx == p[x]
         ry == p[y]
     IN  /\ rep' = IF rx = ry THEN [rep EXCEPT !.parent = p]
                   ELSE [rep EXCEPT !.parent = [p EXCEPT ![rx] = ry], !.edges = @ + 1]
         /\ answer' = <<rx = ry, Block(x) = Block(y)>>
  /\ abs' = Joined(x, y)

------------------------------------------------------------------------------
\* FenwickTree: sums_ in rep, the elements in abs.

lowbit[x \in 1 .. 2 * Size] == IF x % 2 = 1 THEN 1 ELSE 2 * lowbit[x \div 2]

Update(sums, i, delta) ==
  Loop([u \in [sums : Seq(Int), at : Nat] |->
          IF u.at > Len(u.sums) THEN u
          ELSE [sums |-> [u.sums EXCEPT ![u.at] = @ + delta], at |-> u.at + lowbit[u.at]]],
       [sums |-> sums, at |-> i], Len(sums)).sums

Query(sums, i) ==
  Loop([q \in [sum : Int, at : Nat] |->
          IF q.at = 0 THEN q ELSE [sum |-> q.sum + sums[q.at], at |-> q.at - lowbit[q.at]]],
       [sum |-> 0, at |-> i], i).sum

\* The sum of the first i elements.
Total(elements, i) ==
  LET sum[k \in 0 .. Len(elements)] == IF k = 0 THEN 0 ELSE sum[k - 1] + elements[k]
  IN  sum[i]

FenwickUpdate(i, delta) ==
  /\ Called("fenwick")
  /\ rep' = Update(rep, i, delta)
  /\ abs' = [abs EXCEPT ![i] = @ + delta]
  /\ answer' = Agree

------------------------------------------------------------------------------
\* SkipList: forward_ of each node in rep, the values inserted, with the level
\* that was drawn for them, in abs.

Advance(forward, node, i, value) ==
  Loop([n \in Nat |-> IF forward[n][i] < value THEN forward[n][i] ELSE n], node, value)

\* The node in front of value on each level, from the highest in use down.
AbsLowerBound(r, value) ==
  LET down[i \in 0 .. r.max] ==
        Advance(r.forward, IF i = r.max THEN Head0 ELSE down[i + 1], i, value)
  IN  down

SkipFind(r, value) == r.forward[AbsLowerBound(r, value)[0]][0] = value

\* Mutant of Linked: the new node takes the place of the nodes behind it on its
\* upper levels.
LinkedShort(r, value, level) ==
  LET lower == AbsLowerBound(r, value)
      prev(i) == IF i <= r.max THEN lower[i] ELSE Head0
  IN  [forward |-> [n \in DOMAIN r.forward \cup {value} |->
         IF n = value THEN [i \in 0 .. level |-> IF i = 0 THEN r.forward[prev(0)][0] ELSE Tail0]
         ELSE [i \in DOMAIN r.forward[n] |->
                 IF i <= level /\ prev(i) = n THEN value ELSE r.forward[n][i]]],
       max |-> Max({level, r.max})]

\* The new node linked in on the levels 0 .. level; the levels above those in
\* use hold nothing else.
Linked(r, value, level) ==
  LET lower == AbsLowerBound(r, value)
      prev(i) == IF i <= r.max THEN lower[i] ELSE Head0
  IN  [forward |-> [n \in DOMAIN r.forward \cup {value} |->
         IF n = value THEN [i \in 0 .. level |->
                              IF i <= r.max THEN r.forward[prev(i)][i] ELSE Tail0]
         ELSE [i \in DOMAIN r.forward[n] |->
                 IF i <= level /\ prev(i) = n THEN value ELSE r.forward[n][i]]],
       max |-> Max({level, r.max})]

SkipInsert(value, level) ==
  /\ Called("skiplist")
  /\ IF SkipFind(rep, value) THEN rep' = rep /\ abs' = abs
     ELSE rep' = Linked(rep, value, level) /\ abs' = abs \cup {<<value, level>>}
  /\ answer' = <<SkipFind(rep, value), \E p \in abs : p[1] = value>>

------------------------------------------------------------------------------
\* LRUCache: cache_ is the list of nodes <<key, value>>, m_ the node of each key;
\* abs has the keys, from the last used on, with their values.

KeyAt(s, key) == {k \in DOMAIN s : s[k][1] = key}
Place(s, e) == CHOOSE k \in DOMAIN s : s[k] = e         \* an iterator's place
Erased(s, key) ==                                       \* without the node of key
  IF KeyAt(s, key) = {} THEN s ELSE RemoveAt(s, Min(KeyAt(s, key)))

LruGet(key) ==
  /\ Called("lru")
  /\ IF rep.m[key] = << >>
     THEN rep' = rep /\ answer' = <<-1, IF KeyAt(abs, key) = {} THEN -1 ELSE 0>>
     ELSE /\ rep' = [rep EXCEPT !.cache = <<rep.m[key]>> \o RemoveAt(@, Place(@, rep.m[key]))]
          /\ answer' = <<rep.m[key][2], abs[Min(KeyAt(abs, key))][2]>>
  /\ abs' = IF KeyAt(abs, key) = {} THEN abs
            ELSE <<abs[Min(KeyAt(abs, key))]>> \o Erased(abs, key)

LruPut(key, value) ==
  /\ Called("lru")
  /\ LET old == rep.m[key]
         full == Len(rep.cache) = Capacity
         kept == IF full THEN Front(rep.cache) ELSE rep.cache
         m == IF full THEN [rep.m EXCEPT ![Last(rep.cache)[1]] = << >>] ELSE rep.m
     IN  IF old # << >>
         THEN rep' = [cache |-> <<<<key, value>>>> \o RemoveAt(rep.cache, Place(rep.cache, old)),
                      m |-> [rep.m EXCEPT ![key] = <<key, value>>]]
         ELSE rep' = [cache |-> <<<<key, value>>>> \o kept,
                      m |-> [m EXCEPT ![key] = <<key, value>>]]
  /\ LET used == <<<<key, value>>>> \o Erased(abs, key)
     IN  abs' = IF Len(used) > Capacity THEN Front(used) ELSE used
  /\ answer' = Agree

------------------------------------------------------------------------------
\* Trie: the nodes, each named by the path to it, and those with is_word set in
\* rep; the words inserted in abs.

Words == SeqOf({1, 2}, Longest)

\* Every letter has a node made where there was none.
TrieNodes(nodes, word) == nodes \cup {SubSeq(word, 1, n) : n \in 1 .. Len(word)}

\* The letters of prefix lead from node to node, and not to a null pointer.
TrieFind(nodes, prefix) == \A n \in 1 .. Len(prefix) : SubSeq(prefix, 1, n) \in nodes

TrieInsert(word) ==
  /\ Called("trie")
  /\ rep' = [nodes |-> TrieNodes(rep.nodes, word), words |-> rep.words \cup {word}]
  /\ abs' = abs \cup {word}
  /\ answer' = Agree

TrieSearch(r, word) == TrieFind(r.nodes, word) /\ word \in r.words
TrieStartsWith(r, prefix) == TrieFind(r.nodes, prefix)

------------------------------------------------------------------------------
\* The Rio package of tiny/csapp.c.  rep has what the descriptor still delivers
\* and the buffer rio_buf, abs what the callers have not got yet.  A call of the
\* kernel moves at most c bytes, and fails if c is 0; one that is interrupted is
\* repeated, and so is not seen.  In a loop c is a function of the bytes that it
\* has got, so that each call of the kernel has its own.  RioBytes are the bytes, of
\* which Newline ends a line.

Newline == 2
RioBytes == {1, Newline}
Upto(s, n) == SubSeq(s, 1, Min({n, Len(s)}))
From(s, n) == SubSeq(s, n + 1, Len(s))

\* The bytes it hands out, at most n, after a refill of an empty buffer; none at
\* the end, and none when the refill fails.
rio_read(r, n, c) ==
  LET k == Min({RioSize, c})
      f == IF r.buf # << >> THEN r ELSE [stream |-> From(r.stream, k), buf |-> Upto(r.stream, k)]
  IN  [bytes |-> Upto(f.buf, n), r |-> [f EXCEPT !.buf = From(@, n)]]

Fails(r, c) == r.buf = << >> /\ c = 0

\* What a loop has got so far, and the rio_t.
RioStates == [bytes : Seq(RioBytes), r : [stream : Seq(RioBytes), buf : Seq(RioBytes)]]

\* The end e of a loop, which would have gone on (more) but for a failure: then the
\* call returns -1.
Returned(e, more, c) ==
  [bytes |-> e.bytes, r |-> e.r, err |-> more /\ Fails(e.r, c[Len(e.bytes)])]

rio_readnb(r, n, c) ==
  LET e == Loop([s \in RioStates |->
                   LET got == rio_read(s.r, n - Len(s.bytes), c[Len(s.bytes)])
                   IN  IF Len(s.bytes) = n \/ got.bytes = << >> THEN s
                       ELSE [bytes |-> s.bytes \o got.bytes, r |-> got.r]],
                [bytes |-> << >>, r |-> r], n)
  IN  Returned(e, Len(e.bytes) < n, c)

Complete(bytes, maxlen) ==
  Len(bytes) + 1 >= maxlen \/ (bytes # << >> /\ Last(bytes) = Newline)

rio_readlineb(r, maxlen, c) ==
  LET e == Loop([s \in RioStates |->
                   LET got == rio_read(s.r, 1, c[Len(s.bytes)])
                   IN  IF Complete(s.bytes, maxlen) \/ got.bytes = << >> THEN s
                       ELSE [bytes |-> s.bytes \o got.bytes, r |-> got.r]],
                [bytes |-> << >>, r |-> r], maxlen)
  IN  Returned(e, ~Complete(e.bytes, maxlen), c)

\* Without the buffer.
rio_readn(stream, n, c) ==
  LET e == Loop([s \in RioStates |->
                   LET k == Min({n - Len(s.bytes), c[Len(s.bytes)]})
                   IN  [bytes |-> s.bytes \o Upto(s.r.stream, k),
                        r |-> [s.r EXCEPT !.stream = From(@, k)]]],
                [bytes |-> << >>, r |-> [stream |-> stream, buf |-> << >>]], n)
  IN  Returned(e, Len(e.bytes) < n, c)

\* The same loop, with write in the place of read: the bytes the kernel took.
rio_writen(bytes, c) == rio_readn(bytes, Len(bytes), c)

Line(s, maxlen) ==
  LET ends == {k \in DOMAIN s : s[k] = Newline}
  IN  Upto(s, Min({maxlen - 1, Len(s)} \cup ends))

\* A call that returns -1 has dropped the bytes that it had got, the first of those
\* that it was to return, and no others.
Expected(got, want) == IF got.err THEN Upto(want, Len(got.bytes)) ELSE want

Delivered(got, want) ==
  /\ rep' = got.r
  /\ answer' = <<got.bytes, Expected(got, want)>>
  /\ abs' = From(abs, Len(got.bytes))

RioReadnb(n, c) ==
  Called("rio") /\ Delivered(rio_readnb(rep, n, c), Upto(abs, n))

RioReadlineb(maxlen, c) ==
  Called("rio") /\ Delivered(rio_readlineb(rep, maxlen, c), Line(abs, maxlen))

\* The calls that do not use the buffer, on a descriptor that has none.
RioUnbuffered(n, c) ==
  /\ Called("rio") /\ rep.buf = << >>
  /\ \/ Delivered(rio_readn(rep.stream, n, c), Upto(abs, n))
     \/ LET took == rio_writen(Upto(abs, n), c)
        IN  answer' = <<took.bytes, Expected(took, Upto(abs, n))>> /\ UNCHANGED <<rep, abs>>

------------------------------------------------------------------------------
SInit ==
  /\ calls = 0 /\ answer = Agree
  /\ \/ /\ kind = "heap"
        /\ \E data \in SeqOf(Keys, Longest) :
             rep = HeapOf(data) /\ abs = [v \in Keys |-> Occurrences(data, v)]
     \/ /\ kind = "DisjointSet"
        /\ rep = [parent |-> << >>, rank |-> << >>, edges |-> 0] /\ abs = {}
     \/ /\ kind = "DSU"
        /\ rep = [parent |-> [k \in Keys |-> k], edges |-> 0] /\ abs = {{k} : k \in Keys}
     \/ kind = "fenwick" /\ rep = [k \in 1 .. 2 * Size |-> 0] /\ abs = rep
     \/ /\ kind = "skiplist"
        /\ rep = [forward |-> [n \in {Head0} |-> [i \in 0 .. MaxLevel |-> Tail0]], max |-> 0]
        /\ abs = {}
     \/ kind = "lru" /\ rep = [cache |-> << >>, m |-> [k \in Keys |-> << >>]] /\ abs = << >>
     \/ kind = "trie" /\ rep = [nodes |-> {<< >>}, words |-> {}] /\ abs = {}
     \/ /\ kind = "rio"
        /\ \E stream \in SeqOf(RioBytes, 2 * RioSize) :
             rep = [stream |-> stream, buf |-> << >>] /\ abs = stream

SNext ==
  \/ \E v \in Keys : HeapPush(v)
  \/ HeapPop
  \/ \E node \in Keys : MakeSet(node)
  \/ \E x, y \in Keys : DisjointSetMerge(x, y) \/ DSUMerge(x, y)
  \/ \E i \in 1 .. 2 * Size, delta \in {-1, 2} : FenwickUpdate(i, delta)
  \/ \E v \in Keys, level \in 0 .. MaxLevel : SkipInsert(v, level)
  \/ \E k \in Keys : LruGet(k) \/ \E v \in {1, 2} : LruPut(k, v)
  \/ \E w \in Words : TrieInsert(w)
  \/ \E n \in 1 .. RioSize + 1, c \in [0 .. RioSize + 1 -> 0 .. RioSize] :
       RioReadnb(n, c) \/ RioReadlineb(n + 1, c) \/ RioUnbuffered(n, c)

SSpec == SInit /\ [][SNext]_sVars

------------------------------------------------------------------------------
\* The heap is ordered and has its elements.
HeapRight ==
  /\ \A i \in 2 .. Len(rep) : rep[i \div 2] <= rep[i]
  /\ \A v \in Keys : Occurrences(rep, v) = abs[v]

\* Two nodes have one root just when they were merged, and there are as many edges
\* as merges; ranks grow towards the root, and so bound the height, up to less
\* than the size of the set.
RootOf(parent, x) == Find(parent, x)[x]
SetsRight ==
  /\ \A x, y \in Made :
       RootOf(rep.parent, x) = RootOf(rep.parent, y) <=> Block(x) = Block(y)
  /\ rep.edges = Cardinality(Made) - Cardinality(abs)
RanksRight ==
  \A x \in Made :
    IF rep.parent[x] = x THEN rep.rank[x] < Cardinality(Block(x))
    ELSE rep.rank[x] < rep.rank[rep.parent[x]]

\* The sums give every prefix.
FenwickRight == \A i \in 0 .. Len(abs) : Query(rep, i) = Total(abs, i)

\* On each level of the skip list a node leads to the next larger one that
\* reaches the level.
OnLevel(i) == {p[1] : p \in {q \in abs : q[2] >= i}}
SkipRight ==
  \A i \in 0 .. MaxLevel : \A n \in OnLevel(i) \cup {Head0} :
    rep.forward[n][i] = Min({m \in OnLevel(i) \cup {Tail0} : n < m})

\* The map and the list of the cache name the same nodes, in order of use.
CacheRight ==
  /\ rep.cache = abs
  /\ \A k \in Keys : /\ rep.m[k] # << >> <=> KeyAt(abs, k) # {}
                     /\ rep.m[k] # << >> => Contains(rep.cache, rep.m[k])

\* The trie answers for every word and prefix.
TrieRight ==
  \A w \in Words : /\ TrieSearch(rep, w) <=> w \in abs
                   /\ TrieStartsWith(rep, w) <=> w = << >> \/ \E u \in abs : IsPrefix(w, u)

\* The buffer and the descriptor of a rio_t have what was not delivered yet.
RioRight == rep.buf \o rep.stream = abs

Represents ==
  /\ kind = "heap" => HeapRight
  /\ kind \in {"DisjointSet", "DSU"} => SetsRight
  /\ kind = "DisjointSet" => RanksRight
  /\ kind = "fenwick" => FenwickRight
  /\ kind = "skiplist" => SkipRight
  /\ kind = "lru" => CacheRight
  /\ kind = "trie" => TrieRight
  /\ kind = "rio" => RioRight

\* After every sequence of calls the representation stands for what the calls
\* put in, and each call has returned what it is meant to return: the least
\* element, if the two nodes were connected before, if the value was already
\* there, the value last put under a key that was not evicted, the next bytes or
\* the next line of a stream, however short the kernel's reads are.  A read that
\* returns -1 has taken some of those bytes with it, but none behind them.
ContainersHold == Represents /\ answer[1] = answer[2]
==============================================================================
