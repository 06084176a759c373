-------------------------- MODULE CoEventLoopProofs --------------------------
(* Proofs about the event loop: for every number of coroutines, descriptors,  *)
(* condition variables and slots.                                             *)
(*                                                                            *)
(* The lists of timeout items are sequences, so the module begins with what   *)
(* the operations on sequences do to their members (Without and FlattenSeq    *)
(* are recursive functions: that they exist and what they return is proved by *)
(* induction over the naturals, as a set that contains 0 and is closed under  *)
(* successor).  Then come the inductive invariant Inv, one lemma per action,  *)
(* the properties of CoEventLoop, and the refinement of TimingWheel.          *)
EXTENDS CoEventLoop, SequenceTheorems, FiniteSetTheorems, WellFoundedInduction, TLAPS

\* The lemmas and theorems of the timing wheel, about the wheel of this loop.
Turning == INSTANCE TimingWheelProofs WITH
  Items <- Co, MaxTimeout <- IntMax,
  link <- [s \in Slots |-> ToSet(link[s])],
  taken <- Taken,
  expire_time <- [c \in Co |-> IF c \in InWheel \cup Taken THEN expire_time[c] ELSE 0],
  base <- [c \in Co |-> IF c \in InWheel \cup Taken THEN base[c] ELSE 0]

------------------------------------------------------------------------------
\* Induction: a set that holds 0 and the successor of each natural in it holds
\* them all.
LEMMA SetInduction ==
  ASSUME NEW S, 0 \in S, \A n \in Nat : n \in S => n + 1 \in S
  PROVE  Nat \subseteq S
<1> SUFFICES ASSUME Nat \ S # {} PROVE FALSE
  OBVIOUS
<1>1. PICK R : R = OpToRel(<, Nat)
  OBVIOUS
<1>2. IsWellFoundedOn(R, Nat)
  BY <1>1, NatLessThanWellFounded
<1>3. PICK T : T = Nat \ S
  OBVIOUS
<1>4. T \subseteq Nat /\ T # {}
  BY <1>3
<1>5. PICK x \in T : \A y \in T : ~(<<y, x>> \in R)
  BY <1>2, <1>4, WFMin
<1>6. x \in Nat /\ x # 0
  BY <1>3
<1>7. x - 1 \in Nat /\ (x - 1) + 1 = x
  BY <1>6
<1>8. x - 1 \in T
  BY <1>3, <1>7
<1>9. <<x - 1, x>> \in R
  BY <1>1, <1>6, <1>7 DEF OpToRel
<1> QED BY <1>5, <1>8, <1>9

\* The body of the recursion in Without.
Keeps(q, S, f, k) ==
  IF k = 0 THEN << >>
  ELSE IF q[k] \in S THEN f[k - 1] ELSE Append(f[k - 1], q[k])

\* A function that satisfies it on 0 .. n exists for every n.
LEMMA KeepExists ==
  ASSUME NEW q, NEW S, NEW n \in Nat
  PROVE  \E f : f = [k \in 0 .. n |-> Keeps(q, S, f, k)]
<1> DEFINE T == {m \in Nat : \E f : f = [k \in 0 .. m |-> Keeps(q, S, f, k)]}
<1>1. 0 \in T
  <2> DEFINE f == [k \in 0 .. 0 |-> << >>]
  <2>1. f = [k \in 0 .. 0 |-> Keeps(q, S, f, k)]
    BY DEF Keeps
  <2> QED BY <2>1
<1>2. ASSUME NEW m \in Nat, m \in T PROVE m + 1 \in T
  <2>1. PICK f : f = [k \in 0 .. m |-> Keeps(q, S, f, k)]
    BY <1>2
  <2> DEFINE g == [k \in 0 .. m + 1 |-> IF k <= m THEN f[k] ELSE Keeps(q, S, f, m + 1)]
  <2>2. ASSUME NEW k \in 0 .. m + 1 PROVE g[k] = Keeps(q, S, g, k)
    <3>1. CASE k = 0
      BY <2>1, <3>1 DEF Keeps
    <3>2. CASE k # 0
      <4>1. k - 1 \in 0 .. m + 1 /\ k - 1 <= m /\ k - 1 \in 0 .. m
        BY <3>2
      <4>2. g[k - 1] = f[k - 1]
        BY <4>1
      <4>3. Keeps(q, S, g, k) = Keeps(q, S, f, k)
        BY <4>2 DEF Keeps
      <4>4. CASE k <= m
        BY <4>3, <4>4, <2>1
      <4>5. CASE k = m + 1
        BY <4>3, <4>5
      <4> QED BY <4>4, <4>5
    <3> QED BY <3>1, <3>2
  <2>3. g = [k \in 0 .. m + 1 |-> Keeps(q, S, g, k)]
    BY <2>2, Zenon
  <2>4. \E h : h = [k \in 0 .. m + 1 |-> Keeps(q, S, h, k)]
    BY <2>3, Zenon
  <2> QED BY <2>4
<1> HIDE DEF T
<1>3. Nat \subseteq T
  BY <1>1, <1>2, SetInduction, Zenon
<1> QED BY <1>3 DEF T

\* Without is such a function at its last place.
LEMMA KeepIs ==
  ASSUME NEW q, NEW S, Len(q) \in Nat
  PROVE  \E f : f = [k \in 0 .. Len(q) |-> Keeps(q, S, f, k)] /\ Without(q, S) = f[Len(q)]
<1>1. \E f : f = [k \in 0 .. Len(q) |-> Keeps(q, S, f, k)]
  BY KeepExists
<1> DEFINE g == CHOOSE f : f = [k \in 0 .. Len(q) |-> Keeps(q, S, f, k)]
<1>2. g = [k \in 0 .. Len(q) |-> Keeps(q, S, g, k)]
  BY <1>1, Zenon
<1>3. Without(q, S) = g[Len(q)]
  BY Zenon DEF Without, Keeps
<1> QED BY <1>2, <1>3, Zenon

\* No element occurs twice.
Uniq(q) == \A i, j \in 1 .. Len(q) : q[i] = q[j] => i = j

\* The members of a sequence, as ToSet and as Contains see them.
LEMMA Members ==
  ASSUME NEW X, NEW q \in Seq(X)
  PROVE  /\ ToSet(q) = {q[i] : i \in 1 .. Len(q)}
         /\ ToSet(q) \subseteq X
         /\ \A x : x \in ToSet(q) <=> \E i \in 1 .. Len(q) : q[i] = x
         /\ \A x : x \in ToSet(q) <=> Contains(q, x)
BY DEF ToSet, Contains

\* Of the empty sequence,
LEMMA Nothing ==
  ASSUME NEW X
  PROVE  << >> \in Seq(X) /\ ToSet(<< >>) = {} /\ Uniq(<< >>)
BY DEF ToSet, Uniq

\* of a sequence of one,
LEMMA Single ==
  ASSUME NEW X, NEW x \in X
  PROVE  <<x>> \in Seq(X) /\ ToSet(<<x>>) = {x} /\ Uniq(<<x>>)
BY DEF ToSet, Uniq

\* after TailAdd,
LEMMA Appended ==
  ASSUME NEW X, NEW q \in Seq(X), NEW x \in X
  PROVE  /\ Append(q, x) \in Seq(X)
         /\ ToSet(Append(q, x)) = ToSet(q) \cup {x}
         /\ Uniq(q) /\ x \notin ToSet(q) => Uniq(Append(q, x))
<1> DEFINE r == Append(q, x)
<1>1. r \in Seq(X) /\ Len(r) = Len(q) + 1 /\ Len(q) \in Nat
  OBVIOUS
<1>2. \A i \in 1 .. Len(q) : r[i] = q[i]
  OBVIOUS
<1>3. r[Len(q) + 1] = x
  OBVIOUS
<1> HIDE DEF r
<1>4. ToSet(r) = ToSet(q) \cup {x}
  <2>1. ASSUME NEW y \in ToSet(r) PROVE y \in ToSet(q) \cup {x}
    <3>1. PICK i \in 1 .. Len(r) : r[i] = y
      BY <1>1, Members
    <3>2. CASE i \in 1 .. Len(q)
      BY <1>2, <3>1, <3>2, Members
    <3>3. CASE i = Len(q) + 1
      BY <1>3, <3>1, <3>3
    <3> QED BY <1>1, <3>1, <3>2, <3>3
  <2>2. ASSUME NEW y \in ToSet(q) PROVE y \in ToSet(r)
    <3>1. PICK i \in 1 .. Len(q) : q[i] = y
      BY Members
    <3>2. i \in 1 .. Len(r) /\ r[i] = y
      BY <1>1, <1>2, <3>1
    <3> QED BY <1>1, <3>2, Members
  <2>3. x \in ToSet(r)
    <3>1. Len(q) + 1 \in 1 .. Len(r)
      BY <1>1
    <3> QED BY <1>1, <1>3, <3>1, Members
  <2> QED BY <2>1, <2>2, <2>3
<1>5. ASSUME Uniq(q), x \notin ToSet(q) PROVE Uniq(r)
  <2> SUFFICES ASSUME NEW i \in 1 .. Len(r), NEW j \in 1 .. Len(r), r[i] = r[j] PROVE i = j
    BY DEF Uniq
  <2>1. CASE i \in 1 .. Len(q) /\ j \in 1 .. Len(q)
    BY <1>2, <1>5, <2>1 DEF Uniq
  <2>2. \A k \in 1 .. Len(q) : q[k] # x
    BY <1>5, Members
  <2>3. CASE i \in 1 .. Len(q) /\ j = Len(q) + 1
    BY <1>2, <1>3, <2>2, <2>3
  <2>4. CASE j \in 1 .. Len(q) /\ i = Len(q) + 1
    BY <1>2, <1>3, <2>2, <2>4
  <2> QED BY <1>1, <2>1, <2>3, <2>4
<1> QED BY <1>1, <1>4, <1>5 DEF r

\* after the concatenation of two lists,
LEMMA Joined ==
  ASSUME NEW X, NEW p \in Seq(X), NEW q \in Seq(X)
  PROVE  /\ p \o q \in Seq(X)
         /\ ToSet(p \o q) = ToSet(p) \cup ToSet(q)
         /\ Uniq(p) /\ Uniq(q) /\ ToSet(p) \cap ToSet(q) = {} => Uniq(p \o q)
<1> DEFINE r == p \o q
<1>1. r \in Seq(X) /\ Len(r) = Len(p) + Len(q) /\ Len(q) \in Nat /\ Len(p) \in Nat
  OBVIOUS
<1>2. \A i \in 1 .. Len(p) : r[i] = p[i]
  OBVIOUS
<1>3. \A i \in 1 .. Len(q) : r[Len(p) + i] = q[i]
  OBVIOUS
<1>30. \A i \in 1 .. Len(r) : i \in 1 .. Len(p) \/ \E k \in 1 .. Len(q) : i = Len(p) + k
  <2> SUFFICES ASSUME NEW i \in 1 .. Len(r), i \notin 1 .. Len(p)
               PROVE  \E k \in 1 .. Len(q) : i = Len(p) + k
    OBVIOUS
  <2>1. i - Len(p) \in 1 .. Len(q) /\ i = Len(p) + (i - Len(p))
    BY <1>1
  <2> QED BY <2>1
<1> HIDE DEF r
<1>4. ToSet(r) = ToSet(p) \cup ToSet(q)
  <2>1. ASSUME NEW y \in ToSet(r) PROVE y \in ToSet(p) \cup ToSet(q)
    <3>1. PICK i \in 1 .. Len(r) : r[i] = y
      BY <1>1, Members
    <3>2. CASE i \in 1 .. Len(p)
      BY <1>2, <3>1, <3>2, Members
    <3>3. CASE \E k \in 1 .. Len(q) : i = Len(p) + k
      <4>1. PICK k \in 1 .. Len(q) : i = Len(p) + k
        BY <3>3
      <4>2. q[k] = y
        BY <1>3, <3>1, <4>1
      <4> QED BY <4>2, Members
    <3> QED BY <1>30, <3>1, <3>2, <3>3
  <2>2. ASSUME NEW y \in ToSet(p) PROVE y \in ToSet(r)
    <3>1. PICK i \in 1 .. Len(p) : p[i] = y
      BY Members
    <3>2. i \in 1 .. Len(r) /\ r[i] = y
      BY <1>1, <1>2, <3>1
    <3> QED BY <1>1, <3>2, Members
  <2>3. ASSUME NEW y \in ToSet(q) PROVE y \in ToSet(r)
    <3>1. PICK i \in 1 .. Len(q) : q[i] = y
      BY Members
    <3>2. Len(p) + i \in 1 .. Len(r) /\ r[Len(p) + i] = y
      BY <1>1, <1>3, <3>1
    <3> QED BY <1>1, <3>2, Members
  <2> QED BY <2>1, <2>2, <2>3
<1>5. ASSUME Uniq(p), Uniq(q), ToSet(p) \cap ToSet(q) = {} PROVE Uniq(r)
  <2> SUFFICES ASSUME NEW i \in 1 .. Len(r), NEW j \in 1 .. Len(r), r[i] = r[j] PROVE i = j
    BY DEF Uniq
  <2>0. \A k \in 1 .. Len(p), m \in 1 .. Len(q) : p[k] # q[m]
    BY <1>5, Members
  <2>1. CASE i \in 1 .. Len(p) /\ j \in 1 .. Len(p)
    BY <1>2, <1>5, <2>1 DEF Uniq
  <2>2. CASE i \in 1 .. Len(p) /\ j \notin 1 .. Len(p)
    <3>1. PICK k \in 1 .. Len(q) : j = Len(p) + k
      BY <2>2, <1>30
    <3> QED BY <1>2, <1>3, <2>2, <3>1, <2>0
  <2>3. CASE j \in 1 .. Len(p) /\ i \notin 1 .. Len(p)
    <3>1. PICK k \in 1 .. Len(q) : i = Len(p) + k
      BY <2>3, <1>30
    <3> QED BY <1>2, <1>3, <2>3, <3>1, <2>0
  <2>4. CASE i \notin 1 .. Len(p) /\ j \notin 1 .. Len(p)
    <3>1. PICK k \in 1 .. Len(q) : j = Len(p) + k
      BY <2>4, <1>30
    <3>2. PICK m \in 1 .. Len(q) : i = Len(p) + m
      BY <2>4, <1>30
    <3>3. q[k] = q[m]
      BY <1>3, <3>1, <3>2
    <3>4. k = m
      BY <3>3, <1>5 DEF Uniq
    <3> QED BY <3>1, <3>2, <3>4
  <2> QED BY <2>1, <2>2, <2>3, <2>4
<1> QED BY <1>1, <1>4, <1>5 DEF r

\* and after the head is taken off.
LEMMA Tailed ==
  ASSUME NEW X, NEW q \in Seq(X), q # << >>
  PROVE  /\ Head(q) \in ToSet(q) /\ Head(q) \in X
         /\ Tail(q) \in Seq(X)
         /\ Uniq(q) => Uniq(Tail(q)) /\ ToSet(Tail(q)) = ToSet(q) \ {Head(q)}
<1>1. PICK t : t = Tail(q)
  OBVIOUS
<1>2. /\ t \in Seq(X) /\ Len(q) \in Nat \ {0} /\ Len(t) = Len(q) - 1 /\ Head(q) = q[1]
      /\ \A i \in 1 .. Len(t) : t[i] = q[i + 1]
  BY <1>1
<1>3. Head(q) \in ToSet(q)
  <2>1. 1 \in 1 .. Len(q)
    BY <1>2
  <2> QED BY <1>2, <2>1, Members
<1>4. ASSUME Uniq(q) PROVE Uniq(t)
  <2> SUFFICES ASSUME NEW i \in 1 .. Len(t), NEW j \in 1 .. Len(t), t[i] = t[j] PROVE i = j
    BY DEF Uniq
  <2>1. i + 1 \in 1 .. Len(q) /\ j + 1 \in 1 .. Len(q) /\ q[i + 1] = q[j + 1]
    BY <1>2
  <2>2. i + 1 = j + 1
    BY <1>4, <2>1 DEF Uniq
  <2> QED BY <2>2
<1>5. ASSUME Uniq(q) PROVE ToSet(t) = ToSet(q) \ {Head(q)}
  <2>1. ASSUME NEW x \in ToSet(t) PROVE x \in ToSet(q) /\ x # Head(q)
    <3>1. PICK i \in 1 .. Len(t) : t[i] = x
      BY <1>2, Members
    <3>2. i + 1 \in 1 .. Len(q) /\ q[i + 1] = x /\ 1 \in 1 .. Len(q) /\ i + 1 # 1
      BY <1>2, <3>1
    <3>3. x # q[1]
      BY <3>2, <1>5 DEF Uniq
    <3>4. x \in ToSet(q)
      BY <3>2, Members
    <3> QED BY <3>3, <3>4, <1>2
  <2>2. ASSUME NEW x \in ToSet(q), x # Head(q) PROVE x \in ToSet(t)
    <3>1. PICK i \in 1 .. Len(q) : q[i] = x
      BY Members
    <3>2. i - 1 \in 1 .. Len(t) /\ (i - 1) + 1 = i
      BY <1>2, <2>2, <3>1
    <3>3. t[i - 1] = x
      BY <1>2, <3>1, <3>2
    <3> QED BY <1>2, <3>2, <3>3, Members
  <2> QED BY <2>1, <2>2
<1> QED BY <1>1, <1>2, <1>3, <1>4, <1>5, Members

\* Without takes out the members of S, and them only.
LEMMA WithoutIs ==
  ASSUME NEW X, NEW q \in Seq(X), NEW S
  PROVE  /\ Without(q, S) \in Seq(X)
         /\ ToSet(Without(q, S)) = ToSet(q) \ S
         /\ Uniq(q) => Uniq(Without(q, S))
<1>1. Len(q) \in Nat
  OBVIOUS
<1>2. PICK f : f = [k \in 0 .. Len(q) |-> Keeps(q, S, f, k)] /\ Without(q, S) = f[Len(q)]
  BY <1>1, KeepIs
<1> DEFINE Upto(k) == {q[i] : i \in 1 .. k}
           Good(k) == /\ f[k] \in Seq(X)
                      /\ ToSet(f[k]) = Upto(k) \ S
                      /\ Uniq(q) => Uniq(f[k])
           T == {n \in Nat : n <= Len(q) => Good(n)}
<1>3. 0 \in T
  <2>1. f[0] = << >>
    BY <1>1, <1>2 DEF Keeps
  <2>2. Upto(0) = {}
    OBVIOUS
  <2> QED BY <2>1, <2>2, Nothing
<1>4. ASSUME NEW n \in Nat, n \in T PROVE n + 1 \in T
  <2> SUFFICES ASSUME n + 1 <= Len(q) PROVE Good(n + 1)
    OBVIOUS
  <2>1. n \in 0 .. Len(q) /\ n + 1 \in 0 .. Len(q) /\ n + 1 \in 1 .. Len(q) /\ n + 1 # 0 /\ (n + 1) - 1 = n
    BY <1>1
  <2>2. Good(n)
    BY <1>4, <2>1
  <2>3. f[n + 1] = IF q[n + 1] \in S THEN f[n] ELSE Append(f[n], q[n + 1])
    <3>1. f[n + 1] = Keeps(q, S, f, n + 1)
      BY <1>2, <2>1, Zenon
    <3> QED BY <3>1, <2>1 DEF Keeps
  <2>4. Upto(n + 1) = Upto(n) \cup {q[n + 1]}
    <3>1. 1 .. n + 1 = (1 .. n) \cup {n + 1}
      OBVIOUS
    <3> QED BY <3>1, Zenon
  <2>5. q[n + 1] \in X
    BY <2>1
  <2> HIDE DEF Upto
  <2>6. CASE q[n + 1] \in S
    BY <2>2, <2>3, <2>4, <2>6
  <2>7. CASE q[n + 1] \notin S
    <3>1. PICK x \in X : x = q[n + 1]
      BY <2>5
    <3>2. PICK p \in Seq(X) : p = f[n]
      BY <2>2
    <3>3. f[n + 1] = Append(p, x) /\ ToSet(p) = Upto(n) \ S /\ (Uniq(q) => Uniq(p))
      BY <2>2, <2>3, <2>7, <3>1, <3>2
    <3>4. ASSUME Uniq(q) PROVE x \notin ToSet(p)
      <4>1. ASSUME NEW i \in 1 .. n PROVE q[i] # x
        <5>1. i \in 1 .. Len(q) /\ i # n + 1
          BY <2>1
        <5> QED BY <5>1, <2>1, <3>1, <3>4 DEF Uniq
      <4>2. x \notin Upto(n)
        BY <4>1 DEF Upto
      <4> QED BY <4>2, <3>3
    <3>5. /\ Append(p, x) \in Seq(X)
          /\ ToSet(Append(p, x)) = ToSet(p) \cup {x}
          /\ Uniq(p) /\ x \notin ToSet(p) => Uniq(Append(p, x))
      BY Appended
    <3>6. ToSet(f[n + 1]) = Upto(n + 1) \ S
      BY <3>5, <3>3, <2>4, <3>1, <2>7
    <3> QED BY <3>3, <3>4, <3>5, <3>6
  <2> QED BY <2>6, <2>7
<1> HIDE DEF T
<1>5. Nat \subseteq T
  BY <1>3, <1>4, SetInduction, Zenon
<1>6. Good(Len(q))
  <2>1. Len(q) \in T /\ Len(q) <= Len(q)
    BY <1>1, <1>5
  <2> HIDE DEF Good
  <2> QED BY <2>1 DEF T
<1>7. Upto(Len(q)) = ToSet(q)
  BY Members
<1> QED BY <1>2, <1>6, <1>7

\* The body of the recursion in FlattenSeq.
Flattens(qs, f, i) == IF i = 1 THEN qs[i] ELSE f[i - 1] \o qs[i]

\* A function that satisfies it on 1 .. n exists for every n.
LEMMA FlattenExists ==
  ASSUME NEW qs, NEW n \in Nat
  PROVE  \E f : f = [i \in 1 .. n |-> Flattens(qs, f, i)]
<1> DEFINE T == {m \in Nat : \E f : f = [i \in 1 .. m |-> Flattens(qs, f, i)]}
<1>1. 0 \in T
  <2> DEFINE f == [i \in 1 .. 0 |-> << >>]
  <2>1. f = [i \in 1 .. 0 |-> Flattens(qs, f, i)]
    BY DEF Flattens
  <2> QED BY <2>1
<1>2. ASSUME NEW m \in Nat, m \in T PROVE m + 1 \in T
  <2>1. PICK f : f = [i \in 1 .. m |-> Flattens(qs, f, i)]
    BY <1>2
  <2> DEFINE g == [i \in 1 .. m + 1 |-> IF i <= m THEN f[i] ELSE Flattens(qs, f, m + 1)]
  <2>2. ASSUME NEW k \in 1 .. m + 1 PROVE g[k] = Flattens(qs, g, k)
    <3>1. CASE k = 1
      <4>1. Flattens(qs, g, k) = qs[k] /\ Flattens(qs, f, k) = qs[k]
        BY <3>1 DEF Flattens
      <4>2. CASE k <= m
        BY <2>1, <4>1, <4>2
      <4>3. CASE k = m + 1
        BY <4>1, <4>3
      <4> QED BY <4>2, <4>3
    <3>2. CASE k # 1
      <4>1. k - 1 \in 1 .. m + 1 /\ k - 1 <= m /\ k - 1 \in 1 .. m
        BY <3>2
      <4>2. g[k - 1] = f[k - 1]
        BY <4>1
      <4>3. Flattens(qs, g, k) = Flattens(qs, f, k)
        <5> HIDE DEF g
        <5> QED BY <4>2, <3>2 DEF Flattens
      <4>4. CASE k <= m
        BY <4>3, <4>4, <2>1
      <4>5. CASE k = m + 1
        BY <4>3, <4>5
      <4> QED BY <4>4, <4>5
    <3> QED BY <3>1, <3>2
  <2>3. g = [k \in 1 .. m + 1 |-> Flattens(qs, g, k)]
    BY <2>2, Zenon
  <2>4. \E h : h = [k \in 1 .. m + 1 |-> Flattens(qs, h, k)]
    BY <2>3, Zenon
  <2> QED BY <2>4
<1> HIDE DEF T
<1>3. Nat \subseteq T
  BY <1>1, <1>2, SetInduction, Zenon
<1> QED BY <1>3 DEF T

\* FlattenSeq returns the members of all the lists, none twice if the lists have
\* none in common and none twice.
LEMMA FlattenIs ==
  ASSUME NEW X, NEW qs, NEW n \in Nat \ {0}, Len(qs) = n,
         \A i \in 1 .. n : qs[i] \in Seq(X)
  PROVE  /\ FlattenSeq(qs) \in Seq(X)
         /\ ToSet(FlattenSeq(qs)) = UNION {ToSet(qs[i]) : i \in 1 .. n}
         /\ (/\ \A i \in 1 .. n : Uniq(qs[i])
             /\ \A i, j \in 1 .. n : i # j => ToSet(qs[i]) \cap ToSet(qs[j]) = {})
            => Uniq(FlattenSeq(qs))
<1> DEFINE g == CHOOSE f : f = [i \in 1 .. n |-> Flattens(qs, f, i)]
<1>1. g = [i \in 1 .. n |-> Flattens(qs, g, i)]
  <2>1. \E f : f = [i \in 1 .. n |-> Flattens(qs, f, i)]
    BY FlattenExists
  <2> QED BY <2>1, Zenon
<1>2. FlattenSeq(qs) = g[n]
  <2>1. n # 0
    OBVIOUS
  <2> QED BY <2>1, Zenon DEF FlattenSeq, Flattens
<1> HIDE DEF g
<1> DEFINE Apart == /\ \A i \in 1 .. n : Uniq(qs[i])
                    /\ \A i, j \in 1 .. n : i # j => ToSet(qs[i]) \cap ToSet(qs[j]) = {}
           Upto(k) == UNION {ToSet(qs[i]) : i \in 1 .. k}
           Good(k) == /\ g[k] \in Seq(X)
                      /\ ToSet(g[k]) = Upto(k)
                      /\ Apart => Uniq(g[k])
           T == {m \in Nat : m + 1 <= n => Good(m + 1)}
<1>3. 0 \in T
  <2>1. 1 \in 1 .. n /\ 0 + 1 = 1
    OBVIOUS
  <2>2. g[1] = Flattens(qs, g, 1)
    BY <1>1, <2>1, Zenon
  <2>3. g[1] = qs[1]
    BY <2>2 DEF Flattens
  <2>4. Upto(1) = ToSet(qs[1])
    <3>1. 1 .. 1 = {1}
      OBVIOUS
    <3> QED BY <3>1, Zenon
  <2> HIDE DEF Upto
  <2>5. Good(1)
    BY <2>1, <2>3, <2>4
  <2> QED BY <2>1, <2>5
<1>4. ASSUME NEW m \in Nat, m \in T PROVE m + 1 \in T
  <2> SUFFICES ASSUME (m + 1) + 1 <= n PROVE Good((m + 1) + 1)
    OBVIOUS
  <2>1. PICK k \in Nat : k = m + 1
    OBVIOUS
  <2>2. k \in 1 .. n /\ k + 1 \in 1 .. n /\ k + 1 # 1 /\ (k + 1) - 1 = k
    BY <2>1
  <2>3. Good(k)
    BY <1>4, <2>1, <2>2, SMTT(30)
  <2>4. g[k + 1] = g[k] \o qs[k + 1]
    <3>1. g[k + 1] = Flattens(qs, g, k + 1)
      BY <1>1, <2>2, Zenon
    <3> QED BY <3>1, <2>2 DEF Flattens
  <2>5. Upto(k + 1) = Upto(k) \cup ToSet(qs[k + 1])
    <3>1. 1 .. k + 1 = (1 .. k) \cup {k + 1}
      BY <2>1
    <3> QED BY <3>1, Zenon
  <2>6. PICK p \in Seq(X) : p = g[k]
    BY <2>3
  <2>7. PICK r \in Seq(X) : r = qs[k + 1]
    BY <2>2
  <2>8. /\ p \o r \in Seq(X)
        /\ ToSet(p \o r) = ToSet(p) \cup ToSet(r)
        /\ Uniq(p) /\ Uniq(r) /\ ToSet(p) \cap ToSet(r) = {} => Uniq(p \o r)
    BY Joined
  <2>9. ASSUME Apart PROVE Upto(k) \cap ToSet(qs[k + 1]) = {} /\ Uniq(qs[k + 1])
    <3>1. ASSUME NEW i \in 1 .. k PROVE ToSet(qs[i]) \cap ToSet(qs[k + 1]) = {}
      <4>1. i \in 1 .. n /\ i # k + 1
        BY <2>2
      <4> QED BY <4>1, <2>2, <2>9, Zenon
    <3> QED BY <3>1, <2>2, <2>9
  <2> HIDE DEF Upto, Apart
  <2>10. Good(k + 1)
    BY <2>3, <2>4, <2>5, <2>6, <2>7, <2>8, <2>9
  <2> QED BY <2>1, <2>10
<1> HIDE DEF T
<1>5. Nat \subseteq T
  BY <1>3, <1>4, SetInduction, Zenon
<1>6. Good(n)
  <2>1. n - 1 \in Nat /\ (n - 1) + 1 = n
    OBVIOUS
  <2>2. n - 1 \in T
    BY <1>5, <2>1
  <2> QED BY <2>1, <2>2 DEF T
<1> QED BY <1>2, <1>6, Zenon

------------------------------------------------------------------------------
\* The inductive invariant, in parts.

States == {"new", "yielded", "running", "poll", "cond", "end"}

\* Types.
TypeOK ==
  /\ clock \in 1 .. MaxTime
  /\ stack \in Seq(Co \cup {Main})
  /\ st \in [Co -> States]
  /\ cond \in [Conds -> Seq(Co)]
  /\ polls \in [Co -> SUBSET Fds]
  /\ raise_cnt \in [Co -> Nat]
  /\ expire_time \in [Co -> Nat]
  /\ is_timeout \in [Co -> BOOLEAN]
  /\ link \in [Slots -> Seq(Co)]
  /\ start \in 1 .. MaxTime
  /\ start_idx \in Nat
  /\ active \in Seq(Co)
  /\ reg \in [Fds -> Co \cup {NoCo}]
  /\ ready \in SUBSET Fds
  /\ phase \in {"app", "wait", "sweep", "dispatch"}
  /\ now \in 0 .. MaxTime
  /\ signalled \in SUBSET Co
  /\ base \in [Co -> Nat]

\* The call stack begins with the main coroutine, no coroutine is on it twice,
\* and those on it run.
StackOK ==
  /\ Len(stack) >= 1 /\ stack[1] = Main
  /\ Uniq(stack)
  /\ \A i \in 1 .. Len(stack) : stack[i] # Main => st[stack[i]] = "running"

Waiting(c) == st[c] = "poll" \/ st[c] = "cond"

\* Outside CoPoll and CoCondTimewait a coroutine has no item.
Idle ==
  \A c \in Co : ~Waiting(c) =>
    /\ expire_time[c] = 0 /\ base[c] = 0 /\ raise_cnt[c] = 0
    /\ is_timeout[c] = FALSE
    /\ c \notin signalled

\* The slots and the active list have no item in common, and none twice.
ListsApart ==
  /\ Uniq(active)
  /\ \A s \in Slots : Uniq(link[s]) /\ ToSet(active) \cap ToSet(link[s]) = {}
  /\ \A r, s \in Slots : r # s => ToSet(link[r]) \cap ToSet(link[s]) = {}

\* They hold the items of the polls and of the timed or signalled waits.
ListsHold ==
  \A c \in Co : c \in ToSet(active) \cup UNION {ToSet(link[s]) : s \in Slots}
      <=> \/ st[c] = "poll"
          \/ st[c] = "cond" /\ (expire_time[c] # 0 \/ c \in signalled)

\* The same for the lists of waiters, which hold those not signalled.
CondsApart ==
  /\ \A v \in Conds : Uniq(cond[v])
  /\ \A v, w \in Conds : v # w => ToSet(cond[v]) \cap ToSet(cond[w]) = {}

CondsHold ==
  \A c \in Co : c \in UNION {ToSet(cond[v]) : v \in Conds}
      <=> st[c] = "cond" /\ c \notin signalled

\* An item in a slot has a timer that has not fired; one in the active list is
\* there for an event, a signal or a timeout.
Causes ==
  /\ \A s \in Slots : \A c \in ToSet(link[s]) : expire_time[c] # 0 /\ is_timeout[c] = FALSE
  /\ \A c \in ToSet(active) : raise_cnt[c] > 0 \/ c \in signalled \/ is_timeout[c]

\* What came out of the wheel is dispatched before the next sweep, at the time
\* of the last one.
Timed ==
  \A c \in Co : is_timeout[c] =>
    c \in ToSet(active) /\ expire_time[c] # 0 /\ phase = "dispatch" /\ now = start

Inv ==
  /\ TypeOK /\ StackOK /\ Idle
  /\ ListsApart /\ ListsHold /\ CondsApart /\ CondsHold
  /\ Causes /\ Timed /\ RegisteredIsLive

------------------------------------------------------------------------------
\* The stack without its top.
LEMMA Fronted ==
  ASSUME NEW X, NEW q \in Seq(X), Len(q) >= 1
  PROVE  /\ Front(q) \in Seq(X)
         /\ Len(Front(q)) = Len(q) - 1
         /\ \A i \in 1 .. Len(q) - 1 : Front(q)[i] = q[i]
<1>1. PICK l \in Nat : l = Len(q)
  OBVIOUS
<1>2. 1 \in 1 .. l + 1 /\ l - 1 \in 0 .. l
  BY <1>1
<1>3. Front(q) = SubSeq(q, 1, l - 1)
  BY <1>1 DEF Front
<1>4. /\ SubSeq(q, 1, l - 1) \in Seq(X)
      /\ Len(SubSeq(q, 1, l - 1)) = l - 1
      /\ \A i \in 1 .. l - 1 : SubSeq(q, 1, l - 1)[i] = q[i]
  BY <1>1, <1>2
<1> QED BY <1>1, <1>3, <1>4

\* The coroutine that runs is in state running, and its frame is not the bottom one.
LEMMA SelfRuns ==
  ASSUME TypeOK, StackOK, NEW c \in Co, Self = c
  PROVE  st[c] = "running" /\ Len(stack) >= 2
<1>1. Len(stack) \in Nat /\ Len(stack) >= 1 /\ Len(stack) \in 1 .. Len(stack)
  BY DEF TypeOK, StackOK
<1>2. stack[Len(stack)] = c
  BY DEF Self, Last
<1>3. c # Main
  BY LoopAssumption
<1>4. st[c] = "running"
  BY <1>1, <1>2, <1>3 DEF StackOK
<1>5. Len(stack) # 1
  BY <1>2, <1>3 DEF StackOK
<1>6. \A l \in Nat : l >= 1 /\ l # 1 => l >= 2
  OBVIOUS
<1> QED BY <1>1, <1>4, <1>5, <1>6

\* c leaves the processor.
LEMMA PopInv ==
  ASSUME TypeOK, StackOK, NEW c \in Co, Self = c, NEW s, SwitchOut(c, s),
         s \in States
  PROVE  /\ StackOK' /\ stack' \in Seq(Co \cup {Main})
         /\ st' \in [Co -> States]
         /\ st'[c] = s /\ \A d \in Co \ {c} : st'[d] = st[d]
<1>1. st[c] = "running" /\ Len(stack) >= 2
  BY SelfRuns
<1>2. stack \in Seq(Co \cup {Main}) /\ Len(stack) \in Nat
  BY DEF TypeOK
<1>3. /\ stack' \in Seq(Co \cup {Main})
      /\ Len(stack') = Len(stack) - 1
      /\ \A i \in 1 .. Len(stack) - 1 : stack'[i] = stack[i]
  <2>1. PICK X : X = Co \cup {Main}
    OBVIOUS
  <2>2. stack' = Front(stack)
    BY DEF SwitchOut
  <2> QED BY <1>1, <1>2, <2>1, <2>2, Fronted
<1>4. /\ st' = [st EXCEPT ![c] = s] /\ st \in [Co -> States]
  BY DEF SwitchOut, TypeOK
<1>5. \A i \in 1 .. Len(stack') : i \in 1 .. Len(stack) /\ i # Len(stack) /\ stack'[i] = stack[i]
  BY <1>1, <1>2, <1>3
<1>6. Uniq(stack')
  BY <1>5 DEF Uniq, StackOK
<1>7. ASSUME NEW i \in 1 .. Len(stack'), stack'[i] # Main
      PROVE  st'[stack'[i]] = "running"
  <2>1. i \in 1 .. Len(stack) /\ i # Len(stack) /\ stack'[i] = stack[i] /\ Len(stack) \in 1 .. Len(stack)
    BY <1>1, <1>2, <1>5
  <2>2. stack[i] # c
    BY <2>1 DEF Self, Last, Uniq, StackOK
  <2>3. stack[i] \in Co /\ st[stack[i]] = "running"
    BY <1>2, <1>7, <2>1 DEF StackOK
  <2> QED BY <1>4, <2>1, <2>2, <2>3
<1>8. stack'[1] = Main /\ Len(stack') >= 1
  BY <1>1, <1>2, <1>3 DEF StackOK
<1> QED BY <1>3, <1>4, <1>6, <1>7, <1>8 DEF StackOK

\* d, which does not run, is resumed.
LEMMA PushInv ==
  ASSUME TypeOK, StackOK, NEW d \in Co, st[d] # "running",
         stack' = Append(stack, d), st' = [st EXCEPT ![d] = "running"]
  PROVE  /\ StackOK' /\ stack' \in Seq(Co \cup {Main})
         /\ st' \in [Co -> States]
         /\ st'[d] = "running" /\ \A c \in Co \ {d} : st'[c] = st[c]
<1>1. stack \in Seq(Co \cup {Main}) /\ Len(stack) \in Nat /\ Len(stack) >= 1 /\ d # Main
  BY LoopAssumption DEF TypeOK, StackOK
<1>2. \A i \in 1 .. Len(stack) : stack[i] # d
  BY <1>1 DEF StackOK
<1>3. PICK X : X = Co \cup {Main}
  OBVIOUS
<1>4. stack \in Seq(X) /\ d \in X
  BY <1>1, <1>3
<1>5. d \notin ToSet(stack)
  BY <1>2, <1>4, Members
<1>6. stack' \in Seq(X) /\ Uniq(stack')
  BY <1>4, <1>5, Appended DEF StackOK
<1>7. /\ Len(stack') = Len(stack) + 1
      /\ \A i \in 1 .. Len(stack) : stack'[i] = stack[i]
      /\ stack'[Len(stack) + 1] = d
  BY <1>4
<1>8. st \in [Co -> States]
  BY DEF TypeOK
<1>9. ASSUME NEW i \in 1 .. Len(stack'), stack'[i] # Main
      PROVE  st'[stack'[i]] = "running"
  <2>1. CASE i \in 1 .. Len(stack)
    <3>1. stack[i] \in Co /\ st[stack[i]] = "running"
      BY <1>1, <1>7, <1>9, <2>1 DEF StackOK
    <3> QED BY <1>7, <1>8, <2>1, <3>1
  <2>2. CASE i = Len(stack) + 1
    BY <1>7, <1>8, <2>2
  <2> QED BY <1>1, <1>7, <2>1, <2>2
<1>10. stack'[1] = Main /\ Len(stack') >= 1
  BY <1>1, <1>7 DEF StackOK
<1> QED BY <1>3, <1>6, <1>8, <1>9, <1>10 DEF StackOK, States

------------------------------------------------------------------------------
\* RemoveFromLink of the items S.
LEMMA UnhangIs ==
  ASSUME TypeOK, NEW S
  PROVE  /\ Unhang(S) \in [Slots -> Seq(Co)]
         /\ \A s \in Slots : /\ ToSet(Unhang(S)[s]) = ToSet(link[s]) \ S
                             /\ Uniq(link[s]) => Uniq(Unhang(S)[s])
<1>1. ASSUME NEW s \in Slots
      PROVE  /\ Unhang(S)[s] \in Seq(Co)
             /\ ToSet(Unhang(S)[s]) = ToSet(link[s]) \ S
             /\ Uniq(link[s]) => Uniq(Unhang(S)[s])
  <2>1. link[s] \in Seq(Co)
    BY DEF TypeOK
  <2>2. Unhang(S)[s] = Without(link[s], S)
    BY DEF Unhang
  <2> QED BY <2>1, <2>2, WithoutIs
<1>2. Unhang(S) = [s \in Slots |-> Unhang(S)[s]]
  BY DEF Unhang
<1> QED BY <1>1, <1>2

\* RemoveFromLink and TailAdd of the items ds.
LEMMA WakesLists ==
  ASSUME TypeOK, ListsApart, NEW ds \in Seq(Co), Uniq(ds),
         link' = Unhang(ToSet(ds)), active' = ToActive(ds)
  PROVE  /\ link' \in [Slots -> Seq(Co)]
         /\ active' \in Seq(Co)
         /\ ListsApart'
         /\ ToSet(active') = ToSet(active) \cup ToSet(ds)
         /\ \A s \in Slots : ToSet(link'[s]) = ToSet(link[s]) \ ToSet(ds)
<1>1. PICK S : S = ToSet(ds)
  OBVIOUS
<1>2. active \in Seq(Co) /\ link \in [Slots -> Seq(Co)]
  BY DEF TypeOK
<1>3. PICK a : a = Without(active, S)
  OBVIOUS
<1>4. a \in Seq(Co) /\ ToSet(a) = ToSet(active) \ S /\ Uniq(a)
  BY <1>2, <1>3, WithoutIs DEF ListsApart
<1>5. active' = a \o ds
  BY <1>1, <1>3 DEF ToActive
<1>6. a \o ds \in Seq(Co) /\ ToSet(a \o ds) = ToSet(a) \cup S /\ Uniq(a \o ds)
  <2>1. ToSet(a) \cap ToSet(ds) = {}
    BY <1>1, <1>4
  <2> QED BY <1>1, <1>4, <2>1, Joined
<1>7. link' = Unhang(S)
  BY <1>1
<1>8. \A s \in Slots : Uniq(link'[s]) /\ ToSet(link'[s]) = ToSet(link[s]) \ S
  <2>1. \A s \in Slots : Uniq(Unhang(S)[s]) /\ ToSet(Unhang(S)[s]) = ToSet(link[s]) \ S
    <3>1. \A s \in Slots : Uniq(link[s])
      BY DEF ListsApart
    <3>2. \A s \in Slots : /\ ToSet(Unhang(S)[s]) = ToSet(link[s]) \ S
                           /\ Uniq(link[s]) => Uniq(Unhang(S)[s])
      BY UnhangIs
    <3> QED BY <3>1, <3>2, Zenon
  <2> QED BY <1>7, <2>1, Zenon
<1>9. link' \in [Slots -> Seq(Co)]
  BY <1>1, UnhangIs
<1>10. ToSet(active') = ToSet(active) \cup S
  BY <1>4, <1>5, <1>6
<1>11. ListsApart'
  <2>1. Uniq(active')
    BY <1>5, <1>6
  <2>2. \A s \in Slots : Uniq(link'[s]) /\ ToSet(active') \cap ToSet(link'[s]) = {}
    BY <1>8, <1>10 DEF ListsApart
  <2>3. \A r, s \in Slots : r # s => ToSet(link'[r]) \cap ToSet(link'[s]) = {}
    BY <1>8 DEF ListsApart
  <2> QED BY <2>1, <2>2, <2>3 DEF ListsApart
<1> QED BY <1>1, <1>5, <1>6, <1>8, <1>9, <1>10, <1>11

\* The constants of the loop are constants of a timing wheel.
LEMMA WheelAssumed == Turning!WheelAssumption /\ slot_size \in Nat \ {0} /\ Turning!Slots = Slots
BY LoopAssumption DEF Turning!WheelAssumption, Turning!Slots, Slots

\* A wheel in use keeps its start.
LEMMA StartedAt ==
  ASSUME TypeOK, NEW t
  PROVE  Wheel!StartAt(t) = start /\ Wheel!IdxAt(t) = start_idx
BY DEF TypeOK, Wheel!StartAt, Wheel!IdxAt

\* TimerItemAdd computes a slot of the wheel.
LEMMA SlotInRange ==
  ASSUME NEW b \in Nat, NEW i \in Nat, NEW e \in Nat
  PROVE  Wheel!SlotOf(b, i, e) \in Slots
<1>1. slot_size \in Nat \ {0}
  BY WheelAssumed
<1>2. i + Wheel!Diff(b, e) \in Int
  BY <1>1 DEF Wheel!Diff
<1>3. PICK x \in Int : x = i + Wheel!Diff(b, e)
  BY <1>2
<1>4. x % slot_size \in 0 .. slot_size - 1
  BY <1>1, WheelAssumed, Turning!ModSplit
<1> QED BY <1>3, <1>4 DEF Wheel!SlotOf, Slots

\* TimerItemAdd of the item of c.
LEMMA HangsLists ==
  ASSUME TypeOK, NEW c \in Co, NEW e \in Nat, NEW t, Hang(c, e, t)
  PROVE  /\ start' = start /\ start_idx' = start_idx
         /\ link' \in [Slots -> Seq(Co)]
         /\ expire_time' = [expire_time EXCEPT ![c] = e]
         /\ is_timeout' = [is_timeout EXCEPT ![c] = FALSE]
         /\ base' = [base EXCEPT ![c] = start]
         /\ \E h \in Slots :
              /\ h = Wheel!SlotOf(start, start_idx, e)
              /\ ToSet(link'[h]) = ToSet(link[h]) \cup {c}
              /\ c \notin ToSet(link[h]) /\ Uniq(link[h]) => Uniq(link'[h])
              /\ \A s \in Slots \ {h} : link'[s] = link[s]
<1>1. start' = start /\ start_idx' = start_idx
  BY StartedAt DEF Hang
<1>2. PICK h : h = Wheel!SlotOf(start, start_idx, e)
  OBVIOUS
<1>3. h \in Slots
  BY <1>2, SlotInRange DEF TypeOK
<1>4. link \in [Slots -> Seq(Co)]
  BY DEF TypeOK
<1>5. link' = [link EXCEPT ![h] = Append(@, c)]
  BY <1>1, <1>2 DEF Hang
<1>6. link'[h] = Append(link[h], c) /\ \A s \in Slots \ {h} : link'[s] = link[s]
  BY <1>3, <1>4, <1>5
<1>7. link[h] \in Seq(Co)
  BY <1>3, <1>4
<1>8. /\ Append(link[h], c) \in Seq(Co)
      /\ ToSet(Append(link[h], c)) = ToSet(link[h]) \cup {c}
      /\ Uniq(link[h]) /\ c \notin ToSet(link[h]) => Uniq(Append(link[h], c))
  BY <1>7, Appended
<1>9. link' \in [Slots -> Seq(Co)]
  BY <1>4, <1>5, <1>8
<1> QED BY <1>1, <1>2, <1>3, <1>6, <1>8, <1>9 DEF Hang

\* Steps that neither begin nor end a wait.
LEMMA QuietInv ==
  ASSUME Inv, TypeOK', StackOK',
         UNCHANGED <<cond, polls, raise_cnt, wheelVars, active, reg, signalled>>,
         \A c \in Co : \/ st'[c] = st[c]
                       \/ st[c] \notin {"poll", "cond"} /\ st'[c] \notin {"poll", "cond"},
         \A c \in Co : is_timeout[c] => phase' = phase /\ now' = now
  PROVE  Inv'
<1>1. Idle'
  BY DEF Inv, Idle, Waiting, wheelVars
<1>2. ListsApart' /\ CondsApart' /\ Causes'
  BY DEF Inv, ListsApart, CondsApart, Causes, wheelVars
<1>3. ListsHold'
  <2> SUFFICES ASSUME NEW c \in Co
               PROVE  (c \in ToSet(active) \cup UNION {ToSet(link[s]) : s \in Slots})
                      <=> \/ st'[c] = "poll"
                          \/ st'[c] = "cond" /\ (expire_time[c] # 0 \/ c \in signalled)
    BY DEF ListsHold, wheelVars
  <2> QED BY DEF Inv, ListsHold
<1>4. CondsHold'
  <2> SUFFICES ASSUME NEW c \in Co
               PROVE  c \in UNION {ToSet(cond[v]) : v \in Conds}
                      <=> st'[c] = "cond" /\ c \notin signalled
    BY DEF CondsHold
  <2> QED BY DEF Inv, CondsHold
<1>5. Timed'
  BY DEF Inv, Timed, wheelVars
<1>6. RegisteredIsLive'
  BY DEF Inv, RegisteredIsLive, TypeOK
<1> QED BY <1>1, <1>2, <1>3, <1>4, <1>5, <1>6 DEF Inv

\* CurrThreadEnvInit and EpollAlloc establish the invariant.
LEMMA InvInit == Init => Inv
<1> SUFFICES ASSUME Init PROVE Inv
  OBVIOUS
<1>0. ToSet(<< >>) = {} /\ Uniq(<< >>) /\ << >> \in Seq(Co)
  BY Nothing
<1>1. TypeOK
  BY <1>0, LoopAssumption DEF Init, TypeOK, States
<1>2. StackOK
  BY LoopAssumption DEF Init, StackOK, Uniq
<1>3. Idle
  BY DEF Init, Idle
<1>4. ListsApart /\ CondsApart
  BY <1>0 DEF Init, ListsApart, CondsApart
<1>5. ListsHold
  BY <1>0 DEF Init, ListsHold
<1>6. CondsHold
  BY <1>0 DEF Init, CondsHold
<1>7. Causes
  BY <1>0 DEF Init, Causes
<1>8. Timed /\ RegisteredIsLive
  BY DEF Init, Timed, RegisteredIsLive
<1> QED BY <1>1, <1>2, <1>3, <1>4, <1>5, <1>6, <1>7, <1>8 DEF Inv

\* One lemma per action: CoResume,
LEMMA CoResumeInv ==
  ASSUME Inv, NEW c, NEW d \in Co, CoResume(c, d)
  PROVE  Inv'
<1>1. TypeOK /\ StackOK /\ st[d] \in {"new", "yielded"}
  BY DEF Inv, CoResume
<1>2. /\ stack' = Append(stack, d) /\ st' = [st EXCEPT ![d] = "running"]
      /\ UNCHANGED <<clock, cond, polls, raise_cnt, wheelVars, active, reg, ready,
                     phase, now, signalled>>
  BY DEF CoResume
<1>3. /\ StackOK' /\ stack' \in Seq(Co \cup {Main})
      /\ st' \in [Co -> States]
      /\ st'[d] = "running" /\ \A b \in Co \ {d} : st'[b] = st[b]
  BY <1>1, <1>2, PushInv
<1>4. TypeOK'
  BY <1>1, <1>2, <1>3 DEF TypeOK, wheelVars
<1>5. \A b \in Co : \/ st'[b] = st[b]
                    \/ st[b] \notin {"poll", "cond"} /\ st'[b] \notin {"poll", "cond"}
  BY <1>1, <1>3
<1> QED BY <1>2, <1>3, <1>4, <1>5, QuietInv

\* CoYield and the end of the coroutine's function.
LEMMA EndsTurnInv ==
  ASSUME Inv, NEW c \in Co, CoYield(c) \/ CoFunc(c)
  PROVE  Inv'
<1>1. TypeOK /\ StackOK /\ Self = c
  BY DEF Inv, CoYield, CoFunc
<1>2. PICK s \in {"yielded", "end"} : SwitchOut(c, s)
  BY DEF CoYield, CoFunc
<1>3. UNCHANGED <<clock, cond, polls, raise_cnt, wheelVars, active, reg, ready,
                  phase, now, signalled>>
  BY DEF CoYield, CoFunc
<1>4. /\ StackOK' /\ stack' \in Seq(Co \cup {Main})
      /\ st' \in [Co -> States]
      /\ st'[c] = s /\ \A d \in Co \ {c} : st'[d] = st[d]
  BY <1>1, <1>2, PopInv DEF States
<1>5. st[c] = "running"
  BY <1>1, SelfRuns
<1>6. TypeOK'
  BY <1>1, <1>3, <1>4 DEF TypeOK, wheelVars
<1>7. \A b \in Co : \/ st'[b] = st[b]
                    \/ st[b] \notin {"poll", "cond"} /\ st'[b] \notin {"poll", "cond"}
  BY <1>2, <1>4, <1>5
<1> QED BY <1>3, <1>4, <1>6, <1>7, QuietInv

\* The steps of the loop and of the world that touch no item.
LEMMA StillInv ==
  ASSUME Inv, Loop \/ DispatchEnd \/ Tick \/ SetBack \/ \E f \in Fds : FdChanges(f)
  PROVE  Inv'
<1>1. TypeOK /\ StackOK /\ Timed
  BY DEF Inv
<1>2. UNCHANGED <<stack, st, cond, polls, raise_cnt, wheelVars, active, reg, signalled>>
  BY DEF Loop, DispatchEnd, Tick, SetBack, FdChanges
<1>3. TypeOK'
  <2>1. clock' \in 1 .. MaxTime /\ ready' \in SUBSET Fds /\ now' \in 0 .. MaxTime
        /\ phase' \in {"app", "wait", "sweep", "dispatch"}
    BY <1>1, LoopAssumption DEF TypeOK, Loop, DispatchEnd, Tick, SetBack, FdChanges
  <2> QED BY <1>1, <1>2, <2>1 DEF TypeOK, wheelVars
<1>4. StackOK'
  BY <1>1, <1>2 DEF StackOK
<1>5. ASSUME NEW c \in Co, is_timeout[c]
      PROVE  phase' = phase /\ now' = now
  <2>1. c \in ToSet(active) /\ phase = "dispatch"
    BY <1>1, <1>5 DEF Timed
  <2>2. active # << >>
    BY <2>1, Nothing
  <2> QED BY <2>1, <2>2 DEF Loop, DispatchEnd, Tick, SetBack, FdChanges
<1> QED BY <1>2, <1>3, <1>4, <1>5, QuietInv

\* The running coroutine c begins to wait; its item hangs in the wheel.
LEMMA HangInv ==
  ASSUME Inv, NEW c \in Co, Self = c, NEW e \in Nat \ {0}, NEW t, Hang(c, e, t),
         NEW s \in {"poll", "cond"}, SwitchOut(c, s),
         UNCHANGED <<clock, raise_cnt, active, ready, phase, now, signalled>>
  PROVE  /\ StackOK' /\ Idle' /\ ListsApart' /\ ListsHold' /\ Causes' /\ Timed'
         /\ cond' \in [Conds -> Seq(Co)] /\ polls' \in [Co -> SUBSET Fds]
            /\ reg' \in [Fds -> Co \cup {NoCo}] => TypeOK'
<1>1. TypeOK /\ StackOK
  BY DEF Inv
<1>2. st[c] = "running"
  BY <1>1, SelfRuns
<1>3. /\ StackOK' /\ stack' \in Seq(Co \cup {Main})
      /\ st' \in [Co -> States]
      /\ st'[c] = s /\ \A d \in Co \ {c} : st'[d] = st[d]
  BY <1>1, PopInv DEF States
<1>4. /\ start' = start /\ start_idx' = start_idx
      /\ link' \in [Slots -> Seq(Co)]
      /\ expire_time' = [expire_time EXCEPT ![c] = e]
      /\ is_timeout' = [is_timeout EXCEPT ![c] = FALSE]
      /\ base' = [base EXCEPT ![c] = start]
  BY <1>1, HangsLists
<1>5. PICK h \in Slots :
        /\ ToSet(link'[h]) = ToSet(link[h]) \cup {c}
        /\ c \notin ToSet(link[h]) /\ Uniq(link[h]) => Uniq(link'[h])
        /\ \A r \in Slots \ {h} : link'[r] = link[r]
  BY <1>1, HangsLists
<1>6. expire_time[c] = 0 /\ raise_cnt[c] = 0 /\ is_timeout[c] = FALSE /\ c \notin signalled
  BY <1>2 DEF Inv, Idle, Waiting
<1>7. c \notin ToSet(active) /\ \A r \in Slots : c \notin ToSet(link[r])
  BY <1>2 DEF Inv, ListsHold
<1>8. /\ expire_time'[c] = e /\ is_timeout'[c] = FALSE
      /\ \A d \in Co \ {c} : /\ expire_time'[d] = expire_time[d] /\ is_timeout'[d] = is_timeout[d]
                             /\ base'[d] = base[d]
  BY <1>1, <1>4 DEF TypeOK
<1>9. ASSUME cond' \in [Conds -> Seq(Co)], polls' \in [Co -> SUBSET Fds],
             reg' \in [Fds -> Co \cup {NoCo}]
      PROVE  TypeOK'
  <2>1. /\ expire_time' \in [Co -> Nat] /\ is_timeout' \in [Co -> BOOLEAN]
        /\ base' \in [Co -> Nat]
    BY <1>1, <1>4 DEF TypeOK
  <2> QED BY <1>1, <1>3, <1>4, <1>9, <2>1 DEF TypeOK
<1>10. Idle'
  <2> SUFFICES ASSUME NEW d \in Co, ~Waiting(d)'
               PROVE  /\ expire_time'[d] = 0 /\ base'[d] = 0 /\ raise_cnt'[d] = 0
                      /\ is_timeout'[d] = FALSE /\ d \notin signalled'
    BY DEF Idle
  <2>1. d # c
    BY <1>3 DEF Waiting
  <2>2. ~Waiting(d)
    BY <1>3, <2>1 DEF Waiting
  <2> QED BY <1>8, <2>1, <2>2 DEF Inv, Idle
<1>11. ListsApart'
  <2>1. \A r \in Slots : Uniq(link'[r]) /\ ToSet(active') \cap ToSet(link'[r]) = {}
    BY <1>5, <1>7 DEF Inv, ListsApart
  <2>2. \A q, r \in Slots : q # r => ToSet(link'[q]) \cap ToSet(link'[r]) = {}
    BY <1>5, <1>7 DEF Inv, ListsApart
  <2> QED BY <2>1, <2>2 DEF Inv, ListsApart
<1>12. ListsHold'
  <2> SUFFICES ASSUME NEW d \in Co
               PROVE  d \in ToSet(active) \cup UNION {ToSet(link'[r]) : r \in Slots}
                      <=> \/ st'[d] = "poll"
                          \/ st'[d] = "cond" /\ (expire_time'[d] # 0 \/ d \in signalled)
    BY DEF ListsHold
  <2>1. CASE d = c
    BY <1>3, <1>5, <1>8, <2>1
  <2>2. CASE d # c
    <3>1. d \in UNION {ToSet(link'[r]) : r \in Slots} <=> d \in UNION {ToSet(link[r]) : r \in Slots}
      BY <1>5, <2>2
    <3> QED BY <1>3, <1>8, <2>2, <3>1 DEF Inv, ListsHold
  <2> QED BY <2>1, <2>2
<1>13. Causes'
  <2>1. \A r \in Slots : \A d \in ToSet(link'[r]) : expire_time'[d] # 0 /\ is_timeout'[d] = FALSE
    <3> SUFFICES ASSUME NEW r \in Slots, NEW d \in ToSet(link'[r])
                 PROVE  expire_time'[d] # 0 /\ is_timeout'[d] = FALSE
      OBVIOUS
    <3>1. CASE d = c
      BY <1>8, <3>1
    <3>2. CASE d # c
      <4>1. d \in ToSet(link[r])
        BY <1>5, <3>2
      <4>2. d \in Co
        BY <1>1, <4>1, Members DEF TypeOK
      <4> QED BY <1>8, <3>2, <4>1, <4>2 DEF Inv, Causes
    <3> QED BY <3>1, <3>2
  <2>2. \A d \in ToSet(active) : d \in Co /\ d # c
    BY <1>1, <1>7, Members DEF TypeOK
  <2>3. \A d \in ToSet(active) : raise_cnt[d] > 0 \/ d \in signalled \/ is_timeout'[d]
    BY <1>8, <2>2 DEF Inv, Causes
  <2> QED BY <2>1, <2>3 DEF Causes
<1>14. Timed'
  BY <1>4, <1>8 DEF Inv, Timed
<1> QED BY <1>3, <1>9, <1>10, <1>11, <1>12, <1>13, <1>14

\* CoPoll, with and without success of its timer,
LEMMA CoPollInv ==
  ASSUME Inv, NEW c \in Co, NEW F \in SUBSET Fds, NEW timeout \in Timeouts \cup {-1},
         CoPoll(c, F, timeout)
  PROVE  Inv'
<1> DEFINE expire == clock + (IF timeout < 0 THEN IntMax ELSE timeout)
<1>1. TypeOK /\ StackOK /\ Self = c /\ RegisteredIsLive
  BY DEF Inv, CoPoll
<1>2. expire \in Nat \ {0}
  BY <1>1, LoopAssumption DEF TypeOK
<1>3. UNCHANGED <<clock, cond, raise_cnt, active, ready, phase, now, signalled>>
  BY DEF CoPoll
<1>4. CASE CanHang(clock)
  <2>1. /\ reg' = [f \in Fds |-> IF f \in F /\ reg[f] = NoCo THEN c ELSE reg[f]]
        /\ Hang(c, expire, clock)
        /\ polls' = [polls EXCEPT ![c] = F]
        /\ SwitchOut(c, "poll")
    BY <1>4 DEF CoPoll
  <2> HIDE DEF expire
  <2>2. /\ StackOK' /\ Idle' /\ ListsApart' /\ ListsHold' /\ Causes' /\ Timed'
        /\ cond' \in [Conds -> Seq(Co)] /\ polls' \in [Co -> SUBSET Fds]
           /\ reg' \in [Fds -> Co \cup {NoCo}] => TypeOK'
    BY <1>1, <1>2, <1>3, <2>1, HangInv
  <2>3. TypeOK'
    BY <1>1, <1>3, <2>1, <2>2 DEF TypeOK
  <2>4. /\ st[c] = "running" /\ st'[c] = "poll" /\ \A d \in Co \ {c} : st'[d] = st[d]
    BY <1>1, <2>1, PopInv, SelfRuns DEF States
  <2>5. CondsApart' /\ CondsHold'
    <3>1. CondsHold'
      <4> SUFFICES ASSUME NEW d \in Co
                   PROVE  d \in UNION {ToSet(cond[v]) : v \in Conds}
                          <=> st'[d] = "cond" /\ d \notin signalled
        BY <1>3 DEF CondsHold
      <4> QED BY <2>4 DEF Inv, CondsHold
    <3> QED BY <1>3, <3>1 DEF Inv, CondsApart
  <2>6. RegisteredIsLive'
    <3> SUFFICES ASSUME NEW f \in Fds, reg'[f] # NoCo
                 PROVE  st'[reg'[f]] = "poll" /\ f \in polls'[reg'[f]]
      BY DEF RegisteredIsLive
    <3>1. CASE reg'[f] = c
      <4>1. f \in F
        BY <1>1, <2>1, <2>4, <3>1 DEF RegisteredIsLive, TypeOK
      <4> QED BY <1>1, <2>1, <2>4, <3>1, <4>1 DEF TypeOK
    <3>2. CASE reg'[f] # c
      <4>1. reg'[f] = reg[f] /\ reg[f] \in Co \ {c}
        BY <1>1, <2>1, <3>2 DEF TypeOK
      <4> QED BY <1>1, <2>1, <2>4, <4>1 DEF RegisteredIsLive, TypeOK
    <3> QED BY <3>1, <3>2
  <2> QED BY <2>2, <2>3, <2>5, <2>6 DEF Inv
<1>5. CASE ~CanHang(clock)
  <2>1. /\ reg' = [f \in Fds |-> IF f \in F THEN NoCo ELSE reg[f]]
        /\ UNCHANGED <<polls, stack, st, wheelVars>>
    BY <1>5 DEF CoPoll
  <2>2. TypeOK'
    BY <1>1, <1>3, <2>1 DEF TypeOK, wheelVars
  <2>3. StackOK' /\ Idle' /\ ListsApart' /\ CondsApart' /\ Causes' /\ Timed'
    BY <1>3, <2>1 DEF Inv, StackOK, Idle, Waiting, ListsApart, CondsApart, Causes, Timed, wheelVars
  <2>4. ListsHold'
    BY <1>3, <2>1 DEF Inv, ListsHold, wheelVars
  <2>5. CondsHold'
    BY <1>3, <2>1 DEF Inv, CondsHold
  <2>6. RegisteredIsLive'
    BY <1>1, <2>1 DEF RegisteredIsLive
  <2> QED BY <2>2, <2>3, <2>4, <2>5, <2>6 DEF Inv
<1> QED BY <1>4, <1>5

\* CoCondTimewait, with and without a timer,
LEMMA CoCondTimewaitInv ==
  ASSUME Inv, NEW c \in Co, NEW v \in Conds, NEW timeout \in Timeouts \cup {0},
         CoCondTimewait(c, v, timeout)
  PROVE  Inv'
<1>1. TypeOK /\ StackOK /\ Self = c /\ SwitchOut(c, "cond")
  BY DEF Inv, CoCondTimewait
<1>2. /\ cond' = [cond EXCEPT ![v] = Append(@, c)]
      /\ UNCHANGED <<clock, polls, raise_cnt, active, reg, ready, phase, now, signalled>>
  BY DEF CoCondTimewait
<1>3. /\ StackOK' /\ stack' \in Seq(Co \cup {Main})
      /\ st' \in [Co -> States]
      /\ st[c] = "running" /\ st'[c] = "cond" /\ \A d \in Co \ {c} : st'[d] = st[d]
  BY <1>1, PopInv, SelfRuns DEF States
<1>4. c \notin signalled /\ \A w \in Conds : c \notin ToSet(cond[w])
  BY <1>3 DEF Inv, Idle, Waiting, CondsHold
<1>5. cond[v] \in Seq(Co) /\ Uniq(cond[v])
  BY DEF Inv, TypeOK, CondsApart
<1>6. /\ cond'[v] = Append(cond[v], c)
      /\ \A w \in Conds \ {v} : cond'[w] = cond[w]
  BY <1>1, <1>2 DEF TypeOK
<1>7. cond'[v] \in Seq(Co) /\ ToSet(cond'[v]) = ToSet(cond[v]) \cup {c} /\ Uniq(cond'[v])
  BY <1>4, <1>5, <1>6, Appended
<1>8. cond' \in [Conds -> Seq(Co)]
  BY <1>1, <1>2, <1>6, <1>7 DEF TypeOK
<1>9. CondsApart'
  <2>1. \A w \in Conds : Uniq(cond'[w])
    BY <1>6, <1>7 DEF Inv, CondsApart
  <2>2. ASSUME NEW u \in Conds, NEW w \in Conds, u # w
        PROVE  ToSet(cond'[u]) \cap ToSet(cond'[w]) = {}
    <3>1. ToSet(cond[u]) \cap ToSet(cond[w]) = {}
      BY <2>2 DEF Inv, CondsApart
    <3>2. CASE u = v
      BY <1>4, <1>6, <1>7, <2>2, <3>1, <3>2
    <3>3. CASE w = v
      BY <1>4, <1>6, <1>7, <2>2, <3>1, <3>3
    <3>4. CASE u # v /\ w # v
      BY <1>6, <3>1, <3>4
    <3> QED BY <3>2, <3>3, <3>4
  <2> QED BY <2>1, <2>2 DEF CondsApart
<1>10. CondsHold'
  <2> SUFFICES ASSUME NEW d \in Co
               PROVE  d \in UNION {ToSet(cond'[w]) : w \in Conds}
                      <=> st'[d] = "cond" /\ d \notin signalled
    BY <1>2 DEF CondsHold
  <2>1. CASE d = c
    BY <1>3, <1>4, <1>7, <2>1
  <2>2. CASE d # c
    <3>1. d \in UNION {ToSet(cond'[w]) : w \in Conds} <=> d \in UNION {ToSet(cond[w]) : w \in Conds}
      BY <1>6, <1>7, <2>2
    <3> QED BY <1>3, <2>2, <3>1 DEF Inv, CondsHold
  <2> QED BY <2>1, <2>2
<1>11. RegisteredIsLive'
  <2> SUFFICES ASSUME NEW f \in Fds, reg[f] # NoCo
               PROVE  st'[reg[f]] = "poll" /\ f \in polls[reg[f]]
    BY <1>2 DEF RegisteredIsLive
  <2>1. reg[f] \in Co /\ st[reg[f]] = "poll" /\ f \in polls[reg[f]]
    BY DEF Inv, TypeOK, RegisteredIsLive
  <2> QED BY <1>3, <2>1
<1>12. CASE timeout > 0
  <2>1. Hang(c, clock + timeout, clock) /\ clock + timeout \in Nat \ {0}
    BY <1>1, <1>12, LoopAssumption DEF CoCondTimewait, TypeOK
  <2>2. /\ StackOK' /\ Idle' /\ ListsApart' /\ ListsHold' /\ Causes' /\ Timed'
        /\ cond' \in [Conds -> Seq(Co)] /\ polls' \in [Co -> SUBSET Fds]
           /\ reg' \in [Fds -> Co \cup {NoCo}] => TypeOK'
    BY <1>1, <1>2, <2>1, HangInv
  <2>3. TypeOK'
    BY <1>1, <1>2, <1>8, <2>2 DEF TypeOK
  <2> QED BY <1>9, <1>10, <1>11, <2>2, <2>3 DEF Inv
<1>13. CASE ~(timeout > 0)
  <2>1. UNCHANGED wheelVars
    BY <1>13 DEF CoCondTimewait
  <2>2. TypeOK'
    BY <1>1, <1>2, <1>3, <1>8, <2>1 DEF TypeOK, wheelVars
  <2>3. Idle'
    BY <1>2, <1>3, <2>1 DEF Inv, Idle, Waiting, wheelVars
  <2>4. ListsApart' /\ Causes' /\ Timed'
    BY <1>2, <2>1 DEF Inv, ListsApart, Causes, Timed, wheelVars
  <2>5. ListsHold'
    <3> SUFFICES ASSUME NEW d \in Co
                 PROVE  d \in ToSet(active) \cup UNION {ToSet(link[r]) : r \in Slots}
                        <=> \/ st'[d] = "poll"
                            \/ st'[d] = "cond" /\ (expire_time[d] # 0 \/ d \in signalled)
      BY <1>2, <2>1 DEF ListsHold, wheelVars
    <3>1. expire_time[c] = 0
      BY <1>3 DEF Inv, Idle, Waiting
    <3> QED BY <1>3, <1>4, <3>1 DEF Inv, ListsHold
  <2> QED BY <1>3, <1>9, <1>10, <1>11, <2>2, <2>3, <2>4, <2>5 DEF Inv
<1> QED BY <1>12, <1>13

\* CoCondSignal and CoCondBroadcast wake the waiters ds of v and leave the
\* waiters rest.
LEMMA WakeInv ==
  ASSUME Inv, NEW v \in Conds, NEW ds \in Seq(Co), NEW rest \in Seq(Co),
         Uniq(ds), Uniq(rest), ToSet(ds) \cap ToSet(rest) = {},
         ToSet(cond[v]) = ToSet(ds) \cup ToSet(rest),
         cond' = [cond EXCEPT ![v] = rest],
         link' = Unhang(ToSet(ds)), active' = ToActive(ds),
         signalled' = signalled \cup ToSet(ds),
         UNCHANGED <<clock, stack, st, polls, raise_cnt, start, start_idx, expire_time,
                     is_timeout, base, reg, ready, phase, now>>
  PROVE  Inv'
<1>1. TypeOK /\ ListsApart
  BY DEF Inv
<1>2. PICK S : S = ToSet(ds)
  OBVIOUS
<1>3. S \subseteq Co
  BY <1>2, Members
<1>4. /\ link' \in [Slots -> Seq(Co)]
      /\ active' \in Seq(Co)
      /\ ListsApart'
      /\ ToSet(active') = ToSet(active) \cup S
      /\ \A s \in Slots : ToSet(link'[s]) = ToSet(link[s]) \ S
  BY <1>1, <1>2, WakesLists
<1>5. /\ cond'[v] = rest
      /\ \A w \in Conds \ {v} : cond'[w] = cond[w]
      /\ cond' \in [Conds -> Seq(Co)]
  BY <1>1 DEF TypeOK
<1>6. TypeOK'
  BY <1>1, <1>2, <1>3, <1>4, <1>5 DEF TypeOK
<1>7. \A d \in S : st[d] = "cond" /\ d \notin signalled
  BY <1>2, <1>3 DEF Inv, CondsHold
<1>8. Idle'
  BY <1>2, <1>7 DEF Inv, Idle, Waiting
<1>9. StackOK' /\ RegisteredIsLive'
  BY DEF Inv, StackOK, RegisteredIsLive
<1>10. ListsHold'
  <2> SUFFICES ASSUME NEW d \in Co
               PROVE  d \in ToSet(active') \cup UNION {ToSet(link'[r]) : r \in Slots}
                      <=> \/ st[d] = "poll"
                          \/ st[d] = "cond" /\ (expire_time[d] # 0 \/ d \in signalled')
    BY DEF ListsHold
  <2>1. CASE d \in S
    BY <1>2, <1>4, <1>7, <2>1
  <2>2. CASE d \notin S
    <3>1. d \in UNION {ToSet(link'[r]) : r \in Slots} <=> d \in UNION {ToSet(link[r]) : r \in Slots}
      BY <1>4, <2>2
    <3> QED BY <1>2, <1>4, <2>2, <3>1 DEF Inv, ListsHold
  <2> QED BY <2>1, <2>2
<1>11. CondsApart'
  <2>1. ToSet(rest) \subseteq ToSet(cond[v])
    OBVIOUS
  <2>2. \A w \in Conds : Uniq(cond'[w])
    BY <1>5 DEF Inv, CondsApart
  <2>3. \A u, w \in Conds : u # w => ToSet(cond'[u]) \cap ToSet(cond'[w]) = {}
    BY <1>5, <2>1 DEF Inv, CondsApart
  <2> QED BY <2>2, <2>3 DEF CondsApart
<1>12. CondsHold'
  <2> SUFFICES ASSUME NEW d \in Co
               PROVE  d \in UNION {ToSet(cond'[w]) : w \in Conds}
                      <=> st[d] = "cond" /\ d \notin signalled'
    BY DEF CondsHold
  <2>1. CASE d \in S
    <3>1. d \in ToSet(cond[v]) /\ d \notin ToSet(rest)
      BY <1>2, <2>1
    <3>2. \A w \in Conds : d \notin ToSet(cond'[w])
      BY <1>5, <3>1 DEF Inv, CondsApart
    <3> QED BY <1>2, <2>1, <3>2
  <2>2. CASE d \notin S
    <3>1. \A w \in Conds : d \in ToSet(cond'[w]) <=> d \in ToSet(cond[w])
      BY <1>2, <1>5, <2>2
    <3> QED BY <1>2, <2>2, <3>1 DEF Inv, CondsHold
  <2> QED BY <2>1, <2>2
<1>13. Causes'
  BY <1>2, <1>4 DEF Inv, Causes
<1>14. Timed'
  BY <1>4 DEF Inv, Timed
<1> QED BY <1>4, <1>6, <1>8, <1>9, <1>10, <1>11, <1>12, <1>13, <1>14 DEF Inv

\* The two are alike: a signal wakes the head and leaves the tail, a broadcast
\* wakes all.
LEMMA SignalIs ==
  ASSUME Inv, NEW v \in Conds, CoCondSignal(v) \/ CoCondBroadcast(v)
  PROVE  \E ds \in Seq(Co), rest \in Seq(Co) :
           /\ Uniq(ds) /\ Uniq(rest) /\ ToSet(ds) \cap ToSet(rest) = {}
           /\ ToSet(cond[v]) = ToSet(ds) \cup ToSet(rest)
           /\ cond' = [cond EXCEPT ![v] = rest]
           /\ link' = Unhang(ToSet(ds)) /\ active' = ToActive(ds)
           /\ signalled' = signalled \cup ToSet(ds)
           /\ UNCHANGED <<clock, stack, st, polls, raise_cnt, start, start_idx, expire_time,
                          is_timeout, base, reg, ready, phase, now>>
<1>1. cond[v] \in Seq(Co) /\ Uniq(cond[v])
  BY DEF Inv, TypeOK, CondsApart
<1>2. CASE CoCondSignal(v)
  <2>1. PICK d : d = Head(cond[v])
    OBVIOUS
  <2>2. PICK rest : rest = Tail(cond[v])
    OBVIOUS
  <2>3. cond[v] # << >>
    BY <1>2 DEF CoCondSignal
  <2>4. /\ d \in Co /\ d \in ToSet(cond[v]) /\ rest \in Seq(Co) /\ Uniq(rest)
        /\ ToSet(rest) = ToSet(cond[v]) \ {d}
    BY <1>1, <2>1, <2>2, <2>3, Tailed
  <2>5. <<d>> \in Seq(Co) /\ ToSet(<<d>>) = {d} /\ Uniq(<<d>>)
    BY <2>4, Single
  <2>6. /\ cond' = [cond EXCEPT ![v] = rest]
        /\ link' = Unhang({d}) /\ active' = ToActive(<<d>>)
        /\ signalled' = signalled \cup {d}
        /\ UNCHANGED <<clock, stack, st, polls, raise_cnt, start, start_idx, expire_time,
                       is_timeout, base, reg, ready, phase, now>>
    BY <1>2, <2>1, <2>2 DEF CoCondSignal
  <2>7. PICK ds : ds = <<d>>
    OBVIOUS
  <2>8. /\ ds \in Seq(Co) /\ ToSet(ds) = {d} /\ Uniq(ds) /\ active' = ToActive(ds)
    BY <2>5, <2>6, <2>7, Zenon
  <2>9. {d} \cap ToSet(rest) = {} /\ ToSet(cond[v]) = {d} \cup ToSet(rest)
    BY <2>4
  <2> QED BY <2>4, <2>6, <2>8, <2>9, Zenon
<1>3. CASE CoCondBroadcast(v)
  <2>1. PICK ds : ds = cond[v]
    OBVIOUS
  <2>2. PICK rest : rest = << >>
    OBVIOUS
  <2>3. rest \in Seq(Co) /\ ToSet(rest) = {} /\ Uniq(rest)
    BY <2>2, Nothing, Zenon
  <2>4. /\ cond' = [cond EXCEPT ![v] = rest]
        /\ link' = Unhang(ToSet(ds)) /\ active' = ToActive(ds)
        /\ signalled' = signalled \cup ToSet(ds)
        /\ UNCHANGED <<clock, stack, st, polls, raise_cnt, start, start_idx, expire_time,
                       is_timeout, base, reg, ready, phase, now>>
    BY <1>3, <2>1, <2>2, Zenon DEF CoCondBroadcast
  <2>5. ToSet(ds) \cap ToSet(rest) = {} /\ ToSet(cond[v]) = ToSet(ds) \cup ToSet(rest)
    BY <2>1, <2>3
  <2>6. ds \in Seq(Co) /\ Uniq(ds)
    BY <1>1, <2>1
  <2> QED BY <2>3, <2>4, <2>5, <2>6, Zenon
<1> QED BY <1>2, <1>3

\* CoCondSignal and CoCondBroadcast,
LEMMA SignalInv ==
  ASSUME Inv, NEW v \in Conds, CoCondSignal(v) \/ CoCondBroadcast(v)
  PROVE  Inv'
BY SignalIs, WakeInv

\* The prepare callbacks are called in some order, once for each item.
LEMMA Ordered ==
  ASSUME NEW T \in SUBSET Co, NEW q \in SetToSeqs(T)
  PROVE  q \in Seq(Co) /\ Uniq(q) /\ ToSet(q) \subseteq T
<1>1. IsFiniteSet(T)
  BY LoopAssumption, FS_Subset
<1>2. PICK n \in Nat : n = Cardinality(T)
  BY <1>1, FS_CardinalityType
<1>3. q \in [1 .. n -> T] /\ \A i, j \in 1 .. n : i # j => q[i] # q[j]
  BY <1>2 DEF SetToSeqs
<1>4. q \in Seq(T) /\ Len(q) = n
  BY <1>3
<1>5. ToSet(q) \subseteq T
  BY <1>4, Members
<1>6. q \in Seq(Co)
  BY <1>3, <1>4
<1> QED BY <1>3, <1>4, <1>5, <1>6 DEF Uniq

\* What epoll_wait and OnPollPrepare do: an event counts for a poll in progress
\* only.
LEMMA EpollWaitIs ==
  ASSUME Inv, EpollWait
  PROVE  \E fresh \in Seq(Co) :
           /\ Uniq(fresh)
           /\ link' = Unhang(ToSet(fresh)) /\ active' = ToActive(fresh)
           /\ \A d \in ToSet(fresh) : st[d] = "poll" /\ raise_cnt'[d] > 0
           /\ raise_cnt' \in [Co -> Nat]
           /\ \A d \in Co : raise_cnt'[d] >= raise_cnt[d]
           /\ \A d \in Co : st[d] # "poll" => raise_cnt'[d] = raise_cnt[d]
<1> DEFINE events == {f \in ready : reg[f] # NoCo}
           mine(d) == {f \in events : reg[f] = d}
           T == {d \in {reg[f] : f \in events} : raise_cnt[d] = 0}
<1>1. TypeOK /\ RegisteredIsLive
  BY DEF Inv
<1>2. \A d \in T : d \in Co /\ st[d] = "poll" /\ mine(d) # {}
  BY <1>1 DEF TypeOK, RegisteredIsLive
<1>3. \A d : IsFiniteSet(mine(d)) /\ Cardinality(mine(d)) \in Nat
             /\ (mine(d) # {} <=> Cardinality(mine(d)) # 0)
  <2> SUFFICES ASSUME NEW d
               PROVE  IsFiniteSet(mine(d)) /\ Cardinality(mine(d)) \in Nat
                      /\ (mine(d) # {} <=> Cardinality(mine(d)) # 0)
    OBVIOUS
  <2>1. mine(d) \subseteq Fds
    BY <1>1 DEF TypeOK
  <2>2. PICK M : M = mine(d)
    OBVIOUS
  <2>3. IsFiniteSet(M)
    BY <2>1, <2>2, LoopAssumption, FS_Subset
  <2>4. Cardinality(M) \in Nat /\ (Cardinality(M) = 0 <=> M = {})
    BY <2>3, FS_CardinalityType, FS_EmptySet
  <2> QED BY <2>2, <2>3, <2>4
<1>4. \A d \in Co : st[d] # "poll" => mine(d) = {}
  BY <1>1 DEF RegisteredIsLive, TypeOK
<1>5. \E fresh \in SetToSeqs(T) : link' = Unhang(ToSet(fresh)) /\ active' = ToActive(fresh)
  BY DEF EpollWait
<1>6. raise_cnt' = [d \in Co |-> raise_cnt[d] + Cardinality(mine(d))]
  BY DEF EpollWait
<1>7. raise_cnt \in [Co -> Nat]
  BY <1>1 DEF TypeOK
<1> HIDE DEF mine, T
<1>8. PICK fresh \in SetToSeqs(T) : link' = Unhang(ToSet(fresh)) /\ active' = ToActive(fresh)
  BY <1>5
<1>9. fresh \in Seq(Co) /\ Uniq(fresh) /\ ToSet(fresh) \subseteq T
  BY <1>2, <1>8, Ordered
<1>10. raise_cnt' \in [Co -> Nat]
  BY <1>3, <1>6, <1>7
<1>11. \A d \in Co : raise_cnt'[d] >= raise_cnt[d]
  BY <1>3, <1>6, <1>7
<1>12. \A d \in Co : mine(d) # {} => raise_cnt'[d] > 0
  BY <1>3, <1>6, <1>7
<1>13. ASSUME NEW d \in Co, st[d] # "poll" PROVE raise_cnt'[d] = raise_cnt[d]
  <2>1. Cardinality(mine(d)) = 0
    BY <1>3, <1>4, <1>13
  <2> QED BY <1>6, <1>7, <2>1
<1> QED BY <1>2, <1>8, <1>9, <1>10, <1>11, <1>12, <1>13

\* EpollWait,
LEMMA EpollWaitInv ==
  ASSUME Inv, EpollWait
  PROVE  Inv'
<1>1. TypeOK /\ ListsApart
  BY DEF Inv
<1>2. PICK fresh \in Seq(Co) :
        /\ Uniq(fresh)
        /\ link' = Unhang(ToSet(fresh)) /\ active' = ToActive(fresh)
        /\ \A d \in ToSet(fresh) : st[d] = "poll" /\ raise_cnt'[d] > 0
        /\ raise_cnt' \in [Co -> Nat]
        /\ \A d \in Co : raise_cnt'[d] >= raise_cnt[d]
        /\ \A d \in Co : st[d] # "poll" => raise_cnt'[d] = raise_cnt[d]
  BY EpollWaitIs
<1>3. PICK S : S = ToSet(fresh)
  OBVIOUS
<1>4. /\ link' \in [Slots -> Seq(Co)]
      /\ active' \in Seq(Co)
      /\ ListsApart'
      /\ ToSet(active') = ToSet(active) \cup S
      /\ \A s \in Slots : ToSet(link'[s]) = ToSet(link[s]) \ S
  BY <1>1, <1>2, <1>3, WakesLists
<1>5. /\ phase = "wait" /\ phase' = "sweep"
      /\ UNCHANGED <<clock, stack, st, cond, polls, start, start_idx, expire_time,
                     is_timeout, base, reg, ready, now, signalled>>
  BY DEF EpollWait
<1>6. TypeOK'
  BY <1>1, <1>2, <1>4, <1>5 DEF TypeOK
<1>7. StackOK' /\ RegisteredIsLive' /\ CondsApart'
  BY <1>5 DEF Inv, StackOK, RegisteredIsLive, CondsApart
<1>8. CondsHold'
  BY <1>5 DEF Inv, CondsHold
<1>9. Idle'
  BY <1>2, <1>5 DEF Inv, Idle, Waiting
<1>10. ListsHold'
  <2> SUFFICES ASSUME NEW d \in Co
               PROVE  d \in ToSet(active') \cup UNION {ToSet(link'[r]) : r \in Slots}
                      <=> \/ st[d] = "poll"
                          \/ st[d] = "cond" /\ (expire_time[d] # 0 \/ d \in signalled)
    BY <1>5 DEF ListsHold
  <2>1. CASE d \in S
    BY <1>2, <1>3, <1>4, <2>1
  <2>2. CASE d \notin S
    <3>1. d \in UNION {ToSet(link'[r]) : r \in Slots} <=> d \in UNION {ToSet(link[r]) : r \in Slots}
      BY <1>4, <2>2
    <3> QED BY <1>4, <2>2, <3>1 DEF Inv, ListsHold
  <2> QED BY <2>1, <2>2
<1>11. Causes'
  <2>1. \A s \in Slots : \A c \in ToSet(link'[s]) : expire_time'[c] # 0 /\ is_timeout'[c] = FALSE
    BY <1>4, <1>5 DEF Inv, Causes
  <2>2. ASSUME NEW c \in ToSet(active')
        PROVE  raise_cnt'[c] > 0 \/ c \in signalled \/ is_timeout[c]
    <3>1. CASE c \in S
      BY <1>2, <1>3, <3>1
    <3>2. CASE c \in ToSet(active)
      <4>1. c \in Co
        BY <1>1, <3>2, Members DEF TypeOK
      <4>2. raise_cnt[c] > 0 \/ c \in signalled \/ is_timeout[c]
        BY <3>2 DEF Inv, Causes
      <4>3. raise_cnt[c] \in Nat /\ raise_cnt'[c] \in Nat /\ raise_cnt'[c] >= raise_cnt[c]
        BY <1>1, <1>2, <4>1 DEF TypeOK
      <4> QED BY <4>2, <4>3
    <3> QED BY <1>4, <2>2, <3>1, <3>2
  <2> QED BY <1>5, <2>1, <2>2 DEF Causes
<1>12. Timed'
  BY <1>5 DEF Inv, Timed
<1> QED BY <1>4, <1>6, <1>7, <1>8, <1>9, <1>10, <1>11, <1>12 DEF Inv

\* Two of the slots that a sweep takes are never the same.
LEMMA SweptApart ==
  ASSUME NEW idx \in Nat, NEW i \in 0 .. slot_size - 1, NEW j \in 0 .. slot_size - 1
  PROVE  /\ (idx + i) % slot_size \in Slots
         /\ (idx + i) % slot_size = (idx + j) % slot_size => i = j
<1>1. i \in Turning!Slots /\ j \in Turning!Slots /\ idx \in Int
  BY WheelAssumed DEF Slots
<1>2. (idx + i) % slot_size \in Turning!Slots /\ (((idx + i) % slot_size) - idx) % slot_size = i
  BY <1>1, WheelAssumed, Turning!SlotAfter
<1>3. (((idx + j) % slot_size) - idx) % slot_size = j
  BY <1>1, WheelAssumed, Turning!SlotAfter
<1> QED BY <1>2, <1>3, WheelAssumed

\* How many slots it takes.
LEMMA CountInRange ==
  ASSUME TypeOK, clock >= start
  PROVE  Wheel!SweepCount(start, clock) \in 1 .. slot_size
<1>1. clock - start + 1 \in 1 .. IntMax
  BY LoopAssumption DEF TypeOK
<1>2. PICK n \in 1 .. IntMax : n = clock - start + 1
  BY <1>1
<1>3. Turning!ToInt(n) = n
  BY WheelAssumed, Turning!ToIntSmall
<1>4. Wheel!ToInt(n) = n
  BY <1>3 DEF Turning!ToInt, Wheel!ToInt
<1>5. Wheel!SweepCount(start, clock) = IF n > slot_size THEN slot_size ELSE n
  BY <1>2, <1>4 DEF Wheel!SweepCount
<1> QED BY <1>5, WheelAssumed

\* What a sweep does when the clock is not behind.
LEMMA SweepIs ==
  ASSUME TypeOK, ListsApart, Sweep, clock >= start
  PROVE  \E out \in Seq(Co) :
           /\ Uniq(out)
           /\ ToSet(out) = UNION {ToSet(link[s]) : s \in Wheel!Swept(start, start_idx, clock)}
           /\ Wheel!Swept(start, start_idx, clock) \subseteq Slots
           /\ active' = active \o out
           /\ is_timeout' = [c \in Co |-> is_timeout[c] \/ c \in ToSet(out)]
           /\ link' = Unhang(ToSet(out))
           /\ start' = clock
           /\ start_idx' = start_idx + Wheel!SweepCount(start, clock) - 1
<1>1. PICK n \in 1 .. slot_size : n = Wheel!SweepCount(start, clock)
  BY CountInRange
<1>2. Wheel!StartAt(clock) = start /\ Wheel!IdxAt(clock) = start_idx
  BY StartedAt
<1>3. PICK qs : qs = [k \in 1 .. n |-> link[(start_idx + k - 1) % slot_size]]
  OBVIOUS
<1>4. PICK out : out = FlattenSeq(qs)
  OBVIOUS
<1>5. /\ active' = active \o out
      /\ is_timeout' = [c \in Co |-> is_timeout[c] \/ Contains(out, c)]
      /\ link' = Unhang(ToSet(out))
      /\ start' = clock
      /\ start_idx' = start_idx + n - 1
  <2>1. /\ Sweep /\ ~(clock < start)
    BY DEF TypeOK
  <2> QED BY <1>1, <1>2, <1>3, <1>4, <2>1, Zenon DEF Sweep
<1>6. n \in Nat \ {0} /\ slot_size \in Nat \ {0} /\ start_idx \in Nat /\ link \in [Slots -> Seq(Co)]
  BY WheelAssumed DEF TypeOK
<1> DEFINE slot(k) == (start_idx + k) % slot_size
<1>7. \A k \in 1 .. n : qs[k] = link[slot(k - 1)]
  <2>1. \A k \in 1 .. n : start_idx + k - 1 = start_idx + (k - 1)
    BY <1>6
  <2> QED BY <1>3, <2>1
<1>8. \A k \in 1 .. n : k - 1 \in 0 .. slot_size - 1
  BY <1>6
<1>9. \A k \in 1 .. n : slot(k - 1) \in Slots
  BY <1>6, <1>8, SweptApart
<1>10. \A j, k \in 1 .. n : j # k => slot(j - 1) # slot(k - 1)
  <2> SUFFICES ASSUME NEW j \in 1 .. n, NEW k \in 1 .. n, slot(j - 1) = slot(k - 1) PROVE j = k
    OBVIOUS
  <2>1. PICK a \in 0 .. slot_size - 1 : a = j - 1
    BY <1>8
  <2>2. PICK b \in 0 .. slot_size - 1 : b = k - 1
    BY <1>8
  <2>3. a = b
    BY <1>6, <2>1, <2>2, SweptApart
  <2> QED BY <2>1, <2>2, <2>3
<1>11. Wheel!Swept(start, start_idx, clock) = {slot(k - 1) : k \in 1 .. n}
  <2>1. Wheel!Swept(start, start_idx, clock) = {slot(k) : k \in 0 .. n - 1}
    BY <1>1 DEF Wheel!Swept
  <2>2. \A k \in 0 .. n - 1 : k + 1 \in 1 .. n /\ (k + 1) - 1 = k
    BY <1>6
  <2>3. \A k \in 1 .. n : k - 1 \in 0 .. n - 1
    BY <1>6
  <2> HIDE DEF slot
  <2> QED BY <2>1, <2>2, <2>3
<1> HIDE DEF slot
<1>12. Len(qs) = n /\ \A k \in 1 .. n : qs[k] \in Seq(Co)
  <2>1. \A k \in 1 .. n : qs[k] \in Seq(Co)
    BY <1>6, <1>7, <1>9
  <2>2. qs \in [1 .. n -> Seq(Co)]
    BY <1>3, <2>1
  <2> QED BY <1>6, <2>1, <2>2
<1>13. /\ \A k \in 1 .. n : Uniq(qs[k])
       /\ \A i, j \in 1 .. n : i # j => ToSet(qs[i]) \cap ToSet(qs[j]) = {}
  BY <1>7, <1>9, <1>10 DEF ListsApart
<1>14. /\ out \in Seq(Co)
       /\ ToSet(out) = UNION {ToSet(qs[k]) : k \in 1 .. n}
       /\ Uniq(out)
  BY <1>4, <1>6, <1>12, <1>13, FlattenIs
<1>15. ToSet(out) = UNION {ToSet(link[s]) : s \in Wheel!Swept(start, start_idx, clock)}
  <2>1. UNION {ToSet(qs[k]) : k \in 1 .. n} = UNION {ToSet(link[slot(k - 1)]) : k \in 1 .. n}
    BY <1>7
  <2> QED BY <1>11, <1>14, <2>1
<1>16. is_timeout' = [c \in Co |-> is_timeout[c] \/ c \in ToSet(out)]
  <2>1. \A c : Contains(out, c) <=> c \in ToSet(out)
    BY <1>14, Members
  <2> QED BY <1>5, <2>1
<1>17. Wheel!Swept(start, start_idx, clock) \subseteq Slots
  BY <1>9, <1>11
<1> QED BY <1>1, <1>5, <1>14, <1>15, <1>16, <1>17, Zenon

\* Its effect on the lists.
LEMMA SweepLists ==
  ASSUME TypeOK, ListsApart, NEW out \in Seq(Co), NEW W \in SUBSET Slots, Uniq(out),
         ToSet(out) = UNION {ToSet(link[s]) : s \in W},
         active' = active \o out, link' = Unhang(ToSet(out))
  PROVE  /\ link' \in [Slots -> Seq(Co)]
         /\ active' \in Seq(Co)
         /\ ListsApart'
         /\ ToSet(active') = ToSet(active) \cup ToSet(out)
         /\ \A s \in Slots : ToSet(link'[s]) = IF s \in W THEN {} ELSE ToSet(link[s])
<1>1. PICK O : O = ToSet(out)
  OBVIOUS
<1>2. active \in Seq(Co) /\ Uniq(active)
  BY DEF TypeOK, ListsApart
<1>3. ToSet(active) \cap O = {}
  BY <1>1 DEF ListsApart
<1>4. active' \in Seq(Co) /\ ToSet(active') = ToSet(active) \cup O /\ Uniq(active')
  BY <1>1, <1>2, <1>3, Joined
<1>5. link' \in [Slots -> Seq(Co)]
  BY UnhangIs
<1>6. \A s \in Slots : ToSet(link'[s]) = ToSet(link[s]) \ O /\ Uniq(link'[s])
  <2>1. \A s \in Slots : ToSet(Unhang(O)[s]) = ToSet(link[s]) \ O /\ Uniq(Unhang(O)[s])
    <3>1. \A s \in Slots : Uniq(link[s])
      BY DEF ListsApart
    <3>2. \A s \in Slots : /\ ToSet(Unhang(O)[s]) = ToSet(link[s]) \ O
                           /\ Uniq(link[s]) => Uniq(Unhang(O)[s])
      BY UnhangIs
    <3> QED BY <3>1, <3>2, Zenon
  <2>2. link' = Unhang(O)
    BY <1>1
  <2> QED BY <2>1, <2>2, Zenon
<1>7. ASSUME NEW s \in Slots
      PROVE  ToSet(link[s]) \ O = IF s \in W THEN {} ELSE ToSet(link[s])
  <2>1. CASE s \in W
    BY <1>1, <2>1
  <2>2. CASE s \notin W
    <3>1. \A r \in W : ToSet(link[r]) \cap ToSet(link[s]) = {}
      BY <2>2 DEF ListsApart
    <3> QED BY <1>1, <2>2, <3>1
  <2> QED BY <2>1, <2>2
<1>8. ListsApart'
  <2>1. \A s \in Slots : Uniq(link'[s]) /\ ToSet(active') \cap ToSet(link'[s]) = {}
    BY <1>4, <1>6 DEF ListsApart
  <2>2. \A r, s \in Slots : r # s => ToSet(link'[r]) \cap ToSet(link'[s]) = {}
    BY <1>6 DEF ListsApart
  <2> QED BY <1>4, <2>1, <2>2 DEF ListsApart
<1> QED BY <1>1, <1>4, <1>5, <1>6, <1>7, <1>8

\* Sweep,
LEMMA SweepInv ==
  ASSUME Inv, Sweep
  PROVE  Inv'
<1>1. TypeOK /\ ListsApart /\ ListsHold /\ Causes /\ Timed
  BY DEF Inv
<1>2. /\ phase = "sweep" /\ phase' = "dispatch" /\ now' = clock
      /\ UNCHANGED <<clock, stack, st, cond, polls, raise_cnt, expire_time, base, reg,
                     ready, signalled>>
  BY DEF Sweep
<1>3. \A c \in Co : is_timeout[c] = FALSE
  BY <1>1, <1>2 DEF Timed, TypeOK
<1>4. CASE clock < start
  <2>1. UNCHANGED <<active, is_timeout, link, start, start_idx>>
    <3>1. Wheel!StartAt(clock) = start /\ ~(clock >= start)
      BY <1>1, <1>4, StartedAt DEF TypeOK
    <3> QED BY <3>1 DEF Sweep
  <2>2. TypeOK'
    BY <1>1, <1>2, <2>1 DEF TypeOK
  <2>3. StackOK'
    BY <1>2 DEF Inv, StackOK
  <2> QED BY <1>2, <1>3, <2>1, <2>2, <2>3, QuietInv DEF wheelVars
<1>5. CASE clock >= start
  <2>1. PICK W : W = Wheel!Swept(start, start_idx, clock)
    OBVIOUS
  <2>2. PICK out \in Seq(Co) :
          /\ Uniq(out)
          /\ ToSet(out) = UNION {ToSet(link[s]) : s \in W}
          /\ W \subseteq Slots
          /\ active' = active \o out
          /\ is_timeout' = [c \in Co |-> is_timeout[c] \/ c \in ToSet(out)]
          /\ link' = Unhang(ToSet(out))
          /\ start' = clock
          /\ start_idx' = start_idx + Wheel!SweepCount(start, clock) - 1
    BY <1>1, <1>5, <2>1, SweepIs
  <2>3. PICK O : O = ToSet(out)
    OBVIOUS
  <2>4. /\ link' \in [Slots -> Seq(Co)]
        /\ active' \in Seq(Co)
        /\ ListsApart'
        /\ ToSet(active') = ToSet(active) \cup O
        /\ \A s \in Slots : ToSet(link'[s]) = IF s \in W THEN {} ELSE ToSet(link[s])
    BY <1>1, <2>2, <2>3, SweepLists
  <2>5. O \subseteq Co
    BY <2>2, <2>3, Members
  <2>6. \A c \in Co : is_timeout'[c] <=> c \in O
    BY <1>3, <2>2, <2>3
  <2>7. is_timeout' \in [Co -> BOOLEAN]
    BY <1>1, <2>2 DEF TypeOK
  <2>8. TypeOK'
    <3>1. start_idx' \in Nat
      <4>1. Wheel!SweepCount(start, clock) \in 1 .. slot_size /\ start_idx \in Nat
        BY <1>1, <1>5, CountInRange DEF TypeOK
      <4> QED BY <2>2, <4>1, WheelAssumed
    <3>2. start' \in 1 .. MaxTime /\ now' \in 0 .. MaxTime
      BY <1>1, <1>2, <2>2 DEF TypeOK
    <3> QED BY <1>1, <1>2, <2>4, <2>7, <3>1, <3>2 DEF TypeOK
  <2>9. StackOK' /\ RegisteredIsLive' /\ CondsApart'
    BY <1>2 DEF Inv, StackOK, RegisteredIsLive, CondsApart
  <2>10. CondsHold'
    BY <1>2 DEF Inv, CondsHold
  <2>11. O = UNION {ToSet(link[s]) : s \in W} /\ W \subseteq Slots
    BY <2>2, <2>3
  <2>12. Idle'
    <3>1. \A c \in O : Waiting(c)
      BY <1>1, <2>5, <2>11 DEF ListsHold, Waiting
    <3>2. \A c \in Co : ~Waiting(c) => is_timeout'[c] = FALSE
      BY <2>6, <2>7, <3>1
    <3> QED BY <1>2, <3>2 DEF Inv, Idle, Waiting
  <2>13. ListsHold'
    <3> SUFFICES ASSUME NEW d \in Co
                 PROVE  d \in ToSet(active') \cup UNION {ToSet(link'[r]) : r \in Slots}
                        <=> \/ st[d] = "poll"
                            \/ st[d] = "cond" /\ (expire_time[d] # 0 \/ d \in signalled)
      BY <1>2 DEF ListsHold
    <3>1. d \in ToSet(active') \cup UNION {ToSet(link'[r]) : r \in Slots}
          <=> d \in ToSet(active) \cup UNION {ToSet(link[r]) : r \in Slots}
      <4>1. ASSUME NEW r \in Slots, d \in ToSet(link[r]) 
            PROVE  d \in O \/ d \in ToSet(link'[r])
        BY <2>4, <2>11, <4>1
      <4>2. ASSUME NEW r \in Slots, d \in ToSet(link'[r]) PROVE d \in ToSet(link[r])
        BY <2>4, <4>2
      <4> QED BY <2>4, <2>11, <4>1, <4>2
    <3> QED BY <1>1, <3>1 DEF ListsHold
  <2>14. Causes'
    <3>1. ASSUME NEW s \in Slots, NEW c \in ToSet(link'[s])
          PROVE  expire_time[c] # 0 /\ is_timeout'[c] = FALSE
      <4>1. s \notin W /\ c \in ToSet(link[s])
        BY <2>4, <3>1
      <4>2. c \notin O
        BY <1>1, <2>11, <4>1 DEF ListsApart
      <4>3. c \in Co
        BY <1>1, <4>1, Members DEF TypeOK
      <4> QED BY <1>1, <2>6, <2>7, <4>1, <4>2, <4>3 DEF Causes
    <3>2. ASSUME NEW c \in ToSet(active')
          PROVE  raise_cnt[c] > 0 \/ c \in signalled \/ is_timeout'[c]
      <4>1. CASE c \in O
        BY <2>5, <2>6, <4>1
      <4>2. CASE c \in ToSet(active)
        <5>1. c \in Co
          BY <1>1, <4>2, Members DEF TypeOK
        <5> QED BY <1>1, <1>3, <4>2, <5>1 DEF Causes
      <4> QED BY <2>4, <3>2, <4>1, <4>2
    <3> QED BY <1>2, <3>1, <3>2 DEF Causes
  <2>15. Timed'
    <3> SUFFICES ASSUME NEW c \in Co, is_timeout'[c]
                 PROVE  c \in ToSet(active') /\ expire_time[c] # 0
      BY <1>2, <2>2 DEF Timed
    <3>1. c \in O
      BY <2>6
    <3>2. PICK s \in Slots : c \in ToSet(link[s])
      BY <2>11, <3>1
    <3> QED BY <1>1, <2>4, <3>1, <3>2 DEF Causes
  <2> QED BY <2>4, <2>8, <2>9, <2>10, <2>12, <2>13, <2>14, <2>15 DEF Inv
<1> QED BY <1>1, <1>4, <1>5 DEF TypeOK

\* DispatchEarly,
LEMMA DispatchEarlyInv ==
  ASSUME Inv, DispatchEarly
  PROVE  Inv'
<1>1. TypeOK /\ ListsApart /\ ListsHold /\ Causes /\ Timed
  BY DEF Inv
<1>2. PICK c : c = Head(active)
  OBVIOUS
<1>3. /\ active # << >> /\ active' = Tail(active) /\ is_timeout[c]
      /\ Hang(c, expire_time[c], now)
      /\ UNCHANGED <<clock, stack, st, cond, polls, raise_cnt, reg, ready, phase, now,
                     signalled>>
  BY <1>2 DEF DispatchEarly, IsEarly
<1>4. /\ c \in Co /\ c \in ToSet(active)
      /\ active' \in Seq(Co) /\ Uniq(active') /\ ToSet(active') = ToSet(active) \ {c}
  BY <1>1, <1>2, <1>3, Tailed DEF TypeOK, ListsApart
<1>5. PICK e \in Nat : e = expire_time[c]
  BY <1>1, <1>4 DEF TypeOK
<1>6. /\ start' = start /\ start_idx' = start_idx
      /\ link' \in [Slots -> Seq(Co)]
      /\ expire_time' = [expire_time EXCEPT ![c] = e]
      /\ is_timeout' = [is_timeout EXCEPT ![c] = FALSE]
      /\ base' = [base EXCEPT ![c] = start]
  BY <1>1, <1>3, <1>4, <1>5, HangsLists
<1>7. PICK h \in Slots :
        /\ ToSet(link'[h]) = ToSet(link[h]) \cup {c}
        /\ c \notin ToSet(link[h]) /\ Uniq(link[h]) => Uniq(link'[h])
        /\ \A r \in Slots \ {h} : link'[r] = link[r]
  BY <1>1, <1>3, <1>4, <1>5, HangsLists
<1>8. \A r \in Slots : c \notin ToSet(link[r])
  BY <1>1, <1>4 DEF ListsApart
<1>9. /\ expire_time' = expire_time /\ is_timeout'[c] = FALSE
      /\ \A d \in Co \ {c} : is_timeout'[d] = is_timeout[d] /\ base'[d] = base[d]
  BY <1>1, <1>4, <1>5, <1>6 DEF TypeOK
<1>10. TypeOK'
  <2>1. is_timeout' \in [Co -> BOOLEAN] /\ base' \in [Co -> Nat]
    BY <1>1, <1>4, <1>6 DEF TypeOK
  <2> QED BY <1>1, <1>3, <1>4, <1>6, <1>9, <2>1 DEF TypeOK
<1>11. StackOK' /\ RegisteredIsLive' /\ CondsApart'
  BY <1>3 DEF Inv, StackOK, RegisteredIsLive, CondsApart
<1>12. CondsHold'
  BY <1>3 DEF Inv, CondsHold
<1>13. Waiting(c)
  BY <1>1, <1>4 DEF ListsHold, Waiting
<1>14. Idle'
  <2> SUFFICES ASSUME NEW d \in Co, ~Waiting(d)
               PROVE  /\ expire_time[d] = 0 /\ base'[d] = 0 /\ raise_cnt[d] = 0
                      /\ is_timeout'[d] = FALSE /\ d \notin signalled
    BY <1>3, <1>9 DEF Idle, Waiting
  <2>1. d # c
    BY <1>13
  <2> QED BY <1>9, <2>1 DEF Inv, Idle
<1>15. ListsApart'
  <2>1. \A r \in Slots : Uniq(link'[r]) /\ ToSet(active') \cap ToSet(link'[r]) = {}
    BY <1>1, <1>4, <1>7, <1>8 DEF ListsApart
  <2>2. \A q, r \in Slots : q # r => ToSet(link'[q]) \cap ToSet(link'[r]) = {}
    BY <1>1, <1>7, <1>8 DEF ListsApart
  <2> QED BY <1>4, <2>1, <2>2 DEF ListsApart
<1>16. ListsHold'
  <2> SUFFICES ASSUME NEW d \in Co
               PROVE  d \in ToSet(active') \cup UNION {ToSet(link'[r]) : r \in Slots}
                      <=> \/ st[d] = "poll"
                          \/ st[d] = "cond" /\ (expire_time[d] # 0 \/ d \in signalled)
    BY <1>3, <1>9 DEF ListsHold
  <2>1. CASE d = c
    <3>1. c \in ToSet(link'[h])
      BY <1>7
    <3> QED BY <1>1, <1>4, <2>1, <3>1 DEF ListsHold
  <2>2. CASE d # c
    <3>1. d \in UNION {ToSet(link'[r]) : r \in Slots} <=> d \in UNION {ToSet(link[r]) : r \in Slots}
      BY <1>7, <2>2
    <3> QED BY <1>1, <1>4, <2>2, <3>1 DEF ListsHold
  <2> QED BY <2>1, <2>2
<1>17. Causes'
  <2>1. ASSUME NEW r \in Slots, NEW d \in ToSet(link'[r])
        PROVE  expire_time[d] # 0 /\ is_timeout'[d] = FALSE
    <3>1. CASE d = c
      BY <1>1, <1>3, <1>4, <1>9, <3>1 DEF Timed
    <3>2. CASE d # c
      <4>1. d \in ToSet(link[r])
        BY <1>7, <2>1, <3>2
      <4>2. d \in Co
        BY <1>1, <4>1, Members DEF TypeOK
      <4> QED BY <1>1, <1>9, <3>2, <4>1, <4>2 DEF Causes
    <3> QED BY <3>1, <3>2
  <2>2. ASSUME NEW d \in ToSet(active')
        PROVE  raise_cnt[d] > 0 \/ d \in signalled \/ is_timeout'[d]
    <3>1. d \in ToSet(active) /\ d # c
      BY <1>4, <2>2
    <3>2. d \in Co
      BY <1>1, <3>1, Members DEF TypeOK
    <3> QED BY <1>1, <1>9, <3>1, <3>2 DEF Causes
  <2> QED BY <1>3, <1>9, <2>1, <2>2 DEF Causes
<1>18. Timed'
  BY <1>1, <1>3, <1>4, <1>6, <1>9 DEF Timed
<1> QED BY <1>10, <1>11, <1>12, <1>14, <1>15, <1>16, <1>17, <1>18 DEF Inv

\* and DispatchResume.
LEMMA DispatchResumeInv ==
  ASSUME Inv, DispatchResume
  PROVE  Inv'
<1>1. TypeOK /\ StackOK /\ ListsApart /\ ListsHold /\ CondsApart /\ CondsHold /\ Causes /\ Timed
  BY DEF Inv
<1>2. PICK c : c = Head(active)
  OBVIOUS
<1>3. /\ active # << >> /\ active' = Tail(active)
      /\ stack' = Append(stack, c) /\ st' = [st EXCEPT ![c] = "running"]
      /\ reg' = Deregistered(c) /\ cond' = LeaveCond(c)
      /\ polls' = [polls EXCEPT ![c] = {}]
      /\ raise_cnt' = [raise_cnt EXCEPT ![c] = 0]
      /\ expire_time' = [expire_time EXCEPT ![c] = 0]
      /\ is_timeout' = [is_timeout EXCEPT ![c] = FALSE]
      /\ base' = [base EXCEPT ![c] = 0]
      /\ signalled' = signalled \ {c}
      /\ UNCHANGED <<clock, link, start, start_idx, ready, phase, now>>
  BY <1>2 DEF DispatchResume
<1>4. /\ c \in Co /\ c \in ToSet(active)
      /\ active' \in Seq(Co) /\ Uniq(active') /\ ToSet(active') = ToSet(active) \ {c}
  BY <1>1, <1>2, <1>3, Tailed DEF TypeOK, ListsApart
<1>5. st[c] \in {"poll", "cond"}
  BY <1>1, <1>4 DEF ListsHold
<1>6. /\ StackOK' /\ stack' \in Seq(Co \cup {Main})
      /\ st' \in [Co -> States]
      /\ st'[c] = "running" /\ \A d \in Co \ {c} : st'[d] = st[d]
  BY <1>1, <1>3, <1>4, <1>5, PushInv
<1>7. /\ expire_time'[c] = 0 /\ base'[c] = 0 /\ raise_cnt'[c] = 0 /\ is_timeout'[c] = FALSE
      /\ \A d \in Co \ {c} : /\ expire_time'[d] = expire_time[d] /\ base'[d] = base[d]
                             /\ raise_cnt'[d] = raise_cnt[d] /\ is_timeout'[d] = is_timeout[d]
                             /\ polls'[d] = polls[d]
  BY <1>1, <1>3, <1>4 DEF TypeOK
<1>8. \A v \in Conds : /\ cond'[v] \in Seq(Co) /\ Uniq(cond'[v])
                       /\ ToSet(cond'[v]) = ToSet(cond[v]) \ {c}
  <2> SUFFICES ASSUME NEW v \in Conds
               PROVE  /\ cond'[v] \in Seq(Co) /\ Uniq(cond'[v])
                      /\ ToSet(cond'[v]) = ToSet(cond[v]) \ {c}
    OBVIOUS
  <2>1. PICK q : q = cond[v]
    OBVIOUS
  <2>2. q \in Seq(Co) /\ Uniq(q)
    BY <1>1, <2>1 DEF TypeOK, CondsApart
  <2>3. cond'[v] = Without(q, {c})
    BY <1>3, <2>1 DEF LeaveCond
  <2> QED BY <2>1, <2>2, <2>3, WithoutIs
<1>9. TypeOK'
  <2>1. cond' \in [Conds -> Seq(Co)]
    BY <1>3, <1>8 DEF LeaveCond
  <2>2. reg' \in [Fds -> Co \cup {NoCo}]
    BY <1>1, <1>3 DEF TypeOK, Deregistered
  <2>3. /\ polls' \in [Co -> SUBSET Fds] /\ raise_cnt' \in [Co -> Nat]
        /\ expire_time' \in [Co -> Nat] /\ is_timeout' \in [Co -> BOOLEAN]
        /\ base' \in [Co -> Nat]
    BY <1>1, <1>3, <1>4 DEF TypeOK
  <2> QED BY <1>1, <1>3, <1>4, <1>6, <2>1, <2>2, <2>3 DEF TypeOK
<1>10. Idle'
  <2> SUFFICES ASSUME NEW d \in Co, ~Waiting(d)'
               PROVE  /\ expire_time'[d] = 0 /\ base'[d] = 0 /\ raise_cnt'[d] = 0
                      /\ is_timeout'[d] = FALSE /\ d \notin signalled'
    BY DEF Idle
  <2>1. CASE d = c
    BY <1>3, <1>7, <2>1
  <2>2. CASE d # c
    <3>1. ~Waiting(d)
      BY <1>6, <2>2 DEF Waiting
    <3> QED BY <1>3, <1>7, <2>2, <3>1 DEF Inv, Idle
  <2> QED BY <2>1, <2>2
<1>11. ListsApart'
  BY <1>1, <1>3, <1>4 DEF ListsApart
<1>12. CondsApart'
  BY <1>1, <1>8 DEF CondsApart
<1>13. ListsHold'
  <2> SUFFICES ASSUME NEW d \in Co
               PROVE  d \in ToSet(active') \cup UNION {ToSet(link[r]) : r \in Slots}
                      <=> \/ st'[d] = "poll"
                          \/ st'[d] = "cond" /\ (expire_time'[d] # 0 \/ d \in signalled')
    BY <1>3 DEF ListsHold
  <2>1. CASE d = c
    <3>1. \A r \in Slots : c \notin ToSet(link[r])
      BY <1>1, <1>4 DEF ListsApart
    <3> QED BY <1>4, <1>6, <2>1, <3>1
  <2>2. CASE d # c
    BY <1>1, <1>3, <1>4, <1>6, <1>7, <2>2 DEF ListsHold
  <2> QED BY <2>1, <2>2
<1>14. CondsHold'
  <2> SUFFICES ASSUME NEW d \in Co
               PROVE  d \in UNION {ToSet(cond'[v]) : v \in Conds}
                      <=> st'[d] = "cond" /\ d \notin signalled'
    BY DEF CondsHold
  <2>1. CASE d = c
    BY <1>6, <1>8, <2>1
  <2>2. CASE d # c
    <3>1. d \in UNION {ToSet(cond'[v]) : v \in Conds} <=> d \in UNION {ToSet(cond[v]) : v \in Conds}
      BY <1>8, <2>2
    <3> QED BY <1>1, <1>3, <1>6, <2>2, <3>1 DEF CondsHold
  <2> QED BY <2>1, <2>2
<1>15. Causes'
  <2>1. ASSUME NEW r \in Slots, NEW d \in ToSet(link[r])
        PROVE  expire_time'[d] # 0 /\ is_timeout'[d] = FALSE
    <3>1. d \in Co /\ d # c
      <4>1. d \in Co
        BY <1>1, <2>1, Members DEF TypeOK
      <4> QED BY <1>1, <1>4, <4>1 DEF ListsApart
    <3> QED BY <1>1, <1>7, <3>1 DEF Causes
  <2>2. ASSUME NEW d \in ToSet(active')
        PROVE  raise_cnt'[d] > 0 \/ d \in signalled' \/ is_timeout'[d]
    <3>1. d \in ToSet(active) /\ d # c
      BY <1>4, <2>2
    <3>2. d \in Co
      BY <1>1, <3>1, Members DEF TypeOK
    <3> QED BY <1>1, <1>3, <1>7, <3>1, <3>2 DEF Causes
  <2> QED BY <1>3, <2>1, <2>2 DEF Causes
<1>16. Timed'
  BY <1>1, <1>3, <1>4, <1>7 DEF Timed
<1>17. RegisteredIsLive'
  <2> SUFFICES ASSUME NEW f \in Fds, reg'[f] # NoCo
               PROVE  st'[reg'[f]] = "poll" /\ f \in polls'[reg'[f]]
    BY DEF RegisteredIsLive
  <2>1. f \notin polls[c] /\ reg'[f] = reg[f]
    BY <1>3 DEF Deregistered
  <2>2. reg[f] \in Co /\ st[reg[f]] = "poll" /\ f \in polls[reg[f]]
    BY <2>1 DEF Inv, TypeOK, RegisteredIsLive
  <2>3. reg[f] # c
    BY <2>1, <2>2
  <2> QED BY <1>6, <1>7, <2>1, <2>2, <2>3
<1> QED BY <1>6, <1>9, <1>10, <1>11, <1>12, <1>13, <1>14, <1>15, <1>16, <1>17 DEF Inv

\* How a turn ends.
LEMMA TurnIs ==
  ASSUME NEW c \in Co, EndTurn(c)
  PROVE  \/ CoYield(c) \/ CoFunc(c)
         \/ \E F \in SUBSET Fds, timeout \in Timeouts \cup {-1} : CoPoll(c, F, timeout)
         \/ \E v \in Conds, timeout \in Timeouts \cup {0} : CoCondTimewait(c, v, timeout)
<1>1. Timeouts \cup (IF PollForever THEN {-1} ELSE {}) \subseteq Timeouts \cup {-1}
  OBVIOUS
<1> QED BY <1>1, Zenon DEF EndTurn

\* Every step keeps the invariant.
LEMMA InvNext ==
  ASSUME Inv, [Next]_vars
  PROVE  Inv'
<1>1. ASSUME NEW c \in Resumers, NEW d \in Co, CoResume(c, d) PROVE Inv'
  BY <1>1, CoResumeInv
<1>2. ASSUME NEW c \in Co, EndTurn(c) PROVE Inv'
  BY <1>2, TurnIs, EndsTurnInv, CoPollInv, CoCondTimewaitInv
<1>3. ASSUME NEW v \in Conds, CoCondSignal(v) \/ CoCondBroadcast(v) PROVE Inv'
  BY <1>3, SignalInv
<1>4. ASSUME LoopStep PROVE Inv'
  BY <1>4, StillInv, EpollWaitInv, SweepInv, DispatchEarlyInv, DispatchResumeInv DEF LoopStep
<1>5. ASSUME Tick \/ SetBack \/ \E f \in Fds : FdChanges(f) PROVE Inv'
  BY <1>5, StillInv
<1>6. ASSUME UNCHANGED vars PROVE Inv'
  <2>1. UNCHANGED <<clock, stack, st, cond, polls, raise_cnt, wheelVars, active, reg, ready,
                    phase, now, signalled>>
    BY <1>6 DEF vars
  <2>2. TypeOK' /\ StackOK'
    BY <2>1 DEF Inv, TypeOK, StackOK, wheelVars
  <2> QED BY <2>1, <2>2, QuietInv
<1> QED BY <1>1, <1>2, <1>3, <1>4, <1>5, <1>6, Zenon DEF Next

\* The invariant holds in every reachable state.
THEOREM LoopInvariance == Spec => []Inv
BY InvInit, InvNext, PTL DEF Spec

\* epoll never holds a pointer to the item of a poll that has returned, for any
\* number of coroutines that poll one descriptor and deregister it for each other.
THEOREM NoStaleRegistration == Spec => []RegisteredIsLive
<1>1. Inv => RegisteredIsLive
  BY DEF Inv
<1> QED BY <1>1, LoopInvariance, PTL

------------------------------------------------------------------------------
\* CoEventloop resumes a coroutine only for an event, a signal or a timeout that
\* is due: an item that came out of the wheel too early can be hung in again,
\* because the loop's time is the start of the wheel it has just turned.
THEOREM WokenForAReason == Spec => NeverEarly
<1> DEFINE Reason == LET c == Head(active)
                     IN  \/ raise_cnt[c] > 0
                         \/ c \in signalled
                         \/ expire_time[c] # 0 /\ expire_time[c] <= now
<1>1. ASSUME Inv, DispatchResume PROVE Reason
  <2>1. PICK c : c = Head(active)
    OBVIOUS
  <2>2. active # << >> /\ ~IsEarly(c)
    BY <1>1, <2>1 DEF DispatchResume
  <2>3. c \in Co /\ c \in ToSet(active)
    BY <1>1, <2>1, <2>2, Tailed DEF Inv, TypeOK
  <2>4. raise_cnt[c] > 0 \/ c \in signalled \/ is_timeout[c]
    BY <1>1, <2>3 DEF Inv, Causes
  <2>5. ASSUME is_timeout[c] PROVE expire_time[c] # 0 /\ expire_time[c] <= now
    <3>1. expire_time[c] # 0 /\ now = start
      BY <1>1, <2>3, <2>5 DEF Inv, Timed
    <3>2. Wheel!StartAt(now) = start
      BY <1>1, StartedAt DEF Inv
    <3>3. CanHang(now)
      BY <1>1, <3>1, <3>2 DEF CanHang, Inv, TypeOK
    <3>4. ~(now < expire_time[c])
      BY <2>2, <2>5, <3>3 DEF IsEarly
    <3>5. now \in Nat /\ expire_time[c] \in Nat
      BY <1>1, <2>3 DEF Inv, TypeOK
    <3> QED BY <3>1, <3>4, <3>5
  <2> QED BY <2>1, <2>4, <2>5
<1>2. Inv /\ [Next]_vars => [DispatchResume => Reason]_vars
  BY <1>1
<1> QED BY <1>2, LoopInvariance, PTL DEF Spec, NeverEarly

------------------------------------------------------------------------------
\* How often an item occurs in a list without repetitions.
LEMMA TimesIs ==
  ASSUME NEW q \in Seq(Co), Uniq(q), NEW c
  PROVE  Times(c, q) = IF c \in ToSet(q) THEN 1 ELSE 0
<1>1. DOMAIN q = 1 .. Len(q)
  OBVIOUS
<1>2. PICK K : K = {k \in 1 .. Len(q) : q[k] = c}
  OBVIOUS
<1>3. Times(c, q) = Cardinality(K)
  BY <1>1, <1>2 DEF Times
<1>4. CASE c \in ToSet(q)
  <2>1. PICK i \in 1 .. Len(q) : q[i] = c
    BY <1>4, Members
  <2>2. K = {i}
    BY <1>2, <2>1 DEF Uniq
  <2>3. Cardinality({i}) = 1
    BY FS_Singleton
  <2> QED BY <1>3, <1>4, <2>2, <2>3
<1>5. CASE c \notin ToSet(q)
  <2>1. K = {}
    BY <1>2, <1>5, Members
  <2> QED BY <1>3, <1>5, <2>1, FS_EmptySet
<1> QED BY <1>4, <1>5

\* All slots, one after the other.
LEMMA AllSlots ==
  ASSUME TypeOK, ListsApart, NEW qs, qs = [s \in 1 .. slot_size |-> link[s - 1]]
  PROVE  /\ FlattenSeq(qs) \in Seq(Co)
         /\ ToSet(FlattenSeq(qs)) = UNION {ToSet(link[s]) : s \in Slots}
         /\ Uniq(FlattenSeq(qs))
<1>1. slot_size \in Nat \ {0} /\ link \in [Slots -> Seq(Co)]
  BY WheelAssumed DEF TypeOK
<1>2. \A k \in 1 .. slot_size : k - 1 \in Slots /\ qs[k] = link[k - 1]
  BY <1>1 DEF Slots
<1>3. \A k \in 1 .. slot_size : qs[k] \in Seq(Co) /\ Uniq(qs[k])
  BY <1>1, <1>2 DEF ListsApart
<1>4. Len(qs) = slot_size
  <2>1. qs \in [1 .. slot_size -> Seq(Co)]
    BY <1>3
  <2> QED BY <1>1, <2>1
<1>5. ASSUME NEW i \in 1 .. slot_size, NEW j \in 1 .. slot_size, i # j
      PROVE  ToSet(qs[i]) \cap ToSet(qs[j]) = {}
  <2>1. i - 1 # j - 1
    BY <1>1, <1>5
  <2> QED BY <1>2, <2>1 DEF ListsApart
<1>6. UNION {ToSet(qs[k]) : k \in 1 .. slot_size} = UNION {ToSet(link[s]) : s \in Slots}
  <2>1. \A s \in Slots : s + 1 \in 1 .. slot_size /\ qs[s + 1] = link[s]
    <3> SUFFICES ASSUME NEW s \in Slots PROVE s + 1 \in 1 .. slot_size /\ qs[s + 1] = link[s]
      OBVIOUS
    <3>1. s + 1 \in 1 .. slot_size /\ (s + 1) - 1 = s
      BY <1>1 DEF Slots
    <3> QED BY <1>2, <3>1
  <2>2. ASSUME NEW x \in UNION {ToSet(qs[k]) : k \in 1 .. slot_size}
        PROVE  x \in UNION {ToSet(link[s]) : s \in Slots}
    BY <1>2
  <2>3. ASSUME NEW x \in UNION {ToSet(link[s]) : s \in Slots}
        PROVE  x \in UNION {ToSet(qs[k]) : k \in 1 .. slot_size}
    <3>1. PICK s \in Slots : x \in ToSet(link[s])
      OBVIOUS
    <3>2. PICK k \in 1 .. slot_size : qs[k] = link[s]
      BY <2>1
    <3> QED BY <3>1, <3>2
  <2> QED BY <2>2, <2>3
<1>7. PICK ps : ps = qs
  OBVIOUS
<1>8. /\ Len(ps) = slot_size /\ \A k \in 1 .. slot_size : ps[k] \in Seq(Co) /\ Uniq(ps[k])
      /\ \A i, j \in 1 .. slot_size : i # j => ToSet(ps[i]) \cap ToSet(ps[j]) = {}
  BY <1>3, <1>4, <1>5, <1>7, Zenon
<1>9. /\ FlattenSeq(ps) \in Seq(Co)
      /\ ToSet(FlattenSeq(ps)) = UNION {ToSet(ps[k]) : k \in 1 .. slot_size}
      /\ Uniq(FlattenSeq(ps))
  BY <1>1, <1>8, FlattenIs
<1> QED BY <1>6, <1>7, <1>9, Zenon

\* The slots, the active list and the lists of waiters hold the items of the
\* calls in progress, each in its one place: no item is freed while it is linked,
\* and none is lost.
THEOREM ListsAreCalls == Spec => []ItemsOfCalls
<1>1. ASSUME Inv PROVE ItemsOfCalls
  <2>0. TypeOK /\ ListsApart /\ ListsHold /\ CondsApart /\ CondsHold
    BY <1>1 DEF Inv
  <2> SUFFICES ASSUME NEW c \in Co
               PROVE  /\ \A v \in Conds : Times(c, cond[v]) <= 1
                      /\ Linked(c) = IF \/ st[c] = "poll"
                                        \/ st[c] = "cond" /\ (expire_time[c] # 0 \/ c \in signalled)
                                     THEN 1 ELSE 0
                      /\ Cardinality({v \in Conds : Contains(cond[v], c)})
                           = IF st[c] = "cond" /\ c \notin signalled THEN 1 ELSE 0
    BY DEF ItemsOfCalls
  <2>1. ASSUME NEW v \in Conds PROVE Times(c, cond[v]) <= 1
    <3>1. cond[v] \in Seq(Co) /\ Uniq(cond[v])
      BY <2>0 DEF TypeOK, CondsApart
    <3>2. Times(c, cond[v]) = IF c \in ToSet(cond[v]) THEN 1 ELSE 0
      BY <3>1, TimesIs
    <3> QED BY <3>2
  <2>2. Linked(c) = IF \/ st[c] = "poll"
                       \/ st[c] = "cond" /\ (expire_time[c] # 0 \/ c \in signalled)
                    THEN 1 ELSE 0
    <3>1. PICK L : L = UNION {ToSet(link[s]) : s \in Slots}
      OBVIOUS
    <3>2. PICK q : q = FlattenSeq([s \in 1 .. slot_size |-> link[s - 1]])
      OBVIOUS
    <3>3. q \in Seq(Co) /\ ToSet(q) = L /\ Uniq(q)
      BY <2>0, <3>1, <3>2, AllSlots
    <3>4. active \in Seq(Co) /\ Uniq(active) /\ ToSet(active) \cap L = {}
      BY <2>0, <3>1 DEF TypeOK, ListsApart
    <3>5. Times(c, active) = IF c \in ToSet(active) THEN 1 ELSE 0
      BY <3>4, TimesIs
    <3>6. Times(c, q) = IF c \in L THEN 1 ELSE 0
      BY <3>3, TimesIs
    <3>7. Linked(c) = Times(c, active) + Times(c, q)
      BY <3>2 DEF Linked
    <3>8. c \in ToSet(active) \cup L
          <=> \/ st[c] = "poll"
              \/ st[c] = "cond" /\ (expire_time[c] # 0 \/ c \in signalled)
      BY <2>0, <3>1 DEF ListsHold
    <3>9. ~(c \in ToSet(active) /\ c \in L)
      BY <3>4
    <3> QED BY <3>5, <3>6, <3>7, <3>8, <3>9
  <2>3. Cardinality({v \in Conds : Contains(cond[v], c)})
          = IF st[c] = "cond" /\ c \notin signalled THEN 1 ELSE 0
    <3>1. PICK V : V = {v \in Conds : c \in ToSet(cond[v])}
      OBVIOUS
    <3>2. {v \in Conds : Contains(cond[v], c)} = V
      <4>1. \A v \in Conds : Contains(cond[v], c) <=> c \in ToSet(cond[v])
        BY <2>0, Members DEF TypeOK
      <4> QED BY <3>1, <4>1
    <3>3. V # {} <=> st[c] = "cond" /\ c \notin signalled
      BY <2>0, <3>1 DEF CondsHold
    <3>4. CASE V = {}
      BY <3>2, <3>3, <3>4, FS_EmptySet
    <3>5. CASE V # {}
      <4>1. PICK v \in Conds : c \in ToSet(cond[v])
        BY <3>1, <3>5
      <4>2. V = {v}
        BY <2>0, <3>1, <4>1 DEF CondsApart
      <4>3. Cardinality({v}) = 1
        BY FS_Singleton
      <4> QED BY <3>2, <3>3, <3>5, <4>2, <4>3
    <3> QED BY <3>4, <3>5
  <2> QED BY <2>1, <2>2, <2>3
<1> QED BY <1>1, LoopInvariance, PTL

------------------------------------------------------------------------------
\* A signalled waiter whose timer has not come out, and what becomes of it.
HeldBy(d, fired, waits) == fired[d] = FALSE /\ d \in ToSet(waits)

\* It keeps its place in every step, until it runs: it is in no slot, so no sweep
\* takes it out.
LEMMA HeldNext ==
  ASSUME Inv, [Next]_vars, NEW d \in signalled, HeldBy(d, is_timeout, active)
  PROVE  d \notin signalled' \/ HeldBy(d, is_timeout', active')
<1> DEFINE Goal == d \notin signalled' \/ HeldBy(d, is_timeout', active')
<1>0. TypeOK /\ StackOK /\ ListsApart /\ Timed /\ d \in Co
  BY DEF Inv, TypeOK
<1>1. ASSUME NEW v \in Conds, CoCondSignal(v) \/ CoCondBroadcast(v)
      PROVE  Goal
  <2>3. PICK ds \in Seq(Co) :
          /\ Uniq(ds) /\ link' = Unhang(ToSet(ds)) /\ active' = ToActive(ds)
          /\ signalled' = signalled \cup ToSet(ds) /\ is_timeout' = is_timeout
    BY <1>1, SignalIs
  <2>4. ToSet(active') = ToSet(active) \cup ToSet(ds)
    BY <1>0, <2>3, WakesLists
  <2> QED BY <2>3, <2>4 DEF HeldBy
<1>2. ASSUME NEW c \in Co, Self = c, NEW e \in Nat, NEW t, Hang(c, e, t), UNCHANGED <<active, signalled>>
      PROVE  Goal
  <2>1. st[c] = "running"
    BY <1>0, <1>2, SelfRuns
  <2>2. c # d
    BY <2>1 DEF Inv, Idle, Waiting
  <2>3. is_timeout' = [is_timeout EXCEPT ![c] = FALSE]
    BY <1>0, <1>2, HangsLists
  <2> QED BY <1>0, <1>2, <2>2, <2>3 DEF HeldBy, TypeOK
<1>3. ASSUME UNCHANGED <<is_timeout, active, signalled>> PROVE Goal
  BY <1>3 DEF HeldBy
<1>4. ASSUME NEW c \in Co, EndTurn(c) PROVE Goal
  <2>1. CASE CoYield(c) \/ CoFunc(c)
    BY <1>3, <2>1 DEF CoYield, CoFunc, wheelVars
  <2>2. ASSUME NEW F \in SUBSET Fds, NEW timeout \in Timeouts \cup {-1}, CoPoll(c, F, timeout)
        PROVE  Goal
    <3>1. PICK e : e = clock + (IF timeout < 0 THEN IntMax ELSE timeout)
      OBVIOUS
    <3>2. e \in Nat
      BY <1>0, <3>1, LoopAssumption DEF TypeOK
    <3>3. CASE CanHang(clock)
      <4>1. Self = c /\ Hang(c, e, clock) /\ UNCHANGED <<active, signalled>>
        BY <2>2, <3>1, <3>3 DEF CoPoll
      <4> QED BY <1>2, <3>2, <4>1
    <3>4. CASE ~CanHang(clock)
      BY <1>3, <2>2, <3>4 DEF CoPoll, wheelVars
    <3> QED BY <3>3, <3>4
  <2>3. ASSUME NEW v \in Conds, NEW timeout \in Timeouts \cup {0}, CoCondTimewait(c, v, timeout)
        PROVE  Goal
    <3>1. CASE timeout > 0
      <4>1. clock + timeout \in Nat
        BY <1>0, LoopAssumption DEF TypeOK
      <4>2. Self = c /\ Hang(c, clock + timeout, clock) /\ UNCHANGED <<active, signalled>>
        BY <2>3, <3>1, LoopAssumption DEF CoCondTimewait
      <4> QED BY <1>2, <4>1, <4>2
    <3>2. CASE ~(timeout > 0)
      BY <1>3, <2>3, <3>2 DEF CoCondTimewait, wheelVars
    <3> QED BY <3>1, <3>2
  <2> QED BY <1>4, <2>1, <2>2, <2>3, TurnIs
<1>5. ASSUME EpollWait PROVE Goal
  <2>1. PICK fresh \in Seq(Co) :
          Uniq(fresh) /\ link' = Unhang(ToSet(fresh)) /\ active' = ToActive(fresh)
    BY <1>5, EpollWaitIs
  <2>2. ToSet(active') = ToSet(active) \cup ToSet(fresh)
    BY <1>0, <2>1, WakesLists
  <2>3. UNCHANGED <<is_timeout, signalled>>
    BY <1>5 DEF EpollWait
  <2> QED BY <2>2, <2>3 DEF HeldBy
<1>6. ASSUME Sweep PROVE Goal
  <2>0. signalled' = signalled
    BY <1>6 DEF Sweep
  <2>1. CASE clock < start
    <3>1. Wheel!StartAt(clock) = start /\ ~(clock >= start)
      BY <1>0, <2>1, StartedAt DEF TypeOK
    <3> QED BY <1>3, <1>6, <2>0, <3>1 DEF Sweep
  <2>2. CASE clock >= start
    <3>1. PICK W : W = Wheel!Swept(start, start_idx, clock)
      OBVIOUS
    <3>2. PICK out \in Seq(Co) :
            /\ Uniq(out)
            /\ ToSet(out) = UNION {ToSet(link[s]) : s \in W}
            /\ W \subseteq Slots
            /\ active' = active \o out
            /\ is_timeout' = [c \in Co |-> is_timeout[c] \/ c \in ToSet(out)]
            /\ link' = Unhang(ToSet(out))
      BY <1>0, <1>6, <2>2, <3>1, SweepIs
    <3>3. ToSet(active') = ToSet(active) \cup ToSet(out)
      BY <1>0, <3>2, SweepLists
    <3>4. ToSet(active) \cap ToSet(out) = {}
      BY <1>0, <3>2 DEF ListsApart
    <3>5. is_timeout[d] = FALSE /\ d \in ToSet(active)
      BY DEF HeldBy
    <3>6. d \notin ToSet(out)
      BY <3>4, <3>5
    <3>7. is_timeout'[d] = FALSE
      BY <1>0, <3>2, <3>5, <3>6
    <3> QED BY <3>3, <3>5, <3>7 DEF HeldBy
  <2> QED BY <1>0, <2>1, <2>2 DEF TypeOK
<1>7. ASSUME DispatchEarly PROVE Goal
  <2>1. PICK c : c = Head(active)
    OBVIOUS
  <2>2. /\ active # << >> /\ active' = Tail(active) /\ is_timeout[c] /\ signalled' = signalled
        /\ Hang(c, expire_time[c], now)
    BY <1>7, <2>1 DEF DispatchEarly, IsEarly
  <2>3. c \in Co /\ ToSet(active') = ToSet(active) \ {c}
    BY <1>0, <2>1, <2>2, Tailed DEF TypeOK, ListsApart
  <2>4. is_timeout' = [is_timeout EXCEPT ![c] = FALSE]
    BY <2>2 DEF Hang
  <2>5. c # d
    BY <2>2 DEF HeldBy
  <2> QED BY <1>0, <2>2, <2>3, <2>4, <2>5 DEF HeldBy, TypeOK
<1>8. ASSUME DispatchResume PROVE Goal
  <2>1. PICK c : c = Head(active)
    OBVIOUS
  <2>2. /\ active # << >> /\ active' = Tail(active) /\ signalled' = signalled \ {c}
        /\ is_timeout' = [is_timeout EXCEPT ![c] = FALSE]
    BY <1>8, <2>1 DEF DispatchResume
  <2>3. c \in Co /\ ToSet(active') = ToSet(active) \ {c}
    BY <1>0, <2>1, <2>2, Tailed DEF TypeOK, ListsApart
  <2> QED BY <1>0, <2>2, <2>3 DEF HeldBy, TypeOK
<1>9. ASSUME LoopStep PROVE Goal
  <2>1. CASE Loop \/ DispatchEnd
    BY <1>3, <2>1 DEF Loop, DispatchEnd, wheelVars
  <2> QED BY <1>5, <1>6, <1>7, <1>8, <1>9, <2>1 DEF LoopStep
<1>10. ASSUME NEW c \in Resumers, NEW e \in Co, CoResume(c, e) PROVE Goal
  BY <1>3, <1>10 DEF CoResume, wheelVars
<1>11. ASSUME Tick \/ SetBack \/ \E f \in Fds : FdChanges(f) PROVE Goal
  BY <1>3, <1>11 DEF Tick, SetBack, FdChanges, wheelVars
<1>12. ASSUME UNCHANGED vars PROVE Goal
  BY <1>3, <1>12 DEF vars, wheelVars
<1> HIDE DEF Goal
<1>13. Goal
  BY <1>1, <1>4, <1>9, <1>10, <1>11, <1>12, Zenon DEF Next
<1> QED BY <1>13 DEF Goal

\* Who is signalled in a step is on the active list after it.
LEMMA SignalledNow ==
  ASSUME Inv, [Next]_vars, NEW d \in signalled' \ signalled
  PROVE  d \in ToSet(active')
<1>0. TypeOK
  BY DEF Inv
<1>1. PICK v \in Conds : CoCondSignal(v) \/ CoCondBroadcast(v)
  <2>1. ASSUME NEW c \in Co, EndTurn(c) PROVE signalled' = signalled
    BY <2>1 DEF EndTurn, CoYield, CoFunc, CoPoll, CoCondTimewait
  <2>2. ASSUME LoopStep PROVE signalled' \subseteq signalled
    BY <2>2 DEF LoopStep, Loop, EpollWait, Sweep, DispatchEarly, DispatchResume, DispatchEnd
  <2>3. ASSUME NEW c \in Resumers, NEW e \in Co, CoResume(c, e) PROVE signalled' = signalled
    BY <2>3 DEF CoResume
  <2>4. ASSUME Tick \/ SetBack \/ \E f \in Fds : FdChanges(f) PROVE signalled' = signalled
    BY <2>4 DEF Tick, SetBack, FdChanges
  <2>5. ASSUME UNCHANGED vars PROVE signalled' = signalled
    BY <2>5 DEF vars
  <2> QED BY <2>1, <2>2, <2>3, <2>4, <2>5, Zenon DEF Next
<1>2. PICK ds \in Seq(Co) :
        /\ Uniq(ds) /\ link' = Unhang(ToSet(ds)) /\ active' = ToActive(ds)
        /\ signalled' = signalled \cup ToSet(ds)
  BY <1>1, SignalIs
<1>3. ToSet(active') = ToSet(active) \cup ToSet(ds)
  BY <1>0, <1>2, WakesLists DEF Inv
<1> QED BY <1>2, <1>3

\* Whoever signals, a signalled waiter whose timer has not come out of the wheel
\* stays on the active list until it runs.
THEOREM SignalsStay == Spec => SignalStays
<1> DEFINE A == \A c \in Co :
       /\ c \in signalled' \ signalled => Contains(active', c)
       /\ c \in signalled /\ Contains(active, c) /\ ~is_timeout[c]
            => c \notin signalled' \/ (Contains(active', c) /\ ~is_timeout'[c])
<1>1. Inv /\ Inv' /\ [Next]_vars => [A]_vars
  <2> SUFFICES ASSUME Inv, Inv', [Next]_vars, NEW c \in Co
               PROVE  /\ c \in signalled' \ signalled => Contains(active', c)
                      /\ c \in signalled /\ Contains(active, c) /\ ~is_timeout[c]
                           => c \notin signalled' \/ (Contains(active', c) /\ ~is_timeout'[c])
    OBVIOUS
  <2>1. active \in Seq(Co) /\ active' \in Seq(Co) /\ is_timeout \in [Co -> BOOLEAN]
    BY DEF Inv, TypeOK
  <2>2. (Contains(active, c) <=> c \in ToSet(active)) /\ (Contains(active', c) <=> c \in ToSet(active'))
    BY <2>1, Members
  <2>3. ASSUME c \in signalled' \ signalled PROVE Contains(active', c)
    BY <2>2, <2>3, SignalledNow
  <2>4. ASSUME c \in signalled, Contains(active, c), ~is_timeout[c]
        PROVE  c \notin signalled' \/ (Contains(active', c) /\ ~is_timeout'[c])
    <3>1. HeldBy(c, is_timeout, active)
      BY <2>1, <2>2, <2>4 DEF HeldBy
    <3>2. c \notin signalled' \/ HeldBy(c, is_timeout', active')
      BY <2>4, <3>1, HeldNext
    <3> QED BY <2>2, <3>2 DEF HeldBy
  <2> QED BY <2>3, <2>4
<1> QED BY <1>1, LoopInvariance, PTL DEF Spec, SignalStays

------------------------------------------------------------------------------
\* What the timing wheel of module TimingWheel sees of this state.
WLink == [s \in Slots |-> ToSet(link[s])]
WExpire == [c \in Co |-> IF c \in InWheel \cup Taken THEN expire_time[c] ELSE 0]
WBase == [c \in Co |-> IF c \in InWheel \cup Taken THEN base[c] ELSE 0]

\* InWheel and Taken, in terms of the members of the lists,
LEMMA Seen ==
  ASSUME TypeOK
  PROVE  /\ InWheel = {c \in Co : \E s \in Slots : c \in ToSet(link[s])}
         /\ Taken = {c \in Co : c \in ToSet(active) /\ is_timeout[c]}
         /\ Wheel!Slots = Slots /\ Wheel!InWheel = InWheel
<1>1. \A s \in Slots : \A c : Contains(link[s], c) <=> c \in ToSet(link[s])
  BY Members DEF TypeOK
<1>2. \A c : Contains(active, c) <=> c \in ToSet(active)
  BY Members DEF TypeOK
<1>3. InWheel = {c \in Co : \E s \in Slots : c \in ToSet(link[s])}
  BY <1>1 DEF InWheel
<1>4. Taken = {c \in Co : c \in ToSet(active) /\ is_timeout[c]}
  BY <1>2 DEF Taken
<1>5. Wheel!Slots = Slots
  BY DEF Wheel!Slots, Slots
<1>6. Wheel!InWheel = {c \in Co : \E s \in Slots : c \in ToSet(link[s])}
  BY <1>5 DEF Wheel!InWheel
<1> QED BY <1>3, <1>4, <1>5, <1>6

\* and after a step.
LEMMA SeenNext ==
  ASSUME TypeOK'
  PROVE  /\ InWheel' = {c \in Co : \E s \in Slots : c \in ToSet(link'[s])}
         /\ Taken' = {c \in Co : c \in ToSet(active') /\ is_timeout'[c]}
<1>1. \A s \in Slots : \A c : Contains(link'[s], c) <=> c \in ToSet(link'[s])
  BY Members DEF TypeOK
<1>2. \A c : Contains(active', c) <=> c \in ToSet(active')
  BY Members DEF TypeOK
<1>3. InWheel' = {c \in Co : \E s \in Slots : c \in ToSet(link'[s])}
  BY <1>1 DEF InWheel
<1>4. Taken' = {c \in Co : c \in ToSet(active') /\ is_timeout'[c]}
  BY <1>2 DEF Taken
<1> QED BY <1>3, <1>4

\* A step the wheel does not see.
LEMMA Unseen ==
  ASSUME UNCHANGED <<clock, start, start_idx>>, WLink' = WLink, Taken' = Taken,
         WExpire' = WExpire, WBase' = WBase
  PROVE  UNCHANGED Wheel!vars
BY Zenon DEF Wheel!vars, WLink, WExpire, WBase

\* Nor does it see one that leaves its items alone.
LEMMA SameSeen ==
  ASSUME UNCHANGED <<clock, wheelVars, active>>
  PROVE  UNCHANGED Wheel!vars
<1>1. InWheel' = InWheel /\ Taken' = Taken
  BY DEF InWheel, Taken, wheelVars
<1>2. WLink' = WLink /\ WExpire' = WExpire /\ WBase' = WBase
  BY <1>1 DEF WLink, WExpire, WBase, wheelVars
<1> QED BY <1>1, <1>2, Unseen DEF wheelVars

\* Where an item is.
LEMMA OnePlace ==
  ASSUME Inv
  PROVE  /\ InWheel \cap Taken = {}
         /\ \A c \in InWheel : is_timeout[c] = FALSE /\ c \notin ToSet(active)
         /\ \A c \in Co : is_timeout[c] <=> c \in Taken
<1>1. TypeOK /\ ListsApart /\ Causes /\ Timed
  BY DEF Inv
<1>2. \A c \in InWheel : is_timeout[c] = FALSE /\ c \notin ToSet(active)
  BY <1>1, Seen DEF ListsApart, Causes
<1>3. \A c \in Co : is_timeout[c] <=> c \in Taken
  BY <1>1, Seen DEF Timed
<1> QED BY <1>1, <1>2, <1>3, Seen

\* RemoveFromLink.
LEMMA WakeSeen ==
  ASSUME Inv, TypeOK', NEW ds \in Seq(Co), Uniq(ds),
         link' = Unhang(ToSet(ds)), active' = ToActive(ds),
         UNCHANGED <<clock, start, start_idx, expire_time, is_timeout, base>>
  PROVE  \/ UNCHANGED Wheel!vars
         \/ \E S \in SUBSET Wheel!InWheel : Wheel!TimeoutRemoveFromLink(S)
<1>1. TypeOK /\ ListsApart
  BY DEF Inv
<1>2. PICK S : S = ToSet(ds)
  OBVIOUS
<1>3. /\ ToSet(active') = ToSet(active) \cup S
      /\ \A s \in Slots : ToSet(link'[s]) = ToSet(link[s]) \ S
  BY <1>1, <1>2, WakesLists
<1>4. Taken' = Taken
  BY <1>1, <1>3, Seen, SeenNext DEF Inv, Timed
<1>5. InWheel' = InWheel \ S
  BY <1>1, <1>3, Seen, SeenNext
<1>6. PICK R : R = S \cap InWheel
  OBVIOUS
<1>7. \A s \in Slots : ToSet(link[s]) \ S = ToSet(link[s]) \ R
  <2> SUFFICES ASSUME NEW s \in Slots PROVE ToSet(link[s]) \cap S \subseteq R
    BY <1>6
  <2>1. ToSet(link[s]) \subseteq InWheel
    <3>1. link[s] \in Seq(Co)
      BY <1>1 DEF TypeOK
    <3>2. ToSet(link[s]) \subseteq Co
      BY <3>1, Members
    <3> QED BY <1>1, <3>2, Seen
  <2> QED BY <1>6, <2>1
<1>8. InWheel' = InWheel \ R /\ R \subseteq InWheel /\ R \cap Taken = {}
  BY <1>5, <1>6, OnePlace
<1>9. WLink' = [s \in Slots |-> WLink[s] \ R]
  BY <1>3, <1>7 DEF WLink
<1>10. \A i \in Co : (i \in InWheel' \cup Taken') <=> (i \in InWheel \cup Taken /\ i \notin R)
  BY <1>4, <1>8
<1>11. WExpire' = [i \in Co |-> IF i \in R THEN 0 ELSE WExpire[i]]
  BY <1>10 DEF WExpire
<1>12. WBase' = [i \in Co |-> IF i \in R THEN 0 ELSE WBase[i]]
  BY <1>10 DEF WBase
<1>13. CASE R = {}
  <2>1. WLink' = WLink
    BY <1>9, <1>13 DEF WLink
  <2>2. WExpire' = WExpire /\ WBase' = WBase
    BY <1>11, <1>12, <1>13 DEF WExpire, WBase
  <2> QED BY <1>4, <2>1, <2>2, Unseen
<1>14. CASE R # {}
  <2>1. R \in SUBSET Wheel!InWheel /\ Wheel!Slots = Slots
    BY <1>1, <1>8, Seen
  <2>2. Wheel!Forget(R)
    BY <1>11, <1>12, Zenon DEF Wheel!Forget, WExpire, WBase
  <2>3. WLink' = [s \in Wheel!Slots |-> WLink[s] \ R]
    BY <1>9, <2>1, Zenon
  <2>4. Wheel!TimeoutRemoveFromLink(R)
    BY <1>4, <1>14, <2>1, <2>2, <2>3, Zenon DEF Wheel!TimeoutRemoveFromLink, WLink
  <2> QED BY <2>1, <2>4, Zenon
<1> QED BY <1>13, <1>14

\* TimerItemAdd.
LEMMA HangSeen ==
  ASSUME Inv, TypeOK', NEW c \in Co, NEW e \in Nat, NEW t \in Nat, Hang(c, e, t),
         t >= start, e >= t, c \notin InWheel, ToSet(active') = ToSet(active) \ {c}
  PROVE  /\ Wheel!Hang(c, e, t) /\ Taken' = Taken \ {c}
<1>1. TypeOK
  BY DEF Inv
<1>2. /\ start' = start /\ start_idx' = start_idx
      /\ expire_time' = [expire_time EXCEPT ![c] = e]
      /\ is_timeout' = [is_timeout EXCEPT ![c] = FALSE]
      /\ base' = [base EXCEPT ![c] = start]
  BY <1>1, HangsLists
<1>3. PICK h \in Slots :
        /\ h = Wheel!SlotOf(start, start_idx, e)
        /\ ToSet(link'[h]) = ToSet(link[h]) \cup {c}
        /\ \A r \in Slots \ {h} : link'[r] = link[r]
  BY <1>1, HangsLists
<1>4. InWheel' = InWheel \cup {c}
  BY <1>1, <1>3, Seen, SeenNext
<1>5. Taken' = Taken \ {c}
  BY <1>1, <1>2, Seen, SeenNext DEF TypeOK
<1>6. WLink' = [WLink EXCEPT ![h] = @ \cup {c}]
  BY <1>3 DEF WLink
<1>7. \A d \in Co \ {c} : d \in InWheel' \cup Taken' <=> d \in InWheel \cup Taken
  BY <1>4, <1>5
<1>8. c \in InWheel'
  BY <1>4
<1>9. WExpire' = [WExpire EXCEPT ![c] = e]
  BY <1>1, <1>2, <1>7, <1>8 DEF WExpire, TypeOK
<1>10. WBase' = [WBase EXCEPT ![c] = start]
  BY <1>1, <1>2, <1>7, <1>8 DEF WBase, TypeOK
<1>11. Wheel!StartAt(t) = start /\ Wheel!IdxAt(t) = start_idx
  BY <1>1, StartedAt
<1>12. WLink' = [WLink EXCEPT ![Wheel!SlotOf(start, start_idx, e)] = @ \cup {c}]
  BY <1>3, <1>6
<1>13. Wheel!Hang(c, e, t)
  BY <1>2, <1>9, <1>10, <1>11, <1>12, Zenon DEF Wheel!Hang, WLink, WExpire, WBase
<1> QED BY <1>5, <1>13

\* CoPoll and CoCondTimewait with a timer.
LEMMA AddSeen ==
  ASSUME Inv, TypeOK', NEW c \in Co, Self = c, NEW timeout \in 0 .. IntMax, CanHang(clock),
         Hang(c, clock + timeout, clock), UNCHANGED <<clock, active>>
  PROVE  Wheel!TimerItemAdd(c, timeout)
<1>1. TypeOK /\ StackOK
  BY DEF Inv
<1>2. st[c] = "running"
  BY <1>1, SelfRuns
<1>3. c \notin ToSet(active) /\ c \notin InWheel /\ c \notin Taken
  <2>1. c \notin ToSet(active) /\ \A s \in Slots : c \notin ToSet(link[s])
    BY <1>2 DEF Inv, ListsHold
  <2> QED BY <1>1, <2>1, Seen
<1>4. clock \in Nat /\ clock + timeout \in Nat /\ clock >= start /\ clock + timeout >= clock
  <2>1. clock >= start
    BY <1>1, StartedAt DEF CanHang
  <2>2. clock \in Nat
    BY <1>1 DEF TypeOK
  <2> QED BY <2>1, <2>2
<1>5. ToSet(active') = ToSet(active) \ {c}
  BY <1>3
<1>6. Wheel!Hang(c, clock + timeout, clock) /\ Taken' = Taken \ {c}
  <2>1. PICK t \in Nat : t = clock
    BY <1>4
  <2>2. PICK e \in Nat : e = clock + timeout
    BY <1>4
  <2>3. Hang(c, e, t) /\ t >= start /\ e >= t
    BY <1>4, <2>1, <2>2, Zenon
  <2>4. Wheel!Hang(c, e, t) /\ Taken' = Taken \ {c}
    BY <1>3, <1>5, <2>3, HangSeen
  <2> QED BY <2>1, <2>2, <2>4, Zenon DEF Wheel!Hang
<1>7. Taken' = Taken
  BY <1>3, <1>6
<1>8. c \in Wheel!Free
  BY <1>1, <1>3, Seen DEF Wheel!Free
<1> QED BY <1>6, <1>7, <1>8, Zenon DEF Wheel!TimerItemAdd

\* TimeoutLinkAllTake.
LEMMA SweepSeen ==
  ASSUME Inv, TypeOK', Sweep
  PROVE  UNCHANGED Wheel!vars \/ Wheel!TimeoutLinkAllTake
<1>1. TypeOK /\ ListsApart /\ Timed
  BY DEF Inv
<1>2. /\ phase = "sweep" /\ UNCHANGED <<clock, expire_time, base>>
  BY DEF Sweep
<1>3. \A c \in Co : is_timeout[c] = FALSE
  BY <1>1, <1>2 DEF Timed, TypeOK
<1>4. Taken = {}
  BY <1>1, <1>3, Seen
<1>5. Wheel!StartAt(clock) = start /\ Wheel!IdxAt(clock) = start_idx
  BY <1>1, StartedAt
<1>6. CASE clock < start
  <2>1. ~(clock >= start)
    BY <1>1, <1>6 DEF TypeOK
  <2>2. UNCHANGED <<active, is_timeout, link, start, start_idx>>
    BY <1>5, <2>1 DEF Sweep
  <2> QED BY <1>2, <2>2, SameSeen DEF wheelVars
<1>7. CASE clock >= start
  <2>1. PICK W : W = Wheel!Swept(start, start_idx, clock)
    OBVIOUS
  <2>2. PICK out \in Seq(Co) :
          /\ Uniq(out)
          /\ ToSet(out) = UNION {ToSet(link[s]) : s \in W}
          /\ W \subseteq Slots
          /\ active' = active \o out
          /\ is_timeout' = [c \in Co |-> is_timeout[c] \/ c \in ToSet(out)]
          /\ link' = Unhang(ToSet(out))
          /\ start' = clock
          /\ start_idx' = start_idx + Wheel!SweepCount(start, clock) - 1
    BY <1>1, <1>7, <2>1, SweepIs
  <2>3. /\ ToSet(active') = ToSet(active) \cup ToSet(out)
        /\ \A s \in Slots : ToSet(link'[s]) = IF s \in W THEN {} ELSE ToSet(link[s])
    BY <1>1, <2>2, SweepLists
  <2>4. ToSet(out) \subseteq Co
    BY <2>2, Members
  <2>5. Taken' = ToSet(out)
    BY <1>3, <2>2, <2>3, <2>4, SeenNext
  <2>6. WLink' = [s \in Slots |-> IF s \in W THEN {} ELSE WLink[s]]
    BY <2>3 DEF WLink
  <2>7. Taken' = UNION {WLink[s] : s \in W}
    <3>1. UNION {WLink[s] : s \in W} = UNION {ToSet(link[s]) : s \in W}
      BY <2>2 DEF WLink
    <3> QED BY <2>2, <2>5, <3>1
  <2>8. \A c \in Co : c \in InWheel' \cup Taken' <=> c \in InWheel \cup Taken
    <3> SUFFICES ASSUME NEW c \in Co
                 PROVE  c \in InWheel' \cup Taken' <=> c \in InWheel
      BY <1>4
    <3>1. c \in Taken' <=> \E s \in W : c \in ToSet(link[s])
      BY <2>2, <2>5
    <3>2. c \in InWheel' <=> \E s \in Slots \ W : c \in ToSet(link[s])
      BY <2>3, SeenNext
    <3>3. c \in InWheel <=> \E s \in Slots : c \in ToSet(link[s])
      BY <1>1, Seen
    <3> QED BY <2>2, <3>1, <3>2, <3>3
  <2>9. WExpire' = WExpire /\ WBase' = WBase
    BY <1>2, <2>8 DEF WExpire, WBase
  <2>10. /\ WLink' = [s \in Wheel!Slots |-> IF s \in Wheel!Swept(start, start_idx, clock)
                                          THEN {} ELSE WLink[s]]
         /\ Taken' = UNION {WLink[s] : s \in Wheel!Swept(start, start_idx, clock)}
    BY <1>1, <2>1, <2>6, <2>7, Seen
  <2>11. Wheel!TimeoutLinkAllTake
    BY <1>2, <1>4, <1>5, <1>7, <2>2, <2>9, <2>10, Zenon
       DEF Wheel!TimeoutLinkAllTake, WLink, WExpire, WBase
  <2> QED BY <2>11
<1> QED BY <1>1, <1>6, <1>7 DEF TypeOK

\* The item that is hung in again.
LEMMA EarlySeen ==
  ASSUME Inv, TypeOK', DispatchEarly
  PROVE  \E c \in Co : Wheel!HangAgain(c)
<1>1. TypeOK /\ ListsApart /\ Timed
  BY DEF Inv
<1>2. PICK c : c = Head(active)
  OBVIOUS
<1>3. /\ active # << >> /\ active' = Tail(active) /\ is_timeout[c] /\ now < expire_time[c]
      /\ Hang(c, expire_time[c], now) /\ UNCHANGED clock
  BY <1>2 DEF DispatchEarly, IsEarly
<1>4. /\ c \in Co /\ c \in ToSet(active) /\ ToSet(active') = ToSet(active) \ {c}
  BY <1>1, <1>2, <1>3, Tailed DEF TypeOK, ListsApart
<1>5. now = start /\ c \in Taken /\ c \notin InWheel
  BY <1>1, <1>3, <1>4, OnePlace DEF Timed
<1>6. PICK e \in Nat : e = expire_time[c]
  BY <1>1, <1>4 DEF TypeOK
<1>7. start \in Nat /\ start < e
  <2>1. start < e
    BY <1>3, <1>5, <1>6, Zenon
  <2> QED BY <1>1, <2>1 DEF TypeOK
<1>8. Hang(c, e, start)
  BY <1>3, <1>5, <1>6, Zenon
<1>9. Wheel!Hang(c, e, start) /\ Taken' = Taken \ {c}
  <2>1. PICK t \in Nat : t = start
    BY <1>7
  <2>2. t >= start /\ e >= t
    BY <1>7, <2>1
  <2>3. Hang(c, e, t)
    BY <1>8, <2>1, Zenon
  <2>4. Wheel!Hang(c, e, t) /\ Taken' = Taken \ {c}
    BY <1>4, <1>5, <2>2, <2>3, HangSeen
  <2> QED BY <2>1, <2>4, Zenon DEF Wheel!Hang
<1>10. WExpire[c] = e
  BY <1>4, <1>5, <1>6 DEF WExpire
<1>11. /\ start < WExpire[c] /\ Wheel!Hang(c, WExpire[c], start)
  BY <1>7, <1>9, <1>10, Zenon
<1>12. Wheel!HangAgain(c)
  BY <1>3, <1>5, <1>9, <1>11, Zenon DEF Wheel!HangAgain, WExpire
<1> QED BY <1>4, <1>12

\* The coroutine of an item that came out of the wheel is resumed.
LEMMA ResumeSeen ==
  ASSUME Inv, TypeOK', DispatchResume
  PROVE  UNCHANGED Wheel!vars \/ \E c \in Co : Wheel!Process(c)
<1>1. TypeOK /\ ListsApart
  BY DEF Inv
<1>2. PICK c : c = Head(active)
  OBVIOUS
<1>3. /\ active # << >> /\ active' = Tail(active)
      /\ expire_time' = [expire_time EXCEPT ![c] = 0]
      /\ is_timeout' = [is_timeout EXCEPT ![c] = FALSE]
      /\ base' = [base EXCEPT ![c] = 0]
      /\ UNCHANGED <<clock, link, start, start_idx>>
  BY <1>2 DEF DispatchResume
<1>4. c \in Co /\ c \in ToSet(active) /\ ToSet(active') = ToSet(active) \ {c}
  BY <1>1, <1>2, <1>3, Tailed DEF TypeOK, ListsApart
<1>5. c \notin InWheel /\ InWheel' = InWheel
  BY <1>1, <1>3, <1>4, OnePlace, Seen, SeenNext
<1>6. Taken' = Taken \ {c}
  BY <1>1, <1>3, <1>4, Seen, SeenNext DEF TypeOK
<1>7. WLink' = WLink
  BY <1>3 DEF WLink
<1>8. \A i \in Co : i \in InWheel' \cup Taken' <=> (i \in InWheel \cup Taken /\ i # c)
  BY <1>5, <1>6
<1>9. WExpire' = [i \in Co |-> IF i \in {c} THEN 0 ELSE WExpire[i]]
  BY <1>1, <1>3, <1>4, <1>8 DEF WExpire, TypeOK
<1>10. WBase' = [i \in Co |-> IF i \in {c} THEN 0 ELSE WBase[i]]
  BY <1>1, <1>3, <1>4, <1>8 DEF WBase, TypeOK
<1>11. CASE c \in Taken
  <2>1. Wheel!Forget({c})
    BY <1>9, <1>10, Zenon DEF Wheel!Forget, WExpire, WBase
  <2>2. Wheel!Process(c)
    BY <1>3, <1>6, <1>7, <1>11, <2>1, Zenon DEF Wheel!Process, WLink
  <2> QED BY <1>4, <2>2
<1>12. CASE c \notin Taken
  <2>1. Taken' = Taken
    BY <1>6, <1>12
  <2>2. WExpire' = WExpire /\ WBase' = WBase
    BY <1>5, <1>9, <1>10, <1>12 DEF WExpire, WBase
  <2> QED BY <1>3, <1>7, <2>1, <2>2, Unseen
<1> QED BY <1>11, <1>12

\* Time.
LEMMA ClockSeen ==
  ASSUME Inv, Tick \/ SetBack
  PROVE  Wheel!Tick \/ Wheel!SetBack
<1>1. UNCHANGED <<wheelVars, active>>
  BY DEF Tick, SetBack
<1>2. InWheel' = InWheel /\ Taken' = Taken
  BY <1>1 DEF InWheel, Taken, wheelVars
<1>3. WLink' = WLink /\ WExpire' = WExpire /\ WBase' = WBase
  BY <1>1, <1>2 DEF WLink, WExpire, WBase, wheelVars
<1>4. start' = start /\ start_idx' = start_idx
  BY <1>1 DEF wheelVars
<1>5. CASE Tick
  <2>1. clock < MaxTime /\ clock' \in clock + 1 .. MaxTime
    BY <1>5, LoopAssumption DEF Tick, Inv, TypeOK
  <2>2. Wheel!Tick
    BY <1>2, <1>3, <1>4, <2>1, Zenon DEF Wheel!Tick, WLink, WExpire, WBase
  <2> QED BY <2>2
<1>6. CASE SetBack
  <2>1. clock' \in 1 .. clock - 1
    BY <1>6 DEF SetBack
  <2>2. Wheel!SetBack
    BY <1>2, <1>3, <1>4, <2>1, Zenon DEF Wheel!SetBack, WLink, WExpire, WBase
  <2> QED BY <2>2
<1> QED BY <1>5, <1>6

\* The loop begins with a new wheel,
LEMMA InitSeen == Init => Wheel!Init
<1> SUFFICES ASSUME Init PROVE Wheel!Init
  OBVIOUS
<1>1. TypeOK /\ Wheel!Slots = Slots
  BY InvInit, Seen DEF Inv
<1>2. ToSet(<< >>) = {}
  BY Nothing
<1>3. \A s \in Slots : ToSet(link[s]) = {}
  BY <1>2 DEF Init
<1>4. InWheel = {} /\ Taken = {}
  BY <1>1, <1>3, Seen DEF Init
<1>5. WLink = [s \in Wheel!Slots |-> {}]
  BY <1>1, <1>3 DEF WLink
<1>6. WExpire = [c \in Co |-> 0] /\ WBase = [c \in Co |-> 0]
  BY <1>4 DEF WExpire, WBase
<1>7. clock \in 1 .. MaxTime /\ start = clock /\ start_idx = 0
  BY LoopAssumption DEF Init
<1> QED BY <1>4, <1>5, <1>6, <1>7, Zenon DEF Wheel!Init, WLink, WExpire, WBase

\* and each of its steps is one of the wheel or leaves the wheel alone.
LEMMA StepSeen ==
  ASSUME Inv, [Next]_vars
  PROVE  [Wheel!Next]_(Wheel!vars)
<1>0. TypeOK /\ TypeOK'
  BY InvNext DEF Inv
<1>1. ASSUME UNCHANGED <<clock, wheelVars, active>> PROVE [Wheel!Next]_(Wheel!vars)
  BY <1>1, SameSeen
<1>2. ASSUME NEW c \in Co, NEW timeout \in 0 .. IntMax, Wheel!TimerItemAdd(c, timeout)
      PROVE  Wheel!Next
  BY <1>2, Zenon DEF Wheel!Next
<1>3. ASSUME NEW c \in Co, EndTurn(c) PROVE [Wheel!Next]_(Wheel!vars)
  <2>1. CASE CoYield(c) \/ CoFunc(c)
    BY <1>1, <2>1 DEF CoYield, CoFunc
  <2>2. ASSUME NEW F \in SUBSET Fds, NEW timeout \in Timeouts \cup {-1}, CoPoll(c, F, timeout)
        PROVE  [Wheel!Next]_(Wheel!vars)
    <3>1. PICK n : n = IF timeout < 0 THEN IntMax ELSE timeout
      OBVIOUS
    <3>2. n \in 0 .. IntMax
      BY <3>1, LoopAssumption
    <3>3. CASE CanHang(clock)
      <4>1. Self = c /\ Hang(c, clock + n, clock) /\ UNCHANGED <<clock, active>>
        BY <2>2, <3>1, <3>3 DEF CoPoll
      <4>2. Wheel!TimerItemAdd(c, n)
        BY <1>0, <3>2, <3>3, <4>1, AddSeen
      <4> QED BY <1>2, <3>2, <4>2
    <3>4. CASE ~CanHang(clock)
      BY <1>1, <2>2, <3>4 DEF CoPoll
    <3> QED BY <3>3, <3>4
  <2>3. ASSUME NEW v \in Conds, NEW timeout \in Timeouts \cup {0}, CoCondTimewait(c, v, timeout)
        PROVE  [Wheel!Next]_(Wheel!vars)
    <3>1. timeout \in 0 .. IntMax
      BY LoopAssumption
    <3>2. CASE timeout > 0
      <4>1. /\ Self = c /\ CanHang(clock) /\ Hang(c, clock + timeout, clock)
            /\ UNCHANGED <<clock, active>>
        BY <2>3, <3>1, <3>2 DEF CoCondTimewait
      <4>2. Wheel!TimerItemAdd(c, timeout)
        BY <1>0, <3>1, <4>1, AddSeen
      <4> QED BY <1>2, <3>1, <4>2
    <3>3. CASE ~(timeout > 0)
      BY <1>1, <2>3, <3>3 DEF CoCondTimewait
    <3> QED BY <3>2, <3>3
  <2> QED BY <1>3, <2>1, <2>2, <2>3, TurnIs
<1>4. ASSUME \/ UNCHANGED Wheel!vars
             \/ \E S \in SUBSET Wheel!InWheel : Wheel!TimeoutRemoveFromLink(S)
      PROVE  [Wheel!Next]_(Wheel!vars)
  BY <1>4, Zenon DEF Wheel!Next
<1>5. ASSUME NEW v \in Conds, CoCondSignal(v) \/ CoCondBroadcast(v)
      PROVE  [Wheel!Next]_(Wheel!vars)
  <2>1. PICK ds \in Seq(Co) :
          /\ Uniq(ds) /\ link' = Unhang(ToSet(ds)) /\ active' = ToActive(ds)
          /\ UNCHANGED <<clock, start, start_idx, expire_time, is_timeout, base>>
    BY <1>5, SignalIs
  <2> QED BY <1>0, <1>4, <2>1, WakeSeen
<1>6. ASSUME EpollWait PROVE [Wheel!Next]_(Wheel!vars)
  <2>1. PICK fresh \in Seq(Co) :
          Uniq(fresh) /\ link' = Unhang(ToSet(fresh)) /\ active' = ToActive(fresh)
    BY <1>6, EpollWaitIs
  <2>2. UNCHANGED <<clock, start, start_idx, expire_time, is_timeout, base>>
    BY <1>6 DEF EpollWait
  <2> QED BY <1>0, <1>4, <2>1, <2>2, WakeSeen
<1>7. ASSUME Sweep PROVE [Wheel!Next]_(Wheel!vars)
  BY <1>0, <1>7, SweepSeen, Zenon DEF Wheel!Next
<1>8. ASSUME DispatchEarly PROVE [Wheel!Next]_(Wheel!vars)
  BY <1>0, <1>8, EarlySeen, Zenon DEF Wheel!Next
<1>9. ASSUME DispatchResume PROVE [Wheel!Next]_(Wheel!vars)
  BY <1>0, <1>9, ResumeSeen, Zenon DEF Wheel!Next
<1>10. ASSUME LoopStep PROVE [Wheel!Next]_(Wheel!vars)
  <2>1. CASE Loop \/ DispatchEnd
    BY <1>1, <2>1 DEF Loop, DispatchEnd
  <2> QED BY <1>6, <1>7, <1>8, <1>9, <1>10, <2>1, Zenon DEF LoopStep
<1>11. ASSUME NEW c \in Resumers, NEW d \in Co, CoResume(c, d) PROVE [Wheel!Next]_(Wheel!vars)
  BY <1>1, <1>11 DEF CoResume
<1>12. ASSUME Tick \/ SetBack PROVE [Wheel!Next]_(Wheel!vars)
  BY <1>12, ClockSeen, Zenon DEF Wheel!Next
<1>13. ASSUME NEW f \in Fds, FdChanges(f) PROVE [Wheel!Next]_(Wheel!vars)
  BY <1>1, <1>13 DEF FdChanges
<1>14. ASSUME UNCHANGED vars PROVE [Wheel!Next]_(Wheel!vars)
  BY <1>1, <1>14 DEF vars
<1> QED BY <1>3, <1>5, <1>10, <1>11, <1>12, <1>13, <1>14, Zenon DEF Next

\* The event loop implements the timing wheel: CoPoll and CoCondTimewait hang in
\* an item that is in no list, events and signals take items out of the slots,
\* and CoEventloop processes what a sweep hands out before it sweeps again.
THEOREM WheelIsDriven == Spec => WheelRefined
BY InitSeen, StepSeen, LoopInvariance, PTL DEF Spec, WheelRefined, Wheel!Spec

\* The wheel the proofs of module TimingWheelProofs are about is the same.
LEMMA SameWheel ==
  /\ Wheel!Init => Turning!Init
  /\ [Wheel!Next]_(Wheel!vars) => [Turning!Next]_(Turning!vars)
<1>1. Wheel!Init => Turning!Init
  BY Zenon DEF Wheel!Init, Turning!Init, Wheel!Slots, Turning!Slots
<1>2. Wheel!vars = Turning!vars /\ (UNCHANGED Wheel!vars => UNCHANGED Turning!vars)
  BY Zenon DEF Wheel!vars, Turning!vars
<1>3. Wheel!Next => Turning!Next
  BY Zenon DEF Wheel!Next, Turning!Next, Wheel!Tick, Turning!Tick, Wheel!SetBack, Turning!SetBack,
    Wheel!TimeoutLinkAllTake, Turning!TimeoutLinkAllTake, Wheel!TimerItemAdd, Turning!TimerItemAdd,
    Wheel!HangAgain, Turning!HangAgain, Wheel!Process, Turning!Process,
    Wheel!TimeoutRemoveFromLink, Turning!TimeoutRemoveFromLink, Wheel!Hang, Turning!Hang,
    Wheel!Forget, Turning!Forget, Wheel!Free, Turning!Free, Wheel!InWheel, Turning!InWheel,
    Wheel!Slots, Turning!Slots, Wheel!StartAt, Turning!StartAt, Wheel!IdxAt, Turning!IdxAt,
    Wheel!SlotOf, Turning!SlotOf, Wheel!Diff, Turning!Diff, Wheel!SweepCount, Turning!SweepCount,
    Wheel!Swept, Turning!Swept, Wheel!ToInt, Turning!ToInt
<1> QED BY <1>1, <1>2, <1>3, Zenon

\* Hence what is proved of the wheel holds of the loop: a slot stands for the
\* time it was computed for, a sweep leaves nothing behind that is due, and an
\* item comes out before its time only if its timeout reached beyond the wheel.
THEOREM TimersAreKept ==
  Spec => []Turning!SlotIsTime /\ Turning!SweepTakesDue /\ Turning!EarlyOnlyIfLong
<1>1. Turning!Spec => Turning!SweepTakesDue
  BY WheelAssumed, Turning!NothingLate
<1>2. Turning!Spec => Turning!EarlyOnlyIfLong
  BY WheelAssumed, Turning!OnlyLongEarly
<1>3. Turning!Spec => []Turning!SlotIsTime
  BY WheelAssumed, Turning!SlotsKeepTime
<1>4. Spec => Turning!Spec
  BY InitSeen, StepSeen, SameWheel, LoopInvariance, PTL DEF Spec, Turning!Spec
<1> QED BY <1>1, <1>2, <1>3, <1>4, PTL
==============================================================================
