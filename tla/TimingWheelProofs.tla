-------------------------- MODULE TimingWheelProofs --------------------------
(* Proofs about TimingWheel for any number of slots, any set of items and any *)
(* behaviour of the clock within the bounds.  The argument: the slot s of an  *)
(* item and its time are tied by start + ((s - start_idx) mod slot_size); the *)
(* tie is made by TimerItemAdd and kept by a sweep, which moves start and     *)
(* start_idx by the same amount unless it takes every slot.                   *)
EXTENDS TimingWheel, TLAPS

------------------------------------------------------------------------------
\* Arithmetic modulo a positive n: the remainder is the one number of 0..n-1
\* that differs from x by a multiple of n.

LEMMA ModSplit ==
  ASSUME NEW n \in Nat \ {0}, NEW x \in Int
  PROVE  /\ x % n \in 0 .. n - 1
         /\ \E q \in Int : x = q * n + (x % n)
<1>1. x = (x \div n) * n + (x % n)
  OBVIOUS
<1>2. x \div n \in Int
  OBVIOUS
<1>3. x % n \in 0 .. n - 1
  OBVIOUS
<1> QED
  BY <1>1, <1>2, <1>3

LEMMA MultipleStep ==
  ASSUME NEW n \in Nat \ {0}, NEW a \in Int, NEW b \in Int, a < b
  PROVE  a * n + n <= b * n
<1>1. b - a >= 1
  OBVIOUS
<1>2. (b - a) * n >= n
  BY <1>1
<1>3. (b - a) * n = b * n - a * n
  OBVIOUS
<1> QED
  BY <1>2, <1>3

LEMMA SplitUnique ==
  ASSUME NEW n \in Nat \ {0}, NEW a \in Int, NEW b \in Int,
         NEW r \in 0 .. n - 1, NEW s \in 0 .. n - 1, a * n + r = b * n + s
  PROVE  r = s
<1>0. a * n \in Int /\ b * n \in Int
  OBVIOUS
<1>1. ~(a < b)
  <2> SUFFICES ASSUME a < b PROVE FALSE
    OBVIOUS
  <2>1. a * n + n <= b * n
    BY MultipleStep
  <2> QED
    BY <1>0, <2>1
<1>2. ~(b < a)
  <2> SUFFICES ASSUME b < a PROVE FALSE
    OBVIOUS
  <2>1. b * n + n <= a * n
    BY MultipleStep
  <2> QED
    BY <1>0, <2>1
<1>3. a * n = b * n
  BY <1>1, <1>2
<1> QED
  BY <1>0, <1>3

LEMMA ModUnique ==
  ASSUME NEW n \in Nat \ {0}, NEW x \in Int, NEW q \in Int, NEW r \in 0 .. n - 1,
         x = q * n + r
  PROVE  x % n = r
<1>1. PICK p \in Int : x = p * n + (x % n)
  BY ModSplit
<1>2. x % n \in 0 .. n - 1
  BY ModSplit
<1>3. p * n + (x % n) = q * n + r
  BY <1>1
<1> QED
  BY <1>2, <1>3, SplitUnique

\* The conversion to int changes nothing in the range of the clock.
LEMMA ToIntSmall ==
  ASSUME NEW n \in 0 .. IntMax
  PROVE  ToInt(n) = n
<1> DEFINE k == IntMax + 1
<1>1. k \in Nat \ {0} /\ 2 * k \in Nat \ {0} /\ n + k \in 0 .. 2 * k - 1
  BY WheelAssumption
<1>3. ASSUME NEW m \in Nat \ {0}, NEW x \in 0 .. m - 1 PROVE x % m = x
  <2>1. x = 0 * m + x /\ x \in Int
    OBVIOUS
  <2> QED
    BY <2>1, ModUnique
<1>4. (n + k) % (2 * k) = n + k
  BY <1>1, <1>3
<1> QED
  BY <1>1, <1>4, WheelAssumption DEF ToInt

------------------------------------------------------------------------------
\* Slots and offsets.

\* The slot d places after idx is a slot, and lies d places after idx.
LEMMA SlotAfter ==
  ASSUME NEW idx \in Int, NEW d \in Slots
  PROVE  /\ (idx + d) % slot_size \in Slots
         /\ (((idx + d) % slot_size) - idx) % slot_size = d
<1> DEFINE s == (idx + d) % slot_size
<1>1. slot_size \in Nat \ {0} /\ d \in 0 .. slot_size - 1 /\ idx + d \in Int
  BY WheelAssumption DEF Slots
<1>2. PICK q \in Int : idx + d = q * slot_size + s
  BY <1>1, ModSplit
<1>3. s \in Slots
  BY <1>1, ModSplit DEF Slots
<1>4. s - idx = (-q) * slot_size + d
  BY <1>1, <1>2, <1>3 DEF Slots
<1>5. s - idx \in Int /\ -q \in Int
  BY <1>1, <1>3 DEF Slots
<1>6. (s - idx) % slot_size = d
  BY <1>1, <1>4, <1>5, ModUnique
<1> QED
  BY <1>3, <1>6

\* Turning the wheel by k brings a slot that is at least k away nearer by k.
LEMMA Turn ==
  ASSUME NEW s \in Slots, NEW idx \in Int, NEW k \in Nat, k <= (s - idx) % slot_size
  PROVE  (s - (idx + k)) % slot_size = ((s - idx) % slot_size) - k
<1> DEFINE o == (s - idx) % slot_size
<1>1. slot_size \in Nat \ {0} /\ s \in Int /\ s - idx \in Int
  BY WheelAssumption DEF Slots
<1>2. PICK q \in Int : s - idx = q * slot_size + o
  BY <1>1, ModSplit
<1>3. o \in 0 .. slot_size - 1
  BY <1>1, ModSplit
<1>4. o - k \in 0 .. slot_size - 1
  BY <1>1, <1>3
<1>5. s - (idx + k) = q * slot_size + (o - k) /\ s - (idx + k) \in Int
  BY <1>1, <1>2, <1>3
<1> QED
  BY <1>1, <1>4, <1>5, ModUnique

\* A sweep of cnt slots takes exactly those less than cnt places away.
LEMMA SweptSlots ==
  ASSUME NEW s \in Slots, NEW idx \in Int, NEW cnt \in 0 .. slot_size
  PROVE  s \in {(idx + k) % slot_size : k \in 0 .. cnt - 1} <=> (s - idx) % slot_size < cnt
<1>1. slot_size \in Nat \ {0} /\ s \in 0 .. slot_size - 1 /\ s - idx \in Int
  BY WheelAssumption DEF Slots
<1>2. ASSUME NEW k \in 0 .. cnt - 1, s = (idx + k) % slot_size
      PROVE  (s - idx) % slot_size < cnt
  <2>1. k \in Slots
    BY <1>1 DEF Slots
  <2> QED
    BY <1>2, <2>1, SlotAfter
<1>3. ASSUME (s - idx) % slot_size < cnt
      PROVE  \E k \in 0 .. cnt - 1 : s = (idx + k) % slot_size
  <2> DEFINE o == (s - idx) % slot_size
  <2>1. PICK q \in Int : s - idx = q * slot_size + o
    BY <1>1, ModSplit
  <2>2. o \in 0 .. slot_size - 1
    BY <1>1, ModSplit
  <2>b. o < cnt
    BY <1>3
  <2> HIDE DEF o
  <2>a. -q \in Int /\ (-q) * slot_size = -(q * slot_size) /\ q * slot_size \in Int
    BY <1>1
  <2>3. idx + o = (-q) * slot_size + s /\ idx + o \in Int
    BY <1>1, <2>1, <2>2, <2>a
  <2>4. (idx + o) % slot_size = s
    BY <1>1, <2>3, <2>a, ModUnique
  <2> QED
    BY <2>2, <2>4, <2>b
<1> QED
  BY <1>2, <1>3

------------------------------------------------------------------------------
\* What was handed out had reached its time, or the last slot it could have.
TakenPast ==
  \A i \in taken : ComesOut(i) <= start /\ base[i] <= expire_time[i]

IndInv == TypeOK /\ SlotIsTime /\ TakenPast

\* Diff is a distance within the wheel that does not go beyond the expiry.
LEMMA DiffRange ==
  ASSUME NEW st \in Nat, NEW e \in Nat, st <= e
  PROVE  Diff(st, e) \in Slots /\ st + Diff(st, e) <= e
BY WheelAssumption DEF Diff, Slots

\* A used wheel keeps its start.
LEMMA Started ==
  ASSUME TypeOK, NEW now
  PROVE  StartAt(now) = start /\ IdxAt(now) = start_idx
BY DEF TypeOK, StartAt, IdxAt

\* Hanging in an item that is in no slot keeps the invariant.
LEMMA HangInv ==
  ASSUME IndInv, NEW i \in Items, NEW e \in Nat, NEW now \in Nat, Hang(i, e, now),
         i \notin InWheel, taken' \subseteq taken, i \notin taken', UNCHANGED clock
  PROVE  IndInv'
<1> DEFINE h == SlotOf(start, start_idx, e)
<1>1. TypeOK /\ SlotIsTime /\ TakenPast
  BY DEF IndInv
<1>2. /\ start <= e /\ start' = start /\ start_idx' = start_idx
      /\ link' = [link EXCEPT ![h] = @ \cup {i}]
      /\ expire_time' = [expire_time EXCEPT ![i] = e]
      /\ base' = [base EXCEPT ![i] = start]
  <2>1. StartAt(now) = start /\ IdxAt(now) = start_idx
    BY <1>1, Started
  <2>2. start \in Int
    BY <1>1 DEF TypeOK
  <2> QED
    BY <2>1, <2>2 DEF Hang
<1>3. start \in Nat /\ start_idx \in Int /\ Diff(start, e) \in Slots /\ Diff(start, e) \in Int
  BY <1>1, <1>2, DiffRange, WheelAssumption DEF TypeOK, Slots
<1>4. h \in Slots /\ (h - start_idx) % slot_size = Diff(start, e)
  BY <1>3, SlotAfter DEF SlotOf
<1> HIDE DEF h
<1>5. TypeOK'
  BY <1>1, <1>2, <1>3, <1>4 DEF TypeOK
<1>6. \A s \in Slots : \A j \in link'[s] : (j = i /\ s = h) \/ (j # i /\ j \in link[s])
  BY <1>1, <1>2, <1>4 DEF TypeOK, InWheel
<1>7. SlotIsTime'
  <2> SUFFICES ASSUME NEW s \in Slots, NEW j \in link'[s]
               PROVE  /\ start' + Offset(s)' = ComesOut(j)'
                      /\ base'[j] <= start' /\ base'[j] <= expire_time'[j]
                      /\ j \notin taken'
                      /\ \A r \in Slots : j \in link'[r] => r = s
    BY DEF SlotIsTime
  <2>1. CASE j = i
    <3>1. s = h
      BY <1>6, <2>1
    <3>2. base'[i] = start /\ expire_time'[i] = e
      BY <1>1, <1>2 DEF TypeOK
    <3>3. Offset(s)' = Diff(start, e)
      BY <1>2, <1>4, <3>1 DEF Offset
    <3>4. ComesOut(j)' = start + Diff(start, e)
      BY <2>1, <3>2 DEF ComesOut, Diff
    <3> QED
      BY <1>2, <1>3, <1>6, <2>1, <3>1, <3>2, <3>3, <3>4
  <2>2. CASE j # i
    <3>1. j \in link[s] /\ j \in Items
      BY <1>1, <1>6, <2>2 DEF TypeOK
    <3>2. base'[j] = base[j] /\ expire_time'[j] = expire_time[j]
      BY <1>1, <1>2, <2>2, <3>1 DEF TypeOK
    <3>3. Offset(s)' = Offset(s) /\ ComesOut(j)' = ComesOut(j)
      BY <1>2, <3>2 DEF Offset, ComesOut, Diff
    <3>4. \A r \in Slots : j \in link'[r] => r = s
      BY <1>1, <1>6, <2>2, <3>1 DEF SlotIsTime
    <3> QED
      BY <1>1, <1>2, <3>1, <3>2, <3>3, <3>4 DEF SlotIsTime
  <2> QED
    BY <2>1, <2>2
<1>8. TakenPast'
  <2> SUFFICES ASSUME NEW j \in taken'
               PROVE  ComesOut(j)' <= start' /\ base'[j] <= expire_time'[j]
    BY DEF TakenPast
  <2>1. j \in taken /\ j # i /\ j \in Items
    BY <1>1 DEF TypeOK
  <2>2. base'[j] = base[j] /\ expire_time'[j] = expire_time[j]
    BY <1>1, <1>2, <2>1 DEF TypeOK
  <2> QED
    BY <1>1, <1>2, <2>1, <2>2 DEF TakenPast, ComesOut, Diff
<1> QED
  BY <1>5, <1>7, <1>8 DEF IndInv

\* Dropping items from the slots and from taken keeps the invariant, as long as
\* the items that stay keep their times.
LEMMA DropInv ==
  ASSUME IndInv, TypeOK', UNCHANGED <<start, start_idx>>,
         \A s \in Slots : link'[s] \subseteq link[s], taken' \subseteq taken,
         \A j \in Items : (j \in taken' \/ \E s \in Slots : j \in link'[s])
             => base'[j] = base[j] /\ expire_time'[j] = expire_time[j]
  PROVE  IndInv'
<1>1. TypeOK /\ SlotIsTime /\ TakenPast
  BY DEF IndInv
<1>2. SlotIsTime'
  <2> SUFFICES ASSUME NEW s \in Slots, NEW j \in link'[s]
               PROVE  /\ start' + Offset(s)' = ComesOut(j)'
                      /\ base'[j] <= start' /\ base'[j] <= expire_time'[j]
                      /\ j \notin taken'
                      /\ \A r \in Slots : j \in link'[r] => r = s
    BY DEF SlotIsTime
  <2>1. j \in link[s] /\ j \in Items
    BY <1>1 DEF TypeOK
  <2>2. base'[j] = base[j] /\ expire_time'[j] = expire_time[j]
    BY <2>1
  <2>3. Offset(s)' = Offset(s) /\ ComesOut(j)' = ComesOut(j)
    BY <2>2 DEF Offset, ComesOut, Diff
  <2> QED
    BY <1>1, <2>1, <2>2, <2>3 DEF SlotIsTime
<1>3. TakenPast'
  <2> SUFFICES ASSUME NEW j \in taken'
               PROVE  ComesOut(j)' <= start' /\ base'[j] <= expire_time'[j]
    BY DEF TakenPast
  <2>1. j \in taken /\ j \in Items
    BY <1>1 DEF TypeOK
  <2>2. base'[j] = base[j] /\ expire_time'[j] = expire_time[j]
    BY <2>1
  <2> QED
    BY <1>1, <2>1, <2>2 DEF TakenPast, ComesOut, Diff
<1> QED
  BY <1>2, <1>3 DEF IndInv

\* Slots are integers.
LEMMA SlotInt == \A s \in Slots : s \in Int
BY WheelAssumption DEF Slots

\* What a sweep does: it takes the slots less than cnt away, cnt being the
\* milliseconds since start and start's own, or all of them.
LEMMA SweepFacts ==
  ASSUME IndInv, TimeoutLinkAllTake
  PROVE  \E cnt \in 1 .. slot_size :
           /\ start + cnt - 1 <= clock
           /\ cnt = slot_size \/ clock = start + cnt - 1
           /\ start' = clock /\ start_idx' = start_idx + cnt - 1
           /\ \A s \in Slots : Offset(s) \in Slots
           /\ \A s \in Slots : link'[s] = IF Offset(s) < cnt THEN {} ELSE link[s]
           /\ \A i \in taken' : \E s \in Slots : i \in link[s] /\ Offset(s) < cnt
<1> DEFINE cnt == SweepCount(start, clock)
           swept == Swept(start, start_idx, clock)
<1>1. TypeOK /\ StartAt(clock) = start /\ IdxAt(clock) = start_idx
  BY Started DEF IndInv
<1>2. /\ clock >= start /\ start' = clock /\ start_idx' = start_idx + cnt - 1
      /\ taken' = UNION {link[s] : s \in swept}
      /\ link' = [s \in Slots |-> IF s \in swept THEN {} ELSE link[s]]
  BY <1>1 DEF TimeoutLinkAllTake
<1>3. clock - start + 1 \in 0 .. IntMax
  BY <1>1, <1>2, WheelAssumption DEF TypeOK
<1>4. ToInt(clock - start + 1) = clock - start + 1
  BY <1>3, ToIntSmall
<1>5. /\ cnt \in 1 .. slot_size /\ start + cnt - 1 <= clock
      /\ cnt = slot_size \/ clock = start + cnt - 1
  BY <1>1, <1>2, <1>4, WheelAssumption DEF TypeOK, SweepCount
<1>6. swept = {(start_idx + k) % slot_size : k \in 0 .. cnt - 1}
  BY DEF Swept
<1> HIDE DEF cnt, swept
<1>7. \A s \in Slots : Offset(s) \in Slots /\ (s \in swept <=> Offset(s) < cnt)
  <2> TAKE s \in Slots
  <2>1. start_idx \in Int /\ cnt \in 0 .. slot_size /\ s - start_idx \in Int
    BY <1>1, <1>5, WheelAssumption DEF TypeOK, Slots
  <2>2. s \in swept <=> Offset(s) < cnt
    BY <1>6, <2>1, SweptSlots DEF Offset
  <2>3. Offset(s) \in Slots
    BY <2>1, ModSplit, WheelAssumption DEF Offset, Slots
  <2> QED
    BY <2>2, <2>3
<1>8. swept \subseteq Slots
  <2> SUFFICES ASSUME NEW k \in 0 .. cnt - 1 PROVE (start_idx + k) % slot_size \in Slots
    BY <1>6
  <2>1. start_idx + k \in Int /\ slot_size \in Nat \ {0}
    BY <1>1, <1>5, WheelAssumption DEF TypeOK
  <2> QED
    BY <2>1, ModSplit DEF Slots
<1>9. \A s \in Slots : link'[s] = IF Offset(s) < cnt THEN {} ELSE link[s]
  <2> TAKE s \in Slots
  <2>1. Offset(s) \in Int /\ cnt \in Int /\ (s \in swept <=> Offset(s) < cnt)
    BY <1>5, <1>7, SlotInt
  <2>2. link'[s] = IF s \in swept THEN {} ELSE link[s]
    BY <1>2
  <2> QED
    BY <2>1, <2>2
<1>10. \A i \in taken' : \E s \in Slots : i \in link[s] /\ Offset(s) < cnt
  BY <1>2, <1>7, <1>8
<1> QED
  BY <1>2, <1>5, <1>7, <1>9, <1>10

\* A sweep keeps the invariant.
LEMMA SweepInv ==
  ASSUME IndInv, TimeoutLinkAllTake
  PROVE  IndInv'
<1>1. TypeOK /\ SlotIsTime
  BY DEF IndInv
<1>2. PICK cnt \in 1 .. slot_size :
        /\ start + cnt - 1 <= clock
        /\ cnt = slot_size \/ clock = start + cnt - 1
        /\ start' = clock /\ start_idx' = start_idx + cnt - 1
        /\ \A s \in Slots : Offset(s) \in Slots
        /\ \A s \in Slots : link'[s] = IF Offset(s) < cnt THEN {} ELSE link[s]
        /\ \A i \in taken' : \E s \in Slots : i \in link[s] /\ Offset(s) < cnt
  BY SweepFacts
<1>o. cnt \in Int /\ \A s \in Slots : Offset(s) \in Int
  <2>1. \A s \in Slots : Offset(s) \in Slots
    BY <1>2
  <2>2. \A s \in Slots : Offset(s) \in Int
    BY <2>1, SlotInt
  <2> QED
    BY <2>2, WheelAssumption
<1>l. \A s \in Slots : link'[s] = IF Offset(s) < cnt THEN {} ELSE link[s]
  BY <1>2
<1>3. UNCHANGED <<clock, expire_time, base>> /\ link' = [s \in Slots |-> link'[s]]
  BY DEF TimeoutLinkAllTake
<1>4. clock \in Nat /\ start \in Nat /\ start_idx \in Nat
  BY <1>1 DEF TypeOK
<1>5. TypeOK'
  <2>1. \A s \in Slots : link'[s] \in SUBSET Items
    BY <1>1, <1>2, <1>l, <1>o DEF TypeOK
  <2>2. taken' \in SUBSET Items
    BY <1>1, <1>2 DEF TypeOK
  <2>3. start' \in 1 .. MaxTime /\ start_idx' \in Nat
    BY <1>1, <1>2, WheelAssumption DEF TypeOK
  <2> QED
    BY <1>1, <1>3, <2>1, <2>2, <2>3 DEF TypeOK
<1>6. \A i \in Items : ComesOut(i)' = ComesOut(i)
  BY <1>3 DEF ComesOut, Diff
<1>7. SlotIsTime'
  <2> SUFFICES ASSUME NEW s \in Slots, NEW i \in link'[s]
               PROVE  /\ start' + Offset(s)' = ComesOut(i)'
                      /\ base'[i] <= start' /\ base'[i] <= expire_time'[i]
                      /\ i \notin taken'
                      /\ \A r \in Slots : i \in link'[r] => r = s
    BY DEF SlotIsTime
  <2>1. Offset(s) >= cnt /\ i \in link[s] /\ i \in Items /\ Offset(s) \in Slots
    BY <1>1, <1>2, <1>l, <1>o DEF TypeOK
  <2>2. clock = start + cnt - 1
    BY <1>2, <2>1, WheelAssumption DEF Slots
  <2>3. Offset(s)' = Offset(s) - (cnt - 1)
    <3>1. start_idx \in Int /\ cnt - 1 \in Nat /\ cnt - 1 <= (s - start_idx) % slot_size
      BY <1>4, <2>1, WheelAssumption DEF Offset, Slots
    <3>2. (s - (start_idx + (cnt - 1))) % slot_size = ((s - start_idx) % slot_size) - (cnt - 1)
      BY <3>1, Turn
    <3>3. start_idx' = start_idx + (cnt - 1)
      BY <1>2, <1>4
    <3> QED
      BY <3>2, <3>3 DEF Offset
  <2>4. start + Offset(s) = ComesOut(i) /\ base[i] <= start /\ base[i] <= expire_time[i]
    BY <1>1, <2>1 DEF SlotIsTime
  <2>5. start' + Offset(s)' = ComesOut(i)'
    BY <1>2, <1>4, <1>6, <2>1, <2>2, <2>3, <2>4, WheelAssumption DEF Slots
  <2>6. i \notin taken'
    <3> SUFFICES ASSUME i \in taken' PROVE FALSE
      OBVIOUS
    <3>1. PICK r \in Slots : i \in link[r] /\ Offset(r) < cnt
      BY <1>2
    <3>2. r = s
      BY <1>1, <2>1, <3>1 DEF SlotIsTime
    <3> QED
      BY <1>o, <2>1, <3>1, <3>2
  <2>7. \A r \in Slots : i \in link'[r] => r = s
    <3>1. \A r \in Slots : link'[r] \subseteq link[r]
      BY <1>l
    <3> QED
      BY <1>1, <2>1, <3>1 DEF SlotIsTime
  <2>8. base'[i] <= start' /\ base'[i] <= expire_time'[i]
    BY <1>1, <1>2, <1>3, <1>4, <2>1, <2>4, WheelAssumption DEF TypeOK
  <2> QED
    BY <2>5, <2>6, <2>7, <2>8
<1>8. TakenPast'
  <2> SUFFICES ASSUME NEW i \in taken'
               PROVE  ComesOut(i)' <= start' /\ base'[i] <= expire_time'[i]
    BY DEF TakenPast
  <2>1. PICK s \in Slots : i \in link[s] /\ Offset(s) < cnt
    BY <1>2
  <2>2. start + Offset(s) = ComesOut(i) /\ base[i] <= expire_time[i] /\ i \in Items
    BY <1>1, <2>1 DEF SlotIsTime, TypeOK
  <2>3. Offset(s) \in Int
    BY <1>o
  <2> QED
    BY <1>2, <1>3, <1>4, <1>6, <2>1, <2>2, <2>3, WheelAssumption
<1> QED
  BY <1>5, <1>7, <1>8 DEF IndInv

LEMMA IndInvInit == Init => IndInv
BY WheelAssumption DEF Init, IndInv, TypeOK, SlotIsTime, TakenPast, Slots

LEMMA IndInvNext == IndInv /\ [Next]_vars => IndInv'
<1> SUFFICES ASSUME IndInv, [Next]_vars PROVE IndInv'
  OBVIOUS
<1>0. TypeOK /\ SlotIsTime /\ TakenPast
  BY DEF IndInv
<1>1. CASE Tick
  <2>1. TypeOK'
    BY <1>0, <1>1, WheelAssumption DEF Tick, TypeOK
  <2> QED
    BY <1>0, <1>1, <2>1, DropInv DEF Tick
<1>2. CASE SetBack
  <2>1. TypeOK'
    BY <1>0, <1>2, WheelAssumption DEF SetBack, TypeOK
  <2> QED
    BY <1>0, <1>2, <2>1, DropInv DEF SetBack
<1>3. CASE TimeoutLinkAllTake
  BY <1>3, SweepInv
<1>4. ASSUME NEW i \in Items, NEW timeout \in 0 .. MaxTimeout, TimerItemAdd(i, timeout)
      PROVE  IndInv'
  <2>1. clock \in Nat /\ clock + timeout \in Nat
    BY <1>0, WheelAssumption DEF TypeOK
  <2>2. Hang(i, clock + timeout, clock) /\ i \notin InWheel /\ i \notin taken
    BY <1>4 DEF TimerItemAdd, Free
  <2>3. taken' = taken /\ clock' = clock
    BY <1>4 DEF TimerItemAdd
  <2> QED
    BY <2>1, <2>2, <2>3, HangInv
<1>5. ASSUME NEW i \in Items, HangAgain(i) PROVE IndInv'
  <2>1. start \in Nat /\ expire_time[i] \in Nat
    BY <1>0 DEF TypeOK
  <2>2. i \notin InWheel
    BY <1>0, <1>5 DEF HangAgain, SlotIsTime, InWheel
  <2>3. Hang(i, expire_time[i], start) /\ taken' = taken \ {i} /\ clock' = clock
    BY <1>5 DEF HangAgain
  <2> QED
    BY <2>1, <2>2, <2>3, HangInv
<1>6. ASSUME NEW i \in Items, Process(i) PROVE IndInv'
  <2>1. TypeOK'
    BY <1>0, <1>6 DEF Process, Forget, TypeOK
  <2>2. UNCHANGED <<start, start_idx, link>> /\ taken' = taken \ {i} /\ i \in taken
    BY <1>6 DEF Process
  <2>3. \A s \in Slots : i \notin link[s]
    BY <1>0, <2>2 DEF SlotIsTime
  <2>4. \A j \in Items : j # i => base'[j] = base[j] /\ expire_time'[j] = expire_time[j]
    BY <1>0, <1>6 DEF Process, Forget, TypeOK
  <2> QED
    BY <2>1, <2>2, <2>3, <2>4, DropInv
<1>7. ASSUME NEW S \in SUBSET InWheel, TimeoutRemoveFromLink(S) PROVE IndInv'
  <2>1. TypeOK'
    BY <1>0, <1>7 DEF TimeoutRemoveFromLink, Forget, TypeOK
  <2>2. UNCHANGED <<start, start_idx, taken>>
    BY <1>7 DEF TimeoutRemoveFromLink
  <2>3. \A s \in Slots : link'[s] = link[s] \ S
    BY <1>7 DEF TimeoutRemoveFromLink
  <2>4. \A i \in S : i \notin taken
    BY <1>0 DEF SlotIsTime, InWheel
  <2>5. \A j \in Items : j \notin S => base'[j] = base[j] /\ expire_time'[j] = expire_time[j]
    BY <1>0, <1>7 DEF TimeoutRemoveFromLink, Forget, TypeOK
  <2> QED
    BY <2>1, <2>2, <2>3, <2>4, <2>5, DropInv
<1>8. CASE UNCHANGED vars
  <2>1. TypeOK'
    BY <1>0, <1>8 DEF vars, TypeOK
  <2> QED
    BY <1>8, <2>1, DropInv DEF vars
<1> QED
  BY <1>1, <1>2, <1>3, <1>4, <1>5, <1>6, <1>7, <1>8 DEF Next

\* The inductive invariant holds in every reachable state.
THEOREM Invariance == Spec => []IndInv
BY IndInvInit, IndInvNext, PTL DEF Spec

\* Type correctness of the wheel.
THEOREM WheelTypeCorrect == Spec => []TypeOK
<1>1. IndInv => TypeOK
  BY DEF IndInv
<1> QED
  BY Invariance, <1>1, PTL

\* A slot stands for the time it was computed for, however far the wheel turned.
THEOREM SlotsKeepTime == Spec => []SlotIsTime
<1>1. IndInv => SlotIsTime
  BY DEF IndInv
<1> QED
  BY Invariance, <1>1, PTL

------------------------------------------------------------------------------
\* TimeoutLinkAllTake leaves nothing behind that is due.
THEOREM NothingLate == Spec => SweepTakesDue
<1>1. IndInv /\ [Next]_vars
        => [TimeoutLinkAllTake => \A s \in Slots : \A i \in link'[s] : expire_time[i] > clock]_vars
  <2> SUFFICES ASSUME IndInv, TimeoutLinkAllTake, NEW s \in Slots, NEW i \in link'[s]
               PROVE  expire_time[i] > clock
    OBVIOUS
  <2>1. TypeOK /\ SlotIsTime
    BY DEF IndInv
  <2>2. PICK cnt \in 1 .. slot_size :
          /\ cnt = slot_size \/ clock = start + cnt - 1
          /\ \A r \in Slots : Offset(r) \in Slots
          /\ \A r \in Slots : link'[r] = IF Offset(r) < cnt THEN {} ELSE link[r]
    BY SweepFacts
  <2>3. Offset(s) \in 0 .. slot_size - 1
    BY <2>2 DEF Slots
  <2>4. i \in link[s] /\ ~(Offset(s) < cnt)
    BY <2>2
  <2>5. start + Offset(s) > clock
    BY <2>1, <2>2, <2>3, <2>4, WheelAssumption DEF TypeOK
  <2>6. start + Offset(s) = ComesOut(i) /\ base[i] <= expire_time[i] /\ i \in Items
    BY <2>1, <2>4 DEF SlotIsTime, TypeOK
  <2>7. base[i] \in Nat /\ expire_time[i] \in Nat /\ clock \in Nat
    BY <2>1, <2>6 DEF TypeOK
  <2>8. ComesOut(i) <= expire_time[i] /\ ComesOut(i) \in Int
    BY <2>6, <2>7, DiffRange, SlotInt DEF ComesOut
  <2> QED
    BY <2>5, <2>6, <2>7, <2>8
<1> QED
  BY Invariance, <1>1, PTL DEF Spec, SweepTakesDue

\* An item comes out early only when its timeout reached beyond the wheel.
THEOREM OnlyLongEarly == Spec => EarlyOnlyIfLong
<1> DEFINE A == \A i \in taken' \ taken :
                  expire_time[i] <= clock \/ expire_time[i] - base[i] >= slot_size
<1>1. IndInv /\ [Next]_vars => [A]_vars
  <2> SUFFICES ASSUME IndInv, [Next]_vars, NEW i \in taken' \ taken
               PROVE  expire_time[i] <= clock \/ expire_time[i] - base[i] >= slot_size
    OBVIOUS
  <2>0. TypeOK /\ SlotIsTime
    BY DEF IndInv
  <2>1. TimeoutLinkAllTake
    BY DEF Next, Tick, SetBack, TimerItemAdd, HangAgain, Process, TimeoutRemoveFromLink, vars
  <2>2. PICK cnt \in 1 .. slot_size :
          /\ start + cnt - 1 <= clock
          /\ \A r \in Slots : Offset(r) \in Slots
          /\ \A j \in taken' : \E s \in Slots : j \in link[s] /\ Offset(s) < cnt
    BY <2>1, SweepFacts
  <2>3. PICK s \in Slots : i \in link[s] /\ Offset(s) < cnt
    BY <2>2
  <2>4. Offset(s) \in 0 .. slot_size - 1
    BY <2>2 DEF Slots
  <2>5. start + Offset(s) = ComesOut(i) /\ base[i] <= expire_time[i] /\ i \in Items
    BY <2>0, <2>3 DEF SlotIsTime, TypeOK
  <2>6. base[i] \in Nat /\ expire_time[i] \in Nat /\ clock \in Nat /\ start \in Nat
    BY <2>0, <2>5 DEF TypeOK
  <2>7. ComesOut(i) <= clock
    BY <2>2, <2>3, <2>4, <2>5, <2>6, WheelAssumption
  <2>8. CASE expire_time[i] - base[i] < slot_size
    <3>1. ComesOut(i) = expire_time[i]
      BY <2>6, <2>8, WheelAssumption DEF ComesOut, Diff
    <3> QED
      BY <2>7, <3>1
  <2> QED
    BY <2>6, <2>8, WheelAssumption
<1> QED
  BY Invariance, <1>1, PTL DEF Spec, EarlyOnlyIfLong

\* An item that is hung in again makes progress towards its expiry.
THEOREM AgainIsLater == Spec => HangAgainLater
<1> DEFINE A == \A i \in Items : HangAgain(i) => base'[i] > base[i] \/ slot_size = 1
<1>1. IndInv /\ [Next]_vars => [A]_vars
  <2> SUFFICES ASSUME IndInv, NEW i \in Items, HangAgain(i), slot_size # 1
               PROVE  base'[i] > base[i]
    OBVIOUS
  <2>1. TypeOK /\ TakenPast
    BY DEF IndInv
  <2>2. base'[i] = start
    BY <2>1, Started DEF HangAgain, Hang, TypeOK
  <2>3. ComesOut(i) <= start /\ base[i] <= expire_time[i] /\ start < expire_time[i]
    BY <2>1 DEF TakenPast, HangAgain
  <2>4. base[i] \in Nat /\ expire_time[i] \in Nat /\ start \in Nat
    BY <2>1 DEF TypeOK
  <2>5. base[i] < start
    BY <2>3, <2>4, WheelAssumption DEF ComesOut, Diff
  <2> QED
    BY <2>2, <2>4, <2>5
<1> QED
  BY Invariance, <1>1, PTL DEF Spec, HangAgainLater
==============================================================================
