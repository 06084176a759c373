----------------------------- MODULE TimingWheel -----------------------------
(* The timing wheel of libco (co_routine.cpp, co_routine.h): slot_size lists  *)
(* of timeout items, one per millisecond from start on.  TimerItemAdd hangs   *)
(* an item into the slot of its expire_time, or into the last slot when the   *)
(* time lies beyond the wheel; TimeoutLinkAllTake hands out every slot up to  *)
(* the current time and turns the wheel.  The caller (CoEventloop) hangs an   *)
(* item that came out too early in again.                                     *)
(*                                                                            *)
(* A slot is the set of its items: their order inside one millisecond matters *)
(* to the event loop (module CoEventLoop) and not here.                       *)
EXTENDS Integers

CONSTANTS
  Items,        \* the timeout items
  slot_size,    \* number of slots, 60000 in EpollAlloc
  MaxTime,      \* bound of the model: the last millisecond of the clock
  MaxTimeout,   \* bound of the model: the longest timeout of a caller
  IntMax        \* the largest int, 2^31 - 1

\* The clock does not run for IntMax milliseconds (24.8 days) in the model, so
\* two sweeps are never further apart than an int can count.
ASSUME WheelAssumption ==
  /\ slot_size \in Nat \ {0}
  /\ MaxTime \in Nat
  /\ MaxTimeout \in Nat
  /\ IntMax \in Nat
  /\ MaxTime < IntMax

VARIABLES
  clock,        \* what TickMSGet() returns
  start,        \* the time of the slot start_idx
  start_idx,    \* grows for ever; slots are taken modulo slot_size
  link,         \* link[s]: the items of slot s
  taken,        \* the items handed out and not yet processed by the caller
  expire_time,  \* expire_time[i] while i is in link or taken, otherwise 0
  base          \* history: start when i was last hung into the wheel, or 0

vars == <<clock, start, start_idx, link, taken, expire_time, base>>

Slots == 0 .. slot_size - 1
InWheel == {i \in Items : \E s \in Slots : i \in link[s]}
Free == Items \ (InWheel \cup taken)

\* Conversion of a 64-bit difference to int keeps the low 32 bits.
ToInt(n) == ((n + IntMax + 1) % (2 * (IntMax + 1))) - (IntMax + 1)

------------------------------------------------------------------------------
\* The distance from start at which an item is hung in.
Diff(st, expire) == IF expire - st >= slot_size THEN slot_size - 1 ELSE expire - st

\* Mutant of SlotOf: the slot is counted from the first slot, not from start_idx.
SlotOfUnturned(st, idx, expire) == Diff(st, expire) % slot_size

\* The slot it is hung into.
SlotOf(st, idx, expire) == (idx + Diff(st, expire)) % slot_size

\* Mutant of SweepCount: the slot of the current millisecond is left behind.
SweepCountShort(st, now) ==
  LET cnt == ToInt(now - st) IN IF cnt > slot_size THEN slot_size ELSE cnt

\* How many slots a sweep takes: one per millisecond since start, and start's.
SweepCount(st, now) ==
  LET cnt == ToInt(now - st + 1) IN IF cnt > slot_size THEN slot_size ELSE cnt

\* The slots a sweep takes.
Swept(st, idx, now) == {(idx + k) % slot_size : k \in 0 .. SweepCount(st, now) - 1}

\* A wheel with start 0 has not been used: it starts now.
StartAt(now) == IF start = 0 THEN now ELSE start
IdxAt(now) == IF start = 0 THEN 0 ELSE start_idx

------------------------------------------------------------------------------
Init ==
  /\ clock \in 1 .. MaxTime
  /\ start = clock
  /\ start_idx = 0
  /\ link = [s \in Slots |-> {}]
  /\ taken = {}
  /\ expire_time = [i \in Items |-> 0]
  /\ base = [i \in Items |-> 0]

\* gettimeofday: time passes, and an administrator may set it back.
Tick == clock < MaxTime /\ clock' \in clock + 1 .. MaxTime
        /\ UNCHANGED <<start, start_idx, link, taken, expire_time, base>>
SetBack == clock' \in 1 .. clock - 1
           /\ UNCHANGED <<start, start_idx, link, taken, expire_time, base>>

\* Hanging item i with expiry e into the wheel at time now (TimerItemAdd); the
\* call fails and changes nothing when now < start or e < now.
Hang(i, e, now) ==
  /\ now >= StartAt(now)
  /\ e >= now
  /\ start' = StartAt(now)
  /\ start_idx' = IdxAt(now)
  /\ link' = [link EXCEPT ![SlotOf(StartAt(now), IdxAt(now), e)] = @ \cup {i}]
  /\ expire_time' = [expire_time EXCEPT ![i] = e]
  /\ base' = [base EXCEPT ![i] = StartAt(now)]

\* CoPoll and CoCondTimewait hang in a new item.
TimerItemAdd(i, timeout) ==
  /\ i \in Free
  /\ Hang(i, clock + timeout, clock)
  /\ UNCHANGED <<clock, taken>>

\* CoEventloop hangs in again an item that is not due at the time of the sweep.
HangAgain(i) ==
  /\ i \in taken
  /\ start < expire_time[i]
  /\ Hang(i, expire_time[i], start)
  /\ taken' = taken \ {i}
  /\ UNCHANGED clock

\* The items leave the wheel's care.
Forget(S) ==
  /\ expire_time' = [i \in Items |-> IF i \in S THEN 0 ELSE expire_time[i]]
  /\ base' = [i \in Items |-> IF i \in S THEN 0 ELSE base[i]]

\* CoEventloop resumes the coroutine of an item it was handed, or a signal has
\* reached the item first.
Process(i) ==
  /\ i \in taken
  /\ taken' = taken \ {i}
  /\ Forget({i})
  /\ UNCHANGED <<clock, start, start_idx, link>>

\* Events or signals take items out of the wheel before their time: one call of
\* RemoveFromLink each, several when one epoll_wait reports several items or a
\* broadcast wakes several.
TimeoutRemoveFromLink(S) ==
  /\ S # {} /\ S \subseteq InWheel
  /\ link' = [s \in Slots |-> link[s] \ S]
  /\ Forget(S)
  /\ UNCHANGED <<clock, start, start_idx, taken>>

\* Mutant of TimeoutLinkAllTake: the wheel turns but start is not brought forward.
TakeForgetsStart ==
  LET cnt == SweepCount(StartAt(clock), clock)
      swept == Swept(StartAt(clock), IdxAt(clock), clock)
  IN  /\ clock >= StartAt(clock)
      /\ taken = {}
      /\ taken' = UNION {link[s] : s \in swept}
      /\ link' = [s \in Slots |-> IF s \in swept THEN {} ELSE link[s]]
      /\ start' = StartAt(clock)
      /\ start_idx' = IdxAt(clock) + cnt - 1
      /\ UNCHANGED <<clock, expire_time, base>>

\* The sweep; the caller has processed what the last one handed out.  Nothing
\* happens while the clock is behind start.
TimeoutLinkAllTake ==
  LET cnt == SweepCount(StartAt(clock), clock)
      swept == Swept(StartAt(clock), IdxAt(clock), clock)
  IN  /\ clock >= StartAt(clock)
      /\ taken = {}
      /\ taken' = UNION {link[s] : s \in swept}
      /\ link' = [s \in Slots |-> IF s \in swept THEN {} ELSE link[s]]
      /\ start' = clock
      /\ start_idx' = IdxAt(clock) + cnt - 1
      /\ UNCHANGED <<clock, expire_time, base>>

Next ==
  \/ Tick
  \/ SetBack
  \/ TimeoutLinkAllTake
  \/ \E i \in Items :
       \/ \E timeout \in 0 .. MaxTimeout : TimerItemAdd(i, timeout)
       \/ HangAgain(i)
       \/ Process(i)
  \/ \E S \in SUBSET InWheel : TimeoutRemoveFromLink(S)

Spec == Init /\ [][Next]_vars

------------------------------------------------------------------------------
\* Type invariant.
TypeOK ==
  /\ clock \in 1 .. MaxTime
  /\ start \in 1 .. MaxTime
  /\ start_idx \in Nat
  /\ link \in [Slots -> SUBSET Items]
  /\ taken \in SUBSET Items
  /\ expire_time \in [Items -> Nat]
  /\ base \in [Items -> Nat]

\* The milliseconds after start at which slot s will be swept.
Offset(s) == (s - start_idx) % slot_size

\* The time at which item i is to come out: its expire_time if that was within
\* the wheel when it was hung in, otherwise the last slot of then.
ComesOut(i) == base[i] + Diff(base[i], expire_time[i])

\* However the wheel has turned since, the slot an item hangs in stands for the
\* time it was computed for, and an item hangs in one slot only.
SlotIsTime ==
  \A s \in Slots : \A i \in link[s] :
    /\ start + Offset(s) = ComesOut(i)
    /\ base[i] <= start /\ base[i] <= expire_time[i]
    /\ i \notin taken
    /\ \A r \in Slots : i \in link[r] => r = s

\* No timeout is late: a sweep at time now leaves nothing in the wheel that is
\* due at now, even if the clock has jumped over many turns of the wheel.
SweepTakesDue ==
  [][TimeoutLinkAllTake => \A s \in Slots : \A i \in link'[s] : expire_time[i] > clock]_vars

\* No timeout is early without reason: an item handed out before its time had a
\* timeout that reaches to the end of the wheel or beyond.
EarlyOnlyIfLong ==
  [][\A i \in taken' \ taken :
       expire_time[i] <= clock \/ expire_time[i] - base[i] >= slot_size]_vars

\* A long timeout comes out early more than once, each time nearer its end: an
\* item is hung in again only later than it was before, or in a wheel of one
\* slot.
HangAgainLater ==
  [][\A i \in Items : HangAgain(i) => base'[i] > base[i] \/ slot_size = 1]_vars
==============================================================================
