----------------------------- MODULE CoEventLoop -----------------------------
(* The scheduler of libco (co_routine.cpp, co_routine.h): one thread, its     *)
(* call stack of coroutines, and the event loop that resumes the ones that    *)
(* wait for file descriptors (CoPoll), for a condition variable               *)
(* (CoCondTimewait) or for a timeout.                                         *)
(*                                                                            *)
(* Only the coroutine on top of the call stack runs, so an action is one      *)
(* library call up to the CoYield inside it; what the call does after CoYield *)
(* returns (taking its item out of the lists, deregistering its descriptors)  *)
(* belongs to the action that resumes it.  The event loop of the main         *)
(* coroutine is split where control can pass to a coroutine or where time is  *)
(* read: epoll_wait with the prepare callbacks, the sweep of the timing       *)
(* wheel, and one action per item of the active list.                         *)
(*                                                                            *)
(* A coroutine has at most one call outstanding, so its timeout item is named *)
(* by the coroutine, and item->link is the list the coroutine is found in.    *)
(* The timing wheel is module TimingWheel, with its slots as sequences here.  *)
(*                                                                            *)
(* Calls that leave no trace in this state are left out: CoPoll with timeout  *)
(* 0 and CoPoll of a regular file (EPERM) call poll itself, and a             *)
(* CoCondTimewait whose TimerItemAdd fails frees its item and returns.        *)
EXTENDS Integers, Sequences, FiniteSets, SequencesExt

CONSTANTS
  Co,           \* the coroutines created by CoCreate
  Main,         \* the main coroutine, which runs CoEventloop
  NoCo,         \* no coroutine
  Fds,          \* file descriptors
  Conds,        \* condition variables (co_cond_t)
  Timeouts,     \* the positive timeouts the application uses
  PollForever,  \* whether it also polls with a negative timeout
  Signallers,   \* who calls CoCondSignal and CoCondBroadcast
  Resumers,     \* who calls CoResume
  Yielders,     \* who calls CoYield
  SharedFds,    \* whether two coroutines may poll one descriptor
  SetsBack,     \* whether the clock may be set back
  StackMax,     \* bound of the call stack, 128 in co_env_t
  slot_size,    \* slots of the timing wheel, 60000 in EpollAlloc
  MaxTime,      \* bound of the model: the last millisecond
  IntMax        \* INT_MAX

ASSUME LoopAssumption ==
  /\ Main \notin Co /\ NoCo \notin Co \cup {Main}
  /\ Timeouts \subseteq 1 .. IntMax
  /\ Signallers \subseteq Co \cup {Main}
  /\ Resumers \subseteq Co \cup {Main}
  /\ Yielders \subseteq Co
  /\ PollForever \in BOOLEAN /\ SharedFds \in BOOLEAN /\ SetsBack \in BOOLEAN
  /\ StackMax \in Nat \ {0, 1}
  /\ IsFiniteSet(Co) /\ IsFiniteSet(Fds)
  /\ slot_size \in Nat \ {0} /\ MaxTime \in Nat \ {0}
  /\ IntMax \in Nat /\ MaxTime < IntMax

VARIABLES
  clock,        \* what TickMSGet() returns
  stack,        \* env->call_stack, the running coroutine last
  st,           \* st[c]: where coroutine c is
  cond,         \* cond[v]: the waiters of condition variable v, longest first
  polls,        \* polls[c]: the descriptors of c's outstanding CoPoll
  raise_cnt,    \* raise_cnt[c]: events reported to it (all_event_detach if > 0)
  expire_time,  \* expire_time[c] of c's item, 0 without a timer
  is_timeout,   \* is_timeout[c]: the item came out of the wheel
  link,         \* link[s]: the items in slot s of the wheel
  start, start_idx,  \* of the wheel
  active,       \* epoll->active_list
  reg,          \* reg[f]: whose poll item epoll holds for f, or NoCo
  ready,        \* the descriptors with pending events
  phase,        \* where the main coroutine is
  now,          \* CoEventloop's local, 0 outside the dispatch
  signalled,    \* history: waiters signalled and not resumed since
  base          \* history: TimingWheel's base

wheelVars == <<link, start, start_idx, expire_time, is_timeout, base>>
vars == <<clock, stack, st, cond, polls, raise_cnt, wheelVars, active, reg, ready,
          phase, now, signalled>>

Slots == 0 .. slot_size - 1

\* The items the timing wheel cares for.
InWheel == {c \in Co : \E s \in Slots : Contains(link[s], c)}
Taken == {c \in Co : Contains(active, c) /\ is_timeout[c]}

Wheel == INSTANCE TimingWheel WITH
  Items <- Co, MaxTimeout <- IntMax,
  link <- [s \in Slots |-> ToSet(link[s])],
  taken <- Taken,
  expire_time <- [c \in Co |-> IF c \in InWheel \cup Taken THEN expire_time[c] ELSE 0],
  base <- [c \in Co |-> IF c \in InWheel \cup Taken THEN base[c] ELSE 0]

Init ==
  /\ clock = 1
  /\ stack = <<Main>>
  /\ st = [c \in Co |-> "new"]
  /\ cond = [v \in Conds |-> << >>]
  /\ polls = [c \in Co |-> {}]
  /\ raise_cnt = [c \in Co |-> 0]
  /\ expire_time = [c \in Co |-> 0]
  /\ is_timeout = [c \in Co |-> FALSE]
  /\ link = [s \in Slots |-> << >>]
  /\ start = clock
  /\ start_idx = 0
  /\ active = << >>
  /\ reg = [f \in Fds |-> NoCo]
  /\ ready = {}
  /\ phase = "app"
  /\ now = 0
  /\ signalled = {}
  /\ base = [c \in Co |-> 0]

------------------------------------------------------------------------------
\* The call stack.

Self == Last(stack)

\* c runs application code: the main coroutine does outside CoEventloop and in
\* the callback pfn of CoEventloop.
Runs(c) == Self = c /\ (c = Main => phase = "app")

\* c gives up the processor and is in state s from now on.
SwitchOut(c, s) ==
  /\ stack' = Front(stack)
  /\ st' = [st EXCEPT ![c] = s]

\* The application resumes a coroutine that is new or yielded.
CoResume(c, d) ==
  /\ Runs(c)
  /\ st[d] \in {"new", "yielded"}
  /\ Len(stack) < StackMax
  /\ stack' = Append(stack, d)
  /\ st' = [st EXCEPT ![d] = "running"]
  /\ UNCHANGED <<clock, cond, polls, raise_cnt, wheelVars, active, reg, ready,
                 phase, now, signalled>>

CoYield(c) ==
  /\ Self = c
  /\ SwitchOut(c, "yielded")
  /\ UNCHANGED <<clock, cond, polls, raise_cnt, wheelVars, active, reg, ready,
                 phase, now, signalled>>

\* The coroutine's function returns to CoFunc.
CoFunc(c) ==
  /\ Self = c
  /\ SwitchOut(c, "end")
  /\ UNCHANGED <<clock, cond, polls, raise_cnt, wheelVars, active, reg, ready,
                 phase, now, signalled>>

------------------------------------------------------------------------------
\* Lists of timeout items.

\* RemoveFromLink of the items S from the list q; the others keep their order.
Without(q, S) ==
  LET keep[k \in 0 .. Len(q)] ==
        IF k = 0 THEN << >>
        ELSE IF q[k] \in S THEN keep[k - 1] ELSE Append(keep[k - 1], q[k])
  IN  keep[Len(q)]

\* RemoveFromLink of the items S, from whichever slot they are in.
Unhang(S) == [s \in Slots |-> Without(link[s], S)]

\* RemoveFromLink, then TailAdd to the active list.
ToActive(ds) == Without(active, ToSet(ds)) \o ds

\* TimerItemAdd; it fails when t lies before the wheel's start.
CanHang(t) == t >= Wheel!StartAt(t)
Hang(c, e, t) ==
  /\ start' = Wheel!StartAt(t)
  /\ start_idx' = Wheel!IdxAt(t)
  /\ link' = [link EXCEPT ![Wheel!SlotOf(start', start_idx', e)] = Append(@, c)]
  /\ expire_time' = [expire_time EXCEPT ![c] = e]
  /\ is_timeout' = [is_timeout EXCEPT ![c] = FALSE]
  /\ base' = [base EXCEPT ![c] = start']

------------------------------------------------------------------------------
\* CoPoll

\* Mutant of CoPoll: the descriptors stay registered when the timer cannot be set.
CoPollKeepsFds(c, F, timeout) ==
  LET expire == clock + (IF timeout < 0 THEN IntMax ELSE timeout)
  IN  /\ Self = c
      /\ SharedFds \/ \A d \in Co : polls[d] \cap F = {}
      /\ reg' = [f \in Fds |-> IF f \in F /\ reg[f] = NoCo THEN c ELSE reg[f]]
      /\ \/ /\ CanHang(clock)
            /\ Hang(c, expire, clock)
            /\ polls' = [polls EXCEPT ![c] = F]
            /\ SwitchOut(c, "poll")
         \/ /\ ~CanHang(clock)
            /\ UNCHANGED <<polls, stack, st, wheelVars>>
      /\ UNCHANGED <<clock, cond, raise_cnt, active, ready, phase, now, signalled>>

\* CoPoll registers the descriptors (EPOLL_CTL_ADD of one that is registered
\* already fails, and the failure is ignored), hangs its item into the wheel and
\* yields.  If the timer refuses, it deregisters them and returns -1 at once.
CoPoll(c, F, timeout) ==
  LET expire == clock + (IF timeout < 0 THEN IntMax ELSE timeout)
  IN  /\ Self = c
      /\ SharedFds \/ \A d \in Co : polls[d] \cap F = {}
      /\ \/ /\ CanHang(clock)
            /\ reg' = [f \in Fds |-> IF f \in F /\ reg[f] = NoCo THEN c ELSE reg[f]]
            /\ Hang(c, expire, clock)
            /\ polls' = [polls EXCEPT ![c] = F]
            /\ SwitchOut(c, "poll")
         \/ /\ ~CanHang(clock)
            /\ reg' = [f \in Fds |-> IF f \in F THEN NoCo ELSE reg[f]]
            /\ UNCHANGED <<polls, stack, st, wheelVars>>
      /\ UNCHANGED <<clock, cond, raise_cnt, active, ready, phase, now, signalled>>

------------------------------------------------------------------------------
\* Condition variables

\* Mutant of CoCondSignal: the item is put on the active list without being
\* taken out of the timing wheel.
CoCondSignalKeepsTimer(v) ==
  LET d == Head(cond[v])
  IN  /\ cond[v] # << >>
      /\ cond' = [cond EXCEPT ![v] = Tail(@)]
      /\ active' = ToActive(<<d>>)
      /\ signalled' = signalled \cup {d}
      /\ UNCHANGED <<clock, stack, st, polls, raise_cnt, wheelVars, reg, ready, phase, now>>

\* Mutant of CoCondSignal: the waiter is not put on the active list, its timer is
\* relied on.
CoCondSignalPopsOnly(v) ==
  /\ cond[v] # << >>
  /\ cond' = [cond EXCEPT ![v] = Tail(@)]
  /\ signalled' = signalled \cup {Head(cond[v])}
  /\ UNCHANGED <<clock, stack, st, polls, raise_cnt, wheelVars, active, reg, ready, phase, now>>

\* Wakes the longest waiter; without one nothing happens.
CoCondSignal(v) ==
  LET d == Head(cond[v])
  IN  /\ cond[v] # << >>
      /\ cond' = [cond EXCEPT ![v] = Tail(@)]
      /\ link' = Unhang({d})
      /\ active' = ToActive(<<d>>)
      /\ signalled' = signalled \cup {d}
      /\ UNCHANGED <<clock, stack, st, polls, raise_cnt, start, start_idx, expire_time,
                     is_timeout, base, reg, ready, phase, now>>

CoCondBroadcast(v) ==
  /\ cond[v] # << >>
  /\ cond' = [cond EXCEPT ![v] = << >>]
  /\ link' = Unhang(ToSet(cond[v]))
  /\ active' = ToActive(cond[v])
  /\ signalled' = signalled \cup ToSet(cond[v])
  /\ UNCHANGED <<clock, stack, st, polls, raise_cnt, start, start_idx, expire_time,
                 is_timeout, base, reg, ready, phase, now>>

\* A timeout of 0 or less sets no timer.
CoCondTimewait(c, v, timeout) ==
  /\ Self = c
  /\ \/ timeout <= 0 /\ UNCHANGED wheelVars
     \/ timeout > 0 /\ CanHang(clock) /\ Hang(c, clock + timeout, clock)
  /\ cond' = [cond EXCEPT ![v] = Append(@, c)]
  /\ SwitchOut(c, "cond")
  /\ UNCHANGED <<clock, polls, raise_cnt, active, reg, ready, phase, now, signalled>>

------------------------------------------------------------------------------
\* CoEventloop

\* The main coroutine calls CoEventloop, or pfn returns to it.
Loop ==
  /\ Self = Main /\ phase = "app"
  /\ phase' = "wait"
  /\ UNCHANGED <<clock, stack, st, cond, polls, raise_cnt, wheelVars, active, reg,
                 ready, now, signalled>>

\* epoll_wait reports the ready descriptors that are registered (level
\* triggered, in any order), and OnPollPrepare moves the item of each to the
\* active list, once.
EpollWait ==
  LET events == {f \in ready : reg[f] # NoCo}
      raised == {reg[f] : f \in events}
  IN  /\ Self = Main /\ phase = "wait"
      /\ \E fresh \in SetToSeqs({c \in raised : raise_cnt[c] = 0}) :
           /\ link' = Unhang(ToSet(fresh))
           /\ active' = ToActive(fresh)
      /\ raise_cnt' = [c \in Co |-> raise_cnt[c] + Cardinality({f \in events : reg[f] = c})]
      /\ phase' = "sweep"
      /\ UNCHANGED <<clock, stack, st, cond, polls, start, start_idx, expire_time,
                     is_timeout, base, reg, ready, now, signalled>>

\* TimeoutLinkAllTake at the current time; what comes out is marked and goes to
\* the end of the active list.  Nothing comes out while the clock is behind.
Sweep ==
  LET t == clock
      cnt == Wheel!SweepCount(Wheel!StartAt(t), t)
      idx == Wheel!IdxAt(t)
      out == FlattenSeq([k \in 1 .. cnt |-> link[(idx + k - 1) % slot_size]])
  IN  /\ Self = Main /\ phase = "sweep"
      /\ now' = t
      /\ \/ /\ t >= Wheel!StartAt(t)
            /\ active' = active \o out
            /\ is_timeout' = [c \in Co |-> is_timeout[c] \/ Contains(out, c)]
            /\ link' = Unhang(ToSet(out))
            /\ start' = t
            /\ start_idx' = idx + cnt - 1
         \/ /\ t < Wheel!StartAt(t)
            /\ UNCHANGED <<active, is_timeout, link, start, start_idx>>
      /\ phase' = "dispatch"
      /\ UNCHANGED <<clock, stack, st, cond, polls, raise_cnt, expire_time, base, reg,
                     ready, signalled>>

\* Mutant of IsEarly: whatever came out of the wheel is taken to be due.
NeverTooEarly(c) == FALSE

\* The head of the active list is there because it came out of the wheel, and
\* too early: it is hung in again (and processed if that fails).
IsEarly(c) == is_timeout[c] /\ now < expire_time[c] /\ CanHang(now)

\* Mutant of DispatchEarly: the item is dropped instead of being hung in again.
DispatchEarlyDrops ==
  /\ Self = Main /\ phase = "dispatch" /\ active # << >>
  /\ IsEarly(Head(active))
  /\ active' = Tail(active)
  /\ UNCHANGED <<clock, stack, st, cond, polls, raise_cnt, wheelVars, reg, ready, phase,
                 now, signalled>>

DispatchEarly ==
  LET c == Head(active)
  IN  /\ Self = Main /\ phase = "dispatch" /\ active # << >>
      /\ IsEarly(c)
      /\ active' = Tail(active)
      /\ Hang(c, expire_time[c], now)
      /\ UNCHANGED <<clock, stack, st, cond, polls, raise_cnt, reg, ready, phase, now,
                     signalled>>

\* Mutant of Deregistered: only the descriptors with events are deregistered.
DeregisteredReady(c) == [f \in Fds |-> IF f \in polls[c] \cap ready THEN NoCo ELSE reg[f]]

\* EPOLL_CTL_DEL of every descriptor of c's CoPoll, whoever registered it.
Deregistered(c) == [f \in Fds |-> IF f \in polls[c] THEN NoCo ELSE reg[f]]

\* Mutant of LeaveCond: a waiter that times out stays in the waiters' list.
StayInCond(c) == cond

\* RemoveFromLink<co_cond_t> at the end of CoCondTimewait.
LeaveCond(c) == [v \in Conds |-> Without(cond[v], {c})]

\* OnProcessEvent resumes the coroutine, and its call ends: CoPoll takes its
\* item out of every list and deregisters its descriptors, CoCondTimewait
\* leaves the list of waiters; the item is freed.
DispatchResume ==
  LET c == Head(active)
  IN  /\ Self = Main /\ phase = "dispatch" /\ active # << >>
      /\ ~IsEarly(c)
      /\ stack' = Append(stack, c)
      /\ st' = [st EXCEPT ![c] = "running"]
      /\ active' = Tail(active)
      /\ reg' = Deregistered(c)
      /\ cond' = LeaveCond(c)
      /\ polls' = [polls EXCEPT ![c] = {}]
      /\ raise_cnt' = [raise_cnt EXCEPT ![c] = 0]
      /\ expire_time' = [expire_time EXCEPT ![c] = 0]
      /\ is_timeout' = [is_timeout EXCEPT ![c] = FALSE]
      /\ base' = [base EXCEPT ![c] = 0]
      /\ signalled' = signalled \ {c}
      /\ UNCHANGED <<clock, link, start, start_idx, ready, phase, now>>

\* The active list is empty: pfn is called.
DispatchEnd ==
  /\ Self = Main /\ phase = "dispatch" /\ active = << >>
  /\ phase' = "app"
  /\ now' = 0
  /\ UNCHANGED <<clock, stack, st, cond, polls, raise_cnt, wheelVars, active, reg,
                 ready, signalled>>

------------------------------------------------------------------------------
\* The world outside: time and descriptors.

Tick ==
  /\ clock < MaxTime
  /\ clock' = clock + 1
  /\ UNCHANGED <<stack, st, cond, polls, raise_cnt, wheelVars, active, reg, ready,
                 phase, now, signalled>>

SetBack ==
  /\ SetsBack
  /\ clock' \in 1 .. clock - 1
  /\ UNCHANGED <<stack, st, cond, polls, raise_cnt, wheelVars, active, reg, ready,
                 phase, now, signalled>>

FdChanges(f) ==
  /\ ready' = IF f \in ready THEN ready \ {f} ELSE ready \cup {f}
  /\ UNCHANGED <<clock, stack, st, cond, polls, raise_cnt, wheelVars, active, reg,
                 phase, now, signalled>>

------------------------------------------------------------------------------
\* A running coroutine ends its turn.
EndTurn(c) ==
  \/ c \in Yielders /\ CoYield(c)
  \/ CoFunc(c)
  \/ \E F \in SUBSET Fds, timeout \in Timeouts \cup (IF PollForever THEN {-1} ELSE {}) :
       CoPoll(c, F, timeout)
  \/ \E v \in Conds, timeout \in Timeouts \cup {0} : CoCondTimewait(c, v, timeout)

LoopStep == Loop \/ EpollWait \/ Sweep \/ DispatchEarly \/ DispatchResume \/ DispatchEnd

Next ==
  \/ \E c \in Resumers, d \in Co : CoResume(c, d)
  \/ \E c \in Co : EndTurn(c)
  \/ \E c \in Signallers, v \in Conds :
       Runs(c) /\ (CoCondSignal(v) \/ CoCondBroadcast(v))
  \/ LoopStep
  \/ Tick
  \/ SetBack
  \/ \E f \in Fds : FdChanges(f)

Spec == Init /\ [][Next]_vars

\* The thread is scheduled and time passes; a coroutine's turn ends; pfn
\* returns.
FairSpec ==
  /\ Spec
  /\ WF_vars(LoopStep)
  /\ WF_vars(Tick)
  /\ \A c \in Co : WF_vars(EndTurn(c))

------------------------------------------------------------------------------
\* How often c's item occurs in the lists of timeout items.
Times(c, q) == Cardinality({k \in DOMAIN q : q[k] = c})
Linked(c) == Times(c, active) + Times(c, FlattenSeq([s \in 1 .. slot_size |-> link[s - 1]]))

\* The lists hold exactly the items of the calls in progress.  A poll's item is
\* in one slot or in the active list; so is a timed or signalled wait's; a
\* waiter is in the list of its condition variable until it is signalled; and
\* the item of a coroutine that is not waiting, which is freed, is in none.
ItemsOfCalls ==
  \A c \in Co :
    LET inCond == Cardinality({v \in Conds : Contains(cond[v], c)})
    IN  /\ \A v \in Conds : Times(c, cond[v]) <= 1
        /\ Linked(c) = IF \/ st[c] = "poll"
                          \/ st[c] = "cond" /\ (expire_time[c] # 0 \/ c \in signalled)
                       THEN 1 ELSE 0
        /\ inCond = IF st[c] = "cond" /\ c \notin signalled THEN 1 ELSE 0

\* The pointer epoll holds for a descriptor leads to a poll in progress on that
\* descriptor: no event reaches a freed item, even if two coroutines poll one
\* descriptor and deregister it for each other.
RegisteredIsLive ==
  \A f \in Fds : reg[f] # NoCo => st[reg[f]] = "poll" /\ f \in polls[reg[f]]

\* Nobody is woken for nothing: the loop resumes a coroutine when an event was
\* reported to its poll, when it was signalled, or when its time has come.
NeverEarly ==
  [][DispatchResume =>
       LET c == Head(active)
       IN  \/ raise_cnt[c] > 0
           \/ c \in signalled
           \/ expire_time[c] # 0 /\ expire_time[c] <= now]_vars

\* The loop drives the timing wheel as module TimingWheel describes, so what is
\* proved there holds here: no timeout is overlooked, only long ones come out
\* early.
WheelRefined == Wheel!Spec

\* A waiter that was signalled is on the active list until it runs, so it runs
\* in the current round of the loop.  (Violated: a coroutine that runs in the
\* dispatch may signal a waiter whose overlong timer came out early in the same
\* round; its turn comes, and it is hung into the wheel again.)
SignalledIsActive == \A c \in signalled : Contains(active, c)

\* A signal puts the waiter on the active list, and if its timer has not come out
\* by then nothing takes it from there before it runs: no sweep finds its timer,
\* whoever signals and whatever else happens to it in the round.
SignalStays ==
  [][\A c \in Co :
       /\ c \in signalled' \ signalled => Contains(active', c)
       /\ c \in signalled /\ Contains(active, c) /\ ~is_timeout[c]
            => c \notin signalled' \/ (Contains(active', c) /\ ~is_timeout'[c])]_vars

\* No signal is lost: a signalled waiter runs, in the worst case when its timeout
\* has passed.
SignalServed ==
  \A c \in Co : (c \in signalled /\ expire_time[c] <= MaxTime) ~> (c \notin signalled)

\* A timed wait ends: a coroutine that waits in CoPoll or CoCondTimewait until a
\* time the clock reaches is resumed.
TimedWaitEnds ==
  \A c \in Co : (expire_time[c] # 0 /\ expire_time[c] <= MaxTime) ~> (st[c] = "running")

\* A registered descriptor that stays ready wakes its coroutine.
ReadyServed ==
  \A c \in Co, f \in Fds : (reg[f] = c /\ f \in ready) ~> (st[c] = "running" \/ f \notin ready)
==============================================================================
