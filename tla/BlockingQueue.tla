---------------------------- MODULE BlockingQueue ----------------------------
(* BlockingQueue<T> of misc/include/blocking_queue.h: a deque guarded by the  *)
(* binary semaphore mutex_, and a semaphore items_ that counts the elements   *)
(* consumers may claim.  Any thread may call put(), T take() or bool take(T&) *)
(* at any time; every semaphore call and every access to the deque is one     *)
(* step, so all interleavings of the calls are covered.                       *)
(*                                                                            *)
(* size() const is left out: it passes a const sem_t to sem_wait, so it does  *)
(* not compile when it is instantiated, and nothing in the repository does.   *)
(* sem_wait cannot fail with EINTR: no program that uses the class installs a *)
(* signal handler.                                                            *)
EXTENDS Integers, Sequences, FiniteSets

CONSTANTS
  Threads,    \* the threads that share the queue
  Values,     \* the elements put into it
  NoVal,      \* the contents of a local that holds no element
  MaxItems    \* bound of the model: a caller puts only while fewer elements
              \* are queued or on their way into the queue

ASSUME BlockingQueueAssumption ==
  /\ IsFiniteSet(Threads)
  /\ NoVal \notin Values
  /\ MaxItems \in Nat

VARIABLES
  mutex_,     \* value of the binary semaphore
  items_,     \* value of the counting semaphore
  queue_,     \* the deque, front first
  pc,         \* pc[t]: the next statement of t
  op,         \* op[t]: the member function t is in ("try" is bool take(T&))
  ret,        \* ret[t]: the local "bool ret" of bool take(T&)
  val         \* val[t]: the argument of put, or the element take moved out

vars == <<mutex_, items_, queue_, pc, op, ret, val>>

PutPc == {"put_lock", "put_emplace", "put_unlock", "put_post"}
TakePc == {"take_items", "take_lock", "take_pop", "take_unlock"}
TryPc == {"try_lock", "try_check", "try_unlock"}

Goto(t, label) == pc' = [pc EXCEPT ![t] = label]

\* The call returns: the locals of its frame are gone.
Return(t) ==
  /\ pc' = [pc EXCEPT ![t] = "idle"]
  /\ op' = [op EXCEPT ![t] = "idle"]
  /\ val' = [val EXCEPT ![t] = NoVal]
  /\ ret' = [ret EXCEPT ![t] = FALSE]

Init ==
  /\ mutex_ = 1
  /\ items_ = 0
  /\ queue_ = << >>
  /\ pc = [t \in Threads |-> "idle"]
  /\ op = [t \in Threads |-> "idle"]
  /\ ret = [t \in Threads |-> FALSE]
  /\ val = [t \in Threads |-> NoVal]

------------------------------------------------------------------------------
\* Semaphores (external, POSIX sem_wait and sem_post) and std::deque.

LockMutex == mutex_ > 0 /\ mutex_' = mutex_ - 1
UnlockMutex == mutex_' = mutex_ + 1
WaitItems == items_ > 0 /\ items_' = items_ - 1
PostItems == items_' = items_ + 1

\* front() of an empty deque is undefined: any element may come out, and
\* pop_front() leaves a deque that is taken to be empty still.
Fronts(q) == IF q = << >> THEN Values ELSE {Head(q)}
PopFront(q) == IF q = << >> THEN q ELSE Tail(q)

------------------------------------------------------------------------------
\* Mutants: plausible mistakes in the code below, which the
\* properties at the end of the module tell apart from the code.

\* take() relies on the mutex alone and does not wait for items_.
TakeItemsNoWait(t) ==
  /\ pc[t] = "take_items"
  /\ Goto(t, "take_lock")
  /\ UNCHANGED <<mutex_, items_, queue_, op, ret, val>>

\* put pushes at the front.
PutEmplaceFront(t) ==
  /\ pc[t] = "put_emplace"
  /\ queue_' = <<val[t]>> \o queue_
  /\ Goto(t, "put_unlock")
  /\ UNCHANGED <<mutex_, items_, op, ret, val>>

\* put forgets to post items_.
PutPostNone(t) ==
  /\ pc[t] = "put_post"
  /\ Return(t)
  /\ UNCHANGED <<mutex_, items_, queue_>>

------------------------------------------------------------------------------
\* put(t)

Incoming == {t \in Threads : pc[t] \in {"put_lock", "put_emplace"}}

PutCall(t, v) ==
  /\ pc[t] = "idle"
  /\ Len(queue_) + Cardinality(Incoming) < MaxItems
  /\ Goto(t, "put_lock")
  /\ op' = [op EXCEPT ![t] = "put"]
  /\ val' = [val EXCEPT ![t] = v]
  /\ UNCHANGED <<mutex_, items_, queue_, ret>>

PutLock(t) ==
  /\ pc[t] = "put_lock"
  /\ LockMutex
  /\ Goto(t, "put_emplace")
  /\ UNCHANGED <<items_, queue_, op, ret, val>>

PutEmplace(t) ==
  /\ pc[t] = "put_emplace"
  /\ queue_' = Append(queue_, val[t])
  /\ Goto(t, "put_unlock")
  /\ UNCHANGED <<mutex_, items_, op, ret, val>>

PutUnlock(t) ==
  /\ pc[t] = "put_unlock"
  /\ UnlockMutex
  /\ Goto(t, "put_post")
  /\ UNCHANGED <<items_, queue_, op, ret, val>>

PutPost(t) ==
  /\ pc[t] = "put_post"
  /\ PostItems
  /\ Return(t)
  /\ UNCHANGED <<mutex_, queue_>>

------------------------------------------------------------------------------
\* T take()

TakeCall(t) ==
  /\ pc[t] = "idle"
  /\ Goto(t, "take_items")
  /\ op' = [op EXCEPT ![t] = "take"]
  /\ UNCHANGED <<mutex_, items_, queue_, ret, val>>

TakeItems(t) ==
  /\ pc[t] = "take_items"
  /\ WaitItems
  /\ Goto(t, "take_lock")
  /\ UNCHANGED <<mutex_, queue_, op, ret, val>>

TakeLock(t) ==
  /\ pc[t] = "take_lock"
  /\ LockMutex
  /\ Goto(t, "take_pop")
  /\ UNCHANGED <<items_, queue_, op, ret, val>>

TakePop(t) ==
  /\ pc[t] = "take_pop"
  /\ \E v \in Fronts(queue_) : val' = [val EXCEPT ![t] = v]
  /\ queue_' = PopFront(queue_)
  /\ Goto(t, "take_unlock")
  /\ UNCHANGED <<mutex_, items_, op, ret>>

TakeUnlock(t) ==
  /\ pc[t] = "take_unlock"
  /\ UnlockMutex
  /\ Return(t)
  /\ UNCHANGED <<items_, queue_>>

------------------------------------------------------------------------------
\* bool take(T &t): looks under the lock, then calls T take() without it.

TryCall(t) ==
  /\ pc[t] = "idle"
  /\ Goto(t, "try_lock")
  /\ op' = [op EXCEPT ![t] = "try"]
  /\ UNCHANGED <<mutex_, items_, queue_, ret, val>>

TryLock(t) ==
  /\ pc[t] = "try_lock"
  /\ LockMutex
  /\ Goto(t, "try_check")
  /\ UNCHANGED <<items_, queue_, op, ret, val>>

TryCheck(t) ==
  /\ pc[t] = "try_check"
  /\ ret' = [ret EXCEPT ![t] = (Len(queue_) > 0)]
  /\ Goto(t, "try_unlock")
  /\ UNCHANGED <<mutex_, items_, queue_, op, val>>

TryUnlock(t) ==
  /\ pc[t] = "try_unlock"
  /\ UnlockMutex
  /\ \/ ret[t] /\ Goto(t, "take_items") /\ UNCHANGED <<op, ret, val>>
     \/ ~ret[t] /\ Return(t)
  /\ UNCHANGED <<items_, queue_>>

------------------------------------------------------------------------------
\* A thread inside a member function runs on; a thread outside may call one.
Step(t) ==
  \/ PutLock(t) \/ PutEmplace(t) \/ PutUnlock(t) \/ PutPost(t)
  \/ TakeItems(t) \/ TakeLock(t) \/ TakePop(t) \/ TakeUnlock(t)
  \/ TryLock(t) \/ TryCheck(t) \/ TryUnlock(t)

Call(t) ==
  \/ \E v \in Values : PutCall(t, v)
  \/ TakeCall(t)
  \/ TryCall(t)

Next == \E t \in Threads : Call(t) \/ Step(t)

Spec == Init /\ [][Next]_vars

\* A thread inside a call keeps being scheduled; nothing makes a caller call.
FairSpec == Spec /\ \A t \in Threads : WF_vars(Step(t))

------------------------------------------------------------------------------
\* Type invariant: the semaphores hold natural numbers and mutex_ is binary.
TypeOK ==
  /\ mutex_ \in {0, 1}
  /\ items_ \in Nat
  /\ queue_ \in Seq(Values)
  /\ pc \in [Threads -> {"idle"} \cup PutPc \cup TakePc \cup TryPc]
  /\ op \in [Threads -> {"idle", "put", "take", "try"}]
  /\ ret \in [Threads -> BOOLEAN]
  /\ val \in [Threads -> Values \cup {NoVal}]

InCritical == {"put_emplace", "put_unlock", "take_pop", "take_unlock",
               "try_check", "try_unlock"}
Critical == {t \in Threads : pc[t] \in InCritical}

\* The deque is never touched by two threads at once: between sem_wait(&mutex_)
\* and sem_post(&mutex_) there is at most one thread, in whichever of the three
\* member functions it is, and mutex_ is free exactly when there is none.
MutualExclusion ==
  /\ \A t, u \in Critical : t = u
  /\ mutex_ = 1 <=> Critical = {}

Claimed == {t \in Threads : pc[t] \in {"take_lock", "take_pop"}}
Unposted == {t \in Threads : pc[t] \in {"put_unlock", "put_post"}}

\* Every queued element is accounted for: it is free to be claimed (items_),
\* claimed by a consumer that has passed sem_wait(&items_) but not popped yet,
\* or just appended by a producer that has not reached sem_post(&items_).  So
\* no wakeup is lost: elements nobody has claimed are always on offer.
ItemsCount == Len(queue_) = items_ + Cardinality(Claimed) + Cardinality(Unposted)

\* take() never reads the front of an empty deque, although it does not look at
\* the size after locking mutex_.
NoPopFromEmpty == \A t \in Threads : pc[t] = "take_pop" => queue_ # << >>

\* The operations are linearizable: put takes effect at emplace_back, a take at
\* pop_front, a bool take(T&) that returns false at its look at size().
Done(t) ==
  \/ pc[t] \in {"put_unlock", "put_post", "take_unlock"}
  \/ pc[t] = "try_unlock" /\ ~ret[t]

Fifo == INSTANCE FifoQueue WITH
          queue <- queue_, done <- [t \in Threads |-> Done(t)]

Linearizable == Fifo!Spec

\* A waiting consumer is served: when elements are queued and a thread waits in
\* sem_wait(&items_), some thread eventually takes an element out.
BacklogServed ==
  (queue_ # << >> /\ \E t \in Threads : pc[t] = "take_items")
    ~> (\E t \in Threads : pc[t] = "take_unlock")

\* bool take(T&) does not wait for elements: it returns whatever other threads
\* do.  The code breaks this, since its look at size() is stale once mutex_ is
\* posted and T take() then waits for an element another consumer has claimed.
TryReturns == \A t \in Threads : op[t] = "try" ~> op[t] = "idle"

==============================================================================
