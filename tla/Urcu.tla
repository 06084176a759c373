-------------------------------- MODULE Urcu --------------------------------
(* The user-space RCU of misc/urcu (urcu.c, urcu.h): readers register, mark   *)
(* their critical sections in a counter of their own, and synchronize_rcu     *)
(* waits for the ones it finds inside.  A writer that calls it while another  *)
(* one is about to start a grace period queues a wait_node and is woken by    *)
(* that leader.                                                               *)
(*                                                                            *)
(* An action is the code between two accesses to memory that another thread   *)
(* may change: the exchange of the queue's head and the store of next are two *)
(* steps, one round of the scan is one (the registry lock is held, but the    *)
(* readers' counters change).  Plain stores become visible later than the     *)
(* code runs them only up to the next locked instruction or system call; the  *)
(* steps are cut so that this is an interleaving of the model.                *)
(*                                                                            *)
(* wait_node is a local of synchronize_rcu.  A thread that calls it in a loop *)
(* has it at the same address every time, and the cell keeps its content in   *)
(* between: node[w] here.                                                     *)
(*                                                                            *)
(* wait_for_readers never comes to line 228 (ScanStays, a defect), so the     *)
(* phase of gp.ctr never changes, gp.futex stays 0 and lines 228 to 279 are   *)
(* not reached: the counter of a reader is its nesting depth, and a reader is *)
(* inactive or active in the current phase.                                   *)
EXTENDS Integers, FiniteSets

CONSTANTS
  Readers,      \* threads that register
  Writers,      \* threads that call synchronize_rcu
  Null,         \* NULL, as a node or a lock's owner
  Registry,     \* &registry_reader_list
  CurSnap,      \* &cur_snap_readers of the writer that scans
  Qs,           \* &qs_readers of the writer that scans
  MaxNest,      \* bound of the model: nesting of critical sections
  MaxSyncs      \* bound of the model: calls of synchronize_rcu by one writer

ASSUME UrcuAssumption ==
  /\ IsFiniteSet(Readers) /\ IsFiniteSet(Writers)
  /\ Registry # CurSnap /\ Registry # Qs /\ CurSnap # Qs
  /\ Null \notin {Registry, CurSnap, Qs}
  /\ {Null, Registry, CurSnap, Qs} \cap (Readers \cup Writers) = {}
  /\ MaxNest \in Nat \ {0} /\ MaxSyncs \in Nat

Nodes == Readers \cup {Registry, CurSnap, Qs}

VARIABLES
  ctr,          \* ctr[r]: the counter of reader r
  list,         \* the registered readers (reader->list is not NULL)
  next, prev,   \* of the reader_list nodes
  head,         \* gp_waiters.head
  node,         \* node[w]: [next, state] of w's wait_node
  old_head,     \* old_head[w]: of wait_queue_push
  it,           \* it[w]: the loop variable of wait_for_readers or of the walk
  waiters,      \* waiters[w]: head of w's local wait_queue
  gp_lock,      \* owner of rcu_gp_lock
  registry_lock,  \* owner of rcu_registry_lock
  pc,           \* pc[w]: where writer w is
  syncs,        \* syncs[w]: calls of synchronize_rcu by w so far
  inside,       \* history: inside[w], readers in a section since before w's call
  batch         \* history: batch[w], the call of the leader that took w over, if any

readerVars == <<ctr, list, next, prev>>
queueVars == <<head, node, old_head, waiters>>
lockVars == <<gp_lock, registry_lock>>
urcuVars == <<readerVars, queueVars, it, lockVars, pc, syncs, inside, batch>>

UrcuInit ==
  /\ ctr = [r \in Readers |-> 0]
  /\ list = {}
  /\ next = [n \in Nodes |-> n] /\ prev = [n \in Nodes |-> n]
  /\ head = Null
  /\ node = [w \in Writers |-> [next |-> Null, state |-> {}]]
  /\ old_head = [w \in Writers |-> Null]
  /\ it = [w \in Writers |-> Null]
  /\ waiters = [w \in Writers |-> Null]
  /\ gp_lock = Null /\ registry_lock = Null
  /\ pc = [w \in Writers |-> "idle"]
  /\ syncs = [w \in Writers |-> 0]
  /\ inside = [w \in Writers |-> {}]
  /\ batch = [w \in Writers |-> {}]

------------------------------------------------------------------------------
\* Readers.  They register before their first critical section and unregister
\* outside of one, as the test does.

rcu_register_thread(r) ==
  /\ r \notin list /\ registry_lock = Null
  /\ list' = list \cup {r}
  /\ prev' = [prev EXCEPT ![next[Registry]] = r, ![r] = Registry]
  /\ next' = [next EXCEPT ![r] = next[Registry], ![Registry] = r]
  /\ UNCHANGED <<ctr, queueVars, it, lockVars, pc, syncs, inside, batch>>

\* Mutant of rcu_unregister_thread: the back link keeps pointing to the freed node.
UnregisterOneWay(r) ==
  /\ r \in list /\ ctr[r] = 0 /\ registry_lock = Null
  /\ list' = list \ {r}
  /\ next' = [next EXCEPT ![prev[r]] = next[r], ![r] = r]
  /\ prev' = [prev EXCEPT ![r] = r]
  /\ UNCHANGED <<ctr, queueVars, it, lockVars, pc, syncs, inside, batch>>

\* The links of the freed node are reset so that equal lists are equal states.
rcu_unregister_thread(r) ==
  /\ r \in list /\ ctr[r] = 0 /\ registry_lock = Null
  /\ list' = list \ {r}
  /\ prev' = [prev EXCEPT ![next[r]] = prev[r], ![r] = r]
  /\ next' = [next EXCEPT ![prev[r]] = next[r], ![r] = r]
  /\ UNCHANGED <<ctr, queueVars, it, lockVars, pc, syncs, inside, batch>>

\* The outermost lock copies gp.ctr, which is 1; an inner one adds 1.
rcu_read_lock(r) ==
  /\ r \in list /\ ctr[r] < MaxNest
  /\ ctr' = [ctr EXCEPT ![r] = @ + 1]
  /\ UNCHANGED <<list, next, prev, queueVars, it, lockVars, pc, syncs, inside, batch>>

\* wake_up_gp finds gp.futex 0.
rcu_read_unlock(r) ==
  /\ ctr[r] > 0
  /\ ctr' = [ctr EXCEPT ![r] = @ - 1]
  /\ inside' = [w \in Writers |-> IF ctr[r] = 1 THEN inside[w] \ {r} ELSE inside[w]]
  /\ UNCHANGED <<list, next, prev, queueVars, it, lockVars, pc, syncs, batch>>

------------------------------------------------------------------------------
\* Writers: joining the queue.

Goto(w, label) == pc' = [pc EXCEPT ![w] = label]

\* The locals of synchronize_rcu are initialised.
synchronize_rcu(w) ==
  /\ pc[w] = "idle" /\ syncs[w] < MaxSyncs
  /\ syncs' = [syncs EXCEPT ![w] = @ + 1]
  /\ node' = [node EXCEPT ![w] = [next |-> Null, state |-> {}]]
  /\ inside' = [inside EXCEPT ![w] = {r \in Readers : ctr[r] > 0}]
  /\ Goto(w, "exchange")
  /\ UNCHANGED <<readerVars, head, old_head, waiters, it, lockVars, batch>>

\* wait_queue_push, first half.
Exchange(w) ==
  /\ pc[w] = "exchange"
  /\ old_head' = [old_head EXCEPT ![w] = head]
  /\ head' = w
  /\ Goto(w, "link")
  /\ UNCHANGED <<readerVars, node, waiters, it, lockVars, syncs, inside, batch>>

\* wait_queue_push, second half: who finds the queue empty leads.
Link(w) ==
  /\ pc[w] = "link"
  /\ node' = [node EXCEPT ![w].next = old_head[w]]
  /\ Goto(w, IF old_head[w] = Null THEN "lead" ELSE "wait")
  /\ old_head' = [old_head EXCEPT ![w] = Null]
  /\ UNCHANGED <<readerVars, head, waiters, it, lockVars, syncs, inside, batch>>

------------------------------------------------------------------------------
\* Writers: adaptative_busy_wait.

\* The spinning loop, or futex with EWOULDBLOCK, sees that the state changed;
\* or the thread comes out of the futex.
SeeWakeup(w) ==
  /\ \/ pc[w] = "wait" /\ node[w].state # {}
     \/ pc[w] = "awake"
  /\ node' = [node EXCEPT ![w].state = @ \cup {"RUNNING"}]
  /\ Goto(w, "teardown")
  /\ UNCHANGED <<readerVars, head, old_head, waiters, it, lockVars, syncs, inside, batch>>

\* FUTEX_WAIT: the kernel compares and puts the thread to sleep in one step.
Sleep(w) ==
  /\ pc[w] = "wait" /\ node[w].state = {}
  /\ Goto(w, "sleep")
  /\ UNCHANGED <<readerVars, queueVars, it, lockVars, syncs, inside, batch>>

SeeTeardown(w) ==
  /\ pc[w] = "teardown" /\ "TEARDOWN" \in node[w].state
  /\ Goto(w, "idle")
  /\ inside' = [inside EXCEPT ![w] = {}]
  /\ batch' = [batch EXCEPT ![w] = {}]
  /\ UNCHANGED <<readerVars, queueVars, it, lockVars, syncs>>

------------------------------------------------------------------------------
\* Writers: the leader.

Lead(w) ==
  /\ pc[w] = "lead"
  /\ node' = [node EXCEPT ![w].state = {"RUNNING"}]
  /\ Goto(w, "gp_lock")
  /\ UNCHANGED <<readerVars, head, old_head, waiters, it, lockVars, syncs, inside, batch>>

LockGp(w) ==
  /\ pc[w] = "gp_lock" /\ gp_lock = Null
  /\ gp_lock' = w
  /\ Goto(w, "move")
  /\ UNCHANGED <<readerVars, queueVars, it, registry_lock, syncs, inside, batch>>

\* The writers whose nodes are in gp_waiters: queued and not yet taken by a leader.
InQueue == {u \in Writers : pc[u] \notin {"idle", "exchange"} /\ batch[u] = {}}

wait_queue_move(w) ==
  /\ pc[w] = "move"
  /\ waiters' = [waiters EXCEPT ![w] = head]
  /\ head' = Null
  /\ batch' = [u \in Writers |-> IF u \in InQueue THEN {<<w, syncs[w]>>} ELSE batch[u]]
  /\ Goto(w, "registry_lock")
  /\ UNCHANGED <<readerVars, node, old_head, it, lockVars, syncs, inside>>

\* Mutant of LockRegistry: no look at the readers.
LockRegistryBlind(w) ==
  /\ pc[w] = "registry_lock" /\ registry_lock = Null
  /\ registry_lock' = w
  /\ Goto(w, "unlock")
  /\ UNCHANGED <<readerVars, queueVars, it, gp_lock, syncs, inside, batch>>

\* Without readers there is nothing to wait for.
LockRegistry(w) ==
  /\ pc[w] = "registry_lock" /\ registry_lock = Null
  /\ registry_lock' = w
  /\ IF next[Registry] = Registry
       THEN Goto(w, "unlock") /\ UNCHANGED it
       ELSE Goto(w, "scan") /\ it' = [it EXCEPT ![w] = Registry]
  /\ UNCHANGED <<readerVars, queueVars, gp_lock, syncs, inside, batch>>

\* The assignments of reader_move in their order.
reader_move(src, dst) ==
  LET p1 == [prev EXCEPT ![next[src]] = prev[src]]
      x1 == [next EXCEPT ![p1[src]] = next[src]]
      x2 == [x1 EXCEPT ![p1[dst]] = src]
      x3 == [x2 EXCEPT ![src] = x2[dst]]
      p2 == [p1 EXCEPT ![src] = dst]
  IN  next' = [x3 EXCEPT ![dst] = src] /\ prev' = p2

\* One round of the inner loop of wait_for_readers(&registry_reader_list, ...):
\* a reader found inside goes to cur_snap_readers, another one to qs_readers.
\* The list heads have no reader (node is NULL).  The next node is taken after
\* the move.
Scan(w) ==
  /\ pc[w] = "scan"
  /\ IF it[w] \in Readers
       THEN reader_move(it[w], IF ctr[it[w]] > 0 THEN CurSnap ELSE Qs)
       ELSE UNCHANGED <<next, prev>>
  /\ it' = [it EXCEPT ![w] = next'[it[w]]]
  /\ Goto(w, IF it'[w] = Registry THEN "scanned" ELSE "scan")
  /\ UNCHANGED <<ctr, list, queueVars, lockVars, syncs, inside, batch>>

\* Both mutexes, the registry's first.
Unlock(w) ==
  /\ pc[w] = "unlock"
  /\ registry_lock' = Null /\ gp_lock' = Null
  /\ it' = [it EXCEPT ![w] = waiters[w]]
  /\ waiters' = [waiters EXCEPT ![w] = Null]
  /\ Goto(w, "walk")
  /\ UNCHANGED <<readerVars, head, node, old_head, syncs, inside, batch>>

\* The walk along the queue: nodes that are running (its own) are passed over.
WalkOn(w) ==
  /\ pc[w] = "walk" /\ it[w] # Null
  /\ Goto(w, IF "RUNNING" \in node[it[w]].state THEN "advance" ELSE "wakeup")
  /\ UNCHANGED <<readerVars, queueVars, it, lockVars, syncs, inside, batch>>

\* adaptative_wake_up: the plain store.
WakeUp(w) ==
  /\ pc[w] = "wakeup"
  /\ node' = [node EXCEPT ![it[w]].state = {"WAKEUP"}]
  /\ Goto(w, "futex")
  /\ UNCHANGED <<readerVars, head, old_head, waiters, it, lockVars, syncs, inside, batch>>

\* adaptative_wake_up: FUTEX_WAKE unless the waiter is seen to run.
FutexWake(w) ==
  LET t == it[w]
      wakes == "RUNNING" \notin node[t].state /\ pc[t] = "sleep"
  IN  /\ pc[w] = "futex"
      /\ pc' = [pc EXCEPT ![w] = "set_teardown", ![t] = IF wakes THEN "awake" ELSE @]
      /\ UNCHANGED <<readerVars, queueVars, it, lockVars, syncs, inside, batch>>

SetTeardown(w) ==
  /\ pc[w] = "set_teardown"
  /\ node' = [node EXCEPT ![it[w]].state = @ \cup {"TEARDOWN"}]
  /\ Goto(w, "advance")
  /\ UNCHANGED <<readerVars, head, old_head, waiters, it, lockVars, syncs, inside, batch>>

NextWaiter(w) ==
  /\ pc[w] = "advance"
  /\ it' = [it EXCEPT ![w] = node[it[w]].next]
  /\ Goto(w, "walk")
  /\ UNCHANGED <<readerVars, queueVars, lockVars, syncs, inside, batch>>

Return(w) ==
  /\ pc[w] = "walk" /\ it[w] = Null
  /\ Goto(w, "idle")
  /\ inside' = [inside EXCEPT ![w] = {}]
  /\ batch' = [batch EXCEPT ![w] = {}]
  /\ UNCHANGED <<readerVars, queueVars, it, lockVars, syncs>>

------------------------------------------------------------------------------
Reader(r) ==
  \/ rcu_register_thread(r) \/ rcu_unregister_thread(r)
  \/ rcu_read_lock(r) \/ rcu_read_unlock(r)

\* What a writer does inside synchronize_rcu.
Step(w) ==
  \/ Exchange(w) \/ Link(w)
  \/ SeeWakeup(w) \/ Sleep(w) \/ SeeTeardown(w)
  \/ Lead(w) \/ LockGp(w) \/ wait_queue_move(w) \/ LockRegistry(w) \/ Scan(w) \/ Unlock(w)
  \/ WalkOn(w) \/ WakeUp(w) \/ FutexWake(w) \/ SetTeardown(w) \/ NextWaiter(w) \/ Return(w)

UrcuNext ==
  \/ \E r \in Readers : Reader(r)
  \/ \E w \in Writers : synchronize_rcu(w) \/ Step(w)

UrcuSpec == UrcuInit /\ [][UrcuNext]_urcuVars

\* Threads inside the library keep running, readers leave their critical
\* sections and unregister, as in the test; nothing makes a thread call.
UrcuFairSpec ==
  /\ UrcuSpec
  /\ \A w \in Writers : WF_urcuVars(Step(w))
  /\ \A r \in Readers : WF_urcuVars(rcu_read_unlock(r)) /\ WF_urcuVars(rcu_unregister_thread(r))

------------------------------------------------------------------------------
\* A grace period: when synchronize_rcu returns, by itself or woken by a leader,
\* no reader is still in a critical section it was in when the call began.
GracePeriod ==
  [][\A w \in Writers : pc[w] # "idle" /\ pc'[w] = "idle" => inside[w] = {}]_urcuVars

\* A leader that is done with the registry has waited for its whole queue: of the
\* writers it took over from gp_waiters, those that queued themselves while it was
\* waiting for the locks included, none is left with a reader that was inside when
\* it called.  (A leader may go on to wake others, see GracePeriod.)
QueueServed ==
  \A l, w \in Writers :
    <<l, syncs[l]>> \in batch[w] /\ pc[l] \notin {"registry_lock", "scan"} => inside[w] = {}

\* The registry is a ring through the list head and the registered readers, in
\* both directions, whenever no scan has begun to take it apart.
RegistryRing ==
  (\A w \in Writers : pc[w] # "scan") =>
    LET ring == list \cup {Registry}
    IN  /\ \A n \in ring : next[n] \in ring /\ prev[next[n]] = n
        /\ \A S \in SUBSET ring :
             Registry \in S /\ (\A n \in S : next[n] \in S) => S = ring

\* The scan of wait_for_readers does not come round to its first node: it goes on
\* from a node it has moved to another list, where reader_move moreover makes the
\* first node point to itself.  What follows the scan is therefore not reached.
ScanStays == \A w \in Writers : pc[w] # "scanned"

\* A call of synchronize_rcu returns.
SyncReturns == \A w \in Writers : pc[w] # "idle" ~> pc[w] = "idle"
==============================================================================
