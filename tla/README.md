# A TLA+ model of misc-cpp

misc-cpp is a collection of C and C++ code: a port of the coroutine library
libco, a blocking queue, a reactor server, a user-space RCU, classical data
structures, small servers, demonstrations of the language, and solutions of
programming exercises. This directory holds TLA+ modules for the parts whose
correctness depends on the order in which things happen or on arithmetic at a
boundary, TLC configurations that check them on small instances, and proofs for
the TLA+ proof system. `PROJECT.json` maps every definition to the lines it
models and lists components, runs, mutants, findings, hazards and theorems.

Run a model with `tlc -config X.cfg MCModule`, a proof with `tlapm Module.tla`.

## 1. Inventory

| part | state it keeps | operations | what is hard about it |
|---|---|---|---|
| BlockingQueue (`misc/include/blocking_queue.h`) | a `deque`, the semaphore `items_`, the binary semaphore `mutex_` | `put`, `T take()`, `bool take(T&)` | two semaphores in two orders; a test of `size()` that is stale when used |
| timing wheel (`misc/coroutine/co_routine.cpp`) | `slot_size` lists of items, `start`, `start_idx` | `TimerItemAdd`, `TimeoutLinkAllTake`, hanging in again | modulus and `int` arithmetic, clock steps, timeouts longer than the wheel |
| scheduler and event loop (same files) | call stack, wheel, `active_list`, condition variables, epoll's registrations | `CoResume`, `CoYield`, `CoPoll`, `CoCondSignal`, `CoCondBroadcast`, `CoCondTimewait`, `CoEventloop` | an item is in one of three lists; timeouts race events and signals; stale `now` |
| shared stacks (same files) | `occupy_co`, `save_buffer`, `pending_co`, `call_stack`, `alloc_idx` | `CoCreate`, `CoResume`, `CoYield`, end of `CoFunc`, `CoReset`, `CoRelease` | a stack's content is saved by one party and restored by another, later |
| system call hooks (`misc/coroutine/co_hook.cpp`) | `socket_info` per descriptor | hooked `socket`, `read`, `write`, `connect`, `fcntl`, `poll`, ... | who set `O_NONBLOCK`; waits before and after the system call |
| user-space RCU (`misc/urcu`) | `gp.ctr`, `gp.futex`, reader registry, queue of writers | `rcu_read_lock/unlock`, `synchronize_rcu`, `rcu_register/unregister_thread` | lock-free queue, futexes, pointer surgery on lists under concurrency |
| environment hooks (same file) | `g_env_list`, a copy per coroutine | `SetEnvList`, hooked `setenv`, `unsetenv`, `getenv` | variables of coroutines that share a process |
| reactor (`misc/reactor`) | four epoll sets, maps from descriptors to queues | accept loop, reactor threads, application loop | maps shared without a lock, reuse of descriptor numbers, blocking in a reactor thread |
| CircularBuffer (`utils/CircularBuffer.h`) | cells, `head_`, `tail_`, `contents_size_` | `push_back`, `pop_front`, `clear`, copy, `front`, `back`, `[]` | three numbers for one window; construction against assignment; capacity 1 |
| data structures (`misc/struct`, `struct`, parts of `leetcode/other`) | heap, disjoint sets, Fenwick tree, skip list, cache, trie | insert, merge, update, find, get, put | invariants over many calls; two structures that must agree |
| echo servers (`network/echo`) | `pollfds` or `clients`, the idle descriptor | accept, read, write, the client's loop | exhausted descriptors; erasing under an iterator |
| asio servers (`asio`) | sessions and their buffers | completion handlers of accept, read and write | short writes, failing accepts, a buffer in use twice |
| Tiny and its library (`tiny`, `utils/csapp.*`) | one connection, `rio_t` buffers | `doit`, `rio_readnb`, `rio_readlineb`, `open_clientfd`, ... | clients that leave, reads of any length |
| utilities (`utils`), helpers (`misc/include`), demonstrations (`std`) | none | sorting in threads, CSV, strings, permutations | boundaries |
| process and thread programs (`sync`) | - | one library guarantee each | - |
| algorithms (`leetcode`) | none | pure functions, lists and trees changed in place | boundaries, links |

`libco/co_*.cpp` and `co_*.h` are byte for byte the files of `misc/coroutine`, so
the modules of the coroutine library stand for both; `utils/csapp.*` are the files of `tiny`.

How the parts interact: the event loop calls the timing wheel and resumes
coroutines, coroutines call back into the loop's state through `CoPoll` and the
condition variables, and every switch passes through `CoSwap`, which moves
stacks. The hooks turn blocking system calls into `CoPoll`. The reactor's threads
and the application exchange messages through BlockingQueues.

What makes each part correct: no element of a queue is lost, invented or taken
out of order, and no consumer sleeps while elements wait; no timeout is late, none
is reported early, no item is in two lists; a ready descriptor and a signal reach
their coroutine; a coroutine always finds its own frames; a ring behaves like a
bounded queue and constructs and destroys each element once. A grace period ends only after the
readers that were inside. A hooked call does not stop the thread behind the caller's back,
returns what really happened, and returns; a coroutine's variables are its own. A message
gets its answer on the connection it came from, in order; a server serves whom it was told
about, returns every byte once, and is not kept from its work by one client. A container
holds what was put in, and an algorithm returns what its problem asks for.

The hazards in `PROJECT.json` list these at their lines. Some limits of the code are plain from
reading it and are noted here instead of being given a property:

* `SocketInfoAlloc` returns null beyond its table and `socket()` writes through it
  (`co_hook.cpp:294`); `fcntl` records the `O_NONBLOCK` that `socket()` itself has set
  (`co_hook.cpp:264`);
* `now - start + 1` is stored in an `int` (`co_routine.h:271`); `call_stack` has 128 entries and
  `CoResume` does not look at its size (`co_routine.h:31`);
* two coroutines that signal each other for ever keep the loop in one dispatch
  (`co_routine.cpp:211`); resuming a coroutine that waits makes its call return (`:450`);
* `wait_for_readers` tests its list with an assignment (`urcu.c:229`) and `wait_gp` has its own race
  (`urcu.c:51`), both behind a scan that does not end;
* a ring of capacity 1 has `head_` = 1, which is no index of it; the reactor leaves the program
  when descriptors run out (`reactor.cpp:197`).

## 2. Modules

| module | models | composed with |
|---|---|---|
| `FifoQueue` | abstract: a queue whose operations take effect at one moment between call and return | - |
| `BlockingQueue` | `blocking_queue.h` | implements `FifoQueue` |
| `Urcu` | `urcu.c` | - |
| `TimingWheel` | the wheel | used by `CoEventLoop` |
| `CoEventLoop` | scheduler, condition variables, event loop | instantiates `TimingWheel` and is checked to implement it |
| `CoStack` | stack sharing | - |
| `SlidingQueue` | abstract: a bounded queue that drops its oldest element when full | - |
| `CircularBuffer` | `CircularBuffer.h` | implements `SlidingQueue` |
| `CoHook` | the socket and poll hooks of `co_hook.cpp` | composed with `CoEnv` in `MCCoHook` |
| `CoEnv` | the environment hooks of `co_hook.cpp` | - |
| `Reactor` | `misc/reactor` and the application of its test | uses the FIFO order that `BlockingQueue` implements |
| `EchoServer` | `network/echo`: poll server, epoll server, client | - |
| `AsioEcho` | the five servers of `asio` | - |
| `Tiny` | `tiny/tiny.c` | - |
| `Structures` | containers of `misc/struct`, `struct` and `leetcode`, and `rio_t` | - |
| `Sorting`, `DynamicProgramming`, `ListAlgorithms`, `TreeAlgorithms`, `ArrayAlgorithms`, `StringAlgorithms`, `GraphAlgorithms` | pure programs of `leetcode`, `struct`, `misc/struct`, `std`, `utils`, `network` and `tiny` with their reference definitions | - |
| `MCCoHook`, `MCServers`, `MCComponents` | one behaviour is about one of the modules they extend; the others rest | - |
| other `MC*` | symmetry sets of the models | - |
| `*Proofs` | theorems | extend the modules they are about: `CoHookProofs` those of `CoHook` and `CoEnv`, `ServerProofs` those of `Reactor`, `AsioEcho` and `EchoServer`, `ContainerProofs` those of `CircularBuffer` and `Structures`; `CoEventLoopProofs` also instantiates `TimingWheelProofs` |

Operators commented as mutants are deliberate small errors in the operator that
follows; no specification uses them. They are there to show that each property
notices a plausible mistake.

### BlockingQueue

One action per semaphore call or access to the deque, because those are the places
where threads can interleave: `put` is PutLock, PutEmplace, PutUnlock, PutPost;
`take` is TakeItems, TakeLock, TakePop, TakeUnlock; `bool take(T&)` is TryLock,
TryCheck, TryUnlock and then, if it saw an element, the steps of `take`. `sem_wait`
is an enabled guard, `sem_post` an increment. The front of an empty deque is
undefined, so TakePop then yields any value. `val` and `ret` are what the call holds
and returns. `size() const` cannot be instantiated (it passes a const semaphore to
`sem_wait`) and is left out.

### Urcu

Readers and writers as threads; the registry as `next` and `prev` of its nodes and of
the three list heads, the queue of writers as `head` and the cells `node[w]`. The steps
of a writer are cut at every access to memory that another thread may change, in
particular between the exchange of `head` and the store of `next`, between the leader's
store of WAKEUP, its FUTEX_WAKE and its TEARDOWN, and at every round of the scan.
`wait_node` is a local; a thread that calls `synchronize_rcu` in a loop has it at the same
address each time, so `node[w]` is one cell that keeps its content between calls.

The first scan of a registry with readers does not end (run `urcu_scan`; the theorem ScanNeverEnds says it of any readers). The rest of
`wait_for_readers`, the flip of the phase, `wait_gp` and `reader_splice` (lines 29-47,
149-155, 228-279) are therefore not reached and have no actions; a reader's counter is its
nesting depth. `inside` is a history variable. Readers register before their first
critical section and unregister outside of one, as the test does. `batch` is a history variable too: the calls
of leaders that have taken over a writer's node. Return of FUTEX_WAIT
without a wake and without a changed value is not modelled.

### TimingWheel

A slot is the set of its items. `start_idx` grows without end, as in the code, and
slots are its remainders. `ToInt` is the conversion of the 64-bit difference to
`int`. `SetBack` models `gettimeofday` after the clock was adjusted: TimerItemAdd
refuses a time before `start` and the sweep does nothing. `TimeoutRemoveFromLink`
is what the event loop and `CoPoll` do when an item is served otherwise. `base` is
a history variable (the `start` an item was hung in under); it appears in no guard.

### CoEventLoop

One thread: only the last coroutine of the call stack runs, so an action is one
library call up to the `CoYield` in it, and the code after that `CoYield` (removing
the item, deregistering descriptors) belongs to the action that resumes. The main
coroutine's loop is split into epoll_wait with the prepare callbacks, the sweep, and
one action per item of the active list, since a resumed coroutine may change every
list before the next item is looked at. An item is named by its coroutine, which has
one call outstanding at most. epoll, descriptors and the clock are the environment:
a descriptor becomes ready or not at any time, epoll keeps one registration per
descriptor, as with `EPOLL_CTL_ADD` answering `EEXIST` to the second.

Contracts of the caller, which the code does not enforce: a coroutine that waits in
`CoPoll` or on a condition is not resumed by hand, one that has ended or is on the
call stack is not resumed, the main coroutine does not yield.

### CoStack

The bytes of a stack are abstracted to the coroutine whose latest frames they are,
a buffer to whether it holds its coroutine's latest frames. CoSwap saves the
occupant of the target's stack, records the switch in `env`, switches, and the
coroutine that gets control copies its frames back if the stack was someone else's.
Contracts of the caller as above; also, a coroutine on the call stack is neither
reset nor released. `Disciplined` adds a contract found by the model (finding
`stack_recycle`): the occupant of a shared stack is reset or released only while no
other coroutine waits with frames of that stack.

### CircularBuffer

A cell holds an element or is raw memory. `head_` starts at 1 and `tail_` at 0, as
in the code. Constructing into a cell and assigning to it differ in what they need
to find there, which `LiveCells` is about. `At` is `operator[]`; the abstract queue
sees the elements through it.

### CoHook and CoEnv

The coroutines share a thread, so a hooked call is one action up to the `poll` it waits in, and the
code after that `poll` belongs to the action that returns from it. Where the code looks at what was
reported, in `connect` and in `poll` itself, epoll's report and the return are two actions
(ConnectReport and ConnectReturn, PollReport and PollEnds): between them other coroutines of the
active list run and may close the descriptor or open another one of its number, and `getsockopt` may fail.
`read` and `write` do not look and ask the kernel again; `sendto` asks a second time after EAGAIN. A call the hooks pass on may stop
the thread ("blocked"); then only the environment moves. A socket has its flag, bytes to read,
room to write, the state of its connection and its timeouts. `info` is `socket_info`, with the flag
the code believes the caller has set. `poll` merges the entries of one descriptor, asks once, and hands the
events back. `stale` (closed behind the hooks' back), `sent` (bytes the kernel took during a call) and `lost` (descriptors
a waiting call lost because they were closed) are kept beside the state of the code; of these only `lost` is in a guard, for
the kernel drops a closed descriptor from epoll. In `CoEnv` a list is a function from names to values; the copy of a
coroutine is made at its first call.

### Reactor

Threads are cut where they touch what another thread touches: accept, registration with a reactor, the
read, the put into the queue, `close`, `EPOLL_CTL_DEL`, the application's take and its write. There
is one descriptor for three connections, so that a number is reused while an older user of it
is still about. `nread == 0` does not close a connection: the test is inside the branch for -1, so
the end of a stream makes an empty message again and again; a reset closes it.

### EchoServer, AsioEcho, Tiny

One action per handler or per entry of the walk over the descriptors; `read` with the `write` of its answer
is one action as both are on a blocking socket with a line in it. `EchoServer` has a limit on descriptors,
after which accept fails with EMFILE; the poll server erases from its table by index (`RemoveAt`), the epoll server by value
(`Removed`). A client that resets makes `read`, or `accept4`, fail, and either server exits then. The poll server opens "dev/null" by a relative path and
so has no idle descriptor, which is its initial state here. `AsioEcho` has short reads, short writes, failing accepts
and peers that close; an accept that fails refuses the peer or, without descriptors, leaves it in the backlog. Bytes are numbers, so that a byte lost, doubled or overwritten is seen. `Tiny` has
requests as sequences of lines, and a buffer whose content before its first use is any that
the stack may hold. A write to a client that is gone, a file that cannot be mapped and a failing accept end its process.

### Structures and the algorithms

A container is its representation `rep`, as the code keeps it, beside `abs`, what it is meant to hold; an
action is one call, and `answer` has what it returned beside what it should have returned. A loop is a function of
the state of its variables, run as often as it can turn (`Loop`); a call of itself (`Find`, `lowbit`) or a
descent from level to level (`AbsLowerBound`) is a recursive function. So the module has no
recursive operator and can be proved about. `Size`, `MaxLevel`, `Capacity` and `RioSize` are the sizes of the
containers; `Longest` bounds the words of the trie and the data a heap is made of, `MaxCalls` the calls of a
behaviour; a stream has up to two buffers of bytes. A call of the kernel from the Rio package moves any number of bytes from 1 to what was asked for,
each call of a loop its own (`c`), or fails.  A call that fails returns -1; what it had transferred is then gone for the caller.

The pure programs are operators that follow the loops of the code (a fold for a
loop over an array, recursion for a loop with its own exit), and each module ends with what its
programs must agree on: a definition over all permutations, subsets, paths or trees, or the other
solutions of the same problem in the repository. Programs whose results are not what their problem asks for
are not in these modules (section 5). A few are right except on inputs at the edge of their problem
(section 5 again); their agreement is stated for the others, and the comment of the reference says which.

## 3. Runs

| run | instance | properties | result |
|---|---|---|---|
| `components` | one of: a wheel of 3 slots, 2 items, clock and timeouts to 7; 3 coroutines on 2 shared stacks, counter of 3 values, call depth 4; 2 writers calling twice, 3 readers, nesting 2; 2 reactors, 2 connections, 1 descriptor, 3 messages; a ring of 4 cells; 5 calls on a container with 4 keys; inputs of up to 5 to 7 numbers below 3 or 4 | SlotIsTime, SweepTakesDue, EarlyOnlyIfLong, OwnFrames, FramesKept, EnvOfRunning, RegistryRing, QueueServed, AnswersInOrder, LiveCells, ImplementsQueue, ContainersHold, ArraysAgree, OptimaAgree, LinkedAgree, StringsAgree, GraphsAgree | hold |
| `servers` | one of: 4 echo clients, tables of 2; 2 asio peers, 2 bytes, a window of 1; 2 web clients, 3 lines; 3 threads, 2 values, 2 elements on the blocking queue | RoundExact, LineIsAnswered, EchoExact, ServedInFull, TinyInTurn, NoPopFromEmpty, Linearizable, BacklogServed | hold |
| `hook` | 2 coroutines, 1 descriptor number, 1 byte to read and 1 of room, writes of 2; 2 variables | ThreadStops, WriteExact, ConnectTruth, PollFaithful, WaitsEnd, EnvPrivate | hold |
| `loop_safety` | 2 coroutines, 1 descriptor, 1 condition, 2 slots, timeouts 1, 3 and none | ItemsOfCalls, RegisteredIsLive, NeverEarly, WheelRefined, SignalStays | hold |
| `loop_liveness` | 2 coroutines; main resumes, everybody signals, one poller per descriptor, timeouts 1 and 3 | TimedWaitEnds, ReadyServed, SignalServed | hold |
| `bq_try` | 3 threads, 1 value, 2 elements | TryReturns | violated: finding |
| `urcu_lost` | 3 writers, no readers | SyncReturns | violated: finding |
| `urcu_scan` | 1 writer, 1 reader | SyncReturns | violated: finding |
| `urcu_reuse` | 3 writers calling twice, 1 reader | GracePeriod | violated: finding |
| `stack_recycle` | 2 coroutines, no discipline | OwnFrames | violated: finding |
| `loop_signal` | 2 coroutines that may signal, timeouts 1 and 3 | SignalledIsActive | violated: finding |
| `reactor_del` | 2 reactors, 3 connections, 1 descriptor | Watched | violated: finding |

`components` joins the components that are checked without fairness and do not interact: a first choice says which one the
behaviour is about, so the states are the sum of theirs. `servers` does the same for those that need fairness. On a machine
with two workers `components` takes a little over three minutes, the other passing runs one to two.

Why the bounds are enough. Three threads allow a producer with two rival consumers,
and each of them may change its role, which is what a race for one element needs;
`MaxItems` bounds the elements queued or on their way in. A leader, a waiter and a younger
waiter are what a race on the queue of writers needs, and a second call of each makes
a second batch and the reuse of a node. For QueueServed two writers are enough, one that leads and one that joins its
queue before or after it is taken. The wheel's timeouts span
more than two turns of three slots, so items are clamped, come out early and are
hung in again, and clock jumps sweep less than, exactly and more than a turn. The
event loop has a timeout inside and one beyond its wheel, and two coroutines are
enough for a race over a descriptor or a signal between two items of one round.
Three coroutines on two stacks share a stack in every way (round robin puts the
first and the third together), and the counter `alloc_idx` wraps. Four cells make
head and tail wrap independently, with an empty, a partial and a full window. One descriptor
shared by two coroutines, with room for one byte, is what a write in several turns, a close
during a call and a reuse of the number need. Two connections over one descriptor give an old owner with answers under way
and a new one; the third of `reactor_del` is the next in the backlog. Four echo clients over tables of two fill the table, fail
an accept, and leave others to be served meanwhile; with two entries a round erases the first, the last, or both, while the
theorem RoundsAreExact is about tables of any size. Two bytes with a window of one make a write short and let the next read meet it. Five
calls reach a heap of three levels, a merge of merged sets, an eviction after a use, and a line longer than a
read. The inputs of the algorithms are short, yet hold every order pattern with equal elements,
every shape of a tree of seven nodes in level order and every graph of the edges a number encodes.

Deadlock is checked except where the system may rest: threads of a queue that all
wait for elements, writers that have used up their calls, a thread the kernel has stopped, servers
without clients or at their end, and calls and inputs at their bound.

Symmetry is used for threads, items and coroutines in safety runs only.

### Fairness

* BlockingQueue: weak fairness of every step of a thread inside a call. The
  scheduler runs every runnable thread; nothing makes a caller call. `BacklogServed`
  says that with elements queued and a consumer waiting some take completes, which
  weak fairness gives because the elements a model admits are bounded; it does not
  say which consumer, as semaphores promise no order.
* Urcu: weak fairness of a writer inside `synchronize_rcu`, of a reader leaving its
  critical section and unregistering. `urcu_lost` has no readers, so what it shows rests on
  the fairness of the writers alone; `urcu_scan` has one writer, so what it shows is the scan alone.
* CoEventLoop: weak fairness of the loop's steps (the thread runs), of `Tick` (time
  passes, until the model's last millisecond) and of `EndTurn` of a running
  coroutine (it calls the library again or ends: cooperative scheduling rests on
  that). No fairness is assumed of descriptors. Two coroutines that signal each other for
  ever keep `CoEventloop` inside one dispatch of the active list and would starve a third
  (section 1); the liveness run has two coroutines, so nobody else waits. SignalServed
  promises that a signalled waiter is served, in the worst case at its timeout;
  `loop_signal` shows that it need not be in the round of the signal.
* CoHook: strong fairness of the return from a waiting `poll`, which has a timeout. The event
  loop runs it whenever the other coroutines have given up the thread; that they do so again
  and again is what cooperative scheduling assumes, and that the thread is not stopped in
  the kernel is a part of `WaitsEnd` itself. `connect` polls again after every timeout and is not in `WaitsEnd`.
* EchoServer, Tiny: weak fairness of the server's next step (the process runs, CGI programs
  end). Nothing is assumed of clients; the properties say what depends on them.
* AsioEcho: weak fairness of every completion handler (`io_context::run` serves what is
  ready) and of a peer's reading, without which no window ever opens. None of the success of an accept
  that has failed, and none of sending.

## 4. Proofs

Each proof module states an inductive invariant, shows that it holds initially and
is preserved by every action, one step per action, and derives the properties.
None bounds the number of threads, items, coroutines or cells.

* `BlockingQueueProofs` (any set of threads that is finite, any values). The
  invariant adds to MutualExclusion and ItemsCount that `op` fits the label a thread
  is at. ItemsCount is the heart: queued elements are the free ones (`items_`), those
  claimed by a consumer that passed `sem_wait(&items_)`, and those not yet announced
  by a producer. It needs the lemma that moving one thread changes the size of a set
  of threads by at most one. NoPopFromEmpty follows, since the thread about to pop
  is one of the claimants; `Linearizable` follows with PutEmplace, TakePop and the
  failing TryCheck as the moments at which the operations take effect.
* `TimingWheelProofs` (any number of slots and items, any clock with
  MaxTime < IntMax). The invariant: the offset of a slot from `start_idx` is the time
  from `start` to the moment its items come out, which is the time they were computed
  for or, beyond the wheel, the wheel's end. Lemmas on the modulus (uniqueness of
  quotients, which slots a sweep reaches) carry it through turns of the wheel.
* `CoStackProofs` (any number of coroutines and stacks, under `Disciplined`). The
  invariant says that the occupant of a stack exists and owns the frames on it, that
  every live coroutine that is not the occupant has its latest frames in its buffer,
  that a stack with live coroutines has an occupant, and that the running shared
  coroutine is the occupant its `env` names. `SwapEffect` states what one CoSwap does,
  and CoResume, CoYield and the end of CoFunc use it.
* `ContainerProofs`, the ring (every capacity above one). The invariant: the
  cell after `tail_` is the one just past the window, and a cell holds an element exactly if it is in the
  window. Refinement of `SlidingQueue` computes the abstract sequence after each
  operation from the cells.
* `ContainerProofs`, the containers of `Structures` (every size, level, capacity and number of calls):
  `ContainersCorrect`. Three general lemmas carry it. RecursionExists: a function whose value at an element is found
  from its value at a parent of less depth exists, so a recursive definition has its equation. DepthInduction is the induction
  that goes with it. LoopEnds: a loop that keeps a set of states and whose measure falls in every turn has
  ended after as many turns as the measure was. Each container then has an invariant of its own (SInd joins them):
  * disjoint sets: the parents are a forest of some depth, each node has a root, and the blocks are the nodes of one root.
    Find compresses the path and keeps the roots; a merge puts one root under the other, which
    changes the roots of one block. Ranks grow along the parents, and the rank of a root is below the size of its
    block, since a rank grows only when two blocks become one.
  * Fenwick tree: place `j` has the sum of the elements from `j - lowbit[j] + 1` to `j`. Query goes down over adjacent
    ranges. That Update changes just the places whose range has the element needs that the ranges are nested: a place
    between `j` and `j + lowbit[j]` has its range behind `j`.
  * skip list: on each level a node leads to the next larger one that reaches the level. The walk down
    ends, on every level, at the last node in front of the value, and the new node is linked in behind it.
  * heap: while an element rises or sinks it is the only one out of order with its parent or its children, and
    these are in order with each other; a swap keeps how often each key occurs. The least element is the root by
    induction over the index.
  * cache: the list has each key at most once, and the map has exactly the nodes of the list.
  * trie: the nodes are the prefixes of the words.
  * `rio_t`: what a loop has got, then the buffer, then the descriptor are the bytes there were; for
    `rio_readlineb` there is no newline before the last byte it has got. Whether a loop ends by the count, by the end of
    the stream or by a newline, it has got what was asked for; if by a failure, the beginning of it, and the rest is still there.
* `UrcuProofs` (any number of readers and writers, and of calls). Whoever changes the links of the registry holds
  `registry_lock`, and linking a node in behind the head or taking one out keeps the ring, which needs that
  no node ever precedes the heads of the scan's own lists. ScanNeverEnds: `reader_move` leaves the first node
  pointing to itself, and the scan stands at a reader or at the head with a reader behind it, so the lock is
  never given back. QueueServed: the leader that gets past the scan has found the
  registry empty under the lock, after it took the queue over, so no writer of that queue has a reader inside; one that
  joins later is in no batch of this leader. That a woken writer returns only then (GracePeriod) is not so (section 5).
* `CoHookProofs` (any coroutines, descriptors, sizes and arguments). A record that is not stale and says
  "non-blocking" is right about the socket, a socket a thread is stopped on stays open, and while the thread
  is stopped nobody changes a record: ThreadStops. Every wait of a write carries the bytes the kernel took so far:
  WriteExact. ConnectTruth needs what a report still says when the coroutine gets its turn: a connection that was reported
  writable and whose descriptor was not closed since is made or refused, and SO_ERROR tells which. PollFaithful needs that
  the events kept from the report to the return are those of the descriptors of the call.
  EnvPrivate needs only the types of the lists.
* `ServerProofs`. Reactor: a descriptor is in one epoll set and one reactor is busy with it, connections are
  accepted in the order of their numbers, so the pipe of a descriptor (read, queue, application) is ordered,
  with what an older connection left in front. AsioEcho: the bytes of the one outstanding
  write are the next ones after those written back; for the server with futures, which queues several writes in
  one buffer, what was written and the partial sums of what is queued do not exceed what was read. EchoServer: in a walk,
  an entry is due exactly if it was reported and is not behind the iterator, and `nready` counts those;
  so the walk ends, by either condition, with nothing due. It needs that a connection in the backlog is in no
  table, so that one accepted in this round was not reported.
* `CoEventLoopProofs` (any coroutines, descriptors, conditions, slots and timeouts). The invariant says which lists the
  item of a coroutine is in, from the call it is in (ListsHold, CondsHold), that no two lists share an item
  (ListsApart, CondsApart), that an item in the active list is there for an event, a signal or a timeout (Causes), that a
  coroutine outside a call has no item (Idle), and that what came out of the wheel is dispatched at the time of
  that sweep, `now = start` (Timed). The last is what NeverEarly needs: an item that came out early can always be hung in
  again, since TimerItemAdd refuses only a time before `start`. ItemsOfCalls counts occurrences, so it follows
  from the sets once no list has an item twice. SignalStays is proved for any signallers: a signal makes its waiter leave the condition and the wheel for the active list, and
  what is on that list without the mark of a timeout leaves it only to run. WheelRefined maps each action to one of TimingWheel or to a stutter, and TimersAreKept
  carries the theorems of TimingWheelProofs over to the wheel inside the loop.

The operations on lists that are recursive functions (`Without`, `FlattenSeq`, `Removed`) are dealt with by
induction over the naturals, stated as a set that contains 0 and the successor of each natural in it; first that
a function with the recursive equation exists, then what it returns.

Type correctness, MutualExclusion, ItemsCount, HangAgainLater, OccupantExists and EndsAgree are
theorems of these modules without a run of their own: they are parts of the inductive invariants.

The proofs assume the named ASSUMEs of the modules, which TLC evaluates in the runs: the sets of threads, coroutines,
descriptors and clients are finite where they are counted or put into a sequence; special values such as `NoCo` and `NoVal` are no
members of the sets they stand beside; sizes are not 0; the clock stays below the largest `int` (WheelAssumption,
LoopAssumption). Some theorems have hypotheses of their own: the theorems of CoStack assume `Disciplined`, those of the ring a
capacity above one, those of the containers that the cache and `rio_buf` have room for one. Section 5 shows what happens without them.

Only model-checked: liveness (BacklogServed, TimedWaitEnds, ReadyServed, SignalServed, WaitsEnd,
LineIsAnswered, ServedInFull, TinyInTurn), which is out of the prover's reach, and the pure programs
(ArraysAgree, OptimaAgree, LinkedAgree, StringsAgree, GraphsAgree), whose loops are
recursive operators, which the prover does not accept. All other properties of passing runs are theorems.

## 5. Findings

* `bool take(T&)` may block (`bq_try`): it looks at the size, unlocks and calls the
  blocking `take`; a rival takes the element in between. Its callers use it to drain
  a queue until it says false.
* A waiting writer is not woken (`urcu_lost`): the younger writer in front of it had made
  itself the head and not yet stored its `next` when the leader walked the queue.
* `synchronize_rcu` does not return once a reader is registered (`urcu_scan`): the scan takes `it->next` after it
  has moved `it` to another list. It holds both locks, so no reader can unregister.
* A writer returns before its grace period (`urcu_reuse`): the leader follows `next` of a node
  whose owner has returned and queued it again, and wakes writers it has not waited for.
* Recycling the occupant of a shared stack (`stack_recycle`): CoReset and CoFree clear
  `occupy_co`, and the next coroutine of that stack is not restored.
* A signal can be without effect (`loop_signal`): a waiter with a timeout beyond the wheel
  comes out early, is signalled by a coroutine served before it in the same round, and
  is then hung into the wheel again because `is_timeout` is still set. It runs when its timeout comes.
* The reactor closes a descriptor before it takes it out of epoll (`reactor_del`): a new connection of the
  number may be taken out instead, and nobody reads from it.

What else the models bring out, by other constants or in the wording of properties that hold:

* A ring of capacity 1, the default, has `head_` = 1, which is no index of its array. The
  theorems assume `capacity_ > 1`, and `EndsAgree` is false without it.
* Answers in the queue of a descriptor of the reactor go to its next owner (`AnswersInOrder`). The end of a
  stream does not close a connection.
* A hooked `connect` whose descriptor is closed by another coroutine polls for ever, or answers for another socket of the
  number; ConnectTruth and WaitsEnd except these.
* The poll server, without its idle descriptor, answers nobody any more after the first EMFILE; a client that resets
  ends either echo server for all (`LineIsAnswered`).
* echo2's `async_write_some` loses the rest of a short write, and nobody destroys its finished
  coroutines, with their sockets. The server with futures reads into a buffer it is still
  writing and serves one peer at a time; its `echo` lacks a return. The listeners with coroutines, awaiters
  and futures end with the first failing accept.
* Tiny reads headers for ever when a client closes inside them; a client that has gone, or a file that is empty, may end it
  (`TinyInTurn`).
* An error in the middle of a call of the Rio package returns -1 and drops what the call had read (`ContainersHold`).
* Programs that are right except at the edge of their problem, which their agreement leaves out: `uniquePaths` never writes
  `f[0][0]`, and an obstacle at the start is ignored; `robCircle` of one house is 0; `isValidBST` accepts equal values;
  `SplitString` is right for a separator of one character; `Find(INT_MAX)` finds the tail of the skip list;
  the cache of capacity 0 is undefined. `MinSpanningTreePrim` of `misc/struct` counts stale entries and is only bounded.
* Programs whose results are not what their problem asks for, and that are not modelled: `hasCycle`
  dereferences null on lists of even length; `isBalanced` is always true; the lambda of `maxPathSum`
  ignores its node; `levelOrderTraversal` does not keep the third level in its order; `verticalTraversal`
  drops equal values; `maxSubArray` ignores the first element; `twoSum` returns indices of the sorted copy;
  `mergeIntervals` leaves nested intervals; `lengthOfLongestSubstring` counts too few.

## 6. Plan

1. Proofs: the sorts and the programs on arrays, with their loops as those of `Structures`.
2. The doubly linked lists of `co_routine.h` as pointers, implementing the sequences of
   CoEventLoop, and `CoHook` over `CoEventLoop` instead of over its contract.
3. The maps of the reactor without the assumption that their operations are atomic.

## 7. Not modelled

* Context switching in assembly and the allocation of epoll's buffers have no control of
  their own; their effect is part of CoStack and CoEventLoop.
* `operator=` of CircularBuffer (it returns nothing) and its iterator arithmetic.
* `sync`, and the files of `std` and `utils` that no module names: each shows one guarantee of the library or the language
  (`std::lock`, a semaphore around a counter, pipes, futures, coroutines, `setjmp`, thread locals),
  so that a model would restate the library's contract.
* Files that do not compile as they stand: `struct/hashBucket.cc`, `struct/monotonicQueue.cc`, `struct/prefixSum.cc`,
  `misc/struct/fenwick_tree.h`, and in `leetcode/other` `CreateSortedArrayInstructions`, `findLongestAwesomeSubstr` and
  `shortestSubarrayToRemove`. The trie lacks a `std::`, `echoEpollServer.cc` has wrong arguments of `inet_ntop`, and
  `callback_echo_server.cc` an undeclared `ec`; these three are modelled as they are meant.
* The wrappers of `csapp.c` that call a function and exit when it fails, printing, and the parsing of test data.
* Test drivers and example programs were read for how the libraries are used.
* Weak memory is not modelled in BlockingQueue: semaphores synchronise. Failure of memory allocation is modelled
  nowhere, as no code here handles it.
