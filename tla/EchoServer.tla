----------------------------- MODULE EchoServer -----------------------------
(* The echo servers of network/echo: echoPollServer.cc keeps its clients in  *)
(* the array it hands to poll() and walks it, echoEpollServer.cc takes the   *)
(* events of epoll_wait() one by one.  Both keep one idle descriptor to be   *)
(* able to take, and drop, a connection when descriptors run out.  The       *)
(* clients are echoClient.cc: they send a line and wait for the answer.      *)
(*                                                                           *)
(* A descriptor is named by its client.  0 stands for the listening socket.  *)
(* A server leaves the program when a read or, other than for want of a      *)
(* descriptor, an accept fails: a client that resets its connection does it. *)
EXTENDS Integers, Sequences, FiniteSets, SequencesExt

CONSTANTS
  Clients,     \* 1 .. n
  Limit        \* descriptors left for clients and the idle one

ASSUME EchoAssumption == Clients \subseteq Nat \ {0} /\ IsFiniteSet(Clients)

VARIABLES
  kind,        \* "poll" or "epoll"
  client,      \* client[c]: where client c is
  backlog,     \* connections that wait to be accepted
  clients,     \* pollfds without its first entry, or the vector clients
  idle,        \* idlefd is open
  epc,         \* where the server is: "exit" when its program has ended
  events,      \* what poll or epoll_wait reported and is still to be looked at
  nready,
  it,          \* index of the walk over pollfds
  due,         \* history: reported in this round and not served yet
  cut          \* history: the round was left early

eVars == <<kind, client, backlog, clients, idle, epc, events, nready, it, due, cut>>

EInit ==
  /\ kind \in {"poll", "epoll"}
  /\ client = [c \in Clients |-> "off"]
  /\ backlog = << >> /\ clients = << >>
  /\ idle = (kind = "epoll")   \* the poll server opens "dev/null"
  /\ epc = "wait" /\ events = << >> /\ nready = 0 /\ it = 0
  /\ due = {} /\ cut = FALSE

-----------------------------------------------------------------------------
\* The clients.

\* Clients are numbered in the order they connect.
ClientConnect(c) ==
  /\ client[c] = "off" /\ \A d \in Clients : d < c => client[d] # "off"
  /\ client' = [client EXCEPT ![c] = "idle"]
  /\ backlog' = Append(backlog, c)
  /\ UNCHANGED <<kind, clients, idle, epc, events, nready, it, due, cut>>

\* A line is written; the answer is read by the action of the server.
ClientWrite(c) ==
  /\ client[c] = "idle"
  /\ client' = [client EXCEPT ![c] = "waits"]
  /\ UNCHANGED <<kind, backlog, clients, idle, epc, events, nready, it, due, cut>>

\* A client that closes while its line is unread, or while the answer is on its
\* way, sends a reset then or when the answer comes.
ClientClose(c) ==
  /\ \/ client[c] = "idle" /\ client' = [client EXCEPT ![c] = "closed"]
     \/ client[c] = "waits" /\ client' = [client EXCEPT ![c] = "leaves"]
     \/ client[c] \in {"idle", "waits"} /\ client' = [client EXCEPT ![c] = "reset"]
  /\ UNCHANGED <<kind, backlog, clients, idle, epc, events, nready, it, due, cut>>

-----------------------------------------------------------------------------
\* The server.

ReadyClients == {c \in ToSet(clients) : client[c] \in {"waits", "leaves", "closed", "reset"}}
Ready == ReadyClients \cup (IF backlog # << >> THEN {0} ELSE {})

\* poll() or epoll_wait() with something to report; epoll in any order.
Wait ==
  /\ epc = "wait" /\ Ready # {}
  /\ nready' = Cardinality(Ready)
  /\ due' = Ready \ {0} /\ cut' = FALSE
  /\ IF kind = "poll" THEN events' = SetToSeq(Ready) /\ epc' = "listen" /\ it' = 1
     ELSE events' \in SetToSeqs(Ready) /\ epc' = "events" /\ it' = 0
  /\ UNCHANGED <<kind, client, backlog, clients, idle>>

Room == Len(clients) + (IF idle THEN 1 ELSE 0) < Limit

\* accept4 succeeds.
Accepts ==
  /\ Room
  /\ clients' = Append(clients, Head(backlog))
  /\ backlog' = Tail(backlog)
  /\ UNCHANGED <<client, idle>>

\* accept4 fails with the error of a connection that was reset in the backlog.
AcceptExits ==
  /\ Room /\ client[Head(backlog)] = "reset"
  /\ epc' = "exit" /\ UNCHANGED <<client, backlog, clients, idle>>

\* accept4 fails with EMFILE: the idle descriptor is given up, a connection is
\* accepted and closed, and the idle descriptor cannot be opened again, because
\* its path is relative.  Without it the connection stays.
Overflows ==
  /\ ~Room /\ idle' = FALSE
  /\ IF idle THEN backlog' = Tail(backlog) /\ client' = [client EXCEPT ![Head(backlog)] = "dropped"]
     ELSE UNCHANGED <<backlog, client>>
  /\ UNCHANGED clients

\* The first entry of pollfds.  After an overflow the walk is left out.
PollListen ==
  /\ epc = "listen"
  /\ \/ /\ Contains(events, 0)
        /\ \/ /\ Accepts /\ nready' = nready - 1
              /\ epc' = IF nready = 1 THEN "wait" ELSE "walk"
              /\ UNCHANGED cut
           \/ Overflows /\ epc' = "wait" /\ cut' = TRUE /\ UNCHANGED nready
           \/ AcceptExits /\ UNCHANGED <<nready, cut>>
     \/ /\ ~Contains(events, 0) /\ epc' = "walk"
        /\ UNCHANGED <<client, backlog, clients, idle, nready, cut>>
  /\ UNCHANGED <<kind, events, it, due>>

\* std::remove and erase: the entries of the table but c, in their order.
Removed(c) ==
  LET keep[k \in 0 .. Len(clients)] ==
        IF k = 0 THEN << >>
        ELSE IF clients[k] = c THEN keep[k - 1] ELSE Append(keep[k - 1], clients[k])
  IN  keep[Len(clients)]

\* read fails on a connection that was reset, and the program ends.
ReadExits(c) ==
  client[c] = "reset" /\ epc' = "exit" /\ UNCHANGED <<client, clients, due>>

\* read: the line is written back, or the end closes the descriptor and leaves
\* the table rest.
Served(c, rest) ==
  /\ client[c] # "reset" /\ due' = due \ {c} /\ UNCHANGED epc
  /\ CASE client[c] = "waits" ->
            client' = [client EXCEPT ![c] = "idle"] /\ UNCHANGED clients
       [] client[c] = "leaves" ->
            client' \in {[client EXCEPT ![c] = e] : e \in {"closed", "reset"}} /\ UNCHANGED clients
       [] OTHER -> client' = [client EXCEPT ![c] = "gone"] /\ clients' = rest

\* Mutant of NextIt: the iterator is not set back after erase.
NextItSkips(c) == it + 1

\* The index after entry c: erase and --it undo the step.
NextIt(c) == IF client[c] = "closed" THEN it ELSE it + 1

\* One turn of the walk over pollfds.
PollWalk ==
  /\ epc = "walk"
  /\ \/ /\ it > Len(clients) \/ nready = 0
        /\ epc' = "wait"
        /\ UNCHANGED <<client, clients, nready, it, due>>
     \/ /\ it <= Len(clients) /\ nready > 0
        /\ LET c == clients[it] IN
           IF Contains(events, c)
           THEN \/ Served(c, RemoveAt(clients, it)) /\ nready' = nready - 1 /\ it' = NextIt(c)
                \/ ReadExits(c) /\ UNCHANGED <<nready, it>>
           ELSE it' = it + 1 /\ UNCHANGED <<epc, client, clients, nready, due>>
  /\ UNCHANGED <<kind, backlog, idle, events, cut>>

\* Mutant of EpollEvent: an overflow leaves the round, as in the poll server.
EpollEventBreak ==
  /\ epc = "events"
  /\ \/ events = << >> /\ epc' = "wait" /\ UNCHANGED <<client, backlog, clients, idle, events, due>>
     \/ /\ events # << >>
        /\ \/ /\ Head(events) = 0 /\ Accepts /\ UNCHANGED <<epc, due>>
              /\ events' = Tail(events)
           \/ Head(events) = 0 /\ Overflows /\ events' = << >> /\ UNCHANGED <<epc, due>>
           \/ /\ Head(events) # 0 /\ Served(Head(events), Removed(Head(events)))
              /\ events' = Tail(events) /\ UNCHANGED <<backlog, idle>>
  /\ UNCHANGED <<kind, nready, it, cut>>

\* One event of epoll_wait.
EpollEvent ==
  /\ epc = "events"
  /\ \/ events = << >> /\ epc' = "wait" /\ UNCHANGED <<client, backlog, clients, idle, events, due>>
     \/ /\ events # << >> /\ events' = Tail(events)
        /\ LET c == Head(events) IN
           \/ c = 0 /\ (Accepts \/ Overflows) /\ UNCHANGED <<epc, due>>
           \/ c = 0 /\ AcceptExits /\ UNCHANGED due
           \/ c # 0 /\ (Served(c, Removed(c)) \/ ReadExits(c)) /\ UNCHANGED <<backlog, idle>>
  /\ UNCHANGED <<kind, nready, it, cut>>

Server == Wait \/ PollListen \/ PollWalk \/ EpollEvent

ENext ==
  \/ \E c \in Clients : ClientConnect(c) \/ ClientWrite(c) \/ ClientClose(c)
  \/ Server

ESpec == EInit /\ [][ENext]_eVars

\* The server's thread runs.
EFairness == WF_eVars(Server)

-----------------------------------------------------------------------------
\* The array of the server has every open client exactly once: erasing in the
\* walk, appending before it, and the removal by value leave no hole and no
\* double.
TableExact ==
  /\ IsInjective(clients)
  /\ \A c \in Clients : Contains(clients, c) <=>
       client[c] \in {"idle", "waits", "leaves", "closed", "reset"} /\ ~Contains(backlog, c)

\* A round of the server serves every client that was reported to it: the walk
\* that stops when nready is used up misses none, although it erases entries
\* under its own iterator.  Only an overflow of the poll server, or the end of the
\* program, leaves a round.
\* Between and during rounds the table is exact.
RoundExact == TableExact /\ (epc = "wait" => due = {} \/ cut)

\* A client of the epoll server that waits for its answer gets it, even while
\* descriptors are exhausted and the accept fails again and again, unless it goes
\* away itself; but one client that resets its connection ends the service for all,
\* and nothing else does.  (The poll server serves nobody after an overflow, and
\* never gets out of it.)
LineIsAnswered ==
  \A c \in Clients :
    kind = "epoll" /\ client[c] = "waits" /\ Contains(clients, c)
      ~> \/ client[c] # "waits"
         \/ epc = "exit" /\ \E d \in Clients : client[d] = "reset"
=============================================================================
