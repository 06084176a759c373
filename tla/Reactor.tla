------------------------------- MODULE Reactor -------------------------------
(* The server of misc/reactor with the application of its test: the thread   *)
(* of NetServer::Run accepts connections and hands them to the reactors in   *)
(* turn, each reactor thread reads from its connections into the queue of    *)
(* the descriptor, the application takes messages from the queues and writes *)
(* the answers itself.                                                       *)
(*                                                                           *)
(* Connections are numbered in the order they come; descriptors are reused.  *)
(* A message is a record of its connection and its number; a read that meets *)
(* the end of the stream also makes a message (of zeros): the test for       *)
(* nread == 0 is part of the conjunction for nread == -1.  The queues are    *)
(* FIFO (module BlockingQueue), the maps are taken as atomic.  EPOLLOUT is   *)
(* never asked for, so the branch that empties write_queues_ is never taken. *)
EXTENDS Integers, Sequences, FiniteSets, SequencesExt

CONSTANTS
  NumReactors,   \* NUM_REACTORS
  MaxConn,       \* bound: connections that are made
  MaxMsg,        \* bound: messages of all connections together
  ConnFds        \* descriptors left for connections, 1 .. n

ASSUME ReactorAssumption ==
  /\ NumReactors \in Nat \ {0} /\ MaxConn \in Nat
  /\ ConnFds \subseteq Nat \ {0}

VARIABLES
  peer,          \* peer[k]: the other end of connection k
  fdOf,          \* fdOf[f]: the connection behind descriptor f, 0 if closed
  reg,           \* reg[f]: the reactor whose epoll set has f, 0 for none
  accepted,      \* connection accepted and not yet added, with its descriptor
  turn,          \* reactor_index
  rpc,           \* rpc[r]: where reactor thread r is
  read_queues,   \* read_queues[f]
  write_queues,  \* write_queues[f]: the answers that could not be written
  hand,          \* the message the application is answering, with its queue
  inbox,         \* inbox[k]: messages that arrived for the reactor to read
  nsent,         \* nsent[k]: messages sent by peer k
  answers,       \* answers[k]: what was written to connection k
  state          \* "run" or "exit"

rVars == <<peer, fdOf, reg, accepted, turn, rpc, read_queues, write_queues, hand,
           inbox, nsent, answers, state>>

Conns == 1 .. MaxConn
Reactors == 1 .. NumReactors
Nothing == [fd |-> 0, conn |-> 0, no |-> 0]
Msg(k, n) == [conn |-> k, no |-> n]
SumSeq(s) == FoldLeft(+, 0, s)

RInit ==
  /\ peer = [k \in Conns |-> "none"]
  /\ fdOf = [f \in ConnFds |-> 0]
  /\ reg = [f \in ConnFds |-> 0]
  /\ accepted = Nothing
  /\ turn = 0
  /\ rpc = [r \in Reactors |-> [pc |-> "wait", fd |-> 0, msg |-> Msg(0, 0)]]
  /\ read_queues = [f \in ConnFds |-> << >>]
  /\ write_queues = [f \in ConnFds |-> {}]
  /\ hand = Nothing
  /\ inbox = [k \in Conns |-> << >>]
  /\ nsent = [k \in Conns |-> 0]
  /\ answers = [k \in Conns |-> << >>]
  /\ state = "run"

------------------------------------------------------------------------------
\* The peers.  A peer that has closed answers what is written to it by a reset.

PeerConnect(k) ==
  /\ peer[k] = "none" /\ \A j \in Conns : j < k => peer[j] # "none"
  /\ peer' = [peer EXCEPT ![k] = "open"]
  /\ UNCHANGED <<fdOf, reg, accepted, turn, rpc, read_queues, write_queues, hand,
                 inbox, nsent, answers, state>>

PeerSend(k) ==
  /\ peer[k] = "open" /\ SumSeq(nsent) < MaxMsg
  /\ nsent' = [nsent EXCEPT ![k] = @ + 1]
  /\ inbox' = [inbox EXCEPT ![k] = Append(@, Msg(k, nsent[k] + 1))]
  /\ UNCHANGED <<peer, fdOf, reg, accepted, turn, rpc, read_queues, write_queues,
                 hand, answers, state>>

PeerClose(k) ==
  /\ peer[k] = "open"
  /\ peer' = [peer EXCEPT ![k] = "fin"]
  /\ UNCHANGED <<fdOf, reg, accepted, turn, rpc, read_queues, write_queues, hand,
                 inbox, nsent, answers, state>>

------------------------------------------------------------------------------
\* NetServer::Run.

Waiting == {k \in Conns : peer[k] # "none" /\ \A f \in ConnFds : fdOf[f] # k}
           \ {k \in Conns : peer[k] = "gone"}
FreeFds == {f \in ConnFds : fdOf[f] = 0}

\* accept4 takes the lowest free descriptor.
Accept ==
  /\ state = "run" /\ accepted = Nothing
  /\ \E k \in Waiting, f \in FreeFds :
       /\ \A j \in Waiting : k <= j
       /\ \A g \in FreeFds : f <= g
       /\ fdOf' = [fdOf EXCEPT ![f] = k]
       /\ accepted' = [fd |-> f, conn |-> k, no |-> 0]
  /\ UNCHANGED <<peer, reg, turn, rpc, read_queues, write_queues, hand, inbox,
                 nsent, answers, state>>

\* epoll_ctl(EPOLL_CTL_ADD) to the next reactor in turn.
AddToReactor ==
  /\ state = "run" /\ accepted # Nothing
  /\ turn' = (turn % NumReactors) + 1
  /\ reg' = [reg EXCEPT ![accepted.fd] = turn']
  /\ accepted' = Nothing
  /\ UNCHANGED <<peer, fdOf, rpc, read_queues, write_queues, hand, inbox, nsent,
                 answers, state>>

\* accept4 fails with EMFILE: the idle descriptor is used to take the connection
\* and drop it, and the process exits all the same.
AcceptFails ==
  /\ state = "run" /\ accepted = Nothing
  /\ Waiting # {} /\ FreeFds = {}
  /\ state' = "exit"
  /\ UNCHANGED <<peer, fdOf, reg, accepted, turn, rpc, read_queues, write_queues,
                 hand, inbox, nsent, answers>>

------------------------------------------------------------------------------
\* reactor_thread_func of reactor r.

RAt(r, p) == state = "run" /\ rpc[r].pc = p
RGoto(r, p, f, m) == rpc' = [rpc EXCEPT ![r] = [pc |-> p, fd |-> f, msg |-> m]]

\* epoll_wait reports f, and the reactor reads from it: data, the end of the
\* stream, or a reset.
EpollRead(r, f) ==
  /\ RAt(r, "wait") /\ reg[f] = r
  /\ LET k == fdOf[f] IN
     \/ peer[k] = "reset" /\ RGoto(r, "close", f, Msg(0, 0)) /\ UNCHANGED inbox
     \/ /\ peer[k] # "reset" /\ inbox[k] # << >>
        /\ inbox' = [inbox EXCEPT ![k] = Tail(@)]
        /\ RGoto(r, "put", f, Head(inbox[k]))
     \/ /\ peer[k] = "fin" /\ inbox[k] = << >>
        /\ RGoto(r, "put", f, Msg(k, 0)) /\ UNCHANGED inbox
  /\ UNCHANGED <<peer, fdOf, reg, accepted, turn, read_queues, write_queues, hand,
                 nsent, answers, state>>

\* Mutant of Put: the message is put in front.
PutFront(r) ==
  /\ RAt(r, "put")
  /\ LET f == rpc[r].fd m == rpc[r].msg IN
     read_queues' = [read_queues EXCEPT ![f] = IF Len(@) < 2 THEN <<m>> \o @ ELSE @]
  /\ RGoto(r, "wait", 0, Msg(0, 0))
  /\ UNCHANGED <<peer, fdOf, reg, accepted, turn, write_queues, hand, inbox, nsent,
                 answers, state>>

\* read_queues[fd].put(msg); of the endless messages at the end of a stream the
\* model keeps one in the queue.
Put(r) ==
  /\ RAt(r, "put")
  /\ LET f == rpc[r].fd m == rpc[r].msg IN
     read_queues' = [read_queues EXCEPT ![f] =
       IF m.no = 0 /\ Contains(@, m) THEN @ ELSE Append(@, m)]
  /\ RGoto(r, "wait", 0, Msg(0, 0))
  /\ UNCHANGED <<peer, fdOf, reg, accepted, turn, write_queues, hand, inbox, nsent,
                 answers, state>>

\* close: the kernel takes the descriptor out of every epoll set.
CloseFd(r) ==
  /\ RAt(r, "close")
  /\ LET f == rpc[r].fd IN
     /\ peer' = [peer EXCEPT ![fdOf[f]] = "gone"]
     /\ fdOf' = [fdOf EXCEPT ![f] = 0]
     /\ reg' = [reg EXCEPT ![f] = 0]
     /\ RGoto(r, "del", f, Msg(0, 0))
  /\ UNCHANGED <<accepted, turn, read_queues, write_queues, hand, inbox, nsent,
                 answers, state>>

\* epoll_ctl(EPOLL_CTL_DEL) after the close: it fails, unless the number is in
\* use again and in this epoll set.
EpollDel(r) ==
  /\ RAt(r, "del")
  /\ LET f == rpc[r].fd IN
     reg' = IF reg[f] = r THEN [reg EXCEPT ![f] = 0] ELSE reg
  /\ RGoto(r, "wait", 0, Msg(0, 0))
  /\ UNCHANGED <<peer, fdOf, accepted, turn, read_queues, write_queues, hand, inbox,
                 nsent, answers, state>>

------------------------------------------------------------------------------
\* The application.

\* queue.take(msg) of some queue of the map.
AppTake(f) ==
  /\ state = "run" /\ hand = Nothing /\ read_queues[f] # << >>
  /\ hand' = [fd |-> f, conn |-> Head(read_queues[f]).conn, no |-> Head(read_queues[f]).no]
  /\ read_queues' = [read_queues EXCEPT ![f] = Tail(@)]
  /\ UNCHANGED <<peer, fdOf, reg, accepted, turn, rpc, write_queues, inbox, nsent,
                 answers, state>>

\* write(client_fd): to whatever connection has the number now; on failure, which
\* includes EAGAIN, the answer goes to write_queues_.
AppWrite ==
  /\ state = "run" /\ hand # Nothing
  /\ LET f == hand.fd k == fdOf[hand.fd] m == Msg(hand.conn, hand.no) IN
     \/ /\ k # 0 /\ peer[k] \in {"open", "fin"}
        /\ answers' = [answers EXCEPT ![k] = Append(@, m)]
        /\ peer' = [peer EXCEPT ![k] = IF @ = "fin" THEN "reset" ELSE @]
        /\ UNCHANGED write_queues
     \/ /\ write_queues' = [write_queues EXCEPT ![f] = @ \cup {m}]
        /\ UNCHANGED <<answers, peer>>
  /\ hand' = Nothing
  /\ UNCHANGED <<fdOf, reg, accepted, turn, rpc, read_queues, inbox, nsent, state>>

RNext ==
  \/ \E k \in Conns : PeerConnect(k) \/ PeerSend(k) \/ PeerClose(k)
  \/ Accept \/ AddToReactor \/ AcceptFails
  \/ \E r \in Reactors :
       \/ \E f \in ConnFds : EpollRead(r, f)
       \/ Put(r) \/ CloseFd(r) \/ EpollDel(r)
  \/ \E f \in ConnFds : AppTake(f)
  \/ AppWrite

RSpec == RInit /\ [][RNext]_rVars

------------------------------------------------------------------------------
\* A connection the server has accepted and handed over is watched by a reactor
\* until it is closed.  (Violated: a reactor closes a descriptor first and removes
\* it from its epoll set afterwards, when the number may be another connection's.)
Watched ==
  \A f \in ConnFds : fdOf[f] # 0 /\ accepted.fd # f => reg[f] \in Reactors

\* A connection gets the answers to its own messages in the order it sent them,
\* each at most once, whichever reactor read them.  Before them it may get the
\* answers an earlier connection of its number left in the queue, but none of
\* those once it has got one of its own.
AnswersInOrder ==
  \A k \in Conns : \A i, j \in DOMAIN answers[k] : i < j =>
    LET a == answers[k][i] b == answers[k][j] IN
    /\ a.conn <= b.conn /\ b.conn <= k
    /\ a.conn = b.conn /\ a.no > 0 /\ b.no > 0 => a.no < b.no

==============================================================================
