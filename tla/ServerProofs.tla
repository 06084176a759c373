---------------------------- MODULE ServerProofs ----------------------------
(* Proofs about Reactor, AsioEcho and EchoServer for any number of reactors,  *)
(* connections, descriptors, messages, peers and clients, and any sizes of    *)
(* buffers.                                                                   *)
(*                                                                            *)
(* The reactor: a message goes through the pipe of its descriptor, from the   *)
(* reactor that read it through the queue to the application, and nothing     *)
(* overtakes in it, because one reactor at a time reads a descriptor; the     *)
(* connections of a descriptor come in increasing order, so what an older one *)
(* left in the pipe is in front of all that the newer one sends.              *)
(*                                                                            *)
(* The echo servers: the entries of the table the walk has passed are not due *)
(* any more, and nready counts the ones before it.                            *)
EXTENDS Reactor, AsioEcho, EchoServer, SequenceTheorems, FiniteSetTheorems,
        WellFoundedInduction, TLAPS

Msgs == [conn : Nat, no : Nat]

RTypeOK ==
  /\ peer \in [Conns -> {"none", "open", "fin", "reset", "gone"}]
  /\ fdOf \in [ConnFds -> {0} \cup Conns]
  /\ reg \in [ConnFds -> {0} \cup Reactors]
  /\ accepted = Nothing \/ accepted.fd \in ConnFds
  /\ turn \in Nat
  /\ rpc \in [Reactors -> [pc : {"wait", "put", "close", "del"}, fd : {0} \cup ConnFds, msg : Msgs]]
  /\ read_queues \in [ConnFds -> Seq(Msgs)]
  /\ hand \in [fd : {0} \cup ConnFds, conn : Nat, no : Nat]
  /\ hand = Nothing \/ hand.fd \in ConnFds
  /\ inbox \in [Conns -> Seq(Msgs)]
  /\ nsent \in [Conns -> Nat]
  /\ answers \in [Conns -> Seq(Msgs)]

\* A connection no descriptor was given to so far.
Unserved(k) == peer[k] # "gone" /\ \A f \in ConnFds : fdOf[f] # k

\* Connections are made and accepted in the order of their numbers, and each has
\* one descriptor.
ConnOrder ==
  /\ \A j, k \in Conns : j < k /\ peer[k] # "none" => peer[j] # "none"
  /\ \A j, k \in Conns : j < k /\ Unserved(j) => Unserved(k)
  /\ \A f, g \in ConnFds : fdOf[f] = fdOf[g] /\ fdOf[f] # 0 => f = g
  /\ \A f \in ConnFds : fdOf[f] # 0 => peer[fdOf[f]] \notin {"none", "gone"}

\* What is in an epoll set is open, and a reactor is busy only with a descriptor in
\* its own set.
FdOwned ==
  /\ \A f \in ConnFds : fdOf[f] = 0 => reg[f] = 0
  /\ accepted # Nothing => reg[accepted.fd] = 0 /\ fdOf[accepted.fd] # 0
  /\ \A r \in Reactors : rpc[r].pc \in {"put", "close", "del"} => rpc[r].fd \in ConnFds
  /\ \A r \in Reactors : rpc[r].pc \in {"put", "close"} => reg[rpc[r].fd] = r

\* What has arrived for k and was not read: its last messages.
InboxIsTail ==
  \A k \in Conns :
    /\ Len(inbox[k]) <= nsent[k]
    /\ \A i \in 1 .. Len(inbox[k]) : inbox[k][i] = Msg(k, nsent[k] - Len(inbox[k]) + i)

WatchInv == RTypeOK /\ ConnOrder /\ FdOwned /\ InboxIsTail

-----------------------------------------------------------------------------
\* The pipe of a descriptor, from the end.
HandOf(f) == {m \in {Msg(hand.conn, hand.no)} : hand.fd = f}
QueueOf(f) == {read_queues[f][i] : i \in 1 .. Len(read_queues[f])}
PutOf(f) == {rpc[r].msg : r \in {x \in Reactors : rpc[x].pc = "put" /\ rpc[x].fd = f}}
Pipe(f) == HandOf(f) \cup QueueOf(f) \cup PutOf(f)

\* How two messages may follow each other.
Before(a, b) ==
  /\ a.conn <= b.conn
  /\ a.conn = b.conn /\ a.no > 0 /\ b.no > 0 => a.no < b.no

\* m was sent by a connection up to k, and if by k then it is read.
ReadOf(m, k) == /\ m.conn <= k
                /\ m.conn = k => m.no <= nsent[k] - Len(inbox[k])

PipeOrder(f) ==
  /\ \A i, j \in 1 .. Len(read_queues[f]) :
       i < j => Before(read_queues[f][i], read_queues[f][j])
  /\ \A h \in HandOf(f) : \A m \in QueueOf(f) \cup PutOf(f) : Before(h, m)
  /\ \A m \in QueueOf(f) : \A p \in PutOf(f) : Before(m, p)

\* What is in the pipe was sent before anything else that will go into it, and
\* comes after all that was answered.
PipeFlow(f) ==
  \A m \in Pipe(f) :
    /\ \A k \in Conns : Unserved(k) => m.conn < k
    /\ fdOf[f] # 0 => /\ ReadOf(m, fdOf[f])
                      /\ \A i \in 1 .. Len(answers[fdOf[f]]) : Before(answers[fdOf[f]][i], m)

AnswersOK(k) ==
  /\ Unserved(k) => answers[k] = << >>
  /\ \A i \in 1 .. Len(answers[k]) : ReadOf(answers[k][i], k)
  /\ \A i, j \in 1 .. Len(answers[k]) : i < j => Before(answers[k][i], answers[k][j])

PipeInv ==
  /\ \A f \in ConnFds : PipeOrder(f) /\ PipeFlow(f)
  /\ \A k \in Conns : AnswersOK(k)

-----------------------------------------------------------------------------
LEMMA WatchInit == RInit => WatchInv
<1> SUFFICES ASSUME RInit PROVE WatchInv
  OBVIOUS
<1> USE DEF RInit
<1>1. Msg(0, 0) \in Msgs /\ 0 \notin Conns /\ Conns \subseteq Nat
  BY DEF Msg, Msgs, Conns
<1>2. RTypeOK
  BY <1>1 DEF RTypeOK, Nothing
<1>3. ConnOrder /\ FdOwned /\ InboxIsTail
  BY <1>1 DEF ConnOrder, FdOwned, InboxIsTail, Unserved
<1> QED BY <1>2, <1>3 DEF WatchInv

\* What a connection's peer does.
LEMMA PeerWatch ==
  ASSUME WatchInv, NEW k \in Conns, PeerConnect(k) \/ PeerSend(k) \/ PeerClose(k)
  PROVE  WatchInv'
<1> USE DEF WatchInv
<1>0. Conns \subseteq Nat /\ 0 \notin Conns
  BY DEF Conns
<1>1. UNCHANGED <<fdOf, reg, accepted, turn, rpc, read_queues, write_queues, hand,
                  answers, state>>
  BY DEF PeerConnect, PeerSend, PeerClose
<1>2. FdOwned'
  BY <1>1 DEF FdOwned
<1>3. CASE PeerConnect(k)
  <2>1. /\ peer' = [peer EXCEPT ![k] = "open"] /\ UNCHANGED <<inbox, nsent>>
        /\ peer[k] = "none" /\ \A j \in Conns : j < k => peer[j] # "none"
    BY <1>3 DEF PeerConnect
  <2>2. RTypeOK'
    BY <1>1, <2>1 DEF RTypeOK
  <2>3. \A j \in Conns : Unserved(j)' = Unserved(j)
    BY <1>1, <2>1 DEF Unserved, RTypeOK
  <2>4. ConnOrder'
    BY <1>0, <1>1, <2>1, <2>3 DEF ConnOrder, RTypeOK
  <2> QED BY <1>2, <2>1, <2>2, <2>4 DEF InboxIsTail
<1>4. CASE PeerClose(k)
  <2>1. /\ peer' = [peer EXCEPT ![k] = "fin"] /\ UNCHANGED <<inbox, nsent>>
        /\ peer[k] = "open"
    BY <1>4 DEF PeerClose
  <2>2. RTypeOK'
    BY <1>1, <2>1 DEF RTypeOK
  <2>3. \A j \in Conns : Unserved(j)' = Unserved(j)
    BY <1>1, <2>1 DEF Unserved, RTypeOK
  <2>4. ConnOrder'
    BY <1>0, <1>1, <2>1, <2>3 DEF ConnOrder, RTypeOK
  <2> QED BY <1>2, <2>1, <2>2, <2>4 DEF InboxIsTail
<1>5. CASE PeerSend(k)
  <2>1. /\ nsent' = [nsent EXCEPT ![k] = @ + 1] /\ UNCHANGED peer
        /\ inbox' = [inbox EXCEPT ![k] = Append(@, Msg(k, nsent[k] + 1))]
    BY <1>5 DEF PeerSend
  <2>2. Msg(k, nsent[k] + 1) \in Msgs
    BY <1>0 DEF RTypeOK, Msg, Msgs
  <2>3. nsent' \in [Conns -> Nat] /\ inbox' \in [Conns -> Seq(Msgs)]
    BY <2>1, <2>2 DEF RTypeOK
  <2>4. RTypeOK'
    BY <1>1, <2>1, <2>3 DEF RTypeOK
  <2>5. ConnOrder'
    BY <1>1, <2>1 DEF ConnOrder, Unserved
  <2>6. InboxIsTail'
    <3> SUFFICES ASSUME NEW j \in Conns
                 PROVE  /\ Len(inbox'[j]) <= nsent'[j]
                        /\ \A i \in 1 .. Len(inbox'[j]) :
                             inbox'[j][i] = Msg(j, nsent'[j] - Len(inbox'[j]) + i)
      BY DEF InboxIsTail
    <3>1. CASE j # k
      BY <2>1, <3>1 DEF InboxIsTail, RTypeOK
    <3>2. CASE j = k
      <4>1. inbox[k] \in Seq(Msgs) /\ nsent[k] \in Nat
        BY DEF RTypeOK
      <4>2. /\ nsent'[k] = nsent[k] + 1
            /\ inbox'[k] = Append(inbox[k], Msg(k, nsent[k] + 1))
        BY <2>1 DEF RTypeOK
      <4>3. /\ Len(inbox'[k]) = Len(inbox[k]) + 1
            /\ \A i \in 1 .. Len(inbox[k]) : inbox'[k][i] = inbox[k][i]
            /\ inbox'[k][Len(inbox[k]) + 1] = Msg(k, nsent[k] + 1)
        BY <2>2, <4>1, <4>2
      <4>4. /\ Len(inbox[k]) <= nsent[k] /\ Len(inbox[k]) \in Nat
            /\ \A i \in 1 .. Len(inbox[k]) : inbox[k][i] = Msg(k, nsent[k] - Len(inbox[k]) + i)
        BY <4>1 DEF InboxIsTail
      <4>5. nsent'[k] - Len(inbox'[k]) = nsent[k] - Len(inbox[k])
        BY <4>1, <4>2, <4>3, <4>4
      <4>6. ASSUME NEW i \in 1 .. Len(inbox'[k])
            PROVE  inbox'[k][i] = Msg(k, nsent[k] - Len(inbox[k]) + i)
        <5>1. CASE i <= Len(inbox[k])
          BY <4>3, <4>4, <5>1
        <5>2. CASE i = Len(inbox[k]) + 1
          <6>1. nsent[k] - Len(inbox[k]) + i = nsent[k] + 1
            BY <4>1, <4>4, <5>2
          <6> QED BY <4>3, <5>2, <6>1
        <5> QED BY <4>3, <4>4, <5>1, <5>2
      <4>7. Len(inbox'[k]) <= nsent'[k]
        BY <4>1, <4>2, <4>3, <4>4
      <4> QED BY <3>2, <4>5, <4>6, <4>7
    <3> QED BY <3>1, <3>2
  <2> QED BY <1>2, <2>4, <2>5, <2>6
<1> QED BY <1>3, <1>4, <1>5

LEMMA AcceptWatch ==
  ASSUME WatchInv, Accept \/ AddToReactor \/ AcceptFails
  PROVE  WatchInv'
<1> USE DEF WatchInv
<1>0. Conns \subseteq Nat /\ 0 \notin Conns /\ 0 \notin ConnFds /\ 0 \notin Reactors
  BY ReactorAssumption DEF Conns, Reactors
<1>1. CASE AcceptFails
  BY <1>1 DEF AcceptFails, RTypeOK, ConnOrder, FdOwned, InboxIsTail, Unserved
<1>2. CASE Accept
  <2>1. PICK k \in Waiting, f \in FreeFds :
          /\ \A j \in Waiting : k <= j
          /\ fdOf' = [fdOf EXCEPT ![f] = k]
          /\ accepted' = [fd |-> f, conn |-> k, no |-> 0]
    BY <1>2 DEF Accept
  <2>2. UNCHANGED <<peer, reg, turn, rpc, read_queues, write_queues, hand, inbox,
                    nsent, answers, state>> /\ accepted = Nothing
    BY <1>2 DEF Accept
  <2>3. k \in Conns /\ Unserved(k) /\ peer[k] # "none"
    BY DEF Waiting, Unserved
  <2>4. f \in ConnFds /\ fdOf[f] = 0 /\ reg[f] = 0
    BY DEF FreeFds, FdOwned
  <2>5. /\ accepted' # Nothing /\ accepted'.fd = f
        /\ fdOf'[f] = k /\ \A g \in ConnFds \ {f} : fdOf'[g] = fdOf[g]
    BY <1>0, <2>1, <2>4 DEF Nothing, RTypeOK
  <2>6. RTypeOK'
    BY <2>1, <2>2, <2>3, <2>4, <2>5 DEF RTypeOK
  <2>7. \A j \in Conns : Unserved(j)' <=> Unserved(j) /\ j # k
    BY <1>0, <2>2, <2>4, <2>5 DEF Unserved
  <2>8. \A j \in Conns : j < k => ~Unserved(j)
    <3> SUFFICES ASSUME NEW j \in Conns, j < k, Unserved(j) PROVE FALSE
      OBVIOUS
    <3>1. peer[j] # "none"
      BY <2>3 DEF ConnOrder
    <3>2. j \in Waiting
      BY <3>1 DEF Waiting, Unserved
    <3> QED BY <1>0, <2>1, <2>3, <3>2
  <2>9. ConnOrder'
    BY <1>0, <2>2, <2>3, <2>4, <2>5, <2>7, <2>8 DEF ConnOrder, Unserved
  <2>10. FdOwned'
    BY <1>0, <2>2, <2>3, <2>4, <2>5 DEF FdOwned
  <2> QED BY <2>2, <2>6, <2>9, <2>10 DEF InboxIsTail
<1>3. CASE AddToReactor
  <2> DEFINE f == accepted.fd
  <2>1. /\ accepted # Nothing /\ turn' = (turn % NumReactors) + 1
        /\ reg' = [reg EXCEPT ![f] = turn'] /\ accepted' = Nothing
        /\ UNCHANGED <<peer, fdOf, rpc, read_queues, write_queues, hand, inbox, nsent,
                       answers, state>>
    BY <1>3 DEF AddToReactor
  <2>2. turn' \in Reactors /\ turn' \in Nat
    BY <2>1, ReactorAssumption DEF Reactors, RTypeOK
  <2>3. f \in ConnFds /\ reg[f] = 0
    BY <2>1 DEF RTypeOK, FdOwned
  <2>4. reg'[f] = turn' /\ \A g \in ConnFds \ {f} : reg'[g] = reg[g]
    BY <2>1, <2>3 DEF RTypeOK
  <2>5. RTypeOK'
    BY <2>1, <2>2, <2>3 DEF RTypeOK
  <2>6. ConnOrder' /\ InboxIsTail'
    BY <2>1 DEF ConnOrder, Unserved, InboxIsTail
  <2>7. fdOf[f] # 0
    BY <2>1 DEF FdOwned
  <2>8. FdOwned'
    BY <1>0, <2>1, <2>3, <2>4, <2>7 DEF FdOwned, Nothing
  <2> QED BY <2>5, <2>6, <2>8
<1> QED BY <1>1, <1>2, <1>3

LEMMA ShiftIndex ==
  ASSUME NEW x \in Nat, NEW n \in Nat, NEW i \in Int
  PROVE  n - x + (i + 1) = n - (x - 1) + i
OBVIOUS

\* What one reactor does.
LEMMA ReactorWatch ==
  ASSUME WatchInv, NEW r \in Reactors,
         \/ \E f \in ConnFds : EpollRead(r, f)
         \/ Put(r) \/ CloseFd(r) \/ EpollDel(r)
  PROVE  WatchInv'
<1> USE DEF WatchInv
<1>0. Conns \subseteq Nat /\ 0 \notin Conns /\ 0 \notin ConnFds /\ 0 \notin Reactors
      /\ Msg(0, 0) \in Msgs
  BY ReactorAssumption DEF Conns, Reactors, Msg, Msgs
<1>1. ASSUME NEW p \in {"wait", "put", "close", "del"}, NEW f \in {0} \cup ConnFds,
             NEW m \in Msgs, RGoto(r, p, f, m)
      PROVE  /\ rpc' \in [Reactors -> [pc : {"wait", "put", "close", "del"},
                                       fd : {0} \cup ConnFds, msg : Msgs]]
             /\ rpc'[r].pc = p /\ rpc'[r].fd = f
             /\ \A q \in Reactors \ {r} : rpc'[q] = rpc[q]
  BY <1>1 DEF RGoto, RTypeOK
<1>2. ASSUME NEW f \in ConnFds, EpollRead(r, f) PROVE WatchInv'
  <2> DEFINE k == fdOf[f]
  <2>1. reg[f] = r /\ k \in Conns
    BY <1>0, <1>2 DEF EpollRead, FdOwned, RTypeOK
  <2>2. UNCHANGED <<peer, fdOf, reg, accepted, turn, read_queues, write_queues, hand,
                    nsent, answers, state>>
    BY <1>2 DEF EpollRead
  <2>3. ASSUME inbox[k] # << >>
        PROVE  /\ Head(inbox[k]) \in Msgs /\ Tail(inbox[k]) \in Seq(Msgs)
               /\ Len(Tail(inbox[k])) = Len(inbox[k]) - 1
               /\ \A i \in 1 .. Len(inbox[k]) - 1 : Tail(inbox[k])[i] = inbox[k][i + 1]
    BY <2>1, <2>3 DEF RTypeOK
  <2>4. Msg(k, 0) \in Msgs
    BY <1>0, <2>1 DEF Msg, Msgs
  <2>5. \E p \in {"put", "close"}, m \in Msgs : RGoto(r, p, f, m)
    BY <1>0, <1>2, <2>3, <2>4 DEF EpollRead
  <2>6. PICK p \in {"put", "close"}, m \in Msgs : RGoto(r, p, f, m)
    BY <2>5
  <2>7. /\ rpc' \in [Reactors -> [pc : {"wait", "put", "close", "del"},
                                  fd : {0} \cup ConnFds, msg : Msgs]]
        /\ rpc'[r].pc = p /\ rpc'[r].fd = f
        /\ \A q \in Reactors \ {r} : rpc'[q] = rpc[q]
    BY <1>1, <2>6
  <2>8. \/ UNCHANGED inbox
        \/ inbox[k] # << >> /\ inbox' = [inbox EXCEPT ![k] = Tail(inbox[k])]
    BY <1>2 DEF EpollRead
  <2>9. inbox' \in [Conns -> Seq(Msgs)]
    BY <2>3, <2>8 DEF RTypeOK
  <2>10. RTypeOK'
    BY <2>2, <2>7, <2>9 DEF RTypeOK
  <2>11. FdOwned'
    BY <2>1, <2>2, <2>7 DEF FdOwned
  <2>12. InboxIsTail'
    <3>1. CASE UNCHANGED inbox
      BY <2>2, <3>1 DEF InboxIsTail
    <3>2. CASE inbox[k] # << >> /\ inbox' = [inbox EXCEPT ![k] = Tail(inbox[k])]
      <4> SUFFICES ASSUME NEW j \in Conns
                   PROVE  /\ Len(inbox'[j]) <= nsent[j]
                          /\ \A i \in 1 .. Len(inbox'[j]) :
                               inbox'[j][i] = Msg(j, nsent[j] - Len(inbox'[j]) + i)
        BY <2>2 DEF InboxIsTail
      <4>1. CASE j # k
        BY <3>2, <4>1 DEF InboxIsTail, RTypeOK
      <4>2. CASE j = k
        <5>1. /\ inbox'[k] = Tail(inbox[k]) /\ inbox[k] \in Seq(Msgs) /\ nsent[k] \in Nat
              /\ Len(inbox[k]) \in Nat
          BY <2>1, <3>2 DEF RTypeOK
        <5>2. /\ Len(inbox'[k]) = Len(inbox[k]) - 1
              /\ \A i \in 1 .. Len(inbox[k]) - 1 : inbox'[k][i] = inbox[k][i + 1]
          BY <2>3, <3>2, <5>1
        <5>3. /\ Len(inbox[k]) <= nsent[k]
              /\ \A i \in 1 .. Len(inbox[k]) : inbox[k][i] = Msg(k, nsent[k] - Len(inbox[k]) + i)
          BY <2>1 DEF InboxIsTail
        <5>4. ASSUME NEW i \in 1 .. Len(inbox'[k])
              PROVE  inbox'[k][i] = Msg(k, nsent[k] - Len(inbox'[k]) + i)
          <6>1. i + 1 \in 1 .. Len(inbox[k]) /\ i \in 1 .. Len(inbox[k]) - 1
            BY <5>1, <5>2
          <6>a. nsent[k] - Len(inbox[k]) + (i + 1) = nsent[k] - (Len(inbox[k]) - 1) + i
            BY <5>1, ShiftIndex, SMTT(30)
          <6>2. nsent[k] - Len(inbox[k]) + (i + 1) = nsent[k] - Len(inbox'[k]) + i
            BY <5>2, <6>a
          <6>3. inbox'[k][i] = Msg(k, nsent[k] - Len(inbox[k]) + (i + 1))
            BY <5>2, <5>3, <6>1
          <6> QED BY <6>2, <6>3
        <5> QED BY <4>2, <5>1, <5>2, <5>3, <5>4
      <4> QED BY <4>1, <4>2
    <3> QED BY <2>8, <3>1, <3>2
  <2> QED BY <2>2, <2>10, <2>11, <2>12 DEF ConnOrder, Unserved
<1>3. CASE Put(r)
  <2> DEFINE f == rpc[r].fd
             m == rpc[r].msg
  <2>1. f \in ConnFds /\ m \in Msgs
    BY <1>3 DEF Put, RAt, FdOwned, RTypeOK
  <2>2. /\ read_queues' = [read_queues EXCEPT ![f] =
             IF m.no = 0 /\ Contains(@, m) THEN @ ELSE Append(@, m)]
        /\ RGoto(r, "wait", 0, Msg(0, 0))
        /\ UNCHANGED <<peer, fdOf, reg, accepted, turn, write_queues, hand, inbox, nsent,
                       answers, state>>
    BY <1>3 DEF Put
  <2>3. read_queues' \in [ConnFds -> Seq(Msgs)]
    BY <2>1, <2>2 DEF RTypeOK
  <2>4. /\ rpc' \in [Reactors -> [pc : {"wait", "put", "close", "del"},
                                  fd : {0} \cup ConnFds, msg : Msgs]]
        /\ rpc'[r].pc = "wait" /\ \A q \in Reactors \ {r} : rpc'[q] = rpc[q]
    BY <1>0, <1>1, <2>2
  <2>5. RTypeOK'
    BY <2>2, <2>3, <2>4 DEF RTypeOK
  <2>6. FdOwned'
    BY <2>2, <2>4 DEF FdOwned
  <2>7. ConnOrder' /\ InboxIsTail'
    BY <2>2 DEF ConnOrder, InboxIsTail, Unserved
  <2> QED BY <2>5, <2>6, <2>7
<1>4. CASE CloseFd(r)
  <2> DEFINE f == rpc[r].fd
             k == fdOf[f]
  <2>1. f \in ConnFds /\ reg[f] = r /\ k \in Conns
    BY <1>0, <1>4 DEF CloseFd, RAt, FdOwned, RTypeOK
  <2>2. /\ peer' = [peer EXCEPT ![k] = "gone"] /\ fdOf' = [fdOf EXCEPT ![f] = 0]
        /\ reg' = [reg EXCEPT ![f] = 0] /\ RGoto(r, "del", f, Msg(0, 0))
        /\ UNCHANGED <<accepted, turn, read_queues, write_queues, hand, inbox, nsent,
                       answers, state>>
    BY <1>4 DEF CloseFd
  <2>3. /\ rpc' \in [Reactors -> [pc : {"wait", "put", "close", "del"},
                                  fd : {0} \cup ConnFds, msg : Msgs]]
        /\ rpc'[r].pc = "del" /\ rpc'[r].fd = f
        /\ \A q \in Reactors \ {r} : rpc'[q] = rpc[q]
    BY <1>0, <1>1, <2>1, <2>2
  <2>4. /\ fdOf'[f] = 0 /\ \A g \in ConnFds \ {f} : fdOf'[g] = fdOf[g] /\ reg'[g] = reg[g]
        /\ reg'[f] = 0 /\ peer'[k] = "gone" /\ \A j \in Conns \ {k} : peer'[j] = peer[j]
    BY <2>1, <2>2 DEF RTypeOK
  <2>5. RTypeOK'
    BY <2>1, <2>2, <2>3 DEF RTypeOK
  <2>6. \A j \in Conns : Unserved(j)' = Unserved(j)
    BY <1>0, <2>1, <2>4 DEF Unserved
  <2>7. ConnOrder'
    <3>1. \A j \in Conns : peer'[j] = "none" <=> peer[j] = "none"
      BY <1>0, <2>1, <2>4 DEF ConnOrder
    <3>2. \A g \in ConnFds : fdOf'[g] # 0 => g # f /\ fdOf[g] # k /\ fdOf'[g] = fdOf[g]
      BY <1>0, <2>1, <2>4 DEF ConnOrder
    <3>3. \A g \in ConnFds : fdOf'[g] # 0 => peer'[fdOf'[g]] \notin {"none", "gone"}
      BY <2>1, <2>4, <3>2 DEF ConnOrder, RTypeOK
    <3> QED BY <2>6, <3>1, <3>2, <3>3 DEF ConnOrder
  <2>8. accepted # Nothing => accepted.fd # f /\ accepted.fd \in ConnFds
    BY <1>0, <2>1 DEF FdOwned, RTypeOK
  <2>9. FdOwned'
    <3>1. \A q \in Reactors \ {r} : rpc[q].pc \in {"put", "close"} =>
            rpc[q].fd \in ConnFds /\ rpc[q].fd # f
      BY <2>1 DEF FdOwned
    <3> QED BY <2>1, <2>2, <2>3, <2>4, <2>8, <3>1 DEF FdOwned
  <2> QED BY <2>2, <2>5, <2>7, <2>9 DEF InboxIsTail
<1>5. CASE EpollDel(r)
  <2> DEFINE f == rpc[r].fd
  <2>1. f \in ConnFds
    BY <1>5 DEF EpollDel, RAt, FdOwned
  <2>2. /\ RGoto(r, "wait", 0, Msg(0, 0))
        /\ UNCHANGED <<peer, fdOf, accepted, turn, read_queues, write_queues, hand, inbox,
                       nsent, answers, state>>
        /\ \/ reg[f] = r /\ reg' = [reg EXCEPT ![f] = 0]
           \/ UNCHANGED reg
    BY <1>5 DEF EpollDel
  <2>3. /\ rpc' \in [Reactors -> [pc : {"wait", "put", "close", "del"},
                                  fd : {0} \cup ConnFds, msg : Msgs]]
        /\ rpc'[r].pc = "wait" /\ \A q \in Reactors \ {r} : rpc'[q] = rpc[q]
    BY <1>0, <1>1, <2>2
  <2>4. RTypeOK'
    BY <2>1, <2>2, <2>3 DEF RTypeOK
  <2>5. ConnOrder' /\ InboxIsTail'
    BY <2>2 DEF ConnOrder, Unserved, InboxIsTail
  <2>6. FdOwned'
    <3>1. \A q \in Reactors \ {r} : rpc[q].pc \in {"put", "close"} /\ reg[f] = r =>
            rpc[q].fd \in ConnFds /\ rpc[q].fd # f
      BY <2>1 DEF FdOwned
    <3>2. \A g \in ConnFds : reg'[g] = reg[g] \/ (g = f /\ reg[f] = r /\ reg'[g] = 0)
      BY <2>1, <2>2 DEF RTypeOK
    <3>3. accepted # Nothing => accepted.fd \in ConnFds
      BY DEF RTypeOK
    <3> QED BY <2>1, <2>2, <2>3, <3>1, <3>2, <3>3 DEF FdOwned
  <2> QED BY <2>4, <2>5, <2>6
<1> QED BY <1>2, <1>3, <1>4, <1>5

\* What the application does.
LEMMA AppWatch ==
  ASSUME WatchInv, (\E f \in ConnFds : AppTake(f)) \/ AppWrite
  PROVE  WatchInv'
<1> USE DEF WatchInv
<1>0. Conns \subseteq Nat /\ 0 \notin Conns /\ 0 \notin ConnFds
  BY ReactorAssumption DEF Conns
<1>1. UNCHANGED <<fdOf, reg, accepted, turn, rpc, inbox, nsent, state>>
  BY DEF AppTake, AppWrite
<1>2. FdOwned' /\ InboxIsTail'
  BY <1>1 DEF FdOwned, InboxIsTail
<1>3. ASSUME NEW f \in ConnFds, AppTake(f) PROVE WatchInv'
  <2>1. /\ read_queues[f] # << >>
        /\ hand' = [fd |-> f, conn |-> Head(read_queues[f]).conn, no |-> Head(read_queues[f]).no]
        /\ read_queues' = [read_queues EXCEPT ![f] = Tail(@)]
        /\ UNCHANGED <<peer, answers>>
    BY <1>3 DEF AppTake
  <2>2. Head(read_queues[f]) \in Msgs /\ Tail(read_queues[f]) \in Seq(Msgs)
    BY <2>1 DEF RTypeOK
  <2>3. hand' \in [fd : {0} \cup ConnFds, conn : Nat, no : Nat] /\ hand'.fd \in ConnFds
    BY <2>1, <2>2 DEF Msgs
  <2>4. RTypeOK'
    BY <1>1, <2>1, <2>2, <2>3 DEF RTypeOK
  <2> QED BY <1>1, <1>2, <2>1, <2>4 DEF ConnOrder, Unserved
<1>4. CASE AppWrite
  <2> DEFINE k == fdOf[hand.fd]
             m == Msg(hand.conn, hand.no)
  <2>1. hand # Nothing /\ hand' = Nothing /\ UNCHANGED read_queues
    BY <1>4 DEF AppWrite
  <2>2. \/ UNCHANGED <<answers, peer>>
        \/ /\ k # 0 /\ peer[k] \in {"open", "fin"}
           /\ answers' = [answers EXCEPT ![k] = Append(@, m)]
           /\ peer' = [peer EXCEPT ![k] = IF @ = "fin" THEN "reset" ELSE @]
    BY <1>4 DEF AppWrite
  <2>3. hand.fd \in ConnFds /\ m \in Msgs /\ k \in {0} \cup Conns
    BY <2>1 DEF RTypeOK, Msg, Msgs
  <2>a. hand' \in [fd : {0} \cup ConnFds, conn : Nat, no : Nat]
    BY <2>1 DEF Nothing
  <2>b. peer' \in [Conns -> {"none", "open", "fin", "reset", "gone"}]
    BY <2>2, <2>3 DEF RTypeOK
  <2>c. answers' \in [Conns -> Seq(Msgs)]
    <3>1. CASE UNCHANGED answers
      BY <3>1 DEF RTypeOK
    <3>2. CASE k # 0 /\ answers' = [answers EXCEPT ![k] = Append(@, m)]
      <4>1. k \in Conns /\ answers[k] \in Seq(Msgs)
        BY <2>3, <3>2 DEF RTypeOK
      <4>2. Append(answers[k], m) \in Seq(Msgs)
        BY <2>3, <4>1
      <4> QED BY <3>2, <4>1, <4>2 DEF RTypeOK
    <3> QED BY <2>2, <3>1, <3>2
  <2>4. /\ hand' \in [fd : {0} \cup ConnFds, conn : Nat, no : Nat]
        /\ answers' \in [Conns -> Seq(Msgs)]
        /\ peer' \in [Conns -> {"none", "open", "fin", "reset", "gone"}]
    BY <2>a, <2>b, <2>c
  <2>5. RTypeOK'
    BY <1>1, <2>1, <2>4 DEF RTypeOK
  <2>6. \A j \in Conns : \/ peer'[j] = peer[j]
                         \/ peer[j] \in {"open", "fin"} /\ peer'[j] \in {"open", "reset"}
    BY <2>2, <2>3 DEF RTypeOK
  <2>7. \A j \in Conns : Unserved(j)' = Unserved(j)
    BY <1>1, <2>6 DEF Unserved
  <2>8. ConnOrder'
    BY <1>0, <1>1, <2>6, <2>7 DEF ConnOrder, RTypeOK
  <2> QED BY <1>2, <2>5, <2>8
<1> QED BY <1>3, <1>4

LEMMA WatchStep == WatchInv /\ [RNext]_rVars => WatchInv'
<1> SUFFICES ASSUME WatchInv, [RNext]_rVars PROVE WatchInv'
  OBVIOUS
<1>1. CASE UNCHANGED rVars
  BY <1>1 DEF rVars, WatchInv, RTypeOK, ConnOrder, FdOwned, InboxIsTail, Unserved
<1> QED BY <1>1, PeerWatch, AcceptWatch, ReactorWatch, AppWatch, Zenon DEF RNext

THEOREM WatchInvariance == RSpec => []WatchInv
<1> QED BY WatchInit, WatchStep, PTL DEF RSpec

-----------------------------------------------------------------------------
\* A message of the pipe is a message.
LEMMA PipeMsgs ==
  ASSUME WatchInv, NEW f \in ConnFds
  PROVE  Pipe(f) \subseteq Msgs
<1>1. HandOf(f) \subseteq Msgs
  BY DEF HandOf, Msg, Msgs, WatchInv, RTypeOK
<1>2. QueueOf(f) \subseteq Msgs
  BY DEF QueueOf, WatchInv, RTypeOK
<1>3. PutOf(f) \subseteq Msgs
  BY DEF PutOf, WatchInv, RTypeOK
<1> QED BY <1>1, <1>2, <1>3 DEF Pipe

\* A step by which no pipe gets a message, no connection a descriptor or an answer,
\* and nothing that was read counts as unread again.
LEMMA PipeShrinks ==
  ASSUME WatchInv, WatchInv', PipeInv, UNCHANGED answers,
         \A k \in Conns : Unserved(k)' => Unserved(k),
         \A f \in ConnFds : fdOf'[f] = 0 \/ fdOf'[f] = fdOf[f],
         \A k \in Conns : nsent[k] - Len(inbox[k]) <= nsent'[k] - Len(inbox'[k]),
         \A f \in ConnFds : Pipe(f)' \subseteq Pipe(f),
         \A f \in ConnFds : PipeOrder(f)'
  PROVE  PipeInv'
<1>a. \A k \in Conns : nsent[k] \in Nat /\ Len(inbox[k]) \in Nat
  BY DEF WatchInv, RTypeOK
<1>b. \A k \in Conns : nsent'[k] \in Nat /\ Len(inbox'[k]) \in Nat
  BY DEF WatchInv, RTypeOK
<1>c. \A f \in ConnFds : fdOf[f] \in {0} \cup Conns
  BY DEF WatchInv, RTypeOK
<1>1. ASSUME NEW k \in Conns, NEW m \in Msgs, ReadOf(m, k) PROVE ReadOf(m, k)'
  <2>1. m.no \in Nat
    BY DEF Msgs
  <2> QED BY <1>a, <1>b, <1>1, <2>1 DEF ReadOf
<1>2. ASSUME NEW f \in ConnFds PROVE PipeFlow(f)'
  <2>1. ASSUME NEW m \in Pipe(f)', NEW k \in Conns, Unserved(k)' PROVE m.conn < k
    BY <2>1 DEF PipeInv, PipeFlow
  <2>2. ASSUME NEW m \in Pipe(f)', NEW k, k = fdOf'[f], k # 0
        PROVE  ReadOf(m, k)' /\ \A i \in 1 .. Len(answers'[k]) : Before(answers'[k][i], m)
    <3>1. fdOf[f] = k /\ k \in Conns
      BY <1>c, <2>2
    <3>2. m \in Msgs /\ ReadOf(m, k) /\ \A i \in 1 .. Len(answers[k]) : Before(answers[k][i], m)
      BY <2>2, <3>1, PipeMsgs DEF PipeInv, PipeFlow
    <3> QED BY <1>1, <3>1, <3>2
  <2> QED BY <2>1, <2>2 DEF PipeFlow
<1>3. ASSUME NEW k \in Conns PROVE AnswersOK(k)'
  <2>1. answers[k] \in Seq(Msgs)
    BY DEF WatchInv, RTypeOK
  <2>2. AnswersOK(k)
    BY DEF PipeInv
  <2>3. \A i \in 1 .. Len(answers[k]) : answers[k][i] \in Msgs /\ ReadOf(answers[k][i], k)
    BY <2>1, <2>2 DEF AnswersOK
  <2>4. \A i \in 1 .. Len(answers[k]) : ReadOf(answers[k][i], k)'
    BY <1>1, <2>3 DEF ReadOf
  <2> QED BY <2>2, <2>4 DEF AnswersOK, ReadOf
<1> QED BY <1>2, <1>3 DEF PipeInv

\* Steps that leave the queues and the application alone, and put nothing.
LEMMA PipeStays ==
  ASSUME PipeInv, UNCHANGED <<hand, read_queues>>, NEW f \in ConnFds, PutOf(f)' \subseteq PutOf(f)
  PROVE  Pipe(f)' \subseteq Pipe(f) /\ PipeOrder(f)'
<1>1. HandOf(f)' = HandOf(f) /\ QueueOf(f)' = QueueOf(f)
  BY DEF HandOf, QueueOf
<1>2. PipeOrder(f)
  BY DEF PipeInv
<1> QED BY <1>1, <1>2 DEF Pipe, PipeOrder

LEMMA PeerPipe ==
  ASSUME WatchInv, WatchInv', PipeInv, NEW k \in Conns,
         PeerConnect(k) \/ PeerSend(k) \/ PeerClose(k)
  PROVE  PipeInv'
<1>1. UNCHANGED <<fdOf, rpc, read_queues, hand, answers>>
  BY DEF PeerConnect, PeerSend, PeerClose
<1>2. \A f \in ConnFds : PutOf(f)' \subseteq PutOf(f)
  BY <1>1 DEF PutOf
<1>3. \A j \in Conns : peer'[j] = "gone" <=> peer[j] = "gone"
  BY DEF PeerConnect, PeerSend, PeerClose, WatchInv, RTypeOK
<1>4. \A j \in Conns : Unserved(j)' => Unserved(j)
  BY <1>1, <1>3 DEF Unserved
<1>5. \A j \in Conns : nsent[j] \in Nat /\ Len(inbox[j]) \in Nat /\ inbox[j] \in Seq(Msgs)
  BY DEF WatchInv, RTypeOK
<1>6. \A j \in Conns : nsent[j] - Len(inbox[j]) <= nsent'[j] - Len(inbox'[j])
  <2>1. CASE PeerSend(k)
    <3>1. /\ nsent'[k] = nsent[k] + 1 /\ inbox'[k] = Append(inbox[k], Msg(k, nsent[k] + 1))
          /\ \A j \in Conns \ {k} : nsent'[j] = nsent[j] /\ inbox'[j] = inbox[j]
      BY <2>1 DEF PeerSend, WatchInv, RTypeOK
    <3>2. Len(inbox'[k]) = Len(inbox[k]) + 1
      BY <1>5, <3>1
    <3> QED BY <1>5, <3>1, <3>2, SMTT(30)
  <2>2. CASE UNCHANGED <<inbox, nsent>>
    BY <1>5, <2>2
  <2> QED BY <2>1, <2>2 DEF PeerConnect, PeerClose
<1> QED BY <1>1, <1>2, <1>4, <1>6, PipeStays, PipeShrinks

LEMMA AcceptPipe ==
  ASSUME WatchInv, WatchInv', PipeInv, Accept \/ AddToReactor \/ AcceptFails
  PROVE  PipeInv'
<1>0. \A j \in Conns : nsent[j] \in Nat /\ Len(inbox[j]) \in Nat /\ j # 0
  <2>1. nsent \in [Conns -> Nat] /\ inbox \in [Conns -> Seq(Msgs)]
    BY DEF WatchInv, RTypeOK
  <2>2. \A j \in Conns : j # 0
    BY DEF Conns
  <2> QED BY <2>1, <2>2
<1>1. UNCHANGED <<peer, rpc, read_queues, hand, answers, inbox, nsent>>
  BY DEF Accept, AddToReactor, AcceptFails
<1>2. \A f \in ConnFds : PutOf(f)' \subseteq PutOf(f)
  BY <1>1 DEF PutOf
<1>3. CASE AddToReactor \/ AcceptFails
  <2>1. UNCHANGED fdOf
    BY <1>3 DEF AddToReactor, AcceptFails
  <2>2. \A j \in Conns : Unserved(j)' => Unserved(j)
    BY <1>1, <2>1 DEF Unserved
  <2>3. \A j \in Conns : nsent[j] - Len(inbox[j]) <= nsent'[j] - Len(inbox'[j])
    BY <1>0, <1>1
  <2> QED BY <1>1, <1>2, <2>1, <2>2, <2>3, PipeStays, PipeShrinks
<1>4. CASE Accept
  <2>1. PICK k \in Waiting, f \in FreeFds : fdOf' = [fdOf EXCEPT ![f] = k]
    BY <1>4 DEF Accept
  <2>2. /\ k \in Conns /\ Unserved(k) /\ f \in ConnFds /\ fdOf[f] = 0
        /\ fdOf'[f] = k /\ \A g \in ConnFds \ {f} : fdOf'[g] = fdOf[g]
    BY <2>1 DEF Waiting, FreeFds, Unserved, WatchInv, RTypeOK
  <2>3. \A j \in Conns : Unserved(j)' => Unserved(j)
    BY <1>0, <1>1, <2>2 DEF Unserved
  <2>4. answers[k] = << >>
    BY <2>2 DEF PipeInv, AnswersOK
  <2>5. \A g \in ConnFds : Pipe(g)' \subseteq Pipe(g) /\ PipeOrder(g)'
    BY <1>1, <1>2, PipeStays
  <2>6. ASSUME NEW g \in ConnFds PROVE PipeFlow(g)'
    <3>1. CASE g # f
      BY <1>1, <2>2, <2>3, <2>5, <3>1 DEF PipeInv, PipeFlow, ReadOf
    <3>2. CASE g = f
      <4>1. \A m \in Pipe(f) : m.conn < k /\ m.conn \in Nat
        BY <2>2, PipeMsgs DEF PipeInv, PipeFlow, Msgs
      <4>2. \A m \in Pipe(f) : m.conn <= k /\ m.conn # k
        <5>1. k \in Nat
          BY <2>2 DEF Conns
        <5> QED BY <4>1, <5>1
      <4>3. \A m \in Pipe(f) : \A j \in Conns : Unserved(j)' => m.conn < j
        BY <2>2, <2>3 DEF PipeInv, PipeFlow
      <4> QED BY <1>1, <2>2, <2>4, <2>5, <3>2, <4>2, <4>3 DEF PipeFlow, ReadOf
    <3> QED BY <3>1, <3>2
  <2>7. ASSUME NEW j \in Conns PROVE AnswersOK(j)'
    BY <1>1, <2>3 DEF PipeInv, AnswersOK, ReadOf
  <2> QED BY <2>5, <2>6, <2>7 DEF PipeInv
<1> QED BY <1>3, <1>4

\* The descriptor a reactor is busy with is in nobody else's hands.
LEMMA PutAlone ==
  ASSUME WatchInv, NEW f \in ConnFds, NEW r \in Reactors, reg[f] = r,
         NEW q \in Reactors, rpc[q].pc = "put", rpc[q].fd = f
  PROVE  q = r
BY DEF WatchInv, FdOwned

LEMMA GotoElsewhere ==
  ASSUME WatchInv, NEW r \in Reactors, NEW p \in {"wait", "close", "del"},
         NEW f \in {0} \cup ConnFds, RGoto(r, p, f, Msg(0, 0))
  PROVE  /\ rpc'[r].pc = p
         /\ \A q \in Reactors \ {r} : rpc'[q] = rpc[q]
         /\ \A g \in ConnFds : PutOf(g)' \subseteq PutOf(g)
<1>1. rpc'[r].pc = p /\ \A q \in Reactors \ {r} : rpc'[q] = rpc[q]
  BY DEF RGoto, WatchInv, RTypeOK
<1>2. ASSUME NEW g \in ConnFds, NEW x \in PutOf(g)' PROVE x \in PutOf(g)
  <2>1. PICK q \in Reactors : rpc'[q].pc = "put" /\ rpc'[q].fd = g /\ x = rpc'[q].msg
    BY <1>2 DEF PutOf
  <2>2. q # r
    BY <1>1, <2>1
  <2> QED BY <1>1, <2>1, <2>2 DEF PutOf
<1> QED BY <1>1, <1>2

LEMMA ClosePipe ==
  ASSUME WatchInv, WatchInv', PipeInv, NEW r \in Reactors, CloseFd(r) \/ EpollDel(r)
  PROVE  PipeInv'
<1>0. \A j \in Conns : nsent[j] \in Nat /\ Len(inbox[j]) \in Nat
  BY DEF WatchInv, RTypeOK
<1>1. UNCHANGED <<read_queues, hand, inbox, nsent, answers>>
  BY DEF CloseFd, EpollDel
<1>2. \A g \in ConnFds : PutOf(g)' \subseteq PutOf(g)
  <2>1. CASE CloseFd(r)
    <3>1. PICK f \in ConnFds : RGoto(r, "del", f, Msg(0, 0))
      BY <2>1 DEF CloseFd, RAt, WatchInv, FdOwned
    <3> QED BY <3>1, GotoElsewhere
  <2>2. CASE EpollDel(r)
    <3>1. RGoto(r, "wait", 0, Msg(0, 0))
      BY <2>2 DEF EpollDel
    <3> QED BY <3>1, GotoElsewhere
  <2> QED BY <2>1, <2>2
<1>3. \A j \in Conns : nsent[j] - Len(inbox[j]) <= nsent'[j] - Len(inbox'[j])
  BY <1>0, <1>1
<1>4. \A g \in ConnFds : fdOf'[g] = 0 \/ fdOf'[g] = fdOf[g]
  BY DEF CloseFd, EpollDel, WatchInv, RTypeOK
<1>5. \A j \in Conns : Unserved(j)' => Unserved(j)
  <2>1. CASE EpollDel(r)
    BY <2>1 DEF EpollDel, Unserved
  <2>2. CASE CloseFd(r)
    <3>1. PICK f \in ConnFds : /\ peer' = [peer EXCEPT ![fdOf[f]] = "gone"]
                               /\ fdOf' = [fdOf EXCEPT ![f] = 0]
      BY <2>2 DEF CloseFd, RAt, WatchInv, FdOwned
    <3>2. \A j \in Conns : /\ j = fdOf[f] => peer'[j] = "gone"
                           /\ j # fdOf[f] => peer'[j] = peer[j]
      BY <3>1 DEF WatchInv, RTypeOK
    <3>3. \A g \in ConnFds \ {f} : fdOf'[g] = fdOf[g]
      BY <3>1 DEF WatchInv, RTypeOK
    <3> QED BY <3>2, <3>3 DEF Unserved
  <2> QED BY <2>1, <2>2
<1> QED BY <1>1, <1>2, <1>3, <1>4, <1>5, PipeStays, PipeShrinks

LEMMA PutPipe ==
  ASSUME WatchInv, WatchInv', PipeInv, NEW r \in Reactors, Put(r)
  PROVE  PipeInv'
<1>0. \A j \in Conns : nsent[j] \in Nat /\ Len(inbox[j]) \in Nat
  BY DEF WatchInv, RTypeOK
<1>1. PICK f \in ConnFds, m \in Msgs :
        rpc[r].fd = f /\ rpc[r].msg = m /\ reg[f] = r /\ rpc[r].pc = "put"
  BY DEF Put, RAt, WatchInv, FdOwned, RTypeOK
<1>a. PICK q : q = read_queues[f]
  OBVIOUS
<1>2. /\ read_queues' = [read_queues EXCEPT ![f] =
           IF m.no = 0 /\ Contains(@, m) THEN @ ELSE Append(@, m)]
      /\ UNCHANGED <<peer, fdOf, hand, inbox, nsent, answers>>
  BY <1>1 DEF Put
<1>b. RGoto(r, "wait", 0, Msg(0, 0))
  BY DEF Put
<1>c. /\ rpc'[r].pc = "wait" /\ \A x \in Reactors \ {r} : rpc'[x] = rpc[x]
      /\ \A g \in ConnFds : PutOf(g)' \subseteq PutOf(g)
  BY <1>b, GotoElsewhere
<1>3. \A g \in ConnFds : PutOf(g)' \subseteq PutOf(g) /\ HandOf(g)' = HandOf(g)
  BY <1>2, <1>c DEF HandOf
<1>4. PutOf(f)' = {}
  <2>1. ASSUME NEW x \in Reactors, rpc'[x].pc = "put", rpc'[x].fd = f PROVE FALSE
    <3>1. x # r /\ rpc'[x] = rpc[x]
      BY <1>c, <2>1
    <3> QED BY <1>1, <2>1, <3>1, PutAlone
  <2> QED BY <2>1 DEF PutOf
<1>5. m \in PutOf(f)
  BY <1>1 DEF PutOf
<1>6. q \in Seq(Msgs) /\ Len(q) \in Nat
  BY <1>1, <1>a DEF WatchInv, RTypeOK
<1>7. \/ read_queues'[f] = q
      \/ read_queues'[f] = Append(q, m)
  BY <1>1, <1>2, <1>a DEF WatchInv, RTypeOK
<1>8. \A g \in ConnFds \ {f} : read_queues'[g] = read_queues[g]
  BY <1>2 DEF WatchInv, RTypeOK
<1>9. PipeOrder(f)
  BY <1>1 DEF PipeInv
<1>10. /\ QueueOf(f)' \subseteq QueueOf(f) \cup {m}
       /\ \A i, j \in 1 .. Len(read_queues'[f]) :
            i < j => Before(read_queues'[f][i], read_queues'[f][j])
  <2>1. CASE read_queues'[f] = q
    BY <1>9, <1>a, <2>1 DEF QueueOf, PipeOrder
  <2>2. CASE read_queues'[f] = Append(q, m)
    <3>1. PICK s : s = Append(q, m)
      OBVIOUS
    <3>2. /\ Len(s) = Len(q) + 1 /\ s[Len(q) + 1] = m
          /\ \A i \in 1 .. Len(q) : s[i] = q[i]
      BY <1>1, <1>6, <3>1
    <3>3. \A i \in 1 .. Len(q) : Before(q[i], m)
      BY <1>5, <1>9, <1>a DEF PipeOrder, QueueOf
    <3>4. \A i, j \in 1 .. Len(q) : i < j => Before(q[i], q[j])
      BY <1>9, <1>a DEF PipeOrder
    <3>5. ASSUME NEW i \in 1 .. Len(s), NEW j \in 1 .. Len(s), i < j PROVE Before(s[i], s[j])
      <4>1. i \in 1 .. Len(q)
        BY <1>6, <3>2, <3>5
      <4>2. CASE j = Len(q) + 1
        BY <3>2, <3>3, <4>1, <4>2
      <4>3. CASE j \in 1 .. Len(q)
        BY <3>2, <3>4, <3>5, <4>1, <4>3
      <4> QED BY <1>6, <3>2, <4>2, <4>3
    <3>6. \A i \in 1 .. Len(s) : s[i] = m \/ \E j \in 1 .. Len(q) : s[i] = q[j]
      BY <1>6, <3>2
    <3>7. QueueOf(f)' = {s[i] : i \in 1 .. Len(s)}
      BY <2>2, <3>1 DEF QueueOf
    <3>8. QueueOf(f) = {q[i] : i \in 1 .. Len(q)}
      BY <1>a DEF QueueOf
    <3> QED BY <2>2, <3>1, <3>5, <3>6, <3>7, <3>8
  <2> QED BY <1>7, <2>1, <2>2
<1>11. PipeOrder(f)' /\ Pipe(f)' \subseteq Pipe(f)
  BY <1>3, <1>4, <1>5, <1>9, <1>10, <1>1 DEF PipeOrder, Pipe
<1>12. ASSUME NEW g \in ConnFds \ {f} PROVE PipeOrder(g)' /\ Pipe(g)' \subseteq Pipe(g)
  <2>1. QueueOf(g)' = QueueOf(g)
    BY <1>8 DEF QueueOf
  <2>2. PipeOrder(g)
    BY DEF PipeInv
  <2> QED BY <1>3, <1>8, <2>1, <2>2 DEF PipeOrder, Pipe
<1>13. \A j \in Conns : nsent[j] - Len(inbox[j]) <= nsent'[j] - Len(inbox'[j])
  BY <1>0, <1>2
<1>14. \A j \in Conns : Unserved(j)' => Unserved(j)
  BY <1>2 DEF Unserved
<1> QED BY <1>2, <1>11, <1>12, <1>13, <1>14, PipeShrinks

\* What a read of r from f brings: the first message that is not read yet, or the
\* message at the end of the stream.
LEMMA ReadBrings ==
  ASSUME WatchInv, NEW r \in Reactors, NEW f \in ConnFds, NEW k \in Conns, fdOf[f] = k,
         EpollRead(r, f), ~RGoto(r, "close", f, Msg(0, 0))
  PROVE  \E m \in Msgs :
           /\ RGoto(r, "put", f, m) /\ m.conn = k
           /\ m.no = 0 \/ m.no = nsent[k] - Len(inbox[k]) + 1
           /\ m.no <= nsent[k] - Len(inbox'[k])
           /\ Len(inbox'[k]) <= Len(inbox[k]) /\ Len(inbox'[k]) \in Nat
           /\ \A j \in Conns \ {k} : inbox'[j] = inbox[j]
<1>1. /\ inbox[k] \in Seq(Msgs) /\ Len(inbox[k]) \in Nat /\ nsent[k] \in Nat
      /\ Len(inbox[k]) <= nsent[k] /\ k \in Nat
      /\ \A i \in 1 .. Len(inbox[k]) : inbox[k][i] = Msg(k, nsent[k] - Len(inbox[k]) + i)
  BY SMTT(30) DEF WatchInv, RTypeOK, InboxIsTail, Conns
<1>2. CASE /\ inbox[k] # << >> /\ inbox' = [inbox EXCEPT ![k] = Tail(@)]
           /\ RGoto(r, "put", f, Head(inbox[k]))
  <2>1. PICK n \in Nat : n = Len(inbox[k])
    BY <1>1
  <2>2. n > 0 /\ Head(inbox[k]) = inbox[k][1] /\ Len(Tail(inbox[k])) = n - 1
    BY <1>1, <1>2, <2>1
  <2>3. 1 \in 1 .. Len(inbox[k])
    BY <2>1, <2>2
  <2>4. Head(inbox[k]) = Msg(k, nsent[k] - n + 1)
    BY <1>1, <2>1, <2>2, <2>3
  <2>5. nsent[k] - n + 1 \in Nat
    BY <1>1, <2>1
  <2>6. Msg(k, nsent[k] - n + 1) \in Msgs
    BY <1>1, <2>5 DEF Msg, Msgs
  <2>7. inbox'[k] = Tail(inbox[k]) /\ \A j \in Conns \ {k} : inbox'[j] = inbox[j]
    BY <1>2 DEF WatchInv, RTypeOK
  <2>8. Len(inbox'[k]) = n - 1
    BY <2>2, <2>7
  <2>9. Len(inbox'[k]) \in Nat /\ nsent[k] - n + 1 <= nsent[k] - Len(inbox'[k])
    BY <1>1, <2>2, <2>8
  <2>10. Msg(k, nsent[k] - n + 1).conn = k /\ Msg(k, nsent[k] - n + 1).no = nsent[k] - n + 1
    BY DEF Msg
  <2>11. Len(inbox'[k]) <= Len(inbox[k])
    BY <2>1, <2>8
  <2> WITNESS Msg(k, nsent[k] - n + 1) \in Msgs
  <2> QED BY <1>2, <2>1, <2>4, <2>7, <2>9, <2>10, <2>11
<1>3. CASE RGoto(r, "put", f, Msg(k, 0)) /\ UNCHANGED inbox
  <2>1. Msg(k, 0) \in Msgs /\ Msg(k, 0).conn = k /\ Msg(k, 0).no = 0
    BY <1>1 DEF Msg, Msgs
  <2>2. 0 <= nsent[k] - Len(inbox'[k])
    BY <1>1, <1>3
  <2> QED BY <1>1, <1>3, <2>1, <2>2
<1> QED BY <1>2, <1>3 DEF EpollRead

LEMMA ReadPipe ==
  ASSUME WatchInv, WatchInv', PipeInv, NEW r \in Reactors, NEW f \in ConnFds, EpollRead(r, f)
  PROVE  PipeInv'
<1>1. /\ UNCHANGED <<peer, fdOf, read_queues, hand, nsent, answers>>
      /\ reg[f] = r /\ rpc[r].pc = "wait"
  BY DEF EpollRead, RAt
<1>2. PICK k \in Conns : k = fdOf[f]
  <2>1. r # 0
    BY DEF Reactors
  <2> QED BY <1>1, <2>1 DEF WatchInv, FdOwned, RTypeOK
<1>3. \A j \in Conns : Unserved(j)' = Unserved(j)
  BY <1>1 DEF Unserved
<1>a. \A j \in Conns : j \in Nat
  BY DEF Conns
<1>4. \A j \in Conns : nsent[j] \in Nat /\ Len(inbox[j]) \in Nat /\ j \in Nat
  BY <1>a DEF WatchInv, RTypeOK
<1>5. CASE RGoto(r, "close", f, Msg(0, 0))
  <2>1. UNCHANGED inbox
    <3>1. rpc'[r].pc = "close"
      BY <1>5, GotoElsewhere
    <3> QED BY <3>1 DEF EpollRead, RGoto, WatchInv, RTypeOK
  <2>2. \A j \in Conns : nsent[j] - Len(inbox[j]) <= nsent'[j] - Len(inbox'[j])
    BY <1>1, <1>4, <2>1
  <2>3. \A g \in ConnFds : PutOf(g)' \subseteq PutOf(g)
    BY <1>5, GotoElsewhere
  <2> QED BY <1>1, <1>3, <2>2, <2>3, PipeStays, PipeShrinks
<1>6. CASE ~RGoto(r, "close", f, Msg(0, 0))
  <2>1. PICK m \in Msgs :
          /\ RGoto(r, "put", f, m) /\ m.conn = k
          /\ m.no = 0 \/ m.no = nsent[k] - Len(inbox[k]) + 1
          /\ m.no <= nsent[k] - Len(inbox'[k])
          /\ Len(inbox'[k]) <= Len(inbox[k]) /\ Len(inbox'[k]) \in Nat
          /\ \A j \in Conns \ {k} : inbox'[j] = inbox[j]
    BY <1>2, <1>6, ReadBrings
  <2>2. /\ rpc'[r].pc = "put" /\ rpc'[r].fd = f /\ rpc'[r].msg = m
        /\ \A q \in Reactors \ {r} : rpc'[q] = rpc[q]
    BY <2>1 DEF RGoto, WatchInv, RTypeOK
  <2>3. PutOf(f)' = {m}
    <3>1. ASSUME NEW q \in Reactors, rpc'[q].pc = "put", rpc'[q].fd = f PROVE q = r
      BY <1>1, <2>2, <3>1, PutAlone
    <3> QED BY <2>2, <3>1 DEF PutOf
  <2>4. \A g \in ConnFds \ {f} : PutOf(g)' \subseteq PutOf(g)
    BY <2>2 DEF PutOf
  <2>5. ASSUME NEW j \in Conns, NEW x \in Msgs, ReadOf(x, j) PROVE ReadOf(x, j)'
    <3>1. x.no \in Nat
      BY DEF Msgs
    <3>2. nsent[j] - Len(inbox[j]) <= nsent'[j] - Len(inbox'[j])
      BY <1>1, <1>4, <2>1
    <3>3. Len(inbox'[j]) \in Nat
      BY <1>4, <2>1
    <3> QED BY <1>1, <1>4, <2>5, <3>1, <3>2, <3>3 DEF ReadOf
  <2>6. ASSUME NEW x \in Msgs, ReadOf(x, k) PROVE Before(x, m)
    <3>1. x.no \in Nat /\ m.no \in Nat
      BY DEF Msgs
    <3> QED BY <1>4, <2>1, <2>6, <3>1 DEF ReadOf, Before
  <2>7. \A j \in Conns : Unserved(j) => k < j
    <3>1. ~Unserved(k)
      BY <1>2 DEF Unserved
    <3> QED BY <1>4, <3>1 DEF WatchInv, ConnOrder
  <2>8. \A x \in Pipe(f) : x \in Msgs /\ ReadOf(x, k)
                          /\ \A i \in 1 .. Len(answers[k]) : Before(answers[k][i], x)
    <3>1. k # 0
      BY DEF Conns
    <3> QED BY <1>2, <3>1, PipeMsgs DEF PipeInv, PipeFlow
  <2>9. \A i \in 1 .. Len(answers[k]) : answers[k][i] \in Msgs /\ ReadOf(answers[k][i], k)
    BY DEF PipeInv, AnswersOK, WatchInv, RTypeOK
  <2>10. \A g \in ConnFds : HandOf(g)' = HandOf(g) /\ QueueOf(g)' = QueueOf(g)
    BY <1>1 DEF HandOf, QueueOf
  <2>11. PipeOrder(f)'
    <3>1. PipeOrder(f)
      BY DEF PipeInv
    <3>2. HandOf(f) \cup QueueOf(f) \subseteq Pipe(f)
      BY DEF Pipe
    <3>3. \A x \in HandOf(f) \cup QueueOf(f) : Before(x, m)
      BY <2>6, <2>8, <3>2
    <3> QED BY <1>1, <2>3, <2>10, <3>1, <3>3 DEF PipeOrder
  <2>12. PipeFlow(f)'
    <3>1. Pipe(f)' \subseteq Pipe(f) \cup {m}
      BY <2>3, <2>10 DEF Pipe
    <3>2. \A x \in Pipe(f)' : \A j \in Conns : Unserved(j)' => x.conn < j
      BY <1>3, <2>1, <2>7, <3>1 DEF PipeInv, PipeFlow
    <3>3. ReadOf(m, k)'
      BY <1>1, <1>4, <2>1 DEF ReadOf
    <3>4. \A x \in Pipe(f)' : ReadOf(x, k)'
      BY <2>5, <2>8, <3>1, <3>3
    <3>5. \A x \in Pipe(f)' : \A i \in 1 .. Len(answers[k]) : Before(answers[k][i], x)
      BY <2>6, <2>8, <2>9, <3>1
    <3> QED BY <1>1, <1>2, <3>2, <3>4, <3>5 DEF PipeFlow
  <2>13. ASSUME NEW g \in ConnFds \ {f} PROVE PipeOrder(g)' /\ PipeFlow(g)'
    <3>1. PipeOrder(g)' /\ Pipe(g)' \subseteq Pipe(g)
      BY <1>1, <2>4, PipeStays
    <3>2. \A x \in Pipe(g)' : \A j \in Conns : Unserved(j)' => x.conn < j
      BY <1>3, <3>1 DEF PipeInv, PipeFlow
    <3>3. ASSUME NEW j, j = fdOf[g], j # 0, NEW x \in Pipe(g)'
          PROVE  ReadOf(x, j)' /\ \A i \in 1 .. Len(answers[j]) : Before(answers[j][i], x)
      <4>1. j \in Conns /\ x \in Msgs
        BY <3>1, <3>3, PipeMsgs DEF WatchInv, RTypeOK
      <4>2. ReadOf(x, j) /\ \A i \in 1 .. Len(answers[j]) : Before(answers[j][i], x)
        BY <3>1, <3>3 DEF PipeInv, PipeFlow
      <4> QED BY <2>5, <4>1, <4>2
    <3> QED BY <1>1, <3>1, <3>2, <3>3 DEF PipeFlow
  <2>14. ASSUME NEW j \in Conns PROVE AnswersOK(j)'
    <3>1. PICK s \in Seq(Msgs) : s = answers[j] /\ s = answers'[j]
      BY <1>1 DEF WatchInv, RTypeOK
    <3>2. AnswersOK(j)
      BY DEF PipeInv
    <3>3. \A i \in 1 .. Len(s) : s[i] \in Msgs /\ ReadOf(s[i], j)
      BY <3>1, <3>2 DEF AnswersOK
    <3>4. \A i \in 1 .. Len(s) : ReadOf(s[i], j)'
      BY <2>5, <3>3
    <3> QED BY <1>3, <3>1, <3>2, <3>4 DEF AnswersOK
  <2> QED BY <2>11, <2>12, <2>13, <2>14 DEF PipeInv
<1> QED BY <1>5, <1>6

LEMMA TakePipe ==
  ASSUME WatchInv, WatchInv', PipeInv, NEW f \in ConnFds, AppTake(f)
  PROVE  PipeInv'
<1>0. \A j \in Conns : nsent[j] \in Nat /\ Len(inbox[j]) \in Nat
  BY DEF WatchInv, RTypeOK
<1>1. PICK q \in Seq(Msgs) : q = read_queues[f]
  BY DEF WatchInv, RTypeOK
<1>2. /\ hand = Nothing /\ q # << >>
      /\ hand' = [fd |-> f, conn |-> Head(q).conn, no |-> Head(q).no]
      /\ read_queues' = [read_queues EXCEPT ![f] = Tail(q)]
      /\ UNCHANGED <<peer, fdOf, rpc, inbox, nsent, answers>>
  BY <1>1 DEF AppTake
<1>3. /\ Len(q) \in Nat /\ Head(q) = q[1] /\ Len(Tail(q)) = Len(q) - 1 /\ Len(q) > 0
      /\ \A i \in 1 .. Len(q) - 1 : Tail(q)[i] = q[i + 1]
  BY <1>2
<1>4. q[1] \in Msgs
  BY <1>3
<1>5. HandOf(f)' = {q[1]} /\ \A g \in ConnFds \ {f} : HandOf(g)' = {}
  <2>1. Msg(q[1].conn, q[1].no) = q[1]
    BY <1>4 DEF Msg, Msgs
  <2> QED BY <1>2, <1>3, <2>1 DEF HandOf
<1>6. read_queues'[f] = Tail(q) /\ \A g \in ConnFds \ {f} : read_queues'[g] = read_queues[g]
  BY <1>2 DEF WatchInv, RTypeOK
<1>7. \A g \in ConnFds : PutOf(g)' = PutOf(g)
  BY <1>2 DEF PutOf
<1>8. PipeOrder(f)
  BY DEF PipeInv
<1>9. QueueOf(f) = {q[i] : i \in 1 .. Len(q)} /\ QueueOf(f)' = {q[i + 1] : i \in 1 .. Len(q) - 1}
  BY <1>1, <1>3, <1>6 DEF QueueOf
<1>10. 1 \in 1 .. Len(q) /\ \A i \in 1 .. Len(q) - 1 : i + 1 \in 1 .. Len(q) /\ 1 < i + 1
  BY <1>3
<1>11. q[1] \in QueueOf(f) /\ QueueOf(f)' \subseteq QueueOf(f)
  BY <1>9, <1>10
<1>12. \A i, j \in 1 .. Len(q) : i < j => Before(q[i], q[j])
  BY <1>1, <1>8 DEF PipeOrder
<1>13. PipeOrder(f)'
  <2>1. \A i, j \in 1 .. Len(read_queues'[f]) :
          i < j => Before(read_queues'[f][i], read_queues'[f][j])
    BY <1>3, <1>6, <1>10, <1>12
  <2>2. \A x \in QueueOf(f)' : Before(q[1], x)
    BY <1>9, <1>10, <1>12
  <2>3. \A p \in PutOf(f) : Before(q[1], p)
    BY <1>8, <1>11 DEF PipeOrder
  <2> QED BY <1>5, <1>7, <1>8, <1>11, <2>1, <2>2, <2>3 DEF PipeOrder
<1>14. Pipe(f)' \subseteq Pipe(f)
  BY <1>5, <1>7, <1>11 DEF Pipe
<1>15. ASSUME NEW g \in ConnFds \ {f} PROVE PipeOrder(g)' /\ Pipe(g)' \subseteq Pipe(g)
  <2>1. QueueOf(g)' = QueueOf(g)
    BY <1>6 DEF QueueOf
  <2>2. PipeOrder(g)
    BY DEF PipeInv
  <2> QED BY <1>5, <1>6, <1>7, <2>1, <2>2 DEF PipeOrder, Pipe
<1>16. \A j \in Conns : nsent[j] - Len(inbox[j]) <= nsent'[j] - Len(inbox'[j])
  BY <1>0, <1>2
<1>17. \A j \in Conns : Unserved(j)' => Unserved(j)
  BY <1>2 DEF Unserved
<1> QED BY <1>2, <1>13, <1>14, <1>15, <1>16, <1>17, PipeShrinks

LEMMA WritePipe ==
  ASSUME WatchInv, WatchInv', PipeInv, AppWrite
  PROVE  PipeInv'
<1>1. PICK f \in ConnFds, m \in Msgs, k \in {0} \cup Conns :
        hand.fd = f /\ m = Msg(hand.conn, hand.no) /\ k = fdOf[f]
  <2>1. hand.fd \in ConnFds /\ Msg(hand.conn, hand.no) \in Msgs
    BY DEF AppWrite, WatchInv, RTypeOK, Msg, Msgs
  <2> QED BY <2>1 DEF WatchInv, RTypeOK
<1>2. hand' = Nothing /\ UNCHANGED <<fdOf, rpc, read_queues, inbox, nsent>>
  BY DEF AppWrite
<1>3. \/ UNCHANGED <<answers, peer>>
      \/ /\ k # 0 /\ answers' = [answers EXCEPT ![k] = Append(@, m)]
         /\ peer' = [peer EXCEPT ![k] = IF @ = "fin" THEN "reset" ELSE @]
  BY <1>1 DEF AppWrite
<1>4. \A g \in ConnFds : /\ HandOf(g)' = {} /\ QueueOf(g)' = QueueOf(g) /\ PutOf(g)' = PutOf(g)
  <2>1. 0 \notin ConnFds
    BY ReactorAssumption
  <2> QED BY <1>2, <2>1 DEF HandOf, QueueOf, PutOf, Nothing
<1>5. \A g \in ConnFds : PipeOrder(g)' /\ Pipe(g)' \subseteq Pipe(g)
  BY <1>2, <1>4 DEF PipeInv, PipeOrder, Pipe
<1>6. \A j \in Conns : Unserved(j)' => Unserved(j)
  <2>1. \A j \in Conns : peer[j] = "gone" => peer'[j] = "gone"
    BY <1>3 DEF WatchInv, RTypeOK
  <2> QED BY <1>2, <2>1 DEF Unserved
<1>0. \A j \in Conns : nsent[j] \in Nat /\ Len(inbox[j]) \in Nat
  BY DEF WatchInv, RTypeOK
<1>7. CASE UNCHANGED answers
  <2>1. \A j \in Conns : nsent[j] - Len(inbox[j]) <= nsent'[j] - Len(inbox'[j])
    BY <1>0, <1>2
  <2> QED BY <1>2, <1>5, <1>6, <1>7, <2>1, PipeShrinks
<1>8. CASE k # 0 /\ answers' = [answers EXCEPT ![k] = Append(@, m)]
  <2>1. k \in Conns
    BY <1>8
  <2>2. PICK s \in Seq(Msgs) : s = answers[k]
    BY <2>1 DEF WatchInv, RTypeOK
  <2>3. PICK t : t = Append(s, m)
    OBVIOUS
  <2>4. answers'[k] = t /\ \A j \in Conns \ {k} : answers'[j] = answers[j]
    BY <1>8, <2>1, <2>2, <2>3 DEF WatchInv, RTypeOK
  <2>5. /\ Len(s) \in Nat /\ Len(t) = Len(s) + 1 /\ t[Len(s) + 1] = m
        /\ \A i \in 1 .. Len(s) : t[i] = s[i]
    BY <2>2, <2>3
  <2>6. m \in HandOf(f) /\ m \in Pipe(f)
    BY <1>1 DEF HandOf, Pipe
  <2>7. ReadOf(m, k) /\ \A i \in 1 .. Len(s) : Before(s[i], m)
    BY <1>1, <1>8, <2>2, <2>6 DEF PipeInv, PipeFlow
  <2>8. \A x \in Pipe(f)' : Before(m, x)
    BY <1>4, <2>6 DEF PipeInv, PipeOrder, Pipe
  <2>9. AnswersOK(k)'
    <3>1. AnswersOK(k) /\ ~Unserved(k)
      BY <1>1, <2>1 DEF PipeInv, Unserved
    <3>2. \A i \in 1 .. Len(t) : i \in 1 .. Len(s) \/ i = Len(s) + 1
      BY <2>5
    <3>3. \A i \in 1 .. Len(t) : ReadOf(t[i], k)
      BY <2>2, <2>5, <2>7, <3>1, <3>2 DEF AnswersOK
    <3>4. \A i \in 1 .. Len(t) : ReadOf(t[i], k)'
      BY <1>2, <3>3 DEF ReadOf
    <3>5. ASSUME NEW i \in 1 .. Len(t), NEW j \in 1 .. Len(t), i < j PROVE Before(t[i], t[j])
      <4>1. i \in 1 .. Len(s)
        BY <2>5, <3>5
      <4> QED BY <2>2, <2>5, <2>7, <3>1, <3>2, <3>5, <4>1 DEF AnswersOK
    <3> QED BY <1>6, <2>1, <2>4, <3>1, <3>4, <3>5 DEF AnswersOK
  <2>10. ASSUME NEW j \in Conns \ {k} PROVE AnswersOK(j)'
    BY <1>2, <1>6, <2>4 DEF PipeInv, AnswersOK, ReadOf
  <2>11. PipeFlow(f)'
    <3>1. \A x \in Pipe(f)' : \A j \in Conns : Unserved(j)' => x.conn < j
      BY <1>5, <1>6 DEF PipeInv, PipeFlow
    <3>2. \A x \in Pipe(f)' : ReadOf(x, k) /\ \A i \in 1 .. Len(s) : Before(s[i], x)
      BY <1>1, <1>5, <1>8, <2>2 DEF PipeInv, PipeFlow
    <3>3. \A x \in Pipe(f)' : ReadOf(x, k)'
      BY <1>2, <3>2 DEF ReadOf
    <3>4. \A x \in Pipe(f)' : \A i \in 1 .. Len(t) : Before(t[i], x)
      BY <2>5, <2>8, <3>2
    <3> QED BY <1>1, <1>2, <2>4, <3>1, <3>3, <3>4 DEF PipeFlow
  <2>12. ASSUME NEW g \in ConnFds \ {f} PROVE PipeFlow(g)'
    <3>1. fdOf[g] # 0 => fdOf[g] # k /\ fdOf[g] \in Conns
      BY <1>1, <1>8 DEF WatchInv, ConnOrder, RTypeOK
    <3> QED BY <1>2, <1>5, <1>6, <2>4, <3>1 DEF PipeInv, PipeFlow, ReadOf
  <2> QED BY <1>5, <2>9, <2>10, <2>11, <2>12 DEF PipeInv
<1> QED BY <1>3, <1>7, <1>8

LEMMA PipeInit == RInit => PipeInv
<1> SUFFICES ASSUME RInit PROVE PipeInv
  OBVIOUS
<1>1. 0 \notin ConnFds
  BY ReactorAssumption
<1>2. \A f \in ConnFds : HandOf(f) = {} /\ QueueOf(f) = {} /\ PutOf(f) = {}
  BY <1>1 DEF RInit, HandOf, QueueOf, PutOf, Nothing
<1>3. \A f \in ConnFds : PipeOrder(f) /\ PipeFlow(f)
  BY <1>2 DEF RInit, PipeOrder, PipeFlow, Pipe
<1>4. \A k \in Conns : AnswersOK(k)
  BY DEF RInit, AnswersOK
<1> QED BY <1>3, <1>4 DEF PipeInv

LEMMA PipeStep == WatchInv /\ WatchInv' /\ PipeInv /\ [RNext]_rVars => PipeInv'
<1> SUFFICES ASSUME WatchInv, WatchInv', PipeInv, [RNext]_rVars PROVE PipeInv'
  OBVIOUS
<1>1. CASE UNCHANGED rVars
  BY <1>1 DEF rVars, PipeInv, PipeOrder, PipeFlow, Pipe, HandOf, QueueOf, PutOf, AnswersOK,
              ReadOf, Unserved
<1> QED BY <1>1, PeerPipe, AcceptPipe, ReadPipe, PutPipe, ClosePipe, TakePipe, WritePipe, Zenon
        DEF RNext

THEOREM PipeInvariance == RSpec => []PipeInv
<1> QED BY PipeInit, PipeStep, WatchInvariance, PTL DEF RSpec

\* A connection gets the answers to its own messages in the order it sent them, each
\* at most once, and before them at most what older connections of its number left.
THEOREM AnswersAreOrdered == RSpec => []AnswersInOrder
<1>1. WatchInv /\ PipeInv => AnswersInOrder
  <2> SUFFICES ASSUME WatchInv, PipeInv, NEW k \in Conns,
                      NEW i \in DOMAIN answers[k], NEW j \in DOMAIN answers[k], i < j
               PROVE  /\ Before(answers[k][i], answers[k][j])
                      /\ answers[k][j].conn <= k
    BY DEF AnswersInOrder, Before
  <2>1. answers[k] \in Seq(Msgs)
    BY DEF WatchInv, RTypeOK
  <2>2. i \in 1 .. Len(answers[k]) /\ j \in 1 .. Len(answers[k])
    BY <2>1
  <2> QED BY <2>2 DEF PipeInv, AnswersOK, ReadOf
<1> QED BY <1>1, WatchInvariance, PipeInvariance, PTL

-----------------------------------------------------------------------------
(* The servers of asio.  All of them but the one with futures have at most    *)
(* one write on its way, and then no read: what is left of it continues what  *)
(* was written, and what has arrived continues the rest.  The server with     *)
(* futures may have any number of writes in its queue; the sums of their      *)
(* lengths are the function s below.                                          *)

ATypeOK ==
  /\ server \in {"callback", "multithread", "coroutine", "awaiter", "future"}
  /\ sess \in [AsioPeers -> {"new", "queued", "refused", "reading", "writing", "over"}]
  /\ shut \in [AsioPeers -> BOOLEAN]
  /\ sent \in [AsioPeers -> Nat]
  /\ data \in [AsioPeers -> Seq(Nat)] /\ inq \in [AsioPeers -> Seq(Nat)]
  /\ out \in [AsioPeers -> Seq(Nat)] /\ got \in [AsioPeers -> Seq(Nat)]
  /\ writes \in [AsioPeers -> Seq(Nat \X Nat)]

\* What was written for p so far.
Back(p) == got[p] \o out[p]

\* The bytes of a write.
Size(x) == x[2] - x[1] + 1

\* Bytes of p in a write on its way, of the servers with at most one of them, and
\* the number of the byte before them.
Pending(p) == IF writes[p] = << >> THEN 0 ELSE Size(writes[p][1])
Base(p) == sent[p] - Len(inq[p]) - Pending(p)

\* The bytes that are not read are the last ones; a write lies within the buffer,
\* and only a session in service has one.
PeerOK(p) ==
  /\ Len(inq[p]) <= sent[p]
  /\ \A i \in 1 .. Len(inq[p]) : inq[p][i] = sent[p] - Len(inq[p]) + i
  /\ \A i \in 1 .. Len(writes[p]) :
       1 <= writes[p][i][1] /\ writes[p][i][1] <= writes[p][i][2] /\ writes[p][i][2] <= Len(data[p])
  /\ writes[p] # << >> => sess[p] \in {"reading", "writing"}
  /\ server = "future" => sess[p] # "writing"

Upto(o, c) == \A i \in 1 .. Len(o) : o[i] <= c
Rising(o) == \A i, j \in 1 .. Len(o) : i < j => o[i] < o[j]
Plain(o) == \A i \in 1 .. Len(o) : o[i] = i

\* One write at a time: its bytes are the next ones.
SerialOK(p) ==
  /\ Len(writes[p]) <= 1
  /\ sess[p] = "reading" => writes[p] = << >>
  /\ writes[p] # << >> =>
       \A j \in writes[p][1][1] .. writes[p][1][2] :
         data[p][j] = Base(p) + (j - writes[p][1][1] + 1)
  /\ sess[p] # "over" => Upto(Back(p), Base(p))
  /\ Rising(Back(p))

\* Nothing is lost between them.
ExactOK(p) ==
  /\ Plain(Back(p))
  /\ sess[p] # "over" => Len(Back(p)) = Base(p)

\* s[i] is b and the lengths of the first i writes of v.
Sums(s, v, b) ==
  /\ s \in [0 .. Len(v) -> Nat] /\ s[0] = b
  /\ \A i \in 1 .. Len(v) : s[i] = s[i - 1] + Size(v[i])
  /\ \A i, j \in 0 .. Len(v) : i <= j => s[i] <= s[j]

\* The writes in the queue and what was written are not more than what was read.
Fits(v, b, k) == \E s \in [0 .. Len(v) -> Nat] : Sums(s, v, b) /\ s[Len(v)] <= k
FutureOK(p) == Fits(writes[p], Len(Back(p)), sent[p] - Len(inq[p]))

AsioInv ==
  /\ ATypeOK
  /\ \A p \in AsioPeers :
       /\ PeerOK(p)
       /\ server # "future" => SerialOK(p)
       /\ server \notin {"future", "awaiter"} => ExactOK(p)
       /\ server = "future" => FutureOK(p)
  /\ server = "future" => \A p, q \in InService : p = q

\* A read takes the first n bytes from q into the buffer d.
LEMMA ReadTakes ==
  ASSUME NEW q \in Seq(Nat), NEW d \in Seq(Nat), NEW n \in 1 .. Len(q)
  PROVE  /\ SubSeq(q, 1, n) \o SubSeq(d, n + 1, Len(d)) \in Seq(Nat)
         /\ Len(SubSeq(q, 1, n) \o SubSeq(d, n + 1, Len(d))) >= n
         /\ Len(SubSeq(q, 1, n) \o SubSeq(d, n + 1, Len(d))) >= Len(d)
         /\ \A i \in 1 .. n : (SubSeq(q, 1, n) \o SubSeq(d, n + 1, Len(d)))[i] = q[i]
         /\ SubSeq(q, n + 1, Len(q)) \in Seq(Nat)
         /\ Len(SubSeq(q, n + 1, Len(q))) = Len(q) - n
         /\ \A i \in 1 .. Len(q) - n : SubSeq(q, n + 1, Len(q))[i] = q[n + i]
<1>0. Len(q) \in Nat /\ Len(d) \in Nat /\ n \in Nat /\ n >= 1 /\ n <= Len(q)
  OBVIOUS
<1>1. PICK x : x = SubSeq(q, 1, n)
  OBVIOUS
<1>2. PICK y : y = SubSeq(d, n + 1, Len(d))
  OBVIOUS
<1>3. x \in Seq(Nat) /\ Len(x) = n /\ \A i \in 1 .. n : x[i] = q[i]
  BY <1>0, <1>1
<1>4. y \in Seq(Nat) /\ Len(y) = IF n + 1 <= Len(d) THEN Len(d) - n ELSE 0
  BY <1>0, <1>2, SMTT(30)
<1>a. /\ x \o y \in Seq(Nat) /\ Len(x \o y) = Len(x) + Len(y)
      /\ \A i \in 1 .. Len(x) + Len(y) :
           (x \o y)[i] = IF i <= Len(x) THEN x[i] ELSE y[i - Len(x)]
  BY <1>3, <1>4, ConcatProperties
<1>b. Len(y) \in Nat
  BY <1>4
<1>5. x \o y \in Seq(Nat) /\ Len(x \o y) = n + Len(y) /\ \A i \in 1 .. n : (x \o y)[i] = q[i]
  BY <1>0, <1>3, <1>a, <1>b
<1>6. Len(x \o y) >= n /\ Len(x \o y) >= Len(d)
  <2>1. PICK k \in Nat : k = Len(y)
    BY <1>b
  <2>2. PICK m \in Nat : m = Len(d)
    BY <1>0
  <2>3. k >= 0 /\ n + k >= m
    BY <1>0, <1>4, <2>1, <2>2
  <2> QED BY <1>0, <1>5, <2>1, <2>2, <2>3
<1>7. /\ SubSeq(q, n + 1, Len(q)) \in Seq(Nat)
      /\ Len(SubSeq(q, n + 1, Len(q))) = Len(q) - n
      /\ \A i \in 1 .. Len(q) - n : SubSeq(q, n + 1, Len(q))[i] = q[n + i]
  <2>1. \A i \in n + 1 .. Len(q) : q[i] \in Nat
    BY <1>0
  <2>2. n + 1 \in Int /\ Len(q) \in Int
    BY <1>0
  <2>3. /\ SubSeq(q, n + 1, Len(q)) \in Seq(Nat)
        /\ Len(SubSeq(q, n + 1, Len(q))) = IF n + 1 <= Len(q) THEN Len(q) - (n + 1) + 1 ELSE 0
        /\ \A i \in 1 .. Len(q) - (n + 1) + 1 :
             SubSeq(q, n + 1, Len(q))[i] = q[n + 1 + i - 1]
    BY <2>1, <2>2, SubSeqProperties
  <2>4. ASSUME NEW i \in 1 .. Len(q) - n PROVE SubSeq(q, n + 1, Len(q))[i] = q[n + i]
    <3>1. i \in 1 .. Len(q) - (n + 1) + 1 /\ n + 1 + i - 1 = n + i
      BY <1>0
    <3> QED BY <2>3, <3>1
  <2> QED BY <1>0, <2>3, <2>4
<1> QED BY <1>1, <1>2, <1>5, <1>6, <1>7

\* What concatenation does, for sequences of numbers.
LEMMA Joined ==
  ASSUME NEW b \in Seq(Nat), NEW x \in Seq(Nat)
  PROVE  /\ b \o x \in Seq(Nat)
         /\ Len(b \o x) = Len(b) + Len(x)
         /\ \A i \in 1 .. Len(b) : (b \o x)[i] = b[i]
         /\ \A i \in 1 .. Len(x) : (b \o x)[Len(b) + i] = x[i]
<1>1. /\ b \o x \in Seq(Nat) /\ Len(b \o x) = Len(b) + Len(x)
      /\ \A i \in 1 .. Len(b) + Len(x) :
           (b \o x)[i] = IF i <= Len(b) THEN b[i] ELSE x[i - Len(b)]
  BY ConcatProperties
<1>2. Len(b) \in Nat /\ Len(x) \in Nat
  OBVIOUS
<1>3. ASSUME NEW i \in 1 .. Len(b) PROVE (b \o x)[i] = b[i]
  BY <1>1, <1>2
<1>4. ASSUME NEW i \in 1 .. Len(x) PROVE (b \o x)[Len(b) + i] = x[i]
  <2>1. Len(b) + i \in 1 .. Len(b) + Len(x) /\ ~(Len(b) + i <= Len(b)) /\ Len(b) + i - Len(b) = i
    BY <1>2
  <2> QED BY <1>1, <2>1
<1> QED BY <1>1, <1>3, <1>4

LEMMA Regrouped ==
  ASSUME NEW g \in Seq(Nat), NEW o \in Seq(Nat), NEW x \in Seq(Nat)
  PROVE  g \o (o \o x) = (g \o o) \o x
<1>1. PICK u \in Seq(Nat) : u = g \o o
  BY Joined
<1>2. PICK v \in Seq(Nat) : v = o \o x
  BY Joined
<1>3. PICK y \in Seq(Nat) : y = u \o x
  BY Joined
<1>4. PICK z \in Seq(Nat) : z = g \o v
  BY Joined
<1>5. Len(g) \in Nat /\ Len(o) \in Nat /\ Len(x) \in Nat
  OBVIOUS
<1>6. /\ Len(u) = Len(g) + Len(o) /\ \A i \in 1 .. Len(g) : u[i] = g[i]
      /\ \A i \in 1 .. Len(o) : u[Len(g) + i] = o[i]
  BY <1>1, Joined
<1>7. /\ Len(v) = Len(o) + Len(x) /\ \A i \in 1 .. Len(o) : v[i] = o[i]
      /\ \A i \in 1 .. Len(x) : v[Len(o) + i] = x[i]
  BY <1>2, Joined
<1>8. /\ Len(y) = Len(u) + Len(x) /\ \A i \in 1 .. Len(u) : y[i] = u[i]
      /\ \A i \in 1 .. Len(x) : y[Len(u) + i] = x[i]
  BY <1>3, Joined
<1>9. /\ Len(z) = Len(g) + Len(v) /\ \A i \in 1 .. Len(g) : z[i] = g[i]
      /\ \A i \in 1 .. Len(v) : z[Len(g) + i] = v[i]
  BY <1>4, Joined
<1>10. Len(y) = Len(z)
  BY <1>5, <1>6, <1>7, <1>8, <1>9
<1>11. ASSUME NEW i \in 1 .. Len(y) PROVE y[i] = z[i]
  <2>1. CASE i <= Len(g)
    BY <1>5, <1>6, <1>8, <1>9, <2>1
  <2>2. CASE Len(g) < i /\ i <= Len(g) + Len(o)
    <3>1. PICK j \in 1 .. Len(o) : i = Len(g) + j
      <4>1. i \in Int /\ i - Len(g) \in 1 .. Len(o) /\ i = Len(g) + (i - Len(g))
        BY <1>5, <2>2
      <4> QED BY <4>1
    <3>2. y[i] = o[j]
      BY <1>5, <1>6, <1>8, <2>2, <3>1
    <3>3. j \in 1 .. Len(v)
      BY <1>5, <1>7
    <3> QED BY <1>7, <1>9, <3>1, <3>2, <3>3
  <2>3. CASE Len(g) + Len(o) < i
    <3>1. PICK j \in 1 .. Len(x) : i = (Len(g) + Len(o)) + j
      <4>1. i <= Len(g) + Len(o) + Len(x)
        BY <1>5, <1>6, <1>8
      <4>2. /\ i - (Len(g) + Len(o)) \in 1 .. Len(x)
            /\ i = (Len(g) + Len(o)) + (i - (Len(g) + Len(o)))
        BY <1>5, <2>3, <4>1
      <4> QED BY <4>2
    <3>2. y[i] = x[j]
      BY <1>6, <1>8, <3>1
    <3>3. Len(o) + j \in 1 .. Len(v) /\ i = Len(g) + (Len(o) + j)
      <4>1. Len(v) = Len(o) + Len(x)
        BY <1>7, Zenon
      <4>2. Len(o) + j \in 1 .. Len(v)
        BY <1>5, <4>1
      <4>3. i = Len(g) + (Len(o) + j)
        BY <1>5, <3>1
      <4> QED BY <4>2, <4>3
    <3> QED BY <1>7, <1>9, <3>2, <3>3
  <2> QED BY <1>5, <2>1, <2>2, <2>3
<1>12. y = z
  BY <1>10, <1>11, SeqEqual
<1> QED BY <1>1, <1>2, <1>3, <1>4, <1>12

\* u is o and behind it n bytes of d from its place a; or the n numbers after c.
Grown(o, u, d, a, n) ==
  /\ Len(u) = Len(o) + n /\ \A i \in 1 .. Len(o) : u[i] = o[i]
  /\ \A i \in 1 .. n : u[Len(o) + i] = d[a + i - 1]
Counted(o, u, c, n) ==
  /\ Len(u) = Len(o) + n /\ \A i \in 1 .. Len(o) : u[i] = o[i]
  /\ \A i \in 1 .. n : u[Len(o) + i] = c + i

\* A write appends n bytes of the buffer d, from its place a, to what is on its way.
LEMMA WriteAppends ==
  ASSUME NEW g \in Seq(Nat), NEW o \in Seq(Nat), NEW d \in Seq(Nat),
         NEW a \in Nat, NEW n \in Nat, 1 <= a, 1 <= n, a + n - 1 <= Len(d)
  PROVE  /\ o \o SubSeq(d, a, a + n - 1) \in Seq(Nat)
         /\ Grown(g \o o, g \o (o \o SubSeq(d, a, a + n - 1)), d, a, n)
<1>0. a \in Int /\ a + n - 1 \in Int /\ \A i \in a .. a + n - 1 : d[i] \in Nat
  OBVIOUS
<1>a. /\ SubSeq(d, a, a + n - 1) \in Seq(Nat)
      /\ Len(SubSeq(d, a, a + n - 1)) = IF a <= a + n - 1 THEN a + n - 1 - a + 1 ELSE 0
      /\ \A i \in 1 .. a + n - 1 - a + 1 : SubSeq(d, a, a + n - 1)[i] = d[a + i - 1]
  BY <1>0, SubSeqProperties
<1>1. PICK x \in Seq(Nat) : x = SubSeq(d, a, a + n - 1)
  BY <1>a
<1>b. a <= a + n - 1 /\ a + n - 1 - a + 1 = n
  OBVIOUS
<1>2. Len(x) = n /\ \A i \in 1 .. n : x[i] = d[a + i - 1]
  BY <1>1, <1>a, <1>b
<1>3. g \o (o \o x) = (g \o o) \o x
  BY Regrouped
<1>4. PICK b \in Seq(Nat) : b = g \o o
  BY Joined
<1>5. o \o x \in Seq(Nat)
  BY Joined
<1>6. /\ Len(b \o x) = Len(b) + Len(x)
      /\ \A i \in 1 .. Len(b) : (b \o x)[i] = b[i]
      /\ \A i \in 1 .. Len(x) : (b \o x)[Len(b) + i] = x[i]
  BY Joined
<1>7. /\ Len(b \o x) = Len(b) + n
      /\ \A i \in 1 .. Len(b) : (b \o x)[i] = b[i]
      /\ \A i \in 1 .. n : (b \o x)[Len(b) + i] = d[a + i - 1]
  BY <1>2, <1>6
<1>8. Grown(b, b \o x, d, a, n)
  BY <1>7 DEF Grown
<1> QED BY <1>1, <1>3, <1>4, <1>5, <1>8, Zenon

\* All that is said of one peer.
PeerInv(p) ==
  /\ PeerOK(p)
  /\ server # "future" => SerialOK(p)
  /\ server \notin {"future", "awaiter"} => ExactOK(p)
  /\ server = "future" => FutureOK(p)

\* What only peer p and its session are part of.
Only(p) ==
  /\ UNCHANGED server
  /\ \A q \in AsioPeers \ {p} :
       /\ sess'[q] = sess[q] /\ data'[q] = data[q] /\ writes'[q] = writes[q]
       /\ sent'[q] = sent[q] /\ inq'[q] = inq[q] /\ out'[q] = out[q] /\ got'[q] = got[q]

LEMMA OnlyKeeps ==
  ASSUME AsioInv, ATypeOK', NEW p \in AsioPeers, Only(p), PeerInv(p)',
         server = "future" => \/ sess'[p] \notin {"reading", "writing"}
                              \/ sess[p] \in {"reading", "writing"}
                              \/ InService = {}
  PROVE  AsioInv'
<1>1. ASSUME NEW q \in AsioPeers \ {p} PROVE PeerInv(q)'
  <2>1. PeerInv(q)
    BY DEF AsioInv, PeerInv
  <2>2. Back(q)' = Back(q) /\ Pending(q)' = Pending(q) /\ Base(q)' = Base(q)
    BY DEF Only, Back, Pending, Base
  <2>3. PeerOK(q)'
    <3>1. /\ sent'[q] = sent[q] /\ inq'[q] = inq[q] /\ writes'[q] = writes[q]
          /\ sess'[q] = sess[q] /\ data'[q] = data[q] /\ out'[q] = out[q] /\ got'[q] = got[q]
          /\ server' = server
      BY DEF Only
    <3>2. PeerOK(q)
      BY <2>1 DEF PeerInv
    <3> QED BY <3>1, <3>2 DEF PeerOK
  <2>4. server # "future" => SerialOK(q)'
    BY <2>1, <2>2 DEF PeerInv, SerialOK, Only
  <2>5. server \notin {"future", "awaiter"} => ExactOK(q)'
    BY <2>1, <2>2 DEF PeerInv, ExactOK, Only
  <2>6. server = "future" => FutureOK(q)'
    BY <2>1, <2>2 DEF PeerInv, FutureOK, Only
  <2> QED BY <2>3, <2>4, <2>5, <2>6 DEF PeerInv, Only
<1>2. server = "future" => \A x, y \in InService' : x = y
  BY DEF AsioInv, InService, Only
<1> QED BY <1>1, <1>2 DEF AsioInv, PeerInv, Only

\* A step that moves no byte into or out of the server.
LEMMA NothingMoves ==
  ASSUME AsioInv, NEW p \in AsioPeers, UNCHANGED server,
         data'[p] = data[p], writes'[p] = writes[p], sent'[p] = sent[p], inq'[p] = inq[p],
         Back(p)' = Back(p),
         \/ sess'[p] = sess[p]
         \/ sess[p] \in {"new", "queued"} /\ sess'[p] \in {"queued", "reading", "refused"}
  PROVE  PeerInv(p)'
<1>1. PeerInv(p)
  BY DEF AsioInv, PeerInv
<1>2. Pending(p)' = Pending(p) /\ Base(p)' = Base(p)
  BY DEF Pending, Base
<1>3. PeerOK(p)'
  BY <1>1 DEF PeerInv, PeerOK
<1>4. server # "future" => SerialOK(p)'
  BY <1>1, <1>2 DEF PeerInv, PeerOK, SerialOK
<1>5. server \notin {"future", "awaiter"} => ExactOK(p)'
  BY <1>1, <1>2 DEF PeerInv, ExactOK
<1>6. server = "future" => FutureOK(p)'
  BY <1>1 DEF PeerInv, FutureOK
<1> QED BY <1>3, <1>4, <1>5, <1>6 DEF PeerInv

LEMMA StatusAsio ==
  ASSUME AsioInv, NEW p \in AsioPeers,
         Connect(p) \/ Shut(p) \/ AcceptDone(p) \/ AcceptError(p)
  PROVE  AsioInv'
<1>1. ATypeOK
  BY DEF AsioInv
<1>2. ATypeOK'
  BY <1>1 DEF ATypeOK, Connect, Shut, AcceptDone, AcceptError
<1>3. UNCHANGED <<server, data, writes, sent, inq, out, got>>
  BY DEF Connect, Shut, AcceptDone, AcceptError
<1>4. Only(p)
  BY <1>1, <1>3 DEF Only, ATypeOK, Connect, Shut, AcceptDone, AcceptError
<1>5. \/ sess'[p] = sess[p]
      \/ sess[p] \in {"new", "queued"} /\ sess'[p] \in {"queued", "reading", "refused"}
  BY <1>1 DEF ATypeOK, Connect, Shut, AcceptDone, AcceptError
<1>6. Back(p)' = Back(p)
  BY <1>3 DEF Back
<1>7. PeerInv(p)'
  BY <1>3, <1>5, <1>6, NothingMoves
<1>8. server = "future" => \/ sess'[p] \notin {"reading", "writing"}
                           \/ sess[p] \in {"reading", "writing"}
                           \/ InService = {}
  BY <1>1 DEF ATypeOK, Connect, Shut, AcceptDone, AcceptError
<1> QED BY <1>2, <1>4, <1>7, <1>8, OnlyKeeps

LEMMA ReceiveAsio ==
  ASSUME AsioInv, NEW p \in AsioPeers, Receive(p)
  PROVE  AsioInv'
<1>1. ATypeOK
  BY DEF AsioInv
<1>2. got[p] \in Seq(Nat) /\ out[p] \in Seq(Nat)
  BY <1>1 DEF ATypeOK
<1>3. PICK b \in Seq(Nat) : b = got[p] \o out[p]
  BY <1>2, Joined
<1>4. /\ got' = [got EXCEPT ![p] = b] /\ out' = [out EXCEPT ![p] = << >>]
      /\ UNCHANGED <<server, sess, data, writes, sent, inq, shut>>
  BY <1>3 DEF Receive
<1>5. ATypeOK'
  BY <1>1, <1>4 DEF ATypeOK
<1>6. got'[p] = b /\ out'[p] = << >>
  BY <1>1, <1>4 DEF ATypeOK
<1>7. b \o << >> = b
  BY ConcatEmptySeq
<1>8. Back(p)' = Back(p)
  BY <1>3, <1>6, <1>7 DEF Back
<1>9. PeerInv(p)'
  BY <1>4, <1>8, NothingMoves
<1>10. Only(p)
  BY <1>1, <1>4 DEF Only, ATypeOK
<1>11. sess'[p] \notin {"reading", "writing"} \/ sess[p] \in {"reading", "writing"}
  BY <1>4
<1> QED BY <1>5, <1>9, <1>10, <1>11, OnlyKeeps

LEMMA OneMore ==
  ASSUME NEW a \in Nat, NEW b \in Nat
  PROVE  (a + 1) - (b + 1) = a - b
<1> QED OBVIOUS

LEMMA SendAsio ==
  ASSUME AsioInv, NEW p \in AsioPeers, Send(p)
  PROVE  AsioInv'
<1>1. ATypeOK /\ PeerInv(p)
  BY DEF AsioInv, PeerInv
<1>2. inq[p] \in Seq(Nat) /\ sent[p] \in Nat /\ sent[p] + 1 \in Nat
  BY <1>1 DEF ATypeOK
<1>3. PICK q \in Seq(Nat) : q = Append(inq[p], sent[p] + 1)
  BY <1>2, AppendProperties
<1>4. /\ sent' = [sent EXCEPT ![p] = @ + 1] /\ inq' = [inq EXCEPT ![p] = q]
      /\ UNCHANGED <<server, sess, data, writes, out, got, shut>>
  BY <1>3 DEF Send
<1>5. ATypeOK'
  BY <1>1, <1>2, <1>4 DEF ATypeOK
<1>6. sent'[p] = sent[p] + 1 /\ inq'[p] = q
  BY <1>1, <1>4 DEF ATypeOK
<1>7. /\ Len(q) = Len(inq[p]) + 1 /\ q[Len(inq[p]) + 1] = sent[p] + 1
      /\ \A i \in 1 .. Len(inq[p]) : q[i] = inq[p][i]
  BY <1>2, <1>3
<1>8. Len(inq[p]) \in Nat
  BY <1>2
<1>9. \A i \in 1 .. Len(q) : q[i] = (sent[p] + 1) - Len(q) + i
  <2> TAKE i \in 1 .. Len(q)
  <2>1. CASE i = Len(inq[p]) + 1
    BY <1>2, <1>7, <1>8, <2>1
  <2>2. CASE i \in 1 .. Len(inq[p])
    <3>1. q[i] = sent[p] - Len(inq[p]) + i
      BY <1>1, <1>7, <2>2 DEF PeerInv, PeerOK
    <3>2. Len(q) = Len(inq[p]) + 1
      BY <1>7
    <3>3. sent[p] - Len(inq[p]) + i = (sent[p] + 1) - (Len(inq[p]) + 1) + i
      BY <1>2, <1>8, OneMore, Zenon
    <3> QED BY <3>1, <3>2, <3>3, Zenon
  <2> QED BY <1>7, <1>8, <2>1, <2>2
<1>10. Len(q) <= sent[p] + 1
  BY <1>1, <1>2, <1>7, <1>8 DEF PeerInv, PeerOK
<1>11. PeerOK(p)'
  BY <1>1, <1>4, <1>6, <1>9, <1>10 DEF PeerInv, PeerOK
<1>12. Back(p)' = Back(p) /\ Pending(p)' = Pending(p)
  BY <1>4 DEF Back, Pending
<1>a. sent'[p] - Len(inq'[p]) = sent[p] - Len(inq[p])
  <2>1. sent'[p] - Len(inq'[p]) = (sent[p] + 1) - (Len(inq[p]) + 1)
    BY <1>6, <1>7, Zenon
  <2> QED BY <1>2, <1>8, <2>1, OneMore, Zenon
<1>13. Base(p)' = Base(p)
  BY <1>12, <1>a DEF Base
<1>14. server # "future" => SerialOK(p)'
  BY <1>1, <1>4, <1>12, <1>13 DEF PeerInv, SerialOK
<1>15. server \notin {"future", "awaiter"} => ExactOK(p)'
  BY <1>1, <1>4, <1>12, <1>13 DEF PeerInv, ExactOK
<1>16. server = "future" => FutureOK(p)'
  BY <1>1, <1>4, <1>12, <1>a DEF PeerInv, FutureOK
<1>17. PeerInv(p)'
  BY <1>4, <1>11, <1>14, <1>15, <1>16 DEF PeerInv
<1>18. Only(p)
  BY <1>1, <1>4 DEF Only, ATypeOK
<1>19. sess'[p] \notin {"reading", "writing"} \/ sess[p] \in {"reading", "writing"}
  BY <1>4
<1> QED BY <1>5, <1>17, <1>18, <1>19, OnlyKeeps

LEMMA TakenAndLeft ==
  ASSUME NEW a \in Nat, NEW l \in Nat, NEW n \in Nat, n <= l, l <= a
  PROVE  /\ \A i \in Nat : a - l + (n + i) = a - (l - n) + i
         /\ l - n <= a
         /\ a - (l - n) - n = a - l - 0
         /\ \A j \in Nat : a - l + j = a - l - 0 + (j - 1 + 1)
         /\ \A b \in Nat : b + l <= a => (b + n) + (l - n) <= a
<1> QED OBVIOUS

\* A write joins those that wait.
LEMMA Queued ==
  ASSUME NEW v \in Seq(Nat \X Nat), NEW x \in Nat \X Nat
  PROVE  /\ Append(v, x) \in Seq(Nat \X Nat)
         /\ Len(Append(v, x)) = Len(v) + 1 /\ Append(v, x) # << >>
         /\ \A i \in 1 .. Len(v) : Append(v, x)[i] = v[i]
         /\ Append(v, x)[Len(v) + 1] = x
<1>1. PICK S : S = Nat \X Nat
  OBVIOUS
<1>2. v \in Seq(S) /\ x \in S
  BY <1>1, Zenon
<1>3. /\ Append(v, x) \in Seq(S)
      /\ Append(v, x) # << >>
      /\ Len(Append(v, x)) = Len(v) + 1
      /\ \A i \in 1 .. Len(v) : Append(v, x)[i] = v[i]
      /\ Append(v, x)[Len(v) + 1] = x
  BY <1>2, AppendProperties
<1> QED BY <1>1, <1>3, Zenon

LEMMA SizeIsInt ==
  ASSUME NEW x \in Nat \X Nat
  PROVE  Size(x) \in Int /\ (x[1] <= x[2] => Size(x) \in Nat \ {0})
<1>1. x[1] \in Nat /\ x[2] \in Nat
  OBVIOUS
<1> QED BY <1>1 DEF Size

LEMMA SumsAppend ==
  ASSUME NEW v \in Seq(Nat \X Nat), NEW x \in Nat \X Nat, Size(x) \in Nat,
         NEW b \in Nat, NEW s, Sums(s, v, b)
  PROVE  \E t : Sums(t, Append(v, x), b) /\ t[Len(v) + 1] = s[Len(v)] + Size(x)
<1>1. PICK l \in Nat : l = Len(v)
  OBVIOUS
<1>2. PICK n \in Nat : n = Size(x)
  OBVIOUS
<1>3. PICK w : w = Append(v, x)
  OBVIOUS
<1>4. Len(w) = l + 1 /\ w[l + 1] = x /\ \A i \in 1 .. l : w[i] = v[i]
  BY <1>1, <1>3, Queued, ZenonT(30)
<1>5. /\ s \in [0 .. l -> Nat] /\ s[0] = b
      /\ \A i \in 1 .. l : s[i] = s[i - 1] + Size(v[i])
      /\ \A i, j \in 0 .. l : i <= j => s[i] <= s[j]
  BY <1>1 DEF Sums
<1>6. PICK t : t = [i \in 0 .. l + 1 |-> IF i = l + 1 THEN s[l] + n ELSE s[i]]
  OBVIOUS
<1>7. \A i \in 0 .. l : s[i] \in Nat
  BY <1>5
<1>8. s[l] \in Nat /\ s[l] + n \in Nat
  BY <1>7
<1>9. t \in [0 .. l + 1 -> Nat] /\ t[l + 1] = s[l] + n /\ \A i \in 0 .. l : t[i] = s[i]
  <2>1. \A i \in 0 .. l + 1 : i # l + 1 => i \in 0 .. l
    OBVIOUS
  <2>2. \A i \in 0 .. l : i \in 0 .. l + 1 /\ i # l + 1
    OBVIOUS
  <2>3. l + 1 \in 0 .. l + 1
    OBVIOUS
  <2> QED BY <1>6, <1>7, <1>8, <2>1, <2>2, <2>3
<1>10. ASSUME NEW i \in 1 .. l + 1 PROVE t[i] = t[i - 1] + Size(w[i])
  <2>1. CASE i = l + 1
    <3>1. w[i] = x /\ i - 1 = l /\ l \in 0 .. l
      BY <1>4, <2>1
    <3>2. t[i - 1] = s[l] /\ t[i] = s[l] + n
      BY <1>9, <2>1, <3>1
    <3> QED BY <1>2, <3>1, <3>2
  <2>2. CASE i \in 1 .. l
    <3>1. i \in 0 .. l /\ i - 1 \in 0 .. l
      BY <2>2
    <3>2. t[i] = s[i] /\ t[i - 1] = s[i - 1] /\ w[i] = v[i]
      BY <1>4, <1>9, <2>2, <3>1
    <3> QED BY <1>5, <2>2, <3>2
  <2>3. i = l + 1 \/ i \in 1 .. l
    OBVIOUS
  <2> QED BY <2>1, <2>2, <2>3, Zenon
<1>11. ASSUME NEW i \in 0 .. l + 1, NEW j \in 0 .. l + 1, i <= j PROVE t[i] <= t[j]
  <2>1. CASE j = l + 1
    <3>1. i = l + 1 \/ i \in 0 .. l
      OBVIOUS
    <3>2. ASSUME i \in 0 .. l PROVE t[i] <= t[j]
      <4>1. i <= l /\ l \in 0 .. l
        BY <3>2
      <4>2. s[i] <= s[l] /\ s[i] \in Nat
        BY <1>5, <1>7, <3>2, <4>1
      <4>3. s[i] <= s[l] + n
        BY <1>8, <4>2
      <4> QED BY <1>9, <2>1, <3>2, <4>3
    <3>3. t[i] \in Nat
      BY <1>9
    <3> QED BY <2>1, <3>1, <3>2, <3>3
  <2>2. CASE j \in 0 .. l
    <3>1. i \in 0 .. l
      BY <1>11, <2>2
    <3> QED BY <1>5, <1>9, <1>11, <2>2, <3>1
  <2> QED BY <2>1, <2>2
<1>12. t[0] = b
  BY <1>5, <1>9
<1>13. Sums(t, w, b)
  BY <1>4, <1>9, <1>10, <1>11, <1>12 DEF Sums
<1> QED BY <1>1, <1>2, <1>3, <1>9, <1>13

\* The first write is taken from the queue, and c counts what was written of it.
LEMMA SumsTail ==
  ASSUME NEW v \in Seq(Nat \X Nat), v # << >>,
         NEW n \in Nat, n = Size(v[1]),
         NEW b \in Nat, NEW s, Sums(s, v, b),
         NEW c \in Nat, b <= c, c <= b + n
  PROVE  \E t : Sums(t, Tail(v), c) /\ t[Len(v) - 1] = s[Len(v)] - ((b + n) - c)
<1>1. PICK l \in Nat : l + 1 = Len(v)
  <2>1. Len(v) \in Nat /\ Len(v) # 0
    BY EmptySeq
  <2>2. Len(v) - 1 \in Nat /\ (Len(v) - 1) + 1 = Len(v)
    BY <2>1
  <2> QED BY <2>2
<1>2. PICK w : w = Tail(v)
  OBVIOUS
<1>3. Len(w) = l /\ \A i \in 1 .. l : w[i] = v[i + 1]
  <2>1. PICK S : S = Nat \X Nat
    OBVIOUS
  <2>2. v \in Seq(S)
    BY <2>1, Zenon
  <2>3. Len(w) = Len(v) - 1 /\ \A i \in 1 .. Len(w) : w[i] = v[i + 1]
    BY <1>2, <2>2, HeadTailProperties
  <2>4. Len(w) = l
    BY <1>1, <2>3
  <2> QED BY <2>3, <2>4
<1>4. /\ s \in [0 .. l + 1 -> Nat] /\ s[0] = b
      /\ \A i \in 1 .. l + 1 : s[i] = s[i - 1] + Size(v[i])
      /\ \A i, j \in 0 .. l + 1 : i <= j => s[i] <= s[j]
  BY <1>1 DEF Sums
<1>5. 1 \in 1 .. l + 1 /\ 1 - 1 = 0 /\ 1 \in 0 .. l + 1
  OBVIOUS
<1>6. PICK e \in Nat : e = s[1]
  BY <1>4, <1>5
<1>7. e = b + n
  BY <1>4, <1>5, <1>6
<1>8. PICK m \in Nat : m = e - c
  <2>1. c <= e
    BY <1>7
  <2>2. e - c \in Nat
    BY <2>1
  <2> QED BY <2>2
<1>9. \A i \in 0 .. l : s[i + 1] \in Nat /\ s[i + 1] >= e
  <2> TAKE i \in 0 .. l
  <2>1. i + 1 \in 0 .. l + 1 /\ 1 <= i + 1
    OBVIOUS
  <2>2. s[i + 1] \in Nat /\ s[1] <= s[i + 1]
    BY <1>4, <1>5, <2>1
  <2> QED BY <1>6, <2>2
<1>10. PICK t : t = [i \in 0 .. l |-> s[i + 1] - m]
  OBVIOUS
<1>11. \A i \in 0 .. l : s[i + 1] - m \in Nat
  BY <1>8, <1>9, SMTT(30)
<1>12. t \in [0 .. l -> Nat] /\ \A i \in 0 .. l : t[i] = s[i + 1] - m
  BY <1>10, <1>11
<1>13. t[0] = c
  <2>1. t[0] = s[1] - m
    BY <1>12
  <2> QED BY <1>6, <1>8, <2>1, SMTT(30)
<1>14. ASSUME NEW i \in 1 .. l PROVE t[i] = t[i - 1] + Size(w[i])
  <2>1. i \in 0 .. l /\ i - 1 \in 0 .. l /\ i + 1 \in 1 .. l + 1 /\ (i + 1) - 1 = i /\ (i - 1) + 1 = i
    OBVIOUS
  <2>2. t[i] = s[i + 1] - m /\ t[i - 1] = s[i] - m
    BY <1>12, <2>1
  <2>3. s[i + 1] = s[i] + Size(w[i])
    BY <1>3, <1>4, <2>1
  <2>4. s[i] \in Nat /\ s[i + 1] \in Nat
    BY <1>9, <2>1
  <2>5. PICK x \in Nat : x = s[i]
    BY <2>4
  <2>6. Size(w[i]) \in Int
    <3>1. v[i + 1] \in Nat \X Nat
      BY <1>1, <2>1, SMTT(30)
    <3> QED BY <1>3, <3>1, SizeIsInt
  <2>7. PICK y \in Int : y = Size(w[i])
    BY <2>6
  <2>8. (x + y) - m = (x - m) + y
    OBVIOUS
  <2> QED BY <2>2, <2>3, <2>5, <2>7, <2>8
<1>15. ASSUME NEW i \in 0 .. l, NEW j \in 0 .. l, i <= j PROVE t[i] <= t[j]
  <2>1. i + 1 \in 0 .. l + 1 /\ j + 1 \in 0 .. l + 1 /\ i + 1 <= j + 1
    BY <1>15
  <2>2. s[i + 1] <= s[j + 1]
    BY <1>4, <2>1
  <2>3. s[i + 1] - m <= s[j + 1] - m
    <3>1. PICK x \in Nat : x = s[i + 1]
      BY <1>9
    <3>2. PICK y \in Nat : y = s[j + 1]
      BY <1>9
    <3>3. x <= y
      BY <2>2, <3>1, <3>2, Zenon
    <3>4. x - m <= y - m
      BY <3>3
    <3> QED BY <3>1, <3>2, <3>4, Zenon
  <2> QED BY <1>12, <2>3
<1>16. Sums(t, w, c)
  BY <1>3, <1>12, <1>13, <1>14, <1>15 DEF Sums
<1>17. t[Len(v) - 1] = s[Len(v)] - (e - c)
  <2>1. Len(v) - 1 = l /\ l \in 0 .. l
    BY <1>1
  <2>2. t[l] = s[l + 1] - m
    BY <1>12, <2>1
  <2> QED BY <1>1, <1>8, <2>1, <2>2
<1> QED BY <1>2, <1>7, <1>16, <1>17

LEMMA FitsAppend ==
  ASSUME NEW v \in Seq(Nat \X Nat), NEW b \in Nat, NEW k \in Nat, Fits(v, b, k),
         NEW x \in Nat \X Nat, Size(x) \in Nat
  PROVE  Fits(Append(v, x), b, k + Size(x))
<1>1. PICK s \in [0 .. Len(v) -> Nat] : Sums(s, v, b) /\ s[Len(v)] <= k
  BY DEF Fits
<1>2. PICK t : Sums(t, Append(v, x), b) /\ t[Len(v) + 1] = s[Len(v)] + Size(x)
  BY <1>1, SumsAppend
<1>3. Len(Append(v, x)) = Len(v) + 1 /\ Len(v) \in Nat
  BY Queued
<1>4. s[Len(v)] \in Nat
  <2>1. Len(v) \in 0 .. Len(v)
    BY <1>3
  <2> QED BY <2>1
<1>5. s[Len(v)] + Size(x) <= k + Size(x)
  BY <1>1, <1>4
<1>6. t \in [0 .. Len(Append(v, x)) -> Nat]
  BY <1>2 DEF Sums
<1> QED BY <1>2, <1>3, <1>5, <1>6 DEF Fits

LEMMA FitsTail ==
  ASSUME NEW v \in Seq(Nat \X Nat), v # << >>, NEW b \in Nat, NEW k \in Nat, Fits(v, b, k),
         NEW n \in Nat, n = Size(v[1]), NEW m \in Nat, m <= n
  PROVE  Fits(Tail(v), b + m, k - (n - m)) /\ k - (n - m) \in Nat
<1>1. PICK s : s \in [0 .. Len(v) -> Nat] /\ Sums(s, v, b) /\ s[Len(v)] <= k
  BY DEF Fits
<1>2. PICK c \in Nat : c = b + m
  OBVIOUS
<1>3. b <= c /\ c <= b + n /\ (b + n) - c = n - m
  BY <1>2
<1>4. PICK t : Sums(t, Tail(v), c) /\ t[Len(v) - 1] = s[Len(v)] - ((b + n) - c)
  <2>1. Sums(s, v, b)
    BY <1>1
  <2>2. b <= c /\ c <= b + n
    BY <1>3
  <2> QED BY <2>1, <2>2, SumsTail
<1>5. Len(Tail(v)) = Len(v) - 1 /\ Len(v) \in Nat /\ Len(Tail(v)) \in Nat
  <2>1. PICK S : S = Nat \X Nat
    OBVIOUS
  <2>2. v \in Seq(S)
    BY <2>1, Zenon
  <2>3. Len(Tail(v)) = Len(v) - 1 /\ Tail(v) \in Seq(S) /\ Len(v) \in Nat
    BY <2>2, HeadTailProperties
  <2> QED BY <2>3
<1>6. s[Len(v)] \in Nat
  <2>1. Len(v) \in 0 .. Len(v)
    BY <1>5
  <2> QED BY <1>1, <2>1
<1>7. s[Len(v)] - (n - m) <= k - (n - m)
  BY <1>1, <1>6
<1>8. t \in [0 .. Len(Tail(v)) -> Nat]
  BY <1>4 DEF Sums
<1>9. Fits(Tail(v), b + m, k - (n - m))
  BY <1>2, <1>3, <1>4, <1>5, <1>7, <1>8 DEF Fits
<1>10. t[Len(v) - 1] \in Nat
  <2>1. Len(Tail(v)) \in 0 .. Len(Tail(v))
    BY <1>5
  <2>2. t[Len(Tail(v))] \in Nat
    BY <1>8, <2>1
  <2> QED BY <1>5, <2>2, Zenon
<1>11. k - (n - m) \in Nat
  <2>1. s[Len(v)] - (n - m) \in Nat
    BY <1>3, <1>4, <1>10, Zenon
  <2> QED BY <1>6, <1>7, <2>1, SMTT(30)
<1> QED BY <1>9, <1>11

LEMMA FitsMore ==
  ASSUME NEW v \in Seq(Nat \X Nat), NEW b, NEW k \in Int, Fits(v, b, k), NEW l \in Int, k <= l
  PROVE  Fits(v, b, l)
<1>1. PICK s \in [0 .. Len(v) -> Nat] : Sums(s, v, b) /\ s[Len(v)] <= k
  BY DEF Fits
<1>2. s[Len(v)] \in Nat
  <2>1. Len(v) \in 0 .. Len(v)
    OBVIOUS
  <2> QED BY <2>1
<1>3. s[Len(v)] <= l
  BY <1>1, <1>2
<1> QED BY <1>1, <1>3 DEF Fits

\* What was written is not more than that, and it still fits with no write left.
LEMMA FitsNone ==
  ASSUME NEW v \in Seq(Nat \X Nat), NEW b \in Nat, NEW k \in Int, Fits(v, b, k)
  PROVE  b <= k /\ k \in Nat /\ Fits(<< >>, b, k)
<1>1. PICK s \in [0 .. Len(v) -> Nat] : Sums(s, v, b) /\ s[Len(v)] <= k
  BY DEF Fits
<1>2. 0 \in 0 .. Len(v) /\ Len(v) \in 0 .. Len(v) /\ 0 <= Len(v)
  <2>1. Len(v) \in Nat
    OBVIOUS
  <2> QED BY <2>1
<1>3. s[0] <= s[Len(v)] /\ s[Len(v)] \in Nat /\ s[0] = b
  BY <1>1, <1>2 DEF Sums
<1>4. b <= k /\ k \in Nat
  BY <1>1, <1>3
<1>5. Len(<< >>) = 0
  OBVIOUS
<1>6. PICK t : t = [i \in 0 .. 0 |-> b]
  OBVIOUS
<1>7. t \in [0 .. 0 -> Nat] /\ t[0] = b
  BY <1>6
<1>8. \A i \in 0 .. 0 : i = 0
  OBVIOUS
<1>9. \A i, j \in 0 .. 0 : i <= j => t[i] <= t[j]
  BY <1>7, <1>8
<1>10. \A i \in 1 .. 0 : FALSE
  OBVIOUS
<1>11. Sums(t, << >>, b)
  BY <1>5, <1>7, <1>9, <1>10 DEF Sums
<1>12. Fits(<< >>, b, k)
  BY <1>4, <1>5, <1>7, <1>11 DEF Fits
<1> QED BY <1>4, <1>12

LEMMA BackLength ==
  ASSUME ATypeOK, NEW p \in AsioPeers
  PROVE  Len(Back(p)) \in Nat /\ Len(inq[p]) \in Nat /\ sent[p] \in Nat
<1>1. got[p] \in Seq(Nat) /\ out[p] \in Seq(Nat) /\ inq[p] \in Seq(Nat) /\ sent[p] \in Nat
  BY DEF ATypeOK
<1>2. PICK b \in Seq(Nat) : b = got[p] \o out[p]
  BY <1>1, Joined
<1>3. Len(b) \in Nat /\ Len(inq[p]) \in Nat
  BY <1>1
<1> QED BY <1>1, <1>2, <1>3, Zenon DEF Back

LEMMA ReadAsio ==
  ASSUME AsioInv, NEW p \in AsioPeers, ReadDone(p)
  PROVE  AsioInv'
<1>1. ATypeOK /\ PeerInv(p) /\ PeerOK(p)
  BY DEF AsioInv, PeerInv
<1>2. /\ inq[p] \in Seq(Nat) /\ sent[p] \in Nat /\ data[p] \in Seq(Nat)
      /\ writes[p] \in Seq(Nat \X Nat)
  BY <1>1 DEF ATypeOK
<1>3. Len(inq[p]) \in Nat /\ Len(inq[p]) # 0 /\ Len(data[p]) \in Nat /\ Len(writes[p]) \in Nat
  <2>1. inq[p] # << >>
    BY DEF ReadDone
  <2>2. Len(inq[p]) \in Nat /\ Len(data[p]) \in Nat /\ Len(writes[p]) \in Nat
    BY <1>2
  <2>3. Len(inq[p]) # 0
    BY <1>2, <2>1, EmptySeq
  <2> QED BY <2>2, <2>3
<1>4. PICK n \in 1 .. Len(inq[p]) :
        n = IF Len(inq[p]) < MaxLen THEN Len(inq[p]) ELSE MaxLen
  BY <1>3, AsioAssumption
<1>5. PICK d \in Seq(Nat) : d = SubSeq(inq[p], 1, n) \o SubSeq(data[p], n + 1, Len(data[p]))
  BY <1>2, ReadTakes
<1>6. PICK q \in Seq(Nat) : q = SubSeq(inq[p], n + 1, Len(inq[p]))
  BY <1>2, ReadTakes
<1>7. n \in Nat /\ <<1, n>> \in Nat \X Nat
  BY <1>3
<1>8. PICK w \in Seq(Nat \X Nat) : w = Append(writes[p], <<1, n>>)
  BY <1>2, <1>7, AppendProperties
<1>9. /\ sess[p] = "reading" /\ sess' = [sess EXCEPT ![p] = AfterRead]
      /\ data' = [data EXCEPT ![p] = d] /\ inq' = [inq EXCEPT ![p] = q]
      /\ writes' = [writes EXCEPT ![p] = w]
      /\ UNCHANGED <<server, sent, out, got, shut>>
  BY <1>4, <1>5, <1>6, <1>8 DEF ReadDone
<1>10. ATypeOK'
  BY <1>1, <1>9 DEF ATypeOK, AfterRead
<1>11. data'[p] = d /\ inq'[p] = q /\ writes'[p] = w /\ sess'[p] = AfterRead /\ sent'[p] = sent[p]
  BY <1>1, <1>9 DEF ATypeOK
<1>12. /\ Len(d) >= n /\ Len(d) >= Len(data[p]) /\ \A i \in 1 .. n : d[i] = inq[p][i]
       /\ Len(q) = Len(inq[p]) - n /\ \A i \in 1 .. Len(inq[p]) - n : q[i] = inq[p][n + i]
  <2>1. PICK e \in Seq(Nat) : e = data[p]
    BY <1>2
  <2>2. PICK r \in Seq(Nat) : r = inq[p]
    BY <1>2
  <2>3. n \in 1 .. Len(r)
    BY <2>2
  <2>4. d = SubSeq(r, 1, n) \o SubSeq(e, n + 1, Len(e)) /\ q = SubSeq(r, n + 1, Len(r))
    BY <1>5, <1>6, <2>1, <2>2
  <2>5. /\ Len(d) >= n /\ Len(d) >= Len(e) /\ \A i \in 1 .. n : d[i] = r[i]
        /\ Len(q) = Len(r) - n /\ \A i \in 1 .. Len(r) - n : q[i] = r[n + i]
    BY <2>3, <2>4, ReadTakes, SMTT(30)
  <2> QED BY <2>1, <2>2, <2>5
<1>13. /\ Len(w) = Len(writes[p]) + 1 /\ w # << >>
       /\ \A i \in 1 .. Len(writes[p]) : w[i] = writes[p][i]
       /\ w[Len(writes[p]) + 1] = <<1, n>>
  <2>1. PICK v \in Seq(Nat \X Nat) : v = writes[p]
    BY <1>2
  <2>2. PICK x \in Nat \X Nat : x = <<1, n>>
    BY <1>7
  <2>3. w = Append(v, x)
    BY <1>8, <2>1, <2>2
  <2>4. /\ Len(w) = Len(v) + 1 /\ w # << >> /\ \A i \in 1 .. Len(v) : w[i] = v[i]
        /\ w[Len(v) + 1] = x
    BY <2>3, Queued, Zenon
  <2> QED BY <2>1, <2>2, <2>4
<1>14. n <= Len(inq[p]) /\ Len(inq[p]) <= sent[p]
  BY <1>1, <1>3 DEF PeerOK
<1>15. /\ \A i \in Nat : sent[p] - Len(inq[p]) + (n + i) = sent[p] - (Len(inq[p]) - n) + i
       /\ Len(inq[p]) - n <= sent[p]
       /\ sent[p] - (Len(inq[p]) - n) - n = sent[p] - Len(inq[p]) - 0
       /\ \A j \in Nat : sent[p] - Len(inq[p]) + j = sent[p] - Len(inq[p]) - 0 + (j - 1 + 1)
       /\ \A b \in Nat : b + Len(inq[p]) <= sent[p] => (b + n) + (Len(inq[p]) - n) <= sent[p]
  BY <1>2, <1>3, <1>7, <1>14, TakenAndLeft, Zenon
<1>16. \A i \in 1 .. Len(q) : q[i] = sent[p] - Len(q) + i
  <2> TAKE i \in 1 .. Len(q)
  <2>1. i \in 1 .. Len(inq[p]) - n /\ n + i \in 1 .. Len(inq[p]) /\ i \in Nat
    BY <1>3, <1>12, <1>14
  <2>2. q[i] = sent[p] - Len(inq[p]) + (n + i)
    BY <1>1, <1>12, <2>1 DEF PeerOK
  <2> QED BY <1>12, <1>15, <2>1, <2>2, Zenon
<1>17. \A i \in 1 .. Len(w) : 1 <= w[i][1] /\ w[i][1] <= w[i][2] /\ w[i][2] <= Len(d)
  <2> TAKE i \in 1 .. Len(w)
  <2>1. CASE i = Len(writes[p]) + 1
    <3>1. w[i] = <<1, n>>
      BY <1>13, <2>1
    <3>2. w[i][1] = 1 /\ w[i][2] = n /\ 1 <= n /\ n <= Len(d)
      BY <1>7, <1>12, <3>1
    <3> QED BY <3>2
  <2>2. CASE i \in 1 .. Len(writes[p])
    <3>1. /\ 1 <= writes[p][i][1] /\ writes[p][i][1] <= writes[p][i][2]
          /\ writes[p][i][2] <= Len(data[p])
      BY <1>1, <2>2 DEF PeerOK
    <3>2. writes[p][i][2] \in Nat /\ Len(d) \in Nat
      <4>1. writes[p][i] \in Nat \X Nat
        BY <1>2, <2>2
      <4> QED BY <4>1
    <3>3. writes[p][i][2] <= Len(d)
      <4>1. PICK x \in Nat : x = writes[p][i][2]
        BY <3>2
      <4>2. PICK y \in Nat : y = Len(data[p])
        BY <1>3
      <4>3. PICK z \in Nat : z = Len(d)
        BY <3>2
      <4>4. x <= y /\ z >= y
        BY <1>12, <3>1, <4>1, <4>2, <4>3
      <4>5. x <= z
        BY <4>4
      <4> QED BY <4>1, <4>3, <4>5, Zenon
    <3>4. w[i] = writes[p][i]
      BY <1>13, <2>2
    <3> QED BY <3>1, <3>3, <3>4
  <2> QED BY <1>3, <1>13, <2>1, <2>2, SMTT(30)
<1>18. PeerOK(p)'
  <2>1. Len(q) <= sent[p]
    BY <1>12, <1>15
  <2>2. sess'[p] \in {"reading", "writing"} /\ (server' = "future" => sess'[p] # "writing")
    BY <1>9, <1>11 DEF AfterRead
  <2> QED BY <1>11, <1>16, <1>17, <2>1, <2>2 DEF PeerOK
<1>19. Back(p)' = Back(p)
  BY <1>9 DEF Back
<1>20. ASSUME server # "future" PROVE writes[p] = << >> /\ Base(p)' = Base(p)
  <2>1. writes[p] = << >>
    BY <1>1, <1>9, <1>20 DEF PeerInv, SerialOK
  <2>2. Pending(p) = 0
    BY <2>1 DEF Pending
  <2>3. w[1] = <<1, n>>
    BY <1>13, <2>1
  <2>4. Pending(p)' = n
    BY <1>7, <1>11, <1>13, <2>3 DEF Pending, Size
  <2> QED BY <1>11, <1>12, <1>15, <2>1, <2>2, <2>4, Zenon DEF Base
<1>21. ASSUME server # "future" PROVE SerialOK(p)'
  <2>1. SerialOK(p) /\ Len(w) <= 1 /\ sess'[p] = "writing" /\ sess[p] # "over"
    BY <1>1, <1>9, <1>11, <1>13, <1>20, <1>21 DEF PeerInv, AfterRead
  <2>2. w[1] = <<1, n>>
    BY <1>13, <1>20, <1>21
  <2>3. Base(p) = sent[p] - Len(inq[p]) - 0
    BY <1>20, <1>21 DEF Base, Pending
  <2>4. ASSUME NEW j \in 1 .. n PROVE d[j] = Base(p) + (j - 1 + 1)
    <3>1. d[j] = sent[p] - Len(inq[p]) + j
      BY <1>1, <1>3, <1>12, <1>14 DEF PeerOK
    <3> QED BY <1>15, <2>3, <3>1
  <2>5. \A j \in w[1][1] .. w[1][2] : d[j] = Base(p) + (j - w[1][1] + 1)
    BY <2>2, <2>4
  <2> QED BY <1>11, <1>19, <1>20, <1>21, <2>1, <2>5 DEF SerialOK
<1>22. server \notin {"future", "awaiter"} => ExactOK(p)'
  BY <1>1, <1>9, <1>11, <1>19, <1>20 DEF PeerInv, ExactOK
<1>23. ASSUME server = "future" PROVE FutureOK(p)'
  <2>1. PICK k \in Nat : k = sent[p] - Len(inq[p])
    BY <1>2, <1>3, <1>14
  <2>2. PICK x \in Nat \X Nat : x = <<1, n>>
    BY <1>7
  <2>3. Size(x) = n
    BY <1>7, <2>2 DEF Size
  <2>4. PICK b \in Nat : b = Len(Back(p))
    BY <1>1, BackLength
  <2>5. PICK v \in Seq(Nat \X Nat) : v = writes[p]
    BY <1>2, Zenon
  <2>6. Fits(v, b, k)
    BY <1>1, <1>23, <2>1, <2>4, <2>5, Zenon DEF PeerInv, FutureOK
  <2>7. Size(x) \in Nat
    BY <1>7, <2>3
  <2>8. Fits(Append(v, x), b, k + Size(x))
    BY <2>6, <2>7, FitsAppend, Zenon
  <2>9. k + n = sent[p] - Len(q)
    <3>1. PICK a \in Nat : a = sent[p]
      BY <1>2
    <3>2. PICK l \in Nat : l = Len(inq[p])
      BY <1>3
    <3>3. k = a - l /\ Len(q) = l - n
      BY <1>12, <2>1, <3>1, <3>2, Zenon
    <3>4. (a - l) + n = a - (l - n)
      BY <1>7
    <3> QED BY <3>1, <3>3, <3>4, Zenon
  <2> QED BY <1>8, <1>11, <1>19, <2>2, <2>3, <2>4, <2>5, <2>8, <2>9, Zenon DEF FutureOK
<1>24. PeerInv(p)'
  BY <1>9, <1>18, <1>21, <1>22, <1>23 DEF PeerInv
<1>25. Only(p)
  BY <1>1, <1>9 DEF Only, ATypeOK
<1>26. sess[p] \in {"reading", "writing"}
  BY <1>9
<1> QED BY <1>10, <1>24, <1>25, <1>26, OnlyKeeps

LEMMA EofAsio ==
  ASSUME AsioInv, NEW p \in AsioPeers, ReadEof(p)
  PROVE  AsioInv'
<1>1. ATypeOK /\ PeerInv(p) /\ PeerOK(p)
  BY DEF AsioInv, PeerInv
<1>2. /\ inq[p] \in Seq(Nat) /\ sent[p] \in Nat /\ writes[p] \in Seq(Nat \X Nat)
      /\ Len(inq[p]) \in Nat /\ Len(writes[p]) \in Nat
  BY <1>1 DEF ATypeOK
<1>3. << >> \in Seq(Nat \X Nat) /\ Len(<< >>) = 0
  OBVIOUS
<1>4. /\ sess[p] = "reading" /\ sess' = [sess EXCEPT ![p] = "over"]
      /\ writes' = [writes EXCEPT ![p] = << >>]
      /\ UNCHANGED <<server, data, sent, inq, out, got, shut>>
  BY DEF ReadEof
<1>5. ATypeOK'
  BY <1>1, <1>3, <1>4 DEF ATypeOK
<1>6. sess'[p] = "over" /\ writes'[p] = << >>
  BY <1>1, <1>4 DEF ATypeOK
<1>7. Back(p)' = Back(p)
  BY <1>4 DEF Back
<1>8. PeerOK(p)'
  BY <1>1, <1>4, <1>6 DEF PeerOK
<1>9. server # "future" => SerialOK(p)'
  BY <1>1, <1>3, <1>4, <1>6, <1>7 DEF PeerInv, SerialOK
<1>10. server \notin {"future", "awaiter"} => ExactOK(p)'
  BY <1>1, <1>4, <1>6, <1>7 DEF PeerInv, ExactOK
<1>11. ASSUME server = "future" PROVE FutureOK(p)'
  <2>1. PICK k \in Int : k = sent[p] - Len(inq[p])
    BY <1>2
  <2>2. PICK b \in Nat : b = Len(Back(p))
    BY <1>1, BackLength
  <2>3. PICK v \in Seq(Nat \X Nat) : v = writes[p]
    BY <1>2, Zenon
  <2>4. Fits(v, b, k)
    BY <1>1, <1>11, <2>1, <2>2, <2>3, Zenon DEF PeerInv, FutureOK
  <2>5. Fits(<< >>, b, k)
    BY <2>4, FitsNone, Zenon
  <2>6. sent'[p] - Len(inq'[p]) = k
    BY <1>4, <2>1
  <2> QED BY <1>6, <1>7, <2>2, <2>5, <2>6, Zenon DEF FutureOK
<1>12. PeerInv(p)'
  BY <1>4, <1>8, <1>9, <1>10, <1>11 DEF PeerInv
<1>13. Only(p)
  BY <1>1, <1>4 DEF Only, ATypeOK
<1> QED BY <1>5, <1>6, <1>12, <1>13, OnlyKeeps

\* The write at the head of the queue.
LEMMA HeadWrite ==
  ASSUME ATypeOK, NEW p \in AsioPeers, PeerOK(p), writes[p] # << >>
  PROVE  /\ Len(writes[p]) \in Nat /\ 1 \in 1 .. Len(writes[p])
         /\ Head(writes[p]) = writes[p][1]
         /\ writes[p][1][1] \in Nat /\ writes[p][1][2] \in Nat
         /\ 1 <= writes[p][1][1] /\ writes[p][1][1] <= writes[p][1][2]
         /\ writes[p][1][2] <= Len(data[p]) /\ Size(writes[p][1]) \in Nat \ {0}
         /\ Tail(writes[p]) \in Seq(Nat \X Nat)
         /\ Len(Tail(writes[p])) = Len(writes[p]) - 1
         /\ \A i \in 1 .. Len(writes[p]) - 1 : Tail(writes[p])[i] = writes[p][i + 1]
         /\ Len(writes[p]) <= 1 => Tail(writes[p]) = << >>
<1>1. PICK S : S = Nat \X Nat
  OBVIOUS
<1>2. PICK v \in Seq(S) : v = writes[p]
  BY <1>1 DEF ATypeOK
<1>3. Len(v) \in Nat /\ Len(v) # 0
  BY <1>2, EmptySeq
<1>4. 1 \in 1 .. Len(v)
  BY <1>3
<1>5. /\ Tail(v) \in Seq(S) /\ Len(Tail(v)) = Len(v) - 1
      /\ \A i \in 1 .. Len(Tail(v)) : Tail(v)[i] = v[i + 1]
  BY <1>2, HeadTailProperties
<1>6. v[1] \in S /\ Head(v) = v[1]
  BY <1>4
<1>7. v[1][1] \in Nat /\ v[1][2] \in Nat
  BY <1>1, <1>6
<1>8. 1 <= v[1][1] /\ v[1][1] <= v[1][2] /\ v[1][2] <= Len(data[p])
  BY <1>2, <1>4 DEF PeerOK
<1>9. Len(v) <= 1 => Tail(v) = << >>
  <2>1. Len(v) <= 1 => Len(Tail(v)) = 0
    BY <1>3, <1>5
  <2> QED BY <1>5, <2>1, EmptySeq
<1>a. Size(v[1]) \in Nat \ {0}
  BY <1>1, <1>6, <1>8, SizeIsInt
<1>10. \A i \in 1 .. Len(v) - 1 : Tail(v)[i] = v[i + 1]
  BY <1>5
<1> QED BY <1>1, <1>2, <1>3, <1>4, <1>5, <1>6, <1>7, <1>8, <1>9, <1>10, <1>a, Zenon

\* What is left of the queue lies within the buffer.
LEMMA TailWithin ==
  ASSUME ATypeOK, NEW p \in AsioPeers, PeerOK(p), writes[p] # << >>,
         NEW i \in 1 .. Len(Tail(writes[p]))
  PROVE  /\ 1 <= Tail(writes[p])[i][1] /\ Tail(writes[p])[i][1] <= Tail(writes[p])[i][2]
         /\ Tail(writes[p])[i][2] <= Len(data[p])
<1>1. /\ Len(writes[p]) \in Nat /\ Len(Tail(writes[p])) = Len(writes[p]) - 1
      /\ \A j \in 1 .. Len(writes[p]) - 1 : Tail(writes[p])[j] = writes[p][j + 1]
  BY HeadWrite
<1>2. PICK l \in Nat : l = Len(writes[p])
  BY <1>1
<1>3. i \in 1 .. l - 1
  BY <1>1, <1>2
<1>4. i + 1 \in 1 .. l
  BY <1>3
<1>5. Tail(writes[p])[i] = writes[p][i + 1]
  BY <1>1, <1>2, <1>3
<1> QED BY <1>2, <1>4, <1>5 DEF PeerOK

LEMMA ErrorAsio ==
  ASSUME AsioInv, NEW p \in AsioPeers, WriteError(p)
  PROVE  AsioInv'
<1>1. ATypeOK /\ PeerInv(p) /\ PeerOK(p)
  BY DEF AsioInv, PeerInv
<1>2. writes[p] # << >>
  BY DEF WriteError
<1>3. PICK v \in Seq(Nat \X Nat) : v = Tail(writes[p])
  BY <1>1, <1>2, HeadWrite
<1>4. /\ writes' = [writes EXCEPT ![p] = v]
      /\ sess' = [sess EXCEPT ![p] = IF server = "future" THEN @ ELSE "over"]
      /\ UNCHANGED <<server, data, sent, inq, out, got, shut>>
  BY <1>3 DEF WriteError
<1>5. ATypeOK'
  BY <1>1, <1>4 DEF ATypeOK
<1>6. writes'[p] = v /\ sess'[p] = (IF server = "future" THEN sess[p] ELSE "over")
  BY <1>1, <1>4 DEF ATypeOK
<1>7. Back(p)' = Back(p)
  BY <1>4 DEF Back
<1>8. sess[p] \in {"reading", "writing"}
  BY <1>1, <1>2 DEF PeerOK
<1>9. server # "future" => v = << >>
  BY <1>1, <1>2, <1>3, HeadWrite DEF PeerInv, SerialOK
<1>10. \A i \in 1 .. Len(v) : 1 <= v[i][1] /\ v[i][1] <= v[i][2] /\ v[i][2] <= Len(data[p])
  BY <1>1, <1>2, <1>3, TailWithin
<1>11. PeerOK(p)'
  BY <1>1, <1>4, <1>6, <1>8, <1>9, <1>10 DEF PeerOK
<1>12. ASSUME server # "future" PROVE SerialOK(p)'
  <2>1. Len(v) = 0 /\ v = << >>
    BY <1>9, <1>12
  <2> QED BY <1>1, <1>4, <1>6, <1>7, <1>12, <2>1 DEF PeerInv, SerialOK
<1>13. server \notin {"future", "awaiter"} => ExactOK(p)'
  BY <1>1, <1>4, <1>6, <1>7 DEF PeerInv, ExactOK
<1>14. ASSUME server = "future" PROVE FutureOK(p)'
  <2>1. PICK b \in Nat : b = Len(Back(p))
    BY <1>1, BackLength
  <2>2. PICK u \in Seq(Nat \X Nat) : u = writes[p]
    BY <1>1 DEF ATypeOK
  <2>3. u # << >> /\ v = Tail(u)
    BY <1>2, <1>3, <2>2, Zenon
  <2>4. PICK n \in Nat : n = Size(u[1])
    BY <1>1, <1>2, <2>2, HeadWrite
  <2>5. PICK k \in Int : k = sent[p] - Len(inq[p])
    <3>1. sent[p] \in Nat /\ Len(inq[p]) \in Nat
      BY <1>1, BackLength
    <3>2. sent[p] - Len(inq[p]) \in Int
      BY <3>1
    <3> QED BY <3>2
  <2>6. Fits(u, b, k)
    BY <1>1, <1>14, <2>1, <2>2, <2>5, Zenon DEF PeerInv, FutureOK
  <2>7. k \in Nat
    BY <2>6, FitsNone, Zenon
  <2>8. 0 \in Nat /\ 0 <= n /\ b + 0 = b /\ k - (n - 0) = k - n /\ k - n <= k
    BY <2>7
  <2>9. Fits(Tail(u), b + 0, k - (n - 0)) /\ k - (n - 0) \in Nat
    BY <2>3, <2>4, <2>6, <2>7, <2>8, FitsTail
  <2>10. Fits(v, b, k - n) /\ k - n \in Nat
    BY <2>3, <2>8, <2>9
  <2>11. Fits(v, b, k)
    BY <2>8, <2>10, FitsMore
  <2>12. sent'[p] - Len(inq'[p]) = k
    BY <1>4, <2>5
  <2> QED BY <1>6, <1>7, <2>1, <2>11, <2>12, Zenon DEF FutureOK
<1>15. PeerInv(p)'
  BY <1>4, <1>11, <1>12, <1>13, <1>14 DEF PeerInv
<1>16. Only(p)
  BY <1>1, <1>4 DEF Only, ATypeOK
<1> QED BY <1>5, <1>8, <1>15, <1>16, OnlyKeeps

\* What a write of m bytes adds to what was written, in the servers with one write at a time.
LEMMA WrittenNext ==
  ASSUME NEW o \in Seq(Nat), NEW n \in Nat, NEW b \in Int, NEW c \in Int, b + n <= c,
         NEW u \in Seq(Nat), Counted(o, u, b, n)
  PROVE  /\ Upto(o, b) => Upto(u, c)
         /\ Upto(o, b) /\ Rising(o) => Rising(u)
         /\ Len(o) = b /\ Plain(o) => Plain(u)
<1>1. PICK l \in Nat : l = Len(o)
  OBVIOUS
<1>a. /\ Len(u) = l + n /\ \A i \in 1 .. l : u[i] = o[i]
      /\ \A i \in 1 .. n : u[l + i] = b + i
  BY <1>1 DEF Counted
<1>2. \A i \in 1 .. l : u[i] = o[i] /\ o[i] \in Nat
  BY <1>1, <1>a
<1>3. ASSUME NEW i \in 1 .. Len(u), i \notin 1 .. l
      PROVE  /\ i > l /\ i - l \in 1 .. n /\ u[i] = b + (i - l)
             /\ b + (i - l) <= c /\ b + (i - l) \in Int
  <2>1. i - l \in 1 .. n /\ l + (i - l) = i
    BY <1>a, <1>3
  <2>2. u[i] = b + (i - l)
    BY <1>a, <2>1
  <2>3. i > l /\ b + (i - l) <= c /\ b + (i - l) \in Int
    BY <2>1
  <2> QED BY <2>1, <2>2, <2>3
<1>4. ASSUME \A i \in 1 .. Len(o) : o[i] <= b, NEW i \in 1 .. Len(u) PROVE u[i] <= c
  <2>1. CASE i \in 1 .. l
    <3>1. o[i] <= b /\ o[i] \in Nat /\ u[i] = o[i]
      BY <1>1, <1>2, <1>4, <2>1
    <3> QED BY <3>1
  <2>2. CASE i \notin 1 .. l
    BY <1>3, <2>2
  <2> QED BY <2>1, <2>2
<1>5. ASSUME \A i \in 1 .. Len(o) : o[i] <= b,
             \A i, j \in 1 .. Len(o) : i < j => o[i] < o[j],
             NEW i \in 1 .. Len(u), NEW j \in 1 .. Len(u), i < j
      PROVE  u[i] < u[j]
  <2>1. CASE j \in 1 .. l
    <3>1. i \in 1 .. l
      BY <1>5, <2>1
    <3> QED BY <1>1, <1>2, <1>5, <2>1, <3>1
  <2>2. CASE i \in 1 .. l /\ j \notin 1 .. l
    <3>1. o[i] <= b /\ o[i] \in Nat /\ u[i] = o[i]
      BY <1>1, <1>2, <1>5, <2>2
    <3>2. u[j] = b + (j - l) /\ j > l
      BY <1>3, <2>2
    <3>3. b < b + (j - l)
      BY <3>2
    <3>4. b + (j - l) \in Int
      OBVIOUS
    <3> QED BY <3>1, <3>2, <3>3, <3>4
  <2>3. CASE i \notin 1 .. l
    <3>1. j \notin 1 .. l
      BY <1>5, <2>3
    <3>2. u[i] = b + (i - l) /\ u[j] = b + (j - l)
      BY <1>3, <2>3, <3>1
    <3>3. b + (i - l) < b + (j - l)
      BY <1>5
    <3> QED BY <3>2, <3>3
  <2> QED BY <2>1, <2>2, <2>3
<1>6. ASSUME Len(o) = b, \A i \in 1 .. Len(o) : o[i] = i, NEW i \in 1 .. Len(u) PROVE u[i] = i
  <2>1. CASE i \in 1 .. l
    BY <1>1, <1>2, <1>6, <2>1
  <2>2. CASE i \notin 1 .. l
    <3>1. u[i] = b + (i - l)
      BY <1>3, <2>2
    <3>2. b + (i - l) = i
      BY <1>1, <1>6
    <3> QED BY <3>1, <3>2
  <2> QED BY <2>1, <2>2
<1> QED BY <1>4, <1>5, <1>6 DEF Upto, Rising, Plain

\* The n bytes a write step takes, and the queue it leaves.
LEMMA WriteTakes ==
  ASSUME AsioInv, NEW p \in AsioPeers, WriteSome(p)
  PROVE  \E n \in Nat \ {0} : \E v \in Seq(Nat \X Nat) :
           /\ n <= Size(writes[p][1])
           /\ writes[p][1][1] + n - 1 <= writes[p][1][2]
           /\ out' = [out EXCEPT ![p] = @ \o SubSeq(data[p], writes[p][1][1], writes[p][1][1] + n - 1)]
           /\ writes' = [writes EXCEPT ![p] = v]
           /\ sess' = [sess EXCEPT ![p] = IF v = << >> THEN "reading" ELSE @]
           /\ \/ /\ v = Tail(writes[p])
                 /\ server = "awaiter" \/ n = Size(writes[p][1])
              \/ /\ v = Append(Tail(writes[p]), <<writes[p][1][1] + n, writes[p][1][2]>>)
                 /\ server # "awaiter" /\ writes[p][1][1] + n <= writes[p][1][2]
<1>1. ATypeOK /\ PeerOK(p) /\ writes[p] # << >>
  BY DEF AsioInv, WriteSome
<1>2. PICK w : w = writes[p][1]
  OBVIOUS
<1>3. /\ w[1] \in Nat /\ w[2] \in Nat /\ w[1] <= w[2] /\ w = Head(writes[p])
      /\ Tail(writes[p]) \in Seq(Nat \X Nat)
  BY <1>1, <1>2, HeadWrite
<1>4. PICK a \in Nat : a = w[1]
  BY <1>3
<1>5. PICK e \in Nat : e = w[2]
  BY <1>3
<1>6. a <= e
  BY <1>3, <1>4, <1>5
<1>7. PICK r \in Nat \ {0} : r = Window - Len(out[p])
  <2>1. out[p] \in Seq(Nat)
    BY <1>1 DEF ATypeOK
  <2>2. PICK l \in Nat : l = Len(out[p])
    BY <2>1
  <2>3. l < Window /\ Window \in Nat
    BY <2>2, AsioAssumption DEF WriteSome
  <2>4. Window - l \in Nat \ {0}
    BY <2>3
  <2> QED BY <2>2, <2>4
<1>8. PICK n \in Nat \ {0} : n = IF e + 1 - a < r THEN e + 1 - a ELSE r
  <2>1. e + 1 - a \in Nat \ {0}
    BY <1>6
  <2> QED BY <2>1
<1>9. n <= e - a + 1 /\ a + n - 1 <= e /\ (a + n > e => n = e - a + 1)
  BY <1>6, <1>8
<1>10. PICK v : v = Tail(writes[p]) \o RestOf(w, n)
  OBVIOUS
<1>11. /\ out' = [out EXCEPT ![p] = @ \o SubSeq(data[p], w[1], w[1] + n - 1)]
       /\ writes' = [writes EXCEPT ![p] = v]
       /\ sess' = [sess EXCEPT ![p] = IF v = << >> THEN "reading" ELSE @]
  BY <1>3, <1>4, <1>5, <1>7, <1>8, <1>10 DEF WriteSome
<1>12. CASE server = "awaiter" \/ a + n > e
  <2>1. RestOf(w, n) = << >>
    BY <1>4, <1>5, <1>12 DEF RestOf
  <2>2. PICK S : S = Nat \X Nat
    OBVIOUS
  <2>3. Tail(writes[p]) \in Seq(S)
    BY <1>3, <2>2, Zenon
  <2>4. Tail(writes[p]) \o << >> = Tail(writes[p])
    BY <2>3, ConcatEmptySeq
  <2>5. v = Tail(writes[p])
    BY <1>10, <2>1, <2>4
  <2>6. server = "awaiter" \/ n = Size(w)
    BY <1>4, <1>5, <1>9, <1>12 DEF Size
  <2>7. n <= Size(w) /\ w[1] + n - 1 <= w[2] /\ v \in Seq(Nat \X Nat)
    BY <1>3, <1>4, <1>5, <1>9, <2>5 DEF Size
  <2> QED BY <1>2, <1>11, <2>5, <2>6, <2>7
<1>13. CASE server # "awaiter" /\ a + n <= e
  <2>1. ~(a + n > e)
    BY <1>13
  <2>2. RestOf(w, n) = <<<<w[1] + n, w[2]>>>>
    BY <1>4, <1>5, <1>13, <2>1 DEF RestOf
  <2>3. PICK x \in Nat \X Nat : x = <<w[1] + n, w[2]>>
    <3>1. w[1] + n \in Nat
      BY <1>3
    <3> QED BY <1>3, <3>1
  <2>4. PICK S : S = Nat \X Nat
    OBVIOUS
  <2>5. Tail(writes[p]) \in Seq(S) /\ x \in S
    BY <1>3, <2>4, Zenon
  <2>6. Append(Tail(writes[p]), x) = Tail(writes[p]) \o <<x>>
    BY <2>5, AppendIsConcat
  <2>7. v = Append(Tail(writes[p]), x)
    BY <1>10, <2>2, <2>3, <2>6, Zenon
  <2>8. v \in Seq(Nat \X Nat)
    BY <1>3, <2>7, Queued, Zenon
  <2>9. n <= Size(w) /\ w[1] + n - 1 <= w[2] /\ w[1] + n <= w[2]
    BY <1>4, <1>5, <1>9, <1>13 DEF Size
  <2> QED BY <1>2, <1>11, <1>13, <2>3, <2>7, <2>8, <2>9
<1>14. a + n > e \/ a + n <= e
  OBVIOUS
<1> QED BY <1>12, <1>13, <1>14, Zenon

LEMMA WriteAsio ==
  ASSUME AsioInv, NEW p \in AsioPeers, WriteSome(p)
  PROVE  AsioInv'
<1>1. ATypeOK /\ PeerInv(p) /\ PeerOK(p) /\ writes[p] # << >>
  BY DEF AsioInv, PeerInv, WriteSome
<1>2. PICK n \in Nat \ {0}, v \in Seq(Nat \X Nat) :
           /\ n <= Size(writes[p][1])
           /\ writes[p][1][1] + n - 1 <= writes[p][1][2]
           /\ out' = [out EXCEPT ![p] = @ \o SubSeq(data[p], writes[p][1][1], writes[p][1][1] + n - 1)]
           /\ writes' = [writes EXCEPT ![p] = v]
           /\ sess' = [sess EXCEPT ![p] = IF v = << >> THEN "reading" ELSE @]
           /\ \/ /\ v = Tail(writes[p])
                 /\ server = "awaiter" \/ n = Size(writes[p][1])
              \/ /\ v = Append(Tail(writes[p]), <<writes[p][1][1] + n, writes[p][1][2]>>)
                 /\ server # "awaiter" /\ writes[p][1][1] + n <= writes[p][1][2]
  BY WriteTakes
<1>3. UNCHANGED <<server, data, sent, inq, got, shut>>
  BY DEF WriteSome
<1>4. PICK a \in Nat : a = writes[p][1][1]
  BY <1>1, HeadWrite
<1>5. PICK e \in Nat : e = writes[p][1][2]
  BY <1>1, HeadWrite
<1>6. 1 <= a /\ a <= e /\ e <= Len(data[p]) /\ a + n - 1 <= e /\ Size(writes[p][1]) = e - a + 1
  BY <1>1, <1>2, <1>4, <1>5, HeadWrite DEF Size
<1>7. sess[p] \in {"reading", "writing"}
  BY <1>1 DEF PeerOK
<1>8. PICK d \in Seq(Nat) : d = data[p]
  BY <1>1 DEF ATypeOK
<1>9. PICK g \in Seq(Nat) : g = got[p]
  BY <1>1 DEF ATypeOK
<1>10. PICK o \in Seq(Nat) : o = out[p]
  BY <1>1 DEF ATypeOK
<1>11. PICK b \in Seq(Nat) : b = g \o o
  BY Joined
<1>12. n \in Nat /\ 1 <= n /\ a + n - 1 <= Len(d)
  BY <1>6, <1>8
<1>13. PICK x \in Seq(Nat) : x = o \o SubSeq(d, a, a + n - 1)
  BY <1>6, <1>12, WriteAppends
<1>14. PICK u \in Seq(Nat) : u = g \o x
  BY Joined
<1>15. /\ Len(u) = Len(b) + n /\ \A i \in 1 .. Len(b) : u[i] = b[i]
       /\ \A i \in 1 .. n : u[Len(b) + i] = d[a + i - 1]
  <2>1. 1 <= a
    BY <1>6
  <2>2. Grown(g \o o, g \o (o \o SubSeq(d, a, a + n - 1)), d, a, n)
    BY <1>12, <2>1, WriteAppends
  <2>3. Grown(b, u, d, a, n)
    BY <1>11, <1>13, <1>14, <2>2, Zenon
  <2> QED BY <2>3 DEF Grown
<1>16. out' = [out EXCEPT ![p] = x]
  BY <1>2, <1>4, <1>8, <1>10, <1>13
<1>17. ATypeOK'
  BY <1>1, <1>2, <1>3, <1>16 DEF ATypeOK
<1>18. /\ out'[p] = x /\ writes'[p] = v
       /\ sess'[p] = (IF v = << >> THEN "reading" ELSE sess[p])
  BY <1>1, <1>2, <1>16 DEF ATypeOK
<1>19. Back(p) = b /\ Back(p)' = u
  BY <1>3, <1>9, <1>10, <1>11, <1>14, <1>18 DEF Back
<1>20. PICK y \in Nat \X Nat : y = <<a + n, e>>
  <2>1. a + n \in Nat
    BY <1>12
  <2> QED BY <2>1
<1>21. y[1] = a + n /\ y[2] = e /\ Size(y) = e - (a + n) + 1
  BY <1>12, <1>20 DEF Size
<1>22. PICK t \in Seq(Nat \X Nat) : t = Tail(writes[p])
  BY <1>1, HeadWrite
<1>23. \/ v = t /\ (server = "awaiter" \/ n = Size(writes[p][1]))
       \/ v = Append(t, y) /\ server # "awaiter" /\ a + n <= e
  BY <1>2, <1>4, <1>5, <1>20, <1>22, Zenon
<1>24. \A i \in 1 .. Len(t) : 1 <= t[i][1] /\ t[i][1] <= t[i][2] /\ t[i][2] <= Len(data[p])
  BY <1>1, <1>22, TailWithin
<1>25. \A i \in 1 .. Len(v) : 1 <= v[i][1] /\ v[i][1] <= v[i][2] /\ v[i][2] <= Len(data[p])
  <2>1. CASE v = t
    BY <1>24, <2>1
  <2>2. CASE v = Append(t, y) /\ a + n <= e
    <3>1. /\ Len(v) = Len(t) + 1 /\ v[Len(t) + 1] = y
          /\ \A i \in 1 .. Len(t) : v[i] = t[i]
      <4>1. /\ Len(Append(t, y)) = Len(t) + 1 /\ Append(t, y)[Len(t) + 1] = y
            /\ \A i \in 1 .. Len(t) : Append(t, y)[i] = t[i]
        BY Queued
      <4> QED BY <2>2, <4>1, Zenon
    <3>2. 1 <= y[1] /\ y[1] <= y[2] /\ y[2] <= Len(data[p])
      BY <1>6, <1>12, <1>21, <2>2
    <3>3. \A i \in 1 .. Len(t) + 1 : i \in 1 .. Len(t) \/ i = Len(t) + 1
      <4>1. Len(t) \in Nat
        OBVIOUS
      <4> QED BY <4>1, SMTT(30)
    <3> QED BY <1>24, <3>1, <3>2, <3>3
  <2> QED BY <1>23, <2>1, <2>2
<1>26. PeerOK(p)'
  <2>1. Len(inq'[p]) <= sent'[p] /\ \A i \in 1 .. Len(inq'[p]) : inq'[p][i] = sent'[p] - Len(inq'[p]) + i
    BY <1>1, <1>3 DEF PeerOK
  <2>2. sess'[p] \in {"reading", "writing"} /\ (server' = "future" => sess'[p] # "writing")
    BY <1>1, <1>3, <1>7, <1>18 DEF PeerOK
  <2> QED BY <1>3, <1>18, <1>25, <2>1, <2>2 DEF PeerOK
<1>27. ASSUME server = "future" PROVE FutureOK(p)'
  <2>1. PICK k \in Int : k = sent[p] - Len(inq[p])
    <3>1. sent[p] \in Nat /\ Len(inq[p]) \in Nat
      BY <1>1, BackLength
    <3>2. sent[p] - Len(inq[p]) \in Int
      BY <3>1
    <3> QED BY <3>2
  <2>2. PICK q \in Seq(Nat \X Nat) : q = writes[p]
    BY <1>1 DEF ATypeOK
  <2>3. q # << >> /\ t = Tail(q)
    BY <1>1, <1>22, <2>2, Zenon
  <2>4. PICK l \in Nat : l = Size(q[1])
    BY <1>1, <2>2, HeadWrite
  <2>5. PICK c \in Nat : c = Len(b)
    OBVIOUS
  <2>6. Fits(q, c, k)
    BY <1>1, <1>19, <1>27, <2>1, <2>2, <2>5, Zenon DEF PeerInv, FutureOK
  <2>7. k \in Nat
    BY <2>6, FitsNone, Zenon
  <2>8. n <= l
    BY <1>2, <2>2, <2>4, Zenon
  <2>9. Fits(Tail(q), c + n, k - (l - n)) /\ k - (l - n) \in Nat
    BY <1>12, <2>3, <2>4, <2>6, <2>7, <2>8, FitsTail
  <2>10. PICK m \in Nat : m = k - (l - n)
    BY <2>9
  <2>11. PICK h \in Nat : h = c + n
    BY <1>12
  <2>12. Fits(t, h, m)
    BY <2>3, <2>9, <2>10, <2>11, Zenon
  <2>13. Fits(v, h, k)
    <3>1. CASE v = t /\ n = Size(writes[p][1])
      <4>1. m = k
        BY <1>12, <2>2, <2>4, <2>10, <3>1
      <4> QED BY <2>12, <3>1, <4>1, Zenon
    <3>2. CASE v = Append(t, y) /\ a + n <= e
      <4>1. l = e - a + 1
        BY <1>6, <2>2, <2>4
      <4>2. Size(y) \in Nat /\ m + Size(y) = k
        BY <1>12, <1>21, <2>10, <3>2, <4>1
      <4>3. Fits(Append(t, y), h, m + Size(y))
        BY <2>12, <4>2, FitsAppend
      <4> QED BY <3>2, <4>2, <4>3, Zenon
    <3> QED BY <1>23, <1>27, <3>1, <3>2
  <2>14. sent'[p] - Len(inq'[p]) = k /\ Len(u) = h
    BY <1>3, <1>15, <2>1, <2>5, <2>11
  <2> QED BY <1>18, <1>19, <2>13, <2>14, Zenon DEF FutureOK
<1>28. ASSUME server # "future" PROVE SerialOK(p)' /\ (server # "awaiter" => ExactOK(p)')
  <2>1. SerialOK(p) /\ (server # "awaiter" => ExactOK(p)) /\ sess[p] # "over" /\ sess[p] # "reading"
    BY <1>1, <1>7, <1>28 DEF PeerInv, SerialOK
  <2>2. t = << >>
    BY <1>1, <1>22, <2>1, HeadWrite DEF SerialOK
  <2>3. PICK z \in Int : z = sent[p] - Len(inq[p])
    <3>1. sent[p] \in Nat /\ Len(inq[p]) \in Nat
      BY <1>1, BackLength
    <3>2. sent[p] - Len(inq[p]) \in Int
      BY <3>1
    <3> QED BY <3>2
  <2>4. PICK c \in Int : c = z - (e - a + 1)
    OBVIOUS
  <2>5. Base(p) = c
    BY <1>1, <1>6, <2>3, <2>4, Zenon DEF Base, Pending
  <2>6. \A j \in a .. e : d[j] = c + (j - a + 1)
    BY <1>1, <1>4, <1>5, <1>8, <2>1, <2>5 DEF SerialOK
  <2>7. ASSUME NEW i \in 1 .. n PROVE u[Len(b) + i] = c + i
    <3>1. a + i - 1 \in a .. e /\ (a + i - 1) - a + 1 = i
      BY <1>6, <1>12
    <3>2. d[a + i - 1] = c + ((a + i - 1) - a + 1)
      BY <2>6, <3>1
    <3> QED BY <1>15, <3>1, <3>2
  <2>a. Len(u) = Len(b) + n
    BY <1>15
  <2>b. n \in Nat /\ Counted(b, u, c, n)
    BY <1>12, <1>15, <2>7 DEF Counted
  <2>8. Upto(b, c) /\ Rising(b)
    BY <1>19, <2>1, <2>5 DEF SerialOK
  <2>9. server # "awaiter" => Len(b) = c /\ Plain(b)
    BY <1>19, <2>1, <2>5 DEF ExactOK
  <2>10. CASE v = << >> /\ (server = "awaiter" \/ n = e - a + 1)
    <3>1. Base(p)' = z
      <4>1. Pending(p)' = 0
        BY <1>18, <2>10 DEF Pending
      <4>2. z - 0 = z
        OBVIOUS
      <4> QED BY <1>3, <2>3, <4>1, <4>2 DEF Base
    <3>2. c + n <= z
      BY <1>6, <1>12, <2>4
    <3>3. Upto(u, z) /\ Rising(u) /\ (server # "awaiter" => Plain(u))
      BY <2>8, <2>9, <2>b, <3>2, WrittenNext
    <3>4. server # "awaiter" => Len(u) = z
      <4>1. server # "awaiter" => Len(u) = c + n /\ n = e - a + 1
        BY <2>9, <2>10, <2>a, Zenon
      <4>2. n = e - a + 1 => c + n = z
        BY <2>4
      <4> QED BY <4>1, <4>2, Zenon
    <3>5. Len(v) <= 1
      BY <2>10
    <3> QED BY <1>18, <1>19, <2>10, <3>1, <3>3, <3>4, <3>5 DEF SerialOK, ExactOK
  <2>11. CASE v = Append(t, y) /\ a + n <= e
    <3>1. Len(v) = 1 /\ v[1] = y /\ v # << >>
      BY <2>2, <2>11, Queued
    <3>2. Base(p)' = c + n
      <4>1. Pending(p)' = e - (a + n) + 1
        BY <1>18, <1>21, <3>1 DEF Pending
      <4>2. z - (e - (a + n) + 1) = c + n
        BY <1>12, <2>4
      <4> QED BY <1>3, <2>3, <4>1, <4>2 DEF Base
    <3>3. PICK f \in Int : f = c + n
      BY <1>12
    <3>4. Upto(u, f) /\ Rising(u) /\ (server # "awaiter" => Plain(u))
      <4>1. c + n <= f
        BY <1>12, <3>3
      <4> QED BY <2>8, <2>9, <2>b, <4>1, WrittenNext
    <3>5. server # "awaiter" => Len(u) = f
      BY <1>12, <1>15, <2>9, <3>3
    <3>6. ASSUME NEW j \in y[1] .. y[2] PROVE d[j] = f + (j - y[1] + 1)
      <4>1. j \in a .. e /\ c + (j - a + 1) = f + (j - (a + n) + 1)
        BY <1>12, <1>21, <3>3
      <4> QED BY <1>21, <2>6, <4>1
    <3>7. sess'[p] # "reading"
      BY <1>18, <2>1, <3>1
    <3> QED BY <1>3, <1>8, <1>18, <1>19, <3>1, <3>2, <3>3, <3>4, <3>5, <3>6, <3>7
            DEF SerialOK, ExactOK
  <2> QED BY <1>6, <1>23, <2>2, <2>10, <2>11
<1>29. PeerInv(p)'
  BY <1>3, <1>26, <1>27, <1>28 DEF PeerInv
<1>30. Only(p)
  BY <1>1, <1>2, <1>3, <1>16 DEF Only, ATypeOK
<1> QED BY <1>7, <1>17, <1>29, <1>30, OnlyKeeps

LEMMA AsioInit == AInit => AsioInv
<1> SUFFICES ASSUME AInit PROVE AsioInv
  OBVIOUS
<1>1. << >> \in Seq(Nat) /\ << >> \in Seq(Nat \X Nat) /\ Len(<< >>) = 0
  OBVIOUS
<1>2. ATypeOK
  BY <1>1 DEF AInit, ATypeOK
<1>3. ASSUME NEW p \in AsioPeers PROVE PeerInv(p)
  <2>1. /\ sess[p] = "new" /\ sent[p] = 0 /\ data[p] = << >> /\ writes[p] = << >>
        /\ inq[p] = << >> /\ out[p] = << >> /\ got[p] = << >>
    BY DEF AInit
  <2>2. << >> \o << >> = << >>
    BY <1>1, ConcatEmptySeq
  <2>3. Back(p) = << >> /\ Base(p) = 0
    <3>1. Back(p) = << >> /\ Pending(p) = 0
      BY <2>1, <2>2 DEF Back, Pending
    <3>2. sent[p] = 0 /\ Len(inq[p]) = 0 /\ 0 - 0 - 0 = 0
      BY <1>1, <2>1
    <3> QED BY <3>1, <3>2, Zenon DEF Base
  <2>4. PeerOK(p) /\ SerialOK(p) /\ ExactOK(p)
    BY <1>1, <2>1, <2>3 DEF PeerOK, SerialOK, ExactOK, Upto, Rising, Plain
  <2>5. FutureOK(p)
    <3>1. PICK s : s = [i \in 0 .. 0 |-> 0]
      OBVIOUS
    <3>2. s \in [0 .. 0 -> Nat] /\ s[0] = 0 /\ \A i \in 0 .. 0 : i = 0
      BY <3>1
    <3>3. Sums(s, << >>, 0)
      BY <1>1, <3>2 DEF Sums
    <3>4. Fits(<< >>, 0, 0)
      BY <1>1, <3>2, <3>3 DEF Fits
    <3> QED BY <1>1, <2>1, <2>3, <3>4 DEF FutureOK
  <2> QED BY <2>4, <2>5 DEF PeerInv
<1>4. InService = {}
  BY DEF AInit, InService
<1> QED BY <1>2, <1>3, <1>4 DEF AsioInv, PeerInv

LEMMA AsioStep == AsioInv /\ [ANext]_aVars => AsioInv'
<1> SUFFICES ASSUME AsioInv, [ANext]_aVars PROVE AsioInv'
  OBVIOUS
<1>1. CASE UNCHANGED aVars
  BY <1>1 DEF aVars, AsioInv, ATypeOK, PeerOK, SerialOK, ExactOK, FutureOK, Back, Base,
              Pending, InService
<1> QED BY <1>1, StatusAsio, SendAsio, ReceiveAsio, ReadAsio, EofAsio, WriteAsio, ErrorAsio,
           Zenon DEF ANext

THEOREM AsioInvariance == ASpec => []AsioInv
<1> QED BY AsioInit, AsioStep, PTL DEF ASpec

\* A peer of the servers with callbacks or the library's coroutines gets back exactly
\* what it sent, from the start; of echo2 in its order, perhaps with gaps; of the server
\* with futures never more than it sent, and it has that server for itself.
THEOREM EchoIsExact == ASpec => []EchoExact
<1>1. AsioInv => EchoExact
  <2> SUFFICES ASSUME AsioInv PROVE EchoExact
    OBVIOUS
  <2>1. ASSUME NEW p \in AsioPeers
        PROVE  /\ server = "future" => Len(Back(p)) <= sent[p]
               /\ server = "awaiter" =>
                    \A j, k \in DOMAIN Back(p) : j < k => Back(p)[j] < Back(p)[k]
               /\ server \notin {"future", "awaiter"} => Back(p) = [k \in DOMAIN Back(p) |-> k]
    <3>1. ATypeOK /\ PeerInv(p)
      BY DEF AsioInv, PeerInv
    <3>2. got[p] \in Seq(Nat) /\ out[p] \in Seq(Nat) /\ writes[p] \in Seq(Nat \X Nat)
      BY <3>1 DEF ATypeOK
    <3>3. PICK b \in Seq(Nat) : b = Back(p)
      BY <3>2, Joined DEF Back
    <3>4. DOMAIN b = 1 .. Len(b)
      OBVIOUS
    <3>5. ASSUME server = "future" PROVE Len(b) <= sent[p]
      <4>1. sent[p] \in Nat /\ Len(inq[p]) \in Nat /\ Len(b) \in Nat
        BY <3>1, <3>3, BackLength
      <4>2. PICK k \in Int : k = sent[p] - Len(inq[p])
        BY <4>1
      <4>3. Fits(writes[p], Len(b), k)
        BY <3>1, <3>3, <3>5, <4>2, Zenon DEF PeerInv, FutureOK
      <4>4. Len(b) <= k
        BY <3>2, <4>1, <4>3, FitsNone, Zenon
      <4> QED BY <4>1, <4>2, <4>4
    <3>6. server = "awaiter" => \A j, k \in 1 .. Len(b) : j < k => b[j] < b[k]
      BY <3>1, <3>3 DEF PeerInv, SerialOK, Rising
    <3>7. server \notin {"future", "awaiter"} => \A k \in 1 .. Len(b) : b[k] = k
      BY <3>1, <3>3 DEF PeerInv, ExactOK, Plain
    <3>8. server \notin {"future", "awaiter"} => b = [k \in 1 .. Len(b) |-> k]
      BY <3>4, <3>7
    <3> QED BY <3>3, <3>4, <3>5, <3>6, <3>8
  <2>2. server = "future" => \A p, q \in InService : p = q
    BY DEF AsioInv
  <2> QED BY <2>1, <2>2 DEF EchoExact, Back
<1> QED BY <1>1, AsioInvariance, PTL

-----------------------------------------------------------------------------
\* The echo servers: what a server knows in the middle of a round.

ETypeOK ==
  /\ kind \in {"poll", "epoll"}
  /\ client \in [Clients -> {"off", "idle", "waits", "leaves", "closed", "reset", "dropped", "gone"}]
  /\ backlog \in Seq(Clients)
  /\ clients \in Seq(Clients)
  /\ epc \in {"wait", "listen", "walk", "events", "exit"}
  /\ events \in Seq({0} \cup Clients)
  /\ nready \in Nat /\ it \in Nat
  /\ due \subseteq Clients

\* Connections wait in the backlog once.
BacklogExact ==
  /\ IsInjective(backlog)
  /\ \A c \in ToSet(backlog) : client[c] \in {"idle", "waits", "leaves", "closed", "reset"}

\* What is due is in the table and still has something to read.
DueWaits == \A c \in due : c \in ToSet(clients) /\ client[c] \in {"waits", "leaves", "closed", "reset"}

\* Until it comes to the listening socket a round knows which connections wait,
\* and what is due are the events; the poll server knows how many.
Reports ==
  /\ epc \in {"listen", "events"} => /\ due = ToSet(events) \ {0}
                                     /\ 0 \in ToSet(events) => backlog # << >>
  /\ epc = "listen" => nready = Cardinality(ToSet(events)) /\ it = 1
  /\ epc = "events" => IsInjective(events)

\* In the walk, nready counts what is due, and those are the entries reported
\* that are not behind the iterator.
Walk ==
  epc = "walk" =>
    /\ nready = Cardinality(due)
    /\ it >= 1
    /\ \A k \in 1 .. Len(clients) : clients[k] \in due <=> k >= it /\ clients[k] \in ToSet(events)

EchoInv == ETypeOK /\ BacklogExact /\ DueWaits /\ Reports /\ Walk /\ RoundExact
-----------------------------------------------------------------------------
\* The echo servers keep their clients in a sequence: what happens to its entries
\* when one is added, taken off the front, or erased.

LEMMA Entries ==
  ASSUME NEW X, NEW q \in Seq(X)
  PROVE  /\ Len(q) \in Nat /\ DOMAIN q = 1 .. Len(q)
         /\ ToSet(q) \subseteq X
         /\ \A x : x \in ToSet(q) <=> \E i \in 1 .. Len(q) : q[i] = x
         /\ \A x : x \in ToSet(q) <=> Contains(q, x)
         /\ IsInjective(q) <=> \A i, j \in 1 .. Len(q) : q[i] = q[j] => i = j
<1>1. Len(q) \in Nat /\ DOMAIN q = 1 .. Len(q)
  OBVIOUS
<1>2. IsInjective(q) <=> \A i, j \in 1 .. Len(q) : q[i] = q[j] => i = j
  BY <1>1 DEF IsInjective
<1> QED BY <1>1, <1>2 DEF ToSet, Contains

LEMMA NoEntries ==
  ASSUME NEW X
  PROVE  << >> \in Seq(X) /\ ToSet(<< >>) = {} /\ IsInjective(<< >>)
BY DEF ToSet, IsInjective

LEMMA EntryAdded ==
  ASSUME NEW X, NEW q \in Seq(X), NEW x \in X
  PROVE  /\ Append(q, x) \in Seq(X)
         /\ Len(Append(q, x)) = Len(q) + 1
         /\ Append(q, x)[Len(q) + 1] = x
         /\ \A i \in 1 .. Len(q) : Append(q, x)[i] = q[i]
         /\ ToSet(Append(q, x)) = ToSet(q) \cup {x}
         /\ IsInjective(q) /\ x \notin ToSet(q) => IsInjective(Append(q, x))
<1>0. Append(q, x) \in Seq(X)
  OBVIOUS
<1>1. PICK r \in Seq(X) : r = Append(q, x)
  BY <1>0, Zenon
<1>2. /\ Len(r) = Len(q) + 1 /\ Len(q) \in Nat /\ r[Len(q) + 1] = x
      /\ \A i \in 1 .. Len(q) : r[i] = q[i]
  BY <1>1
<1>3. \A i \in 1 .. Len(r) : i \in 1 .. Len(q) \/ i = Len(q) + 1
  BY <1>2
<1>4. \A i \in 1 .. Len(q) : i \in 1 .. Len(r)
  BY <1>2
<1>5. Len(q) + 1 \in 1 .. Len(r)
  BY <1>2
<1>6. ASSUME NEW y PROVE y \in ToSet(r) <=> y \in ToSet(q) \cup {x}
  <2>1. y \in ToSet(r) <=> \E i \in 1 .. Len(r) : r[i] = y
    BY Entries
  <2>2. y \in ToSet(q) <=> \E i \in 1 .. Len(q) : q[i] = y
    BY Entries
  <2>3. (\E i \in 1 .. Len(r) : r[i] = y) <=> (\E i \in 1 .. Len(q) : q[i] = y) \/ y = x
    BY <1>2, <1>3, <1>4, <1>5
  <2> QED BY <2>1, <2>2, <2>3
<1>7. ASSUME IsInjective(q), x \notin ToSet(q) PROVE IsInjective(r)
  <2>1. \A i, j \in 1 .. Len(q) : q[i] = q[j] => i = j
    BY <1>7, Entries
  <2>2. \A i \in 1 .. Len(q) : q[i] # x
    BY <1>7, Entries
  <2>3. \A i, j \in 1 .. Len(r) : r[i] = r[j] => i = j
    BY <1>2, <1>3, <2>1, <2>2
  <2> QED BY <2>3, Entries
<1> QED BY <1>1, <1>2, <1>6, <1>7

LEMMA HeadTaken ==
  ASSUME NEW X, NEW q \in Seq(X), q # << >>
  PROVE  /\ Head(q) \in ToSet(q) /\ Head(q) \in X /\ Tail(q) \in Seq(X)
         /\ IsInjective(q) => /\ IsInjective(Tail(q))
                              /\ ToSet(Tail(q)) = ToSet(q) \ {Head(q)}
<1>0. Tail(q) \in Seq(X)
  OBVIOUS
<1>1. PICK t \in Seq(X) : t = Tail(q)
  BY <1>0, Zenon
<1>2. /\ Len(q) \in Nat \ {0} /\ Len(t) = Len(q) - 1 /\ Head(q) = q[1] /\ q[1] \in X
      /\ \A i \in 1 .. Len(t) : t[i] = q[i + 1]
  BY <1>1
<1>3. Head(q) \in ToSet(q)
  <2>1. 1 \in 1 .. Len(q)
    BY <1>2
  <2> QED BY <1>2, <2>1, Entries
<1>4. ASSUME IsInjective(q) PROVE IsInjective(t) /\ ToSet(t) = ToSet(q) \ {Head(q)}
  <2>1. \A i, j \in 1 .. Len(q) : q[i] = q[j] => i = j
    BY <1>4, Entries
  <2>2. \A i \in 1 .. Len(t) : i + 1 \in 1 .. Len(q) /\ i + 1 # 1
    BY <1>2
  <2>3. \A i, j \in 1 .. Len(t) : t[i] = t[j] => i = j
    <3> SUFFICES ASSUME NEW i \in 1 .. Len(t), NEW j \in 1 .. Len(t), t[i] = t[j] PROVE i = j
      OBVIOUS
    <3>1. q[i + 1] = q[j + 1]
      BY <1>2
    <3>2. i + 1 = j + 1
      BY <3>1, <2>1, <2>2
    <3> QED BY <3>2
  <2>4. ASSUME NEW x \in ToSet(t) PROVE x \in ToSet(q) /\ x # Head(q)
    <3>1. PICK i \in 1 .. Len(t) : t[i] = x
      BY Entries
    <3>2. i + 1 \in 1 .. Len(q) /\ q[i + 1] = x /\ 1 \in 1 .. Len(q) /\ i + 1 # 1
      BY <1>2, <3>1
    <3>3. x # q[1]
      BY <3>2, <2>1
    <3>4. x \in ToSet(q)
      BY <3>2, Entries
    <3> QED BY <3>3, <3>4, <1>2
  <2>5. ASSUME NEW x \in ToSet(q), x # Head(q) PROVE x \in ToSet(t)
    <3>1. PICK i \in 1 .. Len(q) : q[i] = x
      BY Entries
    <3>2. i - 1 \in 1 .. Len(t) /\ (i - 1) + 1 = i
      BY <1>2, <2>5, <3>1
    <3>3. t[i - 1] = x
      BY <1>2, <3>1, <3>2
    <3> QED BY <3>2, <3>3, Entries
  <2> QED BY <2>3, <2>4, <2>5, Entries
<1> QED BY <1>1, <1>2, <1>3, <1>4

\* pollfds.erase(it).
LEMMA EntryErased ==
  ASSUME NEW X, NEW q \in Seq(X), NEW k \in 1 .. Len(q), IsInjective(q)
  PROVE  /\ RemoveAt(q, k) \in Seq(X) /\ IsInjective(RemoveAt(q, k))
         /\ Len(RemoveAt(q, k)) = Len(q) - 1
         /\ ToSet(RemoveAt(q, k)) = ToSet(q) \ {q[k]}
         /\ \A i \in 1 .. k - 1 : RemoveAt(q, k)[i] = q[i]
         /\ \A i \in k .. Len(q) - 1 : RemoveAt(q, k)[i] = q[i + 1]
<1>0. SubSeq(q, 1, k - 1) \in Seq(X) /\ SubSeq(q, k + 1, Len(q)) \in Seq(X)
  <2>1. Len(q) \in Nat /\ k \in Nat
    OBVIOUS
  <2>2. \A i \in 1 .. k - 1 : i \in 1 .. Len(q)
    BY <2>1
  <2>3. \A i \in k + 1 .. Len(q) : i \in 1 .. Len(q)
    BY <2>1
  <2> QED BY <2>1, <2>2, <2>3, SubSeqProperties
<1>1. PICK a \in Seq(X) : a = SubSeq(q, 1, k - 1)
  BY <1>0, Zenon
<1>2. PICK b \in Seq(X) : b = SubSeq(q, k + 1, Len(q))
  BY <1>0, Zenon
<1>3. Len(q) \in Nat /\ Len(a) = k - 1 /\ \A i \in 1 .. k - 1 : a[i] = q[i]
  BY <1>1
<1>4. Len(b) = Len(q) - k /\ \A i \in 1 .. Len(q) - k : b[i] = q[k + i]
  BY <1>2
<1>50. a \o b \in Seq(X)
  OBVIOUS
<1>5. PICK r \in Seq(X) : r = a \o b
  BY <1>50, Zenon
<1>6. /\ Len(r) = Len(a) + Len(b)
      /\ \A i \in 1 .. Len(a) : r[i] = a[i]
      /\ \A i \in 1 .. Len(b) : r[Len(a) + i] = b[i]
  BY <1>5
<1>7. r = RemoveAt(q, k)
  BY <1>1, <1>2, <1>5 DEF RemoveAt
<1>8. Len(r) = Len(q) - 1
  BY <1>3, <1>4, <1>6
<1>9. \A i \in 1 .. k - 1 : r[i] = q[i]
  BY <1>3, <1>6
<1>10. ASSUME NEW i \in k .. Len(q) - 1 PROVE r[i] = q[i + 1]
  <2>1. i - (k - 1) \in 1 .. Len(q) - k
    BY <1>3
  <2>2. r[(k - 1) + (i - (k - 1))] = b[i - (k - 1)]
    BY <2>1, <1>3, <1>4, <1>6
  <2>3. b[i - (k - 1)] = q[k + (i - (k - 1))]
    BY <2>1, <1>4
  <2>4. (k - 1) + (i - (k - 1)) = i /\ k + (i - (k - 1)) = i + 1
    OBVIOUS
  <2> QED BY <2>2, <2>3, <2>4
<1> DEFINE Old(i) == IF i < k THEN i ELSE i + 1
<1>11. \A i \in 1 .. Len(r) : r[i] = q[Old(i)] /\ Old(i) \in 1 .. Len(q) /\ Old(i) # k
  BY <1>3, <1>8, <1>9, <1>10
<1>12. \A i \in 1 .. Len(q) : i # k => \E j \in 1 .. Len(r) : Old(j) = i
  <2> SUFFICES ASSUME NEW i \in 1 .. Len(q), i # k PROVE \E j \in 1 .. Len(r) : Old(j) = i
    OBVIOUS
  <2>1. CASE i < k
    BY <1>3, <1>8, <2>1, SMTT(30)
  <2>2. CASE i > k
    <3>1. i - 1 \in 1 .. Len(r) /\ Old(i - 1) = i
      BY <1>3, <1>8, <2>2
    <3> QED BY <3>1
  <2> QED BY <2>1, <2>2
<1>13. \A i, j \in 1 .. Len(q) : q[i] = q[j] => i = j
  BY Entries
<1>14. \A i, j \in 1 .. Len(r) : Old(i) = Old(j) => i = j
  BY <1>3, <1>8
<1> HIDE DEF Old
<1>15. \A i, j \in 1 .. Len(r) : r[i] = r[j] => i = j
  BY <1>11, <1>13, <1>14
<1>16. ASSUME NEW x \in ToSet(r) PROVE x \in ToSet(q) /\ x # q[k]
  <2>1. PICK i \in 1 .. Len(r) : r[i] = x
    BY Entries
  <2>2. Old(i) \in 1 .. Len(q) /\ q[Old(i)] = x /\ Old(i) # k
    BY <1>11, <2>1
  <2> QED BY <2>2, <1>13, Entries
<1>17. ASSUME NEW x \in ToSet(q), x # q[k] PROVE x \in ToSet(r)
  <2>1. PICK i \in 1 .. Len(q) : q[i] = x
    BY Entries
  <2>2. PICK j \in 1 .. Len(r) : Old(j) = i
    BY <1>12, <1>17, <2>1
  <2>3. r[j] = x
    BY <1>11, <2>1, <2>2
  <2> QED BY <2>3, Entries
<1>18. ToSet(r) = ToSet(q) \ {q[k]}
  BY <1>16, <1>17
<1>19. IsInjective(r)
  BY <1>15, Entries
<1> QED BY <1>7, <1>8, <1>9, <1>10, <1>18, <1>19

\* Induction, as a set of naturals that has no least one outside of it.
LEMMA ClosedHoldsAll ==
  ASSUME NEW S, 0 \in S, \A n \in Nat : n \in S => n + 1 \in S
  PROVE  Nat \subseteq S
<1> SUFFICES ASSUME Nat \ S # {} PROVE FALSE
  OBVIOUS
<1>1. PICK R : R = OpToRel(<, Nat)
  OBVIOUS
<1>2. IsWellFoundedOn(R, Nat)
  BY <1>1, NatLessThanWellFounded
<1>3. PICK T : T = Nat \ S
  OBVIOUS
<1>4. T \subseteq Nat /\ T # {}
  BY <1>3
<1>5. PICK x \in T : \A y \in T : ~(<<y, x>> \in R)
  BY <1>2, <1>4, WFMin
<1>6. x \in Nat /\ x # 0
  BY <1>3
<1>7. x - 1 \in Nat /\ (x - 1) + 1 = x
  BY <1>6
<1>8. x - 1 \in T
  BY <1>3, <1>7
<1>9. <<x - 1, x>> \in R
  BY <1>1, <1>6, <1>7 DEF OpToRel
<1> QED BY <1>5, <1>8, <1>9

\* The recursion of Removed, for a table q.
Keeping(q, c, f, k) ==
  IF k = 0 THEN << >> ELSE IF q[k] = c THEN f[k - 1] ELSE Append(f[k - 1], q[k])

LEMMA KeepingExists ==
  ASSUME NEW q, NEW c, NEW n \in Nat
  PROVE  \E f : f = [k \in 0 .. n |-> Keeping(q, c, f, k)]
<1> DEFINE T == {m \in Nat : \E f : f = [k \in 0 .. m |-> Keeping(q, c, f, k)]}
<1>1. 0 \in T
  <2> DEFINE f == [k \in 0 .. 0 |-> << >>]
  <2>1. f = [k \in 0 .. 0 |-> Keeping(q, c, f, k)]
    BY DEF Keeping
  <2> QED BY <2>1
<1>2. ASSUME NEW m \in Nat, m \in T PROVE m + 1 \in T
  <2>1. PICK f : f = [k \in 0 .. m |-> Keeping(q, c, f, k)]
    BY <1>2
  <2> DEFINE g == [k \in 0 .. m + 1 |-> IF k <= m THEN f[k] ELSE Keeping(q, c, f, m + 1)]
  <2>2. ASSUME NEW k \in 0 .. m + 1 PROVE g[k] = Keeping(q, c, g, k)
    <3>1. CASE k = 0
      BY <2>1, <3>1 DEF Keeping
    <3>2. CASE k # 0
      <4>1. k - 1 \in 0 .. m + 1 /\ k - 1 <= m /\ k - 1 \in 0 .. m
        BY <3>2
      <4>2. g[k - 1] = f[k - 1]
        BY <4>1
      <4>3. Keeping(q, c, g, k) = Keeping(q, c, f, k)
        BY <4>2 DEF Keeping
      <4>4. CASE k <= m
        BY <4>3, <4>4, <2>1
      <4>5. CASE k = m + 1
        BY <4>3, <4>5
      <4> QED BY <4>4, <4>5
    <3> QED BY <3>1, <3>2
  <2>3. g = [k \in 0 .. m + 1 |-> Keeping(q, c, g, k)]
    BY <2>2, Zenon
  <2>4. \E h : h = [k \in 0 .. m + 1 |-> Keeping(q, c, h, k)]
    BY <2>3, Zenon
  <2> QED BY <2>4
<1> HIDE DEF T
<1>3. Nat \subseteq T
  BY <1>1, <1>2, ClosedHoldsAll, Zenon
<1> QED BY <1>3 DEF T

\* clients.erase(std::remove(...), clients.end()).
LEMMA EntryRemoved ==
  ASSUME NEW c, clients \in Seq(Clients), IsInjective(clients)
  PROVE  /\ Removed(c) \in Seq(Clients) /\ IsInjective(Removed(c))
         /\ ToSet(Removed(c)) = ToSet(clients) \ {c}
<1>1. PICK q \in Seq(Clients) : q = clients
  BY Zenon
<1>2. Len(q) \in Nat
  OBVIOUS
<1>3. \E f : f = [k \in 0 .. Len(q) |-> Keeping(q, c, f, k)]
  BY <1>2, KeepingExists
<1>4. PICK f : f = CHOOSE g : g = [k \in 0 .. Len(q) |-> Keeping(q, c, g, k)]
  OBVIOUS
<1>5. f = [k \in 0 .. Len(q) |-> Keeping(q, c, f, k)]
  BY <1>3, <1>4, Zenon
<1>6. Removed(c) = f[Len(q)]
  BY <1>1, <1>4, Zenon DEF Removed, Keeping
<1>7. \A i, j \in 1 .. Len(q) : q[i] = q[j] => i = j
  BY <1>1, Entries
<1> DEFINE FirstOf(k) == {q[i] : i \in 1 .. k}
           Good(k) == /\ f[k] \in Seq(Clients) /\ IsInjective(f[k])
                      /\ ToSet(f[k]) = FirstOf(k) \ {c}
           T == {n \in Nat : n <= Len(q) => Good(n)}
<1>8. 0 \in T
  <2>1. f[0] = << >>
    BY <1>2, <1>5 DEF Keeping
  <2>2. FirstOf(0) = {}
    OBVIOUS
  <2> QED BY <2>1, <2>2, NoEntries
<1>9. ASSUME NEW n \in Nat, n \in T PROVE n + 1 \in T
  <2> SUFFICES ASSUME n + 1 <= Len(q) PROVE Good(n + 1)
    OBVIOUS
  <2>1. n \in 0 .. Len(q) /\ n + 1 \in 0 .. Len(q) /\ n + 1 \in 1 .. Len(q) /\ n + 1 # 0 /\ (n + 1) - 1 = n
    BY <1>2
  <2>2. Good(n)
    BY <1>9, <2>1
  <2>3. f[n + 1] = IF q[n + 1] = c THEN f[n] ELSE Append(f[n], q[n + 1])
    <3>1. f[n + 1] = Keeping(q, c, f, n + 1)
      BY <1>5, <2>1, Zenon
    <3> QED BY <3>1, <2>1 DEF Keeping
  <2>4. FirstOf(n + 1) = FirstOf(n) \cup {q[n + 1]}
    <3>1. 1 .. n + 1 = (1 .. n) \cup {n + 1}
      OBVIOUS
    <3> QED BY <3>1, Zenon
  <2>5. PICK x \in Clients : x = q[n + 1]
    BY <2>1
  <2>6. x \notin FirstOf(n)
    <3>1. ASSUME NEW i \in 1 .. n PROVE q[i] # x
      <4>1. i \in 1 .. Len(q) /\ i # n + 1
        BY <2>1
      <4> QED BY <4>1, <2>1, <2>5, <1>7
    <3> QED BY <3>1
  <2> HIDE DEF FirstOf
  <2>7. CASE x = c
    BY <2>2, <2>3, <2>4, <2>5, <2>6, <2>7
  <2>8. CASE x # c
    <3>1. PICK p \in Seq(Clients) : p = f[n]
      BY <2>2
    <3>2. f[n + 1] = Append(p, x) /\ ToSet(p) = FirstOf(n) \ {c} /\ IsInjective(p)
      BY <2>2, <2>3, <2>5, <2>8, <3>1
    <3>3. /\ Append(p, x) \in Seq(Clients)
          /\ ToSet(Append(p, x)) = ToSet(p) \cup {x}
          /\ IsInjective(p) /\ x \notin ToSet(p) => IsInjective(Append(p, x))
      BY EntryAdded
    <3> QED BY <3>2, <3>3, <2>4, <2>5, <2>6, <2>8
  <2> QED BY <2>7, <2>8
<1> HIDE DEF T
<1>10. Nat \subseteq T
  BY <1>8, <1>9, ClosedHoldsAll, Zenon
<1>11. Good(Len(q))
  <2>1. Len(q) \in T /\ Len(q) <= Len(q)
    BY <1>2, <1>10
  <2> HIDE DEF Good
  <2> QED BY <2>1 DEF T
<1>12. FirstOf(Len(q)) = ToSet(q)
  BY Entries
<1> QED BY <1>1, <1>6, <1>11, <1>12

\* poll() and epoll_wait() report each descriptor once.
LEMMA ReportedOnce ==
  ASSUME NEW X, NEW T \in SUBSET X, IsFiniteSet(T)
  PROVE  /\ Cardinality(T) \in Nat
         /\ SetToSeq(T) \in SetToSeqs(T)
         /\ \A q \in SetToSeqs(T) : q \in Seq(X) /\ IsInjective(q) /\ ToSet(q) = T
<1>1. PICK n \in Nat : n = Cardinality(T)
  BY FS_CardinalityType
<1>2. PICK g \in Bijection(1 .. n, T) : TRUE
  BY <1>1, FS_CardinalityType DEF ExistsBijection
<1>3. g \in [1 .. n -> T] /\ IsInjective(g)
  BY <1>2 DEF Bijection, Injection
<1>4. SetToSeq(T) \in [1 .. n -> T] /\ IsInjective(SetToSeq(T))
  <2>1. \E f \in [1 .. n -> T] : IsInjective(f)
    BY <1>3
  <2> QED BY <2>1, <1>1, Zenon DEF SetToSeq
<1>5. SetToSeq(T) \in SetToSeqs(T)
  BY <1>1, <1>4 DEF SetToSeqs, IsInjective
<1>6. ASSUME NEW q \in SetToSeqs(T) PROVE q \in Seq(X) /\ IsInjective(q) /\ ToSet(q) = T
  <2>1. q \in [1 .. n -> T] /\ \A i, j \in 1 .. n : i # j => q[i] # q[j]
    BY <1>1 DEF SetToSeqs
  <2>2. q \in Seq(X) /\ Len(q) = n
    BY <2>1
  <2>3. IsInjective(q)
    BY <2>1 DEF IsInjective
  <2>4. q \in Injection(1 .. n, T)
    BY <2>1, <2>3 DEF Injection
  <2>5. Cardinality(1 .. n) = n
    BY FS_Interval
  <2>6. q \in Surjection(1 .. n, T)
    BY <2>4, <2>5, <1>1, FS_Injection
  <2>7. \A x \in T : \E i \in 1 .. n : q[i] = x
    BY <2>6 DEF Surjection
  <2>8. ToSet(q) = T
    <3>1. \A x : x \in ToSet(q) <=> \E i \in 1 .. n : q[i] = x
      BY <2>2, Entries
    <3>2. ASSUME NEW x \in ToSet(q) PROVE x \in T
      <4>1. PICK i \in 1 .. n : q[i] = x
        BY <3>1, <3>2
      <4> QED BY <4>1, <2>1
    <3>3. ASSUME NEW x \in T PROVE x \in ToSet(q)
      BY <3>1, <3>3, <2>7
    <3> QED BY <3>2, <3>3
  <2> QED BY <2>2, <2>3, <2>8
<1> QED BY <1>1, <1>5, <1>6

-----------------------------------------------------------------------------
\* The table of the echo servers.

\* The parts of the invariant in terms of sets.
LEMMA TableIs ==
  ASSUME ETypeOK
  PROVE  TableExact <=>
           /\ IsInjective(clients)
           /\ \A c \in Clients : c \in ToSet(clients) <=>
                client[c] \in {"idle", "waits", "leaves", "closed", "reset"} /\ c \notin ToSet(backlog)
<1>1. clients \in Seq(Clients) /\ backlog \in Seq(Clients)
  BY DEF ETypeOK
<1>2. \A c : c \in ToSet(clients) <=> Contains(clients, c)
  BY <1>1, Entries
<1>3. \A c : c \in ToSet(backlog) <=> Contains(backlog, c)
  BY <1>1, Entries
<1> QED BY <1>2, <1>3 DEF TableExact

LEMMA TableNext ==
  ASSUME ETypeOK', IsInjective(clients'),
         \A c \in Clients : c \in ToSet(clients') <=>
           client'[c] \in {"idle", "waits", "leaves", "closed", "reset"} /\ c \notin ToSet(backlog')
  PROVE  TableExact'
<1>1. clients' \in Seq(Clients) /\ backlog' \in Seq(Clients)
  BY DEF ETypeOK
<1>2. \A c : c \in ToSet(clients') <=> Contains(clients', c)
  BY <1>1, Entries
<1>3. \A c : c \in ToSet(backlog') <=> Contains(backlog', c)
  BY <1>1, Entries
<1> QED BY <1>2, <1>3 DEF TableExact

LEMMA EchoInit == EInit => EchoInv
<1> SUFFICES ASSUME EInit PROVE EchoInv
  OBVIOUS
<1> USE DEF EInit
<1>1. ToSet(backlog) = {} /\ ToSet(clients) = {} /\ ToSet(events) = {} /\ backlog \in Seq(Clients)
      /\ clients \in Seq(Clients) /\ events \in Seq({0} \cup Clients) /\ IsInjective(clients) /\ IsInjective(backlog)
  BY NoEntries
<1>2. ETypeOK
  BY <1>1 DEF ETypeOK
<1>3. TableExact
  BY <1>1, <1>2, TableIs
<1> QED BY <1>1, <1>2, <1>3 DEF EchoInv, BacklogExact, DueWaits, Reports, Walk, RoundExact

\* Nothing the clients do changes the table or the round.
LEMMA ClientEcho ==
  ASSUME EchoInv, NEW c \in Clients, ClientConnect(c) \/ ClientWrite(c) \/ ClientClose(c)
  PROVE  EchoInv'
<1>1. ETypeOK /\ BacklogExact /\ DueWaits /\ Reports /\ Walk /\ TableExact
      /\ (epc = "wait" => due = {} \/ cut)
  BY DEF EchoInv, RoundExact
<1>2. UNCHANGED <<kind, clients, idle, epc, events, nready, it, due, cut>>
  BY DEF ClientConnect, ClientWrite, ClientClose
<1>3. PICK s \in {"idle", "waits", "leaves", "closed", "reset"} : client' = [client EXCEPT ![c] = s]
  BY DEF ClientConnect, ClientWrite, ClientClose
<1>4. /\ client \in [Clients -> {"off", "idle", "waits", "leaves", "closed", "reset", "dropped", "gone"}]
      /\ clients \in Seq(Clients) /\ backlog \in Seq(Clients)
  BY <1>1 DEF ETypeOK
<1>5. /\ IsInjective(clients)
      /\ \A d \in Clients : d \in ToSet(clients) <=>
           client[d] \in {"idle", "waits", "leaves", "closed", "reset"} /\ d \notin ToSet(backlog)
  BY <1>1, TableIs
<1>6. /\ client[c] \in {"off", "idle", "waits"} /\ client'[c] = s
      /\ (client[c] = "waits" => s \in {"leaves", "reset"})
      /\ \A d \in Clients \ {c} : client'[d] = client[d]
  <2>1. client[c] \in {"off", "idle", "waits"}
    BY DEF ClientConnect, ClientWrite, ClientClose
  <2>2. client'[c] = s /\ \A d \in Clients \ {c} : client'[d] = client[d]
    BY <1>3, <1>4
  <2>3. ASSUME client[c] = "waits" PROVE client'[c] \in {"leaves", "reset"}
    <3>1. client' = [client EXCEPT ![c] = "leaves"] \/ client' = [client EXCEPT ![c] = "reset"]
      BY <2>3 DEF ClientConnect, ClientWrite, ClientClose
    <3> QED BY <3>1, <1>4
  <2> QED BY <2>1, <2>2, <2>3
<1>7. /\ backlog' \in Seq(Clients) /\ IsInjective(backlog')
      /\ (backlog # << >> => backlog' # << >>)
      /\ (client[c] # "off" => ToSet(backlog') = ToSet(backlog))
      /\ (client[c] = "off" => ToSet(backlog') = ToSet(backlog) \cup {c})
  <2>1. CASE ClientConnect(c)
    <3>1. backlog' = Append(backlog, c) /\ client[c] = "off"
      BY <2>1 DEF ClientConnect
    <3>2. c \notin ToSet(backlog)
      BY <3>1, <1>1 DEF BacklogExact
    <3>3. /\ Append(backlog, c) \in Seq(Clients) /\ ToSet(Append(backlog, c)) = ToSet(backlog) \cup {c}
          /\ Len(Append(backlog, c)) = Len(backlog) + 1
          /\ IsInjective(backlog) /\ c \notin ToSet(backlog) => IsInjective(Append(backlog, c))
      BY <1>4, EntryAdded
    <3>4. Append(backlog, c) # << >>
      BY <1>4
    <3> QED BY <3>1, <3>2, <3>3, <3>4, <1>1 DEF BacklogExact
  <2>2. CASE ClientWrite(c) \/ ClientClose(c)
    <3>1. backlog' = backlog /\ client[c] # "off"
      BY <2>2 DEF ClientWrite, ClientClose
    <3> QED BY <3>1, <1>4, <1>1 DEF BacklogExact
  <2> QED BY <2>1, <2>2
<1>8. ETypeOK'
  BY <1>1, <1>2, <1>3, <1>7 DEF ETypeOK
<1>9. BacklogExact'
  <2>1. \A d \in ToSet(backlog) : d \in Clients /\ client[d] \in {"idle", "waits", "leaves", "closed", "reset"}
    BY <1>1, <1>4, Entries DEF BacklogExact
  <2> QED BY <2>1, <1>6, <1>7 DEF BacklogExact
<1>10. TableExact'
  <2>1. ASSUME NEW d \in Clients
        PROVE  d \in ToSet(clients) <=>
                 client'[d] \in {"idle", "waits", "leaves", "closed", "reset"} /\ d \notin ToSet(backlog')
    <3>1. CASE d = c
      BY <3>1, <1>5, <1>6, <1>7
    <3>2. CASE d # c
      BY <3>2, <1>5, <1>6, <1>7
    <3> QED BY <3>1, <3>2
  <2>2. IsInjective(clients') /\ \A d \in Clients : d \in ToSet(clients') <=>
           client'[d] \in {"idle", "waits", "leaves", "closed", "reset"} /\ d \notin ToSet(backlog')
    BY <2>1, <1>2, <1>5
  <2> QED BY <2>2, <1>8, TableNext
<1>11. DueWaits'
  BY <1>1, <1>2, <1>6 DEF DueWaits, ETypeOK
<1>12. Reports' /\ Walk'
  BY <1>1, <1>2, <1>7 DEF Reports, Walk
<1> QED BY <1>1, <1>2, <1>8, <1>9, <1>10, <1>11, <1>12 DEF EchoInv, RoundExact

\* A client that was reported is in the table and not in the backlog.
LEMMA DueIs ==
  ASSUME EchoInv
  PROVE  /\ clients \in Seq(Clients) /\ backlog \in Seq(Clients) /\ events \in Seq({0} \cup Clients)
         /\ ToSet(clients) \subseteq Clients /\ ToSet(backlog) \subseteq Clients
         /\ IsInjective(clients) /\ IsInjective(backlog)
         /\ \A c \in Clients : c \in ToSet(clients) <=>
              client[c] \in {"idle", "waits", "leaves", "closed", "reset"} /\ c \notin ToSet(backlog)
         /\ \A c \in ToSet(backlog) : client[c] \in {"idle", "waits", "leaves", "closed", "reset"}
         /\ \A c \in due : /\ c \in Clients /\ c # 0 /\ c \in ToSet(clients) /\ c \notin ToSet(backlog)
                           /\ client[c] \in {"waits", "leaves", "closed", "reset"}
<1>1. ETypeOK /\ BacklogExact /\ DueWaits /\ TableExact
  BY DEF EchoInv, RoundExact
<1>2. clients \in Seq(Clients) /\ backlog \in Seq(Clients) /\ due \subseteq Clients /\ events \in Seq({0} \cup Clients)
  BY <1>1 DEF ETypeOK
<1>3. ToSet(clients) \subseteq Clients /\ ToSet(backlog) \subseteq Clients
  BY <1>2, Entries
<1>4. /\ IsInjective(clients)
      /\ \A c \in Clients : c \in ToSet(clients) <=>
              client[c] \in {"idle", "waits", "leaves", "closed", "reset"} /\ c \notin ToSet(backlog)
  BY <1>1, TableIs
<1> QED BY <1>1, <1>2, <1>3, <1>4, EchoAssumption DEF BacklogExact, DueWaits

\* What an event of the listening socket does, whether accept4 finds a
\* descriptor or not.
LEMMA ListenIs ==
  ASSUME EchoInv, backlog # << >>, Accepts \/ Overflows, due' = due
  PROVE  /\ client' \in [Clients -> {"off", "idle", "waits", "leaves", "closed", "reset", "dropped", "gone"}]
         /\ backlog' \in Seq(Clients) /\ clients' \in Seq(Clients) /\ IsInjective(clients')
         /\ BacklogExact' /\ DueWaits'
         /\ \A c \in Clients : c \in ToSet(clients') <=>
              client'[c] \in {"idle", "waits", "leaves", "closed", "reset"} /\ c \notin ToSet(backlog')
<1>1. /\ clients \in Seq(Clients) /\ backlog \in Seq(Clients)
      /\ ToSet(clients) \subseteq Clients /\ ToSet(backlog) \subseteq Clients
      /\ IsInjective(clients) /\ IsInjective(backlog)
      /\ \A c \in Clients : c \in ToSet(clients) <=>
              client[c] \in {"idle", "waits", "leaves", "closed", "reset"} /\ c \notin ToSet(backlog)
      /\ \A c \in ToSet(backlog) : client[c] \in {"idle", "waits", "leaves", "closed", "reset"}
      /\ \A c \in due : /\ c \in Clients /\ c \in ToSet(clients) /\ c \notin ToSet(backlog)
                        /\ client[c] \in {"waits", "leaves", "closed", "reset"}
  BY DueIs
<1>2. client \in [Clients -> {"off", "idle", "waits", "leaves", "closed", "reset", "dropped", "gone"}]
  BY DEF EchoInv, ETypeOK
<1>3. PICK h : h = Head(backlog)
  OBVIOUS
<1>4. /\ h \in ToSet(backlog) /\ h \in Clients /\ Tail(backlog) \in Seq(Clients)
      /\ IsInjective(Tail(backlog)) /\ ToSet(Tail(backlog)) = ToSet(backlog) \ {h}
  BY <1>1, <1>3, HeadTaken
<1>5. h \notin ToSet(clients) /\ client[h] \in {"idle", "waits", "leaves", "closed", "reset"}
  BY <1>1, <1>4
<1>6. CASE Accepts
  <2>1. clients' = Append(clients, h) /\ backlog' = Tail(backlog) /\ client' = client
    BY <1>3, <1>6 DEF Accepts
  <2>2. /\ Append(clients, h) \in Seq(Clients) /\ ToSet(Append(clients, h)) = ToSet(clients) \cup {h}
        /\ IsInjective(clients) /\ h \notin ToSet(clients) => IsInjective(Append(clients, h))
    BY <1>1, <1>4, EntryAdded
  <2>3. ToSet(clients') = ToSet(clients) \cup {h} /\ ToSet(backlog') = ToSet(backlog) \ {h}
    BY <2>1, <2>2, <1>4
  <2>4. BacklogExact' /\ DueWaits'
    BY <2>1, <2>3, <1>1, <1>4 DEF BacklogExact, DueWaits
  <2>5. \A c \in Clients : c \in ToSet(clients') <=>
              client'[c] \in {"idle", "waits", "leaves", "closed", "reset"} /\ c \notin ToSet(backlog')
    BY <2>1, <2>3, <1>1, <1>4, <1>5
  <2> QED BY <2>1, <2>2, <2>4, <2>5, <1>1, <1>2, <1>4, <1>5
<1>7. CASE Overflows /\ idle
  <2>1. clients' = clients /\ backlog' = Tail(backlog) /\ client' = [client EXCEPT ![h] = "dropped"]
    BY <1>3, <1>7 DEF Overflows
  <2>2. /\ client' \in [Clients -> {"off", "idle", "waits", "leaves", "closed", "reset", "dropped", "gone"}]
        /\ client'[h] = "dropped" /\ \A c \in Clients \ {h} : client'[c] = client[c]
    BY <2>1, <1>2, <1>4
  <2>3. ToSet(clients') = ToSet(clients) /\ ToSet(backlog') = ToSet(backlog) \ {h}
    BY <2>1, <1>4
  <2>4. BacklogExact' /\ DueWaits'
    BY <2>1, <2>2, <2>3, <1>1, <1>4 DEF BacklogExact, DueWaits
  <2>5. \A c \in Clients : c \in ToSet(clients') <=>
              client'[c] \in {"idle", "waits", "leaves", "closed", "reset"} /\ c \notin ToSet(backlog')
    BY <2>2, <2>3, <1>1, <1>4, <1>5
  <2> QED BY <2>1, <2>2, <2>4, <2>5, <1>1, <1>4
<1>8. CASE Overflows /\ ~idle
  <2>1. clients' = clients /\ backlog' = backlog /\ client' = client
    BY <1>8 DEF Overflows
  <2> QED BY <2>1, <1>1, <1>2 DEF BacklogExact, DueWaits
<1> QED BY <1>6, <1>7, <1>8

\* What serving a reported client does, if the table left behind lacks it alone.
LEMMA ServedIs ==
  ASSUME EchoInv, NEW c \in due, NEW rest \in Seq(Clients), IsInjective(rest),
         ToSet(rest) = ToSet(clients) \ {c}, Served(c, rest), backlog' = backlog
  PROVE  /\ client' \in [Clients -> {"off", "idle", "waits", "leaves", "closed", "reset", "dropped", "gone"}]
         /\ clients' \in Seq(Clients) /\ IsInjective(clients')
         /\ BacklogExact' /\ DueWaits'
         /\ \A d \in Clients : d \in ToSet(clients') <=>
              client'[d] \in {"idle", "waits", "leaves", "closed", "reset"} /\ d \notin ToSet(backlog')
<1>1. /\ clients \in Seq(Clients)
      /\ ToSet(clients) \subseteq Clients /\ ToSet(backlog) \subseteq Clients
      /\ IsInjective(clients) /\ IsInjective(backlog)
      /\ \A d \in Clients : d \in ToSet(clients) <=>
              client[d] \in {"idle", "waits", "leaves", "closed", "reset"} /\ d \notin ToSet(backlog)
      /\ \A d \in ToSet(backlog) : client[d] \in {"idle", "waits", "leaves", "closed", "reset"}
      /\ \A d \in due : /\ d \in Clients /\ d \in ToSet(clients) /\ d \notin ToSet(backlog)
                        /\ client[d] \in {"waits", "leaves", "closed", "reset"}
  BY DueIs
<1>2. client \in [Clients -> {"off", "idle", "waits", "leaves", "closed", "reset", "dropped", "gone"}]
  BY DEF EchoInv, ETypeOK
<1>3. c \in Clients /\ c \in ToSet(clients) /\ c \notin ToSet(backlog) /\ client[c] \in {"waits", "leaves", "closed", "reset"}
  BY <1>1
<1>4. due' = due \ {c}
  BY DEF Served
<1>5. CASE client[c] = "waits"
  <2>1. client' = [client EXCEPT ![c] = "idle"] /\ clients' = clients
    BY <1>5 DEF Served
  <2>2. /\ client' \in [Clients -> {"off", "idle", "waits", "leaves", "closed", "reset", "dropped", "gone"}]
        /\ client'[c] = "idle" /\ \A d \in Clients \ {c} : client'[d] = client[d]
    BY <2>1, <1>2, <1>3
  <2>3. BacklogExact' /\ DueWaits'
    BY <2>1, <2>2, <1>1, <1>3, <1>4 DEF BacklogExact, DueWaits
  <2>4. \A d \in Clients : d \in ToSet(clients') <=>
              client'[d] \in {"idle", "waits", "leaves", "closed", "reset"} /\ d \notin ToSet(backlog')
    BY <2>1, <2>2, <1>1, <1>3
  <2> QED BY <2>1, <2>2, <2>3, <2>4, <1>1
<1>7. CASE client[c] = "leaves"
  <2>1. PICK e \in {"closed", "reset"} : client' = [client EXCEPT ![c] = e] /\ clients' = clients
    BY <1>7 DEF Served
  <2>2. /\ client' \in [Clients -> {"off", "idle", "waits", "leaves", "closed", "reset", "dropped", "gone"}]
        /\ client'[c] = e /\ \A d \in Clients \ {c} : client'[d] = client[d]
    BY <2>1, <1>2, <1>3
  <2>3. BacklogExact' /\ DueWaits'
    BY <2>1, <2>2, <1>1, <1>3, <1>4 DEF BacklogExact, DueWaits
  <2>4. \A d \in Clients : d \in ToSet(clients') <=>
              client'[d] \in {"idle", "waits", "leaves", "closed", "reset"} /\ d \notin ToSet(backlog')
    BY <2>1, <2>2, <1>1, <1>3
  <2> QED BY <2>1, <2>2, <2>3, <2>4, <1>1
<1>8. client[c] # "reset"
  BY DEF Served
<1>6. CASE client[c] = "closed"
  <2>1. client' = [client EXCEPT ![c] = "gone"] /\ clients' = rest
    BY <1>6 DEF Served
  <2>2. /\ client' \in [Clients -> {"off", "idle", "waits", "leaves", "closed", "reset", "dropped", "gone"}]
        /\ client'[c] = "gone" /\ \A d \in Clients \ {c} : client'[d] = client[d]
    BY <2>1, <1>2, <1>3
  <2>3. ToSet(clients') = ToSet(clients) \ {c}
    BY <2>1
  <2>4. BacklogExact' /\ DueWaits'
    BY <2>2, <2>3, <1>1, <1>3, <1>4 DEF BacklogExact, DueWaits
  <2>5. \A d \in Clients : d \in ToSet(clients') <=>
              client'[d] \in {"idle", "waits", "leaves", "closed", "reset"} /\ d \notin ToSet(backlog')
    BY <2>2, <2>3, <1>1, <1>3
  <2> QED BY <2>1, <2>2, <2>4, <2>5
<1> QED BY <1>3, <1>5, <1>6, <1>7, <1>8

\* A round begins: what is due is what is reported.
LEMMA WaitEcho ==
  ASSUME EchoInv, Wait
  PROVE  EchoInv'
<1>1. /\ clients \in Seq(Clients) /\ backlog \in Seq(Clients) /\ ToSet(clients) \subseteq Clients
      /\ \A c \in Clients : c # 0
  BY DueIs, EchoAssumption
<1>2. PICK T : T = Ready
  OBVIOUS
<1>3. T \subseteq {0} \cup Clients /\ 0 \in {0} \cup Clients
  BY <1>1, <1>2 DEF Ready, ReadyClients
<1>4. IsFiniteSet(T)
  <2>1. IsFiniteSet(Clients \cup {0})
    BY EchoAssumption, FS_AddElement
  <2>2. T \in SUBSET (Clients \cup {0})
    BY <1>3
  <2> QED BY <2>1, <2>2, FS_Subset
<1>5. /\ Cardinality(T) \in Nat
      /\ SetToSeq(T) \in SetToSeqs(T)
      /\ \A q \in SetToSeqs(T) : q \in Seq({0} \cup Clients) /\ IsInjective(q) /\ ToSet(q) = T
  BY <1>3, <1>4, ReportedOnce
<1>6. /\ events' \in SetToSeqs(T) /\ nready' = Cardinality(T) /\ due' = T \ {0}
      /\ epc' \in {"listen", "events"} /\ (epc' = "listen" => it' = 1) /\ it' \in Nat
      /\ UNCHANGED <<kind, client, backlog, clients, idle>>
  BY <1>2, <1>5 DEF Wait
<1>7. events' \in Seq({0} \cup Clients) /\ IsInjective(events') /\ ToSet(events') = T
  BY <1>5, <1>6
<1>8. ETypeOK /\ BacklogExact /\ TableExact
  BY DEF EchoInv, RoundExact
<1>9. ETypeOK'
  BY <1>3, <1>5, <1>6, <1>7, <1>8 DEF ETypeOK
<1>10. BacklogExact' /\ TableExact'
  BY <1>6, <1>8 DEF BacklogExact, TableExact
<1>11. DueWaits'
  <2>1. \A c \in T \ {0} : c \in ToSet(clients) /\ client[c] \in {"waits", "leaves", "closed", "reset"}
    BY <1>2 DEF Ready, ReadyClients
  <2> QED BY <2>1, <1>6 DEF DueWaits
<1>12. 0 \in T => backlog # << >>
  BY <1>1, <1>2 DEF Ready, ReadyClients
<1>13. Reports' /\ Walk'
  BY <1>6, <1>7, <1>12 DEF Reports, Walk
<1> QED BY <1>6, <1>9, <1>10, <1>11, <1>13 DEF EchoInv, RoundExact

\* The listening socket of the poll server: a client accepted now was not reported,
\* so the walk passes over it.
LEMMA PollListenEcho ==
  ASSUME EchoInv, PollListen
  PROVE  EchoInv'
<1>1. /\ clients \in Seq(Clients) /\ backlog \in Seq(Clients) /\ events \in Seq({0} \cup Clients)
      /\ IsInjective(clients)
      /\ \A c \in due : c \in Clients /\ c # 0 /\ c \in ToSet(clients) /\ c \notin ToSet(backlog)
  BY DueIs
<1>2. ETypeOK /\ BacklogExact /\ DueWaits /\ Reports /\ TableExact
  BY DEF EchoInv, RoundExact
<1>3. /\ epc = "listen" /\ UNCHANGED <<kind, events, it, due>>
  BY DEF PollListen
<1>4. /\ due = ToSet(events) \ {0} /\ (0 \in ToSet(events) => backlog # << >>)
      /\ nready = Cardinality(ToSet(events)) /\ it = 1
  BY <1>2, <1>3 DEF Reports
<1>5. 0 \in ToSet(events) <=> Contains(events, 0)
  BY <1>1, Entries
<1>6. nready \in Nat /\ IsFiniteSet(due)
  <2>1. due \in SUBSET Clients
    BY <1>1
  <2> QED BY <2>1, <1>2, EchoAssumption, FS_Subset DEF ETypeOK
<1>7. \A k \in 1 .. Len(clients) : clients[k] \in due <=> clients[k] \in ToSet(events)
  <2> SUFFICES ASSUME NEW k \in 1 .. Len(clients) PROVE clients[k] \in due <=> clients[k] \in ToSet(events)
    OBVIOUS
  <2>1. clients[k] \in Clients
    BY <1>1
  <2>2. clients[k] # 0
    BY <2>1, EchoAssumption
  <2> QED BY <2>2, <1>4
<1>8. CASE ~Contains(events, 0)
  <2>1. epc' = "walk" /\ UNCHANGED <<client, backlog, clients, idle, nready, cut>>
    BY <1>8 DEF PollListen
  <2>2. due = ToSet(events)
    BY <1>4, <1>5, <1>8
  <2>3. nready' = Cardinality(due') /\ it' = 1
    BY <2>1, <2>2, <1>3, <1>4
  <2>4. Len(clients) \in Nat
    BY <1>1
  <2>5. Walk'
    BY <2>1, <2>3, <2>4, <1>3, <1>4, <1>7 DEF Walk
  <2>6. ETypeOK' /\ BacklogExact' /\ DueWaits' /\ TableExact' /\ Reports'
    BY <2>1, <1>2, <1>3 DEF ETypeOK, BacklogExact, DueWaits, TableExact, Reports
  <2> QED BY <2>1, <2>5, <2>6 DEF EchoInv, RoundExact
<1>9. CASE AcceptExits /\ Contains(events, 0) /\ UNCHANGED <<nready, cut>>
  <2>1. epc' = "exit" /\ UNCHANGED <<client, backlog, clients, idle, nready, cut>>
    BY <1>9 DEF AcceptExits
  <2>2. ETypeOK' /\ BacklogExact' /\ DueWaits' /\ TableExact' /\ Reports' /\ Walk'
    BY <2>1, <1>2, <1>3 DEF ETypeOK, BacklogExact, DueWaits, TableExact, Reports, Walk
  <2> QED BY <2>1, <2>2 DEF EchoInv, RoundExact
<1>10. CASE /\ Contains(events, 0)
            /\ \/ Accepts /\ nready' = nready - 1 /\ epc' = (IF nready = 1 THEN "wait" ELSE "walk") /\ cut' = cut
               \/ Overflows /\ epc' = "wait" /\ cut' = TRUE /\ nready' = nready
  <2>1. Accepts \/ Overflows
    BY <1>10
  <2>2. backlog # << >>
    BY <1>4, <1>5, <1>10
  <2>3. /\ client' \in [Clients -> {"off", "idle", "waits", "leaves", "closed", "reset", "dropped", "gone"}]
        /\ backlog' \in Seq(Clients) /\ clients' \in Seq(Clients) /\ IsInjective(clients')
        /\ BacklogExact' /\ DueWaits'
        /\ \A c \in Clients : c \in ToSet(clients') <=>
             client'[c] \in {"idle", "waits", "leaves", "closed", "reset"} /\ c \notin ToSet(backlog')
    BY <2>1, <2>2, <1>3, ListenIs
  <2>4. nready = Cardinality(due) + 1 /\ Cardinality(due) \in Nat
    <3>1. 0 \notin due /\ ToSet(events) = due \cup {0}
      BY <1>4, <1>5, <1>10
    <3>2. Cardinality(due) \in Nat
      BY <1>6, FS_CardinalityType
    <3>3. Cardinality(due \cup {0}) = Cardinality(due) + 1
      BY <3>1, <1>6, FS_AddElement
    <3> QED BY <3>1, <3>2, <3>3, <1>4
  <2>5. \/ Accepts /\ nready' = nready - 1 /\ epc' = (IF nready = 1 THEN "wait" ELSE "walk") /\ cut' = cut
        \/ Overflows /\ epc' = "wait" /\ cut' = TRUE /\ nready' = nready
    BY <1>10
  <2>6. nready' \in Nat /\ epc' \in {"wait", "walk"}
    BY <2>4, <2>5, <1>6
  <2>7. ETypeOK'
    BY <2>3, <2>6, <1>2, <1>3 DEF ETypeOK
  <2>8. TableExact'
    BY <2>3, <2>7, TableNext
  <2>9. Reports'
    BY <2>6 DEF Reports
  <2>10. CASE Overflows /\ epc' = "wait" /\ cut' = TRUE
    BY <2>3, <2>7, <2>8, <2>9, <2>10 DEF EchoInv, RoundExact, Walk
  <2>11. CASE Accepts /\ nready' = nready - 1 /\ epc' = (IF nready = 1 THEN "wait" ELSE "walk") /\ cut' = cut
    <3>1. PICK h : h = Head(backlog)
      OBVIOUS
    <3>2. h \in ToSet(backlog) /\ h \in Clients
      BY <3>1, <2>2, <1>1, HeadTaken
    <3>3. clients' = Append(clients, h)
      BY <3>1, <2>11 DEF Accepts
    <3>4. /\ Len(clients') = Len(clients) + 1 /\ clients'[Len(clients) + 1] = h
          /\ \A i \in 1 .. Len(clients) : clients'[i] = clients[i]
      BY <3>2, <3>3, <1>1, EntryAdded
    <3>5. h \notin due /\ h \notin ToSet(events)
      BY <3>2, <1>1, <1>4, EchoAssumption
    <3>6. nready' = Cardinality(due) /\ (epc' = "wait" => Cardinality(due) = 0)
      BY <2>4, <2>11, <1>6
    <3>7. epc' = "wait" => due = {}
      BY <3>6, <1>6, FS_EmptySet
    <3>8. Len(clients) \in Nat
      BY <1>1
    <3>9. ASSUME NEW k \in 1 .. Len(clients')
          PROVE  clients'[k] \in due <=> k >= 1 /\ clients'[k] \in ToSet(events)
      <4>1. CASE k \in 1 .. Len(clients)
        BY <4>1, <3>4, <1>7
      <4>2. CASE k = Len(clients) + 1
        BY <4>2, <3>4, <3>5
      <4> QED BY <4>1, <4>2, <3>4, <3>8
    <3>10. Walk'
      BY <3>6, <3>9, <1>3, <1>4 DEF Walk
    <3> QED BY <2>3, <2>7, <2>8, <2>9, <3>7, <3>10, <1>3 DEF EchoInv, RoundExact
  <2> QED BY <2>5, <2>10, <2>11
<1> QED BY <1>8, <1>9, <1>10 DEF PollListen

\* A turn of the walk: erasing the entry the iterator is at moves the next one there.
LEMMA PollWalkEcho ==
  ASSUME EchoInv, PollWalk
  PROVE  EchoInv'
<1>1. /\ clients \in Seq(Clients) /\ events \in Seq({0} \cup Clients)
      /\ IsInjective(clients)
      /\ \A c \in due : c \in Clients /\ c \in ToSet(clients) /\ client[c] \in {"waits", "leaves", "closed", "reset"}
  BY DueIs
<1>2. ETypeOK /\ BacklogExact /\ DueWaits /\ TableExact /\ Walk
  BY DEF EchoInv, RoundExact
<1>3. epc = "walk" /\ UNCHANGED <<kind, backlog, idle, events, cut>>
  BY DEF PollWalk
<1>4. /\ nready = Cardinality(due) /\ it >= 1 /\ it \in Nat /\ nready \in Nat
      /\ \A k \in 1 .. Len(clients) : clients[k] \in due <=> k >= it /\ clients[k] \in ToSet(events)
  BY <1>2, <1>3 DEF Walk, ETypeOK
<1>5. IsFiniteSet(due) /\ Len(clients) \in Nat
  <2>1. due \in SUBSET Clients
    BY <1>1
  <2>2. IsFiniteSet(due)
    BY <2>1, EchoAssumption, FS_Subset
  <2>3. Len(clients) \in Nat
    BY <1>1
  <2> QED BY <2>2, <2>3
<1>6. CASE it > Len(clients) \/ nready = 0
  <2>1. epc' = "wait" /\ UNCHANGED <<client, clients, nready, it, due>>
    BY <1>4, <1>5, <1>6 DEF PollWalk
  <2>2. due = {}
    <3>1. CASE nready = 0
      BY <3>1, <1>4, <1>5, FS_EmptySet
    <3>2. CASE it > Len(clients)
      <4> SUFFICES ASSUME NEW c \in due PROVE FALSE
        OBVIOUS
      <4>1. PICK k \in 1 .. Len(clients) : clients[k] = c
        BY <1>1, Entries
      <4>2. k >= it
        BY <4>1, <1>4
      <4> QED BY <4>2, <3>2, <1>4, <1>5
    <3> QED BY <3>1, <3>2, <1>6
  <2>3. ETypeOK' /\ BacklogExact' /\ DueWaits' /\ TableExact' /\ Reports' /\ Walk'
    BY <2>1, <1>2, <1>3 DEF ETypeOK, BacklogExact, DueWaits, TableExact, Reports, Walk
  <2> QED BY <2>1, <2>2, <2>3 DEF EchoInv, RoundExact
<1>7. CASE it <= Len(clients) /\ nready > 0
  <2>1. PICK c : c = clients[it]
    OBVIOUS
  <2>2. it \in 1 .. Len(clients) /\ c \in Clients
    <3>1. it \in 1 .. Len(clients)
      BY <1>4, <1>5, <1>7
    <3> QED BY <3>1, <2>1, <1>1
  <2>3. IF Contains(events, c)
        THEN \/ Served(c, RemoveAt(clients, it)) /\ nready' = nready - 1 /\ it' = NextIt(c)
             \/ ReadExits(c) /\ UNCHANGED <<nready, it>>
        ELSE it' = it + 1 /\ UNCHANGED <<epc, client, clients, nready, due>>
    BY <2>1, <1>4, <1>5, <1>7 DEF PollWalk
  <2>4. c \in ToSet(events) <=> Contains(events, c)
    BY <1>1, Entries
  <2>5. CASE ~Contains(events, c)
    <3>1. it' = it + 1 /\ UNCHANGED <<client, clients, nready, due, epc>>
      BY <2>3, <2>5
    <3>2. c \notin ToSet(events)
      BY <2>4, <2>5
    <3>3. ASSUME NEW k \in 1 .. Len(clients)
          PROVE  clients[k] \in due <=> k >= it + 1 /\ clients[k] \in ToSet(events)
      <4>1. CASE k = it
        <5>1. clients[k] = c /\ ~(k >= it + 1)
          BY <4>1, <2>1, <1>4
        <5> QED BY <5>1, <3>2, <1>4
      <4>2. CASE k # it
        <5>1. k >= it <=> k >= it + 1
          BY <4>2, <1>4
        <5> QED BY <5>1, <1>4
      <4> QED BY <4>1, <4>2
    <3>4. Walk'
      BY <3>1, <3>3, <1>3, <1>4 DEF Walk
    <3>5. ETypeOK' /\ BacklogExact' /\ DueWaits' /\ TableExact' /\ Reports'
      BY <3>1, <1>2, <1>3 DEF ETypeOK, BacklogExact, DueWaits, TableExact, Reports
    <3> QED BY <3>1, <3>4, <3>5, <1>3 DEF EchoInv, RoundExact
  <2>7. CASE ReadExits(c) /\ UNCHANGED <<nready, it>>
    <3>1. epc' = "exit" /\ UNCHANGED <<client, clients, due, nready, it>>
      BY <2>7 DEF ReadExits
    <3>2. ETypeOK' /\ BacklogExact' /\ DueWaits' /\ TableExact' /\ Reports' /\ Walk'
      BY <3>1, <1>2, <1>3 DEF ETypeOK, BacklogExact, DueWaits, TableExact, Reports, Walk
    <3> QED BY <3>1, <3>2 DEF EchoInv, RoundExact
  <2>6. CASE /\ Contains(events, c)
             /\ Served(c, RemoveAt(clients, it)) /\ nready' = nready - 1 /\ it' = NextIt(c)
    <3>1. Served(c, RemoveAt(clients, it)) /\ nready' = nready - 1 /\ it' = NextIt(c)
      BY <2>6
    <3>0. epc' = epc
      BY <3>1 DEF Served
    <3>2. c \in due
      <4>1. it >= it
        BY <1>4
      <4> QED BY <4>1, <2>1, <2>2, <2>4, <2>6, <1>4
    <3>3. PICK rest : rest = RemoveAt(clients, it)
      OBVIOUS
    <3>4. /\ rest \in Seq(Clients) /\ IsInjective(rest) /\ Len(rest) = Len(clients) - 1
          /\ ToSet(rest) = ToSet(clients) \ {c}
          /\ \A i \in 1 .. it - 1 : rest[i] = clients[i]
          /\ \A i \in it .. Len(clients) - 1 : rest[i] = clients[i + 1]
      <4>1. /\ RemoveAt(clients, it) \in Seq(Clients) /\ IsInjective(RemoveAt(clients, it))
            /\ Len(RemoveAt(clients, it)) = Len(clients) - 1
            /\ ToSet(RemoveAt(clients, it)) = ToSet(clients) \ {clients[it]}
            /\ \A i \in 1 .. it - 1 : RemoveAt(clients, it)[i] = clients[i]
            /\ \A i \in it .. Len(clients) - 1 : RemoveAt(clients, it)[i] = clients[i + 1]
        BY <2>2, <1>1, EntryErased
      <4> QED BY <4>1, <3>3, <2>1
    <3>5. /\ client' \in [Clients -> {"off", "idle", "waits", "leaves", "closed", "reset", "dropped", "gone"}]
          /\ clients' \in Seq(Clients) /\ IsInjective(clients')
          /\ BacklogExact' /\ DueWaits'
          /\ \A d \in Clients : d \in ToSet(clients') <=>
               client'[d] \in {"idle", "waits", "leaves", "closed", "reset"} /\ d \notin ToSet(backlog')
      <4>1. Served(c, rest) /\ backlog' = backlog
        BY <3>1, <3>3, <1>3
      <4> QED BY <4>1, <3>2, <3>4, ServedIs
    <3>6. due' = due \ {c}
      BY <3>1 DEF Served
    <3>7. nready' = Cardinality(due') /\ nready' \in Nat
      <4>1. Cardinality(due \ {c}) = Cardinality(due) - 1
        BY <3>2, <1>5, FS_RemoveElement
      <4> QED BY <4>1, <3>1, <3>6, <1>4, <1>7
    <3>8. \A i, j \in 1 .. Len(clients) : clients[i] = clients[j] => i = j
      BY <1>1, Entries
    <3>9. /\ it' \in Nat /\ it' >= 1
          /\ \A k \in 1 .. Len(clients') : clients'[k] \in due' <=> k >= it' /\ clients'[k] \in ToSet(events)
      <4>1. CASE client[c] \in {"waits", "leaves"}
        <5>1. it' = it + 1 /\ clients' = clients
          BY <4>1, <3>1 DEF NextIt, Served
        <5>2. ASSUME NEW k \in 1 .. Len(clients)
              PROVE  clients[k] \in due \ {c} <=> k >= it + 1 /\ clients[k] \in ToSet(events)
          <6>1. CASE k = it
            <7>1. clients[k] = c /\ ~(k >= it + 1)
              BY <6>1, <2>1, <1>4
            <7> QED BY <7>1
          <6>2. CASE k # it
            <7>1. k >= it <=> k >= it + 1
              BY <6>2, <1>4
            <7>2. clients[k] # c
              BY <6>2, <2>1, <2>2, <3>8
            <7> QED BY <7>1, <7>2, <1>4
          <6> QED BY <6>1, <6>2
        <5> QED BY <5>1, <5>2, <3>6, <1>4
      <4>2. CASE client[c] = "closed"
        <5>1. it' = it /\ clients' = rest
          BY <4>2, <3>1, <3>3 DEF NextIt, Served
        <5>2. ASSUME NEW k \in 1 .. Len(rest)
              PROVE  rest[k] \in due \ {c} <=> k >= it /\ rest[k] \in ToSet(events)
          <6>1. CASE k < it
            <7>1. k \in 1 .. Len(clients) /\ k \in 1 .. it - 1 /\ ~(k >= it)
              BY <6>1, <2>2, <3>4, <1>4, <1>5
            <7>2. rest[k] = clients[k]
              BY <7>1, <3>4
            <7> QED BY <7>1, <7>2, <1>4
          <6>2. CASE k >= it
            <7>1. k + 1 \in 1 .. Len(clients) /\ k \in it .. Len(clients) - 1 /\ k + 1 >= it /\ k + 1 # it
              BY <6>2, <3>4, <1>4, <1>5
            <7>2. rest[k] = clients[k + 1]
              BY <7>1, <3>4
            <7>3. clients[k + 1] # c
              BY <7>1, <2>1, <2>2, <3>8
            <7>4. clients[k + 1] \in due <=> k + 1 >= it /\ clients[k + 1] \in ToSet(events)
              BY <7>1, <1>4
            <7> QED BY <7>1, <7>2, <7>3, <7>4, <6>2
          <6> QED BY <6>1, <6>2, <1>4
        <5> QED BY <5>1, <5>2, <3>6, <1>4
      <4>3. client[c] # "reset"
        BY <3>1 DEF Served
      <4> QED BY <4>1, <4>2, <4>3, <3>2, <1>1
    <3>10. ETypeOK'
      BY <3>0, <3>5, <3>6, <3>7, <3>9, <1>2, <1>3 DEF ETypeOK
    <3>11. TableExact'
      BY <3>5, <3>10, TableNext
    <3>12. Walk' /\ Reports'
      BY <3>0, <3>7, <3>9, <1>3 DEF Walk, Reports
    <3> QED BY <3>0, <3>5, <3>10, <3>11, <3>12, <1>3 DEF EchoInv, RoundExact
  <2> QED BY <2>3, <2>5, <2>6, <2>7
<1> QED BY <1>4, <1>5, <1>6, <1>7

\* An event of the epoll server.
LEMMA EpollEcho ==
  ASSUME EchoInv, EpollEvent
  PROVE  EchoInv'
<1>1. /\ clients \in Seq(Clients) /\ events \in Seq({0} \cup Clients) /\ IsInjective(clients)
  BY DueIs
<1>2. ETypeOK /\ BacklogExact /\ DueWaits /\ TableExact /\ Reports
  BY DEF EchoInv, RoundExact
<1>3. epc = "events" /\ UNCHANGED <<kind, nready, it, cut>>
  BY DEF EpollEvent
<1>4. /\ due = ToSet(events) \ {0} /\ (0 \in ToSet(events) => backlog # << >>)
      /\ IsInjective(events)
  BY <1>2, <1>3 DEF Reports
<1>5. CASE events = << >>
  <2>1. epc' = "wait" /\ UNCHANGED <<client, backlog, clients, idle, events, due>>
    BY <1>5 DEF EpollEvent
  <2>2. due = {}
    BY <1>4, <1>5, NoEntries
  <2>3. ETypeOK' /\ BacklogExact' /\ DueWaits' /\ TableExact' /\ Reports' /\ Walk'
    BY <2>1, <1>2, <1>3 DEF ETypeOK, BacklogExact, DueWaits, TableExact, Reports, Walk
  <2> QED BY <2>1, <2>2, <2>3 DEF EchoInv, RoundExact
<1>6. CASE events # << >>
  <2>1. PICK e : e = Head(events)
    OBVIOUS
  <2>2. /\ e \in ToSet(events) /\ e \in {0} \cup Clients /\ Tail(events) \in Seq({0} \cup Clients)
        /\ IsInjective(Tail(events)) /\ ToSet(Tail(events)) = ToSet(events) \ {e}
    BY <2>1, <1>1, <1>4, <1>6, HeadTaken
  <2>3. events' = Tail(events)
    BY <1>6 DEF EpollEvent
  <2>4. /\ events' \in Seq({0} \cup Clients) /\ IsInjective(events') /\ ToSet(events') = ToSet(events) \ {e}
    BY <2>2, <2>3
  <2>7. CASE e = 0 /\ AcceptExits /\ due' = due
    <3>1. epc' = "exit" /\ UNCHANGED <<client, backlog, clients, idle, due>>
      BY <2>7 DEF AcceptExits
    <3>2. ETypeOK' /\ BacklogExact' /\ DueWaits' /\ TableExact' /\ Reports' /\ Walk'
      BY <3>1, <2>4, <1>2, <1>3 DEF ETypeOK, BacklogExact, DueWaits, TableExact, Reports, Walk
    <3> QED BY <3>1, <3>2 DEF EchoInv, RoundExact
  <2>8. CASE e # 0 /\ ReadExits(e) /\ UNCHANGED <<backlog, idle>>
    <3>1. epc' = "exit" /\ UNCHANGED <<client, backlog, clients, idle, due>>
      BY <2>8 DEF ReadExits
    <3>2. ETypeOK' /\ BacklogExact' /\ DueWaits' /\ TableExact' /\ Reports' /\ Walk'
      BY <3>1, <2>4, <1>2, <1>3 DEF ETypeOK, BacklogExact, DueWaits, TableExact, Reports, Walk
    <3> QED BY <3>1, <3>2 DEF EchoInv, RoundExact
  <2>5. CASE e = 0 /\ (Accepts \/ Overflows) /\ UNCHANGED <<epc, due>>
    <3>1. (Accepts \/ Overflows) /\ due' = due /\ epc' = epc
      BY <2>5
    <3>2. backlog # << >>
      BY <2>2, <2>5, <1>4
    <3>3. /\ client' \in [Clients -> {"off", "idle", "waits", "leaves", "closed", "reset", "dropped", "gone"}]
          /\ backlog' \in Seq(Clients) /\ clients' \in Seq(Clients) /\ IsInjective(clients')
          /\ BacklogExact' /\ DueWaits'
          /\ \A c \in Clients : c \in ToSet(clients') <=>
               client'[c] \in {"idle", "waits", "leaves", "closed", "reset"} /\ c \notin ToSet(backlog')
      BY <3>1, <3>2, ListenIs
    <3>4. ETypeOK'
      BY <3>1, <3>3, <2>3, <2>4, <1>2, <1>3 DEF ETypeOK
    <3>5. TableExact'
      BY <3>3, <3>4, TableNext
    <3>6. Reports' /\ Walk'
      BY <3>1, <2>3, <2>4, <2>5, <1>3, <1>4 DEF Reports, Walk
    <3> QED BY <3>1, <3>3, <3>4, <3>5, <3>6, <1>3 DEF EchoInv, RoundExact
  <2>6. CASE e # 0 /\ Served(e, Removed(e)) /\ UNCHANGED <<backlog, idle>>
    <3>1. Served(e, Removed(e)) /\ backlog' = backlog /\ epc' = epc
      BY <2>6 DEF Served
    <3>2. e \in due
      BY <2>2, <2>6, <1>4
    <3>3. PICK rest : rest = Removed(e)
      OBVIOUS
    <3>4. rest \in Seq(Clients) /\ IsInjective(rest) /\ ToSet(rest) = ToSet(clients) \ {e}
      BY <3>3, <1>1, EntryRemoved
    <3>5. /\ client' \in [Clients -> {"off", "idle", "waits", "leaves", "closed", "reset", "dropped", "gone"}]
          /\ clients' \in Seq(Clients) /\ IsInjective(clients')
          /\ BacklogExact' /\ DueWaits'
          /\ \A d \in Clients : d \in ToSet(clients') <=>
               client'[d] \in {"idle", "waits", "leaves", "closed", "reset"} /\ d \notin ToSet(backlog')
      <4>1. Served(e, rest) /\ backlog' = backlog
        BY <3>1, <3>3
      <4> QED BY <4>1, <3>2, <3>4, ServedIs
    <3>6. due' = due \ {e}
      BY <3>1 DEF Served
    <3>7. ETypeOK'
      BY <3>1, <3>5, <3>6, <2>3, <2>4, <1>2, <1>3 DEF ETypeOK
    <3>8. TableExact'
      BY <3>5, <3>7, TableNext
    <3>9. Reports' /\ Walk'
      BY <3>1, <3>6, <2>3, <2>4, <2>6, <1>3, <1>4 DEF Reports, Walk
    <3> QED BY <3>1, <3>5, <3>7, <3>8, <3>9, <1>3 DEF EchoInv, RoundExact
  <2> QED
    <3>1. \/ e = 0 /\ (Accepts \/ Overflows) /\ UNCHANGED <<epc, due>>
          \/ e = 0 /\ AcceptExits /\ due' = due
          \/ e # 0 /\ (Served(e, Removed(e)) \/ ReadExits(e)) /\ UNCHANGED <<backlog, idle>>
      BY <2>1, <1>6 DEF EpollEvent
    <3> QED BY <3>1, <2>5, <2>6, <2>7, <2>8
<1> QED BY <1>5, <1>6

LEMMA EchoStep == EchoInv /\ [ENext]_eVars => EchoInv'
<1> SUFFICES ASSUME EchoInv, [ENext]_eVars PROVE EchoInv'
  OBVIOUS
<1>1. CASE UNCHANGED eVars
  BY <1>1 DEF eVars, EchoInv, ETypeOK, BacklogExact, DueWaits, Reports, Walk, RoundExact, TableExact
<1>2. ASSUME NEW c \in Clients, ClientConnect(c) \/ ClientWrite(c) \/ ClientClose(c) PROVE EchoInv'
  BY <1>2, ClientEcho
<1>3. CASE Wait
  BY <1>3, WaitEcho
<1>4. CASE PollListen
  BY <1>4, PollListenEcho
<1>5. CASE PollWalk
  BY <1>5, PollWalkEcho
<1>6. CASE EpollEvent
  BY <1>6, EpollEcho
<1> QED BY <1>1, <1>2, <1>3, <1>4, <1>5, <1>6, Zenon DEF ENext, Server

\* The invariant holds in every reachable state of the echo servers.
THEOREM EchoInvariance == ESpec => []EchoInv
BY EchoInit, EchoStep, PTL DEF ESpec

\* The table of the echo servers has every open client once, and a round serves
\* all that poll or epoll_wait reported, although the walk erases entries under
\* its own iterator and stops when nready is used up; only an overflow of the poll
\* server, or the end of the program, cuts it short.
THEOREM RoundsAreExact == ESpec => []RoundExact
<1>1. EchoInv => RoundExact
  BY DEF EchoInv
<1> QED BY <1>1, EchoInvariance, PTL
=============================================================================
