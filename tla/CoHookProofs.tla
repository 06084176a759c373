---------------------------- MODULE CoHookProofs ----------------------------
(* Proofs about CoHook and CoEnv for any coroutines, descriptors, buffer      *)
(* sizes, arguments of poll(), names and values.                              *)
(*                                                                            *)
(* The flag: a record that is not stale and says "non-blocking" is right      *)
(* about the socket, so a call that the kernel stops met a clear flag, and    *)
(* while the thread is stopped nobody can change the records.  The count:     *)
(* every wait of a write carries the bytes the kernel took so far.            *)
EXTENDS CoHook, CoEnv, TLAPS

Writing == {"write", "again", "sendto", "once"}
Ops == Writing \cup {"read", "recvfrom", "connect", "poll"}

Sockets == [open : {TRUE}, nb : BOOLEAN, in : Nat, room : Nat,
            conn : {"none", "progress", "ok", "refused"}, rto : {0, 1}, wto : {0, 1}]
Infos == [used : {TRUE}, nb : BOOLEAN, rto : {0, 1}, wto : {0, 1}]

\* The call of c: its descriptor, and the bytes the kernel took in it.
CallOK(c) ==
  LET k == call[c] IN
  /\ k.pc \in {"idle", "poll", "ready", "turn", "blocked"}
  /\ k.pc = "idle" => k.res \in Int /\ sent[c] = IF k.res > 0 THEN k.res ELSE 0
  /\ k.pc # "idle" =>
       /\ k.op \in Ops
       /\ k.op = "poll" => k.pc \in {"poll", "ready"}
       /\ k.op # "poll" => k.fd \in Fds
       /\ k.op \in Writing => k.len \in Nat /\ k.n \in Nat /\ sent[c] = k.len
       /\ k.op \notin Writing => sent[c] = 0

HookTypeOK ==
  /\ hook \in [Co -> BOOLEAN]
  /\ sock \in [Fds -> {Closed} \cup Sockets]
  /\ info \in [Fds -> {NoInfo} \cup Infos]
  /\ stale \in [Fds -> BOOLEAN]
  /\ sent \in [Co -> Nat]
  /\ call = [c \in Co |-> call[c]]

\* A record that is not stale and has the flag set belongs to an open socket with
\* the flag set.
FlagsAgree ==
  \A f \in Fds : info[f].used /\ ~stale[f] /\ info[f].nb => sock[f].open /\ sock[f].nb

\* A descriptor cannot be closed while the thread stands in a call on it.
StoppedOpen == \A c \in Blocked : sock[call[c].fd].open

HookInv ==
  /\ HookTypeOK
  /\ \A c \in Co : CallOK(c)
  /\ StoppedOpen
  /\ FlagsAgree
  /\ ThreadStops

-----------------------------------------------------------------------------
\* What a step of c's call does to the calls: the others stay as they are, c's is
\* in order again, and if the thread is stopped now then by a socket whose flag was
\* clear.
CallStep(c) ==
  /\ HookTypeOK' /\ UNCHANGED <<hook, info, stale>>
  /\ CallOK(c)'
  /\ \A d \in Co \ {c} : call'[d] = call[d] /\ sent'[d] = sent[d]
  /\ \A f \in Fds : sock'[f].open = sock[f].open
  /\ \A f \in Fds : sock[f].open => sock'[f].nb = sock[f].nb
  /\ call'[c].pc = "blocked" =>
       \/ call[c].pc = "blocked" /\ call'[c].fd = call[c].fd
       \/ sock[call'[c].fd].open /\ ~sock[call'[c].fd].nb

\* The smaller of two numbers.
LEMMA MinOfTwo ==
  ASSUME NEW a \in Nat, NEW b \in Nat
  PROVE  Min({a, b}) \in Nat /\ Min({a, b}) <= a /\ Min({a, b}) <= b
                             /\ Min({a, b}) \in {a, b}
<1>1. \E x \in {a, b} : \A y \in {a, b} : x =< y
  BY SMT
<1>2. Min({a, b}) \in {a, b} /\ \A y \in {a, b} : Min({a, b}) =< y
  BY <1>1, Zenon DEF Min
<1> QED BY <1>2

\* A call that returns, and one that goes to wait or is stopped.
LEMMA ReturnCall ==
  ASSUME HookInv, NEW c \in Co, NEW r \in Int, Return(c, r),
         HookTypeOK', UNCHANGED <<hook, info, stale>>,
         \A d \in Co \ {c} : sent'[d] = sent[d],
         \A f \in Fds : sock'[f].open = sock[f].open,
         \A f \in Fds : sock[f].open => sock'[f].nb = sock[f].nb,
         sent'[c] = IF r > 0 THEN r ELSE 0
  PROVE  CallStep(c)
<1>1. call' = [call EXCEPT ![c] = Idle(r)] /\ c \in DOMAIN call
  BY DEF Return, HookInv, HookTypeOK
<1>2. call'[c] = Idle(r) /\ \A d \in Co \ {c} : call'[d] = call[d]
  BY <1>1 DEF HookInv, HookTypeOK
<1>3. call'[c].pc = "idle" /\ call'[c].res = r
  BY <1>2 DEF Idle
<1>4. CallOK(c)'
  BY <1>3 DEF CallOK
<1> QED BY <1>2, <1>3, <1>4 DEF CallStep

LEMMA WaitCall ==
  ASSUME HookInv, NEW c \in Co, NEW op \in Ops \ {"poll"}, NEW f \in Fds, NEW ev, NEW t,
         NEW len \in Nat, NEW n \in Nat,
         \/ PollWait(c, op, f, ev, t, len, n)
         \/ \E some \in BOOLEAN :
              /\ Block(c, op, f, t, len, n, some)
              /\ \/ sock[f].open /\ ~sock[f].nb
                 \/ call[c].pc = "blocked" /\ call[c].fd = f,
         HookTypeOK', UNCHANGED <<hook, info, stale>>,
         \A d \in Co \ {c} : sent'[d] = sent[d],
         \A g \in Fds : sock'[g].open = sock[g].open,
         \A g \in Fds : sock[g].open => sock'[g].nb = sock[g].nb,
         sent'[c] = IF op \in Writing THEN len ELSE 0
  PROVE  CallStep(c)
<1>1. \A d \in Co \ {c} : call'[d] = call[d]
  BY DEF PollWait, Block, HookInv, HookTypeOK
<1>2. /\ call'[c].pc \in {"poll", "turn", "blocked"}
      /\ call'[c].op = op /\ call'[c].fd = f /\ call'[c].len = len /\ call'[c].n = n
      /\ call'[c].pc = "blocked" =>
           \/ sock[f].open /\ ~sock[f].nb
           \/ call[c].pc = "blocked" /\ call[c].fd = f
  BY DEF PollWait, Block, HookInv, HookTypeOK
<1>3. CallOK(c)'
  BY <1>2 DEF CallOK
<1> QED BY <1>1, <1>2, <1>3 DEF CallStep

\* An open socket has all its fields.
LEMMA OpenSock ==
  ASSUME HookInv, NEW f \in Fds, sock[f].open
  PROVE  sock[f] \in Sockets
<1>1. sock[f] \in {Closed} \cup Sockets /\ sock[f].open
  BY DEF HookInv, HookTypeOK
<1>2. ~Closed.open
  BY DEF Closed
<1> QED BY <1>1, <1>2

\* The kernel takes m bytes: the flags stay.
LEMMA AcceptedStep ==
  ASSUME HookInv, NEW c \in Co, NEW f \in Fds, sock[f].open, NEW m \in Nat,
         m <= sock[f].room, Accepted(c, f, m), UNCHANGED <<hook, info, stale>>,
         call' = [d \in Co |-> call'[d]]
  PROVE  /\ HookTypeOK'
         /\ \A d \in Co \ {c} : sent'[d] = sent[d]
         /\ sent'[c] = sent[c] + m
         /\ \A g \in Fds : sock'[g].open = sock[g].open
         /\ \A g \in Fds : sock[g].open => sock'[g].nb = sock[g].nb
<1>1. sock[f] \in Sockets
  BY OpenSock
<1>b. sock[f].room \in Nat
  BY <1>1 DEF Sockets
<1>a. sock[f].room - m \in Nat
  BY <1>b
<1>2. [sock[f] EXCEPT !.room = @ - m] \in Sockets
  BY <1>1, <1>a DEF Sockets
<1>3. sock' = [sock EXCEPT ![f] = [sock[f] EXCEPT !.room = @ - m]]
  BY DEF Accepted
<1>4. /\ sock' \in [Fds -> {Closed} \cup Sockets]
      /\ sock'[f] = [sock[f] EXCEPT !.room = @ - m]
      /\ \A g \in Fds \ {f} : sock'[g] = sock[g]
  BY <1>2, <1>3 DEF HookInv, HookTypeOK
<1>5. sock'[f].open = sock[f].open /\ sock'[f].nb = sock[f].nb
  BY <1>1, <1>4 DEF Sockets
<1>6. /\ sent' \in [Co -> Nat] /\ sent'[c] = sent[c] + m
      /\ \A d \in Co \ {c} : sent'[d] = sent[d]
  BY DEF Accepted, HookInv, HookTypeOK
<1>7. HookTypeOK'
  BY <1>4, <1>6 DEF HookInv, HookTypeOK
<1> QED BY <1>4, <1>5, <1>6, <1>7

\* A step of c's call keeps the call a function.
LEMMA CallFunction ==
  ASSUME HookInv, NEW c \in Co, NEW x, call' = [call EXCEPT ![c] = x]
  PROVE  call' = [d \in Co |-> call'[d]]
BY DEF HookInv, HookTypeOK

LEMMA SysReadStep ==
  ASSUME HookInv, NEW c \in Co, NEW op \in {"read", "recvfrom"}, NEW f \in Fds,
         sent[c] = 0, SysRead(c, op, f)
  PROVE  CallStep(c)
<1>1. CASE /\ UNCHANGED sock
           /\ \E r \in {ERROR, EAGAIN} : Return(c, r)
  <2>1. PICK r \in {ERROR, EAGAIN} : Return(c, r)
    BY <1>1
  <2>2. call' = [d \in Co |-> call'[d]]
    BY <2>1, CallFunction DEF Return
  <2>3. HookTypeOK'
    BY <1>1, <2>2 DEF SysRead, HookInv, HookTypeOK
  <2>4. r \in Int /\ ~(r > 0)
    BY DEF ERROR, EAGAIN
  <2> QED BY <1>1, <2>1, <2>3, <2>4, ReturnCall DEF SysRead
<1>2. CASE /\ Usable(f) /\ sock[f].in > 0
           /\ sock' = [sock EXCEPT ![f].in = @ - 1]
           /\ Return(c, DATA)
  <2>1. sock[f] \in Sockets
    BY <1>2, OpenSock DEF Usable
  <2>b. sock[f].in \in Nat
    BY <2>1 DEF Sockets
  <2>a. sock[f].in - 1 \in Nat
    BY <1>2, <2>b
  <2>2. [sock[f] EXCEPT !.in = @ - 1] \in Sockets
    BY <2>1, <2>a DEF Sockets
  <2>3. /\ sock' \in [Fds -> {Closed} \cup Sockets]
        /\ sock'[f] = [sock[f] EXCEPT !.in = @ - 1]
        /\ \A g \in Fds \ {f} : sock'[g] = sock[g]
    BY <1>2, <2>2 DEF HookInv, HookTypeOK
  <2>4. sock'[f].open = sock[f].open /\ sock'[f].nb = sock[f].nb
    BY <2>1, <2>3 DEF Sockets
  <2>5. call' = [d \in Co |-> call'[d]]
    BY <1>2, CallFunction DEF Return
  <2>6. HookTypeOK'
    BY <2>3, <2>5 DEF SysRead, HookInv, HookTypeOK
  <2>7. DATA \in Int /\ ~(DATA > 0)
    BY DEF DATA
  <2> QED BY <1>2, <2>3, <2>4, <2>6, <2>7, ReturnCall DEF SysRead
<1>3. CASE Usable(f) /\ UNCHANGED sock /\ ~sock[f].nb /\ Block(c, op, f, 0, 0, 0, FALSE)
  <2>1. call' = [d \in Co |-> call'[d]]
    BY <1>3, CallFunction DEF Block
  <2>2. HookTypeOK'
    BY <1>3, <2>1 DEF SysRead, HookInv, HookTypeOK
  <2>3. op \in Ops \ {"poll"} /\ op \notin Writing /\ sock[f].open
    BY <1>3 DEF Ops, Writing, Usable
  <2>4. \E some \in BOOLEAN :
          Block(c, op, f, 0, 0, 0, some) /\ (\/ sock[f].open /\ ~sock[f].nb
                                             \/ call[c].pc = "blocked" /\ call[c].fd = f)
    BY <1>3, <2>3
  <2>5. UNCHANGED <<hook, info, stale, sent>> /\ UNCHANGED sock
    BY <1>3 DEF SysRead
  <2>6. sent'[c] = IF op \in Writing THEN 0 ELSE 0
    BY <2>5
  <2> QED BY <2>2, <2>3, <2>4, <2>5, <2>6, WaitCall
<1> QED BY <1>1, <1>2, <1>3 DEF SysRead

\* What happens after the kernel took nothing, or all it takes in this turn.
LEMMA AfterTurn ==
  ASSUME HookInv, NEW c \in Co, NEW op \in Writing, NEW f \in Fds, NEW t,
         NEW len \in Nat, NEW n \in Nat,
         \/ PollWait(c, "again", f, {"IN"}, t, len, n)
         \/ AfterWrite(c, op, f, t, len, n)
         \/ AfterEagain(c, op, f, t, len, n)
         \/ Return(c, WriteResult(len, ERROR))
         \/ Return(c, len),
         UNCHANGED <<hook, info, stale>>,
         call' = [d \in Co |-> call'[d]] => HookTypeOK',
         \A d \in Co \ {c} : sent'[d] = sent[d],
         \A g \in Fds : sock'[g].open = sock[g].open,
         \A g \in Fds : sock[g].open => sock'[g].nb = sock[g].nb,
         sent'[c] = len
  PROVE  CallStep(c)
<1>1. CASE PollWait(c, "again", f, {"IN"}, t, len, n)
  <2>1. HookTypeOK'
    BY <1>1, CallFunction DEF PollWait
  <2>2. "again" \in Ops \ {"poll"} /\ "again" \in Writing
    BY DEF Ops, Writing
  <2> QED BY <1>1, <2>1, <2>2, WaitCall
<1>2. CASE \E r \in {len, WriteResult(len, ERROR), WriteResult(len, EAGAIN)} : Return(c, r)
  <2>1. PICK r \in {len, WriteResult(len, ERROR), WriteResult(len, EAGAIN)} : Return(c, r)
    BY <1>2
  <2>2. r \in Int /\ len = IF r > 0 THEN r ELSE 0
    BY DEF WriteResult, ERROR, EAGAIN
  <2>3. HookTypeOK'
    BY <2>1, CallFunction DEF Return
  <2> QED BY <2>1, <2>2, <2>3, ReturnCall
<1>3. CASE PollWait(c, "once", f, {"OUT"}, t, len, n)
  <2>1. HookTypeOK'
    BY <1>3, CallFunction DEF PollWait
  <2>2. "once" \in Ops \ {"poll"} /\ "once" \in Writing
    BY DEF Ops, Writing
  <2> QED BY <1>3, <2>1, <2>2, WaitCall
<1> QED BY <1>1, <1>2, <1>3 DEF AfterWrite, AfterEagain

LEMMA SysWriteStep ==
  ASSUME HookInv, NEW c \in Co, NEW op \in Writing, NEW f \in Fds, NEW t,
         NEW len \in Nat, NEW n \in Nat, sent[c] = len, SysWrite(c, op, f, t, len, n)
  PROVE  CallStep(c)
<1> USE DEF SysWrite
<1>1. CASE /\ UNCHANGED <<sock, sent>>
           /\ \/ PollWait(c, "again", f, {"IN"}, t, len, n)
              \/ AfterEagain(c, op, f, t, len, n)
              \/ Return(c, WriteResult(len, ERROR))
  <2>1. call' = [d \in Co |-> call'[d]] => HookTypeOK'
    BY <1>1 DEF HookInv, HookTypeOK
  <2> QED BY <1>1, <2>1, AfterTurn
<1>2. CASE /\ Usable(f) /\ sock[f].nb
           /\ \E m \in 1 .. Min({n, sock[f].room}) :
                Accepted(c, f, m) /\ AfterWrite(c, op, f, t, len + m, n - m)
  <2>1. sock[f] \in Sockets
    BY <1>2, OpenSock DEF Usable
  <2>2. sock[f].room \in Nat
    BY <2>1 DEF Sockets
  <2>3. PICK m \in 1 .. Min({n, sock[f].room}) :
          Accepted(c, f, m) /\ AfterWrite(c, op, f, t, len + m, n - m)
    BY <1>2
  <2>4. m \in Nat /\ m <= n /\ m <= sock[f].room
    BY <2>2, MinOfTwo
  <2>5. len + m \in Nat /\ n - m \in Nat
    BY <2>4
  <2>6. call' = [d \in Co |-> call'[d]]
    BY <2>3, CallFunction DEF AfterWrite, PollWait, Return
  <2>7. /\ HookTypeOK'
        /\ \A d \in Co \ {c} : sent'[d] = sent[d]
        /\ sent'[c] = len + m
        /\ \A g \in Fds : sock'[g].open = sock[g].open
        /\ \A g \in Fds : sock[g].open => sock'[g].nb = sock[g].nb
    BY <1>2, <2>3, <2>4, <2>6, AcceptedStep DEF Usable
  <2> QED BY <2>3, <2>5, <2>7, AfterTurn
<1>3. CASE /\ Usable(f) /\ sock[f].room >= n
           /\ Accepted(c, f, n) /\ Return(c, len + n)
  <2>1. sock[f] \in Sockets
    BY <1>3, OpenSock DEF Usable
  <2>2. sock[f].room \in Nat
    BY <2>1 DEF Sockets
  <2>3. n <= sock[f].room
    BY <1>3, <2>2
  <2>4. call' = [d \in Co |-> call'[d]]
    BY <1>3, CallFunction DEF Return
  <2>5. /\ HookTypeOK'
        /\ \A d \in Co \ {c} : sent'[d] = sent[d]
        /\ sent'[c] = len + n
        /\ \A g \in Fds : sock'[g].open = sock[g].open
        /\ \A g \in Fds : sock[g].open => sock'[g].nb = sock[g].nb
    BY <1>3, <2>3, <2>4, AcceptedStep DEF Usable
  <2>6. len + n \in Nat /\ Return(c, len + n)
    BY <1>3
  <2> QED BY <2>5, <2>6, AfterTurn
<1>4. CASE Usable(f) /\ ~sock[f].nb /\ UNCHANGED <<sock, sent>>
           /\ Block(c, op, f, t, len, n, FALSE)
  <2>1. call' = [d \in Co |-> call'[d]]
    BY <1>4, CallFunction DEF Block
  <2>2. HookTypeOK'
    BY <1>4, <2>1 DEF HookInv, HookTypeOK
  <2>3. op \in Ops \ {"poll"} /\ sock[f].open
    BY <1>4 DEF Ops, Writing, Usable
  <2>4. \E some \in BOOLEAN :
          Block(c, op, f, t, len, n, some) /\ (\/ sock[f].open /\ ~sock[f].nb
                                               \/ call[c].pc = "blocked" /\ call[c].fd = f)
    BY <1>4, <2>3
  <2> QED BY <1>4, <2>2, <2>3, <2>4, WaitCall
<1> QED BY <1>1, <1>2, <1>3, <1>4

-----------------------------------------------------------------------------
\* While the thread is free nobody is stopped, and the caller has sent nothing.
LEMMA FreeThread ==
  ASSUME HookInv, NEW c \in Co, Runs(c)
  PROVE  sent[c] = 0 /\ Blocked = {}
BY DEF HookInv, CallOK, Runs, Busy, Blocked, NONE

\* A step of a call keeps the invariant.
LEMMA CallStepKeeps ==
  ASSUME HookInv, NEW c \in Co, CallStep(c)
  PROVE  HookInv'
<1>1. \A d \in Co : CallOK(d)'
  <2>1. ASSUME NEW d \in Co \ {c} PROVE CallOK(d)'
    BY DEF HookInv, CallOK, CallStep
  <2> QED BY <2>1 DEF CallStep
<1>2. FlagsAgree'
  BY DEF HookInv, FlagsAgree, CallStep
<1>a. ASSUME NEW d \in Blocked', d # c
      PROVE  d \in Blocked /\ call'[d] = call[d] /\ call[d].fd \in Fds
  BY <1>a DEF Blocked, CallStep, HookInv, CallOK
<1>b. StoppedOpen'
  <2>1. ASSUME c \in Blocked' PROVE sock'[call'[c].fd].open
    <3>1. call'[c].pc = "blocked"
      BY <2>1 DEF Blocked
    <3>2. call'[c].fd \in Fds
      BY <3>1 DEF CallStep, CallOK
    <3> QED BY <3>1, <3>2 DEF CallStep, HookInv, StoppedOpen, Blocked
  <2> QED BY <1>a, <2>1 DEF HookInv, StoppedOpen, CallStep
<1>3. ThreadStops'
  <2>2. ASSUME c \in Blocked', hook[c], info[call'[c].fd].used,
               ~stale[call'[c].fd], info[call'[c].fd].nb
        PROVE  FALSE
    <3>1. call'[c].pc = "blocked"
      BY <2>2 DEF Blocked
    <3>2. call'[c].fd \in Fds
      BY <3>1 DEF CallStep, CallOK
    <3>3. CASE call[c].pc = "blocked" /\ call'[c].fd = call[c].fd
      BY <2>2, <3>3 DEF HookInv, ThreadStops, Blocked
    <3>4. CASE sock[call'[c].fd].open /\ ~sock[call'[c].fd].nb
      BY <2>2, <3>2, <3>4 DEF HookInv, FlagsAgree
    <3> QED BY <3>1, <3>3, <3>4 DEF CallStep
  <2> QED BY <1>a, <2>2 DEF HookInv, ThreadStops, CallStep
<1> QED BY <1>1, <1>2, <1>b, <1>3 DEF HookInv, CallStep

\* The calls that go through one of the lemmas above.
LEMMA ReadKeeps ==
  ASSUME HookInv, NEW c \in Co, NEW f \in Fds, NEW op \in {"read", "recvfrom"},
         Read(c, op, f)
  PROVE  HookInv'
<1>1. sent[c] = 0 /\ Blocked = {}
  BY FreeThread DEF Read
<1>2. CASE Waits(c, f)
  <2>1. /\ PollWait(c, op, f, ReadEv(op), ReadTimeout(op, info[f]), 0, 0)
        /\ UNCHANGED <<hook, sock, info, stale, sent>>
    BY <1>2 DEF Read
  <2>2. HookTypeOK'
    BY <2>1, CallFunction DEF PollWait, HookInv, HookTypeOK
  <2>3. op \in Ops \ {"poll"} /\ op \notin Writing
    BY DEF Ops, Writing
  <2>4. CallStep(c)
    BY <1>1, <2>1, <2>2, <2>3, WaitCall
  <2> QED BY <1>1, <2>4, CallStepKeeps
<1>3. CASE ~Waits(c, f)
  BY <1>1, <1>3, SysReadStep, CallStepKeeps DEF Read
<1> QED BY <1>2, <1>3

LEMMA WriteKeeps ==
  ASSUME HookInv, NEW c \in Co, NEW f \in Fds, NEW n \in Nat,
         Write(c, f, n) \/ Sendto(c, f, n)
  PROVE  HookInv'
<1>1. sent[c] = 0 /\ Blocked = {}
  BY FreeThread DEF Write, Sendto
<1>2. "write" \in Writing /\ "once" \in Writing /\ "sendto" \in Writing
  BY DEF Writing
<1>3. \E op \in Writing : \E t : SysWrite(c, op, f, t, 0, n)
  BY <1>2 DEF Write, Sendto
<1> QED BY <1>1, <1>3, SysWriteStep, CallStepKeeps

LEMMA ConnectKeeps ==
  ASSUME HookInv, NEW c \in Co, NEW f \in Fds, Connect(c, f)
  PROVE  HookInv'
<1>1. sent[c] = 0 /\ Blocked = {}
  BY FreeThread DEF Connect
<1>2. /\ sock[f].open
      /\ sock' = [sock EXCEPT ![f].conn = "progress"]
      /\ UNCHANGED <<hook, info, stale, sent>>
  BY DEF Connect
<1>3. sock[f] \in Sockets
  <2>1. sock[f] \in {Closed} \cup Sockets /\ ~Closed.open
    BY DEF HookInv, HookTypeOK, Closed
  <2> QED BY <1>2, <2>1
<1>4. [sock[f] EXCEPT !.conn = "progress"] \in Sockets
  BY <1>3 DEF Sockets
<1>5. /\ sock' \in [Fds -> {Closed} \cup Sockets]
      /\ sock'[f] = [sock[f] EXCEPT !.conn = "progress"]
      /\ \A g \in Fds \ {f} : sock'[g] = sock[g]
  BY <1>2, <1>4 DEF HookInv, HookTypeOK
<1>6. sock'[f].open = sock[f].open /\ sock'[f].nb = sock[f].nb
  BY <1>3, <1>5 DEF Sockets
<1>7. "connect" \in Ops \ {"poll"} /\ "connect" \notin Writing
  BY DEF Ops, Writing
<1>8. call' = [d \in Co |-> call'[d]]
  BY CallFunction DEF Connect, Block, PollWait, Return
<1>9. HookTypeOK'
  BY <1>2, <1>5, <1>8 DEF HookInv, HookTypeOK
<1>10. CASE ~sock[f].nb /\ Block(c, "connect", f, 0, 0, 0, FALSE)
  <2>1. \E some \in BOOLEAN :
          Block(c, "connect", f, 0, 0, 0, some) /\ (\/ sock[f].open /\ ~sock[f].nb
                                                    \/ call[c].pc = "blocked" /\ call[c].fd = f)
    BY <1>2, <1>10
  <2>2. CallStep(c)
    BY <1>1, <1>2, <1>5, <1>6, <1>7, <1>9, <2>1, WaitCall, SMTT(30)
  <2> QED BY <1>1, <2>2, CallStepKeeps
<1>11. CASE PollWait(c, "connect", f, {"OUT"}, 1, 0, 0)
  <2>1. CallStep(c)
    BY <1>1, <1>2, <1>5, <1>6, <1>7, <1>9, <1>11, WaitCall, SMTT(30)
  <2> QED BY <1>1, <2>1, CallStepKeeps
<1>12. CASE Return(c, EINPROGRESS)
  <2>1. EINPROGRESS \in Int /\ ~(EINPROGRESS > 0)
    BY DEF EINPROGRESS
  <2>2. CallStep(c)
    BY <1>1, <1>2, <1>5, <1>6, <1>9, <1>12, <2>1, ReturnCall
  <2> QED BY <1>1, <2>2, CallStepKeeps
<1> QED BY <1>10, <1>11, <1>12 DEF Connect

LEMMA PollReturnKeeps ==
  ASSUME HookInv, NEW c \in Co, PollReturn(c)
  PROVE  HookInv'
<1> DEFINE k == call[c]
<1>1. Blocked \subseteq {c} /\ k.pc \in {"poll", "turn"}
  BY DEF PollReturn, Busy, Blocked
<1>2. CallOK(c) /\ k.op \in Ops
  BY <1>1 DEF HookInv, CallOK
<1>3. CASE k.op \in {"read", "recvfrom"} /\ SysRead(c, k.op, k.fd)
  <2>1. k.fd \in Fds /\ sent[c] = 0
    BY <1>1, <1>2, <1>3 DEF CallOK, Writing
  <2> QED BY <1>1, <1>3, <2>1, SysReadStep, CallStepKeeps
<1>4. CASE k.op \in {"again", "once"} /\ SysWrite(c, k.op, k.fd, k.t, k.len, k.n)
  <2>1. k.fd \in Fds /\ k.op \in Writing /\ k.len \in Nat /\ k.n \in Nat /\ sent[c] = k.len
    BY <1>1, <1>2, <1>4 DEF CallOK, Writing
  <2> QED BY <1>1, <1>4, <2>1, SysWriteStep, CallStepKeeps
<1> QED BY <1>3, <1>4 DEF PollReturn

\* connect() and poll(): the report of the event loop, and the return.
LEMMA ConnectReportKeeps ==
  ASSUME HookInv, NEW c \in Co, ConnectReport(c)
  PROVE  HookInv'
<1>1. PICK x : /\ call' = [call EXCEPT ![c] = x]
               /\ x.pc = "ready" /\ x.op = "connect" /\ x.fd = call[c].fd
  <2> DEFINE y == [pc |-> "ready", op |-> "connect", fd |-> call[c].fd,
                   rev |-> Revents(call[c].fd, call[c].ev)]
  <2>1. call' = [call EXCEPT ![c] = y]
    BY DEF ConnectReport
  <2>2. y.pc = "ready" /\ y.op = "connect" /\ y.fd = call[c].fd
    OBVIOUS
  <2> HIDE DEF y
  <2> QED BY <2>1, <2>2
<1>2. call[c].pc = "poll" /\ call[c].op = "connect" /\ UNCHANGED <<hook, sock, info, stale, sent>>
  BY DEF ConnectReport
<1>3. sent[c] = 0 /\ x.fd \in Fds
  BY <1>1, <1>2 DEF HookInv, CallOK, Writing
<1>4. call'[c] = x /\ \A d \in Co \ {c} : call'[d] = call[d]
  BY <1>1 DEF HookInv, HookTypeOK
<1>5. HookTypeOK'
  BY <1>1, <1>2, CallFunction DEF HookInv, HookTypeOK
<1>6. CallOK(c)'
  BY <1>1, <1>2, <1>3, <1>4 DEF CallOK, Ops, Writing
<1>7. CallStep(c)
  BY <1>1, <1>2, <1>4, <1>5, <1>6 DEF CallStep
<1> QED BY <1>7, CallStepKeeps

LEMMA ConnectReturnKeeps ==
  ASSUME HookInv, NEW c \in Co, ConnectReturn(c)
  PROVE  HookInv'
<1>1. call[c].pc = "ready" /\ call[c].op = "connect" /\ UNCHANGED <<hook, sock, info, stale, sent>>
  BY DEF ConnectReturn
<1>2. sent[c] = 0
  BY <1>1 DEF HookInv, CallOK, Writing
<1>3. PICK r : r = ConnectResult(call[c].fd, call[c].rev)
  OBVIOUS
<1>4. r \in Int /\ ~(r > 0)
  BY <1>3 DEF ConnectResult, ETIMEDOUT, ERROR
<1>5. Return(c, r)
  BY <1>3 DEF ConnectReturn
<1>6. HookTypeOK'
  BY <1>1, <1>5, CallFunction DEF Return, HookInv, HookTypeOK
<1>7. CallStep(c)
  BY <1>1, <1>2, <1>4, <1>5, <1>6, ReturnCall
<1> QED BY <1>7, CallStepKeeps

LEMMA PollReportKeeps ==
  ASSUME HookInv, NEW c \in Co, PollReport(c)
  PROVE  HookInv'
<1>1. PICK x : /\ call' = [call EXCEPT ![c] = x]
               /\ x.pc = "ready" /\ x.op = "poll"
  BY DEF PollReport
<1>2. call[c].pc = "poll" /\ call[c].op = "poll" /\ UNCHANGED <<hook, sock, info, stale, sent>>
  BY DEF PollReport
<1>3. sent[c] = 0
  BY <1>2 DEF HookInv, CallOK, Writing
<1>4. call'[c] = x /\ \A d \in Co \ {c} : call'[d] = call[d]
  BY <1>1 DEF HookInv, HookTypeOK
<1>5. HookTypeOK'
  BY <1>1, <1>2, CallFunction DEF HookInv, HookTypeOK
<1>6. CallOK(c)'
  BY <1>1, <1>2, <1>3, <1>4 DEF CallOK, Ops, Writing
<1>7. CallStep(c)
  BY <1>1, <1>2, <1>4, <1>5, <1>6 DEF CallStep
<1> QED BY <1>7, CallStepKeeps

LEMMA UnblockKeeps ==
  ASSUME HookInv, NEW c \in Co, Unblock(c)
  PROVE  HookInv'
<1> DEFINE k == call[c]
           f == call[c].fd
<1>1. k.pc = "blocked"
  BY DEF Unblock
<1>2. CallOK(c) /\ k.op \in Ops \ {"poll"} /\ f \in Fds /\ sock[f].open
  BY <1>1 DEF HookInv, CallOK, StoppedOpen, Blocked
<1>3. k.op \in Writing => k.len \in Nat /\ k.n \in Nat /\ sent[c] = k.len
  BY <1>1, <1>2 DEF CallOK
<1>4. k.op \notin Writing => sent[c] = 0
  BY <1>1, <1>2 DEF CallOK
<1>5. CASE k.op \in {"read", "recvfrom"} /\ SysRead(c, k.op, f)
  <2>1. sent[c] = 0
    BY <1>4, <1>5 DEF Writing
  <2> QED BY <1>2, <1>5, <2>1, SysReadStep, CallStepKeeps
<1>6. CASE /\ k.op \in Writing
           /\ UNCHANGED <<hook, info, stale>>
           /\ LET m == Min({k.n, sock[f].room}) IN
              /\ Accepted(c, f, m)
              /\ IF m = k.n THEN Return(c, k.len + m)
                 ELSE Block(c, k.op, f, k.t, k.len + m, k.n - m, TRUE)
  <2>1. sock[f] \in Sockets
    BY <1>2, OpenSock
  <2>2. sock[f].room \in Nat
    BY <2>1 DEF Sockets
  <2>3. PICK m : m = Min({k.n, sock[f].room})
    OBVIOUS
  <2>4. m \in Nat /\ m <= k.n /\ m <= sock[f].room
    BY <1>3, <1>6, <2>2, <2>3, MinOfTwo
  <2>5. k.len + m \in Nat /\ k.n - m \in Nat
    BY <1>3, <1>6, <2>4
  <2>6. \/ Return(c, k.len + m)
        \/ Block(c, k.op, f, k.t, k.len + m, k.n - m, TRUE)
    BY <1>6, <2>3
  <2>7. call' = [d \in Co |-> call'[d]]
    BY <2>6, CallFunction DEF Return, Block
  <2>8. /\ HookTypeOK'
        /\ \A d \in Co \ {c} : sent'[d] = sent[d]
        /\ sent'[c] = k.len + m
        /\ \A g \in Fds : sock'[g].open = sock[g].open
        /\ \A g \in Fds : sock[g].open => sock'[g].nb = sock[g].nb
    <3>1. Accepted(c, f, m)
      BY <1>6, <2>3
    <3> QED BY <1>2, <1>3, <1>6, <2>4, <2>7, <3>1, AcceptedStep
  <2>9. CASE Return(c, k.len + m)
    BY <1>2, <1>6, <2>5, <2>8, <2>9, AfterTurn, CallStepKeeps
  <2>10. CASE Block(c, k.op, f, k.t, k.len + m, k.n - m, TRUE)
    <3>1. \E some \in BOOLEAN :
            Block(c, k.op, f, k.t, k.len + m, k.n - m, some)
              /\ ((sock[f].open /\ ~sock[f].nb) \/ (call[c].pc = "blocked" /\ call[c].fd = f))
      BY <1>1, <2>10
    <3>2. PICK op \in Ops \ {"poll"}, len \in Nat, n \in Nat :
            op = k.op /\ len = k.len + m /\ n = k.n - m
      BY <1>2, <2>5
    <3>3. UNCHANGED <<hook, info, stale>> /\ op \in Writing
      BY <1>6, <3>2
    <3>a. \E some \in BOOLEAN :
            /\ Block(c, op, f, k.t, len, n, some)
            /\ \/ sock[f].open /\ ~sock[f].nb
               \/ call[c].pc = "blocked" /\ call[c].fd = f
      BY <3>1, <3>2
    <3>b. sent'[c] = IF op \in Writing THEN len ELSE 0
      BY <2>8, <3>2, <3>3
    <3> HIDE DEF f, k
    <3>4. CallStep(c)
      BY <1>2, <2>8, <3>a, <3>b, <3>3, WaitCall
    <3> QED BY <3>4, CallStepKeeps
  <2> QED BY <2>6, <2>9, <2>10
<1>7. CASE /\ k.op \notin Writing /\ UNCHANGED <<hook, sock, info, stale, sent>>
           /\ \E r \in {0, ERROR, EAGAIN} : Return(c, r)
  <2>1. PICK r \in {0, ERROR, EAGAIN} : Return(c, r)
    BY <1>7
  <2>2. r \in Int /\ ~(r > 0)
    BY DEF ERROR, EAGAIN
  <2>3. HookTypeOK'
    BY <1>7, <2>1, CallFunction DEF Return, HookInv, HookTypeOK
  <2>4. CallStep(c)
    BY <1>4, <1>7, <2>1, <2>2, <2>3, ReturnCall
  <2> QED BY <2>4, CallStepKeeps
<1>8. CASE /\ k.op \in Writing /\ UNCHANGED <<hook, sock, info, stale, sent>>
           /\ \/ AfterWrite(c, k.op, f, k.t, k.len, k.n)
              \/ AfterEagain(c, k.op, f, k.t, k.len, k.n)
  <2>1. call' = [d \in Co |-> call'[d]] => HookTypeOK'
    BY <1>8 DEF HookInv, HookTypeOK
  <2>2. CallStep(c)
    BY <1>2, <1>3, <1>8, <2>1, AfterTurn
  <2> QED BY <2>2, CallStepKeeps
<1> QED BY <1>5, <1>6, <1>7, <1>8 DEF Unblock, Writing

LEMMA PollKeeps ==
  ASSUME HookInv, NEW c \in Co,
         PollEnds(c) \/ UseResult(c) \/ \E args \in PollArgs : Poll(c, args)
  PROVE  HookInv'
<1>1. CASE PollEnds(c)
  <2>1. PICK x : /\ call' = [call EXCEPT ![c] = x]
                 /\ x.pc = "idle" /\ x.res = DATA
    <3> DEFINE R == [i \in DOMAIN call[c].args |-> PollRevents(call[c].args, call[c].rev, i)]
    <3>1. call' = [call EXCEPT ![c] = [Idle(DATA) EXCEPT !.revents = R]]
      BY <1>1 DEF PollEnds
    <3>2. /\ [Idle(DATA) EXCEPT !.revents = R].pc = "idle"
          /\ [Idle(DATA) EXCEPT !.revents = R].res = DATA
      BY DEF Idle
    <3> QED BY <3>1, <3>2
  <2>2. sent[c] = 0
    BY <1>1 DEF PollEnds, HookInv, CallOK, Writing
  <2>3. call'[c] = x /\ \A d \in Co \ {c} : call'[d] = call[d]
    BY <2>1 DEF HookInv, HookTypeOK
  <2>4. HookTypeOK'
    BY <1>1, <2>1, CallFunction DEF PollEnds, HookInv, HookTypeOK
  <2>a. sent'[c] = 0
    BY <1>1, <2>2 DEF PollEnds
  <2>5. CallOK(c)'
    BY <2>1, <2>3, <2>a DEF CallOK, DATA
  <2>6. CallStep(c)
    BY <1>1, <2>1, <2>3, <2>4, <2>5 DEF CallStep, PollEnds
  <2> QED BY <2>6, CallStepKeeps
<1>2. CASE UseResult(c)
  <2>1. HookTypeOK'
    BY <1>2, CallFunction DEF UseResult, Return, HookInv, HookTypeOK
  <2>2. NONE \in Int /\ ~(NONE > 0)
    BY DEF NONE
  <2>3. sent'[c] = 0 /\ \A d \in Co \ {c} : sent'[d] = sent[d]
    BY <1>2 DEF UseResult, HookInv, HookTypeOK
  <2>4. CallStep(c)
    BY <1>2, <2>1, <2>2, <2>3, ReturnCall DEF UseResult
  <2> QED BY <2>4, CallStepKeeps
<1>3. CASE \E args \in PollArgs : Poll(c, args)
  <2>1. PICK args \in PollArgs : Poll(c, args)
    BY <1>3
  <2>2. sent[c] = 0
    BY <2>1, FreeThread DEF Poll
  <2>3. /\ call'[c] = [pc |-> "poll", op |-> "poll", args |-> args]
        /\ \A d \in Co \ {c} : call'[d] = call[d]
    BY <2>1 DEF Poll, HookInv, HookTypeOK
  <2>4. HookTypeOK'
    BY <2>1, CallFunction DEF Poll, HookInv, HookTypeOK
  <2>5. CallOK(c)'
    BY <2>1, <2>2, <2>3 DEF CallOK, Poll, Ops, Writing
  <2>6. CallStep(c)
    BY <2>1, <2>3, <2>4, <2>5 DEF CallStep, Poll
  <2> QED BY <2>6, CallStepKeeps
<1> QED BY <1>1, <1>2, <1>3

-----------------------------------------------------------------------------
\* A step that leaves the calls alone while nobody is stopped.
LEMMA FreeStepKeeps ==
  ASSUME HookInv, Blocked = {}, UNCHANGED <<call, sent>>, HookTypeOK', FlagsAgree'
  PROVE  HookInv'
<1>1. Blocked' = {}
  BY DEF Blocked
<1>2. StoppedOpen' /\ ThreadStops'
  BY <1>1 DEF StoppedOpen, ThreadStops
<1>3. \A c \in Co : CallOK(c)'
  BY DEF HookInv, CallOK
<1> QED BY <1>2, <1>3 DEF HookInv

LEMMA FlagTypes ==
  ASSUME HookInv, NEW c \in Co, NEW f \in Fds
  PROVE  info[f].used \in BOOLEAN /\ hook[c] \in BOOLEAN
<1>1. info[f] \in {NoInfo} \cup Infos /\ hook[c] \in BOOLEAN
  BY DEF HookInv, HookTypeOK
<1>2. NoInfo.used = FALSE
  BY DEF NoInfo
<1>3. \A i \in Infos : i.used = TRUE
  BY DEF Infos
<1> QED BY <1>1, <1>2, <1>3

LEMMA DescriptorKeeps ==
  ASSUME HookInv, NEW c \in Co, NEW f \in Fds, NEW nb \in BOOLEAN,
         Socket(c, f, nb) \/ Accept4(c, f, nb) \/ Close(c, f) \/ FcntlSetfl(c, f, nb)
  PROVE  HookInv'
<1>1. Blocked = {} /\ UNCHANGED <<hook, call, sent>>
  BY FreeThread DEF Socket, Accept4, Close, FcntlSetfl
<1>2. \A p \in BOOLEAN : \A x \in {"none", "ok"} :
        /\ NewSock(p, x) \in Sockets
        /\ NewSock(p, x).open /\ NewSock(p, x).nb = p
  BY HookAssumption DEF NewSock, Sockets
<1>3. /\ SocketInfoAlloc \in Infos /\ SocketInfoAlloc.used /\ ~SocketInfoAlloc.nb
      /\ \A p \in BOOLEAN : /\ [SocketInfoAlloc EXCEPT !.nb = p] \in Infos
                             /\ [SocketInfoAlloc EXCEPT !.nb = p].nb = p
      /\ ~NoInfo.used /\ ~Closed.open
  BY DEF SocketInfoAlloc, Infos, NoInfo, Closed
<1>4. CASE Socket(c, f, nb)
  <2>1. PICK p \in BOOLEAN :
          /\ sock' = [sock EXCEPT ![f] = NewSock(p, "none")]
          /\ info' = [info EXCEPT ![f] = IF hook[c] THEN [SocketInfoAlloc EXCEPT !.nb = p] ELSE @]
    <3>1. SetflParam(hook[c], SocketInfoAlloc, nb) \in BOOLEAN
      BY <1>3 DEF SetflParam, HookInv, HookTypeOK
    <3> QED BY <1>4, <3>1 DEF Socket
  <2>2. stale' = [stale EXCEPT ![f] = @ /\ ~hook[c]] /\ ~sock[f].open
    BY <1>4 DEF Socket
  <2>3. hook[c] \in BOOLEAN /\ sock' \in [Fds -> {Closed} \cup Sockets]
    BY <1>2, <2>1 DEF HookInv, HookTypeOK
  <2>4. info' \in [Fds -> {NoInfo} \cup Infos] /\ stale' \in [Fds -> BOOLEAN]
    BY <1>3, <2>1, <2>2, <2>3 DEF HookInv, HookTypeOK
  <2>5. HookTypeOK'
    BY <1>1, <2>3, <2>4 DEF HookInv, HookTypeOK
  <2>6. CASE hook[c]
    <3>1. sock'[f] = NewSock(p, "none") /\ info'[f] = [SocketInfoAlloc EXCEPT !.nb = p]
      BY <2>1, <2>6 DEF HookInv, HookTypeOK
    <3>2. \A g \in Fds \ {f} : sock'[g] = sock[g] /\ info'[g] = info[g] /\ stale'[g] = stale[g]
      BY <2>1, <2>2 DEF HookInv, HookTypeOK
    <3> QED BY <1>1, <1>2, <1>3, <2>5, <3>1, <3>2, FreeStepKeeps, ZenonT(30) DEF HookInv, FlagsAgree
  <2>7. CASE ~hook[c]
    <3>1. info'[f] = info[f] /\ stale'[f] = stale[f]
      BY <2>1, <2>2, <2>7 DEF HookInv, HookTypeOK
    <3>2. \A g \in Fds \ {f} : sock'[g] = sock[g] /\ info'[g] = info[g] /\ stale'[g] = stale[g]
      BY <2>1, <2>2 DEF HookInv, HookTypeOK
    <3> QED BY <1>1, <2>2, <2>5, <3>1, <3>2, FreeStepKeeps DEF HookInv, FlagsAgree
  <2> QED BY <2>3, <2>6, <2>7
<1>5. CASE Accept4(c, f, nb)
  <2>1. /\ sock' = [sock EXCEPT ![f] = NewSock(nb, "ok")]
        /\ info' = [info EXCEPT ![f] = IF hook[c] THEN SocketInfoAlloc ELSE @]
        /\ stale' = [stale EXCEPT ![f] = @ /\ ~hook[c]] /\ ~sock[f].open
    BY <1>5 DEF Accept4
  <2>2. hook[c] \in BOOLEAN /\ sock' \in [Fds -> {Closed} \cup Sockets]
    BY <1>2, <2>1 DEF HookInv, HookTypeOK
  <2>3. info' \in [Fds -> {NoInfo} \cup Infos] /\ stale' \in [Fds -> BOOLEAN]
    BY <1>3, <2>1, <2>2 DEF HookInv, HookTypeOK
  <2>4. HookTypeOK'
    BY <1>1, <2>2, <2>3 DEF HookInv, HookTypeOK
  <2>5. \A g \in Fds \ {f} : sock'[g] = sock[g] /\ info'[g] = info[g] /\ stale'[g] = stale[g]
    BY <2>1 DEF HookInv, HookTypeOK
  <2>6. info'[f] = IF hook[c] THEN SocketInfoAlloc ELSE info[f]
    BY <2>1 DEF HookInv, HookTypeOK
  <2>7. ~hook[c] => stale'[f] = stale[f]
    BY <2>1 DEF HookInv, HookTypeOK
  <2> QED BY <1>1, <1>3, <2>1, <2>4, <2>5, <2>6, <2>7, FreeStepKeeps DEF HookInv, FlagsAgree
<1>6. CASE Close(c, f)
  <2>1. /\ sock' = [sock EXCEPT ![f] = Closed]
        /\ info' = [info EXCEPT ![f] = IF hook[c] THEN NoInfo ELSE @]
        /\ stale' = [stale EXCEPT ![f] = ~hook[c] /\ info[f].used]
    BY <1>6 DEF Close
  <2>2. info[f].used \in BOOLEAN /\ hook[c] \in BOOLEAN
    BY FlagTypes
  <2>3. HookTypeOK'
    BY <1>1, <2>1, <2>2 DEF HookInv, HookTypeOK
  <2>4. \A g \in Fds \ {f} : sock'[g] = sock[g] /\ info'[g] = info[g] /\ stale'[g] = stale[g]
    BY <2>1 DEF HookInv, HookTypeOK
  <2>5. /\ info'[f] = IF hook[c] THEN NoInfo ELSE info[f]
        /\ ~hook[c] => stale'[f] = info[f].used
    BY <2>1, <2>2 DEF HookInv, HookTypeOK
  <2> QED BY <1>1, <1>3, <2>3, <2>4, <2>5, FreeStepKeeps DEF HookInv, FlagsAgree
<1>7. CASE FcntlSetfl(c, f, nb)
  <2>1. PICK p \in BOOLEAN :
          /\ sock' = [sock EXCEPT ![f].nb = p]
          /\ info' = IF info[f].used THEN [info EXCEPT ![f].nb = p] ELSE info
    <3>1. info[f].used \in BOOLEAN /\ hook[c] \in BOOLEAN
      BY FlagTypes
    <3>2. SetflParam(hook[c], info[f], nb) \in BOOLEAN
      BY <3>1 DEF SetflParam
    <3> QED BY <1>7, <3>2 DEF FcntlSetfl
  <2>2. UNCHANGED stale /\ sock[f] \in Sockets
    BY <1>7, OpenSock DEF FcntlSetfl
  <2>3. [sock[f] EXCEPT !.nb = p] \in Sockets
    BY <2>2 DEF Sockets
  <2>4. /\ sock' \in [Fds -> {Closed} \cup Sockets]
        /\ sock'[f] = [sock[f] EXCEPT !.nb = p]
        /\ \A g \in Fds \ {f} : sock'[g] = sock[g]
    BY <2>1, <2>3 DEF HookInv, HookTypeOK
  <2>5. info[f].used => info[f] \in Infos
    BY <1>3 DEF HookInv, HookTypeOK
  <2>6. info[f].used => [info[f] EXCEPT !.nb = p] \in Infos
    BY <2>5 DEF Infos
  <2>7. /\ info' \in [Fds -> {NoInfo} \cup Infos]
        /\ info[f].used => info'[f] = [info[f] EXCEPT !.nb = p]
        /\ ~info[f].used => info'[f] = info[f]
        /\ \A g \in Fds \ {f} : info'[g] = info[g]
    BY <2>1, <2>6 DEF HookInv, HookTypeOK
  <2>8. HookTypeOK'
    BY <1>1, <2>2, <2>4, <2>7 DEF HookInv, HookTypeOK
  <2>9. sock'[f].open /\ sock'[f].nb = p
    BY <2>2, <2>4, ZenonT(30) DEF Sockets
  <2>10. info[f].used => info'[f].nb = p
    BY <2>5, <2>7 DEF Infos
  <2>11. ~info[f].used => ~info'[f].used
    BY <2>7
  <2>12. FlagsAgree'
    BY <2>2, <2>4, <2>7, <2>9, <2>10, <2>11 DEF HookInv, FlagsAgree
  <2> QED BY <1>1, <2>8, <2>12, FreeStepKeeps
<1> QED BY <1>4, <1>5, <1>6, <1>7

LEMMA SetsockoptKeeps ==
  ASSUME HookInv, NEW c \in Co, NEW f \in Fds, NEW opt \in {"rto", "wto"}, NEW t \in {0, 1},
         Setsockopt(c, f, opt, t)
  PROVE  HookInv'
<1>1. Blocked = {} /\ UNCHANGED <<hook, call, stale, sent>>
  BY FreeThread DEF Setsockopt
<1>2. sock[f] \in Sockets
  BY OpenSock DEF Setsockopt
<1>3. PICK x : x = [sock[f] EXCEPT ![opt] = t] /\ sock' = [sock EXCEPT ![f] = x]
  BY DEF Setsockopt
<1>4. x \in Sockets /\ x.open = sock[f].open /\ x.nb = sock[f].nb
  <2>1. CASE opt = "rto"
    BY <1>2, <1>3, <2>1 DEF Sockets
  <2>2. CASE opt = "wto"
    BY <1>2, <1>3, <2>2 DEF Sockets
  <2> QED BY <2>1, <2>2
<1>5. PICK y : /\ y = [info[f] EXCEPT ![opt] = t]
               /\ info' = IF hook[c] /\ info[f].used THEN [info EXCEPT ![f] = y] ELSE info
  BY DEF Setsockopt
<1>6. info[f].used => y \in Infos /\ y.used = info[f].used /\ y.nb = info[f].nb
  <2>1. info[f].used => info[f] \in Infos
    BY DEF HookInv, HookTypeOK, NoInfo
  <2>2. CASE opt = "rto"
    BY <1>5, <2>1, <2>2 DEF Infos
  <2>3. CASE opt = "wto"
    BY <1>5, <2>1, <2>3 DEF Infos
  <2> QED BY <2>2, <2>3
<1>7. HookTypeOK'
  BY <1>1, <1>3, <1>4, <1>5, <1>6 DEF HookInv, HookTypeOK
<1>8. \A g \in Fds : /\ sock'[g].open = sock[g].open /\ sock'[g].nb = sock[g].nb
                     /\ info'[g].used = info[g].used
                     /\ info[g].used => info'[g].nb = info[g].nb
  BY <1>3, <1>4, <1>5, <1>6 DEF HookInv, HookTypeOK
<1>9. FlagsAgree'
  BY <1>1, <1>8 DEF HookInv, FlagsAgree
<1> QED BY <1>1, <1>7, <1>9, FreeStepKeeps

\* The environment, CoEnableHook and ioctl.
LEMMA OutsideKeeps ==
  ASSUME HookInv, NEW f \in Fds,
         \/ PeerSends(f) \/ PeerReads(f) \/ Ioctl(f)
         \/ \E r \in {"ok", "refused"} : PeerAnswers(f, r)
  PROVE  HookInv'
<1>1. sock[f] \in Sockets /\ UNCHANGED <<hook, info, call, stale, sent>>
  BY OpenSock DEF PeerSends, PeerReads, Ioctl, PeerAnswers, Usable
<1>2. sock[f].in \in Nat /\ sock[f].room \in Nat
  BY <1>1 DEF Sockets
<1>3. sock[f].in + 1 \in Nat /\ sock[f].room + 1 \in Nat
  BY <1>2
<1>4. PICK x : /\ sock' = [sock EXCEPT ![f] = x]
               /\ x \in Sockets /\ (x.nb = sock[f].nb \/ x.nb)
  <2>1. CASE PeerSends(f)
    <3>1. [sock[f] EXCEPT !.in = @ + 1] \in Sockets
      BY <1>1, <1>3 DEF Sockets
    <3>2. [sock[f] EXCEPT !.in = @ + 1].nb = sock[f].nb
      BY <1>1 DEF Sockets
    <3> QED BY <2>1, <3>1, <3>2 DEF PeerSends
  <2>2. CASE PeerReads(f)
    <3>1. [sock[f] EXCEPT !.room = @ + 1] \in Sockets
      BY <1>1, <1>3 DEF Sockets
    <3>2. [sock[f] EXCEPT !.room = @ + 1].nb = sock[f].nb
      BY <1>1 DEF Sockets
    <3> QED BY <2>2, <3>1, <3>2 DEF PeerReads
  <2>3. CASE Ioctl(f)
    <3>1. [sock[f] EXCEPT !.nb = TRUE] \in Sockets
      BY <1>1 DEF Sockets
    <3>2. [sock[f] EXCEPT !.nb = TRUE].nb
      BY <1>1 DEF Sockets
    <3> QED BY <2>3, <3>1, <3>2 DEF Ioctl
  <2>4. CASE \E r \in {"ok", "refused"} : PeerAnswers(f, r)
    <3>1. PICK r \in {"ok", "refused"} : PeerAnswers(f, r)
      BY <2>4
    <3>2. [sock[f] EXCEPT !.conn = r] \in Sockets
      BY <1>1 DEF Sockets
    <3>3. [sock[f] EXCEPT !.conn = r].nb = sock[f].nb
      BY <1>1 DEF Sockets
    <3> QED BY <3>1, <3>2, <3>3 DEF PeerAnswers
  <2> QED BY <2>1, <2>2, <2>3, <2>4
<1>5. /\ sock' \in [Fds -> {Closed} \cup Sockets] /\ sock'[f] = x
      /\ \A g \in Fds \ {f} : sock'[g] = sock[g]
  BY <1>4 DEF HookInv, HookTypeOK
<1>6. x.open
  BY <1>4 DEF Sockets
<1>7. HookTypeOK'
  BY <1>1, <1>5 DEF HookInv, HookTypeOK
<1>8. \A c \in Co : CallOK(c)'
  BY <1>1 DEF HookInv, CallOK
<1>9. \A g \in Fds : sock[g].open => sock'[g].open /\ (sock'[g].nb = sock[g].nb \/ sock'[g].nb)
  BY <1>4, <1>5, <1>6
<1>10. FlagsAgree'
  BY <1>1, <1>9 DEF HookInv, FlagsAgree
<1>11. Blocked' = Blocked
  BY <1>1 DEF Blocked
<1>12. StoppedOpen'
  <2>1. \A c \in Blocked : call[c].fd \in Fds
    BY DEF HookInv, CallOK, Blocked
  <2> QED BY <1>1, <1>9, <1>11, <2>1 DEF HookInv, StoppedOpen
<1>13. ThreadStops'
  BY <1>1, <1>11 DEF HookInv, ThreadStops
<1> QED BY <1>7, <1>8, <1>10, <1>12, <1>13 DEF HookInv

-----------------------------------------------------------------------------
LEMMA HookInvInit == HookInit => HookInv
<1> SUFFICES ASSUME HookInit PROVE HookInv
  OBVIOUS
<1> USE DEF HookInit
<1>1. HookTypeOK
  BY DEF HookTypeOK
<1>2. \A c \in Co : call[c].pc = "idle" /\ call[c].res = NONE
  BY DEF Idle
<1>3. \A c \in Co : CallOK(c)
  BY <1>2 DEF CallOK, NONE
<1>4. Blocked = {}
  BY <1>2 DEF Blocked
<1>5. FlagsAgree
  BY DEF FlagsAgree, NoInfo
<1> QED BY <1>1, <1>3, <1>4, <1>5 DEF HookInv, StoppedOpen, ThreadStops

LEMMA HookInvStep == HookInv /\ [HookNext]_hookVars => HookInv'
<1> SUFFICES ASSUME HookInv, [HookNext]_hookVars PROVE HookInv'
  OBVIOUS
<1>1. ASSUME NEW c \in Co, CoEnableHook(c) PROVE HookInv'
  <2>1. Blocked = {}
    BY <1>1, FreeThread DEF CoEnableHook
  <2>2. HookTypeOK' /\ FlagsAgree'
    BY <1>1 DEF CoEnableHook, HookInv, HookTypeOK, FlagsAgree
  <2> QED BY <1>1, <2>1, <2>2, FreeStepKeeps DEF CoEnableHook
<1>2. ASSUME NEW c \in Co, NEW f \in Fds, NEW n \in 1 .. MaxRoom + 1,
             Write(c, f, n) \/ Sendto(c, f, n)
      PROVE  HookInv'
  <2>1. n \in Nat
    BY HookAssumption
  <2> QED BY <1>2, <2>1, WriteKeeps
<1>3. ASSUME NEW c \in Co, NEW f \in Fds, Close(c, f) PROVE HookInv'
  <2>1. TRUE \in BOOLEAN
    OBVIOUS
  <2> QED BY <1>3, <2>1, DescriptorKeeps
<1>4. CASE UNCHANGED hookVars
  BY <1>4 DEF hookVars, HookInv, HookTypeOK, CallOK, StoppedOpen, FlagsAgree, ThreadStops,
              Blocked
<1> QED
  BY <1>1, <1>2, <1>3, <1>4, PollReturnKeeps, ConnectReportKeeps,
     ConnectReturnKeeps, PollReportKeeps, PollKeeps, UnblockKeeps, ConnectKeeps,
     ReadKeeps, DescriptorKeeps, SetsockoptKeeps, OutsideKeeps, Zenon DEF HookNext

\* The invariant holds of every behaviour of the hooks.
THEOREM HookInvariance == HookSpec => []HookInv
<1> QED BY HookInvInit, HookInvStep, PTL DEF HookSpec

\* A hooked call stops the whole thread only on a descriptor without a record, with
\* a record an unhooked close left, or with a clear flag.
THEOREM StopsOnClearFlag == HookSpec => []ThreadStops
<1>1. HookInv => ThreadStops
  BY DEF HookInv
<1> QED BY <1>1, HookInvariance, PTL

\* What write() and sendto() return is what the kernel took in all turns of the call.
THEOREM WriteCounts == HookSpec => []WriteExact
<1>1. HookInv => WriteExact
  BY DEF HookInv, CallOK, WriteExact
<1> QED BY <1>1, HookInvariance, PTL

-----------------------------------------------------------------------------
\* A connect() that waits, and what it may rely on: its descriptor is open and
\* connecting unless it was closed meanwhile, and once POLLOUT is reported the
\* connection is made or refused.
Connecting(c) == call[c].pc \in {"poll", "ready"} /\ call[c].op = "connect"

ConnectOK(c) ==
  Connecting(c) /\ call[c].fd \notin lost[c] =>
    /\ sock[call[c].fd].open /\ sock[call[c].fd].conn \in {"progress", "ok", "refused"}
    /\ call[c].pc = "ready" /\ "OUT" \in call[c].rev => sock[call[c].fd].conn # "progress"

\* A poll() that was reported to holds events of its descriptors only.
ReportOK(c) ==
  call[c].pc = "ready" /\ call[c].op = "poll" =>
    \A i \in DOMAIN call[c].args : LET f == call[c].args[i].fd IN
      call[c].rev[f] \subseteq Merged(call[c].args, f) \cup {"ERR"}

WaitInv ==
  /\ lost \in [Co -> SUBSET Fds]
  /\ \A c \in Co : ConnectOK(c) /\ ReportOK(c)

\* Nobody's wait begins or changes in a step, except perhaps by ending; and open
\* sockets stay as far as a connect() looks at them.
WaitsStay ==
  \A d \in Co : call'[d] = call[d]
                \/ (call'[d].pc # "ready" /\ ~(call'[d].pc = "poll" /\ call'[d].op = "connect"))
SocketsStay == \A f \in Fds : sock[f].open => sock'[f].open /\ sock'[f].conn = sock[f].conn

LEMMA WaitsKept ==
  ASSUME HookInv, WaitInv, WaitsStay, SocketsStay, UNCHANGED lost
  PROVE  WaitInv'
<1> SUFFICES ASSUME NEW d \in Co PROVE ConnectOK(d)' /\ ReportOK(d)'
  BY DEF WaitInv
<1>1. CASE call'[d] = call[d]
  <2>1. Connecting(d) => call[d].fd \in Fds
    BY DEF Connecting, HookInv, CallOK
  <2>2. ConnectOK(d)'
    BY <1>1, <2>1 DEF WaitInv, ConnectOK, Connecting, SocketsStay
  <2>3. ReportOK(d)'
    BY <1>1 DEF WaitInv, ReportOK, Merged
  <2> QED BY <2>2, <2>3
<1>2. CASE call'[d].pc # "ready" /\ ~(call'[d].pc = "poll" /\ call'[d].op = "connect")
  BY <1>2 DEF ConnectOK, ReportOK, Connecting
<1> QED BY <1>1, <1>2 DEF WaitsStay

\* A step that changes only c's call, and leaves it in no such wait.
LEMMA OwnCall ==
  ASSUME HookInv, NEW c \in Co, NEW x, call' = [call EXCEPT ![c] = x],
         x.pc \notin {"poll", "ready"} \/ (x.pc = "poll" /\ x.op # "connect")
  PROVE  WaitsStay /\ \A d \in Co \ {c} : call'[d] = call[d]
BY DEF WaitsStay, HookInv, HookTypeOK

LEMMA ReturnOwn ==
  ASSUME HookInv, NEW c \in Co, NEW r, Return(c, r)
  PROVE  WaitsStay /\ \A d \in Co \ {c} : call'[d] = call[d]
<1>1. call' = [call EXCEPT ![c] = Idle(r)] /\ Idle(r).pc = "idle"
  BY DEF Return, Idle
<1> QED BY <1>1, OwnCall

LEMMA BlockOwn ==
  ASSUME HookInv, NEW c \in Co, NEW op, NEW f, NEW t, NEW len, NEW n, NEW some,
         Block(c, op, f, t, len, n, some)
  PROVE  WaitsStay /\ \A d \in Co \ {c} : call'[d] = call[d]
<1> DEFINE x == [pc |-> "blocked", op |-> op, fd |-> f, t |-> t,
                 len |-> len, n |-> n, some |-> some]
<1>1. call' = [call EXCEPT ![c] = x] /\ x.pc = "blocked"
  BY DEF Block
<1> QED BY <1>1, OwnCall

LEMMA PollWaitOwn ==
  ASSUME HookInv, NEW c \in Co, NEW op, NEW f, NEW ev, NEW t, NEW len, NEW n,
         op # "connect", PollWait(c, op, f, ev, t, len, n)
  PROVE  WaitsStay /\ \A d \in Co \ {c} : call'[d] = call[d]
<1> DEFINE x == [pc |-> IF t = 0 THEN "turn" ELSE "poll", op |-> op, fd |-> f, ev |-> ev,
                 t |-> t, len |-> len, n |-> n]
<1>1. call' = [call EXCEPT ![c] = x] /\ x.pc \in {"turn", "poll"} /\ x.op = op
  BY DEF PollWait
<1> QED BY <1>1, OwnCall

\* The kernel takes or gives bytes.
LEMMA BytesStay ==
  ASSUME HookInv, NEW f \in Fds, sock[f].open,
         \/ \E m : sock' = [sock EXCEPT ![f].room = m]
         \/ \E m : sock' = [sock EXCEPT ![f].in = m]
         \/ \E b : sock' = [sock EXCEPT ![f].nb = b]
         \/ \E b : sock' = [sock EXCEPT ![f].rto = b]
         \/ \E b : sock' = [sock EXCEPT ![f].wto = b]
  PROVE  SocketsStay
<1>1. sock[f] \in Sockets
  BY OpenSock
<1>2. PICK x : /\ sock' = [sock EXCEPT ![f] = x]
               /\ x.open = sock[f].open /\ x.conn = sock[f].conn
  <2>1. CASE \E m : sock' = [sock EXCEPT ![f].room = m]
    BY <1>1, <2>1 DEF Sockets
  <2>2. CASE \E m : sock' = [sock EXCEPT ![f].in = m]
    BY <1>1, <2>2 DEF Sockets
  <2>3. CASE \E b : sock' = [sock EXCEPT ![f].nb = b]
    BY <1>1, <2>3 DEF Sockets
  <2>4. CASE \E b : sock' = [sock EXCEPT ![f].rto = b]
    BY <1>1, <2>4 DEF Sockets
  <2>5. CASE \E b : sock' = [sock EXCEPT ![f].wto = b]
    BY <1>1, <2>5 DEF Sockets
  <2> QED BY <2>1, <2>2, <2>3, <2>4, <2>5
<1>3. sock'[f] = x /\ \A g \in Fds \ {f} : sock'[g] = sock[g]
  BY <1>2 DEF HookInv, HookTypeOK
<1> QED BY <1>2, <1>3 DEF SocketsStay

LEMMA SysReadOwn ==
  ASSUME HookInv, NEW c \in Co, NEW op, NEW f \in Fds, SysRead(c, op, f)
  PROVE  WaitsStay /\ SocketsStay /\ UNCHANGED lost /\ \A d \in Co \ {c} : call'[d] = call[d]
<1>1. WaitsStay /\ \A d \in Co \ {c} : call'[d] = call[d]
  <2>1. (\E r : Return(c, r)) \/ Block(c, op, f, 0, 0, 0, FALSE)
    BY DEF SysRead
  <2> QED BY <2>1, ReturnOwn, BlockOwn
<1>2. SocketsStay
  <2>1. CASE UNCHANGED sock
    BY <2>1 DEF SocketsStay
  <2>2. CASE Usable(f) /\ sock' = [sock EXCEPT ![f].in = @ - 1]
    BY <2>2, BytesStay DEF Usable
  <2> QED BY <2>1, <2>2 DEF SysRead
<1> QED BY <1>1, <1>2 DEF SysRead

LEMMA TurnOwn ==
  ASSUME HookInv, NEW c \in Co, NEW op, NEW f, NEW t, NEW len, NEW n,
         AfterWrite(c, op, f, t, len, n) \/ AfterEagain(c, op, f, t, len, n)
  PROVE  WaitsStay /\ \A d \in Co \ {c} : call'[d] = call[d]
<1>1. \/ \E r : Return(c, r)
      \/ PollWait(c, "again", f, {"IN"}, t, len, n)
      \/ PollWait(c, "once", f, {"OUT"}, t, len, n)
  BY DEF AfterWrite, AfterEagain
<1> QED BY <1>1, ReturnOwn, PollWaitOwn

LEMMA AcceptedStays ==
  ASSUME HookInv, NEW c, NEW f \in Fds, NEW m, sock[f].open, Accepted(c, f, m)
  PROVE  SocketsStay
<1>1. \E r : sock' = [sock EXCEPT ![f].room = r]
  BY DEF Accepted
<1> QED BY <1>1, BytesStay

LEMMA SysWriteOwn ==
  ASSUME HookInv, NEW c \in Co, NEW op, NEW f \in Fds, NEW t, NEW len, NEW n,
         SysWrite(c, op, f, t, len, n)
  PROVE  WaitsStay /\ SocketsStay /\ UNCHANGED lost /\ \A d \in Co \ {c} : call'[d] = call[d]
<1>1. WaitsStay /\ \A d \in Co \ {c} : call'[d] = call[d]
  <2>1. \/ \E r : Return(c, r)
        \/ Block(c, op, f, t, len, n, FALSE)
        \/ PollWait(c, "again", f, {"IN"}, t, len, n)
        \/ \E m : AfterWrite(c, op, f, t, len + m, n - m)
        \/ AfterEagain(c, op, f, t, len, n)
    BY DEF SysWrite
  <2> QED BY <2>1, ReturnOwn, BlockOwn, PollWaitOwn, TurnOwn
<1>2. SocketsStay
  <2>1. CASE UNCHANGED sock
    BY <2>1 DEF SocketsStay
  <2>2. CASE Usable(f) /\ \E m : Accepted(c, f, m)
    BY <2>2, AcceptedStays DEF Usable
  <2> QED BY <2>1, <2>2 DEF SysWrite
<1> QED BY <1>1, <1>2 DEF SysWrite

LEMMA UnblockOwn ==
  ASSUME HookInv, NEW c \in Co, Unblock(c)
  PROVE  WaitsStay /\ SocketsStay /\ UNCHANGED lost /\ \A d \in Co \ {c} : call'[d] = call[d]
<1> DEFINE k == call[c]
           f == call[c].fd
<1>1. k.pc = "blocked" /\ f \in Fds /\ sock[f].open
  BY DEF Unblock, HookInv, CallOK, StoppedOpen, Blocked
<1>2. CASE SysRead(c, k.op, f)
  BY <1>1, <1>2, SysReadOwn
<1>3. CASE UNCHANGED <<lost, sock>>
           /\ \/ \E r : Return(c, r)
              \/ AfterWrite(c, k.op, f, k.t, k.len, k.n)
              \/ AfterEagain(c, k.op, f, k.t, k.len, k.n)
  <2>1. WaitsStay /\ \A d \in Co \ {c} : call'[d] = call[d]
    BY <1>3, ReturnOwn, TurnOwn
  <2> QED BY <1>3, <2>1 DEF SocketsStay
<1>4. CASE /\ UNCHANGED lost
           /\ \E m : Accepted(c, f, m) /\ (\/ Return(c, k.len + m)
                                           \/ Block(c, k.op, f, k.t, k.len + m, k.n - m, TRUE))
  BY <1>1, <1>4, AcceptedStays, ReturnOwn, BlockOwn
<1> QED BY <1>2, <1>3, <1>4 DEF Unblock

\* The calls of the application that neither look at reports nor at connections.
LEMMA TransferStays ==
  ASSUME HookInv, NEW c \in Co,
         \/ PollReturn(c) \/ Unblock(c) \/ UseResult(c) \/ \E args \in PollArgs : Poll(c, args)
         \/ \E f \in Fds, op \in {"read", "recvfrom"} : Read(c, op, f)
         \/ \E f \in Fds : \E n : Write(c, f, n) \/ Sendto(c, f, n)
  PROVE  WaitsStay /\ SocketsStay /\ UNCHANGED lost /\ \A d \in Co \ {c} : call'[d] = call[d]
<1>1. CASE PollReturn(c)
  <2>1. \/ call[c].op \in {"read", "recvfrom"} /\ SysRead(c, call[c].op, call[c].fd)
        \/ call[c].op \in {"again", "once"}
           /\ SysWrite(c, call[c].op, call[c].fd, call[c].t, call[c].len, call[c].n)
    BY <1>1 DEF PollReturn
  <2>2. call[c].pc # "idle" /\ call[c].op # "poll"
    BY <1>1, <2>1 DEF PollReturn
  <2>3. call[c].fd \in Fds
    BY <2>2 DEF HookInv, CallOK
  <2> QED BY <2>1, <2>3, SysReadOwn, SysWriteOwn
<1>2. CASE UseResult(c)
  <2>1. Return(c, NONE) /\ UNCHANGED <<lost, sock>>
    BY <1>2 DEF UseResult
  <2> QED BY <2>1, ReturnOwn DEF SocketsStay
<1>3. ASSUME NEW args \in PollArgs, Poll(c, args)
      PROVE  WaitsStay /\ SocketsStay /\ UNCHANGED lost /\ \A d \in Co \ {c} : call'[d] = call[d]
  <2> DEFINE x == [pc |-> "poll", op |-> "poll", args |-> args]
  <2>1. call' = [call EXCEPT ![c] = x] /\ x.pc = "poll" /\ x.op # "connect"
    BY <1>3 DEF Poll
  <2>2. UNCHANGED <<lost, sock>>
    BY <1>3 DEF Poll
  <2> QED BY <2>1, <2>2, OwnCall DEF SocketsStay
<1>4. ASSUME NEW f \in Fds, NEW op \in {"read", "recvfrom"}, Read(c, op, f)
      PROVE  WaitsStay /\ SocketsStay /\ UNCHANGED lost /\ \A d \in Co \ {c} : call'[d] = call[d]
  <2>1. CASE SysRead(c, op, f)
    BY <2>1, SysReadOwn
  <2>2. CASE /\ PollWait(c, op, f, ReadEv(op), ReadTimeout(op, info[f]), 0, 0)
             /\ UNCHANGED <<lost, sock>>
    BY <2>2, PollWaitOwn DEF SocketsStay
  <2> QED BY <1>4, <2>1, <2>2 DEF Read
<1>5. ASSUME NEW f \in Fds, NEW n, Write(c, f, n) \/ Sendto(c, f, n)
      PROVE  WaitsStay /\ SocketsStay /\ UNCHANGED lost /\ \A d \in Co \ {c} : call'[d] = call[d]
  <2>1. \E op, t : SysWrite(c, op, f, t, 0, n)
    BY <1>5 DEF Write, Sendto
  <2> QED BY <2>1, SysWriteOwn
<1> QED BY <1>1, <1>2, <1>3, <1>4, <1>5, UnblockOwn

\* The calls about descriptors, and the peers.
LEMMA DescriptorsKeepWaits ==
  ASSUME HookInv, WaitInv, NEW c \in Co, NEW f \in Fds,
         \/ \E nb \in BOOLEAN : Socket(c, f, nb) \/ Accept4(c, f, nb) \/ FcntlSetfl(c, f, nb)
         \/ \E opt \in {"rto", "wto"}, t \in {0, 1} : Setsockopt(c, f, opt, t)
         \/ Ioctl(f) \/ PeerSends(f) \/ PeerReads(f)
  PROVE  WaitInv' /\ UNCHANGED call
<1>1. UNCHANGED <<call, lost>>
  BY DEF Socket, Accept4, FcntlSetfl, Setsockopt, Ioctl, PeerSends, PeerReads
<1>2. WaitsStay
  BY <1>1 DEF WaitsStay
<1>3. SocketsStay
  <2>1. CASE ~sock[f].open /\ \E x : sock' = [sock EXCEPT ![f] = x]
    BY <2>1 DEF SocketsStay, HookInv, HookTypeOK
  <2>2. CASE /\ sock[f].open
             /\ \/ \E m : sock' = [sock EXCEPT ![f].room = m]
                \/ \E m : sock' = [sock EXCEPT ![f].in = m]
                \/ \E b : sock' = [sock EXCEPT ![f].nb = b]
                \/ \E b : sock' = [sock EXCEPT ![f].rto = b]
                \/ \E b : sock' = [sock EXCEPT ![f].wto = b]
    BY <2>2, BytesStay
  <2>3. ASSUME NEW nb, Socket(c, f, nb) \/ Accept4(c, f, nb) PROVE SocketsStay
    BY <2>1, <2>3 DEF Socket, Accept4
  <2>4. ASSUME NEW nb, FcntlSetfl(c, f, nb) PROVE SocketsStay
    BY <2>2, <2>4 DEF FcntlSetfl
  <2>5. ASSUME NEW opt \in {"rto", "wto"}, NEW t, Setsockopt(c, f, opt, t) PROVE SocketsStay
    <3>1. sock' = [sock EXCEPT ![f].rto = t] \/ sock' = [sock EXCEPT ![f].wto = t]
      BY <2>5 DEF Setsockopt
    <3> QED BY <2>2, <2>5, <3>1 DEF Setsockopt
  <2>6. CASE Ioctl(f) \/ PeerSends(f) \/ PeerReads(f)
    BY <2>2, <2>6 DEF Ioctl, PeerSends, PeerReads, Usable
  <2> QED BY <2>3, <2>4, <2>5, <2>6
<1> QED BY <1>1, <1>2, <1>3, WaitsKept

LEMMA AnswerKeepsWaits ==
  ASSUME HookInv, WaitInv, NEW f \in Fds, NEW r \in {"ok", "refused"}, PeerAnswers(f, r)
  PROVE  WaitInv' /\ UNCHANGED call
<1>1. UNCHANGED <<call, lost>> /\ sock[f] \in Sockets
  BY OpenSock DEF PeerAnswers
<1>2. /\ sock'[f].open = sock[f].open /\ sock'[f].conn = r
      /\ \A g \in Fds \ {f} : sock'[g] = sock[g]
  BY <1>1 DEF PeerAnswers, Sockets, HookInv, HookTypeOK
<1>3. ASSUME NEW d \in Co PROVE ConnectOK(d)' /\ ReportOK(d)'
  <2>1. ReportOK(d)'
    BY <1>1 DEF WaitInv, ReportOK, Merged
  <2>2. Connecting(d) => call[d].fd \in Fds
    BY DEF Connecting, HookInv, CallOK
  <2>3. ConnectOK(d)'
    BY <1>1, <1>2, <2>2 DEF WaitInv, ConnectOK, Connecting
  <2> QED BY <2>1, <2>3
<1> QED BY <1>1, <1>3 DEF WaitInv

LEMMA CloseKeepsWaits ==
  ASSUME HookInv, WaitInv, NEW c \in Co, NEW f \in Fds, Close(c, f)
  PROVE  WaitInv' /\ UNCHANGED call
<1>1. UNCHANGED call /\ \A g \in Fds \ {f} : sock'[g] = sock[g]
  BY DEF Close, HookInv, HookTypeOK
<1>2. \A d \in Co : lost'[d] = lost[d] \cup {g \in {f} : Looks(d)}
  BY DEF Close, Unwatch
<1>3. lost' \in [Co -> SUBSET Fds]
  BY DEF Close, Unwatch, WaitInv
<1>4. ASSUME NEW d \in Co PROVE ConnectOK(d)' /\ ReportOK(d)'
  <2>1. ReportOK(d)'
    BY <1>1 DEF WaitInv, ReportOK, Merged
  <2>2. Connecting(d) => call[d].fd \in Fds /\ Looks(d)
    BY DEF Connecting, Looks, HookInv, CallOK
  <2>3. Connecting(d) /\ call[d].fd = f => f \in lost'[d]
    BY <1>2, <2>2
  <2>4. ConnectOK(d)'
    BY <1>1, <1>2, <2>2, <2>3 DEF WaitInv, ConnectOK, Connecting
  <2> QED BY <2>1, <2>4
<1> QED BY <1>1, <1>3, <1>4 DEF WaitInv

\* connect(): the call begins, the event loop reports, the call returns.
LEMMA ConnectKeepsWaits ==
  ASSUME HookInv, WaitInv, NEW c \in Co, NEW f \in Fds, Connect(c, f)
  PROVE  WaitInv' /\ \A d \in Co \ {c} : call'[d] = call[d]
<1>1. /\ UNCHANGED lost /\ sock[f].open /\ sock[f].conn = "none"
      /\ sock' = [sock EXCEPT ![f].conn = "progress"]
  BY DEF Connect
<1>2. sock[f] \in Sockets
  BY <1>1, OpenSock
<1>3. /\ sock'[f].open /\ sock'[f].conn = "progress"
      /\ \A g \in Fds \ {f} : sock'[g] = sock[g]
  BY <1>1, <1>2 DEF Sockets, HookInv, HookTypeOK
<1>4. PICK x : /\ call' = [call EXCEPT ![c] = x]
               /\ \/ x.pc \in {"idle", "blocked"}
                  \/ x.pc = "poll" /\ x.op = "connect" /\ x.fd = f
  <2>1. CASE \E r : Return(c, r)
    <3>1. PICK r : Return(c, r)
      BY <2>1
    <3>2. call' = [call EXCEPT ![c] = Idle(r)] /\ Idle(r).pc = "idle"
      BY <3>1 DEF Return, Idle
    <3> QED BY <3>2
  <2>2. CASE Block(c, "connect", f, 0, 0, 0, FALSE)
    <3> DEFINE y == [pc |-> "blocked", op |-> "connect", fd |-> f, t |-> 0,
                     len |-> 0, n |-> 0, some |-> FALSE]
    <3>1. call' = [call EXCEPT ![c] = y] /\ y.pc = "blocked"
      BY <2>2 DEF Block
    <3> QED BY <3>1
  <2>3. CASE PollWait(c, "connect", f, {"OUT"}, 1, 0, 0)
    <3> DEFINE y == [pc |-> "poll", op |-> "connect", fd |-> f, ev |-> {"OUT"},
                     t |-> 1, len |-> 0, n |-> 0]
    <3>1. call' = [call EXCEPT ![c] = y] /\ y.pc = "poll" /\ y.op = "connect" /\ y.fd = f
      BY <2>3 DEF PollWait
    <3> QED BY <3>1
  <2> QED BY <2>1, <2>2, <2>3 DEF Connect
<1>5. call'[c] = x /\ \A d \in Co \ {c} : call'[d] = call[d]
  BY <1>4 DEF HookInv, HookTypeOK
<1>6. ConnectOK(c)' /\ ReportOK(c)'
  BY <1>3, <1>4, <1>5 DEF ConnectOK, ReportOK, Connecting
<1>7. ASSUME NEW d \in Co \ {c} PROVE ConnectOK(d)' /\ ReportOK(d)'
  <2>1. ReportOK(d)'
    BY <1>5 DEF WaitInv, ReportOK, Merged
  <2>2. Connecting(d) => call[d].fd \in Fds
    BY DEF Connecting, HookInv, CallOK
  <2>3. Connecting(d) /\ call[d].fd \notin lost[d] => call[d].fd # f
    BY <1>1 DEF WaitInv, ConnectOK
  <2>4. ConnectOK(d)'
    BY <1>1, <1>3, <1>5, <2>2, <2>3 DEF WaitInv, ConnectOK, Connecting
  <2> QED BY <2>1, <2>4
<1> QED BY <1>1, <1>5, <1>6, <1>7 DEF WaitInv

LEMMA ReportKeepsWaits ==
  ASSUME HookInv, WaitInv, NEW c \in Co, ConnectReport(c)
  PROVE  WaitInv' /\ \A d \in Co \ {c} : call'[d] = call[d]
<1> DEFINE f == call[c].fd
           rev == Revents(f, call[c].ev)
           x == [pc |-> "ready", op |-> "connect", fd |-> f, rev |-> rev]
<1>1. UNCHANGED <<sock, lost>> /\ Connecting(c)
  BY DEF ConnectReport, Connecting
<1>2. call' = [call EXCEPT ![c] = x]
  BY DEF ConnectReport
<1>3. call'[c] = x /\ \A d \in Co \ {c} : call'[d] = call[d]
  BY <1>2 DEF HookInv, HookTypeOK
<1>4. "OUT" \in rev => sock[f].conn # "progress"
  BY DEF Revents
<1>5. x.pc = "ready" /\ x.op = "connect" /\ x.fd = f /\ x.rev = rev
  OBVIOUS
<1>6. call'[c].pc = "ready" /\ call'[c].op = "connect" /\ call'[c].fd = f /\ call'[c].rev = rev
  BY <1>3, <1>5
<1> HIDE DEF x, rev
<1>7. ConnectOK(c)' /\ ReportOK(c)'
  BY <1>1, <1>4, <1>6 DEF WaitInv, ConnectOK, ReportOK, Connecting
<1>8. ASSUME NEW d \in Co \ {c} PROVE ConnectOK(d)' /\ ReportOK(d)'
  BY <1>1, <1>3 DEF WaitInv, ConnectOK, ReportOK, Connecting, Merged
<1> QED BY <1>1, <1>3, <1>7, <1>8 DEF WaitInv

\* The end of a wait, for connect() and for poll().
LEMMA EndKeepsWaits ==
  ASSUME HookInv, WaitInv, NEW c \in Co, NEW x, call' = [call EXCEPT ![c] = x],
         ~(x.pc \in {"poll", "ready"} /\ x.op = "connect"),
         x.pc = "ready" /\ x.op = "poll" =>
           \A i \in DOMAIN x.args : x.rev[x.args[i].fd]
                                      \subseteq Merged(x.args, x.args[i].fd) \cup {"ERR"},
         UNCHANGED sock, lost' = [lost EXCEPT ![c] = {}] \/ UNCHANGED lost
  PROVE  WaitInv' /\ \A d \in Co \ {c} : call'[d] = call[d]
<1>1. call'[c] = x /\ \A d \in Co \ {c} : call'[d] = call[d]
  BY DEF HookInv, HookTypeOK
<1>2. lost' \in [Co -> SUBSET Fds] /\ \A d \in Co \ {c} : lost'[d] = lost[d]
  BY DEF WaitInv
<1>3. ConnectOK(c)' /\ ReportOK(c)'
  BY <1>1 DEF ConnectOK, ReportOK, Connecting, Merged
<1>4. ASSUME NEW d \in Co \ {c} PROVE ConnectOK(d)' /\ ReportOK(d)'
  BY <1>1, <1>2 DEF WaitInv, ConnectOK, ReportOK, Connecting, Merged
<1> QED BY <1>1, <1>2, <1>3, <1>4 DEF WaitInv

LEMMA PollReportKeepsWaits ==
  ASSUME HookInv, WaitInv, NEW c \in Co, PollReport(c)
  PROVE  WaitInv' /\ \A d \in Co \ {c} : call'[d] = call[d]
<1> DEFINE args == call[c].args
           Fd == {args[i].fd : i \in DOMAIN args}
           events == [f \in Fd |-> IF f \in lost[c] THEN {} ELSE Revents(f, Merged(args, f))]
<1>1. PICK rev \in {events, [f \in Fd |-> {}]} :
        call' = [call EXCEPT ![c] = [pc |-> "ready", op |-> "poll", args |-> args, rev |-> rev]]
  BY DEF PollReport
<1> DEFINE x == [pc |-> "ready", op |-> "poll", args |-> args, rev |-> rev]
<1>2. \A f \in Fd : rev[f] \subseteq Merged(args, f) \cup {"ERR"}
  <2>1. \A f \in Fd : events[f] \subseteq Merged(args, f) \cup {"ERR"}
    BY DEF Revents
  <2> QED BY <2>1
<1>3. x.pc = "ready" /\ x.op = "poll" /\ x.args = args /\ x.rev = rev
  OBVIOUS
<1>4. \A i \in DOMAIN x.args : x.rev[x.args[i].fd]
                                 \subseteq Merged(x.args, x.args[i].fd) \cup {"ERR"}
  BY <1>2, <1>3
<1>5. call' = [call EXCEPT ![c] = x] /\ UNCHANGED sock /\ lost' = [lost EXCEPT ![c] = {}]
  BY <1>1 DEF PollReport
<1> HIDE DEF x, args
<1> QED BY <1>3, <1>4, <1>5, EndKeepsWaits

LEMMA ReturnKeepsWaits ==
  ASSUME HookInv, WaitInv, NEW c \in Co, ConnectReturn(c) \/ PollEnds(c)
  PROVE  WaitInv' /\ \A d \in Co \ {c} : call'[d] = call[d]
<1>1. PICK x : call' = [call EXCEPT ![c] = x] /\ x.pc = "idle"
  <2>1. CASE ConnectReturn(c)
    <3>1. PICK r : Return(c, r)
      BY <2>1 DEF ConnectReturn
    <3>2. call' = [call EXCEPT ![c] = Idle(r)] /\ Idle(r).pc = "idle"
      BY <3>1 DEF Return, Idle
    <3> QED BY <3>2
  <2>2. CASE PollEnds(c)
    <3> DEFINE R == [i \in DOMAIN call[c].args |-> PollRevents(call[c].args, call[c].rev, i)]
    <3>1. call' = [call EXCEPT ![c] = [Idle(DATA) EXCEPT !.revents = R]]
      BY <2>2 DEF PollEnds
    <3>2. [Idle(DATA) EXCEPT !.revents = R].pc = "idle"
      BY DEF Idle
    <3> QED BY <3>1, <3>2
  <2> QED BY <2>1, <2>2
<1>2. UNCHANGED sock /\ (lost' = [lost EXCEPT ![c] = {}] \/ UNCHANGED lost)
  BY DEF ConnectReturn, PollEnds
<1> QED BY <1>1, <1>2, EndKeepsWaits

\* A step keeps the waits in order, and only the end of a wait, or the kernel,
\* changes a call that is on its way.
LEMMA WaitStep ==
  ASSUME HookInv, WaitInv, HookNext
  PROVE  /\ WaitInv'
         /\ \A d \in Co : call[d].pc # "idle" /\ call'[d] # call[d] =>
              \/ PollReturn(d) \/ Unblock(d) \/ ConnectReport(d) \/ ConnectReturn(d)
              \/ PollReport(d) \/ PollEnds(d)
<1> DEFINE Goal == /\ WaitInv'
                   /\ \A d \in Co : call[d].pc # "idle" /\ call'[d] # call[d] =>
                        \/ PollReturn(d) \/ Unblock(d) \/ ConnectReport(d) \/ ConnectReturn(d)
                        \/ PollReport(d) \/ PollEnds(d)
<1>1. ASSUME NEW c \in Co, \/ PollReturn(c) \/ Unblock(c) \/ UseResult(c)
                           \/ \E args \in PollArgs : Poll(c, args)
                           \/ \E f \in Fds, op \in {"read", "recvfrom"} : Read(c, op, f)
                           \/ \E f \in Fds : \E n : Write(c, f, n) \/ Sendto(c, f, n)
      PROVE  Goal
  <2>1. WaitInv' /\ \A d \in Co \ {c} : call'[d] = call[d]
    BY <1>1, TransferStays, WaitsKept
  <2>2. call[c].pc = "idle" \/ PollReturn(c) \/ Unblock(c)
    BY <1>1 DEF UseResult, Poll, Read, Write, Sendto, Runs
  <2> QED BY <2>1, <2>2
<1>2. ASSUME NEW c \in Co, \/ ConnectReport(c) \/ ConnectReturn(c) \/ PollReport(c) \/ PollEnds(c)
      PROVE  Goal
  BY <1>2, ReportKeepsWaits, ReturnKeepsWaits, PollReportKeepsWaits
<1>3. ASSUME NEW c \in Co, NEW f \in Fds, Connect(c, f) PROVE Goal
  <2>1. call[c].pc = "idle"
    BY <1>3 DEF Connect, Runs
  <2> QED BY <1>3, <2>1, ConnectKeepsWaits
<1>4. ASSUME NEW c \in Co, NEW f \in Fds,
             \/ Close(c, f)
             \/ \E nb \in BOOLEAN : Socket(c, f, nb) \/ Accept4(c, f, nb) \/ FcntlSetfl(c, f, nb)
             \/ \E opt \in {"rto", "wto"}, t \in {0, 1} : Setsockopt(c, f, opt, t)
      PROVE  Goal
  BY <1>4, CloseKeepsWaits, DescriptorsKeepWaits
<1>5. ASSUME NEW c \in Co, CoEnableHook(c) PROVE Goal
  <2>1. UNCHANGED <<call, sock, lost>>
    BY <1>5 DEF CoEnableHook
  <2>2. WaitsStay /\ SocketsStay
    BY <2>1 DEF WaitsStay, SocketsStay
  <2> QED BY <2>1, <2>2, WaitsKept
<1>6. ASSUME NEW f \in Fds, Ioctl(f) \/ PeerSends(f) \/ PeerReads(f) PROVE Goal
  <2>1. UNCHANGED <<call, lost>> /\ SocketsStay
    BY <1>6, BytesStay DEF Ioctl, PeerSends, PeerReads, Usable
  <2>2. WaitsStay
    BY <2>1 DEF WaitsStay
  <2> QED BY <2>1, <2>2, WaitsKept
<1>7. ASSUME NEW f \in Fds, NEW r \in {"ok", "refused"}, PeerAnswers(f, r) PROVE Goal
  BY <1>7, AnswerKeepsWaits
<1> HIDE DEF Goal
<1>8. Goal
  BY <1>1, <1>2, <1>3, <1>4, <1>5, <1>6, <1>7, Zenon DEF HookNext
<1> QED BY <1>8 DEF Goal

LEMMA WaitInvariance == HookSpec => [](HookInv /\ WaitInv)
<1>1. HookInit => WaitInv
  <2> SUFFICES ASSUME HookInit, NEW c \in Co PROVE ConnectOK(c) /\ ReportOK(c)
    BY DEF HookInit, WaitInv
  <2>1. call[c].pc = "idle"
    BY DEF HookInit, Idle
  <2> QED BY <2>1 DEF ConnectOK, ReportOK, Connecting
<1>2. HookInv /\ WaitInv /\ [HookNext]_hookVars => WaitInv'
  <2>1. HookInv /\ WaitInv /\ HookNext => WaitInv'
    BY WaitStep
  <2>2. WaitInv /\ UNCHANGED hookVars => WaitInv'
    BY DEF hookVars, WaitInv, ConnectOK, ReportOK, Connecting, Merged
  <2> QED BY <2>1, <2>2
<1> QED BY <1>1, <1>2, HookInvariance, PTL DEF HookSpec

LEMMA ConnectStep ==
  ASSUME HookInv, WaitInv, [HookNext]_hookVars, NEW c \in Co,
         call[c].pc # "idle", call[c].op = "connect", call'[c] = Idle(0)
  PROVE  \/ sock[call[c].fd].conn = "ok"
         \/ call[c].pc = "ready" /\ call[c].fd \in lost[c]
<1>1. call'[c] # call[c] /\ call'[c].pc = "idle"
  BY DEF Idle
<1>2. HookNext
  BY <1>1 DEF hookVars
<1>3. ConnectReturn(c) \/ ConnectReport(c) \/ Unblock(c)
  BY <1>1, <1>2, WaitStep DEF PollReturn, PollReport, PollEnds
<1>5. ASSUME NEW r, Return(c, r) PROVE r = 0
  <2>1. Idle(r) = Idle(0)
    BY <1>5 DEF Return, HookInv, HookTypeOK
  <2> QED BY <2>1 DEF Idle
<1>6. CASE ConnectReturn(c)
  <2>1. call[c].pc = "ready" /\ Return(c, ConnectResult(call[c].fd, call[c].rev))
    BY <1>6 DEF ConnectReturn
  <2>2. ConnectResult(call[c].fd, call[c].rev) = 0
    BY <1>5, <2>1
  <2>3. "OUT" \in call[c].rev /\ sock[call[c].fd].conn # "refused"
    BY <2>2 DEF ConnectResult, ETIMEDOUT, ERROR
  <2> QED BY <2>1, <2>3 DEF WaitInv, ConnectOK, Connecting
<1>7. CASE Unblock(c)
  <2>1. Return(c, IF sock[call[c].fd].conn = "ok" THEN 0 ELSE ERROR)
    BY <1>7 DEF Unblock
  <2> QED BY <1>5, <2>1 DEF ERROR
<1>8. ~ConnectReport(c)
  <2>1. ASSUME ConnectReport(c) PROVE \E x : call'[c] = x /\ x.pc = "ready"
    <3> DEFINE x == [pc |-> "ready", op |-> "connect", fd |-> call[c].fd,
                     rev |-> Revents(call[c].fd, call[c].ev)]
    <3>1. call'[c] = x
      BY <2>1 DEF ConnectReport, HookInv, HookTypeOK
    <3> QED BY <3>1
  <2> QED BY <1>1, <2>1
<1> QED BY <1>3, <1>6, <1>7, <1>8

\* connect() reports success only for a connection that was made, whatever other
\* coroutines do with the descriptor between the report and the look at SO_ERROR,
\* as long as none of them closes it.
THEOREM ConnectIsTrue == HookSpec => ConnectTruth
<1>1. HookInv /\ WaitInv /\ [HookNext]_hookVars =>
        [\A c \in Co : call[c].pc # "idle" /\ call[c].op = "connect" /\ call'[c] = Idle(0)
           => \/ sock[call[c].fd].conn = "ok"
              \/ call[c].pc = "ready" /\ call[c].fd \in lost[c]]_hookVars
  BY ConnectStep
<1> QED BY <1>1, WaitInvariance, PTL DEF HookSpec, ConnectTruth

\* What poll() is told, and what it returns.
LEMMA PollStep ==
  ASSUME HookInv, WaitInv, [HookNext]_hookVars, NEW c \in Co,
         call[c].pc # "idle", call[c].op = "poll", NEW i \in DOMAIN call[c].args
  PROVE  LET a == call[c].args[i] IN
         /\ call[c].pc = "poll" /\ call'[c].pc = "ready" /\ call'[c].rev[a.fd] # {}
              => /\ a.fd \notin lost[c]
                 /\ (call'[c].rev[a.fd] \cap a.ev) \ {"ERR"} = Revents(a.fd, a.ev) \ {"ERR"}
         /\ call[c].pc = "ready" /\ call'[c].pc = "idle"
              => call'[c].revents[i] \ {"ERR"} = (call[c].rev[a.fd] \cap a.ev) \ {"ERR"}
<1> DEFINE args == call[c].args
           a == args[i]
           Fd == {args[j].fd : j \in DOMAIN args}
           events == [f \in Fd |-> IF f \in lost[c] THEN {} ELSE Revents(f, Merged(args, f))]
<1>1. a.ev \subseteq Merged(args, a.fd) /\ a.fd \in Fd
  BY DEF Merged
<1>2. ASSUME call[c].pc = "poll", call'[c].pc = "ready", call'[c].rev[a.fd] # {}
      PROVE  /\ a.fd \notin lost[c]
             /\ (call'[c].rev[a.fd] \cap a.ev) \ {"ERR"} = Revents(a.fd, a.ev) \ {"ERR"}
  <2>1. HookNext /\ call'[c] # call[c]
    BY <1>2 DEF hookVars
  <2>2. PollReport(c)
    BY <1>2, <2>1, WaitStep DEF PollReturn, Unblock, ConnectReport, ConnectReturn, PollEnds
  <2>3. PICK rev \in {events, [f \in Fd |-> {}]} :
          call' = [call EXCEPT ![c] = [pc |-> "ready", op |-> "poll", args |-> args, rev |-> rev]]
    BY <2>2 DEF PollReport
  <2>4. call'[c].rev = rev
    BY <2>3 DEF HookInv, HookTypeOK
  <2>5. rev = events /\ a.fd \notin lost[c] /\ rev[a.fd] = Revents(a.fd, Merged(args, a.fd))
    BY <1>1, <1>2, <2>4
  <2>6. (Revents(a.fd, Merged(args, a.fd)) \cap a.ev) \ {"ERR"} = Revents(a.fd, a.ev) \ {"ERR"}
    BY <1>1 DEF Revents
  <2> QED BY <2>4, <2>5, <2>6
<1>3. ASSUME call[c].pc = "ready", call'[c].pc = "idle"
      PROVE  call'[c].revents[i] \ {"ERR"} = (call[c].rev[a.fd] \cap a.ev) \ {"ERR"}
  <2> DEFINE R == [j \in DOMAIN args |-> PollRevents(args, call[c].rev, j)]
  <2>1. HookNext /\ call'[c] # call[c]
    BY <1>3 DEF hookVars
  <2>2. PollEnds(c)
    BY <1>3, <2>1, WaitStep DEF PollReturn, Unblock, ConnectReport, ConnectReturn, PollReport
  <2>3. call'[c] = [Idle(DATA) EXCEPT !.revents = R]
    BY <2>2 DEF PollEnds, HookInv, HookTypeOK
  <2>4. call'[c].revents = R
    BY <2>3 DEF Idle
  <2>5. call'[c].revents[i] = PollRevents(args, call[c].rev, i)
    BY <2>4
  <2>6. CASE HasDup(args)
    BY <2>5, <2>6 DEF PollRevents
  <2>7. CASE ~HasDup(args)
    <3>1. Merged(args, a.fd) \subseteq a.ev
      BY <2>7 DEF Merged, HasDup
    <3>2. call[c].rev[a.fd] \subseteq Merged(args, a.fd) \cup {"ERR"}
      BY <1>3 DEF WaitInv, ReportOK
    <3>3. call'[c].revents[i] = call[c].rev[a.fd]
      BY <2>5, <2>7 DEF PollRevents
    <3> QED BY <3>1, <3>2, <3>3
  <2> QED BY <2>6, <2>7
<1> QED BY <1>2, <1>3

\* Every entry of a merged poll gets what it asked for, as it was when the event loop
\* reported, and no other entry's events.
THEOREM PollIsFaithful == HookSpec => PollFaithful
<1>1. HookInv /\ WaitInv /\ [HookNext]_hookVars =>
        [\A c \in Co : call[c].pc # "idle" /\ call[c].op = "poll" =>
           \A i \in DOMAIN call[c].args : LET a == call[c].args[i] IN
             /\ call[c].pc = "poll" /\ call'[c].pc = "ready" /\ call'[c].rev[a.fd] # {}
                  => /\ a.fd \notin lost[c]
                     /\ (call'[c].rev[a.fd] \cap a.ev) \ {"ERR"} = Revents(a.fd, a.ev) \ {"ERR"}
             /\ call[c].pc = "ready" /\ call'[c].pc = "idle"
                  => call'[c].revents[i] \ {"ERR"} = (call[c].rev[a.fd] \cap a.ev) \ {"ERR"}]_hookVars
  BY PollStep
<1> QED BY <1>1, WaitInvariance, PTL DEF HookSpec, PollFaithful

-----------------------------------------------------------------------------
\* CoEnv.
EnvTypeOK ==
  /\ hooked \in [EnvCo -> BOOLEAN]
  /\ pv_env = [c \in EnvCo |-> pv_env[c]]

\* A call that only makes the caller's copy changes no private value.
LEMMA TouchKeeps ==
  ASSUME EnvTypeOK, NEW e \in EnvCo, Touch(e), UNCHANGED <<hooked, g_env_list>>,
         NEW c \in EnvCo, NEW n \in Names, Sees(c, n)
  PROVE  getenv(c, n)' = getenv(c, n)
<1>1. List(c)' = List(c)
  BY DEF Touch, List, EnvTypeOK
<1>2. Private(c)' = Private(c)
  BY DEF Private
<1> QED BY <1>1, <1>2 DEF getenv, Sees

LEMMA SetKeepsOthers ==
  ASSUME EnvTypeOK, NEW e \in EnvCo, NEW k, NEW v, SetIn(e, k, v),
         NEW c \in EnvCo \ {e}, NEW n \in Names, Sees(c, n)
  PROVE  getenv(c, n)' = getenv(c, n)
<1>1. List(c)' = List(c)
  BY DEF SetIn, List, EnvTypeOK
<1>2. Private(c)' = Private(c)
  BY DEF Private, SetIn
<1> QED BY <1>1, <1>2 DEF getenv, Sees

LEMMA EnvTypeStep == EnvTypeOK /\ [EnvNext]_envVars => EnvTypeOK'
<1> SUFFICES ASSUME EnvTypeOK, [EnvNext]_envVars PROVE EnvTypeOK'
  OBVIOUS
<1>1. ASSUME NEW e \in EnvCo, Touch(e), UNCHANGED hooked PROVE EnvTypeOK'
  BY <1>1 DEF Touch, EnvTypeOK
<1>2. ASSUME NEW e \in EnvCo, NEW k, NEW v, SetIn(e, k, v) PROVE EnvTypeOK'
  BY <1>2 DEF SetIn, EnvTypeOK
<1>3. ASSUME NEW e \in EnvCo, EnvEnableHook(e) PROVE EnvTypeOK'
  BY <1>3 DEF EnvEnableHook, EnvTypeOK
<1>4. ASSUME NEW S \in SUBSET Names, SetEnvList(S) PROVE EnvTypeOK'
  BY <1>4 DEF SetEnvList, EnvTypeOK
<1>5. CASE UNCHANGED envVars
  BY <1>5 DEF envVars, EnvTypeOK
<1> QED
  BY <1>1, <1>2, <1>3, <1>4, <1>5 DEF EnvNext, GetenvCall, setenv, unsetenv

LEMMA EnvStep ==
  ASSUME EnvTypeOK, [EnvNext]_envVars, NEW c \in EnvCo, NEW d \in EnvCo,
         NEW n \in Names, NEW m \in Names, Sees(c, n), getenv(c, n)' # getenv(c, n)
  PROVE  /\ environ' = environ
         /\ c # d /\ Sees(d, m) => getenv(d, m)' = getenv(d, m)
<1>1. ASSUME NEW e \in EnvCo, Touch(e), UNCHANGED <<hooked, g_env_list>> PROVE FALSE
  BY <1>1, TouchKeeps
<1>2. ASSUME NEW e \in EnvCo, NEW k, NEW v, SetIn(e, k, v)
      PROVE  /\ environ' = environ
             /\ c # d /\ Sees(d, m) => getenv(d, m)' = getenv(d, m)
  <2>1. e = c
    BY <1>2, SetKeepsOthers
  <2> QED BY <1>2, <2>1, SetKeepsOthers DEF SetIn
<1>3. ASSUME NEW e \in EnvCo, EnvEnableHook(e) PROVE FALSE
  <2>1. List(c)' = List(c) /\ environ' = environ
    BY <1>3 DEF List, EnvEnableHook
  <2>2. Private(c)
    BY DEF Sees
  <2>3. Private(c)'
    BY <1>3, <2>2 DEF Private, EnvEnableHook, EnvTypeOK
  <2> QED BY <2>1, <2>2, <2>3 DEF getenv
<1>4. ASSUME NEW S \in SUBSET Names, SetEnvList(S) PROVE FALSE
  BY <1>4 DEF SetEnvList, Sees, Private
<1>5. CASE UNCHANGED envVars
  BY <1>5 DEF envVars, getenv, Private, List
<1> QED
  BY <1>1, <1>2, <1>3, <1>4, <1>5 DEF EnvNext, GetenvCall, setenv, unsetenv

\* setenv and unsetenv of a hooked coroutine reach neither the process environment
\* nor another coroutine's private variables.
THEOREM EnvIsPrivate == EnvSpec => EnvPrivate
<1>1. EnvInit => EnvTypeOK
  BY DEF EnvInit, EnvTypeOK
<1>2. EnvTypeOK /\ [EnvNext]_envVars =>
        [\A c, d \in EnvCo, n, m \in Names :
           Sees(c, n) /\ getenv(c, n)' # getenv(c, n) =>
             /\ environ' = environ
             /\ c # d /\ Sees(d, m) => getenv(d, m)' = getenv(d, m)]_envVars
  BY EnvStep
<1> QED BY <1>1, <1>2, EnvTypeStep, PTL DEF EnvSpec, EnvPrivate
=============================================================================
