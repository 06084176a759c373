------------------------------- MODULE CoHook -------------------------------
(* The system calls of misc/coroutine/co_hook.cpp on sockets: a coroutine    *)
(* that called CoEnableHook() waits in poll(), and so in the event loop,     *)
(* where the system call would have stopped the whole thread.                *)
(*                                                                           *)
(* The coroutines share one thread, so a call runs without interruption      *)
(* until it waits in poll() ("poll") or until the kernel stops the thread    *)
(* ("blocked"), and then only the environment moves; a poll() with timeout 0 *)
(* keeps the thread ("turn").  A poll ends because its descriptor is ready   *)
(* or because its time is over, and it returns later: once its end is on the *)
(* active list of the event loop ("ready") other coroutines may run first.   *)
(* The kernel (sys_*_func) is external: a socket has its O_NONBLOCK flag,    *)
(* bytes to read, room to write, the state of its connection and its own     *)
(* timeouts.                                                                 *)
(* Timeouts are 0 or 1: in the hooks 0 asks poll() not to wait at all, in    *)
(* the kernel it means no limit.                                             *)
EXTENDS Integers, Sequences, FiniteSets, FiniteSetsExt

CONSTANTS
  Co,         \* coroutines of the thread
  NoCo,
  Fds,        \* descriptors of sockets, within the table g_socket_info
  NoFd,       \* the descriptor -1
  PollArgs,   \* arguments of poll(): sequences of [fd, events]
  MaxIn,      \* bound: bytes waiting to be read
  MaxRoom     \* bound: bytes the send buffer takes

ASSUME HookAssumption ==
  /\ NoCo \notin Co /\ NoFd \notin Fds
  /\ MaxIn \in Nat \ {0} /\ MaxRoom \in Nat \ {0}

VARIABLES
  hook,       \* hook[c]: self->enable_sys_hook
  sock,       \* sock[f]: the kernel's socket, or Closed
  info,       \* info[f]: g_socket_info[f], or NoInfo
  call,       \* call[c]: the call c is in, and the last one's result
  lost,       \* lost[c]: descriptors closed since c waits for them
  stale,      \* history: closed without the hook, its socket_info left
  sent        \* history: bytes the kernel accepted in c's write

hookVars == <<hook, sock, info, call, lost, stale, sent>>

Closed == [open |-> FALSE]
NoInfo == [used |-> FALSE]

\* A new socket of the kernel.
NewSock(nb, c) == [open |-> TRUE, nb |-> nb, in |-> 0, room |-> MaxRoom,
                   conn |-> c, rto |-> 0, wto |-> 0]

\* SocketInfoAlloc: flag 0, both timeouts one second.
SocketInfoAlloc == [used |-> TRUE, nb |-> FALSE, rto |-> 1, wto |-> 1]

\* Results of calls that are not a number of bytes; NONE: no result to look at.
NONE == -1
DATA == -2
EAGAIN == -3
ERROR == -4
EINPROGRESS == -5
ETIMEDOUT == -6

Idle(r) == [pc |-> "idle", res |-> r, revents |-> << >>]

HookInit ==
  /\ hook = [c \in Co |-> FALSE]
  /\ sock = [f \in Fds |-> Closed]
  /\ info = [f \in Fds |-> NoInfo]
  /\ call = [c \in Co |-> Idle(NONE)]
  /\ lost = [c \in Co |-> {}]
  /\ stale = [f \in Fds |-> FALSE]
  /\ sent = [c \in Co |-> 0]

Blocked == {c \in Co : call[c].pc = "blocked"}
\* Who holds the thread: stopped, in a turn without waiting, or with a result
\* it is about to look at.
Busy == {c \in Co : \/ call[c].pc \in {"blocked", "turn"}
                    \/ call[c].pc = "idle" /\ call[c].res # NONE}

\* The thread is free and c runs.
Runs(c) == Busy = {} /\ call[c].pc = "idle"

\* The calls after which the hooks wait: the caller is hooked and the recorded
\* flag of the descriptor is clear.
Waits(c, f) == hook[c] /\ info[f].used /\ ~info[f].nb

CoEnableHook(c) ==
  /\ Runs(c) /\ ~hook[c]
  /\ hook' = [hook EXCEPT ![c] = TRUE]
  /\ UNCHANGED <<sock, info, call, lost, stale, sent>>

-----------------------------------------------------------------------------
\* Descriptors.

\* fcntl(f, F_SETFL, .) by a caller with the hook h: what it does to the flags.
SetflParam(h, i, nb) == nb \/ (h /\ i.used)

\* socket(): the flags are written back through the hooked fcntl.
Socket(c, f, nb) ==
  /\ Runs(c) /\ ~sock[f].open
  /\ LET p == SetflParam(hook[c], SocketInfoAlloc, nb) IN
     /\ sock' = [sock EXCEPT ![f] = NewSock(p, "none")]
     /\ info' = [info EXCEPT ![f] =
          IF hook[c] THEN [SocketInfoAlloc EXCEPT !.nb = p] ELSE @]
  /\ stale' = [stale EXCEPT ![f] = @ /\ ~hook[c]]
  /\ UNCHANGED <<hook, lost, call, sent>>

\* accept4() of a new connection; the record does not take over SOCK_NONBLOCK.
Accept4(c, f, nb) ==
  /\ Runs(c) /\ ~sock[f].open
  /\ sock' = [sock EXCEPT ![f] = NewSock(nb, "ok")]
  /\ info' = [info EXCEPT ![f] = IF hook[c] THEN SocketInfoAlloc ELSE @]
  /\ stale' = [stale EXCEPT ![f] = @ /\ ~hook[c]]
  /\ UNCHANGED <<hook, lost, call, sent>>

\* c's call looks at what is reported, connect() until it returns, poll() until
\* the event loop has taken over its events.
Looks(c) == \/ call[c].pc = "poll" /\ call[c].op \in {"connect", "poll"}
            \/ call[c].pc = "ready" /\ call[c].op = "connect"

\* The kernel takes a descriptor that is closed out of the epoll set: a call that
\* waits for it loses it.
Unwatch(f) == lost' = [d \in Co |-> lost[d] \cup {g \in {f} : Looks(d)}]

\* Mutant of Close: the record is kept.
CloseKeepsInfo(c, f) ==
  /\ Runs(c) /\ sock[f].open
  /\ sock' = [sock EXCEPT ![f] = Closed]
  /\ stale' = [stale EXCEPT ![f] = ~hook[c] /\ info[f].used]
  /\ Unwatch(f)
  /\ UNCHANGED <<hook, info, call, sent>>

\* close(): only a hooked caller frees the record.
Close(c, f) ==
  /\ Runs(c) /\ sock[f].open
  /\ sock' = [sock EXCEPT ![f] = Closed]
  /\ info' = [info EXCEPT ![f] = IF hook[c] THEN NoInfo ELSE @]
  /\ stale' = [stale EXCEPT ![f] = ~hook[c] /\ info[f].used]
  /\ Unwatch(f)
  /\ UNCHANGED <<hook, call, sent>>

\* fcntl(F_SETFL).
FcntlSetfl(c, f, nb) ==
  /\ Runs(c) /\ sock[f].open
  /\ LET p == SetflParam(hook[c], info[f], nb) IN
     /\ sock' = [sock EXCEPT ![f].nb = p]
     /\ info' = IF info[f].used THEN [info EXCEPT ![f].nb = p] ELSE info
  /\ UNCHANGED <<hook, lost, call, stale, sent>>

\* setsockopt(SO_RCVTIMEO) and setsockopt(SO_SNDTIMEO).
Setsockopt(c, f, opt, t) ==
  /\ Runs(c) /\ sock[f].open
  /\ sock' = [sock EXCEPT ![f] = [@ EXCEPT ![opt] = t]]
  /\ info' = IF hook[c] /\ info[f].used
             THEN [info EXCEPT ![f] = [@ EXCEPT ![opt] = t]] ELSE info
  /\ UNCHANGED <<hook, lost, call, stale, sent>>

\* The application sets the flag by ioctl(FIONBIO), which is not hooked.
Ioctl(f) ==
  /\ Busy = {} /\ sock[f].open /\ ~sock[f].nb
  /\ sock' = [sock EXCEPT ![f].nb = TRUE]
  /\ UNCHANGED <<hook, lost, info, call, stale, sent>>

-----------------------------------------------------------------------------
\* Waiting.

\* What the kernel reports for f to somebody who asks for the events ev; an
\* error is always reported; a refused connection is also writable, and so is a
\* socket that is not connected.
Revents(f, ev) ==
  IF f = NoFd \/ ~sock[f].open THEN {}
  ELSE {e \in ev : \/ e = "IN" /\ sock[f].in > 0
                   \/ /\ e = "OUT" /\ sock[f].room > 0
                      /\ sock[f].conn # "progress"}
       \cup {e \in {"ERR"} : sock[f].conn = "refused"}

\* c waits in the hooked poll() with timeout t, in operation op on f; len of
\* its bytes are written, n are left.
PollWait(c, op, f, ev, t, len, n) ==
  call' = [call EXCEPT ![c] =
    [pc |-> IF t = 0 THEN "turn" ELSE "poll", op |-> op, fd |-> f, ev |-> ev,
     t |-> t, len |-> len, n |-> n]]

\* The kernel stops the thread in c's call; some: it has taken bytes already.
Block(c, op, f, t, len, n, some) ==
  call' = [call EXCEPT ![c] = [pc |-> "blocked", op |-> op, fd |-> f, t |-> t,
                               len |-> len, n |-> n, some |-> some]]

Return(c, r) == call' = [call EXCEPT ![c] = Idle(r)]

Usable(f) == sock[f].open /\ sock[f].conn = "ok"

\* read and recvfrom of the kernel.
SysRead(c, op, f) ==
  /\ UNCHANGED <<hook, lost, info, stale, sent>>
  /\ \/ ~Usable(f) /\ Return(c, ERROR) /\ UNCHANGED sock
     \/ /\ Usable(f) /\ sock[f].in > 0
        /\ sock' = [sock EXCEPT ![f].in = @ - 1]
        /\ Return(c, DATA)
     \/ /\ Usable(f) /\ sock[f].in = 0 /\ UNCHANGED sock
        /\ IF sock[f].nb THEN Return(c, EAGAIN) ELSE Block(c, op, f, 0, 0, 0, FALSE)

\* read() waits for data; recvfrom() waits for room to write, as long as a
\* write may take.
ReadEv(op) == IF op = "read" THEN {"IN"} ELSE {"OUT"}
ReadTimeout(op, i) == IF op = "read" THEN i.rto ELSE i.wto

\* read() and recvfrom(): wait, then ask the kernel.
Read(c, op, f) ==
  /\ Runs(c)
  /\ IF Waits(c, f)
     THEN /\ PollWait(c, op, f, ReadEv(op), ReadTimeout(op, info[f]), 0, 0)
          /\ UNCHANGED <<hook, lost, sock, info, stale, sent>>
     ELSE SysRead(c, op, f)

\* The kernel takes m bytes.
Accepted(c, f, m) ==
  /\ sock' = [sock EXCEPT ![f].room = @ - m]
  /\ sent' = [sent EXCEPT ![c] = @ + m]

\* Mutant of WriteResult: the result of the last system call.
WriteResultLast(len, r) == r

\* What write() returns when its loop ends with a failure.
WriteResult(len, r) == IF len = 0 THEN r ELSE len

\* After the kernel took some bytes of a call: all is written, the caller does
\* not loop, or the loop of write() polls, for input, and goes on.
AfterWrite(c, op, f, t, len, n) ==
  IF n = 0 \/ op \in {"once", "sendto"} THEN Return(c, len)
  ELSE PollWait(c, "again", f, {"IN"}, t, len, n)

\* After the kernel took nothing: the first turn of write() polls, sendto() waits
\* for room and tries a second time, others end.
AfterEagain(c, op, f, t, len, n) ==
  CASE op = "write" -> PollWait(c, "again", f, {"IN"}, t, len, n)
    [] op = "sendto" -> PollWait(c, "once", f, {"OUT"}, t, len, n)
    [] OTHER -> Return(c, WriteResult(len, EAGAIN))

\* One write or sendto of the kernel, with len bytes done and n left.  op is
\* "write" in the first turn of the loop of write(), "again" in the later
\* ones, "sendto" in the first try of sendto(), "once" elsewhere.
SysWrite(c, op, f, t, len, n) ==
  /\ UNCHANGED <<hook, lost, info, stale>>
  /\ \/ /\ ~Usable(f) /\ UNCHANGED <<sock, sent>>
        /\ IF op = "write" THEN PollWait(c, "again", f, {"IN"}, t, len, n)
           ELSE Return(c, WriteResult(len, ERROR))
     \/ /\ Usable(f) /\ sock[f].nb
        /\ \E m \in 1 .. Min({n, sock[f].room}) :
             Accepted(c, f, m) /\ AfterWrite(c, op, f, t, len + m, n - m)
     \/ /\ Usable(f) /\ sock[f].nb /\ sock[f].room = 0 /\ UNCHANGED <<sock, sent>>
        /\ AfterEagain(c, op, f, t, len, n)
     \/ /\ Usable(f) /\ ~sock[f].nb /\ sock[f].room >= n
        /\ Accepted(c, f, n) /\ Return(c, len + n)
     \/ /\ Usable(f) /\ ~sock[f].nb /\ sock[f].room < n
        /\ UNCHANGED <<sock, sent>> /\ Block(c, op, f, t, len, n, FALSE)

\* write(): the kernel first.
Write(c, f, n) ==
  /\ Runs(c)
  /\ IF Waits(c, f) THEN SysWrite(c, "write", f, info[f].wto, 0, n)
     ELSE SysWrite(c, "once", f, 0, 0, n)

Sendto(c, f, n) ==
  /\ Runs(c)
  /\ IF Waits(c, f) THEN SysWrite(c, "sendto", f, info[f].wto, 0, n)
     ELSE SysWrite(c, "once", f, 0, 0, n)

\* connect(): the kernel first, then poll for 10 seconds, again and again.
Connect(c, f) ==
  /\ Runs(c) /\ sock[f].open /\ sock[f].conn = "none"
  /\ sock' = [sock EXCEPT ![f].conn = "progress"]
  /\ UNCHANGED <<hook, lost, info, stale, sent>>
  /\ IF ~sock[f].nb THEN Block(c, "connect", f, 0, 0, 0, FALSE)
     ELSE IF Waits(c, f) THEN PollWait(c, "connect", f, {"OUT"}, 1, 0, 0)
     ELSE Return(c, EINPROGRESS)

\* Mutant of ConnectResult: SO_ERROR is not asked for.
ConnectNoError(f, rev) == IF "OUT" \in rev THEN 0 ELSE ETIMEDOUT

\* What connect() returns: if POLLOUT was reported what getsockopt(SO_ERROR) says
\* then, or its failure, on a descriptor closed meanwhile; ETIMEDOUT otherwise.
ConnectResult(f, rev) ==
  IF "OUT" \notin rev THEN ETIMEDOUT
  ELSE IF ~sock[f].open \/ sock[f].conn = "refused" THEN ERROR ELSE 0

\* epoll_wait reports f to the connect() of c, which waits for its turn.  A poll
\* of connect() whose time is over is repeated, on whatever socket f is by then.
ConnectReport(c) ==
  /\ Busy = {} /\ call[c].pc = "poll" /\ call[c].op = "connect"
  /\ LET rev == Revents(call[c].fd, call[c].ev) IN
     /\ rev # {}
     /\ call' = [call EXCEPT ![c] =
          [pc |-> "ready", op |-> "connect", fd |-> @.fd, rev |-> rev]]
  /\ UNCHANGED <<hook, lost, sock, info, stale, sent>>

ConnectReturn(c) ==
  /\ Busy = {} /\ call[c].pc = "ready" /\ call[c].op = "connect"
  /\ Return(c, ConnectResult(call[c].fd, call[c].rev))
  /\ lost' = [lost EXCEPT ![c] = {}]
  /\ UNCHANGED <<hook, sock, info, stale, sent>>

\* Mutant of PollReturn: poll() is given no timeout.
PollReturnReady(c) ==
  /\ Busy \subseteq {c} /\ call[c].pc \in {"poll", "turn"}
  /\ LET k == call[c] IN
     /\ k.op # "poll" /\ Revents(k.fd, k.ev) # {}
     /\ \/ k.op \in {"read", "recvfrom"} /\ SysRead(c, k.op, k.fd)
        \/ k.op \in {"again", "once"} /\ SysWrite(c, k.op, k.fd, k.t, k.len, k.n)

\* The poll() inside c's call returns, the descriptor ready or the time over, and
\* the call goes on.  These calls do not look at what was reported and ask the
\* kernel again, so for them it makes no difference whether the end of the poll is
\* on the active list already when other coroutines run.
PollReturn(c) ==
  /\ Busy \subseteq {c} /\ call[c].pc \in {"poll", "turn"}
  /\ LET k == call[c] IN
     \/ k.op \in {"read", "recvfrom"} /\ SysRead(c, k.op, k.fd)
     \/ k.op \in {"again", "once"} /\ SysWrite(c, k.op, k.fd, k.t, k.len, k.n)

-----------------------------------------------------------------------------
\* poll() with more than one descriptor.

\* The descriptors of the argument, one entry each: its events are merged.
Merged(args, f) == UNION {args[i].ev : i \in {j \in DOMAIN args : args[j].fd = f}}

HasDup(args) == \E i, j \in DOMAIN args : i # j /\ args[i].fd = args[j].fd

\* Mutant of PollRevents: the merged events are handed to every entry.
PollReventsAll(args, rev, i) == rev[args[i].fd]

\* The revents of entry i when CoPoll reports rev.
PollRevents(args, rev, i) ==
  IF HasDup(args) THEN rev[args[i].fd] \cap args[i].ev ELSE rev[args[i].fd]

\* poll() by a hooked coroutine with a timeout.
Poll(c, args) ==
  /\ Runs(c) /\ hook[c]
  /\ call' = [call EXCEPT ![c] = [pc |-> "poll", op |-> "poll", args |-> args]]
  /\ UNCHANGED <<hook, lost, sock, info, stale, sent>>

\* epoll_wait reports the descriptors of c's poll, or its time is over and
\* nothing is reported, even if another coroutine's poll of the same descriptor
\* has kept it from being registered (CoEventLoop).
PollReport(c) ==
  /\ Busy = {} /\ call[c].pc = "poll" /\ call[c].op = "poll"
  /\ LET k == call[c]
         Fd == {k.args[i].fd : i \in DOMAIN k.args}
         events == [f \in Fd |-> IF f \in lost[c] THEN {} ELSE Revents(f, Merged(k.args, f))]
     IN  \E rev \in {events, [f \in Fd |-> {}]} :
           call' = [call EXCEPT ![c] = [pc |-> "ready", op |-> "poll", args |-> k.args,
                                        rev |-> rev]]
  /\ lost' = [lost EXCEPT ![c] = {}]
  /\ UNCHANGED <<hook, sock, info, stale, sent>>

\* CoPoll returns; on a timeout the caller's revents stay as they were, 0.
PollEnds(c) ==
  /\ Busy = {} /\ call[c].pc = "ready" /\ call[c].op = "poll"
  /\ LET k == call[c] IN
     call' = [call EXCEPT ![c] =
       [Idle(DATA) EXCEPT !.revents = [i \in DOMAIN k.args |-> PollRevents(k.args, k.rev, i)]]]
  /\ UNCHANGED <<hook, lost, sock, info, stale, sent>>

-----------------------------------------------------------------------------
\* The environment.

\* The kernel ends the call that stopped the thread: it can do what was asked,
\* or its own timeout is over.
Unblock(c) ==
  /\ call[c].pc = "blocked"
  /\ LET k == call[c] f == call[c].fd IN
     \/ /\ k.op \in {"read", "recvfrom"} /\ sock[f].in > 0
        /\ SysRead(c, k.op, f)
     \/ /\ k.op \in {"write", "again", "sendto", "once"} /\ sock[f].room > 0
        /\ UNCHANGED <<hook, lost, info, stale>>
        /\ LET m == Min({k.n, sock[f].room}) IN
           /\ Accepted(c, f, m)
           /\ IF m = k.n THEN Return(c, k.len + m)
              ELSE Block(c, k.op, f, k.t, k.len + m, k.n - m, TRUE)
     \/ /\ k.op = "connect" /\ sock[f].conn \in {"ok", "refused"}
        /\ Return(c, IF sock[f].conn = "ok" THEN 0 ELSE ERROR)
        /\ UNCHANGED <<hook, lost, sock, info, stale, sent>>
     \/ /\ k.op \in {"read", "recvfrom"} /\ sock[f].rto > 0
        /\ Return(c, EAGAIN)
        /\ UNCHANGED <<hook, lost, sock, info, stale, sent>>
     \/ /\ k.op \in {"write", "again", "sendto", "once"} /\ sock[f].wto > 0
        /\ IF k.some THEN AfterWrite(c, k.op, f, k.t, k.len, k.n)
           ELSE AfterEagain(c, k.op, f, k.t, k.len, k.n)
        /\ UNCHANGED <<hook, lost, sock, info, stale, sent>>

\* Data arrive, the peer takes data, a connection is made or refused.
PeerSends(f) ==
  /\ Usable(f) /\ sock[f].in < MaxIn
  /\ sock' = [sock EXCEPT ![f].in = @ + 1]
  /\ UNCHANGED <<hook, lost, info, call, stale, sent>>

PeerReads(f) ==
  /\ Usable(f) /\ sock[f].room < MaxRoom
  /\ sock' = [sock EXCEPT ![f].room = @ + 1]
  /\ UNCHANGED <<hook, lost, info, call, stale, sent>>

PeerAnswers(f, r) ==
  /\ sock[f].open /\ sock[f].conn = "progress"
  /\ sock' = [sock EXCEPT ![f].conn = r]
  /\ UNCHANGED <<hook, lost, info, call, stale, sent>>

\* The application has looked at the result of its call.
UseResult(c) ==
  /\ call[c].pc = "idle" /\ call[c].res # NONE
  /\ Return(c, NONE) /\ sent' = [sent EXCEPT ![c] = 0]
  /\ UNCHANGED <<hook, lost, sock, info, stale>>

HookNext ==
  \/ \E c \in Co :
       \/ CoEnableHook(c) \/ Unblock(c) \/ UseResult(c)
       \/ PollReturn(c) \/ ConnectReport(c) \/ ConnectReturn(c) \/ PollReport(c) \/ PollEnds(c)
       \/ \E args \in PollArgs : Poll(c, args)
       \/ \E f \in Fds :
            \/ Close(c, f) \/ Connect(c, f)
            \/ \E nb \in BOOLEAN : Socket(c, f, nb) \/ Accept4(c, f, nb) \/ FcntlSetfl(c, f, nb)
            \/ \E opt \in {"rto", "wto"}, t \in {0, 1} : Setsockopt(c, f, opt, t)
            \/ \E op \in {"read", "recvfrom"} : Read(c, op, f)
            \/ \E n \in 1 .. MaxRoom + 1 : Write(c, f, n) \/ Sendto(c, f, n)
  \/ \E f \in Fds :
       \/ Ioctl(f) \/ PeerSends(f) \/ PeerReads(f)
       \/ \E r \in {"ok", "refused"} : PeerAnswers(f, r)

HookSpec == HookInit /\ [][HookNext]_hookVars

\* The event loop gets to every waiting call, whose poll has a timeout, as long
\* as the other coroutines give up the thread again and again.
HookFairness ==
  \A c \in Co : /\ SF_hookVars(PollReturn(c) \/ PollReport(c) \/ PollEnds(c))
                /\ WF_hookVars(UseResult(c))

-----------------------------------------------------------------------------
\* A hooked call stops the whole thread only on a descriptor without a record,
\* with a record left by an unhooked close, or with a clear flag, which is
\* what accept4 leaves, whatever its flags.
ThreadStops ==
  \A c \in Blocked : LET f == call[c].fd IN
    hook[c] => ~info[f].used \/ stale[f] \/ ~info[f].nb

\* The number write() and sendto() return is the number of bytes the kernel
\* took during the call, over all its turns, and an error means none.
WriteExact ==
  \A c \in Co : call[c].pc = "idle" =>
    sent[c] = IF call[c].res > 0 THEN call[c].res ELSE 0

\* connect() reports success only for a connection that was made, whatever other
\* coroutines do between the report of the event and the look at SO_ERROR; unless
\* one of them closes the descriptor, for then a new socket of that number has no
\* error either.
ConnectTruth ==
  [][\A c \in Co : call[c].pc # "idle" /\ call[c].op = "connect" /\ call'[c] = Idle(0)
       => \/ sock[call[c].fd].conn = "ok"
          \/ call[c].pc = "ready" /\ call[c].fd \in lost[c]]_hookVars

\* Every entry of a merged poll gets the reading and writing events it asked
\* for, as they were when epoll_wait reported, and no other; a poll whose time is
\* over, and one whose descriptor was closed, gets none.
PollFaithful ==
  [][\A c \in Co : call[c].pc # "idle" /\ call[c].op = "poll" =>
       \A i \in DOMAIN call[c].args : LET a == call[c].args[i] IN
         /\ call[c].pc = "poll" /\ call'[c].pc = "ready" /\ call'[c].rev[a.fd] # {}
              => /\ a.fd \notin lost[c]
                 /\ (call'[c].rev[a.fd] \cap a.ev) \ {"ERR"} = Revents(a.fd, a.ev) \ {"ERR"}
         /\ call[c].pc = "ready" /\ call'[c].pc = "idle"
              => call'[c].revents[i] \ {"ERR"} = (call[c].rev[a.fd] \cap a.ev) \ {"ERR"}]_hookVars

\* No read, write, sendto or recvfrom stays in its poll: also the write that
\* polls for input while it needs room goes on, unless the kernel has stopped
\* the thread in another call.
WaitsEnd ==
  \A c \in Co :
    (call[c].pc \in {"poll", "turn"} /\ call[c].op # "connect")
      ~> (call[c].pc \notin {"poll", "turn", "ready"} \/ Blocked # {})
=============================================================================
