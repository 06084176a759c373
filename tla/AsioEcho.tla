------------------------------ MODULE AsioEcho ------------------------------
(***************************************************************************)
(* The five echo servers of src/asio: with callbacks, with callbacks in a  *)
(* strand and several threads, with the library's coroutines, with the     *)
(* awaiters of echo2, and with futures.  An action is one completion       *)
(* handler together with the operations it starts; the kernel's buffers    *)
(* and the peers are external.  The k-th byte a peer sends is the number k.*)
(***************************************************************************)
EXTENDS Integers, Sequences, SequencesExt

CONSTANTS AsioPeers,           \* 1 .. n
          MaxBytes,            \* how much a peer sends
          MaxLen,              \* the size of data_
          Window               \* the room for bytes the peer has not read yet

ASSUME AsioAssumption == /\ MaxBytes \in Nat /\ AsioPeers \subseteq Nat
                         /\ MaxLen \in Nat \ {0}
                         /\ Window \in Nat \ {0}

VARIABLES
  server,      \* which of the five programs runs
  listening,   \* whether an accept is outstanding, or will be
  sess,        \* the session of a peer
  data,        \* its buffer
  writes,      \* the ranges <<from, to>> of the buffer that still are to be written
  sent, inq,   \* how many bytes the peer has sent, and those not read yet
  out, got,    \* the bytes on the way back, and those the peer has read
  shut         \* the peer has closed its end

aVars == <<server, listening, sess, data, writes, sent, inq, out, got, shut>>

AInit ==
  /\ server \in {"callback", "multithread", "coroutine", "awaiter", "future"}
  /\ listening = TRUE
  /\ sess = [p \in AsioPeers |-> "new"]
  /\ sent = [p \in AsioPeers |-> 0]
  /\ shut = [p \in AsioPeers |-> FALSE]
  /\ data = [p \in AsioPeers |-> << >>] /\ writes = data
  /\ inq = data /\ out = data /\ got = data

----------------------------------------------------------------------------
\* The peers.

\* Peers are numbered in the order they connect.
Connect(p) ==
  /\ sess[p] = "new" /\ \A q \in AsioPeers : q < p => sess[q] # "new"
  /\ sess' = [sess EXCEPT ![p] = "queued"]
  /\ UNCHANGED <<server, listening, data, writes, sent, inq, out, got, shut>>

Send(p) ==
  /\ sess[p] \in {"queued", "reading", "writing"} /\ ~shut[p] /\ sent[p] < MaxBytes
  /\ sent' = [sent EXCEPT ![p] = @ + 1]
  /\ inq' = [inq EXCEPT ![p] = Append(@, sent[p] + 1)]
  /\ UNCHANGED <<server, listening, sess, data, writes, out, got, shut>>

Receive(p) ==
  /\ out[p] # << >> /\ ~shut[p]
  /\ got' = [got EXCEPT ![p] = @ \o out[p]]
  /\ out' = [out EXCEPT ![p] = << >>]
  /\ UNCHANGED <<server, listening, sess, data, writes, sent, inq, shut>>

Shut(p) ==
  /\ sess[p] \in {"queued", "reading", "writing"} /\ ~shut[p]
  /\ shut' = [shut EXCEPT ![p] = TRUE]
  /\ UNCHANGED <<server, listening, sess, data, writes, sent, inq, out, got>>

----------------------------------------------------------------------------
\* The servers.

InService == {p \in AsioPeers : sess[p] \in {"reading", "writing"}}

\* do_accept: the session starts to read, and the next accept is started.  The
\* listener with futures waits for the end of the session first.
AcceptDone(p) ==
  /\ listening /\ sess[p] = "queued"
  /\ server = "future" => InService = {}
  /\ sess' = [sess EXCEPT ![p] = "reading"]
  /\ UNCHANGED <<server, listening, data, writes, sent, inq, out, got, shut>>

\* Mutant of KeepsListening: a return before do_accept on an error.
KeepsListeningOnSuccess == FALSE

\* An accept that failed is only repeated by the servers with callbacks; the
\* others leave their loop, by break or with the exception.  The peer is gone, or
\* waits on when only the descriptors were used up.
KeepsListening == server \in {"callback", "multithread"}

AcceptError(p) ==
  /\ listening /\ sess[p] = "queued"
  /\ server = "future" => InService = {}
  /\ sess' \in {sess, [sess EXCEPT ![p] = "refused"]}
  /\ listening' = KeepsListening
  /\ UNCHANGED <<server, data, writes, sent, inq, out, got, shut>>

\* Mutant of AfterRead: the next read starts before the buffer is free.
AfterReadAtOnce == "reading"

\* The future of the write is dropped and does not wait: the next read into the
\* same buffer starts at once.
AfterRead == IF server = "future" THEN "reading" ELSE "writing"

\* async_read_some completes with what there is, and the write of it is started.
ReadDone(p) ==
  /\ sess[p] = "reading" /\ inq[p] # << >>
  /\ LET n == IF Len(inq[p]) < MaxLen THEN Len(inq[p]) ELSE MaxLen
     IN  /\ data' = [data EXCEPT ![p] = SubSeq(inq[p], 1, n) \o SubSeq(@, n + 1, Len(@))]
         /\ inq' = [inq EXCEPT ![p] = SubSeq(@, n + 1, Len(@))]
         /\ writes' = [writes EXCEPT ![p] = Append(@, <<1, n>>)]
  /\ sess' = [sess EXCEPT ![p] = AfterRead]
  /\ UNCHANGED <<server, listening, sent, out, got, shut>>

\* The end of the stream ends the session, and the socket goes with it.  echo of
\* the server with futures has no return statement behind its handler: whether
\* the listener goes on from there is up to the build.
ReadEof(p) ==
  /\ sess[p] = "reading" /\ inq[p] = << >> /\ shut[p]
  /\ sess' = [sess EXCEPT ![p] = "over"]
  /\ writes' = [writes EXCEPT ![p] = << >>]
  /\ listening' \in IF server = "future" THEN BOOLEAN ELSE {listening}
  /\ UNCHANGED <<server, data, sent, inq, out, got, shut>>

\* async_write goes on with the rest, behind the writes that wait already;
\* async_write_some of echo2 leaves it.
RestOf(w, n) ==
  IF server = "awaiter" \/ w[1] + n > w[2] THEN << >> ELSE <<<<w[1] + n, w[2]>>>>

WriteSome(p) ==
  /\ writes[p] # << >> /\ ~shut[p] /\ Len(out[p]) < Window
  /\ LET w == Head(writes[p])
         room == Window - Len(out[p])
         n == IF w[2] + 1 - w[1] < room THEN w[2] + 1 - w[1] ELSE room
         left == Tail(writes[p]) \o RestOf(w, n)
     IN  /\ out' = [out EXCEPT ![p] = @ \o SubSeq(data[p], w[1], w[1] + n - 1)]
         /\ writes' = [writes EXCEPT ![p] = left]
         /\ sess' = [sess EXCEPT ![p] = IF left = << >> THEN "reading" ELSE @]
  /\ UNCHANGED <<server, listening, data, sent, inq, got, shut>>

\* A write to a peer that is gone ends the session, except where nobody looks at
\* the future.
WriteError(p) ==
  /\ writes[p] # << >> /\ shut[p]
  /\ writes' = [writes EXCEPT ![p] = Tail(@)]
  /\ sess' = [sess EXCEPT ![p] = IF server = "future" THEN @ ELSE "over"]
  /\ UNCHANGED <<server, listening, data, sent, inq, out, got, shut>>

ANext ==
  \E p \in AsioPeers : \/ Connect(p) \/ Send(p) \/ Receive(p) \/ Shut(p)
                       \/ AcceptDone(p) \/ AcceptError(p)
                       \/ ReadDone(p) \/ ReadEof(p) \/ WriteSome(p) \/ WriteError(p)

ASpec == AInit /\ [][ANext]_aVars

\* The threads in io_context::run serve what is ready, a peer reads what it gets,
\* and descriptors come free again.
AFairness ==
  \A p \in AsioPeers :
    /\ WF_aVars(AcceptDone(p)) /\ WF_aVars(ReadDone(p)) /\ WF_aVars(ReadEof(p))
    /\ WF_aVars(WriteSome(p)) /\ WF_aVars(WriteError(p)) /\ WF_aVars(Receive(p))

----------------------------------------------------------------------------
\* What a peer gets back is what it sent, byte by byte from the start, from the
\* servers whose handlers start the next operation when the last one is over;
\* from echo2, whose write may be short, it has gaps but keeps its order; from the
\* server with futures, which reads into a buffer that is being written, it is
\* only never longer than what was sent, and that server serves one peer at a time.
EchoExact ==
  /\ \A p \in AsioPeers :
       LET back == got[p] \o out[p]
       IN  CASE server = "future" -> Len(back) <= sent[p]
             [] server = "awaiter" -> \A j, k \in DOMAIN back : j < k => back[j] < back[k]
             [] OTHER -> back = [k \in DOMAIN back |-> k]
  /\ server = "future" => \A p, q \in InService : p = q

\* A peer of a server with callbacks or the library's coroutines gets everything
\* back that it sent, unless it closes first or its accept failed; with callbacks
\* a failed accept does not keep later peers out.
ServedInFull ==
  \A p \in AsioPeers : \A n \in 1 .. MaxBytes :
    (/\ server \in {"callback", "multithread", "coroutine"} /\ sent[p] >= n
     /\ server = "coroutine" => p \in InService)
      ~> (Len(got[p]) >= n \/ shut[p] \/ sess[p] = "refused")
=============================================================================
