-------------------------------- MODULE Tiny --------------------------------
(***************************************************************************)
(* The Tiny web server: one process that accepts a connection, serves one  *)
(* request on it and closes it.  A request is a sequence of lines, each    *)
(* named for what the server makes of it; the first one stands for what    *)
(* method, parse_uri and stat find.  Lines arrive whole (module Structures *)
(* has rio_readlineb).  A client may close before it is answered.          *)
(* The files do not change while they are served, and Fork succeeds.       *)
(***************************************************************************)
EXTENDS Integers, Sequences

CONSTANTS TinyClients,  \* 1 .. n
          MaxLines      \* bound: lines of one request

ASSUME TinyAssumption == MaxLines \in Nat /\ TinyClients \subseteq Nat

VARIABLES
  tiny,      \* where the process is
  queue,     \* connections that wait to be accepted, in order
  serving,   \* connfd's client, 0 for none
  request,   \* the line doit read first
  buf,       \* the last line read_requesthdrs read
  lines,     \* lines[c]: what c has sent and the server has not read
  sends,     \* sends[c]: all that c has sent
  left,      \* left[c]: c has closed its end
  reply,     \* reply[c]: the status c got
  order      \* history: connections in the order they came

tVars == <<tiny, queue, serving, request, buf, lines, sends, left, reply, order>>

\* "unmapped" names a file that stat finds and Open or Mmap refuses: an empty one.
FirstLines == {"static", "unmapped", "cgi", "absent", "forbidden", "post"}

\* What buf may hold before the first header is read: on the stack there may be
\* the empty line of the request before.
Uninitialized == {"", "old blank"}

TInit ==
  /\ tiny = "accept" /\ queue = << >> /\ serving = 0 /\ order = << >>
  /\ request = "" /\ buf = ""
  /\ lines = [c \in TinyClients |-> << >>] /\ sends = lines
  /\ left = [c \in TinyClients |-> FALSE]
  /\ reply = [c \in TinyClients |-> ""]

Came(c) == \E k \in DOMAIN order : order[k] = c

----------------------------------------------------------------------------
\* The clients.

\* Clients are numbered in the order they connect.
TinyConnect(c) ==
  /\ ~Came(c) /\ tiny # "dead" /\ \A d \in TinyClients : d < c => Came(d)
  /\ order' = Append(order, c) /\ queue' = Append(queue, c)
  /\ UNCHANGED <<tiny, serving, request, buf, lines, sends, left, reply>>

\* A request line, header lines, and the empty line at the end.
TinySend(c, l) ==
  /\ Came(c) /\ ~left[c] /\ Len(sends[c]) < MaxLines /\ reply[c] = ""
  /\ IF sends[c] = << >> THEN l \in FirstLines
     ELSE l \in {"header", "blank"} /\ sends[c][Len(sends[c])] # "blank"
  /\ lines' = [lines EXCEPT ![c] = Append(@, l)]
  /\ sends' = [sends EXCEPT ![c] = Append(@, l)]
  /\ UNCHANGED <<tiny, queue, serving, request, buf, left, reply, order>>

TinyLeave(c) ==
  /\ Came(c) /\ ~left[c]
  /\ left' = [left EXCEPT ![c] = TRUE]
  /\ UNCHANGED <<tiny, queue, serving, request, buf, lines, sends, reply, order>>

----------------------------------------------------------------------------
\* The server.

\* unix_error: what the wrappers of csapp.c call when a call on the connection of a
\* client that is gone fails.
unix_error(c) == left[c] /\ tiny' = "dead"

TinyAccept ==
  /\ tiny = "accept" /\ queue # << >>
  /\ \/ /\ serving' = Head(queue) /\ queue' = Tail(queue)
        /\ tiny' = "request" /\ request' = "" /\ buf' \in Uninitialized
     \/ unix_error(Head(queue)) /\ UNCHANGED <<queue, serving, request, buf>>
  /\ UNCHANGED <<lines, sends, left, reply, order>>

\* Close of connfd at the end of doit, whatever doit did.
CloseConn(status) ==
  /\ tiny' = "accept" /\ serving' = 0
  /\ reply' = [reply EXCEPT ![serving] = status]

\* Rio_writen to a client that is gone: the first write may still succeed, a
\* later one raises SIGPIPE, or unix_error ends the process.
Answer(status) ==
  \/ CloseConn(status)
  \/ unix_error(serving) /\ UNCHANGED <<serving, reply>>

\* Mutant of NotImplemented: no return after the answer, the
\* headers are read all the same.
NotImplementedGoesOn ==
  reply' = [reply EXCEPT ![serving] = "501"] /\ tiny' = "headers" /\ UNCHANGED serving

NotImplemented == Answer("501")

\* doit up to the test of the method; the end of the stream ends it, and a reset
\* connection the process.
ReadRequest ==
  /\ tiny = "request"
  /\ \/ /\ lines[serving] = << >> /\ left[serving]
        /\ CloseConn("") /\ UNCHANGED <<request, lines>>
     \/ unix_error(serving) /\ UNCHANGED <<serving, request, lines, reply>>
     \/ /\ lines[serving] # << >>
        /\ request' = Head(lines[serving])
        /\ lines' = [lines EXCEPT ![serving] = Tail(@)]
        /\ IF request' = "post" THEN NotImplemented
           ELSE tiny' = "headers" /\ UNCHANGED <<serving, reply>>
  /\ UNCHANGED <<queue, buf, sends, left, order>>

\* A turn of the loop of read_requesthdrs: it ends with an empty line only.  At
\* the end of the stream rio_readlineb returns 0 and leaves buf as it was, for the
\* first header as the stack had it; nobody looks at the result.
read_requesthdrs ==
  /\ tiny = "headers" /\ buf # "blank"
  /\ \/ /\ lines[serving] # << >> /\ buf' = Head(lines[serving])
        /\ lines' = [lines EXCEPT ![serving] = Tail(@)] /\ UNCHANGED tiny
     \/ /\ lines[serving] = << >> /\ left[serving]
        /\ buf' = IF buf = "old blank" THEN "blank" ELSE buf
        /\ UNCHANGED <<tiny, lines>>
     \/ unix_error(serving) /\ UNCHANGED <<buf, lines>>
  /\ UNCHANGED <<queue, serving, request, sends, left, reply, order>>

\* What doit answers, from is_static, stat and the mode of the file.
Status ==
  CASE request = "absent" -> "404"
    [] request = "forbidden" -> "403"
    [] OTHER -> "200"

\* clienterror or serve_static, which ends the process when it cannot map the file;
\* serve_dynamic writes its headers and then waits for the CGI program.
Respond ==
  /\ tiny = "headers" /\ buf = "blank"
  /\ \/ /\ request = "cgi" /\ (tiny' = "wait" \/ unix_error(serving))
        /\ UNCHANGED <<serving, reply>>
     \/ request = "unmapped" /\ tiny' = "dead" /\ UNCHANGED <<serving, reply>>
     \/ request \notin {"cgi", "unmapped"} /\ Answer(Status)
  /\ UNCHANGED <<queue, request, buf, lines, sends, left, order>>

\* Wait(NULL) returns: the program, whose output is the connection, has ended.
CgiEnds ==
  /\ tiny = "wait" /\ CloseConn(Status)
  /\ UNCHANGED <<queue, request, buf, lines, sends, left, order>>

TinyServer == TinyAccept \/ ReadRequest \/ read_requesthdrs \/ Respond \/ CgiEnds

TNext ==
  \/ \E c \in TinyClients :
       TinyConnect(c) \/ TinyLeave(c)
         \/ \E l \in FirstLines \cup {"header", "blank"} : TinySend(c, l)
  \/ TinyServer

\* The process runs, and CGI programs end.
TFairness == WF_tVars(TinyServer)

----------------------------------------------------------------------------
Whole(c) == sends[c] # << >> /\ (sends[c][1] = "post" \/ sends[c][Len(sends[c])] = "blank")
Before(d, c) == \E j, k \in DOMAIN order : j < k /\ order[j] = d /\ order[k] = c

Deserves(c) ==
  IF sends[c] = << >> THEN ""
  ELSE CASE sends[c][1] = "post" -> "501" [] sends[c][1] = "absent" -> "404"
         [] sends[c][1] = "forbidden" -> "403" [] OTHER -> "200"

\* What keeps c from its answer: a client, before it in the queue, that left
\* without its own (after its end read_requesthdrs reads nothing for ever, and a
\* failing call on its connection ends the process), or a request, before it or
\* its own, for a file that cannot be mapped.
Undone(c) ==
  \E d \in TinyClients :
    \/ Before(d, c) /\ left[d] /\ reply[d] = ""
    \/ (d = c \/ Before(d, c)) /\ sends[d] # << >> /\ sends[d][1] = "unmapped"

\* A client that sends its whole request and waits is answered, with the status
\* its request line deserves, once the clients that came before it have sent
\* theirs: the server waits for the lines of the one it serves.  Only the two
\* cases of Undone keep it from that, and nothing a later client does.
TinyInTurn ==
  \A c \in TinyClients :
    (Whole(c) /\ \A d \in TinyClients : Before(d, c) => Whole(d))
      ~> \/ reply[c] # "" /\ reply[c] = Deserves(c)
         \/ left[c]
         \/ Undone(c)
=============================================================================
