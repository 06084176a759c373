----------------------------- MODULE MCServers -----------------------------
(* The servers for TLC, one of them in each behaviour: the poll and epoll     *)
(* servers of network/echo, the servers of asio, the web server of tiny, and  *)
(* the queue threads hand their work to each other with.  The others keep     *)
(* their initial states.                                                      *)
EXTENDS EchoServer, AsioEcho, Tiny, BlockingQueue

VARIABLE running   \* what the behaviour is about

ServersInit ==
  /\ running \in {"echo", "asio", "tiny", "queue"}
  /\ EInit /\ AInit /\ TInit /\ Init
  /\ running # "echo" => kind = "poll"
  /\ running # "asio" => server = "callback"

ServersNext ==
  /\ UNCHANGED running
  /\ \/ running = "echo" /\ ENext /\ UNCHANGED <<aVars, tVars, vars>>
     \/ running = "asio" /\ ANext /\ UNCHANGED <<eVars, tVars, vars>>
     \/ running = "tiny" /\ TNext /\ UNCHANGED <<eVars, aVars, vars>>
     \/ running = "queue" /\ Next /\ UNCHANGED <<eVars, aVars, tVars>>

\* The fairness of each server's module: in the servers that do not run nothing is
\* enabled, and WF_vars(Step(t)) of the queue asks for a step only when it runs.
ServersSpec ==
  /\ ServersInit
  /\ [][ServersNext]_<<running, eVars, aVars, tVars, vars>>
  /\ EFairness /\ AFairness /\ TFairness
  /\ \A t \in Threads : WF_vars(Step(t))
=============================================================================
