------------------------------ MODULE MCCoHook ------------------------------
(* The hooks of co_hook.cpp for TLC.  A behaviour is about the transfer of     *)
(* bytes, with timeouts that are set, about connect() and poll(), beside reads  *)
(* and writes with the timeouts a socket starts with, or about the environment  *)
(* (CoEnv); the other part keeps its initial state.  One descriptor, which is   *)
(* closed and reused, and polls that name it once, twice, and beside the       *)
(* descriptor -1.                                                               *)
EXTENDS CoHook, CoEnv

CONSTANT f1

MCPollArgs ==
  {<<[fd |-> f1, ev |-> {"IN"}]>>,
   <<[fd |-> f1, ev |-> {"IN"}], [fd |-> NoFd, ev |-> {}], [fd |-> f1, ev |-> {"IN", "OUT"}]>>,
   <<[fd |-> f1, ev |-> {"OUT"}], [fd |-> NoFd, ev |-> {}]>>}

VARIABLE about   \* "transfer", "waiting" or "environment"

HooksInit ==
  /\ about \in {"transfer", "waiting", "environment"}
  /\ HookInit /\ EnvInit
  /\ about # "environment" => environ = [n \in Names |-> Null]

\* Neither connect() nor poll() is on its way.
NoLooks == \A c \in Co : call[c].pc = "idle" \/ call[c].op \notin {"connect", "poll"}

\* The timeouts are those of a new socket and of a new record.
FirstTimeouts ==
  \A f \in Fds : /\ sock[f].open => sock[f].rto = 0 /\ sock[f].wto = 0
                 /\ info[f].used => info[f].rto = 1 /\ info[f].wto = 1

HooksNext ==
  /\ UNCHANGED about
  /\ \/ about = "transfer" /\ HookNext /\ NoLooks' /\ UNCHANGED envVars
     \/ about = "waiting" /\ HookNext /\ FirstTimeouts' /\ UNCHANGED envVars
     \/ about = "environment" /\ EnvNext /\ UNCHANGED hookVars

\* In a behaviour about the environment no call is on its way.
HooksSpec == HooksInit /\ [][HooksNext]_<<about, hookVars, envVars>> /\ HookFairness
=============================================================================
