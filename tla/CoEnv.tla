-------------------------------- MODULE CoEnv --------------------------------
(* The environment variables of misc/coroutine/co_hook.cpp: the names given  *)
(* to SetEnvList are private to every coroutine that uses the hooks, all     *)
(* other names and callers go to the process environment.                    *)
EXTENDS Integers, FiniteSets

CONSTANTS
  EnvCo,      \* coroutines
  Names,      \* names of environment variables
  Values,     \* their values
  Null        \* no value, no list

VARIABLES
  hooked,     \* hooked[c]: enable_sys_hook
  g_env_list, \* the listed names with their values, or Null
  pv_env,     \* pv_env[c]: the coroutine's copy of the list, or Null
  environ     \* the environment of the process

envVars == <<hooked, g_env_list, pv_env, environ>>

EnvInit ==
  /\ hooked = [c \in EnvCo |-> FALSE]
  /\ g_env_list = Null
  /\ pv_env = [c \in EnvCo |-> Null]
  /\ environ \in [Names -> {Null} \cup Values]

\* Only the first list counts; its values are null.
SetEnvList(S) ==
  /\ g_env_list = Null
  /\ g_env_list' = [n \in S |-> Null]
  /\ UNCHANGED <<hooked, pv_env, environ>>

EnvEnableHook(c) ==
  /\ ~hooked[c]
  /\ hooked' = [hooked EXCEPT ![c] = TRUE]
  /\ UNCHANGED <<g_env_list, pv_env, environ>>

\* The list a hooked call uses: the coroutine's copy, made when it is missing.
Private(c) == hooked[c] /\ g_env_list # Null
List(c) == IF pv_env[c] = Null THEN g_env_list ELSE pv_env[c]

\* Mutant of SetIn: DupEnvList is forgotten, the list itself is written to.
SetInGlobal(c, n, v) ==
  /\ g_env_list' = [g_env_list EXCEPT ![n] = v]
  /\ UNCHANGED <<hooked, pv_env, environ>>

\* c's copy gets value v for n.
SetIn(c, n, v) ==
  /\ pv_env' = [pv_env EXCEPT ![c] = [List(c) EXCEPT ![n] = v]]
  /\ UNCHANGED <<hooked, g_env_list, environ>>

\* The copy is made, also by a call that goes on to the process environment.
Touch(c) == pv_env' = IF Private(c) THEN [pv_env EXCEPT ![c] = List(c)] ELSE pv_env

setenv(c, n, v, overwrite) ==
  IF Private(c) /\ n \in DOMAIN List(c)
  THEN SetIn(c, n, IF overwrite \/ List(c)[n] = Null THEN v ELSE List(c)[n])
  ELSE /\ Touch(c)
       /\ environ' = [environ EXCEPT ![n] = IF overwrite \/ @ = Null THEN v ELSE @]
       /\ UNCHANGED <<hooked, g_env_list>>

unsetenv(c, n) ==
  IF Private(c) /\ n \in DOMAIN List(c) THEN SetIn(c, n, Null)
  ELSE /\ Touch(c)
       /\ environ' = [environ EXCEPT ![n] = Null]
       /\ UNCHANGED <<hooked, g_env_list>>

\* What getenv returns; the call itself may make the copy.
getenv(c, n) ==
  IF Private(c) /\ n \in DOMAIN List(c) THEN List(c)[n] ELSE environ[n]

GetenvCall(c) == Touch(c) /\ UNCHANGED <<hooked, g_env_list, environ>>

EnvNext ==
  \/ \E S \in SUBSET Names : SetEnvList(S)
  \/ \E c \in EnvCo :
       \/ EnvEnableHook(c) \/ GetenvCall(c)
       \/ \E n \in Names :
            \/ unsetenv(c, n)
            \/ \E v \in Values, overwrite \in BOOLEAN : setenv(c, n, v, overwrite)

EnvSpec == EnvInit /\ [][EnvNext]_envVars

\* c has a private variable n.
Sees(c, n) == Private(c) /\ n \in DOMAIN List(c)

\* A call changes what at most one coroutine reads under its private names, and
\* then it leaves the process environment alone: setenv and unsetenv reach no
\* other coroutine, with or without a copy of its own.
EnvPrivate ==
  [][\A c, d \in EnvCo, n, m \in Names :
       Sees(c, n) /\ getenv(c, n)' # getenv(c, n) =>
         /\ environ' = environ
         /\ c # d /\ Sees(d, m) => getenv(d, m)' = getenv(d, m)]_envVars
==============================================================================
