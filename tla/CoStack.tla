------------------------------ MODULE CoStack ------------------------------
(* Shared ("copied") stacks of libco (co_routine.cpp): several coroutines run *)
(* on one stack_mem_t; the one that last ran there occupies it, and the       *)
(* frames of the others wait in their save_buffer.  CoSwap saves the occupant *)
(* before it gives the stack to another coroutine, and the coroutine that     *)
(* CoSwap switches to copies its own frames back when it returns from         *)
(* co_ctx_swap.                                                               *)
(*                                                                            *)
(* The bytes of a stack are abstracted to whose frames they are: mem[s] is    *)
(* the coroutine whose latest frames lie on stack s, save_buffer[c] tells     *)
(* whether c's buffer holds c's latest frames.  Only the coroutine on top of  *)
(* the call stack runs, so a library call up to its co_ctx_swap, with the     *)
(* code the other side runs after it, is one action.                          *)
(*                                                                            *)
(* What the callers of the library must not do is not an action: yielding     *)
(* from the main coroutine, resuming a coroutine that has ended or is on the  *)
(* call stack, resetting or releasing one that is on the call stack.          *)
EXTENDS Integers, Sequences

CONSTANTS
  Co,           \* the addresses CoCreate's calloc hands out
  Main,         \* the main coroutine of the thread
  NoCo,         \* nullptr, as a coroutine
  count,        \* stacks of the share_stack_t (ShareStackAlloc)
  UIntSize,     \* 2^32: alloc_idx is an unsigned int
  StackMax,     \* entries of call_stack, 128 in co_env_t
  Disciplined   \* whether the occupant of a stack is reset and released only
                \* while nobody else waits with frames of that stack

ASSUME StackAssumption ==
  /\ Main \notin Co /\ NoCo \notin Co /\ Main # NoCo
  /\ count \in Nat \ {0}
  /\ UIntSize \in Nat \ {0}
  /\ StackMax \in Nat \ {0}
  /\ Disciplined \in BOOLEAN

Stacks == 0 .. count - 1
Private == -1     \* a stack_mem_t of the coroutine's own (StackMemAlloc)

VARIABLES
  created,      \* the coroutines that exist
  stack_mem,    \* stack_mem[c]: its shared stack, or Private
  started, end, \* started[c], end[c]: the flags of coroutine_t
  save_buffer,  \* save_buffer[c]: "null", "latest" or "old" frames of c
  occupy_co,    \* occupy_co[s]: field of stack_mem_t
  mem,          \* mem[s]: whose latest frames lie on stack s
  alloc_idx,    \* of the share_stack_t
  call_stack,   \* env->call_stack, the running coroutine last
  pending_co,   \* env->pending_co
  last_occupy   \* env->occupy_co

stackVars == <<created, stack_mem, started, end, save_buffer, occupy_co, mem, alloc_idx,
          call_stack, pending_co, last_occupy>>

StackInit ==
  /\ created = {}
  /\ stack_mem = [c \in Co |-> Private]
  /\ started = [c \in Co |-> FALSE]
  /\ end = [c \in Co |-> FALSE]
  /\ save_buffer = [c \in Co |-> "null"]
  /\ occupy_co = [s \in Stacks |-> NoCo]
  /\ mem = [s \in Stacks |-> NoCo]
  /\ alloc_idx = 0
  /\ call_stack = <<Main>>
  /\ pending_co = NoCo
  /\ last_occupy = NoCo

CoSelf == call_stack[Len(call_stack)]
OnCallStack(c) == \E i \in 1 .. Len(call_stack) : call_stack[i] = c

is_share_stack(c) == c \in Co /\ stack_mem[c] \in Stacks

\* c has frames that will be executed again.
Live(c) == c \in created /\ started[c] /\ ~ end[c]

------------------------------------------------------------------------------
\* Creation.

StackMemGet ==
  alloc_idx % count

\* CoCreate with (share) and without a share_stack_t in the attributes.
CoCreate(c, share) ==
  /\ c \notin created
  /\ created' = created \cup {c}
  /\ stack_mem' = [stack_mem EXCEPT ![c] = IF share THEN StackMemGet ELSE Private]
  /\ alloc_idx' = IF share THEN (alloc_idx + 1) % UIntSize ELSE alloc_idx
  /\ started' = [started EXCEPT ![c] = FALSE]
  /\ end' = [end EXCEPT ![c] = FALSE]
  /\ save_buffer' = [save_buffer EXCEPT ![c] = "null"]
  /\ UNCHANGED <<occupy_co, mem, call_stack, pending_co, last_occupy>>

------------------------------------------------------------------------------
\* Switching.

\* Mutant of StackBufferSave: a buffer that is already there is kept.
StackBufferSaveOnce(c) ==
  [save_buffer EXCEPT ![c] = IF @ = "null" THEN "latest" ELSE @]

\* What becomes of the buffers when c's part of its stack is copied to its
\* save_buffer: the copy is worth what lies on the stack.
StackBufferSave(c) ==
  [save_buffer EXCEPT ![c] = IF mem[stack_mem[c]] = c THEN "latest" ELSE "old"]

\* Mutant of Restored: the comparison of occupant and resumed is inverted.
RestoredInverted(p, s, o, bufs) ==
  IF o = p /\ bufs[p] = "latest" THEN p ELSE mem[s]

\* The part of CoSwap after co_ctx_swap, run by the resumed coroutine p: whose
\* frames lie on its stack s afterwards, given the last occupant o and the
\* buffers after StackBufferSave.
Restored(p, s, o, bufs) ==
  IF o # NoCo /\ o # p /\ bufs[p] # "null"
  THEN IF bufs[p] = "latest" THEN p ELSE NoCo
  ELSE mem[s]

\* Mutant of CoSwap: a switch to a private stack leaves the fields of env.
CoSwapKeepsEnv(p, fresh) ==
  \/ /\ ~ is_share_stack(p)
     /\ UNCHANGED <<pending_co, last_occupy, occupy_co, mem, save_buffer>>
  \/ /\ is_share_stack(p)
     /\ pending_co' = p
     /\ last_occupy' = occupy_co[stack_mem[p]]
     /\ occupy_co' = [occupy_co EXCEPT ![stack_mem[p]] = p]
     /\ mem' = [mem EXCEPT ![stack_mem[p]] = p]
     /\ UNCHANGED save_buffer

\* CoSwap to p.  A coroutine that starts (fresh) writes its first frames
\* without restoring anything.  Once p runs, its frames differ from what its
\* buffer holds.
CoSwap(p, fresh) ==
  \/ /\ ~ is_share_stack(p)
     /\ pending_co' = NoCo
     /\ last_occupy' = NoCo
     /\ UNCHANGED <<occupy_co, mem, save_buffer>>
  \/ /\ is_share_stack(p)
     /\ LET s == stack_mem[p]
            o == occupy_co[s]
            bufs == IF o # NoCo /\ o # p THEN StackBufferSave(o) ELSE save_buffer
        IN /\ pending_co' = p
           /\ last_occupy' = o
           /\ occupy_co' = [occupy_co EXCEPT ![s] = p]
           /\ mem' = [mem EXCEPT ![s] = IF fresh THEN p ELSE Restored(p, s, o, bufs)]
           /\ save_buffer' = [bufs EXCEPT ![p] = IF @ = "null" THEN @ ELSE "old"]

\* The running coroutine resumes c.  CoCtxMake prepares a coroutine that has
\* not started; the word it writes to the top of the stack, CoFunc's address,
\* is the same for every coroutine of the stack.
CoResume(c) ==
  /\ c \in created /\ ~ end[c] /\ ~ OnCallStack(c)
  /\ Len(call_stack) < StackMax
  /\ call_stack' = Append(call_stack, c)
  /\ started' = [started EXCEPT ![c] = TRUE]
  /\ CoSwap(c, ~ started[c])
  /\ UNCHANGED <<created, stack_mem, end, alloc_idx>>

\* The running coroutine returns control to the one that resumed it.
CoYield ==
  /\ Len(call_stack) > 1
  /\ call_stack' = SubSeq(call_stack, 1, Len(call_stack) - 1)
  /\ CoSwap(call_stack[Len(call_stack) - 1], FALSE)
  /\ UNCHANGED <<created, stack_mem, started, end, alloc_idx>>

\* pfn returns: CoFunc marks the end and yields for the last time.
CoFunc ==
  /\ Len(call_stack) > 1
  /\ end' = [end EXCEPT ![CoSelf] = TRUE]
  /\ call_stack' = SubSeq(call_stack, 1, Len(call_stack) - 1)
  /\ CoSwap(call_stack[Len(call_stack) - 1], FALSE)
  /\ UNCHANGED <<created, stack_mem, started, alloc_idx>>

------------------------------------------------------------------------------
\* Recycling.

\* Others wait with frames of the stack that c occupies.
Busy(c) ==
  /\ is_share_stack(c)
  /\ occupy_co[stack_mem[c]] = c
  /\ \E d \in Co \ {c} : Live(d) /\ stack_mem[d] = stack_mem[c]

\* The occupy_co fields when c gives up its stack.
Vacated(c) ==
  [s \in Stacks |-> IF stack_mem[c] = s /\ occupy_co[s] = c THEN NoCo ELSE occupy_co[s]]

\* CoReset makes c new again; it returns early when c has not started.
CoReset(c) ==
  /\ c \in created /\ ~ OnCallStack(c)
  /\ Disciplined => ~ Busy(c)
  /\ started[c]
  /\ started' = [started EXCEPT ![c] = FALSE]
  /\ end' = [end EXCEPT ![c] = FALSE]
  /\ save_buffer' = [save_buffer EXCEPT ![c] = "null"]
  /\ occupy_co' = Vacated(c)
  /\ UNCHANGED <<created, stack_mem, mem, alloc_idx, call_stack, pending_co, last_occupy>>

\* CoRelease frees c.
CoRelease(c) ==
  /\ c \in created /\ ~ OnCallStack(c)
  /\ Disciplined => ~ Busy(c)
  /\ created' = created \ {c}
  /\ occupy_co' = Vacated(c)
  /\ UNCHANGED <<stack_mem, started, end, save_buffer, mem, alloc_idx, call_stack,
                 pending_co, last_occupy>>

StackNext ==
  \/ \E c \in Co, share \in BOOLEAN : CoCreate(c, share)
  \/ \E c \in Co : CoResume(c) \/ CoReset(c) \/ CoRelease(c)
  \/ CoYield
  \/ CoFunc

StackSpec == StackInit /\ [][StackNext]_stackVars

------------------------------------------------------------------------------

\* The stacks handed out exist, and the call stack stays within its array.
StackTypeOK ==
  /\ created \subseteq Co
  /\ stack_mem \in [Co -> Stacks \cup {Private}]
  /\ started \in [Co -> BOOLEAN]
  /\ end \in [Co -> BOOLEAN]
  /\ save_buffer \in [Co -> {"null", "latest", "old"}]
  /\ occupy_co \in [Stacks -> Co \cup {NoCo}]
  /\ mem \in [Stacks -> Co \cup {NoCo}]
  /\ alloc_idx \in 0 .. UIntSize - 1
  /\ call_stack \in Seq(Co \cup {Main})
  /\ Len(call_stack) \in 1 .. StackMax
  /\ pending_co \in Co \cup {NoCo}
  /\ last_occupy \in Co \cup {NoCo}

\* A coroutine that runs on a shared stack finds its own latest frames there,
\* whoever ran on it in between (the restore after co_ctx_swap in CoSwap).
OwnFrames ==
  is_share_stack(CoSelf) => mem[stack_mem[CoSelf]] = CoSelf

\* The frames of a suspended coroutine are never lost: they lie on its stack or
\* its save_buffer holds the latest of them (StackBufferSave before the switch).
FramesKept ==
  \A c \in Co : Live(c) /\ is_share_stack(c) /\ c # CoSelf =>
    mem[stack_mem[c]] = c \/ save_buffer[c] = "latest"

\* The occupant of a stack, whose stack_sp and stack_mem the next CoSwap reads,
\* is a coroutine of that stack that exists and has run (CoFree and CoReset
\* take the pointer back).
OccupantExists ==
  \A s \in Stacks : occupy_co[s] # NoCo =>
    /\ occupy_co[s] \in created
    /\ started[occupy_co[s]]
    /\ stack_mem[occupy_co[s]] = s

\* The fields of env tell which shared coroutine runs, and are null when none
\* does (co_env_t: both are null while no shared stack is in use).
EnvOfRunning ==
  IF is_share_stack(CoSelf)
  THEN pending_co = CoSelf
  ELSE pending_co = NoCo /\ last_occupy = NoCo
=============================================================================
