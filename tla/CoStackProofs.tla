--------------------------- MODULE CoStackProofs ---------------------------
(* Proofs about CoStack for any number of coroutines and shared stacks, when  *)
(* the occupant of a stack is not recycled while others wait on it.           *)
(*                                                                            *)
(* The argument: the frames on a stack are those of its occupant, every other *)
(* live coroutine of the stack has its latest frames in its buffer, and a     *)
(* stack with live coroutines has an occupant, so that a coroutine that comes *)
(* back either finds itself the occupant or finds another one and restores.   *)
EXTENDS CoStack, TLAPS

\* The call stack begins with Main and holds live coroutines, each once.
CallStackOK ==
  /\ call_stack[1] = Main
  /\ \A i \in 2 .. Len(call_stack) : call_stack[i] \in Co /\ Live(call_stack[i])
  /\ \A i, j \in 1 .. Len(call_stack) : call_stack[i] = call_stack[j] => i = j

\* What lies on an occupied stack are the frames of its occupant.
OccupantOwns ==
  \A s \in Stacks : occupy_co[s] # NoCo => mem[s] = occupy_co[s]

\* Whoever is displaced has a good buffer.
DisplacedSaved ==
  \A c \in Co : Live(c) /\ is_share_stack(c) =>
    occupy_co[stack_mem[c]] = c \/ save_buffer[c] = "latest"

\* A stack with live coroutines is occupied.
LiveOccupied ==
  \A c \in Co : Live(c) /\ is_share_stack(c) => occupy_co[stack_mem[c]] # NoCo

\* The running coroutine occupies its stack.
RunningOccupies ==
  is_share_stack(CoSelf) => occupy_co[stack_mem[CoSelf]] = CoSelf

IndInv ==
  /\ StackTypeOK
  /\ CallStackOK
  /\ OccupantExists
  /\ OccupantOwns
  /\ DisplacedSaved
  /\ LiveOccupied
  /\ RunningOccupies
  /\ EnvOfRunning

------------------------------------------------------------------------------

\* What one CoSwap does, whoever calls it: p is the main coroutine, starts
\* afresh, or is live.
LEMMA SwapEffect ==
  ASSUME IndInv, NEW p \in Co \cup {Main}, NEW fresh \in BOOLEAN,
         p \in Co => fresh \/ Live(p), CoSwap(p, fresh)
  PROVE  /\ occupy_co' \in [Stacks -> Co \cup {NoCo}]
         /\ mem' \in [Stacks -> Co \cup {NoCo}]
         /\ save_buffer' \in [Co -> {"null", "latest", "old"}]
         /\ pending_co' \in Co \cup {NoCo}
         /\ last_occupy' \in Co \cup {NoCo}
         /\ \A s \in Stacks : \/ occupy_co'[s] = occupy_co[s]
                              \/ p \in Co /\ stack_mem[p] = s /\ occupy_co'[s] = p
         /\ \A s \in Stacks : occupy_co'[s] # NoCo => mem'[s] = occupy_co'[s]
         /\ \A c \in Co \ {p} : is_share_stack(c) /\
              (occupy_co[stack_mem[c]] = c \/ save_buffer[c] = "latest") =>
                 occupy_co'[stack_mem[c]] = c \/ save_buffer'[c] = "latest"
         /\ is_share_stack(p) => occupy_co'[stack_mem[p]] = p /\ pending_co' = p
         /\ ~ is_share_stack(p) => pending_co' = NoCo /\ last_occupy' = NoCo
<1> USE StackAssumption
<1>1. CASE ~ is_share_stack(p)
  <2>1. UNCHANGED <<occupy_co, mem, save_buffer>> /\ pending_co' = NoCo /\ last_occupy' = NoCo
    BY <1>1 DEF CoSwap
  <2> QED
    BY <1>1, <2>1 DEF IndInv, StackTypeOK, OccupantOwns
<1>2. CASE is_share_stack(p)
  <2> DEFINE s == stack_mem[p]
             o == occupy_co[s]
             bufs == IF o # NoCo /\ o # p THEN StackBufferSave(o) ELSE save_buffer
  <2>1. /\ pending_co' = p
        /\ last_occupy' = o
        /\ occupy_co' = [occupy_co EXCEPT ![s] = p]
        /\ mem' = [mem EXCEPT ![s] = IF fresh THEN p ELSE Restored(p, s, o, bufs)]
        /\ save_buffer' = [bufs EXCEPT ![p] = IF @ = "null" THEN @ ELSE "old"]
    BY <1>2 DEF CoSwap
  <2>2. p \in Co /\ s \in Stacks /\ o \in Co \cup {NoCo}
    BY <1>2 DEF is_share_stack, IndInv, StackTypeOK
  <2>3. ASSUME o # NoCo, o # p
        PROVE  bufs = [save_buffer EXCEPT ![o] = "latest"]
    BY <2>2, <2>3 DEF StackBufferSave, IndInv, OccupantExists, OccupantOwns
  <2>4. /\ bufs \in [Co -> {"null", "latest", "old"}]
        /\ \A c \in Co : c # p /\ c = o => bufs[c] = "latest"
        /\ \A c \in Co : c # o => bufs[c] = save_buffer[c]
    <3>1. CASE o # NoCo /\ o # p
      BY <2>2, <2>3, <3>1 DEF IndInv, StackTypeOK
    <3>2. CASE ~ (o # NoCo /\ o # p)
      <4>1. bufs = save_buffer
        BY <3>2
      <4> QED
        BY <2>2, <3>2, <4>1 DEF IndInv, StackTypeOK
    <3> QED
      BY <3>1, <3>2
  <2>5. ASSUME ~ fresh
        PROVE  Restored(p, s, o, bufs) = p
    <3>1. Live(p) /\ o # NoCo
      BY <1>2, <2>2, <2>5 DEF IndInv, LiveOccupied
    <3>2. CASE o = p
      BY <2>2, <3>1, <3>2 DEF Restored, IndInv, OccupantOwns
    <3>3. CASE o # p
      <4>1. save_buffer[p] = "latest"
        BY <1>2, <2>2, <3>1, <3>3 DEF IndInv, DisplacedSaved
      <4>2. bufs[p] = "latest"
        BY <2>2, <2>4, <3>3, <4>1
      <4> QED
        BY <3>1, <3>3, <4>2 DEF Restored
    <3> QED
      BY <3>2, <3>3
  <2>6. mem' = [mem EXCEPT ![s] = p]
    BY <2>1, <2>5
  <2> HIDE DEF bufs
  <2>7. save_buffer' \in [Co -> {"null", "latest", "old"}]
    BY <2>1, <2>2, <2>4
  <2>8. ASSUME NEW c \in Co \ {p}, is_share_stack(c),
               occupy_co[stack_mem[c]] = c \/ save_buffer[c] = "latest"
        PROVE  occupy_co'[stack_mem[c]] = c \/ save_buffer'[c] = "latest"
    <3>1. save_buffer'[c] = bufs[c]
      BY <2>1, <2>4
    <3>2. CASE c = o
      BY <2>4, <3>1, <3>2
    <3>3. CASE c # o
      <4>1. bufs[c] = save_buffer[c]
        BY <2>4, <3>3
      <4>2. stack_mem[c] \in Stacks
        BY <2>8 DEF is_share_stack
      <4>3. CASE stack_mem[c] = s
        BY <2>8, <3>1, <3>3, <4>1, <4>3
      <4>4. CASE stack_mem[c] # s
        BY <2>1, <2>2, <2>8, <3>1, <4>1, <4>2, <4>4 DEF IndInv, StackTypeOK
      <4> QED
        BY <4>3, <4>4
    <3> QED
      BY <3>2, <3>3
  <2>9. /\ occupy_co' \in [Stacks -> Co \cup {NoCo}]
        /\ mem' \in [Stacks -> Co \cup {NoCo}]
        /\ pending_co' \in Co \cup {NoCo}
        /\ last_occupy' \in Co \cup {NoCo}
    BY <2>1, <2>2, <2>6 DEF IndInv, StackTypeOK
  <2>10. \A t \in Stacks : \/ occupy_co'[t] = occupy_co[t]
                           \/ p \in Co /\ stack_mem[p] = t /\ occupy_co'[t] = p
    BY <2>1, <2>2 DEF IndInv, StackTypeOK
  <2>11. \A t \in Stacks : occupy_co'[t] # NoCo => mem'[t] = occupy_co'[t]
    BY <2>1, <2>2, <2>6 DEF IndInv, StackTypeOK, OccupantOwns
  <2>12. occupy_co'[stack_mem[p]] = p /\ pending_co' = p
    BY <2>1, <2>2 DEF IndInv, StackTypeOK
  <2> QED
    BY <1>2, <2>7, <2>8, <2>9, <2>10, <2>11, <2>12
<1> QED
  BY <1>1, <1>2

LEMMA InitInv == StackInit => IndInv
BY StackAssumption
   DEF StackInit, IndInv, StackTypeOK, CallStackOK, OccupantExists, OccupantOwns, DisplacedSaved,
       LiveOccupied, RunningOccupies, EnvOfRunning, CoSelf, Live, is_share_stack, Stacks,
       Private

\* CoCreate: a new coroutine has neither frames nor a stack it occupies.
LEMMA CreateInv ==
  ASSUME IndInv, NEW c \in Co, NEW share \in BOOLEAN, CoCreate(c, share)
  PROVE  IndInv'
<1> USE StackAssumption
<1>1. c \notin created /\ created' = created \cup {c} /\ started' = [started EXCEPT ![c] = FALSE]
      /\ UNCHANGED <<occupy_co, mem, call_stack, pending_co, last_occupy>>
  BY DEF CoCreate
<1>2. StackMemGet \in Stacks
  BY DEF StackMemGet, Stacks, IndInv, StackTypeOK
<1>3. StackTypeOK'
  BY <1>2 DEF CoCreate, IndInv, StackTypeOK
<1>4. \A d \in Co \ {c} : /\ stack_mem'[d] = stack_mem[d]
                          /\ save_buffer'[d] = save_buffer[d]
                          /\ Live(d)' <=> Live(d)
                          /\ is_share_stack(d)' <=> is_share_stack(d)
  BY DEF CoCreate, IndInv, StackTypeOK, Live, is_share_stack
<1>5. ~ Live(c) /\ ~ Live(c)'
  BY <1>1 DEF Live, IndInv, StackTypeOK
<1>6. \A i \in 1 .. Len(call_stack) : call_stack[i] # c
  BY <1>5 DEF IndInv, CallStackOK, StackTypeOK
<1>7. CallStackOK'
  BY <1>1, <1>4, <1>6 DEF IndInv, CallStackOK, StackTypeOK
<1>8. OccupantExists' /\ OccupantOwns'
  BY <1>1 DEF CoCreate, IndInv, StackTypeOK, OccupantExists, OccupantOwns
<1>9. DisplacedSaved' /\ LiveOccupied'
  BY <1>1, <1>4, <1>5 DEF IndInv, DisplacedSaved, LiveOccupied
<1>10. CoSelf' = CoSelf /\ CoSelf # c /\ CoSelf \in Co \cup {Main}
  BY <1>1, <1>6 DEF CoSelf, IndInv, StackTypeOK
<1>11. RunningOccupies' /\ EnvOfRunning'
  <2>1. CASE CoSelf \in Co
    BY <1>1, <1>4, <1>10, <2>1 DEF IndInv, RunningOccupies, EnvOfRunning
  <2>2. CASE CoSelf \notin Co
    BY <1>1, <1>10, <2>2 DEF IndInv, RunningOccupies, EnvOfRunning, is_share_stack
  <2> QED
    BY <2>1, <2>2
<1> QED
  BY <1>3, <1>7, <1>8, <1>9, <1>11 DEF IndInv

\* The parts of the invariant that a switch to p re-establishes, once the call
\* stack has p on top and everybody live has been accounted for.
LEMMA SwitchInv ==
  ASSUME IndInv, NEW p \in Co \cup {Main}, NEW fresh \in BOOLEAN,
         p \in Co => p \in created /\ (fresh \/ Live(p)) /\ started'[p],
         CoSwap(p, fresh), UNCHANGED <<created, stack_mem>>, CoSelf' = p,
         started' \in [Co -> BOOLEAN], end' \in [Co -> BOOLEAN],
         \A d \in Co : started[d] => started'[d],
         \A d \in Co \ {p} : Live(d)' => Live(d)
  PROVE  /\ OccupantExists'
         /\ OccupantOwns'
         /\ DisplacedSaved'
         /\ LiveOccupied'
         /\ RunningOccupies'
         /\ EnvOfRunning'
<1> USE StackAssumption
<1>1. /\ \A s \in Stacks : \/ occupy_co'[s] = occupy_co[s]
                           \/ p \in Co /\ stack_mem[p] = s /\ occupy_co'[s] = p
      /\ \A s \in Stacks : occupy_co'[s] # NoCo => mem'[s] = occupy_co'[s]
      /\ \A c \in Co \ {p} : is_share_stack(c) /\
           (occupy_co[stack_mem[c]] = c \/ save_buffer[c] = "latest") =>
              occupy_co'[stack_mem[c]] = c \/ save_buffer'[c] = "latest"
      /\ is_share_stack(p) => occupy_co'[stack_mem[p]] = p /\ pending_co' = p
      /\ ~ is_share_stack(p) => pending_co' = NoCo /\ last_occupy' = NoCo
  BY SwapEffect
<1>2. \A c : is_share_stack(c)' <=> is_share_stack(c)
  BY DEF is_share_stack
<1>3. OccupantExists'
  BY <1>1 DEF IndInv, OccupantExists, StackTypeOK
<1>4. OccupantOwns'
  BY <1>1 DEF OccupantOwns
<1>5. DisplacedSaved'
  <2> SUFFICES ASSUME NEW c \in Co, Live(c)', is_share_stack(c)
               PROVE  occupy_co'[stack_mem[c]] = c \/ save_buffer'[c] = "latest"
    BY <1>2 DEF DisplacedSaved
  <2>1. CASE c = p
    BY <1>1, <2>1
  <2>2. CASE c # p
    BY <1>1, <2>2 DEF IndInv, DisplacedSaved
  <2> QED
    BY <2>1, <2>2
<1>6. LiveOccupied'
  <2> SUFFICES ASSUME NEW c \in Co, Live(c)', is_share_stack(c)
               PROVE  occupy_co'[stack_mem[c]] # NoCo
    BY <1>2 DEF LiveOccupied
  <2>1. CASE c = p
    BY <1>1, <2>1
  <2>2. CASE c # p
    <3>1. occupy_co[stack_mem[c]] # NoCo /\ stack_mem[c] \in Stacks
      BY <2>2 DEF IndInv, LiveOccupied, is_share_stack
    <3> QED
      BY <1>1, <3>1
  <2> QED
    BY <2>1, <2>2
<1>7. RunningOccupies' /\ EnvOfRunning'
  BY <1>1, <1>2 DEF RunningOccupies, EnvOfRunning
<1> QED
  BY <1>3, <1>4, <1>5, <1>6, <1>7

\* CoResume: the resumed coroutine comes on top.
LEMMA ResumeInv ==
  ASSUME IndInv, NEW c \in Co, CoResume(c)
  PROVE  IndInv'
<1> USE StackAssumption
<1>1. /\ c \in created /\ ~ end[c] /\ ~ OnCallStack(c)
      /\ Len(call_stack) < StackMax
      /\ call_stack' = Append(call_stack, c)
      /\ started' = [started EXCEPT ![c] = TRUE]
      /\ CoSwap(c, ~ started[c])
      /\ UNCHANGED <<created, stack_mem, end, alloc_idx>>
  BY DEF CoResume
<1>2. call_stack \in Seq(Co \cup {Main}) /\ Len(call_stack) \in 1 .. StackMax
  BY DEF IndInv, StackTypeOK
<1>3. /\ Len(call_stack') = Len(call_stack) + 1
      /\ call_stack'[Len(call_stack) + 1] = c
      /\ \A i \in 1 .. Len(call_stack) : call_stack'[i] = call_stack[i]
      /\ call_stack' \in Seq(Co \cup {Main})
  BY <1>1, <1>2
<1>4. \A d \in Co : Live(d)' <=> Live(d) \/ d = c
  BY <1>1 DEF Live, IndInv, StackTypeOK
<1>5. CallStackOK'
  BY <1>1, <1>2, <1>3, <1>4 DEF IndInv, CallStackOK, OnCallStack
<1>6. StackTypeOK'
  <2>1. c \in Co => ~ started[c] \/ Live(c)
    BY <1>1 DEF Live
  <2>2. /\ occupy_co' \in [Stacks -> Co \cup {NoCo}]
        /\ mem' \in [Stacks -> Co \cup {NoCo}]
        /\ save_buffer' \in [Co -> {"null", "latest", "old"}]
        /\ pending_co' \in Co \cup {NoCo}
        /\ last_occupy' \in Co \cup {NoCo}
    BY <1>1, <2>1, SwapEffect
  <2>3. Len(call_stack') \in 1 .. StackMax
    BY <1>1, <1>2, <1>3
  <2> QED
    BY <1>1, <1>3, <2>2, <2>3 DEF IndInv, StackTypeOK
<1>7. CoSelf' = c
  BY <1>3 DEF CoSelf
<1>8. /\ started' \in [Co -> BOOLEAN] /\ end' \in [Co -> BOOLEAN]
      /\ \A d \in Co : started[d] => started'[d]
      /\ started'[c]
      /\ \A d \in Co \ {c} : Live(d)' => Live(d)
      /\ ~ started[c] \/ Live(c)
  BY <1>1, <1>4 DEF IndInv, StackTypeOK, Live
<1>9. OccupantExists' /\ OccupantOwns' /\ DisplacedSaved' /\ LiveOccupied'
      /\ RunningOccupies' /\ EnvOfRunning'
  BY <1>1, <1>7, <1>8, SwitchInv
<1> QED
  BY <1>5, <1>6, <1>9 DEF IndInv

\* Returning to the previous coroutine, with the flags of the one that leaves
\* kept (CoYield) or its end marked (CoFunc).
LEMMA ReturnInv ==
  ASSUME IndInv, CoYield \/ CoFunc
  PROVE  IndInv'
<1> USE StackAssumption
<1> DEFINE n == Len(call_stack)
           p == call_stack[n - 1]
<1>1. /\ n > 1
      /\ call_stack' = SubSeq(call_stack, 1, n - 1)
      /\ CoSwap(p, FALSE)
      /\ UNCHANGED <<created, stack_mem, started, alloc_idx>>
      /\ end' = end \/ end' = [end EXCEPT ![CoSelf] = TRUE]
  BY DEF CoYield, CoFunc
<1>2. call_stack \in Seq(Co \cup {Main}) /\ n \in Nat /\ n \in 1 .. StackMax
  BY DEF IndInv, StackTypeOK
<1>3. /\ Len(call_stack') = n - 1
      /\ \A i \in 1 .. n - 1 : call_stack'[i] = call_stack[i]
      /\ call_stack' \in Seq(Co \cup {Main})
  BY <1>1, <1>2
<1>4. /\ p \in Co \cup {Main}
      /\ p \in Co => Live(p)
      /\ CoSelf \in Co
      /\ \A i \in 1 .. n - 1 : call_stack[i] # CoSelf
  BY <1>1, <1>2 DEF IndInv, CallStackOK, CoSelf
<1>5. /\ end' \in [Co -> BOOLEAN]
      /\ \A d \in Co : Live(d)' => Live(d)
      /\ \A d \in Co \ {CoSelf} : Live(d)' <=> Live(d)
  BY <1>1, <1>4 DEF IndInv, StackTypeOK, Live
<1>6. CallStackOK'
  BY <1>1, <1>2, <1>3, <1>4, <1>5 DEF IndInv, CallStackOK
<1>7. CoSelf' = p
  BY <1>1, <1>2, <1>3 DEF CoSelf
<1>8. StackTypeOK'
  <2>1. /\ occupy_co' \in [Stacks -> Co \cup {NoCo}]
        /\ mem' \in [Stacks -> Co \cup {NoCo}]
        /\ save_buffer' \in [Co -> {"null", "latest", "old"}]
        /\ pending_co' \in Co \cup {NoCo}
        /\ last_occupy' \in Co \cup {NoCo}
    BY <1>1, <1>4, SwapEffect
  <2>2. Len(call_stack') \in 1 .. StackMax
    BY <1>1, <1>2, <1>3
  <2> QED
    BY <1>1, <1>3, <1>5, <2>1, <2>2 DEF IndInv, StackTypeOK
<1>9. p \in Co => p \in created /\ started'[p]
  BY <1>1, <1>4 DEF Live
<1>10. started' \in [Co -> BOOLEAN] /\ \A d \in Co : started[d] => started'[d]
  BY <1>1 DEF IndInv, StackTypeOK
<1> HIDE DEF p
<1>11. OccupantExists' /\ OccupantOwns' /\ DisplacedSaved' /\ LiveOccupied'
       /\ RunningOccupies' /\ EnvOfRunning'
  BY <1>1, <1>4, <1>5, <1>7, <1>9, <1>10, SwitchInv
<1> QED
  BY <1>6, <1>8, <1>11 DEF IndInv

\* CoReset and CoRelease: c is no longer live, and nobody live loses the
\* occupant of its stack.
LEMMA RecycleInv ==
  ASSUME IndInv, Disciplined, NEW c \in Co, CoReset(c) \/ CoRelease(c)
  PROVE  IndInv'
<1> USE StackAssumption
<1>1. /\ ~ OnCallStack(c) /\ ~ Busy(c)
      /\ occupy_co' = Vacated(c)
      /\ UNCHANGED <<stack_mem, mem, alloc_idx, call_stack, pending_co, last_occupy>>
  BY DEF CoReset, CoRelease
<1>2. /\ created' \subseteq Co
      /\ started' \in [Co -> BOOLEAN] /\ end' \in [Co -> BOOLEAN]
      /\ save_buffer' \in [Co -> {"null", "latest", "old"}]
      /\ \A d \in Co : d # c => /\ d \in created' <=> d \in created
                              /\ started'[d] = started[d] /\ end'[d] = end[d]
                              /\ save_buffer'[d] = save_buffer[d]
  <2>1. CASE CoReset(c)
    BY <2>1 DEF CoReset, IndInv, StackTypeOK
  <2>2. CASE CoRelease(c)
    BY <2>2 DEF CoRelease, IndInv, StackTypeOK
  <2> QED
    BY <2>1, <2>2
<1>3. ~ Live(c)'
  BY DEF CoReset, CoRelease, Live, IndInv, StackTypeOK
<1>4. \A d \in Co \ {c} : Live(d)' <=> Live(d)
  <2> SUFFICES ASSUME NEW d \in Co \ {c} PROVE Live(d)' <=> Live(d)
    OBVIOUS
  <2>1. d \in Co /\ d # c
    OBVIOUS
  <2>2. (d \in created' <=> d \in created) /\ started'[d] = started[d] /\ end'[d] = end[d]
    BY <1>2, <2>1
  <2> QED
    BY <2>2 DEF Live
<1>5. \A d : is_share_stack(d)' <=> is_share_stack(d)
  BY <1>1 DEF is_share_stack
<1>6. /\ occupy_co' \in [Stacks -> Co \cup {NoCo}]
      /\ \A s \in Stacks : \/ occupy_co'[s] = occupy_co[s] /\ occupy_co'[s] # c
                           \/ occupy_co[s] = c /\ stack_mem[c] = s /\ occupy_co'[s] = NoCo
  BY <1>1 DEF Vacated, IndInv, StackTypeOK, OccupantExists
<1>7. StackTypeOK'
  BY <1>1, <1>2, <1>6 DEF IndInv, StackTypeOK
<1>8. CallStackOK'
  BY <1>1, <1>4 DEF IndInv, CallStackOK, OnCallStack, StackTypeOK
<1>9. OccupantExists'
  BY <1>1, <1>2, <1>6 DEF IndInv, OccupantExists, StackTypeOK
<1>10. OccupantOwns'
  BY <1>1, <1>6 DEF IndInv, OccupantOwns
<1>11. DisplacedSaved'
  <2> SUFFICES ASSUME NEW d \in Co \ {c}, Live(d), is_share_stack(d)
               PROVE  occupy_co'[stack_mem[d]] = d \/ save_buffer'[d] = "latest"
    BY <1>1, <1>3, <1>4, <1>5 DEF DisplacedSaved
  <2>1. stack_mem[d] \in Stacks
    BY DEF is_share_stack
  <2> QED
    BY <1>2, <1>6, <2>1 DEF IndInv, DisplacedSaved
<1>12. LiveOccupied'
  <2> SUFFICES ASSUME NEW d \in Co \ {c}, Live(d), is_share_stack(d)
               PROVE  occupy_co'[stack_mem[d]] # NoCo
    BY <1>1, <1>3, <1>4, <1>5 DEF LiveOccupied
  <2>1. stack_mem[d] \in Stacks /\ occupy_co[stack_mem[d]] # NoCo
    BY DEF is_share_stack, IndInv, LiveOccupied
  <2>2. ~ (occupy_co[stack_mem[d]] = c /\ stack_mem[c] = stack_mem[d])
    BY <1>1, <2>1 DEF Busy, is_share_stack
  <2> QED
    BY <1>6, <2>1, <2>2
<1>13. CoSelf' = CoSelf /\ CoSelf # c
  BY <1>1 DEF CoSelf, OnCallStack, IndInv, StackTypeOK
<1>14. RunningOccupies'
  <2> SUFFICES ASSUME is_share_stack(CoSelf)
               PROVE  occupy_co'[stack_mem[CoSelf]] = CoSelf
    BY <1>1, <1>5, <1>13 DEF RunningOccupies
  <2>1. stack_mem[CoSelf] \in Stacks /\ occupy_co[stack_mem[CoSelf]] = CoSelf
    BY DEF is_share_stack, IndInv, RunningOccupies
  <2> QED
    BY <1>6, <1>13, <2>1
<1>15. EnvOfRunning'
  BY <1>1, <1>5, <1>13 DEF IndInv, EnvOfRunning
<1> QED
  BY <1>7, <1>8, <1>9, <1>10, <1>11, <1>12, <1>14, <1>15 DEF IndInv

------------------------------------------------------------------------------

\* The invariant is inductive: every library call preserves it, if occupants
\* are recycled only while nobody waits on their stack.
THEOREM StackInvariance ==
  ASSUME Disciplined
  PROVE  StackSpec => []IndInv
<1>1. StackInit => IndInv
  BY InitInv
<1>2. IndInv /\ [StackNext]_stackVars => IndInv'
  <2> SUFFICES ASSUME IndInv, [StackNext]_stackVars
               PROVE  IndInv'
    OBVIOUS
  <2>1. ASSUME NEW c \in Co, NEW share \in BOOLEAN, CoCreate(c, share) PROVE IndInv'
    BY <2>1, CreateInv
  <2>2. ASSUME NEW c \in Co, CoResume(c) PROVE IndInv'
    BY <2>2, ResumeInv
  <2>3. ASSUME NEW c \in Co, CoReset(c) \/ CoRelease(c) PROVE IndInv'
    BY <2>3, RecycleInv
  <2>4. CASE CoYield \/ CoFunc
    BY <2>4, ReturnInv
  <2>5. CASE UNCHANGED stackVars
    BY <2>5 DEF stackVars, IndInv, StackTypeOK, CallStackOK, OccupantExists, OccupantOwns,
                DisplacedSaved, LiveOccupied, RunningOccupies, EnvOfRunning, CoSelf,
                Live, is_share_stack
  <2> QED
    BY <2>1, <2>2, <2>3, <2>4, <2>5 DEF StackNext
<1> QED
  BY <1>1, <1>2, PTL DEF StackSpec

\* The stack handed out by StackMemGet exists, however often alloc_idx wraps,
\* and the call stack stays within its array.
THEOREM StackTypeCorrect ==
  ASSUME Disciplined
  PROVE  StackSpec => []StackTypeOK
<1>1. IndInv => StackTypeOK
  BY DEF IndInv
<1> QED
  BY <1>1, StackInvariance, PTL

\* Whoever runs on a shared stack finds its own latest frames there: CoSwap
\* saves and restores enough.
THEOREM RunsOnOwnFrames ==
  ASSUME Disciplined
  PROVE  StackSpec => []OwnFrames
<1>1. IndInv => OwnFrames
  <2> SUFFICES ASSUME IndInv, is_share_stack(CoSelf)
               PROVE  mem[stack_mem[CoSelf]] = CoSelf
    BY DEF OwnFrames
  <2>1. CoSelf \in Co /\ stack_mem[CoSelf] \in Stacks
    BY DEF is_share_stack
  <2>2. occupy_co[stack_mem[CoSelf]] = CoSelf
    BY DEF IndInv, RunningOccupies
  <2> QED
    BY <2>1, <2>2, StackAssumption DEF IndInv, OccupantOwns
<1> QED
  BY <1>1, StackInvariance, PTL

\* No frames of a suspended coroutine are lost: StackBufferSave comes before
\* the stack is given away.
THEOREM NoFramesLost ==
  ASSUME Disciplined
  PROVE  StackSpec => []FramesKept
<1>1. IndInv => FramesKept
  <2> SUFFICES ASSUME IndInv, NEW c \in Co, Live(c), is_share_stack(c),
                      save_buffer[c] # "latest"
               PROVE  mem[stack_mem[c]] = c
    BY DEF FramesKept
  <2>1. occupy_co[stack_mem[c]] = c /\ stack_mem[c] \in Stacks
    BY DEF IndInv, DisplacedSaved, is_share_stack
  <2> QED
    BY <2>1, StackAssumption DEF IndInv, OccupantOwns
<1> QED
  BY <1>1, StackInvariance, PTL

\* The occupant CoSwap saves is a coroutine that exists.
THEOREM NoDanglingOccupant ==
  ASSUME Disciplined
  PROVE  StackSpec => []OccupantExists
<1>1. IndInv => OccupantExists
  BY DEF IndInv
<1> QED
  BY <1>1, StackInvariance, PTL

\* After every switch env names the shared coroutine that runs, or none, so that
\* the resumed side of CoSwap learns from it whom it has displaced.
THEOREM EnvNamesRunning ==
  ASSUME Disciplined
  PROVE  StackSpec => []EnvOfRunning
<1>1. IndInv => EnvOfRunning
  BY DEF IndInv
<1> QED
  BY <1>1, StackInvariance, PTL
=============================================================================
