----------------------------- MODULE UrcuProofs -----------------------------
(* Proofs about Urcu for any number of readers and writers.                   *)
(*                                                                            *)
(* The registry: whoever changes its links holds registry_lock, and a ring    *)
(* stays a ring when a node is linked in behind the head or taken out.  The   *)
(* scan: reader_move makes the first node point to itself and the scan stays  *)
(* there, so that registry_lock is never given back.  The queue: a leader     *)
(* that gets past the registry has found it empty, at that moment nobody is   *)
(* inside, and the writers whose queue it took over had called before.        *)
EXTENDS Urcu, TLAPS

Labels == {"idle", "exchange", "link", "wait", "sleep", "awake", "teardown", "lead",
           "gp_lock", "move", "registry_lock", "scan", "scanned", "unlock", "walk",
           "wakeup", "futex", "set_teardown", "advance"}

\* The labels at which the loop variable of the walk names a node.
Visiting == {"wakeup", "futex", "set_teardown", "advance"}

TypeOK ==
  /\ ctr \in [Readers -> Nat]
  /\ list \in SUBSET Readers
  /\ next \in [Nodes -> Nodes] /\ prev \in [Nodes -> Nodes]
  /\ head \in Writers \cup {Null}
  /\ node \in [Writers -> [next : Writers \cup {Null},
                           state : SUBSET {"RUNNING", "WAKEUP", "TEARDOWN"}]]
  /\ old_head \in [Writers -> Writers \cup {Null}]
  /\ it \in [Writers -> Writers \cup Nodes \cup {Null}]
  /\ waiters \in [Writers -> Writers \cup {Null}]
  /\ registry_lock \in Writers \cup {Null}
  /\ pc \in [Writers -> Labels]
  /\ syncs \in [Writers -> Nat]
  /\ inside \in [Writers -> SUBSET Readers]
  /\ \A w \in Writers : pc[w] \in Visiting => it[w] \in Writers
  /\ \A w \in Writers : pc[w] = "scan" => it[w] \in Nodes
  /\ \A w \in Writers : pc[w] = "walk" => it[w] \in Writers \cup {Null}

\* Who looks at the readers holds registry_lock.
RegistryHeld ==
  \A w \in Writers : pc[w] \in {"scan", "unlock"} => registry_lock = w

\* No node is ever linked in before the heads of the scan's own lists.
SpareHeads == prev[CurSnap] = CurSnap /\ prev[Qs] = Qs

\* The scan stands at the registry's head, with a reader behind it, or at a reader
\* that is not followed by a head of the scan's own lists.
ScanAtReader ==
  \A w \in Writers : pc[w] = "scan" =>
    \/ it[w] \in Readers /\ next[it[w]] \notin {CurSnap, Qs}
    \/ /\ it[w] = Registry /\ next[Registry] \in Readers
       /\ next[next[Registry]] \notin {CurSnap, Qs}

\* Only registered readers are inside, and only readers still inside are waited for.
InsideActive ==
  /\ \A r \in Readers : ctr[r] > 0 => r \in list
  /\ \A w \in Writers : \A r \in inside[w] : ctr[r] > 0

RegistryInv ==
  /\ TypeOK /\ RegistryHeld /\ SpareHeads /\ ScanAtReader /\ InsideActive
  /\ RegistryRing /\ ScanStays

------------------------------------------------------------------------------
\* A writer that was taken over by a call of a leader waits for no reader once this
\* call, which is the leader's last or an earlier one, has come past the registry.
TakenOver ==
  \A w, l \in Writers : \A k \in Nat : <<l, k>> \in batch[w] =>
    /\ k <= syncs[l]
    /\ k < syncs[l] \/ pc[l] \notin {"registry_lock", "scan"} => inside[w] = {}

\* Outside of a call nobody is taken over.
IdleFree == \A w \in Writers : pc[w] = "idle" => batch[w] = {}

BatchType == batch \in [Writers -> SUBSET (Writers \X Nat)]

QueueInv == RegistryInv /\ TakenOver /\ IdleFree /\ BatchType

------------------------------------------------------------------------------
\* The steps of a writer that leave readers, registry and its scan alone.
QueueStep(w) ==
  \/ Exchange(w) \/ Link(w) \/ SeeWakeup(w) \/ Sleep(w) \/ SeeTeardown(w)
  \/ Lead(w) \/ LockGp(w) \/ wait_queue_move(w)
  \/ WalkOn(w) \/ WakeUp(w) \/ FutexWake(w) \/ SetTeardown(w) \/ NextWaiter(w) \/ Return(w)

LEMMA StepCases ==
  ASSUME NEW w \in Writers, Step(w)
  PROVE  QueueStep(w) \/ LockRegistry(w) \/ Scan(w) \/ Unlock(w)
BY DEF Step, QueueStep

\* The initial state.
LEMMA InitType == UrcuInit => TypeOK
BY UrcuAssumption DEF UrcuInit, TypeOK, Nodes, Labels, Visiting

\* A reader's syncs keep the types.
LEMMA ReaderType ==
  ASSUME TypeOK, NEW r \in Readers, Reader(r)
  PROVE  TypeOK'
<1> USE UrcuAssumption DEF TypeOK, Nodes, queueVars, lockVars
<1>1. CASE rcu_register_thread(r)
  BY <1>1 DEF rcu_register_thread
<1>2. CASE rcu_unregister_thread(r)
  BY <1>2 DEF rcu_unregister_thread
<1>3. CASE rcu_read_lock(r)
  BY <1>3 DEF rcu_read_lock
<1>4. CASE rcu_read_unlock(r)
  <2>1. ctr' \in [Readers -> Nat]
    BY <1>4 DEF rcu_read_unlock
  <2>2. inside' \in [Writers -> SUBSET Readers]
    BY <1>4 DEF rcu_read_unlock
  <2> QED
    BY <2>1, <2>2, <1>4 DEF rcu_read_unlock
<1> QED
  BY <1>1, <1>2, <1>3, <1>4 DEF Reader

\* So do a writer's.
LEMMA WriterType ==
  ASSUME TypeOK, NEW w \in Writers, synchronize_rcu(w) \/ Step(w)
  PROVE  TypeOK'
<1> USE UrcuAssumption DEF TypeOK, readerVars, queueVars, lockVars, Goto, Labels, Visiting
<1>1. CASE synchronize_rcu(w)
  BY <1>1 DEF synchronize_rcu
<1>2. CASE Exchange(w)
  BY <1>2 DEF Exchange
<1>3. CASE Link(w)
  BY <1>3, SMTT(30) DEF Link
<1>4. CASE SeeWakeup(w)
  BY <1>4 DEF SeeWakeup
<1>5. CASE Sleep(w)
  BY <1>5 DEF Sleep
<1>6. CASE SeeTeardown(w)
  BY <1>6 DEF SeeTeardown
<1>7. CASE Lead(w)
  BY <1>7 DEF Lead
<1>8. CASE LockGp(w)
  BY <1>8 DEF LockGp
<1>9. CASE wait_queue_move(w)
  BY <1>9 DEF wait_queue_move
<1>10. CASE LockRegistry(w)
  <2>1. Registry \in Nodes
    BY DEF Nodes
  <2>2. CASE next[Registry] = Registry
    BY <2>2, <1>10 DEF LockRegistry
  <2>3. CASE next[Registry] # Registry
    BY <2>1, <2>3, <1>10 DEF LockRegistry
  <2> QED
    BY <2>2, <2>3
<1>11. CASE Scan(w)
  <2>1. it[w] \in Readers =>
          next' \in [Nodes -> Nodes] /\ prev' \in [Nodes -> Nodes]
    BY <1>11 DEF Scan, reader_move, Nodes
  <2>2. next' \in [Nodes -> Nodes] /\ prev' \in [Nodes -> Nodes]
    BY <2>1, <1>11 DEF Scan
  <2> QED
    BY <2>2, <1>11 DEF Scan, Nodes
<1>12. CASE Unlock(w)
  BY <1>12 DEF Unlock
<1>13. CASE WalkOn(w)
  BY <1>13 DEF WalkOn
<1>14. CASE WakeUp(w)
  BY <1>14 DEF WakeUp
<1>15. CASE FutexWake(w)
  BY <1>15 DEF FutexWake
<1>16. CASE SetTeardown(w)
  BY <1>16 DEF SetTeardown
<1>17. CASE NextWaiter(w)
  BY <1>17 DEF NextWaiter
<1>18. CASE Return(w)
  BY <1>18 DEF Return
<1> QED
  BY <1>1, <1>2, <1>3, <1>4, <1>5, <1>6, <1>7, <1>8, <1>9, <1>10, <1>11, <1>12, <1>13,
     <1>14, <1>15, <1>16, <1>17, <1>18 DEF Step

------------------------------------------------------------------------------
\* What a QueueStep changes: pc, away from the scan, and the queue.
LEMMA QueueStepFrame ==
  ASSUME TypeOK, NEW w \in Writers, QueueStep(w)
  PROVE  /\ UNCHANGED <<readerVars, registry_lock>>
         /\ \A u \in Writers : pc[u] \in {"scan", "unlock", "scanned"} <=>
                               pc'[u] \in {"scan", "unlock", "scanned"}
         /\ \A u \in Writers : pc[u] \in {"scan", "unlock", "scanned"} =>
                               pc'[u] = pc[u] /\ it'[u] = it[u]
         /\ \A u \in Writers : inside'[u] = inside[u] \/ inside'[u] = {}
BY DEF QueueStep, TypeOK, readerVars, queueVars, lockVars, Goto, Visiting,
       Exchange, Link, SeeWakeup, Sleep, SeeTeardown, Lead, LockGp, wait_queue_move,
       WalkOn, WakeUp, FutexWake, SetTeardown, NextWaiter, Return

\* A ring through Registry: linked both ways, and no part of it closed.
Ring(R, nx, pv) ==
  /\ \A n \in R : nx[n] \in R /\ pv[nx[n]] = n
  /\ \A S \in SUBSET R : Registry \in S /\ (\A n \in S : nx[n] \in S) => S = R

\* rcu_register_thread links a node in behind the head.
LEMMA RegisterRing ==
  ASSUME TypeOK, Ring(list \cup {Registry}, next, prev), NEW r \in Readers,
         rcu_register_thread(r)
  PROVE  Ring(list' \cup {Registry}, next', prev')
<1> DEFINE R == list \cup {Registry}
           f == next[Registry]
<1>1. r \notin R /\ f \in R /\ R \subseteq Nodes /\ r \in Nodes /\ Registry # r
  BY UrcuAssumption DEF rcu_register_thread, Ring, TypeOK, Nodes
<1>2. /\ next' = [next EXCEPT ![r] = f, ![Registry] = r]
      /\ prev' = [prev EXCEPT ![f] = r, ![r] = Registry]
      /\ list' \cup {Registry} = R \cup {r}
  BY DEF rcu_register_thread
<1>3. ASSUME NEW n \in R \cup {r}
      PROVE  next'[n] \in R \cup {r} /\ prev'[next'[n]] = n
  <2>1. CASE n = r
    BY <2>1, <1>1, <1>2 DEF TypeOK
  <2>2. CASE n = Registry
    BY <2>2, <1>1, <1>2 DEF TypeOK
  <2>3. CASE n \in R /\ n # Registry
    <3>1. next'[n] = next[n] /\ next[n] \in R /\ prev[next[n]] = n
      BY <2>3, <1>1, <1>2 DEF TypeOK, Ring
    <3>2. next[n] # f
      BY <3>1, <2>3, <1>1 DEF Ring
    <3> QED
      BY <3>1, <3>2, <1>1, <1>2 DEF TypeOK
  <2> QED
    BY <2>1, <2>2, <2>3
<1>4. ASSUME NEW S \in SUBSET (R \cup {r}), Registry \in S, \A n \in S : next'[n] \in S
      PROVE  S = R \cup {r}
  <2>1. r \in S
    BY <1>1, <1>2, <1>4 DEF TypeOK
  <2>2. f \in S
    BY <2>1, <1>1, <1>2, <1>4 DEF TypeOK
  <2>3. ASSUME NEW n \in S \ {r} PROVE next[n] \in S \ {r}
    <3>1. n \in R /\ next[n] \in R
      BY <2>3, <1>4 DEF Ring
    <3>2. CASE n = Registry
      BY <3>2, <2>2, <1>1
    <3>3. CASE n # Registry
      BY <3>1, <3>3, <2>3, <1>1, <1>2, <1>4 DEF TypeOK
    <3> QED
      BY <3>2, <3>3
  <2>4. S \ {r} = R
    BY <2>3, <1>1, <1>4 DEF Ring
  <2> QED
    BY <2>1, <2>4
<1> QED
  BY <1>2, <1>3, <1>4 DEF Ring

\* rcu_unregister_thread takes one out.
LEMMA UnregisterRing ==
  ASSUME TypeOK, Ring(list \cup {Registry}, next, prev), NEW r \in Readers,
         rcu_unregister_thread(r)
  PROVE  Ring(list' \cup {Registry}, next', prev')
<1> DEFINE R == list \cup {Registry}
           p == prev[r]
           q == next[r]
<1>1. r \in R /\ R \subseteq Nodes /\ Registry # r
  BY UrcuAssumption DEF rcu_unregister_thread, TypeOK, Nodes
<1>2. PICK m \in R : next[m] = r
  <2>1. SUFFICES ASSUME \A m \in R : next[m] # r PROVE FALSE
    OBVIOUS
  <2>2. \A n \in R \ {r} : next[n] \in R \ {r}
    BY <2>1 DEF Ring
  <2>3. R \ {r} = R
    BY <2>2, <1>1 DEF Ring
  <2> QED
    BY <2>3, <1>1
<1>3. p = m /\ p \in R /\ next[p] = r /\ q \in R /\ prev[q] = r
  BY <1>1, <1>2 DEF Ring
<1>4. p # r /\ q # r
  <2>1. ASSUME q = r PROVE FALSE
    <3>1. \A n \in R \ {r} : next[n] \in R \ {r}
      BY <2>1, <1>1, <1>3 DEF Ring
    <3> QED
      BY <3>1, <1>1, ZenonT(30) DEF Ring
  <2> QED
    BY <2>1, <1>3
<1>5. /\ next' = [next EXCEPT ![p] = q, ![r] = r]
      /\ prev' = [prev EXCEPT ![q] = p, ![r] = r]
      /\ list' \cup {Registry} = R \ {r}
  BY <1>1 DEF rcu_unregister_thread
<1>6. ASSUME NEW n \in R \ {r}
      PROVE  next'[n] \in R \ {r} /\ prev'[next'[n]] = n
  <2>1. CASE n = p
    BY <2>1, <1>1, <1>3, <1>4, <1>5 DEF TypeOK
  <2>2. CASE n # p
    <3>1. next'[n] = next[n] /\ next[n] \in R /\ prev[next[n]] = n
      BY <2>2, <1>1, <1>5 DEF TypeOK, Ring
    <3>2. next[n] # q /\ next[n] # r
      BY <3>1, <2>2, <1>3
    <3> QED
      BY <3>1, <3>2, <1>1, <1>5 DEF TypeOK
  <2> QED
    BY <2>1, <2>2
<1>7. ASSUME NEW S \in SUBSET (R \ {r}), Registry \in S, \A n \in S : next'[n] \in S
      PROVE  S = R \ {r}
  <2>1. \A n \in S : n # p => next[n] \in S
    BY <1>1, <1>5, <1>7 DEF TypeOK
  <2>2. CASE p \notin S
    <3>1. S = R
      BY <2>1, <2>2, <1>7 DEF Ring
    <3> QED
      BY <3>1, <1>1
  <2>3. CASE p \in S
    <3>1. q \in S
      BY <2>3, <1>1, <1>3, <1>4, <1>5, <1>7 DEF TypeOK
    <3>2. \A n \in S \cup {r} : next[n] \in S \cup {r}
      BY <3>1, <2>1, <1>3
    <3>3. S \cup {r} = R
      <4>1. S \cup {r} \in SUBSET R /\ Registry \in S \cup {r}
        BY <1>1, <1>7
      <4> QED
        BY <3>2, <4>1 DEF Ring
    <3> QED
      BY <3>3, <1>7
  <2> QED
    BY <2>2, <2>3
<1> QED
  BY <1>5, <1>6, <1>7 DEF Ring

------------------------------------------------------------------------------
\* reader_move, of a node that no head of the scan's lists follows, to one of these
\* lists: the node points to itself afterwards.
LEMMA MoveStays ==
  ASSUME TypeOK, SpareHeads, NEW r \in Readers, NEW dst \in {CurSnap, Qs},
         next[r] \notin {CurSnap, Qs}, reader_move(r, dst)
  PROVE  next'[r] = r /\ SpareHeads'
<1>1. /\ r \in Nodes /\ dst \in Nodes /\ next[r] \in Nodes /\ prev[r] \in Nodes
      /\ r # CurSnap /\ r # Qs /\ prev[dst] = dst
  BY UrcuAssumption DEF TypeOK, Nodes, SpareHeads
<1> DEFINE p1 == [prev EXCEPT ![next[r]] = prev[r]]
           x1 == [next EXCEPT ![p1[r]] = next[r]]
           x2 == [x1 EXCEPT ![p1[dst]] = r]
           x3 == [x2 EXCEPT ![r] = x2[dst]]
<1>2. p1[dst] = dst
  BY <1>1 DEF TypeOK
<1>3. x2[dst] = r
  BY <1>1, <1>2 DEF TypeOK
<1>4. x3[r] = r
  BY <1>1, <1>3 DEF TypeOK
<1>5. next' = [x3 EXCEPT ![dst] = r] /\ prev' = [p1 EXCEPT ![r] = dst]
  BY DEF reader_move
<1>6. next'[r] = r
  BY <1>1, <1>4, <1>5 DEF TypeOK
<1>7. SpareHeads'
  <2>1. CurSnap \in Nodes /\ Qs \in Nodes
    BY DEF Nodes
  <2>2. p1[CurSnap] = CurSnap /\ p1[Qs] = Qs
    BY <2>1, <1>1 DEF TypeOK, SpareHeads
  <2> QED
    BY <2>1, <2>2, <1>1, <1>5 DEF TypeOK, SpareHeads
<1> QED
  BY <1>6, <1>7

RingInv == (\A w \in Writers : pc[w] # "scan") => Ring(list \cup {Registry}, next, prev)

LEMMA RingIsRegistryRing == RegistryRing <=> RingInv
BY DEF RegistryRing, RingInv, Ring

LEMMA InitRegistry == UrcuInit => RegistryInv
<1> SUFFICES ASSUME UrcuInit PROVE RegistryInv
  OBVIOUS
<1>1. TypeOK
  BY InitType
<1>2. RegistryHeld /\ SpareHeads /\ ScanAtReader /\ InsideActive /\ ScanStays
  BY UrcuAssumption DEF UrcuInit, RegistryHeld, SpareHeads, ScanAtReader, InsideActive,
                        ScanStays, Nodes
<1>3. RegistryRing
  BY DEF UrcuInit, RegistryRing, Nodes
<1> QED
  BY <1>1, <1>2, <1>3 DEF RegistryInv

LEMMA ReaderRegistry ==
  ASSUME RegistryInv, NEW r \in Readers, Reader(r)
  PROVE  RegistryInv'
<1>1. TypeOK /\ TypeOK'
  BY ReaderType DEF RegistryInv
<1>2. UNCHANGED <<pc, it, registry_lock>>
  BY DEF Reader, rcu_register_thread, rcu_unregister_thread, rcu_read_lock,
         rcu_read_unlock, lockVars
<1>3. RegistryHeld' /\ ScanStays'
  BY <1>2 DEF RegistryInv, RegistryHeld, ScanStays
<1>4. InsideActive'
  <2>1. CASE rcu_register_thread(r)
    BY <2>1 DEF RegistryInv, InsideActive, rcu_register_thread
  <2>2. CASE rcu_unregister_thread(r)
    BY <2>2 DEF RegistryInv, InsideActive, rcu_unregister_thread
  <2>3. CASE rcu_read_lock(r)
    BY <2>3, <1>1 DEF RegistryInv, InsideActive, rcu_read_lock, TypeOK
  <2>4. CASE rcu_read_unlock(r)
    <3>1. \A x \in Readers : ctr'[x] = IF x = r THEN ctr[r] - 1 ELSE ctr[x]
      BY <2>4, <1>1 DEF rcu_read_unlock, TypeOK
    <3>2. \A w \in Writers :
            inside'[w] = IF ctr[r] = 1 THEN inside[w] \ {r} ELSE inside[w]
      BY <2>4 DEF rcu_read_unlock
    <3>3. ctr[r] \in Nat /\ ctr[r] > 0 /\ list' = list
      BY <2>4, <1>1 DEF rcu_read_unlock, TypeOK
    <3> QED
      BY <3>1, <3>2, <3>3, <1>1 DEF RegistryInv, InsideActive, TypeOK
  <2> QED
    BY <2>1, <2>2, <2>3, <2>4 DEF Reader
<1>5. CASE rcu_register_thread(r) \/ rcu_unregister_thread(r)
  <2>1. \A w \in Writers : pc[w] # "scan" /\ pc'[w] # "scan"
    BY <1>2, <1>5, UrcuAssumption
      DEF RegistryInv, RegistryHeld, rcu_register_thread, rcu_unregister_thread
  <2>2. Ring(list \cup {Registry}, next, prev)
    BY <2>1, RingIsRegistryRing DEF RegistryInv, RingInv
  <2>3. Ring(list' \cup {Registry}, next', prev')
    BY <2>2, <1>1, <1>5, RegisterRing, UnregisterRing
  <2>4. RegistryRing' /\ ScanAtReader'
    BY <2>1, <2>3 DEF RegistryRing, Ring, ScanAtReader
  <2>5. SpareHeads'
    <3>1. CASE rcu_register_thread(r)
      <4>1. next[Registry] \in list \cup {Registry}
        BY <2>2 DEF Ring
      <4> QED
        BY <3>1, <4>1, <1>1, UrcuAssumption
          DEF RegistryInv, SpareHeads, rcu_register_thread, TypeOK, Nodes
    <3>2. CASE rcu_unregister_thread(r)
      <4>1. next[r] \in list \cup {Registry}
        BY <3>2, <2>2 DEF Ring, rcu_unregister_thread
      <4> QED
        BY <3>2, <4>1, <1>1, UrcuAssumption
          DEF RegistryInv, SpareHeads, rcu_unregister_thread, TypeOK, Nodes
    <3> QED
      BY <3>1, <3>2, <1>5
  <2> QED
    BY <2>4, <2>5, <1>1, <1>3, <1>4 DEF RegistryInv
<1>6. CASE rcu_read_lock(r) \/ rcu_read_unlock(r)
  <2>1. UNCHANGED <<list, next, prev>>
    BY <1>6 DEF rcu_read_lock, rcu_read_unlock
  <2>2. RegistryRing' /\ ScanAtReader' /\ SpareHeads'
    BY <2>1, <1>2 DEF RegistryInv, RegistryRing, ScanAtReader, SpareHeads
  <2> QED
    BY <2>2, <1>1, <1>3, <1>4 DEF RegistryInv
<1> QED
  BY <1>5, <1>6 DEF Reader

LEMMA WriterRegistry ==
  ASSUME RegistryInv, NEW w \in Writers, synchronize_rcu(w) \/ Step(w)
  PROVE  RegistryInv'
<1>1. TypeOK /\ TypeOK'
  BY WriterType DEF RegistryInv
<1>2. CASE synchronize_rcu(w)
  <2>1. /\ UNCHANGED <<readerVars, registry_lock, it>>
        /\ \A u \in Writers : pc'[u] = IF u = w THEN "exchange" ELSE pc[u]
        /\ \A u \in Writers : inside'[u] = IF u = w THEN {r \in Readers : ctr[r] > 0}
                                           ELSE inside[u]
        /\ pc[w] = "idle"
    BY <1>1, <1>2 DEF synchronize_rcu, Goto, TypeOK, lockVars
  <2>2. RegistryHeld' /\ ScanStays' /\ ScanAtReader' /\ SpareHeads'
    BY <2>1 DEF RegistryInv, RegistryHeld, ScanStays, ScanAtReader, SpareHeads, readerVars
  <2>3. InsideActive'
    BY <2>1 DEF RegistryInv, InsideActive, readerVars
  <2>4. RegistryRing'
    BY <2>1 DEF RegistryInv, RegistryRing, readerVars
  <2> QED
    BY <2>2, <2>3, <2>4, <1>1 DEF RegistryInv
<1>3. CASE QueueStep(w)
  <2>1. /\ UNCHANGED <<readerVars, registry_lock>>
        /\ \A u \in Writers : pc[u] \in {"scan", "unlock", "scanned"} <=>
                              pc'[u] \in {"scan", "unlock", "scanned"}
        /\ \A u \in Writers : pc[u] \in {"scan", "unlock", "scanned"} =>
                              pc'[u] = pc[u] /\ it'[u] = it[u]
        /\ \A u \in Writers : inside'[u] = inside[u] \/ inside'[u] = {}
    BY <1>1, <1>3, QueueStepFrame
  <2>2. \A u \in Writers : pc'[u] = "scan" <=> pc[u] = "scan"
    BY <2>1
  <2>3. RegistryHeld' /\ ScanStays' /\ ScanAtReader' /\ SpareHeads'
    BY <2>1 DEF RegistryInv, RegistryHeld, ScanStays, ScanAtReader, SpareHeads, readerVars
  <2>4. InsideActive'
    BY <2>1 DEF RegistryInv, InsideActive, readerVars
  <2>5. RegistryRing'
    BY <2>1, <2>2 DEF RegistryInv, RegistryRing, readerVars
  <2> QED
    BY <2>3, <2>4, <2>5, <1>1 DEF RegistryInv
<1>4. CASE LockRegistry(w)
  <2>1. /\ UNCHANGED <<readerVars, inside>> /\ registry_lock' = w
        /\ pc[w] = "registry_lock" /\ registry_lock = Null
        /\ \A u \in Writers \ {w} : pc'[u] = pc[u] /\ it'[u] = it[u]
        /\ \/ pc'[w] = "unlock"
           \/ pc'[w] = "scan" /\ it'[w] = Registry /\ next[Registry] # Registry
    BY <1>1, <1>4 DEF LockRegistry, Goto, TypeOK
  <2>2. \A u \in Writers : pc[u] \notin {"scan", "unlock"}
    BY <2>1, UrcuAssumption DEF RegistryInv, RegistryHeld
  <2>3. Ring(list \cup {Registry}, next, prev)
    BY <2>2, RingIsRegistryRing DEF RegistryInv, RingInv
  <2>4. next[Registry] # Registry =>
          next[Registry] \in Readers /\ next[next[Registry]] \notin {CurSnap, Qs}
    BY <2>3, <1>1, UrcuAssumption DEF Ring, TypeOK
  <2>5. ScanAtReader' /\ RegistryHeld' /\ ScanStays' /\ SpareHeads'
    BY <2>1, <2>2, <2>4
      DEF RegistryInv, ScanAtReader, RegistryHeld, ScanStays, SpareHeads, readerVars
  <2>6. InsideActive'
    BY <2>1 DEF RegistryInv, InsideActive, readerVars
  <2>7. RegistryRing'
    BY <2>1, <2>3 DEF RegistryRing, Ring, readerVars
  <2> QED
    BY <2>5, <2>6, <2>7, <1>1 DEF RegistryInv
<1>5. CASE Scan(w)
  <2>1. /\ UNCHANGED <<ctr, list, registry_lock, inside>> /\ pc[w] = "scan"
        /\ it' = [it EXCEPT ![w] = next'[it[w]]]
        /\ pc' = [pc EXCEPT ![w] = IF it'[w] = Registry THEN "scanned" ELSE "scan"]
    BY <1>5 DEF Scan, Goto, lockVars
  <2>2. /\ SpareHeads' /\ it'[w] \in Readers /\ next'[it'[w]] \notin {CurSnap, Qs}
    <3>1. CASE it[w] \in Readers
      <4>1. next[it[w]] \notin {CurSnap, Qs}
        BY <3>1, <2>1, UrcuAssumption DEF RegistryInv, ScanAtReader
      <4>2. PICK dst \in {CurSnap, Qs} : reader_move(it[w], dst)
        BY <3>1, <1>5 DEF Scan
      <4>3. next'[it[w]] = it[w] /\ SpareHeads'
        BY <4>1, <4>2, <3>1, <1>1, MoveStays DEF RegistryInv
      <4> QED
        BY <4>3, <3>1, <2>1, <1>1, UrcuAssumption DEF TypeOK
    <3>2. CASE it[w] \notin Readers
      <4>1. UNCHANGED <<next, prev>>
        BY <3>2, <1>5 DEF Scan
      <4>2. /\ it[w] = Registry /\ next[Registry] \in Readers
            /\ next[next[Registry]] \notin {CurSnap, Qs}
        BY <3>2, <2>1 DEF RegistryInv, ScanAtReader
      <4> QED
        BY <4>1, <4>2, <2>1, <1>1 DEF RegistryInv, SpareHeads, TypeOK
    <3> QED
      BY <3>1, <3>2
  <2>3. pc' = pc /\ \A u \in Writers \ {w} : pc[u] # "scan"
    <3>1. it'[w] # Registry
      BY <2>2, UrcuAssumption
    <3>2. pc' = pc
      BY <3>1, <2>1, <1>1 DEF TypeOK
    <3> QED
      BY <3>2, <2>1 DEF RegistryInv, RegistryHeld
  <2>4. ScanAtReader' /\ RegistryHeld' /\ ScanStays' /\ InsideActive'
    BY <2>1, <2>2, <2>3
      DEF RegistryInv, ScanAtReader, RegistryHeld, ScanStays, InsideActive
  <2>5. RegistryRing'
    BY <2>1, <2>3 DEF RegistryRing
  <2> QED
    BY <2>2, <2>4, <2>5, <1>1 DEF RegistryInv
<1>6. CASE Unlock(w)
  <2>1. /\ UNCHANGED <<readerVars, inside>> /\ registry_lock' = Null
        /\ pc[w] = "unlock" /\ pc'[w] = "walk"
        /\ \A u \in Writers \ {w} : pc'[u] = pc[u] /\ it'[u] = it[u]
    BY <1>1, <1>6 DEF Unlock, Goto, TypeOK
  <2>2. \A u \in Writers \ {w} : pc[u] \notin {"scan", "unlock"}
    BY <2>1 DEF RegistryInv, RegistryHeld
  <2>3. ScanAtReader' /\ RegistryHeld' /\ ScanStays' /\ SpareHeads' /\ InsideActive'
    BY <2>1, <2>2 DEF RegistryInv, ScanAtReader, RegistryHeld, ScanStays, SpareHeads,
                      InsideActive, readerVars
  <2>4. RegistryRing'
    BY <2>1, <2>2 DEF RegistryInv, RegistryRing, readerVars
  <2> QED
    BY <2>3, <2>4, <1>1 DEF RegistryInv
<1> QED
  BY <1>2, <1>3, <1>4, <1>5, <1>6, StepCases

\* The invariant about registry and scan is inductive.
THEOREM RegistryInvariance == UrcuSpec => []RegistryInv
<1>1. UrcuInit => RegistryInv
  BY InitRegistry
<1>2. RegistryInv /\ [UrcuNext]_urcuVars => RegistryInv'
  <2> SUFFICES ASSUME RegistryInv, [UrcuNext]_urcuVars PROVE RegistryInv'
    OBVIOUS
  <2>1. CASE UrcuNext
    BY <2>1, ReaderRegistry, WriterRegistry DEF UrcuNext
  <2>2. CASE UNCHANGED urcuVars
    BY <2>2 DEF urcuVars, readerVars, queueVars, lockVars, RegistryInv, TypeOK, RegistryHeld,
                SpareHeads, ScanAtReader, InsideActive, RegistryRing, ScanStays
  <2> QED
    BY <2>1, <2>2
<1> QED
  BY <1>1, <1>2, PTL DEF UrcuSpec

\* Registering and unregistering in any order keep the registry one ring, linked
\* in both directions.
THEOREM RegistryIsRing == UrcuSpec => []RegistryRing
<1>1. RegistryInv => RegistryRing
  BY DEF RegistryInv
<1> QED
  BY <1>1, RegistryInvariance, PTL

\* The scan of a registry with readers does not end, whatever the readers do.
THEOREM ScanNeverEnds == UrcuSpec => []ScanStays
<1>1. RegistryInv => ScanStays
  BY DEF RegistryInv
<1> QED
  BY <1>1, RegistryInvariance, PTL

------------------------------------------------------------------------------
\* The steps that neither begin a call, take a queue over nor come past the registry.
LEMMA TakenFrame ==
  ASSUME TypeOK, TakenOver,
         \A u \in Writers : inside'[u] \subseteq inside[u] /\ batch'[u] \subseteq batch[u],
         syncs' = syncs,
         \A l \in Writers : pc'[l] \notin {"registry_lock", "scan"} =>
                            pc[l] \notin {"registry_lock", "scan"}
  PROVE  TakenOver'
BY DEF TakenOver

LEMMA ReaderTaken ==
  ASSUME TypeOK, TakenOver, NEW r \in Readers, Reader(r)
  PROVE  TakenOver'
<1>1. /\ UNCHANGED <<pc, syncs, batch>>
      /\ \A w \in Writers : inside'[w] \subseteq inside[w]
  BY DEF Reader, rcu_register_thread, rcu_unregister_thread, rcu_read_lock, rcu_read_unlock
<1> QED
  BY <1>1, TakenFrame

\* A call begins: the leader's earlier calls are past the registry.
LEMMA CallTaken ==
  ASSUME TypeOK, TakenOver, NEW w \in Writers, synchronize_rcu(w), batch[w] = {}
  PROVE  TakenOver'
<1>1. /\ pc[w] = "idle" /\ batch' = batch
      /\ \A l \in Writers : /\ syncs[l] \in Nat
                            /\ syncs'[l] = IF l = w THEN syncs[l] + 1 ELSE syncs[l]
      /\ \A l \in Writers \ {w} : pc'[l] = pc[l] /\ inside'[l] = inside[l]
  BY DEF synchronize_rcu, Goto, TypeOK
<1>2. ASSUME NEW u \in Writers, NEW l \in Writers, NEW k \in Nat, <<l, k>> \in batch'[u]
      PROVE  /\ k <= syncs'[l]
             /\ k < syncs'[l] \/ pc'[l] \notin {"registry_lock", "scan"} => inside'[u] = {}
  <2>1. u # w /\ <<l, k>> \in batch[u] /\ inside'[u] = inside[u]
    BY <1>1, <1>2
  <2>2. k <= syncs[l] /\ (k < syncs[l] \/ pc[l] \notin {"registry_lock", "scan"} => inside[u] = {})
    BY <2>1 DEF TakenOver
  <2> QED
    BY <2>1, <2>2, <1>1
<1> QED
  BY <1>2 DEF TakenOver

\* The queue is taken over: the leader is not yet past the registry.
LEMMA MoveTaken ==
  ASSUME TypeOK, TakenOver, NEW w \in Writers, wait_queue_move(w)
  PROVE  TakenOver'
<1>1. /\ pc[w] = "move" /\ pc'[w] = "registry_lock" /\ syncs' = syncs /\ inside' = inside
      /\ \A l \in Writers \ {w} : pc'[l] = pc[l]
      /\ syncs[w] \in Nat
      /\ \A u \in Writers : batch'[u] = batch[u] \/ batch'[u] = {<<w, syncs[w]>>}
  BY DEF wait_queue_move, Goto, TypeOK
<1>2. ASSUME NEW u \in Writers, NEW l \in Writers, NEW k \in Nat, <<l, k>> \in batch'[u]
      PROVE  /\ k <= syncs'[l]
             /\ k < syncs'[l] \/ pc'[l] \notin {"registry_lock", "scan"} => inside'[u] = {}
  <2>1. CASE <<l, k>> \in batch[u]
    BY <2>1, <1>1 DEF TakenOver
  <2>2. CASE <<l, k>> \notin batch[u]
    <3>1. l = w /\ k = syncs[w]
      BY <2>2, <1>1, <1>2
    <3> QED
      BY <3>1, <1>1
  <2> QED
    BY <2>1, <2>2
<1> QED
  BY <1>2 DEF TakenOver

\* The leader comes past the registry when it finds nobody registered: then nobody
\* is inside.
LEMMA LockTaken ==
  ASSUME RegistryInv, TakenOver, NEW w \in Writers, LockRegistry(w)
  PROVE  TakenOver'
<1>1. TypeOK
  BY DEF RegistryInv
<1>2. /\ syncs' = syncs /\ inside' = inside /\ batch' = batch
      /\ pc[w] = "registry_lock" /\ registry_lock = Null
      /\ \A l \in Writers \ {w} : pc'[l] = pc[l]
      /\ next[Registry] # Registry => pc'[w] = "scan"
  BY <1>1 DEF LockRegistry, Goto, TypeOK
<1>3. CASE next[Registry] # Registry
  BY <1>1, <1>2, <1>3, TakenFrame
<1>4. CASE next[Registry] = Registry
  <2>1. \A u \in Writers : pc[u] # "scan"
    BY <1>2, UrcuAssumption DEF RegistryInv, RegistryHeld
  <2>2. Ring(list \cup {Registry}, next, prev)
    BY <2>1, RingIsRegistryRing DEF RegistryInv, RingInv
  <2>3. list \cup {Registry} = {Registry}
    BY <2>2, <1>4 DEF Ring
  <2>4. list = {}
    BY <2>3, <1>1, UrcuAssumption DEF TypeOK
  <2>5. \A u \in Writers : inside[u] = {}
    BY <2>4, <1>1 DEF RegistryInv, InsideActive, TypeOK
  <2> QED
    BY <2>5, <1>2 DEF TakenOver
<1> QED
  BY <1>3, <1>4

\* The other steps of a writer.
LEMMA StepTaken ==
  ASSUME QueueInv, NEW w \in Writers, Step(w)
  PROVE  TakenOver'
<1>1. TypeOK /\ TakenOver /\ RegistryInv /\ RegistryInv'
  BY WriterRegistry DEF QueueInv, RegistryInv
<1>2. CASE wait_queue_move(w)
  BY <1>1, <1>2, MoveTaken
<1>3. CASE LockRegistry(w)
  BY <1>1, <1>3, LockTaken
<1>4. CASE Scan(w)
  <2>1. /\ UNCHANGED <<syncs, inside, batch>> /\ pc[w] = "scan"
        /\ pc' = [pc EXCEPT ![w] = IF it'[w] = Registry THEN "scanned" ELSE "scan"]
    BY <1>4 DEF Scan, Goto
  <2>2. pc'[w] # "scanned"
    BY <1>1 DEF RegistryInv, ScanStays
  <2>3. \A l \in Writers : pc'[l] = pc[l]
    BY <2>1, <2>2, <1>1 DEF TypeOK
  <2> QED
    BY <2>1, <2>3, <1>1, TakenFrame
<1>5. CASE ~wait_queue_move(w) /\ ~LockRegistry(w) /\ ~Scan(w)
  <2>1. /\ syncs' = syncs
        /\ \A u \in Writers : inside'[u] = inside[u] \/ inside'[u] = {}
        /\ \A u \in Writers : batch'[u] = batch[u] \/ batch'[u] = {}
        /\ \A l \in Writers : pc'[l] \notin {"registry_lock", "scan"} =>
                              pc[l] \notin {"registry_lock", "scan"}
    BY <1>1, <1>5 DEF QueueInv, BatchType, Step, TypeOK, Goto, Exchange, Link, SeeWakeup, Sleep, SeeTeardown,
         Lead, LockGp, Unlock, WalkOn, WakeUp, FutexWake, SetTeardown, NextWaiter, Return,
         Visiting
  <2>2. \A u \in Writers : inside'[u] \subseteq inside[u] /\ batch'[u] \subseteq batch[u]
    BY <2>1
  <2> QED
    BY <2>1, <2>2, <1>1, TakenFrame
<1> QED
  BY <1>2, <1>3, <1>4, <1>5

LEMMA BatchStays ==
  ASSUME TypeOK, BatchType, UrcuNext
  PROVE  BatchType'
<1>1. ASSUME NEW r \in Readers, Reader(r)
      PROVE  BatchType'
  BY <1>1 DEF BatchType, Reader, rcu_register_thread, rcu_unregister_thread, rcu_read_lock,
              rcu_read_unlock
<1>2. ASSUME NEW w \in Writers, wait_queue_move(w)
      PROVE  BatchType'
  <2>1. {<<w, syncs[w]>>} \in SUBSET (Writers \X Nat)
    BY DEF TypeOK
  <2> QED
    BY <2>1, <1>2 DEF BatchType, wait_queue_move
<1>3. ASSUME NEW w \in Writers, SeeTeardown(w) \/ Return(w)
      PROVE  BatchType'
  BY <1>3 DEF BatchType, SeeTeardown, Return
<1>4. ASSUME NEW w \in Writers, synchronize_rcu(w) \/ Step(w), ~wait_queue_move(w),
             ~SeeTeardown(w), ~Return(w)
      PROVE  BatchType'
  <2>1. batch' = batch
    BY <1>4 DEF Step, synchronize_rcu, Exchange, Link, SeeWakeup, Sleep,
         Lead, LockGp, LockRegistry, Scan, Unlock, WalkOn, WakeUp, FutexWake, SetTeardown,
         NextWaiter
  <2> QED
    BY <2>1 DEF BatchType
<1> QED
  BY <1>1, <1>2, <1>3, <1>4 DEF UrcuNext

LEMMA IdleStays ==
  ASSUME TypeOK, BatchType, IdleFree, UrcuNext
  PROVE  IdleFree'
<1>1. ASSUME NEW r \in Readers, Reader(r)
      PROVE  IdleFree'
  BY <1>1 DEF IdleFree, Reader, rcu_register_thread, rcu_unregister_thread, rcu_read_lock,
              rcu_read_unlock
<1>2. ASSUME NEW w \in Writers, wait_queue_move(w)
      PROVE  IdleFree'
  BY <1>2 DEF IdleFree, TypeOK, wait_queue_move, InQueue, Goto
<1>3. ASSUME NEW w \in Writers, SeeTeardown(w) \/ Return(w)
      PROVE  IdleFree'
  BY <1>3 DEF IdleFree, BatchType, TypeOK, SeeTeardown, Return, Goto
<1>4. ASSUME NEW w \in Writers, synchronize_rcu(w) \/ Step(w), ~wait_queue_move(w),
             ~SeeTeardown(w), ~Return(w)
      PROVE  IdleFree'
  <2>1. batch' = batch /\ \A u \in Writers : pc'[u] = "idle" => pc[u] = "idle"
    BY <1>4 DEF Step, TypeOK, Goto, synchronize_rcu, Exchange, Link, SeeWakeup, Sleep,
         Lead, LockGp, LockRegistry, Scan, Unlock, WalkOn, WakeUp, FutexWake, SetTeardown,
         NextWaiter, Visiting
  <2> QED
    BY <2>1 DEF IdleFree
<1> QED
  BY <1>1, <1>2, <1>3, <1>4 DEF UrcuNext

\* The invariant about the queues that leaders take over is inductive.
THEOREM QueueInvariance == UrcuSpec => []QueueInv
<1>1. UrcuInit => QueueInv
  BY InitRegistry DEF QueueInv, UrcuInit, TakenOver, IdleFree, BatchType
<1>2. QueueInv /\ [UrcuNext]_urcuVars => QueueInv'
  <2> SUFFICES ASSUME QueueInv, [UrcuNext]_urcuVars PROVE QueueInv'
    OBVIOUS
  <2>1. CASE UrcuNext
    <3>1. RegistryInv'
      BY <2>1, ReaderRegistry, WriterRegistry DEF UrcuNext, QueueInv
    <3>2. IdleFree' /\ BatchType'
      BY <2>1, IdleStays, BatchStays DEF QueueInv, RegistryInv
    <3>3. ASSUME NEW r \in Readers, Reader(r) PROVE TakenOver'
      BY <3>3, ReaderTaken DEF QueueInv, RegistryInv
    <3>4. ASSUME NEW w \in Writers, synchronize_rcu(w) PROVE TakenOver'
      <4>1. batch[w] = {}
        BY <3>4 DEF QueueInv, IdleFree, synchronize_rcu
      <4> QED
        BY <3>4, <4>1, CallTaken DEF QueueInv, RegistryInv
    <3>5. ASSUME NEW w \in Writers, Step(w) PROVE TakenOver'
      BY <3>5, StepTaken
    <3> QED
      BY <2>1, <3>1, <3>2, <3>3, <3>4, <3>5 DEF UrcuNext, QueueInv
  <2>2. CASE UNCHANGED urcuVars
    <3>1. RegistryInv'
      BY <2>2 DEF urcuVars, readerVars, queueVars, lockVars, QueueInv, RegistryInv, TypeOK,
                  RegistryHeld, SpareHeads, ScanAtReader, InsideActive, RegistryRing, ScanStays
    <3> QED
      BY <2>2, <3>1 DEF urcuVars, QueueInv, TakenOver, IdleFree, BatchType
  <2> QED
    BY <2>1, <2>2
<1> QED
  BY <1>1, <1>2, PTL DEF UrcuSpec

\* However often the writers call synchronize_rcu, and whenever they queue
\* themselves: a leader that has come past the registry leaves no writer of the
\* queue it took over with a reader that was inside when this writer called.
THEOREM QueueIsServed == UrcuSpec => []QueueServed
<1>1. QueueInv => QueueServed
  <2> SUFFICES ASSUME QueueInv, NEW l \in Writers, NEW w \in Writers,
                      <<l, syncs[l]>> \in batch[w], pc[l] \notin {"registry_lock", "scan"}
               PROVE  inside[w] = {}
    BY DEF QueueServed
  <2>1. syncs[l] \in Nat
    BY DEF QueueInv, RegistryInv, TypeOK
  <2> QED
    BY <2>1 DEF QueueInv, TakenOver
<1> QED
  BY <1>1, QueueInvariance, PTL
==============================================================================
