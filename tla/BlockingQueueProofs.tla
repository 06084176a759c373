------------------------- MODULE BlockingQueueProofs -------------------------
(* Proofs about BlockingQueue for any finite set of threads, any set of       *)
(* elements and any bound.  The inductive invariant is IndInv: exclusion on   *)
(* mutex_ keeps the type of mutex_, and the count ItemsCount is what makes    *)
(* take()'s unchecked front() safe.                                           *)
EXTENDS BlockingQueue, FiniteSetTheorems, TLAPS

\* The member function a thread is in and the place it has reached agree: only
\* bool take(T&) and T take() run take's body, and put holds an element.
OpMatchesPc ==
  \A t \in Threads :
    /\ pc[t] = "idle" <=> op[t] = "idle"
    /\ pc[t] \in PutPc <=> op[t] = "put"
    /\ pc[t] \in TryPc => op[t] = "try"
    /\ op[t] = "put" => val[t] \in Values
    /\ ret[t] => op[t] = "try"

IndInv == TypeOK /\ OpMatchesPc /\ MutualExclusion /\ ItemsCount

------------------------------------------------------------------------------
\* Moving one thread to another label changes the set of threads at the labels
\* L by at most that thread, and its size by at most one.
At(L) == {t \in Threads : pc[t] \in L}

LEMMA AtFinite ==
  ASSUME NEW L
  PROVE  IsFiniteSet(At(L)) /\ Cardinality(At(L)) \in Nat
<1>1. At(L) \subseteq Threads
  BY DEF At
<1> QED
  BY <1>1, BlockingQueueAssumption, FS_Subset, FS_CardinalityType

\* A move of t from pc[t] to l adds t to At(L) when l is in L, and takes it away
\* when pc[t] is.
LEMMA MoveCases ==
  ASSUME NEW L, NEW t \in Threads, NEW l, TypeOK, pc' = [pc EXCEPT ![t] = l]
  PROVE  /\ (l \in L <=> pc[t] \in L) => Cardinality(At(L)') = Cardinality(At(L))
         /\ l \in L /\ pc[t] \notin L => Cardinality(At(L)') = Cardinality(At(L)) + 1
         /\ l \notin L /\ pc[t] \in L => Cardinality(At(L)') = Cardinality(At(L)) - 1
<1>1. pc \in [Threads -> {"idle"} \cup PutPc \cup TakePc \cup TryPc]
  BY DEF TypeOK
<1>2. IsFiniteSet(At(L)) /\ Cardinality(At(L)) \in Nat
  BY AtFinite
<1>3. ASSUME l \in L <=> pc[t] \in L PROVE At(L)' = At(L)
  BY <1>1, <1>3 DEF At
<1>4. ASSUME l \in L, pc[t] \notin L PROVE Cardinality(At(L)') = Cardinality(At(L)) + 1
  <2>1. At(L)' = At(L) \cup {t} /\ t \notin At(L)
    BY <1>1, <1>4 DEF At
  <2> QED
    BY <1>2, <2>1, FS_AddElement
<1>5. ASSUME l \notin L, pc[t] \in L PROVE Cardinality(At(L)') = Cardinality(At(L)) - 1
  <2>1. At(L)' = At(L) \ {t} /\ t \in At(L)
    BY <1>1, <1>5 DEF At
  <2> QED
    BY <1>2, <2>1, FS_RemoveElement
<1> QED
  BY <1>3, <1>4, <1>5

\* A non-empty At(L) has a positive size.
LEMMA AtMember ==
  ASSUME NEW L, NEW t \in Threads, pc[t] \in L
  PROVE  Cardinality(At(L)) > 0
<1>1. t \in At(L)
  BY DEF At
<1> QED
  BY <1>1, AtFinite, FS_EmptySet

\* The two counted sets are sets of threads at given labels.
LEMMA CountedSets ==
  /\ Claimed = At({"take_lock", "take_pop"})
  /\ Unposted = At({"put_unlock", "put_post"})
  /\ Claimed' = At({"take_lock", "take_pop"})'
  /\ Unposted' = At({"put_unlock", "put_post"})'
  /\ Cardinality(Claimed) \in Nat
  /\ Cardinality(Unposted) \in Nat
<1>1. /\ Claimed = At({"take_lock", "take_pop"})
      /\ Unposted = At({"put_unlock", "put_post"})
      /\ Claimed' = At({"take_lock", "take_pop"})'
      /\ Unposted' = At({"put_unlock", "put_post"})'
  BY DEF Claimed, Unposted, At
<1> QED
  BY <1>1, AtFinite

------------------------------------------------------------------------------
\* The count makes front() safe: a thread at take_pop has claimed an element
\* that is still in the deque.
LEMMA ClaimSafe == IndInv => NoPopFromEmpty
<1> SUFFICES ASSUME IndInv, NEW t \in Threads, pc[t] = "take_pop"
             PROVE  queue_ # << >>
  BY DEF NoPopFromEmpty
<1>1. Cardinality(Claimed) > 0
  BY AtMember, CountedSets
<1>2. Len(queue_) = items_ + Cardinality(Claimed) + Cardinality(Unposted) /\ items_ \in Nat
  BY DEF IndInv, ItemsCount, TypeOK
<1>3. Len(queue_) # 0
  BY <1>1, <1>2, CountedSets
<1> QED
  BY <1>3

\* Initially nobody is inside a member function and nothing is queued.
LEMMA IndInvInit == Init => IndInv
<1> SUFFICES ASSUME Init PROVE IndInv
  OBVIOUS
<1>1. TypeOK /\ OpMatchesPc /\ MutualExclusion
  BY DEF Init, TypeOK, OpMatchesPc, MutualExclusion, Critical, InCritical, PutPc, TakePc, TryPc
<1>2. Claimed = {} /\ Unposted = {}
  BY DEF Init, Claimed, Unposted
<1>3. ItemsCount
  BY <1>2, FS_EmptySet DEF Init, ItemsCount
<1> QED
  BY <1>1, <1>3 DEF IndInv

------------------------------------------------------------------------------
\* The part of the invariant that says who is where, preserved by every step.
Places == TypeOK /\ OpMatchesPc /\ MutualExclusion

LEMMA PlacesNext == IndInv /\ [Next]_vars => Places'
<1> SUFFICES ASSUME IndInv, [Next]_vars PROVE Places'
  OBVIOUS
<1> USE DEF TypeOK, OpMatchesPc, MutualExclusion, Critical, InCritical,
            PutPc, TakePc, TryPc, Goto, Return, LockMutex, UnlockMutex,
            WaitItems, PostItems
<1>0. TypeOK /\ OpMatchesPc /\ MutualExclusion /\ NoPopFromEmpty
  BY ClaimSafe DEF IndInv
<1>1. ASSUME NEW t \in Threads, NEW v \in Values, PutCall(t, v) PROVE Places'
  BY <1>0, <1>1 DEF PutCall, Places
<1>2. ASSUME NEW t \in Threads, PutLock(t) PROVE Places'
  BY <1>0, <1>2 DEF PutLock, Places
<1>3. ASSUME NEW t \in Threads, PutEmplace(t) PROVE Places'
  BY <1>0, <1>3 DEF PutEmplace, Places
<1>4. ASSUME NEW t \in Threads, PutUnlock(t) PROVE Places'
  BY <1>0, <1>4 DEF PutUnlock, Places
<1>5. ASSUME NEW t \in Threads, PutPost(t) PROVE Places'
  BY <1>0, <1>5 DEF PutPost, Places
<1>6. ASSUME NEW t \in Threads, TakeCall(t) PROVE Places'
  BY <1>0, <1>6 DEF TakeCall, Places
<1>7. ASSUME NEW t \in Threads, TakeItems(t) PROVE Places'
  BY <1>0, <1>7 DEF TakeItems, Places
<1>8. ASSUME NEW t \in Threads, TakeLock(t) PROVE Places'
  BY <1>0, <1>8 DEF TakeLock, Places
<1>9. ASSUME NEW t \in Threads, TakePop(t) PROVE Places'
  BY <1>0, <1>9 DEF TakePop, NoPopFromEmpty, Fronts, PopFront, Places
<1>10. ASSUME NEW t \in Threads, TakeUnlock(t) PROVE Places'
  BY <1>0, <1>10 DEF TakeUnlock, Places
<1>11. ASSUME NEW t \in Threads, TryCall(t) PROVE Places'
  BY <1>0, <1>11 DEF TryCall, Places
<1>12. ASSUME NEW t \in Threads, TryLock(t) PROVE Places'
  BY <1>0, <1>12 DEF TryLock, Places
<1>13. ASSUME NEW t \in Threads, TryCheck(t) PROVE Places'
  BY <1>0, <1>13 DEF TryCheck, Places
<1>14. ASSUME NEW t \in Threads, TryUnlock(t) PROVE Places'
  <2>1. CASE ret[t]
    <3>1. pc' = [pc EXCEPT ![t] = "take_items"] /\ UNCHANGED <<op, ret, val>>
      BY <1>14, <2>1 DEF TryUnlock
    <3> QED
      BY <1>0, <1>14, <3>1 DEF TryUnlock, Places
  <2>2. CASE ~ret[t]
    <3>1. Return(t)
      BY <1>14, <2>2 DEF TryUnlock
    <3> QED
      BY <1>0, <1>14, <3>1 DEF TryUnlock, Places
  <2> QED
    BY <2>1, <2>2
<1>15. CASE UNCHANGED vars
  BY <1>0, <1>15 DEF vars, Places
<1> QED
  BY <1>1, <1>2, <1>3, <1>4, <1>5, <1>6, <1>7, <1>8, <1>9, <1>10, <1>11, <1>12,
     <1>13, <1>14, <1>15 DEF Next, Call, Step

------------------------------------------------------------------------------
\* Every element stays accounted for: emplace_back and sem_post(&items_) move an
\* element between the three kinds, as do sem_wait(&items_) and pop_front.
LEMMA CountNext == IndInv /\ [Next]_vars => ItemsCount'
<1> SUFFICES ASSUME IndInv, [Next]_vars PROVE ItemsCount'
  OBVIOUS
<1>0. TypeOK /\ OpMatchesPc /\ NoPopFromEmpty /\ ItemsCount
  BY ClaimSafe DEF IndInv
<1> DEFINE c == Cardinality(Claimed)
           u == Cardinality(Unposted)
<1>c. c \in Nat /\ u \in Nat /\ items_ \in Nat /\ queue_ \in Seq(Values)
      /\ Len(queue_) = items_ + c + u
  BY <1>0, CountedSets DEF TypeOK, ItemsCount
<1> DEFINE CL == {"take_lock", "take_pop"}
           UL == {"put_unlock", "put_post"}
<1>m. ASSUME NEW t \in Threads, NEW l, pc' = [pc EXCEPT ![t] = l]
      PROVE  /\ (l \in CL <=> pc[t] \in CL) => c' = c
             /\ l \in CL /\ pc[t] \notin CL => c' = c + 1
             /\ l \notin CL /\ pc[t] \in CL => c' = c - 1
             /\ (l \in UL <=> pc[t] \in UL) => u' = u
             /\ l \in UL /\ pc[t] \notin UL => u' = u + 1
             /\ l \notin UL /\ pc[t] \in UL => u' = u - 1
  <2>1. c = Cardinality(At(CL)) /\ c' = Cardinality(At(CL)')
    BY CountedSets
  <2>2. u = Cardinality(At(UL)) /\ u' = Cardinality(At(UL)')
    BY CountedSets
  <2> HIDE DEF c, u, CL, UL
  <2>3. /\ (l \in CL <=> pc[t] \in CL) => c' = c
        /\ l \in CL /\ pc[t] \notin CL => c' = c + 1
        /\ l \notin CL /\ pc[t] \in CL => c' = c - 1
    BY <1>0, <1>m, <2>1, MoveCases
  <2>4. /\ (l \in UL <=> pc[t] \in UL) => u' = u
        /\ l \in UL /\ pc[t] \notin UL => u' = u + 1
        /\ l \notin UL /\ pc[t] \in UL => u' = u - 1
    BY <1>0, <1>m, <2>2, MoveCases
  <2> QED
    BY <2>3, <2>4
<1>g. ItemsCount' <=> Len(queue_') = items_' + c' + u'
  BY DEF ItemsCount
<1> HIDE DEF c, u, CL, UL
<1>1. ASSUME NEW t \in Threads, NEW v \in Values, PutCall(t, v) PROVE ItemsCount'
  <2>0. pc[t] = "idle" /\ pc' = [pc EXCEPT ![t] = "put_lock"]
    BY <1>1 DEF PutCall, Goto
  <2>m. pc[t] \notin CL /\ pc[t] \notin UL /\ "put_lock" \notin CL /\ "put_lock" \notin UL
    BY <2>0 DEF CL, UL
  <2>1. c' = c /\ u' = u
    BY <1>m, <2>0, <2>m
  <2> QED
    BY <1>1, <1>c, <1>g, <2>1 DEF PutCall
<1>2. ASSUME NEW t \in Threads, PutLock(t) PROVE ItemsCount'
  <2>0. pc[t] = "put_lock" /\ pc' = [pc EXCEPT ![t] = "put_emplace"]
    BY <1>2 DEF PutLock, Goto
  <2>m. pc[t] \notin CL /\ pc[t] \notin UL /\ "put_emplace" \notin CL /\ "put_emplace" \notin UL
    BY <2>0 DEF CL, UL
  <2>1. c' = c /\ u' = u
    BY <1>m, <2>0, <2>m
  <2> QED
    BY <1>2, <1>c, <1>g, <2>1 DEF PutLock
<1>3. ASSUME NEW t \in Threads, PutEmplace(t) PROVE ItemsCount'
  <2>0. pc[t] = "put_emplace" /\ pc' = [pc EXCEPT ![t] = "put_unlock"]
    BY <1>3 DEF PutEmplace, Goto
  <2>m. pc[t] \notin CL /\ pc[t] \notin UL /\ "put_unlock" \notin CL /\ "put_unlock" \in UL
    BY <2>0 DEF CL, UL
  <2>1. c' = c /\ u' = u + 1
    BY <1>m, <2>0, <2>m
  <2>2. Len(queue_') = Len(queue_) + 1
    BY <1>3, <1>c, <1>0 DEF PutEmplace, TypeOK, OpMatchesPc, PutPc
  <2> QED
    BY <1>3, <1>c, <1>g, <2>1, <2>2 DEF PutEmplace
<1>4. ASSUME NEW t \in Threads, PutUnlock(t) PROVE ItemsCount'
  <2>0. pc[t] = "put_unlock" /\ pc' = [pc EXCEPT ![t] = "put_post"]
    BY <1>4 DEF PutUnlock, Goto
  <2>m. pc[t] \notin CL /\ pc[t] \in UL /\ "put_post" \notin CL /\ "put_post" \in UL
    BY <2>0 DEF CL, UL
  <2>1. c' = c /\ u' = u
    BY <1>m, <2>0, <2>m
  <2> QED
    BY <1>4, <1>c, <1>g, <2>1 DEF PutUnlock
<1>5. ASSUME NEW t \in Threads, PutPost(t) PROVE ItemsCount'
  <2>0. pc[t] = "put_post" /\ pc' = [pc EXCEPT ![t] = "idle"]
    BY <1>5 DEF PutPost, Return
  <2>m. pc[t] \notin CL /\ pc[t] \in UL /\ "idle" \notin CL /\ "idle" \notin UL
    BY <2>0 DEF CL, UL
  <2>1. c' = c /\ u' = u - 1
    BY <1>m, <2>0, <2>m
  <2> QED
    BY <1>5, <1>c, <1>g, <2>1 DEF PutPost, PostItems
<1>6. ASSUME NEW t \in Threads, TakeCall(t) PROVE ItemsCount'
  <2>0. pc[t] = "idle" /\ pc' = [pc EXCEPT ![t] = "take_items"]
    BY <1>6 DEF TakeCall, Goto
  <2>m. pc[t] \notin CL /\ pc[t] \notin UL /\ "take_items" \notin CL /\ "take_items" \notin UL
    BY <2>0 DEF CL, UL
  <2>1. c' = c /\ u' = u
    BY <1>m, <2>0, <2>m
  <2> QED
    BY <1>6, <1>c, <1>g, <2>1 DEF TakeCall
<1>7. ASSUME NEW t \in Threads, TakeItems(t) PROVE ItemsCount'
  <2>0. pc[t] = "take_items" /\ pc' = [pc EXCEPT ![t] = "take_lock"]
    BY <1>7 DEF TakeItems, Goto
  <2>m. pc[t] \notin CL /\ pc[t] \notin UL /\ "take_lock" \in CL /\ "take_lock" \notin UL
    BY <2>0 DEF CL, UL
  <2>1. c' = c + 1 /\ u' = u
    BY <1>m, <2>0, <2>m
  <2> QED
    BY <1>7, <1>c, <1>g, <2>1 DEF TakeItems, WaitItems
<1>8. ASSUME NEW t \in Threads, TakeLock(t) PROVE ItemsCount'
  <2>0. pc[t] = "take_lock" /\ pc' = [pc EXCEPT ![t] = "take_pop"]
    BY <1>8 DEF TakeLock, Goto
  <2>m. pc[t] \in CL /\ pc[t] \notin UL /\ "take_pop" \in CL /\ "take_pop" \notin UL
    BY <2>0 DEF CL, UL
  <2>1. c' = c /\ u' = u
    BY <1>m, <2>0, <2>m
  <2> QED
    BY <1>8, <1>c, <1>g, <2>1 DEF TakeLock
<1>9. ASSUME NEW t \in Threads, TakePop(t) PROVE ItemsCount'
  <2>0. pc[t] = "take_pop" /\ pc' = [pc EXCEPT ![t] = "take_unlock"]
    BY <1>9 DEF TakePop, Goto
  <2>m. pc[t] \in CL /\ pc[t] \notin UL /\ "take_unlock" \notin CL /\ "take_unlock" \notin UL
    BY <2>0 DEF CL, UL
  <2>1. c' = c - 1 /\ u' = u
    BY <1>m, <2>0, <2>m
  <2>2. Len(queue_') = Len(queue_) - 1
    BY <1>9, <1>c, <1>0 DEF TakePop, PopFront, NoPopFromEmpty
  <2> QED
    BY <1>9, <1>c, <1>g, <2>1, <2>2 DEF TakePop
<1>10. ASSUME NEW t \in Threads, TakeUnlock(t) PROVE ItemsCount'
  <2>0. pc[t] = "take_unlock" /\ pc' = [pc EXCEPT ![t] = "idle"]
    BY <1>10 DEF TakeUnlock, Return
  <2>m. pc[t] \notin CL /\ pc[t] \notin UL /\ "idle" \notin CL /\ "idle" \notin UL
    BY <2>0 DEF CL, UL
  <2>1. c' = c /\ u' = u
    BY <1>m, <2>0, <2>m
  <2> QED
    BY <1>10, <1>c, <1>g, <2>1 DEF TakeUnlock
<1>11. ASSUME NEW t \in Threads, TryCall(t) PROVE ItemsCount'
  <2>0. pc[t] = "idle" /\ pc' = [pc EXCEPT ![t] = "try_lock"]
    BY <1>11 DEF TryCall, Goto
  <2>m. pc[t] \notin CL /\ pc[t] \notin UL /\ "try_lock" \notin CL /\ "try_lock" \notin UL
    BY <2>0 DEF CL, UL
  <2>1. c' = c /\ u' = u
    BY <1>m, <2>0, <2>m
  <2> QED
    BY <1>11, <1>c, <1>g, <2>1 DEF TryCall
<1>12. ASSUME NEW t \in Threads, TryLock(t) PROVE ItemsCount'
  <2>0. pc[t] = "try_lock" /\ pc' = [pc EXCEPT ![t] = "try_check"]
    BY <1>12 DEF TryLock, Goto
  <2>m. pc[t] \notin CL /\ pc[t] \notin UL /\ "try_check" \notin CL /\ "try_check" \notin UL
    BY <2>0 DEF CL, UL
  <2>1. c' = c /\ u' = u
    BY <1>m, <2>0, <2>m
  <2> QED
    BY <1>12, <1>c, <1>g, <2>1 DEF TryLock
<1>13. ASSUME NEW t \in Threads, TryCheck(t) PROVE ItemsCount'
  <2>0. pc[t] = "try_check" /\ pc' = [pc EXCEPT ![t] = "try_unlock"]
    BY <1>13 DEF TryCheck, Goto
  <2>m. pc[t] \notin CL /\ pc[t] \notin UL /\ "try_unlock" \notin CL /\ "try_unlock" \notin UL
    BY <2>0 DEF CL, UL
  <2>1. c' = c /\ u' = u
    BY <1>m, <2>0, <2>m
  <2> QED
    BY <1>13, <1>c, <1>g, <2>1 DEF TryCheck
<1>14. ASSUME NEW t \in Threads, TryUnlock(t) PROVE ItemsCount'
  <2>0. pc[t] = "try_unlock"
    BY <1>14 DEF TryUnlock
  <2>m. /\ pc[t] \notin CL /\ pc[t] \notin UL
        /\ "take_items" \notin CL /\ "take_items" \notin UL
        /\ "idle" \notin CL /\ "idle" \notin UL
    BY <2>0 DEF CL, UL
  <2>1. c' = c /\ u' = u
    <3>1. CASE pc' = [pc EXCEPT ![t] = "take_items"]
      BY <1>m, <2>m, <3>1
    <3>2. CASE pc' = [pc EXCEPT ![t] = "idle"]
      BY <1>m, <2>m, <3>2
    <3> QED
      BY <1>14, <3>1, <3>2 DEF TryUnlock, Goto, Return
  <2> QED
    BY <1>14, <1>c, <1>g, <2>1 DEF TryUnlock
<1>15. CASE UNCHANGED vars
  <2>1. Claimed' = Claimed /\ Unposted' = Unposted
    BY <1>15 DEF vars, Claimed, Unposted
  <2> QED
    BY <1>0, <1>15, <2>1 DEF vars, ItemsCount
<1> QED
  BY <1>1, <1>2, <1>3, <1>4, <1>5, <1>6, <1>7, <1>8, <1>9, <1>10, <1>11, <1>12,
     <1>13, <1>14, <1>15 DEF Next, Call, Step

\* The inductive invariant holds in every reachable state.
THEOREM Invariance == Spec => []IndInv
<1>1. IndInv /\ [Next]_vars => IndInv'
  BY PlacesNext, CountNext DEF Places, IndInv
<1> QED
  BY IndInvInit, <1>1, PTL DEF Spec

\* Type correctness of the queue, whatever the number of threads.
THEOREM TypeCorrect == Spec => []TypeOK
<1>1. IndInv => TypeOK
  BY DEF IndInv
<1> QED
  BY Invariance, <1>1, PTL

\* The deque is accessed by one thread at a time.
THEOREM Exclusion == Spec => []MutualExclusion
<1>1. IndInv => MutualExclusion
  BY DEF IndInv
<1> QED
  BY Invariance, <1>1, PTL

\* No element is lost or announced twice between the deque and items_.
THEOREM Accounted == Spec => []ItemsCount
<1>1. IndInv => ItemsCount
  BY DEF IndInv
<1> QED
  BY Invariance, <1>1, PTL

\* take() never calls front() on an empty deque.
THEOREM PopSafe == Spec => []NoPopFromEmpty
BY Invariance, ClaimSafe, PTL

------------------------------------------------------------------------------
\* Done changes only for the thread that moves.
LEMMA DoneMove ==
  ASSUME TypeOK, NEW t \in Threads, NEW l, pc' = [pc EXCEPT ![t] = l],
         NEW r, ret' = [ret EXCEPT ![t] = r]
  PROVE  [x \in Threads |-> Done(x)]'
           = [[x \in Threads |-> Done(x)] EXCEPT ![t] = Done(t)']
BY DEF Done, TypeOK

\* Every step of the queue is a step of the abstract FIFO queue or a stutter.
LEMMA FifoStep == IndInv /\ [Next]_vars => [Fifo!Next]_(Fifo!vars)
<1> SUFFICES ASSUME IndInv, [Next]_vars PROVE [Fifo!Next]_(Fifo!vars)
  OBVIOUS
<1>0. TypeOK /\ OpMatchesPc /\ NoPopFromEmpty
  BY ClaimSafe DEF IndInv
<1> DEFINE d == [x \in Threads |-> Done(x)]
<1>s. ASSUME UNCHANGED <<queue_, op, val>>, d' = d PROVE [Fifo!Next]_(Fifo!vars)
  BY <1>s DEF Fifo!vars
<1>r. ASSUME NEW t \in Threads, NEW l, pc' = [pc EXCEPT ![t] = l], UNCHANGED ret
      PROVE  d' = [d EXCEPT ![t] = Done(t)']
  <2>1. ret' = [ret EXCEPT ![t] = ret[t]]
    BY <1>0, <1>r DEF TypeOK
  <2> QED
    BY <1>0, <1>r, <2>1, DoneMove
<1>q. ASSUME NEW t \in Threads, Return(t)
      PROVE  d' = [d EXCEPT ![t] = FALSE]
  <2>1. Done(t)' = FALSE
    BY <1>0, <1>q DEF Return, Done, TypeOK
  <2>2. d' = [d EXCEPT ![t] = Done(t)']
    BY <1>0, <1>q, DoneMove DEF Return
  <2> QED
    BY <2>1, <2>2
<1>1. ASSUME NEW t \in Threads, NEW v \in Values, PutCall(t, v) PROVE [Fifo!Next]_(Fifo!vars)
  <2>1. d' = [d EXCEPT ![t] = Done(t)']
    BY <1>1, <1>r DEF PutCall, Goto
  <2>2. Done(t)' = Done(t)
    BY <1>0, <1>1 DEF PutCall, Goto, Done, TypeOK
  <2>3. d' = d
    BY <2>1, <2>2
  <2>4. Fifo!CallPut(t, v)
    BY <1>0, <1>1, <2>3 DEF PutCall, OpMatchesPc, Fifo!CallPut
  <2> QED
    BY <2>4 DEF Fifo!Next
<1>2. ASSUME NEW t \in Threads, PutLock(t) PROVE [Fifo!Next]_(Fifo!vars)
  <2>1. d' = [d EXCEPT ![t] = Done(t)']
    BY <1>2, <1>r DEF PutLock, Goto
  <2>2. Done(t)' = Done(t)
    BY <1>0, <1>2 DEF PutLock, Goto, Done, TypeOK
  <2>3. d' = d
    BY <2>1, <2>2
  <2> QED
    BY <1>s, <1>2, <2>3 DEF PutLock
<1>3. ASSUME NEW t \in Threads, PutEmplace(t) PROVE [Fifo!Next]_(Fifo!vars)
  <2>1. d' = [d EXCEPT ![t] = Done(t)']
    BY <1>3, <1>r DEF PutEmplace, Goto
  <2>2. Done(t)' /\ ~Done(t)
    BY <1>0, <1>3 DEF PutEmplace, Goto, Done, TypeOK
  <2>3. d' = [d EXCEPT ![t] = TRUE] /\ ~d[t]
    BY <2>1, <2>2
  <2>4. op[t] \in {"put"}
    BY <1>0, <1>3 DEF PutEmplace, OpMatchesPc, PutPc, TypeOK
  <2>5. Fifo!Enqueue(t)
    BY <1>0, <1>3, <2>3, <2>4 DEF PutEmplace, Fifo!Enqueue
  <2> QED
    BY <2>5 DEF Fifo!Next
<1>4. ASSUME NEW t \in Threads, PutUnlock(t) PROVE [Fifo!Next]_(Fifo!vars)
  <2>1. d' = [d EXCEPT ![t] = Done(t)']
    BY <1>4, <1>r DEF PutUnlock, Goto
  <2>2. Done(t)' = Done(t)
    BY <1>0, <1>4 DEF PutUnlock, Goto, Done, TypeOK
  <2>3. d' = d
    BY <2>1, <2>2
  <2> QED
    BY <1>s, <1>4, <2>3 DEF PutUnlock
<1>5. ASSUME NEW t \in Threads, PutPost(t) PROVE [Fifo!Next]_(Fifo!vars)
  <2>1. d' = [d EXCEPT ![t] = FALSE]
    BY <1>5, <1>q DEF PutPost
  <2>2. d[t]
    BY <1>5 DEF PutPost, Done
  <2>3. Fifo!Return(t)
    BY <1>5, <2>1, <2>2 DEF PutPost, Return, Fifo!Return
  <2> QED
    BY <2>3 DEF Fifo!Next
<1>6. ASSUME NEW t \in Threads, TakeCall(t) PROVE [Fifo!Next]_(Fifo!vars)
  <2>1. d' = [d EXCEPT ![t] = Done(t)']
    BY <1>6, <1>r DEF TakeCall, Goto
  <2>2. Done(t)' = Done(t)
    BY <1>0, <1>6 DEF TakeCall, Goto, Done, TypeOK
  <2>3. d' = d
    BY <2>1, <2>2
  <2>4. Fifo!CallTake(t, "take")
    BY <1>0, <1>6, <2>3 DEF TakeCall, OpMatchesPc, Fifo!CallTake
  <2> QED
    BY <2>4 DEF Fifo!Next
<1>7. ASSUME NEW t \in Threads, TakeItems(t) PROVE [Fifo!Next]_(Fifo!vars)
  <2>1. d' = [d EXCEPT ![t] = Done(t)']
    BY <1>7, <1>r DEF TakeItems, Goto
  <2>2. Done(t)' = Done(t)
    BY <1>0, <1>7 DEF TakeItems, Goto, Done, TypeOK
  <2>3. d' = d
    BY <2>1, <2>2
  <2> QED
    BY <1>s, <1>7, <2>3 DEF TakeItems
<1>8. ASSUME NEW t \in Threads, TakeLock(t) PROVE [Fifo!Next]_(Fifo!vars)
  <2>1. d' = [d EXCEPT ![t] = Done(t)']
    BY <1>8, <1>r DEF TakeLock, Goto
  <2>2. Done(t)' = Done(t)
    BY <1>0, <1>8 DEF TakeLock, Goto, Done, TypeOK
  <2>3. d' = d
    BY <2>1, <2>2
  <2> QED
    BY <1>s, <1>8, <2>3 DEF TakeLock
<1>9. ASSUME NEW t \in Threads, TakePop(t) PROVE [Fifo!Next]_(Fifo!vars)
  <2>1. d' = [d EXCEPT ![t] = Done(t)']
    BY <1>9, <1>r DEF TakePop, Goto
  <2>2. Done(t)' /\ ~Done(t)
    BY <1>0, <1>9 DEF TakePop, Goto, Done, TypeOK
  <2>3. d' = [d EXCEPT ![t] = TRUE] /\ ~d[t]
    BY <2>1, <2>2
  <2>4. op[t] \in {"take", "try"}
    BY <1>0, <1>9 DEF TakePop, OpMatchesPc, PutPc, TypeOK
  <2>5. Fifo!Dequeue(t)
    BY <1>0, <1>9, <2>3, <2>4 DEF TakePop, NoPopFromEmpty, Fronts, PopFront, TakePc, TryPc, Fifo!Dequeue
  <2> QED
    BY <2>5 DEF Fifo!Next
<1>10. ASSUME NEW t \in Threads, TakeUnlock(t) PROVE [Fifo!Next]_(Fifo!vars)
  <2>1. d' = [d EXCEPT ![t] = FALSE]
    BY <1>10, <1>q DEF TakeUnlock
  <2>2. d[t]
    BY <1>10 DEF TakeUnlock, Done
  <2>3. Fifo!Return(t)
    BY <1>10, <2>1, <2>2 DEF TakeUnlock, Return, Fifo!Return
  <2> QED
    BY <2>3 DEF Fifo!Next
<1>11. ASSUME NEW t \in Threads, TryCall(t) PROVE [Fifo!Next]_(Fifo!vars)
  <2>1. d' = [d EXCEPT ![t] = Done(t)']
    BY <1>11, <1>r DEF TryCall, Goto
  <2>2. Done(t)' = Done(t)
    BY <1>0, <1>11 DEF TryCall, Goto, Done, TypeOK
  <2>3. d' = d
    BY <2>1, <2>2
  <2>4. Fifo!CallTake(t, "try")
    BY <1>0, <1>11, <2>3 DEF TryCall, OpMatchesPc, Fifo!CallTake
  <2> QED
    BY <2>4 DEF Fifo!Next
<1>12. ASSUME NEW t \in Threads, TryLock(t) PROVE [Fifo!Next]_(Fifo!vars)
  <2>1. d' = [d EXCEPT ![t] = Done(t)']
    BY <1>12, <1>r DEF TryLock, Goto
  <2>2. Done(t)' = Done(t)
    BY <1>0, <1>12 DEF TryLock, Goto, Done, TypeOK
  <2>3. d' = d
    BY <2>1, <2>2
  <2> QED
    BY <1>s, <1>12, <2>3 DEF TryLock
<1>13. ASSUME NEW t \in Threads, TryCheck(t) PROVE [Fifo!Next]_(Fifo!vars)
  <2>1. d' = [d EXCEPT ![t] = Done(t)']
    BY <1>0, <1>13, DoneMove DEF TryCheck, Goto
  <2>2. ~Done(t)
    BY <1>13 DEF TryCheck, Done
  <2>r. ret'[t] = (Len(queue_) > 0) /\ pc'[t] = "try_unlock"
    BY <1>0, <1>13 DEF TryCheck, Goto, TypeOK
  <2>3. CASE queue_ = << >>
    <3>z. ~(Len(queue_) > 0)
      BY <2>3
    <3>0. ~ret'[t]
      BY <2>r, <3>z, Zenon
    <3>a. Done(t)'
      BY <2>r, <3>0, Zenon DEF Done
    <3>1. d' = [d EXCEPT ![t] = TRUE] /\ ~d[t]
      BY <2>1, <2>2, <3>a
    <3>2. Fifo!Miss(t)
      BY <1>0, <1>13, <2>3, <3>1 DEF TryCheck, OpMatchesPc, TryPc, Fifo!Miss
    <3> QED
      BY <3>2 DEF Fifo!Next
  <2>4. CASE queue_ # << >>
    <3>a. Len(queue_) > 0
      BY <1>0, <2>4 DEF TypeOK
    <3>b. Done(t)' = Done(t)
      BY <2>r, <2>2, <3>a DEF Done
    <3>1. d' = d
      BY <2>1, <3>b
    <3> QED
      BY <1>s, <1>13, <3>1 DEF TryCheck
  <2> QED
    BY <2>3, <2>4
<1>14. ASSUME NEW t \in Threads, TryUnlock(t) PROVE [Fifo!Next]_(Fifo!vars)
  <2>1. CASE ret[t]
    <3>1. Goto(t, "take_items") /\ UNCHANGED <<op, ret, val>>
      BY <1>14, <2>1 DEF TryUnlock
    <3>2. d' = [d EXCEPT ![t] = Done(t)']
      BY <3>1, <1>r DEF Goto
    <3>3. Done(t)' = Done(t)
      BY <1>0, <1>14, <2>1, <3>1 DEF TryUnlock, Goto, Done, TypeOK
    <3>4. d' = d
      BY <3>2, <3>3
    <3> QED
      BY <1>s, <1>14, <3>1, <3>4 DEF TryUnlock
  <2>2. CASE ~ret[t]
    <3>1. Return(t)
      BY <1>14, <2>2 DEF TryUnlock
    <3>2. d' = [d EXCEPT ![t] = FALSE] /\ d[t]
      BY <1>14, <1>q, <2>2, <3>1 DEF TryUnlock, Done
    <3>3. Fifo!Return(t)
      BY <1>14, <3>1, <3>2 DEF TryUnlock, Return, Fifo!Return
    <3> QED
      BY <3>3 DEF Fifo!Next
  <2> QED
    BY <2>1, <2>2
<1>15. CASE UNCHANGED vars
  <2>1. d' = d
    BY <1>15 DEF vars, Done
  <2> QED
    BY <1>s, <1>15, <2>1 DEF vars
<1> QED
  BY <1>1, <1>2, <1>3, <1>4, <1>5, <1>6, <1>7, <1>8, <1>9, <1>10, <1>11, <1>12,
     <1>13, <1>14, <1>15 DEF Next, Call, Step

\* The blocking queue implements the atomic FIFO queue: its operations are
\* linearizable for any number of threads.
THEOREM QueueLinearizable == Spec => Linearizable
<1>1. Init => Fifo!Init
  BY DEF Init, Fifo!Init, Done
<1>2. Spec => [][Fifo!Next]_(Fifo!vars)
  BY Invariance, FifoStep, PTL DEF Spec
<1> QED
  BY <1>1, <1>2, PTL DEF Spec, Linearizable, Fifo!Spec
==============================================================================
