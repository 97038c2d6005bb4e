-------------------------- MODULE ZemaphoreProofs --------------------------
(***************************************************************************)
(* Proofs about the zemaphores under any use of them, for any threads, any *)
(* zemaphores and any first value.  The invariant is that of the counter:  *)
(* where it is negative, it is the number of the waiters.  With it, a      *)
(* zemaphore is shown to take only the steps of Semaphore.                 *)
(***************************************************************************)
EXTENDS ZemaphoreClients, FiniteSetTheorems, TLAPS

TypeOK ==
  /\ at \in [Threads -> Places]
  /\ on \in [Threads -> Sems]
  /\ counter \in [Sems -> Int]
  /\ mutex \in [Sems -> Threads \cup {NoThread}]

\* Where a thread holds the mutex of its zemaphore.
Holding == {"downBody", "downUnlock", "upBody", "upUnlock"}

MutexHeld == \A t \in Threads : at[t] \in Holding => mutex[on[t]] = t

WaitersFinite == \A s \in Sems : IsFiniteSet(Blocked(s))

IInv == TypeOK /\ MutexHeld /\ WaitersFinite /\ WaitersCounted

\* No two threads are between the lock and the unlock of one zemaphore: what
\* they do to its counter there is one step.
Exclusive ==
  \A t, u \in Threads :
    at[t] \in Holding /\ at[u] \in Holding /\ on[t] = on[u] => t = u

\* zem_init has set the counter to a value that is not negative.
LEMMA InitInv == Init => IInv
<1> SUFFICES ASSUME Init PROVE IInv
  OBVIOUS
<1>1. TypeOK /\ MutexHeld
  <2>1. (CHOOSE s \in Sems : TRUE) \in Sems
    BY ZemaphoreAssumption
  <2>2. on \in [Threads -> Sems] /\ \A t \in Threads : at[t] = "out"
    BY <2>1 DEF Init, ZemInit
  <2> QED
    BY <2>2, ClientsAssumption DEF Init, ZemInit, TypeOK, MutexHeld, Holding, Places
<1>2. ASSUME NEW s \in Sems
      PROVE  Blocked(s) = {} /\ ~(counter[s] < 0)
  BY ClientsAssumption DEF Init, ZemInit, Blocked
<1>3. WaitersFinite /\ WaitersCounted
  BY <1>2, FS_EmptySet DEF WaitersFinite, WaitersCounted
<1> QED
  BY <1>1, <1>3 DEF IInv

\* A step that blocks nobody and wakes nobody leaves the counters alone.
LEMMA SameWaiters ==
  ASSUME IInv, \A s \in Sems : Blocked(s)' = Blocked(s), counter' = counter
  PROVE  (WaitersFinite /\ WaitersCounted)'
BY DEF IInv, WaitersFinite, WaitersCounted

\* A call starts.
LEMMA CallInv ==
  ASSUME IInv, NEW t \in Threads, NEW s \in Sems, CallDown(t, s) \/ CallUp(t, s)
  PROVE  IInv'
<1>1. (TypeOK /\ MutexHeld)'
  BY DEF IInv, CallDown, CallUp, Move, TypeOK, Places, MutexHeld, Holding
<1>2. \A r \in Sems : Blocked(r)' = Blocked(r)
  BY DEF IInv, TypeOK, CallDown, CallUp, Move, Blocked
<1> QED
  BY <1>1, <1>2, SameWaiters DEF IInv, CallDown, CallUp

\* The mutex is taken.
LEMMA AcquireInv ==
  ASSUME IInv, NEW t \in Threads, DownLock(t) \/ DownWoken(t) \/ UpLock(t)
  PROVE  IInv'
<1>1. (TypeOK /\ MutexHeld)'
  BY ZemaphoreAssumption
  DEF IInv, DownLock, DownWoken, UpLock, Acquire, Move, TypeOK, Places, MutexHeld, Holding
<1>2. \A r \in Sems : Blocked(r)' = Blocked(r)
  BY DEF IInv, TypeOK, DownLock, DownWoken, UpLock, Acquire, Move, Blocked
<1> QED
  BY <1>1, <1>2, SameWaiters DEF IInv, DownLock, DownWoken, UpLock, Acquire

\* The mutex is given back.
LEMMA UnlockInv ==
  ASSUME IInv, NEW t \in Threads, Unlock(t)
  PROVE  IInv'
<1>1. (TypeOK /\ MutexHeld)'
  BY DEF IInv, Unlock, Release, Move, TypeOK, Places, MutexHeld, Holding
<1>2. \A r \in Sems : Blocked(r)' = Blocked(r)
  BY DEF IInv, TypeOK, Unlock, Release, Move, Blocked
<1> QED
  BY <1>1, <1>2, SameWaiters DEF IInv, Unlock

\* zem_down adds a waiter exactly when the counter becomes negative.
LEMMA DownBodyInv ==
  ASSUME IInv, NEW t \in Threads, DownBody(t)
  PROVE  IInv'
<1>1. (TypeOK /\ MutexHeld)'
  BY DEF IInv, DownBody, Release, Move, TypeOK, Places, MutexHeld, Holding
<1>2. ASSUME NEW r \in Sems
      PROVE  /\ IsFiniteSet(Blocked(r)')
             /\ Cardinality(Blocked(r)') = IF counter'[r] < 0 THEN -counter'[r] ELSE 0
  <2>1. /\ IsFiniteSet(Blocked(r)) /\ t \notin Blocked(r) /\ counter[r] \in Int
        /\ Cardinality(Blocked(r)) = IF counter[r] < 0 THEN -counter[r] ELSE 0
    BY DEF IInv, TypeOK, WaitersFinite, WaitersCounted, DownBody, Blocked
  <2>2. CASE r # on[t]
    <3>1. Blocked(r)' = Blocked(r) /\ counter'[r] = counter[r]
      BY <2>2 DEF IInv, TypeOK, DownBody, Move, Blocked
    <3> QED
      BY <2>1, <3>1
  <2>3. CASE r = on[t] /\ counter[r] - 1 < 0
    <3>1. Blocked(r)' = Blocked(r) \cup {t} /\ counter'[r] = counter[r] - 1
      BY <2>3 DEF IInv, TypeOK, DownBody, Move, Blocked
    <3>2. IsFiniteSet(Blocked(r)') /\ Cardinality(Blocked(r)') = Cardinality(Blocked(r)) + 1
      BY <2>1, <3>1, FS_AddElement
    <3> QED
      BY <2>1, <2>3, <3>1, <3>2
  <2>4. CASE r = on[t] /\ counter[r] - 1 >= 0
    <3>1. Blocked(r)' = Blocked(r) /\ counter'[r] = counter[r] - 1
      BY <2>4 DEF IInv, TypeOK, DownBody, Move, Blocked
    <3> QED
      BY <2>1, <2>4, <3>1
  <2> QED
    BY <2>1, <2>2, <2>3, <2>4
<1> QED
  BY <1>1, <1>2 DEF IInv, WaitersFinite, WaitersCounted

\* If the counter is negative somebody waits, and if it is not, nobody does.
LEMMA WhoWaits ==
  ASSUME IInv, NEW s \in Sems
  PROVE  counter[s] < 0 <=> Blocked(s) # {}
<1>1. /\ IsFiniteSet(Blocked(s)) /\ counter[s] \in Int
      /\ Cardinality(Blocked(s)) = IF counter[s] < 0 THEN -counter[s] ELSE 0
  BY DEF IInv, TypeOK, WaitersFinite, WaitersCounted
<1>2. Cardinality(Blocked(s)) = 0 <=> Blocked(s) = {}
  BY <1>1, FS_EmptySet
<1> QED
  BY <1>1, <1>2

\* zem_up wakes one waiter exactly when the counter was negative.
LEMMA UpBodyInv ==
  ASSUME IInv, NEW t \in Threads, UpBody(t)
  PROVE  IInv'
<1>1. (TypeOK /\ MutexHeld)'
  BY DEF IInv, UpBody, Blocked, Move, TypeOK, Places, MutexHeld, Holding
<1>2. ASSUME NEW r \in Sems
      PROVE  /\ IsFiniteSet(Blocked(r)')
             /\ Cardinality(Blocked(r)') = IF counter'[r] < 0 THEN -counter'[r] ELSE 0
  <2>1. /\ IsFiniteSet(Blocked(r)) /\ t \notin Blocked(r) /\ counter[r] \in Int
        /\ Cardinality(Blocked(r)) = IF counter[r] < 0 THEN -counter[r] ELSE 0
        /\ on[t] \in Sems
    BY DEF IInv, TypeOK, WaitersFinite, WaitersCounted, UpBody, Blocked
  <2>2. CASE r # on[t]
    <3>1. Blocked(r)' = Blocked(r) /\ counter'[r] = counter[r]
      BY <2>2 DEF IInv, TypeOK, UpBody, Move, Blocked
    <3> QED
      BY <2>1, <3>1
  <2>3. CASE r = on[t] /\ counter[r] < 0
    <3>1. PICK w \in Blocked(r) : at' = [at EXCEPT ![t] = "upUnlock", ![w] = "woken"]
      <4>1. counter[on[t]] < 0 /\ Blocked(on[t]) # {} /\ ~(counter[on[t]] >= 0)
        BY <2>1, <2>3, WhoWaits
      <4> QED
        BY <2>3, <4>1 DEF UpBody
    <3>2. on' = on /\ counter'[r] = counter[r] + 1
      BY <2>1, <2>3 DEF IInv, TypeOK, UpBody
    <3>3. Blocked(r)' = Blocked(r) \ {w}
      BY <2>1, <2>3, <3>1, <3>2 DEF IInv, TypeOK, Blocked
    <3>4. IsFiniteSet(Blocked(r)') /\ Cardinality(Blocked(r)') = Cardinality(Blocked(r)) - 1
      BY <2>1, <3>1, <3>3, FS_RemoveElement
    <3> QED
      BY <2>1, <2>3, <3>2, <3>4
  <2>4. CASE r = on[t] /\ counter[r] >= 0
    <3>1. Blocked(r)' = Blocked(r) /\ counter'[r] = counter[r] + 1
      BY <2>1, <2>4 DEF IInv, TypeOK, UpBody, Move, Blocked
    <3> QED
      BY <2>1, <2>4, <3>1
  <2> QED
    BY <2>1, <2>2, <2>3, <2>4
<1> QED
  BY <1>1, <1>2 DEF IInv, WaitersFinite, WaitersCounted

\* Every step preserves the invariant.
LEMMA NextInv ==
  ASSUME IInv, [Next]_vars
  PROVE  IInv'
<1>1. CASE \E t \in Threads, s \in Sems : Down(t, s) \/ Up(t, s)
  BY <1>1, CallInv DEF Down, Up
<1>2. CASE \E t \in Threads : Inside(t) /\ UNCHANGED calls
  BY <1>2, AcquireInv, DownBodyInv, UpBodyInv, UnlockInv DEF Inside
<1>3. CASE UNCHANGED vars
  <2>1. \A s \in Sems : Blocked(s)' = Blocked(s)
    BY <1>3 DEF vars, zemVars, Blocked
  <2> QED
    BY <1>3, <2>1, SameWaiters DEF vars, zemVars, IInv, TypeOK, MutexHeld
<1> QED
  BY <1>1, <1>2, <1>3 DEF Next, Finished

\* The invariant holds in every reachable state.
THEOREM Invariance == Spec => []IInv
BY InitInv, NextInv, PTL DEF Spec

\* A negative counter is the number of the threads that wait (zemaphore.c:16-32).
THEOREM WaitersAreCounted == Spec => []WaitersCounted
<1>1. IInv => WaitersCounted
  BY DEF IInv
<1> QED
  BY <1>1, Invariance, PTL

\* The mutex makes the bodies of zem_down and zem_up critical sections.
THEOREM MutualExclusion == Spec => []Exclusive
<1>1. IInv => Exclusive
  BY DEF IInv, MutexHeld, Exclusive
<1> QED
  BY <1>1, Invariance, PTL

-----------------------------------------------------------------------------
(* The refinement of Semaphore *)

\* The semaphore that TheSem stands for, without the fairness of Return.
SemaphoreSafety == Sem!Init /\ [][Sem!Next]_(Sem!semVars)

\* Its variables, as functions of those of the zemaphores.
permits == IF counter[TheSem] > 0 THEN counter[TheSem] ELSE 0
waiting == Blocked(TheSem)
admitted == {t \in Threads : on[t] = TheSem /\ at[t] \in {"woken", "downUnlock"}}

\* TheSem is one of the zemaphores.
LEMMA TheSemIs == TheSem \in Sems
BY ZemaphoreAssumption DEF TheSem

\* A zemaphore starts as a semaphore with its first value.
LEMMA RefinesInit == Init => Sem!Init
<1> SUFFICES ASSUME Init PROVE permits = InitialValue /\ waiting = {} /\ admitted = {}
  BY DEF Sem!Init, permits, waiting, admitted
<1> QED
  BY TheSemIs, ClientsAssumption
  DEF Init, ZemInit, permits, waiting, admitted, Blocked

\* The steps that the semaphore does not see.
LEMMA Stutters ==
  ASSUME IInv, NEW t \in Threads,
         \/ \E s \in Sems : CallDown(t, s) \/ CallUp(t, s)
         \/ DownLock(t) \/ DownWoken(t) \/ UpLock(t)
         \/ Unlock(t) /\ at[t] = "upUnlock"
  PROVE  permits' = permits /\ waiting' = waiting /\ admitted' = admitted
<1>1. counter' = counter
  BY DEF CallDown, CallUp, DownLock, DownWoken, UpLock, Acquire, Unlock
<1>2. CASE \E s \in Sems : CallDown(t, s) \/ CallUp(t, s)
  BY <1>1, <1>2 DEF IInv, TypeOK, CallDown, CallUp, Move, permits, waiting, admitted,
         Blocked
<1>3. CASE DownLock(t) \/ DownWoken(t) \/ UpLock(t)
  BY <1>1, <1>3 DEF IInv, TypeOK, DownLock, DownWoken, UpLock, Acquire, Move,
                    permits, waiting, admitted, Blocked
<1>4. CASE Unlock(t) /\ at[t] = "upUnlock"
  BY <1>1, <1>4 DEF IInv, TypeOK, Unlock, Move, permits, waiting, admitted, Blocked
<1> QED
  BY <1>2, <1>3, <1>4

\* zem_down takes a permit or waits; on another zemaphore it does neither.
LEMMA DownIsTakeOrWait ==
  ASSUME IInv, NEW t \in Threads, DownBody(t)
  PROVE  \/ Sem!Take(t) \/ Sem!Wait(t)
         \/ permits' = permits /\ waiting' = waiting /\ admitted' = admitted
<1>1. /\ counter[TheSem] \in Int /\ on[t] \in Sems /\ on' = on /\ at[t] = "downBody"
      /\ counter' = [counter EXCEPT ![on[t]] = @ - 1] /\ counter \in [Sems -> Int]
      /\ at \in [Threads -> Places]
  BY TheSemIs DEF IInv, TypeOK, DownBody
<1>2. t \notin waiting /\ t \notin admitted
  BY <1>1 DEF waiting, admitted, Blocked
<1>3. CASE on[t] # TheSem
  BY <1>1, <1>3, TheSemIs DEF DownBody, Move, permits, waiting, admitted, Blocked
<1>4. CASE on[t] = TheSem /\ counter[TheSem] - 1 < 0
  <2>1. at' = [at EXCEPT ![t] = "blocked"] /\ counter'[TheSem] = counter[TheSem] - 1
    BY <1>1, <1>4 DEF DownBody, Move
  <2>2. permits = 0 /\ permits' = 0
    BY <1>1, <1>4, <2>1 DEF permits
  <2>3. waiting' = waiting \cup {t} /\ admitted' = admitted
    BY <1>1, <1>4, <2>1 DEF waiting, admitted, Blocked
  <2> QED
    BY <1>2, <2>2, <2>3 DEF Sem!Wait, permits, waiting, admitted
<1>5. CASE on[t] = TheSem /\ counter[TheSem] - 1 >= 0
  <2>1. at' = [at EXCEPT ![t] = "downUnlock"] /\ counter'[TheSem] = counter[TheSem] - 1
    BY <1>1, <1>5 DEF DownBody, Move
  <2>2. permits > 0 /\ permits' = permits - 1
    BY <1>1, <1>5, <2>1 DEF permits
  <2>3. admitted' = admitted \cup {t} /\ waiting' = waiting
    BY <1>1, <1>5, <2>1 DEF waiting, admitted, Blocked
  <2> QED
    BY <1>2, <2>2, <2>3 DEF Sem!Take, permits, waiting, admitted
<1> QED
  BY <1>1, <1>3, <1>4, <1>5

\* zem_up hands its permit to a waiter, if there is one.
LEMMA UpIsHandOrGive ==
  ASSUME IInv, NEW t \in Threads, UpBody(t)
  PROVE  \/ \E w \in Threads : Sem!Hand(w)
         \/ Sem!Give
         \/ permits' = permits /\ waiting' = waiting /\ admitted' = admitted
<1>1. /\ counter[TheSem] \in Int /\ on[t] \in Sems /\ on' = on /\ at[t] = "upBody"
      /\ counter' = [counter EXCEPT ![on[t]] = @ + 1] /\ counter \in [Sems -> Int]
      /\ at \in [Threads -> Places]
  BY TheSemIs DEF IInv, TypeOK, UpBody
<1>2. CASE on[t] # TheSem
  BY <1>1, <1>2, TheSemIs DEF UpBody, Move, permits, waiting, admitted, Blocked
<1>3. CASE on[t] = TheSem /\ counter[TheSem] < 0
  <2>1. PICK w \in Blocked(TheSem) : at' = [at EXCEPT ![t] = "upUnlock", ![w] = "woken"]
    <3>1. counter[on[t]] < 0 /\ Blocked(on[t]) # {} /\ ~(counter[on[t]] >= 0)
      BY <1>1, <1>3, WhoWaits
    <3> QED
      BY <1>3, <3>1 DEF UpBody
  <2>2. permits = 0 /\ permits' = 0
    BY <1>1, <1>3 DEF permits
  <2>3. /\ w \in Threads /\ w \in waiting
        /\ waiting' = waiting \ {w} /\ admitted' = admitted \cup {w}
    BY <1>1, <1>3, <2>1 DEF waiting, admitted, Blocked
  <2> QED
    BY <2>2, <2>3 DEF Sem!Hand, permits, waiting, admitted
<1>4. CASE on[t] = TheSem /\ counter[TheSem] >= 0
  <2>1. Blocked(TheSem) = {} /\ at' = [at EXCEPT ![t] = "upUnlock"]
    BY <1>1, <1>4, TheSemIs, WhoWaits DEF UpBody, Move
  <2>2. permits' = permits + 1
    BY <1>1, <1>4 DEF permits
  <2>3. waiting = {} /\ waiting' = waiting /\ admitted' = admitted
    BY <1>1, <1>4, <2>1 DEF waiting, admitted, Blocked
  <2> QED
    BY <2>2, <2>3 DEF Sem!Give, permits, waiting, admitted
<1> QED
  BY <1>1, <1>2, <1>3, <1>4

\* zem_down returns.
LEMMA UnlockIsReturn ==
  ASSUME IInv, NEW t \in Threads, Unlock(t), at[t] = "downUnlock"
  PROVE  \/ Sem!Return(t)
         \/ permits' = permits /\ waiting' = waiting /\ admitted' = admitted
<1>1. /\ on' = on /\ counter' = counter /\ at' = [at EXCEPT ![t] = "out"]
      /\ at \in [Threads -> Places]
  BY DEF IInv, TypeOK, Unlock, Move
<1>2. permits' = permits /\ waiting' = waiting
  BY <1>1 DEF permits, waiting, Blocked
<1>3. CASE on[t] = TheSem
  <2>1. t \in admitted /\ admitted' = admitted \ {t}
    BY <1>1, <1>3 DEF admitted
  <2> QED
    BY <1>2, <2>1 DEF Sem!Return, permits, waiting, admitted
<1>4. CASE on[t] # TheSem
  BY <1>1, <1>2, <1>4 DEF admitted
<1> QED
  BY <1>3, <1>4

\* Every step is one of the semaphore, or none.
LEMMA RefinesNext ==
  ASSUME IInv, [Next]_vars
  PROVE  [Sem!Next]_(Sem!semVars)
<1>1. (permits' = permits /\ waiting' = waiting /\ admitted' = admitted)
      => UNCHANGED Sem!semVars
  BY DEF Sem!semVars, permits, waiting, admitted
<1>2. CASE \E t \in Threads, s \in Sems : Down(t, s) \/ Up(t, s)
  BY <1>1, <1>2, Stutters DEF Down, Up
<1>3. ASSUME NEW t \in Threads, Inside(t)
      PROVE  [Sem!Next]_(Sem!semVars)
  BY <1>1, <1>3, Stutters, DownIsTakeOrWait, UpIsHandOrGive, UnlockIsReturn
  DEF Inside, Unlock, Sem!Next
<1>4. CASE UNCHANGED vars
  <2>1. permits' = permits /\ waiting' = waiting /\ admitted' = admitted
    BY <1>4 DEF vars, zemVars, permits, waiting, admitted, Blocked
  <2> QED
    BY <1>1, <2>1
<1> QED
  BY <1>2, <1>3, <1>4 DEF Next, Finished

\* A zemaphore does only what a semaphore may do: a permit given to a waiter is
\* that waiter's, whoever calls zem_down before it has the mutex back.
THEOREM ImplementsSemaphore == Spec => SemaphoreSafety
BY RefinesInit, RefinesNext, Invariance, PTL DEF Spec, SemaphoreSafety
=============================================================================
