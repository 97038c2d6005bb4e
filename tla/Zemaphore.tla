----------------------------- MODULE Zemaphore -----------------------------
(***************************************************************************)
(* Lab-4 zemaphore.c: a counting semaphore made of a counter, a mutex and  *)
(* a condition variable.  This module holds the steps of a thread inside   *)
(* zem_down and zem_up; the modules that use it say when they are called.  *)
(* at[t] is where thread t is, on[t] the zemaphore it was last called with.*)
(*                                                                         *)
(* pthread_cond_wait returns only when it has been signalled.  POSIX lets  *)
(* it return without a signal as well; zem_down, which waits under an if   *)
(* (zemaphore.c:21), would then let a thread through without a permit, and *)
(* such returns are left out.                                              *)
(* The statements between two pthread calls touch nothing but the counter, *)
(* which the mutex protects, and are one step with the call they follow.   *)
(***************************************************************************)
EXTENDS Integers, FiniteSets

CONSTANTS
  Threads,          \* the threads that use the zemaphores
  Sems,             \* the zemaphores
  NoThread          \* the owner of a free mutex

ASSUME ZemaphoreAssumption == NoThread \notin Threads /\ Sems # {}

VARIABLES at, on, counter, mutex

zemVars == <<at, on, counter, mutex>>

\* A thread is outside ("out"), wants the mutex, holds it, or is blocked on
\* the condition variable; a woken thread wants the mutex back.
Places == {"out", "downLock", "downBody", "blocked", "woken", "downUnlock",
           "upLock", "upBody", "upUnlock"}

\* The threads blocked on the condition variable of zemaphore s.
Blocked(s) == {t \in Threads : at[t] = "blocked" /\ on[t] = s}

\* zem_init, of every zemaphore, before any thread runs.
ZemInit(value) ==
  /\ at = [t \in Threads |-> "out"]
  /\ on = [t \in Threads |-> CHOOSE s \in Sems : TRUE]   \* not yet in use
  /\ counter = value
  /\ mutex = [s \in Sems |-> NoThread]

Move(t, place) == at' = [at EXCEPT ![t] = place]

Acquire(t, from, to) ==
  /\ at[t] = from
  /\ mutex[on[t]] = NoThread
  /\ mutex' = [mutex EXCEPT ![on[t]] = t]
  /\ Move(t, to)
  /\ UNCHANGED <<on, counter>>

\* The mutex is given back: pthread_mutex_unlock, or on entry to a wait.
Release(t) == mutex' = [mutex EXCEPT ![on[t]] = NoThread]

-----------------------------------------------------------------------------
(* zem_down *)

CallDown(t, s) ==
  /\ at[t] = "out"
  /\ Move(t, "downLock")
  /\ on' = [on EXCEPT ![t] = s]
  /\ UNCHANGED <<counter, mutex>>

DownLock(t) == Acquire(t, "downLock", "downBody")

\* Decrement, and wait if no permit was left.
DownBody(t) ==
  LET s == on[t] IN
  /\ at[t] = "downBody"
  /\ counter' = [counter EXCEPT ![s] = @ - 1]
  /\ \/ counter'[s] < 0  /\ Move(t, "blocked") /\ Release(t)
     \/ counter'[s] >= 0 /\ Move(t, "downUnlock") /\ UNCHANGED mutex
  /\ UNCHANGED on

\* The waiter has the mutex back; there is no second test.
DownWoken(t) == Acquire(t, "woken", "downUnlock")

-----------------------------------------------------------------------------
(* zem_up *)

CallUp(t, s) ==
  /\ at[t] = "out"
  /\ Move(t, "upLock")
  /\ on' = [on EXCEPT ![t] = s]
  /\ UNCHANGED <<counter, mutex>>

UpLock(t) == Acquire(t, "upLock", "upBody")

\* Mutant: the counter is incremented before it is tested.
UpBody_IncrementFirst(t) ==
  LET s == on[t] IN
  /\ at[t] = "upBody"
  /\ counter' = [counter EXCEPT ![s] = @ + 1]
  /\ IF counter'[s] < 0 /\ Blocked(s) # {}
       THEN \E w \in Blocked(s) : at' = [at EXCEPT ![t] = "upUnlock", ![w] = "woken"]
       ELSE Move(t, "upUnlock")
  /\ UNCHANGED <<on, mutex>>

\* Mutant: every waiter is woken (pthread_cond_broadcast).
UpBody_Broadcast(t) ==
  LET s == on[t] IN
  /\ at[t] = "upBody"
  /\ counter' = [counter EXCEPT ![s] = @ + 1]
  /\ at' = [u \in Threads |-> IF u = t THEN "upUnlock"
                              ELSE IF u \in Blocked(s) THEN "woken" ELSE at[u]]
  /\ UNCHANGED <<on, mutex>>

\* Signal one waiter if somebody waits, then increment.
UpBody(t) ==
  LET s == on[t] IN
  /\ at[t] = "upBody"
  /\ \/ /\ counter[s] < 0
        /\ \E w \in Blocked(s) : at' = [at EXCEPT ![t] = "upUnlock", ![w] = "woken"]
     \/ /\ counter[s] >= 0 \/ Blocked(s) = {}
        /\ Move(t, "upUnlock")
  /\ counter' = [counter EXCEPT ![s] = @ + 1]
  /\ UNCHANGED <<on, mutex>>

-----------------------------------------------------------------------------

\* The unlock at the end of both functions, and the return.
Unlock(t) ==
  /\ at[t] \in {"downUnlock", "upUnlock"}
  /\ Release(t)
  /\ Move(t, "out")
  /\ UNCHANGED <<on, counter>>

\* A step of thread t inside a call.
Inside(t) ==
  \/ DownLock(t) \/ DownBody(t) \/ DownWoken(t)
  \/ UpLock(t) \/ UpBody(t) \/ Unlock(t)

\* The two acquisitions and the return from a wait: with strong fairness a
\* thread that keeps finding the mutex free is not passed over for ever.
Acquires(t) == DownLock(t) \/ DownWoken(t) \/ UpLock(t)
=============================================================================
