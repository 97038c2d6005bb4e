------------------------------- MODULE Toggle -------------------------------
(***************************************************************************)
(* Lab-4 test-toggle.c: NUM_THREADS threads print NUM_ITER times each, in  *)
(* ring order, and hand the turn on with one zemaphore per thread.  The    *)
(* steps inside zem_down and zem_up are those of Zemaphore.                *)
(***************************************************************************)
EXTENDS Integers, FiniteSets

CONSTANTS NUM_THREADS, NUM_ITER, NoThread

ASSUME ToggleAssumption ==
  /\ NUM_THREADS \in Nat \ {0}
  /\ NUM_ITER \in Nat
  /\ NoThread \notin 0 .. NUM_THREADS - 1

VARIABLES
  at, on, counter, mutex,   \* the zemaphores, see Zemaphore
  stage,                    \* where a thread is in justprint
  i,                        \* its loop counter
  who, lines,               \* who printed the last line; how many there are
  joined                    \* main's second loop: the threads joined so far

Ids == 0 .. NUM_THREADS - 1

INSTANCE Zemaphore WITH Threads <- Ids, Sems <- Ids

zems == <<at, on, counter, mutex>>
output == <<who, lines>>
vars == <<zems, stage, i, output, joined>>

\* Thread 0 has the first permit, the others none.
Init ==
  /\ ZemInit([t \in Ids |-> IF t = 0 THEN 1 ELSE 0])
  /\ stage = [t \in Ids |-> "new"]
  /\ i = [t \in Ids |-> 0]
  /\ who = NUM_THREADS - 1
  /\ lines = 0
  /\ joined = 0

next_id(t) == (t + 1) % NUM_THREADS

\* The loop condition: another round starts with zem_down.
LoopOrReturn(t, k) ==
  \/ /\ k < NUM_ITER
     /\ CallDown(t, t)
     /\ stage' = [stage EXCEPT ![t] = "down"]
  \/ /\ k >= NUM_ITER
     /\ stage' = [stage EXCEPT ![t] = "done"]
     /\ UNCHANGED zems

\* main creates the threads in the order of their ids.
Create(t) ==
  /\ stage[t] = "new"
  /\ \A u \in 0 .. t - 1 : stage[u] # "new"
  /\ LoopOrReturn(t, 0)
  /\ UNCHANGED <<i, output, joined>>

\* A step inside the zem_down or the zem_up of justprint.
InZem(t) == Inside(t) /\ UNCHANGED <<stage, i, output, joined>>

\* Mutant: the turn is given back to the thread itself.
PrintLine_OwnZemaphore(t) ==
  /\ at[t] = "out" /\ stage[t] = "down"
  /\ who' = t /\ lines' = lines + 1
  /\ CallUp(t, t)
  /\ stage' = [stage EXCEPT ![t] = "up"]
  /\ UNCHANGED <<i, joined>>

\* zem_down has returned: print, then call zem_up for the next thread.
PrintLine(t) ==
  /\ at[t] = "out" /\ stage[t] = "down"
  /\ who' = t /\ lines' = lines + 1
  /\ CallUp(t, next_id(t))
  /\ stage' = [stage EXCEPT ![t] = "up"]
  /\ UNCHANGED <<i, joined>>

\* zem_up has returned: the next iteration.
Again(t) ==
  /\ at[t] = "out" /\ stage[t] = "up"
  /\ i' = [i EXCEPT ![t] = @ + 1]
  /\ LoopOrReturn(t, i[t] + 1)
  /\ UNCHANGED <<output, joined>>

\* main joins the threads in the order of their ids, after creating all.
Join ==
  /\ \A t \in Ids : stage[t] # "new"
  /\ joined \in Ids
  /\ stage[joined] = "done"
  /\ joined' = joined + 1
  /\ UNCHANGED <<zems, stage, i, output>>

Terminated == joined = NUM_THREADS /\ UNCHANGED vars

ThreadStep(t) == Create(t) \/ InZem(t) \/ PrintLine(t) \/ Again(t)

Next ==
  \/ \E t \in Ids : ThreadStep(t)
  \/ Join
  \/ Terminated

Spec == Init /\ [][Next]_vars

\* Every thread runs on, and is not starved at a mutex that keeps being free.
Fairness ==
  /\ \A t \in Ids : /\ WF_vars(ThreadStep(t))
                    /\ SF_vars(Acquires(t) /\ UNCHANGED <<stage, i, output, joined>>)
  /\ WF_vars(Join)

FairSpec == Spec /\ Fairness

-----------------------------------------------------------------------------
(* Properties *)

\* The program prints what the round robin of its threads prints, all of it.
Ring == INSTANCE RoundRobin WITH n <- NUM_THREADS, rounds <- NUM_ITER

RingSpec == Ring!Spec
=============================================================================
