----------------------------- MODULE Turnstile -----------------------------
(***************************************************************************)
(* Lab-4 practise/1.c: NUM_THREADS threads, numbered from 1, print their   *)
(* id NUM_TIMES_PRINT times each in the order 1, 2, ... , 1, 2, ...  The   *)
(* turn is the variable curId under one lock, and every thread waits on a  *)
(* condition variable of its own, cond[id - 1].  A wait may return without *)
(* a signal.                                                               *)
(***************************************************************************)
EXTENDS Integers, FiniteSets

CONSTANTS NUM_THREADS, NUM_TIMES_PRINT,
          NoThread                        \* the owner of a free lock

ASSUME TurnstileAssumption ==
  /\ NUM_THREADS \in Nat \ {0}
  /\ NUM_TIMES_PRINT \in Nat
  /\ NoThread \notin 1 .. NUM_THREADS

VARIABLES
  pc,        \* what each thread does next
  i,         \* its loop counter
  lock,      \* the thread that holds the lock, or NoThread
  curId,     \* whose turn it is
  who,       \* the thread that printed the last line
  lines,     \* the lines printed so far
  joined     \* the threads main has joined: 1 .. joined

Ids == 1 .. NUM_THREADS

vars == <<pc, i, lock, curId, who, lines, joined>>

Init ==
  /\ pc = [t \in Ids |-> "new"]
  /\ i = [t \in Ids |-> 0]
  /\ lock = NoThread
  /\ curId = 1
  /\ who = NUM_THREADS
  /\ lines = 0
  /\ joined = 0

Goto(t, label) == pc' = [pc EXCEPT ![t] = label]

\* The loop condition after k rounds.
LoopOrReturn(t, k) == Goto(t, IF k < NUM_TIMES_PRINT THEN "lock" ELSE "done")

\* main creates the threads in the order of their ids.
Create(t) ==
  /\ pc[t] = "new"
  /\ \A u \in 1 .. t - 1 : pc[u] # "new"
  /\ LoopOrReturn(t, 0)
  /\ UNCHANGED <<i, lock, curId, who, lines, joined>>

\* Mutant: an if in place of the while.
Lock_NoSecondTest(t) ==
  /\ pc[t] \in {"lock", "woken"}
  /\ lock = NoThread
  /\ lock' = t
  /\ Goto(t, IF pc[t] = "lock" THEN "test" ELSE "pass")
  /\ UNCHANGED <<i, curId, who, lines, joined>>

\* pthread_mutex_lock, and the end of a wait, which takes the lock again.
Lock(t) ==
  /\ pc[t] \in {"lock", "woken"}
  /\ lock = NoThread
  /\ lock' = t
  /\ Goto(t, "test")
  /\ UNCHANGED <<i, curId, who, lines, joined>>

\* while (curId != *id) wait.
Test(t) ==
  /\ pc[t] = "test"
  /\ \/ curId # t /\ Goto(t, "waiting") /\ lock' = NoThread
     \/ curId = t /\ Goto(t, "pass") /\ UNCHANGED lock
  /\ UNCHANGED <<i, curId, who, lines, joined>>

SpuriousWakeup(t) ==
  /\ pc[t] = "waiting"
  /\ Goto(t, "woken")
  /\ UNCHANGED <<i, lock, curId, who, lines, joined>>

\* The thread whose turn comes is woken if it waits.
HandTurn(t, next) ==
  pc' = [u \in Ids |-> IF u = t THEN "print"
                       ELSE IF u = next /\ pc[u] = "waiting" THEN "woken" ELSE pc[u]]

\* Mutant: the signal goes to cond[curId] instead of cond[curId - 1].
Pass_WrongCondition(t) ==
  /\ pc[t] = "pass"
  /\ curId' = (curId % NUM_THREADS) + 1
  /\ HandTurn(t, curId' + 1)
  /\ UNCHANGED <<i, lock, who, lines, joined>>

\* Advance the turn, and signal the one thread that may wait for it.
Pass(t) ==
  /\ pc[t] = "pass"
  /\ curId' = (curId % NUM_THREADS) + 1
  /\ HandTurn(t, curId')
  /\ UNCHANGED <<i, lock, who, lines, joined>>

PrintLine(t) ==
  /\ pc[t] = "print"
  /\ who' = t
  /\ lines' = lines + 1
  /\ Goto(t, "unlock")
  /\ UNCHANGED <<i, lock, curId, joined>>

Unlock(t) ==
  /\ pc[t] = "unlock"
  /\ lock' = NoThread
  /\ i' = [i EXCEPT ![t] = @ + 1]
  /\ LoopOrReturn(t, i[t] + 1)
  /\ UNCHANGED <<curId, who, lines, joined>>

\* main joins the threads in the order of their ids, after creating all.
Join ==
  /\ \A t \in Ids : pc[t] # "new"
  /\ joined + 1 \in Ids
  /\ pc[joined + 1] = "done"
  /\ joined' = joined + 1
  /\ UNCHANGED <<pc, i, lock, curId, who, lines>>

Terminated == joined = NUM_THREADS /\ UNCHANGED vars

ThreadStep(t) ==
  Create(t) \/ Lock(t) \/ Test(t) \/ Pass(t) \/ PrintLine(t) \/ Unlock(t)

Next ==
  \/ \E t \in Ids : ThreadStep(t) \/ SpuriousWakeup(t)
  \/ Join
  \/ Terminated

Spec == Init /\ [][Next]_vars

\* Every thread runs on, and is not starved at the lock if it keeps being free.
Fairness ==
  /\ \A t \in Ids : WF_vars(ThreadStep(t)) /\ SF_vars(Lock(t))
  /\ WF_vars(Join)

FairSpec == Spec /\ Fairness

-----------------------------------------------------------------------------
(* Properties *)

\* The turn is never stranded.  The thread whose turn it is does not sleep:
\* it sees the turn when it tests curId (practise/1.c:21), or is signalled
\* when the turn reaches it (line 24), although that signal is lost on a
\* thread that is not waiting.  Nor has it returned while a line is missing.
TurnNotStranded ==
  /\ pc[curId] # "waiting"
  /\ pc[curId] = "done" =>
       \/ lines = NUM_THREADS * NUM_TIMES_PRINT
       \/ lines = NUM_THREADS * NUM_TIMES_PRINT - 1 /\ \E t \in Ids : pc[t] = "print"

\* The program prints what the round robin of its threads prints, all of it.
Ring == INSTANCE RoundRobin WITH
  n <- NUM_THREADS, rounds <- NUM_TIMES_PRINT, who <- who - 1

RingSpec == Ring!Spec
=============================================================================
