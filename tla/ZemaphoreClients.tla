-------------------------- MODULE ZemaphoreClients --------------------------
(***************************************************************************)
(* The zemaphores of Zemaphore under any use of them: every thread calls   *)
(* zem_down and zem_up, on any zemaphore, in whatever order.  The counts   *)
(* of calls are there for the bound only.                                  *)
(***************************************************************************)
EXTENDS Zemaphore

CONSTANTS
  InitialValue,   \* the value given to zem_init
  MaxCalls        \* bound: how often each function is called on a zemaphore

ASSUME ClientsAssumption == InitialValue \in Nat /\ MaxCalls \in Nat

VARIABLES downs,      \* the calls of zem_down so far
          ups         \* the calls of zem_up so far

calls == <<downs, ups>>
vars == <<zemVars, calls>>

Init ==
  /\ ZemInit([s \in Sems |-> InitialValue])
  /\ downs = [s \in Sems |-> 0]
  /\ ups = [s \in Sems |-> 0]

Down(t, s) ==
  /\ downs[s] < MaxCalls
  /\ CallDown(t, s)
  /\ downs' = [downs EXCEPT ![s] = @ + 1]
  /\ UNCHANGED ups

Up(t, s) ==
  /\ ups[s] < MaxCalls
  /\ CallUp(t, s)
  /\ ups' = [ups EXCEPT ![s] = @ + 1]
  /\ UNCHANGED downs

\* Nobody calls again: every thread is blocked, or out with no call left.
Finished ==
  /\ \A t \in Threads :
       \/ at[t] = "blocked"
       \/ at[t] = "out" /\ \A s \in Sems : downs[s] = MaxCalls /\ ups[s] = MaxCalls
  /\ UNCHANGED vars

Next ==
  \/ \E t \in Threads, s \in Sems : Down(t, s) \/ Up(t, s)
  \/ \E t \in Threads : Inside(t) /\ UNCHANGED calls
  \/ Finished

Spec == Init /\ [][Next]_vars

\* A thread inside a call keeps running; nothing makes a client call.
Fairness == \A t \in Threads : /\ WF_vars(Inside(t) /\ UNCHANGED calls)
                               /\ SF_vars(Acquires(t) /\ UNCHANGED calls)

FairSpec == Spec /\ Fairness

-----------------------------------------------------------------------------
(* Properties *)

\* A negative counter counts the blocked threads and nothing else, so the
\* test in zem_up (zemaphore.c:29) signals exactly when somebody waits, and
\* the signal goes to one waiter for one permit.
WaitersCounted ==
  \A s \in Sems :
    Cardinality(Blocked(s)) = IF counter[s] < 0 THEN -counter[s] ELSE 0

\* A zemaphore implements a semaphore that hands permits over: a thread that
\* zem_up chose has its permit already, although it still has to get the
\* mutex back, and zem_downs called meanwhile cannot take it away.
\* Zemaphores share no state: one of them stands for all.
TheSem == CHOOSE x \in Sems : TRUE

Sem == INSTANCE Semaphore WITH
  InitialPermits <- InitialValue,
  permits  <- IF counter[TheSem] > 0 THEN counter[TheSem] ELSE 0,
  waiting  <- Blocked(TheSem),
  admitted <- {t \in Threads : on[t] = TheSem /\ at[t] \in {"woken", "downUnlock"}}

SemaphoreSpec == Sem!Spec
=============================================================================
