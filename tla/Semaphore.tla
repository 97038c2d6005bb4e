----------------------------- MODULE Semaphore -----------------------------
(***************************************************************************)
(* What a semaphore promises: permits that P takes and V gives, and a V    *)
(* that finds threads waiting hands its permit to one of them, so that no  *)
(* later P can overtake the thread that was chosen.                        *)
(***************************************************************************)
EXTENDS Integers

CONSTANTS Threads, InitialPermits

VARIABLES permits,    \* the permits nobody has taken
          waiting,    \* the threads inside P that wait for a permit
          admitted    \* the threads inside P that have got one

semVars == <<permits, waiting, admitted>>

Init == permits = InitialPermits /\ waiting = {} /\ admitted = {}

\* P takes a permit at once, or waits.
Take(t) ==
  /\ t \notin waiting \cup admitted
  /\ permits > 0
  /\ permits' = permits - 1
  /\ admitted' = admitted \cup {t}
  /\ UNCHANGED waiting

Wait(t) ==
  /\ t \notin waiting \cup admitted
  /\ permits = 0
  /\ waiting' = waiting \cup {t}
  /\ UNCHANGED <<permits, admitted>>

\* P returns.
Return(t) ==
  /\ t \in admitted
  /\ admitted' = admitted \ {t}
  /\ UNCHANGED <<permits, waiting>>

\* V gives a permit to a waiting thread, or back to the semaphore.
Hand(t) ==
  /\ t \in waiting
  /\ waiting' = waiting \ {t}
  /\ admitted' = admitted \cup {t}
  /\ UNCHANGED permits

Give ==
  /\ waiting = {}
  /\ permits' = permits + 1
  /\ UNCHANGED <<waiting, admitted>>

Next == (\E t \in Threads : Take(t) \/ Wait(t) \/ Return(t) \/ Hand(t)) \/ Give

Spec == Init /\ [][Next]_semVars /\ \A t \in Threads : WF_semVars(Return(t))
=============================================================================
