----------------------------- MODULE RoundRobin -----------------------------
(***************************************************************************)
(* What the two turn-taking programs of Lab-4 promise (test-toggle.c and   *)
(* practise/1.c): the threads 0 .. n - 1 print one line each in turn,      *)
(* starting with thread 0, rounds times around.                            *)
(***************************************************************************)
EXTENDS Integers

CONSTANTS n, rounds

VARIABLES who,     \* the thread that printed the last line
          lines    \* the lines printed so far

rrVars == <<who, lines>>

Init == who = n - 1 /\ lines = 0

PrintLine ==
  /\ lines < n * rounds
  /\ who' = (who + 1) % n
  /\ lines' = lines + 1

Spec == Init /\ [][PrintLine]_rrVars /\ WF_rrVars(PrintLine)
=============================================================================
