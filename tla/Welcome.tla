------------------------------ MODULE Welcome ------------------------------
(***************************************************************************)
(* The welcome functions of Lab-2 (proc.c: welcomeFunction, welcomeDone    *)
(* and fork): a child begins in a function its parent has registered, and  *)
(* welcomeDone sends it to where its parent returned from fork.            *)
(*                                                                         *)
(* A process is its slot of the process table; the welcome fields of a     *)
(* slot stay there when the process has gone.  What matters of a trap      *)
(* frame is where it returns to and on which stack; the stack is esp and   *)
(* ebp together.  fork is one step: nobody else looks at the new slot      *)
(* (ProcTable has its steps), and so is the end of a process, from exit to *)
(* the wait that frees the slot.                                           *)
(***************************************************************************)
EXTENDS Integers

CONSTANTS
  NPROC,       \* slots of the table
  Contexts,    \* where user programs make system calls: [eip, stack]
  Functions    \* addresses of functions

ASSUME WelcomeAssumption ==
  /\ NPROC \in Nat \ {0}
  /\ Contexts \subseteq [eip : Int, stack : Int]
  /\ Functions \subseteq Int

Slots == 1 .. NPROC
initproc == 1
Nowhere == [eip |-> 0, stack |-> 0]

VARIABLES
  live,               \* the slots in use
  tf,                 \* the trap frame of each process
  welcomeFuncSet, welcomeFuncAddr,
  welcomeDone,        \* welcomeDoneAddr and the two stack pointers
  registered,         \* has this process called welcomeFunction?
  birth               \* where its parent was, if it began in a function

fields == <<welcomeFuncSet, welcomeFuncAddr, welcomeDone>>
vars == <<live, tf, fields, registered, birth>>

Init ==
  /\ live = {initproc}
  /\ \E c \in Contexts : tf = [p \in Slots |-> IF p = initproc THEN c ELSE Nowhere]
  /\ welcomeFuncSet = [p \in Slots |-> FALSE]
  /\ welcomeFuncAddr = [p \in Slots |-> 0]
  /\ welcomeDone = [p \in Slots |-> Nowhere]
  /\ registered = [p \in Slots |-> FALSE]
  /\ birth = [p \in Slots |-> Nowhere]

\* A user program runs on to its next system call.
Run(p) ==
  /\ p \in live
  /\ \E c \in Contexts : tf' = [tf EXCEPT ![p] = c]
  /\ UNCHANGED <<live, fields, registered, birth>>

\* welcomeFunction(f); the address is below the size of the process.
WelcomeFunction(p, f) ==
  /\ p \in live
  /\ welcomeFuncSet' = [welcomeFuncSet EXCEPT ![p] = TRUE]
  /\ welcomeFuncAddr' = [welcomeFuncAddr EXCEPT ![p] = f]
  /\ registered' = [registered EXCEPT ![p] = TRUE]
  /\ UNCHANGED <<live, tf, welcomeDone, birth>>

\* Mutant: allocproc resets nothing.
allocproc_NoReset(np) == UNCHANGED welcomeFuncSet

\* allocproc: what it resets of the slot.
allocproc(np) == welcomeFuncSet' = [welcomeFuncSet EXCEPT ![np] = FALSE]

\* Mutant: the parent remembers where to return to (the line that proc.c:207
\* has commented out).
Inherit_InParent(p, np) ==
  /\ tf' = [tf EXCEPT ![np] = [tf[p] EXCEPT !.eip = welcomeFuncAddr[p]]]
  /\ welcomeDone' = [welcomeDone EXCEPT ![p] = tf[p]]

\* The child of a process with a welcome function.
Inherit(p, np) ==
  /\ tf' = [tf EXCEPT ![np] = [tf[p] EXCEPT !.eip = welcomeFuncAddr[p]]]
  /\ welcomeDone' = [welcomeDone EXCEPT ![np] = tf[p]]

fork(p, np) ==
  /\ p \in live /\ np \notin live
  /\ live' = live \cup {np}
  /\ allocproc(np)
  /\ \/ /\ welcomeFuncSet[p]
        /\ Inherit(p, np)
        /\ birth' = [birth EXCEPT ![np] = tf[p]]
     \/ /\ ~welcomeFuncSet[p]
        /\ tf' = [tf EXCEPT ![np] = tf[p]]
        /\ birth' = [birth EXCEPT ![np] = Nowhere]
        /\ UNCHANGED welcomeDone
  /\ registered' = [registered EXCEPT ![np] = FALSE]
  /\ UNCHANGED welcomeFuncAddr

\* welcomeDone(), by a process with or without a welcome function.
WelcomeDone(p) ==
  /\ p \in live
  /\ tf' = [tf EXCEPT ![p] = welcomeDone[p]]
  /\ UNCHANGED <<live, fields, registered, birth>>

\* exit, and the wait that frees the slot.
Ends(p) ==
  /\ p \in live \ {initproc}
  /\ live' = live \ {p}
  /\ UNCHANGED <<tf, fields, registered, birth>>

Next ==
  \E p \in Slots :
    \/ Run(p) \/ WelcomeDone(p) \/ Ends(p)
    \/ \E f \in Functions : WelcomeFunction(p, f)
    \/ \E np \in Slots : fork(p, np)

Spec == Init /\ [][Next]_vars

-----------------------------------------------------------------------------
(* Properties *)

\* Only who has registered a function has children that begin in one: the
\* registration of a process that had the slot before has no effect.
RegistrationIsOwn == \A p \in live : welcomeFuncSet[p] => registered[p]

\* A process that began in a welcome function returns from welcomeDone to the
\* place and the stack where its parent returned from fork, whatever the two
\* have done meanwhile: other registrations, other children, other calls.
ReturnsToFork ==
  [][\A p \in live : WelcomeDone(p) /\ birth[p] # Nowhere => tf'[p] = birth[p]]_vars
=============================================================================
