--------------------------- MODULE WelcomeProofs ---------------------------
(***************************************************************************)
(* Theorems about Welcome, for any number of slots and any programs.       *)
(* Neither property is inductive: what a step does to a slot is right only *)
(* if the slot's fields are those of the process that lives there now.     *)
(***************************************************************************)
EXTENDS Welcome, TLAPS

Frames == [eip : Int, stack : Int]

Types ==
  /\ live \subseteq Slots
  /\ tf \in [Slots -> Frames]
  /\ welcomeFuncSet \in [Slots -> BOOLEAN]
  /\ welcomeFuncAddr \in [Slots -> Int]
  /\ welcomeDone \in [Slots -> Frames]
  /\ registered \in [Slots -> BOOLEAN]
  /\ birth \in [Slots -> Frames]

\* The address to return to is that of the birth of the process, not one of
\* an earlier process in the slot.
DoneIsBirth == \A p \in live : birth[p] # Nowhere => welcomeDone[p] = birth[p]

IInv == Types /\ RegistrationIsOwn /\ DoneIsBirth

\* The context that stands for no address to return to.
LEMMA NowhereIsFrame == Nowhere \in Frames
BY DEF Nowhere, Frames

\* The frame with which a child of a registered process begins.
LEMMA StartIsFrame ==
  ASSUME NEW c \in Frames, NEW a \in Int
  PROVE  [c EXCEPT !.eip = a] \in Frames
BY DEF Frames

\* The invariant holds when only init is there.
LEMMA InitOk == Init => IInv
<1> SUFFICES ASSUME Init PROVE IInv
  OBVIOUS
<1>1. initproc \in Slots
  BY WelcomeAssumption DEF initproc, Slots
<1>2. PICK c \in Contexts : tf = [p \in Slots |-> IF p = initproc THEN c ELSE Nowhere]
  BY DEF Init
<1>3. c \in Frames
  BY WelcomeAssumption DEF Frames
<1>4. Types
  BY <1>1, <1>2, <1>3, NowhereIsFrame DEF Init, Types
<1>5. RegistrationIsOwn /\ DoneIsBirth
  BY <1>1 DEF Init, RegistrationIsOwn, DoneIsBirth
<1> QED
  BY <1>4, <1>5 DEF IInv

\* A fork, with the fields that the child inherits in the slot it gets.
LEMMA ForkOk ==
  ASSUME IInv, NEW p \in Slots, NEW np \in Slots, fork(p, np)
  PROVE  IInv'
<1>1. p # np /\ p \in live
  BY DEF fork
<1>2. /\ live' = live \cup {np}
      /\ welcomeFuncSet' = [welcomeFuncSet EXCEPT ![np] = FALSE]
      /\ registered' = [registered EXCEPT ![np] = FALSE]
      /\ welcomeFuncAddr' = welcomeFuncAddr
  BY DEF fork, allocproc
<1>3. tf[p] \in Frames /\ [tf[p] EXCEPT !.eip = welcomeFuncAddr[p]] \in Frames
  BY StartIsFrame DEF IInv, Types
<1>4. RegistrationIsOwn'
  BY <1>2 DEF IInv, Types, RegistrationIsOwn
<1>5. CASE welcomeFuncSet[p]
  <2>1. /\ tf' = [tf EXCEPT ![np] = [tf[p] EXCEPT !.eip = welcomeFuncAddr[p]]]
        /\ welcomeDone' = [welcomeDone EXCEPT ![np] = tf[p]]
        /\ birth' = [birth EXCEPT ![np] = tf[p]]
    BY <1>5 DEF fork, Inherit
  <2>2. Types'
    BY <1>2, <1>3, <2>1 DEF IInv, Types
  <2>3. DoneIsBirth'
    BY <1>2, <2>1 DEF IInv, Types, DoneIsBirth, Nowhere
  <2> QED
    BY <1>4, <2>2, <2>3 DEF IInv
<1>6. CASE ~welcomeFuncSet[p]
  <2>1. /\ tf' = [tf EXCEPT ![np] = tf[p]]
        /\ welcomeDone' = welcomeDone
        /\ birth' = [birth EXCEPT ![np] = Nowhere]
    BY <1>6 DEF fork
  <2>2. Types'
    BY <1>2, <1>3, <2>1, NowhereIsFrame DEF IInv, Types
  <2>3. DoneIsBirth'
    BY <1>2, <2>1 DEF IInv, Types, DoneIsBirth, Nowhere
  <2> QED
    BY <1>4, <2>2, <2>3 DEF IInv
<1> QED
  BY <1>5, <1>6

\* Every step keeps the invariant.
LEMMA StepOk == IInv /\ [Next]_vars => IInv'
<1> SUFFICES ASSUME IInv, [Next]_vars PROVE IInv'
  OBVIOUS
<1> USE DEF IInv
<1>1. ASSUME NEW p \in Slots, Run(p) PROVE IInv'
  <2>1. PICK c \in Contexts : tf' = [tf EXCEPT ![p] = c]
    BY <1>1 DEF Run
  <2>2. c \in Frames
    BY WelcomeAssumption DEF Frames
  <2> QED
    BY <1>1, <2>1, <2>2 DEF Run, fields, Types, RegistrationIsOwn, DoneIsBirth
<1>2. ASSUME NEW p \in Slots, WelcomeDone(p) PROVE IInv'
  BY <1>2 DEF WelcomeDone, fields, Types, RegistrationIsOwn, DoneIsBirth
<1>3. ASSUME NEW p \in Slots, Ends(p) PROVE IInv'
  BY <1>3 DEF Ends, fields, Types, RegistrationIsOwn, DoneIsBirth
<1>4. ASSUME NEW p \in Slots, NEW f \in Functions, WelcomeFunction(p, f) PROVE IInv'
  <2>1. f \in Int
    BY WelcomeAssumption
  <2> QED
    BY <1>4, <2>1 DEF WelcomeFunction, Types, RegistrationIsOwn, DoneIsBirth
<1>5. ASSUME NEW p \in Slots, NEW np \in Slots, fork(p, np) PROVE IInv'
  BY <1>5, ForkOk
<1>6. CASE UNCHANGED vars
  BY <1>6 DEF vars, fields, Types, RegistrationIsOwn, DoneIsBirth
<1> QED
  BY <1>1, <1>2, <1>3, <1>4, <1>5, <1>6 DEF Next

\* The invariant holds in every state.
LEMMA Invariance == Spec => []IInv
BY InitOk, StepOk, PTL DEF Spec

\* allocproc clears the registration of every slot it hands out (proc.c:93),
\* so a child begins in a function only if its own parent has registered it.
THEOREM RegistrationCorrect == Spec => []RegistrationIsOwn
<1>1. IInv => RegistrationIsOwn
  BY DEF IInv
<1> QED
  BY <1>1, Invariance, PTL

\* welcomeDone (proc.c:647-671) leads a process that began in a function to
\* the place and the stack where its parent was in fork.
THEOREM ReturnCorrect == Spec => ReturnsToFork
<1>1. ASSUME IInv, [Next]_vars
      PROVE  [\A p \in live : WelcomeDone(p) /\ birth[p] # Nowhere => tf'[p] = birth[p]]_vars
  <2>1. ASSUME NEW p \in live, WelcomeDone(p), birth[p] # Nowhere
        PROVE  tf'[p] = birth[p]
    BY <1>1, <2>1 DEF IInv, Types, WelcomeDone, DoneIsBirth
  <2> QED
    BY <2>1
<1> QED
  BY <1>1, Invariance, PTL DEF Spec, ReturnsToFork
=============================================================================
