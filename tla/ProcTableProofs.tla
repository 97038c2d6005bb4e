-------------------------- MODULE ProcTableProofs --------------------------
(***************************************************************************)
(* Proofs about ProcTable and ProcInfo.  IInv, the inductive invariant of  *)
(* the process table, ties the slot that a fork is still filling in to     *)
(* the process that forks, and says what a slot in each state owns.  LInv  *)
(* adds what the program that lists the processes has passed and printed.  *)
(***************************************************************************)
EXTENDS ProcInfo, FiniteSetTheorems, WellFoundedInduction, TLAPS

\* A non-empty set of numbers has a least element.
LEMMA LeastNatural ==
  ASSUME NEW S, S \subseteq Nat, S # {}
  PROVE  \E x \in S : \A y \in S : x <= y
<1> DEFINE R == OpToRel(<, Nat)
<1>1. IsWellFoundedOn(R, Nat)
  BY Zenon, NatLessThanWellFounded
<1>2. PICK x \in S : \A y \in S : ~(<<y, x>> \in R)
  <2> HIDE DEF R
  <2> QED BY Zenon, <1>1, WFMin
<1>3. R = {ss \in Nat \X Nat : ss[1] < ss[2]}
  BY Zenon DEF OpToRel
<1>4. ASSUME NEW y \in S PROVE x <= y
  <2> HIDE DEF R
  <2>1. y \in Nat /\ x \in Nat /\ <<y, x>> \in Nat \X Nat OBVIOUS
  <2>2. ~(y < x)
    BY <1>2, <1>3, <2>1
  <2> QED BY <2>1, <2>2
<1> QED
  BY <1>4

\* The scan of the table finds the first slot of any non-empty set.
LEMMA FirstIsIn ==
  ASSUME NEW S \in SUBSET Slots, S # {}
  PROVE  First(S) \in S /\ \A q \in S : First(S) <= q
<1>1. S \subseteq Nat
  BY ProcTableAssumption DEF Slots
<1> QED
  BY <1>1, LeastNatural DEF First

\* A bounded, non-empty set of numbers has a greatest element.
LEMMA GreatestNatural ==
  ASSUME NEW S, S \subseteq Nat, S # {}, NEW n \in Nat, \A x \in S : x <= n
  PROVE  \E x \in S : \A y \in S : x >= y
<1> DEFINE T == {k \in Nat : n - k \in S}
<1>1. T # {}
  <2>1. PICK x \in S : TRUE OBVIOUS
  <2>2. n - x \in Nat /\ n - (n - x) = x BY <2>1
  <2> QED BY <2>1, <2>2
<1>2. PICK k \in T : \A j \in T : k <= j
  <2> HIDE DEF T
  <2>1. T \subseteq Nat BY DEF T
  <2> QED BY <1>1, <2>1, LeastNatural
<1>3. ASSUME NEW y \in S PROVE n - k >= y
  <2>1. y \in Nat /\ n - y \in Nat /\ n - (n - y) = y OBVIOUS
  <2>2. n - y \in T BY <2>1
  <2>3. k <= n - y BY <2>2, <1>2
  <2> QED BY <2>1, <2>3
<1> QED
  BY <1>3

\* getMaxPid returns the pid of a slot in use, and no such slot has a greater one.
LEMMA MaxPidIs ==
  ASSUME Active # {}, pid \in [Slots -> 0 .. MaxPid]
  PROVE  /\ getMaxPid \in {pid[p] : p \in Active}
         /\ \A p \in Active : pid[p] <= getMaxPid
<1> DEFINE S == {pid[p] : p \in Active}
<1>1. S \subseteq Nat /\ S # {} /\ MaxPid \in Nat /\ \A x \in S : x <= MaxPid
  BY ProcTableAssumption DEF Active, Slots
<1>2. \E x \in S : \A y \in S : x >= y
  <2> HIDE DEF S
  <2> QED BY <1>1, GreatestNatural
<1>3. getMaxPid = CHOOSE x \in S : \A y \in S : x >= y
  BY DEF getMaxPid, F!Max
<1> QED
  BY <1>2, <1>3

-----------------------------------------------------------------------------
\* Where a fork is while it has a child that nobody else sees.
ForkPlaces == {"kalloc", "copyuvm", "publish"}

\* A fork in progress and its EMBRYO belong to each other: what the slot owns
\* and whose child it is follow the place the fork has reached.
Forks ==
  /\ \A p \in Slots :
       /\ child[p] # Null <=> kpc[p] \in ForkPlaces
       /\ child[p] # Null => state[child[p]] = "EMBRYO"
       /\ kpc[p] = "kalloc" =>
            ~kstack[child[p]] /\ ~pgdir[child[p]] /\ parent[child[p]] = Null
       /\ kpc[p] = "copyuvm" =>
            kstack[child[p]] /\ ~pgdir[child[p]] /\ parent[child[p]] = Null
       /\ kpc[p] = "publish" =>
            kstack[child[p]] /\ pgdir[child[p]] /\ parent[child[p]] = p
  /\ \A p, q \in Slots : child[p] = child[q] /\ child[p] # Null => p = q
  /\ \A p \in Slots : state[p] = "EMBRYO" => \E f \in Slots : child[f] = p

\* Only a process that runs or may run is inside the kernel; one that sleeps,
\* or was woken and has not run yet, does so in wait.
Places ==
  \A p \in Slots :
    /\ state[p] \in {"UNUSED", "EMBRYO", "ZOMBIE"} => kpc[p] = "user"
    /\ state[p] = "SLEEPING" => kpc[p] = "wait"
    /\ chan[p] # Null => kpc[p] = "wait" /\ state[p] \in {"SLEEPING", "RUNNABLE"}

\* There is something to wait for, and it has not happened yet.
MaySleep(p) ==
  /\ Children(p) # {}
  /\ \A q \in Children(p) : state[q] # "ZOMBIE"
  /\ ~killed[p]

\* Who holds the lock runs in wait, and while a process that is about to sleep
\* holds it, what its scan has seen stays so.
Locked ==
  \A p \in Slots :
    /\ lock = p => state[p] = "RUNNING" /\ kpc[p] \in {"wait", "sleep"}
    /\ kpc[p] = "sleep" => lock = p /\ MaySleep(p)

\* The slots that are not a process yet, or any more, and those that are.
Owns ==
  \A p \in Slots :
    /\ state[p] = "UNUSED" => ~kstack[p] /\ ~pgdir[p] /\ parent[p] = Null
    /\ state[p] \notin {"UNUSED", "EMBRYO"} => kstack[p] /\ pgdir[p]

\* init is always there, nobody's child, and nobody is its own child.
Tree ==
  /\ initproc \in Alive /\ parent[initproc] = Null
  /\ \A p \in Slots : parent[p] # p
  /\ ParentAlive

\* Pids are handed out in order, and only a free slot has none.
Pids ==
  /\ PidsUnique
  /\ \A p \in Slots : pid[p] < nextpid /\ (state[p] # "UNUSED" => pid[p] # 0)

IInv == TypeOK /\ Forks /\ Places /\ Locked /\ Owns /\ Tree /\ Pids /\ NoLostWait

\* The null pointer is no slot, and init has one.
LEMMA SlotFacts == Null \notin Slots /\ initproc \in Slots
BY ProcTableAssumption DEF Null, initproc, Slots

\* userinit leaves a table in which the invariant holds.
LEMMA InitInv == Init => IInv
<1> SUFFICES ASSUME Init PROVE IInv
  OBVIOUS
<1>1. 1 \in Slots
  BY ProcTableAssumption DEF Slots
<1>2. TypeOK
  <2>1. \A p \in Slots : (p = initproc) \in BOOLEAN
    OBVIOUS
  <2>2. kstack \in [Slots -> BOOLEAN]
    BY Zenon, <2>1 DEF Init
  <2>3. pgdir \in [Slots -> BOOLEAN]
    BY Zenon, <2>1 DEF Init
  <2> QED
    <3>1. killed \in [Slots -> BOOLEAN] /\ panicked \in BOOLEAN
      BY DEF Init
    <3>2. /\ state \in [Slots -> States] /\ child \in [Slots -> Slots \cup {Null}]
          /\ chan \in [Slots -> Slots \cup {Null}] /\ parent \in [Slots -> Slots \cup {Null}]
      BY DEF Init, States
    <3>3. /\ pid \in [Slots -> 0 .. MaxPid] /\ nextpid \in 2 .. MaxPid + 1
          /\ kpc \in [Slots -> {"user", "kalloc", "copyuvm", "publish", "wait", "sleep", "info"}]
      BY ProcTableAssumption DEF Init
    <3>4. lock \in Slots \cup {Null}
      BY DEF Init
    <3> QED
      BY <2>2, <2>3, <3>1, <3>2, <3>3, <3>4 DEF TypeOK
<1>3. Forks
  BY DEF Init, Forks, ForkPlaces, Null, initproc, Slots
<1>4. Places /\ Locked /\ Owns /\ NoLostWait
  <2>1. Places /\ Owns /\ NoLostWait
    BY DEF Init, Places, Owns, NoLostWait, initproc, Null
  <2>2. Locked
    BY ProcTableAssumption DEF Init, Locked, Null, Slots
  <2> QED
    BY <2>1, <2>2
<1>5. Tree
  BY <1>1 DEF Init, Tree, ParentAlive, Alive, initproc, Null, Slots
<1>6. Pids
  BY <1>1 DEF Init, Pids, PidsUnique, initproc
<1> QED
  BY <1>2, <1>3, <1>4, <1>5, <1>6 DEF IInv

\* The scheduler and the timer move a process between RUNNABLE and RUNNING.
LEMMA ScheduleInv ==
  ASSUME IInv, NEW p \in Slots, Schedule(p)
  PROVE  IInv'
<1> USE DEF IInv
<1>1. TypeOK'
  BY ProcTableAssumption DEF Schedule, memory, TypeOK, States, Slots, Null
<1>2. Forks'
  BY DEF Schedule, memory, TypeOK, Forks, Places, Owns, Tree, ForkPlaces
<1>3. Places'
  BY DEF Schedule, memory, TypeOK, Forks, Places, ForkPlaces
<1>4. Owns'
  BY DEF Schedule, memory, TypeOK, Forks, Owns, Places, ForkPlaces
<1>5. Tree'
  BY DEF Schedule, memory, TypeOK, Forks, Tree, Owns, Places, ParentAlive, Alive, ForkPlaces
<1>6. Pids'
  BY ProcTableAssumption DEF Schedule, memory, TypeOK, Pids, PidsUnique
<1>7. NoLostWait'
  BY DEF Schedule, memory, TypeOK, NoLostWait, Places, Forks, Tree, Children, Owns
<1>8. Locked'
  BY SlotFacts DEF Schedule, memory, TypeOK, Places, Locked
<1> QED
  BY <1>1, <1>2, <1>3, <1>4, <1>5, <1>6, <1>7, <1>8

\* The timer takes the CPU away, also from a process inside the kernel.
LEMMA YieldInv ==
  ASSUME IInv, NEW p \in Slots, Yield(p)
  PROVE  IInv'
<1> USE DEF IInv
<1>1. TypeOK'
  BY ProcTableAssumption DEF Yield, memory, TypeOK, States, Slots, Null
<1>2. Forks'
  BY DEF Yield, memory, TypeOK, Forks, Places, Owns, Tree, ForkPlaces
<1>3. Places'
  BY DEF Yield, memory, TypeOK, Forks, Places, ForkPlaces
<1>4. Owns'
  BY DEF Yield, memory, TypeOK, Forks, Owns, Places, ForkPlaces
<1>5. Tree'
  BY DEF Yield, memory, TypeOK, Forks, Tree, Owns, Places, ParentAlive, Alive, ForkPlaces
<1>6. Pids'
  BY ProcTableAssumption DEF Yield, memory, TypeOK, Pids, PidsUnique
<1>7. NoLostWait'
  BY DEF Yield, memory, TypeOK, NoLostWait, Places, Forks, Tree, Children, Owns
<1>8. Locked'
  BY SlotFacts DEF Yield, TypeOK, Locked
<1> QED
  BY <1>1, <1>2, <1>3, <1>4, <1>5, <1>6, <1>7, <1>8

\* The new slot gets its kernel stack, or is given back.
LEMMA ForkStackInv ==
  ASSUME IInv, NEW p \in Slots, ForkStack(p)
  PROVE  IInv'
<1> USE DEF IInv
<1>1. TypeOK'
  <2>1. kstack' \in [Slots -> BOOLEAN]
    <3>1. TRUE \in BOOLEAN
      OBVIOUS
    <3> QED
      BY Zenon, <3>1 DEF ForkStack, TypeOK
  <2>2. state' \in [Slots -> States] /\ child' \in [Slots -> Slots \cup {Null}]
    BY DEF ForkStack, GiveUp, TypeOK, States
  <2>3. kpc' \in [Slots -> {"user", "kalloc", "copyuvm", "publish", "wait", "sleep", "info"}]
    BY DEF ForkStack, GiveUp, Goto, TypeOK
  <2> QED
    BY <2>1, <2>2, <2>3 DEF ForkStack, GiveUp, TypeOK
<1>2. Forks'
  BY DEF ForkStack, At, GiveUp, Goto, TypeOK, Forks, Places, Owns, Tree, ForkPlaces
<1>3. Places'
  BY DEF ForkStack, At, GiveUp, Goto, TypeOK, Forks, Places, ForkPlaces
<1>4. Owns'
  BY DEF ForkStack, At, GiveUp, Goto, TypeOK, Forks, Owns, Places, ForkPlaces
<1>5. Tree'
  BY DEF ForkStack, At, GiveUp, Goto, TypeOK, Forks, Tree, Owns, Places, ParentAlive, Alive,
         ForkPlaces
<1>6. Pids'
  BY ProcTableAssumption DEF ForkStack, At, GiveUp, Goto, TypeOK, Pids, PidsUnique
<1>7. NoLostWait'
  BY DEF ForkStack, At, GiveUp, Goto, TypeOK, NoLostWait, Places, Forks, Tree, Children,
         Owns
<1>8. Locked'
  BY SlotFacts DEF ForkStack, At, GiveUp, Goto, TypeOK, Forks, Places, Locked, MaySleep, Children,
         ForkPlaces
<1> QED
  BY <1>1, <1>2, <1>3, <1>4, <1>5, <1>6, <1>7, <1>8

\* The new slot gets its page table and its parent, or is given back.
LEMMA ForkCopyInv ==
  ASSUME IInv, NEW p \in Slots, ForkCopy(p)
  PROVE  IInv'
<1> USE DEF IInv
<1>1. TypeOK'
  <2>1. kstack' \in [Slots -> BOOLEAN] /\ pgdir' \in [Slots -> BOOLEAN]
    <3>1. child[p] \in Slots
      BY DEF ForkCopy, At, TypeOK, Forks, ForkPlaces
    <3>2. TRUE \in BOOLEAN /\ FALSE \in BOOLEAN
      OBVIOUS
    <3> QED
      BY Zenon, <3>1, <3>2 DEF ForkCopy, GiveUp, TypeOK
  <2> QED
    BY <2>1 DEF ForkCopy, At, GiveUp, Goto, TypeOK, States
<1>2. Forks'
  <2>1. kpc[p] = "copyuvm" /\ child[p] \in Slots /\ state[p] = "RUNNING"
    BY DEF ForkCopy, At, TypeOK, Forks, ForkPlaces
  <2>2. CASE /\ pgdir' = [pgdir EXCEPT ![child[p]] = TRUE]
             /\ parent' = [parent EXCEPT ![child[p]] = p]
             /\ Goto(p, "publish")
             /\ UNCHANGED <<state, child, kstack>>
    BY <2>1, <2>2 DEF Goto, TypeOK, Forks, ForkPlaces
  <2>3. CASE /\ kstack' = [kstack EXCEPT ![child[p]] = FALSE]
             /\ GiveUp(p)
    BY <2>1, <2>3 DEF GiveUp, Goto, TypeOK, Forks, ForkPlaces
  <2> QED
    BY <2>2, <2>3 DEF ForkCopy
<1>3. Places'
  BY DEF ForkCopy, At, GiveUp, Goto, TypeOK, Forks, Places, ForkPlaces
<1>4. Owns'
  BY DEF ForkCopy, At, GiveUp, Goto, TypeOK, Forks, Owns, Places, ForkPlaces
<1>5. Tree'
  BY DEF ForkCopy, At, GiveUp, Goto, TypeOK, Forks, Tree, Owns, Places, ParentAlive, Alive,
         ForkPlaces
<1>6. Pids'
  BY ProcTableAssumption DEF ForkCopy, At, GiveUp, Goto, TypeOK, Pids, PidsUnique
<1>7. NoLostWait'
  <2> SUFFICES ASSUME NEW r \in Slots, state'[r] = "SLEEPING"
               PROVE  /\ chan'[r] = r /\ ~killed'[r]
                      /\ Children(r)' # {}
                      /\ \A q \in Children(r)' : state'[q] # "ZOMBIE"
    BY DEF NoLostWait
  <2>1. state[r] = "SLEEPING" /\ r # p /\ r # Null
    BY SlotFacts DEF ForkCopy, At, GiveUp, TypeOK
  <2>2. child[p] \in Slots /\ parent[child[p]] = Null /\ state[child[p]] = "EMBRYO"
    BY DEF ForkCopy, At, TypeOK, Forks, ForkPlaces
  <2>3. Children(r)' = Children(r)
    BY <2>1, <2>2 DEF Children, ForkCopy, GiveUp, TypeOK
  <2> QED
    BY <2>1, <2>2, <2>3 DEF ForkCopy, GiveUp, TypeOK, NoLostWait, Children
<1>8. Locked'
  <2> SUFFICES ASSUME NEW r \in Slots
               PROVE  /\ lock' = r => state'[r] = "RUNNING" /\ kpc'[r] \in {"wait", "sleep"}
                      /\ kpc'[r] = "sleep" => lock' = r /\ MaySleep(r)'
    BY DEF Locked
  <2>1. /\ child[p] \in Slots /\ parent[child[p]] = Null /\ state[child[p]] = "EMBRYO"
        /\ kpc[p] = "copyuvm" /\ r # Null
    BY SlotFacts DEF ForkCopy, At, TypeOK, Forks, ForkPlaces
  <2>2. kpc'[r] = "sleep" => kpc[r] = "sleep" /\ r # p
    BY <2>1 DEF ForkCopy, GiveUp, Goto, TypeOK
  <2>3. r # p => Children(r)' = Children(r)
    BY <2>1 DEF Children, ForkCopy, GiveUp, TypeOK
  <2> QED
    BY <2>1, <2>2, <2>3 DEF ForkCopy, At, GiveUp, Goto, TypeOK, Locked, MaySleep, Children
<1> QED
  BY <1>1, <1>2, <1>3, <1>4, <1>5, <1>6, <1>7, <1>8

\* The new slot becomes a process with a live parent.
LEMMA ForkPublishInv ==
  ASSUME IInv, NEW p \in Slots, ForkPublish(p)
  PROVE  IInv'
<1> USE DEF IInv
<1>1. TypeOK'
  BY ProcTableAssumption DEF ForkPublish, At, memory, TypeOK, States, Slots, Null
<1>2. Forks'
  BY DEF ForkPublish, At, memory, TypeOK, Forks, Places, Owns, Tree, ForkPlaces
<1>3. Places'
  BY DEF ForkPublish, At, memory, TypeOK, Forks, Places, ForkPlaces
<1>4. Owns'
  BY DEF ForkPublish, At, memory, TypeOK, Forks, Owns, Places, ForkPlaces
<1>5. Tree'
  BY DEF ForkPublish, At, memory, TypeOK, Forks, Tree, Owns, Places, ParentAlive, Alive,
         ForkPlaces
<1>6. Pids'
  BY ProcTableAssumption DEF ForkPublish, At, memory, TypeOK, Forks, ForkPlaces, Pids,
         PidsUnique
<1>7. NoLostWait'
  BY DEF ForkPublish, At, memory, TypeOK, NoLostWait, Places, Forks, Tree, Children, Owns
<1>8. Locked'
  BY SlotFacts DEF ForkPublish, At, TypeOK, Forks, ForkPlaces, Locked
<1> QED
  BY <1>1, <1>2, <1>3, <1>4, <1>5, <1>6, <1>7, <1>8

\* allocproc takes a free slot, so nobody else is filling it in, and a new pid.
LEMMA ForkAllocInv ==
  ASSUME IInv, NEW p \in Slots, ForkAlloc(p)
  PROVE  IInv'
<1> USE DEF IInv
<1>a. PICK np \in Slots :
        /\ state[np] = "UNUSED"
        /\ state' = [state EXCEPT ![np] = "EMBRYO"]
        /\ pid' = [pid EXCEPT ![np] = nextpid]
        /\ child' = [child EXCEPT ![p] = np]
  <2> DEFINE free == {q \in Slots : state[q] = "UNUSED"}
  <2>1. First(free) \in free
    BY FirstIsIn DEF ForkAlloc
  <2> QED
    BY <2>1 DEF ForkAlloc
<1>b. /\ state[p] = "RUNNING" /\ kpc[p] = "user" /\ nextpid <= MaxPid
      /\ nextpid' = nextpid + 1 /\ kpc' = [kpc EXCEPT ![p] = "kalloc"]
      /\ UNCHANGED <<parent, chan, killed, kstack, pgdir, panicked, lock>> /\ lock = Null
  BY DEF ForkAlloc, InUser, At, Goto, memory
<1>1. TypeOK'
  BY <1>a, <1>b, SlotFacts, ProcTableAssumption DEF TypeOK, States
<1>2. Forks'
  BY <1>a, <1>b, SlotFacts DEF TypeOK, Forks, Places, Owns, Tree, ForkPlaces
<1>3. Places'
  BY <1>a, <1>b, SlotFacts DEF TypeOK, Forks, Places, ForkPlaces
<1>4. Owns'
  BY <1>a, <1>b, SlotFacts DEF TypeOK, Forks, Owns, Places, ForkPlaces
<1>5. Tree'
  BY <1>a, <1>b, SlotFacts DEF TypeOK, Forks, Tree, Owns, Places, ParentAlive, Alive,
         ForkPlaces
<1>6. Pids'
  BY <1>a, <1>b, SlotFacts, ProcTableAssumption DEF TypeOK, Pids, PidsUnique
<1>7. NoLostWait'
  BY <1>a, <1>b, SlotFacts DEF TypeOK, NoLostWait, Places, Forks, Tree, Children, Owns
<1>8. Locked'
  BY <1>a, <1>b, SlotFacts DEF TypeOK, Locked
<1> QED
  BY <1>1, <1>2, <1>3, <1>4, <1>5, <1>6, <1>7, <1>8


\* A process enters wait.
LEMMA WaitInv ==
  ASSUME IInv, NEW p \in Slots, Wait(p)
  PROVE  IInv'
<1> USE DEF IInv
<1>1. TypeOK'
  BY SlotFacts, ProcTableAssumption DEF Wait, InUser, At, Goto, table, memory, TypeOK,
         States
<1>2. Forks'
  BY SlotFacts DEF Wait, InUser, At, Goto, table, memory, TypeOK, Forks, Places, Owns, Tree,
         ForkPlaces
<1>3. Places'
  BY SlotFacts DEF Wait, InUser, At, Goto, table, memory, TypeOK, Forks, Places, ForkPlaces
<1>4. Owns'
  BY SlotFacts DEF Wait, InUser, At, Goto, table, memory, TypeOK, Forks, Owns, Places,
         ForkPlaces
<1>5. Tree'
  BY SlotFacts DEF Wait, InUser, At, Goto, table, memory, TypeOK, Forks, Tree, Owns, Places,
         ParentAlive, Alive, ForkPlaces
<1>6. Pids'
  BY SlotFacts, ProcTableAssumption DEF Wait, InUser, At, Goto, table, memory, TypeOK, Pids,
         PidsUnique
<1>7. NoLostWait'
  BY SlotFacts DEF Wait, InUser, At, Goto, table, memory, TypeOK, NoLostWait, Places, Forks,
         Tree, Children, Owns
<1>8. Locked'
  BY SlotFacts DEF Wait, InUser, At, Goto, table, TypeOK, Locked, MaySleep, Children
<1> QED
  BY <1>1, <1>2, <1>3, <1>4, <1>5, <1>6, <1>7, <1>8


\* kill wakes its target, so that no killed process sleeps.
LEMMA KillInv ==
  ASSUME IInv, NEW p \in Slots, NEW n \in 0 .. MaxPid, Kill(p, n)
  PROVE  IInv'
<1> USE DEF IInv
<1>a. PICK q \in Slots :
        /\ killed' = [killed EXCEPT ![q] = TRUE]
        /\ state' = [state EXCEPT ![q] = IF @ = "SLEEPING" THEN "RUNNABLE" ELSE @]
  <2> DEFINE found == {q \in Slots : pid[q] = n}
  <2>1. First(found) \in found
    BY FirstIsIn DEF Kill
  <2> QED
    BY <2>1 DEF Kill
<1>b. /\ UNCHANGED <<pid, parent, chan, kstack, pgdir, nextpid, kpc, child, panicked, lock>>
      /\ lock = Null
  BY DEF Kill, memory
<1>1. TypeOK'
  BY <1>a, <1>b, SlotFacts, ProcTableAssumption DEF TypeOK, States
<1>2. Forks'
  BY <1>a, <1>b, SlotFacts DEF TypeOK, Forks, Places, Owns, Tree, ForkPlaces
<1>3. Places'
  BY <1>a, <1>b, SlotFacts DEF TypeOK, Forks, Places, ForkPlaces
<1>4. Owns'
  BY <1>a, <1>b, SlotFacts DEF TypeOK, Forks, Owns, Places, ForkPlaces
<1>5. Tree'
  BY <1>a, <1>b, SlotFacts DEF TypeOK, Forks, Tree, Owns, Places, ParentAlive, Alive,
         ForkPlaces
<1>6. Pids'
  BY <1>a, <1>b, SlotFacts, ProcTableAssumption DEF TypeOK, Pids, PidsUnique
<1>7. NoLostWait'
  BY <1>a, <1>b, SlotFacts DEF TypeOK, NoLostWait, Places, Forks, Tree, Children, Owns
<1>8. Locked'
  BY <1>a, <1>b, SlotFacts DEF TypeOK, Locked
<1> QED
  BY <1>1, <1>2, <1>3, <1>4, <1>5, <1>6, <1>7, <1>8


\* wait frees the slot of a zombie, which nobody refers to.
LEMMA ReapInv ==
  ASSUME IInv, NEW p \in Slots, NEW q \in Slots, state[q] = "ZOMBIE", parent[q] = p,
         At(p, "wait"), Reap(p, q),
         lock \in {Null, p}, lock' = Null, UNCHANGED <<nextpid, child, panicked>>
  PROVE  IInv'
<1> USE DEF IInv
<1>1. TypeOK'
  BY SlotFacts, ProcTableAssumption DEF At, Reap, Goto, TypeOK, States
<1>2. Forks'
  BY SlotFacts DEF At, Reap, Goto, TypeOK, Forks, Places, Owns, Tree, ForkPlaces
<1>3. Places'
  BY SlotFacts DEF At, Reap, Goto, TypeOK, Forks, Places, ForkPlaces
<1>4. Owns'
  BY SlotFacts DEF At, Reap, Goto, TypeOK, Forks, Owns, Places, ForkPlaces
<1>5. Tree'
  BY SlotFacts DEF At, Reap, Goto, TypeOK, Forks, Tree, Owns, Places, ParentAlive, Alive,
         ForkPlaces
<1>6. Pids'
  BY SlotFacts, ProcTableAssumption DEF At, Reap, Goto, TypeOK, Pids, PidsUnique
<1>7. NoLostWait'
  BY SlotFacts DEF At, Reap, Goto, TypeOK, NoLostWait, Places, Forks, Tree, Children, Owns
<1>8. Locked'
  BY SlotFacts DEF At, Reap, Goto, TypeOK, Locked
<1> QED
  BY <1>1, <1>2, <1>3, <1>4, <1>5, <1>6, <1>7, <1>8


\* exit wakes the parent and hands the children to init, which it wakes for zombies.
LEMMA ExitInv ==
  ASSUME IInv, NEW p \in Slots, Exit(p)
  PROVE  IInv'
<1> USE DEF IInv
<1>1. TypeOK'
  BY SlotFacts, ProcTableAssumption DEF Exit, At, wakeup1, Children, memory, TypeOK, States
<1>2. Forks'
  BY SlotFacts DEF Exit, At, wakeup1, Children, memory, TypeOK, Forks, Places, Owns, Tree,
         ForkPlaces
<1>3. Places'
  BY SlotFacts DEF Exit, At, wakeup1, Children, memory, TypeOK, Forks, Places, ForkPlaces
<1>4. Owns'
  BY SlotFacts DEF Exit, At, wakeup1, Children, memory, TypeOK, Forks, Owns, Places,
         ForkPlaces
<1>5. Tree'
  <2>1. /\ p # initproc /\ state[p] = "RUNNING" /\ state'[p] = "ZOMBIE"
        /\ \A q \in Slots \ {p} : \/ state'[q] = state[q]
                                  \/ state[q] = "SLEEPING" /\ state'[q] = "RUNNABLE"
        /\ \A q \in Slots : parent'[q] = IF parent[q] = p THEN initproc ELSE parent[q]
    BY DEF Exit, At, wakeup1, Children, TypeOK
  <2>2. initproc \in Alive' /\ parent'[initproc] = Null /\ \A q \in Slots : parent'[q] # q
    BY <2>1, SlotFacts DEF Tree, Alive
  <2>3. ASSUME NEW q \in Slots \ {initproc}, state'[q] \notin {"UNUSED", "EMBRYO"}
        PROVE  parent'[q] \in Alive'
    <3>1. parent[q] \in Alive
      BY <2>1, <2>3 DEF Tree, ParentAlive
    <3> QED
      BY <2>1, <2>2, <3>1 DEF Alive
  <2> QED
    BY <2>2, <2>3 DEF Tree, ParentAlive
<1>6. Pids'
  BY SlotFacts, ProcTableAssumption DEF Exit, At, wakeup1, Children, memory, TypeOK, Pids,
         PidsUnique
<1>7. NoLostWait'
  BY SlotFacts DEF Exit, At, wakeup1, Children, memory, TypeOK, NoLostWait, Places, Forks,
         Tree, Owns
<1>8. Locked'
  BY SlotFacts DEF Exit, At, TypeOK, Locked
<1> QED
  BY <1>1, <1>2, <1>3, <1>4, <1>5, <1>6, <1>7, <1>8

\* A step that only moves a process between user mode and a scan of the table.
LEMMA MoveInv ==
  ASSUME IInv, NEW p \in Slots, state[p] = "RUNNING",
         kpc[p] \in {"user", "wait", "info"}, NEW x \in {"user", "wait", "info"},
         Goto(p, x), lock \in {Null, p}, lock' = Null,
         UNCHANGED <<table, memory, nextpid, child, panicked>>
  PROVE  IInv'
<1> USE DEF IInv, table, memory, Goto
<1>1. TypeOK'
  BY DEF TypeOK
<1>2. Forks' /\ Places' /\ Owns'
  BY DEF TypeOK, Forks, Places, Owns, ForkPlaces
<1>3. Tree' /\ Pids' /\ NoLostWait'
  BY DEF TypeOK, Tree, Pids, PidsUnique, NoLostWait, ParentAlive, Alive, Children
<1>4. Locked'
  BY SlotFacts DEF TypeOK, Locked
<1> QED
  BY <1>1, <1>2, <1>3, <1>4

\* The scan of wait has seen that it may sleep, and keeps the lock.
LEMMA KeepInv ==
  ASSUME IInv, NEW p \in Slots, At(p, "wait"), MaySleep(p),
         Goto(p, "sleep"), lock \in {Null, p}, lock' = p,
         UNCHANGED <<table, memory, nextpid, child, panicked>>
  PROVE  IInv'
<1> USE DEF IInv, At, table, memory, Goto
<1>1. TypeOK'
  BY DEF TypeOK
<1>2. Forks' /\ Places' /\ Owns'
  BY DEF TypeOK, Forks, Places, Owns, ForkPlaces
<1>3. Tree' /\ Pids' /\ NoLostWait'
  BY DEF TypeOK, Tree, Pids, PidsUnique, NoLostWait, ParentAlive, Alive, Children
<1>4. Locked'
  BY SlotFacts DEF TypeOK, Locked, MaySleep, Children
<1> QED
  BY <1>1, <1>2, <1>3, <1>4

\* One scan of wait: reap, return, or keep the lock.
LEMMA WaitScanInv ==
  ASSUME IInv, NEW p \in Slots, WaitScan(p)
  PROVE  IInv'
<1> DEFINE zombies == {q \in Children(p) : state[q] = "ZOMBIE"}
<1>1. CASE zombies # {} /\ Reap(p, First(zombies)) /\ lock' = Null
  <2>1. First(zombies) \in zombies
    BY <1>1, FirstIsIn DEF Children
  <2> QED
    BY <1>1, <2>1, ReapInv DEF WaitScan, Children
<1>2. CASE Goto(p, "user") /\ lock' = Null /\ UNCHANGED <<table, memory>>
  BY <1>2, MoveInv DEF WaitScan, At
<1>3. CASE /\ zombies = {} /\ Children(p) # {} /\ ~killed[p]
           /\ Goto(p, "sleep") /\ lock' = p /\ UNCHANGED <<table, memory>>
  <2>1. MaySleep(p)
    BY <1>3 DEF MaySleep
  <2> QED
    BY <1>3, <2>1, KeepInv DEF WaitScan
<1> QED
  BY <1>1, <1>2, <1>3 DEF WaitScan

\* wait goes to sleep: what its scan has seen is still so.
LEMMA WaitSleepInv ==
  ASSUME IInv, NEW p \in Slots, WaitSleep(p)
  PROVE  IInv'
<1> USE DEF IInv, WaitSleep, At, sleep, Goto, memory
<1>0. MaySleep(p) /\ lock = p
  BY DEF Locked
<1>1. TypeOK'
  BY SlotFacts DEF TypeOK, States
<1>2. Forks' /\ Places' /\ Owns'
  BY SlotFacts DEF TypeOK, Forks, Places, Owns, ForkPlaces
<1>3. Tree'
  BY SlotFacts DEF TypeOK, Tree, ParentAlive, Alive
<1>4. Pids'
  BY DEF TypeOK, Pids, PidsUnique
<1>5. NoLostWait'
  BY <1>0 DEF TypeOK, NoLostWait, MaySleep, Children
<1>6. Locked'
  BY <1>0, SlotFacts DEF TypeOK, Locked
<1> QED
  BY <1>1, <1>2, <1>3, <1>4, <1>5, <1>6

\* The invariant mentions nothing that a panic, or nothing at all, changes.
LEMMA SameInv ==
  ASSUME IInv, UNCHANGED <<table, memory, nextpid, kpc, child, lock>>, panicked' \in BOOLEAN
  PROVE  IInv'
BY DEF IInv, table, memory, TypeOK, Forks, Places, Locked, MaySleep, Owns, Tree, ParentAlive,
   Alive, Pids, PidsUnique, NoLostWait, Children

\* Every step of ProcTable preserves the invariant.
LEMMA NextInv ==
  ASSUME IInv, [Next]_vars
  PROVE  IInv'
<1>1. ASSUME NEW p \in Slots, Syscall(p)
      PROVE  IInv'
  BY <1>1, ForkAllocInv, WaitInv, KillInv DEF Syscall, sys_fork, sys_wait, sys_kill
<1>2. ASSUME NEW p \in Slots,
             Schedule(p) \/ Yield(p) \/ ForkStep(p) \/ WaitStep(p) \/ Exit(p)
      PROVE  IInv'
  BY <1>2, ScheduleInv, YieldInv, ForkStackInv, ForkCopyInv, ForkPublishInv, WaitScanInv,
     WaitSleepInv, ExitInv DEF ForkStep, WaitStep
<1>3. CASE ExitInit
  BY <1>3, SameInv DEF ExitInit
<1>4. CASE UNCHANGED vars
  BY <1>4, SameInv DEF vars, IInv, TypeOK
<1> QED
  BY <1>1, <1>2, <1>3, <1>4 DEF Next, Halted

\* The inductive invariant of the process table holds in every reachable state.
THEOREM Invariance == Spec => []IInv
BY InitInv, NextInv, PTL DEF Spec

\* Every field of every slot keeps its type.
THEOREM TypeCorrect == Spec => []TypeOK
BY Invariance, PTL DEF IInv

\* What the invariant means for the properties that the runs check.
LEMMA IInvImplies ==
  ASSUME IInv
  PROVE  PidsUnique /\ ParentAlive /\ NoLostWait /\ MemoryOwned
<1>1. PidsUnique /\ ParentAlive /\ NoLostWait
  BY DEF IInv, Pids, Tree
<1>2. ASSUME NEW p \in Slots
      PROVE  CASE state[p] = "UNUSED" -> ~kstack[p] /\ ~pgdir[p]
               [] state[p] = "EMBRYO" -> (pgdir[p] => kstack[p]) /\ \E f \in Slots : child[f] = p
               [] OTHER -> kstack[p] /\ pgdir[p]
  <2>1. CASE state[p] = "EMBRYO"
    <3>1. PICK f \in Slots : child[f] = p
      BY <2>1 DEF IInv, Forks
    <3>2. kpc[f] \in ForkPlaces
      BY <3>1, SlotFacts DEF IInv, Forks
    <3> QED
      BY <2>1, <3>1, <3>2 DEF IInv, Forks, ForkPlaces
  <2>2. CASE state[p] # "EMBRYO"
    BY <2>2 DEF IInv, Owns
  <2> QED
    BY <2>1, <2>2
<1> QED
  BY <1>1, <1>2 DEF MemoryOwned

\* allocproc never hands out a pid that a slot still carries (proc.c:98-100).
THEOREM PidsDiffer == Spec => []PidsUnique
BY Invariance, IInvImplies, PTL

\* exit leaves no child without a live parent (proc.c:264-274).
THEOREM ParentsLive == Spec => []ParentAlive
BY Invariance, IInvImplies, PTL

\* No process sleeps in wait when its child has exited or it was killed.
THEOREM WaitNotLost == Spec => []NoLostWait
BY Invariance, IInvImplies, PTL

\* A slot owns its stack and page table exactly while it is a process.
THEOREM MemoryFollows == Spec => []MemoryOwned
BY Invariance, IInvImplies, PTL

-----------------------------------------------------------------------------
\* Where the listing is: it never asks for a pid that was not handed out.
ListingPlace ==
  /\ lister \in Slots \cup {Null} /\ (lister = Null <=> step = "none")
  /\ step \in {"none", "loop", "range", "scan", "end"}
  /\ i \in 1 .. nextpid
  /\ step \in {"range", "scan"} => i < nextpid
  /\ lister = Null => i = 1 /\ printed = {} /\ total = 0 /\ born = 0

\* Every process, and every line, is one of those that were counted or has
\* been created since.
Since == born .. nextpid - 1

Accounted ==
  lister # Null =>
    /\ total \in Nat /\ born \in 2 .. nextpid
    /\ \E counted \in SUBSET (0 .. MaxPid) :
         /\ Cardinality(counted) <= total
         /\ printed \subseteq counted \cup Since
         /\ \A q \in Active : pid[q] \in counted \cup Since

LInv == IInv /\ ListingPlace /\ ListingComplete /\ Accounted

\* The invariant holds before the program starts.
LEMMA ListingInit == InitListing => LInv
<1>1. InitListing => IInv /\ ListingPlace /\ Accounted
  BY InitInv, SlotFacts DEF InitListing, ListingPlace, Accounted, Init
<1>2. InitListing => ListingComplete
  <2> SUFFICES ASSUME InitListing, NEW q \in Active PROVE ~(pid[q] < i)
    BY DEF ListingComplete
  <2>1. q = initproc /\ pid[q] = 1 /\ i = 1
    BY DEF InitListing, Init, Active
  <2> QED
    BY <2>1
<1> QED
  BY <1>1, <1>2 DEF LInv

\* A slot in use was in use before, or gets the next pid; nextpid only grows.
LEMMA PidsGrow ==
  ASSUME IInv, [Next]_vars
  PROVE  /\ nextpid <= nextpid' /\ nextpid' <= MaxPid + 1
         /\ \A q \in Slots : state'[q] # "UNUSED" =>
              \/ state[q] # "UNUSED" /\ pid'[q] = pid[q]
              \/ pid'[q] = nextpid /\ nextpid' = nextpid + 1
<1> USE DEF IInv, TypeOK
<1>0. nextpid \in Nat /\ nextpid <= MaxPid + 1 /\ MaxPid \in Nat
  BY ProcTableAssumption
<1>1. ASSUME NEW p \in Slots, ForkAlloc(p)
      PROVE  /\ nextpid' = nextpid + 1 /\ nextpid <= MaxPid
             /\ \E np \in Slots : /\ state' = [state EXCEPT ![np] = "EMBRYO"]
                                  /\ pid' = [pid EXCEPT ![np] = nextpid]
  <2> DEFINE free == {q \in Slots : state[q] = "UNUSED"}
  <2>1. First(free) \in free
    BY <1>1, FirstIsIn DEF ForkAlloc
  <2> QED
    BY <1>1, <2>1 DEF ForkAlloc
<1>2. ASSUME NEW p \in Slots,
             \/ Schedule(p) \/ Yield(p) \/ Wait(p) \/ Exit(p)
             \/ ForkPublish(p) \/ ForkStack(p) \/ ForkCopy(p)
      PROVE  /\ pid' = pid /\ nextpid' = nextpid
             /\ \A q \in Slots : state'[q] # "UNUSED" => state[q] # "UNUSED"
  <2>1. CASE Schedule(p) \/ Yield(p) \/ Wait(p)
    BY <2>1 DEF Schedule, Yield, Wait, table
  <2>2. CASE Exit(p)
    BY <2>2 DEF Exit, At, wakeup1
  <2>3. CASE ForkPublish(p) \/ ForkStack(p) \/ ForkCopy(p)
    BY <2>3, SlotFacts
    DEF ForkPublish, ForkStack, ForkCopy, GiveUp, At, Forks, ForkPlaces
  <2> QED
    BY <1>2, <2>1, <2>2, <2>3
<1>3. ASSUME NEW p \in Slots, WaitStep(p)
      PROVE  /\ nextpid' = nextpid
             /\ \A q \in Slots : state'[q] # "UNUSED" =>
                  state[q] # "UNUSED" /\ pid'[q] = pid[q]
  BY <1>3 DEF WaitStep, WaitScan, WaitSleep, Reap, sleep, At, Goto, table
<1>4. ASSUME NEW p \in Slots, NEW n \in 0 .. MaxPid, Kill(p, n)
      PROVE  /\ pid' = pid /\ nextpid' = nextpid
             /\ \A q \in Slots : state'[q] # "UNUSED" => state[q] # "UNUSED"
  BY <1>4 DEF Kill
<1>5. CASE ExitInit \/ UNCHANGED vars
  BY <1>0, <1>5 DEF ExitInit, vars, table
<1> HIDE DEF IInv, TypeOK
<1>6. CASE \E p \in Slots : ForkAlloc(p)
  BY <1>0, <1>1, <1>6 DEF IInv, TypeOK
<1>7. CASE ~ \E p \in Slots : ForkAlloc(p)
  BY <1>0, <1>2, <1>3, <1>4, <1>5, <1>7
  DEF Next, Halted, Syscall, sys_fork, sys_wait, sys_kill, ForkStep
<1> QED
  BY <1>6, <1>7

\* More pids have been handed out when nextpid is greater.
LEMMA IntervalGrows ==
  ASSUME NEW a \in Nat, NEW b \in Nat, NEW c \in Nat, b <= c
  PROVE  a .. b - 1 \subseteq a .. c - 1
OBVIOUS

\* Whatever the others do, every process they leave in the table was accounted for
\* or is new, and the loop has not reached a new one.
LEMMA OthersInv ==
  ASSUME LInv, [Next]_vars, UNCHANGED listing
  PROVE  LInv'
<1> USE DEF LInv, listing, count
<1>1. IInv'
  BY NextInv
<1>2. /\ nextpid \in Nat /\ nextpid' \in Nat /\ nextpid <= nextpid'
      /\ \A q \in Slots : state'[q] # "UNUSED" =>
           \/ state[q] # "UNUSED" /\ pid'[q] = pid[q]
           \/ pid'[q] = nextpid /\ nextpid' = nextpid + 1
  BY PidsGrow, <1>1, ProcTableAssumption DEF IInv, TypeOK
<1>3. ListingPlace'
  BY <1>2 DEF ListingPlace
<1>4. ListingComplete'
  BY <1>2 DEF ListingComplete, ListingPlace, Active
<1>5. Accounted'
  <2> SUFFICES ASSUME lister # Null
               PROVE  /\ total \in Nat /\ born \in 2 .. nextpid'
                      /\ \E counted \in SUBSET (0 .. MaxPid) :
                           /\ Cardinality(counted) <= total
                           /\ printed \subseteq counted \cup Since'
                           /\ \A q \in Active' : pid'[q] \in counted \cup Since'
    BY DEF Accounted
  <2>1. PICK counted \in SUBSET (0 .. MaxPid) :
          /\ Cardinality(counted) <= total
          /\ printed \subseteq counted \cup Since
          /\ \A q \in Active : pid[q] \in counted \cup Since
    BY DEF Accounted
  <2>2. total \in Nat /\ born \in 2 .. nextpid /\ born' = born
    BY DEF Accounted
  <2>3. Since \subseteq Since' /\ (nextpid' = nextpid + 1 => nextpid \in Since')
    <3>1. /\ nextpid \in Nat /\ nextpid' \in Nat /\ nextpid <= nextpid'
          /\ born \in Nat /\ born <= nextpid
      BY <1>2, <2>2
    <3> HIDE DEF LInv, listing, count
    <3>2. Since = born .. nextpid - 1 /\ Since' = born .. nextpid' - 1
      BY <2>2 DEF Since
    <3>3. Since \subseteq Since'
      BY <3>1, <3>2, IntervalGrows
    <3>4. nextpid' = nextpid + 1 => nextpid \in Since'
      BY <3>1, <3>2
    <3> QED
      BY <3>3, <3>4
  <2>4. printed \subseteq counted \cup Since'
    BY <2>1, <2>3
  <2>5. \A q \in Active' : pid'[q] \in counted \cup Since'
    BY <2>1, <2>3, <1>2 DEF Active
  <2> QED
    BY <1>2, <2>1, <2>2, <2>4, <2>5
<1> QED
  BY <1>1, <1>3, <1>4, <1>5

\* getMaxPid is the pid of a process, so it has been handed out.
LEMMA MaxPidHandedOut ==
  ASSUME IInv
  PROVE  /\ getMaxPid \in Nat /\ getMaxPid < nextpid
         /\ \A q \in Active : pid[q] <= getMaxPid
<1>1. Active # {}
  BY SlotFacts DEF IInv, Tree, Alive, Active
<1>2. PICK q \in Active : getMaxPid = pid[q]
  BY <1>1, MaxPidIs DEF IInv, TypeOK
<1> QED
  BY <1>1, <1>2, MaxPidIs, ProcTableAssumption DEF IInv, TypeOK, Pids, Active

\* The processes are counted, and no two pids belong to one process.
LEMMA BeginInv ==
  ASSUME LInv, NEW p \in Slots, Begin(p)
  PROVE  LInv'
<1> USE DEF LInv
<1>0. vars' = vars /\ lister' = p /\ step' = "loop" /\ i' = i /\ printed' = printed
      /\ lister = Null /\ total' = getNumProc /\ born' = nextpid
  BY DEF Begin
<1>1. IInv'
  BY <1>0, NextInv
<1>2. p # Null /\ nextpid \in Nat /\ 2 <= nextpid
  BY SlotFacts DEF IInv, TypeOK
<1>3. ListingPlace'
  BY <1>0, <1>2 DEF ListingPlace, vars
<1>4. ListingComplete'
  BY <1>0 DEF ListingComplete, Active, vars, table
<1>5. Accounted'
  <2> DEFINE counted == {pid[q] : q \in Active}
             f == [q \in Active |-> pid[q]]
  <2>1. IsFiniteSet(Slots)
    BY FS_Interval, ProcTableAssumption DEF Slots
  <2>2. IsFiniteSet(Active) /\ Cardinality(Active) \in Nat
    BY <2>1, FS_Subset, FS_CardinalityType DEF Active
  <2>3. f \in Surjection(Active, counted)
    BY DEF Surjection
  <2>4. Cardinality(counted) <= Cardinality(Active)
    <3> HIDE DEF counted, f
    <3> QED
      BY <2>2, <2>3, FS_Surjection
  <2>5. counted \in SUBSET (0 .. MaxPid)
    BY DEF IInv, TypeOK, Active
  <2>6. printed' = {}
    BY <1>0 DEF ListingPlace
  <2>7. \A q \in Active' : pid'[q] \in counted
    BY <1>0 DEF Active, vars, table
  <2> HIDE DEF counted
  <2> QED
    BY <1>0, <1>2, <2>2, <2>4, <2>5, <2>6, <2>7 DEF Accounted, getNumProc, vars
<1> QED
  BY <1>1, <1>3, <1>4, <1>5

\* The loop goes on only up to a pid that has been handed out.
LEMMA LoopTestInv ==
  ASSUME LInv, LoopTest
  PROVE  LInv'
<1> USE DEF LInv
<1>0. vars' = vars /\ lister' = lister /\ i' = i /\ printed' = printed
      /\ total' = total /\ born' = born /\ step = "loop"
      /\ step' = IF i <= getMaxPid THEN "range" ELSE "end"
  BY DEF LoopTest, count
<1>1. IInv'
  BY <1>0, NextInv
<1>2. ListingPlace'
  BY <1>0, MaxPidHandedOut DEF ListingPlace, vars, IInv, TypeOK
<1>3. ListingComplete' /\ Accounted'
  BY <1>0 DEF ListingComplete, Accounted, Active, Since, vars, table
<1> QED
  BY <1>1, <1>2, <1>3

\* getProcInfo refuses only pids that no process has.
LEMMA InfoRangeInv ==
  ASSUME LInv, InfoRange
  PROVE  LInv'
<1> USE DEF LInv
<1>0. /\ step = "range" /\ lister \in Slots /\ lister # Null /\ i \in Nat
      /\ i + 1 <= nextpid /\ nextpid \in Nat
      /\ state[lister] = "RUNNING" /\ kpc[lister] = "user" /\ lock = Null
  BY SlotFacts DEF InfoRange, InUser, At, ListingPlace, IInv, TypeOK
<1>a. lister' = lister /\ printed' = printed /\ total' = total /\ born' = born
  BY DEF InfoRange, count
<1>1. CASE i > getMaxPid /\ step' = "loop" /\ i' = i + 1 /\ UNCHANGED vars
  <2>1. IInv'
    BY <1>1, NextInv
  <2>2. ListingPlace'
    BY <1>0, <1>a, <1>1 DEF ListingPlace, vars
  <2>3. \A q \in Active : pid[q] \in Nat /\ pid[q] < i
    BY <1>0, <1>1, MaxPidHandedOut DEF IInv, TypeOK, Active
  <2>4. ListingComplete' /\ Accounted'
    BY <1>a, <1>1, <2>3 DEF ListingComplete, Accounted, Active, Since, vars, table
  <2> QED
    BY <2>1, <2>2, <2>4
<1>2. CASE /\ i <= getMaxPid /\ step' = "scan" /\ Goto(lister, "info")
           /\ UNCHANGED <<table, memory, nextpid, child, panicked, lock, i>>
  <2>1. IInv'
    BY <1>0, <1>2, MoveInv
  <2>2. ListingPlace'
    BY <1>0, <1>a, <1>2 DEF ListingPlace
  <2>3. ListingComplete' /\ Accounted'
    BY <1>a, <1>2 DEF ListingComplete, Accounted, Active, Since, table
  <2> QED
    BY <2>1, <2>2, <2>3
<1> QED
  BY <1>1, <1>2 DEF InfoRange

\* getProcInfo finds the process that has the pid.
LEMMA InfoScanInv ==
  ASSUME LInv, InfoScan
  PROVE  LInv'
<1> USE DEF LInv
<1>0. /\ step = "scan" /\ lister \in Slots /\ lister # Null /\ i \in Nat
      /\ i + 1 <= nextpid /\ nextpid \in Nat
      /\ state[lister] = "RUNNING" /\ kpc[lister] = "info"
  BY SlotFacts DEF InfoScan, At, ListingPlace, IInv, TypeOK
<1>a. /\ lister' = lister /\ total' = total /\ born' = born
      /\ step' = "loop" /\ i' = i + 1 /\ Goto(lister, "user")
      /\ lock = Null /\ UNCHANGED <<table, memory, nextpid, child, panicked, lock>>
      /\ printed' = IF \E q \in Active : pid[q] = i THEN printed \cup {i} ELSE printed
  BY DEF InfoScan, count
<1>b. Active' = Active /\ pid' = pid /\ Since' = Since
  BY <1>a DEF Active, Since, table
<1>1. IInv'
  BY <1>0, <1>a, MoveInv
<1>2. ListingPlace'
  BY <1>0, <1>a DEF ListingPlace
<1>3. ListingComplete'
  <2> SUFFICES ASSUME NEW q \in Active, pid[q] < i + 1 PROVE pid[q] \in printed'
    BY <1>a, <1>b DEF ListingComplete
  <2>1. pid[q] \in Nat
    BY DEF IInv, TypeOK, Active
  <2>2. CASE pid[q] = i
    BY <1>a, <2>2
  <2>3. CASE pid[q] < i
    BY <1>a, <2>3 DEF ListingComplete
  <2> QED
    BY <1>0, <2>1, <2>2, <2>3
<1>4. Accounted'
  BY <1>0, <1>a, <1>b DEF Accounted
<1> QED
  BY <1>1, <1>2, <1>3, <1>4

\* The program exits and its variables are gone.
LEMMA ListerExitInv ==
  ASSUME LInv, ListerExit
  PROVE  LInv'
<1> USE DEF LInv
<1>1. lister \in Slots /\ Exit(lister)
  BY DEF ListerExit, ListingPlace
<1>2. IInv'
  BY <1>1, ExitInv
<1>3. nextpid' = nextpid /\ nextpid' \in 2 .. MaxPid + 1
  BY <1>1, <1>2 DEF Exit, IInv, TypeOK
<1>4. ListingPlace' /\ Accounted'
  BY <1>3 DEF ListerExit, ListingPlace, Accounted
<1>5. ListingComplete'
  <2> SUFFICES ASSUME NEW q \in Slots, state'[q] # "UNUSED", pid'[q] < 1 PROVE FALSE
    BY DEF ListingComplete, ListerExit, Active
  <2> QED
    BY <1>2 DEF IInv, Pids, TypeOK
<1> QED
  BY <1>2, <1>4, <1>5

\* One step of the program, or of the processes around it.
LEMMA ListingNext ==
  ASSUME LInv, [NextListing]_allVars
  PROVE  LInv'
<1>1. ASSUME NEW p \in Slots, Begin(p)
      PROVE  LInv'
  BY <1>1, BeginInv
<1>2. CASE LoopTest \/ InfoRange \/ InfoScan \/ ListerExit
  BY <1>2, LoopTestInv, InfoRangeInv, InfoScanInv, ListerExitInv
<1>3. CASE Others
  <2>1. Next /\ UNCHANGED listing
    BY <1>3 DEF Others, Next
  <2> QED
    BY <2>1, OthersInv
<1>4. CASE UNCHANGED allVars
  BY <1>4, OthersInv DEF allVars
<1> QED
  BY <1>1, <1>2, <1>3, <1>4, ListersAssumption DEF NextListing, Listing

\* The lines that are printed are no more than the processes accounted for.
LEMMA CountedLines ==
  ASSUME LInv
  PROVE  ListingCounted
<1>0. nextpid \in Nat /\ 2 <= nextpid
  BY DEF LInv, IInv, TypeOK
<1>1. CASE lister = Null
  <2>1. Cardinality(printed) = 0 /\ total = 0 /\ born = 0
    BY <1>1, FS_EmptySet DEF LInv, ListingPlace
  <2> QED
    BY <1>0, <2>1 DEF ListingCounted
<1>2. CASE lister # Null
  <2>1. PICK counted \in SUBSET (0 .. MaxPid) :
          Cardinality(counted) <= total /\ printed \subseteq counted \cup Since
    BY <1>2 DEF LInv, Accounted
  <2>2. total \in Nat /\ born \in Nat /\ born <= nextpid
    BY <1>0, <1>2 DEF LInv, Accounted
  <2>3. IsFiniteSet(counted) /\ Cardinality(counted) \in Nat
    <3>1. 0 \in Int /\ MaxPid \in Int
      BY ProcTableAssumption
    <3>2. IsFiniteSet(0 .. MaxPid)
      BY <3>1, FS_Interval
    <3> QED
      BY <3>2, FS_Subset, FS_CardinalityType
  <2>4. IsFiniteSet(Since) /\ Cardinality(Since) = nextpid - born
    <3>1. born \in Int /\ nextpid - 1 \in Int
      BY <1>0, <2>2
    <3>2. /\ IsFiniteSet(born .. nextpid - 1)
          /\ Cardinality(born .. nextpid - 1) =
               IF born > nextpid - 1 THEN 0 ELSE (nextpid - 1) - born + 1
      BY <3>1, FS_Interval
    <3> QED
      BY <1>0, <2>2, <3>2 DEF Since
  <2>5. /\ IsFiniteSet(counted \cup Since)
        /\ Cardinality(counted \cup Since)
             = Cardinality(counted) + Cardinality(Since) - Cardinality(counted \cap Since)
    BY <2>3, <2>4, FS_Union
  <2>6. Cardinality(counted \cap Since) \in Nat
    BY <2>3, FS_Intersection, FS_CardinalityType
  <2>7. /\ Cardinality(printed) <= Cardinality(counted \cup Since)
        /\ Cardinality(printed) \in Nat
    BY <2>1, <2>5, FS_Subset, FS_CardinalityType
  <2>8. Cardinality(counted \cup Since) \in Nat
    BY <2>5, FS_CardinalityType
  <2> QED
    BY <1>0, <2>1, <2>2, <2>3, <2>4, <2>5, <2>6, <2>7, <2>8 DEF ListingCounted
<1> QED
  BY <1>1, <1>2

\* The invariant of the listing holds, whatever other processes do meanwhile.
THEOREM ListingInvariance == SpecListing => []LInv
BY ListingInit, ListingNext, PTL DEF SpecListing

\* The loop over getProcInfo misses no process whose pid it has passed.
THEOREM ListingIsComplete == SpecListing => []ListingComplete
<1>1. LInv => ListingComplete
  BY DEF LInv
<1> QED
  BY <1>1, ListingInvariance, PTL

\* The loop prints no more lines than processes counted or created since.
THEOREM ListingAgrees == SpecListing => []ListingCounted
BY CountedLines, ListingInvariance, PTL

\* The process table stays correct while a program lists it.
THEOREM TableUnderListing ==
  SpecListing => [](PidsUnique /\ ParentAlive /\ NoLostWait /\ MemoryOwned)
<1>1. LInv => IInv
  BY DEF LInv
<1> QED
  BY <1>1, IInvImplies, ListingInvariance, PTL
=============================================================================
