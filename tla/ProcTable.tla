----------------------------- MODULE ProcTable -----------------------------
(***************************************************************************)
(* Lab-2 proc.c: the xv6 process table with fork, exit, wait, kill and the *)
(* scheduler.  A slot of the table is a number, 0 the null pointer, and    *)
(* slot 1 is initproc.  A process acts only while it is RUNNING; kpc[p]    *)
(* says where it is in the kernel when a timer interrupt takes the CPU.    *)
(*                                                                         *)
(* A stretch of code between acquire(&ptable.lock) and its release is one  *)
(* step, and needs the lock to be free; wait, which keeps the lock from    *)
(* its scan of the table until it is asleep, is several.  What fork does   *)
(* to the new slot without the lock is a step per statement that others    *)
(* can tell apart.  Memory is nondeterministic: kalloc and copyuvm may     *)
(* fail whenever they are called.                                          *)
(***************************************************************************)
EXTENDS Integers, FiniteSets

CONSTANTS
  NPROC,     \* slots of the table
  NCPU,      \* processors
  MaxPid     \* bound: no process is created with a greater pid

ASSUME ProcTableAssumption ==
  /\ NPROC \in Nat \ {0} /\ NCPU \in Nat \ {0} /\ MaxPid \in Nat \ {0}

VARIABLES
  state, pid, parent, chan, killed,   \* fields of struct proc
  kstack, pgdir,   \* does the slot own a kernel stack, a page table?
  nextpid,
  kpc,             \* where in the kernel the process is ("info": see ProcInfo)
  child,           \* np of a fork that has not finished
  panicked,        \* has the kernel panicked?
  lock             \* the process in wait that holds ptable.lock between two steps

table == <<state, pid, parent, chan, killed>>
memory == <<kstack, pgdir>>
vars == <<table, memory, nextpid, kpc, child, panicked, lock>>

Slots == 1 .. NPROC
initproc == 1
Null == 0
States == {"UNUSED", "EMBRYO", "SLEEPING", "RUNNABLE", "RUNNING", "ZOMBIE"}

\* The table is searched in the order of its slots.
First(S) == CHOOSE p \in S : \A q \in S : p <= q

\* userinit has just made the first process runnable.
Init ==
  /\ state = [p \in Slots |-> IF p = initproc THEN "RUNNABLE" ELSE "UNUSED"]
  /\ pid = [p \in Slots |-> IF p = initproc THEN 1 ELSE 0]
  /\ parent = [p \in Slots |-> Null]
  /\ chan = [p \in Slots |-> Null]
  /\ killed = [p \in Slots |-> FALSE]
  /\ kstack = [p \in Slots |-> p = initproc]
  /\ pgdir = [p \in Slots |-> p = initproc]
  /\ nextpid = 2
  /\ kpc = [p \in Slots |-> "user"]
  /\ child = [p \in Slots |-> Null]
  /\ panicked = FALSE /\ lock = Null

At(p, place) == ~panicked /\ state[p] = "RUNNING" /\ kpc[p] = place

\* trap() lets no killed process start a system call.
InUser(p) == At(p, "user") /\ ~killed[p]

Goto(p, place) == kpc' = [kpc EXCEPT ![p] = place]

Children(p) == {q \in Slots : parent[q] = p}

-----------------------------------------------------------------------------
(* scheduler, yield *)

\* A free CPU switches to a runnable process.  One that slept gets ptable.lock
\* with the CPU, clears chan and goes back to wait; the others release it.
Schedule(p) ==
  /\ ~panicked /\ lock = Null
  /\ state[p] = "RUNNABLE"
  /\ Cardinality({q \in Slots : state[q] = "RUNNING"}) < NCPU
  /\ state' = [state EXCEPT ![p] = "RUNNING"]
  /\ chan' = [chan EXCEPT ![p] = Null]
  /\ lock' = IF chan[p] # Null THEN p ELSE Null
  /\ UNCHANGED <<pid, parent, killed, memory, nextpid, kpc, child, panicked>>

\* A timer interrupt, in user mode or between two steps in the kernel.
Yield(p) ==
  /\ ~panicked /\ lock = Null
  /\ state[p] = "RUNNING"
  /\ state' = [state EXCEPT ![p] = "RUNNABLE"]
  /\ UNCHANGED <<pid, parent, chan, killed, memory, nextpid, kpc, child, panicked, lock>>

-----------------------------------------------------------------------------
(* fork and allocproc; a fork that finds no free slot changes nothing *)

\* Mutant: pids are taken from the number of processes, as getNumProc has it.
ForkAlloc_CountsPids(p) ==
  /\ InUser(p) /\ lock = Null
  /\ nextpid <= MaxPid
  /\ LET free == {q \in Slots : state[q] = "UNUSED"}
         np == First(free)
     IN  /\ free # {}
         /\ state' = [state EXCEPT ![np] = "EMBRYO"]
         /\ pid' = [pid EXCEPT ![np] = Cardinality(Slots \ free) + 1]
         /\ child' = [child EXCEPT ![p] = np]
  /\ nextpid' = nextpid + 1
  /\ Goto(p, "kalloc")
  /\ UNCHANGED <<parent, chan, killed, memory, panicked, lock>>

\* The locked part of allocproc: take a slot and a pid.
ForkAlloc(p) ==
  /\ InUser(p) /\ lock = Null
  /\ nextpid <= MaxPid
  /\ LET free == {q \in Slots : state[q] = "UNUSED"}
         np == First(free)
     IN  /\ free # {}
         /\ state' = [state EXCEPT ![np] = "EMBRYO"]
         /\ pid' = [pid EXCEPT ![np] = nextpid]
         /\ child' = [child EXCEPT ![p] = np]
  /\ nextpid' = nextpid + 1
  /\ Goto(p, "kalloc")
  /\ UNCHANGED <<parent, chan, killed, memory, panicked, lock>>

\* A failed fork gives the slot back, with the pid it was given.
GiveUp(p) ==
  /\ state' = [state EXCEPT ![child[p]] = "UNUSED"]
  /\ child' = [child EXCEPT ![p] = Null]
  /\ Goto(p, "user")
  /\ UNCHANGED <<parent, pgdir>>

\* The kernel stack.
ForkStack(p) ==
  /\ At(p, "kalloc")
  /\ \/ /\ kstack' = [kstack EXCEPT ![child[p]] = TRUE]
        /\ Goto(p, "copyuvm")
        /\ UNCHANGED <<state, child, parent, pgdir>>
     \/ GiveUp(p) /\ UNCHANGED kstack
  /\ UNCHANGED <<pid, chan, killed, nextpid, panicked, lock>>

\* Mutant: a failed copyuvm leaves the kernel stack allocated.
ForkCopy_LeaksStack(p) ==
  /\ At(p, "copyuvm")
  /\ \/ /\ pgdir' = [pgdir EXCEPT ![child[p]] = TRUE]
        /\ parent' = [parent EXCEPT ![child[p]] = p]
        /\ Goto(p, "publish")
        /\ UNCHANGED <<state, child, kstack>>
     \/ GiveUp(p) /\ UNCHANGED kstack
  /\ UNCHANGED <<pid, chan, killed, nextpid, panicked, lock>>

\* The copy of the address space, and the fields the parent fills in.
ForkCopy(p) ==
  /\ At(p, "copyuvm")
  /\ \/ /\ pgdir' = [pgdir EXCEPT ![child[p]] = TRUE]
        /\ parent' = [parent EXCEPT ![child[p]] = p]
        /\ Goto(p, "publish")
        /\ UNCHANGED <<state, child, kstack>>
     \/ /\ kstack' = [kstack EXCEPT ![child[p]] = FALSE]
        /\ GiveUp(p)
  /\ UNCHANGED <<pid, chan, killed, nextpid, panicked, lock>>

\* The child may run, and fork returns its pid.
ForkPublish(p) ==
  /\ At(p, "publish") /\ lock = Null
  /\ state' = [state EXCEPT ![child[p]] = "RUNNABLE"]
  /\ child' = [child EXCEPT ![p] = Null]
  /\ kpc' = [kpc EXCEPT ![p] = "user", ![child[p]] = "user"]
  /\ UNCHANGED <<pid, parent, chan, killed, memory, nextpid, panicked, lock>>

-----------------------------------------------------------------------------
(* exit, wait, kill *)

\* wakeup1(c) on the process states s.
wakeup1(c, s) ==
  [q \in Slots |-> IF s[q] = "SLEEPING" /\ chan[q] = c THEN "RUNNABLE" ELSE s[q]]

\* Mutant: exit wakes nobody.
Exit_NoWakeup(p) ==
  /\ At(p, "user") /\ lock = Null /\ p # initproc
  /\ state' = [state EXCEPT ![p] = "ZOMBIE"]
  /\ parent' = [q \in Slots |-> IF parent[q] = p THEN initproc ELSE parent[q]]
  /\ UNCHANGED <<pid, chan, killed, memory, nextpid, kpc, child, panicked, lock>>

\* Mutant: the children keep the parent that has exited.
Exit_NoReparent(p) ==
  /\ At(p, "user") /\ lock = Null /\ p # initproc
  /\ state' = [wakeup1(parent[p], state) EXCEPT ![p] = "ZOMBIE"]
  /\ UNCHANGED <<pid, parent, chan, killed, memory, nextpid, kpc, child, panicked, lock>>

\* Any process but init exits when it likes, and a killed one as soon as it
\* would be back in user mode: wake the parent, give the children to init.
Exit(p) ==
  /\ At(p, "user") /\ lock = Null /\ p # initproc
  /\ LET orphans == Children(p)
         woken == wakeup1(parent[p], state)
     IN  /\ parent' = [q \in Slots |-> IF q \in orphans THEN initproc ELSE parent[q]]
         /\ state' = [(IF \E q \in orphans : state[q] = "ZOMBIE"
                         THEN wakeup1(initproc, woken) ELSE woken) EXCEPT ![p] = "ZOMBIE"]
  /\ UNCHANGED <<pid, chan, killed, memory, nextpid, kpc, child, panicked, lock>>

\* init never returns, but it can be killed.
ExitInit ==
  /\ At(initproc, "user") /\ killed[initproc]
  /\ panicked' = TRUE
  /\ UNCHANGED <<table, memory, nextpid, kpc, child, lock>>

\* sleep with ptable.lock: the lock goes to the scheduler with the CPU, which
\* releases it.
sleep(c, p) ==
  /\ chan' = [chan EXCEPT ![p] = c]
  /\ state' = [state EXCEPT ![p] = "SLEEPING"]
  /\ lock' = Null

Wait(p) ==
  /\ InUser(p)
  /\ Goto(p, "wait")
  /\ UNCHANGED <<table, memory, nextpid, child, panicked, lock>>

\* Reap the first zombie child: everything the slot owns is freed.
Reap(p, q) ==
  /\ kstack' = [kstack EXCEPT ![q] = FALSE]
  /\ pgdir' = [pgdir EXCEPT ![q] = FALSE]
  /\ pid' = [pid EXCEPT ![q] = 0]
  /\ parent' = [parent EXCEPT ![q] = Null]
  /\ killed' = [killed EXCEPT ![q] = FALSE]
  /\ state' = [state EXCEPT ![q] = "UNUSED"]
  /\ Goto(p, "user")
  /\ UNCHANGED chan

\* Mutant: a killed process goes back to sleep.
WaitScan_IgnoresKilled(p) ==
  LET zombies == {q \in Children(p) : state[q] = "ZOMBIE"} IN
  /\ At(p, "wait") /\ lock \in {Null, p}
  /\ \/ zombies # {} /\ Reap(p, First(zombies)) /\ lock' = Null
     \/ /\ zombies = {} /\ Children(p) = {}
        /\ Goto(p, "user")
        /\ lock' = Null
        /\ UNCHANGED <<table, memory>>
     \/ /\ zombies = {} /\ Children(p) # {}
        /\ Goto(p, "sleep")
        /\ lock' = p
        /\ UNCHANGED <<table, memory>>
  /\ UNCHANGED <<nextpid, child, panicked>>

\* Mutant: the lock is released before the process goes to sleep.
WaitScan_Unlocks(p) ==
  LET zombies == {q \in Children(p) : state[q] = "ZOMBIE"} IN
  /\ At(p, "wait") /\ lock \in {Null, p}
  /\ \/ zombies # {} /\ Reap(p, First(zombies))
     \/ /\ zombies = {}
        /\ Goto(p, IF Children(p) = {} \/ killed[p] THEN "user" ELSE "sleep")
        /\ UNCHANGED <<table, memory>>
  /\ lock' = Null
  /\ UNCHANGED <<nextpid, child, panicked>>

\* One scan of the table, with the lock acquired or got back in sleep: reap a
\* child, return -1, or keep the lock and sleep.
WaitScan(p) ==
  LET zombies == {q \in Children(p) : state[q] = "ZOMBIE"} IN
  /\ At(p, "wait") /\ lock \in {Null, p}
  /\ \/ zombies # {} /\ Reap(p, First(zombies)) /\ lock' = Null
     \/ /\ zombies = {} /\ (Children(p) = {} \/ killed[p])
        /\ Goto(p, "user")
        /\ lock' = Null
        /\ UNCHANGED <<table, memory>>
     \/ /\ zombies = {} /\ Children(p) # {} /\ ~killed[p]
        /\ Goto(p, "sleep")
        /\ lock' = p
        /\ UNCHANGED <<table, memory>>
  /\ UNCHANGED <<nextpid, child, panicked>>

\* What the scan has seen still holds: the lock was not released in between.
WaitSleep(p) ==
  /\ At(p, "sleep")
  /\ sleep(p, p)
  /\ Goto(p, "wait")
  /\ UNCHANGED <<pid, parent, killed, memory, nextpid, child, panicked>>

\* kill(n) marks the first slot with that pid, whatever its state is.
Kill(p, n) ==
  LET found == {q \in Slots : pid[q] = n}
      q == First(found)
  IN  /\ InUser(p) /\ lock = Null
      /\ found # {}
      /\ killed' = [killed EXCEPT ![q] = TRUE]
      /\ state' = [state EXCEPT ![q] = IF @ = "SLEEPING" THEN "RUNNABLE" ELSE @]
      /\ UNCHANGED <<pid, parent, chan, memory, nextpid, kpc, child, panicked, lock>>

\* A panic stops every processor.
Halted == panicked /\ UNCHANGED vars

ForkStep(p) == ForkStack(p) \/ ForkCopy(p) \/ ForkPublish(p)
WaitStep(p) == WaitScan(p) \/ WaitSleep(p)

\* The handlers; exit is not only called by programs, see Exit.
sys_fork(p) == ForkAlloc(p)
sys_wait(p) == Wait(p)
sys_kill(p) == \E n \in 0 .. MaxPid : Kill(p, n)

\* The number that a program leaves in eax selects the handler.  An unknown
\* one, and those without effect on the table, are left out.
Syscall(p) == sys_fork(p) \/ sys_wait(p) \/ sys_kill(p)

Next ==
  \/ \E p \in Slots : \/ Schedule(p) \/ Yield(p)
                      \/ Syscall(p) \/ ForkStep(p) \/ WaitStep(p) \/ Exit(p)
  \/ ExitInit
  \/ Halted

Spec == Init /\ [][Next]_vars

(***************************************************************************)
(* The scheduler's loop passes over every slot, so a process that keeps    *)
(* being runnable gets a CPU, timer interrupts take the CPU away again,    *)
(* and a process that keeps getting a CPU takes its next kernel step, or   *)
(* exits if it is killed: who keeps trying gets the spin lock some time.   *)
(* init's program calls wait for ever.  Nothing else is assumed of user    *)
(* programs.                                                               *)
(***************************************************************************)
KilledExit(p) == killed[p] /\ (Exit(p) \/ (p = initproc /\ ExitInit))

Fairness ==
  /\ \A p \in Slots : /\ SF_vars(Schedule(p)) /\ SF_vars(Yield(p))
                      /\ SF_vars(ForkStep(p) \/ WaitStep(p) \/ KilledExit(p))
  /\ SF_vars(Wait(initproc))

FairSpec == Spec /\ Fairness

-----------------------------------------------------------------------------
(* Properties *)

Alive == {p \in Slots : state[p] \notin {"UNUSED", "EMBRYO", "ZOMBIE"}}

\* Types.
TypeOK ==
  /\ state \in [Slots -> States]
  /\ pid \in [Slots -> 0 .. MaxPid]
  /\ parent \in [Slots -> Slots \cup {Null}]
  /\ chan \in [Slots -> Slots \cup {Null}]
  /\ killed \in [Slots -> BOOLEAN]
  /\ kstack \in [Slots -> BOOLEAN] /\ pgdir \in [Slots -> BOOLEAN]
  /\ nextpid \in 2 .. MaxPid + 1
  /\ kpc \in [Slots -> {"user", "kalloc", "copyuvm", "publish", "wait", "sleep", "info"}]
  /\ child \in [Slots -> Slots \cup {Null}]
  /\ panicked \in BOOLEAN
  /\ lock \in Slots \cup {Null}

\* No two slots carry the same pid, not even one that a failed fork left
\* behind (proc.c:98-100, 196-200): kill, which stops at the first slot with
\* the pid, and getProcInfo, which goes on and lets the last one win, cannot
\* mistake one process for another.
PidsUnique == \A p, q \in Slots : pid[p] = pid[q] /\ pid[p] # 0 => p = q

\* A child's parent is alive: exit hands every child over before the parent
\* becomes a zombie, so no process is left for nobody to reap.
ParentAlive ==
  \A p \in Slots \ {initproc} :
    state[p] \notin {"UNUSED", "EMBRYO"} => parent[p] \in Alive

\* A process asleep in wait has something to wait for, and it has not
\* happened yet: it has a child, none of its children is a zombie, and
\* nobody has killed it.
NoLostWait ==
  \A p \in Slots : state[p] = "SLEEPING" =>
    /\ chan[p] = p
    /\ Children(p) # {}
    /\ \A q \in Children(p) : state[q] # "ZOMBIE"
    /\ ~killed[p]

\* Memory follows the slot: a free slot owns nothing, a process owns its
\* stack and its page table, and only a fork in progress is in between.  So
\* wait frees each of them once and a failed fork leaks neither.
MemoryOwned ==
  \A p \in Slots :
    CASE state[p] = "UNUSED" -> ~kstack[p] /\ ~pgdir[p]
      [] state[p] = "EMBRYO" -> (pgdir[p] => kstack[p]) /\ \E f \in Slots : child[f] = p
      [] OTHER -> kstack[p] /\ pgdir[p]

\* "Kill the process with the given pid." (proc.c:488): no process is killed
\* before it exists, when it has not been named in any kill.
KillsOnlyTheNamed ==
  [][\A p \in Slots : state[p] = "UNUSED" /\ state'[p] # "UNUSED" => ~killed'[p]]_vars

\* "Process won't exit until it returns to user space" (proc.c:489), but
\* then it does: every killed process becomes a zombie.
KilledDies ==
  \A p \in Slots : killed[p] /\ state[p] # "UNUSED" ~>
                     state[p] \in {"ZOMBIE", "UNUSED"} \/ panicked

\* A zombie that belongs to init is reaped.
OrphansReaped ==
  \A p \in Slots : state[p] = "ZOMBIE" /\ parent[p] = initproc ~>
                     state[p] = "UNUSED" \/ panicked
=============================================================================
