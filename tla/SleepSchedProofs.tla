-------------------------- MODULE SleepSchedProofs --------------------------
(***************************************************************************)
(* Proofs about SleepSched for any numbers of processes and CPUs, any      *)
(* width of a word and any arguments of sleep.                             *)
(*                                                                         *)
(* What a CPU holds and whether it takes interrupts is a function of where *)
(* it is (CpuOK), and what a process that is on no CPU continues with is a *)
(* function of its state (SavedOK).  Neither is inductive without the      *)
(* other: a switch turns one into the other.                               *)
(* That myproc answers rightly (Myproc), that no wakeup is lost (Wakes)    *)
(* and that the difference of two readings of ticks is the number of ticks *)
(* between them (Elapsed) are layers on top.                               *)
(***************************************************************************)
EXTENDS SleepSched, TLAPS

\* The clock is an abbreviation in the frame conditions.
USE DEF clock

\* Where interrupts are on, and a timer interrupt may come.
Open == {"user", "mycpu", "lock", "relock"}

\* Where a process holds ptable.lock, where it holds tickslock.
PtableLabels == {"forkret", "release", "asleep", "woken", "exit"}
TicksLabels == {"test", "sleep", "release", "done"}

\* CPU c executes process p.
RunsOn(c, p) == loop[c] = "run" /\ proc[c] = p

\* CPU c executes kernel code at one of these labels,
InKernelAt(c, labels) ==
  loop[c] = "run" /\ irq[c] = "no" /\ yielding[proc[c]] = "no" /\ pc[proc[c]] \in labels

\* or is in a yield,
InYield(c, places) == loop[c] = "run" /\ irq[c] = "no" /\ yielding[proc[c]] \in places

\* or in code that holds ptable.lock,
InPtable(c) ==
  loop[c] \in {"scan", "back"} \/ InKernelAt(c, PtableLabels) \/ InYield(c, {"switch", "resumed"})

\* or tickslock,
InTicks(c) == irq[c] \in {"wakeup", "release"} \/ InKernelAt(c, TicksLabels)

\* or takes interrupts.
IsOpen(c) == irq[c] = "no" /\ (loop[c] = "idle" \/ InKernelAt(c, Open))

\* Each CPU is accounted for: the process and the page table it has, the locks
\* it holds, and its interrupt flags.
CpuOK(c) ==
  /\ loop[c] \in {"idle", "scan"} <=> proc[c] = NoProc
  /\ cr3[c] = proc[c]
  /\ loop[c] = "run" =>
       /\ pc[proc[c]] # "zombie"
       /\ yielding[proc[c]] # "no" => pc[proc[c]] \in Open
       /\ state[proc[c]] = IF yielding[proc[c]] = "switch" THEN "RUNNABLE" ELSE "RUNNING"
  /\ irq[c] # "no" =>
       loop[c] = "idle" \/ (loop[c] = "run" /\ yielding[proc[c]] = "no" /\ pc[proc[c]] \in Open)
  /\ ptable = c <=> InPtable(c)
  /\ tickslock = c <=> InTicks(c)
  /\ on[c] <=> IsOpen(c)
  /\ InYield(c, {"switch", "resumed"}) => ~intena[c]
  /\ InKernelAt(c, (PtableLabels \cup TicksLabels \cup {"myproc"}) \ {"forkret"}) => intena[c]

\* A process that is not executed has saved a context to go on with, and the
\* intena that belongs to it.
SavedOK(p) ==
  \/ \E c \in Cpus : RunsOn(c, p)
  \/ /\ state[p] = "RUNNABLE" /\ yielding[p] = "no" /\ pc[p] = "forkret"
  \/ /\ state[p] = "RUNNABLE" /\ yielding[p] = "resumed" /\ pc[p] \in Open /\ ~kept[p]
  \/ /\ state[p] \in {"RUNNABLE", "SLEEPING"} /\ yielding[p] = "no" /\ pc[p] = "woken"
     /\ chan[p] = TicksChan /\ kept[p]
  \/ /\ state[p] \in {"ZOMBIE", "UNUSED"} /\ yielding[p] = "no" /\ pc[p] = "zombie"

\* No two CPUs have the same process.
Apart == \A c, d \in Cpus : proc[c] = proc[d] /\ proc[c] # NoProc => c = d

\* CPUs and contexts.  A process on its way off a CPU is executed by nobody.
Sched ==
  /\ \A c \in Cpus : CpuOK(c)
  /\ \A p \in Procs : SavedOK(p)
  /\ \A c \in Cpus : loop[c] = "back" =>
         /\ state[proc[c]] \in {"RUNNABLE", "SLEEPING", "ZOMBIE"}
         /\ ~\E d \in Cpus : RunsOn(d, proc[c])
  /\ Apart

\* A process in myproc is on the CPU it has looked up.
Myproc ==
  \A p \in Procs :
    /\ cpu[p] # NoCpu => pc[p] = "myproc" /\ RunsOn(cpu[p], p)
    /\ pc[p] = "myproc" => cpu[p] # NoCpu

\* A tick has been counted and its wakeup is still to come.
Waking == \E c \in Cpus : irq[c] = "wakeup"

\* From its test on, a process has ticks to wait for; only a tick in progress
\* may have ended its sleep.
Wakes ==
  \A p \in Procs :
    /\ pc[p] \in {"sleep", "release"} => Early(p)
    /\ pc[p] = "asleep" \/ state[p] = "SLEEPING" => Early(p) \/ Waking

\* What sys_sleep computes of the ticks is how many have come, until Word have.
Elapsed ==
  \A p \in Procs : InSleep(p) /\ slept[p] < Word => (ticks - ticks0[p]) % Word = slept[p]

IInv == TypeOK /\ Sched /\ Myproc /\ Wakes /\ Elapsed

-----------------------------------------------------------------------------
(* Types *)

\* Words are what % leaves.
LEMMA Modulo == ASSUME NEW a \in Int PROVE a % Word \in 0 .. Word - 1
BY SleepAssumption

\* acquire, release and the flags they touch
LEMMA LockTypes ==
  ASSUME TypeOK, NEW c \in Cpus
  PROVE  /\ pushcli(c) => on' \in [Cpus -> BOOLEAN] /\ intena' \in [Cpus -> BOOLEAN]
         /\ popcli(c) => on' \in [Cpus -> BOOLEAN] /\ intena' \in [Cpus -> BOOLEAN]
         /\ Enable(c) => on' \in [Cpus -> BOOLEAN] /\ intena' \in [Cpus -> BOOLEAN]
<1>1. on[c] \in BOOLEAN /\ intena[c] \in BOOLEAN
  BY Zenon DEF TypeOK
<1>2. /\ on \in [Cpus -> BOOLEAN] /\ intena \in [Cpus -> BOOLEAN]
      /\ TRUE \in BOOLEAN /\ FALSE \in BOOLEAN
  BY DEF TypeOK
<1>3. \A v \in BOOLEAN : /\ [on EXCEPT ![c] = v] \in [Cpus -> BOOLEAN]
                         /\ [intena EXCEPT ![c] = v] \in [Cpus -> BOOLEAN]
  BY <1>2, Zenon
<1> QED
  BY <1>1, <1>2, <1>3, Zenon DEF pushcli, popcli, Enable

\* The first state has the types.
LEMMA TypeInit == Init => TypeOK
BY SleepAssumption DEF Init, TypeOK, Procs, Cpus, Labels, Free, NoCpu, NoProc, TicksChan

\* The steps of scheduler() keep the types;
LEMMA TypeScheduler ==
  ASSUME TypeOK, NEW c \in Cpus, Scheduler(c)
  PROVE  TypeOK'
<1> USE LockTypes DEF TypeOK, procVars, interrupts
<1>1. CASE SchedAcquire(c)
  <2>1. 1 \in 1 .. NPROC + 1
    BY SleepAssumption
  <2> QED
    BY <1>1, <2>1 DEF SchedAcquire, acquire
<1>2. CASE SchedPick(c)
  <2>1. PICK p \in Procs :
          /\ proc' = [proc EXCEPT ![c] = p]
          /\ scan' = [scan EXCEPT ![c] = p + 1]
          /\ cr3' = [cr3 EXCEPT ![c] = p]
          /\ state' = [state EXCEPT ![p] = "RUNNING"]
          /\ intena' = [intena EXCEPT ![c] = Restored(c, p)]
          /\ kept' = [kept EXCEPT ![p] = FALSE]
    BY <1>2, Zenon DEF SchedPick, switchuvm, Ahead
  <2>2. intena' \in [Cpus -> BOOLEAN]
    <3>1. intena[c] \in BOOLEAN /\ kept[p] \in BOOLEAN
      BY Zenon
    <3>2. Restored(c, p) \in BOOLEAN
      BY <3>1, Zenon DEF Restored
    <3> QED
      BY <2>1, <3>2, Zenon
  <2>3. scan' \in [Cpus -> 1 .. NPROC + 1]
    BY <2>1, SleepAssumption DEF Procs
  <2> QED
    BY <1>2, <2>1, <2>2, <2>3 DEF SchedPick
<1>3. CASE SchedBack(c)
  BY <1>3 DEF SchedBack, switchkvm
<1>4. CASE SchedRelease(c)
  BY <1>4 DEF SchedRelease
<1> QED
  BY <1>1, <1>2, <1>3, <1>4 DEF Scheduler

\* those of sys_sleep and sleep,
LEMMA TypeSleep ==
  ASSUME TypeOK, NEW c \in Cpus, NEW p \in Procs, Sleep(c, p)
  PROVE  TypeOK'
<1> USE LockTypes DEF TypeOK, cpuVars, interrupts, Goto, Labels
<1>1. CASE mycpu(c, p)
  BY <1>1 DEF mycpu
<1>2. CASE myproc(c, p)
  BY <1>2 DEF myproc
<1>3. CASE SleepStart(c, p)
  BY <1>3, SleepAssumption DEF SleepStart, acquire
<1>4. CASE SleepTest(c, p)
  BY <1>4 DEF SleepTest
<1>5. CASE SleepAcquire(c, p)
  BY <1>5 DEF SleepAcquire, acquire
<1>6. CASE SleepRelease(c, p)
  BY <1>6 DEF SleepRelease, release
<1>7. CASE SleepSwitch(c, p)
  BY <1>7 DEF SleepSwitch, sched
<1>8. CASE SleepWoken(c, p)
  BY <1>8 DEF SleepWoken, release
<1>9. CASE SleepRelock(c, p)
  BY <1>9 DEF SleepRelock, acquire
<1>10. CASE SleepDone(c, p)
  BY <1>10, SleepAssumption DEF SleepDone, release
<1> QED
  BY <1>1, <1>2, <1>3, <1>4, <1>5, <1>6, <1>7, <1>8, <1>9, <1>10 DEF Sleep

\* those of yield, exit, forkret and of a program,
LEMMA TypeOthers ==
  ASSUME TypeOK, NEW c \in Cpus, NEW p \in Procs,
         \/ Forkret(c, p) \/ yield(c, p) \/ ExitAcquire(c, p) \/ ExitSwitch(c, p)
         \/ InUser(c, p)
  PROVE  TypeOK'
<1> USE LockTypes DEF TypeOK, cpuVars, interrupts, Goto, Labels
<1>1. CASE Forkret(c, p)
  BY <1>1 DEF Forkret
<1>2. CASE YieldAcquire(c, p)
  BY <1>2 DEF YieldAcquire, acquire
<1>3. CASE YieldSwitch(c, p)
  BY <1>3 DEF YieldSwitch, sched
<1>4. CASE YieldResumed(c, p)
  BY <1>4 DEF YieldResumed, release
<1>5. CASE YieldReturn(c, p)
  BY <1>5 DEF YieldReturn
<1>6. CASE ExitAcquire(c, p)
  BY <1>6 DEF ExitAcquire, acquire
<1>7. CASE ExitSwitch(c, p)
  BY <1>7 DEF ExitSwitch, sched
<1>8. ASSUME NEW a \in Arguments, SysSleep(c, p, a) PROVE TypeOK'
  BY <1>8, SleepAssumption, Modulo DEF SysSleep
<1>9. ASSUME NEW q \in Procs, Kill(c, p, q) PROVE TypeOK'
  BY <1>9 DEF Kill
<1>10. ASSUME NEW q \in Procs, Reap(c, p, q) PROVE TypeOK'
  BY <1>10 DEF Reap
<1> QED
  BY <1>1, <1>2, <1>3, <1>4, <1>5, <1>6, <1>7, <1>8, <1>9, <1>10 DEF yield, InUser

\* and those of the timer interrupt.
LEMMA TypeInterrupt ==
  ASSUME TypeOK, NEW c \in Cpus, Interrupt(c)
  PROVE  TypeOK'
<1> USE LockTypes DEF TypeOK, procVars, interrupts
<1>1. CASE Timer(c)
  <2>1. /\ UNCHANGED <<state, chan, killed, pc, n, ticks0, cpu, loop, proc, scan, cr3, intena,
                       kept, ptable, tickslock, clock>>
        /\ irq' \in [Cpus -> {"no", "tick", "wakeup", "release"}]
    BY <1>1 DEF Timer, AfterTimer
  <2>2. on' \in [Cpus -> BOOLEAN]
    BY <1>1 DEF Timer, AfterTimer
  <2>3. yielding' \in [Procs -> {"no", "lock", "switch", "resumed", "return"}]
    BY <1>1 DEF Timer, AfterTimer
  <2> QED
    BY <2>1, <2>2, <2>3
<1>2. CASE Tick(c)
  <2>1. slept' \in [Procs -> 0 .. Word]
    BY <1>2, SleepAssumption DEF Tick
  <2> QED
    BY <1>2, <2>1, Modulo DEF Tick, acquire
<1>3. CASE Wakeup(c)
  BY <1>3 DEF Wakeup
<1>4. CASE TickDone(c)
  <2>1. /\ UNCHANGED <<state, chan, killed, pc, n, ticks0, cpu, loop, proc, scan, cr3, intena,
                       kept, ptable, clock>>
        /\ tickslock' = Free
        /\ irq' \in [Cpus -> {"no", "tick", "wakeup", "release"}]
    BY <1>4 DEF TickDone, AfterTimer
  <2>2. on' \in [Cpus -> BOOLEAN]
    BY <1>4 DEF TickDone, AfterTimer
  <2>3. yielding' \in [Procs -> {"no", "lock", "switch", "resumed", "return"}]
    BY <1>4 DEF TickDone, AfterTimer
  <2> QED
    BY <2>1, <2>2, <2>3
<1> QED
  BY <1>1, <1>2, <1>3, <1>4 DEF Interrupt

\* Every step keeps the types.
LEMMA TypeStep == TypeOK /\ [Next]_vars => TypeOK'
<1> SUFFICES ASSUME TypeOK, [Next]_vars PROVE TypeOK'
  OBVIOUS
<1>1. CASE UNCHANGED vars
  BY <1>1 DEF TypeOK, vars, procVars, cpuVars, interrupts
<1>2. CASE Next
  <2>1. PICK c \in Cpus : \/ Scheduler(c) \/ Interrupt(c)
                         \/ \E p \in Procs : InKernel(c, p) \/ InUser(c, p)
    BY <1>2 DEF Next
  <2> QED
    BY <2>1, TypeScheduler, TypeInterrupt, TypeSleep, TypeOthers DEF InKernel
<1> QED
  BY <1>1, <1>2

-----------------------------------------------------------------------------
(* CPUs and contexts *)

\* A CPU that takes no part in a step remains accounted for, as long as the
\* process it executes is left alone.
LEMMA OtherCpu ==
  ASSUME NEW d \in Cpus, CpuOK(d),
         UNCHANGED <<loop[d], proc[d], cr3[d], irq[d], on[d], intena[d]>>,
         ptable' = d <=> ptable = d, tickslock' = d <=> tickslock = d,
         loop[d] = "run" => UNCHANGED <<pc[proc[d]], yielding[proc[d]], state[proc[d]]>>
  PROVE  CpuOK(d)'
BY DEF CpuOK, InPtable, InTicks, IsOpen, InYield, InKernelAt

\* A process executes a step that keeps it on its CPU and changes only what
\* belongs to the two of them.
LEMMA InPlace ==
  ASSUME TypeOK, Sched, NEW c \in Cpus, NEW p \in Procs, RunsOn(c, p),
         UNCHANGED <<loop, proc, cr3, irq>>,
         \A q \in Procs \ {p} :
           UNCHANGED <<pc[q], yielding[q], state[q], chan[q], kept[q]>>,
         \A d \in Cpus \ {c} :
           /\ UNCHANGED <<on[d], intena[d]>>
           /\ ptable' = d <=> ptable = d
           /\ tickslock' = d <=> tickslock = d,
         CpuOK(c)'
  PROVE  Sched'
<1>1. ASSUME NEW d \in Cpus PROVE CpuOK(d)'
  <2>1. CASE d = c
    BY <2>1
  <2>2. CASE d # c
    <3>1. loop[d] = "run" => proc[d] \in Procs \ {p}
      BY <2>2 DEF Sched, Apart, CpuOK, RunsOn, TypeOK
    <3> QED
      BY <2>2, <3>1, OtherCpu DEF Sched
  <2> QED
    BY <2>1, <2>2
<1>2. ASSUME NEW q \in Procs PROVE SavedOK(q)'
  BY DEF Sched, SavedOK, RunsOn
<1>3. ASSUME NEW d \in Cpus, loop'[d] = "back"
      PROVE  /\ state'[proc'[d]] \in {"RUNNABLE", "SLEEPING", "ZOMBIE"}
             /\ ~\E e \in Cpus : RunsOn(e, proc[d])'
  <2>1. proc[d] \in Procs \ {p}
    BY <1>3 DEF Sched, Apart, CpuOK, RunsOn, TypeOK
  <2> QED
    BY <1>3, <2>1 DEF Sched, RunsOn
<1>4. Apart'
  BY DEF Sched, Apart
<1> QED
  BY <1>1, <1>2, <1>3, <1>4 DEF Sched

\* The values that stand for nobody are not CPUs or processes.
LEMMA FreeIsNoCpu == Free \notin Cpus /\ NoCpu \notin Cpus /\ NoProc \notin Procs
BY DEF Free, NoCpu, NoProc, Cpus, Procs

\* How many times the CPU has turned interrupts off.
LEMMA Depth ==
  ASSUME TypeOK, Sched, NEW c \in Cpus
  PROVE  ncli(c) = (IF InPtable(c) THEN 1 ELSE 0) + (IF InTicks(c) THEN 1 ELSE 0)
                     + (IF InKernelAt(c, {"myproc"}) THEN 1 ELSE 0)
<1>1. (ptable = c <=> InPtable(c)) /\ (tickslock = c <=> InTicks(c))
  BY DEF Sched, CpuOK
<1>2. (\E p \in Procs : At(c, p, "myproc")) <=> InKernelAt(c, {"myproc"})
  BY FreeIsNoCpu DEF At, InKernelAt, Sched, CpuOK, TypeOK
<1> QED
  BY <1>1, <1>2 DEF ncli

\* A process takes a lock, with pushcli: interrupts are on before, or it has
\* one lock already.
LEMMA AcquireInPlace ==
  ASSUME TypeOK, Sched, NEW c \in Cpus, NEW p \in Procs,
         SleepStart(c, p) \/ SleepRelock(c, p) \/ SleepAcquire(c, p) \/ ExitAcquire(c, p)
  PROVE  Sched'
<1> USE DEF At, RunsOn
<1>1. RunsOn(c, p) /\ CpuOK(c) /\ irq[c] = "no" /\ yielding[p] = "no"
  BY DEF Sched, SleepStart, SleepRelock, SleepAcquire, ExitAcquire
<1>2. ncli(c) = IF pc[p] = "sleep" THEN 1 ELSE 0
  BY <1>1, Depth DEF InPtable, InTicks, InKernelAt, InYield, TicksLabels, PtableLabels,
         SleepStart, SleepRelock, SleepAcquire, ExitAcquire
<1>3. CpuOK(c)'
  BY <1>1, <1>2, FreeIsNoCpu DEF TypeOK, CpuOK, InPtable, InTicks, IsOpen, InKernelAt,
         InYield, TicksLabels, PtableLabels, Open, SleepStart, SleepRelock, SleepAcquire,
         ExitAcquire, acquire, pushcli, Goto, cpuVars
<1> QED
  BY <1>1, <1>3, InPlace, FreeIsNoCpu DEF TypeOK, SleepStart, SleepRelock, SleepAcquire,
         ExitAcquire, acquire, pushcli, Goto, cpuVars

\* A process gives a lock back, with popcli: the last one turns interrupts on
\* because the CPU has the intena of this process.
LEMMA ReleaseInPlace ==
  ASSUME TypeOK, Sched, NEW c \in Cpus, NEW p \in Procs,
         SleepRelease(c, p) \/ SleepWoken(c, p) \/ SleepDone(c, p)
  PROVE  Sched'
<1> USE DEF At, RunsOn
<1>1. RunsOn(c, p) /\ CpuOK(c) /\ irq[c] = "no" /\ yielding[p] = "no"
  BY DEF Sched, SleepRelease, SleepWoken, SleepDone
<1>2. ncli(c) = IF pc[p] = "release" THEN 2 ELSE 1
  BY <1>1, Depth DEF InPtable, InTicks, InKernelAt, InYield, TicksLabels, PtableLabels,
         SleepRelease, SleepWoken, SleepDone
<1>3. CpuOK(c)'
  BY <1>1, <1>2, FreeIsNoCpu DEF TypeOK, CpuOK, InPtable, InTicks, IsOpen, InKernelAt,
         InYield, TicksLabels, PtableLabels, Open, SleepRelease, SleepWoken, SleepDone,
         release, popcli, Goto, cpuVars
<1> QED
  BY <1>1, <1>3, InPlace, FreeIsNoCpu DEF TypeOK, SleepRelease, SleepWoken, SleepDone,
         release, popcli, Goto, cpuVars

\* SleepTest and myproc take no lock; SysSleep is the way in.
LEMMA PlainInPlace ==
  ASSUME TypeOK, Sched, NEW c \in Cpus, NEW p \in Procs,
         SleepTest(c, p) \/ mycpu(c, p) \/ myproc(c, p) \/ \E a \in Arguments : SysSleep(c, p, a)
  PROVE  Sched'
<1> USE DEF At, RunsOn
<1>1. RunsOn(c, p) /\ CpuOK(c) /\ irq[c] = "no" /\ yielding[p] = "no"
  BY DEF Sched, SleepTest, mycpu, myproc, SysSleep
<1>2. /\ mycpu(c, p) => ncli(c) = 0
      /\ myproc(c, p) => ncli(c) = 1
  BY <1>1, Depth DEF InPtable, InTicks, InKernelAt, InYield, TicksLabels, PtableLabels,
         mycpu, myproc
<1>3. CpuOK(c)'
  BY <1>1, <1>2 DEF TypeOK, CpuOK, InPtable, InTicks, IsOpen, InKernelAt, InYield,
         TicksLabels, PtableLabels, Open, SleepTest, mycpu, myproc, SysSleep, pushcli,
         popcli, Goto, cpuVars, interrupts
<1> QED
  BY <1>1, <1>3, InPlace DEF TypeOK, SleepTest, mycpu, myproc, SysSleep, pushcli, popcli,
         Goto, cpuVars, interrupts

\* A process in yield stays on its CPU, with interrupts off until it returns
\* from the handler; a new process releases the lock of the scheduler.
LEMMA YieldInPlace ==
  ASSUME TypeOK, Sched, NEW c \in Cpus, NEW p \in Procs,
         YieldAcquire(c, p) \/ YieldResumed(c, p) \/ YieldReturn(c, p) \/ Forkret(c, p)
  PROVE  Sched'
<1> USE DEF Yields, RunsOn, At
<1>1. RunsOn(c, p) /\ CpuOK(c) /\ irq[c] = "no"
  BY DEF Sched, YieldAcquire, YieldResumed, YieldReturn, Forkret
<1>2. /\ YieldAcquire(c, p) => ncli(c) = 0
      /\ YieldResumed(c, p) => ncli(c) = 1
  BY <1>1, Depth DEF InPtable, InTicks, InKernelAt, InYield, YieldAcquire, YieldResumed
<1>3. CpuOK(c)'
  BY <1>1, <1>2, FreeIsNoCpu DEF TypeOK, CpuOK, InPtable, InTicks, IsOpen, InKernelAt,
         InYield, TicksLabels, PtableLabels, Open, YieldAcquire, YieldResumed, YieldReturn,
         Forkret, acquire, pushcli, release, popcli, Enable, Goto, cpuVars
<1> QED
  BY <1>1, <1>3, InPlace, FreeIsNoCpu DEF TypeOK, YieldAcquire, YieldResumed, YieldReturn,
         Forkret, acquire, pushcli, release, popcli, Enable, Goto, cpuVars

\* A step of the loop of a scheduler, or of a process that enters it, leaves
\* the other CPUs, and every process but one, alone.
LEMMA Switching ==
  ASSUME TypeOK, Sched, NEW c \in Cpus, NEW p \in Procs,
         \A d \in Cpus \ {c} :
           /\ UNCHANGED <<loop[d], proc[d], cr3[d], irq[d], on[d], intena[d]>>
           /\ ptable' = d <=> ptable = d
           /\ tickslock' = d <=> tickslock = d
           /\ proc[d] # p,
         \A q \in Procs \ {p} :
           /\ UNCHANGED <<pc[q], yielding[q], state[q], chan[q], kept[q]>>
           /\ ~RunsOn(c, q) /\ ~RunsOn(c, q)',
         CpuOK(c)', SavedOK(p)',
         proc'[c] \in {p, NoProc},
         loop'[c] = "back" => proc'[c] = p /\ state'[p] \in {"RUNNABLE", "SLEEPING", "ZOMBIE"}
  PROVE  Sched'
<1>1. ASSUME NEW d \in Cpus PROVE CpuOK(d)'
  <2>1. CASE d # c
    <3>1. loop[d] = "run" => proc[d] \in Procs \ {p}
      BY <2>1 DEF Sched, CpuOK, TypeOK
    <3> QED
      BY <2>1, <3>1, OtherCpu DEF Sched
  <2> QED
    BY <2>1
<1>2. ASSUME NEW q \in Procs PROVE SavedOK(q)'
  BY DEF Sched, SavedOK, RunsOn
<1>3. ASSUME NEW d \in Cpus, loop'[d] = "back"
      PROVE  /\ state'[proc'[d]] \in {"RUNNABLE", "SLEEPING", "ZOMBIE"}
             /\ ~\E e \in Cpus : RunsOn(e, proc[d])'
  <2>1. CASE d = c
    BY <1>3, <2>1 DEF RunsOn
  <2>2. CASE d # c
    <3>1. proc[d] \in Procs \ {p}
      BY <1>3, <2>2 DEF Sched, CpuOK, TypeOK
    <3> QED
      BY <1>3, <2>2, <3>1 DEF Sched, RunsOn
  <2> QED
    BY <2>1, <2>2
<1>4. Apart'
  BY DEF Sched, Apart
<1> QED
  BY <1>1, <1>2, <1>3, <1>4 DEF Sched

\* sched: the process saves a context, and the CPU keeps ptable.lock.
LEMMA EnterScheduler ==
  ASSUME TypeOK, Sched, NEW c \in Cpus, NEW p \in Procs,
         SleepSwitch(c, p) \/ ExitSwitch(c, p) \/ YieldSwitch(c, p)
  PROVE  Sched'
<1> USE DEF Yields, RunsOn, At
<1>1. /\ RunsOn(c, p) /\ CpuOK(c) /\ irq[c] = "no"
      /\ \A d \in Cpus \ {c} : proc[d] # p
  BY FreeIsNoCpu DEF Sched, Apart, SleepSwitch, ExitSwitch, YieldSwitch
<1>2. CpuOK(c)'
  BY <1>1, FreeIsNoCpu DEF TypeOK, CpuOK, InPtable, InTicks, IsOpen, InKernelAt, InYield,
         TicksLabels, PtableLabels, Open, SleepSwitch, ExitSwitch, YieldSwitch, sched, Goto,
         interrupts
<1>3. kept'[p] = intena[c]
  BY <1>1 DEF TypeOK, SleepSwitch, ExitSwitch, YieldSwitch, sched
<1>4. SavedOK(p)' /\ state'[p] \in {"RUNNABLE", "SLEEPING", "ZOMBIE"}
  <2>1. CASE SleepSwitch(c, p)
    <3>1. kept'[p]
      BY <1>1, <1>3, <2>1 DEF SleepSwitch, CpuOK, InKernelAt, PtableLabels
    <3> QED
      BY <2>1, <3>1 DEF TypeOK, SavedOK, SleepSwitch, Goto
  <2>2. CASE ExitSwitch(c, p)
    BY <2>2 DEF TypeOK, SavedOK, ExitSwitch, Goto
  <2>3. CASE YieldSwitch(c, p)
    <3>1. ~kept'[p] /\ state[p] = "RUNNABLE" /\ pc[p] \in Open
      BY <1>1, <1>3, <2>3 DEF YieldSwitch, CpuOK, InYield
    <3> QED
      BY <2>3, <3>1 DEF TypeOK, SavedOK, YieldSwitch
  <2> QED
    BY <2>1, <2>2, <2>3
<1> QED
  BY <1>1, <1>2, <1>4, Switching DEF TypeOK, SleepSwitch, ExitSwitch, YieldSwitch, sched,
         Goto, interrupts

\* The scheduler holds ptable.lock, so a process that is RUNNABLE is on no
\* CPU; its saved context continues with the lock it expects to hold.
LEMMA LeaveScheduler ==
  ASSUME TypeOK, Sched, NEW c \in Cpus, SchedPick(c)
  PROVE  Sched'
<1>1. PICK p \in Ahead(c) :
        /\ proc' = [proc EXCEPT ![c] = p]
        /\ cr3' = [cr3 EXCEPT ![c] = p]
        /\ state' = [state EXCEPT ![p] = "RUNNING"]
        /\ intena' = [intena EXCEPT ![c] = Restored(c, p)]
        /\ kept' = [kept EXCEPT ![p] = FALSE]
  BY Zenon DEF SchedPick, switchuvm
<1>2. p \in Procs /\ state[p] = "RUNNABLE" /\ SavedOK(p) /\ CpuOK(c) /\ loop[c] = "scan"
  BY <1>1 DEF Ahead, SchedPick, Sched
<1>3. \A d \in Cpus \ {c} : proc[d] # p
  <2> SUFFICES ASSUME NEW d \in Cpus \ {c}, proc[d] = p PROVE FALSE
    OBVIOUS
  <2>1. loop[d] \in {"run", "back"} /\ ptable # d
    BY <1>2, FreeIsNoCpu DEF Sched, CpuOK, InPtable, TypeOK
  <2>2. loop[d] = "run" => InYield(d, {"switch"})
    BY <1>2, <2>1 DEF Sched, CpuOK, InYield
  <2> QED
    BY <2>1, <2>2 DEF Sched, CpuOK, InPtable, InYield
<1>4. \A d \in Cpus : ~RunsOn(d, p)
  BY <1>2, <1>3 DEF RunsOn
<1>5. CpuOK(c)'
  BY <1>1, <1>2, <1>4, FreeIsNoCpu DEF TypeOK, SavedOK, CpuOK, InPtable, InTicks, IsOpen,
         InKernelAt, InYield, TicksLabels, PtableLabels, Open, SchedPick, Restored
<1>6. SavedOK(p)'
  BY <1>1, <1>2 DEF SavedOK, RunsOn, SchedPick, TypeOK
<1> QED
  <2>1. /\ proc'[c] = p /\ loop'[c] = "run"
        /\ \A d \in Cpus \ {c} : UNCHANGED <<loop[d], proc[d], cr3[d], irq[d], on[d], intena[d]>>
        /\ \A q \in Procs \ {p} :
             UNCHANGED <<pc[q], yielding[q], state[q], chan[q], kept[q]>>
    BY <1>1 DEF TypeOK, SchedPick
  <2> QED
    BY <1>1, <1>2, <1>3, <1>5, <1>6, <2>1, Switching DEF TypeOK, SchedPick, RunsOn

\* A step of a CPU in its scheduler or in a handler that moves no process.
LEMMA CpuAlone ==
  ASSUME TypeOK, Sched, NEW c \in Cpus,
         \A d \in Cpus \ {c} :
           /\ UNCHANGED <<loop[d], proc[d], cr3[d], irq[d], on[d], intena[d]>>
           /\ ptable' = d <=> ptable = d
           /\ tickslock' = d <=> tickslock = d,
         loop[c] # "run", loop'[c] \in {"idle", "scan"}, proc'[c] = NoProc,
         UNCHANGED <<pc, yielding, state, chan, kept>>,
         CpuOK(c)'
  PROVE  Sched'
<1>1. ASSUME NEW d \in Cpus PROVE CpuOK(d)'
  BY OtherCpu DEF Sched
<1>2. ASSUME NEW q \in Procs PROVE SavedOK(q)'
  BY DEF Sched, SavedOK, RunsOn
<1>3. Apart'
  BY DEF Sched, Apart
<1> QED
  BY <1>1, <1>2, <1>3 DEF Sched, RunsOn

\* The four steps of scheduler().
LEMMA SchedulerOk ==
  ASSUME TypeOK, Sched, NEW c \in Cpus, Scheduler(c)
  PROVE  Sched'
<1>1. CASE SchedPick(c)
  BY <1>1, LeaveScheduler
<1>2. CASE SchedAcquire(c) \/ SchedBack(c) \/ SchedRelease(c)
  <2> USE DEF SchedAcquire, SchedBack, SchedRelease, switchkvm, acquire, pushcli, Enable,
              procVars, interrupts
  <2>1. CpuOK(c) /\ (SchedAcquire(c) => ncli(c) = 0)
    BY <1>2, Depth, FreeIsNoCpu DEF Sched, CpuOK, InPtable, InTicks, InKernelAt, InYield
  <2>2. CpuOK(c)'
    BY <1>2, <2>1, FreeIsNoCpu DEF TypeOK, CpuOK, InPtable, InTicks, IsOpen, InKernelAt,
           InYield
  <2>3. loop[c] # "run" /\ loop'[c] \in {"idle", "scan"} /\ proc'[c] = NoProc
    BY <1>2, <2>1 DEF TypeOK, CpuOK
  <2>4. ASSUME NEW d \in Cpus \ {c}
        PROVE  /\ UNCHANGED <<loop[d], proc[d], cr3[d], irq[d], on[d], intena[d]>>
               /\ ptable' = d <=> ptable = d
               /\ tickslock' = d <=> tickslock = d
    BY <1>2, <2>1, FreeIsNoCpu DEF TypeOK
  <2> QED
    BY <1>2, <2>2, <2>3, <2>4, CpuAlone
<1> QED
  BY <1>1, <1>2 DEF Scheduler

\* The timer interrupt comes where no lock is held, so that its own use of the
\* locks does not disturb the process it interrupts; wakeup changes sleeping
\* processes only, which no CPU executes.
LEMMA InterruptOk ==
  ASSUME TypeOK, Sched, NEW c \in Cpus, Interrupt(c)
  PROVE  Sched'
<1>1. CpuOK(c)
  BY DEF Sched
<1>2. CASE Timer(c) \/ Tick(c) \/ TickDone(c)
  <2> USE DEF Timer, Tick, TickDone, AfterTimer, acquire, pushcli, procVars
  <2>1. CpuOK(c)'
    BY <1>1, <1>2, FreeIsNoCpu DEF TypeOK, CpuOK, InPtable, InTicks, IsOpen, InKernelAt,
           InYield, Open, TicksLabels, PtableLabels
  <2>2. ASSUME NEW d \in Cpus \ {c} PROVE CpuOK(d)'
    <3>1. loop[d] = "run" => proc[d] \in Procs /\ proc[d] # proc[c]
      BY DEF Sched, Apart, CpuOK, TypeOK
    <3>2. loop[d] = "run" => UNCHANGED <<pc[proc[d]], yielding[proc[d]], state[proc[d]]>>
      BY <1>2, <3>1 DEF TypeOK
    <3>3. UNCHANGED <<loop[d], proc[d], cr3[d], irq[d], on[d], intena[d]>>
      BY <1>2, <1>1 DEF TypeOK, CpuOK, InTicks
    <3>4. /\ ptable' = d <=> ptable = d
          /\ tickslock' = d <=> tickslock = d
      BY <1>2, FreeIsNoCpu
    <3>5. CpuOK(d)
      BY DEF Sched
    <3> QED
      BY <3>2, <3>3, <3>4, <3>5, OtherCpu
  <2>3. ASSUME NEW q \in Procs PROVE SavedOK(q)'
    <3>1. RunsOn(c, q) \/ UNCHANGED yielding[q]
      BY <1>2 DEF RunsOn, TypeOK
    <3> QED
      BY <1>2, <3>1 DEF Sched, SavedOK, RunsOn
  <2>4. UNCHANGED <<loop, proc, state>>
    BY <1>2
  <2> QED
    BY <2>1, <2>2, <2>3, <2>4 DEF Sched, RunsOn, Apart
<1>3. CASE Wakeup(c)
  <2> USE DEF Wakeup, interrupts
  <2>1. CpuOK(c)'
    BY <1>1, <1>3, FreeIsNoCpu DEF TypeOK, CpuOK, InPtable, InTicks, IsOpen, InKernelAt,
           InYield, Open, TicksLabels, PtableLabels
  <2>2. ASSUME NEW d \in Cpus \ {c} PROVE CpuOK(d)'
    <3>1. loop[d] = "run" => UNCHANGED state[proc[d]]
      BY <1>3 DEF Sched, CpuOK, TypeOK
    <3> QED
      BY <1>3, <3>1, OtherCpu DEF Sched, TypeOK
  <2>3. ASSUME NEW q \in Procs PROVE SavedOK(q)'
    BY <1>3 DEF Sched, SavedOK, RunsOn
  <2>4. UNCHANGED <<loop, proc>>
    BY <1>3
  <2>5. ASSUME NEW d \in Cpus, loop[d] = "back"
        PROVE  state'[proc[d]] \in {"RUNNABLE", "SLEEPING", "ZOMBIE"}
    BY <1>3, <2>5, FreeIsNoCpu DEF Sched, CpuOK, InPtable
  <2> QED
    BY <2>1, <2>2, <2>3, <2>4, <2>5 DEF Sched, RunsOn, Apart
<1> QED
  BY <1>2, <1>3 DEF Interrupt

\* kill and wait find the other process with ptable.lock free: it is not on
\* its way off a CPU.
LEMMA KillReapOk ==
  ASSUME TypeOK, Sched, NEW c \in Cpus, NEW p \in Procs, NEW q \in Procs,
         Kill(c, p, q) \/ Reap(c, p, q)
  PROVE  Sched'
<1> USE DEF Kill, Reap, cpuVars, interrupts
<1>1. \A d \in Cpus : loop[d] # "back"
  BY FreeIsNoCpu DEF Sched, CpuOK, InPtable
<1>2. ASSUME NEW d \in Cpus PROVE CpuOK(d)'
  <2>1. loop[d] = "run" => UNCHANGED state[proc[d]]
    BY DEF Sched, CpuOK, TypeOK
  <2> QED
    BY <2>1, OtherCpu DEF Sched
<1>3. ASSUME NEW r \in Procs PROVE SavedOK(r)'
  BY DEF Sched, SavedOK, RunsOn, TypeOK
<1> QED
  BY <1>1, <1>2, <1>3 DEF Sched, Apart

\* At first all contexts are those of forkret.
LEMMA SchedInit == Init => Sched
BY FreeIsNoCpu DEF Init, Sched, CpuOK, SavedOK, InPtable, InTicks, IsOpen, InKernelAt,
       InYield, Apart, RunsOn

\* Every step keeps CPUs and contexts accounted for.
LEMMA SchedStep == TypeOK /\ Sched /\ [Next]_vars => Sched'
<1> SUFFICES ASSUME TypeOK, Sched, [Next]_vars PROVE Sched'
  OBVIOUS
<1>1. CASE UNCHANGED vars
  BY <1>1 DEF Sched, CpuOK, SavedOK, InPtable, InTicks, IsOpen, InKernelAt, InYield, Apart,
         RunsOn, vars, procVars, cpuVars, interrupts
<1>2. CASE Next
  <2>1. PICK c \in Cpus : \/ Scheduler(c) \/ Interrupt(c)
                          \/ \E p \in Procs : InKernel(c, p) \/ InUser(c, p)
    BY <1>2 DEF Next
  <2>2. ASSUME NEW p \in Procs, InKernel(c, p) PROVE Sched'
    BY <2>2, AcquireInPlace, ReleaseInPlace, PlainInPlace, YieldInPlace, EnterScheduler
       DEF InKernel, Sleep, yield
  <2>3. ASSUME NEW p \in Procs, InUser(c, p) PROVE Sched'
    BY <2>3, PlainInPlace, KillReapOk DEF InUser
  <2> QED
    BY <2>1, <2>2, <2>3, SchedulerOk, InterruptOk
<1> QED
  BY <1>1, <1>2

-----------------------------------------------------------------------------
(* myproc *)

\* Only a process that is executed, with interrupts off, is in myproc: all
\* the others are somewhere else before and after the step.
LEMMA MyprocStep == TypeOK /\ Sched /\ Myproc /\ [Next]_vars => Myproc'
<1> SUFFICES ASSUME TypeOK, Sched, Myproc, [Next]_vars PROVE Myproc'
  OBVIOUS
<1> USE DEF Myproc, RunsOn
<1>1. CASE UNCHANGED vars
  BY <1>1 DEF vars, procVars, cpuVars
<1>2. ASSUME NEW c \in Cpus, Scheduler(c) PROVE Myproc'
  <2>1. loop[c] # "run"
    BY <1>2, FreeIsNoCpu DEF Scheduler, SchedAcquire, SchedPick, SchedBack, SchedRelease
  <2>2. \A d \in Cpus \ {c} : UNCHANGED <<loop[d], proc[d]>>
    BY <1>2 DEF Scheduler, SchedAcquire, SchedPick, SchedBack, SchedRelease, TypeOK
  <2>3. UNCHANGED <<pc, cpu>>
    BY <1>2 DEF Scheduler, SchedAcquire, SchedPick, SchedBack, SchedRelease, procVars
  <2> QED
    BY <2>1, <2>2, <2>3 DEF TypeOK
<1>3. ASSUME NEW c \in Cpus, Interrupt(c) PROVE Myproc'
  BY <1>3 DEF Interrupt, Timer, Tick, Wakeup, TickDone, procVars
<1>4. ASSUME NEW c \in Cpus, NEW p \in Procs, mycpu(c, p) PROVE Myproc'
  BY <1>4, FreeIsNoCpu DEF mycpu, At, Goto, cpuVars, TypeOK
<1>5. ASSUME NEW c \in Cpus, NEW p \in Procs, myproc(c, p) PROVE Myproc'
  BY <1>5 DEF myproc, At, Goto, cpuVars, TypeOK
<1>6. ASSUME NEW c \in Cpus, NEW p \in Procs,
             \/ SleepSwitch(c, p) \/ ExitSwitch(c, p) \/ YieldSwitch(c, p)
      PROVE  Myproc'
  <2>1. pc[p] # "myproc" /\ loop[c] = "run" /\ proc[c] = p
    BY <1>6 DEF SleepSwitch, ExitSwitch, YieldSwitch, At, Yields, Sched, CpuOK, Open
  <2> QED
    BY <1>6, <2>1 DEF SleepSwitch, ExitSwitch, YieldSwitch, sched, Goto, TypeOK
<1>7. ASSUME NEW c \in Cpus, NEW p \in Procs,
             \/ Forkret(c, p) \/ YieldAcquire(c, p) \/ YieldResumed(c, p) \/ YieldReturn(c, p)
             \/ ExitAcquire(c, p) \/ SleepStart(c, p) \/ SleepTest(c, p) \/ SleepAcquire(c, p)
             \/ SleepRelease(c, p) \/ SleepWoken(c, p) \/ SleepRelock(c, p) \/ SleepDone(c, p)
             \/ InUser(c, p)
      PROVE  Myproc'
  <2>1. UNCHANGED <<loop, proc, cpu>>
    BY <1>7 DEF Forkret, YieldAcquire, YieldResumed, YieldReturn, ExitAcquire, SleepStart,
           SleepTest, SleepAcquire,
       SleepRelease, SleepWoken, SleepRelock, SleepDone, InUser, SysSleep, Kill, Reap, cpuVars
  <2>2. \A q \in Procs : pc[q] = "myproc" <=> pc'[q] = "myproc"
    BY <1>7 DEF Forkret, YieldAcquire, YieldResumed, YieldReturn, ExitAcquire, SleepStart,
           SleepTest, SleepAcquire,
       SleepRelease, SleepWoken, SleepRelock, SleepDone, InUser, SysSleep, Kill, Reap, Goto,
       At, TypeOK
  <2> QED
    BY <2>1, <2>2
<1> QED
  BY <1>1, <1>2, <1>3, <1>4, <1>5, <1>6, <1>7 DEF Next, InKernel, Sleep, yield

-----------------------------------------------------------------------------
(* wakeup *)

\* Who is between its test and sleep holds tickslock, and who is falling
\* asleep ptable.lock.
LEMMA Holders ==
  ASSUME TypeOK, Sched, NEW p \in Procs
  PROVE  /\ pc[p] \in {"sleep", "release"} => tickslock # Free
         /\ pc[p] \in {"release", "asleep"} => ptable # Free
<1> SUFFICES ASSUME pc[p] \in {"sleep", "release", "asleep"}
             PROVE  \E c \in Cpus : InKernelAt(c, {pc[p]})
  BY FreeIsNoCpu DEF Sched, CpuOK, InPtable, InTicks, InKernelAt, PtableLabels, TicksLabels
<1>1. PICK c \in Cpus : RunsOn(c, p)
  BY DEF Sched, SavedOK, Open
<1> QED
  BY <1>1 DEF Sched, CpuOK, RunsOn, InKernelAt, Open

\* A step without a tick and without a wakeup keeps the promise to those who
\* were not at the test.
LEMMA WakesKept ==
  ASSUME Wakes, UNCHANGED <<ticks, irq>>,
         \A p \in Procs :
           \/ /\ UNCHANGED <<n[p], ticks0[p]>>
              /\ pc'[p] \in {"sleep", "release"} => pc[p] \in {"sleep", "release"} \/ Early(p)
              /\ pc'[p] = "asleep" => pc[p] \in {"release", "asleep"}
              /\ state'[p] = "SLEEPING" => state[p] = "SLEEPING" \/ pc[p] = "asleep"
           \/ /\ pc'[p] \notin {"sleep", "release", "asleep"}
              /\ state'[p] # "SLEEPING"
  PROVE  Wakes'
BY DEF Wakes, Early, Waking

\* A tick breaks the promise to sleepers only until its wakeup, which cannot
\* pass by a process on its way into sleep: that one holds ptable.lock.
LEMMA WakesStep == TypeOK /\ Sched /\ Wakes /\ [Next]_vars => Wakes'
<1> SUFFICES ASSUME TypeOK, Sched, Wakes, [Next]_vars PROVE Wakes'
  OBVIOUS
<1>1. CASE UNCHANGED vars
  BY <1>1 DEF Wakes, Early, Waking, vars, procVars, cpuVars
<1>2. ASSUME NEW c \in Cpus, Scheduler(c) PROVE Wakes'
  <2>1. UNCHANGED <<ticks, irq, n, ticks0, pc>>
    BY <1>2 DEF Scheduler, SchedAcquire, SchedPick, SchedBack, SchedRelease, procVars
  <2>2. \A p \in Procs : state'[p] = "SLEEPING" => state[p] = "SLEEPING"
    BY <1>2 DEF Scheduler, SchedAcquire, SchedPick, SchedBack, SchedRelease, procVars,
           TypeOK, Ahead
  <2> QED
    BY <2>1, <2>2, WakesKept
<1>3. ASSUME NEW c \in Cpus, Timer(c) PROVE Wakes'
  BY <1>3 DEF Timer, AfterTimer, Wakes, Waking, Early, Sched, CpuOK, IsOpen, TypeOK
<1>4. ASSUME NEW c \in Cpus, Tick(c) PROVE Wakes'
  BY <1>4, Holders DEF Tick, acquire, procVars, Wakes, Waking, TypeOK
<1>5. ASSUME NEW c \in Cpus, Wakeup(c) PROVE Wakes'
  <2>1. \A p \in Procs : state'[p] # "SLEEPING" /\ pc[p] # "asleep"
    BY <1>5, Holders DEF Wakeup, Sched, SavedOK, RunsOn, CpuOK, TypeOK
  <2> QED
    BY <1>5, <2>1, Holders DEF Wakeup, Wakes, Early
<1>6. ASSUME NEW c \in Cpus, TickDone(c) PROVE Wakes'
  BY <1>6 DEF TickDone, AfterTimer, Wakes, Waking, Early, TypeOK
<1>7. ASSUME NEW c \in Cpus, NEW p \in Procs, Sleep(c, p) PROVE Wakes'
  <2>1. UNCHANGED <<ticks, irq>>
    BY <1>7 DEF Sleep, mycpu, myproc, SleepStart, SleepTest, SleepAcquire, SleepRelease,
           SleepSwitch, SleepWoken, SleepRelock, SleepDone, cpuVars
  <2>2. RunsOn(c, p) /\ state[p] # "SLEEPING"
    BY <1>7 DEF Sleep, mycpu, myproc, SleepStart, SleepTest, SleepAcquire, SleepRelease,
           SleepSwitch, SleepWoken, SleepRelock, SleepDone, At, RunsOn, Sched, CpuOK
  <2>3. \A q \in Procs \ {p} : UNCHANGED <<n[q], ticks0[q], pc[q], state[q]>>
    BY <1>7 DEF Sleep, mycpu, myproc, SleepStart, SleepTest, SleepAcquire, SleepRelease,
           SleepSwitch, SleepWoken, SleepRelock, SleepDone, Goto, TypeOK
  <2>4. CASE SleepDone(c, p) \/ SleepStart(c, p)
    BY <2>1, <2>2, <2>3, <2>4, WakesKept DEF SleepDone, SleepStart, Goto, TypeOK
  <2>5. CASE ~(SleepDone(c, p) \/ SleepStart(c, p))
    <3>1. UNCHANGED <<n, ticks0>>
      BY <1>7, <2>5 DEF Sleep, mycpu, myproc, SleepTest, SleepAcquire, SleepRelease,
             SleepSwitch, SleepWoken, SleepRelock
    <3>2. /\ pc'[p] \in {"sleep", "release"} => pc[p] \in {"sleep", "release"} \/ Early(p)
          /\ pc'[p] = "asleep" => pc[p] = "release"
          /\ state'[p] = "SLEEPING" => pc[p] = "asleep"
      BY <1>7, <2>2, <2>5 DEF Sleep, mycpu, myproc, SleepTest, SleepAcquire, SleepRelease,
             SleepSwitch, SleepWoken, SleepRelock, Goto, At, TypeOK
    <3> QED
      BY <2>1, <2>3, <3>1, <3>2, WakesKept
  <2> QED
    BY <2>4, <2>5
<1>8. ASSUME NEW c \in Cpus, NEW p \in Procs, NEW a \in Arguments, SysSleep(c, p, a) PROVE Wakes'
  BY <1>8, WakesKept DEF SysSleep, Goto, At, TypeOK, cpuVars, Sched, CpuOK
<1>9. ASSUME NEW c \in Cpus, NEW p \in Procs,
             \/ Forkret(c, p) \/ yield(c, p) \/ ExitAcquire(c, p) \/ ExitSwitch(c, p)
             \/ \E q \in Procs : Kill(c, p, q) \/ Reap(c, p, q)
      PROVE  Wakes'
  <2>1. UNCHANGED <<ticks, irq, n, ticks0>>
    BY <1>9 DEF Forkret, yield, YieldAcquire, YieldSwitch, YieldResumed, YieldReturn,
           ExitAcquire, ExitSwitch, Kill, Reap, cpuVars
  <2>2. \A q \in Procs : /\ state'[q] = "SLEEPING" => state[q] = "SLEEPING"
                         /\ pc'[q] = pc[q] \/ pc'[q] \in {"user", "exit", "zombie"}
    BY <1>9 DEF Forkret, yield, YieldAcquire, YieldSwitch, YieldResumed, YieldReturn,
           ExitAcquire, ExitSwitch, Kill, Reap, Goto, TypeOK
  <2> QED
    BY <2>1, <2>2, WakesKept
<1> QED
  BY <1>1, <1>2, <1>3, <1>4, <1>5, <1>6, <1>7, <1>8, <1>9
     DEF Next, InKernel, InUser, Interrupt

-----------------------------------------------------------------------------
(* The ticks of a sleep *)

\* A remainder, on both sides of zero.
LEMMA Remainder ==
  /\ \A a \in 0 .. Word - 1 : a % Word = a
  /\ \A a \in (-Word) .. (-1) : a % Word = a + Word
  /\ Word % Word = 0
BY SleepAssumption

\* One tick more, wherever the two counts are.
LEMMA OneMore ==
  ASSUME NEW t \in 0 .. Word - 1, NEW t0 \in 0 .. Word - 1, NEW s \in Nat,
         s + 1 < Word, (t - t0) % Word = s
  PROVE  (((t + 1) % Word) - t0) % Word = s + 1
<1>1. s = IF t >= t0 THEN t - t0 ELSE t - t0 + Word
  <2>1. CASE t >= t0
    BY <2>1, Remainder, SleepAssumption
  <2>2. CASE t < t0
    <3>1. t - t0 \in (-Word) .. (-1)
      BY <2>2, SleepAssumption
    <3> QED
      BY <2>2, <3>1, Remainder, SleepAssumption
  <2> QED
    BY <2>1, <2>2
<1>2. CASE t + 1 < Word
  <2>1. (t + 1) % Word = t + 1
    BY <1>2, Remainder, SleepAssumption
  <2>2. CASE t + 1 >= t0
    <3>1. t + 1 - t0 \in 0 .. Word - 1
      BY <1>2, <2>2, SleepAssumption
    <3>2. (t + 1 - t0) % Word = t + 1 - t0
      BY <3>1, Remainder
    <3>3. t >= t0
      BY <1>1, <2>2, SleepAssumption
    <3> QED
      BY <1>1, <2>1, <3>2, <3>3, SleepAssumption
  <2>3. CASE t + 1 < t0
    <3>1. t + 1 - t0 \in (-Word) .. (-1)
      BY <2>3, SleepAssumption
    <3>2. (t + 1 - t0) % Word = t + 1 - t0 + Word
      BY <3>1, Remainder
    <3> QED
      BY <1>1, <2>1, <2>3, <3>2, SleepAssumption
  <2> QED
    BY <2>2, <2>3
<1>3. CASE t + 1 = Word
  <2>1. (t + 1) % Word = 0
    BY <1>3, Remainder
  <2>2. -t0 \in (-Word) .. (-1) /\ t0 > 0
    BY <1>1, <1>3, SleepAssumption
  <2>3. (-t0) % Word = Word - t0
    BY <2>2, Remainder, SleepAssumption
  <2> QED
    BY <1>1, <1>3, <2>1, <2>3, SleepAssumption
<1> QED
  BY <1>2, <1>3, SleepAssumption

\* A step without a tick leaves the counts of those in sys_sleep alone.
LEMMA ElapsedKept ==
  ASSUME TypeOK, Elapsed, UNCHANGED ticks,
         \A p \in Procs : InSleep(p)' => InSleep(p) /\ UNCHANGED <<slept[p], ticks0[p]>>
  PROVE  Elapsed'
BY DEF Elapsed

\* Every step keeps them equal.
LEMMA ElapsedStep == TypeOK /\ Elapsed /\ [Next]_vars => Elapsed'
<1> SUFFICES ASSUME TypeOK, Elapsed, [Next]_vars PROVE Elapsed'
  OBVIOUS
<1>1. CASE UNCHANGED vars
  BY <1>1 DEF Elapsed, InSleep, vars, procVars
<1>2. ASSUME NEW c \in Cpus, Tick(c) PROVE Elapsed'
  <2> SUFFICES ASSUME NEW p \in Procs, InSleep(p)', slept'[p] < Word
               PROVE  (ticks' - ticks0'[p]) % Word = slept'[p]
    BY DEF Elapsed
  <2>1. InSleep(p) /\ ticks' = (ticks + 1) % Word /\ ticks0' = ticks0
    BY <1>2 DEF Tick, InSleep, procVars
  <2>2. slept[p] \in Nat /\ ticks \in 0 .. Word - 1 /\ ticks0[p] \in 0 .. Word - 1
    BY SleepAssumption DEF TypeOK
  <2>3. slept[p] + 1 < Word /\ slept'[p] = slept[p] + 1
    BY <1>2, <2>1, <2>2, SleepAssumption DEF Tick
  <2>4. (ticks - ticks0[p]) % Word = slept[p]
    BY <2>1, <2>2, <2>3, SleepAssumption DEF Elapsed
  <2> QED
    BY <2>1, <2>2, <2>3, <2>4, OneMore
<1>3. ASSUME NEW c \in Cpus, NEW p \in Procs, SleepStart(c, p) PROVE Elapsed'
  <2> SUFFICES ASSUME NEW q \in Procs, InSleep(q)', slept'[q] < Word
               PROVE  (ticks' - ticks0'[q]) % Word = slept'[q]
    BY DEF Elapsed
  <2>1. CASE q = p
    <3>1. ticks' = ticks /\ ticks0'[q] = ticks /\ slept'[q] = 0
      BY <1>3, <2>1 DEF SleepStart, TypeOK
    <3>2. ticks - ticks = 0 /\ 0 % Word = 0
      BY Remainder, SleepAssumption DEF TypeOK
    <3> QED
      BY <3>1, <3>2
  <2>2. CASE q # p
    BY <1>3, <2>2 DEF SleepStart, Elapsed, InSleep, Goto, TypeOK
  <2> QED
    BY <2>1, <2>2
<1>4. ASSUME NEW c \in Cpus, NEW p \in Procs, SleepDone(c, p) PROVE Elapsed'
  <2>1. /\ UNCHANGED ticks
        /\ \A q \in Procs : InSleep(q)' => InSleep(q) /\ UNCHANGED <<slept[q], ticks0[q]>>
    BY <1>4 DEF SleepDone, Goto, InSleep, TypeOK
  <2> QED
    BY <2>1, ElapsedKept
<1>5. ASSUME NEW c \in Cpus, Scheduler(c) \/ Timer(c) \/ Wakeup(c) \/ TickDone(c)
      PROVE  Elapsed'
  <2>1. UNCHANGED <<ticks, slept, ticks0, pc>>
    BY <1>5 DEF Scheduler, SchedAcquire, SchedPick, SchedBack, SchedRelease, Timer, Wakeup,
           TickDone, procVars
  <2> QED
    BY <2>1, ElapsedKept DEF InSleep
<1>6. ASSUME NEW c \in Cpus, NEW p \in Procs,
             \/ mycpu(c, p) \/ myproc(c, p) \/ SleepTest(c, p) \/ SleepAcquire(c, p)
             \/ SleepRelease(c, p) \/ SleepSwitch(c, p) \/ SleepWoken(c, p)
             \/ SleepRelock(c, p) \/ Forkret(c, p) \/ yield(c, p) \/ ExitAcquire(c, p)
             \/ ExitSwitch(c, p) \/ InUser(c, p)
      PROVE  Elapsed'
  <2>1. UNCHANGED <<ticks, slept, ticks0>>
    BY <1>6 DEF mycpu, myproc, SleepTest, SleepAcquire, SleepRelease, SleepSwitch, SleepWoken,
           SleepRelock, Forkret, yield, YieldAcquire, YieldSwitch, YieldResumed, YieldReturn,
           ExitAcquire, ExitSwitch, InUser, SysSleep, Kill, Reap, procVars
  <2>2. \A q \in Procs : InSleep(q)' => InSleep(q)
    BY <1>6 DEF mycpu, myproc, SleepTest, SleepAcquire, SleepRelease, SleepSwitch, SleepWoken,
           SleepRelock, Forkret, yield, YieldAcquire, YieldSwitch, YieldResumed, YieldReturn,
           ExitAcquire, ExitSwitch, InUser, SysSleep, Kill, Reap, procVars, InSleep, Goto, At,
           TypeOK
  <2> QED
    BY <2>1, <2>2, ElapsedKept
<1> QED
  BY <1>1, <1>2, <1>3, <1>4, <1>5, <1>6 DEF Next, InKernel, Sleep, Interrupt

-----------------------------------------------------------------------------
(* The inductive invariant, and what follows from it *)

\* The invariant holds at first,
LEMMA InitOk == Init => IInv
<1> SUFFICES ASSUME Init PROVE IInv
  OBVIOUS
<1>1. Myproc /\ Wakes /\ Elapsed
  BY DEF Init, Myproc, Wakes, Elapsed, InSleep
<1> QED
  BY <1>1, TypeInit, SchedInit DEF IInv

\* and every step keeps it.
LEMMA StepOk == IInv /\ [Next]_vars => IInv'
BY TypeStep, SchedStep, MyprocStep, WakesStep, ElapsedStep DEF IInv

\* The inductive invariant holds in every behaviour, for every number of
\* processes and CPUs and every width of a word.
THEOREM Invariance == Spec => []IInv
<1> QED
  BY InitOk, StepOk, PTL DEF Spec

\* Types.
THEOREM TypeCorrect == Spec => []TypeOK
<1>1. IInv => TypeOK
  BY DEF IInv
<1> QED
  BY <1>1, Invariance, PTL

\* No CPU continues a context that another one still uses (proc.c:322-392).
THEOREM OneCpu == Spec => []OneCpuPerProcess
<1>1. IInv => OneCpuPerProcess
  <2> SUFFICES ASSUME IInv PROVE OneCpuPerProcess
    OBVIOUS
  <2> USE DEF IInv, Sched
  <2>1. \A p \in Procs : state[p] = "RUNNING" => \E c \in Cpus : proc[c] = p /\ loop[c] = "run"
    BY DEF SavedOK, RunsOn
  <2>2. \A c \in Cpus : loop[c] = "run" /\ state[proc[c]] # "RUNNING" => ptable = c
    BY DEF CpuOK, InPtable, InYield
  <2> QED
    BY <2>1, <2>2 DEF OneCpuPerProcess, Apart
<1> QED
  BY <1>1, Invariance, PTL

\* ptable.lock and tickslock are held by the CPU that is in the code between
\* acquire and release, so the assertions of sched (proc.c:371-378) hold, and
\* interrupts are on exactly outside such code.
THEOREM Locks == Spec => []LocksAccounted
<1>1. IInv => LocksAccounted
  <2> SUFFICES ASSUME IInv, NEW c \in Cpus
               PROVE  /\ ptable = c <=>
                           \/ loop[c] \in {"scan", "back"}
                           \/ \E p \in Procs :
                                \/ \E label \in {"forkret", "release", "asleep", "woken", "exit"} :
                                     At(c, p, label)
                                \/ Yields(c, p, "switch") \/ Yields(c, p, "resumed")
                      /\ tickslock = c <=>
                           \/ irq[c] \in {"wakeup", "release"}
                           \/ \E p \in Procs, label \in {"test", "sleep", "release", "done"} :
                                At(c, p, label)
                      /\ on[c] <=>
                           /\ ncli(c) = 0 /\ irq[c] = "no"
                           /\ loop[c] = "idle" \/ (loop[c] = "run" /\ yielding[proc[c]] = "no")
    BY DEF LocksAccounted
  <2>1. CpuOK(c) /\ TypeOK
    BY DEF IInv, Sched
  <2>2. loop[c] = "run" => proc[c] \in Procs
    BY <2>1 DEF CpuOK, TypeOK
  <2>3. InPtable(c) <=>
          \/ loop[c] \in {"scan", "back"}
          \/ \E p \in Procs :
               \/ \E label \in {"forkret", "release", "asleep", "woken", "exit"} : At(c, p, label)
               \/ Yields(c, p, "switch") \/ Yields(c, p, "resumed")
    BY <2>2 DEF InPtable, InKernelAt, InYield, PtableLabels, At, Yields
  <2>4. InTicks(c) <=>
          \/ irq[c] \in {"wakeup", "release"}
          \/ \E p \in Procs, label \in {"test", "sleep", "release", "done"} : At(c, p, label)
    BY <2>2 DEF InTicks, InKernelAt, TicksLabels, At
  <2>5. IsOpen(c) <=>
          /\ ncli(c) = 0 /\ irq[c] = "no"
          /\ loop[c] = "idle" \/ (loop[c] = "run" /\ yielding[proc[c]] = "no")
    <3>1. ncli(c) = 0 <=> ~InPtable(c) /\ ~InTicks(c) /\ ~InKernelAt(c, {"myproc"})
      BY <2>1, Depth DEF IInv
    <3> QED
      BY <2>1, <2>2, <3>1 DEF IsOpen, InPtable, InTicks, InKernelAt, InYield, Open,
         PtableLabels, TicksLabels, CpuOK, TypeOK, Labels
  <2> QED
    BY <2>1, <2>3, <2>4, <2>5 DEF CpuOK
<1> QED
  BY <1>1, Invariance, PTL

\* myproc (proc.c:57-66) answers with its caller.
THEOREM MyprocCorrect == Spec => []MyprocIsCaller
<1>1. IInv => MyprocIsCaller
  BY DEF IInv, Myproc, MyprocIsCaller, RunsOn
<1> QED
  BY <1>1, Invariance, PTL

\* wait (proc.c:285-296) frees no page table that a CPU still uses.
THEOREM FreedAfterUse == Spec => []FreedUnused
<1>1. IInv => FreedUnused
  <2> SUFFICES ASSUME IInv, NEW c \in Cpus, proc[c] # NoProc
               PROVE  state[proc[c]] # "UNUSED"
    BY DEF FreedUnused, IInv, Sched, CpuOK
  <2>1. loop[c] \in {"run", "back"}
    BY DEF IInv, Sched, CpuOK, TypeOK
  <2> QED
    BY <2>1 DEF IInv, Sched, CpuOK
<1> QED
  BY <1>1, Invariance, PTL

\* Who sleeps has slept less than he asked for, or the wakeup is on its way
\* (proc.c:430-433), even if ticks wraps around.
THEOREM NoWakeupLost == Spec => []NoLostWakeup
<1>1. IInv => NoLostWakeup
  <2> SUFFICES ASSUME IInv, NEW p \in Procs, state[p] = "SLEEPING"
               PROVE  /\ (\A c \in Cpus : irq[c] # "wakeup") => slept[p] < n[p] \/ slept[p] = Word
                      /\ pc[p] = "woken" /\ chan[p] = TicksChan
    BY DEF NoLostWakeup
  <2>1. \A c \in Cpus : ~RunsOn(c, p)
    BY DEF IInv, Sched, CpuOK, RunsOn
  <2>2. pc[p] = "woken" /\ chan[p] = TicksChan
    BY <2>1 DEF IInv, Sched, SavedOK
  <2>3. slept[p] < Word => (ticks - ticks0[p]) % Word = slept[p]
    BY <2>2 DEF IInv, Elapsed, InSleep
  <2>4. (\A c \in Cpus : irq[c] # "wakeup") => (ticks - ticks0[p]) % Word < n[p]
    BY DEF IInv, Wakes, Waking, Early
  <2>5. slept[p] < Word \/ slept[p] = Word
    BY SleepAssumption DEF IInv, TypeOK
  <2> QED
    BY <2>2, <2>3, <2>4, <2>5
<1> QED
  BY <1>1, Invariance, PTL
=============================================================================
