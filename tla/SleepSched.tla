----------------------------- MODULE SleepSched -----------------------------
(***************************************************************************)
(* xv6 proc.c: the scheduler of each CPU, sched, yield, sleep and wakeup,  *)
(* with sys_sleep and the timer interrupt as their users.  ptable.lock is  *)
(* taken by one side of a context switch and released by the other, and    *)
(* sleep gives up its caller's lock in between.                            *)
(*                                                                         *)
(* Spinlocks are held by CPUs; a CPU with a lock takes no interrupts, and  *)
(* remembers in intena whether to take them again.  Taking a lock and      *)
(* giving it back are steps of their own, and what happens in between, or  *)
(* on the way into swtch, is one step.                                     *)
(***************************************************************************)
EXTENDS Integers

CONSTANTS
  NPROC,       \* processes 1 .. NPROC
  NCPU,        \* CPUs 0 .. NCPU - 1; CPU 0 counts the ticks
  Word,        \* a uint is a number modulo Word
  Arguments    \* of the system call sleep, signed

ASSUME SleepAssumption ==
  /\ NPROC \in Nat \ {0} /\ NCPU \in Nat \ {0}
  /\ Word \in Nat \ {0}
  /\ Arguments \subseteq Int

VARIABLES
  state, chan, killed,    \* fields of struct proc
  pc,                     \* where the saved or running context of a process is
  yielding,               \* where it is in yield, on top of that
  n, ticks0,              \* local variables of sys_sleep
  cpu,                    \* local variable c of myproc, or NoCpu
  loop, proc, scan,       \* of each CPU: where scheduler() is, c->proc, and its p
  cr3,                    \* of each CPU: whose page table it uses, NoProc for kpgdir
  irq,                    \* of each CPU: where it is in the timer interrupt
  on, intena,             \* of each CPU: does it take interrupts, and did it before
                          \* its first pushcli?
  kept,                   \* of each process: intena in its sched
  ptable, tickslock,      \* the CPU that holds the lock, or Free
  ticks,
  slept                   \* history: how many ticks came while the process was in
                          \* sys_sleep, at most Word

procVars == <<state, chan, killed, pc, yielding, n, ticks0, cpu>>
cpuVars == <<loop, proc, scan, cr3, irq>>
interrupts == <<on, intena>>
clock == <<ticks, slept>>
vars == <<procVars, cpuVars, interrupts, kept, ptable, tickslock, clock>>

Procs == 1 .. NPROC
Cpus == 0 .. NCPU - 1
NoProc == 0
Free == -1
NoCpu == -1
TicksChan == 1       \* &ticks; 0 is no channel

\* All processes have been forked and none has run.
Init ==
  /\ state = [p \in Procs |-> "RUNNABLE"]
  /\ chan = [p \in Procs |-> 0]
  /\ killed = [p \in Procs |-> FALSE]
  /\ pc = [p \in Procs |-> "forkret"]
  /\ yielding = [p \in Procs |-> "no"]
  /\ n = [p \in Procs |-> 0]
  /\ ticks0 = [p \in Procs |-> 0]
  /\ cpu = [p \in Procs |-> NoCpu]
  /\ loop = [c \in Cpus |-> "idle"]
  /\ proc = [c \in Cpus |-> NoProc]
  /\ scan = [c \in Cpus |-> 1]
  /\ cr3 = [c \in Cpus |-> NoProc]
  /\ irq = [c \in Cpus |-> "no"]
  /\ on = [c \in Cpus |-> TRUE]
  /\ intena = [c \in Cpus |-> FALSE]
  /\ kept = [p \in Procs |-> FALSE]
  /\ ptable = Free
  /\ tickslock = Free
  /\ ticks = 0
  /\ slept = [p \in Procs |-> 0]

Goto(p, label) == pc' = [pc EXCEPT ![p] = label]

\* CPU c executes process p, in p's own code, at label.
At(c, p, label) ==
  /\ loop[c] = "run" /\ proc[c] = p /\ irq[c] = "no" /\ yielding[p] = "no"
  /\ pc[p] = label

\* How often the CPU has turned interrupts off: once for each lock it holds,
\* and once inside myproc.
ncli(c) ==
  (IF ptable = c THEN 1 ELSE 0) + (IF tickslock = c THEN 1 ELSE 0)
    + (IF \E p \in Procs : At(c, p, "myproc") THEN 1 ELSE 0)

pushcli(c) ==
  /\ on' = [on EXCEPT ![c] = FALSE]
  /\ intena' = IF ncli(c) = 0 THEN [intena EXCEPT ![c] = on[c]] ELSE intena

\* After the last popcli nobody looks at intena before the next pushcli.
popcli(c) ==
  /\ on' = IF ncli(c) = 1 THEN [on EXCEPT ![c] = intena[c]] ELSE on
  /\ intena' = IF ncli(c) = 1 THEN [intena EXCEPT ![c] = FALSE] ELSE intena

\* The CPU gives a lock back and goes on, by sti or iret, with interrupts on.
Enable(c) ==
  /\ on' = [on EXCEPT ![c] = TRUE]
  /\ intena' = [intena EXCEPT ![c] = FALSE]

\* acquire and release, of a lock by a CPU
acquire(lk, c) == lk = Free /\ lk' = c /\ pushcli(c)
release(lk, c) == lk = c /\ lk' = Free /\ popcli(c)

-----------------------------------------------------------------------------
(* scheduler *)

SchedAcquire(c) ==
  /\ loop[c] = "idle" /\ irq[c] = "no"
  /\ acquire(ptable, c)
  /\ loop' = [loop EXCEPT ![c] = "scan"]
  /\ scan' = [scan EXCEPT ![c] = 1]
  /\ UNCHANGED <<procVars, proc, cr3, irq, tickslock, clock, kept>>

\* The runnable processes that the loop has yet to look at.
Ahead(c) == {p \in Procs : state[p] = "RUNNABLE" /\ p >= scan[c]}

\* The CPU loads p's page table, or the kernel's own.
switchuvm(c, p) == cr3' = [cr3 EXCEPT ![c] = p]
switchkvm(c) == cr3' = [cr3 EXCEPT ![c] = NoProc]

\* Mutant: sched does not restore intena.
Restored_NotSaved(c, p) == intena[c]

\* Behind the switch sched restores the intena of the process; a process that
\* has never run finds the scheduler's.
Restored(c, p) == IF pc[p] = "forkret" THEN intena[c] ELSE kept[p]

\* Switch to the next of them; ptable.lock is now the process's to release.
SchedPick(c) ==
  /\ loop[c] = "scan"
  /\ \E p \in Ahead(c) :
       /\ \A q \in Ahead(c) : p <= q
       /\ proc' = [proc EXCEPT ![c] = p]
       /\ scan' = [scan EXCEPT ![c] = p + 1]
       /\ switchuvm(c, p)
       /\ state' = [state EXCEPT ![p] = "RUNNING"]
       /\ intena' = [intena EXCEPT ![c] = Restored(c, p)]
       /\ kept' = [kept EXCEPT ![p] = FALSE]
  /\ loop' = [loop EXCEPT ![c] = "run"]
  /\ UNCHANGED <<chan, killed, pc, yielding, n, ticks0, cpu, irq, on, ptable, tickslock, clock>>

\* Mutant: the page table stays loaded until the next process is chosen.
SchedBack_KeepsPageTable(c) ==
  /\ loop[c] = "back"
  /\ proc' = [proc EXCEPT ![c] = NoProc]
  /\ loop' = [loop EXCEPT ![c] = "scan"]
  /\ UNCHANGED <<procVars, scan, cr3, irq, ptable, tickslock, clock, interrupts, kept>>

\* The process has switched back.
SchedBack(c) ==
  /\ loop[c] = "back"
  /\ switchkvm(c)
  /\ proc' = [proc EXCEPT ![c] = NoProc]
  /\ loop' = [loop EXCEPT ![c] = "scan"]
  /\ UNCHANGED <<procVars, scan, irq, ptable, tickslock, clock, interrupts, kept>>

\* Release the lock, and back at the head of the loop, sti.
SchedRelease(c) ==
  /\ loop[c] = "scan" /\ Ahead(c) = {}
  /\ ptable = c /\ ptable' = Free
  /\ Enable(c)
  /\ loop' = [loop EXCEPT ![c] = "idle"]
  /\ UNCHANGED <<procVars, proc, scan, cr3, irq, tickslock, clock, kept>>

Scheduler(c) == SchedAcquire(c) \/ SchedPick(c) \/ SchedBack(c) \/ SchedRelease(c)

\* sched: back to the scheduler of the CPU, with the CPU's intena saved.
sched(c) ==
  /\ kept' = [kept EXCEPT ![proc[c]] = intena[c]]
  /\ loop' = [loop EXCEPT ![c] = "back"]

\* Release the lock and, behind it, return to user mode.
Forkret(c, p) ==
  /\ At(c, p, "forkret")
  /\ ptable = c /\ ptable' = Free
  /\ Enable(c)
  /\ Goto(p, "user")
  /\ UNCHANGED <<state, chan, killed, yielding, n, ticks0, cpu, cpuVars, tickslock, clock, kept>>

-----------------------------------------------------------------------------
(* sys_sleep and sleep *)

SysSleep(c, p, arg) ==
  /\ At(c, p, "user") /\ ~killed[p]
  /\ n' = [n EXCEPT ![p] = arg % Word]
  /\ Goto(p, "mycpu")
  /\ UNCHANGED <<state, chan, killed, yielding, ticks0, cpu, cpuVars, ptable, tickslock, clock,
                 interrupts, kept>>

\* Mutant: without pushcli.
mycpu_NoPushcli(c, p) ==
  /\ At(c, p, "mycpu")
  /\ cpu' = [cpu EXCEPT ![p] = c]
  /\ Goto(p, "myproc")
  /\ UNCHANGED <<state, chan, killed, yielding, n, ticks0, cpuVars, interrupts, kept, ptable,
                 tickslock, clock>>

\* argint asks for the current process: myproc turns interrupts off and
\* looks up the CPU it runs on,
mycpu(c, p) ==
  /\ At(c, p, "mycpu")
  /\ pushcli(c)
  /\ cpu' = [cpu EXCEPT ![p] = c]
  /\ Goto(p, "myproc")
  /\ UNCHANGED <<state, chan, killed, yielding, n, ticks0, cpuVars, ptable, tickslock, clock, kept>>

\* reads the process from that CPU, and turns them on again.
myproc(c, p) ==
  /\ At(c, p, "myproc")
  /\ popcli(c)
  /\ cpu' = [cpu EXCEPT ![p] = NoCpu]
  /\ Goto(p, "lock")
  /\ UNCHANGED <<state, chan, killed, yielding, n, ticks0, cpuVars, ptable, tickslock, clock, kept>>

SleepStart(c, p) ==
  /\ At(c, p, "lock")
  /\ acquire(tickslock, c)
  /\ ticks0' = [ticks0 EXCEPT ![p] = ticks]
  /\ slept' = [slept EXCEPT ![p] = 0]
  /\ Goto(p, "test")
  /\ UNCHANGED <<state, chan, killed, yielding, n, cpu, cpuVars, ptable, ticks, kept>>

InSleep(p) == pc[p] \in {"test", "sleep", "release", "asleep", "woken", "relock", "done"}

\* The comparison of two uints, whatever the sign of the argument was.
Early(p) == (ticks - ticks0[p]) % Word < n[p]

SleepTest(c, p) ==
  /\ At(c, p, "test")
  /\ Goto(p, IF Early(p) /\ ~killed[p] THEN "sleep" ELSE "done")
  /\ UNCHANGED <<state, chan, killed, yielding, n, ticks0, cpu, cpuVars, ptable, tickslock,
                 clock, interrupts, kept>>

\* Mutant: the caller's lock is released before ptable.lock is taken.
SleepAcquire_AfterRelease(c, p) ==
  \/ /\ At(c, p, "sleep") /\ tickslock = c
     /\ release(tickslock, c)
     /\ UNCHANGED <<procVars, cpuVars, ptable, clock, kept>>
  \/ /\ At(c, p, "sleep") /\ tickslock # c
     /\ acquire(ptable, c)
     /\ Goto(p, "asleep")
     /\ UNCHANGED <<state, chan, killed, yielding, n, ticks0, cpu, cpuVars, tickslock, clock, kept>>

SleepAcquire(c, p) ==
  /\ At(c, p, "sleep")
  /\ acquire(ptable, c)
  /\ Goto(p, "release")
  /\ UNCHANGED <<state, chan, killed, yielding, n, ticks0, cpu, cpuVars, tickslock, clock, kept>>

SleepRelease(c, p) ==
  /\ At(c, p, "release")
  /\ release(tickslock, c)
  /\ Goto(p, "asleep")
  /\ UNCHANGED <<state, chan, killed, yielding, n, ticks0, cpu, cpuVars, ptable, clock, kept>>

SleepSwitch(c, p) ==
  /\ At(c, p, "asleep")
  /\ chan' = [chan EXCEPT ![p] = TicksChan]
  /\ state' = [state EXCEPT ![p] = "SLEEPING"]
  /\ sched(c)
  /\ Goto(p, "woken")
  /\ UNCHANGED <<killed, yielding, n, ticks0, cpu, proc, scan, cr3, irq, ptable, tickslock,
                 clock, interrupts>>

SleepWoken(c, p) ==
  /\ At(c, p, "woken")
  /\ chan' = [chan EXCEPT ![p] = 0]
  /\ release(ptable, c)
  /\ Goto(p, "relock")
  /\ UNCHANGED <<state, killed, yielding, n, ticks0, cpu, cpuVars, tickslock, clock, kept>>

SleepRelock(c, p) ==
  /\ At(c, p, "relock")
  /\ acquire(tickslock, c)
  /\ Goto(p, "test")
  /\ UNCHANGED <<state, chan, killed, yielding, n, ticks0, cpu, cpuVars, ptable, clock, kept>>

\* Both ways out of sys_sleep.
SleepDone(c, p) ==
  /\ At(c, p, "done")
  /\ release(tickslock, c)
  /\ n' = [n EXCEPT ![p] = 0]
  /\ ticks0' = [ticks0 EXCEPT ![p] = 0]
  /\ slept' = [slept EXCEPT ![p] = 0]
  /\ Goto(p, "user")
  /\ UNCHANGED <<state, chan, killed, yielding, cpu, cpuVars, ptable, ticks, kept>>

Sleep(c, p) ==
  \/ mycpu(c, p) \/ myproc(c, p)
  \/ SleepStart(c, p) \/ SleepTest(c, p) \/ SleepAcquire(c, p) \/ SleepRelease(c, p)
  \/ SleepSwitch(c, p) \/ SleepWoken(c, p) \/ SleepRelock(c, p) \/ SleepDone(c, p)

-----------------------------------------------------------------------------
(* kill, exit, wait; for the rest of what they do see ProcTable *)

Kill(c, p, q) ==
  /\ At(c, p, "user") /\ ~killed[p]
  /\ ptable = Free
  /\ killed' = [killed EXCEPT ![q] = TRUE]
  /\ state' = [state EXCEPT ![q] = IF @ = "SLEEPING" THEN "RUNNABLE" ELSE @]
  /\ UNCHANGED <<chan, pc, yielding, n, ticks0, cpu, cpuVars, ptable, tickslock, clock,
                 interrupts, kept>>

ExitAcquire(c, p) ==
  /\ At(c, p, "user") /\ killed[p]
  /\ acquire(ptable, c)
  /\ Goto(p, "exit")
  /\ UNCHANGED <<state, chan, killed, yielding, n, ticks0, cpu, cpuVars, tickslock, clock, kept>>

ExitSwitch(c, p) ==
  /\ At(c, p, "exit")
  /\ state' = [state EXCEPT ![p] = "ZOMBIE"]
  /\ sched(c)
  /\ Goto(p, "zombie")
  /\ UNCHANGED <<chan, killed, yielding, n, ticks0, cpu, proc, scan, cr3, irq, ptable,
                 tickslock, clock, interrupts>>

\* wait finds a zombie and frees its stack and its page table; any process
\* may be the parent.
Reap(c, p, q) ==
  /\ At(c, p, "user") /\ ~killed[p]
  /\ ptable = Free
  /\ state[q] = "ZOMBIE"
  /\ state' = [state EXCEPT ![q] = "UNUSED"]
  /\ killed' = [killed EXCEPT ![q] = FALSE]
  /\ UNCHANGED <<chan, pc, yielding, n, ticks0, cpu, cpuVars, ptable, tickslock, clock,
                 interrupts, kept>>

-----------------------------------------------------------------------------
(* the timer interrupt, wakeup and yield *)

\* The end of the handler: a process yields, still with interrupts off, and
\* the scheduler goes on where it was.
AfterTimer(c) ==
  /\ irq' = [irq EXCEPT ![c] = "no"]
  /\ \/ loop[c] = "run" /\ yielding' = [yielding EXCEPT ![proc[c]] = "lock"]
        /\ on' = [on EXCEPT ![c] = FALSE]
     \/ loop[c] # "run" /\ on' = [on EXCEPT ![c] = TRUE] /\ UNCHANGED yielding

\* The interrupt comes whenever the CPU takes interrupts, and turns them off.
Timer(c) ==
  /\ on[c]
  /\ \/ c = 0 /\ irq' = [irq EXCEPT ![c] = "tick"]
        /\ on' = [on EXCEPT ![c] = FALSE] /\ UNCHANGED yielding
     \/ c # 0 /\ AfterTimer(c)
  /\ UNCHANGED <<state, chan, killed, pc, n, ticks0, cpu, loop, proc, scan, cr3, intena, kept,
                 ptable, tickslock, clock>>

Tick(c) ==
  /\ irq[c] = "tick"
  /\ acquire(tickslock, c)
  /\ ticks' = (ticks + 1) % Word
  /\ slept' = [p \in Procs |-> IF InSleep(p) /\ slept[p] < Word THEN slept[p] + 1 ELSE slept[p]]
  /\ irq' = [irq EXCEPT ![c] = "wakeup"]
  /\ UNCHANGED <<procVars, loop, proc, scan, cr3, ptable, kept>>

\* wakeup(&ticks): the whole of it runs under ptable.lock.
Wakeup(c) ==
  /\ irq[c] = "wakeup"
  /\ ptable = Free
  /\ state' = [p \in Procs |->
                 IF state[p] = "SLEEPING" /\ chan[p] = TicksChan THEN "RUNNABLE" ELSE state[p]]
  /\ irq' = [irq EXCEPT ![c] = "release"]
  /\ UNCHANGED <<chan, killed, pc, yielding, n, ticks0, cpu, loop, proc, scan, cr3, ptable,
                 tickslock, clock, interrupts, kept>>

\* The lock is given back with interrupts off, as they were when it was taken.
TickDone(c) ==
  /\ irq[c] = "release"
  /\ tickslock = c /\ tickslock' = Free
  /\ AfterTimer(c)
  /\ UNCHANGED <<state, chan, killed, pc, n, ticks0, cpu, loop, proc, scan, cr3, intena, kept,
                 ptable, clock>>

Interrupt(c) == Timer(c) \/ Tick(c) \/ Wakeup(c) \/ TickDone(c)

Yields(c, p, place) == loop[c] = "run" /\ proc[c] = p /\ irq[c] = "no" /\ yielding[p] = place

\* Mutant: yield goes to the scheduler without ptable.lock.
YieldAcquire_NoLock(c, p) ==
  /\ Yields(c, p, "lock")
  /\ state' = [state EXCEPT ![p] = "RUNNABLE"]
  /\ yielding' = [yielding EXCEPT ![p] = "switch"]
  /\ UNCHANGED <<chan, killed, pc, n, ticks0, cpu, cpuVars, ptable, tickslock, clock,
                 interrupts, kept>>

YieldAcquire(c, p) ==
  /\ Yields(c, p, "lock")
  /\ acquire(ptable, c)
  /\ state' = [state EXCEPT ![p] = "RUNNABLE"]
  /\ yielding' = [yielding EXCEPT ![p] = "switch"]
  /\ UNCHANGED <<chan, killed, pc, n, ticks0, cpu, cpuVars, tickslock, clock, kept>>

YieldSwitch(c, p) ==
  /\ Yields(c, p, "switch")
  /\ sched(c)
  /\ yielding' = [yielding EXCEPT ![p] = "resumed"]
  /\ UNCHANGED <<state, chan, killed, pc, n, ticks0, cpu, proc, scan, cr3, irq, ptable,
                 tickslock, clock, interrupts>>

YieldResumed(c, p) ==
  /\ Yields(c, p, "resumed")
  /\ release(ptable, c)
  /\ yielding' = [yielding EXCEPT ![p] = "return"]
  /\ UNCHANGED <<state, chan, killed, pc, n, ticks0, cpu, cpuVars, tickslock, clock, kept>>

\* Return from the interrupt to where the process was.
YieldReturn(c, p) ==
  /\ Yields(c, p, "return")
  /\ Enable(c)
  /\ yielding' = [yielding EXCEPT ![p] = "no"]
  /\ UNCHANGED <<state, chan, killed, pc, n, ticks0, cpu, cpuVars, kept, ptable, tickslock, clock>>

yield(c, p) ==
  YieldAcquire(c, p) \/ YieldSwitch(c, p) \/ YieldResumed(c, p) \/ YieldReturn(c, p)

-----------------------------------------------------------------------------

\* The steps a process takes once it is in the kernel.
InKernel(c, p) ==
  Forkret(c, p) \/ Sleep(c, p) \/ yield(c, p) \/ ExitAcquire(c, p) \/ ExitSwitch(c, p)

InUser(c, p) ==
  (\E a \in Arguments : SysSleep(c, p, a)) \/ (\E q \in Procs : Kill(c, p, q) \/ Reap(c, p, q))

Next ==
  \E c \in Cpus : \/ Scheduler(c) \/ Interrupt(c)
                  \/ \E p \in Procs : InKernel(c, p) \/ InUser(c, p)

Spec == Init /\ [][Next]_vars

-----------------------------------------------------------------------------
(* Properties *)

Labels == {"forkret", "user", "mycpu", "myproc", "lock", "test", "sleep", "release", "asleep",
           "woken", "relock", "done", "exit", "zombie"}

\* Types.
TypeOK ==
  /\ state \in [Procs -> {"UNUSED", "RUNNABLE", "RUNNING", "SLEEPING", "ZOMBIE"}]
  /\ chan \in [Procs -> {0, TicksChan}]
  /\ killed \in [Procs -> BOOLEAN]
  /\ pc \in [Procs -> Labels]
  /\ yielding \in [Procs -> {"no", "lock", "switch", "resumed", "return"}]
  /\ n \in [Procs -> 0 .. Word - 1]
  /\ ticks0 \in [Procs -> 0 .. Word - 1]
  /\ cpu \in [Procs -> Cpus \cup {NoCpu}]
  /\ loop \in [Cpus -> {"idle", "scan", "run", "back"}]
  /\ proc \in [Cpus -> Procs \cup {NoProc}]
  /\ scan \in [Cpus -> 1 .. NPROC + 1]
  /\ cr3 \in [Cpus -> Procs \cup {NoProc}]
  /\ irq \in [Cpus -> {"no", "tick", "wakeup", "release"}]
  /\ on \in [Cpus -> BOOLEAN] /\ intena \in [Cpus -> BOOLEAN]
  /\ kept \in [Procs -> BOOLEAN]
  /\ ptable \in Cpus \cup {Free}
  /\ tickslock \in Cpus \cup {Free}
  /\ ticks \in 0 .. Word - 1
  /\ slept \in [Procs -> 0 .. Word]

\* A process is on one CPU only, and RUNNING exactly while it is on one,
\* except between its change of state and the switch, which happen under one
\* hold of ptable.lock: no CPU continues a context that another still uses.
OneCpuPerProcess ==
  /\ \A c, d \in Cpus : proc[c] = proc[d] /\ proc[c] # NoProc => c = d
  /\ \A p \in Procs :
       state[p] = "RUNNING" => \E c \in Cpus : proc[c] = p /\ loop[c] = "run"
  /\ \A c \in Cpus :
       loop[c] = "run" /\ state[proc[c]] # "RUNNING" => ptable = c

\* Each lock is held by the CPU that is in the code between its acquire and
\* its release, on whichever side of a context switch that is; in particular
\* who enters sched holds ptable.lock and no second lock, which is what sched
\* asserts (proc.c:371-378).  A CPU takes interrupts exactly while it is
\* outside such code, myproc and a handler, although the first acquire and the
\* last release of a thread may be on two CPUs.
LocksAccounted ==
  /\ \A c \in Cpus : ptable = c <=>
       \/ loop[c] \in {"scan", "back"}
       \/ \E p \in Procs :
            \/ \E label \in {"forkret", "release", "asleep", "woken", "exit"} : At(c, p, label)
            \/ Yields(c, p, "switch") \/ Yields(c, p, "resumed")
  /\ \A c \in Cpus : tickslock = c <=>
       \/ irq[c] \in {"wakeup", "release"}
       \/ \E p \in Procs, label \in {"test", "sleep", "release", "done"} : At(c, p, label)
  /\ \A c \in Cpus : on[c] <=>
       /\ ncli(c) = 0 /\ irq[c] = "no"
       /\ loop[c] = "idle" \/ (loop[c] = "run" /\ yielding[proc[c]] = "no")

\* myproc answers with the process that asked, although it first looks up the
\* CPU and then the process there, and a process may be moved to another CPU
\* between any two instructions ("so that we are not rescheduled while reading
\* proc from the cpu structure", proc.c:55-56).
MyprocIsCaller ==
  \A p \in Procs : cpu[p] # NoCpu => pc[p] = "myproc" /\ proc[cpu[p]] = p

\* wait frees the page table and the kernel stack of a zombie, and may do it
\* on another CPU as soon as exit has changed the state: by then no CPU uses
\* them any more, neither the one that ran the zombie, on its way back to the
\* scheduler, nor one that is idle since.  A process runs on its own table.
FreedUnused ==
  \A c \in Cpus :
    /\ cr3[c] # NoProc => state[cr3[c]] # "UNUSED"
    /\ proc[c] # NoProc => state[proc[c]] # "UNUSED" /\ cr3[c] = proc[c]

\* No wakeup is lost ("we won't miss any wakeup", proc.c:430-433): nobody
\* sleeps on when as many ticks have come as he asked for, wherever the ticks
\* wrap around meanwhile, except while the wakeup of the last one is still on
\* its way; and who sleeps is where a wakeup finds him.  (Who was woken and has
\* not run for Word ticks sees the difference start again from 0.  A kill that
\* comes after the test of killed is noticed a tick later.)
NoLostWakeup ==
  \A p \in Procs :
    /\ state[p] = "SLEEPING" /\ (\A c \in Cpus : irq[c] # "wakeup") =>
         slept[p] < n[p] \/ slept[p] = Word
    /\ state[p] = "SLEEPING" => pc[p] = "woken" /\ chan[p] = TicksChan
=============================================================================
