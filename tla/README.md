# CS333 OS Lab Solutions: a TLA+ model

TLA+ models, TLC runs and TLAPS proofs for the four programs of this
repository: a shell (Lab-1), the process management (Lab-2) and memory
management (Lab-3) of xv6 with the additions of the labs, and three
pthread programs (Lab-4). Paths below are relative to `src/`.

Status: Lab-4, the process table, the scheduler, sleep, the queries and the
welcome functions of Lab-2, the memory of Lab-3 with the argument checks of its
system calls, and the shell of Lab-1 are modelled and checked. Every invariant and
action property that the passing runs check is also proved, for all values of the
constants; so is the safety of each refinement but that of `Toggle`. What is only
model-checked, and what is left out, is listed in section 6.

## 1. Inventory

### Lab-4: pthreads

| part | code | state | operations |
|---|---|---|---|
| master-worker | `190050038/master-worker.c` | `item_to_produce`, `curr_buf_size`, `buffer`, one mutex, conditions `read_available` and `write_available` | `generate_requests_loop` (masters), `consume_requests_loop` (workers), creation, join and free in `main` |
| output checker | `pthreads-sync-code/master-worker/check.awk` | how often each item was produced and consumed | `END`: accepts if each item was produced and consumed once |
| zemaphore | `190050038/zemaphore.c` | a counter, a mutex and a condition variable | `zem_init`, `zem_down`, `zem_up` |
| test-toggle | `190050038/test-toggle.c` | one zemaphore per thread, loop counters | `justprint`, `main` |
| turnstile | `practise/1.c` | `curId`, a lock, a condition variable per thread | `counting`, `main` |

Hard: a waiter is overtaken between its wakeup and its lock; `signal` wakes one
thread, of which there may be several; a signal to nobody is lost; loops are
left with the lock held; a wait may return without a signal. Correct means: no
item lost, duplicated or out of thin air, at most `max_buf_size` outstanding,
no thread left asleep, the program terminates; a zemaphore is a semaphore;
lines are printed in ring order, and all of them.

### Lab-2: xv6 processes (`190050038/`)

| part | code | state | operations |
|---|---|---|---|
| process table | `proc.c`, `proc.h` | `ptable.proc[]` (state, pid, parent, chan, killed, kstack, pgdir), `nextpid` | `allocproc`, `userinit`, `fork`, `exit`, `wait`, `kill` |
| scheduling and sleep | `proc.c`, `sys_sleep`, `vm.c` of Lab-3 | `ptable.lock`, the scheduler context, the current process and the page table of each CPU, `ticks` | `scheduler`, `switchuvm`, `switchkvm`, `sched`, `yield`, `myproc`, `sleep`, `wakeup`, timer interrupt |
| queries | `proc.c:554-631` | `numContextSwitchedIn` | `getNumProc`, `getMaxPid`, `getProcInfo` |
| welcome | `proc.c:637-671`, `fork` | `welcomeFuncSet`, `welcomeFuncAddr`, saved eip, esp, ebp | `welcomeFunction`, `welcomeDone` |
| dispatch | `syscall.c`, `sysproc.c` | | number to handler, range check of pointers |

Hard: processors interleave between holds of `ptable.lock`; the lock is handed
across `swtch`; an exit, a kill or a fork races a wait; memory runs out in the
middle of fork; queries run between the two halves of fork. Correct means:
pids identify processes, every process has a living parent that can reap it,
nobody sleeps through the event he waits for, what a process owns is freed
once, a kill reaches the process it names and no other.

### Lab-3: xv6 memory (`190050038/`)

| part | code | state | operations |
|---|---|---|---|
| page tables | `vm.c` | page directory and tables with flags, `sz`, the free frames | `walkpgdir`, `mappages`, `allocuvm`, `deallocuvm`, `freevm`, `copyuvm`, `clearpteu`, `inituvm`, `loaduvm`, `uva2ka`, `copyout` |
| lazy memory | `sysproc.c`, `proc.c`, `trap.c` | memory promised by `mmap` and not yet backed | `sys_mmap`, page fault, `sbrk`/`growproc`, `fork`, `exit`/`wait` |
| dispatch and traps | `trap.c`, `syscall.c` | `ticks`, `killed` | timer, system call, page fault |

Hard: `sz` and the pages that exist differ once `mmap` is lazy, and every
other operation that walks `0 .. sz` meets the holes; allocation fails
half-way; sizes near `KERNBASE` and negative arguments. Correct means: every
frame has one owner, none leaks, user code never reaches a page it does not
own, no sequence of system calls panics the kernel.

### Lab-1: shell (`shell-code/submission/190050038/my_shell.cpp`)

State: the set of background pids, the pid of the foreground child, the flags
the signal handlers set. Operations: read and parse a line, `cd`, `exit`,
foreground, background, `&&` and `&&&` sequences, the `SIGINT` and `SIGTERM`
handlers. Hard: the handlers run between any two statements of the main loop.
Correct means: every child is reaped once and reported once, `exit` leaves none
behind, `Ctrl-C` ends the foreground command and nothing else.

Older copies and drafts of each program (`my_shell_backup*`, `satwik*.c`,
`xv6-public-patch`, `pthreads-sync-code`, the archives) are superseded by the
submissions and are not modelled.

## 2. Modules and plan

| module | models | abstract specification | done |
|---|---|---|---|
| `WorkPool` | what master-worker promises | itself | yes |
| `MasterWorker` | `master-worker.c` | `WorkPool` | yes |
| `MasterWorkerProofs` | theorems about it | | yes |
| `Semaphore` | a semaphore that hands permits over | itself | yes |
| `Zemaphore` | the steps of `zem_down`, `zem_up` | | yes |
| `ZemaphoreClients` | any use of zemaphores | `Semaphore` | yes |
| `ZemaphoreProofs` | theorems about it | | yes |
| `RoundRobin` | lines printed in turn | itself | yes |
| `Toggle` | `test-toggle.c`, on `Zemaphore` | `RoundRobin` | yes |
| `Turnstile` | `practise/1.c` | `RoundRobin` | yes |
| `TurnstileProofs` | theorems about it | | yes |
| `ProcTable` | `fork`, `exit`, `wait`, `kill`, scheduler | | yes |
| `SleepSched` | `sleep`, `wakeup`, `sys_sleep`, `myproc`, `sched`, the scheduler loop with its page tables, and the lock they pass on | | yes |
| `SleepSchedProofs` | theorems about it | | yes |
| `UserMemory` | page tables, frames, `sbrk`, `mmap`, faults, the memory of `fork`, `exit`, `wait` | | yes |
| `Syscalls` | `fetchint`, `fetchstr`, `argint`, `argptr`, `argstr`, the dispatch, `numvp`, `numpp`, on `UserMemory` | `UserMemory` | yes |
| `UserMemoryProofs` | theorems about both | | yes |
| `Shell` | the shell's main loop, handlers and children | | yes |
| `ShellProofs` | theorems about it | | yes |
| `ProcInfo` | `getNumProc`, `getMaxPid`, `getProcInfo` and the program that lists processes, on `ProcTable` | | yes |
| `ProcTableProofs` | theorems about both | | yes |
| `Welcome` | trap frames of forked children | | yes |
| `WelcomeProofs` | theorems about it | | yes |

Theorems planned next: the ring order of `Toggle` (its invariant says which of the
zemaphores has the one permit, or which thread carries it); that `Syscalls` and
`ProcInfo` leave the processes that do not take part alone, in the form of action
properties; lemmas that tie `ProcTable` and `SleepSched`, which see the same
processes at two grains.

## 3. How the models correspond to the code

**Threads.** `pc[t]` (in `Zemaphore`: `at[t]`) names the statement a thread
runs next. A step is one pthread call with the statements that follow it and
touch only what the held mutex protects. `MasterWorker` and `Turnstile` are
finer: the tests, the update and the exits of a loop are steps of their own
although the mutex is held, so that the exclusion is checked and not assumed.
`pthread_cond_wait` is three steps: release-and-block, wake up (a signal, or
spuriously), take the mutex. A signal picks any waiter. `main` creates and
joins kind by kind (`MasterWorker`, any order within a kind) or id by id
(`Toggle`, `Turnstile`).

**`MasterWorker`.** Labels: `lock`, `top` (stopping test), `full` (inner
while), `waiting`, `wakeup`, `recheck` (test after the wait), `put`, `unlock`,
`exit` (the unlock after the loop), `done`; for a worker `empty` (inner while)
and `take`. `prod` and `cons` count the lines `check.awk` counts. `malloc`ed
slots hold `Junk`. Not modelled: usage errors, `atoi`, failures of
`pthread_create` and `malloc`. Assumed (`ThreadsAssumption`, `SizesAssumption`):
at least one master, one worker and one slot, as in the usage line; with a zero
the program hangs or does nothing.

**`Zemaphore`** has no loop around the wait, like the code: `DownWoken` goes
straight to the unlock. POSIX lets `pthread_cond_wait` return without a signal;
the program relies on its not doing so, and such returns are left out of
`ZemaphoreClients` and `Toggle`. (`MasterWorker` and `Turnstile` wait in loops and are checked with
such returns.) `ZemaphoreClients` lets every thread call both functions on any
zemaphore, at most `MaxCalls` times per function and zemaphore. `Toggle` uses the
same steps through INSTANCE.

**`ProcTable`.** A slot is a number, 0 the null pointer, slot 1 `initproc`. What
the code does between `acquire(&ptable.lock)` and `release` is one step, except in
`wait`: its scan (`WaitScan`) and its sleep (`WaitSleep`) are two, and between them,
and after its wakeup, `lock` says that the process has the lock; every step that
acquires it needs it free. (`Schedule` hands it to a process that slept, as `sched`
returns into `sleep` with the lock held.)
`fork` is four (`ForkAlloc`, `ForkStack`, `ForkCopy`, `ForkPublish`) and between
them anybody may run. `kalloc` and `copyuvm` fail whenever they like. `killed` is tested on entry to a system call (`trap.c` of Lab-3, the
copy of Lab-3) and a killed process exits instead of returning
to user mode. A `fork` that finds no slot changes nothing and is no step.
Files, `cwd`, names and context switch counts are left out.

**`ProcInfo`** extends `ProcTable` with one process, `lister`, that runs
`testprocinfo.c` in one of the slots `Listers`: `Begin` is its `getNumProc()`, `LoopTest` the `getMaxPid()` of its loop, `InfoRange` the one
inside `getProcInfo`, `InfoScan` the scan. Each holds `ptable.lock` and is one step;
between them everybody else does what `ProcTable` allows. `born` is a history
variable, for the processes created since the count. A line of output is the
pid it is about; `ppid`, size and count are left out (see the deviations below).

**`Welcome`** keeps the welcome fields by slot, as `struct proc` does, and of the
trap frame what `fork` and `welcomeDone` change. `fork` and exit-with-wait are one
step each, because nobody else looks at these fields. A program may make any call
from any of its `Contexts`, `welcomeDone` outside a welcome function included.
`registered` and `birth` are history variables. `exec` is not in the repository
and is not modelled.

**`SleepSched`.** The code is the same in Lab-2 and Lab-3, but for a counter; the
line numbers are those of Lab-3, which has `trap.c`. The two spinlocks are explicit: `ptable` and `tickslock`
hold the CPU that has them. A CPU is in the scheduler (`loop` is `idle`, `scan`,
`back`) or runs `proc[c]` (`run`); `pc[p]` is where the context of a process
continues, in `sys_sleep` and `sleep` (`lock`, `test`, `sleep`, `release`,
`asleep`, `woken`, `relock`, `done`) or elsewhere, and `yielding[p]` where it is
in a `yield` on top of that. `argint` asks `myproc` for the caller: `mycpu` is the
moment before interrupts are off, `myproc` the one between the two reads, and
`cpu[p]` what the first of them found. `cr3[c]` is the page table that the CPU has
loaded; `Reap` is the freeing that `wait` does, on any other CPU, of the stack and
the table of a zombie. `SchedPick` and a `sched` are the two halves of
`swtch`. `on[c]` is the interrupt flag of a CPU, `intena[c]` what `pushcli` saved
of it, and `kept[p]` the local `intena` of a `sched`: a thread takes its lock on one
CPU and may give it back on another, so it carries this flag with it
(`Restored`). `ncli` is computed from the locks the CPU holds. `irq[c]` is the timer
interrupt; it comes whenever `on[c]`, on CPU 0 it counts the tick, and a process
then yields. A CPU that waits for a lock is modelled as still before its `acquire`.
Numbers are modulo `Word`; the history variable `slept` counts the ticks that come
while a process is in `sys_sleep`, without wrapping around. `kill` and `wakeup` hold `ptable.lock` from beginning
to end and are one step. `exit` is its way into the scheduler only, `wait` the
moment it frees something; the rest of both is in `ProcTable`. A slot that has been
reaped is not used again here. The code sleeps on other channels too
(disk, pipes, console); none of it is in this repository.

**`UserMemory`.** Frames are alike and are counted (`nfree`); `tables[p]`,
`pages[p]` and `guard[p]` are the page tables that exist, the pages that are
present and those without `PTE_U`. A step contains at most one `kalloc` that is
followed by another one, so processes compete for frames in the middle of
`allocuvm` and `copyuvm`; `local[p]` holds what these functions have in their
local variables, the frame in `mem` included. Two things are coarser: `setupkvm`
takes its `KvmFrames` in one step (when it fails it has given back what it took),
and `exec`, which lays out the first program, is the initial state. Which free
slot a fork takes and which process waits for a zombie is left open; `ProcTable`
says more about both. A touch of memory is a `Fault` if the page is missing or,
from user mode, a guard page; the page fault handler may answer it by
`allocuvm`, by killing the process, or by a panic, after which the system stops.

**`Syscalls`** extends `UserMemory` with the way into the kernel. A system call with
arguments begins with an int from the user stack (`FetchInt`, `HasInt`); `argptr`
and `argstr` then check a second address. `esp` and the arguments may be any word
(`Addresses`), and the sums of the checks wrap around as in the code. Between the
check and the use there may be holes that `mmap` has promised: `call[p]` says that
the kernel is in such an access and `touch[p]` which pages it still needs; each is
a `KernelFault`, which is `UserMemory`'s `Fault` in kernel mode, with all that can
go wrong in it, while other processes run. If nothing is missing the access is
immediate and no step. The scan of `fetchstr` may end before the end of the memory,
at a nul (`CallReturns`). The bound `Callers` lets some processes pass arbitrary
pointers and the others only ints from pages that are there. `BlockCall` stands for
the handlers with `argptr`, which are not in the repository. `numvp` and `numpp` are
operators.

**`Shell`.** `pc` is where `main`, or a function it calls, is; `test` is the head of
the loops over `commands`, `exec` the three `execSingle...`/`execMulti...`
functions up to the fork, `waitall` the inside of `sigterm_handler`. A line is a
sequence of words, `&`s and stretches of blanks; `setLineState`,
`breakIntoCommands`, `tokenize` and `isExitCmd` are computed from it as in the code,
so `exit` with an argument is a command like any other, and a program that is not
found is a child that ends at once. A child is `forked` (it still runs the shell's
code and has the shell's handlers), `running` (after `execvp`), a `zombie`, or
`reaped`. `reapChildren` is one step: what becomes a zombie during its loop might
as well have been one before. `CtrlC` is the terminal: it makes `SIGINT` pending
for the shell and ends any of the running commands in the shell's process group;
`sigint_handler` then runs between any two steps. `Terminate` is a `SIGTERM` from
elsewhere. `exitCall` begins a loop that sends one `SIGTERM` per step (`SendTerm`,
`NextTerm`): `it` is the element it is at, and handlers run between two of them. If
`sigint_handler` has erased this element, the increment of the iterator is undefined;
the model lets it go on at any later process of the background, to the end, or crash
the shell. `broken` records that this, or a `Terminate` inside the loop, has happened,
`missed` the children that `sigint_handler` has reaped before their `Insert`. Single operations of the set are taken as atomic, which those of
`std::set` are not when a handler interrupts them. `chdir`, messages and heap memory are left out.

## 4. Runs

| run | configuration | what it shows |
|---|---|---|
| `pool` | 3 masters, 2 workers, 4 items, 2 slots | the safety of master-worker, at every moment, spurious wakeups included; termination; refinement of `WorkPool` with its fairness |
| `zemaphore` | 4 threads, a zemaphore of value 1, 4 calls of each function | the counter counts the waiters; a zemaphore implements `Semaphore` |
| `toggle_ring` | 5 threads, 5 rounds (the program's own numbers) | the output is the round robin, and all of it |
| `turnstile` | 5 threads, 3 rounds (the program has 10 threads and the same 3 rounds) | the same output, spurious wakeups included |
| `ptable_safety` | 4 slots, 2 CPUs, pids up to 4, the process in slot 2 may list the others | pids, parents, sleepers and memory; the list is complete and agrees with the count |
| `ptable_progress` | 3 slots, 2 CPUs, pids up to 3 | killed processes die, orphans are reaped |
| `ptable_kill` | 3 slots, 1 CPU, pids up to 3 | a violation, see below |
| `sleep_sched` | 2 processes, 2 CPUs, words of 2 bits, `sleep(-1)`, which is 3 ticks | hand-over of `ptable.lock`, the assertions of `sched` about locks, interrupts off where they must be, the answer of `myproc`, no page table in use after `wait` has freed it, nobody asleep when as many ticks have come as he asked for |
| `memory_safety` | 2 processes, one of them with arbitrary pointers, 2 page tables of 2 pages, pages of 2 bytes, ints of 2 bytes, 8 or 11 frames | frames, sizes, failed calls, copies; the kernel stays inside the caller's memory and panics only without memory or when it touches the last page below `KERNBASE`; `numvp` and `numpp` agree |
| `memory_fork` | the same with 20 frames, and programs that keep the pages they were loaded with | a violation, see below |
| `welcome` | 3 slots, 2 places in the programs, 1 function | who begins in a function, and where `welcomeDone` leads |
| `shell` | 3 lines of 9 kinds, 4 processes, 2 Ctrl-C, one `SIGTERM` | foreground, background, interrupts and exit, one signal per step, with progress |

Bounds. Three masters make a signal choose between two waiters while a third
overtakes; two slots and four items let the buffer fill, drain and refill and
both kinds wait in the same behaviour. Three
threads on a zemaphore give a waiter, a signaller and one that overtakes, and a
fourth makes a second waiter to choose from; `toggle_ring` has five zemaphores. Four
slots hold init, a parent, its child and a free slot to fork into; four pids
let a slot be used again, and the list of processes have a gap. Three slots in
`welcome` are a parent, a child and a grandchild, and are used again without bound.
`MaxPid` bounds `nextpid`, `MaxCalls` the calls.
Two CPUs and two processes let one process be switched out while the other CPU
ticks, wakes, kills or looks for work; with words of two bits `ticks` wraps
around in the middle of a sleep, and -1 is the longest sleep there is; shorter ones
are covered by the proofs only. Two page
tables of two pages give allocations that need a new table and some that do not,
pages of two bytes give sizes that are not multiples of a page. With eleven
frames two processes can live and one of them, or a fork, runs out in the middle
of its pages; ints as long as a page can cross from one page into the next, at
every alignment; with eight a fork fails at the kernel stack, at the page directory
or at the first page or page table. Three lines let a background command of the
first end during a foreground command of the second and be met by `exit` in the
third; with two Ctrl-C one can come while the effects of the other last.

Fairness. Every thread runs on (weak), and a thread that finds the mutex free
again and again gets it some time (strong): the scheduler and the mutex do not
starve a runnable thread. Nothing is assumed about which waiter a signal picks
or about spurious wakeups. In `ProcTable`: the scheduler's loop passes over
every slot, so a process that is runnable again and again gets a CPU (strong
fairness of `Schedule`), the timer takes the CPU away, a process that gets a
CPU again and again finds `ptable.lock` free some time and takes its next kernel step
(strong fairness, since `wait` may have the lock meanwhile), and init calls `wait` for ever,
as its program does. User programs are otherwise free to do nothing. In `Shell`: the
shell runs on, a child gets to its `execvp`, a foreground command ends some time and
any command ends after `SIGTERM`; a background command may run for ever, the user
may stop typing.

### Findings

- `ptable_kill`: `kill` compares pids without looking at the state
  (`proc.c:498`), a free slot keeps pid 0 or the pid of a failed fork, and
  `allocproc` does not clear `killed`. `kill(0)` succeeds and the next process
  created in that slot is dead before it runs.
- `memory_fork`: `fork` panics when a page below `sz` is missing (`vm.c:326-329`),
  and `mmap` leaves pages missing until they are touched. The trace is an `mmap` and
  then a `fork`. A program can also free its pages with `sbrk` of minus its size, but
  then has no code left to call `fork`; `MCUserMemoryFork` excludes programs that give
  back the pages they were loaded with.

More deviations met while modelling, which have no run of their own:

- `getProcInfo` follows `p->parent` of a process that `fork` has not finished
  (`proc.c:614`; set at `proc.c:203`): the null pointer is the first page of the
  calling program, so `ppid` is a word of its text. `psize` is then the size of the
  previous process in the slot.
- A child forked inside a welcome function (by a process that has registered none)
  and ending it with `welcomeDone`, as `proc.c:646` asks, jumps to address 0 or to
  what an earlier process left in the slot: `fork` does not pass the address on.
- The page fault handler answers every fault below `sz` with `allocuvm`, also one
  on the guard page ("an inaccessible page beneath the user stack",
  `vm.c:300-301`), which is present: `mappages` panics (`vm.c:71-72`).
- A system call that reads or writes memory promised by `mmap` faults in kernel
  mode; if no frame is free the kernel panics (`trap.c:100-104`). This is the first
  of the two cases that `TrapOnlyWithoutMemory` allows.
- `mmap` grants sizes up to `KERNBASE` (`proc.c:580`), `allocuvm` refuses
  `KERNBASE` itself (`vm.c:227`): the last page is promised and can never be had, and
  a system call with a pointer into it panics the kernel, memory or not. This is
  the second case.
- `numvp` rounds down (`proc.c:541`): after `sbrk(1)` `numpp` may be greater than
  `numvp`. `CountsAgree` allows for it.
- `sbrk` of minus the size returns -1 and keeps `sz`, but every page has been
  freed (`proc.c:169`: 0 is the new size and the error value). `PagesKept` leaves
  this case out.
- `zem_down` waits under an `if` (`zemaphore.c:20-21`): a return without a signal
  lets a thread through without a permit.
- The shell inserts a background pid after the fork (`my_shell.cpp:392`): if
  `sigint_handler` reaps the child in between, the pid stays in the set for ever
  and `exit` signals whatever process has it by then. `BackgroundTracked` shows that
  no pid gets into the set, or stays there, in another way.
- `exit` loops over the set of background pids and signals them one by one
  (`my_shell.cpp:45-47`). A `SIGTERM` from outside inside this loop makes
  `sigterm_handler` wait for children that have not been signalled, so the shell may
  wait for ever; a Ctrl-C whose handler erases the pid the loop is at leaves the loop
  with an iterator that is no longer valid. `ExitEnds` shows that these are the only
  two ways in which `exit` does not end the shell and all it has started.
- `carrySerialCommands` is reset before the prompt (`my_shell.cpp:454`) and not
  after it: Ctrl-C at the prompt discards the next line the user types.

## 5. Proofs

All theorems hold for every value of the constants that satisfies the assumptions
of the modules, which are these and no others:

| assumption | says |
|---|---|
| `ThreadsAssumption`, `SizesAssumption` | at least one master, one worker and one slot, and threads of two kinds |
| `ZemaphoreAssumption`, `ClientsAssumption` | there is a zemaphore, its first value is not negative (the program that uses them gives 0 and 1) |
| `TurnstileAssumption` | at least one thread, any number of rounds |
| `ProcTableAssumption`, `SleepAssumption` | at least one slot and one CPU; any bound on the pids, any width of a word, any arguments of `sleep` |
| `MemoryAssumption`, `SyscallAssumption` | positive numbers of page tables, of pages in one and of bytes in a page; the first program has its three pages; ints fit into the address space |
| `ListersAssumption` | `init` does not run the program that lists processes |
| `WelcomeAssumption`, `ShellAssumption` | programs and addresses are numbers, lines are made of the symbols of the model |

The bounds that keep TLC's runs finite (`MaxPid`, `MaxCalls`, `MaxLines`, `MaxForks`,
`MaxInts`) are any numbers in the proofs.

No invariant of any weight is inductive alone. Each module of proofs begins with the
definitions that make one: `IInv`, in `UserMemoryProofs` `MInv`, `FInv` and `CInv`.
Before they were proved they were checked with TLC on the configurations of
section 4. There is one lemma per action (or per few actions that are alike), a
lemma that puts them together, and the theorems.

**`MasterWorkerProofs`** proves all the invariants of `pool` and the types (but not
`Termination`) and the safety part of the refinement of `WorkPool`. The proof has
layers, each using the ones before:

1. `Core` = types, `MutualExclusion` and `ChecksStillHold`. They need each
   other: a test stays true because its thread holds the mutex and only holders
   write; the types of the counters need the tests (a put finds room).
2. `ExactlyOnce`, from `Core`: a put writes the slot above the filled ones, a
   take reads the top one, and both keep the filled slots distinct.
3. `NoLostWakeup`, from `Core`: whoever makes a condition true for the waiters
   signals one, and the one that is signalled is active until it has looked and
   passed the signal on.
4. `MainInv`: what main has joined is done and stays done.

`NeverStuck` and `FinalOutput` follow from the layers without another induction.
`ImplementsPool` maps each put to `Issue`, each take to `Serve` of the item in
the top slot, and every other step to a stutter; that `outstanding` has
`curr_buf_size` elements, hence at most `max_buf_size`, uses that the filled
slots are distinct.

**`ZemaphoreProofs`.** `WaitersCounted` needs that only the holder of a mutex is
between a lock and its unlock (`MutexHeld`) and that the blocked threads are a finite
set even if `Threads` is not (`WaitersFinite`). The body of `zem_down` is then
`Take` or `Wait` of the semaphore, the body of `zem_up` hands its permit to a waiter
exactly when there is one, and the rest stutters or is the return
(`ImplementsSemaphore`). All of it is about one zemaphore, since zemaphores share
nothing. `MutualExclusion` says of the two functions what the models above them rely
on: between the lock and the unlock of a zemaphore there is one thread.

**`TurnstileProofs`.** `Position(r, c)` says that `r` rounds are complete and `c`
threads have printed in the next one: it fixes the loop counters, `curId` and who may
be where. With `LockHeld`, `Rounds` (who has returned has done all rounds) and `Turn`
(the thread whose turn it is does not sleep) it is inductive; that the turn is not
stranded and that each line is the next one of `RoundRobin` follow.

**`ProcTableProofs`.** That the lock is held exactly by the process between its scan
and its sleep, or just back from it (`Locked`), makes what the scan has found true
until the sleep (`MaySleep`). The rest of the invariant ties a slot that is being filled to the one
process whose fork fills it (`Forks`), says who may be inside the kernel (`Places`), what
a slot in each state owns (`Owns`), that parents are alive (`Tree`) and that pids are
below `nextpid` and distinct (`Pids`). `LInv` adds, for the program that lists
processes, that there is a set of pids, no more than were counted, such that
every line, and every process, is in it or has been created since (`Accounted`); the
cardinalities of `ListingCounted` follow.

**`SleepSchedProofs`.** The invariant has two halves that a context switch turns into
one another. `CpuOK(c)` says, for every place where a CPU can be, which locks it
holds, whether it takes interrupts, which process and page table it has; `SavedOK`
says with what a process that is on no CPU will go on, its `intena` included.
Neither is inductive without the other. `MyprocIsCaller` and `NoLostWakeup` are
layers on top: for the first, what `cpu[p]` may be at each place; for the
second, that from its test on a process has ticks to wait for, or a counted tick has its
wakeup still to come (`Wakes`), and that the difference of two readings of `ticks` is
the number of ticks between them although `ticks` wraps around, until there have been
`Word` of them (`Elapsed`, from `OneMore` on remainders).

**`UserMemoryProofs`.** `MInv` says what the local variables of `allocuvm` and
`copyuvm` are worth at any moment: the page a loop is at, in relation to `sz` (`Loops`),
and what a fork has copied so far (`Copies`). It gives the sizes, and step by step
`PagesKept` and `ChildIsCopy`. `FInv` adds which of its frames a slot has at each
place of a fork; a lemma per action then says that what the action takes from the
free frames its process owns and the other way round (`FramesConserved`, by
cardinalities of what each slot owns). `CInv` adds the calls that are under way. From
it the checks of `fetchint`, `fetchstr`, `argptr` and `argstr` are shown to be enough
although their sums wrap around at `2 * KERNBASE` (`KernelStaysInside`), and each step
of `Syscalls` is one of `UserMemory` or a stutter (`CallsUseMemory`), which carries the
theorems about the memory over to it (`MemoryUnderCalls`).

**`ShellProofs`.** The invariant says which children in the foreground the main loop
has still to wait for at each of its places (`Foreground`), and what is known of the
others (`Background`); that only the code of `exit` runs after `exit` (`Ending`) makes
the set complete during its loop. `TypeOK` contains that a command that is executed exists: for a
line in the background, where the code does not look whether there is one, this needs
that the blank at the end of a line always makes a command (`SomeCommand`).

**`WelcomeProofs`** proves both properties of the run `welcome`. The inductive invariant
adds to the types that a live process that began in a function has, as the place
to return to, the one of its own birth (`DoneIsBirth`): this is what a slot that is
used again could break.

## 6. What is only model-checked, and what is not modelled

Only checked by TLC:

- everything under fairness, which is out of the prover's reach: `Termination`,
  `KilledDies`, `OrphansReaped`, `PromptReturns`, `ExitEnds`, and the liveness part of
  `PoolSpec`, `SemaphoreSpec` and `RingSpec`, whose safety part is proved for
  `MasterWorker`, `ZemaphoreClients` and `Turnstile`;
- `Toggle`, so far;
- the two violations, `KillsOnlyTheNamed` and `ForkFindsPages`.

What a recursive definition computes does not arise: the models are without recursion,
and where a scan of the code needs the first or the last of a set, the proofs show that
there is one (`LeastNatural`, `GreatestNatural`, from well-foundedness).

Not modelled: formatting and output beyond who prints when; argument parsing and
usage errors; file descriptors, directories and the file system of xv6; the
TLB and the physical addresses behind the pages;
`getpid`, `uptime`, `hello` and `helloYou`,
which read or print something and change nothing; `procdump`, which reads the table
without its lock for debugging; `exec`, which is not in the repository, and what only
it uses (`inituvm`, `loaduvm`, `clearpteu`, `uva2ka`, `copyout`); the assembly stubs (`usys.S`) and headers; the test programs and Makefiles.
