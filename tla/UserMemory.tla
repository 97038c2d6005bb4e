----------------------------- MODULE UserMemory -----------------------------
(***************************************************************************)
(* Lab-3 vm.c, and what uses it: sbrk, mmap, fork, page faults, exit and   *)
(* wait.  mmap only raises sz; the page is allocated by the fault handler  *)
(* when it is first touched.  A process is a slot of the process table;    *)
(* when and by whom it may exit and be reaped is the matter of ProcTable.  *)
(*                                                                         *)
(* Frames of physical memory are alike and are counted.  kalloc fails when *)
(* no frame is free.  A loop over pages takes a step per kalloc, and other *)
(* processes run in between.  Addresses are words: sizes are taken modulo  *)
(* Word, which is twice KERNBASE as on the x86.                            *)
(***************************************************************************)
EXTENDS Integers, FiniteSets

CONSTANTS
  Procs,         \* slots of the process table
  initproc,
  Null,          \* no slot
  NPDE, NPTE,    \* page tables of the user half, pages of each
  PGSIZE,        \* bytes in a page
  FrameCounts,   \* how many frames of physical memory there may be
  KvmFrames,     \* frames setupkvm takes: the directory and the kernel's tables
  InitPages      \* pages of the program that runs first

ASSUME MemoryAssumption ==
  /\ initproc \in Procs /\ Null \notin Procs
  /\ NPDE \in Nat \ {0} /\ NPTE \in Nat \ {0} /\ PGSIZE \in Nat \ {0}
  /\ FrameCounts \subseteq Nat /\ KvmFrames \in Nat
  /\ InitPages \in 3 .. NPDE * NPTE

VARIABLES
  state, sz, kstack,        \* fields of struct proc
  kvm, tables, pages,       \* its page directory, page tables, present pages
  guard,                    \* the present pages that have lost PTE_U
  nfree,                    \* free frames
  at,                       \* where in the kernel the process is
  local,                    \* its local variables there
  panicked                  \* what the kernel panicked with, or "no"

space == <<sz, kstack, kvm, tables, pages, guard>>
vars == <<state, space, nfree, at, local, panicked>>

NumPages == NPDE * NPTE
Pages == 0 .. NumPages - 1
PDX(v) == v \div NPTE
KERNBASE == NumPages * PGSIZE
Word == 2 * KERNBASE

\* The number of the first page at or above address s.
PGROUNDUP(s) == (s + PGSIZE - 1) \div PGSIZE

\* Local variables of allocuvm (who called it, its arguments, the page it
\* is at, the frame it has just got) and of fork (the child, the page i).
NoCall == [by |-> "none", old |-> 0, new |-> 0, a |-> 0, mem |-> FALSE, np |-> Null]

\* The program that runs first was laid out by exec: text, the guard page,
\* the stack.
Init ==
  /\ state = [p \in Procs |-> IF p = initproc THEN "live" ELSE "unused"]
  /\ sz = [p \in Procs |-> IF p = initproc THEN InitPages * PGSIZE ELSE 0]
  /\ kstack = [p \in Procs |-> p = initproc]
  /\ kvm = [p \in Procs |-> p = initproc]
  /\ pages = [p \in Procs |-> IF p = initproc THEN 0 .. InitPages - 1 ELSE {}]
  /\ tables = [p \in Procs |-> {PDX(v) : v \in pages[p]}]
  /\ guard = [p \in Procs |-> IF p = initproc THEN {InitPages - 2} ELSE {}]
  /\ \E frames \in FrameCounts :
       nfree = frames - (1 + KvmFrames + InitPages + Cardinality(tables[initproc]))
  /\ nfree >= 0
  /\ at = [p \in Procs |-> "user"]
  /\ local = [p \in Procs |-> NoCall]
  /\ panicked = "no"

At(p, place) == panicked = "no" /\ state[p] = "live" /\ at[p] = place

Goto(p, place) == at' = [at EXCEPT ![p] = place]

\* Back to user mode, the call is over.
Return(p) == Goto(p, "user") /\ local' = [local EXCEPT ![p] = NoCall]

Panic(message) ==
  /\ panicked' = message
  /\ UNCHANGED <<state, space, nfree, at, local>>

-----------------------------------------------------------------------------
(* deallocuvm, freevm *)

\* The present pages that deallocuvm(old, new) frees.
Dropped(p, old, new) == {v \in pages[p] : new <= v * PGSIZE /\ v * PGSIZE < old}

\* deallocuvm, when the caller has extra frames of its own to give back.
deallocuvm(p, old, new, extra) ==
  LET drop == Dropped(p, old, new) IN
  /\ pages' = [pages EXCEPT ![p] = @ \ drop]
  /\ guard' = [guard EXCEPT ![p] = @ \ drop]
  /\ nfree' = nfree + Cardinality(drop) + extra

\* freevm of a slot's page table and kfree of its stack; the slot is free.
freevm(q, extra) ==
  /\ kvm' = [kvm EXCEPT ![q] = FALSE]
  /\ tables' = [tables EXCEPT ![q] = {}]
  /\ pages' = [pages EXCEPT ![q] = {}]
  /\ guard' = [guard EXCEPT ![q] = {}]
  /\ kstack' = [kstack EXCEPT ![q] = FALSE]
  /\ state' = [state EXCEPT ![q] = "unused"]
  /\ nfree' = nfree + extra + 1 + (IF kvm[q] THEN KvmFrames ELSE 0)
                    + Cardinality(tables[q]) + Cardinality(pages[q])

-----------------------------------------------------------------------------
(* mappages, of one page with the frame in mem *)

NoTable(q, v) == PDX(v) \notin tables[q]

\* The page table is there or can be allocated, the page is not there yet.
mappages(q, v) ==
  /\ v \notin pages[q]
  /\ NoTable(q, v) => nfree > 0
  /\ nfree' = IF NoTable(q, v) THEN nfree - 1 ELSE nfree
  /\ tables' = [tables EXCEPT ![q] = @ \cup {PDX(v)}]
  /\ pages' = [pages EXCEPT ![q] = @ \cup {v}]

-----------------------------------------------------------------------------
(* allocuvm *)

\* A user process that the kernel cannot help is killed and exits at once.
Die(p) ==
  /\ \/ /\ p # initproc
        /\ state' = [state EXCEPT ![p] = "zombie"]
        /\ UNCHANGED panicked
     \/ /\ p = initproc
        /\ panicked' = "init exiting"
        /\ UNCHANGED state
  /\ Return(p)

\* allocuvm has returned 0: growproc returns -1, a fault in user mode kills
\* the process, and a fault in kernel mode is a panic.
Failed(p, by) ==
  \/ by = "sbrk" /\ Return(p) /\ UNCHANGED <<state, panicked>>
  \/ by = "user" /\ Die(p)
  \/ by = "kernel" /\ panicked' = "trap" /\ Return(p) /\ UNCHANGED state

\* allocuvm has returned newsz.
Succeeded(p, by, new) ==
  /\ sz' = IF by = "sbrk" THEN [sz EXCEPT ![p] = new] ELSE sz
  /\ Return(p)
  /\ UNCHANGED <<state, panicked>>

\* Mutant: one page less than there is room for.
TooBig_OnePage(new) == new + PGSIZE >= KERNBASE

TooBig(new) == new >= KERNBASE

\* The call and its early returns.
allocuvm(p, by, old, new) ==
  /\ \/ TooBig(new) /\ Failed(p, by) /\ UNCHANGED sz
     \/ /\ ~TooBig(new)
        /\ PGROUNDUP(old) * PGSIZE >= new
        /\ Succeeded(p, by, new)
     \/ /\ ~TooBig(new)
        /\ PGROUNDUP(old) * PGSIZE < new
        /\ Goto(p, "alloc")
        /\ local' = [local EXCEPT ![p] =
             [NoCall EXCEPT !.by = by, !.old = old, !.new = new, !.a = PGROUNDUP(old)]]
        /\ UNCHANGED <<state, sz, panicked>>
  /\ UNCHANGED <<kstack, kvm, tables, pages, guard, nfree>>

\* Mutant: on failure one page too many is given back.
RollBack_FromPage(p, extra) ==
  /\ deallocuvm(p, local[p].new, local[p].old - (PGSIZE - 1), extra)
  /\ Failed(p, local[p].by)
  /\ UNCHANGED <<sz, kstack, kvm, tables>>

\* Out of memory: what this call has allocated is given back.
RollBack(p, extra) ==
  /\ deallocuvm(p, local[p].new, local[p].old, extra)
  /\ Failed(p, local[p].by)
  /\ UNCHANGED <<sz, kstack, kvm, tables>>

\* The kalloc of an iteration.
AllocPage(p) ==
  /\ At(p, "alloc")
  /\ \/ nfree = 0 /\ RollBack(p, 0)
     \/ /\ nfree > 0
        /\ nfree' = nfree - 1
        /\ local' = [local EXCEPT ![p].mem = TRUE]
        /\ Goto(p, "map")
        /\ UNCHANGED <<state, space, panicked>>

\* Mutant: the frame is lost when there is none for the page table.
AllocMap_LeaksMem(p) ==
  LET v == local[p].a IN
  /\ At(p, "map")
  /\ \/ NoTable(p, v) /\ nfree = 0 /\ RollBack(p, 0)
     \/ v \in pages[p] /\ Panic("remap")
     \/ /\ mappages(p, v)
        /\ \/ /\ (v + 1) * PGSIZE < local[p].new
              /\ Goto(p, "alloc")
              /\ local' = [local EXCEPT ![p].a = v + 1, ![p].mem = FALSE]
              /\ UNCHANGED <<state, sz, panicked>>
           \/ /\ (v + 1) * PGSIZE >= local[p].new
              /\ Succeeded(p, local[p].by, local[p].new)
        /\ UNCHANGED <<kstack, kvm, guard>>

\* The mappages of an iteration, and the next one.
AllocMap(p) ==
  LET v == local[p].a IN
  /\ At(p, "map")
  /\ \/ NoTable(p, v) /\ nfree = 0 /\ RollBack(p, 1)
     \/ v \in pages[p] /\ Panic("remap")
     \/ /\ mappages(p, v)
        /\ \/ /\ (v + 1) * PGSIZE < local[p].new
              /\ Goto(p, "alloc")
              /\ local' = [local EXCEPT ![p].a = v + 1, ![p].mem = FALSE]
              /\ UNCHANGED <<state, sz, panicked>>
           \/ /\ (v + 1) * PGSIZE >= local[p].new
              /\ Succeeded(p, local[p].by, local[p].new)
        /\ UNCHANGED <<kstack, kvm, guard>>

-----------------------------------------------------------------------------
(* sbrk, mmap, page faults *)

Grow(p, n) ==
  /\ At(p, "user") /\ n > 0
  /\ allocuvm(p, "sbrk", sz[p], (sz[p] + n) % Word)

\* Mutant: the size is set although nothing is freed.
Shrink_NoDealloc(p, n) ==
  LET new == (sz[p] + n) % Word IN
  /\ At(p, "user") /\ n < 0 /\ new < sz[p]
  /\ sz' = IF new = 0 THEN sz ELSE [sz EXCEPT ![p] = new]
  /\ UNCHANGED <<state, kstack, kvm, tables, pages, guard, nfree, at, local, panicked>>

\* growproc takes the new size 0 for an error and leaves sz as it is; a
\* shrink by more than the size wraps around and does nothing at all.
Shrink(p, n) ==
  LET new == (sz[p] + n) % Word IN
  /\ At(p, "user") /\ n < 0 /\ new < sz[p]
  /\ deallocuvm(p, sz[p], new, 0)
  /\ sz' = IF new = 0 THEN sz ELSE [sz EXCEPT ![p] = new]
  /\ UNCHANGED <<state, kstack, kvm, tables, at, local, panicked>>

\* Only the size is raised.
mmap(p, n) ==
  /\ At(p, "user")
  /\ n > 0 /\ n % PGSIZE = 0
  /\ sz[p] + n <= KERNBASE
  /\ sz' = [sz EXCEPT ![p] = @ + n]
  /\ UNCHANGED <<state, kstack, kvm, tables, pages, guard, nfree, at, local, panicked>>

\* The process touches an address of page v that it may not touch: in user
\* mode a guard page counts as such, in kernel mode it does not.
Faults(p, v, by) == v \notin pages[p] \/ (by = "user" /\ v \in guard[p])

\* Below sz the fault handler allocates the page; the kernel only touches
\* addresses below sz (KernelStaysInside of Syscalls).
Fault(p, v, by) ==
  /\ At(p, "user") /\ Faults(p, v, by)
  /\ \/ /\ v * PGSIZE < sz[p]
        /\ allocuvm(p, by, v * PGSIZE, (v + 1) * PGSIZE)
     \/ /\ by = "user" /\ (v + 1) * PGSIZE > sz[p]
        /\ Die(p)
        /\ UNCHANGED <<space, nfree>>

-----------------------------------------------------------------------------
(* fork, exit, wait *)

ForkSlot(p, q) ==
  /\ At(p, "user") /\ state[q] = "unused"
  /\ state' = [state EXCEPT ![q] = "embryo"]
  /\ local' = [local EXCEPT ![p].np = q]
  /\ Goto(p, "stack")
  /\ UNCHANGED <<space, nfree, panicked>>

\* The stack is the first frame of the child; without it the slot is free.
ForkStack(p) ==
  LET q == local[p].np IN
  /\ At(p, "stack")
  /\ \/ /\ nfree > 0
        /\ nfree' = nfree - 1
        /\ kstack' = [kstack EXCEPT ![q] = TRUE]
        /\ Goto(p, "setupkvm")
        /\ UNCHANGED <<state, local>>
     \/ /\ nfree = 0
        /\ state' = [state EXCEPT ![q] = "unused"]
        /\ Return(p)
        /\ UNCHANGED <<kstack, nfree>>
  /\ UNCHANGED <<sz, kvm, tables, pages, guard, panicked>>

\* copyuvm has returned 0.
ForkFails(p, extra) ==
  /\ freevm(local[p].np, extra)
  /\ Return(p)
  /\ UNCHANGED <<sz, panicked>>

ForkKvm(p) ==
  /\ At(p, "setupkvm")
  /\ \/ /\ nfree >= KvmFrames
        /\ nfree' = nfree - KvmFrames
        /\ kvm' = [kvm EXCEPT ![local[p].np] = TRUE]
        /\ Goto(p, "copy")
        /\ UNCHANGED <<state, sz, kstack, tables, pages, guard, local, panicked>>
     \/ nfree < KvmFrames /\ ForkFails(p, 0)

\* The head of copyuvm's loop, up to the kalloc.
CopyPage(p) ==
  LET i == local[p].a IN
  /\ At(p, "copy") /\ i * PGSIZE < sz[p]
  /\ \/ i \notin pages[p] /\ Panic("copyuvm")
     \/ /\ i \in pages[p] /\ nfree > 0
        /\ nfree' = nfree - 1
        /\ local' = [local EXCEPT ![p].mem = TRUE]
        /\ Goto(p, "copymap")
        /\ UNCHANGED <<state, space, panicked>>
     \/ i \in pages[p] /\ nfree = 0 /\ ForkFails(p, 0)

\* Mutant: the copy is mapped with PTE_W|PTE_U whatever the flags were.
CopyMap_DropsFlags(p) ==
  LET i == local[p].a
      q == local[p].np
  IN  /\ At(p, "copymap")
      /\ \/ NoTable(q, i) /\ nfree = 0 /\ ForkFails(p, 1)
         \/ /\ mappages(q, i)
            /\ local' = [local EXCEPT ![p].a = i + 1, ![p].mem = FALSE]
            /\ Goto(p, "copy")
            /\ UNCHANGED <<state, sz, kstack, kvm, guard, panicked>>

\* The page is mapped in the child with the parent's flags.
CopyMap(p) ==
  LET i == local[p].a
      q == local[p].np
  IN  /\ At(p, "copymap")
      /\ \/ NoTable(q, i) /\ nfree = 0 /\ ForkFails(p, 1)
         \/ /\ mappages(q, i)
            /\ guard' = [guard EXCEPT ![q] = IF i \in guard[p] THEN @ \cup {i} ELSE @]
            /\ local' = [local EXCEPT ![p].a = i + 1, ![p].mem = FALSE]
            /\ Goto(p, "copy")
            /\ UNCHANGED <<state, sz, kstack, kvm, panicked>>

\* The rest of fork, after the last page.
ForkPublish(p) ==
  LET q == local[p].np IN
  /\ At(p, "copy") /\ local[p].a * PGSIZE >= sz[p]
  /\ sz' = [sz EXCEPT ![q] = sz[p]]
  /\ state' = [state EXCEPT ![q] = "live"]
  /\ Return(p)
  /\ UNCHANGED <<kstack, kvm, tables, pages, guard, nfree, panicked>>

\* exit of a process that is not init, of its own accord or killed.
Exit(p) ==
  /\ At(p, "user") /\ p # initproc
  /\ state' = [state EXCEPT ![p] = "zombie"]
  /\ UNCHANGED <<space, nfree, at, local, panicked>>

\* What the wait of some process does with the memory of zombie q.
Reap(q) ==
  /\ panicked = "no"
  /\ state[q] = "zombie"
  /\ \E p \in Procs : At(p, "user")
  /\ freevm(q, 0)
  /\ UNCHANGED <<sz, at, local, panicked>>

Halted == panicked # "no" /\ UNCHANGED vars

-----------------------------------------------------------------------------

MemoryCall(p) ==
  \/ \E n \in -KERNBASE .. KERNBASE - 1 : Grow(p, n) \/ Shrink(p, n) \/ mmap(p, n)
  \/ \E v \in Pages, by \in {"user", "kernel"} : Fault(p, v, by)

ProcessCall(p) == (\E q \in Procs : ForkSlot(p, q)) \/ Exit(p)

\* The steps of a process inside the kernel.
InKernel(p) ==
  \/ AllocPage(p) \/ AllocMap(p)
  \/ ForkStack(p) \/ ForkKvm(p) \/ CopyPage(p) \/ CopyMap(p) \/ ForkPublish(p)

Next ==
  \/ \E p \in Procs : MemoryCall(p) \/ ProcessCall(p) \/ InKernel(p) \/ Reap(p)
  \/ Halted

Spec == Init /\ [][Next]_vars

-----------------------------------------------------------------------------
(* Properties *)

Places == {"user", "alloc", "map", "stack", "setupkvm", "copy", "copymap"}

\* Types.
TypeOK ==
  /\ state \in [Procs -> {"unused", "embryo", "live", "zombie"}]
  /\ sz \in [Procs -> 0 .. KERNBASE]
  /\ kstack \in [Procs -> BOOLEAN]
  /\ kvm \in [Procs -> BOOLEAN]
  /\ tables \in [Procs -> SUBSET (0 .. NPDE - 1)]
  /\ pages \in [Procs -> SUBSET Pages]
  /\ guard \in [Procs -> SUBSET Pages]
  /\ nfree \in Nat
  /\ at \in [Procs -> Places]
  /\ local \in [Procs -> [by : {"none", "sbrk", "user", "kernel"},
                          old : 0 .. KERNBASE, new : 0 .. KERNBASE,
                          a : 0 .. NumPages, mem : BOOLEAN, np : Procs \cup {Null}]]
  /\ panicked \in {"no", "remap", "copyuvm", "trap", "init exiting"}

\* What processes own, each thing in a frame of its own.  What a free slot has
\* kept is nobody's.
Owned ==
  LET used == {p \in Procs : state[p] # "unused"} IN
  {<<"stack", p>> : p \in {q \in used : kstack[q]}}
  \cup {<<"kvm", p, k>> : p \in {q \in used : kvm[q]}, k \in 1 .. KvmFrames}
  \cup {<<"mem", p>> : p \in {q \in used : local[q].mem}}
  \cup (UNION {{<<"table", p, i>> : i \in tables[p]} : p \in used})
  \cup (UNION {{<<"page", p, v>> : v \in pages[p]} : p \in used})

\* No frame leaks, into a free slot or elsewhere, and none is freed twice,
\* through every allocation that fails half-way (vm.c:131-133, 235-246,
\* 332-345, proc.c:95-98, 193-198), every shrink and every wait: what one side
\* gains the other side gives.
FramesConserved ==
  [][nfree' + Cardinality(Owned') = nfree + Cardinality(Owned)]_vars

\* sz bounds what is there: a page beyond the size would be a frame that
\* deallocuvm never frees and a place where a later mappages panics.  Only a
\* growing process has allocated ahead of its size.
PagesBelowSize ==
  \A p \in Procs : state[p] = "live" =>
    \A v \in pages[p] :
      \/ v * PGSIZE < sz[p]
      \/ at[p] \in {"alloc", "map"} /\ local[p].by = "sbrk" /\ v < local[p].a

\* A process that lives on loses a page only by giving up the addresses: an
\* allocation that is undone for want of memory takes no page it found.
\* (The one exception: sbrk of minus the size frees everything, and as the
\* new size 0 passes for an error, sz stays, proc.c:169-170.)
PagesKept ==
  [][\A p \in Procs :
       /\ state[p] = "live" /\ state'[p] = "live" /\ sz'[p] = sz[p]
       /\ panicked' = "no"
       => \/ \A v \in pages[p] : v \in pages'[p] \/ v * PGSIZE >= sz[p]
          \/ pages'[p] = {}]_vars

\* The child starts with the parent's memory, page for page, and with the
\* same guard page: "create a copy of it for a child" (vm.c:313-314).
ChildIsCopy ==
  [][\A c \in Procs :
       state[c] = "embryo" /\ state'[c] = "live" =>
         \E p \in Procs : /\ local[p].np = c
                          /\ sz'[c] = sz[p]
                          /\ pages'[c] = pages[p]
                          /\ guard'[c] = guard[p]]_vars

\* The assertions of copyuvm, "pte should exist" and "page not present"
\* (vm.c:326-329): fork finds every page below the size.
ForkFindsPages == panicked # "copyuvm"
=============================================================================
