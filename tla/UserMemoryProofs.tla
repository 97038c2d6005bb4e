-------------------------- MODULE UserMemoryProofs --------------------------
(***************************************************************************)
(* Proofs about UserMemory and Syscalls, for any number of processes, any  *)
(* size of memory, of a page and of a page table.                          *)
(*                                                                         *)
(* MInv, the inductive invariant of the memory, says what a process has    *)
(* allocated ahead of its size (Loops) and what a fork has copied (Copies, *)
(* Copying).  FInv adds which frames a slot has at each place of fork.     *)
(* CInv, for the system calls, adds which calls are under way (Calls).     *)
(*                                                                         *)
(* A lemma <Action>Inv says that the action keeps MInv, <Action>Keeps that *)
(* no process loses a page or is born with a wrong one, <Action>Frames     *)
(* that what the action takes it pays for.                                 *)
(***************************************************************************)
EXTENDS Syscalls, FiniteSetTheorems, WellFoundedInduction, TLAPS

Growing == {"alloc", "map"}
Forking == {"stack", "setupkvm", "copy", "copymap"}

\* Outside the kernel a process has no local variables; only a live process
\* is inside.
Idle ==
  \A p \in Procs :
    /\ at[p] = "user" => local[p] = NoCall
    /\ state[p] # "live" => at[p] = "user"

\* The next page of a loop of allocuvm lies below the new end; sbrk began
\* with the whole size, a page fault with its own page, which is below it.
Loops ==
  \A p \in Procs : at[p] \in Growing =>
    /\ local[p].by \in {"sbrk", "user", "kernel"}
    /\ local[p].a * PGSIZE < local[p].new /\ local[p].new < KERNBASE
    /\ local[p].by = "sbrk" =>
         local[p].old = sz[p] /\ sz[p] <= local[p].a * PGSIZE
    /\ local[p].by # "sbrk" =>
         /\ local[p].a * PGSIZE < sz[p]
         /\ local[p].old = local[p].a * PGSIZE
         /\ local[p].new = (local[p].a + 1) * PGSIZE

\* A fork has copied the pages before its i to a child,
Copying(p) ==
  LET q == local[p].np
      done == 0 .. local[p].a - 1
  IN  /\ q \in Procs /\ state[q] = "embryo"
      /\ done \subseteq pages[p]
      /\ pages[q] = done
      /\ guard[q] = guard[p] \cap done
      /\ at[p] \in {"stack", "setupkvm"} => local[p].a = 0 /\ tables[q] = {}
      /\ at[p] = "copymap" => local[p].a \in pages[p]

\* and the child is its own.
Copies ==
  /\ \A p \in Procs : at[p] \in Forking => Copying(p)
  /\ \A p, q \in Procs :
       at[p] \in Forking /\ at[q] \in Forking /\ local[p].np = local[q].np => p = q

\* Page tables and pages go together, and a free slot has neither.
Mapped ==
  \A p \in Procs :
    /\ guard[p] \subseteq pages[p]
    /\ \A v \in pages[p] : PDX(v) \in tables[p]
    /\ state[p] = "unused" => pages[p] = {} /\ tables[p] = {}

MInv == TypeOK /\ Idle /\ Loops /\ Copies /\ Mapped /\ PagesBelowSize

\* The kernel waits only for memory of a live process.
Calls ==
  /\ call \in [Procs -> {"none", "int", "block", "string"}]
  /\ touch \in [Procs -> SUBSET Nat]
  /\ \A p \in Procs :
       /\ call[p] = "none" => touch[p] = {}
       /\ call[p] # "none" => state[p] = "live" /\ at[p] \notin Forking
       /\ at[p] \in Growing => (call[p] # "none" <=> local[p].by = "kernel")

CInv == MInv /\ Calls /\ KernelStaysInside

-----------------------------------------------------------------------------
(* Pages and addresses *)

\* Products of pages and sizes: the address after the next page,
LEMMA MulNext ==
  ASSUME NEW a \in Nat, NEW k \in Nat
  PROVE  a * k \in Nat /\ (a + 1) * k = a * k + k
OBVIOUS

\* their order,
LEMMA MulLess ==
  ASSUME NEW a \in Nat, NEW b \in Nat, NEW k \in Nat, k >= 1
  PROVE  a < b <=> a * k < b * k
OBVIOUS

\* what the division of addresses gives,
LEMMA DivIs ==
  ASSUME NEW s \in Nat, NEW k \in Nat, k >= 1
  PROVE  s \div k \in Nat /\ (s \div k) * k <= s /\ s < (s \div k) * k + k
OBVIOUS

\* and what is left of one.
LEMMA ModRange ==
  ASSUME NEW s \in Int, NEW k \in Nat, k >= 1
  PROVE  s % k \in 0 .. k - 1
OBVIOUS

\* There are at least three pages, and KERNBASE is the end of the last one.
LEMMA Sizes ==
  /\ NPDE \in Nat /\ NPDE >= 1 /\ NPTE \in Nat /\ NPTE >= 1
  /\ PGSIZE \in Nat /\ PGSIZE >= 1
  /\ NumPages \in Nat /\ NumPages >= 3 /\ KERNBASE \in Nat /\ KERNBASE >= 1
  /\ Word = 2 * KERNBASE
<1>1. NPDE * NPTE \in Nat
  BY MemoryAssumption
<1>2. NumPages \in Nat /\ NumPages >= 3
  BY <1>1, MemoryAssumption DEF NumPages
<1>3. NumPages * PGSIZE \in Nat /\ NumPages * PGSIZE >= 1
  <2>1. NumPages * 1 <= NumPages * PGSIZE
    BY <1>2, MemoryAssumption
  <2> QED
    BY <1>2, <2>1, MemoryAssumption
<1> QED
  BY <1>2, <1>3, MemoryAssumption DEF KERNBASE, Word

\* Pages, and no other numbers, have addresses below KERNBASE.
LEMMA PageBelow ==
  ASSUME NEW v \in Nat
  PROVE  v * PGSIZE \in Nat /\ (v \in Pages <=> v * PGSIZE < KERNBASE)
         /\ (v + 1) * PGSIZE = v * PGSIZE + PGSIZE
BY Sizes, MulLess, MulNext DEF Pages, KERNBASE

\* PGROUNDUP goes up, by less than a page.
LEMMA RoundUp ==
  ASSUME NEW s \in Nat
  PROVE  /\ PGROUNDUP(s) \in Nat /\ s <= PGROUNDUP(s) * PGSIZE
         /\ PGROUNDUP(s) * PGSIZE < s + PGSIZE
<1>1. s + PGSIZE - 1 \in Nat
  BY Sizes
<1>2. /\ PGROUNDUP(s) \in Nat /\ PGROUNDUP(s) * PGSIZE <= s + PGSIZE - 1
      /\ s + PGSIZE - 1 < PGROUNDUP(s) * PGSIZE + PGSIZE
  BY <1>1, DivIs, Sizes DEF PGROUNDUP
<1>3. PGROUNDUP(s) * PGSIZE \in Nat
  BY <1>2, PageBelow
<1> QED
  BY <1>2, <1>3, Sizes

\* What PGROUNDUP rounds to is the first page that does not start below s.
LEMMA BelowSize ==
  ASSUME NEW s \in Nat, NEW v \in Nat
  PROVE  v * PGSIZE < s <=> v < PGROUNDUP(s)
<1>1. /\ PGROUNDUP(s) \in Nat /\ s <= PGROUNDUP(s) * PGSIZE
      /\ PGROUNDUP(s) * PGSIZE < s + PGSIZE
  BY RoundUp
<1>2. PGROUNDUP(s) * PGSIZE \in Nat /\ v * PGSIZE \in Nat
      /\ (v + 1) * PGSIZE = v * PGSIZE + PGSIZE
  BY <1>1, PageBelow
<1>3. v < PGROUNDUP(s) <=> v * PGSIZE < PGROUNDUP(s) * PGSIZE
  BY <1>1, MulLess, Sizes
<1>4. v + 1 <= PGROUNDUP(s) <=> (v + 1) * PGSIZE <= PGROUNDUP(s) * PGSIZE
  <2>1. PGROUNDUP(s) < v + 1 <=> PGROUNDUP(s) * PGSIZE < (v + 1) * PGSIZE
    BY <1>1, MulLess, Sizes
  <2> QED
    BY <1>1, <1>2, <2>1, Sizes
<1> QED
  BY <1>1, <1>2, <1>3, <1>4, Sizes

\* An address of a page is not rounded.
LEMMA RoundUpPage ==
  ASSUME NEW v \in Nat
  PROVE  PGROUNDUP(v * PGSIZE) = v
<1>1. v * PGSIZE \in Nat
  BY PageBelow
<1>2. ~(v < PGROUNDUP(v * PGSIZE)) /\ PGROUNDUP(v * PGSIZE) \in Nat
  BY <1>1, BelowSize, RoundUp
<1>3. \A w \in Nat : w < v => w < PGROUNDUP(v * PGSIZE)
  BY <1>1, BelowSize, MulLess, Sizes
<1> QED
  BY <1>2, <1>3

\* A page has its table in the user half of the directory.
LEMMA TableOf ==
  ASSUME NEW v \in Pages
  PROVE  PDX(v) \in 0 .. NPDE - 1
<1>1. v \in Nat /\ v < NPDE * NPTE
  BY Sizes DEF Pages, NumPages
<1>2. PDX(v) \in Nat /\ PDX(v) * NPTE <= v
  BY <1>1, DivIs, Sizes DEF PDX
<1>3. PDX(v) * NPTE < NPDE * NPTE
  BY <1>1, <1>2, Sizes
<1> QED
  BY <1>2, <1>3, MulLess, Sizes

\* Sets of pages, and of page tables, are finite.
LEMMA PagesFinite ==
  /\ IsFiniteSet(Pages) /\ IsFiniteSet(0 .. NPDE - 1)
  /\ \A S \in SUBSET Pages : IsFiniteSet(S) /\ Cardinality(S) \in Nat
  /\ \A S \in SUBSET (0 .. NPDE - 1) : IsFiniteSet(S) /\ Cardinality(S) \in Nat
<1>1. IsFiniteSet(Pages) /\ IsFiniteSet(0 .. NPDE - 1)
  BY Sizes, FS_Interval DEF Pages
<1> QED
  BY <1>1, FS_Subset, FS_CardinalityType

-----------------------------------------------------------------------------
(* Steps of a process on its own memory *)

Panics == {"no", "remap", "copyuvm", "trap", "init exiting"}

LocalVars == [by : {"none", "sbrk", "user", "kernel"}, old : 0 .. KERNBASE,
              new : 0 .. KERNBASE, a : 0 .. NumPages, mem : BOOLEAN, np : Procs \cup {Null}]

\* The step leaves slot q as it is.
Kept(q) ==
  /\ state'[q] = state[q] /\ sz'[q] = sz[q] /\ tables'[q] = tables[q]
  /\ pages'[q] = pages[q] /\ guard'[q] = guard[q] /\ at'[q] = at[q] /\ local'[q] = local[q]

\* Process p is in user mode, or leaves allocuvm, with what its size allows.
LEMMA ReturnInv ==
  ASSUME MInv, TypeOK', NEW p \in Procs, \A q \in Procs : q # p => Kept(q),
         state[p] = "live", at[p] \notin Forking,
         state'[p] \in {"live", "zombie"}, at'[p] = "user", local'[p] = NoCall,
         guard'[p] \subseteq pages'[p],
         \A v \in pages'[p] : PDX(v) \in tables'[p] /\ v * PGSIZE < sz'[p]
  PROVE  MInv'
<1> USE DEF MInv, Kept
<1>2. Idle'
  BY DEF Idle
<1>3. Loops'
  BY DEF Loops, Growing
<1>4. Copies'
  <2>1. \A r \in Procs : at'[r] \in Forking =>
          at[r] \in Forking /\ Kept(r) /\ local[r].np \in Procs /\ Kept(local[r].np)
    BY DEF Copies, Copying, Forking
  <2>2. ASSUME NEW r \in Procs, at'[r] \in Forking
        PROVE  Copying(r)'
    <3>1. /\ Copying(r) /\ local'[r] = local[r] /\ at'[r] = at[r] /\ pages'[r] = pages[r]
          /\ guard'[r] = guard[r]
      BY <2>1, <2>2 DEF Copies
    <3>2. /\ state'[local[r].np] = state[local[r].np] /\ pages'[local[r].np] = pages[local[r].np]
          /\ guard'[local[r].np] = guard[local[r].np] /\ tables'[local[r].np] = tables[local[r].np]
      BY <2>1, <2>2
    <3> QED
      BY <3>1, <3>2 DEF Copying
  <2> QED
    BY <2>1, <2>2 DEF Copies
<1>5. Mapped'
  BY DEF Mapped
<1>6. PagesBelowSize'
  BY DEF PagesBelowSize
<1> QED
  BY <1>2, <1>3, <1>4, <1>5, <1>6

\* Process p is in the loop of allocuvm, where it has allocated what lies below a.
LEMMA LoopInv ==
  ASSUME MInv, TypeOK', NEW p \in Procs, \A q \in Procs : q # p => Kept(q),
         state[p] = "live", state'[p] = "live", sz'[p] = sz[p], guard'[p] = guard[p],
         at[p] \notin Forking, at'[p] \in Growing,
         local'[p].by \in {"sbrk", "user", "kernel"},
         local'[p].a * PGSIZE < local'[p].new, local'[p].new < KERNBASE,
         local'[p].by = "sbrk" => local'[p].old = sz[p] /\ sz[p] <= local'[p].a * PGSIZE,
         local'[p].by # "sbrk" => /\ local'[p].a * PGSIZE < sz[p]
                                  /\ local'[p].old = local'[p].a * PGSIZE
                                  /\ local'[p].new = (local'[p].a + 1) * PGSIZE,
         guard[p] \subseteq pages'[p],
         \A v \in pages'[p] :
           /\ PDX(v) \in tables'[p]
           /\ v * PGSIZE < sz[p] \/ (local'[p].by = "sbrk" /\ v < local'[p].a)
  PROVE  MInv'
<1> USE DEF MInv, Kept
<1>2. Idle'
  BY DEF Idle, Growing
<1>3. Loops'
  BY DEF Loops, Growing
<1>4. Copies'
  <2>1. \A r \in Procs : at'[r] \in Forking =>
          at[r] \in Forking /\ Kept(r) /\ local[r].np \in Procs /\ Kept(local[r].np)
    BY DEF Copies, Copying, Forking, Growing
  <2>2. ASSUME NEW r \in Procs, at'[r] \in Forking
        PROVE  Copying(r)'
    <3>1. /\ Copying(r) /\ local'[r] = local[r] /\ at'[r] = at[r] /\ pages'[r] = pages[r]
          /\ guard'[r] = guard[r]
      BY <2>1, <2>2 DEF Copies
    <3>2. /\ state'[local[r].np] = state[local[r].np] /\ pages'[local[r].np] = pages[local[r].np]
          /\ guard'[local[r].np] = guard[local[r].np] /\ tables'[local[r].np] = tables[local[r].np]
      BY <2>1, <2>2
    <3> QED
      BY <3>1, <3>2 DEF Copying
  <2> QED
    BY <2>1, <2>2 DEF Copies
<1>5. Mapped'
  BY DEF Mapped
<1>6. PagesBelowSize'
  BY DEF PagesBelowSize, Growing
<1> QED
  BY <1>2, <1>3, <1>4, <1>5, <1>6

\* A process leaves allocuvm with no page more than it had before.
LEMMA EndInv ==
  ASSUME MInv, TypeOK', NEW p \in Procs, \A q \in Procs : q # p => Kept(q),
         state[p] = "live", at[p] \notin Forking,
         state'[p] \in {"live", "zombie"}, at'[p] = "user", local'[p] = NoCall,
         tables'[p] = tables[p], pages'[p] \subseteq pages[p],
         guard'[p] = guard[p] \cap pages'[p],
         \A v \in pages'[p] : v * PGSIZE < sz'[p]
  PROVE  MInv'
BY ReturnInv DEF MInv, Mapped

-----------------------------------------------------------------------------
(* allocuvm *)

\* The local variables are numbers.
LEMMA LocalType ==
  ASSUME TypeOK, NEW p \in Procs
  PROVE  /\ local[p] \in LocalVars /\ local[p].old \in Nat /\ local[p].new \in Nat
         /\ local[p].a \in Nat /\ sz[p] \in Nat
         /\ local[p].by \in {"none", "sbrk", "user", "kernel"}
<1>1. local[p] \in LocalVars /\ sz[p] \in 0 .. KERNBASE
  BY DEF TypeOK, LocalVars
<1> QED
  BY <1>1, Sizes DEF LocalVars

\* The local variables of a process that is in no call.
LEMMA NoCallType ==
  /\ NoCall \in LocalVars /\ NoCall.by = "none" /\ NoCall.old = 0 /\ NoCall.new = 0
  /\ NoCall.a = 0 /\ NoCall.mem = FALSE /\ NoCall.np = Null
BY Sizes DEF NoCall, LocalVars

\* Leaving the kernel, and what it does to the types.
LEMMA ReturnType ==
  ASSUME TypeOK, NEW p \in Procs, Return(p)
  PROVE  /\ at' \in [Procs -> Places] /\ local' \in [Procs -> LocalVars]
         /\ at'[p] = "user" /\ local'[p] = NoCall
         /\ \A q \in Procs : q # p => at'[q] = at[q] /\ local'[q] = local[q]
<1>1. local \in [Procs -> LocalVars]
  BY DEF TypeOK, LocalVars
<1> QED
  BY <1>1, NoCallType DEF TypeOK, Return, Goto, Places

\* Failed and Die: a process returns, or dies, or the kernel panics.
LEMMA FailedType ==
  ASSUME TypeOK, NEW p \in Procs, state[p] = "live", NEW by, Failed(p, by) \/ Die(p)
  PROVE  /\ Return(p) /\ state'[p] \in {"live", "zombie"} /\ panicked' \in Panics
         /\ state' \in [Procs -> {"unused", "embryo", "live", "zombie"}]
         /\ \A q \in Procs : q # p => state'[q] = state[q]
BY DEF TypeOK, Failed, Die, Panics

\* Succeeded: sbrk sets the size.
LEMMA SucceededType ==
  ASSUME TypeOK, NEW p \in Procs, NEW by, NEW new \in 0 .. KERNBASE, Succeeded(p, by, new)
  PROVE  /\ Return(p) /\ state' = state /\ panicked' = panicked
         /\ sz' \in [Procs -> 0 .. KERNBASE]
         /\ sz'[p] = IF by = "sbrk" THEN new ELSE sz[p]
         /\ \A q \in Procs : q # p => sz'[q] = sz[q]
BY DEF TypeOK, Succeeded

\* allocuvm begins with the size of the process, or with a page below it.
LEMMA AllocuvmInv ==
  ASSUME MInv, NEW p \in Procs, At(p, "user"), NEW by \in {"sbrk", "user", "kernel"},
         NEW old \in Nat, NEW new \in Nat, allocuvm(p, by, old, new),
         by = "sbrk" => old = sz[p] /\ old <= new,
         by # "sbrk" => \E v \in Pages : /\ old = v * PGSIZE /\ new = (v + 1) * PGSIZE
                                         /\ v * PGSIZE < sz[p]
  PROVE  MInv'
<1>0. /\ state[p] = "live" /\ at[p] = "user" /\ at[p] \notin Forking /\ TypeOK
      /\ UNCHANGED <<kstack, kvm, tables, pages, guard, nfree>>
      /\ panicked \in Panics /\ sz[p] \in 0 .. KERNBASE /\ pages[p] \subseteq Pages
      /\ guard[p] \subseteq pages[p]
      /\ \A v \in pages[p] : PDX(v) \in tables[p] /\ v * PGSIZE < sz[p]
  BY DEF At, allocuvm, MInv, TypeOK, PagesBelowSize, Mapped, Forking, Panics
<1>2. CASE TooBig(new) /\ Failed(p, by) /\ UNCHANGED sz
  <2>1. /\ Return(p) /\ state'[p] \in {"live", "zombie"} /\ panicked' \in Panics
        /\ state' \in [Procs -> {"unused", "embryo", "live", "zombie"}]
        /\ \A q \in Procs : q # p => state'[q] = state[q]
    BY <1>0, <1>2, FailedType
  <2>2. /\ at' \in [Procs -> Places] /\ local' \in [Procs -> LocalVars]
        /\ at'[p] = "user" /\ local'[p] = NoCall
        /\ \A q \in Procs : q # p => at'[q] = at[q] /\ local'[q] = local[q]
    BY <1>0, <2>1, ReturnType
  <2>3. TypeOK'
    BY <1>0, <1>2, <2>1, <2>2 DEF TypeOK, LocalVars, Panics
  <2> QED
    BY <1>0, <1>2, <2>1, <2>2, <2>3, EndInv DEF Kept
<1>3. CASE ~TooBig(new) /\ Succeeded(p, by, new)
  <2>0. new \in 0 .. KERNBASE
    BY <1>3, Sizes DEF TooBig
  <2>1. /\ Return(p) /\ state' = state /\ panicked' = panicked
        /\ sz' \in [Procs -> 0 .. KERNBASE]
        /\ sz'[p] = IF by = "sbrk" THEN new ELSE sz[p]
        /\ \A q \in Procs : q # p => sz'[q] = sz[q]
    BY <1>0, <1>3, <2>0, SucceededType
  <2>2. /\ at' \in [Procs -> Places] /\ local' \in [Procs -> LocalVars]
        /\ at'[p] = "user" /\ local'[p] = NoCall
        /\ \A q \in Procs : q # p => at'[q] = at[q] /\ local'[q] = local[q]
    BY <1>0, <2>1, ReturnType
  <2>3. TypeOK'
    BY <1>0, <2>1, <2>2 DEF TypeOK, LocalVars, Panics
  <2>4. sz[p] <= sz'[p] /\ sz'[p] \in Nat
    BY <1>0, <2>0, <2>1, Sizes
  <2>5. \A v \in pages'[p] : v * PGSIZE < sz'[p]
    BY <1>0, <2>4, PageBelow DEF Pages
  <2> QED
    BY <1>0, <2>1, <2>2, <2>3, <2>5, EndInv DEF Kept
<1>4. CASE /\ ~TooBig(new) /\ PGROUNDUP(old) * PGSIZE < new
           /\ Goto(p, "alloc")
           /\ local' = [local EXCEPT ![p] =
                [NoCall EXCEPT !.by = by, !.old = old, !.new = new, !.a = PGROUNDUP(old)]]
           /\ UNCHANGED <<state, sz, panicked>>
  <2>1. PGROUNDUP(old) \in Nat /\ old <= PGROUNDUP(old) * PGSIZE
        /\ PGROUNDUP(old) * PGSIZE \in Nat
    BY RoundUp, PageBelow
  <2>2. new < KERNBASE /\ old < KERNBASE /\ PGROUNDUP(old) \in Pages
    BY <1>4, <2>1, PageBelow, Sizes DEF TooBig
  <2> DEFINE l == [NoCall EXCEPT !.by = by, !.old = old, !.new = new, !.a = PGROUNDUP(old)]
  <2>3. old \in 0 .. KERNBASE /\ new \in 0 .. KERNBASE /\ PGROUNDUP(old) \in 0 .. NumPages
    BY <2>2, Sizes DEF Pages
  <2>4. l \in LocalVars
    BY <2>3, NoCallType DEF LocalVars
  <2>5. l.by = by /\ l.old = old /\ l.new = new /\ l.a = PGROUNDUP(old)
    BY NoCallType DEF LocalVars
  <2> HIDE DEF l
  <2>6. /\ local' \in [Procs -> LocalVars] /\ local'[p] = l
        /\ \A q \in Procs : q # p => local'[q] = local[q]
    BY <1>0, <1>4, <2>4 DEF TypeOK, LocalVars, l
  <2>7. /\ at' \in [Procs -> Places] /\ at'[p] = "alloc"
        /\ \A q \in Procs : q # p => at'[q] = at[q]
    BY <1>0, <1>4 DEF TypeOK, Goto, Places
  <2>8. TypeOK'
    BY <1>0, <1>4, <2>6, <2>7 DEF TypeOK, LocalVars
  <2>9. by # "sbrk" => /\ PGROUNDUP(old) * PGSIZE < sz[p] /\ old = PGROUNDUP(old) * PGSIZE
                       /\ new = (PGROUNDUP(old) + 1) * PGSIZE
    <3> SUFFICES ASSUME by # "sbrk"
                 PROVE  /\ PGROUNDUP(old) * PGSIZE < sz[p] /\ old = PGROUNDUP(old) * PGSIZE
                        /\ new = (PGROUNDUP(old) + 1) * PGSIZE
      OBVIOUS
    <3>1. PICK v \in Pages : old = v * PGSIZE /\ new = (v + 1) * PGSIZE /\ v * PGSIZE < sz[p]
      OBVIOUS
    <3>2. PGROUNDUP(old) = v
      BY <3>1, RoundUpPage DEF Pages
    <3> QED
      BY <3>1, <3>2
  <2> QED
    BY <1>0, <1>4, <2>1, <2>2, <2>5, <2>6, <2>7, <2>8, <2>9, LoopInv DEF Kept, Growing
<1> QED
  BY <1>2, <1>3, <1>4 DEF allocuvm

\* The loop of allocuvm gives back what it has allocated, and no more.
LEMMA RollBackInv ==
  ASSUME MInv, NEW p \in Procs, state[p] = "live", at[p] \in Growing, NEW extra \in Nat,
         RollBack(p, extra)
  PROVE  /\ MInv' /\ at[p] \notin Forking
         /\ local[p].by # "sbrk" => local[p].old < local[p].new
         /\ pages'[p] \subseteq pages[p]
         /\ \A v \in pages[p] : v * PGSIZE < local[p].old => v \in pages'[p]
<1>1. /\ TypeOK /\ at[p] \notin Forking /\ Return(p) /\ local[p].by \in {"sbrk", "user", "kernel"}
      /\ pages[p] \subseteq Pages /\ guard[p] \subseteq pages[p] /\ nfree \in Nat
      /\ \A v \in pages[p] : PDX(v) \in tables[p]
      /\ Failed(p, local[p].by) /\ UNCHANGED <<sz, kstack, kvm, tables>>
  BY FailedType DEF MInv, TypeOK, Mapped, Loops, RollBack, Growing, Forking
<1>2. /\ state'[p] \in {"live", "zombie"} /\ panicked' \in Panics
      /\ state' \in [Procs -> {"unused", "embryo", "live", "zombie"}]
      /\ \A q \in Procs : q # p => state'[q] = state[q]
  BY <1>1, FailedType
<1>3. /\ at' \in [Procs -> Places] /\ local' \in [Procs -> LocalVars]
      /\ at'[p] = "user" /\ local'[p] = NoCall
      /\ \A q \in Procs : q # p => at'[q] = at[q] /\ local'[q] = local[q]
  BY <1>1, ReturnType
<1> DEFINE drop == Dropped(p, local[p].new, local[p].old)
<1>4. /\ drop \subseteq pages[p] /\ pages'[p] = pages[p] \ drop /\ guard'[p] = guard[p] \ drop
      /\ pages' \in [Procs -> SUBSET Pages] /\ guard' \in [Procs -> SUBSET Pages]
      /\ \A q \in Procs : q # p => pages'[q] = pages[q] /\ guard'[q] = guard[q]
  BY <1>1 DEF RollBack, deallocuvm, Dropped, TypeOK
<1>5. nfree' \in Nat
  <2>1. nfree' = nfree + Cardinality(drop) + extra
    BY DEF RollBack, deallocuvm
  <2>2. drop \in SUBSET Pages
    BY <1>1, <1>4
  <2> HIDE DEF drop
  <2>3. Cardinality(drop) \in Nat
    BY <2>2, PagesFinite
  <2> QED
    BY <1>1, <2>1, <2>3
<1>6. TypeOK'
  BY <1>1, <1>2, <1>3, <1>4, <1>5 DEF TypeOK, LocalVars, Panics
<1>7. \A v \in pages'[p] : v * PGSIZE < sz'[p]
  <2> SUFFICES ASSUME NEW v \in pages'[p]
               PROVE  v * PGSIZE < sz[p]
    BY <1>1
  <2>1. v \in pages[p] /\ v \in Nat /\ v * PGSIZE \in Nat
    BY <1>1, <1>4, PageBelow DEF Pages
  <2>2. ~(local[p].old <= v * PGSIZE /\ v * PGSIZE < local[p].new)
    BY <1>4, <2>1 DEF Dropped
  <2>3. CASE v * PGSIZE < sz[p]
    BY <2>3
  <2>4. CASE local[p].by = "sbrk" /\ v < local[p].a
    <3>1. /\ local[p].old = sz[p] /\ local[p].a * PGSIZE < local[p].new
          /\ local[p].a \in Nat /\ sz[p] \in Nat /\ local[p].new \in Nat
      BY <1>1, <2>4, LocalType DEF MInv, Loops
    <3>2. v * PGSIZE < local[p].a * PGSIZE /\ local[p].a * PGSIZE \in Nat
      BY <2>1, <2>4, <3>1, MulLess, PageBelow, Sizes
    <3> QED
      BY <2>1, <2>2, <3>1, <3>2
  <2> QED
    BY <2>1, <2>3, <2>4 DEF MInv, PagesBelowSize
<1>8. \A q \in Procs : q # p => Kept(q)
  BY <1>1, <1>2, <1>3, <1>4 DEF Kept
<1>9. MInv'
  <2> HIDE DEF drop
  <2>1. guard'[p] = guard[p] \cap pages'[p] /\ pages'[p] \subseteq pages[p]
    BY <1>1, <1>4
  <2> QED
    BY <1>1, <1>2, <1>3, <1>6, <1>7, <1>8, <2>1, EndInv
<1>10. local[p].by # "sbrk" => local[p].old < local[p].new
  <2> SUFFICES ASSUME local[p].by # "sbrk"
               PROVE  local[p].old < local[p].new
    OBVIOUS
  <2>1. /\ local[p].a \in Nat /\ local[p].old = local[p].a * PGSIZE
        /\ local[p].new = (local[p].a + 1) * PGSIZE
    BY <1>1, LocalType DEF MInv, Loops
  <2> QED
    BY <2>1, PageBelow, Sizes
<1>11. \A v \in pages[p] : v * PGSIZE < local[p].old => v \in pages'[p]
  <2> SUFFICES ASSUME NEW v \in pages[p], v * PGSIZE < local[p].old
               PROVE  v \in pages'[p]
    OBVIOUS
  <2>1. v * PGSIZE \in Nat /\ local[p].old \in Nat
    BY <1>1, PageBelow, LocalType DEF Pages
  <2> QED
    BY <1>4, <2>1 DEF Dropped
<1> QED
  BY <1>1, <1>4, <1>9, <1>10, <1>11

\* The kalloc of allocuvm's loop: a frame, or everything is undone.
LEMMA AllocPageInv ==
  ASSUME MInv, NEW p \in Procs, AllocPage(p)
  PROVE  MInv'
<1>1. state[p] = "live" /\ at[p] = "alloc" /\ at[p] \in Growing /\ at[p] \notin Forking /\ TypeOK
  BY DEF AllocPage, At, MInv, Growing, Forking
<1>2. CASE RollBack(p, 0)
  BY <1>1, <1>2, RollBackInv
<1>3. CASE /\ nfree > 0 /\ nfree' = nfree - 1
           /\ local' = [local EXCEPT ![p].mem = TRUE]
           /\ Goto(p, "map")
           /\ UNCHANGED <<state, space, panicked>>
  <2>1. /\ local' \in [Procs -> LocalVars]
        /\ \A q \in Procs : q # p => local'[q] = local[q]
        /\ local'[p].by = local[p].by /\ local'[p].old = local[p].old
        /\ local'[p].new = local[p].new /\ local'[p].a = local[p].a
    <3>1. local'[p] = [local[p] EXCEPT !.mem = TRUE] /\ local[p] \in LocalVars
      BY <1>1, <1>3 DEF TypeOK, LocalVars
    <3> QED
      BY <1>1, <1>3, <3>1 DEF TypeOK, LocalVars
  <2>2. /\ at' \in [Procs -> Places] /\ at'[p] = "map"
        /\ \A q \in Procs : q # p => at'[q] = at[q]
    BY <1>1, <1>3 DEF TypeOK, Goto, Places
  <2>3. TypeOK'
    <3>1. nfree \in Nat /\ nfree > 0 /\ nfree' = nfree - 1
      BY <1>1, <1>3 DEF TypeOK
    <3>2. nfree' \in Nat
      BY <3>1
    <3> QED
      BY <1>1, <1>3, <2>1, <2>2, <3>2 DEF TypeOK, LocalVars, space
  <2>4. \A q \in Procs : q # p => Kept(q)
    BY <1>3, <2>1, <2>2 DEF Kept, space
  <2>5. /\ sz' = sz /\ state' = state /\ guard' = guard /\ pages' = pages /\ tables' = tables
    BY <1>3 DEF space
  <2> QED
    BY <1>1, <2>1, <2>2, <2>3, <2>4, <2>5, LoopInv
       DEF MInv, Loops, Mapped, PagesBelowSize, Growing
<1> QED
  BY <1>2, <1>3 DEF AllocPage

\* Only the message of a panic changes.
LEMMA PanicInv ==
  ASSUME MInv, NEW message \in Panics, Panic(message)
  PROVE  MInv'
<1>1. TypeOK'
  BY DEF MInv, TypeOK, Panic, space, Panics
<1>2. UNCHANGED <<state, sz, tables, pages, guard, at, local>>
  BY DEF Panic, space
<1> QED
  BY <1>1, <1>2 DEF MInv, Idle, Loops, Copies, Copying, Mapped, PagesBelowSize

\* What mappages changes: page v and its table are there afterwards.
LEMMA MappagesType ==
  ASSUME TypeOK, NEW q \in Procs, NEW v \in Pages, mappages(q, v)
  PROVE  /\ nfree' \in Nat
         /\ tables' \in [Procs -> SUBSET (0 .. NPDE - 1)] /\ pages' \in [Procs -> SUBSET Pages]
         /\ tables'[q] = tables[q] \cup {PDX(v)} /\ pages'[q] = pages[q] \cup {v}
         /\ \A r \in Procs : r # q => tables'[r] = tables[r] /\ pages'[r] = pages[r]
<1>1. PDX(v) \in 0 .. NPDE - 1
  BY TableOf
<1>2. nfree' \in Nat
  <2>1. nfree \in Nat /\ (NoTable(q, v) => nfree > 0)
        /\ nfree' = IF NoTable(q, v) THEN nfree - 1 ELSE nfree
    BY DEF TypeOK, mappages
  <2> QED
    BY <2>1
<1>3. /\ tables' = [tables EXCEPT ![q] = @ \cup {PDX(v)}]
      /\ pages' = [pages EXCEPT ![q] = @ \cup {v}]
      /\ tables \in [Procs -> SUBSET (0 .. NPDE - 1)] /\ pages \in [Procs -> SUBSET Pages]
  BY DEF mappages, TypeOK
<1> QED
  BY <1>1, <1>2, <1>3

\* The page that the loop of allocuvm is at.
LEMMA LoopPage ==
  ASSUME MInv, NEW p \in Procs, at[p] \in Growing
  PROVE  /\ local[p].a \in Pages /\ local[p].a \in Nat /\ local[p].a * PGSIZE \in Nat
         /\ local[p].new \in Nat /\ local[p].new < KERNBASE /\ local[p].a * PGSIZE < local[p].new
         /\ local[p].by \in {"sbrk", "user", "kernel"}
<1>1. /\ local[p].a \in Nat /\ local[p].new \in Nat /\ local[p].a * PGSIZE < local[p].new
      /\ local[p].new < KERNBASE /\ local[p].by \in {"sbrk", "user", "kernel"}
  BY LocalType DEF MInv, Loops
<1>2. local[p].a * PGSIZE < KERNBASE /\ local[p].a * PGSIZE \in Nat
  BY <1>1, PageBelow, Sizes
<1> QED
  BY <1>1, <1>2, PageBelow

\* The mappages of allocuvm's loop: the next page, the end, or everything is undone.
LEMMA AllocMapInv ==
  ASSUME MInv, NEW p \in Procs, AllocMap(p)
  PROVE  MInv'
<1> DEFINE v == local[p].a
<1>1. /\ state[p] = "live" /\ at[p] = "map" /\ at[p] \in Growing /\ at[p] \notin Forking
      /\ TypeOK /\ "remap" \in Panics
  BY DEF AllocMap, At, MInv, Growing, Forking, Panics
<1>2. /\ v \in Pages /\ v \in Nat /\ v * PGSIZE \in Nat
      /\ local[p].new \in Nat /\ local[p].new < KERNBASE /\ v * PGSIZE < local[p].new
      /\ local[p].by \in {"sbrk", "user", "kernel"}
  BY <1>1, LoopPage
<1>3. CASE RollBack(p, 1)
  BY <1>1, <1>3, RollBackInv
<1>4. CASE Panic("remap")
  BY <1>1, <1>4, PanicInv
<1>5. CASE /\ mappages(p, v)
           /\ \/ /\ (v + 1) * PGSIZE < local[p].new
                 /\ Goto(p, "alloc")
                 /\ local' = [local EXCEPT ![p].a = v + 1, ![p].mem = FALSE]
                 /\ UNCHANGED <<state, sz, panicked>>
              \/ /\ (v + 1) * PGSIZE >= local[p].new
                 /\ Succeeded(p, local[p].by, local[p].new)
           /\ UNCHANGED <<kstack, kvm, guard>>
  <2>1. /\ nfree' \in Nat
        /\ tables' \in [Procs -> SUBSET (0 .. NPDE - 1)] /\ pages' \in [Procs -> SUBSET Pages]
        /\ tables'[p] = tables[p] \cup {PDX(v)} /\ pages'[p] = pages[p] \cup {v}
        /\ \A r \in Procs : r # p => tables'[r] = tables[r] /\ pages'[r] = pages[r]
    BY <1>1, <1>2, <1>5, MappagesType
  <2>2. /\ guard'[p] \subseteq pages'[p] /\ guard' = guard
        /\ \A w \in pages'[p] : PDX(w) \in tables'[p]
    BY <1>5, <2>1 DEF MInv, Mapped
  <2>3. \A w \in pages'[p] :
          \/ w * PGSIZE < sz[p]
          \/ local[p].by = "sbrk" /\ w < v + 1
    <3>1. v * PGSIZE < sz[p] \/ local[p].by = "sbrk"
      BY <1>1 DEF MInv, Loops
    <3>2. \A w \in pages[p] : w \in Nat
      <4>1. pages[p] \in SUBSET Pages
        BY <1>1 DEF TypeOK
      <4> QED
        BY <4>1 DEF Pages
    <3> QED
      BY <1>1, <1>2, <2>1, <3>1, <3>2 DEF MInv, PagesBelowSize
  <2>4. CASE /\ (v + 1) * PGSIZE < local[p].new
             /\ Goto(p, "alloc")
             /\ local' = [local EXCEPT ![p].a = v + 1, ![p].mem = FALSE]
             /\ UNCHANGED <<state, sz, panicked>>
    <3>1. /\ local' \in [Procs -> LocalVars]
          /\ \A q \in Procs : q # p => local'[q] = local[q]
          /\ local'[p].by = local[p].by /\ local'[p].old = local[p].old
          /\ local'[p].new = local[p].new /\ local'[p].a = v + 1
      <4>1. local[p] \in LocalVars /\ v + 1 \in 0 .. NumPages
        BY <1>1, <1>2, Sizes, LocalType DEF Pages
      <4>2. local'[p] = [local[p] EXCEPT !.a = v + 1, !.mem = FALSE]
        BY <1>1, <2>4 DEF TypeOK
      <4>3. local'[p] \in LocalVars /\ local'[p].by = local[p].by /\ local'[p].a = v + 1
            /\ local'[p].old = local[p].old /\ local'[p].new = local[p].new
        BY <4>1, <4>2 DEF LocalVars
      <4> QED
        BY <1>1, <2>4, <4>3 DEF TypeOK, LocalVars
    <3>2. /\ at' \in [Procs -> Places] /\ at'[p] = "alloc"
          /\ \A q \in Procs : q # p => at'[q] = at[q]
      BY <1>1, <2>4 DEF TypeOK, Goto, Places
    <3>3. TypeOK'
      BY <1>1, <1>5, <2>1, <2>4, <3>1, <3>2 DEF TypeOK, LocalVars
    <3>4. \A q \in Procs : q # p => Kept(q)
      BY <1>5, <2>1, <2>4, <3>1, <3>2 DEF Kept
    <3>5. local[p].by = "sbrk"
            => local'[p].old = sz[p] /\ sz[p] <= local'[p].a * PGSIZE
      <4>1. local[p].by = "sbrk" => local[p].old = sz[p] /\ sz[p] <= v * PGSIZE
        BY <1>1 DEF MInv, Loops
      <4>2. (v + 1) * PGSIZE = v * PGSIZE + PGSIZE /\ sz[p] \in Nat
        BY <1>1, <1>2, PageBelow, LocalType
      <4> QED
        BY <1>2, <3>1, <4>1, <4>2, Sizes
    <3>6. local[p].by = "sbrk"
      BY <1>1, <1>2, <2>4, PageBelow, Sizes DEF MInv, Loops
    <3> HIDE DEF v
    <3> QED
      BY <1>1, <1>2, <1>5, <2>1, <2>2, <2>3, <2>4, <3>1, <3>2, <3>3, <3>4, <3>5, <3>6, LoopInv
         DEF Growing
  <2>5. CASE Succeeded(p, local[p].by, local[p].new)
    <3>0. local[p].new \in 0 .. KERNBASE
      BY <1>2, Sizes
    <3>1. /\ Return(p) /\ state' = state /\ panicked' = panicked
          /\ sz' \in [Procs -> 0 .. KERNBASE]
          /\ sz'[p] = IF local[p].by = "sbrk" THEN local[p].new ELSE sz[p]
          /\ \A q \in Procs : q # p => sz'[q] = sz[q]
      BY <1>1, <2>5, <3>0, SucceededType
    <3>2. /\ at' \in [Procs -> Places] /\ local' \in [Procs -> LocalVars]
          /\ at'[p] = "user" /\ local'[p] = NoCall
          /\ \A q \in Procs : q # p => at'[q] = at[q] /\ local'[q] = local[q]
      BY <1>1, <3>1, ReturnType
    <3>3. TypeOK'
      BY <1>1, <1>5, <2>1, <3>1, <3>2 DEF TypeOK, LocalVars
    <3>4. \A q \in Procs : q # p => Kept(q)
      BY <1>5, <2>1, <3>1, <3>2 DEF Kept
    <3>5. \A w \in pages'[p] : w * PGSIZE < sz'[p]
      <4> SUFFICES ASSUME NEW w \in pages'[p]
                   PROVE  w * PGSIZE < sz'[p]
        OBVIOUS
      <4>1. w \in Nat /\ w * PGSIZE \in Nat
        BY <2>1, PageBelow DEF Pages
      <4>2. CASE local[p].by # "sbrk"
        BY <2>3, <3>1, <4>2
      <4>3. CASE local[p].by = "sbrk"
        <5>1. w < v + 1 => w * PGSIZE <= v * PGSIZE
          <6>1. w < v + 1 => w = v \/ w < v
            BY <1>2, <4>1
          <6> QED
            BY <1>2, <4>1, <6>1, MulLess, Sizes
        <5>2. sz[p] <= v * PGSIZE /\ sz[p] \in Nat
          BY <1>1, <4>3, LocalType DEF MInv, Loops
        <5> QED
          BY <1>2, <2>3, <3>1, <4>1, <4>3, <5>1, <5>2
      <4> QED
        BY <4>2, <4>3
    <3> HIDE DEF v
    <3> QED
      BY <1>1, <2>2, <3>1, <3>2, <3>3, <3>4, <3>5, ReturnInv
  <2> QED
    BY <1>5, <2>4, <2>5
<1> QED
  BY <1>3, <1>4, <1>5 DEF AllocMap

\* Whom a call of allocuvm leaves alone.
LEMMA AllocuvmOthers ==
  ASSUME TypeOK, NEW p \in Procs, NEW by \in {"sbrk", "user", "kernel"}, NEW old, NEW new,
         allocuvm(p, by, old, new)
  PROVE  /\ \A q \in Procs : q # p => /\ state'[q] = state[q] /\ sz'[q] = sz[q]
                                      /\ at'[q] = at[q] /\ local'[q] = local[q]
         /\ at'[p] \notin Forking
         /\ at'[p] \in Growing => local'[p].by = by
         /\ by = "kernel" => state'[p] = state[p]
         /\ by # "sbrk" => sz'[p] = sz[p]
<1>1. CASE Failed(p, by) /\ UNCHANGED sz
  BY <1>1 DEF Failed, Die, Return, Goto, TypeOK, Forking, Growing
<1>2. CASE Succeeded(p, by, new)
  BY <1>2 DEF Succeeded, Return, Goto, TypeOK, Forking, Growing
<1>3. CASE /\ Goto(p, "alloc")
           /\ local' = [local EXCEPT ![p] =
                [NoCall EXCEPT !.by = by, !.old = old, !.new = new, !.a = PGROUNDUP(old)]]
           /\ UNCHANGED <<state, sz, panicked>>
  <2>1. local'[p] = [NoCall EXCEPT !.by = by, !.old = old, !.new = new, !.a = PGROUNDUP(old)]
        /\ \A q \in Procs : q # p => local'[q] = local[q]
    BY <1>3 DEF TypeOK
  <2>2. local'[p].by = by
    BY <2>1, NoCallType DEF LocalVars
  <2> QED
    BY <1>3, <2>1, <2>2 DEF Goto, TypeOK, Forking, Growing
<1> QED
  BY <1>1, <1>2, <1>3 DEF allocuvm

-----------------------------------------------------------------------------
(* sbrk, mmap, page faults, exit *)

\* What holds of a process in user mode.
LEMMA UserMode ==
  ASSUME MInv, NEW p \in Procs, At(p, "user")
  PROVE  /\ TypeOK /\ state[p] = "live" /\ at[p] = "user" /\ at[p] \notin Forking
         /\ local[p] = NoCall /\ sz[p] \in 0 .. KERNBASE /\ sz[p] \in Nat
         /\ pages[p] \subseteq Pages /\ guard[p] \subseteq pages[p]
         /\ \A v \in pages[p] : v \in Nat /\ PDX(v) \in tables[p] /\ v * PGSIZE < sz[p]
<1>1. /\ TypeOK /\ state[p] = "live" /\ at[p] = "user" /\ at[p] \notin Forking
      /\ local[p] = NoCall /\ pages[p] \subseteq Pages /\ guard[p] \subseteq pages[p]
      /\ \A v \in pages[p] : PDX(v) \in tables[p] /\ v * PGSIZE < sz[p]
  BY DEF MInv, At, Forking, Idle, TypeOK, Mapped, PagesBelowSize
<1>2. sz[p] \in 0 .. KERNBASE
  BY <1>1 DEF TypeOK
<1> QED
  BY <1>1, <1>2, Sizes DEF Pages

\* sbrk of a positive number.
LEMMA GrowInv ==
  ASSUME MInv, NEW p \in Procs, NEW n \in -KERNBASE .. KERNBASE - 1, Grow(p, n)
  PROVE  MInv'
<1>1. At(p, "user") /\ n > 0 /\ allocuvm(p, "sbrk", sz[p], (sz[p] + n) % Word)
  BY DEF Grow
<1>2. sz[p] \in Nat /\ sz[p] \in 0 .. KERNBASE
  BY <1>1, UserMode
<1>3. sz[p] + n \in 0 .. Word - 1
  BY <1>1, <1>2, Sizes
<1>4. (sz[p] + n) % Word = sz[p] + n
  BY <1>3, Sizes
<1>5. sz[p] + n \in Nat /\ sz[p] <= sz[p] + n
  BY <1>1, <1>2, <1>3, Sizes
<1> QED
  BY <1>1, <1>2, <1>4, <1>5, AllocuvmInv

\* A shrink frees the pages from the new size on; sz follows, or all is gone.
LEMMA ShrinkInv ==
  ASSUME MInv, NEW p \in Procs, NEW n \in -KERNBASE .. KERNBASE - 1, Shrink(p, n)
  PROVE  MInv'
<1> DEFINE new == (sz[p] + n) % Word
           drop == Dropped(p, sz[p], new)
<1>1. At(p, "user") /\ new < sz[p] /\ deallocuvm(p, sz[p], new, 0)
      /\ sz' = (IF new = 0 THEN sz ELSE [sz EXCEPT ![p] = new])
      /\ UNCHANGED <<state, kstack, kvm, tables, at, local, panicked>>
  BY DEF Shrink
<1>2. /\ TypeOK /\ state[p] = "live" /\ at[p] = "user" /\ at[p] \notin Forking
      /\ local[p] = NoCall /\ sz[p] \in 0 .. KERNBASE /\ sz[p] \in Nat
      /\ pages[p] \subseteq Pages /\ guard[p] \subseteq pages[p]
      /\ \A v \in pages[p] : v \in Nat /\ PDX(v) \in tables[p] /\ v * PGSIZE < sz[p]
  BY <1>1, UserMode
<1>3. new \in Nat /\ new \in 0 .. KERNBASE
  <2>1. Word \in Nat /\ Word >= 1 /\ sz[p] + n \in Int
    BY <1>2, Sizes
  <2>2. new \in 0 .. Word - 1
    BY <2>1, ModRange
  <2> HIDE DEF new
  <2> QED
    BY <1>1, <1>2, <2>1, <2>2, Sizes
<1>4. /\ drop \subseteq pages[p] /\ pages'[p] = pages[p] \ drop /\ guard'[p] = guard[p] \ drop
      /\ pages' \in [Procs -> SUBSET Pages] /\ guard' \in [Procs -> SUBSET Pages]
      /\ \A q \in Procs : q # p => pages'[q] = pages[q] /\ guard'[q] = guard[q]
      /\ nfree' = nfree + Cardinality(drop) + 0
  <2> HIDE DEF new
  <2> QED
    BY <1>1, <1>2 DEF deallocuvm, Dropped, TypeOK
<1>5. nfree' \in Nat
  <2>1. drop \in SUBSET Pages
    BY <1>2, <1>4
  <2> HIDE DEF drop
  <2>2. Cardinality(drop) \in Nat
    BY <2>1, PagesFinite
  <2>3. nfree \in Nat
    BY <1>2 DEF TypeOK
  <2> QED
    BY <1>4, <2>2, <2>3
<1>6. sz' \in [Procs -> 0 .. KERNBASE] /\ sz'[p] = (IF new = 0 THEN sz[p] ELSE new)
      /\ \A q \in Procs : q # p => sz'[q] = sz[q]
  <2> HIDE DEF new
  <2> QED
    BY <1>1, <1>2, <1>3 DEF TypeOK
<1>7. TypeOK'
  <2> HIDE DEF new, drop
  <2> QED
    BY <1>1, <1>2, <1>4, <1>5, <1>6 DEF TypeOK
<1>8. \A q \in Procs : q # p => Kept(q)
  BY <1>1, <1>4, <1>6 DEF Kept
<1>9. \A v \in pages'[p] : v * PGSIZE < sz'[p]
  <2> SUFFICES ASSUME NEW v \in pages'[p]
               PROVE  v * PGSIZE < sz'[p]
    OBVIOUS
  <2>1. v \in pages[p] /\ v \in Nat /\ v * PGSIZE \in Nat /\ v * PGSIZE < sz[p]
    BY <1>2, <1>4, PageBelow
  <2>2. ~(new <= v * PGSIZE)
    BY <1>4, <2>1 DEF Dropped
  <2> HIDE DEF new
  <2> QED
    BY <1>3, <1>6, <2>1, <2>2
<1>10. guard'[p] \subseteq pages'[p] /\ \A v \in pages'[p] : PDX(v) \in tables'[p]
  <2> HIDE DEF drop
  <2> QED
    BY <1>1, <1>2, <1>4
<1> HIDE DEF new, drop
<1> QED
  BY <1>1, <1>2, <1>7, <1>8, <1>9, <1>10, ReturnInv

\* mmap raises the size and allocates nothing.
LEMMA MmapInv ==
  ASSUME MInv, NEW p \in Procs, NEW n \in -KERNBASE .. KERNBASE - 1, mmap(p, n)
  PROVE  MInv'
<1>1. /\ At(p, "user") /\ n > 0 /\ sz[p] + n <= KERNBASE /\ sz' = [sz EXCEPT ![p] = @ + n]
      /\ UNCHANGED <<state, kstack, kvm, tables, pages, guard, nfree, at, local, panicked>>
  BY DEF mmap
<1>2. /\ TypeOK /\ state[p] = "live" /\ at[p] = "user" /\ at[p] \notin Forking
      /\ local[p] = NoCall /\ sz[p] \in 0 .. KERNBASE /\ sz[p] \in Nat
      /\ pages[p] \subseteq Pages /\ guard[p] \subseteq pages[p]
      /\ \A v \in pages[p] : v \in Nat /\ PDX(v) \in tables[p] /\ v * PGSIZE < sz[p]
  BY <1>1, UserMode
<1>3. sz[p] + n \in 0 .. KERNBASE /\ sz[p] + n > sz[p]
  BY <1>1, <1>2, Sizes
<1>4. sz' \in [Procs -> 0 .. KERNBASE] /\ sz'[p] = sz[p] + n
      /\ \A q \in Procs : q # p => sz'[q] = sz[q]
  BY <1>1, <1>2, <1>3 DEF TypeOK
<1>5. TypeOK'
  BY <1>1, <1>2, <1>4 DEF TypeOK
<1>6. \A v \in pages'[p] : v * PGSIZE < sz'[p]
  BY <1>1, <1>2, <1>3, <1>4, PageBelow
<1> QED
  BY <1>1, <1>2, <1>4, <1>5, <1>6, ReturnInv DEF Kept

\* A process leaves user mode for good: exit, or a fault that kills it.
LEMMA LeaveInv ==
  ASSUME MInv, NEW p \in Procs, At(p, "user"), TypeOK', state'[p] \in {"live", "zombie"},
         \A q \in Procs : q # p => state'[q] = state[q],
         UNCHANGED <<sz, tables, pages, guard, at, local>>
  PROVE  MInv'
BY UserMode, ReturnInv DEF Kept

\* exit leaves a zombie with all its memory.
LEMMA ExitInv ==
  ASSUME MInv, NEW p \in Procs, Exit(p)
  PROVE  MInv'
<1>1. /\ At(p, "user") /\ state' = [state EXCEPT ![p] = "zombie"]
      /\ UNCHANGED <<sz, kstack, kvm, tables, pages, guard, nfree, at, local, panicked>>
  BY DEF Exit, space
<1>2. TypeOK
  BY DEF MInv
<1>3. /\ state' \in [Procs -> {"unused", "embryo", "live", "zombie"}]
      /\ state'[p] \in {"live", "zombie"}
      /\ \A q \in Procs : q # p => state'[q] = state[q]
  BY <1>1, <1>2 DEF TypeOK
<1>4. TypeOK'
  BY <1>1, <1>2, <1>3 DEF TypeOK
<1> QED
  BY <1>1, <1>3, <1>4, LeaveInv

\* A page fault allocates below the size and kills above it.
LEMMA FaultInv ==
  ASSUME MInv, NEW p \in Procs, NEW v \in Pages, NEW by \in {"user", "kernel"}, Fault(p, v, by)
  PROVE  MInv'
<1>1. At(p, "user")
  BY DEF Fault
<1>2. CASE v * PGSIZE < sz[p] /\ allocuvm(p, by, v * PGSIZE, (v + 1) * PGSIZE)
  <2>1. v * PGSIZE \in Nat /\ (v + 1) * PGSIZE \in Nat
    BY PageBelow, Sizes DEF Pages
  <2> QED
    BY <1>1, <1>2, <2>1, AllocuvmInv
<1>3. CASE Die(p) /\ UNCHANGED <<space, nfree>>
  <2>1. /\ TypeOK /\ state[p] = "live" /\ at[p] = "user" /\ local[p] = NoCall
    BY <1>1, UserMode
  <2>2. /\ Return(p) /\ state'[p] \in {"live", "zombie"} /\ panicked' \in Panics
        /\ state' \in [Procs -> {"unused", "embryo", "live", "zombie"}]
        /\ \A q \in Procs : q # p => state'[q] = state[q]
    BY <1>3, <2>1, FailedType
  <2>3. UNCHANGED <<at, local>>
    BY <2>1, <2>2 DEF Return, Goto, TypeOK
  <2>4. UNCHANGED <<sz, kstack, kvm, tables, pages, guard, nfree>>
    BY <1>3 DEF space
  <2>5. TypeOK'
    BY <2>1, <2>2, <2>3, <2>4 DEF TypeOK, Panics
  <2> QED
    BY <1>1, <2>2, <2>3, <2>4, <2>5, LeaveInv
<1> QED
  BY <1>2, <1>3 DEF Fault

-----------------------------------------------------------------------------
(* fork *)

\* What holds of a fork and its child.
LEMMA ForkState ==
  ASSUME MInv, NEW p \in Procs, state[p] = "live", at[p] \in Forking
  PROVE  /\ TypeOK /\ at[p] \notin Growing
         /\ local[p].np \in Procs /\ local[p].np # p /\ state[local[p].np] = "embryo"
         /\ at[local[p].np] = "user" /\ local[local[p].np] = NoCall
         /\ \A r \in Procs : at[r] \in Forking /\ r # p =>
              /\ state[r] = "live" /\ local[r].np \in Procs
              /\ local[r].np # local[p].np /\ local[r].np # p /\ r # local[p].np
         /\ Copying(p) /\ local[p].a \in Nat /\ sz[p] \in Nat
         /\ \A v \in pages[p] : v \in Nat /\ v * PGSIZE < sz[p]
<1>1. /\ TypeOK /\ at[p] \notin Growing /\ Copying(p)
      /\ local[p].np \in Procs /\ state[local[p].np] = "embryo" /\ local[p].np # p
  BY DEF MInv, Copies, Copying, Forking, Growing
<1>2. at[local[p].np] = "user" /\ local[local[p].np] = NoCall
  BY <1>1 DEF MInv, Idle
<1>3. local[p].a \in Nat /\ sz[p] \in Nat
  BY <1>1, LocalType
<1>4. \A v \in pages[p] : v * PGSIZE < sz[p]
  BY <1>1 DEF MInv, PagesBelowSize, Growing
<1>5. \A v \in pages[p] : v \in Nat
  <2>1. pages[p] \in SUBSET Pages
    BY <1>1 DEF TypeOK
  <2> QED
    BY <2>1 DEF Pages
<1>6. \A r \in Procs : at[r] \in Forking /\ r # p =>
        /\ state[r] = "live" /\ local[r].np \in Procs
        /\ local[r].np # local[p].np /\ local[r].np # p /\ r # local[p].np
  <2> SUFFICES ASSUME NEW r \in Procs, at[r] \in Forking, r # p
               PROVE  /\ state[r] = "live" /\ local[r].np \in Procs
                      /\ local[r].np # local[p].np /\ local[r].np # p /\ r # local[p].np
    OBVIOUS
  <2>1. at[r] # "user" /\ Copying(r) /\ local[r].np # local[p].np
    BY DEF MInv, Copies, Forking
  <2>2. state[r] = "live" /\ local[r].np \in Procs /\ state[local[r].np] = "embryo"
    BY <2>1 DEF MInv, Idle, Copying
  <2> QED
    BY <1>1, <2>1, <2>2
<1> QED
  BY <1>1, <1>2, <1>3, <1>4, <1>5, <1>6

\* The slots that are neither the fork nor its child keep what holds of them.
LEMMA OthersCopy ==
  ASSUME MInv, NEW p \in Procs, NEW c \in Procs,
         \A r \in Procs : r # p /\ r # c => Kept(r),
         NEW r \in Procs, at[r] \in Forking, r # p, r # c, local[r].np # p, local[r].np # c
  PROVE  Copying(r)'
<1>1. /\ Copying(r) /\ local'[r] = local[r] /\ at'[r] = at[r] /\ pages'[r] = pages[r]
      /\ guard'[r] = guard[r]
  BY DEF MInv, Copies, Kept
<1>2. local[r].np \in Procs
  BY <1>1 DEF Copying
<1>3. /\ state'[local[r].np] = state[local[r].np] /\ pages'[local[r].np] = pages[local[r].np]
      /\ guard'[local[r].np] = guard[local[r].np] /\ tables'[local[r].np] = tables[local[r].np]
  BY <1>2 DEF Kept
<1> QED
  BY <1>1, <1>3 DEF Copying

\* A step inside fork: child c grows, or has just been found.
LEMMA ChildInv ==
  ASSUME MInv, TypeOK', NEW p \in Procs, NEW c \in Procs,
         \A r \in Procs : r # p /\ r # c => Kept(r),
         state[p] = "live", p # c,
         \/ at[p] \in Forking /\ local[p].np = c
         \/ at[p] = "user" /\ state[c] = "unused",
         state'[p] = "live", sz'[p] = sz[p], tables'[p] = tables[p],
         pages'[p] = pages[p], guard'[p] = guard[p],
         at'[p] \in Forking, local'[p].np = c,
         state'[c] = "embryo", at'[c] = "user", local'[c] = NoCall,
         Copying(p)', guard'[c] \subseteq pages'[c], \A v \in pages'[c] : PDX(v) \in tables'[c]
  PROVE  MInv'
<1>1. \A r \in Procs : at[r] \in Forking /\ r # p =>
        /\ state[r] = "live" /\ local[r].np \in Procs
        /\ local[r].np # c /\ local[r].np # p /\ r # c
  <2>1. CASE at[p] \in Forking /\ local[p].np = c
    BY <2>1, ForkState
  <2>2. CASE at[p] = "user" /\ state[c] = "unused"
    BY <2>2 DEF MInv, Copies, Copying, Idle, Forking
  <2> QED
    BY <2>1, <2>2
<1>2. Idle'
  BY DEF MInv, Idle, Kept, Forking
<1>3. Loops'
  BY DEF MInv, Loops, Kept, Growing, Forking
<1>4. Copies'
  <2>1. ASSUME NEW r \in Procs, at'[r] \in Forking
        PROVE  Copying(r)'
    <3>1. CASE r = p
      BY <3>1
    <3>2. CASE r # p
      <4>1. r # c /\ at[r] \in Forking
        BY <2>1, <3>2 DEF Kept, Forking
      <4> QED
        BY <1>1, <3>2, <4>1, OthersCopy
    <3> QED
      BY <3>1, <3>2
  <2>2. ASSUME NEW r \in Procs, NEW s \in Procs, at'[r] \in Forking, at'[s] \in Forking,
               local'[r].np = local'[s].np
        PROVE  r = s
    <3>1. \A t \in Procs : at'[t] \in Forking /\ t # p =>
            at[t] \in Forking /\ local'[t] = local[t] /\ local[t].np # c
      BY <1>1 DEF Kept, Forking
    <3>2. CASE r # p /\ s # p
      BY <2>2, <3>1, <3>2 DEF MInv, Copies
    <3> QED
      BY <2>2, <3>1, <3>2
  <2> QED
    BY <2>1, <2>2 DEF Copies
<1>5. Mapped'
  BY DEF MInv, Mapped, Kept
<1>6. PagesBelowSize'
  <2>1. \A v \in pages[p] : v * PGSIZE < sz[p]
    BY ForkState DEF MInv, PagesBelowSize, Growing
  <2> QED
    BY <2>1 DEF MInv, PagesBelowSize, Kept
<1> QED
  BY <1>2, <1>3, <1>4, <1>5, <1>6 DEF MInv

\* The end of fork: child c is free again or lives.
LEMMA ForkEndInv ==
  ASSUME MInv, TypeOK', NEW p \in Procs, NEW c \in Procs,
         \A r \in Procs : r # p /\ r # c => Kept(r),
         state[p] = "live", at[p] \in Forking, c = local[p].np,
         state'[p] = "live", sz'[p] = sz[p], tables'[p] = tables[p],
         pages'[p] = pages[p], guard'[p] = guard[p], at'[p] = "user", local'[p] = NoCall,
         at'[c] = at[c], local'[c] = local[c],
         \/ state'[c] = "unused" /\ pages'[c] = {} /\ tables'[c] = {} /\ guard'[c] = {}
         \/ /\ state'[c] = "live" /\ guard'[c] \subseteq pages'[c]
            /\ \A v \in pages'[c] : PDX(v) \in tables'[c] /\ v * PGSIZE < sz'[c]
  PROVE  MInv'
<1>0. /\ p # c /\ at[c] = "user" /\ local[c] = NoCall
      /\ \A v \in pages[p] : v * PGSIZE < sz[p]
  BY ForkState
<1>1. \A r \in Procs : at[r] \in Forking /\ r # p =>
        /\ state[r] = "live" /\ local[r].np \in Procs
        /\ local[r].np # c /\ local[r].np # p /\ r # c
  BY ForkState
<1>2. Idle'
  BY <1>0 DEF MInv, Idle, Kept, Forking
<1>3. Loops'
  BY <1>0 DEF MInv, Loops, Kept, Growing, Forking
<1>4. Copies'
  <2>1. ASSUME NEW r \in Procs, at'[r] \in Forking
        PROVE  Copying(r)' /\ r # p /\ at[r] \in Forking /\ local'[r] = local[r]
    <3>1. r # c /\ r # p /\ at[r] \in Forking /\ local'[r] = local[r]
      BY <1>0, <2>1 DEF Kept, Forking
    <3> QED
      BY <1>1, <3>1, OthersCopy
  <2> QED
    BY <2>1 DEF MInv, Copies
<1>5. Mapped'
  BY <1>0 DEF MInv, Mapped, Kept
<1>6. PagesBelowSize'
  BY <1>0 DEF MInv, PagesBelowSize, Kept
<1> QED
  BY <1>2, <1>3, <1>4, <1>5, <1>6 DEF MInv

\* What freevm does: slot q is free and owns nothing.
LEMMA FreevmType ==
  ASSUME TypeOK, NEW q \in Procs, NEW extra \in Nat, freevm(q, extra)
  PROVE  /\ state' \in [Procs -> {"unused", "embryo", "live", "zombie"}]
         /\ kstack' \in [Procs -> BOOLEAN] /\ kvm' \in [Procs -> BOOLEAN]
         /\ tables' \in [Procs -> SUBSET (0 .. NPDE - 1)]
         /\ pages' \in [Procs -> SUBSET Pages] /\ guard' \in [Procs -> SUBSET Pages]
         /\ nfree' \in Nat
         /\ state'[q] = "unused" /\ tables'[q] = {} /\ pages'[q] = {} /\ guard'[q] = {}
         /\ \A r \in Procs : r # q =>
              /\ state'[r] = state[r] /\ tables'[r] = tables[r]
              /\ pages'[r] = pages[r] /\ guard'[r] = guard[r]
<1>1. nfree' \in Nat
  <2>1. /\ nfree \in Nat /\ Cardinality(tables[q]) \in Nat /\ Cardinality(pages[q]) \in Nat
    BY PagesFinite DEF TypeOK
  <2>2. (IF kvm[q] THEN KvmFrames ELSE 0) \in Nat
    BY MemoryAssumption
  <2>3. nfree' = nfree + extra + 1 + (IF kvm[q] THEN KvmFrames ELSE 0)
                 + Cardinality(tables[q]) + Cardinality(pages[q])
    BY DEF freevm
  <2> QED
    BY <2>1, <2>2, <2>3
<1>2. kstack' \in [Procs -> BOOLEAN] /\ kvm' \in [Procs -> BOOLEAN]
  <2>1. /\ kvm' = [kvm EXCEPT ![q] = FALSE] /\ kstack' = [kstack EXCEPT ![q] = FALSE]
        /\ kvm \in [Procs -> BOOLEAN] /\ kstack \in [Procs -> BOOLEAN]
    BY DEF freevm, TypeOK
  <2> QED
    BY <2>1, Zenon
<1> QED
  BY <1>1, <1>2 DEF freevm, TypeOK

\* fork finds a slot, which is free of everything.
LEMMA ForkSlotInv ==
  ASSUME MInv, NEW p \in Procs, NEW q \in Procs, ForkSlot(p, q)
  PROVE  MInv'
<1>1. /\ At(p, "user") /\ state[q] = "unused"
      /\ state' = [state EXCEPT ![q] = "embryo"]
      /\ local' = [local EXCEPT ![p].np = q] /\ Goto(p, "stack")
      /\ UNCHANGED <<sz, kstack, kvm, tables, pages, guard, nfree, panicked>>
  BY DEF ForkSlot, space
<1>2. TypeOK /\ state[p] = "live" /\ at[p] = "user" /\ local[p] = NoCall /\ p # q
  BY <1>1, UserMode
<1>3. /\ local' \in [Procs -> LocalVars] /\ local'[p].np = q /\ local'[p].a = 0
      /\ \A r \in Procs : r # p => local'[r] = local[r]
  <2>1. local'[p] = [NoCall EXCEPT !.np = q]
    BY <1>1, <1>2 DEF TypeOK
  <2>2. local'[p] \in LocalVars /\ local'[p].np = q /\ local'[p].a = 0
    BY <2>1, NoCallType DEF LocalVars
  <2> QED
    BY <1>1, <1>2, <2>2 DEF TypeOK, LocalVars
<1>4. /\ at' \in [Procs -> Places] /\ at'[p] = "stack"
      /\ \A r \in Procs : r # p => at'[r] = at[r]
  BY <1>1, <1>2 DEF TypeOK, Goto, Places
<1>5. /\ state' \in [Procs -> {"unused", "embryo", "live", "zombie"}]
      /\ state'[q] = "embryo" /\ \A r \in Procs : r # q => state'[r] = state[r]
  BY <1>1, <1>2 DEF TypeOK
<1>6. TypeOK'
  BY <1>1, <1>2, <1>3, <1>4, <1>5 DEF TypeOK, LocalVars
<1>7. /\ at[q] = "user" /\ local[q] = NoCall /\ pages[q] = {} /\ tables[q] = {} /\ guard[q] = {}
  BY <1>1 DEF MInv, Idle, Mapped
<1>8. Copying(p)'
  <2>1. 0 .. 0 - 1 = {}
    OBVIOUS
  <2>2. pages' = pages /\ tables' = tables /\ guard' = guard
    BY <1>1
  <2> QED
    BY <1>3, <1>4, <1>5, <1>7, <2>1, <2>2 DEF Copying
<1> QED
  BY <1>1, <1>2, <1>3, <1>4, <1>5, <1>6, <1>7, <1>8, ChildInv DEF Kept, Forking

\* The child is given up: copyuvm has failed.
LEMMA ForkFailsInv ==
  ASSUME MInv, NEW p \in Procs, state[p] = "live", at[p] \in Forking, NEW extra \in Nat,
         ForkFails(p, extra)
  PROVE  MInv'
<1> DEFINE c == local[p].np
<1>1. TypeOK /\ c \in Procs /\ c # p
  BY ForkState
<1>2. freevm(c, extra) /\ Return(p) /\ UNCHANGED <<sz, panicked>>
  BY DEF ForkFails
<1> HIDE DEF c
<1>3. /\ at' \in [Procs -> Places] /\ local' \in [Procs -> LocalVars]
      /\ at'[p] = "user" /\ local'[p] = NoCall
      /\ \A q \in Procs : q # p => at'[q] = at[q] /\ local'[q] = local[q]
  BY <1>1, <1>2, ReturnType
<1>4. /\ state' \in [Procs -> {"unused", "embryo", "live", "zombie"}]
      /\ kstack' \in [Procs -> BOOLEAN] /\ kvm' \in [Procs -> BOOLEAN]
      /\ tables' \in [Procs -> SUBSET (0 .. NPDE - 1)]
      /\ pages' \in [Procs -> SUBSET Pages] /\ guard' \in [Procs -> SUBSET Pages]
      /\ nfree' \in Nat
      /\ state'[c] = "unused" /\ tables'[c] = {} /\ pages'[c] = {} /\ guard'[c] = {}
      /\ \A r \in Procs : r # c =>
           /\ state'[r] = state[r] /\ tables'[r] = tables[r]
           /\ pages'[r] = pages[r] /\ guard'[r] = guard[r]
  BY <1>1, <1>2, FreevmType
<1>5. TypeOK'
  BY <1>1, <1>2, <1>3, <1>4 DEF TypeOK, LocalVars
<1>6. \A r \in Procs : r # p /\ r # c => Kept(r)
  BY <1>1, <1>2, <1>3, <1>4 DEF Kept
<1>7. c = local[p].np
  BY DEF c
<1> QED
  BY <1>1, <1>2, <1>3, <1>4, <1>5, <1>6, <1>7, ForkEndInv

\* fork gets the child's stack, or gives the slot up.
LEMMA ForkStackInv ==
  ASSUME MInv, NEW p \in Procs, ForkStack(p)
  PROVE  MInv'
<1> DEFINE c == local[p].np
<1>1. state[p] = "live" /\ at[p] = "stack" /\ at[p] \in Forking
  BY DEF ForkStack, At, Forking
<1>2. /\ TypeOK /\ c \in Procs /\ c # p /\ state[c] = "embryo" /\ at[c] = "user"
      /\ local[c] = NoCall /\ Copying(p)
  BY <1>1, ForkState
<1>3. CASE /\ nfree > 0 /\ nfree' = nfree - 1
           /\ kstack' = [kstack EXCEPT ![c] = TRUE]
           /\ Goto(p, "setupkvm")
           /\ UNCHANGED <<state, local, sz, kvm, tables, pages, guard, panicked>>
  <2>1. /\ at' \in [Procs -> Places] /\ at'[p] = "setupkvm"
        /\ \A r \in Procs : r # p => at'[r] = at[r]
    BY <1>2, <1>3 DEF TypeOK, Goto, Places
  <2>2. kstack' \in [Procs -> BOOLEAN]
    <3>1. kstack' = [kstack EXCEPT ![c] = TRUE] /\ kstack \in [Procs -> BOOLEAN]
      BY <1>2, <1>3 DEF TypeOK
    <3> QED
      BY <3>1, Zenon
  <2>3. nfree' \in Nat
    <3>1. nfree \in Nat /\ nfree > 0 /\ nfree' = nfree - 1
      BY <1>2, <1>3 DEF TypeOK
    <3> QED
      BY <3>1
  <2>4. TypeOK'
    BY <1>2, <1>3, <2>1, <2>2, <2>3 DEF TypeOK
  <2>5. Copying(p)'
    BY <1>1, <1>2, <1>3, <2>1 DEF Copying
  <2>6. guard[c] \subseteq pages[c] /\ \A v \in pages[c] : PDX(v) \in tables[c]
    BY <1>2 DEF MInv, Mapped
  <2> QED
    BY <1>1, <1>2, <1>3, <2>1, <2>4, <2>5, <2>6, ChildInv DEF Kept, Forking
<1>4. CASE /\ state' = [state EXCEPT ![c] = "unused"]
           /\ Return(p)
           /\ UNCHANGED <<kstack, nfree, sz, kvm, tables, pages, guard, panicked>>
  <2>1. /\ at' \in [Procs -> Places] /\ local' \in [Procs -> LocalVars]
        /\ at'[p] = "user" /\ local'[p] = NoCall
        /\ \A q \in Procs : q # p => at'[q] = at[q] /\ local'[q] = local[q]
    BY <1>2, <1>4, ReturnType
  <2>2. /\ state' \in [Procs -> {"unused", "embryo", "live", "zombie"}]
        /\ state'[c] = "unused" /\ \A r \in Procs : r # c => state'[r] = state[r]
    BY <1>2, <1>4 DEF TypeOK
  <2>3. TypeOK'
    BY <1>2, <1>4, <2>1, <2>2 DEF TypeOK, LocalVars
  <2>4. pages[c] = {} /\ tables[c] = {} /\ guard[c] = {}
    BY <1>1, <1>2 DEF Copying
  <2> QED
    BY <1>1, <1>2, <1>4, <2>1, <2>2, <2>3, <2>4, ForkEndInv DEF Kept
<1> QED
  BY <1>3, <1>4 DEF ForkStack

\* setupkvm for the child.
LEMMA ForkKvmInv ==
  ASSUME MInv, NEW p \in Procs, ForkKvm(p)
  PROVE  MInv'
<1> DEFINE c == local[p].np
<1>1. state[p] = "live" /\ at[p] = "setupkvm" /\ at[p] \in Forking
  BY DEF ForkKvm, At, Forking
<1>2. /\ TypeOK /\ c \in Procs /\ c # p /\ state[c] = "embryo" /\ at[c] = "user"
      /\ local[c] = NoCall /\ Copying(p)
  BY <1>1, ForkState
<1>3. CASE /\ nfree >= KvmFrames /\ nfree' = nfree - KvmFrames
           /\ kvm' = [kvm EXCEPT ![c] = TRUE]
           /\ Goto(p, "copy")
           /\ UNCHANGED <<state, sz, kstack, tables, pages, guard, local, panicked>>
  <2>1. /\ at' \in [Procs -> Places] /\ at'[p] = "copy"
        /\ \A r \in Procs : r # p => at'[r] = at[r]
    BY <1>2, <1>3 DEF TypeOK, Goto, Places
  <2>2. kvm' \in [Procs -> BOOLEAN]
    <3>1. kvm' = [kvm EXCEPT ![c] = TRUE] /\ kvm \in [Procs -> BOOLEAN]
      BY <1>2, <1>3 DEF TypeOK
    <3> QED
      BY <3>1, Zenon
  <2>3. nfree' \in Nat
    <3>1. nfree \in Nat /\ nfree >= KvmFrames /\ nfree' = nfree - KvmFrames /\ KvmFrames \in Nat
      BY <1>2, <1>3, MemoryAssumption DEF TypeOK
    <3> QED
      BY <3>1
  <2>4. TypeOK'
    BY <1>2, <1>3, <2>1, <2>2, <2>3 DEF TypeOK
  <2>5. Copying(p)'
    BY <1>1, <1>2, <1>3, <2>1 DEF Copying
  <2>6. guard[c] \subseteq pages[c] /\ \A v \in pages[c] : PDX(v) \in tables[c]
    BY <1>2 DEF MInv, Mapped
  <2> QED
    BY <1>1, <1>2, <1>3, <2>1, <2>4, <2>5, <2>6, ChildInv DEF Kept, Forking
<1>4. CASE ForkFails(p, 0)
  BY <1>1, <1>4, ForkFailsInv
<1> QED
  BY <1>3, <1>4 DEF ForkKvm

\* copyuvm finds the parent's page and gets a frame for its copy.
LEMMA CopyPageInv ==
  ASSUME MInv, NEW p \in Procs, CopyPage(p)
  PROVE  MInv'
<1> DEFINE c == local[p].np
           i == local[p].a
<1>1. state[p] = "live" /\ at[p] = "copy" /\ at[p] \in Forking /\ "copyuvm" \in Panics
  BY DEF CopyPage, At, Forking, Panics
<1>2. /\ TypeOK /\ c \in Procs /\ c # p /\ state[c] = "embryo" /\ at[c] = "user"
      /\ local[c] = NoCall /\ Copying(p)
  BY <1>1, ForkState
<1>3. CASE Panic("copyuvm")
  BY <1>1, <1>3, PanicInv
<1>4. CASE /\ i \in pages[p] /\ nfree > 0 /\ nfree' = nfree - 1
           /\ local' = [local EXCEPT ![p].mem = TRUE]
           /\ Goto(p, "copymap")
           /\ UNCHANGED <<state, sz, kstack, kvm, tables, pages, guard, panicked>>
  <2>1. /\ at' \in [Procs -> Places] /\ at'[p] = "copymap"
        /\ \A r \in Procs : r # p => at'[r] = at[r]
    BY <1>2, <1>4 DEF TypeOK, Goto, Places
  <2>2. /\ local' \in [Procs -> LocalVars] /\ local'[p].np = c /\ local'[p].a = i
        /\ \A r \in Procs : r # p => local'[r] = local[r]
    <3>1. local'[p] = [local[p] EXCEPT !.mem = TRUE] /\ local[p] \in LocalVars
      BY <1>2, <1>4 DEF TypeOK, LocalVars
    <3>2. local'[p] \in LocalVars /\ local'[p].np = c /\ local'[p].a = i
      BY <3>1 DEF LocalVars
    <3> QED
      BY <1>2, <1>4, <3>2 DEF TypeOK, LocalVars
  <2>3. nfree' \in Nat
    <3>1. nfree \in Nat /\ nfree > 0 /\ nfree' = nfree - 1
      BY <1>2, <1>4 DEF TypeOK
    <3> QED
      BY <3>1
  <2>4. TypeOK'
    BY <1>2, <1>4, <2>1, <2>2, <2>3 DEF TypeOK, LocalVars
  <2>5. Copying(p)'
    BY <1>1, <1>2, <1>4, <2>1, <2>2 DEF Copying
  <2>6. guard[c] \subseteq pages[c] /\ \A v \in pages[c] : PDX(v) \in tables[c]
    BY <1>2 DEF MInv, Mapped
  <2> QED
    BY <1>1, <1>2, <1>4, <2>1, <2>2, <2>4, <2>5, <2>6, ChildInv DEF Kept, Forking
<1>5. CASE ForkFails(p, 0)
  BY <1>1, <1>5, ForkFailsInv
<1> QED
  BY <1>3, <1>4, <1>5 DEF CopyPage, space

\* copyuvm maps the copy, with the flags of the parent's page.
LEMMA CopyMapInv ==
  ASSUME MInv, NEW p \in Procs, CopyMap(p)
  PROVE  MInv'
<1> DEFINE c == local[p].np
           i == local[p].a
<1>1. state[p] = "live" /\ at[p] = "copymap" /\ at[p] \in Forking
  BY DEF CopyMap, At, Forking
<1>2. /\ TypeOK /\ c \in Procs /\ c # p /\ state[c] = "embryo" /\ at[c] = "user"
      /\ local[c] = NoCall /\ Copying(p) /\ i \in Nat
  BY <1>1, ForkState
<1>3. i \in pages[p] /\ i \in Pages
  BY <1>1, <1>2 DEF Copying, TypeOK
<1>4. CASE ForkFails(p, 1)
  BY <1>1, <1>4, ForkFailsInv
<1>5. CASE /\ mappages(c, i)
           /\ guard' = [guard EXCEPT ![c] = IF i \in guard[p] THEN @ \cup {i} ELSE @]
           /\ local' = [local EXCEPT ![p].a = i + 1, ![p].mem = FALSE]
           /\ Goto(p, "copy")
           /\ UNCHANGED <<state, sz, kstack, kvm, panicked>>
  <2>1. /\ at' \in [Procs -> Places] /\ at'[p] = "copy"
        /\ \A r \in Procs : r # p => at'[r] = at[r]
    BY <1>2, <1>5 DEF TypeOK, Goto, Places
  <2>2. /\ local' \in [Procs -> LocalVars] /\ local'[p].np = c /\ local'[p].a = i + 1
        /\ \A r \in Procs : r # p => local'[r] = local[r]
    <3>0. i + 1 \in 0 .. NumPages
      BY <1>3, Sizes DEF Pages
    <3>1. local'[p] = [local[p] EXCEPT !.a = i + 1, !.mem = FALSE] /\ local[p] \in LocalVars
      BY <1>2, <1>5 DEF TypeOK, LocalVars
    <3>2. local'[p] \in LocalVars /\ local'[p].np = c /\ local'[p].a = i + 1
      BY <3>0, <3>1 DEF LocalVars
    <3> QED
      BY <1>2, <1>5, <3>2 DEF TypeOK, LocalVars
  <2>3. /\ nfree' \in Nat
        /\ tables' \in [Procs -> SUBSET (0 .. NPDE - 1)] /\ pages' \in [Procs -> SUBSET Pages]
        /\ tables'[c] = tables[c] \cup {PDX(i)} /\ pages'[c] = pages[c] \cup {i}
        /\ \A r \in Procs : r # c => tables'[r] = tables[r] /\ pages'[r] = pages[r]
    BY <1>2, <1>3, <1>5, MappagesType
  <2>4. /\ guard' \in [Procs -> SUBSET Pages]
        /\ guard'[c] = (IF i \in guard[p] THEN guard[c] \cup {i} ELSE guard[c])
        /\ \A r \in Procs : r # c => guard'[r] = guard[r]
    BY <1>2, <1>3, <1>5 DEF TypeOK
  <2>5. TypeOK'
    BY <1>2, <1>5, <2>1, <2>2, <2>3, <2>4 DEF TypeOK, LocalVars
  <2>6. guard'[c] \subseteq pages'[c] /\ \A v \in pages'[c] : PDX(v) \in tables'[c]
    BY <1>2, <2>3, <2>4 DEF MInv, Mapped
  <2>7. 0 .. (i + 1) - 1 = (0 .. i - 1) \cup {i}
    BY <1>2
  <2>8. Copying(p)'
    <3>1. /\ 0 .. i - 1 \subseteq pages[p] /\ pages[c] = 0 .. i - 1
          /\ guard[c] = guard[p] \cap (0 .. i - 1) /\ i \notin 0 .. i - 1
      BY <1>2 DEF Copying
    <3>2. /\ state'[c] = "embryo" /\ pages'[p] = pages[p] /\ guard'[p] = guard[p]
      BY <1>2, <1>5, <2>3, <2>4
    <3>3. /\ (0 .. i - 1) \cup {i} \subseteq pages[p] /\ pages'[c] = (0 .. i - 1) \cup {i}
          /\ guard'[c] = guard[p] \cap ((0 .. i - 1) \cup {i})
      BY <1>3, <2>3, <2>4, <3>1
    <3> HIDE DEF c, i
    <3> QED
      BY <1>2, <2>1, <2>2, <2>7, <3>2, <3>3 DEF Copying
  <2> QED
    BY <1>1, <1>2, <1>5, <2>1, <2>2, <2>3, <2>4, <2>5, <2>6, <2>8, ChildInv DEF Kept, Forking
<1> QED
  BY <1>4, <1>5 DEF CopyMap

\* The child is born: its memory is the parent's.
LEMMA ForkPublishInv ==
  ASSUME MInv, NEW p \in Procs, ForkPublish(p)
  PROVE  /\ MInv'
         /\ local[p].np \in Procs /\ pages'[local[p].np] = pages[p]
         /\ guard'[local[p].np] = guard[p] /\ sz'[local[p].np] = sz[p]
         /\ \A r \in Procs : r # local[p].np => state'[r] = state[r]
<1> DEFINE c == local[p].np
           i == local[p].a
<1>1. /\ state[p] = "live" /\ at[p] = "copy" /\ at[p] \in Forking /\ i * PGSIZE >= sz[p]
      /\ sz' = [sz EXCEPT ![c] = sz[p]] /\ state' = [state EXCEPT ![c] = "live"] /\ Return(p)
      /\ UNCHANGED <<kstack, kvm, tables, pages, guard, nfree, panicked>>
  BY DEF ForkPublish, At, Forking
<1>2. /\ TypeOK /\ c \in Procs /\ c # p /\ state[c] = "embryo" /\ at[c] = "user"
      /\ local[c] = NoCall /\ Copying(p) /\ i \in Nat /\ sz[p] \in Nat
      /\ \A v \in pages[p] : v \in Nat /\ v * PGSIZE < sz[p]
  BY <1>1, ForkState
\* Every page of the parent has been copied, as all lie below the size.
<1>3. pages[p] = 0 .. i - 1
  <2>1. 0 .. i - 1 \subseteq pages[p]
    BY <1>2 DEF Copying
  <2>2. ASSUME NEW v \in pages[p]
        PROVE  v \in 0 .. i - 1
    <3>1. v \in Nat /\ v * PGSIZE < i * PGSIZE
      BY <1>1, <1>2, PageBelow
    <3> QED
      BY <1>2, <3>1, MulLess, Sizes
  <2> QED
    BY <2>1, <2>2
<1>4. pages[c] = pages[p] /\ guard[c] = guard[p]
  <2>1. guard[p] \subseteq pages[p]
    BY DEF MInv, Mapped
  <2> QED
    BY <1>2, <1>3, <2>1 DEF Copying
<1>5. /\ at' \in [Procs -> Places] /\ local' \in [Procs -> LocalVars]
      /\ at'[p] = "user" /\ local'[p] = NoCall
      /\ \A q \in Procs : q # p => at'[q] = at[q] /\ local'[q] = local[q]
  BY <1>1, <1>2, ReturnType
<1>6. /\ state' \in [Procs -> {"unused", "embryo", "live", "zombie"}] /\ state'[c] = "live"
      /\ sz' \in [Procs -> 0 .. KERNBASE] /\ sz'[c] = sz[p]
      /\ \A r \in Procs : r # c => state'[r] = state[r] /\ sz'[r] = sz[r]
  BY <1>1, <1>2 DEF TypeOK
<1>7. TypeOK'
  BY <1>1, <1>2, <1>5, <1>6 DEF TypeOK, LocalVars
<1>8. /\ guard'[c] \subseteq pages'[c]
      /\ \A v \in pages'[c] : PDX(v) \in tables'[c] /\ v * PGSIZE < sz'[c]
  BY <1>1, <1>2, <1>4, <1>6 DEF MInv, Mapped
<1>9. MInv'
  BY <1>1, <1>2, <1>5, <1>6, <1>7, <1>8, ForkEndInv DEF Kept
<1> QED
  BY <1>1, <1>2, <1>4, <1>6, <1>9

\* wait frees a zombie, of which nobody is at work.
LEMMA ReapInv ==
  ASSUME MInv, NEW q \in Procs, Reap(q)
  PROVE  MInv'
<1>1. state[q] = "zombie" /\ freevm(q, 0) /\ UNCHANGED <<sz, at, local, panicked>> /\ TypeOK
  BY DEF Reap, MInv
<1>2. /\ state' \in [Procs -> {"unused", "embryo", "live", "zombie"}]
      /\ kstack' \in [Procs -> BOOLEAN] /\ kvm' \in [Procs -> BOOLEAN]
      /\ tables' \in [Procs -> SUBSET (0 .. NPDE - 1)]
      /\ pages' \in [Procs -> SUBSET Pages] /\ guard' \in [Procs -> SUBSET Pages]
      /\ nfree' \in Nat
      /\ state'[q] = "unused" /\ tables'[q] = {} /\ pages'[q] = {} /\ guard'[q] = {}
      /\ \A r \in Procs : r # q =>
           /\ state'[r] = state[r] /\ tables'[r] = tables[r]
           /\ pages'[r] = pages[r] /\ guard'[r] = guard[r]
  BY <1>1, FreevmType
<1>3. TypeOK'
  BY <1>1, <1>2 DEF TypeOK
<1>4. at[q] = "user" /\ local[q] = NoCall /\ at[q] \notin Forking
  BY <1>1 DEF MInv, Idle, Forking
<1>5. Idle'
  BY <1>1, <1>2, <1>4 DEF MInv, Idle
<1>6. Loops'
  BY <1>1 DEF MInv, Loops
<1>7. Copies'
  <2>1. ASSUME NEW r \in Procs, at[r] \in Forking
        PROVE  Copying(r)'
    <3>1. Copying(r) /\ r # q /\ local[r].np # q /\ local[r].np \in Procs
      BY <1>1, <1>4, <2>1 DEF MInv, Copies, Copying
    <3>2. \A s \in Procs : s # q => Kept(s)
      BY <1>1, <1>2 DEF Kept
    <3> QED
      BY <2>1, <3>1, <3>2, OthersCopy
  <2> QED
    BY <1>1, <2>1 DEF MInv, Copies
<1>8. Mapped'
  BY <1>2 DEF MInv, Mapped
<1>9. PagesBelowSize'
  BY <1>1, <1>2 DEF MInv, PagesBelowSize
<1> QED
  BY <1>3, <1>5, <1>6, <1>7, <1>8, <1>9 DEF MInv

-----------------------------------------------------------------------------
(* The specification *)

\* The memory that the first process starts with.
LEMMA MInvInit == Init => MInv
<1> SUFFICES ASSUME Init
             PROVE  MInv
  OBVIOUS
<1> DEFINE first == 0 .. InitPages - 1
<1>1. /\ initproc \in Procs /\ InitPages \in Nat /\ InitPages >= 3 /\ InitPages <= NumPages
      /\ InitPages * PGSIZE \in 0 .. KERNBASE /\ first \subseteq Pages /\ InitPages - 2 \in first
  <2>1. initproc \in Procs /\ InitPages \in Nat /\ InitPages >= 3 /\ InitPages <= NumPages
    BY MemoryAssumption, Sizes DEF NumPages
  <2>2. InitPages * PGSIZE \in Nat /\ InitPages * PGSIZE <= NumPages * PGSIZE
    <3>1. InitPages = NumPages \/ InitPages < NumPages
      BY <2>1, Sizes
    <3> QED
      BY <2>1, <3>1, MulLess, PageBelow, Sizes
  <2> QED
    BY <2>1, <2>2, Sizes DEF Pages, KERNBASE
<1>2. \A p \in Procs : /\ state[p] = (IF p = initproc THEN "live" ELSE "unused")
                       /\ sz[p] = (IF p = initproc THEN InitPages * PGSIZE ELSE 0)
                       /\ pages[p] = (IF p = initproc THEN first ELSE {})
                       /\ tables[p] = {PDX(v) : v \in pages[p]}
                       /\ guard[p] = (IF p = initproc THEN {InitPages - 2} ELSE {})
                       /\ at[p] = "user" /\ local[p] = NoCall
  BY DEF Init
<1>3. TypeOK
  <2>1. /\ state \in [Procs -> {"unused", "embryo", "live", "zombie"}]
        /\ sz \in [Procs -> 0 .. KERNBASE]
    BY <1>1, Sizes DEF Init
  <2>2. kstack \in [Procs -> BOOLEAN] /\ kvm \in [Procs -> BOOLEAN]
    BY Zenon DEF Init
  <2>3. pages \in [Procs -> SUBSET Pages] /\ guard \in [Procs -> SUBSET Pages]
    BY <1>1 DEF Init
  <2>4. tables \in [Procs -> SUBSET (0 .. NPDE - 1)]
    <3>1. \A p \in Procs : {PDX(v) : v \in pages[p]} \in SUBSET (0 .. NPDE - 1)
      BY <2>3, TableOf
    <3>2. tables = [p \in Procs |-> {PDX(v) : v \in pages[p]}]
      BY DEF Init
    <3> QED
      BY <3>1, <3>2
  <2>5. nfree \in Nat
    <3>1. PICK frames \in FrameCounts :
            nfree = frames - (1 + KvmFrames + InitPages + Cardinality(tables[initproc]))
      BY DEF Init
    <3>2. frames \in Nat /\ KvmFrames \in Nat /\ Cardinality(tables[initproc]) \in Nat
      BY <1>1, <2>4, PagesFinite, MemoryAssumption
    <3> QED
      BY <1>1, <3>1, <3>2 DEF Init
  <2>6. at \in [Procs -> Places] /\ local \in [Procs -> LocalVars] /\ panicked = "no"
    BY NoCallType DEF Init, Places
  <2> QED
    BY <2>1, <2>2, <2>3, <2>4, <2>5, <2>6 DEF TypeOK, LocalVars
<1>4. Idle /\ Loops /\ Copies
  BY <1>2 DEF Idle, Loops, Copies, Growing, Forking
<1>5. Mapped
  <2>1. \A p \in Procs : pages[p] = {} => tables[p] = {}
    BY <1>2
  <2> QED
    BY <1>1, <1>2, <2>1 DEF Mapped
<1>6. PagesBelowSize
  <2>1. \A v \in first : v * PGSIZE < InitPages * PGSIZE
    BY <1>1, MulLess, Sizes
  <2> QED
    BY <1>2, <2>1 DEF PagesBelowSize
<1> QED
  BY <1>3, <1>4, <1>5, <1>6 DEF MInv

\* What a process does on its own, by action.
LEMMA MemoryCallInv ==
  ASSUME MInv, NEW p \in Procs, MemoryCall(p)
  PROVE  MInv'
<1>1. ASSUME NEW n \in -KERNBASE .. KERNBASE - 1, Grow(p, n) \/ Shrink(p, n) \/ mmap(p, n)
      PROVE  MInv'
  BY <1>1, GrowInv, ShrinkInv, MmapInv
<1>2. ASSUME NEW v \in Pages, NEW by \in {"user", "kernel"}, Fault(p, v, by)
      PROVE  MInv'
  BY <1>2, FaultInv
<1> QED
  BY <1>1, <1>2 DEF MemoryCall

\* fork and exit begin.
LEMMA ProcessCallInv ==
  ASSUME MInv, NEW p \in Procs, ProcessCall(p)
  PROVE  MInv'
BY ForkSlotInv, ExitInv DEF ProcessCall

\* A process goes on inside the kernel.
LEMMA InKernelInv ==
  ASSUME MInv, NEW p \in Procs, InKernel(p)
  PROVE  MInv'
BY AllocPageInv, AllocMapInv, ForkStackInv, ForkKvmInv, CopyPageInv, CopyMapInv, ForkPublishInv
   DEF InKernel

\* Nothing changes.
LEMMA StutterInv ==
  ASSUME MInv, UNCHANGED vars
  PROVE  MInv'
BY DEF MInv, TypeOK, Idle, Loops, Copies, Copying, Mapped, PagesBelowSize, vars, space

\* Every step keeps the invariant.
LEMMA MInvNext ==
  ASSUME MInv, [Next]_vars
  PROVE  MInv'
<1>1. CASE UNCHANGED vars
  BY <1>1, StutterInv
<1>2. CASE Halted
  BY <1>2, StutterInv DEF Halted
<1>3. ASSUME NEW p \in Procs, MemoryCall(p) \/ ProcessCall(p) \/ InKernel(p) \/ Reap(p)
      PROVE  MInv'
  BY <1>3, MemoryCallInv, ProcessCallInv, InKernelInv, ReapInv
<1> QED
  BY <1>1, <1>2, <1>3 DEF Next

\* Every state of UserMemory is as the inductive invariant says.
THEOREM MemoryInvariance == Spec => []MInv
<1> QED
  BY MInvInit, MInvNext, PTL DEF Spec

\* Types.
THEOREM MemoryTypes == Spec => []TypeOK
<1>1. MInv => TypeOK
  BY DEF MInv
<1> QED
  BY <1>1, MemoryInvariance, PTL

\* sz bounds what is there (allocuvm, deallocuvm, growproc, fork).
THEOREM SizeBounds == Spec => []PagesBelowSize
<1>1. MInv => PagesBelowSize
  BY DEF MInv
<1> QED
  BY <1>1, MemoryInvariance, PTL

-----------------------------------------------------------------------------
(* Births and losses *)

NoBirth == \A c \in Procs : state'[c] = "live" => state[c] = "live"

NoLoss == \A p \in Procs : state'[p] = "live" => pages[p] \subseteq pages'[p]

\* What ChildIsCopy says of a step.
CopyBorn ==
  \A c \in Procs :
    state[c] = "embryo" /\ state'[c] = "live" =>
      \E p \in Procs : /\ local[p].np = c /\ sz'[c] = sz[p]
                       /\ pages'[c] = pages[p] /\ guard'[c] = guard[p]

\* What PagesKept says of a step.
Keeping ==
  \A p \in Procs :
    /\ state[p] = "live" /\ state'[p] = "live" /\ sz'[p] = sz[p] /\ panicked' = "no"
    => \/ \A v \in pages[p] : v \in pages'[p] \/ v * PGSIZE >= sz[p]
       \/ pages'[p] = {}

\* Failed, Die and Succeeded bring nobody to life.
LEMMA EndsBirth ==
  ASSUME TypeOK, NEW p \in Procs, NEW by, NEW new,
         Failed(p, by) \/ Die(p) \/ Succeeded(p, by, new)
  PROVE  NoBirth
BY DEF NoBirth, Failed, Die, Succeeded, TypeOK

\* allocuvm, up to its first kalloc, takes no page.
LEMMA AllocuvmKeeps ==
  ASSUME TypeOK, NEW p \in Procs, NEW by, NEW old, NEW new, allocuvm(p, by, old, new)
  PROVE  NoBirth /\ NoLoss
<1>1. pages' = pages /\ NoBirth
  BY EndsBirth DEF allocuvm, NoBirth
<1> QED
  BY <1>1 DEF NoLoss

\* A slot whose memory is freed does not live.
LEMMA FreevmKeeps ==
  ASSUME TypeOK, NEW q \in Procs, NEW extra \in Nat, freevm(q, extra)
  PROVE  NoBirth /\ NoLoss
BY FreevmType DEF NoBirth, NoLoss

\* Undoing an sbrk takes pages at and above its old size only; whoever has
\* failed in a page fault does not live on.
LEMMA RollBackKeeps ==
  ASSUME MInv, NEW p \in Procs, state[p] = "live", at[p] \in Growing, NEW extra \in Nat,
         RollBack(p, extra)
  PROVE  NoBirth /\ Keeping
<1>1. /\ TypeOK /\ Failed(p, local[p].by) /\ sz' = sz
      /\ pages' = [pages EXCEPT ![p] = @ \ Dropped(p, local[p].new, local[p].old)]
  BY DEF MInv, RollBack, deallocuvm
<1>2. NoBirth
  BY <1>1, EndsBirth
<1>3. \A q \in Procs : q # p => pages'[q] = pages[q]
  BY <1>1 DEF TypeOK
<1>4. CASE local[p].by # "sbrk"
  <2>1. state'[p] # "live" \/ panicked' # "no"
    BY <1>1, <1>4 DEF Failed, Die, TypeOK
  <2> QED
    BY <1>2, <1>3, <2>1 DEF Keeping
<1>5. CASE local[p].by = "sbrk"
  <2>1. local[p].old = sz[p] /\ sz[p] \in Nat
    BY <1>1, <1>5, LocalType DEF MInv, Loops
  <2>2. \A v \in pages[p] : v * PGSIZE \in Nat
    <3>1. pages[p] \in SUBSET Pages
      BY <1>1 DEF TypeOK
    <3> QED
      BY <3>1, PageBelow DEF Pages
  <2>3. \A v \in pages[p] : v * PGSIZE < local[p].old => v \in pages'[p]
    BY RollBackInv
  <2> QED
    BY <1>2, <1>3, <2>1, <2>2, <2>3 DEF Keeping
<1> QED
  BY <1>4, <1>5

\* A shrink takes pages above the new size, which is the size unless it is 0.
LEMMA ShrinkKeeps ==
  ASSUME MInv, NEW p \in Procs, NEW n \in -KERNBASE .. KERNBASE - 1, Shrink(p, n)
  PROVE  NoBirth /\ Keeping
<1> DEFINE new == (sz[p] + n) % Word
<1>1. At(p, "user") /\ new < sz[p] /\ deallocuvm(p, sz[p], new, 0)
      /\ sz' = (IF new = 0 THEN sz ELSE [sz EXCEPT ![p] = new]) /\ UNCHANGED state
  BY DEF Shrink
<1>2. /\ TypeOK /\ sz[p] \in Nat
      /\ \A v \in pages[p] : v \in Nat /\ v * PGSIZE < sz[p]
  BY <1>1, UserMode
<1> HIDE DEF new
<1>3. /\ pages'[p] = pages[p] \ Dropped(p, sz[p], new)
      /\ \A q \in Procs : q # p => pages'[q] = pages[q]
  BY <1>1, <1>2 DEF deallocuvm, TypeOK
<1>4. CASE new = 0
  <2>1. Dropped(p, sz[p], new) = pages[p]
    BY <1>2, <1>4, PageBelow DEF Dropped
  <2> QED
    BY <1>1, <1>3, <2>1 DEF Keeping, NoBirth
<1>5. CASE new # 0
  <2>1. sz'[p] = new /\ new # sz[p]
    <3>1. new \in Int
      <4>1. Word \in Nat /\ Word >= 1 /\ sz[p] + n \in Int
        BY <1>2, Sizes
      <4> QED
        BY <4>1, ModRange DEF new
    <3>2. new # sz[p]
      BY <1>1, <1>2, <3>1
    <3>3. sz'[p] = new
      BY <1>1, <1>2, <1>5 DEF TypeOK
    <3> QED
      BY <3>2, <3>3
  <2> QED
    BY <1>1, <1>3, <2>1 DEF Keeping, NoBirth
<1> QED
  BY <1>4, <1>5

\* A step in which no live process loses a page keeps pages.
LEMMA NoLossKeeps ==
  ASSUME NoLoss
  PROVE  Keeping
BY DEF NoLoss, Keeping

\* A step in which no process is born copies nothing wrong.
LEMMA NoBirthCopies ==
  ASSUME NoBirth
  PROVE  CopyBorn
BY DEF NoBirth, CopyBorn

\* Births and losses: sbrk, mmap and page faults,
LEMMA MemoryCallKeeps ==
  ASSUME MInv, NEW p \in Procs, MemoryCall(p)
  PROVE  CopyBorn /\ Keeping
<1>1. TypeOK
  BY DEF MInv
<1>2. ASSUME NEW n \in -KERNBASE .. KERNBASE - 1, Grow(p, n) \/ Shrink(p, n) \/ mmap(p, n)
      PROVE  NoBirth /\ Keeping
  <2>1. CASE Grow(p, n)
    BY <1>1, <2>1, AllocuvmKeeps, NoLossKeeps DEF Grow
  <2>2. CASE Shrink(p, n)
    BY <2>2, ShrinkKeeps
  <2>3. CASE mmap(p, n)
    BY <2>3, NoLossKeeps DEF mmap, NoBirth, NoLoss
  <2> QED
    BY <1>2, <2>1, <2>2, <2>3
<1>3. ASSUME NEW v \in Pages, NEW by \in {"user", "kernel"}, Fault(p, v, by)
      PROVE  NoBirth /\ Keeping
  <2>1. CASE allocuvm(p, by, v * PGSIZE, (v + 1) * PGSIZE)
    BY <1>1, <2>1, AllocuvmKeeps, NoLossKeeps
  <2>2. CASE Die(p) /\ UNCHANGED <<space, nfree>>
    BY <1>1, <2>2, EndsBirth, NoLossKeeps DEF NoLoss, space
  <2> QED
    BY <1>3, <2>1, <2>2 DEF Fault
<1> QED
  BY <1>2, <1>3, NoBirthCopies DEF MemoryCall

\* fork and exit when they begin,
LEMMA ProcessCallKeeps ==
  ASSUME MInv, NEW p \in Procs, ProcessCall(p)
  PROVE  CopyBorn /\ Keeping
<1>1. NoBirth /\ pages' = pages
  BY DEF MInv, TypeOK, ProcessCall, ForkSlot, Exit, NoBirth, space
<1> QED
  BY <1>1, NoLossKeeps, NoBirthCopies DEF NoLoss

\* the loop of allocuvm, which takes back only what it has allocated,
LEMMA AllocKeeps ==
  ASSUME MInv, NEW p \in Procs, AllocPage(p) \/ AllocMap(p)
  PROVE  CopyBorn /\ Keeping
<1>1. TypeOK /\ state[p] = "live" /\ at[p] \in Growing
  BY DEF MInv, AllocPage, AllocMap, At, Growing
<1>2. CASE RollBack(p, 0) \/ RollBack(p, 1)
  BY <1>1, <1>2, RollBackKeeps, NoBirthCopies
<1>3. CASE /\ UNCHANGED state \/ \E new : Succeeded(p, local[p].by, new)
           /\ \/ UNCHANGED pages
              \/ mappages(p, local[p].a)
  <2>1. NoBirth
    BY <1>1, <1>3, EndsBirth DEF NoBirth
  <2>2. NoLoss
    <3>1. CASE UNCHANGED pages
      BY <3>1 DEF NoLoss
    <3>2. CASE mappages(p, local[p].a)
      BY <1>1, <3>2 DEF NoLoss, mappages, TypeOK
    <3> QED
      BY <1>3, <3>1, <3>2
  <2> QED
    BY <2>1, <2>2, NoLossKeeps, NoBirthCopies
<1> QED
  BY <1>2, <1>3 DEF AllocPage, AllocMap, Panic, space

\* the steps of fork, the last of which is a birth,
LEMMA ForkKeeps ==
  ASSUME MInv, NEW p \in Procs,
         ForkStack(p) \/ ForkKvm(p) \/ CopyPage(p) \/ CopyMap(p) \/ ForkPublish(p)
  PROVE  CopyBorn /\ Keeping
<1>1. /\ TypeOK /\ state[p] = "live" /\ at[p] \in Forking
      /\ local[p].np \in Procs /\ state[local[p].np] = "embryo"
  <2>1. TypeOK /\ state[p] = "live" /\ at[p] \in Forking
    BY DEF MInv, ForkStack, ForkKvm, CopyPage, CopyMap, ForkPublish, At, Forking
  <2> QED
    BY <2>1, ForkState
<1>2. CASE ForkFails(p, 0) \/ ForkFails(p, 1)
  BY <1>1, <1>2, FreevmKeeps, NoLossKeeps, NoBirthCopies DEF ForkFails
<1>3. CASE /\ UNCHANGED state \/ state' = [state EXCEPT ![local[p].np] = "unused"]
           /\ UNCHANGED pages \/ mappages(local[p].np, local[p].a)
  <2>1. NoBirth
    BY <1>1, <1>3 DEF NoBirth, TypeOK
  <2>2. NoLoss
    BY <1>1, <1>3 DEF NoLoss, mappages, TypeOK
  <2> QED
    BY <2>1, <2>2, NoLossKeeps, NoBirthCopies
<1>4. CASE ForkPublish(p)
  <2>1. /\ local[p].np \in Procs /\ pages'[local[p].np] = pages[p]
        /\ guard'[local[p].np] = guard[p] /\ sz'[local[p].np] = sz[p]
        /\ \A r \in Procs : r # local[p].np => state'[r] = state[r]
    BY <1>4, ForkPublishInv
  <2>2. CopyBorn
    BY <2>1 DEF CopyBorn
  <2>3. pages' = pages
    BY <1>4 DEF ForkPublish
  <2> QED
    BY <2>2, <2>3, NoLossKeeps DEF NoLoss
<1> QED
  BY <1>2, <1>3, <1>4 DEF ForkStack, ForkKvm, CopyPage, CopyMap, Panic, space

\* and every step.
LEMMA NextKeeps ==
  ASSUME MInv, Next
  PROVE  CopyBorn /\ Keeping
<1>1. CASE Halted
  BY <1>1, NoLossKeeps, NoBirthCopies DEF Halted, vars, space, NoLoss, NoBirth
<1>2. ASSUME NEW p \in Procs, MemoryCall(p) \/ ProcessCall(p) \/ InKernel(p) \/ Reap(p)
      PROVE  CopyBorn /\ Keeping
  <2>1. CASE Reap(p)
    BY <2>1, FreevmKeeps, NoLossKeeps, NoBirthCopies DEF Reap, MInv
  <2> QED
    BY <1>2, <2>1, MemoryCallKeeps, ProcessCallKeeps, AllocKeeps, ForkKeeps DEF InKernel
<1> QED
  BY <1>1, <1>2 DEF Next

\* A child starts with the memory that its parent has (copyuvm, fork).
THEOREM ForkCopies == Spec => ChildIsCopy
<1>1. MInv /\ [Next]_vars =>
        [\A c \in Procs :
           state[c] = "embryo" /\ state'[c] = "live" =>
             \E p \in Procs : /\ local[p].np = c
                              /\ sz'[c] = sz[p]
                              /\ pages'[c] = pages[p]
                              /\ guard'[c] = guard[p]]_vars
  <2>1. CASE UNCHANGED vars
    BY <2>1
  <2>2. CASE Next
    BY <2>2, NextKeeps DEF CopyBorn
  <2> QED
    BY <2>1, <2>2
<1> QED
  BY <1>1, MemoryInvariance, PTL DEF Spec, ChildIsCopy

\* A process that lives on loses a page only with its address (allocuvm,
\* deallocuvm, growproc).
THEOREM KeepsItsPages == Spec => PagesKept
<1>1. MInv /\ [Next]_vars =>
        [\A p \in Procs :
           /\ state[p] = "live" /\ state'[p] = "live" /\ sz'[p] = sz[p]
           /\ panicked' = "no"
           => \/ \A v \in pages[p] : v \in pages'[p] \/ v * PGSIZE >= sz[p]
              \/ pages'[p] = {}]_vars
  <2>1. CASE UNCHANGED vars
    BY <2>1
  <2>2. CASE Next
    BY <2>2, NextKeeps DEF Keeping
  <2> QED
    BY <2>1, <2>2
<1> QED
  BY <1>1, MemoryInvariance, PTL DEF Spec, PagesKept

-----------------------------------------------------------------------------
(* Frames of physical memory *)

\* The things of slot p that are numbered.
Tagged(tag, p, S) == {<<tag, p, i>> : i \in S}

Stack(p) == IF kstack[p] THEN {<<"stack", p>>} ELSE {}
Kvm(p) == IF kvm[p] THEN Tagged("kvm", p, 1 .. KvmFrames) ELSE {}
Mem(p) == IF local[p].mem THEN {<<"mem", p>>} ELSE {}
Tables(p) == Tagged("table", p, tables[p])
Present(p) == Tagged("page", p, pages[p])

Own(p) ==
  IF state[p] = "unused" THEN {}
  ELSE Stack(p) \cup Kvm(p) \cup Mem(p) \cup Tables(p) \cup Present(p)

\* What processes own is what each one owns,
LEMMA OwnedIs == Owned = UNION {Own(p) : p \in Procs}
<1> DEFINE used == {p \in Procs : state[p] # "unused"}
           O1 == {<<"stack", p>> : p \in {q \in used : kstack[q]}}
           O2 == {<<"kvm", p, k>> : p \in {q \in used : kvm[q]}, k \in 1 .. KvmFrames}
           O3 == {<<"mem", p>> : p \in {q \in used : local[q].mem}}
           O4 == UNION {{<<"table", p, i>> : i \in tables[p]} : p \in used}
           O5 == UNION {{<<"page", p, v>> : v \in pages[p]} : p \in used}
<1>1. Owned = O1 \cup O2 \cup O3 \cup O4 \cup O5
  BY DEF Owned
<1>2. \A x : x \in O1 <=> \E p \in used : x \in Stack(p)
  BY DEF Stack
<1>3. \A x : x \in O2 <=> \E p \in used : x \in Kvm(p)
  BY DEF Kvm, Tagged
<1>4. \A x : x \in O3 <=> \E p \in used : x \in Mem(p)
  BY DEF Mem
<1>5. \A x : x \in O4 <=> \E p \in used : x \in Tables(p)
  BY DEF Tables, Tagged
<1>6. \A x : x \in O5 <=> \E p \in used : x \in Present(p)
  BY DEF Present, Tagged
<1>7. \A p \in Procs : \A x : x \in Own(p) <=>
        /\ p \in used
        /\ x \in Stack(p) \/ x \in Kvm(p) \/ x \in Mem(p) \/ x \in Tables(p) \/ x \in Present(p)
  BY DEF Own
<1>8. \A p \in used : p \in Procs
  OBVIOUS
<1> HIDE DEF used, O1, O2, O3, O4, O5
<1>9. \A x : x \in Owned <=> \E p \in Procs : x \in Own(p)
  BY <1>1, <1>2, <1>3, <1>4, <1>5, <1>6, <1>7, <1>8
<1> QED
  BY <1>9

\* and no two own the same thing.
LEMMA Apart ==
  \A p, q, x : p # q /\ x \in Own(p) => x \notin Own(q)
<1>1. \A p, x : x \in Own(p) => x[2] = p
  BY DEF Own, Stack, Kvm, Mem, Tables, Present, Tagged
<1> QED
  BY <1>1

\* Numbering the things of a slot does not change how many they are.
LEMMA ImageCard ==
  ASSUME NEW S, IsFiniteSet(S), NEW tag, NEW p
  PROVE  IsFiniteSet(Tagged(tag, p, S)) /\ Cardinality(Tagged(tag, p, S)) = Cardinality(S)
<1> DEFINE T == Tagged(tag, p, S)
           f == [i \in S |-> <<tag, p, i>>]
<1>1. f \in Bijection(S, T)
  <2>1. f \in [S -> T]
    BY DEF Tagged
  <2>2. \A a, b \in S : f[a] = f[b] => a = b
    OBVIOUS
  <2>3. \A t \in T : \E s \in S : f[s] = t
    BY DEF Tagged
  <2> QED
    BY <2>1, <2>2, <2>3 DEF Bijection, Injection, Surjection, IsInjective
<1> HIDE DEF f
<1> QED
  BY <1>1, FS_Bijection DEF ExistsBijection

\* Disjoint sets add up.
LEMMA UnionCard ==
  ASSUME NEW A, NEW B, IsFiniteSet(A), IsFiniteSet(B), A \cap B = {}
  PROVE  IsFiniteSet(A \cup B) /\ Cardinality(A \cup B) = Cardinality(A) + Cardinality(B)
         /\ Cardinality(A) \in Nat /\ Cardinality(B) \in Nat
<1>1. Cardinality(A \cap B) = 0
  BY FS_EmptySet
<1>2. Cardinality(A) \in Nat /\ Cardinality(B) \in Nat
  BY FS_CardinalityType
<1>3. /\ IsFiniteSet(A \cup B)
      /\ Cardinality(A \cup B) = Cardinality(A) + Cardinality(B) - Cardinality(A \cap B)
  BY FS_Union
<1> QED
  BY <1>1, <1>2, <1>3

\* The frames of a slot.
Count(p) ==
  IF state[p] = "unused" THEN 0
  ELSE (IF kstack[p] THEN 1 ELSE 0) + (IF kvm[p] THEN KvmFrames ELSE 0)
       + (IF local[p].mem THEN 1 ELSE 0) + Cardinality(tables[p]) + Cardinality(pages[p])

\* A slot owns as many frames as are counted for it.
LEMMA OwnCard ==
  TypeOK => \A p \in Procs : /\ IsFiniteSet(Own(p)) /\ Cardinality(Own(p)) = Count(p)
                             /\ Count(p) \in Nat
<1> SUFFICES ASSUME TypeOK, NEW p \in Procs
             PROVE  /\ IsFiniteSet(Own(p)) /\ Cardinality(Own(p)) = Count(p)
                    /\ Count(p) \in Nat
  OBVIOUS
<1>0. IsFiniteSet({}) /\ Cardinality({}) = 0
  BY FS_EmptySet
<1>1. IsFiniteSet(Stack(p)) /\ Cardinality(Stack(p)) = (IF kstack[p] THEN 1 ELSE 0)
  BY <1>0, FS_Singleton DEF Stack
<1>2. IsFiniteSet(Mem(p)) /\ Cardinality(Mem(p)) = (IF local[p].mem THEN 1 ELSE 0)
  BY <1>0, FS_Singleton DEF Mem
<1>3. IsFiniteSet(Kvm(p)) /\ Cardinality(Kvm(p)) = (IF kvm[p] THEN KvmFrames ELSE 0)
  <2>1. IsFiniteSet(1 .. KvmFrames) /\ Cardinality(1 .. KvmFrames) = KvmFrames
    BY FS_Interval, MemoryAssumption
  <2> QED
    BY <1>0, <2>1, ImageCard DEF Kvm
<1>4. /\ IsFiniteSet(Tables(p)) /\ Cardinality(Tables(p)) = Cardinality(tables[p])
      /\ Cardinality(tables[p]) \in Nat
  <2>1. IsFiniteSet(tables[p]) /\ Cardinality(tables[p]) \in Nat
    BY PagesFinite DEF TypeOK
  <2> QED
    BY <2>1, ImageCard DEF Tables
<1>5. /\ IsFiniteSet(Present(p)) /\ Cardinality(Present(p)) = Cardinality(pages[p])
      /\ Cardinality(pages[p]) \in Nat
  <2>1. IsFiniteSet(pages[p]) /\ Cardinality(pages[p]) \in Nat
    BY PagesFinite DEF TypeOK
  <2> QED
    BY <2>1, ImageCard DEF Present
<1>6. /\ \A x \in Stack(p) : x[1] = "stack"
      /\ \A x \in Kvm(p) : x[1] = "kvm"
      /\ \A x \in Mem(p) : x[1] = "mem"
      /\ \A x \in Tables(p) : x[1] = "table"
      /\ \A x \in Present(p) : x[1] = "page"
  BY DEF Stack, Kvm, Mem, Tables, Present, Tagged
<1>7. /\ IsFiniteSet(Stack(p) \cup Kvm(p))
      /\ Cardinality(Stack(p) \cup Kvm(p)) = Cardinality(Stack(p)) + Cardinality(Kvm(p))
  <2>1. Stack(p) \cap Kvm(p) = {}
    BY <1>6
  <2> QED
    BY <1>1, <1>3, <2>1, UnionCard
<1>8. /\ IsFiniteSet(Stack(p) \cup Kvm(p) \cup Mem(p))
      /\ Cardinality(Stack(p) \cup Kvm(p) \cup Mem(p))
           = Cardinality(Stack(p) \cup Kvm(p)) + Cardinality(Mem(p))
  <2>1. (Stack(p) \cup Kvm(p)) \cap Mem(p) = {}
    BY <1>6
  <2> QED
    BY <1>2, <1>7, <2>1, UnionCard
<1>9. /\ IsFiniteSet(Stack(p) \cup Kvm(p) \cup Mem(p) \cup Tables(p))
      /\ Cardinality(Stack(p) \cup Kvm(p) \cup Mem(p) \cup Tables(p))
           = Cardinality(Stack(p) \cup Kvm(p) \cup Mem(p)) + Cardinality(Tables(p))
  <2>1. (Stack(p) \cup Kvm(p) \cup Mem(p)) \cap Tables(p) = {}
    BY <1>6
  <2> QED
    BY <1>4, <1>8, <2>1, UnionCard
<1>10. /\ IsFiniteSet(Stack(p) \cup Kvm(p) \cup Mem(p) \cup Tables(p) \cup Present(p))
       /\ Cardinality(Stack(p) \cup Kvm(p) \cup Mem(p) \cup Tables(p) \cup Present(p))
            = Cardinality(Stack(p) \cup Kvm(p) \cup Mem(p) \cup Tables(p))
              + Cardinality(Present(p))
  <2>1. (Stack(p) \cup Kvm(p) \cup Mem(p) \cup Tables(p)) \cap Present(p) = {}
    BY <1>6
  <2> QED
    BY <1>5, <1>9, <2>1, UnionCard
<1>11. CASE state[p] = "unused"
  BY <1>0, <1>11 DEF Own, Count
<1>12. CASE state[p] # "unused"
  <2>1. Own(p) = Stack(p) \cup Kvm(p) \cup Mem(p) \cup Tables(p) \cup Present(p)
    BY <1>12 DEF Own
  <2>2. Cardinality(Own(p)) = (IF kstack[p] THEN 1 ELSE 0) + (IF kvm[p] THEN KvmFrames ELSE 0)
           + (IF local[p].mem THEN 1 ELSE 0) + Cardinality(tables[p]) + Cardinality(pages[p])
    BY <1>1, <1>2, <1>3, <1>4, <1>5, <1>7, <1>8, <1>9, <1>10, <2>1
  <2>3. Count(p) = Cardinality(Own(p))
    BY <1>12, <2>2 DEF Count
  <2>4. IsFiniteSet(Own(p))
    BY <1>10, <2>1
  <2> QED
    BY <2>3, <2>4, FS_CardinalityType
<1> QED
  BY <1>11, <1>12

\* The same in the next state.
LEMMA OwnCardNext ==
  (TypeOK => \A p \in Procs : /\ IsFiniteSet(Own(p)) /\ Cardinality(Own(p)) = Count(p)
                              /\ Count(p) \in Nat)'
BY OwnCard, PTL

\* The same of the next state: what is owned,
LEMMA OwnedIsNext == (Owned = UNION {Own(p) : p \in Procs})'
BY OwnedIs, PTL

\* and that it is owned once.
LEMMA ApartNext == (\A p, q, x : p # q /\ x \in Own(p) => x \notin Own(q))'
BY Apart, PTL

-----------------------------------------------------------------------------
(* The frames of every step *)

\* A free slot owns no frame, one that is in use a stack and a page directory;
\* what a child has follows the place its fork has reached.
Frames ==
  \A p \in Procs :
    /\ state[p] = "unused" => ~kstack[p] /\ ~kvm[p]
    /\ state[p] \in {"live", "zombie"} => kstack[p] /\ kvm[p]
    /\ at[p] = "stack" => ~kstack[local[p].np] /\ ~kvm[local[p].np]
    /\ at[p] = "setupkvm" => kstack[local[p].np] /\ ~kvm[local[p].np]
    /\ at[p] \in {"copy", "copymap"} => kstack[local[p].np] /\ kvm[local[p].np]
    /\ local[p].mem <=> at[p] \in {"map", "copymap"}

FInv == MInv /\ Frames /\ IsFiniteSet(Owned)

\* What one side gains the other side gives.
Balanced == nfree' + Cardinality(Owned') = nfree + Cardinality(Owned)

\* The step leaves the frames of slot q as they are.
KeptOwn(q) ==
  /\ state'[q] = state[q] /\ kstack'[q] = kstack[q] /\ kvm'[q] = kvm[q]
  /\ tables'[q] = tables[q] /\ pages'[q] = pages[q] /\ local'[q].mem = local[q].mem

\* A slot of which nothing changes owns what it owned.
LEMMA OwnKept ==
  ASSUME NEW q, KeptOwn(q)
  PROVE  Own(q)' = Own(q)
BY DEF KeptOwn, Own, Stack, Kvm, Mem, Tables, Present

\* Nobody's frames change.
LEMMA OwnedKept ==
  ASSUME IsFiniteSet(Owned), nfree' = nfree, \A q \in Procs : Own(q)' = Own(q)
  PROVE  IsFiniteSet(Owned') /\ Balanced
<1>1. \A x : x \in Owned' <=> x \in Owned
  BY OwnedIs, OwnedIsNext
<1>2. Owned' = Owned
  BY <1>1
<1> QED
  BY <1>2 DEF Balanced

\* Only the frames of slots p and c change.
LEMMA TwoSlots ==
  ASSUME IsFiniteSet(Owned), TypeOK, TypeOK', NEW p \in Procs, NEW c \in Procs, p # c,
         \A q \in Procs : q # p /\ q # c => Own(q)' = Own(q),
         nfree' + Count(p)' + Count(c)' = nfree + Count(p) + Count(c)
  PROVE  IsFiniteSet(Owned') /\ Balanced
<1> DEFINE rest == Owned \ (Own(p) \cup Own(c))
<1>1. /\ IsFiniteSet(Own(p)) /\ IsFiniteSet(Own(c)) /\ Count(p) \in Nat /\ Count(c) \in Nat
      /\ Cardinality(Own(p)) = Count(p) /\ Cardinality(Own(c)) = Count(c)
  BY OwnCard
<1>2. /\ IsFiniteSet(Own(p)') /\ IsFiniteSet(Own(c)') /\ Count(p)' \in Nat /\ Count(c)' \in Nat
      /\ Cardinality(Own(p)') = Count(p)' /\ Cardinality(Own(c)') = Count(c)'
  BY OwnCardNext
<1>3. IsFiniteSet(rest) /\ Cardinality(rest) \in Nat
  BY FS_Difference, FS_CardinalityType
<1>4. Owned = rest \cup (Own(p) \cup Own(c)) /\ rest \cap (Own(p) \cup Own(c)) = {}
      /\ Own(p) \cap Own(c) = {}
  <2>1. Own(p) \subseteq Owned /\ Own(c) \subseteq Owned
    BY OwnedIs
  <2> QED
    BY <2>1, Apart
<1>5. Owned' = rest \cup (Own(p)' \cup Own(c)') /\ rest \cap (Own(p)' \cup Own(c)') = {}
      /\ Own(p)' \cap Own(c)' = {}
  <2>1. \A x : x \in rest <=> \E q \in Procs : q # p /\ q # c /\ x \in Own(q)
    BY OwnedIs, Apart
  <2>2. \A x : x \in rest <=> \E q \in Procs : q # p /\ q # c /\ x \in Own(q)'
    BY <2>1
  <2>3. \A x : x \in Owned' <=> \E q \in Procs : x \in Own(q)'
    BY OwnedIsNext
  <2> HIDE DEF rest
  <2>4. Owned' = rest \cup (Own(p)' \cup Own(c)')
    BY <2>2, <2>3
  <2> QED
    BY <2>2, <2>4, ApartNext
<1> HIDE DEF rest
<1>6. Cardinality(Owned) = Cardinality(rest) + (Count(p) + Count(c))
  <2>1. /\ IsFiniteSet(Own(p) \cup Own(c))
        /\ Cardinality(Own(p) \cup Own(c)) = Count(p) + Count(c)
    BY <1>1, <1>4, UnionCard
  <2> QED
    BY <1>3, <1>4, <2>1, UnionCard
<1>7. /\ IsFiniteSet(Owned')
      /\ Cardinality(Owned') = Cardinality(rest) + (Count(p)' + Count(c)')
  <2>1. /\ IsFiniteSet(Own(p)' \cup Own(c)')
        /\ Cardinality(Own(p)' \cup Own(c)') = Count(p)' + Count(c)'
    BY <1>2, <1>5, UnionCard
  <2> QED
    BY <1>3, <1>5, <2>1, UnionCard
<1>8. nfree \in Nat /\ nfree' \in Nat
  BY DEF TypeOK
<1> QED
  BY <1>1, <1>2, <1>3, <1>6, <1>7, <1>8 DEF Balanced

\* Only the frames of slot p change.
LEMMA OneSlot ==
  ASSUME IsFiniteSet(Owned), TypeOK, TypeOK', NEW p \in Procs,
         \A q \in Procs : q # p => Own(q)' = Own(q),
         nfree' + Count(p)' = nfree + Count(p)
  PROVE  IsFiniteSet(Owned') /\ Balanced
<1> DEFINE rest == Owned \ Own(p)
<1>1. /\ IsFiniteSet(Own(p)) /\ Count(p) \in Nat /\ Cardinality(Own(p)) = Count(p)
  BY OwnCard
<1>2. /\ IsFiniteSet(Own(p)') /\ Count(p)' \in Nat /\ Cardinality(Own(p)') = Count(p)'
  BY OwnCardNext
<1>3. IsFiniteSet(rest) /\ Cardinality(rest) \in Nat
  BY FS_Difference, FS_CardinalityType
<1>4. Owned = rest \cup Own(p) /\ rest \cap Own(p) = {}
  <2>1. Own(p) \subseteq Owned
    BY OwnedIs
  <2> QED
    BY <2>1
<1>5. Owned' = rest \cup Own(p)' /\ rest \cap Own(p)' = {}
  <2>1. \A x : x \in rest <=> \E q \in Procs : q # p /\ x \in Own(q)
    BY OwnedIs, Apart
  <2>2. \A x : x \in rest <=> \E q \in Procs : q # p /\ x \in Own(q)'
    BY <2>1
  <2>3. \A x : x \in Owned' <=> \E q \in Procs : x \in Own(q)'
    BY OwnedIsNext
  <2> HIDE DEF rest
  <2>4. Owned' = rest \cup Own(p)'
    BY <2>2, <2>3
  <2> QED
    BY <2>2, <2>4, ApartNext
<1> HIDE DEF rest
<1>6. Cardinality(Owned) = Cardinality(rest) + Count(p)
  BY <1>1, <1>3, <1>4, UnionCard
<1>7. IsFiniteSet(Owned') /\ Cardinality(Owned') = Cardinality(rest) + Count(p)'
  BY <1>2, <1>3, <1>5, UnionCard
<1>8. nfree \in Nat /\ nfree' \in Nat
  BY DEF TypeOK
<1> QED
  BY <1>1, <1>2, <1>3, <1>6, <1>7, <1>8 DEF Balanced

\* Steps of process p that concern no other slot.
LEMMA AloneFrames ==
  ASSUME FInv, MInv', NEW p \in Procs, state[p] = "live", at[p] \notin Forking,
         UNCHANGED <<kstack, kvm>>,
         \A q \in Procs : q # p =>
           /\ state'[q] = state[q] /\ at'[q] = at[q] /\ local'[q] = local[q]
           /\ tables'[q] = tables[q] /\ pages'[q] = pages[q],
         state'[p] \in {"live", "zombie"}, at'[p] \notin Forking,
         local'[p].mem <=> at'[p] = "map",
         nfree' + (IF local'[p].mem THEN 1 ELSE 0) + Cardinality(tables'[p])
                + Cardinality(pages'[p])
           = nfree + (IF local[p].mem THEN 1 ELSE 0) + Cardinality(tables[p])
                   + Cardinality(pages[p])
  PROVE  FInv' /\ Balanced
<1>1. Frames'
  BY DEF FInv, Frames, Forking
<1>2. TypeOK /\ TypeOK' /\ IsFiniteSet(Owned)
  BY DEF FInv, MInv
<1>3. \A q \in Procs : q # p => Own(q)' = Own(q)
  BY OwnKept DEF KeptOwn
<1>4. nfree' + Count(p)' = nfree + Count(p)
  <2>1. /\ nfree \in Nat /\ nfree' \in Nat /\ KvmFrames \in Nat
        /\ Cardinality(tables[p]) \in Nat /\ Cardinality(pages[p]) \in Nat
        /\ Cardinality(tables'[p]) \in Nat /\ Cardinality(pages'[p]) \in Nat
    BY <1>2, PagesFinite, MemoryAssumption DEF TypeOK
  <2>2. kstack[p] /\ kvm[p] /\ state[p] # "unused" /\ state'[p] # "unused"
    BY DEF FInv, Frames
  <2> QED
    BY <2>1, <2>2 DEF Count
<1>5. IsFiniteSet(Owned') /\ Balanced
  BY <1>2, <1>3, <1>4, OneSlot
<1> QED
  BY <1>1, <1>5 DEF FInv

\* Nothing of what is owned changes, whoever moves.
LEMMA NoFrames ==
  ASSUME FInv, MInv', nfree' = nfree, \A q \in Procs : KeptOwn(q), Frames'
  PROVE  FInv' /\ Balanced
BY OwnKept, OwnedKept DEF FInv

\* A call of allocuvm takes no frame yet.
LEMMA AllocuvmFrames ==
  ASSUME FInv, MInv', NEW p \in Procs, At(p, "user"), NEW by \in {"sbrk", "user", "kernel"},
         NEW old, NEW new, allocuvm(p, by, old, new)
  PROVE  FInv' /\ Balanced
<1>1. TypeOK /\ state[p] = "live" /\ at[p] = "user" /\ at[p] \notin Forking /\ local[p] = NoCall
  BY UserMode DEF FInv
<1>2. UNCHANGED <<kstack, kvm, tables, pages, nfree>>
  BY DEF allocuvm
<1>3. /\ \A q \in Procs : q # p => /\ state'[q] = state[q] /\ sz'[q] = sz[q]
                                   /\ at'[q] = at[q] /\ local'[q] = local[q]
      /\ at'[p] \notin Forking
  BY <1>1, AllocuvmOthers
<1>4. state'[p] \in {"live", "zombie"} /\ local'[p].mem = FALSE /\ at'[p] # "map"
  <2>1. CASE Failed(p, by) \/ Succeeded(p, by, new)
    <3>1. Return(p) /\ state'[p] \in {"live", "zombie"}
      BY <1>1, <2>1, FailedType DEF Succeeded
    <3> QED
      BY <1>1, <3>1, ReturnType, NoCallType
  <2>2. CASE /\ Goto(p, "alloc")
             /\ local' = [local EXCEPT ![p] =
                  [NoCall EXCEPT !.by = by, !.old = old, !.new = new, !.a = PGROUNDUP(old)]]
             /\ UNCHANGED state
    <3>1. local'[p] = [NoCall EXCEPT !.by = by, !.old = old, !.new = new, !.a = PGROUNDUP(old)]
          /\ at'[p] = "alloc" /\ state'[p] = "live"
      BY <1>1, <2>2 DEF TypeOK, Goto
    <3>2. local'[p].mem = FALSE
      BY <3>1, NoCallType DEF LocalVars
    <3> QED
      BY <3>1, <3>2
  <2> QED
    BY <2>1, <2>2 DEF allocuvm
<1>5. local[p].mem = FALSE
  BY <1>1, NoCallType
<1> QED
  BY <1>1, <1>2, <1>3, <1>4, <1>5, AloneFrames

\* The pages that deallocuvm drops are so many frames.
LEMMA DropCard ==
  ASSUME TypeOK, NEW p \in Procs, NEW old, NEW new, NEW extra, deallocuvm(p, old, new, extra)
  PROVE  /\ nfree' = nfree + Cardinality(Dropped(p, old, new)) + extra
         /\ Cardinality(Dropped(p, old, new)) \in Nat /\ Cardinality(pages[p]) \in Nat
         /\ Cardinality(pages'[p]) = Cardinality(pages[p]) - Cardinality(Dropped(p, old, new))
         /\ \A q \in Procs : q # p => pages'[q] = pages[q]
<1> DEFINE drop == Dropped(p, old, new)
<1>1. drop \in SUBSET pages[p] /\ pages[p] \in SUBSET Pages
  BY DEF Dropped, TypeOK
<1>2. /\ pages'[p] = pages[p] \ drop /\ nfree' = nfree + Cardinality(drop) + extra
      /\ \A q \in Procs : q # p => pages'[q] = pages[q]
  BY DEF deallocuvm, TypeOK
<1> HIDE DEF drop
<1>3. drop \in SUBSET Pages /\ pages[p] \cap drop = drop
  BY <1>1
<1>4. IsFiniteSet(pages[p]) /\ Cardinality(pages[p]) \in Nat /\ Cardinality(drop) \in Nat
  BY <1>1, <1>3, PagesFinite
<1>5. Cardinality(pages[p] \ drop) = Cardinality(pages[p]) - Cardinality(pages[p] \cap drop)
  BY <1>4, FS_Difference
<1> QED
  BY <1>2, <1>3, <1>4, <1>5 DEF drop

\* Out of memory, allocuvm gives back all it has taken: its pages, and the frame in mem.
LEMMA RollBackFrames ==
  ASSUME FInv, MInv', NEW p \in Procs, state[p] = "live", at[p] \in Growing, at[p] \notin Forking,
         NEW extra \in {0, 1}, extra = 1 <=> at[p] = "map", RollBack(p, extra)
  PROVE  FInv' /\ Balanced
<1>1. TypeOK /\ Failed(p, local[p].by) /\ UNCHANGED <<kstack, kvm, tables>>
      /\ deallocuvm(p, local[p].new, local[p].old, extra)
  BY DEF FInv, MInv, RollBack
<1>2. /\ Return(p) /\ state'[p] \in {"live", "zombie"}
      /\ \A q \in Procs : q # p => state'[q] = state[q]
  BY <1>1, FailedType
<1>3. /\ at'[p] = "user" /\ local'[p] = NoCall
      /\ \A q \in Procs : q # p => at'[q] = at[q] /\ local'[q] = local[q]
  BY <1>1, <1>2, ReturnType
<1>4. local[p].mem <=> extra = 1
  BY DEF FInv, Frames, Growing
<1> DEFINE drop == Dropped(p, local[p].new, local[p].old)
<1>5. /\ nfree' = nfree + Cardinality(drop) + extra
      /\ Cardinality(drop) \in Nat /\ Cardinality(pages[p]) \in Nat
      /\ Cardinality(pages'[p]) = Cardinality(pages[p]) - Cardinality(drop)
      /\ \A q \in Procs : q # p => pages'[q] = pages[q]
  BY <1>1, DropCard
<1>6. nfree \in Nat /\ Cardinality(tables[p]) \in Nat
  BY <1>1, PagesFinite DEF TypeOK
<1> HIDE DEF drop
<1>7. nfree' + (IF local'[p].mem THEN 1 ELSE 0) + Cardinality(tables'[p]) + Cardinality(pages'[p])
        = nfree + (IF local[p].mem THEN 1 ELSE 0) + Cardinality(tables[p]) + Cardinality(pages[p])
  BY <1>1, <1>3, <1>4, <1>5, <1>6, NoCallType
<1>8. at'[p] \notin Forking /\ (local'[p].mem <=> at'[p] = "map")
  BY <1>3, NoCallType DEF Forking
<1> QED
  BY <1>1, <1>2, <1>3, <1>5, <1>7, <1>8, AloneFrames

\* sbrk of a negative number gives back the pages that it drops.
LEMMA ShrinkFrames ==
  ASSUME FInv, NEW p \in Procs, NEW n \in -KERNBASE .. KERNBASE - 1, Shrink(p, n)
  PROVE  FInv' /\ Balanced
<1> DEFINE new == (sz[p] + n) % Word
           drop == Dropped(p, sz[p], new)
<1>1. At(p, "user") /\ deallocuvm(p, sz[p], new, 0)
      /\ UNCHANGED <<state, kstack, kvm, tables, at, local>>
  BY DEF Shrink
<1>2. TypeOK /\ state[p] = "live" /\ at[p] = "user" /\ at[p] \notin Forking /\ local[p] = NoCall
  BY <1>1, UserMode DEF FInv
<1>3. MInv'
  BY ShrinkInv DEF FInv
<1>4. /\ nfree' = nfree + Cardinality(drop) + 0
      /\ Cardinality(drop) \in Nat /\ Cardinality(pages[p]) \in Nat
      /\ Cardinality(pages'[p]) = Cardinality(pages[p]) - Cardinality(drop)
      /\ \A q \in Procs : q # p => pages'[q] = pages[q]
  <2> HIDE DEF new
  <2> QED
    BY <1>1, <1>2, DropCard
<1>5. nfree \in Nat /\ Cardinality(tables[p]) \in Nat
  BY <1>2, PagesFinite DEF TypeOK
<1> HIDE DEF new, drop
<1>6. nfree' + (IF local'[p].mem THEN 1 ELSE 0) + Cardinality(tables'[p]) + Cardinality(pages'[p])
        = nfree + (IF local[p].mem THEN 1 ELSE 0) + Cardinality(tables[p]) + Cardinality(pages[p])
  BY <1>1, <1>2, <1>4, <1>5, NoCallType
<1>7. /\ at'[p] \notin Forking /\ (local'[p].mem <=> at'[p] = "map")
      /\ state'[p] \in {"live", "zombie"}
  BY <1>1, <1>2, NoCallType
<1> QED
  BY <1>1, <1>2, <1>3, <1>4, <1>6, <1>7, AloneFrames

\* mappages takes a frame for the page table if there is none, and makes the
\* frame that the caller has got the page.
LEMMA MappagesFrames ==
  ASSUME TypeOK, NEW q \in Procs, NEW v \in Pages, mappages(q, v)
  PROVE  /\ nfree \in Nat /\ nfree' \in Nat
         /\ Cardinality(tables[q]) \in Nat /\ Cardinality(tables'[q]) \in Nat
         /\ Cardinality(pages[q]) \in Nat /\ Cardinality(pages'[q]) = Cardinality(pages[q]) + 1
         /\ nfree' + Cardinality(tables'[q]) = nfree + Cardinality(tables[q])
<1>1. /\ nfree' \in Nat /\ nfree \in Nat
      /\ tables'[q] = tables[q] \cup {PDX(v)} /\ pages'[q] = pages[q] \cup {v}
  BY MappagesType DEF TypeOK
<1>2. v \notin pages[q] /\ nfree' = IF NoTable(q, v) THEN nfree - 1 ELSE nfree
  BY DEF mappages
<1>3. /\ IsFiniteSet(tables[q]) /\ IsFiniteSet(pages[q])
      /\ Cardinality(tables[q]) \in Nat /\ Cardinality(pages[q]) \in Nat
  BY PagesFinite DEF TypeOK
<1>4. Cardinality(pages'[q]) = Cardinality(pages[q]) + 1
  BY <1>1, <1>2, <1>3, FS_AddElement
<1>5. Cardinality(tables'[q]) = IF NoTable(q, v) THEN Cardinality(tables[q]) + 1
                                                 ELSE Cardinality(tables[q])
  <2>1. CASE PDX(v) \in tables[q]
    <3>1. tables'[q] = tables[q]
      BY <1>1, <2>1
    <3> QED
      BY <2>1, <3>1 DEF NoTable
  <2>2. CASE PDX(v) \notin tables[q]
    <3>1. Cardinality(tables[q] \cup {PDX(v)}) = Cardinality(tables[q]) + 1
      BY <1>3, <2>2, FS_AddElement
    <3> QED
      BY <1>1, <2>2, <3>1 DEF NoTable
  <2> QED
    BY <2>1, <2>2
<1> QED
  BY <1>1, <1>2, <1>3, <1>4, <1>5

\* A panic leaves memory as it is.
LEMMA PanicFrames ==
  ASSUME FInv, NEW message \in Panics, Panic(message)
  PROVE  FInv' /\ Balanced
<1>1. UNCHANGED <<state, kstack, kvm, tables, pages, nfree, at, local>>
  BY DEF Panic, space
<1>2. MInv'
  BY PanicInv DEF FInv
<1>3. Frames'
  BY <1>1 DEF FInv, Frames
<1> QED
  BY <1>1, <1>2, <1>3, NoFrames DEF KeptOwn

\* The kalloc of allocuvm's loop: the frame is in mem.
LEMMA AllocPageFrames ==
  ASSUME FInv, NEW p \in Procs, AllocPage(p)
  PROVE  FInv' /\ Balanced
<1>1. /\ state[p] = "live" /\ at[p] = "alloc" /\ at[p] \in Growing /\ at[p] \notin Forking
      /\ TypeOK /\ MInv'
  BY AllocPageInv DEF AllocPage, At, FInv, MInv, Growing, Forking
<1>2. CASE RollBack(p, 0)
  BY <1>1, <1>2, RollBackFrames
<1>3. CASE /\ nfree > 0 /\ nfree' = nfree - 1
           /\ local' = [local EXCEPT ![p].mem = TRUE]
           /\ Goto(p, "map")
           /\ UNCHANGED <<state, sz, kstack, kvm, tables, pages>>
  <2>1. /\ at'[p] = "map" /\ at'[p] \notin Forking /\ local'[p].mem = TRUE
        /\ \A q \in Procs : q # p => at'[q] = at[q] /\ local'[q] = local[q]
    BY <1>1, <1>3 DEF TypeOK, Goto, Forking
  <2>2. local[p].mem = FALSE
    BY <1>1 DEF FInv, Frames, TypeOK
  <2>3. /\ nfree \in Nat /\ Cardinality(tables[p]) \in Nat /\ Cardinality(pages[p]) \in Nat
    BY <1>1, PagesFinite DEF TypeOK
  <2>4. nfree' + (IF local'[p].mem THEN 1 ELSE 0) + Cardinality(tables'[p])
               + Cardinality(pages'[p])
          = nfree + (IF local[p].mem THEN 1 ELSE 0) + Cardinality(tables[p]) + Cardinality(pages[p])
    BY <1>3, <2>1, <2>2, <2>3
  <2> QED
    BY <1>1, <1>3, <2>1, <2>4, AloneFrames
<1> QED
  BY <1>2, <1>3 DEF AllocPage, space

\* The mappages of allocuvm's loop: mem becomes a page.
LEMMA AllocMapFrames ==
  ASSUME FInv, NEW p \in Procs, AllocMap(p)
  PROVE  FInv' /\ Balanced
<1> DEFINE v == local[p].a
<1>1. /\ state[p] = "live" /\ at[p] = "map" /\ at[p] \in Growing /\ at[p] \notin Forking
      /\ TypeOK /\ MInv /\ MInv' /\ "remap" \in Panics
  BY AllocMapInv DEF AllocMap, At, FInv, MInv, Growing, Forking, Panics
<1>2. v \in Pages /\ local[p].new \in 0 .. KERNBASE
  <2>1. local[p].new \in 0 .. KERNBASE
    BY <1>1 DEF TypeOK
  <2> QED
    BY <1>1, <2>1, LoopPage
<1>3. CASE RollBack(p, 1)
  BY <1>1, <1>3, RollBackFrames
<1>4. CASE Panic("remap")
  BY <1>1, <1>4, PanicFrames
<1>5. CASE /\ mappages(p, v)
           /\ \/ /\ Goto(p, "alloc")
                 /\ local' = [local EXCEPT ![p].a = v + 1, ![p].mem = FALSE]
                 /\ UNCHANGED <<state, sz, panicked>>
              \/ Succeeded(p, local[p].by, local[p].new)
           /\ UNCHANGED <<kstack, kvm>>
  <2>1. /\ at'[p] \in {"alloc", "user"} /\ local'[p].mem = FALSE
        /\ state' = state
        /\ \A q \in Procs : q # p => at'[q] = at[q] /\ local'[q] = local[q]
    <3>1. CASE /\ Goto(p, "alloc")
               /\ local' = [local EXCEPT ![p].a = v + 1, ![p].mem = FALSE]
               /\ UNCHANGED <<state, sz, panicked>>
      <4>1. local'[p].mem = FALSE /\ \A q \in Procs : q # p => local'[q] = local[q]
        BY <1>1, <3>1 DEF TypeOK
      <4>2. at'[p] = "alloc" /\ \A q \in Procs : q # p => at'[q] = at[q]
        BY <1>1, <3>1 DEF TypeOK, Goto
      <4> QED
        BY <3>1, <4>1, <4>2
    <3>2. CASE Succeeded(p, local[p].by, local[p].new)
      <4>1. Return(p) /\ state' = state
        BY <3>2 DEF Succeeded
      <4> QED
        BY <1>1, <4>1, ReturnType, NoCallType
    <3> QED
      BY <1>5, <3>1, <3>2
  <2>2. local[p].mem = TRUE
    BY <1>1 DEF FInv, Frames, TypeOK
  <2>3. \A q \in Procs : q # p => tables'[q] = tables[q] /\ pages'[q] = pages[q]
    BY <1>1, <1>2, <1>5, MappagesType
  <2>4. /\ nfree \in Nat /\ nfree' \in Nat
        /\ Cardinality(tables[p]) \in Nat /\ Cardinality(tables'[p]) \in Nat
        /\ Cardinality(pages[p]) \in Nat /\ Cardinality(pages'[p]) = Cardinality(pages[p]) + 1
        /\ nfree' + Cardinality(tables'[p]) = nfree + Cardinality(tables[p])
    BY <1>1, <1>2, <1>5, MappagesFrames
  <2>5. nfree' + (IF local'[p].mem THEN 1 ELSE 0) + Cardinality(tables'[p])
               + Cardinality(pages'[p])
          = nfree + (IF local[p].mem THEN 1 ELSE 0) + Cardinality(tables[p]) + Cardinality(pages[p])
    BY <2>1, <2>2, <2>4
  <2>6. at'[p] \notin Forking /\ at'[p] # "map"
    BY <2>1 DEF Forking
  <2> QED
    BY <1>1, <1>5, <2>1, <2>3, <2>5, <2>6, AloneFrames
<1> QED
  BY <1>3, <1>4, <1>5 DEF AllocMap

\* A process that leaves user mode for good, or only changes its size.
LEMMA SameFrames ==
  ASSUME FInv, MInv', NEW p \in Procs, At(p, "user"), state'[p] \in {"live", "zombie"},
         \A q \in Procs : q # p => state'[q] = state[q],
         UNCHANGED <<kstack, kvm, tables, pages, nfree, at, local>>
  PROVE  FInv' /\ Balanced
<1>1. TypeOK /\ state[p] = "live" /\ at[p] = "user" /\ at[p] \notin Forking /\ local[p] = NoCall
  BY UserMode DEF FInv
<1> QED
  BY <1>1, NoCallType, AloneFrames

\* sbrk, mmap and page faults.
LEMMA MemoryCallFrames ==
  ASSUME FInv, NEW p \in Procs, MemoryCall(p)
  PROVE  FInv' /\ Balanced
<1>0. MInv' /\ MInv
  BY MemoryCallInv DEF FInv
<1>1. ASSUME NEW n \in -KERNBASE .. KERNBASE - 1, Grow(p, n)
      PROVE  FInv' /\ Balanced
  BY <1>0, <1>1, AllocuvmFrames DEF Grow
<1>2. ASSUME NEW n \in -KERNBASE .. KERNBASE - 1, mmap(p, n)
      PROVE  FInv' /\ Balanced
  <2>1. /\ At(p, "user")
        /\ UNCHANGED <<state, kstack, kvm, tables, pages, guard, nfree, at, local, panicked>>
    BY <1>2 DEF mmap
  <2>2. state[p] = "live"
    BY <2>1 DEF At
  <2> QED
    BY <1>0, <2>1, <2>2, SameFrames
<1>3. ASSUME NEW v \in Pages, NEW by \in {"user", "kernel"}, Fault(p, v, by)
      PROVE  FInv' /\ Balanced
  <2>1. At(p, "user")
    BY <1>3 DEF Fault
  <2>2. CASE allocuvm(p, by, v * PGSIZE, (v + 1) * PGSIZE)
    BY <1>0, <2>1, <2>2, AllocuvmFrames
  <2>3. CASE Die(p) /\ UNCHANGED <<space, nfree>>
    <3>1. /\ TypeOK /\ state[p] = "live" /\ at[p] = "user" /\ local[p] = NoCall
      BY <1>0, <2>1, UserMode
    <3>2. /\ Return(p) /\ state'[p] \in {"live", "zombie"}
          /\ \A q \in Procs : q # p => state'[q] = state[q]
      BY <2>3, <3>1, FailedType
    <3>3. UNCHANGED <<at, local>>
      BY <3>1, <3>2 DEF Return, Goto, TypeOK
    <3>4. UNCHANGED <<kstack, kvm, tables, pages, nfree>>
      BY <2>3 DEF space
    <3> QED
      BY <1>0, <2>1, <3>2, <3>3, <3>4, SameFrames
  <2> QED
    BY <1>3, <2>2, <2>3 DEF Fault
<1> QED
  BY <1>1, <1>2, <1>3, ShrinkFrames DEF MemoryCall

\* Inside fork: only the fork p and its child c change, and what Frames says of
\* the two holds afterwards.
LEMMA ForkStepFrames ==
  ASSUME FInv, NEW p \in Procs, NEW c \in Procs, c # p, state[p] = "live",
         \A r \in Procs : r # p => at'[r] = at[r] /\ local'[r] = local[r],
         \A r \in Procs : r # c => /\ state'[r] = state[r] /\ kstack'[r] = kstack[r]
                                   /\ kvm'[r] = kvm[r],
         \A r \in Procs : at[r] \in Forking /\ r # p => local[r].np \in Procs /\ local[r].np # c,
         state'[c] = "unused" => ~kstack'[c] /\ ~kvm'[c],
         state'[c] \in {"live", "zombie"} => kstack'[c] /\ kvm'[c],
         at'[p] = "stack" => local'[p].np = c /\ ~kstack'[c] /\ ~kvm'[c],
         at'[p] = "setupkvm" => local'[p].np = c /\ kstack'[c] /\ ~kvm'[c],
         at'[p] \in {"copy", "copymap"} => local'[p].np = c /\ kstack'[c] /\ kvm'[c],
         local'[p].mem <=> at'[p] \in {"map", "copymap"}
  PROVE  Frames'
<1> SUFFICES ASSUME NEW r \in Procs
             PROVE  /\ state'[r] = "unused" => ~kstack'[r] /\ ~kvm'[r]
                    /\ state'[r] \in {"live", "zombie"} => kstack'[r] /\ kvm'[r]
                    /\ at'[r] = "stack" => ~kstack'[local'[r].np] /\ ~kvm'[local'[r].np]
                    /\ at'[r] = "setupkvm" => kstack'[local'[r].np] /\ ~kvm'[local'[r].np]
                    /\ at'[r] \in {"copy", "copymap"} =>
                         kstack'[local'[r].np] /\ kvm'[local'[r].np]
                    /\ local'[r].mem <=> at'[r] \in {"map", "copymap"}
  BY DEF Frames
<1>1. /\ state'[r] = "unused" => ~kstack'[r] /\ ~kvm'[r]
      /\ state'[r] \in {"live", "zombie"} => kstack'[r] /\ kvm'[r]
  BY DEF FInv, Frames
<1>2. CASE r = p
  BY <1>1, <1>2
<1>3. CASE r # p
  <2>1. at'[r] = at[r] /\ local'[r] = local[r]
    BY <1>3
  <2>2. ASSUME at[r] \in Forking
        PROVE  /\ kstack'[local[r].np] = kstack[local[r].np]
               /\ kvm'[local[r].np] = kvm[local[r].np]
    BY <1>3, <2>2
  <2> QED
    BY <1>1, <2>1, <2>2 DEF FInv, Frames, Forking
<1> QED
  BY <1>2, <1>3

\* What a child owns so far.
LEMMA ChildFrames ==
  ASSUME FInv, NEW p \in Procs, state[p] = "live", at[p] \in Forking,
         NEW c, c = local[p].np
  PROVE  /\ TypeOK /\ MInv /\ c # p /\ state[c] = "embryo" /\ local[c].mem = FALSE
         /\ kstack[p] = TRUE /\ kvm[p] = TRUE
         /\ at[p] = "stack" => kstack[c] = FALSE /\ kvm[c] = FALSE
         /\ at[p] = "setupkvm" => kstack[c] = TRUE /\ kvm[c] = FALSE
         /\ at[p] = "copy" => kstack[c] = TRUE /\ kvm[c] = TRUE
         /\ at[p] = "copymap" => kstack[c] = TRUE /\ kvm[c] = TRUE
         /\ at[p] = "copymap" => local[p].mem = TRUE
         /\ at[p] # "copymap" => local[p].mem = FALSE
         /\ nfree \in Nat /\ KvmFrames \in Nat
         /\ Cardinality(tables[p]) \in Nat /\ Cardinality(pages[p]) \in Nat
         /\ Cardinality(tables[c]) \in Nat /\ Cardinality(pages[c]) \in Nat
         /\ \A r \in Procs : at[r] \in Forking /\ r # p =>
              local[r].np \in Procs /\ local[r].np # c
<1>1. /\ TypeOK /\ MInv /\ c \in Procs /\ c # p
      /\ state[c] = "embryo" /\ local[c].mem = FALSE
      /\ \A r \in Procs : at[r] \in Forking /\ r # p =>
           local[r].np \in Procs /\ local[r].np # c
  BY ForkState, NoCallType DEF FInv
<1>2. /\ kstack[p] \in BOOLEAN /\ kvm[p] \in BOOLEAN /\ local[p].mem \in BOOLEAN
      /\ kstack[c] \in BOOLEAN /\ kvm[c] \in BOOLEAN
  BY <1>1 DEF TypeOK
<1>3. at[p] \in {"stack", "setupkvm", "copy", "copymap"}
  BY DEF Forking
<1>4. /\ kstack[p] /\ kvm[p]
      /\ at[p] = "stack" => ~kstack[c] /\ ~kvm[c]
      /\ at[p] = "setupkvm" => kstack[c] /\ ~kvm[c]
      /\ at[p] \in {"copy", "copymap"} => kstack[c] /\ kvm[c]
      /\ local[p].mem <=> at[p] \in {"map", "copymap"}
  <2>1. Frames
    BY DEF FInv
  <2>2. kstack[p] /\ kvm[p]
    BY <2>1 DEF Frames
  <2>3. /\ at[p] = "stack" => ~kstack[c] /\ ~kvm[c]
        /\ at[p] = "setupkvm" => kstack[c] /\ ~kvm[c]
        /\ at[p] \in {"copy", "copymap"} => kstack[c] /\ kvm[c]
        /\ local[p].mem <=> at[p] \in {"map", "copymap"}
    BY <2>1, Zenon DEF Frames
  <2> QED
    BY <2>2, <2>3
<1>5. /\ nfree \in Nat /\ KvmFrames \in Nat
      /\ Cardinality(tables[p]) \in Nat /\ Cardinality(pages[p]) \in Nat
      /\ Cardinality(tables[c]) \in Nat /\ Cardinality(pages[c]) \in Nat
  BY <1>1, PagesFinite, MemoryAssumption DEF TypeOK
<1> QED
  BY <1>1, <1>2, <1>3, <1>4, <1>5

\* freevm gives back all that a slot owns, and what the caller adds to it.
LEMMA FreevmFrames ==
  ASSUME TypeOK, NEW q \in Procs, NEW extra \in Nat, freevm(q, extra), kstack[q] = TRUE,
         state[q] # "unused", local[q].mem = FALSE
  PROVE  /\ nfree' = nfree + Count(q) + extra /\ Count(q)' = 0
         /\ nfree \in Nat /\ Count(q) \in Nat
         /\ kstack'[q] = FALSE /\ kvm'[q] = FALSE
         /\ \A r \in Procs : r # q => kstack'[r] = kstack[r] /\ kvm'[r] = kvm[r]
<1>1. /\ nfree \in Nat /\ Cardinality(tables[q]) \in Nat /\ Cardinality(pages[q]) \in Nat
      /\ (IF kvm[q] THEN KvmFrames ELSE 0) \in Nat
  BY PagesFinite, MemoryAssumption DEF TypeOK
<1>2. nfree' = nfree + extra + 1 + (IF kvm[q] THEN KvmFrames ELSE 0)
                 + Cardinality(tables[q]) + Cardinality(pages[q])
  BY DEF freevm
<1>3. Count(q) = 1 + (IF kvm[q] THEN KvmFrames ELSE 0) + 0
                 + Cardinality(tables[q]) + Cardinality(pages[q])
  BY DEF Count
<1>4. Count(q) \in Nat /\ nfree' = nfree + Count(q) + extra
  BY <1>1, <1>2, <1>3
<1>5. Count(q)' = 0
  BY FreevmType DEF Count
<1>6. /\ kstack'[q] = FALSE /\ kvm'[q] = FALSE
      /\ \A r \in Procs : r # q => kstack'[r] = kstack[r] /\ kvm'[r] = kvm[r]
  <2>1. /\ kvm' = [kvm EXCEPT ![q] = FALSE] /\ kstack' = [kstack EXCEPT ![q] = FALSE]
        /\ kvm \in [Procs -> BOOLEAN] /\ kstack \in [Procs -> BOOLEAN]
    BY DEF freevm, TypeOK
  <2> QED
    BY <2>1, Zenon
<1> QED
  BY <1>1, <1>4, <1>5, <1>6

\* fork fails half-way: what the child has got is given back, and mem.
LEMMA ForkFailsFrames ==
  ASSUME FInv, MInv', NEW p \in Procs, state[p] = "live",
         at[p] \in {"setupkvm", "copy", "copymap"},
         NEW extra \in {0, 1}, extra = 1 <=> at[p] = "copymap", ForkFails(p, extra)
  PROVE  FInv' /\ Balanced
<1>0. PICK c \in Procs : c = local[p].np
  BY ForkState DEF FInv, Forking
<1>1. /\ TypeOK /\ MInv /\ c \in Procs /\ c # p /\ state[c] = "embryo"
      /\ local[c].mem = FALSE /\ kstack[p] = TRUE /\ kvm[p] = TRUE /\ kstack[c] = TRUE
      /\ at[p] = "copymap" => local[p].mem = TRUE
      /\ at[p] # "copymap" => local[p].mem = FALSE
      /\ KvmFrames \in Nat
      /\ Cardinality(tables[p]) \in Nat /\ Cardinality(pages[p]) \in Nat
      /\ \A r \in Procs : at[r] \in Forking /\ r # p =>
           local[r].np \in Procs /\ local[r].np # c
  <2>1. at[p] \in Forking /\ at[p] # "stack"
    BY DEF Forking
  <2>2. /\ TypeOK /\ MInv /\ c # p /\ state[c] = "embryo" /\ local[c].mem = FALSE
        /\ kstack[p] = TRUE /\ kvm[p] = TRUE
        /\ at[p] = "setupkvm" => kstack[c] = TRUE
        /\ at[p] = "copy" => kstack[c] = TRUE
        /\ at[p] = "copymap" => kstack[c] = TRUE /\ local[p].mem = TRUE
        /\ at[p] # "copymap" => local[p].mem = FALSE
        /\ KvmFrames \in Nat
        /\ Cardinality(tables[p]) \in Nat /\ Cardinality(pages[p]) \in Nat
        /\ \A r \in Procs : at[r] \in Forking /\ r # p =>
             local[r].np \in Procs /\ local[r].np # c
    BY <1>0, <2>1, ChildFrames
  <2> QED
    BY <2>2
<1>2. freevm(c, extra) /\ Return(p) /\ UNCHANGED <<sz, panicked>>
  BY <1>0 DEF ForkFails
<1>3. /\ at'[p] = "user" /\ local'[p] = NoCall
      /\ \A q \in Procs : q # p => at'[q] = at[q] /\ local'[q] = local[q]
  BY <1>1, <1>2, ReturnType
<1>4. /\ state'[c] = "unused"
      /\ \A r \in Procs : r # c =>
           /\ state'[r] = state[r] /\ tables'[r] = tables[r] /\ pages'[r] = pages[r]
  BY <1>1, <1>2, FreevmType
<1>5. /\ nfree' = nfree + Count(c) + extra /\ Count(c)' = 0
      /\ nfree \in Nat /\ Count(c) \in Nat
      /\ kstack'[c] = FALSE /\ kvm'[c] = FALSE
      /\ \A r \in Procs : r # c => kstack'[r] = kstack[r] /\ kvm'[r] = kvm[r]
  <2>1. state[c] # "unused" /\ extra \in Nat
    BY <1>1
  <2> QED
    BY <1>1, <1>2, <2>1, FreevmFrames
<1>6. Frames'
  BY <1>1, <1>3, <1>4, <1>5, NoCallType, ForkStepFrames
<1>7. \A q \in Procs : q # p /\ q # c => Own(q)' = Own(q)
  BY <1>3, <1>4, <1>5, OwnKept DEF KeptOwn
<1>8. Count(p)' + extra = Count(p) /\ Count(p) \in Nat /\ Count(p)' \in Nat
  <2>1. /\ state'[p] = "live" /\ kstack'[p] = TRUE /\ kvm'[p] = TRUE
        /\ tables'[p] = tables[p] /\ pages'[p] = pages[p] /\ local'[p].mem = FALSE
    BY <1>1, <1>3, <1>4, <1>5, NoCallType
  <2>2. /\ Count(p)' = 1 + KvmFrames + 0 + Cardinality(tables[p]) + Cardinality(pages[p])
        /\ Count(p) = 1 + KvmFrames + extra + Cardinality(tables[p]) + Cardinality(pages[p])
    BY <1>1, <2>1 DEF Count
  <2> QED
    BY <1>1, <2>2
<1>9. nfree' + Count(p)' + Count(c)' = nfree + Count(p) + Count(c)
  BY <1>5, <1>8
<1>10. IsFiniteSet(Owned) /\ TypeOK'
  BY DEF FInv, MInv
<1>11. IsFiniteSet(Owned') /\ Balanced
  BY <1>1, <1>7, <1>9, <1>10, TwoSlots
<1> QED
  BY <1>6, <1>11 DEF FInv

\* The slot that fork finds has kept nothing.
LEMMA ForkSlotFrames ==
  ASSUME FInv, NEW p \in Procs, NEW q \in Procs, ForkSlot(p, q)
  PROVE  FInv' /\ Balanced
<1>1. /\ At(p, "user") /\ state[q] = "unused"
      /\ state' = [state EXCEPT ![q] = "embryo"]
      /\ local' = [local EXCEPT ![p].np = q] /\ Goto(p, "stack")
      /\ UNCHANGED <<sz, kstack, kvm, tables, pages, nfree>>
  BY DEF ForkSlot, space
<1>2. /\ MInv /\ MInv' /\ TypeOK /\ state[p] = "live" /\ local[p] = NoCall /\ p # q
  BY <1>1, UserMode, ForkSlotInv DEF FInv
<1>3. /\ local'[p].np = q /\ local'[p].mem = FALSE
      /\ \A r \in Procs : r # p => local'[r] = local[r]
  <2>1. local'[p] = [NoCall EXCEPT !.np = q]
    BY <1>1, <1>2 DEF TypeOK
  <2>2. local'[p].np = q /\ local'[p].mem = FALSE
    BY <2>1, NoCallType DEF LocalVars
  <2> QED
    BY <1>1, <1>2, <2>2 DEF TypeOK
<1>4. /\ at'[p] = "stack" /\ \A r \in Procs : r # p => at'[r] = at[r]
      /\ state'[q] = "embryo" /\ \A r \in Procs : r # q => state'[r] = state[r]
  BY <1>1, <1>2 DEF TypeOK, Goto
<1>5. /\ ~kstack[q] /\ ~kvm[q] /\ local[q] = NoCall /\ pages[q] = {} /\ tables[q] = {}
      /\ \A r \in Procs : at[r] \in Forking => local[r].np \in Procs /\ local[r].np # q
  <2>1. at[q] = "user" /\ local[q] = NoCall /\ pages[q] = {} /\ tables[q] = {}
    BY <1>1, <1>2 DEF MInv, Idle, Mapped
  <2>2. ~kstack[q] /\ ~kvm[q]
    BY <1>1 DEF FInv, Frames
  <2>3. \A r \in Procs : at[r] \in Forking => local[r].np \in Procs /\ local[r].np # q
    BY <1>1, <1>2 DEF MInv, Copies, Copying
  <2> QED
    BY <2>1, <2>2, <2>3
<1>6. Frames'
  BY <1>1, <1>2, <1>3, <1>4, <1>5, ForkStepFrames
<1>7. Own(q)' = {} /\ Own(q) = {}
  <2>1. kstack'[q] = kstack[q] /\ kvm'[q] = kvm[q] /\ tables'[q] = {} /\ pages'[q] = {}
        /\ local'[q].mem = FALSE
    BY <1>1, <1>2, <1>3, <1>5, NoCallType
  <2> QED
    BY <1>1, <1>5, <2>1 DEF Own, Stack, Kvm, Mem, Tables, Present, Tagged
<1>8. local'[p].mem = local[p].mem
  BY <1>2, <1>3, NoCallType
<1>9. \A r \in Procs : Own(r)' = Own(r)
  <2>1. \A r \in Procs : r # q => KeptOwn(r)
    BY <1>1, <1>3, <1>4, <1>8 DEF KeptOwn
  <2> QED
    BY <1>7, <2>1, OwnKept
<1>10. IsFiniteSet(Owned') /\ Balanced
  BY <1>1, <1>9, OwnedKept DEF FInv
<1> QED
  BY <1>2, <1>6, <1>10 DEF FInv

\* The child gets its stack, or its slot is given up empty.
LEMMA ForkStackFrames ==
  ASSUME FInv, NEW p \in Procs, ForkStack(p)
  PROVE  FInv' /\ Balanced
<1>1. state[p] = "live" /\ at[p] = "stack" /\ at[p] \in Forking /\ MInv'
  BY ForkStackInv DEF ForkStack, At, Forking, FInv
<1>2. PICK c \in Procs : c = local[p].np
  BY <1>1, ForkState DEF FInv
<1>3. /\ TypeOK /\ c # p /\ state[c] = "embryo" /\ local[c].mem = FALSE
      /\ kstack[c] = FALSE /\ kvm[c] = FALSE /\ local[p].mem = FALSE /\ KvmFrames \in Nat
      /\ nfree \in Nat /\ Cardinality(tables[c]) \in Nat /\ Cardinality(pages[c]) \in Nat
      /\ \A r \in Procs : at[r] \in Forking /\ r # p =>
           local[r].np \in Procs /\ local[r].np # c
  BY <1>1, <1>2, ChildFrames
<1>4. CASE /\ nfree > 0 /\ nfree' = nfree - 1
           /\ kstack' = [kstack EXCEPT ![c] = TRUE]
           /\ Goto(p, "setupkvm")
           /\ UNCHANGED <<state, local, kvm, tables, pages>>
  <2>1. at'[p] = "setupkvm" /\ \A r \in Procs : r # p => at'[r] = at[r]
    BY <1>3, <1>4 DEF TypeOK, Goto
  <2>2. kstack'[c] = TRUE /\ \A r \in Procs : r # c => kstack'[r] = kstack[r]
    <3>1. kstack' = [kstack EXCEPT ![c] = TRUE] /\ kstack \in [Procs -> BOOLEAN]
      BY <1>3, <1>4 DEF TypeOK
    <3> QED
      BY <3>1, Zenon
  <2>3. Frames'
    <3>1. /\ local'[p].np = c /\ local'[p].mem = FALSE /\ state'[c] = "embryo"
          /\ kstack'[c] = TRUE /\ kvm'[c] = FALSE
      BY <1>2, <1>3, <1>4, <2>2
    <3>2. /\ \A r \in Procs : r # p => at'[r] = at[r] /\ local'[r] = local[r]
          /\ \A r \in Procs : r # c => /\ state'[r] = state[r] /\ kstack'[r] = kstack[r]
                                       /\ kvm'[r] = kvm[r]
      BY <1>4, <2>1, <2>2
    <3>3. local'[p].mem <=> at'[p] \in {"map", "copymap"}
      BY <2>1, <3>1
    <3> QED
      BY <1>1, <1>3, <2>1, <3>1, <3>2, <3>3, ForkStepFrames
  <2>4. \A r \in Procs : r # c => Own(r)' = Own(r)
    BY <1>4, <2>2, OwnKept DEF KeptOwn
  <2>5. nfree' + Count(c)' = nfree + Count(c)
    <3>1. /\ Count(c) = 0 + 0 + 0 + Cardinality(tables[c]) + Cardinality(pages[c])
          /\ Count(c)' = 1 + 0 + 0 + Cardinality(tables[c]) + Cardinality(pages[c])
      BY <1>3, <1>4, <2>2 DEF Count
    <3> QED
      BY <1>3, <1>4, <3>1
  <2>6. IsFiniteSet(Owned') /\ Balanced
    BY <1>1, <1>3, <2>4, <2>5, OneSlot DEF FInv, MInv
  <2> QED
    BY <1>1, <2>3, <2>6 DEF FInv
<1>5. CASE /\ state' = [state EXCEPT ![c] = "unused"]
           /\ Return(p)
           /\ UNCHANGED <<kstack, kvm, tables, pages, nfree>>
  <2>1. /\ at'[p] = "user" /\ local'[p] = NoCall
        /\ \A q \in Procs : q # p => at'[q] = at[q] /\ local'[q] = local[q]
    BY <1>3, <1>5, ReturnType
  <2>2. state'[c] = "unused" /\ \A r \in Procs : r # c => state'[r] = state[r]
    BY <1>3, <1>5 DEF TypeOK
  <2>3. Frames'
    BY <1>1, <1>2, <1>3, <1>5, <2>1, <2>2, NoCallType, ForkStepFrames
  <2>4. \A r \in Procs : r # c => Own(r)' = Own(r)
    <3>1. local'[p].mem = local[p].mem
      BY <1>3, <2>1, NoCallType
    <3>2. \A r \in Procs : r # c => KeptOwn(r)
      BY <1>5, <2>1, <2>2, <3>1 DEF KeptOwn
    <3> QED
      BY <3>2, OwnKept
  <2>5. Own(c) = {} /\ Own(c)' = {}
    <3>1. pages[c] = {} /\ tables[c] = {}
      <4>1. Copying(p) /\ 0 .. 0 - 1 = {}
        BY <1>1, ForkState DEF FInv
      <4> QED
        BY <1>1, <1>2, <4>1 DEF Copying
    <3> QED
      BY <1>3, <2>2, <3>1 DEF Own, Stack, Kvm, Mem, Tables, Present, Tagged
  <2>6. IsFiniteSet(Owned') /\ Balanced
    BY <1>5, <2>4, <2>5, OwnedKept DEF FInv
  <2> QED
    BY <1>1, <2>3, <2>6 DEF FInv
<1> QED
  BY <1>2, <1>4, <1>5 DEF ForkStack

\* The child gets a page directory.
LEMMA ForkKvmFrames ==
  ASSUME FInv, NEW p \in Procs, ForkKvm(p)
  PROVE  FInv' /\ Balanced
<1>1. state[p] = "live" /\ at[p] = "setupkvm" /\ at[p] \in Forking /\ MInv'
  BY ForkKvmInv DEF ForkKvm, At, Forking, FInv
<1>2. PICK c \in Procs : c = local[p].np
  BY <1>1, ForkState DEF FInv
<1>3. /\ TypeOK /\ c # p /\ state[c] = "embryo" /\ local[c].mem = FALSE
      /\ kstack[c] = TRUE /\ kvm[c] = FALSE /\ local[p].mem = FALSE /\ KvmFrames \in Nat
      /\ nfree \in Nat /\ Cardinality(tables[c]) \in Nat /\ Cardinality(pages[c]) \in Nat
      /\ \A r \in Procs : at[r] \in Forking /\ r # p =>
           local[r].np \in Procs /\ local[r].np # c
  BY <1>1, <1>2, ChildFrames
<1>4. CASE /\ nfree >= KvmFrames /\ nfree' = nfree - KvmFrames
           /\ kvm' = [kvm EXCEPT ![c] = TRUE]
           /\ Goto(p, "copy")
           /\ UNCHANGED <<state, local, kstack, tables, pages>>
  <2>1. at'[p] = "copy" /\ \A r \in Procs : r # p => at'[r] = at[r]
    BY <1>3, <1>4 DEF TypeOK, Goto
  <2>2. kvm'[c] = TRUE /\ \A r \in Procs : r # c => kvm'[r] = kvm[r]
    <3>1. kvm' = [kvm EXCEPT ![c] = TRUE] /\ kvm \in [Procs -> BOOLEAN]
      BY <1>3, <1>4 DEF TypeOK
    <3> QED
      BY <3>1, Zenon
  <2>3. Frames'
    <3>1. /\ local'[p].np = c /\ local'[p].mem = FALSE /\ state'[c] = "embryo"
          /\ kstack'[c] = TRUE /\ kvm'[c] = TRUE
      BY <1>2, <1>3, <1>4, <2>2
    <3>2. /\ \A r \in Procs : r # p => at'[r] = at[r] /\ local'[r] = local[r]
          /\ \A r \in Procs : r # c => /\ state'[r] = state[r] /\ kstack'[r] = kstack[r]
                                       /\ kvm'[r] = kvm[r]
      BY <1>4, <2>1, <2>2
    <3>3. local'[p].mem <=> at'[p] \in {"map", "copymap"}
      BY <2>1, <3>1
    <3> QED
      BY <1>1, <1>3, <2>1, <3>1, <3>2, <3>3, ForkStepFrames
  <2>4. \A r \in Procs : r # c => Own(r)' = Own(r)
    BY <1>4, <2>2, OwnKept DEF KeptOwn
  <2>5. nfree' + Count(c)' = nfree + Count(c)
    <3>1. /\ Count(c) = 1 + 0 + 0 + Cardinality(tables[c]) + Cardinality(pages[c])
          /\ Count(c)' = 1 + KvmFrames + 0 + Cardinality(tables[c]) + Cardinality(pages[c])
      BY <1>3, <1>4, <2>2 DEF Count
    <3> QED
      BY <1>3, <1>4, <3>1
  <2>6. IsFiniteSet(Owned') /\ Balanced
    BY <1>1, <1>3, <2>4, <2>5, OneSlot DEF FInv, MInv
  <2> QED
    BY <1>1, <2>3, <2>6 DEF FInv
<1>5. CASE ForkFails(p, 0)
  BY <1>1, <1>5, ForkFailsFrames
<1> QED
  BY <1>2, <1>4, <1>5 DEF ForkKvm

\* The kalloc of copyuvm: the frame is in mem.
LEMMA CopyPageFrames ==
  ASSUME FInv, NEW p \in Procs, CopyPage(p)
  PROVE  FInv' /\ Balanced
<1>1. /\ state[p] = "live" /\ at[p] = "copy" /\ at[p] \in Forking /\ MInv'
      /\ "copyuvm" \in Panics
  BY CopyPageInv DEF CopyPage, At, Forking, FInv, Panics
<1>2. PICK c \in Procs : c = local[p].np
  BY <1>1, ForkState DEF FInv
<1>3. /\ TypeOK /\ c # p /\ state[c] = "embryo"
      /\ kstack[c] = TRUE /\ kvm[c] = TRUE /\ kstack[p] = TRUE /\ kvm[p] = TRUE
      /\ local[p].mem = FALSE /\ KvmFrames \in Nat
      /\ nfree \in Nat /\ Cardinality(tables[p]) \in Nat /\ Cardinality(pages[p]) \in Nat
      /\ \A r \in Procs : at[r] \in Forking /\ r # p =>
           local[r].np \in Procs /\ local[r].np # c
  BY <1>1, <1>2, ChildFrames
<1>4. CASE Panic("copyuvm")
  BY <1>1, <1>4, PanicFrames
<1>5. CASE /\ nfree > 0 /\ nfree' = nfree - 1
           /\ local' = [local EXCEPT ![p].mem = TRUE]
           /\ Goto(p, "copymap")
           /\ UNCHANGED <<state, kstack, kvm, tables, pages>>
  <2>1. at'[p] = "copymap" /\ \A r \in Procs : r # p => at'[r] = at[r]
    BY <1>3, <1>5 DEF TypeOK, Goto
  <2>2. /\ local'[p].mem = TRUE /\ local'[p].np = c
        /\ \A r \in Procs : r # p => local'[r] = local[r]
    BY <1>2, <1>3, <1>5 DEF TypeOK
  <2>3. Frames'
    <3>1. state'[c] = "embryo" /\ kstack'[c] = TRUE /\ kvm'[c] = TRUE
      BY <1>3, <1>5
    <3>2. \A r \in Procs : r # c => /\ state'[r] = state[r] /\ kstack'[r] = kstack[r]
                                    /\ kvm'[r] = kvm[r]
      BY <1>5
    <3>3. local'[p].mem <=> at'[p] \in {"map", "copymap"}
      BY <2>1, <2>2
    <3> QED
      BY <1>1, <1>3, <2>1, <2>2, <3>1, <3>2, <3>3, ForkStepFrames
  <2>4. \A r \in Procs : r # p => Own(r)' = Own(r)
    BY <1>5, <2>2, OwnKept DEF KeptOwn
  <2>5. nfree' + Count(p)' = nfree + Count(p)
    <3>1. /\ Count(p) = 1 + KvmFrames + 0 + Cardinality(tables[p]) + Cardinality(pages[p])
          /\ Count(p)' = 1 + KvmFrames + 1 + Cardinality(tables[p]) + Cardinality(pages[p])
      BY <1>1, <1>3, <1>5, <2>2 DEF Count
    <3> QED
      BY <1>3, <1>5, <3>1
  <2>6. IsFiniteSet(Owned') /\ Balanced
    BY <1>1, <1>3, <2>4, <2>5, OneSlot DEF FInv, MInv
  <2> QED
    BY <1>1, <2>3, <2>6 DEF FInv
<1>6. CASE ForkFails(p, 0)
  BY <1>1, <1>6, ForkFailsFrames
<1> QED
  BY <1>4, <1>5, <1>6 DEF CopyPage, space

\* The mappages of copyuvm: the fork's mem becomes a page of the child.
LEMMA CopyMapFrames ==
  ASSUME FInv, NEW p \in Procs, CopyMap(p)
  PROVE  FInv' /\ Balanced
<1>1. /\ state[p] = "live" /\ at[p] = "copymap" /\ at[p] \in Forking /\ MInv' /\ TypeOK'
  BY CopyMapInv DEF CopyMap, At, Forking, FInv, MInv
<1>2. PICK c \in Procs : c = local[p].np
  BY <1>1, ForkState DEF FInv
<1>3. /\ TypeOK /\ c # p /\ state[c] = "embryo" /\ local[c].mem = FALSE
      /\ kstack[c] = TRUE /\ kvm[c] = TRUE /\ kstack[p] = TRUE /\ kvm[p] = TRUE
      /\ local[p].mem = TRUE /\ KvmFrames \in Nat
      /\ nfree \in Nat /\ Cardinality(tables[p]) \in Nat /\ Cardinality(pages[p]) \in Nat
      /\ \A r \in Procs : at[r] \in Forking /\ r # p =>
           local[r].np \in Procs /\ local[r].np # c
  BY <1>1, <1>2, ChildFrames
<1>4. PICK i \in Pages : i = local[p].a
  <2>1. Copying(p)
    BY <1>1, ForkState DEF FInv
  <2> QED
    BY <1>1, <1>3, <2>1 DEF Copying, TypeOK
<1>5. CASE ForkFails(p, 1)
  BY <1>1, <1>5, ForkFailsFrames
<1>6. CASE /\ mappages(c, i)
           /\ local' = [local EXCEPT ![p].a = i + 1, ![p].mem = FALSE]
           /\ Goto(p, "copy")
           /\ UNCHANGED <<state, kstack, kvm>>
  <2>1. at'[p] = "copy" /\ \A r \in Procs : r # p => at'[r] = at[r]
    BY <1>3, <1>6 DEF TypeOK, Goto
  <2>2. /\ local'[p].mem = FALSE /\ local'[p].np = c
        /\ \A r \in Procs : r # p => local'[r] = local[r]
    BY <1>2, <1>3, <1>6 DEF TypeOK
  <2>3. Frames'
    <3>1. state'[c] = "embryo" /\ kstack'[c] = TRUE /\ kvm'[c] = TRUE
      BY <1>3, <1>6
    <3>2. \A r \in Procs : r # c => /\ state'[r] = state[r] /\ kstack'[r] = kstack[r]
                                    /\ kvm'[r] = kvm[r]
      BY <1>6
    <3>3. local'[p].mem <=> at'[p] \in {"map", "copymap"}
      BY <2>1, <2>2
    <3> QED
      BY <1>1, <1>3, <2>1, <2>2, <3>1, <3>2, <3>3, ForkStepFrames
  <2>4. \A r \in Procs : r # c => tables'[r] = tables[r] /\ pages'[r] = pages[r]
    BY <1>3, <1>6, MappagesType
  <2>5. \A r \in Procs : r # p /\ r # c => Own(r)' = Own(r)
    BY <1>6, <2>2, <2>4, OwnKept DEF KeptOwn
  <2>6. nfree' + Count(p)' + Count(c)' = nfree + Count(p) + Count(c)
    <3>1. /\ Count(p) = 1 + KvmFrames + 1 + Cardinality(tables[p]) + Cardinality(pages[p])
          /\ Count(p)' = 1 + KvmFrames + 0 + Cardinality(tables[p]) + Cardinality(pages[p])
      BY <1>1, <1>3, <1>6, <2>2, <2>4 DEF Count
    <3>2. /\ Count(c) = 1 + KvmFrames + 0 + Cardinality(tables[c]) + Cardinality(pages[c])
          /\ Count(c)' = 1 + KvmFrames + 0 + Cardinality(tables'[c]) + Cardinality(pages'[c])
      BY <1>3, <1>6, <2>2 DEF Count
    <3>3. /\ nfree' \in Nat
          /\ Cardinality(tables[c]) \in Nat /\ Cardinality(tables'[c]) \in Nat
          /\ Cardinality(pages[c]) \in Nat /\ Cardinality(pages'[c]) = Cardinality(pages[c]) + 1
          /\ nfree' + Cardinality(tables'[c]) = nfree + Cardinality(tables[c])
      BY <1>3, <1>6, MappagesFrames
    <3> QED
      BY <1>3, <3>1, <3>2, <3>3
  <2>7. IsFiniteSet(Owned') /\ Balanced
    BY <1>1, <1>3, <2>5, <2>6, TwoSlots DEF FInv
  <2> QED
    BY <1>1, <2>3, <2>7 DEF FInv
<1> QED
  BY <1>2, <1>4, <1>5, <1>6 DEF CopyMap

\* The child takes over what it has got.
LEMMA ForkPublishFrames ==
  ASSUME FInv, NEW p \in Procs, ForkPublish(p)
  PROVE  FInv' /\ Balanced
<1>1. /\ state[p] = "live" /\ at[p] = "copy" /\ at[p] \in Forking /\ MInv'
  BY ForkPublishInv DEF ForkPublish, At, Forking, FInv
<1>2. PICK c \in Procs : c = local[p].np
  BY <1>1, ForkState DEF FInv
<1>3. /\ TypeOK /\ c # p /\ state[c] = "embryo" /\ local[p].mem = FALSE
      /\ kstack[c] = TRUE /\ kvm[c] = TRUE
      /\ \A r \in Procs : at[r] \in Forking /\ r # p =>
           local[r].np \in Procs /\ local[r].np # c
  BY <1>1, <1>2, ChildFrames
<1>4. /\ state' = [state EXCEPT ![c] = "live"] /\ Return(p)
      /\ UNCHANGED <<kstack, kvm, tables, pages, nfree>>
  BY <1>2 DEF ForkPublish
<1>5. /\ at'[p] = "user" /\ local'[p] = NoCall /\ local'[p].mem = FALSE
      /\ \A q \in Procs : q # p => at'[q] = at[q] /\ local'[q] = local[q]
  BY <1>3, <1>4, ReturnType, NoCallType
<1>6. state'[c] = "live" /\ \A r \in Procs : r # c => state'[r] = state[r]
  BY <1>3, <1>4 DEF TypeOK
<1>7. Frames'
  <2>1. kstack'[c] = TRUE /\ kvm'[c] = TRUE
    BY <1>3, <1>4
  <2>2. \A r \in Procs : r # c => /\ state'[r] = state[r] /\ kstack'[r] = kstack[r]
                                  /\ kvm'[r] = kvm[r]
    BY <1>4, <1>6
  <2> QED
    BY <1>1, <1>3, <1>5, <1>6, <2>1, <2>2, ForkStepFrames
<1>8. \A r \in Procs : Own(r)' = Own(r)
  <2>1. \A r \in Procs : r # c => KeptOwn(r)
    BY <1>3, <1>4, <1>5, <1>6 DEF KeptOwn
  <2>2. Own(c)' = Own(c)
    <3>1. /\ kstack'[c] = kstack[c] /\ kvm'[c] = kvm[c] /\ tables'[c] = tables[c]
          /\ pages'[c] = pages[c] /\ local'[c].mem = local[c].mem
      BY <1>3, <1>4, <1>5
    <3> QED
      BY <1>3, <1>6, <3>1 DEF Own, Stack, Kvm, Mem, Tables, Present
  <2> QED
    BY <2>1, <2>2, OwnKept
<1>9. IsFiniteSet(Owned') /\ Balanced
  BY <1>4, <1>8, OwnedKept DEF FInv
<1> QED
  BY <1>1, <1>7, <1>9 DEF FInv

\* wait gives back everything of a zombie.
LEMMA ReapFrames ==
  ASSUME FInv, NEW q \in Procs, Reap(q)
  PROVE  FInv' /\ Balanced
<1>1. /\ state[q] = "zombie" /\ freevm(q, 0) /\ UNCHANGED <<sz, at, local, panicked>>
      /\ TypeOK /\ MInv /\ MInv' /\ 0 \in Nat
  BY ReapInv DEF Reap, FInv, MInv
<1>2. /\ at[q] = "user" /\ local[q].mem = FALSE /\ kstack[q] = TRUE
  <2>1. at[q] = "user" /\ local[q] = NoCall
    BY <1>1 DEF MInv, Idle
  <2>2. kstack[q] /\ kstack[q] \in BOOLEAN
    BY <1>1 DEF FInv, Frames, TypeOK
  <2> QED
    BY <2>1, <2>2, NoCallType
<1>3. /\ state'[q] = "unused"
      /\ \A r \in Procs : r # q =>
           /\ state'[r] = state[r] /\ tables'[r] = tables[r] /\ pages'[r] = pages[r]
  BY <1>1, FreevmType
<1>4. /\ nfree' = nfree + Count(q) + 0 /\ Count(q)' = 0
      /\ nfree \in Nat /\ Count(q) \in Nat
      /\ kstack'[q] = FALSE /\ kvm'[q] = FALSE
      /\ \A r \in Procs : r # q => kstack'[r] = kstack[r] /\ kvm'[r] = kvm[r]
  <2>1. state[q] # "unused"
    BY <1>1
  <2> QED
    BY <1>1, <1>2, <2>1, FreevmFrames
<1>5. Frames'
  <2> SUFFICES ASSUME NEW r \in Procs
               PROVE  /\ state'[r] = "unused" => ~kstack'[r] /\ ~kvm'[r]
                      /\ state'[r] \in {"live", "zombie"} => kstack'[r] /\ kvm'[r]
                      /\ at[r] = "stack" => ~kstack'[local[r].np] /\ ~kvm'[local[r].np]
                      /\ at[r] = "setupkvm" => kstack'[local[r].np] /\ ~kvm'[local[r].np]
                      /\ at[r] \in {"copy", "copymap"} =>
                           kstack'[local[r].np] /\ kvm'[local[r].np]
                      /\ local[r].mem <=> at[r] \in {"map", "copymap"}
    BY <1>1 DEF Frames
  <2>1. /\ state'[r] = "unused" => ~kstack'[r] /\ ~kvm'[r]
        /\ state'[r] \in {"live", "zombie"} => kstack'[r] /\ kvm'[r]
        /\ local[r].mem <=> at[r] \in {"map", "copymap"}
    BY <1>3, <1>4 DEF FInv, Frames
  <2>2. ASSUME at[r] \in Forking
        PROVE  /\ kstack'[local[r].np] = kstack[local[r].np]
               /\ kvm'[local[r].np] = kvm[local[r].np]
    <3>1. local[r].np \in Procs /\ local[r].np # q
      BY <1>1, <2>2 DEF MInv, Copies, Copying
    <3> QED
      BY <1>4, <3>1
  <2> QED
    BY <2>1, <2>2 DEF FInv, Frames, Forking
<1>6. \A r \in Procs : r # q => Own(r)' = Own(r)
  BY <1>1, <1>3, <1>4, OwnKept DEF KeptOwn
<1>7. nfree' + Count(q)' = nfree + Count(q)
  BY <1>4
<1>8. IsFiniteSet(Owned') /\ Balanced
  BY <1>1, <1>6, <1>7, OneSlot DEF FInv, MInv
<1> QED
  BY <1>1, <1>5, <1>8 DEF FInv

\* At first one process owns all that is owned.
LEMMA FInvInit == Init => FInv
<1> SUFFICES ASSUME Init
             PROVE  FInv
  OBVIOUS
<1>1. MInv /\ TypeOK /\ initproc \in Procs
  BY MInvInit, MemoryAssumption DEF MInv
<1>2. \A p \in Procs : /\ state[p] = (IF p = initproc THEN "live" ELSE "unused")
                       /\ kstack[p] = (p = initproc) /\ kvm[p] = (p = initproc)
                       /\ at[p] = "user" /\ local[p] = NoCall
  BY DEF Init
<1>3. Frames
  BY <1>2, NoCallType DEF Frames
<1>4. IsFiniteSet(Owned)
  <2>1. \A p \in Procs : p # initproc => Own(p) = {}
    BY <1>2 DEF Own
  <2>2. \A x : x \in Owned <=> x \in Own(initproc)
    BY <1>1, <2>1, OwnedIs
  <2>3. Owned = Own(initproc)
    BY <2>2
  <2> QED
    BY <1>1, <2>3, OwnCard
<1> QED
  BY <1>1, <1>3, <1>4 DEF FInv

\* Every step keeps the balance.
LEMMA FInvNext ==
  ASSUME FInv, [Next]_vars
  PROVE  FInv' /\ Balanced
<1>1. CASE UNCHANGED vars
  <2>1. UNCHANGED <<state, kstack, kvm, tables, pages, nfree, at, local>> /\ MInv'
    BY <1>1, StutterInv DEF vars, space, FInv
  <2>2. Frames'
    BY <2>1 DEF FInv, Frames
  <2> QED
    BY <2>1, <2>2, NoFrames DEF KeptOwn
<1>2. ASSUME NEW p \in Procs, ProcessCall(p)
      PROVE  FInv' /\ Balanced
  <2>1. CASE Exit(p)
    <3>1. /\ At(p, "user") /\ state' = [state EXCEPT ![p] = "zombie"]
          /\ UNCHANGED <<kstack, kvm, tables, pages, nfree, at, local>>
      BY <2>1 DEF Exit, space
    <3>2. MInv' /\ TypeOK
      BY <2>1, ExitInv DEF FInv, MInv
    <3>3. state'[p] = "zombie" /\ \A q \in Procs : q # p => state'[q] = state[q]
      BY <3>1, <3>2 DEF TypeOK
    <3> QED
      BY <3>1, <3>2, <3>3, SameFrames
  <2> QED
    BY <1>2, <2>1, ForkSlotFrames DEF ProcessCall
<1>3. ASSUME NEW p \in Procs, MemoryCall(p) \/ InKernel(p) \/ Reap(p)
      PROVE  FInv' /\ Balanced
  BY <1>3, MemoryCallFrames, AllocPageFrames, AllocMapFrames, ForkStackFrames, ForkKvmFrames,
     CopyPageFrames, CopyMapFrames, ForkPublishFrames, ReapFrames DEF InKernel
<1> QED
  BY <1>1, <1>2, <1>3 DEF Next, Halted

\* No frame leaks and none is freed twice, whatever fails half-way (kalloc,
\* kfree, and all their callers).
THEOREM FramesKept == Spec => FramesConserved
<1>1. FInv /\ [Next]_vars => FInv'
  BY FInvNext
<1>2. FInv /\ [Next]_vars =>
        [nfree' + Cardinality(Owned') = nfree + Cardinality(Owned)]_vars
  BY FInvNext DEF Balanced
<1> QED
  BY <1>1, <1>2, FInvInit, PTL DEF Spec, FramesConserved

-----------------------------------------------------------------------------
(* System calls *)

\* A non-empty set of numbers has a least element.
LEMMA LeastNatural ==
  ASSUME NEW S, S \subseteq Nat, S # {}
  PROVE  \E x \in S : \A y \in S : x <= y
<1> DEFINE R == OpToRel(<, Nat)
<1>1. IsWellFoundedOn(R, Nat)
  BY Zenon, NatLessThanWellFounded
<1>2. PICK x \in S : \A y \in S : ~(<<y, x>> \in R)
  <2> HIDE DEF R
  <2> QED
    BY Zenon, <1>1, WFMin
<1>3. R = {ss \in Nat \X Nat : ss[1] < ss[2]}
  BY Zenon DEF OpToRel
<1>4. ASSUME NEW y \in S PROVE x <= y
  <2> HIDE DEF R
  <2>1. y \in Nat /\ x \in Nat /\ <<y, x>> \in Nat \X Nat
    OBVIOUS
  <2>2. ~(y < x)
    BY <1>2, <1>3, <2>1
  <2> QED
    BY <2>1, <2>2
<1> QED
  BY <1>4

\* The first page that is missing is one of them, and one of the user half.
LEMMA FirstMissing ==
  ASSUME CInv, NEW p \in Procs, Missing(p) # {}
  PROVE  /\ F!Min(Missing(p)) \in Missing(p) /\ F!Min(Missing(p)) \in Pages
         /\ Missing(p) \subseteq Pages /\ \A v \in Missing(p) : F!Min(Missing(p)) <= v
<1> DEFINE S == Missing(p)
<1>1. touch[p] \subseteq Nat /\ \A v \in touch[p] : v * PGSIZE < sz[p]
  BY DEF CInv, Calls, KernelStaysInside
<1>2. S \subseteq touch[p] /\ S \subseteq Nat /\ S # {}
  BY <1>1 DEF Missing
<1> HIDE DEF S
<1>3. \E x \in S : \A y \in S : x <= y
  BY <1>2, LeastNatural
<1>4. F!Min(S) = CHOOSE x \in S : \A y \in S : x =< y
  BY DEF F!Min
<1>5. F!Min(S) \in S /\ \A v \in S : F!Min(S) <= v
  BY <1>3, <1>4
<1>6. ASSUME NEW v \in S PROVE v \in Pages
  <2>1. sz[p] \in 0 .. KERNBASE
    BY DEF CInv, MInv, TypeOK
  <2>2. v \in Nat /\ v * PGSIZE < sz[p] /\ sz[p] \in Nat /\ sz[p] <= KERNBASE
    BY <1>1, <1>2, <2>1, Sizes
  <2> QED
    BY <2>2, PageBelow, Sizes
<1> QED
  BY <1>5, <1>6 DEF S

\* No address of a block that ends at or before s wraps around.
LEMMA InsidePages ==
  ASSUME NEW a \in Nat, NEW len \in Int, NEW s \in 0 .. KERNBASE, a + len <= s
  PROVE  PagesOf(a, len) \subseteq Nat /\ \A v \in PagesOf(a, len) : v * PGSIZE < s
<1> SUFFICES ASSUME NEW v \in PagesOf(a, len)
             PROVE  v \in Nat /\ v * PGSIZE < s
  OBVIOUS
<1>1. PICK b \in a .. a + len - 1 : v = (b % Word) \div PGSIZE
  BY DEF PagesOf
<1>2. b \in Nat /\ b < s /\ b < Word /\ s \in Nat
  BY <1>1, Sizes
<1>3. b % Word = b
  BY <1>2, Sizes
<1>4. v \in Nat /\ v * PGSIZE <= b
  BY <1>1, <1>2, <1>3, DivIs, Sizes
<1> QED
  BY <1>2, <1>4, PageBelow

\* A block that passes the checks ends at or before sz: no sum wraps around.
LEMMA ChecksHold ==
  ASSUME NEW a \in Nat, NEW len \in Nat, NEW s \in 0 .. KERNBASE,
         a < s, len <= KERNBASE, (a + len) % Word <= s
  PROVE  a + len <= s
<1>1. a + len \in Nat /\ a + len < Word
  BY Sizes
<1>2. (a + len) % Word = a + len
  BY <1>1, Sizes
<1> QED
  BY <1>2

\* The kernel begins to fetch: the pages it has to wait for are inside.
LEMMA FetchInv ==
  ASSUME CInv, NEW p \in Procs, At(p, "user"),
         NEW what \in {"int", "block", "string"},
         NEW where \in SUBSET Nat, \A v \in where : v * PGSIZE < sz[p],
         Fetch(p, what, where), UNCHANGED vars
  PROVE  CInv'
<1>1. MInv'
  BY StutterInv DEF CInv
<1>2. UNCHANGED <<state, sz, at, local, pages>>
  BY DEF vars, space
<1>3. state[p] = "live" /\ at[p] = "user" /\ at[p] \notin Forking /\ at[p] \notin Growing
  BY DEF At, Forking, Growing
<1>4. /\ call' = [call EXCEPT ![p] = what] /\ touch' = [touch EXCEPT ![p] = where \ pages[p]]
      /\ where \ pages[p] \in SUBSET Nat
  BY DEF Fetch
<1>5. Calls'
  BY <1>2, <1>3, <1>4 DEF CInv, Calls
<1>6. KernelStaysInside'
  <2>1. touch'[p] \subseteq where /\ \A q \in Procs : q # p => touch'[q] = touch[q]
    BY <1>4 DEF CInv, Calls
  <2> QED
    BY <1>2, <2>1 DEF CInv, KernelStaysInside
<1> QED
  BY <1>1, <1>5, <1>6 DEF CInv

\* A call is over: the memory of the process may have changed with it.
LEMMA AnswerInv ==
  ASSUME CInv, MInv', NEW p \in Procs, Answer(p),
         at'[p] \in Growing => local'[p].by # "kernel",
         \A q \in Procs : q # p =>
           state'[q] = state[q] /\ sz'[q] = sz[q] /\ at'[q] = at[q] /\ local'[q] = local[q]
  PROVE  CInv'
<1>1. /\ call' = [call EXCEPT ![p] = "none"] /\ touch' = [touch EXCEPT ![p] = {}]
  BY DEF Answer
<1>2. Calls'
  BY <1>1 DEF CInv, Calls
<1>3. KernelStaysInside'
  <2>1. touch'[p] = {} /\ \A q \in Procs : q # p => touch'[q] = touch[q]
    BY <1>1 DEF CInv, Calls
  <2> QED
    BY <2>1 DEF CInv, KernelStaysInside
<1> QED
  BY <1>2, <1>3 DEF CInv

\* A step that is not one of the call itself, but perhaps of a page fault in it.
LEMMA OtherInv ==
  ASSUME CInv, MInv', UNCHANGED request,
         \A q \in Procs : call[q] # "none" =>
           /\ state'[q] = "live" /\ at'[q] \notin Forking /\ sz'[q] = sz[q]
           /\ at'[q] \in Growing => local'[q].by = "kernel",
         \A q \in Procs : call[q] = "none" /\ at'[q] \in Growing => local'[q].by # "kernel"
  PROVE  CInv'
<1>1. call' = call /\ touch' = touch
  BY DEF request
<1>2. Calls'
  BY <1>1 DEF CInv, Calls
<1>3. KernelStaysInside'
  BY <1>1 DEF CInv, Calls, KernelStaysInside
<1> QED
  BY <1>2, <1>3 DEF CInv

\* Whom a step of allocuvm's loop leaves alone.
LEMMA AllocOthers ==
  ASSUME TypeOK, NEW p \in Procs, AllocPage(p) \/ AllocMap(p)
  PROVE  /\ \A q \in Procs : q # p => /\ state'[q] = state[q] /\ sz'[q] = sz[q]
                                      /\ at'[q] = at[q] /\ local'[q] = local[q]
         /\ at'[p] \notin Forking /\ at[p] \in Growing
         /\ at'[p] \in Growing => local'[p].by = local[p].by
         /\ local[p].by = "kernel" => state'[p] = state[p] /\ sz'[p] = sz[p]
<1>1. at[p] \in Growing /\ at[p] \notin Forking
  BY DEF AllocPage, AllocMap, At, Growing, Forking
<1>2. CASE RollBack(p, 0) \/ RollBack(p, 1)
  BY <1>1, <1>2 DEF RollBack, Failed, Die, Return, Goto, TypeOK, Forking, Growing
<1>3. CASE Panic("remap")
  BY <1>1, <1>3 DEF Panic, space
<1>4. CASE Succeeded(p, local[p].by, local[p].new)
  BY <1>1, <1>4 DEF Succeeded, Return, Goto, TypeOK, Forking, Growing
<1>5. CASE /\ Goto(p, "alloc") \/ Goto(p, "map")
           /\ \/ local' = [local EXCEPT ![p].mem = TRUE]
              \/ local' = [local EXCEPT ![p].a = local[p].a + 1, ![p].mem = FALSE]
           /\ UNCHANGED <<state, sz>>
  <2>1. local'[p].by = local[p].by /\ \A q \in Procs : q # p => local'[q] = local[q]
    <3>1. local[p] \in LocalVars
      BY LocalType
    <3>2. CASE local' = [local EXCEPT ![p].mem = TRUE]
      <4>1. local'[p] = [local[p] EXCEPT !.mem = TRUE]
        BY <3>2 DEF TypeOK
      <4>2. local'[p].by = local[p].by
        BY <3>1, <4>1 DEF LocalVars
      <4> QED
        BY <3>2, <4>2 DEF TypeOK
    <3>3. CASE local' = [local EXCEPT ![p].a = local[p].a + 1, ![p].mem = FALSE]
      <4>1. local'[p] = [local[p] EXCEPT !.a = local[p].a + 1, !.mem = FALSE]
        BY <3>3 DEF TypeOK
      <4>2. local'[p].by = local[p].by
        BY <3>1, <4>1 DEF LocalVars
      <4> QED
        BY <3>3, <4>2 DEF TypeOK
    <3> QED
      BY <1>5, <3>2, <3>3
  <2> QED
    BY <1>1, <1>5, <2>1 DEF Goto, TypeOK, Forking, Growing
<1> QED
  BY <1>2, <1>3, <1>4, <1>5 DEF AllocPage, AllocMap, space

\* A fork concerns its process and the child, which lives only at the end.
LEMMA ForkOthers ==
  ASSUME MInv, NEW p \in Procs,
         \/ ForkStack(p) \/ ForkKvm(p) \/ CopyPage(p) \/ CopyMap(p) \/ ForkPublish(p)
         \/ \E q \in Procs : ForkSlot(p, q)
  PROVE  /\ \A q \in Procs : q # p => at'[q] = at[q] /\ local'[q] = local[q]
         /\ at'[p] \notin Growing
         /\ \A q \in Procs : state[q] = "live" => state'[q] = "live" /\ sz'[q] = sz[q]
<1>1. TypeOK /\ state[p] = "live" /\ (at[p] \in Forking \/ at[p] = "user")
  BY DEF MInv, ForkStack, ForkKvm, CopyPage, CopyMap, ForkPublish, ForkSlot, At, Forking
<1>2. at[p] \in Forking => local[p].np \in Procs /\ state[local[p].np] = "embryo"
  BY <1>1, ForkState
<1>3. CASE \E q \in Procs : ForkSlot(p, q)
  BY <1>1, <1>3 DEF ForkSlot, Goto, TypeOK, Growing, space
<1>4. CASE at[p] \in Forking /\ (ForkFails(p, 0) \/ ForkFails(p, 1))
  BY <1>1, <1>2, <1>4 DEF ForkFails, freevm, Return, Goto, TypeOK, Growing
<1>5. CASE ForkPublish(p)
  BY <1>1, <1>2, <1>5 DEF ForkPublish, Return, Goto, TypeOK, Growing, At, Forking
<1>6. CASE /\ \/ Goto(p, "setupkvm") \/ Goto(p, "copy") \/ Goto(p, "copymap")
           /\ \/ UNCHANGED local
              \/ local' = [local EXCEPT ![p].mem = TRUE]
              \/ local' = [local EXCEPT ![p].a = local[p].a + 1, ![p].mem = FALSE]
           /\ UNCHANGED <<state, sz>>
  BY <1>1, <1>6 DEF Goto, TypeOK, Growing
<1>7. CASE Panic("copyuvm") /\ At(p, "copy")
  BY <1>7 DEF Panic, space, At, Growing
<1>8. CASE Return(p) /\ state' = [state EXCEPT ![local[p].np] = "unused"] /\ sz' = sz
           /\ at[p] \in Forking
  BY <1>1, <1>2, <1>8 DEF Return, Goto, TypeOK, Growing
<1> QED
  BY <1>3, <1>4, <1>5, <1>6, <1>7, <1>8
     DEF ForkStack, ForkKvm, CopyPage, CopyMap, space, At, Forking

\* The calls under way, when a process goes on inside the kernel,
LEMMA CallInKernel ==
  ASSUME CInv, NEW p \in Procs, InKernel(p), UNCHANGED request
  PROVE  CInv'
<1>1. MInv /\ MInv' /\ TypeOK /\ Calls
  BY InKernelInv DEF CInv, MInv
<1>2. CASE AllocPage(p) \/ AllocMap(p)
  BY <1>1, <1>2, AllocOthers, OtherInv DEF Calls
<1>3. CASE ForkStack(p) \/ ForkKvm(p) \/ CopyPage(p) \/ CopyMap(p) \/ ForkPublish(p)
  <2>1. at[p] \in Forking
    BY <1>3 DEF ForkStack, ForkKvm, CopyPage, CopyMap, ForkPublish, At, Forking
  <2>2. /\ \A q \in Procs : q # p => at'[q] = at[q] /\ local'[q] = local[q]
        /\ at'[p] \notin Growing
        /\ \A q \in Procs : state[q] = "live" => state'[q] = "live" /\ sz'[q] = sz[q]
    BY <1>1, <1>3, ForkOthers
  <2> QED
    BY <1>1, <2>1, <2>2, OtherInv DEF Calls
<1> QED
  BY <1>2, <1>3 DEF InKernel

\* when a zombie is freed, which no kernel code waits for,
LEMMA CallReap ==
  ASSUME CInv, NEW q \in Procs, Reap(q), UNCHANGED request
  PROVE  CInv'
<1>1. MInv' /\ TypeOK /\ Calls
  BY ReapInv DEF CInv, MInv
<1>2. /\ state[q] = "zombie" /\ UNCHANGED <<sz, at, local>>
      /\ \A r \in Procs : r # q => state'[r] = state[r]
  BY <1>1 DEF Reap, freevm, TypeOK
<1> QED
  BY <1>1, <1>2, OtherInv DEF Calls

\* and when a process forks or exits, which it does outside of any call.
LEMMA CallProcess ==
  ASSUME CInv, NEW p \in Procs, call[p] = "none", ProcessCall(p), UNCHANGED request
  PROVE  CInv'
<1>1. MInv /\ MInv' /\ TypeOK /\ Calls
  BY ProcessCallInv DEF CInv, MInv
<1>2. CASE \E q \in Procs : ForkSlot(p, q)
  <2>1. /\ \A q \in Procs : q # p => at'[q] = at[q] /\ local'[q] = local[q]
        /\ at'[p] \notin Growing
        /\ \A q \in Procs : state[q] = "live" => state'[q] = "live" /\ sz'[q] = sz[q]
    BY <1>1, <1>2, ForkOthers
  <2> QED
    BY <1>1, <2>1, OtherInv DEF Calls
<1>3. CASE Exit(p)
  <2>1. /\ UNCHANGED <<sz, at, local>> /\ \A r \in Procs : r # p => state'[r] = state[r]
    BY <1>1, <1>3 DEF Exit, TypeOK, space
  <2> QED
    BY <1>1, <2>1, OtherInv DEF Calls
<1> QED
  BY <1>2, <1>3 DEF ProcessCall

\* A page fault of the program or, inside a call, of the kernel.
LEMMA CallFault ==
  ASSUME CInv, NEW p \in Procs, NEW v \in Pages, NEW by \in {"user", "kernel"},
         call[p] = "none" <=> by = "user", Fault(p, v, by), UNCHANGED request
  PROVE  CInv'
<1>1. MInv' /\ TypeOK /\ Calls
  BY FaultInv DEF CInv, MInv
<1>2. CASE allocuvm(p, by, v * PGSIZE, (v + 1) * PGSIZE)
  <2>1. /\ \A q \in Procs : q # p => /\ state'[q] = state[q] /\ sz'[q] = sz[q]
                                     /\ at'[q] = at[q] /\ local'[q] = local[q]
        /\ at'[p] \notin Forking
        /\ at'[p] \in Growing => local'[p].by = by
        /\ by = "kernel" => state'[p] = state[p]
        /\ sz'[p] = sz[p]
    BY <1>1, <1>2, AllocuvmOthers
  <2>2. \A q \in Procs : call[q] # "none" =>
          /\ state'[q] = "live" /\ at'[q] \notin Forking /\ sz'[q] = sz[q]
          /\ at'[q] \in Growing => local'[q].by = "kernel"
    BY <1>1, <2>1 DEF Calls
  <2>3. \A q \in Procs : call[q] = "none" /\ at'[q] \in Growing => local'[q].by # "kernel"
    BY <1>1, <2>1 DEF Calls
  <2> QED
    BY <1>1, <2>2, <2>3, OtherInv
<1>3. CASE by = "user" /\ Die(p) /\ UNCHANGED <<space, nfree>>
  <2>1. /\ UNCHANGED sz /\ at'[p] \notin Growing
        /\ \A q \in Procs : q # p => /\ state'[q] = state[q]
                                     /\ at'[q] = at[q] /\ local'[q] = local[q]
    BY <1>1, <1>3 DEF Die, Return, Goto, TypeOK, space, Growing
  <2> QED
    BY <1>1, <1>3, <2>1, OtherInv DEF Calls
<1> QED
  BY <1>2, <1>3 DEF Fault

\* sbrk and mmap, whose argument the kernel has fetched.
LEMMA CallMemory ==
  ASSUME CInv, NEW p \in Procs, sys_sbrk(p) \/ sys_mmap(p)
  PROVE  CInv'
<1>1. MInv /\ TypeOK /\ Answer(p)
  BY DEF CInv, MInv, sys_sbrk, sys_mmap
<1>2. PICK n \in -KERNBASE .. KERNBASE - 1 : Grow(p, n) \/ Shrink(p, n) \/ mmap(p, n)
  BY Sizes DEF sys_sbrk, sys_mmap
<1>3. MInv' /\ At(p, "user") /\ at[p] \notin Growing
  BY <1>1, <1>2, GrowInv, ShrinkInv, MmapInv DEF Grow, Shrink, mmap, At, Growing
<1>4. CASE Grow(p, n)
  <2>1. allocuvm(p, "sbrk", sz[p], (sz[p] + n) % Word)
    BY <1>4 DEF Grow
  <2> QED
    <3>1. /\ \A q \in Procs : q # p => /\ state'[q] = state[q] /\ sz'[q] = sz[q]
                                       /\ at'[q] = at[q] /\ local'[q] = local[q]
          /\ at'[p] \in Growing => local'[p].by = "sbrk"
      BY <1>1, <2>1, AllocuvmOthers
    <3> QED
      BY <1>1, <1>3, <3>1, AnswerInv
<1>5. CASE Shrink(p, n) \/ mmap(p, n)
  <2>1. /\ UNCHANGED <<state, at, local>> /\ \A q \in Procs : q # p => sz'[q] = sz[q]
    BY <1>1, <1>5 DEF Shrink, mmap, TypeOK
  <2> QED
    BY <1>1, <1>3, <2>1, AnswerInv
<1> QED
  BY <1>2, <1>4, <1>5

\* A call begins: its arguments, or what they point to, have to be fetched.
LEMMA CallFetches ==
  ASSUME CInv, NEW p \in Procs, FetchInt(p) \/ BlockCall(p) \/ argstr(p)
  PROVE  CInv'
<1>1. At(p, "user") /\ UNCHANGED vars
  BY DEF FetchInt, BlockCall, argstr, HasInt
<1>2. sz[p] \in 0 .. KERNBASE /\ sz[p] \in Nat
  BY <1>1, UserMode DEF CInv
<1>3. CASE FetchInt(p)
  <2>1. PICK addr \in argint(p) : Fetch(p, "int", PagesOf(addr, IntSize))
    BY <1>3 DEF FetchInt
  <2>2. addr \in Nat /\ addr < sz[p] /\ (addr + IntSize) % Word <= sz[p]
    BY Sizes DEF argint, fetchint, Addresses
  <2>3. IntSize \in Nat /\ IntSize <= KERNBASE
    BY SyscallAssumption, Sizes
  <2>4. addr + IntSize <= sz[p]
    BY <1>2, <2>2, <2>3, ChecksHold
  <2>5. /\ PagesOf(addr, IntSize) \subseteq Nat
        /\ \A v \in PagesOf(addr, IntSize) : v * PGSIZE < sz[p]
    BY <1>2, <2>2, <2>3, <2>4, InsidePages
  <2> QED
    BY <1>1, <2>1, <2>5, FetchInv
<1>4. CASE BlockCall(p)
  <2>1. PICK i \in Addresses, size \in -1 .. KERNBASE - 1 :
          argptr(p, i, size) /\ Fetch(p, "block", PagesOf(i, size))
    BY <1>4 DEF BlockCall
  <2>2. /\ i \in Nat /\ i < sz[p] /\ (i + size) % Word <= sz[p]
        /\ size \in Nat /\ size <= KERNBASE
    BY <2>1, Sizes DEF argptr, Addresses
  <2>3. i + size <= sz[p]
    BY <1>2, <2>2, ChecksHold
  <2>4. /\ PagesOf(i, size) \subseteq Nat
        /\ \A v \in PagesOf(i, size) : v * PGSIZE < sz[p]
    BY <1>2, <2>2, <2>3, InsidePages
  <2> QED
    BY <1>1, <2>1, <2>4, FetchInv
<1>5. CASE argstr(p)
  <2>1. PICK addr \in Addresses :
          fetchstr(p, addr) /\ Fetch(p, "string", PagesOf(addr, sz[p] - addr))
    BY <1>5 DEF argstr
  <2>2. addr \in Nat /\ sz[p] - addr \in Int /\ addr + (sz[p] - addr) <= sz[p]
    BY <1>2, Sizes DEF Addresses
  <2>3. /\ PagesOf(addr, sz[p] - addr) \subseteq Nat
        /\ \A v \in PagesOf(addr, sz[p] - addr) : v * PGSIZE < sz[p]
    BY <1>2, <2>2, InsidePages
  <2> QED
    BY <1>1, <2>1, <2>3, FetchInv
<1> QED
  BY <1>3, <1>4, <1>5

\* At first no call is under way.
LEMMA CInvInit == InitCalls => CInv
<1> SUFFICES ASSUME InitCalls
             PROVE  CInv
  OBVIOUS
<1>1. MInv /\ \A p \in Procs : at[p] = "user"
  BY MInvInit DEF InitCalls, Init
<1>2. Calls /\ KernelStaysInside
  BY <1>1 DEF InitCalls, Calls, KernelStaysInside, Growing
<1> QED
  BY <1>1, <1>2 DEF CInv

\* Nothing changes.
LEMMA StutterCalls ==
  ASSUME CInv, UNCHANGED allVars
  PROVE  CInv'
<1>1. UNCHANGED vars /\ UNCHANGED request
  BY DEF allVars
<1>2. MInv'
  BY <1>1, StutterInv DEF CInv
<1> QED
  BY <1>1, <1>2 DEF CInv, Calls, KernelStaysInside, vars, space, request

\* Every step keeps the invariant of the calls.
LEMMA CInvNext ==
  ASSUME CInv, [NextCalls]_allVars
  PROVE  CInv'
<1>1. CASE UNCHANGED allVars
  BY <1>1, StutterCalls
<1>2. CASE Halted /\ UNCHANGED request
  BY <1>2, StutterCalls DEF Halted, allVars
<1>3. ASSUME NEW p \in Procs, syscall(p)
      PROVE  CInv'
  BY <1>3, CallProcess, CallFetches, CallMemory DEF syscall
<1>4. ASSUME NEW p \in Procs, KernelFault(p)
      PROVE  CInv'
  <2>1. F!Min(Missing(p)) \in Pages
    BY <1>4, FirstMissing DEF KernelFault
  <2> QED
    BY <1>4, <2>1, CallFault DEF KernelFault
<1>5. ASSUME NEW p \in Procs, CallReturns(p)
      PROVE  CInv'
  <2>1. Answer(p) /\ UNCHANGED vars /\ at[p] = "user"
    BY <1>5 DEF CallReturns, At
  <2>2. MInv' /\ UNCHANGED <<state, sz, at, local>>
    BY <2>1, StutterInv DEF CInv, vars, space
  <2> QED
    BY <2>1, <2>2, AnswerInv DEF Growing
<1>6. ASSUME NEW p \in Procs, UserFault(p)
      PROVE  CInv'
  BY <1>6, CallFault DEF UserFault
<1>7. ASSUME NEW p \in Procs, (InKernel(p) \/ Reap(p)) /\ UNCHANGED request
      PROVE  CInv'
  BY <1>7, CallInKernel, CallReap
<1> QED
  BY <1>1, <1>2, <1>3, <1>4, <1>5, <1>6, <1>7 DEF NextCalls

\* Every state of the program with its system calls is as the inductive
\* invariant says.
THEOREM CallsInvariance == SpecCalls => []CInv
<1> QED
  BY CInvInit, CInvNext, PTL DEF SpecCalls

\* What the kernel touches for a process lies below its size, whatever the
\* arguments are (fetchint, argptr, fetchstr).
THEOREM PointersStayInside == SpecCalls => []KernelStaysInside
<1>1. CInv => KernelStaysInside
  BY DEF CInv
<1> QED
  BY <1>1, CallsInvariance, PTL

\* A step of the program with its system calls is a step of the memory, or
\* leaves it alone.
LEMMA CallsStep ==
  ASSUME CInv, [NextCalls]_allVars
  PROVE  [Next]_vars
<1>1. CASE UNCHANGED vars
  BY <1>1
<1>2. CASE Halted
  BY <1>2 DEF Next
<1>3. ASSUME NEW p \in Procs, MemoryCall(p) \/ ProcessCall(p) \/ InKernel(p) \/ Reap(p)
      PROVE  Next
  BY <1>3 DEF Next
<1>4. ASSUME NEW p \in Procs, syscall(p)
      PROVE  [Next]_vars
  <2>1. CASE sys_mmap(p)
    <3>1. PICK n \in 1 .. KERNBASE - 1 : mmap(p, n)
      BY <2>1 DEF sys_mmap
    <3>2. n \in -KERNBASE .. KERNBASE - 1
      BY <3>1, Sizes
    <3> QED
      BY <1>3, <3>1, <3>2 DEF MemoryCall
  <2>2. CASE sys_sbrk(p)
    BY <1>3, <2>2 DEF sys_sbrk, MemoryCall
  <2>3. CASE ProcessCall(p)
    BY <1>3, <2>3
  <2>4. CASE UNCHANGED vars
    BY <1>1, <2>4
  <2> QED
    BY <1>4, <2>1, <2>2, <2>3, <2>4 DEF syscall, FetchInt, BlockCall, argstr
<1>5. ASSUME NEW p \in Procs, KernelFault(p)
      PROVE  Next
  <2>1. F!Min(Missing(p)) \in Pages
    BY <1>5, FirstMissing DEF KernelFault
  <2>2. MemoryCall(p)
    BY <1>5, <2>1 DEF KernelFault, MemoryCall
  <2> QED
    BY <1>3, <2>2
<1>6. ASSUME NEW p \in Procs, UserFault(p)
      PROVE  Next
  BY <1>3, <1>6 DEF UserFault, MemoryCall
<1>7. ASSUME NEW p \in Procs, CallReturns(p)
      PROVE  UNCHANGED vars
  BY <1>7 DEF CallReturns
<1> QED
  BY <1>1, <1>2, <1>3, <1>4, <1>5, <1>6, <1>7 DEF NextCalls, allVars

\* System calls do with the memory only what UserMemory lets a process do:
\* Syscalls, with the requests hidden, implements UserMemory.
THEOREM CallsUseMemory == SpecCalls => Spec
<1>1. InitCalls => Init
  BY DEF InitCalls
<1>2. CInv /\ [NextCalls]_allVars => [Next]_vars
  BY CallsStep
<1> QED
  BY <1>1, <1>2, CallsInvariance, PTL DEF SpecCalls, Spec

\* So what holds of the memory holds under system calls.
THEOREM MemoryUnderCalls ==
  SpecCalls => []PagesBelowSize /\ FramesConserved /\ PagesKept /\ ChildIsCopy
BY CallsUseMemory, SizeBounds, FramesKept, KeepsItsPages, ForkCopies

-----------------------------------------------------------------------------
(* numvp and numpp *)

\* A number is what the division gives, and the rest.
LEMMA DivMod ==
  ASSUME NEW s \in Nat, NEW k \in Nat, k >= 1
  PROVE  s \div k \in Nat /\ s = (s \div k) * k + (s % k) /\ s % k \in 0 .. k - 1
OBVIOUS

\* A size in pages, rounded up, from the one that is rounded down.
LEMMA RoundUpIs ==
  ASSUME NEW s \in Nat
  PROVE  PGROUNDUP(s) = (s \div PGSIZE) + (IF s % PGSIZE = 0 THEN 0 ELSE 1)
<1> DEFINE d == s \div PGSIZE
           m == s % PGSIZE
<1>1. d \in Nat /\ s = d * PGSIZE + m /\ m \in Nat /\ m < PGSIZE
  BY DivMod, Sizes
<1> HIDE DEF d, m
<1>2. d * PGSIZE \in Nat /\ (d + 1) * PGSIZE = d * PGSIZE + PGSIZE /\ PGROUNDUP(s) \in Nat
  BY <1>1, PageBelow, RoundUp
<1>3. CASE m = 0
  <2>1. s = d * PGSIZE
    BY <1>1, <1>2, <1>3
  <2>2. PGROUNDUP(s) = d
    BY <1>1, <2>1, RoundUpPage
  <2> QED
    BY <1>1, <1>3, <2>2 DEF d, m
<1>4. CASE m # 0
  <2>1. d * PGSIZE < s /\ ~((d + 1) * PGSIZE < s)
    BY <1>1, <1>2, <1>4, Sizes
  <2>2. d < PGROUNDUP(s) /\ ~(d + 1 < PGROUNDUP(s))
    BY <1>1, <2>1, BelowSize
  <2>3. PGROUNDUP(s) = d + 1
    BY <1>1, <1>2, <2>2
  <2> QED
    BY <1>4, <2>3 DEF d, m
<1> QED
  BY <1>3, <1>4

\* The pages below the size, present or not, are the first PGROUNDUP(sz).
LEMMA CountsFollow ==
  ASSUME MInv
  PROVE  CountsAgree
<1> SUFFICES ASSUME NEW p \in Procs, At(p, "user")
             PROVE  numpp(p) + Cardinality({v \in Pages \ pages[p] : v * PGSIZE < sz[p]})
                      = numvp(p) + (IF sz[p] % PGSIZE = 0 THEN 0 ELSE 1)
  BY DEF CountsAgree
<1> DEFINE k == PGROUNDUP(sz[p])
           rest == {v \in Pages \ pages[p] : v * PGSIZE < sz[p]}
<1>1. /\ TypeOK /\ sz[p] \in Nat /\ sz[p] <= KERNBASE /\ pages[p] \subseteq Pages
      /\ \A v \in pages[p] : v \in Nat /\ PDX(v) \in tables[p] /\ v * PGSIZE < sz[p]
  BY UserMode, Sizes
<1>2. k \in Nat /\ \A v \in Nat : v * PGSIZE < sz[p] <=> v < k
  BY <1>1, RoundUp, BelowSize
<1>3. numpp(p) = Cardinality(pages[p])
  <2>1. \A v \in pages[p] : PDX(v) \in tables[p] /\ PDX(v) < NPDE
    BY <1>1, TableOf, Sizes
  <2>2. {v \in pages[p] : PDX(v) \in tables[p] /\ PDX(v) < NPDE} = pages[p]
    BY <2>1
  <2> QED
    BY <2>2 DEF numpp
<1> HIDE DEF k
<1>4. pages[p] \cup rest = 0 .. k - 1 /\ pages[p] \cap rest = {} /\ rest \subseteq Pages
  <2>1. \A v \in Nat : v < k => v \in Pages
    <3> SUFFICES ASSUME NEW v \in Nat, v < k
                 PROVE  v \in Pages
      OBVIOUS
    <3>1. v * PGSIZE < KERNBASE
      BY <1>1, <1>2, PageBelow, Sizes
    <3> QED
      BY <3>1, PageBelow
  <2>2. 0 .. k - 1 \subseteq Pages
    BY <1>2, <2>1
  <2>3. \A v \in Pages : v \in 0 .. k - 1 <=> v * PGSIZE < sz[p]
    BY <1>2 DEF Pages
  <2>4. pages[p] \subseteq 0 .. k - 1
    BY <1>1, <2>3
  <2>5. rest = {v \in Pages \ pages[p] : v \in 0 .. k - 1}
    BY <2>3 DEF rest
  <2> QED
    BY <1>1, <2>2, <2>4, <2>5
<1> HIDE DEF rest
<1>5. /\ IsFiniteSet(pages[p]) /\ IsFiniteSet(rest)
      /\ Cardinality(pages[p]) \in Nat /\ Cardinality(rest) \in Nat
  BY <1>1, <1>4, PagesFinite
<1>6. Cardinality(0 .. k - 1) = k
  BY <1>2, FS_Interval
<1>7. Cardinality(pages[p]) + Cardinality(rest) = k
  <2>1. Cardinality(pages[p] \cup rest)
          = Cardinality(pages[p]) + Cardinality(rest) - Cardinality(pages[p] \cap rest)
    BY <1>5, FS_Union
  <2>2. Cardinality(pages[p] \cap rest) = 0
    BY <1>4, FS_EmptySet
  <2>3. Cardinality(pages[p] \cup rest) = k
    BY <1>4, <1>6
  <2> QED
    BY <1>5, <2>1, <2>2, <2>3
<1>8. k = (sz[p] \div PGSIZE) + (IF sz[p] % PGSIZE = 0 THEN 0 ELSE 1)
  BY <1>1, RoundUpIs DEF k
<1> QED
  BY <1>3, <1>7, <1>8 DEF numvp, rest

\* numvp and numpp differ by the pages that were promised (getNumvpages, getNumppages).
THEOREM CountsDiffer == SpecCalls => []CountsAgree
<1>1. CInv => CountsAgree
  BY CountsFollow DEF CInv
<1> QED
  BY <1>1, CallsInvariance, PTL

-----------------------------------------------------------------------------
(* Panics *)

Trapped == panicked' = "trap" /\ panicked = "no"

\* The loop of allocuvm fails only for want of a frame.
LEMMA KernelTraps ==
  ASSUME NEW p \in Procs, InKernel(p), Trapped
  PROVE  nfree = 0
<1>1. CASE AllocPage(p)
  BY <1>1 DEF AllocPage, Trapped
<1>2. CASE AllocMap(p)
  BY <1>2 DEF AllocMap, Panic, Succeeded, Trapped
<1>3. CASE ForkStack(p) \/ ForkKvm(p) \/ CopyPage(p) \/ CopyMap(p) \/ ForkPublish(p)
  BY <1>3 DEF ForkStack, ForkKvm, CopyPage, CopyMap, ForkPublish, ForkFails, Panic, Trapped
<1> QED
  BY <1>1, <1>2, <1>3 DEF InKernel

\* Beyond that allocuvm fails only for the page that ends at KERNBASE.
LEMMA FaultTraps ==
  ASSUME NEW p \in Procs, NEW v \in Pages, NEW by \in {"user", "kernel"},
         Fault(p, v, by), Trapped
  PROVE  by = "kernel" /\ v = NumPages - 1
<1>1. ~Die(p) /\ ~(by = "user" /\ Failed(p, by))
  BY DEF Die, Failed, Trapped
<1>2. allocuvm(p, by, v * PGSIZE, (v + 1) * PGSIZE)
  BY <1>1 DEF Fault
<1>3. by = "kernel" /\ TooBig((v + 1) * PGSIZE)
  BY <1>1, <1>2 DEF allocuvm, Succeeded, Trapped
<1>4. (v + 1) * PGSIZE >= KERNBASE /\ v \in Nat /\ v < NumPages /\ v + 1 \in Nat
  BY <1>3, Sizes DEF TooBig, Pages
<1>5. ~(v + 1 \in Pages)
  <2>1. (v + 1) * PGSIZE \in Nat /\ (v + 1 \in Pages <=> (v + 1) * PGSIZE < KERNBASE)
    BY <1>4, PageBelow
  <2> QED
    BY <1>4, <2>1, Sizes
<1> QED
  BY <1>3, <1>4, <1>5, Sizes DEF Pages

\* Only a fault of the kernel itself that finds no memory is a trap.
LEMMA CallTraps ==
  ASSUME CInv, NextCalls, Trapped
  PROVE  nfree = 0 \/ \E p \in Procs : KernelFault(p) /\ Missing(p) = {NumPages - 1}
<1>1. panicked' # panicked
  BY DEF Trapped
<1>2. ~Halted
  BY <1>1 DEF Halted, vars
<1>3. PICK p \in Procs : \/ syscall(p) \/ KernelFault(p) \/ CallReturns(p) \/ UserFault(p)
                         \/ (InKernel(p) \/ Reap(p)) /\ UNCHANGED request
  BY <1>2 DEF NextCalls
<1>4. CASE InKernel(p)
  BY <1>4, KernelTraps
<1>5. CASE KernelFault(p)
  <2>1. F!Min(Missing(p)) \in Missing(p) /\ F!Min(Missing(p)) \in Pages
    BY <1>5, FirstMissing DEF KernelFault
  <2>2. F!Min(Missing(p)) = NumPages - 1
    BY <1>5, <2>1, FaultTraps DEF KernelFault
  <2>3. \A v \in Missing(p) : v \in 0 .. NumPages - 1 /\ F!Min(Missing(p)) <= v
    BY <1>5, FirstMissing DEF KernelFault, Pages
  <2>4. Missing(p) = {NumPages - 1}
    BY <2>1, <2>2, <2>3, Sizes
  <2> QED
    BY <1>5, <2>4
<1>6. ~UserFault(p)
  <2> SUFFICES ASSUME UserFault(p)
               PROVE  FALSE
    OBVIOUS
  <2>1. PICK v \in Pages : Fault(p, v, "user")
    BY DEF UserFault
  <2> QED
    BY <2>1, FaultTraps
<1>7. ~Reap(p) /\ ~CallReturns(p) /\ ~FetchInt(p) /\ ~BlockCall(p) /\ ~argstr(p) /\ ~sys_mmap(p)
  BY <1>1 DEF Reap, CallReturns, FetchInt, BlockCall, argstr, sys_mmap, mmap, vars
<1>8. ~ProcessCall(p)
  BY <1>1 DEF ProcessCall, ForkSlot, Exit
<1>9. ~sys_sbrk(p)
  <2> SUFFICES ASSUME NEW n \in -KERNBASE .. KERNBASE - 1
               PROVE  ~Grow(p, n) /\ ~Shrink(p, n)
    BY DEF sys_sbrk
  <2>1. ~Shrink(p, n)
    BY <1>1 DEF Shrink
  <2>2. ~Grow(p, n)
    BY <1>1 DEF Grow, allocuvm, Failed, Succeeded
  <2> QED
    BY <2>1, <2>2
<1> QED
  BY <1>3, <1>4, <1>5, <1>6, <1>7, <1>8, <1>9 DEF syscall

\* A checked pointer takes the kernel down only when a promised page cannot be
\* had, for want of a frame or because it is the last one (trap, allocuvm).
THEOREM TrapsExplained == SpecCalls => TrapOnlyWithoutMemory
<1>1. CInv /\ [NextCalls]_allVars =>
        [panicked' = "trap" /\ panicked = "no" =>
           nfree = 0 \/ \E p \in Procs : KernelFault(p) /\ Missing(p) = {NumPages - 1}]_allVars
  BY CallTraps DEF Trapped
<1> QED
  BY <1>1, CallsInvariance, PTL DEF SpecCalls, TrapOnlyWithoutMemory
=============================================================================
