------------------------------ MODULE Syscalls ------------------------------
(***************************************************************************)
(* Lab-3 syscall.c on top of UserMemory: a process traps into the kernel,  *)
(* the kernel fetches the arguments from the user stack, checks them       *)
(* against sz, and reads or writes the memory they point to.  Below sz     *)
(* there are holes that mmap has promised: the kernel's own access faults  *)
(* and is served by the page fault handler like one of the program.        *)
(*                                                                         *)
(* Addresses are words, and the arithmetic of the checks wraps around.     *)
(* esp and every argument may be any word.  A call that fails its checks   *)
(* returns -1 and changes nothing.                                         *)
(***************************************************************************)
EXTENDS UserMemory

F == INSTANCE FiniteSetsExt

CONSTANTS
  IntSize,     \* bytes of an int
  Callers      \* bound: the processes whose arguments and pointers may be anywhere

ASSUME SyscallAssumption == IntSize \in 1 .. KERNBASE /\ Callers \subseteq Procs

VARIABLES
  call,      \* what the kernel fetches for the process, if it has to wait for memory
  touch      \* the pages it has to touch for that and that were not there

request == <<call, touch>>
allVars == <<vars, request>>

Addresses == 0 .. Word - 1

InitCalls ==
  /\ Init
  /\ call = [p \in Procs |-> "none"]
  /\ touch = [p \in Procs |-> {}]

\* The page numbers of len bytes from address a; from KERNBASE on they are
\* those of the kernel.
PagesOf(a, len) == {(b % Word) \div PGSIZE : b \in a .. a + len - 1}

Missing(p) == touch[p] \ pages[p]

\* The kernel begins to touch these pages of p, some of which are not there.
Fetch(p, what, where) ==
  /\ where \ pages[p] # {}
  /\ call' = [call EXCEPT ![p] = what]
  /\ touch' = [touch EXCEPT ![p] = where \ pages[p]]

Answer(p) ==
  /\ call' = [call EXCEPT ![p] = "none"]
  /\ touch' = [touch EXCEPT ![p] = {}]

-----------------------------------------------------------------------------
(* the checks *)

\* Mutant: the end of the int is compared, its address is not.
fetchint_EndOnly(p, addr) == (addr + IntSize) % Word <= sz[p]

fetchint(p, addr) == addr < sz[p] /\ (addr + IntSize) % Word <= sz[p]

\* Where an argument can be: esp is any word, and so is esp + 4 + 4 * n.
argint(p) == {addr \in Addresses : fetchint(p, addr)}

argptr(p, i, size) == size >= 0 /\ i < sz[p] /\ (i + size) % Word <= sz[p]

fetchstr(p, addr) == addr < sz[p]

-----------------------------------------------------------------------------
(* system calls *)

\* A system call with arguments begins with an int from the user stack.
FetchInt(p) ==
  /\ At(p, "user") /\ call[p] = "none" /\ p \in Callers
  /\ \E addr \in argint(p) : Fetch(p, "int", PagesOf(addr, IntSize))
  /\ UNCHANGED vars

\* The int is there: at once, or after page faults.
HasInt(p) ==
  /\ At(p, "user")
  /\ \/ call[p] = "none" /\ \E addr \in argint(p) : PagesOf(addr, IntSize) \subseteq pages[p]
     \/ call[p] = "int" /\ Missing(p) = {}

\* The kernel touches a page that is not there.
KernelFault(p) ==
  /\ call[p] # "none" /\ Missing(p) # {}
  /\ Fault(p, F!Min(Missing(p)), "kernel")
  /\ UNCHANGED request

sys_sbrk(p) ==
  /\ HasInt(p)
  /\ \E n \in -KERNBASE .. KERNBASE - 1 : Grow(p, n) \/ Shrink(p, n)
  /\ Answer(p)

sys_mmap(p) ==
  /\ HasInt(p)
  /\ \E n \in 1 .. KERNBASE - 1 : mmap(p, n)
  /\ Answer(p)

\* A handler with argptr reads or writes the block that the int points to.
BlockCall(p) ==
  /\ HasInt(p) /\ p \in Callers
  /\ \E i \in Addresses, size \in -1 .. KERNBASE - 1 :
       argptr(p, i, size) /\ Fetch(p, "block", PagesOf(i, size))
  /\ UNCHANGED vars

\* The int is the address of a string, scanned up to sz.
argstr(p) ==
  /\ HasInt(p) /\ p \in Callers
  /\ \E addr \in Addresses :
       fetchstr(p, addr) /\ Fetch(p, "string", PagesOf(addr, sz[p] - addr))
  /\ UNCHANGED vars

\* The handler has done what it had to with its argument.  A scan may meet
\* the nul before the next page that is not there.
CallReturns(p) ==
  /\ At(p, "user") /\ call[p] # "none"
  /\ Missing(p) = {} \/ call[p] = "string"
  /\ Answer(p)
  /\ UNCHANGED vars

\* The number selects the handler.  Those without effect on the memory are
\* left out.
syscall(p) ==
  \/ call[p] = "none" /\ ProcessCall(p) /\ UNCHANGED request
  \/ FetchInt(p) \/ sys_sbrk(p) \/ sys_mmap(p) \/ BlockCall(p) \/ argstr(p)

\* The program itself touches memory.
UserFault(p) ==
  /\ call[p] = "none"
  /\ \E v \in Pages : Fault(p, v, "user")
  /\ UNCHANGED request

NextCalls ==
  \/ \E p \in Procs : \/ syscall(p) \/ KernelFault(p) \/ CallReturns(p) \/ UserFault(p)
                      \/ (InKernel(p) \/ Reap(p)) /\ UNCHANGED request
  \/ Halted /\ UNCHANGED request

SpecCalls == InitCalls /\ [][NextCalls]_allVars

-----------------------------------------------------------------------------
(* numvp and numpp *)

\* The size in pages, rounded down.
numvp(p) == sz[p] \div PGSIZE

\* Mutant: the last page table of the lower half is not counted.
numpp_OneTableShort(p) ==
  Cardinality({v \in pages[p] : PDX(v) \in tables[p] /\ PDX(v) < NPDE - 1})

\* The present entries of the page tables in the lower half of the directory.
numpp(p) == Cardinality({v \in pages[p] : PDX(v) \in tables[p] /\ PDX(v) < NPDE})

-----------------------------------------------------------------------------
(* Properties *)

\* Whatever esp and the arguments are, the kernel touches on behalf of a
\* process only pages of that process, below its size: "Check that the
\* pointer lies within the process address space" (syscall.c:56-58).  No sum
\* wraps around into the memory of the kernel.
KernelStaysInside ==
  \A p \in Procs : \A v \in touch[p] : v * PGSIZE < sz[p]

\* A pointer that has passed the checks takes the kernel down only if there
\* is no memory for a page that was promised, or if the kernel touches the very
\* last page, which mmap grants (proc.c:580) and allocuvm refuses (vm.c:227).
TrapOnlyWithoutMemory ==
  [][panicked' = "trap" /\ panicked = "no" =>
       nfree = 0 \/ \E p \in Procs : KernelFault(p) /\ Missing(p) = {NumPages - 1}]_allVars

\* numvp and numpp differ by the pages that were promised and have not been
\* touched; only a size in the middle of a page makes numvp one less.
CountsAgree ==
  \A p \in Procs : At(p, "user") =>
    numpp(p) + Cardinality({v \in Pages \ pages[p] : v * PGSIZE < sz[p]})
      = numvp(p) + (IF sz[p] % PGSIZE = 0 THEN 0 ELSE 1)
=============================================================================
