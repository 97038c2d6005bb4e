------------------------------ MODULE ProcInfo ------------------------------
(***************************************************************************)
(* The queries of Lab-2 (proc.c: getNumProc, getMaxPid, getProcInfo) while *)
(* the process table changes, as testcases/testprocinfo.c makes them: it   *)
(* prints getNumProc(), counts i up to getMaxPid(), and prints a line if   *)
(* getProcInfo(i) finds a process.                                         *)
(*                                                                         *)
(* Each query holds ptable.lock for one scan of the table, getProcInfo for *)
(* two: its own, and before it that of getMaxPid.  One process, lister,    *)
(* runs this program; all others do what ProcTable lets them do.           *)
(***************************************************************************)
EXTENDS ProcTable

F == INSTANCE FiniteSetsExt

CONSTANT
  Listers      \* the slots of processes that may run the program

ASSUME ListersAssumption == Listers \subseteq Slots \ {initproc}

VARIABLES
  lister,      \* the process that runs the program
  step,        \* its next scan: that of the loop, or one of getProcInfo's
  i,           \* its loop counter
  printed,     \* the pids of its lines
  total,       \* what getNumProc told it
  born         \* history: nextpid at that time

count == <<total, born>>
listing == <<lister, step, i, printed, count>>
allVars == <<vars, listing>>

InitListing == Init /\ lister = Null /\ step = "none" /\ i = 1 /\ printed = {}
               /\ total = 0 /\ born = 0

-----------------------------------------------------------------------------

Active == {p \in Slots : state[p] # "UNUSED"}

\* The number of slots in use.
getNumProc == Cardinality(Active)

\* The greatest pid in use; init is always there.
getMaxPid == F!Max({pid[p] : p \in Active})

\* The program is started by a process that has not been killed, and counts.
Begin(p) ==
  /\ InUser(p) /\ lock = Null
  /\ lister = Null
  /\ lister' = p
  /\ total' = getNumProc /\ born' = nextpid
  /\ step' = "loop"
  /\ UNCHANGED <<vars, i, printed>>

\* The test of the loop.
LoopTest ==
  /\ step = "loop" /\ InUser(lister) /\ lock = Null
  /\ step' = IF i <= getMaxPid THEN "range" ELSE "end"
  /\ UNCHANGED <<vars, lister, i, printed, count>>

\* Mutant: an off-by-one in the test for a pid that is too great.
InfoRange_OffByOne ==
  /\ step = "range" /\ InUser(lister) /\ lock = Null
  /\ \/ i >= getMaxPid /\ step' = "loop" /\ i' = i + 1 /\ UNCHANGED vars
     \/ /\ i < getMaxPid /\ step' = "scan"
        /\ Goto(lister, "info")
        /\ UNCHANGED <<table, memory, nextpid, child, panicked, lock, i>>
  /\ UNCHANGED <<lister, printed, count>>

\* getProcInfo(i): a pid greater than any other is refused.
InfoRange ==
  /\ step = "range" /\ InUser(lister) /\ lock = Null
  /\ \/ i > getMaxPid /\ step' = "loop" /\ i' = i + 1 /\ UNCHANGED vars
     \/ /\ i <= getMaxPid /\ step' = "scan"
        /\ Goto(lister, "info")
        /\ UNCHANGED <<table, memory, nextpid, child, panicked, lock, i>>
  /\ UNCHANGED <<lister, printed, count>>

\* Mutant: the scan compares pids only.
InfoScan_AnySlot ==
  /\ step = "scan" /\ At(lister, "info") /\ lock = Null
  /\ printed' = IF \E q \in Slots : pid[q] = i THEN printed \cup {i} ELSE printed
  /\ Goto(lister, "user")
  /\ step' = "loop" /\ i' = i + 1
  /\ UNCHANGED <<table, memory, nextpid, child, panicked, lock, lister, count>>

\* getProcInfo(i): the scan, and a line of output if it finds the process.
InfoScan ==
  /\ step = "scan" /\ At(lister, "info") /\ lock = Null
  /\ printed' = IF \E q \in Active : pid[q] = i THEN printed \cup {i} ELSE printed
  /\ Goto(lister, "user")
  /\ step' = "loop" /\ i' = i + 1
  /\ UNCHANGED <<table, memory, nextpid, child, panicked, lock, lister, count>>

\* After the loop, or when it is killed, the program ends.
ListerExit ==
  /\ lister # Null /\ (step = "end" \/ killed[lister])
  /\ Exit(lister)
  /\ lister' = Null /\ step' = "none" /\ i' = 1 /\ printed' = {}
  /\ total' = 0 /\ born' = 0

Listing == \/ \E p \in Listers : Begin(p)
           \/ LoopTest \/ InfoRange \/ InfoScan \/ ListerExit

\* Everything else; the program does nothing of its own in the meantime.
Others ==
  /\ \/ \E p \in Slots : \/ Schedule(p) \/ Yield(p) \/ ForkStep(p) \/ WaitStep(p)
                         \/ p # lister /\ (Syscall(p) \/ Exit(p))
     \/ ExitInit \/ Halted
  /\ UNCHANGED listing

NextListing == Listing \/ Others

SpecListing == InitListing /\ [][NextListing]_allVars

-----------------------------------------------------------------------------
(* Properties *)

\* The list is complete although every line of it is asked for separately
\* and processes come and go meanwhile: each process whose pid the loop has
\* passed is on it.  When the loop ends it has passed all of them.
ListingComplete == \A q \in Active : pid[q] < i => pid[q] \in printed

\* The list agrees with the count: there are no more lines than processes
\* counted before and created since, whatever pids the slots of failed forks
\* and of reaped processes still carry (proc.c:196-200, 612).
ListingCounted == Cardinality(printed) <= total + (nextpid - born)
=============================================================================
