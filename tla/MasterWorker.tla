---------------------------- MODULE MasterWorker ----------------------------
(***************************************************************************)
(* Lab-4 master-worker.c: num_masters producer threads and num_workers     *)
(* consumer threads share a bounded buffer (used as a stack) under one     *)
(* mutex and two condition variables.  Every thread runs its loop one      *)
(* labelled step at a time; pc[t] names the statement it runs next.        *)
(*                                                                         *)
(* The POSIX calls are modelled by their contract: pthread_cond_wait       *)
(* releases the mutex and blocks in one step, pthread_cond_signal unblocks *)
(* one waiter if there is any, a waiter may also wake up spuriously, and   *)
(* a woken waiter competes for the mutex like everybody else.              *)
(***************************************************************************)
EXTENDS Integers, FiniteSets

CONSTANTS
  Masters,       \* the threads that run generate_requests_loop
  Workers,       \* the threads that run consume_requests_loop
  total_items,   \* argv[1]
  max_buf_size,  \* argv[2]
  NoThread       \* the owner of a free mutex

ASSUME ThreadsAssumption ==
  /\ Masters # {} /\ Workers # {}
  /\ Masters \cap Workers = {}
  /\ NoThread \notin Masters \cup Workers

ASSUME SizesAssumption ==
  /\ total_items \in Nat
  /\ max_buf_size \in Nat \ {0}

VARIABLES
  pc,               \* what each thread does next
  mutex,            \* the thread that holds the mutex, or NoThread
  item_to_produce,
  curr_buf_size,
  buffer,
  prod,             \* how often "Produced i" was printed
  cons,             \* how often "Consumed i" was printed
  joined,           \* the threads main has joined
  freed             \* main has freed the buffer

sharedVars == <<item_to_produce, curr_buf_size, buffer, prod, cons>>
mainVars == <<joined, freed>>
vars == <<pc, mutex, sharedVars, mainVars>>

Threads == Masters \cup Workers
Items == 0 .. total_items - 1
Slots == 0 .. max_buf_size - 1
Junk == -1                       \* what malloc leaves in a slot

\* The statements executed with the mutex held, and without it.
Critical == {"top", "full", "recheck", "put", "empty", "take", "unlock", "exit"}
Outside == {"new", "lock", "waiting", "wakeup", "done"}

Init ==
  /\ pc = [t \in Threads |-> "new"]
  /\ mutex = NoThread
  /\ item_to_produce = 0
  /\ curr_buf_size = 0
  /\ buffer = [k \in Slots |-> Junk]
  /\ prod = [i \in Items |-> 0]
  /\ cons = [i \in Items |-> 0]
  /\ joined = {}
  /\ freed = FALSE

-----------------------------------------------------------------------------
(* pthread mutex and condition variables *)

Goto(t, label) == pc' = [pc EXCEPT ![t] = label]

\* The masters wait on write_available, the workers on read_available.
Waiting(S) == {t \in S : pc[t] = "waiting"}

Lock(t, from, to) ==
  /\ pc[t] = from
  /\ mutex = NoThread
  /\ mutex' = t
  /\ Goto(t, to)
  /\ UNCHANGED <<sharedVars, mainVars>>

Unlock(t, from, to) ==
  /\ pc[t] = from
  /\ mutex' = NoThread
  /\ Goto(t, to)
  /\ UNCHANGED <<sharedVars, mainVars>>

\* pthread_cond_wait up to the point where the thread is blocked.
Block(t) ==
  /\ mutex' = NoThread
  /\ Goto(t, "waiting")
  /\ UNCHANGED sharedVars

\* pthread_cond_signal to the waiters among S, then go on at label.
SignalAndGoto(t, S, label) ==
  \/ /\ Waiting(S) = {}
     /\ Goto(t, label)
  \/ \E w \in Waiting(S) : pc' = [pc EXCEPT ![t] = label, ![w] = "wakeup"]

\* A waiter returns from pthread_cond_wait although nobody signalled.
SpuriousWakeup(t) ==
  /\ pc[t] = "waiting"
  /\ Goto(t, "wakeup")
  /\ UNCHANGED <<mutex, sharedVars, mainVars>>

-----------------------------------------------------------------------------
(* generate_requests_loop *)

MasterLock(m) == Lock(m, "lock", "top")

\* Mutant: a master that finds production over leaves without a signal.
MasterTop_NoSignal(m) ==
  /\ pc[m] = "top"
  /\ Goto(m, IF item_to_produce >= total_items THEN "exit" ELSE "full")
  /\ UNCHANGED <<mutex, sharedVars, mainVars>>

\* The stopping condition at the head of the loop.
MasterTop(m) ==
  /\ pc[m] = "top"
  /\ \/ /\ item_to_produce >= total_items
        /\ SignalAndGoto(m, Masters, "exit")
     \/ /\ item_to_produce < total_items
        /\ Goto(m, "full")
  /\ UNCHANGED <<mutex, sharedVars, mainVars>>

\* The condition of the inner while, and the wait in its body.
MasterFull(m) ==
  /\ pc[m] = "full"
  /\ \/ /\ curr_buf_size >= max_buf_size
        /\ Block(m)
     \/ /\ curr_buf_size < max_buf_size
        /\ Goto(m, "put")
        /\ UNCHANGED <<mutex, sharedVars>>
  /\ UNCHANGED mainVars

MasterWakeup(m) == Lock(m, "wakeup", "recheck")

\* After the wait: the last item may have been produced meanwhile.
MasterRecheck(m) ==
  /\ pc[m] = "recheck"
  /\ \/ /\ item_to_produce >= total_items
        /\ SignalAndGoto(m, Masters, "exit")
     \/ /\ item_to_produce < total_items
        /\ Goto(m, "full")
  /\ UNCHANGED <<mutex, sharedVars, mainVars>>

\* Mutant: the counter is advanced before the item is stored.
MasterPut_AdvanceFirst(m) ==
  /\ pc[m] = "put"
  /\ item_to_produce' = item_to_produce + 1
  /\ buffer' = [buffer EXCEPT ![curr_buf_size] = item_to_produce']
  /\ curr_buf_size' = curr_buf_size + 1
  /\ prod' = [prod EXCEPT ![item_to_produce] = @ + 1]
  /\ SignalAndGoto(m, Workers, "unlock")
  /\ UNCHANGED <<mutex, cons, mainVars>>

MasterPut(m) ==
  /\ pc[m] = "put"
  /\ buffer' = [buffer EXCEPT ![curr_buf_size] = item_to_produce]
  /\ curr_buf_size' = curr_buf_size + 1
  /\ prod' = [prod EXCEPT ![item_to_produce] = @ + 1]
  /\ item_to_produce' = item_to_produce + 1
  /\ SignalAndGoto(m, Workers, "unlock")
  /\ UNCHANGED <<mutex, cons, mainVars>>

MasterUnlock(m) == Unlock(m, "unlock", "lock")

MasterExit(m) == Unlock(m, "exit", "done")

Master(m) ==
  \/ MasterLock(m) \/ MasterTop(m) \/ MasterFull(m) \/ MasterWakeup(m)
  \/ MasterRecheck(m) \/ MasterPut(m) \/ MasterUnlock(m) \/ MasterExit(m)

-----------------------------------------------------------------------------
(* consume_requests_loop *)

WorkerLock(w) == Lock(w, "lock", "empty")

\* Mutant: the last worker to see the end does not pass the signal on.
WorkerEmpty_NoSignal(w) ==
  /\ pc[w] = "empty"
  /\ \/ /\ curr_buf_size = 0 /\ item_to_produce >= total_items
        /\ Goto(w, "exit")
        /\ UNCHANGED <<mutex, sharedVars>>
     \/ /\ curr_buf_size = 0 /\ item_to_produce < total_items
        /\ Block(w)
     \/ /\ curr_buf_size # 0
        /\ Goto(w, "take")
        /\ UNCHANGED <<mutex, sharedVars>>
  /\ UNCHANGED mainVars

\* The inner while: leave the loop, wait, or go on to consume.
WorkerEmpty(w) ==
  /\ pc[w] = "empty"
  /\ \/ /\ curr_buf_size = 0 /\ item_to_produce >= total_items
        /\ SignalAndGoto(w, Workers, "exit")
        /\ UNCHANGED <<mutex, sharedVars>>
     \/ /\ curr_buf_size = 0 /\ item_to_produce < total_items
        /\ Block(w)
     \/ /\ curr_buf_size # 0
        /\ Goto(w, "take")
        /\ UNCHANGED <<mutex, sharedVars>>
  /\ UNCHANGED mainVars

\* Mutant: an if in place of the while, no second test for an item.
WorkerWakeup_NoSecondTest(w) == Lock(w, "wakeup", "take")

WorkerWakeup(w) == Lock(w, "wakeup", "empty")

\* Mutant: buffer[curr_buf_size--], the mistake noted at master-worker.c:62.
WorkerTake_PostDecrement(w) ==
  /\ pc[w] = "take"
  /\ curr_buf_size' = curr_buf_size - 1
  /\ LET k == curr_buf_size % max_buf_size IN
       cons' = [i \in Items |-> IF i = buffer[k] THEN cons[i] + 1 ELSE cons[i]]
  /\ SignalAndGoto(w, Masters, "unlock")
  /\ UNCHANGED <<mutex, item_to_produce, buffer, prod, mainVars>>

\* Mutant: the masters that wait for room are not told of it.
WorkerTake_NoSignal(w) ==
  /\ pc[w] = "take"
  /\ curr_buf_size' = curr_buf_size - 1
  /\ cons' = [cons EXCEPT ![buffer[curr_buf_size - 1]] = @ + 1]
  /\ Goto(w, "unlock")
  /\ UNCHANGED <<mutex, item_to_produce, buffer, prod, mainVars>>

WorkerTake(w) ==
  /\ pc[w] = "take"
  /\ curr_buf_size' = curr_buf_size - 1
  /\ cons' = [cons EXCEPT ![buffer[curr_buf_size - 1]] = @ + 1]
  /\ SignalAndGoto(w, Masters, "unlock")
  /\ UNCHANGED <<mutex, item_to_produce, buffer, prod, mainVars>>

WorkerUnlock(w) == Unlock(w, "unlock", "lock")

\* Mutant: the unlock after the loop is forgotten.
WorkerExit_KeepsLock(w) ==
  /\ pc[w] = "exit"
  /\ Goto(w, "done")
  /\ UNCHANGED <<mutex, sharedVars, mainVars>>

WorkerExit(w) == Unlock(w, "exit", "done")

Worker(w) ==
  \/ WorkerLock(w) \/ WorkerEmpty(w) \/ WorkerWakeup(w)
  \/ WorkerTake(w) \/ WorkerUnlock(w) \/ WorkerExit(w)

-----------------------------------------------------------------------------
(* main *)

\* The masters are created before the workers (in any order within a kind).
MainCreate(t) ==
  /\ pc[t] = "new"
  /\ t \in Workers => \A m \in Masters : pc[m] # "new"
  /\ Goto(t, "lock")
  /\ UNCHANGED <<mutex, sharedVars, mainVars>>

\* After all creations, the masters are joined before the workers.
MainJoin(t) ==
  /\ \A u \in Threads : pc[u] # "new"
  /\ t \in Workers => Masters \subseteq joined
  /\ t \notin joined
  /\ pc[t] = "done"
  /\ joined' = joined \cup {t}
  /\ UNCHANGED <<pc, mutex, sharedVars, freed>>

\* Mutant: main frees the buffer once the masters are joined.
MainFree_BeforeWorkers ==
  /\ Masters \subseteq joined
  /\ ~freed
  /\ freed' = TRUE
  /\ UNCHANGED <<pc, mutex, sharedVars, joined>>

MainFree ==
  /\ joined = Threads
  /\ ~freed
  /\ freed' = TRUE
  /\ UNCHANGED <<pc, mutex, sharedVars, joined>>

\* The process has returned from main.
Terminated == freed /\ UNCHANGED vars

Next ==
  \/ \E m \in Masters : Master(m)
  \/ \E w \in Workers : Worker(w)
  \/ \E t \in Threads : MainCreate(t) \/ MainJoin(t) \/ SpuriousWakeup(t)
  \/ MainFree
  \/ Terminated

Spec == Init /\ [][Next]_vars

(***************************************************************************)
(* Every thread keeps running (weak fairness), and a thread that keeps     *)
(* finding the mutex free is eventually granted it (strong fairness of the *)
(* two acquisitions: the scheduler does not starve a runnable thread).     *)
(* Nothing is assumed of which waiter a signal picks, nor that spurious    *)
(* wakeups ever happen or ever stop.                                       *)
(***************************************************************************)
MainThread == MainFree \/ \E t \in Threads : MainCreate(t) \/ MainJoin(t)

Fairness ==
  /\ \A m \in Masters : WF_vars(Master(m)) /\ SF_vars(MasterLock(m) \/ MasterWakeup(m))
  /\ \A w \in Workers : WF_vars(Worker(w)) /\ SF_vars(WorkerLock(w) \/ WorkerWakeup(w))
  /\ WF_vars(MainThread)

FairSpec == Spec /\ Fairness

-----------------------------------------------------------------------------
(* Properties *)

\* Types: every variable ranges over the values the program can give it.
TypeOK ==
  /\ pc \in [Threads -> Critical \cup Outside]
  /\ \A m \in Masters : pc[m] \notin {"empty", "take"}
  /\ \A w \in Workers : pc[w] \notin {"top", "full", "recheck", "put"}
  /\ mutex \in Threads \cup {NoThread}
  /\ item_to_produce \in 0 .. total_items
  /\ curr_buf_size \in 0 .. max_buf_size
  /\ buffer \in [Slots -> Items \cup {Junk}]
  /\ prod \in [Items -> Nat]
  /\ cons \in [Items -> Nat]
  /\ joined \subseteq Threads
  /\ freed \in BOOLEAN

\* A thread is inside the code between lock and unlock exactly while it owns
\* the mutex, over every path that leaves a loop with the lock held, waits,
\* or unlocks after the loop (master-worker.c:58, 70-71, 91, 103-107, 122).
MutualExclusion == \A t \in Threads : pc[t] \in Critical <=> mutex = t

\* What a thread tested before it waited or went on is still true when it
\* acts on it: a put finds a free slot and an item left to produce, a take
\* finds a filled slot, and a thread leaves its loop only when its work is
\* over for good (for a worker: nothing buffered and nothing to come).
ChecksStillHold ==
  /\ \A m \in Masters :
       /\ pc[m] \in {"full", "put"} => item_to_produce < total_items
       /\ pc[m] = "put" => curr_buf_size < max_buf_size
       /\ pc[m] \in {"exit", "done"} => item_to_produce >= total_items
  /\ \A w \in Workers :
       /\ pc[w] = "take" => curr_buf_size > 0
       /\ pc[w] \in {"exit", "done"} =>
             item_to_produce >= total_items /\ curr_buf_size = 0

\* check.awk's verdict, as it holds at every moment of the run and not only
\* in the final output: every item below item_to_produce was produced once
\* and no other, no item is consumed twice, and the items not yet consumed
\* are the buffered ones, each in exactly one slot.
ExactlyOnce ==
  LET Filled == 0 .. curr_buf_size - 1
  IN  /\ \A i \in Items : prod[i] = IF i < item_to_produce THEN 1 ELSE 0
      /\ \A i \in Items : cons[i] \in {0, prod[i]}
      /\ \A k \in Filled : /\ buffer[k] \in 0 .. item_to_produce - 1
                            /\ cons[buffer[k]] = 0
      /\ \A j, k \in Filled : buffer[j] = buffer[k] => j = k
      /\ \A i \in Items : prod[i] = 1 /\ cons[i] = 0 =>
                            \E k \in Filled : buffer[k] = i

\* Some thread of S will run its loop again: it is neither blocked nor
\* past the signal it sends on leaving the loop.
Active(S) == \E t \in S : pc[t] \notin {"waiting", "exit", "done"}

\* No wakeup is lost: while a master waits although there is room, or
\* although production is over, some master is still going to look (and to
\* pass the signal on); the same for the workers with a filled slot.  One
\* signal per put, take and exit is enough, whichever waiter it picks.
NoLostWakeup ==
  /\ Waiting(Masters) # {}
       /\ (curr_buf_size < max_buf_size \/ item_to_produce >= total_items)
     => Active(Masters)
  /\ Waiting(Workers) # {}
       /\ (curr_buf_size > 0 \/ item_to_produce >= total_items)
     => Active(Workers)

\* The program never stops half-way: as long as some thread is not done,
\* some created thread can take a step of its own, because it holds the
\* mutex or because it wants the mutex and the mutex is free.
NeverStuck ==
  (\A t \in Threads : pc[t] # "new") /\ (\E t \in Threads : pc[t] # "done") =>
     \E t \in Threads : \/ mutex = t /\ pc[t] \in Critical
                        \/ mutex = NoThread /\ pc[t] \in {"lock", "wakeup"}

\* check.awk counts the lines printed for each item.
AllTestCasesPassed == \A i \in Items : prod[i] = 1 /\ cons[i] = 1

\* main joins only threads that are done, and frees the buffer only after
\* joining all of them: nobody uses a freed buffer, and the output is then
\* the one check.awk accepts.
FinalOutput ==
  /\ \A t \in joined : pc[t] = "done"
  /\ freed => (\A t \in Threads : pc[t] = "done") /\ AllTestCasesPassed

\* The program terminates: every thread returns, is joined, and main frees
\* the buffer.
Termination == <>freed

\* The program implements the pool of requests it is meant to be, with its
\* progress: the buffer's filled slots are the outstanding requests.
Pool == INSTANCE WorkPool WITH
  issued      <- item_to_produce,
  outstanding <- {buffer[k] : k \in 0 .. curr_buf_size - 1},
  served      <- {i \in Items : cons[i] > 0}

PoolSpec == Pool!Spec
=============================================================================
