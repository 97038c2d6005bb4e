------------------------- MODULE MasterWorkerProofs -------------------------
(***************************************************************************)
(* Proofs about MasterWorker for any numbers of masters and workers, any   *)
(* number of items and any buffer size of at least one.                    *)
(*                                                                         *)
(* The inductive invariant is proved in three layers, each using the ones  *)
(* before it: Core (types, the lock, and the tests that still hold), then  *)
(* ExactlyOnce, then NoLostWakeup.  MainInv adds what main has joined.     *)
(***************************************************************************)
EXTENDS MasterWorker, FiniteSetTheorems, TLAPS

Core == TypeOK /\ MutualExclusion /\ ChecksStillHold

\* A step of the program, with the disjuncts of Next flattened.
LEMMA NextCases ==
  ASSUME Next
  PROVE  \/ \E m \in Masters : Master(m)
         \/ \E w \in Workers : Worker(w)
         \/ \E t \in Threads : MainCreate(t)
         \/ \E t \in Threads : MainJoin(t)
         \/ \E t \in Threads : SpuriousWakeup(t)
         \/ MainFree
         \/ UNCHANGED vars
BY DEF Next, Terminated

\* The program starts in a state that satisfies Core.
LEMMA CoreInit == Init => Core
<1> SUFFICES ASSUME Init PROVE Core
  OBVIOUS
<1> USE ThreadsAssumption, SizesAssumption DEF Init
<1>1. TypeOK
  <2>1. pc \in [Threads -> Critical \cup Outside]
    BY DEF Critical, Outside
  <2>2. /\ \A m \in Masters : pc[m] \notin {"empty", "take"}
        /\ \A w \in Workers : pc[w] \notin {"top", "full", "recheck", "put"}
    BY DEF Threads
  <2>3. item_to_produce \in 0 .. total_items /\ curr_buf_size \in 0 .. max_buf_size
    OBVIOUS
  <2>4. buffer \in [Slots -> Items \cup {Junk}]
    BY Zenon
  <2>5. prod \in [Items -> Nat] /\ cons \in [Items -> Nat]
    OBVIOUS
  <2>6. QED
    BY <2>1, <2>2, <2>3, <2>4, <2>5 DEF TypeOK
<1>2. MutualExclusion
  BY DEF MutualExclusion, Critical, Threads
<1>3. ChecksStillHold
  BY DEF ChecksStillHold, Threads
<1>4. QED
  BY <1>1, <1>2, <1>3 DEF Core

\* A signal moves at most one thread besides its sender: a waiter of the
\* condition that is signalled, which then competes for the mutex.
LEMMA SignalEffect ==
  ASSUME pc \in [Threads -> Critical \cup Outside],
         NEW S \in SUBSET Threads, NEW t \in Threads, pc[t] # "waiting",
         NEW label \in Critical, SignalAndGoto(t, S, label)
  PROVE  /\ pc' \in [Threads -> Critical \cup Outside]
         /\ pc'[t] = label
         /\ \A u \in Threads \ {t} :
              \/ pc'[u] = pc[u]
              \/ u \in S /\ pc[u] = "waiting" /\ pc'[u] = "wakeup"
<1>1. CASE Goto(t, label)
  BY <1>1 DEF Goto
<1>2. CASE \E w \in Waiting(S) : pc' = [pc EXCEPT ![t] = label, ![w] = "wakeup"]
  <2>1. PICK w \in Waiting(S) : pc' = [pc EXCEPT ![t] = label, ![w] = "wakeup"]
    BY <1>2
  <2>2. w \in S /\ w \in Threads /\ pc[w] = "waiting" /\ w # t
    BY DEF Waiting
  <2>3. "wakeup" \in Critical \cup Outside
    BY DEF Outside
  <2>4. QED
    BY <2>1, <2>2, <2>3
<1>3. QED
  BY <1>1, <1>2 DEF SignalAndGoto

\* Every step of a master preserves Core.
LEMMA CoreMaster ==
  ASSUME Core, NEW m \in Masters, Master(m)
  PROVE  Core'
<1> USE ThreadsAssumption, SizesAssumption
        DEF Core, TypeOK, MutualExclusion, ChecksStillHold, Critical, Outside,
            Threads, sharedVars, mainVars, Goto
<1>1. CASE MasterLock(m)
  BY <1>1 DEF MasterLock, Lock
<1>2. CASE MasterTop(m)
  <2>1. CASE item_to_produce >= total_items /\ SignalAndGoto(m, Masters, "exit")
    <3>1. /\ pc' \in [Threads -> Critical \cup Outside]
          /\ pc'[m] = "exit"
          /\ \A u \in Threads \ {m} :
               \/ pc'[u] = pc[u]
               \/ u \in Masters /\ pc[u] = "waiting" /\ pc'[u] = "wakeup"
      BY <1>2, <2>1, SignalEffect DEF MasterTop
    <3>2. TypeOK'
      BY <1>2, <2>1, <3>1 DEF MasterTop
    <3>3. MutualExclusion'
      BY <1>2, <2>1, <3>1 DEF MasterTop
    <3>4. ChecksStillHold'
      BY <1>2, <2>1, <3>1 DEF MasterTop
    <3>5. QED
      BY <3>2, <3>3, <3>4
  <2>2. CASE item_to_produce < total_items /\ Goto(m, "full")
    BY <1>2, <2>2 DEF MasterTop
  <2>3. QED
    BY <1>2, <2>1, <2>2 DEF MasterTop
<1>3. CASE MasterFull(m)
  BY <1>3 DEF MasterFull, Block
<1>4. CASE MasterWakeup(m)
  BY <1>4 DEF MasterWakeup, Lock
<1>5. CASE MasterRecheck(m)
  <2>1. CASE item_to_produce >= total_items /\ SignalAndGoto(m, Masters, "exit")
    <3>1. /\ pc' \in [Threads -> Critical \cup Outside]
          /\ pc'[m] = "exit"
          /\ \A u \in Threads \ {m} :
               \/ pc'[u] = pc[u]
               \/ u \in Masters /\ pc[u] = "waiting" /\ pc'[u] = "wakeup"
      BY <1>5, <2>1, SignalEffect DEF MasterRecheck
    <3>2. TypeOK'
      BY <1>5, <2>1, <3>1 DEF MasterRecheck
    <3>3. MutualExclusion'
      BY <1>5, <2>1, <3>1 DEF MasterRecheck
    <3>4. ChecksStillHold'
      BY <1>5, <2>1, <3>1 DEF MasterRecheck
    <3>5. QED
      BY <3>2, <3>3, <3>4
  <2>2. CASE item_to_produce < total_items /\ Goto(m, "full")
    BY <1>5, <2>2 DEF MasterRecheck
  <2>3. QED
    BY <1>5, <2>1, <2>2 DEF MasterRecheck
<1>6. CASE MasterPut(m)
  <2>1. /\ pc' \in [Threads -> Critical \cup Outside]
        /\ pc'[m] = "unlock"
        /\ \A u \in Threads \ {m} :
             \/ pc'[u] = pc[u]
             \/ u \in Workers /\ pc[u] = "waiting" /\ pc'[u] = "wakeup"
    BY <1>6, SignalEffect DEF MasterPut
  <2>2. item_to_produce < total_items /\ curr_buf_size < max_buf_size
    BY <1>6 DEF MasterPut
  <2>3. item_to_produce \in Items /\ curr_buf_size \in Slots
    BY <2>2 DEF Items, Slots
  <2>4. /\ buffer' \in [Slots -> Items \cup {Junk}]
        /\ prod' \in [Items -> Nat] /\ cons' \in [Items -> Nat]
    BY <1>6, <2>3 DEF MasterPut
  <2>5. item_to_produce' \in 0 .. total_items /\ curr_buf_size' \in 0 .. max_buf_size
    BY <1>6, <2>2 DEF MasterPut
  <2>6. TypeOK'
    BY <1>6, <2>1, <2>4, <2>5 DEF MasterPut
  <2>7. MutualExclusion'
    BY <1>6, <2>1 DEF MasterPut
  <2>8. ChecksStillHold'
    <3>1. \A t \in Threads : pc[t] \in Critical => t = m
      BY <1>6 DEF MasterPut
    <3>2. \A t \in Threads \ {m} : pc'[t] \notin {"full", "put", "take", "exit"}
      BY <2>1, <3>1
    <3>3. \A t \in Threads \ {m} : pc'[t] = "done" => pc[t] = "done"
      BY <2>1
    <3>4. item_to_produce' = item_to_produce + 1
      BY <1>6 DEF MasterPut
    <3>5. \A t \in Threads : pc[t] # "done"
      BY <2>2
    <3>6. QED
      BY <2>1, <3>2, <3>3, <3>5
  <2>9. QED
    BY <2>6, <2>7, <2>8
<1>7. CASE MasterUnlock(m)
  BY <1>7 DEF MasterUnlock, Unlock
<1>8. CASE MasterExit(m)
  BY <1>8 DEF MasterExit, Unlock
<1>9. QED
  BY <1>1, <1>2, <1>3, <1>4, <1>5, <1>6, <1>7, <1>8 DEF Master

\* Every step of a worker preserves Core.
LEMMA CoreWorker ==
  ASSUME Core, NEW w \in Workers, Worker(w)
  PROVE  Core'
<1> USE ThreadsAssumption, SizesAssumption
        DEF Core, TypeOK, MutualExclusion, ChecksStillHold, Critical, Outside,
            Threads, sharedVars, mainVars, Goto
<1>1. CASE WorkerLock(w)
  BY <1>1 DEF WorkerLock, Lock
<1>2. CASE WorkerEmpty(w)
  <2>1. CASE /\ curr_buf_size = 0 /\ item_to_produce >= total_items
             /\ SignalAndGoto(w, Workers, "exit")
             /\ UNCHANGED <<mutex, sharedVars>>
    <3>1. /\ pc' \in [Threads -> Critical \cup Outside]
          /\ pc'[w] = "exit"
          /\ \A u \in Threads \ {w} :
               \/ pc'[u] = pc[u]
               \/ u \in Workers /\ pc[u] = "waiting" /\ pc'[u] = "wakeup"
      BY <1>2, <2>1, SignalEffect DEF WorkerEmpty
    <3>2. TypeOK'
      BY <1>2, <2>1, <3>1 DEF WorkerEmpty
    <3>3. MutualExclusion'
      BY <1>2, <2>1, <3>1 DEF WorkerEmpty
    <3>4. ChecksStillHold'
      BY <1>2, <2>1, <3>1 DEF WorkerEmpty
    <3>5. QED
      BY <3>2, <3>3, <3>4
  <2>2. CASE curr_buf_size = 0 /\ item_to_produce < total_items /\ Block(w)
    BY <1>2, <2>2 DEF WorkerEmpty, Block
  <2>3. CASE /\ curr_buf_size # 0
             /\ Goto(w, "take")
             /\ UNCHANGED <<mutex, sharedVars>>
    BY <1>2, <2>3 DEF WorkerEmpty
  <2>4. QED
    BY <1>2, <2>1, <2>2, <2>3 DEF WorkerEmpty
<1>3. CASE WorkerWakeup(w)
  BY <1>3 DEF WorkerWakeup, Lock
<1>4. CASE WorkerTake(w)
  <2>1. /\ pc' \in [Threads -> Critical \cup Outside]
        /\ pc'[w] = "unlock"
        /\ \A u \in Threads \ {w} :
             \/ pc'[u] = pc[u]
             \/ u \in Masters /\ pc[u] = "waiting" /\ pc'[u] = "wakeup"
    BY <1>4, SignalEffect DEF WorkerTake
  <2>2. curr_buf_size > 0
    BY <1>4 DEF WorkerTake
  <2>3. cons' \in [Items -> Nat]
    <3> DEFINE x == buffer[curr_buf_size - 1]
    <3>1. cons' = [cons EXCEPT ![x] = cons[x] + 1]
      BY <1>4 DEF WorkerTake
    <3> HIDE DEF x
    <3>2. cons \in [Items -> Nat]
      OBVIOUS
    <3>3. cons' = [i \in Items |-> IF i = x THEN cons[i] + 1 ELSE cons[i]]
      BY ONLY <3>1, <3>2
    <3>4. \A i \in Items : (IF i = x THEN cons[i] + 1 ELSE cons[i]) \in Nat
      BY ONLY <3>2
    <3>5. QED
      BY ONLY <3>3, <3>4
  <2>4. curr_buf_size' \in 0 .. max_buf_size
    BY <1>4, <2>2 DEF WorkerTake
  <2>5. TypeOK'
    BY <1>4, <2>1, <2>3, <2>4 DEF WorkerTake
  <2>6. MutualExclusion'
    BY <1>4, <2>1 DEF WorkerTake
  <2>7. ChecksStillHold'
    <3>1. \A t \in Threads : pc[t] \in Critical => t = w
      BY <1>4 DEF WorkerTake
    <3>2. \A t \in Threads \ {w} : pc'[t] \notin {"full", "put", "take", "exit"}
      BY <2>1, <3>1
    <3>3. \A t \in Threads \ {w} : pc'[t] = "done" => pc[t] = "done"
      BY <2>1
    <3>4. \A t \in Workers : pc[t] # "done"
      BY <2>2
    <3>5. QED
      BY <1>4, <2>1, <3>2, <3>3, <3>4 DEF WorkerTake
  <2>8. QED
    BY <2>5, <2>6, <2>7
<1>5. CASE WorkerUnlock(w)
  BY <1>5 DEF WorkerUnlock, Unlock
<1>6. CASE WorkerExit(w)
  BY <1>6 DEF WorkerExit, Unlock
<1>7. QED
  BY <1>1, <1>2, <1>3, <1>4, <1>5, <1>6 DEF Worker

\* Every step of the program preserves Core.
LEMMA CoreStep == Core /\ [Next]_vars => Core'
<1> SUFFICES ASSUME Core, [Next]_vars PROVE Core'
  OBVIOUS
<1> USE ThreadsAssumption
<1>1. ASSUME NEW m \in Masters, Master(m) PROVE Core'
  BY <1>1, CoreMaster
<1>2. ASSUME NEW w \in Workers, Worker(w) PROVE Core'
  BY <1>2, CoreWorker
<1>3. ASSUME NEW t \in Threads, MainCreate(t) \/ SpuriousWakeup(t)
      PROVE  Core'
  BY <1>3 DEF MainCreate, SpuriousWakeup, Goto, Core, TypeOK, MutualExclusion,
              ChecksStillHold, Critical, Outside, Threads, sharedVars, mainVars
<1>4. ASSUME NEW t \in Threads, MainJoin(t) PROVE Core'
  BY <1>4 DEF MainJoin, Core, TypeOK, MutualExclusion, ChecksStillHold, sharedVars
<1>5. CASE MainFree
  BY <1>5 DEF MainFree, Core, TypeOK, MutualExclusion, ChecksStillHold, sharedVars
<1>6. CASE UNCHANGED vars
  BY <1>6 DEF vars, Core, TypeOK, MutualExclusion, ChecksStillHold, sharedVars,
              mainVars, Waiting
<1>7. QED
  BY <1>1, <1>2, <1>3, <1>4, <1>5, <1>6, NextCases

-----------------------------------------------------------------------------
(* ExactlyOnce: only a put and a take touch the data it speaks of. *)

\* No item is produced before the program has started.
LEMMA OnceInit == Init => ExactlyOnce
<1> SUFFICES ASSUME Init PROVE ExactlyOnce
  OBVIOUS
<1>1. 0 .. curr_buf_size - 1 = {}
  BY DEF Init
<1>2. \A i \in Items : prod[i] = 0 /\ cons[i] = 0 /\ ~(i < item_to_produce)
  BY SizesAssumption DEF Init, Items
<1>3. QED
  BY <1>1, <1>2 DEF ExactlyOnce

\* A step that leaves the shared data alone moves no item.
LEMMA OnceUnchanged == ExactlyOnce /\ UNCHANGED sharedVars => ExactlyOnce'
BY DEF ExactlyOnce, sharedVars

\* A put adds the next item, in the next slot.
LEMMA OncePut ==
  ASSUME Core, ExactlyOnce, NEW m \in Masters, MasterPut(m)
  PROVE  ExactlyOnce'
<1> DEFINE i0 == item_to_produce
           k0 == curr_buf_size
<1>1. /\ i0 \in Items /\ k0 \in Slots
      /\ i0 \in Nat /\ k0 \in Nat
  BY SizesAssumption DEF MasterPut, Core, TypeOK, ChecksStillHold, Items, Slots
<1>2. /\ prod \in [Items -> Nat] /\ cons \in [Items -> Nat]
      /\ buffer \in [Slots -> Items \cup {Junk}]
      /\ k0 < max_buf_size
  BY DEF MasterPut, Core, TypeOK, ChecksStillHold
<1>3. /\ buffer' = [buffer EXCEPT ![k0] = i0]
      /\ prod' = [prod EXCEPT ![i0] = @ + 1]
      /\ cons' = cons
      /\ item_to_produce' = i0 + 1
      /\ curr_buf_size' = k0 + 1
  BY DEF MasterPut
<1>4. \A k \in 0 .. k0 - 1 : /\ k \in Slots /\ k # k0
                              /\ buffer[k] \in 0 .. i0 - 1
                              /\ cons[buffer[k]] = 0
                              /\ buffer'[k] = buffer[k]
  BY <1>1, <1>2, <1>3, SizesAssumption DEF ExactlyOnce, Slots
<1>5. buffer'[k0] = i0
  BY <1>1, <1>2, <1>3
<1>6. 0 .. curr_buf_size' - 1 = (0 .. k0 - 1) \cup {k0}
  BY <1>1, <1>3
<1>7. prod[i0] = 0 /\ cons[i0] = 0
  BY <1>1, <1>2 DEF ExactlyOnce
<1>8. \A i \in Items : prod'[i] = IF i = i0 THEN 1 ELSE prod[i]
  BY <1>1, <1>2, <1>3, <1>7
<1> HIDE DEF i0, k0
<1>9. \A i \in Items : prod'[i] = IF i < item_to_produce' THEN 1 ELSE 0
  BY <1>1, <1>3, <1>8, SizesAssumption DEF ExactlyOnce, Items, i0
<1>10. \A i \in Items : cons'[i] \in {0, prod'[i]}
  BY <1>3, <1>7, <1>8 DEF ExactlyOnce
<1>11. \A k \in 0 .. curr_buf_size' - 1 : /\ buffer'[k] \in 0 .. item_to_produce' - 1
                                          /\ cons'[buffer'[k]] = 0
  BY <1>1, <1>3, <1>4, <1>5, <1>6, <1>7
<1>12. \A j, k \in 0 .. curr_buf_size' - 1 : buffer'[j] = buffer'[k] => j = k
  <2>1. \A k \in 0 .. k0 - 1 : buffer'[k] # i0
    BY <1>1, <1>4
  <2>2. \A j, k \in 0 .. k0 - 1 : buffer'[j] = buffer'[k] => j = k
    BY <1>4 DEF ExactlyOnce, k0
  <2>3. QED
    BY <1>5, <1>6, <2>1, <2>2
<1>13. \A i \in Items : prod'[i] = 1 /\ cons'[i] = 0 =>
                          \E k \in 0 .. curr_buf_size' - 1 : buffer'[k] = i
  <2>1. \A i \in Items \ {i0} : prod[i] = 1 /\ cons[i] = 0 =>
                                  \E k \in 0 .. k0 - 1 : buffer[k] = i
    BY DEF ExactlyOnce, k0
  <2>2. QED
    BY <1>3, <1>4, <1>5, <1>6, <1>8, <2>1
<1>14. QED
  BY <1>9, <1>10, <1>11, <1>12, <1>13 DEF ExactlyOnce

\* A take consumes the item of the last filled slot, which empties the slot.
LEMMA OnceTake ==
  ASSUME Core, ExactlyOnce, NEW w \in Workers, WorkerTake(w)
  PROVE  ExactlyOnce'
<1> DEFINE k0 == curr_buf_size - 1
           x  == buffer[k0]
<1>1. k0 \in Nat /\ k0 \in 0 .. curr_buf_size - 1 /\ curr_buf_size = k0 + 1
  BY SizesAssumption DEF WorkerTake, Core, TypeOK, ChecksStillHold
<1>2. cons \in [Items -> Nat] /\ item_to_produce \in 0 .. total_items
  BY DEF Core, TypeOK
<1>3. x \in 0 .. item_to_produce - 1 /\ x \in Items /\ cons[x] = 0 /\ prod[x] = 1
  BY <1>1, <1>2, SizesAssumption DEF ExactlyOnce, Items
<1>4. /\ cons' = [cons EXCEPT ![x] = @ + 1]
      /\ prod' = prod /\ buffer' = buffer /\ item_to_produce' = item_to_produce
      /\ curr_buf_size' = k0
  BY DEF WorkerTake
<1>5. \A i \in Items : cons'[i] = IF i = x THEN 1 ELSE cons[i]
  BY <1>2, <1>3, <1>4
<1>6. 0 .. k0 - 1 \subseteq 0 .. curr_buf_size - 1 /\ k0 \notin 0 .. k0 - 1
  BY <1>1
<1>7. 0 .. curr_buf_size - 1 = (0 .. k0 - 1) \cup {k0}
  BY <1>1
<1>8. \A k \in 0 .. k0 - 1 : buffer[k] # x /\ buffer[k] \in Items
  BY <1>1, <1>2, <1>6, SizesAssumption DEF ExactlyOnce, Items
<1>9. \A i \in Items : cons'[i] \in {0, prod'[i]}
  BY <1>3, <1>4, <1>5 DEF ExactlyOnce
<1>10. \A k \in 0 .. k0 - 1 : /\ buffer'[k] \in 0 .. item_to_produce' - 1
                              /\ cons'[buffer'[k]] = 0
  BY <1>4, <1>5, <1>6, <1>8 DEF ExactlyOnce
<1>11. \A j, k \in 0 .. k0 - 1 : buffer'[j] = buffer'[k] => j = k
  BY <1>4, <1>6 DEF ExactlyOnce
<1>12. \A i \in Items : prod'[i] = 1 /\ cons'[i] = 0 =>
                          \E k \in 0 .. k0 - 1 : buffer'[k] = i
  <2>1. \A i \in Items : prod[i] = 1 /\ cons[i] = 0 =>
                           \E k \in (0 .. k0 - 1) \cup {k0} : buffer[k] = i
    BY <1>7 DEF ExactlyOnce
  <2>2. QED
    BY <1>4, <1>5, <2>1
<1>13. \A i \in Items : prod'[i] = IF i < item_to_produce' THEN 1 ELSE 0
  BY <1>4 DEF ExactlyOnce
<1>14. QED
  BY <1>4, <1>9, <1>10, <1>11, <1>12, <1>13 DEF ExactlyOnce

\* Every step of the program preserves ExactlyOnce.
LEMMA OnceStep == Core /\ ExactlyOnce /\ [Next]_vars => ExactlyOnce'
<1> SUFFICES ASSUME Core, ExactlyOnce, [Next]_vars PROVE ExactlyOnce'
  OBVIOUS
<1>1. ASSUME NEW m \in Masters, Master(m) PROVE ExactlyOnce'
  <2>1. CASE MasterPut(m)
    BY <2>1, OncePut
  <2>2. CASE ~MasterPut(m)
    BY <1>1, <2>2, OnceUnchanged
       DEF Master, MasterLock, MasterTop, MasterFull, MasterWakeup, MasterRecheck,
           MasterUnlock, MasterExit, Lock, Unlock, Block
  <2>3. QED
    BY <2>1, <2>2
<1>2. ASSUME NEW w \in Workers, Worker(w) PROVE ExactlyOnce'
  <2>1. CASE WorkerTake(w)
    BY <2>1, OnceTake
  <2>2. CASE ~WorkerTake(w)
    BY <1>2, <2>2, OnceUnchanged
       DEF Worker, WorkerLock, WorkerEmpty, WorkerWakeup, WorkerUnlock, WorkerExit,
           Lock, Unlock, Block
  <2>3. QED
    BY <2>1, <2>2
<1>3. ASSUME NEW t \in Threads, MainCreate(t) \/ MainJoin(t) \/ SpuriousWakeup(t)
      PROVE  ExactlyOnce'
  BY <1>3, OnceUnchanged DEF MainCreate, MainJoin, SpuriousWakeup
<1>4. CASE MainFree
  BY <1>4, OnceUnchanged DEF MainFree
<1>5. CASE UNCHANGED vars
  BY <1>5, OnceUnchanged DEF vars
<1>6. QED
  BY <1>1, <1>2, <1>3, <1>4, <1>5, NextCases

-----------------------------------------------------------------------------
(* NoLostWakeup *)

\* What NoLostWakeup says of one kind of thread, S, that waits until P.
Awake(S, P) == Waiting(S) # {} /\ P => Active(S)

\* NoLostWakeup speaks of masters and of workers, each on its own.
LEMMA NoLostWakeupSplit ==
  NoLostWakeup <=>
    /\ Awake(Masters, curr_buf_size < max_buf_size \/ item_to_produce >= total_items)
    /\ Awake(Workers, curr_buf_size > 0 \/ item_to_produce >= total_items)
BY DEF NoLostWakeup, Awake

\* A signal leaves nobody of S waiting, or somebody of S active.
LEMMA SignalWakes ==
  ASSUME pc \in [Threads -> Critical \cup Outside],
         NEW S \in SUBSET Threads, NEW t \in Threads,
         NEW label \in Critical, SignalAndGoto(t, S, label)
  PROVE  Waiting(S)' = {} \/ Active(S)'
<1>1. label # "waiting"
  BY DEF Critical
<1>2. CASE Waiting(S) = {} /\ Goto(t, label)
  BY <1>1, <1>2 DEF Goto, Waiting
<1>3. CASE \E w \in Waiting(S) : pc' = [pc EXCEPT ![t] = label, ![w] = "wakeup"]
  BY <1>3 DEF Waiting, Active
<1>4. QED
  BY <1>2, <1>3 DEF SignalAndGoto

\* A thread that runs, and that neither blocks nor leaves its loop, keeps
\* its kind awake: it will look again itself.
LEMMA ActiveAfter ==
  ASSUME NEW S, NEW t \in S, pc'[t] \notin {"waiting", "exit", "done"}
  PROVE  Active(S)'
BY DEF Active

\* Every step of a master preserves NoLostWakeup.
LEMMA WakeupMaster ==
  ASSUME Core, NoLostWakeup, NEW m \in Masters, Master(m)
  PROVE  NoLostWakeup'
<1> USE ThreadsAssumption, SizesAssumption
<1> DEFINE Room == curr_buf_size < max_buf_size \/ item_to_produce >= total_items
           More == curr_buf_size > 0 \/ item_to_produce >= total_items
<1>1. /\ pc \in [Threads -> Critical \cup Outside] /\ m \in Threads
      /\ Masters \in SUBSET Threads /\ Workers \in SUBSET Threads
      /\ m \notin Workers
  BY DEF Core, TypeOK, Threads
<1>2. Awake(Masters, Room) /\ Awake(Workers, More)
  BY NoLostWakeupSplit
<1>3. SUFFICES /\ Waiting(Masters)' # {} /\ Room' => Active(Masters)'
               /\ Waiting(Workers)' # {} /\ More' => Active(Workers)'
  BY DEF NoLostWakeup
<1>4. ASSUME NEW label, label \notin {"waiting", "exit", "done"},
             Goto(m, label), UNCHANGED sharedVars
      PROVE  /\ Active(Masters)'
             /\ Waiting(Workers)' # {} /\ More' => Active(Workers)'
  <2>1. Active(Masters)'
    BY <1>1, <1>4, ActiveAfter DEF Goto
  <2>2. \A t \in Workers : pc'[t] = pc[t]
    BY <1>1, <1>4 DEF Goto
  <2>3. More' => More
    BY <1>4 DEF sharedVars
  <2>4. Waiting(Workers)' # {} /\ More' => Active(Workers)'
    BY <1>2, <2>2, <2>3 DEF Awake, Waiting, Active
  <2>5. QED
    BY <2>1, <2>4
<1>5. ASSUME SignalAndGoto(m, Masters, "exit"), UNCHANGED sharedVars
      PROVE  /\ Waiting(Masters)' = {} \/ Active(Masters)'
             /\ Waiting(Workers)' # {} /\ More' => Active(Workers)'
  <2>1. Waiting(Masters)' = {} \/ Active(Masters)'
    BY <1>1, <1>5, SignalWakes DEF Critical
  <2>2. \A t \in Workers : pc'[t] = pc[t]
    BY <1>1, <1>5 DEF SignalAndGoto, Goto, Waiting
  <2>3. More' => More
    BY <1>5 DEF sharedVars
  <2>4. Waiting(Workers)' # {} /\ More' => Active(Workers)'
    BY <1>2, <2>2, <2>3 DEF Awake, Waiting, Active
  <2>5. QED
    BY <2>1, <2>4
<1>6. CASE MasterLock(m)
  BY <1>4, <1>6 DEF MasterLock, Lock
<1>7. CASE MasterTop(m)
  BY <1>4, <1>5, <1>7 DEF MasterTop
<1>8. CASE MasterFull(m)
  <2>1. CASE curr_buf_size >= max_buf_size /\ Block(m)
    <3>1. item_to_produce < total_items
      BY <1>8 DEF MasterFull, Core, ChecksStillHold
    <3>2. ~Room /\ UNCHANGED sharedVars
      BY <2>1, <3>1 DEF Block, Core, TypeOK
    <3>3. ~Room'
      BY <3>2 DEF sharedVars
    <3>4. (\A t \in Workers : pc'[t] = pc[t]) /\ (More' => More)
      BY <1>1, <2>1, <3>2 DEF Block, Goto, sharedVars
    <3>5. QED
      BY <1>2, <3>3, <3>4 DEF Awake, Waiting, Active
  <2>2. CASE Goto(m, "put") /\ UNCHANGED <<mutex, sharedVars>>
    BY <1>4, <2>2
  <2>3. QED
    BY <1>8, <2>1, <2>2 DEF MasterFull
<1>9. CASE MasterWakeup(m)
  BY <1>4, <1>9 DEF MasterWakeup, Lock
<1>10. CASE MasterRecheck(m)
  BY <1>4, <1>5, <1>10 DEF MasterRecheck
<1>11. CASE MasterPut(m)
  <2>1. Waiting(Workers)' = {} \/ Active(Workers)'
    BY <1>1, <1>11, SignalWakes DEF MasterPut, Critical
  <2>2. pc'[m] = "unlock"
    BY <1>1, <1>11 DEF MasterPut, SignalAndGoto, Goto, Waiting
  <2>3. Active(Masters)'
    BY <2>2, ActiveAfter
  <2>4. QED
    BY <2>1, <2>3
<1>12. CASE MasterUnlock(m)
  BY <1>4, <1>12 DEF MasterUnlock, Unlock
<1>13. CASE MasterExit(m)
  <2>1. /\ pc' = [pc EXCEPT ![m] = "done"] /\ pc[m] = "exit"
        /\ (Room' => Room) /\ (More' => More)
    BY <1>13 DEF MasterExit, Unlock, Goto, sharedVars
  <2>2. QED
    BY <1>1, <1>2, <2>1 DEF Awake, Waiting, Active
<1>14. QED
  BY <1>6, <1>7, <1>8, <1>9, <1>10, <1>11, <1>12, <1>13 DEF Master

\* Every step of a worker preserves NoLostWakeup.
LEMMA WakeupWorker ==
  ASSUME Core, NoLostWakeup, NEW w \in Workers, Worker(w)
  PROVE  NoLostWakeup'
<1> USE ThreadsAssumption, SizesAssumption
<1> DEFINE Room == curr_buf_size < max_buf_size \/ item_to_produce >= total_items
           More == curr_buf_size > 0 \/ item_to_produce >= total_items
<1>1. /\ pc \in [Threads -> Critical \cup Outside] /\ w \in Threads
      /\ Masters \in SUBSET Threads /\ Workers \in SUBSET Threads
      /\ w \notin Masters
  BY DEF Core, TypeOK, Threads
<1>2. Awake(Masters, Room) /\ Awake(Workers, More)
  BY NoLostWakeupSplit
<1>3. SUFFICES /\ Waiting(Masters)' # {} /\ Room' => Active(Masters)'
               /\ Waiting(Workers)' # {} /\ More' => Active(Workers)'
  BY DEF NoLostWakeup
<1>4. ASSUME NEW label, label \notin {"waiting", "exit", "done"},
             Goto(w, label), UNCHANGED sharedVars
      PROVE  /\ Active(Workers)'
             /\ Waiting(Masters)' # {} /\ Room' => Active(Masters)'
  <2>1. Active(Workers)'
    BY <1>1, <1>4, ActiveAfter DEF Goto
  <2>2. \A t \in Masters : pc'[t] = pc[t]
    BY <1>1, <1>4 DEF Goto
  <2>3. Room' => Room
    BY <1>4 DEF sharedVars
  <2>4. Waiting(Masters)' # {} /\ Room' => Active(Masters)'
    BY <1>2, <2>2, <2>3 DEF Awake, Waiting, Active
  <2>5. QED
    BY <2>1, <2>4
<1>5. CASE WorkerLock(w)
  BY <1>4, <1>5 DEF WorkerLock, Lock
<1>6. CASE WorkerEmpty(w)
  <2>1. CASE SignalAndGoto(w, Workers, "exit") /\ UNCHANGED <<mutex, sharedVars>>
    <3>1. Waiting(Workers)' = {} \/ Active(Workers)'
      BY <1>1, <2>1, SignalWakes DEF Critical
    <3>2. \A t \in Masters : pc'[t] = pc[t]
      BY <1>1, <2>1 DEF SignalAndGoto, Goto, Waiting
    <3>3. Room' => Room
      BY <2>1 DEF sharedVars
    <3>4. QED
      BY <1>2, <3>1, <3>2, <3>3 DEF Awake, Waiting, Active
  <2>2. CASE curr_buf_size = 0 /\ item_to_produce < total_items /\ Block(w)
    <3>1. ~More /\ UNCHANGED sharedVars
      BY <2>2 DEF Block, Core, TypeOK
    <3>2. ~More'
      BY <3>1 DEF sharedVars
    <3>3. (\A t \in Masters : pc'[t] = pc[t]) /\ (Room' => Room)
      BY <1>1, <2>2, <3>1 DEF Block, Goto, sharedVars
    <3>4. QED
      BY <1>2, <3>2, <3>3 DEF Awake, Waiting, Active
  <2>3. CASE Goto(w, "take") /\ UNCHANGED <<mutex, sharedVars>>
    BY <1>4, <2>3
  <2>4. QED
    BY <1>6, <2>1, <2>2, <2>3 DEF WorkerEmpty
<1>7. CASE WorkerWakeup(w)
  BY <1>4, <1>7 DEF WorkerWakeup, Lock
<1>8. CASE WorkerTake(w)
  <2>1. Waiting(Masters)' = {} \/ Active(Masters)'
    BY <1>1, <1>8, SignalWakes DEF WorkerTake, Critical
  <2>2. pc'[w] = "unlock"
    BY <1>1, <1>8 DEF WorkerTake, SignalAndGoto, Goto, Waiting
  <2>3. Active(Workers)'
    BY <2>2, ActiveAfter
  <2>4. QED
    BY <2>1, <2>3
<1>9. CASE WorkerUnlock(w)
  BY <1>4, <1>9 DEF WorkerUnlock, Unlock
<1>10. CASE WorkerExit(w)
  <2>1. /\ pc' = [pc EXCEPT ![w] = "done"] /\ pc[w] = "exit"
        /\ (Room' => Room) /\ (More' => More)
    BY <1>10 DEF WorkerExit, Unlock, Goto, sharedVars
  <2>2. QED
    BY <1>1, <1>2, <2>1 DEF Awake, Waiting, Active
<1>11. QED
  BY <1>5, <1>6, <1>7, <1>8, <1>9, <1>10 DEF Worker

\* Every step of the program preserves NoLostWakeup.
LEMMA WakeupStep == Core /\ NoLostWakeup /\ [Next]_vars => NoLostWakeup'
<1> SUFFICES ASSUME Core, NoLostWakeup, [Next]_vars PROVE NoLostWakeup'
  OBVIOUS
<1>1. ASSUME NEW m \in Masters, Master(m) PROVE NoLostWakeup'
  BY <1>1, WakeupMaster
<1>2. ASSUME NEW w \in Workers, Worker(w) PROVE NoLostWakeup'
  BY <1>2, WakeupWorker
<1>3. ASSUME NEW t \in Threads, MainCreate(t) \/ SpuriousWakeup(t)
      PROVE  NoLostWakeup'
  <2>1. \/ pc[t] = "new" /\ pc' = [pc EXCEPT ![t] = "lock"]
        \/ pc[t] = "waiting" /\ pc' = [pc EXCEPT ![t] = "wakeup"]
    BY <1>3 DEF MainCreate, SpuriousWakeup, Goto
  <2>2. pc \in [Threads -> Critical \cup Outside] /\ UNCHANGED sharedVars
    BY <1>3 DEF MainCreate, SpuriousWakeup, Core, TypeOK
  <2>3. QED
    BY <2>1, <2>2 DEF NoLostWakeup, Waiting, Active, Threads, sharedVars
<1>4. ASSUME NEW t \in Threads, MainJoin(t) PROVE NoLostWakeup'
  BY <1>4 DEF MainJoin, NoLostWakeup, Waiting, Active, sharedVars
<1>5. CASE MainFree
  BY <1>5 DEF MainFree, NoLostWakeup, Waiting, Active, sharedVars
<1>6. CASE UNCHANGED vars
  BY <1>6 DEF vars, NoLostWakeup, Waiting, Active, sharedVars
<1>7. QED
  BY <1>1, <1>2, <1>3, <1>4, <1>5, <1>6, NextCases

-----------------------------------------------------------------------------
(* NeverStuck, and what main knows *)

\* NeverStuck follows from the layers above: if every thread were waiting or
\* done, NoLostWakeup would say what the waiting ones wait for, and that
\* contradicts what the others found when they left their loop or blocked.
LEMMA StuckFree == Core /\ NoLostWakeup => NeverStuck
<1> SUFFICES ASSUME Core, NoLostWakeup,
                    \A t \in Threads : pc[t] # "new",
                    NEW u \in Threads, pc[u] # "done"
             PROVE  \E t \in Threads : \/ mutex = t /\ pc[t] \in Critical
                                       \/ mutex = NoThread /\ pc[t] \in {"lock", "wakeup"}
  BY DEF NeverStuck
<1> USE ThreadsAssumption, SizesAssumption
<1>1. CASE mutex \in Threads
  BY <1>1 DEF Core, MutualExclusion
<1>2. CASE mutex = NoThread
  <2>1. SUFFICES ASSUME \A t \in Threads : pc[t] \notin {"lock", "wakeup"}
                 PROVE  FALSE
    BY <1>2
  <2>2. \A t \in Threads : pc[t] \in {"waiting", "done"}
    <3>1. \A t \in Threads : pc[t] \notin Critical
      BY <1>2 DEF Core, MutualExclusion, Threads
    <3>2. QED
      BY <2>1, <3>1 DEF Core, TypeOK, Outside
  <2>3. ~Active(Masters) /\ ~Active(Workers)
    BY <2>2 DEF Active, Threads
  <2>4. Waiting(Masters) # {} => curr_buf_size >= max_buf_size /\ item_to_produce < total_items
    BY <2>3 DEF NoLostWakeup, Core, TypeOK
  <2>5. Waiting(Workers) # {} => curr_buf_size = 0 /\ item_to_produce < total_items
    BY <2>3 DEF NoLostWakeup, Core, TypeOK
  <2>6. Waiting(Masters) = {} => item_to_produce >= total_items
    BY <2>2 DEF Waiting, Core, ChecksStillHold, Threads
  <2>7. Waiting(Workers) = {} => item_to_produce >= total_items
    BY <2>2 DEF Waiting, Core, ChecksStillHold, Threads
  <2>8. Waiting(Masters) # {} \/ Waiting(Workers) # {}
    BY <2>2 DEF Waiting, Threads
  <2>9. item_to_produce \in Nat /\ curr_buf_size \in Nat
    BY DEF Core, TypeOK
  <2>10. QED
    BY <2>4, <2>5, <2>6, <2>7, <2>8, <2>9
<1>3. QED
  BY <1>1, <1>2 DEF Core, TypeOK

\* The part of FinalOutput that is inductive: main has joined only threads
\* that are done, and all of them once it has freed the buffer.
MainInv ==
  /\ \A t \in joined : pc[t] = "done"
  /\ freed => joined = Threads

\* A thread that is done stays where it is.
LEMMA DoneStays ==
  ASSUME Core, [Next]_vars, NEW t \in Threads, pc[t] = "done"
  PROVE  pc'[t] = "done"
<1> USE DEF Threads
<1>1. pc \in [Threads -> Critical \cup Outside]
  BY DEF Core, TypeOK
<1>2. ASSUME NEW m \in Masters, Master(m) PROVE pc'[t] = "done"
  <2>1. t # m
    BY <1>2 DEF Master, MasterLock, MasterTop, MasterFull, MasterWakeup, MasterRecheck,
                MasterPut, MasterUnlock, MasterExit, Lock, Unlock
  <2>2. QED
    BY <1>1, <1>2, <2>1
       DEF Master, MasterLock, MasterTop, MasterFull, MasterWakeup, MasterRecheck,
           MasterPut, MasterUnlock, MasterExit, Lock, Unlock, Block, SignalAndGoto,
           Goto, Waiting
<1>3. ASSUME NEW w \in Workers, Worker(w) PROVE pc'[t] = "done"
  <2>1. t # w
    BY <1>3 DEF Worker, WorkerLock, WorkerEmpty, WorkerWakeup, WorkerTake, WorkerUnlock,
                WorkerExit, Lock, Unlock
  <2>2. QED
    BY <1>1, <1>3, <2>1
       DEF Worker, WorkerLock, WorkerEmpty, WorkerWakeup, WorkerTake, WorkerUnlock,
           WorkerExit, Lock, Unlock, Block, SignalAndGoto, Goto, Waiting
<1>4. ASSUME NEW u \in Threads, MainCreate(u) \/ SpuriousWakeup(u)
      PROVE  pc'[t] = "done"
  BY <1>1, <1>4 DEF MainCreate, SpuriousWakeup, Goto
<1>5. ASSUME NEW u \in Threads, MainJoin(u) PROVE pc'[t] = "done"
  BY <1>5 DEF MainJoin
<1>6. CASE MainFree
  BY <1>6 DEF MainFree
<1>7. CASE UNCHANGED vars
  BY <1>7 DEF vars
<1>8. QED
  BY <1>2, <1>3, <1>4, <1>5, <1>6, <1>7, NextCases

\* Who has been joined is done, and a thread that is done stays so.
LEMMA MainStep == Core /\ MainInv /\ [Next]_vars => MainInv'
<1> SUFFICES ASSUME Core, MainInv, [Next]_vars PROVE MainInv'
  OBVIOUS
<1>1. joined \subseteq Threads
  BY DEF Core, TypeOK
<1>2. \A t \in joined : pc'[t] = "done"
  BY <1>1, DoneStays DEF MainInv
<1>3. ASSUME NEW t \in Threads, MainJoin(t) PROVE MainInv'
  BY <1>1, <1>2, <1>3 DEF MainJoin, MainInv
<1>4. CASE MainFree
  BY <1>2, <1>4 DEF MainFree, MainInv
<1>5. CASE UNCHANGED mainVars
  BY <1>2, <1>5 DEF MainInv, mainVars
<1>6. ASSUME NEW m \in Masters, Master(m) PROVE UNCHANGED mainVars
  BY <1>6 DEF Master, MasterLock, MasterTop, MasterFull, MasterWakeup, MasterRecheck,
              MasterPut, MasterUnlock, MasterExit, Lock, Unlock
<1>7. ASSUME NEW w \in Workers, Worker(w) PROVE UNCHANGED mainVars
  BY <1>7 DEF Worker, WorkerLock, WorkerEmpty, WorkerWakeup, WorkerTake, WorkerUnlock,
              WorkerExit, Lock, Unlock
<1>8. QED
  BY <1>3, <1>4, <1>5, <1>6, <1>7, NextCases DEF MainCreate, SpuriousWakeup, vars

\* Once main has freed the buffer the output is complete.
LEMMA OutputComplete == Core /\ ExactlyOnce /\ MainInv => FinalOutput
<1> SUFFICES ASSUME Core, ExactlyOnce, MainInv, freed
             PROVE  (\A t \in Threads : pc[t] = "done") /\ AllTestCasesPassed
  BY DEF FinalOutput, MainInv
<1>1. \A t \in Threads : pc[t] = "done"
  BY DEF MainInv
<1>2. item_to_produce >= total_items /\ curr_buf_size = 0
  BY <1>1, ThreadsAssumption DEF Core, ChecksStillHold, Threads
<1>3. \A i \in Items : i < item_to_produce
  BY <1>2, SizesAssumption DEF Items, Core, TypeOK
<1>4. \A i \in Items : prod[i] = 1 /\ cons[i] \in {0, 1}
  BY <1>3 DEF ExactlyOnce
<1>5. 0 .. curr_buf_size - 1 = {}
  BY <1>2
<1>6. \A i \in Items : cons[i] # 0
  BY <1>4, <1>5 DEF ExactlyOnce
<1>7. QED
  BY <1>1, <1>4, <1>6 DEF AllTestCasesPassed

-----------------------------------------------------------------------------
(* The theorems *)

IInv == Core /\ ExactlyOnce /\ NoLostWakeup /\ MainInv

\* The conjunction of all layers is an invariant of the program.
LEMMA Invariance == Spec => []IInv
<1>1. Init => IInv
  <2>1. Init => NoLostWakeup
    BY DEF Init, NoLostWakeup, Waiting, Threads
  <2>2. Init => MainInv
    BY DEF Init, MainInv
  <2>3. QED
    BY <2>1, <2>2, CoreInit, OnceInit DEF IInv
<1>2. IInv /\ [Next]_vars => IInv'
  BY CoreStep, OnceStep, WakeupStep, MainStep DEF IInv
<1>3. QED
  BY <1>1, <1>2, PTL DEF Spec

\* Every variable keeps its type.
THEOREM TypeCorrect == Spec => []TypeOK
BY Invariance, PTL DEF IInv, Core

\* The mutex protects every statement between a lock and its unlock.
THEOREM MutexCorrect == Spec => []MutualExclusion
BY Invariance, PTL DEF IInv, Core

\* What a thread tested still holds when it acts on it.
THEOREM ChecksCorrect == Spec => []ChecksStillHold
BY Invariance, PTL DEF IInv, Core

\* Every item is produced once, consumed at most once, and never lost.
THEOREM OnceCorrect == Spec => []ExactlyOnce
BY Invariance, PTL DEF IInv

\* No thread waits for what has already happened.
THEOREM WakeupsCorrect == Spec => []NoLostWakeup
BY Invariance, PTL DEF IInv

\* The program never stops before every thread is done.
THEOREM NeverStuckCorrect == Spec => []NeverStuck
<1>1. IInv => NeverStuck
  BY StuckFree DEF IInv
<1>2. QED
  BY <1>1, Invariance, PTL

\* The output main leaves behind is the one check.awk accepts.
THEOREM OutputCorrect == Spec => []FinalOutput
<1>1. IInv => FinalOutput
  BY OutputComplete DEF IInv
<1>2. QED
  BY <1>1, Invariance, PTL

-----------------------------------------------------------------------------
(* The safety part of the refinement of WorkPool *)

Outstanding == {buffer[k] : k \in 0 .. curr_buf_size - 1}
Served == {i \in Items : cons[i] > 0}

\* A buffer with n filled slots holds at most n requests.
LEMMA OutstandingBound ==
  ASSUME Core
  PROVE  Cardinality(Outstanding) <= curr_buf_size
<1> DEFINE n == curr_buf_size
           f == [k \in 0 .. n - 1 |-> buffer[k]]
<1>1. n \in Nat
  BY SizesAssumption DEF Core, TypeOK
<1>2. IsFiniteSet(0 .. n - 1) /\ Cardinality(0 .. n - 1) = n
  BY <1>1, FS_Interval
<1>3. f \in Surjection(0 .. n - 1, Outstanding)
  BY DEF Surjection, Outstanding
<1> HIDE DEF f
<1>4. Cardinality(Outstanding) <= Cardinality(0 .. n - 1)
  BY <1>2, <1>3, FS_Surjection
<1>5. QED
  BY <1>2, <1>4

\* The pool counts with the same operator.
LEMMA PoolCardinality == \A S : Pool!Cardinality(S) = Cardinality(S)
BY DEF Pool!Cardinality, Cardinality

\* A put issues the next request, and finds the pool not full.
LEMMA PutIssues ==
  ASSUME IInv, NEW m \in Masters, MasterPut(m)
  PROVE  Pool!Issue
<1>1. /\ curr_buf_size \in Nat /\ curr_buf_size < max_buf_size /\ max_buf_size \in Nat
      /\ item_to_produce < total_items
  BY SizesAssumption DEF IInv, Core, TypeOK, ChecksStillHold, MasterPut
<1>2. Cardinality(Outstanding) < max_buf_size
  <2>1. Cardinality(Outstanding) <= curr_buf_size
    BY OutstandingBound DEF IInv
  <2>2. Cardinality(Outstanding) \in Nat
    <3>1. Outstanding \subseteq 0 .. item_to_produce - 1
      BY DEF Outstanding, IInv, ExactlyOnce
    <3>2. IsFiniteSet(0 .. item_to_produce - 1)
      BY FS_Interval, SizesAssumption DEF IInv, Core, TypeOK
    <3>3. IsFiniteSet(Outstanding)
      BY <3>1, <3>2, FS_Subset
    <3>4. QED
      BY <3>3, FS_CardinalityType
  <2>3. QED
    BY <1>1, <2>1, <2>2
<1>3. Outstanding' = Outstanding \cup {item_to_produce}
  <2>1. buffer \in [Slots -> Items \cup {Junk}] /\ curr_buf_size \in Slots
    BY <1>1 DEF IInv, Core, TypeOK, Slots
  <2>2. /\ buffer' = [buffer EXCEPT ![curr_buf_size] = item_to_produce]
        /\ curr_buf_size' = curr_buf_size + 1
    BY DEF MasterPut
  <2>3. \A k \in 0 .. curr_buf_size - 1 : buffer'[k] = buffer[k]
    BY <1>1, <2>1, <2>2 DEF Slots
  <2>4. buffer'[curr_buf_size] = item_to_produce
    BY <2>1, <2>2
  <2>5. 0 .. curr_buf_size' - 1 = (0 .. curr_buf_size - 1) \cup {curr_buf_size}
    BY <1>1, <2>2
  <2>6. QED
    BY <2>3, <2>4, <2>5 DEF Outstanding
<1>4. Served' = Served
  BY DEF Served, MasterPut
<1>5. item_to_produce' = item_to_produce + 1
  BY DEF MasterPut
<1>6. QED
  BY <1>1, <1>2, <1>3, <1>4, <1>5, PoolCardinality DEF Pool!Issue, Outstanding, Served

\* A take serves the request in the last filled slot, and no other.
LEMMA TakeServes ==
  ASSUME IInv, NEW w \in Workers, WorkerTake(w)
  PROVE  Pool!ServeAny
<1> DEFINE k0 == curr_buf_size - 1
           x  == buffer[k0]
<1>1. /\ k0 \in Nat /\ curr_buf_size = k0 + 1
      /\ cons \in [Items -> Nat] /\ item_to_produce \in 0 .. total_items
  BY SizesAssumption DEF IInv, Core, TypeOK, ChecksStillHold, WorkerTake
<1>2. 0 .. curr_buf_size - 1 = (0 .. k0 - 1) \cup {k0} /\ k0 \notin 0 .. k0 - 1
  BY <1>1
<1>3. /\ x \in Outstanding /\ x \in Items
      /\ \A k \in 0 .. k0 - 1 : buffer[k] # x
  BY <1>1, <1>2, SizesAssumption DEF IInv, ExactlyOnce, Outstanding, Items
<1>4. /\ cons' = [cons EXCEPT ![x] = @ + 1]
      /\ buffer' = buffer /\ curr_buf_size' = k0
      /\ item_to_produce' = item_to_produce
  BY DEF WorkerTake
<1>5. Outstanding' = Outstanding \ {x}
  BY <1>2, <1>3, <1>4 DEF Outstanding
<1>6. Served' = Served \cup {x}
  BY <1>1, <1>3, <1>4 DEF Served
<1> HIDE DEF x
<1>7. QED
  BY <1>3, <1>4, <1>5, <1>6 DEF Pool!ServeAny, Pool!Serve, Outstanding, Served

\* A step that leaves the shared data alone is a stuttering step of the pool.
LEMMA PoolStutter == UNCHANGED sharedVars => UNCHANGED Pool!poolVars
BY DEF sharedVars, Pool!poolVars

\* Every step is one of the pool or a stutter.
LEMMA PoolStep == IInv /\ [Next]_vars => [Pool!Next]_(Pool!poolVars)
<1> SUFFICES ASSUME IInv, [Next]_vars
             PROVE  Pool!Issue \/ Pool!ServeAny \/ UNCHANGED sharedVars
  BY PoolStutter DEF Pool!Next
<1>1. ASSUME NEW m \in Masters, Master(m)
      PROVE  Pool!Issue \/ UNCHANGED sharedVars
  BY <1>1, PutIssues
     DEF Master, MasterLock, MasterTop, MasterFull, MasterWakeup, MasterRecheck,
         MasterUnlock, MasterExit, Lock, Unlock, Block
<1>2. ASSUME NEW w \in Workers, Worker(w)
      PROVE  Pool!ServeAny \/ UNCHANGED sharedVars
  BY <1>2, TakeServes
     DEF Worker, WorkerLock, WorkerEmpty, WorkerWakeup, WorkerUnlock, WorkerExit,
         Lock, Unlock, Block
<1>3. QED
  BY <1>1, <1>2, NextCases DEF MainCreate, MainJoin, SpuriousWakeup, MainFree, vars

PoolSafeSpec == Pool!SafeSpec

\* The program implements the pool: it issues the requests in order, never
\* more than max_buf_size of them outstanding, and serves each of them once.
THEOREM ImplementsPool == Spec => PoolSafeSpec
<1>1. Init => Pool!Init
  <2>1. ASSUME Init PROVE Outstanding = {} /\ Served = {} /\ item_to_produce = 0
    BY <2>1, SizesAssumption DEF Init, Outstanding, Served, Items
  <2>2. QED
    BY <2>1 DEF Pool!Init, Outstanding, Served
<1>2. QED
  BY <1>1, PoolStep, Invariance, PTL DEF Spec, PoolSafeSpec, Pool!SafeSpec
=============================================================================
