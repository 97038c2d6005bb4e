-------------------------- MODULE TurnstileProofs --------------------------
(***************************************************************************)
(* Proofs about Turnstile for any number of threads and of rounds.  The    *)
(* invariant says how far the round robin is: which round, which thread,   *)
(* and what the loop counters, curId and the places of the threads are     *)
(* there.  That the turn is not stranded follows, and that every line is   *)
(* the next one of RoundRobin.                                             *)
(***************************************************************************)
EXTENDS Turnstile, TLAPS

Labels == {"new", "lock", "woken", "waiting", "test", "pass", "print", "unlock", "done"}

\* Where a thread has the lock.
Inside == {"test", "pass", "print", "unlock"}

TypeOK ==
  /\ pc \in [Ids -> Labels] /\ i \in [Ids -> Nat]
  /\ lock \in Ids \cup {NoThread}
  /\ curId \in Ids /\ who \in Ids /\ lines \in Nat /\ joined \in 0 .. NUM_THREADS

\* One thread has the lock, and is where the lock is held.
LockHeld == \A t \in Ids : pc[t] \in Inside <=> lock = t

\* A thread returns after its last round.
Rounds ==
  \A t \in Ids :
    /\ pc[t] = "new" => i[t] = 0
    /\ pc[t] = "done" => i[t] = NUM_TIMES_PRINT
    /\ pc[t] \notin {"new", "done"} => i[t] < NUM_TIMES_PRINT

\* The lines of thread t so far: its round ends after the line.
Printed(t) == IF pc[t] = "unlock" THEN i[t] + 1 ELSE i[t]

\* The thread after k.
After(k) == IF k = NUM_THREADS THEN 1 ELSE k + 1

\* r rounds are complete, and c threads have printed in the next one; it is
\* the turn of the thread after them, until that is about to print.
Position(r, c) ==
  /\ lines = NUM_THREADS * r + c
  /\ who = IF c = 0 THEN NUM_THREADS ELSE c
  /\ \A t \in Ids : Printed(t) = IF t <= c THEN r + 1 ELSE r
  /\ \A t \in Ids : pc[t] = "print" => t = c + 1
  /\ curId = IF \E t \in Ids : pc[t] = "print" THEN After(c + 1) ELSE c + 1

\* A thread hands on its own turn, and does not sleep while it has the turn.
Turn ==
  /\ \A t \in Ids : pc[t] = "pass" => t = curId
  /\ pc[curId] # "waiting"

IInv ==
  /\ TypeOK /\ LockHeld /\ Rounds /\ Turn
  /\ \E r \in Nat, c \in 0 .. NUM_THREADS - 1 : Position(r, c)

-----------------------------------------------------------------------------

\* The constants, and the thread that begins and the one that ends a round.
LEMMA NumbersAre ==
  /\ NUM_THREADS \in Nat /\ NUM_THREADS >= 1 /\ NUM_TIMES_PRINT \in Nat
  /\ 1 \in Ids /\ NUM_THREADS \in Ids /\ NoThread \notin Ids
BY TurnstileAssumption DEF Ids

\* A round has NUM_THREADS lines.
LEMMA RoundLines ==
  ASSUME NEW n \in Nat, NEW r \in Nat
  PROVE  n * r \in Nat /\ n * (r + 1) = n * r + n
OBVIOUS

\* More rounds have more lines.
LEMMA RoundsGrow ==
  ASSUME NEW n \in Nat, NEW r \in Nat, NEW m \in Nat, r <= m
  PROVE  n * r <= n * m
OBVIOUS

\* The turn goes round the ring.
LEMMA TurnAfter ==
  ASSUME NEW k \in Ids
  PROVE  /\ (k % NUM_THREADS) + 1 = After(k) /\ After(k) \in Ids
<1>1. CASE k < NUM_THREADS
  <2>1. k \in Nat /\ k % NUM_THREADS = k
    BY <1>1, NumbersAre DEF Ids
  <2> QED
    BY <1>1, <2>1, NumbersAre DEF After, Ids
<1>2. CASE k = NUM_THREADS
  <2>1. NUM_THREADS % NUM_THREADS = 0
    BY NumbersAre
  <2> QED
    BY <1>2, <2>1, NumbersAre DEF After, Ids
<1> QED
  BY <1>1, <1>2, NumbersAre DEF Ids

\* Nothing has been printed, and it is the turn of thread 1.
LEMMA InitInv == Init => IInv
<1> SUFFICES ASSUME Init PROVE IInv
  OBVIOUS
<1>1. TypeOK /\ LockHeld /\ Rounds /\ Turn
  BY NumbersAre DEF Init, TypeOK, Labels, LockHeld, Inside, Rounds, Turn
<1>2. Position(0, 0)
  BY NumbersAre DEF Init, Position, Printed, Ids
<1> QED
  BY <1>1, <1>2, NumbersAre DEF IInv

\* A step of thread t, or of main, that prints nothing and hands on no turn.
LEMMA QuietInv ==
  ASSUME IInv, UNCHANGED <<curId, who, lines>>, (TypeOK /\ LockHeld /\ Rounds /\ Turn)',
         \A t \in Ids : Printed(t)' = Printed(t) /\ (pc[t] = "print" <=> pc'[t] = "print")
  PROVE  IInv'
<1>1. PICK r \in Nat, c \in 0 .. NUM_THREADS - 1 : Position(r, c)
  BY DEF IInv
<1>2. Position(r, c)'
  BY <1>1 DEF Position
<1> QED
  BY <1>1, <1>2 DEF IInv

\* main creates a thread.
LEMMA CreateInv ==
  ASSUME IInv, NEW t \in Ids, Create(t)
  PROVE  IInv'
<1> USE NumbersAre DEF IInv, Create, LoopOrReturn, Goto
<1>1. TypeOK'
  BY DEF TypeOK, Labels
<1>2. (LockHeld /\ Turn)'
  BY DEF TypeOK, LockHeld, Inside, Turn
<1>3. Rounds'
  BY DEF TypeOK, Rounds
<1>4. UNCHANGED <<curId, who, lines>>
  OBVIOUS
<1>5. \A u \in Ids : Printed(u)' = Printed(u) /\ (pc[u] = "print" <=> pc'[u] = "print")
  BY DEF TypeOK, Printed, Rounds
<1> QED
  BY <1>1, <1>2, <1>3, <1>4, <1>5, QuietInv


\* A thread takes the lock.
LEMMA LockInv ==
  ASSUME IInv, NEW t \in Ids, Lock(t)
  PROVE  IInv'
<1> USE NumbersAre DEF IInv, Lock, Goto
<1>1. TypeOK'
  BY DEF TypeOK, Labels
<1>2. (LockHeld /\ Turn)'
  BY DEF TypeOK, LockHeld, Inside, Turn
<1>3. Rounds'
  BY DEF TypeOK, Rounds
<1>4. UNCHANGED <<curId, who, lines>>
  OBVIOUS
<1>5. \A u \in Ids : Printed(u)' = Printed(u) /\ (pc[u] = "print" <=> pc'[u] = "print")
  BY DEF TypeOK, Printed, Rounds
<1> QED
  BY <1>1, <1>2, <1>3, <1>4, <1>5, QuietInv


\* A thread tests curId, and sleeps only when it is not its turn.
LEMMA TestInv ==
  ASSUME IInv, NEW t \in Ids, Test(t)
  PROVE  IInv'
<1> USE NumbersAre DEF IInv, Test, Goto
<1>1. TypeOK'
  BY DEF TypeOK, Labels
<1>2. (LockHeld /\ Turn)'
  BY DEF TypeOK, LockHeld, Inside, Turn
<1>3. Rounds'
  BY DEF TypeOK, Rounds
<1>4. UNCHANGED <<curId, who, lines>>
  OBVIOUS
<1>5. \A u \in Ids : Printed(u)' = Printed(u) /\ (pc[u] = "print" <=> pc'[u] = "print")
  BY DEF TypeOK, Printed, Rounds
<1> QED
  BY <1>1, <1>2, <1>3, <1>4, <1>5, QuietInv


\* A wait returns without a signal.
LEMMA SpuriousInv ==
  ASSUME IInv, NEW t \in Ids, SpuriousWakeup(t)
  PROVE  IInv'
<1> USE NumbersAre DEF IInv, SpuriousWakeup, Goto
<1>1. TypeOK'
  BY DEF TypeOK, Labels
<1>2. (LockHeld /\ Turn)'
  BY DEF TypeOK, LockHeld, Inside, Turn
<1>3. Rounds'
  BY DEF TypeOK, Rounds
<1>4. UNCHANGED <<curId, who, lines>>
  OBVIOUS
<1>5. \A u \in Ids : Printed(u)' = Printed(u) /\ (pc[u] = "print" <=> pc'[u] = "print")
  BY DEF TypeOK, Printed, Rounds
<1> QED
  BY <1>1, <1>2, <1>3, <1>4, <1>5, QuietInv


\* A round ends after its line.
LEMMA UnlockInv ==
  ASSUME IInv, NEW t \in Ids, Unlock(t)
  PROVE  IInv'
<1> USE NumbersAre DEF IInv, Unlock, LoopOrReturn, Goto
<1>1. TypeOK'
  BY DEF TypeOK, Labels
<1>2. (LockHeld /\ Turn)'
  BY DEF TypeOK, LockHeld, Inside, Turn
<1>3. Rounds'
  BY DEF TypeOK, Rounds
<1>4. UNCHANGED <<curId, who, lines>>
  OBVIOUS
<1>5. \A u \in Ids : Printed(u)' = Printed(u) /\ (pc[u] = "print" <=> pc'[u] = "print")
  BY DEF TypeOK, Printed, Rounds
<1> QED
  BY <1>1, <1>2, <1>3, <1>4, <1>5, QuietInv


\* main joins a thread.
LEMMA JoinInv ==
  ASSUME IInv, Join
  PROVE  IInv'
<1> USE NumbersAre DEF IInv, Join, Goto
<1>1. TypeOK'
  BY DEF TypeOK, Labels, Ids
<1>2. (LockHeld /\ Turn)'
  BY DEF TypeOK, LockHeld, Inside, Turn
<1>3. Rounds'
  BY DEF TypeOK, Rounds
<1>4. UNCHANGED <<curId, who, lines>>
  OBVIOUS
<1>5. \A u \in Ids : Printed(u)' = Printed(u) /\ (pc[u] = "print" <=> pc'[u] = "print")
  BY DEF TypeOK, Printed, Rounds
<1> QED
  BY <1>1, <1>2, <1>3, <1>4, <1>5, QuietInv

\* The turn goes on: the thread that comes next is woken if it sleeps.
LEMMA PassInv ==
  ASSUME IInv, NEW t \in Ids, Pass(t)
  PROVE  IInv'
<1> USE NumbersAre DEF IInv
<1>0. /\ pc[t] = "pass" /\ t = curId /\ lock = t /\ curId' = After(curId) /\ curId' \in Ids
      /\ UNCHANGED <<i, lock, who, lines, joined>>
      /\ pc' = [u \in Ids |-> IF u = t THEN "print"
                              ELSE IF u = curId' /\ pc[u] = "waiting" THEN "woken" ELSE pc[u]]
  BY TurnAfter DEF Pass, HandTurn, TypeOK, Turn, LockHeld, Inside
<1>1. TypeOK'
  BY <1>0 DEF TypeOK, Labels
<1>2. (LockHeld /\ Turn)'
  BY <1>0 DEF TypeOK, LockHeld, Inside, Turn
<1>3. Rounds'
  BY <1>0 DEF TypeOK, Rounds
<1>4. PICK r \in Nat, c \in 0 .. NUM_THREADS - 1 : Position(r, c)
  OBVIOUS
<1>5. \A u \in Ids : Printed(u)' = Printed(u) /\ pc[u] # "print"
  BY <1>0 DEF TypeOK, LockHeld, Inside, Printed
<1>6. curId = c + 1
  BY <1>4, <1>5 DEF Position
<1>7. Position(r, c)'
  BY <1>0, <1>4, <1>5, <1>6 DEF Position
<1> QED
  BY <1>1, <1>2, <1>3, <1>7

\* The line of thread t, in round r after the lines of c threads, is due.
LEMMA LineDue ==
  ASSUME IInv, NEW t \in Ids, pc[t] = "print",
         NEW r \in Nat, NEW c \in 0 .. NUM_THREADS - 1, Position(r, c)
  PROVE  t = c + 1 /\ i[t] = r /\ r < NUM_TIMES_PRINT
<1>1. t = c + 1
  BY DEF Position
<1>2. Printed(t) = r /\ Printed(t) = i[t]
  BY <1>1, NumbersAre DEF Position, Printed
<1> QED
  BY <1>1, <1>2 DEF IInv, Rounds

\* One more line.
LEMMA PrintLineInv ==
  ASSUME IInv, NEW t \in Ids, PrintLine(t)
  PROVE  IInv'
<1> USE NumbersAre DEF IInv, PrintLine, Goto
<1>1. TypeOK'
  BY DEF TypeOK, Labels
<1>2. (LockHeld /\ Turn)'
  BY DEF TypeOK, LockHeld, Inside, Turn
<1>3. Rounds'
  BY DEF TypeOK, Rounds
<1>4. PICK r \in Nat, c \in 0 .. NUM_THREADS - 1 : Position(r, c)
  OBVIOUS
<1>5. t = c + 1 /\ i[t] = r /\ r < NUM_TIMES_PRINT
  BY <1>4, LineDue
<1>6. /\ \A u \in Ids : pc'[u] # "print"
      /\ \A u \in Ids \ {t} : Printed(u)' = Printed(u)
      /\ Printed(t)' = r + 1
      /\ curId' = After(t) /\ who' = t /\ lines' = NUM_THREADS * r + c + 1
  BY <1>4, <1>5 DEF TypeOK, LockHeld, Inside, Printed, Position
<1>7. CASE c + 1 < NUM_THREADS
  <2>1. Position(r, c + 1)'
    BY <1>4, <1>5, <1>6, <1>7, RoundLines DEF Position, After, Ids
  <2> QED
    BY <1>1, <1>2, <1>3, <1>7, <2>1
<1>8. CASE c + 1 = NUM_THREADS
  <2>1. lines' = NUM_THREADS * (r + 1) + 0
    BY <1>6, <1>8, RoundLines
  <2>2. \A u \in Ids : Printed(u)' = r + 1
    BY <1>4, <1>5, <1>6, <1>8 DEF Position, Ids
  <2>3. Position(r + 1, 0)'
    BY <1>5, <1>6, <1>8, <2>1, <2>2 DEF Position, After, Ids
  <2> QED
    BY <1>1, <1>2, <1>3, <2>3
<1> QED
  BY <1>7, <1>8

\* Every step preserves the invariant.
LEMMA NextInv ==
  ASSUME IInv, [Next]_vars
  PROVE  IInv'
<1>1. CASE UNCHANGED vars
  BY <1>1 DEF vars, IInv, TypeOK, LockHeld, Rounds, Turn, Position, Printed
<1> QED
  BY <1>1, CreateInv, LockInv, TestInv, SpuriousInv, UnlockInv, JoinInv, PassInv, PrintLineInv
  DEF Next, ThreadStep, Terminated

\* The invariant holds in every reachable state.
THEOREM Invariance == Spec => []IInv
BY InitInv, NextInv, PTL DEF Spec

\* When the thread that has the turn has returned, at most one line is missing.
LEMMA LastRound ==
  ASSUME IInv, pc[curId] = "done"
  PROVE  \/ lines = NUM_THREADS * NUM_TIMES_PRINT
         \/ lines = NUM_THREADS * NUM_TIMES_PRINT - 1 /\ \E t \in Ids : pc[t] = "print"
<1> USE NumbersAre
<1>1. PICK r \in Nat, c \in 0 .. NUM_THREADS - 1 : Position(r, c)
  BY DEF IInv
<1>2. curId \in Ids /\ i[curId] = NUM_TIMES_PRINT /\ Printed(curId) = NUM_TIMES_PRINT
  BY DEF IInv, TypeOK, Rounds, Printed
<1>3. CASE \E t \in Ids : pc[t] = "print"
  <2>1. PICK t \in Ids : pc[t] = "print"
    BY <1>3
  <2>2. t = c + 1 /\ r < NUM_TIMES_PRINT /\ curId = After(t)
    BY <1>1, <2>1, LineDue DEF Position
  <2>3. curId <= c /\ r + 1 = NUM_TIMES_PRINT
    BY <1>1, <1>2, <2>2 DEF Position
  <2>4. c + 1 = NUM_THREADS
    BY <2>2, <2>3 DEF After, Ids
  <2>5. NUM_THREADS * NUM_TIMES_PRINT = NUM_THREADS * r + NUM_THREADS
    BY <2>3, RoundLines
  <2>6. lines = NUM_THREADS * NUM_TIMES_PRINT - 1
    BY <1>1, <2>4, <2>5, RoundLines DEF Position
  <2> QED
    BY <1>3, <2>6
<1>4. CASE ~ \E t \in Ids : pc[t] = "print"
  <2>1. curId = c + 1
    BY <1>1, <1>4 DEF Position
  <2>2. r = NUM_TIMES_PRINT
    BY <1>1, <1>2, <2>1 DEF Position
  <2>3. i[1] \in Nat /\ i[1] <= NUM_TIMES_PRINT
    BY DEF IInv, TypeOK, Rounds
  <2>4. Printed(1) <= NUM_TIMES_PRINT
    BY <2>3 DEF Printed, IInv, Rounds
  <2>5. c = 0
    BY <1>1, <2>2, <2>4 DEF Position
  <2> QED
    BY <1>1, <2>2, <2>5, RoundLines DEF Position
<1> QED
  BY <1>3, <1>4

\* The thread whose turn it is sees it, or is woken for it (practise/1.c:21-24).
THEOREM TurnGoesOn == Spec => []TurnNotStranded
<1>1. IInv => TurnNotStranded
  BY LastRound DEF IInv, Turn, TurnNotStranded
<1> QED
  BY <1>1, Invariance, PTL

-----------------------------------------------------------------------------
(* The refinement of RoundRobin *)

\* The round robin, without the fairness of its one action.
RingSafety == Ring!Init /\ [][Ring!PrintLine]_(Ring!rrVars)

\* The line that is printed is the next one of the round robin.
LEMMA LineIsNext ==
  ASSUME IInv, NEW t \in Ids, PrintLine(t)
  PROVE  Ring!PrintLine
<1> USE NumbersAre
<1>1. PICK r \in Nat, c \in 0 .. NUM_THREADS - 1 : Position(r, c)
  BY DEF IInv
<1>2. t = c + 1 /\ r < NUM_TIMES_PRINT
  BY <1>1, LineDue DEF PrintLine
<1>3. lines < NUM_THREADS * NUM_TIMES_PRINT
  <2>1. NUM_THREADS * (r + 1) <= NUM_THREADS * NUM_TIMES_PRINT
    BY <1>2, RoundsGrow
  <2> QED
    BY <1>1, <2>1, RoundLines DEF Position
<1>4. who' - 1 = c /\ lines' = lines + 1
  BY <1>2 DEF PrintLine
<1>5. ((who - 1) + 1) % NUM_THREADS = c
  <2>1. who \in Ids /\ (who - 1) + 1 = who
    BY DEF IInv, TypeOK, Ids
  <2>2. (who % NUM_THREADS) + 1 = After(who)
    BY <2>1, TurnAfter
  <2>3. After(who) = c + 1
    BY <1>1 DEF Position, After
  <2>4. who % NUM_THREADS \in Int
    BY <2>1 DEF Ids
  <2> QED
    BY <2>1, <2>2, <2>3, <2>4
<1> QED
  BY <1>3, <1>4, <1>5 DEF Ring!PrintLine

\* No other step prints.
LEMMA RefinesNext ==
  ASSUME IInv, [Next]_vars
  PROVE  [Ring!PrintLine]_(Ring!rrVars)
<1>1. CASE \E t \in Ids : PrintLine(t)
  BY <1>1, LineIsNext
<1>2. CASE ~ \E t \in Ids : PrintLine(t)
  <2>1. UNCHANGED <<who, lines>>
    BY <1>2 DEF Next, ThreadStep, Create, Lock, Test, Pass, Unlock, SpuriousWakeup, Join,
                Terminated, vars
  <2> QED
    BY <2>1 DEF Ring!rrVars
<1> QED
  BY <1>1, <1>2

\* Whatever wakes up when, the lines come in the order of the ring, and there are
\* no more than NUM_TIMES_PRINT rounds of them.
THEOREM PrintsInTurn == Spec => RingSafety
<1>1. Init => Ring!Init
  BY DEF Init, Ring!Init
<1> QED
  BY <1>1, RefinesNext, Invariance, PTL DEF Spec, RingSafety
=============================================================================
