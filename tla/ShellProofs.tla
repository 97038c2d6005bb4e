---------------------------- MODULE ShellProofs ----------------------------
(***************************************************************************)
(* Proofs about the shell, for any lines, any numbers of processes and of  *)
(* signals.  The invariant says where the main loop is on a line, which    *)
(* children in the foreground it has still to wait for there (Foreground), *)
(* and what is known of the others (Background); with it a prompt finds no *)
(* child in the foreground, whatever a handler has reaped in between.      *)
(***************************************************************************)
EXTENDS Shell, FiniteSetTheorems, SequenceTheorems, WellFoundedInduction, TLAPS

\* Where the main loop is on a line, and with which kind of line.
OnLine ==
  /\ pc \in {"test", "exec"} => lineState # "junkie"
  /\ pc \in {"test", "exec"} /\ lineState = "singleBackground" => i = 1
  /\ pc \in {"waitpid", "reap"} => lineState = "multiForeSerial"
  /\ pc = "waitpids" => lineState = "multiForeParallel"

\* Which child in the foreground the main loop has still to wait for.
Foreground ==
  /\ \A p \in Pids : kind[p] = "fore" /\ Child(p) =>
       \/ pc = "waitpid" /\ p = cpid
       \/ /\ pc \in {"test", "exec", "waitpids"} /\ lineState = "multiForeParallel"
          /\ \E k \in DOMAIN pids : pids[k] = p
       \/ pc \in {"kill", "next", "waitall", "exited", "crashed"}
  /\ pc = "waitpid" => cpid \in Pids /\ kind[cpid] = "fore" /\ phase[cpid] # "none"
  /\ \A k \in DOMAIN pids : kind[pids[k]] = "fore" /\ phase[pids[k]] # "none"

\* A command in the background runs in a group of its own; before it is in
\* the set only sigint_handler can have reaped it.
Background ==
  /\ \A p \in Pids : phase[p] = "none" => kind[p] = "fore"
  /\ \A p \in Pids : kind[p] = "back" /\ phase[p] = "running" => group[p] = "own"
  /\ \A p \in backProcesses : kind[p] = "back"
  /\ pc = "insert" => cpid \in Pids /\ kind[cpid] = "back" /\ (Child(cpid) \/ cpid \in missed)

\* How the shell ends.
Ending ==
  /\ exiting => pc \in {"kill", "next", "waitall", "exited", "crashed"}
  /\ pc = "exited" => \A p \in Pids : ~Child(p)

IInv ==
  /\ TypeOK /\ pids \in Seq(Pids) /\ i # 0
  /\ OnLine /\ Foreground /\ Background /\ Ending /\ BackgroundTracked

-----------------------------------------------------------------------------
(* Lines *)

\* A non-empty set of numbers has a least element.
LEMMA LeastNatural ==
  ASSUME NEW S, S \subseteq Nat, S # {}
  PROVE  \E x \in S : \A y \in S : x <= y
<1> DEFINE R == OpToRel(<, Nat)
<1>1. IsWellFoundedOn(R, Nat)
  BY Zenon, NatLessThanWellFounded
<1>2. PICK x \in S : \A y \in S : ~(<<y, x>> \in R)
  <2> HIDE DEF R
  <2> QED BY Zenon, <1>1, WFMin
<1>3. R = {ss \in Nat \X Nat : ss[1] < ss[2]}
  BY Zenon DEF OpToRel
<1>4. \A y \in S : y \in Nat /\ x \in Nat /\ ~(y < x)
  BY <1>2, <1>3
<1> QED
  BY <1>4

\* There are four kinds of lines.
LEMMA LineStates ==
  lineState \in {"multiForeSerial", "singleBackground", "multiForeParallel", "junkie"}
BY DEF lineState, setLineState

\* The line is what it was.
LEMMA SameLine ==
  ASSUME line' = line
  PROVE  lineState' = lineState /\ commands' = commands
BY DEF lineState, commands

\* A line has a command, if only the blank at its end.
LEMMA SomeCommand ==
  ASSUME TypeOK
  PROVE  Len(commands) \in Nat /\ Len(commands) >= 1 /\ DOMAIN commands = 1 .. Len(commands)
<1> DEFINE l == Append(line, "blank")
           text == {j \in DOMAIN l : l[j] # "&"}
           starts == {j \in text : j - 1 \notin text}
           n == Cardinality(starts)
           C == {commands[k] : k \in DOMAIN commands}
<1>1. line \in Seq({"&", "blank", "run", "cd", "exit"})
  <2>1. line \in Lines \/ line = <<>>
    BY DEF TypeOK
  <2>2. Lines \subseteq Seq({"&", "blank", "run", "cd", "exit"})
    BY ShellAssumption
  <2>3. <<>> \in Seq({"&", "blank", "run", "cd", "exit"})
    BY EmptySeq
  <2> QED
    BY <2>1, <2>2, <2>3
<1>2. /\ Len(line) \in Nat /\ DOMAIN l = 1 .. Len(line) + 1 /\ l[Len(line) + 1] = "blank"
  BY <1>1
<1>3. text \subseteq 1 .. Len(line) + 1 /\ Len(line) + 1 \in text
  BY <1>2
<1>4. PICK first \in text : \A j \in text : first <= j
  <2> HIDE DEF text
  <2>1. text \subseteq Nat /\ text # {}
    BY <1>2, <1>3
  <2> QED
    BY <2>1, LeastNatural
<1>5. first \in starts /\ starts \subseteq 1 .. Len(line) + 1
  <2>1. first \in Nat /\ ~(first <= first - 1)
    BY <1>2, <1>3
  <2> HIDE DEF text
  <2> QED
    BY <1>3, <1>4, <2>1
<1>6. DOMAIN commands = 1 .. n
  BY DEF commands, breakIntoCommands
<1> HIDE DEF starts
<1>7. n \in Nat /\ n >= 1
  <2>1. IsFiniteSet(1 .. Len(line) + 1)
    BY <1>2, FS_Interval
  <2>2. IsFiniteSet(starts)
    BY <1>5, <2>1, FS_Subset
  <2>3. n \in Nat /\ n # 0
    BY <1>5, <2>2, FS_CardinalityType, FS_EmptySet
  <2> QED
    BY <2>3
<1> HIDE DEF n
<1>8. commands \in Seq(C)
  <2>1. commands = [k \in DOMAIN commands |-> commands[k]]
    BY DEF commands, breakIntoCommands
  <2>2. commands \in [1 .. n -> C]
    BY <1>6, <2>1
  <2> QED
    BY <1>7, <2>2, SeqDef
<1>9. Len(commands) = n
  BY <1>6, <1>7, <1>8, LenProperties
<1> QED
  BY <1>6, <1>7, <1>9

-----------------------------------------------------------------------------
(* Children and signals *)

\* What a child does by itself.
LEMMA ChildStepInv ==
  ASSUME IInv, NEW p \in Pids, ChildStep(p)
  PROVE  IInv'
<1>1. /\ UNCHANGED <<pc, line, i, pids, cpid, carrySerialCommands, backProcesses, kind, pending,
                     exiting, it, broken, missed, nlines, nints>>
      /\ termed' = termed /\ lineState' = lineState /\ commands' = commands
  BY SameLine DEF ChildStep, SetPgid, Exec, End, main, exits, bounds
<1>2. /\ phase' \in [Pids -> {"none", "forked", "running", "zombie", "reaped"}]
      /\ group' \in [Pids -> {"shell", "own"}]
      /\ \A q \in Pids : /\ Child(q)' <=> Child(q)
                         /\ phase'[q] = "none" <=> phase[q] = "none"
                         /\ group[q] = "own" => group'[q] = "own"
                         /\ phase'[q] = "running" => \/ phase[q] = "running"
                                                     \/ kind[q] = "back" => group'[q] = "own"
  <2>1. /\ phase \in [Pids -> {"none", "forked", "running", "zombie", "reaped"}]
        /\ group \in [Pids -> {"shell", "own"}]
    BY DEF IInv, TypeOK
  <2>2. CASE SetPgid(p)
    BY <2>1, <2>2 DEF SetPgid, Child
  <2>3. CASE Exec(p)
    BY <2>1, <2>3 DEF Exec, Child
  <2>4. CASE End(p)
    BY <2>1, <2>4 DEF End, Child
  <2> QED
    BY <2>2, <2>3, <2>4 DEF ChildStep
<1>3. TypeOK' /\ pids' \in Seq(Pids) /\ i' # 0
  BY <1>1, <1>2 DEF IInv, TypeOK
<1>4. OnLine'
  BY <1>1 DEF IInv, OnLine
<1>5. Foreground'
  <2>1. \A k \in DOMAIN pids : pids[k] \in Pids
    BY DEF IInv, TypeOK
  <2> QED
    BY <1>1, <1>2, <2>1 DEF IInv, Foreground
<1>6. Background' /\ Ending' /\ BackgroundTracked'
  <2>1. backProcesses \subseteq Pids
    BY DEF IInv, TypeOK
  <2> QED
    BY <1>1, <1>2, <2>1 DEF IInv, Background, Ending, BackgroundTracked
<1> QED
  BY <1>3, <1>4, <1>5, <1>6 DEF IInv

\* Ctrl-C ends commands in the group of the shell.
LEMMA CtrlCInv ==
  ASSUME IInv, CtrlC
  PROVE  IInv' /\ \A p \in Pids : kind[p] = "back" => phase'[p] = phase[p]
<1>1. /\ UNCHANGED <<pc, line, i, pids, cpid, carrySerialCommands, backProcesses, kind, group,
                     termed, exiting, it, broken, missed, nlines>>
      /\ lineState' = lineState /\ commands' = commands
      /\ nints < MaxInts /\ nints' = nints + 1 /\ pending' = TRUE
  BY SameLine DEF CtrlC, main, exits
<1>2. /\ phase' \in [Pids -> {"none", "forked", "running", "zombie", "reaped"}]
      /\ \A q \in Pids : /\ Child(q)' <=> Child(q)
                         /\ phase'[q] = "none" <=> phase[q] = "none"
                         /\ phase'[q] = "running" => phase[q] = "running"
                         /\ kind[q] = "back" => phase'[q] = phase[q]
  <2>1. PICK ended \in SUBSET {p \in Pids : group[p] = "shell" /\ phase[p] = "running"} :
          phase' = [p \in Pids |-> IF p \in ended THEN "zombie" ELSE phase[p]]
    BY DEF CtrlC
  <2>2. phase \in [Pids -> {"none", "forked", "running", "zombie", "reaped"}]
    BY DEF IInv, TypeOK
  <2>3. \A q \in ended : phase[q] = "running" /\ kind[q] # "back"
    BY DEF IInv, Background
  <2> QED
    BY <2>1, <2>2, <2>3 DEF Child
<1>3. TypeOK' /\ pids' \in Seq(Pids) /\ i' # 0
  <2>1. MaxInts \in Nat /\ nints \in 0 .. MaxInts
    BY ShellAssumption DEF IInv, TypeOK
  <2> QED
    BY <1>1, <1>2, <2>1 DEF IInv, TypeOK
<1>4. OnLine'
  BY <1>1 DEF IInv, OnLine
<1>5. Foreground'
  <2>1. \A k \in DOMAIN pids : pids[k] \in Pids
    BY DEF IInv, TypeOK
  <2> QED
    BY <1>1, <1>2, <2>1 DEF IInv, Foreground
<1>6. Background' /\ Ending' /\ BackgroundTracked'
  <2>1. backProcesses \subseteq Pids
    BY DEF IInv, TypeOK
  <2> QED
    BY <1>1, <1>2, <2>1 DEF IInv, Background, Ending, BackgroundTracked
<1> QED
  BY <1>2, <1>3, <1>4, <1>5, <1>6 DEF IInv

\* Children are reaped: those of S, which have ended.
LEMMA CollectFacts ==
  ASSUME IInv, NEW S, S \subseteq Zombies, Collect(S)
  PROVE  /\ phase' \in [Pids -> {"none", "forked", "running", "zombie", "reaped"}]
         /\ backProcesses' \subseteq Pids
         /\ \A p \in backProcesses' : p \in backProcesses
         /\ \A p \in Pids : /\ Child(p)' <=> Child(p) /\ p \notin S
                            /\ phase'[p] = "none" <=> phase[p] = "none"
                            /\ phase'[p] = "running" <=> phase[p] = "running"
         /\ \A p \in backProcesses : p \notin S <=> p \in backProcesses'
<1>1. /\ phase \in [Pids -> {"none", "forked", "running", "zombie", "reaped"}]
      /\ backProcesses \subseteq Pids
  BY DEF IInv, TypeOK
<1>2. \A p \in S : p \in Pids /\ phase[p] = "zombie"
  BY DEF Zombies
<1>3. /\ phase' = [p \in Pids |-> IF p \in S THEN "reaped" ELSE phase[p]]
      /\ backProcesses' = backProcesses \ S
  BY DEF Collect
<1> QED
  BY <1>1, <1>2, <1>3 DEF Child

\* What holds of the commands in the background when children are reaped and
\* no other set changes.
LEMMA CollectBackground ==
  ASSUME IInv, NEW S, S \subseteq Zombies, Collect(S),
         UNCHANGED <<kind, group, cpid, exiting>>,
         missed \subseteq missed',
         pc' = "insert" => pc = "insert" /\ (cpid \in S => cpid \in missed'),
         pc \in {"insert", "waitall"} => pc' = pc
  PROVE  Background' /\ BackgroundTracked'
<1>1. /\ backProcesses \subseteq Pids /\ backProcesses' \subseteq Pids
      /\ \A p \in backProcesses' : p \in backProcesses
      /\ \A p \in Pids : /\ Child(p)' <=> Child(p) /\ p \notin S
                         /\ phase'[p] = "none" <=> phase[p] = "none"
                         /\ phase'[p] = "running" <=> phase[p] = "running"
      /\ \A p \in backProcesses : p \notin S <=> p \in backProcesses'
  BY CollectFacts DEF IInv, TypeOK
<1>2. Background'
  BY <1>1 DEF IInv, Background
<1>3. BackgroundTracked'
  BY <1>1 DEF IInv, BackgroundTracked
<1> QED
  BY <1>2, <1>3

\* The handler reaps what has ended, wherever the main loop is.
LEMMA HandlerInv ==
  ASSUME IInv, sigint_handler
  PROVE  IInv'
<1>1. /\ UNCHANGED <<pc, line, i, pids, cpid, kind, group, termed, exiting, it, broken,
                     nlines, nints>>
      /\ lineState' = lineState /\ commands' = commands
      /\ pc # "exited" /\ pending' = FALSE /\ carrySerialCommands' = FALSE
      /\ missed' = missed \cup {p \in Zombies : p = cpid /\ pc = "insert"}
      /\ Collect(Zombies)
  BY SameLine DEF sigint_handler, Gone, reapChildren, main, bounds
<1>2. /\ phase' \in [Pids -> {"none", "forked", "running", "zombie", "reaped"}]
      /\ backProcesses' \subseteq Pids
      /\ \A p \in Pids : /\ Child(p)' => Child(p)
                         /\ phase'[p] = "none" <=> phase[p] = "none"
  BY <1>1, CollectFacts
<1>3. TypeOK' /\ pids' \in Seq(Pids) /\ i' # 0
  BY <1>1, <1>2 DEF IInv, TypeOK, Zombies
<1>4. OnLine'
  BY <1>1 DEF IInv, OnLine
<1>5. Foreground'
  <2>1. \A k \in DOMAIN pids : pids[k] \in Pids
    BY DEF IInv, TypeOK
  <2> QED
    BY <1>1, <1>2, <2>1 DEF IInv, Foreground
<1>6. Background' /\ BackgroundTracked'
  <2>1. missed \subseteq missed' /\ (pc = "insert" /\ cpid \in Zombies => cpid \in missed')
    BY <1>1
  <2> QED
    BY <1>1, <2>1, CollectBackground
<1>7. Ending'
  BY <1>1 DEF IInv, Ending
<1> QED
  BY <1>3, <1>4, <1>5, <1>6, <1>7 DEF IInv

\* SIGTERM from outside: the main loop is left for good.
LEMMA TerminateInv ==
  ASSUME IInv, Terminate
  PROVE  IInv'
<1>1. /\ UNCHANGED <<line, i, pids, cpid, carrySerialCommands, backProcesses, phase, kind, group,
                     termed, pending, exiting, it, missed, nlines, nints>>
      /\ pc \notin {"waitall", "exited", "crashed"} /\ pc' = "waitall"
      /\ broken' = (broken \/ pc \in {"kill", "next"})
  BY DEF Terminate, Gone, processes, exits, bounds
<1>2. TypeOK' /\ pids' \in Seq(Pids) /\ i' # 0
  <2>1. broken' \in BOOLEAN
    BY <1>1 DEF IInv, TypeOK
  <2> QED
    BY <1>1, <2>1 DEF IInv, TypeOK, Places
<1>3. OnLine' /\ Ending'
  BY <1>1 DEF IInv, OnLine, Ending
<1>4. Foreground'
  BY <1>1 DEF IInv, Foreground, Child
<1>5. Background'
  BY <1>1 DEF IInv, Background
<1>6. BackgroundTracked'
  BY <1>1 DEF IInv, BackgroundTracked, Ending, Child
<1> QED
  BY <1>2, <1>3, <1>4, <1>5, <1>6 DEF IInv

\* The shell waits for all its children and exits.
LEMMA WaitAllInv ==
  ASSUME IInv, WaitAll
  PROVE  IInv'
<1>1. /\ UNCHANGED <<line, i, pids, cpid, carrySerialCommands, kind, group, termed, pending,
                     exiting, it, broken, missed, nlines, nints>>
      /\ pc = "waitall"
  BY DEF WaitAll, exits, bounds
<1>2. CASE /\ \E p \in Zombies : Collect({p})
           /\ pc' = pc
  <2>1. PICK p \in Zombies : Collect({p})
    BY <1>2
  <2>2. /\ phase' \in [Pids -> {"none", "forked", "running", "zombie", "reaped"}]
        /\ backProcesses' \subseteq Pids
        /\ \A q \in Pids : phase'[q] = "none" <=> phase[q] = "none"
    BY <2>1, CollectFacts
  <2>3. TypeOK' /\ pids' \in Seq(Pids) /\ i' # 0
    BY <1>1, <1>2, <2>2 DEF IInv, TypeOK
  <2>4. OnLine' /\ Ending'
    BY <1>1, <1>2 DEF OnLine, Ending
  <2>5. Foreground'
    <3>1. \A k \in DOMAIN pids : pids[k] \in Pids
      BY DEF IInv, TypeOK
    <3> QED
      BY <1>1, <1>2, <2>2, <3>1 DEF IInv, Foreground
  <2>6. Background' /\ BackgroundTracked'
    BY <1>1, <1>2, <2>1, CollectBackground
  <2> QED
    BY <2>3, <2>4, <2>5, <2>6 DEF IInv
<1>3. CASE /\ \A p \in Pids : ~Child(p)
           /\ pc' = "exited"
           /\ UNCHANGED <<phase, backProcesses>>
  <2>1. TypeOK' /\ pids' \in Seq(Pids) /\ i' # 0
    BY <1>1, <1>3 DEF IInv, TypeOK, Places
  <2>2. OnLine' /\ Ending'
    BY <1>1, <1>3 DEF OnLine, Ending, Child
  <2>3. Foreground' /\ Background'
    BY <1>1, <1>3 DEF IInv, Foreground, Background, Child
  <2>4. BackgroundTracked'
    BY <1>1, <1>3 DEF IInv, BackgroundTracked, Child
  <2> QED
    BY <2>1, <2>2, <2>3, <2>4 DEF IInv
<1> QED
  BY <1>2, <1>3 DEF WaitAll

-----------------------------------------------------------------------------
(* The main loop *)

\* Steps that leave the processes as they are: Reset, Test, NoChild, exitCall and
\* the steps of its loop.
LEMMA MoveInv ==
  ASSUME IInv, TypeOK', OnLine', pids' = pids, i' # 0,
         UNCHANGED <<line, cpid, backProcesses, phase, kind, group, missed>>,
         pc \in {"reset", "read", "test", "exec", "kill", "next"},
         pc' \in Places \ {"waitpid", "insert", "exited"},
         \/ pc' \in {"kill", "next", "waitall", "crashed"}
         \/ pc' \in {"test", "exec", "waitpids"} /\ pc \in {"test", "exec"}
         \/ pc \in {"test", "exec"} /\ lineState # "multiForeParallel"
         \/ pc \in {"reset", "read"},
         exiting' => exiting \/ pc' \in {"kill", "next", "waitall", "crashed"}
  PROVE  IInv'
<1>1. lineState' = lineState
  BY SameLine
<1>2. Foreground'
  BY <1>1 DEF IInv, Foreground, Child
<1>3. Background' /\ Ending'
  BY DEF IInv, Background, Ending, Child
<1>4. BackgroundTracked'
  BY DEF IInv, BackgroundTracked, Ending, Child
<1> QED
  BY <1>2, <1>3, <1>4 DEF IInv

\* A new line, or the first step on it.
LEMMA ResetInv ==
  ASSUME IInv, Reset
  PROVE  IInv'
<1>1. /\ UNCHANGED <<line, i, pids, cpid, backProcesses, phase, kind, group, termed, pending,
                     exiting, it, broken, missed, nlines, nints>>
      /\ pc = "reset" /\ pc' = "read" /\ carrySerialCommands' = TRUE
  BY DEF Reset, processes, exits, bounds
<1>2. TypeOK' /\ i' # 0
  BY <1>1 DEF IInv, TypeOK, Places
<1>3. OnLine'
  BY <1>1 DEF OnLine
<1> QED
  BY <1>1, <1>2, <1>3, MoveInv DEF Places

\* The user types a line.
LEMMA ReadInv ==
  ASSUME IInv, Read
  PROVE  IInv'
<1>1. /\ UNCHANGED <<i, pids, cpid, carrySerialCommands, backProcesses, phase, kind, group,
                     termed, pending, exiting, it, broken, missed, nints>>
      /\ pc = "read" /\ pc' = "parse" /\ line' \in Lines
      /\ nlines < MaxLines /\ nlines' = nlines + 1
  BY DEF Read, processes, exits
<1>2. TypeOK' /\ pids' \in Seq(Pids) /\ i' # 0
  <2>1. nlines' \in 0 .. MaxLines
    BY <1>1, ShellAssumption DEF IInv, TypeOK
  <2> QED
    BY <1>1, <2>1 DEF IInv, TypeOK, Places
<1>3. OnLine' /\ Ending'
  BY <1>1 DEF IInv, OnLine, Ending
<1>4. Foreground' /\ Background'
  BY <1>1 DEF IInv, Foreground, Background, Child
<1>5. BackgroundTracked'
  BY <1>1 DEF IInv, BackgroundTracked, Child
<1> QED
  BY <1>2, <1>3, <1>4, <1>5 DEF IInv

\* The line is split, and what has ended is reaped.
LEMMA ParseInv ==
  ASSUME IInv, Parse
  PROVE  IInv'
<1>1. /\ UNCHANGED <<line, cpid, carrySerialCommands, kind, group, termed, pending, exiting, it,
                     broken, missed, nlines, nints>>
      /\ pc = "parse" /\ pc' \in {"reset", "test"} /\ i' = 1 /\ pids' = <<>>
      /\ pc' = "test" => lineState # "junkie"
      /\ Collect(Zombies) /\ lineState' = lineState
  BY SameLine DEF Parse, reapChildren, exits, bounds
<1>2. /\ phase' \in [Pids -> {"none", "forked", "running", "zombie", "reaped"}]
      /\ backProcesses' \subseteq Pids
      /\ \A p \in Pids : Child(p)' => Child(p)
  BY <1>1, CollectFacts
<1>3. pids' \in Seq(Pids) /\ DOMAIN pids' = {}
  BY <1>1, EmptySeq
<1>4. TypeOK' /\ i' # 0
  BY <1>1, <1>2, <1>3 DEF IInv, TypeOK, Places
<1>5. OnLine' /\ Ending'
  BY <1>1 DEF IInv, OnLine, Ending
<1>6. Foreground'
  BY <1>1, <1>2, <1>3 DEF IInv, Foreground
<1>7. Background' /\ BackgroundTracked'
  BY <1>1, CollectBackground
<1> QED
  BY <1>3, <1>4, <1>5, <1>6, <1>7 DEF IInv

\* The head of the loops over the commands.
LEMMA TestInv ==
  ASSUME IInv, Test
  PROVE  IInv'
<1>1. /\ UNCHANGED <<line, i, pids, cpid, carrySerialCommands, backProcesses, phase, kind, group,
                     termed, pending, exiting, it, broken, missed, nlines,
                     nints>>
      /\ pc = "test"
      /\ pc' = IF lineState = "singleBackground" \/ (i <= Len(commands) /\ carrySerialCommands)
               THEN "exec"
               ELSE IF lineState = "multiForeParallel" THEN "waitpids" ELSE "end"
      /\ lineState' = lineState /\ commands' = commands
  BY SameLine DEF Test, processes, exits, bounds
<1>2. OnLine'
  BY <1>1 DEF IInv, OnLine
<1>3. TypeOK' /\ i' # 0
  <2>1. Len(commands) \in Nat /\ Len(commands) >= 1 /\ DOMAIN commands = 1 .. Len(commands)
    BY SomeCommand DEF IInv
  <2>2. pc' = "exec" => i \in DOMAIN commands
    BY <1>1, <2>1 DEF IInv, OnLine, TypeOK
  <2> QED
    BY <1>1, <2>2 DEF IInv, TypeOK, Places
<1> QED
  BY <1>1, <1>2, <1>3, MoveInv DEF Places

\* How the loops go on after a command that leaves no child to wait for.
LEMMA ContinueFacts ==
  ASSUME IInv, pc = "exec", Continue
  PROVE  /\ \/ lineState = "multiForeSerial" /\ pc' = "reap" /\ i' = i
            \/ lineState = "singleBackground" /\ pc' = "end" /\ i' = i
            \/ lineState = "multiForeParallel" /\ pc' = "test" /\ i' = i + 1
         /\ i' \in Nat /\ i' # 0
<1>1. /\ lineState \in {"multiForeSerial", "singleBackground", "multiForeParallel"}
      /\ i \in Nat /\ i # 0
  BY LineStates DEF IInv, OnLine, TypeOK
<1>2. /\ lineState = "multiForeSerial" => pc' = "reap"
      /\ lineState = "singleBackground" => pc' = "end"
      /\ lineState = "multiForeParallel" => pc' = "test"
  BY DEF Continue
<1>3. i' = IF lineState = "multiForeParallel" THEN i + 1 ELSE i
  BY DEF Continue
<1> QED
  BY <1>1, <1>2, <1>3

\* A command that starts no process.
LEMMA NoChildInv ==
  ASSUME IInv, NoChild
  PROVE  IInv'
<1>1. /\ UNCHANGED <<line, pids, cpid, carrySerialCommands, backProcesses, phase, kind, group,
                     termed, pending, exiting, it, broken, missed, nlines,
                     nints>>
      /\ pc = "exec" /\ lineState' = lineState
  BY SameLine DEF NoChild, processes, exits, bounds
<1>2. /\ \/ lineState = "multiForeSerial" /\ pc' = "reap" /\ i' = i
         \/ lineState = "singleBackground" /\ pc' = "end" /\ i' = i
         \/ lineState = "multiForeParallel" /\ pc' = "test" /\ i' = i + 1
      /\ i' \in Nat /\ i' # 0
  BY <1>1, ContinueFacts DEF NoChild
<1>3. TypeOK' /\ i' # 0
  BY <1>1, <1>2 DEF IInv, TypeOK, Places
<1>4. OnLine'
  BY <1>1, <1>2 DEF OnLine
<1> QED
  BY <1>1, <1>2, <1>3, <1>4, MoveInv DEF Places

\* The place after p in the set is in the set, or there is none.
LEMMA AfterFacts ==
  ASSUME backProcesses \subseteq Pids, NEW p \in Nat
  PROVE  After(p) = 0 \/ (After(p) \in backProcesses /\ After(p) > p)
<1> DEFINE later == {q \in backProcesses : q > p}
<1>1. CASE later = {}
  BY <1>1 DEF After
<1>2. CASE later # {}
  <2>1. later \subseteq Nat
    <3>1. Pids \subseteq Nat
      BY ShellAssumption DEF Pids
    <3> QED
      BY <3>1
  <2>2. PICK x \in later : \A y \in later : x <= y
    <3> HIDE DEF later
    <3> QED
      BY <1>2, <2>1, LeastNatural
  <2>3. F!Min(later) \in later
    BY <2>2, Zenon DEF F!Min
  <2>4. After(p) = F!Min(later)
    BY <1>2 DEF After
  <2> QED
    BY <2>3, <2>4
<1> QED
  BY <1>1, <1>2

\* The loop of exit goes on at a process, or ends.
LEMMA LoopAtFacts ==
  ASSUME NEW p \in Pids \cup {0}, LoopAt(p)
  PROVE  /\ it' \in Pids \cup {0} /\ pc' \in {"kill", "waitall"}
         /\ pc' = "kill" => it' # 0
BY DEF LoopAt

\* exit: the loop over the processes in the background begins.
LEMMA ExitCallInv ==
  ASSUME IInv, exitCall
  PROVE  IInv'
<1>1. /\ UNCHANGED <<line, i, pids, cpid, carrySerialCommands, backProcesses, phase, kind, group,
                     termed, pending, broken, missed, nlines, nints>>
      /\ pc = "exec" /\ exiting' = TRUE /\ LoopAt(After(0))
  BY DEF exitCall, processes, bounds
<1>2. After(0) \in Pids \cup {0}
  BY AfterFacts DEF IInv, TypeOK
<1>3. /\ it' \in Pids \cup {0} /\ pc' \in {"kill", "waitall"}
      /\ pc' = "kill" => it' # 0
  <2>1. PICK p \in Pids \cup {0} : p = After(0)
    BY <1>2
  <2> QED
    BY <1>1, <2>1, LoopAtFacts
<1>4. TypeOK' /\ i' # 0
  BY <1>1, <1>3 DEF IInv, TypeOK, Places
<1>5. OnLine'
  BY <1>3 DEF OnLine
<1> QED
  BY <1>1, <1>3, <1>4, <1>5, MoveInv DEF Places

\* SIGTERM to one process.
LEMMA SendTermInv ==
  ASSUME IInv, SendTerm
  PROVE  IInv'
<1>1. /\ UNCHANGED <<line, i, pids, cpid, carrySerialCommands, backProcesses, phase, kind, group,
                     pending, exiting, it, broken, missed, nlines, nints>>
      /\ pc = "kill" /\ pc' = "next"
      /\ termed' = [termed EXCEPT ![it] = TRUE]
  BY DEF SendTerm, exits, bounds
<1>2. termed' \in [Pids -> BOOLEAN]
  BY <1>1 DEF IInv, TypeOK
<1>3. TypeOK' /\ i' # 0
  BY <1>1, <1>2 DEF IInv, TypeOK, Places
<1>4. OnLine'
  BY <1>1 DEF OnLine
<1> QED
  BY <1>1, <1>3, <1>4, MoveInv DEF Places

\* The iterator is incremented, or goes astray.
LEMMA NextTermInv ==
  ASSUME IInv, NextTerm
  PROVE  IInv'
<1>1. /\ UNCHANGED <<line, i, pids, cpid, carrySerialCommands, backProcesses, phase, kind, group,
                     termed, pending, exiting, missed, nlines, nints>>
      /\ pc = "next"
  BY DEF NextTerm, processes, bounds
<1>2. /\ it \in Pids \cup {0} /\ broken \in BOOLEAN /\ backProcesses \subseteq Pids
      /\ Pids \subseteq Nat
  BY DEF IInv, TypeOK, Pids
<1>3. /\ it' \in Pids \cup {0} /\ pc' \in {"kill", "waitall", "crashed"}
      /\ pc' = "kill" => it' # 0
      /\ broken' \in BOOLEAN
  <2>1. CASE it \in backProcesses /\ LoopAt(After(it)) /\ UNCHANGED broken
    <3>1. After(it) \in Pids \cup {0}
      BY <1>2, AfterFacts
    <3>2. PICK p \in Pids \cup {0} : p = After(it)
      BY <3>1
    <3> QED
      BY <1>2, <2>1, <3>2, LoopAtFacts
  <2>2. CASE broken' = TRUE /\ \E p \in Pids : LoopAt(p)
    BY <2>2, LoopAtFacts
  <2>3. CASE broken' = TRUE /\ LoopAt(0)
    BY <2>3, LoopAtFacts
  <2>4. CASE broken' = TRUE /\ pc' = "crashed" /\ UNCHANGED it
    BY <1>2, <2>4
  <2> QED
    BY <2>1, <2>2, <2>3, <2>4 DEF NextTerm
<1>4. TypeOK' /\ i' # 0
  BY <1>1, <1>3 DEF IInv, TypeOK, Places
<1>5. OnLine'
  BY <1>3 DEF OnLine
<1> QED
  BY <1>1, <1>3, <1>4, <1>5, MoveInv DEF Places

\* A process is created; the parent waits for it, remembers it among the pids
\* of the line, or will insert it into the set.
LEMMA ForkInv ==
  ASSUME IInv, NEW p \in Pids, Fork(p)
  PROVE  IInv'
<1>1. /\ UNCHANGED <<line, carrySerialCommands, backProcesses, group, termed, pending, exiting, it,
                     broken, missed, nlines, nints>>
      /\ pc = "exec" /\ phase[p] = "none" /\ cpid' = p /\ lineState' = lineState
      /\ phase' = [phase EXCEPT ![p] = "forked"]
      /\ phase \in [Pids -> {"none", "forked", "running", "zombie", "reaped"}]
      /\ kind \in [Pids -> {"fore", "back"}]
      /\ i \in Nat /\ i # 0 /\ pids \in Seq(Pids) /\ kind[p] = "fore"
  BY SameLine DEF Fork, exits, bounds, IInv, TypeOK, Background
<1>2. /\ phase' \in [Pids -> {"none", "forked", "running", "zombie", "reaped"}]
      /\ Child(p)' /\ phase'[p] = "forked"
      /\ \A q \in Pids : q # p => phase'[q] = phase[q] /\ (Child(q)' <=> Child(q))
  BY <1>1 DEF Child
<1>3. /\ p \notin backProcesses /\ backProcesses \subseteq Pids
      /\ \A k \in DOMAIN pids : pids[k] # p /\ pids[k] \in Pids
  BY <1>1 DEF IInv, Background, Foreground, TypeOK
<1>4. \A q \in Pids : kind[q] = "fore" /\ Child(q) =>
        /\ lineState = "multiForeParallel"
        /\ \E k \in DOMAIN pids : pids[k] = q
  BY <1>1 DEF IInv, Foreground
<1>5. exiting' = FALSE /\ exiting = FALSE
  BY <1>1 DEF IInv, Ending, TypeOK
<1>6. CASE /\ lineState = "multiForeSerial" /\ pc' = "waitpid"
           /\ UNCHANGED <<i, pids, kind>>
  <2>1. TypeOK' /\ pids' \in Seq(Pids) /\ i' # 0
    BY <1>1, <1>2, <1>6 DEF IInv, TypeOK, Places
  <2>2. OnLine' /\ Ending'
    BY <1>1, <1>5, <1>6 DEF OnLine, Ending
  <2>3. Foreground'
    BY <1>1, <1>2, <1>3, <1>4, <1>6 DEF IInv, Foreground
  <2>4. Background'
    BY <1>1, <1>2, <1>6 DEF IInv, Background
  <2>5. BackgroundTracked'
    BY <1>1, <1>2, <1>3, <1>6 DEF IInv, BackgroundTracked
  <2> QED
    BY <2>1, <2>2, <2>3, <2>4, <2>5 DEF IInv
<1>7. CASE /\ lineState = "multiForeParallel" /\ pids' = Append(pids, p)
           /\ Continue /\ UNCHANGED kind
  <2>1. pc' = "test" /\ i' \in Nat /\ i' # 0
    BY <1>1, <1>7, ContinueFacts
  <2>2. /\ pids' \in Seq(Pids)
        /\ \A k \in DOMAIN pids' : pids'[k] = p \/ (k \in DOMAIN pids /\ pids'[k] = pids[k])
        /\ \A k \in DOMAIN pids : k \in DOMAIN pids' /\ pids'[k] = pids[k]
        /\ \E k \in DOMAIN pids' : pids'[k] = p
    <3>1. /\ pids' \in Seq(Pids) /\ Len(pids) \in Nat
          /\ DOMAIN pids = 1 .. Len(pids) /\ DOMAIN pids' = 1 .. Len(pids) + 1
          /\ pids'[Len(pids) + 1] = p
          /\ \A k \in 1 .. Len(pids) : pids'[k] = pids[k]
      BY <1>1, <1>7, AppendProperties, LenProperties
    <3> QED
      BY <3>1
  <2>3. TypeOK'
    BY <1>1, <1>2, <1>3, <1>7, <2>1, <2>2 DEF IInv, TypeOK, Places
  <2>4. OnLine' /\ Ending'
    BY <1>1, <1>5, <1>7, <2>1 DEF OnLine, Ending
  <2>5. Foreground'
    BY <1>1, <1>2, <1>3, <1>4, <1>7, <2>1, <2>2 DEF IInv, Foreground
  <2>6. Background'
    BY <1>1, <1>2, <1>7, <2>1 DEF IInv, Background
  <2>7. BackgroundTracked'
    BY <1>1, <1>2, <1>3, <1>7, <2>1 DEF IInv, BackgroundTracked
  <2> QED
    BY <2>1, <2>2, <2>3, <2>4, <2>5, <2>6, <2>7 DEF IInv
<1>8. CASE /\ lineState = "singleBackground" /\ pc' = "insert"
           /\ kind' = [kind EXCEPT ![p] = "back"]
           /\ UNCHANGED <<i, pids>>
  <2>1. /\ kind' \in [Pids -> {"fore", "back"}] /\ kind'[p] = "back"
        /\ \A q \in Pids : q # p => kind'[q] = kind[q]
    BY <1>1, <1>8
  <2>2. TypeOK' /\ pids' \in Seq(Pids) /\ i' # 0
    BY <1>1, <1>2, <1>8, <2>1 DEF IInv, TypeOK, Places
  <2>3. OnLine' /\ Ending'
    BY <1>1, <1>5, <1>8 DEF OnLine, Ending
  <2>4. Foreground'
    BY <1>1, <1>2, <1>3, <1>4, <1>8, <2>1 DEF IInv, Foreground
  <2>5. Background'
    BY <1>1, <1>2, <1>3, <1>8, <2>1 DEF IInv, Background
  <2>6. BackgroundTracked'
    BY <1>1, <1>2, <1>3, <1>5, <1>8, <2>1 DEF IInv, BackgroundTracked
  <2> QED
    BY <2>2, <2>3, <2>4, <2>5, <2>6 DEF IInv
<1> QED
  BY <1>6, <1>7, <1>8 DEF Fork

\* The command in the background is known from here on.
LEMMA InsertInv ==
  ASSUME IInv, Insert
  PROVE  IInv'
<1>1. /\ UNCHANGED <<line, i, pids, cpid, carrySerialCommands, phase, kind, group, termed,
                     pending, exiting, it, broken, missed, nlines, nints>>
      /\ pc = "insert" /\ pc' = "end" /\ backProcesses' = backProcesses \cup {cpid}
  BY DEF Insert, processes, exits, bounds
<1>2. cpid \in Pids /\ kind[cpid] = "back" /\ (Child(cpid) \/ cpid \in missed)
  BY <1>1 DEF IInv, Background
<1>3. TypeOK' /\ pids' \in Seq(Pids) /\ i' # 0
  BY <1>1, <1>2 DEF IInv, TypeOK, Places
<1>4. OnLine' /\ Ending'
  BY <1>1 DEF IInv, OnLine, Ending
<1>5. Foreground'
  BY <1>1 DEF IInv, Foreground, Child
<1>6. Background'
  BY <1>1, <1>2 DEF IInv, Background
<1>7. BackgroundTracked'
  BY <1>1, <1>2 DEF IInv, BackgroundTracked, Child
<1> QED
  BY <1>3, <1>4, <1>5, <1>6, <1>7 DEF IInv

\* A child in the foreground that has ended, or was reaped before, is waited for.
LEMMA WaitedFacts ==
  ASSUME IInv, NEW c \in Pids, kind[c] = "fore", phase[c] \in {"zombie", "reaped"},
         phase' = [phase EXCEPT ![c] = "reaped"],
         UNCHANGED <<cpid, backProcesses, kind, group, exiting, missed>>,
         pc \in {"waitpid", "waitpids"}, pc' \in {"reap", "waitpids"}
  PROVE  /\ phase' \in [Pids -> {"none", "forked", "running", "zombie", "reaped"}]
         /\ ~Child(c)'
         /\ \A q \in Pids : /\ q # c => (Child(q)' <=> Child(q))
                            /\ phase'[q] = "none" <=> phase[q] = "none"
         /\ Background' /\ BackgroundTracked' /\ Ending'
<1>1. /\ phase \in [Pids -> {"none", "forked", "running", "zombie", "reaped"}]
      /\ backProcesses \subseteq Pids
  BY DEF IInv, TypeOK
<1>2. /\ phase' \in [Pids -> {"none", "forked", "running", "zombie", "reaped"}]
      /\ ~Child(c)' /\ c \notin backProcesses
      /\ \A q \in Pids : /\ q # c => (Child(q)' <=> Child(q))
                         /\ phase'[q] = "none" <=> phase[q] = "none"
                         /\ phase'[q] = "running" <=> phase[q] = "running"
  BY <1>1 DEF Child, IInv, Background
<1>3. Background'
  BY <1>1, <1>2 DEF IInv, Background
<1>4. BackgroundTracked'
  BY <1>1, <1>2 DEF IInv, BackgroundTracked
<1>5. Ending'
  BY DEF IInv, Ending
<1> QED
  BY <1>2, <1>3, <1>4, <1>5

\* The command that the shell has waited for is the only one in the foreground.
LEMMA WaitPidInv ==
  ASSUME IInv, WaitPid
  PROVE  IInv'
<1>1. /\ UNCHANGED <<line, i, pids, cpid, carrySerialCommands, backProcesses, kind, group,
                     termed, pending, exiting, it, broken, missed, nlines,
                     nints>>
      /\ pc = "waitpid" /\ pc' = "reap" /\ phase[cpid] \in {"zombie", "reaped"}
      /\ phase' = [phase EXCEPT ![cpid] = "reaped"] /\ lineState' = lineState
  BY SameLine DEF WaitPid, exits, bounds
<1>2. cpid \in Pids /\ kind[cpid] = "fore"
  BY <1>1 DEF IInv, Foreground
<1>3. /\ phase' \in [Pids -> {"none", "forked", "running", "zombie", "reaped"}]
      /\ ~Child(cpid)' /\ Background' /\ BackgroundTracked' /\ Ending'
      /\ \A q \in Pids : /\ q # cpid => (Child(q)' <=> Child(q))
                         /\ phase'[q] = "none" <=> phase[q] = "none"
  <2>1. PICK c \in Pids : c = cpid
    BY <1>2
  <2>2. /\ phase' \in [Pids -> {"none", "forked", "running", "zombie", "reaped"}]
        /\ ~Child(c)' /\ Background' /\ BackgroundTracked' /\ Ending'
        /\ \A q \in Pids : /\ q # c => (Child(q)' <=> Child(q))
                           /\ phase'[q] = "none" <=> phase[q] = "none"
    BY <1>1, <1>2, <2>1, WaitedFacts
  <2> QED
    BY <1>1, <2>1, <2>2
<1>4. TypeOK' /\ pids' \in Seq(Pids) /\ i' # 0
  BY <1>1, <1>3 DEF IInv, TypeOK, Places
<1>5. OnLine'
  BY <1>1 DEF IInv, OnLine
<1>6. Foreground'
  <2>1. \A k \in DOMAIN pids : pids[k] \in Pids
    BY DEF IInv, TypeOK
  <2> QED
    BY <1>1, <1>3, <2>1 DEF IInv, Foreground
<1> QED
  BY <1>3, <1>4, <1>5, <1>6 DEF IInv

\* The pids of a parallel line are waited for one by one.
LEMMA WaitPidsInv ==
  ASSUME IInv, WaitPids
  PROVE  IInv'
<1>1. /\ UNCHANGED <<line, i, cpid, carrySerialCommands, backProcesses, kind, group, termed,
                     pending, exiting, it, broken, missed, nlines, nints>>
      /\ pc = "waitpids" /\ lineState' = lineState /\ lineState = "multiForeParallel"
      /\ pids \in Seq(Pids)
  BY SameLine DEF WaitPids, exits, bounds, IInv, OnLine
<1>2. CASE /\ pids # <<>> /\ phase[Head(pids)] \in {"zombie", "reaped"}
           /\ phase' = [phase EXCEPT ![Head(pids)] = "reaped"]
           /\ pids' = Tail(pids) /\ pc' = pc
  <2>1. /\ pids' \in Seq(Pids) /\ Head(pids) \in Pids /\ Head(pids) = pids[1]
        /\ 1 \in DOMAIN pids
        /\ \A k \in DOMAIN pids' : k + 1 \in DOMAIN pids /\ pids'[k] = pids[k + 1]
        /\ \A k \in DOMAIN pids : k = 1 \/ (k - 1 \in DOMAIN pids' /\ pids'[k - 1] = pids[k])
    <3>1. /\ Len(pids) \in Nat /\ Len(pids) # 0 /\ DOMAIN pids = 1 .. Len(pids)
          /\ Tail(pids) \in Seq(Pids) /\ DOMAIN Tail(pids) = 1 .. Len(pids) - 1
          /\ \A k \in 1 .. Len(pids) - 1 : Tail(pids)[k] = pids[k + 1]
          /\ Head(pids) = pids[1]
      BY <1>1, <1>2
    <3> QED
      BY <1>1, <1>2, <3>1
  <2>2. kind[Head(pids)] = "fore"
    BY <2>1 DEF IInv, Foreground
  <2>3. PICK c \in Pids : c = Head(pids)
    BY <2>1
  <2>4. /\ phase' \in [Pids -> {"none", "forked", "running", "zombie", "reaped"}]
        /\ ~Child(c)' /\ Background' /\ BackgroundTracked' /\ Ending'
        /\ \A q \in Pids : /\ q # c => (Child(q)' <=> Child(q))
                           /\ phase'[q] = "none" <=> phase[q] = "none"
    BY <1>1, <1>2, <2>2, <2>3, WaitedFacts
  <2>5. TypeOK' /\ i' # 0
    BY <1>1, <1>2, <2>1, <2>4 DEF IInv, TypeOK
  <2>6. OnLine'
    BY <1>1, <1>2 DEF OnLine
  <2>7. Foreground'
    <3>1. \A k \in DOMAIN pids : pids[k] \in Pids
      BY DEF IInv, TypeOK
    <3>2. \A k \in DOMAIN pids' : kind'[pids'[k]] = "fore" /\ phase'[pids'[k]] # "none"
      BY <1>1, <2>1, <2>4, <3>1 DEF IInv, Foreground
    <3>3. ASSUME NEW q \in Pids, kind'[q] = "fore", Child(q)'
          PROVE  \E k \in DOMAIN pids' : pids'[k] = q
      <4>1. Child(q) /\ q # c /\ kind[q] = "fore"
        BY <1>1, <2>4, <3>3
      <4>2. PICK k \in DOMAIN pids : pids[k] = q
        BY <1>1, <4>1 DEF IInv, Foreground
      <4> QED
        BY <2>1, <2>3, <4>1, <4>2
    <3> QED
      BY <1>1, <1>2, <3>2, <3>3 DEF Foreground
  <2> QED
    BY <2>1, <2>4, <2>5, <2>6, <2>7 DEF IInv
<1>3. CASE /\ pids = <<>> /\ pc' = "end"
           /\ UNCHANGED <<phase, pids>>
  <2>1. TypeOK' /\ pids' \in Seq(Pids) /\ i' # 0
    BY <1>1, <1>3 DEF IInv, TypeOK, Places
  <2>2. OnLine' /\ Ending'
    BY <1>1, <1>3 DEF IInv, OnLine, Ending
  <2>3. Foreground'
    <3>1. DOMAIN pids = {}
      BY <1>3
    <3> QED
      BY <1>1, <1>3, <3>1 DEF IInv, Foreground, Child
  <2>4. Background' /\ BackgroundTracked'
    BY <1>1, <1>3 DEF IInv, Background, BackgroundTracked, Child
  <2> QED
    BY <2>1, <2>2, <2>3, <2>4 DEF IInv
<1> QED
  BY <1>2, <1>3 DEF WaitPids

\* reapChildren between two commands and at the end of a line.
LEMMA ReapInv ==
  ASSUME IInv, Reap \/ EndOfLine
  PROVE  IInv'
<1>1. /\ UNCHANGED <<line, pids, cpid, carrySerialCommands, kind, group, termed, pending,
                     exiting, it, broken, missed, nlines, nints>>
      /\ \/ pc = "reap" /\ pc' = "test" /\ i' = i + 1
         \/ pc = "end" /\ pc' = "reset" /\ i' = i
      /\ Collect(Zombies) /\ lineState' = lineState
  BY SameLine DEF Reap, EndOfLine, reapChildren, exits, bounds
<1>2. /\ phase' \in [Pids -> {"none", "forked", "running", "zombie", "reaped"}]
      /\ backProcesses' \subseteq Pids
      /\ \A p \in Pids : /\ Child(p)' => Child(p)
                         /\ phase'[p] = "none" <=> phase[p] = "none"
  BY <1>1, CollectFacts
<1>3. TypeOK' /\ pids' \in Seq(Pids) /\ i' # 0
  <2>1. i \in Nat /\ i # 0 /\ i' \in Nat /\ i' # 0
    BY <1>1 DEF IInv, TypeOK
  <2> QED
    BY <1>1, <1>2, <2>1 DEF IInv, TypeOK, Places
<1>4. OnLine' /\ Ending'
  BY <1>1 DEF IInv, OnLine, Ending
<1>5. Foreground'
  <2>1. \A k \in DOMAIN pids : pids[k] \in Pids
    BY DEF IInv, TypeOK
  <2> QED
    BY <1>1, <1>2, <2>1 DEF IInv, Foreground
<1>6. Background' /\ BackgroundTracked'
  BY <1>1, CollectBackground
<1> QED
  BY <1>3, <1>4, <1>5, <1>6 DEF IInv

-----------------------------------------------------------------------------
(* The specification *)

\* Before the first prompt there are no children.
LEMMA IInvInit == Init => IInv
<1> SUFFICES ASSUME Init
             PROVE  IInv
  OBVIOUS
<1>1. pids = <<>> /\ pids \in Seq(Pids) /\ DOMAIN pids = {}
  BY EmptySeq DEF Init
<1>2. TypeOK /\ i # 0
  <2>1. /\ phase \in [Pids -> {"none", "forked", "running", "zombie", "reaped"}]
        /\ kind \in [Pids -> {"fore", "back"}]
        /\ group \in [Pids -> {"shell", "own"}]
    BY DEF Init
  <2>2. termed \in [Pids -> BOOLEAN]
    BY Zenon DEF Init
  <2>3. /\ carrySerialCommands \in BOOLEAN /\ pending \in BOOLEAN /\ exiting \in BOOLEAN
        /\ broken \in BOOLEAN
    BY Zenon DEF Init
  <2>4. /\ nlines \in 0 .. MaxLines /\ nints \in 0 .. MaxInts
        /\ it \in Pids \cup {0} /\ missed \subseteq Pids
    BY ShellAssumption DEF Init
  <2>5. /\ pc \in Places /\ line \in Lines \cup {<<>>} /\ backProcesses \subseteq Pids
        /\ i \in Nat /\ i # 0 /\ pc \notin {"exec", "kill", "next"} /\ cpid \in Pids \cup {0}
    BY DEF Init, Places
  <2>6. \A k \in DOMAIN pids : pids[k] \in Pids
    BY <1>1
  <2> QED
    BY Zenon, <2>1, <2>2, <2>3, <2>4, <2>5, <2>6 DEF TypeOK
<1>3. \A p \in Pids : phase[p] = "none" /\ kind[p] = "fore" /\ ~Child(p)
  BY DEF Init, Child
<1>4. OnLine /\ Ending
  BY DEF Init, OnLine, Ending
<1>5. Foreground /\ Background /\ BackgroundTracked
  BY <1>1, <1>3 DEF Init, Foreground, Background, BackgroundTracked
<1> QED
  BY <1>1, <1>2, <1>4, <1>5 DEF IInv

\* Nothing changes.
LEMMA StutterInv ==
  ASSUME IInv, UNCHANGED vars
  PROVE  IInv'
<1>1. /\ UNCHANGED <<pc, line, i, pids, cpid, carrySerialCommands, backProcesses, phase, kind,
                     group, termed, pending, exiting, it, broken, missed, nlines,
                     nints>>
      /\ lineState' = lineState /\ commands' = commands
  BY SameLine DEF vars, main, processes, exits, bounds
<1>2. TypeOK' /\ pids' \in Seq(Pids) /\ i' # 0
  BY <1>1 DEF IInv, TypeOK
<1>3. OnLine' /\ Ending' /\ Foreground' /\ Background' /\ BackgroundTracked'
  BY <1>1 DEF IInv, OnLine, Ending, Foreground, Background, BackgroundTracked, Child
<1> QED
  BY <1>2, <1>3 DEF IInv

\* Every step keeps the invariant.
LEMMA IInvNext ==
  ASSUME IInv, [Next]_vars
  PROVE  IInv'
<1>1. CASE MainStep
  BY <1>1, ParseInv, TestInv, NoChildInv, ForkInv, InsertInv, WaitPidInv, ReapInv, WaitPidsInv,
     ExitCallInv, SendTermInv, NextTermInv, WaitAllInv, ResetInv DEF MainStep
<1>2. CASE Read \/ CtrlC \/ sigint_handler \/ Terminate
  BY <1>2, ReadInv, CtrlCInv, HandlerInv, TerminateInv
<1>3. ASSUME NEW p \in Pids, ChildStep(p)
      PROVE  IInv'
  BY <1>3, ChildStepInv
<1>4. CASE Quiet \/ UNCHANGED vars
  BY <1>4, StutterInv DEF Quiet
<1> QED
  BY <1>1, <1>2, <1>3, <1>4 DEF Next

\* Every state of the shell is as the inductive invariant says.
THEOREM Invariance == Spec => []IInv
<1> QED
  BY IInvInit, IInvNext, PTL DEF Spec

\* Types; in particular a command that is executed exists, whatever the line:
\* for a line in the background commands[0] is used without the test for
\* NULL that the loops over the commands make (my_shell.cpp:481, 494, 509).
THEOREM TypeCorrect == Spec => []TypeOK
<1>1. IInv => TypeOK
  BY DEF IInv
<1> QED
  BY <1>1, Invariance, PTL

\* The prompt comes, and a sequence goes on, only when the commands in the
\* foreground are done (the main loop, waitpid, reapChildren).
THEOREM PromptAfterForeground == Spec => []ForegroundFirst
<1>1. IInv => ForegroundFirst
  BY DEF IInv, Foreground, ForegroundFirst
<1> QED
  BY <1>1, Invariance, PTL

\* The set of background processes is right (the insertion, reapChildren).
THEOREM BackgroundKnown == Spec => []BackgroundTracked
<1>1. IInv => BackgroundTracked
  BY DEF IInv
<1> QED
  BY <1>1, Invariance, PTL

\* Ctrl-C ends no command in the background (setpgid before execvp).
THEOREM CtrlCSparesBackground == Spec => BackgroundSpared
<1>1. IInv /\ [Next]_vars =>
        [CtrlC => \A p \in Pids : kind[p] = "back" => phase'[p] = phase[p]]_vars
  BY CtrlCInv
<1> QED
  BY <1>1, Invariance, PTL DEF Spec, BackgroundSpared
=============================================================================
