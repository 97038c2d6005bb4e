------------------------------- MODULE Shell -------------------------------
(***************************************************************************)
(* Lab-1 my_shell.cpp: the main loop of the shell, its signal handlers and *)
(* the processes it starts.  A handler runs between any two steps of the   *)
(* main loop; signal() restarts the system calls it interrupts.            *)
(*                                                                         *)
(* A symbol of a line is a "&", a word, or a stretch of blanks that stands *)
(* alone; what separates two words is left out.  A process is a number, in *)
(* the order of creation; pids are not used again.  fork may fail.         *)
(***************************************************************************)
EXTENDS Integers, Sequences, FiniteSets

F == INSTANCE FiniteSetsExt

CONSTANTS
  Lines,        \* what the user may type, without the end of the line
  MaxLines,     \* bound: lines typed
  MaxForks,     \* bound: processes created
  MaxInts       \* bound: how often the user types Ctrl-C

ASSUME ShellAssumption ==
  /\ Lines \subseteq Seq({"&", "blank", "run", "cd", "exit"})
  /\ MaxLines \in Nat /\ MaxForks \in Nat /\ MaxInts \in Nat

VARIABLES
  pc, line, i, pids, cpid,          \* main and the functions it calls
  carrySerialCommands, backProcesses,
  phase, kind, group, termed,       \* the processes: see below
  pending,                          \* has SIGINT not been handled yet?
  exiting,                          \* has the user typed exit?
  it,                               \* the pid that the loop of exitCall is at, 0 after the last
  broken,                           \* history: has a signal broken this loop?
  missed,                           \* history: children sigint_handler reaped before Insert
  nlines, nints

main == <<pc, line, i, pids, cpid>>
processes == <<phase, kind, group, termed>>
exits == <<exiting, it, broken, missed>>
bounds == <<nlines, nints>>
vars == <<main, carrySerialCommands, backProcesses, processes, pending, exits, bounds>>

Pids == 1 .. MaxForks

Init ==
  /\ pc = "reset" /\ line = <<>> /\ i = 1 /\ pids = <<>> /\ cpid = 0
  /\ carrySerialCommands = TRUE
  /\ backProcesses = {}
  /\ phase = [p \in Pids |-> "none"]       \* none, forked, running, zombie, reaped
  /\ kind = [p \in Pids |-> "fore"]        \* a foreground or a background command
  /\ group = [p \in Pids |-> "shell"]      \* its process group
  /\ termed = [p \in Pids |-> FALSE]       \* has it been sent SIGTERM?
  /\ pending = FALSE /\ exiting = FALSE
  /\ it = 0 /\ broken = FALSE /\ missed = {}
  /\ nlines = 0 /\ nints = 0

-----------------------------------------------------------------------------
(* the line *)

\* The positions of the first "&" and of those right after it.
FirstRun(l) ==
  {j \in DOMAIN l : /\ l[j] = "&"
                    /\ ~\E k, m \in 1 .. j : k < m /\ l[k] = "&" /\ l[m] # "&"}

setLineState(l) ==
  CASE FirstRun(l) = {} -> "multiForeSerial"
    [] Cardinality(FirstRun(l)) = 1 -> "singleBackground"
    [] Cardinality(FirstRun(l)) = 2 -> "multiForeSerial"
    [] Cardinality(FirstRun(l)) = 3 -> "multiForeParallel"
    [] OTHER -> "junkie"

\* The stretches between the "&"s that are not empty; the end of the line
\* is a blank, and makes a command of its own after a last "&".
breakIntoCommands(l) ==
  LET text == {j \in DOMAIN l : l[j] # "&"}
      starts == {j \in text : j - 1 \notin text}
      Command(k) == {j \in text : Cardinality({a \in starts : a <= j}) = k}
  IN  [k \in 1 .. Cardinality(starts) |-> SubSeq(l, F!Min(Command(k)), F!Max(Command(k)))]

tokenize(command) == SelectSeq(command, LAMBDA word : word # "blank")

\* "exit" is the shell's only on its own, "cd" with any arguments.
isExitCmd(words) == words = <<"exit">>
isCdCmd(words) == words # <<>> /\ words[1] = "cd"

lineState == setLineState(line)
commands == breakIntoCommands(Append(line, "blank"))
tokens == tokenize(commands[i])

-----------------------------------------------------------------------------
(* children *)

Child(p) == phase[p] \in {"forked", "running", "zombie"}
Zombies == {p \in Pids : phase[p] = "zombie"}

Collect(S) ==
  /\ phase' = [p \in Pids |-> IF p \in S THEN "reaped" ELSE phase[p]]
  /\ backProcesses' = backProcesses \ S

\* waitpid(-1, NULL, WNOHANG) until no zombie is left
reapChildren == Collect(Zombies) /\ UNCHANGED <<kind, group, termed>>

\* The child of a background command leaves the shell's process group.
SetPgid(p) ==
  /\ phase[p] = "forked" /\ kind[p] = "back" /\ group[p] = "shell"
  /\ group' = [group EXCEPT ![p] = "own"]
  /\ UNCHANGED <<main, carrySerialCommands, backProcesses, phase, kind, termed, pending, exits,
                 bounds>>

\* Mutant: the command is executed in the group of the shell.
Exec_AnyGroup(p) ==
  /\ phase[p] = "forked"
  /\ \E next \in {"running", "zombie"} : phase' = [phase EXCEPT ![p] = next]
  /\ UNCHANGED <<main, carrySerialCommands, backProcesses, kind, group, termed, pending, exits,
                 bounds>>

\* execvp, or exit(-1) if there is no such command.
Exec(p) ==
  /\ phase[p] = "forked" /\ (kind[p] = "back" => group[p] = "own")
  /\ \E next \in {"running", "zombie"} : phase' = [phase EXCEPT ![p] = next]
  /\ UNCHANGED <<main, carrySerialCommands, backProcesses, kind, group, termed, pending, exits,
                 bounds>>

\* The command ends, or SIGTERM ends it (before execvp in sigterm_handler,
\* which the child has inherited and which finds no children to wait for).
End(p) ==
  /\ phase[p] = "running" \/ (phase[p] = "forked" /\ termed[p])
  /\ phase' = [phase EXCEPT ![p] = "zombie"]
  /\ UNCHANGED <<main, carrySerialCommands, backProcesses, kind, group, termed, pending, exits,
                 bounds>>

-----------------------------------------------------------------------------
(* signals *)

Gone == pc \in {"exited", "crashed"}

\* The terminal sends SIGINT to the shell's process group.  A child that has
\* not called execvp yet has inherited sigint_handler, which changes the
\* child's memory only; a command may have a handler of its own.
CtrlC ==
  /\ ~Gone /\ nints < MaxInts
  /\ pending' = TRUE
  /\ nints' = nints + 1
  /\ \E ended \in SUBSET {p \in Pids : group[p] = "shell" /\ phase[p] = "running"} :
       phase' = [p \in Pids |-> IF p \in ended THEN "zombie" ELSE phase[p]]
  /\ UNCHANGED <<main, carrySerialCommands, backProcesses, kind, group, termed, exits,
                 nlines>>

sigint_handler ==
  /\ ~Gone /\ pending
  /\ pending' = FALSE
  /\ carrySerialCommands' = FALSE
  /\ reapChildren
  /\ missed' = missed \cup {p \in Zombies : p = cpid /\ pc = "insert"}
  /\ UNCHANGED <<main, exiting, it, broken, bounds>>

\* Somebody else sends SIGTERM to the shell: sigterm_handler waits for all,
\* and does not return to what it has interrupted.
Terminate ==
  /\ pc # "waitall" /\ ~Gone
  /\ pc' = "waitall"
  /\ broken' = (broken \/ pc \in {"kill", "next"})
  /\ UNCHANGED <<line, i, pids, cpid, carrySerialCommands, backProcesses, processes, pending,
                 exiting, it, missed, bounds>>

\* reapChildrenSurely, then exit
WaitAll ==
  /\ pc = "waitall"
  /\ \/ /\ \E p \in Zombies : Collect({p})
        /\ UNCHANGED pc
     \/ /\ \A p \in Pids : ~Child(p)
        /\ pc' = "exited"
        /\ UNCHANGED <<phase, backProcesses>>
  /\ UNCHANGED <<line, i, pids, cpid, carrySerialCommands, kind, group, termed, pending, exits,
                 bounds>>

-----------------------------------------------------------------------------
(* main *)

Reset ==
  /\ pc = "reset"
  /\ carrySerialCommands' = TRUE
  /\ pc' = "read"
  /\ UNCHANGED <<line, i, pids, cpid, backProcesses, processes, pending, exits, bounds>>

Read ==
  /\ pc = "read" /\ nlines < MaxLines
  /\ line' \in Lines
  /\ nlines' = nlines + 1
  /\ pc' = "parse"
  /\ UNCHANGED <<i, pids, cpid, carrySerialCommands, backProcesses, processes, pending, exits,
                 nints>>

Parse ==
  /\ pc = "parse"
  /\ reapChildren
  /\ pc' = IF line = <<>> \/ lineState = "junkie" THEN "reset" ELSE "test"
  /\ i' = 1
  /\ pids' = <<>>
  /\ UNCHANGED <<line, cpid, carrySerialCommands, pending, exits, bounds>>

\* The loops over the commands, and their test of the flag.
Test ==
  LET more == i <= Len(commands) /\ carrySerialCommands IN
  /\ pc = "test"
  /\ pc' = IF lineState = "singleBackground" \/ more THEN "exec"
           ELSE IF lineState = "multiForeParallel" THEN "waitpids" ELSE "end"
  /\ UNCHANGED <<line, i, pids, cpid, carrySerialCommands, backProcesses, processes, pending,
                 exits, bounds>>

\* After a command that leaves nothing to wait for.
Continue ==
  /\ pc' = CASE lineState = "multiForeSerial" -> "reap"
             [] lineState = "singleBackground" -> "end"
             [] lineState = "multiForeParallel" -> "test"
  /\ i' = IF lineState = "multiForeParallel" THEN i + 1 ELSE i

\* Nothing to do, cd, or a fork that fails.
NoChild ==
  /\ pc = "exec" /\ ~isExitCmd(tokens)
  /\ Continue
  /\ UNCHANGED <<line, pids, cpid, carrySerialCommands, backProcesses, processes, pending,
                 exits, bounds>>

\* The three functions that execute a command.
Fork(p) ==
  /\ pc = "exec" /\ tokens # <<>> /\ ~isCdCmd(tokens) /\ ~isExitCmd(tokens)
  /\ phase[p] = "none" /\ \A q \in 1 .. p - 1 : phase[q] # "none"
  /\ phase' = [phase EXCEPT ![p] = "forked"]
  /\ cpid' = p
  /\ \/ /\ lineState = "multiForeSerial"
        /\ pc' = "waitpid"
        /\ UNCHANGED <<i, pids, kind>>
     \/ /\ lineState = "multiForeParallel"
        /\ pids' = Append(pids, p)
        /\ Continue
        /\ UNCHANGED kind
     \/ /\ lineState = "singleBackground"
        /\ kind' = [kind EXCEPT ![p] = "back"]
        /\ pc' = "insert"
        /\ UNCHANGED <<i, pids>>
  /\ UNCHANGED <<line, carrySerialCommands, backProcesses, group, termed, pending, exits,
                 bounds>>

\* Mutant: only foreground commands that run in parallel are remembered.
Insert_Forgotten ==
  /\ pc = "insert"
  /\ pc' = "end"
  /\ UNCHANGED <<line, i, pids, cpid, carrySerialCommands, backProcesses, processes, pending,
                 exits, bounds>>

Insert ==
  /\ pc = "insert"
  /\ backProcesses' = backProcesses \cup {cpid}
  /\ pc' = "end"
  /\ UNCHANGED <<line, i, pids, cpid, carrySerialCommands, processes, pending, exits, bounds>>

\* Mutant: wait(NULL), which any child satisfies.
WaitPid_AnyChild ==
  /\ pc = "waitpid"
  /\ \E p \in Pids : phase[p] \in {"zombie", "reaped"} /\ Collect({p})
  /\ pc' = "reap"
  /\ UNCHANGED <<line, i, pids, cpid, carrySerialCommands, kind, group, termed, pending, exits,
                 bounds>>

\* waitpid(cpid) returns when the child ends, or if it was reaped before.
WaitPid ==
  /\ pc = "waitpid"
  /\ phase[cpid] \in {"zombie", "reaped"}
  /\ phase' = [phase EXCEPT ![cpid] = "reaped"]
  /\ pc' = "reap"
  /\ UNCHANGED <<line, i, pids, cpid, carrySerialCommands, backProcesses, kind, group, termed,
                 pending, exits, bounds>>

Reap ==
  /\ pc = "reap"
  /\ reapChildren
  /\ i' = i + 1
  /\ pc' = "test"
  /\ UNCHANGED <<line, pids, cpid, carrySerialCommands, pending, exits, bounds>>

\* The saved pids of a parallel line, one after the other.
WaitPids ==
  /\ pc = "waitpids"
  /\ \/ /\ pids # <<>> /\ phase[Head(pids)] \in {"zombie", "reaped"}
        /\ phase' = [phase EXCEPT ![Head(pids)] = "reaped"]
        /\ pids' = Tail(pids)
        /\ UNCHANGED pc
     \/ /\ pids = <<>>
        /\ pc' = "end"
        /\ UNCHANGED <<phase, pids>>
  /\ UNCHANGED <<line, i, cpid, carrySerialCommands, backProcesses, kind, group, termed,
                 pending, exits, bounds>>

\* Mutant: the loop ends with reapChildrenSurely.
EndOfLine_Surely ==
  /\ pc = "end"
  /\ \A p \in Pids : phase[p] \notin {"forked", "running"}
  /\ reapChildren
  /\ pc' = "reset"
  /\ UNCHANGED <<line, i, pids, cpid, carrySerialCommands, pending, exits, bounds>>

EndOfLine ==
  /\ pc = "end"
  /\ reapChildren
  /\ pc' = "reset"
  /\ UNCHANGED <<line, i, pids, cpid, carrySerialCommands, pending, exits, bounds>>

\* The first pid in backProcesses after p; the set is in ascending order.
After(p) == LET later == {q \in backProcesses : q > p} IN
            IF later = {} THEN 0 ELSE F!Min(later)

\* The loop goes on with pid p; after the last the shell sends itself SIGTERM.
LoopAt(p) ==
  /\ it' = p
  /\ pc' = IF p = 0 THEN "waitall" ELSE "kill"

\* Mutant: the shell does not send SIGTERM to the background processes.
exitCall_NoKill ==
  /\ pc = "exec" /\ isExitCmd(tokens)
  /\ exiting' = TRUE
  /\ LoopAt(0)
  /\ UNCHANGED <<line, i, pids, cpid, carrySerialCommands, backProcesses, processes, pending,
                 broken, missed, bounds>>

\* The loop over the background processes begins.
exitCall ==
  /\ pc = "exec" /\ isExitCmd(tokens)
  /\ exiting' = TRUE
  /\ LoopAt(After(0))
  /\ UNCHANGED <<line, i, pids, cpid, carrySerialCommands, backProcesses, processes, pending,
                 broken, missed, bounds>>

\* kill(it, SIGTERM)
SendTerm ==
  /\ pc = "kill"
  /\ termed' = [termed EXCEPT ![it] = TRUE]
  /\ pc' = "next"
  /\ UNCHANGED <<line, i, pids, cpid, carrySerialCommands, backProcesses, phase, kind, group,
                 pending, exits, bounds>>

\* The iterator is incremented.  If sigint_handler has erased the element it
\* points to, this follows the pointers of a node that has been freed: to a
\* later element, which may be erased as well, to the end, or astray.
NextTerm ==
  /\ pc = "next"
  /\ \/ it \in backProcesses /\ LoopAt(After(it)) /\ UNCHANGED broken
     \/ /\ it \notin backProcesses /\ broken' = TRUE
        /\ \/ \E p \in Pids : p > it /\ kind[p] = "back" /\ LoopAt(p)
           \/ LoopAt(0)
           \/ pc' = "crashed" /\ UNCHANGED it
  /\ UNCHANGED <<line, i, pids, cpid, carrySerialCommands, backProcesses, processes, pending,
                 exiting, missed, bounds>>

\* The user types no more, or the shell is gone.
Quiet == (pc = "read" \/ pc = "waitall" \/ Gone) /\ UNCHANGED vars

MainStep ==
  \/ Parse \/ Test \/ NoChild \/ (\E p \in Pids : Fork(p)) \/ Insert \/ WaitPid \/ Reap
  \/ WaitPids \/ EndOfLine \/ exitCall \/ SendTerm \/ NextTerm \/ WaitAll \/ Reset

ChildStep(p) == SetPgid(p) \/ Exec(p) \/ End(p)

Next ==
  \/ MainStep \/ Read \/ (\E p \in Pids : ChildStep(p))
  \/ CtrlC \/ sigint_handler \/ Terminate \/ Quiet

Spec == Init /\ [][Next]_vars

\* The shell runs on; a child gets to its command; a command in the foreground
\* ends some time, and any command ends on SIGTERM.
Ends(p) == End(p) /\ (kind[p] = "fore" \/ termed[p])

Fairness ==
  /\ WF_vars(MainStep) /\ WF_vars(sigint_handler)
  /\ \A p \in Pids : WF_vars(SetPgid(p)) /\ WF_vars(Exec(p)) /\ WF_vars(Ends(p))

FairSpec == Spec /\ Fairness

-----------------------------------------------------------------------------
(* Properties *)

Places == {"reset", "read", "parse", "test", "exec", "insert", "waitpid", "reap", "waitpids",
           "end", "kill", "next", "waitall", "exited", "crashed"}

\* Types; a command that is executed exists.
TypeOK ==
  /\ pc \in Places
  /\ line \in Lines \cup {<<>>}
  /\ i \in Nat /\ (pc = "exec" => i \in DOMAIN commands)
  /\ \A k \in DOMAIN pids : pids[k] \in Pids
  /\ cpid \in Pids \cup {0}
  /\ carrySerialCommands \in BOOLEAN
  /\ backProcesses \subseteq Pids
  /\ phase \in [Pids -> {"none", "forked", "running", "zombie", "reaped"}]
  /\ kind \in [Pids -> {"fore", "back"}]
  /\ group \in [Pids -> {"shell", "own"}]
  /\ termed \in [Pids -> BOOLEAN]
  /\ pending \in BOOLEAN /\ exiting \in BOOLEAN /\ broken \in BOOLEAN
  /\ it \in Pids \cup {0} /\ (pc \in {"kill", "next"} => it # 0)
  /\ missed \subseteq Pids
  /\ nlines \in 0 .. MaxLines /\ nints \in 0 .. MaxInts

\* The shell prompts, and goes on with a sequence of "&&", only when the
\* commands in the foreground have ended and have been reaped, whatever ends
\* in the background meanwhile and whatever sigint_handler reaps.
ForegroundFirst ==
  \/ pc \in {"reset", "read", "parse", "end"}
  \/ pc \in {"test", "exec"} /\ lineState = "multiForeSerial"
  => \A p \in Pids : kind[p] = "fore" => ~Child(p)

\* exit reaches every process in the background: each is in the set until it
\* is reaped, except for the moment between its fork and the insertion
\* (my_shell.cpp:371-392).  And it reaches no other: what is in the set is
\* still a child, unless sigint_handler reaped it in that very moment.
BackgroundTracked ==
  /\ \A p \in Pids : kind[p] = "back" /\ Child(p) =>
       p \in backProcesses \/ (p = cpid /\ pc \in {"insert", "waitall"} /\ ~exiting)
  /\ \A p \in backProcesses : Child(p) \/ p \in missed

\* Ctrl-C ends no command in the background, not even in the moment before
\* its process has left the group of the shell (my_shell.cpp:371-383).
BackgroundSpared == [][CtrlC => \A p \in Pids : kind[p] = "back" => phase'[p] = phase[p]]_vars

\* The prompt comes back, commands in the background or not, unless the
\* shell is told to end.
PromptReturns == [](pc # "read" => <>(pc \in {"read", "waitall", "exited"} \/ exiting))

\* After exit the shell ends, and with it everything it has started, whatever
\* ends or is reaped while it sends SIGTERM to one process after the other
\* (my_shell.cpp:45-48).  (If a SIGTERM from outside arrives in this loop the
\* rest is not signalled but waited for, and if sigint_handler erases the pid
\* the loop is at, the loop goes astray: then it need not end.)
ExitEnds == [](exiting => <>(pc = "exited" \/ broken))
=============================================================================
