-------------------------- MODULE MCUserMemoryFork --------------------------
(* Programs that keep the pages they were loaded with: one that gives them *)
(* back, as sbrk of minus its size does, has no code left to call fork.    *)
EXTENDS UserMemory

KeepsProgram == \A p \in Procs : state[p] = "live" => 0 .. InitPages - 1 \subseteq pages[p]

SpecFork == Init /\ [][Next /\ KeepsProgram']_vars
=============================================================================
