------------------------------ MODULE MCWelcome ------------------------------
(* Where programs make system calls, for model checking Welcome. *)
EXTENDS Welcome

\* Two places in a program, at different depths of the stack.
MCContexts == {[eip |-> 1, stack |-> 1], [eip |-> 2, stack |-> 2]}
=============================================================================
