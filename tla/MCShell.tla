------------------------------- MODULE MCShell -------------------------------
(* Lines for model checking Shell. *)
EXTENDS Shell

\* The kinds of lines, the order of commands, a "&" at the end, exit on its
\* own and while other commands run, and as a name of something else.
MCLines ==
  {<<>>, <<"cd", "exit">>, <<"exit", "run">>, <<"run", "&">>, <<"run", "&", "&", "run">>,
   <<"run", "&", "&", "&", "run">>, <<"run", "&", "&", "&", "exit">>,
   <<"run", "&", "&", "&", "&">>, <<"exit">>}
=============================================================================
