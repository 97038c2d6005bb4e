---------------------------- MODULE MCSleepSched ----------------------------
(* Arguments for the model checker: a configuration file has no negative  *)
(* numbers.                                                               *)
EXTENDS SleepSched

MCArguments == {-1}
=============================================================================
