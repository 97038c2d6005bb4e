------------------------------ MODULE WorkPool ------------------------------
(***************************************************************************)
(* What the master-worker program of Lab-4 promises, with no thread, lock  *)
(* or condition variable in sight: the requests 0 .. total_items - 1 are   *)
(* issued in order, at most max_buf_size of them are outstanding at any    *)
(* time, and each outstanding request is served exactly once.              *)
(***************************************************************************)
EXTENDS Integers, FiniteSets

CONSTANTS total_items,   \* number of requests to issue
          max_buf_size   \* bound on the outstanding requests

VARIABLES issued,        \* how many requests have been issued
          outstanding,   \* the requests issued and not served
          served         \* the requests served

poolVars == <<issued, outstanding, served>>

Init == issued = 0 /\ outstanding = {} /\ served = {}

\* A master issues the next request.
Issue ==
  /\ issued < total_items
  /\ Cardinality(outstanding) < max_buf_size
  /\ outstanding' = outstanding \cup {issued}
  /\ issued' = issued + 1
  /\ UNCHANGED served

\* A worker serves any outstanding request.
Serve(i) ==
  /\ i \in outstanding
  /\ outstanding' = outstanding \ {i}
  /\ served' = served \cup {i}
  /\ UNCHANGED issued

ServeAny == \E i \in outstanding : Serve(i)

Next == Issue \/ ServeAny

SafeSpec == Init /\ [][Next]_poolVars

Spec == SafeSpec /\ WF_poolVars(Issue) /\ WF_poolVars(ServeAny)
=============================================================================
