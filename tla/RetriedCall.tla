---------------------------- MODULE RetriedCall ----------------------------
(***************************************************************************)
(* What the agent may count on when it calls the platform: the call comes  *)
(* back, and it only succeeds if the platform acted on it.  Not more than  *)
(* that: the platform may act on it several times, may have acted on it    *)
(* although it failed, and may act on it after it came back.               *)
(***************************************************************************)
EXTENDS Naturals

CONSTANT MostServes   \* copies of one call the platform may get

VARIABLES
  served,   \* copies it acted on
  result    \* what the caller was told

callVars == <<served, result>>

Init == served = 0 /\ result = "none"

Serve ==
  /\ served < MostServes
  /\ served' = served + 1
  /\ UNCHANGED result

Succeed ==
  /\ result = "none" /\ served > 0
  /\ result' = "ok"
  /\ UNCHANGED served

Fail ==
  /\ result = "none"
  /\ result' = "error"
  /\ UNCHANGED served

Next == Serve \/ Succeed \/ Fail

Safe == Init /\ [][Next]_callVars

Spec == Safe /\ WF_callVars(Succeed \/ Fail)

=============================================================================
