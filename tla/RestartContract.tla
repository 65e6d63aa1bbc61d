-------------------------- MODULE RestartContract --------------------------
(***************************************************************************)
(* What restart_pods promises its caller, without the API server, the      *)
(* controllers and the waits: the pods that ran before the call's <since>  *)
(* go one at a time and none of them comes back, and a call that returns 0 *)
(* has seen the last of them go.  The rotations rely on no more than this. *)
(***************************************************************************)
CONSTANT Pods

VARIABLES running,   \* the pods from before <since> that still run
          outcome    \* of the call: "none", "called", "ok" or "failed"

vars == <<running, outcome>>

Init == running \in SUBSET Pods /\ outcome = "none"

(* A caller tries again after a failure, and never after a success.        *)
Call ==
    /\ outcome \in {"none", "failed"} /\ outcome' = "called"
    /\ UNCHANGED running

(* The call deletes an old pod, or it ends by itself.                      *)
OldPodEnds ==
    /\ \E u \in running : running' = running \ {u}
    /\ UNCHANGED outcome

Succeed ==
    /\ outcome = "called" /\ running = {} /\ outcome' = "ok"
    /\ UNCHANGED running

Fail ==
    /\ outcome = "called" /\ outcome' = "failed"
    /\ UNCHANGED running

Next == Call \/ OldPodEnds \/ Succeed \/ Fail

Spec == Init /\ [][Next]_vars

============================================================================
