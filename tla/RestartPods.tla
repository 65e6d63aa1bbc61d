---------------------------- MODULE RestartPods ----------------------------
(***************************************************************************)
(* restart_pods of files/restart-pods.sh: a workload is restarted by the   *)
(* delete of its pods, one at a time, while its controller replaces them.  *)
(* A call may fail or time out, and the next one takes over what it left.  *)
(*                                                                         *)
(* A pod is its UID.  A pod of a StatefulSet also has a name (its ordinal) *)
(* that its replacement gets again.  The workload is at its scale: no      *)
(* rollout with a surge runs.                                              *)
(***************************************************************************)
EXTENDS Integers, FiniteSets, FiniteSetsExt

CONSTANTS Pods,          \* UIDs
          Want,          \* the wanted pod count
          Stateful,      \* a StatefulSet; otherwise a Deployment
          Since,         \* the caller gives <since>
          MaxCalls,      \* bound: calls of restart_pods
          MaxCrashes     \* bound: pods that crash or are evicted

ASSUME RestartAssumption ==
          /\ Want \in Nat \ {0} /\ IsFiniteSet(Pods)
          /\ Stateful \in BOOLEAN /\ Since \in BOOLEAN
          /\ MaxCalls \in Nat /\ MaxCrashes \in Nat

VARIABLES st,       \* per pod: what the API server lists of it
          name,     \* per pod: its ordinal in a StatefulSet
          before,   \* the pods that ran before the write <since> stands for
          passed,   \* <since> is in the past
          fresh,    \* the pods created after <since>
          pc, old, todo, n,   \* the call: its step and its shell variables
          result,   \* of the last call
          calls, crashes

shell == <<pc, old, todo, n, result, calls>>
cluster == <<st, name, fresh, passed, crashes>>
vars == <<before, shell, cluster>>

Names == 1..Want
Status == {"none", "starting", "ready", "orphan", "ending", "failed"}

TypeOK ==
    /\ st \in [Pods -> Status]
    /\ name \in [Pods -> Names]
    /\ before \subseteq Pods /\ fresh \subseteq Pods \ before
    /\ passed \in BOOLEAN
    /\ pc \in {"idle", "loop", "wait"}
    /\ old \subseteq Pods /\ todo \subseteq old
    /\ n \in Nat
    /\ result \in {"none", "ok", "failed"}
    /\ calls \in 0..MaxCalls /\ crashes \in 0..MaxCrashes

(* The workload has its pods, and one more without an owner may match its  *)
(* selector.                                                               *)
Init ==
    /\ \E B \in kSubset(Want, Pods) :
          /\ before = B
          /\ name \in [Pods -> Names]
          /\ Stateful => \A u, v \in B : u # v => name[u] # name[v]
          /\ \A u \in Pods \ B : name[u] = 1
          /\ ~Stateful => \A u \in B : name[u] = 1
          /\ \/ st = [u \in Pods |-> IF u \in B THEN "ready" ELSE "none"]
             \/ \E o \in Pods \ B :
                   st = [u \in Pods |-> IF u \in B THEN "ready"
                                        ELSE IF u = o THEN "orphan" ELSE "none"]
    /\ fresh = {} /\ passed = FALSE
    /\ pc = "idle" /\ old = {} /\ todo = {} /\ n = 0
    /\ result = "none" /\ calls = 0 /\ crashes = 0

-----------------------------------------------------------------------------
(* restart_pods                                                            *)

(* Mutant: every pod of the list counts.                                   *)
Listed == {u \in Pods : st[u] # "none"}

(* _restart_pods_live: not being deleted, not ended, and with an owner.    *)
Live == {u \in Pods : st[u] \in {"starting", "ready"}}

(* _restart_pods_is_ready, of the live pods.                               *)
Ready == {u \in Live : st[u] = "ready"}

(* Mutants: an old pod that is not Ready is left alone; <since> is ignored.*)
StaleIfReady == {u \in Ready : ~Since \/ u \notin fresh}
StaleAll == Live

(* The live pods created at or before <since>, or all of them.             *)
Stale == {u \in Live : ~Since \/ u \notin fresh}

(* Mutant: the UIDs of the pods to delete are not kept.                    *)
CallForgetsOld ==
    /\ pc = "idle" /\ result # "ok" /\ calls < MaxCalls
    /\ pc' = "loop" /\ calls' = calls + 1
    /\ old' = {} /\ todo' = Stale /\ n' = 0
    /\ UNCHANGED <<before, result, cluster>>

(* One read of the pods gives what the call deletes.                       *)
Call ==
    /\ pc = "idle" /\ result # "ok" /\ calls < MaxCalls
    /\ pc' = "loop" /\ calls' = calls + 1
    /\ old' = Stale /\ todo' = Stale /\ n' = 0
    /\ UNCHANGED <<before, result, cluster>>

(* What a delete of the name of u deletes now.                             *)
Named(u) == {v \in Pods : /\ st[v] \in {"starting", "ready", "failed"}
                          /\ v = u \/ (Stateful /\ name[v] = name[u])}

(* Mutant: the old pods are deleted together and then awaited.             *)
DeletePodsAtOnce ==
    /\ pc = "loop" /\ todo # {}
    /\ todo' = {}
    /\ st' = [v \in Pods |-> IF \E u \in todo : v \in Named(u) THEN "ending" ELSE st[v]]
    /\ n' = n + Cardinality(todo) /\ pc' = "wait"
    /\ UNCHANGED <<before, old, result, calls, name, fresh, passed, crashes>>

(* One delete, without a wait for the pod to be gone.                      *)
DeletePod ==
    /\ pc = "loop"
    /\ \E u \in todo :
          /\ todo' = todo \ {u}
          /\ st' = [v \in Pods |-> IF v \in Named(u) THEN "ending" ELSE st[v]]
    /\ n' = n + 1 /\ pc' = "wait"
    /\ UNCHANGED <<before, old, result, calls, name, fresh, passed, crashes>>

(* _restart_pods_new_ready: after the nth delete, n new pods are Ready.    *)
NewReady ==
    /\ pc = "wait" /\ pc' = "loop"
    /\ Cardinality(Ready \ old) >= IF n < Want THEN n ELSE Want
    /\ UNCHANGED <<before, old, todo, n, result, calls, cluster>>

(* _restart_pods_ready: the workload has its pods again, none of them old. *)
Return ==
    /\ pc = "loop" /\ todo = {} /\ pc' = "idle"
    /\ Cardinality(Ready) >= Want
    /\ Live \cap old = {}
    /\ result' = "ok"
    /\ UNCHANGED <<before, old, todo, n, calls, cluster>>

(* The deadline, a read or a delete that fails, or the end of the job.     *)
GiveUp ==
    /\ pc # "idle" /\ pc' = "idle"
    /\ result' = "failed"
    /\ UNCHANGED <<before, old, todo, n, calls, cluster>>

-----------------------------------------------------------------------------
(* The controller of the workload, and the pods                            *)

Set(u, s) == st' = [st EXCEPT ![u] = s]

(* The names that lack a pod: an ordinal is free once its pod is gone; a   *)
(* Deployment counts the pods that are not ending.                         *)
Active == {u \in Pods : st[u] \in {"starting", "ready"}}
Missing == IF Stateful
           THEN {i \in Names : \A u \in Pods : name[u] = i => st[u] \in {"none", "orphan"}}
           ELSE IF Cardinality(Active) < Want THEN {1} ELSE {}

CreatePod ==
    \E u \in Pods \ (before \cup old), i \in Missing :
       /\ st[u] = "none" /\ Set(u, "starting")
       /\ name' = [name EXCEPT ![u] = i]
       /\ fresh' = IF passed THEN fresh \cup {u} ELSE fresh \ {u}
       /\ UNCHANGED <<before, shell, passed, crashes>>

PodReady(u) ==
    /\ st[u] = "starting" /\ Set(u, "ready")
    /\ UNCHANGED <<before, shell, name, fresh, passed, crashes>>

(* A deleted pod ends; a StatefulSet also removes a failed one.            *)
PodGone(u) ==
    /\ st[u] = "ending" \/ (Stateful /\ st[u] = "failed")
    /\ Set(u, "none")
    /\ UNCHANGED <<before, shell, name, fresh, passed, crashes>>

PodCrashes(u) ==
    /\ st[u] \in {"starting", "ready"} /\ crashes < MaxCrashes
    /\ \E s \in {"starting", "failed"} : Set(u, s)
    /\ crashes' = crashes + 1
    /\ UNCHANGED <<before, shell, name, fresh, passed>>

SincePasses ==
    /\ Since /\ ~passed /\ passed' = TRUE
    /\ UNCHANGED <<before, shell, st, name, fresh, crashes>>

Script == Call \/ DeletePod \/ NewReady \/ Return
Environment == \/ CreatePod \/ SincePasses
               \/ \E u \in Pods : PodReady(u) \/ PodGone(u) \/ PodCrashes(u)

Next == Script \/ GiveUp \/ Environment

Spec == Init /\ [][Next]_vars

(* The script and the controller run on, and a started pod becomes Ready.  *)
Fairness ==
    /\ WF_vars(DeletePod \/ NewReady \/ Return) /\ WF_vars(CreatePod)
    /\ \A u \in Pods : WF_vars(PodReady(u)) /\ WF_vars(PodGone(u))

FairSpec == Spec /\ Fairness

-----------------------------------------------------------------------------
(* Properties                                                              *)

(* A call that returns 0 has replaced every pod that ran before the write, *)
(* also when earlier calls failed half way: the caller then removes the    *)
(* old password (redis-rotation-controller.yaml, step 3).                  *)
ReturnMeansRestarted == result = "ok" => Live \cap before = {}

(* The pods go one at a time, and each replacement must be Ready before    *)
(* the next delete: at most one pod of the workload is missing.            *)
AtMostOneDown == Cardinality(Ready) >= Want - 1

(* A pod created after <since> is not deleted by the restart: a pod that   *)
(* never becomes Ready is not deleted again and again.                     *)
FreshPodsStay ==
    [][Since => \A u \in fresh : st[u] \in {"starting", "ready"} => st'[u] # "ending"]_vars

(* Every call comes to an end without its deadline once the crashes do: no *)
(* pod that ended, is being deleted or has no owner is waited for.  (A     *)
(* behaviour in which the bound leaves no UID for a new pod says nothing.) *)
NoUidLeft == \A u \in Pods \ (before \cup old) : st[u] # "none"
CallEnds == pc # "idle" ~> pc = "idle" \/ NoUidLeft

(* The call keeps its contract: whatever the controller, the crashes and   *)
(* earlier failed calls do between its steps, the pods from before the     *)
(* write go one at a time, none of them comes back, and the call succeeds  *)
(* only after the last of them.                                            *)
Contract == INSTANCE RestartContract
            WITH running <- Live \cap before,
                 outcome <- IF pc = "idle" THEN result ELSE "called"
KeepsContract == Contract!Spec

=============================================================================
