------------------------- MODULE RestartPodsProofs -------------------------
(***************************************************************************)
(* Theorems about restart_pods for any pods, any wanted count, both kinds  *)
(* of workload and any value of the bounds.                                *)
(***************************************************************************)
EXTENDS RestartPods, TLAPS

-----------------------------------------------------------------------------
(* Type correctness                                                        *)

(* A workload at its scale, with or without a pod of no owner.             *)
LEMMA InitType == Init => TypeOK
<1> SUFFICES ASSUME Init PROVE TypeOK
  OBVIOUS
<1>1. PICK B \in kSubset(Want, Pods) :
         /\ before = B
         /\ name \in [Pods -> Names]
         /\ \/ st = [u \in Pods |-> IF u \in B THEN "ready" ELSE "none"]
            \/ \E o \in Pods \ B :
                  st = [u \in Pods |-> IF u \in B THEN "ready"
                                       ELSE IF u = o THEN "orphan" ELSE "none"]
  BY DEF Init
<1>2. before \subseteq Pods
  BY <1>1 DEF kSubset
<1>3. st \in [Pods -> Status]
  BY <1>1 DEF Status
<1>4. /\ fresh = {} /\ passed = FALSE
      /\ pc = "idle" /\ old = {} /\ todo = {} /\ n = 0
      /\ result = "none" /\ calls = 0 /\ crashes = 0
  BY DEF Init
<1>5. name \in [Pods -> Names]
  BY <1>1
<1>6. passed \in BOOLEAN
  BY <1>4
<1>7. fresh \subseteq Pods \ before /\ old \subseteq Pods /\ todo \subseteq old
  BY <1>4
<1>8. calls \in 0..MaxCalls /\ crashes \in 0..MaxCrashes /\ n \in Nat
  BY <1>4, RestartAssumption
<1> QED
  BY <1>2, <1>3, <1>4, <1>5, <1>6, <1>7, <1>8 DEF TypeOK

(* Every step of the script, the controller and the pods keeps the types.  *)
LEMMA NextType == TypeOK /\ [Next]_vars => TypeOK'
<1> SUFFICES ASSUME TypeOK, [Next]_vars PROVE TypeOK'
  OBVIOUS
<1> USE RestartAssumption DEF TypeOK, shell, cluster, Status
<1>1. CASE Call
  BY <1>1 DEF Call, Stale, Live
<1>2. CASE DeletePod
  <2>1. PICK u \in todo :
           /\ todo' = todo \ {u}
           /\ st' = [v \in Pods |-> IF v \in Named(u) THEN "ending" ELSE st[v]]
    BY <1>2 DEF DeletePod
  <2>2. st' \in [Pods -> Status]
    BY <2>1
  <2> QED
    BY <1>2, <2>1, <2>2 DEF DeletePod
<1>3. CASE NewReady
  BY <1>3 DEF NewReady
<1>4. CASE Return
  BY <1>4 DEF Return
<1>5. CASE GiveUp
  BY <1>5 DEF GiveUp
<1>6. CASE CreatePod
  <2>1. PICK u \in Pods \ (before \cup old), i \in Missing :
           /\ st[u] = "none" /\ Set(u, "starting")
           /\ name' = [name EXCEPT ![u] = i]
           /\ fresh' = IF passed THEN fresh \cup {u} ELSE fresh \ {u}
           /\ UNCHANGED <<before, shell, passed, crashes>>
    BY <1>6 DEF CreatePod
  <2>2. i \in Names
    BY <2>1 DEF Missing, Names
  <2>3. name' \in [Pods -> Names]
    BY <2>1, <2>2
  <2> QED
    BY <2>1, <2>3 DEF Set
<1>7. CASE SincePasses
  BY <1>7 DEF SincePasses
<1>8. CASE \E u \in Pods : PodReady(u) \/ PodGone(u)
  BY <1>8 DEF PodReady, PodGone, Set
<1>9. CASE \E u \in Pods : PodCrashes(u)
  BY <1>9 DEF PodCrashes, Set
<1>10. CASE UNCHANGED vars
  BY <1>10 DEF vars
<1> QED
  BY <1>1, <1>2, <1>3, <1>4, <1>5, <1>6, <1>7, <1>8, <1>9, <1>10
  DEF Next, Script, Environment

(* The script and the pods it handles are well typed at every moment: a    *)
(* pod it still deletes is always one of the old UIDs it waits for.        *)
THEOREM TypeCorrect == Spec => []TypeOK
<1> QED
  BY InitType, NextType, PTL DEF Spec

-----------------------------------------------------------------------------
(* A call that returns 0 has replaced every pod                            *)

(* A running call knows every pod of before that still runs, and a call    *)
(* that has returned 0 has left none.                                      *)
OldKnown == pc # "idle" => Live \cap before \subseteq old
RestartInv == TypeOK /\ OldKnown /\ ReturnMeansRestarted

(* No pod of before comes back: a replacement has a new UID.               *)
LEMMA BeforeShrinks ==
  ASSUME TypeOK, [Next]_vars PROVE (Live \cap before)' \subseteq Live \cap before
<1> USE DEF TypeOK, Live, shell, cluster
<1>1. CASE Call \/ NewReady \/ Return \/ GiveUp \/ SincePasses
  BY <1>1 DEF Call, NewReady, Return, GiveUp, SincePasses
<1>2. CASE DeletePod
  BY <1>2 DEF DeletePod
<1>3. CASE CreatePod
  BY <1>3 DEF CreatePod, Set
<1>4. CASE \E u \in Pods : PodReady(u) \/ PodGone(u) \/ PodCrashes(u)
  BY <1>4 DEF PodReady, PodGone, PodCrashes, Set
<1>5. CASE UNCHANGED vars
  BY <1>5 DEF vars
<1> QED
  BY <1>1, <1>2, <1>3, <1>4, <1>5 DEF Next, Script, Environment

(* Every step keeps the invariant: a call reads all stale pods at once,    *)
(* and no pod of before counts as fresh.                                   *)
LEMMA RestartStep == RestartInv /\ [Next]_vars => RestartInv'
<1> SUFFICES ASSUME RestartInv, [Next]_vars PROVE RestartInv'
  OBVIOUS
<1>0. TypeOK' /\ (Live \cap before)' \subseteq Live \cap before
  BY NextType, BeforeShrinks DEF RestartInv
<1> USE DEF RestartInv, OldKnown, ReturnMeansRestarted, shell, cluster
<1>1. CASE Call
  <2>1. Live \cap before \subseteq Stale
    BY DEF Stale, TypeOK
  <2> QED
    BY <1>0, <1>1, <2>1 DEF Call
<1>2. CASE Return
  <2>1. Live \cap before = {}
    BY <1>2 DEF Return
  <2> QED
    BY <1>0, <1>2, <2>1 DEF Return
<1>3. CASE DeletePod \/ NewReady \/ GiveUp
  BY <1>0, <1>3 DEF DeletePod, NewReady, GiveUp
<1>4. CASE Environment
  <2>1. UNCHANGED <<shell, before>>
    BY <1>4 DEF Environment, CreatePod, SincePasses, PodReady, PodGone, PodCrashes
  <2> QED
    BY <1>0, <2>1
<1>5. CASE UNCHANGED vars
  BY <1>0, <1>5 DEF vars
<1> QED
  BY <1>1, <1>2, <1>3, <1>4, <1>5 DEF Next, Script

(* After a call that returned 0, no pod that ran before the write runs: it *)
(* holds over failed calls, crashes, evictions and reused pod names.       *)
THEOREM RestartReplacesAll == Spec => []ReturnMeansRestarted
<1>1. Init => RestartInv
  BY InitType DEF Init, RestartInv, OldKnown, ReturnMeansRestarted
<1>2. RestartInv => ReturnMeansRestarted
  BY DEF RestartInv
<1> QED
  BY <1>1, <1>2, RestartStep, PTL DEF Spec

-----------------------------------------------------------------------------
(* The call keeps its contract                                             *)

(* Two pods of a StatefulSet never share an ordinal while both are of the  *)
(* first generation: a replacement gets a UID of its own.                  *)
NamesApart == Stateful => \A u, v \in before : u # v => name[u] # name[v]
ContractInv == RestartInv /\ NamesApart

LEMMA ContractInit == Init => ContractInv /\ Contract!Init
<1> SUFFICES ASSUME Init PROVE ContractInv /\ Contract!Init
  OBVIOUS
<1>1. TypeOK
  BY InitType
<1>2. RestartInv
  BY <1>1 DEF Init, RestartInv, OldKnown, ReturnMeansRestarted
<1>3. NamesApart
  BY DEF Init, NamesApart
<1>4. Live \cap before \in SUBSET Pods
  BY DEF Live
<1>5. pc = "idle" /\ result = "none"
  BY DEF Init
<1> QED
  BY <1>2, <1>3, <1>4, <1>5 DEF ContractInv, Contract!Init

LEMMA NamesStay == TypeOK /\ NamesApart /\ [Next]_vars => NamesApart'
<1> SUFFICES ASSUME TypeOK, NamesApart, [Next]_vars PROVE NamesApart'
  OBVIOUS
<1> USE DEF TypeOK, NamesApart, shell, cluster
<1>1. CASE CreatePod
  <2>1. before' = before /\ \A u \in before : name'[u] = name[u]
    BY <1>1 DEF CreatePod
  <2> QED
    BY <2>1
<1>2. CASE ~CreatePod
  <2>1. UNCHANGED <<before, name>>
    BY <1>2 DEF Next, Script, Environment, Call, DeletePod, NewReady, Return, GiveUp,
       SincePasses, PodReady, PodGone, PodCrashes, vars
  <2> QED
    BY <2>1
<1> QED
  BY <1>1, <1>2

(* One pod at a time: a step takes at most one pod of before away.         *)
LEMMA OneOldPodEnds ==
  ASSUME TypeOK, NamesApart, Next, Live' \cap before' # Live \cap before
  PROVE  \E u \in Live \cap before : Live' \cap before' = (Live \cap before) \ {u}
<1> USE DEF TypeOK, shell, cluster
<1>1. CASE Call \/ NewReady \/ Return \/ GiveUp \/ SincePasses
  BY <1>1 DEF Call, NewReady, Return, GiveUp, SincePasses, Live
<1>2. CASE DeletePod
  <2>1. PICK u \in todo : st' = [v \in Pods |-> IF v \in Named(u) THEN "ending" ELSE st[v]]
    BY <1>2 DEF DeletePod
  <2>2. before' = before
    BY <1>2 DEF DeletePod
  <2>3. \A v \in Pods : v \in Live' <=> v \in Live /\ v \notin Named(u)
    BY <2>1 DEF Live, Named
  <2>4. PICK w \in Live \cap before : w \in Named(u)
    BY <2>2, <2>3 DEF Live
  <2>5. \A v \in Live \cap before : v \in Named(u) => v = w
    BY <2>4 DEF Named, NamesApart
  <2> QED
    BY <2>2, <2>3, <2>4, <2>5 DEF Live
<1>3. CASE CreatePod
  BY <1>3 DEF CreatePod, Set, Live
<1>4. CASE \E u \in Pods : PodReady(u) \/ PodGone(u) \/ PodCrashes(u)
  <2>1. PICK u \in Pods : PodReady(u) \/ PodGone(u) \/ PodCrashes(u)
    BY <1>4
  <2>2. before' = before /\ \A v \in Pods \ {u} : st'[v] = st[v]
    BY <2>1 DEF PodReady, PodGone, PodCrashes, Set
  <2>3. (Live \cap before)' \subseteq Live \cap before
    BY BeforeShrinks
  <2> QED
    BY <2>2, <2>3 DEF Live
<1> QED
  BY <1>1, <1>2, <1>3, <1>4 DEF Next, Script, Environment

(* Every step of the call, the controller and the pods is a step of the    *)
(* contract, or leaves its two variables alone.                            *)
LEMMA ContractStep == ContractInv /\ [Next]_vars => [Contract!Next]_(Contract!vars)
<1> DEFINE Out == IF pc = "idle" THEN result ELSE "called"
           Old == Live \cap before
<1> SUFFICES ASSUME ContractInv, [Next]_vars PROVE [Contract!Next]_(Contract!vars)
  OBVIOUS
<1> USE DEF ContractInv, RestartInv, shell, cluster
<1>1. CASE Call
  <2>1. Old' = Old
    BY <1>1 DEF Call, Live
  <2>2. Out \in {"none", "failed"} /\ Out' = "called"
    BY <1>1 DEF Call, TypeOK
  <2> QED
    BY <2>1, <2>2 DEF Contract!Next, Contract!Call
<1>2. CASE Return
  <2>1. Old' = Old /\ Old = {}
    BY <1>2 DEF Return, Live, OldKnown
  <2>2. Out = "called" /\ Out' = "ok"
    BY <1>2 DEF Return
  <2> QED
    BY <2>1, <2>2 DEF Contract!Next, Contract!Succeed
<1>3. CASE GiveUp
  <2>1. Old' = Old
    BY <1>3 DEF GiveUp, Live
  <2>2. Out = "called" /\ Out' = "failed"
    BY <1>3 DEF GiveUp
  <2> QED
    BY <2>1, <2>2 DEF Contract!Next, Contract!Fail
<1>4. CASE DeletePod \/ NewReady \/ Environment
  <2>1. Out' = Out
    BY <1>4 DEF DeletePod, NewReady, Environment, CreatePod, SincePasses, PodReady, PodGone,
       PodCrashes
  <2>2. CASE Old' = Old
    BY <2>1, <2>2 DEF Contract!vars
  <2>3. CASE Old' # Old
    <3>1. Next
      BY <1>4 DEF Next, Script
    <3>2. \E u \in Old : Old' = Old \ {u}
      BY <2>3, <3>1, OneOldPodEnds
    <3> QED
      BY <2>1, <3>2 DEF Contract!Next, Contract!OldPodEnds
  <2> QED
    BY <2>2, <2>3
<1>5. CASE UNCHANGED vars
  BY <1>5 DEF vars, Contract!vars, Live
<1> QED
  BY <1>1, <1>2, <1>3, <1>4, <1>5 DEF Next, Script

(* restart_pods implements its contract for any workload, any number of    *)
(* calls and any crashes: the rotations that use it may rely on the        *)
(* contract alone.                                                         *)
THEOREM RestartKeepsContract == Spec => KeepsContract
<1>1. ContractInv /\ [Next]_vars => ContractInv'
  BY RestartStep, NamesStay DEF ContractInv, RestartInv
<1> QED
  BY <1>1, ContractInit, ContractStep, PTL DEF Spec, KeepsContract, Contract!Spec

-----------------------------------------------------------------------------
(* New pods stay                                                           *)

(* What a call means to delete was not created after <since>.              *)
OldNotFresh == Since => old \cap fresh = {}

(* Every step keeps it: a call reads only the stale pods, and a pod that   *)
(* is created while it runs has a new UID.                                 *)
LEMMA OldNotFreshKept == TypeOK /\ OldNotFresh /\ [Next]_vars => OldNotFresh'
<1> SUFFICES ASSUME TypeOK, OldNotFresh, [Next]_vars PROVE OldNotFresh'
  OBVIOUS
<1> USE DEF OldNotFresh, shell, cluster
<1>1. CASE Call
  BY <1>1 DEF Call, Stale
<1>2. CASE DeletePod \/ NewReady \/ Return \/ GiveUp
  BY <1>2 DEF DeletePod, NewReady, Return, GiveUp
<1>3. CASE CreatePod
  BY <1>3 DEF CreatePod
<1>4. CASE SincePasses \/ \E u \in Pods : PodReady(u) \/ PodGone(u) \/ PodCrashes(u)
  BY <1>4 DEF SincePasses, PodReady, PodGone, PodCrashes
<1>5. CASE UNCHANGED vars
  BY <1>5 DEF vars
<1> QED
  BY <1>1, <1>2, <1>3, <1>4, <1>5 DEF Next, Script, Environment

(* A restart of a Deployment deletes no pod that was created after <since>,*)
(* however often it is retried and whatever crashes: its delete goes by a  *)
(* name that no other pod gets.                                            *)
THEOREM FreshPodsAlwaysStay ==
  ASSUME ~Stateful
  PROVE  Spec => FreshPodsStay
<1> DEFINE Stays == Since => \A u \in fresh : st[u] \in {"starting", "ready"} => st'[u] # "ending"
<1>1. Init => TypeOK /\ OldNotFresh
  BY InitType DEF Init, OldNotFresh
<1>2. ASSUME TypeOK, OldNotFresh, [Next]_vars PROVE [Stays]_vars
  <2> USE DEF TypeOK, OldNotFresh
  <2>1. CASE DeletePod
    <3>1. PICK u \in todo : st' = [v \in Pods |-> IF v \in Named(u) THEN "ending" ELSE st[v]]
      BY <2>1 DEF DeletePod
    <3>2. Named(u) \subseteq {u}
      BY DEF Named
    <3>3. Since => u \notin fresh
      BY <1>2, <3>1
    <3>4. Stays
      BY <1>2, <3>1, <3>2, <3>3
    <3> QED
      BY <3>4
  <2>2. CASE Call \/ NewReady \/ Return \/ GiveUp \/ SincePasses
    BY <2>2 DEF Call, NewReady, Return, GiveUp, SincePasses, cluster
  <2>3. CASE CreatePod \/ \E u \in Pods : PodReady(u) \/ PodGone(u) \/ PodCrashes(u)
    <3>1. \E u \in Pods, s \in {"starting", "ready", "none", "failed"} : st' = [st EXCEPT ![u] = s]
      BY <2>3 DEF CreatePod, PodReady, PodGone, PodCrashes, Set
    <3> QED
      BY <3>1
  <2> QED
    BY <1>2, <2>1, <2>2, <2>3 DEF Next, Script, Environment
<1> QED
  BY <1>1, <1>2, NextType, OldNotFreshKept, PTL DEF Spec, FreshPodsStay

=============================================================================
