--------------------------- MODULE RedisRotation ---------------------------
(***************************************************************************)
(* The Redis password rotation: a CronJob that adds the new password to    *)
(* the running store, restarts each client and then removes the old        *)
(* password.  ESO may change the Secret, a client or the store may restart *)
(* and the job may be stopped between any two of its steps.                *)
(*                                                                         *)
(* A password is a number: Empty is the empty value and every change by    *)
(* ESO brings a number not used before (the store generates it at random). *)
(***************************************************************************)
EXTENDS Integers, Sequences

CONSTANTS Clients,        \* the workloads that log in to Redis
          Order,          \* the order in which the job restarts them
          MaxVersion,     \* bound: writes of the Secret
          MaxStops,       \* bound: jobs stopped between two steps
          MaxPodRestarts, \* bound: restarts of the redis-stack pod
          MaxOomRestarts, \* bound: restarts of the redis-stack container
          ClientRestarts, \* a client restarts by itself
          KubeletLag,     \* a new pod may read the Secret of the margin's start
          EarlyChange     \* ESO changes the Secret before the install is complete

ASSUME ClientsAssumption ==
          /\ Order \in Seq(Clients)
          /\ \A c \in Clients : \E i \in 1..Len(Order) : Order[i] = c
ASSUME BoundsAssumption ==
          /\ MaxVersion \in Nat
          /\ MaxStops \in Nat
          /\ MaxPodRestarts \in Nat
          /\ MaxOomRestarts \in Nat
ASSUME SwitchAssumption ==
          /\ ClientRestarts \in BOOLEAN
          /\ KubeletLag \in BOOLEAN
          /\ EarlyChange \in BOOLEAN

NoPassword == -1
Never == -1
Empty == 0

\* Two of the four clients, in the order in which the script restarts them.
ClientOrder == <<"daemon", "ext-authz">>

VARIABLES secret,    \* the Secret ESO writes: its version (0: absent) and password
          settled,   \* the newest write whose 60 s margin has passed
          state,     \* the rotation-state Secret (version 0: absent)
          acl,       \* the passwords the running store accepts
          aclFile,   \* the password of users.acl in the pod's emptyDir
          pod,       \* per client: the password its pod runs with, and the
                     \* settled version when the pod was created
          job,       \* the CronJob's job: its step and its shell variables
          stops, podRestarts, oomRestarts   \* counters of the bounds

vars == <<secret, settled, state, acl, aclFile, pod, job, stops, podRestarts,
          oomRestarts>>

Password == Nat \ {Empty}
Steps == {"idle", "acl", "restart", "wait", "reset", "save"}

TypeOK ==
    /\ secret \in [ver : Nat, pw : Nat \cup {NoPassword}]
    /\ secret.pw = NoPassword <=> secret.ver = 0
    /\ settled \in [ver : Nat, pw : Nat \cup {NoPassword}]
    /\ settled.pw = NoPassword <=> settled.ver = 0
    /\ state \in [ver : Nat, pw : Password \cup {NoPassword}]
    /\ acl \subseteq Nat
    /\ aclFile \in Nat \cup {NoPassword}
    /\ acl # {} => aclFile # NoPassword
    /\ pod \in [Clients -> [pw : Nat \cup {NoPassword}, after : Nat \cup {Never}]]
    /\ job \in [pc : Steps, ver : Nat, pw : Password \cup {NoPassword},
                prev : Password \cup {NoPassword}, i : Nat]
    /\ job.pc # "idle" => job.pw \in Password /\ job.i >= 1
    /\ stops \in 0..MaxStops
    /\ podRestarts \in 0..MaxPodRestarts
    /\ oomRestarts \in 0..MaxOomRestarts

Absent == [ver |-> 0, pw |-> NoPassword]
Idle == [pc |-> "idle", ver |-> 0, pw |-> NoPassword, prev |-> NoPassword, i |-> 0]

Up(c) == pod[c].pw # NoPassword

(* A fresh install: no Secret yet, and no pod that reads it runs.          *)
Init ==
    /\ secret = Absent
    /\ settled = Absent
    /\ state = Absent
    /\ acl = {}
    /\ aclFile = NoPassword
    /\ pod = [c \in Clients |-> [pw |-> NoPassword, after |-> Never]]
    /\ job = Idle
    /\ stops = 0
    /\ podRestarts = 0
    /\ oomRestarts = 0

-----------------------------------------------------------------------------
(* The environment: ESO, time, the pods.                                   *)

(* The install is complete: the store and each client have started, and    *)
(* the first job has recorded its baseline.                                *)
Installed ==
    /\ state.ver # 0
    /\ acl # {}
    /\ \A c \in Clients : pod[c].after # Never

(* ESO writes the Secret: a new password, the same password under a new    *)
(* version, or an empty value.  The next version number is never used      *)
(* before, so it also serves as the new password.                          *)
WriteSecret ==
    /\ secret.ver < MaxVersion
    /\ secret.ver = 0 \/ Installed \/ EarlyChange
    /\ \E p \in {secret.ver + 1, secret.pw, Empty} :
          /\ secret.ver = 0 => p = 1
          /\ secret' = [ver |-> secret.ver + 1, pw |-> p]
    /\ UNCHANGED <<settled, state, acl, aclFile, pod, job, stops, podRestarts,
                   oomRestarts>>

(* 60 s after the last write of the Secret.                                *)
MarginPasses ==
    /\ settled # secret
    /\ settled' = secret
    /\ UNCHANGED <<secret, state, acl, aclFile, pod, job, stops, podRestarts,
                   oomRestarts>>

(* What the env of a container started now resolves to.                    *)
Readable == IF KubeletLag /\ settled.ver > 0 THEN {secret.pw, settled.pw}
                                             ELSE {secret.pw}

(* The init container init-acl writes users.acl from the Secret and the    *)
(* store starts with that file.                                            *)
StorePodStarts ==
    /\ secret.ver > 0
    /\ \/ acl = {} /\ podRestarts' = podRestarts
       \/ acl # {} /\ podRestarts < MaxPodRestarts /\ podRestarts' = podRestarts + 1
    /\ acl' = {secret.pw}
    /\ aclFile' = secret.pw
    /\ UNCHANGED <<secret, settled, state, pod, job, stops, oomRestarts>>

(* Only the redis-stack container restarts (a failed liveness probe, an    *)
(* OOM kill): no init container runs, and users.acl is that of the pod.    *)
StoreContainerRestarts ==
    /\ acl # {}
    /\ oomRestarts < MaxOomRestarts
    /\ acl' = {aclFile}
    /\ oomRestarts' = oomRestarts + 1
    /\ UNCHANGED <<secret, settled, state, aclFile, pod, job, stops, podRestarts>>

(* A client pod starts: its controller replaces a missing one, or it       *)
(* restarts by itself.                                                     *)
PodStarts(c) ==
    /\ secret.ver > 0
    /\ ~Up(c) \/ ClientRestarts
    /\ \E p \in Readable : pod' = [pod EXCEPT ![c] = [pw |-> p, after |-> settled.ver]]
    /\ UNCHANGED <<secret, settled, state, acl, aclFile, job, stops, podRestarts,
                   oomRestarts>>

-----------------------------------------------------------------------------
(* The job.                                                                *)

Finish == job' = Idle
Goto(pc) == job' = [job EXCEPT !.pc = pc]

(* Mutant: the test for an empty password is missing.                      *)
TickTakesEmpty ==
    /\ job.pc = "idle"
    /\ secret.ver > 0
    /\ secret.ver # state.ver
    /\ job' = [pc |-> IF state.ver = 0 \/ state.pw = secret.pw THEN "save" ELSE "acl",
               ver |-> secret.ver, pw |-> secret.pw, prev |-> state.pw, i |-> 1]
    /\ UNCHANGED <<secret, settled, state, acl, aclFile, pod, stops, podRestarts,
                   oomRestarts>>

(* The script's first part: one read of the Secret, the state, and what    *)
(* they call for.  A missing Secret, an empty password and an unchanged    *)
(* version end the job with nothing done.                                  *)
Tick ==
    /\ job.pc = "idle"
    /\ secret.ver > 0
    /\ secret.pw # Empty
    /\ secret.ver # state.ver
    /\ job' = [pc |-> IF state.ver = 0 \/ state.pw = secret.pw THEN "save" ELSE "acl",
               ver |-> secret.ver, pw |-> secret.pw, prev |-> state.pw, i |-> 1]
    /\ UNCHANGED <<secret, settled, state, acl, aclFile, pod, stops, podRestarts,
                   oomRestarts>>

(* Mutants: the restarts are left out; a store that already has the new    *)
(* password fails the job; the password is read again.                     *)
AddPasswordSkipsRestarts ==
    /\ job.pc = "acl"
    /\ job.prev \in acl /\ acl' = acl \cup {job.pw} /\ Goto("reset")
    /\ UNCHANGED <<secret, settled, state, aclFile, pod, stops, podRestarts,
                   oomRestarts>>
AddPasswordNeedsOld ==
    /\ job.pc = "acl"
    /\ \/ job.prev \in acl /\ acl' = acl \cup {job.pw} /\ Goto("restart")
       \/ job.prev \notin acl /\ acl' = acl /\ Finish
    /\ UNCHANGED <<secret, settled, state, aclFile, pod, stops, podRestarts,
                   oomRestarts>>

AddPasswordReadsAgain ==
    /\ job.pc = "acl"
    /\ \/ job.prev \in acl /\ acl' = acl \cup {secret.pw} /\ Goto("restart")
       \/ job.prev \notin acl /\ job.pw \in acl /\ acl' = acl /\ Goto("restart")
       \/ job.prev \notin acl /\ job.pw \notin acl /\ acl' = acl /\ Finish
    /\ UNCHANGED <<secret, settled, state, aclFile, pod, stops, podRestarts,
                   oomRestarts>>

(* Step 1: both passwords work, or the store already has the new one only. *)
(* A store that takes neither fails the job.                               *)
AddPassword ==
    /\ job.pc = "acl"
    /\ \/ job.prev \in acl /\ acl' = acl \cup {job.pw} /\ Goto("restart")
       \/ job.prev \notin acl /\ job.pw \in acl /\ acl' = acl /\ Goto("restart")
       \/ job.prev \notin acl /\ job.pw \notin acl /\ acl' = acl /\ Finish
    /\ UNCHANGED <<secret, settled, state, aclFile, pod, stops, podRestarts,
                   oomRestarts>>

(* Mutant: a pod that the store refuses, which is never Ready, stays too.  *)
IsNewOrRefused(c) == pod[c].after >= job.ver \/ pod[c].pw \notin acl

(* restart_pods: a pod created after <since> is new and stays.             *)
IsNew(c) == pod[c].after >= job.ver

(* Step 2, one client: its old pod is deleted.                             *)
DeleteOldPod ==
    /\ job.pc = "restart" /\ job.i <= Len(Order)
    /\ Up(Order[job.i]) /\ ~IsNew(Order[job.i])
    /\ pod' = [pod EXCEPT ![Order[job.i]].pw = NoPassword]
    /\ Goto("wait")
    /\ UNCHANGED <<secret, settled, state, acl, aclFile, stops, podRestarts,
                   oomRestarts>>

(* Step 2, one client: nothing to delete, its new pod is awaited.          *)
KeepNewPod ==
    /\ job.pc = "restart" /\ job.i <= Len(Order)
    /\ Up(Order[job.i]) => IsNew(Order[job.i])
    /\ Goto("wait")
    /\ UNCHANGED <<secret, settled, state, acl, aclFile, pod, stops, podRestarts,
                   oomRestarts>>

(* Step 2, one client: its pod is new and Ready.                           *)
ClientReady ==
    /\ job.pc = "wait"
    /\ Up(Order[job.i])
    /\ job' = [job EXCEPT !.pc = "restart", !.i = @ + 1]
    /\ UNCHANGED <<secret, settled, state, acl, aclFile, pod, stops, podRestarts,
                   oomRestarts>>

(* After step 2: a second change of the password ends the job here.        *)
Recheck ==
    /\ job.pc = "restart" /\ job.i > Len(Order)
    /\ IF secret.pw = job.pw THEN Goto("reset") ELSE Finish
    /\ UNCHANGED <<secret, settled, state, acl, aclFile, pod, stops, podRestarts,
                   oomRestarts>>

(* Mutant: the second ACL call leaves out resetpass.                       *)
RemoveOldWithoutReset ==
    /\ job.pc = "reset"
    /\ \/ job.pw \in acl /\ acl' = acl \cup {job.pw} /\ Goto("save")
       \/ job.pw \notin acl /\ acl' = acl /\ Finish
    /\ UNCHANGED <<secret, settled, state, aclFile, pod, stops, podRestarts,
                   oomRestarts>>

(* Step 3: the old password is refused.  The login is the new password.    *)
RemoveOld ==
    /\ job.pc = "reset"
    /\ \/ job.pw \in acl /\ acl' = {job.pw} /\ Goto("save")
       \/ job.pw \notin acl /\ acl' = acl /\ Finish
    /\ UNCHANGED <<secret, settled, state, aclFile, pod, stops, podRestarts,
                   oomRestarts>>

(* save_state: the version and the password the job read at its start.     *)
SaveState ==
    /\ job.pc = "save"
    /\ state' = [ver |-> job.ver, pw |-> job.pw]
    /\ Finish
    /\ UNCHANGED <<secret, settled, acl, aclFile, pod, stops, podRestarts,
                   oomRestarts>>

(* The job ends between two steps: its deadline, a failed API call or      *)
(* exec, a restart that ran into its timeout, a lost node.                 *)
Stop ==
    /\ job.pc # "idle"
    /\ stops < MaxStops
    /\ stops' = stops + 1
    /\ Finish
    /\ UNCHANGED <<secret, settled, state, acl, aclFile, pod, podRestarts,
                   oomRestarts>>

JobStep == \/ Tick \/ AddPassword \/ DeleteOldPod \/ KeepNewPod \/ ClientReady
           \/ Recheck \/ RemoveOld \/ SaveState

Next == \/ WriteSecret \/ MarginPasses
        \/ StorePodStarts \/ StoreContainerRestarts
        \/ \E c \in Clients : PodStarts(c)
        \/ JobStep \/ Stop

Spec == Init /\ [][Next]_vars

(* The CronJob fires each minute and a started job runs; a missing pod is  *)
(* replaced by its controller.  Nothing obliges ESO, a crash or a restart. *)
FairSpec ==
    /\ Spec
    /\ WF_vars(JobStep)
    /\ WF_vars(acl = {} /\ StorePodStarts)
    /\ \A c \in Clients : WF_vars(~Up(c) /\ PodStarts(c))

-----------------------------------------------------------------------------
(* Properties                                                              *)

(* The controller has nothing to do: the version it recorded is current.   *)
Done == state.ver > 0 /\ state.ver = secret.ver

(* The store has started from users.acl only with its pod, never with its  *)
(* container alone: a container that restarts after a rotation loads the   *)
(* password of the pod's start, and the next tick finds nothing to do.     *)
StoreKept == acl # {} /\ oomRestarts = 0

(* When the controller records the current version as done, the running    *)
(* store accepts the password of every running client: no restart, stop or *)
(* second change of the Secret on the way leaves a client that no later    *)
(* tick repairs (redis-rotation-controller.yaml, step 2 and save_state).   *)
DoneMeansAccepted ==
    Done /\ StoreKept => \A c \in Clients : Up(c) => pod[c].pw \in acl

(* When the controller records the current version as done, the password   *)
(* of the Secret is the only one the store accepts: every earlier one is   *)
(* refused (step 3, "The old password is refused").                        *)
DoneMeansOldRefused == Done /\ StoreKept => acl = {secret.pw}

(* Step 3 never refuses a client that the store accepted until then.       *)
RemovalStrandsNobody ==
    [][job.pc = "reset" /\ job'.pc = "save" =>
          \A c \in Clients : pod[c].pw \in acl => pod[c].pw \in acl']_vars

(* An empty password is never a rotation: only a store that boots from an  *)
(* empty Secret accepts it, whatever the job did.                          *)
NoEmptyLogin == Empty \in acl => aclFile = Empty

(* The rotation converges once the Secret rests on a password: every       *)
(* client and the store have it, and the state records it, for good.       *)
Rotated ==
    /\ Done
    /\ acl = {secret.pw}
    /\ \A c \in Clients : pod[c].pw = secret.pw
Resting == secret.ver > 0 /\ secret.pw # Empty
Converges == <>[](Resting => Rotated)

(* What of it is true while the store's container does not restart alone:  *)
(* one change, with jobs stopped and store pods restarted anywhere, and    *)
(* any number of changes without those.  A job that stops between step 3   *)
(* and save_state, or a pod that starts with a password that no job        *)
(* recorded, leaves a store that the job of a further change cannot enter. *)
Undisturbed ==
    /\ oomRestarts = 0
    /\ secret.ver <= 2 \/ (stops = 0 /\ podRestarts = 0)
ChangesConverge == <>[](Resting /\ Undisturbed => Rotated)

=============================================================================
