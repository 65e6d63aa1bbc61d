------------------------ MODULE RedisRotationProofs ------------------------
(***************************************************************************)
(* Theorems about the Redis password rotation for any set of clients, any  *)
(* restart order and any value of the bounds.                              *)
(***************************************************************************)
EXTENDS RedisRotation, TLAPS

-----------------------------------------------------------------------------
(* Type correctness                                                        *)

(* The initial state of a fresh install is well typed.                     *)
LEMMA InitType == Init => TypeOK
  BY BoundsAssumption
  DEF Init, TypeOK, Absent, Idle, Steps, Password, Empty, NoPassword, Never

(* Every step of the script and of its environment keeps the types.        *)
LEMMA NextType == TypeOK /\ [Next]_vars => TypeOK'
<1> SUFFICES ASSUME TypeOK, [Next]_vars PROVE TypeOK'
  OBVIOUS
<1> USE BoundsAssumption DEF TypeOK, Password, Empty, NoPassword, Never, Steps
<1>1. CASE WriteSecret
  BY <1>1 DEF WriteSecret
<1>2. CASE MarginPasses
  BY <1>2 DEF MarginPasses
<1>3. CASE StorePodStarts
  BY <1>3 DEF StorePodStarts
<1>4. CASE StoreContainerRestarts
  BY <1>4 DEF StoreContainerRestarts
<1>5. CASE \E c \in Clients : PodStarts(c)
  <2> PICK c \in Clients : PodStarts(c)
    BY <1>5
  <2>1. PICK p \in Readable :
           pod' = [pod EXCEPT ![c] = [pw |-> p, after |-> settled.ver]]
    BY DEF PodStarts
  <2>2. p \in Nat
    BY <2>1 DEF PodStarts, Readable
  <2>3. pod' \in [Clients -> [pw : Nat \cup {NoPassword}, after : Nat \cup {Never}]]
    BY <2>1, <2>2
  <2> QED
    BY <2>3 DEF PodStarts
<1>6. CASE Tick
  BY <1>6 DEF Tick
<1>7. CASE AddPassword
  BY <1>7 DEF AddPassword, Goto, Finish, Idle
<1>8. CASE DeleteOldPod
  <2> DEFINE c == Order[job.i]
  <2>1. c \in Clients
    BY <1>8, ClientsAssumption DEF DeleteOldPod
  <2>2. pod' \in [Clients -> [pw : Nat \cup {NoPassword}, after : Nat \cup {Never}]]
    BY <1>8, <2>1 DEF DeleteOldPod
  <2> QED
    BY <1>8, <2>2 DEF DeleteOldPod, Goto
<1>9. CASE KeepNewPod
  BY <1>9 DEF KeepNewPod, Goto
<1>10. CASE ClientReady
  <2>1. job' = [pc |-> "restart", ver |-> job.ver, pw |-> job.pw,
                prev |-> job.prev, i |-> job.i + 1]
    BY <1>10 DEF ClientReady
  <2> QED
    BY <1>10, <2>1 DEF ClientReady
<1>11. CASE Recheck
  <2>1. CASE Goto("reset")
    BY <1>11, <2>1 DEF Recheck, Goto
  <2>2. CASE Finish
    BY <1>11, <2>2 DEF Recheck, Finish, Idle
  <2> QED
    BY <1>11, <2>1, <2>2 DEF Recheck
<1>12. CASE RemoveOld
  BY <1>12 DEF RemoveOld, Goto, Finish, Idle
<1>13. CASE SaveState
  BY <1>13 DEF SaveState, Finish, Idle
<1>14. CASE Stop
  BY <1>14 DEF Stop, Finish, Idle
<1>15. CASE UNCHANGED vars
  BY <1>15 DEF vars
<1> QED
  BY <1>1, <1>2, <1>3, <1>4, <1>5, <1>6, <1>7, <1>8, <1>9, <1>10, <1>11, <1>12,
     <1>13, <1>14, <1>15 DEF Next, JobStep

(* Type correctness of the rotation for every instance: the state Secret   *)
(* and the job's variables never hold an empty password.                   *)
THEOREM TypeCorrect == Spec => []TypeOK
  BY InitType, NextType, PTL DEF Spec

(* The job never makes the store accept the empty password, in every       *)
(* instance: Tick refuses an empty Secret, and the password a job holds is *)
(* the one it read there.                                                  *)
THEOREM EmptyRefused == Spec => []NoEmptyLogin
<1>1. Init => NoEmptyLogin
  BY DEF Init, NoEmptyLogin
<1>2. TypeOK /\ NoEmptyLogin /\ [Next]_vars => NoEmptyLogin'
  <2> SUFFICES ASSUME TypeOK, NoEmptyLogin, [Next]_vars PROVE NoEmptyLogin'
    OBVIOUS
  <2>1. CASE StorePodStarts
    BY <2>1 DEF StorePodStarts, NoEmptyLogin
  <2>2. CASE StoreContainerRestarts
    BY <2>2 DEF StoreContainerRestarts, NoEmptyLogin
  <2>3. CASE AddPassword
    BY <2>3 DEF AddPassword, NoEmptyLogin, TypeOK, Password
  <2>4. CASE RemoveOld
    BY <2>4 DEF RemoveOld, NoEmptyLogin, TypeOK, Password
  <2>5. CASE UNCHANGED <<acl, aclFile>>
    BY <2>5 DEF NoEmptyLogin
  <2> QED
    BY <2>1, <2>2, <2>3, <2>4, <2>5 DEF Next, JobStep, WriteSecret, MarginPasses,
       PodStarts, Tick, DeleteOldPod, KeepNewPod, ClientReady, Recheck, SaveState,
       Stop, vars
<1> QED
  BY <1>1, <1>2, TypeCorrect, PTL DEF Spec

-----------------------------------------------------------------------------
(* The inductive invariant                                                 *)

InRotation == job.pc \in {"acl", "restart", "wait", "reset"}
InRestart == job.pc \in {"restart", "wait", "reset"}

(* Versions and passwords grow: nothing is ahead of the Secret.            *)
Behind(p) == p <= secret.ver /\ (secret.pw # Empty => p <= secret.pw)
NothingAhead ==
    /\ secret.pw <= secret.ver
    /\ Behind(state.pw) /\ Behind(job.pw)
    /\ state.ver <= secret.ver /\ job.ver <= secret.ver /\ settled.ver <= secret.ver
    /\ \A p \in acl : Behind(p)
    /\ \A c \in Clients : pod[c].after <= secret.ver

(* A copy taken at the current version is the current password.            *)
CopiesMatch ==
    /\ state.ver = secret.ver => state.pw = secret.pw
    /\ job.pc # "idle" /\ job.ver = secret.ver => job.pw = secret.pw
    /\ \A c \in Clients : Up(c) /\ pod[c].after = secret.ver => pod[c].pw = secret.pw

(* The store and every running client have the Secret's password and no    *)
(* other.                                                                  *)
Clean == acl \subseteq {secret.pw} /\ \A c \in Clients : Up(c) => pod[c].pw = secret.pw

(* What has to hold for a recorded password, for one about to be recorded, *)
(* and before the first record.                                            *)
RecordsClean ==
    /\ state.ver > 0 => state.pw \in Password
    /\ state.ver > 0 /\ state.pw = secret.pw => Clean
    /\ job.pc = "save" /\ job.pw = secret.pw => Clean
    /\ state.ver = 0 => Clean /\ secret.ver <= 1 /\ ~InRotation

(* During a rotation the Secret has left the recorded password for good,   *)
(* and the store has booted (one password) or knows only passwords up to   *)
(* the job's.                                                              *)
AclShape ==
    /\ Empty \in acl => acl = {Empty}
    /\ InRotation => /\ secret.pw # state.pw
                     /\ job.prev = state.pw /\ job.prev < job.pw
                     /\ \/ \E y \in acl : acl = {y}
                        \/ \A x \in acl : x # Empty /\ x <= job.pw

(* A client that restarted during the job has the job's password or one    *)
(* that the Secret took later.                                             *)
Follows(c) ==
    Up(c) => /\ pod[c].pw = Empty \/ pod[c].pw >= job.pw
             /\ secret.pw = job.pw => pod[c].pw = secret.pw
Restarted ==
    /\ InRotation => \A c \in Clients : pod[c].after >= job.ver => Follows(c)
    /\ job.pc # "idle" => job.ver > 0
    /\ job.pc = "acl" => job.i = 1
    /\ InRestart => \A j \in 1..Len(Order) : j < job.i => Follows(Order[j])
    /\ job.pc = "wait" => job.i <= Len(Order) /\ Follows(Order[job.i])
    /\ job.pc = "reset" => job.i > Len(Order)

RotationInv ==
    /\ TypeOK
    /\ NothingAhead
    /\ CopiesMatch
    /\ RecordsClean
    /\ AclShape
    /\ Restarted

(* The conditions under which the rotation is proved: a new pod reads the  *)
(* current Secret, ESO does not change it before the install is complete,  *)
(* and the store restarts with its pod only.                               *)
Steady == KubeletLag = FALSE /\ EarlyChange = FALSE /\ MaxOomRestarts = 0

(* A fresh install satisfies the invariant.                                *)
LEMMA InitInv == Init => RotationInv
<1> SUFFICES ASSUME Init PROVE RotationInv
  OBVIOUS
<1>1. TypeOK
  BY InitType
<1> QED
  BY <1>1 DEF Init, RotationInv, NothingAhead, Behind, CopiesMatch, RecordsClean, Clean,
     AclShape, Restarted, InRotation, InRestart, Absent, Idle, Up,
     NoPassword, Empty, Never

(* Every step keeps it.                                                    *)
LEMMA NextInv == ASSUME Steady PROVE RotationInv /\ [Next]_vars => RotationInv'
<1> SUFFICES ASSUME RotationInv, [Next]_vars PROVE RotationInv'
  OBVIOUS
<1> USE Steady, BoundsAssumption DEF Steady
<1>t. TypeOK'
  BY NextType DEF RotationInv
<1>o. Order \in Seq(Clients) /\ \A j \in 1..Len(Order) : Order[j] \in Clients
  BY ClientsAssumption
<1> USE DEF TypeOK, RotationInv, Password, Empty, NoPassword, Never, Up
<1>1. CASE WriteSecret
  <2>1. NothingAhead'
    BY <1>1 DEF WriteSecret, Installed, NothingAhead, Behind
  <2>2. CopiesMatch'
    BY <1>1 DEF WriteSecret, Installed, CopiesMatch, NothingAhead
  <2>3. RecordsClean'
    BY <1>1 DEF WriteSecret, Installed, RecordsClean, Clean, InRotation, NothingAhead, Behind
  <2>4. AclShape'
    BY <1>1 DEF WriteSecret, Installed, AclShape, InRotation, NothingAhead, Behind, RecordsClean
  <2>5. Restarted'
    <3>1. \A c \in Clients : job.pc # "idle" /\ Follows(c) => Follows(c)'
      <4> SUFFICES ASSUME NEW c \in Clients, job.pc # "idle", Follows(c), Up(c)
                   PROVE  /\ pod[c].pw = Empty \/ pod[c].pw >= job.pw
                          /\ secret'.pw = job.pw => pod[c].pw = secret'.pw
        BY <1>1 DEF WriteSecret, Follows
      <4> PICK p \in {secret.ver + 1, secret.pw, Empty} : secret'.pw = p
        BY <1>1 DEF WriteSecret
      <4>1. job.pw <= secret.ver /\ job.pw > 0
        BY DEF NothingAhead, Behind
      <4> QED
        BY <4>1 DEF Follows
    <3>2. UNCHANGED <<pod, job>>
      BY <1>1 DEF WriteSecret
    <3> QED
      BY <1>o, <3>1, <3>2 DEF Restarted, InRotation, InRestart
  <2> QED
    BY <1>t, <2>1, <2>2, <2>3, <2>4, <2>5
<1>2. CASE MarginPasses
  <2>1. NothingAhead'
    BY <1>2 DEF MarginPasses, NothingAhead, Behind
  <2>2. CopiesMatch'
    BY <1>2 DEF MarginPasses, CopiesMatch
  <2>3. RecordsClean'
    BY <1>2 DEF MarginPasses, RecordsClean, Clean, InRotation
  <2>4. AclShape'
    BY <1>2 DEF MarginPasses, AclShape, InRotation
  <2>5. Restarted'
    BY <1>2, <1>o DEF MarginPasses, Restarted, Follows, InRotation, InRestart
  <2> QED
    BY <1>t, <2>1, <2>2, <2>3, <2>4, <2>5
<1>3. CASE StorePodStarts
  <2>1. NothingAhead'
    BY <1>3 DEF StorePodStarts, NothingAhead, Behind
  <2>2. CopiesMatch'
    BY <1>3 DEF StorePodStarts, CopiesMatch
  <2>3. RecordsClean'
    BY <1>3 DEF StorePodStarts, RecordsClean, Clean, InRotation
  <2>4. AclShape'
    BY <1>3 DEF StorePodStarts, AclShape, InRotation
  <2>5. Restarted'
    BY <1>3, <1>o DEF StorePodStarts, Restarted, Follows, InRotation, InRestart
  <2> QED
    BY <1>t, <2>1, <2>2, <2>3, <2>4, <2>5
<1>4. CASE StoreContainerRestarts
  BY <1>4 DEF StoreContainerRestarts
<1>5. CASE \E c \in Clients : PodStarts(c)
  <2> PICK c \in Clients : PodStarts(c)
    BY <1>5
  <2>0. /\ secret.ver > 0 /\ secret.pw \in Nat
        /\ pod' = [pod EXCEPT ![c] = [pw |-> secret.pw, after |-> settled.ver]]
        /\ UNCHANGED <<secret, settled, state, acl, aclFile, job>>
    BY DEF PodStarts, Readable
  <2>1. NothingAhead'
    BY <2>0 DEF NothingAhead, Behind
  <2>2. CopiesMatch'
    BY <2>0 DEF CopiesMatch
  <2>3. RecordsClean'
    BY <2>0 DEF RecordsClean, Clean, InRotation
  <2>4. AclShape'
    BY <2>0 DEF AclShape, InRotation
  <2>5. Restarted'
    BY <2>0, <1>o DEF Restarted, Follows, InRotation, InRestart, NothingAhead, Behind, AclShape
  <2> QED
    BY <1>t, <2>1, <2>2, <2>3, <2>4, <2>5
<1>6. CASE Tick
  <2>1. NothingAhead'
    BY <1>6 DEF Tick, NothingAhead, Behind
  <2>2. CopiesMatch'
    BY <1>6 DEF Tick, CopiesMatch
  <2>3. RecordsClean'
    BY <1>6 DEF Tick, RecordsClean, Clean, InRotation, NothingAhead, CopiesMatch
  <2>4. AclShape'
    BY <1>6 DEF Tick, AclShape, InRotation, NothingAhead, Behind, RecordsClean
  <2>5. Restarted'
    BY <1>6, <1>o DEF Tick, Restarted, Follows, InRotation, InRestart, CopiesMatch, NothingAhead
  <2> QED
    BY <1>t, <2>1, <2>2, <2>3, <2>4, <2>5
<1>7. CASE AddPassword
  <2>1. NothingAhead'
    BY <1>7 DEF AddPassword, Goto, Finish, Idle, NothingAhead, Behind
  <2>2. CopiesMatch'
    BY <1>7 DEF AddPassword, Goto, Finish, Idle, CopiesMatch
  <2>3. RecordsClean'
    BY <1>7 DEF AddPassword, Goto, Finish, Idle, RecordsClean, Clean, InRotation, AclShape
  <2>4. AclShape'
    BY <1>7 DEF AddPassword, Goto, Finish, Idle, AclShape, InRotation
  <2>5. Restarted'
    <3>1. CASE Goto("restart")
      <4>1. /\ job'.pc = "restart" /\ job'.i = 1 /\ job'.ver = job.ver /\ job'.pw = job.pw
            /\ UNCHANGED <<pod, secret>>
        BY <1>7, <3>1 DEF AddPassword, Goto, Restarted
      <4>2. \A c \in Clients : Follows(c) => Follows(c)'
        BY <4>1 DEF Follows
      <4> QED
        BY <1>7, <4>1, <4>2, <1>o DEF AddPassword, Restarted, InRotation, InRestart
    <3>2. CASE Finish
      BY <3>2 DEF Finish, Idle, Restarted, InRotation, InRestart
    <3> QED
      BY <1>7, <3>1, <3>2 DEF AddPassword
  <2> QED
    BY <1>t, <2>1, <2>2, <2>3, <2>4, <2>5
<1>8. CASE DeleteOldPod
  <2>1. NothingAhead'
    BY <1>8 DEF DeleteOldPod, Goto, NothingAhead, Behind
  <2>2. CopiesMatch'
    BY <1>8 DEF DeleteOldPod, Goto, CopiesMatch
  <2>3. RecordsClean'
    BY <1>8 DEF DeleteOldPod, Goto, RecordsClean, Clean, InRotation
  <2>4. AclShape'
    BY <1>8 DEF DeleteOldPod, Goto, AclShape, InRotation
  <2>5. Restarted'
    <3>1. /\ Order[job.i] \in Clients /\ job.i <= Len(Order) /\ job.pc = "restart"
          /\ job' = [job EXCEPT !.pc = "wait"]
          /\ pod' = [pod EXCEPT ![Order[job.i]].pw = NoPassword]
          /\ UNCHANGED secret
      BY <1>8, <1>o DEF DeleteOldPod, Goto
    <3>2. /\ job'.pc = "wait" /\ job'.i = job.i /\ job'.ver = job.ver /\ job'.pw = job.pw
          /\ \A c \in Clients : pod'[c].after = pod[c].after
          /\ \A c \in Clients : pod'[c].pw \in {pod[c].pw, NoPassword}
          /\ pod'[Order[job.i]].pw = NoPassword
      BY <3>1
    <3>3. \A c \in Clients : Follows(c) => Follows(c)'
      BY <3>1, <3>2 DEF Follows
    <3>4. Follows(Order[job.i])'
      BY <3>1, <3>2 DEF Follows
    <3> QED
      BY <3>1, <3>2, <3>3, <3>4, <1>o DEF Restarted, InRotation, InRestart
  <2> QED
    BY <1>t, <2>1, <2>2, <2>3, <2>4, <2>5
<1>9. CASE KeepNewPod
  <2>1. NothingAhead'
    BY <1>9 DEF KeepNewPod, Goto, IsNew, NothingAhead, Behind
  <2>2. CopiesMatch'
    BY <1>9 DEF KeepNewPod, Goto, IsNew, CopiesMatch
  <2>3. RecordsClean'
    BY <1>9 DEF KeepNewPod, Goto, IsNew, RecordsClean, Clean, InRotation
  <2>4. AclShape'
    BY <1>9 DEF KeepNewPod, Goto, IsNew, AclShape, InRotation
  <2>5. Restarted'
    BY <1>9, <1>o DEF KeepNewPod, Goto, IsNew, Restarted, Follows, InRotation, InRestart
  <2> QED
    BY <1>t, <2>1, <2>2, <2>3, <2>4, <2>5
<1>10. CASE ClientReady
  <2>1. NothingAhead'
    BY <1>10 DEF ClientReady, NothingAhead, Behind
  <2>2. CopiesMatch'
    BY <1>10 DEF ClientReady, CopiesMatch
  <2>3. RecordsClean'
    BY <1>10 DEF ClientReady, RecordsClean, Clean, InRotation
  <2>4. AclShape'
    BY <1>10 DEF ClientReady, AclShape, InRotation
  <2>5. Restarted'
    BY <1>10, <1>o DEF ClientReady, Restarted, Follows, InRotation, InRestart
  <2> QED
    BY <1>t, <2>1, <2>2, <2>3, <2>4, <2>5
<1>11. CASE Recheck
  <2>1. NothingAhead'
    <3>1. CASE Goto("reset")
      BY <1>11, <3>1 DEF Recheck, Goto, NothingAhead, Behind
    <3>2. CASE Finish
      BY <1>11, <3>2 DEF Recheck, Finish, Idle, NothingAhead, Behind
    <3> QED
      BY <1>11, <3>1, <3>2 DEF Recheck
  <2>2. CopiesMatch'
    BY <1>11 DEF Recheck, Goto, Finish, Idle, CopiesMatch
  <2>3. RecordsClean'
    <3>1. CASE Goto("reset")
      BY <1>11, <3>1 DEF Recheck, Goto, RecordsClean, Clean, InRotation
    <3>2. CASE Finish
      BY <1>11, <3>2 DEF Recheck, Finish, Idle, RecordsClean, Clean, InRotation
    <3> QED
      BY <1>11, <3>1, <3>2 DEF Recheck
  <2>4. AclShape'
    <3>1. CASE Goto("reset")
      BY <1>11, <3>1 DEF Recheck, Goto, AclShape, InRotation
    <3>2. CASE Finish
      BY <1>11, <3>2 DEF Recheck, Finish, Idle, AclShape, InRotation
    <3> QED
      BY <1>11, <3>1, <3>2 DEF Recheck
  <2>5. Restarted'
    <3>1. CASE Goto("reset")
      BY <1>11, <3>1, <1>o DEF Recheck, Goto, Restarted, Follows, InRotation, InRestart
    <3>2. CASE Finish
      BY <1>11, <3>2 DEF Recheck, Finish, Idle, Restarted, Follows, InRotation, InRestart
    <3> QED
      BY <1>11, <3>1, <3>2 DEF Recheck
  <2> QED
    BY <1>t, <2>1, <2>2, <2>3, <2>4, <2>5
<1>12. CASE RemoveOld
  <2>1. NothingAhead'
    BY <1>12 DEF RemoveOld, Goto, Finish, Idle, NothingAhead, Behind
  <2>2. CopiesMatch'
    BY <1>12 DEF RemoveOld, Goto, Finish, Idle, CopiesMatch
  <2>3. RecordsClean'
    <3>1. CASE job.pw \in acl /\ acl' = {job.pw} /\ Goto("save")
      <4>1. job.pw = secret.pw => \A c \in Clients : Up(c) => pod[c].pw = secret.pw
        <5> SUFFICES ASSUME job.pw = secret.pw, NEW c \in Clients, Up(c)
                     PROVE  pod[c].pw = secret.pw
          OBVIOUS
        <5>1. PICK j \in 1..Len(Order) : Order[j] = c
          BY ClientsAssumption
        <5>2. j < job.i
          BY <1>12, <1>o, <5>1 DEF RemoveOld, Restarted
        <5>3. Follows(c)
          BY <1>12, <5>1, <5>2 DEF RemoveOld, Restarted, InRestart
        <5> QED
          BY <5>3 DEF Follows
      <4>2. /\ state.ver > 0 /\ secret.pw # state.pw
        BY <1>12 DEF RemoveOld, RecordsClean, AclShape, InRotation
      <4>3. /\ job' = [job EXCEPT !.pc = "save"] /\ acl' = {job.pw}
            /\ UNCHANGED <<secret, state, pod>>
        BY <1>12, <3>1 DEF RemoveOld, Goto
      <4>4. job'.pw = job.pw
        BY <4>3
      <4> QED
        BY <4>1, <4>2, <4>3, <4>4 DEF RecordsClean, Clean
    <3>2. CASE acl' = acl /\ Finish
      BY <1>12, <3>2 DEF RemoveOld, Finish, Idle, RecordsClean, Clean, InRotation
    <3> QED
      BY <1>12, <3>1, <3>2 DEF RemoveOld
  <2>4. AclShape'
    BY <1>12 DEF RemoveOld, Goto, Finish, Idle, AclShape, InRotation
  <2>5. Restarted'
    <3>1. CASE Goto("save")
      BY <1>12, <3>1 DEF RemoveOld, Goto, Restarted, InRotation, InRestart
    <3>2. CASE Finish
      BY <1>12, <3>2 DEF RemoveOld, Finish, Idle, Restarted, InRotation, InRestart
    <3> QED
      BY <1>12, <3>1, <3>2 DEF RemoveOld
  <2> QED
    BY <1>t, <2>1, <2>2, <2>3, <2>4, <2>5
<1>13. CASE SaveState
  <2>1. NothingAhead'
    BY <1>13 DEF SaveState, Finish, Idle, NothingAhead, Behind
  <2>2. CopiesMatch'
    BY <1>13 DEF SaveState, Finish, Idle, CopiesMatch
  <2>3. RecordsClean'
    <3>1. /\ job.pc = "save" /\ job.pw \in Password /\ job'.pc = "idle"
          /\ state'.ver = job.ver /\ state'.pw = job.pw
          /\ UNCHANGED <<secret, acl, pod>>
      BY <1>13 DEF SaveState, Finish, Idle
    <3>2. Clean => Clean'
      BY <3>1 DEF Clean
    <3>3. job.ver > 0
      BY <3>1 DEF Restarted
    <3> QED
      BY <3>1, <3>2, <3>3 DEF RecordsClean, InRotation
  <2>4. AclShape'
    BY <1>13 DEF SaveState, Finish, Idle, AclShape, InRotation
  <2>5. Restarted'
    BY <1>13, <1>o DEF SaveState, Finish, Idle, Restarted, Follows, InRotation, InRestart
  <2> QED
    BY <1>t, <2>1, <2>2, <2>3, <2>4, <2>5
<1>14. CASE Stop
  <2>1. NothingAhead'
    BY <1>14 DEF Stop, Finish, Idle, NothingAhead, Behind
  <2>2. CopiesMatch'
    BY <1>14 DEF Stop, Finish, Idle, CopiesMatch
  <2>3. RecordsClean'
    BY <1>14 DEF Stop, Finish, Idle, RecordsClean, Clean, InRotation
  <2>4. AclShape'
    BY <1>14 DEF Stop, Finish, Idle, AclShape, InRotation
  <2>5. Restarted'
    BY <1>14, <1>o DEF Stop, Finish, Idle, Restarted, Follows, InRotation, InRestart
  <2> QED
    BY <1>t, <2>1, <2>2, <2>3, <2>4, <2>5
<1>15. CASE UNCHANGED vars
  <2>1. NothingAhead'
    BY <1>15 DEF vars, NothingAhead, Behind
  <2>2. CopiesMatch'
    BY <1>15 DEF vars, CopiesMatch
  <2>3. RecordsClean'
    BY <1>15 DEF vars, RecordsClean, Clean, InRotation
  <2>4. AclShape'
    BY <1>15 DEF vars, AclShape, InRotation
  <2>5. Restarted'
    BY <1>15, <1>o DEF vars, Restarted, Follows, InRotation, InRestart
  <2> QED
    BY <1>t, <2>1, <2>2, <2>3, <2>4, <2>5
<1> QED
  BY <1>1, <1>2, <1>3, <1>4, <1>5, <1>6, <1>7, <1>8, <1>9, <1>10, <1>11, <1>12, <1>13, <1>14, <1>15 DEF Next, JobStep

(* The invariant holds in every state of a steady rotation.                *)
LEMMA InvHolds == ASSUME Steady PROVE Spec => []RotationInv
  BY InitInv, NextInv, PTL DEF Spec

-----------------------------------------------------------------------------
(* What the rotation promises                                              *)

(* When the controller records the current version as done, every running  *)
(* client is accepted by the store, for any number of clients, changes,    *)
(* stops and restarts (redis-rotation-controller.yaml, step 2).            *)
THEOREM DoneAccepted == ASSUME Steady PROVE Spec => []DoneMeansAccepted
<1>1. RotationInv => DoneMeansAccepted
  BY DEF RotationInv, TypeOK, CopiesMatch, RecordsClean, Clean, Up, DoneMeansAccepted,
     StoreKept, Done, Password, Empty, NoPassword
<1> QED
  BY <1>1, InvHolds, PTL

(* When the controller records the current version as done, the store      *)
(* accepts the password of the Secret and no other (step 3).               *)
THEOREM DoneOldRefused == ASSUME Steady PROVE Spec => []DoneMeansOldRefused
<1>1. RotationInv => DoneMeansOldRefused
  BY DEF RotationInv, TypeOK, CopiesMatch, RecordsClean, Clean, DoneMeansOldRefused,
     StoreKept, Done, Password, Empty, NoPassword
<1> QED
  BY <1>1, InvHolds, PTL

(* Step 3 never refuses a client that the store accepted until then.       *)
THEOREM RemovalSafe == ASSUME Steady PROVE Spec => RemovalStrandsNobody
<1> DEFINE Kept == job.pc = "reset" /\ job'.pc = "save" =>
                     \A c \in Clients : pod[c].pw \in acl => pod[c].pw \in acl'
<1>1. RotationInv /\ [Next]_vars => [Kept]_vars
  <2> SUFFICES ASSUME RotationInv, Next, job.pc = "reset", job'.pc = "save",
                      NEW c \in Clients, pod[c].pw \in acl
               PROVE  pod[c].pw \in acl'
    OBVIOUS
  <2> USE DEF RotationInv, TypeOK, Password, Empty, NoPassword
  <2>1. job.pw \in acl /\ acl' = {job.pw}
    BY DEF Next, JobStep, WriteSecret, MarginPasses, StorePodStarts,
       StoreContainerRestarts, PodStarts, Tick, AddPassword, DeleteOldPod, KeepNewPod,
       ClientReady, Recheck, RemoveOld, SaveState, Stop, Finish, Idle
  <2>2. PICK j \in 1..Len(Order) : Order[j] = c
    BY ClientsAssumption
  <2>3. Follows(c)
    <3>1. j < job.i
      BY <2>2, ClientsAssumption DEF Restarted
    <3> QED
      BY <2>2, <3>1 DEF Restarted, InRestart
  <2>4. pod[c].pw = Empty \/ pod[c].pw >= job.pw
    BY <2>3 DEF Follows, Up
  <2>5. \/ \E y \in acl : acl = {y}
        \/ \A x \in acl : x # Empty /\ x <= job.pw
    BY DEF AclShape, InRotation
  <2>6. CASE \E y \in acl : acl = {y}
    BY <2>1, <2>6
  <2>7. CASE \A x \in acl : x # Empty /\ x <= job.pw
    BY <2>1, <2>4, <2>7
  <2> QED
    BY <2>5, <2>6, <2>7
<1> QED
  BY <1>1, InvHolds, PTL DEF Spec, RemovalStrandsNobody

=============================================================================
