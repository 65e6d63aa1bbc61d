---------------------- MODULE MasterkeyRotationProofs ----------------------
(***************************************************************************)
(* Theorems about the masterkey rotation for any masterkeys, any rows and  *)
(* any value of the bounds.                                                *)
(***************************************************************************)
EXTENDS MasterkeyRotation, TLAPS

-----------------------------------------------------------------------------
(* Type correctness                                                        *)

(* A store that Zitadel was set up with is well typed.                     *)
LEMMA InitType == Init => TypeOK
  BY MasterkeyAssumption DEF Init, TypeOK, NoRows

(* Every step of the job, of the requests and of Zitadel keeps the types.  *)
LEMMA NextType == TypeOK /\ [Next]_vars => TypeOK'
<1> SUFFICES ASSUME TypeOK, [Next]_vars PROVE TypeOK'
  OBVIOUS
<1> USE MasterkeyAssumption DEF TypeOK, NoRows, kv, db, job, zitadel
<1>1. CASE MkRequest \/ Drill
  BY <1>1 DEF MkRequest, Drill, WriteNext
<1>2. CASE Read
  BY <1>2 DEF Read
<1>3. CASE WriteMarker
  BY <1>3 DEF WriteMarker, Exit
<1>4. CASE NothingToDo
  BY <1>4 DEF NothingToDo, Exit
<1>5. CASE AlreadyRewrapped
  BY <1>5 DEF AlreadyRewrapped
<1>6. CASE ReadRows
  BY <1>6 DEF ReadRows
<1>7. CASE Commit
  BY <1>7 DEF Commit, Exit, Rewrapped, Overtake
<1>8. CASE Flip
  BY <1>8 DEF Flip, Exit
<1>9. CASE Stop
  BY <1>9 DEF Stop, Exit
<1>10. CASE Sync \/ Guard \/ Load \/ Reload
  BY <1>10 DEF Sync, Guard, Load, Reload
<1>11. CASE Crash
  BY <1>11 DEF Crash
<1>12. CASE \E r \in Rows : Insert(r)
  BY <1>12 DEF Insert
<1>13. CASE UNCHANGED vars
  BY <1>13 DEF vars
<1> QED
  BY <1>1, <1>2, <1>3, <1>4, <1>5, <1>6, <1>7, <1>8, <1>9, <1>10, <1>11, <1>12,
     <1>13 DEF Next, Job

(* Every state of the rotation is well typed: in particular the job never  *)
(* moves an empty next to value.                                           *)
THEOREM TypeCorrect == Spec => []TypeOK
<1>1. QED
  BY InitType, NextType, PTL DEF Spec

-----------------------------------------------------------------------------
(* The masterkey of the rows is never lost                                 *)

(* What the job read stays true while it runs: value is its own to change, *)
(* and a pending next is left alone by every request.                      *)
JobView ==
    pc # "idle" => jv = value /\ (jn # None => next = jn)

(* What the marker says to a job that has proved it.                       *)
Proved ==
    /\ pc = "commit" => marker = jv
    /\ pc = "flip" => marker = jn

KeyInv == TypeOK /\ JobView /\ Proved /\ KeyKept

(* Every step keeps the job's view of the store and the masterkey.         *)
LEMMA KeyStep ==
  ASSUME DrillAnytime = FALSE, KeyInv, [Next]_vars PROVE KeyInv'
<1>0. TypeOK'
  BY NextType DEF KeyInv
<1> USE MasterkeyAssumption DEF KeyInv, JobView, Proved, KeyKept, kv, db, job, zitadel
<1>1. CASE MkRequest \/ Drill
  BY <1>0, <1>1 DEF MkRequest, Drill, WriteNext
<1>2. CASE Read
  BY <1>0, <1>2 DEF Read
<1>3. CASE WriteMarker
  BY <1>0, <1>3 DEF WriteMarker, Exit
<1>4. CASE NothingToDo \/ Stop
  BY <1>0, <1>4 DEF NothingToDo, Stop, Exit
<1>5. CASE AlreadyRewrapped
  BY <1>0, <1>5 DEF AlreadyRewrapped
<1>6. CASE ReadRows
  BY <1>0, <1>6 DEF ReadRows
<1>7. CASE Commit
  BY <1>0, <1>7 DEF Commit, Exit, TypeOK
<1>8. CASE Flip
  BY <1>0, <1>8 DEF Flip, Exit
<1>9. CASE Sync \/ Guard \/ Load \/ Reload \/ Crash
  BY <1>0, <1>9 DEF Sync, Guard, Load, Reload, Crash
<1>10. CASE \E r \in Rows : Insert(r)
  BY <1>0, <1>10 DEF Insert
<1>11. CASE UNCHANGED vars
  BY <1>0, <1>11 DEF vars
<1> QED
  BY <1>1, <1>2, <1>3, <1>4, <1>5, <1>6, <1>7, <1>8, <1>9, <1>10, <1>11 DEF Next, Job

(* The masterkey that wraps the rows is in the store as value or as next,  *)
(* wherever the job stops, as long as the drill keeps out of a rotation.   *)
THEOREM MasterkeyKept == ASSUME DrillAnytime = FALSE PROVE Spec => []KeyKept
<1>1. Init => KeyInv
  BY InitType DEF Init, KeyInv, JobView, Proved, KeyKept
<1>2. KeyInv /\ [Next]_vars => KeyInv'
  BY KeyStep
<1>3. KeyInv => KeyKept
  BY DEF KeyInv
<1> QED
  BY <1>1, <1>2, <1>3, PTL DEF Spec

-----------------------------------------------------------------------------
(* Every row opens                                                         *)

(* Until the marker exists nothing has rotated: Zitadel, the Secret and    *)
(* the rows have the first masterkey.                                      *)
FirstKey ==
    marker = None => /\ secret = value /\ mk = value
                     /\ \A r \in Rows : wrap[r] \in {None, value}

RowsInv == KeyInv /\ FirstKey /\ RowsOpen

(* Every step keeps the rows and the marker together.                      *)
LEMMA RowsStep ==
  ASSUME DrillAnytime = FALSE, InsertWhileOld = FALSE, RowsInv, [Next]_vars
  PROVE  RowsInv'
<1>0. KeyInv'
  BY KeyStep DEF RowsInv
<1> USE MasterkeyAssumption DEF RowsInv, KeyInv, FirstKey, RowsOpen, kv, db, job, zitadel
<1>1. CASE MkRequest \/ Drill
  BY <1>0, <1>1 DEF MkRequest, Drill, WriteNext
<1>2. CASE Read
  BY <1>0, <1>2 DEF Read
<1>3. CASE WriteMarker
  BY <1>0, <1>3 DEF WriteMarker, Exit, JobView
<1>4. CASE NothingToDo \/ Stop
  BY <1>0, <1>4 DEF NothingToDo, Stop, Exit
<1>5. CASE AlreadyRewrapped
  BY <1>0, <1>5 DEF AlreadyRewrapped
<1>6. CASE ReadRows
  BY <1>0, <1>6 DEF ReadRows
<1>7. CASE Commit
  BY <1>0, <1>7 DEF Commit, Exit, TypeOK, JobView, Proved, Rewrapped
<1>8. CASE Flip
  BY <1>0, <1>8 DEF Flip, Exit, Proved, TypeOK
<1>9. CASE Sync \/ Guard \/ Load \/ Reload \/ Crash
  BY <1>0, <1>9 DEF Sync, Guard, Load, Reload, Crash
<1>10. CASE \E r \in Rows : Insert(r)
  BY <1>0, <1>10 DEF Insert, TypeOK
<1>11. CASE UNCHANGED vars
  BY <1>0, <1>11 DEF vars
<1> QED
  BY <1>1, <1>2, <1>3, <1>4, <1>5, <1>6, <1>7, <1>8, <1>9, <1>10, <1>11 DEF Next, Job

(* The inductive invariant of the rows holds at the start.                 *)
LEMMA RowsInit == Init => RowsInv
  BY InitType DEF Init, RowsInv, KeyInv, JobView, Proved, KeyKept, FirstKey, RowsOpen

(* No row is left behind or lost by a rewrap, whatever Zitadel inserts     *)
(* while the job runs and wherever the job stops.                          *)
THEOREM EveryRowOpens ==
  ASSUME DrillAnytime = FALSE, InsertWhileOld = FALSE PROVE Spec => []RowsOpen
<1>1. RowsInv /\ [Next]_vars => RowsInv'
  BY RowsStep
<1>2. RowsInv => RowsOpen
  BY DEF RowsInv
<1> QED
  BY RowsInit, <1>1, <1>2, PTL DEF Spec

-----------------------------------------------------------------------------
(* Zitadel reads its keys with the masterkey that wraps them               *)

(* A pod that the guard let pass still has the masterkey of the marker, or *)
(* a rewrap has committed since.                                           *)
Passed == zit = "guarded" => marker \in {None, mk}

LoadInv == RowsInv /\ Passed

(* Every step keeps a guarded pod and the marker together.                 *)
LEMMA LoadStep ==
  ASSUME DrillAnytime = FALSE, InsertWhileOld = FALSE, LoadInv, [Next]_vars
  PROVE  LoadInv'
<1>0. RowsInv'
  BY RowsStep DEF LoadInv
<1> USE DEF LoadInv, Passed, kv, db, job, zitadel
<1>1. CASE MkRequest \/ Drill
  BY <1>0, <1>1 DEF MkRequest, Drill, WriteNext
<1>2. CASE WriteMarker
  BY <1>0, <1>2 DEF WriteMarker, Exit, RowsInv, KeyInv, FirstKey, JobView
<1>3. CASE Read \/ NothingToDo \/ AlreadyRewrapped \/ ReadRows \/ Flip \/ Stop
  BY <1>0, <1>3 DEF Read, NothingToDo, AlreadyRewrapped, ReadRows, Flip, Stop
<1>4. CASE Commit
  BY <1>0, <1>4 DEF Commit, Overtake
<1>5. CASE Sync \/ Guard \/ Load \/ Reload \/ Crash
  BY <1>0, <1>5 DEF Sync, Guard, Load, Reload, Crash
<1>6. CASE \E r \in Rows : Insert(r)
  BY <1>0, <1>6 DEF Insert
<1>7. CASE UNCHANGED vars
  BY <1>0, <1>7 DEF vars
<1> QED
  BY <1>1, <1>2, <1>3, <1>4, <1>5, <1>6, <1>7 DEF Next, Job

(* LoadsClean: the only Zitadel process that reads a row it cannot open is *)
(* one between whose guard and start a rewrap committed.                   *)
THEOREM GuardedLoadsClean ==
  ASSUME DrillAnytime = FALSE, InsertWhileOld = FALSE
  PROVE  Spec => LoadsClean
<1>1. Init => LoadInv
  BY RowsInit DEF LoadInv, Passed, Init
<1>2. LoadInv /\ [Next]_vars => LoadInv'
  BY LoadStep
<1>3. LoadInv => [zit = "guarded" /\ zit' = "up" =>
                    \A r \in Rows : wrap[r] \in {None, mk}]_vars
  BY DEF LoadInv, Passed, RowsInv, FirstKey, RowsOpen
<1> QED
  BY <1>1, <1>2, <1>3, PTL DEF Spec, LoadsClean

=============================================================================
