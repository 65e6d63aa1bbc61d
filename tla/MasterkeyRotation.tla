------------------------- MODULE MasterkeyRotation -------------------------
(***************************************************************************)
(* The rotation of the Zitadel masterkey: the sidecar or the drill writes  *)
(* the key `next`, the CronJob rewraps the rows of system.encryption_keys  *)
(* and its marker in one transaction and then moves next to value, and a   *)
(* guard holds Zitadel back from a masterkey that does not open the marker.*)
(* The job may be stopped between any two steps, and Zitadel inserts rows  *)
(* and restarts at any time.                                               *)
(*                                                                         *)
(* AES-CFB has no integrity check, so a row is what wraps it: decrypted    *)
(* with another masterkey and wrapped again, it is Lost.                   *)
(***************************************************************************)
EXTENDS Integers

CONSTANTS Masterkeys,
          None,            \* an empty property, a missing row or marker
          Lost,            \* what is left of a row decrypted with a wrong key
          Rows,            \* ids of system.encryption_keys
          MaxStops,        \* bound: stops of the job and crashes of Zitadel
          MaxRequests,     \* bound: rotations asked for
          InsertWhileOld,  \* Zitadel inserts a row after the rewrap, before it restarts
          DrillAnytime     \* the drill also writes next during a rotation

ASSUME MasterkeyAssumption ==
          /\ {None, Lost} \cap Masterkeys = {} /\ None # Lost
          /\ MaxStops \in Nat /\ MaxRequests \in Nat
          /\ InsertWhileOld \in BOOLEAN /\ DrillAnytime \in BOOLEAN

VARIABLES value, next,   \* secret/zitadel-masterkey
          marker,        \* the masterkey that opens the marker
          wrap,          \* per row: the masterkey that opens it
          pc, jv, jn,    \* the job: its step, /work/value and /work/next
          snap,          \* /work/rows
          secret,        \* the Secret gibson-zitadel-masterkey
          zit, mk,       \* Zitadel: its state, the masterkey of its pod
          stops, requests

kv == <<value, next>>
db == <<marker, wrap>>
job == <<pc, jv, jn, snap>>
zitadel == <<zit, mk>>
vars == <<kv, db, job, secret, zitadel, stops, requests>>

TypeOK ==
    /\ value \in Masterkeys /\ next \in Masterkeys \cup {None}
    /\ marker \in Masterkeys \cup {None}
    /\ wrap \in [Rows -> Masterkeys \cup {None, Lost}]
    /\ snap \in [Rows -> Masterkeys \cup {None, Lost}]
    /\ pc \in {"idle", "prove", "commit", "flip"}
    /\ jv \in Masterkeys \cup {None} /\ jn \in Masterkeys \cup {None}
    /\ pc \in {"commit", "flip"} => jn \in Masterkeys
    /\ secret \in Masterkeys
    /\ zit \in {"down", "guarded", "overtaken", "up"} /\ mk \in Masterkeys
    /\ stops \in 0..MaxStops /\ requests \in 0..MaxRequests

NoRows == [r \in Rows |-> None]

(* Zitadel has been set up with the first masterkey; no job has run.       *)
Init ==
    /\ value \in Masterkeys /\ next = None
    /\ marker = None /\ wrap \in [Rows -> {None, value}]
    /\ pc = "idle" /\ jv = None /\ jn = None /\ snap = NoRows
    /\ secret = value /\ zit = "down" /\ mk = value
    /\ stops = 0 /\ requests = 0

(* gen_rand: a masterkey nothing holds.                                    *)
Fresh(k) ==
    k \in Masterkeys \ ({value, next, marker, jv, jn, secret, mk}
                           \cup {wrap[r] : r \in Rows} \cup {snap[r] : r \in Rows})

WriteNext ==
    /\ requests < MaxRequests /\ requests' = requests + 1
    /\ \E k \in Masterkeys : Fresh(k) /\ next' = k
    /\ UNCHANGED <<value, db, job, secret, zitadel, stops>>

(* Mutant: a pending rotation is not looked for.                           *)
MkRequestAgain == WriteNext

(* mk_request of the sidecar: the value is at the end of its lifetime.     *)
MkRequest == next = None /\ WriteNext

(* The drill, scripts/baseline-set-secret.sh, does not look at next.       *)
Drill ==
    /\ DrillAnytime \/ (next = None /\ pc = "idle")
    /\ WriteNext

-----------------------------------------------------------------------------
(* The CronJob                                                             *)

Exit == pc' = "idle" /\ jv' = None /\ jn' = None /\ snap' = NoRows

(* Step 1, the container read.                                             *)
Read ==
    /\ pc = "idle" /\ pc' = "prove"
    /\ jv' = value /\ jn' = next
    /\ UNCHANGED <<kv, db, snap, secret, zitadel, stops, requests>>

(* Step 2, the container rewrap: no marker yet.                            *)
WriteMarker ==
    /\ pc = "prove" /\ marker = None
    /\ marker' = jv /\ Exit
    /\ UNCHANGED <<kv, wrap, secret, zitadel, stops, requests>>

(* Mutant: the action of step 3 is flip although nothing is pending.       *)
FlipsNothing ==
    /\ pc = "prove" /\ marker # None /\ jn = None
    /\ pc' = "flip"
    /\ UNCHANGED <<kv, db, jv, jn, snap, secret, zitadel, stops, requests>>

(* No rotation is pending, or the marker proves neither masterkey.         *)
NothingToDo ==
    /\ pc = "prove" /\ marker # None
    /\ jn = None \/ marker \notin {jv, jn}
    /\ Exit
    /\ UNCHANGED <<kv, db, secret, zitadel, stops, requests>>

(* Mutant: the marker is proved with the current masterkey only.           *)
RefusesRewrapped ==
    /\ pc = "prove" /\ marker # None /\ jn # None /\ marker = jn
    /\ Exit
    /\ UNCHANGED <<kv, db, secret, zitadel, stops, requests>>

(* An earlier run rewrapped the rows.                                      *)
AlreadyRewrapped ==
    /\ pc = "prove" /\ marker # None /\ jn # None /\ marker = jn
    /\ pc' = "flip"
    /\ UNCHANGED <<kv, db, jv, jn, snap, secret, zitadel, stops, requests>>

(* The rows and their digest, in one snapshot.                             *)
ReadRows ==
    /\ pc = "prove" /\ jn # None /\ marker = jv /\ marker # jn
    /\ pc' = "commit" /\ snap' = wrap
    /\ UNCHANGED <<kv, db, jv, jn, secret, zitadel, stops, requests>>

Rewrapped(k) == IF k = None THEN None ELSE IF k = jv THEN jn ELSE Lost

(* A pod past its guard has not read its rows yet when a rewrap commits.   *)
Overtake == zit' = IF zit = "guarded" THEN "overtaken" ELSE zit

(* Mutant: the rows are not compared under the lock.                       *)
CommitUnchecked ==
    /\ pc = "commit" /\ pc' = "flip"
    /\ wrap' = [r \in Rows |-> IF snap[r] = None THEN wrap[r] ELSE Rewrapped(snap[r])]
    /\ marker' = jn
    /\ Overtake
    /\ UNCHANGED <<kv, jv, jn, snap, secret, mk, stops, requests>>

(* The transaction: under the lock the rows are the rows read, and each    *)
(* one and the marker get the next masterkey; or it is rolled back.        *)
Commit ==
    /\ pc = "commit"
    /\ \/ /\ wrap = snap /\ pc' = "flip"
          /\ wrap' = [r \in Rows |-> Rewrapped(snap[r])] /\ marker' = jn
          /\ Overtake
          /\ UNCHANGED <<jv, jn, snap>>
       \/ wrap # snap /\ Exit /\ UNCHANGED <<db, zit>>
    /\ UNCHANGED <<kv, secret, mk, stops, requests>>

(* Step 3, the container write.                                            *)
Flip ==
    /\ pc = "flip"
    /\ value' = jn /\ next' = None /\ Exit
    /\ UNCHANGED <<db, secret, zitadel, stops, requests>>

(* The job ends between two steps: a call that fails, the deadline.        *)
Stop ==
    /\ pc # "idle" /\ Exit
    /\ stops < MaxStops /\ stops' = stops + 1
    /\ UNCHANGED <<kv, db, secret, zitadel, requests>>

-----------------------------------------------------------------------------
(* ESO and Zitadel                                                         *)

Sync ==
    /\ secret # value /\ secret' = value
    /\ UNCHANGED <<kv, db, job, zitadel, stops, requests>>

(* Mutant: the guard lets every masterkey pass.                            *)
GuardLetsAll ==
    /\ zit = "down" /\ zit' = "guarded"
    /\ mk' = secret
    /\ UNCHANGED <<kv, db, job, secret, stops, requests>>

(* The init container of a Zitadel pod; a missing marker passes.           *)
Guard ==
    /\ zit = "down" /\ zit' = "guarded"
    /\ mk' = secret
    /\ marker \in {None, secret}
    /\ UNCHANGED <<kv, db, job, secret, stops, requests>>

(* Zitadel starts and reads its rows.                                      *)
Load ==
    /\ zit \in {"guarded", "overtaken"} /\ zit' = "up"
    /\ UNCHANGED <<kv, db, job, secret, mk, stops, requests>>

(* A running Zitadel writes a new encryption key.                          *)
Insert(r) ==
    /\ zit = "up" /\ wrap[r] = None
    /\ InsertWhileOld \/ marker \in {None, mk}
    /\ wrap' = [wrap EXCEPT ![r] = mk]
    /\ UNCHANGED <<kv, marker, job, secret, zitadel, stops, requests>>

(* Reloader restarts Zitadel on the new Secret.                            *)
Reload ==
    /\ zit # "down" /\ mk # secret /\ zit' = "down"
    /\ UNCHANGED <<kv, db, job, secret, mk, stops, requests>>

Crash ==
    /\ zit # "down" /\ zit' = "down"
    /\ stops < MaxStops /\ stops' = stops + 1
    /\ UNCHANGED <<kv, db, job, secret, mk, requests>>

Job == Read \/ WriteMarker \/ NothingToDo \/ AlreadyRewrapped \/ ReadRows \/ Commit \/ Flip

Next == \/ MkRequest \/ Drill
        \/ Job \/ Stop
        \/ Sync \/ Guard \/ Load \/ Reload \/ Crash
        \/ \E r \in Rows : Insert(r)

Spec == Init /\ [][Next]_vars

(* The CronJob runs every ten minutes; ESO, Reloader and the kubelet act.  *)
FairSpec ==
    /\ Spec
    /\ WF_vars(Job) /\ WF_vars(Sync) /\ WF_vars(Guard) /\ WF_vars(Load)
    /\ WF_vars(Reload)

-----------------------------------------------------------------------------
(* Properties                                                              *)

(* Every row opens with the masterkey of the marker: no row that Zitadel   *)
(* inserts while the job runs is left behind by the rewrap, and none is    *)
(* lost.  It is what the guard and the next rotation rely on.              *)
RowsOpen == marker # None => \A r \in Rows : wrap[r] \in {None, marker}

(* The masterkey that wraps the rows is never lost: wherever the job was   *)
(* stopped, the store holds it as value or as next.                        *)
KeyKept == marker \in {None, value, next}

(* What a Zitadel process reads at its start opens with the masterkey of   *)
(* its pod (the masterkey guard), unless a rewrap committed between the    *)
(* look of the guard at the marker and the start.  Such a process decrypts *)
(* its keys to garbage, although the comment of the guard says that it     *)
(* cannot: nothing in the code closes that window.                         *)
LoadsClean ==
    [][zit = "guarded" /\ zit' = "up" => \A r \in Rows : wrap[r] \in {None, mk}]_vars

(* Every rotation completes: in the end nothing is pending, the marker and *)
(* the store agree, and Zitadel runs with the masterkey of the store, also *)
(* after a start that a rewrap overtook.                                   *)
Settles == <>[](/\ next = None /\ marker = value
                /\ zit = "up" /\ mk = value)

=============================================================================
