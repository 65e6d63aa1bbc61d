----------------------------- MODULE PurgeBackup -----------------------------
(***************************************************************************)
(* scripts/purge-tenant-backup.sh: the early purge of the last backups of  *)
(* a deleted tenant, beside the tenant operator, which deletes a tenant of *)
(* that name in several steps and takes a backup in each attempt, and      *)
(* beside Velero, which serves the DeleteBackupRequests.                   *)
(*                                                                         *)
(* All backups here have the tenant's label; a backup is its type, the uid *)
(* of its tenant and the attempt.  The uid 0 stands for a backup without   *)
(* the annotation.                                                         *)
(***************************************************************************)
EXTENDS Naturals, FiniteSets

CONSTANTS Uids,        \* of the tenants of this name, 1, 2, ...
          Attempts,    \* of one delete
          MaxPurges    \* bound: runs of the script

VARIABLES tenant,    \* the uid of the Tenant object, or NONE
          deleting,  \* whether its finalizer runs
          uids,      \* the uids used so far
          backups, pc, TENANT_UID,
          rows,      \* what the script selected
          todo,      \* the backups it has not asked for, or not seen go
          reqs,      \* requests that Velero has not served
          purges,
          reused,    \* uids created after the test of a run without TENANT_UID,
                     \* and before its list
          misread    \* backups whose read failed in step 4 while they existed

NONE == 0
FINAL == "final"
Last(u, n) == [type |-> FINAL, uid |-> u, attempt |-> n]
\* The list prints "<name> <uid> <type>" and awk and read split at blanks: of a
\* backup without a uid the type is read as the uid, and no type is left.
type_of(b) == IF b.uid = NONE THEN "" ELSE b.type

world == <<tenant, deleting, uids, reused>>
script == <<pc, TENANT_UID, rows, todo, purges, misread>>

-----------------------------------------------------------------------------
(* The tenant operator.                                                    *)

\* The name may be used again at any moment, in the middle of a purge too.
CreateTenant ==
    /\ tenant = NONE
    /\ \E u \in Uids \ uids :
         /\ \A v \in Uids \ uids : u <= v
         /\ tenant' = u /\ uids' = uids \cup {u}
         /\ reused' = IF pc = "select" /\ TENANT_UID = NONE THEN reused \cup {u} ELSE reused
    /\ UNCHANGED <<deleting, backups, script, reqs>>

DeleteTenant ==
    /\ tenant # NONE /\ ~deleting /\ deleting' = TRUE
    /\ UNCHANGED <<tenant, uids, reused, backups, script, reqs>>

TakeBackup ==
    /\ deleting
    /\ \E n \in Attempts : /\ \A m \in Attempts : m < n => Last(tenant, m) \in backups
                           /\ Last(tenant, n) \notin backups
                           /\ backups' = backups \cup {Last(tenant, n)}
    /\ UNCHANGED <<world, script, reqs>>

TenantGone ==
    /\ deleting /\ \E b \in backups : b.uid = tenant
    /\ tenant' = NONE /\ deleting' = FALSE
    /\ UNCHANGED <<uids, reused, backups, script, reqs>>

\* A backup expires after its 30 days.
ExpireBackup ==
    /\ \E b \in backups : b.uid # tenant /\ backups' = backups \ {b}
    /\ UNCHANGED <<world, script, reqs>>

-----------------------------------------------------------------------------
(* The script.                                                             *)

Ends(how) == /\ pc' = how
             /\ UNCHANGED <<TENANT_UID, rows, todo, purges, misread, reqs>>

StartPurge ==
    /\ pc \in {"idle", "failed", "purged"} /\ purges < MaxPurges
    /\ \E u \in {NONE} \cup uids : TENANT_UID' = u
    /\ pc' = "exists" /\ rows' = {} /\ todo' = {} /\ misread' = {} /\ purges' = purges + 1
    /\ UNCHANGED <<world, backups, reqs>>

\* Step 1.  A read that fails is a refusal too.
TestTenant ==
    /\ pc = "exists"
    /\ \/ Ends("failed")
       \/ tenant = NONE /\ Ends("select")
    /\ UNCHANGED <<world, backups>>

Selected == {b \in backups : b.type = FINAL /\ (TENANT_UID = NONE \/ b.uid = TENANT_UID)}

\* Mutant: backups of several deletes are not refused.
refused_any(sel) == sel = {} \/ \E b \in sel : type_of(b) # FINAL

\* No backup, more than one uid, or a row that is not a last backup.
refused(sel) == \/ sel = {}
                \/ Cardinality({b.uid : b \in sel}) > 1
                \/ \E b \in sel : type_of(b) # FINAL

\* Step 2.  A list that fails ends the script, as a refusal does.
SelectBackups ==
    /\ pc = "select"
    /\ \/ Ends("failed")
       \/ /\ ~refused(Selected)
          /\ pc' = "request" /\ rows' = Selected /\ todo' = Selected
          /\ UNCHANGED <<TENANT_UID, purges, misread, reqs>>
    /\ UNCHANGED <<world, backups>>

\* Step 3, one request; a create that fails ends the script.
RequestDelete ==
    /\ pc = "request"
    /\ \/ Ends("failed")
       \/ \E b \in todo :
            /\ reqs' = reqs \cup {b}
            /\ todo' = IF todo = {b} THEN rows ELSE todo \ {b}
            /\ pc' = IF todo = {b} THEN "wait" ELSE "request"
            /\ UNCHANGED <<TENANT_UID, rows, purges, misread>>
    /\ UNCHANGED <<world, backups>>

\* Mutant: the script waits for one of the backups.
gone_one(b) == b \notin backups /\ todo' = {} /\ pc' = "purged" /\ misread' = misread

\* Step 4, one backup: a read that does not give it counts as gone, whether
\* the backup is not there or the read failed.
gone(b) == /\ misread' = misread \cup ({b} \cap backups)
           /\ todo' = todo \ {b}
           /\ pc' = IF todo = {b} THEN "purged" ELSE "wait"

WaitGone ==
    /\ pc = "wait"
    /\ \/ \E b \in todo : gone(b) /\ UNCHANGED <<TENANT_UID, rows, purges, reqs>>
       \/ todo \cap backups # {} /\ Ends("failed")   \* an error of Velero, or TIMEOUT
    /\ UNCHANGED <<world, backups>>

\* Velero serves a request: the backup and its data go, or it reports errors.
ServeRequest ==
    /\ \E b \in reqs :
         /\ reqs' = reqs \ {b}
         /\ backups' \in {backups \ {b}, backups}
    /\ UNCHANGED <<world, script>>

-----------------------------------------------------------------------------
\* The first tenant of the name runs; an old backup may lack the annotation.
PurgeInit ==
    /\ tenant = 1 /\ deleting = FALSE /\ uids = {1}
    /\ backups \in {{}, {Last(NONE, 1)}}
    /\ pc = "idle" /\ TENANT_UID = NONE /\ rows = {} /\ todo = {}
    /\ reqs = {} /\ purges = 0 /\ reused = {} /\ misread = {}

PurgeNext == \/ CreateTenant \/ DeleteTenant \/ TakeBackup \/ TenantGone \/ ExpireBackup
             \/ StartPurge \/ TestTenant \/ SelectBackups \/ RequestDelete \/ WaitGone
             \/ ServeRequest

-----------------------------------------------------------------------------
\* A request names a backup of a tenant that was deleted, also while the
\* finalizer of the next one takes attempts, and whenever the name is used
\* again.  The one exception is a name used again between step 1 and the list
\* of a run without TENANT_UID: nothing after step 1 asks for the tenant, so
\* that the backups of that new tenant may go while it exists, against "only
\* the backup of a DELETED tenant goes".
TenantKept == \A b \in reqs : b.uid # NONE /\ (b.uid = tenant => b.uid \in reused)

\* A run deletes the backups of one delete, and when it reports success no
\* attempt of that delete is left, other than a backup whose read failed in
\* step 4 (the script takes that failure for "is deleted"), and the attempts of
\* a tenant that was new when the run listed its backups.
PurgeComplete ==
    /\ Cardinality({b.uid : b \in rows}) <= 1
    /\ pc = "purged" => \A r \in rows, b \in backups :
          b.uid = r.uid => b \in misread \/ r.uid \in reused

-----------------------------------------------------------------------------
(* Why a purge is safe and complete.  A uid is never given again, and only *)
(* a delete that runs takes a backup: what a purge selected is all there   *)
(* is of a tenant that is gone, and stays so.                              *)

Past(u) == u \in uids /\ u # NONE /\ (u = tenant => u \in reused)

PurgeInv ==
    /\ uids \subseteq {1} \cup Uids /\ tenant \in uids \cup {NONE}
    /\ reused \subseteq uids
    /\ deleting \in BOOLEAN /\ (deleting = TRUE => tenant # NONE)
    /\ IsFiniteSet(backups)
    /\ \A b \in backups : b.type = FINAL /\ b.uid \in uids \cup {NONE}
    /\ TENANT_UID \in uids \cup {NONE}
    /\ pc = "select" => \/ tenant = NONE \/ tenant \in reused
                        \/ Past(TENANT_UID) /\ TENANT_UID # tenant
    /\ \A b \in rows \cup reqs : Past(b.uid)
    /\ \A b \in backups, r \in rows : b.uid = r.uid => b \in rows \/ r.uid \in reused
    /\ todo \subseteq rows
    /\ pc = "wait" => \A b \in (rows \ todo) \cap backups : b \in misread \/ b.uid \in reused
    /\ pc = "purged" => \A b \in rows \cap backups : b \in misread \/ b.uid \in reused
    /\ Cardinality({b.uid : b \in rows}) <= 1
=============================================================================
