------------------------ MODULE SystemKeyRotation ------------------------
(***************************************************************************)
(* The rotation of the Zitadel System API key: sys_key_rotate of the       *)
(* openbao-auto-init sidecar keeps two slots, flips the active one and     *)
(* then gives the inactive one a new key.  The platform-operator signs with*)
(* the key of the slot it sees as active, and Zitadel trusts the public    *)
(* keys it booted with; each follows the store with its own lag.           *)
(***************************************************************************)
EXTENDS Integers

CONSTANTS Keys,          \* key pairs
          Lifetime,      \* SYS_KEY_LIFETIME_S
          RefreshWait,   \* SYS_REFRESH_WAIT_S
          OperatorLag,   \* store to the signing operator
          TrustLag,      \* store to a Zitadel that booted with the keys
          DrillAnytime   \* the drill also flips during a refresh

ASSUME LagAssumption ==
          /\ OperatorLag \in Nat \ {0} /\ TrustLag \in Nat \ {0}
          /\ RefreshWait \in Nat /\ RefreshWait > OperatorLag /\ RefreshWait > TrustLag
          /\ Lifetime \in Nat /\ Lifetime >= RefreshWait
          /\ DrillAnytime \in BOOLEAN

Slots == {"a", "b"}
Other(s) == IF s = "a" THEN "b" ELSE "a"

VARIABLES active,      \* gibson-zitadel-system-active
          flipAge,     \* age of its last write
          key,         \* per slot: its key pair
          keyAge,      \* per slot: age of its last write
          beforeFlip,  \* per slot: its key is older than the last flip
          pass,        \* "idle", or the slot a started refresh will write
          op, opAge,   \* the operator: the key it signs with, and its age
          trust, trustAge  \* Zitadel: the key it trusts per slot, and its age

vars == <<active, flipAge, key, keyAge, beforeFlip, pass, op, opAge, trust, trustAge>>

TypeOK ==
    /\ active \in Slots
    /\ flipAge \in 0..Lifetime
    /\ key \in [Slots -> Keys]
    /\ keyAge \in [Slots -> 0..RefreshWait]
    /\ beforeFlip \in [Slots -> BOOLEAN]
    /\ pass \in Slots \cup {"idle"}
    /\ op \in [slot : Slots, key : Keys] /\ opAge \in 0..OperatorLag
    /\ trust \in [Slots -> Keys] /\ trustAge \in 0..TrustLag

(* The seed pass has written both keys and then the active slot, and the   *)
(* operator and Zitadel have started with them.                            *)
Init ==
    /\ active = "a" /\ flipAge = 0
    /\ key \in [Slots -> Keys] /\ key["a"] # key["b"]
    /\ keyAge = [s \in Slots |-> 0]
    /\ beforeFlip \in {[s \in Slots |-> b] : b \in BOOLEAN}
    /\ pass = "idle"
    /\ op = [slot |-> "a", key |-> key["a"]] /\ opAge = 0
    /\ trust = key /\ trustAge = 0

-----------------------------------------------------------------------------
(* sys_key_rotate                                                          *)

(* Mutant: the refresh does not wait for the operator to leave the slot.   *)
StartRefreshAtOnce ==
    /\ pass = "idle"
    /\ beforeFlip[Other(active)]
    /\ pass' = Other(active)
    /\ UNCHANGED <<active, flipAge, key, keyAge, beforeFlip, op, opAge, trust, trustAge>>

(* A pass finds the inactive key older than the flip, and the flip older   *)
(* than the wait, and makes a new transit key for that slot.               *)
StartRefresh ==
    /\ pass = "idle"
    /\ beforeFlip[Other(active)]
    /\ flipAge >= RefreshWait
    /\ pass' = Other(active)
    /\ UNCHANGED <<active, flipAge, key, keyAge, beforeFlip, op, opAge, trust, trustAge>>

(* Mutant: the slot gets its old key again.                                *)
WriteSameKey ==
    /\ pass # "idle" /\ pass' = "idle"
    /\ keyAge' = [keyAge EXCEPT ![pass] = 0]
    /\ beforeFlip' = [beforeFlip EXCEPT ![pass] = FALSE]
    /\ UNCHANGED <<active, flipAge, key, op, opAge, trust, trustAge>>

(* The pass writes the new key pair to the slot it chose.                  *)
WriteKey ==
    /\ pass # "idle" /\ pass' = "idle"
    /\ \E k \in Keys \ {key["a"], key["b"], trust["a"], trust["b"], op.key} :
          key' = [key EXCEPT ![pass] = k]
    /\ keyAge' = [keyAge EXCEPT ![pass] = 0]
    /\ beforeFlip' = [beforeFlip EXCEPT ![pass] = FALSE]
    /\ UNCHANGED <<active, flipAge, op, opAge, trust, trustAge>>

(* A write or a transit call fails, or the sidecar stops.                  *)
RefreshFails ==
    /\ pass # "idle" /\ pass' = "idle"
    /\ UNCHANGED <<active, flipAge, key, keyAge, beforeFlip, op, opAge, trust, trustAge>>

(* The write of gibson-zitadel-system-active.                              *)
MakeActive(s) ==
    /\ active' = s /\ flipAge' = 0
    /\ beforeFlip' = [t \in Slots |-> TRUE]
    /\ UNCHANGED <<key, keyAge, pass, op, opAge, trust, trustAge>>

(* Mutant: the test for a refreshed inactive key is inverted.              *)
FlipBeforeRefresh ==
    /\ pass = "idle"
    /\ beforeFlip[Other(active)]
    /\ flipAge >= Lifetime
    /\ keyAge[Other(active)] >= RefreshWait
    /\ MakeActive(Other(active))

(* A pass finds the active slot at the end of its lifetime and the other   *)
(* key old enough to be trusted.                                           *)
Flip ==
    /\ pass = "idle"
    /\ ~beforeFlip[Other(active)]
    /\ flipAge >= Lifetime
    /\ keyAge[Other(active)] >= RefreshWait
    /\ MakeActive(Other(active))

(* The monthly drill flips the slot with baseline-set-secret.sh.  Between  *)
(* two rotations it does what a pass would do.                             *)
Drill ==
    /\ DrillAnytime \/ /\ pass = "idle" /\ ~beforeFlip[Other(active)]
                       /\ keyAge[Other(active)] >= RefreshWait
    /\ MakeActive(Other(active))

-----------------------------------------------------------------------------
(* The operator reads the active slot and its key; Zitadel restarts on a   *)
(* changed public key (Reloader) and trusts what it then reads.            *)
OperatorReads ==
    /\ op' = [slot |-> active, key |-> key[active]] /\ opAge' = 0
    /\ UNCHANGED <<active, flipAge, key, keyAge, beforeFlip, pass, trust, trustAge>>

ZitadelBoots ==
    /\ trust' = key /\ trustAge' = 0
    /\ UNCHANGED <<active, flipAge, key, keyAge, beforeFlip, pass, op, opAge>>

CountUp(n, top) == IF n < top THEN n + 1 ELSE n

Tick ==
    /\ opAge < OperatorLag /\ opAge' = opAge + 1
    /\ trustAge < TrustLag /\ trustAge' = trustAge + 1
    /\ flipAge' = CountUp(flipAge, Lifetime)
    /\ keyAge' = [s \in Slots |-> CountUp(keyAge[s], RefreshWait)]
    /\ UNCHANGED <<active, key, beforeFlip, pass, op, trust>>

Next == \/ StartRefresh \/ WriteKey \/ RefreshFails \/ Flip \/ Drill
        \/ OperatorReads \/ ZitadelBoots \/ Tick

Spec == Init /\ [][Next]_vars

(* A pass runs every five minutes and does not fail for ever; the operator *)
(* and Zitadel follow the store; time passes.                              *)
FairSpec ==
    /\ Spec
    /\ WF_vars(StartRefresh) /\ SF_vars(WriteKey) /\ WF_vars(Flip)
    /\ WF_vars(OperatorReads) /\ WF_vars(ZitadelBoots) /\ WF_vars(Tick)

-----------------------------------------------------------------------------
(* Properties                                                              *)

(* Zitadel trusts the key that the operator signs with, at every moment of *)
(* a rotation: the waits of sys_key_rotate cover both lags.                *)
OperatorTrusted == trust[op.slot] = op.key

(* No key signs for ever: the operator leaves each key it signs with.      *)
KeysRotate == \A k \in Keys : op.key = k ~> op.key # k

(* A key the operator has left is refused in the end: Zitadel stops        *)
(* trusting the key of the slot that was active before.                    *)
OldKeyRefused ==
    \A k \in Keys : (k = key[Other(active)] /\ beforeFlip[Other(active)])
                       ~> k \notin {trust["a"], trust["b"]}

==========================================================================
