--------------------- MODULE SystemKeyRotationProofs ---------------------
(***************************************************************************)
(* Theorems about the rotation of the Zitadel System API key for any       *)
(* number of key pairs and any lags and waits that LagAssumption allows.   *)
(***************************************************************************)
EXTENDS SystemKeyRotation, TLAPS

-----------------------------------------------------------------------------
(* Type correctness                                                        *)

(* Counting up stays below the top.                                        *)
LEMMA CountUpRange ==
  ASSUME NEW top \in Nat, NEW n \in 0..top
  PROVE  /\ CountUp(n, top) \in 0..top
         /\ n < top => CountUp(n, top) = n + 1
         /\ n = top => CountUp(n, top) = n
  BY DEF CountUp

(* Every step keeps the types.                                             *)
LEMMA NextType == TypeOK /\ [Next]_vars => TypeOK'
<1> SUFFICES ASSUME TypeOK, [Next]_vars PROVE TypeOK'
  OBVIOUS
<1> USE LagAssumption DEF TypeOK, Slots, Other
<1>1. CASE StartRefresh \/ RefreshFails
  BY <1>1 DEF StartRefresh, RefreshFails
<1>2. CASE WriteKey
  <2>1. PICK k \in Keys : key' = [key EXCEPT ![pass] = k]
    BY <1>2 DEF WriteKey
  <2> QED
    BY <1>2, <2>1 DEF WriteKey
<1>3. CASE Flip \/ Drill
  <2>1. MakeActive(Other(active))
    BY <1>3 DEF Flip, Drill
  <2> QED
    BY <2>1 DEF MakeActive
<1>4. CASE OperatorReads \/ ZitadelBoots
  BY <1>4 DEF OperatorReads, ZitadelBoots
<1>5. CASE Tick
  <2>1. flipAge' \in 0..Lifetime
    BY <1>5, CountUpRange DEF Tick
  <2>2. keyAge' \in [Slots -> 0..RefreshWait]
    BY <1>5, CountUpRange DEF Tick
  <2>3. opAge' \in 0..OperatorLag /\ trustAge' \in 0..TrustLag
    BY <1>5 DEF Tick
  <2> QED
    BY <1>5, <2>1, <2>2, <2>3 DEF Tick
<1>6. CASE UNCHANGED vars
  BY <1>6 DEF vars
<1> QED
  BY <1>1, <1>2, <1>3, <1>4, <1>5, <1>6 DEF Next

(* The store, the operator and Zitadel are well typed at every moment, the *)
(* ages never past the waits that sys_key_rotate compares them with.       *)
THEOREM TypeCorrect == Spec => []TypeOK
<1>1. Init => TypeOK
  BY LagAssumption DEF Init, TypeOK, Slots
<1> QED
  BY <1>1, NextType, PTL DEF Spec

-----------------------------------------------------------------------------
(* The operator's key is trusted                                           *)

(* A refresh writes the inactive slot, long after the last flip.           *)
RefreshLate == pass # "idle" => pass = Other(active) /\ flipAge >= RefreshWait

(* The operator is at the other slot only while the flip is within its lag,*)
(* and it signs with the key that the store still has in that slot.        *)
OperatorLags == /\ op.slot # active => flipAge <= opAge
                /\ op.key = key[op.slot]

(* A key that is older than the last boot of Zitadel is trusted, and so    *)
(* are the key of the active slot and the one the operator signs with.     *)
TrustKept == /\ \A s \in Slots : keyAge[s] > trustAge => trust[s] = key[s]
             /\ trust[active] = key[active]
             /\ trust[op.slot] = key[op.slot]

TrustInv == TypeOK /\ RefreshLate /\ OperatorLags /\ TrustKept

(* Every step keeps the invariant as long as the drill leaves a refresh    *)
(* alone: a flip waits until the new key is older than TrustLag, and a     *)
(* refresh until the operator has left the slot.                           *)
LEMMA NextTrust ==
  ASSUME ~DrillAnytime, TrustInv, [Next]_vars PROVE TrustInv'
<1>1. TypeOK /\ TypeOK'
  BY NextType DEF TrustInv
<1> USE LagAssumption, <1>1 DEF TrustInv, TypeOK, Slots, Other
<1> USE DEF RefreshLate, OperatorLags, TrustKept
<1>2. CASE StartRefresh \/ RefreshFails
  BY <1>2 DEF StartRefresh, RefreshFails
<1>3. CASE WriteKey
  <2>1. PICK k \in Keys : key' = [key EXCEPT ![pass] = k]
    BY <1>3 DEF WriteKey
  <2>2. /\ pass = Other(active) /\ pass # active /\ flipAge > opAge
        /\ op.slot = active
    BY <1>3 DEF WriteKey
  <2>3. /\ key'[active] = key[active] /\ key'[op.slot] = key[op.slot]
        /\ \A s \in Slots : s # pass => key'[s] = key[s] /\ keyAge'[s] = keyAge[s]
        /\ keyAge'[pass] = 0
    BY <1>3, <2>1, <2>2 DEF WriteKey
  <2> QED
    BY <1>3, <2>2, <2>3 DEF WriteKey
<1>4. CASE Flip \/ Drill
  <2>1. /\ pass = "idle" /\ keyAge[Other(active)] >= RefreshWait
        /\ MakeActive(Other(active))
    BY <1>4 DEF Flip, Drill
  <2>2. trust[Other(active)] = key[Other(active)]
    BY <2>1
  <2> QED
    BY <2>1, <2>2 DEF MakeActive
<1>5. CASE OperatorReads
  BY <1>5 DEF OperatorReads
<1>6. CASE ZitadelBoots
  BY <1>6 DEF ZitadelBoots
<1>7. CASE Tick
  <2>1. /\ flipAge' >= flipAge
        /\ flipAge <= opAge => flipAge' = flipAge + 1
    BY <1>7, CountUpRange DEF Tick
  <2>2. \A s \in Slots : keyAge[s] <= trustAge => keyAge'[s] = keyAge[s] + 1
    BY <1>7, CountUpRange DEF Tick
  <2>3. /\ opAge' = opAge + 1 /\ trustAge' = trustAge + 1
        /\ UNCHANGED <<active, key, beforeFlip, pass, op, trust>>
    BY <1>7 DEF Tick
  <2> QED
    BY <2>1, <2>2, <2>3
<1>8. CASE UNCHANGED vars
  BY <1>8 DEF vars
<1> QED
  BY <1>2, <1>3, <1>4, <1>5, <1>6, <1>7, <1>8 DEF Next

(* OperatorTrusted: whenever the passes, the restarts and the ticks        *)
(* happen, Zitadel trusts the key the operator signs with, for every       *)
(* choice of waits longer than the lags, if the drill does not flip the    *)
(* slot during a refresh.                                                  *)
THEOREM OperatorAlwaysTrusted ==
  ASSUME ~DrillAnytime PROVE Spec => []OperatorTrusted
<1>1. Init => TrustInv
  <2>1. Init => TypeOK
    BY LagAssumption DEF Init, TypeOK, Slots
  <2> QED
    BY <2>1 DEF Init, TrustInv, RefreshLate, OperatorLags, TrustKept, Slots
<1>2. TrustInv /\ [Next]_vars => TrustInv'
  BY NextTrust
<1>3. TrustInv => OperatorTrusted
  BY DEF TrustInv, OperatorLags, TrustKept, OperatorTrusted
<1> QED
  BY <1>1, <1>2, <1>3, PTL DEF Spec

==========================================================================
