----------------------- MODULE TokenRotationProofs -----------------------
(***************************************************************************)
(* Theorems about the rotation of the service token, for any tokens,       *)
(* lifetimes, graces and lags, and any number of failed calls and stops.   *)
(***************************************************************************)
EXTENDS TokenRotation, TLAPS

-----------------------------------------------------------------------------
(* Type correctness                                                        *)

(* Every step of the sidecar's pass keeps the types.                       *)
LEMMA PassType == TypeOK /\ Pass => TypeOK'
<1> SUFFICES ASSUME TypeOK, Pass PROVE TypeOK'
  OBVIOUS
<1> USE TokenAssumption DEF TypeOK, Step, Failed, Passed
<1>1. CASE StartRotation \/ KeepToken \/ ReplaceEnded
  BY <1>1 DEF StartRotation, KeepToken, ReplaceEnded, NotRotating
<1>2. CASE RenewToken
  BY <1>2 DEF RenewToken, NotRotating
<1>3. CASE MintToken
  <2>1. PICK t \in Tokens : secret' = t /\ ttl' = [ttl EXCEPT ![t] = Period]
    BY <1>3 DEF MintToken
  <2>2. requested' \in BOOLEAN
    BY <1>3 DEF MintToken
  <2> QED
    BY <1>3, <2>1, <2>2 DEF MintToken
<1>4. CASE MintFails
  BY <1>4 DEF MintFails
<1>5. CASE RecordOld
  BY <1>5 DEF RecordOld
<1>6. CASE CopyToken("copy", AfterCopy) \/ CopyToken("seed", "done")
  BY <1>6 DEF CopyToken, AfterCopy
<1>7. CASE RevokeOld
  BY <1>7 DEF RevokeOld
<1>8. CASE NothingToRevoke
  BY <1>8 DEF NothingToRevoke
<1>9. CASE PassWithoutLogin
  <2>1. login' \in BOOLEAN
    BY <1>9 DEF PassWithoutLogin
  <2> QED
    BY <1>9, <2>1 DEF PassWithoutLogin
<1> QED
  BY <1>1, <1>2, <1>3, <1>4, <1>5, <1>6, <1>7, <1>8, <1>9 DEF Pass

(* Every step keeps the types.                                             *)
LEMMA NextType == TypeOK /\ [Next]_vars => TypeOK'
<1> SUFFICES ASSUME TypeOK, [Next]_vars PROVE TypeOK'
  OBVIOUS
<1> USE TokenAssumption DEF TypeOK, Step, pass
<1>1. CASE Pass
  BY <1>1, PassType
<1>2. CASE Stop \/ Start \/ Request
  <2>1. login' \in BOOLEAN /\ requested' \in BOOLEAN
    BY <1>2 DEF Stop, Start, Request
  <2> QED
    BY <1>2, <2>1 DEF Stop, Start, Request
<1>3. CASE ConsumerFollows \/ ConsumerRenews
  BY <1>3 DEF ConsumerFollows, ConsumerRenews
<1>4. CASE Tick
  <2>1. pc' \in {"idle", "down"} /\ down' \in 0..MaxDown
    BY <1>4 DEF Tick
  <2>2. ttl' \in [Tokens -> 0..Period]
    BY <1>4 DEF Tick
  <2>3. lag' \in 0..Lag /\ age' \in 0..Lifetime /\ grace' \in 0..Grace
    BY <1>4 DEF Tick
  <2> QED
    BY <1>4, <2>1, <2>2, <2>3 DEF Tick
<1>5. CASE UNCHANGED vars
  BY <1>5 DEF vars
<1> QED
  BY <1>1, <1>2, <1>3, <1>4, <1>5 DEF Next

(* The Secret, the copy, the annotation, the consumer and the pass are     *)
(* well typed at every moment, and no token outlives token_period_s.       *)
THEOREM TypeCorrect == Spec => []TypeOK
<1>1. ASSUME Init PROVE TypeOK
  <2>1. login \in BOOLEAN /\ requested \in BOOLEAN
    BY <1>1 DEF Init
  <2> QED
    BY <1>1, <2>1, TokenAssumption DEF Init, TypeOK
<1> QED
  BY <1>1, NextType, PTL DEF Spec

-----------------------------------------------------------------------------
(* What a failed copy costs                                                *)

(* The intervals that failures and stops of the sidecar can waste.         *)
Outage == MaxFailures + MaxStops * MaxDown

(* The grace and the period outlast the consumer's lag and every outage.   *)
Outlasts == Grace > Lag + Outage /\ Period > Lag + Outage

(* The intervals wasted so far, ...                                        *)
Spent == failures + stops * MaxDown + (IF pc = "down" THEN down ELSE 0)

(* ... those allowed for, a stop and a failed pass counted in advance, ... *)
Allowed == Lag + 1 + Outage
           + (IF pc = "down" THEN MaxDown ELSE IF pc = "done" THEN 1 ELSE 0)

(* ... and n intervals that last as long as what may still be wasted.      *)
Covers(n) == n + Spent >= Allowed

(* Each stop may waste MaxDown intervals.                                  *)
LEMMA StopsBound ==
  ASSUME NEW k \in 0..MaxStops
  PROVE  /\ k * MaxDown \in Nat /\ MaxStops * MaxDown \in Nat
         /\ k * MaxDown <= MaxStops * MaxDown
         /\ (k + 1) * MaxDown = k * MaxDown + MaxDown
<1> DEFINE m == MaxStops - k
<1>1. m \in Nat /\ MaxStops = k + m /\ k \in Nat /\ MaxDown \in Nat
  BY TokenAssumption
<1>2. \A a, b \in Nat : a * b \in Nat
  OBVIOUS
<1>3. \A a, b, c \in Nat : (a + c) * b = a * b + c * b
  OBVIOUS
<1> HIDE DEF m
<1>4. MaxStops * MaxDown = k * MaxDown + m * MaxDown
  BY <1>1, <1>3
<1>5. k * MaxDown \in Nat /\ m * MaxDown \in Nat
  BY <1>1, <1>2
<1>6. (k + 1) * MaxDown = k * MaxDown + 1 * MaxDown
  BY <1>1, <1>3
<1>7. 1 * MaxDown = MaxDown
  BY <1>1
<1> QED
  BY <1>4, <1>5, <1>6, <1>7

(* What covers the waste also covers the lag of the consumer, and one more *)
(* interval when a tick may take it.                                       *)
LEMMA CoversLag ==
  ASSUME TypeOK, NEW n \in Nat, Covers(n)
  PROVE  n > Lag /\ (Tick => n > Lag + 1)
<1> DEFINE s == stops * MaxDown
           m == MaxStops * MaxDown
<1>1. s \in Nat /\ m \in Nat /\ s <= m
  BY StopsBound DEF TypeOK
<1>2. n + failures + s + (IF pc = "down" THEN down ELSE 0)
        >= Lag + 1 + MaxFailures + m
           + (IF pc = "down" THEN MaxDown ELSE IF pc = "done" THEN 1 ELSE 0)
  BY <1>1, TokenAssumption DEF Covers, Spent, Allowed, Outage, TypeOK
<1> HIDE DEF s, m
<1>3. n > Lag
  BY <1>1, <1>2, TokenAssumption DEF TypeOK
<1>4. ASSUME Tick PROVE n > Lag + 1
  <2>1. pc = "done" \/ (pc = "down" /\ down < MaxDown)
    BY <1>4, Zenon DEF Tick, Step
  <2> QED
    BY <1>1, <1>2, <2>1, TokenAssumption DEF TypeOK
<1> QED
  BY <1>3, <1>4

(* A token or a grace as long as Outlasts asks for covers all the waste    *)
(* while the sidecar is in its pass.                                       *)
LEMMA CoversAll ==
  ASSUME TypeOK, NEW n \in Nat, n > Lag + Outage, pc \notin {"down", "done"}
  PROVE  Covers(n)
<1> DEFINE s == stops * MaxDown
           m == MaxStops * MaxDown
<1>1. s \in Nat /\ m \in Nat
  BY StopsBound DEF TypeOK
<1> HIDE DEF s, m
<1>2. n > Lag + (MaxFailures + m)
  BY DEF Outage, m
<1>3. n + (failures + s + 0) >= Lag + 1 + (MaxFailures + m) + 0
  BY <1>1, <1>2, TokenAssumption DEF TypeOK
<1> QED
  BY <1>3 DEF Covers, Spent, Allowed, Outage, s, m

(* While the copy is behind, a step never asks for more than it has spent: *)
(* a pass that ends without the copy has spent a failure, and a tick       *)
(* spends an interval of a stop or the one that the failed pass paid for.  *)
LEMMA StepSpends ==
  ASSUME TypeOK, TypeOK', [Next]_vars, copy' # secret'
  PROVE  /\ Spent \in Nat /\ Allowed \in Nat /\ Spent' \in Nat /\ Allowed' \in Nat
         /\ Allowed' + Spent <= Allowed + Spent'
         /\ Tick => Allowed' + Spent + 1 <= Allowed + Spent'
<1> DEFINE s == stops * MaxDown
           t == stops' * MaxDown
           m == MaxStops * MaxDown
           inD == IF pc = "down" THEN down ELSE 0
           inE == IF pc' = "down" THEN down' ELSE 0
           upD == IF pc = "down" THEN MaxDown ELSE IF pc = "done" THEN 1 ELSE 0
           upE == IF pc' = "down" THEN MaxDown ELSE IF pc' = "done" THEN 1 ELSE 0
<1>1. /\ failures \in Nat /\ failures' \in Nat /\ down \in Nat /\ down' \in Nat
      /\ stops \in 0..MaxStops /\ stops' \in 0..MaxStops
      /\ MaxDown \in Nat /\ MaxFailures \in Nat /\ Lag \in Nat
  BY TokenAssumption DEF TypeOK
<1>2. s \in Nat /\ t \in Nat /\ m \in Nat
  BY <1>1, StopsBound
<1>3. (stops' = stops => t = s) /\ (stops' = stops + 1 => t = s + MaxDown)
  BY <1>1, StopsBound
<1>4. /\ Spent = failures + s + inD /\ Spent' = failures' + t + inE
      /\ Allowed = Lag + 1 + (MaxFailures + m) + upD
      /\ Allowed' = Lag + 1 + (MaxFailures + m) + upE
  BY DEF Spent, Allowed, Outage
<1>5. inD \in Nat /\ inE \in Nat /\ upD \in Nat /\ upE \in Nat
  BY <1>1
<1>6. /\ upE + failures + s + inD <= upD + failures' + t + inE
      /\ Tick => upE + failures + s + inD + 1 <= upD + failures' + t + inE
  <2> HIDE DEF s, t, m
  <2>1. CASE Pass
    <3>1. stops' = stops /\ failures' \in {failures, failures + 1}
      BY <2>1 DEF Pass, StartRotation, KeepToken, RenewToken, ReplaceEnded, MintToken,
         MintFails, RecordOld, CopyToken, RevokeOld, NothingToRevoke, PassWithoutLogin,
         NotRotating, Failed, Passed
    <3>2. pc # "done" /\ pc # "down" /\ pc' # "down"
      BY <2>1 DEF Pass, StartRotation, KeepToken, RenewToken, ReplaceEnded, MintToken,
         MintFails, RecordOld, CopyToken, AfterCopy, RevokeOld, NothingToRevoke,
         PassWithoutLogin, Step
    <3>3. pc' = "done" => failures' = failures + 1
      <4>1. CASE CopyToken("copy", AfterCopy) \/ CopyToken("seed", "done")
        BY <4>1 DEF CopyToken, Failed
      <4> QED
        BY <2>1, <4>1 DEF Pass, StartRotation, KeepToken, RenewToken, ReplaceEnded,
           MintToken, MintFails, RecordOld, RevokeOld, NothingToRevoke,
           PassWithoutLogin, Failed, Step
    <3>4. ~Tick
      BY <3>2 DEF Tick, Step
    <3>5. inD = 0 /\ inE = 0 /\ upD = 0
      BY <3>2
    <3>6. upE = IF pc' = "done" THEN 1 ELSE 0
      BY <3>2
    <3>7. t = s
      BY <1>3, <3>1
    <3> HIDE DEF inD, inE, upD, upE
    <3>8. CASE pc' = "done"
      BY <1>1, <1>2, <3>1, <3>3, <3>4, <3>5, <3>6, <3>7, <3>8
    <3>9. CASE pc' # "done"
      <4>1. upE = 0
        BY <3>6, <3>9
      <4>2. PICK f \in Nat : f = failures' /\ f >= failures
        BY <1>1, <3>1
      <4>3. failures <= f /\ failures \in Nat
        BY <1>1, <4>2
      <4>4. 0 + failures + s + 0 <= 0 + f + s + 0
        BY <1>2, <4>3
      <4> QED
        BY <3>4, <3>5, <3>7, <4>1, <4>2, <4>4
    <3> QED
      BY <3>8, <3>9
  <2>2. CASE Stop
    <3>1. ~Tick
      BY <2>2 DEF Stop, Tick, Step
    <3>2. stops' = stops + 1 /\ failures' = failures /\ pc' = "down" /\ down' = 0 /\ pc # "down"
      BY <2>2 DEF Stop
    <3> QED
      BY <1>1, <1>2, <1>3, <3>1, <3>2
  <2>3. CASE Start
    <3>1. pc = "down" /\ pc' = "idle" /\ UNCHANGED <<failures, stops, down>>
      BY <2>3 DEF Start, Step
    <3>2. inD = down /\ inE = 0 /\ upD = MaxDown /\ upE = 0 /\ t = s /\ ~Tick
      BY <1>3, <3>1 DEF Tick, Step
    <3>3. down <= MaxDown
      BY TokenAssumption DEF TypeOK
    <3> HIDE DEF inD, inE, upD, upE
    <3> QED
      BY <1>1, <1>2, <3>1, <3>2, <3>3
  <2>4. CASE Tick
    <3>1. t = s /\ failures' = failures
      BY <1>3, <2>4 DEF Tick
    <3>2. CASE pc = "done" /\ pc' = "idle"
      <4>1. inD = 0 /\ inE = 0 /\ upD = 1 /\ upE = 0
        BY <3>2
      <4> HIDE DEF inD, inE, upD, upE
      <4> QED
        BY <1>1, <1>2, <3>1, <4>1
    <3>3. CASE pc = "down" /\ pc' = "down" /\ down' = down + 1
      <4>1. inD = down /\ inE = down + 1 /\ upD = MaxDown /\ upE = MaxDown
        BY <3>3
      <4> HIDE DEF inD, inE, upD, upE
      <4> QED
        BY <1>1, <1>2, <3>1, <4>1
    <3> QED
      BY <2>4, <3>2, <3>3 DEF Tick, Step
  <2>5. CASE Request \/ ConsumerFollows \/ ConsumerRenews \/ UNCHANGED vars
    <3>1. UNCHANGED <<pc, failures, stops, down>>
      BY <2>5 DEF Request, ConsumerFollows, ConsumerRenews, vars, pass
    <3>2. ~Tick
      BY <1>1, <3>1 DEF Tick, Step
    <3> QED
      BY <1>1, <1>2, <1>3, <3>1, <3>2
  <2> QED
    BY <2>1, <2>2, <2>3, <2>4, <2>5 DEF Next
<1> HIDE DEF s, t, m, inD, inE, upD, upE
<1>7. PICK f \in Nat, e \in Nat, u \in Nat : f = failures' /\ e = inE /\ u = upE
  BY <1>1, <1>5
<1>8. Spent' = f + t + e /\ Allowed' = Lag + 1 + (MaxFailures + m) + u
  BY <1>4, <1>7
<1>9. /\ u + failures + s + inD <= upD + f + t + e
      /\ Tick => u + failures + s + inD + 1 <= upD + f + t + e
  BY <1>6, <1>7
<1>10. Spent \in Nat /\ Spent' \in Nat /\ Allowed \in Nat /\ Allowed' \in Nat
  <2>1. failures + s + inD \in Nat /\ f + t + e \in Nat
    BY <1>1, <1>2, <1>5
  <2>2. /\ Lag + 1 + (MaxFailures + m) + upD \in Nat
        /\ Lag + 1 + (MaxFailures + m) + u \in Nat
    BY <1>1, <1>2, <1>5
  <2> QED
    BY <1>4, <1>8, <2>1, <2>2
<1>11. (Lag + 1 + (MaxFailures + m) + u) + (failures + s + inD)
         <= (Lag + 1 + (MaxFailures + m) + upD) + (f + t + e)
  BY <1>1, <1>2, <1>5, <1>9
<1>12. Tick => (Lag + 1 + (MaxFailures + m) + u) + (failures + s + inD) + 1
         <= (Lag + 1 + (MaxFailures + m) + upD) + (f + t + e)
  BY <1>1, <1>2, <1>5, <1>9
<1> QED
  BY <1>4, <1>8, <1>10, <1>11, <1>12

(* A step leaves covered what it does not shorten, and a tick also what it *)
(* shortens by one interval.                                               *)
LEMMA CoversKept ==
  ASSUME TypeOK, TypeOK', [Next]_vars, copy' # secret',
         NEW a \in Nat, NEW b \in Nat, Covers(a),
         b >= a \/ (Tick /\ b + 1 >= a)
  PROVE  b + Spent' >= Allowed'
<1>1. PICK x \in Nat, y \in Nat, v \in Nat, w \in Nat :
         x = Spent /\ y = Allowed /\ v = Spent' /\ w = Allowed'
  BY StepSpends
<1>2. w + x <= y + v /\ (Tick => w + x + 1 <= y + v)
  BY StepSpends, <1>1
<1>3. a + x >= y
  BY <1>1 DEF Covers
<1>4. b + v >= w
  BY <1>2, <1>3
<1> QED
  BY <1>1, <1>4

-----------------------------------------------------------------------------
(* The consumer's token                                                    *)

(* The old accessor is held from the decision to the record, while nothing *)
(* else is recorded, and the recorded token is never the one in force.     *)
Records ==
    /\ pending # secret
    /\ old # None => pending = None /\ pc \in {"mint", "record"}
    /\ pc = "mint" => old \in {None, secret}
    /\ pc = "record" => old \notin {None, secret}

(* The consumer gets the token in force only through the copy.             *)
Follows == held = secret => copy = secret

(* The copy outlasts the consumer's lag; a token that is not copied yet    *)
(* and the grace of a copied or a held one outlast the failures to come.   *)
CopyLasts == held # copy => ttl[copy] + lag > Lag
SecretLasts == copy # secret => Covers(ttl[secret])
CopyInGrace == copy = pending => Covers(grace)
HeldInGrace == held = pending => grace + lag > Lag

TokenInv ==
    /\ TypeOK /\ Records /\ Follows
    /\ CopyLasts /\ SecretLasts /\ CopyInGrace /\ HeldInGrace
    /\ ConsumerLive

(* Every step keeps the record of the old accessor.                        *)
LEMMA RecordsKept == TypeOK /\ Records /\ [Next]_vars => Records'
<1> SUFFICES ASSUME TypeOK, Records, [Next]_vars PROVE Records'
  OBVIOUS
<1> USE TokenAssumption DEF TypeOK, Records, Step
<1>1. CASE StartRotation \/ KeepToken \/ ReplaceEnded
  BY <1>1 DEF StartRotation, KeepToken, ReplaceEnded, RotationDue
<1>2. CASE RenewToken \/ PassWithoutLogin
  BY <1>2 DEF RenewToken, PassWithoutLogin
<1>3. CASE MintToken \/ MintFails
  BY <1>3 DEF MintToken, MintFails
<1>4. CASE RecordOld
  BY <1>4 DEF RecordOld
<1>5. CASE CopyToken("copy", AfterCopy) \/ CopyToken("seed", "done")
  BY <1>5 DEF CopyToken, AfterCopy
<1>6. CASE RevokeOld \/ NothingToRevoke
  BY <1>6 DEF RevokeOld, NothingToRevoke
<1>7. CASE Stop \/ Start \/ Request \/ ConsumerFollows \/ ConsumerRenews
  BY <1>7 DEF Stop, Start, Request, ConsumerFollows, ConsumerRenews, pass
<1>8. CASE Tick
  BY <1>8 DEF Tick
<1>9. CASE UNCHANGED vars
  BY <1>9 DEF vars, pass
<1> QED
  BY <1>1, <1>2, <1>3, <1>4, <1>5, <1>6, <1>7, <1>8, <1>9 DEF Next, Pass

(* The calls that neither mint, copy, record nor revoke: they leave the    *)
(* tokens where they are and only renew.                                   *)
Quiet ==
    /\ UNCHANGED <<secret, copy, pending, grace, held, lag>>
    /\ \A t \in Tokens : ttl'[t] >= ttl[t]

(* The calls of the pass that only read or renew, the stops, the drill's   *)
(* request and the consumer's Renewer are quiet.                           *)
LEMMA QuietSteps ==
  ASSUME TypeOK,
         \/ StartRotation \/ KeepToken \/ RenewToken \/ ReplaceEnded \/ MintFails
         \/ NothingToRevoke \/ PassWithoutLogin \/ Stop \/ Start \/ Request
         \/ ConsumerRenews \/ UNCHANGED vars
  PROVE  Quiet
<1>1. \A t \in Tokens : ttl[t] \in 0..Period
  BY DEF TypeOK
<1>2. CASE UNCHANGED <<secret, copy, pending, grace, held, lag, ttl>>
  BY <1>1, <1>2, TokenAssumption DEF Quiet
<1>3. ASSUME UNCHANGED <<secret, copy, pending, grace, held, lag>>,
             NEW x \in Tokens, ttl' = [ttl EXCEPT ![x] = Period]
      PROVE  Quiet
  BY <1>1, <1>3, TokenAssumption DEF Quiet, TypeOK
<1>4. CASE RenewToken \/ MintFails \/ PassWithoutLogin \/ ConsumerRenews
  BY <1>2, <1>3, <1>4 DEF RenewToken, MintFails, PassWithoutLogin, ConsumerRenews, TypeOK
<1> QED
  BY <1>2, <1>4 DEF StartRotation, KeepToken, ReplaceEnded, NothingToRevoke, Stop, Start,
     Request, vars

(* Every step keeps the invariant.                                         *)
LEMMA TokenInvKept ==
  ASSUME Outlasts, TokenInv, [Next]_vars
  PROVE  TokenInv'
<1>1. TypeOK /\ TypeOK'
  BY NextType DEF TokenInv
<1>2. Records /\ Records'
  BY <1>1, RecordsKept DEF TokenInv
<1>3. /\ Lag \in Nat /\ Grace \in Nat /\ Period \in Nat /\ None \notin Tokens
      /\ secret \in Tokens /\ copy \in Tokens /\ held \in Tokens
      /\ lag \in 0..Lag /\ grace \in Nat /\ ttl \in [Tokens -> Nat]
      /\ lag' \in 0..Lag /\ grace' \in Nat /\ ttl' \in [Tokens -> Nat]
      /\ secret' \in Tokens /\ copy' \in Tokens /\ held' \in Tokens
  BY <1>1, TokenAssumption DEF TypeOK
<1>4. /\ Follows /\ CopyLasts /\ SecretLasts /\ CopyInGrace /\ HeldInGrace
      /\ ConsumerLive
  BY DEF TokenInv
<1>5. (copy # secret => ttl[secret] > Lag) /\ (copy = pending => grace > Lag)
  BY <1>1, <1>3, <1>4, CoversLag DEF SecretLasts, CopyInGrace
<1> SUFFICES Follows' /\ CopyLasts' /\ SecretLasts' /\ CopyInGrace' /\ HeldInGrace'
             /\ ConsumerLive'
  BY <1>1, <1>2 DEF TokenInv
<1>6. CASE Quiet
  <2>1. Follows' /\ CopyLasts' /\ HeldInGrace' /\ ConsumerLive'
    BY <1>3, <1>4, <1>6 DEF Quiet, Follows, CopyLasts, HeldInGrace, ConsumerLive
  <2>2. SecretLasts'
    BY <1>1, <1>3, <1>4, <1>6, CoversKept DEF Quiet, SecretLasts, Covers
  <2>3. CopyInGrace'
    BY <1>1, <1>2, <1>3, <1>4, <1>6, CoversKept DEF Quiet, CopyInGrace, Covers, Records
  <2> QED
    BY <2>1, <2>2, <2>3
<1>7. CASE MintToken
  <2>1. PICK t \in Tokens \ {secret, copy, held, pending} :
           secret' = t /\ ttl' = [ttl EXCEPT ![t] = Period]
    BY <1>7 DEF MintToken
  <2>2. UNCHANGED <<copy, pending, grace, held, lag>> /\ pc' \in {"copy", "record"}
    BY <1>7 DEF MintToken
  <2>3. Follows' /\ CopyLasts' /\ HeldInGrace' /\ ConsumerLive'
    BY <1>3, <1>4, <2>1, <2>2 DEF Follows, CopyLasts, HeldInGrace, ConsumerLive
  <2>4. SecretLasts'
    <3>1. Covers(Period)
      BY <1>1, <1>3, <1>7, CoversAll DEF MintToken, Outlasts
    <3>2. ttl'[secret'] = Period
      BY <1>3, <2>1
    <3> QED
      BY <1>1, <1>3, <3>1, <3>2, CoversKept DEF SecretLasts, Covers
  <2>5. CopyInGrace'
    BY <1>1, <1>2, <1>3, <1>4, <2>2, CoversKept DEF CopyInGrace, Covers, Records
  <2> QED
    BY <2>3, <2>4, <2>5
<1>8. CASE RecordOld
  <2>1. UNCHANGED <<secret, copy, ttl, held, lag>> /\ pc = "record"
    BY <1>8 DEF RecordOld, Step
  <2>2. Follows' /\ CopyLasts' /\ ConsumerLive'
    BY <1>4, <2>1 DEF Follows, CopyLasts, ConsumerLive
  <2>3. SecretLasts'
    BY <1>1, <1>3, <1>4, <2>1, CoversKept DEF SecretLasts, Covers
  <2>4. UNCHANGED <<pending, grace>> \/ grace' = Grace
    BY <1>8 DEF RecordOld
  <2>5. HeldInGrace'
    <3>1. Grace + lag > Lag
      BY <1>3, TokenAssumption
    <3>2. CASE grace' = Grace
      BY <2>1, <3>1, <3>2 DEF HeldInGrace
    <3>3. CASE UNCHANGED <<pending, grace>>
      BY <1>4, <2>1, <3>3 DEF HeldInGrace
    <3> QED
      BY <2>4, <3>2, <3>3
  <2>6. CopyInGrace'
    <3>1. Covers(Grace)
      BY <1>1, <1>3, <2>1, CoversAll DEF Outlasts
    <3> QED
      BY <1>1, <1>2, <1>3, <1>4, <2>1, <2>4, <3>1, CoversKept
         DEF CopyInGrace, Covers, Records
  <2> QED
    BY <2>2, <2>3, <2>5, <2>6
<1>9. CASE CopyToken("copy", AfterCopy) \/ CopyToken("seed", "done")
  <2>1. UNCHANGED <<secret, pending, grace, ttl, held, lag>> /\ copy' \in {copy, secret}
    BY <1>9 DEF CopyToken
  <2>2. CASE copy' = copy
    BY <1>3, <1>6, <2>1, <2>2 DEF Quiet
  <2>3. CASE copy' = secret
    <3>1. CopyLasts'
      BY <1>3, <1>4, <1>5, <2>1, <2>3 DEF CopyLasts
    <3> QED
      BY <1>2, <1>4, <2>1, <2>3, <3>1 DEF Follows, SecretLasts, CopyInGrace,
         HeldInGrace, ConsumerLive, Records
  <2> QED
    BY <2>1, <2>2, <2>3
<1>10. CASE RevokeOld
  <2>1. /\ grace = 0 /\ pending # None /\ UNCHANGED <<secret, copy, grace, held, lag>>
        /\ ttl' \in {ttl, [ttl EXCEPT ![pending] = 0]} /\ pending' \in {None, pending}
    BY <1>10 DEF RevokeOld
  <2>2. pending \notin {secret, copy, held}
    BY <1>2, <1>3, <1>4, <1>5, <2>1 DEF Records, HeldInGrace
  <2>3. UNCHANGED <<ttl[secret], ttl[copy], ttl[held]>>
    BY <1>3, <2>1, <2>2
  <2>4. Follows' /\ CopyLasts' /\ ConsumerLive'
    BY <1>4, <2>1, <2>3 DEF Follows, CopyLasts, ConsumerLive
  <2>5. CopyInGrace' /\ HeldInGrace'
    BY <1>3, <2>1, <2>2 DEF CopyInGrace, HeldInGrace
  <2>6. SecretLasts'
    BY <1>1, <1>3, <1>4, <2>1, <2>3, CoversKept DEF SecretLasts, Covers
  <2> QED
    BY <2>4, <2>5, <2>6
<1>11. CASE ConsumerFollows
  <2>1. UNCHANGED <<secret, copy, pending, grace, ttl>> /\ held # copy /\ held' = copy /\ lag' = 0
    BY <1>11 DEF ConsumerFollows
  <2>2. Follows' /\ CopyLasts' /\ ConsumerLive'
    BY <1>3, <1>4, <2>1 DEF Follows, CopyLasts, ConsumerLive
  <2>3. HeldInGrace'
    BY <1>3, <1>5, <2>1 DEF HeldInGrace
  <2>4. SecretLasts'
    BY <1>1, <1>3, <1>4, <2>1, CoversKept DEF SecretLasts, Covers
  <2>5. CopyInGrace'
    BY <1>1, <1>2, <1>3, <1>4, <2>1, CoversKept DEF CopyInGrace, Covers, Records
  <2> QED
    BY <2>2, <2>3, <2>4, <2>5
<1>12. CASE Tick
  <2>1. UNCHANGED <<secret, copy, pending, held>> /\ (held # copy => lag < Lag)
    BY <1>12 DEF Tick
  <2>2. lag' = (IF held # copy THEN lag + 1 ELSE 0) /\ grace' = (IF grace > 0 THEN grace - 1 ELSE 0)
    BY <1>12 DEF Tick
  <2>3. \A t \in Tokens : ttl'[t] = IF ttl[t] > 0 THEN ttl[t] - 1 ELSE 0
    BY <1>12 DEF Tick
  <2>4. Follows'
    BY <1>4, <2>1 DEF Follows
  <2>5. ConsumerLive'
    BY <1>3, <1>4, <1>12, <2>1, <2>3 DEF ConsumerLive, Tick
  <2>6. CopyLasts'
    BY <1>3, <1>4, <2>1, <2>2, <2>3 DEF CopyLasts
  <2>7. HeldInGrace'
    <3>1. PICK g \in Nat, l \in Nat : g = grace' /\ l = lag'
      BY <1>3
    <3>2. ASSUME held = pending PROVE g + l > Lag
      <4>1. CASE held = copy
        <5>1. grace > Lag + 1
          BY <1>1, <1>3, <1>4, <1>12, <3>2, <4>1, CoversLag DEF CopyInGrace
        <5>2. g + 1 >= grace
          BY <1>3, <2>2, <3>1
        <5> QED
          BY <1>3, <5>1, <5>2
      <4>2. CASE held # copy
        <5>1. l = lag + 1 /\ g + 1 >= grace /\ grace + lag > Lag
          BY <1>3, <1>4, <2>2, <3>1, <3>2, <4>2 DEF HeldInGrace
        <5>2. g + l > Lag
          BY <1>3, <5>1
        <5> QED
          BY <5>2
      <4> QED
        BY <4>1, <4>2
    <3> QED
      BY <2>1, <3>1, <3>2 DEF HeldInGrace
  <2>8. SecretLasts'
    <3>1. ttl'[secret'] + 1 >= ttl[secret]
      BY <1>3, <2>1, <2>3
    <3> QED
      BY <1>1, <1>3, <1>4, <1>12, <2>1, <3>1, CoversKept DEF SecretLasts, Covers
  <2>9. CopyInGrace'
    <3>1. grace' + 1 >= grace
      BY <1>3, <2>2
    <3> QED
      BY <1>1, <1>2, <1>3, <1>4, <1>12, <2>1, <3>1, CoversKept
         DEF CopyInGrace, Covers, Records
  <2> QED
    BY <2>4, <2>5, <2>6, <2>7, <2>8, <2>9
<1> QED
  BY <1>1, <1>6, <1>7, <1>8, <1>9, <1>10, <1>11, <1>12, QuietSteps DEF Next, Pass

(* The consumer never holds a token that has ended, whatever calls fail    *)
(* and whenever the sidecar stops, for as long as the grace and the period *)
(* of a token outlast the consumer's lag and the intervals the failures    *)
(* and stops may waste: token_revoke_pending kills only what nobody holds. *)
THEOREM ConsumerAlwaysLive ==
  ASSUME Outlasts
  PROVE  Spec => []ConsumerLive
<1>1. ASSUME Init PROVE TokenInv
  <2>1. TypeOK
    <3>1. login \in BOOLEAN /\ requested \in BOOLEAN
      BY <1>1 DEF Init
    <3> QED
      BY <1>1, <3>1, TokenAssumption DEF Init, TypeOK
  <2> QED
    BY <1>1, <2>1, TokenAssumption DEF Init, TokenInv, Records, Follows, CopyLasts,
       SecretLasts, CopyInGrace, HeldInGrace, ConsumerLive
<1>2. TokenInv /\ [Next]_vars => TokenInv'
  BY TokenInvKept
<1>3. TokenInv => ConsumerLive
  BY DEF TokenInv
<1> QED
  BY <1>1, <1>2, <1>3, PTL DEF Spec

=============================================================================
