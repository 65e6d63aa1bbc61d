------------------------ MODULE CgKeyRotationProofs ------------------------
(***************************************************************************)
(* Theorems about the rotation of the Capability-Grant signing key for any *)
(* kids, any replicas and any waits that WaitsAssumption allows.           *)
(***************************************************************************)
EXTENDS CgKeyRotation, TLAPS

-----------------------------------------------------------------------------
(* Type correctness                                                        *)

(* Counting up stays below the top.                                        *)
LEMMA CountUpRange ==
  ASSUME NEW top \in Nat, NEW n \in 0..top
  PROVE  /\ CountUp(n, top) \in 0..top
         /\ n < top => CountUp(n, top) = n + 1
         /\ n = top => CountUp(n, top) = n
  BY DEF CountUp

(* The current slot holds a kid with its seed, and so does what a pass is  *)
(* about to make current.  Every copy names a kid as current.              *)
Loads == /\ cur \in Kids
         /\ pc # "idle" => lnxt \in Kids
         /\ half => nxt \notin {cur, lnxt, None}
NamesKid(c) == c.cur[1] \in Kids
CopiesLoad == /\ read > 0 => got[1] \in Kids
              /\ NamesKid(secret) /\ \A r \in Replicas : NamesKid(view[r])

(* A copy is at least as old as what it was taken from.                    *)
AgesOrdered == /\ read = 0 => gotAge = 0 /\ tearing = FALSE
               /\ gotAge <= secretAge
               /\ \A r \in Replicas : secretAge <= viewAge[r]

LoadInv == TypeOK /\ Loads /\ CopiesLoad

(* A property read from the store is a kid or nothing.                     *)
LEMMA PropertyType ==
  ASSUME TypeOK, NEW i \in 1..6 PROVE Property(i) \in Slot
  BY DEF TypeOK, Property, Slot

(* What the Secret will be is a copy.                                      *)
LEMMA WillBeType == ASSUME LoadInv PROVE WillBe \in Copies /\ NamesKid(WillBe)
<1>1. \A i \in 1..6 : WillGet(i) \in Slot
  BY PropertyType DEF WillGet, LoadInv, TypeOK
<1>2. tearing \in BOOLEAN
  BY DEF LoadInv, TypeOK
<1>3. WillGet(1) \in Kids
  BY DEF WillGet, Property, LoadInv, TypeOK, Loads, CopiesLoad
<1>4. WillBe \in Copies
  BY <1>1, <1>2 DEF WillBe, Copies, Keys
<1> QED
  BY <1>3, <1>4 DEF WillBe, NamesKid

(* The first kid is in place.                                              *)
LEMMA InitLoads == Init => LoadInv
<1> SUFFICES ASSUME Init PROVE LoadInv
  OBVIOUS
<1>1. half \in BOOLEAN /\ tearing \in BOOLEAN
  BY DEF Init
<1>2. secret \in Copies /\ NamesKid(secret)
  <2>1. Key(cur) \in Keys /\ Key(None) \in Keys
    BY DEF Init, Keys, Key, Slot
  <2>2. ASSUME NEW b \in BOOLEAN
        PROVE  [cur |-> Key(cur), nxt |-> Key(None), prv |-> Key(None), torn |-> b] \in Copies
    BY <2>1 DEF Copies
  <2>3. secret \in Copies
    BY <2>2, Zenon DEF Init
  <2>4. secret.cur = Key(cur) /\ cur \in Kids
    BY DEF Init
  <2> QED
    BY <2>3, <2>4 DEF Key, NamesKid
<1>3. view \in [Replicas -> Copies] /\ CopiesLoad
  <2>1. view = [r \in Replicas |-> secret] /\ read = 0
    BY DEF Init
  <2> QED
    BY <1>2, <2>1 DEF CopiesLoad
<1>4. /\ viewAge \in [Replicas -> 0..Propagate]
      /\ life \in [Keys -> 0..TokenLife]
      /\ gotAge \in 0..Propagate /\ secretAge \in 0..Propagate
  BY WaitsAssumption DEF Init
<1>5. Loads
  BY DEF Init, Loads
<1>6. read \in 0..5 /\ got \in [1..5 -> Slot]
  BY DEF Init, Slot
<1>7. /\ cur \in Slot /\ nxt \in Slot /\ prv \in Slot /\ lcur \in Slot /\ lnxt \in Slot
      /\ curAge \in 0..Lifetime /\ nxtAge \in 0..PromoteWait /\ failures \in 0..MaxFailures
      /\ pc \in {"idle", "previous", "current", "clear"}
  BY WaitsAssumption, OtherAssumption DEF Init, Slot
<1> QED
  BY <1>1, <1>2, <1>3, <1>4, <1>5, <1>6, <1>7 DEF LoadInv, TypeOK

(* Every step keeps the types and a kid with its seed in current, also a   *)
(* failed last write and a drill during a rotation.                        *)
LEMMA NextLoads == ASSUME LoadInv, [Next]_vars PROVE LoadInv'
<1> USE WaitsAssumption, OtherAssumption
    DEF LoadInv, TypeOK, Loads, CopiesLoad, NamesKid, Slot, slots, pass, fetch, daemon
<1>1. CASE Promote
  BY <1>1 DEF Promote
<1>2. CASE PutPrevious \/ ClearNext
  <2>1. half' \in BOOLEAN
    BY <1>2 DEF PutPrevious, ClearNext
  <2> QED
    BY <1>2, <2>1 DEF PutPrevious, ClearNext
<1>3. CASE PutCurrent
  <2>1. tearing' \in BOOLEAN
    BY <1>3 DEF PutCurrent
  <2> QED
    BY <1>3, <2>1 DEF PutCurrent
<1>4. CASE Retire
  BY <1>4 DEF Retire
<1>5. CASE Publish
  <2>1. half' \in BOOLEAN
    BY <1>5 DEF Publish
  <2> QED
    BY <1>5, <2>1 DEF Publish, Fresh
<1>6. CASE WriteFails
  BY <1>6 DEF WriteFails
<1>7. CASE DrillKid
  BY <1>7 DEF DrillKid, Fresh
<1>8. CASE DrillSeed
  <2>1. half' \in BOOLEAN
    BY <1>8 DEF DrillSeed
  <2> QED
    BY <1>8, <2>1 DEF DrillSeed
<1>9. CASE FetchProperty
  <2>1. Property(read + 1) \in Slot /\ (read = 0 => Property(read + 1) = cur)
    BY <1>9, PropertyType DEF FetchProperty, Property
  <2> QED
    BY <1>9, <2>1 DEF FetchProperty
<1>10. CASE WriteSecret
  <2>1. tearing' \in BOOLEAN
    BY <1>10 DEF WriteSecret
  <2>2. secret' \in Copies /\ NamesKid(secret')
    BY <1>10, WillBeType DEF WriteSecret
  <2>3. got' \in [1..5 -> Slot] /\ read' = 0
    BY <1>10 DEF WriteSecret
  <2> QED
    BY <1>10, <2>1, <2>2, <2>3 DEF WriteSecret
<1>11. ASSUME NEW r \in Replicas, Load(r) PROVE LoadInv'
  <2>1. secret.cur \in Keys
    BY DEF Copies
  <2> QED
    BY <1>11, <2>1 DEF Load
<1>12. CASE Tick
  <2>1. /\ curAge' \in 0..Lifetime /\ nxtAge' \in 0..PromoteWait
        /\ secretAge' \in 0..Propagate /\ gotAge' \in 0..Propagate
    BY <1>12, CountUpRange DEF Tick
  <2>2. viewAge' \in [Replicas -> 0..Propagate]
    BY <1>12 DEF Tick
  <2>3. life' \in [Keys -> 0..TokenLife]
    BY <1>12 DEF Tick
  <2> QED
    BY <1>12, <2>1, <2>2, <2>3 DEF Tick
<1>13. CASE UNCHANGED vars
  BY <1>13 DEF vars
<1> QED
  BY <1>1, <1>2, <1>3, <1>4, <1>5, <1>6, <1>7, <1>8, <1>9, <1>10, <1>11, <1>12, <1>13
  DEF Next, Pass, Refresh

(* The slots, the pass and the replicas are well typed at every moment.    *)
THEOREM TypeCorrect == Spec => []TypeOK
<1>1. LoadInv => TypeOK
  BY DEF LoadInv
<1> QED
  BY <1>1, InitLoads, NextLoads, PTL DEF Spec

(* CurrentLoads: the current slot never holds a kid without its seed,      *)
(* wherever a pass fails and whenever the drill writes a half of next.     *)
THEOREM CurrentAlwaysLoads == Spec => []CurrentLoads
<1>1. LoadInv => CurrentLoads
  BY OtherAssumption DEF LoadInv, Loads, CurrentLoads
<1> QED
  BY <1>1, InitLoads, NextLoads, PTL DEF Spec

-----------------------------------------------------------------------------
(* Every replica knows the keys of the live tokens                         *)

(* The slots during a rotation.  previous holds the kid of current as soon *)
(* as the three writes have begun, and a pass that failed begins again.    *)
Rotating ==
    /\ nxt # None => pc = "clear" \/ (nxt # cur /\ prv \in {None, cur})
    /\ nxt = None => pc = "idle" /\ prv # cur
    /\ prv = cur => nxtAge >= PromoteWait /\ ~half
PassReads ==
    /\ pc # "idle" => ~half /\ nxtAge >= PromoteWait /\ lnxt = nxt
    /\ pc \in {"previous", "current"} => lcur = cur
    /\ pc = "current" => prv = cur
    /\ pc = "clear" => cur = nxt /\ prv # cur /\ prv \in Kids

(* next was written after current.                                         *)
NextIsNewer == nxt # None /\ pc # "clear" => curAge >= nxtAge \/ curAge = Lifetime

(* Until it has read next, a refresh that is not torn has read the kid     *)
(* that is still current.                                                  *)
ReadsCurrent == read \in 1..3 => tearing \/ WillBe.cur = Key(cur)

(* A copy whose first read is `age` ticks old and that is not torn knows   *)
(* current, previous, and a whole next that is older than that.            *)
Follows(c, age) ==
    c.torn \/ /\ Verifies(c, Key(cur))
              /\ prv # None => Verifies(c, Key(prv))
              /\ nxt # None /\ ~half /\ nxtAge > age => Verifies(c, Key(nxt))

(* It names the current key, or the one before as long as it is older than *)
(* the promotion.  Only a torn copy mixes two keys, and it is also older.  *)
SignsWith(c, age) ==
    /\ c.torn => curAge <= age
    /\ \/ c.torn /\ ~Whole(c.cur)
       \/ c.cur = Key(cur)
       \/ c.cur = Key(prv) /\ curAge <= age

Keeps(c, age) == Follows(c, age) /\ SignsWith(c, age)

(* The live tokens are of the current key, or of the one before until the  *)
(* lag of the replicas and the life of a token have passed.                *)
TokensOf(t) ==
    life[t] > 0 => \/ ~Whole(t) \/ t = Key(cur)
                   \/ t = Key(prv) /\ prv # None /\ life[t] + curAge <= Propagate + TokenLife

CgInv == /\ LoadInv /\ AgesOrdered /\ Rotating /\ PassReads
         /\ NextIsNewer /\ ReadsCurrent
         /\ Keeps(WillBe, gotAge) /\ Keeps(secret, secretAge)
         /\ \A r \in Replicas : Keeps(view[r], viewAge[r])
         /\ \A t \in Keys : TokensOf(t)

LEMMA InitCg == Init => CgInv
<1> SUFFICES ASSUME Init PROVE CgInv
  OBVIOUS
<1>1. LoadInv
  BY InitLoads
<1>2. Rotating /\ PassReads /\ NextIsNewer /\ ReadsCurrent
  BY OtherAssumption DEF Init, Rotating, PassReads, NextIsNewer, ReadsCurrent
<1>3. AgesOrdered
  BY WaitsAssumption DEF Init, AgesOrdered
<1>4. ASSUME NEW c, c.cur = Key(cur) PROVE Keeps(c, 0)
  BY <1>4 DEF Init, Keeps, Follows, SignsWith, Verifies
<1>5. /\ secret.cur = Key(cur) /\ WillBe.cur = Key(cur)
      /\ \A r \in Replicas : view[r].cur = Key(cur)
  BY DEF Init, WillBe, WillGet, Property, Key
<1>6. Keeps(WillBe, gotAge) /\ Keeps(secret, secretAge)
      /\ \A r \in Replicas : Keeps(view[r], viewAge[r])
  BY <1>4, <1>5 DEF Init
<1>7. \A t \in Keys : TokensOf(t)
  BY <1>5 DEF Init, TokensOf, Signs
<1> QED
  BY <1>1, <1>2, <1>3, <1>6, <1>7 DEF CgInv

(* What ESO has read so far stays what it was; the rest it reads anew.     *)
LEMMA WillBeCopy ==
  ASSUME TypeOK
  PROVE  /\ WillBe.torn = tearing
         /\ WillBe.cur = CASE read = 0 -> Key(cur)
                           [] read = 1 -> <<got[1], cur>>
                           [] read > 1 -> <<got[1], got[2]>>
         /\ WillBe.nxt = CASE read < 3 -> <<nxt, IF half THEN None ELSE nxt>>
                           [] read = 3 -> <<got[3], IF half THEN None ELSE nxt>>
                           [] read > 3 -> <<got[3], got[4]>>
         /\ WillBe.prv = IF read < 5 THEN Key(prv) ELSE <<got[5], prv>>
  BY DEF TypeOK, WillBe, WillGet, Property, Key

(* The next read of a refresh does not change what the Secret will be.     *)
LEMMA FetchKeepsWillBe ==
  ASSUME TypeOK, FetchProperty PROVE WillBe' = WillBe
<1>1. \A i \in 1..6 : WillGet(i)' = WillGet(i)
  BY DEF TypeOK, FetchProperty, WillGet, Property, slots
<1> QED
  BY <1>1 DEF WillBe, FetchProperty

(* A copy taken at one instant keeps all it should.                        *)
LEMMA FreshCopyKeeps ==
  ASSUME read' = 0, tearing' = FALSE, gotAge' = 0 PROVE Keeps(WillBe, gotAge)'
<1>1. /\ WillBe'.cur = Key(cur)' /\ WillBe'.prv = Key(prv)' /\ ~WillBe'.torn
      /\ ~half' => WillBe'.nxt = Key(nxt)'
  BY DEF WillBe, WillGet, Property, Key
<1> QED
  BY <1>1 DEF Keeps, Follows, SignsWith, Verifies

(* A promotion begins only when no copy is torn or older than the current  *)
(* key: the wait for next is longer than the lag.                          *)
LEMMA PromotionIsLate ==
  ASSUME CgInv, pc \in {"previous", "current"},
         NEW c, NEW age \in 0..Propagate, Keeps(c, age)
  PROVE  ~c.torn /\ c.cur = Key(cur) /\ Verifies(c, Key(nxt))
<1>1. /\ nxt # None /\ ~half /\ nxtAge >= PromoteWait
      /\ curAge >= nxtAge \/ curAge = Lifetime
  BY OtherAssumption DEF CgInv, LoadInv, TypeOK, Loads, PassReads, NextIsNewer
<1>2. curAge > age /\ nxtAge > age
  BY <1>1, WaitsAssumption DEF CgInv, LoadInv, TypeOK
<1>3. ~c.torn /\ c.cur = Key(cur)
  BY <1>2 DEF Keeps, SignsWith, CgInv, LoadInv, TypeOK
<1> QED
  BY <1>1, <1>2, <1>3 DEF Keeps, Follows

(* The write of previous: every copy already has the key it puts there.    *)
LEMMA PutPreviousKeeps == ASSUME CgInv, LoadInv', PutPrevious PROVE CgInv'
<1> USE WaitsAssumption, OtherAssumption
<1>1. /\ prv \in {None, cur} /\ prv' = cur /\ nxt # None /\ nxt # cur /\ cur \in Kids
      /\ UNCHANGED <<cur, nxt, half, curAge, nxtAge, read, got, gotAge, tearing, secret,
                     secretAge, view, viewAge, life>>
  BY DEF PutPrevious, CgInv, LoadInv, Loads, Rotating, PassReads, fetch, daemon
<1>2. AgesOrdered' /\ Rotating' /\ PassReads' /\ NextIsNewer'
  BY <1>1 DEF PutPrevious, CgInv, LoadInv, TypeOK, Loads, AgesOrdered, Rotating, PassReads,
     NextIsNewer
<1>3. ASSUME NEW c, NEW age \in 0..Propagate, Keeps(c, age)
      PROVE  /\ ~c.torn /\ c.cur = Key(cur) /\ Verifies(c, Key(nxt))
             /\ Keeps(c, age)'
  <2>1. ~c.torn /\ c.cur = Key(cur) /\ Verifies(c, Key(nxt))
    BY <1>3, PromotionIsLate DEF PutPrevious
  <2> QED
    BY <1>1, <2>1 DEF Keeps, Follows, SignsWith, Verifies
<1>4. Keeps(secret, secretAge)' /\ \A r \in Replicas : Keeps(view[r], viewAge[r])'
  BY <1>1, <1>3 DEF CgInv, LoadInv, TypeOK, Keeps, Follows, SignsWith, Verifies
<1>5. Keeps(WillBe, gotAge)' /\ ReadsCurrent'
  <2>1. ~tearing /\ WillBe.cur = Key(cur) /\ Verifies(WillBe, Key(nxt))
    BY <1>3, WillBeCopy DEF CgInv, LoadInv, TypeOK
  <2>2. WillBe.nxt = Key(nxt)
    BY <1>1, <2>1, WillBeCopy DEF Verifies, CgInv, LoadInv, Key
  <2>3. WillBe'.cur = WillBe.cur /\ WillBe'.nxt = WillBe.nxt /\ WillBe'.torn = tearing
    BY <1>1 DEF WillBe, WillGet, Property
  <2> QED
    BY <1>1, <2>1, <2>2, <2>3 DEF Keeps, Follows, SignsWith, Verifies, ReadsCurrent
<1>6. \A t \in Keys : TokensOf(t)'
  BY <1>1 DEF CgInv, TokensOf, LoadInv, TypeOK, Key, Whole, Keys
<1> QED
  BY <1>2, <1>4, <1>5, <1>6 DEF CgInv

(* The write of current: next is older than every copy, so that each one   *)
(* knows it before it becomes current.  A refresh that has not read next   *)
(* yet is torn.                                                            *)
LEMMA PutCurrentKeeps == ASSUME CgInv, LoadInv', PutCurrent PROVE CgInv'
<1> USE WaitsAssumption, OtherAssumption
<1>1. /\ prv = cur /\ cur' = nxt /\ nxt # None /\ nxt # cur /\ cur \in Kids /\ curAge' = 0
      /\ UNCHANGED <<prv, nxt, half, nxtAge, read, got, gotAge, secret, secretAge,
                     view, viewAge, life>>
      /\ tearing' = (tearing \/ read \in 1..3)
  BY DEF PutCurrent, CgInv, LoadInv, Loads, Rotating, PassReads, daemon
<1>2. AgesOrdered' /\ Rotating' /\ PassReads' /\ NextIsNewer'
  BY <1>1 DEF PutCurrent, CgInv, LoadInv, TypeOK, Loads, AgesOrdered, Rotating, PassReads,
     NextIsNewer
<1>3. ASSUME NEW c, NEW age \in 0..Propagate, Keeps(c, age)
      PROVE  /\ ~c.torn /\ c.cur = Key(cur) /\ Verifies(c, Key(nxt))
             /\ Keeps(c, age)'
  <2>1. ~c.torn /\ c.cur = Key(cur) /\ Verifies(c, Key(nxt))
    BY <1>3, PromotionIsLate DEF PutCurrent
  <2> QED
    BY <1>1, <2>1 DEF Keeps, Follows, SignsWith, Verifies
<1>4. Keeps(secret, secretAge)' /\ \A r \in Replicas : Keeps(view[r], viewAge[r])'
  BY <1>1, <1>3 DEF CgInv, LoadInv, TypeOK, Keeps, Follows, SignsWith, Verifies
<1>5. Keeps(WillBe, gotAge)' /\ ReadsCurrent'
  <2>1. /\ ~tearing /\ WillBe.cur = Key(cur) /\ Verifies(WillBe, Key(nxt))
        /\ gotAge \in 0..Propagate
    BY <1>3, WillBeCopy DEF CgInv, LoadInv, TypeOK
  <2>2. WillBe.nxt = Key(nxt)
    BY <1>1, <2>1, WillBeCopy DEF Verifies, CgInv, LoadInv, Key
  <2>3. CASE read = 0
    <3>1. read \notin 1..3 /\ gotAge = 0
      BY <2>3 DEF CgInv, AgesOrdered
    <3>2. tearing' = FALSE
      BY <1>1, <2>1, <3>1, Zenon
    <3> QED
      BY <1>1, <2>3, <3>1, <3>2, FreshCopyKeeps DEF ReadsCurrent
  <2>4. CASE read \in 1..3
    <3>1. tearing' /\ WillBe'.torn
      BY <1>1, <2>4 DEF WillBe
    <3>2. WillBe'.cur = IF read = 1 THEN <<cur, nxt>> ELSE Key(cur)
      BY <1>1, <2>1, <2>4, WillBeCopy DEF WillBe, WillGet, Property, CgInv, LoadInv, Key
    <3>3. SignsWith(WillBe, gotAge)'
      BY <1>1, <2>1, <3>1, <3>2 DEF SignsWith, Whole, Key
    <3> QED
      BY <3>1, <3>3 DEF Keeps, Follows, ReadsCurrent
  <2>5. CASE read \in 4..5
    <3>0. read \notin 1..3
      BY <2>5
    <3>1. ~tearing' /\ ~WillBe'.torn
      BY <1>1, <2>1, <3>0 DEF WillBe
    <3>2. WillBe'.cur = WillBe.cur /\ WillBe'.nxt = WillBe.nxt
      BY <1>1, <2>5 DEF WillBe, WillGet
    <3> QED
      BY <1>1, <2>1, <2>2, <2>5, <3>1, <3>2
      DEF Keeps, Follows, SignsWith, Verifies, ReadsCurrent
  <2> QED
    BY <2>3, <2>4, <2>5 DEF CgInv, LoadInv, TypeOK
<1>6. \A t \in Keys : TokensOf(t)'
  BY <1>1 DEF CgInv, TokensOf, LoadInv, TypeOK, Key, Whole, Keys
<1> QED
  BY <1>2, <1>4, <1>5, <1>6 DEF CgInv

(* The write of next: a refresh that has not read it has read current      *)
(* after the promotion, or is torn.                                        *)
LEMMA ClearNextKeeps == ASSUME CgInv, LoadInv', ClearNext PROVE CgInv'
<1> USE WaitsAssumption, OtherAssumption
<1>1. /\ cur = nxt /\ prv # cur /\ prv \in Kids /\ cur \in Kids /\ nxt' = None /\ ~half
      /\ half' = FALSE /\ pc' = "idle"
      /\ UNCHANGED <<cur, prv, curAge, read, got, gotAge, tearing, secret,
                     secretAge, view, viewAge, life>>
  BY DEF ClearNext, CgInv, LoadInv, Loads, Rotating, PassReads, fetch, daemon
<1>2. AgesOrdered' /\ Rotating' /\ PassReads' /\ NextIsNewer'
  BY <1>1 DEF CgInv, LoadInv, TypeOK, Loads, AgesOrdered, Rotating, PassReads, NextIsNewer
<1>3. Keeps(secret, secretAge)' /\ \A r \in Replicas : Keeps(view[r], viewAge[r])'
  BY <1>1 DEF CgInv, Keeps, Follows, SignsWith, Verifies
<1>4. Keeps(WillBe, gotAge)' /\ ReadsCurrent'
  <2>1. WillBe'.cur = WillBe.cur /\ WillBe'.prv = WillBe.prv /\ WillBe'.torn = WillBe.torn
    BY <1>1 DEF WillBe, WillGet, Property
  <2>2. read > 3 => WillBe'.nxt = WillBe.nxt
    BY <1>1 DEF WillBe, WillGet, CgInv, LoadInv, TypeOK
  <2>3. read <= 3 => WillBe.torn \/ WillBe.cur = Key(cur)
    BY WillBeCopy DEF CgInv, LoadInv, TypeOK, ReadsCurrent
  <2>4. read <= 3 => WillBe.nxt # Key(prv)
    BY <1>1, WillBeCopy DEF CgInv, LoadInv, TypeOK, Key
  <2>5. read \in 0..5 /\ Keeps(WillBe, gotAge)
    BY DEF CgInv, LoadInv, TypeOK
  <2>6. Follows(WillBe, gotAge)'
    BY <1>1, <2>1, <2>2, <2>3, <2>4, <2>5 DEF Keeps, Follows, Verifies
  <2>7. SignsWith(WillBe, gotAge)'
    BY <1>1, <2>1, <2>5 DEF Keeps, SignsWith
  <2>8. ReadsCurrent'
    BY <1>1, <2>1 DEF ReadsCurrent, CgInv
  <2> QED
    BY <2>6, <2>7, <2>8 DEF Keeps
<1>5. \A t \in Keys : TokensOf(t)'
  BY <1>1 DEF CgInv, TokensOf
<1> QED
  BY <1>2, <1>3, <1>4, <1>5 DEF CgInv

(* previous goes once no replica signs with it and its last token ended.   *)
LEMMA RetireKeeps == ASSUME CgInv, LoadInv', Retire PROVE CgInv'
<1> USE WaitsAssumption, OtherAssumption
<1>1. /\ nxt = None /\ prv # cur /\ prv # None /\ cur \in Kids /\ prv' = None
      /\ pc = "idle" /\ curAge > Propagate + TokenLife
      /\ UNCHANGED <<cur, nxt, half, curAge, nxtAge, pc, lcur, lnxt, read, got, gotAge, tearing,
                     secret, secretAge, view, viewAge, life>>
  BY DEF Retire, CgInv, LoadInv, TypeOK, Loads, Rotating, pass, fetch, daemon
<1>2. AgesOrdered' /\ Rotating' /\ PassReads' /\ NextIsNewer'
  BY <1>1 DEF CgInv, LoadInv, TypeOK, Loads, AgesOrdered, Rotating, PassReads, NextIsNewer
<1>3. ASSUME NEW c, NEW age \in 0..Propagate, Keeps(c, age)
      PROVE  ~c.torn /\ c.cur = Key(cur) /\ Keeps(c, age)'
  <2>1. ~c.torn /\ c.cur = Key(cur)
    BY <1>1, <1>3 DEF Keeps, SignsWith, CgInv, LoadInv, TypeOK
  <2> QED
    BY <1>1, <2>1 DEF Keeps, Follows, SignsWith, Verifies
<1>4. Keeps(secret, secretAge)' /\ \A r \in Replicas : Keeps(view[r], viewAge[r])'
  BY <1>1, <1>3 DEF CgInv, LoadInv, TypeOK, Keeps, Follows, SignsWith, Verifies
<1>5. Keeps(WillBe, gotAge)' /\ ReadsCurrent'
  <2>1. ~WillBe.torn /\ WillBe.cur = Key(cur)
    BY <1>3 DEF CgInv, LoadInv, TypeOK
  <2>2. WillBe'.cur = WillBe.cur /\ WillBe'.torn = WillBe.torn
    BY <1>1 DEF WillBe, WillGet, Property
  <2> QED
    BY <1>1, <2>1, <2>2 DEF Keeps, Follows, SignsWith, Verifies, ReadsCurrent
<1>6. \A t \in Keys : TokensOf(t)'
  BY <1>1 DEF CgInv, TokensOf, LoadInv, TypeOK
<1> QED
  BY <1>2, <1>4, <1>5, <1>6 DEF CgInv

(* A new next, whole or half, is known to no copy yet.                     *)
LEMMA NewNextKeeps ==
  ASSUME ~DrillAnytime, CgInv, LoadInv', Publish \/ DrillKid PROVE CgInv'
<1> USE WaitsAssumption, OtherAssumption
<1>1. /\ nxt = None /\ prv = None /\ cur \in Kids /\ pc = "idle"
      /\ nxt' \in Kids /\ nxt' # cur /\ nxtAge' = 0
      /\ UNCHANGED <<cur, prv, curAge, pc, lcur, lnxt, read, got, gotAge, tearing,
                     secret, secretAge, view, viewAge, life>>
  BY DEF Publish, DrillKid, Fresh, CgInv, LoadInv, TypeOK, Loads, pass, fetch, daemon
<1>2. AgesOrdered' /\ Rotating' /\ PassReads' /\ NextIsNewer'
  BY <1>1 DEF CgInv, LoadInv, TypeOK, AgesOrdered, Rotating, PassReads, NextIsNewer
<1>3. Keeps(secret, secretAge)' /\ \A r \in Replicas : Keeps(view[r], viewAge[r])'
  BY <1>1 DEF CgInv, LoadInv, TypeOK, Keeps, Follows, SignsWith, Verifies
<1>4. Keeps(WillBe, gotAge)' /\ ReadsCurrent'
  <2>1. WillBe'.cur = WillBe.cur /\ WillBe'.prv = WillBe.prv /\ WillBe'.torn = WillBe.torn
    BY <1>1 DEF WillBe, WillGet, Property
  <2>2. read > 3 => WillBe'.nxt = WillBe.nxt
    BY <1>1 DEF WillBe, WillGet, CgInv, LoadInv, TypeOK
  <2>3. read <= 3 => WillBe.nxt # Key(cur)
    BY <1>1, WillBeCopy DEF CgInv, LoadInv, TypeOK, Key
  <2>4. read \in 0..5 /\ gotAge \in 0..Propagate /\ Keeps(WillBe, gotAge)
    BY DEF CgInv, LoadInv, TypeOK
  <2>5. Follows(WillBe, gotAge)'
    BY <1>1, <2>1, <2>2, <2>3, <2>4 DEF Keeps, Follows, Verifies
  <2>6. SignsWith(WillBe, gotAge)'
    BY <1>1, <2>1, <2>4 DEF Keeps, SignsWith
  <2>7. ReadsCurrent'
    BY <1>1, <2>1 DEF ReadsCurrent, CgInv
  <2> QED
    BY <2>5, <2>6, <2>7 DEF Keeps
<1>5. \A t \in Keys : TokensOf(t)'
  BY <1>1 DEF CgInv, TokensOf
<1> QED
  BY <1>2, <1>3, <1>4, <1>5 DEF CgInv

(* The seed of a half next begins its wait again.                          *)
LEMMA DrillSeedKeeps == ASSUME CgInv, LoadInv', DrillSeed PROVE CgInv'
<1> USE WaitsAssumption, OtherAssumption
<1>1. /\ half /\ half' = FALSE /\ nxtAge' = 0 /\ nxt \in Kids /\ nxt # cur /\ cur \in Kids
      /\ prv = None /\ pc = "idle"
      /\ UNCHANGED <<cur, nxt, prv, curAge, pc, lcur, lnxt, read, got, gotAge, tearing,
                     secret, secretAge, view, viewAge, life>>
  BY DEF DrillSeed, CgInv, LoadInv, TypeOK, Slot, Loads, Rotating, PassReads, pass, fetch, daemon
<1>2. AgesOrdered' /\ Rotating' /\ PassReads' /\ NextIsNewer'
  BY <1>1 DEF CgInv, LoadInv, TypeOK, AgesOrdered, Rotating, PassReads, NextIsNewer
<1>3. Keeps(secret, secretAge)' /\ \A r \in Replicas : Keeps(view[r], viewAge[r])'
  BY <1>1 DEF CgInv, LoadInv, TypeOK, Keeps, Follows, SignsWith, Verifies
<1>4. Keeps(WillBe, gotAge)' /\ ReadsCurrent'
  <2>1. WillBe'.cur = WillBe.cur /\ WillBe'.prv = WillBe.prv /\ WillBe'.torn = WillBe.torn
    BY <1>1 DEF WillBe, WillGet, Property
  <2>2. read > 3 => WillBe'.nxt = WillBe.nxt
    BY <1>1 DEF WillBe, WillGet, CgInv, LoadInv, TypeOK
  <2>3. read <= 3 => WillBe.nxt # Key(cur)
    BY <1>1, WillBeCopy DEF CgInv, LoadInv, TypeOK, Key
  <2>4. read \in 0..5 /\ gotAge \in 0..Propagate /\ Keeps(WillBe, gotAge)
    BY DEF CgInv, LoadInv, TypeOK
  <2>5. Follows(WillBe, gotAge)'
    BY <1>1, <2>1, <2>2, <2>3, <2>4 DEF Keeps, Follows, Verifies
  <2>6. SignsWith(WillBe, gotAge)'
    BY <1>1, <2>1, <2>4 DEF Keeps, SignsWith
  <2>7. ReadsCurrent'
    BY <1>1, <2>1 DEF ReadsCurrent, CgInv
  <2> QED
    BY <2>5, <2>6, <2>7 DEF Keeps
<1>5. \A t \in Keys : TokensOf(t)'
  BY <1>1 DEF CgInv, TokensOf
<1> QED
  BY <1>2, <1>3, <1>4, <1>5 DEF CgInv

(* A pass that reads the slots, or ends at a failed write, changes none.   *)
LEMMA PassKeeps ==
  ASSUME ~FailAnywhere, CgInv, LoadInv', Promote \/ WriteFails PROVE CgInv'
<1>1. /\ UNCHANGED <<slots, fetch, daemon>>
      /\ pc' \in {"idle", "previous"} /\ pc # "clear"
  BY DEF Promote, WriteFails
<1>2. AgesOrdered' /\ Rotating' /\ PassReads' /\ NextIsNewer'
  BY <1>1, OtherAssumption DEF CgInv, LoadInv, TypeOK, Loads, AgesOrdered, Rotating, PassReads,
     NextIsNewer, Promote, WriteFails, slots, fetch, daemon
<1>3. /\ Keeps(WillBe, gotAge)' /\ ReadsCurrent' /\ Keeps(secret, secretAge)'
      /\ \A r \in Replicas : Keeps(view[r], viewAge[r])'
      /\ \A t \in Keys : TokensOf(t)'
  BY <1>1 DEF CgInv, Keeps, Follows, SignsWith, Verifies, TokensOf, ReadsCurrent, WillBe, WillGet,
     Property, slots, fetch, daemon
<1> QED
  BY <1>2, <1>3 DEF CgInv

(* A refresh reads on, or writes what it read into the Secret.             *)
LEMMA RefreshKeeps == ASSUME CgInv, LoadInv', Refresh PROVE CgInv'
<1>1. CASE FetchProperty
  <2>1. /\ WillBe' = WillBe /\ read' = read + 1 /\ read \in 0..5
        /\ UNCHANGED <<slots, pass, gotAge, tearing, secret, secretAge, daemon>>
    BY <1>1, FetchKeepsWillBe DEF FetchProperty, CgInv, LoadInv, TypeOK
  <2>2. AgesOrdered' /\ Rotating' /\ PassReads' /\ NextIsNewer'
    BY <2>1 DEF CgInv, AgesOrdered, Rotating, PassReads, NextIsNewer, slots, pass, daemon
  <2>3. /\ Keeps(WillBe, gotAge)' /\ Keeps(secret, secretAge)'
        /\ \A r \in Replicas : Keeps(view[r], viewAge[r])'
        /\ \A t \in Keys : TokensOf(t)'
    BY <2>1 DEF CgInv, Keeps, Follows, SignsWith, Verifies, TokensOf, slots, daemon
  <2>4. ReadsCurrent'
    BY <2>1, WillBeCopy DEF CgInv, LoadInv, TypeOK, ReadsCurrent, slots
  <2> QED
    BY <2>2, <2>3, <2>4 DEF CgInv
<1>2. CASE WriteSecret
  <2>1. /\ secret' = WillBe /\ secretAge' = gotAge /\ read' = 0 /\ gotAge' = 0
        /\ tearing' = FALSE /\ UNCHANGED <<slots, pass, daemon>>
    BY <1>2 DEF WriteSecret
  <2>2. AgesOrdered' /\ Rotating' /\ PassReads' /\ NextIsNewer'
    <3>1. Rotating' /\ PassReads' /\ NextIsNewer'
      BY <2>1 DEF CgInv, Rotating, PassReads, NextIsNewer, slots, pass
    <3>2. 0 <= gotAge /\ \A r \in Replicas : gotAge <= viewAge[r] /\ viewAge'[r] = viewAge[r]
      BY <2>1 DEF CgInv, LoadInv, TypeOK, AgesOrdered, daemon
    <3> QED
      BY <2>1, <3>1, <3>2 DEF AgesOrdered
  <2>3. Keeps(WillBe, gotAge)' /\ ReadsCurrent'
    <3>1. ReadsCurrent'
      BY <2>1 DEF ReadsCurrent
    <3>2. read' = 0 /\ gotAge' = 0 /\ tearing' = FALSE
      BY <2>1
    <3> QED
      BY <3>1, <3>2, FreshCopyKeeps
  <2>4. /\ Keeps(secret, secretAge)' /\ \A r \in Replicas : Keeps(view[r], viewAge[r])'
        /\ \A t \in Keys : TokensOf(t)'
    BY <2>1 DEF CgInv, Keeps, Follows, SignsWith, Verifies, TokensOf, slots, daemon
  <2> QED
    BY <2>2, <2>3, <2>4 DEF CgInv
<1> QED
  BY <1>1, <1>2 DEF Refresh

(* A replica loads the Secret and signs with its current key.              *)
LEMMA LoadKeeps == ASSUME CgInv, LoadInv', NEW q \in Replicas, Load(q) PROVE CgInv'
<1> USE WaitsAssumption, OtherAssumption
<1>1. /\ UNCHANGED <<slots, pass, fetch>>
      /\ view' = [view EXCEPT ![q] = secret] /\ viewAge' = [viewAge EXCEPT ![q] = secretAge]
      /\ life' = [life EXCEPT ![secret.cur] = TokenLife]
      /\ secret.cur \in Keys /\ secret.cur[1] \in Kids /\ secretAge \in 0..Propagate
  BY DEF Load, CgInv, LoadInv, TypeOK, CopiesLoad, NamesKid, Copies
<1>2. AgesOrdered' /\ Rotating' /\ PassReads' /\ NextIsNewer'
  BY <1>1 DEF CgInv, LoadInv, TypeOK, AgesOrdered, Rotating, PassReads, NextIsNewer, slots, pass,
     fetch
<1>3. Keeps(WillBe, gotAge)' /\ ReadsCurrent' /\ Keeps(secret, secretAge)'
  BY <1>1 DEF CgInv, Keeps, Follows, SignsWith, Verifies, ReadsCurrent, WillBe, WillGet, Property,
     slots, fetch
<1>4. ASSUME NEW r \in Replicas PROVE Keeps(view[r], viewAge[r])'
  BY <1>1, <1>3 DEF CgInv, LoadInv, TypeOK, Keeps, Follows, SignsWith, Verifies, slots, fetch
<1>5. ASSUME NEW t \in Keys PROVE TokensOf(t)'
  <2>1. CASE t = secret.cur
    <3>1. \/ ~Whole(t) \/ t = Key(cur)
          \/ t = Key(prv) /\ prv # None /\ curAge <= Propagate
      BY <1>1, <2>1 DEF CgInv, LoadInv, TypeOK, Keeps, SignsWith, Key
    <3>2. life'[t] = TokenLife /\ curAge \in Nat
      BY <1>1, <2>1 DEF CgInv, LoadInv, TypeOK
    <3> QED
      BY <1>1, <3>1, <3>2 DEF TokensOf, slots
  <2>2. CASE t # secret.cur
    BY <1>1, <2>2 DEF CgInv, LoadInv, TypeOK, TokensOf, slots
  <2> QED
    BY <2>1, <2>2
<1> QED
  BY <1>2, <1>3, <1>4, <1>5 DEF CgInv

(* A tick ages every copy, the slots and the tokens alike.                 *)
LEMMA TickKeeps == ASSUME CgInv, LoadInv', Tick PROVE CgInv'
<1> USE WaitsAssumption, OtherAssumption
<1>1. /\ UNCHANGED <<cur, nxt, prv, half, pc, lcur, lnxt, read, got, tearing, secret, view>>
      /\ \A r \in Replicas : viewAge'[r] = viewAge[r] + 1 /\ viewAge[r] < Propagate
  BY DEF Tick, pass, CgInv, LoadInv, TypeOK
<1>2. /\ curAge \in 0..Lifetime /\ nxtAge \in 0..PromoteWait
      /\ curAge < Lifetime => curAge' = curAge + 1
      /\ curAge = Lifetime => curAge' = curAge
      /\ nxtAge < PromoteWait => nxtAge' = nxtAge + 1
      /\ nxtAge = PromoteWait => nxtAge' = nxtAge
  BY CountUpRange DEF Tick, CgInv, LoadInv, TypeOK
<1>3. /\ gotAge \in 0..Propagate /\ secretAge \in 0..Propagate
      /\ secretAge' = IF secretAge < Propagate THEN secretAge + 1 ELSE secretAge
      /\ gotAge' = IF read = 0 THEN 0 ELSE IF gotAge < Propagate THEN gotAge + 1 ELSE gotAge
  BY DEF Tick, CountUp, CgInv, LoadInv, TypeOK
<1>4. PICK q \in Replicas : TRUE
  BY OtherAssumption
<1>5. /\ secretAge < Propagate /\ secretAge' = secretAge + 1
      /\ gotAge' = IF read = 0 THEN 0 ELSE gotAge + 1
  BY <1>1, <1>3, <1>4 DEF CgInv, LoadInv, TypeOK, AgesOrdered
<1>6. AgesOrdered' /\ Rotating' /\ PassReads' /\ NextIsNewer'
  <2>1. AgesOrdered'
    BY <1>1, <1>3, <1>5 DEF CgInv, LoadInv, TypeOK, AgesOrdered
  <2>2. Rotating' /\ PassReads' /\ NextIsNewer'
    BY <1>1, <1>2 DEF CgInv, Rotating, PassReads, NextIsNewer
  <2> QED
    BY <2>1, <2>2
<1>7. ASSUME NEW c, NEW age \in 0..Propagate, Keeps(c, age)
      PROVE  Follows(c, age + 1)' /\ SignsWith(c, age + 1)'
  BY <1>1, <1>2, <1>7 DEF Keeps, Follows, SignsWith, Verifies
<1>8. Keeps(secret, secretAge)' /\ \A r \in Replicas : Keeps(view[r], viewAge[r])'
  <2>1. Keeps(secret, secretAge)'
    BY <1>1, <1>3, <1>5, <1>7 DEF CgInv, Keeps, Follows, SignsWith, Verifies
  <2>2. ASSUME NEW r \in Replicas PROVE Keeps(view[r], viewAge[r])'
    <3>1. viewAge[r] \in 0..Propagate /\ viewAge'[r] = viewAge[r] + 1 /\ view'[r] = view[r]
      BY <1>1 DEF CgInv, LoadInv, TypeOK
    <3>2. Follows(view[r], viewAge[r]) /\ SignsWith(view[r], viewAge[r])
      BY DEF CgInv, Keeps
    <3> QED
      BY <1>1, <1>2, <3>1, <3>2 DEF Keeps, Follows, SignsWith, Verifies
  <2> QED
    BY <2>1, <2>2
<1>9. Keeps(WillBe, gotAge)' /\ ReadsCurrent'
  <2>1. WillBe' = WillBe
    BY <1>1 DEF WillBe, WillGet, Property
  <2>2. ReadsCurrent'
    BY <1>1, <2>1 DEF CgInv, ReadsCurrent
  <2>3. CASE read = 0
    <3>1. tearing' = FALSE /\ read' = 0 /\ gotAge' = 0
      BY <1>1, <1>5, <2>3 DEF CgInv, AgesOrdered
    <3> QED
      BY <2>2, <3>1, FreshCopyKeeps
  <2>4. CASE read # 0
    BY <1>3, <1>5, <1>7, <2>1, <2>2, <2>4 DEF CgInv, Keeps, Follows, SignsWith, Verifies
  <2> QED
    BY <2>3, <2>4
<1>10. ASSUME NEW t \in Keys PROVE TokensOf(t)'
  <2>1. CASE Signs(t)
    <3>1. PICK r \in Replicas : view[r].cur = t
      BY <2>1 DEF Signs
    <3>2. life'[t] = TokenLife /\ t[1] \in Kids /\ viewAge[r] + 1 <= Propagate
      BY <1>1, <2>1, <3>1 DEF Tick, CgInv, LoadInv, TypeOK, CopiesLoad, NamesKid
    <3>3. ~Whole(t) \/ t = Key(cur) \/ (t = Key(prv) /\ prv # None /\ curAge' <= Propagate)
      <4>1. viewAge[r] \in 0..Propagate /\ SignsWith(view[r], viewAge[r])
        BY <3>1 DEF CgInv, LoadInv, TypeOK, Keeps
      <4> QED
        BY <1>2, <3>1, <3>2, <4>1 DEF SignsWith, Key
    <3> QED
      BY <1>1, <1>2, <3>2, <3>3 DEF TokensOf
  <2>2. CASE ~Signs(t)
    <3>1. life'[t] = (IF life[t] > 0 THEN life[t] - 1 ELSE 0) /\ life[t] \in Nat
      BY <2>2 DEF Tick, CgInv, LoadInv, TypeOK
    <3> QED
      BY <1>1, <1>2, <3>1 DEF CgInv, TokensOf
  <2> QED
    BY <2>1, <2>2
<1> QED
  BY <1>6, <1>8, <1>9, <1>10 DEF CgInv

LEMMA NextCg ==
  ASSUME ~FailAnywhere, ~DrillAnytime, CgInv, [Next]_vars PROVE CgInv'
<1>1. LoadInv'
  BY NextLoads DEF CgInv
<1>2. CASE UNCHANGED vars
  BY <1>1, <1>2 DEF vars, slots, pass, fetch, daemon, CgInv, AgesOrdered, Rotating, PassReads,
     NextIsNewer, ReadsCurrent, Keeps, Follows, SignsWith, TokensOf, Verifies, WillBe, WillGet,
     Property
<1> QED
  BY <1>1, <1>2, PutPreviousKeeps, PutCurrentKeeps, ClearNextKeeps, RetireKeeps, NewNextKeeps,
     DrillSeedKeeps, PassKeeps, RefreshKeeps, LoadKeeps, TickKeeps
  DEF Next, Pass

(* SignersKnown: no replica signs with a key that another does not know,   *)
(* for any number of replicas and any waits longer than their lag, unless  *)
(* one of them loaded a copy during whose refresh current was replaced, if *)
(* a promotion is not interrupted before its last write and no drill runs  *)
(* during a rotation.                                                      *)
THEOREM SignersAlwaysKnown ==
  ASSUME ~FailAnywhere, ~DrillAnytime PROVE Spec => []SignersKnown
<1>1. CgInv => SignersKnown
  BY OtherAssumption
  DEF CgInv, LoadInv, CopiesLoad, NamesKid, Keeps, Follows, SignsWith, SignersKnown, Key
<1>2. CgInv /\ [Next]_vars => CgInv'
  BY NextCg
<1> QED
  BY <1>1, <1>2, InitCg, PTL DEF Spec

(* TokensVerify: a token verifies until it ends at every replica whose     *)
(* copy is not torn, for any lag, life and waits with RetireWait >         *)
(* Propagate + TokenLife, under the same conditions.                       *)
THEOREM TokensAlwaysVerify ==
  ASSUME ~FailAnywhere, ~DrillAnytime PROVE Spec => []TokensVerify
<1>1. CgInv => TokensVerify
  BY OtherAssumption DEF CgInv, Keeps, Follows, TokensOf, TokensVerify
<1>2. CgInv /\ [Next]_vars => CgInv'
  BY NextCg
<1> QED
  BY <1>1, <1>2, InitCg, PTL DEF Spec

============================================================================
