--------------------------- MODULE CgKeyRotation ---------------------------
(***************************************************************************)
(* The rotation of the Capability-Grant signing key: cg_key_rotate of the  *)
(* openbao-auto-init sidecar moves a kid through the slots next, current   *)
(* and previous, one step a pass, with no transaction over the three KV    *)
(* writes.  ESO copies the slots into the Secret property by property, and *)
(* every replica of the daemon loads the Secret with a lag, signs with the *)
(* current key it sees and verifies with the keys it sees.                 *)
(*                                                                         *)
(* Time passes in ticks.  An age counts up to the largest wait it is       *)
(* compared with.  A replica may sign at every moment: life[t] is          *)
(* TokenLife as long as a replica has the key t as current, and counts     *)
(* down to the end of its last token afterwards.                           *)
(***************************************************************************)
EXTENDS Integers, FiniteSets

CONSTANTS Kids,          \* kids with their seeds
          None,          \* an empty slot
          Replicas,      \* replicas of the daemon
          Lifetime,      \* CG_KEY_LIFETIME_S
          PromoteWait,   \* CG_PROMOTE_WAIT_S
          RetireWait,    \* CG_RETIRE_WAIT_S
          TokenLife,     \* the longest life of a token
          Propagate,     \* the lag of a replica behind the first read of a copy
          MaxFailures,   \* bound: passes that end at a failed write
          FailAnywhere,  \* a pass may also end at its last write
          DrillAnytime   \* the drill also runs during a rotation

ASSUME WaitsAssumption ==
          /\ Propagate \in Nat \ {0} /\ TokenLife \in Nat \ {0}
          /\ PromoteWait \in Nat /\ PromoteWait > Propagate
          /\ RetireWait \in Nat /\ RetireWait > Propagate + TokenLife
          /\ Lifetime \in Nat /\ Lifetime >= RetireWait
ASSUME OtherAssumption ==
          /\ None \notin Kids /\ IsFiniteSet(Kids) /\ Replicas # {}
          /\ MaxFailures \in Nat
          /\ FailAnywhere \in BOOLEAN /\ DrillAnytime \in BOOLEAN

VARIABLES cur, nxt, prv,   \* the kid of each slot
          half,            \* next holds a kid and no seed
          curAge, nxtAge,  \* age of the last write of current and of next
          pc, lcur, lnxt,  \* the pass: its next write, what it read
          read, got,       \* a refresh of ESO: properties read, and their values
          gotAge, tearing, \* its age, and whether current was replaced meanwhile
          secret, secretAge, \* the Secret, and the age of its first read
          view, viewAge,   \* per replica: the copy it loaded, and its age
          life,            \* per key: ticks until its last token ends
          failures

slots == <<cur, nxt, prv, half, curAge, nxtAge>>
pass == <<pc, lcur, lnxt>>
fetch == <<read, got, gotAge, tearing, secret, secretAge>>
daemon == <<view, viewAge, life>>
vars == <<slots, pass, fetch, daemon, failures>>

Slot == Kids \cup {None}

(* A key as the daemon loads it: a kid, and the kid whose seed it is.      *)
Keys == Slot \X Slot
Key(k) == <<k, k>>
Whole(t) == t[1] = t[2]

(* The files of the Secret, and whether the copy is torn.                  *)
Copies == [cur : Keys, nxt : Keys, prv : Keys, torn : BOOLEAN]

TypeOK ==
    /\ cur \in Slot /\ nxt \in Slot /\ prv \in Slot
    /\ half \in BOOLEAN
    /\ curAge \in 0..Lifetime /\ nxtAge \in 0..PromoteWait
    /\ pc \in {"idle", "previous", "current", "clear"}
    /\ lcur \in Slot /\ lnxt \in Slot
    /\ read \in 0..5 /\ got \in [1..5 -> Slot] /\ tearing \in BOOLEAN
    /\ secret \in Copies /\ view \in [Replicas -> Copies]
    /\ gotAge \in 0..Propagate /\ secretAge \in 0..Propagate
    /\ viewAge \in [Replicas -> 0..Propagate]
    /\ life \in [Keys -> 0..TokenLife]
    /\ failures \in 0..MaxFailures

Signs(t) == \E r \in Replicas : view[r].cur = t

(* The seed pass has written the first kid, and the daemon runs with it.   *)
Init ==
    /\ cur \in Kids /\ nxt = None /\ prv = None
    /\ half = FALSE
    /\ curAge = 0 /\ nxtAge = 0
    /\ pc = "idle" /\ lcur = None /\ lnxt = None
    /\ read = 0 /\ got = [i \in 1..5 |-> None] /\ gotAge = 0 /\ tearing = FALSE
    /\ secret = [cur |-> Key(cur), nxt |-> Key(None), prv |-> Key(None), torn |-> FALSE]
    /\ secretAge = 0
    /\ view = [r \in Replicas |-> secret]
    /\ viewAge = [r \in Replicas |-> 0]
    /\ life = [t \in Keys |-> IF Signs(t) THEN TokenLife ELSE 0]
    /\ failures = 0

Holds(c, k) == \E t \in {c.cur, c.nxt, c.prv} : k \in {t[1], t[2]}

(* gen_rand: a kid that nothing holds and no live token carries.           *)
Fresh(k) ==
    /\ k \in Kids \ {cur, nxt, prv, lcur, lnxt}
    /\ \A i \in 1..5 : got[i] # k
    /\ ~Holds(secret, k)
    /\ \A r \in Replicas : ~Holds(view[r], k)
    /\ \A t \in Keys : k \in {t[1], t[2]} => life[t] = 0

-----------------------------------------------------------------------------
(* cg_key_rotate                                                           *)

(* Mutant: next is promoted at once.                                       *)
PromoteAtOnce ==
    /\ pc = "idle"
    /\ nxt # None /\ ~half
    /\ pc' = "previous" /\ lcur' = cur /\ lnxt' = nxt
    /\ UNCHANGED <<slots, fetch, daemon, failures>>
(* Mutant: a kid without a seed is promoted.                               *)
PromoteHalf ==
    /\ pc = "idle"
    /\ nxt # None /\ nxtAge >= PromoteWait
    /\ pc' = "previous" /\ lcur' = cur /\ lnxt' = nxt
    /\ UNCHANGED <<slots, fetch, daemon, failures>>

(* A pass reads the slots and finds a next older than the wait, whole: it  *)
(* goes on to the three writes with what it read.                          *)
Promote ==
    /\ pc = "idle"
    /\ nxt # None /\ nxtAge >= PromoteWait /\ ~half
    /\ pc' = "previous" /\ lcur' = cur /\ lnxt' = nxt
    /\ UNCHANGED <<slots, fetch, daemon, failures>>

PutPrevious ==
    /\ pc = "previous" /\ pc' = "current"
    /\ prv' = lcur
    /\ UNCHANGED <<cur, nxt, half, curAge, nxtAge, lcur, lnxt, fetch, daemon, failures>>

(* A refresh that has read the kid of current and not yet the seed of next *)
(* misses the new kid if ClearNext comes before its read of next.          *)
PutCurrent ==
    /\ pc = "current" /\ pc' = "clear"
    /\ cur' = lnxt /\ curAge' = 0
    /\ tearing' = (tearing \/ read \in 1..3)
    /\ UNCHANGED <<nxt, prv, half, nxtAge, lcur, lnxt, read, got, gotAge, secret, secretAge,
                   daemon, failures>>

ClearNext ==
    /\ pc = "clear"
    /\ pc' = "idle" /\ lcur' = None /\ lnxt' = None
    /\ nxt' = None /\ half' = FALSE /\ nxtAge' = 0
    /\ UNCHANGED <<cur, prv, curAge, fetch, daemon, failures>>

(* Mutant: previous is retired after the wait of a promotion.              *)
RetireEarly ==
    /\ pc = "idle" /\ nxt = None
    /\ prv # None /\ curAge >= PromoteWait
    /\ prv' = None
    /\ UNCHANGED <<cur, nxt, half, curAge, nxtAge, pass, fetch, daemon, failures>>

(* Mutant: the retired slot is written back as it was read.                *)
RetireWritesBack ==
    /\ pc = "idle" /\ nxt = None
    /\ prv # None /\ curAge >= RetireWait
    /\ prv' = prv
    /\ UNCHANGED <<cur, nxt, half, curAge, nxtAge, pass, fetch, daemon, failures>>

(* A pass with no next retires a previous whose tokens have ended.         *)
Retire ==
    /\ pc = "idle" /\ nxt = None
    /\ prv # None /\ curAge >= RetireWait
    /\ prv' = None
    /\ UNCHANGED <<cur, nxt, half, curAge, nxtAge, pass, fetch, daemon, failures>>

(* A pass with neither next nor previous publishes a kid for a current at  *)
(* the end of its lifetime.                                                *)
Publish ==
    /\ pc = "idle" /\ nxt = None /\ prv = None
    /\ curAge >= Lifetime
    /\ \E k \in Kids : Fresh(k) /\ nxt' = k
    /\ half' = FALSE /\ nxtAge' = 0
    /\ UNCHANGED <<cur, prv, curAge, pass, fetch, daemon, failures>>

(* The pass ends at a write that fails, or the sidecar is stopped there.   *)
WriteFails ==
    /\ pc # "idle" /\ failures < MaxFailures
    /\ FailAnywhere \/ pc # "clear"
    /\ failures' = failures + 1
    /\ pc' = "idle" /\ lcur' = None /\ lnxt' = None
    /\ UNCHANGED <<slots, fetch, daemon>>

-----------------------------------------------------------------------------
(* The drill, scripts/baseline-set-secret.sh: with --object one call       *)
(* writes the kid of next and its seed, without it a second one writes the *)
(* seed.                                                                   *)
DrillKid ==
    /\ DrillAnytime \/ (pc = "idle" /\ nxt = None /\ prv = None)
    /\ \E k \in Kids : Fresh(k) /\ nxt' = k
    /\ half' \in BOOLEAN /\ nxtAge' = 0
    /\ UNCHANGED <<cur, prv, curAge, pass, fetch, daemon, failures>>

DrillSeed ==
    /\ half
    /\ half' = FALSE /\ nxtAge' = 0
    /\ UNCHANGED <<cur, nxt, prv, curAge, pass, fetch, daemon, failures>>

-----------------------------------------------------------------------------
(* ESO, the kubelet and the daemon                                         *)

(* The properties of the ExternalSecret, in its order.                     *)
Property(i) == CASE i \in 1..2 -> cur
                 [] i = 3 -> nxt
                 [] i = 4 -> (IF half THEN None ELSE nxt)
                 [] i \in 5..6 -> prv

(* What the Secret will be if ESO reads the rest of the properties now.    *)
WillGet(i) == IF i <= read THEN got[i] ELSE Property(i)
WillBe == [cur |-> <<WillGet(1), WillGet(2)>>, nxt |-> <<WillGet(3), WillGet(4)>>,
           prv |-> <<WillGet(5), WillGet(6)>>, torn |-> tearing]

(* A refresh reads the properties with one request each.                   *)
FetchProperty ==
    /\ read < 5
    /\ read' = read + 1
    /\ got' = [got EXCEPT ![read + 1] = Property(read + 1)]
    /\ UNCHANGED <<slots, pass, gotAge, tearing, secret, secretAge, daemon, failures>>

(* It reads the last one and writes the Secret.                            *)
WriteSecret ==
    /\ read = 5
    /\ secret' = WillBe /\ secretAge' = gotAge
    /\ read' = 0 /\ got' = [i \in 1..5 |-> None] /\ gotAge' = 0 /\ tearing' = FALSE
    /\ UNCHANGED <<slots, pass, daemon, failures>>

(* The kubelet updates the mount of a replica, which loads it and may sign *)
(* with its current key from now on.                                       *)
Load(r) ==
    /\ view' = [view EXCEPT ![r] = secret]
    /\ viewAge' = [viewAge EXCEPT ![r] = secretAge]
    /\ life' = [life EXCEPT ![secret.cur] = TokenLife]
    /\ UNCHANGED <<slots, pass, fetch, failures>>

CountUp(n, top) == IF n < top THEN n + 1 ELSE n

(* One tick, once no replica is at the end of its lag.                     *)
Tick ==
    /\ \A r \in Replicas : viewAge[r] < Propagate
    /\ viewAge' = [r \in Replicas |-> viewAge[r] + 1]
    /\ secretAge' = CountUp(secretAge, Propagate)
    /\ gotAge' = IF read = 0 THEN 0 ELSE CountUp(gotAge, Propagate)
    /\ curAge' = CountUp(curAge, Lifetime)
    /\ nxtAge' = CountUp(nxtAge, PromoteWait)
    /\ life' = [t \in Keys |-> IF Signs(t) THEN TokenLife
                            ELSE IF life[t] > 0 THEN life[t] - 1 ELSE 0]
    /\ UNCHANGED <<cur, nxt, prv, half, pass, read, got, tearing, secret, view, failures>>

Pass == \/ Promote \/ PutPrevious \/ PutCurrent \/ ClearNext
        \/ Retire \/ Publish

Refresh == FetchProperty \/ WriteSecret

Next == \/ Pass \/ WriteFails
        \/ DrillKid \/ DrillSeed
        \/ Refresh
        \/ \E r \in Replicas : Load(r)
        \/ Tick

Spec == Init /\ [][Next]_vars

(* The sidecar runs a pass every five minutes, ESO refreshes the Secret,   *)
(* the kubelet brings it to each replica, and time passes.  An operator    *)
(* who starts a drill ends it.                                             *)
FairSpec ==
    /\ Spec
    /\ WF_vars(Pass) /\ WF_vars(Tick) /\ WF_vars(DrillSeed) /\ WF_vars(Refresh)
    /\ \A r \in Replicas : WF_vars(secretAge < viewAge[r] /\ Load(r))

-----------------------------------------------------------------------------
(* Properties                                                              *)

Verifies(c, t) == t \in {c.cur, c.nxt, c.prv}

(* Every token that has not ended verifies at every replica, whichever     *)
(* replica signed it and however the rotation moved on since: the waits of *)
(* cg_key_rotate cover the lag of the replicas and the life of a token.    *)
(* The exception is the refresh during which current was replaced after    *)
(* its read of current.kid and before that of next.key: a replica with     *)
(* that copy lacks the new kid or pairs a kid with the seed of another,    *)
(* until its next load.                                                    *)
TokensVerify ==
    \A t \in Keys :
        life[t] > 0 => ~Whole(t) \/ \A r \in Replicas : view[r].torn \/ Verifies(view[r], t)

(* No replica signs with a key that another one does not know yet          *)
(* (CG_PROMOTE_WAIT_S is longer than the lag of every replica), unless one *)
(* of the two runs on a copy during whose refresh current was replaced.    *)
SignersKnown ==
    \A r, q \in Replicas :
        view[r].torn \/ view[q].torn \/ Verifies(view[q], view[r].cur)

(* The current slot always holds a kid with its seed: a half-written next  *)
(* never becomes current.  The daemon would not load it.                   *)
CurrentLoads == cur # None /\ ~(half /\ cur = nxt)

(* No kid stays for ever: each kid that a pass or a drill publishes becomes*)
(* current, is replaced and leaves every slot, whichever writes fail.      *)
KidsRotate == \A k \in Kids : []<>(k \notin {cur, nxt, prv})

=============================================================================
