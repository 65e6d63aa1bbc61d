--------------------------- MODULE TokenRotation ---------------------------
(***************************************************************************)
(* The service token of the platform-operator: the sidecar's pass renews   *)
(* it, mints its successor at the end of its lifetime or on request,       *)
(* records the old accessor in an annotation and revokes it after a grace. *)
(* The consumer gets the token the long way: Secret, KV copy, ESO, kubelet.*)
(* The sidecar may stop between any two calls, and any call may fail.      *)
(*                                                                         *)
(* A tick is the interval of the passes.                                   *)
(***************************************************************************)
EXTENDS Integers

CONSTANTS Tokens,
          None,        \* no accessor is recorded
          Lifetime,    \* TOKEN_LIFETIME_S
          Grace,       \* TOKEN_REVOKE_GRACE_S
          Period,      \* token_period_s
          RenewBelow,  \* token_renew_below_s
          Lag,         \* from the KV copy to the consumer
          MaxFailures, \* bound: failed calls
          MaxStops,    \* bound: stops of the sidecar
          MaxDown      \* bound: ticks without a sidecar

ASSUME TokenAssumption ==
          /\ None \notin Tokens
          /\ Lifetime \in Nat \ {0} /\ Lag \in Nat \ {0}
          /\ Grace \in Nat /\ Grace > Lag
          /\ RenewBelow \in Nat \ {0}
          /\ Period \in Nat /\ Period > RenewBelow
          /\ MaxFailures \in Nat /\ MaxStops \in Nat /\ MaxDown \in Nat

VARIABLES secret,    \* the token in the Secret
          age,       \* its age
          requested, \* a rotation request is newer than it
          copy,      \* the token in secret/gibson-vault-admin-token
          pending,   \* the accessor of the annotation revoke-accessor
          grace,     \* ticks until its revoke-after
          ttl,       \* per token: ticks until it ends
          held, lag, \* the consumer: its token, and how long it lags behind
          pc, old,   \* the pass: its next call, the accessor it replaces
          login,     \* the pass holds a seeder token
          failures, stops, down

pass == <<pc, old, login>>
vars == <<secret, age, requested, copy, pending, grace, ttl, held, lag, pass,
          failures, stops, down>>

TypeOK ==
    /\ secret \in Tokens /\ copy \in Tokens /\ held \in Tokens
    /\ age \in 0..Lifetime /\ requested \in BOOLEAN
    /\ pending \in Tokens \cup {None} /\ grace \in 0..Grace
    /\ ttl \in [Tokens -> 0..Period] /\ lag \in 0..Lag
    /\ pc \in {"idle", "mint", "record", "copy", "revoke", "seed", "done", "down"}
    /\ old \in Tokens \cup {None} /\ login \in BOOLEAN
    /\ failures \in 0..MaxFailures /\ stops \in 0..MaxStops /\ down \in 0..MaxDown

(* The bootstrap has minted and seeded a token, and the consumer uses it.  *)
Init ==
    /\ secret \in Tokens /\ copy = secret /\ held = secret
    /\ age = 0 /\ requested = FALSE
    /\ pending = None /\ grace = 0
    /\ ttl = [t \in Tokens |-> IF t = secret THEN Period ELSE 0]
    /\ lag = 0
    /\ pc = "idle" /\ old = None /\ login = TRUE
    /\ failures = 0 /\ stops = 0 /\ down = 0

Failed == failures < MaxFailures /\ failures' = failures + 1
Passed == failures' = failures
Step(from, to) == pc = from /\ pc' = to

-----------------------------------------------------------------------------
(* vault_ensure_token with a held seeder token                             *)

(* Mutant: only a request rotates a token.                                 *)
RotationOnRequest ==
    /\ ttl[secret] > 0
    /\ pending = None
    /\ requested

(* The token is valid, nothing waits for its revoke, and its lifetime is   *)
(* over or a rotation is requested.                                        *)
RotationDue ==
    /\ ttl[secret] > 0
    /\ pending = None
    /\ age >= Lifetime \/ requested

StartRotation ==
    /\ Step("idle", "mint") /\ RotationDue
    /\ old' = secret
    /\ UNCHANGED <<secret, age, requested, copy, pending, grace, ttl, held, lag, login,
                   failures, stops, down>>

(* No rotation in this pass: none is due, or the annotation is unreadable. *)
NotRotating == \/ ~RotationDue /\ Passed
               \/ RotationDue /\ Failed

KeepToken ==
    /\ Step("idle", "revoke") /\ NotRotating
    /\ ttl[secret] > RenewBelow
    /\ UNCHANGED <<secret, age, requested, copy, pending, grace, ttl, held, lag,
                   old, login, stops, down>>

(* renew-self, or a mint when it is refused.                               *)
RenewToken ==
    /\ pc = "idle"
    /\ ttl[secret] \in 1..RenewBelow
    /\ \/ NotRotating /\ pc' = "revoke" /\ ttl' = [ttl EXCEPT ![secret] = Period]
       \/ Failed /\ pc' = "mint" /\ ttl' = ttl
    /\ UNCHANGED <<secret, age, requested, copy, pending, grace, held, lag, old,
                   login, stops, down>>

(* The token has ended, or the Secret or the lookup cannot be read, which  *)
(* the pass does not tell apart.                                           *)
ReplaceEnded ==
    /\ Step("idle", "mint")
    /\ \/ ttl[secret] = 0 /\ Passed
       \/ Failed
    /\ UNCHANGED <<secret, age, requested, copy, pending, grace, ttl, held, lag,
                   old, login, stops, down>>

(* vault_mint_token: the token is created and written to the Secret.       *)
MintToken ==
    /\ pc = "mint" /\ Passed
    /\ \E t \in Tokens \ {secret, copy, held, pending} :
          /\ ttl[t] = 0
          /\ secret' = t /\ ttl' = [ttl EXCEPT ![t] = Period]
    /\ age' = 0 /\ requested' = FALSE
    /\ pc' = IF old = None THEN "copy" ELSE "record"
    /\ UNCHANGED <<copy, pending, grace, held, lag, old, login, stops, down>>

(* The successor is not minted: the old token of a rotation is renewed, or *)
(* its renewal fails too.                                                  *)
MintFails ==
    /\ Step("mint", "copy") /\ Failed
    /\ old' = None
    /\ ttl' = ttl \/ (old # None /\ ttl' = [ttl EXCEPT ![secret] = Period])
    /\ UNCHANGED <<secret, age, requested, copy, pending, grace, held, lag, login,
                   stops, down>>

(* secret_set_revoke: the old accessor and the end of its grace.           *)
RecordOld ==
    /\ Step("record", "copy")
    /\ old' = None
    /\ \/ Passed /\ pending' = old /\ grace' = Grace
       \/ Failed /\ UNCHANGED <<pending, grace>>
    /\ UNCHANGED <<secret, age, requested, copy, ttl, held, lag, login, stops, down>>

(* Without a held seeder token the pass ends with the copy.                *)
AfterCopy == IF login THEN "revoke" ELSE "done"

(* seed_one gibson-vault-admin-token, after a mint and in the seed pass.   *)
CopyToken(from, to) ==
    /\ Step(from, to)
    /\ \/ Passed /\ copy' = secret
       \/ secret # copy /\ Failed /\ copy' = copy
    /\ UNCHANGED <<secret, age, requested, pending, grace, ttl, held, lag, old,
                   login, stops, down>>

-----------------------------------------------------------------------------
(* token_revoke_pending                                                    *)

(* Mutant: the grace is not waited for.                                    *)
RevokeAtOnce ==
    /\ Step("revoke", "seed") /\ pending # None
    /\ \/ Passed /\ ttl' = [ttl EXCEPT ![pending] = 0] /\ pending' = None
       \/ Failed /\ ttl' = [ttl EXCEPT ![pending] = 0] /\ pending' = pending
       \/ Failed /\ UNCHANGED <<ttl, pending>>
    /\ UNCHANGED <<secret, age, requested, copy, grace, held, lag, old, login,
                   stops, down>>

(* The grace is over: the old token is revoked and its record cleared.     *)
(* Either call may fail; a token that is gone counts as revoked.           *)
RevokeOld ==
    /\ Step("revoke", "seed") /\ pending # None /\ grace = 0
    /\ \/ Passed /\ ttl' = [ttl EXCEPT ![pending] = 0] /\ pending' = None
       \/ Failed /\ ttl' = [ttl EXCEPT ![pending] = 0] /\ pending' = pending
       \/ Failed /\ UNCHANGED <<ttl, pending>>
    /\ UNCHANGED <<secret, age, requested, copy, grace, held, lag, old, login,
                   stops, down>>

NothingToRevoke ==
    /\ Step("revoke", "seed")
    /\ pending = None \/ grace > 0
    /\ UNCHANGED <<secret, age, requested, copy, pending, grace, ttl, held, lag,
                   old, login, failures, stops, down>>

(* The seeder login of a pass fails: nothing rotates or is revoked, and a  *)
(* low token is renewed.  vault_ensure_token tries a login of its own when *)
(* the token has ended or its renewal is refused, and ends when that login *)
(* fails as well.                                                          *)
PassWithoutLogin ==
    /\ pc = "idle" /\ Failed
    /\ \/ /\ pc' = "done" /\ login' = login
          /\ \/ ttl[secret] \in 1..RenewBelow /\ ttl' = [ttl EXCEPT ![secret] = Period]
             \/ ttl' = ttl
       \/ ttl[secret] <= RenewBelow /\ pc' = "mint" /\ login' = FALSE /\ ttl' = ttl
    /\ UNCHANGED <<secret, age, requested, copy, pending, grace, held, lag, old,
                   stops, down>>

-----------------------------------------------------------------------------
(* The environment                                                         *)

Stop ==
    /\ pc # "down" /\ pc' = "down" /\ old' = None /\ login' = TRUE
    /\ stops < MaxStops /\ stops' = stops + 1
    /\ down' = 0
    /\ UNCHANGED <<secret, age, requested, copy, pending, grace, ttl, held, lag, failures>>

Start ==
    /\ Step("down", "idle")
    /\ UNCHANGED <<secret, age, requested, copy, pending, grace, ttl, held, lag, old,
                   login, failures, stops, down>>

(* The drill writes requested_at.                                          *)
Request ==
    /\ ~requested /\ requested' = TRUE
    /\ UNCHANGED <<secret, age, copy, pending, grace, ttl, held, lag, pass,
                   failures, stops, down>>

(* ESO, the kubelet and the operator bring the KV copy to the consumer.    *)
ConsumerFollows ==
    /\ held # copy /\ held' = copy /\ lag' = 0
    /\ UNCHANGED <<secret, age, requested, copy, pending, grace, ttl, pass,
                   failures, stops, down>>

(* The consumer's own Renewer.                                             *)
ConsumerRenews ==
    /\ ttl[held] > 0 /\ ttl' = [ttl EXCEPT ![held] = Period]
    /\ UNCHANGED <<secret, age, requested, copy, pending, grace, held, lag, pass,
                   failures, stops, down>>

(* One interval: the pass of the last one has ended, or nobody ran it.     *)
(* The consumer's Renewer (lines 801-807) runs before a token that it may  *)
(* still renew ends, and the consumer follows the copy within Lag.         *)
Tick ==
    /\ \/ Step("done", "idle") /\ down' = down
       \/ Step("down", "down") /\ down < MaxDown /\ down' = down + 1
    /\ login' = TRUE
    /\ held # copy => lag < Lag
    /\ ttl[held] > 1 \/ ttl[held] = 0
    /\ lag' = IF held # copy THEN lag + 1 ELSE 0
    /\ ttl' = [t \in Tokens |-> IF ttl[t] > 0 THEN ttl[t] - 1 ELSE 0]
    /\ age' = IF age < Lifetime THEN age + 1 ELSE age
    /\ grace' = IF grace > 0 THEN grace - 1 ELSE 0
    /\ UNCHANGED <<secret, requested, copy, pending, held, old, failures, stops>>

Pass == \/ StartRotation \/ KeepToken \/ RenewToken \/ ReplaceEnded
        \/ MintToken \/ MintFails \/ RecordOld
        \/ CopyToken("copy", AfterCopy) \/ CopyToken("seed", "done")
        \/ RevokeOld \/ NothingToRevoke \/ PassWithoutLogin

Next == \/ Pass \/ Stop \/ Start \/ Request
        \/ ConsumerFollows \/ ConsumerRenews \/ Tick

Spec == Init /\ [][Next]_vars

(* The loop of the sidecar runs and a stopped one is started; the consumer *)
(* follows the copy and renews its token before it ends; time passes.      *)
FairSpec ==
    /\ Spec
    /\ WF_vars(Pass) /\ WF_vars(Start) /\ WF_vars(Tick)
    /\ WF_vars(ConsumerFollows)
    /\ WF_vars(ttl[held] = 1 /\ ConsumerRenews)

-----------------------------------------------------------------------------
(* Properties                                                              *)

(* The consumer never holds a token that has ended: the old token is       *)
(* revoked "when each consumer uses the new one", and the pass renews the  *)
(* one in force, even across failed calls and short stops of the sidecar.  *)
ConsumerLive == ttl[held] > 0

(* No token serves for ever: each one leaves the Secret, and a token that  *)
(* has left it and its consumer ends, although no pass revokes it when its *)
(* record was lost.                                                        *)
TokensEnd == \A t \in Tokens : secret = t ~> ttl[t] = 0

=============================================================================
