---------------------------- MODULE PgLoginLeases ----------------------------
(***************************************************************************)
(* The token that issues the Postgres login roles, its leases, and the     *)
(* clock: the token functions of the openbao-auto-init sidecar against the *)
(* OpenBao of tests/fixtures/pg-login-lease/fake.py.                       *)
(*                                                                         *)
(* OpenBao ends a token that is not renewed in its period, or at its       *)
(* explicit maximum, and with it each lease it issued.  External Secrets   *)
(* reads a new login role every day with the token of the Secret.  Times   *)
(* are ticks; the sidecar runs its pass in each tick it is up.             *)
(***************************************************************************)
EXTENDS Naturals

CONSTANTS LoginTokens, \* numbers above 0
          TOKEN_LIFETIME_S, PG_LEASE_MAX_S, DAY, LEASE_TTL,
          MaxFailures,  \* bound: failed seeder logins, mints and renewals
          MaxDown       \* bound: ticks the sidecar is stopped, in all

\* The period of the login token is the longest lease plus a day, and its
\* explicit maximum a lifetime more.
PG_LOGINS_PERIOD_S == PG_LEASE_MAX_S + DAY

PG_LOGINS_MAX_TTL_S == TOKEN_LIFETIME_S + PG_LOGINS_PERIOD_S
token_renew_below_s == PG_LOGINS_PERIOD_S - 1

VARIABLES loginSecret, \* the token in the Secret gibson-openbao-pg-logins
          expires,     \* ticks until each token ends
          maxEnd,      \* ticks until its explicit maximum
          born,        \* its age
          lease,       \* the login role of the last read: [token, left]
          sinceRead, passed, loginFailures, loginDown

Least(a, b) == IF a < b THEN a ELSE b

-----------------------------------------------------------------------------
(* OpenBao.                                                                *)

Live(t) == expires[t] > 0

\* Mutant: the login token is made without an explicit maximum.
CreatedNoMax(t) == /\ loginSecret' = t
                   /\ maxEnd' = [maxEnd EXCEPT ![t] = 2 * PG_LOGINS_MAX_TTL_S]
                   /\ expires' = [expires EXCEPT ![t] = PG_LOGINS_PERIOD_S]
                   /\ born' = [born EXCEPT ![t] = 0]

\* auth/token/create
Created(t) == /\ loginSecret' = t
              /\ maxEnd' = [maxEnd EXCEPT ![t] = PG_LOGINS_MAX_TTL_S]
              /\ expires' = [expires EXCEPT ![t] = Least(PG_LOGINS_PERIOD_S, maxEnd'[t])]
              /\ born' = [born EXCEPT ![t] = 0]

\* auth/token/renew-self
Renewed(t) == [expires EXCEPT ![t] = Least(PG_LOGINS_PERIOD_S, maxEnd[t])]

-----------------------------------------------------------------------------
\* The store is new: the Secret holds no live token and no login was read.
NoLease == [token |-> 0, left |-> 0]
PgInit ==
    /\ loginSecret = CHOOSE t \in LoginTokens : TRUE
    /\ expires = [t \in LoginTokens |-> 0]
    /\ maxEnd = [t \in LoginTokens |-> 0]
    /\ born = [t \in LoginTokens |-> 0]
    /\ lease = NoLease
    /\ sinceRead = DAY /\ passed = FALSE /\ loginFailures = 0 /\ loginDown = 0

\* The token ids that no lease and no Secret uses any more, the lowest first.
Unused == {t \in LoginTokens : ~Live(t) /\ t # loginSecret /\ t # lease.token}
Fresh == {t \in Unused : \A u \in Unused : t <= u}

RotationDue == Live(loginSecret) /\ born[loginSecret] >= TOKEN_LIFETIME_S

Passes == ~passed /\ passed' = TRUE /\ UNCHANGED <<lease, sinceRead, loginDown>>
Fails == loginFailures < MaxFailures /\ loginFailures' = loginFailures + 1

\* Mutant: the old token of a rotation is revoked, like every other one.
RotateRevokes ==
    /\ Passes /\ RotationDue
    /\ \E t \in Fresh :
          /\ loginSecret' = t /\ maxEnd' = [maxEnd EXCEPT ![t] = PG_LOGINS_MAX_TTL_S]
          /\ expires' = [expires EXCEPT ![t] = PG_LOGINS_PERIOD_S, ![loginSecret] = 0]
          /\ born' = [born EXCEPT ![t] = 0]
    /\ UNCHANGED loginFailures

\* vault_ensure_token, a rotation: the successor is minted and written, and
\* the old token is not revoked.
Rotate == /\ Passes /\ RotationDue
          /\ \E t \in Fresh : Created(t)
          /\ UNCHANGED loginFailures

\* The seeder login or the mint fails: the old token is renewed, if that works.
RotateFails == /\ Passes /\ RotationDue /\ Fails
               /\ expires' \in {Renewed(loginSecret), expires}
               /\ UNCHANGED <<loginSecret, maxEnd, born>>

\* No rotation is due: the token is renewed as soon as it is below its bound.
Renew == /\ Passes /\ Live(loginSecret) /\ ~RotationDue
         /\ expires' = IF expires[loginSecret] > token_renew_below_s THEN expires ELSE Renewed(loginSecret)
         /\ UNCHANGED <<loginSecret, maxEnd, born, loginFailures>>

\* The lookup or the renewal of a live token is refused: another one is minted
\* and the old one stays as it is, or the mint fails too.
RenewFails == /\ Passes /\ Live(loginSecret) /\ ~RotationDue
              /\ \/ (\E t \in Fresh : Created(t)) /\ UNCHANGED loginFailures
                 \/ Fails /\ UNCHANGED <<loginSecret, expires, maxEnd, born>>

\* The token has ended: a new one is minted, or the login fails.
Replace == /\ Passes /\ ~Live(loginSecret)
           /\ \/ (\E t \in Fresh : Created(t)) /\ UNCHANGED loginFailures
              \/ Fails /\ UNCHANGED <<loginSecret, expires, maxEnd, born>>

\* The sidecar is stopped in this tick.
Stopped == /\ ~passed /\ passed' = TRUE
           /\ loginDown < MaxDown /\ loginDown' = loginDown + 1
           /\ UNCHANGED <<loginSecret, expires, maxEnd, born, lease, sinceRead, loginFailures>>

\* creds: ESO reads a login role.  A lease never outlives the maximum of its
\* token.
ReadLogin == /\ sinceRead = DAY /\ Live(loginSecret)
             /\ lease' = [token |-> loginSecret, left |-> Least(LEASE_TTL, maxEnd[loginSecret])]
             /\ sinceRead' = 0
             /\ UNCHANGED <<loginSecret, expires, maxEnd, born, passed, loginFailures, loginDown>>

\* A holder of a copy of a token renews it.
HolderRenews == \E t \in LoginTokens :
    /\ Live(t) /\ expires' = Renewed(t)
    /\ UNCHANGED <<loginSecret, maxEnd, born, lease, sinceRead, passed, loginFailures, loginDown>>

Down(n) == IF n > 0 THEN n - 1 ELSE 0
\* expire: a tick passes; tokens and leases end.
Expire == /\ passed /\ (sinceRead < DAY \/ ~Live(loginSecret))
          /\ passed' = FALSE
          /\ sinceRead' = Least(sinceRead + 1, DAY)
          /\ expires' = [t \in LoginTokens |-> Down(expires[t])]
          /\ maxEnd' = [t \in LoginTokens |-> IF expires[t] > 1 THEN Down(maxEnd[t]) ELSE 0]
          /\ born' = [t \in LoginTokens |-> IF expires[t] > 1 THEN born[t] + 1 ELSE 0]
          /\ lease' = [lease EXCEPT !.left = Down(@)]
          /\ UNCHANGED <<loginSecret, loginFailures, loginDown>>

PgNext == Rotate \/ RotateFails \/ Renew \/ RenewFails \/ Replace \/ Stopped \/ ReadLogin \/ HolderRenews \/ Expire

\* The login role that the Secret of a database holds is live: no rotation,
\* failed mint, refused renewal or stop of the sidecar ends the token that
\* issued it, or its lease, before External Secrets reads the next one.
LoginLive == lease # NoLease => lease.left > 0 /\ Live(lease.token)

\* The token of a lease lives at least as long as the lease: "a stopped
\* sidecar cannot end it before a login role that it issued".
TokenOutlivesLease == lease # NoLease => expires[lease.token] >= lease.left

\* No token is live past its explicit maximum, whoever renews it.
NoTokenPastMax == \A t \in LoginTokens : Live(t) => born[t] <= PG_LOGINS_MAX_TTL_S

-----------------------------------------------------------------------------
(* Why a login stays live.  A pass that is left out, for a stop or a       *)
(* failure, costs the token of the Secret one tick of its life, and the    *)
(* period leaves more of them than may be left out.                        *)

Missed == loginDown + loginFailures
Ahead == IF passed THEN 0 ELSE 1

TokenKept(t) ==
    /\ expires[t] \in Nat /\ maxEnd[t] \in Nat /\ born[t] \in Nat
    /\ Live(t) => /\ expires[t] <= maxEnd[t] /\ expires[t] <= PG_LOGINS_PERIOD_S
                  /\ born[t] + maxEnd[t] = PG_LOGINS_MAX_TTL_S

\* The token of the Secret: how overdue its rotation and its renewal are.
SecretKept ==
    /\ born[loginSecret] < TOKEN_LIFETIME_S + Missed + Ahead
    /\ \/ expires[loginSecret] >= maxEnd[loginSecret]
       \/ expires[loginSecret] + Missed + Ahead >= PG_LOGINS_PERIOD_S

LeaseKept ==
    /\ lease.token \in LoginTokens /\ lease.left \in Nat
    /\ lease = [token |-> lease.token, left |-> lease.left]
    /\ Live(loginSecret)
    /\ lease.left + sinceRead > DAY
    /\ expires[lease.token] >= lease.left

LeaseInv ==
    /\ loginSecret \in LoginTokens
    /\ expires \in [LoginTokens -> Nat] /\ maxEnd \in [LoginTokens -> Nat]
    /\ born \in [LoginTokens -> Nat]
    /\ sinceRead \in 0..DAY /\ passed \in BOOLEAN
    /\ loginFailures \in 0..MaxFailures /\ loginDown \in 0..MaxDown
    /\ \A t \in LoginTokens : TokenKept(t)
    /\ Live(loginSecret) => SecretKept
    /\ lease = NoLease \/ LeaseKept
=============================================================================
