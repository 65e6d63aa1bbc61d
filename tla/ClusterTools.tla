---------------------------- MODULE ClusterTools ----------------------------
(***************************************************************************)
(* The tools of a running cluster and the guards over what runs at its     *)
(* edge, each with the part of the system that it judges or changes.  No   *)
(* two of them share state: gate names the one that runs, and its          *)
(* variables are the slots g1, g2, ... in the order of its module.  A slot *)
(* that the module does not use stays 0.                                   *)
(***************************************************************************)
EXTENDS Integers, Sequences

CONSTANTS Networks, Pods, Addresses, Namespace, CallerPort,  \* HubbleDrops
          MaxDials, MaxEnds, MaxStarts,
          HookSets, DEADLINE,                                \* WebhookGate
          LimitedEdges, Senders,                             \* RateLimits
          LoginTokens, TOKEN_LIFETIME_S, PG_LEASE_MAX_S,     \* PgLoginLeases
          DAY, LEASE_TTL, MaxFailures, MaxDown,
          SealKeys, Entries,                                 \* SealKeyring
          Uids, Attempts, MaxPurges                          \* PurgeBackup

VARIABLES gate, g1, g2, g3, g4, g5, g6, g7, g8, g9, g10, g11, g12, g13, g14

vars == <<gate, g1, g2, g3, g4, g5, g6, g7, g8, g9, g10, g11, g12, g13, g14>>

Idle13 == g14 = 0
Idle12 == g13 = 0 /\ Idle13
Idle11 == g12 = 0 /\ Idle12
Idle10 == g11 = 0 /\ Idle11
Idle9 == g10 = 0 /\ Idle10
Idle8 == g9 = 0 /\ Idle9
Idle7 == g8 = 0 /\ Idle8
Idle6 == g7 = 0 /\ Idle7
Idle5 == g6 = 0 /\ Idle6
Idle4 == g5 = 0 /\ Idle5
Idle3 == g4 = 0 /\ Idle4
Idle2 == g3 = 0 /\ Idle3
Rest14 == <<gate>>
Rest13 == <<g14, Rest14>>
Rest12 == <<g13, Rest13>>
Rest11 == <<g12, Rest12>>
Rest10 == <<g11, Rest11>>
Rest9 == <<g10, Rest10>>
Rest8 == <<g9, Rest9>>
Rest7 == <<g8, Rest8>>
Rest6 == <<g7, Rest7>>
Rest5 == <<g6, Rest6>>
Rest4 == <<g5, Rest5>>
Rest3 == <<g4, Rest4>>
Rest2 == <<g3, Rest3>>

(***************************************************************************)
(* The tools.                                                              *)
(***************************************************************************)
Hubble == INSTANCE HubbleDrops WITH
    rules <- g1, at <- g2, wire <- g3, ct <- g4, socks <- g5, flows <- g6, dials <- g7,
    ends <- g8, starts <- g9, mode <- g10, asked <- g11, seen <- g12, verdict <- g13,
    refused <- g14

Rates == INSTANCE RateLimits WITH
    limits <- g1, passed <- g2, route <- g3, senders <- g4, second <- g5, tokens <- g6,
    counts <- g7, quotaHit <- g8, admitted <- g9, refusedNow <- g10, keyed <- g11

Leases == INSTANCE PgLoginLeases WITH
    loginSecret <- g1, expires <- g2, maxEnd <- g3, born <- g4,
    lease <- g5, sinceRead <- g6, passed <- g7, loginFailures <- g8, loginDown <- g9

Keys == INSTANCE SealKeyring WITH
    keyring <- g1, made <- g2, secret <- g3, mounted <- g4, wrapped <- g5,
    seal <- g6, server <- g7, hasty <- g8

Purge == INSTANCE PurgeBackup WITH
    tenant <- g1, deleting <- g2, uids <- g3, backups <- g4, pc <- g5, TENANT_UID <- g6,
    rows <- g7, todo <- g8, reqs <- g9, purges <- g10, reused <- g11, misread <- g12

Hooks == INSTANCE WebhookGate WITH
    renders <- g1, render <- g2, verdict <- g3, phase <- g4, next <- g5,
    up <- g6, pending <- g7, last <- g8, rounds <- g9, answered <- g10, refused <- g11,
    applied <- g12

(***************************************************************************)
(* What the proofs need of the constants, which the guards and tools do    *)
(* not look at.                                                            *)
(***************************************************************************)
\* A pod has a name of its own, and the port that is asked about is not the
\* one that a client takes for itself.
ASSUME HubbleAssumption ==
          /\ \A p, q \in Pods : p.name # "" /\ (p.name = q.name => p = q)
          /\ CallerPort \notin {Hubble!AnyPort, Hubble!Ephemeral}

\* The documents of a render have their fields, and a name of their own.
ASSUME HookAssumption ==
          \A r \in UNION HookSets :
             /\ \A x \in r.hooks \cup r.probes :
                   x.dial = Hooks!Dial(x.dial.svc, x.dial.ns, x.dial.port, x.dial.path)
             /\ \A o \in r.objects : o = Hooks!Object(o.name, o.by, o.gated, o.at)
             /\ \A o, q \in r.objects : o.name = q.name => o = q

\* A limiter has a bucket that Envoy accepts, a quota a number and a unit, and
\* of the finitely many quotas of a route one is the widest.
ASSUME RateAssumption ==
          /\ \A s \in Senders : Rates!IsFiniteSet(s)
          /\ \A l \in LimitedEdges :
                /\ \A h \in l.hcms : \A x \in {h.rl} \cup {r.own : r \in h.routes} :
                      /\ x.there \in BOOLEAN
                      /\ x.bucket.max \in Nat /\ x.bucket.fill \in Nat /\ x.bucket.interval \in Nat
                      /\ x.there = TRUE => x.bucket.max > 0 /\ x.bucket.interval > 0
                /\ \A q \in l.quotas : /\ q.units \in Nat /\ q.unit \in DOMAIN Rates!UNIT_SECONDS
                                       /\ Rates!quota_rates(l.quotas, q.value) # {}

\* A lease outlasts the day between two reads, and the stops of the sidecar
\* and its failed passes together stay below the longest lease, and below what
\* the period of the token leaves over the lease of one read.
ASSUME LeaseAssumption ==
          /\ LoginTokens \subseteq Nat \ {0} /\ LoginTokens # {}
          /\ TOKEN_LIFETIME_S \in Nat \ {0} /\ DAY \in Nat \ {0}
          /\ PG_LEASE_MAX_S \in Nat /\ LEASE_TTL \in Nat
          /\ MaxFailures \in Nat /\ MaxDown \in Nat
          /\ LEASE_TTL > DAY
          /\ PG_LEASE_MAX_S > MaxFailures + MaxDown
          /\ PG_LEASE_MAX_S + DAY > LEASE_TTL + MaxDown + MaxFailures

ASSUME SealAssumption == Entries # {} /\ Keys!NONE \notin SealKeys
ASSUME PurgeAssumption == Purge!NONE \notin Uids

-----------------------------------------------------------------------------
ToolsInit ==
    \/ gate = "hubble-drops" /\ Hubble!Init
    \/ gate = "webhooks" /\ Hooks!HookInit(HookSets) /\ Idle12
    \/ gate = "rate-limits" /\ Rates!RateInit(LimitedEdges) /\ Idle11
    \/ gate = "pg-logins" /\ Leases!PgInit /\ Idle9
    \/ gate = "keyring" /\ Keys!SealInit /\ Idle8
    \/ gate = "purge" /\ Purge!PurgeInit /\ Idle12

ToolsNext ==
    \/ gate = "hubble-drops" /\ Hubble!Next /\ UNCHANGED Rest14
    \/ gate = "webhooks" /\ Hooks!HookNext /\ UNCHANGED Rest12
    \/ gate = "rate-limits" /\ Rates!RateNext /\ UNCHANGED Rest11
    \/ gate = "pg-logins" /\ Leases!PgNext /\ UNCHANGED Rest9
    \/ gate = "keyring" /\ Keys!SealNext /\ UNCHANGED Rest8
    \/ gate = "purge" /\ Purge!PurgeNext /\ UNCHANGED Rest12

ToolsSpec == ToolsInit /\ [][ToolsNext]_vars

(***************************************************************************)
(* Properties.                                                             *)
(***************************************************************************)
\* check-hubble-drops.py reports every dial to or from the namespace that a
\* policy refused.  It excuses a late reply to a pod that is gone, unless
\* another pod has its address or the server is gone as well.  A caller that
\* must be forwarded was not refused, and one that must be dropped was (the
\* four properties of HubbleDrops).
DropsJudged ==
    gate = "hubble-drops" => /\ Hubble!RefusalsReported /\ Hubble!LateRepliesPass
                             /\ Hubble!ForwardedNotRefused /\ Hubble!ExpectedDropRefused

\* Where check-webhooks.py passes the renders, an object behind the gate is
\* written only once every webhook that can refuse it has answered the gate.
\* It is refused only by one whose server has gone since, and goes in only
\* when its webhooks have seen it.
GateHolds == gate = "webhooks" => Hooks!GatedAdmitted /\ Hooks!GatedSeen /\ Hooks!GateWaitsForPods

\* Limits that check-edge-rate-limits.py passes are enforced on every route,
\* the quota before the fuse, and one client cannot use up what the fuse leaves
\* to another, nor its quota where the guard makes sure of the client's address.
LimitsHold == gate = "rate-limits" => Rates!FuseEnforced /\ Rates!QuotaApplies /\ Rates!ClientsKeepKeys

\* What the operations leave behind can be used.  A Postgres login that a pod
\* holds is not revoked under it while the sidecar's stops and failed passes
\* stay within their bound (PgLoginLeases).  The keyring file, the Secret and
\* the pod's files each open the store through every rotation of the seal key
\* whose old key is retired only after the cluster has left it (SealKeyring).
\* And a purge touches no tenant that exists, unless the name was used again
\* between its test and its list, and leaves no attempt of the delete it
\* reports but one whose read failed (PurgeBackup).
OperationsHold ==
    /\ gate = "pg-logins" => Leases!LoginLive /\ Leases!TokenOutlivesLease /\ Leases!NoTokenPastMax
    /\ gate = "keyring" => Keys!StoreOpens
    /\ gate = "purge" => Purge!TenantKept /\ Purge!PurgeComplete
=============================================================================
