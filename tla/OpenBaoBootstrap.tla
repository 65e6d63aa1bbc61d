-------------------------- MODULE OpenBaoBootstrap --------------------------
(***************************************************************************)
(* The openbao-auto-init sidecar: one bootstrap pass with the initial root *)
(* token, held in memory only, then a reconcile pass at each start and a   *)
(* smaller pass every five minutes, both with a login of the seeder role.  *)
(* Any call may fail and the sidecar or its pod may restart between two    *)
(* steps.                                                                  *)
(*                                                                         *)
(* A step that has failed retry_n's five attempts is one failure here.     *)
(***************************************************************************)
EXTENDS Integers, FiniteSets

CONSTANTS Jobs,        \* the Secrets of JOB_TOKENS
          SeedKeys,    \* the keys of openbao-seed-keys.txt
          MaxFailures, \* bound: steps that fail
          MaxRestarts  \* bound: restarts of the sidecar or its pod

ASSUME BootstrapAssumption ==
          /\ "platform" \notin Jobs /\ "tenant" \notin Jobs
          /\ IsFiniteSet(Jobs) /\ IsFiniteSet(SeedKeys)
          /\ MaxFailures \in Nat /\ MaxRestarts \in Nat

Consumers == Jobs \cup {"tenant", "platform"}
Mounts == {"secret", "transit"}
BootSteps == {"kv", "transit", "access", "login", "tenant", "jobs", "platform",
              "seed", "usable", "revoke"}
EntrySteps == {"entryStore", "entryTokens", "entrySeed", "mark"}

VARIABLES initialized, sealed,
          mounts,     \* the secret engines that exist
          access,     \* the roles that exist: "none", "eso", "all"
          legacy,     \* the policy platform-admin exists
          root,       \* the initial root token: "none", "live", "revoked"
          token,      \* per Secret: its token's policy; "none" is no usable token
          seeded,     \* the keys present
          pc,         \* the sidecar's step
          rc,         \* its pass has not failed
          announced,  \* announced_steady
          ready,      \* the marker /tmp/openbao-auto-init-ready
          failures, restarts

store == <<initialized, mounts, access, legacy, root, token, seeded>>
vars == <<store, sealed, pc, rc, announced, ready, failures, restarts>>

TypeOK ==
    /\ initialized \in BOOLEAN /\ sealed \in BOOLEAN
    /\ mounts \subseteq Mounts
    /\ access \in {"none", "eso", "all"}
    /\ legacy \in BOOLEAN
    /\ root \in {"none", "live", "revoked"}
    /\ token \in [Consumers -> {"none", "legacy", "own"}]
    /\ seeded \subseteq SeedKeys
    /\ pc \in BootSteps \cup EntrySteps \cup {"loop", "down"}
    /\ rc \in BOOLEAN /\ announced \in BOOLEAN /\ ready \in BOOLEAN
    /\ failures \in 0..MaxFailures /\ restarts \in 0..MaxRestarts

(* A fresh volume, or the store of an earlier chart: one that was restored *)
(* into a new cluster, where no Secret holds a token, or one whose tokens  *)
(* still carry the shared policy.                                          *)
Init ==
    /\ \/ /\ initialized = FALSE /\ mounts = {} /\ access = "none" /\ legacy = FALSE
          /\ root = "none" /\ seeded = {}
          /\ token = [c \in Consumers |-> "none"]
       \/ /\ initialized = TRUE /\ mounts = Mounts /\ access = "all" /\ legacy \in BOOLEAN
          /\ root = "revoked" /\ seeded \in SUBSET SeedKeys
          /\ token \in [Consumers -> {"none", IF legacy THEN "legacy" ELSE "own"}]
    /\ sealed = FALSE /\ pc = "loop" /\ rc = TRUE
    /\ announced = FALSE /\ ready = FALSE
    /\ failures = 0 /\ restarts = 0

-----------------------------------------------------------------------------
(* A step is allowed to fail as long as the bound lasts.                   *)
MayFail == failures < MaxFailures
Failed == MayFail /\ failures' = failures + 1
Passed == failures' = failures

(* A pass over a set of things to write: each write succeeds or fails.     *)
WritesAll(todo, done) == done = todo /\ Passed
WritesSome(todo, done) == done \subseteq todo /\ done # todo /\ Failed

(* vault_mint_token for the consumers C, each with its own policy.         *)
Mint(C) == token' = [c \in Consumers |-> IF c \in C THEN "own" ELSE token[c]]

Step(from, to) == pc = from /\ pc' = to

Sidecar == <<sealed, announced, ready, restarts>>

-----------------------------------------------------------------------------
(* The bootstrap pass                                                      *)

VaultInit ==
    /\ Step("loop", "kv") /\ ~initialized
    /\ initialized' = TRUE /\ root' = "live" /\ Passed
    /\ UNCHANGED <<mounts, access, legacy, token, seeded, rc, Sidecar>>

EnsureMount(step, mount, to) ==
    /\ Step(step, to) /\ Passed
    /\ mounts' = mounts \cup {mount}
    /\ UNCHANGED <<initialized, access, legacy, root, token, seeded, rc, Sidecar>>

(* vault_configure_access: the policies and the role of ESO come first,    *)
(* the role of the seeder is the last write.                               *)
WriteEsoRole ==
    /\ pc = "access" /\ pc' = pc /\ access = "none" /\ Passed
    /\ access' = "eso"
    /\ UNCHANGED <<initialized, mounts, legacy, root, token, seeded, rc, Sidecar>>
WriteSeederRole ==
    /\ Step("access", "login") /\ access # "none" /\ Passed
    /\ access' = "all"
    /\ UNCHANGED <<initialized, mounts, legacy, root, token, seeded, rc, Sidecar>>

LoginWorks ==
    /\ Step("login", "tenant") /\ access = "all" /\ Passed
    /\ UNCHANGED <<store, rc, Sidecar>>

MintTenant ==
    /\ Step("tenant", "jobs") /\ Passed /\ Mint({"tenant"})
    /\ UNCHANGED <<initialized, mounts, access, legacy, root, seeded, rc, Sidecar>>

(* The loop over JOB_TOKENS goes on after a failed mint; the pass does not. *)
MintJobs ==
    /\ \E C \in SUBSET Jobs :
          /\ Mint(C)
          /\ \/ WritesAll(Jobs, C) /\ Step("jobs", "platform")
             \/ WritesSome(Jobs, C) /\ Step("jobs", "loop")
    /\ UNCHANGED <<initialized, mounts, access, legacy, root, seeded, rc, Sidecar>>

MintPlatform ==
    /\ Step("platform", "seed") /\ Passed /\ Mint({"platform"})
    /\ UNCHANGED <<initialized, mounts, access, legacy, root, seeded, rc, Sidecar>>

(* Mutant: the result of the seed pass is not tested.                      *)
BootSeedUnchecked ==
    /\ \E K \in SUBSET SeedKeys :
          /\ seeded' = seeded \cup K
          /\ Step("seed", "usable")
          /\ WritesAll(SeedKeys, seeded') \/ WritesSome(SeedKeys, seeded')
    /\ UNCHANGED <<initialized, mounts, access, legacy, root, token, rc, Sidecar>>

(* vault_seed_platform_secrets with the root token.                        *)
BootSeed ==
    /\ \E K \in SUBSET SeedKeys :
          /\ seeded' = seeded \cup K
          /\ \/ WritesAll(SeedKeys, seeded') /\ Step("seed", "usable")
             \/ WritesSome(SeedKeys, seeded') /\ Step("seed", "loop")
    /\ UNCHANGED <<initialized, mounts, access, legacy, root, token, rc, Sidecar>>

(* vault_service_token_usable of the platform token.                       *)
TokenUsable ==
    /\ Step("usable", "revoke") /\ token["platform"] = "own" /\ Passed
    /\ UNCHANGED <<store, rc, Sidecar>>

(* vault_revoke_initial_root, whose failure is ignored.                    *)
RevokeRoot ==
    /\ Step("revoke", "loop")
    /\ \/ Passed /\ root' = "revoked"
       \/ Failed /\ root' = root
    /\ announced' = FALSE
    /\ UNCHANGED <<initialized, mounts, access, legacy, token, seeded, rc, sealed,
                   ready, restarts>>

(* A step of the bootstrap fails its attempts: `continue` leaves the pass, *)
(* and nothing uses the root token again.                                  *)
BootStepFails ==
    /\ pc \in BootSteps \ {"jobs", "seed", "revoke"} /\ pc' = "loop"
    /\ Failed
    /\ UNCHANGED <<store, rc, Sidecar>>

-----------------------------------------------------------------------------
(* The steady state                                                        *)

Steady == pc = "loop" /\ initialized /\ ~sealed

(* vault_steady_reconcile logs in, or is skipped.                          *)
EntryLogin ==
    /\ Steady /\ ~announced
    /\ \/ access = "all" /\ Passed /\ pc' = "entryStore"
       \/ access = "all" /\ Failed /\ pc' = "mark"
       \/ access # "all" /\ Passed /\ pc' = "mark"
    /\ rc' = TRUE
    /\ UNCHANGED <<store, Sidecar>>

(* The mounts, the policies and the roles once more.                       *)
EntryStore ==
    /\ Step("entryStore", "entryTokens")
    /\ \/ Passed /\ mounts' = Mounts /\ rc' = rc
       \/ Failed /\ mounts' = mounts /\ rc' = FALSE
    /\ UNCHANGED <<initialized, access, legacy, root, token, seeded, Sidecar>>

Unfit == {c \in Consumers : token[c] # "own"}

(* vault_ensure_tokens: a token that is missing, ended or of the shared    *)
(* policy is minted again; another one is renewed.                         *)
EntryTokens ==
    /\ Step("entryTokens", "entrySeed")
    /\ \E C \in SUBSET Unfit :
          /\ Mint(C)
          /\ \/ WritesAll(Unfit, C) /\ rc' = rc
             \/ WritesSome(Unfit, C) /\ rc' = FALSE
    /\ UNCHANGED <<initialized, mounts, access, legacy, root, seeded, Sidecar>>

(* Mutant: the shared policy is deleted whatever the pass did.             *)
EntrySeedDeletesAlways ==
    /\ Step("entrySeed", "mark")
    /\ \E K \in SUBSET SeedKeys :
          /\ seeded' = seeded \cup K
          /\ WritesAll(SeedKeys, seeded') \/ WritesSome(SeedKeys, seeded')
    /\ legacy' = FALSE
    /\ rc' = rc
    /\ UNCHANGED <<initialized, mounts, access, root, token, Sidecar>>

(* The seed pass, and vault_delete_legacy_policy once nothing failed.      *)
EntrySeed ==
    /\ Step("entrySeed", "mark")
    /\ \E K \in SUBSET SeedKeys :
          /\ seeded' = seeded \cup K
          /\ \/ WritesAll(SeedKeys, seeded') /\ rc' = rc
             \/ WritesSome(SeedKeys, seeded') /\ rc' = FALSE
    /\ \/ rc' /\ legacy' = FALSE
       \/ legacy' = legacy /\ (rc' => MayFail)
    /\ UNCHANGED <<initialized, mounts, access, root, token, Sidecar>>

(* The marker is touched whether the pass completed or not.                *)
MarkReady ==
    /\ Step("mark", "loop") /\ Passed
    /\ ready' = TRUE /\ announced' = TRUE
    /\ UNCHANGED <<store, rc, sealed, restarts>>

(* Mutant: the pass of five minutes renews tokens and mints none.          *)
TickRenewsOnly ==
    /\ Steady /\ announced /\ access = "all" /\ pc' = pc
    /\ \E K \in SUBSET SeedKeys :
          /\ seeded' = seeded \cup K
          /\ WritesAll(SeedKeys, seeded') \/ WritesSome(SeedKeys, seeded')
    /\ UNCHANGED <<initialized, mounts, access, legacy, root, token, rc, Sidecar>>

(* The pass of every five minutes: the tokens and the seed keys.  It needs *)
(* the seeder role for both, and touches neither mounts nor access.        *)
TickPass ==
    /\ Steady /\ announced /\ access = "all" /\ pc' = pc
    /\ \E C \in SUBSET Unfit, K \in SUBSET SeedKeys :
          /\ Mint(C) /\ seeded' = seeded \cup K
          /\ \/ WritesAll(<<Unfit, SeedKeys>>, <<C, seeded'>>)
             \/ (C # Unfit \/ seeded' # SeedKeys) /\ Failed
    /\ UNCHANGED <<initialized, mounts, access, legacy, root, rc, Sidecar>>

(* The loop turns with nothing it can do: the store is sealed under        *)
(* another key, or the login of the pass has no role to use.               *)
IdleTurn ==
    /\ pc = "loop" /\ initialized
    /\ sealed \/ (announced /\ access # "all")
    /\ UNCHANGED vars

-----------------------------------------------------------------------------
(* Restarts                                                                *)

(* The container stops, or the pod with it.  The marker is in an emptyDir  *)
(* of the pod, the root token in the memory of the shell.                  *)
Restart ==
    /\ pc # "down" /\ pc' = "down"
    /\ restarts < MaxRestarts /\ restarts' = restarts + 1
    /\ announced' = FALSE
    /\ \/ ready' = ready /\ sealed' = sealed
       \/ ready' = FALSE /\ sealed' \in (IF initialized THEN BOOLEAN ELSE {FALSE})
    /\ UNCHANGED <<store, rc, failures>>

(* A token whose period ends while nothing renews it.                      *)
TokenEnds(c) ==
    /\ pc = "down" /\ token[c] # "none"
    /\ token' = [token EXCEPT ![c] = "none"]
    /\ UNCHANGED <<initialized, mounts, access, legacy, root, seeded, sealed, pc, rc,
                   announced, ready, failures, restarts>>

Start ==
    /\ Step("down", "loop")
    /\ UNCHANGED <<store, rc, Sidecar, failures>>

BootPass == \/ VaultInit
            \/ EnsureMount("kv", "secret", "transit")
            \/ EnsureMount("transit", "transit", "access")
            \/ WriteEsoRole \/ WriteSeederRole \/ LoginWorks
            \/ MintTenant \/ MintJobs \/ MintPlatform
            \/ BootSeed \/ TokenUsable \/ RevokeRoot \/ BootStepFails

SteadyPass == \/ EntryLogin \/ EntryStore \/ EntryTokens \/ EntrySeed
              \/ MarkReady \/ TickPass \/ IdleTurn

Next == \/ BootPass \/ SteadyPass
        \/ Restart \/ Start
        \/ \E c \in Consumers : TokenEnds(c)

Spec == Init /\ [][Next]_vars

(* The shell runs on, and the kubelet starts a stopped container again.    *)
FairSpec == Spec /\ WF_vars(BootPass) /\ WF_vars(SteadyPass) /\ WF_vars(Start)

-----------------------------------------------------------------------------
(* Properties                                                              *)

(* The initial root token is revoked only once it can be missed: what the  *)
(* store needs exists, every key is seeded and the seeder role is there to *)
(* repair the rest (the preconditions of vault_revoke_initial_root).       *)
RevokedReplaced ==
    [][root' = "revoked" /\ root # "revoked" =>
          /\ mounts = Mounts /\ access = "all" /\ seeded = SeedKeys
          /\ \A c \in Consumers : token[c] = "own"]_vars

(* The shared policy goes only after no Secret holds a token that needs it *)
(* (vault_delete_legacy_policy).                                           *)
LegacyUnused ==
    ~legacy => \A c \in Consumers : token[c] # "legacy"

Serving ==
    /\ mounts = Mounts /\ access = "all" /\ seeded = SeedKeys
    /\ \A c \in Consumers : token[c] = "own"

(* With the seeder role in place, the store ends up serving every consumer *)
(* again, whichever steps failed and whichever tokens ended, unless it is  *)
(* sealed under a wrong keyring.                                           *)
SelfHeals == [](access = "all" => <>((Serving /\ ready) \/ sealed))

=============================================================================
