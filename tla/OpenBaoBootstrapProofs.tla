----------------------- MODULE OpenBaoBootstrapProofs -----------------------
(***************************************************************************)
(* Theorems about the openbao-auto-init sidecar for any Secrets of         *)
(* JOB_TOKENS, any seed keys and any number of failures and restarts.      *)
(***************************************************************************)
EXTENDS OpenBaoBootstrap, TLAPS

-----------------------------------------------------------------------------
(* Type correctness                                                        *)

LEMMA InitType == Init => TypeOK
<1> SUFFICES ASSUME Init PROVE TypeOK
  OBVIOUS
<1>1. /\ initialized \in BOOLEAN /\ sealed \in BOOLEAN /\ legacy \in BOOLEAN
      /\ rc \in BOOLEAN /\ announced \in BOOLEAN /\ ready \in BOOLEAN
  BY DEF Init
<1>2. token \in [Consumers -> {"none", "legacy", "own"}]
  <2>1. CASE token = [c \in Consumers |-> "none"]
    BY <2>1
  <2>2. CASE token \in [Consumers -> {"none", IF legacy THEN "legacy" ELSE "own"}]
    BY <2>2
  <2> QED
    BY <2>1, <2>2 DEF Init
<1>3. /\ mounts \subseteq Mounts /\ access \in {"none", "eso", "all"}
      /\ root \in {"none", "live", "revoked"} /\ seeded \subseteq SeedKeys
  BY DEF Init
<1>4. failures \in 0..MaxFailures /\ restarts \in 0..MaxRestarts /\ pc = "loop"
  BY BootstrapAssumption DEF Init
<1> QED
  BY <1>1, <1>2, <1>3, <1>4 DEF TypeOK

(* A token is minted with the policy of its consumer.                      *)
LEMMA MintType ==
  ASSUME TypeOK, NEW C, Mint(C)
  PROVE  /\ token' \in [Consumers -> {"none", "legacy", "own"}]
         /\ \A c \in Consumers : token'[c] = IF c \in C THEN "own" ELSE token[c]
  BY DEF TypeOK, Mint

(* The count of the failures stays within its bound.                       *)
LEMMA FailuresType ==
  ASSUME TypeOK, Passed \/ Failed PROVE failures' \in 0..MaxFailures
  BY BootstrapAssumption DEF TypeOK, Passed, Failed, MayFail

(* The steps of the bootstrap pass keep the types.                         *)
LEMMA BootType == ASSUME TypeOK, BootPass PROVE TypeOK'
<1> USE DEF Step, Sidecar, store, BootSteps, EntrySteps
<1>1. CASE VaultInit
  <2>1. initialized' \in BOOLEAN
    BY <1>1 DEF VaultInit
  <2> QED
    BY <1>1, <2>1, FailuresType DEF VaultInit, TypeOK
<1>2. CASE EnsureMount("kv", "secret", "transit") \/ EnsureMount("transit", "transit", "access")
  BY <1>2, FailuresType DEF EnsureMount, TypeOK, Mounts
<1>3. CASE WriteEsoRole \/ WriteSeederRole \/ LoginWorks
  BY <1>3, FailuresType DEF WriteEsoRole, WriteSeederRole, LoginWorks, TypeOK
<1>4. CASE MintTenant \/ MintPlatform
  BY <1>4, FailuresType, MintType DEF MintTenant, MintPlatform, TypeOK
<1>5. CASE MintJobs
  <2>1. PICK C \in SUBSET Jobs :
           /\ Mint(C)
           /\ \/ WritesAll(Jobs, C) /\ Step("jobs", "platform")
              \/ WritesSome(Jobs, C) /\ Step("jobs", "loop")
    BY <1>5 DEF MintJobs
  <2>2. Passed \/ Failed
    BY <2>1 DEF WritesAll, WritesSome
  <2> QED
    BY <1>5, <2>1, <2>2, FailuresType, MintType DEF MintJobs, TypeOK
<1>6. CASE BootSeed
  <2>1. PICK K \in SUBSET SeedKeys :
           /\ seeded' = seeded \cup K
           /\ \/ WritesAll(SeedKeys, seeded') /\ Step("seed", "usable")
              \/ WritesSome(SeedKeys, seeded') /\ Step("seed", "loop")
    BY <1>6 DEF BootSeed
  <2>2. Passed \/ Failed
    BY <2>1 DEF WritesAll, WritesSome
  <2> QED
    BY <1>6, <2>1, <2>2, FailuresType DEF BootSeed, TypeOK
<1>7. CASE TokenUsable \/ BootStepFails
  BY <1>7, FailuresType DEF TokenUsable, BootStepFails, TypeOK
<1>8. CASE RevokeRoot
  <2>1. announced' \in BOOLEAN
    BY <1>8 DEF RevokeRoot
  <2> QED
    BY <1>8, <2>1, FailuresType DEF RevokeRoot, TypeOK
<1> QED
  BY <1>1, <1>2, <1>3, <1>4, <1>5, <1>6, <1>7, <1>8 DEF BootPass

(* So do the passes of the steady state.                                   *)
LEMMA SteadyType == ASSUME TypeOK, SteadyPass PROVE TypeOK'
<1> USE DEF Step, Sidecar, store, BootSteps, EntrySteps
<1>1. CASE EntryLogin
  <2>1. rc' \in BOOLEAN
    BY <1>1 DEF EntryLogin
  <2> QED
    BY <1>1, <2>1, FailuresType DEF EntryLogin, TypeOK
<1>2. CASE EntryStore
  <2>1. rc' \in BOOLEAN
    BY <1>2 DEF EntryStore, TypeOK
  <2> QED
    BY <1>2, <2>1, FailuresType DEF EntryStore, TypeOK
<1>3. CASE EntryTokens
  <2>1. PICK C \in SUBSET Unfit :
           /\ Mint(C)
           /\ \/ WritesAll(Unfit, C) /\ rc' = rc
              \/ WritesSome(Unfit, C) /\ rc' = FALSE
    BY <1>3 DEF EntryTokens
  <2>2. rc' \in BOOLEAN
    BY <2>1 DEF TypeOK
  <2>3. Passed \/ Failed
    BY <2>1 DEF WritesAll, WritesSome
  <2> QED
    BY <1>3, <2>1, <2>2, <2>3, FailuresType, MintType DEF EntryTokens, TypeOK
<1>4. CASE EntrySeed
  <2>1. PICK K \in SUBSET SeedKeys :
           /\ seeded' = seeded \cup K
           /\ \/ WritesAll(SeedKeys, seeded') /\ rc' = rc
              \/ WritesSome(SeedKeys, seeded') /\ rc' = FALSE
    BY <1>4 DEF EntrySeed
  <2>2. rc' \in BOOLEAN
    BY <2>1 DEF TypeOK
  <2>3. legacy' \in BOOLEAN
    BY <1>4 DEF EntrySeed, TypeOK
  <2>4. Passed \/ Failed
    BY <2>1 DEF WritesAll, WritesSome
  <2> QED
    BY <1>4, <2>1, <2>2, <2>3, <2>4, FailuresType DEF EntrySeed, TypeOK
<1>5. CASE MarkReady
  <2>1. ready' \in BOOLEAN /\ announced' \in BOOLEAN
    BY <1>5 DEF MarkReady
  <2> QED
    BY <1>5, <2>1, FailuresType DEF MarkReady, TypeOK
<1>6. CASE TickPass
  <2>1. PICK C \in SUBSET Unfit, K \in SUBSET SeedKeys :
           /\ Mint(C) /\ seeded' = seeded \cup K
           /\ \/ WritesAll(<<Unfit, SeedKeys>>, <<C, seeded'>>)
              \/ (C # Unfit \/ seeded' # SeedKeys) /\ Failed
    BY <1>6 DEF TickPass
  <2>2. Passed \/ Failed
    BY <2>1 DEF WritesAll
  <2> QED
    BY <1>6, <2>1, <2>2, FailuresType, MintType DEF TickPass, Steady, TypeOK
<1>7. CASE IdleTurn
  BY <1>7 DEF IdleTurn, vars, TypeOK
<1> QED
  BY <1>1, <1>2, <1>3, <1>4, <1>5, <1>6, <1>7 DEF SteadyPass

(* And the restarts.                                                       *)
LEMMA RestartType ==
  ASSUME TypeOK, Restart \/ Start \/ \E c \in Consumers : TokenEnds(c) PROVE TypeOK'
<1> USE DEF Step, Sidecar, store, BootSteps, EntrySteps
<1>1. CASE Restart
  <2>1. announced' \in BOOLEAN /\ ready' \in BOOLEAN /\ sealed' \in BOOLEAN
    BY <1>1 DEF Restart, TypeOK
  <2> QED
    BY <1>1, <2>1, BootstrapAssumption DEF Restart, TypeOK
<1>2. CASE Start
  BY <1>2 DEF Start, TypeOK
<1>3. ASSUME NEW c \in Consumers, TokenEnds(c) PROVE TypeOK'
  BY <1>3 DEF TokenEnds, TypeOK
<1> QED
  BY <1>1, <1>2, <1>3

LEMMA NextType == TypeOK /\ [Next]_vars => TypeOK'
<1>1. ASSUME TypeOK, UNCHANGED vars PROVE TypeOK'
  BY <1>1 DEF vars, store, TypeOK
<1> QED
  BY <1>1, BootType, SteadyType, RestartType DEF Next

(* The store and the sidecar are well typed at every moment.               *)
THEOREM TypeCorrect == Spec => []TypeOK
  BY InitType, NextType, PTL DEF Spec

-----------------------------------------------------------------------------
(* The shared policy                                                       *)

(* The entry pass deletes the policy after it has minted every token again:*)
(* as long as it has not failed, no Secret holds a token that needs it.    *)
TokensRenewed == pc = "entrySeed" /\ rc => \A c \in Consumers : token[c] = "own"

LegacyInv == TypeOK /\ LegacyUnused /\ TokensRenewed

LEMMA NextLegacy == ASSUME LegacyInv, [Next]_vars PROVE LegacyInv'
<1>1. TypeOK /\ TypeOK'
  BY NextType DEF LegacyInv
<1> USE <1>1 DEF LegacyInv, LegacyUnused, TokensRenewed, Step, Sidecar, store
<1>2. CASE BootPass
  <2>1. CASE MintTenant \/ MintJobs \/ MintPlatform
    <3>1. PICK C : Mint(C)
      BY <2>1 DEF MintTenant, MintJobs, MintPlatform
    <3>2. legacy' = legacy /\ pc' # "entrySeed"
      BY <2>1 DEF MintTenant, MintJobs, MintPlatform
    <3> QED
      BY <3>1, <3>2, MintType
  <2>2. \/ token' = token /\ legacy' = legacy /\ pc' # "entrySeed"
        \/ MintTenant \/ MintJobs \/ MintPlatform
    BY <1>2 DEF BootPass, VaultInit, EnsureMount, WriteEsoRole, WriteSeederRole, LoginWorks,
           BootSeed, TokenUsable, RevokeRoot, BootStepFails
  <2> QED
    BY <1>2, <2>1, <2>2
<1>3. CASE EntryLogin \/ EntryStore \/ MarkReady
  BY <1>3 DEF EntryLogin, EntryStore, MarkReady
<1>4. CASE EntryTokens
  <2>1. PICK C \in SUBSET Unfit :
           /\ Mint(C)
           /\ \/ WritesAll(Unfit, C) /\ rc' = rc
              \/ WritesSome(Unfit, C) /\ rc' = FALSE
    BY <1>4 DEF EntryTokens
  <2>2. rc' => C = Unfit
    BY <2>1 DEF WritesAll
  <2>3. \A c \in Consumers : token'[c] = IF c \in C THEN "own" ELSE token[c]
    BY <2>1, MintType
  <2> QED
    BY <1>4, <2>2, <2>3 DEF EntryTokens, Unfit
<1>5. CASE EntrySeed
  <2>1. rc' => rc
    BY <1>5 DEF EntrySeed
  <2>2. legacy' = legacy \/ rc'
    BY <1>5 DEF EntrySeed
  <2> QED
    BY <1>5, <2>1, <2>2 DEF EntrySeed
<1>6. CASE TickPass
  <2>1. PICK C : Mint(C)
    BY <1>6 DEF TickPass
  <2> QED
    BY <1>6, <2>1, MintType DEF TickPass, Steady
<1>7. CASE Restart \/ Start
  BY <1>7 DEF Restart, Start
<1>8. ASSUME NEW c \in Consumers, TokenEnds(c) PROVE LegacyInv'
  BY <1>8 DEF TokenEnds, TypeOK
<1>9. CASE UNCHANGED vars
  BY <1>9 DEF vars
<1> QED
  BY <1>2, <1>3, <1>4, <1>5, <1>6, <1>7, <1>8, <1>9 DEF Next, SteadyPass, IdleTurn

(* LegacyUnused: wherever the passes fail and the sidecar stops, the       *)
(* shared policy is not deleted under a token that needs it.               *)
THEOREM LegacyNeverMissed == Spec => []LegacyUnused
<1>1. Init => LegacyInv
  <2>1. Init => LegacyUnused /\ TokensRenewed
    BY DEF Init, LegacyUnused, TokensRenewed
  <2> QED
    BY <2>1, InitType DEF LegacyInv
<1>2. LegacyInv /\ [Next]_vars => LegacyInv'
  BY NextLegacy
<1>3. LegacyInv => LegacyUnused
  BY DEF LegacyInv
<1> QED
  BY <1>1, <1>2, <1>3, PTL DEF Spec

-----------------------------------------------------------------------------
(* The initial root token                                                  *)

(* What the steps of a bootstrap pass have left behind them.  A pass that  *)
(* fails or stops starts at no later step again.                           *)
AfterAccess == {"login", "tenant", "jobs", "platform", "seed", "usable", "revoke"}
Booted ==
    /\ pc = "transit" => "secret" \in mounts
    /\ pc \in {"access"} \cup AfterAccess => mounts = Mounts
    /\ pc \in AfterAccess => access = "all"
    /\ pc \in {"jobs", "platform", "seed", "usable", "revoke"} => token["tenant"] = "own"
    /\ pc \in {"platform", "seed", "usable", "revoke"} => \A j \in Jobs : token[j] = "own"
    /\ pc \in {"seed", "usable", "revoke"} => token["platform"] = "own"
    /\ pc \in {"usable", "revoke"} => seeded = SeedKeys

BootInv == TypeOK /\ Booted

LEMMA NextBooted == ASSUME BootInv, [Next]_vars PROVE BootInv'
<1>1. TypeOK /\ TypeOK'
  BY NextType DEF BootInv
<1> USE <1>1 DEF BootInv, Booted, Step, Sidecar, store, AfterAccess
<1>2. CASE VaultInit \/ TokenUsable \/ RevokeRoot \/ BootStepFails
  BY <1>2 DEF VaultInit, TokenUsable, RevokeRoot, BootStepFails
<1>3. CASE EnsureMount("kv", "secret", "transit") \/ EnsureMount("transit", "transit", "access")
  BY <1>3 DEF EnsureMount, Mounts, TypeOK
<1>4. CASE WriteEsoRole \/ WriteSeederRole \/ LoginWorks
  BY <1>4 DEF WriteEsoRole, WriteSeederRole, LoginWorks
<1>5. CASE MintTenant
  BY <1>5, MintType DEF MintTenant, Consumers
<1>6. CASE MintJobs
  <2>1. PICK C \in SUBSET Jobs :
           /\ Mint(C)
           /\ \/ WritesAll(Jobs, C) /\ Step("jobs", "platform")
              \/ WritesSome(Jobs, C) /\ Step("jobs", "loop")
    BY <1>6 DEF MintJobs
  <2>2. \A c \in Consumers : token'[c] = IF c \in C THEN "own" ELSE token[c]
    BY <2>1, MintType
  <2>3. pc' = "platform" => C = Jobs
    BY <2>1 DEF WritesAll
  <2> QED
    BY <1>6, <2>1, <2>2, <2>3 DEF MintJobs, Consumers
<1>7. CASE MintPlatform
  <2>1. \A c \in Consumers : token'[c] = IF c = "platform" THEN "own" ELSE token[c]
    BY <1>7, MintType DEF MintPlatform
  <2> QED
    BY <1>7, <2>1 DEF MintPlatform, Consumers
<1>8. CASE BootSeed
  <2>1. pc' = "usable" => seeded' = SeedKeys
    BY <1>8 DEF BootSeed, WritesAll
  <2> QED
    BY <1>8, <2>1 DEF BootSeed
<1>9. CASE SteadyPass \/ Restart \/ Start \/ \E c \in Consumers : TokenEnds(c)
  <2>1. pc' \notin BootSteps
    BY <1>9 DEF SteadyPass, EntryLogin, EntryStore, EntryTokens, EntrySeed, MarkReady,
       TickPass, Steady, IdleTurn, vars, Restart, Start, TokenEnds, BootSteps
  <2> QED
    BY <2>1 DEF BootSteps
<1>10. CASE UNCHANGED vars
  BY <1>10 DEF vars
<1> QED
  BY <1>2, <1>3, <1>4, <1>5, <1>6, <1>7, <1>8, <1>9, <1>10 DEF Next, BootPass

(* RevokedReplaced: the root token is revoked only by a pass that has left *)
(* the mounts, the roles, every token and every seed key behind it, for    *)
(* any consumers and seed keys and wherever earlier passes ended.          *)
THEOREM RootRevokedLast == Spec => RevokedReplaced
<1>1. Init => BootInv
  <2>1. Init => Booted
    BY DEF Init, Booted, AfterAccess
  <2> QED
    BY <2>1, InitType DEF BootInv
<1>2. BootInv /\ [Next]_vars => BootInv'
  BY NextBooted
<1>3. BootInv /\ [Next]_vars =>
        [root' = "revoked" /\ root # "revoked" =>
          /\ mounts = Mounts /\ access = "all" /\ seeded = SeedKeys
          /\ \A c \in Consumers : token[c] = "own"]_vars
  <2> SUFFICES ASSUME BootInv, Next, root' = "revoked", root # "revoked"
               PROVE  /\ mounts = Mounts /\ access = "all" /\ seeded = SeedKeys
                      /\ \A c \in Consumers : token[c] = "own"
    OBVIOUS
  <2>1. RevokeRoot
    BY DEF Next, BootPass, SteadyPass, VaultInit, EnsureMount, WriteEsoRole, WriteSeederRole,
       LoginWorks, MintTenant, MintJobs, MintPlatform, BootSeed, TokenUsable, BootStepFails,
       EntryLogin, EntryStore, EntryTokens, EntrySeed, MarkReady, TickPass, IdleTurn, Restart,
       Start, TokenEnds, store, vars, Sidecar
  <2>2. pc = "revoke"
    BY <2>1 DEF RevokeRoot, Step
  <2> QED
    BY <2>2 DEF BootInv, Booted, AfterAccess, Consumers
<1> QED
  BY <1>1, <1>2, <1>3, PTL DEF Spec, RevokedReplaced

=============================================================================
