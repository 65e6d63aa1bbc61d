----------------------------- MODULE MCInstall -----------------------------
(***************************************************************************)
(* The guards over an install, each with the part of the install that it   *)
(* judges, followed until it settles.  No two of them share state: one     *)
(* part runs, and the others rest in a state in which none of their        *)
(* actions is enabled.  The constants are the renders that are installed;  *)
(* the run takes the fixtures of the selftests.                            *)
(***************************************************************************)
EXTENDS Integers, Sequences, FiniteSets

CONSTANTS MountRenders, EnvTrees, SecretTrees, WaveCharts, PatCharts,
          MaxWrites, MAX_RETRIES, MaxCrashes

VARIABLES mRender, mPassed, mWork, mStore, mFetched, mSecret, mPhase, mLoaded, mChanged,
          eTree, ePassed, eContainer, eDefined, eCarries, eRead,
          tree, bao, written, started,
          chart, waveVerdict, waveNow, healthy, engine, denied, attempts,
          patChart, database, made, entry, file, stored, job, log, wave, secret, login, crashes

Mounts == INSTANCE SecretMounts
Env == INSTANCE EnvConsumed
Contract == INSTANCE SecretContract
Waves == INSTANCE SyncWaves
Pat == INSTANCE TokenWriters WITH chart <- patChart

mounts == <<mRender, mPassed, mWork, mStore, mFetched, mSecret, mPhase, mLoaded, mChanged>>
env == <<eTree, ePassed, eContainer, eDefined, eCarries, eRead>>
contract == <<tree, bao, written, started>>
waves == <<chart, waveVerdict, waveNow, healthy, engine, denied, attempts>>
pat == <<patChart, database, made, entry, file, stored, job, log, wave, secret, login, crashes>>
installVars == <<mounts, env, contract, waves, pat>>

(***************************************************************************)
(* The fixtures of the selftests, and pairs of their edits.                *)
(***************************************************************************)
MountFixtures == Mounts!MOUNTED
EnvFixtures == Env!TREES
SecretFixtures == Contract!Fixtures
WaveFixtures == Waves!RENDERS
PatFixtures ==
    LET pairs == {"iam-admin-pat later", "login-client earlier", "setup renamed", "no --steps", "another user"}
    IN  {Pat!edit(Pat!SHIPPED, e) : e \in Pat!EDITS}
        \cup {Pat!edit(Pat!edit(Pat!SHIPPED, a), b) : a, b \in pairs}

\* A render is finite, the recorded producers are a map with one entry for a
\* name, and a wave is a number.
Readable(t) ==
    /\ IsFiniteSet(t.external) /\ IsFiniteSet(t.certs) /\ IsFiniteSet(t.workloads)
    /\ \A p, q \in t.producers : p.name = q.name => p = q

ASSUME ReadableTrees == \A t \in SecretTrees : Readable(t)
ASSUME NumberedWaves == \A c \in WaveCharts : \A d \in c : d.wave \in Int

(***************************************************************************)
(* The parts at rest.                                                      *)
(***************************************************************************)
MountsRest ==
    /\ mRender = Mounts!SHIPPED /\ mPassed = "fail" /\ mWork = Mounts!NoWork /\ mPhase = "none"
    /\ mStore = [b \in {} |-> 0] /\ mFetched = <<>> /\ mSecret = Mounts!NoSecret
    /\ mLoaded = Mounts!NoSecret /\ mChanged = FALSE
EnvRest ==
    /\ eTree = [containers |-> {}, readers |-> [gibson |-> {}], lines |-> {}, exempt |-> {},
               code |-> [gibson |-> {}]]
    /\ ePassed = "fail" /\ eContainer = Env!NoContainer
    /\ eDefined = 0 /\ eCarries = [n \in {} |-> {}] /\ eRead = {}
ContractRest ==
    /\ tree = [f \in DOMAIN Contract!Shipped |-> {}]
    /\ bao = {} /\ started = {} /\ written = [s \in {} |-> {}]
WavesRest ==
    /\ chart = {} /\ waveVerdict = "fail" /\ waveNow = 0 /\ healthy = {} /\ engine = FALSE
    /\ denied = FALSE /\ attempts = MAX_RETRIES
PatRest ==
    /\ patChart = Pat!SHIPPED /\ database = Pat!None /\ made = 0 /\ entry = Pat!None
    /\ wave = 1 /\ job = "none" /\ file = Pat!None /\ stored = FALSE /\ log = ""
    /\ secret = Pat!None /\ login = Pat!None /\ crashes = 0

InstallInit ==
    \/ Mounts!MountInit(MountRenders) /\ EnvRest /\ ContractRest /\ WavesRest /\ PatRest
    \/ Env!EnvInit(EnvTrees) /\ MountsRest /\ ContractRest /\ WavesRest /\ PatRest
    \/ Contract!SecretInit(SecretTrees) /\ MountsRest /\ EnvRest /\ WavesRest /\ PatRest
    \/ Waves!WaveInit(WaveCharts) /\ MountsRest /\ EnvRest /\ ContractRest /\ PatRest
    \/ Pat!PatInit(PatCharts) /\ MountsRest /\ EnvRest /\ ContractRest /\ WavesRest

InstallNext ==
    \/ Mounts!MountNext /\ UNCHANGED <<env, contract, waves, pat>>
    \/ Env!EnvNext /\ UNCHANGED <<mounts, contract, waves, pat>>
    \/ Contract!SecretNext /\ UNCHANGED <<mounts, env, waves, pat>>
    \/ Waves!WaveNext /\ UNCHANGED <<mounts, env, contract, pat>>
    \/ Pat!PatNext /\ UNCHANGED <<mounts, env, contract, waves>>

Fairness ==
    /\ Mounts!MountFairness /\ Env!EnvFairness /\ Contract!SecretFairness
    /\ Waves!WaveFairness /\ Pat!PatFairness

InstallSpec == InstallInit /\ [][InstallNext]_installVars /\ Fairness

(***************************************************************************)
(* Properties.                                                             *)
(***************************************************************************)
\* An install of a chart that the guards passed does nothing that it must not,
\* whenever its writers run: no Secret has two writers, a lost first PAT is
\* loud and every PAT can be restored, and no hook Job starts before the
\* policy that it needs.  Each conjunct names what its guard does not see: a
\* writer that is named in no text or by another word (Unseen, Misnamed), a PAT
\* lost over the entry that an earlier install left in OpenBao, a policy and a
\* Job of which one leaves its namespace out (Placed).
InstallSafe ==
    /\ Contract!OneWriter
    /\ Pat!LostIsLoud /\ Pat!SecretIsRestorable
    /\ Waves!HooksAllowed

=============================================================================
