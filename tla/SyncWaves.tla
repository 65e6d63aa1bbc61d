------------------------------ MODULE SyncWaves ------------------------------
(***************************************************************************)
(* A from-zero Argo sync of the umbrella chart, and the two guards over    *)
(* its waves: scripts/check-postgres-logins-wave.py and                    *)
(* scripts/check-netpol-before-hooks.py.                                   *)
(*                                                                         *)
(* Argo applies a wave when every object of the earlier ones is healthy.   *)
(* A document is [kind, name, ns, wave, hook, reads, form, engine, labels, *)
(* selectors, auth]: the namespace it names (or none, which is the one of  *)
(* the release), the Secrets a Job reads (an ExternalSecret writes the one *)
(* of its name) and in which form, whether the gate mounts the pg-engine   *)
(* key, the labels of the pod, the selector of each rule of a policy and   *)
(* how a generator logs in.                                                *)
(***************************************************************************)
EXTENDS Integers, FiniteSets, Sequences

CONSTANTS MAX_RETRIES \* the attempts Argo makes at a wave that is not healthy

VARIABLES chart, waveVerdict, waveNow, healthy, engine, denied, attempts

waveVars == <<chart, waveVerdict, waveNow, healthy, engine, denied, attempts>>

-----------------------------------------------------------------------------
(* The documents.                                                          *)

RELEASE == "gibson"
NoSelector == [key |-> "", operator |-> "none", values |-> {}]
Sel(key, op, vals) == [key |-> key, operator |-> op, values |-> vals]
Doc(kind, name, w) ==
    [kind |-> kind, name |-> name, ns |-> RELEASE, wave |-> w, hook |-> FALSE, reads |-> {},
     form |-> "volume", engine |-> FALSE, labels |-> {}, selectors |-> {}, auth |-> "none"]
Kind(docs, k) == {d \in docs : d.kind = k}

-----------------------------------------------------------------------------
(* check-postgres-logins-wave.py                                           *)

logins(docs) == Kind(docs, "ExternalSecret")
before(docs) == Kind(docs, "Cluster") \cup {d \in Kind(docs, "Job") : d.name = "postgres-setup"}
gates(docs) == {d \in Kind(docs, "Job") : d.name = "postgres-logins-gate"}
hook_jobs(docs) == {d \in Kind(docs, "Job") : d.hook}
\* A secret volume, an env entry or envFrom; not a source of a projected volume.
secret_names(job) == IF job.form = "projected" THEN {} ELSE job.reads
floor(docs) == CHOOSE w \in {d.wave : d \in before(docs) \cup gates(docs)} :
                   \A d \in before(docs) \cup gates(docs) : d.wave <= w

\* Mutant: no rule about the Jobs that mount the Secret.
judge_early(docs) ==
    /\ logins(docs) # {} /\ before(docs) # {} /\ gates(docs) # {}
    /\ \A g \in gates(docs) : g.engine
    /\ \A es \in logins(docs) : es.wave > floor(docs)
    /\ \A d \in Kind(docs, "VaultDynamicSecret") : d.auth = "tokenSecretRef"

\* The render is clean: each login ExternalSecret is after the cluster, the
\* setup Jobs and the gate, and not after a hook Job that mounts its Secret.
judge(docs) ==
    /\ logins(docs) # {} /\ before(docs) # {} /\ gates(docs) # {}
    /\ \A g \in gates(docs) : g.engine
    /\ \A es \in logins(docs) :
          /\ es.wave > floor(docs)
          /\ \A j \in hook_jobs(docs) : es.name \in secret_names(j) => j.wave >= es.wave
    /\ \A d \in Kind(docs, "VaultDynamicSecret") : d.auth = "tokenSecretRef"

-----------------------------------------------------------------------------
(* check-netpol-before-hooks.py                                            *)

\* Labels are pairs of a key and a value; an empty selector is the default
\* deny of the namespace.
selects(sel, labels) ==
    LET vals == {l[2] : l \in {x \in labels : x[1] = sel.key}}
    IN  CASE sel.operator = "none" -> FALSE
          [] sel.operator \in {"matchLabels", "In"} -> vals \cap sel.values # {}
          [] sel.operator = "NotIn" -> vals \cap sel.values = {}
          [] sel.operator = "Exists" -> vals # {}
          [] sel.operator = "DoesNotExist" -> vals = {}

\* A rule of the policy selects the pod of the Job.
Selected(p, j) == \E sel \in p.selectors : selects(sel, j.labels)

\* Mutant: a policy in the wave of the Job applies in time.
check_same_wave(docs) ==
    \A j \in hook_jobs(docs) : \A p \in Kind(docs, "Policy") :
        p.ns = j.ns /\ Selected(p, j) => p.wave <= j.wave

\* Every policy that names the namespace of a hook Job as the Job does, and
\* has a rule that selects the Job, is in an earlier wave.
check(docs) ==
    \A j \in hook_jobs(docs) : \A p \in Kind(docs, "Policy") :
        p.ns = j.ns /\ Selected(p, j) => p.wave < j.wave

-----------------------------------------------------------------------------
(* The sync.                                                               *)

Waves(docs) == {d.wave : d \in docs}
FirstOf(waves) == {w \in waves : \A v \in waves : w <= v}
\* charts are the renders, each a set of documents.
WaveInit(charts) ==
            /\ chart \in charts /\ waveVerdict = "none"
            /\ waveNow \in FirstOf(Waves(chart))
            /\ healthy = {} /\ engine = FALSE /\ denied = FALSE /\ attempts = 0

WaveGuards == /\ waveVerdict = "none"
              /\ waveVerdict' = IF judge(chart) /\ check(chart) THEN "pass" ELSE "fail"
              /\ UNCHANGED <<chart, waveNow, healthy, engine, denied, attempts>>

\* A render that fails a guard is synced too, by an operator who skips it.
Syncing == waveVerdict # "none" /\ attempts < MAX_RETRIES
InWave == {d \in chart : d.wave = waveNow}
IsHealthy(kind, name) == \E d \in healthy : d.kind = kind /\ d.name = name
AllHealthy(docs) == docs \subseteq healthy

\* The sidecar writes the database engine when the cluster and its superuser
\* Secret exist.
EngineOn == /\ Syncing /\ ~engine /\ AllHealthy(Kind(chart, "Cluster")) /\ Kind(chart, "Cluster") # {}
            /\ engine' = TRUE
            /\ UNCHANGED <<chart, waveVerdict, waveNow, healthy, denied, attempts>>

\* What an object of the wave waits for.
Ready(d) ==
    CASE d.kind = "ExternalSecret" -> engine /\ AllHealthy(before(chart))
      [] d.kind = "Job" ->
            /\ d.name = "postgres-setup" => AllHealthy(Kind(chart, "Cluster"))
            /\ d.engine => engine
            /\ \A s \in d.reads : IsHealthy("ExternalSecret", s)
      [] OTHER -> TRUE

\* The pod of a hook Job starts under the policies that are applied by then;
\* one that comes later, or with it, may be too late for its connections.  An
\* object that names no namespace is in the one of the release.
Namespace(d) == IF d.ns = "" THEN RELEASE ELSE d.ns
Denied(d) == /\ d.kind = "Job" /\ d.hook
             /\ \E p \in Kind(chart, "Policy") :
                   Namespace(p) = Namespace(d) /\ Selected(p, d) /\ p \notin healthy

BecomeHealthy == \E d \in InWave \ healthy :
    /\ Syncing /\ Ready(d)
    /\ healthy' = healthy \cup {d}
    /\ denied' = (denied \/ Denied(d))
    /\ UNCHANGED <<chart, waveVerdict, waveNow, engine, attempts>>

\* An ExternalSecret asks the engine too early: the sync spends a retry.
AskTooEarly == \E d \in InWave \ healthy :
    /\ Syncing /\ d.kind = "ExternalSecret" /\ ~Ready(d)
    /\ attempts' = attempts + 1
    /\ UNCHANGED <<chart, waveVerdict, waveNow, healthy, engine, denied>>

NextWave == /\ Syncing /\ AllHealthy(InWave)
            /\ waveNow' \in FirstOf({w \in Waves(chart) : w > waveNow})
            /\ UNCHANGED <<chart, waveVerdict, healthy, engine, denied, attempts>>

WaveNext == WaveGuards \/ EngineOn \/ BecomeHealthy \/ AskTooEarly \/ NextWave

\* CNPG, the sidecar, the Jobs and Argo go on.
WaveFairness == WF_waveVars(WaveGuards) /\ WF_waveVars(EngineOn) /\ WF_waveVars(BecomeHealthy) /\ WF_waveVars(NextWave)

-----------------------------------------------------------------------------
(* The renders: the golden, a login too early, one too late, a generator   *)
(* on the kubernetes auth, no gate, a gate in the wave of the logins, one  *)
(* that waits for nothing, and the policies of the bringup Jobs.  Beyond   *)
(* the selftests: a gate or a setup Job ahead of the cluster, no cluster,  *)
(* a reader that is no hook or projects the Secret, policies of two rules  *)
(* and of another or no namespace.                                         *)

Component(c) == {<<"component", c>>}
render(esWave, gate, setup, reader, auth, policy) ==
    {Doc("Cluster", "postgres", -7),
     [Doc("Job", "postgres-setup", setup) EXCEPT !.hook = TRUE, !.labels = Component("postgres-setup")],
     Doc("ExternalSecret", "zitadel-login", esWave),
     [Doc("Job", "zitadel-init", reader.wave) EXCEPT !.hook = reader.hook, !.form = reader.form,
          !.reads = {"zitadel-login"}, !.labels = Component("zitadel")],
     [Doc("VaultDynamicSecret", "postgres-login-zitadel", -8) EXCEPT !.auth = auth]} \cup gate \cup policy

Reader(w, h, f) == [wave |-> w, hook |-> h, form |-> f]
INITS == {Reader(-4, TRUE, "volume"), Reader(0, TRUE, "volume")}
Gate(w, e) == {[Doc("Job", "postgres-logins-gate", w) EXCEPT !.engine = e]}
GATES == {{}} \cup {Gate(w, e) : w \in {-8, -6, -5}, e \in BOOLEAN}
Policy(ns, w, sels) == {[Doc("Policy", "bringup-jobs", w) EXCEPT !.ns = ns, !.selectors = sels]}
SetupPods(op) == Sel("component", op, {"postgres-setup"})
POLICIES == {Policy(RELEASE, w, {SetupPods(op)}) :
                w \in {-20, -6, 0}, op \in {"matchLabels", "In", "NotIn", "Exists", "DoesNotExist"}}
            \cup {Policy(ns, w, {Sel("datastore", "matchLabels", {"postgres"}), SetupPods("In")}) :
                    ns \in {RELEASE, "", "gibson-operators"}, w \in {-20, 0}}
            \cup {Policy(RELEASE, 0, {NoSelector})}
EARLY == Policy(RELEASE, -20, {SetupPods("In")})
GOLDEN == render(-5, Gate(-6, TRUE), -6, Reader(-4, TRUE, "volume"), "tokenSecretRef", EARLY)
RENDERS == {render(e, g, -6, j, a, p) : e \in {-8, -5, -4, 0}, g \in GATES, j \in INITS,
                                        a \in {"tokenSecretRef", "kubernetes"}, p \in POLICIES}
           \cup {render(e, Gate(g, TRUE), s, Reader(j, h, f), "tokenSecretRef", EARLY) :
                    e \in {-5, 0}, g \in {-8, -7, -6}, s \in {-8, -7, -6}, j \in {-6, -4, 0}, h \in BOOLEAN,
                    f \in {"volume", "projected"}}
           \cup {GOLDEN \ Kind(GOLDEN, "Cluster")}

-----------------------------------------------------------------------------
(* Properties.                                                             *)

\* The setup Jobs and the gate are not ahead of the cluster that they wait for;
\* floor compares the logins with them and not them with each other.
ClusterFirst(docs) ==
    /\ Kind(docs, "Cluster") # {}
    /\ \A c \in Kind(docs, "Cluster") : \A d \in before(docs) \cup gates(docs) : c.wave <= d.wave
\* Who reads a login is a hook Job and reads it where secret_names looks.
ReadersSeen(docs) == \A j \in Kind(docs, "Job") : j.reads # {} => j.hook /\ secret_names(j) = j.reads
\* A policy and a Job of one namespace both name it, or neither does.
Placed(docs) == \A j \in hook_jobs(docs) : \A p \in Kind(docs, "Policy") :
                    Namespace(p) = Namespace(j) => p.ns = j.ns

\* A sync of a render that both guards pass ends: no wave waits for what a
\* later one makes, and no ExternalSecret spends the retries of the sync.  The
\* exceptions are what the guard does not compare: a setup Job or the gate
\* ahead of the cluster, or none, and a reader of a login that it does not see.
SyncEnds ==
    (waveVerdict = "pass" /\ ClusterFirst(chart) /\ ReadersSeen(chart)) ~> (chart \subseteq healthy)

\* No hook Job of such a render starts before the policy that lets it reach
\* its peers, whichever rule of the policy selects it, unless one of the two
\* leaves its namespace to the release and the other names it.
HooksAllowed == waveVerdict = "pass" /\ Placed(chart) => ~denied
=============================================================================
