---------------------------- MODULE EnvConsumed ----------------------------
(***************************************************************************)
(* check-env-consumed.py: no env var is injected into a first-party        *)
(* container that nothing reads, and the kubelet that builds the env of    *)
(* such a container.  The value of a variable reaches a reader by its own  *)
(* name, through ${NAME} in a file of the chart, or through $(NAME) in a   *)
(* later variable of the same container.                                   *)
(***************************************************************************)
EXTENDS Naturals, Sequences, FiniteSets

VARIABLES eTree, ePassed, eContainer, eDefined, eCarries, eRead

envVars == <<eTree, ePassed, eContainer, eDefined, eCarries, eRead>>

----------------------------------------------------------------------------
(* A tree is its containers, the vendored reader sets, the ${NAME} lines of *)
(* its chart files, its exemptions, and what the guard does not see: the    *)
(* names that the process of an image reads, and the image that loads the   *)
(* file of a line.  An env entry is its name and the names its value        *)
(* substitutes with $(NAME).                                                *)

OURS == "ghcr.io/zeroroot-ai/"
NEVER_INJECTED == {"GIBSON_IDENTITY_FRESHNESS_SKEW_SEC"}
RUNTIME_CONSUMED == {"NODE_OPTIONS", "TZ"}
IMAGE_SERVICE == [gibson |-> "gibson", dashboard |-> "dashboard"]
UNGOVERNED == {"zitadel-login"}

NoContainer == [registry |-> "", image |-> "", env |-> <<>>]

Names(c) == {c.env[i].name : i \in DOMAIN c.env}

FIRST_PARTY(c) == c.registry = OURS

readers(t, svc) == IF svc \in DOMAIN t.readers THEN t.readers[svc] ELSE {}


(* ${NAME} in any chart file, outside a whole-line or a Helm comment; one   *)
(* after a value on its line counts.                                        *)
expansion_refs(t) == {l.name : l \in {x \in t.lines : x.comment \in {"none", "trailing"}}}

(* $(NAME) in the env list of this container. *)
container_expansions(c) == UNION {c.env[i].subs : i \in DOMAIN c.env}

load_exemptions(t) == t.exempt

Governed(t, c) == FIRST_PARTY(c) /\ c.image \in DOMAIN IMAGE_SERVICE
                  /\ readers(t, IMAGE_SERVICE[c.image]) # {}

Unread(t, c) == {n \in Names(c) \ NEVER_INJECTED :
                   /\ n \notin readers(t, IMAGE_SERVICE[c.image])
                   /\ n \notin expansion_refs(t) \cup container_expansions(c)
                   /\ n \notin RUNTIME_CONSUMED}

Judged(t) == {c \in t.containers : Governed(t, c)}

fail(t) == UNION {{<<c.image, n>> : n \in Names(c) \cap NEVER_INJECTED}
                  \cup ({<<c.image, n>> : n \in Unread(t, c)} \ load_exemptions(t))
                  : c \in Judged(t)}

stale(t) == load_exemptions(t)
            \ UNION {{<<c.image, n>> : n \in Unread(t, c)} : c \in Judged(t)}

notes(t) == {c.image : c \in {x \in t.containers : FIRST_PARTY(x) /\ ~Governed(t, x)
                                                   /\ x.image \notin UNGOVERNED}}

violations(t) == fail(t) # {} \/ stale(t) # {} \/ notes(t) # {}

----------------------------------------------------------------------------
(* The kubelet defines the entries in order; a value that substitutes       *)
(* $(NAME) of an entry defined before carries that value too.               *)

\* trees are the trees that the guard is run on.
EnvInit(trees) ==
           /\ eTree \in trees
           /\ ePassed = "unread" /\ eContainer = NoContainer
           /\ eDefined = 0 /\ eCarries = [n \in {} |-> {}] /\ eRead = {}

EnvGuardRuns ==
    /\ ePassed = "unread"
    /\ IF violations(eTree)
       THEN ePassed' = "fail" /\ UNCHANGED eContainer
       ELSE ePassed' = "pass" /\ eContainer' \in eTree.containers
    /\ UNCHANGED <<eTree, eDefined, eCarries, eRead>>

DefineEntry ==
    /\ ePassed = "pass" /\ eDefined < Len(eContainer.env)
    /\ LET e == eContainer.env[eDefined + 1]
           carried == {e.name} \cup UNION {eCarries[s] : s \in e.subs \cap DOMAIN eCarries}
       IN eCarries' = [n \in DOMAIN eCarries \cup {e.name} |->
                         IF n = e.name THEN carried ELSE eCarries[n]]
    /\ eDefined' = eDefined + 1
    /\ UNCHANGED <<eTree, ePassed, eContainer, eRead>>

(* The process, its runtime or the loader of its own config file reads a    *)
(* name.                                                                    *)
Reads(n) ==
    \/ eContainer.image \in DOMAIN eTree.code /\ n \in eTree.code[eContainer.image]
    \/ n \in RUNTIME_CONSUMED
    \/ \E l \in eTree.lines : l.name = n /\ l.comment = "none" /\ l.loader = eContainer.image

ReadVar ==
    /\ ePassed = "pass" /\ eDefined = Len(eContainer.env)
    /\ \E n \in Names(eContainer) :
         /\ Reads(n)
         /\ eRead' = eRead \cup eCarries[n]
         /\ eRead' # eRead
    /\ UNCHANGED <<eTree, ePassed, eContainer, eDefined, eCarries>>

EnvNext == EnvGuardRuns \/ DefineEntry \/ ReadVar

EnvFairness == WF_envVars(EnvGuardRuns) /\ WF_envVars(DefineEntry) /\ WF_envVars(ReadVar)

----------------------------------------------------------------------------
(* The fixtures of the selftest, with the entries of a container dropped    *)
(* one by one and each reader set, chart file and exemption of a case; and  *)
(* what the guard counts as a reader though it is none here.                *)

Var(n) == [name |-> n, subs |-> {}]
DSN == [name |-> "DSN", subs |-> {"GIBSON_SUBSTITUTED"}]
FIXTURE == <<Var("GIBSON_READS_THIS"), Var("GIBSON_EXPANDED"), Var("GIBSON_SUBSTITUTED"),
             Var("GIBSON_DEAD"), Var("NODE_OPTIONS"), DSN,
             Var("GIBSON_IDENTITY_FRESHNESS_SKEW_SEC")>>
DROPPED == {"GIBSON_EXPANDED", "GIBSON_SUBSTITUTED", "GIBSON_DEAD", "DSN",
            "GIBSON_IDENTITY_FRESHNESS_SKEW_SEC"}
Kept(drop) == SelectSeq(FIXTURE, LAMBDA e : e.name \notin drop)
\* The DSN stands before the entry that it substitutes.
DsnFirst(env) == <<DSN>> \o SelectSeq(env, LAMBDA e : e # DSN)

Container(image, env) == [registry |-> OURS, image |-> image, env |-> env]
OTHERS == {[registry |-> "docker.io/library/", image |-> "redis",
            env |-> <<Var("THIRD_PARTY_ONLY")>>],
           Container("zitadel-login", <<Var("ZITADEL_WHATEVER")>>)}
PLUGIN == Container("acme-plugin", <<Var("PLUGIN_UNREAD")>>)
REFERENCER == Container("gibson", <<[name |-> "DSN", subs |-> {"GIBSON_DEAD"}]>>)

\* The last set has a name that another image of the service reads.
CODE == {"GIBSON_READS_THIS", "DSN"}
READERS == {[gibson |-> CODE], [gibson |-> CODE \cup NEVER_INJECTED],
            [gibson |-> CODE \cup {"GIBSON_DEAD"}]}

Expanded(k, by) == {[name |-> "GIBSON_EXPANDED", comment |-> k, loader |-> by]}
CHART_LINES == {{}} \cup {Expanded(k, "gibson") : k \in {"none", "line", "helm", "trailing"}}
               \cup {Expanded("none", "dashboard")}

EXEMPTIONS == SUBSET {<<"gibson", "GIBSON_DEAD">>, <<"gibson", "GONE_AWAY">>}
              \cup {{<<"gibson", "GIBSON_IDENTITY_FRESHNESS_SKEW_SEC">>}, {<<"gibson", "DSN">>}}

TREES == {[containers |-> {Container("gibson", c)} \cup more,
           readers |-> r, lines |-> ls, exempt |-> x, code |-> [gibson |-> CODE]] :
             c \in {Kept(drop) : drop \in SUBSET DROPPED} \cup {DsnFirst(Kept({"GIBSON_DEAD"} \cup NEVER_INJECTED))},
             more \in {OTHERS, {PLUGIN}, {REFERENCER}},
             r \in READERS, ls \in CHART_LINES, x \in EXEMPTIONS}
         \cup {[containers |-> {Container("gibson", Kept({"GIBSON_DEAD"} \cup NEVER_INJECTED))},
                readers |-> [gibson |-> {"GIBSON_READS_THIS"}], lines |-> Expanded("none", "gibson"),
                exempt |-> {<<"gibson", "DSN">>}, code |-> [gibson |-> {"GIBSON_READS_THIS"}]]}

----------------------------------------------------------------------------
(* Readers that are none.  The guard takes a reader set for every image of  *)
(* its service, a ${NAME} of any chart file and after any value, and a      *)
(* $(NAME) in an entry that stands before the one it names.                 *)
Overcounted(t, c, n) ==
    \/ n \in readers(t, IMAGE_SERVICE[c.image]) /\ n \notin t.code[c.image]
    \/ \E l \in t.lines : l.name = n /\ (l.comment = "trailing" \/ (l.comment = "none" /\ l.loader # c.image))
    \/ \E i, j \in DOMAIN c.env : i < j /\ c.env[j].name = n /\ n \in c.env[i].subs

(* Where the guard passes, the value of every variable of a governed        *)
(* container is read in the end, by its name or through a variable that     *)
(* carries it, unless the variable or one that carries it is exempt or has  *)
(* only readers that the guard counts too many; and the replay bound of the *)
(* Envoy hop is never injected (check-env-consumed.py violations).          *)
EnvReachesReader ==
    <>[](ePassed = "pass" /\ Governed(eTree, eContainer) =>
           \A n \in Names(eContainer) :
             /\ n \notin NEVER_INJECTED
             /\ \/ n \in eRead
                \/ \E m \in DOMAIN eCarries :
                     /\ n \in eCarries[m]
                     /\ <<eContainer.image, m>> \in eTree.exempt \/ Overcounted(eTree, eContainer, m))
=============================================================================
