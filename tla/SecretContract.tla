--------------------------- MODULE SecretContract ---------------------------
(***************************************************************************)
(* scripts/check-secret-contract.py and scripts/check-secret-plumbing.py,  *)
(* and the install of a render that both pass: keys are seeded into        *)
(* OpenBao, ExternalSecrets, Certificates and recorded producers write     *)
(* Secrets, and a pod starts when each Secret that it names exists.        *)
(*                                                                         *)
(* A tree is [secrets, external, certs, workloads, contract, opprod,       *)
(* producers, shared, seeded, targets, exempt]:                            *)
(*   external   [name, target, key, policy]   certs   [name, target]       *)
(*   workloads  [name, refs, writes]          a write [how, name, held]    *)
(*   contract   [name, producer, consumers]   opprod  [name, consumers]    *)
(*   producers  [name, writer, text]          shared  names of Secrets     *)
(* held says where a script has the name of the Secret that it writes: in  *)
(* the word, in a variable of the script, in the env, or nowhere to see.   *)
(* text is the workloads whose names stand in the entry of a producer,     *)
(* under its writer or in its reason.                                      *)
(* A consumer is <<marker, target>>; an exemption <<assertion, name>>.     *)
(***************************************************************************)
EXTENDS Naturals, FiniteSets

VARIABLES tree, bao, written, started

secretVars == <<tree, bao, written, started>>

HOSTED == {"gitops", "staging"}

(***************************************************************************)
(* check-secret-contract.py                                                *)
(***************************************************************************)
Names(entries) == {e.name : e \in entries}

remote_ref_keys(t) == {e.key : e \in t.external}

\* Secrets that an object names: a workload, an operator's resource.
mounted_names(t) == UNION {w.refs : w \in t.workloads}

declared(t) == Names(t.contract) \cup Names(t.opprod) \cup Names(t.producers)

Elsewhere(e) == \E c \in e.consumers : c[1] \in HOSTED \cup {"runtime"}
Gates(e) == {c[2] : c \in {c \in e.consumers : c[1] = "chart-gate"}}

\* Every assertion that fails, before the exemptions.
assertions(t) ==
    {<<"forward", k>> : k \in remote_ref_keys(t) \ declared(t)}
    \cup {<<"producer", e.name>> : e \in {e \in t.contract : e.producer = "openbao-seeder" /\ e.name \notin t.seeded}}
    \cup {<<"viceversa", k>> : k \in t.seeded \ declared(t)}
    \cup {<<"consumer", e.name>> : e \in {e \in t.contract :
            /\ e.name \notin remote_ref_keys(t)
            /\ ~(Gates(e) \subseteq t.targets) \/ ~(Gates(e) # {} \/ Elsewhere(e))}}
    \cup {<<"opprod", e.name>> : e \in {e \in t.opprod :
            e.name \notin remote_ref_keys(t) \cup mounted_names(t) /\ ~Elsewhere(e)}}

violations(t) ==
    IF remote_ref_keys(t) = {} \/ t.seeded = {} THEN {<<"blind", "">>}
    ELSE (assertions(t) \ t.exempt) \cup {<<"stale exemption", x[2]>> : x \in t.exempt \ assertions(t)}

(***************************************************************************)
(* check-secret-plumbing.py                                                *)
(***************************************************************************)
\* kubectl apply of a Secret is not a word that the expression looks for,
\* although the docstring (lines 14-16) counts it.
WRITE == {"create", "patch", "replace"}

Seen(w) == {x \in w.writes : x.how \in WRITE}
written_secrets(w) == {x.name : x \in {x \in Seen(w) : x.held # "unresolved"}}
unresolved(w) == {x.name : x \in {x \in Seen(w) : x.held = "unresolved"}}

judge_writers(t) ==
    UNION {{<<"unresolved writer", s>> : s \in unresolved(w)}
           \cup {<<"unrecorded writer", s>> : s \in written_secrets(w) \ Names(t.producers)}
           \cup {<<"unnamed writer", p.name>> : p \in {p \in t.producers :
                    p.name \in written_secrets(w) /\ w.name \notin p.text}} : w \in t.workloads}

\* The writers of a Secret that the render shows, the one that an
\* ExternalSecret that is not Owner leaves room for included.
Writers(t, s) ==
    {<<"Secret", n>> : n \in t.secrets \cap {s}}
    \cup {<<"ExternalSecret", e.name>> : e \in {e \in t.external : e.target = s}}
    \cup {<<"outside", e.name>> : e \in {e \in t.external : e.target = s /\ e.policy # "Owner"}}
    \cup {<<"Certificate", c.name>> : c \in {c \in t.certs : c.target = s}}
    \cup {<<"workload", w.name>> : w \in {w \in t.workloads : s \in written_secrets(w)}}

rendered(t) == t.secrets \cup {e.target : e \in t.external} \cup {c.target : c \in t.certs}
AllSecrets(t) == rendered(t) \cup UNION {written_secrets(w) : w \in t.workloads}

\* Mutant: no rule about a second writer.
judge_one_writer_none(t) == {}

judge_one_writer(t) ==
    {<<"two writers", s>> : s \in {s \in AllSecrets(t) \ t.shared : Cardinality(Writers(t, s)) > 1}}
    \cup {<<"stale sharedWriters", s>> : s \in {s \in t.shared : Cardinality(Writers(t, s)) < 2}}

references(t) == UNION {w.refs : w \in t.workloads}

\* Mutant: a Secret that nothing writes is not reported.
dangling_never(t) == {}

dangling(t) == {<<"dangling", s>> : s \in references(t) \ (rendered(t) \cup Names(t.producers))}

judge(t) ==
    dangling(t)
    \cup {<<"stale producer", s>> : s \in Names(t.producers) \cap rendered(t)}
    \cup {<<"no writer", p.name>> : p \in {p \in t.producers : p.writer = ""}}
    \cup judge_writers(t)

Passes(t) == violations(t) = {} /\ judge(t) = {} /\ judge_one_writer(t) = {}

(***************************************************************************)
(* The trees of the selftests: a tree that passes and the edits of it.     *)
(***************************************************************************)
es(n, t, k, p) == [name |-> n, target |-> t, key |-> k, policy |-> p]
Entry(n, p, c) == [name |-> n, producer |-> p, consumers |-> c]
Workload(n, r, w) == [name |-> n, refs |-> r, writes |-> w]
Write(how, n, held) == [how |-> how, name |-> n, held |-> held]
Producer(n, w, t) == [name |-> n, writer |-> w, text |-> t]
Shipped == [secrets |-> {"s2"}, external |-> {es("e1", "s1", "k1", "Owner"), es("e6", "s6", "k2", "Owner")}, certs |-> {[name |-> "c", target |-> "s3"]},
  workloads |-> {Workload("app", {"s1", "s2", "s3", "s4", "s5", "s6"}, {}), Workload("rotator", {"s1"}, {Write("create", "s5", "local")})},
  contract |-> {Entry("k1", "openbao-seeder", {<<"chart", "x">>}), Entry("k2", "operator-supplied", {<<"gitops", "arc">>})},
  opprod |-> {}, producers |-> {Producer("s4", "an operator", {}), Producer("s5", "rotator", {"rotator"})},
  shared |-> {}, seeded |-> {"k1"}, targets |-> {"cg-rotation-window"}, exempt |-> {}]

edit(t, e) ==
  CASE e = "none" -> t
    [] e = "typo" -> [t EXCEPT !.workloads = @ \cup {Workload("other", {"typo"}, {})}]
    [] e = "stale producer" -> [t EXCEPT !.producers = @ \cup {Producer("s2", "stale", {})}]
    [] e = "bare producer" -> [t EXCEPT !.producers = @ \cup {Producer("s7", "", {})}]
    [] e = "both" -> [t EXCEPT !.external = @ \cup {es("e2", "s2", "k1", "Owner")}]
    [] e = "orphan" -> [t EXCEPT !.external = @ \cup {es("e7", "s7", "k1", "Orphan")}]
    [] e = "shared s2" -> [t EXCEPT !.shared = @ \cup {"s2"}]
    [] e = "unrecorded" -> [t EXCEPT !.producers = {p \in @ : p.name # "s5"}]
    [] e = "unnamed" -> [t EXCEPT !.producers = {IF p.name = "s5" THEN Producer("s5", "some other job", {}) ELSE p : p \in @}]
    [] e = "reason" -> [t EXCEPT !.producers = {IF p.name = "s4" THEN [p EXCEPT !.text = {"rotator"}] ELSE p : p \in @}]
    [] e = "rotator too" -> [t EXCEPT !.workloads = {IF w.name = "rotator" THEN [w EXCEPT !.writes = @ \cup {Write("patch", "s4", "word")}] ELSE w : w \in @}]
    [] e = "waits for itself" -> [t EXCEPT !.workloads = {IF w.name = "rotator" THEN [w EXCEPT !.refs = @ \cup {"s5"}] ELSE w : w \in @}]
    [] e = "program" -> [t EXCEPT !.producers = @ \cup {Producer("s12", "app", {"app"})}, !.workloads = @ \cup {Workload("reader12", {"s12"}, {})}]
    [] e = "apply" -> [t EXCEPT !.workloads = @ \cup {Workload("applier", {}, {Write("apply", "s2", "word")})}]
    [] e = "unresolved" -> [t EXCEPT !.workloads = @ \cup {Workload("blind", {}, {Write("create", "s5", "unresolved")})}]
    [] e = "env writer" -> [t EXCEPT !.workloads = @ \cup {Workload("second", {"s3"}, {Write("patch", "s8", "env")})}, !.producers = @ \cup {Producer("s8", "second", {"second"})}]
    [] e = "rogue" -> [t EXCEPT !.external = @ \cup {es("rogue", "s9", "never-declared", "Owner")}]
    [] e = "reads rogue" -> [t EXCEPT !.workloads = @ \cup {Workload("reader", {"s9"}, {})}]
    [] e = "claims seeder" -> [t EXCEPT !.contract = @ \cup {Entry("k3", "openbao-seeder", {<<"runtime", "y">>})}]
    [] e = "reads k3" -> [t EXCEPT !.external = @ \cup {es("e3", "s10", "k3", "Owner")}, !.workloads = @ \cup {Workload("reader3", {"s10"}, {})}]
    [] e = "undeclared seed" -> [t EXCEPT !.seeded = @ \cup {"k4"}]
    [] e = "ghost gate" -> [t EXCEPT !.contract = @ \cup {Entry("k5", "operator-supplied", {<<"chart-gate", "no-such-target">>})}]
    [] e = "window" -> [t EXCEPT !.contract = @ \cup {Entry("k6", "operator-supplied", {<<"chart-gate", "cg-rotation-window">>})}]
    [] e = "opprod unused" -> [t EXCEPT !.opprod = @ \cup {[name |-> "o1", consumers |-> {}]}]
    [] e = "reads o1" -> [t EXCEPT !.external = @ \cup {es("e8", "s11", "o1", "Owner")}, !.workloads = @ \cup {Workload("reader8", {"s11"}, {})}]
    [] e = "exempt opprod" -> [t EXCEPT !.exempt = @ \cup {<<"opprod", "o1">>}]
    [] e = "blind" -> [t EXCEPT !.seeded = {}]

EDITS ==
    {"none", "typo", "stale producer", "bare producer", "both", "orphan", "shared s2",
     "unrecorded", "unnamed", "reason", "rotator too", "waits for itself", "program", "apply", "unresolved", "env writer", "rogue", "reads rogue",
     "claims seeder", "reads k3", "undeclared seed", "ghost gate", "window", "opprod unused",
     "reads o1", "exempt opprod", "blind"}

Fixtures == {edit(edit(Shipped, a), b) : a \in EDITS, b \in EDITS}

(***************************************************************************)
(* The install (external): what each writer does with its Secret.          *)
(* written[s] is the set of the writers that wrote s.                      *)
(***************************************************************************)
SecretInit(trees) ==
    /\ tree \in trees
    /\ bao = {} /\ started = {}
    /\ written = [s \in AllSecrets(tree) \cup references(tree) \cup Names(tree.producers)
                        \cup UNION {{x.name : x \in w.writes} : w \in tree.workloads} |-> {}]

WriteAs(s, writer) ==
    /\ writer \notin written[s]
    /\ written' = [written EXCEPT ![s] = @ \cup {writer}]

Exists(s) == written[s] # {}

\* The seeder mints the keys of its table; another producer of the contract
\* writes its own.
SeedKey ==
    /\ Passes(tree)
    /\ \E k \in (tree.seeded \cup {e.name : e \in {e \in tree.contract : e.producer # "openbao-seeder"}}) \ bao :
          bao' = bao \cup {k}
    /\ UNCHANGED <<tree, written, started>>

RenderedSecret ==
    /\ Passes(tree) /\ \E s \in tree.secrets : WriteAs(s, <<"Secret", s>>)
    /\ UNCHANGED <<tree, bao, started>>

SyncExternal ==
    /\ Passes(tree) /\ \E e \in tree.external : e.key \in bao /\ WriteAs(e.target, <<"ExternalSecret", e.name>>)
    /\ UNCHANGED <<tree, bao, started>>

IssueCert ==
    /\ Passes(tree) /\ \E c \in tree.certs : WriteAs(c.target, <<"Certificate", c.name>>)
    /\ UNCHANGED <<tree, bao, started>>

\* A recorded producer, and where it is a workload of the render, its program
\* when it runs.
Within(t, p) == p.writer \in {w.name : w \in t.workloads}
Recorded(t, p) == <<IF Within(t, p) THEN "workload" ELSE "runtime", p.writer>>
ProducerWrites ==
    /\ Passes(tree)
    /\ \E p \in tree.producers : (Within(tree, p) => p.writer \in started) /\ WriteAs(p.name, Recorded(tree, p))
    /\ UNCHANGED <<tree, bao, started>>

StartPod ==
    /\ Passes(tree)
    /\ \E w \in tree.workloads : w.name \notin started /\ (\A s \in w.refs : Exists(s)) /\ started' = started \cup {w.name}
    /\ UNCHANGED <<tree, bao, written>>

ScriptWrites ==
    /\ \E w \in tree.workloads : w.name \in started /\ \E x \in w.writes : WriteAs(x.name, <<"workload", w.name>>)
    /\ UNCHANGED <<tree, bao, started>>

SecretNext ==
    \/ SeedKey \/ RenderedSecret \/ SyncExternal \/ IssueCert \/ ProducerWrites \/ StartPod \/ ScriptWrites

SecretFairness == WF_secretVars(SecretNext)

(***************************************************************************)
(* Properties of an install that both guards passed with no exemption.     *)
(***************************************************************************)
Clean == Passes(tree) /\ tree.exempt = {}

\* Neither guard asks whether a key under operator_produced or producers is
\* minted in OpenBao: FORWARD takes the name for declared.
Minted(t) == remote_ref_keys(t) \subseteq Names(t.contract) \cup t.seeded

\* Workloads each of which needs a Secret that only they write.
WrittenBy(t, ws) == UNION {{x.name : x \in w.writes} : w \in ws}
                    \cup {p.name : p \in {p \in t.producers : p.writer \in {w.name : w \in ws}}}
Outside(t, ws) == rendered(t) \cup WrittenBy(t, t.workloads \ ws)
                  \cup {p.name : p \in {p \in t.producers : ~Within(t, p)}}
WaitsForItself(t) ==
    \E ws \in SUBSET t.workloads \ {{}} : \A w \in ws : w.refs \cap (WrittenBy(t, ws) \ Outside(t, ws)) # {}

\* "no dangling Secret reference" (plumbing, line 2) down to OpenBao: every pod
\* starts, because each Secret it names is written and each key that an
\* ExternalSecret reads is minted.  It is false where an ExternalSecret reads a
\* key that is declared and that nothing mints, and where workloads wait for each
\* other's Secrets, which the guards do not look for.
PodsStart ==
    Clean /\ Minted(tree) /\ ~WaitsForItself(tree)
      => <>(started = {w.name : w \in tree.workloads})

\* Secrets that a script writes in words that the guard does not know, and
\* Secrets whose entry names, anywhere in its text, a workload that is not its
\* writer: the test of line 117 takes the name of any of them for the writer.
Unseen(t) == {x.name : x \in {x \in UNION {w.writes : w \in t.workloads} : x.how \notin WRITE}}
Misnamed(t) == {p.name : p \in {p \in t.producers : p.text \ {p.writer} # {}}}

\* "a Secret has exactly one writer" (plumbing, line 143): no Secret is ever
\* written by a second writer, at whatever moment the writers run, other than
\* one that is listed as shared, is written in words that the guard does not
\* know, or whose entry names a workload that is not its writer.
OneWriter == Clean =>
    \A s \in DOMAIN written \ (tree.shared \cup Unseen(tree) \cup Misnamed(tree)) :
        Cardinality(written[s]) <= 1
=============================================================================
