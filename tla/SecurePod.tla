----------------------------- MODULE SecurePod -----------------------------
(***************************************************************************)
(* scripts/check-secure-pod.py: the six rules of a secure pod over every   *)
(* render, and the exceptions file that may cover a finding.               *)
(*                                                                         *)
(* A render is [workloads, accounts, levels, rules, kube, clusters]:       *)
(*   workloads : [kind, ns, name, app, labels, spec], app the value of     *)
(*               app.kubernetes.io/name on the workload                    *)
(*   accounts  : [ns, name, automount] of the ServiceAccounts              *)
(*   levels    : <<namespace, enforce label>> of the rendered Namespaces   *)
(*   rules     : the rules of the Cilium policies                          *)
(*   kube      : [name, ns, sel] of the Kubernetes NetworkPolicies         *)
(*   clusters  : [ns, labels] of the CNPG Clusters                         *)
(* A setting is "true", "false" or "" (not set).                           *)
(***************************************************************************)
EXTENDS CiliumPolicy

NAMESPACE == "gibson"
PodKinds == {"Deployment", "StatefulSet", "DaemonSet", "Job", "CronJob", "Pod"}
NET_ROLES == {"platform", "datastore", "system"}
SPIRE_NODE == {<<"DaemonSet", "agent">>, <<"DaemonSet", "spiffe-csi-driver">>}
VOLUMES == {"configMap", "csi", "downwardAPI", "emptyDir", "ephemeral",
            "persistentVolumeClaim", "projected", "secret"}
LEVELS == <<"privileged", "baseline", "restricted">>

workloads(docs) == {w \in docs.workloads : w.kind \in PodKinds}
ns_of(d) == IF d.ns = "" THEN NAMESPACE ELSE d.ns
Id(w) == <<w.kind, ns_of(w), w.name>>

(***************************************************************************)
(* The rules on the pod spec: [host, volumes, sysctls, nonRoot, seccomp,   *)
(* bad, root, sa, automount, sources, containers].  bad holds what a       *)
(* context sets outside the standard (seLinuxOptions, procMount, AppArmor, *)
(* hostProcess, hostPort), root says whether runAsUser is 0.               *)
(***************************************************************************)
or_else(own, pod) == IF own # "" THEN own ELSE pod

rule_restricted(spec) ==
    {<<"pod", f>> : f \in spec.host \cup (spec.volumes \ VOLUMES) \cup spec.sysctls}
    \cup {<<"pod", f>> : f \in spec.bad \cap {"hostProcess"}}
    \cup UNION {
        {<<c.name, f>> : f \in c.bad \cup (spec.bad \ {"hostProcess"}) \cup (c.add \ {"NET_BIND_SERVICE"})}
        \cup {<<c.name, f[1]>> : f \in {f \in
              {<<"privileged", c.privileged = "true">>, <<"escalation", c.escalation # "false">>,
               <<"capabilities", ~c.dropAll>>,
               <<"runAsNonRoot", or_else(c.nonRoot, spec.nonRoot) # "true">>,
               <<"runAsUser", or_else(c.root, spec.root) = "true">>,
               <<"seccomp", or_else(c.seccomp, spec.seccomp) \notin {"RuntimeDefault", "Localhost"}>>} :
              f[2]}} : c \in spec.containers}

rule_read_only(spec) ==
    {<<c.name, "readOnlyRootFilesystem">> : c \in {c \in spec.containers : c.readOnly # "true"}}

\* The pod decides over its ServiceAccount, which mounts a token unless it says no.
rule_token(w, accounts, granted) ==
    LET sa == IF w.spec.sa = "" THEN "default" ELSE w.spec.sa
        own == {a.automount : a \in {a \in accounts : ns_of(a) = ns_of(w) /\ a.name = sa}}
        says == IF w.spec.automount # "" THEN {w.spec.automount} ELSE own
    IN  IF ("false" \notin says \/ "token" \in w.spec.sources) /\ <<ns_of(w), sa>> \notin granted
          THEN {<<"pod", "token">>} ELSE {}

rule_image(spec) ==
    {<<c.name, "registry">> : c \in {c \in spec.containers : c.registry # "ghcr.io/zeroroot-ai"}}
    \cup {<<c.name, "digest">> : c \in {c \in spec.containers : ~c.digest}}

(***************************************************************************)
(* Rule 4, on all the pods of a render.                                    *)
(***************************************************************************)
\* Ingress with no peer, egress to DNS alone.
is_default_deny(rule) ==
    /\ "false" \notin {rule.deny.ingress, rule.deny.egress}
    /\ \A i \in rule.ingress : i.entities = {} /\ i.endpoints = {} /\ i.cidrs = {}
    /\ rule.egress # {}
    /\ \A e \in rule.egress :
          /\ e.entities = {} /\ e.cidrs = {} /\ e.fqdns = {} /\ e.ports = {53}
          /\ e.endpoints # {}
          /\ \A s \in e.endpoints : \E m \in s.match : norm(m[1]) = "k8s-app" /\ m[2] = "kube-dns"
    /\ rule.ingress # {} \/ rule.deny.ingress = "true"

NetPods(docs) == {w \in workloads(docs) : "hostNetwork" \notin w.spec.host}

stores(docs) ==
    UNION {{<<endpoint(ns_of(d), d.labels), s>> : s \in Values(d.labels, "datastore")} :
        d \in {[ns |-> ns_of(w), labels |-> w.labels] : w \in NetPods(docs)} \cup docs.clusters}

MayUse(labels, store) ==
    <<"datastore", store>> \in labels \/ <<"client-" \o store, "true">> \in labels

network_findings(docs, w) ==
    LET ep == endpoint(ns_of(w), w.labels)
        mine == {r \in docs.rules : rule_selects(r, ep)}
        covered == \E r \in mine : is_default_deny(r)
        internet == <<"egress-internet", "true">> \in w.labels
        denied == {s \in stores(docs) : ~MayUse(w.labels, s[2])}
    IN  IF w \notin NetPods(docs) THEN {} ELSE
        (IF ~covered THEN {<<"default deny", ns_of(w)>>}
         ELSE {<<"NetworkPolicy", p.name>> :
                  p \in {p \in docs.kube : ns_of(p) = ns_of(w) /\ selects(p.sel, w.labels)}}
              \cup {<<"net-role", "missing">> : x \in {x \in {1} :
                      Values(w.labels, "net-role") \cap NET_ROLES = {}}}
              \cup {<<"datastore", "missing">> : x \in {x \in {1} :
                      <<"net-role", "datastore">> \in w.labels /\ Values(w.labels, "datastore") = {}}})
        \cup {<<"internet", r.policy>> : r \in {r \in mine : egress_world(r) /\ ~internet}}
        \cup {<<"host names", r.policy>> : r \in {r \in mine : ~egress_world(r) /\ egress_fqdn(r)
                  /\ ~internet /\ Values(w.labels, "egress-fqdn") = {}}}
        \cup UNION {{<<"reaches " \o s[2], r.policy>> :
                        r \in {r \in mine : egress_reaches(r, s[1], AnyPort)}} : s \in denied}
        \cup UNION {{<<"admitted to " \o s[2], r.policy>> :
                        r \in {r \in docs.rules : rule_selects(r, s[1])
                                                  /\ ingress_admits(r, ep, AnyPort)}} : s \in denied}

(***************************************************************************)
(* The audit of all the renders.                                           *)
(***************************************************************************)
\* The weakest level that a line of the install script names, "" for none.
Rank(level) == IF \E i \in 1..3 : LEVELS[i] = level
                 THEN CHOOSE i \in 1..3 : LEVELS[i] = level ELSE 0

\* Mutant: the first label of the install script decides.
install_enforce_label_first(script) == IF script = <<>> THEN "" ELSE script[1]

install_enforce_label(script) ==
    IF script = <<>> THEN "" ELSE
    CHOOSE l \in {script[i] : i \in DOMAIN script} :
        \A i \in DOMAIN script : Rank(l) <= Rank(script[i])

Release == <<<<"Namespace", "", NAMESPACE>>, "namespace-label">>

\* Triples of a workload, a rule and a finding, over every render.
all_findings(renders, granted, release_label) ==
    UNION {LET used == {ns_of(w) : w \in workloads(docs)}
               level(ns) == {l[2] : l \in {l \in docs.levels : l[1] = ns}}
               unlabelled == {ns \in used :
                   IF level(ns) # {} THEN "restricted" \notin level(ns)
                   ELSE ns # NAMESPACE \/ release_label # "restricted"}
           IN  UNION {{<<Id(w), "restricted", f>> : f \in rule_restricted(w.spec)}
                      \cup {<<Id(w), "read-only", f>> : f \in rule_read_only(w.spec)}
                      \cup {<<Id(w), "token", f>> : f \in rule_token(w, docs.accounts, granted)}
                      \cup {<<Id(w), "network", f>> : f \in network_findings(docs, w)}
                      \cup {<<Id(w), "image", f>> : f \in rule_image(w.spec)} : w \in workloads(docs)}
               \cup {<<<<"Namespace", "", ns>>, "namespace-label",
                      <<"label", IF level(ns) = {} /\ ns # NAMESPACE THEN "not rendered" ELSE "weak">>>> :
                      ns \in unlabelled} : docs \in renders}

\* The findings of each <workload> <rule>; the digest of a set stands for it.
findings(renders, granted, release_label) ==
    LET all == all_findings(renders, granted, release_label)
    IN  [k \in {<<f[1], f[2]>> : f \in all} |->
            {f[3] : f \in {f \in all : <<f[1], f[2]>> = k}}]

digest(items) == items

\* The namespace rules that no entry covers.
no_entry_findings(renders, found, listed, spire_ns) ==
    {<<"no entry", Release[1]>> : x \in {x \in {1} : Release \in DOMAIN found \cup DOMAIN listed}}
    \cup {<<"spire", Id(w)>> : w \in {w \in UNION {workloads(docs) : docs \in renders} :
             /\ spire_ns # "" /\ ns_of(w) = spire_ns
             /\ <<w.kind, w.app>> \notin SPIRE_NODE}}

\* Mutant: an entry covers its key whatever its digest.
audit_keys(renders, exceptions, granted, release_label, spire_ns) ==
    LET found == findings(renders, granted, release_label)
    IN  no_entry_findings(renders, found, exceptions.pods, spire_ns)
        \cup {<<"finding", k[1]>> : k \in (DOMAIN found \ DOMAIN exceptions.pods) \ {Release}}
        \cup {<<"stale", k[1]>> : k \in (DOMAIN exceptions.pods \ DOMAIN found) \ {Release}}

\* exceptions is [pods, runtime]: the digest of each listed key, and the
\* workloads that create a pod at run time.
audit(renders, exceptions, granted, release_label, spire_ns) ==
    LET found == findings(renders, granted, release_label)
        listed == exceptions.pods
        rendered == UNION {{Id(w) : w \in workloads(docs)} : docs \in renders}
    IN  IF rendered = {} THEN {<<"blind", <<"", "", "">>>>} ELSE
        no_entry_findings(renders, found, listed, spire_ns)
        \cup {<<"finding", k[1]>> : k \in (DOMAIN found \ DOMAIN listed) \ {Release}}
        \cup {<<"changed", k[1]>> : k \in {k \in (DOMAIN found \cap DOMAIN listed) \ {Release} :
                 listed[k] # digest(found[k])}}
        \cup {<<"stale", k[1]>> : k \in (DOMAIN listed \ DOMAIN found) \ {Release}}
        \cup {<<"stale runtime", by>> : by \in exceptions.runtime \ rendered}

\* The entries that --entries prints for a render.
entries(renders, granted, release_label) ==
    LET found == findings(renders, granted, release_label)
    IN  [k \in DOMAIN found \ {Release} |-> digest(found[k])]

(***************************************************************************)
(* Properties.                                                             *)
(***************************************************************************)
NoEntries == [k \in {} |-> {}]

\* A Kubernetes NetworkPolicy that opens egress is a rule of the datapath too.
DatapathRules(docs) ==
    docs.rules \cup {CiliumRule(p.name, ns_of(p), p.sel, {},
                                {Item({"all"}, {}, {})}) : p \in docs.kube}

OpenByPort(rules, ep, side) ==
    \E r \in rules : rule_selects(r, ep) /\ \E i \in r[side] : PortsAlone(i)

\* When rule 4 has no finding on any pod of a render, the datapath carries no
\* packet from a pod with no client label to a data store, nor from a pod with
\* no egress-internet label to the world, on any port.  The exception is what
\* the library does not read: a store is open to each pod that may send to it
\* where an ingress item of a rule that selects the store names ports and no
\* peer, and the world to a pod that such an egress item selects.
IsolationHolds(docs, ports) ==
    (\A w \in workloads(docs) : network_findings(docs, w) = {}) =>
    \A w \in NetPods(docs) :
        LET ep == endpoint(ns_of(w), w.labels)
            rules == DatapathRules(docs)
        IN  \A port \in ports :
            /\ \A s \in stores(docs) :
                  ~MayUse(w.labels, s[2]) /\ ~OpenByPort(rules, s[1], "ingress") =>
                  ~(EgressAllowed(rules, ep, s[1], port) /\ IngressAllowed(rules, ep, s[1], port))
            /\ <<"egress-internet", "true">> \notin w.labels /\ ~OpenByPort(rules, ep, "egress") =>
                  ~EgressAllowed(rules, ep, World, port)

\* Entries made for one state of the charts let no later state of them have a
\* finding that was not there before: where the audit passes with the old
\* entries, no workload has a new finding, and none that was listed is gone.
RatchetHolds(before, after, granted, label) ==
    audit(after, [pods |-> entries(before, granted, label), runtime |-> {}], granted, label, "") = {} =>
    all_findings(after, granted, label) = {f \in all_findings(before, granted, label) : f[1] # Release[1]}

\* The release namespace gets its level from the install script alone: where
\* the audit passes with a workload there, no line of the script leaves the
\* namespace below the restricted level, not even until the next one.
ReleaseRestricted(docs, script) ==
    /\ audit({docs}, [pods |-> NoEntries, runtime |-> {}], {}, install_enforce_label(script), "") = {}
    /\ \E w \in workloads(docs) : ns_of(w) = NAMESPACE
    => script # <<>> /\ \A i \in DOMAIN script : script[i] = "restricted"

(***************************************************************************)
(* The fixtures of the selftest: a secure render, and one change of it for *)
(* each rule.                                                              *)
(***************************************************************************)
Container ==
    [name |-> "app", privileged |-> "", escalation |-> "false", dropAll |-> TRUE, add |-> {},
     nonRoot |-> "", root |-> "", seccomp |-> "", bad |-> {}, readOnly |-> "true",
     registry |-> "ghcr.io/zeroroot-ai", digest |-> TRUE]

POD == [host |-> {}, volumes |-> {}, sysctls |-> {}, sources |-> {}, nonRoot |-> "true",
        root |-> "", seccomp |-> "RuntimeDefault", bad |-> {}, sa |-> "app", automount |-> "",
        containers |-> {Container}]

Deployment(name, labels) ==
    [kind |-> "Deployment", ns |-> "fixture", name |-> name, app |-> "",
     labels |-> labels \cup {<<"app", name>>}, spec |-> POD]

DefaultDeny ==
    [CiliumRule("fixture-default-deny", Clusterwide, Sel({<<NS_KEY, "fixture">>}), {Item({}, {}, {})},
                {Item({}, {Sel({<<NS_KEY, "kube-system">>, <<"k8s-app", "kube-dns">>})}, {53})})
        EXCEPT !.deny = [ingress |-> "true", egress |-> "true"]]

Namespaced(policy, label, ingress, egress) ==
    CiliumRule(policy, "fixture", Sel({label}), ingress, egress)

Platform == Sel({<<"net-role", "platform">>})
Redis == Sel({<<"datastore", "redis">>})

SECURE ==
    [workloads |-> {Deployment("mailer", {<<"net-role", "platform">>, <<"egress-fqdn", "mail">>}),
                    Deployment("app", {<<"net-role", "platform">>, <<"client-redis", "true">>}),
                    Deployment("web", {<<"net-role", "platform">>}),
                    Deployment("redis", {<<"net-role", "datastore">>, <<"datastore", "redis">>})},
     accounts |-> {[ns |-> "fixture", name |-> "app", automount |-> "false"]},
     levels |-> {<<"fixture", "restricted">>},
     rules |-> {DefaultDeny,
                Namespaced("platform", <<"net-role", "platform">>, {FromTo(Platform)}, {FromTo(Platform)}),
                Namespaced("datastore-redis", <<"datastore", "redis">>,
                           {FromTo(Sel({<<"client-redis", "true">>}))}, {}),
                Namespaced("datastore-redis", <<"client-redis", "true">>, {}, {FromTo(Redis)}),
                Namespaced("egress-internet", <<"egress-internet", "true">>, {}, {Item({"world"}, {}, {})}),
                Namespaced("egress-fqdn-mail", <<"egress-fqdn", "mail">>, {},
                           {[Item({}, {}, {}) EXCEPT !.fqdns = {"smtp.example.com"}]})},
     kube |-> {}, clusters |-> {}]

(***************************************************************************)
(* The changes.                                                            *)
(***************************************************************************)
OnWorkload(docs, name, W(_)) ==
    [docs EXCEPT !.workloads = {IF w.name = name THEN W(w) ELSE w : w \in @}]
OnSpec(docs, S(_)) == LET W(w) == [w EXCEPT !.spec = S(@)] IN OnWorkload(docs, "app", W)
OnContainer(docs, C(_)) ==
    LET S(s) == [s EXCEPT !.containers = {C(c) : c \in @}] IN OnSpec(docs, S)
OnPolicy(docs, policy, R(_)) ==
    [docs EXCEPT !.rules = {IF r.policy = policy THEN R(r) ELSE r : r \in @}]
Opens(docs, policy, item) ==
    LET R(r) == [r EXCEPT !.egress = @ \cup {item}] IN OnPolicy(docs, policy, R)

privileged(docs) == LET C(c) == [c EXCEPT !.privileged = "true"] IN OnContainer(docs, C)
host_path(docs) == LET S(s) == [s EXCEPT !.volumes = {"hostPath"}] IN OnSpec(docs, S)
root(docs) == LET S(s) == [s EXCEPT !.nonRoot = ""] IN OnSpec(docs, S)
writable(docs) == LET C(c) == [c EXCEPT !.readOnly = ""] IN OnContainer(docs, C)
token(docs) == [docs EXCEPT !.accounts = {[a EXCEPT !.automount = ""] : a \in @}]
projected_token(docs) ==
    LET S(s) == [s EXCEPT !.volumes = {"projected"}, !.sources = {"token"}] IN OnSpec(docs, S)
no_default_deny(docs) == [docs EXCEPT !.rules = {r \in @ : r.policy # "fixture-default-deny"}]
open_default_deny(docs) == Opens(docs, "fixture-default-deny", Item({"world"}, {}, {}))
no_role(docs) ==
    LET W(w) == [w EXCEPT !.labels = @ \ {<<"net-role", "platform">>}] IN OnWorkload(docs, "web", W)
kubernetes_policy(docs) ==
    [docs EXCEPT !.kube = {[name |-> "web", ns |-> "fixture", sel |-> Sel({<<"app", "web">>})]}]
store_admits_each_pod(docs) ==
    LET R(r) == IF r.ingress = {} THEN r ELSE [r EXCEPT !.ingress = {FromTo(Sel({}))}]
    IN  OnPolicy(docs, "datastore-redis", R)
egress_to_store(docs) == Opens(docs, "platform", FromTo(Redis))
internet_with_no_label(docs) == Opens(docs, "platform", Item({"world"}, {}, {}))
fqdn_with_no_label(docs) ==
    Opens(docs, "platform", [Item({}, {}, {}) EXCEPT !.fqdns = {"api.example.com"}])
world_with_fqdn_label(docs) == Opens(docs, "egress-fqdn-mail", Item({"world"}, {}, {}))
tag_only(docs) == LET C(c) == [c EXCEPT !.digest = FALSE] IN OnContainer(docs, C)
other_registry(docs) == LET C(c) == [c EXCEPT !.registry = "docker.io/library"] IN OnContainer(docs, C)
no_label(docs) == [docs EXCEPT !.levels = {<<"fixture", "">>}]

FIXTURES_THAT_MUST_FAIL(docs) ==
    {<<"restricted", privileged(docs)>>, <<"restricted", host_path(docs)>>, <<"restricted", root(docs)>>,
     <<"read-only", writable(docs)>>, <<"token", token(docs)>>, <<"token", projected_token(docs)>>,
     <<"network", no_default_deny(docs)>>, <<"network", open_default_deny(docs)>>,
     <<"network", no_role(docs)>>, <<"network", kubernetes_policy(docs)>>,
     <<"network", store_admits_each_pod(docs)>>, <<"network", egress_to_store(docs)>>,
     <<"network", internet_with_no_label(docs)>>, <<"network", fqdn_with_no_label(docs)>>,
     <<"network", world_with_fqdn_label(docs)>>, <<"image", tag_only(docs)>>,
     <<"image", other_registry(docs)>>, <<"namespace-label", no_label(docs)>>}

\* Items that name ports and no peer, which no fixture of the selftest has.
PortItems(docs) ==
    LET In(r) == [r EXCEPT !.ingress = @ \cup {Item({}, {}, {80})}]
        out == Opens(docs, "platform", Item({}, {}, {80}))
    IN  {out, OnPolicy(docs, "datastore-redis", In), OnPolicy(out, "datastore-redis", In)}

InReleaseNamespace(docs) ==
    [docs EXCEPT !.levels = {}, !.workloads = {[w EXCEPT !.ns = ""] : w \in @},
                 !.accounts = {[a EXCEPT !.ns = ""] : a \in @},
                 !.rules = {[r EXCEPT !.ns = IF @ = "fixture" THEN NAMESPACE ELSE @,
                                      !.sel = IF r = DefaultDeny THEN Sel({<<NS_KEY, NAMESPACE>>}) ELSE @] :
                                r \in @}]

\* Two states of the charts, the second with one more insecure change or one
\* less: the entries made for the first must not cover the second.
Insecure(docs) == {f[2] : f \in FIXTURES_THAT_MUST_FAIL(docs)}
Ratchets ==
    LET states == {SECURE} \cup Insecure(SECURE) \cup Insecure(writable(SECURE)) \cup {InReleaseNamespace(SECURE)}
    IN  {<<before, after>> : before \in {SECURE, writable(SECURE), privileged(SECURE), token(SECURE)}, after \in states}
Granted == {{}, {<<"fixture", "app">>}}

\* The namespace labels that an install script can hold, one after another.
InstallScripts == {<<>>, <<"restricted">>, <<"restricted", "baseline">>, <<"privileged", "restricted">>}
=============================================================================
