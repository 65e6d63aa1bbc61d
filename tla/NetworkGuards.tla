--------------------------- MODULE NetworkGuards ---------------------------
(***************************************************************************)
(* The guards over the network policies that keep no state, each a function *)
(* of a render (see CiliumPolicy for the rules of one):                    *)
(* - scripts/check-network-peers.py: each ingress peer names its namespace, *)
(*   and each outside host its port, with the list of exemptions that must *)
(*   not be stale;                                                         *)
(* - scripts/check-daemon-netpol-admits-callers.py: every caller of a render *)
(*   reaches the daemon, and of a tenant namespace the belief trainer alone; *)
(* - scripts/check-velero-datapath-selected.py: the policies select every pod *)
(*   that Velero makes at run time, and open the API server and one bucket; *)
(* - scripts/check-egress-policy-type.py: no second policy type opens more. *)
(***************************************************************************)
EXTENDS CiliumPolicy

(***************************************************************************)
(* check-network-peers.py.  A port 0 in an item stands for a port that is 0, *)
(* missing or a range.  A host is <<first label, domain>>; <<"*", "">> is  *)
(* any host, <<"", "">> none.                                              *)
(***************************************************************************)
NS_LABELS == {"io.cilium.k8s.namespace.labels.team"}

\* Mutant: a peer of a cluster-wide policy needs no namespace.
any_namespace_plain(peer, clusterwide) ==
    \E e \in peer.exprs : norm(e.key) = NS_KEY /\ e.op = "Exists"

any_namespace(peer, clusterwide) ==
    LET keys == {norm(m[1]) : m \in peer.match}
        exprs == {norm(e.key) : e \in peer.exprs}
        exists == \E e \in peer.exprs : norm(e.key) = NS_KEY /\ e.op = "Exists"
        named == NS_KEY \in keys \/ (keys \cup exprs) \cap NS_LABELS # {}
        open == exists /\ NS_KEY \notin keys /\ keys \cap NS_LABELS = {}
    IN  open \/ (clusterwide /\ ~named)

any_bucket(host) == host = <<"*", "">> \/ (host[2] = "amazonaws.com" /\ host[1] \in {"*", "s3"})

\* An exemption is <<policy, label>>.
Exempts(exempt, rule, peer) ==
    {x \in exempt : x[1] = rule.policy /\ \E m \in peer.match : x[2] = <<norm(m[1]), m[2]>>}

Peers(rule) == UNION {i.endpoints : i \in rule.ingress}

WidePeers(rules) ==
    UNION {{<<r, p>> : p \in {p \in Peers(r) : any_namespace(p, r.ns = Clusterwide)}} : r \in rules}

Outside(rule) == {e \in rule.egress : e.fqdns # {} \/ e.cidrs # {}}

judge_peers(rules, exempt) ==
    {<<"any namespace", w[1].policy>> : w \in {w \in WidePeers(rules) : Exempts(exempt, w[1], w[2]) = {}}}
    \cup UNION {UNION {
            (IF e.ports = {} \/ 0 \in e.ports THEN {<<"no fixed port", r.policy>>} ELSE {})
            \cup {<<"no host", r.policy>> : h \in {h \in e.fqdns : h = <<"", "">>}}
            \cup {<<"each bucket", r.policy>> : h \in {h \in e.fqdns : any_bucket(h)}}
         : e \in Outside(r)} : r \in rules}

used(rules, exempt) == UNION {Exempts(exempt, w[1], w[2]) : w \in WidePeers(rules)}

peer_problems(renders, exempt) ==
    UNION {judge_peers(rules, exempt) : rules \in {rules \in renders : rules # {}}}
    \cup (IF \A rules \in renders : \A r \in rules : \A e \in r.egress : e.fqdns = {}
          THEN {<<"blind", "">>} ELSE {})

\* The golden renders of the repository, with the exemptions of the file.
audit_peers(renders, exempt) ==
    peer_problems(renders, exempt)
    \cup {<<"stale exemption", x[1]>> : x \in exempt \ UNION {used(rules, exempt) : rules \in renders}}

(***************************************************************************)
(* The peers, the hosts and the exemptions of the selftest, and two        *)
(* policies made of them.                                                  *)
(***************************************************************************)
TEAM == "io.cilium.k8s.namespace.labels.team"
WIDE == [key |-> Key(NS_KEY), op |-> "Exists", values |-> {}]
PEERS ==
    {[match |-> m, exprs |-> x] :
        m \in SUBSET {<<Key("app"), "x">>, <<Key(NS_KEY), "cnpg-system">>, <<Key(TEAM), "a">>},
        x \in SUBSET {WIDE, [key |-> Key(TEAM), op |-> "In", values |-> {"a"}]}}
To(ports, hosts) == [Item({}, {}, ports) EXCEPT !.fqdns = hosts]
Https == To({443}, {<<"bucket", "amazonaws.com">>})
HOSTS ==
    {To({443}, {h}) : h \in {<<"*", "amazonaws.com">>, <<"s3", "amazonaws.com">>, <<"*", "">>, <<"", "">>}}
    \cup {To(ports, {<<"api", "example.com">>}) : ports \in {{}, {0}}}
    \cup {[Item({}, {}, {}) EXCEPT !.cidrs = {"10.0.0.1/32"}], Https}
EXEMPTIONS == SUBSET {<<"p", <<"app", "x">>>>, <<"q", <<"app", "gone">>>>}
PEER_RENDERS ==
    {{{CiliumRule("p", ns, Sel({}), {FromTo(p)}, {h})}, {CiliumRule("q", "gibson", Sel({}), {FromTo(q)}, {Https})}} :
        p \in PEERS, ns \in {"gibson", Clusterwide}, h \in HOSTS, q \in {[match |-> {<<Key(NS_KEY), "cnpg-system">>}, exprs |-> {}],
                                                   [match |-> {<<Key("app"), "x">>}, exprs |-> {WIDE}]}}
Stranger == {<<"app", "x">>, <<NS_KEY, "elsewhere">>}

(***************************************************************************)
(* check-daemon-netpol-admits-callers.py.  A render is [services, workloads, *)
(* rules]: a service is [name, component] by its selector, a workload [name, *)
(* ns, labels, env], env a set of [name, host, port] for the values of the *)
(* form host:port.                                                         *)
(***************************************************************************)
NAMESPACE == "gibson"
DAEMON_COMPONENT == <<"component", "daemon">>
TENANT_NS == "tenant-example"
TENANT_NS_LABELS == {<<"namespace.managed-by", "tenant-operator">>}
TRAINER_LABELS == {<<"component", "belief-trainer">>, <<"managed-by", "tenant-operator">>}

daemon_service_names(docs) == {s.name : s \in {s \in docs.services : s.component = "daemon"}}

daemon_pods(docs) ==
    {endpoint(IF w.ns = "" THEN NAMESPACE ELSE w.ns, w.labels) :
        w \in {w \in docs.workloads : DAEMON_COMPONENT \in w.labels}}

\* Who names a daemon Service in its environment, and the port it dials.
callers(docs, svc) ==
    UNION {{<<w.name, w.labels, e.port>> : e \in {e \in w.env : e.host \in svc}} :
        w \in {w \in docs.workloads : DAEMON_COMPONENT \notin w.labels}}

operator_env_port(docs, component, env) ==
    UNION {{e.port : e \in {e \in w.env : e.name = env}} :
        w \in {w \in docs.workloads : <<"component", component>> \in w.labels}}

Admitted(rules, daemon, src, port) ==
    \E r \in rules : rule_selects(r, daemon) /\ ingress_admits(r, src, port)

Trainer == endpoint(TENANT_NS, TENANT_NS_LABELS \cup TRAINER_LABELS)
Bystander == endpoint(TENANT_NS, TENANT_NS_LABELS \cup {<<"toolhive-name", "example">>})

tenant_bystander_admitted(rules, daemon, port) == Admitted(rules, daemon, Bystander, port)

\* The trainer dials the gRPC port that the operator has in its environment.
tenant_callers(docs) == operator_env_port(docs, "tenant-operator", "GIBSON_DAEMON_GRPC_ADDRESS")

\* Mutant: neither the egress of the callers nor the tenants are looked at.
audit_one_side(docs) ==
    LET daemon == CHOOSE d \in daemon_pods(docs) : TRUE
    IN  {<<"caller", c[1]>> : c \in {c \in callers(docs, daemon_service_names(docs)) :
            ~Admitted(docs.rules, daemon, endpoint(NAMESPACE, c[2]), c[3])}}

audit(docs) ==
    LET svc == daemon_service_names(docs)
        daemon == CHOOSE d \in daemon_pods(docs) : TRUE
        grpc == tenant_callers(docs)
    IN  IF svc = {} THEN {<<"blind", "no Service">>}
        ELSE IF daemon_pods(docs) = {} THEN {<<"blind", "no daemon">>}
        ELSE IF \A r \in docs.rules : ~rule_selects(r, daemon) THEN {<<"blind", "no policy">>}
        ELSE {<<"caller", c[1]>> : c \in {c \in callers(docs, svc) :
                  ~reaches(docs.rules, endpoint(NAMESPACE, c[2]), daemon, c[3])}}
             \cup (IF grpc = {} THEN {<<"trainer", "unknown port">>} ELSE
                   LET port == CHOOSE p \in grpc : TRUE
                   IN  {<<"trainer", "not admitted">> : x \in {x \in {1} :
                            ~Admitted(docs.rules, daemon, Trainer, port)}}
                       \cup {<<"bystander", "admitted">> : x \in {x \in {1} :
                            tenant_bystander_admitted(docs.rules, daemon, port)}})

(***************************************************************************)
(* The renders of the selftest.                                            *)
(***************************************************************************)
PlatformSel == Sel({<<"net-role", "platform">>})
platform == CiliumRule("platform", NAMESPACE, PlatformSel, {FromTo(PlatformSel)}, {FromTo(PlatformSel)})
service == [name |-> "gibson-daemon", component |-> "daemon"]

workload(component, role, env) ==
    [name |-> "gibson-" \o component, ns |-> NAMESPACE,
     labels |-> {<<"component", component>>} \cup (IF role = "" THEN {} ELSE {<<"net-role", role>>}),
     env |-> IF env THEN {[name |-> "GIBSON_DAEMON_GRPC_ADDRESS", host |-> "gibson-daemon", port |-> 50051]}
             ELSE {}]

daemon_workload == workload("daemon", "platform", FALSE)

AdmitTenant(labels) ==
    CiliumRule("daemon-tenant-callers", NAMESPACE, Sel({DAEMON_COMPONENT}),
               {Item({}, {Everywhere(Sel(TENANT_NS_LABELS \cup labels))}, {50051})}, {})
tenant == AdmitTenant(TRAINER_LABELS)
wide == AdmitTenant({})

Docs(rules, role) ==
    [services |-> {service}, rules |-> rules,
     workloads |-> {daemon_workload, workload("tenant-operator", role, TRUE)}]

\* Renders with rules that the selftest has not: an open ingress of the daemon
\* and a role whose egress goes elsewhere.
any_caller == CiliumRule("daemon-open", NAMESPACE, Sel({DAEMON_COMPONENT}), {FromTo(Sel({}))}, {})
system_egress ==
    CiliumRule("system", NAMESPACE, Sel({<<"net-role", "system">>}), {},
               {FromTo(Sel({<<"net-role", "system">>}))})

RENDERS == {Docs(rules, role) : rules \in SUBSET {platform, tenant, wide, any_caller, system_egress},
                                role \in {"platform", "system", ""}}

(***************************************************************************)
(* The data path pods of Velero and the second policy type.  A render is   *)
(* [rules, kube, workloads]: Cilium rules, objects of another type [group, *)
(* kind, name, ns, sel], and workloads [kind, ns, labels].  A host of a    *)
(* bucket rule is <<bucket, style>> with the style regional, dualstack,    *)
(* shared, legacy, custom or pattern.                                      *)
(***************************************************************************)
AwsStyles == {"regional", "dualstack", "shared", "legacy"}
BucketStyles == {"regional", "dualstack"}
Pvb == <<"velero.io/pod-volume-backup", "runtime">>
Pvr == <<"velero.io/pod-volume-restore", "runtime">>
Repo == <<"velero.io/repo-name", "runtime">>

(***************************************************************************)
(* check-velero-datapath-selected.py                                       *)
(***************************************************************************)
BucketItems(rule) == {e \in rule.egress : e.fqdns # {} \/ e.cidrs # {}}

egress_problems(rule) ==
    IF \A e \in rule.egress : "kube-apiserver" \notin e.entities THEN {"no API server"}
    ELSE IF Cardinality(BucketItems(rule)) # 1 THEN {"bucket rules"}
    ELSE {"ports" : e \in {e \in BucketItems(rule) : Cardinality(e.ports) # 1}}

\* The two hosts of one bucket.
Both(b) == {<<b, s>> : s \in BucketStyles}

\* Mutant: only the shared host is reported.
s3_host_problems_names(fqdns) ==
    IF \E f \in fqdns : f[2] = "shared" THEN {"shared host"} ELSE {}

s3_host_problems(fqdns) ==
    LET names == {f \in fqdns : f[2] # "pattern"}
        pairs == {f[1] : f \in {f \in names : f[2] \in BucketStyles}}
        wanted == UNION {Both(b) : b \in pairs}
    IN  IF \A f \in fqdns : f[2] = "custom" THEN {}
        ELSE {p \in {"pattern", "shared host", "second bucket", "missing host", "no bucket host", "other host"} :
                CASE p = "pattern" -> names # fqdns
                  [] p = "shared host" -> \E f \in names : f[2] = "shared"
                  [] p = "second bucket" -> Cardinality(pairs) > 1
                  [] p = "missing host" -> ~(wanted \subseteq names)
                  [] p = "no bucket host" -> pairs = {} /\ \E f \in names : f[2] \in AwsStyles
                  [] p = "other host" -> pairs # {} /\ ~(names \subseteq wanted)}

\* Each spec of a policy named *-velero.
IsVelero(rule) == rule.policy = "gibson-velero"

bucket_rule_problems(rules) ==
    LET velero == {r \in rules : IsVelero(r)}
    IN  IF velero = {} THEN {"no *-velero policy"}
        ELSE {"no bucket rule" : r \in {r \in velero : BucketItems(r) = {}}}
             \cup UNION {s3_host_problems(e.fqdns) : e \in {e \in UNION {r.egress : r \in velero} : e.fqdns # {}}}

\* pods are the pod fixtures, [ns, labels] each.
check(rules, pods) ==
    LET namespaced == {r \in rules : r.ns # Clusterwide}
        hits(p) == {r \in namespaced : r.ns = p.ns /\ selects(r.sel, endpoint(p.ns, p.labels))}
    IN  IF namespaced = {} \/ pods = {} THEN {"blind"}
        ELSE bucket_rule_problems(rules)
             \cup {"not selected" : p \in {p \in pods : hits(p) = {}}}
             \cup UNION {UNION {egress_problems(r) : r \in hits(p)} : p \in pods}

(***************************************************************************)
(* check-egress-policy-type.py                                             *)
(***************************************************************************)
\* The pods of a render, with those its controllers make.
RuntimePods(w) ==
    IF w.kind # "Deployment" THEN {}
    ELSE (IF <<"app.kubernetes.io/name", "velero">> \in w.labels THEN {{Repo}, {Pvb}, {Pvr}} ELSE {})
         \cup (IF {<<"app.kubernetes.io/name", "setec">>, <<"app.kubernetes.io/component", "operator">>} \subseteq w.labels
               THEN {{<<"app.kubernetes.io/name", "setec">>, <<"app.kubernetes.io/component", j>>} :
                        j \in {"disk-builder", "image-verify"}} ELSE {})

pods_of(docs) == UNION {{endpoint(w.ns, l) : l \in {w.labels} \cup RuntimePods(w)} : w \in docs.workloads}

\* Mutant: no rule about a second policy type.
judge_kube_elsewhere(docs) == {}

OTHER_TYPES ==
    {<<"crd.projectcalico.org", "NetworkPolicy">>, <<"crd.projectcalico.org", "GlobalNetworkPolicy">>,
     <<"projectcalico.org", "NetworkPolicy">>, <<"projectcalico.org", "GlobalNetworkPolicy">>,
     <<"networking.istio.io", "ServiceEntry">>, <<"networking.istio.io", "Sidecar">>,
     <<"networking.gke.io", "FQDNNetworkPolicy">>, <<"policy.networking.k8s.io", "AdminNetworkPolicy">>}

judge_kube(docs) ==
    {<<"second type", k.name>> : k \in {k \in docs.kube :
        <<k.group, k.kind>> \in OTHER_TYPES \/ (k.kind = "NetworkPolicy" /\ k.ns = NAMESPACE)}}

judge(docs) ==
    judge_kube(docs)
    \cup {<<"selects no pod", r.policy>> : r \in {r \in docs.rules :
            \A ep \in pods_of(docs) : ~((r.ns = Clusterwide \/ <<NS_KEY, r.ns>> \in ep) /\ selects(r.sel, ep))}}

(***************************************************************************)
(* The shipped policies of Velero and the edits of the selftest.           *)
(***************************************************************************)
Labelled(key) == [match |-> {}, exprs |-> {[key |-> Key(key), op |-> "Exists", values |-> {}]}]
ServerSel == Sel({<<"app.kubernetes.io/name", "velero">>})
VeleroEgress(hosts) ==
    {Item({"kube-apiserver"}, {}, {}), [Item({}, {}, {443}) EXCEPT !.fqdns = hosts]}
VeleroRule(sel, hosts) == CiliumRule("gibson-velero", NAMESPACE, sel, {}, VeleroEgress(hosts))
Release == Both("backups")
RuntimeKeys == {Pvb[1], Pvr[1], Repo[1]}
SHIPPED ==
    {VeleroRule(s, Release) : s \in {ServerSel} \cup {Labelled(k) : k \in RuntimeKeys}}
DefaultDeny ==
    CiliumRule("deny", Clusterwide, Sel({<<NS_KEY, NAMESPACE>>}), {Item({"none"}, {}, {})}, {Item({"none"}, {}, {})})

strip(rules, key) == {r \in rules : r.sel # Labelled(key)}
without_api(rules) == {[r EXCEPT !.egress = {e \in @ : e.entities = {}}] : r \in rules}
SetHosts(r, hosts) == [r EXCEPT !.egress = {IF e.fqdns = {} THEN e ELSE [e EXCEPT !.fqdns = hosts] : e \in @}]
fqdns(rules, hosts) == {SetHosts(r, hosts) : r \in rules}
server_only(rules, hosts) == {IF r.sel = ServerSel THEN SetHosts(r, hosts) ELSE r : r \in rules}
no_bucket_rule(rules) ==
    {IF r.sel = ServerSel THEN [r EXCEPT !.egress = {e \in @ : e.fqdns = {}}] ELSE r : r \in rules}

\* The hosts that the cases of the selftest put in a bucket rule.
HostSets ==
    {Release, {<<"backups", "regional">>}, {<<"backups", "dualstack">>}, Release \cup {<<"", "shared">>},
     {<<"", "legacy">>}, {<<"", "pattern">>}, Release \cup {<<"", "pattern">>}, Release \cup Both("other"),
     {<<"minio", "custom">>}, Release \cup {<<"", "legacy">>}}

FixturePods == {[ns |-> NAMESPACE, labels |-> {Pvb}], [ns |-> NAMESPACE, labels |-> {Pvr}]}

(***************************************************************************)
(* The renders of the selftest of check-egress-policy-type.py.             *)
(***************************************************************************)
PodSet(kind, ns, labels) == [kind |-> kind, ns |-> ns, labels |-> labels]
Kube(group, kind, ns) == [group |-> group, kind |-> kind, name |-> "np", ns |-> ns, sel |-> Sel({})]
For(policy, ns, sel) == CiliumRule(policy, ns, sel, {}, {})
App == PodSet("Deployment", NAMESPACE, {<<"app", "a">>, <<"net-role", "platform">>})
Server == PodSet("Deployment", NAMESPACE, {<<"app.kubernetes.io/name", "velero">>})
Operator == PodSet("Deployment", "setec-system", {<<"app.kubernetes.io/name", "setec">>, <<"app.kubernetes.io/component", "operator">>})
Postgres == PodSet("Cluster", NAMESPACE, {<<"datastore", "postgres">>})
LabelPolicies ==
    {DefaultDeny, For("platform", NAMESPACE, Sel({<<"net-role", "platform">>}))}
RuntimePolicies ==
    {For("pg", NAMESPACE, Sel({<<"datastore", "postgres">>})),
     For("builder", "setec-system", Sel({<<"app.kubernetes.io/component", "disk-builder">>})),
     For("typo", NAMESPACE, Sel({<<"net-role", "platfrom">>})),
     For("elsewhere", Clusterwide, Sel({<<NS_KEY, "nowhere">>}))}
    \cup {For("velero", NAMESPACE, Labelled(k)) : k \in RuntimeKeys}
POLICY_RENDERS ==
    {[workloads |-> {App} \cup w, rules |-> LabelPolicies \cup r, kube |-> k] :
        w \in SUBSET {Server, Operator, Postgres}, r \in {{}} \cup {{r} : r \in RuntimePolicies},
        k \in {{}, {Kube("networking.k8s.io", "NetworkPolicy", NAMESPACE)},
               {Kube("networking.k8s.io", "NetworkPolicy", "setec-sandboxes")},
               {Kube("networking.istio.io", "ServiceEntry", NAMESPACE)}}}

\* The edits of the selftest of check-velero-datapath-selected.py, one on top
\* of another.
DATAPATH_RENDERS ==
    LET edited == {SHIPPED, without_api(SHIPPED), no_bucket_rule(SHIPPED)} \cup {strip(SHIPPED, k) : k \in RuntimeKeys}
    IN  edited \cup UNION {{fqdns(rules, h), server_only(rules, h)} : rules \in edited, h \in HostSets}

(***************************************************************************)
(* Properties.                                                             *)
(***************************************************************************)
\* Cilium adds the namespace of a namespaced policy to a peer that names
\* neither the namespace of a pod nor a label of one (external).
Admits(rule, peer, ep) ==
    /\ \/ rule.ns = Clusterwide \/ <<NS_KEY, rule.ns>> \in ep
       \/ names_namespace(peer)
       \/ \E m \in peer.match : norm(m[1]) \in NS_LABELS
       \/ \E e \in peer.exprs : norm(e.key) \in NS_LABELS
    /\ selects(peer, ep)

\* "each peer ... of the release policy is narrow": where the audit_peers passes, a
\* pod of a namespace that no policy names and that has no label, whatever
\* labels the pod copies, is admitted by an exempt peer only.
PeersNarrow(renders, exempt, stranger) ==
    audit_peers(renders, exempt) = {} => \A rules \in renders : \A r \in rules : \A p \in Peers(r) :
        Admits(r, p, stranger) => Exempts(exempt, r, p) # {}

\* An exemption outlives no peer: one that is deleted from the file makes the
\* audit_peers fail, so none is there for nothing.
ExemptionsNeeded(renders, exempt) ==
    audit_peers(renders, exempt) = {} => \A x \in exempt : audit_peers(renders, exempt \ {x}) # {}

\* When the guard passes a render, the datapath lets every workload that names
\* a daemon Service reach the daemon on the port it names, at both ends, and of
\* the pods of a tenant namespace the trainer alone on the gRPC port.
CallersReach(docs) ==
    audit(docs) = {} => \A daemon \in daemon_pods(docs) :
        /\ \A c \in callers(docs, daemon_service_names(docs)) :
              LET src == endpoint(NAMESPACE, c[2])
              IN  EgressAllowed(docs.rules, src, daemon, c[3]) /\ IngressAllowed(docs.rules, src, daemon, c[3])
        /\ \A port \in tenant_callers(docs) :
              /\ IngressAllowed(docs.rules, Trainer, daemon, port)
              /\ ~IngressAllowed(docs.rules, Bystander, daemon, port)

\* The hosts that a name or a pattern of a rule lets through (external).
HostPasses(fqdn, host) == fqdn = host \/ (fqdn[2] = "pattern" /\ host[2] \in AwsStyles)

\* A host at which a client asks for bucket b: the shared and the legacy host
\* serve every bucket.
HostsOf(b) == Both(b) \cup {<<"", "shared">>, <<"", "legacy">>}

\* Cilium lets the endpoint open the host, or the API server (external).
OpensHost(rules, ep, host) ==
    LET mine == {r \in rules : rule_selects(r, ep) /\ r.egress # {}}
    IN  mine = {} \/ \E r \in mine : \E e \in r.egress : \E f \in e.fqdns : HostPasses(f, host)
OpensApi(rules, ep) ==
    LET mine == {r \in rules : rule_selects(r, ep) /\ r.egress # {}}
    IN  mine = {} \/ \E r \in mine : \E e \in r.egress : "kube-apiserver" \in e.entities

Aws(rules) == \E r \in rules : \E e \in r.egress : \E f \in e.fqdns : f[2] \in AwsStyles \cup {"pattern"}

\* "the policy selects each data path pod" (line 2): when the check passes,
\* each hosting pod that Velero makes reaches the API server, and the bucket by
\* the host of the AWS plugin as well as by the host of the kopia client.
BackupsRun(rules, pods) ==
    check(rules, pods) = {} => \A p \in pods :
        LET ep == endpoint(p.ns, p.labels)
            deployed == rules \cup {DefaultDeny}
        IN  /\ OpensApi(deployed, ep)
            /\ Aws({r \in rules : rule_selects(r, ep)}) => \A h \in Release : OpensHost(deployed, ep, h)

\* When the check passes, no pod that a Velero policy selects reaches a bucket
\* that is not the bucket of the release.
OneBucket(rules, pods) ==
    check(rules, pods) = {} => \A r \in {r \in rules : IsVelero(r)} : \A e \in r.egress : \A f \in e.fqdns :
        \A h \in HostsOf("other") : ~HostPasses(f, h)

\* "Cilium unions the allow rules of each type, so a second type could open
\* what a label policy closes" (egress-policy-type, lines 15-17): where the
\* check passes, what the pods of the release reach is what the Cilium rules
\* alone let them reach.
OneTypeDecides(docs, peers) ==
    judge(docs) = {} =>
    LET opened == {CiliumRule(k.name, k.ns, k.sel, {}, {Item({"all"}, {}, {})}) : k \in docs.kube}
    IN  \A ep \in {ep \in pods_of(docs) : <<NS_KEY, NAMESPACE>> \in ep} : \A peer \in peers :
            EgressAllowed(docs.rules \cup opened, ep, peer, 443) = EgressAllowed(docs.rules, ep, peer, 443)
=============================================================================
