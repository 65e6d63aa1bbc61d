---------------------------- MODULE OwnerReaders ----------------------------
(***************************************************************************)
(* scripts/check-owner-credential-readers.py: who reads a Zitadel owner    *)
(* credential, who can take over a workload that does, and how both sets   *)
(* are compared with helm/gibson/owner-credential-readers.yaml.            *)
(*                                                                         *)
(* A render (docs) has, beside the roles and bindings of RbacApi,          *)
(*   workloads : set of [kind, ns, name, sa, uses]                         *)
(*   policies  : names of the ValidatingAdmissionPolicies                  *)
(*   denies    : set of [policy, actions], their bindings                  *)
(*   firstNs   : the first metadata.namespace of the render, "" for none   *)
(* A use is [via, secret, keys]: a volume, a projected source, env or      *)
(* envFrom of any of the pod's containers, with the item keys it names.    *)
(* A ServiceAccount is [ns, name]; sa = "" is a pod that names none.       *)
(***************************************************************************)
EXTENDS RbacApi, TLC

NS == "gibson"
READ_VERBS == {"get", "list", "watch"}
ALL_SA_GROUPS == {"system:serviceaccounts", "system:authenticated"}

PodKinds == {"Pod", "CronJob", "Deployment", "StatefulSet", "DaemonSet",
             "ReplicaSet", "Job"}

Wid(w) == w.kind \o "/" \o w.name
Sid(sa) == sa.ns \o "/" \o sa.name

(***************************************************************************)
(* Mounts: the kubelet gives the workload the Secret.                      *)
(***************************************************************************)
pod_spec(d) == d.kind \in PodKinds

\* A volume with no items, and an envFrom, take every key ("*").
secret_uses(w, owner) ==
    {<<u.secret, IF u.via = "envFrom" \/ u.keys = {} THEN {"*"} ELSE u.keys>> :
        u \in {u \in w.uses : u.secret \in owner}}

mount_readers(docs, owner) ==
    UNION {{<<Wid(w), u>> : u \in secret_uses(w, owner)} :
        w \in {w \in docs.workloads : pod_spec(w) /\ Landed(w.ns, NS) = NS}}

(***************************************************************************)
(* Readers: the ServiceAccount has RBAC on the Secret.                     *)
(***************************************************************************)
\* name = "" asks for every Secret.
rule_allows(rule, verb, name) ==
    /\ {"", "*"} \cap rule.groups # {}
    /\ {Res("secrets"), All} \cap rule.resources # {}
    /\ {verb, "*"} \cap rule.verbs # {}
    /\ rule.names = {} \/ (name # "" /\ name \in rule.names)

\* A selector is [match, exprs]: the pairs of matchLabels, and
\* matchExpressions [key, op, values].
matches_selector(labels, sel) ==
    /\ sel.match \subseteq labels
    /\ \A e \in sel.exprs :
          LET vals == {l[2] : l \in {l \in labels : l[1] = e.key}}
          IN  CASE e.op = "In" -> vals \cap e.values # {}
                [] e.op = "NotIn" -> vals \cap e.values = {}
                [] e.op = "Exists" -> vals # {}
                [] e.op = "DoesNotExist" -> vals = {}

ReadSecrets == Rule({""}, {Res("secrets")}, READ_VERBS, {})

BUILTIN_ROLES ==
    [n \in {"cluster-admin", "admin", "edit", "view", "system:auth-delegator"} |->
        CASE n = "cluster-admin" -> {Rule({"*"}, {All}, {"*"}, {})}
          [] n \in {"admin", "edit"} -> {ReadSecrets}
          [] OTHER -> {}]

\* Mutant: the rules that an aggregated ClusterRole collects are left out.
role_rules_flat(docs, default_ns) ==
    LET key(r) == IF r.kind = "Role" THEN <<"Role", Landed(r.ns, default_ns), r.name>>
                  ELSE <<"ClusterRole", "", r.name>>
    IN  [k \in {key(r) : r \in docs.roles} |->
            LET r == CHOOSE r \in docs.roles : key(r) = k IN r.rules]

\* The rules of every role of the render, by <<kind, namespace, name>>.
role_rules(docs, default_ns) ==
    LET key(r) == IF r.kind = "Role" THEN <<"Role", Landed(r.ns, default_ns), r.name>>
                  ELSE <<"ClusterRole", "", r.name>>
        crs == {r \in docs.roles : r.kind = "ClusterRole"}
    IN  [k \in {key(r) : r \in docs.roles} |->
            LET r == CHOOSE r \in docs.roles : key(r) = k
            IN  r.rules \cup (IF r.kind = "Role" THEN {} ELSE
                    UNION {o.rules : o \in {o \in crs \ {r} :
                        \E sel \in r.select : matches_selector(o.labels, sel)}})]

\* The rules a reference names, from the render or from the built-in roles.
Unknown == {Rule({"(unknown)"}, {}, {}, {})}
by_ref(roles, kind, ns, name) ==
    LET k == <<kind, IF kind = "Role" THEN ns ELSE "", name>>
    IN  IF k \in DOMAIN roles THEN roles[k]
        ELSE IF kind = "ClusterRole" /\ name \in DOMAIN BUILTIN_ROLES
          THEN BUILTIN_ROLES[name] ELSE Unknown

Anywhere == "(every namespace)"
scope_of(b) == IF b.kind = "RoleBinding" THEN Landed(b.ns, NS) ELSE Anywhere

\* A group of every ServiceAccount, of the cluster or of one namespace.
Namespaces == {NS, "tenant-a", "velero"}
every_sa(s) ==
    /\ s.kind = "Group"
    /\ s.name \in ALL_SA_GROUPS \cup {"system:serviceaccounts:" \o n : n \in Namespaces}

subject_sa(s, bns) ==
    [ns |-> IF s.ns # "" THEN s.ns ELSE IF bns # Anywhere THEN bns ELSE NS, name |-> s.name]

held_reads(rules, owner) ==
    {<<v, "secrets">> : v \in {v \in READ_VERBS : \E r \in rules : rule_allows(r, v, "")}}
    \cup {h \in READ_VERBS \X owner :
             /\ \E r \in rules : rule_allows(r, h[1], h[2])
             /\ \A r \in rules : ~rule_allows(r, h[1], "")}

\* What every ServiceAccount can read, and the bindings that cannot be judged.
can_read(docs, owner) ==
    LET roles == role_rules(docs, NS)
        reach == {b \in docs.bindings : scope_of(b) \in {NS, Anywhere}}
        rules(b) == by_ref(roles, b.ref.kind, scope_of(b), b.ref.name)
        unknown == {b \in reach : rules(b) = Unknown}
        held(b) == held_reads(rules(b), owner)
        reading == {b \in reach \ unknown : held(b) # {}}
    IN  [reads |-> UNION {{<<subject_sa(s, scope_of(b)), h>> :
                       s \in {s \in b.subjects : s.kind = "ServiceAccount"}, h \in held(b)} :
                       b \in reading},
         errors |-> {<<"unknown role", b.name>> : b \in unknown}
                    \cup {<<"group", b.name>> : b \in {b \in reading :
                              \E s \in b.subjects : every_sa(s)}}]

(***************************************************************************)
(* Takeovers: a ServiceAccount that can become a reader.                   *)
(***************************************************************************)
POWERS == {"exec", "patch", "create-pod", "token", "impersonate", "bind"}
RBAC_GROUP == "rbac.authorization.k8s.io"

KIND_RESOURCE ==
    [Deployment |-> <<"apps", "deployments">>, StatefulSet |-> <<"apps", "statefulsets">>,
     DaemonSet |-> <<"apps", "daemonsets">>, ReplicaSet |-> <<"apps", "replicasets">>,
     CronJob |-> <<"batch", "cronjobs">>, Pod |-> <<"", "pods">>]

POD_MAKERS == {<<"", "pods">>, <<"", "replicationcontrollers">>, <<"apps", "deployments">>,
               <<"apps", "statefulsets">>, <<"apps", "daemonsets">>,
               <<"apps", "replicasets">>, <<"batch", "jobs">>, <<"batch", "cronjobs">>}

EXEC_SUBRESOURCES == {<<"exec", {"create", "get"}>>, <<"attach", {"create", "get"}>>,
                      <<"ephemeralcontainers", {"patch", "update"}>>}

resource_matches(listed, res) ==
    \/ {All, res} \cap listed # {}
    \/ res[2] # "" /\ {<<res[1], "*">>, <<"*", res[2]>>} \cap listed # {}

\* Whether some rule gives one of the verbs, whether one does so for every
\* name, and the names the others give.
grant(rules, group, res, verbs) ==
    LET hits == {r \in rules : /\ {group, "*"} \cap r.groups # {}
                               /\ resource_matches(r.resources, res)
                               /\ (verbs \cup {"*"}) \cap r.verbs # {}}
    IN  [hit |-> hits # {}, every |-> \E r \in hits : r.names = {},
         names |-> UNION {r.names : r \in hits}]

Reaches(g, name) == g.every \/ name \in g.names

\* The pods of a StatefulSet are its name with an ordinal; MaxOrdinal bounds it.
MaxOrdinal == 1
pod_named(w, names) ==
    \/ w.kind = "Pod" /\ w.name \in names
    \/ w.kind = "StatefulSet" /\ \E i \in 0..MaxOrdinal :
          (w.name \o "-" \o ToString(i)) \in names

workloads(docs, default_ns) ==
    {[kind |-> w.kind, name |-> w.name, ns |-> Landed(w.ns, default_ns),
      sa |-> [ns |-> Landed(w.ns, default_ns), name |-> IF w.sa = "" THEN "default" ELSE w.sa],
      uses |-> w.uses] : w \in {w \in docs.workloads : pod_spec(w)}}

\* The workloads that read an owner credential, and their ServiceAccounts.
reader_targets(wls, owner, reader_sas) ==
    LET mounting == {w \in wls : w.ns = NS /\ secret_uses(w, owner) # {}}
        sas == reader_sas \cup {w.sa : w \in mounting}
    IN  [targets |-> mounting \cup {w \in wls : w.sa \in sas}, sas |-> sas]

role_is_reader(rules, owner) == held_reads(rules, owner) # {}

UserName(sa) == "system:serviceaccount:" \o sa.ns \o ":" \o sa.name

InScope(bns, ns) == bns \in {Anywhere, ns}

\* The powers over a reader, without the power to bind one more role.
direct_powers(rules, bns, holder, targets, sas) ==
    LET reach == {w \in targets : InScope(bns, w.ns) /\ w.sa # holder}
        G(group, base, sub, verbs) == grant(rules, group, <<base, sub>>, verbs)
        OnPod(g, w) == g.hit /\ (g.every \/ pod_named(w, g.names))
        execs(w) == \/ bns = Anywhere /\ G("", "nodes", "proxy", {"get", "create"}).hit
                    \/ \E x \in EXEC_SUBRESOURCES : OnPod(G("", "pods", x[1], x[2]), w)
        patches(w) ==
            \/ OnPod(G("", "pods", "", {"patch", "update"}), w)
            \/ /\ w.kind \in DOMAIN KIND_RESOURCE \ {"Pod"}
               /\ LET k == KIND_RESOURCE[w.kind]
                  IN  Reaches(G(k[1], k[2], "", {"patch", "update"}), w.name)
        poses(sa) ==
            \/ InScope(bns, sa.ns) /\ Reaches(G("", "serviceaccounts", "", {"impersonate"}), sa.name)
            \/ bns = Anywhere /\ Reaches(G("", "users", "", {"impersonate"}), UserName(sa))
    IN  {<<"exec", Wid(w)>> : w \in {w \in reach : execs(w)}}
        \cup {<<"patch", Wid(w)>> : w \in {w \in reach : patches(w)}}
        \cup {<<"create-pod", NS>> : k \in {k \in POD_MAKERS :
                 InScope(bns, NS) /\ G(k[1], k[2], "", {"create"}).hit}}
        \cup {<<"token", Sid(sa)>> : sa \in {sa \in sas \ {holder} : InScope(bns, sa.ns)
                 /\ Reaches(G("", "serviceaccounts", "token", {"create"}), sa.name)}}
        \cup {<<"impersonate", Sid(sa)>> : sa \in {sa \in sas \ {holder} : poses(sa)}}

\* With depth 0 of the code: bind or escalate in the namespace of the owner
\* credentials, to a role that reads one, holds a power, or is not known.
powers(rules, bns, holder, targets, sas, roles, owner) ==
    LET Writes == {"create", "update", "patch"}
        G(res, verbs) == grant(rules, RBAC_GROUP, Res(res), verbs)
        binds == G("rolebindings", Writes).hit
                 \/ (bns = Anywhere /\ G("clusterrolebindings", Writes).hit)
        worth(kind, n) ==
            LET bound == by_ref(roles, kind, NS, n)
            IN  \/ bound = Unknown
                \/ role_is_reader(bound, owner)
                \/ direct_powers(bound, NS, holder, targets, sas) # {}
        kinds == {<<"ClusterRole", "clusterroles">>, <<"Role", "roles">>}
        escalates(res) == G(res, {"escalate"}).hit /\ G(res, Writes).hit
    IN  direct_powers(rules, bns, holder, targets, sas)
        \cup (IF ~InScope(bns, NS) THEN {} ELSE
             UNION {(IF binds /\ G(k[2], {"bind"}).every THEN {<<"bind", k[1] \o "/*">>} ELSE {})
                    \cup {<<"bind", k[1] \o "/" \o n>> : n \in {n \in G(k[2], {"bind"}).names :
                             binds /\ worth(k[1], n)}} : k \in kinds}
             \cup (IF escalates("roles") THEN {<<"bind", "Role/*">>} ELSE {})
             \cup (IF bns = Anywhere /\ escalates("clusterroles")
                     THEN {<<"bind", "ClusterRole/*">>} ELSE {}))

\* Every <<holder, power, target>> of a set of renders.
rendered_takeovers(docsets, owner, reader_sas) ==
    LET wls == UNION {workloads(d, Landed(d.firstNs, NS)) : d \in docsets}
        t == reader_targets(wls, owner, reader_sas)
        pw(d, b, holder) ==
            LET roles == role_rules(d, NS)
                rules == by_ref(roles, b.ref.kind, scope_of(b), b.ref.name)
            IN  IF rules = Unknown THEN {}
                ELSE powers(rules, scope_of(b), holder, t.targets, t.sas, roles, owner)
        nobody == [ns |-> "", name |-> ""]
    IN  [found |-> UNION {UNION {UNION {
             {<<subject_sa(s, scope_of(b)), p[1], p[2]>> :
                 p \in pw(d, b, subject_sa(s, scope_of(b)))} :
             s \in {s \in b.subjects : s.kind = "ServiceAccount"}} :
             b \in d.bindings} : d \in docsets},
         errors |-> UNION {{<<"group takeover", b.name>> : b \in {b \in d.bindings :
             (\E s \in b.subjects : every_sa(s)) /\ pw(d, b, nobody) # {}}} : d \in docsets}]

admission_guards(docsets) ==
    UNION {{x.policy : x \in {x \in d.denies :
        x.policy \in d.policies /\ "Deny" \in x.actions}} : d \in docsets}

rendered_findings(docsets, owner) ==
    LET reads == UNION {can_read(d, owner).reads : d \in docsets}
        t == rendered_takeovers(docsets, owner, {r[1] : r \in reads})
    IN  [mounts |-> UNION {mount_readers(d, owner) : d \in docsets},
         reads |-> reads, takeovers |-> t.found,
         errors |-> UNION {can_read(d, owner).errors : d \in docsets} \cup t.errors]

(***************************************************************************)
(* The allowlist: mounts is a set, readers a function from ServiceAccounts *)
(* to [class, liveOnly, removedBy], takeovers one from <<holder, power>>   *)
(* to [class, targets, guardedBy, liveOnly, removedBy]; targets {"all"}    *)
(* admits every target, guardedBy "" is none.                              *)
(***************************************************************************)
CLASSES == {"bootstrap", "identity-provider", "infrastructure", "secret-store",
            "admission-fenced", "pending"}

\* An allowlist that load_allowlist accepts; the guard stops on any other.
load_allowlist(allow) ==
    /\ \A k \in DOMAIN allow.readers :
          LET v == allow.readers[k]
          IN  v.class \in CLASSES /\ (v.class = "pending" => v.removedBy # "")
    /\ \A k \in DOMAIN allow.takeovers :
          LET v == allow.takeovers[k]
          IN  /\ v.class \in CLASSES /\ (v.class = "pending" => v.removedBy # "")
              /\ k[2] \in POWERS
              /\ v.class = "admission-fenced" => v.guardedBy # ""
              /\ v.targets # {}

Readers(found) == {r[1] : r \in found.reads}
Keys(found) == {<<t[1], t[2]>> : t \in found.takeovers}
Reached(found, k) == {t[3] : t \in {t \in found.takeovers : <<t[1], t[2]>> = k}}
\* The listed takeovers of the render whose entry names its targets.
Named(found, allow) ==
    {k \in Keys(found) \cap DOMAIN allow.takeovers : allow.takeovers[k].targets # {"all"}}

judge_unlisted(found, allow, guards) ==
    {<<"error", e>> : e \in found.errors}
    \cup {<<"unlisted mount", m>> : m \in found.mounts \ allow.mounts}
    \cup {<<"unlisted reader", sa>> : sa \in Readers(found) \ DOMAIN allow.readers}
    \cup {<<"unlisted takeover", k>> : k \in Keys(found) \ DOMAIN allow.takeovers}
    \cup {<<"extra targets", k>> : k \in {k \in Named(found, allow) :
             ~(Reached(found, k) \subseteq allow.takeovers[k].targets)}}
    \cup {<<"not fenced", k>> : k \in {k \in Keys(found) \cap DOMAIN allow.takeovers :
             allow.takeovers[k].guardedBy \notin guards \cup {""}}}

\* Mutant: an entry with a target too many is not stale.
judge_stale_keys(found, allow) ==
    {<<"stale mount", m>> : m \in allow.mounts \ found.mounts}
    \cup {<<"stale takeover", k>> : k \in DOMAIN allow.takeovers \ Keys(found)}

judge_stale(found, allow) ==
    {<<"stale mount", m>> : m \in allow.mounts \ found.mounts}
    \cup {<<"stale reader", sa>> : sa \in {sa \in DOMAIN allow.readers \ Readers(found) :
             ~allow.readers[sa].liveOnly}}
    \cup {<<"stale takeover", k>> : k \in {k \in DOMAIN allow.takeovers \ Keys(found) :
             ~allow.takeovers[k].liveOnly}}
    \cup {<<"stale targets", k>> : k \in {k \in Named(found, allow) :
             ~(allow.takeovers[k].targets \subseteq Reached(found, k))}}

judge(found, allow, stale, guards) ==
    judge_unlisted(found, allow, guards) \cup (IF stale THEN judge_stale(found, allow) ELSE {})

run(docsets, allow, owner) ==
    judge(rendered_findings(docsets, owner), allow, TRUE, admission_guards(docsets))

(***************************************************************************)
(* The live mode: the cluster answers instead of the render.               *)
(***************************************************************************)
accounts(docs) ==
    {[ns |-> Landed(w.ns, NS), name |-> IF w.sa = "" THEN "default" ELSE w.sa] : w \in docs.workloads}
    \cup UNION {{subject_sa(s, scope_of(b)) : s \in {s \in b.subjects : s.kind = "ServiceAccount"}} :
             b \in docs.bindings}

can_i(docs, sa, verb, name) ==
    ApiAllows(docs, sa, Request(verb, "", Res("secrets"), NS, name), NS)

live_reads(docs, owner) ==
    {r \in accounts(docs) \X READ_VERBS \X (owner \cup {""}) :
        ~(r[2] = "get" /\ r[3] = "") /\ can_i(docs, r[1], r[2], r[3])}

rules_review(docs, sa, ns) == ApiRules(docs, sa, ns, NS)

live_takeovers(docs, owner, holders, targets, sas) ==
    LET roles == role_rules(docs, NS)
        spaces == {NS} \cup {sa.ns : sa \in sas}
        scoped(h, ns) == powers(rules_review(docs, h, ns), ns, h,
                                {w \in targets : w.ns = ns}, {s \in sas : s.ns = ns}, roles, owner)
        cluster(h) == {r \in rules_review(docs, h, NS) :
                          {Res("users"), SubRes("nodes", "proxy"), All} \cap r.resources # {}}
        wide(h) == {p \in powers(cluster(h), Anywhere, h, targets, sas, roles, owner) :
                       p[1] \in {"impersonate", "exec"}}
    IN  UNION {UNION {{<<h, p[1], p[2]>> : p \in scoped(h, ns)} : ns \in spaces}
               \cup {<<h, p[1], p[2]>> : p \in wide(h)} : h \in holders}

\* liveNs: the namespaces whose readers the allowlist admits as a whole.
live(docs, allow, owner, liveNs) ==
    LET all == live_reads(docs, owner)
        t == reader_targets(workloads(docs, NS), owner, {r[1] : r \in all})
        holders == {sa \in accounts(docs) : sa.ns \notin liveNs}
    IN  judge([mounts |-> mount_readers(docs, owner),
               reads |-> {r \in all : r[1].ns \notin liveNs}, errors |-> {},
               takeovers |-> live_takeovers(docs, owner, holders, t.targets, t.sas)],
              allow, FALSE, admission_guards({docs}))

(***************************************************************************)
(* Properties, of a render docs and what the guard found in it.            *)
(***************************************************************************)
\* The cluster after the install: the render, and the roles it came with.
Installed(docs) ==
    [docs EXCEPT !.roles = @ \cup {[kind |-> "ClusterRole", ns |-> "", name |-> n, labels |-> {},
        select |-> {}, rules |-> BUILTIN_ROLES[n]] : n \in DOMAIN BUILTIN_ROLES}]

\* The two modes of the guard agree: the ServiceAccounts it finds in the render
\* are the ones the API server answers yes for once the render is installed.
\* A binding that the render mode cannot judge is an error instead.
ReadersAgree(docs, owner, found) ==
    found.errors = {} =>
        {r[1] : r \in found.reads} = {r[1] : r \in live_reads(Installed(docs), owner)}

\* The request by which holder h gets the power over workload w, as the API
\* server sees it.  The name of a pod of a Deployment is not known.
PodsOf(w) ==
    CASE w.kind = "Pod" -> {w.name}
      [] w.kind = "StatefulSet" -> {w.name \o "-" \o ToString(i) : i \in 0..MaxOrdinal}
      [] OTHER -> {"(generated)"}

Takes(docs, h, w, power) ==
    LET May(verb, group, res, ns, name) == ApiAllows(docs, h, Request(verb, group, res, ns, name), NS)
        Edit(group, res, name) == \E v \in {"patch", "update"} : May(v, group, res, w.ns, name)
        AllPods == Res("pods")
    IN  CASE power = "exec" ->
               \/ \E pod \in PodsOf(w) :
                     \/ \E v \in {"create", "get"}, x \in {"exec", "attach"} :
                           May(v, "", SubRes("pods", x), w.ns, pod)
                     \/ Edit("", SubRes("pods", "ephemeralcontainers"), pod)
               \/ May("get", "", SubRes("nodes", "proxy"), "(cluster)", "node")
          [] power = "patch" ->
               \/ \E pod \in PodsOf(w) : Edit("", AllPods, pod)
               \/ w.kind \in DOMAIN KIND_RESOURCE
                  /\ Edit(KIND_RESOURCE[w.kind][1], Res(KIND_RESOURCE[w.kind][2]), w.name)
          [] power = "token" ->
               May("create", "", SubRes("serviceaccounts", "token"), w.sa.ns, w.sa.name)
          [] power = "impersonate" ->
               \/ May("impersonate", "", Res("serviceaccounts"), w.sa.ns, w.sa.name)
               \/ May("impersonate", "", Res("users"), "(cluster)", UserName(w.sa))

\* Every ServiceAccount that the API server lets exec into, change, or act as
\* a reader of an owner credential is among the takeovers of the render, under
\* the power it has: wildcards, subresources, names and scopes included.
TakeoversFound(docs, owner, found) ==
    \A h \in accounts(docs), w \in workloads(docs, Landed(docs.firstNs, NS)) :
        (/\ h # w.sa
         /\ (w.ns = NS /\ secret_uses(w, owner) # {})
              \/ \E v \in READ_VERBS, n \in owner \cup {""} : can_i(Installed(docs), w.sa, v, n))
        => \A p \in {"exec", "patch", "token", "impersonate"} :
              Takes(Installed(docs), h, w, p) =>
                  <<h, p, IF p \in {"exec", "patch"} THEN Wid(w) ELSE Sid(w.sa)>> \in found.takeovers

\* The allowlist written from what --print shows.
Printed(found) ==
    [mounts |-> found.mounts,
     readers |-> [sa \in {r[1] : r \in found.reads} |->
                     [class |-> "bootstrap", liveOnly |-> FALSE, removedBy |-> ""]],
     takeovers |-> [k \in {<<t[1], t[2]>> : t \in found.takeovers} |->
                     [class |-> "infrastructure", liveOnly |-> FALSE, removedBy |-> "", guardedBy |-> "",
                      targets |-> {t[3] : t \in {t \in found.takeovers : <<t[1], t[2]>> = k}}]]]

Without(f, k) == [x \in DOMAIN f \ {k} |-> f[x]]

With(f, k, entry) == [x \in DOMAIN f \cup {k} |-> IF x = k THEN entry ELSE f[x]]

\* Entries that were right before a grant was taken away.
GoneSa == [ns |-> NS, name |-> "gone"]
GoneReader(liveOnly) == [class |-> "bootstrap", liveOnly |-> liveOnly, removedBy |-> ""]
GoneTakeover(liveOnly) == [class |-> "infrastructure", liveOnly |-> liveOnly, removedBy |-> "",
                       guardedBy |-> "", targets |-> {"Deployment/gone"}]

\* The allowlist is neither too wide nor too narrow.  The one written from the
\* render passes.  It fails as soon as it loses one mount, one reader, one
\* takeover or one target.  It also fails with a mount, a reader, a takeover, a
\* second power of a holder or a target that the render does not have, so no
\* entry outlives its grant; only a reader and a takeover marked live-only,
\* which a render cannot show, may be absent.
AllowlistTight(docs, owner, found) ==
    LET allow == Printed(found)
        Verdict(a) == judge([found EXCEPT !.errors = {}], a, TRUE, admission_guards({docs}))
    IN  /\ load_allowlist(allow) /\ Verdict(allow) = {}
        /\ \A m \in allow.mounts : Verdict([allow EXCEPT !.mounts = @ \ {m}]) # {}
        /\ \A k \in DOMAIN allow.readers : Verdict([allow EXCEPT !.readers = Without(@, k)]) # {}
        /\ \A k \in DOMAIN allow.takeovers :
              /\ Verdict([allow EXCEPT !.takeovers = Without(@, k)]) # {}
              /\ \A t \in allow.takeovers[k].targets :
                    Verdict([allow EXCEPT !.takeovers[k].targets = @ \ {t}]) # {}
              /\ Verdict([allow EXCEPT !.takeovers[k].targets = @ \cup {"Deployment/gone"}]) # {}
        /\ Verdict([allow EXCEPT !.mounts = @ \cup {<<"Deployment/gone", <<"iam-admin", {"*"}>>>>}]) # {}
        /\ \A liveOnly \in BOOLEAN :
              /\ Verdict([allow EXCEPT !.readers = With(@, GoneSa, GoneReader(liveOnly))]) = {} <=> liveOnly
              /\ \A h \in {GoneSa} \cup {k[1] : k \in DOMAIN allow.takeovers}, p \in POWERS :
                    <<h, p>> \notin DOMAIN allow.takeovers =>
                       (Verdict([allow EXCEPT !.takeovers = With(@, <<h, p>>, GoneTakeover(liveOnly))]) = {}
                           <=> liveOnly)
=============================================================================
