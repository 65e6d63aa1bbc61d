---------------------------- MODULE RbacFixtures ----------------------------
(***************************************************************************)
(* The inputs of the three RBAC guards: the fixtures of                    *)
(* check-owner-credential-readers.py, the Role and the calls of            *)
(* check-kubectl-rbac.py, and the scripts of                               *)
(* check-secret-reads-granted.py.                                          *)
(***************************************************************************)
EXTENDS OwnerReaders, SequencesExt

Owner == {"iam-admin-pat", "iam-admin", "gibson-zitadel-system-key"}

Empty == [workloads |-> {}, roles |-> {}, bindings |-> {}, policies |-> {}, denies |-> {},
          firstNs |-> ""]

\* docs_of: the documents of several fixtures in one render.
docs_of(a, b) ==
    [workloads |-> a.workloads \cup b.workloads, roles |-> a.roles \cup b.roles,
     bindings |-> a.bindings \cup b.bindings, policies |-> a.policies \cup b.policies,
     denies |-> a.denies \cup b.denies,
     firstNs |-> IF a.firstNs # "" THEN a.firstNs ELSE b.firstNs]

Workload(kind, name, sa, uses) ==
    [Empty EXCEPT !.firstNs = NS,
        !.workloads = {[kind |-> kind, ns |-> NS, name |-> name, sa |-> sa, uses |-> uses]}]

Use(via, secret, keys) == {[via |-> via, secret |-> secret, keys |-> keys]}

Subject(kind, ns, name) == {[kind |-> kind, ns |-> ns, name |-> name]}
App(ns) == Subject("ServiceAccount", ns, "app")

RoleDoc(kind, ns, name, labels, select, rules) ==
    {[kind |-> kind, ns |-> ns, name |-> name, labels |-> labels, select |-> select,
      rules |-> rules]}

BindingDoc(kind, ns, name, refKind, refName, subjects) ==
    {[kind |-> kind, ns |-> ns, name |-> name, ref |-> [kind |-> refKind, name |-> refName],
      subjects |-> subjects]}

\* A role and its binding: in namespace ns, or of the whole cluster (ns = "").
Grant(ns, name, rules, subjects) ==
    [Empty EXCEPT !.firstNs = ns,
        !.roles = RoleDoc(IF ns = "" THEN "ClusterRole" ELSE "Role", ns, name, {}, {}, rules),
        !.bindings = BindingDoc(IF ns = "" THEN "ClusterRoleBinding" ELSE "RoleBinding", ns, name,
                                IF ns = "" THEN "ClusterRole" ELSE "Role", name, subjects)]

FIXTURE_BASE ==
    docs_of(Grant(NS, "boot", {Rule({""}, {Res("secrets")}, {"get"}, {"iam-admin-pat"})},
                  Subject("ServiceAccount", NS, "boot")),
            Workload("Job", "boot", "boot", {}))

Secrets(verbs, names) == Rule({""}, {Res("secrets")}, verbs, names)

FIXTURES_THAT_MUST_FAIL ==
    {Workload("Deployment", "app", "", Use("volume", "iam-admin-pat", {})),
     Workload("CronJob", "app", "", Use("env", "iam-admin", {"iam-admin.json"})),
     Workload("StatefulSet", "app", "", Use("envFrom", "gibson-zitadel-system-key", {})),
     Workload("Pod", "app", "", Use("projected", "iam-admin-pat", {})),
     Grant(NS, "wide", {Secrets({"get", "list"}, {})}, App(NS)),
     Grant("", "star", {Rule({"*"}, {All}, {"watch"}, {})}, App("other")),
     Grant(NS, "named", {Secrets({"get"}, {"iam-admin"})}, App(NS)),
     [Empty EXCEPT !.bindings = BindingDoc("RoleBinding", NS, "editor", "ClusterRole", "edit", App(NS))],
     [Empty EXCEPT
        !.roles = RoleDoc("ClusterRole", "", "agg", {},
                          {[match |-> {<<"agg", "true">>}, exprs |-> {}]}, {})
                  \cup RoleDoc("ClusterRole", "", "part", {<<"agg", "true">>}, {},
                               {Secrets({"list"}, {})}),
        !.bindings = BindingDoc("ClusterRoleBinding", "", "agg", "ClusterRole", "agg", App(NS))],
     Grant(NS, "grp", {Secrets({"get"}, {})}, Subject("Group", "", "system:serviceaccounts:gibson")),
     [Empty EXCEPT !.bindings = BindingDoc("RoleBinding", NS, "ext", "ClusterRole",
                                           "somebody-elses-role", App(NS))]}

FIXTURES_THAT_MUST_PASS ==
    {Grant(NS, "other", {Secrets({"get"}, {"gibson-redis-stack"})}, App(NS)),
     Grant("tenant-a", "wide", {Secrets(READ_VERBS, {})}, App(NS)),
     Grant(NS, "create", {Secrets({"create"}, {})}, App(NS)),
     Workload("Pod", "app", "", Use("env", "gibson-redis-stack", {"p"}))}

TAKEOVER_BASE == docs_of(Workload("Deployment", "reader", "boot", {}),
                         Workload("StatefulSet", "cache", "cache", {}))

grant_fixture(rules, cluster, ns) == Grant(IF cluster THEN "" ELSE ns, "t", rules, App(NS))

READS_SECRETS_ROLE ==
    [Empty EXCEPT !.roles =
        RoleDoc("ClusterRole", "", "secret-reader", {}, {}, {Secrets({"list"}, {})})
        \cup RoleDoc("ClusterRole", "", "config-reader", {}, {},
                     {Rule({""}, {Res("configmaps")}, {"list"}, {})})]

Core(base, sub, verbs, names) == {Rule({""}, {<<base, sub>>}, verbs, names)}
Apps(bases, verbs, names) == {Rule({"apps"}, {Res(b) : b \in bases}, verbs, names)}
Rbac(base, verbs, names) == {Rule({RBAC_GROUP}, {Res(base)}, verbs, names)}
Here(rules) == grant_fixture(rules, FALSE, NS)
Wide(rules) == grant_fixture(rules, TRUE, NS)
Binds(role) == docs_of(Wide(Rbac("rolebindings", {"create"}, {}) \cup Rbac("clusterroles", {"bind"}, {role})),
                       READS_SECRETS_ROLE)

TAKEOVERS_THAT_MUST_FAIL ==
    {Here(Core("pods", "exec", {"create"}, {})), Here(Core("pods", "exec", {"get"}, {})),
     Here(Core("pods", "attach", {"create"}, {})),
     Here(Core("pods", "ephemeralcontainers", {"patch"}, {})),
     Here(Apps({"deployments", "statefulsets"}, {"patch"}, {})),
     Here(Apps({"deployments"}, {"patch"}, {"reader"})),
     Here(Core("pods", "", {"update"}, {})), Here(Core("pods", "", {"create"}, {})),
     Here({Rule({"batch"}, {Res("jobs")}, {"create"}, {})}),
     Wide(Core("serviceaccounts", "token", {"create"}, {})),
     Here(Core("serviceaccounts", "token", {"create"}, {"boot"})),
     Here(Core("serviceaccounts", "", {"impersonate"}, {})),
     Wide(Core("users", "", {"impersonate"}, {"system:serviceaccount:gibson:boot"})),
     Binds("secret-reader"),
     Here(Rbac("roles", {"create", "escalate"}, {})),
     Wide({Rule({"*"}, {All}, {"*"}, {})}),
     Wide(Core("nodes", "proxy", {"get"}, {}))}

TAKEOVERS_THAT_MUST_PASS ==
    {Here(Core("pods", "exec", {"create"}, {"cache-0"})),
     Here(Apps({"deployments"}, {"patch"}, {"other"})),
     Here(Core("serviceaccounts", "token", {"create"}, {"app"})),
     grant_fixture(Core("pods", "", {"create"}, {}), FALSE, "tenant-a"),
     Binds("config-reader"),
     Here({Rule({"", "apps"}, {Res("pods"), Res("deployments")}, READ_VERBS, {})})}

VAP_FIXTURE == [Empty EXCEPT !.policies = {"fence"},
                             !.denies = {[policy |-> "fence", actions |-> {"Deny"}]}]

BootEntry == [class |-> "bootstrap", liveOnly |-> FALSE, removedBy |-> ""]

SELFTEST_ALLOW ==
    [mounts |-> {}, takeovers |-> [k \in {} |-> BootEntry],
     readers |-> [k \in {[ns |-> NS, name |-> "boot"]} |-> BootEntry]]

base == docs_of(FIXTURE_BASE, TAKEOVER_BASE)

Listed(targets, guardedBy) ==
    [SELFTEST_ALLOW EXCEPT !.takeovers =
        [k \in {<<[ns |-> NS, name |-> "app"], "patch">>} |->
            [class |-> "infrastructure", targets |-> targets, guardedBy |-> guardedBy,
             liveOnly |-> FALSE, removedBy |-> ""]]]

named == Here(Apps({"deployments"}, {"patch"}, {"reader"}))

(***************************************************************************)
(* KubectlRbac: the Role and the calls of the redis rotation, each with a  *)
(* rule or a call changed the way the guard's selftest changes it.         *)
(***************************************************************************)
Account == [ns |-> "gibson", name |-> "gibson-redis-rotation"]

RotationRules ==
    {Rule({""}, {Res("secrets")}, {"get"}, {"gibson-redis-stack"}),
     Rule({""}, {Res("secrets")}, {"create"}, {}),
     Rule({""}, {Res("secrets")}, {"get", "update", "patch", "delete"}, {"gibson-redis-rotation-state"}),
     Rule({"apps"}, {Res("statefulsets")}, {"get"}, {"gibson-gibson-workloads"}),
     Rule({""}, {Res("pods")}, {"get", "list", "delete"}, {}),
     Rule({""}, {SubRes("pods", "exec")}, {"create"}, {"gibson-redis-stack-0"})}

RoleOf(ns, rules) ==
    [Grant(ns, "gibson-redis-rotation", rules, Subject("ServiceAccount", "gibson", "gibson-redis-rotation"))
        EXCEPT !.firstNs = ""]

SELFTEST_RENDER == RoleOf("gibson", RotationRules)

Renders ==
    {SELFTEST_RENDER, [SELFTEST_RENDER EXCEPT !.bindings = {}],
     RoleOf("gibson", {r \in RotationRules : r.resources # {Res("pods")}}),
     RoleOf("gibson", {Rule(r.groups, r.resources, r.verbs, r.names \ {"gibson-redis-rotation-state"}) :
                          r \in RotationRules}),
     RoleOf("gibson", {Rule(r.groups, r.resources, r.verbs \cup {"create", "list", "watch"}, r.names) :
                          r \in {r \in RotationRules : r.names # {}}}),
     RoleOf("other", RotationRules),
     RoleOf("", {Rule({"*"}, {All}, {"get", "list", "create"}, {})})}

Argv(ws) == [i \in DOMAIN ws |-> Word(ws[i])]
InGibson(ws) == Argv(<<"-n", "gibson">> \o ws)

GetStack == InGibson(<<"get", "secret", "gibson-redis-stack">>)
Exec == InGibson(<<"exec", "-i", "gibson-redis-stack-0", "-c", "redis-stack", "--", "sh", "-n">>)
GetWorkloads == InGibson(<<"get">>) \o <<Flag("statefulset", "gibson-gibson-workloads")>>
ListPods == InGibson(<<"get", "pods", "-l", "app=x", "-o", "json">>)
DeletePod == InGibson(<<"delete", "pod", "x-0">>)
DeleteNoWait == DeletePod \o <<Flag("--wait", "false")>>
Create(name) == InGibson(<<"create", "secret", "generic", name>>) \o <<Flag("--dry-run", "client")>>
Apply == Argv(<<"apply", "-f", "-">>)
Pipe(name) == <<Create(name), Apply>>

SELFTEST_CALLS == <<<<GetStack>>, <<Exec>>, <<GetWorkloads>>, <<ListPods>>, <<DeleteNoWait>>,
                    Pipe("gibson-redis-rotation-state")>>

Single == {GetStack, Exec, ListPods, DeletePod, DeleteNoWait, Apply,
           InGibson(<<"get", "pods", "--watch-only">>), InGibson(<<"get", "pods", "--frobnicate">>),
           InGibson(<<"exec", "gibson-openbao-0", "--", "sh">>),
           InGibson(<<"annotate", "sts", "gibson-gibson-workloads">>),
           InGibson(<<"rollout", "status">>) \o <<Flag("sts", "gibson-gibson-workloads")>>,
           InGibson(<<"rollout", "restart">>) \o <<Flag("sts", "gibson-gibson-workloads")>>,
           Argv(<<"get", "secret", "-n", "kube-system", "gibson-redis-stack">>),
           InGibson(<<"create", "secret", "generic", "x">>), InGibson(<<"create", "-f", "x">>),
           Argv(<<"version">>), Argv(<<"cp", "a", "b">>)}

Scripts ==
    {SELFTEST_CALLS, <<>>} \cup {<<<<a>>, <<b>>>> : a \in Single, b \in Single}
    \cup {<<Pipe(n), <<a>>, Pipe(m)>> : n, m \in {"gibson-redis-rotation-state", "x"}, a \in {GetStack, Exec}}
    \cup {<<Pipe(n), Pipe(m)>> \o rest : n, m \in {"gibson-redis-rotation-state", "x"},
             rest \in {<<>>, <<<<GetStack>>>>, <<Pipe("y")>>}}

(***************************************************************************)
(* SecretReads: two statements, then a read, in the script and in its      *)
(* function.                                                               *)
(***************************************************************************)
PodAccount == [ns |-> "gibson", name |-> "op"]

RbacOf(names) ==
    Grant("gibson", "op", {Secrets({"get"}, names)}, Subject("ServiceAccount", "", "op"))

Clusters == {RbacOf({"a"}), RbacOf({"a", "b"}), RbacOf({"redis-pw", "a", "b", "c"}),
             RbacOf({"a", "b", "c"})}

A == Lit(Name("a"))
B == Lit(Name("b"))
Read(tok) == Stmt("get", "", <<tok, Absent>>, 0)

\* The statements of the small scripts: variables n and e, array r.
Small ==
    {Stmt("assign", "n", <<A>>, 0), Stmt("assign", "n", <<B>>, 0),
     Stmt("assign", "n", <<Var("e")>>, 0), Stmt("assign", "e", <<A>>, 0),
     Stmt("assign", "e", <<Lit(<<<<"a", "x">>, <<"b", "y">>>>)>>, 0),
     Stmt("assign", "n", <<Lit(Unset)>>, 0),
     Stmt("array", "r", <<A, B>>, 0),
     Stmt("field", "n", <<Var("e")>>, 0),
     Stmt("for", "n", <<Var("e")>>, 1), Stmt("for", "e", <<Var("e")>>, 1),
     Stmt("for", "n", <<Elems("r")>>, 1),
     Stmt("call", "", <<A>>, 0), Stmt("call", "", <<Var("n")>>, 0)}

FnBodies ==
    {<<>>, <<Stmt("assign", "f", <<Pos>>, 1), Read(Var("f"))>>}

KeyList(x) == Lit(<<<<"b", "x">>, <<x, "y">>>>)

\* The two containers of the fixture, and the edits of the selftest.
Wait(ns) ==
    [env |-> [v \in {} |-> Unset],
     script |-> [main |-> <<Stmt("assign", "name", <<Lit(Name("redis-pw"))>>, 0),
                            Stmt("assign", "ns", <<Lit(Name(ns))>>, 0),
                            Stmt("get", "", <<Var("name"), Var("ns")>>, 0)>>,
                 fn |-> <<>>]]

Has(arg, entries, field, last) ==
    [env |-> [v \in {"ONE"} |-> Name("a")],
     script |-> [main |-> <<Stmt("call", "", <<Lit(Name("gibson")), arg>>, 0),
                            Stmt("assign", "ENTRIES", <<entries>>, 0),
                            Stmt("for", "e", <<Var("ENTRIES")>>, 2), field, last>>,
                 fn |-> <<Stmt("assign", "ns", <<Pos>>, 1), Stmt("assign", "name", <<Pos>>, 2),
                          Stmt("get", "", <<Var("name"), Var("ns")>>, 0)>>]]

Field == Stmt("field", "S", <<Var("e")>>, 0)
GetS == Stmt("get", "", <<Var("S"), Lit(Name("gibson"))>>, 0)

FIXTURE ==
    {Wait("gibson"), Wait("tenant-a"), Has(Var("ONE"), KeyList("c"), Field, GetS),
     Has(Lit(Name("other")), KeyList("c"), Field, GetS), Has(Var("ONE"), KeyList("d"), Field, GetS),
     Has(Var("ONE"), KeyList("c"), Field, Stmt("get", "", <<Absent, Lit(Name("gibson"))>>, 0)),
     Has(Var("ONE"), KeyList("c"), Stmt("assign", "S", <<Opaque>>, 0), GetS)}

Containers ==
    FIXTURE \cup
    {[env |-> e, script |-> [main |-> <<s1, s2, last>>, fn |-> f]] :
        e \in {[v \in {} |-> Unset], [v \in {"n"} |-> Name("b")], [v \in {"e"} |-> Name("a")]},
        s1 \in Small, s2 \in Small, last \in {Read(Var("n")), Read(A), Stmt("get", "", <<Absent, Absent>>, 0)},
        f \in FnBodies}

(***************************************************************************)
(* OwnerReaders: the base fixture with any two of the guard's fixtures.    *)
(***************************************************************************)
Fixtures == FIXTURES_THAT_MUST_FAIL \cup FIXTURES_THAT_MUST_PASS
            \cup TAKEOVERS_THAT_MUST_FAIL \cup TAKEOVERS_THAT_MUST_PASS \cup {VAP_FIXTURE}

\* The second fixture binds other names, so that no name is rendered twice.
Renamed(f) ==
    [f EXCEPT !.bindings = {[b EXCEPT !.name = @ \o "-2", !.ref.name =
                               IF \E r \in f.roles : r.name = b.ref.name THEN @ \o "-2" ELSE @] : b \in @},
              !.roles = {[r EXCEPT !.name = IF @ \in {"secret-reader", "config-reader"}
                                              THEN @ ELSE @ \o "-2"] : r \in @},
              !.workloads = {[w EXCEPT !.name = @ \o "-2"] : w \in @}]

Charts == {docs_of(docs_of(base, f), Renamed(g)) : f \in Fixtures, g \in Fixtures}
=============================================================================
