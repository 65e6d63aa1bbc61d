------------------------------- MODULE RbacApi -------------------------------
(***************************************************************************)
(* The RBAC authorizer of the Kubernetes API server, as the guards of      *)
(* scripts/ rely on it.  It is the reference the RBAC guards are checked   *)
(* against, and is external to the repository.                             *)
(*                                                                         *)
(* A rule is [groups, resources, verbs, names], each a set of strings; an  *)
(* empty set of names is a rule with no resourceNames.  A resource is a    *)
(* pair <<base, sub>>; "*" stands for <<"*", "">>, "pods/exec" for         *)
(* <<"pods", "exec">>.  A render is a record with the fields               *)
(*   roles    : set of [kind, ns, name, labels, rules, select]             *)
(*   bindings : set of [kind, ns, name, ref, subjects]                     *)
(* where select is the set of clusterRoleSelectors [match, exprs] of an    *)
(* aggregated ClusterRole, labels a set of pairs <<key, value>>, ref is    *)
(* [kind, name], and a subject is [kind, ns, name].  The namespace "" is   *)
(* an absent one.                                                          *)
(***************************************************************************)
EXTENDS Naturals, FiniteSets, Sequences

All == <<"*", "">>

Res(base) == <<base, "">>

SubRes(base, sub) == <<base, sub>>

Rule(groups, resources, verbs, names) ==
    [groups |-> groups, resources |-> resources, verbs |-> verbs, names |-> names]

\* A request without a name carries "": create, list, watch and
\* deletecollection of a whole resource.
Request(verb, group, res, ns, name) ==
    [verb |-> verb, group |-> group, res |-> res, ns |-> ns, name |-> name]

ApiResourceMatches(rule, res) ==
    \/ All \in rule.resources
    \/ res \in rule.resources
    \/ res[2] # "" /\ <<"*", res[2]>> \in rule.resources

ApiRuleAllows(rule, rq) ==
    /\ {rq.verb, "*"} \cap rule.verbs # {}
    /\ {rq.group, "*"} \cap rule.groups # {}
    /\ ApiResourceMatches(rule, rq.res)
    /\ rule.names = {} \/ rq.name \in rule.names

\* The ClusterRole aggregation controller: the rules of an aggregated role are
\* the rules of the roles its selectors match.
ApiSelects(sel, labels) ==
    /\ sel.match \subseteq labels
    /\ \A e \in sel.exprs :
          LET has == \E l \in labels : l[1] = e.key
              among == \E l \in labels : l[1] = e.key /\ l[2] \in e.values
          IN  /\ e.op \in {"In", "Exists"} => has
              /\ e.op = "In" => among
              /\ e.op = "NotIn" => ~among
              /\ e.op = "DoesNotExist" => ~has

ApiRoleRules(roles, role) ==
    role.rules \cup UNION {r.rules : r \in {o \in roles \ {role} :
        o.kind = "ClusterRole" /\ \E s \in role.select : ApiSelects(s, o.labels)}}

\* The namespace a manifest lands in when helm installs it in release.
Landed(ns, release) == IF ns = "" THEN release ELSE ns

ApiBound(roles, b, release) ==
    UNION {ApiRoleRules(roles, r) : r \in {r \in roles :
        /\ r.kind = b.ref.kind /\ r.name = b.ref.name
        /\ r.kind = "Role" => /\ b.kind = "RoleBinding"
                              /\ Landed(r.ns, release) = Landed(b.ns, release)}}

ApiSubject(b, sa, release) ==
    \E s \in b.subjects : /\ s.kind = "ServiceAccount"
                          /\ s.name = sa.name
                          /\ Landed(s.ns, Landed(b.ns, release)) = sa.ns

\* The rules that reach ServiceAccount sa in namespace ns.
ApiRules(docs, sa, ns, release) ==
    UNION {ApiBound(docs.roles, b, release) : b \in {b \in docs.bindings :
        /\ ApiSubject(b, sa, release)
        /\ b.kind = "RoleBinding" => Landed(b.ns, release) = ns}}

\* kubectl auth can-i, for a ServiceAccount.
ApiAllows(docs, sa, rq, release) ==
    \E rule \in ApiRules(docs, sa, rq.ns, release) : ApiRuleAllows(rule, rq)

(***************************************************************************)
(* The scripts of the pods, as data: what asks the API server.             *)
(*                                                                         *)
(* An argv is a sequence of tokens [w, v]: a word or flag w, with v the    *)
(* value of --flag=value, or the name of kind/name (NoValue for neither).  *)
(*                                                                         *)
(* A script is [main, fn], two sequences of statements; fn is the body of  *)
(* its shell function.  A statement is [op, var, toks, i]:                 *)
(*   assign var=tok            array  var=(toks)      field var=${src%%:*} *)
(*   for    var in toks, a loop over the next i statements                 *)
(*   call   fn toks                                                        *)
(*   get    kubectl get secret, toks are the name and the namespace        *)
(* For field, toks holds the source variable and i the field read; for an  *)
(* assignment of $1, i is the argument.                                    *)
(* A token of a statement is [t, v]: a literal, $var, $1 (pos), ${arr[@]}  *)
(* (elems), text no guard can read (opaque), or none (absent).  A value is *)
(* a sequence of words, a word a sequence of the fields between the        *)
(* separators.                                                             *)
(***************************************************************************)

NoValue == "(none)"
Word(w) == [w |-> w, v |-> NoValue]
Flag(w, v) == [w |-> w, v |-> v]

Name(n) == <<<<n>>>>
Unset == <<>>
\* The name a value is; a value of several words or fields names no Secret.
Plain(v) == IF Len(v) = 1 /\ Len(v[1]) = 1 THEN v[1][1] ELSE "(no name)"

Lit(v) == [t |-> "lit", v |-> v]
Var(v) == [t |-> "var", v |-> Name(v)]
Elems(v) == [t |-> "elems", v |-> Name(v)]
Pos == [t |-> "pos", v |-> <<>>]
Opaque == [t |-> "opaque", v |-> <<>>]
Absent == [t |-> "absent", v |-> <<>>]

Stmt(op, var, toks, i) == [op |-> op, var |-> var, toks |-> toks, i |-> i]
=============================================================================
