----------------------------- MODULE SecretReads -----------------------------
(***************************************************************************)
(* scripts/check-secret-reads-granted.py: every Secret that a container    *)
(* script reads with kubectl is one its ServiceAccount may read.  The      *)
(* guard resolves the names statically, without the order of the script;   *)
(* the container later runs the script, with branches, loops and calls.    *)
(*                                                                         *)
(* Scripts are those of RbacApi; none calls its function in the            *)
(* condition of an if, where calls() does not see the call.                *)
(***************************************************************************)
EXTENDS OwnerReaders, SequencesExt

CONSTANTS Clusters,    \* the RBAC objects a run may install: docs records
          Containers,  \* [env, script]: the containers of the pod
          PodAccount   \* the ServiceAccount of the pod: [ns, name]

VARIABLES docs, container,
          verdict,     \* what the guard printed in CI
          env, args,   \* the shell variables, the arguments of the function
          frame,       \* "main" or "fn"
          pc, ret,     \* the next statement, and where the function returns
          saved,       \* the variables at the call (local)
          read         \* the last Secret read: <<>> or [verb, ns, name]

vars == <<docs, container, verdict, env, args, frame, pc, ret, saved, read>>

(***************************************************************************)
(* The resolver: the set of values a token may have, whatever the order of *)
(* the statements.                                                         *)
(***************************************************************************)
Unresolved == [ok |-> FALSE, vals |-> {}]
Resolved(vals) == [ok |-> TRUE, vals |-> vals]

Union(rs) == IF \A r \in rs : r.ok THEN Resolved(UNION {r.vals : r \in rs}) ELSE Unresolved

Statements(c) == ToSet(c.script.main) \cup ToSet(c.script.fn)

ShellVars(c) == {s.var : s \in Statements(c)} \cup DOMAIN c.env

\* The rules of a variable: every statement that sets it.  A $1 outside the
\* function, and an empty value, set nothing the resolver knows.
parse_rules(c, var) ==
    {s \in Statements(c) : s.var = var /\ s.op \in {"assign", "array", "field", "for"}
        /\ ~(s.op = "assign" /\ s.toks[1] = Lit(Unset))}

\* Only a line that starts with the name of the function is read as a call.
calls(c) == {s.toks : s \in {s \in Statements(c) : s.op = "call"}}

\* V gives the values of the variables one reference closer to literals.
token_values(V, tok) ==
    CASE tok.t = "lit" -> Resolved({tok.v})
      [] tok.t = "var" -> IF Plain(tok.v) \in DOMAIN V THEN V[Plain(tok.v)] ELSE Unresolved
      [] OTHER -> Unresolved

Words(vals) == UNION {{<<w>> : w \in ToSet(g)} : g \in vals}

\* Resolver._rule: the values one statement gives its variable.
rule_values(c, V, s, inFn) ==
    CASE s.op = "assign" /\ s.toks[1].t = "pos" ->
           IF ~inFn THEN Unresolved
           ELSE Union({IF Len(a) < s.i THEN Unresolved
                       ELSE token_values(V, a[s.i]) : a \in calls(c)})
      [] s.op = "assign" -> token_values(V, s.toks[1])
      [] s.op = "array" -> Resolved({t.v : t \in ToSet(s.toks)})
      [] s.op = "for" ->
           Union({CASE t.t = "elems" -> token_values(V, Var(Plain(t.v)))
                    [] t.t = "lit" -> Resolved({t.v})
                    [] OTHER -> LET r == token_values(V, t)
                                IN  IF r.ok THEN Resolved(Words(r.vals)) ELSE r
                  : t \in ToSet(s.toks)})
      [] s.op = "field" ->
           LET src == token_values(V, s.toks[1])
           IN  IF ~src.ok \/ \E g \in src.vals : Len(g[1]) <= s.i THEN Unresolved
               ELSE Resolved({Name(g[1][s.i + 1]) : g \in src.vals})

\* Mutant: the environment of the container is not looked up.
values_no_env(c) ==
    LET n == Cardinality(ShellVars(c))
        V[k \in 0..n] ==
          [v \in ShellVars(c) |->
              LET all == {rule_values(c, V[k - 1], s, s \in ToSet(c.script.fn)) : s \in parse_rules(c, v)}
                  got == Union(all)
              IN  IF k = 0 \/ ~got.ok \/ got.vals = {} THEN Unresolved ELSE got]
    IN  V[n]

\* Resolver.values: the environment and every rule together; a reference that
\* comes back to itself, a rule that does not resolve, and no value at all
\* leave the variable unresolved.  A chain of references longer than the
\* number of variables comes back to itself.
values(c) ==
    LET n == Cardinality(ShellVars(c))
        V[k \in 0..n] ==
          [v \in ShellVars(c) |->
              LET fromEnv == IF v \in DOMAIN c.env THEN {Resolved({c.env[v]})} ELSE {}
                  got == Union(fromEnv \cup {rule_values(c, V[k - 1], s, s \in ToSet(c.script.fn)) :
                                                 s \in parse_rules(c, v)})
              IN  IF k = 0 \/ ~got.ok \/ got.vals = {} THEN Unresolved ELSE got]
    IN  V[n]

\* Each kubectl get of the script: its name and its namespace.
secret_reads(c) == {s.toks : s \in {s \in Statements(c) : s.op = "get"}}

can(d, sa, verb, ns, name) ==
    LET roles == role_rules(d, NS)
    IN  \E b \in d.bindings :
          LET bns == scope_of(b)
              rules == by_ref(roles, b.ref.kind, bns, b.ref.name)
          IN  /\ bns \in {Anywhere, ns}
              /\ \E s \in b.subjects : s.kind = "ServiceAccount" /\ subject_sa(s, bns) = sa
              /\ rules # Unknown /\ \E r \in rules : rule_allows(r, verb, name)

check(d, c, sa) ==
    LET V == values(c)
        of(tok, absent) == IF tok = Absent THEN Resolved({absent}) ELSE token_values(V, tok)
    IN  UNION {LET spaces == of(g[2], Name(sa.ns))
                   names == of(g[1], Name(""))
                   verb == IF g[1] = Absent THEN "list" ELSE "get"
               IN  IF ~spaces.ok \/ ~names.ok THEN {<<"cannot resolve", g>>}
                   ELSE {<<verb, Plain(p[1]), Plain(p[2])>> : p \in
                            {p \in spaces.vals \X names.vals :
                                ~can(d, sa, verb, Plain(p[1]), Plain(p[2]))}}
               : g \in secret_reads(c)}

(***************************************************************************)
(* The shell runs the script.  A condition of the script is a choice.      *)
(***************************************************************************)
Code == IF frame = "main" THEN container.script.main ELSE container.script.fn

Expand(tok) ==
    CASE tok.t = "lit" -> tok.v
      [] tok.t \in {"var", "elems"} ->
           IF Plain(tok.v) \in DOMAIN env THEN env[Plain(tok.v)] ELSE Unset
      [] tok.t = "pos" -> IF Code[pc].i <= Len(args) THEN args[Code[pc].i] ELSE Unset
      [] tok.t = "opaque" -> Name("?")

Init ==
    /\ docs \in Clusters /\ container \in Containers
    /\ verdict = check(docs, container, PodAccount)
    /\ env = [v \in ShellVars(container) |->
                 IF v \in DOMAIN container.env THEN container.env[v] ELSE Unset]
    /\ args = <<>> /\ frame = "main" /\ pc = 1 /\ ret = 0 /\ read = <<>>
    /\ saved = env

Set(v, value) == env' = [env EXCEPT ![v] = value]

\* The pod starts only when the guard let the chart through.
Runs(op) == verdict = {} /\ pc <= Len(Code) /\ Code[pc].op = op

Assign ==
    /\ \/ Runs("assign") /\ Set(Code[pc].var, Expand(Code[pc].toks[1]))
       \/ /\ Runs("array")
          /\ Set(Code[pc].var, [i \in DOMAIN Code[pc].toks |-> Code[pc].toks[i].v[1]])
       \/ /\ Runs("field")
          /\ LET v == Expand(Code[pc].toks[1])
             IN  v # Unset /\ Len(v[1]) > Code[pc].i /\ Set(Code[pc].var, Name(v[1][Code[pc].i + 1]))
    /\ pc' = pc + 1
    /\ UNCHANGED <<docs, container, verdict, args, frame, ret, saved, read>>

\* One pass of a loop: the variable is one word of the list.
ForWord ==
    /\ Runs("for")
    /\ \E t \in ToSet(Code[pc].toks) : \E w \in ToSet(Expand(t)) : Set(Code[pc].var, <<w>>)
    /\ pc' = pc + 1
    /\ UNCHANGED <<docs, container, verdict, args, frame, ret, saved, read>>

\* The end of a loop body: the next word.
ForNext ==
    /\ verdict = {}
    /\ \E j \in DOMAIN Code : Code[j].op = "for" /\ pc = j + Code[j].i + 1 /\ pc' = j
    /\ UNCHANGED <<docs, container, verdict, env, args, frame, ret, saved, read>>

Call ==
    /\ Runs("call") /\ frame = "main"
    /\ args' = [i \in DOMAIN Code[pc].toks |-> Expand(Code[pc].toks[i])]
    /\ frame' = "fn" /\ ret' = pc + 1 /\ pc' = 1 /\ saved' = env
    /\ UNCHANGED <<docs, container, verdict, env, read>>

\* The variables of the function are local, or they are not.
Return ==
    /\ verdict = {} /\ frame = "fn" /\ pc > Len(Code)
    /\ frame' = "main" /\ pc' = ret /\ env' \in {env, saved}
    /\ UNCHANGED <<docs, container, verdict, args, ret, saved, read>>

\* kubectl asks the API server; a variable that is not set reads nothing.
Get ==
    /\ Runs("get")
    /\ LET g == Code[pc].toks
           ns == IF g[2] = Absent THEN Name(PodAccount.ns) ELSE Expand(g[2])
           name == IF g[1] = Absent THEN Name("") ELSE Expand(g[1])
       IN  read' = IF ns = Unset \/ name = Unset THEN <<>>
                   ELSE <<IF g[1] = Absent THEN "list" ELSE "get", Plain(ns), Plain(name)>>
    /\ pc' = pc + 1
    /\ UNCHANGED <<docs, container, verdict, env, args, frame, ret, saved>>

\* A branch of the script not taken.
Skip ==
    /\ verdict = {} /\ pc <= Len(Code)
    /\ pc' = pc + 1
    /\ UNCHANGED <<docs, container, verdict, env, args, frame, ret, saved, read>>

Next == Assign \/ ForWord \/ ForNext \/ Call \/ Return \/ Get \/ Skip

Spec == Init /\ [][Next]_vars

(***************************************************************************)
(* Properties.                                                             *)
(***************************************************************************)
\* When the guard passes, no run of the script asks the API server for a
\* Secret that it refuses: not by a branch that leaves the value of the
\* environment in place, not by a second assignment, a loop, or the arguments
\* of another call (an init container that reads an ungranted Secret stays in
\* Init:CrashLoopBackOff).
NoReadRefused ==
    read # <<>> =>
        ApiAllows(docs, PodAccount, Request(read[1], "", Res("secrets"), read[2], read[3]), NS)
=============================================================================
