----------------------------- MODULE KubectlRbac -----------------------------
(***************************************************************************)
(* scripts/check-kubectl-rbac.py: the kubectl calls that a chart script    *)
(* makes are compared with the RBAC the render grants its ServiceAccount.  *)
(*                                                                         *)
(* A test runs the script against a stub kubectl that logs every argv; the *)
(* two kubectl processes of a pipe start at once, so their lines reach the *)
(* log in either order.  The guard then reads the log.                     *)
(*                                                                         *)
(* An argv is a sequence of tokens [w, v]: a word or flag w, with v the    *)
(* value of the form --flag=value (NoValue when there is no "=").          *)
(***************************************************************************)
EXTENDS RbacApi, SequencesExt

CONSTANTS Renders,   \* the renders a run may check
          Scripts,   \* the scripts: sequences of commands, a command is a
                     \* sequence of one argv, or of the two argvs of a pipe
          Account    \* the ServiceAccount of the scripts: [ns, name]

VARIABLES docs,      \* the render
          script,    \* the script the test runs
          pc,        \* the command that runs
          log,       \* the lines of the stub kubectl
          started,   \* the argvs of the running command that reached the log
          findings   \* what the guard printed; NotRun before it runs

vars == <<docs, script, pc, log, started, findings>>

NotRun == {<<"not run">>}

KINDS ==
    [k \in {"pod", "pods", "po", "secret", "secrets", "configmap", "cm",
            "statefulset", "sts", "deployment", "deploy"} |->
        CASE k \in {"pod", "pods", "po"} -> <<"", "pods">>
          [] k \in {"secret", "secrets"} -> <<"", "secrets">>
          [] k \in {"configmap", "cm"} -> <<"", "configmaps">>
          [] k \in {"statefulset", "sts"} -> <<"apps", "statefulsets">>
          [] k \in {"deployment", "deploy"} -> <<"apps", "deployments">>]

VALUE_FLAGS == {"-n", "--namespace", "-c", "-l", "--selector", "-o", "-f",
                "--filename", "--from-literal"}
BOOL_FLAGS == {"-i", "--ignore-not-found", "--wait", "--dry-run",
               "--save-config", "-w", "--watch", "--watch-only"}
FLAGS == VALUE_FLAGS \cup BOOL_FLAGS
CREATE_SHORTCUTS == {"secret", "configmap", "serviceaccount"}

(***************************************************************************)
(* The reader of one argv.                                                 *)
(***************************************************************************)
\* A token is taken as the value of the flag before it (skip), as the end of
\* the options (stop), as a flag or as a positional word.  err is the flag the
\* guard does not know.
parse(argv) ==
    LET Step(s, i) ==
          LET t == argv[i]
              isFlag == t.w \in FLAGS \cup {"--frobnicate"}
          IN  CASE s.stop \/ s.err # "" -> s
                [] s.skip -> [s EXCEPT !.skip = FALSE]
                [] t.w = "--" -> [s EXCEPT !.stop = TRUE]
                [] isFlag /\ t.w \notin FLAGS -> [s EXCEPT !.err = t.w]
                [] isFlag /\ t.v # NoValue ->
                      [s EXCEPT !.flags = Append(@, <<t.w, t.v>>)]
                [] t.w \in VALUE_FLAGS /\ i < Len(argv) ->
                      [s EXCEPT !.flags = Append(@, <<t.w, argv[i + 1].w>>),
                                !.skip = TRUE]
                [] t.w \in BOOL_FLAGS -> [s EXCEPT !.flags = Append(@, <<t.w, "">>)]
                [] t.w \in VALUE_FLAGS -> [s EXCEPT !.err = t.w]
                [] OTHER -> [s EXCEPT !.pos = Append(@, t)]
    IN  FoldLeft(Step, [pos |-> <<>>, flags |-> <<>>, err |-> "", skip |-> FALSE,
                        stop |-> FALSE], [i \in 1..Len(argv) |-> i])

\* The last value of the first of the names that was given.
flag(p, names) ==
    LET given == SelectSeq(names, LAMBDA n : \E f \in ToSet(p.flags) : f[1] = n)
        values == SelectSeq(p.flags, LAMBDA f : f[1] = Head(given))
    IN  IF given = <<>> THEN NoValue ELSE Last(values)[2]

has(p, names) == \E f \in ToSet(p.flags) : f[1] \in names

\* A word kind/name is a token whose value is the name.
kind_of(word) == IF word \in DOMAIN KINDS THEN KINDS[word] ELSE <<"?", "?">>

targets(args) ==
    IF Head(args).v # NoValue
      THEN {<<kind_of(a.w), a.v>> : a \in ToSet(args)}
      ELSE LET k == kind_of(Head(args).w)
           IN  IF Len(args) = 1 THEN {<<k, "">>}
                                ELSE {<<k, a.w>> : a \in ToSet(Tail(args))}

Known(args) == args # <<>> /\ \A t \in targets(args) : t[1] # <<"?", "?">>

(***************************************************************************)
(* The log is read back into the API requests kubectl makes.               *)
(***************************************************************************)
is_dry_create(argv) ==
    LET p == parse(argv)
    IN  p.pos # <<>> /\ Head(p.pos).w = "create" /\ flag(p, <<"--dry-run">>) = "client"

is_apply_stdin(argv) ==
    LET p == parse(argv)
    IN  p.pos # <<>> /\ Head(p.pos).w = "apply"
        /\ flag(p, <<"-f", "--filename">>) = "-"

\* Mutant: the calls of a pipe are read as they reached the log.
pipe_order_off(calls) == calls

pipe_order(calls) ==
    LET Swap(c, i) ==
          IF is_apply_stdin(c[i]) /\ is_dry_create(c[i + 1])
            THEN [c EXCEPT ![i] = c[i + 1], ![i + 1] = c[i]] ELSE c
    IN  FoldLeft(Swap, calls, [i \in 1..(IF calls = <<>> THEN 0 ELSE Len(calls) - 1) |-> i])

\* The requests of one call, given the object of the last dry-run create.
\* err is the message of a CallError, which ends the reading of the log.
Ok(reqs, pending) == [reqs |-> reqs, pending |-> pending, err |-> ""]
CallError(why) == [reqs |-> {}, pending |-> <<>>, err |-> why]

call_requests(p, sub, rest, ns, pending) ==
    LET Req(verb, t, name) == Request(verb, t[1][1], Res(t[1][2]), ns, name)
        Each(verb, args) == {Req(verb, t, t[2]) : t \in targets(args)}
        Whole(verb, args) == {Req(verb, t, "") : t \in targets(args)}
        named == \E t \in targets(rest) : t[2] # ""
        name == IF rest # <<>> /\ Head(rest).w = "secret" /\ Len(rest) > 2 THEN rest[3].w
                ELSE IF Len(rest) > 1 THEN rest[2].w ELSE ""
    IN
    CASE sub = "get" ->
           IF ~Known(rest) THEN CallError("unknown resource")
           ELSE Ok((IF named /\ flag(p, <<"-l", "--selector">>) = NoValue
                      THEN Each("get", rest) ELSE Whole("list", rest))
                   \cup (IF has(p, {"--watch", "-w", "--watch-only"})
                           THEN Whole("watch", rest) ELSE {}), pending)
      [] sub = "delete" ->
           IF ~Known(rest) THEN CallError("unknown resource")
           ELSE Ok((IF named THEN Each("delete", rest) ELSE Whole("deletecollection", rest))
                   \cup (IF flag(p, <<"--wait">>) # "false"
                           THEN Whole("watch", rest) ELSE {}), pending)
      [] sub = "exec" ->
           IF rest = <<>> THEN CallError("exec names no pod")
           ELSE Ok({Request("get", "", Res("pods"), ns, Head(rest).w),
                    Request("create", "", SubRes("pods", "exec"), ns, Head(rest).w)}, pending)
      [] sub = "create" ->
           IF rest = <<>> \/ Head(rest).w \notin CREATE_SHORTCUTS
             THEN CallError("create of a manifest")
             ELSE LET k == kind_of(Head(rest).w)
                  IN  IF flag(p, <<"--dry-run">>) = "client"
                        THEN Ok({}, <<k, name, ns>>)
                        ELSE Ok({Request("create", k[1], Res(k[2]), ns, "")}, pending)
      [] sub = "apply" ->
           IF flag(p, <<"-f", "--filename">>) # "-" \/ pending = <<>>
             THEN CallError("apply of an object the check cannot tell")
             ELSE LET k == pending[1]
                      at == IF ns # NoValue THEN ns ELSE pending[3]
                      R(verb, n) == Request(verb, k[1], Res(k[2]), at, n)
                  IN  Ok({R("get", pending[2]), R("create", ""), R("patch", pending[2])}, <<>>)
      [] sub \in {"annotate", "label", "patch"} ->
           IF ~Known(rest) THEN CallError("unknown resource")
           ELSE Ok(Each("get", rest) \cup Each("patch", rest), pending)
      [] sub = "rollout" ->
           IF Len(rest) < 2 \/ ~Known(Tail(rest)) THEN CallError("no resource named")
           ELSE IF Head(rest).w = "restart"
             THEN Ok(Each("get", Tail(rest)) \cup Each("patch", Tail(rest)), pending)
           ELSE IF Head(rest).w = "status"
             THEN Ok(Each("get", Tail(rest)) \cup Whole("watch", Tail(rest)), pending)
           ELSE CallError("rollout")
      [] sub \in {"version", "config", "auth"} -> Ok({}, pending)
      [] OTHER -> CallError("kubectl " \o sub)

requests(argv, pending) ==
    LET p == parse(argv)
    IN  IF p.err # "" THEN CallError("flag " \o p.err)
        ELSE IF p.pos = <<>> THEN CallError("kubectl")
        ELSE call_requests(p, Head(p.pos).w, Tail(p.pos), flag(p, <<"-n", "--namespace">>), pending)

\* Every request of a log in order, up to the first CallError.
RequestsOf(calls) ==
    LET Step(s, argv) ==
          IF s.err # "" THEN s
          ELSE LET r == requests(argv, s.pending)
               IN  [reqs |-> s.reqs \cup r.reqs, pending |-> r.pending, err |-> r.err]
    IN  FoldLeft(Step, Ok({}, <<>>), calls)

(***************************************************************************)
(* The rules of the ServiceAccount, and the verdict.                       *)
(***************************************************************************)
\* A Role is looked up under its own rendered namespace, a binding's subject
\* defaults to the namespace of the binding.  scope is the namespace a rule is
\* limited to, "" for a ClusterRoleBinding.
bound_rules(d, sa) ==
    UNION {{<<IF b.kind = "RoleBinding" THEN b.ns ELSE "", rule>> :
          rule \in UNION {r.rules : r \in {r \in d.roles :
              /\ r.kind = b.ref.kind /\ r.name = b.ref.name
              /\ r.kind = "Role" => b.kind = "RoleBinding" /\ r.ns = b.ns}}} :
          b \in {b \in d.bindings : \E s \in b.subjects :
              /\ s.kind = "ServiceAccount" /\ s.name = sa.name
              /\ (IF s.ns = "" THEN b.ns ELSE s.ns) = sa.ns}}

\* Mutant: resourceNames limits no request.
allowed_names_always(rq, rules) ==
    \E pair \in rules :
        /\ pair[1] = "" \/ rq.ns = pair[1]
        /\ {rq.group, "*"} \cap pair[2].groups # {}
        /\ {rq.res, All} \cap pair[2].resources # {}
        /\ {rq.verb, "*"} \cap pair[2].verbs # {}

\* resourceNames limits only a request that names an existing object.
allowed(rq, rules) ==
    \E pair \in rules :
        /\ pair[1] = "" \/ rq.ns = pair[1]
        /\ {rq.group, "*"} \cap pair[2].groups # {}
        /\ {rq.res, All} \cap pair[2].resources # {}
        /\ {rq.verb, "*"} \cap pair[2].verbs # {}
        /\ \/ pair[2].names = {}
           \/ /\ rq.name # ""
              /\ rq.verb \notin {"list", "watch", "deletecollection"}
              /\ ~(rq.verb = "create" /\ rq.res[2] = "")
              /\ rq.name \in pair[2].names

check(d, sa, calls) ==
    LET rules == bound_rules(d, sa)
        read == RequestsOf(pipe_order(calls))
        denied == {<<rq.verb, rq.res, rq.name, rq.ns>> : rq \in
                       {rq \in read.reqs : ~allowed(rq, rules)}}
        error == IF read.err = "" THEN {} ELSE {<<read.err>>}
    IN  IF rules = {} THEN {<<"no Role is bound">>}
        ELSE IF calls = <<>> THEN {<<"the call log is empty">>}
        ELSE IF read.reqs = {} /\ error = {} THEN {<<"no API request">>}
        ELSE denied \cup error

(***************************************************************************)
(* The test: the script runs, then the guard reads the log.                *)
(***************************************************************************)
Init == /\ docs \in Renders
        /\ script \in Scripts
        /\ pc = 1 /\ log = <<>> /\ started = {} /\ findings = NotRun

\* One process of the running command reaches the stub.
LogCall ==
    /\ pc <= Len(script) /\ findings = NotRun
    /\ \E i \in DOMAIN script[pc] \ started :
          /\ log' = Append(log, script[pc][i])
          /\ started' = started \cup {i}
    /\ UNCHANGED <<docs, script, pc, findings>>

\* The shell waits for every process of a pipe.
CommandEnds ==
    /\ pc <= Len(script) /\ started = DOMAIN script[pc]
    /\ pc' = pc + 1 /\ started' = {}
    /\ UNCHANGED <<docs, script, log, findings>>

GuardRuns ==
    /\ pc > Len(script) /\ findings = NotRun
    /\ findings' = check(docs, Account, log)
    /\ UNCHANGED <<docs, script, pc, log, started>>

Next == LogCall \/ CommandEnds \/ GuardRuns

Spec == Init /\ [][Next]_vars

(***************************************************************************)
(* Properties.                                                             *)
(***************************************************************************)
\* The calls in the order in which the script writes them.
ScriptOrder == FoldLeft(LAMBDA s, c : s \o c, <<>>, script)

\* When the guard passes a script, the API server allows every request that
\* the script's own commands make: a binding, a subject, a resourceNames limit
\* or a subresource that the guard read wrongly would let a script reach the
\* cluster with a verb missing (the fault of charts 0.150.0).
PassMeansAuthorized ==
    findings = {} =>
        \A rq \in RequestsOf(ScriptOrder).reqs : ApiAllows(docs, Account, rq, Account.ns)

\* Two pipes with no command between them.
PipesInARow == \E i \in 1..(Len(script) - 1) : Len(script[i]) = 2 /\ Len(script[i + 1]) = 2

\* "Put each such create before the apply right next to it": however the
\* processes of the pipes were logged, every apply is read with the object of
\* its own create, so the log yields the requests of the script.  Of two pipes
\* in a row pipe_order may also swap the apply of the first with the create of
\* the second.  An apply is then left without an object, and the guard refuses
\* the script: it never passes one that it misread.
PipesPaired ==
    findings # NotRun =>
        \/ RequestsOf(pipe_order(log)) = RequestsOf(ScriptOrder)
        \/ PipesInARow /\ findings # {}
=============================================================================
