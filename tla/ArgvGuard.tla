------------------------------ MODULE ArgvGuard ------------------------------
(***************************************************************************)
(* scripts/check-no-secret-argv.py and the shell text it judges: a text    *)
(* that passes, run in any order its functions are called in, puts the     *)
(* value of no variable that holds a secret on the argv of a process, and  *)
(* a pod that passes none of a secretKeyRef.                               *)
(*                                                                         *)
(* A name is the sequence of its segments.  A word is [opt, key, val]: its *)
(* option, the NAME of NAME=VALUE, of a header or of USER:, and a value    *)
(* [at, vars, pos, sub]: read from a file (@), the variables it expands, a *)
(* positional parameter, a command substitution.  A command is [prog,      *)
(* verb, words].  A logical line is [var, src, field, uses, cmds,   *)
(* inner]: the variable it assigns, whether the right-hand side is a       *)
(* source of secrets, reads an id, the variables it expands, its commands  *)
(* and those inside $(...) or sh -c.  A file is [area, ext, shebang]: the  *)
(* part of the repository it is in, its suffix and the program it names.   *)
(***************************************************************************)
EXTENDS Naturals, FiniteSets, Sequences, SequencesExt

VARIABLES text, file, container, argvVerdict, held, onArgv

-----------------------------------------------------------------------------
(* Words, commands and lines.                                              *)

NoName == <<"(none)">>
Val(vars) == [at |-> FALSE, vars |-> vars, pos |-> FALSE, sub |-> FALSE]
FromFile == [at |-> TRUE, vars |-> {}, pos |-> FALSE, sub |-> FALSE]
Positional == [Val({}) EXCEPT !.pos = TRUE]
Subst == [Val({}) EXCEPT !.sub = TRUE]

Arg(opt, key, val) == [opt |-> opt, key |-> key, val |-> val]
Cmd(prog, verb, args) == [prog |-> prog, verb |-> verb, words |-> args]

Assign(var, src, uses) ==
    [var |-> var, src |-> src, field |-> FALSE, uses |-> uses, cmds |-> {}, inner |-> {}]
Run(cmds) ==
    [var |-> NoName, src |-> FALSE, field |-> FALSE, uses |-> {}, cmds |-> cmds, inner |-> {}]

\* A $ in the text of the value.
Dollar(v) == v.vars # {} \/ v.pos \/ v.sub

-----------------------------------------------------------------------------
(* The guard.                                                              *)

SENSITIVE ==
    {"TOKEN", "TOK", "SECRET", "SECRETS", "PASSWORD", "PASSWD", "PASS", "PW", "PAT", "SEED",
     "JWT", "CREDENTIAL", "CREDENTIALS", "MASTERKEY", "ROOT", "MINTER", "VALUE", "VAL",
     "BEARER", "AUTH", "PRIV", "PRIVATE"}

KEY_KIND ==
    {"SEAL", "UNSEAL", "API", "PRIVATE", "PRIV", "MASTER", "SIGNING", "ENCRYPTION", "ACCESS",
     "HMAC", "AES", "KEK", "DEK", "SSH", "TLS", "CLIENT", "SESSION", "WRAP", "UNWRAP"}

CRED_HEADER == {<<"X-VAULT-TOKEN">>, <<"AUTHORIZATION">>, <<"COOKIE">>, <<"X-API-KEY">>, <<"PRIVATE-TOKEN">>}

\* The segments of the texts that are written in lower case.
LOWER == [api |-> "API", token |-> "TOKEN", userpass |-> "USERPASS"]
upper(name) == {IF s \in DOMAIN LOWER THEN LOWER[s] ELSE s : s \in Range(name)}

\* The names of variables whose expansion is itself a source of taint: the
\* regular expression matches them in upper case only.
TAINT_NAMES == {"MASTERKEY", "PASSWORD", "TOKEN", "SECRET"}
NamesSecret(segs) == segs \cap TAINT_NAMES # {} \/ {"SEAL", "KEY"} \subseteq segs
TaintSource(n) == NamesSecret(Range(n))

sensitive_name(name, tainted) ==
    LET segs == upper(name)
    IN  \/ name \in tainted
        \/ segs \cap SENSITIVE # {}
        \/ "KEY" \in segs /\ segs \cap KEY_KIND # {}

sensitive_word(val, tainted) == \E v \in val.vars : sensitive_name(v, tainted)

\* One pass over the lines, in their order, each assignment seen by the next.
taint_round(lines, found) ==
    LET Reached(out, l) ==
            IF /\ l.var # NoName /\ ~l.field
               /\ l.src \/ (\E v \in l.uses : TaintSource(v)) \/ l.uses \cap out # {}
            THEN out \cup {l.var} ELSE out
    IN  FoldLeft(Reached, found, lines)

\* Mutant: two passes over the assignments.
taint_twice(lines) == taint_round(lines, taint_round(lines, {}))

\* The variables of a file that a secret reaches, after three passes.
taint(lines) == taint_round(lines, taint_round(lines, taint_round(lines, {})))

DATA_OPTS == {"-d", "--data", "--data-binary", "--data-raw", "--data-ascii", "--data-urlencode",
              "--json", "-F", "--form", "--form-string"}
PW_OPTS == {"--password", "--token", "--secret", "--client-secret", "--api-key"}

Curl == {"curl", "kube_curl", "bao_curl", "hcurl"}
header(c, w, t) == /\ w.opt = "-H" /\ Dollar(w.val) /\ ~w.val.at
                   /\ w.key \in CRED_HEADER \/ sensitive_word(w.val, t)
body(c, w) == c.prog \in Curl /\ w.opt \in DATA_OPTS /\ Dollar(w.val) /\ ~w.val.at
\* A $ after the colon of USER:PASSWORD.
user(c, w) == c.prog \in Curl /\ w.opt \in {"-u", "--user"} /\ w.key # NoName /\ Dollar(w.val)
jq_arg(c, w, t) == /\ c.prog = "jq" /\ w.opt \in {"--arg", "--argjson"} /\ Dollar(w.val)
                   /\ \/ sensitive_name(w.key, {}) \/ sensitive_word(w.val, t)
                      \/ w.val.pos \/ w.val.sub
from_literal(c, w, t) == /\ w.opt = "--from-literal" /\ Dollar(w.val)
                         /\ \/ c.verb = "create secret" /\ w.val.sub
                            \/ sensitive_word(w.val, t) \/ sensitive_name(w.key, {})
env_word(c, w, t) == /\ w.opt = "env" /\ Dollar(w.val)
                     /\ sensitive_name(w.key, t) \/ sensitive_word(w.val, t)
password_option(c, w) ==
    /\ Dollar(w.val)
    /\ \/ w.opt \in PW_OPTS \cup {"pass:"}
       \/ c.prog = "openssl" /\ w.opt \in {"-K", "-k", "-pass", "-passin", "-passout", "-kfile"}
       \/ c.prog \in {"mysql", "mariadb", "mysqldump"} /\ w.opt = "-p"
       \/ c.prog = "redis-cli" /\ w.opt \in {"-a", ">"}
       \/ c.prog = "cypher-shell" /\ w.opt = "-p"
url_password(c, w) == w.opt = "url" /\ Dollar(w.val)
patch(c, w, t) == c.prog = "kubectl" /\ c.verb = "patch" /\ w.opt \in {"-p", "--patch"} /\ sensitive_word(w.val, t)
bao_word(c, w, t) ==
    /\ c.prog \in {"bao", "vault"} /\ Dollar(w.val) /\ ~w.val.at
    /\ \/ c.verb = "login"
       \/ c.verb \in {"write", "kv put", "kv patch"} /\ (sensitive_name(w.key, t) \/ sensitive_word(w.val, t))

command_findings(c, t) ==
    {w \in c.words : \/ header(c, w, t) \/ body(c, w) \/ user(c, w) \/ jq_arg(c, w, t)
                     \/ from_literal(c, w, t) \/ env_word(c, w, t) \/ password_option(c, w)
                     \/ url_password(c, w) \/ patch(c, w, t) \/ bao_word(c, w, t)}

\* A line, each command substitution in it and the script of a sh -c.
line_findings(l, t) == UNION {command_findings(c, t) : c \in l.cmds \cup l.inner}

scan_text(lines) == LET t == taint(lines) IN UNION {line_findings(lines[n], t) : n \in DOMAIN lines}

-----------------------------------------------------------------------------
(* The files that hold shell text.                                         *)

is_shell(f) == f.ext = ".sh" \/ f.shebang \in {"bash", "sh"}

\* The values files, templates and files of a chart, and the shell scripts.
text_files(f) ==
    \/ f.area = "values" /\ f.ext \in {".yaml", ".yml"}
    \/ f.area \in {"templates", "files"}
       /\ (f.ext \in {".yaml", ".yml", ".tpl", ".sh", ".txt", ".conf"} \/ is_shell(f))
    \/ f.area = "scripts" /\ is_shell(f)

-----------------------------------------------------------------------------
(* The rendered pods.  A container is [env, refs]: env gives each variable *)
(* its origin, refs the references of its command and args, [dollars,      *)
(* name]: the number of $ before (NAME).                                   *)

scan_render(c) == {r \in c.refs : r.dollars = 1 /\ r.name \in DOMAIN c.env /\ c.env[r.name] = "secretKeyRef"}

scan(f, lines, c) == (IF text_files(f) THEN scan_text(lines) ELSE {}) \cup scan_render(c)

\* Kubernetes writes $$ as $, so an even number of $ leaves (NAME) as it is.
Expands(r) == r.dollars % 2 = 1

-----------------------------------------------------------------------------
\* A container with nothing to expand, and a file without shell text.
NoPod == [env |-> <<>>, refs |-> {}]
NoText == <<>>

\* The shell texts of the repository, the files that hold one, and the
\* containers of the golden renders.
ArgvInit(texts, files, containers) ==
            /\ file \in files
            /\ \/ text \in texts /\ container = NoPod
               \/ text = NoText /\ container \in containers
            /\ argvVerdict = "none" /\ held = {} /\ onArgv = {}

Vars(lines) == UNION {lines[n].uses \cup {lines[n].var} \cup
                      UNION {w.val.vars : w \in UNION {c.words : c \in lines[n].cmds \cup lines[n].inner}} :
                      n \in DOMAIN lines}

\* The variables that hold a secret from the start, in the environment or as
\* the argument of a function, whatever the case of their names.
Given(v) == NamesSecret(upper(v))

\* main: the shell text and the rendered pods.
ArgvGuardRuns ==
    /\ argvVerdict = "none"
    /\ argvVerdict' = IF scan(file, text, container) = {} THEN "pass" ELSE "fail"
    /\ held' = {v \in Vars(text) : Given(v)}
    /\ UNCHANGED <<text, file, container, onArgv>>

\* The words whose value the guard judges: its docstring lists them.
Place(c, w) ==
    \/ w.opt \in {"-H", "--from-literal", "env", "url", "pass:"} \cup PW_OPTS
    \/ c.prog \in Curl /\ w.opt \in DATA_OPTS
    \/ c.prog \in Curl /\ w.opt \in {"-u", "--user"} /\ w.key # NoName
    \/ c.prog = "jq" /\ w.opt \in {"--arg", "--argjson"}
    \/ c.prog = "openssl" /\ w.opt \in {"-K", "-k", "-pass", "-passin", "-passout", "-kfile"}
    \/ c.prog \in {"mysql", "mariadb", "mysqldump", "cypher-shell"} /\ w.opt = "-p"
    \/ c.prog = "redis-cli" /\ w.opt \in {"-a", ">"}
    \/ c.prog = "kubectl" /\ c.verb = "patch" /\ w.opt \in {"-p", "--patch"}
    \/ c.prog \in {"bao", "vault"} /\ c.verb \in {"login", "write", "kv put", "kv patch"}

\* A line runs; functions run in any order and any number of times.
Exec(l) ==
    /\ argvVerdict = "pass"
    /\ held' = CASE l.var = NoName -> held
                 [] l.src \/ l.uses \cap held # {} ->
                        IF l.field THEN held \ {l.var} ELSE held \cup {l.var}
                 [] OTHER -> IF Given(l.var) THEN held ELSE held \ {l.var}
    /\ onArgv' = onArgv \cup UNION {{[var |-> v, judged |-> Place(c, w)] : w \in {x \in c.words : v \in x.val.vars}} :
                                    v \in held, c \in l.cmds \cup l.inner}
    /\ UNCHANGED <<text, file, container, argvVerdict>>

\* The kubelet starts the container.
Start ==
    /\ argvVerdict = "pass"
    /\ onArgv' = onArgv \cup {[var |-> <<r.name>>, judged |-> r.dollars < 3] : r \in {q \in container.refs :
                     Expands(q) /\ q.name \in DOMAIN container.env /\ container.env[q.name] = "secretKeyRef"}}
    /\ UNCHANGED <<text, file, container, argvVerdict, held>>

ArgvNext == ArgvGuardRuns \/ (\E n \in DOMAIN text : Exec(text[n])) \/ Start

\* The variables that a secret reaches after n passes over the assignments.
Passes(lines, n) ==
    LET P[k \in 0 .. n] == IF k = 0 THEN {} ELSE taint_round(lines, P[k - 1]) IN P[n]

\* Three passes reach every variable: no chain of assignments runs against
\* the order of the text for longer.
ShortChains(lines) == Passes(lines, 3) = Passes(lines, 4)

\* No assignment copies a secret out of a variable that only its lower-case
\* name gives away.
UpperCase(lines) == \A n \in DOMAIN lines : \A v \in lines[n].uses :
                        lines[n].var # NoName /\ Given(v) => TaintSource(v) \/ v \in Passes(lines, 3)

\* No process of a text or a pod that the guard passes has a secret on a word
\* of its argv that the guard judges: a value read from a source reaches none,
\* whatever variables carry it there and in whatever order the functions run
\* (taint, line_findings and scan_render agree with the shell and kubelet).
\* Three things escape: a chain of assignments that three passes do not
\* follow, a copy of a variable whose secret name is in lower case, and the
\* words outside Place, `-u "$userpass"` and $$$(NAME) among them.
ArgvClean == ShortChains(text) /\ UpperCase(text) => \A a \in onArgv : ~a.judged

(***************************************************************************)
(* The fixtures of the selftest: the texts a finding is wanted on, the     *)
(* clean shapes, the rendered container and the container of a values      *)
(* file.                                                                   *)
(***************************************************************************)
One(prog, verb, arg) == <<Run({Cmd(prog, verb, {arg})})>>
Inner(cmd) == [Run({}) EXCEPT !.inner = {cmd}]
V(name) == Val({name})
KH == <<"KH">>

HEADER_CASES ==
    {One("curl", "", Arg("-H", <<"X-VAULT-TOKEN">>, V(<<"VAULT", "TOKEN">>))),
     <<[Assign(<<"C">>, FALSE, {}) EXCEPT
            !.inner = {Cmd("curl", "", {Arg("-H", <<"X-VAULT-TOKEN">>, Positional)})}]>>,
     One("curl", "", Arg("-H", <<"AUTHORIZATION">>, V(<<"PAT">>))),
     <<Assign(<<"TOKEN", "HEADER">>, TRUE, {<<"T">>}),
       Run({Cmd("curl", "", {Arg("-H", NoName, V(<<"TOKEN", "HEADER">>))})})>>,
     One("curl", "", Arg("-H", <<"AUTHORIZATION">>, V(<<"TOK">>))),
     One("curl", "", Arg("-H", <<"X-SEAL">>, V(<<"UNSEAL", "KEY">>))),
     One("curl", "", Arg("-H", <<"X-VAULT-TOKEN">>, V(<<"ROOT">>)))}

CURL_CASES ==
    {<<[Run({Cmd("curl", "", {Arg("-d", NoName, Subst)})}) EXCEPT
            !.inner = {Cmd("jq", "", {Arg("--arg", <<"V">>, V(<<"VALUE">>))})}]>>,
     One("curl", "", Arg("--data-urlencode", <<"CLIENT", "SECRET">>, V(<<"CLIENT", "SECRET">>))),
     One("curl", "", Arg("-u", <<"ADMIN">>, V(<<"ADMIN", "PASSWORD">>))),
     <<Inner(Cmd("curl", "", {Arg("-d", NoName, V(<<"BODY">>))}))>>,
     One("kube_curl", "", Arg("--data-binary", NoName, V(<<"OP", "SECRET", "BODY">>)))}

JQ_CASES ==
    {One("jq", "", Arg("--arg", <<"P">>, V(<<"PASSWORD">>))),
     <<Inner(Cmd("jq", "", {Arg("--argjson", <<"D">>, Positional)}))>>,
     One("jq", "", Arg("--arg", <<"TOKEN">>, V(<<"X">>))),
     One("jq", "", Arg("--arg", <<"K">>, V(<<"API", "KEY">>))),
     <<Assign(KH, TRUE, {}), Run({Cmd("jq", "", {Arg("--arg", <<"K">>, V(KH))})})>>,
     <<Assign(<<"MK">>, FALSE, {<<"ZITADEL", "MASTERKEY">>}), Assign(KH, FALSE, {<<"MK">>}),
       Run({Cmd("foo", "", {Arg("--opt", NoName, V(KH))}), Cmd("jq", "", {Arg("--arg", <<"H">>, V(KH))})})>>}

KUBECTL_CASES ==
    {One("kubectl", "create secret", Arg("--from-literal", <<"K">>, Subst)),
     One("kubectl", "create configmap", Arg("--from-literal", <<"LASTKNOWNPASSWORD">>, V(<<"CURRENT", "PASSWORD">>))),
     One("kubectl", "exec", Arg("env", <<"BAO", "TOKEN">>, V(<<"BAO", "ADMIN", "TOKEN">>))),
     One("kubectl", "patch", Arg("-p", NoName, V(<<"VALUE">>)))}

CLIENT_CASES ==
    {One("mc", "", Arg("--password", NoName, V(<<"SECRET", "KEY">>))),
     <<Inner(Cmd("redis-cli", "", {Arg(">", NoName, V(<<"N">>))}))>>,
     One("redis-cli", "", Arg("-a", NoName, V(<<"REDIS", "PASSWORD">>))),
     One("cypher-shell", "", Arg("-p", NoName, V(<<"A">>))),
     One("psql", "", Arg("url", NoName, V(<<"DB", "PASSWORD">>))),
     One("psql", "", Arg("url", <<"PASSWORD">>, V(<<"PGPASS">>))),
     One("openssl", "", Arg("-K", NoName, V(KH))),
     One("openssl", "", Arg("-k", NoName, V(<<"X">>))),
     One("openssl", "", Arg("-passin", NoName, V(<<"P">>))),
     One("openssl", "", Arg("pass:", NoName, V(<<"SEED">>))),
     One("mysql", "", Arg("-p", NoName, V(<<"DB", "ROOT">>))),
     One("bao", "write", Arg("NAME=", <<"SECRET", "ID">>, V(<<"SECRET", "ID">>))),
     One("bao", "login", Arg("", NoName, V(<<"ROOT", "TOKEN">>)))}

OK_CASES ==
    {One("curl", "", Arg("-H", NoName, FromFile)), One("curl", "", Arg("--data-binary", NoName, FromFile)),
     One("curl", "", Arg("-H", NoName, V(<<"CT">>))), One("jq", "", Arg("--rawfile", <<"V">>, V(<<"D">>))),
     One("jq", "", Arg("--arg", <<"K">>, V(<<"KEY">>))), One("jq", "", Arg("--arg", <<"K">>, V(<<"KEYRING", "KEY">>))),
     One("jq", "", Arg("--arg", <<"T">>, V(<<"PERIOD">>))),
     One("redis-cli", "", Arg("PING", NoName, Val({}))), One("redis-cli", "", Arg("-x", NoName, Val({}))),
     One("openssl", "", Arg("-passin", NoName, Val({}))),
     One("kubectl", "exec", Arg("env", <<"SET", "KEY">>, V(<<"KEY">>))),
     One("kubectl", "create secret", Arg("--from-file", <<"K">>, FromFile)),
     One("kubectl", "create secret", Arg("--from-literal", <<"LASTPROCESSEDVERSION">>, V(<<"CURRENT", "VERSION">>))),
     One("kubectl", "create configmap", Arg("--from-literal", <<"COREFILE">>, V(<<"REWRITTEN">>))),
     One("mkdir", "", Arg("-p", NoName, V(<<"DIR">>))),
     <<Assign(<<"DSN">>, FALSE, {<<"DB", "PASSWORD">>})>>,
     <<[Assign(<<"ORG">>, TRUE, {}) EXCEPT !.field = TRUE],
       Run({Cmd("curl", "", {Arg("-H", <<"X-ORG">>, V(<<"ORG">>))})})>>}

\* What the guard passes although a secret can be there: USER:PASSWORD in one
\* variable, a word of a program it does not know, a copy of $api_token; and
\* the use of $api_token itself, which it finds.
PASSED_CASES ==
    {<<Assign(<<"userpass">>, TRUE, {}), Run({Cmd("curl", "", {Arg("-u", NoName, V(<<"userpass">>))})})>>,
     One("foo", "", Arg("--opt", NoName, V(<<"API", "TOKEN">>))),
     <<Assign(<<"X">>, FALSE, {<<"api", "token">>}), Run({Cmd("curl", "", {Arg("-H", <<"X-ORG">>, V(<<"X">>))})})>>,
     One("curl", "", Arg("-H", <<"X-ORG">>, V(<<"api", "token">>)))}

CASES == HEADER_CASES \cup CURL_CASES \cup JQ_CASES \cup KUBECTL_CASES \cup CLIENT_CASES \cup OK_CASES \cup PASSED_CASES

\* A Job with $(API_TOKEN), $(PLAIN) and $$(API_TOKEN) in its args, and one
\* with a third $.
Ref(d, n) == [dollars |-> d, name |-> n]
RENDER(refs) == [env |-> [API_TOKEN |-> "secretKeyRef", PLAIN |-> "value"], refs |-> refs]
RENDERS == {RENDER(r) : r \in SUBSET {Ref(1, "API_TOKEN"), Ref(1, "PLAIN"), Ref(2, "API_TOKEN"), Ref(3, "API_TOKEN"), Ref(1, "OTHER")}}

\* The store container of the Zitadel setup Job, in a values file.
VALUES(hdr) ==
    <<[Assign(<<"STATUS">>, FALSE, {}) EXCEPT
        !.inner = {Cmd("curl", "", {hdr, Arg("--data-binary", NoName, FromFile)})}]>>
VALUES_CASES == {VALUES(Arg("-H", <<"X-VAULT-TOKEN">>, V(<<"VAULT", "TOKEN">>))), VALUES(Arg("-H", NoName, FromFile))}

\* The places of the repository whose text a shell runs.
SHELL_FILES ==
    {[area |-> "scripts", ext |-> ".sh", shebang |-> "bash"], [area |-> "scripts", ext |-> "", shebang |-> "sh"],
     [area |-> "files", ext |-> ".sh", shebang |-> ""], [area |-> "templates", ext |-> ".yaml", shebang |-> ""],
     [area |-> "values", ext |-> ".yaml", shebang |-> ""]}

\* A secret that goes through the variables x, y and z, by three assignments
\* in any order of the text, to one of the words that names decide.
Flow == {<<"X">>, <<"Y">>, <<"Z">>}
FlowEnds ==
    LET Words == {Cmd("curl", "", {Arg("-H", <<"X-ORG">>, V(<<"Z">>))}),
                  Cmd("kubectl", "patch", {Arg("--patch", NoName, V(<<"Z">>))})}
    IN  {Run({w}) : w \in Words} \cup {Inner(w) : w \in Words}
Flows ==
    LET Line == {Assign(v, s, u) : v \in Flow, s \in BOOLEAN, u \in {{}} \cup {{w} : w \in Flow}}
        Bare == {l \in Line : l.src => l.uses = {}}
    IN  {<<a, b, c, end>> : a, b, c \in Bare, end \in FlowEnds}

\* A chain of four assignments, in every order of the text.
Chains ==
    LET Chain == <<Assign(<<"W">>, TRUE, {}), Assign(<<"X">>, FALSE, {<<"W">>}),
                   Assign(<<"Y">>, FALSE, {<<"X">>}), Assign(<<"Z">>, FALSE, {<<"Y">>})>>
    IN  {<<Chain[p[1]], Chain[p[2]], Chain[p[3]], Chain[p[4]], end>> :
            p \in {q \in [1 .. 4 -> 1 .. 4] : Range(q) = 1 .. 4}, end \in FlowEnds}
=============================================================================
