------------------------------ MODULE ShellRuns -----------------------------
(***************************************************************************)
(* scripts/check-xtrace-secrets.py and the scripts it judges, run under    *)
(* `bash -x`.                                                              *)
(*                                                                         *)
(* A logical line is [at, set, src, var, from, uses]: where it is (the top *)
(* level, indented in a function, a comment), what its set command does to *)
(* xtrace (off, on, other for the other options, none), whether its text   *)
(* holds a sensitive source, the segments of the variable it assigns, what *)
(* the value comes from (a command substitution, read, text) and the       *)
(* variables it expands.                                                   *)
(*                                                                         *)
(* scripts/check-no-pipe-grep-q.py and the pipelines it is about: the two  *)
(* processes of `A | grep x`, the pipe between them, and the status the    *)
(* shell reads.                                                            *)
(*                                                                         *)
(* A repository is a function from script names to [pipefail, sources,     *)
(* pipe]: whether the code holds the word pipefail, the file names it      *)
(* sources, and its pipeline: "grep -q", "grep" or "none".  A workflow     *)
(* step is [golden, step, job, workflow, pipefail, pipe]: the shells set   *)
(* at the three levels ("" for none), and its text; golden marks a string  *)
(* of a rendered container.                                                *)
(***************************************************************************)
EXTENDS Naturals, FiniteSets, Sequences, SequencesExt

CONSTANTS Lines,    \* the most lines the first command writes
          Capacity  \* the lines the pipe holds

VARIABLES script, traceVerdict, pc, xtrace, values, traced

VARIABLES repo, step, pipeVerdict,
          running,  \* [grep, pipefail, lent] of the pipeline that runs
          written,  \* the lines A has written
          match,    \* the line that matches, 0 for none
          pipe,     \* the lines in the pipe
          status    \* the exit statuses of A and of grep, Alive until then

-----------------------------------------------------------------------------
(* check-xtrace-secrets.py                                                 *)

NoVar == <<"(none)">>
Line(at, set) == [at |-> at, set |-> set, src |-> FALSE, var |-> NoVar, from |-> "text", uses |-> {}]
Reads(at, var, from) == [Line(at, "none") EXCEPT !.var = var, !.from = from]
Source(at, var) == [Reads(at, var, "subst") EXCEPT !.src = TRUE]

-----------------------------------------------------------------------------
NAME_SEGMENT == {"PAT", "TOKEN", "SECRET", "PASSWORD", "PASSWD", "PW", "PASS", "SEED", "KEY",
                 "CREDENTIAL", "CREDENTIALS"}
flagged_name(name) == Range(name) \cap NAME_SEGMENT # {}

\* The text without its comments.
logical_lines(s) == SelectSeq(s, LAMBDA l : l.at # "comment")

Handles(l) == l.src \/ (l.from \in {"subst", "read"} /\ flagged_name(l.var))
handling_lines(lines) == {n \in DOMAIN lines : Handles(lines[n])}

\* A set command at the start of a line, and one of them that is `set +x`.
TOPSET(lines) == {n \in DOMAIN lines : lines[n].at = "top" /\ lines[n].set # "none"}
XOFF(lines) == {n \in TOPSET(lines) : lines[n].set = "off"}
First(S) == CHOOSE n \in S : \A m \in S : n <= m

xtrace_on(lines) == {n \in DOMAIN lines : lines[n].set = "on"}

\* Mutant: set +x anywhere in the script counts.
check_file_any_order(s) ==
    LET lines == logical_lines(s)
    IN  /\ handling_lines(lines) # {}
        /\ XOFF(lines) = {} \/ xtrace_on(lines) # {}

\* Whether the script has a finding.
check_file(s) ==
    LET lines == logical_lines(s)
        hits == handling_lines(lines)
    IN  /\ hits # {}
        /\ \/ XOFF(lines) = {}
           \/ First(TOPSET(lines)) # First(XOFF(lines))
           \/ First(XOFF(lines)) > First(hits)
           \/ xtrace_on(lines) # {}

-----------------------------------------------------------------------------
\* scripts are the shell scripts under scripts/.
TraceInit(scripts) ==
             /\ script \in scripts /\ traceVerdict = "none" /\ pc = 1
             /\ xtrace = TRUE /\ values = {} /\ traced = {}

TraceGuardRuns ==
    /\ traceVerdict = "none"
    /\ traceVerdict' = IF check_file(script) THEN "fail" ELSE "pass"
    /\ UNCHANGED <<script, pc, xtrace, values, traced>>

\* bash runs line n: xtrace prints the expanded command before it runs, and
\* the command substitution of an assignment with it.
RunLine(n) ==
    LET l == script[n]
    IN  /\ traced' = IF xtrace /\ (Handles(l) \/ l.uses \cap values # {})
                     THEN traced \cup {n} ELSE traced
        /\ values' = IF Handles(l) \/ l.uses \cap values # {} THEN values \cup {l.var} ELSE values
        /\ xtrace' = CASE l.set = "on" -> TRUE [] l.set = "off" -> FALSE [] OTHER -> xtrace
        /\ UNCHANGED <<script, traceVerdict>>

\* The next line of the top level; the definition of a function runs nothing.
RunTop == /\ traceVerdict = "pass" /\ pc \in DOMAIN script
          /\ pc' = pc + 1
          /\ IF script[pc].at = "top" THEN RunLine(pc)
             ELSE UNCHANGED <<script, traceVerdict, xtrace, values, traced>>

\* A command calls a function that is defined by now.
RunFunction == /\ traceVerdict = "pass"
               /\ \E n \in 1 .. pc - 1 : script[n].at = "fn" /\ RunLine(n)
               /\ UNCHANGED pc

TraceNext == TraceGuardRuns \/ RunTop \/ RunFunction

-----------------------------------------------------------------------------
(* The lines of a script, and the fixtures of the guard.                   *)

PAT == <<"PAT">>
V == <<"V">>
SHAPES ==
    {Line("top", "off"), Line("top", "other"), Line("top", "on"), Line("fn", "on"), Line("fn", "off"),
     Source("top", V), Source("fn", V), Source("comment", PAT), Reads("top", PAT, "read"),
     Reads("fn", <<"TOKEN", "ID">>, "subst"), [Line("top", "none") EXCEPT !.uses = {V}]}

OFF == <<Line("top", "off"), Line("top", "other")>>
EU == <<Line("top", "other")>>
CASES ==
    {EU \o <<Source("top", PAT)>>,
     EU \o <<Reads("top", <<"DAEMON", "CLIENT", "SECRET">>, "subst")>>,
     EU \o <<Reads("top", <<"TOKEN", "ID">>, "subst")>>, EU \o <<Reads("top", <<"KEY", "NAME">>, "subst")>>,
     EU \o <<Reads("top", <<"PASSWORD">>, "read")>>,
     <<Source("top", <<"TOKEN">>), Line("top", "off")>>,
     EU \o <<Line("top", "off"), Source("top", <<"FGA", "KEY">>)>>,
     EU \o <<Source("top", <<"VALUE">>)>>, <<Source("top", <<"SEED">>)>>,
     EU \o <<Source("fn", NoVar), Reads("top", V, "subst")>>,
     EU \o <<Source("top", NoVar), Reads("top", V, "read")>>, EU \o <<Source("top", V)>>,
     OFF \o <<Source("top", PAT), Line("top", "on")>>,
     OFF \o <<Line("fn", "on"), Source("top", PAT)>>,
     OFF \o <<Source("top", PAT)>>,
     <<Line("top", "off"), Source("top", <<"OPENBAO", "SEAL", "KEY">>)>>,
     OFF \o <<Source("top", PAT), Line("top", "other"), Line("top", "other")>>,
     EU \o <<Line("top", "on"), Reads("top", <<"DOMAIN">>, "subst"), Source("comment", PAT)>>}

\* No script that the guard passes prints a sensitive value when an operator
\* runs it with bash -x, whichever of its functions run and when: `set +x`
\* runs before the first line that handles a value, and nothing undoes it.
TraceClean == traced = {}

-----------------------------------------------------------------------------
(* check-no-pipe-grep-q.py                                                 *)

Alive == 999
SIGPIPE == 141
NoPipeline == [grep |-> "none", pipefail |-> FALSE, lent |-> FALSE]

-----------------------------------------------------------------------------
PIPE_GREP_Q(text) == text.pipe = "grep -q"
sets_pipefail(text) == text.pipefail

\* The findings of one shell text.
judge(text, pipefail) == (pipefail \/ sets_pipefail(text)) /\ PIPE_GREP_Q(text)

\* Mutant: only a file that a pipefail script itself sources counts.
sourced_directly(texts) == UNION {texts[p].sources : p \in {q \in DOMAIN texts : sets_pipefail(texts[q])}}

\* The file names that a pipefail script sources, followed in turn: after as
\* many rounds as there are scripts the names no longer change.
sourced_by_pipefail(texts) ==
    LET Round[n \in Nat] ==
            IF n = 0 THEN {}
            ELSE Round[n - 1] \cup
                 UNION {texts[p].sources : p \in {q \in DOMAIN texts : sets_pipefail(texts[q]) \/ q \in Round[n - 1]}}
    IN  Round[Cardinality(DOMAIN texts)]

scan_texts(texts) ==
    LET sourced == sourced_by_pipefail(texts)
    IN  {p \in DOMAIN texts : judge(texts[p], p \in sourced)}

bash_shell(s) == CASE s.step # "" -> s.step = "bash"
                   [] s.step = "" /\ s.job # "" -> s.job = "bash"
                   [] OTHER -> s.workflow = "bash"

scan_workflow(s) == judge(s, bash_shell(s))

\* A command, args or ConfigMap string of a golden render: no shell is set
\* around it.
scan_golden(s) == judge(s, FALSE)

-----------------------------------------------------------------------------
NoStep == [golden |-> FALSE, step |-> "", job |-> "", workflow |-> "", pipefail |-> FALSE, pipe |-> "none"]
NoScripts == [main |-> [pipefail |-> FALSE, sources |-> {}, pipe |-> "none"]]

\* The repositories, and the steps of the workflows.
PipeInit(repositories, steps) ==
    /\ \/ repo \in repositories /\ step = NoStep
       \/ repo = NoScripts /\ step \in steps
    /\ pipeVerdict = "none"
    /\ running = NoPipeline /\ written = 0 /\ match = 0 /\ pipe = <<>>
    /\ status = <<Alive, Alive>>

\* main: scripts, workflow steps.
PipeGuardRuns ==
    /\ pipeVerdict = "none"
    /\ pipeVerdict' = IF scan_texts(repo) = {} 
                        /\ ~(IF step.golden THEN scan_golden(step) ELSE scan_workflow(step)) THEN "pass" ELSE "fail"
    /\ UNCHANGED <<repo, step, running, written, match, pipe, status>>

\* The files that a run of script p sources, in turn.
Reached(p) ==
    LET R[n \in Nat] == IF n = 0 THEN {p} ELSE R[n - 1] \cup UNION {repo[q].sources : q \in R[n - 1]}
    IN  R[Cardinality(DOMAIN repo)]

Begin(grep, pipefail, lent) ==
    /\ pipeVerdict = "pass" /\ running = NoPipeline /\ grep # "none"
    /\ running' = [grep |-> grep, pipefail |-> pipefail, lent |-> lent]
    /\ match' \in 0 .. Lines
    /\ UNCHANGED <<repo, step, pipeVerdict, written, pipe, status>>

\* No script that sets pipefail sources file q, in turn.
Unsourced(q) == ~\E r \in DOMAIN repo : sets_pipefail(repo[r]) /\ q \in Reached(r)

\* A run of script p reaches a pipeline of p or of a file it sources.  Another
\* file that p sources may have set pipefail by then: a sourced file runs in
\* the shell of p.
RunScript ==
    \E p \in DOMAIN repo : \E q \in Reached(p) :
        LET own == sets_pipefail(repo[p]) \/ sets_pipefail(repo[q])
            any == \E r \in Reached(p) : sets_pipefail(repo[r])
        IN  \E on \in {own, any} : Begin(repo[q].pipe, on, on /\ Unsourced(q))

\* GitHub runs a step in the innermost shell set, a bash as bash -eo pipefail.
RunStep ==
    LET set == SelectSeq(<<step.step, step.job, step.workflow>>, LAMBDA sh : sh # "")
    IN  Begin(step.pipe, step.pipefail \/ (set # <<>> /\ Head(set) = "bash"), FALSE)

Write == /\ running # NoPipeline /\ status[1] = Alive /\ status[2] = Alive
         /\ written < Lines /\ Len(pipe) < Capacity
         /\ written' = written + 1 /\ pipe' = Append(pipe, written + 1)
         /\ UNCHANGED <<repo, step, pipeVerdict, running, match, status>>

\* The pipe has no reader any more.
Signalled == /\ running # NoPipeline /\ status[1] = Alive /\ status[2] # Alive /\ written < Lines
             /\ status' = [status EXCEPT ![1] = SIGPIPE]
             /\ UNCHANGED <<repo, step, pipeVerdict, running, written, match, pipe>>

Written == /\ running # NoPipeline /\ status[1] = Alive /\ written = Lines
           /\ status' = [status EXCEPT ![1] = 0]
           /\ UNCHANGED <<repo, step, pipeVerdict, running, written, match, pipe>>

\* grep reads a line; with -q it exits at the first match.
Read == /\ running # NoPipeline /\ status[2] = Alive /\ pipe # <<>>
        /\ pipe' = Tail(pipe)
        /\ status' = IF Head(pipe) = match /\ running.grep = "grep -q"
                     THEN [status EXCEPT ![2] = 0] ELSE status
        /\ UNCHANGED <<repo, step, pipeVerdict, running, written, match>>

\* grep reads the end of its input.
EndOfFile == /\ running # NoPipeline /\ status[2] = Alive /\ pipe = <<>> /\ status[1] # Alive
             /\ status' = [status EXCEPT ![2] = IF match # 0 /\ running.grep = "grep" THEN 0 ELSE 1]
             /\ UNCHANGED <<repo, step, pipeVerdict, running, written, match, pipe>>

PipeNext == PipeGuardRuns \/ RunScript \/ RunStep \/ Write \/ Signalled \/ Written \/ Read \/ EndOfFile

\* The status of the pipeline: of its last command, or under pipefail of the
\* last one that failed.
PipelineStatus == IF status[2] # 0 THEN status[2] ELSE IF running.pipefail THEN status[1] ELSE 0

Text(pf, sources, p) == [pipefail |-> pf, sources |-> sources, pipe |-> p]
\* The scripts of the selftest: two that set pipefail and one that does not,
\* and a library of each; and each library that sources the next.
texts(probe, hosts, plain, chain) ==
    [main |-> Text(TRUE, {"probe"}, "none"), probe |-> Text(FALSE, IF chain THEN {"hosts"} ELSE {}, probe),
     up |-> Text(TRUE, IF chain THEN {} ELSE {"hosts"}, "none"), hosts |-> Text(FALSE, {}, hosts),
     other |-> Text(FALSE, {"plain"}, "none"), plain |-> Text(FALSE, {}, plain)]
Pipelines == {"none", "grep", "grep -q"}
\* A script without pipefail that sources a library which sets it, and
\* another one that does not.
lent_texts(main, probe) ==
    [main |-> Text(FALSE, {"strict", "probe"}, main), strict |-> Text(TRUE, {}, "none"),
     probe |-> Text(FALSE, {}, probe)]
TEXTS == {texts(a, b, c, d) : a, b, c \in Pipelines, d \in BOOLEAN}
         \cup {lent_texts(a, b) : a, b \in Pipelines}
STEPS ==
    LET Step(g, s, j, w, f, p) ==
            [golden |-> g, step |-> s, job |-> j, workflow |-> w, pipefail |-> f, pipe |-> p]
    IN  {Step(FALSE, s, j, w, f, p) : s, j, w \in {"", "bash", "sh"}, f \in BOOLEAN, p \in Pipelines}
        \cup {Step(TRUE, "", "", "", f, p) : f \in BOOLEAN, p \in Pipelines}

\* When a pipeline of a text the guard passes has ended, the shell reads
\* success exactly when a line matched, in whatever order the two processes
\* ran: grep -q may end before the writer, so a writer that is signalled must
\* not decide the status of an `if` or of a `|| die`.  One pipeline escapes:
\* that of a file which no pipefail script sources, run after a library beside
\* it has set pipefail in their shell.
StatusTrue ==
    (running # NoPipeline /\ ~running.lent /\ status[1] # Alive /\ status[2] # Alive) => ((PipelineStatus = 0) <=> (match # 0))
=============================================================================
