---------------------------- MODULE WebhookGate ----------------------------
(***************************************************************************)
(* scripts/check-webhooks.py, and the install it protects: Helm applies    *)
(* the operators and their webhook configurations, the Job                 *)
(* gibson-webhook-gate (templates/webhook-gate.yaml) posts a review to     *)
(* each webhook until all have answered or the deadline passes, and the    *)
(* hooks behind the gate are applied last.                                 *)
(*                                                                         *)
(* A render is a record: hooks (webhooks of the configurations, at = the   *)
(* place of the configuration in Helm's order of kinds), probes (the list  *)
(* the gate walks), services, rules (ingress rules of the Cilium policies  *)
(* of other namespaces, all of which select the pods of the webhooks),     *)
(* labels (of the gate's pod) and objects (what a webhook admits, at =     *)
(* place in Helm's order, gated = a hook behind the gate).                 *)
(***************************************************************************)
EXTENDS Naturals, FiniteSets

CONSTANTS DEADLINE     \* rounds of probes before the gate gives up

VARIABLES renders,     \* what the guard judges
          render,      \* the render that is installed
          verdict,     \* "none", "pass" or "fail"
          phase,       \* "judge", "main", "gate", "after", "done", "stopped"
          next,        \* Helm's place in the main phase
          up,          \* dials behind which a server answers
          pending,     \* probes that have not answered
          last,        \* the results of the last round, by probe
          rounds,      \* rounds of probes so far
          answered,    \* dials that answered a probe
          refused,     \* objects an unreachable webhook refused
          applied      \* objects applied, with the webhooks that saw them

-----------------------------------------------------------------------------
(* The guard. *)

release_ns == "gibson"

ACCEPTED_IGNORE == {"vclusterfederatedtrustdomain", "vclusterspiffeid"}

EgressLabel == <<"egress-namespaces", "true">>

\* The defaults that both the API server and the gate fill in.
dial(d) == [d EXCEPT !.ns = IF @ = "" THEN release_ns ELSE @,
                     !.port = IF @ = 0 THEN 443 ELSE @,
                     !.path = IF @ = "" THEN "/" ELSE @]

ServiceBacked(h) == h.dial.svc # ""

ignored(r) == {h.webhook : h \in {g \in r.hooks : g.policy = "Ignore"}}

stale(seen, accepted) == accepted \ seen

target_port(r, p) ==
  {s.target : s \in {t \in r.services : /\ t.name = p.dial.svc
                                        /\ t.ns = p.dial.ns
                                        /\ t.port = dial(p.dial).port}}

admits(r, ns, port) ==
  \E rule \in r.rules :
    /\ rule.ns = ns
    /\ port \in rule.ports
    /\ \E peer \in rule.from : peer.ns = release_ns /\ peer.labels \subseteq r.labels

\* Mutant: every probe is taken to connect.
reach_release_only(r, p) == FALSE

\* A probe of a webhook in another namespace must be able to connect.
reach(r, p) ==
  LET d == dial(p.dial)
  IN /\ d.ns # release_ns
     /\ \/ EgressLabel \notin r.labels
        \/ target_port(r, p) = {}
        \/ \E port \in target_port(r, p) : ~admits(r, d.ns, port)

Candidates(r, p) == {h \in r.hooks : h.config = p.config /\ h.webhook = p.webhook}

\* A probe that names no webhook of the render, or dials another endpoint.
wrong_probe(r, p) ==
  dial(p.dial) \notin {dial(h.dial) : h \in {g \in Candidates(r, p) : ServiceBacked(g)}}

ProbeDials(r) == {[config |-> p.config, webhook |-> p.webhook, dial |-> dial(p.dial)] :
                  p \in {q \in r.probes : ~wrong_probe(r, q)}}

\* Mutant: a probe is matched by its webhook alone.
judge_probed_names(r) ==
  \/ \E p \in r.probes : wrong_probe(r, p)
  \/ \E h \in r.hooks :
       \/ ~ServiceBacked(h)
       \/ h.policy = "Fail" /\ h.webhook \notin {p.webhook : p \in ProbeDials(r)}

judge_probed(r) ==
  LET unproved(h) == /\ h.policy = "Fail"
                     /\ ServiceBacked(h)
                     /\ [config |-> h.config, webhook |-> h.webhook,
                         dial |-> dial(h.dial)] \notin ProbeDials(r)
  IN \/ \E p \in r.probes : wrong_probe(r, p)
     \/ \E h \in r.hooks : ~ServiceBacked(h) \/ unproved(h)

judge(r) ==
  \/ \E h \in r.hooks : h.policy # "Fail" /\ h.webhook \notin ACCEPTED_IGNORE
  \/ judge_probed(r)

judge_all(rs) ==
  \/ \E r \in rs : judge(r) \/ \E p \in r.probes : reach(r, p)
  \/ stale(UNION {ignored(r) : r \in rs}, ACCEPTED_IGNORE) # {}

-----------------------------------------------------------------------------
(* The chart's own webhooks, and the faults of the self test. *)

Dial(s, ns, port, path) == [svc |-> s, ns |-> ns, port |-> port, path |-> path]

Hook(c, w, d, policy) == [config |-> c, webhook |-> w, dial |-> d, policy |-> policy, at |-> 1]

Probe(c, w, d) == [config |-> c, webhook |-> w, dial |-> d]

Object(n, by, gated, at) == [name |-> n, by |-> by, gated |-> gated, at |-> at]

cnpg == Hook("cnpg", "vbackup", Dial("cnpg-svc", "gibson", 443, "/validate"), "Fail")

spire(w) == Hook("spire", w, Dial("spire-webhook", "", 443, "/validate"), "Ignore")

SHIPPED ==
  [hooks    |-> {cnpg, Hook("setec", "vsandbox", Dial("setec-webhook", "setec", 0, "/validate"), "Fail")}
                \cup {spire(w) : w \in ACCEPTED_IGNORE},
   probes   |-> {Probe("cnpg", "vbackup", Dial("cnpg-svc", "", 0, "/validate")),
                 Probe("setec", "vsandbox", Dial("setec-webhook", "setec", 443, "/validate"))},
   services |-> {[name |-> "setec-webhook", ns |-> "setec", port |-> 443, target |-> 9443]},
   rules    |-> {[ns |-> "setec", ports |-> {9443},
                  from |-> {[ns |-> release_ns, labels |-> {<<"component", "webhook-gate">>}]}]},
   labels   |-> {<<"component", "webhook-gate">>, EgressLabel},
   objects  |-> {Object("ScheduledBackup", {"vbackup"}, TRUE, 2),
                 Object("SandboxClass", {"vsandbox"}, TRUE, 2),
                 Object("ClusterSPIFFEID", {"vclusterspiffeid"}, FALSE, 0),
                 Object("Cluster", {"vbackup"}, FALSE, 0)}]

\* The chart, each fault the self test plants in it, and three changes the
\* guard has no rule for: the gate dropped, kinds that sort later, and all
\* behind the gate.
FIXTURES ==
  LET r == SHIPPED
      unprobed(q) == {p \in q : p.config # "cnpg"}
  IN {r,
      [r EXCEPT !.probes = unprobed(@)],
      [r EXCEPT !.probes = {[p EXCEPT !.dial.path = "/wrong"] : p \in @}],
      [r EXCEPT !.probes = @ \cup {Probe("gone", "z", Dial("z", "", 443, ""))}],
      [r EXCEPT !.hooks = @ \cup {[cnpg EXCEPT !.dial.path = "/other"]}],
      [r EXCEPT !.hooks = @ \cup {Hook("urlbacked", "c", Dial("", "", 0, ""), "Fail")}],
      [r EXCEPT !.hooks = (@ \ {cnpg}) \cup {[cnpg EXCEPT !.policy = "Ignore"]},
                !.probes = unprobed(@)],
      [r EXCEPT !.hooks = {[h EXCEPT !.policy = "Fail"] : h \in @}],
      [r EXCEPT !.labels = @ \ {EgressLabel}],
      [r EXCEPT !.rules = {}],
      [r EXCEPT !.services = {[s EXCEPT !.target = 8443] : s \in @}],
      [r EXCEPT !.objects = {[o EXCEPT !.gated = FALSE] : o \in @}],
      [r EXCEPT !.objects = {[o EXCEPT !.at = 1] : o \in @}],
      [r EXCEPT !.objects = {[o EXCEPT !.gated = TRUE] : o \in @}]}

-----------------------------------------------------------------------------
(* The install. *)

\* Cilium: a pod of the release reaches another namespace only with the
\* egress label, and only where an ingress rule there admits it.
Connects(r, d) ==
  \/ d.ns = release_ns
  \/ /\ EgressLabel \in r.labels
     /\ \E s \in r.services : /\ s.name = d.svc /\ s.ns = d.ns /\ s.port = d.port
                              /\ admits(r, d.ns, s.target)

\* What one request of the gate gets: an answer, no server, or nothing.
probe(r, p) ==
  LET d == dial(p.dial)
  IN IF ~Connects(r, d) THEN "blocked"
     ELSE IF d \notin {dial(h.dial) : h \in r.hooks} THEN "404"
     ELSE IF d \in up THEN "ok" ELSE "down"

\* The webhooks the API server asks before it writes object o.
Asked(o) == {h \in render.hooks : h.webhook \in o.by}

Dead(h) == ServiceBacked(h) /\ dial(h.dial) \notin up

Refuses(o) == \E h \in Asked(o) : h.policy = "Fail" /\ Dead(h)

Seen(o) == {h.webhook : h \in {g \in Asked(o) : ~Dead(g)}}

\* sets are the sets of renders (one per profile) to judge.
HookInit(sets) ==
  /\ renders \in sets
  /\ render \in renders
  /\ verdict = "none" /\ phase = "judge" /\ next = 0
  /\ up = {} /\ pending = {} /\ last = {} /\ rounds = 0 /\ answered = {}
  /\ refused = {} /\ applied = {}

GuardRuns ==
  /\ phase = "judge"
  /\ verdict' = IF judge_all(renders) THEN "fail" ELSE "pass"
  /\ phase' = "main"
  /\ UNCHANGED <<renders, render, next, up, pending, last, rounds, answered, refused, applied>>

\* An operator's pod becomes ready and serves its webhooks.
PodServes ==
  /\ phase \in {"main", "gate"}
  /\ \E h \in render.hooks : Dead(h) /\ up' = up \cup {dial(h.dial)}
  /\ UNCHANGED <<renders, render, verdict, phase, next, pending, last, rounds, answered, refused, applied>>

\* A pod goes away, replaced, evicted or restarted, and its webhooks have no
\* server until the next one is ready.  A probe that has answered is not asked
\* again.
PodGone ==
  /\ phase \in {"main", "gate"}
  /\ \E d \in up : up' = up \ {d}
  /\ UNCHANGED <<renders, render, verdict, phase, next, pending, last, rounds, answered, refused, applied>>

\* Helm writes objs; one refusal stops the install.
Write(objs, then) ==
  /\ refused' = refused \cup {o \in objs : Refuses(o)}
  /\ applied' = applied \cup {[name |-> o.name, seen |-> Seen(o)] :
                              o \in {x \in objs : ~Refuses(x)}}
  /\ phase' = IF \E o \in objs : Refuses(o) THEN "stopped" ELSE then

\* The main phase: the objects of one place in the order of kinds. An
\* object before a configuration is not admitted by its webhooks.
ApplyKind ==
  LET places == {o.at : o \in render.objects} \cup {h.at : h \in render.hooks}
      live(o) == {h.webhook : h \in {g \in render.hooks : g.at <= o.at}}
      here == {[o EXCEPT !.by = @ \cap live(o)] :
               o \in {x \in render.objects : ~x.gated /\ x.at = next}}
  IN /\ phase = "main"
     /\ \E at \in places : at >= next
     /\ Write(here, "main")
     /\ next' = next + 1
     /\ UNCHANGED <<renders, render, verdict, up, pending, last, rounds, answered>>

StartGate ==
  /\ phase = "main"
  /\ \A at \in {o.at : o \in render.objects} \cup {h.at : h \in render.hooks} : at < next
  /\ phase' = "gate"
  /\ pending' = render.probes
  /\ UNCHANGED <<renders, render, verdict, next, up, last, rounds, answered, refused, applied>>

\* One round over the pending probes.
Round ==
  LET ok == {p \in pending : probe(render, p) = "ok"}
  IN /\ phase = "gate" /\ pending # {} /\ rounds < DEADLINE
     /\ pending' = pending \ ok
     /\ answered' = answered \cup {dial(p.dial) : p \in ok}
     /\ last' = {<<p, probe(render, p)>> : p \in pending}
     /\ rounds' = rounds + 1
     /\ UNCHANGED <<renders, render, verdict, phase, next, up, refused, applied>>

DeadlinePasses ==
  /\ phase = "gate" /\ pending # {} /\ rounds = DEADLINE
  /\ phase' = "stopped"
  /\ UNCHANGED <<renders, render, verdict, next, up, pending, last, rounds, answered, refused, applied>>

ApplyGated ==
  /\ phase = "gate" /\ pending = {}
  /\ Write({o \in render.objects : o.gated}, "done")
  /\ UNCHANGED <<renders, render, verdict, next, up, pending, last, rounds, answered>>

HookNext == \/ GuardRuns \/ PodServes \/ PodGone \/ ApplyKind \/ StartGate \/ Round
            \/ DeadlinePasses \/ ApplyGated

-----------------------------------------------------------------------------
(* Properties. *)

\* In a chart that check-webhooks.py passes, Helm gets to an object behind the
\* gate only after each webhook that admits it, at the endpoint the API server
\* dials, has answered the gate: one that is refused is refused by a webhook
\* whose server answered and has gone since.  An object that the gate does not
\* hold back may be refused: no rule of the guard asks for the hook.
GatedAdmitted ==
  verdict = "pass" =>
    /\ \A o \in refused : o.gated => \E h \in Asked(o) : h.policy = "Fail" /\ dial(h.dial) \in answered \ up
    /\ \A o \in render.objects :
         (o.gated /\ \E a \in applied : a.name = o.name) =>
           \A h \in Asked(o) : h.policy = "Fail" => dial(h.dial) \in answered

\* No object behind the gate of a passed chart goes in without a webhook
\* that admits it having seen it, the two accepted ones of SPIRE apart.
GatedSeen ==
  verdict = "pass" =>
    \A a \in applied, o \in render.objects :
      (o.gated /\ a.name = o.name) =>
        \A h \in Asked(o) : h.webhook \in ACCEPTED_IGNORE \/ h.webhook \in a.seen

\* In a passed chart a probe without an answer means a server that is not
\* up at that moment. The gate never waits for its deadline on a policy that drops the
\* probe or on a path that no server has.
GateWaitsForPods ==
  verdict = "pass" => \A l \in last : l[2] \in {"ok", "down"}

-----------------------------------------------------------------------------
(* Why the gate holds: what it has not answered is pending, and before it  *)
(* opens no object behind it was written or refused.                       *)

HookInv(sets) ==
  /\ renders \in sets /\ render \in renders
  /\ verdict = "none" <=> phase = "judge"
  /\ phase = "judge" => last = {}
  /\ verdict = "pass" => ~judge_all(renders)
  /\ phase = "gate" => /\ pending \subseteq render.probes
                       /\ \A p \in render.probes \ pending : dial(p.dial) \in answered
  /\ phase \in {"judge", "main", "gate"} =>
       /\ \A o \in refused : ~o.gated
       /\ \A a \in applied : \E x \in render.objects : ~x.gated /\ a.name = x.name
=============================================================================
