---------------------------- MODULE HubbleDrops ----------------------------
(***************************************************************************)
(* scripts/check-hubble-drops.py on a running cluster.  Pods dial, answer, *)
(* end, and give their address to the next pod; the Cilium datapath        *)
(* records a flow at the egress and at the ingress of every packet; the    *)
(* guard reads the flows and judges them.                                  *)
(*                                                                         *)
(* A pod is [name, ns, labels, listens].  The packets of a connection      *)
(* after the first have an entry in the connection table (ct) and meet no  *)
(* policy; when a pod ends, Cilium drops the entries of its address, and   *)
(* the server at the other end does not know it yet (socks).               *)
(***************************************************************************)
EXTENDS CiliumPolicy

CONSTANTS Networks,   \* sets of policy rules, one of which is installed
          Pods,       \* the pods that may run
          Addresses,  \* the addresses of the pod CIDR
          Namespace,  \* --namespace
          CallerPort, \* the port of --expect-forward and --expect-drop
          MaxDials, MaxEnds, MaxStarts   \* bounds of the model

VARIABLES rules,     \* the installed policy rules
          at,        \* the pod at each address, NoPod for none
          wire,      \* the packet between its egress and its ingress, if any
          ct, socks, \* connections: [client, server] addresses and the port
          flows,     \* what Hubble recorded
          dials, ends, starts,
          mode, asked, seen, verdict,  \* the guard: what it was asked, read and found
          refused    \* history: the dials a policy refused, <<from, to, port>>

cluster == <<rules, at, wire, ct, socks, flows, dials, ends, starts, refused>>
guard == <<mode, asked, seen, verdict>>
vars == <<cluster, guard>>

NoPod == [name |-> "", ns |-> "", labels |-> {}, listens |-> {}]
Ephemeral == 60814
Identity(pod) == IF pod = NoPod THEN World ELSE endpoint(pod.ns, pod.labels)

(***************************************************************************)
(* The guard.                                                              *)
(***************************************************************************)
POLICY_REASONS == {"POLICY_DENIED", "POLICY_DENY", "AUTH_REQUIRED"}

\* A pod that is gone has no ports to read: it listens on none.
listens(pod, port) == \E a \in Addresses : at[a] = pod /\ port \in pod.listens

in_pod_cidr(ip) == ip \in Addresses

\* The first port that is ephemeral.
EphemeralFrom == 32768

\* Mutant: a first packet to a pod that is gone is excused too.
gone_peer_any_flag(flow) ==
    flow.dst = NoPod /\ in_pod_cidr(flow.ip) /\ flow.dport >= EphemeralFrom

gone_peer(flow) ==
    /\ flow.flags # {} /\ "SYN" \notin flow.flags
    /\ flow.dst = NoPod
    /\ in_pod_cidr(flow.ip)
    /\ flow.dport >= EphemeralFrom
    /\ flow.src # NoPod /\ listens(flow.src, flow.sport)

Dropped(observed) ==
    {f \in observed : /\ f.verdict = "DROPPED" /\ f.reason \in POLICY_REASONS
                      /\ Namespace \in {f.src.ns, f.dst.ns}}

policy_drops(observed) == {f \in Dropped(observed) : ~gone_peer(f)}
forwarded(observed, name, port) ==
    {f \in observed : f.verdict = "FORWARDED" /\ f.src.name = name /\ f.dport = port}

\* Mutant: a drop of any pod counts for the expected one.
expected_drops_any_pod(drops, name, port, direction) ==
    {f \in drops : port \in {AnyPort, f.dport} /\ direction \in {"", f.dir}}

expected_drops(drops, name, port, direction) ==
    {f \in drops : /\ f.src.name = name /\ port \in {AnyPort, f.dport}
                   /\ direction \in {"", f.dir}}

live_flows(v) == {f \in flows : f.verdict = v /\ Namespace \in {f.src.ns, f.dst.ns}}

FirstRead == "FORWARDED"

(***************************************************************************)
(* The cluster (external).                                                 *)
(***************************************************************************)
Flow(verdictOf, dir, pk, dst) ==
    [verdict |-> IF verdictOf = "" THEN "FORWARDED" ELSE "DROPPED", reason |-> verdictOf, dir |-> dir,
     src |-> pk.src, dst |-> dst, ip |-> pk.to, sport |-> pk.sport, dport |-> pk.dport, flags |-> pk.flags]

Packet(from, to, sport, dport, flags) ==
    [from |-> from, src |-> at[from], to |-> to, sport |-> sport, dport |-> dport, flags |-> flags]

\* The egress hook: policy on the identity that the address has now.
Send(pk) ==
    LET dst == at[pk.to]
        ok == EgressAllowed(rules, Identity(pk.src), Identity(dst), pk.dport)
    IN  /\ flows' = flows \cup {Flow(IF ok THEN "" ELSE "POLICY_DENIED", "EGRESS", pk, dst)}
        /\ wire' = IF ok THEN <<pk>> ELSE wire
        /\ refused' = IF ok \/ "SYN" \notin pk.flags THEN refused
                      ELSE refused \cup {<<pk.src, dst, pk.dport>>}

Dial(from, to, port) ==
    /\ dials < MaxDials /\ wire = <<>> /\ from # to /\ at[from] # NoPod
    /\ at[to] = NoPod \/ port \in at[to].listens
    /\ Send(Packet(from, to, Ephemeral, port, {"SYN"}))
    /\ dials' = dials + 1
    /\ UNCHANGED <<rules, at, ct, socks, ends, starts, guard>>

\* The ingress hook; a packet for an address with no pod has no route.  A pod
\* that does not listen on the port, since the address was given to it while
\* the packet was under way, opens no connection.
Deliver ==
    /\ wire # <<>>
    /\ LET pk == wire[1]
           dst == at[pk.to]
           ok == IngressAllowed(rules, Identity(pk.src), Identity(dst), pk.dport)
           conn == [client |-> pk.from, server |-> pk.to, port |-> pk.dport]
           reason == IF dst = NoPod THEN "STALE_OR_UNROUTABLE_IP"
                     ELSE IF ok THEN "" ELSE "POLICY_DENIED"
           opens == reason = "" /\ "SYN" \in pk.flags /\ pk.dport \in dst.listens
       IN  /\ flows' = flows \cup {Flow(reason, "INGRESS", pk, dst)}
           /\ ct' = IF opens THEN ct \cup {conn} ELSE ct
           /\ socks' = IF opens THEN socks \cup {conn} ELSE socks
           /\ refused' = IF reason = "POLICY_DENIED" /\ "SYN" \in pk.flags
                           THEN refused \cup {<<pk.src, dst, pk.dport>>} ELSE refused
    /\ wire' = <<>>
    /\ UNCHANGED <<rules, at, dials, ends, starts, guard>>

EndPod(a) ==
    /\ ends < MaxEnds /\ at[a] # NoPod
    /\ at' = [at EXCEPT ![a] = NoPod]
    /\ ct' = {c \in ct : a \notin {c.client, c.server}}
    /\ socks' = {c \in socks : c.server # a}
    /\ ends' = ends + 1
    /\ UNCHANGED <<rules, wire, flows, dials, starts, refused, guard>>

StartPod(a, pod) ==
    /\ starts < MaxStarts /\ at[a] = NoPod /\ \A b \in Addresses : at[b] # pod
    /\ at' = [at EXCEPT ![a] = pod]
    /\ starts' = starts + 1
    /\ UNCHANGED <<rules, wire, ct, socks, flows, dials, ends, refused, guard>>

\* A server closes a connection; without its entry the packet meets the policy.
Close(c) ==
    /\ c \in socks /\ wire = <<>>
    /\ socks' = socks \ {c}
    /\ ct' = ct \ {c}
    /\ IF c \in ct THEN UNCHANGED <<flows, wire, refused>>
       ELSE Send(Packet(c.server, c.client, c.port, Ephemeral, {"ACK", "FIN"}))
    /\ UNCHANGED <<rules, at, dials, ends, starts, guard>>

(***************************************************************************)
(* The modes of the guard.  A packet on the wire is at its ingress before  *)
(* a read of the flows ends.                                               *)
(***************************************************************************)
Judge ==
    /\ mode = "drops" /\ verdict = "" /\ wire = <<>>
    /\ seen' = live_flows("DROPPED")
    /\ verdict' = IF policy_drops(seen') = {} THEN "pass" ELSE "fail"
    /\ UNCHANGED <<cluster, mode, asked>>

ExpectDrop ==
    /\ mode = "drop" /\ verdict = "" /\ wire = <<>>
    /\ seen' = live_flows("DROPPED")
    /\ verdict' = IF expected_drops(policy_drops(seen'), asked.name, CallerPort, "EGRESS") # {}
                    THEN "pass" ELSE "fail"
    /\ UNCHANGED <<cluster, mode, asked>>

ExpectForwardFirst ==
    /\ mode = "forward" /\ verdict = "" /\ wire = <<>>
    /\ seen' = live_flows(FirstRead)
    /\ verdict' = "reading"
    /\ UNCHANGED <<cluster, mode, asked>>

\* The second read takes the other verdict; no peer is known in this mode, so
\* no drop is a late reply.
ExpectForward ==
    /\ verdict = "reading" /\ wire = <<>>
    /\ seen' = seen \cup live_flows(IF FirstRead = "DROPPED" THEN "FORWARDED" ELSE "DROPPED")
    /\ LET drops == {f \in Dropped(seen') : f.src.name = asked.name}
       IN  verdict' = IF forwarded(seen', asked.name, CallerPort) # {} /\ drops = {}
                        THEN "pass" ELSE "fail"
    /\ UNCHANGED <<cluster, mode, asked>>

Init ==
    /\ rules \in Networks
    /\ at \in {f \in [Addresses -> Pods \cup {NoPod}] :
                 \A a, b \in Addresses : f[a] = f[b] /\ f[a] # NoPod => a = b}
    /\ wire = <<>> /\ ct = {} /\ socks = {} /\ flows = {} /\ refused = {}
    /\ dials = 0 /\ ends = 0 /\ starts = 0
    /\ mode \in {"drops", "drop", "forward"}
    \* The caller that is asked about is a pod of the namespace.
    /\ asked \in IF mode = "drops" THEN {NoPod} ELSE {p \in Pods : p.ns = Namespace}
    /\ seen = {} /\ verdict = ""

Next ==
    /\ verdict \in {"", "reading"}
    /\ \/ \E a, b \in Addresses : \E p \in UNION {pod.listens : pod \in Pods} : Dial(a, b, p)
       \/ Deliver
       \/ \E a \in Addresses : EndPod(a) \/ \E p \in Pods : StartPod(a, p)
       \/ \E c \in socks : Close(c)
       \/ Judge \/ ExpectDrop \/ ExpectForwardFirst \/ ExpectForward

Spec == Init /\ [][Next]_vars

(***************************************************************************)
(* Properties.                                                             *)
(***************************************************************************)
\* The guard passes a cluster only if no policy refused a dial to or from the
\* namespace before it read the flows: ending pods, reused addresses and late
\* packets never hide a refused dial.
RefusalsReported ==
    mode = "drops" /\ verdict = "pass" => \A r \in refused : Namespace \notin {r[1].ns, r[2].ns}

\* A server that answers a client pod that has ended fails no check.  The guard
\* fails a cluster only for a refused dial to or from the namespace, or for a
\* late reply that it cannot tell from a call: another pod had the address of
\* the client when the reply was dropped, or the server has ended itself
\* before its ports were read.
LateRepliesPass ==
    mode = "drops" /\ verdict = "fail" =>
        \/ \E r \in refused : Namespace \in {r[1].ns, r[2].ns}
        \/ \E f \in Dropped(seen) : /\ "SYN" \notin f.flags
                                    /\ f.dst # NoPod \/ \A a \in Addresses : at[a] # f.src

\* --expect-forward passes only if the caller's packet to the port was not
\* refused at the ingress of its destination either.
ForwardedNotRefused ==
    mode = "forward" /\ verdict = "pass" => \A r \in refused : ~(r[1] = asked /\ r[3] = CallerPort)

\* --expect-drop passes only if the policy of the caller refused its dial.
ExpectedDropRefused ==
    mode = "drop" /\ verdict = "pass" => \E r \in refused : r[1] = asked /\ r[3] = CallerPort

(***************************************************************************)
(* Why the verdicts are right.  A packet that is not the first of its      *)
(* connection is a late reply: from a pod that listens on its source port, *)
(* since the socket of a pod ends with it.                                 *)
(***************************************************************************)
Reply(x) == /\ x.flags = {"ACK", "FIN"} /\ x.dport = Ephemeral
            /\ x.src # NoPod /\ x.sport \in x.src.listens

OnWire(pk) ==
    /\ pk.src \in Pods \cup {NoPod} /\ pk.to \in Addresses /\ pk.from \in Addresses
    /\ pk.flags = {"SYN"} \/ Reply(pk)

Recorded(f) ==
    /\ f.src \in Pods \cup {NoPod} /\ f.ip \in Addresses
    /\ f.reason \in POLICY_REASONS /\ f.flags = {"SYN"} => <<f.src, f.dst, f.dport>> \in refused
    /\ f.flags = {"SYN"} \/ Reply(f)

\* The server of an open connection runs.
Connected(c) ==
    /\ c.client \in Addresses /\ c.server \in Addresses
    /\ at[c.server] # NoPod /\ c.port \in at[c.server].listens

\* The flow of each refusal.
Shows(r, f) ==
    /\ f.verdict = "DROPPED" /\ f.reason = "POLICY_DENIED" /\ f.flags = {"SYN"}
    /\ r = <<f.src, f.dst, f.dport>>

DropsInv ==
    /\ at \in [Addresses -> Pods \cup {NoPod}]
    /\ mode = "drops" \/ (asked \in Pods /\ asked.ns = Namespace)
    /\ wire = <<>> \/ \E pk \in {wire[1]} : wire = <<pk>> /\ OnWire(pk)
    /\ \A f \in flows : Recorded(f)
    /\ \A c \in socks : Connected(c)
    /\ \A r \in refused : \E f \in flows : Shows(r, f)
    /\ verdict = "reading" => mode = "forward"
=============================================================================
