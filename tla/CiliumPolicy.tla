---------------------------- MODULE CiliumPolicy ----------------------------
(***************************************************************************)
(* scripts/lib/cilium_policy.py, the reading of the Cilium policies that   *)
(* the network guards share, and beside it what the Cilium datapath does   *)
(* with the same policies (external).                                      *)
(*                                                                         *)
(* Labels are sets of <<key, value>>.  A selector is [match, exprs]; its   *)
(* keys are <<source, key>>, the k8s: prefix of a key being its source.    *)
(* A rule is [policy, ns, sel, deny, ingress, egress], ns = Clusterwide    *)
(* for a CiliumClusterwideNetworkPolicy and deny the enableDefaultDeny     *)
(* ("" where it is not set).  An item of its ingress or egress is          *)
(* [entities, endpoints, cidrs, fqdns, ports], empty sets for what it does *)
(* not name.                                                               *)
(***************************************************************************)
EXTENDS Integers, Sequences, FiniteSets

NS_KEY == "io.kubernetes.pod.namespace"
POD_ENTITIES == {"all", "cluster"}
WORLD_ENTITIES == {"all", "world"}
OPEN_CIDRS == {"0.0.0.0/0", "::/0"}
Clusterwide == "(clusterwide)"
AnyPort == 0

Key(k) == <<"k8s", k>>
Sel(pairs) == [match |-> {<<Key(p[1]), p[2]>> : p \in pairs}, exprs |-> {}]
Everywhere(sel) ==
    [sel EXCEPT !.exprs = @ \cup {[key |-> Key(NS_KEY), op |-> "Exists", values |-> {}]}]

Item(entities, endpoints, ports) ==
    [entities |-> entities, endpoints |-> endpoints, cidrs |-> {}, fqdns |-> {}, ports |-> ports]
FromTo(sel) == Item({}, {sel}, {})
CiliumRule(policy, ns, sel, ingress, egress) ==
    [policy |-> policy, ns |-> ns, sel |-> sel,
     deny |-> [ingress |-> "", egress |-> ""], ingress |-> ingress, egress |-> egress]

(***************************************************************************)
(* The library.                                                            *)
(***************************************************************************)
norm(key) == key[2]

Values(labels, k) == {l[2] : l \in {l \in labels : l[1] = k}}

selects(sel, labels) ==
    /\ \A m \in sel.match : m[2] \in Values(labels, norm(m[1]))
    /\ \A e \in sel.exprs :
          LET held == Values(labels, norm(e.key))
          IN  CASE e.op = "In" -> held \cap e.values # {}
                [] e.op = "NotIn" -> held \cap e.values = {}
                [] e.op = "Exists" -> held # {}
                [] e.op = "DoesNotExist" -> held = {}

names_namespace(sel) ==
    \/ \E m \in sel.match : norm(m[1]) = NS_KEY
    \/ \E e \in sel.exprs : norm(e.key) = NS_KEY

endpoint(ns, labels) == labels \cup {<<NS_KEY, ns>>}

\* A selector of a namespaced policy that names no namespace means its own.
peer_selects(sel, ns, ep) ==
    /\ ns = Clusterwide \/ names_namespace(sel) \/ <<NS_KEY, ns>> \in ep
    /\ selects(sel, ep)

rule_selects(rule, ep) == peer_selects(rule.sel, rule.ns, ep)

port_ok(item, port) == port = AnyPort \/ item.ports = {} \/ port \in item.ports

ItemNames(item, ns, ep) ==
    \/ POD_ENTITIES \cap item.entities # {}
    \/ \E s \in item.endpoints : peer_selects(s, ns, ep)

ingress_admits(rule, src, port) ==
    \E i \in rule.ingress : port_ok(i, port) /\ ItemNames(i, rule.ns, src)

egress_reaches(rule, dst, port) ==
    \E e \in rule.egress : port_ok(e, port) /\ ItemNames(e, rule.ns, dst)

egress_world(rule) ==
    \E e \in rule.egress : WORLD_ENTITIES \cap e.entities # {} \/ OPEN_CIDRS \cap e.cidrs # {}

egress_fqdn(rule) == \E e \in rule.egress : e.fqdns # {}

reaches(rules, src, dst, port) ==
    /\ \E r \in rules : rule_selects(r, src) /\ egress_reaches(r, dst, port)
    /\ \E r \in rules : rule_selects(r, dst) /\ ingress_admits(r, src, port)

(***************************************************************************)
(* The datapath (external).  A side is enforced for an endpoint as soon as *)
(* a rule with that section selects it; an item with ports and no peer is  *)
(* open to every peer on these ports, and an item with neither allows      *)
(* nothing.  The library above does not read an item with ports alone.    *)
(* The world is an address that only the open CIDRs hold.                  *)
(***************************************************************************)
World == {<<"reserved", "world">>}
IsPod(ep) == \E l \in ep : l[1] = NS_KEY

PortsAlone(item) ==
    /\ item.ports # {}
    /\ item.entities = {} /\ item.endpoints = {} /\ item.cidrs = {} /\ item.fqdns = {}

DatapathItem(item, ns, peer, port) ==
    /\ item.ports = {} \/ port \in item.ports
    /\ \/ PortsAlone(item)
       \/ "all" \in item.entities
       \/ IsPod(peer) /\ ("cluster" \in item.entities
                          \/ \E s \in item.endpoints : peer_selects(s, ns, peer))
       \/ ~IsPod(peer) /\ ("world" \in item.entities \/ OPEN_CIDRS \cap item.cidrs # {})

EgressAllowed(rules, src, dst, port) ==
    LET mine == {r \in rules : rule_selects(r, src)}
    IN  \/ \A r \in mine : r.egress = {} \/ r.deny.egress = "false"
        \/ \E r \in mine : \E e \in r.egress : DatapathItem(e, r.ns, dst, port)

IngressAllowed(rules, src, dst, port) ==
    LET mine == {r \in rules : rule_selects(r, dst)}
    IN  \/ \A r \in mine : r.ingress = {} \/ r.deny.ingress = "false"
        \/ \E r \in mine : \E i \in r.ingress : DatapathItem(i, r.ns, src, port)

=============================================================================
