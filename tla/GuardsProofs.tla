---------------------------- MODULE GuardsProofs ----------------------------
(***************************************************************************)
(* What the runs guards and install check on the fixtures of the           *)
(* selftests, for every value of the constants: the install of a chart     *)
(* that the guards pass is safe whatever the render says (MCInstall), and  *)
(* each tool of ClusterTools keeps its promise.                            *)
(*                                                                         *)
(* The inductive invariant of each tool is at the end of its own module,   *)
(* the three of the install are here.                                      *)
(***************************************************************************)
EXTENDS ClusterTools, MCInstall, FiniteSetTheorems, TLAPS

(* The image of a finite set is finite.                                    *)
LEMMA FiniteImage ==
  ASSUME NEW S, IsFiniteSet(S), NEW f
  PROVE  IsFiniteSet({f[x] : x \in S})
<1> DEFINE T == {f[x] : x \in S}
           g == [x \in S |-> f[x]]
<1>1. g \in Surjection(S, T)
  BY DEF Surjection
<1> QED
  BY <1>1, FS_Surjection

(* No step changes the tool that runs, and each is a step of that tool.    *)
LEMMA GateKept ==
  ASSUME [ToolsNext]_vars
  PROVE  /\ gate' = gate
         /\ gate = "hubble-drops" => Hubble!Next \/ UNCHANGED vars
         /\ gate = "webhooks" => Hooks!HookNext \/ UNCHANGED vars
         /\ gate = "rate-limits" => Rates!RateNext \/ UNCHANGED vars
         /\ gate = "pg-logins" => Leases!PgNext \/ UNCHANGED vars
         /\ gate = "keyring" => Keys!SealNext \/ UNCHANGED vars
         /\ gate = "purge" => Purge!PurgeNext \/ UNCHANGED vars
BY Zenon DEF ToolsNext, vars, Rest7, Rest8, Rest9, Rest10, Rest11, Rest12, Rest13, Rest14

\* The first state of a tool is one of its own first states.
LEMMA GateStarts ==
  ASSUME ToolsInit
  PROVE  /\ gate = "hubble-drops" => Hubble!Init
         /\ gate = "webhooks" => Hooks!HookInit(HookSets)
         /\ gate = "rate-limits" => Rates!RateInit(LimitedEdges)
         /\ gate = "pg-logins" => Leases!PgInit
         /\ gate = "keyring" => Keys!SealInit
         /\ gate = "purge" => Purge!PurgeInit
BY Zenon DEF ToolsInit

-----------------------------------------------------------------------------
(* HubbleDrops                                                             *)

(* The slots: g1 rules, g2 at, g3 wire, g4 ct, g5 socks, g6 flows,         *)
(* g7 dials, g8 ends, g9 starts, g10 mode, g11 asked, g12 seen,            *)
(* g13 verdict, g14 refused.                                               *)

DropsSafe == /\ Hubble!DropsInv
             /\ Hubble!RefusalsReported /\ Hubble!LateRepliesPass
             /\ Hubble!ForwardedNotRefused /\ Hubble!ExpectedDropRefused

\* Before the first packet there is nothing to judge.
LEMMA DropsStart == ASSUME Hubble!Init PROVE DropsSafe
<1>1. Hubble!DropsInv
  BY DEF Hubble!Init, Hubble!DropsInv
<1> QED
  BY <1>1 DEF DropsSafe, Hubble!Init, Hubble!RefusalsReported, Hubble!LateRepliesPass,
              Hubble!ForwardedNotRefused, Hubble!ExpectedDropRefused

\* The flow of a packet at one of its two hooks.  A refusal that it records
\* is in refused, and refused has no other ones.
LEMMA FlowRecorded ==
  ASSUME NEW pk, Hubble!OnWire(pk), NEW reason, NEW dir, NEW f,
         f = Hubble!Flow(reason, dir, pk, g2[pk.to]),
         reason \in {"", "POLICY_DENIED", "STALE_OR_UNROUTABLE_IP"},
         \A x \in g6 : Hubble!Recorded(x),
         \A r \in g14 : \E x \in g6 : Hubble!Shows(r, x),
         g6' = g6 \cup {f},
         g14' = IF reason = "POLICY_DENIED" /\ "SYN" \in pk.flags
                  THEN g14 \cup {<<pk.src, g2[pk.to], pk.dport>>} ELSE g14
  PROVE  /\ \A x \in g6' : Hubble!Recorded(x)'
         /\ \A r \in g14' : \E x \in g6' : Hubble!Shows(r, x)
<1>1. /\ f.verdict = (IF reason = "" THEN "FORWARDED" ELSE "DROPPED") /\ f.reason = reason
      /\ f.src = pk.src /\ f.dst = g2[pk.to] /\ f.ip = pk.to
      /\ f.sport = pk.sport /\ f.dport = pk.dport /\ f.flags = pk.flags
  BY DEF Hubble!Flow
<1>2. pk.flags = {"SYN"} \/ pk.flags = {"ACK", "FIN"}
  BY DEF Hubble!OnWire, Hubble!Reply
<1>3. ASSUME NEW x \in g6 PROVE Hubble!Recorded(x)'
  <2>1. Hubble!Recorded(x) /\ g14 \subseteq g14'
    OBVIOUS
  <2> QED
    BY <2>1 DEF Hubble!Recorded, Hubble!Reply
<1>4. Hubble!Recorded(f)'
  <2>1. f.reason \in Hubble!POLICY_REASONS /\ f.flags = {"SYN"} => <<f.src, f.dst, f.dport>> \in g14'
    BY <1>1 DEF Hubble!POLICY_REASONS
  <2> QED
    BY <1>1, <2>1 DEF Hubble!Recorded, Hubble!OnWire, Hubble!Reply
<1>5. ASSUME NEW r \in g14' PROVE \E x \in g6' : Hubble!Shows(r, x)
  <2>1. CASE r \in g14
    BY <2>1
  <2>2. CASE r \notin g14
    <3>1. r = <<pk.src, g2[pk.to], pk.dport>> /\ reason = "POLICY_DENIED" /\ pk.flags = {"SYN"}
      BY <1>2, <1>5, <2>2
    <3>2. Hubble!Shows(r, f)
      BY <1>1, <3>1 DEF Hubble!Shows
    <3> QED
      BY <3>2
  <2> QED
    BY <2>1, <2>2
<1> QED
  BY <1>3, <1>4, <1>5

\* A packet at its egress.
LEMMA SendKept ==
  ASSUME Hubble!DropsInv, NEW pk, Hubble!OnWire(pk), Hubble!Send(pk), g3 = <<>>, UNCHANGED g2
  PROVE  /\ \A x \in g6' : Hubble!Recorded(x)'
         /\ \A r \in g14' : \E x \in g6' : Hubble!Shows(r, x)
         /\ g3' = <<>> \/ \E p \in {g3'[1]} : g3' = <<p>> /\ Hubble!OnWire(p)'
<1> DEFINE ok == Hubble!EgressAllowed(g1, Hubble!Identity(pk.src), Hubble!Identity(g2[pk.to]), pk.dport)
           reason == IF ok THEN "" ELSE "POLICY_DENIED"
           f == Hubble!Flow(reason, "EGRESS", pk, g2[pk.to])
<1>1. /\ g6' = g6 \cup {f}
      /\ g3' = (IF ok THEN <<pk>> ELSE g3)
      /\ g14' = (IF ok \/ "SYN" \notin pk.flags THEN g14 ELSE g14 \cup {<<pk.src, g2[pk.to], pk.dport>>})
  BY DEF Hubble!Send
<1>2. reason \in {"", "POLICY_DENIED", "STALE_OR_UNROUTABLE_IP"} /\ (reason = "POLICY_DENIED" <=> ~ok)
  OBVIOUS
<1> HIDE DEF ok, reason
<1>3. g14' = (IF reason = "POLICY_DENIED" /\ "SYN" \in pk.flags
                THEN g14 \cup {<<pk.src, g2[pk.to], pk.dport>>} ELSE g14)
  BY <1>1, <1>2
<1>4. /\ \A x \in g6 : Hubble!Recorded(x)
      /\ \A r \in g14 : \E x \in g6 : Hubble!Shows(r, x)
  BY DEF Hubble!DropsInv
<1> HIDE DEF f
<1>5. /\ \A x \in g6' : Hubble!Recorded(x)'
      /\ \A r \in g14' : \E x \in g6' : Hubble!Shows(r, x)
  BY <1>1, <1>2, <1>3, <1>4, FlowRecorded DEF f
<1>6. Hubble!OnWire(pk)'
  BY DEF Hubble!OnWire, Hubble!Reply
<1> QED
  BY <1>1, <1>5, <1>6

\* The port that a client takes is one of the ephemeral ones.
LEMMA LateReply == Hubble!Ephemeral >= Hubble!EphemeralFrom
BY SMT DEF Hubble!Ephemeral, Hubble!EphemeralFrom

\* The judgement of the guard, when it reads the flows.
Judges == Hubble!Judge \/ Hubble!ExpectDrop \/ Hubble!ExpectForwardFirst \/ Hubble!ExpectForward

\* A judgement of the guard keeps DropsSafe: a pass means that no refusal of the
\* namespace was recorded, a failure that some flow shows one.
LEMMA DropsJudgement ==
  ASSUME Hubble!DropsInv, Judges
  PROVE  DropsSafe'
<1>1. UNCHANGED <<g1, g2, g3, g4, g5, g6, g7, g8, g9, g14, g10, g11>>
  BY DEF Judges, Hubble!Judge, Hubble!ExpectDrop, Hubble!ExpectForwardFirst,
         Hubble!ExpectForward, Hubble!cluster
<1>2. g13' = "reading" => g10 = "forward"
  BY DEF Judges, Hubble!Judge, Hubble!ExpectDrop, Hubble!ExpectForwardFirst, Hubble!ExpectForward
<1>3. Hubble!DropsInv'
  <2>1. /\ \A f \in g6 : Hubble!Recorded(f) <=> Hubble!Recorded(f)'
        /\ \A c \in g5 : Hubble!Connected(c) <=> Hubble!Connected(c)'
        /\ \A pk : Hubble!OnWire(pk) <=> Hubble!OnWire(pk)'
    BY <1>1 DEF Hubble!Recorded, Hubble!Connected, Hubble!OnWire, Hubble!Reply
  <2> QED
    BY <1>1, <1>2, <2>1 DEF Hubble!DropsInv
<1>4. /\ \A f \in g6 : Hubble!Recorded(f)
      /\ \A r \in g14 : \E f \in g6 : Hubble!Shows(r, f)
      /\ g10 = "drops" \/ (g11 \in Pods /\ g11.ns = Namespace)
      /\ g13 = "reading" => g10 = "forward"
  BY DEF Hubble!DropsInv
<1>5. ASSUME g10' = "drops", g13' = "pass" PROVE \A r \in g14' : Namespace \notin {r[1].ns, r[2].ns}
  <2>1. g12' = Hubble!live_flows("DROPPED") /\ Hubble!policy_drops(g12') = {}
    BY <1>1, <1>4, <1>5 DEF Judges, Hubble!Judge, Hubble!ExpectDrop,
                            Hubble!ExpectForwardFirst, Hubble!ExpectForward
  <2>2. ASSUME NEW r \in g14, Namespace \in {r[1].ns, r[2].ns} PROVE FALSE
    <3>1. PICK f \in g6 : Hubble!Shows(r, f)
      BY <1>4
    <3>2. f \in Hubble!Dropped(g12')
      BY <2>1, <2>2, <3>1 DEF Hubble!Shows, Hubble!live_flows, Hubble!Dropped, Hubble!POLICY_REASONS
    <3>3. ~Hubble!gone_peer(f)
      <4>1. "SYN" \in f.flags
        BY <3>1 DEF Hubble!Shows
      <4> QED
        BY <4>1, Zenon DEF Hubble!gone_peer
    <3> QED
      BY <2>1, <3>2, <3>3 DEF Hubble!policy_drops
  <2> QED
    BY <1>1, <2>2
<1>6. ASSUME g10' = "drops", g13' = "fail", \A r \in g14' : Namespace \notin {r[1].ns, r[2].ns}
      PROVE  \E f \in Hubble!Dropped(g12') :
                /\ "SYN" \notin f.flags
                /\ f.dst # Hubble!NoPod \/ \A a \in Addresses : g2'[a] # f.src
  <2>1. g12' = Hubble!live_flows("DROPPED") /\ Hubble!policy_drops(g12') # {}
    BY <1>1, <1>4, <1>6 DEF Judges, Hubble!Judge, Hubble!ExpectDrop,
                            Hubble!ExpectForwardFirst, Hubble!ExpectForward
  <2>2. PICK f \in Hubble!Dropped(g12') : f \in g6 /\ ~Hubble!gone_peer(f)
    BY <2>1 DEF Hubble!policy_drops, Hubble!Dropped, Hubble!live_flows
  <2>3. f.flags # {"SYN"}
    <3>1. f.reason \in Hubble!POLICY_REASONS /\ Namespace \in {f.src.ns, f.dst.ns}
      BY <2>2 DEF Hubble!Dropped
    <3>2. ASSUME f.flags = {"SYN"} PROVE FALSE
      <4>1. <<f.src, f.dst, f.dport>> \in g14'
        BY <1>1, <1>4, <2>2, <3>1, <3>2 DEF Hubble!Recorded
      <4> QED
        BY <1>6, <3>1, <4>1
    <3> QED
      BY <3>2
  <2>4. /\ f.flags = {"ACK", "FIN"} /\ f.dport = Hubble!Ephemeral /\ f.ip \in Addresses
        /\ f.src # Hubble!NoPod /\ f.sport \in f.src.listens
    BY <1>4, <2>2, <2>3 DEF Hubble!Recorded, Hubble!Reply
  <2>5. "SYN" \notin f.flags
    BY <2>4
  <2>6. ASSUME f.dst = Hubble!NoPod PROVE \A a \in Addresses : g2'[a] # f.src
    <3>1. ~Hubble!listens(f.src, f.sport)
      <4>1. f.flags # {} /\ f.dport >= Hubble!EphemeralFrom
        BY <2>4, LateReply
      <4> QED
        BY <2>2, <2>4, <2>5, <2>6, <4>1, Zenon DEF Hubble!gone_peer, Hubble!in_pod_cidr
    <3> QED
      BY <1>1, <2>4, <3>1 DEF Hubble!listens
  <2> QED
    BY <2>2, <2>5, <2>6
<1>7. ASSUME g10' = "forward", g13' = "pass" PROVE \A r \in g14' : ~(r[1] = g11' /\ r[3] = CallerPort)
  <2>1. /\ g12' = g12 \cup Hubble!live_flows("DROPPED")
        /\ {f \in Hubble!Dropped(g12') : f.src.name = g11.name} = {}
    BY <1>1, <1>7 DEF Judges, Hubble!Judge, Hubble!ExpectDrop,
                      Hubble!ExpectForwardFirst, Hubble!ExpectForward, Hubble!FirstRead
  <2>2. ASSUME NEW r \in g14, r[1] = g11, r[3] = CallerPort PROVE FALSE
    <3>1. PICK f \in g6 : Hubble!Shows(r, f)
      BY <1>4, <2>2
    <3>2. f.verdict = "DROPPED" /\ f.reason = "POLICY_DENIED" /\ f.src = g11
      BY <2>2, <3>1 DEF Hubble!Shows
    <3>3. g11.ns = Namespace
      BY <1>1, <1>4, <1>7
    <3>4. f \in Hubble!Dropped(g12')
      BY <2>1, <3>2, <3>3 DEF Hubble!live_flows, Hubble!Dropped, Hubble!POLICY_REASONS
    <3> QED
      BY <2>1, <3>2, <3>4
  <2> QED
    BY <1>1, <2>2
<1>8. ASSUME g10' = "drop", g13' = "pass" PROVE \E r \in g14' : r[1] = g11' /\ r[3] = CallerPort
  <2>1. /\ g12' = Hubble!live_flows("DROPPED")
        /\ Hubble!expected_drops(Hubble!policy_drops(g12'), g11.name, CallerPort, "EGRESS") # {}
    BY <1>1, <1>4, <1>8 DEF Judges, Hubble!Judge, Hubble!ExpectDrop,
                            Hubble!ExpectForwardFirst, Hubble!ExpectForward
  <2>2. PICK f \in g6 : /\ f.reason \in Hubble!POLICY_REASONS
                        /\ f.src.name = g11.name /\ CallerPort \in {Hubble!AnyPort, f.dport}
    BY <2>1 DEF Hubble!expected_drops, Hubble!policy_drops, Hubble!Dropped, Hubble!live_flows
  <2>3. f.dport = CallerPort /\ f.dport # Hubble!Ephemeral
    BY <2>2, HubbleAssumption
  <2>4. f.src \in Pods \cup {Hubble!NoPod} /\ <<f.src, f.dst, f.dport>> \in g14
    BY <1>4, <2>2, <2>3 DEF Hubble!Recorded, Hubble!Reply
  <2>5. g11 \in Pods /\ g11.name # ""
    BY <1>1, <1>4, <1>8, HubbleAssumption
  <2>6. f.src = g11
    <3>1. Hubble!NoPod.name = ""
      BY DEF Hubble!NoPod
    <3>2. f.src \in Pods
      BY <2>2, <2>4, <2>5, <3>1, Zenon
    <3> QED
      BY <2>2, <2>5, <3>2, HubbleAssumption, Zenon
  <2> QED
    BY <1>1, <2>3, <2>4, <2>6
<1> QED
  BY <1>3, <1>5, <1>6, <1>7, <1>8 DEF DropsSafe, Hubble!RefusalsReported, Hubble!LateRepliesPass,
              Hubble!ForwardedNotRefused, Hubble!ExpectedDropRefused

\* Every packet, pod and judgement keeps DropsSafe.
LEMMA DropsStep == ASSUME DropsSafe, Hubble!Next PROVE DropsSafe'
<1>1. Hubble!DropsInv /\ g13 \in {"", "reading"}
  BY DEF DropsSafe, Hubble!Next
<1>2. /\ g2 \in [Addresses -> Pods \cup {Hubble!NoPod}]
      /\ g10 = "drops" \/ (g11 \in Pods /\ g11.ns = Namespace)
      /\ g3 = <<>> \/ \E pk \in {g3[1]} : g3 = <<pk>> /\ Hubble!OnWire(pk)
      /\ \A f \in g6 : Hubble!Recorded(f)
      /\ \A c \in g5 : Hubble!Connected(c)
      /\ \A r \in g14 : \E f \in g6 : Hubble!Shows(r, f)
      /\ g13 = "reading" => g10 = "forward"
  BY <1>1 DEF Hubble!DropsInv
<1>3. ASSUME UNCHANGED <<g10, g11, g12, g13>>, Hubble!DropsInv' PROVE DropsSafe'
  BY <1>1, <1>3 DEF DropsSafe, Hubble!RefusalsReported, Hubble!LateRepliesPass,
              Hubble!ForwardedNotRefused, Hubble!ExpectedDropRefused
<1>4. ASSUME NEW a \in Addresses, NEW b \in Addresses, NEW port, Hubble!Dial(a, b, port)
      PROVE  DropsSafe'
  <2> DEFINE pk == Hubble!Packet(a, b, Hubble!Ephemeral, port, {"SYN"})
  <2>1. /\ g3 = <<>> /\ Hubble!Send(pk)
        /\ UNCHANGED <<g2, g4, g5, g10, g11, g12, g13>>
    BY <1>4 DEF Hubble!Dial, Hubble!guard
  <2>2. Hubble!OnWire(pk)
    BY <1>2, <2>1 DEF Hubble!OnWire, Hubble!Packet
  <2> HIDE DEF pk
  <2>3. /\ \A x \in g6' : Hubble!Recorded(x)'
        /\ \A r \in g14' : \E x \in g6' : Hubble!Shows(r, x)
        /\ g3' = <<>> \/ \E p \in {g3'[1]} : g3' = <<p>> /\ Hubble!OnWire(p)'
    BY <1>1, <2>1, <2>2, SendKept
  <2>4. \A c \in g5' : Hubble!Connected(c)'
    BY <1>2, <2>1 DEF Hubble!Connected
  <2>5. Hubble!DropsInv'
    BY <1>2, <2>1, <2>3, <2>4 DEF Hubble!DropsInv, Hubble!Shows
  <2> QED
    BY <1>3, <2>1, <2>5
<1>5. CASE Hubble!Deliver
  <2>1. PICK pk : g3 = <<pk>> /\ g3[1] = pk /\ Hubble!OnWire(pk)
    BY <1>2, <1>5 DEF Hubble!Deliver
  <2> DEFINE ok == Hubble!IngressAllowed(g1, Hubble!Identity(pk.src), Hubble!Identity(g2[pk.to]), pk.dport)
             conn == [client |-> pk.from, server |-> pk.to, port |-> pk.dport]
             reason == IF g2[pk.to] = Hubble!NoPod THEN "STALE_OR_UNROUTABLE_IP"
                       ELSE IF ok THEN "" ELSE "POLICY_DENIED"
             f == Hubble!Flow(reason, "INGRESS", pk, g2[pk.to])
             opens == reason = "" /\ "SYN" \in pk.flags /\ pk.dport \in g2[pk.to].listens
  <2>2. /\ g6' = g6 \cup {f}
        /\ g4' = (IF opens THEN g4 \cup {conn} ELSE g4)
        /\ g5' = (IF opens THEN g5 \cup {conn} ELSE g5)
        /\ g14' = (IF reason = "POLICY_DENIED" /\ "SYN" \in pk.flags
                     THEN g14 \cup {<<pk.src, g2[pk.to], pk.dport>>} ELSE g14)
        /\ g3' = <<>> /\ UNCHANGED <<g2, g10, g11, g12, g13>>
    BY <1>5, <2>1 DEF Hubble!Deliver, Hubble!guard
  <2>3. /\ reason \in {"", "POLICY_DENIED", "STALE_OR_UNROUTABLE_IP"}
        /\ reason = "" => g2[pk.to] # Hubble!NoPod
    OBVIOUS
  <2> HIDE DEF ok, reason
  <2>4. ASSUME NEW c \in g5' PROVE Hubble!Connected(c)'
    <3>1. CASE c \in g5
      BY <1>2, <2>2, <3>1 DEF Hubble!Connected
    <3>2. CASE c \notin g5
      <4>1. c = conn /\ reason = "" /\ pk.dport \in g2[pk.to].listens
        BY <2>2, <2>4, <3>2
      <4>2. g2[pk.to] # Hubble!NoPod
        BY <2>3, <4>1
      <4>3. pk.from \in Addresses /\ pk.to \in Addresses
        BY <2>1 DEF Hubble!OnWire
      <4>4. c.client = pk.from /\ c.server = pk.to /\ c.port = pk.dport
        BY <4>1
      <4> QED
        BY <2>2, <4>1, <4>2, <4>3, <4>4 DEF Hubble!Connected
    <3> QED
      BY <3>1, <3>2
  <2> HIDE DEF f, conn, opens
  <2>5. /\ \A x \in g6' : Hubble!Recorded(x)'
        /\ \A r \in g14' : \E x \in g6' : Hubble!Shows(r, x)
    BY <1>2, <2>1, <2>2, <2>3, FlowRecorded DEF f
  <2>6. Hubble!DropsInv'
    BY <1>2, <2>2, <2>4, <2>5 DEF Hubble!DropsInv, Hubble!Shows
  <2> QED
    BY <1>3, <2>2, <2>6
<1>6. ASSUME NEW a \in Addresses, Hubble!EndPod(a) PROVE DropsSafe'
  <2>1. /\ g2' = [g2 EXCEPT ![a] = Hubble!NoPod]
        /\ g5' = {c \in g5 : c.server # a}
        /\ UNCHANGED <<g3, g6, g14, g10, g11, g12, g13>>
    BY <1>6 DEF Hubble!EndPod, Hubble!guard
  <2>2. /\ g2' \in [Addresses -> Pods \cup {Hubble!NoPod}]
        /\ \A b \in Addresses \ {a} : g2'[b] = g2[b]
    BY <1>2, <2>1
  <2>3. \A f \in g6' : Hubble!Recorded(f)'
    BY <1>2, <2>1 DEF Hubble!Recorded, Hubble!Reply
  <2>4. ASSUME NEW c \in g5' PROVE Hubble!Connected(c)'
    <3>1. c \in g5 /\ c.server # a /\ Hubble!Connected(c)
      BY <1>2, <2>1, <2>4
    <3> QED
      BY <2>2, <3>1 DEF Hubble!Connected
  <2>5. ASSUME NEW pk, Hubble!OnWire(pk) PROVE Hubble!OnWire(pk)'
    BY <2>1, <2>2, <2>5 DEF Hubble!OnWire, Hubble!Reply
  <2>6. Hubble!DropsInv'
    BY <1>2, <2>1, <2>2, <2>3, <2>4, <2>5 DEF Hubble!DropsInv, Hubble!Shows
  <2> QED
    BY <1>3, <2>1, <2>6
<1>7. ASSUME NEW a \in Addresses, NEW pod \in Pods, Hubble!StartPod(a, pod) PROVE DropsSafe'
  <2>1. /\ g2' = [g2 EXCEPT ![a] = pod] /\ g2[a] = Hubble!NoPod
        /\ UNCHANGED <<g3, g4, g5, g6, g14, g10, g11, g12, g13>>
    BY <1>7 DEF Hubble!StartPod, Hubble!guard
  <2>2. g2' \in [Addresses -> Pods \cup {Hubble!NoPod}]
        /\ \A b \in Addresses : g2[b] # Hubble!NoPod => g2'[b] = g2[b]
    BY <1>2, <2>1
  <2>3. \A f \in g6' : Hubble!Recorded(f)'
    BY <1>2, <2>1, <2>2 DEF Hubble!Recorded, Hubble!Reply
  <2>4. \A c \in g5' : Hubble!Connected(c)'
    BY <1>2, <2>1, <2>2 DEF Hubble!Connected
  <2>5. ASSUME NEW pk, Hubble!OnWire(pk) PROVE Hubble!OnWire(pk)'
    BY <2>1, <2>2, <2>5 DEF Hubble!OnWire, Hubble!Reply
  <2>6. Hubble!DropsInv'
    BY <1>2, <2>1, <2>2, <2>3, <2>4, <2>5 DEF Hubble!DropsInv, Hubble!Shows
  <2> QED
    BY <1>3, <2>1, <2>6
<1>8. ASSUME NEW c \in g5, Hubble!Close(c) PROVE DropsSafe'
  <2> DEFINE pk == Hubble!Packet(c.server, c.client, c.port, Hubble!Ephemeral, {"ACK", "FIN"})
  <2>1. /\ g3 = <<>> /\ g5' = g5 \ {c} /\ g4' = g4 \ {c}
        /\ c \in g4 => UNCHANGED <<g6, g3, g14>>
        /\ c \notin g4 => Hubble!Send(pk)
        /\ UNCHANGED <<g2, g10, g11, g12, g13>>
    BY <1>8 DEF Hubble!Close, Hubble!guard
  <2>2. \A d \in g5' : Hubble!Connected(d)'
    BY <1>2, <2>1 DEF Hubble!Connected
  <2>3. c \notin g4 => Hubble!OnWire(pk)
    <3>1. Hubble!Connected(c)
      BY <1>2
    <3> QED
      BY <1>2, <3>1 DEF Hubble!Connected, Hubble!OnWire, Hubble!Reply, Hubble!Packet
  <2> HIDE DEF pk
  <2>4. /\ \A x \in g6' : Hubble!Recorded(x)'
        /\ \A r \in g14' : \E x \in g6' : Hubble!Shows(r, x)
        /\ g3' = <<>> \/ \E p \in {g3'[1]} : g3' = <<p>> /\ Hubble!OnWire(p)'
    <3>1. CASE c \in g4
      BY <1>2, <2>1, <3>1 DEF Hubble!Recorded, Hubble!Reply
    <3>2. CASE c \notin g4
      BY <1>1, <2>1, <2>3, <3>2, SendKept
    <3> QED
      BY <3>1, <3>2
  <2>5. Hubble!DropsInv'
    BY <1>2, <2>1, <2>2, <2>4 DEF Hubble!DropsInv, Hubble!Shows
  <2> QED
    BY <1>3, <2>1, <2>5
<1>9. CASE Hubble!Judge \/ Hubble!ExpectDrop \/ Hubble!ExpectForwardFirst \/ Hubble!ExpectForward
  BY <1>1, <1>9, DropsJudgement DEF Judges
<1> QED
  BY <1>4, <1>5, <1>6, <1>7, <1>8, <1>9 DEF Hubble!Next

-----------------------------------------------------------------------------
(* WebhookGate                                                             *)

(* The slots: g1 renders, g2 render, g3 verdict, g4 phase, g5 next, g6 up, *)
(* g7 pending, g8 last, g9 rounds, g10 answered, g11 refused, g12 applied. *)

\* What check-webhooks.py makes sure of in a set of renders that it passes.
LEMMA HookJudged ==
  ASSUME NEW rs \in HookSets, NEW r \in rs, ~Hooks!judge_all(rs)
  PROVE  /\ \A p \in r.probes : /\ Hooks!Connects(r, Hooks!dial(p.dial))
                                /\ Hooks!dial(p.dial) \in {Hooks!dial(h.dial) : h \in r.hooks}
         /\ \A h \in r.hooks : /\ Hooks!ServiceBacked(h)
                               /\ h.policy # "Fail" => h.webhook \in Hooks!ACCEPTED_IGNORE
                               /\ h.policy = "Fail" =>
                                    \E p \in r.probes : Hooks!dial(p.dial) = Hooks!dial(h.dial)
<1>1. ~Hooks!judge(r) /\ \A p \in r.probes : ~Hooks!reach(r, p)
  BY DEF Hooks!judge_all
<1>2. /\ \A h \in r.hooks : h.policy # "Fail" => h.webhook \in Hooks!ACCEPTED_IGNORE
      /\ ~Hooks!judge_probed(r)
  BY <1>1 DEF Hooks!judge
<1>3. /\ \A p \in r.probes : ~Hooks!wrong_probe(r, p)
      /\ \A h \in r.hooks : Hooks!ServiceBacked(h)
      /\ \A h \in r.hooks : h.policy = "Fail" =>
            [config |-> h.config, webhook |-> h.webhook, dial |-> Hooks!dial(h.dial)]
              \in Hooks!ProbeDials(r)
  BY <1>2 DEF Hooks!judge_probed
<1>4. ASSUME NEW h \in r.hooks, h.policy = "Fail"
      PROVE  \E p \in r.probes : Hooks!dial(p.dial) = Hooks!dial(h.dial)
  <2>1. PICK p \in r.probes :
            [config |-> h.config, webhook |-> h.webhook, dial |-> Hooks!dial(h.dial)]
              = [config |-> p.config, webhook |-> p.webhook, dial |-> Hooks!dial(p.dial)]
    BY <1>3, <1>4 DEF Hooks!ProbeDials
  <2> QED
    BY <2>1
<1>5. ASSUME NEW p \in r.probes
      PROVE  /\ Hooks!Connects(r, Hooks!dial(p.dial))
             /\ Hooks!dial(p.dial) \in {Hooks!dial(h.dial) : h \in r.hooks}
  <2>1. Hooks!dial(p.dial) \in {Hooks!dial(h.dial) : h \in r.hooks}
    BY <1>3 DEF Hooks!wrong_probe, Hooks!Candidates
  <2>2. /\ Hooks!dial(p.dial).svc = p.dial.svc
        /\ Hooks!dial(p.dial).ns # Hooks!release_ns => Hooks!dial(p.dial).ns = p.dial.ns
    BY HookAssumption DEF Hooks!dial, Hooks!Dial
  <2>3. ASSUME Hooks!dial(p.dial).ns # Hooks!release_ns
        PROVE  Hooks!Connects(r, Hooks!dial(p.dial))
    <3>1. /\ Hooks!EgressLabel \in r.labels /\ Hooks!target_port(r, p) # {}
          /\ \A port \in Hooks!target_port(r, p) : Hooks!admits(r, Hooks!dial(p.dial).ns, port)
      BY <1>1, <2>3 DEF Hooks!reach
    <3>2. PICK s \in r.services :
              /\ s.name = p.dial.svc /\ s.ns = p.dial.ns /\ s.port = Hooks!dial(p.dial).port
              /\ s.target \in Hooks!target_port(r, p)
      BY <3>1 DEF Hooks!target_port
    <3> QED
      BY <2>2, <2>3, <3>1, <3>2 DEF Hooks!Connects
  <2> QED
    BY <2>1, <2>3 DEF Hooks!Connects
<1> QED
  BY <1>2, <1>3, <1>4, <1>5

\* Nothing behind the gate was written or refused so far.
Before == /\ \A o \in g11 : ~o.gated
          /\ \A a \in g12 : \E x \in g2.objects : ~x.gated /\ a.name = x.name

\* Before the gate opens, the promises about gated objects hold.
LEMMA BeforeHolds ==
  ASSUME g1 \in HookSets, g2 \in g1, Before
  PROVE  Hooks!GatedAdmitted /\ Hooks!GatedSeen
<1>1. \A o, q \in g2.objects : o.name = q.name => o = q
  BY HookAssumption
<1> QED
  BY <1>1 DEF Before, Hooks!GatedAdmitted, Hooks!GatedSeen

HooksSafe == /\ Hooks!HookInv(HookSets)
             /\ Hooks!GatedAdmitted /\ Hooks!GatedSeen /\ Hooks!GateWaitsForPods

\* Before the guard judges, nothing is written.
LEMMA HooksStart == ASSUME Hooks!HookInit(HookSets) PROVE HooksSafe
<1>1. Hooks!HookInv(HookSets)
  BY DEF Hooks!HookInit, Hooks!HookInv
<1> QED
  BY <1>1, BeforeHolds DEF HooksSafe, Before, Hooks!HookInit, Hooks!GateWaitsForPods

\* Every step of the guard, the sync and the gate keeps HooksSafe.
LEMMA HooksStep == ASSUME HooksSafe, Hooks!HookNext PROVE HooksSafe'
<1>1. /\ g1 \in HookSets /\ g2 \in g1 /\ (g3 = "none" <=> g4 = "judge")
      /\ g4 = "judge" => g8 = {}
      /\ g3 = "pass" => ~Hooks!judge_all(g1)
      /\ g4 = "gate" => /\ g7 \subseteq g2.probes
                        /\ \A p \in g2.probes \ g7 : Hooks!dial(p.dial) \in g10
      /\ g4 \in {"judge", "main", "gate"} => Before
  BY DEF HooksSafe, Hooks!HookInv, Before
<1>2. Hooks!GateWaitsForPods
  BY DEF HooksSafe
<1>3. UNCHANGED <<g1, g2>> /\ g4 \in {"judge", "main", "gate"}
  BY DEF Hooks!HookNext, Hooks!GuardRuns, Hooks!PodServes, Hooks!PodGone, Hooks!ApplyKind, Hooks!StartGate,
         Hooks!Round, Hooks!DeadlinePasses, Hooks!ApplyGated
<1>4. ASSUME Before', Hooks!HookInv(HookSets)', Hooks!GateWaitsForPods' PROVE HooksSafe'
  <2>1. g1' \in HookSets /\ g2' \in g1'
    BY <1>1, <1>3
  <2>2. \A o, q \in g2'.objects : o.name = q.name => o = q
    BY <2>1, HookAssumption
  <2>3. Hooks!GatedAdmitted' /\ Hooks!GatedSeen'
    BY <1>4, <2>1, <2>2 DEF Before, Hooks!GatedAdmitted, Hooks!GatedSeen
  <2> QED
    BY <1>4, <2>3 DEF HooksSafe
<1>5. CASE Hooks!GuardRuns
  <2>1. /\ g3' = (IF Hooks!judge_all(g1) THEN "fail" ELSE "pass") /\ g4' = "main"
        /\ UNCHANGED <<g5, g6, g7, g8, g9, g10, g11, g12>> /\ g3 = "none"
    BY <1>1, <1>5 DEF Hooks!GuardRuns
  <2>2. Before'
    BY <1>1, <1>3, <2>1 DEF Before
  <2>3. Hooks!HookInv(HookSets)'
    BY <1>1, <1>3, <2>1, <2>2 DEF Before, Hooks!HookInv
  <2>4. Hooks!GateWaitsForPods'
    BY <1>1, <2>1 DEF Hooks!GateWaitsForPods
  <2> QED
    BY <1>4, <2>2, <2>3, <2>4
<1>6. CASE Hooks!PodServes \/ Hooks!PodGone
  <2>1. UNCHANGED <<g3, g4, g7, g8, g10, g11, g12>>
    BY <1>6 DEF Hooks!PodServes, Hooks!PodGone
  <2> QED
    BY <1>1, <1>2, <1>3, <1>4, <2>1 DEF Before, Hooks!HookInv, Hooks!GateWaitsForPods
<1>7. ASSUME NEW objs, NEW then, Hooks!Write(objs, then),
             \A o \in objs : ~o.gated /\ \E x \in g2.objects : ~x.gated /\ o.name = x.name,
             g4 \in {"judge", "main", "gate"}
      PROVE  Before'
  <2>1. Before
    BY <1>1, <1>7
  <2>2. \A o \in g11' : o \in g11 \/ o \in objs
    BY <1>7 DEF Hooks!Write
  <2>3. \A a \in g12' : a \in g12 \/ \E o \in objs : a.name = o.name
    BY <1>7 DEF Hooks!Write
  <2> QED
    BY <1>3, <1>7, <2>1, <2>2, <2>3 DEF Before
<1>8. CASE Hooks!ApplyKind
  <2> DEFINE live(o) == {h.webhook : h \in {k \in g2.hooks : k.at <= o.at}}
             here == {[o EXCEPT !.by = @ \cap live(o)] :
                        o \in {x \in g2.objects : ~x.gated /\ x.at = g5}}
  <2>1. /\ g4 = "main" /\ Hooks!Write(here, "main")
        /\ UNCHANGED <<g3, g6, g7, g8, g9, g10>>
    BY <1>8, Zenon DEF Hooks!ApplyKind
  <2>2. ASSUME NEW o \in here
        PROVE  ~o.gated /\ \E x \in g2.objects : ~x.gated /\ o.name = x.name
    <3>1. PICK x \in g2.objects : ~x.gated /\ o = [x EXCEPT !.by = x.by \cap live(x)]
      BY <2>2, Zenon
    <3>2. x = [name |-> x.name, by |-> x.by, gated |-> x.gated, at |-> x.at]
      BY <1>1, HookAssumption DEF Hooks!Object
    <3> HIDE DEF live
    <3>3. o.gated = x.gated /\ o.name = x.name
      BY <3>1, <3>2
    <3> QED
      BY <3>1, <3>3
  <2> HIDE DEF here
  <2>3. Before'
    BY <1>7, <2>1, <2>2
  <2>4. g4' \in {"main", "stopped"}
    BY <2>1 DEF Hooks!Write
  <2>5. Hooks!HookInv(HookSets)'
    BY <1>1, <1>3, <2>1, <2>3, <2>4 DEF Before, Hooks!HookInv
  <2> QED
    BY <1>2, <1>4, <2>1, <2>3, <2>5 DEF Hooks!GateWaitsForPods
<1>9. CASE Hooks!StartGate
  <2>1. /\ g4 = "main" /\ g4' = "gate" /\ g7' = g2.probes
        /\ UNCHANGED <<g3, g6, g8, g9, g10, g11, g12>>
    BY <1>9 DEF Hooks!StartGate
  <2> QED
    BY <1>1, <1>2, <1>3, <1>4, <2>1 DEF Before, Hooks!HookInv, Hooks!GateWaitsForPods
<1>10. CASE Hooks!Round
  <2> DEFINE ok == {p \in g7 : Hooks!probe(g2, p) = "ok"}
  <2>1. /\ g4 = "gate" /\ g7' = g7 \ ok /\ g10' = g10 \cup {Hooks!dial(p.dial) : p \in ok}
        /\ g8' = {<<p, Hooks!probe(g2, p)>> : p \in g7}
        /\ UNCHANGED <<g3, g4, g6, g11, g12>>
    BY <1>10 DEF Hooks!Round
  <2>3. Before'
    BY <1>1, <1>3, <2>1 DEF Before
  <2>4. Hooks!HookInv(HookSets)'
    BY <1>1, <1>3, <2>1, <2>3 DEF Before, Hooks!HookInv
  <2>5. ASSUME g3' = "pass" PROVE \A l \in g8' : l[2] \in {"ok", "down"}
    <3>1. ~Hooks!judge_all(g1)
      BY <1>1, <2>1, <2>5
    <3>2. \A p \in g2.probes : /\ Hooks!Connects(g2, Hooks!dial(p.dial))
                               /\ Hooks!dial(p.dial) \in {Hooks!dial(h.dial) : h \in g2.hooks}
      BY <1>1, <3>1, HookJudged
    <3>3. \A p \in g7 : Hooks!probe(g2, p) \in {"ok", "down"}
      BY <1>1, <2>1, <3>2 DEF Hooks!probe
    <3> QED
      BY <2>1, <3>3
  <2> QED
    BY <1>4, <2>3, <2>4, <2>5 DEF Hooks!GateWaitsForPods
<1>11. CASE Hooks!DeadlinePasses
  <2>1. g4 = "gate" /\ g4' = "stopped" /\ UNCHANGED <<g3, g6, g7, g8, g9, g10, g11, g12>>
    BY <1>11 DEF Hooks!DeadlinePasses
  <2> QED
    BY <1>1, <1>2, <1>3, <1>4, <2>1 DEF Before, Hooks!HookInv, Hooks!GateWaitsForPods
<1>12. CASE Hooks!ApplyGated
  <2> DEFINE objs == {o \in g2.objects : o.gated}
  <2>1. /\ g4 = "gate" /\ g7 = {} /\ Hooks!Write(objs, "done")
        /\ UNCHANGED <<g3, g6, g7, g8, g9, g10>>
    BY <1>12 DEF Hooks!ApplyGated
  <2>2. g4' \in {"done", "stopped"}
    BY <2>1 DEF Hooks!Write
  <2>3. Hooks!HookInv(HookSets)'
    BY <1>1, <1>3, <2>1, <2>2 DEF Hooks!HookInv
  <2>4. ASSUME g3 = "pass" PROVE Hooks!GatedAdmitted' /\ Hooks!GatedSeen'
    <3>1. ~Hooks!judge_all(g1)
      BY <1>1, <2>4
    <3>2. \A h \in g2.hooks : /\ h.policy # "Fail" => h.webhook \in Hooks!ACCEPTED_IGNORE
                              /\ h.policy = "Fail" =>
                                   \E p \in g2.probes : Hooks!dial(p.dial) = Hooks!dial(h.dial)
      BY <1>1, <3>1, HookJudged
    <3>3. \A h \in g2.hooks : h.policy = "Fail" => Hooks!dial(h.dial) \in g10
      BY <1>1, <2>1, <3>2
    <3>4. \A o \in objs : Hooks!Refuses(o) =>
              \E h \in Hooks!Asked(o) : h.policy = "Fail" /\ Hooks!dial(h.dial) \in g10 \ g6
      BY <3>3 DEF Hooks!Dead, Hooks!Refuses, Hooks!Asked
    <3>6. /\ g11' = g11 \cup {o \in objs : Hooks!Refuses(o)}
          /\ g12' = g12 \cup {[name |-> o.name, seen |-> Hooks!Seen(o)] : o \in {x \in objs : ~Hooks!Refuses(x)}}
      BY <2>1 DEF Hooks!Write
    <3>7. \A o, q \in g2.objects : o.name = q.name => o = q
      BY <1>1, HookAssumption
    <3>8. Before
      BY <1>1, <2>1
    <3>9. ASSUME NEW a \in g12', NEW o \in g2.objects, o.gated, a.name = o.name,
                 NEW h \in g2.hooks, h.webhook \in o.by
          PROVE  h.webhook \in Hooks!ACCEPTED_IGNORE \/ h.webhook \in a.seen
      <4>1. a \notin g12
        BY <3>7, <3>8, <3>9 DEF Before
      <4>2. PICK q \in objs : ~Hooks!Refuses(q) /\ a = [name |-> q.name, seen |-> Hooks!Seen(q)]
        BY <3>6, <4>1
      <4>3. q = o /\ a.seen = Hooks!Seen(o)
        BY <3>7, <3>9, <4>2
      <4>4. h.policy = "Fail" => h.webhook \in Hooks!Seen(o)
        BY <3>9, <4>2, <4>3 DEF Hooks!Seen, Hooks!Asked, Hooks!Refuses
      <4> QED
        BY <3>2, <4>3, <4>4
    <3>10. Hooks!GatedSeen'
      BY <1>3, <3>9 DEF Hooks!GatedSeen, Hooks!Asked
    <3>11. Hooks!GatedAdmitted'
      <4>1. \A o \in g11' : o.gated =>
                \E h \in Hooks!Asked(o) : h.policy = "Fail" /\ Hooks!dial(h.dial) \in g10 \ g6
        BY <3>4, <3>6, <3>8 DEF Before
      <4>2. \A o \in g11' : o.gated =>
                \E h \in Hooks!Asked(o)' : h.policy = "Fail" /\ Hooks!dial(h.dial) \in g10' \ g6'
        BY <1>3, <2>1, <4>1 DEF Hooks!Asked
      <4> QED
        BY <1>3, <2>1, <3>3, <4>2 DEF Hooks!GatedAdmitted, Hooks!Asked
    <3> QED
      BY <3>10, <3>11
  <2>5. Hooks!GatedAdmitted' /\ Hooks!GatedSeen'
    BY <2>1, <2>4 DEF Hooks!GatedAdmitted, Hooks!GatedSeen
  <2> QED
    BY <1>2, <2>1, <2>3, <2>5 DEF HooksSafe, Hooks!GateWaitsForPods
<1> QED
  BY <1>5, <1>6, <1>8, <1>9, <1>10, <1>11, <1>12 DEF Hooks!HookNext

-----------------------------------------------------------------------------
(* RateLimits                                                              *)

(* The slots: g1 limits, g2 passed, g3 route, g4 senders, g5 second,       *)
(* g6 tokens, g7 counts, g8 quotaHit, g9 admitted, g10 refusedNow,         *)
(* g11 keyed.                                                              *)

\* The fuse that a route has, and what RateAssumption says of it.
LEMMA FuseKnown ==
  ASSUME Rates!RateInv(LimitedEdges)
  PROVE  /\ Rates!limiter.there \in BOOLEAN
         /\ Rates!fuse.max \in Nat /\ Rates!fuse.fill \in Nat /\ Rates!fuse.interval \in Nat
         /\ Rates!per_fill \in Nat
         /\ Rates!limiter.there = TRUE =>
               Rates!fuse.max > 0 /\ Rates!fuse.interval > 0 /\ Rates!per_fill > 0
         /\ \E h \in g1.hcms : /\ g3[1] = h /\ g3[2] \in h.routes
                               /\ Rates!limiter \in {h.rl} \cup {r.own : r \in h.routes}
<1>1. PICK h \in g1.hcms : \E r \in h.routes : g3 = <<h, r>>
  BY DEF Rates!RateInv
<1>r. PICK r \in h.routes : g3 = <<h, r>>
  BY <1>1
<1>2. Rates!limiter \in {h.rl} \cup {x.own : x \in h.routes} /\ g3[1] = h /\ g3[2] = r
  BY <1>r DEF Rates!limiter
<1>3. /\ Rates!limiter.there \in BOOLEAN
      /\ Rates!limiter.bucket.max \in Nat /\ Rates!limiter.bucket.fill \in Nat
      /\ Rates!limiter.bucket.interval \in Nat
      /\ Rates!limiter.there = TRUE => Rates!limiter.bucket.max > 0 /\ Rates!limiter.bucket.interval > 0
  BY <1>2, RateAssumption DEF Rates!RateInv
<1> QED
  BY <1>2, <1>3 DEF Rates!fuse, Rates!per_fill

\* A limiter of an edge that the guard passes is enabled and enforced.
LEMMA PassedEnforces ==
  ASSUME Rates!RateInv(LimitedEdges), g2, Rates!limiter.there
  PROVE  Rates!Enforces
<1>1. PICK h \in g1.hcms : Rates!limiter \in {h.rl} \cup {r.own : r \in h.routes}
  BY FuseKnown
<1>2. Rates!limiter \in UNION {Rates!local_rls(x) : x \in g1.hcms}
  BY <1>1 DEF Rates!local_rls
<1>3. Rates!enforcement_findings(g1.hcms) = {}
  BY DEF Rates!RateInv, Rates!judge
<1>4. \A l \in UNION {Rates!local_rls(x) : x \in g1.hcms} :
         l.enabled = Rates!FULL /\ l.enforced = Rates!FULL
  BY <1>3 DEF Rates!enforcement_findings
<1> QED
  BY <1>2, <1>4 DEF Rates!Enforces

\* Where an edge that the guard passes has a limiter with descriptors, or trusts
\* the peer, it trusts the peer; a key of the fuse is of such an edge.
LEMMA PassedTrusts ==
  ASSUME Rates!RateInv(LimitedEdges), g2
  PROVE  /\ Rates!PeerJudged => g3[1].trusts
         /\ Rates!limiter.there /\ Rates!limiter.descriptors => Rates!PeerJudged
<1>1. PICK h \in g1.hcms : /\ g3[1] = h
                           /\ Rates!limiter \in {h.rl} \cup {r.own : r \in h.routes}
  BY FuseKnown
<1>2. Rates!limiter.there => Rates!limiter \in Rates!local_rls(h)
  BY <1>1 DEF Rates!local_rls
<1>3. Rates!peer_findings(g1.hcms) = {}
  BY DEF Rates!RateInv, Rates!judge
<1>4. \A l \in Rates!local_rls(h) : l.descriptors => h.trusts
  BY <1>1, <1>3 DEF Rates!peer_findings
<1> QED
  BY <1>1, <1>2, <1>4 DEF Rates!PeerJudged

\* The fills after one more second.
LEMMA DivideNext ==
  ASSUME NEW x \in Nat, NEW i \in Nat \ {0}
  PROVE  /\ x \div i \in Nat
         /\ (x + 1) \div i = IF (x + 1) % i = 0 THEN x \div i + 1 ELSE x \div i
BY SMT

\* The intervals that a window has begun cover it.
LEMMA DivideUp ==
  ASSUME NEW w \in Nat \ {0}, NEW i \in Nat \ {0}
  PROVE  (w - 1) \div i \in Nat /\ ((w - 1) \div i + 1) * i >= w
BY SMT

\* Products of natural numbers.
LEMMA TimesOneMore ==
  ASSUME NEW n \in Nat, NEW a \in Nat
  PROVE  n * a \in Nat /\ (n + 1) * a = n * a + a
BY SMT

LEMMA TimesKeepsOrder ==
  ASSUME NEW a \in Nat, NEW b \in Nat, NEW c \in Nat
  PROVE  /\ a <= b => a * c <= b * c
         /\ a < b /\ c > 0 => a * c < b * c
BY SMT

\* Of three rates, the first at least the second and below the third.
LEMMA CrossMultiply ==
  ASSUME NEW p \in Nat, NEW s \in Nat \ {0}, NEW u \in Nat, NEW w \in Nat \ {0},
         NEW a \in Nat, NEW i \in Nat \ {0}, p * w >= u * s, p * i < a * s
  PROVE  u * i < a * w
<1>1. SUFFICES ASSUME u * i >= a * w PROVE FALSE
  BY SMT
<1>2. p * w \in Nat /\ u * s \in Nat /\ p * i \in Nat /\ a * s \in Nat /\ u * i \in Nat /\ a * w \in Nat
  BY SMT
<1>3. (u * i) * s >= (a * w) * s
  BY <1>1, <1>2, TimesKeepsOrder
<1>4. (p * w) * i >= (u * s) * i
  BY <1>2, TimesKeepsOrder
<1>5. (p * i) * w < (a * s) * w
  BY <1>2, TimesKeepsOrder
<1>6. /\ (u * i) * s = (u * s) * i
      /\ (p * w) * i = (p * i) * w
      /\ (a * w) * s = (a * s) * w
  BY SMT
<1> QED
  BY <1>2, <1>3, <1>4, <1>5, <1>6

\* A quota of an edge that the guard passes is below the fuse of its route.
LEMMA QuotaBelowFuse ==
  ASSUME Rates!RateInv(LimitedEdges), g2, Rates!limiter.there, NEW q \in Rates!Quotas
  PROVE  q.units * Rates!fuse.interval < Rates!per_fill * Rates!UNIT_SECONDS[q.unit]
<1> DEFINE i == Rates!fuse.interval
           a == Rates!per_fill
           w == Rates!UNIT_SECONDS[q.unit]
           rates == {<<x.units, Rates!UNIT_SECONDS[x.unit]>> : x \in {x \in g1.quotas : x.value = q.value}}
<1>1. PICK h \in g1.hcms : \E r \in h.routes : g3 = <<h, r>>
  BY DEF Rates!RateInv
<1>r. PICK r \in h.routes : g3 = <<h, r>>
  BY <1>1
<1>2. /\ i \in Nat \ {0} /\ a \in Nat \ {0} /\ w \in Nat \ {0} /\ q.units \in Nat
      /\ \A x \in rates : x = <<x[1], x[2]>> /\ x[1] \in Nat /\ x[2] \in Nat \ {0}
      /\ q \in g1.quotas /\ q.value = r.value
  <2>1. \A u \in DOMAIN Rates!UNIT_SECONDS : Rates!UNIT_SECONDS[u] \in Nat \ {0}
    BY DEF Rates!UNIT_SECONDS
  <2>2. q \in g1.quotas /\ q.value = r.value /\ g1 \in LimitedEdges
    BY <1>r DEF Rates!Quotas, Rates!RateInv
  <2>3. \A x \in g1.quotas : x.units \in Nat /\ x.unit \in DOMAIN Rates!UNIT_SECONDS
    BY <2>2, RateAssumption
  <2> QED
    BY <2>1, <2>2, <2>3, FuseKnown
<1>3. PICK p \in Rates!quota_rates(g1.quotas, q.value) : TRUE
  BY <1>2, RateAssumption DEF Rates!RateInv
<1>4. p \in rates /\ Rates!AtLeast(p, <<q.units, w>>)
  <2>1. <<q.units, w>> \in rates
    BY <1>2
  <2> QED
    BY <1>3, <2>1 DEF Rates!quota_rates
<1>5. Rates!fuse_of(h, r) = Rates!fuse
  <2>1. Rates!limiter = IF r.own.there THEN r.own ELSE h.rl
    BY <1>r DEF Rates!limiter
  <2>2. r.own.there => r.own.bucket # Rates!NoBucket
    BY <1>2, <2>1 DEF Rates!NoBucket, Rates!fuse
  <2> QED
    BY <2>1, <2>2 DEF Rates!fuse_of, Rates!fuse
<1>6. Rates!rate_per_second(Rates!fuse) = <<a, i>>
  BY <1>2 DEF Rates!rate_per_second, Rates!per_fill
<1>7. ~Rates!AtLeast(p, <<a, i>>)
  <2>1. Rates!quota_findings(g1.hcms, g1.quotas) = {}
    BY DEF Rates!RateInv, Rates!judge
  <2> DEFINE high(k) == {y \in k.routes :
                            LET f == Rates!rate_per_second(Rates!fuse_of(k, y))
                            IN  f[1] > 0 /\ \E x \in Rates!quota_rates(g1.quotas, y.value) : Rates!AtLeast(x, f)}
  <2>2. {"quota above the fuse" : x \in UNION {high(k) : k \in g1.hcms}} = {}
    BY <2>1 DEF Rates!quota_findings
  <2>3. SUFFICES ASSUME Rates!AtLeast(p, <<a, i>>) PROVE r \in high(h)
    <3> HIDE DEF high
    <3> QED
      BY <2>2
  <2>4. Rates!rate_per_second(Rates!fuse_of(h, r)) = <<a, i>>
    BY <1>5, <1>6
  <2>5. a > 0 /\ p \in Rates!quota_rates(g1.quotas, r.value)
    BY <1>2, <1>3
  <2> HIDE DEF a, i
  <2> QED
    BY <2>3, <2>4, <2>5
<1>8. p[1] \in Nat /\ p[2] \in Nat \ {0} /\ p[1] * w >= q.units * p[2] /\ p[1] * i < a * p[2]
  BY <1>2, <1>4, <1>7 DEF Rates!AtLeast
<1> HIDE DEF i, a, w
<1>9. q.units * i < a * w
  BY <1>2, <1>8, CrossMultiply
<1> QED
  BY <1>9 DEF i, a, w

\* The least of two numbers.
LEMMA LeastOfTwo ==
  ASSUME NEW a \in Nat, NEW b \in Nat
  PROVE  Rates!Min({a, b}) = IF a <= b THEN a ELSE b
BY DEF Rates!Min

\* The window of a quota is the unit of one of them, and is not empty.
LEMMA WindowOfQuota ==
  ASSUME Rates!RateInv(LimitedEdges), Rates!Quotas # {}
  PROVE  /\ Rates!Window \in Nat \ {0}
         /\ \E q \in Rates!Quotas : Rates!UNIT_SECONDS[q.unit] = Rates!Window
<1> DEFINE S == {Rates!UNIT_SECONDS[q.unit] : q \in Rates!Quotas}
<1>1. \A q \in Rates!Quotas : q.unit \in DOMAIN Rates!UNIT_SECONDS
  BY RateAssumption DEF Rates!RateInv, Rates!Quotas
<1>2. S \subseteq {1, 60, 3600, 86400}
  BY <1>1 DEF Rates!UNIT_SECONDS
<1>3. S # {}
  OBVIOUS
<1> HIDE DEF S
<1>4. \E x \in S : \A y \in S : x >= y
  <2>1. \A y \in S : y = 1 \/ y = 60 \/ y = 3600 \/ y = 86400
    BY <1>2
  <2>2. CASE 86400 \in S
    BY <2>1, <2>2
  <2>3. CASE 86400 \notin S /\ 3600 \in S
    BY <2>1, <2>3
  <2>4. CASE 86400 \notin S /\ 3600 \notin S /\ 60 \in S
    BY <2>1, <2>4
  <2>5. CASE 86400 \notin S /\ 3600 \notin S /\ 60 \notin S
    <3>1. PICK x \in S : TRUE
      BY <1>3
    <3>2. x = 1 /\ \A y \in S : y = 1
      BY <2>1, <2>5
    <3> QED
      BY <3>2
  <2> QED
    BY <2>2, <2>3, <2>4, <2>5
<1>5. Rates!Max(S) \in S
  BY <1>4, Zenon DEF Rates!Max
<1>6. Rates!Window = Rates!Max(S)
  BY DEF Rates!Window, S
<1>7. Rates!Window \in S
  BY <1>5, <1>6
<1> QED
  BY <1>2, <1>7 DEF S

\* Before the first request nothing is counted and the bucket is full.
LEMMA RateStarts ==
  ASSUME Rates!RateInit(LimitedEdges)
  PROVE  Rates!RateInv(LimitedEdges)
<1>1. PICK h \in g1.hcms : \E r \in h.routes : g3 = <<h, r>>
  BY DEF Rates!RateInit
<1>2. PICK r \in h.routes : g3 = <<h, r>>
  BY <1>1
<1>3. /\ g1 \in LimitedEdges /\ g4 \in Senders /\ g2 = (Rates!judge(g1) = {})
      /\ g5 = 0 /\ g6 = Rates!fuse.max /\ g7 = [c \in UNION Senders |-> 0] /\ g8 = FALSE
      /\ g9 = 0 /\ g10 = FALSE /\ g11 = {}
  BY DEF Rates!RateInit, Rates!fuse
<1>4. /\ Rates!fuse.max \in Nat /\ Rates!fuse.fill \in Nat /\ Rates!fuse.interval \in Nat
      /\ Rates!limiter.there => Rates!fuse.interval > 0
  <2>1. Rates!limiter \in {h.rl} \cup {x.own : x \in h.routes}
    BY <1>2 DEF Rates!limiter
  <2> QED
    BY <1>3, <2>1, RateAssumption DEF Rates!fuse
<1>5. Rates!per_fill \in Nat /\ (Rates!fuse.max >= Rates!fuse.fill => Rates!fuse.max >= Rates!per_fill)
  BY <1>4 DEF Rates!per_fill
<1>6. Rates!Fills = 0
  BY <1>3, <1>4 DEF Rates!Fills
<1>7. \A q \in Rates!Quotas : q.units \in Nat
  BY <1>3, RateAssumption DEF Rates!Quotas
<1>8. ASSUME Rates!fuse.max >= Rates!fuse.fill, NEW c \in g4 PROVE Rates!Spends(c)
  BY <1>3, <1>4, <1>5, <1>6, <1>8 DEF Rates!Spends
<1>9. g9 + g6 <= Rates!fuse.max + Rates!Fills * Rates!per_fill
  BY <1>3, <1>4, <1>5, <1>6
<1>10. \A k \in UNION Senders, q \in Rates!Quotas : g7[k] <= q.units
  BY <1>3, <1>7
<1>11. g5 \in Nat /\ g6 \in Nat /\ g9 \in Nat /\ g7 \in [UNION Senders -> Nat]
  BY <1>3, <1>4
<1> QED
  BY <1>1, <1>3, <1>8, <1>9, <1>10, <1>11 DEF Rates!RateInv

\* A request spends a token and counts, or is refused.
LEMMA RateSent ==
  ASSUME Rates!RateInv(LimitedEdges), NEW c \in g4, NEW claimed \in UNION Senders, Rates!Send(c, claimed)
  PROVE  Rates!RateInv(LimitedEdges)'
<1> DEFINE k == Rates!Key(c, claimed)
           blown == Rates!Enforces /\ g6 = 0
           over == \E q \in Rates!Quotas : g7[k] >= q.units
<1>1. /\ g2 /\ UNCHANGED <<g1, g2, g3, g4, g5>>
      /\ g10' = (blown \/ over) /\ g10 # TRUE
      /\ g6' = IF blown \/ g6 = 0 THEN g6 ELSE g6 - 1
      /\ g7' = IF blown \/ over THEN g7 ELSE [g7 EXCEPT ![k] = @ + 1]
      /\ g8' = (g8 \/ (~blown /\ over))
      /\ g9' = IF blown THEN g9 ELSE g9 + 1
      /\ g11' = g11 \cup (IF Rates!limiter.there /\ Rates!limiter.descriptors THEN {<<"fuse", c, k>>} ELSE {})
                     \cup (IF g3[2].masked /\ ~blown THEN {<<"quota", c, k>>} ELSE {})
  BY DEF Rates!Send
<1>2. k \in UNION Senders /\ (g3[1].trusts => k = c)
  BY DEF Rates!RateInv, Rates!Key
<1>3. /\ g5 \in Nat /\ g6 \in Nat /\ g9 \in Nat /\ g7 \in [UNION Senders -> Nat]
      /\ g8 \in BOOLEAN /\ g10 \in BOOLEAN
  BY DEF Rates!RateInv
<1>4. /\ Rates!limiter' = Rates!limiter /\ Rates!fuse' = Rates!fuse /\ Rates!per_fill' = Rates!per_fill
      /\ Rates!Quotas' = Rates!Quotas /\ Rates!Enforces' = Rates!Enforces /\ Rates!Fills' = Rates!Fills
  BY <1>1 DEF Rates!limiter, Rates!fuse, Rates!per_fill, Rates!Quotas, Rates!Enforces, Rates!Fills
<1>5. Rates!limiter.there => Rates!Enforces
  BY <1>1, PassedEnforces
<1>6. \A q \in Rates!Quotas : q.units \in Nat
  BY RateAssumption DEF Rates!Quotas, Rates!RateInv
<1> HIDE DEF k
<1>7. /\ g6' \in Nat /\ g9' \in Nat /\ g7' \in [UNION Senders -> Nat]
      /\ g8' \in BOOLEAN /\ g10' \in BOOLEAN
  BY <1>1, <1>2, <1>3
<1>8. \A x \in UNION Senders, q \in Rates!Quotas : g7'[x] <= q.units
  <2>1. \A x \in UNION Senders, q \in Rates!Quotas : g7[x] <= q.units
    BY DEF Rates!RateInv
  <2>2. CASE blown \/ over
    BY <1>1, <2>1, <2>2
  <2>3. CASE ~(blown \/ over)
    <3>1. g7' = [g7 EXCEPT ![k] = @ + 1]
      BY <1>1, <2>3
    <3>2. \A q \in Rates!Quotas : g7[k] < q.units
      BY <1>2, <1>3, <1>6, <2>3
    <3> QED
      BY <1>2, <1>3, <1>6, <2>1, <3>1, <3>2
  <2> QED
    BY <2>2, <2>3
<1>9. Rates!limiter.there => g9' + g6' <= Rates!fuse.max + Rates!Fills * Rates!per_fill
  <2> SUFFICES ASSUME Rates!limiter.there
               PROVE  g9' + g6' <= Rates!fuse.max + Rates!Fills * Rates!per_fill
    OBVIOUS
  <2>1. g9 + g6 <= Rates!fuse.max + Rates!Fills * Rates!per_fill
    BY <1>1 DEF Rates!RateInv
  <2>2. g9' + g6' = g9 + g6
    BY <1>1, <1>3, <1>5
  <2> QED
    BY <2>1, <2>2
<1>10. \A x \in g11' : /\ x[1] = "fuse" => Rates!limiter.there /\ Rates!limiter.descriptors
                      /\ g3[1].trusts => x[2] = x[3]
  <2>1. \A x \in g11 : /\ x[1] = "fuse" => Rates!limiter.there /\ Rates!limiter.descriptors
                      /\ g3[1].trusts => x[2] = x[3]
    BY DEF Rates!RateInv
  <2>2. \A x \in g11' : x \in g11 \/ (x = <<"fuse", c, k>> /\ Rates!limiter.there /\ Rates!limiter.descriptors)
                       \/ x = <<"quota", c, k>>
    BY <1>1
  <2> QED
    BY <1>2, <2>1, <2>2
<1>11. g10' = TRUE /\ g8' = FALSE => Rates!Enforces /\ g6' = 0
  BY <1>1, <1>3
<1>12. g8' = FALSE => g8 = FALSE /\ (blown \/ ~over)
  BY <1>1, <1>3
<1>13. ASSUME Rates!limiter.there, g8' = FALSE, Rates!fuse.max >= Rates!fuse.fill, g3[1].trusts,
              NEW x \in g4, g4 = {x}
       PROVE  Rates!Spends(x)'
  <2>1. Rates!Spends(x)
    BY <1>1, <1>12, <1>13 DEF Rates!RateInv
  <2>2. k = x
    BY <1>2, <1>13
  <2>3. g7'[x] + g6' = g7[x] + g6 /\ g7'[x] >= g7[x]
    <3>1. CASE blown
      BY <1>1, <1>2, <1>3, <2>2, <3>1
    <3>2. CASE ~blown
      <4>1. g6 # 0 /\ ~over
        BY <1>5, <1>12, <1>13, <3>2
      <4>2. g6' = g6 - 1 /\ g7' = [g7 EXCEPT ![k] = @ + 1]
        BY <1>1, <3>2, <4>1
      <4> QED
        BY <1>2, <1>3, <2>2, <4>1, <4>2
    <3> QED
      BY <3>1, <3>2
  <2>4. /\ Rates!Fills \in Nat /\ Rates!per_fill \in Nat
        /\ g5 > 0 => (g5 - 1) \div Rates!fuse.interval \in Nat
    <3>1. Rates!fuse.interval \in Nat \ {0} /\ Rates!per_fill \in Nat
      BY <1>13, FuseKnown
    <3> QED
      BY <1>3, <3>1, DivideNext DEF Rates!Fills
  <2>5. (Rates!Fills + 1) * Rates!per_fill \in Nat
    BY <2>4, TimesOneMore
  <2>6. g5 > 0 => ((g5 - 1) \div Rates!fuse.interval + 1) * Rates!per_fill \in Nat
    BY <2>4, TimesOneMore
  <2>7. g7[x] \in Nat /\ g7'[x] \in Nat
    BY <1>2, <1>3, <1>7, <2>2
  <2> QED
    BY <1>1, <1>3, <1>4, <1>7, <2>1, <2>3, <2>5, <2>6, <2>7 DEF Rates!Spends
<1>14. g8' = FALSE /\ ~Rates!limiter.there => g5' = 0
  BY <1>1, <1>12 DEF Rates!RateInv
<1>15. /\ g1' \in LimitedEdges /\ g4' \in Senders /\ (g2' => Rates!judge(g1') = {})
       /\ \E h \in g1'.hcms : \E r \in h.routes : g3' = <<h, r>>
       /\ g5' \in Nat
  BY <1>1 DEF Rates!RateInv
<1> HIDE DEF blown, over
<1>16. (g2 /\ Rates!limiter.there /\ g8 = FALSE /\ Rates!fuse.max >= Rates!fuse.fill /\ g3[1].trusts =>
          \A x \in g4 : g4 = {x} => Rates!Spends(x))'
  BY <1>1, <1>4, <1>13
<1>17. (\A x \in g11 : /\ x[1] = "fuse" => Rates!limiter.there /\ Rates!limiter.descriptors
                      /\ g3[1].trusts => x[2] = x[3])'
  BY <1>1, <1>4, <1>10
<1> QED
  BY <1>1, <1>4, <1>7, <1>8, <1>9, <1>11, <1>14, <1>15, <1>16, <1>17 DEF Rates!RateInv

\* A second passes, and the bucket is filled when its interval is over.
LEMMA RateTicks ==
  ASSUME Rates!RateInv(LimitedEdges), Rates!Second
  PROVE  Rates!RateInv(LimitedEdges)'
<1> DEFINE i == Rates!fuse.interval
           add == Rates!per_fill
           max == Rates!fuse.max
           full == i > 0 /\ (g5 + 1) % i = 0
<1>1. /\ g10 /\ g5' = g5 + 1 /\ g10' = FALSE
      /\ g6' = IF i > 0 /\ g5' % i = 0 THEN Rates!Min({max, g6 + add}) ELSE g6
      /\ UNCHANGED <<g1, g2, g3, g4, g7, g8, g9, g11>>
  BY DEF Rates!Second
<1>2. /\ g5 \in Nat /\ g6 \in Nat /\ g9 \in Nat /\ g7 \in [UNION Senders -> Nat]
      /\ g8 \in BOOLEAN /\ g10 \in BOOLEAN
  BY DEF Rates!RateInv
<1>3. /\ i \in Nat /\ add \in Nat /\ max \in Nat /\ Rates!limiter.there \in BOOLEAN
      /\ Rates!limiter.there = TRUE => i > 0
  BY FuseKnown
<1>4. /\ Rates!limiter' = Rates!limiter /\ Rates!fuse' = Rates!fuse /\ Rates!per_fill' = Rates!per_fill
      /\ Rates!Quotas' = Rates!Quotas /\ Rates!Enforces' = Rates!Enforces
  BY <1>1 DEF Rates!limiter, Rates!fuse, Rates!per_fill, Rates!Quotas, Rates!Enforces
<1>5. /\ g6' = IF full THEN (IF max <= g6 + add THEN max ELSE g6 + add) ELSE g6
      /\ g6' \in Nat
  <2>1. Rates!Min({max, g6 + add}) = IF max <= g6 + add THEN max ELSE g6 + add
    BY <1>2, <1>3, LeastOfTwo
  <2>2. g6' = IF full THEN Rates!Min({max, g6 + add}) ELSE g6
    BY <1>1
  <2> HIDE DEF full, max, add
  <2> QED
    BY <1>2, <1>3, <2>1, <2>2
<1>6. i > 0 => /\ Rates!Fills \in Nat /\ Rates!Fills = g5 \div i
               /\ Rates!Fills' = IF full THEN Rates!Fills + 1 ELSE Rates!Fills
  <2>1. i > 0 => Rates!Fills = g5 \div i /\ Rates!Fills' = (g5 + 1) \div i
    BY <1>1, <1>4 DEF Rates!Fills
  <2> HIDE DEF i
  <2>2. i > 0 => /\ g5 \div i \in Nat
                 /\ (g5 + 1) \div i = IF (g5 + 1) % i = 0 THEN g5 \div i + 1 ELSE g5 \div i
    <3> SUFFICES ASSUME i > 0
                 PROVE  /\ g5 \div i \in Nat
                        /\ (g5 + 1) \div i = IF (g5 + 1) % i = 0 THEN g5 \div i + 1 ELSE g5 \div i
      OBVIOUS
    <3>1. i \in Nat \ {0}
      BY <1>3
    <3> QED
      BY <1>2, <3>1, DivideNext
  <2> QED
    BY <2>1, <2>2
<1> DEFINE fills == Rates!Fills
<1>7. i > 0 => fills * add \in Nat /\ (fills + 1) * add = fills * add + add
                                  /\ (fills + 2) * add = fills * add + add + add
  <2>1. i > 0 => /\ fills * add \in Nat /\ (fills + 1) * add = fills * add + add
                 /\ (fills + 1) + 1 = fills + 2 /\ ((fills + 1) + 1) * add = (fills + 1) * add + add
    BY <1>3, <1>6, TimesOneMore
  <2> QED
    BY <2>1
<1> HIDE DEF i, add, max, full, fills
<1>8. g2 /\ Rates!limiter.there => g9 + g6' <= max + Rates!Fills' * add
  <2> SUFFICES ASSUME g2, Rates!limiter.there PROVE g9 + g6' <= max + Rates!Fills' * add
    OBVIOUS
  <2>1. g9 + g6 <= max + fills * add /\ i > 0
    BY <1>3 DEF Rates!RateInv, max, add, fills
  <2>2. CASE full
    BY <1>2, <1>3, <1>5, <1>6, <1>7, <2>1, <2>2 DEF fills
  <2>3. CASE ~full
    BY <1>2, <1>3, <1>5, <1>6, <1>7, <2>1, <2>3 DEF fills
  <2> QED
    BY <2>2, <2>3
<1>9. g8 = FALSE => Rates!Enforces /\ g6 = 0 /\ Rates!limiter.there
  BY <1>1, <1>2 DEF Rates!RateInv, Rates!Enforces
<1>10. ASSUME g2, Rates!limiter.there, g8 = FALSE, Rates!fuse.max >= Rates!fuse.fill, g3[1].trusts,
              NEW c \in g4, g4 = {c}
       PROVE  Rates!Spends(c)'
  <2>1. g7[c] + g6 >= (fills + 1) * add
    BY <1>10 DEF Rates!RateInv, Rates!Spends, fills, add
  <2>2. g7[c] \in Nat /\ i > 0 /\ g6 = 0 /\ max >= add
    <3>1. c \in UNION Senders
      BY DEF Rates!RateInv
    <3>2. Rates!fuse.fill \in Nat
      BY FuseKnown
    <3> QED
      BY <1>2, <1>3, <1>9, <1>10, <3>1, <3>2 DEF Rates!per_fill, max, add
  <2>3. g7[c] + g6' >= (Rates!Fills' + 1) * add
    <3>1. CASE full
      <4>1. Rates!Fills' = fills + 1 /\ g6' = add
        BY <1>2, <1>3, <1>5, <1>6, <2>2, <3>1 DEF fills
      <4>2. (fills + 1) + 1 = fills + 2
        BY <1>6, <2>2 DEF fills
      <4> QED
        BY <1>3, <1>7, <2>1, <2>2, <4>1, <4>2
    <3>2. CASE ~full
      BY <1>2, <1>5, <1>6, <2>1, <2>2, <3>2 DEF fills
    <3> QED
      BY <3>1, <3>2
  <2>4. g7[c] >= ((g5 + 1 - 1) \div i + 1) * add
    BY <1>2, <1>3, <1>6, <1>7, <2>1, <2>2 DEF fills
  <2>5. g5' - 1 = g5 + 1 - 1 /\ Rates!fuse.interval' = i /\ Rates!per_fill' = add
    BY <1>1, <1>2, <1>4 DEF i, add
  <2> QED
    BY <1>1, <2>3, <2>4, <2>5 DEF Rates!Spends
<1>11. /\ g1' \in LimitedEdges /\ g4' \in Senders /\ (g2' => Rates!judge(g1') = {})
       /\ \E h \in g1'.hcms : \E r \in h.routes : g3' = <<h, r>>
       /\ \A k \in UNION Senders, q \in Rates!Quotas : g7'[k] <= q.units
       /\ \A k \in g11' : /\ k[1] = "fuse" => Rates!limiter.there /\ Rates!limiter.descriptors
                          /\ g3'[1].trusts => k[2] = k[3]
  BY <1>1 DEF Rates!RateInv
<1>12. /\ Rates!fuse.max' = max /\ Rates!per_fill' = add /\ g9' = g9 /\ g8' = g8 /\ g2' = g2 /\ g4' = g4
       /\ g3' = g3 /\ Rates!fuse.fill' = Rates!fuse.fill
  BY <1>1, <1>4 DEF max, add
<1>13. g5' \in Nat /\ g6' \in Nat /\ g9' \in Nat /\ g7' \in [UNION Senders -> Nat] /\ g10' = FALSE
       /\ g8' \in BOOLEAN
  BY <1>1, <1>2, <1>5
<1>14. (g2 /\ Rates!limiter.there => g9 + g6 <= max + Rates!Fills * add)'
  BY <1>1, <1>4, <1>8, <1>12 DEF max, add
<1>15. g8' = FALSE => Rates!limiter'.there
  BY <1>4, <1>9, <1>12
<1>16. (g2 /\ Rates!limiter.there /\ g8 = FALSE /\ Rates!fuse.max >= Rates!fuse.fill /\ g3[1].trusts =>
          \A c \in g4 : g4 = {c} => Rates!Spends(c))'
  <2> SUFFICES ASSUME g2', Rates!limiter'.there, g8' = FALSE, Rates!fuse'.max >= Rates!fuse'.fill,
                      g3'[1].trusts, NEW c \in g4', g4' = {c}
               PROVE  Rates!Spends(c)'
    BY DEF Rates!limiter, Rates!fuse
  <2>1. g2 /\ Rates!limiter.there /\ g8 = FALSE /\ Rates!fuse.max >= Rates!fuse.fill /\ g3[1].trusts
    BY <1>4, <1>12
  <2>2. c \in g4 /\ g4 = {c}
    BY <1>12
  <2> QED
    BY <1>10, <2>1, <2>2
<1> QED
  BY <1>4, <1>11, <1>13, <1>14, <1>15, <1>16 DEF Rates!RateInv, max, add

\* The invariant of the limits gives the three promises.
LEMMA RateHolds ==
  ASSUME Rates!RateInv(LimitedEdges)
  PROVE  Rates!FuseEnforced /\ Rates!QuotaApplies /\ Rates!ClientsKeepKeys
<1>1. Rates!FuseEnforced
  <2> SUFFICES ASSUME g2, Rates!limiter.there
               PROVE  g9 <= Rates!fuse.max + Rates!Fills * Rates!per_fill
    BY DEF Rates!FuseEnforced
  <2>1. g9 + g6 <= Rates!fuse.max + Rates!Fills * Rates!per_fill /\ g9 \in Nat /\ g6 \in Nat
    BY DEF Rates!RateInv
  <2>2. Rates!fuse.max + Rates!Fills * Rates!per_fill \in Int
    <3>1. Rates!fuse.max \in Nat /\ Rates!fuse.interval \in Nat \ {0} /\ Rates!per_fill \in Nat
      BY FuseKnown
    <3>2. g5 \in Nat
      BY DEF Rates!RateInv
    <3>3. Rates!Fills \in Nat
      BY <3>1, <3>2, DivideNext DEF Rates!Fills
    <3> QED
      BY <3>1, <3>3, TimesOneMore
  <2> QED
    BY <2>1, <2>2
<1>2. Rates!ClientsKeepKeys
  BY PassedTrusts DEF Rates!ClientsKeepKeys, Rates!RateInv
<1>3. Rates!QuotaApplies
  <2> SUFFICES ASSUME g2, Rates!PeerJudged, Rates!Quotas # {}, Rates!Cardinality(g4) = 1, g5 = Rates!Window,
                      Rates!fuse.max >= Rates!fuse.fill, g8 # TRUE
               PROVE  FALSE
    BY DEF Rates!QuotaApplies, Rates!RateInv
  <2>1. PICK c : g4 = {c}
    <3>1. IsFiniteSet(g4) /\ Cardinality(g4) = 1
      BY RateAssumption, Zenon DEF Rates!RateInv, Cardinality, Rates!Cardinality, IsFiniteSet, Rates!IsFiniteSet
    <3> QED
      BY <3>1, FS_Singleton
  <2>2. PICK q \in Rates!Quotas : Rates!UNIT_SECONDS[q.unit] = g5
    BY WindowOfQuota
  <2>3. g5 \in Nat \ {0} /\ g8 = FALSE
    BY WindowOfQuota DEF Rates!RateInv
  <2>4. Rates!limiter.there
    BY <2>3 DEF Rates!RateInv
  <2> DEFINE i == Rates!fuse.interval
             add == Rates!per_fill
             n == (g5 - 1) \div i + 1
  <2>5. g7[c] >= n * add /\ g7[c] <= q.units /\ g7[c] \in Nat
    <3>1. c \in g4 /\ c \in UNION Senders
      BY <2>1 DEF Rates!RateInv
    <3>2. Rates!Spends(c)
      BY <2>1, <2>3, <2>4, <3>1, PassedTrusts DEF Rates!RateInv
    <3> QED
      BY <2>3, <3>1, <3>2 DEF Rates!RateInv, Rates!Spends
  <2>6. i \in Nat \ {0} /\ add \in Nat /\ q.units \in Nat
    <3>1. i \in Nat \ {0} /\ add \in Nat
      BY <2>4, FuseKnown
    <3>2. q.units \in Nat
      BY RateAssumption DEF Rates!Quotas, Rates!RateInv
    <3> QED
      BY <3>1, <3>2
  <2>7. n \in Nat /\ n * i >= g5
    BY <2>3, <2>6, DivideUp
  <2>8. q.units * i < add * g5
    BY <2>2, <2>4, QuotaBelowFuse
  <2> HIDE DEF i, add, n
  <2>9. n * add <= q.units /\ n * add \in Nat
    BY <2>5, <2>6, <2>7, TimesOneMore
  <2>10. (n * add) * i <= q.units * i
    BY <2>6, <2>9, TimesKeepsOrder
  <2>11. g5 * add <= (n * i) * add
    <3>1. n * i \in Nat
      BY <2>6, <2>7, TimesOneMore
    <3> QED
      BY <2>3, <2>6, <2>7, <3>1, TimesKeepsOrder
  <2>12. (n * add) * i = (n * i) * add /\ g5 * add = add * g5
    BY <2>3, <2>6, <2>7, SMT
  <2> QED
    BY <2>3, <2>6, <2>7, <2>8, <2>10, <2>11, <2>12
<1> QED
  BY <1>1, <1>2, <1>3

\* Every request and every second keeps RateInv.
LEMMA RateStep ==
  ASSUME Rates!RateInv(LimitedEdges), Rates!RateNext
  PROVE  Rates!RateInv(LimitedEdges)'
BY RateSent, RateTicks, Zenon DEF Rates!RateNext

-----------------------------------------------------------------------------
(* PgLoginLeases                                                           *)

(* The slots: g1 loginSecret, g2 expires, g3 maxEnd, g4 born, g5 lease,    *)
(* g6 sinceRead, g7 passed, g8 loginFailures, g9 loginDown.                *)

\* The invariant of the leases gives the three promises.
LEMMA LeaseHolds ==
  ASSUME Leases!LeaseInv
  PROVE  Leases!LoginLive /\ Leases!TokenOutlivesLease /\ Leases!NoTokenPastMax
<1> USE LeaseAssumption DEF Leases!LeaseInv, Leases!Live
<1>1. ASSUME g5 # Leases!NoLease
      PROVE  g5.left > 0 /\ g2[g5.token] > 0 /\ g2[g5.token] >= g5.left
  <2>1. Leases!LeaseKept
    BY <1>1
  <2>2. g5.left \in Nat /\ g5.left > 0 /\ g2[g5.token] \in Nat
    BY <2>1 DEF Leases!LeaseKept
  <2> QED
    BY <2>1, <2>2 DEF Leases!LeaseKept
<1>2. ASSUME NEW t \in LoginTokens, Leases!Live(t) PROVE g4[t] <= Leases!PG_LOGINS_MAX_TTL_S
  BY <1>2 DEF Leases!TokenKept, Leases!PG_LOGINS_MAX_TTL_S, Leases!PG_LOGINS_PERIOD_S
<1> QED
  BY <1>1, <1>2 DEF Leases!LoginLive, Leases!TokenOutlivesLease, Leases!NoTokenPastMax

\* The engine starts with no token and no lease.
LEMMA LeaseStarts == ASSUME Leases!PgInit PROVE Leases!LeaseInv
<1>1. g1 \in LoginTokens
  BY LeaseAssumption DEF Leases!PgInit
<1>2. /\ g2 = [t \in LoginTokens |-> 0] /\ g3 = [t \in LoginTokens |-> 0]
      /\ g4 = [t \in LoginTokens |-> 0] /\ g5 = Leases!NoLease
      /\ g6 = DAY /\ g7 = FALSE /\ g8 = 0 /\ g9 = 0
  BY DEF Leases!PgInit
<1>3. g7 \in BOOLEAN
  BY <1>2
<1>4. ~Leases!Live(g1) /\ \A t \in LoginTokens : Leases!TokenKept(t)
  BY <1>1, <1>2 DEF Leases!Live, Leases!TokenKept
<1> QED
  BY <1>1, <1>2, <1>3, <1>4, LeaseAssumption DEF Leases!LeaseInv

\* A renewal never shortens the life of a token.
LEMMA RenewalLengthens ==
  ASSUME Leases!LeaseInv, NEW t \in LoginTokens, Leases!Live(t)
  PROVE  /\ Leases!Renewed(t) \in [LoginTokens -> Nat]
         /\ \A u \in LoginTokens \ {t} : Leases!Renewed(t)[u] = g2[u]
         /\ Leases!Renewed(t)[t] >= g2[t]
         /\ Leases!Renewed(t)[t] <= g3[t] /\ Leases!Renewed(t)[t] <= Leases!PG_LOGINS_PERIOD_S
         /\ Leases!Renewed(t)[t] = g3[t] \/ Leases!Renewed(t)[t] = Leases!PG_LOGINS_PERIOD_S
<1> DEFINE n == Leases!Least(Leases!PG_LOGINS_PERIOD_S, g3[t])
<1>1. g2 \in [LoginTokens -> Nat] /\ g3 \in [LoginTokens -> Nat] /\ Leases!PG_LOGINS_PERIOD_S \in Nat
  BY LeaseAssumption DEF Leases!LeaseInv, Leases!PG_LOGINS_PERIOD_S
<1>2. g2[t] <= g3[t] /\ g2[t] <= Leases!PG_LOGINS_PERIOD_S
  BY DEF Leases!LeaseInv, Leases!TokenKept
<1>3. /\ n \in Nat /\ n >= g2[t] /\ n <= g3[t] /\ n <= Leases!PG_LOGINS_PERIOD_S
      /\ n = g3[t] \/ n = Leases!PG_LOGINS_PERIOD_S
  BY <1>1, <1>2 DEF Leases!Least
<1> HIDE DEF n
<1>4. Leases!Renewed(t) = [g2 EXCEPT ![t] = n]
  BY DEF Leases!Renewed, n
<1> QED
  BY <1>1, <1>3, <1>4

\* The period of a token is positive and within its maximum.
LEMMA PeriodFits ==
  /\ Leases!PG_LOGINS_PERIOD_S \in Nat \ {0} /\ Leases!PG_LOGINS_MAX_TTL_S \in Nat
  /\ Leases!PG_LOGINS_PERIOD_S <= Leases!PG_LOGINS_MAX_TTL_S
BY LeaseAssumption DEF Leases!PG_LOGINS_PERIOD_S, Leases!PG_LOGINS_MAX_TTL_S

\* The pass renews the token t of the Secret, or a holder of a copy does.
LEMMA LeaseRenewed ==
  ASSUME Leases!LeaseInv, NEW t \in LoginTokens, Leases!Live(t), g2' = Leases!Renewed(t),
         UNCHANGED <<g1, g3, g4, g5, g6>>
  PROVE  /\ g2' \in [LoginTokens -> Nat]
         /\ \A u \in LoginTokens : Leases!TokenKept(u)'
         /\ Leases!Live(g1) <=> Leases!Live(g1)'
         /\ g5 = Leases!NoLease \/ Leases!LeaseKept'
<1> DEFINE n == Leases!Renewed(t)
<1>1. /\ n \in [LoginTokens -> Nat] /\ \A u \in LoginTokens \ {t} : n[u] = g2[u]
      /\ n[t] >= g2[t] /\ n[t] <= g3[t] /\ n[t] <= Leases!PG_LOGINS_PERIOD_S
  BY RenewalLengthens
<1> HIDE DEF n
<1>2. g2 \in [LoginTokens -> Nat] /\ \A u \in LoginTokens : n[u] >= g2[u] /\ (n[u] > 0 <=> g2[u] > 0)
  BY <1>1 DEF Leases!LeaseInv, Leases!Live
<1>3. g2' = n
  BY DEF n
<1>4. ASSUME NEW u \in LoginTokens PROVE Leases!TokenKept(u)'
  <2>1. Leases!TokenKept(u)
    BY DEF Leases!LeaseInv
  <2>2. CASE u = t
    BY <1>1, <1>2, <1>3, <2>1, <2>2 DEF Leases!TokenKept, Leases!Live
  <2>3. CASE u # t
    BY <1>1, <1>3, <2>1, <2>3 DEF Leases!TokenKept, Leases!Live
  <2> QED
    BY <2>2, <2>3
<1>5. Leases!Live(g1) <=> Leases!Live(g1)'
  BY <1>2, <1>3 DEF Leases!LeaseInv, Leases!Live
<1>6. ASSUME Leases!LeaseKept PROVE Leases!LeaseKept'
  <2>1. g5.token \in LoginTokens /\ g5.left \in Nat /\ g2[g5.token] >= g5.left
    BY <1>6 DEF Leases!LeaseKept
  <2>2. n[g5.token] >= g5.left
    BY <1>1, <1>2, <2>1
  <2> QED
    BY <1>3, <1>5, <1>6, <2>2 DEF Leases!LeaseKept, Leases!Live
<1> QED
  BY <1>1, <1>3, <1>4, <1>5, <1>6 DEF Leases!LeaseInv

\* A fresh token is made, and no lease is of it.
LEMMA LeaseCreated ==
  ASSUME Leases!LeaseInv, NEW t \in Leases!Fresh, Leases!Created(t),
         g7' = TRUE, UNCHANGED <<g5, g6, g8, g9>>
  PROVE  Leases!LeaseInv'
<1> DEFINE P == Leases!PG_LOGINS_PERIOD_S
           M == Leases!PG_LOGINS_MAX_TTL_S
<1>1. t \in LoginTokens /\ t # g1 /\ t # g5.token /\ ~Leases!Live(t)
  BY DEF Leases!Fresh, Leases!Unused
<1>2. /\ g2 \in [LoginTokens -> Nat] /\ g3 \in [LoginTokens -> Nat] /\ g4 \in [LoginTokens -> Nat]
      /\ g8 \in 0..MaxFailures /\ g9 \in 0..MaxDown
  BY DEF Leases!LeaseInv
<1>3. P \in Nat \ {0} /\ M \in Nat /\ P <= M
  BY PeriodFits
<1> HIDE DEF P, M
<1>4. g3' = [g3 EXCEPT ![t] = M] /\ g4' = [g4 EXCEPT ![t] = 0] /\ g1' = t
  BY DEF Leases!Created, M
<1>5. g3'[t] = M
  BY <1>1, <1>2, <1>4
<1>6. Leases!Least(P, g3'[t]) = P
  BY <1>3, <1>5 DEF Leases!Least
<1>7. g2' = [g2 EXCEPT ![t] = P]
  BY <1>6 DEF Leases!Created, P
<1>8. /\ g2' \in [LoginTokens -> Nat] /\ g3' \in [LoginTokens -> Nat] /\ g4' \in [LoginTokens -> Nat]
      /\ g2'[t] = P /\ g3'[t] = M /\ g4'[t] = 0
      /\ \A u \in LoginTokens \ {t} : g2'[u] = g2[u] /\ g3'[u] = g3[u] /\ g4'[u] = g4[u]
  BY <1>1, <1>2, <1>3, <1>4, <1>7
<1>9. ASSUME NEW u \in LoginTokens PROVE Leases!TokenKept(u)'
  <2>1. Leases!TokenKept(u)
    BY DEF Leases!LeaseInv
  <2>2. CASE u = t
    <3>1. g4'[u] + g3'[u] = M
      BY <1>3, <1>8, <2>2
    <3> QED
      BY <1>3, <1>8, <2>2, <3>1 DEF Leases!TokenKept, Leases!Live, P, M
  <2>3. CASE u # t
    BY <1>8, <2>1, <2>3 DEF Leases!TokenKept, Leases!Live
  <2> QED
    BY <2>2, <2>3
<1>10. Leases!Live(g1)'
  BY <1>3, <1>4, <1>8 DEF Leases!Live
<1>11. Leases!SecretKept'
  <2>1. g4'[g1'] = 0 /\ g2'[g1'] = P /\ g8' = g8 /\ g9' = g9 /\ g8 \in Nat /\ g9 \in Nat
    BY <1>2, <1>4, <1>8, LeaseAssumption
  <2>2. Leases!Missed' = g9 + g8 /\ Leases!Ahead' = 0
    BY <2>1 DEF Leases!Missed, Leases!Ahead
  <2>3. 0 < TOKEN_LIFETIME_S + (g9 + g8) + 0 /\ P + (g9 + g8) + 0 >= P
    BY <1>3, <2>1, LeaseAssumption
  <2> QED
    BY <2>1, <2>2, <2>3 DEF Leases!SecretKept, P
<1>12. ASSUME Leases!LeaseKept PROVE Leases!LeaseKept'
  <2>1. g5.token \in LoginTokens
    BY <1>12 DEF Leases!LeaseKept
  <2>2. g2'[g5.token] = g2[g5.token]
    BY <1>1, <1>8, <2>1
  <2> QED
    BY <1>10, <1>12, <2>2 DEF Leases!LeaseKept
<1>13. g7' \in BOOLEAN
  OBVIOUS
<1> QED
  BY <1>1, <1>4, <1>8, <1>9, <1>11, <1>12, <1>13 DEF Leases!LeaseInv

\* The token of the Secret lasts beyond the day of the next read.
LEMMA SecretLasts ==
  ASSUME Leases!LeaseInv, Leases!Live(g1)
  PROVE  /\ g3[g1] > DAY
         /\ g2[g1] >= g3[g1] \/ g2[g1] >= LEASE_TTL
         /\ g2[g1] > 1
<1> DEFINE e == g2[g1]
           m == g3[g1]
           b == g4[g1]
           ahead == Leases!Ahead
<1>1. /\ e \in Nat /\ m \in Nat /\ b \in Nat /\ g8 \in 0..MaxFailures /\ g9 \in 0..MaxDown
  BY DEF Leases!LeaseInv
<1>2. b + m = TOKEN_LIFETIME_S + (PG_LEASE_MAX_S + DAY)
  BY DEF Leases!LeaseInv, Leases!TokenKept, Leases!PG_LOGINS_MAX_TTL_S, Leases!PG_LOGINS_PERIOD_S
<1>3. /\ b < TOKEN_LIFETIME_S + (g9 + g8) + ahead
      /\ e >= m \/ e + (g9 + g8) + ahead >= PG_LEASE_MAX_S + DAY
  BY DEF Leases!LeaseInv, Leases!SecretKept, Leases!Missed, Leases!PG_LOGINS_PERIOD_S
<1>4. ahead \in {0, 1}
  BY DEF Leases!Ahead
<1> HIDE DEF e, m, b, ahead
<1>5. m > DAY
  BY <1>1, <1>2, <1>3, <1>4, LeaseAssumption
<1>6. e >= m \/ e >= LEASE_TTL
  BY <1>1, <1>3, <1>4, LeaseAssumption
<1>7. e > 1
  BY <1>1, <1>5, <1>6, LeaseAssumption
<1> QED
  BY <1>5, <1>6, <1>7 DEF e, m

\* Every pass, renewal, read, expiry and outage keeps LeaseInv.
LEMMA LeaseStep == ASSUME Leases!LeaseInv, Leases!PgNext PROVE Leases!LeaseInv'
<1> DEFINE P == Leases!PG_LOGINS_PERIOD_S
<1>1. /\ g1 \in LoginTokens /\ g2 \in [LoginTokens -> Nat] /\ g3 \in [LoginTokens -> Nat]
      /\ g4 \in [LoginTokens -> Nat] /\ g6 \in 0..DAY /\ g7 \in BOOLEAN
      /\ g8 \in 0..MaxFailures /\ g9 \in 0..MaxDown
      /\ g8 \in Nat /\ g9 \in Nat /\ g6 \in Nat
  BY LeaseAssumption DEF Leases!LeaseInv
<1>2. /\ P \in Nat \ {0} /\ TOKEN_LIFETIME_S \in Nat \ {0} /\ DAY \in Nat \ {0}
      /\ MaxFailures \in Nat /\ MaxDown \in Nat
  BY PeriodFits, LeaseAssumption
<1>3. /\ \A t \in LoginTokens : Leases!TokenKept(t)
      /\ Leases!Live(g1) => Leases!SecretKept
      /\ g5 = Leases!NoLease \/ Leases!LeaseKept
  BY DEF Leases!LeaseInv
<1> HIDE DEF P
<1>4. CASE Leases!Rotate
  BY <1>4, LeaseCreated DEF Leases!Rotate, Leases!Passes
\* A failed pass leaves the token of the Secret as it is, and is counted.
<1>13. ASSUME Leases!Live(g1), g7 = FALSE, g7' = TRUE, Leases!Fails,
              UNCHANGED <<g1, g2, g3, g4, g5, g6, g9>>
       PROVE  Leases!LeaseInv'
  <2>1. g8' = g8 + 1 /\ g8' \in 0..MaxFailures /\ g7' \in BOOLEAN
    BY <1>1, <1>2, <1>13 DEF Leases!Fails
  <2>2. Leases!SecretKept'
    <3>1. /\ g4[g1] < TOKEN_LIFETIME_S + (g9 + g8) + 1 /\ g4[g1] \in Nat /\ g2[g1] \in Nat
          /\ g2[g1] >= g3[g1] \/ g2[g1] + (g9 + g8) + 1 >= P
      BY <1>1, <1>3, <1>13 DEF Leases!SecretKept, Leases!Missed, Leases!Ahead, P
    <3>2. /\ g4[g1] < TOKEN_LIFETIME_S + (g9 + (g8 + 1)) + 0
          /\ g2[g1] >= g3[g1] \/ g2[g1] + (g9 + (g8 + 1)) + 0 >= P
      BY <1>1, <1>2, <3>1
    <3>3. Leases!Missed' = g9 + (g8 + 1) /\ Leases!Ahead' = 0
      BY <1>13, <2>1 DEF Leases!Missed, Leases!Ahead
    <3> QED
      BY <1>13, <3>2, <3>3 DEF Leases!SecretKept, P
  <2>3. /\ \A u \in LoginTokens : Leases!TokenKept(u)'
        /\ g5' = Leases!NoLease \/ Leases!LeaseKept'
    BY <1>3, <1>13 DEF Leases!TokenKept, Leases!LeaseKept, Leases!Live
  <2> QED
    BY <1>1, <1>13, <2>1, <2>2, <2>3 DEF Leases!LeaseInv
<1>5. ASSUME Leases!RotateFails, g2' = Leases!Renewed(g1) PROVE Leases!LeaseInv'
  <2>1. /\ Leases!Live(g1) /\ g7 = FALSE /\ g7' = TRUE /\ g8 < MaxFailures /\ g8' = g8 + 1
        /\ g2' = Leases!Renewed(g1) /\ UNCHANGED <<g1, g3, g4, g5, g6, g9>>
    BY <1>1, <1>5 DEF Leases!RotateFails, Leases!Passes, Leases!Fails, Leases!RotationDue
  <2>2. /\ g2' \in [LoginTokens -> Nat] /\ \A u \in LoginTokens : Leases!TokenKept(u)'
        /\ g5 = Leases!NoLease \/ Leases!LeaseKept'
    BY <1>1, <2>1, LeaseRenewed
  <2>3. Leases!SecretKept'
    <3>1. g2'[g1] = g3[g1] \/ g2'[g1] = P
      BY <1>1, <2>1, RenewalLengthens DEF P
    <3>2. g4[g1] < TOKEN_LIFETIME_S + (g9 + g8) + 1 /\ g4[g1] \in Nat /\ g3[g1] \in Nat
      BY <1>1, <1>3, <2>1 DEF Leases!SecretKept, Leases!Missed, Leases!Ahead
    <3>3. g4[g1] < TOKEN_LIFETIME_S + (g9 + (g8 + 1)) + 0
      BY <1>1, <1>2, <3>2
    <3>4. Leases!Missed' = g9 + (g8 + 1) /\ Leases!Ahead' = 0
      BY <2>1 DEF Leases!Missed, Leases!Ahead
    <3>5. g2'[g1] >= g3[g1] \/ g2'[g1] + (g9 + (g8 + 1)) + 0 >= P
      BY <1>1, <1>2, <3>1, <3>2
    <3> QED
      BY <2>1, <3>3, <3>4, <3>5 DEF Leases!SecretKept, P
  <2>4. g8' \in 0..MaxFailures /\ g7' \in BOOLEAN
    BY <1>1, <1>2, <2>1
  <2> QED
    BY <1>1, <2>1, <2>2, <2>3, <2>4 DEF Leases!LeaseInv
<1>14. CASE Leases!RotateFails
  <2>1. /\ Leases!Live(g1) /\ g7 = FALSE /\ g7' = TRUE /\ Leases!Fails
        /\ g2' \in {Leases!Renewed(g1), g2} /\ UNCHANGED <<g1, g3, g4, g5, g6, g9>>
    BY <1>1, <1>14 DEF Leases!RotateFails, Leases!Passes, Leases!RotationDue
  <2> QED
    BY <1>5, <1>13, <1>14, <2>1
<1>15. CASE Leases!RenewFails
  <2>1. Leases!Live(g1) /\ g7 = FALSE /\ g7' = TRUE /\ UNCHANGED <<g5, g6, g9>>
    BY <1>1, <1>15 DEF Leases!RenewFails, Leases!Passes
  <2>2. ASSUME NEW t \in Leases!Fresh, Leases!Created(t), UNCHANGED g8 PROVE Leases!LeaseInv'
    BY <2>1, <2>2, LeaseCreated
  <2>3. ASSUME Leases!Fails, UNCHANGED <<g1, g2, g3, g4>> PROVE Leases!LeaseInv'
    BY <1>13, <2>1, <2>3
  <2> QED
    BY <1>15, <2>2, <2>3 DEF Leases!RenewFails
<1>6. CASE Leases!Renew
  <2>1. /\ Leases!Live(g1) /\ g7 = FALSE /\ g7' = TRUE /\ ~(g4[g1] >= TOKEN_LIFETIME_S)
        /\ UNCHANGED <<g1, g3, g4, g5, g6, g8, g9>>
    BY <1>1, <1>6 DEF Leases!Renew, Leases!Passes, Leases!RotationDue
  <2>2. g7' \in BOOLEAN
    BY <2>1
  <2>3. g4[g1] < TOKEN_LIFETIME_S + (g9 + g8) + 0 /\ Leases!Missed' = g9 + g8 /\ Leases!Ahead' = 0
    <3>1. g4[g1] \in Nat
      BY <1>1
    <3> QED
      BY <1>1, <1>2, <2>1, <3>1 DEF Leases!Missed, Leases!Ahead
  <2>4. CASE g2[g1] > Leases!token_renew_below_s
    <3>1. g2' = g2
      BY <1>6, <2>4 DEF Leases!Renew
    <3>2. g2[g1] \in Nat /\ g2[g1] > P - 1
      BY <1>1, <2>4 DEF Leases!token_renew_below_s, P
    <3>3. g2[g1] + (g9 + g8) + 0 >= P
      BY <1>1, <1>2, <3>2
    <3>4. Leases!SecretKept'
      BY <2>1, <2>3, <3>1, <3>3 DEF Leases!SecretKept, P
    <3>5. /\ \A u \in LoginTokens : Leases!TokenKept(u)'
          /\ g5' = Leases!NoLease \/ Leases!LeaseKept'
      BY <1>3, <2>1, <3>1 DEF Leases!TokenKept, Leases!LeaseKept, Leases!Live
    <3> QED
      BY <1>1, <2>1, <2>2, <3>1, <3>4, <3>5 DEF Leases!LeaseInv
  <2>5. CASE ~(g2[g1] > Leases!token_renew_below_s)
    <3>1. g2' = Leases!Renewed(g1)
      BY <1>6, <2>5 DEF Leases!Renew
    <3>2. /\ g2' \in [LoginTokens -> Nat] /\ \A u \in LoginTokens : Leases!TokenKept(u)'
          /\ g5 = Leases!NoLease \/ Leases!LeaseKept'
      BY <1>1, <2>1, <3>1, LeaseRenewed
    <3>3. g2'[g1] = g3[g1] \/ g2'[g1] = P
      BY <1>1, <2>1, <3>1, RenewalLengthens DEF P
    <3>4. g2'[g1] >= g3[g1] \/ g2'[g1] + (g9 + g8) + 0 >= P
      <4>1. g3[g1] \in Nat
        BY <1>1
      <4> QED
        BY <1>1, <1>2, <3>3, <4>1
    <3>5. Leases!SecretKept'
      BY <2>1, <2>3, <3>4 DEF Leases!SecretKept, P
    <3> QED
      BY <1>1, <2>1, <2>2, <3>2, <3>5 DEF Leases!LeaseInv
  <2> QED
    BY <2>4, <2>5
<1>7. CASE Leases!Replace
  <2>1. /\ ~Leases!Live(g1) /\ g7' = TRUE /\ UNCHANGED <<g5, g6, g9>>
    BY <1>7 DEF Leases!Replace, Leases!Passes
  <2>2. ASSUME NEW t \in Leases!Fresh, Leases!Created(t), UNCHANGED g8 PROVE Leases!LeaseInv'
    BY <2>1, <2>2, LeaseCreated
  <2>3. ASSUME Leases!Fails, UNCHANGED <<g1, g2, g3, g4>> PROVE Leases!LeaseInv'
    <3>1. g5 = Leases!NoLease /\ g5' = g5 /\ ~Leases!Live(g1)'
      BY <1>3, <2>1, <2>3 DEF Leases!LeaseKept, Leases!Live
    <3>2. \A u \in LoginTokens : Leases!TokenKept(u)'
      BY <1>3, <2>3 DEF Leases!TokenKept, Leases!Live
    <3>3. g8' \in 0..MaxFailures
      BY <1>1, <1>2, <2>3 DEF Leases!Fails
    <3>4. g7' \in BOOLEAN
      BY <2>1
    <3> QED
      BY <1>1, <2>1, <2>3, <3>1, <3>2, <3>3, <3>4 DEF Leases!LeaseInv
  <2> QED
    BY <1>7, <2>2, <2>3 DEF Leases!Replace
<1>8. CASE Leases!Stopped
  <2>1. /\ g7 = FALSE /\ g7' = TRUE /\ g9 < MaxDown /\ g9' = g9 + 1
        /\ UNCHANGED <<g1, g2, g3, g4, g5, g6, g8>>
    BY <1>1, <1>8 DEF Leases!Stopped
  <2>2. ASSUME Leases!Live(g1) PROVE Leases!SecretKept'
    <3>1. /\ g4[g1] < TOKEN_LIFETIME_S + (g9 + g8) + 1 /\ g4[g1] \in Nat /\ g2[g1] \in Nat
          /\ g2[g1] >= g3[g1] \/ g2[g1] + (g9 + g8) + 1 >= P
      BY <1>1, <1>3, <2>1, <2>2 DEF Leases!SecretKept, Leases!Missed, Leases!Ahead, P
    <3>2. /\ g4[g1] < TOKEN_LIFETIME_S + ((g9 + 1) + g8) + 0
          /\ g2[g1] >= g3[g1] \/ g2[g1] + ((g9 + 1) + g8) + 0 >= P
      BY <1>1, <1>2, <3>1
    <3>3. Leases!Missed' = (g9 + 1) + g8 /\ Leases!Ahead' = 0
      BY <2>1 DEF Leases!Missed, Leases!Ahead
    <3> QED
      BY <2>1, <3>2, <3>3 DEF Leases!SecretKept, P
  <2>3. g9' \in 0..MaxDown /\ g7' \in BOOLEAN
    BY <1>1, <1>2, <2>1
  <2>4. /\ \A u \in LoginTokens : Leases!TokenKept(u)'
        /\ g5' = Leases!NoLease \/ Leases!LeaseKept'
        /\ Leases!Live(g1)' => Leases!Live(g1)
    BY <1>3, <2>1 DEF Leases!TokenKept, Leases!LeaseKept, Leases!Live
  <2> QED
    BY <1>1, <2>1, <2>2, <2>3, <2>4 DEF Leases!LeaseInv
<1>9. CASE Leases!ReadLogin
  <2> DEFINE n == Leases!Least(LEASE_TTL, g3[g1])
  <2>1. /\ Leases!Live(g1) /\ g5' = [token |-> g1, left |-> n] /\ g6' = 0
        /\ UNCHANGED <<g1, g2, g3, g4, g7, g8, g9>>
    BY <1>9 DEF Leases!ReadLogin
  <2>2. g3[g1] > DAY /\ (g2[g1] >= g3[g1] \/ g2[g1] >= LEASE_TTL) /\ g2[g1] \in Nat /\ g3[g1] \in Nat
    BY <1>1, <2>1, SecretLasts
  <2>3. n \in Nat /\ n + 0 > DAY /\ g2[g1] >= n
    BY <2>2, LeaseAssumption DEF Leases!Least
  <2> HIDE DEF n
  <2>4. g5'.token = g1 /\ g5'.left = n
    BY <2>1
  <2>5. Leases!Live(g1)'
    BY <2>1 DEF Leases!Live
  <2>6. Leases!LeaseKept'
    BY <1>1, <2>1, <2>3, <2>4, <2>5 DEF Leases!LeaseKept
  <2>7. /\ \A u \in LoginTokens : Leases!TokenKept(u)'
        /\ Leases!Live(g1)' => Leases!SecretKept'
    BY <1>3, <2>1 DEF Leases!TokenKept, Leases!SecretKept, Leases!Live, Leases!Missed, Leases!Ahead
  <2>8. g6' \in 0..DAY
    BY <1>2, <2>1
  <2> QED
    BY <1>1, <2>1, <2>6, <2>7, <2>8 DEF Leases!LeaseInv
<1>10. CASE Leases!HolderRenews
  <2>1. PICK t \in LoginTokens :
            /\ Leases!Live(t) /\ g2' = Leases!Renewed(t)
            /\ UNCHANGED <<g1, g3, g4, g5, g6, g7, g8, g9>>
    BY <1>10 DEF Leases!HolderRenews
  <2>2. /\ g2' \in [LoginTokens -> Nat] /\ \A u \in LoginTokens : Leases!TokenKept(u)'
        /\ Leases!Live(g1) <=> Leases!Live(g1)'
        /\ g5 = Leases!NoLease \/ Leases!LeaseKept'
    BY <2>1, LeaseRenewed
  <2>3. ASSUME Leases!Live(g1) PROVE Leases!SecretKept'
    <3>1. g2'[g1] >= g3[g1] \/ g2'[g1] + Leases!Missed + Leases!Ahead >= P
      <4>1. CASE t = g1
        <5>1. g2'[g1] = g3[g1] \/ g2'[g1] = P
          BY <2>1, <4>1, RenewalLengthens DEF P
        <5>2. g3[g1] \in Nat /\ Leases!Ahead \in {0, 1} /\ Leases!Missed \in Nat
          BY <1>1 DEF Leases!Ahead, Leases!Missed
        <5> QED
          BY <1>1, <1>2, <5>1, <5>2
      <4>2. CASE t # g1
        <5>1. g2'[g1] = g2[g1]
          BY <1>1, <2>1, <4>2, RenewalLengthens
        <5> QED
          BY <1>3, <2>3, <5>1 DEF Leases!SecretKept, P
      <4> QED
        BY <4>1, <4>2
    <3>2. Leases!Missed' = Leases!Missed /\ Leases!Ahead' = Leases!Ahead
      BY <2>1 DEF Leases!Missed, Leases!Ahead
    <3> QED
      BY <1>3, <2>1, <2>3, <3>1, <3>2 DEF Leases!SecretKept, P
  <2> QED
    BY <1>1, <2>1, <2>2, <2>3 DEF Leases!LeaseInv
<1>11. CASE Leases!Expire
  <2>1. /\ g7 = TRUE /\ (g6 < DAY \/ ~Leases!Live(g1)) /\ g7' = FALSE
        /\ g6' = Leases!Least(g6 + 1, DAY)
        /\ g2' = [t \in LoginTokens |-> Leases!Down(g2[t])]
        /\ g3' = [t \in LoginTokens |-> IF g2[t] > 1 THEN Leases!Down(g3[t]) ELSE 0]
        /\ g4' = [t \in LoginTokens |-> IF g2[t] > 1 THEN g4[t] + 1 ELSE 0]
        /\ g5' = [g5 EXCEPT !.left = Leases!Down(g5.left)]
        /\ UNCHANGED <<g1, g8, g9>>
    BY <1>1, <1>11 DEF Leases!Expire
  <2>2. ASSUME NEW t \in LoginTokens
        PROVE  /\ g2'[t] \in Nat /\ g3'[t] \in Nat /\ g4'[t] \in Nat
               /\ g2'[t] > 0 <=> g2[t] > 1
               /\ g2[t] > 1 => g2'[t] = g2[t] - 1 /\ g3'[t] = g3[t] - 1 /\ g4'[t] = g4[t] + 1
    <3>1. g2[t] \in Nat /\ g3[t] \in Nat /\ g4[t] \in Nat /\ (g2[t] > 1 => g3[t] > 1)
      BY <1>1, <1>3 DEF Leases!TokenKept, Leases!Live
    <3>2. /\ g2'[t] = Leases!Down(g2[t])
          /\ g3'[t] = (IF g2[t] > 1 THEN Leases!Down(g3[t]) ELSE 0)
          /\ g4'[t] = (IF g2[t] > 1 THEN g4[t] + 1 ELSE 0)
      BY <2>1
    <3> QED
      BY <3>1, <3>2 DEF Leases!Down
  <2>3. /\ g2' \in [LoginTokens -> Nat] /\ g3' \in [LoginTokens -> Nat] /\ g4' \in [LoginTokens -> Nat]
    BY <2>1, <2>2
  <2>4. ASSUME NEW t \in LoginTokens PROVE Leases!TokenKept(t)'
    <3>1. ASSUME g2'[t] > 0
          PROVE  g2'[t] <= g3'[t] /\ g2'[t] <= P /\ g4'[t] + g3'[t] = Leases!PG_LOGINS_MAX_TTL_S
      <4>1. g2[t] > 1 /\ g2[t] \in Nat /\ g3[t] \in Nat /\ g4[t] \in Nat
        BY <1>1, <2>2, <3>1
      <4>2. g2[t] <= g3[t] /\ g2[t] <= P /\ g4[t] + g3[t] = Leases!PG_LOGINS_MAX_TTL_S
        BY <1>3, <4>1 DEF Leases!TokenKept, Leases!Live, P
      <4> QED
        BY <1>2, <2>2, <4>1, <4>2
    <3> QED
      BY <2>2, <3>1 DEF Leases!TokenKept, Leases!Live, P
  <2>5. ASSUME Leases!Live(g1)' PROVE Leases!SecretKept'
    <3>1. g2[g1] > 1 /\ g2[g1] \in Nat /\ g3[g1] \in Nat /\ g4[g1] \in Nat
      BY <1>1, <2>1, <2>2, <2>5 DEF Leases!Live
    <3>2. /\ g4[g1] < TOKEN_LIFETIME_S + (g9 + g8) + 0
          /\ g2[g1] >= g3[g1] \/ g2[g1] + (g9 + g8) + 0 >= P
      BY <1>3, <2>1, <3>1 DEF Leases!SecretKept, Leases!Missed, Leases!Ahead, Leases!Live, P
    <3>3. g2'[g1] = g2[g1] - 1 /\ g3'[g1] = g3[g1] - 1 /\ g4'[g1] = g4[g1] + 1
      BY <1>1, <2>2, <3>1
    <3>4. /\ g4'[g1] < TOKEN_LIFETIME_S + (g9 + g8) + 1
          /\ g2'[g1] >= g3'[g1] \/ g2'[g1] + (g9 + g8) + 1 >= P
      BY <1>1, <1>2, <3>1, <3>2, <3>3
    <3>5. Leases!Missed' = g9 + g8 /\ Leases!Ahead' = 1
      BY <2>1 DEF Leases!Missed, Leases!Ahead
    <3> QED
      BY <2>1, <3>4, <3>5 DEF Leases!SecretKept, P
  <2>6. g6' \in 0..DAY /\ g7' \in BOOLEAN
    <3>1. Leases!Least(g6 + 1, DAY) \in 0..DAY
      BY <1>1, <1>2 DEF Leases!Least
    <3> QED
      BY <2>1, <3>1
  <2>7. CASE g5 = Leases!NoLease
    <3>1. g5' = Leases!NoLease
      BY <2>1, <2>7 DEF Leases!NoLease, Leases!Down
    <3> QED
      BY <1>1, <2>1, <2>3, <2>4, <2>5, <2>6, <3>1 DEF Leases!LeaseInv
  <2>8. CASE Leases!LeaseKept
    <3>1. /\ g5.token \in LoginTokens /\ g5.left \in Nat /\ g5 = [token |-> g5.token, left |-> g5.left]
          /\ Leases!Live(g1) /\ g5.left + g6 > DAY /\ g2[g5.token] >= g5.left
      BY <2>8 DEF Leases!LeaseKept
    <3>2. g6 < DAY /\ g6' = g6 + 1
      BY <1>1, <1>2, <2>1, <3>1 DEF Leases!Least
    <3>3. g5.left > 1 /\ (g5.left - 1) \in Nat /\ g5.left - 1 + (g6 + 1) > DAY
      BY <1>1, <1>2, <3>1, <3>2
    <3>4. g5' = [token |-> g5.token, left |-> g5.left - 1]
      BY <2>1, <3>1, <3>3 DEF Leases!Down
    <3>5. g2'[g5.token] >= g5.left - 1
      <4>1. g2[g5.token] \in Nat /\ g2[g5.token] > 1
        BY <1>1, <3>1, <3>3
      <4> QED
        BY <2>2, <3>1, <4>1
    <3>6. Leases!Live(g1)'
      <4>1. g2[g1] > 1
        BY <3>1, SecretLasts
      <4> QED
        BY <1>1, <2>1, <2>2, <4>1 DEF Leases!Live
    <3>7. Leases!LeaseKept'
      <4>1. g5'.token = g5.token /\ g5'.left = g5.left - 1
        BY <3>4
      <4> QED
        BY <3>1, <3>2, <3>3, <3>4, <3>5, <3>6, <4>1 DEF Leases!LeaseKept
    <3> QED
      BY <1>1, <2>1, <2>3, <2>4, <2>5, <2>6, <3>7 DEF Leases!LeaseInv
  <2> QED
    BY <1>3, <2>7, <2>8
<1> QED
  BY <1>4, <1>6, <1>7, <1>8, <1>9, <1>10, <1>11, <1>14, <1>15 DEF Leases!PgNext

-----------------------------------------------------------------------------
(* SealKeyring                                                             *)

(* The slots: g1 keyring, g2 made, g3 secret, g4 mounted, g5 wrapped,      *)
(* g6 seal, g7 server, g8 hasty.                                           *)

(* No seal id of a key is the legacy id.                                   *)
LEMMA IdsDiffer == \A k : Keys!seal_id(k) # Keys!legacy_id
  BY DEF Keys!seal_id, Keys!legacy_id, Keys!LEGACY

(* The stanza of the files from before the rotation has the old key under  *)
(* the id of the entries, and that of the new files opens both keys.       *)
LEMMA StanzaOpens ==
  ASSUME NEW id \in {Keys!seal_id(Keys!Old), Keys!legacy_id}, NEW f
  PROVE  /\ Keys!Behind(f, id) /\ Keys!AllOld(id)
              => Keys!stanza(f).current = Keys!OldWrap(id) /\ Keys!stanza(f).previous.id # id
         /\ f = g1 /\ g1.previous # Keys!NONE
            /\ (\A e \in Entries : g5[e] \in {Keys!OldWrap(id), Keys!NewWrap})
              => /\ Keys!stanza(f).current = Keys!NewWrap
                 /\ Keys!stanza(f).previous.id # Keys!no_id
                 /\ \A e \in Entries : g5[e] = Keys!NewWrap \/ Keys!stanza(f).previous = Keys!OldWrap(id)
<1> DEFINE legacy == \E e \in Entries : g5[e].id = Keys!legacy_id
<1>1. Keys!stanza(f).current = Keys!Wrap(IF legacy /\ f.previous = Keys!NONE
                                THEN Keys!legacy_id ELSE Keys!seal_id(f.key), f.key)
  BY DEF Keys!stanza
<1>2. Keys!stanza(f).previous = Keys!Wrap(IF f.previous = Keys!NONE THEN Keys!no_id
                                ELSE IF legacy THEN Keys!legacy_id ELSE Keys!seal_id(f.previous), f.previous)
  BY DEF Keys!stanza
<1>3. \A i, k : Keys!Wrap(i, k).id = i
  BY DEF Keys!Wrap
<1> HIDE DEF legacy
<1>4. ASSUME Keys!Behind(f, id), Keys!AllOld(id)
      PROVE  Keys!stanza(f).current = Keys!OldWrap(id) /\ Keys!stanza(f).previous.id # id
  <2>1. legacy <=> id = Keys!legacy_id
    BY <1>3, <1>4, SealAssumption DEF legacy, Keys!AllOld, Keys!OldWrap
  <2>2. Keys!stanza(f).current = Keys!OldWrap(id)
    BY <1>1, <1>4, <2>1, IdsDiffer DEF Keys!Behind, Keys!OldWrap
  <2>3. Keys!stanza(f).previous.id = IF f.previous = Keys!NONE THEN Keys!no_id
                                     ELSE IF legacy THEN Keys!legacy_id ELSE Keys!seal_id(f.previous)
    BY <1>2, <1>3
  <2>4. Keys!stanza(f).previous.id # id
    <3>1. CASE f.previous = Keys!NONE
      BY <2>3, <3>1 DEF Keys!no_id, Keys!seal_id, Keys!legacy_id, Keys!NONE, Keys!LEGACY
    <3>2. CASE f.previous # Keys!NONE
      <4>1. id = Keys!seal_id(Keys!Old) /\ ~legacy /\ f.previous # Keys!Old
        BY <1>4, <2>1, <3>2, IdsDiffer DEF Keys!Behind
      <4>2. Keys!stanza(f).previous.id = Keys!seal_id(f.previous)
        BY <2>3, <3>2, <4>1
      <4> QED
        BY <4>1, <4>2 DEF Keys!seal_id
    <3> QED
      BY <3>1, <3>2
  <2> QED
    BY <2>2, <2>4
<1>5. ASSUME f = g1, g1.previous # Keys!NONE,
             \A e \in Entries : g5[e] \in {Keys!OldWrap(id), Keys!NewWrap}
      PROVE  /\ Keys!stanza(f).current = Keys!NewWrap
             /\ Keys!stanza(f).previous.id # Keys!no_id
             /\ \A e \in Entries : g5[e] = Keys!NewWrap \/ Keys!stanza(f).previous = Keys!OldWrap(id)
  <2>1. Keys!stanza(f).current = Keys!NewWrap
    BY <1>1, <1>5 DEF Keys!NewWrap
  <2>2. ASSUME NEW e \in Entries, g5[e] = Keys!OldWrap(id)
        PROVE  Keys!stanza(f).previous = Keys!OldWrap(id)
    <3>1. Keys!Old = f.previous
      BY <1>5 DEF Keys!Old
    <3>2. CASE id = Keys!legacy_id
      <4>1. legacy
        BY <1>3, <2>2, <3>2 DEF legacy, Keys!OldWrap
      <4> QED
        BY <1>2, <1>5, <3>1, <3>2, <4>1 DEF Keys!OldWrap
    <3>3. CASE id = Keys!seal_id(Keys!Old)
      <4>1. ~legacy
        BY <1>3, <1>5, <3>3, IdsDiffer DEF legacy, Keys!OldWrap, Keys!NewWrap
      <4> QED
        BY <1>2, <1>5, <3>1, <3>3, <4>1 DEF Keys!OldWrap
    <3> QED
      BY <3>2, <3>3
  <2>3. Keys!stanza(f).previous.id \in {Keys!legacy_id, Keys!seal_id(f.previous)}
    BY <1>2, <1>3, <1>5
  <2>4. Keys!stanza(f).previous.id # Keys!no_id
    BY <2>3 DEF Keys!no_id, Keys!seal_id, Keys!legacy_id, Keys!NONE, Keys!LEGACY
  <2> QED
    BY <1>5, <2>1, <2>2, <2>4
<1> QED
  BY <1>4, <1>5

\* The store starts with every entry wrapped under the one key of the files.
LEMMA SealStarts == ASSUME Keys!SealInit PROVE Keys!SealInv
<1>1. PICK k \in SealKeys, i \in {"new", "legacy"} :
         /\ g1 = [key |-> k, previous |-> Keys!NONE]
         /\ g2 = {k} /\ g3 = g1 /\ g4 = g1
         /\ g5 = [e \in Entries |-> Keys!Wrap(IF i = "new" THEN Keys!seal_id(k) ELSE Keys!legacy_id, k)]
         /\ g7 = "down" /\ g8 = {}
  BY DEF Keys!SealInit
<1>2. PICK id \in {Keys!seal_id(k), Keys!legacy_id} : g5 = [e \in Entries |-> Keys!Wrap(id, k)]
  BY <1>1
<1>3. Keys!Old = k
  BY <1>1 DEF Keys!Old
<1>4. Keys!StoreHeld(id)
  BY <1>1, <1>2, <1>3, SealAssumption DEF Keys!StoreHeld, Keys!FilesFollow, Keys!Behind, Keys!AllOld, Keys!OldWrap
<1> QED
  BY <1>1, <1>2, <1>3, <1>4, SealAssumption DEF Keys!SealInv

(* Every step keeps the invariant, wherever it falls in a rotation.        *)
LEMMA SealStep ==
  ASSUME Keys!SealInv, Keys!SealNext
  PROVE  Keys!SealInv'
<1>0. SUFFICES ASSUME g8' = {}
               PROVE  Keys!SealInv'
  BY DEF Keys!SealInv
<1>00. g8 = {}
  BY <1>0 DEF Keys!SealNext, Keys!Rotate, Keys!Retire, Keys!ToCluster, Keys!StartServer, Keys!ReadKeys,
     Keys!Unwrap, Keys!ServerStops, Keys!Project
<1>1. PICK id \in {Keys!seal_id(Keys!Old), Keys!legacy_id} : Keys!StoreHeld(id)
  BY <1>00 DEF Keys!SealInv
<1>2. /\ Keys!FilesFollow(id) /\ (g7 = "configured" => Keys!IdsFit(id))
      /\ g7 \notin {"down", "configured"} => Keys!StanzaFits(id)
  BY <1>1 DEF Keys!StoreHeld
<1>3. /\ g1.key \in SealKeys /\ g1.previous \in SealKeys \cup {Keys!NONE}
      /\ g1.key # Keys!NONE /\ g1.key # g1.previous
      /\ g1.key \in g2
  BY <1>00, SealAssumption DEF Keys!SealInv
<1>5. ASSUME NEW k \in SealKeys, Keys!Rotate(k)
      PROVE  Keys!SealInv'
  <2>1. /\ g1.previous = Keys!NONE /\ k \notin g2 /\ g2' = g2 \cup {k}
        /\ g1' = [key |-> k, previous |-> g1.key]
        /\ UNCHANGED <<g3, g4, g5, g6, g7, g8>>
    BY <1>5 DEF Keys!Rotate
  <2>2. Keys!Old = g1.key /\ Keys!Old' = g1.key
    BY <1>3, <2>1 DEF Keys!Old
  <2>3. Keys!Behind(g3, id) /\ Keys!Behind(g4, id) /\ Keys!AllOld(id)
    BY <1>2, <1>3, <2>1, <2>2 DEF Keys!FilesFollow, Keys!Behind
  <2>4. Keys!FilesFollow(id)'
    BY <2>1, <2>2, <2>3 DEF Keys!FilesFollow, Keys!Behind, Keys!AllOld, Keys!OldWrap
  <2>5. g7' \notin {"down", "configured"} => Keys!StanzaFits(id)'
    BY <1>2, <2>1, <2>2 DEF Keys!StanzaFits, Keys!AllOld, Keys!OldWrap
  <2>8. g7' = "configured" => Keys!IdsFit(id)'
    BY <1>2, <2>1, <2>2 DEF Keys!IdsFit, Keys!Behind, Keys!AllOld, Keys!OldWrap
  <2>6. \E i \in {Keys!seal_id(Keys!Old)', Keys!legacy_id} : Keys!StoreHeld(i)'
    BY <1>1, <2>2, <2>4, <2>5, <2>8 DEF Keys!StoreHeld
  <2>7. g1' \in [key : SealKeys, previous : SealKeys \cup {Keys!NONE}]
    BY <1>3, <1>5, <2>1
  <2> QED
    BY <1>00, <1>3, <2>1, <2>6, <2>7 DEF Keys!SealInv, Keys!Torn
<1>6. CASE Keys!Retire
  <2>1. /\ g1.previous # Keys!NONE /\ g7 = "unsealed" /\ g6.current.key = g1.key
        /\ g1' = [g1 EXCEPT !.previous = Keys!NONE]
        /\ UNCHANGED <<g2, g3, g4, g5, g6, g7, g8>>
    BY <1>0, <1>00, <1>6 DEF Keys!Retire, Keys!Left
  <2>2. /\ g1'.key = g1.key /\ g1'.previous = Keys!NONE
        /\ g1' \in [key : SealKeys, previous : SealKeys \cup {Keys!NONE}]
    BY <1>00, <1>3, <2>1 DEF Keys!SealInv
  <2>3. Keys!Old = g1.previous /\ Keys!Old' = g1.key
    BY <2>1, <2>2 DEF Keys!Old
  <2>4. Keys!OldWrap(id).key = Keys!Old
    BY DEF Keys!OldWrap, Keys!Wrap
  <2>5. g4 = g1 /\ g6.current = Keys!NewWrap
    BY <1>2, <1>3, <2>1, <2>3, <2>4 DEF Keys!StanzaFits
  <2>6. g3 = g1
    BY <1>2, <1>3, <2>3, <2>5 DEF Keys!FilesFollow, Keys!Behind
  <2>7. \A e \in Entries : g5[e] = Keys!NewWrap
    BY <1>00, <2>1, <2>5 DEF Keys!SealInv
  <2>0. PICK i : i = Keys!seal_id(g1.key)
    OBVIOUS
  <2>8. Keys!OldWrap(i)' = Keys!NewWrap /\ i # Keys!legacy_id
    BY <2>0, <2>3, IdsDiffer DEF Keys!OldWrap, Keys!NewWrap
  <2>9. Keys!FilesFollow(i)'
    <3>1. Keys!Behind(g3, i)' /\ Keys!Behind(g4, i)'
      BY <1>3, <2>1, <2>3, <2>5, <2>6, <2>8 DEF Keys!Behind
    <3> QED
      BY <2>1, <2>7, <2>8, <3>1 DEF Keys!FilesFollow, Keys!AllOld
  <2>10. Keys!StanzaFits(i)'
    BY <2>1, <2>5, <2>7, <2>8 DEF Keys!StanzaFits, Keys!AllOld
  <2>11. \E j \in {Keys!seal_id(Keys!Old)', Keys!legacy_id} : Keys!StoreHeld(j)'
    BY <2>0, <2>1, <2>3, <2>9, <2>10 DEF Keys!StoreHeld
  <2> QED
    BY <1>00, <1>3, <2>1, <2>2, <2>11 DEF Keys!SealInv
<1>7. ASSUME UNCHANGED g1, Keys!FilesFollow(id)', g7' = "configured" => Keys!IdsFit(id)',
             g7' \notin {"down", "configured"} => Keys!StanzaFits(id)',
             UNCHANGED g2, g7' = "sealed" => Keys!Torn', g5' = [e \in Entries |-> g5'[e]],
             g7' = "unsealed" => \A e \in Entries : g5'[e] = g6'.current
      PROVE  Keys!SealInv'
  <2>1. Keys!Old' = Keys!Old
    BY <1>7 DEF Keys!Old
  <2>2. \E i \in {Keys!seal_id(Keys!Old)', Keys!legacy_id} : Keys!StoreHeld(i)'
    BY <1>1, <1>7, <2>1 DEF Keys!StoreHeld
  <2> QED
    BY <1>00, <1>7, <2>2 DEF Keys!SealInv
<1>8. CASE Keys!ToCluster
  <2>1. g3' = g1 /\ UNCHANGED <<g1, g2, g4, g5, g6, g7>>
    BY <1>8 DEF Keys!ToCluster
  <2>2. Keys!FilesFollow(id)'
    BY <1>2, <2>1 DEF Keys!FilesFollow, Keys!Behind, Keys!AllOld, Keys!OldWrap, Keys!NewWrap, Keys!Old
  <2>3. g7' \notin {"down", "configured"} => Keys!StanzaFits(id)'
    BY <1>2, <2>1 DEF Keys!StanzaFits, Keys!AllOld, Keys!OldWrap, Keys!NewWrap, Keys!Old, Keys!Opens, Keys!Torn
  <2>4. g7' = "configured" => Keys!IdsFit(id)'
    BY <1>2, <2>1 DEF Keys!IdsFit, Keys!Behind, Keys!AllOld, Keys!OldWrap, Keys!NewWrap, Keys!Old
  <2> QED
    BY <1>00, <1>7, <2>1, <2>2, <2>3, <2>4 DEF Keys!SealInv, Keys!Torn
<1>9. CASE Keys!Project
  <2>1. /\ g4 # g3 /\ g4' = g3
        /\ UNCHANGED <<g1, g2, g3, g5, g6, g7>>
    BY <1>9 DEF Keys!Project
  <2>2. Keys!Behind(g4, id) /\ Keys!AllOld(id)
    BY <1>2, <2>1 DEF Keys!FilesFollow
  <2>3. Keys!FilesFollow(id)'
    BY <1>2, <2>1, <2>2 DEF Keys!FilesFollow, Keys!Behind, Keys!AllOld, Keys!OldWrap, Keys!NewWrap, Keys!Old
  <2>4. g7' \notin {"down", "configured"} => Keys!StanzaFits(id)'
    <3>1. g7 \notin {"down", "configured"} => g6.current = Keys!OldWrap(id)
      BY <1>2, <1>3, <2>2 DEF Keys!StanzaFits, Keys!Behind, Keys!Old
    <3> QED
      BY <2>1, <2>2, <3>1 DEF Keys!StanzaFits, Keys!AllOld, Keys!OldWrap, Keys!Old
  <2>5. g7' = "configured" => Keys!IdsFit(id)'
    <3>1. g4 # g1 \/ g1.previous = Keys!NONE
      BY <1>3, <2>2 DEF Keys!Behind, Keys!Old
    <3> QED
      BY <1>2, <2>1, <3>1 DEF Keys!IdsFit, Keys!Behind, Keys!AllOld, Keys!OldWrap, Keys!NewWrap, Keys!Old
  <2> QED
    BY <1>00, <1>7, <2>1, <2>3, <2>4, <2>5 DEF Keys!SealInv, Keys!Torn
<1>10. CASE Keys!StartServer
  <2>1. /\ g6' = Keys!stanza(g4) /\ g7' = "configured"
        /\ UNCHANGED <<g1, g2, g3, g4, g5>>
    BY <1>10 DEF Keys!StartServer
  <2>2. Keys!FilesFollow(id)'
    BY <1>2, <2>1 DEF Keys!FilesFollow, Keys!Behind, Keys!AllOld, Keys!OldWrap, Keys!NewWrap, Keys!Old
  <2>3. Keys!stanza(g4).from = g4 /\ \A i, k : Keys!Wrap(i, k).id = i
    BY DEF Keys!stanza, Keys!Wrap
  <2>4. \/ /\ Keys!Behind(g4, id) /\ Keys!AllOld(id)
           /\ Keys!stanza(g4).current.id = id /\ Keys!stanza(g4).previous.id # id
        \/ /\ g4 = g1 /\ g1.previous # Keys!NONE
           /\ Keys!stanza(g4).current.id = Keys!seal_id(g1.key)
           /\ Keys!stanza(g4).previous.id # Keys!no_id
           /\ \A e \in Entries : g5[e] = Keys!NewWrap \/ Keys!stanza(g4).previous.id = id
    <3>1. CASE Keys!Behind(g4, id)
      BY <1>2, <2>3, <3>1, StanzaOpens DEF Keys!FilesFollow, Keys!OldWrap
    <3>2. CASE ~Keys!Behind(g4, id)
      <4>1. g4 = g1 /\ g1.previous # Keys!NONE
        BY <1>2, <1>3, <3>2 DEF Keys!FilesFollow, Keys!Behind, Keys!Old
      <4> QED
        BY <1>2, <2>3, <4>1, StanzaOpens DEF Keys!FilesFollow, Keys!OldWrap, Keys!NewWrap
    <3> QED
      BY <3>1, <3>2
  <2>5. Keys!IdsFit(id)'
    <3>1. g6'.from = g4 /\ g6'.current = Keys!stanza(g4).current /\ g6'.previous = Keys!stanza(g4).previous
      BY <2>1, <2>3
    <3> QED
      BY <2>1, <2>4, <3>1 DEF Keys!IdsFit, Keys!Behind, Keys!AllOld, Keys!OldWrap, Keys!NewWrap, Keys!Old
  <2> QED
    BY <1>00, <1>7, <2>1, <2>2, <2>5 DEF Keys!SealInv
<1>13. CASE Keys!ReadKeys
  <2>1. /\ g7 = "configured" /\ g7' = "starting"
        /\ g6'.current = Keys!Wrap(g6.current.id, g4.key)
        /\ g6'.previous = Keys!Wrap(g6.previous.id,
                                    IF g6.previous.id = Keys!no_id THEN Keys!NONE ELSE g4.previous)
        /\ g6'.from = g6.from
        /\ UNCHANGED <<g1, g2, g3, g4, g5>>
    BY <1>13 DEF Keys!ReadKeys
  <2>2. Keys!FilesFollow(id)'
    BY <1>2, <2>1 DEF Keys!FilesFollow, Keys!Behind, Keys!AllOld, Keys!OldWrap, Keys!NewWrap, Keys!Old
  <2>3. Keys!IdsFit(id)
    BY <1>2, <2>1
  <2>4. Keys!OldWrap(id)' = Keys!OldWrap(id) /\ Keys!NewWrap' = Keys!NewWrap /\ Keys!AllOld(id)' = Keys!AllOld(id)
    BY <2>1 DEF Keys!OldWrap, Keys!NewWrap, Keys!Old, Keys!AllOld
  <2>5. ASSUME Keys!Behind(g6.from, id), Keys!AllOld(id), g6.current.id = id, g6.previous.id # id
        PROVE  Keys!StanzaFits(id)'
    <3>1. CASE Keys!Behind(g4, id)
      <4>1. g6'.current = Keys!OldWrap(id)
        BY <2>1, <2>5, <3>1 DEF Keys!Behind, Keys!OldWrap
      <4> QED
        BY <2>4, <2>5, <4>1 DEF Keys!StanzaFits
    <3>2. CASE ~Keys!Behind(g4, id)
      <4>1. g4 = g1 /\ g1.previous # Keys!NONE
        BY <1>2, <1>3, <3>2 DEF Keys!FilesFollow, Keys!Behind, Keys!Old
      <4>2. g1.key # Keys!Old /\ g6.from.key = Keys!Old
        BY <1>3, <2>5, <4>1 DEF Keys!Behind, Keys!Old
      <4>3. g6'.current.key = g1.key /\ g6'.previous.id = g6.previous.id
        BY <2>1, <4>1 DEF Keys!Wrap
      <4>4. Keys!OldWrap(id).key = Keys!Old /\ Keys!OldWrap(id).id = id
        BY DEF Keys!OldWrap, Keys!Wrap
      <4>5. Keys!Torn' /\ g6'.current # Keys!OldWrap(id) /\ g6'.previous # Keys!OldWrap(id)
        BY <2>1, <2>5, <4>2, <4>3, <4>4 DEF Keys!Torn
      <4> QED
        BY <2>1, <2>4, <2>5, <4>1, <4>5 DEF Keys!StanzaFits, Keys!Opens
    <3> QED
      BY <3>1, <3>2
  <2>6. ASSUME g6.from = g1, g4 = g1, g1.previous # Keys!NONE,
               g6.current.id = Keys!seal_id(g1.key), g6.previous.id # Keys!no_id,
               \A e \in Entries : g5[e] = Keys!NewWrap \/ g6.previous.id = id
        PROVE  Keys!StanzaFits(id)'
    <3>1. g6'.current = Keys!NewWrap
      BY <2>1, <2>6 DEF Keys!NewWrap
    <3>2. g6.previous.id = id => g6'.previous = Keys!OldWrap(id)
      BY <2>1, <2>6 DEF Keys!OldWrap, Keys!Old
    <3>3. \A e \in Entries : g5[e] \in {g6'.current, g6'.previous}
      BY <1>2, <2>6, <3>1, <3>2 DEF Keys!FilesFollow
    <3> QED
      BY <2>1, <2>4, <2>6, <3>1, <3>3 DEF Keys!StanzaFits, Keys!Opens
  <2>7. Keys!StanzaFits(id)'
    BY <2>3, <2>5, <2>6 DEF Keys!IdsFit
  <2> QED
    BY <1>00, <1>7, <2>1, <2>2, <2>7 DEF Keys!SealInv
<1>11. CASE Keys!Unwrap
  <2>1. g7 = "starting" /\ UNCHANGED <<g1, g2, g3, g4, g6>>
    BY <1>11 DEF Keys!Unwrap
  <2>5. Keys!StanzaFits(id)
    BY <1>2, <2>1
  <2>6. CASE ~\A e \in Entries : Keys!Opens(g6, g5[e])
    <3>1. g5' = g5 /\ g7' = "sealed"
      BY <1>11, <2>6 DEF Keys!Unwrap
    <3>2. Keys!Torn /\ Keys!Torn'
      BY <2>1, <2>5, <2>6 DEF Keys!StanzaFits, Keys!AllOld, Keys!Opens, Keys!Torn
    <3>3. Keys!FilesFollow(id)' /\ Keys!StanzaFits(id)'
      BY <1>2, <2>1, <2>5, <3>1 DEF Keys!FilesFollow, Keys!StanzaFits, Keys!Behind, Keys!AllOld, Keys!OldWrap,
         Keys!NewWrap, Keys!Old, Keys!Opens, Keys!Torn
    <3> QED
      BY <1>00, <1>7, <2>1, <3>1, <3>2, <3>3 DEF Keys!SealInv
  <2>2. ASSUME \A e \in Entries : Keys!Opens(g6, g5[e])
        PROVE  /\ Keys!StanzaFits(id) /\ \A e \in Entries : Keys!Opens(g6, g5[e])
               /\ \/ g6.current = Keys!OldWrap(id) /\ Keys!AllOld(id)
                  \/ g4 = g1 /\ g1.previous # Keys!NONE /\ g6.current = Keys!NewWrap
    BY <2>2, <2>5, SealAssumption DEF Keys!StanzaFits, Keys!AllOld
  <2>3. CASE (\A e \in Entries : Keys!Opens(g6, g5[e])) /\ \A e \in Entries : g5[e] = g6.current
    <3>1. g5' = g5 /\ g7' = "unsealed"
      BY <1>11, <2>2, <2>3 DEF Keys!Unwrap
    <3>2. Keys!FilesFollow(id)' /\ Keys!StanzaFits(id)'
      BY <1>2, <2>1, <2>2, <2>3, <3>1 DEF Keys!FilesFollow, Keys!StanzaFits, Keys!Behind, Keys!AllOld, Keys!OldWrap,
         Keys!NewWrap, Keys!Old, Keys!Opens
    <3> QED
      BY <1>00, <1>7, <2>1, <2>3, <3>1, <3>2 DEF Keys!SealInv
  <2>4. CASE (\A e \in Entries : Keys!Opens(g6, g5[e])) /\ ~\A e \in Entries : g5[e] = g6.current
    <3>1. g7' = "starting" /\ \E e \in Entries : g5' = [g5 EXCEPT ![e] = g6.current]
      BY <1>11, <2>2, <2>4 DEF Keys!Unwrap
    <3>2. PICK x \in Entries : g5' = [g5 EXCEPT ![x] = g6.current]
      BY <3>1
    <3>3. /\ g5' = [e \in Entries |-> g5'[e]]
          /\ \A e \in Entries : g5'[e] = IF e = x THEN g6.current ELSE g5[e]
      BY <1>00, <3>2 DEF Keys!SealInv
    <3>4. /\ g4 = g1 /\ g1.previous # Keys!NONE /\ g6.current = Keys!NewWrap
          /\ ~Keys!Behind(g4, id)
      BY <1>3, <2>2, <2>4 DEF Keys!AllOld, Keys!Behind, Keys!Old
    <3>5. Keys!FilesFollow(id)'
      <4>1. ~Keys!Behind(g4, id)' /\ Keys!NewWrap' = Keys!NewWrap /\ Keys!OldWrap(id)' = Keys!OldWrap(id)
        BY <2>1, <3>4 DEF Keys!Behind, Keys!NewWrap, Keys!OldWrap, Keys!Old
      <4>2. \A e \in Entries : g5'[e] \in {Keys!OldWrap(id), Keys!NewWrap}
        BY <1>2, <3>3, <3>4 DEF Keys!FilesFollow
      <4>3. g4' = g1' /\ g3' = g1'
        BY <1>2, <2>1, <3>4 DEF Keys!FilesFollow
      <4> QED
        BY <4>1, <4>2, <4>3 DEF Keys!FilesFollow
    <3>6. Keys!StanzaFits(id)'
      BY <2>1, <2>4, <3>3, <3>4 DEF Keys!StanzaFits, Keys!Opens, Keys!NewWrap
    <3> QED
      BY <1>00, <1>7, <2>1, <3>1, <3>3, <3>5, <3>6 DEF Keys!SealInv
  <2> QED
    BY <2>3, <2>4, <2>6
<1>12. CASE Keys!ServerStops
  <2>1. g7' = "down" /\ UNCHANGED <<g1, g2, g3, g4, g5, g6>>
    BY <1>12 DEF Keys!ServerStops
  <2>2. Keys!FilesFollow(id)'
    BY <1>2, <2>1 DEF Keys!FilesFollow, Keys!Behind, Keys!AllOld, Keys!OldWrap, Keys!NewWrap, Keys!Old
  <2> QED
    BY <1>00, <1>7, <2>1, <2>2 DEF Keys!SealInv
<1> QED
  BY <1>5, <1>6, <1>8, <1>9, <1>10, <1>11, <1>12, <1>13 DEF Keys!SealNext

\* The invariant of the keyring gives its promise.
LEMMA SealHolds == ASSUME Keys!SealInv PROVE Keys!StoreOpens
<1>0. SUFFICES ASSUME g8 = {}
               PROVE  /\ g7 = "sealed" => Keys!Torn
                      /\ \A f \in {g1, g3, g4}, e \in Entries : Keys!Opens(Keys!stanza(f), g5[e])
  BY DEF Keys!StoreOpens
<1>1. PICK id \in {Keys!seal_id(Keys!Old), Keys!legacy_id} : Keys!FilesFollow(id)
  BY <1>0 DEF Keys!SealInv, Keys!StoreHeld
<1>3. g1.key # g1.previous /\ g1.key # Keys!NONE
  BY <1>0, SealAssumption DEF Keys!SealInv
<1>2. ASSUME NEW f \in {g1, g3, g4}
      PROVE  \A e \in Entries : Keys!Opens(Keys!stanza(f), g5[e])
  <2>1. CASE Keys!Behind(f, id) /\ Keys!AllOld(id)
    BY <2>1, StanzaOpens DEF Keys!Opens, Keys!AllOld
  <2>2. CASE ~(Keys!Behind(f, id) /\ Keys!AllOld(id))
    <3>1. f = g1 /\ g1.previous # Keys!NONE
      BY <1>1, <1>2, <1>3, <2>2 DEF Keys!FilesFollow, Keys!Behind, Keys!Old
    <3> QED
      BY <1>1, <3>1, StanzaOpens DEF Keys!FilesFollow, Keys!Opens
  <2> QED
    BY <2>1, <2>2
<1> QED
  BY <1>0, <1>2 DEF Keys!SealInv

-----------------------------------------------------------------------------
(* PurgeBackup                                                             *)

(* The slots: g1 tenant, g2 deleting, g3 uids, g4 backups, g5 pc,          *)
(* g6 TENANT_UID, g7 rows, g8 todo, g9 reqs, g10 purges, g11 reused,       *)
(* g12 misread.                                                            *)

\* Cardinality and finiteness mean the same in the instance.
LEMMA PurgeCount == ASSUME NEW S PROVE Purge!Cardinality(S) = Cardinality(S)
BY Zenon DEF Cardinality, Purge!Cardinality
LEMMA PurgeFinite == ASSUME NEW S PROVE Purge!IsFiniteSet(S) <=> IsFiniteSet(S)
BY Zenon DEF IsFiniteSet, Purge!IsFiniteSet

\* No purge has happened when nothing was deleted.
LEMMA PurgeNothing == Purge!Cardinality({}) = 0
BY PurgeCount, FS_EmptySet

\* The script starts with nothing selected.
LEMMA PurgeStarts == ASSUME Purge!PurgeInit PROVE Purge!PurgeInv
<1> USE DEF Purge!PurgeInit, Purge!NONE, Purge!Last, Purge!FINAL
<1>1. Purge!IsFiniteSet(g4)
  <2>1. g4 = {} \/ g4 = {Purge!Last(Purge!NONE, 1)}
    OBVIOUS
  <2> HIDE DEF Purge!Last, Purge!PurgeInit
  <2> QED
    BY <2>1, PurgeFinite, FS_EmptySet, FS_Singleton
<1>2. Purge!Cardinality({b.uid : b \in g7}) <= 1
  <2>1. {b.uid : b \in g7} = {}
    OBVIOUS
  <2> QED
    BY <2>1, PurgeCount, FS_EmptySet
<1>3. \A b \in g4 : b.type = Purge!FINAL /\ b.uid \in g3 \cup {Purge!NONE}
  OBVIOUS
<1> QED
  BY <1>1, <1>2, <1>3 DEF Purge!PurgeInv

\* Every step of the script and of the tenants keeps PurgeInv.
LEMMA PurgeStep == ASSUME Purge!PurgeInv, Purge!PurgeNext PROVE Purge!PurgeInv'
<1> USE PurgeAssumption DEF Purge!PurgeInv, Purge!Past, Purge!NONE, Purge!FINAL
<1>1. CASE Purge!CreateTenant
  <2>1. PICK u \in Uids \ g3 : g1' = u /\ g3' = g3 \cup {u}
    BY <1>1 DEF Purge!CreateTenant
  <2>2. /\ UNCHANGED <<g2, g4, g5, g6, g7, g8, g9, g10, g12>> /\ g1 = 0
        /\ g11 \subseteq g11' /\ g11' \subseteq g11 \cup {g1'}
        /\ g5 = "select" /\ g6 = 0 => g1' \in g11'
    BY <1>1, <2>1 DEF Purge!CreateTenant, Purge!script
  <2> QED
    BY <2>1, <2>2
<1>2. CASE Purge!DeleteTenant
  <2>1. g2' = TRUE /\ g1 # 0 /\ UNCHANGED <<g1, g3, g4, g5, g6, g7, g8, g9, g10, g11, g12>>
    BY <1>2 DEF Purge!DeleteTenant, Purge!script
  <2> QED
    BY <2>1
<1>3. CASE Purge!TakeBackup
  <2>1. PICK n \in Attempts : g4' = g4 \cup {Purge!Last(g1, n)}
    BY <1>3 DEF Purge!TakeBackup
  <2>2. g2 = TRUE /\ UNCHANGED <<g1, g2, g3, g5, g6, g7, g8, g9, g10, g11, g12>>
    BY <1>3 DEF Purge!TakeBackup, Purge!script, Purge!world
  <2>3. Purge!IsFiniteSet(g4')
    BY <2>1, PurgeFinite, FS_AddElement
  <2>4. g1 # 0 /\ g1 \in g3 /\ Purge!Last(g1, n).type = "final" /\ Purge!Last(g1, n).uid = g1
    BY <2>2 DEF Purge!Last
  <2> QED
    BY <2>1, <2>2, <2>3, <2>4
<1>4. CASE Purge!TenantGone
  <2>1. g1' = 0 /\ g2' = FALSE /\ UNCHANGED <<g3, g4, g5, g6, g7, g8, g9, g10, g11, g12>>
    BY <1>4 DEF Purge!TenantGone, Purge!script
  <2> QED
    BY <2>1
<1>5. ASSUME g4' \subseteq g4, UNCHANGED <<g1, g2, g3, g5, g6, g7, g8, g10, g11, g12>>, g9' \subseteq g9
      PROVE  Purge!PurgeInv'
  <2>1. Purge!IsFiniteSet(g4')
    BY <1>5, PurgeFinite, FS_Subset
  <2> QED
    BY <1>5, <2>1
<1>6. CASE Purge!ExpireBackup \/ Purge!ServeRequest
  BY <1>5, <1>6 DEF Purge!ExpireBackup, Purge!ServeRequest, Purge!script, Purge!world
<1>7. CASE Purge!StartPurge
  <2>1. /\ g6' \in {0} \cup g3 /\ g5' = "exists" /\ g7' = {} /\ g8' = {}
        /\ UNCHANGED <<g1, g2, g3, g4, g9, g11>>
    BY <1>7 DEF Purge!StartPurge, Purge!world
  <2>2. Purge!Cardinality({b.uid : b \in g7'}) <= 1
    <3>1. {b.uid : b \in g7'} = {}
      BY <2>1
    <3>2. Purge!Cardinality({b.uid : b \in g7'}) = 0
      BY <3>1, PurgeNothing, Zenon
    <3> QED
      BY <3>2
  <2> QED
    BY <2>1, <2>2
<1>8. ASSUME Purge!Ends("failed"), UNCHANGED <<g1, g2, g3, g4, g11>>
      PROVE  Purge!PurgeInv'
  BY <1>8 DEF Purge!Ends
<1>9. CASE Purge!TestTenant
  <2>1. UNCHANGED <<g1, g2, g3, g4, g11>>
    BY <1>9 DEF Purge!TestTenant, Purge!world
  <2>2. CASE g1 = 0 /\ Purge!Ends("select")
    BY <2>1, <2>2 DEF Purge!Ends
  <2> QED
    BY <1>8, <1>9, <2>1, <2>2 DEF Purge!TestTenant
<1>10. CASE Purge!SelectBackups
  <2>1. UNCHANGED <<g1, g2, g3, g4, g11>> /\ g5 = "select"
    BY <1>10 DEF Purge!SelectBackups, Purge!world
  <2>2. ASSUME ~Purge!refused(Purge!Selected), g5' = "request", g7' = Purge!Selected,
               g8' = Purge!Selected, UNCHANGED <<g6, g9, g10, g12>>
        PROVE  Purge!PurgeInv'
    <3>1. \A b \in g7' : b \in g4 /\ b.uid # 0 /\ (g6 = 0 \/ b.uid = g6)
      BY <2>2 DEF Purge!Selected, Purge!refused, Purge!type_of
    <3>2. \A b \in g4 : g6 = 0 \/ b.uid = g6 => b \in g7'
      BY <2>2 DEF Purge!Selected
    <3>3. Purge!Cardinality({b.uid : b \in g7'}) <= 1
      <4> DEFINE sel == g7'
                 uid == [b \in sel |-> b.uid]
      <4>1. IsFiniteSet(sel)
        BY <3>1, PurgeFinite, FS_Subset
      <4>2. {b.uid : b \in g7'} = {uid[b] : b \in sel}
        OBVIOUS
      <4> HIDE DEF uid
      <4>3. IsFiniteSet({uid[b] : b \in sel})
        BY <4>1, FiniteImage
      <4>4. Cardinality({b.uid : b \in g7'}) \in Nat
        BY <4>2, <4>3, FS_CardinalityType
      <4>5. ~(Purge!Cardinality({b.uid : b \in g7'}) > 1)
        BY <2>2 DEF Purge!refused
      <4> QED
        BY <4>4, <4>5, PurgeCount
    <3> QED
      BY <2>1, <2>2, <3>1, <3>2, <3>3
  <2> QED
    BY <1>8, <1>10, <2>1, <2>2 DEF Purge!SelectBackups
<1>11. CASE Purge!RequestDelete
  <2>1. UNCHANGED <<g1, g2, g3, g4, g11>>
    BY <1>11 DEF Purge!RequestDelete, Purge!world
  <2>2. ASSUME NEW b \in g8, g9' = g9 \cup {b}, UNCHANGED <<g6, g7, g10, g12>>,
               g8' = IF g8 = {b} THEN g7 ELSE g8 \ {b},
               g5' = IF g8 = {b} THEN "wait" ELSE "request"
        PROVE  Purge!PurgeInv'
    BY <2>1, <2>2
  <2> QED
    BY <1>8, <1>11, <2>1, <2>2 DEF Purge!RequestDelete
<1>12. CASE Purge!WaitGone
  <2>1. UNCHANGED <<g1, g2, g3, g4, g11>> /\ g5 = "wait"
    BY <1>12 DEF Purge!WaitGone, Purge!world
  <2>2. ASSUME NEW b \in g8, Purge!gone(b), UNCHANGED <<g6, g7, g10, g9>>
        PROVE  Purge!PurgeInv'
    <3>1. g12' = g12 \cup ({b} \cap g4) /\ g8' = g8 \ {b} /\ g5' = IF g8 = {b} THEN "purged" ELSE "wait"
      BY <2>2 DEF Purge!gone
    <3> QED
      BY <2>1, <2>2, <3>1
  <2> QED
    BY <1>8, <1>12, <2>1, <2>2 DEF Purge!WaitGone
<1> QED
  BY <1>1, <1>2, <1>3, <1>4, <1>6, <1>7, <1>9, <1>10, <1>11, <1>12 DEF Purge!PurgeNext

\* The invariant of the purge gives its two promises.
LEMMA PurgeHolds == ASSUME Purge!PurgeInv PROVE Purge!TenantKept /\ Purge!PurgeComplete
BY DEF Purge!PurgeInv, Purge!Past, Purge!TenantKept, Purge!PurgeComplete

-----------------------------------------------------------------------------
(* The tools                                                               *)

(* The invariant of the tool that runs.                                    *)
ToolsInv ==
    /\ gate = "hubble-drops" => DropsSafe
    /\ gate = "webhooks" => HooksSafe
    /\ gate = "rate-limits" => Rates!RateInv(LimitedEdges)
    /\ gate = "pg-logins" => Leases!LeaseInv
    /\ gate = "keyring" => Keys!SealInv
    /\ gate = "purge" => Purge!PurgeInv

\* A step that changes no slot keeps each invariant.
LEMMA DropsStutter == ASSUME DropsSafe, UNCHANGED vars PROVE DropsSafe'
BY Zenon DEF vars, DropsSafe, Hubble!DropsInv, Hubble!OnWire, Hubble!Recorded, Hubble!Connected,
   Hubble!Shows, Hubble!RefusalsReported, Hubble!LateRepliesPass, Hubble!ForwardedNotRefused,
   Hubble!ExpectedDropRefused

LEMMA HooksStutter == ASSUME HooksSafe, UNCHANGED vars PROVE HooksSafe'
BY DEF vars, HooksSafe, Hooks!HookInv, Hooks!GatedAdmitted, Hooks!GatedSeen, Hooks!GateWaitsForPods,
   Hooks!Asked

LEMMA RateStutter ==
  ASSUME Rates!RateInv(LimitedEdges), UNCHANGED vars
  PROVE  Rates!RateInv(LimitedEdges)'
BY Zenon DEF vars, Rates!RateInv, Rates!limiter, Rates!fuse, Rates!per_fill, Rates!Fills, Rates!Quotas,
   Rates!Enforces, Rates!Spends

LEMMA LeaseStutter == ASSUME Leases!LeaseInv, UNCHANGED vars PROVE Leases!LeaseInv'
BY DEF vars, Leases!LeaseInv, Leases!TokenKept, Leases!SecretKept, Leases!LeaseKept, Leases!Live,
   Leases!Missed, Leases!Ahead

LEMMA SealStutter == ASSUME Keys!SealInv, UNCHANGED vars PROVE Keys!SealInv'
BY DEF vars, Keys!SealInv, Keys!StoreHeld, Keys!FilesFollow, Keys!StanzaFits, Keys!IdsFit, Keys!Torn, Keys!Behind, Keys!AllOld,
   Keys!OldWrap, Keys!NewWrap, Keys!Old, Keys!Opens

LEMMA PurgeStutter == ASSUME Purge!PurgeInv, UNCHANGED vars PROVE Purge!PurgeInv'
BY DEF vars, Purge!PurgeInv, Purge!Past

\* The invariant of the tool that runs holds in its first state.
LEMMA ToolsStart == ToolsInit => ToolsInv
BY Zenon, GateStarts, DropsStart, HooksStart, RateStarts, LeaseStarts, SealStarts, PurgeStarts DEF ToolsInv

\* Every step of the tool that runs keeps its invariant.
LEMMA ToolsStep == ToolsInv /\ [ToolsNext]_vars => ToolsInv'
<1> SUFFICES ASSUME ToolsInv, [ToolsNext]_vars PROVE ToolsInv'
  OBVIOUS
<1>1. /\ gate' = gate
      /\ gate = "hubble-drops" => Hubble!Next \/ UNCHANGED vars
      /\ gate = "webhooks" => Hooks!HookNext \/ UNCHANGED vars
      /\ gate = "rate-limits" => Rates!RateNext \/ UNCHANGED vars
      /\ gate = "pg-logins" => Leases!PgNext \/ UNCHANGED vars
      /\ gate = "keyring" => Keys!SealNext \/ UNCHANGED vars
      /\ gate = "purge" => Purge!PurgeNext \/ UNCHANGED vars
  BY GateKept, Zenon
<1>2. gate = "hubble-drops" => DropsSafe'
  BY <1>1, DropsStep, DropsStutter, Zenon DEF ToolsInv
<1>3. gate = "webhooks" => HooksSafe'
  BY <1>1, HooksStep, HooksStutter, Zenon DEF ToolsInv
<1>4. gate = "pg-logins" => Leases!LeaseInv'
  BY <1>1, LeaseStep, LeaseStutter, Zenon DEF ToolsInv
<1>5. gate = "keyring" => Keys!SealInv'
  BY <1>1, SealStep, SealStutter, Zenon DEF ToolsInv
<1>6. gate = "purge" => Purge!PurgeInv'
  BY <1>1, PurgeStep, PurgeStutter, Zenon DEF ToolsInv
<1>7. gate = "rate-limits" => Rates!RateInv(LimitedEdges)'
  BY <1>1, RateStep, RateStutter, Zenon DEF ToolsInv
<1> QED
  BY <1>1, <1>2, <1>3, <1>4, <1>5, <1>6, <1>7, Zenon DEF ToolsInv

\* The invariants of the tools hold throughout.
LEMMA ToolsAlways == ToolsSpec => []ToolsInv
BY ToolsStart, ToolsStep, PTL DEF ToolsSpec

(* check-hubble-drops.py: whatever pods run, dial, end and take the        *)
(* address of another, under whatever policies, a verdict on the flows is  *)
(* right about the dials that a policy refused, in each of the three       *)
(* modes.                                                                  *)
THEOREM DropsAreJudged == ToolsSpec => []DropsJudged
<1>1. ToolsInv => DropsJudged
  BY Zenon DEF ToolsInv, DropsSafe, DropsJudged
<1> QED
  BY <1>1, ToolsAlways, PTL

(* check-webhooks.py and the Job gibson-webhook-gate: for every set of     *)
(* renders, the objects behind the gate of a passed chart are admitted and *)
(* seen by their webhooks, however late the servers of them come up and    *)
(* whenever they go away again: an object is refused only by a webhook     *)
(* whose server has gone since it answered the gate.                       *)
THEOREM GateAlwaysHolds == ToolsSpec => []GateHolds
<1>1. ToolsInv => GateHolds
  BY Zenon DEF ToolsInv, HooksSafe, GateHolds
<1> QED
  BY <1>1, ToolsAlways, PTL

(* check-edge-rate-limits.py: on every edge that it passes, for any        *)
(* buckets, quotas and numbers of clients, a route admits no more than its *)
(* fuse was given, and no client spends the tokens that the fuse keeps for *)
(* another. For the quota and its keys the same, and that a client that    *)
(* keeps asking reaches it within the window, hold where the guard makes   *)
(* sure of the address of the client (PeerJudged).                         *)
THEOREM LimitsAlwaysHold == ToolsSpec => []LimitsHold
<1>1. ToolsInv => LimitsHold
  BY Zenon, RateHolds DEF ToolsInv, LimitsHold
<1> QED
  BY <1>1, ToolsAlways, PTL

(* The login tokens of openbao-auto-init, the rotation of the seal key     *)
(* (keyring.sh) and the purge of backups (purge-tenant-backup.sh), for any *)
(* periods that LeaseAssumption admits (it bounds the passes that the      *)
(* sidecar misses), any number of keys and entries, and any number of      *)
(* tenants, attempts and purges. The properties except a key retired       *)
(* before the cluster has left it and a start torn by a refresh of the     *)
(* volume (StoreOpens), a name used again in a purge without TENANT_UID    *)
(* (TenantKept, PurgeComplete), and a failed read in step 4                *)
(* (PurgeComplete).                                                        *)
THEOREM OperationsAlwaysHold == ToolsSpec => []OperationsHold
<1>1. ToolsInv => OperationsHold
  BY Zenon, LeaseHolds, SealHolds, PurgeHolds DEF ToolsInv, OperationsHold
<1> QED
  BY <1>1, ToolsAlways, PTL

-----------------------------------------------------------------------------
(* SyncWaves: no hook Job starts before its policy                         *)

(* Argo is at a wave when all that is before it is healthy, and a verdict  *)
(* is the one of check-netpol-before-hooks.py.                             *)
WaveInv ==
    /\ waveNow \in Int /\ \A d \in chart : d.wave \in Int
    /\ \A d \in chart : d.wave < waveNow => d \in healthy
    /\ waveVerdict = "pass" => Waves!check(chart)
    /\ waveVerdict \in {"none", "pass"} /\ Waves!Placed(chart) => ~denied

\* Every step of the guards and of the sync keeps WaveInv.
LEMMA WaveStep == ASSUME WaveInv, Waves!WaveNext PROVE WaveInv'
<1> USE DEF WaveInv
<1>1. CASE Waves!WaveGuards
  BY <1>1 DEF Waves!WaveGuards
<1>2. CASE Waves!EngineOn \/ Waves!AskTooEarly
  BY <1>2 DEF Waves!EngineOn, Waves!AskTooEarly, Waves!Syncing
<1>3. CASE Waves!BecomeHealthy
  <2>1. PICK d \in Waves!InWave \ healthy :
           /\ Waves!Syncing /\ healthy' = healthy \cup {d}
           /\ denied' = (denied \/ Waves!Denied(d))
    BY <1>3 DEF Waves!BecomeHealthy
  <2>2. UNCHANGED <<chart, waveVerdict, waveNow>> /\ waveVerdict # "none"
    BY <1>3 DEF Waves!BecomeHealthy, Waves!Syncing
  <2>3. waveVerdict = "pass" /\ Waves!Placed(chart) => ~Waves!Denied(d)
    BY <2>1 DEF Waves!Denied, Waves!InWave, Waves!check, Waves!Placed, Waves!hook_jobs, Waves!Kind
  <2> QED
    BY <2>1, <2>2, <2>3
<1>4. CASE Waves!NextWave
  <2>1. UNCHANGED <<chart, waveVerdict, healthy, denied>>
    BY <1>4 DEF Waves!NextWave
  <2>2. waveNow' \in Waves!FirstOf({w \in Waves!Waves(chart) : w > waveNow})
    BY <1>4 DEF Waves!NextWave
  <2>3. PICK w \in Int : waveNow' = w
    BY <2>2 DEF Waves!FirstOf, Waves!Waves
  <2>4. ASSUME NEW d \in chart, d.wave < w PROVE d \in healthy
    <3>0. waveNow \in Int /\ d.wave \in Int
      OBVIOUS
    <3>1. d.wave <= waveNow
      <4>1. ASSUME d.wave > waveNow PROVE d.wave \in {v \in Waves!Waves(chart) : v > waveNow}
        BY <4>1 DEF Waves!Waves
      <4>2. ASSUME d.wave > waveNow PROVE w <= d.wave
        BY <4>1, <4>2, <2>2, <2>3 DEF Waves!FirstOf
      <4> QED
        BY <3>0, <4>2, <2>4
    <3>2. Waves!InWave \subseteq healthy
      BY <1>4 DEF Waves!NextWave, Waves!AllHealthy
    <3> QED
      BY <3>1, <3>2 DEF Waves!InWave
  <2> QED
    BY <2>1, <2>3, <2>4
<1> QED
  BY <1>1, <1>2, <1>3, <1>4 DEF Waves!WaveNext

-----------------------------------------------------------------------------
(* TokenWriters: the first PAT                                             *)

(* The database has the last instance or none, the file its PAT, and       *)
(* neither OpenBao nor the Secret is ahead of it.  What was stored is in   *)
(* OpenBao, and before the first lost pod a run of the named container     *)
(* still has what OpenBao lacks in its file.                               *)
Named == "zitadel-setup" \in patChart.setup_has
Covered == crashes = 0 /\ Named /\ database # 0 => entry = database \/ (job = "running" /\ file = database)
PatTypes ==
    /\ made \in Nat /\ database \in {0, made} /\ crashes \in Nat
    /\ entry \in Nat /\ entry <= made /\ secret \in Nat /\ secret <= entry
    /\ file \in {0, made}
PatHeld ==
    /\ PatTypes
    /\ stored \in BOOLEAN /\ (stored = TRUE => entry = database /\ database # 0)
    /\ file # 0 => database = made /\ job = "running"
    /\ job # "complete" => Covered
    /\ job = "complete" => /\ database # 0 /\ (entry = 0 => log = "ERROR")
                           /\ entry = database \/ log = "ERROR" \/ crashes # 0 \/ ~Named
PatInv == Pat!check(patChart) => PatHeld

(* A chart that the guard passes has no second writer, and its sidecar can *)
(* look into OpenBao; the named setup container mints.                     *)
LEMMA PatPassed ==
  ASSUME Pat!check(patChart)
  PROVE  /\ {"present", "trap", "metadata"} \subseteq patChart.store_has
         /\ Pat!bao_findings(patChart) = {}
         /\ patChart.config_blocks = {} /\ patChart.kubectl = {} /\ ~patChart.escrow
         /\ Named => {"--steps", "/login-client"} \subseteq patChart.setup_has
         /\ "LoginClient" \in patChart.steps_blocks
<1>1. "present" \in patChart.store_has
  BY DEF Pat!check, Pat!store_findings
<1>2. Pat!STORE_HAS \ {"same user"} \subseteq patChart.store_has
  BY <1>1 DEF Pat!check, Pat!store_findings
<1>3. {"present", "trap", "metadata"} \subseteq patChart.store_has
  BY <1>2 DEF Pat!STORE_HAS
<1>4. patChart.config_blocks = {} /\ patChart.kubectl = {} /\ ~patChart.escrow
  BY DEF Pat!check, Pat!writer_findings
<1>5. Named => {"--steps", "/login-client"} \subseteq patChart.setup_has
  BY DEF Named, Pat!check, Pat!setup_findings
<1>6. "LoginClient" \in patChart.steps_blocks
  BY DEF Pat!check, Pat!steps_findings
<1> QED
  BY <1>3, <1>4, <1>5, <1>6 DEF Pat!check

\* Every step of the setup Job, the store and the login keeps PatInv.
LEMMA PatStep == ASSUME PatInv, Pat!PatNext PROVE PatInv'
<1>1. patChart' = patChart
  BY DEF Pat!PatNext, Pat!StartSetup, Pat!Mint, Pat!SidecarLoop, Pat!Finish, Pat!Crash,
         Pat!Refresh, Pat!SecondWriter, Pat!Advance, Pat!LoginStarts
<1> SUFFICES ASSUME Pat!check(patChart), PatHeld PROVE PatHeld'
  BY <1>1 DEF PatInv
<1>p. /\ {"present", "trap", "metadata"} \subseteq patChart.store_has
      /\ Pat!bao_findings(patChart) = {}
      /\ patChart.config_blocks = {} /\ patChart.kubectl = {} /\ ~patChart.escrow
      /\ Named => {"--steps", "/login-client"} \subseteq patChart.setup_has
      /\ "LoginClient" \in patChart.steps_blocks
  BY PatPassed
<1>n. Named' <=> Named
  BY <1>1 DEF Named
<1> USE DEF PatHeld, PatTypes, Covered, Pat!None, Pat!Has
<1>2. CASE Pat!StartSetup
  BY <1>2, <1>n DEF Pat!StartSetup
<1>3. CASE Pat!Mint
  <2>0. job = "running" /\ database = 0 /\ database' = made + 1 /\ made' = made + 1
    BY <1>3, Zenon DEF Pat!Mint
  <2>1. file' = IF {"--steps", "/login-client"} \subseteq patChart.setup_has /\ "LoginClient" \in patChart.steps_blocks
                THEN made + 1 ELSE 0
    BY <1>3, Zenon DEF Pat!Mint
  <2>2. UNCHANGED <<entry, secret, stored, job, log, crashes>>
    BY <1>3 DEF Pat!Mint
  <2>3. file' \in {0, made + 1} /\ (Named => file' = made + 1)
    BY <1>p, <2>1
  <2>4. stored = FALSE
    BY <2>0
  <2> QED
    BY <1>n, <2>0, <2>2, <2>3, <2>4
<1>4. CASE Pat!SidecarLoop
  <2>1. UNCHANGED <<made, database, file, job, log, secret, crashes>> /\ job = "running" /\ file # 0
    BY <1>4 DEF Pat!SidecarLoop
  <2>2. \/ entry' = file /\ stored' \in BOOLEAN
        \/ UNCHANGED <<entry, stored>>
    BY <1>4, Zenon DEF Pat!SidecarLoop, Pat!Store
  <2> QED
    BY <1>n, <2>1, <2>2
<1>5. CASE Pat!Finish
  <2>1. /\ UNCHANGED <<made, database, secret, crashes>> /\ job = "running" /\ database # 0
        /\ job' = "complete" /\ file' = 0
    BY <1>5 DEF Pat!Finish
  <2>2. CASE stored = TRUE
    <3>1. UNCHANGED <<entry, stored>>
      BY <1>5, <1>p, <2>2 DEF Pat!Finish
    <3> QED
      BY <1>n, <2>1, <2>2, <3>1
  <2>3. CASE stored = FALSE /\ file # 0
    <3>1. Pat!Store /\ log' = IF stored' THEN "STORED" ELSE "ERROR"
      BY <1>5, <1>p, <2>3 DEF Pat!Finish
    <3>2. \/ entry' = file /\ stored' \in BOOLEAN
          \/ UNCHANGED <<entry, stored>> /\ log' = "ERROR"
      BY <2>3, <3>1 DEF Pat!Store
    <3> QED
      BY <1>n, <2>1, <2>3, <3>2
  <2>4. CASE stored = FALSE /\ file = 0
    <3>1. UNCHANGED <<entry, stored>> /\ (log' = "ERROR" \/ entry # 0)
      BY <1>5, <1>p, <2>4 DEF Pat!Finish
    <3> QED
      BY <1>n, <2>1, <2>4, <3>1
  <2> QED
    BY <2>2, <2>3, <2>4
<1>6. CASE Pat!Crash
  <2>1. /\ UNCHANGED <<made, database, entry, log, secret>>
        /\ job' = "none" /\ file' = 0 /\ crashes' = crashes + 1
    BY <1>6 DEF Pat!Crash
  <2>2. stored' = FALSE
    BY <1>6 DEF Pat!Crash
  <2>3. stored' \in BOOLEAN /\ ~(stored' = TRUE)
    BY <2>2, Zenon
  <2>4. PatTypes' /\ Covered'
    BY <2>1
  <2> QED
    BY <2>1, <2>3, <2>4
<1>7. CASE Pat!Refresh \/ Pat!Advance \/ Pat!LoginStarts
  <2>1. UNCHANGED <<made, database, entry, file, stored, job, log, crashes>> /\ secret' \in {secret, entry}
    BY <1>7 DEF Pat!Refresh, Pat!Advance, Pat!LoginStarts
  <2> QED
    BY <1>n, <2>1
<1>8. CASE Pat!SecondWriter
  BY <1>8, <1>p DEF Pat!SecondWriter
<1> QED
  BY <1>2, <1>3, <1>4, <1>5, <1>6, <1>7, <1>8 DEF Pat!PatNext

-----------------------------------------------------------------------------
(* SecretContract: one writer                                              *)

(* Whoever may write a Secret of a tree that passes: a writer that the     *)
(* render shows, a script, or a recorded producer.                         *)
MayWrite(t, s) ==
    {<<"Secret", n>> : n \in t.secrets \cap {s}}
    \cup {<<"ExternalSecret", e.name>> : e \in {e \in t.external : e.target = s}}
    \cup {<<"Certificate", c.name>> : c \in {c \in t.certs : c.target = s}}
    \cup {<<"workload", w.name>> : w \in {w \in t.workloads : \E x \in w.writes : x.name = s}}
    \cup {Contract!Recorded(t, p) : p \in {p \in t.producers : p.name = s}}

ContractInv ==
    \A s \in DOMAIN written :
        /\ tree \in SecretTrees
        /\ started # {} \/ written[s] # {} => Contract!Passes(tree)
        /\ written[s] \subseteq MayWrite(tree, s)

\* Cardinality means the same in the instance.
LEMMA SameCount == ASSUME NEW S PROVE Contract!Cardinality(S) = Cardinality(S)
BY Zenon DEF Cardinality, Contract!Cardinality

\* A set whose elements are equal has at most one.
LEMMA AtMostOne ==
  ASSUME NEW S, \A a, b \in S : a = b
  PROVE  IsFiniteSet(S) /\ Cardinality(S) <= 1
<1>1. CASE S = {}
  BY <1>1, FS_EmptySet
<1>2. CASE S # {}
  <2>1. PICK a \in S : S = {a}
    BY <1>2
  <2>2. IsFiniteSet({a}) /\ Cardinality({a}) = 1
    BY FS_Singleton
  <2> QED
    BY <2>1, <2>2
<1> QED
  BY <1>1, <1>2

(* judge_one_writer counts the writers of a Secret; the count means what it *)
(* says because a render is finite.                                        *)
LEMMA RenderedOne ==
  ASSUME NEW t \in SecretTrees, Contract!Passes(t), NEW s \in Contract!AllSecrets(t) \ t.shared,
         NEW a \in Contract!Writers(t, s), NEW b \in Contract!Writers(t, s)
  PROVE  a = b
<1> DEFINE ES == {e \in t.external : e.target = s}
           NO == {e \in t.external : e.target = s /\ e.policy # "Owner"}
           CS == {c \in t.certs : c.target = s}
           WS == {w \in t.workloads : s \in Contract!written_secrets(w)}
           fE == [e \in ES |-> <<"ExternalSecret", e.name>>]
           fN == [e \in NO |-> <<"outside", e.name>>]
           fC == [c \in CS |-> <<"Certificate", c.name>>]
           fW == [w \in WS |-> <<"workload", w.name>>]
           S1 == {<<"Secret", n>> : n \in t.secrets \cap {s}}
           S2 == {fE[e] : e \in ES}
           S3 == {fN[e] : e \in NO}
           S4 == {fC[c] : c \in CS}
           S5 == {fW[w] : w \in WS}
<1>1. IsFiniteSet(ES) /\ IsFiniteSet(NO) /\ IsFiniteSet(CS) /\ IsFiniteSet(WS)
  BY ReadableTrees, FS_Subset DEF Readable
<1>2. IsFiniteSet(S1)
  BY AtMostOne
<1> HIDE DEF ES, NO, CS, WS, fE, fN, fC, fW
<1>3. IsFiniteSet(S2)
  BY <1>1, FiniteImage
<1>4. IsFiniteSet(S3)
  BY <1>1, FiniteImage
<1>5. IsFiniteSet(S4)
  BY <1>1, FiniteImage
<1>6. IsFiniteSet(S5)
  BY <1>1, FiniteImage
<1>7. Contract!Writers(t, s) = S1 \cup S2 \cup S3 \cup S4 \cup S5
  BY DEF Contract!Writers, ES, NO, CS, WS, fE, fN, fC, fW
<1> HIDE DEF S1, S2, S3, S4, S5
<1>8. IsFiniteSet(Contract!Writers(t, s))
  <2>1. IsFiniteSet(S1 \cup S2)
    BY <1>2, <1>3, FS_Union
  <2>2. IsFiniteSet(S1 \cup S2 \cup S3)
    BY <2>1, <1>4, FS_Union
  <2>3. IsFiniteSet(S1 \cup S2 \cup S3 \cup S4)
    BY <2>2, <1>5, FS_Union
  <2>4. IsFiniteSet(S1 \cup S2 \cup S3 \cup S4 \cup S5)
    BY <2>3, <1>6, FS_Union
  <2> QED
    BY <2>4, <1>7
<1>9. ~(Cardinality(Contract!Writers(t, s)) > 1)
  BY SameCount DEF Contract!Passes, Contract!judge_one_writer
<1> SUFFICES ASSUME a # b PROVE FALSE
  OBVIOUS
<1>10. IsFiniteSet({a}) /\ Cardinality({a}) = 1
  BY FS_Singleton
<1>11. IsFiniteSet({a} \cup {b}) /\ Cardinality({a} \cup {b}) = 2
  <2>1. b \notin {a}
    OBVIOUS
  <2>2. IsFiniteSet({a} \cup {b}) /\ Cardinality({a} \cup {b}) = Cardinality({a}) + 1
    BY <1>10, <2>1, FS_AddElement
  <2> QED
    BY <1>10, <2>2
<1>12. {a} \cup {b} \in SUBSET Contract!Writers(t, s)
  OBVIOUS
<1>13. Cardinality({a} \cup {b}) <= Cardinality(Contract!Writers(t, s))
  BY <1>8, <1>12, FS_Subset
<1>14. Cardinality(Contract!Writers(t, s)) \in Nat
  BY <1>8, FS_CardinalityType
<1> QED
  BY <1>9, <1>11, <1>13, <1>14

(* A tree that passes has no script whose Secret cannot be resolved, and   *)
(* the entry of what a workload is seen to write names the workload.       *)
LEMMA WritersSeen ==
  ASSUME NEW t, Contract!Passes(t), NEW w \in t.workloads
  PROVE  /\ Contract!unresolved(w) = {}
         /\ \A p \in t.producers : p.name \in Contract!written_secrets(w) => w.name \in p.text
<1> DEFINE blind == {<<"unresolved writer", s>> : s \in Contract!unresolved(w)}
           bare == {<<"unrecorded writer", s>> :
                       s \in Contract!written_secrets(w) \ Contract!Names(t.producers)}
           unnamed == {<<"unnamed writer", p.name>> : p \in {p \in t.producers :
                          p.name \in Contract!written_secrets(w) /\ w.name \notin p.text}}
<1>1. Contract!judge_writers(t) = {}
  BY DEF Contract!Passes, Contract!judge
<1>2. blind \cup bare \cup unnamed \subseteq Contract!judge_writers(t)
  BY Zenon DEF Contract!judge_writers
<1>3. blind = {} /\ unnamed = {}
  <2> HIDE DEF blind, bare, unnamed
  <2> QED
    BY <1>1, <1>2
<1> QED
  BY <1>3

\* The recorded writers of a Secret.
Noted(t, s) == {Contract!Recorded(t, p) : p \in {p \in t.producers : p.name = s}}

(* What a script writes in the words of the guard, the guard sees.         *)
LEMMA WordsSeen ==
  ASSUME NEW t, Contract!Passes(t), NEW s, s \notin Contract!Unseen(t),
         NEW w \in t.workloads, NEW x \in w.writes, x.name = s
  PROVE  s \in Contract!written_secrets(w)
<1>1. x \in Contract!Seen(w)
  BY DEF Contract!Unseen, Contract!Seen
<1>2. Contract!unresolved(w) = {}
  BY WritersSeen
<1> QED
  BY <1>1, <1>2 DEF Contract!unresolved, Contract!written_secrets

(* A tree that passes leaves each Secret to one writer, in the render or   *)
(* outside it, when the guard knows the words of its scripts and its entry *)
(* names no other workload: a recorded producer of a rendered Secret is    *)
(* stale, and one that a workload writes names the workload.               *)
LEMMA OneMayWrite ==
  ASSUME NEW t \in SecretTrees, Contract!Passes(t), NEW s,
         s \notin t.shared \cup Contract!Unseen(t) \cup Contract!Misnamed(t),
         NEW a \in MayWrite(t, s), NEW b \in MayWrite(t, s)
  PROVE  a = b
<1>0. ASSUME NEW w \in t.workloads, \E x \in w.writes : x.name = s
      PROVE  s \in Contract!written_secrets(w)
  BY <1>0, WordsSeen
<1>1. ASSUME NEW x \in MayWrite(t, s) PROVE
         \/ x \in Noted(t, s)
         \/ x \in Contract!Writers(t, s) /\ s \in Contract!AllSecrets(t)
  BY <1>0 DEF MayWrite, Noted, Contract!Writers, Contract!AllSecrets, Contract!rendered
<1>2. ASSUME NEW x \in Noted(t, s), NEW y \in MayWrite(t, s) PROVE y \in Noted(t, s)
  <2>1. PICK p \in t.producers : p.name = s
    BY <1>2 DEF Noted
  <2>2. s \notin Contract!rendered(t)
    BY <2>1 DEF Contract!Passes, Contract!judge, Contract!Names
  <2>3. ASSUME NEW w \in t.workloads, \E z \in w.writes : z.name = s
        PROVE  <<"workload", w.name>> \in Noted(t, s)
    <3>1. p.text \ {p.writer} = {}
      BY <2>1 DEF Contract!Misnamed
    <3>2. s \in Contract!written_secrets(w)
      BY <1>0, <2>3
    <3>3. w.name \in p.text
      BY <2>1, <3>2, WritersSeen
    <3>4. w.name = p.writer
      BY <3>1, <3>3
    <3>5. Contract!Recorded(t, p) = <<"workload", w.name>>
      BY <3>4 DEF Contract!Recorded, Contract!Within
    <3> QED
      BY <2>1, <3>5 DEF Noted
  <2> QED
    BY <2>2, <2>3 DEF MayWrite, Noted, Contract!rendered
<1>3. ASSUME NEW x \in Noted(t, s), NEW y \in Noted(t, s) PROVE x = y
  BY ReadableTrees DEF Noted, Readable
<1> QED
  BY <1>1, <1>2, <1>3, RenderedOne

\* A writer that MayWrite allows keeps ContractInv.
LEMMA WriteStep ==
  ASSUME ContractInv, NEW s, NEW w, Contract!WriteAs(s, w), UNCHANGED <<tree, started>>,
         s \in DOMAIN written => Contract!Passes(tree) /\ w \in MayWrite(tree, s)
  PROVE  ContractInv'
BY DEF ContractInv, Contract!WriteAs

\* Every writer of a Secret keeps ContractInv.
LEMMA ContractStep == ASSUME ContractInv, Contract!SecretNext PROVE ContractInv'
<1>1. CASE Contract!SeedKey
  BY <1>1 DEF Contract!SeedKey, ContractInv
<1>2. CASE Contract!RenderedSecret
  BY <1>2, WriteStep DEF Contract!RenderedSecret, MayWrite
<1>3. CASE Contract!SyncExternal
  BY <1>3, WriteStep DEF Contract!SyncExternal, MayWrite
<1>4. CASE Contract!IssueCert
  BY <1>4, WriteStep DEF Contract!IssueCert, MayWrite
<1>5. CASE Contract!ProducerWrites
  BY <1>5, WriteStep DEF Contract!ProducerWrites, MayWrite
<1>6. CASE Contract!StartPod
  BY <1>6 DEF Contract!StartPod, ContractInv
<1>7. CASE Contract!ScriptWrites
  <2>0. PICK w \in tree.workloads : w.name \in started
           /\ \E x \in w.writes : Contract!WriteAs(x.name, <<"workload", w.name>>)
    BY <1>7 DEF Contract!ScriptWrites
  <2>1. PICK x \in w.writes :
           w.name \in started /\ Contract!WriteAs(x.name, <<"workload", w.name>>)
    BY <2>0
  <2>2. UNCHANGED <<tree, started>>
    BY <1>7 DEF Contract!ScriptWrites
  <2>3. ASSUME x.name \in DOMAIN written
        PROVE  Contract!Passes(tree) /\ <<"workload", w.name>> \in MayWrite(tree, x.name)
    BY <2>1, <2>3 DEF ContractInv, MayWrite
  <2> QED
    BY <2>1, <2>2, <2>3, WriteStep
<1> QED
  BY <1>1, <1>2, <1>3, <1>4, <1>5, <1>6, <1>7 DEF Contract!SecretNext

-----------------------------------------------------------------------------
(* The install                                                             *)

InstallInv == WaveInv /\ PatInv /\ ContractInv

\* An install starts with nothing written.
LEMMA InstallStarts == InstallInit => InstallInv
<1>1. WavesRest => WaveInv
  BY DEF WavesRest, WaveInv
<1>2. PatRest => PatInv
  <2> SUFFICES ASSUME PatRest PROVE PatHeld
    BY DEF PatInv
  <2>1. stored = FALSE
    BY DEF PatRest
  <2>2. stored \in BOOLEAN /\ ~(stored = TRUE)
    BY <2>1, Zenon
  <2>3. /\ file = 0 /\ job = "none" /\ made = 0 /\ database = 0 /\ entry = 0
        /\ secret = 0 /\ crashes = 0
    BY Zenon DEF PatRest, Pat!None
  <2>4. PatTypes /\ Covered
    BY <2>3 DEF PatTypes, Covered
  <2> QED
    BY <2>2, <2>3, <2>4 DEF PatHeld
<1>3. ContractRest => ContractInv
  BY DEF ContractRest, ContractInv
<1>4. Waves!WaveInit(WaveCharts) => WaveInv
  BY NumberedWaves DEF Waves!WaveInit, Waves!FirstOf, Waves!Waves, WaveInv
<1>5. Pat!PatInit(PatCharts) => PatInv
  <2> SUFFICES ASSUME Pat!PatInit(PatCharts) PROVE PatHeld
    BY DEF PatInv
  <2>1. stored = FALSE
    BY DEF Pat!PatInit
  <2>2. stored \in BOOLEAN /\ ~(stored = TRUE)
    BY <2>1, Zenon
  <2>3. file = 0 /\ job = "none" /\ crashes = 0
    BY DEF Pat!PatInit, Pat!None
  <2>4. /\ made \in {0, 1} /\ entry = made /\ database \in {0, made}
        /\ secret \in {0, entry}
    BY DEF Pat!PatInit, Pat!None
  <2>5. PatTypes /\ Covered
    BY <2>3, <2>4 DEF PatTypes, Covered
  <2> QED
    BY <2>2, <2>3, <2>5 DEF PatHeld
<1>6. Contract!SecretInit(SecretTrees) => ContractInv
  BY DEF Contract!SecretInit, ContractInv
<1> QED
  BY <1>1, <1>2, <1>3, <1>4, <1>5, <1>6 DEF InstallInit, InstallInv

\* Every step of the install keeps the three invariants.
LEMMA InstallStep == InstallInv /\ [InstallNext]_installVars => InstallInv'
<1> SUFFICES ASSUME InstallInv, [InstallNext]_installVars PROVE InstallInv'
  OBVIOUS
<1>1. ASSUME UNCHANGED waves, WaveInv PROVE WaveInv'
  BY <1>1 DEF waves, WaveInv
<1>2. ASSUME UNCHANGED pat, PatInv PROVE PatInv'
  BY <1>2 DEF pat, PatInv, PatHeld, PatTypes, Covered, Named
<1>3. ASSUME UNCHANGED contract, ContractInv PROVE ContractInv'
  BY <1>3 DEF contract, ContractInv
<1>4. CASE Waves!WaveNext /\ UNCHANGED <<mounts, env, contract, pat>>
  BY <1>4, <1>2, <1>3, WaveStep DEF InstallInv
<1>5. CASE Pat!PatNext /\ UNCHANGED <<mounts, env, contract, waves>>
  BY <1>5, <1>1, <1>3, PatStep DEF InstallInv
<1>6. CASE Contract!SecretNext /\ UNCHANGED <<mounts, env, waves, pat>>
  BY <1>6, <1>1, <1>2, ContractStep DEF InstallInv
<1>7. CASE UNCHANGED <<contract, waves, pat>>
  BY <1>7, <1>1, <1>2, <1>3 DEF InstallInv
<1> QED
  BY <1>4, <1>5, <1>6, <1>7 DEF InstallNext, installVars

\* The three invariants give the promise of the run.
LEMMA InstallInvSafe == InstallInv => InstallSafe
<1> SUFFICES ASSUME InstallInv PROVE InstallSafe
  OBVIOUS
<1>1. Waves!HooksAllowed
  BY DEF InstallInv, WaveInv, Waves!HooksAllowed
<1>2. Pat!LostIsLoud /\ Pat!SecretIsRestorable
  BY DEF InstallInv, PatInv, PatHeld, PatTypes, Named, Pat!LostIsLoud, Pat!SecretIsRestorable, Pat!None
<1>3. Contract!OneWriter
  <2> SUFFICES ASSUME Contract!Clean, NEW s \in DOMAIN written \ (tree.shared \cup Contract!Unseen(tree) \cup Contract!Misnamed(tree))
               PROVE  Cardinality(written[s]) <= 1
    BY SameCount DEF Contract!OneWriter
  <2>1. tree \in SecretTrees /\ written[s] \subseteq MayWrite(tree, s) /\ Contract!Passes(tree)
    BY DEF InstallInv, ContractInv, Contract!Clean
  <2>2. \A a, b \in written[s] : a = b
    BY <2>1, OneMayWrite
  <2> QED
    BY <2>2, AtMostOne
<1> QED
  BY <1>1, <1>2, <1>3 DEF InstallSafe

(* InstallSafe for every finite render with numbered waves, and for every  *)
(* number of crashes and retries, below a new OpenBao or one that was      *)
(* kept: what check-secret-plumbing.py, check-zitadel-token-writers.py and *)
(* check-netpol-before-hooks.py pass is safe, with the exceptions that     *)
(* OneWriter, LostIsLoud and HooksAllowed name (a writer in words that the *)
(* guard does not know, an entry that names another workload, the PAT of   *)
(* an instance that is gone, a hook Job and a policy of one namespace of   *)
(* which only one names it).                                               *)
THEOREM InstallIsSafe == InstallSpec => []InstallSafe
<1>1. InstallSpec => []InstallInv
  BY InstallStarts, InstallStep, PTL DEF InstallSpec
<1> QED
  BY <1>1, InstallInvSafe, PTL
=============================================================================
