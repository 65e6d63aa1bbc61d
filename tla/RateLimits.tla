----------------------------- MODULE RateLimits -----------------------------
(***************************************************************************)
(* check-edge-rate-limits.py, and the limits of the edge at work: seconds  *)
(* pass, clients send, the local fuse of a route spends its tokens and the *)
(* shared quota service counts per client (external: Envoy and the quota   *)
(* service as the guard's docstring describes them).                       *)
(*                                                                         *)
(* A bucket is [max, fill, interval], 0 for a field that is not set.  A    *)
(* local_ratelimit is [there, enabled, enforced, descriptors, bucket].  A  *)
(* connection manager is [trusts, rl, net, routes], a route [value, masked,*)
(* own]: its route descriptor ("" for none), whether it adds the address   *)
(* of the client, and its own limiter.  The quota service holds rates      *)
(* [value, units, unit], one for each deepest descriptor.                  *)
(***************************************************************************)
EXTENDS Integers, FiniteSets, FiniteSetsExt

CONSTANTS Senders   \* the sets of clients that send

VARIABLES limits, passed, route, senders,
          second, tokens, counts, quotaHit,
          admitted, refusedNow, keyed

FULL == 100
UNIT_SECONDS == [second |-> 1, minute |-> 60, hour |-> 3600, day |-> 86400]
NoBucket == [max |-> 0, fill |-> 0, interval |-> 0]
NoLimiter == [there |-> FALSE, enabled |-> 0, enforced |-> 0, descriptors |-> FALSE, bucket |-> NoBucket]

(***************************************************************************)
(* The guard.  A rate is a fraction <<requests, seconds>>.                 *)
(***************************************************************************)
rate_per_second(b) ==
    LET tokens_per_fill == IF b.fill > 0 THEN b.fill ELSE b.max
    IN  IF tokens_per_fill > 0 /\ b.interval > 0 THEN <<tokens_per_fill, b.interval>> ELSE <<0, 1>>

AtLeast(p, q) == p[1] * q[2] >= q[1] * p[2]

\* The widest of the quotas below a route descriptor.
quota_rates(quotas, value) ==
    LET rates == {<<q.units, UNIT_SECONDS[q.unit]>> : q \in {q \in quotas : q.value = value}}
    IN  {p \in rates : \A q \in rates : AtLeast(p, q)}

local_rls(hcm) == {l \in {hcm.rl} \cup {r.own : r \in hcm.routes} : l.there}

\* A route's own limiter takes the place of the one it inherits.
fuse_of(hcm, r) == IF r.own.there /\ r.own.bucket # NoBucket THEN r.own.bucket ELSE hcm.rl.bucket

\* Mutant: a fuse that is enabled counts as enforced.
enforcement_findings_enabled(hcms) ==
    {"enforces nothing" : l \in {l \in UNION {local_rls(h) : h \in hcms} : l.enabled # FULL}}

enforcement_findings(hcms) ==
    LET all == UNION {local_rls(h) : h \in hcms}
    IN  {"enforces nothing" : l \in {l \in all : l.enabled # FULL \/ l.enforced # FULL}}
        \cup (IF all = {} THEN {"no fuse"} ELSE {})
        \cup {"no bucket" : b \in {b \in UNION {h.net : h \in hcms} : rate_per_second(b)[1] = 0}}

\* Mutant: no rule about the peer address.
peer_findings_none(hcms) == {}

peer_findings(hcms) ==
    {"untrusted peer" : h \in {h \in hcms : ~h.trusts /\ \E l \in local_rls(h) : l.descriptors}}

quota_findings(hcms, quotas) ==
    {"quota above the fuse" : x \in UNION {{r \in h.routes :
        LET fuse == rate_per_second(fuse_of(h, r))
        IN  fuse[1] > 0 /\ \E q \in quota_rates(quotas, r.value) : AtLeast(q, fuse)} : h \in hcms}}

judge(l) == enforcement_findings(l.hcms) \cup peer_findings(l.hcms) \cup quota_findings(l.hcms, l.quotas)

(***************************************************************************)
(* The edges of the self test: one route with the descriptor "x".          *)
(***************************************************************************)
bucket(max, fill, interval) == [max |-> max, fill |-> fill, interval |-> interval]

rl(enabled, enforced, b, descriptors) ==
    [there |-> TRUE, enabled |-> enabled, enforced |-> enforced, descriptors |-> descriptors, bucket |-> b]

envoy(hcm_rl, own, trusts) ==
    [trusts |-> trusts, rl |-> hcm_rl, net |-> {},
     routes |-> {[value |-> "x", masked |-> TRUE, own |-> own]}]

with_network(hcm, b) == [hcm EXCEPT !.net = {b}]

quota(units, unit) == [value |-> "x", units |-> units, unit |-> unit]

\* Its cases, with tokens and quotas of the same order as a window: the faults
\* of a limiter, a connection fuse with and with no bucket, and quotas below,
\* at and above a fuse of the connection manager or of the route.
cases ==
    LET plain == bucket(2, 1, 1)
        clean == rl(FULL, FULL, plain, FALSE)
        fuses == {plain, bucket(3, 2, 7), bucket(2, 0, 7)}
        edges == {envoy(rl(0, FULL, plain, FALSE), NoLimiter, TRUE),
                  envoy(rl(FULL, 0, plain, FALSE), NoLimiter, TRUE),
                  with_network(envoy(clean, NoLimiter, TRUE), bucket(50, 0, 1)),
                  with_network(envoy(clean, NoLimiter, TRUE), NoBucket)}
                 \cup {envoy(rl(FULL, FULL, plain, d), NoLimiter, t) : d \in BOOLEAN, t \in BOOLEAN}
                 \cup {envoy(rl(FULL, FULL, b, FALSE), own, TRUE) : b \in fuses,
                       own \in {NoLimiter} \cup {rl(FULL, FULL, bb, FALSE) : bb \in {bucket(1, 1, 1), bucket(1, 1, 7)}}}
    IN  {[hcms |-> {e}, quotas |-> {q}] : e \in edges,
         q \in {quota(1, "second"), quota(8, "minute"), quota(17, "minute"), quota(59, "minute")}}

(***************************************************************************)
(* The edge at work.                                                       *)
(***************************************************************************)
limiter == IF route[2].own.there THEN route[2].own ELSE route[1].rl

fuse == limiter.bucket
per_fill == IF fuse.fill > 0 THEN fuse.fill ELSE fuse.max

\* judged is a set of [hcms, quotas].
RateInit(judged) ==
    /\ limits \in judged /\ senders \in Senders
    /\ passed = (judge(limits) = {})
    /\ route \in UNION {{<<h, r>> : r \in h.routes} : h \in limits.hcms}
    /\ second = 0 /\ tokens = limiter.bucket.max
    /\ counts = [c \in UNION Senders |-> 0] /\ quotaHit = FALSE
    /\ admitted = 0 /\ refusedNow = FALSE /\ keyed = {}

Enforces == limiter.there /\ limiter.enabled = FULL /\ limiter.enforced = FULL
Quotas == {q \in limits.quotas : q.value = route[2].value}
Window == IF Quotas = {} THEN 1 ELSE Max({UNIT_SECONDS[q.unit] : q \in Quotas})

\* The address of the client, or the one that it claims where the connection
\* manager does not trust the peer.
Key(c, claimed) == IF route[1].trusts THEN c ELSE claimed

Send(c, claimed) ==
    LET k == Key(c, claimed)
        blown == Enforces /\ tokens = 0
        over == \E q \in Quotas : counts[k] >= q.units
    IN  /\ passed /\ second < Window /\ ~refusedNow
        /\ refusedNow' = (blown \/ over)
        /\ tokens' = IF blown \/ tokens = 0 THEN tokens ELSE tokens - 1
        /\ counts' = IF blown \/ over THEN counts ELSE [counts EXCEPT ![k] = @ + 1]
        /\ quotaHit' = (quotaHit \/ (~blown /\ over))
        /\ admitted' = IF blown THEN admitted ELSE admitted + 1
        /\ keyed' = keyed \cup (IF limiter.there /\ limiter.descriptors THEN {<<"fuse", c, k>>} ELSE {})
                          \cup (IF route[2].masked /\ ~blown THEN {<<"quota", c, k>>} ELSE {})
        /\ UNCHANGED <<limits, passed, route, senders, second>>

\* The senders ask for more than they get in every second.
Second ==
    /\ refusedNow /\ second < Window
    /\ second' = second + 1 /\ refusedNow' = FALSE
    /\ tokens' = IF fuse.interval > 0 /\ second' % fuse.interval = 0
                   THEN Min({fuse.max, tokens + per_fill}) ELSE tokens
    /\ UNCHANGED <<limits, passed, route, senders, counts, quotaHit, admitted, keyed>>

\* A client can claim any address.
RateNext == Second \/ \E c \in senders : \E claimed \in UNION Senders : Send(c, claimed)

(***************************************************************************)
(* Properties.                                                             *)
(***************************************************************************)
Fills == IF fuse.interval > 0 THEN second \div fuse.interval ELSE 0

\* A limiter of an edge that the guard passes limits: a route admits no more
\* than the burst of its fuse and what the fills since then added.
FuseEnforced == passed /\ limiter.there => admitted <= fuse.max + Fills * per_fill

\* The guard makes sure of the address of a client: the connection manager
\* trusts the peer, or would fail because a limiter below it has descriptors.
\* The descriptors that a route sends to the quota service alone do not make the
\* guard look.
PeerJudged == route[1].trusts \/ \E l \in local_rls(route[1]) : l.descriptors

\* A quota of an edge that the guard passes applies: a client that asks for
\* more in every second of a window reaches its quota, whatever the fuse in
\* front of it and whatever addresses it claims, where the bucket holds at least
\* one fill and the guard makes sure of the address.
QuotaApplies ==
    /\ passed /\ PeerJudged /\ Quotas # {}
    /\ Cardinality(senders) = 1 /\ second = Window /\ fuse.max >= fuse.fill
    => quotaHit

\* On an edge that the guard passes no client spends the tokens of the fuse of
\* another client's address, nor its quota where the guard makes sure of the
\* address.
ClientsKeepKeys == passed => \A k \in keyed : k[1] = "fuse" \/ PeerJudged => k[2] = k[3]

(***************************************************************************)
(* Why the limits hold.  What a fuse has admitted and what it still holds  *)
(* is what it was given, and a client that asks for more in every second   *)
(* gets all of it until its quota refuses it.                              *)
(***************************************************************************)
\* The requests of the only client, before its quota was reached: every second
\* that is over spent all tokens there were.
Spends(c) ==
    /\ counts[c] + tokens >= (Fills + 1) * per_fill
    /\ second > 0 => counts[c] >= ((second - 1) \div fuse.interval + 1) * per_fill

RateInv(judged) ==
    /\ limits \in judged /\ senders \in Senders
    /\ passed => judge(limits) = {}
    /\ \E h \in limits.hcms : \E r \in h.routes : route = <<h, r>>
    /\ second \in Nat /\ tokens \in Nat /\ admitted \in Nat
    /\ counts \in [UNION Senders -> Nat]
    /\ quotaHit \in BOOLEAN /\ refusedNow \in BOOLEAN
    /\ passed /\ limiter.there => admitted + tokens <= fuse.max + Fills * per_fill
    /\ \A k \in UNION Senders, q \in Quotas : counts[k] <= q.units
    /\ \A k \in keyed : /\ k[1] = "fuse" => limiter.there /\ limiter.descriptors
                        /\ route[1].trusts => k[2] = k[3]
    /\ refusedNow = TRUE /\ quotaHit = FALSE => Enforces /\ tokens = 0
    /\ quotaHit = FALSE /\ ~limiter.there => second = 0
    /\ passed /\ limiter.there /\ quotaHit = FALSE /\ fuse.max >= fuse.fill /\ route[1].trusts =>
          \A c \in senders : senders = {c} => Spends(c)
=============================================================================
