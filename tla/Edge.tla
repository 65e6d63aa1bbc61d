-------------------------------- MODULE Edge --------------------------------
(***************************************************************************)
(* A request at the Envoy edge, step by step, beside the verdict of the    *)
(* guard that judged the edge's configuration.  Envoy takes the filter     *)
(* chain by the SNI of the connection, the virtual host by the authority   *)
(* of the request, the route by the normalized path, and then runs the     *)
(* filters of the chain in their order (external: Envoy as the guards      *)
(* describe it).                                                           *)
(***************************************************************************)
EXTENDS EdgeGuards

CONSTANTS Edges,     \* [guard |-> set of edges] to judge
          Requests,  \* [guard |-> set of requests] to send
          Listed     \* the routes of edge-zitadel-routes.yaml

VARIABLES guard,    \* which guard judged
          edge,
          verdict,  \* "none", "pass" or "fail"
          req,      \* [sni, authority, method, path, headers, token, inside]
          chain,    \* index of the chain of the connection, 0 before
          vhost, route, left,   \* what the request has met, and the filters left
          payload,  \* x-jwt-payload: "none", "forged" or "verified"
          seen,     \* the payload that ext_authz read, "" when it did not run
          answer, forwardedHeaders, logged

hcm == edge[chain].hcm
vh == hcm.vhosts[vhost]
r == vh.routes[route]

VerdictOf(g, e) ==
    CASE g = "routes" -> audit_routes(e, Listed) = {}
      [] g = "misdirected" -> audit_misdirected(e) = {}
      [] g = "jwt" -> audit_jwt(e) = {}
      [] g = "strips" -> audit_strips(e) = {}
      [] g = "log" -> audit_log(e) = {}

\* A chain for a source range takes the connections from there first.
ChainFor(e, q) ==
    LET own == {i \in DOMAIN e : q.sni \in e[i].sni /\ (e[i].restricted => q.inside)}
        first == {i \in own : e[i].restricted}
    IN  IF own = {} THEN 0 ELSE CHOOSE i \in (IF first # {} THEN first ELSE own) : TRUE

NoRequest == [sni |-> "", authority |-> "", method |-> "", path |-> <<>>, headers |-> {},
              token |-> "", inside |-> FALSE]

EdgeInit ==
    /\ guard \in DOMAIN Edges
    /\ edge \in Edges[guard] /\ verdict = "none" /\ req = NoRequest
    /\ chain = 0 /\ vhost = 0 /\ route = 0 /\ left = <<>>
    /\ payload = "none" /\ seen = "" /\ answer = "" /\ forwardedHeaders = {} /\ logged = {}

GuardRuns ==
    /\ verdict = "none"
    /\ verdict' = IF VerdictOf(guard, edge) THEN "pass" ELSE "fail"
    /\ UNCHANGED <<guard, edge, req, chain, vhost, route, left, payload, seen, answer,
                   forwardedHeaders, logged>>

\* An edge that passed is released, and a client sends it a request.
Arrive ==
    /\ verdict = "pass" /\ req = NoRequest
    /\ \E q \in Requests[guard] :
          /\ req' = q
          /\ payload' = IF TRUSTED_HEADER \in {h[1] : h \in q.headers} THEN "forged" ELSE "none"
    /\ UNCHANGED <<guard, edge, verdict, chain, vhost, route, left, seen, answer,
                   forwardedHeaders, logged>>

Connect ==
    /\ req # NoRequest /\ chain = 0 /\ answer = ""
    /\ chain' = ChainFor(edge, req)
    /\ answer' = IF chain' = 0 THEN "closed" ELSE ""
    /\ UNCHANGED <<guard, edge, verdict, req, vhost, route, left, payload, seen, forwardedHeaders, logged>>

MatchRoute ==
    /\ chain # 0 /\ vhost = 0 /\ answer = ""
    /\ vhost' = VhostFor(hcm, req.authority)
    /\ route' = IF vhost' = 0 THEN 0 ELSE
                FirstMatch(hcm.vhosts[vhost'].routes, req.method, Normalized(hcm, req.path), req.headers)
    /\ left' = hcm.filters
    /\ answer' = IF route' = 0 THEN "none" ELSE ""
    /\ UNCHANGED <<guard, edge, verdict, req, chain, payload, seen, forwardedHeaders, logged>>

Off(f) == f \in vh.off \cup r.off

\* The rule of the path strips the payload header of its providers, or of every
\* provider where it allows a missing token, and admits or answers 401.
JwtAuthn ==
    /\ left # <<>> /\ Head(left) = JWT /\ answer = ""
    /\ LET i == SelectInSeq(hcm.rules, LAMBDA x : PathMatches(x.path, Normalized(hcm, req.path)))
           need == hcm.rules[i].requires
           strips == IF AllowMissing \in need THEN DOMAIN hcm.providers ELSE need \cap DOMAIN hcm.providers
           cleared == \E p \in strips : hcm.providers[p] = TRUSTED_HEADER
           valid == req.token \in need /\ hcm.providers[req.token] = TRUSTED_HEADER
       IN  IF Off(JWT) \/ i = 0 \/ need = {} \/ Empty \in need
             THEN UNCHANGED <<payload, answer>>
             ELSE /\ payload' = IF valid THEN "verified" ELSE IF cleared THEN "none" ELSE payload
                  /\ answer' = IF req.token \in need \/ AllowMissing \in need THEN "" ELSE "direct:401"
    /\ left' = Tail(left)
    /\ UNCHANGED <<guard, edge, verdict, req, chain, vhost, route, seen, forwardedHeaders, logged>>

ExtAuthz ==
    /\ left # <<>> /\ Head(left) = EXT_AUTHZ /\ answer = ""
    /\ seen' = IF Off(EXT_AUTHZ) THEN seen ELSE payload
    /\ left' = Tail(left)
    /\ UNCHANGED <<guard, edge, verdict, req, chain, vhost, route, payload, answer, forwardedHeaders, logged>>

IsAnswer(action) == action \in {"direct:403", "direct:404", "direct:421", "redirect"}

Router ==
    /\ left = <<>> /\ route # 0 /\ answer = ""
    /\ answer' = r.action
    /\ forwardedHeaders' = IF IsAnswer(r.action) THEN {} ELSE {h \in req.headers : h[1] \notin hcm.remove}
    /\ UNCHANGED <<guard, edge, verdict, req, chain, vhost, route, left, payload, seen, logged>>

\* Each operator writes the first of its headers that the request has, cut to
\* its truncation; a path with its query holds what the query holds.
AccessLog ==
    /\ answer # "" /\ chain # 0 /\ logged = {}
    /\ logged' = {<<"line", 0>>} \cup
          {<<op.names[SelectInSeq(op.names, LAMBDA n : \E h \in req.headers : h[1] = n)], op.keep>> :
             op \in {op \in hcm.log : op.kind # "PATH"
                       /\ \E i \in DOMAIN op.names : \E h \in req.headers : h[1] = op.names[i]}}
          \cup {<<"query", 0>> : op \in {op \in hcm.log : \/ op.kind = "PATH" /\ op.names # <<"NQ">>
                                                          \/ \E i \in DOMAIN op.names : op.names[i] = ":path"}}
    /\ UNCHANGED <<guard, edge, verdict, req, chain, vhost, route, left, payload, seen, answer, forwardedHeaders>>

EdgeNext == GuardRuns \/ Arrive \/ Connect \/ MatchRoute \/ JwtAuthn \/ ExtAuthz \/ Router \/ AccessLog

(***************************************************************************)
(* Zitadel (external): its router matches the decoded and cleaned path and *)
(* the method that an override header names.                               *)
(***************************************************************************)
Cleaned(path) ==
    LET clean == Normalized([normalize |-> TRUE, merge |-> TRUE], [i \in DOMAIN path |-> Decode(path[i])])
    IN  IF clean # <<>> /\ Last(clean) = "/" THEN Front(clean) ELSE clean

Renames(q) ==
    LET p == Cleaned(q.path)
        over == {h[2] : h \in {h \in q.headers : h[1] = "x-http-method-override"}}
        methods == IF q.method = "POST" /\ over # {} THEN over
                   ELSE IF q.method = "patch" THEN {"PATCH"} ELSE {q.method}
        does(m) == m \in methods
        v2(n) == Len(p) = n /\ p[1] \in {"v2", "v2beta"} /\ p[2] = "users"
    IN  \/ p \in {Me("email"), Me("username")} /\ (does("PUT") \/ (p = Me("email") /\ does("POST")))
        \/ v2(4) /\ p[4] = "email" /\ does("POST")
        \/ v2(4) /\ p[1] = "v2" /\ p[3] = "human" /\ does("PUT")
        \/ v2(3) /\ ((p[1] = "v2" /\ does("PATCH")) \/ (p[1] = "v2beta" /\ does("PUT")))

Admin(q) ==
    \E a \in ADMIN_PREFIXES : LET p == Cleaned(q.path)
                              IN  Len(p) >= Len(a) /\ SubSeq(p, 1, Len(a)) = a

(***************************************************************************)
(* Properties.                                                             *)
(***************************************************************************)
Judged(g) == guard = g /\ verdict = "pass"

\* A request that check-edge-zitadel-routes.py plays, by whatever detour it is
\* written.
Played(q) ==
    LET p == Normalized(hcm, q.path)
    IN  <<q.method, p, q.headers>> \in MUST_BLOCK \/ (<<q.method, p>> \in MUST_NOT_ROUTE)

\* An answer of the edge that takes less than a family of requests: an admin
\* prefix by method, header or page, or the calls of one user.
Narrow(rt) ==
    /\ rt.action \in {"direct:403", "direct:404"}
    /\ \E p \in rt.alts :
          \/ \E i \in DOMAIN p.toks : p.toks[i] \cap {"u1", "u2"} # {}
          \/ /\ \E a \in ADMIN_PREFIXES : Len(p.toks) >= Len(a) /\ SubSeq(p.toks, 1, Len(a)) = Lits(a)
             /\ rt.headers # {} \/ p.tail # "any" \/ p.toks \notin {Lits(a) : a \in ADMIN_PREFIXES}

\* When check-edge-zitadel-routes.py passes an edge, no request that it plays
\* reaches Zitadel, by whatever detour.  Where no answer of the edge is narrow,
\* no request that changes an email or a username reaches Zitadel, whatever its
\* user, its detour, its encoding or its override, and none for the admin
\* surface does: an encoded console path alone reaches the login pages, never
\* Zitadel's own server.
ZitadelShielded ==
    Judged("routes") /\ answer \in ZITADEL_CLUSTERS =>
        /\ ~(Played(req) /\ (answer = "zitadel_upstream" \/ <<req.method, Normalized(hcm, req.path)>> \in MUST_NOT_ROUTE))
        /\ (\A rt \in Routes(vh) : ~Narrow(rt)) =>
              /\ ~(answer = "zitadel_upstream" /\ Renames(req))
              /\ Admin(req) => answer = "zitadel_login" /\ \E i \in DOMAIN req.path : req.path[i] \in Encoded

\* An edge that passes the guard's render mode passes its --live mode, but for
\* a change of name that it neither refuses with the 403 nor sends to Zitadel:
\* the render mode asks only that it does not reach Zitadel.
LiveAgrees ==
    Judged("routes") /\ req = NoRequest =>
        \A i \in DOMAIN edge : edge[i].hcm.name = APP_VHOST[1] =>
            LET h == edge[i].hcm
                app == CHOOSE v \in Vhosts(h) : v.name = APP_VHOST[2]
                answered ==
                    [q \in LiveRequests |->
                        LET n == FirstMatch(app.routes, q[1], Normalized(h, q[2]), q[3])
                        IN  IF n = 0 THEN "none" ELSE app.routes[n].action]
            IN  live(answered) \subseteq
                    {q \in MUST_BLOCK : answered[q] \notin {"direct:403", "zitadel_upstream"}}

\* When check-edge-misdirected-authority passes an edge, a request for a host
\* that its connection's chain does not serve gets 421, whatever its token, and
\* no client reaches a chain that the public cannot.
CoalescedGets421 ==
    Judged("misdirected") /\ answer \notin {"", "closed"}
      /\ (\A v \in Vhosts(hcm) : req.authority \notin v.domains) => answer = STATUS

\* When check-edge-jwt-payload-unforgeable passes an edge, neither ext_authz
\* nor an upstream behind it reads an x-jwt-payload that the client sent.
PayloadNotForged ==
    Judged("jwt") =>
        /\ seen # "forged"
        /\ ~(/\ answer \notin {"", "none", "closed", "direct:401"} /\ ~IsAnswer(answer)
             /\ EXT_AUTHZ \in FilterSet(hcm) /\ payload = "forged")

\* When check-edge-strips-instance-headers passes an edge, no upstream gets a
\* header that selects a Zitadel instance from a client.
InstanceNotChosen ==
    Judged("strips") => \A h \in forwardedHeaders : h[1] \notin REQUIRED

\* When check-edge-access-log-no-credentials passes an edge, no log line holds
\* more of a credential header than its scheme word, a cookie or a query,
\* whichever alternate of an operator the request makes it write.
LogHoldsNoCredential ==
    Judged("log") => \A l \in logged :
        /\ l[1] \notin NEVER \cup {"query"}
        /\ is_credential(l[1]) => l[2] \in 1..MAX_TRUNCATION
=============================================================================
