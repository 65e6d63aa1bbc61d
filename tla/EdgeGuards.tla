----------------------------- MODULE EdgeGuards -----------------------------
(***************************************************************************)
(* The guards of the rendered edge: check-edge-zitadel-routes.py,          *)
(* check-edge-misdirected-authority.py, check-edge-jwt-payload-            *)
(* unforgeable.py, check-edge-strips-instance-headers.py and               *)
(* check-edge-access-log-no-credentials.py.                                *)
(*                                                                         *)
(* An edge is a sequence of chains [sni, restricted, hcm].  A connection   *)
(* manager (hcm) is [name, normalize, merge, remove, filters, providers,   *)
(* rules, other, vhosts, log]: filters in their order, the payload header  *)
(* of each jwt provider, the jwt rules [path, requires], whether jwt_authn *)
(* uses a requirement map, and the operators of the access log.            *)
(* A virtual host is [name, domains, off, routes].                         *)
(*                                                                         *)
(* The Envoy edge as the edge guards read it: how check-edge-zitadel-      *)
(* routes.py matches a request with the rendered routes, and what Envoy    *)
(* itself does with a request before it matches (external).                *)
(*                                                                         *)
(* A path is a sequence of tokens; "" is an empty segment (a double slash) *)
(* and a last token "/" a slash at the end.  A pattern is [toks, tail,     *)
(* percent]: the sets of tokens that it names ({"*"} for any), what may    *)
(* follow ("slash": a slash and more, "any": anything, "opt": one slash,   *)
(* "none"), and whether it asks for a percent sign.                        *)
(* A route is [kind, alts, headers, extra, action, off]: the patterns of   *)
(* its match, its header matches [name, values, invert], the match fields  *)
(* that the guard does not know, its cluster or answer, and the filters it *)
(* turns off.                                                              *)
(***************************************************************************)
EXTENDS Integers, Sequences, FiniteSets, SequencesExt

Pat(toks, tail) == [toks |-> toks, tail |-> tail, percent |-> FALSE]
Lits(path) == [i \in DOMAIN path |-> {path[i]}]

Encoded == {"e%6Dail", "c%6Fnsole", "%61dmin"}
Decode(tok) ==
    CASE tok = "e%6Dail" -> "email" [] tok = "c%6Fnsole" -> "console" [] tok = "%61dmin" -> "admin" [] OTHER -> tok

Route(kind, alts, action) ==
    [kind |-> kind, alts |-> alts, headers |-> {}, extra |-> {}, action |-> action, off |-> {}]
Prefix(path, tail, action) == Route("prefix", {Pat(Lits(path), tail)}, action)

(***************************************************************************)
(* The matcher of the guard.                                               *)
(***************************************************************************)
\* values = {} asks for the header to be present.
header_matches(h, headers) ==
    LET held == {x[2] : x \in {x \in headers : x[1] = h.name}}
        got == IF h.values = {} THEN held # {} ELSE held \cap h.values # {}
    IN  got # h.invert

PathMatches(p, path) ==
    LET n == Len(p.toks)
        names(ts) == Len(ts) >= n /\ \A i \in 1..n :
                        ts[i] \in p.toks[i] \/ (p.toks[i] = {"*"} /\ ts[i] \notin {"", "/"})
    IN  /\ names(path)
        /\ CASE p.tail = "slash" -> Len(path) > n
             [] p.tail = "any" -> TRUE
             [] p.tail = "opt" -> Len(path) = n \/ (Len(path) = n + 1 /\ path[n + 1] = "/")
             [] p.tail = "none" -> Len(path) = n
        /\ p.percent => \E i \in DOMAIN path : path[i] \in Encoded

route_matches(r, method, path, headers) ==
    /\ \E p \in r.alts : PathMatches(p, path)
    /\ \A h \in r.headers : header_matches(h, headers \cup {<<":method", method>>})

\* The first route that matches decides.
FirstMatch(routes, method, path, headers) ==
    SelectInSeq(routes, LAMBDA r : route_matches(r, method, path, headers))

outcome(vhost, method, path, headers) ==
    LET i == FirstMatch(vhost.routes, method, path, headers)
    IN  IF i = 0 THEN "none" ELSE vhost.routes[i].action

\* A match field that the matcher does not know, before the route that decides.
Blind(vhost, method, path, headers) ==
    LET i == FirstMatch(vhost.routes, method, path, headers)
    IN  \E j \in DOMAIN vhost.routes : (i = 0 \/ j <= i) /\ vhost.routes[j].extra # {}

(***************************************************************************)
(* Envoy (external): dot segments and double slashes are resolved before   *)
(* the match when the connection manager says so; the virtual host is the  *)
(* one that names the authority, else the one for every authority.         *)
(***************************************************************************)
Normalized(hcm, path) ==
    FoldLeft(LAMBDA acc, t : IF t = "" /\ hcm.merge THEN acc
                             ELSE IF t = ".." /\ hcm.normalize
                               THEN IF acc = <<>> THEN acc ELSE Front(acc)
                               ELSE Append(acc, t), <<>>, path)

VhostFor(hcm, authority) ==
    LET named == SelectInSeq(hcm.vhosts, LAMBDA v : authority \in v.domains)
        every == SelectInSeq(hcm.vhosts, LAMBDA v : "*" \in v.domains)
    IN  IF named # 0 THEN named ELSE every

Hcms(edge) == {edge[i].hcm : i \in DOMAIN edge}
Vhosts(hcm) == {hcm.vhosts[i] : i \in DOMAIN hcm.vhosts}
Routes(vh) == {vh.routes[i] : i \in DOMAIN vh.routes}

(***************************************************************************)
(* check-edge-zitadel-routes.py.                                           *)
(***************************************************************************)
ZITADEL_CLUSTERS == {"zitadel_upstream", "zitadel_login"}
APP_VHOST == <<"public_routes", "app">>
API_FAMILIES == {<<"auth", "v1", "x">>, <<"v2", "x">>, <<"v2beta", "x">>}
ADMIN_PREFIXES == {<<"ui", "console">>, <<"admin", "v1">>, <<"management", "v1">>, <<"zitadel.">>}
EDGE_NOT_FOUND == "direct:404"

Me(x) == <<"auth", "v1", "users", "me", x>>
User(v, id) == <<v, "users", id>>
Override == {<<"x-http-method-override", "PATCH">>}

\* The requests that change a user name or an address.
PlainRenames ==
    {<<"PUT", Me("username"), {}>>, <<"PUT", Me("email"), {}>>, <<"POST", Me("email"), {}>>,
     <<"PUT", Me("email") \o <<"/">>, {}>>, <<"POST", User("v2", "u1") \o <<"email">>, {}>>,
     <<"PUT", User("v2", "human") \o <<"u1">>, {}>>, <<"PATCH", User("v2", "u1"), {}>>,
     <<"PATCH", User("v2", "u1") \o <<"/">>, {}>>, <<"patch", User("v2", "u1"), {}>>,
     <<"POST", User("v2beta", "u1") \o <<"email">>, {}>>, <<"PUT", User("v2beta", "u1"), {}>>,
     <<"PUT", Me("e%6Dail"), {}>>}

\* With the request that a method override turns into another one.
MUST_BLOCK == PlainRenames \cup {<<"POST", User("v2", "u1"), Override>>}

MUST_ROUTE ==
    {<<"GET", <<"auth", "v1", "users", "me">>>>, <<"GET", Me("email")>>,
     <<"POST", <<"auth", "v1", "policies", "passwords", "complexity">>>>,
     <<"POST", User("v2", "human")>>, <<"POST", User("v2", "new")>>, <<"GET", User("v2", "u1")>>,
     <<"DELETE", User("v2", "u1")>>, <<"POST", User("v2", "u1") \o <<"password">>>>,
     <<"GET", <<"oauth", "v2", "keys">>>>, <<"GET", <<".well-known", "openid-configuration">>>>}

SIGN_IN ==
    {<<"GET", <<"ui", "v2", "login", "loginname">>, "zitadel_login">>,
     <<"POST", <<"ui", "v2", "login", "loginname">>, "zitadel_login">>,
     <<"GET", <<"ui", "login", "device">>, "zitadel_upstream">>,
     <<"GET", <<"oauth", "v2", "authorize">>, "zitadel_upstream">>,
     <<"POST", <<"oauth", "v2", "token">>, "zitadel_upstream">>,
     <<"POST", <<"oauth", "v2", "device_authorization">>, "zitadel_upstream">>,
     <<"GET", <<"oidc", "v1", "userinfo">>, "zitadel_upstream">>,
     <<"GET", <<"oidc", "v1", "end_session">>, "zitadel_upstream">>,
     <<"GET", <<"idps", "callback">>, "zitadel_upstream">>,
     <<"POST", <<"saml", "v2", "SSO">>, "zitadel_upstream">>}

\* One method for each path.
MUST_NOT_ROUTE ==
    {<<"GET", <<"ui", "console">>>>, <<"GET", <<"ui", "console", "/">>>>,
     <<"GET", <<"ui", "console", "assets", "environment.json">>>>,
     <<"GET", <<"admin", "v1", "policies", "login">>>>, <<"POST", <<"admin", "v1", "members", "_search">>>>,
     <<"POST", <<"management", "v1", "users", "_search">>>>, <<"GET", <<"management", "v1", "info">>>>}
    \cup {<<"POST", <<"zitadel.", s[1], s[2]>>>> : s \in
            {<<"AdminService", "GetLoginPolicy">>, <<"ManagementService", "ListOrgMembers">>,
             <<"AuthService", "GetMyUser">>, <<"UserService", "SetEmail">>, <<"UserService", "ListUsers">>}}

route_key(hcm, vh, r) == <<hcm.name, vh.name, r.kind, r.alts>>

NamesAdmin(r) ==
    \E p \in r.alts, a \in ADMIN_PREFIXES :
        Len(p.toks) >= Len(a) /\ SubSeq(p.toks, 1, Len(a)) = Lits(a)

Asked(is_app) ==
    MUST_BLOCK \cup {<<q[1], q[2], {}>> : q \in MUST_NOT_ROUTE}
    \cup (IF is_app THEN {<<q[1], q[2], {}>> : q \in MUST_ROUTE \cup {<<s[1], s[2]>> : s \in SIGN_IN}} ELSE {})

\* What must not reach Zitadel and does.
OpenFindings(vh, is_app) ==
    {<<"reaches Zitadel", q[1]>> : q \in {q \in MUST_BLOCK : outcome(vh, q[1], q[2], q[3]) = "zitadel_upstream"}}
    \cup {<<"admin", q[1]>> : q \in {q \in MUST_NOT_ROUTE :
             LET got == outcome(vh, q[1], q[2], {})
             IN  got \in ZITADEL_CLUSTERS \/ (is_app /\ got # EDGE_NOT_FOUND)}}

\* What the app needs of Zitadel and does not reach.
LostFindings(vh) ==
    {<<"sign-in", q[1]>> : q \in {q \in MUST_ROUTE : outcome(vh, q[1], q[2], {}) # "zitadel_upstream"}}
    \cup {<<"sign-in", q[1]>> : q \in {q \in SIGN_IN : outcome(vh, q[1], q[2], {}) # q[3]}}

\* Mutant: no blind virtual host and no lost route is reported.
VhostFindings_open(hcm, vh) == OpenFindings(vh, <<hcm.name, vh.name>> = APP_VHOST)

VhostFindings(hcm, vh) ==
    LET is_app == <<hcm.name, vh.name>> = APP_VHOST
    IN  IF \E q \in Asked(is_app) : Blind(vh, q[1], q[2], q[3]) THEN {<<"blind", vh.name>>}
        ELSE OpenFindings(vh, is_app) \cup (IF is_app THEN LostFindings(vh) ELSE {})

SendsApi(hcm) ==
    \E vh \in Vhosts(hcm), fam \in API_FAMILIES : outcome(vh, "POST", fam, {}) = "zitadel_upstream"

ZitadelRoutes(hcm) ==
    UNION {{<<route_key(hcm, vh, r), r>> : r \in {r \in Routes(vh) : r.action \in ZITADEL_CLUSTERS}} :
        vh \in Vhosts(hcm)}

audit_routes(edge, listed) ==
    LET seen == UNION {ZitadelRoutes(h) : h \in Hcms(edge)}
        keys == {s[1] : s \in seen}
    IN  {<<"unlisted", k[3]>> : k \in keys \ listed}
        \cup {<<"stale", k[3]>> : k \in listed \ keys}
        \cup {<<"admin route", s[1][3]>> : s \in {s \in seen : s[2].kind # "regex" /\ NamesAdmin(s[2])}}
        \cup UNION {UNION {VhostFindings(h, vh) : vh \in Vhosts(h)} : h \in Hcms(edge)}
        \cup {<<"normalize", h.name>> : h \in {h \in Hcms(edge) :
                 SendsApi(h) /\ ~(h.normalize /\ h.merge)}}
        \cup (IF \E h \in Hcms(edge) : \E vh \in Vhosts(h) : <<h.name, vh.name>> = APP_VHOST
                THEN {} ELSE {<<"blind", "no app">>})

\* The same requests against a running edge; answer[q] is what it answers to q.
\* The dashboard and an edge without a route answer 404 to a call of Zitadel.
edge_refused(said) == said = "direct:403"
LiveRequests == MUST_BLOCK \cup {<<q[1], q[2], {}>> : q \in MUST_ROUTE \cup MUST_NOT_ROUTE}

live(answer) ==
    {q \in MUST_BLOCK : q[1] # "patch" /\ ~edge_refused(answer[q])}
    \cup {q \in MUST_ROUTE : edge_refused(answer[<<q[1], q[2], {}>>])
                             \/ answer[<<q[1], q[2], {}>>] \in {"direct:404", "none", "dashboard"}}
    \cup {q \in MUST_NOT_ROUTE : answer[<<q[1], q[2], {}>>] # EDGE_NOT_FOUND}

(***************************************************************************)
(* check-edge-misdirected-authority.py.                                    *)
(***************************************************************************)
JWT == "jwt_authn"
EXT_AUTHZ == "ext_authz"
STATUS == "direct:421"
FilterSet(hcm) == {hcm.filters[i] : i \in DOMAIN hcm.filters}
EveryPath == {Pat(<<>>, "any")}

wildcard_vhosts(hcm) == {i \in DOMAIN hcm.vhosts : "*" \in hcm.vhosts[i].domains}

audit_vhost(vh, filters) ==
    {<<"domains", vh.name>> : x \in {x \in {1} : vh.domains # {"*"}}}
    \cup {<<"one route", vh.name>> : x \in {x \in {1} : Len(vh.routes) # 1}}
    \cup {<<"every path", vh.name>> : x \in {r \in Routes(vh) : r.kind # "prefix" \/ r.alts # EveryPath \/ r.headers # {}}}
    \cup {<<"must answer 421", vh.name>> : x \in {r \in Routes(vh) : r.action # STATUS}}
    \cup {<<"keeps", f>> : f \in (filters \cap {JWT, EXT_AUTHZ}) \ vh.off}

audit_misdirected(edge) ==
    LET public == {i \in DOMAIN edge : ~edge[i].restricted}
    IN  {<<"source-restricted", "chain">> : i \in DOMAIN edge \ public}
        \cup UNION {LET wild == wildcard_vhosts(edge[i].hcm)
                    IN  IF Cardinality(wild) # 1 THEN {<<"exactly one *", edge[i].hcm.name>>}
                        ELSE UNION {audit_vhost(edge[i].hcm.vhosts[v], FilterSet(edge[i].hcm)) : v \in wild} :
                    i \in public}
        \cup (IF Cardinality(public) < 2 THEN {<<"blind", "chains">>} ELSE {})

(***************************************************************************)
(* check-edge-jwt-payload-unforgeable.py.  A requirement is a set of       *)
(* leaves: providers, AllowMissing, or Empty for a requirement with none.  *)
(* A rule with one leaf is that requirement, one with more requires any.   *)
(***************************************************************************)
TRUSTED_HEADER == "x-jwt-payload"
AllowMissing == "allow_missing_or_failed"
Empty == "(empty)"

requirement_findings(req) == IF req = {} \/ Empty \in req THEN {"empty requirement"} ELSE {}

\* Mutant: a virtual host without ext-authz needs no sealed routes.
sealed_authz(off, routes) == EXT_AUTHZ \in off /\ routes # {}

sealed(off, routes) ==
    /\ EXT_AUTHZ \in off /\ routes # {}
    /\ \A r \in routes : r.action \in {"direct:421", "direct:403", "direct:404", "redirect"}

audit_jwt_hcm(hcm) ==
    LET at(f) == SelectInSeq(hcm.filters, LAMBDA x : x = f)
        n == Len(hcm.rules)
    IN  IF EXT_AUTHZ \notin FilterSet(hcm) THEN {}
        ELSE IF at(JWT) = 0 \/ at(JWT) > at(EXT_AUTHZ) THEN {"ext_authz before jwt_authn"}
        ELSE (IF DOMAIN hcm.providers = {} THEN {"no providers"} ELSE {})
             \cup {"header" : p \in {p \in DOMAIN hcm.providers : hcm.providers[p] # TRUSTED_HEADER}}
             \cup (IF hcm.other THEN {"requirement_map"} ELSE {})
             \cup UNION {requirement_findings(hcm.rules[i].requires) : i \in 1..n}
             \cup (IF n = 0 THEN {"no rules"} ELSE
                   IF hcm.rules[n].path # Pat(<<>>, "any") THEN {"no catch-all"} ELSE {})
             \cup {"override" : vh \in {vh \in Vhosts(hcm) :
                      \/ JWT \in vh.off /\ ~sealed(vh.off, Routes(vh))
                      \/ \E r \in Routes(vh) : JWT \in r.off /\ ~sealed(r.off, {r})}}

audit_jwt(edge) ==
    UNION {audit_jwt_hcm(h) : h \in Hcms(edge)}
    \cup (IF \A h \in Hcms(edge) : EXT_AUTHZ \notin FilterSet(h) THEN {"blind"} ELSE {})

(***************************************************************************)
(* check-edge-strips-instance-headers.py.                                  *)
(***************************************************************************)
REQUIRED == {"x-zitadel-instance-host", "x-zitadel-public-host", "x-forwarded-host", "forwarded"}

audit_strips(edge) ==
    {h.name : h \in {h \in Hcms(edge) : ~(REQUIRED \subseteq h.remove)}}
    \cup (IF edge = <<>> THEN {"blind"} ELSE {})

(***************************************************************************)
(* check-edge-access-log-no-credentials.py.  An operator of a log is       *)
(* [kind, names, keep]: REQ or RESP with the header and its alternates, or *)
(* PATH with "query" or "NQ"; keep is its truncation, 0 for none.          *)
(***************************************************************************)
MAX_TRUNCATION == 8
NEVER == {"cookie", "set-cookie"}
CREDENTIAL == {"authorization", "proxy-authorization", "x-api-key"}
CREDENTIAL_SUFFIXES == {"x-csrf-token", "x-vault-token", "x-client-secret"}

is_credential(name) == name \in CREDENTIAL \cup NEVER \cup CREDENTIAL_SUFFIXES

audit_log(edge) ==
    LET ops == UNION {h.log : h \in Hcms(edge)}
        names(op) == {op.names[i] : i \in DOMAIN op.names}
        read(op) == {n \in names(op) : is_credential(n)}
        headers == {op \in ops : op.kind # "PATH"}
    IN  {"query" : op \in {op \in ops : (op.kind = "PATH" /\ op.names # <<"NQ">>) \/ ":path" \in names(op)}}
        \cup {"never logged" : op \in {op \in headers : read(op) \cap NEVER # {}}}
        \cup {"whole" : op \in {op \in headers : read(op) \ NEVER # {} /\ op.keep = 0}}
        \cup {"reaches into" : op \in {op \in headers : read(op) \ NEVER # {} /\ op.keep > MAX_TRUNCATION}}
        \cup (IF ops = {} THEN {"blind"} ELSE {})

(***************************************************************************)
(* The rendered edge and the broken edges of the selftests of the edge     *)
(* guards: each edit is one function of a guard's fixtures, applied to the *)
(* connection manager that the guard edits.                                *)
(***************************************************************************)

(***************************************************************************)
(* The render: the app chain of public-chain.yaml and the api chain.       *)
(***************************************************************************)
Block(alts, headers) == [Route("regex", alts, "direct:403") EXCEPT !.headers = headers]
Method(values, invert) == [name |-> ":method", values |-> values, invert |-> invert]
ApiPats(tail) == {Pat(Lits(<<"auth", "v1">>), tail), Pat(Lits(<<"v2">>), tail), Pat(Lits(<<"v2beta">>), tail)}
V2 == {"v2", "v2beta"}

PercentBlock == Block({[p EXCEPT !.percent = TRUE] : p \in ApiPats("slash")}, {})
OverrideBlock == Block(ApiPats("slash"), {[name |-> "x-http-method-override", values |-> {}, invert |-> FALSE]})
MeBlock == Block({Pat(Lits(Me(x)), "opt") : x \in {"username", "email"}}, {Method({"GET"}, TRUE)})
EmailBlock == Block({Pat(<<V2, {"users"}, {"*"}, {"email"}>>, "opt")}, {})
HumanBlock == Block({Pat(<<{"v2"}, {"users"}, {"human"}, {"*"}>>, "opt")}, {})
UpdateBlock == Block({Pat(<<V2, {"users"}, {"*"}>>, "opt")}, {Method({"PATCH", "PUT", "patch"}, FALSE)})
Blocks == <<PercentBlock, OverrideBlock, MeBlock, EmailBlock, HumanBlock, UpdateBlock>>

AdminDeny == Route("regex", {Pat(Lits(a), "any") : a \in ADMIN_PREFIXES}, "direct:404")

AppRoutes ==
    <<Route("path", {Pat(Lits(<<"device">>), "none")}, "redirect"),
      Prefix(<<"ui", "login">>, "slash", "zitadel_upstream"), AdminDeny,
      Prefix(<<"ui">>, "slash", "zitadel_login"),
      Prefix(<<".well-known", "openid-configuration">>, "any", "zitadel_upstream")>>
    \o [i \in 1..4 |-> Prefix(<<<<"oauth", "oidc", "idps", "saml">>[i]>>, "slash", "zitadel_upstream")]
    \o Blocks
    \o <<Prefix(<<"auth", "v1">>, "slash", "zitadel_upstream"), Prefix(<<"v2">>, "slash", "zitadel_upstream"),
         Prefix(<<"v2beta">>, "slash", "zitadel_upstream"), Prefix(<<"assets">>, "slash", "zitadel_upstream"),
         Prefix(<<>>, "any", "dashboard")>>

Misdirected(off) ==
    [name |-> "misdirected", domains |-> {"*"}, off |-> off, routes |-> <<Prefix(<<>>, "any", "direct:421")>>]

PublicHcm ==
    [name |-> "public_routes", normalize |-> TRUE, merge |-> TRUE, remove |-> REQUIRED, filters |-> <<>>,
     providers |-> [p \in {} |-> ""], rules |-> <<>>, other |-> FALSE, log |-> {},
     vhosts |-> <<[name |-> "app", domains |-> {"app"}, off |-> {}, routes |-> AppRoutes], Misdirected({})>>]

\* _clean: the connection manager of the jwt guard, beside the render's log.
ApiHcm ==
    [name |-> "api_routes", normalize |-> FALSE, merge |-> FALSE, remove |-> REQUIRED,
     filters |-> <<JWT, EXT_AUTHZ>>,
     providers |-> [p \in {"zitadel_dashboard", "zitadel_s2s"} |-> TRUSTED_HEADER],
     rules |-> <<[path |-> Pat(Lits(<<"identity">>), "slash"), requires |-> {"zitadel_dashboard", AllowMissing}],
                 [path |-> Pat(<<>>, "any"), requires |-> {"zitadel_s2s"}]>>,
     other |-> FALSE,
     log |-> {[kind |-> "REQ", names |-> <<"user-agent">>, keep |-> 0],
              [kind |-> "PATH", names |-> <<"NQ">>, keep |-> 0]},
     vhosts |-> <<[name |-> "api", domains |-> {"api"}, off |-> {}, routes |-> <<Prefix(<<>>, "any", "daemon")>>],
                  Misdirected({JWT, EXT_AUTHZ})>>]

Chain(sni, h) == [sni |-> {sni}, restricted |-> FALSE, hcm |-> h]
Render == <<Chain("app", PublicHcm), Chain("api", ApiHcm)>>
Public(h) == <<Chain("app", h), Chain("api", ApiHcm)>>
Api(h) == <<Chain("app", PublicHcm), Chain("api", h)>>

ListedRoutes == {z[1] : z \in ZitadelRoutes(PublicHcm)}

(***************************************************************************)
(* check-edge-zitadel-routes.py: edits of the app virtual host.            *)
(***************************************************************************)
WithApp(routes) == Public([PublicHcm EXCEPT !.vhosts[1].routes = routes])
Keep(Test(_)) == WithApp(SelectSeq(AppRoutes, Test))

drop(block) == Keep(LAMBDA r : r # block)
move_blocks_last ==
    LET local(r) == r.action \in {"direct:403", "direct:404"}
        rest(r) == ~local(r)
    IN  WithApp(SelectSeq(AppRoutes, rest) \o SelectSeq(AppRoutes, local))
add_route(path, cluster) == WithApp(<<Prefix(path, "any", cluster)>> \o AppRoutes)
drop_admin_404 == Keep(LAMBDA r : r # AdminDeny)
admin_404_last == WithApp(SelectSeq(AppRoutes, LAMBDA r : r # AdminDeny) \o <<AdminDeny>>)
block_sign_in(path) == WithApp(<<Prefix(path, "slash", "direct:404")>> \o AppRoutes)
block_all_v2 == WithApp(<<Prefix(<<"v2">>, "slash", "direct:403")>> \o AppRoutes)
no_normalize == Public([PublicHcm EXCEPT !.normalize = FALSE])
unknown_match == WithApp(<<[Prefix(<<>>, "any", "direct:403") EXCEPT !.extra = {"query_parameters"}]>> \o AppRoutes)

FIXTURES_THAT_MUST_FAIL ==
    {add_route(<<"system", "v1">>, "zitadel_upstream"), add_route(<<"debug">>, "zitadel_login"),
     drop(MeBlock), drop(EmailBlock), drop(PercentBlock), drop(OverrideBlock), move_blocks_last, block_all_v2,
     block_sign_in(<<"oauth">>), block_sign_in(<<"ui", "v2">>), block_sign_in(<<"idps">>), drop_admin_404,
     admin_404_last, no_normalize, unknown_match}

ADMIN_ROUTES_THAT_MUST_FAIL ==
    {<<a, "zitadel_upstream">> : a \in ADMIN_PREFIXES \cup {<<"zitadel.", "UserService">>}}
    \cup {<<<<"ui", "console">>, "zitadel_login">>}

\* Edges that answer what the guard plays and no more: the admin surface by
\* method or by page, one user's email, or a change of name with another answer
\* than the 403.  The guard passes all of them.
Swapped(old, new) ==
    WithApp(FlattenSeq([i \in DOMAIN AppRoutes |-> IF AppRoutes[i] = old THEN new ELSE <<AppRoutes[i]>>]))
Denied(prefixes, method) == [Route("regex", {Pat(Lits(a), "any") : a \in prefixes}, "direct:404")
                              EXCEPT !.headers = {Method({method}, FALSE)}]
admin_by_method == Swapped(AdminDeny, <<Denied(ADMIN_PREFIXES \ {<<"zitadel.">>}, "GET"),
                                        Denied(ADMIN_PREFIXES \ {<<"ui", "console">>}, "POST")>>)
admin_by_page ==
    Swapped(AdminDeny, <<[AdminDeny EXCEPT !.alts =
        (@ \ {Pat(Lits(<<"ui", "console">>), "any")})
        \cup {Pat(Lits(<<"ui", "console">>), "opt"), Pat(Lits(<<"ui", "console", "assets">>), "any")}]>>)
email_of_one_user == Swapped(EmailBlock, <<[EmailBlock EXCEPT !.alts = {Pat(<<V2, {"users"}, {"u1"}, {"email"}>>, "opt")}]>>)
answers(action) == Swapped(MeBlock, <<[MeBlock EXCEPT !.action = action]>>)
SampleEdges == {admin_by_method, admin_by_page, email_of_one_user, answers("direct:404"), answers("dashboard")}

AdminEdges == {add_route(a[1], a[2]) : a \in ADMIN_ROUTES_THAT_MUST_FAIL}

(***************************************************************************)
(* check-edge-misdirected-authority.py: edits of one chain's "*" host.     *)
(***************************************************************************)
OnWild(v(_)) == {Public([PublicHcm EXCEPT !.vhosts[2] = v(PublicHcm.vhosts[2])]),
              Api([ApiHcm EXCEPT !.vhosts[2] = v(ApiHcm.vhosts[2])])}

drop_vhost == {Public([PublicHcm EXCEPT !.vhosts = <<Head(PublicHcm.vhosts)>>]),
               Api([ApiHcm EXCEPT !.vhosts = <<Head(ApiHcm.vhosts)>>])}
wrong_status == OnWild(LAMBDA v : [v EXCEPT !.routes[1].action = "direct:404"])
routes_upstream == OnWild(LAMBDA v : [v EXCEPT !.routes[1].action = "dashboard"])
narrow_match == OnWild(LAMBDA v : [v EXCEPT !.routes[1].alts = {Pat(Lits(<<"connectors">>), "slash")}])
extra_route == OnWild(LAMBDA v : [v EXCEPT !.routes = Append(@, Prefix(<<"x">>, "any", STATUS))])
keep_jwt == OnWild(LAMBDA v : [v EXCEPT !.off = @ \ {JWT}])
keep_ext_authz == OnWild(LAMBDA v : [v EXCEPT !.off = @ \ {EXT_AUTHZ}])
restrict_source == {[Render EXCEPT ![1].restricted = TRUE]}

MisdirectedEdges ==
    {Render} \cup drop_vhost \cup wrong_status \cup routes_upstream \cup narrow_match \cup extra_route
    \cup keep_jwt \cup keep_ext_authz \cup restrict_source

(***************************************************************************)
(* check-edge-jwt-payload-unforgeable.py: the cases of its selftest.       *)
(***************************************************************************)
JwtCases ==
    LET s2s(header) == [ApiHcm EXCEPT !.providers["zitadel_s2s"] = header]
        host(off) == [ApiHcm EXCEPT !.vhosts[1].off = off]
        add(v) == [ApiHcm EXCEPT !.vhosts = <<Head(@), v>>]
    IN  {ApiHcm, [ApiHcm EXCEPT !.filters = Reverse(@)], [ApiHcm EXCEPT !.filters = <<EXT_AUTHZ>>],
         s2s("x-other"), s2s(""), [ApiHcm EXCEPT !.rules[1].requires = {}],
         [ApiHcm EXCEPT !.rules[1].requires = @ \cup {Empty}], [ApiHcm EXCEPT !.rules = <<Head(@)>>],
         [ApiHcm EXCEPT !.other = TRUE], [ApiHcm EXCEPT !.vhosts[1].routes[1].off = {JWT}],
         host({JWT}), host({JWT, EXT_AUTHZ}), add(Misdirected({JWT})), add(Misdirected({JWT, EXT_AUTHZ}))}

JwtEdges == {Api(h) : h \in JwtCases}

(***************************************************************************)
(* check-edge-strips-instance-headers.py and -access-log-no-credentials.   *)
(***************************************************************************)
Stripped == {{}, {"x-zitadel-instance-host", "x-forwarded-host"}, REQUIRED}
StripEdges == UNION {{Public([PublicHcm EXCEPT !.remove = s]), Api([ApiHcm EXCEPT !.remove = s])} : s \in Stripped}

\* _plant adds one operator to the first log format.
plant(op) == Api([ApiHcm EXCEPT !.log = @ \cup {op}])
Op(kind, names, keep) == [kind |-> kind, names |-> names, keep |-> keep]

LogEdges ==
    {Render} \cup {plant(op) : op \in
        {Op("REQ", <<"authorization">>, k) : k \in {0, 6, 64}}
        \cup {Op("REQ", <<"x-request-id", "authorization">>, 0), Op("REQ", <<"cookie">>, 4),
              Op("RESP", <<"set-cookie">>, 0), Op("REQ", <<"x-csrf-token">>, 0), Op("REQ", <<"x-api-key">>, 32),
              Op("REQ", <<":path">>, 0), Op("PATH", <<"WQ">>, 0), Op("PATH", <<"">>, 0),
              Op("REQ", <<"user-agent">>, 0), Op("PATH", <<"NQ">>, 0)}}
=============================================================================
