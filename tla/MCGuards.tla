------------------------------ MODULE MCGuards ------------------------------
(***************************************************************************)
(* The static guards and the release tools, each with the part of the      *)
(* system that it judges or changes, beside the tools of ClusterTools.  No *)
(* two of them share state, so one run checks them side by side in the     *)
(* slots of ClusterTools: gate names the one that runs.                    *)
(***************************************************************************)
EXTENDS ClusterTools, SequencesExt

(***************************************************************************)
(* The guards and their inputs.                                            *)
(***************************************************************************)
Rbac == INSTANCE RbacFixtures

Kubectl == INSTANCE KubectlRbac WITH
    Renders <- Rbac!Renders, Scripts <- Rbac!Scripts, Account <- Rbac!Account, docs <- g1,
    script <- g2, pc <- g3, log <- g4, started <- g5, findings <- g6

Reads == INSTANCE SecretReads WITH
    Clusters <- Rbac!Clusters, Containers <- Rbac!Containers, PodAccount <- Rbac!PodAccount,
    docs <- g1, container <- g2, verdict <- g3, env <- g4, args <- g5, frame <- g6, pc <- g7,
    ret <- g8, saved <- g9, read <- g10

Net == INSTANCE NetworkGuards
Pod(name, role, ports) ==
    [name |-> name, ns |-> "gibson", listens |-> ports,
     labels |-> {<<"component", name>>} \cup (IF role = "" THEN {} ELSE {<<"net-role", role>>})]
HubbleNetworks == {{Net!platform}, {Net!platform, Net!tenant}}
HubblePods == {Pod("daemon", "platform", {50051}), Pod("tenant-operator", "platform", {}), Pod("unlabelled", "", {}),
               [Pod("visitor", "platform", {}) EXCEPT !.ns = "tenant-a"]}
RateFixtures == Rates!cases

EdgeInputs == INSTANCE EdgeGuards
HttpRequest(sni, authority, method, path, headers, token) ==
    [sni |-> sni, authority |-> authority, method |-> method, path |-> path, headers |-> headers,
     token |-> token, inside |-> TRUE]
UserIds == {"u1", "u2", "human"}
Targets ==
    {EdgeInputs!Me(p) : p \in {"email", "username", "e%6Dail"}}
    \cup UNION {{EdgeInputs!User(v, u), EdgeInputs!User(v, u) \o <<"email">>} : v \in {"v2", "v2beta"}, u \in UserIds}
    \cup {EdgeInputs!User("v2", "human") \o <<u>> : u \in UserIds}
    \cup {a \o <<"x">> : a \in EdgeInputs!ADMIN_PREFIXES \cup {<<"ui", "c%6Fnsole">>, <<"%61dmin", "v1">>}}
    \cup {q[2] : q \in EdgeInputs!MUST_NOT_ROUTE}
Detours(p) == {p, p \o <<"/">>, <<"">> \o p, <<"oauth", "..">> \o p, <<"ui", "login", "..", "..">> \o p}
With(names) == SUBSET {<<n, "v">> : n \in names}
EdgeRequests ==
    [routes |-> {HttpRequest("app", "app", m, p, h, "") : m \in {"GET", "POST", "PUT", "PATCH", "patch"},
                    p \in UNION {Detours(t) : t \in Targets}, h \in {{}, {<<"x-http-method-override", "PATCH">>}}},
     misdirected |-> {HttpRequest(s, a, "GET", p, {}, t) : s \in {"app", "api"}, a \in {"app", "api", "docs"},
                         p \in {<<"connectors", "oauth">>, <<"x">>}, t \in {"", "zitadel_s2s"}},
     jwt |-> {HttpRequest("api", a, "POST", p, h, t) : a \in {"api", "app"}, p \in {<<"identity", "get">>, <<"x">>},
                 h \in With({"x-jwt-payload"}), t \in {"", "zitadel_s2s", "zitadel_dashboard", "other"}},
     strips |-> {HttpRequest(s, s, "GET", <<"x">>, h, "zitadel_s2s") : s \in {"app", "api"}, h \in With(EdgeInputs!REQUIRED)},
     log |-> {HttpRequest("api", "api", "GET", <<"x">>, h, "zitadel_s2s") :
                 h \in With({"authorization", "cookie", "set-cookie", "x-csrf-token", "x-api-key", "x-request-id"})}]
EdgeRenders ==
    [routes |-> {EdgeInputs!Render} \cup EdgeInputs!FIXTURES_THAT_MUST_FAIL \cup EdgeInputs!AdminEdges
                  \cup EdgeInputs!SampleEdges,
     misdirected |-> EdgeInputs!MisdirectedEdges, jwt |-> EdgeInputs!JwtEdges,
     strips |-> EdgeInputs!StripEdges, log |-> EdgeInputs!LogEdges]

Envoy == INSTANCE Edge WITH
    Edges <- EdgeRenders, Requests <- EdgeRequests, Listed <- EdgeInputs!ListedRoutes,
    guard <- g1, edge <- g2, verdict <- g3, req <- g4, chain <- g5, vhost <- g6, route <- g7,
    left <- g8, payload <- g9, seen <- g10, answer <- g11, forwardedHeaders <- g12,
    logged <- g13

\* The tag v0.160.2 can be moved, and the catalog of one commit is empty.
ReleaseCommits == [t \in {"v0.160.1", "v0.160.2"} |-> IF t = "v0.160.1" THEN {"c1"} ELSE {"c2", "c3", "c4"}]
Tool(name, t) == [repo |-> name, tag |-> t, pinned |-> TRUE]
CommitCatalog ==
    [c1 |-> {Tool("tool", "t1")}, c2 |-> {Tool("tool", "t2"), Tool("agent", "a")}, c3 |-> {}, c4 |-> {Tool("agent", "b")}]

Airgap == INSTANCE AirgapList WITH
    Commits <- ReleaseCommits, Catalog <- CommitCatalog, GIBSON_IMAGE_REPO <- "gibson",
    FirstParty <- {"gibson", "launcher", "tool", "agent"}, Mirror <- {"neo4j"},
    OnGhcr <- {"gibson", "launcher", "tool", "agent", "neo4j", "spire"}, source <- g1,
    packaged <- g2, named <- g3, fileRef <- g4, txt <- g5, yml <- g6, pc <- g7, check <- g8,
    tag <- g9, commit <- g10, found <- g11, dispatch <- g12, verdict <- g13

Bump == INSTANCE BumpDigest WITH
    Images <- {"gibson", "docs-site"}, Refs <- {"v1", "v2"}, Digests <- {"d1", "d2"},
    MaxMoves <- 1, values <- g1, registry <- g2, moves <- g3, op <- g4, at <- g5, pin <- g6,
    buffer <- g7, failed <- g8, exit <- g9, asked <- g10

ChartFiles == [gibson |-> {"workloads", "common"}, workloads |-> {"common"}, common |-> {}]

Release == INSTANCE ReleaseScripts WITH
    Files <- ChartFiles, CHARTS <- <<"workloads", "gibson">>, Versions <- {1, 2},
    source <- g1, declared <- g2, pkg <- g3, stamp <- g4, building <- g5,
    answer <- g6, packed <- g7, edited <- g8, PageSize <- 2, MAX_PAGES <- 4, MIN_TAGS <- 2, published <- g1,
    atStart <- g2, asked <- g3, from <- g4, cursor <- g5, pages <- g6, tags <- g7, pair <- g8,
    FirstSegment <- [tl |-> 1, log |-> 0, seg |-> 253], MaxSegments <- 5, MaxTimeline <- 2,
    current <- g1, waiting <- g2, archive <- g3, backup <- g4, filled <- g5, walVerdict <- g6

Argv == INSTANCE ArgvGuard WITH
    text <- g1, file <- g2, container <- g3, argvVerdict <- g4, held <- g5, onArgv <- g6

Shell == INSTANCE ShellRuns WITH
    script <- g1, traceVerdict <- g2, pc <- g3, xtrace <- g4, values <- g5, traced <- g6,
    Lines <- 3, Capacity <- 2, repo <- g1, step <- g2, pipeVerdict <- g3, running <- g4,
    written <- g5, match <- g6, pipe <- g7, status <- g8

Secure == INSTANCE SecurePod

\* The fixtures that the modules take from the selftests.
ArgvTexts == Argv!CASES \cup Argv!VALUES_CASES \cup Argv!Flows \cup Argv!Chains
HookFixtures == {{Hooks!SHIPPED, f} : f \in Hooks!FIXTURES}
TraceScripts == SeqOf(Shell!SHAPES, 4) \cup Shell!CASES

(***************************************************************************)
(* Guards that keep no state: a render, and whether it has been judged.    *)
(***************************************************************************)
ReadOnly == {"secure-pod", "ratchet", "daemon-callers", "velero", "policy-type", "network-peers", "owner-readers"}
ReadInit ==
    /\ \/ gate = "secure-pod" /\ g1 \in {<<docs, s>> : docs \in {Secure!InReleaseNamespace(Secure!SECURE)} \cup
                UNION {Secure!Insecure(d) \cup Secure!PortItems(d) : d \in {Secure!SECURE} \cup Secure!Insecure(Secure!SECURE)}, s \in Secure!InstallScripts}
       \/ gate = "ratchet" /\ g1 \in Secure!Ratchets \X Secure!Granted
       \/ gate = "daemon-callers" /\ g1 \in Net!RENDERS
       \/ gate = "velero" /\ g1 \in Net!DATAPATH_RENDERS
       \/ gate = "policy-type" /\ g1 \in Net!POLICY_RENDERS
       \/ gate = "network-peers" /\ g1 \in Net!PEER_RENDERS \X Net!EXEMPTIONS
       \/ gate = "owner-readers" /\ g1 \in Rbac!Charts
    /\ g2 = <<>> /\ Idle2

\* check-owner-credential-readers.py keeps what it found for both its modes.
JudgeRender ==
    /\ gate \in ReadOnly /\ g2 = <<>>
    /\ g2' = IF gate = "owner-readers" THEN <<Rbac!rendered_findings({g1}, Rbac!Owner)>> ELSE <<"judged">>
    /\ UNCHANGED <<g1, Rest2>>

Init ==
    \/ ToolsInit
    \/ ReadInit
    \/ gate = "kubectl-rbac" /\ Kubectl!Init /\ Idle6
    \/ gate = "secret-reads" /\ Reads!Init /\ Idle10
    \/ gate = "edge" /\ Envoy!EdgeInit /\ Idle13
    \/ gate = "airgap" /\ Airgap!AirgapInit(Airgap!CHARTS) /\ Idle13
    \/ gate = "bump-digest" /\ Bump!BumpInit(Bump!VALUES) /\ Idle10
    \/ gate = "chart-deps" /\ Release!DepsInit /\ Idle8
    \/ gate = "argv" /\ Argv!ArgvInit(ArgvTexts, Argv!SHELL_FILES, Argv!RENDERS) /\ Idle6
    \/ gate = "xtrace" /\ Shell!TraceInit(TraceScripts) /\ Idle6
    \/ gate = "pipe" /\ Shell!PipeInit(Shell!TEXTS, Shell!STEPS) /\ Idle8
    \/ gate = "upgrade-pair" /\ Release!PairInit(Release!HELD) /\ Idle8
    \/ gate = "wal" /\ Release!WalInit /\ Idle6

Next ==
    \/ ToolsNext
    \/ JudgeRender
    \/ gate = "kubectl-rbac" /\ Kubectl!Next /\ UNCHANGED Rest6
    \/ gate = "secret-reads" /\ Reads!Next /\ UNCHANGED Rest10
    \/ gate = "edge" /\ Envoy!EdgeNext /\ UNCHANGED Rest13
    \/ gate = "airgap" /\ Airgap!AirgapNext(Airgap!CHARTS) /\ UNCHANGED Rest13
    \/ gate = "bump-digest" /\ Bump!BumpNext /\ UNCHANGED Rest10
    \/ gate = "chart-deps" /\ Release!DepsNext /\ UNCHANGED Rest8
    \/ gate = "argv" /\ Argv!ArgvNext /\ UNCHANGED Rest6
    \/ gate = "xtrace" /\ Shell!TraceNext /\ UNCHANGED Rest6
    \/ gate = "pipe" /\ Shell!PipeNext /\ UNCHANGED Rest8
    \/ gate = "upgrade-pair" /\ Release!PairNext /\ UNCHANGED Rest8
    \/ gate = "wal" /\ Release!WalNext /\ UNCHANGED Rest6

Spec == Init /\ [][Next]_vars

(***************************************************************************)
(* Properties.                                                             *)
(***************************************************************************)
\* No Role is too small for the scripts of the pods.  When
\* check-kubectl-rbac.py passes a script, the API server allows each request
\* of it, in whatever order the two processes of a pipe reach the log; when
\* check-secret-reads-granted.py passes a container, no run of its script asks
\* for a Secret that the API server refuses.
GrantsSuffice ==
    /\ gate = "kubectl-rbac" => Kubectl!PassMeansAuthorized /\ Kubectl!PipesPaired
    /\ gate = "secret-reads" => Reads!NoReadRefused

\* check-owner-credential-readers.py names every account that reads the owner
\* credentials or takes over one that does, the same ones in a render as in a
\* cluster, and its allowlist holds each of them and none more.
OwnerReadersFound ==
    gate = "owner-readers" /\ g2 # <<>> =>
        /\ Rbac!ReadersAgree(g1, Rbac!Owner, g2[1])
        /\ Rbac!TakeoversFound(g1, Rbac!Owner, g2[1])
        /\ Rbac!AllowlistTight(g1, Rbac!Owner, g2[1])

\* Where the pod and network guards pass a render, the datapath carries what
\* they promise and no more: no packet to a data store, to the world or from a
\* strange namespace without the label for it; the callers of the daemon and
\* the data path pods of Velero reach what they dial, and one bucket.  The
\* exceptions file covers no finding that it was not made for.
IsolationHolds ==
    /\ gate = "secure-pod" => Secure!IsolationHolds(g1[1], {53, 80}) /\ Secure!ReleaseRestricted(g1[1], g1[2])
    /\ gate = "ratchet" => Secure!RatchetHolds({g1[1][1]}, {g1[1][2]}, g1[2], "restricted")
    /\ gate = "daemon-callers" => Net!CallersReach(g1)
    /\ gate = "velero" => Net!BackupsRun(g1, Net!FixturePods) /\ Net!OneBucket(g1, Net!FixturePods)
    /\ gate = "policy-type" => Net!OneTypeDecides(g1, {Net!World})
    /\ gate = "network-peers" => Net!PeersNarrow(g1[1], g1[2], Net!Stranger) /\ Net!ExemptionsNeeded(g1[1], g1[2])

\* An edge that the guards pass lets no request choose an instance, bring a
\* forged x-jwt-payload, be answered for another authority than the one of its
\* connection, or leave a credential in the access log.  No request that the
\* route guard plays reaches the admin APIs of Zitadel or changes a name, and
\* no other one like it does on an edge whose refusals are not narrow.
EdgeShielded ==
    gate = "edge" => /\ Envoy!ZitadelShielded /\ Envoy!LiveAgrees /\ Envoy!CoalescedGets421
                     /\ Envoy!PayloadNotForged /\ Envoy!InstanceNotChosen /\ Envoy!LogHoldsNoCredential

\* What a release ships is what was checked: the air-gap list is complete and
\* of one run, each bumped or resolved pin renders the digest that was asked
\* for, a fresh chart renders its own sources, the upgrade test runs an upgrade
\* that users make, and a backup that is called restorable replays.
ReleaseHolds ==
    /\ gate = "airgap" => Airgap!ListComplete /\ Airgap!FilesOfOneRun
    /\ gate = "bump-digest" => Bump!SinglePinBumped /\ Bump!ResolvedIsPublished
    /\ gate = "chart-deps" => Release!FreshRenders
    /\ gate = "upgrade-pair" => Release!PairAdjacent
    /\ gate = "wal" => Release!WalReplays

\* A shell text that the guards pass puts no secret on a word of an argv that
\* they judge or into the trace of bash -x, and the status of its pipelines is
\* the answer of grep.  The chains, names and libraries that the guards do not
\* follow are the conditions of ArgvClean and StatusTrue.
ShellGuardsHold ==
    /\ gate = "argv" => Argv!ArgvClean
    /\ gate = "xtrace" => Shell!TraceClean
    /\ gate = "pipe" => Shell!StatusTrue

=============================================================================
