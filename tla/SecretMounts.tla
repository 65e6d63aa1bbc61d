---------------------------- MODULE SecretMounts ----------------------------
(***************************************************************************)
(* How a value of the store reaches the process that reads it, and the     *)
(* three guards over that way: check-cg-rotation-window.py (judge),        *)
(* check-login-token-mounted.py (findings) and                             *)
(* check-reloader-namespaced.py (violations, rollout_mismatch).            *)
(*                                                                         *)
(* External Secrets reads the store with one request per property, so a    *)
(* Secret can join the kid of one version with the key of the next one.    *)
(* The daemon follows the files of its volume; every other process reads   *)
(* them once at start and relies on Reloader for a restart.                *)
(***************************************************************************)
EXTENDS Naturals, Sequences, FiniteSets, TLC

CONSTANTS MaxWrites   \* writes of the store in one behaviour

VARIABLES mRender, mPassed, mWork, mStore, mFetched, mSecret, mPhase, mLoaded,
          mChanged

mountVars == <<mRender, mPassed, mWork, mStore, mFetched, mSecret, mPhase,
               mLoaded, mChanged>>

----------------------------------------------------------------------------
(* Documents.  A Secret is a function from its keys to values, empty when   *)
(* it does not exist; a value is the property it was read from and the      *)
(* version of the store.                                                    *)

SECRET == "gibson-gibson-workloads-cg-signing-key"
BACKEND == "gibson-cg-signing-key"
NEXT_BACKEND == "gibson-cg-signing-key-next"
PREVIOUS_BACKEND == "gibson-cg-signing-key-previous"
MOUNT == "/etc/gibson/cg-signing-key"
ENV_VAR == "GIBSON_CGJWT_SIGNING_KEY_DIR"
LOGIN_SECRET == "login-client"
NS == "gibson"

Empty == [ref |-> <<"", "">>, v |-> 0]
NoSecret == [k \in {} |-> Empty]
NoWork == [name |-> ""]

(* f.replace(".", "_") *)
placeholder == ("current.kid" :> "current_kid") @@ ("current.key" :> "current_key")
               @@ ("next.kid" :> "next_kid") @@ ("next.key" :> "next_key")
               @@ ("previous.kid" :> "previous_kid") @@ ("previous.key" :> "previous_key")

want_files == DOMAIN placeholder
want_refs == {BACKEND, NEXT_BACKEND, PREVIOUS_BACKEND} \X {"kid", "key"}

Entries(e) == {e.data[i] : i \in DOMAIN e.data}
MountedAt(w, dir) == {v \in w.volumes : \E m \in w.mounts : m = <<v.name, dir>>}

----------------------------------------------------------------------------
(* check-cg-rotation-window.py *)

external_secret(r) == {e \in r.externals : e.name = SECRET}
daemon(r) == {w \in r.workloads : w.kind = "StatefulSet" /\ w.dirFrom = ENV_VAR}

slot_findings(e) ==
    LET refs == {d.ref : d \in Entries(e)}
        keys == {d.secretKey : d \in Entries(e)}
    IN {f \in {"files"} : e.files # want_files}
       \cup {f \in {"refs"} : refs # want_refs}
       \cup {f \in e.files : f \notin want_files \/ placeholder[f] \notin keys}

volume_findings(w) ==
    LET v == {x \in w.volumes : x.name = "cg-signing-key"}
    IN {f \in {"no volume"} : v = {}}
       \cup {f \in {"other Secret"} : \E x \in v : x.secret # SECRET}
       \cup {f \in {"not optional"} : \E x \in v : x.secret = SECRET /\ ~x.optional}
       \cup {f \in {"dir"} : w.dir # MOUNT}
       \cup {f \in {"mountPath"} : \E m \in w.mounts : m[1] = "cg-signing-key" /\ m[2] # MOUNT}

\* Mutant: the slots of the ExternalSecret are not compared.
judge_files_only(r) ==
    IF external_secret(r) = {} THEN {"no ExternalSecret"}
    ELSE {f \in {"files"} : \E e \in external_secret(r) : e.files # want_files}
         \cup UNION {volume_findings(w) : w \in daemon(r)}

judge(r) ==
    IF external_secret(r) = {} THEN {"no ExternalSecret"}
    ELSE UNION {slot_findings(e) : e \in external_secret(r)}
         \cup {f \in {"no StatefulSet"} : daemon(r) = {}}
         \cup UNION {volume_findings(w) : w \in daemon(r)}

----------------------------------------------------------------------------
(* check-login-token-mounted.py *)

login_deployment(r) == {w \in r.workloads : w.kind = "Deployment" /\ w.name = "login"}

secret_keys(r, name) == UNION {e.files : e \in {x \in r.externals : x.target = name}}

projected(v, filename, keys) ==
    IF v.items # {} THEN <<filename, filename>> \in v.items /\ filename \in keys
    ELSE filename \in keys

findings(r) ==
    IF login_deployment(r) = {} THEN {"no login Deployment"}
    ELSE UNION {LET at == MountedAt(w, w.dir)
                IN {f \in {"not mounted"} : at = {}}
                   \cup {v.name : v \in {x \in at : x.secret # LOGIN_SECRET}}
                   \cup {f \in DOMAIN w.wants : \E v \in at :
                           v.secret = LOGIN_SECRET
                           /\ ~projected(v, f, secret_keys(r, LOGIN_SECRET))}
                : w \in login_deployment(r)}

----------------------------------------------------------------------------
(* check-reloader-namespaced.py *)

violations(x) ==
    {f \in {"secrets cluster-wide"} : "secrets" \in x.clusterRole}
    \cup {f \in {"ClusterRoleBinding"} : x.bound}
    \cup {f \in {"no KUBERNETES_NAMESPACE"} : ~x.namespaced}

annotated(w) == w.reload # {}

\* The workloads of the release namespace that ask for restarts.
want(r) == {<<w.kind, w.name>> : w \in {x \in r.workloads : x.ns = NS /\ annotated(x)}}
have(r) == UNION {{rule.kind} \X rule.names : rule \in r.role}

\* Mutant: a workload that the Role leaves out is not reported.
rollout_unused_only(r) == have(r) \ want(r)

rollout_mismatch(r) ==
    IF \E rule \in r.role : rule.names = {} THEN {<<"Role", "every workload">>}
    ELSE (want(r) \ have(r)) \cup (have(r) \ want(r))

Passes(r) == /\ judge(r) = {} /\ findings(r) = {}
             /\ violations(r.reloader) = {} /\ rollout_mismatch(r) = {}

----------------------------------------------------------------------------
(* The install: one workload of the render is followed.                     *)

Sources(w) == {e \in mRender.externals : \E v \in w.volumes : v.secret = e.target}
Backends(w) == {w.wants[f][1] : f \in DOMAIN w.wants}
Stored(b) == b \in DOMAIN mStore /\ mStore[b] > 0

\* mounted are the renders.
MountInit(mounted) ==
    /\ mRender \in mounted
    /\ mPassed = "unread" /\ mWork = NoWork /\ mPhase = "none"
    /\ mStore = [b \in {} |-> 0] /\ mFetched = <<>> /\ mSecret = NoSecret
    /\ mLoaded = NoSecret /\ mChanged = FALSE

(* make: the guards judge the render, and a clean one is installed.  The    *)
(* store is empty, or an earlier install seeded it.                         *)
MountGuardRuns ==
    /\ mPassed = "unread"
    /\ IF Passes(mRender)
       THEN \E w \in mRender.workloads, n \in 0..1 :
              /\ mPassed' = "pass" /\ mWork' = w /\ mPhase' = "Pending"
              /\ mStore' = [b \in Backends(w) |-> n]
       ELSE mPassed' = "fail" /\ UNCHANGED <<mWork, mPhase, mStore>>
    /\ UNCHANGED <<mRender, mFetched, mSecret, mLoaded, mChanged>>

(* A rotation writes both properties of one backend in one version. *)
WriteStore ==
    /\ mPassed = "pass"
    /\ \E b \in DOMAIN mStore :
         /\ mStore[b] < MaxWrites
         /\ mStore' = [mStore EXCEPT ![b] = @ + 1]
    /\ UNCHANGED <<mRender, mPassed, mWork, mFetched, mSecret, mPhase, mLoaded, mChanged>>

(* One request of a refresh; a missing property fails the refresh. *)
Fetch ==
    /\ mPassed = "pass"
    /\ \E e \in Sources(mWork) :
         /\ Len(mFetched) < Len(e.data)
         /\ LET d == e.data[Len(mFetched) + 1]
            IN /\ Stored(d.ref[1])
               /\ mFetched' = Append(mFetched, [key |-> d.secretKey,
                                                val |-> [ref |-> d.ref, v |-> mStore[d.ref[1]]]])
    /\ UNCHANGED <<mRender, mPassed, mWork, mStore, mSecret, mPhase, mLoaded, mChanged>>

(* The refresh ends: the template becomes the Secret. *)
Answer(k) == LET at == {i \in DOMAIN mFetched : mFetched[i].key = k}
             IN IF at = {} THEN Empty ELSE mFetched[CHOOSE i \in at : TRUE].val

Apply ==
    /\ mPassed = "pass"
    /\ \E e \in Sources(mWork) :
         /\ Len(mFetched) = Len(e.data)
         /\ mSecret' = [f \in e.files |-> Answer(e.template[f])]
    /\ mFetched' = <<>>
    /\ mChanged' = (mChanged \/ mSecret' # mSecret)
    /\ UNCHANGED <<mRender, mPassed, mWork, mStore, mPhase, mLoaded>>

(* What the process finds in its directory. *)
View(w) ==
    [f \in DOMAIN w.wants |->
        LET found == {k \in DOMAIN mSecret :
                        \E v \in MountedAt(w, w.dir) :
                          /\ \E e \in Sources(w) : e.target = v.secret
                          /\ IF v.items = {} THEN k = f ELSE <<k, f>> \in v.items}
        IN IF found = {} THEN Empty ELSE mSecret[CHOOSE k \in found : TRUE]]

(* The kubelet starts the pod once every required Secret exists. *)
StartPod ==
    /\ mPhase = "Pending"
    /\ \A v \in mWork.volumes : v.optional \/ (mSecret # NoSecret /\ Sources(mWork) # {})
    /\ mPhase' = "Running" /\ mLoaded' = View(mWork)
    /\ UNCHANGED <<mRender, mPassed, mWork, mStore, mFetched, mSecret, mChanged>>

(* The kubelet refreshes the volume and the daemon reads the files again. *)
Follow ==
    /\ mPhase = "Running" /\ mWork.follows
    /\ mLoaded' = View(mWork) /\ mLoaded' # mLoaded
    /\ UNCHANGED <<mRender, mPassed, mWork, mStore, mFetched, mSecret, mPhase, mChanged>>

(* Reloader sees a Secret only where its informers may list them, and       *)
(* patches what its Role names in its own namespace.                        *)
Reload ==
    /\ mPhase = "Running" /\ mChanged /\ mWork.ns = NS
    /\ mRender.reloader.namespaced \/ (mRender.reloader.bound
                                       /\ "secrets" \in mRender.reloader.clusterRole)
    /\ \E v \in mWork.volumes : v.secret \in mWork.reload
    /\ \E rule \in mRender.role : rule.kind = mWork.kind
                                  /\ (rule.names = {} \/ mWork.name \in rule.names)
    /\ mPhase' = "Pending" /\ mChanged' = FALSE
    /\ UNCHANGED <<mRender, mPassed, mWork, mStore, mFetched, mSecret, mLoaded>>

MountNext == \/ MountGuardRuns \/ WriteStore \/ Fetch \/ Apply
             \/ StartPod \/ Follow \/ Reload

MountFairness == /\ WF_mountVars(MountGuardRuns) /\ WF_mountVars(Fetch)
                 /\ WF_mountVars(Apply) /\ WF_mountVars(StartPod)
                 /\ WF_mountVars(Follow) /\ WF_mountVars(Reload)

----------------------------------------------------------------------------
(* The fixtures of the three selftests, as edits of one render.             *)

Volume(n, s, o) == [name |-> n, secret |-> s, optional |-> o, items |-> {}]
External(n, files, template, data) ==
    [name |-> n, target |-> n, files |-> files, template |-> template, data |-> data]
Datum(k, b, p) == [secretKey |-> k, ref |-> <<b, p>>]

CURRENT == <<Datum("current_kid", BACKEND, "kid"), Datum("current_key", BACKEND, "key")>>
NEXT == <<Datum("next_kid", NEXT_BACKEND, "kid"), Datum("next_key", NEXT_BACKEND, "key")>>
PREV == <<Datum("previous_kid", PREVIOUS_BACKEND, "kid"),
          Datum("previous_key", PREVIOUS_BACKEND, "key")>>
Slot(s) == {f \in want_files : \E d \in {s[i] : i \in DOMAIN s} : d.secretKey = placeholder[f]}

fixture(files, refs) ==
    External(SECRET, files, [f \in files |-> placeholder[f]], refs)

gibson(optional, env, mount) ==
    [kind |-> "StatefulSet", name |-> "gibson", ns |-> NS, follows |-> TRUE, reload |-> {},
     dirFrom |-> ENV_VAR, dir |-> env, volumes |-> {Volume("cg-signing-key", SECRET, optional)},
     mounts |-> {<<"cg-signing-key", mount>>}, fallback |-> TRUE,
     wants |-> ("current.kid" :> <<BACKEND, "kid">>) @@ ("current.key" :> <<BACKEND, "key">>)
            @@ ("next.kid" :> <<NEXT_BACKEND, "kid">>) @@ ("next.key" :> <<NEXT_BACKEND, "key">>)
            @@ ("previous.kid" :> <<PREVIOUS_BACKEND, "kid">>)
            @@ ("previous.key" :> <<PREVIOUS_BACKEND, "key">>)]

pat(file) == External(LOGIN_SECRET, {file}, file :> "pat",
                      <<Datum("pat", "gibson-zitadel-login-client-pat", "pat")>>)

login(volumes, path) ==
    [kind |-> "Deployment", name |-> "login", ns |-> NS, follows |-> FALSE,
     reload |-> {LOGIN_SECRET}, dirFrom |-> "dotenv", dir |-> "/login-client", volumes |-> volumes,
     mounts |-> {<<v.name, path>> : v \in volumes}, fallback |-> FALSE,
     wants |-> "pat" :> <<"gibson-zitadel-login-client-pat", "pat">>]

web == [kind |-> "Deployment", name |-> "web", ns |-> NS, follows |-> FALSE, reload |-> {"web-tls"},
        dirFrom |-> "args", dir |-> "/tls", volumes |-> {Volume("tls", "web-tls", FALSE)},
        mounts |-> {<<"tls", "/tls">>}, fallback |-> FALSE,
        wants |-> "tls.key" :> <<"web-tls", "key">>]
db == [web EXCEPT !.kind = "StatefulSet", !.name = "db", !.reload = {"web-tls"}]
web_tls == External("web-tls", {"tls.key"}, "tls.key" :> "key", <<Datum("key", "web-tls", "key")>>)

Client == Volume("login-client", LOGIN_SECRET, FALSE)
Item(p) == [Client EXCEPT !.items = {<<"pat", p>>}]
Patch(names) == [kind |-> "Deployment", names |-> names]
SHIPPED ==
    [externals |-> {fixture(want_files, CURRENT \o NEXT \o PREV), pat("pat"), web_tls},
     workloads |-> {gibson(TRUE, MOUNT, MOUNT), login({Client}, "/login-client"), web},
     role |-> {Patch({"login", "web"})},
     reloader |-> [clusterRole |-> {}, bound |-> FALSE, namespaced |-> TRUE]]

WithCg(files, refs) == [SHIPPED EXCEPT !.externals = {fixture(files, refs), pat("pat"), web_tls}]
WithGibson(w) == [SHIPPED EXCEPT !.workloads = {w, login({Client}, "/login-client"), web}]
WithLogin(ws) == [SHIPPED EXCEPT !.workloads = {gibson(TRUE, MOUNT, MOUNT), web} \cup ws]

CG_CASES ==
    {WithCg(Slot(CURRENT \o PREV), CURRENT \o PREV),
     WithCg(Slot(CURRENT \o NEXT), CURRENT \o NEXT),
     WithCg(want_files, CURRENT \o NEXT),
     WithGibson(gibson(FALSE, MOUNT, MOUNT)), WithGibson(gibson(TRUE, "/elsewhere", MOUNT))}

LOGIN_CASES ==
    {WithLogin({login({}, "/login-client")}), WithLogin({login({Client}, "/elsewhere")}),
     WithLogin({login({[Client EXCEPT !.secret = "iam-admin-pat"]}, "/login-client")}),
     WithLogin({login({Item("token")}, "/login-client")}),
     WithLogin({login({Item("pat")}, "/login-client")}), WithLogin({}),
     [SHIPPED EXCEPT !.externals = {fixture(want_files, CURRENT \o NEXT \o PREV),
                                    pat("token"), web_tls}]}

RELOADER_CASES ==
    {[SHIPPED EXCEPT !.reloader = [clusterRole |-> {"secrets", "configmaps"}, bound |-> FALSE,
                                   namespaced |-> FALSE]],
     [SHIPPED EXCEPT !.reloader.namespaced = FALSE],
     [SHIPPED EXCEPT !.workloads = @ \cup {db}],
     [SHIPPED EXCEPT !.role = {Patch({})}],
     [SHIPPED EXCEPT !.role = {Patch({"login", "web", "operator"})}]}

\* What no guard reports: a process that reads its Secret once and asks for no
\* restart, or for one on another Secret, or from another namespace, and one
\* that looks where nothing is mounted.
once == [web EXCEPT !.name = "once", !.reload = {}]
UNREPORTED ==
    {[SHIPPED EXCEPT !.workloads = @ \cup {w}] :
        w \in {once, [once EXCEPT !.reload = {"web-tls"}, !.ns = "elsewhere"],
               [once EXCEPT !.follows = TRUE, !.dir = "/elsewhere"]}}
    \cup {[SHIPPED EXCEPT !.workloads = @ \cup {[once EXCEPT !.reload = {"other-tls"}]},
                          !.role = {Patch({"login", "web", "once"})}]}

MOUNTED == {SHIPPED} \cup CG_CASES \cup LOGIN_CASES \cup RELOADER_CASES \cup UNREPORTED

----------------------------------------------------------------------------
(* The process reads its files again, or Reloader restarts it when the      *)
(* Secret of a volume changes.                                              *)
Followed(w) == w.follows \/ (w.ns = NS /\ \E v \in w.volumes : v.secret \in w.reload)
\* The process looks where a volume is mounted; judge and findings make sure
\* of it for the daemon and the login.
Placed(w) == w \in daemon(mRender) \cup login_deployment(mRender) \/ MountedAt(w, w.dir) # {}

(* Where the guards accept the render, and the store is written no more,    *)
(* the process comes to hold every stored value in the file its own code    *)
(* reads, kid and key of one version together; and the daemon runs with an  *)
(* empty directory where the store holds no key set                         *)
(* (check-cg-rotation-window.py judge, check-login-token-mounted.py         *)
(* findings, check-reloader-namespaced.py rollout_mismatch).  A process     *)
(* that reads its files once and carries no annotation for their Secret, or *)
(* one other than the daemon and the login that looks where nothing is      *)
(* mounted, runs, and no guard makes sure of what it holds.                 *)
Arrived(w) ==
    IF \A b \in Backends(w) : Stored(b)
    THEN /\ mPhase = "Running"
         /\ Followed(w) /\ Placed(w) =>
              \A f \in DOMAIN w.wants : mLoaded[f] = [ref |-> w.wants[f], v |-> mStore[w.wants[f][1]]]
    ELSE w.fallback => mPhase = "Running"

ValuesArrive == <>[](mPassed = "pass" => Arrived(mWork))
=============================================================================
