---------------------------- MODULE TokenWriters ----------------------------
(***************************************************************************)
(* scripts/check-zitadel-token-writers.py and the install that it guards:  *)
(* the Zitadel setup Job mints the first login-client PAT once, its sidecar *)
(* login-client-pat-store (values.yaml of the chart gibson) writes it to    *)
(* OpenBao, and an ExternalSecret writes the Secret.  Argo starts a wave    *)
(* when the one before it is Healthy.                                       *)
(*                                                                          *)
(* chart is what the guard reads of a render.  PATs are numbered: PAT n is  *)
(* the first PAT of the n-th Zitadel instance, valid for that one only.     *)
(***************************************************************************)
EXTENDS Integers, FiniteSets

CONSTANTS MaxCrashes \* pods of the Job that are lost, and syncs that start again

VARIABLES chart,
          database,  \* the instance in the database
          made,      \* instances that were ever made
          entry,     \* the PAT that OpenBao holds
          file,      \* /login-client/pat of the pod
          stored, job, log, wave, secret, login, crashes

patVars == <<chart, wave, database, made, entry, file, stored, job, log, secret, login, crashes>>

None == 0

(***************************************************************************)
(* The guard: its findings, in the order of the script.                    *)
(***************************************************************************)
ZITADEL_ENTRIES == [login_client |-> {"pat"}, iam_admin_pat |-> {"pat", "userId"}]

es_findings(target, es) ==
    IF ~es.present THEN {"no ExternalSecret"}
    ELSE {f \in {"not Owner", "does not read", "does not write"} :
            CASE f = "not Owner" -> es.creationPolicy # "Owner"
              [] f = "does not read" -> ~(ZITADEL_ENTRIES[target] \subseteq es.reads)
              [] f = "does not write" -> ~(ZITADEL_ENTRIES[target] \subseteq es.writes)}

\* Mutant: the ExternalSecret may wait for the operator.
wave_findings_after(c) ==
    IF c.setup /\ c.login_client.present /\ ~(c.setup_wave < c.login_client.wave) THEN {"login-client wave"} ELSE {}

wave_findings(c) ==
    (IF c.setup /\ c.login_client.present
        /\ ~(c.setup_wave < c.login_client.wave /\ c.login_client.wave < 0) THEN {"login-client wave"} ELSE {})
    \cup (IF c.iam_admin_pat.present /\ c.iam_admin_pat.wave < c.operator_wave THEN {"ahead of the operator"} ELSE {})

writer_findings(c) ==
    {<<"FirstInstance.Org", b>> : b \in c.config_blocks}
    \cup {<<"kubectl", k>> : k \in c.kubectl}
    \cup (IF c.granted THEN {<<"bound", "gibson-zitadel">>} ELSE {})
    \cup (IF c.escrow THEN {<<"renders", "iam-admin-pat-escrow">>} ELSE {})

steps_findings(c) ==
    (IF "Machine" \in c.steps_blocks THEN {"steps create Machine"} ELSE {})
    \cup (IF "LoginClient" \notin c.steps_blocks THEN {"nothing mints"} ELSE {})

\* Nothing is asked of a Job without a container of that name, as when the
\* container has another one.
setup_findings(c) ==
    IF "zitadel-setup" \notin c.setup_has THEN {} ELSE {"--steps", "/login-client"} \ c.setup_has

STORE_HAS == {"present", "restartPolicy Always", "trap", "metadata", "key", "pat file", "one Secret", "same user"}

\* Mutant: the writer Job must be there, whatever it does.
store_findings_present(c) == {f \in {"present"} : f \notin c.store_has}

store_findings(c) ==
    IF "present" \notin c.store_has THEN {"present"}
    ELSE (STORE_HAS \ c.store_has) \ (IF "zitadel-setup" \in c.setup_has THEN {} ELSE {"same user"})

POLICY == {<<"data", "create">>, <<"data", "update">>, <<"metadata", "read">>}

bao_findings(c) ==
    (IF c.minted THEN {} ELSE {"no token"})
    \cup (IF c.policy = POLICY THEN {} ELSE {"policy"})
    \cup (IF c.reaches THEN {} ELSE {"8200"})

\* TRUE when check finds nothing.
check(c) ==
    /\ es_findings("login_client", c.login_client) = {} /\ es_findings("iam_admin_pat", c.iam_admin_pat) = {}
    /\ ~c.iam_admin
    /\ wave_findings(c) = {} /\ writer_findings(c) = {} /\ steps_findings(c) = {}
    /\ c.setup /\ setup_findings(c) = {} /\ store_findings(c) = {} /\ bao_findings(c) = {}

(***************************************************************************)
(* The shipped chart, and the planted fixtures of the selftest.            *)
(***************************************************************************)
SHIPPED ==
    [login_client  |-> [present |-> TRUE, creationPolicy |-> "Owner", reads |-> {"pat"}, writes |-> {"pat"}, wave |-> -1],
     iam_admin_pat |-> [present |-> TRUE, creationPolicy |-> "Owner", reads |-> {"pat", "userId"},
                        writes |-> {"pat", "userId"}, wave |-> 0],
     iam_admin |-> FALSE, operator_wave |-> 0, setup |-> TRUE, setup_wave |-> -3,
     config_blocks |-> {}, kubectl |-> {}, granted |-> FALSE, escrow |-> FALSE,
     steps_blocks |-> {"LoginClient"}, setup_has |-> {"zitadel-setup", "--steps", "/login-client"},
     store_has |-> STORE_HAS, minted |-> TRUE, policy |-> POLICY, reaches |-> TRUE]

edit(c, e) ==
    CASE e = "login-client removed"      -> [c EXCEPT !.login_client.present = FALSE]
      [] e = "iam-admin-pat removed"     -> [c EXCEPT !.iam_admin_pat.present = FALSE]
      [] e = "login-client on Orphan"    -> [c EXCEPT !.login_client.creationPolicy = "Orphan"]
      [] e = "iam-admin-pat on Orphan"   -> [c EXCEPT !.iam_admin_pat.creationPolicy = "Orphan"]
      [] e = "without userId"            -> [c EXCEPT !.iam_admin_pat.reads = @ \ {"userId"}]
      [] e = "writes iam-admin"          -> [c EXCEPT !.iam_admin = TRUE]
      [] e = "login-client at wave 1"    -> [c EXCEPT !.login_client.wave = 1]
      [] e = "login-client at the setup" -> [c EXCEPT !.login_client.wave = c.setup_wave]
      [] e = "iam-admin-pat ahead"       -> [c EXCEPT !.iam_admin_pat.wave = -1]
      [] e = "config LoginClient"        -> [c EXCEPT !.config_blocks = @ \cup {"LoginClient"}]
      [] e = "config Machine"            -> [c EXCEPT !.config_blocks = @ \cup {"Machine"}]
      [] e = "kubectl writer"            -> [c EXCEPT !.kubectl = @ \cup {"create secret"}]
      [] e = "kubectl call"              -> [c EXCEPT !.kubectl = @ \cup {"get pod"}]
      [] e = "pod-read Role"             -> [c EXCEPT !.granted = TRUE]
      [] e = "no steps file"             -> [c EXCEPT !.steps_blocks = {}]
      [] e = "store removed"             -> [c EXCEPT !.store_has = {}]
      [] e = "plain init container"      -> [c EXCEPT !.store_has = @ \ {"restartPolicy Always"}]
      [] e = "no SIGTERM trap"           -> [c EXCEPT !.store_has = @ \ {"trap"}]
      [] e = "no metadata check"         -> [c EXCEPT !.store_has = @ \ {"metadata"}]
      [] e = "another key"               -> [c EXCEPT !.store_has = @ \ {"key"}]
      [] e = "another Secret"            -> [c EXCEPT !.store_has = @ \ {"one Secret"}]
      [] e = "another user"              -> [c EXCEPT !.store_has = @ \ {"same user"}]
      [] e = "policy reads the value"    -> [c EXCEPT !.policy = (@ \ {<<"metadata", "read">>}) \cup {<<"data", "read">>}]
      [] e = "without the OpenBao label" -> [c EXCEPT !.reaches = FALSE]
      [] e = "escrow back"               -> [c EXCEPT !.escrow = TRUE]
      [] e = "setup renamed"             -> [c EXCEPT !.setup_has = @ \ {"zitadel-setup"}]
      [] e = "no --steps"                -> [c EXCEPT !.setup_has = @ \ {"--steps"}]
      [] e = "iam-admin-pat later"       -> [c EXCEPT !.iam_admin_pat.wave = 1]
      [] e = "login-client earlier"      -> [c EXCEPT !.login_client.wave = -2]

EDITS ==
    {"login-client removed", "iam-admin-pat removed", "login-client on Orphan",
     "iam-admin-pat on Orphan", "without userId", "writes iam-admin",
     "login-client at wave 1", "login-client at the setup", "iam-admin-pat ahead",
     "config LoginClient", "config Machine", "kubectl writer", "kubectl call",
     "pod-read Role", "no steps file", "store removed", "plain init container",
     "no SIGTERM trap", "no metadata check", "another key", "another Secret",
     "another user", "policy reads the value", "without the OpenBao label", "escrow back",
     "iam-admin-pat later", "login-client earlier", "setup renamed", "no --steps"}

(***************************************************************************)
(* The install.                                                            *)
(***************************************************************************)
\* A fresh install; a restore (the database and OpenBao are back, no Secret
\* is); and a new database below an OpenBao that was kept, with the Secret or
\* without it.
PatInit(charts) ==
    /\ chart \in charts
    /\ \/ database = None /\ made = 0 /\ entry = None
       \/ database = 1 /\ made = 1 /\ entry = 1
       \/ database = None /\ made = 1 /\ entry = 1
    /\ wave = -3 /\ job = "none" /\ file = None /\ stored = FALSE /\ log = ""
    /\ secret \in {None} \cup (IF database = None THEN {entry} ELSE {})
    /\ login = None /\ crashes = 0

Has(f) == f \in chart.store_has

\* The pod of the setup Job: its volumes are empty.
StartSetup ==
    /\ chart.setup /\ job = "none" /\ wave = chart.setup_wave
    \* A plain init container never ends, so the setup container never starts.
    /\ Has("present") => Has("restartPolicy Always")
    /\ job' = "running" /\ file' = None /\ stored' = FALSE /\ log' = ""
    /\ UNCHANGED <<chart, wave, database, made, entry, secret, login, crashes>>

\* zitadel setup: a database with no instance gets one, and only then is the
\* PAT of the login client written to the file.
Mint ==
    /\ job = "running" /\ database = None
    /\ database' = made + 1 /\ made' = made + 1
    /\ file' = IF {"--steps", "/login-client"} \subseteq chart.setup_has /\ "LoginClient" \in chart.steps_blocks
               THEN made + 1 ELSE None
    /\ UNCHANGED <<chart, wave, entry, stored, job, log, secret, login, crashes>>

Writes == bao_findings(chart) = {} /\ {"key", "pat file", "one Secret", "same user"} \subseteq chart.store_has

\* store: the write is made and answered, made with the answer lost, or not made.
Store ==
    \/ Writes /\ entry' = file /\ stored' \in BOOLEAN
    \/ UNCHANGED <<entry, stored>>

SidecarLoop ==
    /\ job = "running" /\ Has("present") /\ file # None /\ ~stored
    /\ Store
    /\ UNCHANGED <<chart, wave, database, made, file, job, log, secret, login, crashes>>

\* The setup container stops with 0: the kubelet sends SIGTERM, finish runs.
\* The exit code of a sidecar does not fail the Job.
Finish ==
    /\ job = "running" /\ database # None
    /\ IF ~(Has("present") /\ Has("trap")) THEN log' = "" /\ UNCHANGED <<entry, stored>>
       ELSE IF stored THEN log' = "STORED" /\ UNCHANGED <<entry, stored>>
       ELSE IF file # None THEN Store /\ log' = (IF stored' THEN "STORED" ELSE "ERROR")
       ELSE /\ \/ (~Has("metadata") \/ (entry # None /\ bao_findings(chart) = {})) /\ log' = "existed before"
               \/ Has("metadata") /\ log' = "ERROR"   \* no entry, or a read that fails
            /\ UNCHANGED <<entry, stored>>
    /\ job' = "complete" /\ file' = None
    /\ UNCHANGED <<chart, wave, database, made, secret, login, crashes>>

\* The pod is lost, or the deadline of the Job passes, and Argo retries the
\* hook; or a later sync starts from its first wave.
Crash ==
    /\ crashes < MaxCrashes
    /\ \/ job = "running" /\ UNCHANGED wave
       \/ wave = 1 /\ job = "complete" /\ wave' = -3
    /\ job' = "none" /\ file' = None /\ stored' = FALSE /\ crashes' = crashes + 1
    /\ UNCHANGED <<chart, database, made, entry, log, secret, login>>

\* The ExternalSecret of a wave that has started.
Refresh ==
    /\ chart.login_client.present /\ wave >= chart.login_client.wave
    /\ entry # None /\ secret # entry /\ secret' = entry
    /\ UNCHANGED <<chart, wave, database, made, entry, file, stored, job, log, login, crashes>>

\* A writer that is not the ExternalSecret: kubectl in a container of a
\* Zitadel Job, or the copy hook.
SecondWriter ==
    /\ job = "running" /\ file # None /\ secret # file
    /\ chart.config_blocks # {} \/ "create secret" \in chart.kubectl \/ chart.escrow
    /\ secret' = file
    /\ UNCHANGED <<chart, wave, database, made, entry, file, stored, job, log, login, crashes>>

Healthy ==
    /\ wave = chart.setup_wave => job = "complete"
    /\ chart.login_client.present /\ wave = chart.login_client.wave => secret # None
    /\ chart.iam_admin_pat.present /\ wave = chart.iam_admin_pat.wave => wave >= chart.operator_wave
    /\ wave = 0 => login # None

Advance ==
    /\ wave < 1 /\ Healthy /\ wave' = wave + 1
    /\ UNCHANGED <<chart, database, made, entry, file, stored, job, log, secret, login, crashes>>

\* zitadel-login mounts the Secret at wave 0; reloader restarts it when the
\* Secret changes.
LoginStarts ==
    /\ wave >= 0 /\ secret # None /\ login # secret
    /\ login' = secret
    /\ UNCHANGED <<chart, wave, database, made, entry, file, stored, job, log, secret, crashes>>

PatNext ==
    \/ StartSetup \/ Mint \/ SidecarLoop \/ Finish \/ Crash
    \/ Refresh \/ SecondWriter \/ Advance \/ LoginStarts

\* The sidecar's write succeeds again and again while OpenBao answers.
PatFairness ==
    /\ WF_patVars(StartSetup) /\ WF_patVars(Mint) /\ WF_patVars(Finish)
    /\ WF_patVars(Refresh) /\ WF_patVars(Advance) /\ WF_patVars(LoginStarts)

(***************************************************************************)
(* Properties of an install of a chart that the guard passed.               *)
(***************************************************************************)
\* "so a lost first PAT never passes as success" (tests/
\* zitadel-login-client-pat-store.bats:7): a setup run that ends while OpenBao
\* does not hold the PAT of the instance ends with an ERROR in the log.  It is
\* false below an OpenBao that was kept: finish takes the entry of an instance
\* that is gone for the one of this instance, when the pod that minted was lost,
\* or when the setup container has another name and mints nothing.
LostIsLoud ==
    check(chart) /\ job = "complete" /\ entry # database =>
        \/ log = "ERROR"
        \/ entry # None /\ (crashes > 0 \/ "zitadel-setup" \notin chart.setup_has)

\* The Secret is never ahead of OpenBao, so that a restore of OpenBao brings
\* back the Secret that the pods had, or a later one (docstring, lines 13-15).
SecretIsRestorable == check(chart) => secret <= entry

\* The waves do not deadlock: an install reaches the last wave with the login
\* pods up, whatever the chart that passes, unless the first PAT was lost, no
\* other is in OpenBao, and the log says so.
InstallEnds == check(chart) => <>(wave = 1 \/ (entry = None /\ log = "ERROR"))
=============================================================================
