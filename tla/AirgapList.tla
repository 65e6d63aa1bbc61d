----------------------------- MODULE AirgapList -----------------------------
(***************************************************************************)
(* airgap/generate-image-list.py: the image list of an air-gapped install, *)
(* written from the rendered chart and from the catalog of the daemon that *)
(* the chart pins, and the --check of CI.  The generator writes its three  *)
(* files one after the other and reads GitHub between the first and the    *)
(* second, so it can stop with some of them written.                       *)
(*                                                                         *)
(* A reference is [repo, tag, pinned].  A chart is [profiles, velero]: the *)
(* places [via, ref] in each render that name an image.                    *)
(***************************************************************************)
EXTENDS Integers, FiniteSets

CONSTANTS Commits,    \* [release tag |-> set of commits it can name]
          Catalog,    \* [commit |-> the references its catalog names]
          GIBSON_IMAGE_REPO,
          FirstParty, \* repositories of ghcr.io/zeroroot-ai, not of its mirror
          Mirror,     \* repositories of ghcr.io/zeroroot-ai/mirror
          OnGhcr      \* repositories of ghcr.io

VARIABLES source,    \* the chart of the branch
          packaged,  \* the chart that helm/gibson/charts was packaged from
          named,     \* [release tag |-> the commit that GitHub gives for it]
          fileRef, txt, yml,   \* gibson-catalog.ref, images.txt, images.yaml
          pc, check, tag, commit, found, dispatch, verdict

None == "none"

(***************************************************************************)
(* The render.                                                             *)
(***************************************************************************)
\* An env var or a flag counts when its value is a reference on ghcr.io.
env_images(places) == {p.ref : p \in {p \in places : p.via \in {"env", "arg"} /\ p.ref.repo \in OnGhcr}}

ImageLines(places) == {p.ref : p \in {p \in places : p.via \in {"image", "customImage"}}}

\* Mutant: an image that only an environment variable names is not seen.
render_images_lines(chart) ==
    UNION {ImageLines(chart.profiles[p]) : p \in DOMAIN chart.profiles} \cup ImageLines(chart.velero)

render_images(chart) ==
    UNION {ImageLines(chart.profiles[p]) \cup env_images(chart.profiles[p]) : p \in DOMAIN chart.profiles}
    \cup ImageLines(chart.velero) \cup env_images(chart.velero)

\* One release tag over all profiles, or no pin.
pinned_gibson_tag(images) ==
    LET tags == {r.tag : r \in {r \in images : r.repo = GIBSON_IMAGE_REPO}}
    IN  IF Cardinality(tags) = 1 /\ tags \subseteq DOMAIN Commits THEN CHOOSE t \in tags : TRUE ELSE None

catalog_images(c) == Catalog[c]

classify(repo) == IF repo \in FirstParty THEN "firstParty" ELSE IF repo \in Mirror THEN "mirrored" ELSE "thirdParty"

MUTABLE_TAGS == {"latest", "main", "master", "edge", "stable"}

Groups(images, dispatched) ==
    {<<classify(r.repo), r>> : r \in images} \cup {<<"dispatchTime", r>> : r \in dispatched}

build_txt(images, dispatched) == {g[2] : g \in Groups(images, dispatched)}

build_yaml(images, dispatched, c) ==
    [ref |-> c,
     entries |-> {[group |-> g[1], ref |-> g[2],
                   mutable |-> g[2].tag \in MUTABLE_TAGS \cup {""} /\ ~g[2].pinned] : g \in Groups(images, dispatched)}]

(***************************************************************************)
(* The branch, GitHub, and a run of the generator.                         *)
(***************************************************************************)
\* charts are the charts a branch can hold.
AirgapInit(charts) ==
    /\ source \in charts /\ packaged \in charts
    /\ named \in [DOMAIN Commits -> UNION {Commits[t] : t \in DOMAIN Commits}]
    /\ \A t \in DOMAIN Commits : named[t] \in Commits[t]
    /\ fileRef = None /\ txt = {} /\ yml = [ref |-> None, entries |-> {}]
    /\ pc = "idle" /\ check = FALSE /\ tag = None /\ commit = None /\ found = {} /\ dispatch = {}
    /\ verdict = None

\* The branch changes between two runs, each of which reads one checkout; GitHub
\* names another commit for a tag at any moment.
Change(charts) ==
    /\ \/ pc = "idle" /\ source' \in charts \ {source} /\ verdict' = None /\ UNCHANGED named
       \/ /\ \E t \in DOMAIN Commits : \E c \in Commits[t] \ {named[t]} : named' = [named EXCEPT ![t] = c]
          /\ UNCHANGED <<source, verdict>>
    /\ UNCHANGED <<packaged, fileRef, txt, yml, pc, check, tag, commit, found, dispatch>>

\* --skip-deps is for a charts/ that is known fresh.
Start(mode, skip) ==
    /\ pc = "idle" /\ (skip => packaged = source)
    /\ packaged' = source /\ found' = render_images(packaged')
    /\ check' = mode /\ verdict' = None /\ pc' = "rendered"
    /\ UNCHANGED <<source, named, fileRef, txt, yml, tag, commit, dispatch>>

Exit(v) == pc' = "idle" /\ verdict' = v

\* tag_commit: GitHub resolves the pinned tag.
Resolve ==
    /\ pc = "rendered"
    /\ tag' = pinned_gibson_tag(found)
    /\ IF tag' = None THEN Exit("failed") /\ UNCHANGED commit
       ELSE commit' = named[tag'] /\ pc' = "resolved" /\ UNCHANGED verdict
    /\ UNCHANGED <<source, packaged, named, fileRef, txt, yml, check, found, dispatch>>

catalog_ref_problems(committed, pinned) == committed # pinned

\* --check compares the committed ref; a plain run writes it.
Ref ==
    /\ pc = "resolved"
    /\ IF check /\ catalog_ref_problems(fileRef, commit) THEN Exit("failed") ELSE pc' = "ref" /\ UNCHANGED verdict
    /\ fileRef' = IF check THEN fileRef ELSE commit
    /\ UNCHANGED <<source, packaged, named, txt, yml, check, tag, commit, found, dispatch>>

\* Mutant: the catalog is read at the tag, which may have moved.
fetch_at_tag ==
    /\ pc = "ref"
    /\ IF catalog_images(named[tag]) = {} THEN Exit("failed") /\ UNCHANGED dispatch
       ELSE dispatch' = catalog_images(named[tag]) /\ pc' = "generated" /\ UNCHANGED verdict
    /\ UNCHANGED <<source, packaged, named, fileRef, txt, yml, check, tag, commit, found>>

\* The catalog is read at the resolved commit.
FetchCatalog ==
    /\ pc = "ref"
    /\ IF catalog_images(commit) = {} THEN Exit("failed") /\ UNCHANGED dispatch
       ELSE dispatch' = catalog_images(commit) /\ pc' = "generated" /\ UNCHANGED verdict
    /\ UNCHANGED <<source, packaged, named, fileRef, txt, yml, check, tag, commit, found>>

Stale == {f \in {"txt", "yml"} :
            \/ f = "txt" /\ txt # build_txt(found, dispatch)
            \/ f = "yml" /\ yml # build_yaml(found, dispatch, commit)}

Compare ==
    /\ pc = "generated" /\ check
    /\ Exit(IF Stale = {} THEN "ok" ELSE "stale")
    /\ UNCHANGED <<source, packaged, named, fileRef, txt, yml, check, tag, commit, found, dispatch>>

WriteTxt ==
    /\ pc = "generated" /\ ~check
    /\ txt' = build_txt(found, dispatch) /\ pc' = "txt"
    /\ UNCHANGED <<source, packaged, named, fileRef, yml, check, tag, commit, found, dispatch, verdict>>

WriteYaml ==
    /\ pc = "txt"
    /\ yml' = build_yaml(found, dispatch, commit) /\ Exit("written")
    /\ UNCHANGED <<source, packaged, named, fileRef, txt, check, tag, commit, found, dispatch>>

\* GitHub does not answer, or the run is stopped.
Stop ==
    /\ pc # "idle" /\ Exit("stopped")
    /\ UNCHANGED <<source, packaged, named, fileRef, txt, yml, check, tag, commit, found, dispatch>>

AirgapNext(charts) ==
    \/ Change(charts) \/ Resolve \/ Ref \/ FetchCatalog \/ Compare \/ WriteTxt \/ WriteYaml \/ Stop
    \/ \E mode, skip \in BOOLEAN : Start(mode, skip)

(***************************************************************************)
(* The renders of the selftest: one release tag, two tags over the        *)
(* profiles, a digest with no tag, a mutable tag, no image of the daemon;  *)
(* with two more releases, images named by a flag or an env var, and       *)
(* Velero.                                                                 *)
(***************************************************************************)
Reference(repo, t, pinned) == [repo |-> repo, tag |-> t, pinned |-> pinned]
Place(via, ref) == [via |-> via, ref |-> ref]
Daemon(t) == {Place("image", Reference(GIBSON_IMAGE_REPO, t, TRUE))}
Render(selfhosted, eks) ==
    [profiles |-> [selfhosted |-> selfhosted \cup {Place("image", Reference("spire", "1", FALSE)),
                                                    Place("env", Reference("neo4j", "5", TRUE))},
                   eks |-> eks \cup {Place("arg", Reference("launcher", "v1", TRUE))}],
     velero |-> {Place("customImage", Reference("velero", "latest", FALSE))}]
CHARTS ==
    {Render(Daemon(t), Daemon(t)) : t \in {"v0.160.1", "v0.160.2", "", "main"}}
    \cup {Render(Daemon("v0.160.1"), Daemon("v0.160.2")), Render({}, {})}

(***************************************************************************)
(* Properties.                                                             *)
(***************************************************************************)
\* What an install pulls: every image of every profile and of Velero, and what
\* the catalog of the daemon at commit c names.
Pulled(c) ==
    {p.ref : p \in UNION {source.profiles[x] : x \in DOMAIN source.profiles} \cup source.velero}
    \cup Catalog[c]

\* When --check passes, an install of the commit that the pinned tag named when
\* the run resolved it pulls nothing that images.txt does not hold, whatever
\* runs of the generator stopped before it and wherever the tag has moved since.
ListComplete == verdict = "ok" => Pulled(commit) \subseteq txt

\* When --check passes, the three files are of one commit: the two lists hold
\* the same references, and images.yaml and gibson-catalog.ref name the commit
\* that the run resolved, one that the pinned tag can name.
FilesOfOneRun ==
    verdict = "ok" =>
        /\ {e.ref : e \in yml.entries} = txt
        /\ yml.ref = commit /\ fileRef = commit
        /\ commit \in Commits[pinned_gibson_tag(render_images(source))]
=============================================================================
