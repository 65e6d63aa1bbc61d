----------------------------- MODULE BumpDigest -----------------------------
(***************************************************************************)
(* scripts/bump-image-digest.py: it re-pins a first-party image in the     *)
(* values files, one file after the other, and resolves every pin against  *)
(* the registry before a chart is packaged.  The registry moves meanwhile. *)
(*                                                                         *)
(* A file is a sequence of lines [indent, key, ref, digest]: "#" is the    *)
(* key of a comment or an empty line; a repository line has its image in   *)
(* ref; a tag is ref, or ref@digest; a digest line has "" when empty.      *)
(***************************************************************************)
EXTENDS Integers, Sequences, FiniteSets, SequencesExt

CONSTANTS Images,      \* first-party images; another name is a mirror
          Refs, Digests,
          MaxMoves     \* how often the registry moves a ref

VARIABLES values,    \* the files of PIN_FILES
          registry,  \* [<<image, ref>> |-> digest, or "" when it does not answer]
          moves, op, at, pin, buffer, failed, exit, asked

IMAGE_SIBLINGS == {"tag", "digest", "pullPolicy", "repository"}
Idle == [kind |-> "idle", image |-> "", ref |-> "", digest |-> "", require |-> FALSE]

(***************************************************************************)
(* The pins of a file: the run of sibling keys below a repository line.    *)
(***************************************************************************)
BlockEnd(lines, i) ==
    LET ends(j) == /\ lines[j].key # "#"
                   /\ \/ lines[j].indent < lines[i].indent \/ lines[j].key \notin IMAGE_SIBLINGS
                      \/ lines[j].indent = lines[i].indent /\ lines[j].key = "repository"
    IN  CHOOSE j \in i + 1 .. Len(lines) + 1 :
            /\ (j > Len(lines) \/ ends(j)) /\ \A k \in i + 1 .. j - 1 : ~ends(k)

FirstKey(lines, i, key) ==
    LET held == {j \in i + 1 .. BlockEnd(lines, i) - 1 : lines[j].key = key /\ lines[j].indent = lines[i].indent}
    IN  IF held = {} THEN 0 ELSE CHOOSE j \in held : \A k \in held : j <= k

find_pins(lines) ==
    LET repos == SelectSeq([i \in DOMAIN lines |-> i],
                           LAMBDA i : lines[i].key = "repository" /\ lines[i].ref \in Images)
    IN  [p \in DOMAIN repos |-> [image |-> lines[repos[p]].ref, repo_line |-> repos[p],
            tag_line |-> FirstKey(lines, repos[p], "tag"), digest_line |-> FirstKey(lines, repos[p], "digest")]]

(***************************************************************************)
(* One pin: the shape that it has stays.                                   *)
(***************************************************************************)
Combined(lines, p) == p.tag_line # 0 /\ lines[p.tag_line].digest # ""
DigestInUse(lines, p) == p.digest_line # 0 /\ lines[p.digest_line].digest # ""

rewrite_pin(lines, p, ref, digest) ==
    LET withRef(ls) == IF ref # "" /\ p.tag_line # 0
                         THEN [ls EXCEPT ![p.tag_line].ref = ref, ![p.tag_line].digest = ""] ELSE ls
    IN  IF DigestInUse(lines, p) \/ (p.digest_line # 0 /\ ~Combined(lines, p))
          THEN withRef([lines EXCEPT ![p.digest_line].digest = digest])
        ELSE IF Combined(lines, p)
          THEN [lines EXCEPT ![p.tag_line].digest = digest, ![p.tag_line].ref = IF ref = "" THEN @ ELSE ref]
        ELSE lines

current_ref(lines, p) == IF p.tag_line = 0 THEN "" ELSE lines[p.tag_line].ref

\* any() ends at the first pin that changes.
BumpLines(lines, image, ref, digest) ==
    LET pins == find_pins(lines)
        k == SelectInSeq(pins, LAMBDA p : p.image = image /\ rewrite_pin(lines, p, ref, digest) # lines)
    IN  IF k = 0 THEN lines ELSE rewrite_pin(lines, pins[k], ref, digest)

(***************************************************************************)
(* The runs.                                                               *)
(***************************************************************************)
\* files are the sets of values files: sequences of files.
BumpInit(files) ==
    /\ values \in files
    /\ registry \in [Images \X Refs -> Digests]
    /\ moves = 0 /\ op = Idle /\ at = 0 /\ pin = 0 /\ buffer = <<>> /\ failed = FALSE /\ exit = "" /\ asked = {}

Publish ==
    /\ moves < MaxMoves
    /\ \E k \in DOMAIN registry : \E d \in (Digests \cup {""}) \ {registry[k]} :
          registry' = [registry EXCEPT ![k] = d]
    /\ moves' = moves + 1
    /\ UNCHANGED <<values, op, at, pin, buffer, failed, exit, asked>>

Begin(o) == op' = o /\ at' = 1 /\ pin' = 0 /\ buffer' = <<>> /\ failed' = FALSE /\ exit' = "" /\ asked' = {}

StartBump ==
    /\ op.kind = "idle"
    /\ \E i \in Images, r \in Refs \cup {""}, d \in Digests :
          Begin([kind |-> "bump", image |-> i, ref |-> r, digest |-> d, require |-> FALSE])
    /\ UNCHANGED <<values, registry, moves>>

Named(image) == \E f \in DOMAIN values : \E p \in Range(find_pins(values[f])) : p.image = image

\* cmd_bump: one file read, rewritten and written; the last one ends the run.
BumpFile ==
    /\ op.kind = "bump"
    /\ values' = [values EXCEPT ![at] = BumpLines(@, op.image, op.ref, op.digest)]
    /\ IF at < Len(values) THEN at' = at + 1 /\ UNCHANGED <<op, exit>>
       ELSE at' = 0 /\ op' = [op EXCEPT !.kind = "idle"] /\ exit' = (IF Named(op.image) THEN "bumped" ELSE "no pin")
    /\ UNCHANGED <<registry, moves, pin, buffer, failed, asked>>

StartResolve ==
    /\ op.kind = "idle"
    /\ \E require \in BOOLEAN : Begin([Idle EXCEPT !.kind = "load", !.require = require])
    /\ UNCHANGED <<values, registry, moves>>

Load ==
    /\ op.kind = "load"
    /\ op' = [op EXCEPT !.kind = "resolve"] /\ buffer' = values[at] /\ pin' = 1
    /\ UNCHANGED <<values, registry, moves, at, failed, exit, asked>>

\* Mutant: a ref that the registry does not resolve is no failure.
Unresolved_never(ref, digest) == FALSE

Unresolved(ref, digest) == ref # "" /\ digest = ""

\* resolve_digest: the registry answers with a digest, or does not.
ResolvePin ==
    /\ op.kind = "resolve" /\ pin <= Len(find_pins(buffer))
    /\ LET p == find_pins(buffer)[pin]
           r == current_ref(buffer, p)
           d == IF r = "" THEN "" ELSE registry[<<p.image, r>>]
       IN  /\ buffer' = IF d = "" THEN buffer ELSE rewrite_pin(buffer, p, "", d)
           /\ failed' = (failed \/ Unresolved(r, d))
           /\ asked' = IF d = "" THEN asked ELSE asked \cup {<<at, pin, d>>}
    /\ pin' = pin + 1
    /\ UNCHANGED <<values, registry, moves, op, at, exit>>

SaveFile ==
    /\ op.kind = "resolve" /\ pin > Len(find_pins(buffer))
    /\ values' = [values EXCEPT ![at] = buffer]
    /\ IF at < Len(values) THEN at' = at + 1 /\ op' = [op EXCEPT !.kind = "load"] /\ UNCHANGED exit
       ELSE /\ at' = 0 /\ op' = [op EXCEPT !.kind = "idle"]
            /\ exit' = IF failed /\ op.require THEN "refused" ELSE "resolved"
    /\ pin' = 0 /\ buffer' = <<>>
    /\ UNCHANGED <<registry, moves, failed, asked>>

BumpNext == Publish \/ StartBump \/ BumpFile \/ StartResolve \/ Load \/ ResolvePin \/ SaveFile

(***************************************************************************)
(* The values of the selftest: a combined pin below a comment block, a    *)
(* separate digest, a mirror, and a bare mutable tag.                      *)
(***************************************************************************)
Line(n, name, ref, digest) == <<[indent |-> n, key |-> name, ref |-> ref, digest |-> digest]>>
Comment == Line(2, "#", "", "")
Block(image, siblings) == Line(0, "image", "", "") \o Line(2, "repository", image, "") \o siblings
SELFTEST_FIXTURE ==
    Block("gibson", Comment \o Comment \o Comment \o Line(2, "tag", "v1", "d1") \o Line(2, "pullPolicy", "", ""))
    \o Block("docs-site", Line(2, "tag", "v1", "") \o Line(2, "digest", "", "d1"))
    \o Block("kubectl", Line(2, "tag", "v1", "d1"))
BARE == Block("gibson", Line(2, "tag", "v1", "") \o Line(2, "digest", "", "")) \o Block("docs-site", Line(2, "tag", "v2", ""))
VALUES == {<<SELFTEST_FIXTURE, BARE>>}

(***************************************************************************)
(* Properties.                                                             *)
(***************************************************************************)
\* What a chart renders for a block: the digest of the key, else of the tag.
Rendered(lines, p) ==
    IF DigestInUse(lines, p) THEN lines[p.digest_line].digest
    ELSE IF p.tag_line # 0 THEN lines[p.tag_line].digest ELSE ""

Pinned(lines, p) == Rendered(lines, p) # ""

\* The blocks of a chart as a YAML reader sees them: every key at the indent
\* of the repository until the mapping ends, whatever stands between them.
Mapping(lines, i, key) ==
    LET last == CHOOSE j \in i + 1 .. Len(lines) + 1 :
                    /\ j > Len(lines) \/ (lines[j].key # "#" /\ lines[j].indent < lines[i].indent)
                    /\ \A k \in i + 1 .. j - 1 : lines[k].key = "#" \/ lines[k].indent >= lines[i].indent
        held == {j \in i + 1 .. last - 1 : lines[j].key = key /\ lines[j].indent = lines[i].indent}
    IN  IF held = {} THEN 0 ELSE CHOOSE j \in held : \A k \in held : j <= k

Blocks(f) ==
    {[file |-> f, image |-> values[f][i].ref, tag_line |-> Mapping(values[f], i, "tag"),
      digest_line |-> Mapping(values[f], i, "digest")] : i \in {i \in DOMAIN values[f] :
        values[f][i].key = "repository" /\ values[f][i].ref \in Images}}

AllBlocks == UNION {Blocks(f) : f \in DOMAIN values}

\* "Given an image and a new reference, rewrite every pin of that image in the
\* chart values files" (line 18), where each file has at most one pin of the
\* image: after a bump that found the image each pin of it renders the new
\* digest.
SinglePinBumped ==
    exit = "bumped" => \A b \in AllBlocks :
        /\ b.image = op.image /\ Pinned(values[b.file], b)
        /\ \A c \in AllBlocks : c.file = b.file /\ c.image = b.image => c = b
        => Rendered(values[b.file], b) = op.digest

\* --require ends with 0 only when every pin with a ref renders a digest that
\* the registry gave for that image during this run, whatever it moved.
ResolvedIsPublished ==
    exit = "resolved" /\ op.require => \A f \in DOMAIN values : \A i \in DOMAIN find_pins(values[f]) :
        LET p == find_pins(values[f])[i]
        IN  current_ref(values[f], p) # "" /\ Pinned(values[f], p) => <<f, i, Rendered(values[f], p)>> \in asked

=============================================================================
