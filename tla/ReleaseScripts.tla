--------------------------- MODULE ReleaseScripts ---------------------------
(***************************************************************************)
(* scripts/check-chart-deps-fresh.py: the stamp that says from which       *)
(* sources the tarballs of a chart were packaged.  A tarball holds the     *)
(* sources of the dependency and, below it, the tarballs the dependency had*)
(* when it was packaged, so what a render reads is a tree: pkg[c] gives the*)
(* version of the sources at every path below c, 0 where nothing is.       *)
(*                                                                         *)
(* scripts/resolve-upgrade-pair.py: the version to upgrade from, read from *)
(* a registry that lists its tags page by page while releases go on.       *)
(*                                                                         *)
(* A tag is a sequence: the three numbers of a semver, or one element for  *)
(* another name (latest, sha-...).  The registry lists the tags in the     *)
(* order of their names, which is not the order of the versions.           *)
(*                                                                         *)
(* scripts/lib/wal-continuity.py and the WAL archive it reads: Postgres    *)
(* fills segments, archives them, may lose one, fails over to a new        *)
(* timeline, and the lifecycle rule of the bucket expires the oldest.  A   *)
(* segment is [tl, log, seg], the three parts of its file name.            *)
(***************************************************************************)
EXTENDS Integers, FiniteSets, Sequences, SequencesExt

CONSTANTS Files,      \* [chart |-> charts its Chart.yaml may name with file://]
          CHARTS,     \* the charts with dependencies, in the order they are packaged
          Versions    \* versions of the sources of one chart

CONSTANTS PageSize, MAX_PAGES, MIN_TAGS

CONSTANTS FirstSegment, \* the segment Postgres writes at the start
          MaxSegments,  \* bound: segments that are filled
          MaxTimeline   \* bound: failovers

VARIABLES source,    \* [chart |-> version of its files]
          declared,  \* [chart |-> dependencies of its Chart.yaml]
          pkg, stamp,
          packed,    \* [chart |-> digest of the sources its tarballs are of]
          building,  \* the charts that make has still to package
          edited,    \* a source changed since make began
          answer

VARIABLES published, atStart, asked, from, cursor, pages, tags, pair

VARIABLES current,  \* the segment Postgres writes
          waiting,  \* filled and not archived yet, oldest first
          archive,  \* the segments in the bucket
          backup,   \* [begin, end] of the base backup, NoSegment for none
          filled, walVerdict

-----------------------------------------------------------------------------
(* check-chart-deps-fresh.py                                               *)

AllCharts == DOMAIN Files
IsPath(deps, c, p) ==
    /\ p # <<>> /\ p[1] \in deps[c]
    /\ \A i \in 1 .. Len(p) - 1 : p[i + 1] \in deps[p[i]]
Paths(deps, c) == {p \in BoundedSeq(AllCharts, Cardinality(AllCharts) - 1) : IsPath(deps, c, p)}
Nothing(c) == [p \in Paths(Files, c) |-> 0]
NoStamp == [yaml |-> {}, files |-> <<>>]
Mixed == [yaml |-> {"mixed"}, files |-> <<>>]

(***************************************************************************)
(* The guard.                                                              *)
(***************************************************************************)
\* Mutant: only the files of the direct dependencies are read.
source_files_direct(c) == declared[c]

\* The charts whose files are listed, every nested dependency too.
source_files(c) == UNION {Range(p) : p \in Paths(declared, c)}

sources_digest(c) ==
    [yaml |-> declared[c],
     files |-> [d \in source_files(c) |-> <<source[d], declared[d]>>]]

missing_tarballs(c) == {d \in declared[c] : pkg[c][<<d>>] = 0}

\* What verify says of one chart: "" when it is fresh.
verify(c) ==
    IF stamp[c] = NoStamp THEN "no stamp"
    ELSE IF missing_tarballs(c) # {} THEN "the vendored dependency is gone"
    ELSE IF sources_digest(c) # stamp[c] THEN "subchart sources changed" ELSE ""

(***************************************************************************)
(* The working tree.                                                       *)
(***************************************************************************)
DepsInit ==
    /\ source = [c \in AllCharts |-> 1]
    /\ declared \in [AllCharts -> SUBSET AllCharts] /\ \A c \in AllCharts : declared[c] \subseteq Files[c]
    /\ \A i \in DOMAIN CHARTS : declared[CHARTS[i]] # {}
    /\ pkg = [c \in AllCharts |-> Nothing(c)]
    /\ stamp = [c \in AllCharts |-> NoStamp] /\ packed = [c \in AllCharts |-> NoStamp]
    /\ building = <<>> /\ edited = FALSE /\ answer = ""

\* A source or a list of dependencies changes, while make packages too.
Edit ==
    /\ \/ \E c \in AllCharts : \E v \in Versions \ {source[c]} :
              source' = [source EXCEPT ![c] = v] /\ UNCHANGED declared
       \/ \E i \in DOMAIN CHARTS : \E d \in Files[CHARTS[i]] \ declared[CHARTS[i]] :
              declared' = [declared EXCEPT ![CHARTS[i]] = @ \cup {d}] /\ UNCHANGED source
    /\ edited' = (building # <<>>) /\ answer' = ""
    /\ UNCHANGED <<pkg, stamp, packed, building>>

Delete ==
    /\ building = <<>>
    /\ \E i \in DOMAIN CHARTS : LET c == CHARTS[i] IN
          \/ stamp' = [stamp EXCEPT ![c] = NoStamp] /\ UNCHANGED pkg
          \/ pkg' = [pkg EXCEPT ![c] = Nothing(c)] /\ UNCHANGED stamp
    /\ answer' = "" /\ UNCHANGED <<source, declared, packed, building, edited>>

MakeChartDeps ==
    /\ building = <<>> /\ building' = CHARTS /\ edited' = FALSE /\ answer' = ""
    /\ UNCHANGED <<source, declared, pkg, stamp, packed>>

\* The recipe repack removes the tarballs of the top chart and every stamp.
Repack ==
    /\ building = <<>> /\ building' = CHARTS /\ edited' = FALSE /\ answer' = ""
    /\ pkg' = [pkg EXCEPT ![Last(CHARTS)] = Nothing(Last(CHARTS))]
    /\ stamp' = [c \in AllCharts |-> NoStamp]
    /\ UNCHANGED <<source, declared, packed>>

\* helm dependency update c: the directory of each dependency as it is now.
Packaged(c) ==
    [p \in Paths(Files, c) |->
        IF ~IsPath(declared, c, p) THEN 0
        ELSE IF Len(p) = 1 THEN source[p[1]] ELSE pkg[p[1]][Tail(p)]]

\* The recipe packages the charts and writes no stamp.
Package ==
    /\ building # <<>>
    /\ LET c == Head(building)
       IN  /\ pkg' = [pkg EXCEPT ![c] = Packaged(c)]
           /\ packed' = [packed EXCEPT ![c] = IF edited THEN Mixed ELSE sources_digest(c)]
    /\ building' = Tail(building)
    /\ UNCHANGED <<source, declared, stamp, edited, answer>>

\* The last attempt fails: the loop ends, the charts after it stay as they are.
PackageFails ==
    /\ building # <<>> /\ building' = <<>>
    /\ UNCHANGED <<source, declared, pkg, stamp, packed, edited, answer>>

\* --write c, at any moment; it asks only that each tarball is there.
write_stamp ==
    /\ \E i \in DOMAIN CHARTS :
          /\ missing_tarballs(CHARTS[i]) = {}
          /\ stamp' = [stamp EXCEPT ![CHARTS[i]] = sources_digest(CHARTS[i])]
    /\ answer' = "" /\ UNCHANGED <<source, declared, pkg, packed, building, edited>>

Check ==
    /\ building = <<>>
    /\ answer' = IF \A i \in DOMAIN CHARTS : verify(CHARTS[i]) = "" THEN "fresh" ELSE "STALE"
    /\ UNCHANGED <<source, declared, pkg, stamp, packed, building, edited>>

DepsNext == Edit \/ Delete \/ MakeChartDeps \/ Repack \/ Package \/ PackageFails \/ write_stamp \/ Check

\* "any render made now reads tarballs built from different sources" (line
\* 359): when the check calls the tree fresh, every render reads, at every
\* depth, the sources that are in the tree, where each stamp is of the sources
\* that the chart's tarballs were packaged from in one run of make.  The docstring
\* (20-22) has the recipe write the stamp after packaging; no recipe does.
FreshRenders ==
    answer = "fresh" /\ (\A i \in DOMAIN CHARTS : stamp[CHARTS[i]] = packed[CHARTS[i]]) =>
        \A i \in DOMAIN CHARTS : \A p \in Paths(declared, CHARTS[i]) :
            pkg[CHARTS[i]][p] = source[Last(p)]

-----------------------------------------------------------------------------
(* resolve-upgrade-pair.py                                                 *)

SEMVER(t) == Len(t) = 3
NoTag == <<>>
Refused == [to |-> NoTag, from |-> NoTag]

\* Versions compare as integer tuples.
key(a, b) == \E i \in 1 .. 3 : a[i] < b[i] /\ \A j \in 1 .. i - 1 : a[j] = b[j]

Newest(S) == CHOOSE t \in S : \A u \in S : u = t \/ key(u, t)

\* The highest published version below to.
previous(S, to) == LET below == {t \in S : SEMVER(t) /\ key(t, to)}
                   IN  IF below = {} THEN NoTag ELSE Newest(below)

\* Whether a named version can be upgraded from.
named(S, to, frm) == SEMVER(frm) /\ frm \in S /\ key(frm, to)

-----------------------------------------------------------------------------
\* The tags of the selftest in the order of their names, where 0.10 is before
\* 0.9 and 0.132.14 before 0.132.9, and what a registry can hold of them.
TagNames == << <<0, 10, 0>>, <<0, 10, 1>>, <<0, 132, 14>>, <<0, 132, 9>>, <<0, 9, 0>>, <<"latest">> >>
HELD == {S \in SUBSET {TagNames[i] : i \in DOMAIN TagNames} : Cardinality(S) >= 3}

-----------------------------------------------------------------------------
\* held are the sets of tags that are published at the start.
PairInit(held) ==
            /\ published \in held /\ atStart = published
            /\ asked \in {NoTag} \cup {t \in published : SEMVER(t)}
            /\ from \in {NoTag} \cup {TagNames[i] : i \in DOMAIN TagNames}
            /\ cursor = 0 /\ pages = 0 /\ tags = {} /\ pair = <<>>

\* A release publishes a tag.
Publish == /\ pair = <<>>
           /\ \E i \in DOMAIN TagNames : TagNames[i] \notin published /\ published' = published \cup {TagNames[i]}
           /\ UNCHANGED <<atStart, asked, from, cursor, pages, tags, pair>>

\* The places of the tags after the cursor, and of the next page of them.
After == {i \in DOMAIN TagNames : i > cursor /\ TagNames[i] \in published}
Page == {i \in After : Cardinality({j \in After : j < i}) < PageSize}

Greatest(S) == CHOOSE i \in S : \A j \in S : j <= i

\* Mutant: one page is the whole list.
one_page == /\ pair = <<>> /\ pages = 0
            /\ tags' = {TagNames[i] : i \in Page}
            /\ pages' = 1 /\ cursor' = Len(TagNames)
            /\ UNCHANGED <<published, atStart, asked, from, pair>>

\* One page; its Link header leads to the next one.
all_tags == /\ pair = <<>> /\ pages < MAX_PAGES /\ cursor < Len(TagNames)
            /\ tags' = tags \cup {TagNames[i] : i \in Page}
            /\ pages' = pages + 1
            /\ cursor' = IF Page = After THEN Len(TagNames) ELSE Greatest(Page)
            /\ UNCHANGED <<published, atStart, asked, from, pair>>

main ==
    LET sem == {t \in tags : SEMVER(t)}
        to == IF asked = NoTag THEN Newest(sem) ELSE asked
        frm == IF from = NoTag THEN previous(tags, to) ELSE IF named(tags, to, from) THEN from ELSE NoTag
    IN  /\ pair = <<>> /\ (cursor = Len(TagNames) \/ pages = MAX_PAGES)
        /\ pair' = IF Cardinality(sem) < MIN_TAGS \/ frm = NoTag THEN Refused ELSE [to |-> to, from |-> frm]
        /\ UNCHANGED <<published, atStart, asked, from, cursor, pages, tags>>

PairNext == Publish \/ all_tags \/ main

\* The upgrade that the exit test runs is one that users make: from a
\* published version to a newer one, and, unless the version is named, with
\* no version between the two of those that were published when the script
\* began, whatever is released while it reads the pages.
PairAdjacent ==
    (pair # <<>> /\ pair # Refused) =>
        /\ pair.from \in published /\ key(pair.from, pair.to)
        /\ from = NoTag => ~\E t \in atStart : SEMVER(t) /\ key(pair.from, t) /\ key(t, pair.to)

-----------------------------------------------------------------------------
(* wal-continuity.py                                                       *)

NoSegment == [tl |-> 0, log |-> 0, seg |-> 0]

segment_index(name) == name.log * 256 + name.seg

Indexes(names) == {segment_index(n) : n \in names}
Least(S) == CHOOSE i \in S : \A j \in S : i <= j

\* Mutant: the end of the base backup is not looked for.
wal_main_no_end(names, begin_wal, end_wal) ==
    LET timeline == IF begin_wal # NoSegment THEN begin_wal.tl ELSE Greatest({n.tl : n \in names})
        on_timeline == {n \in names : n.tl = timeline}
    IN  /\ names # {} /\ on_timeline # {}
        /\ begin_wal # NoSegment => begin_wal \in names
        /\ LET present == Indexes(on_timeline)
               first == IF begin_wal \in names THEN segment_index(begin_wal) ELSE Least(present)
           IN  first .. Greatest(present) \subseteq present

\* Whether the archive is continuous.
wal_main(names, begin_wal, end_wal) ==
    LET timeline == IF begin_wal # NoSegment THEN begin_wal.tl ELSE Greatest({n.tl : n \in names})
        on_timeline == {n \in names : n.tl = timeline}
    IN  /\ names # {} /\ on_timeline # {}
        /\ begin_wal # NoSegment => begin_wal \in names
        /\ end_wal # NoSegment => end_wal \in names
        /\ LET present == Indexes(on_timeline)
               first == IF begin_wal \in names THEN segment_index(begin_wal) ELSE Least(present)
           IN  first .. Greatest(present) \subseteq present

-----------------------------------------------------------------------------
(* Postgres and the bucket.                                                *)

WalInit == /\ current = FirstSegment /\ waiting = <<>> /\ archive = {}
           /\ backup = [begin |-> NoSegment, end |-> NoSegment]
           /\ filled = 0 /\ walVerdict = "none"

\* The segment after s: 256 segments of 16 MiB to a log file.
Following(s) == IF s.seg = 255 THEN [s EXCEPT !.log = @ + 1, !.seg = 0] ELSE [s EXCEPT !.seg = @ + 1]

Fill == /\ walVerdict = "none" /\ filled < MaxSegments
        /\ filled' = filled + 1
        /\ current' = Following(current) /\ waiting' = Append(waiting, current)
        /\ UNCHANGED <<archive, backup, walVerdict>>

Archive == /\ walVerdict = "none" /\ waiting # <<>>
           /\ archive' = archive \cup {Head(waiting)} /\ waiting' = Tail(waiting)
           /\ UNCHANGED <<current, backup, filled, walVerdict>>

\* A segment is recycled before it is archived.
Lose == /\ walVerdict = "none" /\ waiting # <<>>
        /\ waiting' = Tail(waiting)
        /\ UNCHANGED <<current, archive, backup, filled, walVerdict>>

Failover == /\ walVerdict = "none" /\ current.tl < MaxTimeline
            /\ current' = [current EXCEPT !.tl = @ + 1]
            /\ UNCHANGED <<waiting, archive, backup, filled, walVerdict>>

BackupBegins == /\ walVerdict = "none" /\ backup.begin = NoSegment
                /\ backup' = [backup EXCEPT !.begin = current]
                /\ UNCHANGED <<current, waiting, archive, filled, walVerdict>>

\* The backup ends in the timeline it began in.
BackupEnds == /\ walVerdict = "none" /\ backup.begin # NoSegment /\ backup.end = NoSegment
              /\ backup.begin.tl = current.tl
              /\ backup' = [backup EXCEPT !.end = current]
              /\ UNCHANGED <<current, waiting, archive, filled, walVerdict>>

\* The lifecycle rule expires the oldest object.
ExpireObject == /\ walVerdict = "none"
                /\ \E s \in archive :
                     /\ \A t \in archive : <<s.tl, segment_index(s)>> = <<t.tl, segment_index(t)>>
                                           \/ s.tl < t.tl \/ (s.tl = t.tl /\ segment_index(s) < segment_index(t))
                     /\ archive' = archive \ {s}
                /\ UNCHANGED <<current, waiting, backup, filled, walVerdict>>

\* The gate of a preserve teardown.
Verify == /\ walVerdict = "none" /\ backup.end # NoSegment
          /\ walVerdict' = IF wal_main(archive, backup.begin, backup.end) THEN "continuous" ELSE "broken"
          /\ UNCHANGED <<current, waiting, archive, backup, filled>>

WalNext == Fill \/ Archive \/ Lose \/ Failover \/ BackupBegins \/ BackupEnds \/ ExpireObject \/ Verify

-----------------------------------------------------------------------------
\* The segments that recovery replays from s, without a hole.
Replayed(s) ==
    LET Run[n \in 0 .. MaxSegments] ==
            IF n = 0 THEN {s} \cap archive
            ELSE Run[n - 1] \cup ({Following(x) : x \in Run[n - 1]} \cap archive)
    IN  Run[MaxSegments]

\* When the gate calls the archive continuous, a recovery of the base backup
\* replays every archived segment of its timeline from its begin, past its
\* end: nothing that was lost or expired in between goes unseen, across the
\* last segment of a log file too.
WalReplays ==
    walVerdict = "continuous" =>
        /\ backup.end \in Replayed(backup.begin)
        /\ \A s \in archive : (s.tl = backup.begin.tl /\ s.log * 256 + s.seg >= backup.begin.log * 256 + backup.begin.seg)
                              => s \in Replayed(backup.begin)
=============================================================================
