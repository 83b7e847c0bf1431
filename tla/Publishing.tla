----------------------------- MODULE Publishing -----------------------------
(***************************************************************************)
(* What the image build (build-multirunner.yml) and the ISO build          *)
(* (build-iso.yml) publish: runs of the two workflows, the tags of the     *)
(* image in the registry, and the live ISO each channel offers on R2.      *)
(*                                                                         *)
(* Commits are numbered in the order main gets them and an image is named  *)
(* by the commit it was built from; 0 is nothing.  A list of runs is in    *)
(* the order of their creation, so its last entry is the first one that    *)
(* `gh run list' prints.  GitHub is external: it creates the ISO run of an *)
(* image build some time after that has ended, and attributes it to the    *)
(* branch and the commit of the build.                                     *)
(***************************************************************************)
EXTENDS Integers, Sequences, FiniteSets

CONSTANTS
    MaxCommits, MaxBuilds, MaxIsos   \* bounds

ASSUME BoundsAssumption ==
    MaxCommits \in Nat \ {0} /\ MaxBuilds \in Nat /\ MaxIsos \in Nat

VARIABLES
    branch,    \* "main", "stable" -> the commit it points to
    channel,   \* "main", "stable" -> the image of :latest, of :stable
    commitTag, \* commits whose image can be pulled as :<sha>
    builds, isos,
    announced, \* builds whose end has created an ISO run
    onR2       \* the files of each channel's prefix on R2, with what they are of

pubvars == <<branch, channel, commitTag, builds, isos, announced, onR2>>

Ref == {"main", "stable"}
Commit == 1 .. MaxCommits
Image == 0 .. MaxCommits
Running == {"building", "channel", "commit"}
Build == [ref : Ref, sha : Commit,
          phase : {"queued", "success", "failure", "cancelled"} \union Running]
Iso == [ref : Ref, sha : Commit, payload : Image,
        phase : {"queued", "skipped", "built", "uploaded", "success", "failure"}]

PubTypeOK ==
    /\ branch \in [Ref -> Image]
    /\ channel \in [Ref -> Image]
    /\ commitTag \subseteq Commit
    /\ builds \in Seq(Build) /\ Len(builds) <= MaxBuilds
    /\ isos \in Seq(Iso) /\ Len(isos) <= MaxIsos
    /\ \A i \in DOMAIN isos :
          isos[i].phase \in {"built", "uploaded", "success"} => isos[i].payload # 0
    /\ announced \subseteq DOMAIN builds
    /\ onR2 \in [Ref -> [iso : Image, checksum : Image]]

\* The repository's first commit is there; nothing has been released.
PubInit ==
    /\ branch = [main |-> 1, stable |-> 0]
    /\ channel = [r \in Ref |-> 0]
    /\ commitTag = {}
    /\ builds = << >> /\ isos = << >> /\ announced = {}
    /\ onR2 = [r \in Ref |-> [iso |-> 0, checksum |-> 0]]

-----------------------------------------------------------------------------
(* build-multirunner.yml                                                    *)

\* Mutant of GroupIsFree: no concurrency group.
GroupIsGone(ref) == ref \in Ref

\* Concurrency group <workflow>-<ref>: one run at a time...
GroupIsFree(ref) ==
    \A b \in DOMAIN builds :
        builds[b].ref = ref => builds[b].phase \notin Running

\* ... and one waiting: a new run takes the place of the one that waits.
Queued(run) ==
    Append([b \in DOMAIN builds |->
              IF builds[b].ref = run.ref /\ builds[b].phase = "queued"
              THEN [builds[b] EXCEPT !.phase = "cancelled"] ELSE builds[b]],
           run)

DispatchBuild(ref) ==
    /\ branch[ref] # 0
    /\ builds' = Queued([ref |-> ref, sha |-> branch[ref], phase |-> "queued"])
    /\ UNCHANGED <<branch, channel, commitTag, isos, announced, onR2>>

Phase(b, from, to) ==
    /\ builds[b].phase = from
    /\ builds' = [builds EXCEPT ![b].phase = to]
    /\ UNCHANGED <<branch, isos, announced, onR2>>

BuildBegins(b) ==
    /\ GroupIsFree(builds[b].ref)
    /\ Phase(b, "queued", "building")
    /\ UNCHANGED <<channel, commitTag>>

\* The multirunner jobs, build_final up to the lint of the image.
BuildFails(b) == Phase(b, "building", "failure") /\ UNCHANGED <<channel, commitTag>>

\* A run dispatched without push_image ends here.
ImageBuilt(b) ==
    /\ \E to \in {"channel", "success"} : Phase(b, "building", to)
    /\ UNCHANGED <<channel, commitTag>>

\* Three tries for each tag; when all of them fail, the status of the loop
\* is that of its last sleep, and the step goes on.
PushChannel(b) ==
    /\ Phase(b, "channel", "commit")
    /\ \E pushed \in BOOLEAN :
          channel' = IF pushed THEN [channel EXCEPT ![builds[b].ref] = builds[b].sha]
                     ELSE channel
    /\ UNCHANGED commitTag

\* The image's digest is signed last, which may fail.
PushCommit(b) ==
    /\ \E end \in {"success", "failure"} : Phase(b, "commit", end)
    /\ \E pushed \in BOOLEAN :
          commitTag' = IF pushed THEN commitTag \union {builds[b].sha} ELSE commitTag
    /\ UNCHANGED channel

BuildStep(b) ==
    \/ BuildBegins(b) \/ BuildFails(b) \/ ImageBuilt(b)
    \/ PushChannel(b) \/ PushCommit(b)

-----------------------------------------------------------------------------
(* build-iso.yml                                                            *)

NewIso(ref, sha, phase) ==
    Append(isos, [ref |-> ref, sha |-> sha, payload |-> 0, phase |-> phase])

\* workflow_run: the end of any build creates a run, whose job is skipped
\* unless the build succeeded.
IsoAfterBuild(b) ==
    /\ Len(isos) < MaxIsos
    /\ builds[b].phase \in {"success", "failure", "cancelled"} /\ b \notin announced
    /\ announced' = announced \union {b}
    /\ isos' = NewIso(builds[b].ref, builds[b].sha,
                      IF builds[b].phase = "success" THEN "queued" ELSE "skipped")
    /\ UNCHANGED <<branch, channel, commitTag, builds, onR2>>

\* A push to main, of something the ISO is built from or not.
CommitToMain(touchesIso) ==
    /\ branch["main"] < MaxCommits
    /\ branch' = [branch EXCEPT !["main"] = @ + 1]
    /\ touchesIso => Len(isos) < MaxIsos
    /\ isos' = IF touchesIso THEN NewIso("main", branch["main"] + 1, "queued") ELSE isos
    /\ UNCHANGED <<channel, commitTag, builds, announced, onR2>>

IsoPhase(i, from, to) ==
    /\ isos[i].phase = from
    /\ isos' = [isos EXCEPT ![i].phase = to]
    /\ UNCHANGED <<branch, channel, commitTag, builds, announced>>

\* The recipe pulls the channel's moving tag into the ISO.
IsoBuilt(i) ==
    /\ isos[i].phase = "queued"
    /\ channel[isos[i].ref] # 0
    /\ isos' = [isos EXCEPT ![i] = [@ EXCEPT !.phase = "built",
                                             !.payload = channel[isos[i].ref]]]
    /\ UNCHANGED <<branch, channel, commitTag, builds, announced, onR2>>

\* Whatever part of the upload works: the step continues on error.  The
\* checksum it uploads is the one of the dated name.
IsoUpload(i) ==
    /\ IsoPhase(i, "built", "uploaded")
    /\ \E uploaded \in BOOLEAN :
          onR2' = IF uploaded
                  THEN [onR2 EXCEPT ![isos[i].ref].iso = isos[i].payload]
                  ELSE onR2

\* The boot gate comes after the upload.
IsoBoots(i) == IsoPhase(i, "uploaded", "success") /\ UNCHANGED onR2

IsoFails(i) ==
    /\ \E from \in {"queued", "uploaded"} : IsoPhase(i, from, "failure")
    /\ UNCHANGED onR2

IsoStep(i) == IsoBuilt(i) \/ IsoUpload(i) \/ IsoBoots(i) \/ IsoFails(i)

-----------------------------------------------------------------------------
\* By hand and by schedule, with at most `bound' builds in all.
Publish(bound) ==
    \/ \E touchesIso \in BOOLEAN : CommitToMain(touchesIso)
    \/ Len(builds) < bound /\ \E ref \in Ref : DispatchBuild(ref)
    \/ \E b \in DOMAIN builds : BuildStep(b) \/ IsoAfterBuild(b)
    \/ \E i \in DOMAIN isos : IsoStep(i)

-----------------------------------------------------------------------------
\* Builds of main are dispatched at any time, for the head of main as it is
\* then, and take hours: :latest still never moves back to an older commit.
LatestNeverGoesBack == [][channel'["main"] >= channel["main"]]_pubvars

\* Violated.  A failed push is a failed build: a run that pushed and then
\* succeeded leaves an image that can be pulled by its commit.
SuccessMeansPushed ==
    [][\A b \in DOMAIN builds :
         builds[b].phase = "commit" /\ builds'[b].phase = "success"
         => builds[b].sha \in commitTag']_pubvars

\* Violated.  An ISO that has been published as the channel's latest has
\* its checksum beside it, under the name README.md gives it.
ChecksumPublished ==
    \A i \in DOMAIN isos :
        /\ isos[i].phase = "success"
        /\ onR2[isos[i].ref].iso = isos[i].payload
        => onR2[isos[i].ref].checksum = isos[i].payload
=============================================================================
