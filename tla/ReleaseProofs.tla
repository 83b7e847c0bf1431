---------------------------- MODULE ReleaseProofs ----------------------------
(***************************************************************************)
(* Publishing and Release for any number of commits, builds, ISO runs and  *)
(* looks: :latest follows main, and what is promoted unforced was green.   *)
(***************************************************************************)
EXTENDS Release, SequenceTheorems, WellFoundedInduction, TLAPS

LEMMA HasMax ==
    ASSUME NEW n \in Nat, NEW S \in SUBSET (1 .. n), S # {}
    PROVE  \E m \in S : \A k \in S : k <= m
<1> DEFINE T == {n - k : k \in S}
<1>1. T \subseteq Nat
  OBVIOUS
<1>2. \A k \in S : n - k \in T
  OBVIOUS
<1>3. T # {}
  BY <1>2
<1>4. \A u \in T : \E k \in S : u = n - k
  OBVIOUS
<1> HIDE DEF T
<1>5. PICK t \in T : \A u \in T : ~ (<<u, t>> \in OpToRel(<, Nat))
  BY <1>1, <1>3, WFMin, NatLessThanWellFounded
<1>6. \A u \in T : ~ (u < t)
  BY <1>1, <1>5 DEF OpToRel
<1>7. PICK m \in S : t = n - m
  BY <1>4
<1>8. ASSUME NEW k \in S PROVE k <= m
  <2>1. ~ (n - k < n - m)
    BY <1>2, <1>6, <1>7
  <2>2. k \in Int /\ m \in Int /\ n \in Int
    OBVIOUS
  <2> QED
    BY <2>1, <2>2
<1> QED
  BY <1>8

-----------------------------------------------------------------------------
(* The lists of runs                                                        *)

LEMMA QueuedIs ==
    ASSUME builds \in Seq(Build), NEW run \in Build
    PROVE  /\ Queued(run) \in Seq(Build)
           /\ Len(Queued(run)) = Len(builds) + 1
           /\ Queued(run)[Len(builds) + 1] = run
           /\ \A b \in 1 .. Len(builds) :
                Queued(run)[b] =
                  IF builds[b].ref = run.ref /\ builds[b].phase = "queued"
                  THEN [builds[b] EXCEPT !.phase = "cancelled"] ELSE builds[b]
<1> DEFINE old == [b \in DOMAIN builds |->
                     IF builds[b].ref = run.ref /\ builds[b].phase = "queued"
                     THEN [builds[b] EXCEPT !.phase = "cancelled"] ELSE builds[b]]
<1>1. DOMAIN builds = 1 .. Len(builds) /\ Len(builds) \in Nat
  OBVIOUS
<1>2. \A b \in 1 .. Len(builds) : builds[b] \in Build
  BY ElementOfSeq
<1>3. \A b \in 1 .. Len(builds) : old[b] \in Build
  BY <1>1, <1>2 DEF Build
<1>4. old \in Seq(Build) /\ Len(old) = Len(builds)
  BY <1>1, <1>3
<1>5. Queued(run) = Append(old, run)
  BY DEF Queued
<1> HIDE DEF old
<1>6. /\ Append(old, run) \in Seq(Build)
      /\ Len(Append(old, run)) = Len(builds) + 1
      /\ Append(old, run)[Len(builds) + 1] = run
      /\ \A b \in 1 .. Len(builds) : Append(old, run)[b] = old[b]
  BY <1>4, AppendProperties
<1> QED
  BY <1>1, <1>5, <1>6 DEF old

LEMMA NewIsoIs ==
    ASSUME isos \in Seq(Iso), NEW r \in Ref, NEW s \in Commit,
           NEW p \in {"queued", "skipped"}
    PROVE  /\ NewIso(r, s, p) \in Seq(Iso)
           /\ Len(NewIso(r, s, p)) = Len(isos) + 1
           /\ NewIso(r, s, p)[Len(isos) + 1] =
                [ref |-> r, sha |-> s, payload |-> 0, phase |-> p]
           /\ \A i \in 1 .. Len(isos) : NewIso(r, s, p)[i] = isos[i]
<1> DEFINE new == [ref |-> r, sha |-> s, payload |-> 0, phase |-> p]
<1>1. new \in Iso
  BY BoundsAssumption DEF Iso, Image
<1> HIDE DEF new
<1> QED
  BY <1>1, AppendProperties DEF NewIso, new

LEMMA PhaseIs ==
    ASSUME builds \in Seq(Build), NEW b \in DOMAIN builds, NEW from,
           NEW to \in {"success", "failure"} \union Running, Phase(b, from, to)
    PROVE  /\ builds' \in Seq(Build) /\ Len(builds') = Len(builds)
           /\ builds[b].phase = from
           /\ builds'[b] = [ref |-> builds[b].ref, sha |-> builds[b].sha, phase |-> to]
           /\ \A a \in 1 .. Len(builds) : a # b => builds'[a] = builds[a]
<1>1. b \in 1 .. Len(builds) /\ builds[b] \in Build
  BY ElementOfSeq
<1>2. [builds[b] EXCEPT !.phase = to]
        = [ref |-> builds[b].ref, sha |-> builds[b].sha, phase |-> to]
  BY <1>1 DEF Build
<1>3. [builds[b] EXCEPT !.phase = to] \in Build
  BY <1>1 DEF Build
<1>4. builds' = [builds EXCEPT ![b] = [builds[b] EXCEPT !.phase = to]]
  BY DEF Phase
<1>5. builds[b].phase = from
  BY DEF Phase
<1> QED
  BY <1>1, <1>2, <1>3, <1>4, <1>5, ExceptSeq

\* A step of an ISO run gives it another record.
LEMMA IsoStepIs ==
    ASSUME isos \in Seq(Iso), NEW i \in DOMAIN isos, channel \in [Ref -> Image], IsoStep(i)
    PROVE  \E new \in Iso :
              /\ isos' = [isos EXCEPT ![i] = new]
              /\ new.ref = isos[i].ref /\ new.sha = isos[i].sha
              /\ isos[i].phase \notin {"success", "failure", "skipped"}
              /\ new.phase \in {"built", "uploaded", "success"} =>
                    \/ new.payload # 0
                    \/ /\ isos[i].phase \in {"built", "uploaded"}
                       /\ new.payload = isos[i].payload
<1>1. isos[i] \in Iso
  BY ElementOfSeq
<1>2. CASE IsoBuilt(i)
  <2> DEFINE new == [isos[i] EXCEPT !.phase = "built", !.payload = channel[isos[i].ref]]
  <2>1. new \in Iso /\ new.ref = isos[i].ref /\ new.sha = isos[i].sha
        /\ new.payload = channel[isos[i].ref]
    BY <1>1 DEF Iso
  <2>2. isos' = [isos EXCEPT ![i] = new] /\ isos[i].phase = "queued"
        /\ channel[isos[i].ref] # 0
    BY <1>2 DEF IsoBuilt
  <2> HIDE DEF new
  <2> QED
    BY <2>1, <2>2
<1>3. ASSUME NEW from \in {"queued", "built", "uploaded"},
             NEW to \in {"uploaded", "success", "failure"}, IsoPhase(i, from, to),
             to # "failure" => from # "queued"
      PROVE  \E new \in Iso :
                /\ isos' = [isos EXCEPT ![i] = new]
                /\ new.ref = isos[i].ref /\ new.sha = isos[i].sha
                /\ new.phase = to /\ new.payload = isos[i].payload
                /\ isos[i].phase = from
  <2> DEFINE new == [isos[i] EXCEPT !.phase = to]
  <2>1. new \in Iso /\ new.ref = isos[i].ref /\ new.sha = isos[i].sha
        /\ new.payload = isos[i].payload /\ new.phase = to
    BY <1>1 DEF Iso
  <2>2. isos' = [isos EXCEPT ![i] = new] /\ isos[i].phase = from
    BY <1>3 DEF IsoPhase
  <2> HIDE DEF new
  <2> QED
    BY <2>1, <2>2
<1>4. CASE IsoUpload(i)
  BY <1>3, <1>4 DEF IsoUpload
<1>5. CASE IsoBoots(i)
  BY <1>3, <1>5 DEF IsoBoots
<1>6. CASE IsoFails(i)
  BY <1>3, <1>6 DEF IsoFails
<1> QED
  BY <1>2, <1>4, <1>5, <1>6 DEF IsoStep

-----------------------------------------------------------------------------
(* Types                                                                    *)

\* The type invariant but for the history of a rollback.
JobTypeOK == PubTypeOK /\ job \in Job

LEMMA InitTyped == Init => JobTypeOK
<1>1. Init => PubTypeOK
  BY BoundsAssumption DEF Init, PubInit, PubTypeOK, Ref, Image, Commit
<1>2. Init => job \in Job
  BY BoundsAssumption, MaxPollsAssumption DEF Init, NoJob, Job, Image, Ended
<1> QED
  BY <1>1, <1>2 DEF JobTypeOK

LEMMA DispatchTyped ==
    ASSUME PubTypeOK, NEW r \in Ref, DispatchBuild(r), Len(builds) < MaxBuilds
    PROVE  PubTypeOK'
<1> DEFINE run == [ref |-> r, sha |-> branch[r], phase |-> "queued"]
<1>1. run \in Build
  BY DEF PubTypeOK, DispatchBuild, Build, Image, Commit
<1>2. builds' = Queued(run)
  BY DEF DispatchBuild
<1> HIDE DEF run
<1>3. builds' \in Seq(Build) /\ Len(builds') = Len(builds) + 1
  BY <1>1, <1>2, QueuedIs DEF PubTypeOK
<1>4. Len(builds) \in Nat /\ DOMAIN builds = 1 .. Len(builds)
      /\ DOMAIN builds' = 1 .. Len(builds')
  BY <1>3 DEF PubTypeOK
<1>5. announced \subseteq DOMAIN builds' /\ Len(builds') <= MaxBuilds
  BY <1>3, <1>4, BoundsAssumption DEF PubTypeOK
<1> QED
  BY <1>3, <1>5 DEF PubTypeOK, DispatchBuild

LEMMA BuildStepTyped ==
    ASSUME PubTypeOK, NEW b \in DOMAIN builds, BuildStep(b)
    PROVE  PubTypeOK'
<1>1. builds[b] \in Build
  BY ElementOfSeq DEF PubTypeOK
<1>2. PICK to \in {"success", "failure"} \union Running : Phase(b, builds[b].phase, to)
  BY DEF BuildStep, BuildBegins, BuildFails, ImageBuilt, PushChannel, PushCommit, Running,
         Phase
<1>3. builds' \in Seq(Build) /\ Len(builds') = Len(builds)
  BY <1>2, PhaseIs DEF PubTypeOK
<1>4. DOMAIN builds' = DOMAIN builds
  BY <1>3 DEF PubTypeOK
<1>5. builds[b].ref \in Ref /\ builds[b].sha \in Commit /\ builds[b].sha \in Image
  BY <1>1 DEF Build, Image, Commit
<1>6. channel' \in [Ref -> Image]
  BY <1>5 DEF BuildStep, BuildBegins, BuildFails, ImageBuilt, PushChannel, PushCommit,
              PubTypeOK
<1>7. commitTag' \subseteq Commit
  BY <1>5 DEF BuildStep, BuildBegins, BuildFails, ImageBuilt, PushChannel, PushCommit,
              PubTypeOK
<1>8. UNCHANGED <<branch, isos, announced, onR2>>
  BY <1>2 DEF Phase
<1> QED
  BY <1>3, <1>4, <1>6, <1>7, <1>8 DEF PubTypeOK

LEMMA NewIsoTyped ==
    ASSUME PubTypeOK, NEW r \in Ref, NEW s \in Commit, NEW p \in {"queued", "skipped"},
           isos' = NewIso(r, s, p), Len(isos) < MaxIsos, UNCHANGED builds,
           branch' \in [Ref -> Image], channel' \in [Ref -> Image],
           commitTag' \subseteq Commit, announced' \subseteq DOMAIN builds,
           UNCHANGED onR2
    PROVE  PubTypeOK'
<1>0. isos \in Seq(Iso)
  BY DEF PubTypeOK
<1>1. /\ isos' \in Seq(Iso) /\ Len(isos') = Len(isos) + 1
      /\ isos'[Len(isos) + 1] = [ref |-> r, sha |-> s, payload |-> 0, phase |-> p]
      /\ \A i \in 1 .. Len(isos) : isos'[i] = isos[i]
  BY <1>0, NewIsoIs
<1>2. Len(isos) \in Nat /\ DOMAIN isos = 1 .. Len(isos) /\ DOMAIN isos' = 1 .. Len(isos) + 1
  BY <1>1 DEF PubTypeOK
<1>3. Len(isos') <= MaxIsos
  BY <1>1, <1>2, BoundsAssumption
<1>4. ASSUME NEW i \in DOMAIN isos',
             isos'[i].phase \in {"built", "uploaded", "success"}
      PROVE  isos'[i].payload # 0
  <2>1. isos'[Len(isos) + 1].phase = p
    BY <1>1
  <2>2. i \in 1 .. Len(isos)
    BY <1>2, <1>4, <2>1
  <2> QED
    BY <1>1, <1>2, <1>4, <2>2 DEF PubTypeOK
<1> QED
  BY <1>1, <1>3, <1>4 DEF PubTypeOK

LEMMA IsoStepTyped ==
    ASSUME PubTypeOK, NEW i \in DOMAIN isos, IsoStep(i)
    PROVE  PubTypeOK'
<1>1. isos[i] \in Iso /\ i \in 1 .. Len(isos) /\ DOMAIN isos = 1 .. Len(isos)
  BY ElementOfSeq DEF PubTypeOK
<1>2. PICK new \in Iso :
        /\ isos' = [isos EXCEPT ![i] = new]
        /\ new.phase \in {"built", "uploaded", "success"} =>
              \/ new.payload # 0
              \/ /\ isos[i].phase \in {"built", "uploaded"}
                 /\ new.payload = isos[i].payload
  BY IsoStepIs DEF PubTypeOK
<1>3. /\ isos' \in Seq(Iso) /\ Len(isos') = Len(isos)
      /\ \A a \in 1 .. Len(isos) : isos'[a] = IF a = i THEN new ELSE isos[a]
  BY <1>1, <1>2, ExceptSeq DEF PubTypeOK
<1>4. \A a \in DOMAIN isos' :
         isos'[a].phase \in {"built", "uploaded", "success"} => isos'[a].payload # 0
  <2>1. DOMAIN isos' = 1 .. Len(isos)
    BY <1>3
  <2> QED
    BY <1>1, <1>2, <1>3, <2>1 DEF PubTypeOK
<1>5. onR2' \in [Ref -> [iso : Image, checksum : Image]]
  <2>1. isos[i].payload \in Image /\ isos[i].ref \in Ref
    BY <1>1 DEF Iso
  <2>2. CASE UNCHANGED onR2
    BY <2>2 DEF PubTypeOK
  <2>3. CASE onR2' = [onR2 EXCEPT ![isos[i].ref].iso = isos[i].payload]
    BY <2>1, <2>3 DEF PubTypeOK
  <2> QED
    BY <2>2, <2>3 DEF IsoStep, IsoBuilt, IsoUpload, IsoBoots, IsoFails
<1>6. UNCHANGED <<branch, channel, commitTag, builds, announced>>
  BY DEF IsoStep, IsoBuilt, IsoUpload, IsoBoots, IsoFails, IsoPhase
<1> QED
  BY <1>3, <1>4, <1>5, <1>6 DEF PubTypeOK

LEMMA PublishTyped ==
    ASSUME PubTypeOK, NEW bound, bound <= MaxBuilds, bound \in Int, Publish(bound)
    PROVE  PubTypeOK'
<1>1. ASSUME NEW t \in BOOLEAN, CommitToMain(t) PROVE PubTypeOK'
  <2>1. branch' \in [Ref -> Image] /\ branch["main"] + 1 \in Commit
    BY <1>1, BoundsAssumption DEF CommitToMain, PubTypeOK, Ref, Image, Commit
  <2>2. CASE t
    BY <1>1, <2>1, <2>2, NewIsoTyped DEF CommitToMain, PubTypeOK, Ref
  <2>3. CASE ~ t
    BY <1>1, <2>1, <2>3 DEF CommitToMain, PubTypeOK
  <2> QED
    BY <2>2, <2>3
<1>2. ASSUME NEW r \in Ref, Len(builds) < bound, DispatchBuild(r) PROVE PubTypeOK'
  BY <1>2, DispatchTyped, BoundsAssumption DEF PubTypeOK
<1>3. ASSUME NEW b \in DOMAIN builds, BuildStep(b) PROVE PubTypeOK'
  BY <1>3, BuildStepTyped
<1>4. ASSUME NEW b \in DOMAIN builds, IsoAfterBuild(b) PROVE PubTypeOK'
  <2>0. builds[b] \in Build
    BY ElementOfSeq DEF PubTypeOK
  <2>1. builds[b].ref \in Ref /\ builds[b].sha \in Commit
    BY <2>0 DEF Build
  <2> QED
    BY <1>4, <2>1, NewIsoTyped DEF IsoAfterBuild, PubTypeOK
<1>5. ASSUME NEW i \in DOMAIN isos, IsoStep(i) PROVE PubTypeOK'
  BY <1>5, IsoStepTyped
<1> QED
  BY <1>1, <1>2, <1>3, <1>4, <1>5 DEF Publish

\* While a promotion has its build still to dispatch there is room for it.
Room ==
    job.pc \in Promoting \ (Waiting \union {"verify"}) => Len(builds) < MaxBuilds

Typed == JobTypeOK /\ Room

\* What `gh run list' prints is a run of the list.
LEMMA NewestIsOne ==
    ASSUME NEW n \in Nat, NEW found \in SUBSET (1 .. n), Newest(found) # 0
    PROVE  Newest(found) \in found
<1>1. found # {}
  BY DEF Newest
<1> QED
  BY <1>1, HasMax DEF Newest

LEMMA GreenIs ==
    ASSUME NEW R, NEW runs \in Seq(R), Green(runs) # 0
    PROVE  /\ Green(runs) \in DOMAIN runs
           /\ runs[Green(runs)].ref = "main" /\ runs[Green(runs)].phase = "success"
<1> DEFINE found == {m \in DOMAIN runs : runs[m].ref = "main"}
<1>1. Green(runs) = Newest(found) /\ Newest(found) # 0
      /\ runs[Newest(found)].phase = "success"
  BY DEF Green
<1>2. found \in SUBSET (1 .. Len(runs)) /\ Len(runs) \in Nat
  OBVIOUS
<1>3. Newest(found) \in found
  <2> HIDE DEF found
  <2> QED
    BY <1>1, <1>2, NewestIsOne
<1> QED
  BY <1>1, <1>3

LEMMA NoJobTyped == \A pc \in {"checkBuild", "tags"} \union Ended : NoJob(pc) \in Job
  BY BoundsAssumption, MaxPollsAssumption
     DEF NoJob, Job, Promoting, RollingBack, Ended, Image

LEMMA EndedTyped ==
    \A pc \in Ended : /\ NoJob(pc) \in Job
                      /\ NoJob(pc).pc = pc /\ pc \notin Promoting
  BY NoJobTyped DEF NoJob, Ended, Promoting, Waiting

\* The outcomes of one look of wait_for_run.
Waited(pc, next) ==
    /\ job.pc = pc
    /\ \/ job' = [job EXCEPT !.pc = next, !.polls = 0]
       \/ job.polls < MaxPolls /\ job' = [job EXCEPT !.polls = @ + 1]
       \/ job' = NoJob("idle")

LEMMA WaitIs ==
    ASSUME NEW pc, NEW runs, NEW next, Wait(pc, runs, next)
    PROVE  Waited(pc, next)
<1> DEFINE n == Newest(StableRuns(runs))
           phase == IF n = 0 THEN "missing" ELSE runs[n].phase
<1> HIDE DEF n
<1>1. CASE phase = "success"
  BY <1>1 DEF Wait, Waited, n
<1>2. CASE phase \in {"failure", "cancelled", "skipped"}
  BY <1>2 DEF Wait, Waited, n
<1>3. CASE phase \notin {"success", "failure", "cancelled", "skipped"}
  BY <1>3 DEF Wait, Waited, n
<1> QED
  BY <1>1, <1>2, <1>3

LEMMA InitRoom == Init => Room
  BY DEF Init, NoJob, Room, Promoting, Waiting

\* Steps of the job that leave the builds and the registry alone.
LEMMA LookingTyped ==
    ASSUME Typed, UNCHANGED pubvars,
           \/ \E force \in BOOLEAN : Promote(force)
           \/ \E sha \in Commit : Rollback(sha)
           \/ CheckBuild \/ CheckIso \/ \E g \in BOOLEAN : Decide(g)
           \/ WaitBuild \/ WaitIso \/ Verify \/ JobFails
    PROVE  Typed'
<1>1. PubTypeOK' /\ job \in Job
  BY DEF Typed, JobTypeOK, PubTypeOK, pubvars
<1>2. Len(builds') = Len(builds)
  BY DEF pubvars
<1> SUFFICES job' \in Job /\ Room'
  BY <1>1 DEF Typed, JobTypeOK
<1> USE DEF Room, Typed
<1>3. ASSUME NEW force \in BOOLEAN, Promote(force) PROVE job' \in Job /\ Room'
  <2>1. job' = [pc |-> "checkBuild", force |-> force, green |-> 0, iso |-> 0, sha |-> 0,
                polls |-> 0]
    BY <1>3 DEF Promote, NoJob
  <2> QED
    BY <1>2, <1>3, <2>1, BoundsAssumption, MaxPollsAssumption
       DEF Promote, Job, Promoting, Image
<1>4. ASSUME NEW sha \in Commit, Rollback(sha) PROVE job' \in Job /\ Room'
  <2>1. job' = [pc |-> "tags", force |-> FALSE, green |-> 0, iso |-> 0, sha |-> sha,
                polls |-> 0]
    BY <1>4 DEF Rollback, NoJob
  <2> QED
    BY <2>1, BoundsAssumption, MaxPollsAssumption
       DEF Job, Promoting, Waiting, RollingBack, Image, Commit
<1>5. CASE CheckBuild
  <2>1. Green(builds) # 0 => builds[Green(builds)].sha \in Image
    <3> SUFFICES ASSUME Green(builds) # 0 PROVE builds[Green(builds)].sha \in Image
      OBVIOUS
    <3>1. builds[Green(builds)] \in Build
      BY GreenIs, ElementOfSeq DEF JobTypeOK, PubTypeOK
    <3> QED
      BY <3>1 DEF Build, Image, Commit
  <2>2. 0 \in Image
    BY BoundsAssumption DEF Image
  <2> QED
    BY <1>1, <1>2, <1>5, <2>1, <2>2 DEF CheckBuild, Job, Promoting, Waiting
<1>6. CASE CheckIso
  <2>1. Green(isos) \in 0 .. MaxIsos
    <3>1. Green(isos) # 0 => Green(isos) \in 1 .. Len(isos)
      BY GreenIs DEF JobTypeOK, PubTypeOK
    <3>2. Len(isos) <= MaxIsos /\ Len(isos) \in Nat
      BY DEF JobTypeOK, PubTypeOK
    <3> QED
      BY <3>1, <3>2, BoundsAssumption
  <2> QED
    BY <1>1, <1>2, <1>6, <2>1 DEF CheckIso, Job, Promoting, Waiting
<1>7. ASSUME NEW g \in BOOLEAN, Decide(g) PROVE job' \in Job /\ Room'
  <2>1. branch["main"] \in Image
    BY DEF JobTypeOK, PubTypeOK, Ref
  <2>2. CASE job' = NoJob("idle")
    BY <2>2, NoJobTyped DEF Ended, NoJob, Promoting, Waiting
  <2>3. CASE job' # NoJob("idle")
    BY <1>1, <1>2, <1>7, <2>1, <2>3 DEF Decide, Job, Promoting, Waiting
  <2> QED
    BY <2>2, <2>3
<1>8. CASE WaitBuild \/ WaitIso
  <2>1. PICK pc, next : Waited(pc, next) /\ <<pc, next>> \in
               {<<"waitBuild", "waitIso">>, <<"waitIso", "verify">>}
    BY <1>8, WaitIs DEF WaitBuild, WaitIso
  <2>2. CASE job' = NoJob("idle")
    BY <2>2, EndedTyped DEF Ended
  <2>3. CASE job' = [job EXCEPT !.pc = next, !.polls = 0]
    <3>1. next \in {"waitIso", "verify"} /\ 0 \in 0 .. MaxPolls
      BY <2>1, MaxPollsAssumption
    <3>2. job' \in Job
      BY <1>1, <2>3, <3>1 DEF Job, Promoting, Waiting
    <3> QED
      BY <1>1, <2>3, <3>1, <3>2 DEF Job, Waiting
  <2>4. CASE job.pc = pc /\ job.polls < MaxPolls /\ job' = [job EXCEPT !.polls = @ + 1]
    <3>1. pc \in Waiting /\ job.polls + 1 \in 0 .. MaxPolls
      BY <1>1, <2>1, <2>4, MaxPollsAssumption DEF Waiting, Job
    <3> QED
      BY <1>1, <2>4, <3>1 DEF Job
  <2> QED
    BY <2>1, <2>2, <2>3, <2>4 DEF Waited
<1>9. CASE Verify \/ JobFails
  <2>1. \E pc \in Ended : job' = NoJob(pc)
    BY <1>9 DEF Verify, JobFails, Ended
  <2> QED
    BY <2>1, EndedTyped
<1> QED
  BY <1>1, <1>3, <1>4, <1>5, <1>6, <1>7, <1>8, <1>9 DEF JobTypeOK

LEMMA MovingTyped ==
    ASSUME Typed, PushBranch \/ Dispatch \/ RollbackTags \/ RollbackBranch
    PROVE  Typed'
<1>1. job \in Job /\ PubTypeOK /\ job.sha \in Image
  BY DEF Typed, JobTypeOK, Job
<1> USE DEF Room, Typed, JobTypeOK
<1>2. CASE PushBranch
  <2>1. PubTypeOK'
    BY <1>1, <1>2 DEF PushBranch, PubTypeOK
  <2>2. job' \in Job
    <3>1. job' = [pc |-> "dispatch", force |-> FALSE, green |-> 0, iso |-> 0,
                  sha |-> job.sha, polls |-> job.polls]
      BY <1>1, <1>2 DEF PushBranch, Job
    <3>2. job.polls \in 0 .. MaxPolls
      BY <1>1 DEF Job
    <3> QED
      BY <1>1, <3>1, <3>2, BoundsAssumption DEF Job, Promoting, Image
  <2>3. Room'
    BY <1>1, <1>2 DEF PushBranch, Job, Promoting, Waiting
  <2> QED
    BY <2>1, <2>2, <2>3
<1>3. CASE Dispatch
  <2>1. Len(builds) < MaxBuilds
    BY <1>3 DEF Dispatch, Promoting, Waiting
  <2>2. PubTypeOK'
    BY <1>1, <1>3, <2>1, DispatchTyped DEF Dispatch, Ref
  <2> QED
    BY <1>1, <1>3, <2>2 DEF Dispatch, Job, Promoting, Waiting
<1>4. CASE RollbackTags
  BY <1>1, <1>4 DEF RollbackTags, PubTypeOK, Job, RollingBack, Promoting, Waiting
<1>5. CASE RollbackBranch
  BY <1>1, <1>5, NoJobTyped
     DEF RollbackBranch, PubTypeOK, Ended, NoJob, Promoting, Waiting
<1> QED
  BY <1>2, <1>3, <1>4, <1>5

LEMMA StepTyped == Typed /\ [Next]_vars => Typed'
<1> SUFFICES ASSUME Typed, [Next]_vars PROVE Typed'
  OBVIOUS
<1>1. CASE Beside
  <2>0. Publish(Bound) /\ UNCHANGED job
    BY <1>1 DEF Beside
  <2>1. Bound \in Int /\ Bound <= MaxBuilds
    BY BoundsAssumption DEF Bound
  <2>2. PubTypeOK'
    BY <2>0, <2>1, PublishTyped DEF Typed, JobTypeOK
  <2>3. Room'
    <3> SUFFICES ASSUME job.pc \in Promoting \ (Waiting \union {"verify"})
                 PROVE  Len(builds') < MaxBuilds
      BY <2>0 DEF Room
    <3>1. Bound = MaxBuilds - 1
      BY DEF Bound
    <3>2. CASE Len(builds') = Len(builds)
      BY <3>2 DEF Typed, Room
    <3>3. ASSUME NEW r \in Ref, Len(builds) < Bound, DispatchBuild(r)
          PROVE  Len(builds') < MaxBuilds
      <4>1. [ref |-> r, sha |-> branch[r], phase |-> "queued"] \in Build
        BY <3>3 DEF Typed, JobTypeOK, PubTypeOK, DispatchBuild, Build, Image, Commit
      <4>2. Len(builds') = Len(builds) + 1 /\ Len(builds) \in Nat
        BY <3>3, <4>1, QueuedIs DEF DispatchBuild, Typed, JobTypeOK, PubTypeOK
      <4> QED
        BY <3>1, <3>3, <4>2, BoundsAssumption
    <3>4. ASSUME NEW b \in DOMAIN builds, BuildStep(b) PROVE Len(builds') = Len(builds)
      <4>1. PICK to \in {"success", "failure"} \union Running : Phase(b, builds[b].phase, to)
        BY <3>4 DEF BuildStep, BuildBegins, BuildFails, ImageBuilt, PushChannel, PushCommit,
                    Running, Phase
      <4> QED
        BY <4>1, PhaseIs DEF Typed, JobTypeOK, PubTypeOK
    <3> QED
      BY <2>0, <3>2, <3>3, <3>4
         DEF Publish, CommitToMain, IsoAfterBuild, IsoStep, IsoBuilt, IsoUpload,
             IsoBoots, IsoFails, IsoPhase
  <2> QED
    BY <2>0, <2>2, <2>3 DEF Typed, JobTypeOK
<1>2. CASE UNCHANGED vars
  BY <1>2 DEF vars, pubvars, Typed, JobTypeOK, PubTypeOK, Room
<1>3. CASE PushBranch \/ Dispatch \/ RollbackTags \/ RollbackBranch
  BY <1>3, MovingTyped
<1>4. CASE \/ \E force \in BOOLEAN : Promote(force)
           \/ \E sha \in Commit : Rollback(sha)
           \/ CheckBuild \/ CheckIso \/ \E g \in BOOLEAN : Decide(g)
           \/ WaitBuild \/ WaitIso \/ Verify \/ JobFails
  <2>1. UNCHANGED pubvars
    BY <1>4 DEF Promote, Rollback, CheckBuild, CheckIso, Decide, WaitBuild, WaitIso,
                Wait, Verify, JobFails
  <2> QED
    BY <1>4, <2>1, LookingTyped
<1> QED
  BY <1>1, <1>2, <1>3, <1>4 DEF Next, Beside, JobStep

LEMMA AlwaysTyped == Spec => []Typed
<1>1. Init => Typed
  BY InitTyped, InitRoom DEF Typed
<1> QED
  BY <1>1, StepTyped, PTL DEF Spec

UndoOK == undo \in [pushed : SUBSET (1 .. MaxBuilds), builds : 0 .. MaxBuilds]

LEMMA StepUndo == Typed /\ UndoOK /\ [Next]_vars => UndoOK'
<1> SUFFICES ASSUME Typed, UndoOK, [Next]_vars PROVE UndoOK'
  OBVIOUS
<1>1. Len(builds) \in 0 .. MaxBuilds /\ DOMAIN builds \subseteq 1 .. MaxBuilds
  <2>1. builds \in Seq(Build) /\ Len(builds) <= MaxBuilds
    BY DEF Typed, JobTypeOK, PubTypeOK
  <2> QED
    BY <2>1, BoundsAssumption
<1>2. CASE undo' = undo
  BY <1>2 DEF UndoOK
<1>3. CASE undo' = NoUndo
  BY <1>3, BoundsAssumption DEF UndoOK, NoUndo
<1>4. CASE RollbackBranch
  BY <1>1, <1>4 DEF RollbackBranch, UndoOK
<1>5. CASE Beside
  <2>1. PushesStable \subseteq 1 .. MaxBuilds
    BY <1>1 DEF PushesStable
  <2> QED
    BY <1>2, <1>5, <2>1 DEF Beside, UndoOK
<1> QED
  BY <1>2, <1>3, <1>4, <1>5
     DEF Next, JobStep, Promote, Rollback, CheckBuild, CheckIso, Decide, PushBranch, Dispatch,
         WaitBuild, WaitIso, Wait, Verify, RollbackTags, JobFails, vars

LEMMA AlwaysUndo == Spec => []UndoOK
<1>1. Init => UndoOK
  BY BoundsAssumption DEF Init, UndoOK, NoUndo
<1> QED
  BY <1>1, AlwaysTyped, StepUndo, PTL DEF Spec

\* However runs and jobs interleave, every variable keeps its type; an ISO that
\* was built has an image in it, and a promotion never counts more looks than
\* wait_for_run takes.
THEOREM TypeCorrect == Spec => []TypeOK
<1>1. Typed /\ UndoOK => TypeOK
  BY DEF Typed, JobTypeOK, UndoOK, TypeOK
<1> QED
  BY <1>1, AlwaysTyped, AlwaysUndo, PTL

-----------------------------------------------------------------------------
(* :latest follows main                                                     *)

OfMain == {b \in DOMAIN builds : builds[b].ref = "main"}

\* The builds of main are in the order of its commits...
Sorted ==
    /\ \A a, b \in OfMain : a < b => builds[a].sha <= builds[b].sha
    /\ \A b \in OfMain : builds[b].sha <= branch["main"]

\* ... one of them runs, and the one that waits is the last...
Grouped ==
    /\ \A a, b \in OfMain :
          builds[a].phase \in Running /\ builds[b].phase \in Running => a = b
    /\ \A a, b \in OfMain : builds[a].phase = "queued" => b <= a

\* ... so what a build has yet to push is no older than :latest.
Ahead ==
    /\ channel["main"] <= branch["main"]
    /\ \A b \in OfMain : builds[b].phase \in {"queued", "building", "channel"}
                          => channel["main"] <= builds[b].sha

Ordered == Sorted /\ Grouped /\ Ahead

LEMMA NumbersAre ==
    ASSUME PubTypeOK
    PROVE  /\ branch["main"] \in Nat /\ channel["main"] \in Nat
           /\ \A b \in DOMAIN builds : builds[b] \in Build /\ builds[b].sha \in Nat
           /\ Len(builds) \in Nat /\ DOMAIN builds = 1 .. Len(builds)
<1>1. \A b \in DOMAIN builds : builds[b] \in Build
  BY ElementOfSeq DEF PubTypeOK
<1> QED
  BY <1>1, BoundsAssumption DEF PubTypeOK, Ref, Image, Commit, Build

LEMMA DispatchOrdered ==
    ASSUME PubTypeOK, Ordered, NEW r \in Ref, DispatchBuild(r)
    PROVE  Ordered' /\ UNCHANGED channel
<1> DEFINE run == [ref |-> r, sha |-> branch[r], phase |-> "queued"]
           n == Len(builds)
<1>1. run \in Build /\ run.ref = r /\ run.sha = branch[r] /\ run.phase = "queued"
  BY DEF PubTypeOK, DispatchBuild, Build, Image, Commit
<1>2. builds' = Queued(run) /\ UNCHANGED <<branch, channel>>
  BY DEF DispatchBuild
<1> HIDE DEF run
<1>3. /\ DOMAIN builds' = 1 .. n + 1 /\ n \in Nat /\ DOMAIN builds = 1 .. n
      /\ builds'[n + 1] = run
      /\ \A b \in 1 .. n :
           builds'[b] = IF builds[b].ref = r /\ builds[b].phase = "queued"
                        THEN [builds[b] EXCEPT !.phase = "cancelled"] ELSE builds[b]
  <2>1. /\ builds' \in Seq(Build) /\ Len(builds') = n + 1 /\ builds \in Seq(Build)
        /\ builds'[n + 1] = run
        /\ \A b \in 1 .. n :
             builds'[b] = IF builds[b].ref = r /\ builds[b].phase = "queued"
                          THEN [builds[b] EXCEPT !.phase = "cancelled"] ELSE builds[b]
    BY <1>1, <1>2, QueuedIs DEF PubTypeOK
  <2>2. DOMAIN builds' = 1 .. n + 1 /\ n \in Nat /\ DOMAIN builds = 1 .. n
    BY <2>1
  <2> QED
    BY <2>1, <2>2
<1>4. \A b \in 1 .. n :
        /\ builds'[b].ref = builds[b].ref /\ builds'[b].sha = builds[b].sha
        /\ \/ builds'[b].phase = builds[b].phase
           \/ builds'[b].phase = "cancelled"
        /\ builds[b].ref = r => builds'[b].phase # "queued"
  BY <1>3, NumbersAre DEF Build
<1>5. ASSUME NEW b \in OfMain'
      PROVE  b \in OfMain \/ (b = n + 1 /\ builds'[b] = run /\ r = "main")
  <2>1. CASE b # n + 1
    <3>1. b \in 1 .. n /\ builds'[b].ref = "main"
      BY <1>3, <2>1 DEF OfMain
    <3> QED
      BY <1>3, <1>4, <3>1 DEF OfMain
  <2>2. CASE b = n + 1
    <3>1. builds'[b].ref = "main" /\ builds'[b] = run
      BY <1>3, <2>2 DEF OfMain
    <3> QED
      BY <1>1, <2>2, <3>1
  <2> QED
    BY <2>1, <2>2
<1>6. \A b \in OfMain : b \in 1 .. n
  BY <1>3 DEF OfMain
<1>7. Sorted'
  BY <1>1, <1>2, <1>3, <1>4, <1>5, <1>6, NumbersAre DEF Ordered, Sorted
<1>8. Grouped'
  <2>1. "queued" \notin Running /\ "cancelled" \notin Running
    BY DEF Running
  <2>2. ASSUME NEW a \in OfMain', NEW b \in OfMain',
               builds'[a].phase \in Running, builds'[b].phase \in Running
        PROVE  a = b
    BY <1>1, <1>4, <1>5, <1>6, <2>1, <2>2 DEF Ordered, Grouped
  <2>3. ASSUME NEW a \in OfMain', NEW b \in OfMain', builds'[a].phase = "queued"
        PROVE  b <= a
    <3>1. CASE a = n + 1
      BY <1>3, <1>5, <1>6, <3>1
    <3>2. CASE a \in OfMain
      <4>1. r # "main" /\ builds[a].phase = "queued"
        BY <1>4, <1>6, <2>3, <3>2 DEF OfMain
      <4> QED
        BY <1>5, <3>2, <4>1 DEF Ordered, Grouped
    <3> QED
      BY <1>5, <3>1, <3>2
  <2> QED
    BY <2>2, <2>3 DEF Grouped
<1>9. Ahead'
  BY <1>1, <1>2, <1>4, <1>5, <1>6, NumbersAre DEF Ordered, Ahead
<1> QED
  BY <1>2, <1>7, <1>8, <1>9 DEF Ordered

LEMMA BuildStepOrdered ==
    ASSUME PubTypeOK, Ordered, NEW b \in DOMAIN builds, BuildStep(b)
    PROVE  Ordered' /\ channel'["main"] >= channel["main"]
<1>1. /\ branch["main"] \in Nat /\ channel["main"] \in Nat
      /\ \A a \in DOMAIN builds : builds[a] \in Build /\ builds[a].sha \in Nat
      /\ Len(builds) \in Nat /\ DOMAIN builds = 1 .. Len(builds)
  BY NumbersAre
<1>2. PICK to \in {"success", "failure"} \union Running :
        /\ Phase(b, builds[b].phase, to)
        /\ \/ to = "building" /\ builds[b].phase = "queued" /\ GroupIsFree(builds[b].ref)
           \/ to \in {"failure", "success"} /\ builds[b].phase \in Running
           \/ to = "channel" /\ builds[b].phase = "building"
           \/ to = "commit" /\ builds[b].phase = "channel"
        /\ \/ UNCHANGED channel
           \/ to = "commit" /\ channel' = [channel EXCEPT ![builds[b].ref] = builds[b].sha]
  BY DEF BuildStep, BuildBegins, BuildFails, ImageBuilt, PushChannel, PushCommit, Running,
         Phase
<1>3. /\ builds' \in Seq(Build) /\ Len(builds') = Len(builds)
      /\ builds'[b] = [ref |-> builds[b].ref, sha |-> builds[b].sha, phase |-> to]
      /\ \A a \in 1 .. Len(builds) : a # b => builds'[a] = builds[a]
  BY <1>2, PhaseIs DEF PubTypeOK
<1>4. /\ OfMain' = OfMain /\ OfMain \subseteq 1 .. Len(builds)
      /\ UNCHANGED branch
      /\ \A a \in OfMain : builds'[a].sha = builds[a].sha
      /\ \A a \in OfMain : builds'[a].phase = IF a = b THEN to ELSE builds[a].phase
  BY <1>1, <1>2, <1>3 DEF OfMain, Phase
<1>5. Sorted'
  BY <1>4 DEF Ordered, Sorted
<1>6. Grouped'
  <2>1. to # "queued" /\ "queued" \notin Running
    BY <1>2 DEF Running
  <2>2. CASE builds[b].phase \in Running
    BY <1>4, <2>1, <2>2 DEF Ordered, Grouped
  <2>3. CASE builds[b].phase \notin Running
    <3>1. \A a \in OfMain : b \in OfMain => builds[a].phase \notin Running
      BY <1>2, <2>3 DEF Running, GroupIsFree, OfMain
    <3> QED
      BY <1>4, <2>1, <3>1 DEF Ordered, Grouped
  <2> QED
    BY <2>2, <2>3
<1>7. CASE UNCHANGED channel \/ b \notin OfMain
  <2>1. channel'["main"] = channel["main"]
    <3>1. b \notin OfMain => builds[b].ref # "main"
      BY DEF OfMain
    <3> QED
      BY <1>2, <1>7, <3>1 DEF PubTypeOK, Ref
  <2>2. Ahead'
    BY <1>2, <1>4, <2>1 DEF Ordered, Ahead, Running
  <2> QED
    BY <1>1, <1>5, <1>6, <2>1, <2>2 DEF Ordered
<1>8. CASE to = "commit" /\ channel' = [channel EXCEPT ![builds[b].ref] = builds[b].sha]
           /\ b \in OfMain
  <2>1. channel'["main"] = builds[b].sha /\ builds[b].phase = "channel"
    BY <1>2, <1>8 DEF OfMain, PubTypeOK, Ref, Running
  <2>2. ASSUME NEW a \in OfMain, builds'[a].phase \in {"queued", "building", "channel"}
        PROVE  builds[b].sha <= builds[a].sha
    <3>1. a # b
      BY <1>4, <1>8, <2>2
    <3>2. builds[a].phase = "queued"
      BY <1>4, <1>8, <2>1, <2>2, <3>1 DEF Ordered, Grouped, Running
    <3>3. b < a
      BY <1>4, <1>8, <3>1, <3>2 DEF Ordered, Grouped
    <3> QED
      BY <1>8, <3>3 DEF Ordered, Sorted
  <2>3. Ahead'
    BY <1>4, <1>8, <2>1, <2>2 DEF Ordered, Sorted, Ahead
  <2>4. channel'["main"] >= channel["main"]
    BY <1>1, <1>8, <2>1 DEF Ordered, Ahead, OfMain
  <2> QED
    BY <1>5, <1>6, <2>3, <2>4 DEF Ordered
<1> QED
  BY <1>2, <1>7, <1>8

LEMMA StepOrdered ==
    Typed /\ Ordered /\ [Next]_vars => Ordered' /\ channel'["main"] >= channel["main"]
<1> SUFFICES ASSUME Typed, Ordered, [Next]_vars
             PROVE  Ordered' /\ channel'["main"] >= channel["main"]
  OBVIOUS
<1>0. PubTypeOK /\ branch["main"] \in Nat /\ channel["main"] \in Nat
  BY NumbersAre DEF Typed, JobTypeOK
<1>1. ASSUME NEW r \in Ref, DispatchBuild(r)
      PROVE  Ordered' /\ channel'["main"] >= channel["main"]
  BY <1>0, <1>1, DispatchOrdered
<1>2. ASSUME NEW b \in DOMAIN builds, BuildStep(b)
      PROVE  Ordered' /\ channel'["main"] >= channel["main"]
  BY <1>0, <1>2, BuildStepOrdered
\* Nothing else starts a build, moves one on or touches the branch back.
<1>3. ASSUME UNCHANGED builds, channel'["main"] = channel["main"],
             branch'["main"] = branch["main"] \/ branch'["main"] = branch["main"] + 1
      PROVE  Ordered' /\ channel'["main"] >= channel["main"]
  <2>1. branch'["main"] >= branch["main"]
    BY <1>0, <1>3
  <2>2. \A b \in OfMain : builds[b].sha \in Nat
    BY <1>0, NumbersAre DEF OfMain
  <2>3. OfMain' = OfMain
    BY <1>3 DEF OfMain
  <2>4. Sorted'
    BY <1>0, <1>3, <2>1, <2>2, <2>3 DEF Ordered, Sorted
  <2>5. Grouped'
    BY <1>3, <2>3 DEF Ordered, Grouped
  <2>6. Ahead'
    BY <1>0, <1>3, <2>1, <2>3 DEF Ordered, Ahead
  <2> QED
    BY <1>0, <1>3, <2>4, <2>5, <2>6 DEF Ordered
<1>4. ASSUME NEW t \in BOOLEAN, CommitToMain(t)
      PROVE  Ordered' /\ channel'["main"] >= channel["main"]
  BY <1>0, <1>3, <1>4 DEF CommitToMain, PubTypeOK, Ref
<1>5. CASE Publish(Bound)
  <2>1. ASSUME NEW i \in DOMAIN isos, IsoStep(i) PROVE UNCHANGED <<builds, channel, branch>>
    BY <2>1 DEF IsoStep, IsoBuilt, IsoUpload, IsoBoots, IsoFails, IsoPhase
  <2>2. ASSUME NEW b \in DOMAIN builds, IsoAfterBuild(b)
        PROVE  UNCHANGED <<builds, channel, branch>>
    BY <2>2 DEF IsoAfterBuild
  <2> QED
    BY <1>1, <1>2, <1>3, <1>4, <1>5, <2>1, <2>2 DEF Publish
<1>6. CASE PushBranch \/ RollbackTags \/ RollbackBranch
  BY <1>0, <1>3, <1>6 DEF PushBranch, RollbackTags, RollbackBranch, PubTypeOK, Ref
<1>7. CASE Dispatch
  BY <1>1, <1>7 DEF Dispatch, Ref
<1>8. CASE UNCHANGED vars
  BY <1>3, <1>8 DEF vars, pubvars
<1>9. CASE \/ \E force \in BOOLEAN : Promote(force)
           \/ \E sha \in Commit : Rollback(sha)
           \/ CheckBuild \/ CheckIso \/ \E g \in BOOLEAN : Decide(g)
           \/ WaitBuild \/ WaitIso \/ Verify \/ JobFails
  <2>1. UNCHANGED pubvars
    BY <1>9 DEF Promote, Rollback, CheckBuild, CheckIso, Decide, WaitBuild, WaitIso,
                Wait, Verify, JobFails
  <2> QED
    BY <1>3, <2>1 DEF pubvars
<1> QED
  BY <1>5, <1>6, <1>7, <1>8, <1>9 DEF Next, Beside, JobStep

LEMMA AlwaysOrdered == Spec => []Ordered
<1>1. Init => Ordered
  BY DEF Init, PubInit, Ordered, Sorted, Grouped, Ahead, OfMain, Ref
<1>2. Typed /\ Ordered /\ [Next]_vars => Ordered'
  BY StepOrdered
<1> QED
  BY <1>1, <1>2, AlwaysTyped, PTL DEF Spec

\* Builds of main that are dispatched at any time and wait, run, fail and push in
\* any order never move :latest to an older commit than it has.
THEOREM LatestFollowsMain == Spec => LatestNeverGoesBack
<1>1. Typed /\ Ordered /\ [Next]_vars => [channel'["main"] >= channel["main"]]_pubvars
  BY StepOrdered
<1> QED
  BY <1>1, AlwaysTyped, AlwaysOrdered, PTL DEF Spec, LatestNeverGoesBack

-----------------------------------------------------------------------------
(* What is promoted was green                                               *)

GreenBuild(sha) ==
    \E b \in DOMAIN builds :
        builds[b].ref = "main" /\ builds[b].sha = sha /\ builds[b].phase = "success"

GreenIso(i) ==
    i \in DOMAIN isos /\ isos[i].ref = "main" /\ isos[i].phase = "success"

\* What the job found before it decides is still so when it does.
Found ==
    /\ job.pc \in {"checkIso", "decide"} /\ job.green # 0 => GreenBuild(job.green)
    /\ job.pc = "decide" /\ job.iso # 0 => GreenIso(job.iso)
    /\ PromotedWasGreen

\* Once its moving tag has had its push, a build is past the tag for good.
Pushed == {"commit", "success", "failure"}

\* A run is never forgotten or given another commit; one that has succeeded is
\* never rerun or replaced.
Lasts(b) ==
    /\ b \in DOMAIN builds'
    /\ builds'[b].ref = builds[b].ref /\ builds'[b].sha = builds[b].sha
    /\ builds[b].phase = "success" => builds'[b].phase = "success"
    /\ builds[b].phase \in Pushed => builds'[b].phase \in Pushed

LEMMA BuildsLast ==
    ASSUME Typed, [Next]_vars, NEW b \in DOMAIN builds
    PROVE  Lasts(b)
<1>1. PubTypeOK /\ builds \in Seq(Build) /\ b \in 1 .. Len(builds) /\ builds[b] \in Build
  BY ElementOfSeq DEF Typed, JobTypeOK, PubTypeOK
<1>2. ASSUME NEW r \in Ref, DispatchBuild(r) PROVE Lasts(b)
  <2> DEFINE run == [ref |-> r, sha |-> branch[r], phase |-> "queued"]
  <2>1. run \in Build
    BY <1>1, <1>2 DEF PubTypeOK, DispatchBuild, Build, Image, Commit
  <2>2. builds' = Queued(run)
    BY <1>2 DEF DispatchBuild
  <2> HIDE DEF run
  <2>3. /\ builds' \in Seq(Build) /\ Len(builds') = Len(builds) + 1
        /\ builds'[b] = IF builds[b].ref = run.ref /\ builds[b].phase = "queued"
                        THEN [builds[b] EXCEPT !.phase = "cancelled"] ELSE builds[b]
    BY <1>1, <2>1, <2>2, QueuedIs
  <2>4. b \in DOMAIN builds'
    BY <1>1, <2>3
  <2>5. /\ builds'[b].ref = builds[b].ref /\ builds'[b].sha = builds[b].sha
        /\ builds[b].phase # "queued" => builds'[b].phase = builds[b].phase
    BY <1>1, <2>3 DEF Build
  <2> QED
    BY <2>4, <2>5 DEF Lasts, Pushed
<1>3. ASSUME NEW a \in DOMAIN builds, BuildStep(a) PROVE Lasts(b)
  <2>1. PICK to \in {"success", "failure"} \union Running :
          /\ Phase(a, builds[a].phase, to) /\ builds[a].phase # "success"
          /\ builds[a].phase \in Pushed => to \in Pushed
    BY <1>3 DEF BuildStep, BuildBegins, BuildFails, ImageBuilt, PushChannel, PushCommit,
                Running, Phase, Pushed
  <2>2. /\ builds' \in Seq(Build) /\ Len(builds') = Len(builds)
        /\ builds'[a] = [ref |-> builds[a].ref, sha |-> builds[a].sha, phase |-> to]
        /\ \A c \in 1 .. Len(builds) : c # a => builds'[c] = builds[c]
    BY <1>1, <2>1, PhaseIs
  <2>3. b \in DOMAIN builds'
    BY <1>1, <2>2
  <2> QED
    BY <1>1, <2>1, <2>2, <2>3 DEF Lasts
<1>4. UNCHANGED builds => Lasts(b)
  BY DEF Lasts
<1>5. CASE Publish(Bound)
  BY <1>2, <1>3, <1>4, <1>5
     DEF Publish, CommitToMain, IsoAfterBuild, IsoStep, IsoBuilt, IsoUpload, IsoBoots,
         IsoFails, IsoPhase
<1>6. CASE Dispatch
  BY <1>2, <1>6 DEF Dispatch, Ref
<1> QED
  BY <1>4, <1>5, <1>6
     DEF Next, Beside, JobStep, Promote, Rollback, CheckBuild, CheckIso, Decide, PushBranch,
         WaitBuild, WaitIso, Wait, Verify, RollbackTags, RollbackBranch, JobFails,
         vars, pubvars

LEMMA IsosLast ==
    ASSUME Typed, [Next]_vars, NEW i \in DOMAIN isos, isos[i].phase = "success"
    PROVE  i \in DOMAIN isos' /\ isos'[i] = isos[i]
<1>1. PubTypeOK /\ isos \in Seq(Iso) /\ i \in 1 .. Len(isos)
  BY DEF Typed, JobTypeOK, PubTypeOK
<1>2. ASSUME NEW r \in Ref, NEW s \in Commit, NEW p \in {"queued", "skipped"},
             isos' = NewIso(r, s, p)
      PROVE  i \in DOMAIN isos' /\ isos'[i] = isos[i]
  <2>1. isos' \in Seq(Iso) /\ Len(isos') = Len(isos) + 1 /\ isos'[i] = isos[i]
    BY <1>1, <1>2, NewIsoIs
  <2> QED
    BY <1>1, <2>1
<1>3. ASSUME NEW b \in DOMAIN builds, IsoAfterBuild(b)
      PROVE  i \in DOMAIN isos' /\ isos'[i] = isos[i]
  <2>1. builds[b] \in Build
    BY NumbersAre, <1>1
  <2>2. builds[b].ref \in Ref /\ builds[b].sha \in Commit
    BY <2>1 DEF Build
  <2> QED
    BY <1>2, <1>3, <2>2 DEF IsoAfterBuild
<1>4. CASE UNCHANGED isos
  BY <1>4
<1>5. ASSUME NEW t \in BOOLEAN, CommitToMain(t)
      PROVE  i \in DOMAIN isos' /\ isos'[i] = isos[i]
  <2>1. branch["main"] + 1 \in Commit
    BY <1>1, <1>5, BoundsAssumption DEF CommitToMain, PubTypeOK, Ref, Image, Commit
  <2> QED
    BY <1>2, <1>4, <1>5, <2>1 DEF CommitToMain, Ref
<1>6. ASSUME NEW a \in DOMAIN isos, IsoStep(a)
      PROVE  i \in DOMAIN isos' /\ isos'[i] = isos[i]
  <2>1. PICK new \in Iso : /\ isos' = [isos EXCEPT ![a] = new]
                           /\ isos[a].phase \notin {"success", "failure", "skipped"}
    BY <1>1, <1>6, IsoStepIs DEF PubTypeOK
  <2> QED
    BY <1>1, <2>1
<1>7. CASE Publish(Bound)
  <2>1. ASSUME NEW b \in DOMAIN builds, BuildStep(b) PROVE UNCHANGED isos
    BY <2>1 DEF BuildStep, BuildBegins, BuildFails, ImageBuilt, PushChannel, PushCommit,
                Phase
  <2>2. ASSUME NEW r \in Ref, DispatchBuild(r) PROVE UNCHANGED isos
    BY <2>2 DEF DispatchBuild
  <2> QED
    BY <1>3, <1>4, <1>5, <1>6, <1>7, <2>1, <2>2 DEF Publish
<1> QED
  BY <1>4, <1>7
     DEF Next, Beside, JobStep, Promote, Rollback, CheckBuild, CheckIso, Decide, PushBranch,
         Dispatch, DispatchBuild, WaitBuild, WaitIso, Wait, Verify, RollbackTags,
         RollbackBranch, JobFails, vars, pubvars

LEMMA StepFound == Typed /\ Found /\ [Next]_vars => Found'
<1> SUFFICES ASSUME Typed, Found, [Next]_vars PROVE Found'
  OBVIOUS
<1>1. ASSUME NEW sha, GreenBuild(sha) PROVE GreenBuild(sha)'
  BY <1>1, BuildsLast DEF GreenBuild, Lasts
<1>2. ASSUME NEW i, GreenIso(i) PROVE GreenIso(i)' /\ isos'[i] = isos[i]
  BY <1>2, IsosLast DEF GreenIso
<1>3. job \in Job /\ builds \in Seq(Build) /\ isos \in Seq(Iso)
  BY DEF Typed, JobTypeOK, PubTypeOK
<1>4. CASE UNCHANGED job
  <2>1. job.pc = "branch" /\ ~ job.force =>
           GreenBuild(job.sha)' /\ \E i \in DOMAIN isos' :
              isos'[i].ref = "main" /\ isos'[i].sha = job.sha /\ isos'[i].phase = "success"
    <3> SUFFICES ASSUME job.pc = "branch", ~ job.force
                 PROVE  GreenBuild(job.sha)' /\ \E i \in DOMAIN isos' :
                          /\ isos'[i].ref = "main" /\ isos'[i].sha = job.sha
                          /\ isos'[i].phase = "success"
      BY <1>4 DEF GreenBuild
    <3>1. GreenBuild(job.sha)
      BY DEF Found, PromotedWasGreen, GreenBuild
    <3>2. PICK i \in DOMAIN isos : GreenIso(i) /\ isos[i].sha = job.sha
      BY DEF Found, PromotedWasGreen, GreenIso
    <3>3. GreenIso(i)' /\ isos'[i] = isos[i]
      BY <1>2, <3>2
    <3> QED
      BY <1>1, <1>4, <3>1, <3>2, <3>3 DEF GreenIso, GreenBuild
  <2> QED
    BY <1>1, <1>2, <1>4, <2>1 DEF Found, PromotedWasGreen, GreenBuild
<1>5. CASE job'.pc \notin {"checkIso", "decide", "branch"}
  BY <1>5 DEF Found, PromotedWasGreen
<1>6. CASE CheckBuild
  <2> DEFINE n == Green(builds)
             sha == IF n = 0 THEN 0 ELSE builds[n].sha
  <2>1. n # 0 => n \in DOMAIN builds /\ builds[n].ref = "main" /\ builds[n].phase = "success"
    BY <1>3, GreenIs
  <2>2. job' = [job EXCEPT !.pc = "checkIso", !.green = sha] /\ UNCHANGED builds
    BY <1>6 DEF CheckBuild, pubvars
  <2> HIDE DEF n
  <2>3. sha # 0 => GreenBuild(sha)
    BY <2>1 DEF GreenBuild
  <2> HIDE DEF sha
  <2>4. job'.pc = "checkIso" /\ job'.green = sha
    BY <1>3, <2>2 DEF Job
  <2> QED
    BY <2>2, <2>3, <2>4 DEF Found, PromotedWasGreen, GreenBuild
<1>7. CASE CheckIso
  <2>1. /\ job.pc = "checkIso" /\ job'.pc = "decide" /\ job'.green = job.green
        /\ job'.iso = Green(isos) /\ UNCHANGED <<builds, isos>>
    BY <1>3, <1>7 DEF CheckIso, Job, pubvars
  <2>2. job'.iso # 0 => GreenIso(job'.iso)
    BY <1>3, <2>1, GreenIs DEF GreenIso
  <2> QED
    BY <2>1, <2>2 DEF Found, PromotedWasGreen, GreenBuild, GreenIso
<1>8. ASSUME NEW g \in BOOLEAN, Decide(g) PROVE Found'
  <2>1. job.pc = "decide" /\ UNCHANGED <<builds, isos>>
    BY <1>8 DEF Decide, pubvars
  <2>2. CASE Matching /\ g
    <3>1. job' = [job EXCEPT !.pc = "branch", !.sha = job.green]
      BY <1>8, <2>2 DEF Decide
    <3>2. job'.pc = "branch" /\ job'.sha = job.green
      BY <1>3, <3>1 DEF Job
    <3>3. GreenBuild(job.green) /\ GreenIso(job.iso) /\ isos[job.iso].sha = job.green
      BY <2>1, <2>2 DEF Matching, Found
    <3> QED
      BY <2>1, <3>2, <3>3 DEF Found, PromotedWasGreen, GreenBuild, GreenIso
  <2>3. CASE ~ (Matching /\ g) /\ job.force
    <3>1. job' = [job EXCEPT !.pc = "branch", !.sha = branch["main"]]
      BY <1>8, <2>3 DEF Decide
    <3>2. job'.pc = "branch" /\ job'.force
      BY <1>3, <2>3, <3>1 DEF Job
    <3> QED
      BY <3>2 DEF Found, PromotedWasGreen
  <2>4. CASE ~ (Matching /\ g) /\ ~ job.force
    <3>1. job'.pc = "idle"
      BY <1>8, <2>4 DEF Decide, NoJob
    <3> QED
      BY <3>1 DEF Found, PromotedWasGreen
  <2> QED
    BY <2>2, <2>3, <2>4
<1>9. ASSUME NEW pc \in Waiting, NEW next \in {"waitIso", "verify"}, Waited(pc, next)
      PROVE  job'.pc \notin {"checkIso", "decide", "branch"}
  <2>1. CASE job' = [job EXCEPT !.pc = next, !.polls = 0]
    BY <1>3, <2>1 DEF Job
  <2>2. CASE job.pc = pc /\ job' = [job EXCEPT !.polls = @ + 1]
    BY <1>3, <2>2 DEF Job, Waiting
  <2>3. CASE job' = NoJob("idle")
    BY <2>3 DEF NoJob
  <2> QED
    BY <1>9, <2>1, <2>2, <2>3 DEF Waited
<1>10. CASE WaitBuild \/ WaitIso
  <2>1. CASE WaitBuild
    <3>1. Waited("waitBuild", "waitIso")
      BY <2>1, WaitIs DEF WaitBuild
    <3> QED
      BY <1>5, <1>9, <3>1 DEF Waiting
  <2>2. CASE WaitIso
    <3>1. Waited("waitIso", "verify")
      BY <2>2, WaitIs DEF WaitIso
    <3> QED
      BY <1>5, <1>9, <3>1 DEF Waiting
  <2> QED
    BY <1>10, <2>1, <2>2
<1>11. CASE \/ \E force \in BOOLEAN : Promote(force)
            \/ \E sha \in Commit : Rollback(sha)
            \/ PushBranch \/ Dispatch \/ Verify \/ RollbackTags \/ RollbackBranch
            \/ JobFails
  <2>1. CASE PushBranch \/ Dispatch \/ RollbackTags
    <3>1. \E pc \in {"dispatch", "waitBuild", "rollback"} : job'.pc = pc
      BY <1>3, <2>1 DEF PushBranch, Dispatch, RollbackTags, Job
    <3> QED
      BY <1>5, <3>1
  <2>2. CASE Verify \/ RollbackBranch \/ JobFails
    BY <1>5, <2>2 DEF Verify, RollbackBranch, JobFails, NoJob
  <2>3. CASE \/ \E force \in BOOLEAN : Promote(force)
             \/ \E sha \in Commit : Rollback(sha)
    <3>1. \E pc \in {"checkBuild", "tags"} : job'.pc = pc
      BY <2>3 DEF Promote, Rollback, NoJob
    <3> QED
      BY <1>5, <3>1
  <2> QED
    BY <1>11, <2>1, <2>2, <2>3
<1> QED
  BY <1>4, <1>6, <1>7, <1>8, <1>10, <1>11 DEF Next, Beside, JobStep, vars

\* Whatever is built, published or pushed while a promotion looks, the commit
\* that it moves stable to, unforced, has a green image build and a green ISO
\* build on main.
THEOREM PromotedCommitIsGreen == Spec => []PromotedWasGreen
<1>1. Init => Found
  BY DEF Init, NoJob, Found, PromotedWasGreen
<1>2. Found => PromotedWasGreen
  BY DEF Found
<1> QED
  BY <1>1, <1>2, AlwaysTyped, StepFound, PTL DEF Spec

-----------------------------------------------------------------------------
(* After a rollback                                                         *)

\* The image of :stable is of a build of stable that has pushed since the tag moved.
Undone ==
    \E b \in DOMAIN builds :
        b \in undo.pushed /\ builds[b].ref = "stable" /\ builds[b].sha = channel["stable"]

RolledBack == {"rollback", "rolledBack"}

\* What holds :stable from the first push of a rollback to the next job.  A build
\* that was started since it ended is of the commit that the branch points to.
HeldBack ==
    /\ job.pc = "rollback" => channel["stable"] = job.sha \/ Undone
    /\ job.pc = "rolledBack" =>
          /\ channel["stable"] = branch["stable"] \/ Undone
          /\ \A b \in DOMAIN builds :
                builds[b].ref = "stable" /\ b > undo.builds => builds[b].sha = branch["stable"]

\* Beside a rollback, :stable moves when a build of stable pushes it.
LEMMA StableMoves ==
    ASSUME Typed, UndoOK, Beside, job.pc \in RolledBack
    PROVE  channel'["stable"] = channel["stable"] \/ Undone'
<1> DEFINE Moves == channel'["stable"] = channel["stable"] \/ Undone'
<1>1. PubTypeOK /\ builds \in Seq(Build) /\ channel \in [Ref -> Image]
  BY DEF Typed, JobTypeOK, PubTypeOK
<1>2. CASE UNCHANGED channel
  BY <1>2
<1>3. ASSUME NEW b \in DOMAIN builds, PushChannel(b) PROVE Moves
  <2>1. Phase(b, "channel", "commit")
    BY <1>3 DEF PushChannel
  <2>2. builds' \in Seq(Build) /\ Len(builds') = Len(builds)
        /\ builds'[b] = [ref |-> builds[b].ref, sha |-> builds[b].sha, phase |-> "commit"]
    BY <1>1, <2>1, PhaseIs DEF Running
  <2>3. b \in DOMAIN builds'
    BY <1>1, <2>2
  <2>4. CASE channel' = [channel EXCEPT ![builds[b].ref] = builds[b].sha]
    <3>1. CASE builds[b].ref = "stable"
      <4>1. channel'["stable"] = builds[b].sha
        BY <1>1, <2>4, <3>1 DEF Ref
      <4>2. b \in PushesStable
        BY <2>1, <2>2, <3>1, <4>1 DEF PushesStable, Phase
      <4>3. b \in undo'.pushed
        BY <4>2 DEF Beside, UndoOK, RolledBack
      <4> QED
        BY <2>2, <2>3, <3>1, <4>1, <4>3 DEF Undone
    <3>2. CASE builds[b].ref # "stable"
      BY <1>1, <2>4, <3>2 DEF Ref
    <3> QED
      BY <3>1, <3>2
  <2> QED
    BY <1>2, <1>3, <2>4 DEF PushChannel
<1> QED
  BY <1>2, <1>3
     DEF Beside, Publish, CommitToMain, DispatchBuild, IsoAfterBuild, IsoStep, IsoBuilt,
         IsoUpload, IsoBoots, IsoFails, IsoPhase, BuildStep, BuildBegins, BuildFails,
         ImageBuilt, PushCommit

\* A new build is of the commit that its branch points to.
LEMMA NewBuild ==
    ASSUME Typed, Beside, NEW b \in DOMAIN builds', b \notin DOMAIN builds,
           builds'[b].ref = "stable"
    PROVE  builds'[b].sha = branch["stable"]
<1>1. PubTypeOK /\ builds \in Seq(Build)
  BY DEF Typed, JobTypeOK, PubTypeOK
<1>2. ASSUME NEW r \in Ref, DispatchBuild(r) PROVE builds'[b].sha = branch["stable"]
  <2> DEFINE run == [ref |-> r, sha |-> branch[r], phase |-> "queued"]
  <2>1. run \in Build
    BY <1>1, <1>2 DEF PubTypeOK, DispatchBuild, Build, Image, Commit
  <2>2. builds' = Queued(run) /\ run.ref = r /\ run.sha = branch[r]
    BY <1>2 DEF DispatchBuild
  <2> HIDE DEF run
  <2>3. /\ builds' \in Seq(Build) /\ Len(builds') = Len(builds) + 1
        /\ builds'[Len(builds) + 1] = run
    BY <1>1, <2>1, <2>2, QueuedIs
  <2>4. b = Len(builds) + 1
    BY <1>1, <2>3
  <2> QED
    BY <2>2, <2>3, <2>4
<1>3. ASSUME NEW a \in DOMAIN builds, BuildStep(a) PROVE DOMAIN builds' = DOMAIN builds
  <2>1. PICK to \in {"success", "failure"} \union Running : Phase(a, builds[a].phase, to)
    BY <1>3 DEF BuildStep, BuildBegins, BuildFails, ImageBuilt, PushChannel, PushCommit,
                Running, Phase
  <2>2. builds' \in Seq(Build) /\ Len(builds') = Len(builds)
    BY <1>1, <2>1, PhaseIs
  <2> QED
    BY <1>1, <2>2
<1>4. builds' # builds
  OBVIOUS
<1> QED
  BY <1>2, <1>3, <1>4
     DEF Beside, Publish, CommitToMain, IsoAfterBuild, IsoStep, IsoBuilt, IsoUpload, IsoBoots,
         IsoFails, IsoPhase

\* Only the jobs move the branch.
LEMMA StableBranch ==
    ASSUME Typed, [Next]_vars, branch'["stable"] # branch["stable"]
    PROVE  PushBranch \/ RollbackBranch
<1>1. PubTypeOK
  BY DEF Typed, JobTypeOK
<1>2. ASSUME NEW t \in BOOLEAN PROVE ~ CommitToMain(t)
  BY <1>1 DEF CommitToMain, PubTypeOK, Ref
<1>3. ~ UNCHANGED branch
  OBVIOUS
<1>4. ~ Publish(Bound)
  BY <1>2, <1>3
     DEF Publish, DispatchBuild, IsoAfterBuild, IsoStep, IsoBuilt, IsoUpload, IsoBoots,
         IsoFails, IsoPhase, BuildStep, BuildBegins, BuildFails, ImageBuilt, PushChannel,
         PushCommit, Phase
<1> QED
  BY <1>3, <1>4
     DEF Next, Beside, JobStep, Promote, Rollback, CheckBuild, CheckIso, Decide,
         Dispatch, DispatchBuild, WaitBuild, WaitIso, Wait, Verify, RollbackTags,
         JobFails, vars, pubvars

LEMMA StepHeldBack == Typed /\ UndoOK /\ HeldBack /\ [Next]_vars => HeldBack'
<1> SUFFICES ASSUME Typed, UndoOK, HeldBack, [Next]_vars PROVE HeldBack'
  OBVIOUS
<1>1. job \in Job /\ PubTypeOK
  BY DEF Typed, JobTypeOK
<1>2. /\ Undone /\ channel'["stable"] = channel["stable"] /\ undo.pushed \subseteq undo'.pushed
           => Undone'
      /\ builds \in Seq(Build)
  BY <1>1, BuildsLast DEF Undone, Lasts, PubTypeOK
<1>3. CASE RollbackTags
  <2>1. job'.pc = "rollback" /\ job'.sha = job.sha /\ channel'["stable"] = job.sha
    BY <1>1, <1>3 DEF RollbackTags, PubTypeOK, Ref, Job
  <2> QED
    BY <2>1 DEF HeldBack
<1>4. CASE RollbackBranch
  <2>1. /\ job.pc = "rollback" /\ job'.pc = "rolledBack" /\ branch'["stable"] = job.sha
        /\ channel'["stable"] = channel["stable"] /\ builds' = builds
        /\ undo'.pushed = undo.pushed /\ undo'.builds = Len(builds)
    BY <1>1, <1>4 DEF RollbackBranch, NoJob, PubTypeOK, Ref, UndoOK
  <2>2. \A b \in DOMAIN builds' : ~ (b > undo'.builds)
    BY <1>2, <2>1
  <2> QED
    BY <1>2, <2>1, <2>2 DEF HeldBack
<1>5. CASE Beside \/ UNCHANGED vars
  <2> SUFFICES ASSUME job.pc \in RolledBack PROVE HeldBack'
    BY <1>5 DEF Beside, vars, HeldBack, RolledBack
  <2>1. /\ UNCHANGED job
        /\ undo.pushed \subseteq undo'.pushed /\ undo'.builds = undo.builds
    BY <1>5 DEF Beside, vars, UndoOK
  <2>2. branch'["stable"] = branch["stable"]
    <3>1. ~ PushBranch
      BY <1>1, <2>1 DEF PushBranch, Job
    <3>2. ~ RollbackBranch
      BY <2>1 DEF RollbackBranch, NoJob
    <3> QED
      BY <3>1, <3>2, StableBranch
  <2>3. channel'["stable"] = channel["stable"] \/ Undone'
    BY <1>5, StableMoves DEF vars, pubvars
  <2>4. ASSUME job.pc = "rolledBack", NEW b \in DOMAIN builds', builds'[b].ref = "stable",
               b > undo'.builds
        PROVE  builds'[b].sha = branch'["stable"]
    <3>1. CASE b \in DOMAIN builds
      BY <2>1, <2>2, <2>4, <3>1, BuildsLast DEF HeldBack, Lasts
    <3>2. CASE b \notin DOMAIN builds
      BY <1>5, <2>2, <2>4, <3>2, NewBuild DEF vars, pubvars
    <3> QED
      BY <3>1, <3>2
  <2> QED
    BY <1>2, <2>1, <2>2, <2>3, <2>4 DEF HeldBack
\* Nothing else leads to a rollback that has begun.
<1>6. CASE job'.pc \notin RolledBack
  BY <1>6 DEF HeldBack, RolledBack
<1>7. ASSUME NEW pc, NEW next \in {"waitIso", "verify"}, Waited(pc, next),
             pc \in Waiting
      PROVE  job'.pc \notin RolledBack
  <2>1. CASE job' = [job EXCEPT !.pc = next, !.polls = 0]
    BY <1>1, <2>1 DEF Job, RolledBack
  <2>2. CASE job.pc = pc /\ job' = [job EXCEPT !.polls = @ + 1]
    BY <1>1, <1>7, <2>2 DEF Job, Waiting, RolledBack
  <2>3. CASE job' = NoJob("idle")
    BY <2>3 DEF NoJob, RolledBack
  <2> QED
    BY <1>7, <2>1, <2>2, <2>3 DEF Waited
<1>8. CASE WaitBuild \/ WaitIso
  BY <1>6, <1>7, <1>8, WaitIs DEF WaitBuild, WaitIso, Waiting
<1>9. CASE \/ \E force \in BOOLEAN : Promote(force)
           \/ \E sha \in Commit : Rollback(sha)
           \/ Verify \/ JobFails
  BY <1>6, <1>9 DEF Promote, Rollback, Verify, JobFails, NoJob, RolledBack
<1>10. CASE CheckBuild \/ CheckIso \/ PushBranch \/ Dispatch
  BY <1>1, <1>6, <1>10 DEF CheckBuild, CheckIso, PushBranch, Dispatch, Job, RolledBack
<1>11. ASSUME NEW g \in BOOLEAN, Decide(g) PROVE HeldBack'
  BY <1>1, <1>6, <1>11 DEF Decide, Job, NoJob, RolledBack
<1> QED
  BY <1>3, <1>4, <1>5, <1>8, <1>9, <1>10, <1>11 DEF Next, Beside, JobStep, vars

\* After a rollback, whatever was under way or is started, :stable and the
\* stable branch only part by a build of stable that was there when the branch
\* was moved and has pushed since the tag was.
THEOREM RollbackHoldsButForBuilds == Spec => []OnlyBuildsUndoRollback
<1>1. Init => HeldBack
  BY DEF Init, NoJob, HeldBack
<1>2. UndoOK /\ Typed /\ HeldBack => OnlyBuildsUndoRollback
  <2> SUFFICES ASSUME UndoOK, Typed, HeldBack, job.pc = "rolledBack",
                      channel["stable"] # branch["stable"]
               PROVE  \E b \in undo.pushed :
                        /\ b <= undo.builds
                        /\ builds[b].ref = "stable" /\ builds[b].sha = channel["stable"]
    BY DEF OnlyBuildsUndoRollback
  <2>1. PICK b \in DOMAIN builds :
          b \in undo.pushed /\ builds[b].ref = "stable" /\ builds[b].sha = channel["stable"]
    BY DEF HeldBack, Undone
  <2>2. ~ (b > undo.builds)
    BY <2>1 DEF HeldBack
  <2>3. undo.builds \in 0 .. MaxBuilds /\ b \in 1 .. MaxBuilds
    BY <2>1 DEF UndoOK
  <2> QED
    BY <2>1, <2>2, <2>3, BoundsAssumption
<1> QED
  BY <1>1, <1>2, AlwaysTyped, AlwaysUndo, StepHeldBack, PTL DEF Spec
=============================================================================
