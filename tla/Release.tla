------------------------------ MODULE Release -------------------------------
(***************************************************************************)
(* promote-stable.yml and rollback-stable.yml, which move the stable       *)
(* branch and the :stable image, beside the builds that Publishing models. *)
(* The two workflows share a concurrency group, so one job is enough.      *)
(***************************************************************************)
EXTENDS Publishing

CONSTANT MaxPolls    \* 720 in wait_for_run: a bound

ASSUME MaxPollsAssumption == MaxPolls \in Nat

VARIABLES
    job,  \* the run of either workflow, or how the last one ended: "idle"
          \* when none has run or a step of it failed
    undo  \* history of a rollback: the builds of stable that have pushed since
          \* it moved the tag, and how many builds there were when it moved the
          \* branch

vars == <<pubvars, job, undo>>

Waiting == {"waitBuild", "waitIso"}
Promoting == {"checkBuild", "checkIso", "decide", "branch", "dispatch", "verify"}
               \union Waiting
RollingBack == {"tags", "rollback"}
Ended == {"idle", "unverified", "ready", "rolledBack"}

\* green: what check() found for the image build; iso: the index of the
\* ISO run it found green, or 0; sha: the commit that is made stable.
Job == [pc : Promoting \union RollingBack \union Ended, force : BOOLEAN,
        green : Image, iso : 0 .. MaxIsos, sha : Image, polls : 0 .. MaxPolls]

NoUndo == [pushed |-> {}, builds |-> 0]

TypeOK ==
    /\ PubTypeOK
    /\ job \in Job
    /\ undo \in [pushed : SUBSET (1 .. MaxBuilds), builds : 0 .. MaxBuilds]

NoJob(pc) == [pc |-> pc, force |-> FALSE, green |-> 0, iso |-> 0, sha |-> 0, polls |-> 0]

Init ==
    /\ PubInit
    /\ job = NoJob("idle") /\ undo = NoUndo

\* `gh run list ... --jq .[0]': the newest of the runs that fit, or 0.
Newest(found) ==
    IF found = {} THEN 0 ELSE CHOOSE n \in found : \A m \in found : m <= n

\* The runs on stable for the promoted commit.
StableRuns(runs) == {n \in DOMAIN runs : runs[n].ref = "stable" /\ runs[n].sha = job.sha}

\* What check() finds: the newest run on main, if it succeeded.
Green(runs) ==
    LET n == Newest({m \in DOMAIN runs : runs[m].ref = "main"})
    IN IF n # 0 /\ runs[n].phase = "success" THEN n ELSE 0

-----------------------------------------------------------------------------
(* promote-stable.yml                                                       *)

Promote(force) ==
    /\ job.pc \in Ended
    /\ Len(builds) < MaxBuilds
    /\ job' = [NoJob("checkBuild") EXCEPT !.force = force]
    /\ undo' = NoUndo
    /\ UNCHANGED pubvars

CheckBuild ==
    /\ job.pc = "checkBuild"
    /\ LET n == Green(builds)
       IN job' = [job EXCEPT !.pc = "checkIso",
                             !.green = IF n = 0 THEN 0 ELSE builds[n].sha]
    /\ UNCHANGED <<pubvars, undo>>

CheckIso ==
    /\ job.pc = "checkIso"
    /\ job' = [job EXCEPT !.pc = "decide", !.iso = Green(isos)]
    /\ UNCHANGED <<pubvars, undo>>

\* Mutant of Matching: the SHA comparison is missing.
MatchingAny == job.green # 0 /\ job.iso # 0

\* Both are green, and for the same commit.
Matching == job.green # 0 /\ job.iso # 0 /\ isos[job.iso].sha = job.green

\* The install tests, which are checked last, are green or not.
Decide(installsGreen) ==
    /\ job.pc = "decide"
    /\ job' = IF Matching /\ installsGreen
              THEN [job EXCEPT !.pc = "branch", !.sha = job.green]
              ELSE IF job.force THEN [job EXCEPT !.pc = "branch", !.sha = branch["main"]]
              ELSE NoJob("idle")
    /\ UNCHANGED <<pubvars, undo>>

PushBranch ==
    /\ job.pc = "branch"
    /\ branch' = [branch EXCEPT !["stable"] = job.sha]
    /\ job' = [job EXCEPT !.pc = "dispatch", !.force = FALSE,
                             !.green = 0, !.iso = 0]
    /\ UNCHANGED <<channel, commitTag, builds, isos, announced, onR2, undo>>

Dispatch ==
    /\ job.pc = "dispatch"
    /\ DispatchBuild("stable")
    /\ job' = [job EXCEPT !.pc = "waitBuild"]
    /\ UNCHANGED undo

\* Mutant of Wait: looks that find no run, or one in progress, are not counted.
WaitForever(pc, runs, next) ==
    LET n == Newest(StableRuns(runs))
        phase == IF n = 0 THEN "missing" ELSE runs[n].phase
    IN /\ job.pc = pc
       /\ job' = CASE phase = "success" -> [job EXCEPT !.pc = next]
                   [] phase \in {"failure", "cancelled", "skipped"} -> NoJob("idle")
                   [] OTHER -> job
       /\ UNCHANGED <<pubvars, undo>>

\* One look of wait_for_run, at the newest run for this commit on stable.
Wait(pc, runs, next) ==
    LET n == Newest(StableRuns(runs))
        phase == IF n = 0 THEN "missing" ELSE runs[n].phase
    IN /\ job.pc = pc
       /\ job' = CASE phase = "success" -> [job EXCEPT !.pc = next, !.polls = 0]
                   [] phase \in {"failure", "cancelled", "skipped"} -> NoJob("idle")
                   [] OTHER -> IF job.polls < MaxPolls
                               THEN [job EXCEPT !.polls = @ + 1]
                               ELSE NoJob("idle")
       /\ UNCHANGED <<pubvars, undo>>

WaitBuild == Wait("waitBuild", builds, "waitIso")
WaitIso == Wait("waitIso", isos, "verify")

Published == channel["stable"] # 0 /\ job.sha \in commitTag /\ onR2["stable"].iso # 0

\* The tags, the two names on R2, and the ISO against its checksum.
Verify ==
    /\ job.pc = "verify"
    /\ job' = NoJob(IF Published /\ onR2["stable"].checksum = onR2["stable"].iso
                    THEN "ready" ELSE "unverified")
    /\ UNCHANGED <<pubvars, undo>>

-----------------------------------------------------------------------------
(* rollback-stable.yml, not a dry run                                       *)

Rollback(sha) ==
    /\ job.pc \in Ended
    /\ sha \in commitTag
    /\ job' = [NoJob("tags") EXCEPT !.sha = sha]
    /\ undo' = NoUndo
    /\ UNCHANGED pubvars

RollbackTags ==
    /\ job.pc = "tags"
    /\ channel' = [channel EXCEPT !["stable"] = job.sha]
    /\ job' = [job EXCEPT !.pc = "rollback"]
    /\ UNCHANGED <<branch, commitTag, builds, isos, announced, onR2, undo>>

\* Mutant of RollbackBranch: HEAD is pushed, which is what was checked out.
RollbackBranchHead ==
    /\ job.pc = "rollback"
    /\ branch' = [branch EXCEPT !["stable"] = branch["main"]]
    /\ job' = NoJob("rolledBack")
    /\ undo' = [undo EXCEPT !.builds = Len(builds)]
    /\ UNCHANGED <<channel, commitTag, builds, isos, announced, onR2>>

RollbackBranch ==
    /\ job.pc = "rollback"
    /\ branch' = [branch EXCEPT !["stable"] = job.sha]
    /\ job' = NoJob("rolledBack")
    /\ undo' = [undo EXCEPT !.builds = Len(builds)]
    /\ UNCHANGED <<channel, commitTag, builds, isos, announced, onR2>>

\* Any of the commands on the network.
JobFails ==
    /\ job.pc \in Promoting \union RollingBack
    /\ job' = NoJob("idle")
    /\ undo' = NoUndo
    /\ UNCHANGED pubvars

-----------------------------------------------------------------------------
JobStep ==
    \/ CheckBuild \/ CheckIso \/ \E installsGreen \in BOOLEAN : Decide(installsGreen)
    \/ PushBranch \/ Dispatch \/ WaitBuild \/ WaitIso \/ Verify
    \/ RollbackTags \/ RollbackBranch

\* The bound on builds leaves the one that a promotion will dispatch.
Bound ==
    IF job.pc \in Promoting \ (Waiting \union {"verify"}) THEN MaxBuilds - 1 ELSE MaxBuilds

\* The builds of stable that push in a step.
PushesStable ==
    {b \in DOMAIN builds :
        /\ builds[b].ref = "stable" /\ builds[b].sha = channel'["stable"]
        /\ builds[b].phase = "channel" /\ builds'[b].phase = "commit"}

Beside ==
    /\ Publish(Bound)
    /\ undo' = IF job.pc \in {"rollback", "rolledBack"}
               THEN [undo EXCEPT !.pushed = @ \union PushesStable] ELSE undo
    /\ UNCHANGED job

Next ==
    \/ Beside
    \/ \E force \in BOOLEAN : Promote(force)
    \/ \E sha \in Commit : Rollback(sha)
    \/ JobStep \/ JobFails

\* The runner goes on with the job it has; nobody has to push, build or promote.
Spec == Init /\ [][Next]_vars /\ WF_vars(JobStep)

-----------------------------------------------------------------------------
\* A promotion that nobody forced goes for a commit of which an image build
\* and an ISO build on main succeeded, whatever ran while it looked.
PromotedWasGreen ==
    job.pc = "branch" /\ ~job.force =>
        /\ \E b \in DOMAIN builds :
              builds[b].ref = "main" /\ builds[b].sha = job.sha /\ builds[b].phase = "success"
        /\ \E i \in DOMAIN isos :
              isos[i].ref = "main" /\ isos[i].sha = job.sha /\ isos[i].phase = "success"

\* Every promotion and every rollback ends.
JobEnds == job.pc \notin Ended ~> job.pc \in Ended

\* After a rollback the tag and the branch part (rollback-stable.yml:9-10 says
\* that they do not) only by a build of stable that was there before the branch
\* was moved and has pushed after the tag was: no other job, build of main or
\* step of the rollback itself, and no build of stable that was started since.
OnlyBuildsUndoRollback ==
    job.pc = "rolledBack" /\ channel["stable"] # branch["stable"] =>
        \E b \in undo.pushed :
            /\ b <= undo.builds
            /\ builds[b].ref = "stable" /\ builds[b].sha = channel["stable"]

\* Violated.  "A stale successful ISO must never satisfy this release gate":
\* the ISO run that a promotion went by does not carry an older image.
GateIsoIsFresh ==
    job.pc = "branch" /\ ~job.force => isos[job.iso].payload >= job.sha

\* Violated.  "The branch and the tag never diverge": after a rollback, until
\* another promotion or rollback, :stable is the commit the branch points to.
RollbackSticks == job.pc = "rolledBack" => channel["stable"] = branch["stable"]
=============================================================================
