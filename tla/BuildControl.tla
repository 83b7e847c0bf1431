---------------------------- MODULE BuildControl ----------------------------
(***************************************************************************)
(* The process control of tools/bst-dashboard.py: start_build and          *)
(* stop_build called by HTTP handler threads, the sampler thread that      *)
(* records whether a BuildStream container runs, and the threads that run  *)
(* "bst show" for the dependency tree.                                     *)
(*                                                                         *)
(* External: podman.  A client (Popen) outlives its container by a moment, *)
(* a container shows up in "podman ps" a while after its client starts,    *)
(* and builds are also started outside the dashboard.  All of them use the *)
(* same image, which is what _bst_container_id filters on.                 *)
(***************************************************************************)
EXTENDS Integers, FiniteSets

CONSTANTS
    Req,       \* handler threads that serve /api/start and /api/stop
    Fetcher,   \* threads that may run _fetch_deptree
    Nobody,    \* BUILD_LOCK is free
    MaxBuilds  \* builds the dashboard starts (model checking only)

ASSUME NobodyAssumption == Nobody \notin Req
ASSUME MaxBuildsAssumption == MaxBuilds \in Nat

Build == 1 .. MaxBuilds

VARIABLES
    buildLock,
    pc,         \* of each handler thread
    cids,       \* stop_build's container ids
    buildProc,  \* BUILD_PROC: the build started last, 0 for None
    stage,      \* of each build: its podman client and container
    external,   \* a build started elsewhere is running
    bstRunning, \* _sysinfo["bst_running"]
    sampled,    \* the sampler's cid, between the look and the record
    deptree,    \* _deptree["status"]
    fetch,      \* of each fetch thread
    showing     \* fetch threads whose "bst show" container exists

handlers == <<buildLock, pc, cids>>
builds   == <<buildProc, stage, external>>
sampler  == <<bstRunning, sampled>>
tree     == <<deptree, fetch, showing>>
vars     == <<handlers, builds, sampler, tree>>

\* BUILD_PROC.poll() is None as long as the client has not exited.
Alive == {b \in Build : stage[b] \in {"launched", "up", "down"}}

Container == ({"build"} \X Build) \union ({"show"} \X Fetcher) \union {<<"external", 0>>}

\* What "podman ps" shows.
Containers ==
    {<<"build", b>> : b \in {c \in Build : stage[c] = "up"}}
    \union {<<"show", f>> : f \in showing}
    \union (IF external THEN {<<"external", 0>>} ELSE {})

TypeOK ==
    /\ buildLock \in Req \union {Nobody}
    /\ pc \in [Req -> {"idle", "poll", "flag", "truncate", "popen",
                       "terminate", "ps", "podmanstop"}]
    /\ cids \in [Req -> SUBSET Container]
    /\ buildProc \in {0} \union Build
    /\ stage \in [Build -> {"none", "launched", "up", "down", "exited"}]
    /\ external \in BOOLEAN
    /\ bstRunning \in BOOLEAN
    /\ sampled \in {"none", "some", "empty"}
    /\ deptree \in {"idle", "loading", "ready", "error"}
    /\ fetch \in [Fetcher -> {"idle", "called", "running"}]
    /\ showing \subseteq Fetcher

Init ==
    /\ buildLock = Nobody
    /\ pc = [r \in Req |-> "idle"]
    /\ cids = [r \in Req |-> {}]
    /\ buildProc = 0
    /\ stage = [b \in Build |-> "none"]
    /\ external \in BOOLEAN
    /\ bstRunning = FALSE
    /\ sampled = "none"
    /\ deptree = "idle"
    /\ fetch = [f \in Fetcher |-> "idle"]
    /\ showing = {}

Goto(r, from, to) == pc[r] = from /\ pc' = [pc EXCEPT ![r] = to]

-----------------------------------------------------------------------------
(* POST /api/start                                                          *)

\* Mutant of StartLock: the check and the launch are not one critical section.
StartNoLock(r) ==
    /\ Goto(r, "idle", "poll")
    /\ UNCHANGED <<buildLock, cids, builds, sampler, tree>>

\* A request that waits for the lock is as good as one not yet made.
StartLock(r) ==
    /\ buildLock = Nobody
    /\ buildLock' = r
    /\ Goto(r, "idle", "poll")
    /\ UNCHANGED <<cids, builds, sampler, tree>>

Release(r) == buildLock' = IF buildLock = r THEN Nobody ELSE buildLock

\* Mutant of StartPoll: only the sampled flag is consulted.
StartNoPoll(r) ==
    /\ Goto(r, "poll", "flag")
    /\ UNCHANGED <<buildLock, cids, builds, sampler, tree>>

\* build_running, first half: is the client of the last build alive?
StartPoll(r) ==
    /\ IF buildProc \in Alive
         THEN Goto(r, "poll", "idle") /\ Release(r)
         ELSE Goto(r, "poll", "flag") /\ UNCHANGED buildLock
    /\ UNCHANGED <<cids, builds, sampler, tree>>

\* build_running, second half: what did the sampler see?
StartFlag(r) ==
    /\ IF bstRunning
         THEN Goto(r, "flag", "idle") /\ Release(r)
         ELSE Goto(r, "flag", "truncate") /\ UNCHANGED buildLock
    /\ UNCHANGED <<cids, builds, sampler, tree>>

\* LOG_FILE is opened with "w" and gets its header.
StartTruncate(r) ==
    /\ Goto(r, "truncate", "popen")
    /\ UNCHANGED <<buildLock, cids, builds, sampler, tree>>

StartPopen(r) ==
    /\ buildProc < MaxBuilds
    /\ buildProc' = buildProc + 1
    /\ stage' = [stage EXCEPT ![buildProc + 1] = "launched"]
    /\ Goto(r, "popen", "idle") /\ Release(r)
    /\ UNCHANGED <<external, cids, sampler, tree>>

\* podman cannot be run: the exception leaves the critical section.
StartPopenFails(r) ==
    /\ Goto(r, "popen", "idle") /\ Release(r)
    /\ UNCHANGED <<cids, builds, sampler, tree>>

-----------------------------------------------------------------------------
(* POST /api/stop                                                           *)

StopLock(r) ==
    /\ buildLock = Nobody
    /\ buildLock' = r
    /\ Goto(r, "idle", "terminate")
    /\ UNCHANGED <<cids, builds, sampler, tree>>

\* A live client is sent SIGTERM, which it forwards to its container; when
\* the two end is up to them (BuildStep).
StopTerminate(r) ==
    /\ Goto(r, "terminate", "ps")
    /\ UNCHANGED <<buildLock, cids, builds, sampler, tree>>

\* Mutant of StopPs: an early return forgets the lock.
StopPsKeepsLock(r) ==
    /\ \E seen \in {Containers, {}} :
         /\ cids' = [cids EXCEPT ![r] = seen]
         /\ Goto(r, "ps", IF seen = {} THEN "idle" ELSE "podmanstop")
    /\ UNCHANGED <<buildLock, builds, sampler, tree>>

\* "podman ps" prints one id per line; an error or its timeout gives "".
StopPs(r) ==
    /\ \E seen \in {Containers, {}} :
         /\ cids' = [cids EXCEPT ![r] = seen]
         /\ IF seen = {}
              THEN Goto(r, "ps", "idle") /\ Release(r)
              ELSE Goto(r, "ps", "podmanstop") /\ UNCHANGED buildLock
    /\ UNCHANGED <<builds, sampler, tree>>

\* "podman stop" with all of that output as one argument.  It names a
\* container only if there was just one line; an unknown name is an exit
\* status nobody looks at.
StopPodman(r) ==
    /\ Goto(r, "podmanstop", "idle") /\ Release(r)
    /\ IF Cardinality(cids[r]) = 1
         THEN /\ stage' = [b \in Build |->
                             IF /\ <<"build", b>> \in cids[r]
                                /\ stage[b] = "up"
                               THEN "down" ELSE stage[b]]
              /\ showing' = {f \in showing : <<"show", f>> \notin cids[r]}
              /\ external' = (external /\ <<"external", 0>> \notin cids[r])
         ELSE UNCHANGED <<stage, showing, external>>
    /\ cids' = [cids EXCEPT ![r] = {}]
    /\ UNCHANGED <<buildProc, sampler, deptree, fetch>>

\* The ten seconds given to "podman stop" run out.
StopPodmanTimeout(r) ==
    /\ Goto(r, "podmanstop", "idle") /\ Release(r)
    /\ cids' = [cids EXCEPT ![r] = {}]
    /\ UNCHANGED <<builds, sampler, tree>>

StartSteps(r) ==
    \/ StartPoll(r) \/ StartFlag(r) \/ StartTruncate(r)
    \/ StartPopen(r) \/ StartPopenFails(r)
StopSteps(r) ==
    \/ StopTerminate(r) \/ StopPs(r) \/ StopPodman(r)
    \/ StopPodmanTimeout(r)

-----------------------------------------------------------------------------
(* podman and builds started elsewhere (external)                           *)

BuildStep(b) ==
    /\ \/ stage[b] = "launched"
          /\ \E s \in {"up", "exited"} : stage' = [stage EXCEPT ![b] = s]
       \/ stage[b] = "up" /\ stage' = [stage EXCEPT ![b] = "down"]
       \/ stage[b] = "down" /\ stage' = [stage EXCEPT ![b] = "exited"]
    /\ UNCHANGED <<buildProc, external, handlers, sampler, tree>>

ExternalBuild ==
    /\ external' = ~ external
    /\ UNCHANGED <<buildProc, stage, handlers, sampler, tree>>

-----------------------------------------------------------------------------
(* _sysinfo_sampler                                                         *)

\* "podman ps", which may fail.
Look ==
    /\ sampled = "none"
    /\ sampled' \in IF Containers = {} THEN {"empty"} ELSE {"some", "empty"}
    /\ UNCHANGED <<bstRunning, handlers, builds, tree>>

\* Mutant of Record: the flag is only raised.
RecordOnlyRaises ==
    /\ sampled # "none"
    /\ bstRunning' = (bstRunning \/ sampled = "some")
    /\ sampled' = "none"
    /\ UNCHANGED <<handlers, builds, tree>>

Record ==
    /\ sampled # "none"
    /\ bstRunning' = (sampled = "some")
    /\ sampled' = "none"
    /\ UNCHANGED <<handlers, builds, tree>>

-----------------------------------------------------------------------------
(* The dependency tree                                                      *)

\* GET /api/deptree while idle, or POST /api/deptree/refresh at any time,
\* starts a thread.
Spawn(f) ==
    /\ fetch[f] = "idle" /\ f \notin showing
    /\ fetch' = [fetch EXCEPT ![f] = "called"]
    /\ UNCHANGED <<deptree, showing, handlers, builds, sampler>>

FetchEnter(f) ==
    /\ fetch[f] = "called"
    /\ IF deptree = "loading"
         THEN fetch' = [fetch EXCEPT ![f] = "idle"] /\ UNCHANGED deptree
         ELSE /\ deptree' = "loading"
              /\ fetch' = [fetch EXCEPT ![f] = "running"]
    /\ UNCHANGED <<showing, handlers, builds, sampler>>

ShowUp(f) ==
    /\ fetch[f] = "running" /\ f \notin showing
    /\ showing' = showing \union {f}
    /\ UNCHANGED <<deptree, fetch, handlers, builds, sampler>>

\* Mutant of FetchDone: a failure is not recorded.
FetchDoneSilently(f) ==
    /\ fetch[f] = "running"
    /\ fetch' = [fetch EXCEPT ![f] = "idle"]
    /\ showing' = showing \ {f}
    /\ deptree' \in {"ready", deptree}
    /\ UNCHANGED <<handlers, builds, sampler>>

\* "bst show" ends, by itself or because its container was stopped.
FetchDone(f) ==
    /\ fetch[f] = "running"
    /\ fetch' = [fetch EXCEPT ![f] = "idle"]
    /\ showing' = showing \ {f}
    /\ deptree' \in {"ready", "error"}
    /\ UNCHANGED <<handlers, builds, sampler>>

\* After 300 seconds the client is killed; its container may live on.
FetchTimeout(f) ==
    /\ fetch[f] = "running"
    /\ fetch' = [fetch EXCEPT ![f] = "idle"]
    /\ deptree' = "error"
    /\ UNCHANGED <<showing, handlers, builds, sampler>>

ShowEnds(f) ==
    /\ f \in showing /\ fetch[f] = "idle"
    /\ showing' = showing \ {f}
    /\ UNCHANGED <<deptree, fetch, handlers, builds, sampler>>

-----------------------------------------------------------------------------
Next ==
    \/ \E r \in Req : StartLock(r) \/ StopLock(r)
    \/ \E r \in Req : StartSteps(r) \/ StopSteps(r)
    \/ \E b \in Build : BuildStep(b)
    \/ ExternalBuild
    \/ Look \/ Record
    \/ \E f \in Fetcher :
         \/ Spawn(f) \/ FetchEnter(f) \/ ShowUp(f)
         \/ FetchDone(f) \/ FetchTimeout(f) \/ ShowEnds(f)

SafetySpec == Init /\ [][Next]_vars

\* Threads run, and every podman command they wait for either ends or runs
\* into its timeout.  Nobody has to press a button, and builds take as long
\* as they like.
Spec ==
    /\ SafetySpec
    /\ WF_vars(Look \/ Record)
    /\ \A r \in Req : WF_vars(StartSteps(r) \/ StopSteps(r))
    /\ \A f \in Fetcher :
         WF_vars(FetchEnter(f) \/ FetchDone(f) \/ FetchTimeout(f))

-----------------------------------------------------------------------------
(* Properties                                                               *)

\* The dashboard never has two builds of its own running, and never loses
\* track of one by overwriting BUILD_PROC (bst-dashboard.py:113-134).
OneOwnBuild == Alive \subseteq {buildProc}

\* The log is truncated only when no build of the dashboard's own can still
\* be writing to it (bst-dashboard.py:114-120).
TruncateOnlyWhenIdle ==
    [][\A r \in Req : StartTruncate(r) => Alive = {}]_vars

\* A dependency tree that is loading is eventually there or an error
\* (bst-dashboard.py:264-269); the page polls until it is.
FetchSettles == deptree = "loading" ~> deptree \in {"ready", "error"}

\* Whatever podman does, a handler that has BUILD_LOCK leaves it again
\* (bst-dashboard.py:113-135, 140-152), so that the next request is answered.
LockLetGo == \A r \in Req : buildLock = r ~> buildLock # r

\* When every container is gone for good the button offers Start again: the
\* flag of the sampler follows (bst-dashboard.py:410, 422).
FlagFollows == <>[](Containers = {}) => <>[](~ bstRunning)

\* bst-dashboard.py:93, "Return container ID of any running BST2 container":
\* what stop_build hands to podman stop names a container.
StopNamesContainer ==
    \A r \in Req : pc[r] = "podmanstop" => Cardinality(cids[r]) = 1
=============================================================================
