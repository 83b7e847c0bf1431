------------------------- MODULE BuildControlProofs -------------------------
(***************************************************************************)
(* BuildControl for any number of handler threads, fetch threads and       *)
(* builds: BUILD_LOCK makes the check of start_build and its launch one    *)
(* critical section, so the dashboard has at most one build of its own.    *)
(***************************************************************************)
EXTENDS BuildControl, TLAPS

Handlers ==
    \/ \E r \in Req : StartLock(r) \/ StopLock(r)
    \/ \E r \in Req : StartSteps(r) \/ StopSteps(r)
Fetches ==
    \E f \in Fetcher :
         \/ Spawn(f) \/ FetchEnter(f) \/ ShowUp(f)
         \/ FetchDone(f) \/ FetchTimeout(f) \/ ShowEnds(f)

LEMMA NextIs ==
    Next <=> \/ Handlers \/ (\E b \in Build : BuildStep(b)) \/ ExternalBuild
             \/ Look \/ Record \/ Fetches
  BY DEF Next, Handlers, Fetches

LEMMA ContainersTyped == TypeOK => Containers \subseteq Container
  BY DEF TypeOK, Containers, Container

LEMMA InitTyped == Init => TypeOK
  BY DEF Init, TypeOK

LEMMA HandlersTyped == TypeOK /\ Handlers => TypeOK'
<1> SUFFICES ASSUME TypeOK, NEW r \in Req,
                    StartLock(r) \/ StopLock(r) \/ StartSteps(r) \/ StopSteps(r)
             PROVE  TypeOK'
  BY DEF Handlers
<1> USE MaxBuildsAssumption DEF TypeOK, Goto, Release, builds, sampler, tree
<1>1. CASE StartLock(r) \/ StopLock(r)
  BY <1>1 DEF StartLock, StopLock
<1>2. CASE StopTerminate(r) \/ StartTruncate(r)
  BY <1>2 DEF StopTerminate, StartTruncate
<1>3. CASE StartPoll(r)
  BY <1>3 DEF StartPoll
<1>4. CASE StartFlag(r)
  BY <1>4 DEF StartFlag
<1>5. CASE StartPopen(r)
  BY <1>5 DEF StartPopen, Build
<1>6. CASE StartPopenFails(r)
  BY <1>6 DEF StartPopenFails
<1>7. CASE StopPs(r)
  <2>1. \A seen \in {Containers, {}} : seen \in SUBSET Container
    BY ContainersTyped
  <2> QED
    BY <1>7, <2>1 DEF StopPs
<1>8. CASE StopPodman(r)
  BY <1>8 DEF StopPodman
<1>9. CASE StopPodmanTimeout(r)
  BY <1>9 DEF StopPodmanTimeout
<1> QED
  BY <1>1, <1>2, <1>3, <1>4, <1>5, <1>6, <1>7, <1>8, <1>9 DEF StartSteps, StopSteps

LEMMA StepTyped == TypeOK /\ [Next]_vars => TypeOK'
<1> SUFFICES ASSUME TypeOK, [Next]_vars PROVE TypeOK'
  OBVIOUS
<1> USE DEF handlers, builds, sampler, tree
<1>1. CASE Handlers
  BY <1>1, HandlersTyped
<1>2. ASSUME NEW b \in Build, BuildStep(b) PROVE TypeOK'
  BY <1>2 DEF BuildStep, TypeOK
<1>3. CASE ExternalBuild
  BY <1>3 DEF ExternalBuild, TypeOK
<1>4. CASE Look
  BY <1>4 DEF Look, TypeOK
<1>5. CASE Record
  BY <1>5 DEF Record, TypeOK
<1>6. CASE Fetches
  BY <1>6 DEF Fetches, Spawn, FetchEnter, ShowUp, FetchDone, FetchTimeout, ShowEnds,
              TypeOK
<1>7. CASE UNCHANGED vars
  BY <1>7 DEF vars, TypeOK
<1> QED
  BY <1>1, <1>2, <1>3, <1>4, <1>5, <1>6, <1>7, NextIs

\* Whatever the threads and podman do, every variable keeps its type; in
\* particular deptree only takes the four values that the page knows.
THEOREM TypeCorrect == SafetySpec => []TypeOK
  BY InitTyped, StepTyped, PTL DEF SafetySpec

-----------------------------------------------------------------------------
(* The inductive invariant                                                  *)

\* Who is between taking and releasing BUILD_LOCK has it.
LockHeld ==
    \A r \in Req : pc[r] # "idle" => buildLock = r

\* Past the check of build_running no client is alive, and none comes to
\* life: only the holder of the lock launches one.
NoneAlive ==
    \A r \in Req : pc[r] \in {"flag", "truncate", "popen"} => Alive = {}

Inv == TypeOK /\ LockHeld /\ NoneAlive /\ OneOwnBuild

LEMMA InitInv == Init => Inv
  BY InitTyped DEF Init, Inv, LockHeld, NoneAlive, OneOwnBuild, Alive

\* No step but StartPopen brings a client to life or changes BUILD_PROC.
LEMMA LaunchedByPopen ==
    ASSUME TypeOK, Next, \A r \in Req : ~ StartPopen(r)
    PROVE  Alive' \subseteq Alive /\ buildProc' = buildProc
<1> USE DEF handlers, builds, sampler, tree, Alive
<1>1. CASE Handlers
  <2> PICK r \in Req : StartLock(r) \/ StopLock(r) \/ StartSteps(r) \/ StopSteps(r)
    BY <1>1 DEF Handlers
  <2>1. CASE StopPodman(r)
    BY <2>1 DEF StopPodman, TypeOK
  <2>2. CASE ~ StopPodman(r)
    BY <2>2 DEF StartSteps, StopSteps, StartLock, StopLock, StartPoll,
            StartFlag, StartTruncate, StartPopenFails, StopTerminate,
            StopPs, StopPodmanTimeout
  <2> QED
    BY <2>1, <2>2
<1>2. ASSUME NEW b \in Build, BuildStep(b)
      PROVE  Alive' \subseteq Alive /\ buildProc' = buildProc
  BY <1>2 DEF BuildStep, TypeOK
<1>3. CASE ExternalBuild \/ Look \/ Record \/ Fetches
  BY <1>3 DEF ExternalBuild, Look, Record, Fetches, Spawn, FetchEnter, ShowUp,
              FetchDone, FetchTimeout, ShowEnds
<1> QED
  BY <1>1, <1>2, <1>3, NextIs

LEMMA StepLockHeld == Inv /\ [Next]_vars => LockHeld'
<1> SUFFICES ASSUME Inv, [Next]_vars PROVE LockHeld'
  OBVIOUS
<1> USE DEF Inv, LockHeld, TypeOK, handlers, builds, sampler, tree
<1>1. CASE Handlers
  <2> PICK r \in Req : StartLock(r) \/ StopLock(r) \/ StartSteps(r) \/ StopSteps(r)
    BY <1>1 DEF Handlers
  <2> USE NobodyAssumption DEF Goto, Release
  <2>1. CASE StartLock(r) \/ StopLock(r)
    BY <2>1 DEF StartLock, StopLock
  <2>2. CASE StartSteps(r)
    BY <2>2 DEF StartSteps, StartPoll, StartFlag, StartTruncate, StartPopen,
                StartPopenFails
  <2>3. CASE StopSteps(r)
    BY <2>3 DEF StopSteps, StopTerminate, StopPs, StopPodman,
                StopPodmanTimeout
  <2> QED
    BY <2>1, <2>2, <2>3
<1>2. CASE ~ Handlers
  BY <1>2, NextIs DEF BuildStep, ExternalBuild, Look, Record, Fetches, Spawn, FetchEnter,
              ShowUp, FetchDone, FetchTimeout, ShowEnds, vars
<1> QED
  BY <1>1, <1>2

LEMMA StepNoneAlive == Inv /\ [Next]_vars => NoneAlive'
<1> SUFFICES ASSUME Inv, [Next]_vars,
                    NEW r \in Req, pc'[r] \in {"flag", "truncate", "popen"}
             PROVE  Alive' = {}
  BY DEF NoneAlive
<1>1. CASE UNCHANGED vars
  BY <1>1 DEF vars, handlers, builds, Inv, NoneAlive, Alive
<1>2. CASE \E q \in Req : StartPopen(q)
  <2> PICK q \in Req : StartPopen(q)
    BY <1>2
  <2>1. pc[r] \in {"flag", "truncate", "popen"} /\ r # q
    BY DEF StartPopen, Goto, Inv, TypeOK
  <2>2. buildLock = r /\ buildLock = q
    BY <2>1 DEF Inv, LockHeld, StartPopen, Goto
  <2> QED
    BY <2>1, <2>2
<1>3. CASE Next /\ \A q \in Req : ~ StartPopen(q)
  <2>1. Alive' \subseteq Alive
    BY <1>3, LaunchedByPopen DEF Inv
  <2>2. CASE pc[r] \in {"flag", "truncate", "popen"}
    BY <2>1, <2>2 DEF Inv, NoneAlive
  <2>3. CASE pc[r] \notin {"flag", "truncate", "popen"}
    <3>1. StartPoll(r) /\ buildProc \notin Alive
      BY <1>3, <2>3, NextIs
         DEF Inv, TypeOK, Handlers, Goto, handlers, builds, sampler, tree, StartLock,
             StopLock, StartSteps, StartPoll, StartFlag, StartTruncate,
             StartPopenFails, StopSteps, StopTerminate, StopPs,
             StopPodman, StopPodmanTimeout, BuildStep, ExternalBuild, Look,
             Record, Fetches, Spawn, FetchEnter, ShowUp, FetchDone, FetchTimeout, ShowEnds
    <3> QED
      BY <2>1, <3>1 DEF Inv, OneOwnBuild
  <2> QED
    BY <2>2, <2>3
<1> QED
  BY <1>1, <1>2, <1>3

LEMMA StepOneOwnBuild == Inv /\ [Next]_vars => OneOwnBuild'
<1> SUFFICES ASSUME Inv, [Next]_vars PROVE OneOwnBuild'
  OBVIOUS
<1>1. CASE UNCHANGED vars
  BY <1>1 DEF vars, builds, Inv, OneOwnBuild, Alive
<1>2. CASE \E q \in Req : StartPopen(q)
  <2> PICK q \in Req : StartPopen(q)
    BY <1>2
  <2>1. Alive = {}
    BY DEF Inv, NoneAlive, StartPopen, Goto
  <2> QED
    BY <2>1, MaxBuildsAssumption DEF StartPopen, Inv, TypeOK, OneOwnBuild, Alive, Build
<1>3. CASE Next /\ \A q \in Req : ~ StartPopen(q)
  BY <1>3, LaunchedByPopen DEF Inv, OneOwnBuild
<1> QED
  BY <1>1, <1>2, <1>3

LEMMA AlwaysInv == SafetySpec => []Inv
<1>1. Inv /\ [Next]_vars => Inv'
  BY StepTyped, StepLockHeld, StepNoneAlive, StepOneOwnBuild DEF Inv
<1> QED
  BY InitInv, <1>1, PTL DEF SafetySpec

-----------------------------------------------------------------------------
\* However many threads ask for a build, the dashboard has at most the one it
\* remembers in BUILD_PROC (bst-dashboard.py:113-134).
THEOREM AtMostOneOwnBuild == SafetySpec => []OneOwnBuild
  BY AlwaysInv, PTL DEF Inv

\* start_build truncates the log only when no build of the dashboard's own can
\* be writing to it (bst-dashboard.py:114-120).
THEOREM NoTruncationUnderBuild == SafetySpec => TruncateOnlyWhenIdle
<1>1. Inv /\ [Next]_vars => [\A r \in Req : StartTruncate(r) => Alive = {}]_vars
  BY DEF Inv, NoneAlive, StartTruncate, Goto
<1> QED
  BY AlwaysInv, <1>1, PTL DEF SafetySpec, TruncateOnlyWhenIdle
=============================================================================
