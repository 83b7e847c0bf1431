------------------------------ MODULE BuildFeed ------------------------------
(***************************************************************************)
(* BuildState fed by a BuildStream session, and looked at by a browser.    *)
(*                                                                         *)
(* The session is external: it writes the lines parser.py recognises, in   *)
(* the order the parser's comments and tests give (header; START, SUCCESS  *)
(* and FAILURE of jobs; the Failure Summary; Pipeline Summary; the queue   *)
(* totals; perhaps another sub-run without a header), unless it is killed  *)
(* and writes nothing more.  "unread" is the part of the log the tailer    *)
(* has not parsed.  The tailer here reads every line and notices every     *)
(* truncation; LogTail.tla says when that is so.                           *)
(*                                                                         *)
(* The browser is the poll() loop of tools/bst-dashboard.html.             *)
(***************************************************************************)
EXTENDS BuildState, Sequences

CONSTANTS
    MaxSessions, \* headers written (model checking only)
    MaxSubRuns,  \* sub-runs of one session
    MaxUnread    \* lines the tailer may lag behind

ASSUME FeedBoundsAssumption ==
    /\ MaxSessions \in Nat
    /\ MaxSubRuns \in Nat \ {0}
    /\ MaxUnread \in Nat \ {0, 1}

VARIABLES
    phase,     \* what the session is writing
    running,   \* jobs really building
    built,     \* jobs that succeeded in this session
    failed,    \* jobs that failed in this sub-run
    earlier,   \* jobs that failed in earlier sub-runs of this session
    roots,     \* elements this sub-run's Failure Summary lists
    toList,    \* those it has not printed yet
    sessions, subRuns,
    unread,
    lastLive   \* _lastLive of the browser

session  == <<phase, running, built, failed, earlier, roots, toList,
              sessions, subRuns>>
feedVars == <<vars, session, unread, lastLive>>

Line == [kind : {"reset", "header", "summary", "logpath"}]
        \union [kind : {"START", "SUCCESS", "FAILURE"}, hash : Hash]
        \union [kind : {"element"}, element : Element]
        \union [kind : {"queue"}, failed : Nat]

ElementsOf(S) == {ElementOf[h] : h \in S}

FeedTypeOK ==
    /\ TypeOK
    /\ phase \in {"idle", "building", "listing", "ending", "done", "killed"}
    /\ running \subseteq Hash /\ built \subseteq Hash
    /\ failed \subseteq Hash /\ earlier \subseteq Hash
    /\ roots \subseteq Element /\ toList \subseteq roots
    /\ sessions \in 0 .. MaxSessions /\ subRuns \in 0 .. MaxSubRuns
    /\ unread \in Seq(Line) /\ Len(unread) <= MaxUnread
    /\ lastLive \in BOOLEAN

FeedInit ==
    /\ Init
    /\ phase = "idle"
    /\ running = {} /\ built = {} /\ failed = {} /\ earlier = {}
    /\ roots = {} /\ toList = {}
    /\ sessions = 0 /\ subRuns = 0
    /\ unread = << >>
    /\ lastLive = FALSE

Write(line) ==
    /\ Len(unread) < MaxUnread
    /\ unread' = Append(unread, line)

-----------------------------------------------------------------------------
(* The session                                                              *)

\* The log is truncated and gets its header.  What the tailer had not read is
\* gone; it sees the file shrink if it had read anything.
SessionBegin ==
    /\ phase \in {"idle", "done", "killed"}
    /\ sessions < MaxSessions
    /\ sessions' = sessions + 1
    /\ unread' = IF phase = "idle"
                   THEN <<[kind |-> "header"]>>
                   ELSE <<[kind |-> "reset"], [kind |-> "header"]>>
    /\ phase' = "building"
    /\ subRuns' = 1
    /\ running' = {} /\ built' = {} /\ failed' = {} /\ earlier' = {}
    /\ roots' = {} /\ toList' = {}
    /\ UNCHANGED <<vars, lastLive>>

JobStart(h) ==
    /\ phase = "building"
    /\ h \notin running \union built \union failed
    /\ Write([kind |-> "START", hash |-> h])
    /\ running' = running \union {h}
    /\ UNCHANGED <<vars, lastLive, phase, built, failed, earlier, roots, toList,
                   sessions, subRuns>>

JobSuccess(h) ==
    /\ phase = "building"
    /\ h \in running
    /\ Write([kind |-> "SUCCESS", hash |-> h])
    /\ running' = running \ {h}
    /\ built' = built \union {h}
    /\ UNCHANGED <<vars, lastLive, phase, failed, earlier, roots, toList,
                   sessions, subRuns>>

JobFailure(h) ==
    /\ phase = "building"
    /\ h \in running
    /\ Write([kind |-> "FAILURE", hash |-> h])
    /\ running' = running \ {h}
    /\ failed' = failed \union {h}
    /\ UNCHANGED <<vars, lastLive, phase, built, earlier, roots, toList,
                   sessions, subRuns>>

\* The sub-run ends; jobs still building are terminated.  The Failure Summary
\* lists some of the failed elements: the ones that did not fail merely
\* because a dependency did.
SubRunEnds ==
    /\ phase = "building"
    /\ running' = {}
    /\ phase' = "listing"
    /\ \E R \in SUBSET ElementsOf(failed) :
         /\ R = {} <=> failed = {}
         /\ roots' = R /\ toList' = R
    /\ UNCHANGED <<vars, lastLive, unread, built, failed, earlier, sessions,
                   subRuns>>

ListRoot(e) ==
    /\ phase = "listing"
    /\ e \in toList
    /\ Len(unread) + 2 <= MaxUnread
    /\ unread' = unread \o <<[kind |-> "element", element |-> e],
                             [kind |-> "logpath"]>>
    /\ toList' = toList \ {e}
    /\ UNCHANGED <<vars, lastLive, phase, running, built, failed, earlier,
                   roots, sessions, subRuns>>

WriteSummary ==
    /\ phase = "listing" /\ toList = {}
    /\ Write([kind |-> "summary"])
    /\ phase' = "ending"
    /\ UNCHANGED <<vars, lastLive, running, built, failed, earlier, roots,
                   toList, sessions, subRuns>>

WriteQueue ==
    /\ phase = "ending"
    /\ Write([kind |-> "queue", failed |-> Cardinality(failed)])
    /\ phase' = "done"
    /\ UNCHANGED <<vars, lastLive, running, built, failed, earlier, roots,
                   toList, sessions, subRuns>>

\* BuildStream goes on with another sub-run, without a header.
NextSubRun ==
    /\ phase = "done" /\ subRuns < MaxSubRuns
    /\ subRuns' = subRuns + 1
    /\ phase' = "building"
    /\ earlier' = earlier \union failed
    /\ failed' = {} /\ roots' = {}
    /\ UNCHANGED <<vars, lastLive, unread, running, built, toList, sessions>>

\* The container is stopped or dies.  What was written is all there is: no
\* Pipeline Summary follows.
SessionKilled ==
    /\ phase \in {"building", "listing", "ending"}
    /\ phase' = "killed"
    /\ running' = {} /\ toList' = {}
    /\ UNCHANGED <<vars, lastLive, unread, built, failed, earlier, roots,
                   sessions, subRuns>>

Session ==
    \/ SessionBegin
    \/ \E h \in Hash : JobStart(h) \/ JobSuccess(h) \/ JobFailure(h)
    \/ SubRunEnds
    \/ \E e \in Element : ListRoot(e)
    \/ WriteSummary
    \/ WriteQueue
    \/ NextSubRun
    \/ SessionKilled

-----------------------------------------------------------------------------
(* The tailer                                                               *)

\* What parse_line does with one line.  A FAILURE of a job that is not shown
\* as building, an element name the pattern rejects and a log path nobody
\* waits for leave the state as it was.
Apply(line) ==
    \/ line.kind = "reset" /\ ResetState
    \/ line.kind = "header" /\ BuildHeader
    \/ line.kind = "summary" /\ PipelineSummary
    \/ line.kind = "queue" /\ SummaryBuildQueue(line.failed)
    \/ line.kind = "START" /\ BuildStart(line.hash)
    \/ line.kind = "SUCCESS" /\ BuildSuccess(line.hash)
    \/ line.kind = "FAILURE" /\ BuildFailure(line.hash)
    \/ line.kind = "FAILURE" /\ line.hash \notin active /\ UNCHANGED vars
    \/ line.kind = "element" /\ FailureElement(line.element)
    \/ /\ line.kind = "element" /\ line.element \notin KdeElement
       /\ UNCHANGED vars
    \/ line.kind = "logpath" /\ FailureLogPath
    \/ /\ line.kind = "logpath" /\ \A f \in failures : f.log
       /\ UNCHANGED vars

ParseLine ==
    /\ unread # << >>
    /\ Apply(Head(unread))
    /\ unread' = Tail(unread)
    /\ UNCHANGED <<session, lastLive>>

EndOfLog ==
    /\ unread = << >>
    /\ DoneCatchingUp
    /\ UNCHANGED <<session, unread, lastLive>>

-----------------------------------------------------------------------------
(* The browser                                                              *)

\* Mutant of Live: the elapsed time stands still, so nothing runs.
LiveUntilEnd == (active # {} /\ buildEndTs = "unset") \/ catchingUp

\* "live" of State.snapshot.
Live == active # {} \/ catchingUp

Poll ==
    /\ lastLive' = Live
    /\ UNCHANGED <<vars, session, unread>>

\* The step in which showBuildNotification is called.
Notify == Poll /\ lastLive /\ ~ Live /\ ~ catchingUp

-----------------------------------------------------------------------------
FeedNext == Session \/ ParseLine \/ EndOfLog \/ Poll

\* The tailer is a thread in an endless loop.  Nothing is assumed of the
\* session or of the user's browser.
FeedSpec ==
    /\ FeedInit /\ [][FeedNext]_feedVars
    /\ WF_feedVars(ParseLine)
    /\ WF_feedVars(EndOfLog)

-----------------------------------------------------------------------------
(* Properties                                                               *)

\* When the tailer has read everything, the jobs shown as building are the
\* jobs building: across sessions, sub-runs, failures, retries, jobs cut off at
\* the end of a sub-run and those a killed session left behind (parser.py:52, 84,
\* 107, 202, 212, 223).  The cut-off jobs are still shown while a Failure Summary
\* is printed, those of a killed session until the next one begins.
ActiveIsTruth ==
    unread = << >> /\ phase \in {"building", "ending", "done"}
        => active = running

\* Every entry of the failure list is of an element that failed in the session
\* whose header was parsed last; nothing leaks from the run before.
FailuresAreReal ==
    (\A i \in DOMAIN unread : unread[i].kind \notin {"reset", "header"}) =>
        \A f \in failures : f.element \in ElementsOf(failed \union earlier)

\* The root causes whose name FAILURE_ELEM_RE accepts.
Named == roots \intersect KdeElement

\* The entries of a job.
EntriesOf(h) == {f \in failures : f.hash = h}

\* What the filter of parser.py:101-116 leaves of a sub-run that the tailer has
\* read to its end.  Where the pattern recognised a root cause, the list holds the
\* recognised ones' elements and no other; a job that failed is listed, once, if
\* its element is among them, and not at all otherwise, even if it was a root
\* cause.  Where it recognised none, as for this project's own elements, each job
\* that failed is listed, once: the filter loses none.
FailuresShown ==
    unread = << >> /\ phase = "done" =>
        /\ Named # {} => {f.element : f \in failures} = Named
        /\ \A h \in failed :
             IF Named = {} \/ ElementOf[h] \in Named
               THEN \E f \in failures : EntriesOf(h) = {f}
               ELSE EntriesOf(h) = {}

\* When a session is over and stays over, the page stops showing it as live.
CompletionShown == phase = "done" ~> (~ Live \/ phase # "done")

\* The page announces completion when its poll sees live fall (lines 411-415 of
\* bst-dashboard.html).  Whatever the tailer and the session did between two polls,
\* it does not while a job runs, unless the log says more than has been read.
NotifyNeverMidJob == [][Notify => running = {} \/ unread # << >>]_feedVars

\* parser.py:112: "Keep only root-cause failures (those in the Failure
\* Summary)", said of every element.
RootCausesOnly ==
    unread = << >> /\ phase = "done" /\ failed # {}
        => \A f \in failures : f.element \in roots \union ElementsOf(earlier)

\* parser.py:113-114: "each Pipeline Summary is authoritative for its sub-run;
\* failures from prior sub-runs are superseded".
SubRunsSupersede ==
    unread = << >> /\ phase = "done"
        => \A f \in failures : f.element \in ElementsOf(failed)

\* bst-dashboard.html:411, "Trigger notification on completion": no
\* notification while a session that the tailer has followed to its last line
\* goes on building.
NotifyOnCompletion ==
    [][Notify => ~ (phase = "building" /\ unread = << >>)]_feedVars

\* bst-dashboard.py:466: "If no active jobs and we have data, use log file
\* mtime as end time", at the end of catch-up.
CatchUpUsesMtime ==
    [][EndOfLog /\ active = {} /\ successCount > 0
           => buildEndTs' # "parse"]_feedVars
=============================================================================
