----------------------------- MODULE BuildState -----------------------------
(***************************************************************************)
(* The dashboard's model of a BuildStream run: class State of              *)
(* tools/bst_dashboard/model.py and the updates that parse_line and        *)
(* reset_state of tools/bst_dashboard/parser.py (and the end of catch-up   *)
(* in tail_log of tools/bst-dashboard.py) apply to it.                     *)
(*                                                                         *)
(* One action is one call of State.update, which runs under State._lock.   *)
(* Here the lines come in any order: a log file is text, and parse_line    *)
(* trusts nothing about what precedes a line.  BuildFeed.tla drives the    *)
(* same actions with the lines of a BuildStream session, in its order.     *)
(*                                                                         *)
(* Abstractions.  A time stamp is only "unset", taken when a line was      *)
(* "parse"d, or the file's "mtime".  A Python list of failures is a set of *)
(* entries stamped with their arrival number "at", which gives the order.  *)
(* "completed" keeps which (hash, status) items the list holds.  The       *)
(* recent_lines panel and durations are display only and left out.         *)
(***************************************************************************)
EXTENDS Integers, FiniteSets

CONSTANTS
    Hash,       \* cache keys BuildStream prints in the second bracket
    NoHash,     \* the empty hash of an entry made from the Failure Summary
    Element,    \* element names, junction prefix stripped
    ElementOf,  \* the element a cache key belongs to
    KdeElement, \* elements whose name FAILURE_ELEM_RE accepts ("kde/...")
    MaxCount,   \* bound on each counter (model checking only)
    MaxAppends  \* bound on entries appended to one failure list

ASSUME NoHashAssumption == NoHash \notin Hash
ASSUME ElementOfAssumption == ElementOf \in [Hash -> Element]
ASSUME KdeAssumption == KdeElement \subseteq Element
ASSUME BoundsAssumption == MaxCount \in Nat /\ MaxAppends \in Nat

VARIABLES
    active,          \* hashes of the jobs shown as building
    completed,       \* (hash, status) items of the finished list
    failures,        \* the failure list
    appended,        \* entries appended to failures since it was cleared
    summaryElements, \* elements of the Failure Summary block being read
    pulled, successCount, failureCount, cachedCount, totalElements,
    buildStartTs, buildEndTs,
    catchingUp

counters == <<pulled, successCount, failureCount, cachedCount, totalElements>>
jobs     == <<active, completed>>
report   == <<failures, appended, summaryElements>>
clock    == <<buildStartTs, buildEndTs, catchingUp>>
vars     == <<jobs, report, counters, clock>>

Entry == [element : Element, hash : Hash \union {NoHash},
          log : BOOLEAN, at : Nat]

TypeOK ==
    /\ active \subseteq Hash
    /\ completed \subseteq [hash : Hash, status : {"success", "failure"}]
    /\ failures \subseteq Entry
    /\ IsFiniteSet(failures)
    /\ appended \in Nat
    /\ \A f \in failures : f.at < appended
    /\ summaryElements \subseteq Element
    /\ pulled \in Nat /\ successCount \in Nat /\ failureCount \in Nat
    /\ cachedCount \in Nat /\ totalElements \in Nat
    /\ buildStartTs \in {"unset", "header"}
    /\ buildEndTs \in {"unset", "parse", "mtime"}
    /\ catchingUp \in BOOLEAN

-----------------------------------------------------------------------------
Init ==
    /\ active = {} /\ completed = {}
    /\ failures = {} /\ appended = 0 /\ summaryElements = {}
    /\ pulled = 0 /\ successCount = 0 /\ failureCount = 0
    /\ cachedCount = 0 /\ totalElements = 0
    /\ buildStartTs = "unset" /\ buildEndTs = "unset"
    /\ catchingUp = TRUE

\* Mutants of ClearRun: the jobs of a build that was killed, the failure list, or
\* the elements of a Failure Summary that was cut off, survive into the next run.
ClearRunKeepsActive ==
    /\ completed' = {}
    /\ failures' = {} /\ appended' = 0 /\ summaryElements' = {}
    /\ pulled' = 0 /\ successCount' = 0 /\ failureCount' = 0
    /\ cachedCount' = 0
    /\ buildEndTs' = "unset" /\ catchingUp' = TRUE
    /\ UNCHANGED <<active, totalElements>>

ClearRunKeepsFailures ==
    /\ active' = {} /\ completed' = {}
    /\ appended' = 0 /\ summaryElements' = {}
    /\ pulled' = 0 /\ successCount' = 0 /\ failureCount' = 0
    /\ cachedCount' = 0
    /\ buildEndTs' = "unset" /\ catchingUp' = TRUE
    /\ UNCHANGED <<failures, totalElements>>

ClearRunKeepsSummary ==
    /\ active' = {} /\ completed' = {}
    /\ failures' = {} /\ appended' = 0
    /\ pulled' = 0 /\ successCount' = 0 /\ failureCount' = 0
    /\ cachedCount' = 0
    /\ buildEndTs' = "unset" /\ catchingUp' = TRUE
    /\ UNCHANGED <<summaryElements, totalElements>>

\* What a truncated log and a build header have in common: everything of the
\* previous run is dropped except the pipeline total.
ClearRun ==
    /\ active' = {} /\ completed' = {}
    /\ failures' = {} /\ appended' = 0 /\ summaryElements' = {}
    /\ pulled' = 0 /\ successCount' = 0 /\ failureCount' = 0
    /\ cachedCount' = 0
    /\ buildEndTs' = "unset"
    /\ catchingUp' = TRUE
    /\ UNCHANGED totalElements

ResetState ==
    /\ ClearRun
    /\ buildStartTs' = "unset"

BuildHeader ==
    /\ ClearRun
    /\ buildStartTs' = "header"

\* Mutants of PipelineSummary: no filter; active jobs are not cleared.
PipelineSummaryUnfiltered ==
    /\ active' = {} /\ catchingUp' = FALSE
    /\ buildEndTs' = IF buildEndTs = "unset" THEN "parse" ELSE buildEndTs
    /\ summaryElements' = {}
    /\ UNCHANGED <<completed, failures, appended, pulled, successCount,
                   failureCount, cachedCount, totalElements, buildStartTs>>
PipelineSummaryKeepsActive ==
    /\ catchingUp' = FALSE
    /\ buildEndTs' = IF buildEndTs = "unset" THEN "parse" ELSE buildEndTs
    /\ IF summaryElements # {}
         THEN /\ failures' = {f \in failures : f.element \in summaryElements}
              /\ failureCount' = Cardinality(failures')
         ELSE UNCHANGED <<failures, failureCount>>
    /\ summaryElements' = {}
    /\ UNCHANGED <<active, completed, appended, pulled, successCount,
                   cachedCount, totalElements, buildStartTs>>

\* The Failure Summary block precedes this line.  Its elements, when any was
\* recognised, are the failures to keep.
PipelineSummary ==
    /\ active' = {}
    /\ catchingUp' = FALSE
    /\ buildEndTs' = IF buildEndTs = "unset" THEN "parse" ELSE buildEndTs
    /\ IF summaryElements # {}
         THEN /\ failures' = {f \in failures : f.element \in summaryElements}
              /\ failureCount' = Cardinality(failures')
         ELSE UNCHANGED <<failures, failureCount>>
    /\ summaryElements' = {}
    /\ UNCHANGED <<completed, appended, pulled, successCount, cachedCount,
                   totalElements, buildStartTs>>

SummaryTotal(n) ==
    /\ totalElements' = n
    /\ UNCHANGED <<jobs, report, clock, pulled, successCount, failureCount,
                   cachedCount>>

\* "Build Queue: processed _, skipped _, failed n"
SummaryBuildQueue(n) ==
    /\ failureCount' = IF failureCount = 0 THEN n ELSE failureCount
    /\ UNCHANGED <<jobs, report, clock, pulled, successCount, cachedCount,
                   totalElements>>

SummaryItem(e, n) ==
    [element |-> e, hash |-> NoHash, log |-> FALSE, at |-> n]

\* Mutant of FailureElement: the entry is added, the total is not raised.
FailureElementUncounted(e) ==
    /\ e \in KdeElement
    /\ summaryElements' = summaryElements \union {e}
    /\ IF \E f \in failures : f.element = e
         THEN UNCHANGED <<failures, appended>>
         ELSE /\ appended < MaxAppends
              /\ failures' = failures \union {SummaryItem(e, appended)}
              /\ appended' = appended + 1
    /\ UNCHANGED <<jobs, clock, counters>>

\* A line of the Failure Summary block that names an element.
FailureElement(e) ==
    /\ e \in KdeElement
    /\ summaryElements' = summaryElements \union {e}
    /\ IF \E f \in failures : f.element = e
         THEN UNCHANGED <<failures, appended, failureCount>>
         ELSE /\ appended < MaxAppends
              /\ failures' = failures \union {SummaryItem(e, appended)}
              /\ appended' = appended + 1
              /\ failureCount' = IF failureCount < Cardinality(failures')
                                   THEN Cardinality(failures')
                                   ELSE failureCount
    /\ UNCHANGED <<jobs, clock, pulled, successCount, cachedCount,
                   totalElements>>

\* A log path inside a failure's detail goes to the newest entry without one.
FailureLogPath ==
    /\ \E f \in failures :
         /\ ~ f.log
         /\ \A g \in failures : ~ g.log => g.at <= f.at
         /\ failures' = (failures \ {f}) \union {[f EXCEPT !.log = TRUE]}
    /\ UNCHANGED <<jobs, clock, counters, appended, summaryElements>>

-----------------------------------------------------------------------------
(* Structured lines: [time][hash][action:element] STATUS message            *)

BuildStart(h) ==
    /\ active' = active \union {h}
    /\ UNCHANGED <<completed, report, counters, clock>>

\* A SUCCESS line counts whether or not its START was seen.
BuildSuccess(h) ==
    /\ successCount < MaxCount
    /\ active' = active \ {h}
    /\ completed' = completed \union {[hash |-> h, status |-> "success"]}
    /\ successCount' = successCount + 1
    /\ buildEndTs' = "parse"
    /\ UNCHANGED <<report, pulled, failureCount, cachedCount, totalElements,
                   buildStartTs, catchingUp>>

\* Mutant of FailedItem: the job's log is not carried over.
FailedItemNoLog(h, n) ==
    [element |-> ElementOf[h], hash |-> h, log |-> FALSE, at |-> n]

FailedItem(h, n) ==
    [element |-> ElementOf[h], hash |-> h, log |-> TRUE, at |-> n]

\* The entries a FAILURE of h can complete: same element, no hash yet.
Placeholders(h) ==
    {f \in failures : f.element = ElementOf[h] /\ f.hash = NoHash}

\* Mutant of FileFailure: the placeholder is not looked for.
FileFailureAppends(h) ==
    IF \E f \in failures : f.hash = h
      THEN UNCHANGED <<failures, appended>>
      ELSE /\ appended < MaxAppends
           /\ failures' = failures \union {FailedItem(h, appended)}
           /\ appended' = appended + 1

\* Where the FAILURE of a tracked job is filed: already there, in place of a
\* placeholder (the first one), or at the end of the list.
FileFailure(h) ==
    \/ /\ \E f \in failures : f.hash = h
       /\ UNCHANGED <<failures, appended>>
    \/ /\ \A f \in failures : f.hash # h
       /\ \E f \in Placeholders(h) :
            /\ \A g \in Placeholders(h) : f.at <= g.at
            /\ failures' = (failures \ {f}) \union {FailedItem(h, f.at)}
       /\ UNCHANGED appended
    \/ /\ \A f \in failures : f.hash # h
       /\ Placeholders(h) = {}
       /\ appended < MaxAppends
       /\ failures' = failures \union {FailedItem(h, appended)}
       /\ appended' = appended + 1

\* Mutant of BuildFailure: the job is looked up but stays in active.
BuildFailureKeepsActive(h) ==
    /\ h \in active
    /\ completed' = completed \union {[hash |-> h, status |-> "failure"]}
    /\ FileFailure(h)
    /\ failureCount' = Cardinality(failures')
    /\ buildEndTs' = "parse"
    /\ UNCHANGED <<active, summaryElements, pulled, successCount, cachedCount,
                   totalElements, buildStartTs, catchingUp>>

\* A FAILURE line of a job that was never seen to start is a sub-event and
\* changes nothing.
BuildFailure(h) ==
    /\ h \in active
    /\ active' = active \ {h}
    /\ completed' = completed \union {[hash |-> h, status |-> "failure"]}
    /\ FileFailure(h)
    /\ failureCount' = Cardinality(failures')
    /\ buildEndTs' = "parse"
    /\ UNCHANGED <<summaryElements, pulled, successCount, cachedCount,
                   totalElements, buildStartTs, catchingUp>>

PullSkipped ==
    /\ cachedCount < MaxCount
    /\ cachedCount' = cachedCount + 1
    /\ UNCHANGED <<jobs, report, clock, pulled, successCount, failureCount,
                   totalElements>>

PullSuccess ==
    /\ pulled < MaxCount
    /\ pulled' = pulled + 1
    /\ UNCHANGED <<jobs, report, clock, successCount, failureCount,
                   cachedCount, totalElements>>

\* tail_log, on reaching the end of the file.  Reading the mtime may fail.
DoneCatchingUp ==
    /\ catchingUp
    /\ catchingUp' = FALSE
    /\ buildEndTs' \in IF /\ active = {}
                          /\ successCount > 0
                          /\ buildEndTs = "unset"
                         THEN {"mtime", "unset"}
                         ELSE {buildEndTs}
    /\ UNCHANGED <<jobs, report, counters, buildStartTs>>

-----------------------------------------------------------------------------
Next ==
    \/ ResetState
    \/ BuildHeader
    \/ PipelineSummary
    \/ \E n \in 0 .. MaxCount : SummaryTotal(n)
    \/ \E n \in 0 .. MaxCount : SummaryBuildQueue(n)
    \/ \E e \in Element : FailureElement(e)
    \/ FailureLogPath
    \/ \E h \in Hash : BuildStart(h)
    \/ \E h \in Hash : BuildSuccess(h)
    \/ \E h \in Hash : BuildFailure(h)
    \/ PullSkipped
    \/ PullSuccess
    \/ DoneCatchingUp

Spec == Init /\ [][Next]_vars

-----------------------------------------------------------------------------
(* Properties                                                               *)

\* The failure total shown to the user is never smaller than the list shown
\* under it, whatever mix of live FAILURE lines, Failure Summary entries and
\* queue totals (parser.py:136-139, 149-151, 239) produced the two.
FailureCountCoversList == failureCount >= Cardinality(failures)

\* The duplicate avoidance of parser.py:149 and 230-238: a job fails at most
\* once in the list, a placeholder is the only entry of its element, and no
\* two entries share a place.
OneEntryPerFailure ==
    \A f, g \in failures : f # g =>
        /\ f.hash = g.hash => f.hash = NoHash
        /\ f.hash = NoHash => f.element # g.element
        /\ f.at # g.at

\* While the Failure Summary is being read every element it named has an entry
\* in the list, so the filter at Pipeline Summary (parser.py:111-116) never
\* loses a root cause.
RootCausesListed ==
    \A e \in summaryElements : \E f \in failures : f.element = e

\* An entry with a hash was a job the dashboard saw fail (it is in the
\* finished list), and it never waits for a log path: only placeholders take
\* the paths printed in the Failure Summary (parser.py:159-164).
HashedEntriesWereTracked ==
    \A f \in failures : f.hash # NoHash =>
        /\ f.log
        /\ f.element = ElementOf[f.hash]
        /\ [hash |-> f.hash, status |-> "failure"] \in completed
=============================================================================
