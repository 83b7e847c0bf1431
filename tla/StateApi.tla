------------------------------ MODULE StateApi ------------------------------
(***************************************************************************)
(* GET /api/state of tools/bst-dashboard.py beside the parser's thread:    *)
(* State.snapshot of tools/bst_dashboard/model.py copies the counters, and *)
(* hands out the failure list itself.  The handler then reads the tails of *)
(* the active jobs' logs (_enrich_cmake), without the lock, before         *)
(* json.dumps goes through the reply.  json.dumps is one step: it runs in  *)
(* C, and no other thread runs Python code meanwhile.                      *)
(***************************************************************************)
EXTENDS BuildState

VARIABLES
    serving, \* the handler is between snapshot and json.dumps
    count,   \* reply["failure"]
    list,    \* reply["failures"], as json.dumps would find it now
    aliased, \* reply["failures"] is the list object State.failures
    shared   \* when it is not: places of the entries that the two lists share

reply   == <<serving, count, list, aliased, shared>>
apiVars == <<vars, reply>>

ReplyTypeOK ==
    /\ serving \in BOOLEAN /\ count \in Nat
    /\ list \subseteq Entry
    /\ aliased \in BOOLEAN /\ shared \subseteq Nat

ApiInit ==
    /\ Init
    /\ serving = FALSE /\ count = 0 /\ list = {} /\ aliased = FALSE /\ shared = {}

Snapshot ==
    /\ ~ serving
    /\ serving' = TRUE
    /\ count' = failureCount
    /\ list' = failures
    /\ aliased' = TRUE /\ shared' = {}
    /\ UNCHANGED vars

Serve ==
    /\ serving
    /\ serving' = FALSE /\ count' = 0 /\ list' = {} /\ aliased' = FALSE /\ shared' = {}
    /\ UNCHANGED vars

\* Only the filter at Pipeline Summary makes a new list; all else is done in
\* place, by clear, append and update.
Rebinds == PipelineSummary /\ summaryElements # {}

\* An entry of a list that State no longer has, after the present step.
Now(f) ==
    IF f.at \in shared /\ \E g \in failures' : g.at = f.at
      THEN CHOOSE g \in failures' : g.at = f.at
      ELSE f

Update ==
    /\ Next
    /\ \/ /\ ~ serving
          /\ UNCHANGED reply
       \/ /\ serving /\ aliased /\ ~ Rebinds
          /\ list' = failures'
          /\ UNCHANGED <<serving, count, aliased, shared>>
       \/ /\ serving /\ aliased /\ Rebinds
          /\ aliased' = FALSE
          /\ shared' = {f.at : f \in failures'}
          /\ UNCHANGED <<serving, count, list>>
       \/ /\ serving /\ ~ aliased
          /\ list' = {Now(f) : f \in list}
          /\ shared' = shared \intersect {f.at : f \in failures'}
          /\ UNCHANGED <<serving, count, aliased>>

ApiNext == Snapshot \/ Serve \/ Update

ApiSpec == ApiInit /\ [][ApiNext]_apiVars

-----------------------------------------------------------------------------
\* Violated.  model.py:38, "Return a consistent view for API consumers", and
\* line 14, "an immutable snapshot boundary": what holds of the state, that the
\* total covers the list (FailureCountCoversList), holds of the reply.
ReplyIsConsistent == serving => count >= Cardinality(list)
=============================================================================
