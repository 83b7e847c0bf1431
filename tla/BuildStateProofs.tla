-------------------------- MODULE BuildStateProofs --------------------------
(***************************************************************************)
(* The invariants of BuildState hold for every set of hashes and elements  *)
(* and every order of log lines; those of BuildFeed, in the second part,   *)
(* for every session that writes them.                                     *)
(***************************************************************************)
EXTENDS BuildFeed, FiniteSetTheorems, SequenceTheorems, TLAPS

USE NoHashAssumption, ElementOfAssumption, KdeAssumption, BoundsAssumption

\* Exchanging one entry of a finite set for another does not make it larger.
LEMMA ExchangeCardinality ==
    ASSUME NEW S, IsFiniteSet(S), NEW x \in S, NEW y
    PROVE  /\ IsFiniteSet((S \ {x}) \union {y})
           /\ Cardinality((S \ {x}) \union {y}) \in Nat
           /\ Cardinality((S \ {x}) \union {y}) <= Cardinality(S)
<1>1. /\ IsFiniteSet(S \ {x})
      /\ Cardinality(S \ {x}) = Cardinality(S) - 1
  BY FS_RemoveElement
<1>2. /\ IsFiniteSet((S \ {x}) \union {y})
      /\ Cardinality((S \ {x}) \union {y})
            = IF y \in S \ {x} THEN Cardinality(S \ {x})
                               ELSE Cardinality(S \ {x}) + 1
  BY <1>1, FS_AddElement
<1>3. /\ Cardinality(S) \in Nat
      /\ Cardinality(S \ {x}) \in Nat
      /\ Cardinality((S \ {x}) \union {y}) \in Nat
  BY <1>1, <1>2, FS_CardinalityType
<1> QED
  BY <1>1, <1>2, <1>3

\* What filing a FAILURE does to the list: it stays a finite set of entries
\* whose places lie below the new append count.
LEMMA FileFailureType ==
    ASSUME TypeOK, NEW h \in Hash, FileFailure(h)
    PROVE  /\ failures' \subseteq Entry
           /\ IsFiniteSet(failures')
           /\ Cardinality(failures') \in Nat
           /\ appended' \in Nat
           /\ \A f \in failures' : f.at < appended'
<1>1. /\ failures \subseteq Entry /\ IsFiniteSet(failures)
      /\ appended \in Nat /\ \A f \in failures : f.at < appended
  BY DEF TypeOK
<1>2. CASE UNCHANGED <<failures, appended>>
  BY <1>1, <1>2, FS_CardinalityType
<1>3. ASSUME NEW f \in Placeholders(h),
             failures' = (failures \ {f}) \union {FailedItem(h, f.at)},
             appended' = appended
      PROVE  /\ failures' \subseteq Entry
             /\ IsFiniteSet(failures')
             /\ Cardinality(failures') \in Nat
             /\ appended' \in Nat
             /\ \A g \in failures' : g.at < appended'
  <2>1. f \in failures
    BY DEF Placeholders
  <2>2. f \in Entry /\ f.at < appended
    BY <1>1, <2>1
  <2>3. FailedItem(h, f.at) \in Entry /\ FailedItem(h, f.at).at = f.at
    BY <2>2 DEF FailedItem, Entry
  <2>4. IsFiniteSet(failures') /\ Cardinality(failures') \in Nat
    BY <1>1, <1>3, <2>1, ExchangeCardinality
  <2>5. failures' \subseteq Entry /\ \A g \in failures' : g.at < appended'
    BY <1>1, <1>3, <2>2, <2>3
  <2> QED
    BY <1>1, <1>3, <2>4, <2>5
<1>4. ASSUME failures' = failures \union {FailedItem(h, appended)},
             appended' = appended + 1
      PROVE  /\ failures' \subseteq Entry
             /\ IsFiniteSet(failures')
             /\ Cardinality(failures') \in Nat
             /\ appended' \in Nat
             /\ \A g \in failures' : g.at < appended'
  <2>1. /\ FailedItem(h, appended) \in Entry
        /\ FailedItem(h, appended).at = appended
    BY <1>1 DEF FailedItem, Entry
  <2>2. IsFiniteSet(failures') /\ Cardinality(failures') \in Nat
    BY <1>1, <1>4, FS_AddElement, FS_CardinalityType
  <2>3. \A g \in failures : g.at < appended + 1
    BY <1>1 DEF Entry
  <2> QED
    BY <1>1, <1>4, <2>1, <2>2, <2>3
<1> QED
  BY <1>2, <1>3, <1>4 DEF FileFailure

\* A set of entries cut down by a filter keeps its type.
LEMMA FilterType ==
    ASSUME TypeOK, NEW T, T \subseteq failures
    PROVE  /\ T \subseteq Entry
           /\ IsFiniteSet(T)
           /\ Cardinality(T) \in Nat
           /\ \A f \in T : f.at < appended
  BY FS_Subset, FS_CardinalityType DEF TypeOK

-----------------------------------------------------------------------------
(* Type correctness                                                          *)

LEMMA InitTypeOK == Init => TypeOK
  BY FS_EmptySet DEF Init, TypeOK

LEMMA StepTypeOK == TypeOK /\ [Next]_vars => TypeOK'
<1> SUFFICES ASSUME TypeOK, [Next]_vars
             PROVE  TypeOK'
  OBVIOUS
<1>0. 0 .. MaxCount \subseteq Nat
  OBVIOUS
<1>1. CASE ResetState \/ BuildHeader
  <2>1. ClearRun /\ buildStartTs' \in {"unset", "header"}
    BY <1>1 DEF ResetState, BuildHeader
  <2>2. IsFiniteSet({})
    BY FS_EmptySet
  <2> QED
    BY <2>1, <2>2 DEF TypeOK, ClearRun
<1>2. CASE PipelineSummary
  <2>1. /\ failures' \subseteq Entry
        /\ IsFiniteSet(failures')
        /\ \A f \in failures' : f.at < appended
        /\ failureCount' \in Nat
    <3>1. CASE summaryElements # {}
      <4>1. failures' \subseteq failures
        BY <1>2, <3>1 DEF PipelineSummary
      <4> QED
        BY <1>2, <3>1, <4>1, FilterType DEF PipelineSummary
    <3>2. CASE summaryElements = {}
      BY <1>2, <3>2 DEF PipelineSummary, TypeOK
    <3> QED
      BY <3>1, <3>2
  <2> QED
    BY <1>2, <2>1 DEF PipelineSummary, TypeOK
<1>3. ASSUME NEW n \in 0 .. MaxCount, SummaryTotal(n)
      PROVE  TypeOK'
  BY <1>0, <1>3 DEF SummaryTotal, TypeOK, jobs, report, clock
<1>4. ASSUME NEW n \in 0 .. MaxCount, SummaryBuildQueue(n)
      PROVE  TypeOK'
  BY <1>0, <1>4 DEF SummaryBuildQueue, TypeOK, jobs, report, clock
<1>5. ASSUME NEW e \in Element, FailureElement(e)
      PROVE  TypeOK'
  <2>1. CASE \E f \in failures : f.element = e
    BY <1>5, <2>1 DEF FailureElement, TypeOK, jobs, clock
  <2>2. CASE ~ \E f \in failures : f.element = e
    <3>1. /\ failures' = failures \union {SummaryItem(e, appended)}
          /\ appended' = appended + 1
      BY <1>5, <2>2 DEF FailureElement
    <3>5. /\ SummaryItem(e, appended) \in Entry
          /\ SummaryItem(e, appended).at = appended
      BY DEF TypeOK, SummaryItem, Entry
    <3>2. IsFiniteSet(failures') /\ Cardinality(failures') \in Nat
      BY <3>1, FS_AddElement, FS_CardinalityType DEF TypeOK
    <3>3. failures' \subseteq Entry /\ \A f \in failures' : f.at < appended'
      <4>1. \A f \in failures : f.at < appended + 1
        BY DEF TypeOK, Entry
      <4> QED
        BY <3>1, <3>5, <4>1 DEF TypeOK
    <3>4. failureCount' \in Nat
      BY <1>5, <2>2, <3>2 DEF FailureElement, TypeOK
    <3> QED
      BY <1>5, <3>1, <3>2, <3>3, <3>4
      DEF FailureElement, TypeOK, jobs, clock
  <2> QED
    BY <2>1, <2>2
<1>6. CASE FailureLogPath
  <2>1. PICK f \in failures :
          failures' = (failures \ {f}) \union {[f EXCEPT !.log = TRUE]}
    BY <1>6 DEF FailureLogPath
  <2>2. IsFiniteSet(failures')
    BY <2>1, ExchangeCardinality DEF TypeOK
  <2>3. /\ [f EXCEPT !.log = TRUE] \in Entry
        /\ [f EXCEPT !.log = TRUE].at = f.at
    BY DEF TypeOK, Entry
  <2>4. failures' \subseteq Entry /\ \A g \in failures' : g.at < appended
    BY <2>1, <2>3 DEF TypeOK
  <2> QED
    BY <1>6, <2>2, <2>4 DEF FailureLogPath, TypeOK, jobs, clock, counters
<1>7. ASSUME NEW h \in Hash, BuildStart(h)
      PROVE  TypeOK'
  BY <1>7 DEF BuildStart, TypeOK, report, counters, clock
<1>8. ASSUME NEW h \in Hash, BuildSuccess(h)
      PROVE  TypeOK'
  BY <1>8 DEF BuildSuccess, TypeOK, report
<1>9. ASSUME NEW h \in Hash, BuildFailure(h)
      PROVE  TypeOK'
  <2>1. FileFailure(h)
    BY <1>9 DEF BuildFailure
  <2> QED
    BY <1>9, <2>1, FileFailureType DEF BuildFailure, TypeOK
<1>10. CASE PullSkipped \/ PullSuccess
  BY <1>10 DEF PullSkipped, PullSuccess, TypeOK, jobs, report, clock
<1>11. CASE DoneCatchingUp
  BY <1>11 DEF DoneCatchingUp, TypeOK, jobs, report, counters
<1>12. CASE UNCHANGED vars
  BY <1>12 DEF vars, TypeOK, jobs, report, counters, clock
<1> QED
  BY <1>1, <1>2, <1>3, <1>4, <1>5, <1>6, <1>7, <1>8, <1>9, <1>10, <1>11,
     <1>12 DEF Next

\* Every state the dashboard reaches has the types its JSON reply relies on.
THEOREM TypeCorrect == Spec => []TypeOK
  BY InitTypeOK, StepTypeOK, PTL DEF Spec

-----------------------------------------------------------------------------
(* The total covers the list                                                *)

LEMMA StepCount ==
    TypeOK /\ FailureCountCoversList /\ [Next]_vars
        => FailureCountCoversList'
<1> SUFFICES ASSUME TypeOK, FailureCountCoversList, [Next]_vars
             PROVE  failureCount' >= Cardinality(failures')
  BY DEF FailureCountCoversList
<1>0. /\ Cardinality(failures) \in Nat /\ failureCount \in Nat
      /\ failureCount >= Cardinality(failures) /\ 0 .. MaxCount \subseteq Nat
  BY FS_CardinalityType DEF TypeOK, FailureCountCoversList
<1>1. CASE ResetState \/ BuildHeader
  BY <1>1, FS_EmptySet DEF ResetState, BuildHeader, ClearRun
<1>2. CASE PipelineSummary
  <2>1. CASE summaryElements # {}
    <3>1. failures' \subseteq failures
      BY <1>2, <2>1 DEF PipelineSummary
    <3>2. Cardinality(failures') \in Nat
      BY <3>1, FilterType
    <3> QED
      BY <1>2, <2>1, <3>2 DEF PipelineSummary
  <2>2. CASE summaryElements = {}
    BY <1>0, <1>2, <2>2 DEF PipelineSummary
  <2> QED
    BY <2>1, <2>2
<1>3. ASSUME NEW n \in 0 .. MaxCount, SummaryTotal(n)
      PROVE  failureCount' >= Cardinality(failures')
  BY <1>0, <1>3 DEF SummaryTotal, report
<1>4. ASSUME NEW n \in 0 .. MaxCount, SummaryBuildQueue(n)
      PROVE  failureCount' >= Cardinality(failures')
  BY <1>0, <1>4 DEF SummaryBuildQueue, report
<1>5. ASSUME NEW e \in Element, FailureElement(e)
      PROVE  failureCount' >= Cardinality(failures')
  <2>1. CASE \E f \in failures : f.element = e
    BY <1>0, <1>5, <2>1 DEF FailureElement
  <2>2. CASE ~ \E f \in failures : f.element = e
    <3>5. failures' = failures \union {SummaryItem(e, appended)}
      BY <1>5, <2>2 DEF FailureElement
    <3>1. IsFiniteSet(failures')
      BY <3>5, FS_AddElement DEF TypeOK
    <3>2. Cardinality(failures') \in Nat
      BY <3>1, FS_CardinalityType
    <3> QED
      BY <1>0, <1>5, <2>2, <3>2 DEF FailureElement
  <2> QED
    BY <2>1, <2>2
<1>6. CASE FailureLogPath
  <2>1. PICK f \in failures :
          failures' = (failures \ {f}) \union {[f EXCEPT !.log = TRUE]}
    BY <1>6 DEF FailureLogPath
  <2>2. /\ Cardinality(failures') \in Nat
        /\ Cardinality(failures') <= Cardinality(failures)
    BY <2>1, ExchangeCardinality DEF TypeOK
  <2>3. failureCount' = failureCount
    BY <1>6 DEF FailureLogPath, counters
  <2> QED
    BY <1>0, <2>2, <2>3
<1>7. ASSUME NEW h \in Hash, BuildStart(h) \/ BuildSuccess(h)
      PROVE  failureCount' >= Cardinality(failures')
  BY <1>0, <1>7 DEF BuildStart, BuildSuccess, report, counters
<1>8. ASSUME NEW h \in Hash, BuildFailure(h)
      PROVE  failureCount' >= Cardinality(failures')
  <2>1. Cardinality(failures') \in Nat
    BY <1>8, FileFailureType DEF BuildFailure
  <2> QED
    BY <1>8, <2>1 DEF BuildFailure
<1>9. CASE PullSkipped \/ PullSuccess \/ DoneCatchingUp
  BY <1>0, <1>9 DEF PullSkipped, PullSuccess, DoneCatchingUp, report, counters
<1>10. CASE UNCHANGED vars
  BY <1>0, <1>10 DEF vars, report, counters
<1> QED
  BY <1>1, <1>2, <1>3, <1>4, <1>5, <1>6, <1>7, <1>8, <1>9, <1>10 DEF Next

\* The failure total is never smaller than the failure list, for any log.
THEOREM CountCoversList == Spec => []FailureCountCoversList
<1>1. Init => FailureCountCoversList
  BY FS_EmptySet DEF Init, FailureCountCoversList
<1> QED
  BY <1>1, StepCount, TypeCorrect, PTL DEF Spec

-----------------------------------------------------------------------------
(* Root causes are never lost                                               *)

LEMMA StepRootCauses ==
    TypeOK /\ RootCausesListed /\ [Next]_vars => RootCausesListed'
<1> SUFFICES ASSUME TypeOK, RootCausesListed, [Next]_vars
             PROVE  \A e \in summaryElements' :
                        \E f \in failures' : f.element = e
  BY DEF RootCausesListed
<1>0. \A e \in summaryElements : \E f \in failures : f.element = e
  BY DEF RootCausesListed
<1>1. CASE ResetState \/ BuildHeader \/ PipelineSummary
  BY <1>1 DEF ResetState, BuildHeader, ClearRun, PipelineSummary
<1>2. ASSUME NEW n \in 0 .. MaxCount, SummaryTotal(n) \/ SummaryBuildQueue(n)
      PROVE  UNCHANGED <<failures, summaryElements>>
  BY <1>2 DEF SummaryTotal, SummaryBuildQueue, report
<1>3. ASSUME NEW e \in Element, FailureElement(e)
      PROVE  \A d \in summaryElements' :
                 \E f \in failures' : f.element = d
  <2>1. summaryElements' = summaryElements \union {e}
    BY <1>3 DEF FailureElement
  <2>2. CASE \E f \in failures : f.element = e
    BY <1>0, <1>3, <2>1, <2>2 DEF FailureElement
  <2>3. CASE ~ \E f \in failures : f.element = e
    <3>1. failures' = failures \union {SummaryItem(e, appended)}
      BY <1>3, <2>3 DEF FailureElement
    <3>2. SummaryItem(e, appended).element = e
      BY DEF SummaryItem
    <3> QED
      BY <1>0, <2>1, <3>1, <3>2
  <2> QED
    BY <2>2, <2>3
<1>4. CASE FailureLogPath
  <2>1. PICK f \in failures :
          failures' = (failures \ {f}) \union {[f EXCEPT !.log = TRUE]}
    BY <1>4 DEF FailureLogPath
  <2>2. [f EXCEPT !.log = TRUE].element = f.element
    BY DEF TypeOK, Entry
  <2> QED
    BY <1>0, <1>4, <2>1, <2>2 DEF FailureLogPath
<1>5. ASSUME NEW h \in Hash, BuildStart(h) \/ BuildSuccess(h)
      PROVE  UNCHANGED <<failures, summaryElements>>
  BY <1>5 DEF BuildStart, BuildSuccess, report
<1>6. ASSUME NEW h \in Hash, BuildFailure(h)
      PROVE  \A d \in summaryElements' :
                 \E f \in failures' : f.element = d
  <2>1. summaryElements' = summaryElements /\ FileFailure(h)
    BY <1>6 DEF BuildFailure
  <2>2. \A f \in failures : \E g \in failures' : g.element = f.element
    <3>1. \A n : FailedItem(h, n).element = ElementOf[h]
      BY DEF FailedItem
    <3>2. CASE failures \subseteq failures'
      BY <3>2
    <3>3. ASSUME NEW f \in Placeholders(h),
                 failures' = (failures \ {f}) \union {FailedItem(h, f.at)}
          PROVE  \A g \in failures : \E k \in failures' : k.element = g.element
      BY <3>1, <3>3 DEF Placeholders
    <3> QED
      BY <2>1, <3>2, <3>3 DEF FileFailure
  <2> QED
    BY <1>0, <2>1, <2>2
<1>7. CASE PullSkipped \/ PullSuccess \/ DoneCatchingUp \/ UNCHANGED vars
  BY <1>0, <1>7 DEF PullSkipped, PullSuccess, DoneCatchingUp, vars, report
<1> QED
  BY <1>0, <1>1, <1>2, <1>3, <1>4, <1>5, <1>6, <1>7 DEF Next

\* No element the Failure Summary named is missing from the failure list when
\* Pipeline Summary filters it.
THEOREM RootCausesKept == Spec => []RootCausesListed
<1>1. Init => RootCausesListed
  BY DEF Init, RootCausesListed
<1> QED
  BY <1>1, StepRootCauses, TypeCorrect, PTL DEF Spec

-----------------------------------------------------------------------------
(* Entries are unique                                                       *)

\* Two entries may stand in one list.
Compatible(f, g) ==
    /\ f.hash = g.hash => f.hash = NoHash
    /\ f.hash = NoHash => f.element # g.element
    /\ f.at # g.at

\* A list of compatible entries may grow by an entry compatible with each.
LEMMA GrowCompatible ==
    ASSUME NEW S, NEW new,
           \A f, g \in S : f # g => Compatible(f, g),
           \A f \in S : Compatible(f, new) /\ Compatible(new, f)
    PROVE  \A f, g \in S \union {new} : f # g => Compatible(f, g)
  OBVIOUS

LEMMA FileFailureUnique ==
    ASSUME TypeOK, OneEntryPerFailure, NEW h \in Hash, FileFailure(h)
    PROVE  \A f, g \in failures' : f # g => Compatible(f, g)
<1>0. \A f, g \in failures : f # g => Compatible(f, g)
  BY DEF OneEntryPerFailure, Compatible
<1>item. /\ \A n : /\ FailedItem(h, n).hash = h
                /\ FailedItem(h, n).element = ElementOf[h]
                /\ FailedItem(h, n).at = n
      /\ h # NoHash
  BY DEF FailedItem
<1>1. CASE UNCHANGED failures
  BY <1>0, <1>1
<1>2. ASSUME \A f \in failures : f.hash # h,
             NEW k \in Placeholders(h),
             failures' = (failures \ {k}) \union {FailedItem(h, k.at)}
      PROVE  \A f, g \in failures' : f # g => Compatible(f, g)
  <2>1. k \in failures /\ k.element = ElementOf[h] /\ k.hash = NoHash
    BY DEF Placeholders
  <2>2. \A f \in failures \ {k} :
           /\ Compatible(f, FailedItem(h, k.at))
           /\ Compatible(FailedItem(h, k.at), f)
    BY <1>0, <1>item, <1>2, <2>1 DEF Compatible
  <2>3. \A f, g \in failures \ {k} : f # g => Compatible(f, g)
    BY <1>0
  <2> QED
    BY <1>2, <2>2, <2>3, GrowCompatible
<1>3. ASSUME \A f \in failures : f.hash # h,
             Placeholders(h) = {},
             failures' = failures \union {FailedItem(h, appended)}
      PROVE  \A f, g \in failures' : f # g => Compatible(f, g)
  <2>1. \A f \in failures : f.at # appended
    BY DEF TypeOK, Entry
  <2>2. \A f \in failures :
           f.hash = NoHash => f.element # ElementOf[h]
    BY <1>3 DEF Placeholders
  <2>3. \A f \in failures :
           /\ Compatible(f, FailedItem(h, appended))
           /\ Compatible(FailedItem(h, appended), f)
    BY <1>item, <1>3, <2>1, <2>2 DEF Compatible
  <2> QED
    BY <1>0, <1>3, <2>3, GrowCompatible
<1> QED
  BY <1>1, <1>2, <1>3 DEF FileFailure

LEMMA StepUnique ==
    TypeOK /\ OneEntryPerFailure /\ [Next]_vars => OneEntryPerFailure'
<1> SUFFICES ASSUME TypeOK, OneEntryPerFailure, [Next]_vars
             PROVE  \A f, g \in failures' : f # g => Compatible(f, g)
  BY DEF OneEntryPerFailure, Compatible
<1>0. \A f, g \in failures : f # g => Compatible(f, g)
  BY DEF OneEntryPerFailure, Compatible
<1>1. CASE ResetState \/ BuildHeader
  BY <1>1 DEF ResetState, BuildHeader, ClearRun
<1>2. CASE PipelineSummary
  <2>1. failures' \subseteq failures
    BY <1>2 DEF PipelineSummary
  <2> QED
    BY <1>0, <2>1
<1>3. ASSUME NEW e \in Element, FailureElement(e)
      PROVE  \A f, g \in failures' : f # g => Compatible(f, g)
  <2>1. CASE \E f \in failures : f.element = e
    BY <1>0, <1>3, <2>1 DEF FailureElement
  <2>2. CASE ~ \E f \in failures : f.element = e
    <3>1. failures' = failures \union {SummaryItem(e, appended)}
      BY <1>3, <2>2 DEF FailureElement
    <3>2. /\ SummaryItem(e, appended).element = e
          /\ SummaryItem(e, appended).hash = NoHash
          /\ SummaryItem(e, appended).at = appended
      BY DEF SummaryItem
    <3>3. \A f \in failures : f.at # appended
      BY DEF TypeOK, Entry
    <3>4. \A f \in failures :
             /\ Compatible(f, SummaryItem(e, appended))
             /\ Compatible(SummaryItem(e, appended), f)
      BY <2>2, <3>2, <3>3 DEF Compatible
    <3> QED
      BY <1>0, <3>1, <3>4, GrowCompatible
  <2> QED
    BY <2>1, <2>2
<1>4. CASE FailureLogPath
  <2>1. PICK k \in failures :
          failures' = (failures \ {k}) \union {[k EXCEPT !.log = TRUE]}
    BY <1>4 DEF FailureLogPath
  <2> DEFINE new == [k EXCEPT !.log = TRUE]
  <2>2. new.hash = k.hash /\ new.element = k.element /\ new.at = k.at
    BY DEF TypeOK, Entry
  <2>3. \A f \in failures \ {k} : Compatible(f, new) /\ Compatible(new, f)
    BY <1>0, <2>2 DEF Compatible
  <2>4. \A f, g \in failures \ {k} : f # g => Compatible(f, g)
    BY <1>0
  <2> HIDE DEF new
  <2>5. \A f, g \in (failures \ {k}) \union {new} : f # g => Compatible(f, g)
    BY <2>3, <2>4, GrowCompatible
  <2> QED
    BY <2>1, <2>5 DEF new
<1>5. ASSUME NEW h \in Hash, BuildFailure(h)
      PROVE  \A f, g \in failures' : f # g => Compatible(f, g)
  BY <1>5, FileFailureUnique DEF BuildFailure
<1>6. ASSUME NEW n \in 0 .. MaxCount, SummaryTotal(n) \/ SummaryBuildQueue(n)
      PROVE  \A f, g \in failures' : f # g => Compatible(f, g)
  BY <1>0, <1>6 DEF SummaryTotal, SummaryBuildQueue, report
<1>7. ASSUME NEW h \in Hash, BuildStart(h) \/ BuildSuccess(h)
      PROVE  \A f, g \in failures' : f # g => Compatible(f, g)
  BY <1>0, <1>7 DEF BuildStart, BuildSuccess, report
<1>8. CASE PullSkipped \/ PullSuccess \/ DoneCatchingUp \/ UNCHANGED vars
  BY <1>0, <1>8 DEF PullSkipped, PullSuccess, DoneCatchingUp, vars, report
<1> QED
  BY <1>1, <1>2, <1>3, <1>4, <1>5, <1>6, <1>7, <1>8 DEF Next

\* A job fails at most once in the list and a placeholder is alone for its
\* element, however the log repeats, retries or reorders its failures.
THEOREM EntriesUnique == Spec => []OneEntryPerFailure
<1>1. Init => OneEntryPerFailure
  BY DEF Init, OneEntryPerFailure
<1> QED
  BY <1>1, StepUnique, TypeCorrect, PTL DEF Spec

-----------------------------------------------------------------------------
(* Hashed entries                                                           *)

LEMMA StepTracked ==
    TypeOK /\ HashedEntriesWereTracked /\ [Next]_vars
        => HashedEntriesWereTracked'
<1> DEFINE Good(f, C) ==
      f.hash # NoHash =>
          /\ f.log
          /\ f.element = ElementOf[f.hash]
          /\ [hash |-> f.hash, status |-> "failure"] \in C
<1> SUFFICES ASSUME TypeOK, HashedEntriesWereTracked, [Next]_vars
             PROVE  \A f \in failures' : Good(f, completed')
  BY DEF HashedEntriesWereTracked
<1>0. \A f \in failures : Good(f, completed)
  BY DEF HashedEntriesWereTracked
<1>1. CASE ResetState \/ BuildHeader
  BY <1>1 DEF ResetState, BuildHeader, ClearRun
<1>2. CASE PipelineSummary
  <2>1. failures' \subseteq failures /\ completed' = completed
    BY <1>2 DEF PipelineSummary
  <2> QED
    BY <1>0, <2>1
<1>3. ASSUME NEW e \in Element, FailureElement(e)
      PROVE  \A f \in failures' : Good(f, completed')
  BY <1>0, <1>3 DEF FailureElement, SummaryItem, jobs
<1>4. CASE FailureLogPath
  <2>1. PICK k \in failures :
          /\ ~ k.log
          /\ failures' = (failures \ {k}) \union {[k EXCEPT !.log = TRUE]}
    BY <1>4 DEF FailureLogPath
  <2>2. k.hash = NoHash
    BY <1>0, <2>1
  <2>3. [k EXCEPT !.log = TRUE].hash = k.hash
    BY DEF TypeOK, Entry
  <2> QED
    BY <1>0, <1>4, <2>1, <2>2, <2>3 DEF FailureLogPath, jobs
<1>5. ASSUME NEW h \in Hash, BuildFailure(h)
      PROVE  \A f \in failures' : Good(f, completed')
  <2>1. /\ completed' = completed \union {[hash |-> h, status |-> "failure"]}
        /\ FileFailure(h)
    BY <1>5 DEF BuildFailure
  <2>2. \A n : Good(FailedItem(h, n), completed')
    BY <2>1 DEF FailedItem
  <2>3. \A f \in failures : Good(f, completed')
    BY <1>0, <2>1
  <2>4. \A f \in failures' : f \in failures \/ \E n : f = FailedItem(h, n)
    BY <2>1 DEF FileFailure
  <2> HIDE DEF Good
  <2> QED
    BY <2>2, <2>3, <2>4
<1>6. ASSUME NEW n \in 0 .. MaxCount, SummaryTotal(n) \/ SummaryBuildQueue(n)
      PROVE  \A f \in failures' : Good(f, completed')
  BY <1>0, <1>6 DEF SummaryTotal, SummaryBuildQueue, report, jobs
<1>7. ASSUME NEW h \in Hash, BuildStart(h) \/ BuildSuccess(h)
      PROVE  \A f \in failures' : Good(f, completed')
  BY <1>0, <1>7 DEF BuildStart, BuildSuccess, report
<1>8. CASE PullSkipped \/ PullSuccess \/ DoneCatchingUp \/ UNCHANGED vars
  BY <1>0, <1>8
  DEF PullSkipped, PullSuccess, DoneCatchingUp, vars, report, jobs
<1> QED
  BY <1>1, <1>2, <1>3, <1>4, <1>5, <1>6, <1>7, <1>8 DEF Next

\* The failure list invents nothing: an entry with a hash is a job the
\* dashboard followed from START to FAILURE, with its own log.
THEOREM HashedAreTracked == Spec => []HashedEntriesWereTracked
<1>1. Init => HashedEntriesWereTracked
  BY DEF Init, HashedEntriesWereTracked
<1> QED
  BY <1>1, StepTracked, TypeCorrect, PTL DEF Spec

-----------------------------------------------------------------------------
(* What reading a log leaves behind                                         *)

\* A reader that adds x on a line of S and drops it on a line of C (a line of
\* both adds) and starts with the set A holds x after the first n lines of q.
After(q, n, S, C, x, A) ==
    \/ \E i \in 1 .. n : q[i] \in S /\ \A j \in i + 1 .. n : q[j] \notin C
    \/ x \in A /\ \A j \in 1 .. n : q[j] \notin C

\* Nothing is read yet.
LEMMA AfterNone ==
    ASSUME NEW q, NEW S, NEW C, NEW x, NEW A
    PROVE  After(q, 0, S, C, x, A) <=> x \in A
  BY DEF After

\* The last line read drops x.
LEMMA AfterDrop ==
    ASSUME NEW q, NEW n \in Nat, n > 0, NEW S, NEW C, NEW x, NEW A,
           q[n] \in C, q[n] \notin S
    PROVE  ~ After(q, n, S, C, x, A)
<1>1. n \in 1 .. n
  OBVIOUS
<1>2. ASSUME NEW i \in 1 .. n, q[i] \in S, \A j \in i + 1 .. n : q[j] \notin C
      PROVE  FALSE
  <2>1. i # n
    BY <1>2
  <2>2. n \in i + 1 .. n
    BY <2>1
  <2> QED
    BY <1>2, <2>2
<1> QED
  BY <1>1, <1>2 DEF After

\* Reading the first line and then the rest is reading the whole.
LEMMA AfterTail ==
    ASSUME NEW T, NEW q \in Seq(T), q # << >>, NEW n \in 0 .. Len(q) - 1,
           NEW S, NEW C, NEW x, NEW A, NEW B,
           x \in B <=> (Head(q) \in S \/ (x \in A /\ Head(q) \notin C))
    PROVE  After(Tail(q), n, S, C, x, B) <=> After(q, n + 1, S, C, x, A)
<1>1. /\ Head(q) = q[1]
      /\ \A i \in 1 .. Len(q) - 1 : Tail(q)[i] = q[i + 1]
  OBVIOUS
<1>2. Len(q) \in Nat /\ n \in Nat
  OBVIOUS
<1>3. \A i \in 1 .. n : Tail(q)[i] = q[i + 1]
  BY <1>1, <1>2
<1>4. ASSUME NEW i \in 0 .. n
      PROVE  (\A j \in i + 1 .. n : Tail(q)[j] \notin C)
                <=> (\A j \in i + 2 .. n + 1 : q[j] \notin C)
  <2>1. ASSUME \A j \in i + 1 .. n : Tail(q)[j] \notin C, NEW j \in i + 2 .. n + 1
        PROVE  q[j] \notin C
    <3>1. j - 1 \in i + 1 .. n /\ j - 1 \in 1 .. n /\ (j - 1) + 1 = j
      OBVIOUS
    <3> QED
      BY <1>3, <2>1, <3>1
  <2>2. ASSUME \A j \in i + 2 .. n + 1 : q[j] \notin C, NEW j \in i + 1 .. n
        PROVE  Tail(q)[j] \notin C
    <3>1. j + 1 \in i + 2 .. n + 1 /\ j \in 1 .. n
      OBVIOUS
    <3> QED
      BY <1>3, <2>2, <3>1
  <2> QED
    BY <2>1, <2>2
<1>5. (\A j \in 1 .. n : Tail(q)[j] \notin C)
         <=> (\A j \in 2 .. n + 1 : q[j] \notin C)
  <2>1. 0 \in 0 .. n /\ 0 + 1 = 1 /\ 0 + 2 = 2
    OBVIOUS
  <2> DEFINE z == 0
  <2>2. z \in 0 .. n /\ z + 1 = 1 /\ z + 2 = 2
    BY <2>1
  <2> HIDE DEF z
  <2>3. (\A j \in z + 1 .. n : Tail(q)[j] \notin C)
           <=> (\A j \in z + 2 .. n + 1 : q[j] \notin C)
    BY <1>4, <2>2
  <2> QED
    BY <2>2, <2>3
<1>6. ASSUME After(Tail(q), n, S, C, x, B)
      PROVE  After(q, n + 1, S, C, x, A)
  <2>1. ASSUME NEW i \in 1 .. n, Tail(q)[i] \in S,
               \A j \in i + 1 .. n : Tail(q)[j] \notin C
        PROVE  After(q, n + 1, S, C, x, A)
    <3>1. i + 1 \in 1 .. n + 1 /\ i \in 0 .. n /\ (i + 1) + 1 = i + 2
      OBVIOUS
    <3>2. q[i + 1] \in S /\ \A j \in (i + 1) + 1 .. n + 1 : q[j] \notin C
      BY <1>3, <1>4, <2>1, <3>1
    <3> QED
      BY <3>1, <3>2 DEF After
  <2>2. ASSUME x \in B, \A j \in 1 .. n : Tail(q)[j] \notin C
        PROVE  After(q, n + 1, S, C, x, A)
    <3>1. \A j \in 2 .. n + 1 : q[j] \notin C
      BY <1>5, <2>2
    <3>2. CASE q[1] \in S
      <4>1. 1 \in 1 .. n + 1 /\ 1 + 1 = 2
        OBVIOUS
      <4> QED
        BY <3>1, <3>2, <4>1 DEF After
    <3>3. CASE x \in A /\ q[1] \notin C
      <4>1. \A j \in 1 .. n + 1 : j = 1 \/ j \in 2 .. n + 1
        OBVIOUS
      <4>2. \A j \in 1 .. n + 1 : q[j] \notin C
        BY <3>1, <3>3, <4>1
      <4> QED
        BY <3>3, <4>2 DEF After
    <3> QED
      BY <1>1, <2>2, <3>2, <3>3
  <2> QED
    BY <1>6, <2>1, <2>2 DEF After
<1>7. ASSUME After(q, n + 1, S, C, x, A)
      PROVE  After(Tail(q), n, S, C, x, B)
  <2>1. ASSUME NEW i \in 1 .. n + 1, q[i] \in S,
               \A j \in i + 1 .. n + 1 : q[j] \notin C
        PROVE  After(Tail(q), n, S, C, x, B)
    <3>1. CASE i = 1
      <4>1. \A j \in 2 .. n + 1 : q[j] \notin C
        BY <2>1, <3>1
      <4> QED
        BY <1>1, <1>5, <2>1, <3>1, <4>1 DEF After
    <3>2. CASE i # 1
      <4>1. /\ i - 1 \in 1 .. n /\ i - 1 \in 0 .. n
            /\ (i - 1) + 1 = i /\ (i - 1) + 2 = i + 1
        BY <3>2
      <4>2. /\ Tail(q)[i - 1] \in S
            /\ \A j \in (i - 1) + 1 .. n : Tail(q)[j] \notin C
        BY <1>3, <1>4, <2>1, <4>1
      <4> QED
        BY <4>1, <4>2 DEF After
    <3> QED
      BY <3>1, <3>2
  <2>2. ASSUME x \in A, \A j \in 1 .. n + 1 : q[j] \notin C
        PROVE  After(Tail(q), n, S, C, x, B)
    <3>1. 1 \in 1 .. n + 1 /\ \A j \in 2 .. n + 1 : j \in 1 .. n + 1
      OBVIOUS
    <3>2. q[1] \notin C /\ \A j \in 2 .. n + 1 : q[j] \notin C
      BY <2>2, <3>1
    <3> QED
      BY <1>1, <1>5, <2>2, <3>2 DEF After
  <2> QED
    BY <1>7, <2>1, <2>2 DEF After
<1> QED
  BY <1>6, <1>7

\* What follows the lines read does not matter.
LEMMA AfterPrefix ==
    ASSUME NEW q, NEW r, NEW n \in Nat, \A i \in 1 .. n : r[i] = q[i],
           NEW S, NEW C, NEW x, NEW A
    PROVE  After(r, n, S, C, x, A) <=> After(q, n, S, C, x, A)
<1>1. \A i \in 1 .. n : \A j \in i + 1 .. n : r[j] = q[j]
  OBVIOUS
<1> QED
  BY <1>1 DEF After

\* One more line is read.
LEMMA AfterOne ==
    ASSUME NEW q, NEW n \in Nat, NEW S, NEW C, NEW x, NEW A
    PROVE  After(q, n + 1, S, C, x, A)
             <=> (q[n + 1] \in S \/ (After(q, n, S, C, x, A) /\ q[n + 1] \notin C))
<1>1. /\ n + 1 \in 1 .. n + 1
      /\ \A j \in (n + 1) + 1 .. n + 1 : FALSE
      /\ \A i \in 1 .. n + 1 : i = n + 1 \/ i \in 1 .. n
      /\ \A i \in 1 .. n : i \in 1 .. n + 1
      /\ \A i \in 1 .. n : n + 1 \in i + 1 .. n + 1
      /\ \A i \in 1 .. n : \A j \in i + 1 .. n : j \in i + 1 .. n + 1
      /\ \A i \in 1 .. n : \A j \in i + 1 .. n + 1 : j = n + 1 \/ j \in i + 1 .. n
  OBVIOUS
<1>2. (\A j \in 1 .. n + 1 : q[j] \notin C)
         <=> ((\A j \in 1 .. n : q[j] \notin C) /\ q[n + 1] \notin C)
  BY <1>1, Zenon
<1>3. ASSUME NEW i \in 1 .. n
      PROVE  (\A j \in i + 1 .. n + 1 : q[j] \notin C)
                <=> ((\A j \in i + 1 .. n : q[j] \notin C) /\ q[n + 1] \notin C)
  BY <1>1, Zenon
<1>4. (\E i \in 1 .. n + 1 : q[i] \in S /\ \A j \in i + 1 .. n + 1 : q[j] \notin C)
        <=> \/ q[n + 1] \in S
            \/ /\ \E i \in 1 .. n : q[i] \in S /\ \A j \in i + 1 .. n : q[j] \notin C
               /\ q[n + 1] \notin C
  <2>1. ASSUME NEW i \in 1 .. n + 1, q[i] \in S,
               \A j \in i + 1 .. n + 1 : q[j] \notin C
        PROVE  \/ q[n + 1] \in S
               \/ /\ \E k \in 1 .. n : q[k] \in S /\ \A j \in k + 1 .. n : q[j] \notin C
                  /\ q[n + 1] \notin C
    <3>1. CASE i = n + 1
      BY <2>1, <3>1
    <3>2. CASE i \in 1 .. n
      BY <1>3, <2>1, <3>2
    <3> QED
      BY <1>1, <3>1, <3>2
  <2>2. ASSUME q[n + 1] \in S
        PROVE  \E i \in 1 .. n + 1 :
                   q[i] \in S /\ \A j \in i + 1 .. n + 1 : q[j] \notin C
    BY <1>1, <2>2, Zenon
  <2>3. ASSUME NEW i \in 1 .. n, q[i] \in S,
               \A j \in i + 1 .. n : q[j] \notin C, q[n + 1] \notin C
        PROVE  \E k \in 1 .. n + 1 :
                   q[k] \in S /\ \A j \in k + 1 .. n + 1 : q[j] \notin C
    BY <1>1, <1>3, <2>3, Zenon
  <2> QED
    BY <2>1, <2>2, <2>3, Zenon
<1> QED
  BY <1>2, <1>4, Zenon DEF After

\* A reader that starts with more holds at least as much.
LEMMA AfterGrows ==
    ASSUME NEW q, NEW n, NEW S, NEW C, NEW x, NEW A, NEW B, x \in A => x \in B,
           After(q, n, S, C, x, A)
    PROVE  After(q, n, S, C, x, B)
  BY DEF After

-----------------------------------------------------------------------------
(* The session and what it has still to say                                 *)

Clears    == {"reset", "header", "summary"}
Filters   == {l \in Line : l.kind \in Clears}
Starts(h) == {l \in Line : l.kind = "START" /\ l.hash = h}
Stops(h)  == {l \in Line : \/ l.kind \in Clears
                           \/ l.kind \in {"SUCCESS", "FAILURE"} /\ l.hash = h}
Names(e)  == {l \in Line : /\ l.kind = "element" /\ l.element = e
                           /\ e \in KdeElement}

\* When all that is unread has been read, h will be shown as building.
WillBeActive(h) == After(unread, Len(unread), Starts(h), Stops(h), h, active)

Files(h)  == {l \in Line : l.kind = "FAILURE" /\ l.hash = h}

\* The jobs that have an entry in the failure list.
Shown == {f.hash : f \in failures}

\* When n more lines have been read, h will have an entry, unless a filter
\* between its failure and there took it away.
WillBeShown(h, n) == After(unread, n, Files(h), Filters, h, Shown)

\* When n more lines have been read, e will be among the elements to keep.
WillBeNamed(e, n) == After(unread, n, Names(e), Filters, e, summaryElements)

FeedTyped ==
    /\ FeedTypeOK
    /\ IsFiniteSet(failed)
    /\ phase # "listing" => toList = {}

\* The log tells which jobs run, but for those cut off at the end of a sub-run,
\* which it goes on showing until Pipeline Summary, or by the session's death.
LogTellsJobs ==
    /\ phase # "building" => running = {}
    /\ phase \notin {"listing", "killed"} =>
         \A h \in Hash : WillBeActive(h) <=> h \in running

\* The log names no failure but those of its own session.
LogTellsFailures ==
    /\ \A i \in DOMAIN unread :
         /\ unread[i].kind = "FAILURE" =>
              unread[i].hash \in failed \union earlier
         /\ unread[i].kind = "element" =>
              unread[i].element \in ElementsOf(failed \union earlier)
    /\ roots \subseteq ElementsOf(failed)

\* A failure that is still to be read is of a job that is shown by then.
LogTellsStarts ==
    \A i \in DOMAIN unread : unread[i].kind = "FAILURE" =>
        After(unread, i - 1, Starts(unread[i].hash), Stops(unread[i].hash),
              unread[i].hash, active)

\* Only queue totals are unread after line i.
QueuesAfter(i) == \A j \in DOMAIN unread : j > i => unread[j].kind = "queue"

\* The last Pipeline Summary is unread at line i and will find the recognised
\* root causes and all failures of its sub-run.
SummaryAhead(i) ==
    /\ unread[i].kind = "summary"
    /\ QueuesAfter(i)
    /\ \A e \in Element : WillBeNamed(e, i - 1) <=> e \in Named
    /\ \A h \in failed : WillBeShown(h, i - 1)

\* What it leaves.
Filtered ==
    /\ Named # {} => {f.element : f \in failures} = Named
    /\ \A h \in failed : h \in Shown <=> Named = {} \/ ElementOf[h] \in Named

\* It has been read.
SummaryRead == QueuesAfter(0) /\ Filtered

LogTellsRoots ==
    /\ phase # "killed" => \A e \in Element :
         WillBeNamed(e, Len(unread))
            <=> phase = "listing" /\ e \in (roots \ toList) \intersect KdeElement
    /\ phase \in {"building", "listing"} =>
         \A h \in failed : WillBeShown(h, Len(unread))
    /\ phase \in {"ending", "done"} =>
         (\E i \in DOMAIN unread : SummaryAhead(i)) \/ SummaryRead

-----------------------------------------------------------------------------
(* What one line does                                                       *)

LEMMA LineFields ==
    ASSUME NEW line \in Line
    PROVE  /\ line.kind \in {"START", "SUCCESS", "FAILURE"} => line.hash \in Hash
           /\ line.kind = "element" => line.element \in Element
           /\ line.kind = "queue" => line.failed \in Nat
  BY DEF Line

\* A line's effect is a step of BuildState, except that the total a queue line
\* gives is not bounded.
LEMMA ApplyIsStep ==
    ASSUME NEW line \in Line, Apply(line)
    PROVE  \/ [Next]_vars
           \/ \E n \in Nat : SummaryBuildQueue(n)
<1>1. CASE line.kind = "reset" \/ line.kind = "header" \/ line.kind = "summary"
           \/ line.kind = "logpath"
  BY <1>1 DEF Apply, Next
<1>2. CASE line.kind \in {"START", "SUCCESS", "FAILURE"}
  BY <1>2, LineFields DEF Apply, Next
<1>3. CASE line.kind = "element"
  BY <1>3, LineFields DEF Apply, Next
<1>4. CASE line.kind = "queue"
  BY <1>4, LineFields DEF Apply
<1> QED
  BY <1>1, <1>2, <1>3, <1>4 DEF Line

LEMMA ApplyTypeOK ==
    ASSUME TypeOK, NEW line \in Line, Apply(line)
    PROVE  TypeOK'
<1>1. ASSUME NEW n \in Nat, SummaryBuildQueue(n)
      PROVE  TypeOK'
  BY <1>1 DEF TypeOK, SummaryBuildQueue, jobs, report, clock
<1> QED
  BY <1>1, ApplyIsStep, StepTypeOK

LEMMA ApplyRootCauses ==
    ASSUME TypeOK, RootCausesListed, NEW line \in Line, Apply(line)
    PROVE  RootCausesListed'
<1>1. ASSUME NEW n \in Nat, SummaryBuildQueue(n)
      PROVE  RootCausesListed'
  BY <1>1 DEF RootCausesListed, SummaryBuildQueue, report
<1> QED
  BY <1>1, ApplyIsStep, StepRootCauses

\* A job is shown after a line if the line starts it, or if it was and the
\* line does not end it.
LEMMA ApplyActive ==
    ASSUME NEW line \in Line, Apply(line), NEW h \in Hash
    PROVE  h \in active' <=>
             (line \in Starts(h) \/ (h \in active /\ line \notin Stops(h)))
<1> USE DEF Starts, Stops, Clears
<1>1. CASE line.kind \in Clears
  BY <1>1 DEF Apply, ResetState, BuildHeader, ClearRun, PipelineSummary
<1>2. CASE line.kind = "queue" \/ line.kind = "element" \/ line.kind = "logpath"
  BY <1>2 DEF Apply, SummaryBuildQueue, FailureElement, FailureLogPath, jobs,
              vars
<1>3. CASE line.kind = "START"
  BY <1>3 DEF Apply, BuildStart
<1>4. CASE line.kind = "SUCCESS"
  BY <1>4 DEF Apply, BuildSuccess
<1>5. CASE line.kind = "FAILURE"
  <2>1. CASE BuildFailure(line.hash)
    BY <1>5, <2>1 DEF BuildFailure
  <2>2. CASE line.hash \notin active /\ UNCHANGED vars
    BY <1>5, <2>2 DEF vars, jobs
  <2> QED
    BY <1>5, <2>1, <2>2 DEF Apply
<1> QED
  BY <1>1, <1>2, <1>3, <1>4, <1>5 DEF Line

LEMMA ApplyNamed ==
    ASSUME NEW line \in Line, Apply(line), NEW e
    PROVE  e \in summaryElements' <=>
             (line \in Names(e) \/ (e \in summaryElements /\ line \notin Filters))
<1> USE DEF Names, Filters, Clears
<1>1. CASE line.kind \in Clears
  BY <1>1 DEF Apply, ResetState, BuildHeader, ClearRun, PipelineSummary
<1>2. CASE line.kind = "queue" \/ line.kind = "logpath"
  BY <1>2 DEF Apply, SummaryBuildQueue, FailureLogPath, report, vars
<1>3. CASE line.kind = "element"
  <2>1. CASE FailureElement(line.element)
    BY <1>3, <2>1 DEF FailureElement
  <2>2. CASE line.element \notin KdeElement /\ UNCHANGED vars
    BY <1>3, <2>2 DEF vars, report
  <2> QED
    BY <1>3, <2>1, <2>2 DEF Apply
<1>4. CASE line.kind \in {"START", "SUCCESS", "FAILURE"}
  BY <1>4 DEF Apply, BuildStart, BuildSuccess, BuildFailure, report, vars
<1> QED
  BY <1>1, <1>2, <1>3, <1>4 DEF Line

\* An entry stays until a reset, a header or a summary, and a failure of a job
\* that is shown as building has one.
LEMMA ApplyShown ==
    ASSUME TypeOK, NEW line \in Line, Apply(line), NEW h \in Hash,
           line \in Files(h) => h \in active,
           line \in Files(h) \/ (h \in Shown /\ line \notin Filters)
    PROVE  h \in Shown'
<1> USE DEF Files, Filters, Clears
<1>0. h # NoHash
  OBVIOUS
<1>1. CASE line.kind = "FAILURE" /\ BuildFailure(line.hash)
  <2>1. FileFailure(line.hash)
    BY <1>1 DEF BuildFailure
  <2>2. \A n : FailedItem(line.hash, n).hash = line.hash
    BY DEF FailedItem
  <2>3. CASE line.hash = h
    BY <2>1, <2>2, <2>3 DEF FileFailure, Shown
  <2>4. CASE line.hash # h
    <3>1. PICK f \in failures : f.hash = h
      BY <1>1, <2>4 DEF Shown
    <3>2. f \notin Placeholders(line.hash)
      BY <1>0, <3>1 DEF Placeholders
    <3>3. f \in failures'
      BY <2>1, <3>1, <3>2 DEF FileFailure
    <3> QED
      BY <3>1, <3>3 DEF Shown
  <2> QED
    BY <2>3, <2>4
<1>2. CASE line.kind = "logpath" /\ FailureLogPath
  <2>1. PICK f \in failures :
          failures' = (failures \ {f}) \union {[f EXCEPT !.log = TRUE]}
    BY <1>2 DEF FailureLogPath
  <2>2. [f EXCEPT !.log = TRUE].hash = f.hash
    BY DEF TypeOK, Entry
  <2>3. PICK g \in failures : g.hash = h
    BY <1>2 DEF Shown
  <2> QED
    BY <2>1, <2>2, <2>3 DEF Shown
<1>3. ASSUME failures \subseteq failures', h \in Shown
      PROVE  h \in Shown'
  BY <1>3 DEF Shown
<1>4. CASE line.kind \in {"START", "SUCCESS", "queue"}
  BY <1>3, <1>4 DEF Apply, BuildStart, BuildSuccess, SummaryBuildQueue, report
<1>5. CASE line.kind = "element"
  <2>1. failures \subseteq failures'
    BY <1>5 DEF Apply, FailureElement, vars, report
  <2> QED
    BY <1>3, <1>5, <2>1
<1>6. CASE line.kind \in {"FAILURE", "logpath"} /\ UNCHANGED vars
  <2>1. failures \subseteq failures'
    BY <1>6 DEF vars, report
  <2>2. CASE line.kind = "logpath"
    BY <1>3, <2>1, <2>2
  <2>3. CASE line.kind = "FAILURE" /\ line.hash \notin active
    BY <1>3, <2>1, <2>3
  <2>4. CASE line.kind = "FAILURE" /\ line.hash \in active
    <3>1. BuildFailure(line.hash)
      BY <2>4 DEF Apply
    <3> QED
      BY <1>1, <2>4, <3>1
  <2> QED
    BY <1>6, <2>2, <2>3, <2>4
<1>7. CASE line.kind \in {"reset", "header", "summary"}
  BY <1>7
<1> QED
  BY <1>1, <1>2, <1>4, <1>5, <1>6, <1>7 DEF Line, Apply

\* Where the elements of the failure list come from.
LEMMA ApplyFailures ==
    ASSUME TypeOK, NEW line \in Line, Apply(line)
    PROVE  /\ line.kind \in {"reset", "header"} => failures' = {}
           /\ line.kind = "queue" => failures' = failures
           /\ line.kind = "summary" =>
                failures' = IF summaryElements = {} THEN failures
                            ELSE {f \in failures : f.element \in summaryElements}
           /\ \A f \in failures' :
                \/ \E g \in failures : f.element = g.element
                \/ line.kind = "FAILURE" /\ f.element = ElementOf[line.hash]
                \/ line.kind = "element" /\ f.element = line.element
<1> DEFINE From(f) == \/ \E g \in failures : f.element = g.element
                      \/ line.kind = "FAILURE" /\ f.element = ElementOf[line.hash]
                      \/ line.kind = "element" /\ f.element = line.element
<1>1. CASE line.kind \in {"reset", "header"}
  BY <1>1 DEF Apply, ResetState, BuildHeader, ClearRun
<1>2. CASE line.kind = "summary"
  BY <1>2 DEF Apply, PipelineSummary
<1>3. CASE line.kind = "queue"
  BY <1>3 DEF Apply, SummaryBuildQueue, report
<1>4. CASE line.kind = "logpath"
  <2>1. CASE FailureLogPath
    <3>1. PICK f \in failures :
            failures' = (failures \ {f}) \union {[f EXCEPT !.log = TRUE]}
      BY <2>1 DEF FailureLogPath
    <3>2. [f EXCEPT !.log = TRUE].element = f.element
      BY DEF TypeOK, Entry
    <3> QED
      BY <1>4, <3>1, <3>2
  <2>2. CASE UNCHANGED vars
    BY <1>4, <2>2 DEF vars, report
  <2> QED
    BY <1>4, <2>1, <2>2 DEF Apply
<1>5. CASE line.kind = "element"
  <2>1. \A n : SummaryItem(line.element, n).element = line.element
    BY DEF SummaryItem
  <2>2. \A f \in failures' : From(f)
    BY <1>5, <2>1 DEF Apply, FailureElement, vars, report
  <2> QED
    BY <1>5, <2>2
<1>6. CASE line.kind \in {"START", "SUCCESS"}
  BY <1>6 DEF Apply, BuildStart, BuildSuccess, report
<1>7. CASE line.kind = "FAILURE"
  <2>1. \A n : FailedItem(line.hash, n).element = ElementOf[line.hash]
    BY DEF FailedItem
  <2>2. CASE FileFailure(line.hash)
    BY <1>7, <2>1, <2>2 DEF FileFailure
  <2>3. CASE UNCHANGED failures
    BY <1>7, <2>3
  <2> QED
    BY <1>7, <2>2, <2>3 DEF Apply, BuildFailure, vars, report
<1> QED
  BY <1>1, <1>2, <1>3, <1>4, <1>5, <1>6, <1>7 DEF Line

-----------------------------------------------------------------------------
(* Types                                                                    *)

\* The variables no step of the session or of the browser touches.
LEMMA SessionLeavesState == Session => UNCHANGED <<vars, lastLive>>
  BY DEF Session, SessionBegin, JobStart, JobSuccess, JobFailure, SubRunEnds,
         ListRoot, WriteSummary, WriteQueue, NextSubRun, SessionKilled

LEMMA ParsedLine ==
    ASSUME unread \in Seq(Line), ParseLine
    PROVE  /\ unread # << >>
           /\ Head(unread) \in Line /\ Head(unread) = unread[1]
           /\ Apply(Head(unread))
           /\ unread' = Tail(unread)
           /\ unread' \in Seq(Line)
           /\ Len(unread) \in Nat \ {0}
           /\ Len(unread') = Len(unread) - 1
           /\ \A i \in 1 .. Len(unread') : unread'[i] = unread[i + 1]
           /\ UNCHANGED <<session, lastLive>>
  BY DEF ParseLine

LEMMA Written ==
    ASSUME unread \in Seq(Line), NEW line \in Line, Write(line)
    PROVE  /\ unread' \in Seq(Line)
           /\ Len(unread') = Len(unread) + 1
           /\ Len(unread) \in Nat /\ Len(unread) < MaxUnread
           /\ unread'[Len(unread) + 1] = line
           /\ \A i \in 1 .. Len(unread) : unread'[i] = unread[i]
  BY DEF Write

\* The two lines of one Failure Summary entry.
LEMMA RootWritten ==
    ASSUME unread \in Seq(Line), NEW e \in Element, ListRoot(e)
    PROVE  /\ unread' \in Seq(Line)
           /\ Len(unread) \in Nat
           /\ Len(unread') = Len(unread) + 2
           /\ Len(unread') <= MaxUnread
           /\ unread'[Len(unread) + 1] = [kind |-> "element", element |-> e]
           /\ unread'[Len(unread) + 2] = [kind |-> "logpath"]
           /\ \A i \in DOMAIN unread :
                i \in DOMAIN unread' /\ unread'[i] = unread[i]
           /\ \A i \in DOMAIN unread' :
                \/ i \in DOMAIN unread
                \/ i = Len(unread) + 1
                \/ i = Len(unread) + 2
<1> DEFINE new == <<[kind |-> "element", element |-> e], [kind |-> "logpath"]>>
<1>1. [kind |-> "element", element |-> e] \in Line /\ [kind |-> "logpath"] \in Line
  BY DEF Line
<1>2. /\ new \in Seq(Line) /\ Len(new) = 2
      /\ new[1] = [kind |-> "element", element |-> e]
      /\ new[2] = [kind |-> "logpath"]
  BY <1>1
<1>3. unread' = unread \o new /\ Len(unread) + 2 <= MaxUnread
  BY DEF ListRoot
<1> HIDE DEF new
<1>4. /\ unread \o new \in Seq(Line)
      /\ Len(unread \o new) = Len(unread) + Len(new)
      /\ \A i \in 1 .. Len(unread) + Len(new) :
           (unread \o new)[i] = IF i <= Len(unread) THEN unread[i]
                                                 ELSE new[i - Len(unread)]
  BY <1>2, ConcatProperties, Zenon
<1>5. /\ Len(unread) \in Nat
      /\ Len(unread) + 1 \in 1 .. Len(unread) + 2
      /\ Len(unread) + 2 \in 1 .. Len(unread) + 2
      /\ (Len(unread) + 1) - Len(unread) = 1
      /\ (Len(unread) + 2) - Len(unread) = 2
      /\ ~ (Len(unread) + 1 <= Len(unread))
      /\ ~ (Len(unread) + 2 <= Len(unread))
      /\ \A i \in 1 .. Len(unread) :
           i \in 1 .. Len(unread) + 2 /\ i <= Len(unread)
  OBVIOUS
<1>6. /\ unread' \in Seq(Line)
      /\ Len(unread') = Len(unread) + 2
      /\ unread'[Len(unread) + 1] = [kind |-> "element", element |-> e]
      /\ unread'[Len(unread) + 2] = [kind |-> "logpath"]
      /\ \A i \in 1 .. Len(unread) : unread'[i] = unread[i]
  BY <1>2, <1>3, <1>4, <1>5
<1>7. DOMAIN unread = 1 .. Len(unread) /\ DOMAIN unread' = 1 .. Len(unread) + 2
  BY <1>6
<1>8. \A i \in 1 .. Len(unread) + 2 :
         \/ i \in 1 .. Len(unread)
         \/ i = Len(unread) + 1
         \/ i = Len(unread) + 2
  BY <1>5
<1> QED
  BY <1>3, <1>5, <1>6, <1>7, <1>8

LEMMA Begun ==
    ASSUME SessionBegin
    PROVE  /\ unread' \in Seq(Line)
           /\ Len(unread') \in {1, 2} /\ Len(unread') \in DOMAIN unread'
           /\ unread'[Len(unread')] = [kind |-> "header"]
           /\ \A i \in DOMAIN unread' : unread'[i].kind \in {"reset", "header"}
<1>1. [kind |-> "header"] \in Line /\ [kind |-> "reset"] \in Line
  BY DEF Line
<1>2. CASE unread' = <<[kind |-> "header"]>>
  BY <1>1, <1>2
<1>3. CASE unread' = <<[kind |-> "reset"], [kind |-> "header"]>>
  BY <1>1, <1>3
<1> QED
  BY <1>2, <1>3 DEF SessionBegin

LEMMA StepTyped == FeedTyped /\ [FeedNext]_feedVars => FeedTyped'
<1> SUFFICES ASSUME FeedTyped, [FeedNext]_feedVars
             PROVE  FeedTyped'
  OBVIOUS
<1> USE FeedBoundsAssumption DEF FeedTyped, FeedTypeOK
<1>0. MaxUnread \in Nat /\ Len(unread) \in Nat
  BY FeedBoundsAssumption
<1>1. CASE Session
  <2>0. TypeOK' /\ lastLive' \in BOOLEAN
    BY <1>1, SessionLeavesState
    DEF TypeOK, vars, jobs, report, counters, clock
  <2>1. CASE SessionBegin
    <3>1. unread' \in Seq(Line) /\ Len(unread') <= MaxUnread
      BY <1>0, <2>1, Begun
    <3>2. IsFiniteSet(failed')
      BY <2>1, FS_EmptySet DEF SessionBegin
    <3> QED
      BY <2>0, <2>1, <3>1, <3>2 DEF SessionBegin
  <2>2. ASSUME NEW h \in Hash, JobStart(h)
        PROVE  FeedTyped'
    <3>1. [kind |-> "START", hash |-> h] \in Line
      BY DEF Line
    <3>2. unread' \in Seq(Line) /\ Len(unread') <= MaxUnread
      BY <1>0, <2>2, <3>1, Written DEF JobStart
    <3> QED
      BY <2>0, <2>2, <3>2 DEF JobStart
  <2>3. ASSUME NEW h \in Hash, JobSuccess(h)
        PROVE  FeedTyped'
    <3>1. [kind |-> "SUCCESS", hash |-> h] \in Line
      BY DEF Line
    <3>2. unread' \in Seq(Line) /\ Len(unread') <= MaxUnread
      BY <1>0, <2>3, <3>1, Written DEF JobSuccess
    <3> QED
      BY <2>0, <2>3, <3>2 DEF JobSuccess
  <2>4. ASSUME NEW h \in Hash, JobFailure(h)
        PROVE  FeedTyped'
    <3>1. [kind |-> "FAILURE", hash |-> h] \in Line
      BY DEF Line
    <3>2. unread' \in Seq(Line) /\ Len(unread') <= MaxUnread
      BY <1>0, <2>4, <3>1, Written DEF JobFailure
    <3>3. IsFiniteSet(failed')
      BY <2>4, FS_AddElement DEF JobFailure
    <3> QED
      BY <2>0, <2>4, <3>2, <3>3 DEF JobFailure
  <2>5. CASE SubRunEnds
    <3>1. ElementsOf(failed) \subseteq Element
      BY ElementOfAssumption DEF ElementsOf
    <3>2. roots' \subseteq Element /\ toList' \subseteq roots'
      BY <2>5, <3>1 DEF SubRunEnds
    <3> QED
      BY <2>0, <2>5, <3>2 DEF SubRunEnds
  <2>6. ASSUME NEW e \in Element, ListRoot(e)
        PROVE  FeedTyped'
    <3>1. unread' \in Seq(Line) /\ Len(unread') <= MaxUnread
      BY <2>6, RootWritten
    <3> QED
      BY <2>0, <2>6, <3>1 DEF ListRoot
  <2>7. CASE WriteSummary
    <3>1. [kind |-> "summary"] \in Line
      BY DEF Line
    <3>2. unread' \in Seq(Line) /\ Len(unread') <= MaxUnread
      BY <1>0, <2>7, <3>1, Written DEF WriteSummary
    <3> QED
      BY <2>0, <2>7, <3>2 DEF WriteSummary
  <2>8. CASE WriteQueue
    <3>1. [kind |-> "queue", failed |-> Cardinality(failed)] \in Line
      BY FS_CardinalityType DEF Line
    <3>2. unread' \in Seq(Line) /\ Len(unread') <= MaxUnread
      BY <1>0, <2>8, <3>1, Written DEF WriteQueue
    <3> QED
      BY <2>0, <2>8, <3>2 DEF WriteQueue
  <2>9. CASE NextSubRun
    <3>1. IsFiniteSet(failed')
      BY <2>9, FS_EmptySet DEF NextSubRun
    <3> QED
      BY <2>0, <2>9, <3>1 DEF NextSubRun
  <2>10. CASE SessionKilled
    BY <2>0, <2>10 DEF SessionKilled
  <2> QED
    BY <1>1, <2>1, <2>2, <2>3, <2>4, <2>5, <2>6, <2>7, <2>8, <2>9, <2>10
       DEF Session
<1>2. CASE ParseLine
  <2>1. TypeOK'
    BY <1>2, ParsedLine, ApplyTypeOK
  <2>2. unread' \in Seq(Line) /\ Len(unread') <= MaxUnread
    BY <1>0, <1>2, ParsedLine
  <2> QED
    BY <1>2, <2>1, <2>2 DEF ParseLine, session
<1>3. CASE EndOfLog
  <2>1. TypeOK'
    BY <1>3, StepTypeOK DEF EndOfLog, Next
  <2> QED
    BY <1>3, <2>1 DEF EndOfLog, session
<1>4. CASE Poll \/ UNCHANGED feedVars
  <2>1. UNCHANGED <<vars, session, unread>>
    BY <1>4 DEF Poll, feedVars
  <2>2. TypeOK'
    BY <2>1 DEF TypeOK, vars, jobs, report, counters, clock
  <2>3. lastLive' \in BOOLEAN
    <3>1. Live \in BOOLEAN
      BY DEF Live
    <3> QED
      BY <1>4, <3>1 DEF Poll, feedVars
  <2> QED
    BY <2>1, <2>2, <2>3 DEF session
<1> QED
  BY <1>1, <1>2, <1>3, <1>4 DEF FeedNext

LEMMA InitTyped == FeedInit => FeedTyped
<1> SUFFICES ASSUME FeedInit
             PROVE  FeedTyped
  OBVIOUS
<1>1. TypeOK
  BY InitTypeOK DEF FeedInit
<1>2. IsFiniteSet(failed)
  BY FS_EmptySet DEF FeedInit
<1>3. /\ 0 \in 0 .. MaxSessions /\ 0 \in 0 .. MaxSubRuns /\ 0 <= MaxUnread
      /\ << >> \in Seq(Line) /\ Len(<< >>) = 0
  BY FeedBoundsAssumption
<1> QED
  BY <1>1, <1>2, <1>3 DEF FeedInit, FeedTyped, FeedTypeOK

LEMMA AlwaysTyped == FeedSpec => []FeedTyped
  BY InitTyped, StepTyped, PTL DEF FeedSpec

\* The state the log drives and the session that writes it keep their types.
THEOREM FeedTypeCorrect == FeedSpec => []FeedTypeOK
<1>1. FeedTyped => FeedTypeOK
  BY DEF FeedTyped
<1> QED
  BY <1>1, AlwaysTyped, PTL

-----------------------------------------------------------------------------
(* The jobs the log tells of                                                *)

LEMMA SameActive ==
    ASSUME UNCHANGED <<unread, active>>, NEW h
    PROVE  WillBeActive(h)' <=> WillBeActive(h)
  BY DEF WillBeActive

LEMMA ParsedActive ==
    ASSUME FeedTyped, ParseLine, NEW h \in Hash
    PROVE  WillBeActive(h)' <=> WillBeActive(h)
<1>1. unread \in Seq(Line)
  BY DEF FeedTyped, FeedTypeOK
<1>2. /\ Len(unread) - 1 \in 0 .. Len(unread) - 1
      /\ (Len(unread) - 1) + 1 = Len(unread)
  BY <1>1, ParsedLine
<1>3. h \in active' <=>
         \/ Head(unread) \in Starts(h)
         \/ h \in active /\ Head(unread) \notin Stops(h)
  BY <1>1, ParsedLine, ApplyActive
<1>4. After(Tail(unread), Len(unread) - 1, Starts(h), Stops(h), h, active')
        <=> After(unread, (Len(unread) - 1) + 1, Starts(h), Stops(h), h, active)
  BY <1>1, <1>2, <1>3, ParsedLine, AfterTail
<1> QED
  BY <1>1, <1>2, <1>4, ParsedLine DEF WillBeActive

LEMMA WrittenActive ==
    ASSUME FeedTyped, NEW line \in Line, Write(line), active' = active, NEW h
    PROVE  WillBeActive(h)' <=>
             (line \in Starts(h) \/ (WillBeActive(h) /\ line \notin Stops(h)))
<1>1. unread \in Seq(Line)
  BY DEF FeedTyped, FeedTypeOK
<1>2. After(unread', Len(unread), Starts(h), Stops(h), h, active)
        <=> WillBeActive(h)
  BY <1>1, Written, AfterPrefix DEF WillBeActive
<1>3. After(unread', Len(unread) + 1, Starts(h), Stops(h), h, active)
        <=> \/ unread'[Len(unread) + 1] \in Starts(h)
            \/ /\ After(unread', Len(unread), Starts(h), Stops(h), h, active)
               /\ unread'[Len(unread) + 1] \notin Stops(h)
  BY <1>1, Written, AfterOne
<1> QED
  BY <1>1, <1>2, <1>3, Written DEF WillBeActive

LEMMA StepTellsJobs ==
    FeedTyped /\ LogTellsJobs /\ [FeedNext]_feedVars => LogTellsJobs'
<1> SUFFICES ASSUME FeedTyped, LogTellsJobs, [FeedNext]_feedVars
             PROVE  LogTellsJobs'
  OBVIOUS
<1>0. /\ phase # "building" => running = {}
      /\ phase \notin {"listing", "killed"} =>
           \A h \in Hash : WillBeActive(h) <=> h \in running
      /\ unread \in Seq(Line)
  BY DEF LogTellsJobs, FeedTyped, FeedTypeOK
<1>1. CASE SessionBegin
  <2>1. /\ [kind |-> "header"] \in Line
        /\ [kind |-> "header"].kind = "header"
    BY DEF Line
  <2>2. \A h : [kind |-> "header"] \in Stops(h) /\ [kind |-> "header"] \notin Starts(h)
    BY <2>1 DEF Stops, Starts, Clears
  <2>3. /\ Len(unread') \in Nat /\ Len(unread') > 0
        /\ unread'[Len(unread')] = [kind |-> "header"]
    BY <1>1, Begun
  <2>4. \A h : ~ After(unread', Len(unread'), Starts(h), Stops(h), h, active')
    BY <2>2, <2>3, AfterDrop
  <2> QED
    BY <1>1, <2>4 DEF LogTellsJobs, WillBeActive, SessionBegin
<1>2. ASSUME NEW k \in Hash, JobStart(k)
      PROVE  LogTellsJobs'
  <2> DEFINE line == [kind |-> "START", hash |-> k]
  <2>1. /\ line \in Line
        /\ \A h : line \in Starts(h) <=> h = k
        /\ \A h : line \notin Stops(h)
    BY DEF Line, Starts, Stops, Clears
  <2>2. Write(line) /\ active' = active /\ phase' = phase
        /\ phase = "building" /\ running' = running \union {k}
    BY <1>2 DEF JobStart, vars, jobs
  <2> HIDE DEF line
  <2>3. \A h \in Hash : WillBeActive(h)' <=> (h = k \/ WillBeActive(h))
    BY <2>1, <2>2, WrittenActive
  <2> QED
    BY <1>0, <2>2, <2>3 DEF LogTellsJobs
<1>3. ASSUME NEW k \in Hash, JobSuccess(k) \/ JobFailure(k)
      PROVE  LogTellsJobs'
  <2>1. PICK line \in {[kind |-> "SUCCESS", hash |-> k],
                       [kind |-> "FAILURE", hash |-> k]} :
          /\ Write(line) /\ active' = active /\ phase' = phase
          /\ phase = "building" /\ running' = running \ {k}
    BY <1>3 DEF JobSuccess, JobFailure, vars, jobs
  <2>2. /\ line \in Line
        /\ \A h : line \in Stops(h) <=> h = k
        /\ \A h : line \notin Starts(h)
    BY DEF Line, Starts, Stops, Clears
  <2>3. \A h \in Hash : WillBeActive(h)' <=> (h # k /\ WillBeActive(h))
    BY <2>1, <2>2, WrittenActive
  <2> QED
    BY <1>0, <2>1, <2>3 DEF LogTellsJobs
<1>4. CASE SubRunEnds
  BY <1>4 DEF SubRunEnds, LogTellsJobs
<1>5. ASSUME NEW e \in Element, ListRoot(e)
      PROVE  LogTellsJobs'
  BY <1>0, <1>5 DEF ListRoot, LogTellsJobs
<1>6. CASE WriteSummary
  <2> DEFINE line == [kind |-> "summary"]
  <2>1. line \in Line /\ \A h : line \in Stops(h) /\ line \notin Starts(h)
    BY DEF Line, Starts, Stops, Clears
  <2>2. /\ Write(line) /\ active' = active
        /\ phase = "listing" /\ running' = running
    BY <1>6 DEF WriteSummary, vars, jobs
  <2> HIDE DEF line
  <2>3. \A h \in Hash : ~ WillBeActive(h)'
    BY <2>1, <2>2, WrittenActive
  <2> QED
    BY <1>0, <2>2, <2>3 DEF LogTellsJobs
<1>7. CASE WriteQueue
  <2> DEFINE line == [kind |-> "queue", failed |-> Cardinality(failed)]
  <2>0. Cardinality(failed) \in Nat
    BY FS_CardinalityType DEF FeedTyped
  <2>1. line \in Line /\ \A h : line \notin Stops(h) /\ line \notin Starts(h)
    BY <2>0 DEF Line, Starts, Stops, Clears
  <2>2. /\ Write(line) /\ active' = active
        /\ phase = "ending" /\ phase' = "done" /\ running' = running
    BY <1>7 DEF WriteQueue, vars, jobs
  <2> HIDE DEF line
  <2>3. \A h \in Hash : WillBeActive(h)' <=> WillBeActive(h)
    BY <2>1, <2>2, WrittenActive
  <2> QED
    BY <1>0, <2>2, <2>3 DEF LogTellsJobs
<1>8. CASE NextSubRun
  <2>1. /\ UNCHANGED <<unread, active, running>>
        /\ phase = "done" /\ phase' = "building"
    BY <1>8 DEF NextSubRun, vars, jobs
  <2> QED
    BY <1>0, <2>1, SameActive DEF LogTellsJobs
<1>9. CASE ParseLine
  <2>1. UNCHANGED <<phase, running>>
    BY <1>9 DEF ParseLine, session
  <2> QED
    BY <1>0, <1>9, <2>1, ParsedActive DEF LogTellsJobs
<1>10. CASE EndOfLog \/ Poll \/ UNCHANGED feedVars
  <2>1. UNCHANGED <<unread, active, running, phase>>
    BY <1>10
    DEF EndOfLog, DoneCatchingUp, Poll, feedVars, session, vars, jobs
  <2> QED
    BY <1>0, <2>1, SameActive DEF LogTellsJobs
<1>11. CASE SessionKilled
  BY <1>11 DEF SessionKilled, LogTellsJobs
<1> QED
  BY <1>1, <1>2, <1>3, <1>4, <1>5, <1>6, <1>7, <1>8, <1>9, <1>10, <1>11
  DEF FeedNext, Session

LEMMA InitTellsJobs == FeedInit => LogTellsJobs
<1> SUFFICES ASSUME FeedInit
             PROVE  LogTellsJobs
  OBVIOUS
<1>1. active = {} /\ running = {} /\ Len(unread) = 0
  BY DEF FeedInit, Init
<1>2. \A h : ~ WillBeActive(h)
  BY <1>1, AfterNone DEF WillBeActive
<1> QED
  BY <1>1, <1>2 DEF LogTellsJobs

LEMMA AlwaysTellsJobs == FeedSpec => []LogTellsJobs
  BY InitTellsJobs, StepTellsJobs, AlwaysTyped, PTL DEF FeedSpec

\* With nothing unread the jobs that will be shown are those shown.
LEMMA ReadActive ==
    ASSUME FeedTyped, LogTellsJobs, unread = << >>,
           phase \notin {"listing", "killed"}
    PROVE  active = running
<1>1. \A h \in Hash : h \in active <=> h \in running
  BY AfterNone DEF LogTellsJobs, WillBeActive
<1> QED
  BY <1>1 DEF FeedTyped, FeedTypeOK, TypeOK

\* Once the log has been read the page shows as building the jobs that build,
\* for any number of jobs, sessions and sub-runs, also after a session that was
\* killed (but while a Failure Summary is being printed, when jobs cut off at the
\* end of the sub-run are still shown, and until the next session begins).
THEOREM ShownIsRunning == FeedSpec => []ActiveIsTruth
<1>1. FeedTyped /\ LogTellsJobs => ActiveIsTruth
  BY ReadActive DEF ActiveIsTruth
<1> QED
  BY <1>1, AlwaysTyped, AlwaysTellsJobs, PTL

\* The page announces completion while a job runs only when the log says more
\* than has been read.
THEOREM AnnouncedWhenOver == FeedSpec => NotifyNeverMidJob
<1>1. FeedTyped /\ LogTellsJobs => (Notify => running = {} \/ unread # << >>)
  <2> SUFFICES ASSUME FeedTyped, LogTellsJobs, Notify, unread = << >>
               PROVE  running = {}
    OBVIOUS
  <2>1. CASE phase \in {"listing", "killed"}
    BY <2>1 DEF LogTellsJobs
  <2>2. CASE phase \notin {"listing", "killed"}
    BY <2>2, ReadActive DEF Notify, Live
  <2> QED
    BY <2>1, <2>2
<1> QED
  BY <1>1, AlwaysTyped, AlwaysTellsJobs, PTL DEF NotifyNeverMidJob

-----------------------------------------------------------------------------
(* The failures the log tells of                                            *)

\* The lines before a new one mean what they meant.
LEMMA OldLines ==
    ASSUME unread \in Seq(Line), NEW i \in DOMAIN unread,
           \A j \in DOMAIN unread : unread'[j] = unread[j],
           NEW S, NEW C, NEW x, NEW A
    PROVE  After(unread', i - 1, S, C, x, A) <=> After(unread, i - 1, S, C, x, A)
<1>1. i - 1 \in Nat /\ \A j \in 1 .. i - 1 : j \in DOMAIN unread
  OBVIOUS
<1>2. \A j \in 1 .. i - 1 : unread'[j] = unread[j]
  BY <1>1
<1> QED
  BY <1>1, <1>2, AfterPrefix

LEMMA WrittenStarts ==
    ASSUME FeedTyped, LogTellsStarts, NEW line \in Line, Write(line),
           active' = active, line.kind = "FAILURE" => WillBeActive(line.hash)
    PROVE  LogTellsStarts'
<1>1. unread \in Seq(Line)
  BY DEF FeedTyped, FeedTypeOK
<1> SUFFICES ASSUME NEW i \in DOMAIN unread', unread'[i].kind = "FAILURE"
             PROVE  After(unread', i - 1, Starts(unread'[i].hash),
                          Stops(unread'[i].hash), unread'[i].hash, active')
  BY DEF LogTellsStarts
<1>2. CASE i \in DOMAIN unread
  <2>1. \A j \in DOMAIN unread : unread'[j] = unread[j]
    BY <1>1, Written
  <2> QED
    BY <1>1, <1>2, <2>1, OldLines DEF LogTellsStarts
<1>3. CASE i = Len(unread) + 1
  <2>1. /\ unread'[i] = line /\ Len(unread) \in Nat /\ i - 1 = Len(unread)
        /\ \A j \in 1 .. Len(unread) : unread'[j] = unread[j]
    BY <1>1, <1>3, Written
  <2> QED
    BY <2>1, AfterPrefix DEF WillBeActive
<1> QED
  BY <1>1, <1>2, <1>3, Written

LEMMA StepTellsStarts ==
    FeedTyped /\ LogTellsJobs /\ LogTellsStarts /\ [FeedNext]_feedVars
        => LogTellsStarts'
<1> SUFFICES ASSUME FeedTyped, LogTellsJobs, LogTellsStarts, [FeedNext]_feedVars
             PROVE  LogTellsStarts'
  OBVIOUS
<1>0. unread \in Seq(Line)
  BY DEF FeedTyped, FeedTypeOK
<1>1. CASE SessionBegin
  <2>1. \A i \in DOMAIN unread' : unread'[i].kind # "FAILURE"
    BY <1>1, Begun
  <2> QED
    BY <2>1 DEF LogTellsStarts
<1>2. ASSUME NEW k \in Hash, JobStart(k) \/ JobSuccess(k)
      PROVE  LogTellsStarts'
  <2>1. PICK line \in [kind : {"START", "SUCCESS"}, hash : Hash] :
          Write(line) /\ active' = active
    BY <1>2 DEF JobStart, JobSuccess, vars, jobs
  <2>2. line \in Line /\ line.kind # "FAILURE"
    BY DEF Line
  <2> QED
    BY <2>1, <2>2, WrittenStarts
<1>3. ASSUME NEW k \in Hash, JobFailure(k)
      PROVE  LogTellsStarts'
  <2> DEFINE line == [kind |-> "FAILURE", hash |-> k]
  <2>1. line \in Line /\ line.hash = k
    BY DEF Line
  <2>2. Write(line) /\ active' = active
    BY <1>3 DEF JobFailure, vars, jobs
  <2>3. WillBeActive(k)
    BY <1>3 DEF JobFailure, LogTellsJobs
  <2> HIDE DEF line
  <2> QED
    BY <2>1, <2>2, <2>3, WrittenStarts
<1>4. CASE WriteSummary \/ WriteQueue
  <2>0. Cardinality(failed) \in Nat
    BY FS_CardinalityType DEF FeedTyped
  <2>1. PICK line \in {[kind |-> "summary"],
                       [kind |-> "queue", failed |-> Cardinality(failed)]} :
          Write(line) /\ active' = active
    BY <1>4 DEF WriteSummary, WriteQueue, vars, jobs
  <2>2. line \in Line /\ line.kind # "FAILURE"
    BY <2>0 DEF Line
  <2> QED
    BY <2>1, <2>2, WrittenStarts
<1>5. ASSUME NEW e \in Element, ListRoot(e)
      PROVE  LogTellsStarts'
  <2>1. active' = active
    BY <1>5 DEF ListRoot, vars, jobs
  <2>2. /\ \A j \in DOMAIN unread : unread'[j] = unread[j]
        /\ \A i \in DOMAIN unread' :
             i \in DOMAIN unread \/ unread'[i].kind # "FAILURE"
    <3>1. /\ [kind |-> "element", element |-> e].kind # "FAILURE"
          /\ [kind |-> "logpath"].kind # "FAILURE"
      OBVIOUS
    <3>2. /\ \A j \in DOMAIN unread : unread'[j] = unread[j]
          /\ \A i \in DOMAIN unread' :
               \/ i \in DOMAIN unread
               \/ unread'[i] = [kind |-> "element", element |-> e]
               \/ unread'[i] = [kind |-> "logpath"]
      BY <1>0, <1>5, RootWritten
    <3> QED
      BY <3>1, <3>2
  <2>3. ASSUME NEW i \in DOMAIN unread', unread'[i].kind = "FAILURE"
        PROVE  After(unread', i - 1, Starts(unread'[i].hash),
                     Stops(unread'[i].hash), unread'[i].hash, active')
    BY <1>0, <2>1, <2>2, <2>3, OldLines DEF LogTellsStarts
  <2> QED
    BY <2>3 DEF LogTellsStarts
<1>6. CASE ParseLine
  <2>1. ASSUME NEW i \in DOMAIN unread', unread'[i].kind = "FAILURE"
        PROVE  After(unread', i - 1, Starts(unread'[i].hash),
                     Stops(unread'[i].hash), unread'[i].hash, active')
    <3> DEFINE h == unread'[i].hash
    <3>1. /\ i + 1 \in DOMAIN unread /\ unread[i + 1] = unread'[i]
          /\ unread'[i] \in Line
          /\ i - 1 \in 0 .. Len(unread) - 1 /\ (i + 1) - 1 = (i - 1) + 1
          /\ unread # << >> /\ unread' = Tail(unread)
          /\ Head(unread) \in Line /\ Apply(Head(unread))
      BY <1>0, <1>6, ParsedLine
    <3>2. h \in Hash
      BY <2>1, <3>1, LineFields
    <3> HIDE DEF h
    <3>3. h \in active' <=> \/ Head(unread) \in Starts(h)
                            \/ h \in active /\ Head(unread) \notin Stops(h)
      BY <3>1, <3>2, ApplyActive
    <3>4. After(unread, (i - 1) + 1, Starts(h), Stops(h), h, active)
      BY <2>1, <3>1 DEF LogTellsStarts, h
    <3>5. After(Tail(unread), i - 1, Starts(h), Stops(h), h, active')
      BY <1>0, <3>1, <3>3, <3>4, AfterTail
    <3> QED
      BY <3>1, <3>5 DEF h
  <2> QED
    BY <2>1 DEF LogTellsStarts
<1>7. CASE SubRunEnds \/ NextSubRun \/ SessionKilled \/ EndOfLog \/ Poll
           \/ UNCHANGED feedVars
  <2>1. UNCHANGED <<unread, active>>
    BY <1>7
    DEF SubRunEnds, NextSubRun, SessionKilled, EndOfLog, DoneCatchingUp, Poll,
        feedVars, vars, jobs
  <2> QED
    BY <2>1 DEF LogTellsStarts
<1> QED
  BY <1>1, <1>2, <1>3, <1>4, <1>5, <1>6, <1>7 DEF FeedNext, Session

LEMMA AlwaysTellsStarts == FeedSpec => []LogTellsStarts
<1>1. FeedInit => LogTellsStarts
  BY DEF FeedInit, LogTellsStarts
<1> QED
  BY <1>1, StepTellsStarts, AlwaysTyped, AlwaysTellsJobs, PTL DEF FeedSpec

\* The line is about an element that failed in the session.
OfSession(line, F) ==
    /\ line.kind = "FAILURE" => line.hash \in F
    /\ line.kind = "element" => line.element \in ElementsOf(F)

LEMMA WrittenFailures ==
    ASSUME FeedTyped, LogTellsFailures, NEW line \in Line, Write(line),
           OfSession(line, (failed \union earlier)'),
           failed \union earlier \subseteq (failed \union earlier)'
    PROVE  \A i \in DOMAIN unread' : OfSession(unread'[i], (failed \union earlier)')
<1>1. unread \in Seq(Line)
  BY DEF FeedTyped, FeedTypeOK
<1>2. \A i \in DOMAIN unread : OfSession(unread[i], failed \union earlier)
  BY DEF LogTellsFailures, OfSession
<1>3. \A i \in DOMAIN unread :
         OfSession(unread[i], (failed \union earlier)')
  BY <1>2 DEF OfSession, ElementsOf
<1>4. \A i \in DOMAIN unread' : i \in DOMAIN unread \/ i = Len(unread) + 1
  BY <1>1, Written
<1>5. /\ \A i \in DOMAIN unread : unread'[i] = unread[i]
      /\ unread'[Len(unread) + 1] = line
  BY <1>1, Written
<1> QED
  BY <1>3, <1>4, <1>5

LEMMA StepTellsFailures ==
    FeedTyped /\ LogTellsFailures /\ [FeedNext]_feedVars => LogTellsFailures'
<1> SUFFICES ASSUME FeedTyped, LogTellsFailures, [FeedNext]_feedVars
             PROVE  LogTellsFailures'
  OBVIOUS
<1> DEFINE Goal == /\ \A i \in DOMAIN unread' :
                        OfSession(unread'[i], (failed \union earlier)')
                   /\ roots' \subseteq ElementsOf(failed')
<1>goal. Goal => LogTellsFailures'
  BY DEF LogTellsFailures, OfSession
<1>0. /\ unread \in Seq(Line)
      /\ \A i \in DOMAIN unread : OfSession(unread[i], failed \union earlier)
      /\ roots \subseteq ElementsOf(failed)
  BY DEF LogTellsFailures, OfSession, FeedTyped, FeedTypeOK
<1>1. CASE SessionBegin
  <2>1. \A i \in DOMAIN unread' : unread'[i].kind \in {"reset", "header"}
    BY <1>1, Begun
  <2> QED
    BY <1>1, <1>goal, <2>1 DEF SessionBegin, OfSession
<1>2. ASSUME NEW k \in Hash, JobStart(k) \/ JobSuccess(k)
      PROVE  LogTellsFailures'
  <2>1. PICK line \in {[kind |-> "START", hash |-> k],
                       [kind |-> "SUCCESS", hash |-> k]} :
          Write(line) /\ UNCHANGED <<failed, earlier, roots>>
    BY <1>2 DEF JobStart, JobSuccess
  <2>2. /\ line \in Line
        /\ OfSession(line, (failed \union earlier)')
    BY DEF Line, OfSession
  <2>3. failed \union earlier \subseteq (failed \union earlier)'
    BY <2>1
  <2> QED
    BY <1>0, <1>goal, <2>1, <2>2, <2>3, WrittenFailures
<1>3. ASSUME NEW k \in Hash, JobFailure(k)
      PROVE  LogTellsFailures'
  <2> DEFINE line == [kind |-> "FAILURE", hash |-> k]
  <2>1. Write(line) /\ failed' = failed \union {k} /\ UNCHANGED <<earlier, roots>>
    BY <1>3 DEF JobFailure
  <2>2. /\ line \in Line
        /\ OfSession(line, (failed \union earlier)')
    BY <2>1 DEF Line, OfSession
  <2>3. /\ failed \union earlier \subseteq (failed \union earlier)'
        /\ roots' \subseteq ElementsOf(failed')
    BY <1>0, <2>1 DEF ElementsOf
  <2> HIDE DEF line
  <2> QED
    BY <1>0, <1>goal, <2>1, <2>2, <2>3, WrittenFailures
<1>4. CASE SubRunEnds
  BY <1>0, <1>4, <1>goal DEF SubRunEnds
<1>5. ASSUME NEW e \in Element, ListRoot(e)
      PROVE  LogTellsFailures'
  <2>1. e \in roots /\ UNCHANGED <<failed, earlier, roots>>
    BY <1>5 DEF ListRoot, FeedTyped, FeedTypeOK
  <2>2. e \in ElementsOf(failed \union earlier)
    BY <1>0, <2>1 DEF ElementsOf
  <2>3. \A i \in DOMAIN unread' :
           \/ i \in DOMAIN unread /\ unread'[i] = unread[i]
           \/ unread'[i] = [kind |-> "element", element |-> e]
           \/ unread'[i] = [kind |-> "logpath"]
    BY <1>0, <1>5, RootWritten
  <2>4. /\ OfSession([kind |-> "element", element |-> e], failed \union earlier)
        /\ OfSession([kind |-> "logpath"], failed \union earlier)
    BY <2>2 DEF OfSession
  <2>5. \A i \in DOMAIN unread' : OfSession(unread'[i], failed \union earlier)
    BY <1>0, <2>3, <2>4
  <2>6. (failed \union earlier)' = failed \union earlier
    BY <2>1
  <2> QED
    BY <1>0, <1>goal, <2>1, <2>5, <2>6
<1>6. CASE WriteSummary
  <2> DEFINE line == [kind |-> "summary"]
  <2>1. Write(line) /\ UNCHANGED <<failed, earlier, roots>>
    BY <1>6 DEF WriteSummary
  <2>2. line \in Line /\ OfSession(line, (failed \union earlier)')
    BY DEF Line, OfSession
  <2> HIDE DEF line
  <2>3. failed \union earlier \subseteq (failed \union earlier)'
    BY <2>1
  <2> QED
    BY <1>0, <1>goal, <2>1, <2>2, <2>3, WrittenFailures
<1>7. CASE WriteQueue
  <2> DEFINE line == [kind |-> "queue", failed |-> Cardinality(failed)]
  <2>0. Cardinality(failed) \in Nat
    BY FS_CardinalityType DEF FeedTyped
  <2>1. Write(line) /\ UNCHANGED <<failed, earlier, roots>>
    BY <1>7 DEF WriteQueue
  <2>2. line \in Line /\ OfSession(line, (failed \union earlier)')
    BY <2>0 DEF Line, OfSession
  <2> HIDE DEF line
  <2>3. failed \union earlier \subseteq (failed \union earlier)'
    BY <2>1
  <2> QED
    BY <1>0, <1>goal, <2>1, <2>2, <2>3, WrittenFailures
<1>8. CASE NextSubRun
  <2>1. /\ UNCHANGED unread /\ roots' = {}
        /\ (failed \union earlier)' = failed \union earlier
    BY <1>8 DEF NextSubRun
  <2> QED
    BY <1>0, <1>goal, <2>1
<1>9. CASE ParseLine
  <2>1. UNCHANGED <<failed, earlier, roots>>
    BY <1>9 DEF ParseLine, session
  <2>2. \A i \in DOMAIN unread' : i + 1 \in DOMAIN unread
                                     /\ unread'[i] = unread[i + 1]
    BY <1>0, <1>9, ParsedLine
  <2> QED
    BY <1>0, <1>goal, <2>1, <2>2
<1>10. CASE EndOfLog \/ Poll \/ UNCHANGED feedVars
  <2>1. UNCHANGED <<unread, failed, earlier, roots>>
    BY <1>10 DEF EndOfLog, Poll, feedVars, session
  <2> QED
    BY <1>0, <1>goal, <2>1
<1>11. CASE SessionKilled
  BY <1>0, <1>11, <1>goal DEF SessionKilled
<1> QED
  BY <1>1, <1>2, <1>3, <1>4, <1>5, <1>6, <1>7, <1>8, <1>9, <1>10, <1>11
  DEF FeedNext, Session

LEMMA StepFailuresReal ==
    FeedTyped /\ LogTellsFailures /\ FailuresAreReal /\ [FeedNext]_feedVars
        => FailuresAreReal'
<1> SUFFICES ASSUME FeedTyped, LogTellsFailures, FailuresAreReal,
                    [FeedNext]_feedVars,
                    \A i \in DOMAIN unread' :
                        unread'[i].kind \notin {"reset", "header"},
                    NEW f \in failures'
             PROVE  f.element \in ElementsOf((failed \union earlier)')
  BY DEF FailuresAreReal
<1>0. unread \in Seq(Line) /\ TypeOK
  BY DEF FeedTyped, FeedTypeOK
\* Writing leaves the list alone and the session's failures only grow.
<1>1. ASSUME UNCHANGED failures,
             failed \union earlier \subseteq (failed \union earlier)',
             \A i \in DOMAIN unread :
                 i \in DOMAIN unread' /\ unread'[i] = unread[i]
      PROVE  f.element \in ElementsOf((failed \union earlier)')
  BY <1>1 DEF FailuresAreReal, ElementsOf
<1>2. CASE SessionBegin
  <2>1. /\ Len(unread') \in DOMAIN unread'
        /\ unread'[Len(unread')].kind = "header"
    BY <1>2, Begun
  <2> QED
    BY <2>1
<1>3. ASSUME NEW line \in Line, Write(line), UNCHANGED vars,
             failed \union earlier \subseteq (failed \union earlier)'
      PROVE  f.element \in ElementsOf((failed \union earlier)')
  <2>1. \A i \in DOMAIN unread :
           i \in DOMAIN unread' /\ unread'[i] = unread[i]
    BY <1>0, <1>3, Written
  <2>2. UNCHANGED failures
    BY <1>3 DEF vars, report
  <2> QED
    BY <1>1, <1>3, <2>1, <2>2
<1>4. ASSUME NEW k \in Hash, JobStart(k) \/ JobSuccess(k) \/ JobFailure(k)
      PROVE  f.element \in ElementsOf((failed \union earlier)')
  <2>1. \A kind \in {"START", "SUCCESS", "FAILURE"} :
           [kind |-> kind, hash |-> k] \in Line
    BY DEF Line
  <2> QED
    BY <1>3, <1>4, <2>1 DEF JobStart, JobSuccess, JobFailure
<1>5. CASE WriteSummary \/ WriteQueue
  <2>0. Cardinality(failed) \in Nat
    BY FS_CardinalityType DEF FeedTyped
  <2>1. /\ [kind |-> "summary"] \in Line
        /\ [kind |-> "queue", failed |-> Cardinality(failed)] \in Line
    BY <2>0 DEF Line
  <2> QED
    BY <1>3, <1>5, <2>1 DEF WriteSummary, WriteQueue
<1>6. ASSUME NEW e \in Element, ListRoot(e)
      PROVE  f.element \in ElementsOf((failed \union earlier)')
  <2>1. \A i \in DOMAIN unread :
           i \in DOMAIN unread' /\ unread'[i] = unread[i]
    BY <1>0, <1>6, RootWritten
  <2> QED
    BY <1>1, <1>6, <2>1 DEF ListRoot, vars, report
<1>7. CASE SubRunEnds \/ NextSubRun \/ SessionKilled
  BY <1>1, <1>7 DEF SubRunEnds, NextSubRun, SessionKilled, vars, report
<1>8. CASE EndOfLog \/ Poll \/ UNCHANGED feedVars
  BY <1>1, <1>8
  DEF EndOfLog, DoneCatchingUp, Poll, feedVars, session, vars, report
<1>9. CASE ParseLine
  <2> DEFINE line == Head(unread)
  <2>1. /\ line \in Line /\ line = unread[1] /\ 1 \in DOMAIN unread
        /\ Apply(line)
        /\ UNCHANGED <<failed, earlier>>
        /\ \A i \in DOMAIN unread :
             i = 1 \/ (i - 1 \in DOMAIN unread' /\ unread'[i - 1] = unread[i])
    BY <1>0, <1>9, ParsedLine DEF session
  <2> HIDE DEF line
  <2>2. \A i \in DOMAIN unread :
           i = 1 \/ unread[i].kind \notin {"reset", "header"}
    BY <2>1
  <2>3. CASE line.kind \in {"reset", "header"}
    BY <1>0, <2>1, <2>3, ApplyFailures
  <2>4. CASE line.kind \notin {"reset", "header"}
    <3>1. \A g \in failures : g.element \in ElementsOf(failed \union earlier)
      BY <2>1, <2>2, <2>4 DEF FailuresAreReal
    <3>2. \/ \E g \in failures : f.element = g.element
          \/ line.kind = "FAILURE" /\ f.element = ElementOf[line.hash]
          \/ line.kind = "element" /\ f.element = line.element
      BY <1>0, <2>1, ApplyFailures
    <3>3. OfSession(line, failed \union earlier)
      BY <2>1 DEF LogTellsFailures, OfSession
    <3> QED
      BY <2>1, <3>1, <3>2, <3>3 DEF OfSession, ElementsOf
  <2> QED
    BY <2>3, <2>4
<1> QED
  BY <1>2, <1>4, <1>5, <1>6, <1>7, <1>8, <1>9 DEF FeedNext, Session

LEMMA AlwaysTellsFailures == FeedSpec => [](LogTellsFailures /\ FailuresAreReal)
<1>1. FeedInit => LogTellsFailures /\ FailuresAreReal
  BY DEF FeedInit, Init, LogTellsFailures, FailuresAreReal
<1> QED
  BY <1>1, StepTellsFailures, StepFailuresReal, AlwaysTyped, PTL DEF FeedSpec

\* The failure list never shows an element that did not fail in the session
\* whose log is read, whatever the run before left unread.
THEOREM ShownFailed == FeedSpec => []FailuresAreReal
  BY AlwaysTellsFailures, PTL

-----------------------------------------------------------------------------
(* A session's log is a log                                                 *)

\* Any line that the parser may meet, a queue total of any size included
\* (Next has those that TLC enumerates).
AnyLine == Next \/ \E n \in Nat : SummaryBuildQueue(n)

LEMMA StepIsALine == FeedTyped /\ [FeedNext]_feedVars => [AnyLine]_vars
<1> SUFFICES ASSUME FeedTyped, [FeedNext]_feedVars
             PROVE  [AnyLine]_vars
  OBVIOUS
<1>1. CASE Session
  BY <1>1, SessionLeavesState
<1>2. CASE ParseLine
  <2>1. Head(unread) \in Line /\ Apply(Head(unread))
    BY <1>2, ParsedLine DEF FeedTyped, FeedTypeOK
  <2> QED
    BY <2>1, ApplyIsStep DEF AnyLine
<1>3. CASE EndOfLog
  BY <1>3 DEF EndOfLog, AnyLine, Next
<1>4. CASE Poll \/ UNCHANGED feedVars
  BY <1>4 DEF Poll, feedVars
<1> QED
  BY <1>1, <1>2, <1>3, <1>4 DEF FeedNext

\* What the parser makes of a session is a behaviour of BuildState: the order in
\* which a session writes, and how far the tailer lags, add nothing to what lines in
\* any order can do.
THEOREM SessionIsALog == FeedSpec => Init /\ [][AnyLine]_vars
<1>1. FeedInit => Init
  BY DEF FeedInit
<1> QED
  BY <1>1, StepIsALine, AlwaysTyped, PTL DEF FeedSpec

Bookkeeping ==
    /\ FailureCountCoversList
    /\ OneEntryPerFailure
    /\ HashedEntriesWereTracked

LEMMA LineKeepsBookkeeping ==
    TypeOK /\ Bookkeeping /\ [AnyLine]_vars => TypeOK' /\ Bookkeeping'
<1> SUFFICES ASSUME TypeOK, Bookkeeping, [AnyLine]_vars
             PROVE  TypeOK' /\ Bookkeeping'
  OBVIOUS
<1>1. CASE [Next]_vars
  BY <1>1, StepTypeOK, StepCount, StepUnique, StepTracked
  DEF Bookkeeping
<1>2. ASSUME NEW n \in Nat, SummaryBuildQueue(n)
      PROVE  TypeOK' /\ Bookkeeping'
  <2>1. UNCHANGED <<jobs, report, clock, pulled, successCount, cachedCount,
                    totalElements>>
    BY <1>2 DEF SummaryBuildQueue
  <2>2. TypeOK'
    BY <1>2, <2>1 DEF TypeOK, SummaryBuildQueue, jobs, report, clock
  <2>3. FailureCountCoversList'
    <3>1. /\ Cardinality(failures) \in Nat
          /\ failureCount >= Cardinality(failures)
          /\ failures' = failures
      BY <2>1, FS_CardinalityType
      DEF TypeOK, Bookkeeping, FailureCountCoversList, report
    <3>2. failureCount \in Nat /\ failureCount' \in {failureCount, n}
      BY <1>2 DEF TypeOK, SummaryBuildQueue
    <3>3. failureCount' >= Cardinality(failures)
      BY <1>2, <3>1, <3>2 DEF SummaryBuildQueue
    <3> QED
      BY <3>1, <3>3 DEF FailureCountCoversList
  <2>4. (OneEntryPerFailure /\ HashedEntriesWereTracked)'
    BY <2>1
    DEF Bookkeeping, OneEntryPerFailure, HashedEntriesWereTracked, jobs, report
  <2> QED
    BY <2>2, <2>3, <2>4 DEF Bookkeeping
<1> QED
  BY <1>1, <1>2 DEF AnyLine

\* So the bookkeeping of failures is right for every session, whatever totals its
\* queue lines give.
THEOREM SessionKeepsBookkeeping == FeedSpec => []Bookkeeping
<1>1. Init => TypeOK /\ Bookkeeping
  BY InitTypeOK, FS_EmptySet
  DEF Init, Bookkeeping, FailureCountCoversList, OneEntryPerFailure,
      HashedEntriesWereTracked
<1>2. Init /\ [][AnyLine]_vars => []Bookkeeping
  BY <1>1, LineKeepsBookkeeping, PTL
<1> QED
  BY <1>2, SessionIsALog

-----------------------------------------------------------------------------
(* The root causes the log tells of                                         *)

LEMMA ParsedNamed ==
    ASSUME FeedTyped, ParseLine, NEW e, NEW n \in 0 .. Len(unread) - 1
    PROVE  After(unread', n, Names(e), Filters, e, summaryElements')
             <=> WillBeNamed(e, n + 1)
<1>1. unread \in Seq(Line)
  BY DEF FeedTyped, FeedTypeOK
<1>2. e \in summaryElements' <=>
         \/ Head(unread) \in Names(e)
         \/ e \in summaryElements /\ Head(unread) \notin Filters
  BY <1>1, ParsedLine, ApplyNamed
<1>3. After(Tail(unread), n, Names(e), Filters, e, summaryElements')
        <=> After(unread, n + 1, Names(e), Filters, e, summaryElements)
  BY <1>1, <1>2, ParsedLine, AfterTail
<1> QED
  BY <1>1, <1>3, ParsedLine DEF WillBeNamed

LEMMA WrittenNamed ==
    ASSUME FeedTyped, NEW line \in Line, Write(line),
           summaryElements' = summaryElements, NEW e
    PROVE  /\ \A n \in 0 .. Len(unread) :
                After(unread', n, Names(e), Filters, e, summaryElements')
                  <=> WillBeNamed(e, n)
           /\ After(unread', Len(unread'), Names(e), Filters, e, summaryElements')
                <=> \/ line \in Names(e)
                    \/ WillBeNamed(e, Len(unread)) /\ line \notin Filters
<1>1. unread \in Seq(Line)
  BY DEF FeedTyped, FeedTypeOK
<1>2. ASSUME NEW n \in 0 .. Len(unread)
      PROVE  After(unread', n, Names(e), Filters, e, summaryElements')
               <=> WillBeNamed(e, n)
  <2>1. n \in Nat /\ \A i \in 1 .. n : unread'[i] = unread[i]
    BY <1>1, Written
  <2> QED
    BY <2>1, AfterPrefix DEF WillBeNamed
<1>3. After(unread', Len(unread) + 1, Names(e), Filters, e, summaryElements')
        <=> \/ unread'[Len(unread) + 1] \in Names(e)
            \/ /\ After(unread', Len(unread), Names(e), Filters, e, summaryElements')
               /\ unread'[Len(unread) + 1] \notin Filters
  BY <1>1, Written, AfterOne
<1>4. Len(unread) \in 0 .. Len(unread)
  BY <1>1
<1> QED
  BY <1>1, <1>2, <1>3, <1>4, Written

LEMMA RootNamed ==
    ASSUME FeedTyped, NEW d \in Element, ListRoot(d), NEW e
    PROVE  After(unread', Len(unread'), Names(e), Filters, e, summaryElements')
             <=> (e = d /\ d \in KdeElement) \/ WillBeNamed(e, Len(unread))
<1>1. unread \in Seq(Line) /\ summaryElements' = summaryElements
  BY DEF FeedTyped, FeedTypeOK, ListRoot, vars, report
<1> DEFINE n == Len(unread)
<1>2. /\ n \in Nat /\ Len(unread') = (n + 1) + 1
      /\ unread'[n + 1] = [kind |-> "element", element |-> d]
      /\ unread'[(n + 1) + 1] = [kind |-> "logpath"]
      /\ \A i \in 1 .. n : unread'[i] = unread[i]
  BY <1>1, RootWritten
<1>3. /\ [kind |-> "element", element |-> d] \in Names(e)
           <=> e = d /\ d \in KdeElement
      /\ [kind |-> "element", element |-> d] \notin Filters
      /\ [kind |-> "logpath"] \notin Names(e) /\ [kind |-> "logpath"] \notin Filters
  BY DEF Names, Filters, Clears, Line
<1>4. After(unread', n, Names(e), Filters, e, summaryElements')
        <=> WillBeNamed(e, n)
  BY <1>1, <1>2, AfterPrefix DEF WillBeNamed
<1> HIDE DEF n
<1>5. After(unread', n + 1, Names(e), Filters, e, summaryElements')
        <=> \/ unread'[n + 1] \in Names(e)
            \/ /\ After(unread', n, Names(e), Filters, e, summaryElements')
               /\ unread'[n + 1] \notin Filters
  BY <1>2, AfterOne
<1>6. n + 1 \in Nat
  BY <1>2
<1>7. After(unread', (n + 1) + 1, Names(e), Filters, e, summaryElements')
        <=> \/ unread'[(n + 1) + 1] \in Names(e)
            \/ /\ After(unread', n + 1, Names(e), Filters, e, summaryElements')
               /\ unread'[(n + 1) + 1] \notin Filters
  BY <1>6, AfterOne
<1> QED
  BY <1>2, <1>3, <1>4, <1>5, <1>7 DEF n

\* Reading keeps what was promised of the entries.
LEMMA ParsedShown ==
    ASSUME FeedTyped, LogTellsStarts, ParseLine, NEW h \in Hash,
           NEW n \in 0 .. Len(unread) - 1, WillBeShown(h, n + 1)
    PROVE  After(unread', n, Files(h), Filters, h, Shown')
<1>1. unread \in Seq(Line) /\ TypeOK
  BY DEF FeedTyped, FeedTypeOK
<1>2. /\ unread # << >> /\ unread' = Tail(unread)
      /\ Head(unread) \in Line /\ Apply(Head(unread))
      /\ Head(unread) = unread[1] /\ 1 \in DOMAIN unread
  BY <1>1, ParsedLine
<1> DEFINE kept == {x \in {h} : \/ Head(unread) \in Files(h)
                                \/ h \in Shown /\ Head(unread) \notin Filters}
<1>3. h \in kept <=> \/ Head(unread) \in Files(h)
                     \/ h \in Shown /\ Head(unread) \notin Filters
  OBVIOUS
<1>4. Head(unread) \in Files(h) => h \in active
  <2> SUFFICES ASSUME Head(unread) \in Files(h) PROVE h \in active
    OBVIOUS
  <2>1. unread[1].kind = "FAILURE" /\ unread[1].hash = h
    BY <1>2 DEF Files
  <2>2. After(unread, 1 - 1, Starts(h), Stops(h), h, active)
    BY <1>2, <2>1 DEF LogTellsStarts
  <2>3. 1 - 1 = 0
    OBVIOUS
  <2> QED
    BY <2>2, <2>3, AfterNone
<1>5. h \in kept => h \in Shown'
  BY <1>1, <1>2, <1>3, <1>4, ApplyShown
<1> HIDE DEF kept
<1>6. After(Tail(unread), n, Files(h), Filters, h, kept)
  BY <1>1, <1>2, <1>3, AfterTail DEF WillBeShown
<1> QED
  BY <1>2, <1>5, <1>6, AfterGrows

LEMMA WrittenShown ==
    ASSUME FeedTyped, NEW line \in Line, Write(line), UNCHANGED failures, NEW h
    PROVE  /\ \A n \in 0 .. Len(unread) : WillBeShown(h, n) =>
                After(unread', n, Files(h), Filters, h, Shown')
           /\ line \in Files(h) \/ (WillBeShown(h, Len(unread)) /\ line \notin Filters)
                => After(unread', Len(unread'), Files(h), Filters, h, Shown')
<1>1. unread \in Seq(Line) /\ Shown' = Shown
  BY DEF FeedTyped, FeedTypeOK, Shown
<1>2. ASSUME NEW n \in 0 .. Len(unread)
      PROVE  After(unread', n, Files(h), Filters, h, Shown) <=> WillBeShown(h, n)
  <2>1. n \in Nat /\ \A i \in 1 .. n : unread'[i] = unread[i]
    BY <1>1, Written
  <2> QED
    BY <2>1, AfterPrefix DEF WillBeShown
<1>3. After(unread', Len(unread) + 1, Files(h), Filters, h, Shown)
        <=> \/ unread'[Len(unread) + 1] \in Files(h)
            \/ /\ After(unread', Len(unread), Files(h), Filters, h, Shown)
               /\ unread'[Len(unread) + 1] \notin Filters
  BY <1>1, Written, AfterOne
<1>4. Len(unread) \in 0 .. Len(unread)
  BY <1>1
<1> QED
  BY <1>1, <1>2, <1>3, <1>4, Written

LEMMA RootShown ==
    ASSUME FeedTyped, NEW d \in Element, ListRoot(d), NEW h,
           WillBeShown(h, Len(unread))
    PROVE  After(unread', Len(unread'), Files(h), Filters, h, Shown')
<1>1. unread \in Seq(Line) /\ Shown' = Shown
  BY DEF FeedTyped, FeedTypeOK, ListRoot, vars, report, Shown
<1> DEFINE n == Len(unread)
<1>2. /\ n \in Nat /\ n + 1 \in Nat /\ Len(unread') = (n + 1) + 1
      /\ unread'[n + 1] = [kind |-> "element", element |-> d]
      /\ unread'[(n + 1) + 1] = [kind |-> "logpath"]
      /\ \A i \in 1 .. n : unread'[i] = unread[i]
  BY <1>1, RootWritten
<1>3. /\ [kind |-> "element", element |-> d] \notin Filters
      /\ [kind |-> "logpath"] \notin Filters
  BY DEF Filters, Clears
<1>4. After(unread', n, Files(h), Filters, h, Shown)
  BY <1>2, AfterPrefix DEF WillBeShown
<1> HIDE DEF n
<1>5. After(unread', n + 1, Files(h), Filters, h, Shown)
  BY <1>2, <1>3, <1>4, AfterOne
<1>6. After(unread', (n + 1) + 1, Files(h), Filters, h, Shown)
  BY <1>2, <1>3, <1>5, AfterOne
<1> QED
  BY <1>1, <1>2, <1>6

\* Pipeline Summary leaves the recognised root causes and their jobs in the list.
LEMMA SummaryFilters ==
    ASSUME FeedTyped, RootCausesListed, HashedEntriesWereTracked,
           NEW line \in Line, line.kind = "summary", Apply(line),
           \A e \in Element : e \in summaryElements <=> e \in Named,
           \A h \in failed : h \in Shown,
           UNCHANGED <<roots, failed>>
    PROVE  Filtered'
<1>1. /\ TypeOK /\ summaryElements \subseteq Element /\ failed \subseteq Hash
      /\ Named \subseteq Element /\ Named' = Named
  BY DEF FeedTyped, FeedTypeOK, TypeOK, Named
<1>2. summaryElements = Named
  BY <1>1
<1>3. failures' = IF Named = {} THEN failures
                  ELSE {f \in failures : f.element \in Named}
  BY <1>1, <1>2, ApplyFailures
<1>4. \A e \in Named : \E f \in failures : f.element = e
  BY <1>2 DEF RootCausesListed
<1>5. Named # {} => {f.element : f \in failures'} = Named
  BY <1>3, <1>4
<1>6. ASSUME NEW h \in failed
      PROVE  h \in Shown' <=> Named = {} \/ ElementOf[h] \in Named
  <2>1. PICK f \in failures : f.hash = h
    BY <1>6 DEF Shown
  <2>2. h # NoHash
    BY <1>1
  <2>3. \A g \in failures : g.hash = h => g.element = ElementOf[h]
    BY <2>2 DEF HashedEntriesWereTracked
  <2>4. CASE Named = {}
    BY <1>3, <2>1, <2>4 DEF Shown
  <2>5. CASE Named # {}
    BY <1>3, <2>1, <2>3, <2>5 DEF Shown
  <2> QED
    BY <2>4, <2>5
<1> QED
  BY <1>1, <1>5, <1>6 DEF Filtered

LEMMA ParsedRoots ==
    ASSUME FeedTyped, RootCausesListed, HashedEntriesWereTracked, LogTellsStarts,
           LogTellsRoots, ParseLine, phase \in {"ending", "done"}
    PROVE  (\E i \in DOMAIN unread' : SummaryAhead(i)') \/ SummaryRead'
<1> DEFINE line == Head(unread)
<1>1. /\ unread \in Seq(Line) /\ unread' \in Seq(Line)
      /\ Len(unread) \in Nat \ {0} /\ Len(unread') = Len(unread) - 1
      /\ line \in Line /\ line = unread[1] /\ Apply(line)
      /\ UNCHANGED <<failed, roots>>
      /\ \A i \in 1 .. Len(unread') : unread'[i] = unread[i + 1]
  BY ParsedLine DEF session, FeedTyped, FeedTypeOK
<1>2. TypeOK /\ failed \subseteq Hash /\ Named' = Named
  BY <1>1 DEF FeedTyped, FeedTypeOK, Named
<1>3. ASSUME NEW i \in Nat, QueuesAfter(i + 1)
      PROVE  QueuesAfter(i)'
  <2> SUFFICES ASSUME NEW j \in DOMAIN unread', j > i
               PROVE  unread'[j].kind = "queue"
    BY DEF QueuesAfter
  <2>1. j + 1 \in DOMAIN unread /\ j + 1 > i + 1 /\ unread'[j] = unread[j + 1]
    BY <1>1
  <2> QED
    BY <1>3, <2>1 DEF QueuesAfter
<1>first. QueuesAfter(1) => QueuesAfter(0)'
  <2> DEFINE z == 0
  <2>1. z \in Nat /\ z + 1 = 1 /\ z = 0
    OBVIOUS
  <2> HIDE DEF z
  <2>2. QueuesAfter(z + 1) => QueuesAfter(z)'
    BY <1>3, <2>1
  <2> QED
    BY <2>1, <2>2 DEF QueuesAfter
<1> HIDE DEF line
<1>4. CASE SummaryAhead(1)
  <2>1. line.kind = "summary"
    BY <1>1, <1>4 DEF SummaryAhead
  <2>2. QueuesAfter(0)'
    BY <1>4, <1>first DEF SummaryAhead
  <2>3. 1 - 1 = 0
    OBVIOUS
  <2>4. \A e \in Element : e \in summaryElements <=> e \in Named
    BY <1>4, <2>3, AfterNone DEF SummaryAhead, WillBeNamed
  <2>5. \A h \in failed : h \in Shown
    BY <1>4, <2>3, AfterNone DEF SummaryAhead, WillBeShown
  <2>6. Filtered'
    BY <1>1, <2>1, <2>4, <2>5, SummaryFilters
  <2> QED
    BY <2>2, <2>6 DEF SummaryRead
<1>5. ASSUME NEW i \in DOMAIN unread, i # 1, SummaryAhead(i)
      PROVE  \E k \in DOMAIN unread' : SummaryAhead(k)'
  <2> DEFINE k == i - 1
  <2>0. /\ DOMAIN unread = 1 .. Len(unread)
        /\ DOMAIN unread' = 1 .. Len(unread')
    BY <1>1
  <2>1. /\ k \in DOMAIN unread' /\ k \in Nat /\ i = k + 1
        /\ unread'[k] = unread[i]
        /\ k - 1 \in 0 .. Len(unread) - 1
        /\ (k - 1) + 1 = i - 1
    <3>1. i \in 2 .. Len(unread)
      BY <1>1, <1>5, <2>0
    <3>2. /\ k \in 1 .. Len(unread') /\ k \in Nat /\ i = k + 1
          /\ k - 1 \in 0 .. Len(unread) - 1
          /\ (k - 1) + 1 = i - 1
      BY <1>1, <3>1
    <3> QED
      BY <1>1, <2>0, <3>2
  <2>2. unread'[k].kind = "summary" /\ QueuesAfter(k + 1)
    BY <1>5, <2>1 DEF SummaryAhead
  <2>3. QueuesAfter(k)'
    BY <1>3, <2>1, <2>2
  <2>4. \A e \in Element :
           After(unread', k - 1, Names(e), Filters, e, summaryElements')
             <=> WillBeNamed(e, i - 1)
    BY <2>1, ParsedNamed
  <2>5. \A e \in Element : WillBeNamed(e, i - 1) <=> e \in Named
    BY <1>5 DEF SummaryAhead
  <2>6. \A h \in failed : WillBeShown(h, (k - 1) + 1)
    BY <1>5, <2>1 DEF SummaryAhead
  <2> HIDE DEF k
  <2>7. \A h \in failed : After(unread', k - 1, Files(h), Filters, h, Shown')
    BY <1>2, <2>1, <2>6, ParsedShown
  <2> QED
    BY <1>1, <1>2, <2>1, <2>2, <2>3, <2>4, <2>5, <2>7
       DEF SummaryAhead, WillBeNamed, WillBeShown
<1>6. CASE SummaryRead
  <2>1. line.kind = "queue"
    BY <1>1, <1>6 DEF SummaryRead, QueuesAfter
  <2>2. failures' = failures
    BY <1>1, <1>2, <2>1, ApplyFailures
  <2>3. QueuesAfter(0)'
    <3>1. \A j \in DOMAIN unread : j > 1 => j > 0
      BY <1>1
    <3>2. QueuesAfter(1)
      BY <1>6, <3>1 DEF SummaryRead, QueuesAfter
    <3> QED
      BY <1>first, <3>2
  <2> QED
    BY <1>1, <1>2, <1>6, <2>2, <2>3 DEF SummaryRead, Filtered, Shown
<1> QED
  BY <1>4, <1>5, <1>6 DEF LogTellsRoots

LEMMA SameNamed ==
    ASSUME UNCHANGED <<unread, summaryElements>>, NEW e, NEW n
    PROVE  After(unread', n, Names(e), Filters, e, summaryElements')
             <=> WillBeNamed(e, n)
  BY DEF WillBeNamed

\* A job's lines name no root cause and close no Failure Summary.
LEMMA JobNamed ==
    ASSUME FeedTyped, NEW h \in Hash, NEW e,
           JobStart(h) \/ JobSuccess(h) \/ JobFailure(h)
    PROVE  After(unread', Len(unread'), Names(e), Filters, e, summaryElements')
             <=> WillBeNamed(e, Len(unread))
<1>1. PICK line \in [kind : {"START", "SUCCESS", "FAILURE"}, hash : Hash] :
        Write(line) /\ summaryElements' = summaryElements
  BY DEF JobStart, JobSuccess, JobFailure, vars, report
<1>2. line \in Line /\ line \notin Names(e) /\ line \notin Filters
  BY DEF Line, Names, Filters, Clears
<1> QED
  BY <1>1, <1>2, WrittenNamed

LEMMA StepTellsRoots ==
    /\ FeedTyped /\ RootCausesListed /\ HashedEntriesWereTracked
    /\ LogTellsStarts /\ LogTellsRoots /\ [FeedNext]_feedVars
    => LogTellsRoots'
<1> SUFFICES ASSUME FeedTyped, RootCausesListed, HashedEntriesWereTracked,
                    LogTellsStarts, LogTellsRoots, [FeedNext]_feedVars
             PROVE  LogTellsRoots'
  OBVIOUS
<1> DEFINE NamedNext(e) ==
      After(unread', Len(unread'), Names(e), Filters, e, summaryElements')
    Listed(e) == phase' = "listing" /\ e \in (roots' \ toList') \intersect KdeElement
    ShownNext(h) ==
      After(unread', Len(unread'), Files(h), Filters, h, Shown')
<1>goal. ASSUME phase' # "killed" =>
                    \A e \in Element : NamedNext(e) <=> Listed(e),
                phase' \in {"building", "listing"} =>
                    \A h \in failed' : ShownNext(h),
                phase' \in {"ending", "done"} =>
                    (\E i \in DOMAIN unread' : SummaryAhead(i)') \/ SummaryRead'
         PROVE  LogTellsRoots'
  BY <1>goal DEF LogTellsRoots, WillBeNamed, WillBeShown
<1>0. /\ unread \in Seq(Line) /\ toList \subseteq roots
      /\ phase # "listing" => toList = {}
      /\ phase # "killed" => \A e \in Element :
           WillBeNamed(e, Len(unread))
             <=> phase = "listing" /\ e \in (roots \ toList) \intersect KdeElement
      /\ phase \in {"building", "listing"} =>
           \A h \in failed : WillBeShown(h, Len(unread))
      /\ failed \subseteq Hash
  BY DEF LogTellsRoots, FeedTyped, FeedTypeOK
<1>1. CASE SessionBegin
  <2>1. [kind |-> "header"] \in Filters /\ \A e : [kind |-> "header"] \notin Names(e)
    BY DEF Filters, Names, Clears, Line
  <2>2. /\ Len(unread') \in Nat /\ Len(unread') > 0
        /\ unread'[Len(unread')] = [kind |-> "header"]
    BY <1>1, Begun
  <2>3. \A e : ~ NamedNext(e)
    BY <2>1, <2>2, AfterDrop
  <2> HIDE DEF NamedNext, ShownNext
  <2> QED
    BY <1>1, <1>goal, <2>3 DEF SessionBegin
<1>2. ASSUME NEW h \in Hash, JobStart(h) \/ JobSuccess(h) \/ JobFailure(h)
      PROVE  LogTellsRoots'
  <2>1. phase = "building" /\ phase' = "building"
    BY <1>2 DEF JobStart, JobSuccess, JobFailure
  <2>2. \A e : NamedNext(e) <=> WillBeNamed(e, Len(unread))
    BY <1>2, JobNamed
  <2>3. PICK line \in [kind : {"START", "SUCCESS", "FAILURE"}, hash : {h}] :
          /\ Write(line) /\ UNCHANGED failures
          /\ failed' = IF line.kind = "FAILURE" THEN failed \union {h} ELSE failed
    BY <1>2 DEF JobStart, JobSuccess, JobFailure, vars, report
  <2>4. /\ line \in Line /\ line \notin Filters
        /\ line.kind = "FAILURE" => line \in Files(h)
    BY DEF Line, Filters, Clears, Files
  <2>5. ASSUME NEW k \in failed'
        PROVE  ShownNext(k)
    <3>1. line \in Files(k) \/ WillBeShown(k, Len(unread))
      BY <1>0, <2>1, <2>3, <2>4
    <3> QED
      BY <2>3, <2>4, <3>1, WrittenShown
  <2> HIDE DEF NamedNext, ShownNext
  <2> QED
    BY <1>0, <1>goal, <2>1, <2>2, <2>5
<1>3. CASE SubRunEnds
  <2>1. /\ phase = "building" /\ phase' = "listing"
        /\ UNCHANGED <<unread, summaryElements, failures, failed>>
        /\ toList' = roots'
    BY <1>3 DEF SubRunEnds, vars, report
  <2>2. \A e : NamedNext(e) <=> WillBeNamed(e, Len(unread))
    BY <2>1, SameNamed
  <2>3. \A h \in failed' : ShownNext(h)
    BY <1>0, <2>1 DEF WillBeShown, Shown
  <2> HIDE DEF NamedNext, ShownNext
  <2> QED
    BY <1>0, <1>goal, <2>1, <2>2, <2>3
<1>4. ASSUME NEW d \in Element, ListRoot(d)
      PROVE  LogTellsRoots'
  <2>1. /\ phase = "listing" /\ phase' = "listing" /\ d \in toList
        /\ toList' = toList \ {d}
        /\ UNCHANGED <<failed, roots>>
    BY <1>4 DEF ListRoot
  <2>2. \A e : NamedNext(e)
                  <=> (e = d /\ d \in KdeElement) \/ WillBeNamed(e, Len(unread))
    BY <1>4, RootNamed
  <2>3. \A h \in failed' : ShownNext(h)
    BY <1>0, <1>4, <2>1, RootShown
  <2> HIDE DEF NamedNext, ShownNext
  <2>4. \A e \in Element : NamedNext(e) <=> Listed(e)
    BY <1>0, <2>1, <2>2
  <2> QED
    BY <1>goal, <2>1, <2>3, <2>4
<1>5. CASE WriteSummary
  <2> DEFINE line == [kind |-> "summary"]
  <2>0. PICK last \in Nat : last = Len(unread) + 1
    BY <1>0
  <2>1. /\ line \in Line /\ line \in Filters /\ \A e : line \notin Names(e)
        /\ line.kind = "summary"
    BY DEF Line, Names, Filters, Clears
  <2>2. /\ Write(line) /\ UNCHANGED <<summaryElements, failures>>
        /\ phase = "listing" /\ phase' = "ending" /\ toList = {}
        /\ UNCHANGED <<failed, roots>> /\ Named' = Named
    BY <1>5 DEF WriteSummary, vars, report, Named
  <2> HIDE DEF line
  <2>3. \A e : ~ NamedNext(e)
    BY <2>1, <2>2, WrittenNamed
  <2>4. /\ unread' \in Seq(Line) /\ Len(unread') = last
        /\ Len(unread) \in 0 .. Len(unread)
        /\ last \in DOMAIN unread' /\ last - 1 = Len(unread)
        /\ unread'[last] = line
    BY <1>0, <2>0, <2>1, <2>2, Written
  <2>5. QueuesAfter(last)'
    BY <2>4 DEF QueuesAfter
  <2>6. \A e \in Element :
           After(unread', Len(unread), Names(e), Filters, e, summaryElements')
              <=> e \in Named
    BY <1>0, <2>1, <2>2, <2>4, WrittenNamed DEF Named
  <2>7. \A h \in failed :
           After(unread', Len(unread), Files(h), Filters, h, Shown')
    BY <1>0, <2>1, <2>2, <2>4, WrittenShown
  <2>8. SummaryAhead(last)'
    BY <2>1, <2>2, <2>4, <2>5, <2>6, <2>7
       DEF SummaryAhead, WillBeNamed, WillBeShown
  <2> HIDE DEF NamedNext, ShownNext
  <2> QED
    BY <1>0, <1>goal, <2>2, <2>3, <2>4, <2>8
<1>6. CASE WriteQueue
  <2> DEFINE line == [kind |-> "queue", failed |-> Cardinality(failed)]
  <2>0. Cardinality(failed) \in Nat
    BY FS_CardinalityType DEF FeedTyped
  <2>1. /\ line \in Line /\ line \notin Filters /\ \A e : line \notin Names(e)
        /\ line.kind = "queue"
    BY <2>0 DEF Line, Names, Filters, Clears
  <2>2. /\ Write(line) /\ UNCHANGED <<summaryElements, failures>>
        /\ phase = "ending" /\ phase' = "done"
        /\ UNCHANGED <<failed, roots>> /\ Named' = Named
    BY <1>6 DEF WriteQueue, vars, report, Named
  <2> HIDE DEF line
  <2>3. \A e : NamedNext(e) <=> WillBeNamed(e, Len(unread))
    BY <2>1, <2>2, WrittenNamed
  <2>4. /\ \A i \in DOMAIN unread' :
             \/ i \in DOMAIN unread /\ unread'[i] = unread[i]
             \/ unread'[i] = line
        /\ \A i \in DOMAIN unread :
             /\ i \in DOMAIN unread' /\ unread'[i] = unread[i]
             /\ i - 1 \in 0 .. Len(unread)
    BY <1>0, <2>1, <2>2, Written
  <2>5. ASSUME NEW i, QueuesAfter(i)
        PROVE  QueuesAfter(i)'
    BY <2>1, <2>4, <2>5 DEF QueuesAfter
  <2>6. ASSUME NEW i \in DOMAIN unread, SummaryAhead(i)
        PROVE  SummaryAhead(i)'
    <3>1. \A e : After(unread', i - 1, Names(e), Filters, e, summaryElements')
                    <=> WillBeNamed(e, i - 1)
      BY <2>1, <2>2, <2>4, WrittenNamed
    <3>2. \A h \in failed :
             After(unread', i - 1, Files(h), Filters, h, Shown')
      BY <2>1, <2>2, <2>4, <2>6, WrittenShown DEF SummaryAhead
    <3> QED
      BY <2>2, <2>4, <2>5, <2>6, <3>1, <3>2
         DEF SummaryAhead, WillBeNamed, WillBeShown
  <2>7. SummaryRead => SummaryRead'
    BY <2>2, <2>5 DEF SummaryRead, Filtered, Shown
  <2>8. (\E i \in DOMAIN unread : SummaryAhead(i)) \/ SummaryRead
    BY <2>2 DEF LogTellsRoots
  <2>9. (\E i \in DOMAIN unread' : SummaryAhead(i)') \/ SummaryRead'
    BY <2>4, <2>6, <2>7, <2>8
  <2> HIDE DEF NamedNext, ShownNext
  <2> QED
    BY <1>0, <1>goal, <2>2, <2>3, <2>9
<1>7. CASE NextSubRun
  <2>1. /\ phase = "done" /\ phase' = "building" /\ failed' = {}
        /\ UNCHANGED <<unread, summaryElements>>
    BY <1>7 DEF NextSubRun, vars, report
  <2>2. \A e : NamedNext(e) <=> WillBeNamed(e, Len(unread))
    BY <2>1, SameNamed
  <2> HIDE DEF NamedNext, ShownNext
  <2> QED
    BY <1>0, <1>goal, <2>1, <2>2
<1>8. CASE ParseLine
  <2>1. /\ UNCHANGED <<phase, failed, roots, toList>>
        /\ Len(unread') \in 0 .. Len(unread) - 1
        /\ Len(unread') + 1 = Len(unread)
    BY <1>0, <1>8, ParsedLine DEF session
  <2>2. \A e : NamedNext(e) <=> WillBeNamed(e, Len(unread))
    BY <1>8, <2>1, ParsedNamed
  <2>3. phase \in {"ending", "done"} =>
           (\E i \in DOMAIN unread' : SummaryAhead(i)') \/ SummaryRead'
    BY <1>8, ParsedRoots
  <2>4. \A h \in failed : WillBeShown(h, Len(unread)) => ShownNext(h)
    BY <1>0, <1>8, <2>1, ParsedShown
  <2> HIDE DEF NamedNext, ShownNext
  <2> QED
    BY <1>0, <1>goal, <2>1, <2>2, <2>3, <2>4
<1>9. CASE EndOfLog \/ Poll \/ UNCHANGED feedVars
  <2>1. UNCHANGED <<unread, summaryElements, failures, phase, failed, roots, toList>>
    BY <1>9
    DEF EndOfLog, DoneCatchingUp, Poll, feedVars, session, vars, report
  <2> QED
    BY <2>1
    DEF LogTellsRoots, SummaryAhead, SummaryRead, QueuesAfter, Filtered, Named,
        WillBeNamed, WillBeShown, Shown
<1>10. CASE SessionKilled
  BY <1>10 DEF SessionKilled, LogTellsRoots
<1> QED
  BY <1>1, <1>2, <1>3, <1>4, <1>5, <1>6, <1>7, <1>8, <1>9, <1>10
     DEF FeedNext, Session

LEMMA StepRootsListed ==
    FeedTyped /\ RootCausesListed /\ [FeedNext]_feedVars => RootCausesListed'
<1> SUFFICES ASSUME FeedTyped, RootCausesListed, [FeedNext]_feedVars
             PROVE  RootCausesListed'
  OBVIOUS
<1>1. CASE ParseLine
  BY <1>1, ParsedLine, ApplyRootCauses DEF FeedTyped, FeedTypeOK
<1>2. CASE Session \/ EndOfLog \/ Poll \/ UNCHANGED feedVars
  <2>1. UNCHANGED <<failures, summaryElements>>
    BY <1>2, SessionLeavesState
    DEF EndOfLog, DoneCatchingUp, Poll, feedVars, vars, report
  <2> QED
    BY <2>1 DEF RootCausesListed
<1> QED
  BY <1>1, <1>2 DEF FeedNext

LEMMA InitTellsRoots == FeedInit => RootCausesListed /\ LogTellsRoots
<1> SUFFICES ASSUME FeedInit
             PROVE  RootCausesListed /\ LogTellsRoots
  OBVIOUS
<1>1. summaryElements = {} /\ Len(unread) = 0 /\ phase = "idle" /\ failed = {}
  BY DEF FeedInit, Init
<1>2. \A e : ~ WillBeNamed(e, Len(unread))
  BY <1>1, AfterNone DEF WillBeNamed
<1> QED
  BY <1>1, <1>2 DEF LogTellsRoots, RootCausesListed

LEMMA AlwaysTellsRoots == FeedSpec => [](RootCausesListed /\ LogTellsRoots)
  BY InitTellsRoots, StepRootsListed, StepTellsRoots, AlwaysTyped,
     AlwaysTellsStarts, SessionKeepsBookkeeping, PTL DEF FeedSpec, Bookkeeping

\* Once a sub-run has been read the list holds the recognised root causes and,
\* once each, the failed jobs of their elements and of no other; where no root
\* cause was recognised it holds every failed job, once.  For any number of jobs,
\* failures and sub-runs, and any mix of elements the pattern knows or does not.
THEOREM FilterLeavesRoots == FeedSpec => []FailuresShown
<1>1. FeedTyped /\ OneEntryPerFailure /\ LogTellsRoots => FailuresShown
  <2> SUFFICES ASSUME FeedTyped, OneEntryPerFailure, LogTellsRoots,
                      unread = << >>, phase = "done"
               PROVE  /\ Named # {} => {f.element : f \in failures} = Named
                      /\ \A h \in failed :
                           IF Named = {} \/ ElementOf[h] \in Named
                             THEN \E f \in failures : EntriesOf(h) = {f}
                             ELSE EntriesOf(h) = {}
    BY DEF FailuresShown
  <2>1. Filtered
    BY DEF LogTellsRoots, SummaryRead
  <2>2. ASSUME NEW h \in failed
        PROVE  IF Named = {} \/ ElementOf[h] \in Named
                 THEN \E f \in failures : EntriesOf(h) = {f}
                 ELSE EntriesOf(h) = {}
    <3>1. h # NoHash
      BY DEF FeedTyped, FeedTypeOK
    <3>2. CASE Named = {} \/ ElementOf[h] \in Named
      <4>1. PICK f \in failures : f.hash = h
        BY <2>1, <3>2 DEF Filtered, Shown
      <4>2. EntriesOf(h) = {f}
        BY <3>1, <4>1 DEF EntriesOf, OneEntryPerFailure
      <4> QED
        BY <3>2, <4>2
    <3>3. CASE ~ (Named = {} \/ ElementOf[h] \in Named)
      BY <2>1, <3>3 DEF Filtered, Shown, EntriesOf
    <3> QED
      BY <3>2, <3>3
  <2> QED
    BY <2>1, <2>2 DEF Filtered
<1> QED
  BY <1>1, AlwaysTyped, AlwaysTellsRoots, SessionKeepsBookkeeping, PTL
     DEF Bookkeeping
=============================================================================
