------------------------- MODULE ComponentMapProofs -------------------------
(***************************************************************************)
(* Proofs about ComponentMap, for every set of elements and paths, every   *)
(* listing and every failure of the file system.                           *)
(***************************************************************************)
EXTENDS ComponentMap, FiniteSetTheorems, TLAPS

Attributing == {"apply", "done"}

LEMMA TypeInit == Init => TypeOK
  BY MaxLinesAssumption DEF Init, TypeOK, Claim

\* One lemma for the steps that are no claim's, one for those that are.
LEMMA TypeGen ==
    ASSUME TypeOK,
           \/ ListElements \/ BstFails \/ WriteFilemap \/ Report
           \/ \E e \in Element : Header(e)
           \/ \E f \in File : Entry(f)
    PROVE  TypeOK'
  <1>1. CASE ListElements
    BY <1>1 DEF ListElements, TypeOK, plan, sums, attrs
  <1>2. CASE BstFails
    BY <1>2 DEF BstFails, TypeOK, gen, plan, sums, attrs
  <1>3. CASE WriteFilemap
    BY <1>3 DEF WriteFilemap, TypeOK, gen, sums, attrs, Filemap
  <1>4. CASE Report
    BY <1>4 DEF Report, TypeOK, gen, plan, sums, attrs
  <1>5. ASSUME NEW e \in Element, Header(e) PROVE TypeOK'
    BY <1>5 DEF Header, TypeOK, plan, sums, attrs
  <1>6. ASSUME NEW f \in File, Entry(f) PROVE TypeOK'
    <2>1. PathOf[f] \in File
      BY PathOfAssumption
    <2>2. contents' \in [Element -> SUBSET File]
      BY <1>6, <2>1 DEF Entry, TypeOK
    <2>3. listed' \subseteq Element \X File
      BY <1>6 DEF Entry, TypeOK
    <2>4. lines' \in 0 .. MaxLines
      BY <1>6, MaxLinesAssumption DEF Entry, TypeOK
    <2> QED BY <1>6, <2>2, <2>3, <2>4 DEF Entry, TypeOK, plan, sums, attrs
  <1> QED BY <1>1, <1>2, <1>3, <1>4, <1>5, <1>6

ClaimStep(c) == SkipMissing(c) \/ SetBoth(c) \/ ComponentFails(c) \/ IntervalFails(c)

LEMMA TypeClaim ==
    ASSUME TypeOK, NEW c \in todo, ClaimStep(c)
    PROVE  TypeOK'
  <1>1. c[1] \in Element /\ c[2] \in File
    BY DEF TypeOK, Claim
  <1>2. /\ ok' \in Nat /\ skip' \in Nat /\ err' \in Nat
        /\ component' \in [File -> Element \union {None}]
        /\ interval' \in [File -> Element \union {None}]
    <2>1. CASE SkipMissing(c)
      BY <2>1 DEF SkipMissing, TypeOK, attrs
    <2>2. CASE SetBoth(c)
      BY <1>1, <2>2 DEF SetBoth, TypeOK
    <2>3. CASE ComponentFails(c)
      BY <2>3 DEF ComponentFails, TypeOK, attrs
    <2>4. CASE IntervalFails(c)
      BY <1>1, <2>4 DEF IntervalFails, TypeOK
    <2> QED BY <2>1, <2>2, <2>3, <2>4 DEF ClaimStep
  <1>3. Take(c)
    BY DEF ClaimStep, SkipMissing, SetBoth, ComponentFails, IntervalFails
  <1> QED BY <1>2, <1>3 DEF Take, TypeOK, gen, plan

LEMMA TypeStep == TypeOK /\ [Next]_vars => TypeOK'
  <1> SUFFICES ASSUME TypeOK, [Next]_vars PROVE TypeOK'
    OBVIOUS
  <1>1. CASE UNCHANGED vars
    BY <1>1 DEF TypeOK, vars, gen, plan, sums, attrs
  <1>2. CASE Next
    BY <1>2, TypeGen, TypeClaim DEF Next, ClaimStep
  <1> QED BY <1>1, <1>2

\* The state is well-typed, whatever is listed and whatever fails.
THEOREM TypeCorrect == Spec => []TypeOK
  BY TypeInit, TypeStep, PTL DEF Spec

-----------------------------------------------------------------------------
(* The claims are the listing                                               *)

\* What has been read is what has been listed, element by element.
Faithful ==
    /\ header = current
    /\ \A e \in Element, f \in File :
          f \in contents[e] <=> \E g \in File : <<e, g>> \in listed /\ PathOf[g] = f

ClaimsAreRead ==
    /\ claims = IF pc \in Attributing THEN Filemap ELSE {}
    /\ pc \in {"list", "listing", "failed"} => component = [f \in File |-> None]

LEMMA FaithfulStep == TypeOK /\ Faithful /\ [Next]_vars => Faithful'
  <1> SUFFICES ASSUME TypeOK, Faithful, [Next]_vars PROVE Faithful'
    OBVIOUS
  <1>1. ASSUME UNCHANGED <<header, current, contents, listed>> PROVE Faithful'
    BY <1>1 DEF Faithful
  <1>2. ASSUME NEW e \in Element, Header(e) PROVE Faithful'
    BY <1>2 DEF Header, Faithful
  <1>3. ASSUME NEW f \in File, Entry(f) PROVE Faithful'
    <2>1. /\ current \in Element /\ header = current
          /\ UNCHANGED <<header, current>>
      BY <1>3 DEF Entry, Faithful, TypeOK
    <2>2. /\ listed' = listed \union {<<current, f>>}
          /\ contents' = [contents EXCEPT ![current] = @ \union {PathOf[f]}]
      BY <1>3, <2>1, NoneAssumption DEF Entry
    <2>3. ASSUME NEW e \in Element, NEW p \in File
          PROVE  p \in contents'[e] <=>
                    \E g \in File : <<e, g>> \in listed' /\ PathOf[g] = p
      <3>1. p \in contents'[e] <=> p \in contents[e] \/ (e = current /\ p = PathOf[f])
        BY <2>1, <2>2 DEF TypeOK
      <3>2. \A g \in File : <<e, g>> \in listed' <=>
                               <<e, g>> \in listed \/ (e = current /\ g = f)
        BY <2>2
      <3> QED BY <3>1, <3>2 DEF Faithful
    <2> QED BY <2>1, <2>3 DEF Faithful
  <1>4. CASE UNCHANGED vars
    BY <1>1, <1>4 DEF vars, gen
  <1>5. ASSUME NEW c \in todo, ClaimStep(c) PROVE UNCHANGED gen
    BY <1>5 DEF ClaimStep, SkipMissing, SetBoth, ComponentFails, IntervalFails, Take
  <1>6. CASE ListElements \/ BstFails \/ WriteFilemap \/ Report
    BY <1>1, <1>6 DEF ListElements, BstFails, WriteFilemap, Report, gen
  <1> QED BY <1>1, <1>2, <1>3, <1>4, <1>5, <1>6 DEF Next, ClaimStep, gen

LEMMA ClaimsStep == TypeOK /\ ClaimsAreRead /\ [Next]_vars => ClaimsAreRead'
  <1> SUFFICES ASSUME TypeOK, ClaimsAreRead, [Next]_vars PROVE ClaimsAreRead'
    OBVIOUS
  <1> USE DEF Attributing, ClaimsAreRead
  <1>1. CASE UNCHANGED vars
    BY <1>1 DEF vars, gen, plan, attrs, Filemap
  <1>2. CASE ListElements
    BY <1>2 DEF ListElements, plan, attrs
  <1>3. CASE BstFails
    BY <1>3 DEF BstFails, gen, plan, attrs
  <1>4. CASE WriteFilemap
    BY <1>4 DEF WriteFilemap, gen, Filemap, attrs
  <1>5. CASE Report
    BY <1>5 DEF Report, gen, plan, Filemap, attrs
  <1>6. ASSUME NEW e \in Element, Header(e) PROVE ClaimsAreRead'
    BY <1>6 DEF Header, plan, attrs
  <1>7. ASSUME NEW f \in File, Entry(f) PROVE ClaimsAreRead'
    BY <1>7 DEF Entry, plan, attrs
  <1>8. ASSUME NEW c \in todo, ClaimStep(c) PROVE ClaimsAreRead'
    <2>1. pc = "apply" /\ UNCHANGED <<pc, claims, contents>>
      BY <1>8 DEF ClaimStep, SkipMissing, SetBoth, ComponentFails, IntervalFails,
                  Take, gen, plan
    <2> QED BY <2>1 DEF Filemap
  <1> QED BY <1>1, <1>2, <1>3, <1>4, <1>5, <1>6, <1>7, <1>8 DEF Next, ClaimStep

\* What has been written was claimed.
Owned == \A f \in File : component[f] # None => <<component[f], f>> \in claims

LEMMA OwnedStep == TypeOK /\ ClaimsAreRead /\ Owned /\ [Next]_vars => Owned'
  <1> SUFFICES ASSUME TypeOK, ClaimsAreRead, Owned, [Next]_vars PROVE Owned'
    OBVIOUS
  <1>1. ASSUME UNCHANGED <<component, claims>> PROVE Owned'
    BY <1>1 DEF Owned
  <1>2. CASE WriteFilemap
    BY <1>2 DEF WriteFilemap, ClaimsAreRead, Owned, attrs
  <1>3. CASE UNCHANGED vars \/ ListElements \/ BstFails \/ Report
    BY <1>1, <1>3 DEF vars, plan, attrs, ListElements, BstFails, Report
  <1>4. ASSUME NEW e \in Element, Header(e) PROVE Owned'
    BY <1>1, <1>4 DEF Header, plan, attrs
  <1>5. ASSUME NEW f \in File, Entry(f) PROVE Owned'
    BY <1>1, <1>5 DEF Entry, plan, attrs
  <1>6. ASSUME NEW c \in todo, ClaimStep(c) PROVE Owned'
    <2>1. /\ claims' = claims /\ c \in claims
          /\ \/ component' = component
             \/ component' = [component EXCEPT ![c[2]] = c[1]]
      BY <1>6 DEF ClaimStep, SkipMissing, SetBoth, ComponentFails, IntervalFails,
                  Take, plan, attrs, TypeOK
    <2>2. c = <<c[1], c[2]>> /\ c[2] \in File
      BY <2>1 DEF TypeOK, Claim
    <2> QED BY <2>1, <2>2 DEF Owned, TypeOK
  <1> QED BY <1>2, <1>3, <1>4, <1>5, <1>6 DEF Next, ClaimStep

Read == TypeOK /\ Faithful /\ ClaimsAreRead /\ Owned

LEMMA ReadAlways == Spec => []Read
  <1>1. Init => Read
    BY TypeInit DEF Init, Read, Faithful, ClaimsAreRead, Owned, Attributing
  <1>2. Read /\ [Next]_vars => Read'
    BY TypeStep, FaithfulStep, ClaimsStep, OwnedStep DEF Read
  <1> QED BY <1>1, <1>2, PTL DEF Spec

\* Every component in the image is an element that BuildStream listed the file
\* under, and none of the merged layers.
THEOREM ComponentIsOwnerAlways == Spec => []ComponentIsOwner
  <1>1. Read => ComponentIsOwner
    <2> SUFFICES ASSUME Read, NEW f \in File, component[f] # None
                 PROVE  /\ component[f] \notin Layers
                        /\ \E c \in listed : c[1] = component[f] /\ PathOf[c[2]] = f
      BY DEF ComponentIsOwner
    <2>1. <<component[f], f>> \in Filemap
      BY DEF Read, Owned, ClaimsAreRead
    <2>2. /\ component[f] \in Element /\ component[f] \notin Layers
          /\ f \in contents[component[f]]
      BY <2>1 DEF Filemap, Claim
    <2>3. PICK g \in File : <<component[f], g>> \in listed /\ PathOf[g] = f
      BY <2>2 DEF Read, Faithful
    <2> QED BY <2>2, <2>3
  <1> QED BY <1>1, ReadAlways, PTL

-----------------------------------------------------------------------------
(* The writers                                                              *)

LEMMA MatchStep == TypeOK /\ AttributesMatch /\ [Next]_vars => AttributesMatch'
  <1> SUFFICES ASSUME TypeOK, AttributesMatch, [Next]_vars PROVE AttributesMatch'
    OBVIOUS
  <1> USE DEF AttributesMatch
  <1>1. CASE UNCHANGED vars \/ ListElements \/ BstFails \/ WriteFilemap \/ Report
    BY <1>1 DEF vars, plan, sums, attrs, ListElements, BstFails, WriteFilemap, Report
  <1>2. ASSUME NEW e \in Element, Header(e) PROVE AttributesMatch'
    BY <1>2 DEF Header, plan, sums, attrs
  <1>3. ASSUME NEW f \in File, Entry(f) PROVE AttributesMatch'
    BY <1>3 DEF Entry, plan, sums, attrs
  <1>4. ASSUME NEW c \in todo, ClaimStep(c) PROVE AttributesMatch'
    <2>1. CASE SkipMissing(c)
      BY <2>1 DEF SkipMissing, Take, plan, attrs
    <2>2. CASE SetBoth(c)
      <3>1. err = 0 /\ writer = "apply-xattrs" => interval' = component'
        BY <2>2 DEF SetBoth
      <3> QED BY <2>2, <3>1 DEF SetBoth, Take, plan
    <2>3. CASE ComponentFails(c)
      BY <2>3 DEF ComponentFails, TypeOK
    <2>4. CASE IntervalFails(c)
      BY <2>4 DEF IntervalFails, Take, plan, TypeOK
    <2> QED BY <1>4, <2>1, <2>2, <2>3, <2>4 DEF ClaimStep
  <1> QED BY <1>1, <1>2, <1>3, <1>4 DEF Next, ClaimStep

\* Without an error of apply-xattrs the two attributes of every file are those
\* of one element.
THEOREM AttributesMatchAlways == Spec => []AttributesMatch
  <1>1. Init => AttributesMatch
    BY DEF Init, AttributesMatch
  <1> QED BY <1>1, TypeCorrect, MatchStep, PTL DEF Spec

\* The claims that are done went to their element or a later one; those that
\* are not will overwrite what is there by a later one.
InOrder ==
    /\ pc = "done" => todo = {}
    /\ pc \in Attributing /\ err = 0 =>
          /\ \A c \in claims \ todo : image[c[2]] = "reg" =>
                component[c[2]] # None /\ component[c[2]] >= c[1]
          /\ \A d \in todo : component[d[2]] # None => component[d[2]] < d[1]

LEMMA InOrderClaim ==
    ASSUME TypeOK, InOrder, NEW c \in todo, ClaimStep(c)
    PROVE  InOrder'
  <1>1. /\ pc = "apply" /\ IsNext(c) /\ todo' = todo \ {c}
        /\ UNCHANGED <<pc, claims, image, writer>>
    BY DEF ClaimStep, SkipMissing, SetBoth, ComponentFails, IntervalFails, Take, plan
  <1>2. \A d \in claims : d[1] \in Int /\ d[2] \in Int /\ d[1] \in Element /\ d[2] \in File
    BY OrderAssumption DEF TypeOK, Claim
  <1>3. c \in claims /\ todo \subseteq claims
    BY DEF TypeOK
  <1>4. CASE err' # 0
    BY <1>1, <1>4 DEF InOrder, Attributing
  <1>5. CASE image[c[2]] = "absent" /\ err' = err /\ UNCHANGED component
    BY <1>1, <1>3, <1>5 DEF InOrder, Attributing
  <1>6. CASE err' = err /\ component' = [component EXCEPT ![c[2]] = c[1]]
    <2> SUFFICES ASSUME err = 0 PROVE InOrder'
      BY <1>4, <1>6
    <2>1. /\ \A d \in claims \ todo : image[d[2]] = "reg" =>
                component[d[2]] # None /\ component[d[2]] >= d[1]
          /\ \A d \in todo : component[d[2]] # None => component[d[2]] < d[1]
      BY <1>1 DEF InOrder, Attributing
    <2>2. \A d \in claims : component'[d[2]] = IF d[2] = c[2] THEN c[1] ELSE component[d[2]]
      BY <1>2, <1>3, <1>6 DEF TypeOK
    <2>3. ASSUME NEW d \in claims \ todo', image[d[2]] = "reg"
          PROVE  component'[d[2]] # None /\ component'[d[2]] >= d[1]
      <3>1. CASE d[2] # c[2]
        BY <1>1, <2>1, <2>2, <2>3, <3>1
      <3>2. CASE d = c
        BY <1>2, <1>3, <2>2, <3>2, NoneAssumption
      <3>3. CASE d[2] = c[2] /\ d # c
        <4>1. component[c[2]] # None /\ component[c[2]] >= d[1]
          BY <1>1, <2>1, <2>3, <3>3
        <4>2. component[c[2]] < c[1] /\ component[c[2]] \in Int
          BY <1>2, <1>3, <2>1, <4>1, OrderAssumption DEF TypeOK
        <4> QED BY <1>2, <1>3, <2>2, <3>3, <4>1, <4>2, NoneAssumption
      <3> QED BY <3>1, <3>2, <3>3
    <2>4. ASSUME NEW d \in todo', component'[d[2]] # None
          PROVE  component'[d[2]] < d[1]
      <3>1. Precedes(c, d) /\ d \in claims
        BY <1>1, <1>3 DEF IsNext
      <3>2. CASE d[2] # c[2]
        BY <1>1, <2>1, <2>2, <2>4, <3>1, <3>2
      <3>3. CASE d[2] = c[2]
        <4>1. c[1] < d[1]
          BY <1>2, <1>3, <3>1, <3>3 DEF Precedes
        <4> QED BY <2>2, <3>1, <3>3, <4>1
      <3> QED BY <3>2, <3>3
    <2> QED BY <1>1, <2>3, <2>4 DEF InOrder
  <1>7. \/ err' # 0
        \/ image[c[2]] = "absent" /\ err' = err /\ UNCHANGED component
        \/ err' = err /\ component' = [component EXCEPT ![c[2]] = c[1]]
    BY DEF ClaimStep, SkipMissing, SetBoth, ComponentFails, IntervalFails, TypeOK, attrs
  <1> QED BY <1>4, <1>5, <1>6, <1>7

LEMMA InOrderStep == TypeOK /\ ClaimsAreRead /\ InOrder /\ [Next]_vars => InOrder'
  <1> SUFFICES ASSUME TypeOK, ClaimsAreRead, InOrder, [Next]_vars PROVE InOrder'
    OBVIOUS
  <1>1. CASE UNCHANGED vars
    BY <1>1 DEF vars, plan, sums, attrs, InOrder
  <1>2. CASE WriteFilemap
    <2>1. component' = [f \in File |-> None]
      BY <1>2 DEF WriteFilemap, ClaimsAreRead, attrs
    <2>2. \A d \in todo' : d[2] \in File
      BY <1>2 DEF WriteFilemap, Filemap, Claim
    <2> QED BY <1>2, <2>1, <2>2 DEF WriteFilemap, InOrder
  <1>3. CASE ListElements \/ BstFails
    BY <1>3 DEF ListElements, BstFails, InOrder, Attributing
  <1>4. CASE Report
    BY <1>4 DEF Report, InOrder, Attributing, plan, sums, attrs
  <1>5. ASSUME NEW e \in Element, Header(e) PROVE InOrder'
    BY <1>5 DEF Header, InOrder, Attributing
  <1>6. ASSUME NEW f \in File, Entry(f) PROVE InOrder'
    BY <1>6 DEF Entry, InOrder, Attributing
  <1> QED BY <1>1, <1>2, <1>3, <1>4, <1>5, <1>6, InOrderClaim DEF Next, ClaimStep

\* Whichever program writes the attributes, and in whatever order the elements
\* are listed, the last of a file's elements gets it.
THEOREM LastOwnerWinsAlways == Spec => []LastOwnerWins
  <1>1. Init => InOrder
    BY DEF Init, InOrder, Attributing
  <1>2. Read /\ InOrder /\ [Next]_vars => InOrder'
    BY InOrderStep DEF Read
  <1>3. Read /\ InOrder => LastOwnerWins
    <2> SUFFICES ASSUME Read, InOrder, pc = "done", err = 0,
                        NEW c \in listed, NEW f \in File,
                        c[1] \notin Layers, f = PathOf[c[2]], image[f] = "reg"
                 PROVE  component[f] # None /\ component[f] >= c[1]
      BY DEF LastOwnerWins
    <2>1. c \in Element \X File
      BY DEF Read, TypeOK
    <2>2. c[1] \in Element /\ c[2] \in File /\ c = <<c[1], c[2]>>
      BY <2>1
    <2>3. f \in contents[c[1]]
      BY <2>2 DEF Read, Faithful
    <2>4. <<c[1], f>> \in Filemap
      BY <2>2, <2>3 DEF Filemap, Claim
    <2>5. <<c[1], f>> \in claims \ todo
      BY <2>4 DEF Read, ClaimsAreRead, InOrder, Attributing
    <2> QED BY <2>5 DEF InOrder, Attributing
  <1> QED BY <1>1, <1>2, <1>3, ReadAlways, PTL DEF Spec

-----------------------------------------------------------------------------
(* The sums                                                                 *)

\* Nothing is counted before the claims are written down.
Counted ==
    /\ SumsAddUp
    /\ pc \in {"list", "listing"} => ok = 0 /\ skip = 0 /\ err = 0

LEMMA ClaimsFinite ==
    ASSUME NEW S, S \subseteq Claim
    PROVE  IsFiniteSet(S) /\ Cardinality(S) \in Nat
  <1>1. IsFiniteSet(Element \X File)
    BY FiniteAssumption, FS_Product
  <1>2. S \subseteq Element \X File
    BY DEF Claim
  <1> QED BY <1>1, <1>2, FS_Subset, FS_CardinalityType

LEMMA CountedStep == TypeOK /\ Counted /\ [Next]_vars => Counted'
  <1> SUFFICES ASSUME TypeOK, Counted, [Next]_vars PROVE Counted'
    OBVIOUS
  <1> USE DEF Counted, SumsAddUp
  <1>1. CASE UNCHANGED vars \/ ListElements \/ BstFails \/ Report
    BY <1>1 DEF vars, plan, sums, ListElements, BstFails, Report
  <1>2. CASE WriteFilemap
    <2>1. Cardinality(Filemap) \in Nat
      BY ClaimsFinite DEF Filemap
    <2> QED BY <1>2, <2>1 DEF WriteFilemap, sums
  <1>3. ASSUME NEW e \in Element, Header(e) PROVE Counted'
    BY <1>3 DEF Header, plan, sums
  <1>4. ASSUME NEW f \in File, Entry(f) PROVE Counted'
    BY <1>4 DEF Entry, plan, sums
  <1>5. ASSUME NEW c \in todo, ClaimStep(c) PROVE Counted'
    <2>1. pc = "apply" /\ todo' = todo \ {c} /\ UNCHANGED <<pc, claims>>
      BY <1>5 DEF ClaimStep, SkipMissing, SetBoth, ComponentFails, IntervalFails, Take, plan
    <2>2. /\ IsFiniteSet(todo) /\ Cardinality(todo) \in Nat
          /\ Cardinality(claims) \in Nat
      BY ClaimsFinite DEF TypeOK
    <2>3. Cardinality(todo') = Cardinality(todo) - 1
      BY <2>1, <2>2, FS_RemoveElement
    <2>4. ok' + skip' + err' = ok + skip + err + 1
      BY <1>5 DEF ClaimStep, SkipMissing, SetBoth, ComponentFails, IntervalFails, TypeOK
    <2>5. Cardinality(claims') = Cardinality(claims)
      BY <2>1
    <2>6. ok \in Nat /\ skip \in Nat /\ err \in Nat
      BY DEF TypeOK
    <2>7. ok' + skip' + err' + Cardinality(todo') = Cardinality(claims')
      BY <2>2, <2>3, <2>4, <2>5, <2>6
    <2> QED BY <2>1, <2>7
  <1> QED BY <1>1, <1>2, <1>3, <1>4, <1>5 DEF Next, ClaimStep

\* The numbers of the last line account for every claim, whatever failed.
THEOREM SumsAddUpAlways == Spec => []SumsAddUp
  <1>1. Init => Counted
    BY FS_EmptySet DEF Init, Counted, SumsAddUp
  <1>2. Counted => SumsAddUp
    BY DEF Counted
  <1> QED BY <1>1, <1>2, TypeCorrect, CountedStep, PTL DEF Spec
=============================================================================
