---------------------------- MODULE LogTailProofs ----------------------------
(***************************************************************************)
(* LogTail for any number of logs of any length: what tail_log passes to   *)
(* the parser is the log, whenever it has caught up.                       *)
(***************************************************************************)
EXTENDS LogTail, FiniteSetTheorems, FunctionTheorems, SequenceTheorems, TLAPS

-----------------------------------------------------------------------------
(* Splitting a buffer at its line ends                                      *)

LEMMA Spaced ==
    ASSUME NEW a \in Int, NEW m \in Nat
    PROVE  /\ IsFiniteSet({a + 2 * k : k \in 1 .. m})
           /\ Cardinality({a + 2 * k : k \in 1 .. m}) = m
<1> DEFINE S == {a + 2 * k : k \in 1 .. m}
           f == [k \in 1 .. m |-> a + 2 * k]
<1>1. \A k \in 1 .. m : f[k] \in S
  OBVIOUS
<1>2. \A k, l \in 1 .. m : f[k] = f[l] => k = l
  OBVIOUS
<1>3. \A s \in S : \E k \in 1 .. m : f[k] = s
  OBVIOUS
<1>4. f \in [1 .. m -> S]
  BY <1>1
<1>5. f \in Bijection(1 .. m, S)
  BY <1>2, <1>3, <1>4, Zenon DEF Bijection, Injection, Surjection, IsInjective
<1>6. IsFiniteSet(1 .. m) /\ Cardinality(1 .. m) = m
  BY FS_Interval
<1> QED
  BY <1>5, <1>6, FS_Bijection DEF ExistsBijection

LEMMA LineEnds ==
    ASSUME NEW b, NEW a \in Int, NEW m \in Nat, Ends(b) = {a + 2 * k : k \in 1 .. m}
    PROVE  /\ Cardinality(Ends(b)) = m
           /\ \A n \in 1 .. m : LineEnd(b, n) = a + 2 * n
<1>1. \A n \in 1 .. m : Cardinality({j \in Ends(b) : j <= a + 2 * n}) = n
  <2> TAKE n \in 1 .. m
  <2>1. {j \in Ends(b) : j <= a + 2 * n} = {a + 2 * k : k \in 1 .. n}
    OBVIOUS
  <2>2. Cardinality({a + 2 * k : k \in 1 .. n}) = n
    <3>1. n \in Nat
      OBVIOUS
    <3> QED
      BY <3>1, Spaced, Zenon
  <2> QED
    BY <2>1, <2>2, Zenon
<1>2. ASSUME NEW n \in 1 .. m PROVE LineEnd(b, n) = a + 2 * n
  <2>1. a + 2 * n \in Ends(b)
    OBVIOUS
  <2>2. \A i \in Ends(b) : Cardinality({j \in Ends(b) : j <= i}) = n => i = a + 2 * n
    BY <1>1
  <2>3. n # 0 /\ Cardinality({j \in Ends(b) : j <= a + 2 * n}) = n
    BY <1>1
  <2> QED
    BY <2>1, <2>2, <2>3, Zenon DEF LineEnd
<1>3. Cardinality(Ends(b)) = m
  BY Spaced, Zenon
<1> QED
  BY <1>2, <1>3

LEMMA Splits ==
    ASSUME NEW b, NEW a \in Int, NEW m \in Nat, Ends(b) = {a + 2 * k : k \in 1 .. m}
    PROVE  /\ LinesOf(b) = [n \in 1 .. m |->
                 SubSeq(b, IF n = 1 THEN 1 ELSE a + 2 * n - 1, a + 2 * n)]
           /\ RestOf(b) = SubSeq(b, IF m = 0 THEN 1 ELSE a + 2 * m + 1, Len(b))
<1>1. Cardinality(Ends(b)) = m /\ LineEnd(b, 0) = 0
  <2>1. Cardinality(Ends(b)) = m
    BY LineEnds, Zenon
  <2> QED
    BY <2>1 DEF LineEnd
<1>2. ASSUME NEW n \in 1 .. m
      PROVE  /\ LineEnd(b, n - 1) + 1 = IF n = 1 THEN 1 ELSE a + 2 * n - 1
             /\ LineEnd(b, n) = a + 2 * n
  <2>1. n # 1 => n - 1 \in 1 .. m
    OBVIOUS
  <2>2. n # 1 => LineEnd(b, n - 1) = a + 2 * (n - 1)
    BY <2>1, LineEnds
  <2>3. LineEnd(b, n) = a + 2 * n
    BY LineEnds
  <2> QED
    BY <1>1, <2>2, <2>3
<1>3. LineEnd(b, m) + 1 = IF m = 0 THEN 1 ELSE a + 2 * m + 1
  <2>1. CASE m = 0
    BY <1>1, <2>1
  <2>2. CASE m # 0
    <3>1. m \in 1 .. m
      BY <2>2
    <3>2. LineEnd(b, m) = a + 2 * m
      BY <3>1, LineEnds, Zenon
    <3> QED
      BY <2>2, <3>2
  <2> QED
    BY <2>1, <2>2
<1> QED
  BY <1>1, <1>2, <1>3 DEF LinesOf, RestOf

LEMMA Halves ==
    ASSUME NEW n \in Nat
    PROVE  \E h \in Nat : /\ h = n \div 2
                          /\ (n = 2 * h /\ n % 2 = 0) \/ (n = 2 * h + 1 /\ n % 2 = 1)
<1> DEFINE h == n \div 2
<1>1. h \in Nat /\ h = n \div 2
  OBVIOUS
<1>2. n = 2 * h \/ n = 2 * h + 1
  OBVIOUS
<1>3. n = 2 * h => n % 2 = 0
  OBVIOUS
<1>4. n = 2 * h + 1 => n % 2 = 1
  OBVIOUS
<1> HIDE DEF h
<1>5. /\ h = n \div 2
      /\ (n = 2 * h /\ n % 2 = 0) \/ (n = 2 * h + 1 /\ n % 2 = 1)
  BY <1>1, <1>2, <1>3, <1>4, Zenon
<1> QED
  BY <1>1, <1>5, Zenon

\* A line is a sequence of pieces, and what is kept back ends no line.
LEMMA SplitTyped ==
    ASSUME NEW b \in Seq(Piece), NEW a \in Int, NEW m \in Nat,
           Ends(b) = {a + 2 * k : k \in 1 .. m}
    PROVE  /\ LinesOf(b) \in Seq(Seq(Piece))
           /\ RestOf(b) \in Seq(Piece)
           /\ \A i \in DOMAIN RestOf(b) : ~ EndsLine(RestOf(b)[i])
<1>1. \A k \in 1 .. m : a + 2 * k \in 1 .. Len(b)
  <2>1. Ends(b) \subseteq 1 .. Len(b)
    BY DEF Ends
  <2> QED
    BY <2>1
<1>2. ASSUME NEW n \in 1 .. m
      PROVE  SubSeq(b, IF n = 1 THEN 1 ELSE a + 2 * n - 1, a + 2 * n) \in Seq(Piece)
  <2> DEFINE from == IF n = 1 THEN 1 ELSE a + 2 * n - 1
  <2>1. from >= 1 /\ from \in Int
    <3>1. n # 1 => n - 1 \in 1 .. m
      OBVIOUS
    <3>2. n # 1 => a + 2 * (n - 1) >= 1
      BY <1>1, <3>1
    <3> QED
      BY <3>2
  <2>2. a + 2 * n <= Len(b) /\ a + 2 * n \in Int
    BY <1>1
  <2> HIDE DEF from
  <2>3. \A i \in from .. a + 2 * n : b[i] \in Piece
    BY <2>1, <2>2
  <2>4. SubSeq(b, from, a + 2 * n) \in Seq(Piece)
    BY <2>1, <2>2, <2>3, SubSeqProperties
  <2> QED
    BY <2>4 DEF from
<1>3. LinesOf(b) \in Seq(Seq(Piece))
  <2> DEFINE lines == [n \in 1 .. m |->
                          SubSeq(b, IF n = 1 THEN 1 ELSE a + 2 * n - 1, a + 2 * n)]
  <2>1. lines \in [1 .. m -> Seq(Piece)]
    BY <1>2
  <2>2. LinesOf(b) = lines
    BY Splits, Zenon
  <2> HIDE DEF lines
  <2> QED
    BY <2>1, <2>2
<1> DEFINE after == IF m = 0 THEN 1 ELSE a + 2 * m + 1
<1>4. after >= 1 /\ after \in Int /\ Len(b) \in Int
  <2>1. m # 0 => m \in 1 .. m
    OBVIOUS
  <2> QED
    BY <1>1, <2>1
<1>5. RestOf(b) = SubSeq(b, after, Len(b))
  BY Splits
<1>6. \A i \in Ends(b) : i < after
  BY <1>1
<1> HIDE DEF after
<1>7. \A i \in after .. Len(b) : b[i] \in Piece
  BY <1>4
<1>8. /\ RestOf(b) \in Seq(Piece)
      /\ Len(RestOf(b)) = IF after <= Len(b) THEN Len(b) - after + 1 ELSE 0
      /\ \A i \in 1 .. Len(b) - after + 1 : RestOf(b)[i] = b[after + i - 1]
  BY <1>4, <1>5, <1>7, SubSeqProperties
<1>9. ASSUME NEW i \in DOMAIN RestOf(b) PROVE ~ EndsLine(RestOf(b)[i])
  <2>1. i \in 1 .. Len(b) - after + 1
    BY <1>4, <1>8
  <2>2. RestOf(b)[i] = b[after + i - 1] /\ after + i - 1 \in DOMAIN b
    BY <1>4, <1>8, <2>1
  <2>3. i \in Int /\ i >= 1
    BY <1>4, <2>1
  <2>4. ~ (after + i - 1 < after)
    BY <1>4, <2>3
  <2>5. after + i - 1 \notin Ends(b)
    BY <1>6, <2>4
  <2> QED
    BY <2>2, <2>5 DEF Ends
<1> QED
  BY <1>3, <1>8, <1>9

\* The pieces that a read adds to what was kept back: every second one ends a
\* line, from the first or the second on.
LEMMA ChunkSplits ==
    ASSUME NEW kept \in Seq(Piece), \A i \in DOMAIN kept : ~ EndsLine(kept[i]),
           length \in 0 .. MaxLength, log \in 0 .. MaxLog,
           NEW from \in Nat, NEW upTo \in Nat, upTo <= length
    PROVE  LET b == kept \o SubSeq(Content, from + 1, upTo)
           IN  /\ LinesOf(b) \in Seq(Seq(Piece))
               /\ RestOf(b) \in Seq(Piece)
               /\ \A i \in DOMAIN RestOf(b) : ~ EndsLine(RestOf(b)[i])
<1> DEFINE chunk == SubSeq(Content, from + 1, upTo)
           b == kept \o chunk
           c == IF from + 1 <= upTo THEN upTo - from ELSE 0
           a == IF from % 2 = 0 THEN Len(kept) ELSE Len(kept) - 1
           m == IF from % 2 = 0 THEN c \div 2 ELSE (c + 1) \div 2
<1>0. MaxLength \in Nat /\ MaxLog \in Nat
  BY LogTailAssumption
<1>1. /\ \A i \in from + 1 .. upTo : Content[i] = <<log, i>>
      /\ \A i \in from + 1 .. upTo : Content[i] \in Piece
  <2>1. \A i \in from + 1 .. upTo : i \in 1 .. length /\ i \in 1 .. MaxLength
    BY <1>0
  <2> QED
    BY <2>1 DEF Content, Piece
<1>2. /\ chunk \in Seq(Piece) /\ Len(chunk) = c /\ c \in Nat
      /\ \A i \in 1 .. c : chunk[i] = <<log, from + i>>
  <2>1. /\ chunk \in Seq(Piece)
        /\ Len(chunk) = IF from + 1 <= upTo THEN upTo - (from + 1) + 1 ELSE 0
        /\ \A i \in 1 .. upTo - (from + 1) + 1 : chunk[i] = Content[(from + 1) + i - 1]
    <3>1. from + 1 \in Int /\ upTo \in Int
      OBVIOUS
    <3>2. \A i \in from + 1 .. upTo : Content[i] \in Piece
      BY <1>1
    <3> QED
      BY <3>1, <3>2, SubSeqProperties
  <2>2. \A i \in 1 .. c : /\ i \in 1 .. upTo - (from + 1) + 1
                          /\ (from + 1) + i - 1 = from + i
                          /\ from + i \in from + 1 .. upTo
    OBVIOUS
  <2> QED
    BY <1>1, <2>1, <2>2
<1> HIDE DEF chunk, c
<1>9. Len(kept) \in Nat /\ DOMAIN kept = 1 .. Len(kept)
  OBVIOUS
<1>3. /\ b \in Seq(Piece) /\ Len(b) = Len(kept) + c /\ Len(kept) \in Nat
      /\ \A i \in 1 .. Len(kept) : ~ EndsLine(b[i])
      /\ \A i \in 1 .. c : b[Len(kept) + i] = <<log, from + i>>
  <2>1. /\ b \in Seq(Piece) /\ Len(b) = Len(kept) + Len(chunk)
        /\ \A i \in 1 .. Len(kept) + Len(chunk) :
              b[i] = IF i <= Len(kept) THEN kept[i] ELSE chunk[i - Len(kept)]
    BY <1>2, ConcatProperties, Zenon
  <2>2. \A i \in 1 .. Len(kept) : b[i] = kept[i]
    BY <1>2, <1>9, <2>1
  <2>3. ASSUME NEW i \in 1 .. c PROVE b[Len(kept) + i] = chunk[i]
    <3>1. Len(kept) + i \in 1 .. Len(kept) + Len(chunk) /\ ~ (Len(kept) + i <= Len(kept))
      BY <1>2, <1>9
    <3>2. (Len(kept) + i) - Len(kept) = i
      BY <1>9
    <3> QED
      BY <2>1, <3>1, <3>2
  <2> QED
    BY <1>2, <1>9, <2>1, <2>2, <2>3
<1> HIDE DEF b
<1>4. PICK f \in Nat : (from = 2 * f /\ from % 2 = 0) \/ (from = 2 * f + 1 /\ from % 2 = 1)
  BY Halves
<1>5. /\ a = Len(kept) + 2 * f - from /\ a \in Int /\ m \in Nat
      /\ 2 * m <= c + from - 2 * f /\ c + from - 2 * f < 2 * m + 2
  <2>1. CASE from % 2 = 0
    <3>1. PICK h \in Nat : h = c \div 2 /\ (c = 2 * h \/ c = 2 * h + 1)
      BY <1>2, Halves
    <3>2. a = Len(kept) /\ m = h /\ from = 2 * f
      BY <1>4, <2>1, <3>1
    <3> HIDE DEF a, m
    <3> QED
      BY <1>2, <1>9, <3>1, <3>2
  <2>2. CASE from % 2 = 1
    <3>1. PICK h \in Nat : h = (c + 1) \div 2 /\ (c + 1 = 2 * h \/ c + 1 = 2 * h + 1)
      <4>1. c + 1 \in Nat
        BY <1>2
      <4> QED
        BY <4>1, Halves
    <3>2. a = Len(kept) - 1 /\ m = h /\ from = 2 * f + 1
      BY <1>4, <2>2, <3>1
    <3> HIDE DEF a, m
    <3> QED
      BY <1>2, <1>9, <3>1, <3>2
  <2> QED
    BY <1>4, <2>1, <2>2
<1> HIDE DEF a, m
<1>6. Ends(b) = {a + 2 * k : k \in 1 .. m}
  <2>1. DOMAIN b = 1 .. Len(kept) + c
    BY <1>3
  <2>2. \A j \in 1 .. c : EndsLine(b[Len(kept) + j]) <=> (from + j) % 2 = 0
    <3>1. \A j : EndsLine(<<log, from + j>>) <=> (from + j) % 2 = 0
      BY DEF EndsLine
    <3> QED
      BY <1>3, <3>1
  <2>3. ASSUME NEW i \in Ends(b) PROVE \E k \in 1 .. m : i = a + 2 * k
    <3>1. i \in 1 .. Len(kept) + c /\ i \notin 1 .. Len(kept)
      BY <1>3, <2>1, <2>3 DEF Ends
    <3> DEFINE j == i - Len(kept)
    <3>2. j \in 1 .. c /\ i = Len(kept) + j
      BY <1>2, <1>9, <3>1
    <3> HIDE DEF j
    <3>3. (from + j) % 2 = 0
      BY <2>2, <2>3, <3>2 DEF Ends
    <3>4. PICK e \in Nat : from + j = 2 * e
      BY <1>2, <3>2, <3>3, Halves
    <3>5. e - f \in 1 .. m
      <4>1. j \in Int /\ 1 <= j /\ j <= c /\ c \in Int /\ m \in Int /\ e \in Int
        BY <1>2, <1>5, <3>2
      <4>2. from + j = 2 * e /\ from \in {2 * f, 2 * f + 1}
        BY <1>4, <3>4
      <4>3. c + from - 2 * f < 2 * m + 2
        BY <1>5
      <4>4. e - f >= 1
        BY <4>1, <4>2
      <4>5. e - f <= m
        BY <4>1, <4>2, <4>3
      <4> QED
        BY <4>1, <4>4, <4>5
    <3>6. i = a + 2 * (e - f)
      <4>1. a = Len(kept) + 2 * f - from /\ a \in Int
        BY <1>5
      <4>2. j \in Int /\ i = Len(kept) + j /\ from + j = 2 * e
        BY <1>2, <3>2, <3>4
      <4> QED
        BY <1>9, <4>1, <4>2
    <3> QED
      BY <3>5, <3>6
  <2>4. ASSUME NEW k \in 1 .. m PROVE a + 2 * k \in Ends(b)
    <3> DEFINE j == 2 * f + 2 * k - from
    <3>1. j \in 1 .. c /\ from + j = 2 * (f + k) /\ a + 2 * k = Len(kept) + j
      BY <1>2, <1>4, <1>5, <1>9
    <3> HIDE DEF j
    <3>2. (from + j) % 2 = 0
      BY <3>1
    <3>3. EndsLine(b[Len(kept) + j])
      BY <2>2, <3>1, <3>2
    <3>4. Len(kept) + j \in DOMAIN b
      BY <1>2, <1>9, <2>1, <3>1
    <3> QED
      BY <3>1, <3>3, <3>4 DEF Ends
  <2> QED
    BY <2>3, <2>4
<1>7. /\ LinesOf(b) \in Seq(Seq(Piece))
      /\ RestOf(b) \in Seq(Piece)
      /\ \A i \in DOMAIN RestOf(b) : ~ EndsLine(RestOf(b)[i])
  BY <1>3, <1>5, <1>6, SplitTyped, Zenon
<1> QED
  BY <1>7 DEF b, chunk

-----------------------------------------------------------------------------
(* Types                                                                    *)

Typed ==
    /\ TypeOK
    /\ delivered \in Seq(Seq(Piece))
    /\ \A i \in DOMAIN buf : ~ EndsLine(buf[i])

\* The scalars of the state.
Flags == exists \in BOOLEAN /\ unseen \in BOOLEAN /\ catchingUp \in BOOLEAN
Numbers ==
    /\ log \in 0 .. MaxLog /\ length \in 0 .. MaxLength
    /\ pc \in {"stat", "read"}
    /\ pos \in 0 .. MaxLength /\ size \in 0 .. MaxLength

LEMMA TypedIs ==
    Typed <=> /\ Flags /\ Numbers
              /\ buf \in Seq(Piece) /\ delivered \in Seq(Seq(Piece))
              /\ \A i \in DOMAIN buf : ~ EndsLine(buf[i])
<1>1. delivered \in Seq(Seq(Piece)) => \A i \in DOMAIN delivered : delivered[i] \in Seq(Piece)
  OBVIOUS
<1> QED
  BY <1>1, Zenon DEF Typed, TypeOK, Flags, Numbers

LEMMA StepTyped == Typed /\ [Next]_vars => Typed'
<1> SUFFICES ASSUME Typed, [Next]_vars PROVE Typed'
  OBVIOUS
<1>0. /\ MaxLength \in Nat /\ MaxLog \in Nat /\ Flags /\ Numbers
      /\ buf \in Seq(Piece) /\ delivered \in Seq(Seq(Piece))
      /\ \A i \in DOMAIN buf : ~ EndsLine(buf[i])
  BY LogTailAssumption, TypedIs
<1>1. ASSUME Flags', Numbers',
             UNCHANGED <<delivered, buf>> \/ (delivered' = << >> /\ buf' = << >>)
      PROVE  Typed'
  <2>1. << >> \in Seq(Piece) /\ << >> \in Seq(Seq(Piece)) /\ DOMAIN << >> = {}
    OBVIOUS
  <2>2. /\ buf' \in Seq(Piece) /\ delivered' \in Seq(Seq(Piece))
        /\ \A i \in DOMAIN buf' : ~ EndsLine(buf'[i])
    BY <1>0, <1>1, <2>1
  <2>3. \A i \in DOMAIN delivered' : delivered'[i] \in Seq(Piece)
    BY <2>2
  <2> QED
    BY <1>1, <2>2, <2>3, Zenon DEF Typed, TypeOK, Flags, Numbers
<1>2. CASE Writers \/ StatShrunk \/ StatGrown \/ StatEqual \/ ReadMissing \/ UNCHANGED vars
  <2>1. Flags'
    <3>0. Flags
      BY <1>0
    <3>1. CASE Writers
      BY <3>0, <3>1, Zenon DEF Flags, Writers, Truncate, Rotate, WriteMore, tailVars
    <3>4. (length > 0) \in BOOLEAN
      OBVIOUS
    <3>2. CASE StatShrunk \/ StatGrown \/ StatEqual \/ ReadMissing \/ UNCHANGED vars
      BY <3>0, <3>4, <3>2, Zenon
         DEF Flags, StatShrunk, StatGrown, StatEqual, ReadMissing, vars, file, tailVars
    <3> QED
      BY <1>2, <3>1, <3>2
  <2>3. Numbers'
    <3>1. CASE Writers
      BY <1>0, <3>1 DEF Numbers, Writers, Truncate, Rotate, WriteMore, tailVars
    <3>2. CASE StatShrunk \/ StatGrown \/ StatEqual
      BY <1>0, <3>2 DEF Numbers, StatShrunk, StatGrown, StatEqual, file
    <3>3. CASE ReadMissing \/ UNCHANGED vars
      BY <1>0, <3>3 DEF Numbers, ReadMissing, vars, file, tailVars
    <3> QED
      BY <1>2, <3>1, <3>2, <3>3
  <2>2. UNCHANGED <<delivered, buf>> \/ (delivered' = << >> /\ buf' = << >>)
    BY <1>2 DEF StatShrunk, StatGrown, StatEqual, ReadMissing, Writers, Truncate, Rotate,
                WriteMore, vars, tailVars
  <2> QED
    BY <1>1, <2>1, <2>2, <2>3
<1>3. CASE Read
  <2> DEFINE upTo == IF size < length THEN size ELSE length
             b == buf \o SubSeq(Content, pos + 1, upTo)
  <2>1. /\ delivered' = delivered \o LinesOf(b) /\ buf' = RestOf(b)
        /\ pos' = size /\ pc' = "stat"
        /\ UNCHANGED <<file, unseen, size, catchingUp>>
    BY <1>3 DEF Read
  <2>2. upTo \in Nat /\ upTo <= length /\ pos \in Nat
    BY <1>0 DEF Flags, Numbers
  <2> HIDE DEF upTo
  <2>3. /\ LinesOf(b) \in Seq(Seq(Piece))
        /\ RestOf(b) \in Seq(Piece)
        /\ \A i \in DOMAIN RestOf(b) : ~ EndsLine(RestOf(b)[i])
    BY <1>0, <2>2, ChunkSplits DEF Flags, Numbers
  <2> HIDE DEF b
  <2>4. delivered' \in Seq(Seq(Piece))
    BY <1>0, <2>1, <2>3, ConcatProperties
  <2>5. Flags'
    BY <1>0, <2>1, Zenon DEF Flags, file
  <2>6. Numbers'
    BY <1>0, <2>1 DEF Numbers, file
  <2>7. \A i \in DOMAIN delivered' : delivered'[i] \in Seq(Piece)
    BY <2>4
  <2> QED
    BY <2>1, <2>3, <2>4, <2>5, <2>6, <2>7, Zenon DEF Typed, TypeOK, Flags, Numbers
<1> QED
  BY <1>2, <1>3 DEF Next, Tailer

LEMMA AlwaysTyped == Spec => []Typed
<1>1. Init => Typed
  <2>1. MaxLength \in Nat /\ MaxLog \in Nat
    BY LogTailAssumption
  <2>2. << >> \in Seq(Piece) /\ << >> \in Seq(Seq(Piece))
    OBVIOUS
  <2>3. Init => Flags
    BY Zenon DEF Init, Flags
  <2>4. Init => Numbers
    BY <2>1 DEF Init, Numbers
  <2> QED
    BY <2>2, <2>3, <2>4, TypedIs DEF Init
<1> QED
  BY <1>1, StepTyped, PTL DEF Spec

\* Whatever is truncated, replaced or written between a stat and a read, a new
\* log growing as fast as it may: what is delivered are sequences of pieces, and
\* the position and the size read never leave the length a log can have.
THEOREM TypeCorrect == Spec => []TypeOK
  BY AlwaysTyped, PTL DEF Typed

-----------------------------------------------------------------------------
(* What is delivered                                                        *)

\* The j-th line of log g, its first n pieces as lines, and the rest of them.
Line(g, j) == << <<g, 2 * j - 1>>, <<g, 2 * j>> >>
LinesUpTo(g, n) == [j \in 1 .. n \div 2 |-> Line(g, j)]
HalfLine(g, n) == IF n % 2 = 1 THEN << <<g, n>> >> ELSE << >>

\* The pieces of log g from the start of a line on.
Run(g, h, q) == [k \in 1 .. q - 2 * h |-> <<g, 2 * h + k>>]

LEMMA RunSplits ==
    ASSUME NEW g \in 0 .. MaxLog, NEW h \in Nat, NEW q \in 0 .. MaxLength, 2 * h <= q
    PROVE  /\ LinesOf(Run(g, h, q)) = [j \in 1 .. (q \div 2) - h |-> Line(g, h + j)]
           /\ RestOf(Run(g, h, q)) = HalfLine(g, q)
<1> DEFINE b == Run(g, h, q)
           m == (q \div 2) - h
<1>1. PICK e \in Nat : /\ e = q \div 2
                       /\ (q = 2 * e /\ q % 2 = 0) \/ (q = 2 * e + 1 /\ q % 2 = 1)
  <2>1. q \in Nat
    BY LogTailAssumption
  <2> QED
    BY <2>1, Halves
<1>2. m = e - h /\ m \in Nat
  BY <1>1
<1> HIDE DEF m
<1>3. /\ \A k \in 1 .. q - 2 * h : b[k] = <<g, 2 * h + k>> /\ b[k] \in Piece
      /\ b \in Seq(Piece) /\ Len(b) = q - 2 * h /\ DOMAIN b = 1 .. q - 2 * h
  <2>1. \A k \in 1 .. q - 2 * h : 2 * h + k \in 1 .. MaxLength
    BY LogTailAssumption
  <2>2. q - 2 * h \in Nat
    BY LogTailAssumption
  <2>3. \A k \in 1 .. q - 2 * h : <<g, 2 * h + k>> \in Piece
    BY <2>1 DEF Piece
  <2> QED
    BY <2>2, <2>3 DEF Run
<1> HIDE DEF b
<1>4. Ends(b) = {0 + 2 * k : k \in 1 .. m}
  <2>1. \A j \in 1 .. q - 2 * h : EndsLine(b[j]) <=> (2 * h + j) % 2 = 0
    <3>1. \A j : EndsLine(<<g, 2 * h + j>>) <=> (2 * h + j) % 2 = 0
      BY DEF EndsLine
    <3> QED
      BY <1>3, <3>1
  <2>2. ASSUME NEW i \in Ends(b) PROVE \E k \in 1 .. m : i = 0 + 2 * k
    <3>1. i \in 1 .. q - 2 * h /\ (2 * h + i) % 2 = 0
      BY <1>3, <2>1 DEF Ends
    <3>2. PICK k \in Nat : 2 * h + i = 2 * k
      <4> DEFINE x == 2 * h + i
      <4>1. x \in Nat /\ x % 2 = 0
        BY <1>1, <3>1
      <4> HIDE DEF x
      <4>2. \E k \in Nat : x = 2 * k
        BY <4>1, Halves
      <4> QED
        BY <4>2 DEF x
    <3>3. k - h \in 1 .. m /\ i = 0 + 2 * (k - h)
      BY <1>1, <1>2, <3>1, <3>2
    <3> QED
      BY <3>3
  <2>3. ASSUME NEW k \in 1 .. m PROVE 0 + 2 * k \in Ends(b)
    <3>1. 2 * k \in 1 .. q - 2 * h /\ 2 * h + 2 * k = 2 * (h + k)
      BY <1>1, <1>2
    <3>2. (2 * h + 2 * k) % 2 = 0
      BY <3>1
    <3> QED
      BY <1>3, <2>1, <3>1, <3>2 DEF Ends
  <2> QED
    BY <2>2, <2>3
<1>5. /\ LinesOf(b) = [n \in 1 .. m |->
            SubSeq(b, IF n = 1 THEN 1 ELSE 0 + 2 * n - 1, 0 + 2 * n)]
      /\ RestOf(b) = SubSeq(b, IF m = 0 THEN 1 ELSE 0 + 2 * m + 1, Len(b))
  <2> DEFINE a == 0
  <2>1. a \in Int /\ m \in Nat
    BY <1>2
  <2>2. Ends(b) = {a + 2 * k : k \in 1 .. m}
    BY <1>4
  <2> HIDE DEF a
  <2>3. /\ LinesOf(b) = [n \in 1 .. m |->
              SubSeq(b, IF n = 1 THEN 1 ELSE a + 2 * n - 1, a + 2 * n)]
        /\ RestOf(b) = SubSeq(b, IF m = 0 THEN 1 ELSE a + 2 * m + 1, Len(b))
    BY <2>1, <2>2, Splits, Zenon
  <2> QED
    BY <2>3 DEF a
<1>6. ASSUME NEW n \in 1 .. m
      PROVE  SubSeq(b, IF n = 1 THEN 1 ELSE 0 + 2 * n - 1, 0 + 2 * n) = Line(g, h + n)
  <2>1. /\ (IF n = 1 THEN 1 ELSE 0 + 2 * n - 1) = 2 * n - 1
        /\ 0 + 2 * n = 2 * n /\ 2 * n - 1 \in Int /\ 2 * n \in Int
        /\ 2 * n - 1 \in 1 .. q - 2 * h /\ 2 * n \in 1 .. q - 2 * h
    BY <1>1, <1>2
  <2> DEFINE t == SubSeq(b, 2 * n - 1, 2 * n)
  <2>2. \A i \in 2 * n - 1 .. 2 * n : b[i] \in Piece
    BY <1>3, <2>1
  <2>3. /\ t \in Seq(Piece)
        /\ Len(t) = IF 2 * n - 1 <= 2 * n THEN 2 * n - (2 * n - 1) + 1 ELSE 0
        /\ \A i \in 1 .. 2 * n - (2 * n - 1) + 1 : t[i] = b[(2 * n - 1) + i - 1]
    BY <2>1, <2>2, SubSeqProperties
  <2> HIDE DEF t
  <2>4. Len(t) = 2 /\ t[1] = b[2 * n - 1] /\ t[2] = b[2 * n]
    <3>1. /\ 2 * n - (2 * n - 1) + 1 = 2 /\ (2 * n - 1) + 1 - 1 = 2 * n - 1
          /\ (2 * n - 1) + 2 - 1 = 2 * n /\ 2 * n - 1 <= 2 * n
      BY <2>1
    <3> QED
      BY <2>3, <3>1
  <2>5. t = <<b[2 * n - 1], b[2 * n]>>
    BY <2>3, <2>4
  <2>6. b[2 * n - 1] = <<g, 2 * (h + n) - 1>> /\ b[2 * n] = <<g, 2 * (h + n)>>
    <3>1. 2 * h + (2 * n - 1) = 2 * (h + n) - 1 /\ 2 * h + 2 * n = 2 * (h + n)
      OBVIOUS
    <3>2. b[2 * n - 1] = <<g, 2 * h + (2 * n - 1)>> /\ b[2 * n] = <<g, 2 * h + 2 * n>>
      BY <1>3, <2>1
    <3> QED
      BY <3>1, <3>2
  <2> QED
    BY <2>1, <2>5, <2>6 DEF t, Line
<1>7. LinesOf(b) = [j \in 1 .. m |-> Line(g, h + j)]
  BY <1>5, <1>6
<1>8. RestOf(b) = HalfLine(g, q)
  <2>1. RestOf(b) = SubSeq(b, 2 * m + 1, Len(b))
    <3>1. (IF m = 0 THEN 1 ELSE 0 + 2 * m + 1) = 2 * m + 1
      BY <1>2
    <3> QED
      BY <1>5, <3>1
  <2>2. CASE q % 2 = 0
    <3>1. 2 * m + 1 \in Int /\ Len(b) \in Int /\ Len(b) < 2 * m + 1
      BY <1>1, <1>2, <1>3, <2>2
    <3>2. SubSeq(b, 2 * m + 1, Len(b)) = << >>
      BY <3>1, SubSeqEmpty
    <3>3. HalfLine(g, q) = << >>
      BY <2>2 DEF HalfLine
    <3> QED
      BY <2>1, <3>2, <3>3
  <2>3. CASE q % 2 = 1
    <3> DEFINE u == q - 2 * h
               t == SubSeq(b, u, u)
    <3>1. 2 * m + 1 = u /\ Len(b) = u /\ u \in 1 .. q - 2 * h /\ u \in Int
      BY <1>1, <1>2, <1>3, <2>3
    <3>2. b[u] = <<g, q>> /\ b[u] \in Piece
      <4>1. 2 * h + u = q
        BY <1>1
      <4> QED
        BY <1>3, <3>1, <4>1
    <3>3. HalfLine(g, q) = << <<g, q>> >>
      BY <2>3 DEF HalfLine
    <3>4. RestOf(b) = t
      BY <2>1, <3>1
    <3> HIDE DEF u
    <3>5. \A i \in u .. u : b[i] \in Piece
      BY <3>1, <3>2
    <3>6. /\ t \in Seq(Piece)
          /\ Len(t) = IF u <= u THEN u - u + 1 ELSE 0
          /\ \A i \in 1 .. u - u + 1 : t[i] = b[u + i - 1]
      BY <3>1, <3>5, SubSeqProperties
    <3> HIDE DEF t
    <3>7. Len(t) = 1 /\ t[1] = b[u]
      BY <3>1, <3>6
    <3>8. t = << <<g, q>> >>
      BY <3>2, <3>6, <3>7
    <3> QED
      BY <3>3, <3>4, <3>8
  <2> QED
    BY <1>1, <2>2, <2>3
<1> QED
  BY <1>7, <1>8 DEF b, m

LEMMA HalfLineIs ==
    ASSUME NEW g \in 0 .. MaxLog, NEW p \in 0 .. MaxLength, NEW h \in Nat,
           (p = 2 * h /\ p % 2 = 0) \/ (p = 2 * h + 1 /\ p % 2 = 1)
    PROVE  /\ HalfLine(g, p) \in Seq(Piece) /\ Len(HalfLine(g, p)) = p - 2 * h
           /\ \A i \in 1 .. p - 2 * h : HalfLine(g, p)[i] = <<g, 2 * h + i>>
<1>1. CASE p = 2 * h /\ p % 2 = 0
  <2>1. HalfLine(g, p) = << >>
    BY <1>1 DEF HalfLine
  <2>2. p - 2 * h = 0
    BY <1>1
  <2>3. << >> \in Seq(Piece) /\ Len(<< >>) = 0 /\ 1 .. 0 = {}
    OBVIOUS
  <2> QED
    BY <2>1, <2>2, <2>3
<1>2. CASE p = 2 * h + 1 /\ p % 2 = 1
  <2>1. HalfLine(g, p) = << <<g, p>> >>
    BY <1>2 DEF HalfLine
  <2>2. <<g, p>> \in Piece
    BY <1>2, LogTailAssumption DEF Piece
  <2>3. p - 2 * h = 1 /\ 2 * h + 1 = p
    BY <1>2
  <2> QED
    BY <2>1, <2>2, <2>3
<1> QED
  BY <1>1, <1>2

\* Half a line and what is read after it are the pieces from its start on.
LEMMA ReadOn ==
    ASSUME log \in 0 .. MaxLog, length \in 0 .. MaxLength,
           NEW p \in 0 .. MaxLength, NEW q \in 0 .. length, p <= q,
           NEW h \in Nat,
           (p = 2 * h /\ p % 2 = 0) \/ (p = 2 * h + 1 /\ p % 2 = 1)
    PROVE  HalfLine(log, p) \o SubSeq(Content, p + 1, q) = Run(log, h, q)
<1> DEFINE kept == HalfLine(log, p)
           chunk == SubSeq(Content, p + 1, q)
           b == kept \o chunk
<1>1. /\ p \in Nat /\ q \in Nat /\ MaxLength \in Nat /\ length \in Nat
      /\ p + 1 \in Int /\ 2 * h <= p
  BY LogTailAssumption
<1>2. /\ kept \in Seq(Piece) /\ Len(kept) = p - 2 * h
      /\ \A i \in 1 .. p - 2 * h : kept[i] = <<log, 2 * h + i>>
  BY HalfLineIs
<1> HIDE DEF kept
<1>3. /\ chunk \in Seq(Piece) /\ Len(chunk) = q - p
      /\ \A i \in 1 .. q - p : chunk[i] = <<log, p + i>>
  <2>1. \A i \in p + 1 .. q : Content[i] = <<log, i>> /\ Content[i] \in Piece
    <3>1. \A i \in p + 1 .. q : i \in 1 .. length /\ i \in 1 .. MaxLength
      BY <1>1
    <3> QED
      BY <3>1 DEF Content, Piece
  <2>2. /\ chunk \in Seq(Piece)
        /\ Len(chunk) = IF p + 1 <= q THEN q - (p + 1) + 1 ELSE 0
        /\ \A i \in 1 .. q - (p + 1) + 1 : chunk[i] = Content[(p + 1) + i - 1]
    BY <1>1, <2>1, SubSeqProperties
  <2> HIDE DEF chunk
  <2>3. ASSUME NEW i \in 1 .. q - p PROVE chunk[i] = <<log, p + i>>
    <3>1. /\ i \in 1 .. q - (p + 1) + 1 /\ (p + 1) + i - 1 = p + i
          /\ p + i \in p + 1 .. q
      BY <1>1
    <3> QED
      BY <2>1, <2>2, <3>1
  <2>4. Len(chunk) = q - p
    BY <1>1, <2>2
  <2> QED
    BY <2>2, <2>3, <2>4
<1> HIDE DEF chunk
<1>4. /\ b \in Seq(Piece) /\ Len(b) = Len(kept) + Len(chunk)
      /\ \A i \in 1 .. Len(kept) + Len(chunk) :
            b[i] = IF i <= Len(kept) THEN kept[i] ELSE chunk[i - Len(kept)]
  BY <1>2, <1>3, ConcatProperties
<1> HIDE DEF b
<1>5. Len(b) = q - 2 * h /\ DOMAIN b = 1 .. q - 2 * h
  <2>1. Len(kept) + Len(chunk) = q - 2 * h
    BY <1>1, <1>2, <1>3
  <2> QED
    BY <1>4, <2>1
<1>6. ASSUME NEW i \in 1 .. q - 2 * h PROVE b[i] = <<log, 2 * h + i>>
  <2>1. CASE i <= Len(kept)
    <3>1. i \in 1 .. p - 2 * h /\ i \in 1 .. Len(kept) + Len(chunk)
      BY <1>1, <1>2, <1>3, <2>1
    <3> QED
      BY <1>2, <1>4, <2>1, <3>1
  <2>2. CASE ~ (i <= Len(kept))
    <3>1. /\ i - Len(kept) \in 1 .. q - p /\ i \in 1 .. Len(kept) + Len(chunk)
          /\ p + (i - Len(kept)) = 2 * h + i
      BY <1>1, <1>2, <1>3, <2>2
    <3> QED
      BY <1>3, <1>4, <2>2, <3>1
  <2> QED
    BY <2>1, <2>2
<1>7. b = Run(log, h, q)
  <2>1. b = [k \in 1 .. q - 2 * h |-> b[k]]
    BY <1>4, <1>5
  <2> QED
    BY <1>6, <2>1 DEF Run
<1> QED
  BY <1>7 DEF b, kept, chunk

\* What was delivered and the lines read on are the lines up to there.
LEMMA LinesOn ==
    ASSUME NEW g, NEW h \in Nat, NEW e \in Nat, h <= e
    PROVE  [j \in 1 .. h |-> Line(g, j)] \o [j \in 1 .. e - h |-> Line(g, h + j)]
             = [j \in 1 .. e |-> Line(g, j)]
<1> DEFINE S == {Line(g, j) : j \in Nat}
           s == [j \in 1 .. h |-> Line(g, j)]
           t == [j \in 1 .. e - h |-> Line(g, h + j)]
           u == [j \in 1 .. e |-> Line(g, j)]
<1>1. /\ s \in Seq(S) /\ Len(s) = h
      /\ \A j \in 1 .. h : s[j] = Line(g, j)
  <2>1. \A j \in 1 .. h : Line(g, j) \in S
    OBVIOUS
  <2> HIDE DEF S
  <2> QED
    BY <2>1
<1>2. /\ t \in Seq(S) /\ Len(t) = e - h
      /\ \A j \in 1 .. e - h : t[j] = Line(g, h + j)
  <2>1. \A j \in 1 .. e - h : Line(g, h + j) \in S
    OBVIOUS
  <2>2. e - h \in Nat
    OBVIOUS
  <2> HIDE DEF S
  <2> QED
    BY <2>1, <2>2
<1>3. /\ u \in Seq(S) /\ Len(u) = e
      /\ \A j \in 1 .. e : u[j] = Line(g, j)
  <2>1. \A j \in 1 .. e : Line(g, j) \in S
    OBVIOUS
  <2> HIDE DEF S
  <2> QED
    BY <2>1
<1> HIDE DEF S, s, t, u
<1>4. /\ s \o t \in Seq(S) /\ Len(s \o t) = h + (e - h)
      /\ \A i \in 1 .. h + (e - h) : (s \o t)[i] = IF i <= h THEN s[i] ELSE t[i - h]
  <2>1. /\ s \o t \in Seq(S) /\ Len(s \o t) = Len(s) + Len(t)
        /\ \A i \in 1 .. Len(s) + Len(t) :
              (s \o t)[i] = IF i <= Len(s) THEN s[i] ELSE t[i - Len(s)]
    <3>1. s \in Seq(S) /\ t \in Seq(S)
      BY <1>1, <1>2
    <3> QED
      BY <3>1, ConcatProperties, Zenon
  <2>2. Len(s) = h /\ Len(t) = e - h
    BY <1>1, <1>2
  <2> QED
    BY <2>1, <2>2
<1>5. ASSUME NEW i \in 1 .. e PROVE (s \o t)[i] = u[i]
  <2>1. CASE i <= h
    BY <1>1, <1>3, <1>4, <2>1
  <2>2. CASE ~ (i <= h)
    <3>1. i - h \in 1 .. e - h /\ h + (i - h) = i /\ i \in 1 .. h + (e - h)
      BY <2>2
    <3> QED
      BY <1>2, <1>3, <1>4, <2>2, <3>1
  <2> QED
    BY <2>1, <2>2
<1>6. s \o t = u
  <2>1. Len(s \o t) = Len(u) /\ Len(s \o t) = e
    BY <1>3, <1>4
  <2> QED
    BY <1>3, <1>4, <1>5, <2>1, SeqEqual
<1> QED
  BY <1>6 DEF s, t, u

\* Reading on from an exact position leads to an exact position.
LEMMA ReadsExactly ==
    ASSUME log \in 0 .. MaxLog, length \in 0 .. MaxLength,
           NEW p \in 0 .. MaxLength, NEW q \in 0 .. length, p <= q
    PROVE  LET b == HalfLine(log, p) \o SubSeq(Content, p + 1, q)
           IN  /\ LinesUpTo(log, p) \o LinesOf(b) = LinesUpTo(log, q)
               /\ RestOf(b) = HalfLine(log, q)
<1>0. p \in Nat /\ q \in Nat /\ q \in 0 .. MaxLength
  BY LogTailAssumption
<1>1. PICK h \in Nat : /\ h = p \div 2
                       /\ (p = 2 * h /\ p % 2 = 0) \/ (p = 2 * h + 1 /\ p % 2 = 1)
  BY <1>0, Halves
<1>2. PICK e \in Nat : /\ e = q \div 2
                       /\ (q = 2 * e /\ q % 2 = 0) \/ (q = 2 * e + 1 /\ q % 2 = 1)
  BY <1>0, Halves
<1>3. h <= e /\ 2 * h <= q
  BY <1>0, <1>1, <1>2
<1> DEFINE b == HalfLine(log, p) \o SubSeq(Content, p + 1, q)
<1>4. b = Run(log, h, q)
  BY <1>1, ReadOn
<1>5. /\ LinesOf(b) = [j \in 1 .. e - h |-> Line(log, h + j)]
      /\ RestOf(b) = HalfLine(log, q)
  <2>1. /\ LinesOf(Run(log, h, q)) = [j \in 1 .. (q \div 2) - h |-> Line(log, h + j)]
        /\ RestOf(Run(log, h, q)) = HalfLine(log, q)
    BY <1>0, <1>3, RunSplits
  <2> QED
    BY <1>2, <1>4, <2>1
<1>6. /\ LinesUpTo(log, p) = [j \in 1 .. h |-> Line(log, j)]
      /\ LinesUpTo(log, q) = [j \in 1 .. e |-> Line(log, j)]
  BY <1>1, <1>2 DEF LinesUpTo
<1>7. [j \in 1 .. h |-> Line(log, j)] \o [j \in 1 .. e - h |-> Line(log, h + j)]
        = [j \in 1 .. e |-> Line(log, j)]
  BY <1>3, LinesOn
<1> HIDE DEF b
<1>8. LinesUpTo(log, p) \o LinesOf(b) = LinesUpTo(log, q)
  BY <1>5, <1>6, <1>7
<1> QED
  BY <1>5, <1>8 DEF b

-----------------------------------------------------------------------------
(* The tailer is exact                                                      *)

Exact == delivered = LinesUpTo(log, pos) /\ buf = HalfLine(log, pos)

\* While the tailer knows the file its position is exact; once the file has
\* been replaced, it is shorter than what the tailer believes to have read.
Known ==
    /\ ~ unseen /\ pc = "stat" => pos <= length /\ Exact
    /\ ~ unseen /\ pc = "read" => exists /\ pos < size /\ size <= length /\ Exact
    /\ unseen /\ Horizon > 0 => length < Horizon

Followed ==
    /\ ~ exists => length = 0
    /\ pos = 0 => delivered = << >> /\ buf = << >>
    /\ pc = "read" => size > 0
    /\ SlowRegrow => Known

LEMMA ExactFromStart ==
    \A g : LinesUpTo(g, 0) = << >> /\ HalfLine(g, 0) = << >>
<1>1. 0 \div 2 = 0 /\ 0 % 2 = 0 /\ 1 .. 0 = {}
  OBVIOUS
<1>2. \A g : HalfLine(g, 0) = << >>
  BY <1>1 DEF HalfLine
<1>3. ASSUME NEW g PROVE LinesUpTo(g, 0) = << >>
  <2>1. LinesUpTo(g, 0) = [j \in 1 .. 0 |-> Line(g, j)]
    BY <1>1 DEF LinesUpTo
  <2> QED
    BY <2>1
<1> QED
  BY <1>2, <1>3

LEMMA StepFollowed == Typed /\ Followed /\ [Next]_vars => Followed'
<1> SUFFICES ASSUME Typed, Followed, [Next]_vars PROVE Followed'
  OBVIOUS
<1>0. /\ MaxLength \in Nat /\ MaxLog \in Nat /\ log \in 0 .. MaxLog
      /\ length \in 0 .. MaxLength /\ pos \in 0 .. MaxLength /\ size \in 0 .. MaxLength
      /\ pc \in {"stat", "read"}
  BY LogTailAssumption, TypedIs DEF Numbers
\* The writers: whatever they do to a file makes it longer or unknown.
<1>1. CASE Truncate \/ Rotate
  <2>1. UNCHANGED tailVars /\ unseen' = TRUE /\ length' = 0
    BY <1>1 DEF Truncate, Rotate
  <2>2. Horizon' = Horizon /\ Horizon \in Nat
    BY <1>0, <2>1 DEF Horizon, tailVars
  <2>3. Known'
    BY <2>1, <2>2 DEF Known
  <2> QED
    BY <2>1, <2>3 DEF Followed, tailVars
<1>2. CASE WriteMore
  <2>1. UNCHANGED <<exists, log, unseen, tailVars>> /\ length' = length + 1 /\ exists
        /\ (SlowRegrow /\ unseen /\ Horizon > 0 => length + 1 < Horizon)
    BY <1>2 DEF WriteMore
  <2>2. Horizon' = Horizon /\ (Exact' <=> Exact)
    BY <2>1 DEF Horizon, Exact, tailVars
  <2>3. SlowRegrow => Known'
    BY <1>0, <2>1, <2>2 DEF Followed, Known, tailVars
  <2> QED
    BY <2>1, <2>3 DEF Followed, tailVars
\* The tailer.
<1>3. CASE StatShrunk
  <2>1. /\ unseen' = FALSE /\ size' = length /\ pos' = 0 /\ delivered' = << >>
        /\ buf' = << >> /\ exists /\ UNCHANGED file
        /\ pc' = IF length > 0 THEN "read" ELSE "stat"
    BY <1>3 DEF StatShrunk
  <2>2. Exact'
    BY <2>1, ExactFromStart DEF Exact
  <2>3. Known'
    BY <1>0, <2>1, <2>2 DEF Known, file
  <2> QED
    BY <1>0, <2>1, <2>3 DEF Followed, file
<1>4. CASE StatGrown
  <2>1. /\ unseen' = FALSE /\ size' = length /\ pc = "stat" /\ exists
        /\ length > pos /\ pc' = "read" /\ UNCHANGED <<file, pos, buf, delivered>>
    BY <1>4 DEF StatGrown
  <2>2. SlowRegrow => Exact
    <3>1. CASE unseen
      BY <1>0, <2>1, <3>1, ExactFromStart DEF Followed, Known, Horizon, Exact
    <3>2. CASE ~ unseen
      BY <2>1, <3>2 DEF Followed, Known
    <3> QED
      BY <3>1, <3>2
  <2>3. SlowRegrow => Known'
    BY <1>0, <2>1, <2>2 DEF Known, Exact, file
  <2> QED
    BY <1>0, <2>1, <2>3 DEF Followed, file
<1>5. CASE StatEqual
  <2>1. /\ unseen' = FALSE /\ size' = length /\ pc = "stat" /\ exists
        /\ length = pos /\ UNCHANGED <<file, pc, pos, buf, delivered>>
    BY <1>5 DEF StatEqual
  <2>2. SlowRegrow => Exact
    <3>1. CASE unseen
      BY <1>0, <2>1, <3>1, ExactFromStart DEF Followed, Known, Horizon, Exact
    <3>2. CASE ~ unseen
      BY <2>1, <3>2 DEF Followed, Known
    <3> QED
      BY <3>1, <3>2
  <2>3. SlowRegrow => Known'
    BY <1>0, <2>1, <2>2 DEF Known, Exact, file
  <2> QED
    BY <1>0, <2>1, <2>3 DEF Followed, file
<1>6. CASE Read
  <2> DEFINE upTo == IF size < length THEN size ELSE length
             b == buf \o SubSeq(Content, pos + 1, upTo)
  <2>1. /\ pc = "read" /\ exists /\ delivered' = delivered \o LinesOf(b)
        /\ buf' = RestOf(b) /\ pos' = size /\ pc' = "stat"
        /\ UNCHANGED <<file, unseen, size>>
    BY <1>6 DEF Read
  <2> HIDE DEF b
  <2>2. CASE SlowRegrow /\ ~ unseen
    <3>1. pos < size /\ size <= length /\ Exact
      BY <2>1, <2>2 DEF Followed, Known
    <3>2. upTo = size
      BY <1>0, <3>1
    <3> HIDE DEF upTo
    <3>3. b = HalfLine(log, pos) \o SubSeq(Content, pos + 1, size)
      BY <3>1, <3>2 DEF b, Exact
    <3>4. size \in 0 .. length /\ pos <= size
      BY <1>0, <3>1
    <3>5. /\ LinesUpTo(log, pos) \o LinesOf(b) = LinesUpTo(log, size)
          /\ RestOf(b) = HalfLine(log, size)
      BY <1>0, <3>3, <3>4, ReadsExactly
    <3>6. Exact'
      BY <2>1, <3>1, <3>5 DEF Exact, file
    <3> QED
      BY <2>1, <2>2, <3>1, <3>6 DEF Followed, Known, file
  <2>3. CASE ~ (SlowRegrow /\ ~ unseen)
    BY <1>0, <2>1, <2>3 DEF Followed, Known, Horizon, file
  <2> QED
    BY <2>2, <2>3
<1>7. CASE ReadMissing
  <2>1. /\ pc = "read" /\ ~ exists /\ pc' = "stat"
        /\ UNCHANGED <<file, unseen, pos, size, buf, delivered>>
    BY <1>7 DEF ReadMissing
  <2> QED
    BY <1>0, <2>1 DEF Followed, Known, Horizon, Exact, file
<1>8. CASE UNCHANGED vars
  BY <1>8 DEF vars, file, tailVars, Followed, Known, Horizon, Exact
<1> QED
  BY <1>1, <1>2, <1>3, <1>4, <1>5, <1>6, <1>7, <1>8 DEF Next, Tailer, Writers

\* With all of the log read exactly, the whole of it is delivered.
LEMMA FollowedIsExact == Typed /\ Followed => CaughtUpExact
<1> SUFFICES ASSUME Typed, Followed, SlowRegrow, pc = "stat", exists, length = pos
             PROVE  delivered = LinesOf(Content) /\ buf = RestOf(Content)
  BY DEF CaughtUpExact
<1>0. /\ log \in 0 .. MaxLog /\ length \in 0 .. MaxLength /\ length \in Nat
  BY LogTailAssumption, TypedIs DEF Numbers
<1>1. Exact
  BY <1>0, ExactFromStart DEF Followed, Known, Horizon, Exact
<1>2. PICK e \in Nat : /\ e = length \div 2
                       /\ (length = 2 * e /\ length % 2 = 0)
                          \/ (length = 2 * e + 1 /\ length % 2 = 1)
  BY <1>0, Halves
<1>3. Run(log, 0, length) = Content
  BY <1>0 DEF Run, Content
<1>4. /\ LinesOf(Run(log, 0, length)) = [j \in 1 .. (length \div 2) - 0 |-> Line(log, 0 + j)]
      /\ RestOf(Run(log, 0, length)) = HalfLine(log, length)
  BY <1>0, RunSplits
<1>5. [j \in 1 .. (length \div 2) - 0 |-> Line(log, 0 + j)] = LinesUpTo(log, length)
  <2>1. (length \div 2) - 0 = length \div 2
    BY <1>2
  <2>2. \A j \in 1 .. length \div 2 : 0 + j = j
    OBVIOUS
  <2> QED
    BY <2>1, <2>2 DEF LinesUpTo
<1> QED
  BY <1>1, <1>3, <1>4, <1>5 DEF Exact

LEMMA InitFollowed == Init => Followed
<1> SUFFICES ASSUME Init PROVE Followed
  OBVIOUS
<1>1. Exact
  BY ExactFromStart DEF Init, Exact
<1>2. pos <= length
  BY LogTailAssumption DEF Init
<1> QED
  BY <1>1, <1>2 DEF Init, Followed, Known

\* Whenever the tailer finds nothing new, in any interleaving with truncation,
\* rotation and appends, what it has delivered since the last reset is the log,
\* whole and in order, as long as a new log stays the shorter one until the
\* tailer looks.
THEOREM CaughtUpIsExact == Spec => []CaughtUpExact
  BY InitFollowed, StepFollowed, FollowedIsExact, AlwaysTyped, PTL DEF Spec

-----------------------------------------------------------------------------
(* Refinement of LineDelivery                                               *)

\* The tailer that looks at a replaced file has delivered nothing, if the file
\* is not shorter than what it has read.
LEMMA NothingRead ==
    ASSUME Typed, Followed, SlowRegrow, unseen, pc = "stat", ~ (length < pos)
    PROVE  delivered = << >>
<1>1. /\ length \in 0 .. MaxLength /\ pos \in 0 .. MaxLength
      /\ MaxLength \in Nat
  BY LogTailAssumption, TypedIs DEF Numbers
<1>2. pos = 0
  BY <1>1 DEF Followed, Known, Horizon
<1> QED
  BY <1>2 DEF Followed

\* Reading a file that the tailer knows is a delivery.
LEMMA ReadDelivers ==
    ASSUME Typed, Followed, SlowRegrow, ~ unseen, Read
    PROVE  Promise!Deliver
<1> DEFINE b == buf \o SubSeq(Content, pos + 1, size)
<1>0. /\ MaxLength \in Nat /\ log \in 0 .. MaxLog
      /\ length \in 0 .. MaxLength /\ pos \in 0 .. MaxLength /\ size \in 0 .. MaxLength
  BY LogTailAssumption, TypedIs DEF Numbers
<1>1. pc = "read" /\ pos < size /\ size <= length /\ Exact
  BY DEF Read, Followed, Known
<1>2. (IF size < length THEN size ELSE length) = size
  BY <1>0, <1>1
<1>3. /\ delivered' = delivered \o LinesOf(b)
      /\ UNCHANGED <<log, length, unseen>>
  BY <1>2 DEF Read, file
<1>4. b = HalfLine(log, pos) \o SubSeq(Content, pos + 1, size)
  BY <1>1 DEF Exact
<1> HIDE DEF b
<1>5. size \in 0 .. length /\ pos <= size
  BY <1>0, <1>1
<1>6. LinesUpTo(log, pos) \o LinesOf(b) = LinesUpTo(log, size)
  BY <1>0, <1>4, <1>5, ReadsExactly
<1>7. \A g, n : Promise!LinesUpTo(g, n) = LinesUpTo(g, n)
  BY DEF Promise!LinesUpTo, Promise!Line, LinesUpTo, Line
<1>8. delivered' = Promise!LinesUpTo(log, size)
  BY <1>1, <1>3, <1>6, <1>7 DEF Exact
<1>9. Len(delivered) <= size \div 2
  <2>1. PICK h \in Nat : h = pos \div 2 /\ (pos = 2 * h \/ pos = 2 * h + 1)
    BY <1>0, Halves
  <2>2. PICK k \in Nat : k = size \div 2 /\ (size = 2 * k \/ size = 2 * k + 1)
    BY <1>0, Halves
  <2>3. h <= k
    BY <1>1, <2>1, <2>2
  <2>4. Len(LinesUpTo(log, pos)) = h
    BY <2>1 DEF LinesUpTo
  <2> QED
    BY <1>1, <2>2, <2>3, <2>4 DEF Exact
<1> QED
  BY <1>3, <1>5, <1>8, <1>9 DEF Promise!Deliver

LEMMA PromiseInit == Init => Promise!Init
<1> SUFFICES ASSUME Init PROVE Promise!Init
  OBVIOUS
<1>1. length \in Nat
  BY LogTailAssumption DEF Init
<1> QED
  BY <1>1 DEF Init, Promise!Init

LEMMA PromiseNext ==
    Typed /\ Followed /\ SlowRegrow /\ [Next]_vars
        => [Promise!Next]_<<log, length, unseen, delivered>>
<1> SUFFICES ASSUME Typed, Followed, SlowRegrow, [Next]_vars
             PROVE  \/ Promise!Replace \/ Promise!Grow \/ Promise!Deliver
                    \/ Promise!Mislead \/ Promise!Notice
                    \/ UNCHANGED <<log, length, unseen, delivered>>
  BY DEF Promise!Next
<1>1. CASE Truncate \/ Rotate
  BY <1>1 DEF Truncate, Rotate, tailVars, Promise!Replace
<1>2. CASE WriteMore
  BY <1>2 DEF WriteMore, tailVars, Promise!Grow
<1>3. CASE StatShrunk
  <2>1. unseen
    <3>1. length \in 0 .. MaxLength /\ pos \in 0 .. MaxLength
      BY TypedIs DEF Numbers
    <3>2. ~ (pos <= length)
      BY <1>3, <3>1, LogTailAssumption DEF StatShrunk
    <3>3. pc = "stat"
      BY <1>3 DEF StatShrunk
    <3> QED
      BY <3>2, <3>3 DEF Followed, Known
  <2> QED
    BY <1>3, <2>1 DEF StatShrunk, file, Promise!Notice
<1>4. CASE StatGrown \/ StatEqual
  <2>1. pc = "stat" /\ ~ (length < pos)
    <3>1. length \in 0 .. MaxLength /\ pos \in 0 .. MaxLength
      BY TypedIs DEF Numbers
    <3> QED
      BY <1>4, <3>1, LogTailAssumption DEF StatGrown, StatEqual
  <2>2. unseen' = FALSE /\ UNCHANGED <<log, length, delivered>>
    BY <1>4 DEF StatGrown, StatEqual, file
  <2>3. CASE unseen
    BY <2>1, <2>2, <2>3, NothingRead DEF Promise!Notice
  <2>4. CASE ~ unseen
    <3>1. unseen = FALSE
      BY <2>4 DEF Typed, TypeOK
    <3> QED
      BY <2>2, <3>1
  <2> QED
    BY <2>3, <2>4
<1>5. CASE Read
  <2>1. CASE unseen
    BY <1>5, <2>1 DEF Read, file, Promise!Mislead
  <2>2. CASE ~ unseen
    BY <1>5, <2>2, ReadDelivers
  <2> QED
    BY <2>1, <2>2
<1>6. CASE ReadMissing \/ UNCHANGED vars
  BY <1>6 DEF ReadMissing, vars, file, tailVars
<1> QED
  BY <1>1, <1>2, <1>3, <1>4, <1>5, <1>6 DEF Next, Tailer, Writers

\* Where a new log stays the shorter one until the tailer looks, tail_log
\* implements LineDelivery: every step of it hands on the next lines of the log
\* that is there, or starts over, or happens before a replacement is noticed.
THEOREM Implements == SlowRegrow /\ Spec => DeliversLines
<1> SUFFICES ASSUME SlowRegrow PROVE Spec => DeliversLines
  OBVIOUS
<1>1. Typed /\ Followed /\ [Next]_vars
        => [Promise!Next]_<<log, length, unseen, delivered>>
  BY PromiseNext
<1> QED
  BY <1>1, InitFollowed, PromiseInit, StepFollowed, AlwaysTyped, PTL
  DEF Spec, DeliversLines, Promise!Spec
=============================================================================
