-------------------------- MODULE CasRestoreProofs --------------------------
(***************************************************************************)
(* Proofs about CasRestore, for any chunks and tarballs, on no more than   *)
(* what BlobDelivery promises.                                             *)
(***************************************************************************)
EXTENDS CasRestore, TLAPS

Pieces == Int \union {Bad}

LEMMA AppendPiece ==
    ASSUME NEW s \in Seq(Pieces), NEW p \in Pieces
    PROVE  /\ Append(s, p) \in Seq(Pieces)
           /\ Len(Append(s, p)) = Len(s) + 1
           /\ \A i \in 1 .. Len(s) : Append(s, p)[i] = s[i]
  OBVIOUS

-----------------------------------------------------------------------------
(* Types                                                                    *)

LEMMA RefNames ==
    /\ Core \in Ref
    /\ \A c \in {Chunk[i] : i \in DOMAIN Chunk}, t \in {"key", "latest"} : <<c, t>> \in Ref
    /\ \A r \in Ref : r = <<r[1], r[2]>> /\ r[2] \in {"key", "latest"}
    /\ \A r \in Ref : r[2] = "key" => <<r[1], "latest">> \in Ref
  BY DEF Core, Ref

LEMMA TypeInit == Init => TypeOK
  <1> SUFFICES ASSUME Init PROVE TypeOK
    OBVIOUS
  <1>1. Len(out) = 0 /\ out \in Seq(Int \union {Bad})
    BY DEF Init, Stream!Init
  <1>2. Len(Chunk) \in Nat
    BY ChunkAssumption
  <1>3. Len(out) <= 2 * N /\ 0 \in 0 .. Len(out) /\ 0 \in 0 .. Len(Chunk)
    BY <1>1, <1>2, TarballAssumption
  <1>4. cache \in [Object -> {"none", "cut", "whole", "damaged"}]
    BY DEF Init
  <1> QED BY <1>1, <1>3, <1>4, RefNames DEF Init, Stream!Init, TypeOK

LEMMA ScriptType == TypeOK /\ Script => TypeOK'
  <1> SUFFICES ASSUME TypeOK, Script PROVE TypeOK'
    OBVIOUS
  <1>1. CASE NoManifest
    BY <1>1 DEF NoManifest, stream, TypeOK
  <1>2. CASE Manifest
    BY <1>2, TarballAssumption DEF Manifest, TypeOK
  <1>3. CASE StreamStep
    <2>1. /\ out' \in Seq(Int \union {Bad}) /\ Len(out') <= 2 * N /\ Len(out') >= Len(out)
          /\ exit' \in {"none", "ok", "failed"}
      <3>1. CASE Stream!Deliver
        <4>1. PICK p \in {Len(out) + 1, Bad} : out' = Append(out, p)
          BY <3>1 DEF Stream!Deliver
        <4>2. Len(out) < 2 * N /\ exit' = exit /\ out \in Seq(Pieces) /\ p \in Pieces
          BY <3>1, <4>1 DEF Stream!Deliver, TypeOK, Pieces
        <4>3. out' \in Seq(Pieces) /\ Len(out') = Len(out) + 1
          BY <4>1, <4>2, AppendPiece
        <4> QED BY <4>2, <4>3, TarballAssumption DEF TypeOK, Pieces
      <3>2. CASE Stream!Succeed \/ Stream!Fail
        BY <3>2 DEF Stream!Succeed, Stream!Fail, TypeOK
      <3> QED BY <1>3, <3>1, <3>2 DEF StreamStep, Stream!Next
    <2>2. extracted' \in 0 .. Len(out')
      BY <1>3, <2>1 DEF StreamStep, TypeOK
    <2> QED BY <1>3, <2>1, <2>2 DEF StreamStep, TypeOK
  <1>4. CASE TarStep
    <2>1. extracted' \in 0 .. Len(out')
      BY <1>4 DEF TarStep, stream, TypeOK
    <2>2. cache' \in [Object -> {"none", "cut", "whole", "damaged"}]
      BY <1>4 DEF TarStep, TypeOK
    <2> QED BY <1>4, <2>1, <2>2 DEF TarStep, stream, TypeOK
  <1>5. CASE TarFails
    BY <1>5 DEF TarFails, stream, TypeOK
  <1>6. CASE PipelineEnds
    BY <1>6 DEF PipelineEnds, stream, TypeOK
  <1> QED BY <1>1, <1>2, <1>3, <1>4, <1>5, <1>6 DEF Script

LEMMA AdvanceType ==
    ASSUME TypeOK, Advance
    PROVE  next' \in 0 .. Len(Chunk) /\ ref' \in Ref /\ pc' \in {"manifest", "build"}
  <1> DEFINE len == Len(Chunk)
  <1>0. len \in Nat
    BY ChunkAssumption
  <1>1. DOMAIN Chunk = 1 .. len
    BY ChunkAssumption
  <1>2. CASE next = Len(Chunk)
    BY <1>2 DEF Advance, TypeOK
  <1>3. CASE next # Len(Chunk)
    <2>1. next + 1 \in DOMAIN Chunk
      <3>1. next \in 0 .. Len(Chunk)
        BY DEF TypeOK
      <3>2. next + 1 \in 1 .. Len(Chunk)
        <4>1. next \in 0 .. len /\ next # len
          BY <1>3, <3>1
        <4> HIDE DEF len
        <4>2. next + 1 \in 1 .. len
          BY <1>0, <4>1
        <4> QED BY <4>2 DEF len
      <3> QED BY <1>1, <3>2
    <2>2. ref' \in Ref
      BY <1>3, <2>1, RefNames DEF Advance
    <2> QED BY <1>0, <1>1, <1>3, <2>1, <2>2 DEF Advance
  <1> QED BY <1>2, <1>3

LEMMA StepType == TypeOK /\ Step => TypeOK'
  <1> SUFFICES ASSUME TypeOK, Step PROVE TypeOK'
    OBVIOUS
  <1>1. CASE Restored
    BY <1>1, AdvanceType DEF Restored, stream, TypeOK
  <1>2. CASE FallBack
    BY <1>2, RefNames DEF FallBack, stream, TypeOK
  <1>3. CASE Warn
    BY <1>3, AdvanceType DEF Warn, stream, TypeOK
  <1> QED BY <1>1, <1>2, <1>3 DEF Step

\* Whatever the registry, zstd and tar do, the state is well-typed; tar has
\* never dealt with more than what the stream handed over.
THEOREM TypeCorrect == Spec => []TypeOK
  <1>1. TypeOK /\ UNCHANGED vars => TypeOK'
    BY DEF TypeOK, vars, stream
  <1> QED BY <1>1, TypeInit, ScriptType, StepType, PTL DEF Spec, Next

-----------------------------------------------------------------------------
(* What a restored tarball leaves in the cache                              *)

\* The file tar is in the middle of, as an index into the tarball.
Open(j) == extracted % 2 = 1 /\ Tarball[ref][(extracted + 1) \div 2] = Tarball[ref][j]

\* As long as no piece was a wrong one, the files behind tar are whole, but
\* for the one that it has just begun to write again.
Written ==
    (\A i \in 1 .. extracted : out[i] # Bad) =>
        \A j \in 1 .. N : 2 * j <= extracted =>
            cache[Tarball[ref][j]] = IF Open(j) THEN "cut" ELSE "whole"

WholeInv ==
    /\ exit = "ok" => out = Stream!Blob
    /\ pc = "stream" => Written
    /\ RestoredIsWhole

LEMMA Halves ==
    ASSUME NEW k \in Nat, k >= 1
    PROVE  /\ k % 2 = 1 => /\ (k - 1) % 2 = 0
                          /\ \A j \in Nat : 2 * j <= k => 2 * j <= k - 1
           /\ k % 2 # 1 => /\ (k - 1) % 2 = 1 /\ k - 1 >= 1
                          /\ ((k - 1) + 1) \div 2 = (k + 1) \div 2
                          /\ \A j \in Nat : 2 * j <= k =>
                                2 * j <= k - 1 \/ j = (k + 1) \div 2
  OBVIOUS

LEMMA TarWritten ==
    ASSUME TypeOK, Written, TarStep
    PROVE  Written'
  <1> DEFINE k == extracted + 1
             m == (k + 1) \div 2
             o == Tarball[ref][m]
  <1>1. /\ extracted \in Nat /\ k \in Nat /\ k >= 1 /\ k - 1 = extracted
        /\ extracted' = k /\ UNCHANGED <<out, ref>>
    BY DEF TarStep, TypeOK, stream
  <1>2. ref \in Ref /\ cache \in [Object -> {"none", "cut", "whole", "damaged"}]
    BY DEF TypeOK
  <1> SUFFICES ASSUME \A i \in 1 .. k : out[i] # Bad,
                      NEW j \in 1 .. N, 2 * j <= k
               PROVE  cache'[Tarball[ref][j]] = IF Open(j)' THEN "cut" ELSE "whole"
    BY <1>1 DEF Written
  <1>3. \A i \in 1 .. extracted : out[i] # Bad
    BY <1>1
  <1>4. 2 * j <= extracted =>
           cache[Tarball[ref][j]] = IF Open(j) THEN "cut" ELSE "whole"
    BY <1>3 DEF Written
  <1>5. Tarball[ref][j] \in Object /\ j \in Nat
    BY <1>2, TarballAssumption
  <1>6. Open(j)' <=> k % 2 = 1 /\ o = Tarball[ref][j]
    BY <1>1 DEF Open
  <1>7. CASE k % 2 = 1
    <2>1. cache' = [cache EXCEPT ![o] = "cut"]
      BY <1>1, <1>7 DEF TarStep, ObjectAt
    <2>2. 2 * j <= extracted /\ ~ Open(j)
      <3>1. (k - 1) % 2 = 0 /\ 2 * j <= k - 1
        BY <1>1, <1>5, <1>7, Halves
      <3> QED BY <1>1, <3>1 DEF Open
    <2> QED BY <1>2, <1>4, <1>5, <1>6, <1>7, <2>1, <2>2
  <1>8. CASE k % 2 # 1
    <2>1. /\ extracted % 2 = 1 /\ extracted >= 1
          /\ (extracted + 1) \div 2 = m
          /\ 2 * j <= extracted \/ j = m
      BY <1>1, <1>5, <1>8, Halves
    <2>2. \A i \in {k, extracted} \ {0} : out[i] # Bad
      BY <1>1, <2>1
    <2>3. cache' = [cache EXCEPT ![o] = "whole"]
      BY <1>1, <1>8, <2>2 DEF TarStep, ObjectAt
    <2>4. CASE o = Tarball[ref][j]
      BY <1>2, <1>5, <1>6, <1>8, <2>3, <2>4
    <2>5. CASE o # Tarball[ref][j]
      <3>1. 2 * j <= extracted /\ ~ Open(j)
        BY <2>1, <2>5 DEF Open
      <3> QED BY <1>2, <1>4, <1>5, <1>6, <1>8, <2>3, <2>5, <3>1
    <2> QED BY <2>4, <2>5
  <1> QED BY <1>7, <1>8

LEMMA WholeScript == TypeOK /\ WholeInv /\ Script => WholeInv'
  <1> SUFFICES ASSUME TypeOK, WholeInv, Script PROVE WholeInv'
    OBVIOUS
  <1> USE DEF WholeInv, RestoredIsWhole
  <1>1. CASE NoManifest
    BY <1>1 DEF NoManifest, stream
  <1>2. CASE Manifest
    <2>1. Written'
      BY <1>2, TarballAssumption DEF Manifest, Written
    <2> QED BY <1>2, <2>1 DEF Manifest
  <1>3. CASE StreamStep
    <2>1. pc = "stream" /\ UNCHANGED <<pc, extracted, ref, cache, status>>
      BY <1>3 DEF StreamStep
    <2>2. CASE Stream!Deliver
      <3>1. PICK p \in {Len(out) + 1, Bad} : out' = Append(out, p)
        BY <2>2 DEF Stream!Deliver
      <3>2. out \in Seq(Pieces) /\ p \in Pieces /\ extracted \in 0 .. Len(out)
        BY <3>1 DEF TypeOK, Pieces
      <3>3. \A i \in 1 .. extracted : out'[i] = out[i]
        BY <3>1, <3>2, AppendPiece
      <3>4. Written'
        BY <2>1, <3>3 DEF Written, Open
      <3> QED BY <2>1, <2>2, <3>4 DEF Stream!Deliver
    <2>3. CASE Stream!Succeed \/ Stream!Fail
      BY <2>1, <2>3 DEF Stream!Succeed, Stream!Fail, Written, Open
    <2> QED BY <1>3, <2>2, <2>3 DEF StreamStep, Stream!Next
  <1>4. CASE TarStep
    BY <1>4, TarWritten DEF TarStep, stream
  <1>5. CASE TarFails
    BY <1>5 DEF TarFails, stream, Written, Open
  <1>6. CASE PipelineEnds
    <2> SUFFICES ASSUME status', NEW j \in 1 .. N
                 PROVE  cache[Tarball[ref][j]] = "whole"
      BY <1>6 DEF PipelineEnds, stream, ObjectsOf
    <2>1. exit = "ok" /\ extracted = Len(out) /\ Written
      BY <1>6 DEF PipelineEnds
    <2>2. out = [i \in 1 .. 2 * N |-> i]
      BY <2>1 DEF Stream!Blob
    <2>3. extracted = 2 * N
      BY <2>1, <2>2, TarballAssumption
    <2>4. \A i \in 1 .. extracted : out[i] # Bad
      BY <2>2, <2>3, BadAssumption, TarballAssumption
    <2>5. 2 * j <= extracted /\ extracted % 2 # 1
      BY <2>3, TarballAssumption
    <2> QED BY <2>1, <2>4, <2>5 DEF Written, Open
  <1> QED BY <1>1, <1>2, <1>3, <1>4, <1>5, <1>6 DEF Script

LEMMA WholeStep == TypeOK /\ WholeInv /\ [Next]_vars => WholeInv'
  <1> SUFFICES ASSUME TypeOK, WholeInv, [Next]_vars PROVE WholeInv'
    OBVIOUS
  <1>1. CASE UNCHANGED vars
    BY <1>1 DEF vars, stream, WholeInv, RestoredIsWhole, Written, Open, ObjectsOf
  <1>2. CASE Script
    BY <1>2, WholeScript
  <1>3. CASE Step
    <2>1. pc' \in {"manifest", "build"} /\ UNCHANGED <<out, exit>>
      BY <1>3, AdvanceType DEF Step, Restored, FallBack, Warn, stream
    <2> QED BY <2>1 DEF WholeInv, RestoredIsWhole
  <1> QED BY <1>1, <1>2, <1>3 DEF Next

\* When the script ends with 0, every object of the tarball is whole in the
\* cache, for any tarball, also one that has the same object twice.
THEOREM RestoredIsWholeAlways == Spec => []RestoredIsWhole
  <1>1. Init => WholeInv
    BY DEF Init, Stream!Init, WholeInv, RestoredIsWhole
  <1>2. WholeInv => RestoredIsWhole
    BY DEF WholeInv
  <1> QED BY <1>1, <1>2, TypeCorrect, WholeStep, PTL DEF Spec

-----------------------------------------------------------------------------
(* Everything is accounted for                                              *)

Name(i) == IF i = 0 THEN "core" ELSE Chunk[i]
Got(c)  == \E t \in {"key", "latest"} : <<c, t>> \in restored

\* The loop has dealt with the first ones and has left the others alone.
Account ==
    /\ pc # "build" => ref[1] = Name(next)
    /\ \A i \in 0 .. Len(Chunk) :
          IF i < next \/ pc = "build" THEN Name(i) \in warned <=> ~ Got(Name(i))
                                     ELSE Name(i) \notin warned /\ ~ Got(Name(i))

LEMMA Names ==
    /\ \A i, j \in 0 .. Len(Chunk) : Name(i) = Name(j) => i = j
    /\ {r[1] : r \in Ref} = {Name(i) : i \in 0 .. Len(Chunk)}
  <1> DEFINE len == Len(Chunk)
  <1>1. len \in Nat /\ DOMAIN Chunk = 1 .. len
    BY ChunkAssumption
  <1>2. \A i \in 0 .. len : i = 0 \/ i \in DOMAIN Chunk
    <2> HIDE DEF len
    <2> QED BY <1>1
  <1>3. \A i, j \in 0 .. len : Name(i) = Name(j) => i = j
    BY <1>2, ChunkAssumption DEF Name
  <1>4. 0 \in 0 .. len /\ \A i \in DOMAIN Chunk : i # 0 /\ i \in 0 .. len
    <2> HIDE DEF len
    <2> QED BY <1>1
  <1>5. {r[1] : r \in Ref} = {"core"} \union {Chunk[i] : i \in DOMAIN Chunk}
    <2>1. ASSUME NEW r \in Ref PROVE r[1] \in {"core"} \union {Chunk[i] : i \in DOMAIN Chunk}
      BY DEF Ref, Core
    <2>2. Core \in Ref /\ Core[1] = "core"
      BY DEF Ref, Core
    <2>3. ASSUME NEW i \in DOMAIN Chunk PROVE <<Chunk[i], "latest">> \in Ref
      BY DEF Ref
    <2>4. ASSUME NEW i \in DOMAIN Chunk PROVE Chunk[i] \in {r[1] : r \in Ref}
      <3>1. PICK r \in Ref : r = <<Chunk[i], "latest">>
        BY <2>3
      <3>2. r[1] = Chunk[i]
        BY <3>1
      <3> QED BY <3>2
    <2> QED BY <2>1, <2>2, <2>4
  <1>6. {Name(i) : i \in 0 .. len} = {"core"} \union {Chunk[i] : i \in DOMAIN Chunk}
    BY <1>2, <1>4 DEF Name
  <1> QED BY <1>3, <1>5, <1>6

LEMMA AccountStep == TypeOK /\ Account /\ [Next]_vars => Account'
  <1> DEFINE len == Len(Chunk)
  <1> SUFFICES ASSUME TypeOK, Account, [Next]_vars PROVE Account'
    OBVIOUS
  <1>1. len \in Nat /\ next \in 0 .. len
    BY ChunkAssumption DEF TypeOK
  <1>2. ref = <<ref[1], ref[2]>> /\ ref[2] \in {"key", "latest"}
    BY RefNames DEF TypeOK
  <1>3. CASE UNCHANGED vars
    BY <1>3 DEF vars, Account, Got
  <1>4. CASE Script
    <2>1. pc # "build" /\ pc' # "build" /\ UNCHANGED <<next, ref, warned, restored>>
      BY <1>4 DEF Script, NoManifest, Manifest, StreamStep, TarStep, TarFails, PipelineEnds
    <2> QED BY <2>1 DEF Account, Got
  <1>5. CASE FallBack
    BY <1>5 DEF FallBack, Account, Got
  <1>6. ASSUME NEW n \in 0 .. len, next = n, pc = "ended", Advance,
               \/ restored' = restored \union {ref} /\ warned' = warned
               \/ warned' = warned \union {ref[1]} /\ restored' = restored
        PROVE  Account'
    <2>0. next = n /\ n \in Nat /\ \A i \in 0 .. len : i \in Nat /\ i <= len
      <3> HIDE DEF len
      <3> QED BY <1>1, <1>6
    <2>1. ref[1] = Name(n)
      BY <1>6 DEF Account
    <2>2. Name(n) \in warned' <=> ~ Got(Name(n))'
      <3>1. Name(n) \notin warned /\ ~ Got(Name(n))
        BY <1>1, <1>6 DEF Account
      <3> QED BY <1>2, <1>6, <2>1, <3>1 DEF Got
    <2>3. ASSUME NEW i \in 0 .. len, i # n
          PROVE  /\ Name(i) \in warned' <=> Name(i) \in warned
                 /\ Got(Name(i))' <=> Got(Name(i))
      <3>1. Name(i) # ref[1]
        BY <1>1, <2>1, <2>3, Names
      <3>2. \A t \in {"key", "latest"} : <<Name(i), t>> # ref
        BY <3>1
      <3> QED BY <1>6, <3>1, <3>2 DEF Got
    <2>4. CASE next = len
      <3>1. pc' = "build" /\ next' = next
        BY <1>6, <2>4 DEF Advance
      <3>2. ASSUME NEW i \in 0 .. len PROVE Name(i) \in warned' <=> ~ Got(Name(i))'
        <4>1. i = n \/ i < n
          <5>1. n = len /\ i \in Nat /\ i <= len
            BY <2>0, <2>4
          <5> HIDE DEF len
          <5> QED BY <2>0, <5>1
        <4> QED BY <1>6, <2>2, <2>3, <4>1 DEF Account
      <3> QED BY <3>1, <3>2 DEF Account
    <2>5. CASE next # len
      <3>1. /\ pc' = "manifest" /\ next' = next + 1 /\ ref'[1] = Chunk[next + 1]
        BY <1>6, <2>5 DEF Advance
      <3>2. ref'[1] = Name(next')
        BY <1>1, <3>1 DEF Name
      <3>3. ASSUME NEW i \in 0 .. len
            PROVE  IF i < next' THEN Name(i) \in warned' <=> ~ Got(Name(i))'
                                ELSE Name(i) \notin warned' /\ ~ Got(Name(i))'
        <4>1. CASE i = n
          BY <2>0, <2>2, <3>1, <4>1
        <4>2. CASE i # n
          <5>1. i < next' <=> i < next
            BY <2>0, <3>1, <4>2
          <5> QED BY <1>6, <2>3, <4>2, <5>1 DEF Account
        <4> QED BY <4>1, <4>2
      <3> QED BY <3>1, <3>2, <3>3 DEF Account
    <2> QED BY <2>4, <2>5
  <1>7. CASE Restored \/ Warn
    BY <1>1, <1>6, <1>7 DEF Restored, Warn
  <1> QED BY <1>3, <1>4, <1>5, <1>7 DEF Next, Step

\* For any number of chunks: what the build does not find restored it has been
\* warned about, and nothing else.
THEOREM AccountedForAlways == Spec => []AccountedFor
  <1>1. Init => Account
    <2> SUFFICES ASSUME Init PROVE Account
      OBVIOUS
    <2>1. \A i \in 0 .. Len(Chunk) : ~ (i < 0)
      OBVIOUS
    <2> QED BY <2>1 DEF Init, Account, Got, Name, Core
  <1>2. Account => AccountedFor
    BY Names DEF Account, AccountedFor, Got
  <1> QED BY <1>1, <1>2, TypeCorrect, AccountStep, PTL DEF Spec
=============================================================================
