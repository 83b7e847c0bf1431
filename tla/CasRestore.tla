----------------------------- MODULE CasRestore -----------------------------
(***************************************************************************)
(* Step "Download and Merge CAS Chunks" of build-multirunner.yml, and the  *)
(* pipeline of scripts/cas-restore-stream.sh it runs for one tarball after *)
(* the other: ghcr-blob-stream.py | zstd | tar.                            *)
(*                                                                         *)
(* A tarball holds the files of CAS objects, each in two pieces: tar       *)
(* creates the file with the first and has written it with the second.  An *)
(* object is named by its content, so tarballs agree on what they share.   *)
(* The stream is what BlobDelivery promises, which BlobStream keeps; zstd, *)
(* tar and the registry are external.                                      *)
(***************************************************************************)
EXTENDS Integers, Sequences, FiniteSets

CONSTANTS
    Object,
    Chunk,      \* MATRIX_KEYS, in the order jq prints them: a sequence
    Keyed,      \* the chunks that have an entry in CACHE_KEYS
    Tarball,    \* ref -> its objects, in order: N of them each
    N,
    Bad

Core == <<"core", "latest">>
Ref == {Core} \union {<<c, t>> : c \in {Chunk[i] : i \in DOMAIN Chunk},
                                 t \in {"key", "latest"}}

ASSUME TarballAssumption ==
    /\ N \in Nat
    /\ Tarball \in [Ref -> [1 .. N -> Object]]
\* The matrix names each chunk once, and core is not in it.
ASSUME ChunkAssumption ==
    /\ Chunk \in Seq(STRING)
    /\ \A i, j \in DOMAIN Chunk : Chunk[i] = Chunk[j] => i = j
    /\ \A i \in DOMAIN Chunk : Chunk[i] # "core"
ASSUME BadAssumption == Bad \notin Int

VARIABLES
    next,      \* chunks the loop has begun
    ref,       \* what is being restored
    pc,        \* "manifest", "stream", "ended", "build"
    out, exit, \* of the stream
    extracted, \* pieces tar has dealt with
    tar,       \* "running" or "failed"; zstd is counted with it
    status,    \* exit status of the last cas-restore-stream.sh is 0
    cache,     \* what the cache holds under each object's name
    warned,    \* chunks and core that will be rebuilt
    restored   \* refs whose script ended with 0

stream == <<out, exit>>
vars == <<next, ref, pc, stream, extracted, tar, status, cache, warned, restored>>

Stream == INSTANCE BlobDelivery WITH Size <- 2 * N

ObjectAt(piece) == Tarball[ref][(piece + 1) \div 2]
ObjectsOf(r) == {Tarball[r][i] : i \in 1 .. N}

TypeOK ==
    /\ next \in 0 .. Len(Chunk)
    /\ ref \in Ref
    /\ pc \in {"manifest", "stream", "ended", "build"}
    /\ out \in Seq(Int \union {Bad}) /\ Len(out) <= 2 * N
    /\ exit \in {"none", "ok", "failed"}
    /\ extracted \in 0 .. Len(out)
    /\ tar \in {"running", "failed"}
    /\ status \in BOOLEAN
    /\ cache \in [Object -> {"none", "cut", "whole", "damaged"}]
    /\ warned \subseteq {r[1] : r \in Ref}
    /\ restored \subseteq Ref

Init ==
    /\ next = 0 /\ ref = Core /\ pc = "manifest"
    /\ Stream!Init
    /\ extracted = 0 /\ tar = "running" /\ status = FALSE
    /\ cache = [o \in Object |-> "none"]
    /\ warned = {} /\ restored = {}

-----------------------------------------------------------------------------
(* cas-restore-stream.sh                                                    *)

\* oras finds no manifest, or one without layers.
NoManifest ==
    /\ pc = "manifest"
    /\ status' = FALSE
    /\ pc' = "ended"
    /\ UNCHANGED <<next, ref, stream, extracted, tar, cache, warned, restored>>

Manifest ==
    /\ pc = "manifest"
    /\ pc' = "stream"
    /\ out' = << >> /\ exit' = "none"
    /\ extracted' = 0 /\ tar' = "running"
    /\ UNCHANGED <<next, ref, status, cache, warned, restored>>

StreamStep ==
    /\ pc = "stream"
    /\ Stream!Next
    /\ UNCHANGED <<next, ref, pc, extracted, tar, status, cache, warned, restored>>

\* tar replaces a file of the same name, so it is cut short at first.
TarStep ==
    /\ pc = "stream" /\ tar = "running"
    /\ extracted < Len(out)
    /\ extracted' = extracted + 1
    /\ LET o == ObjectAt(extracted')
           damaged == \E i \in {extracted', extracted} \ {0} :
                         ObjectAt(i) = o /\ out[i] = Bad
       IN  cache' = [cache EXCEPT ![o] =
                       IF extracted' % 2 = 1 THEN "cut"
                       ELSE IF damaged THEN "damaged" ELSE "whole"]
    /\ UNCHANGED <<next, ref, pc, stream, tar, status, warned, restored>>

\* zstd meets damaged data, the disk is full, or the input ends too early.
TarFails ==
    /\ pc = "stream" /\ tar = "running"
    /\ tar' = "failed"
    /\ UNCHANGED <<next, ref, pc, stream, extracted, status, cache, warned, restored>>

\* Mutant of PipelineEnds: only tar's status counts, and tar takes an end of
\* its input between two files for the end of the archive.
PipelineEndsNoPipefail ==
    /\ pc = "stream" /\ exit # "none"
    /\ tar = "failed" \/ extracted = Len(out)
    /\ status' = (tar = "running" /\ extracted % 2 = 0)
    /\ pc' = "ended"
    /\ UNCHANGED <<next, ref, stream, extracted, tar, cache, warned, restored>>

\* set -o pipefail: all three have to succeed.
PipelineEnds ==
    /\ pc = "stream" /\ exit # "none"
    /\ tar = "failed" \/ extracted = Len(out)
    /\ status' = (tar = "running" /\ exit = "ok")
    /\ pc' = "ended"
    /\ UNCHANGED <<next, ref, stream, extracted, tar, cache, warned, restored>>

-----------------------------------------------------------------------------
(* The step that calls it                                                   *)

\* The next chunk of the loop, or the end of the step, whatever happened.
Advance ==
    IF next = Len(Chunk)
      THEN pc' = "build" /\ UNCHANGED <<next, ref>>
      ELSE /\ next' = next + 1
           /\ pc' = "manifest"
           /\ LET c == Chunk[next + 1]
              IN  ref' = <<c, IF c \in Keyed THEN "key" ELSE "latest">>

Restored ==
    /\ pc = "ended" /\ status
    /\ restored' = restored \union {ref}
    /\ Advance
    /\ UNCHANGED <<stream, extracted, tar, status, cache, warned>>

\* Mutant of FallBack: it does not fall back.
FallBackMissing ==
    /\ pc = "ended" /\ ~ status
    /\ ref[2] = "key"
    /\ Advance
    /\ UNCHANGED <<stream, extracted, tar, status, cache, warned, restored>>

\* A tarball under this run's key could not be restored: try the latest one.
FallBack ==
    /\ pc = "ended" /\ ~ status
    /\ ref[2] = "key"
    /\ ref' = <<ref[1], "latest">>
    /\ pc' = "manifest"
    /\ UNCHANGED <<next, stream, extracted, tar, status, cache, warned, restored>>

\* Mutant of Warn: a missing tarball ends the step.
WarnStops ==
    /\ pc = "ended" /\ ~ status
    /\ ref[2] = "latest"
    /\ warned' = warned \union {ref[1]}
    /\ UNCHANGED <<next, ref, pc, stream, extracted, tar, status, cache, restored>>

Warn ==
    /\ pc = "ended" /\ ~ status
    /\ ref[2] = "latest"
    /\ warned' = warned \union {ref[1]}
    /\ Advance
    /\ UNCHANGED <<stream, extracted, tar, status, cache, restored>>

Script == NoManifest \/ Manifest \/ StreamStep \/ TarStep \/ TarFails \/ PipelineEnds
Step == Restored \/ FallBack \/ Warn
Next == Script \/ Step

\* Every program of the pipeline ends: the stream by its attempts, zstd and
\* tar with their input.
Spec == Init /\ [][Next]_vars /\ WF_vars(Next)

-----------------------------------------------------------------------------
(* Properties                                                               *)

\* When the script says 0, every object of the tarball is in the cache and
\* whole, although files were written before the digest was checked.
RestoredIsWhole ==
    pc = "ended" /\ status => \A o \in ObjectsOf(ref) : cache[o] = "whole"

\* Core and each chunk end up restored or warned about, never both and never
\* neither (lines 176-193).
AccountedFor ==
    pc = "build" =>
        \A c \in {r[1] : r \in Ref} :
            c \in warned <=> \A t \in {"key", "latest"} : <<c, t>> \notin restored

\* One tarball that cannot be had does not keep the others, or the build,
\* from going on.
StepEnds == <>(pc = "build")

\* build-multirunner.yml:180-181: "A missing chunk costs rebuild time in
\* build_final, never correctness, so a failed restore warns and carries on":
\* what the build finds under an object's name is that object.
OnlyWholeObjects ==
    pc = "build" => \A o \in Object : cache[o] \in {"none", "whole"}
=============================================================================
