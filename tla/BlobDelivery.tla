---------------------------- MODULE BlobDelivery ----------------------------
(***************************************************************************)
(* What scripts/ghcr-blob-stream.py promises the program it is piped into: *)
(* the blob arrives from its start, each byte once and in order, and exit  *)
(* status 0 means that all of it arrived and is what its digest says.      *)
(* Until then any piece may be a wrong one: bytes are handed over before   *)
(* the digest is known.                                                    *)
(***************************************************************************)
EXTENDS Integers, Sequences

CONSTANTS
    Size, \* pieces of the blob
    Bad   \* a piece that is not the blob's

VARIABLES
    out, \* the pieces written so far
    exit \* "none" while it runs, then "ok" or "failed"

Blob == [i \in 1 .. Size |-> i]

Init == out = << >> /\ exit = "none"

\* The next piece, right or wrong, but never another one of the blob.
Deliver ==
    /\ exit = "none" /\ Len(out) < Size
    /\ \E piece \in {Len(out) + 1, Bad} : out' = Append(out, piece)
    /\ UNCHANGED exit

Succeed ==
    /\ exit = "none" /\ out = Blob
    /\ exit' = "ok"
    /\ UNCHANGED out

Fail ==
    /\ exit = "none"
    /\ exit' = "failed"
    /\ UNCHANGED out

Next == Deliver \/ Succeed \/ Fail

Spec == Init /\ [][Next]_<<out, exit>>
=============================================================================
