-------------------------- MODULE BlobStreamProofs --------------------------
(***************************************************************************)
(* Proofs about BlobStream, for every size of the blob and every number of *)
(* attempts.                                                               *)
(***************************************************************************)
EXTENDS BlobStream, TLAPS

Pieces == (1 .. Size) \union {Bad}

\* A response is read at the offset reached; a program that is not done has no
\* result yet and an attempt left or under way, and what the write buffer holds back is part of what was written.
Aligned ==
    /\ pc = "read" => body = offset
    /\ exit = "none" <=> pc # "done"
    /\ sent <= offset
    /\ token = "none" => pc \in {"token", "done"}
    /\ pc # "done" => attempt <= MAX_ATTEMPTS

LEMMA AppendPiece ==
    ASSUME NEW s \in Seq(Pieces), NEW p \in Pieces
    PROVE  /\ Append(s, p) \in Seq(Pieces)
           /\ Len(Append(s, p)) = Len(s) + 1
           /\ Append(s, p)[Len(s) + 1] = p
           /\ \A i \in 1 .. Len(s) : Append(s, p)[i] = s[i]
  OBVIOUS

-----------------------------------------------------------------------------
Typed == TypeOK /\ Aligned /\ OutIsPrefix

LEMMA TypedInit == Init => Typed
  BY BlobStreamAssumption DEF Init, Typed, TypeOK, Aligned, OutIsPrefix

LEMMA ReadTyped == Typed /\ Read => Typed'
  <1> SUFFICES ASSUME Typed, Read PROVE Typed'
    OBVIOUS
  <1> USE BlobStreamAssumption DEF Typed
  <1>1. PICK piece \in {body + 1, Bad} : out' = Append(out, piece)
    BY DEF Read
  <1>2. /\ body = offset /\ offset < Size /\ Len(out) = offset
        /\ offset \in 0 .. Size /\ out \in Seq(Pieces)
    BY DEF Read, Aligned, OutIsPrefix, TypeOK, Pieces
  <1>3. piece \in Pieces /\ piece \in {offset + 1, Bad}
    BY <1>1, <1>2 DEF Pieces
  <1>4. /\ out' \in Seq(Pieces) /\ Len(out') = offset + 1
        /\ out'[offset + 1] = piece
        /\ \A i \in 1 .. offset : out'[i] = out[i]
    BY <1>1, <1>2, <1>3, AppendPiece
  <1>5. TypeOK'
    BY <1>2, <1>4 DEF Read, TypeOK, Pieces
  <1>6. Aligned'
    BY <1>2 DEF Read, Aligned, TypeOK
  <1>7. OutIsPrefix'
    <2>1. Len(out') = offset'
      BY <1>4 DEF Read
    <2>2. ASSUME NEW i \in 1 .. Len(out') PROVE out'[i] \in {i, Bad}
      <3>1. CASE i = offset + 1
        BY <1>2, <1>3, <1>4, <3>1
      <3>2. CASE i # offset + 1
        BY <1>2, <1>4, <3>2 DEF OutIsPrefix
      <3> QED BY <3>1, <3>2
    <2> QED BY <2>1, <2>2 DEF OutIsPrefix
  <1> QED BY <1>5, <1>6, <1>7

LEMMA TypedNext == Typed /\ [Next]_vars => Typed'
  <1> SUFFICES ASSUME Typed, [Next]_vars PROVE Typed'
    OBVIOUS
  <1> USE BlobStreamAssumption DEF Typed, TypeOK, Aligned, OutIsPrefix
  <1>1. CASE Bearer
    BY <1>1 DEF Bearer, End
  <1>2. CASE Loop
    BY <1>2 DEF Loop, End
  <1>3. CASE Respond
    BY <1>3 DEF Respond, End
  <1>4. CASE Unauthorized
    BY <1>4 DEF Unauthorized
  <1>5. CASE RequestFails
    BY <1>5 DEF RequestFails, Fault
  <1>6. CASE Read
    BY <1>6, ReadTyped
  <1>7. CASE WriteFails
    BY <1>7 DEF WriteFails
  <1>8. CASE AllRead
    BY <1>8 DEF AllRead
  <1>9. CASE Cut
    BY <1>9 DEF Cut, Fault
  <1>10. CASE Finish
    BY <1>10 DEF Finish, End
  <1>11. CASE Expire
    BY <1>11 DEF Expire, Fault
  <1>12. CASE ReaderGone
    BY <1>12 DEF ReaderGone
  <1>13. CASE UNCHANGED vars
    BY <1>13 DEF vars
  <1> QED
    BY <1>1, <1>2, <1>3, <1>4, <1>5, <1>6, <1>7, <1>8, <1>9, <1>10, <1>11,
       <1>12, <1>13 DEF Next, Program

LEMMA AlwaysTyped == Spec => []Typed
  BY TypedInit, TypedNext, PTL DEF Spec

\* Every variable keeps its type, so offset and attempts stay within bounds.
THEOREM TypeCorrect == Spec => []TypeOK
  BY AlwaysTyped, PTL DEF Typed

\* However often the registry cuts the connection, what was handed over is the
\* beginning of the blob: no gap, nothing twice.
THEOREM ResumeIsExact == Spec => []OutIsPrefix
  BY AlwaysTyped, PTL DEF Typed

-----------------------------------------------------------------------------
\* The only way to "ok" is Finish, which compares and flushes.
OkInv ==
    /\ OkIsComplete
    /\ pc = "flush" => offset = Size

LEMMA OkNext == Typed /\ OkInv /\ [Next]_vars => OkInv'
  <1> SUFFICES ASSUME Typed, OkInv, [Next]_vars PROVE OkInv'
    OBVIOUS
  <1> USE BlobStreamAssumption DEF OkInv, OkIsComplete, Typed, Aligned, Blob
  <1>1. CASE Bearer
    BY <1>1 DEF Bearer, End
  <1>2. CASE Loop
    BY <1>2 DEF Loop, End, TypeOK
  <1>3. CASE Respond
    BY <1>3 DEF Respond, End
  <1>4. CASE Unauthorized \/ RequestFails \/ WriteFails \/ AllRead \/ Cut
    BY <1>4 DEF Unauthorized, RequestFails, WriteFails, AllRead, Cut
  <1>5. CASE Read
    BY <1>5 DEF Read
  <1>6. CASE Finish
    BY <1>6 DEF Finish, End, TypeOK
  <1>7. CASE Expire \/ ReaderGone
    BY <1>7 DEF Expire, ReaderGone
  <1>8. CASE UNCHANGED vars
    BY <1>8 DEF vars
  <1> QED
    BY <1>1, <1>2, <1>3, <1>4, <1>5, <1>6, <1>7, <1>8 DEF Next, Program

\* Exit status 0 means that the whole blob, undamaged, went through the pipe.
THEOREM OkMeansComplete == Spec => []OkIsComplete
  <1>1. Init => OkInv
    BY DEF Init, OkInv, OkIsComplete
  <1> QED
    BY <1>1, OkNext, AlwaysTyped, PTL DEF Spec, OkInv

-----------------------------------------------------------------------------
\* The attempts that are over without having brought the end of the blob.
Spent == IF pc \in {"request", "read"} THEN attempt - 1 ELSE attempt

\* Each of them had a fault of its own, and so had a token that is stale and
\* has not yet cost an attempt.
Accounted ==
    \/ pipe = "closed" \/ offset = Size \/ pc = "done"
    \/ faults = MAX_ATTEMPTS
    \/ Spent + (IF token = "stale" /\ pc # "retoken" THEN 1 ELSE 0) <= faults

LateInv == Accounted /\ GivesUpLate

LEMMA LateNext == Typed /\ LateInv /\ [Next]_vars => LateInv'
  <1> SUFFICES ASSUME Typed, LateInv, [Next]_vars PROVE LateInv'
    OBVIOUS
  <1> USE BlobStreamAssumption
          DEF LateInv, Accounted, Spent, GivesUpLate, Typed, Aligned, TypeOK
  <1>1. CASE Bearer
    BY <1>1 DEF Bearer, End
  <1>2. CASE Loop
    BY <1>2 DEF Loop, End
  <1>3. CASE Respond
    BY <1>3 DEF Respond, End
  <1>4. CASE Unauthorized
    BY <1>4 DEF Unauthorized
  <1>5. CASE RequestFails \/ Cut
    BY <1>5 DEF RequestFails, Cut, Fault
  <1>6. CASE Read
    BY <1>6 DEF Read
  <1>7. CASE WriteFails \/ AllRead
    BY <1>7 DEF WriteFails, AllRead
  <1>8. CASE Finish
    BY <1>8 DEF Finish, End
  <1>9. CASE Expire
    BY <1>9 DEF Expire, Fault
  <1>10. CASE ReaderGone
    BY <1>10 DEF ReaderGone
  <1>11. CASE UNCHANGED vars
    BY <1>11 DEF vars
  <1> QED
    BY <1>1, <1>2, <1>3, <1>4, <1>5, <1>6, <1>7, <1>8, <1>9, <1>10, <1>11
       DEF Next, Program

\* Giving up takes as many faults of the registry as there are attempts.
THEOREM GivesUpOnlyLate == Spec => []GivesUpLate
  <1>1. Init => LateInv
    BY BlobStreamAssumption DEF Init, LateInv, Accounted, Spent, GivesUpLate
  <1> QED
    BY <1>1, LateNext, AlwaysTyped, PTL DEF Spec, LateInv

-----------------------------------------------------------------------------
(* Refinement                                                               *)

LEMMA PromiseInit == Init => Promise!Init
  BY DEF Init, Promise!Init

LEMMA PromiseNext ==
    Typed /\ [Next]_vars
      => [Promise!Next]_<<out, CASE exit = "none" -> "none"
                                 [] exit = "ok" -> "ok"
                                 [] OTHER -> "failed">>
  <1> SUFFICES ASSUME Typed, [Next]_vars
               PROVE  \/ Promise!Deliver \/ Promise!Succeed \/ Promise!Fail
                      \/ UNCHANGED <<out, exit>>
    BY DEF Promise!Next
  <1> USE DEF Typed, Aligned
  <1>1. CASE Bearer
    BY <1>1 DEF Bearer, End, Promise!Fail
  <1>2. CASE Loop
    BY <1>2 DEF Loop, End, Promise!Fail
  <1>3. CASE Respond
    BY <1>3 DEF Respond, End, Promise!Fail
  <1>4. CASE Unauthorized \/ RequestFails \/ WriteFails \/ AllRead \/ Cut
    BY <1>4 DEF Unauthorized, RequestFails, WriteFails, AllRead, Cut
  <1>5. CASE Read
    BY <1>5 DEF Read, OutIsPrefix, Promise!Deliver
  <1>6. CASE Finish
    BY <1>6 DEF Finish, End, Promise!Fail, Promise!Succeed, Promise!Blob, Blob
  <1>7. CASE Expire \/ ReaderGone
    BY <1>7 DEF Expire, ReaderGone
  <1>8. CASE UNCHANGED vars
    BY <1>8 DEF vars
  <1> QED
    BY <1>1, <1>2, <1>3, <1>4, <1>5, <1>6, <1>7, <1>8 DEF Next, Program

\* The program implements BlobDelivery: every step of it is a delivery of the
\* next piece, a success with the whole blob, a failure, or none of these.
THEOREM Implements == Spec => KeepsPromise
  BY PromiseInit, PromiseNext, AlwaysTyped, PTL
     DEF Spec, KeepsPromise, Promise!Spec
=============================================================================
