----------------------------- MODULE BlobStream -----------------------------
(***************************************************************************)
(* scripts/ghcr-blob-stream.py: one blob, fetched with as many requests as *)
(* the registry's cuts make necessary, and written to a pipe.              *)
(*                                                                         *)
(* The blob is Size pieces; the reads of one chunk are reads of its        *)
(* pieces.  The registry, the network and the reader of the pipe are       *)
(* external: a request may fail, a body may end or break off anywhere, the *)
(* token may expire, bytes may be wrong, the reader may go away.           *)
(***************************************************************************)
EXTENDS Integers, Sequences

CONSTANTS
    Size,        \* pieces of the blob
    Bad,         \* a piece that is not the blob's
    MAX_ATTEMPTS

ASSUME BlobStreamAssumption ==
    /\ Size \in Nat /\ MAX_ATTEMPTS \in Nat
    /\ Bad \notin Int

VARIABLES
    pc,
    offset, attempt,
    body,    \* how far the open response's body has been read
    token,   \* "none", "good" or "stale"
    out,     \* what was passed to out.write, which is what sha has seen
    sent,    \* how much of it has left the write buffer
    pipe,    \* "open", or "closed" when its reader is gone
    exit,    \* "none" while it runs, then how it ended
    faults   \* what went wrong outside the program and it has to ride out,
             \* counted up to MAX_ATTEMPTS

vars == <<pc, offset, attempt, body, token, out, sent, pipe, exit, faults>>

Blob == [i \in 1 .. Size |-> i]

TypeOK ==
    /\ pc \in {"token", "loop", "request", "read", "retoken", "flush", "done"}
    /\ offset \in 0 .. Size /\ sent \in 0 .. Size
    /\ attempt \in 0 .. MAX_ATTEMPTS + 1
    /\ body \in 0 .. Size /\ faults \in 0 .. MAX_ATTEMPTS
    /\ token \in {"none", "good", "stale"}
    /\ out \in Seq((1 .. Size) \union {Bad})
    /\ pipe \in {"open", "closed"}
    /\ exit \in {"none", "ok", "noToken", "gaveUp", "rangeIgnored",
                 "brokenPipe", "mismatch"}

Init ==
    /\ pc = "token" /\ offset = 0 /\ attempt = 0 /\ body = 0
    /\ token = "none"
    /\ out = << >> /\ sent = 0 /\ pipe = "open"
    /\ exit = "none" /\ faults = 0

End(how) == pc' = "done" /\ exit' = how

Fault == faults' = IF faults < MAX_ATTEMPTS THEN faults + 1 ELSE faults

-----------------------------------------------------------------------------
(* The program                                                              *)

\* bearer(): a token, or an exception that ends the program, also when the
\* registry said 401 in the middle of the blob.
Bearer ==
    /\ pc \in {"token", "retoken"}
    /\ \/ token' = "good" /\ pc' = "loop" /\ UNCHANGED exit
       \/ End("noToken") /\ UNCHANGED token
    /\ UNCHANGED <<offset, attempt, body, out, sent, pipe, faults>>

\* Mutant of Loop: failed requests do not count.
LoopNoCount ==
    /\ pc = "loop"
    /\ pc' = IF offset >= Size THEN "flush" ELSE "request"
    /\ UNCHANGED <<offset, attempt, body, token, out, sent, exit, pipe, faults>>

\* while offset < size
Loop ==
    /\ pc = "loop"
    /\ IF offset >= Size
         THEN pc' = "flush" /\ UNCHANGED <<attempt, exit>>
         ELSE /\ attempt' = attempt + 1
              /\ IF attempt' > MAX_ATTEMPTS
                   THEN End("gaveUp")
                   ELSE pc' = "request" /\ UNCHANGED exit
    /\ UNCHANGED <<offset, body, token, out, sent, pipe, faults>>

\* Mutant of Respond: the status of a resumed request is not looked at.
RespondAnyStatus ==
    /\ pc = "request" /\ token = "good"
    /\ \E start \in {0, offset} : pc' = "read" /\ body' = start
    /\ UNCHANGED <<offset, attempt, token, out, sent, exit, pipe, faults>>

\* The registry answers 206 from the offset on, or 200 with the whole blob.
Respond ==
    /\ pc = "request" /\ token = "good"
    /\ \/ pc' = "read" /\ body' = offset /\ UNCHANGED exit
       \/ /\ offset > 0 /\ End("rangeIgnored") /\ UNCHANGED body
    /\ UNCHANGED <<offset, attempt, token, out, sent, pipe, faults>>

\* Mutant of Unauthorized: the old token is tried again.
UnauthorizedKeepsToken ==
    /\ pc = "request" /\ token = "stale"
    /\ pc' = "loop"
    /\ UNCHANGED <<offset, attempt, body, token, out, sent, exit, pipe, faults>>

\* HTTP 401
Unauthorized ==
    /\ pc = "request" /\ token = "stale"
    /\ pc' = "retoken"
    /\ UNCHANGED <<offset, attempt, body, token, out, sent, exit, pipe, faults>>

\* Another HTTP error, or no connection.
RequestFails ==
    /\ pc = "request"
    /\ pc' = "loop"
    /\ Fault
    /\ UNCHANGED <<offset, attempt, body, token, out, sent, exit, pipe>>

\* A piece arrives and is written and hashed.  The write buffer may hold on
\* to it, even when the pipe has no reader.
Read ==
    /\ pc = "read" /\ offset < Size /\ body < Size
    /\ \E piece \in {body + 1, Bad} : out' = Append(out, piece)
    /\ sent' \in IF pipe = "open" THEN {sent, offset + 1} ELSE {sent}
    /\ body' = body + 1
    /\ offset' = offset + 1
    /\ UNCHANGED <<pc, attempt, token, exit, pipe, faults>>

\* BrokenPipeError is an OSError like those of a cut connection, and is
\* answered with another request.
WriteFails ==
    /\ pc = "read" /\ offset < Size /\ pipe = "closed"
    /\ pc' = "loop"
    /\ UNCHANGED <<offset, attempt, body, token, out, sent, exit, pipe, faults>>

\* All of it has been read: out of both loops.
AllRead ==
    /\ pc = "read" /\ offset = Size
    /\ pc' = "loop"
    /\ UNCHANGED <<offset, attempt, body, token, out, sent, exit, pipe, faults>>

\* The body ends early or the connection is cut.
Cut ==
    /\ pc = "read" /\ offset < Size
    /\ pc' = "loop"
    /\ Fault
    /\ UNCHANGED <<offset, attempt, body, token, out, sent, exit, pipe>>

\* Mutant of Finish: the length is all that is checked.
FinishUnverified ==
    /\ pc = "flush"
    /\ IF pipe = "closed" /\ sent < offset
         THEN End("brokenPipe") /\ UNCHANGED sent
         ELSE sent' = offset /\ End("ok")
    /\ UNCHANGED <<offset, attempt, body, token, out, pipe, faults>>

\* Flush, then compare the digests.
Finish ==
    /\ pc = "flush"
    /\ IF pipe = "closed" /\ sent < offset
         THEN End("brokenPipe") /\ UNCHANGED sent
         ELSE sent' = offset /\ End(IF out = Blob THEN "ok" ELSE "mismatch")
    /\ UNCHANGED <<offset, attempt, body, token, out, pipe, faults>>

Program ==
    \/ Bearer \/ Loop \/ Respond \/ Unauthorized \/ RequestFails
    \/ Read \/ WriteFails \/ AllRead \/ Cut \/ Finish

-----------------------------------------------------------------------------
(* Its surroundings                                                         *)

\* A token that was good is refused from now on.
Expire ==
    /\ token = "good" /\ pc # "done"
    /\ token' = "stale"
    /\ Fault
    /\ UNCHANGED <<pc, offset, attempt, body, out, sent, exit, pipe>>

\* zstd or tar ends before its input does.
ReaderGone ==
    /\ pipe = "open" /\ pc # "done"
    /\ pipe' = "closed"
    /\ UNCHANGED <<pc, offset, attempt, body, token, out, sent, exit, faults>>

Next == Program \/ Expire \/ ReaderGone

\* Every call of the program has a timeout, so the program takes its steps.
Spec == Init /\ [][Next]_vars /\ WF_vars(Program)

-----------------------------------------------------------------------------
(* Properties                                                               *)

\* Resuming leaves no gap and repeats nothing: what was handed over is the
\* blob's beginning but for pieces that arrived damaged (lines 89-102).
OutIsPrefix ==
    /\ Len(out) = offset
    /\ \A i \in 1 .. Len(out) : out[i] \in {i, Bad}

\* Exit status 0 means that the whole blob, undamaged, has gone through the
\* pipe (lines 115-124).
OkIsComplete == exit = "ok" => out = Blob /\ sent = Size

\* The program gives up on a blob only after as many faults of the registry
\* as it has attempts, an expired token counted once, unless its reader is
\* gone (lines 82-85, 103-112).
GivesUpLate == exit = "gaveUp" => faults = MAX_ATTEMPTS \/ pipe = "closed"

\* It always ends.
Terminates == <>(exit # "none")

\* It keeps the promise of BlobDelivery.
Promise == INSTANCE BlobDelivery WITH
             exit <- CASE exit = "none" -> "none"
                       [] exit = "ok" -> "ok"
                       [] OTHER -> "failed"
KeepsPromise == Promise!Spec
=============================================================================
