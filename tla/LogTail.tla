------------------------------- MODULE LogTail -------------------------------
(***************************************************************************)
(* tail_log of tools/bst-dashboard.py: following a log file that other     *)
(* processes truncate, replace and append to between any two of its steps. *)
(*                                                                         *)
(* Bytes come in half-lines: the k-th piece of log number g is <<g, k>>,   *)
(* and every second piece ends with a newline.  So a file is known by the  *)
(* number of its log and its length.  What parse_line does with a line is  *)
(* left to BuildState; here "delivered" is the list of lines passed to it  *)
(* since the last reset_state.                                             *)
(***************************************************************************)
EXTENDS Integers, Sequences, FiniteSets

CONSTANTS
    MaxLog,     \* logs written one after the other (model checking only)
    MaxLength,  \* pieces of one log (model checking only)
    SlowRegrow  \* TRUE: a new log stays shorter than what the tailer has
                \* read of the old one until the tailer has looked at it

ASSUME LogTailAssumption ==
    MaxLog \in Nat /\ MaxLength \in Nat /\ SlowRegrow \in BOOLEAN

VARIABLES
    exists,     \* LOG_FILE exists
    log,        \* number of the log it holds
    length,     \* its length in pieces
    unseen,     \* the file was cut or replaced since the tailer's getsize
    pc,         \* "stat" or "read": the tailer's next system call
    pos, size, buf, \* locals of tail_log
    delivered,
    catchingUp

file     == <<exists, log, length>>
tailVars == <<pc, pos, size, buf, delivered, catchingUp>>
vars     == <<file, unseen, tailVars>>

Piece == (0 .. MaxLog) \X (1 .. MaxLength)
EndsLine(p) == p[2] % 2 = 0
Content == [k \in 1 .. length |-> <<log, k>>]

TypeOK ==
    /\ exists \in BOOLEAN /\ unseen \in BOOLEAN
    /\ log \in 0 .. MaxLog /\ length \in 0 .. MaxLength
    /\ pc \in {"stat", "read"}
    /\ pos \in 0 .. MaxLength /\ size \in 0 .. MaxLength
    /\ buf \in Seq(Piece)
    /\ \A i \in DOMAIN delivered : delivered[i] \in Seq(Piece)
    /\ catchingUp \in BOOLEAN

Init ==
    /\ exists \in BOOLEAN
    /\ log = 0
    /\ length \in IF exists THEN {0, MaxLength} ELSE {0}
    /\ unseen = FALSE
    /\ pc = "stat" /\ pos = 0 /\ size = 0
    /\ buf = << >> /\ delivered = << >>
    /\ catchingUp = TRUE

-----------------------------------------------------------------------------
(* The writers                                                              *)

\* How far the tailer believes to have read once its current round is over.
Horizon == IF pc = "read" THEN size ELSE pos

\* start_build opens the log with mode "w"; a build started by hand may
\* truncate it in the same way.  The header is written a moment later.
Truncate ==
    /\ log < MaxLog
    /\ exists' = TRUE /\ log' = log + 1 /\ length' = 0
    /\ unseen' = TRUE
    /\ UNCHANGED tailVars

\* The log is rotated away or deleted.
Rotate ==
    /\ exists
    /\ exists' = FALSE /\ length' = 0
    /\ unseen' = TRUE
    /\ UNCHANGED <<log, tailVars>>

\* The header, or whatever the build prints next: any number of pieces.
WriteMore ==
    /\ exists
    /\ length < MaxLength
    /\ SlowRegrow /\ unseen /\ Horizon > 0 => length + 1 < Horizon
    /\ length' = length + 1
    /\ UNCHANGED <<exists, log, unseen, tailVars>>

-----------------------------------------------------------------------------
(* The tailer.  While there is no file, getsize fails and it just waits.    *)

\* Positions of the line ends in a buffer; the n-th of them, or the start.
Ends(b) == {i \in DOMAIN b : EndsLine(b[i])}
LineEnd(b, n) ==
    IF n = 0 THEN 0
    ELSE CHOOSE i \in Ends(b) : Cardinality({j \in Ends(b) : j <= i}) = n

\* The complete lines of a buffer, and what follows the last of them.
LinesOf(b) ==
    [n \in 1 .. Cardinality(Ends(b)) |->
        SubSeq(b, LineEnd(b, n - 1) + 1, LineEnd(b, n))]
RestOf(b) == SubSeq(b, LineEnd(b, Cardinality(Ends(b))) + 1, Len(b))

\* Mutant of StatShrunk: the partial line is kept.
StatShrunkKeepsBuf ==
    /\ pc = "stat" /\ exists
    /\ length < pos
    /\ unseen' = FALSE
    /\ size' = length
    /\ pos' = 0 /\ delivered' = << >>
    /\ catchingUp' = (length > 0)
    /\ pc' = IF length > 0 THEN "read" ELSE "stat"
    /\ UNCHANGED <<file, buf>>

\* The file is shorter than what was read: reset_state, start over, and read
\* what there is.
StatShrunk ==
    /\ pc = "stat" /\ exists
    /\ length < pos
    /\ unseen' = FALSE
    /\ size' = length
    /\ pos' = 0 /\ buf' = << >> /\ delivered' = << >>
    /\ catchingUp' = (length > 0)
    /\ pc' = IF length > 0 THEN "read" ELSE "stat"
    /\ UNCHANGED file

StatGrown ==
    /\ pc = "stat" /\ exists
    /\ length > pos
    /\ unseen' = FALSE
    /\ size' = length
    /\ pc' = "read"
    /\ UNCHANGED <<file, pos, buf, delivered, catchingUp>>

\* Mutant of StatEqual: catch-up is not ended.
StatEqualStillCatchingUp ==
    /\ pc = "stat" /\ exists
    /\ length = pos
    /\ unseen' = FALSE
    /\ size' = length
    /\ UNCHANGED <<file, pc, pos, buf, delivered, catchingUp>>

\* Nothing new: the tailer has caught up.
StatEqual ==
    /\ pc = "stat" /\ exists
    /\ length = pos
    /\ unseen' = FALSE
    /\ size' = length
    /\ catchingUp' = FALSE
    /\ UNCHANGED <<file, pc, pos, buf, delivered>>

\* Mutant of Read: the position moves on by the size of the whole file.
ReadAddsSize ==
    /\ pc = "read" /\ exists
    /\ LET upTo == IF size < length THEN size ELSE length
           all  == buf \o SubSeq(Content, pos + 1, upTo)
       IN  /\ delivered' = delivered \o LinesOf(all)
           /\ buf' = RestOf(all)
    /\ pos' = pos + size
    /\ pc' = "stat"
    /\ UNCHANGED <<file, unseen, size, catchingUp>>

\* The file is opened again, by name, and may not be the one that was
\* measured: the chunk is then shorter than asked for, yet the position moves
\* on by all of it.
Read ==
    /\ pc = "read" /\ exists
    /\ LET upTo == IF size < length THEN size ELSE length
           all  == buf \o SubSeq(Content, pos + 1, upTo)
       IN  /\ delivered' = delivered \o LinesOf(all)
           /\ buf' = RestOf(all)
    /\ pos' = size
    /\ pc' = "stat"
    /\ UNCHANGED <<file, unseen, size, catchingUp>>

\* open fails: the round is given up.
ReadMissing ==
    /\ pc = "read" /\ ~ exists
    /\ pc' = "stat"
    /\ UNCHANGED <<file, unseen, pos, size, buf, delivered, catchingUp>>

Tailer ==
    \/ StatShrunk \/ StatGrown \/ StatEqual
    \/ Read \/ ReadMissing

Writers == Truncate \/ Rotate \/ WriteMore

Next == Tailer \/ Writers

\* The tailer is a thread in an endless loop; the writers may stop for good.
Spec == Init /\ [][Next]_vars /\ WF_vars(Tailer)

-----------------------------------------------------------------------------
(* Properties                                                               *)

\* Whenever the tailer finds nothing new, what it has passed to the parser
\* since the last reset is exactly the log as it is: no line lost, doubled,
\* joined from two logs, or left over from the log before (bst-dashboard.py:
\* 443-459), provided a new log takes longer to outgrow the old one than the
\* tailer takes to look.
CaughtUpExact ==
    (/\ SlowRegrow
     /\ pc = "stat" /\ exists /\ length = pos)
        => /\ delivered = LinesOf(Content)
           /\ buf = RestOf(Content)

\* Once the writers rest, the dashboard comes to show the log that is there,
\* and leaves the catch-up state.
Converges ==
    SlowRegrow => <>[](exists => /\ delivered = LinesOf(Content)
                                 /\ ~ catchingUp)

\* What the parser is promised, at every step and not only when all is read: it
\* implements LineDelivery where a new log takes its time (SlowRegrow).  Lines of
\* two logs only ever mix until the next getsize, which drops them.
Promise == INSTANCE LineDelivery WITH replaced <- unseen
DeliversLines == Promise!Spec

\* bst-dashboard.py:433, "resetting state if the file is truncated (new build
\* started)": the same without the proviso.
TruncationNoticed ==
    (pc = "stat" /\ exists /\ length = pos)
        => /\ delivered = LinesOf(Content)
           /\ buf = RestOf(Content)
=============================================================================
