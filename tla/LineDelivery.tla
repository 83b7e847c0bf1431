---------------------------- MODULE LineDelivery ----------------------------
(***************************************************************************)
(* What tail_log of tools/bst-dashboard.py promises parse_line: the        *)
(* complete lines of the log that is there, each once and in order.        *)
(* Between the moment that another process cuts or replaces the log and    *)
(* the tailer's next look at it, anything may be passed on (a chunk of two *)
(* logs, even); that look makes the dashboard forget all of it.            *)
(*                                                                         *)
(* A log is known by its number and its length, counted in half-lines.     *)
(***************************************************************************)
EXTENDS Integers, Sequences

VARIABLES
    log, length, \* the log that is there
    replaced,    \* it was cut or replaced, and the tailer has not looked since
    delivered    \* lines passed to parse_line since the last reset_state

Line(g, j) == << <<g, 2 * j - 1>>, <<g, 2 * j>> >>

\* The complete lines among the first n half-lines of log g.
LinesUpTo(g, n) == [j \in 1 .. n \div 2 |-> Line(g, j)]

Init ==
    /\ log = 0 /\ length \in Nat
    /\ replaced = FALSE
    /\ delivered = << >>

\* The file is emptied, deleted, or given to the next log.
Replace ==
    /\ log' \in {log, log + 1} /\ length' = 0
    /\ replaced' = TRUE
    /\ UNCHANGED delivered

Grow ==
    /\ length' = length + 1
    /\ UNCHANGED <<log, replaced, delivered>>

\* Some more lines of the log that is there follow those delivered.
Deliver ==
    /\ ~ replaced
    /\ \E n \in 0 .. length :
         /\ Len(delivered) <= n \div 2
         /\ delivered' = LinesUpTo(log, n)
    /\ UNCHANGED <<log, length, replaced>>

\* The tailer goes on with a file that is no longer there: delivered' is free.
Mislead ==
    /\ replaced
    /\ UNCHANGED <<log, length, replaced>>

\* The tailer looks at the file and starts over.
Notice ==
    /\ replaced
    /\ replaced' = FALSE /\ delivered' = << >>
    /\ UNCHANGED <<log, length>>

Next == Replace \/ Grow \/ Deliver \/ Mislead \/ Notice

Spec == Init /\ [][Next]_<<log, length, replaced, delivered>>
=============================================================================
