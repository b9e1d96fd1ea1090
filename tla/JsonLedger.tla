----------------------------- MODULE JsonLedger -----------------------------
(***************************************************************************)
(* An append-only JSONL file as state/store.py keeps it: one row per line, *)
(* appended under a lock with one write and one fsync, never repaired.     *)
(* A write that stops half-way leaves a last line without an end, and the  *)
(* next row continues that line.                                           *)
(***************************************************************************)
EXTENDS Sequences, SequencesExt

\* The rows that parse; whether the last of them lacks its newline; whether the
\* file ends in a piece of a row; whether a line in it does not parse.
NewLedger == [rows |-> <<>>, open |-> FALSE, torn |-> FALSE, junk |-> FALSE]

\* The rows that a further byte on the last line leaves readable.
Kept(l) == IF l.open THEN Front(l.rows) ELSE l.rows

\* The whole line is written. After an unfinished line it becomes part of it.
Written(l, row) ==
    IF l.open \/ l.torn
    THEN [rows |-> Kept(l), open |-> FALSE, torn |-> FALSE, junk |-> TRUE]
    ELSE [l EXCEPT !.rows = Append(@, row)]

\* A piece of the line is written; all of it but its newline.
Cut(l) == [l EXCEPT !.rows = Kept(l), !.open = FALSE, !.torn = TRUE]
Unended(l, row) ==
    IF l.open \/ l.torn THEN Cut(l)
    ELSE [l EXCEPT !.rows = Append(@, row), !.open = TRUE]

\* An append that raises may have written nothing, a piece, all but the newline,
\* or, when only the fsync failed, everything.
Failed(l, row) == {l, Cut(l), Unended(l, row), Written(l, row)}

\* Mutant: a line that does not parse is skipped.
_ParsesAlways(l) == TRUE

\* read_jsonl returns: every line parses. (Other readers skip what does not.)
Parses(l) == ~l.torn /\ ~l.junk
=============================================================================
