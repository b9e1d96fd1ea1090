----------------------------- MODULE MCTickLoop -----------------------------
(***************************************************************************)
(* TickLoop on small instances: two processes, one or two query ids.       *)
(***************************************************************************)
EXTENDS TickLoop, TLC

CONSTANTS p1, p2, s1, s2, i1, i2

MCProc == {p1, p2}
MCSlot == {s1, s2}
MCSym == Permutations(MCProc) \cup Permutations(MCSlot)

Plain(i) == [id |-> i, kind |-> "valid", campaign |-> FALSE]
Card(i) == [id |-> i, kind |-> "valid", campaign |-> TRUE]
Forged(i) == [id |-> i, kind |-> "unauth", campaign |-> FALSE]
Broken(i) == [id |-> i, kind |-> "malformed", campaign |-> FALSE]

\* A card, a forged row under its id, an unrelated query and one that cannot be read.
MixedRows == {Card(i1), Forged(i1), Plain(i2), Broken(i2)}
\* Two plain queries.
TwoPlain == {Plain(i1), Plain(i2)}
=============================================================================
