------------------------------- MODULE MCOnDisk -------------------------------
(***************************************************************************)
(* Two files, appliers, proposals, processes, copiers and claimants; each  *)
(* part with a fault or two. The archive has an old change and a new one   *)
(* of the same path, one of a protected path and one that is no text.      *)
(***************************************************************************)
EXTENDS OnDisk, TLC

CONSTANTS f1, f2, a, b

MCFile == {f1, f2}
MCSym == Permutations(MCFile) \cup Permutations({a, b})

MCPathOf == [c \in {"old", "new", "env", "odd"} |->
    CASE c \in {"old", "new"} -> "f" [] c = "env" -> ".env" [] OTHER -> "g"]
MCLength == [c \in {"old", "new", "env", "odd"} |-> IF c = "new" THEN 2 ELSE 1]
MCBatch == {<<"old">>, <<"old", "new", "env">>, <<"odd", "new", "old">>, <<"new", "old", "env", "old">>}

\* The sessions alone.
SessionSpec == (Init /\ part = "session") /\ [][Next]_vars
===============================================================================
