--------------------------- MODULE SelfImprovement ---------------------------
(***************************************************************************)
(* The cycle of the orchestrator with its vote, the life of an evidence    *)
(* card, the self-improvement cycle that runs inside the orchestrator's,   *)
(* and the promotion of what it found. They meet in what they hand over,   *)
(* which each takes from a set of its own, and share no state; a behaviour *)
(* follows one of them and leaves the others as they were.                 *)
(***************************************************************************)
EXTENDS OrchestratorCycle, SiCycle, Promotion

VARIABLE part       \* the one that is followed

wholeVars == <<part, voteVars, cardVars, cycleVars, siVars, vars>>

\* Where one may begin in several ways the others begin in one.
WholeInit ==
    /\ part \in {"cycle", "card", "si", "promotion"}
    /\ VoteInit /\ CardInit
    /\ CycleInit /\ (part # "cycle" => on = CHOOSE k \in Callbacks : TRUE)
    /\ SiInit /\ (part # "si" => sw = CHOOSE k \in Switches : TRUE)
    /\ Init /\ (part # "promotion" => \A f \in File : tree[f] = Original)

WholeNext ==
    /\ UNCHANGED part
    /\ \/ part = "cycle" /\ CycleNext /\ UNCHANGED <<cardVars, siVars, vars>>
       \/ part = "card" /\ CardNext /\ UNCHANGED <<voteVars, cycleVars, siVars, vars>>
       \/ part = "si" /\ SiNext /\ UNCHANGED <<voteVars, cardVars, cycleVars, vars>>
       \/ part = "promotion" /\ Next /\ UNCHANGED <<voteVars, cardVars, cycleVars, siVars>>

WholeSpec == WholeInit /\ [][WholeNext]_wholeVars
===============================================================================
