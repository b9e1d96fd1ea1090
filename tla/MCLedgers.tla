------------------------------ MODULE MCLedgers ------------------------------
(***************************************************************************)
(* Two bursts of four lanes, three cycles, three events of different size, *)
(* two falsifications, threads, dispatches, cards and ledgers, three       *)
(* candidates; each with a fault or two. The probe for code that runs is   *)
(* at work where no ledger is.                                             *)
(***************************************************************************)
EXTENDS Ledgers, LiveCode, TLC

CONSTANTS e1, e2, e3, t1, t2

MCEvent == {e1, e2, e3}
MCSize == [e \in MCEvent |-> CASE e = e1 -> 1 [] e = e2 -> 2 [] OTHER -> 3]
MCSwitches == {{"logging", "podB", "podA"}, {"logging", "podB", "quota", "prune"}, {"podB"}}
MCFileOf == [c \in {"v1", "v2", "u"} |-> IF c = "v1" THEN "f" ELSE "g"]
MCSym == Permutations({t1, t2})

Plain == CHOOSE b \in Body : TRUE

MCInit ==
    /\ Init
    /\ IF ledger = "none" THEN LiveInit ELSE body = Plain /\ probed = {} /\ ran = {}
MCNext ==
    \/ Next /\ UNCHANGED liveVars
    \/ ledger = "none" /\ LiveNext /\ UNCHANGED vars

MCSpec == MCInit /\ [][MCNext]_<<vars, liveVars>>

\* The ratchet alone.
RatchetSpec == (MCInit /\ ledger = "ratchet") /\ [][MCNext]_<<vars, liveVars>>
=============================================================================
