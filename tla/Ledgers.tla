------------------------------- MODULE Ledgers -------------------------------
(***************************************************************************)
(* The ledgers of a state directory and of a process, and the instruments  *)
(* that read them: bills and bursts, episodes, prompts, falsifications,    *)
(* the usage of a call, the budget of a run, what was bought and resolved, *)
(* repeated failures, swallowed ones and the ratchet over the joins. Each  *)
(* has its own writers and readers and shares no state with the others, so *)
(* a behaviour works on one of them and leaves the rest as they were.      *)
(***************************************************************************)
EXTENDS SpendRecords, EpisodeLog, PromptHistory, FalsifierBus, UsageTally, CostBudget,
        ProgressStall, RepeatedFailure, FailFast, JoinRatchet

CONSTANT Switches       \* settings of the evidence bursts

VARIABLE ledger         \* the one at work

recordVars == <<spendVars, episodeVars, historyVars, busVars>>
costVars == <<tallyVars, budgetVars>>
instrumentVars == <<stallVars, repeatVars, failVars>>
vars == <<ledger, recordVars, costVars, instrumentVars, ratchetVars>>

\* Where one may begin in several ways the others begin in one.
Init ==
    /\ ledger \in {"spend", "episode", "history", "bus", "tally", "budget", "stall", "repeat",
                   "failures", "ratchet", "none"}
    /\ SpendInit(IF ledger = "spend" THEN Switches ELSE {{}})
    /\ EpisodeInit /\ HistoryInit /\ BusInit
    /\ TallyInit /\ (ledger # "tally" => honesty)
    /\ BudgetInit /\ (ledger # "budget" => cap = 0)
    /\ StallInit /\ (ledger # "stall" => tree = {})
    /\ RepeatInit /\ (ledger # "repeat" => setThreshold = 0)
    /\ FailInit /\ (ledger # "failures" => strict /\ maskGate)
    /\ RatchetInit /\ (ledger # "ratchet" => rows = [l \in Ledger |-> "absent"])

\* The rows under the state directory.
WriteRows ==
    /\ \/ ledger = "spend" /\ SpendNext /\ UNCHANGED <<episodeVars, historyVars, busVars>>
       \/ ledger = "episode" /\ EpisodeNext /\ UNCHANGED <<spendVars, historyVars, busVars>>
       \/ ledger = "history" /\ HistoryNext /\ UNCHANGED <<spendVars, episodeVars, busVars>>
       \/ ledger = "bus" /\ BusNext /\ UNCHANGED <<spendVars, episodeVars, historyVars>>
    /\ UNCHANGED <<costVars, instrumentVars, ratchetVars>>

\* What calls cost.
Account ==
    /\ \/ ledger = "tally" /\ TallyNext /\ UNCHANGED budgetVars
       \/ ledger = "budget" /\ BudgetNext /\ UNCHANGED tallyVars
    /\ UNCHANGED <<recordVars, instrumentVars, ratchetVars>>

\* What is made of failures and of the work bought.
Observe ==
    /\ \/ ledger = "stall" /\ StallNext /\ UNCHANGED <<repeatVars, failVars>>
       \/ ledger = "repeat" /\ RepeatNext /\ UNCHANGED <<stallVars, failVars>>
       \/ ledger = "failures" /\ FailNext /\ UNCHANGED <<stallVars, repeatVars>>
    /\ UNCHANGED <<recordVars, costVars, ratchetVars>>

\* The tool that looks at all of it.
Inspect ==
    /\ ledger = "ratchet" /\ RatchetNext
    /\ UNCHANGED <<recordVars, costVars, instrumentVars>>

Next == UNCHANGED ledger /\ (WriteRows \/ Account \/ Observe \/ Inspect)

Spec == Init /\ [][Next]_vars

\* The two readers that remember how far they have read, the compactor by a
\* time and the bus by an id, miss nothing and repeat nothing.
CursorsMissNothing == PassedIsHandled /\ RuleWrittenOnce /\ BusMissesNothing
=============================================================================
