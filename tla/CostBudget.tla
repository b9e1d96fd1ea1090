------------------------------ MODULE CostBudget ------------------------------
(***************************************************************************)
(* The budget ledger of provider dispatches (enforcement/cost_limiter.py): *)
(* a dispatch reserves its estimated cost, calls the provider and replaces *)
(* the reservation by the cost of the usage that it reports. Dispatches of *)
(* several threads share the ledger, whose two operations hold its lock.   *)
(* Their order is that of the orchestrator's lane; the provider manager    *)
(* between them is not in the repository. Costs are in units.              *)
(***************************************************************************)
EXTENDS Naturals, FiniteSets, FiniteSetsExt

CONSTANTS Dispatch,    \* dispatches that share a ledger
          Cap,         \* budgets to check, 0 for none
          OutputPrice, \* price of a unit of output, one of input costs 1
          MaxTokens    \* sizes of prompts and outputs

ASSUME BudgetAssumption ==
    IsFiniteSet(Dispatch) /\ Cap \subseteq Nat /\ OutputPrice \in Nat /\ MaxTokens \in Nat \ {0}

VARIABLES cap,        \* AGI_V8_COST_BUDGET_USD
          cumulative, \* _cumulative_cost_usd
          records,    \* _records, as a set: [who, kind, amount]
          dispatch    \* dispatch[d]: [pc, input, expected, reserved, bill]

budgetVars == <<cap, cumulative, records, dispatch>>

NewDispatch == [pc |-> "new", input |-> 1, expected |-> 1, reserved |-> 0, bill |-> 0]

BudgetInit ==
    /\ cap \in Cap
    /\ cumulative = 0
    /\ records = {}
    /\ dispatch = [d \in Dispatch |-> NewDispatch]

\* estimate_cost: each side at its price.
Cost(usage) == usage.input + OutputPrice * usage.output
Estimated(d) == [input |-> dispatch[d].input, output |-> dispatch[d].expected]

\* usage_from_provider: a report is believed if its input is positive and its
\* output is there; an output of zero is read as absent.
Believed(report) == report.input > 0 /\ report.output > 0
usage_from_provider(d, report) == IF Believed(report) THEN report ELSE Estimated(d)

\* enforce_budget: a cap of zero switches the budget off.
enforce_budget(total) == cap = 0 \/ total <= cap

Note(d, kind, amount) == records' = records \union {[who |-> d, kind |-> kind, amount |-> amount]}
Becomes(d, pc) == [dispatch EXCEPT ![d].pc = pc]

\* check_and_reserve, or an exception and no call.
check_and_reserve(d) ==
    /\ dispatch[d].pc = "new"
    /\ \E input \in 1..MaxTokens, expected \in 1..MaxTokens :
          LET amount == Cost([input |-> input, output |-> expected])
              next == [NewDispatch EXCEPT !.input = input, !.expected = expected] IN
          IF enforce_budget(cumulative + amount)
          THEN /\ cumulative' = cumulative + amount
               /\ dispatch' = [dispatch EXCEPT ![d] = [next EXCEPT !.pc = "reserved", !.reserved = amount]]
               /\ Note(d, "reserved", amount)
          ELSE /\ dispatch' = [dispatch EXCEPT ![d] = [next EXCEPT !.pc = "blocked"]]
               /\ Note(d, "blocked", amount)
               /\ UNCHANGED cumulative
    /\ UNCHANGED cap

\* The provider is called: it bills what it used, and reports that or nothing.
CallProvider(d) ==
    /\ dispatch[d].pc = "reserved"
    /\ \E input \in 1..MaxTokens, output \in 0..MaxTokens :
          dispatch' = [dispatch EXCEPT ![d].pc = "answered",
                                       ![d].bill = Cost([input |-> input, output |-> output])]
    /\ UNCHANGED <<cap, cumulative, records>>

\* A dispatch that fails keeps its reservation: nothing takes one back.
FailProvider(d) ==
    /\ dispatch[d].pc = "reserved"
    /\ dispatch' = Becomes(d, "failed")
    /\ UNCHANGED <<cap, cumulative, records>>

\* Bug: the reservation is not given back.
_KeepsReservation(d) ==
    /\ dispatch[d].pc = "answered"
    /\ LET total == cumulative + dispatch[d].bill IN
       /\ enforce_budget(total)
       /\ cumulative' = total
       /\ dispatch' = Becomes(d, "settled")
       /\ Note(d, "settled", dispatch[d].bill)
    /\ UNCHANGED cap

\* replace_reservation by the usage that is reported (the bill's), by none, or
\* by an empty one; over the cap it is refused and the reservation stays, the
\* amount is in the record alone.
replace_reservation(d) ==
    /\ dispatch[d].pc = "answered"
    /\ \E input \in 0..MaxTokens, output \in 0..MaxTokens :
          LET report == [input |-> input, output |-> output]
              amount == Cost(usage_from_provider(d, report))
              total == (cumulative - dispatch[d].reserved) + amount IN
          /\ Believed(report) => Cost(report) = dispatch[d].bill
          /\ IF enforce_budget(total)
             THEN /\ cumulative' = total
                  /\ dispatch' = Becomes(d, "settled")
                  /\ Note(d, "settled", amount)
             ELSE /\ dispatch' = Becomes(d, "refused")
                  /\ Note(d, "refused", amount)
                  /\ UNCHANGED cumulative
    /\ UNCHANGED cap

BudgetNext == \E d \in Dispatch :
    check_and_reserve(d) \/ CallProvider(d) \/ FailProvider(d) \/ replace_reservation(d)

(***************************************************************************)
(* Property                                                                *)
(***************************************************************************)
Amount(d, kind) == CHOOSE n \in {r.amount : r \in {x \in records : x.who = d /\ x.kind = kind}} : TRUE
Held(d) == CASE dispatch[d].pc \in {"new", "blocked"} -> 0
             [] dispatch[d].pc = "settled" -> Amount(d, "settled")
             [] OTHER -> Amount(d, "reserved")

(* In every interleaving of the dispatches the running total is what they  *)
(* hold, each the amount of its last accepted record, and is never over    *)
(* the cap; whoever was called had a reservation; and a call whose         *)
(* settlement was refused has a record of what it was to cost, though the  *)
(* total goes on with its estimate (CostBudgetLedger).                     *)
TotalIsWhatIsHeld ==
    /\ cumulative = SumFunction([d \in Dispatch |-> Held(d)])
    /\ cap > 0 => cumulative <= cap
    /\ \A d \in Dispatch :
          /\ dispatch[d].bill > 0 => \E r \in records : r.who = d /\ r.kind = "reserved"
          /\ dispatch[d].pc = "refused" => \E r \in records : r.who = d /\ r.kind = "refused"
=============================================================================
