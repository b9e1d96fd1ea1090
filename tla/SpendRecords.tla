---------------------------- MODULE SpendRecords ----------------------------
(***************************************************************************)
(* What a paid evidence burst leaves in the ledgers. One cycle after the   *)
(* other asks bridge/si_evidence.py for a burst: the lanes of the swarm    *)
(* and two hetero pods are billed, enforcement/executor_log.py records     *)
(* each bill, the evidence ledger records the burst. Read back, the rows   *)
(* pace the next burst, feed the daily cap and runtime/cost_reconcile.py.  *)
(***************************************************************************)
EXTENDS Integers, FiniteSets, FiniteSetsExt, JsonLedger

CONSTANTS MaxBursts,    \* attempts
          MaxUsd,       \* budget of a burst
          Cooldown,     \* between bursts
          Limit,        \* bursts of an episode
          Lanes,        \* lanes a burst plans for
          MaxClock,
          MaxFaults     \* failed appends, exceptions, crashes

ASSUME SpendAssumption ==
    {MaxBursts, MaxUsd, Cooldown, Limit, Lanes, MaxClock, MaxFaults} \subseteq Nat

Part == {"lanes", "podB", "podA"}
Unpriced == -1          \* a cost that is no number
Bill == [n : 1..MaxBursts, part : Part, usd : 0..MaxUsd]

VARIABLES
    on,         \* the switches: quota, prune, logging, podB, podA
    at,         \* where the burst is
    raised,     \* the call being closed raised
    n,          \* its number
    since,      \* when it was asked for
    usd,        \* what its parts cost
    clock,
    exec,       \* executor_log.jsonl
    evid,       \* si_swarm_evidence.jsonl
    billed,     \* every bill there was
    logged,     \* bills whose append to the executor log returned
    noted,      \* bursts whose append to the evidence ledger returned
    unlogged,   \* bills whose append failed, or whose process died first
    paid,       \* when each burst was dispatched
    faults

spendVars == <<on, at, raised, n, since, usd, clock, exec, evid, billed, logged, noted, unlogged, paid, faults>>

NoCost == [p \in Part |-> 0]

SpendInit(switches) ==
    /\ on \in switches
    /\ at = "idle" /\ raised = FALSE /\ n = 0 /\ since = 0 /\ usd = NoCost /\ clock = 0
    /\ exec = NewLedger /\ evid = NewLedger
    /\ billed = {} /\ logged = {} /\ noted = {} /\ unlogged = {} /\ paid = {}
    /\ faults = 0

Fault == faults < MaxFaults /\ faults' = faults + 1

(***************************************************************************)
(* The evidence ledger                                                     *)
(***************************************************************************)
Row(dispatched) ==
    [n |-> n, ts |-> since, dispatched |-> dispatched, usd |-> IF dispatched THEN usd ELSE NoCost]

\* _record: an append that fails is swallowed.
Record(dispatched) ==
    \/ /\ evid' = Written(evid, Row(dispatched))
       /\ noted' = IF dispatched THEN noted \cup {Row(TRUE)} ELSE noted
       /\ UNCHANGED faults
    \/ /\ Fault
       /\ evid' \in Failed(evid, Row(dispatched))
       /\ UNCHANGED noted

Dispatches == {r \in Range(evid.rows) : r.dispatched}

LastAttempt == Max({r.ts : r \in Dispatches})
Cooling == Dispatches # {} /\ clock - LastAttempt < Cooldown

QuotaLeft == Cardinality(Dispatches) < Limit

\* A ledger with a line that does not parse raises, here and in every later
\* cycle: no burst is asked for any more.
Ask ==
    /\ at = "idle" /\ n < MaxBursts /\ Parses(evid)
    /\ n' = n + 1 /\ since' = clock /\ usd' = NoCost
    /\ at' = IF Cooling /\ ~("quota" \in on /\ QuotaLeft) THEN "refused" ELSE "gate"
    /\ UNCHANGED <<on, raised, clock, exec, evid, billed, logged, noted, unlogged, paid, faults>>

\* Cooldown, quota, a gate that blocks, a skipped burst: one row, no dispatch.
Refuse ==
    /\ at \in {"refused", "error"}
    /\ Record(FALSE)
    /\ at' = "idle"
    /\ UNCHANGED <<on, raised, n, since, usd, clock, exec, billed, logged, unlogged, paid>>

\* Of the lanes that the budget affords in the worst case, pairs; none skips the burst.
Pruned(affordable) == IF affordable >= Lanes THEN Lanes ELSE 2 * (affordable \div 2)

\* The swarm gate, then the lanes to dispatch; a pruned plan leaves a row too.
Gate ==
    /\ at = "gate"
    /\ \/ at' = "refused" /\ UNCHANGED <<evid, noted, faults>>
       \/ "prune" \notin on /\ at' = "lanes" /\ UNCHANGED <<evid, noted, faults>>
       \/ \E affordable \in 0..Lanes :
             /\ "prune" \in on
             /\ at' = IF Pruned(affordable) = 0 THEN "refused" ELSE "lanes"
             /\ IF Pruned(affordable) \in 1..Lanes - 1 THEN Record(FALSE)
                ELSE UNCHANGED <<evid, noted, faults>>
    /\ UNCHANGED <<on, raised, n, since, usd, clock, exec, billed, logged, unlogged, paid>>

(***************************************************************************)
(* The executor log                                                        *)
(***************************************************************************)
Entry(phase, part, cost) == [n |-> n, part |-> part, phase |-> phase, usd |-> cost]

\* _emit: an append that fails is swallowed; with logging off there is no row.
Emit(entry) == "logging" \in on /\ exec' = Written(exec, entry) /\ UNCHANGED faults
EmitFails(entry) ==
    \/ "logging" \in on /\ Fault /\ exec' \in Failed(exec, entry)
    \/ "logging" \notin on /\ UNCHANGED <<exec, faults>>

\* A span writes its first row before the call.
Open ==
    /\ at = "lanes"
    /\ LET entry == Entry("start", "lanes", Unpriced) IN Emit(entry) \/ EmitFails(entry)
    /\ paid' = paid \cup {[n |-> n, ts |-> since]}
    /\ at' = "call"
    /\ UNCHANGED <<on, raised, n, since, usd, clock, evid, billed, logged, noted, unlogged>>

\* What is left of the budget for a part.
Budget(part) ==
    MaxUsd - (CASE part = "lanes" -> 0 [] part = "podB" -> usd["lanes"]
                [] part = "podA" -> usd["lanes"] + usd["podB"])

\* The call keeps to its budget; it may raise after it was billed, or before.
Called(part, next) ==
    \/ \E cost \in 0..Budget(part) :
          /\ usd' = [usd EXCEPT ![part] = cost]
          /\ billed' = billed \cup {[n |-> n, part |-> part, usd |-> cost]}
          /\ at' = next
          /\ \/ raised' = FALSE /\ UNCHANGED faults
             \/ raised' = TRUE /\ Fault
    \/ Fault /\ at' = "error" /\ UNCHANGED <<usd, billed, raised>>

Call ==
    /\ at = "call"
    /\ Called("lanes", "close lanes")
    /\ UNCHANGED <<on, n, since, clock, exec, evid, logged, noted, unlogged, paid>>

\* The last row of a span, whether its call returned or raised. A cost that is
\* no number is recorded as none.
Close(part, next) ==
    /\ LET bill == [n |-> n, part |-> part, usd |-> usd[part]] IN
       \/ /\ Emit(Entry("end", part, usd[part]))
          /\ logged' = logged \cup {bill}
          /\ UNCHANGED unlogged
       \/ /\ \/ EmitFails(Entry("end", part, usd[part]))
             \/ Fault /\ "logging" \in on /\ exec' = Written(exec, Entry("end", part, Unpriced))
          /\ unlogged' = unlogged \cup {bill}
          /\ UNCHANGED logged
    /\ at' = IF raised THEN "error" ELSE next
    /\ raised' = FALSE
    /\ UNCHANGED <<on, n, since, usd, clock, evid, billed, noted, paid>>

CloseLanes == at = "close lanes" /\ Close("lanes", "podB")

\* A pod that is switched on spends and records its spend with one row.
Pod(part, close, next) ==
    /\ at = part
    /\ \/ part \in on /\ Called(part, close)
       \/ part \notin on /\ at' = next /\ UNCHANGED <<usd, billed, raised, faults>>
    /\ UNCHANGED <<on, n, since, clock, exec, evid, logged, noted, unlogged, paid>>

ClosePod(part, close, next) == at = close /\ Close(part, next)

\* The evidence is there: the row that says so, and what the pods cost. (After an
\* exception the row says that nothing was dispatched: Refuse.)
Finish ==
    /\ at = "row"
    /\ Record(TRUE)
    /\ at' = "idle"
    /\ UNCHANGED <<on, raised, n, since, usd, clock, exec, billed, logged, unlogged, paid>>

Crash ==
    /\ at # "idle" /\ Fault
    /\ at' = "idle" /\ raised' = FALSE
    /\ unlogged' = unlogged \cup {b \in billed : b.n = n /\ b \notin logged}
    /\ UNCHANGED <<on, n, since, usd, clock, exec, evid, billed, logged, noted, paid>>

Wait ==
    /\ at = "idle" /\ clock < MaxClock
    /\ clock' = clock + 1
    /\ UNCHANGED <<on, at, raised, n, since, usd, exec, evid, billed, logged, noted, unlogged, paid, faults>>

SpendNext ==
    \/ Ask \/ Refuse \/ Gate \/ Open \/ Call \/ CloseLanes
    \/ Pod("podB", "close podB", "podA") \/ ClosePod("podB", "close podB", "podA")
    \/ Pod("podA", "close podA", "row") \/ ClosePod("podA", "close podA", "row")
    \/ Finish \/ Crash \/ Wait

(***************************************************************************)
(* The readers                                                             *)
(***************************************************************************)
Costs == {r \in Range(exec.rows) : r.phase = "end" /\ r.usd # Unpriced}
Usd(S) == SumFunction([r \in S |-> r.usd])
UsdOf(part, S) == SumFunction([r \in S |-> r.usd[part]])

\* executor_spend and the sums of one pod, in the log and in the evidence.
LoggedSpend(part) == Usd({r \in Costs : r.part = part})
EvidenceSpend(part) == UsdOf(part, Dispatches)

\* pod_b_crosscheck: bursts noted more for pod B than the log holds. (Pod A is
\* reported and decides nothing.)
PodBShort == EvidenceSpend("podB") > LoggedSpend("podB")

\* reconcile() without a dashboard, strict.
Status ==
    CASE ~Parses(evid) \/ ~Parses(exec) -> "EVALUATOR_ERROR"
      [] Costs = {} /\ evid.rows = <<>> -> "UNMEASURED"
      [] PodBShort -> "FAIL"
      [] OTHER -> "PASS"

(***************************************************************************)
(* Properties                                                              *)
(***************************************************************************)
InLog(b) == \E r \in Costs : r.n = b.n /\ r.part = b.part /\ r.usd = b.usd

\* As long as the cap can form a sum at all, no bill that was reported as
\* written is missing from it: a row that was merged into a torn line is never
\* silently dropped (daily_cost_cap._read_ledger_rows, read_jsonl).
CapSeesWhatWasLogged == Parses(exec) => \A b \in logged : InLog(b)

\* A bill that no reader finds has a reason: its row failed or was not a number,
\* its process died, logging is off, or the whole log cannot be parsed. A call
\* that raises after it was billed is no reason (ExecutorLogSpan._finish_failure).
MissingBillHasReason ==
    \A b \in billed :
        InLog(b) \/ b \in unlogged \/ ~Parses(exec)
        \/ "logging" \notin on \/ (at # "idle" /\ b.n = n)

\* The three parts of a burst together keep to its budget.
BurstWithinBudget ==
    \A k \in 1..MaxBursts : Usd({b \in billed : b.n = k}) <= MaxUsd

\* A burst that follows another too soon follows one that the ledger does not
\* show as dispatched, or uses the episode's quota.
PacingHasReason ==
    \A p \in paid :
        LET known == {r \in Dispatches : r.n < p.n}
        IN (\E r \in known : p.ts - r.ts < Cooldown)
               => "quota" \in on /\ Cardinality(known) < Limit

\* A reconciliation that passes overlooks at most as much of pod B's noted spend
\* as the log holds of spend that no burst noted.
PassMissesNoGap ==
    Status = "PASS" =>
        LET PodB(r) == [n |-> r.n, part |-> "podB", usd |-> r.usd["podB"]]
            lost == {r \in noted : ~InLog(PodB(r))}
            unnoted == {r \in Costs : r.part = "podB" /\ \A m \in noted : m.n # r.n}
        IN UsdOf("podB", lost) <= Usd(unnoted)

\* The readers of the bills see what was billed, or can say why not.
BillsAreSeen ==
    CapSeesWhatWasLogged /\ MissingBillHasReason /\ BurstWithinBudget /\ PacingHasReason
        /\ PassMissesNoGap
=============================================================================
