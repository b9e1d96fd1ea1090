------------------------------ MODULE TickLoop ------------------------------
(***************************************************************************)
(* tick_once (runtime/tick_runner.py), one action per step that touches    *)
(* shared files, run by several processes that cron, an operator or a      *)
(* service manager may start at the same time.  The files outlive the      *)
(* processes: inbox rows, tombstones (consumed.jsonl), the money ledgers   *)
(* of SpendLedger, the kernel lock of the lease and the halt sentinel.  A  *)
(* process may die between any two steps, and a write that raises unwinds  *)
(* the tick the same way.                                                  *)
(*                                                                         *)
(* External to the source tree and taken at its interface: the dispatched  *)
(* cycle (spends at most its budget, in calls of one dollar), the reviewer *)
(* (spends at most ReviewMax) and goal_campaign_feed.record_settlement.    *)
(***************************************************************************)
EXTENDS SpendLedger, Sequences

CONSTANTS
    Id,              \* query ids
    Rows,            \* the inbox rows producers may submit
    LeaseOn,         \* AGI_V8_TICK_LEASE_ENABLED
    TickFailClosed,  \* AGI_V8_TICK_LEDGER_FAILCLOSED
    ReviewOn,        \* AGI_V8_TICK_REVIEW_ENABLED
    ReviewTxn,       \* AGI_V8_TICK_REVIEW_TRANSACTION_ENABLED
    RereadOn,        \* the cap is read again after the review
    RfgOn,           \* AGI_V8_TICK_REPEATED_FAILURE_GATE_ENABLED
    TtlOn,           \* AGI_V8_TICK_AUTH_TTL: a signature may go stale
    ReviewMax,       \* bound on the dollars one review call spends
    MaxInbox,        \* bound on the rows ever submitted
    MaxFaults        \* bound on crashes, halts, damage and failed writes

RowType == [id : Id, kind : {"malformed", "unauth", "valid"}, campaign : BOOLEAN]

ASSUME RowsAssumption == Rows \subseteq RowType
ASSUME TickGateAssumption ==
    {LeaseOn, TickFailClosed, ReviewOn, ReviewTxn, RereadOn, RfgOn, TtlOn} \subseteq BOOLEAN
ASSUME BoundAssumption == {ReviewMax, MaxInbox, MaxFaults} \subseteq Nat

Reason == {"rejected_malformed", "rejected_auth", "rejected_review", "in_flight", "dispatched"}

VARIABLES
    inbox,       \* every row ever appended to the inbox ledger
    tomb,        \* the tombstone reasons recorded for each id
    lock,        \* the process the kernel grants the lease lock to
    halted,      \* a halt sentinel entry exists
    faults,      \* faults injected so far
    pc,          \* where each process is in tick_once
    upto,        \* the length of the inbox snapshot it walks
    at,          \* its cursor in that snapshot
    gone,        \* its snapshot of the consumed ids
    tally,       \* its last executor_log tally
    left,        \* dollars the call it is inside may still spend
    verdict,     \* how that call ended
    straddles,   \* midnight passed since the tick took its clock
    paid,        \* how many dispatches each id was given (history)
    settled      \* ids whose campaign settlement was called (history)

envVars == <<inbox, lock, halted, faults>>
histVars == <<tomb, paid, settled>>
walkVars == <<upto, at, gone>>
callVars == <<tally, left, verdict, straddles>>

vars == <<ledgerVars, envVars, histVars, pc, walkVars, callVars>>

Label == {"idle", "lease", "inbox", "consumed", "walk", "cap_spent", "cap_resv",
          "review_reserve", "review", "review_settle", "review_reject",
          "in_flight", "reserve", "dispatch", "settle", "campaign",
          "dispatched", "return"}

TypeOK ==
    /\ LedgerTypeOK
    /\ inbox \in Seq(Rows)
    /\ tomb \in [Id -> SUBSET Reason]
    /\ lock \in Proc \cup {NoProc}
    /\ halted \in BOOLEAN
    /\ faults \in Nat
    /\ pc \in [Proc -> Label]
    /\ upto \in [Proc -> Nat]
    /\ at \in [Proc -> Nat] /\ \A p \in Proc : at[p] > 0
    /\ gone \in [Proc -> SUBSET Id]
    /\ tally \in [Proc -> Tallies]
    /\ left \in [Proc -> Nat]
    /\ verdict \in [Proc -> {"none", "approved", "rejected", "halted", "done"}]
    /\ straddles \in [Proc -> BOOLEAN]
    /\ paid \in [Id -> Nat]
    /\ settled \in SUBSET Id

Init ==
    /\ LedgerInit
    /\ inbox = <<>>
    /\ tomb = [i \in Id |-> {}]
    /\ lock = NoProc
    /\ halted = FALSE
    /\ faults = 0
    /\ pc = [p \in Proc |-> "idle"]
    /\ upto = [p \in Proc |-> 0]
    /\ at = [p \in Proc |-> 1]
    /\ gone = [p \in Proc |-> {}]
    /\ tally = [p \in Proc |-> NoTally]
    /\ left = [p \in Proc |-> 0]
    /\ verdict = [p \in Proc |-> "none"]
    /\ straddles = [p \in Proc |-> FALSE]
    /\ paid = [i \in Id |-> 0]
    /\ settled = {}

----------------------------------------------------------------------------
\* Steps of one tick

Goto(p, from, to) == pc[p] = from /\ pc' = [pc EXCEPT ![p] = to]

Row(p) == inbox[at[p]]

Fault == faults < MaxFaults /\ faults' = faults + 1

Tombstone(i, reason) == tomb' = [tomb EXCEPT ![i] = @ \cup {reason}]

\* The halt sentinel is probed before anything else; its presence ends the
\* tick at once.
Start(p) ==
    /\ Goto(p, "idle", "lease")
    /\ ~halted
    /\ UNCHANGED <<ledgerVars, envVars, histVars, walkVars, callVars>>

\* Mutant: the lock is taken without looking whether it is free.
Acquire_Blind(p) ==
    /\ Goto(p, "lease", "inbox")
    /\ lock' = p
    /\ UNCHANGED <<ledgerVars, inbox, halted, faults, histVars, walkVars, callVars>>

Acquire(p) ==
    /\ Goto(p, "lease", "inbox")
    /\ LeaseOn => lock = NoProc
    /\ lock' = IF LeaseOn THEN p ELSE lock
    /\ UNCHANGED <<ledgerVars, inbox, halted, faults, histVars, walkVars, callVars>>

\* lease_busy; or lease_unavailable, when the record cannot be published.
LeaseRefused(p) ==
    /\ Goto(p, "lease", "idle")
    /\ LeaseOn
    /\ \/ lock # NoProc /\ UNCHANGED faults
       \/ Fault
    /\ straddles' = [straddles EXCEPT ![p] = FALSE]
    /\ UNCHANGED <<ledgerVars, inbox, lock, halted, histVars, walkVars, tally, left, verdict>>

\* _ledger_snapshot reads the inbox first.  An unreadable inbox refuses the
\* tick or reads as empty; either way nothing is walked.
ReadInbox(p) ==
    /\ \/ /\ ~Readable("inbox_queue")
          /\ Goto(p, "inbox", "return")
          /\ UNCHANGED upto
       \/ /\ Readable("inbox_queue")
          /\ upto' = [upto EXCEPT ![p] = Len(inbox)]
          /\ Goto(p, "inbox", "consumed")
    /\ UNCHANGED <<ledgerVars, envVars, histVars, at, gone, callVars>>

\* Mutant: unreadable tombstones read as none.
ReadConsumed_FailOpen(p) ==
    /\ gone' = [gone EXCEPT ![p] = IF Readable("bought_ledger") THEN {i \in Id : tomb[i] # {}} ELSE {}]
    /\ Goto(p, "consumed", "walk")
    /\ UNCHANGED <<ledgerVars, envVars, histVars, upto, at, callVars>>

\* ... and the tombstones second.  Unreadable tombstones refuse the tick,
\* unless there is no row they could protect; failing open they read as none.
ReadConsumed(p) ==
    /\ \/ /\ ~Readable("bought_ledger") /\ TickFailClosed /\ upto[p] > 0
          /\ Goto(p, "consumed", "return")
          /\ UNCHANGED gone
       \/ /\ ~Readable("bought_ledger") /\ (TickFailClosed => upto[p] = 0)
          /\ gone' = [gone EXCEPT ![p] = {}]
          /\ Goto(p, "consumed", "walk")
       \/ /\ Readable("bought_ledger")
          /\ gone' = [gone EXCEPT ![p] = {i \in Id : tomb[i] # {}}]
          /\ Goto(p, "consumed", "walk")
    /\ UNCHANGED <<ledgerVars, envVars, histVars, upto, at, callVars>>

\* Mutant: the walk stops at a consumed row instead of skipping it.
NextPending_NoSkip(p, j) == j = at[p] /\ j <= upto[p] /\ inbox[j].id \notin gone[p]

\* The next row of pending_queries: rows whose id was consumed are skipped.
NextPending(p, j) ==
    /\ j \in at[p]..upto[p]
    /\ inbox[j].id \notin gone[p]
    /\ \A k \in at[p]..(j - 1) : inbox[k].id \in gone[p]

Exhausted(p) ==
    /\ Goto(p, "walk", "return")
    /\ \A k \in at[p]..upto[p] : inbox[k].id \in gone[p]
    /\ UNCHANGED <<ledgerVars, envVars, histVars, walkVars, callVars>>

\* A malformed row, or one whose token, signature, audience or freshness fails.
RejectRow(p) ==
    \E j \in 1..Len(inbox) :
        /\ pc[p] = "walk" /\ NextPending(p, j)
        /\ \/ inbox[j].kind = "malformed" /\ Tombstone(inbox[j].id, "rejected_malformed")
           \/ inbox[j].kind = "unauth" /\ Tombstone(inbox[j].id, "rejected_auth")
           \/ inbox[j].kind = "valid" /\ TtlOn /\ Tombstone(inbox[j].id, "rejected_auth")
        /\ at' = [at EXCEPT ![p] = j + 1]
        /\ UNCHANGED <<ledgerVars, envVars, paid, settled, pc, upto, gone, callVars>>

AcceptRow(p) ==
    \E j \in 1..Len(inbox) :
        /\ NextPending(p, j)
        /\ inbox[j].kind = "valid"
        /\ at' = [at EXCEPT ![p] = j]
        /\ Goto(p, "walk", "cap_spent")
        /\ UNCHANGED <<ledgerVars, envVars, histVars, upto, gone, callVars>>

\* daily_cost_cap.check: the executor tally first ...
ReadSpent(p) ==
    /\ Goto(p, "cap_spent", "cap_resv")
    /\ tally' = [tally EXCEPT ![p] = Tally(straddles[p])]
    /\ UNCHANGED <<ledgerVars, envVars, histVars, walkVars, left, verdict, straddles>>

\* ... then the reservations.  An approved row is never reviewed twice.
ReadReservations(p) ==
    /\ \/ ~CapAllows(tally[p]) /\ Goto(p, "cap_resv", "return")
       \/ /\ CapAllows(tally[p])
          /\ IF ReviewOn /\ verdict[p] # "approved"
             THEN Goto(p, "cap_resv", "review_reserve")
             ELSE Goto(p, "cap_resv", "in_flight")
    /\ UNCHANGED <<ledgerVars, envVars, histVars, walkVars, callVars>>

\* No reviewer: rejected without a call.
ReviewerUnavailable(p) ==
    /\ Goto(p, "review_reserve", "review_reject")
    /\ UNCHANGED <<ledgerVars, envVars, histVars, walkVars, callVars>>

\* The review runs under a reservation of its own when it is transactional.
StartReview(p) ==
    /\ Goto(p, "review_reserve", "review")
    /\ IF ReviewTxn THEN Reserve(p, Budget(tally[p].usd)) ELSE UNCHANGED resvVars
    /\ left' = [left EXCEPT ![p] = ReviewMax]
    /\ UNCHANGED <<billVars, badLedgers, envVars, histVars, walkVars, tally, verdict, straddles>>

\* spend_reservation_unavailable: the open row could not be written.
ReviewUnreserved(p) ==
    /\ Goto(p, "review_reserve", "return")
    /\ ReviewTxn /\ ResvOn /\ Fault
    /\ UNCHANGED <<ledgerVars, inbox, lock, halted, histVars, walkVars, callVars>>

\* One billed call of a review or of a dispatched cycle.
Spend(p) ==
    /\ pc[p] \in {"review", "dispatch"} /\ left[p] > 0
    /\ Land
    /\ left' = [left EXCEPT ![p] = @ - 1]
    /\ UNCHANGED <<badLedgers, resvVars, envVars, histVars, pc, walkVars, tally, verdict, straddles>>

\* A verdict, a timeout (rejected) or HumanHalt raised from inside.
EndReview(p) ==
    /\ Goto(p, "review", "review_settle")
    /\ \E v \in {"approved", "rejected"} \cup {h \in {"halted"} : halted} :
           verdict' = [verdict EXCEPT ![p] = v]
    /\ left' = [left EXCEPT ![p] = 0]
    /\ UNCHANGED <<ledgerVars, envVars, histVars, walkVars, tally, straddles>>

SettleOrLose(p) ==
    \/ Settle(p) /\ UNCHANGED faults
    \/ SettleLost(p) /\ Fault

\* The finally of the review transaction, then the branch on the verdict.
SettleReview(p) ==
    /\ \/ verdict[p] = "halted" /\ Goto(p, "review_settle", "return")
       \/ verdict[p] = "rejected" /\ Goto(p, "review_settle", "review_reject")
       \/ verdict[p] = "approved" /\ RereadOn /\ Goto(p, "review_settle", "cap_spent")
       \/ verdict[p] = "approved" /\ ~RereadOn /\ Goto(p, "review_settle", "in_flight")
    /\ SettleOrLose(p)
    /\ UNCHANGED <<billVars, badLedgers, inbox, lock, halted, histVars, walkVars, callVars>>

RejectReview(p) ==
    /\ Goto(p, "review_reject", "walk")
    /\ Tombstone(Row(p).id, "rejected_review")
    /\ at' = [at EXCEPT ![p] = @ + 1]
    /\ verdict' = [verdict EXCEPT ![p] = "none"]
    /\ UNCHANGED <<ledgerVars, envVars, paid, settled, upto, gone, tally, left, straddles>>

\* The in_flight tombstone goes down before any money moves.  A repeated
\* failure of a campaign card skips the dispatch and nothing else.
TombstoneInFlight(p) ==
    /\ \/ Goto(p, "in_flight", "reserve")
       \/ Goto(p, "in_flight", "campaign") /\ RfgOn /\ Row(p).campaign
    /\ Tombstone(Row(p).id, "in_flight")
    /\ UNCHANGED <<ledgerVars, envVars, paid, settled, walkVars, callVars>>

ReserveDispatch(p) ==
    /\ Goto(p, "reserve", "dispatch")
    /\ Reserve(p, Budget(tally[p].usd))
    /\ left' = [left EXCEPT ![p] = Budget(tally[p].usd)]
    /\ paid' = [paid EXCEPT ![Row(p).id] = @ + 1]
    /\ UNCHANGED <<billVars, badLedgers, envVars, tomb, settled, walkVars, tally, verdict, straddles>>

DispatchUnreserved(p) ==
    /\ Goto(p, "reserve", "return")
    /\ ResvOn /\ Fault
    /\ UNCHANGED <<ledgerVars, inbox, lock, halted, histVars, walkVars, callVars>>

\* The cycle returns, raises, exceeds its deadline, or stops on the halt.
EndDispatch(p) ==
    /\ Goto(p, "dispatch", "settle")
    /\ \E v \in {"done"} \cup {h \in {"halted"} : halted} :
           verdict' = [verdict EXCEPT ![p] = v]
    /\ left' = [left EXCEPT ![p] = 0]
    /\ UNCHANGED <<ledgerVars, envVars, histVars, walkVars, tally, straddles>>

\* The finally of the dispatch; HumanHalt has already chosen to return.
SettleDispatch(p) ==
    /\ \/ verdict[p] = "halted" /\ Goto(p, "settle", "return")
       \/ verdict[p] = "done" /\ Goto(p, "settle", "campaign")
    /\ SettleOrLose(p)
    /\ UNCHANGED <<billVars, badLedgers, inbox, lock, halted, histVars, walkVars, callVars>>

SettleCampaign(p) ==
    /\ Goto(p, "campaign", "dispatched")
    /\ settled' = IF Row(p).campaign THEN settled \cup {Row(p).id} ELSE settled
    /\ UNCHANGED <<ledgerVars, envVars, tomb, paid, walkVars, callVars>>

TombstoneDispatched(p) ==
    /\ Goto(p, "dispatched", "return")
    /\ Tombstone(Row(p).id, "dispatched")
    /\ UNCHANGED <<ledgerVars, envVars, paid, settled, walkVars, callVars>>

\* What the process forgets when the tick ends.
Forget(p) ==
    /\ lock' = IF lock = p THEN NoProc ELSE lock
    /\ upto' = [upto EXCEPT ![p] = 0]
    /\ at' = [at EXCEPT ![p] = 1]
    /\ gone' = [gone EXCEPT ![p] = {}]
    /\ tally' = [tally EXCEPT ![p] = NoTally]
    /\ left' = [left EXCEPT ![p] = 0]
    /\ verdict' = [verdict EXCEPT ![p] = "none"]
    /\ straddles' = [straddles EXCEPT ![p] = FALSE]

\* The outer finally releases the lease.
Return(p) ==
    /\ Goto(p, "return", "idle")
    /\ Forget(p)
    /\ UNCHANGED <<ledgerVars, inbox, halted, faults, histVars>>

\* The process dies, or a write raises: the lock is freed, an open
\* reservation stays in its ledger with nobody to settle it.
Crash(p) ==
    /\ pc[p] # "idle" /\ Fault
    /\ pc' = [pc EXCEPT ![p] = "idle"]
    /\ handle' = [handle EXCEPT ![p] = NoSlot]
    /\ Forget(p)
    /\ UNCHANGED <<billVars, badLedgers, resv, inbox, halted, histVars>>

Tick(p) ==
    \/ Start(p) \/ Acquire(p) \/ LeaseRefused(p)
    \/ ReadInbox(p) \/ ReadConsumed(p) \/ Exhausted(p) \/ RejectRow(p) \/ AcceptRow(p)
    \/ ReadSpent(p) \/ ReadReservations(p)
    \/ ReviewerUnavailable(p) \/ StartReview(p) \/ ReviewUnreserved(p) \/ EndReview(p)
    \/ SettleReview(p) \/ RejectReview(p)
    \/ TombstoneInFlight(p) \/ ReserveDispatch(p) \/ DispatchUnreserved(p)
    \/ Spend(p) \/ EndDispatch(p) \/ SettleDispatch(p)
    \/ SettleCampaign(p) \/ TombstoneDispatched(p) \/ Return(p)

----------------------------------------------------------------------------
\* The world around the ticks

tickVars == <<pc, walkVars, callVars>>

Submit(r) ==
    /\ Len(inbox) < MaxInbox
    /\ inbox' = Append(inbox, r)
    /\ UNCHANGED <<ledgerVars, lock, halted, faults, histVars, tickVars>>

Halt ==
    /\ ~halted /\ Fault /\ halted' = TRUE
    /\ UNCHANGED <<ledgerVars, inbox, lock, histVars, tickVars>>

Unhalt ==
    /\ halted /\ halted' = FALSE
    /\ UNCHANGED <<ledgerVars, inbox, lock, faults, histVars, tickVars>>

\* A tick sees at most one midnight: the deadline bounds it by 900 s.
NewDay ==
    /\ \A p \in Proc : ~straddles[p]
    /\ Midnight
    /\ straddles' = [p \in Proc |-> pc[p] # "idle"]
    /\ UNCHANGED <<badLedgers, resvVars, envVars, histVars, pc, walkVars, tally, left, verdict>>

ExpireReservation ==
    /\ \E s \in Slot : Expire(s)
    /\ UNCHANGED <<billVars, badLedgers, envVars, histVars, tickVars>>

OperatorAck ==
    /\ AckUnmeasured
    /\ UNCHANGED <<badLedgers, resvVars, envVars, histVars, tickVars>>

DamageLedger ==
    /\ Fault /\ \E l \in Ledgers : Damage(l)
    /\ UNCHANGED <<billVars, resvVars, inbox, lock, halted, histVars, tickVars>>

RepairLedgers ==
    /\ Repair
    /\ UNCHANGED <<billVars, resvVars, envVars, histVars, tickVars>>

World ==
    \/ \E r \in Rows : Submit(r)
    \/ Halt \/ Unhalt \/ NewDay \/ ExpireReservation \/ OperatorAck
    \/ DamageLedger \/ RepairLedgers

Next == World \/ \E p \in Proc : Tick(p) \/ Crash(p)

Spec == Init /\ [][Next]_vars

\* Cron starts ticks for ever and a started process runs on; the operator
\* lifts a halt and repairs a ledger; days and TTLs pass.  Nothing forces a
\* crash, a fault, a submission or an acknowledgement.
Fairness ==
    /\ \A p \in Proc : WF_vars(Tick(p))
    /\ WF_vars(Unhalt) /\ WF_vars(RepairLedgers)
    /\ WF_vars(NewDay) /\ WF_vars(ExpireReservation)

FairSpec == Spec /\ Fairness

----------------------------------------------------------------------------
\* Properties

\* Under the lease one tick at a time is past it (tick_lease.acquire).
SingleFlight ==
    LeaseOn => \A p \in Proc : pc[p] \notin {"idle", "lease"} => lock = p

\* What the loop makes of its lease is what the lease offers (LockSpec of
\* TickLease): a tick goes past it when none is, and frees it when it ends.
Past == {p \in Proc : pc[p] \notin {"idle", "lease"}}
Takes(p) == lock = NoProc /\ Past = {} /\ lock' = p /\ Past' = {p}
Frees(p) == lock = p /\ Past = {p} /\ lock' = NoProc /\ Past' = {}
LockUsed ==
    /\ LeaseOn => lock = NoProc /\ Past = {}
    /\ [][LeaseOn => \E p \in Proc : Takes(p) \/ Frees(p)]_<<lock, Past>>

\* K1b, no second charge: whatever crashes, duplicates, halts and damaged
\* ledgers occur, an id is dispatched at most once, and never before its
\* in_flight tombstone is durable.
AtMostOnceDispatch ==
    LeaseOn /\ TickFailClosed =>
        \A i \in Id : paid[i] <= 1 /\ (paid[i] = 1 => "in_flight" \in tomb[i])

\* What a day may cost: the cap, plus at most one review, which is checked
\* before it starts and not bounded by what remains; a second look at the cap
\* after the review leaves the review's last dollar outside at most.
DayLimit ==
    IF ~ReviewOn \/ ReviewMax = 0 THEN Cap
    ELSE IF RereadOn THEN Cap + ReviewMax - 1
    ELSE Cap + ReviewMax

\* The daily cap holds across crashes, midnight and damaged ledgers; when
\* unobserved spend blocks (strict), it holds for the true bill.
DayBounded ==
    LeaseOn /\ CapFailClosed =>
        /\ spent <= DayLimit
        /\ StrictOn => spent + unmeasured <= DayLimit

\* A dispatch whose headroom was read after the review cannot carry the day
\* past the cap, however it spends its budget.
DispatchWithinHeadroom ==
    LeaseOn /\ CapFailClosed /\ (ReviewOn => RereadOn) =>
        \A p \in Proc : pc[p] = "dispatch" => spent + left[p] <= Cap

\* Before, while and after it is spent, no dollar of a day is beyond its cap.
CapIsKept == DayBounded /\ DispatchWithinHeadroom

\* While a cycle can still spend, its reservation is open for at least what it
\* may still spend, so other spenders count it (spend_reservation.reserve).
DispatchReserved ==
    ResvOn /\ DeadlineOn =>
        \A p \in Proc : pc[p] = "dispatch" =>
            handle[p] # NoSlot /\ left[p] <= resv[handle[p]]

\* An id marked dispatched was that of a valid row, and if that row was a
\* campaign's card, it has been settled with its campaign.
DispatchedIsSettled ==
    \A i \in Id : "dispatched" \in tomb[i] =>
        \E j \in 1..Len(inbox) :
            /\ inbox[j].id = i /\ inbox[j].kind = "valid"
            /\ inbox[j].campaign => i \in settled

\* What others wait for is told: money that may still be spent by a
\* reservation, the end of a campaign's card by its settlement.
PromisesAreTold == DispatchReserved /\ DispatchedIsSettled

\* The comment beside the repeated-failure skip: leaving out the settlement
\* orphans the card for ever, so a tick that took a card settles it before it
\* returns.
TakenCardIsSettled ==
    \A p \in Proc :
        /\ pc[p] = "return"
        /\ at[p] <= upto[p] /\ Row(p).id \notin gone[p]
        /\ Row(p).campaign /\ "in_flight" \in tomb[Row(p).id]
        => Row(p).id \in settled

\* Every submitted query gets a tombstone: a crash, a halt, a full cap, a lost
\* settlement or a damaged ledger delays it and never parks it.
Served == \A i \in Id :
    (\E j \in 1..Len(inbox) : inbox[j].id = i) ~> tomb[i] # {}

\* What the loop promises to whoever submits a query.
QL == INSTANCE QueryLife WITH
    queued   <- {i \in Id : \E j \in 1..Len(inbox) : inbox[j].id = i},
    rejected <- {i \in Id : tomb[i] \cap {"rejected_malformed", "rejected_auth", "rejected_review"} # {}},
    claimed  <- {i \in Id : "in_flight" \in tomb[i]},
    charged  <- {i \in Id : paid[i] > 0}

QueryLifeSpec == QL!Spec
=============================================================================
