---------------------------- MODULE ReviewBudget ----------------------------
(***************************************************************************)
(* The ledger of the paid cross-model reviewer (verifier/                  *)
(* cross_model_budget.py) and its one client, the review function built by *)
(* self_improvement_v8._build_cross_model_adversary.  Each process reviews *)
(* for a cycle of its own: it reserves the dearest bill the call can have, *)
(* calls the provider, and books what the call cost in place of the        *)
(* reservation.  The processes share the ledger file and its sidecar lock. *)
(*                                                                         *)
(* The ledger maps a transaction to its rows.  The order of rows of        *)
(* different transactions is not kept: every reader sums or scans them.    *)
(* Amounts are integers; the fixed-point rounding of the code is left out. *)
(*                                                                         *)
(* External: the provider (bills, may raise, may serve another model or    *)
(* report no usage), and the disk (an append may fail before or after the  *)
(* row is written, or leave half a line).                                  *)
(***************************************************************************)
EXTENDS Integers, Sequences, FiniteSetsExt

CONSTANTS
    Proc,         \* processes that review
    Nobody,       \* the owner of a free lock
    Tx,           \* bound on the transactions ever reserved
    NoTx,         \* a process without a transaction
    Cap,          \* AGI_V81_CROSS_MODEL_VERIFY_USD_CAP
    MinHeadroom,  \* MIN_HEADROOM_USD
    Envelope,     \* call_cost_envelope()["reserve_usd"]
    MaxBill,      \* bound on what a provider outside its envelope bills
    EpisodeCap,   \* AGI_V8_EPISODE_BUDGET_USD, where it is set
    NoEpisode,    \* it is not
    MaxExec,      \* bound on the episode's executor dollars
    MaxFaults     \* bound on crashes and failed appends

ASSUME ReviewActorsAssumption == Nobody \notin Proc /\ NoTx \notin Tx /\ NoEpisode \notin Nat
ASSUME TxAssumption == IsFiniteSet(Tx)
ASSUME ReviewAmountAssumption ==
    /\ {Cap, MinHeadroom, Envelope, MaxBill, EpisodeCap, MaxExec, MaxFaults} \subseteq Nat
    /\ Envelope <= MaxBill

VARIABLES
    ledger,    \* the rows of each transaction
    torn,      \* the file ends in half a line
    lock,      \* holder of the sidecar lock
    pc,        \* where each process is
    tx,        \* the transaction it holds
    evidence,  \* what its provider call left to account for
    exec,      \* executor dollars of the episode, if there is one
    faults,
    bill,      \* what each transaction was really billed (history)
    accepted   \* transactions whose review was handed on (history)

vars == <<ledger, torn, lock, pc, tx, evidence, exec, faults, bill, accepted>>

Evidence == {"none", "measured", "unmeasured", "unidentified", "excess", "raised"}

Row == [kind : {"reserve", "reconcile"}, usd : Int, mark : {"none", "identity", "outcome"}]

Label == {"idle", "reserve", "check", "append", "call", "record", "recording",
          "settled", "mark", "marking"}

TypeOK ==
    /\ ledger \in [Tx -> Seq(Row)]
    /\ torn \in BOOLEAN
    /\ lock \in Proc \cup {Nobody}
    /\ pc \in [Proc -> Label]
    /\ tx \in [Proc -> Tx \cup {NoTx}]
    /\ evidence \in [Proc -> Evidence]
    /\ exec \in Nat \cup {NoEpisode} /\ faults \in Nat
    /\ bill \in [Tx -> Nat]
    /\ accepted \subseteq Tx

Init ==
    /\ ledger = [t \in Tx |-> <<>>] /\ torn = FALSE
    /\ lock = Nobody
    /\ pc = [p \in Proc |-> "idle"] /\ tx = [p \in Proc |-> NoTx]
    /\ evidence = [p \in Proc |-> "none"]
    /\ exec \in {0, NoEpisode} /\ faults = 0
    /\ bill = [t \in Tx |-> 0] /\ accepted = {}

----------------------------------------------------------------------------
\* Reading the ledger

Net(t) ==
    CASE Len(ledger[t]) = 0 -> 0
      [] Len(ledger[t]) = 1 -> ledger[t][1].usd
      [] OTHER -> ledger[t][1].usd + ledger[t][2].usd

Total == SumFunction([t \in Tx |-> Net(t)])

\* transaction_charge_rows: the reservation as a reconcile lowered it, and, in
\* a row of its own, what a reconcile booked beyond it.
Charged(t) == IF Net(t) > 0 THEN Net(t) ELSE 0

\* _accounting_admission_blocker: a closed transaction that cost more than its
\* envelope, or whose cost or model nobody can vouch for.
Blocked ==
    \E t \in Tx : /\ Len(ledger[t]) > 1
                  /\ ledger[t][2].usd > 0 \/ ledger[t][2].mark # "none"

\* Mutant: reservations in flight do not count.
Headroom_Settled == Cap - SumFunction([t \in {u \in Tx : Len(ledger[u]) = 2} |-> Net(t)])

Headroom == Cap - Total
EpisodeOn == exec # NoEpisode
EpisodeRoom == EpisodeCap - (exec + Total)

\* exhausted(), and the same question under the lock.
Admissible == ~torn /\ ~Blocked /\ Headroom >= MinHeadroom

Fits ==
    /\ Envelope <= Headroom
    /\ EpisodeOn => EpisodeRoom >= MinHeadroom /\ Envelope < EpisodeRoom

\* _transaction_defect: the sequences of rows one transaction may have.
Legal(rows) ==
    \/ rows = <<>>
    \/ /\ Len(rows) \in {1, 2}
       /\ rows[1].kind = "reserve" /\ rows[1].usd >= 0
       /\ Len(rows) = 2 => rows[2].kind = "reconcile" /\ rows[1].usd + rows[2].usd >= 0

----------------------------------------------------------------------------
\* Writing it

Fault == faults < MaxFaults /\ faults' = faults + 1

\* One append: the row is on disk and acknowledged; or it is refused, and is
\* missing, or there all the same (fsync failed), or half there.
Write(p, t, row, ok, failed) ==
    \/ /\ pc' = [pc EXCEPT ![p] = ok]
       /\ ledger' = [ledger EXCEPT ![t] = Append(@, row)]
       /\ UNCHANGED <<torn, faults>>
    \/ /\ pc' = [pc EXCEPT ![p] = failed]
       /\ Fault
       /\ \/ UNCHANGED <<ledger, torn>>
          \/ ledger' = [ledger EXCEPT ![t] = Append(@, row)] /\ UNCHANGED torn
          \/ torn' = TRUE /\ UNCHANGED ledger

\* record_spend: the row is appended only behind a ledger it keeps legal.
RecordSpend(p, row, ok, failed) ==
    IF ~torn /\ Legal(Append(ledger[tx[p]], row))
    THEN Write(p, tx[p], row, ok, failed)
    ELSE pc' = [pc EXCEPT ![p] = failed] /\ UNCHANGED <<ledger, torn, faults>>

Goto(p, from, to) == pc[p] = from /\ pc' = [pc EXCEPT ![p] = to]

\* _build_cross_model_adversary asks exhausted() once, without the lock.
StartReview(p) ==
    /\ Goto(p, "idle", "reserve")
    /\ Admissible
    /\ tx' = [tx EXCEPT ![p] = NoTx] /\ evidence' = [evidence EXCEPT ![p] = "none"]
    /\ UNCHANGED <<ledger, torn, lock, exec, faults, bill, accepted>>

Waiting == [reserve |-> "check", record |-> "recording", mark |-> "marking"]

Lock(p) ==
    /\ pc[p] \in DOMAIN Waiting /\ pc' = [pc EXCEPT ![p] = Waiting[pc[p]]]
    /\ lock = Nobody /\ lock' = p
    /\ UNCHANGED <<ledger, torn, tx, evidence, exec, faults, bill, accepted>>

\* A new transaction id is nobody else's.
Fresh(t) == ledger[t] = <<>> /\ \A q \in Proc : tx[q] # t

\* reserve_if_capacity: sum, look and append under one lock.
Check(p) ==
    /\ \/ Goto(p, "check", "append") /\ Admissible /\ Fits
          /\ \E t \in Tx : Fresh(t) /\ tx' = [tx EXCEPT ![p] = t]
          /\ UNCHANGED lock
       \/ Goto(p, "check", "idle") /\ ~(Admissible /\ Fits)
          /\ lock' = Nobody /\ UNCHANGED tx
    /\ UNCHANGED <<ledger, torn, evidence, exec, faults, bill, accepted>>

ReserveRow == [kind |-> "reserve", usd |-> Envelope, mark |-> "none"]

\* A reservation that was not acknowledged makes no call.
AppendReserve(p) ==
    /\ pc[p] = "append"
    /\ Write(p, tx[p], ReserveRow, "call", "idle")
    /\ lock' = Nobody
    /\ UNCHANGED <<tx, evidence, exec, bill, accepted>>

\* The call is billed.  Only identified usage within the envelope is known to
\* have cost no more than the envelope.
Generate(p) ==
    /\ Goto(p, "call", "record")
    /\ \E e \in Evidence \ {"none"}, b \in 0..MaxBill :
           /\ e \in {"measured", "unmeasured"} => b <= Envelope
           /\ e = "excess" => b > Envelope
           /\ evidence' = [evidence EXCEPT ![p] = e]
           /\ bill' = [bill EXCEPT ![tx[p]] = b]
    /\ UNCHANGED <<ledger, torn, lock, tx, exec, faults, accepted>>

\* Mutant: a call that reported no usage is refunded.
ReconcileRow_Refund(p) ==
    [kind |-> "reconcile",
     usd |-> IF evidence[p] = "measured" THEN bill[tx[p]] - Envelope
             ELSE IF evidence[p] = "unmeasured" THEN 0 - Envelope ELSE 0,
     mark |-> CASE evidence[p] = "unidentified" -> "identity"
                [] evidence[p] \in {"excess", "raised"} -> "outcome"
                [] OTHER -> "none"]

\* What the review function books for the evidence it has.
ReconcileRow(p) ==
    [kind |-> "reconcile",
     usd |-> IF evidence[p] = "measured" THEN bill[tx[p]] - Envelope ELSE 0,
     mark |-> CASE evidence[p] = "unidentified" -> "identity"
                [] evidence[p] \in {"excess", "raised"} -> "outcome"
                [] OTHER -> "none"]

\* An exception handler that failed to record does not try again.
AfterFailure(p) == IF evidence[p] \in {"excess", "raised"} THEN "idle" ELSE "mark"

Record(p) ==
    /\ pc[p] = "recording"
    /\ RecordSpend(p, ReconcileRow(p),
                   IF evidence[p] = "measured" THEN "settled" ELSE "idle", AfterFailure(p))
    /\ lock' = Nobody
    /\ UNCHANGED <<tx, evidence, exec, bill, accepted>>

MarkRow == [kind |-> "reconcile", usd |-> 0, mark |-> "outcome"]

\* The accounting failed: close the transaction at its full reservation and
\* block further reviews.
Mark(p) ==
    /\ pc[p] = "marking"
    /\ RecordSpend(p, MarkRow, "idle", "idle")
    /\ lock' = Nobody
    /\ UNCHANGED <<tx, evidence, exec, bill, accepted>>

\* A last look at the cap, without the lock; an unreadable ledger reads as
\* spent to the cap, not beyond it.
Accept(p) ==
    /\ Goto(p, "settled", "idle")
    /\ accepted' = IF torn \/ Total <= Cap THEN accepted \cup {tx[p]} ELSE accepted
    /\ UNCHANGED <<ledger, torn, lock, tx, evidence, exec, faults, bill>>

Crash(p) ==
    /\ pc[p] # "idle" /\ pc' = [pc EXCEPT ![p] = "idle"]
    /\ Fault
    /\ lock' = IF lock = p THEN Nobody ELSE lock
    /\ UNCHANGED <<ledger, torn, tx, evidence, exec, bill, accepted>>

Review(p) ==
    \/ StartReview(p) \/ Lock(p) \/ Check(p) \/ AppendReserve(p) \/ Generate(p)
    \/ Record(p) \/ Mark(p) \/ Accept(p)

\* The other spender of the episode, which this ledger does not reserve for.
Execute ==
    /\ EpisodeOn /\ exec < MaxExec /\ exec' = exec + 1
    /\ UNCHANGED <<ledger, torn, lock, pc, tx, evidence, faults, bill, accepted>>

\* An operator cuts the half line off.
Repair ==
    /\ torn /\ torn' = FALSE
    /\ UNCHANGED <<ledger, lock, pc, tx, evidence, exec, faults, bill, accepted>>

Next == Execute \/ Repair \/ \E p \in Proc : Review(p) \/ Crash(p)

Spec == Init /\ [][Next]_vars

----------------------------------------------------------------------------
\* Properties

\* The ledger never promises more than the cap, whoever reserves at the same
\* time and whatever was lost between a reservation and its reconcile.
LedgerWithinCap == Total <= Cap

\* Nor does it ever promise the whole of an episode's budget, though the other
\* spender of the episode is read without a lock.
EpisodeKeepsRoom == EpisodeOn /\ Total > 0 => Total < EpisodeCap

\* Reserve, then reconcile: at every instant, through crashes, lost, repeated
\* and half-written rows, what the ledger's readers charge to a transaction
\* covers what it was billed, unless it was billed beyond its envelope; and
\* then the charge is the whole envelope.
BillCovered ==
    \A t \in Tx : Charged(t) >= IF bill[t] <= Envelope THEN bill[t] ELSE Envelope

\* The program never writes a row that makes its own ledger unreadable, though
\* a reconcile may be on disk without having been acknowledged.
LedgerLegal == \A t \in Tx : Legal(ledger[t])

\* To its users the ledger is a sum under one cap: each promise is a whole
\* envelope that still fits, and only a reconcile gives back, part of one.
Promise == Total + Envelope <= Cap /\ Total' = Total + Envelope
GiveBack == Total - Envelope <= Total' /\ Total' < Total
BudgetSpec == Total = 0 /\ [][Promise \/ GiveBack]_Total

\* Neither the reviewers' cap nor that of the episode is promised twice.
BothCapsHold == LedgerWithinCap /\ EpisodeKeepsRoom

\* A review that was handed on has a measured cost in the ledger, exact to the
\* bill: no unaccounted second opinion ever counts.
AcceptedIsMeasured ==
    \A t \in accepted :
        Len(ledger[t]) = 2 /\ ledger[t][2].mark = "none" /\ Net(t) = bill[t]

\* The books are right: legal, with every bill, and every review is in them.
BooksAreRight == BillCovered /\ LedgerLegal /\ AcceptedIsMeasured

\* A transaction with both its rows is closed for good: no mark after a row that
\* was there without an acknowledgement, no late call and no other process
\* changes what is booked or billed for it.
ClosedIsFinal ==
    [][\A t \in Tx : Len(ledger[t]) = 2 => ledger'[t] = ledger[t] /\ bill'[t] = bill[t]]_vars

\* Once a transaction is marked as one nobody can vouch for, nothing further
\* is reserved, by any process, also by one that was admitted before.
MarkStops == [][\A t \in Tx : ledger[t] = <<>> /\ ledger'[t] # <<>> => ~Blocked]_vars
=============================================================================
