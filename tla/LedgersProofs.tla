----------------------------- MODULE LedgersProofs -----------------------------
(***************************************************************************)
(* Proofs about the ledgers, for every value of the constants: the usage   *)
(* of a call, the budget of a run, the swallowed failures, the cursors of  *)
(* the readers, the ratchet, the stall verdict, the bills of the bursts,   *)
(* the note on the episode, and the skip of a repeated failure. The        *)
(* ledgers share no state, so each invariant is of the variables of one,   *)
(* and a step of another leaves it as it was.                              *)
(***************************************************************************)
EXTENDS Ledgers, DataLemmas, TLAPS


(***************************************************************************)
(* The bill of a call (UsageTally)                                         *)
(*                                                                         *)
(* While a call runs, what it has paid is in its tally and in its last     *)
(* trip; a call that is sealed holds the right bill, and so does the       *)
(* provider until another call ends on it.                                 *)
(***************************************************************************)
UsageRecord == [there : BOOLEAN, tokens : Nat, measured : BOOLEAN, flag : BOOLEAN]
TallyRecord == [tokens : Nat, billed : BOOLEAN, unmeasured : BOOLEAN]
CallRecord == [pc : {"idle", "calling", "sealed", "billed"}, own : BOOLEAN, sink : UsageRecord,
               tally : TallyRecord, pending : UsageRecord, trips : Nat, paid : Nat,
               silent : BOOLEAN, cleared : BOOLEAN, dropped : BOOLEAN, clobbered : BOOLEAN,
               failed : BOOLEAN, pre : UsageRecord, bill : UsageRecord, known : BOOLEAN]

\* What is owed is in the tally and in the last trip.
Owed(c) ==
    /\ c.tally.billed <=> c.tally.tokens > 0
    /\ c.sink.there => ~c.cleared /\ c.sink.tokens = c.pending.tokens /\ c.pending.there
    /\ ~c.sink.there =>
          /\ c.sink = NoUsage
          /\ ~c.cleared => c.pending = NoUsage /\ c.tally = NoTally /\ c.paid = 0 /\ ~c.silent
    /\ ~c.pending.measured
    /\ ~c.dropped =>
          /\ c.tally.tokens + c.pending.tokens = c.paid
          /\ c.silent => \/ c.tally.unmeasured
                         \/ /\ c.pending.there /\ c.pending.tokens = 0
                            /\ c.sink.there => ~c.sink.measured

\* A bill for all that was paid, which does not pass for free unless it was.
Settles(bill, c) ==
    /\ bill.tokens = c.paid
    /\ honesty /\ c.paid = 0 /\ c.silent => bill.flag

CallInv(c) ==
    /\ c.pc = "calling" => Owed(c)
    /\ c.pc = "sealed" /\ ~c.dropped =>
          /\ Settles(c.bill, c)
          /\ ~c.own /\ ~c.clobbered => shared = c.bill
    /\ c.pc = "billed" /\ ~c.dropped /\ ~c.clobbered => Settles(c.bill, c)

TallyInv ==
    /\ honesty \in BOOLEAN /\ shared \in UsageRecord
    /\ call \in [Thread -> CallRecord]
    /\ \A t \in Thread : CallInv(call[t])

LEMMA NoUsageType == NoUsage \in UsageRecord /\ NoTally \in TallyRecord /\ NoCall \in CallRecord
BY DEF NoUsage, NoTally, NoCall, UsageRecord, TallyRecord, CallRecord

LEMMA FoldType ==
    ASSUME NEW tally \in TallyRecord, NEW usage \in UsageRecord
    PROVE  Fold(tally, usage) \in TallyRecord
<1>1. tally.tokens \in Nat /\ tally.unmeasured \in BOOLEAN /\ usage.tokens \in Nat
      /\ tally.tokens + usage.tokens \in Nat
  BY DEF TallyRecord, UsageRecord
<1>2. PICK b \in BOOLEAN : b = (tally.unmeasured \/ (usage.there /\ ~usage.measured))
  BY <1>1 DEF UsageRecord
<1>3. [tally EXCEPT !.tokens = @ + usage.tokens, !.billed = TRUE] \in TallyRecord
  BY <1>1 DEF TallyRecord
<1>4. [tally EXCEPT !.unmeasured = b] \in TallyRecord
  BY <1>2 DEF TallyRecord
<1>5. [tally EXCEPT !.unmeasured = @ \/ (usage.there /\ ~usage.measured)] = [tally EXCEPT !.unmeasured = b]
  BY <1>2
<1>. QED BY <1>3, <1>4, <1>5 DEF Fold

\* A trip's usage is folded when the next one replaces it.
LEMMA TripOwed ==
    ASSUME NEW c \in CallRecord, Owed(c), NEW usage \in UsageRecord, usage.there
    PROVE  RecordUsage(c, usage) \in CallRecord /\ Owed(RecordUsage(c, usage))
<1> DEFINE d == RecordUsage(c, usage)
<1>1. c.sink \in UsageRecord /\ c.pending \in UsageRecord /\ c.tally \in TallyRecord
      /\ c.paid \in Nat /\ c.trips \in Nat
  BY DEF CallRecord
<1>2. Fold(c.tally, c.sink) \in TallyRecord
  BY <1>1, FoldType
<1>3. PICK tally : tally = IF c.sink.there THEN Fold(c.tally, c.sink) ELSE c.tally
  OBVIOUS
<1>4. /\ d.tally = tally /\ d.pending = [usage EXCEPT !.measured = FALSE] /\ d.sink = usage
      /\ d.trips = c.trips + 1 /\ d.paid = c.paid + usage.tokens
      /\ d.silent = (c.silent \/ (usage.tokens = 0 /\ ~usage.measured))
      /\ d.dropped = (c.dropped \/ c.cleared) /\ d.cleared = FALSE
  BY <1>3 DEF RecordUsage, CallRecord
<1>5. d \in CallRecord
  <2>1. tally \in TallyRecord BY <1>1, <1>2, <1>3
  <2>2. [usage EXCEPT !.measured = FALSE] \in UsageRecord BY DEF UsageRecord
  <2>3. d = [c EXCEPT !.tally = tally, !.pending = [usage EXCEPT !.measured = FALSE], !.sink = usage,
                      !.trips = c.trips + 1, !.paid = c.paid + usage.tokens,
                      !.silent = c.silent \/ (usage.tokens = 0 /\ ~usage.measured),
                      !.dropped = c.dropped \/ c.cleared, !.cleared = FALSE]
    BY <1>3 DEF RecordUsage, CallRecord
  <2>4. PICK silent \in BOOLEAN : silent = (c.silent \/ (usage.tokens = 0 /\ ~usage.measured)) OBVIOUS
  <2>5. PICK lost \in BOOLEAN : lost = (c.dropped \/ c.cleared) OBVIOUS
  <2>6. c.trips + 1 \in Nat /\ c.paid + usage.tokens \in Nat BY <1>1 DEF UsageRecord
  <2>7. PICK x \in CallRecord : x = [c EXCEPT !.tally = tally, !.pending = [usage EXCEPT !.measured = FALSE],
                                               !.sink = usage]
    BY <2>1, <2>2 DEF CallRecord
  <2>8. PICK tried \in Nat, charged \in Nat : tried = c.trips + 1 /\ charged = c.paid + usage.tokens BY <2>6
  <2>9. d = [x EXCEPT !.trips = tried, !.paid = charged, !.silent = silent, !.dropped = lost, !.cleared = FALSE]
    BY <2>3, <2>4, <2>5, <2>7, <2>8
  <2>. QED BY ONLY <2>9, x \in CallRecord, tried \in Nat, charged \in Nat, silent \in BOOLEAN, lost \in BOOLEAN
           DEF CallRecord
<1>6. /\ d.pending.tokens = usage.tokens /\ d.pending.there /\ ~d.pending.measured
      /\ usage.tokens \in Nat
  BY <1>4 DEF UsageRecord
<1>7. /\ tally.billed <=> tally.tokens > 0
      /\ c.sink.there =>
            /\ tally.tokens = c.tally.tokens + c.sink.tokens
            /\ tally.unmeasured <=> c.tally.unmeasured \/ (c.sink.tokens = 0 /\ ~c.sink.measured)
      /\ ~c.sink.there => tally = c.tally
  BY <1>1, <1>3 DEF Fold, TallyRecord, UsageRecord, Owed
<1> HIDE DEF d
<1>8. ~d.dropped => d.tally.tokens + d.pending.tokens = d.paid
  BY <1>1, <1>4, <1>6, <1>7 DEF Owed, NoUsage, NoTally, TallyRecord, UsageRecord
<1>9. ~d.dropped /\ d.silent => \/ d.tally.unmeasured
                                \/ d.pending.tokens = 0 /\ ~d.sink.measured
  BY <1>1, <1>4, <1>6, <1>7 DEF Owed, TallyRecord, UsageRecord
<1>10. Owed(d)
  BY <1>4, <1>6, <1>7, <1>8, <1>9 DEF Owed
<1>. QED BY <1>5, <1>10 DEF d

\* The seal folds the last trip, or the copy of it that was kept.
LEMMA SealSettles ==
    ASSUME NEW c \in CallRecord, Owed(c), honesty \in BOOLEAN
    PROVE  Seal(c) \in UsageRecord /\ (~c.dropped => Settles(Seal(c), c))
<1>1. c.sink \in UsageRecord /\ c.pending \in UsageRecord /\ c.tally \in TallyRecord /\ c.paid \in Nat
  BY DEF CallRecord
<1>2. PICK u : u = LastTrip(c) OBVIOUS
<1>3. PICK tally : tally = Fold(c.tally, u) OBVIOUS
<1>4. /\ u \in UsageRecord
      /\ u.tokens = c.pending.tokens
      /\ c.pending.there /\ c.pending.tokens = 0 /\ (c.sink.there => ~c.sink.measured)
            => u.there /\ ~u.measured
      /\ u.tokens = 0 => c.sink.tokens = 0
  BY <1>1, <1>2 DEF LastTrip, Owed, UsageRecord, NoUsage
<1>a. tally \in TallyRecord BY <1>1, <1>3, <1>4, FoldType
<1>5. /\ tally.tokens = c.tally.tokens + u.tokens
      /\ tally.billed <=> tally.tokens > 0
      /\ c.tally.unmeasured => tally.unmeasured
      /\ u.tokens = 0 /\ u.there /\ ~u.measured => tally.unmeasured
  BY <1>1, <1>3, <1>4 DEF Fold, TallyRecord, UsageRecord, Owed
<1>6. Seal(c) = IF tally.billed
                THEN [there |-> TRUE, tokens |-> tally.tokens, measured |-> c.sink.measured,
                      flag |-> honesty /\ tally.unmeasured]
                ELSE IF honesty /\ tally.unmeasured
                THEN [c.sink EXCEPT !.there = TRUE, !.measured = FALSE, !.flag = TRUE]
                ELSE c.sink
  BY <1>2, <1>3 DEF Seal
<1>7. Seal(c) \in UsageRecord
  <2>1. PICK flag \in BOOLEAN : flag = (honesty /\ tally.unmeasured) OBVIOUS
  <2>2. [there |-> TRUE, tokens |-> tally.tokens, measured |-> c.sink.measured, flag |-> flag] \in UsageRecord
    BY <1>1, <1>a, <2>1 DEF UsageRecord, TallyRecord
  <2>3. [c.sink EXCEPT !.there = TRUE, !.measured = FALSE, !.flag = TRUE] \in UsageRecord
    BY <1>1 DEF UsageRecord
  <2>. QED BY <1>1, <1>6, <2>1, <2>2, <2>3
<1>8. ASSUME ~c.dropped PROVE Settles(Seal(c), c)
  <2>1. tally.tokens = c.paid /\ u.tokens \in Nat /\ c.tally.tokens \in Nat
    BY <1>1, <1>4, <1>5, <1>a, <1>8 DEF Owed, TallyRecord, UsageRecord
  <2>2. CASE tally.billed
    <3>1. Seal(c).tokens = tally.tokens BY <1>6, <2>2
    <3>. QED BY <1>1, <1>5, <2>1, <2>2, <3>1 DEF Settles
  <2>3. CASE ~tally.billed
    <3>1. c.paid = 0 /\ u.tokens = 0 /\ c.tally.tokens = 0 /\ c.sink.tokens = 0
      BY <1>1, <1>4, <1>5, <1>a, <2>1, <2>3
    <3>2. Seal(c).tokens = 0 BY <1>1, <1>6, <2>3, <3>1 DEF UsageRecord
    <3>3. c.silent => tally.unmeasured
      BY <1>4, <1>5, <1>8, <3>1 DEF Owed
    <3>4. honesty /\ tally.unmeasured => Seal(c).flag BY <1>1, <1>6, <2>3 DEF UsageRecord
    <3>. QED BY <3>1, <3>2, <3>3, <3>4 DEF Settles
  <2>. QED BY <1>5, <2>2, <2>3
<1>. QED BY <1>7, <1>8

\* What a call carries over to its seal and its row.
LEMMA CarriedType ==
    ASSUME NEW c \in CallRecord, NEW pre \in UsageRecord, NEW bill \in UsageRecord,
           NEW b \in BOOLEAN
    PROVE  /\ [Carried(c) EXCEPT !.pc = "sealed", !.failed = b, !.pre = pre, !.bill = bill] \in CallRecord
           /\ [Carried(c) EXCEPT !.pc = "billed", !.bill = bill, !.known = b] \in CallRecord
<1>1. Carried(c) \in CallRecord
  <2>1. /\ c.own \in BOOLEAN /\ c.paid \in Nat /\ c.silent \in BOOLEAN
        /\ c.dropped \in BOOLEAN /\ c.clobbered \in BOOLEAN
    BY DEF CallRecord
  <2>. QED BY <2>1, NoUsageType DEF Carried, CallRecord
<1>. QED BY <1>1 DEF CallRecord

LEMMA TallyInitOK == TallyInit => TallyInv
BY NoUsageType DEF TallyInit, TallyInv, CallInv, NoCall

\* A thread that does not bill keeps the others' invariant.
LEMMA TallyAlone ==
    ASSUME TallyInv, NEW t \in Thread, NEW d \in CallRecord,
           call' = [call EXCEPT ![t] = d], UNCHANGED <<honesty, shared>>, CallInv(d)
    PROVE  TallyInv'
<1>1. call' \in [Thread -> CallRecord]
  BY DEF TallyInv
<1>2. \A c : CallInv(c) <=> CallInv(c)'
  BY DEF CallInv, Settles
<1>3. \A u \in Thread : CallInv(call'[u])
  BY DEF TallyInv
<1>4. \A u \in Thread : CallInv(call[u])'
  BY <1>3 DEF CallInv, Settles
<1>. QED BY <1>1, <1>4 DEF TallyInv

LEMMA EnterCallStep == ASSUME TallyInv, NEW t \in Thread, EnterCall(t) PROVE TallyInv'
<1>1. PICK own \in BOOLEAN :
        call' = [call EXCEPT ![t] = [NoCall EXCEPT !.pc = "calling", !.own = own,
                                                   !.pre = IF own THEN NoUsage ELSE shared]]
  BY DEF EnterCall
<1>2. PICK d : d = [NoCall EXCEPT !.pc = "calling", !.own = own, !.pre = IF own THEN NoUsage ELSE shared]
  OBVIOUS
<1>3. d \in CallRecord BY <1>2, NoUsageType DEF CallRecord, TallyInv
<1>4. CallInv(d) BY <1>2, NoUsageType DEF CallInv, Owed, NoCall, NoUsage, NoTally
<1>. QED BY <1>1, <1>2, <1>3, <1>4, TallyAlone DEF EnterCall

LEMMA TripStep == ASSUME TallyInv, NEW t \in Thread, Trip(t) PROVE TallyInv'
<1>1. PICK usage \in {Usage(k) : k \in Tokens \cup {0}} \cup {[Usage(0) EXCEPT !.measured = TRUE]} :
        call' = [call EXCEPT ![t] = RecordUsage(call[t], usage)]
  BY DEF Trip, TallyInv
<1>2. usage \in UsageRecord /\ usage.there
  <2>1. \A k \in Tokens \cup {0} : Usage(k) \in UsageRecord /\ Usage(k).there
    BY TokensAssumption DEF Usage, UsageRecord
  <2>2. [Usage(0) EXCEPT !.measured = TRUE] \in UsageRecord /\ [Usage(0) EXCEPT !.measured = TRUE].there
    BY DEF Usage, UsageRecord
  <2>. QED BY <2>1, <2>2
<1>3. PICK d : d = RecordUsage(call[t], usage) OBVIOUS
<1>4. call[t] \in CallRecord /\ Owed(call[t]) /\ call[t].pc = "calling"
  BY DEF TallyInv, CallInv, Trip
<1>5. d \in CallRecord /\ Owed(d) BY <1>2, <1>3, <1>4, TripOwed
<1>6. d.pc = "calling" BY <1>3, <1>4 DEF RecordUsage, CallRecord
<1>7. CallInv(d) BY <1>5, <1>6 DEF CallInv
<1>. QED BY <1>1, <1>3, <1>5, <1>7, TallyAlone DEF Trip

LEMMA ClearStep == ASSUME TallyInv, NEW t \in Thread, Clear(t) PROVE TallyInv'
<1>1. PICK d : d = [call[t] EXCEPT !.sink = NoUsage, !.cleared = TRUE] OBVIOUS
<1>2. call' = [call EXCEPT ![t] = d] BY <1>1 DEF Clear, TallyInv
<1>3. call[t] \in CallRecord /\ Owed(call[t]) /\ call[t].pc = "calling" /\ call[t].sink.there
  BY DEF TallyInv, CallInv, Clear
<1>4. d \in CallRecord BY <1>1, <1>3, NoUsageType DEF CallRecord
<1>5. /\ d.sink = NoUsage /\ d.cleared /\ d.pc = "calling" /\ d.tally = call[t].tally
      /\ d.pending = call[t].pending /\ d.paid = call[t].paid /\ d.silent = call[t].silent
      /\ d.dropped = call[t].dropped
  BY <1>1, <1>3 DEF CallRecord
<1>6. Owed(d) BY <1>3, <1>5 DEF Owed, NoUsage
<1>7. CallInv(d) BY <1>5, <1>6 DEF CallInv
<1>. QED BY <1>2, <1>4, <1>7, TallyAlone DEF Clear

LEMMA LeaveStep == ASSUME TallyInv, NEW t \in Thread, Leave(t) PROVE TallyInv'
<1>1. PICK failed \in BOOLEAN :
        call' = [u \in Thread |->
            IF u = t THEN [Carried(call[t]) EXCEPT !.pc = "sealed", !.failed = failed,
                                                !.pre = call[t].pre, !.bill = Seal(call[t])]
            ELSE IF call[u].pc = "sealed" THEN [call[u] EXCEPT !.clobbered = @ \/ ~call[u].own]
            ELSE call[u]]
  BY DEF Leave
<1>2. call[t] \in CallRecord /\ Owed(call[t]) /\ honesty \in BOOLEAN
  BY DEF TallyInv, CallInv, Leave
<1>3. PICK bill : bill = Seal(call[t]) OBVIOUS
<1>4. bill \in UsageRecord /\ (~call[t].dropped => Settles(bill, call[t]))
  BY <1>2, <1>3, SealSettles
<1>5. PICK d : d = [Carried(call[t]) EXCEPT !.pc = "sealed", !.failed = failed, !.pre = call[t].pre,
                                            !.bill = bill]
  OBVIOUS
<1>6. d \in CallRecord
  <2>1. call[t].pre \in UsageRecord BY <1>2 DEF CallRecord
  <2>. QED BY <1>2, <1>4, <1>5, <2>1, CarriedType
<1>7. call'[t] = d /\ shared' = bill /\ honesty' = honesty
  BY <1>1, <1>3, <1>5 DEF Leave
<1>8. /\ d.pc = "sealed" /\ d.bill = bill /\ d.own = call[t].own /\ d.paid = call[t].paid
      /\ d.silent = call[t].silent /\ d.dropped = call[t].dropped
  BY <1>5 DEF Carried, NoCall
<1>9. CallInv(call[t])'
  BY <1>4, <1>7, <1>8 DEF CallInv, Settles
<1>10. ASSUME NEW u \in Thread \ {t} PROVE call'[u] \in CallRecord /\ CallInv(call[u])'
  <2>1. call[u] \in CallRecord /\ CallInv(call[u]) BY DEF TallyInv
  <2>2. CASE call[u].pc # "sealed"
    <3>1. call'[u] = call[u] BY <1>1, <2>2
    <3>. QED BY <1>7, <2>1, <2>2, <3>1 DEF CallInv, Settles
  <2>3. CASE call[u].pc = "sealed"
    <3>1. PICK b \in BOOLEAN : b = (call[u].clobbered \/ ~call[u].own) OBVIOUS
    <3>2. PICK c : c = [call[u] EXCEPT !.clobbered = b] OBVIOUS
    <3>3. call'[u] = c BY <1>1, <2>3, <3>1, <3>2
    <3>4. c \in CallRecord BY <2>1, <3>2 DEF CallRecord
    <3>5. /\ c.pc = "sealed" /\ c.bill = call[u].bill /\ c.own = call[u].own /\ c.paid = call[u].paid
          /\ c.silent = call[u].silent /\ c.dropped = call[u].dropped
          /\ ~c.own => c.clobbered
      BY <2>1, <2>3, <3>1, <3>2 DEF CallRecord
    <3>6. CallInv(c)' BY <1>7, <2>1, <2>3, <3>5 DEF CallInv, Settles
    <3>. QED BY <1>7, <2>1, <2>3, <3>3, <3>4, <3>5 DEF CallInv, Settles
  <2>. QED BY <2>2, <2>3
<1>11. call' \in [Thread -> CallRecord]
  <2>1. \A u \in Thread : call'[u] \in CallRecord BY <1>6, <1>7, <1>10
  <2>2. call' = [u \in Thread |-> call'[u]] BY <1>1
  <2>. QED BY <2>1, <2>2
<1>12. \A u \in Thread : CallInv(call[u])' BY <1>9, <1>10
<1>. QED BY <1>2, <1>4, <1>7, <1>11, <1>12 DEF TallyInv

LEMMA BillCallerStep == ASSUME TallyInv, NEW t \in Thread, BillCaller(t) PROVE TallyInv'
<1>1. PICK c : c = call[t] OBVIOUS
<1>2. c \in CallRecord /\ CallInv(c) /\ c.pc = "sealed"
  BY <1>1 DEF TallyInv, BillCaller
<1>3. PICK usage : usage = IF c.own THEN c.bill ELSE shared OBVIOUS
<1>4. PICK known \in BOOLEAN : known = (c.failed => IF c.own THEN usage.there ELSE usage # c.pre)
  OBVIOUS
<1>5. PICK d : d = [Carried(c) EXCEPT !.pc = "billed", !.bill = usage, !.known = known]
  OBVIOUS
<1>6. call' = [call EXCEPT ![t] = d]
  BY <1>1, <1>3, <1>4, <1>5 DEF BillCaller
<1>7. usage \in UsageRecord BY <1>2, <1>3 DEF TallyInv, CallRecord
<1>8. d \in CallRecord BY <1>2, <1>5, <1>7, NoUsageType, CarriedType
<1>9. /\ d.pc = "billed" /\ d.bill = usage /\ d.paid = c.paid /\ d.silent = c.silent
      /\ d.dropped = c.dropped /\ d.clobbered = c.clobbered
  BY <1>5 DEF Carried, NoCall
<1>10. CallInv(d) BY <1>2, <1>3, <1>9 DEF CallInv, Settles
<1>. QED BY <1>6, <1>8, <1>10, TallyAlone DEF BillCaller

LEMMA NextCallStep == ASSUME TallyInv, NEW t \in Thread, NextCall(t) PROVE TallyInv'
<1>1. CallInv(NoCall) BY DEF CallInv, NoCall
<1>. QED BY <1>1, NoUsageType, TallyAlone DEF NextCall

LEMMA TallyStep == ASSUME TallyInv, [TallyNext]_tallyVars PROVE TallyInv'
<1>1. CASE UNCHANGED tallyVars BY <1>1 DEF tallyVars, TallyInv, CallInv, Settles
<1>2. CASE TallyNext
  BY <1>2, EnterCallStep, TripStep, ClearStep, LeaveStep, BillCallerStep, NextCallStep DEF TallyNext
<1>. QED BY <1>1, <1>2

\* The row of a call carries the tokens of all its paid trips, for any number
\* of threads, any usages and any order of trips, retries and readers.
THEOREM BillsAreRight == Spec => []BillIsWhatWasPaid
<1>1. Init => TallyInv
  BY TallyInitOK DEF Init
<1>2. TallyInv /\ [Next]_vars => TallyInv'
  <2>1. [Next]_vars => [TallyNext]_tallyVars
    BY DEF Next, WriteRows, Account, Observe, Inspect, vars, costVars
  <2>. QED BY <2>1, TallyStep
<1>3. TallyInv => BillIsWhatWasPaid
  BY DEF TallyInv, CallInv, BillIsWhatWasPaid, Settles
<1>. QED BY <1>1, <1>2, <1>3, PTL DEF Spec

(***************************************************************************)
(* The running total of a budget (CostBudget)                              *)
(*                                                                         *)
(* A dispatch has the records of what has happened to it and no other, so  *)
(* what it holds can be read off where it is.                              *)
(***************************************************************************)
DispatchRecord == [pc : {"new", "blocked", "reserved", "answered", "failed", "settled", "refused"},
                   input : Nat, expected : Nat, reserved : Nat, bill : Nat]
BudgetRow == [who : Dispatch, kind : {"reserved", "blocked", "settled", "refused"}, amount : Nat]

BudgetTypeOK ==
    /\ cap \in Nat /\ cumulative \in Int /\ records \subseteq BudgetRow
    /\ dispatch \in [Dispatch -> DispatchRecord]

RowsOf(d) == {r \in records : r.who = d}
BudgetEntry(d, kind, amount) == [who |-> d, kind |-> kind, amount |-> amount]
Reservation(d) == BudgetEntry(d, "reserved", dispatch[d].reserved)

\* The rows of a dispatch are those of its course.
Course(d) ==
    LET pc == dispatch[d].pc IN
    /\ pc = "new" => RowsOf(d) = {}
    /\ pc \in {"new", "blocked", "reserved"} => dispatch[d].bill = 0
    /\ pc = "blocked" => \E k \in Nat : RowsOf(d) = {BudgetEntry(d, "blocked", k)}
    /\ pc \in {"reserved", "answered", "failed"} => RowsOf(d) = {Reservation(d)}
    /\ pc \in {"settled", "refused"} =>
          \E k \in Nat : RowsOf(d) = {Reservation(d), BudgetEntry(d, pc, k)}

BudgetInv ==
    /\ BudgetTypeOK
    /\ \A d \in Dispatch : Course(d)
    /\ cumulative = SumFunction([d \in Dispatch |-> Held(d)])
    /\ cap > 0 => cumulative <= cap

\* There is one row of that kind of the dispatch.
Sole(entries, d, kind, amount) ==
    /\ BudgetEntry(d, kind, amount) \in entries
    /\ \A r \in entries : r.who = d /\ r.kind = kind => r.amount = amount

LEMMA AmountIs ==
    ASSUME NEW entries, NEW d, NEW kind, NEW k, Sole(entries, d, kind, k)
    PROVE  (CHOOSE m \in {r.amount : r \in {x \in entries : x.who = d /\ x.kind = kind}} : TRUE) = k
<1> DEFINE A == {r.amount : r \in {x \in entries : x.who = d /\ x.kind = kind}}
<1>1. A = {k}
  <2>1. k \in A
    <3>1. PICK r : r = BudgetEntry(d, kind, k) OBVIOUS
    <3>2. r \in entries /\ r.who = d /\ r.kind = kind /\ r.amount = k BY <3>1 DEF Sole, BudgetEntry
    <3>. QED BY <3>2
  <2>2. \A a \in A : a = k BY DEF Sole
  <2>. QED BY <2>1, <2>2
<1>. QED BY <1>1

\* What a dispatch holds, by its course.
LEMMA HeldIs ==
    ASSUME BudgetTypeOK, NEW d \in Dispatch, Course(d)
    PROVE  /\ dispatch[d].pc \in {"new", "blocked"} => Held(d) = 0
           /\ dispatch[d].pc \in {"reserved", "answered", "failed", "refused"} =>
                 Held(d) = dispatch[d].reserved
           /\ \A k : dispatch[d].pc = "settled" /\ RowsOf(d) = {Reservation(d), BudgetEntry(d, "settled", k)}
                        => Held(d) = k
           /\ Held(d) \in Int
<1>1. dispatch[d] \in DispatchRecord BY DEF BudgetTypeOK
<1>2. CASE dispatch[d].pc \in {"new", "blocked"} BY <1>2 DEF Held
<1>3. CASE dispatch[d].pc \in {"reserved", "answered", "failed", "refused"}
  <2>1. Reservation(d) \in RowsOf(d) BY <1>3 DEF Course
  <2>2. \A r \in RowsOf(d) : r.kind = "reserved" => r.amount = dispatch[d].reserved
    BY <1>3 DEF Course, Reservation, BudgetEntry
  <2>3. Amount(d, "reserved") = dispatch[d].reserved
    <3>1. Sole(records, d, "reserved", dispatch[d].reserved)
      BY <2>1, <2>2 DEF Sole, Reservation, RowsOf
    <3>. QED BY <3>1, AmountIs DEF Amount
  <2>. QED BY <1>1, <1>3, <2>3 DEF Held, DispatchRecord
<1>4. CASE dispatch[d].pc = "settled"
  <2>1. ASSUME NEW k, RowsOf(d) = {Reservation(d), BudgetEntry(d, "settled", k)} PROVE Held(d) = k
    <3>1. BudgetEntry(d, "settled", k) \in records BY <2>1 DEF RowsOf
    <3>2. \A r \in RowsOf(d) : r.kind = "settled" => r.amount = k
      BY <2>1 DEF Reservation, BudgetEntry
    <3>3. Sole(records, d, "settled", k) BY <3>1, <3>2 DEF Sole, RowsOf
    <3>4. Amount(d, "settled") = k BY <3>3, AmountIs DEF Amount
    <3>. QED BY <1>4, <3>4 DEF Held
  <2>2. PICK k \in Nat : RowsOf(d) = {Reservation(d), BudgetEntry(d, "settled", k)}
    BY <1>4 DEF Course
  <2>. QED BY <1>4, <2>1, <2>2
<1>. QED BY <1>1, <1>2, <1>3, <1>4 DEF DispatchRecord

\* The others' holdings do not move with a dispatch's.
LEMMA BudgetMoves ==
    ASSUME BudgetInv, NEW d \in Dispatch, BudgetTypeOK', Course(d)', Held(d)' \in Int,
           \A e \in Dispatch \ {d} : dispatch'[e] = dispatch[e] /\ RowsOf(e)' = RowsOf(e),
           cumulative' = cumulative + (Held(d)' - Held(d)),
           cap' > 0 => cumulative' <= cap'
    PROVE  BudgetInv'
<1>1. ASSUME NEW e \in Dispatch \ {d} PROVE Course(e)' /\ Held(e)' = Held(e)
  <2>1. Course(e) /\ dispatch'[e] = dispatch[e] /\ RowsOf(e)' = RowsOf(e) BY DEF BudgetInv
  <2>2. Course(e)' BY <2>1 DEF Course, Reservation
  <2>3. \A kind : Amount(e, kind)' = Amount(e, kind)
    <3>1. \A kind : {x \in records' : x.who = e /\ x.kind = kind} = {x \in records : x.who = e /\ x.kind = kind}
      BY <2>1 DEF RowsOf
    <3>. QED BY <3>1 DEF Amount
  <2>. QED BY <2>1, <2>2, <2>3 DEF Held
<1>2. PICK f : f = [e \in Dispatch |-> Held(e)] OBVIOUS
<1>3. PICK g : g = [e \in Dispatch |-> Held(e)'] OBVIOUS
<1>4. \A e \in Dispatch : Held(e) \in Int BY HeldIs DEF BudgetInv
<1>5. f \in [Dispatch -> Int] BY <1>2, <1>4
<1>6. g \in [Dispatch -> Int]
  <2>1. \A e \in Dispatch : Held(e)' \in Int BY <1>1, <1>4
  <2>. QED BY <1>3, <2>1
<1>7. \A e \in Dispatch \ {d} : g[e] = f[e] BY <1>1, <1>2, <1>3
<1>8. SumFunction(g) = SumFunction(f) + (g[d] - f[d])
  BY <1>5, <1>6, <1>7, SumChange, BudgetAssumption
<1>9. g[d] = Held(d)' /\ f[d] = Held(d) BY <1>2, <1>3
<1>10. cumulative' = SumFunction(g) BY <1>2, <1>8, <1>9 DEF BudgetInv
<1>11. \A e \in Dispatch : Course(e)' BY <1>1
<1>. QED BY <1>3, <1>10, <1>11 DEF BudgetInv

LEMMA CostType ==
    ASSUME NEW usage, usage.input \in Nat, usage.output \in Nat
    PROVE  Cost(usage) \in Nat
<1>1. OutputPrice \in Nat BY BudgetAssumption
<1>2. OutputPrice * usage.output \in Nat BY <1>1
<1>. QED BY <1>2 DEF Cost

\* A note adds a row of its own dispatch alone.
LEMMA NoteAdds ==
    ASSUME BudgetTypeOK, NEW d \in Dispatch, NEW amount \in Nat,
           NEW kind \in {"reserved", "blocked", "settled", "refused"}, Note(d, kind, amount)
    PROVE  /\ records' \subseteq BudgetRow
           /\ RowsOf(d)' = RowsOf(d) \cup {BudgetEntry(d, kind, amount)}
           /\ \A e \in Dispatch \ {d} : RowsOf(e)' = RowsOf(e)
<1>1. PICK r : r = BudgetEntry(d, kind, amount) OBVIOUS
<1>2. r.who = d /\ r \in BudgetRow BY <1>1 DEF BudgetEntry, BudgetRow
<1>3. records' = records \cup {r} BY <1>1 DEF Note, BudgetEntry
<1>. QED BY <1>1, <1>2, <1>3 DEF RowsOf, BudgetTypeOK

LEMMA ReserveStep == ASSUME BudgetInv, NEW d \in Dispatch, check_and_reserve(d) PROVE BudgetInv'
<1>0. /\ BudgetTypeOK /\ Course(d) /\ dispatch[d].pc = "new" /\ cap' = cap
      /\ cap > 0 => cumulative <= cap
  BY DEF BudgetInv, check_and_reserve
<1>1. PICK input \in 1..MaxTokens, expected \in 1..MaxTokens :
          LET amount == Cost([input |-> input, output |-> expected])
              next == [NewDispatch EXCEPT !.input = input, !.expected = expected] IN
          IF enforce_budget(cumulative + amount)
          THEN /\ cumulative' = cumulative + amount
               /\ dispatch' = [dispatch EXCEPT ![d] = [next EXCEPT !.pc = "reserved", !.reserved = amount]]
               /\ Note(d, "reserved", amount)
          ELSE /\ dispatch' = [dispatch EXCEPT ![d] = [next EXCEPT !.pc = "blocked"]]
               /\ Note(d, "blocked", amount)
               /\ UNCHANGED cumulative
  BY DEF check_and_reserve
<1>2. input \in Nat /\ expected \in Nat BY BudgetAssumption
<1>3. PICK amount \in Nat : amount = Cost([input |-> input, output |-> expected])
  BY <1>2, CostType
<1>4. PICK next : next = [NewDispatch EXCEPT !.input = input, !.expected = expected] OBVIOUS
<1>5. next \in DispatchRecord /\ next.bill = 0 /\ next.reserved = 0
  BY <1>2, <1>4 DEF NewDispatch, DispatchRecord
<1>6. RowsOf(d) = {} /\ Held(d) = 0 BY <1>0, HeldIs DEF Course
<1>7. CASE enforce_budget(cumulative + amount)
  <2>1. PICK x : x = [next EXCEPT !.pc = "reserved", !.reserved = amount] OBVIOUS
  <2>2. /\ cumulative' = cumulative + amount /\ dispatch' = [dispatch EXCEPT ![d] = x]
        /\ Note(d, "reserved", amount)
    BY <1>1, <1>3, <1>4, <1>7, <2>1
  <2>3. x \in DispatchRecord /\ x.pc = "reserved" /\ x.reserved = amount /\ x.bill = 0
    BY <1>5, <2>1 DEF DispatchRecord
  <2>4. /\ records' \subseteq BudgetRow /\ RowsOf(d)' = {BudgetEntry(d, "reserved", amount)}
        /\ \A e \in Dispatch \ {d} : RowsOf(e)' = RowsOf(e)
    BY <1>0, <1>6, <2>2, NoteAdds
  <2>5. dispatch'[d] = x /\ \A e \in Dispatch \ {d} : dispatch'[e] = dispatch[e]
    BY <1>0, <2>2 DEF BudgetTypeOK
  <2>6. BudgetTypeOK' BY <1>0, <2>2, <2>3, <2>4 DEF BudgetTypeOK
  <2>7. Course(d)' BY <2>3, <2>4, <2>5 DEF Course, Reservation
  <2>8. Held(d)' = amount
    <3>1. Sole(records', d, "reserved", amount) BY <2>4 DEF Sole, RowsOf, BudgetEntry
    <3>2. Amount(d, "reserved")' = amount BY <3>1, AmountIs DEF Amount
    <3>. QED BY <2>3, <2>5, <3>2 DEF Held
  <2>9. cap' > 0 => cumulative' <= cap'
    BY <1>0, <1>7, <2>2 DEF enforce_budget, BudgetTypeOK
  <2>10. cumulative' = cumulative + (Held(d)' - Held(d)) BY <1>0, <1>6, <2>2, <2>8 DEF BudgetTypeOK
  <2>. QED BY <2>4, <2>5, <2>6, <2>7, <2>8, <2>9, <2>10, BudgetMoves
<1>8. CASE ~enforce_budget(cumulative + amount)
  <2>1. PICK x : x = [next EXCEPT !.pc = "blocked"] OBVIOUS
  <2>2. /\ cumulative' = cumulative /\ dispatch' = [dispatch EXCEPT ![d] = x]
        /\ Note(d, "blocked", amount)
    BY <1>1, <1>3, <1>4, <1>8, <2>1
  <2>3. x \in DispatchRecord /\ x.pc = "blocked" /\ x.bill = 0
    BY <1>5, <2>1 DEF DispatchRecord
  <2>4. /\ records' \subseteq BudgetRow /\ RowsOf(d)' = {BudgetEntry(d, "blocked", amount)}
        /\ \A e \in Dispatch \ {d} : RowsOf(e)' = RowsOf(e)
    BY <1>0, <1>6, <2>2, NoteAdds
  <2>5. dispatch'[d] = x /\ \A e \in Dispatch \ {d} : dispatch'[e] = dispatch[e]
    BY <1>0, <2>2 DEF BudgetTypeOK
  <2>6. BudgetTypeOK' BY <1>0, <2>2, <2>3, <2>4 DEF BudgetTypeOK
  <2>7. Course(d)' BY <2>3, <2>4, <2>5 DEF Course
  <2>8. Held(d)' = 0 BY <2>3, <2>5 DEF Held
  <2>9. cumulative' = cumulative + (Held(d)' - Held(d)) BY <1>0, <1>6, <2>2, <2>8 DEF BudgetTypeOK
  <2>. QED BY <1>0, <2>2, <2>4, <2>5, <2>6, <2>7, <2>8, <2>9, BudgetMoves
<1>. QED BY <1>7, <1>8

\* The provider is called, with an answer or without.
LEMMA ProviderStep ==
    ASSUME BudgetInv, NEW d \in Dispatch, CallProvider(d) \/ FailProvider(d) PROVE BudgetInv'
<1>0. /\ BudgetTypeOK /\ Course(d) /\ dispatch[d].pc = "reserved" /\ UNCHANGED <<cap, cumulative, records>>
      /\ cap > 0 => cumulative <= cap
  BY DEF BudgetInv, CallProvider, FailProvider
<1>1. PICK x \in DispatchRecord :
         /\ dispatch' = [dispatch EXCEPT ![d] = x]
         /\ x.pc \in {"answered", "failed"} /\ x.reserved = dispatch[d].reserved
  <2>0. dispatch[d] \in DispatchRecord BY <1>0 DEF BudgetTypeOK
  <2>1. CASE CallProvider(d)
    <3>1. PICK input \in 1..MaxTokens, output \in 0..MaxTokens :
             dispatch' = [dispatch EXCEPT ![d].pc = "answered",
                                       ![d].bill = Cost([input |-> input, output |-> output])]
      BY <2>1 DEF CallProvider
    <3>2. PICK bill \in Nat : bill = Cost([input |-> input, output |-> output])
      BY CostType, BudgetAssumption
    <3>3. PICK x : x = [dispatch[d] EXCEPT !.pc = "answered", !.bill = bill] OBVIOUS
    <3>4. dispatch' = [dispatch EXCEPT ![d] = x] BY <1>0, <3>1, <3>2, <3>3 DEF BudgetTypeOK
    <3>5. x \in DispatchRecord /\ x.pc = "answered" /\ x.reserved = dispatch[d].reserved
      BY <2>0, <3>3 DEF DispatchRecord
    <3>. QED BY <3>4, <3>5
  <2>2. CASE FailProvider(d)
    <3>1. PICK x : x = [dispatch[d] EXCEPT !.pc = "failed"] OBVIOUS
    <3>2. dispatch' = [dispatch EXCEPT ![d] = x] BY <1>0, <2>2, <3>1 DEF BudgetTypeOK, FailProvider, Becomes
    <3>3. x \in DispatchRecord /\ x.pc = "failed" /\ x.reserved = dispatch[d].reserved
      BY <2>0, <3>1 DEF DispatchRecord
    <3>. QED BY <3>2, <3>3
  <2>. QED BY <2>1, <2>2
<1>2. dispatch'[d] = x /\ \A e \in Dispatch \ {d} : dispatch'[e] = dispatch[e]
  BY <1>0, <1>1 DEF BudgetTypeOK
<1>3. BudgetTypeOK' BY <1>0, <1>1 DEF BudgetTypeOK
<1>4. RowsOf(d) = {Reservation(d)} /\ RowsOf(d)' = RowsOf(d) /\ Reservation(d)' = Reservation(d)
  BY <1>0, <1>1, <1>2 DEF Course, RowsOf, Reservation
<1>5. Course(d)' BY <1>1, <1>2, <1>4 DEF Course
<1>6. Held(d) = dispatch[d].reserved /\ Held(d) \in Int BY <1>0, HeldIs
<1>7. Held(d)' = Held(d)
  <2>1. Held(d) = Amount(d, "reserved") BY <1>0 DEF Held
  <2>2. Held(d)' = Amount(d, "reserved")' BY <1>1, <1>2 DEF Held
  <2>. QED BY <1>0, <2>1, <2>2 DEF Amount
<1>8. cumulative' = cumulative + (Held(d)' - Held(d)) BY <1>0, <1>6, <1>7 DEF BudgetTypeOK
<1>9. \A e \in Dispatch \ {d} : dispatch'[e] = dispatch[e] /\ RowsOf(e)' = RowsOf(e)
  BY <1>0, <1>2 DEF RowsOf
<1>. QED BY <1>0, <1>3, <1>5, <1>6, <1>7, <1>8, <1>9, BudgetMoves

\* The reservation is replaced, or refused and kept.
LEMMA SettleDispatchStep == ASSUME BudgetInv, NEW d \in Dispatch, replace_reservation(d) PROVE BudgetInv'
<1>0. /\ BudgetTypeOK /\ Course(d) /\ dispatch[d].pc = "answered" /\ cap' = cap
      /\ cap > 0 => cumulative <= cap
      /\ dispatch[d] \in DispatchRecord
  BY DEF BudgetInv, replace_reservation, BudgetTypeOK
<1>1. PICK input \in 0..MaxTokens, output \in 0..MaxTokens :
          LET report == [input |-> input, output |-> output]
              amount == Cost(usage_from_provider(d, report))
              total == (cumulative - dispatch[d].reserved) + amount IN
          IF enforce_budget(total)
          THEN /\ cumulative' = total
               /\ dispatch' = Becomes(d, "settled")
               /\ Note(d, "settled", amount)
          ELSE /\ dispatch' = Becomes(d, "refused")
               /\ Note(d, "refused", amount)
               /\ UNCHANGED cumulative
  BY DEF replace_reservation
<1>2. PICK amount \in Nat : amount = Cost(usage_from_provider(d, [input |-> input, output |-> output]))
  <2>1. input \in Nat /\ output \in Nat BY BudgetAssumption
  <2>2. dispatch[d].input \in Nat /\ dispatch[d].expected \in Nat BY <1>0 DEF DispatchRecord
  <2>3. PICK usage : usage = usage_from_provider(d, [input |-> input, output |-> output]) OBVIOUS
  <2>4. usage.input \in Nat /\ usage.output \in Nat
    BY <2>1, <2>2, <2>3 DEF usage_from_provider, Estimated
  <2>. QED BY <2>3, <2>4, CostType
<1>3. PICK total : total = (cumulative - dispatch[d].reserved) + amount OBVIOUS
<1>4. PICK kind \in {"settled", "refused"} :
         /\ dispatch' = Becomes(d, kind) /\ Note(d, kind, amount)
         /\ kind = "settled" => cumulative' = total /\ enforce_budget(total)
         /\ kind = "refused" => cumulative' = cumulative
  BY <1>1, <1>2, <1>3
<1>5. PICK x : x = [dispatch[d] EXCEPT !.pc = kind] OBVIOUS
<1>6. /\ x \in DispatchRecord /\ x.pc = kind /\ x.reserved = dispatch[d].reserved
      /\ dispatch' = [dispatch EXCEPT ![d] = x]
  BY <1>0, <1>4, <1>5 DEF Becomes, DispatchRecord, BudgetTypeOK
<1>7. dispatch'[d] = x /\ \A e \in Dispatch \ {d} : dispatch'[e] = dispatch[e]
  BY <1>0, <1>6 DEF BudgetTypeOK
<1>8. /\ records' \subseteq BudgetRow /\ RowsOf(d)' = RowsOf(d) \cup {BudgetEntry(d, kind, amount)}
      /\ \A e \in Dispatch \ {d} : RowsOf(e)' = RowsOf(e)
  BY <1>0, <1>4, NoteAdds
<1>9. RowsOf(d) = {Reservation(d)} /\ Reservation(d)' = Reservation(d)
  BY <1>0, <1>6, <1>7 DEF Course, Reservation
<1>10. dispatch[d].reserved \in Nat BY <1>0 DEF DispatchRecord
<1>11. total \in Int BY <1>0, <1>3, <1>10 DEF BudgetTypeOK
<1>12. BudgetTypeOK' BY <1>0, <1>4, <1>6, <1>8, <1>11 DEF BudgetTypeOK
<1>13. RowsOf(d)' = {Reservation(d)', BudgetEntry(d, kind, amount)} BY <1>8, <1>9
<1>14. Course(d)'
  <2>1. dispatch'[d].pc = kind BY <1>6, <1>7
  <2>. QED BY <1>13, <2>1 DEF Course
<1>15. Held(d) = dispatch[d].reserved BY <1>0, HeldIs
<1>16. kind = "settled" => Held(d)' = amount
  <2> SUFFICES ASSUME kind = "settled" PROVE Held(d)' = amount OBVIOUS
  <2>1. Sole(records', d, "settled", amount)
    BY <1>13 DEF Sole, RowsOf, BudgetEntry, Reservation
  <2>2. Amount(d, "settled")' = amount BY <2>1, AmountIs DEF Amount
  <2>. QED BY <1>6, <1>7, <2>2 DEF Held
<1>17. kind = "refused" => Held(d)' = dispatch[d].reserved
  <2> SUFFICES ASSUME kind = "refused" PROVE Held(d)' = dispatch[d].reserved OBVIOUS
  <2>1. Sole(records', d, "reserved", dispatch[d].reserved)
    BY <1>9, <1>13 DEF Sole, RowsOf, BudgetEntry, Reservation
  <2>2. Amount(d, "reserved")' = dispatch[d].reserved BY <2>1, AmountIs DEF Amount
  <2>. QED BY <1>6, <1>7, <2>2 DEF Held
<1>18. Held(d)' \in Int /\ cumulative' = cumulative + (Held(d)' - Held(d))
  BY <1>0, <1>3, <1>4, <1>10, <1>15, <1>16, <1>17 DEF BudgetTypeOK
<1>19. cap' > 0 => cumulative' <= cap'
  BY <1>0, <1>4 DEF enforce_budget, BudgetTypeOK
<1>. QED BY <1>7, <1>8, <1>12, <1>14, <1>18, <1>19, BudgetMoves

LEMMA BudgetStep == ASSUME BudgetInv, [BudgetNext]_budgetVars PROVE BudgetInv'
<1>1. CASE UNCHANGED budgetVars
  <2>1. \A d \in Dispatch : Held(d)' = Held(d)
    BY <1>1 DEF budgetVars, Held, Amount
  <2>2. SumFunction([d \in Dispatch |-> Held(d)])' = SumFunction([d \in Dispatch |-> Held(d)])
    BY <2>1
  <2>. QED BY <1>1, <2>2 DEF budgetVars, BudgetInv, BudgetTypeOK, Course, RowsOf, Reservation
<1>2. CASE BudgetNext
  BY <1>2, ReserveStep, ProviderStep, SettleDispatchStep DEF BudgetNext
<1>. QED BY <1>1, <1>2

LEMMA BudgetInitOK == BudgetInit => BudgetInv
<1> SUFFICES ASSUME BudgetInit PROVE BudgetInv OBVIOUS
<1>1. NewDispatch \in DispatchRecord /\ NewDispatch.pc = "new" /\ NewDispatch.bill = 0
  BY DEF NewDispatch, DispatchRecord
<1>2. BudgetTypeOK BY <1>1, BudgetAssumption DEF BudgetInit, BudgetTypeOK
<1>3. \A d \in Dispatch : Course(d) /\ Held(d) = 0
  BY <1>1 DEF BudgetInit, Course, RowsOf, Held
<1>4. PICK f : f = [d \in Dispatch |-> Held(d)] OBVIOUS
<1>5. SumFunction(f) = 0 BY <1>3, <1>4, SumZero, BudgetAssumption
<1>6. cumulative = SumFunction([d \in Dispatch |-> Held(d)]) BY <1>4, <1>5 DEF BudgetInit
<1>7. cap > 0 => cumulative <= cap BY <1>2 DEF BudgetInit, BudgetTypeOK
<1>. QED BY <1>2, <1>3, <1>6, <1>7 DEF BudgetInv

\* In every interleaving the total is the sum of what the dispatches hold and
\* within the cap, for any dispatches, prices, caps and sizes.
THEOREM TotalIsRight == Spec => []TotalIsWhatIsHeld
<1>1. Init => BudgetInv
  BY BudgetInitOK DEF Init
<1>2. BudgetInv /\ [Next]_vars => BudgetInv'
  <2>1. [Next]_vars => [BudgetNext]_budgetVars
    BY DEF Next, WriteRows, Account, Observe, Inspect, vars, costVars
  <2>. QED BY <2>1, BudgetStep
<1>3. BudgetInv => TotalIsWhatIsHeld
  <2> SUFFICES ASSUME BudgetInv, NEW d \in Dispatch
               PROVE  /\ dispatch[d].bill > 0 => \E r \in records : r.who = d /\ r.kind = "reserved"
                      /\ dispatch[d].pc = "refused" => \E r \in records : r.who = d /\ r.kind = "refused"
    BY DEF BudgetInv, TotalIsWhatIsHeld
  <2>1. Course(d) /\ dispatch[d] \in DispatchRecord BY DEF BudgetInv, BudgetTypeOK
  <2>2. dispatch[d].bill > 0 => dispatch[d].pc \in {"answered", "failed", "settled", "refused"}
    BY <2>1 DEF Course, DispatchRecord
  <2>3. dispatch[d].pc \in {"answered", "failed", "settled", "refused"} => Reservation(d) \in records
    BY <2>1 DEF Course, RowsOf
  <2>4. dispatch[d].pc = "refused" => \E m \in Nat : BudgetEntry(d, "refused", m) \in records
    BY <2>1 DEF Course, RowsOf
  <2>. QED BY <2>2, <2>3, <2>4 DEF Reservation, BudgetEntry
<1>. QED BY <1>1, <1>2, <1>3, PTL DEF Spec

(***************************************************************************)
(* The choke point of swallowed failures (FailFast)                        *)
(*                                                                         *)
(* A call waits for the one above it in a way that fits its kind; the one  *)
(* that holds the guard of its thread, if any, has at most one call above  *)
(* it, for that cannot mask. So the calls of a thread never grow beyond    *)
(* the four deepest, and each text can be told from where its call is.     *)
(***************************************************************************)
CriticalOp == {"critical", "criticalText", "record"}
FailOp == CriticalOp \cup {"swallowed", "sink", "artifact"}
WaitingPc == {"opaque", "unmasked", "formatting"}
MaskingPc == {"masking", "masked", "maskFailed"}
FailText == {"none", "plain", "secret", "masked", "withheld"}

PcOf(op) ==
    CASE op = "swallowed" -> {"start", "strict", "store"} \cup MaskingPc
      [] op = "sink" -> {"start", "opaque", "unmasked", "return", "raise"} \cup MaskingPc
      [] op = "artifact" -> {"start", "return", "raise"} \cup MaskingPc
      [] OTHER -> {"start", "opaque", "formatting", "return"}

FrameRecord == [op : FailOp, pc : UNION {PcOf(op) : op \in FailOp}, value : FailValue, text : FailText]

\* A frame of the census under a gate that masks.
FrameOK(f, gate) ==
    /\ f \in FrameRecord /\ f.pc \in PcOf(f.op)
    /\ f.op # "swallowed" \/ f.pc \in MaskingPc \/ gate => f.text # "secret"
    /\ f.op \in CriticalOp /\ f.pc = "return" => f.text # "none"
    /\ f.op = "sink" /\ f.pc \in {"masked", "return"} => f.text # "none"

Guarding(f) == f.op \in {"swallowed", "sink"} /\ f.pc \in MaskingPc

\* f waits for the end of g.
Waits(f, g) ==
    \/ f.pc = "masking" /\ g.op = "swallowed"
    \/ f.pc = "opaque" /\ f.op \in {"sink", "critical", "record"} /\ g.op = "swallowed"
    \/ f.pc = "unmasked" /\ f.op = "sink" /\ g.op = "swallowed"
    \/ f.pc = "formatting" /\ f.op \in {"critical", "criticalText"} /\ g.op = "sink"

StackOK(s, guard, gate) ==
    /\ s \in Seq(FrameRecord) /\ guard \in BOOLEAN
    /\ \A j \in 1..Len(s) : FrameOK(s[j], gate)
    /\ \A j \in 1..Len(s) - 1 : Waits(s[j], s[j + 1])
    /\ Len(s) > 0 => s[Len(s)].pc \notin WaitingPc
    /\ guard <=> \E j \in 1..Len(s) : Guarding(s[j])
    /\ \A j \in 1..Len(s) : Guarding(s[j]) =>
          /\ Len(s) <= j + 1
          /\ \A k \in 1..Len(s) : Guarding(s[k]) => k = j

OutcomeOK(o) ==
    /\ o.op \in CriticalOp => ~o.raised /\ o.text # "none"
    /\ o.text # "secret"

ScopeOK ==
    ~failGhost.overlap =>
        /\ \A t, u \in FailThread : saved[t] # "none" /\ saved[u] # "none" => t = u
        /\ \A t \in FailThread : saved[t] # "none" => (saved[t] = "true" <=> failGhost.ambient)
        /\ (\A t \in FailThread : saved[t] = "none") => strict = failGhost.ambient

FailGhosts == [calls : Nat, scopes : Nat, ambient : BOOLEAN, overlap : BOOLEAN, swallows : Nat]

FailInv ==
    /\ strict \in BOOLEAN /\ maskGate \in BOOLEAN
    /\ active \in [FailThread -> BOOLEAN]
    /\ stack \in [FailThread -> Seq(FrameRecord)]
    /\ saved \in [FailThread -> {"none", "true", "false"}]
    /\ failGhost \in FailGhosts
    /\ outcome = [t \in FailThread |-> outcome[t]]
    /\ \A t \in FailThread : StackOK(stack[t], active[t], maskGate) /\ OutcomeOK(outcome[t])
    /\ maskGate => last # "secret"
    /\ counts = failGhost.swallows
    /\ ScopeOK

LEMMA FrameParts ==
    ASSUME NEW f, NEW gate, FrameOK(f, gate)
    PROVE  f \in FrameRecord /\ f.op \in FailOp /\ f.pc \in PcOf(f.op) /\ f.text \in FailText
BY DEF FrameOK, FrameRecord

\* A call goes from f to g, and the guard of its thread from `guard` to `held`:
\* it keeps it, takes it or lets it go.
GuardMoves(f, g, guard, held) ==
    \/ (Guarding(f) <=> Guarding(g)) /\ held = guard
    \/ ~Guarding(f) /\ Guarding(g) /\ ~guard /\ held
    \/ Guarding(f) /\ ~Guarding(g) /\ ~held

\* The innermost call goes on.
LEMMA TopMoves ==
    ASSUME NEW s, NEW guard, NEW gate, StackOK(s, guard, gate), s # <<>>,
           NEW f, FrameOK(f, gate), f.op = Last(s).op, f.pc \notin WaitingPc,
           NEW held \in BOOLEAN, GuardMoves(Last(s), f, guard, held)
    PROVE  StackOK(Append(Front(s), f), held, gate)
<1>1. PICK m \in Nat : m = Len(s) /\ m > 0 BY DEF StackOK
<1>2. PICK r : r = Append(Front(s), f) OBVIOUS
<1>3. f \in FrameRecord /\ s \in Seq(FrameRecord) BY FrameParts DEF StackOK
<1>4. r \in Seq(FrameRecord) /\ Len(r) = m /\ r[m] = f /\ \A j \in 1..m - 1 : r[j] = s[j]
  BY <1>1, <1>2, <1>3, TopReplaced
<1>5. Last(s) = s[m] BY <1>1, <1>3, TopFacts
<1>a. Guarding(s[m]) => guard BY <1>1 DEF StackOK
<1>b. /\ Guarding(f) => held /\ (Guarding(s[m]) \/ ~guard)
      /\ held => guard \/ Guarding(f)
      /\ guard /\ ~held => Guarding(s[m])
      /\ held /\ ~Guarding(f) => ~Guarding(s[m])
  BY <1>5, <1>a DEF GuardMoves, StackOK
<1>6. \A j \in 1..m : FrameOK(r[j], gate)
  <2>1. \A j \in 1..m : FrameOK(s[j], gate) BY <1>1 DEF StackOK
  <2>2. \A j \in 1..m : j = m \/ j \in 1..m - 1 BY <1>1
  <2>. QED BY <1>4, <2>1, <2>2
<1>7. ASSUME NEW j \in 1..m - 1 PROVE Waits(r[j], r[j + 1])
  <2>1. Waits(s[j], s[j + 1]) BY <1>1 DEF StackOK
  <2>2. r[j] = s[j] /\ r[j + 1].op = s[j + 1].op
    <3>1. j + 1 = m \/ j + 1 \in 1..m - 1 BY <1>1
    <3>. QED BY <1>4, <1>5, <3>1
  <2>. QED BY <2>1, <2>2 DEF Waits
<1>8. \A j \in 1..m : j # m => (Guarding(r[j]) <=> Guarding(s[j]))
  <2>1. \A j \in 1..m : j # m => j \in 1..m - 1 BY <1>1
  <2>. QED BY <1>4, <2>1
<1>9. held <=> \E j \in 1..m : Guarding(r[j])
  <2>1. guard <=> \E j \in 1..m : Guarding(s[j]) BY <1>1 DEF StackOK
  <2>2. \A j, k \in 1..m : Guarding(s[j]) /\ Guarding(s[k]) => k = j BY <1>1 DEF StackOK
  <2>3. m \in 1..m BY <1>1
  <2>4. ASSUME held PROVE \E j \in 1..m : Guarding(r[j])
    <3>1. CASE Guarding(f) BY <1>4, <2>3, <3>1
    <3>2. CASE ~Guarding(f)
      <4>1. PICK j \in 1..m : Guarding(s[j]) BY <1>b, <2>1, <2>4, <3>2
      <4>2. j # m BY <1>b, <2>4, <3>2, <4>1
      <4>. QED BY <1>8, <4>1, <4>2
    <3>. QED BY <3>1, <3>2
  <2>5. ASSUME NEW j \in 1..m, Guarding(r[j]) PROVE held
    <3>1. CASE j = m BY <1>4, <1>b, <2>5, <3>1
    <3>2. CASE j # m
      <4>1. Guarding(s[j]) BY <1>8, <2>5, <3>2
      <4>2. ~Guarding(s[m]) BY <2>2, <2>3, <3>2, <4>1
      <4>. QED BY <1>b, <2>1, <4>1, <4>2
    <3>. QED BY <3>1, <3>2
  <2>. QED BY <2>4, <2>5
<1>10. ASSUME NEW j \in 1..m, Guarding(r[j])
       PROVE  m <= j + 1 /\ \A k \in 1..m : Guarding(r[k]) => k = j
  <2>1. \A i, k \in 1..m : Guarding(s[i]) /\ Guarding(s[k]) => k = i BY <1>1 DEF StackOK
  <2>2. \A k \in 1..m : Guarding(s[k]) => m <= k + 1 BY <1>1 DEF StackOK
  <2>3. guard <=> \E k \in 1..m : Guarding(s[k]) BY <1>1 DEF StackOK
  <2>4. m \in 1..m BY <1>1
  <2>5. CASE Guarding(f)
    <3>1. \A k \in 1..m : k # m => ~Guarding(s[k]) BY <1>b, <2>1, <2>3, <2>4, <2>5
    <3>. QED BY <1>1, <1>8, <1>10, <3>1
  <2>6. CASE ~Guarding(f)
    <3>1. \A k \in 1..m : Guarding(r[k]) => k # m BY <1>4, <2>6
    <3>. QED BY <1>8, <1>10, <2>1, <2>2, <3>1
  <2>. QED BY <2>5, <2>6
<1>11. StackOK(r, held, gate)
  BY <1>4, <1>6, <1>7, <1>9, <1>10 DEF StackOK
<1>. QED BY <1>2, <1>11

\* The innermost call enters another one and waits for it.
LEMMA TopEnters ==
    ASSUME NEW s, NEW guard, NEW gate, StackOK(s, guard, gate), s # <<>>,
           NEW f, FrameOK(f, gate), f.op = Last(s).op,
           NEW g, FrameOK(g, gate), g.pc = "start", Waits(f, g),
           NEW held \in BOOLEAN, \/ (Guarding(f) <=> Guarding(Last(s))) /\ held = guard
                                 \/ Guarding(Last(s)) /\ ~Guarding(f) /\ ~held,
           guard => Guarding(Last(s))
    PROVE  StackOK(Append(Front(s), f) \o <<g>>, held, gate)
<1>1. PICK m \in Nat : m = Len(s) /\ m > 0 BY DEF StackOK
<1>2. PICK r : r = Append(Front(s), f) \o <<g>> OBVIOUS
<1>3. f \in FrameRecord /\ g \in FrameRecord /\ s \in Seq(FrameRecord) BY FrameParts DEF StackOK
<1>4. /\ r \in Seq(FrameRecord) /\ Len(r) = m + 1 /\ r[m] = f /\ r[m + 1] = g
      /\ \A j \in 1..m - 1 : r[j] = s[j]
  BY <1>1, <1>2, <1>3, TopPushed
<1>5. Last(s) = s[m] BY <1>1, <1>3, TopFacts
<1>6. \A j \in 1..m + 1 : j = m + 1 \/ j = m \/ j \in 1..m - 1 BY <1>1
<1>7. \A j \in 1..m + 1 : FrameOK(r[j], gate)
  <2>1. \A j \in 1..m : FrameOK(s[j], gate) BY <1>1 DEF StackOK
  <2>2. \A j \in 1..m - 1 : FrameOK(r[j], gate) BY <1>4, <2>1
  <2>. QED BY <1>4, <1>6, <2>2
<1>8. ASSUME NEW j \in 1..m PROVE Waits(r[j], r[j + 1])
  <2>1. CASE j = m BY <1>4, <2>1
  <2>2. CASE j # m
    <3>1. j \in 1..m - 1 BY <1>1, <2>2
    <3>2. Waits(s[j], s[j + 1]) BY <1>1, <3>1 DEF StackOK
    <3>3. r[j] = s[j] /\ r[j + 1].op = s[j + 1].op
      <4>1. j + 1 = m \/ j + 1 \in 1..m - 1 BY <1>1, <3>1
      <4>. QED BY <1>4, <1>5, <3>1, <4>1
    <3>. QED BY <3>2, <3>3 DEF Waits
  <2>. QED BY <2>1, <2>2
<1>9. ~Guarding(g) BY DEF Guarding, MaskingPc
<1>10. \A j \in 1..m - 1 : ~Guarding(s[j])
  <2>1. \A i, k \in 1..m : Guarding(s[i]) /\ Guarding(s[k]) => k = i BY <1>1 DEF StackOK
  <2>2. guard <=> \E k \in 1..m : Guarding(s[k]) BY <1>1 DEF StackOK
  <2>3. ASSUME NEW j \in 1..m - 1, Guarding(s[j]) PROVE FALSE
    <3>1. j \in 1..m /\ m \in 1..m /\ j # m BY <1>1
    <3>2. Guarding(s[m]) BY <1>5, <2>2, <2>3, <3>1
    <3>. QED BY <2>1, <2>3, <3>1, <3>2
  <2>. QED BY <2>3
<1>11. \A j \in 1..m + 1 : Guarding(r[j]) => j = m
  BY <1>4, <1>6, <1>9, <1>10
<1>12. held <=> Guarding(f)
  <2>1. guard <=> Guarding(s[m])
    <3>1. guard <=> \E k \in 1..m : Guarding(s[k]) BY <1>1 DEF StackOK
    <3>2. m \in 1..m BY <1>1
    <3>. QED BY <1>5, <3>1, <3>2
  <2>. QED BY <1>5, <2>1
<1>13. held <=> \E j \in 1..m + 1 : Guarding(r[j])
  <2>1. m \in 1..m + 1 BY <1>1
  <2>. QED BY <1>4, <1>11, <1>12, <2>1
<1>14. \A j \in 1..m + 1 : Guarding(r[j]) =>
          m + 1 <= j + 1 /\ \A k \in 1..m + 1 : Guarding(r[k]) => k = j
  BY <1>1, <1>11
<1>15. r[m + 1].pc \notin WaitingPc BY <1>4 DEF WaitingPc
<1>16. \A j \in 1..Len(r) - 1 : Waits(r[j], r[j + 1]) BY <1>1, <1>4, <1>8
<1>17. StackOK(r, held, gate)
  BY <1>4, <1>7, <1>13, <1>14, <1>15, <1>16 DEF StackOK
<1>. QED BY <1>2, <1>17

\* The innermost call ends and the one that waited for it goes on as g.
LEMMA TopEnds ==
    ASSUME NEW s, NEW guard, NEW gate, StackOK(s, guard, gate), s # <<>>, ~Guarding(Last(s)),
           Front(s) # <<>>,
           NEW g, FrameOK(g, gate), g.op = Last(Front(s)).op, g.pc \notin WaitingPc,
           Guarding(g) <=> Guarding(Last(Front(s)))
    PROVE  StackOK(Append(Front(Front(s)), g), guard, gate)
<1>1. PICK m \in Nat : Len(s) = m + 1
  <2>1. Len(s) \in Nat /\ Len(s) > 0 BY DEF StackOK
  <2>2. Len(s) - 1 \in Nat /\ Len(s) = (Len(s) - 1) + 1 BY <2>1
  <2>. QED BY <2>2
<1>2. PICK q : q = Front(s) OBVIOUS
<1>3. s \in Seq(FrameRecord) /\ g \in FrameRecord BY FrameParts DEF StackOK
<1>4. /\ q \in Seq(FrameRecord) /\ Len(q) = m /\ Last(s) = s[m + 1]
      /\ \A j \in 1..m : q[j] = s[j]
  BY <1>1, <1>2, <1>3, TopFacts
<1>5. m > 0 BY <1>2, <1>4
<1>5a. q # <<>> /\ m \in 1..m BY <1>2, <1>5
<1>6. Last(q) = s[m]
  <2>1. Last(q) = q[m] BY <1>4, <1>5a, TopFacts
  <2>. QED BY <1>4, <1>5a, <2>1
<1>7. PICK r : r = Append(Front(q), g) OBVIOUS
<1>8. r \in Seq(FrameRecord) /\ Len(r) = m /\ r[m] = g /\ \A j \in 1..m - 1 : r[j] = s[j]
  <2>1. r \in Seq(FrameRecord) /\ Len(r) = m /\ r[m] = g /\ \A j \in 1..m - 1 : r[j] = q[j]
    <3>1. q \in Seq(FrameRecord) /\ q # <<>> /\ g \in FrameRecord /\ Len(q) = m
      BY <1>3, <1>4, <1>5a
    <3>. QED BY ONLY <1>7, <3>1, TopReplaced
  <2>2. \A j \in 1..m - 1 : j \in 1..m BY <1>1
  <2>. QED BY <1>4, <2>1, <2>2
<1>9. \A j \in 1..m : j = m \/ j \in 1..m - 1 BY <1>1
<1>10. \A j \in 1..m : FrameOK(r[j], gate)
  <2>1. \A j \in 1..m + 1 : FrameOK(s[j], gate) BY <1>1 DEF StackOK
  <2>2. \A j \in 1..m - 1 : FrameOK(r[j], gate) BY <1>8, <2>1
  <2>. QED BY <1>8, <1>9, <2>2
<1>11. ASSUME NEW j \in 1..m - 1 PROVE Waits(r[j], r[j + 1])
  <2>1. Waits(s[j], s[j + 1])
    <3>1. j \in 1..Len(s) - 1 BY <1>1
    <3>. QED BY <3>1 DEF StackOK
  <2>2. r[j] = s[j] /\ r[j + 1].op = s[j + 1].op
    <3>1. j + 1 = m \/ j + 1 \in 1..m - 1 BY <1>1
    <3>. QED BY <1>2, <1>6, <1>8, <3>1
  <2>. QED BY <2>1, <2>2 DEF Waits
<1>12. \A j \in 1..m : Guarding(r[j]) <=> Guarding(s[j])
  <2>1. Guarding(r[m]) <=> Guarding(s[m]) BY <1>2, <1>6, <1>8
  <2>. QED BY <1>8, <1>9, <2>1
<1>13. guard <=> \E j \in 1..m : Guarding(r[j])
  <2>1. guard <=> \E j \in 1..m + 1 : Guarding(s[j]) BY <1>1 DEF StackOK
  <2>2. ~Guarding(s[m + 1]) BY <1>4
  <2>3. \A j \in 1..m + 1 : j = m + 1 \/ j \in 1..m BY <1>1
  <2>4. \A j \in 1..m : j \in 1..m + 1 BY <1>1
  <2>. QED BY <1>12, <2>1, <2>2, <2>3, <2>4
<1>14. ASSUME NEW j \in 1..m, Guarding(r[j])
       PROVE  m <= j + 1 /\ \A k \in 1..m : Guarding(r[k]) => k = j
  <2>1. \A i, k \in 1..m + 1 : Guarding(s[i]) /\ Guarding(s[k]) => k = i BY <1>1 DEF StackOK
  <2>2. \A k \in 1..m + 1 : Guarding(s[k]) => m + 1 <= k + 1 BY <1>1 DEF StackOK
  <2>3. \A k \in 1..m : k \in 1..m + 1 BY <1>1
  <2>4. m + 1 <= j + 1 BY <1>12, <1>14, <2>2, <2>3
  <2>5. m <= j + 1 BY <1>1, <2>4
  <2>. QED BY <1>12, <1>14, <2>1, <2>3, <2>5
<1>15. StackOK(r, guard, gate)
  <2>1. guard \in BOOLEAN BY DEF StackOK
  <2>2. \A j \in 1..Len(r) - 1 : Waits(r[j], r[j + 1]) BY <1>8, <1>11
  <2>3. Len(r) > 0 => r[Len(r)].pc \notin WaitingPc BY <1>8
  <2>. QED BY <1>8, <1>10, <1>13, <1>14, <2>1, <2>2, <2>3 DEF StackOK
<1>. QED BY <1>2, <1>7, <1>15

\* Nothing but another swallow waits above the call that holds the guard.
LEMMA GuardOfTop ==
    ASSUME NEW s, NEW guard, NEW gate, StackOK(s, guard, gate), s # <<>>, Last(s).op # "swallowed"
    PROVE  guard <=> Guarding(Last(s))
<1>1. PICK m \in Nat : m = Len(s) /\ m > 0 BY DEF StackOK
<1>2. Last(s) = s[m] /\ m \in 1..m
  <2>1. s \in Seq(FrameRecord) BY DEF StackOK
  <2>2. Last(s) = s[Len(s)] BY <2>1, TopFacts
  <2>. QED BY <1>1, <2>2
<1>3. guard <=> \E j \in 1..m : Guarding(s[j]) BY <1>1 DEF StackOK
<1>4. ASSUME NEW j \in 1..m, Guarding(s[j]) PROVE j = m
  <2> SUFFICES ASSUME j # m PROVE FALSE OBVIOUS
  <2>1. m <= j + 1 BY <1>1, <1>4 DEF StackOK
  <2>2. j \in 1..m - 1 /\ j + 1 = m BY <1>1, <2>1
  <2>3. Waits(s[j], s[m])
    <3>1. Waits(s[j], s[j + 1]) BY <1>1, <2>2 DEF StackOK
    <3>. QED BY <2>2, <3>1
  <2>. QED BY <1>2, <1>4, <2>3 DEF Waits, Guarding, MaskingPc
<1>. QED BY <1>2, <1>3, <1>4

\* The calls of a thread nest four deep at most.
LEMMA Depth ==
    ASSUME NEW s, NEW guard, NEW gate, StackOK(s, guard, gate)
    PROVE  Len(s) <= 4
<1>1. PICK m \in Nat : m = Len(s) BY DEF StackOK
<1>2. SUFFICES ASSUME m >= 5 PROVE FALSE BY <1>1
<1>3. Waits(s[1], s[2]) /\ Waits(s[2], s[3]) /\ Waits(s[3], s[4])
  <2>1. \A j \in 1..m - 1 : Waits(s[j], s[j + 1]) BY <1>1 DEF StackOK
  <2>2. 1 \in 1..m - 1 /\ 2 \in 1..m - 1 /\ 3 \in 1..m - 1 BY <1>1, <1>2
  <2>3. 1 + 1 = 2 /\ 2 + 1 = 3 /\ 3 + 1 = 4 OBVIOUS
  <2>4. Waits(s[1], s[1 + 1]) /\ Waits(s[2], s[2 + 1]) /\ Waits(s[3], s[3 + 1]) BY <2>1, <2>2
  <2>. QED BY <2>3, <2>4
<1>4. s[2].op \in {"swallowed", "sink"} BY <1>3 DEF Waits
<1>5. s[3].op = "swallowed" BY <1>3, <1>4 DEF Waits
<1>6. Guarding(s[3]) BY <1>3, <1>5 DEF Waits, Guarding, MaskingPc
<1>7. m <= 3 + 1
  <2>1. 3 \in 1..m BY <1>2
  <2>. QED BY <1>1, <1>6, <2>1 DEF StackOK
<1>. QED BY <1>1, <1>2, <1>7

\* A thread that calls nothing masks nothing.
LEMMA Idle ==
    ASSUME NEW guard \in BOOLEAN, NEW gate
    PROVE  StackOK(<<>>, guard, gate) <=> ~guard
<1>1. <<>> \in Seq(FrameRecord) /\ Len(<<>>) = 0 OBVIOUS
<1>. QED BY <1>1 DEF StackOK

LEMMA FirstCall ==
    ASSUME NEW f, NEW gate, FrameOK(f, gate), f.pc = "start"
    PROVE  StackOK(<<f>>, FALSE, gate)
<1>1. PICK r : r = <<f>> OBVIOUS
<1>2. r \in Seq(FrameRecord) /\ Len(r) = 1 /\ r[1] = f BY <1>1, FrameParts
<1>3. \A j \in 1..1 : j = 1 OBVIOUS
<1>4. ~Guarding(f) /\ f.pc \notin WaitingPc BY DEF Guarding, MaskingPc, WaitingPc
<1>5. \A j \in 1..Len(r) : FrameOK(r[j], gate) /\ ~Guarding(r[j]) BY <1>2, <1>3, <1>4
<1>6. \A j \in 1..Len(r) - 1 : Waits(r[j], r[j + 1]) BY <1>2
<1>7. r[Len(r)].pc \notin WaitingPc BY <1>2, <1>4
<1>8. StackOK(r, FALSE, gate) BY <1>2, <1>5, <1>6, <1>7 DEF StackOK
<1>. QED BY <1>1, <1>8

\* What a caller makes of the end of the call it waits for.
LEMMA Resumes ==
    ASSUME NEW f, NEW gate, FrameOK(f, gate), NEW g, Waits(f, g),
           NEW raises \in BOOLEAN, NEW text \in FailText,
           g.op = "sink" /\ ~raises => text # "none" /\ text # "secret"
    PROVE  LET r == Resume(f, raises, text) IN
           /\ FrameOK(r, gate) /\ r.op = f.op /\ r.pc \notin WaitingPc
           /\ Guarding(r) <=> Guarding(f)
<1>1. PICK r : r = Resume(f, raises, text) OBVIOUS
<1>2. /\ f \in FrameRecord /\ f.op \in FailOp /\ f.pc \in PcOf(f.op) /\ f.text \in FailText
      /\ f.value \in FailValue
  BY FrameParts DEF FrameRecord
<1>3. FrameOK(r, gate) /\ r.op = f.op /\ r.pc \notin WaitingPc /\ (Guarding(r) <=> Guarding(f))
  <2>1. CASE f.pc = "masking"
    <3>1. PICK pc : pc = IF raises THEN "maskFailed" ELSE "masked" OBVIOUS
    <3>2. r = [f EXCEPT !.pc = pc, !.text = "withheld"] BY <1>1, <2>1, <3>1 DEF Resume
    <3>3. r.op = f.op /\ r.pc = pc /\ r.text = "withheld" /\ r.value = f.value BY <1>2, <3>2 DEF FrameRecord
    <3>4. pc \in PcOf(f.op) BY <1>2, <2>1, <3>1 DEF PcOf, MaskingPc, FailOp, CriticalOp
    <3>5. r \in FrameRecord BY <1>2, <3>2, <3>4 DEF FrameRecord, FailText
    <3>. QED BY <1>2, <2>1, <3>1, <3>3, <3>4, <3>5
         DEF FrameOK, Guarding, MaskingPc, WaitingPc, FailOp, CriticalOp, PcOf
  <2>2. CASE f.pc = "opaque" /\ f.op = "sink"
    <3>1. PICK pc : pc = IF raises THEN "raise" ELSE "start" OBVIOUS
    <3>2. r = [f EXCEPT !.pc = pc, !.value = "plain"] BY <1>1, <2>2, <3>1 DEF Resume
    <3>3. r.op = f.op /\ r.pc = pc /\ r.text = f.text BY <1>2, <3>2 DEF FrameRecord
    <3>4. pc \in PcOf(f.op) BY <2>2, <3>1 DEF PcOf
    <3>5. r \in FrameRecord BY <1>2, <3>2, <3>4 DEF FrameRecord, FailValue
    <3>6. f.text # "secret" BY <2>2 DEF FrameOK
    <3>. QED BY <2>2, <3>1, <3>3, <3>4, <3>5, <3>6 DEF FrameOK, Guarding, MaskingPc, WaitingPc, CriticalOp
  <2>3. CASE f.pc = "unmasked"
    <3>0. f.op = "sink" BY <2>3 DEF Waits
    <3>1. PICK pc : pc = IF raises THEN "raise" ELSE "return" OBVIOUS
    <3>2. r = [f EXCEPT !.pc = pc, !.text = "withheld"] BY <1>1, <2>3, <3>1 DEF Resume
    <3>3. r.op = f.op /\ r.pc = pc /\ r.text = "withheld" BY <1>2, <3>2 DEF FrameRecord
    <3>4. pc \in PcOf(f.op) BY <3>0, <3>1 DEF PcOf
    <3>5. r \in FrameRecord BY <1>2, <3>2, <3>4 DEF FrameRecord, FailText
    <3>. QED BY <2>3, <3>0, <3>1, <3>3, <3>4, <3>5 DEF FrameOK, Guarding, MaskingPc, WaitingPc, CriticalOp
  <2>4. CASE f.pc = "formatting"
    <3>0. f.op \in {"critical", "criticalText"} /\ g.op = "sink" BY <2>4 DEF Waits
    <3>1. PICK made : made = IF raises THEN "withheld" ELSE text OBVIOUS
    <3>2. r = [f EXCEPT !.pc = "return", !.text = made] BY <1>1, <2>4, <3>1 DEF Resume
    <3>3. r.op = f.op /\ r.pc = "return" /\ r.text = made BY <1>2, <3>2 DEF FrameRecord
    <3>4. "return" \in PcOf(f.op) BY <3>0 DEF PcOf
    <3>5. made \in FailText /\ made # "none" /\ made # "secret" BY <3>0, <3>1 DEF FailText
    <3>6. r \in FrameRecord BY <1>2, <3>2, <3>4, <3>5 DEF FrameRecord
    <3>. QED BY <2>4, <3>0, <3>3, <3>4, <3>5, <3>6 DEF FrameOK, Guarding, MaskingPc, WaitingPc, CriticalOp
  <2>5. CASE f.pc = "opaque" /\ f.op # "sink"
    <3>0. f.op \in {"critical", "record"} BY <2>5 DEF Waits
    <3>2. r = [f EXCEPT !.pc = "return", !.text = "plain"] BY <1>1, <2>5 DEF Resume
    <3>3. r.op = f.op /\ r.pc = "return" /\ r.text = "plain" BY <1>2, <3>2 DEF FrameRecord
    <3>4. "return" \in PcOf(f.op) BY <3>0 DEF PcOf
    <3>5. r \in FrameRecord BY <1>2, <3>2, <3>4 DEF FrameRecord, FailText
    <3>. QED BY <2>5, <3>0, <3>3, <3>4, <3>5 DEF FrameOK, Guarding, MaskingPc, WaitingPc, CriticalOp
  <2>. QED BY <2>1, <2>2, <2>3, <2>4, <2>5 DEF Waits
<1>. QED BY <1>1, <1>3

\* A thread takes a step that leaves the scopes as they are.
LEMMA ThreadAlone ==
    ASSUME FailInv, NEW t \in FailThread, NEW s, NEW held, NEW o,
           stack' = [stack EXCEPT ![t] = s], active' = [active EXCEPT ![t] = held],
           outcome' = [outcome EXCEPT ![t] = o],
           StackOK(s, held, maskGate), OutcomeOK(o), maskGate => last' # "secret",
           failGhost' \in FailGhosts, failGhost'.ambient = failGhost.ambient,
           failGhost'.overlap = failGhost.overlap, counts' = failGhost'.swallows,
           UNCHANGED <<strict, maskGate, saved>>
    PROVE  FailInv'
<1>1. s \in Seq(FrameRecord) /\ held \in BOOLEAN BY DEF StackOK
<1>2. /\ active \in [FailThread -> BOOLEAN] /\ stack \in [FailThread -> Seq(FrameRecord)]
      /\ outcome = [u \in FailThread |-> outcome[u]]
  BY DEF FailInv
<1>3. /\ stack'[t] = s /\ active'[t] = held /\ outcome'[t] = o
      /\ \A u \in FailThread \ {t} : stack'[u] = stack[u] /\ active'[u] = active[u] /\ outcome'[u] = outcome[u]
      /\ active' \in [FailThread -> BOOLEAN] /\ stack' \in [FailThread -> Seq(FrameRecord)]
      /\ outcome' = [u \in FailThread |-> outcome'[u]]
  BY <1>1, <1>2
<1>4. ASSUME NEW u \in FailThread PROVE StackOK(stack'[u], active'[u], maskGate) /\ OutcomeOK(outcome'[u])
  <2>1. CASE u = t BY <1>3, <2>1
  <2>2. CASE u # t BY <1>3, <2>2 DEF FailInv
  <2>. QED BY <2>1, <2>2
<1>5. ScopeOK' BY DEF FailInv, ScopeOK
<1>. QED BY <1>3, <1>4, <1>5 DEF FailInv

\* What the innermost call of a thread is.
LEMMA TopIs ==
    ASSUME FailInv, NEW t \in FailThread, stack[t] # <<>>
    PROVE  LET f == Last(stack[t]) IN
           /\ StackOK(stack[t], active[t], maskGate) /\ stack[t] \in Seq(FrameRecord)
           /\ active[t] \in BOOLEAN
           /\ f \in FrameRecord /\ FrameOK(f, maskGate)
           /\ f.op \in FailOp /\ f.pc \in PcOf(f.op) /\ f.value \in FailValue /\ f.text \in FailText
<1>1. StackOK(stack[t], active[t], maskGate) /\ stack[t] \in Seq(FrameRecord) /\ active[t] \in BOOLEAN
  BY DEF FailInv
<1>2. /\ Last(stack[t]) = stack[t][Len(stack[t])] /\ Last(stack[t]) \in FrameRecord
      /\ Len(stack[t]) \in 1..Len(stack[t])
  BY <1>1, TopFacts
<1>3. FrameOK(Last(stack[t]), maskGate) BY <1>1, <1>2 DEF StackOK
<1>. QED BY <1>1, <1>2, <1>3, FrameParts DEF FrameRecord

\* The innermost call goes on, nothing else does.
LEMMA Goes ==
    ASSUME FailInv, NEW t \in FailThread, stack[t] # <<>>,
           NEW f, FrameOK(f, maskGate), f.op = Last(stack[t]).op, f.pc \notin WaitingPc,
           NEW held \in BOOLEAN, GuardMoves(Last(stack[t]), f, active[t], held),
           stack' = Moved(t, f), active' = [active EXCEPT ![t] = held],
           maskGate => last' # "secret",
           failGhost' \in FailGhosts, failGhost'.ambient = failGhost.ambient,
           failGhost'.overlap = failGhost.overlap, counts' = failGhost'.swallows,
           UNCHANGED <<strict, maskGate, saved, outcome>>
    PROVE  FailInv'
<1>1. StackOK(stack[t], active[t], maskGate) BY TopIs
<1>2. PICK s : s = Append(Front(stack[t]), f) OBVIOUS
<1>3. StackOK(s, held, maskGate) BY <1>1, <1>2, TopMoves
<1>4. stack' = [stack EXCEPT ![t] = s] BY <1>2 DEF Moved
<1>5. outcome' = [outcome EXCEPT ![t] = outcome[t]] /\ OutcomeOK(outcome[t]) BY DEF FailInv
<1>. QED BY <1>3, <1>4, <1>5, ThreadAlone

\* The innermost call waits at pc for another one it enters.
LEMMA GoesUnder ==
    ASSUME FailInv, NEW t \in FailThread, stack[t] # <<>>, NEW pc, NEW g,
           pc \in PcOf(Last(stack[t]).op), pc \notin {"masked", "return"}, pc \in MaskingPc => Last(stack[t]).pc \in MaskingPc,
           FrameOK(g, maskGate), g.pc = "start",
           NEW f, f = [Last(stack[t]) EXCEPT !.pc = pc], Waits(f, g),
           NEW held \in BOOLEAN, active' = [active EXCEPT ![t] = held],
           \/ (Guarding(f) <=> Guarding(Last(stack[t]))) /\ held = active[t]
           \/ Guarding(Last(stack[t])) /\ ~Guarding(f) /\ ~held,
           active[t] => Guarding(Last(stack[t])),
           stack' = Enters(t, pc, g),
           UNCHANGED <<strict, maskGate, saved, outcome, counts, last, failGhost>>
    PROVE  FailInv'
<1>1. f = [Last(stack[t]) EXCEPT !.pc = pc] OBVIOUS
<1>2. /\ f \in FrameRecord /\ f.op = Last(stack[t]).op /\ f.pc = pc /\ f.text = Last(stack[t]).text
      /\ FrameOK(Last(stack[t]), maskGate)
  <2>1. pc \in UNION {PcOf(k) : k \in FailOp} BY TopIs
  <2>. QED BY <1>1, <2>1, TopIs DEF FrameRecord
<1>3. FrameOK(f, maskGate) BY <1>2 DEF FrameOK
<1>4. StackOK(stack[t], active[t], maskGate) BY TopIs
<1>5. PICK s : s = Append(Front(stack[t]), f) \o <<g>> OBVIOUS
<1>6. StackOK(s, held, maskGate)
  <2>1. f.op = Last(stack[t]).op BY <1>2
  <2>2. \/ (Guarding(f) <=> Guarding(Last(stack[t]))) /\ held = active[t]
        \/ Guarding(Last(stack[t])) /\ ~Guarding(f) /\ ~held
    OBVIOUS
  <2>3. StackOK(Append(Front(stack[t]), f) \o <<g>>, held, maskGate)
    BY ONLY <1>3, <1>4, <2>1, <2>2, stack[t] # <<>>, FrameOK(g, maskGate), g.pc = "start", Waits(f, g),
            held \in BOOLEAN, active[t] => Guarding(Last(stack[t])), TopEnters
  <2>. QED BY ONLY <1>5, <2>3
<1>7. stack' = [stack EXCEPT ![t] = s] BY <1>1, <1>5 DEF Enters
<1>8. outcome' = [outcome EXCEPT ![t] = outcome[t]] /\ OutcomeOK(outcome[t]) BY DEF FailInv
<1>9. /\ maskGate => last' # "secret"
      /\ failGhost' \in FailGhosts
      /\ counts' = failGhost'.swallows
      /\ failGhost'.ambient = failGhost.ambient /\ failGhost'.overlap = failGhost.overlap
      /\ UNCHANGED <<strict, maskGate, saved>>
  BY DEF FailInv, FailGhosts
<1>10. active' = [active EXCEPT ![t] = held] OBVIOUS
<1>. QED BY <1>6, <1>7, <1>8, <1>9, <1>10, ThreadAlone

\* The innermost call ends; what called it goes on, or it was the last one.
LEMMA Ends ==
    ASSUME FailInv, NEW t \in FailThread, stack[t] # <<>>, ~Guarding(Last(stack[t])),
           NEW raises \in BOOLEAN, NEW text \in FailText, text # "secret",
           Last(stack[t]).op \in CriticalOp => ~raises /\ text # "none",
           Last(stack[t]).op = "sink" /\ ~raises => text # "none",
           EndCall(t, raises, text),
           maskGate => last' # "secret",
           UNCHANGED <<strict, maskGate, saved, counts, active, failGhost>>
    PROVE  FailInv'
<1>1. PICK q : q = Front(stack[t]) OBVIOUS
<1>2. /\ StackOK(stack[t], active[t], maskGate) /\ stack[t] \in Seq(FrameRecord)
      /\ active[t] \in BOOLEAN /\ active' = [active EXCEPT ![t] = active[t]]
  <2>1. active \in [FailThread -> BOOLEAN] BY DEF FailInv
  <2>. QED BY <2>1, TopIs
<1>3. failGhost' \in FailGhosts /\ counts' = failGhost'.swallows BY DEF FailInv, FailGhosts
<1>4. PICK m \in Nat : m + 1 = Len(stack[t])
  <2>1. Len(stack[t]) \in Nat /\ Len(stack[t]) > 0 BY <1>2
  <2>2. Len(stack[t]) - 1 \in Nat /\ (Len(stack[t]) - 1) + 1 = Len(stack[t]) BY <2>1
  <2>. QED BY <2>2
<1>5. /\ q \in Seq(FrameRecord) /\ Len(q) = m /\ Last(stack[t]) = stack[t][m + 1]
      /\ \A j \in 1..m : q[j] = stack[t][j]
  <2>1. Len(stack[t]) = m + 1 /\ Len(stack[t]) - 1 = m BY <1>4
  <2>2. /\ Last(stack[t]) = stack[t][Len(stack[t])]
        /\ q \in Seq(FrameRecord) /\ Len(q) = Len(stack[t]) - 1
        /\ \A j \in 1..Len(stack[t]) - 1 : q[j] = stack[t][j]
    <3>1. PICK s \in Seq(FrameRecord) : s = stack[t] BY <1>2
    <3>2. s # <<>> /\ q = Front(s) BY <1>1, <3>1
    <3>3. /\ Last(s) = s[Len(s)]
          /\ Front(s) \in Seq(FrameRecord) /\ Len(Front(s)) = Len(s) - 1
          /\ \A j \in 1..Len(s) - 1 : Front(s)[j] = s[j]
      BY ONLY s \in Seq(FrameRecord), <3>2, TopFacts
    <3>. QED BY ONLY <3>1, <3>2, <3>3
  <2>. QED BY <2>1, <2>2
<1>6. CASE q = <<>>
  <2>1. PICK o : o = [op |-> Last(stack[t]).op, raised |-> raises, text |-> text] OBVIOUS
  <2>2. stack' = [stack EXCEPT ![t] = <<>>] /\ outcome' = [outcome EXCEPT ![t] = o]
    BY <1>1, <1>6, <2>1 DEF EndCall
  <2>3. OutcomeOK(o) BY <2>1 DEF OutcomeOK
  <2>4. ~active[t]
    <3>1. m = 0 BY <1>5, <1>6
    <3>2. active[t] <=> \E j \in 1..Len(stack[t]) : Guarding(stack[t][j]) BY <1>2 DEF StackOK
    <3>3. \A j \in 1..Len(stack[t]) : j = m + 1
      <4>1. Len(stack[t]) = 1 /\ m + 1 = 1 BY <1>4, <3>1
      <4>2. \A j \in 1..1 : j = 1 OBVIOUS
      <4>. QED BY <4>1, <4>2
    <3>. QED BY <1>5, <3>2, <3>3
  <2>5. StackOK(<<>>, active[t], maskGate) BY <1>2, <2>4, Idle
  <2>. QED BY <1>2, <1>3, <2>2, <2>3, <2>5, ThreadAlone
<1>7. CASE q # <<>>
  <2>1. m > 0 BY <1>5, <1>7
  <2>2. Last(q) = stack[t][m] /\ m \in 1..Len(stack[t]) - 1 /\ m \in 1..Len(stack[t])
    <3>1. Last(q) = q[m] BY <1>5, <1>7, TopFacts
    <3>. QED BY <1>4, <1>5, <2>1, <3>1
  <2>3. Waits(Last(q), Last(stack[t])) /\ FrameOK(Last(q), maskGate)
    <3>1. Waits(stack[t][m], stack[t][m + 1]) /\ FrameOK(stack[t][m], maskGate)
      BY <1>2, <2>2 DEF StackOK
    <3>. QED BY <1>5, <2>2, <3>1
  <2>4. PICK g : g = Resume(Last(q), raises, text) OBVIOUS
  <2>5. /\ FrameOK(g, maskGate) /\ g.op = Last(q).op /\ g.pc \notin WaitingPc
        /\ Guarding(g) <=> Guarding(Last(q))
    BY <2>3, <2>4, Resumes
  <2>6. PICK s : s = Append(Front(q), g) OBVIOUS
  <2>7. StackOK(s, active[t], maskGate) BY <1>1, <1>2, <1>7, <2>5, <2>6, TopEnds
  <2>8. stack' = [stack EXCEPT ![t] = s] /\ UNCHANGED outcome
    BY <1>1, <1>7, <2>4, <2>6 DEF EndCall
  <2>9. outcome' = [outcome EXCEPT ![t] = outcome[t]] /\ OutcomeOK(outcome[t]) BY <2>8 DEF FailInv
  <2>. QED BY <1>2, <1>3, <2>7, <2>8, <2>9, ThreadAlone
<1>. QED BY <1>6, <1>7

LEMMA StartsOK ==
    ASSUME NEW op \in FailOp, NEW value \in FailValue, NEW gate
    PROVE  FrameOK(Frame(op, value), gate) /\ Frame(op, value).pc = "start" /\ Frame(op, value).op = op
<1>1. "start" \in PcOf(op) BY DEF PcOf
<1>2. Frame(op, value) \in FrameRecord BY <1>1 DEF Frame, FrameRecord, FailText
<1>. QED BY <1>1, <1>2 DEF FrameOK, Frame

LEMMA CallFromStep == ASSUME FailInv, NEW t \in FailThread, CallFrom(t) PROVE FailInv'
<1>1. PICK op \in FailOp, value \in FailValue : stack' = [stack EXCEPT ![t] = <<Frame(op, value)>>]
  BY DEF CallFrom, FailOp, CriticalOp
<1>2. PICK s : s = <<Frame(op, value)>> OBVIOUS
<1>3. StackOK(s, FALSE, maskGate) BY <1>2, StartsOK, FirstCall
<1>4. ~active[t] /\ active \in [FailThread -> BOOLEAN]
  <2>1. active \in [FailThread -> BOOLEAN] /\ StackOK(<<>>, active[t], maskGate) BY DEF FailInv, CallFrom
  <2>. QED BY <2>1, Idle
<1>5. active' = [active EXCEPT ![t] = FALSE] BY <1>4 DEF CallFrom
<1>6. /\ failGhost' \in FailGhosts /\ failGhost'.ambient = failGhost.ambient
      /\ failGhost'.overlap = failGhost.overlap /\ counts' = failGhost'.swallows
  <2>1. failGhost \in FailGhosts /\ counts = failGhost.swallows BY DEF FailInv
  <2>2. failGhost' = [failGhost EXCEPT !.calls = failGhost.calls + 1] BY DEF CallFrom
  <2>3. failGhost' \in FailGhosts BY <2>1, <2>2 DEF FailGhosts
  <2>4. /\ failGhost'.ambient = failGhost.ambient /\ failGhost'.overlap = failGhost.overlap
        /\ failGhost'.swallows = failGhost.swallows
    BY <2>1, <2>2 DEF FailGhosts
  <2>5. counts' = counts BY DEF CallFrom
  <2>. QED BY <2>1, <2>3, <2>4, <2>5
<1>7. OutcomeOK(NoOutcome) BY DEF OutcomeOK, NoOutcome, CriticalOp
<1>8. maskGate => last' # "secret" BY DEF FailInv, CallFrom
<1>9. stack' = [stack EXCEPT ![t] = s] BY <1>1, <1>2
<1>. QED BY <1>3, <1>5, <1>6, <1>7, <1>8, <1>9, ThreadAlone DEF CallFrom

LEMMA ReturnFromStep == ASSUME FailInv, NEW t \in FailThread, ReturnFrom(t) PROVE FailInv'
<1>1. PICK f : f = Last(stack[t]) OBVIOUS
<1>2. PICK raises \in BOOLEAN : raises = (f.pc = "raise") OBVIOUS
<1>3. /\ stack[t] # <<>> /\ f.pc \in {"return", "raise"} /\ f.pc \in PcOf(f.op) /\ f.op \in FailOp
      /\ f.text \in FailText /\ FrameOK(f, maskGate) /\ EndCall(t, raises, f.text)
  BY <1>1, <1>2, TopIs DEF ReturnFrom
<1>4. f.op # "swallowed" /\ (f.op \in CriticalOp => f.pc = "return")
  BY <1>3 DEF PcOf, MaskingPc, CriticalOp
<1>5. f.text # "secret" /\ (f.op \in CriticalOp => f.text # "none") BY <1>3, <1>4 DEF FrameOK
<1>6. f.op = "sink" /\ ~raises => f.text # "none" BY <1>2, <1>3 DEF FrameOK
<1>7. ~Guarding(f) BY <1>3 DEF Guarding, MaskingPc
<1>8. f.op \in CriticalOp => ~raises BY <1>2, <1>4
<1>9. maskGate => last' # "secret" BY DEF FailInv, ReturnFrom
<1>. QED BY <1>1, <1>3, <1>5, <1>6, <1>7, <1>8, <1>9, Ends DEF ReturnFrom

LEMMA CountStep == ASSUME FailInv, NEW t \in FailThread, Count(t) PROVE FailInv'
<1>1. PICK f : f = [Last(stack[t]) EXCEPT !.pc = "strict"] OBVIOUS
<1>2. /\ stack[t] # <<>> /\ Last(stack[t]) \in FrameRecord /\ FrameOK(Last(stack[t]), maskGate)
      /\ Last(stack[t]).op = "swallowed" /\ Last(stack[t]).pc = "start" /\ active[t] \in BOOLEAN
  BY TopIs DEF Count, InCall
<1>3. f.op = "swallowed" /\ f.pc = "strict" /\ f.text = Last(stack[t]).text /\ f \in FrameRecord
  <2>1. "strict" \in PcOf("swallowed") /\ "swallowed" \in FailOp BY DEF PcOf, FailOp
  <2>. QED BY <1>1, <1>2, <2>1 DEF FrameRecord
<1>4. FrameOK(f, maskGate) BY <1>2, <1>3 DEF FrameOK, PcOf, CriticalOp, MaskingPc
<1>5. GuardMoves(Last(stack[t]), f, active[t], active[t]) BY <1>2, <1>3 DEF GuardMoves, Guarding, MaskingPc
<1>6. active' = [active EXCEPT ![t] = active[t]] /\ stack' = Moved(t, f)
  BY <1>1 DEF FailInv, Count, Step
<1>7. /\ failGhost' \in FailGhosts /\ failGhost'.ambient = failGhost.ambient
      /\ failGhost'.overlap = failGhost.overlap /\ counts' = failGhost'.swallows
  <2>1. failGhost \in FailGhosts /\ counts = failGhost.swallows BY DEF FailInv
  <2>2. failGhost' = [failGhost EXCEPT !.swallows = failGhost.swallows + 1] BY DEF Count
  <2>3. failGhost' \in FailGhosts BY <2>1, <2>2 DEF FailGhosts
  <2>4. /\ failGhost'.ambient = failGhost.ambient /\ failGhost'.overlap = failGhost.overlap
        /\ failGhost'.swallows = failGhost.swallows + 1
    BY <2>1, <2>2 DEF FailGhosts
  <2>5. counts' = counts + 1 BY DEF Count
  <2>. QED BY <2>1, <2>3, <2>4, <2>5
<1>8. maskGate => last' # "secret" BY DEF FailInv, Count
<1>9. f.pc \notin WaitingPc BY <1>3 DEF WaitingPc
<1>. QED BY <1>2, <1>3, <1>4, <1>5, <1>6, <1>7, <1>8, <1>9, Goes DEF Count

LEMMA StrictRaisesStep == ASSUME FailInv, NEW t \in FailThread, StrictRaises(t) PROVE FailInv'
<1>1. Last(stack[t]).op = "swallowed" /\ Last(stack[t]).pc = "strict" /\ stack[t] # <<>>
  BY DEF StrictRaises, InCall
<1>2. ~Guarding(Last(stack[t])) BY <1>1 DEF Guarding, MaskingPc
<1>3. "none" \in FailText /\ "none" # "secret" /\ TRUE \in BOOLEAN BY DEF FailText
<1>4. Last(stack[t]).op \notin CriticalOp /\ Last(stack[t]).op # "sink" BY <1>1 DEF CriticalOp
<1>5. maskGate => last' # "secret" BY DEF FailInv, StrictRaises
<1>. QED BY <1>1, <1>2, <1>3, <1>4, <1>5, Ends DEF StrictRaises

LEMMA StoreStep == ASSUME FailInv, NEW t \in FailThread, Store(t) PROVE FailInv'
<1>1. /\ Last(stack[t]).op = "swallowed" /\ Last(stack[t]).pc = "store" /\ stack[t] # <<>>
      /\ FrameOK(Last(stack[t]), maskGate)
  BY TopIs DEF Store, InCall
<1>2. ~Guarding(Last(stack[t])) BY <1>1 DEF Guarding, MaskingPc
<1>3. "none" \in FailText /\ "none" # "secret" /\ FALSE \in BOOLEAN BY DEF FailText
<1>4. ~(Last(stack[t]).op \in CriticalOp) /\ Last(stack[t]).op # "sink" BY <1>1 DEF CriticalOp
<1>5. maskGate => last' # "secret" BY <1>1 DEF Store, FrameOK
<1>. QED BY <1>1, <1>2, <1>3, <1>4, <1>5, Ends DEF Store

LEMMA TakeTextStep == ASSUME FailInv, NEW t \in FailThread, TakeText(t) PROVE FailInv'
<1>1. PICK top : top = Last(stack[t]) OBVIOUS
<1>2. /\ stack[t] # <<>> /\ top \in FrameRecord /\ FrameOK(top, maskGate) /\ top.value \in FailValue
      /\ top.op = "swallowed" /\ top.pc = "strict" /\ active[t] \in BOOLEAN
  BY <1>1, TopIs DEF TakeText, InCall
<1>3. PICK raw \in FailValue : raw = IF top.value = "hostile" THEN "plain" ELSE top.value
  BY <1>2 DEF FailValue
<1>4. active = [active EXCEPT ![t] = active[t]] BY DEF FailInv
<1>5. /\ failGhost' \in FailGhosts /\ failGhost'.ambient = failGhost.ambient
      /\ failGhost'.overlap = failGhost.overlap /\ counts' = failGhost'.swallows
      /\ UNCHANGED <<strict, maskGate, saved, outcome>>
  BY DEF FailInv, FailGhosts, TakeText
<1>6. maskGate => last' # "secret" BY DEF FailInv, TakeText
<1>7. ~Guarding(top) BY <1>2 DEF Guarding, MaskingPc
<1>8. ASSUME NEW text \in FailText, maskGate => text # "secret",
             stack' = StepWith(t, "store", text), UNCHANGED active
      PROVE  FailInv'
  <2>1. PICK f : f = [top EXCEPT !.pc = "store", !.text = text] OBVIOUS
  <2>2. f \in FrameRecord /\ f.op = "swallowed" /\ f.pc = "store" /\ f.text = text
    <3>1. "store" \in PcOf("swallowed") /\ "swallowed" \in FailOp BY DEF PcOf, FailOp
    <3>. QED BY <1>2, <1>8, <2>1, <3>1 DEF FrameRecord
  <2>3. FrameOK(f, maskGate) BY <1>8, <2>2 DEF FrameOK, PcOf, CriticalOp, MaskingPc
  <2>4. GuardMoves(top, f, active[t], active[t]) BY <1>7, <2>2 DEF GuardMoves, Guarding, MaskingPc
  <2>5. stack' = Moved(t, f) BY <1>1, <1>8, <2>1 DEF StepWith
  <2>6. f.pc \notin WaitingPc BY <2>2 DEF WaitingPc
  <2>7. active' = [active EXCEPT ![t] = active[t]] BY <1>4, <1>8
  <2>. QED BY <1>1, <1>2, <1>5, <1>6, <2>2, <2>3, <2>4, <2>5, <2>6, <2>7, Goes
<1>9. CASE ~maskGate
  <2>1. PICK text : text = IF raw = "huge" THEN "secret" ELSE raw OBVIOUS
  <2>2. text \in FailText BY <1>2, <1>3, <2>1 DEF FailValue, FailText
  <2>3. stack' = StepWith(t, "store", text) /\ UNCHANGED active
    BY <1>1, <1>3, <1>9, <2>1 DEF TakeText
  <2>. QED BY <1>8, <1>9, <2>2, <2>3
<1>10. CASE maskGate /\ (active[t] \/ raw = "huge")
  <2>1. stack' = StepWith(t, "store", "withheld") /\ UNCHANGED active
    BY <1>1, <1>3, <1>10 DEF TakeText
  <2>2. "withheld" \in FailText BY DEF FailText
  <2>. QED BY <1>8, <2>1, <2>2
<1>11. CASE maskGate /\ ~active[t] /\ raw # "huge"
  <2>1. PICK f : f = [top EXCEPT !.pc = "masking", !.value = raw] OBVIOUS
  <2>2. stack' = Moved(t, f) /\ active' = [active EXCEPT ![t] = TRUE]
    BY <1>1, <1>3, <1>11, <2>1 DEF TakeText
  <2>3. f \in FrameRecord /\ f.op = "swallowed" /\ f.pc = "masking" /\ f.text = top.text
    <3>1. "masking" \in PcOf("swallowed") /\ "swallowed" \in FailOp BY DEF PcOf, FailOp, MaskingPc
    <3>. QED BY <1>2, <2>1, <3>1 DEF FrameRecord
  <2>4. top.text # "secret" BY <1>2, <1>11 DEF FrameOK
  <2>5. FrameOK(f, maskGate) BY <2>3, <2>4 DEF FrameOK, PcOf, CriticalOp, MaskingPc
  <2>6. GuardMoves(top, f, active[t], TRUE) BY <1>7, <1>11, <2>3 DEF GuardMoves, Guarding, MaskingPc
  <2>7. f.pc \notin WaitingPc BY <2>3 DEF WaitingPc
  <2>. QED BY <1>1, <1>2, <1>5, <1>6, <2>2, <2>3, <2>5, <2>6, <2>7, Goes
<1>. QED BY <1>9, <1>10, <1>11

\* The masker of the innermost call is done, whatever with.
LEMMA Masked ==
    ASSUME FailInv, NEW t \in FailThread, InCall(t, {"swallowed", "sink", "artifact"}, "masking"),
           NEW pc \in {"masked", "maskFailed"}, NEW text \in FailText \ {"none", "secret"},
           stack' = StepWith(t, pc, text),
           UNCHANGED <<strict, maskGate, counts, last, active, saved, outcome, failGhost>>
    PROVE  FailInv'
<1>1. PICK top : top = Last(stack[t]) OBVIOUS
<1>2. /\ stack[t] # <<>> /\ top \in FrameRecord /\ FrameOK(top, maskGate)
      /\ top.op \in {"swallowed", "sink", "artifact"} /\ top.pc = "masking" /\ active[t] \in BOOLEAN
  BY <1>1, TopIs DEF InCall
<1>3. PICK f : f = [top EXCEPT !.pc = pc, !.text = text] OBVIOUS
<1>4. pc \in PcOf(top.op) /\ top.op \in FailOp BY <1>2 DEF PcOf, MaskingPc, FailOp
<1>5. f \in FrameRecord /\ f.op = top.op /\ f.pc = pc /\ f.text = text
  BY <1>2, <1>3, <1>4 DEF FrameRecord
<1>6. FrameOK(f, maskGate) BY <1>2, <1>4, <1>5 DEF FrameOK, CriticalOp
<1>7. GuardMoves(top, f, active[t], active[t]) BY <1>2, <1>5 DEF GuardMoves, Guarding, MaskingPc
<1>8. stack' = Moved(t, f) BY <1>1, <1>3 DEF StepWith
<1>9. active' = [active EXCEPT ![t] = active[t]] BY DEF FailInv
<1>10. /\ failGhost' \in FailGhosts /\ failGhost'.ambient = failGhost.ambient
       /\ failGhost'.overlap = failGhost.overlap /\ counts' = failGhost'.swallows
       /\ UNCHANGED <<strict, maskGate, saved, outcome>>
  BY DEF FailInv, FailGhosts
<1>11. maskGate => last' # "secret" BY DEF FailInv
<1>12. f.pc \notin WaitingPc BY <1>5 DEF WaitingPc
<1>. QED BY <1>1, <1>2, <1>5, <1>6, <1>7, <1>8, <1>9, <1>10, <1>11, <1>12, Goes

LEMMA MasksStep == ASSUME FailInv, NEW t \in FailThread, Masks(t) PROVE FailInv'
<1>1. MaskOf(Last(stack[t]).value) \in FailText \ {"none", "secret"} BY DEF MaskOf, FailText
<1>. QED BY <1>1, Masked DEF Masks

LEMMA MaskBreaksStep == ASSUME FailInv, NEW t \in FailThread, MaskBreaks(t) PROVE FailInv'
<1>1. "withheld" \in FailText \ {"none", "secret"} BY DEF FailText
<1>. QED BY <1>1, Masked DEF MaskBreaks

LEMMA MaskSwallowsStep == ASSUME FailInv, NEW t \in FailThread, MaskSwallows(t) PROVE FailInv'
<1>1. PICK top : top = Last(stack[t]) OBVIOUS
<1>2. /\ stack[t] # <<>> /\ top \in FrameRecord /\ StackOK(stack[t], active[t], maskGate)
      /\ top.op \in {"swallowed", "sink", "artifact"} /\ top.pc = "masking" /\ active[t] \in BOOLEAN
  BY <1>1, TopIs DEF MaskSwallows, InCall
<1>3. PICK g : g = Frame("swallowed", "secret") OBVIOUS
<1>4. FrameOK(g, maskGate) /\ g.pc = "start" /\ g.op = "swallowed"
  <2>1. "swallowed" \in FailOp /\ "secret" \in FailValue BY DEF FailOp, FailValue
  <2>. QED BY <1>3, <2>1, StartsOK
<1>5. PICK f : f = [top EXCEPT !.pc = "masking"] OBVIOUS
<1>6. f.pc = "masking" /\ f.op = top.op BY <1>2, <1>5 DEF FrameRecord
<1>7. Waits(f, g) /\ (Guarding(f) <=> Guarding(top)) BY <1>2, <1>4, <1>6 DEF Waits, Guarding
<1>8. active[t] => Guarding(top)
  <2>1. CASE top.op = "swallowed" BY <1>2, <2>1 DEF Guarding, MaskingPc
  <2>2. CASE top.op # "swallowed" BY <1>1, <1>2, <2>2, GuardOfTop
  <2>. QED BY <2>1, <2>2
<1>9. "masking" \in PcOf(top.op) /\ top.pc \in MaskingPc /\ "masking" \notin {"masked", "return"}
  BY <1>2 DEF PcOf, MaskingPc
<1>10. active' = [active EXCEPT ![t] = active[t]] /\ stack' = Enters(t, "masking", g)
  BY <1>3 DEF FailInv, MaskSwallows
<1>11. UNCHANGED <<strict, maskGate, saved, outcome, counts, last, failGhost>> BY DEF MaskSwallows
<1>. QED BY <1>1, <1>2, <1>4, <1>5, <1>7, <1>8, <1>9, <1>10, <1>11, GoesUnder

LEMMA AfterMaskStep == ASSUME FailInv, NEW t \in FailThread, AfterMask(t) PROVE FailInv'
<1>1. PICK top : top = Last(stack[t]) OBVIOUS
<1>2. /\ stack[t] # <<>> /\ top \in FrameRecord /\ StackOK(stack[t], active[t], maskGate)
      /\ FrameOK(top, maskGate) /\ active[t] \in BOOLEAN /\ active \in [FailThread -> BOOLEAN]
      /\ top.pc \in {"masked", "maskFailed"} /\ top.op \in FailOp /\ top.pc \in PcOf(top.op)
  BY <1>1, TopIs DEF AfterMask, FailInv
<1>3. top.op \in {"swallowed", "sink", "artifact"} BY <1>2 DEF PcOf, FailOp, CriticalOp
<1>4. UNCHANGED <<strict, maskGate, saved, outcome, counts, last, failGhost>> BY DEF AfterMask
<1>5. /\ failGhost' \in FailGhosts /\ failGhost'.ambient = failGhost.ambient
      /\ failGhost'.overlap = failGhost.overlap /\ counts' = failGhost'.swallows
  BY <1>4 DEF FailInv, FailGhosts
<1>6. maskGate => last' # "secret" BY <1>4 DEF FailInv
<1>7. Guarding(top) <=> top.op # "artifact" BY <1>2, <1>3 DEF Guarding, MaskingPc
<1>8. top.text # "secret" BY <1>2 DEF FrameOK, MaskingPc
<1>9. ASSUME NEW pc \in PcOf(top.op), pc \notin WaitingPc \cup MaskingPc, stack' = Step(t, pc),
             NEW held \in BOOLEAN, active' = [active EXCEPT ![t] = held],
             IF top.op = "artifact" THEN held = active[t] ELSE ~held,
             top.op = "sink" /\ pc = "return" => top.text # "none"
      PROVE  FailInv'
  <2>1. PICK f : f = [top EXCEPT !.pc = pc] OBVIOUS
  <2>2. f \in FrameRecord /\ f.op = top.op /\ f.pc = pc /\ f.text = top.text
    BY <1>2, <1>9, <2>1 DEF FrameRecord
  <2>3. FrameOK(f, maskGate) BY <1>3, <1>8, <1>9, <2>2 DEF FrameOK, CriticalOp, MaskingPc
  <2>4. GuardMoves(top, f, active[t], held) BY <1>7, <1>9, <2>2 DEF GuardMoves, Guarding
  <2>5. stack' = Moved(t, f) BY <1>1, <1>9, <2>1 DEF Step
  <2>6. f.pc \notin WaitingPc BY <1>9, <2>2
  <2>7. active' = [active EXCEPT ![t] = held] BY <1>9
  <2>. QED BY <1>1, <1>2, <1>4, <1>5, <1>6, <2>2, <2>3, <2>4, <2>5, <2>6, <2>7, Goes
<1>10. CASE top.op = "swallowed"
  <2>1. stack' = Step(t, "store") /\ active' = [active EXCEPT ![t] = FALSE]
    BY <1>1, <1>10 DEF AfterMask
  <2>2. "store" \in PcOf(top.op) /\ "store" \notin WaitingPc \cup MaskingPc
    BY <1>10 DEF PcOf, WaitingPc, MaskingPc
  <2>. QED BY <1>9, <1>10, <2>1, <2>2
<1>11. CASE top.op = "sink" /\ top.pc = "masked"
  <2>1. stack' = Step(t, "return") /\ active' = [active EXCEPT ![t] = FALSE]
    BY <1>1, <1>11 DEF AfterMask
  <2>2. "return" \in PcOf(top.op) /\ "return" \notin WaitingPc \cup MaskingPc
    BY <1>11 DEF PcOf, WaitingPc, MaskingPc
  <2>3. top.text # "none" BY <1>2, <1>11 DEF FrameOK
  <2>. QED BY <1>9, <1>11, <2>1, <2>2, <2>3
<1>12. CASE top.op = "sink" /\ top.pc = "maskFailed"
  <2>1. PICK g : g = Frame("swallowed", "plain") OBVIOUS
  <2>2. stack' = Enters(t, "unmasked", g) /\ active' = [active EXCEPT ![t] = FALSE]
    BY <1>1, <1>12, <2>1 DEF AfterMask
  <2>3. FrameOK(g, maskGate) /\ g.pc = "start" /\ g.op = "swallowed"
    <3>1. "swallowed" \in FailOp /\ "plain" \in FailValue BY DEF FailOp, FailValue
    <3>. QED BY <2>1, <3>1, StartsOK
  <2>4. PICK f : f = [top EXCEPT !.pc = "unmasked"] OBVIOUS
  <2>5. f.pc = "unmasked" /\ f.op = "sink" BY <1>2, <1>12, <2>4 DEF FrameRecord
  <2>6. Waits(f, g) /\ ~Guarding(f) BY <2>3, <2>5 DEF Waits, Guarding, MaskingPc
  <2>7. "unmasked" \in PcOf(top.op) /\ "unmasked" \notin {"masked", "return"} /\ "unmasked" \notin MaskingPc
    BY <1>12 DEF PcOf, MaskingPc
  <2>8. Guarding(top) BY <1>7, <1>12
  <2>. QED BY <1>1, <1>2, <1>4, <2>2, <2>3, <2>4, <2>6, <2>7, <2>8, GoesUnder
<1>13. CASE top.op = "artifact"
  <2>1. PICK pc : pc = IF top.pc = "masked" /\ top.text = top.value THEN "return" ELSE "raise" OBVIOUS
  <2>2. stack' = Step(t, pc) /\ active' = [active EXCEPT ![t] = active[t]]
    BY <1>1, <1>2, <1>13, <2>1 DEF AfterMask
  <2>3. pc \in PcOf(top.op) /\ pc \notin WaitingPc \cup MaskingPc
    BY <1>13, <2>1 DEF PcOf, WaitingPc, MaskingPc
  <2>. QED BY <1>2, <1>9, <1>13, <2>2, <2>3
<1>. QED BY <1>2, <1>3, <1>10, <1>11, <1>12, <1>13

LEMMA StartSinkStep == ASSUME FailInv, NEW t \in FailThread, StartSink(t) PROVE FailInv'
<1>1. PICK top : top = Last(stack[t]) OBVIOUS
<1>2. /\ stack[t] # <<>> /\ top \in FrameRecord /\ StackOK(stack[t], active[t], maskGate)
      /\ FrameOK(top, maskGate) /\ active[t] \in BOOLEAN /\ active \in [FailThread -> BOOLEAN]
      /\ top.op = "sink" /\ top.pc = "start" /\ top.text # "secret"
  <2>1. top.op = "sink" /\ top.pc = "start" /\ stack[t] # <<>> BY <1>1 DEF StartSink, InCall
  <2>2. FrameOK(top, maskGate) BY <1>1, <2>1, TopIs
  <2>. QED BY <1>1, <2>1, <2>2, TopIs DEF FailInv, FrameOK
<1>3. UNCHANGED <<strict, maskGate, saved, outcome, counts, last, failGhost>> BY DEF StartSink
<1>4. /\ failGhost' \in FailGhosts /\ failGhost'.ambient = failGhost.ambient
      /\ failGhost'.overlap = failGhost.overlap /\ counts' = failGhost'.swallows
  BY <1>3 DEF FailInv, FailGhosts
<1>5. maskGate => last' # "secret" BY <1>3 DEF FailInv
<1>6. ~Guarding(top) /\ ~active[t]
  <2>1. ~Guarding(top) BY <1>2 DEF Guarding, MaskingPc
  <2>2. active[t] <=> Guarding(top) BY <1>1, <1>2, GuardOfTop
  <2>. QED BY <2>1, <2>2
<1>7. CASE top.value = "hostile"
  <2>1. PICK g : g = Frame("swallowed", "plain") OBVIOUS
  <2>2. stack' = Enters(t, "opaque", g) /\ active' = [active EXCEPT ![t] = active[t]]
    BY <1>1, <1>2, <1>7, <2>1 DEF StartSink
  <2>3. FrameOK(g, maskGate) /\ g.pc = "start" /\ g.op = "swallowed"
    <3>1. "swallowed" \in FailOp /\ "plain" \in FailValue BY DEF FailOp, FailValue
    <3>. QED BY <2>1, <3>1, StartsOK
  <2>4. PICK f : f = [top EXCEPT !.pc = "opaque"] OBVIOUS
  <2>5. f.pc = "opaque" /\ f.op = "sink" BY <1>2, <2>4 DEF FrameRecord
  <2>6. Waits(f, g) /\ ~Guarding(f) BY <2>3, <2>5 DEF Waits, Guarding, MaskingPc
  <2>7. "opaque" \in PcOf(top.op) /\ "opaque" \notin {"masked", "return"} /\ "opaque" \notin MaskingPc
    BY <1>2 DEF PcOf, MaskingPc
  <2>. QED BY <1>1, <1>2, <1>3, <1>6, <2>2, <2>3, <2>4, <2>6, <2>7, GoesUnder
<1>8. CASE top.value = "huge"
  <2>1. PICK f : f = [top EXCEPT !.pc = "return", !.text = "withheld"] OBVIOUS
  <2>2. f \in FrameRecord /\ f.op = "sink" /\ f.pc = "return" /\ f.text = "withheld"
    <3>1. "return" \in PcOf("sink") /\ "sink" \in FailOp /\ "withheld" \in FailText
      BY DEF PcOf, FailOp, FailText
    <3>. QED BY <1>2, <2>1, <3>1 DEF FrameRecord
  <2>3. FrameOK(f, maskGate) BY <2>2 DEF FrameOK, PcOf, CriticalOp
  <2>4. GuardMoves(top, f, active[t], active[t]) BY <1>6, <2>2 DEF GuardMoves, Guarding, MaskingPc
  <2>5. stack' = Moved(t, f) /\ active' = [active EXCEPT ![t] = active[t]]
    BY <1>1, <1>2, <1>8, <2>1 DEF StartSink, StepWith
  <2>6. f.pc \notin WaitingPc BY <2>2 DEF WaitingPc
  <2>. QED BY <1>1, <1>2, <1>3, <1>4, <1>5, <2>2, <2>3, <2>4, <2>5, <2>6, Goes
<1>9. CASE top.value \notin {"hostile", "huge"}
  <2>1. PICK f : f = [top EXCEPT !.pc = "masking"] OBVIOUS
  <2>2. f \in FrameRecord /\ f.op = "sink" /\ f.pc = "masking" /\ f.text = top.text
    <3>1. "masking" \in PcOf("sink") /\ "sink" \in FailOp BY DEF PcOf, FailOp, MaskingPc
    <3>. QED BY <1>2, <2>1, <3>1 DEF FrameRecord
  <2>3. FrameOK(f, maskGate) BY <1>2, <2>2 DEF FrameOK, PcOf, CriticalOp, MaskingPc
  <2>4. GuardMoves(top, f, active[t], TRUE) BY <1>6, <2>2 DEF GuardMoves, Guarding, MaskingPc
  <2>5. stack' = Moved(t, f) /\ active' = [active EXCEPT ![t] = TRUE]
    BY <1>1, <1>6, <1>9, <2>1 DEF StartSink, Step
  <2>6. f.pc \notin WaitingPc BY <2>2 DEF WaitingPc
  <2>. QED BY <1>1, <1>2, <1>3, <1>4, <1>5, <2>2, <2>3, <2>4, <2>5, <2>6, Goes
<1>. QED BY <1>7, <1>8, <1>9

LEMMA StartCriticalStep == ASSUME FailInv, NEW t \in FailThread, StartCritical(t) PROVE FailInv'
<1>1. PICK top : top = Last(stack[t]) OBVIOUS
<1>2. /\ stack[t] # <<>> /\ top \in FrameRecord /\ StackOK(stack[t], active[t], maskGate)
      /\ active[t] \in BOOLEAN /\ active = [active EXCEPT ![t] = active[t]]
      /\ top.op \in CriticalOp /\ top.pc = "start" /\ top.value \in FailValue
  <2>1. top.op \in CriticalOp /\ top.pc = "start" /\ stack[t] # <<>>
    BY <1>1 DEF StartCritical, InCall, CriticalOp
  <2>. QED BY <1>1, <2>1, TopIs DEF FailInv
<1>3. /\ UNCHANGED <<strict, maskGate, saved, outcome, counts, last, failGhost>>
      /\ active' = [active EXCEPT ![t] = active[t]]
  BY <1>2 DEF StartCritical
<1>4. ~Guarding(top) /\ ~active[t]
  <2>1. ~Guarding(top) BY <1>2 DEF Guarding, MaskingPc
  <2>2. top.op # "swallowed" BY <1>2 DEF CriticalOp
  <2>3. active[t] <=> Guarding(top) BY <1>1, <1>2, <2>2, GuardOfTop
  <2>. QED BY <2>1, <2>3
<1>5. ASSUME NEW pc \in {"opaque", "formatting"}, NEW f, f = [top EXCEPT !.pc = pc],
             NEW op \in {"swallowed", "sink"}, NEW value \in FailValue, NEW g, g = Frame(op, value),
             stack' = Enters(t, pc, g),
             \/ pc = "opaque" /\ op = "swallowed" /\ top.op \in {"critical", "record"}
             \/ pc = "formatting" /\ op = "sink" /\ top.op \in {"critical", "criticalText"}
      PROVE  FailInv'
  <2>1. f.pc = pc /\ f.op = top.op BY <1>2, <1>5 DEF FrameRecord
  <2>2. FrameOK(g, maskGate) /\ g.pc = "start" /\ g.op = op
    <3>1. op \in FailOp BY DEF FailOp
    <3>. QED BY <1>5, <3>1, StartsOK
  <2>3. Waits(f, g) /\ ~Guarding(f) BY <1>5, <2>1, <2>2 DEF Waits, Guarding, MaskingPc
  <2>4. pc \in PcOf(top.op) /\ pc \notin {"masked", "return"} /\ pc \notin MaskingPc
    BY <1>2 DEF PcOf, MaskingPc, CriticalOp
  <2>. QED BY <1>1, <1>2, <1>3, <1>4, <1>5, <2>2, <2>3, <2>4, GoesUnder
<1>6. CASE top.op = "record" \/ (top.op = "critical" /\ top.value = "hostile")
  <2>1. PICK f : f = [top EXCEPT !.pc = "opaque"] OBVIOUS
  <2>2. PICK g : g = Frame("swallowed", "plain") OBVIOUS
  <2>3. stack' = Enters(t, "opaque", g) BY <1>1, <1>6, <2>2 DEF StartCritical
  <2>4. "plain" \in FailValue BY DEF FailValue
  <2>. QED BY <1>5, <1>6, <2>1, <2>2, <2>3, <2>4
<1>7. CASE ~(top.op = "record" \/ (top.op = "critical" /\ top.value = "hostile"))
  <2>1. PICK f : f = [top EXCEPT !.pc = "formatting"] OBVIOUS
  <2>2. PICK g : g = Frame("sink", top.value) OBVIOUS
  <2>3. stack' = Enters(t, "formatting", g) BY <1>1, <1>7, <2>2 DEF StartCritical
  <2>4. top.op \in {"critical", "criticalText"} BY <1>2, <1>7 DEF CriticalOp
  <2>. QED BY <1>2, <1>5, <2>1, <2>2, <2>3, <2>4
<1>. QED BY <1>6, <1>7

LEMMA StartArtifactStep == ASSUME FailInv, NEW t \in FailThread, StartArtifact(t) PROVE FailInv'
<1>1. PICK top : top = Last(stack[t]) OBVIOUS
<1>2. /\ stack[t] # <<>> /\ top \in FrameRecord /\ FrameOK(top, maskGate) /\ active[t] \in BOOLEAN
      /\ top.op = "artifact" /\ top.pc = "start"
  BY <1>1, TopIs DEF StartArtifact, InCall
<1>3. PICK pc : pc = IF top.value \in {"hostile", "huge"} THEN "raise" ELSE "masking" OBVIOUS
<1>4. PICK f : f = [top EXCEPT !.pc = pc] OBVIOUS
<1>5. f \in FrameRecord /\ f.op = "artifact" /\ f.pc = pc /\ f.text = top.text
  <2>1. pc \in PcOf("artifact") /\ "artifact" \in FailOp BY <1>3 DEF PcOf, FailOp, MaskingPc
  <2>. QED BY <1>2, <1>4, <2>1 DEF FrameRecord
<1>6. FrameOK(f, maskGate)
  <2>1. top.text # "secret" BY <1>2 DEF FrameOK
  <2>. QED BY <1>3, <1>5, <2>1 DEF FrameOK, PcOf, CriticalOp, MaskingPc
<1>7. GuardMoves(top, f, active[t], active[t]) BY <1>2, <1>5 DEF GuardMoves, Guarding
<1>8. stack' = Moved(t, f) /\ active' = [active EXCEPT ![t] = active[t]]
  BY <1>1, <1>3, <1>4 DEF StartArtifact, Step, FailInv
<1>9. f.pc \notin WaitingPc BY <1>3, <1>5 DEF WaitingPc
<1>10. /\ failGhost' \in FailGhosts /\ failGhost'.ambient = failGhost.ambient
       /\ failGhost'.overlap = failGhost.overlap /\ counts' = failGhost'.swallows
       /\ UNCHANGED <<strict, maskGate, saved, outcome>>
  BY DEF FailInv, FailGhosts, StartArtifact
<1>11. maskGate => last' # "secret" BY DEF FailInv, StartArtifact
<1>. QED BY <1>1, <1>2, <1>5, <1>6, <1>7, <1>8, <1>9, <1>10, <1>11, Goes

LEMMA EnterScopeStep == ASSUME FailInv, NEW t \in FailThread, EnterScope(t) PROVE FailInv'
<1>1. failGhost \in FailGhosts /\ counts = failGhost.swallows /\ strict \in BOOLEAN
  BY DEF FailInv
<1>2. PICK lap : lap = (failGhost.overlap \/ \E u \in FailThread : saved[u] # "none") OBVIOUS
<1>3. failGhost' = [failGhost EXCEPT !.scopes = failGhost.scopes + 1, !.overlap = lap]
  BY <1>2 DEF EnterScope
<1>4. lap \in BOOLEAN BY <1>1, <1>2 DEF FailGhosts
<1>5. /\ failGhost' \in FailGhosts /\ failGhost'.ambient = failGhost.ambient
      /\ failGhost'.overlap = lap /\ failGhost'.swallows = failGhost.swallows
  <2>1. PICK k : k = failGhost.scopes + 1 OBVIOUS
  <2>2. k \in Nat BY <1>1, <2>1 DEF FailGhosts
  <2>3. failGhost' = [failGhost EXCEPT !.scopes = k, !.overlap = lap] BY <1>3, <2>1
  <2>4. failGhost' \in FailGhosts BY <1>1, <1>4, <2>2, <2>3 DEF FailGhosts
  <2>5. /\ failGhost'.ambient = failGhost.ambient
        /\ failGhost'.overlap = lap /\ failGhost'.swallows = failGhost.swallows
    BY <1>1, <2>3 DEF FailGhosts
  <2>. QED BY <2>4, <2>5
<1>6. PICK was : was = IF strict THEN "true" ELSE "false" OBVIOUS
<1>7. /\ saved' \in [FailThread -> {"none", "true", "false"}] /\ saved'[t] = was
      /\ \A u \in FailThread \ {t} : saved'[u] = saved[u]
  BY <1>6 DEF EnterScope, FailInv
<1>8. ScopeOK'
  <2> SUFFICES ASSUME ~lap
               PROVE  /\ \A a, b \in FailThread : saved'[a] # "none" /\ saved'[b] # "none" => a = b
                      /\ \A a \in FailThread : saved'[a] # "none" =>
                            (saved'[a] = "true" <=> failGhost'.ambient)
                      /\ (\A a \in FailThread : saved'[a] = "none") => strict' = failGhost'.ambient
    BY <1>5 DEF ScopeOK
  <2>1. ~failGhost.overlap /\ \A u \in FailThread : saved[u] = "none" BY <1>2
  <2>2. strict = failGhost.ambient BY <2>1 DEF FailInv, ScopeOK
  <2>3. \A u \in FailThread : saved'[u] # "none" => u = t BY <1>7, <2>1
  <2>4. was # "none" /\ (was = "true" <=> strict) BY <1>6
  <2>. QED BY <1>5, <1>7, <2>2, <2>3, <2>4
<1>9. strict' \in BOOLEAN /\ UNCHANGED <<maskGate, counts, last, stack, active, outcome>>
  BY DEF EnterScope
<1>. QED BY <1>1, <1>5, <1>7, <1>8, <1>9 DEF FailInv

LEMMA ExitScopeStep == ASSUME FailInv, NEW t \in FailThread, ExitScope(t) PROVE FailInv'
<1>1. /\ saved' \in [FailThread -> {"none", "true", "false"}] /\ saved'[t] = "none"
      /\ \A u \in FailThread \ {t} : saved'[u] = saved[u]
  BY DEF ExitScope, FailInv
<1>2. PICK back \in BOOLEAN : back = (saved[t] = "true") OBVIOUS
<1>3. strict' = back /\ saved[t] # "none" BY <1>2 DEF ExitScope
<1>4. ScopeOK'
  <2> SUFFICES ASSUME ~failGhost.overlap
               PROVE  /\ \A a, b \in FailThread : saved'[a] # "none" /\ saved'[b] # "none" => a = b
                      /\ \A a \in FailThread : saved'[a] # "none" =>
                            (saved'[a] = "true" <=> failGhost.ambient)
                      /\ (\A a \in FailThread : saved'[a] = "none") => strict' = failGhost.ambient
    BY DEF ScopeOK, ExitScope
  <2>1. /\ \A a, b \in FailThread : saved[a] # "none" /\ saved[b] # "none" => a = b
        /\ saved[t] = "true" <=> failGhost.ambient
    BY <1>3 DEF FailInv, ScopeOK
  <2>2. \A u \in FailThread : saved'[u] = "none" BY <1>1, <1>3, <2>1
  <2>3. failGhost.ambient \in BOOLEAN BY DEF FailInv, FailGhosts
  <2>. QED BY <1>2, <1>3, <2>1, <2>2, <2>3
<1>5. UNCHANGED <<maskGate, counts, last, stack, active, outcome, failGhost>> BY DEF ExitScope
<1>. QED BY <1>1, <1>3, <1>4, <1>5 DEF FailInv

LEMMA FailInitOK == FailInit => FailInv
<1> SUFFICES ASSUME FailInit PROVE FailInv OBVIOUS
<1>1. failGhost \in FailGhosts /\ failGhost.ambient = strict /\ failGhost.swallows = 0
  BY DEF FailInit, FailGhosts
<1>2. /\ stack \in [FailThread -> Seq(FrameRecord)] /\ active \in [FailThread -> BOOLEAN]
      /\ saved \in [FailThread -> {"none", "true", "false"}]
      /\ outcome = [u \in FailThread |-> outcome[u]]
  BY DEF FailInit
<1>3. ASSUME NEW t \in FailThread PROVE StackOK(stack[t], active[t], maskGate) /\ OutcomeOK(outcome[t])
  <2>1. stack[t] = <<>> /\ active[t] = FALSE /\ outcome[t] = NoOutcome BY DEF FailInit
  <2>2. StackOK(<<>>, FALSE, maskGate) BY Idle
  <2>3. OutcomeOK(NoOutcome) BY DEF OutcomeOK, NoOutcome, CriticalOp
  <2>. QED BY <2>1, <2>2, <2>3
<1>4. ScopeOK BY <1>1 DEF FailInit, ScopeOK
<1>. QED BY <1>1, <1>2, <1>3, <1>4 DEF FailInit, FailInv

LEMMA FailStep == ASSUME FailInv, [FailNext]_failVars PROVE FailInv'
<1>1. CASE UNCHANGED failVars
  BY <1>1 DEF failVars, FailInv, ScopeOK
<1>2. CASE FailNext
  BY <1>2, CallFromStep, ReturnFromStep, CountStep, StrictRaisesStep, TakeTextStep, StoreStep,
     MasksStep, MaskBreaksStep, MaskSwallowsStep, AfterMaskStep, StartSinkStep,
     StartCriticalStep, StartArtifactStep, EnterScopeStep, ExitScopeStep DEF FailNext
<1>. QED BY <1>1, <1>2

LEMMA FailInvSafe == FailInv => FailuresAreToldSafely
<1> SUFFICES ASSUME FailInv PROVE FailuresAreToldSafely OBVIOUS
<1>1. ASSUME NEW t \in FailThread
      PROVE  /\ outcome[t].op \in {"critical", "criticalText", "record"} =>
                  ~outcome[t].raised /\ outcome[t].text # "none"
             /\ outcome[t].text # "secret"
             /\ stack[t] = <<>> => ~active[t]
             /\ Len(stack[t]) <= 4
  <2>1. StackOK(stack[t], active[t], maskGate) /\ OutcomeOK(outcome[t]) /\ active[t] \in BOOLEAN
    BY DEF FailInv
  <2>. QED BY <2>1, Depth, Idle DEF OutcomeOK, CriticalOp
<1>2. (~failGhost.overlap /\ \A t \in FailThread : saved[t] = "none") => strict = failGhost.ambient
  BY DEF FailInv, ScopeOK
<1>. QED BY <1>1, <1>2 DEF FailInv, FailuresAreToldSafely

\* Every critical record gets its text, no text gets out unmasked, a masker that
\* swallows ends and lets its guard go, every swallow is counted, and scopes that
\* do not overlap put strict mode back, for any number of threads, calls and
\* scopes (swallowed, the sinks, the critical records, strict_scope).
THEOREM FailuresTold == Spec => []FailuresAreToldSafely
<1>1. Init => FailInv BY FailInitOK DEF Init
<1>2. FailInv /\ [Next]_vars => FailInv'
  <2>1. [Next]_vars => [FailNext]_failVars
    BY DEF Next, WriteRows, Account, Observe, Inspect, vars, instrumentVars
  <2>. QED BY <2>1, FailStep
<1>. QED BY <1>1, <1>2, FailInvSafe, PTL DEF Spec

(***************************************************************************)
(* The compactor's cursor (PromptHistory)                                  *)
(*                                                                         *)
(* While a round is under way it answers for what its next cursor will     *)
(* pass: first what it keeps and what it drops, then what is in the        *)
(* sidecar or left out.                                                    *)
(***************************************************************************)
BatchRecord == [at : {"idle", "sidecar", "cursor"}, kept : SUBSET Event, dropped : SUBSET Event, next : Nat]

Handled(e) == rules[e] > 0 \/ e \in dropped \/ e \in overtaken

HistoryInv ==
    /\ stamp \in [Event -> Int] /\ time \in Nat \ {0} /\ cursor \in Nat /\ blind \in Nat
    /\ rules \in [Event -> Nat] /\ batch \in BatchRecord
    /\ LedgerOK(hist, Event)
    /\ \A e \in Event : stamp[e] = Unstamped \/ stamp[e] \in 1..time
    /\ \A e \in InHist : e \in Event /\ stamp[e] # Unstamped
    /\ \A e \in InHist : stamp[e] <= cursor => Handled(e)
    /\ batch.at = "sidecar" => \A e \in InHist : stamp[e] <= batch.next =>
          Handled(e) \/ e \in batch.kept \/ e \in batch.dropped
    /\ batch.at = "cursor" => \A e \in InHist : stamp[e] <= batch.next => Handled(e)
    /\ \A e \in Event : rules[e] <= 1 + blind

LEMMA StampStep == ASSUME HistoryInv, NEW e \in Event, Stamp(e) PROVE HistoryInv'
<1>1. stamp' \in [Event -> Int] /\ stamp'[e] = time /\ \A u \in Event \ {e} : stamp'[u] = stamp[u]
  BY DEF HistoryInv, Stamp
<1>2. e \notin InHist BY DEF HistoryInv, Stamp
<1>3. \A u \in InHist : u \in Event /\ stamp'[u] = stamp[u] BY <1>1, <1>2 DEF HistoryInv
<1>4. UNCHANGED <<hist, time, cursor, rules, batch, dropped, overtaken, blind>> BY DEF Stamp
<1>5. InHist' = InHist /\ \A u : Handled(u)' <=> Handled(u) BY <1>4 DEF InHist, Handled
<1>6. time \in 1..time BY DEF HistoryInv
<1>. QED BY <1>1, <1>3, <1>4, <1>5, <1>6 DEF HistoryInv

LEMMA LogEventStep == ASSUME HistoryInv, NEW e \in Event, LogEvent(e) PROVE HistoryInv'
<1>1. hist' \in Failed(hist, e) BY DEF LogEvent, Failed
<1>2. LedgerOK(hist', Event) /\ \A u \in InHist' : u = e \/ u \in InHist
  BY <1>1, Appends, AppendedRows DEF HistoryInv, InHist
<1>3. UNCHANGED <<stamp, time, cursor, rules, batch, dropped, blind>> /\ overtaken \subseteq overtaken'
  BY DEF LogEvent
<1>4. ASSUME stamp[e] <= cursor \/ (batch.at # "idle" /\ stamp[e] <= batch.next)
      PROVE  e \in overtaken'
  <2>1. stamp[e] \in Int /\ cursor \in Nat /\ batch.next \in Nat BY DEF HistoryInv, BatchRecord
  <2>2. stamp[e] <= ReadUpTo
    <3>1. CASE batch.at = "idle" BY <1>4, <3>1 DEF ReadUpTo
    <3>2. CASE batch.at # "idle"
      <4>1. PICK m \in {batch.next, cursor} : \A x \in {batch.next, cursor} : m >= x BY <2>1
      <4>2. \A x \in {batch.next, cursor} : Max({batch.next, cursor}) >= x BY <4>1 DEF Max
      <4>3. Max({batch.next, cursor}) \in {batch.next, cursor} BY <4>1 DEF Max
      <4>. QED BY <1>4, <2>1, <3>2, <4>2, <4>3 DEF ReadUpTo
    <3>. QED BY <3>1, <3>2
  <2>. QED BY <2>2 DEF LogEvent
<1>5. \A u : Handled(u) => Handled(u)' BY <1>3 DEF Handled
<1>6. e \in overtaken' => Handled(e)' BY DEF Handled
<1>7. stamp[e] # Unstamped BY DEF LogEvent
<1>. QED BY <1>2, <1>3, <1>4, <1>5, <1>6, <1>7 DEF HistoryInv

LEMMA CompactStep == ASSUME HistoryInv, Compact PROVE HistoryInv'
<1>1. PICK kept \in Packets(Since(cursor)) :
        batch' = [at |-> "sidecar", kept |-> kept, dropped |-> Since(cursor) \ kept,
                  next |-> Max({stamp[e] : e \in Since(cursor)})]
  BY DEF Compact
<1>2. kept \subseteq Since(cursor) /\ Since(cursor) \subseteq Event /\ Since(cursor) # {}
  BY DEF Packets, Since, HistoryInv, Compact
<1>3. PICK T : T = {stamp[e] : e \in Since(cursor)} OBVIOUS
<1>4. T \subseteq 1..time /\ T # {} BY <1>2, <1>3 DEF HistoryInv, Since
<1>5. PICK m \in T : \A y \in T : y <= m BY <1>4, GreatestOf DEF HistoryInv
<1>6. \A x, y \in T : x >= y <=> y <= x BY <1>4
<1>7. Max(T) \in T /\ \A y \in T : y <= Max(T) BY <1>5, <1>6 DEF Max
<1>8. Max(T) \in Nat
  <2>1. \A k \in 1..time : k \in Nat BY DEF HistoryInv
  <2>. QED BY <1>4, <1>7, <2>1
<1>9. /\ batch' \in BatchRecord /\ batch'.at = "sidecar" /\ batch'.kept = kept
      /\ batch'.dropped = Since(cursor) \ kept /\ batch'.next = Max(T)
  BY <1>1, <1>2, <1>3, <1>8 DEF BatchRecord
<1>10. UNCHANGED <<stamp, hist, time, cursor, rules, dropped, overtaken, blind>> BY DEF Compact
<1>11. ASSUME NEW e \in InHist PROVE Handled(e) \/ e \in Since(cursor)
  <2>1. stamp[e] \in Int /\ cursor \in Nat BY DEF HistoryInv
  <2>2. stamp[e] <= cursor => Handled(e) BY DEF HistoryInv
  <2>. QED BY <2>1, <2>2 DEF Since
<1>12. InHist' = InHist /\ \A u : Handled(u)' <=> Handled(u) BY <1>10 DEF InHist, Handled
<1>. QED BY <1>9, <1>10, <1>11, <1>12 DEF HistoryInv

LEMMA AppendRulesStep == ASSUME HistoryInv, AppendRules PROVE HistoryInv'
<1>1. PICK existing \in {{e \in Event : rules[e] > 0}, {}} :
        /\ rules' = [e \in Event |-> IF e \in Fresh(batch.kept, existing) THEN rules[e] + 1 ELSE rules[e]]
        /\ IF existing = {} /\ \E e \in Event : rules[e] > 0
           THEN Mishap /\ blind' = blind + 1
           ELSE UNCHANGED <<blind, mishaps>>
  BY DEF AppendRules
<1>2. /\ batch.at = "sidecar" /\ UNCHANGED <<stamp, hist, time, cursor, overtaken>>
      /\ dropped' = dropped \cup batch.dropped
  BY DEF AppendRules
<1>3. /\ batch' \in BatchRecord /\ batch'.at = "cursor" /\ batch'.next = batch.next
  BY DEF AppendRules, HistoryInv, BatchRecord
<1>4. /\ \A e \in Event : rules[e] \in Nat /\ rules[e] <= 1 + blind
      /\ blind \in Nat /\ blind' \in Nat
  BY <1>1 DEF HistoryInv
<1>5. /\ rules' \in [Event -> Nat]
      /\ \A e \in Event : rules'[e] = IF e \in Fresh(batch.kept, existing) THEN rules[e] + 1 ELSE rules[e]
  <2>1. \A e \in Event : (IF e \in Fresh(batch.kept, existing) THEN rules[e] + 1 ELSE rules[e]) \in Nat
    BY <1>4
  <2>. QED BY <1>1, <2>1
<1>6. ASSUME NEW e \in Event PROVE rules'[e] <= 1 + blind'
  <2>1. CASE existing = {} /\ \E u \in Event : rules[u] > 0
    <3>1. blind' = blind + 1 BY <1>1, <2>1
    <3>. QED BY <1>4, <1>5, <3>1
  <2>2. CASE ~(existing = {} /\ \E u \in Event : rules[u] > 0)
    <3>1. blind' = blind BY <1>1, <2>2
    <3>2. e \in Fresh(batch.kept, existing) => rules[e] = 0 BY <1>1, <1>4, <2>2 DEF Fresh
    <3>. QED BY <1>4, <1>5, <3>1, <3>2
  <2>. QED BY <2>1, <2>2
<1>7. ASSUME NEW e \in Event, Handled(e) PROVE Handled(e)'
  <2>1. rules[e] > 0 => rules'[e] > 0 BY <1>4, <1>5
  <2>. QED BY <1>2, <1>7, <2>1 DEF Handled
<1>8. ASSUME NEW e \in Event, e \in batch.kept PROVE Handled(e)'
  <2>1. rules'[e] > 0
    <3>1. CASE e \in existing BY <1>1, <1>4, <1>5, <3>1
    <3>2. CASE e \notin existing
      <4>1. e \in Fresh(batch.kept, existing) BY <1>8, <3>2 DEF Fresh
      <4>. QED BY <1>4, <1>5, <4>1
    <3>. QED BY <3>1, <3>2
  <2>. QED BY <2>1 DEF Handled
<1>9. \A e \in batch.dropped : Handled(e)' BY <1>2 DEF Handled
<1>10. InHist' = InHist /\ \A e \in InHist : e \in Event BY <1>2 DEF InHist, HistoryInv
<1>11. \A e \in InHist : stamp[e] <= batch.next => Handled(e)'
  BY <1>2, <1>7, <1>8, <1>9, <1>10 DEF HistoryInv
<1>12. \A e \in InHist : stamp[e] <= cursor => Handled(e)' BY <1>7, <1>10 DEF HistoryInv
<1>. QED BY <1>2, <1>3, <1>4, <1>5, <1>6, <1>10, <1>11, <1>12 DEF HistoryInv

\* The round is over; the cursor goes forward as far as the round has come, back
\* to the beginning, or not at all.
LEMMA RoundEnds ==
    ASSUME HistoryInv, batch' = NoBatch, cursor' \in Nat,
           UNCHANGED <<stamp, hist, time, rules, dropped, overtaken, blind>>,
           \/ cursor' <= cursor
           \/ batch.at = "cursor" /\ cursor' = batch.next
    PROVE  HistoryInv'
<1>1. batch' \in BatchRecord /\ batch'.at = "idle" BY DEF NoBatch, BatchRecord
<1>2. InHist' = InHist /\ \A u : Handled(u)' <=> Handled(u) BY DEF InHist, Handled
<1>3. ASSUME NEW e \in InHist, stamp[e] <= cursor' PROVE Handled(e)
  <2>1. stamp[e] \in Int /\ cursor \in Nat BY DEF HistoryInv
  <2>2. cursor' <= cursor => stamp[e] <= cursor BY <1>3, <2>1
  <2>. QED BY <1>3, <2>2 DEF HistoryInv
<1>. QED BY <1>1, <1>2, <1>3 DEF HistoryInv

LEMMA HistoryStep == ASSUME HistoryInv, [HistoryNext]_historyVars PROVE HistoryInv'
<1>1. CASE UNCHANGED historyVars
  BY <1>1 DEF historyVars, HistoryInv, InHist, Handled
<1>2. CASE \E e \in Event : Stamp(e) \/ LogEvent(e) BY <1>2, StampStep, LogEventStep
<1>3. CASE Tick
  <2>1. \A k \in 1..time : k \in 1..time + 1 BY DEF HistoryInv
  <2>2. time' = time + 1 /\ UNCHANGED <<stamp, hist, cursor, rules, batch, dropped, overtaken, blind>>
    BY <1>3 DEF Tick
  <2>3. InHist' = InHist /\ \A u : Handled(u)' <=> Handled(u) BY <2>2 DEF InHist, Handled
  <2>. QED BY <2>1, <2>2, <2>3 DEF HistoryInv
<1>4. CASE FailRules
  <2>1. cursor' \in Nat /\ cursor' <= cursor BY <1>4 DEF FailRules, HistoryInv
  <2>. QED BY <1>4, <2>1, RoundEnds DEF FailRules
<1>5. CASE MoveCursor
  <2>1. /\ cursor' \in Nat
        /\ cursor' <= cursor \/ (batch.at = "cursor" /\ cursor' = batch.next)
    BY <1>5 DEF MoveCursor, HistoryInv, BatchRecord
  <2>. QED BY <1>5, <2>1, RoundEnds DEF MoveCursor
<1>6. CASE Interrupt
  <2>1. cursor' \in Nat /\ cursor' <= cursor BY <1>6 DEF Interrupt, HistoryInv
  <2>. QED BY <1>6, <2>1, RoundEnds DEF Interrupt
<1>. QED BY <1>1, <1>2, <1>3, <1>4, <1>5, <1>6, CompactStep, AppendRulesStep DEF HistoryNext

LEMMA HistoryInitOK == HistoryInit => HistoryInv
<1> SUFFICES ASSUME HistoryInit PROVE HistoryInv OBVIOUS
<1>1. LedgerOK(hist, Event) /\ InHist = {} BY NewLedgerOK DEF HistoryInit, InHist, Range
<1>2. batch \in BatchRecord /\ batch.at = "idle" BY DEF HistoryInit, NoBatch, BatchRecord
<1>. QED BY <1>1, <1>2 DEF HistoryInit, HistoryInv, Unstamped

LEMMA HistorySafe == HistoryInv => PassedIsHandled /\ RuleWrittenOnce
BY DEF HistoryInv, Handled, PassedIsHandled, RuleWrittenOnce

(***************************************************************************)
(* The reader of the bus (FalsifierBus)                                    *)
(*                                                                         *)
(* As long as every line parses, what stands up to the first row with the  *)
(* id of the cursor was given; and there is such a row, unless it was cut  *)
(* off and whatever is appended next makes a line that does not parse.     *)
(***************************************************************************)
BusRow == [id : Falsification, k : Nat]

\* Row j is before the reader.
Ahead(rs, id, j) == (\A i \in DOMAIN rs : rs[i].id # id) \/ \E i \in DOMAIN rs : rs[i].id = id /\ i < j

ReaderOK(l, id, given) ==
    ~l.junk =>
        /\ \A j \in DOMAIN l.rows : l.rows[j].id \in given \/ Ahead(l.rows, id, j)
        /\ id = NoId \/ l.torn \/ \E i \in DOMAIN l.rows : l.rows[i].id = id

BusInv ==
    /\ LedgerOK(bus, BusRow) /\ appends \in Nat
    /\ ReaderOK(bus, after, seen)

LEMMA AppendEventStep == ASSUME BusInv, AppendEvent PROVE BusInv'
<1>1. PICK e \in Falsification : bus' \in Failed(bus, [id |-> e, k |-> appends + 1])
  BY DEF AppendEvent, Failed
<1>2. PICK row : row = [id |-> e, k |-> appends + 1] OBVIOUS
<1>3. row \in BusRow /\ row.id = e BY <1>2 DEF BusRow, BusInv
<1>4. LedgerOK(bus', BusRow) /\ AppendLeaves(bus', bus, row)
  BY <1>1, <1>2, <1>3, Appends DEF BusInv
<1>5. PICK rs : rs = bus.rows OBVIOUS
<1>6. PICK qs : qs = bus'.rows OBVIOUS
<1>7. /\ rs \in Seq(BusRow) /\ qs \in Seq(BusRow) /\ DOMAIN rs = 1..Len(rs) /\ DOMAIN qs = 1..Len(qs)
      /\ Len(rs) \in Nat /\ Len(qs) \in Nat
  BY <1>4, <1>5, <1>6 DEF LedgerOK, LedgerRecord, BusInv
<1>8. appends' \in Nat /\ UNCHANGED <<seen, after>> BY DEF AppendEvent, BusInv
<1>9. CASE bus' = bus BY <1>4, <1>8, <1>9 DEF BusInv, ReaderOK
<1>10. CASE ~bus.torn /\ qs = Append(rs, row) /\ bus'.junk = bus.junk
  <2>1. /\ Len(qs) = Len(rs) + 1 /\ qs[Len(rs) + 1] = row
        /\ \A j \in 1..Len(rs) : qs[j] = rs[j] /\ j \in 1..Len(qs)
        /\ \A j \in 1..Len(qs) : j = Len(rs) + 1 \/ j \in 1..Len(rs)
    BY <1>3, <1>7, <1>10, SeqFacts
  <2>2. ASSUME ~bus.junk
        PROVE  /\ \A j \in DOMAIN rs : rs[j].id \in seen \/ Ahead(rs, after, j)
               /\ after = NoId \/ \E i \in DOMAIN rs : rs[i].id = after
    BY <1>5, <1>10, <2>2 DEF BusInv, ReaderOK
  <2>3. ASSUME ~bus.junk, NEW j \in 1..Len(qs) PROVE qs[j].id \in seen \/ Ahead(qs, after, j)
    <3>1. CASE after = NoId
      <4>1. ASSUME NEW i \in 1..Len(qs) PROVE qs[i].id # NoId
        <5>1. qs[i] \in BusRow BY <1>7, SeqFacts
        <5>. QED BY <5>1, BusAssumption DEF BusRow
      <4>. QED BY <1>7, <3>1, <4>1 DEF Ahead
    <3>2. CASE after # NoId
      <4>1. PICK i \in 1..Len(rs) : rs[i].id = after BY <1>7, <2>2, <2>3, <3>2
      <4>2. i \in 1..Len(qs) /\ qs[i].id = after BY <2>1, <4>1
      <4>3. CASE j = Len(rs) + 1
        <5>1. i < j BY <1>7, <4>3
        <5>. QED BY <1>7, <4>2, <5>1 DEF Ahead
      <4>4. CASE j \in 1..Len(rs)
        <5>1. qs[j] = rs[j] BY <2>1, <4>4
        <5>2. rs[j].id \in seen \/ \E k \in 1..Len(rs) : rs[k].id = after /\ k < j
          BY <1>7, <2>2, <2>3, <4>1, <4>4 DEF Ahead
        <5>. QED BY <1>7, <2>1, <5>1, <5>2 DEF Ahead
      <4>. QED BY <2>1, <4>3, <4>4
    <3>. QED BY <3>1, <3>2
  <2>4. ASSUME ~bus.junk PROVE after = NoId \/ \E i \in DOMAIN qs : qs[i].id = after
    BY <1>7, <2>1, <2>2, <2>4
  <2>. QED BY <1>4, <1>6, <1>7, <1>8, <1>10, <2>3, <2>4 DEF BusInv, ReaderOK
<1>11. CASE qs = Kept(bus) /\ bus'.torn /\ bus'.junk = bus.junk
  <2>1. Len(qs) <= Len(rs) /\ \A j \in 1..Len(qs) : qs[j] = rs[j] /\ j \in 1..Len(rs)
    <3>1. Len(qs) <= Len(rs) /\ \A j \in 1..Len(qs) : qs[j] = rs[j]
      BY <1>5, <1>11, KeptRows DEF BusInv
    <3>. QED BY <1>7, <3>1
  <2>2. ASSUME ~bus.junk, NEW j \in 1..Len(qs) PROVE qs[j].id \in seen \/ Ahead(qs, after, j)
    <3>1. qs[j] = rs[j] /\ j \in 1..Len(rs) BY <2>1
    <3>2. rs[j].id \in seen \/ Ahead(rs, after, j) BY <1>5, <1>7, <2>2, <3>1 DEF BusInv, ReaderOK
    <3>3. CASE \A i \in 1..Len(rs) : rs[i].id # after BY <1>7, <2>1, <3>3 DEF Ahead
    <3>4. ASSUME NEW i \in 1..Len(rs), rs[i].id = after, i < j PROVE Ahead(qs, after, j)
      <4>1. i \in 1..Len(qs) BY <1>7, <3>4
      <4>. QED BY <1>7, <2>1, <3>4, <4>1 DEF Ahead
    <3>. QED BY <1>7, <3>1, <3>2, <3>3, <3>4 DEF Ahead
  <2>. QED BY <1>4, <1>6, <1>7, <1>8, <1>11, <2>2 DEF BusInv, ReaderOK
<1>12. CASE bus'.junk BY <1>4, <1>8, <1>12 DEF BusInv, ReaderOK
<1>. QED BY <1>4, <1>5, <1>6, <1>9, <1>10, <1>11, <1>12 DEF AppendLeaves

\* Following, by its places: what comes after row m, where no row up to m is ahead.
LEMMA FollowingIs ==
    ASSUME LedgerOK(bus, BusRow), NEW id
    PROVE  \E m \in 0..Len(bus.rows) :
              /\ Following(id) = SubSeq(bus.rows, m + 1, Len(bus.rows))
              /\ \A j \in 1..Len(bus.rows) : Ahead(bus.rows, id, j) <=> m < j
<1>1. PICK rs : rs = bus.rows OBVIOUS
<1>2. rs \in Seq(BusRow) /\ DOMAIN rs = 1..Len(rs) /\ Len(rs) \in Nat
  BY <1>1 DEF LedgerOK, LedgerRecord
<1>3. Places(id) = {i \in 1..Len(rs) : rs[i].id = id} BY <1>1, <1>2 DEF Places
<1>4. CASE Places(id) = {}
  <2>1. Following(id) = rs BY <1>1, <1>4 DEF Following
  <2>2. SubSeq(rs, 0 + 1, Len(rs)) = rs BY <1>2
  <2>3. \A j \in 1..Len(rs) : Ahead(rs, id, j) /\ 0 < j BY <1>2, <1>3, <1>4 DEF Ahead
  <2>4. 0 \in 0..Len(rs) BY <1>2
  <2>. QED BY <1>1, <2>1, <2>2, <2>3, <2>4
<1>5. CASE Places(id) # {}
  <2>1. Places(id) \subseteq Nat BY <1>3
  <2>2. PICK m \in Places(id) : m = CHOOSE i \in Places(id) : \A j \in Places(id) : i <= j
    BY <1>5, <2>1, LeastOf
  <2>3. \A j \in Places(id) : m <= j BY <1>5, <2>1, <2>2, LeastOf
  <2>4. Following(id) = SubSeq(rs, m + 1, Len(rs)) BY <1>1, <1>5, <2>2 DEF Following
  <2>5. m \in 1..Len(rs) /\ rs[m].id = id BY <1>3, <2>2
  <2>6. ASSUME NEW j \in 1..Len(rs) PROVE Ahead(rs, id, j) <=> m < j
    <3>1. Ahead(rs, id, j) <=> \E i \in 1..Len(rs) : rs[i].id = id /\ i < j
      BY <1>2, <2>5 DEF Ahead
    <3>2. \A i \in 1..Len(rs) : rs[i].id = id => m <= i BY <1>3, <2>3
    <3>3. ASSUME NEW i \in 1..Len(rs), m <= i, i < j PROVE m < j
      <4>1. m \in Int /\ i \in Int /\ j \in Int BY <1>2, <2>5
      <4>. QED BY <3>3, <4>1
    <3>. QED BY <2>5, <3>1, <3>2, <3>3
  <2>7. m \in 0..Len(rs) BY <2>5
  <2>. QED BY <1>1, <2>4, <2>6, <2>7
<1>. QED BY <1>4, <1>5

LEMMA ReadEventsStep == ASSUME BusInv, ReadEvents PROVE BusInv'
<1>1. PICK limit \in {1, MaxAppends} :
        LET rest == Following(after)
            given == IF limit < Len(rest) THEN SubSeq(rest, 1, limit) ELSE rest
        IN /\ given # <<>>
           /\ seen' = seen \cup {r.id : r \in Range(given)}
           /\ after' = Last(given).id
  BY DEF ReadEvents
<1>2. PICK rs : rs = bus.rows OBVIOUS
<1>3. rs \in Seq(BusRow) /\ DOMAIN rs = 1..Len(rs) /\ Len(rs) \in Nat
  BY <1>2 DEF BusInv, LedgerOK, LedgerRecord
<1>4. PICK m \in 0..Len(rs) :
        /\ Following(after) = SubSeq(rs, m + 1, Len(rs))
        /\ \A j \in 1..Len(rs) : Ahead(rs, after, j) <=> m < j
  BY <1>2, FollowingIs DEF BusInv
<1>5. PICK rest : rest = Following(after) OBVIOUS
<1>6. /\ rest \in Seq(BusRow) /\ Len(rest) = Len(rs) - m
      /\ \A j \in 1..Len(rs) - m : rest[j] = rs[m + j]
  BY <1>3, <1>4, <1>5, Rest
<1>7. PICK given : given = IF limit < Len(rest) THEN SubSeq(rest, 1, limit) ELSE rest OBVIOUS
<1>8. limit \in Nat BY BusAssumption
<1>9. PICK w \in Nat : w = IF limit < Len(rest) THEN limit ELSE Len(rest)
  <2>1. Len(rest) \in Nat BY <1>6
  <2>. QED BY <1>8, <2>1
<1>10. /\ given \in Seq(BusRow) /\ Len(given) = w /\ w <= Len(rs) - m
       /\ \A j \in 1..w : given[j] = rs[m + j]
  <2>1. CASE limit < Len(rest)
    <3>1. given = SubSeq(rest, 1, limit) /\ w = limit BY <1>7, <1>9, <2>1
    <3>2. given \in Seq(BusRow) /\ Len(given) = limit /\ \A j \in 1..limit : given[j] = rest[j]
      BY <1>6, <1>8, <2>1, <3>1
    <3>3. \A j \in 1..limit : j \in 1..Len(rs) - m BY <1>3, <1>6, <1>8, <2>1
    <3>. QED BY <1>6, <2>1, <3>1, <3>2, <3>3
  <2>2. CASE ~(limit < Len(rest)) BY <1>6, <1>7, <1>9, <2>2
  <2>. QED BY <2>1, <2>2
<1>11. /\ given # <<>> /\ seen' = seen \cup {r.id : r \in Range(given)} /\ after' = Last(given).id
  BY <1>1, <1>5, <1>7
<1>12. w > 0 BY <1>10, <1>11
<1>13. m + w \in 1..Len(rs) /\ after' = rs[m + w].id
  <2>1. Last(given) = given[w] BY <1>10, <1>11, TopFacts
  <2>. QED BY <1>3, <1>10, <1>11, <1>12, <2>1
<1>14. \A j \in 1..w : rs[m + j].id \in seen'
  <2>1. \A j \in 1..w : given[j] \in Range(given) BY <1>10 DEF Range
  <2>2. \A j \in 1..w : given[j].id \in seen' BY <1>11, <2>1
  <2>. QED BY <1>10, <2>2
<1>15. UNCHANGED <<bus, appends>> BY DEF ReadEvents
<1>16. ASSUME ~bus.junk, NEW j \in 1..Len(rs) PROVE rs[j].id \in seen' \/ Ahead(rs, after', j)
  <2>1. CASE j > m + w BY <1>3, <1>13, <2>1 DEF Ahead
  <2>2. CASE m < j /\ j <= m + w
    <3>1. PICK i \in 1..w : j = m + i
      <4>1. j - m \in 1..w /\ j = m + (j - m) BY <2>2
      <4>. QED BY <4>1
    <3>. QED BY <1>14, <3>1
  <2>3. CASE j <= m
    <3>1. ~Ahead(rs, after, j) BY <1>4, <2>3
    <3>2. rs[j].id \in seen BY <1>2, <1>3, <1>16, <3>1 DEF BusInv, ReaderOK
    <3>. QED BY <1>11, <3>2
  <2>. QED BY <2>1, <2>2, <2>3
<1>17. \E i \in DOMAIN rs : rs[i].id = after' BY <1>3, <1>13
<1>. QED BY <1>2, <1>3, <1>15, <1>16, <1>17 DEF BusInv, ReaderOK

LEMMA BusStep == ASSUME BusInv, [BusNext]_busVars PROVE BusInv'
<1>1. CASE UNCHANGED busVars BY <1>1 DEF busVars, BusInv
<1>. QED BY <1>1, AppendEventStep, ReadEventsStep DEF BusNext

LEMMA BusSafe == BusInv => BusMissesNothing
<1> SUFFICES ASSUME BusInv, ~bus.junk, NEW r \in Range(bus.rows), r.id \notin seen
             PROVE  r \in Range(Following(after))
  BY DEF BusMissesNothing
<1>1. PICK rs : rs = bus.rows OBVIOUS
<1>2. rs \in Seq(BusRow) /\ DOMAIN rs = 1..Len(rs) /\ Len(rs) \in Nat
  BY <1>1 DEF BusInv, LedgerOK, LedgerRecord
<1>3. PICK j \in 1..Len(rs) : r = rs[j] BY <1>1, <1>2 DEF Range
<1>4. PICK m \in 0..Len(rs) :
        /\ Following(after) = SubSeq(rs, m + 1, Len(rs))
        /\ \A i \in 1..Len(rs) : Ahead(rs, after, i) <=> m < i
  BY <1>1, FollowingIs DEF BusInv
<1>5. m < j BY <1>1, <1>2, <1>3, <1>4 DEF BusInv, ReaderOK
<1>6. PICK rest : rest = Following(after) OBVIOUS
<1>7. rest \in Seq(BusRow) /\ Len(rest) = Len(rs) - m /\ \A i \in 1..Len(rs) - m : rest[i] = rs[m + i]
  BY <1>2, <1>4, <1>6, Rest
<1>8. j - m \in 1..Len(rs) - m /\ m + (j - m) = j BY <1>2, <1>5
<1>9. rest[j - m] = r /\ j - m \in DOMAIN rest BY <1>3, <1>7, <1>8
<1>. QED BY <1>6, <1>9 DEF Range

LEMMA BusInitOK == BusInit => BusInv
<1> SUFFICES ASSUME BusInit PROVE BusInv OBVIOUS
<1>1. LedgerOK(bus, BusRow) /\ bus.rows = <<>> BY NewLedgerOK DEF BusInit
<1>. QED BY <1>1 DEF BusInit, BusInv, ReaderOK

(***************************************************************************)
(* Both cursors                                                            *)
(***************************************************************************)
\* No event is lost between a writer and a reader that remembers how far it has
\* read, and no rule is written again without reason, for any number of events,
\* rounds, failed appends and crashes (read_since, compact_prompts, read_events).
THEOREM NothingIsMissed == Spec => []CursorsMissNothing
<1>1. Init => HistoryInv /\ BusInv BY HistoryInitOK, BusInitOK DEF Init
<1>2. HistoryInv /\ BusInv /\ [Next]_vars => HistoryInv' /\ BusInv'
  <2>1. [Next]_vars => [HistoryNext]_historyVars /\ [BusNext]_busVars
    BY DEF Next, WriteRows, Account, Observe, Inspect, vars, recordVars
  <2>. QED BY <2>1, HistoryStep, BusStep
<1>3. HistoryInv /\ BusInv => CursorsMissNothing
  BY HistorySafe, BusSafe DEF CursorsMissNothing
<1>. QED BY <1>1, <1>2, <1>3, PTL DEF Spec

(***************************************************************************)
(* The ratchet over the joins (JoinRatchet)                                *)
(*                                                                         *)
(* What was promised is in the payload of the file, whether it loads or    *)
(* not: a file whose seal is broken, or that is of another target, may     *)
(* come back as it was.                                                    *)
(***************************************************************************)
RatchetInv ==
    /\ baseline.state \in {"missing", "sealed", "damaged", "foreign"}
    /\ baseline = [state |-> baseline.state, payload |-> baseline.payload]
    /\ \A f \in promised : Counted(f)
    /\ baseline.state = "missing" => promised = {}
    /\ lastCheck.exit = "ok" => lastCheck.hidden = {}

LEMMA CheckStep == ASSUME RatchetInv, Check PROVE RatchetInv'
<1>1. UNCHANGED <<rows, declared, receipts, folding, baseline, promised, absorbed>> BY DEF Check
<1>2. /\ lastCheck'.hidden = Hidden
      /\ lastCheck'.exit = "ok" => Differing = {}
  BY DEF Check
<1>3. ASSUME Differing = {}, NEW f \in Hidden PROVE FALSE
  <2>1. f \in Observed /\ f \in promised BY <1>3 DEF Hidden
  <2>2. f \in Frozen /\ baseline.payload[f] # "outside" BY <2>1 DEF RatchetInv, Counted
  <2>3. baseline.payload[f] = Measured[f] BY <1>3, <2>1, <2>2 DEF Differing
  <2>. QED BY <1>3, <2>2, <2>3 DEF Hidden
<1>4. lastCheck'.exit = "ok" => lastCheck'.hidden = {} BY <1>2, <1>3
<1>5. (\A f \in promised : Counted(f))' BY <1>1 DEF RatchetInv, Counted, Frozen
<1>. QED BY <1>1, <1>4, <1>5 DEF RatchetInv

LEMMA RefreezeStep == ASSUME RatchetInv, Update PROVE RatchetInv'
<1>1. lastCheck' = lastCheck BY DEF Update
<1>2. CASE UNCHANGED <<baseline, promised, absorbed>>
  BY <1>1, <1>2 DEF RatchetInv, Counted, Frozen
<1>3. CASE ~UNCHANGED <<baseline, promised, absorbed>>
  <2>1. /\ Loads => rescope_refusals = {}
        /\ baseline.state \notin {"damaged", "foreign"}
        /\ baseline' = [state |-> "sealed", payload |-> Refrozen]
        /\ absorbed' = (absorbed \union {f \in promised \intersect Folded : family(f) \in Observed \ {f}})
                       \ DOMAIN Refrozen
        /\ promised' = {f \in DOMAIN Refrozen : Refrozen[f] # "outside"}
                       \union {f \in promised \ absorbed' : ~(f \in receipts /\ f \in declared /\ f \in Observed)}
    BY <1>3 DEF Update
  <2>2. DOMAIN Refrozen = Observed \union CarriedForward BY DEF Refrozen
  <2>3. ASSUME NEW f \in promised, f \notin absorbed',
               ~(f \in receipts /\ f \in declared /\ f \in Observed)
        PROVE  f \in DOMAIN Refrozen /\ Refrozen[f] # "outside"
    <3>1. f \in Frozen /\ baseline.payload[f] # "outside" BY DEF RatchetInv, Counted
    <3>2. CASE f \in Observed
      <4>1. Refrozen[f] = Measured[f] /\ f \in DOMAIN Refrozen BY <3>2 DEF Refrozen
      <4>2. ASSUME Measured[f] = "outside" PROVE FALSE
        <5>1. f \in declared BY <3>2, <4>2 DEF Measured
        <5>2. f \notin receipts BY <2>3, <3>2, <5>1
        <5>3. classify(baseline.payload[f], Measured[f]) = "worse" BY <3>1, <4>2 DEF classify
        <5>4. f \in rescope_refusals BY <3>1, <3>2, <4>2, <5>2, <5>3 DEF rescope_refusals
        <5>5. Loads BY <2>1 DEF Loads, RatchetInv
        <5>. QED BY <2>1, <5>4, <5>5
      <4>. QED BY <4>1, <4>2
    <3>3. CASE f \notin Observed
      <4>1. f \in CarriedForward
        <5>1. SUFFICES ASSUME f \in Ledger, family(f) # f, family(f) \in Observed PROVE FALSE
          BY <3>1, <3>3 DEF CarriedForward
        <5>2. f \in Folded BY <5>1 DEF family
        <5>3. f \notin CarriedForward BY <5>1 DEF CarriedForward
        <5>4. f \notin DOMAIN Refrozen BY <2>2, <3>3, <5>3
        <5>. QED BY <2>1, <2>3, <5>1, <5>2, <5>4
      <4>. QED BY <2>2, <3>1, <3>3, <4>1 DEF Refrozen
    <3>. QED BY <3>2, <3>3
  <2>4. \A f \in promised' : f \in DOMAIN Refrozen /\ Refrozen[f] # "outside" BY <2>1, <2>3
  <2>5. baseline'.payload = Refrozen /\ baseline'.state = "sealed" BY <2>1
  <2>6. (\A f \in promised : Counted(f))' BY <2>4, <2>5 DEF Counted, Frozen
  <2>. QED BY <1>1, <2>1, <2>5, <2>6 DEF RatchetInv
<1>. QED BY <1>2, <1>3

\* Maintenance of the jail and of the tables touches no promise; the file keeps
\* its payload or goes with everything it promised.
LEMMA WorldStep ==
    ASSUME RatchetInv,
           \/ EditTables \/ EditBaseline \/ WrongTarget \/ DeleteBaseline
           \/ \E l \in Ledger : LoseRows(l) \/ AppendRows(l, "bare") \/ AppendRows(l, "joined")
    PROVE  RatchetInv'
<1>1. CASE UNCHANGED <<baseline, promised, lastCheck>>
  BY <1>1 DEF RatchetInv, Counted, Frozen
<1>2. CASE EditBaseline \/ WrongTarget
  <2>1. PICK s \in {"sealed", "damaged", "foreign"} : baseline' = [baseline EXCEPT !.state = s]
    BY <1>2 DEF EditBaseline, WrongTarget
  <2>2. baseline' = [state |-> s, payload |-> baseline.payload]
    <3>1. PICK b : b = [state |-> baseline.state, payload |-> baseline.payload] OBVIOUS
    <3>2. baseline = b BY <3>1 DEF RatchetInv
    <3>. QED BY <2>1, <3>1, <3>2
  <2>3. UNCHANGED <<promised, lastCheck>> BY <1>2 DEF EditBaseline, WrongTarget
  <2>. QED BY <2>1, <2>2, <2>3 DEF RatchetInv, Counted, Frozen
<1>3. CASE DeleteBaseline
  BY <1>3 DEF DeleteBaseline, RatchetInv, NoPayload, NoCheck
<1>. QED BY <1>1, <1>2, <1>3 DEF EditTables, LoseRows, AppendRows

\* A family that was frozen inside the denominator stays there through any number
\* of updates, edits and jails, and no check says "ok" over one that is hidden
\* (ratchet_update, rescope_refusals, ratchet_check).
THEOREM DenominatorIsKept == Spec => []NothingLaundered
<1>1. Init => RatchetInv
  BY DEF Init, RatchetInit, RatchetInv, NoCheck, NoPayload
<1>2. RatchetInv /\ [Next]_vars => RatchetInv'
  <2>1. [Next]_vars => RatchetNext \/ UNCHANGED ratchetVars
    BY DEF Next, WriteRows, Account, Observe, Inspect, vars
  <2>2. RatchetInv /\ UNCHANGED ratchetVars => RatchetInv'
    BY DEF ratchetVars, RatchetInv, Counted, Frozen
  <2>3. RatchetInv /\ RatchetNext => RatchetInv'
    BY CheckStep, RefreezeStep, WorldStep DEF RatchetNext
  <2>. QED BY <2>1, <2>2, <2>3
<1>3. RatchetInv => NothingLaundered BY DEF RatchetInv, NothingLaundered
<1>. QED BY <1>1, <1>2, <1>3, PTL DEF Spec

(***************************************************************************)
(* The stall verdict (ProgressStall)                                       *)
(*                                                                         *)
(* A scan tells how many files it saw. One that misses a file which an     *)
(* earlier scan covered has seen fewer of them than that one.              *)
(***************************************************************************)
ScanRecord == [bought_n : Nat, py_files : Nat, seen : SUBSET StallFile]

StallInv ==
    /\ open \subseteq Candidate /\ tree \subseteq StallFile
    /\ bought \in Seq(Candidate)
    /\ scans \in Seq(ScanRecord)
    /\ \A s \in Range(scans) : s.py_files = Cardinality(s.seen)
    /\ ProgressIsReal

LEMMA FilesFinite == IsFiniteSet(StallFile)
<1>1. PICK file : file = [c \in Candidate |-> FileOf[c]] OBVIOUS
<1>2. file \in Surjection(Candidate, StallFile) BY <1>1 DEF StallFile, Surjection
<1>. QED BY <1>2, StallAssumption, FS_Surjection

\* The last elements of a sequence are elements of it.
LEMMA Latest ==
    ASSUME NEW S, NEW s \in Seq(S)
    PROVE  LastScans(s) \in Seq(S) /\ Range(LastScans(s)) \subseteq Range(s)
<1>1. WINDOW \in Nat /\ Len(s) \in Nat BY StallAssumption
<1>2. PICK k \in 1..Len(s) + 1 : k = IF Len(s) > WINDOW THEN Len(s) - WINDOW + 1 ELSE 1
  <2>1. CASE Len(s) > WINDOW
    <3>1. Len(s) - WINDOW + 1 \in 1..Len(s) + 1 BY <1>1, <2>1
    <3>. QED BY <2>1, <3>1
  <2>2. CASE ~(Len(s) > WINDOW)
    <3>1. 1 \in 1..Len(s) + 1 BY <1>1
    <3>. QED BY <2>2, <3>1
  <2>. QED BY <2>1, <2>2
<1>3. PICK m \in 0..Len(s) : m + 1 = k
  <2>1. k - 1 \in 0..Len(s) /\ (k - 1) + 1 = k BY <1>1, <1>2
  <2>. QED BY <2>1
<1>4. PICK q : q = SubSeq(s, m + 1, Len(s)) OBVIOUS
<1>5. LastScans(s) = q BY <1>2, <1>3, <1>4 DEF LastScans
<1>6. q \in Seq(S) /\ Len(q) = Len(s) - m /\ \A j \in 1..Len(s) - m : q[j] = s[m + j]
  BY <1>4, Rest
<1>7. \A j \in 1..Len(s) - m : m + j \in 1..Len(s) BY <1>1
<1>8. Range(q) \subseteq Range(s)
  <2>1. DOMAIN q = 1..Len(s) - m /\ DOMAIN s = 1..Len(s) BY <1>6
  <2>2. \A j \in DOMAIN q : \E i \in DOMAIN s : q[j] = s[i] BY <1>6, <1>7, <2>1
  <2>. QED BY <2>2 DEF Range
<1>. QED BY <1>5, <1>6, <1>8

\* What is kept of the last scans is at least what each of them saw.
LEMMA MergedScale ==
    ASSUME StallInv, NEW s \in Range(scans)
    PROVE  merge_scale("py_files") \in Nat /\ s.py_files <= merge_scale("py_files")
<1>1. PICK T : T = {x["py_files"] : x \in Range(scans)} OBVIOUS
<1>2. PICK most : most = Cardinality(StallFile) OBVIOUS
<1>3. most \in Nat BY <1>2, FilesFinite, FS_CardinalityType
<1>4. \A x \in Range(scans) : x \in ScanRecord /\ x["py_files"] = Cardinality(x.seen)
  BY DEF StallInv, Range
<1>5. \A x \in Range(scans) : x["py_files"] \in 0..most
  <2> SUFFICES ASSUME NEW x \in Range(scans) PROVE x["py_files"] \in 0..most OBVIOUS
  <2>1. x.seen \subseteq StallFile BY <1>4 DEF ScanRecord
  <2>2. Cardinality(x.seen) <= most /\ Cardinality(x.seen) \in Nat
    BY <1>2, <2>1, FilesFinite, FS_Subset, FS_CardinalityType
  <2>. QED BY <1>3, <1>4, <2>2
<1>6. T \subseteq 0..most /\ s["py_files"] \in T BY <1>1, <1>5
<1>7. PICK m \in T : \A y \in T : y <= m BY <1>3, <1>6, GreatestUpto
<1>8. \A x, y \in T : x >= y <=> y <= x BY <1>3, <1>6
<1>9. Max(T) \in T /\ \A y \in T : y <= Max(T) BY <1>7, <1>8 DEF Max
<1>10. merge_scale("py_files") = Max(T) BY <1>1 DEF merge_scale
<1>11. \A k \in 0..most : k \in Nat BY <1>3
<1>12. Max(T) \in Nat BY <1>6, <1>9, <1>11
<1>. QED BY <1>6, <1>9, <1>10, <1>12

\* The order of the rules: a verdict of progress has passed all the others.
LEMMA ProgressSays ==
    ASSUME NEW failure, NEW sources, stall_verdict(failure, sources).verdict = "progressing"
    PROVE  /\ SOURCE_AXES \subseteq DOMAIN sources
           /\ role_gaps(sources, "verdict") = {} /\ role_gaps(sources, "resolution") = {}
           /\ ResolvedSeen # {}
BY DEF stall_verdict

LEMMA JudgeStep == ASSUME StallInv, Judge PROVE StallInv'
<1>1. PICK failure \in Failures \cup {"none"}, axes \in {SOURCE_AXES, SOURCE_AXES \ {"scan_scale"}} :
        LET judged == stall_verdict(failure, [a \in axes |-> Report[a]]) IN
        verdict' = [verdict |-> judged.verdict, reason |-> judged.reason,
                    covered |-> \E s \in Range(scans) : tree \subseteq s.seen,
                    resolved |-> \E c \in WindowIds : ~Unresolved(c)]
  BY DEF Judge
<1>2. PICK sources : sources = [a \in axes |-> Report[a]] OBVIOUS
<1>3. PICK judged : judged = stall_verdict(failure, sources) OBVIOUS
<1>4. PICK covered \in BOOLEAN : covered = \E s \in Range(scans) : tree \subseteq s.seen OBVIOUS
<1>5. PICK resolved \in BOOLEAN : resolved = \E c \in WindowIds : ~Unresolved(c) OBVIOUS
<1>6. verdict' = [verdict |-> judged.verdict, reason |-> judged.reason,
                  covered |-> covered, resolved |-> resolved]
  BY <1>1, <1>2, <1>3, <1>4, <1>5
<1>7. verdict'.verdict = judged.verdict /\ verdict'.covered = covered /\ verdict'.resolved = resolved
  BY <1>6
<1>8. ASSUME judged.verdict = "progressing", covered PROVE resolved
  <2>1. /\ SOURCE_AXES \subseteq axes /\ ResolvedSeen # {}
        /\ role_gaps(sources, "verdict") = {} /\ role_gaps(sources, "resolution") = {}
    BY <1>2, <1>3, <1>8, ProgressSays
  <2>2. \A a \in SOURCE_AXES : a \in DOMAIN sources /\ sources[a] = Report[a] BY <1>2, <2>1
  <2>3. "executor_log" \in SOURCE_AXES /\ "scan_scale" \in SOURCE_AXES BY DEF SOURCE_AXES
  <2>4. logRead
    <3>1. axis_role["executor_log"] = "verdict" BY <2>3 DEF axis_role
    <3>2. sources["executor_log"] BY <2>1, <2>2, <2>3, <3>1 DEF role_gaps
    <3>3. Report["executor_log"] = logRead BY <2>3 DEF Report
    <3>. QED BY <2>2, <2>3, <3>2, <3>3
  <2>5. ~Shrunk("py_files")
    <3>1. axis_role["scan_scale"] = "resolution" BY <2>3 DEF axis_role
    <3>2. sources["scan_scale"] BY <2>1, <2>2, <2>3, <3>1 DEF role_gaps
    <3>3. Report["scan_scale"] = ~Shrunk("py_files") BY <2>3 DEF Report
    <3>. QED BY <2>2, <2>3, <3>2, <3>3
  <2>6. PICK s \in Range(scans) : tree \subseteq s.seen BY <1>4, <1>8
  <2>7. s \in ScanRecord /\ s.py_files = Cardinality(s.seen) BY DEF StallInv, Range
  <2>8. scans # <<>> BY <2>6 DEF Range
  <2>9. PICK c \in WindowIds : c \notin SeenOpen BY <2>1 DEF ResolvedSeen
  <2>10. ~Unresolved(c)
    <3>1. SUFFICES ASSUME c \in open, c \notin Unfired, FileOf[c] \in tree PROVE FALSE
      BY <2>4, <2>9 DEF Unresolved, SeenOpen
    <3>2. FileOf[c] \in unseen BY <2>9, <3>1 DEF SeenOpen
    <3>3. IsFiniteSet(s.seen) /\ IsFiniteSet(tree)
      BY <2>7, FilesFinite, FS_Subset DEF StallInv, ScanRecord
    <3>4. Cardinality(tree) <= Cardinality(s.seen) BY <2>6, <3>3, FS_Subset
    <3>5. /\ tree \ {FileOf[c]} \subseteq tree /\ IsFiniteSet(tree \ {FileOf[c]})
          /\ Cardinality(tree \ {FileOf[c]}) = Cardinality(tree) - 1
      BY <3>1, <3>3, FS_Subset, FS_RemoveElement
    <3>6. Cardinality(tree \ unseen) <= Cardinality(tree \ {FileOf[c]})
      <4>1. tree \ unseen \subseteq tree \ {FileOf[c]} BY <3>2
      <4>. QED BY <3>5, <4>1, FS_Subset
    <3>7. ~(Cardinality(tree \ unseen) < merge_scale("py_files"))
      <4>1. Scale["py_files"] = Cardinality(tree \ unseen) BY DEF Scale
      <4>. QED BY <2>5, <2>8, <4>1 DEF Shrunk
    <3>8. /\ Cardinality(tree \ unseen) \in Nat /\ Cardinality(tree) \in Nat /\ Cardinality(s.seen) \in Nat
          /\ Cardinality(tree \ {FileOf[c]}) \in Nat
      <4>1. IsFiniteSet(tree \ unseen) BY <3>3, FS_Subset
      <4>. QED BY <3>3, <3>5, <4>1, FS_CardinalityType
    <3>9. merge_scale("py_files") \in Nat /\ s.py_files <= merge_scale("py_files") BY MergedScale
    <3>. QED BY <2>7, <3>4, <3>5, <3>6, <3>7, <3>8, <3>9
  <2>. QED BY <1>5, <2>10
<1>9. ProgressIsReal' BY <1>7, <1>8 DEF ProgressIsReal
<1>10. Scale \in ScanRecord /\ Scale.py_files = Cardinality(Scale.seen)
  <2>1. tree \ unseen \subseteq StallFile /\ IsFiniteSet(tree \ unseen)
    BY FilesFinite, FS_Subset DEF StallInv
  <2>2. Cardinality(tree \ unseen) \in Nat /\ Len(bought) \in Nat
    BY <2>1, FS_CardinalityType DEF StallInv
  <2>. QED BY <2>1, <2>2 DEF Scale, ScanRecord
<1>11. PICK more : more = Append(scans, Scale) OBVIOUS
<1>12. more \in Seq(ScanRecord) /\ \A s \in Range(more) : s.py_files = Cardinality(s.seen)
  <2>1. /\ more \in Seq(ScanRecord) /\ Len(more) = Len(scans) + 1 /\ more[Len(scans) + 1] = Scale
        /\ \A k \in 1..Len(scans) : more[k] = scans[k]
    BY <1>10, <1>11, SeqFacts DEF StallInv
  <2>2. \A k \in 1..Len(more) : k = Len(scans) + 1 \/ k \in 1..Len(scans) BY <2>1 DEF StallInv
  <2>3. \A k \in 1..Len(scans) : scans[k] \in Range(scans) BY DEF Range, StallInv
  <2>4. \A k \in 1..Len(more) : more[k].py_files = Cardinality(more[k].seen)
    BY <1>10, <2>1, <2>2, <2>3 DEF StallInv
  <2>. QED BY <2>1, <2>4 DEF Range
<1>13. scans' \in Seq(ScanRecord) /\ Range(scans') \subseteq Range(more)
  BY <1>11, <1>12, Latest DEF Judge
<1>14. UNCHANGED <<open, bought, tree>> BY DEF Judge
<1>. QED BY <1>9, <1>12, <1>13, <1>14 DEF StallInv

\* A verdict is about the present: whatever happens next it is withdrawn.
LEMMA Withdrawn ==
    ASSUME StallInv, verdict' = NoVerdict, open' \subseteq open, tree' \subseteq StallFile,
           bought' \in Seq(Candidate), scans' = scans \/ scans' = <<>>
    PROVE  StallInv'
<1>1. scans' \in Seq(ScanRecord) /\ \A s \in Range(scans') : s.py_files = Cardinality(s.seen)
  <2>1. <<>> \in Seq(ScanRecord) /\ Range(<<>>) = {} BY DEF Range
  <2>. QED BY <2>1 DEF StallInv
<1>2. ProgressIsReal' BY DEF ProgressIsReal, NoVerdict
<1>. QED BY <1>1, <1>2 DEF StallInv

LEMMA StallStep == ASSUME StallInv, [StallNext]_stallVars PROVE StallInv'
<1>1. CASE UNCHANGED stallVars BY <1>1 DEF stallVars, StallInv, ProgressIsReal
<1>2. CASE Judge BY <1>2, JudgeStep
<1>3. CASE Feed
  <2>1. PICK c \in SeenOpen : bought' = Append(bought, c) BY <1>3 DEF Feed
  <2>2. c \in Candidate /\ bought \in Seq(Candidate) BY DEF StallInv, SeenOpen
  <2>3. bought' \in Seq(Candidate) BY <2>1, <2>2
  <2>. QED BY <1>3, <2>3, Withdrawn DEF Feed, StallInv
<1>4. CASE Resolve BY <1>4, Withdrawn DEF Resolve, StallInv
<1>5. CASE ChangeTree BY <1>5, Withdrawn DEF ChangeTree, StallInv
<1>6. CASE Blinded
  <2>1. bought' \in Seq(Candidate)
    <3>1. bought' = bought \/ (bought # <<>> /\ bought' = Tail(bought)) BY <1>6 DEF Blinded
    <3>2. bought \in Seq(Candidate) BY DEF StallInv
    <3>. QED BY <3>1, <3>2
  <2>2. scans' = scans \/ scans' = <<>> BY <1>6 DEF Blinded
  <2>. QED BY <1>6, <2>1, <2>2, Withdrawn DEF Blinded, StallInv
<1>. QED BY <1>1, <1>2, <1>3, <1>4, <1>5, <1>6 DEF StallNext

\* "progressing" is said only of work that was bought lately and is really
\* resolved, as long as a scan that is kept has seen every file there is, for any
\* candidates, files, window and order of mishaps (stall_verdict, scale_axes).
THEOREM ProgressIsTold == Spec => []ProgressIsReal
<1>1. Init => StallInv
  BY DEF Init, StallInit, StallInv, ProgressIsReal, NoVerdict, Range
<1>2. StallInv /\ [Next]_vars => StallInv'
  <2>1. [Next]_vars => [StallNext]_stallVars
    BY DEF Next, WriteRows, Account, Observe, Inspect, vars, instrumentVars
  <2>. QED BY <2>1, StallStep
<1>3. StallInv => ProgressIsReal BY DEF StallInv
<1>. QED BY <1>1, <1>2, <1>3, PTL DEF Spec

(***************************************************************************)
(* What was spent (SpendRecords)                                           *)
(*                                                                         *)
(* Every bill is on its way into the log, was logged or has a reason not   *)
(* to be; every cost in the log is a bill, and every burst noted tells its *)
(* bills. So the costs in the log of noted bursts are what those notes     *)
(* tell of them, and what is lost of the notes is no more than what the    *)
(* log holds beside them.                                                  *)
(***************************************************************************)
BurstPlace == {"idle", "refused", "gate", "lanes", "call", "close lanes", "podB", "close podB",
               "podA", "close podA", "row", "error"}
Closing == [p \in Part |-> CASE p = "lanes" -> "close lanes" [] p = "podB" -> "close podB"
                             [] p = "podA" -> "close podA"]
EvidenceRow == [n : Nat, ts : Nat, dispatched : BOOLEAN, usd : [Part -> 0..MaxUsd]]
ExecutorRow == [n : Nat, part : Part, phase : {"start", "end"}, usd : (0..MaxUsd) \cup {Unpriced}]

BillOf(r) == [n |-> r.n, part |-> r.part, usd |-> r.usd]

\* The parts of the running burst that may have been billed.
Spent(place) ==
    CASE place \in {"gate", "refused", "lanes", "call"} -> {}
      [] place \in {"close lanes", "podB"} -> {"lanes"}
      [] place \in {"close podB", "podA"} -> {"lanes", "podB"}
      [] OTHER -> Part

SpendTypes ==
    /\ at \in BurstPlace /\ n \in Nat /\ (at # "idle" => n >= 1)
    /\ since \in Nat /\ clock \in Nat /\ since <= clock
    /\ usd \in [Part -> 0..MaxUsd]
    /\ LedgerOK(exec, ExecutorRow) /\ LedgerOK(evid, EvidenceRow)
    /\ billed \subseteq [n : Nat, part : Part, usd : 0..MaxUsd] /\ IsFiniteSet(billed)
    /\ logged \subseteq billed /\ noted \subseteq EvidenceRow /\ paid \subseteq [n : Nat, ts : Nat]

\* The bills of the running burst are what its parts cost, each part once.
Billing ==
    /\ \A b \in billed : b.n <= n /\ (b.n = n => b.part \in Spent(at) /\ b.usd = usd[b.part])
    /\ \A b, c \in billed : b.n = c.n /\ b.part = c.part => b = c
    /\ \A p \in Part \ Spent(at) : usd[p] = 0
    /\ \A p \in Part : at = Closing[p] => [n |-> n, part |-> p, usd |-> usd[p]] \in billed
    /\ usd["lanes"] + usd["podB"] + usd["podA"] <= MaxUsd
    /\ Usd({b \in billed : b.n = n}) = usd["lanes"] + usd["podB"] + usd["podA"]
    /\ \A k \in Nat : Usd({b \in billed : b.n = k}) <= MaxUsd

\* Where a bill is.
Booked ==
    /\ \A b \in billed : b \in logged \/ b \in unlogged \/ (b.n = n /\ at = Closing[b.part])
    /\ Parses(exec) => \A b \in logged : InLog(b)
    /\ \A r \in Range(exec.rows) : r.phase = "end" /\ r.usd # Unpriced => BillOf(r) \in billed

\* What the evidence ledger says of it.
Notes ==
    /\ Parses(evid) => noted \subseteq Dispatches
    /\ \A m \in noted : m.n <= n /\ (at # "idle" => m.n < n)
    /\ \A m, q \in noted : m.n = q.n => m = q
    /\ \A m \in noted, b \in billed : b.n = m.n => b.usd = m.usd[b.part]
    /\ \A r \in Dispatches : r.n <= n /\ (at # "idle" => r.n < n) /\ r.ts <= clock

\* A burst that goes on was allowed to.
Allowed(number, when) ==
    LET known == {r \in Dispatches : r.n < number}
    IN (\E r \in known : when - r.ts < Cooldown) => "quota" \in on /\ Cardinality(known) < Limit
Paced ==
    /\ at \in {"gate", "lanes"} => Allowed(n, since)
    /\ \A p \in paid : p.n <= n /\ Allowed(p.n, p.ts)

SpendInv == SpendTypes /\ Billing /\ Booked /\ Notes /\ Paced

LEMMA UsdIs ==
    ASSUME NEW U, NEW S \in SUBSET U PROVE Usd(S) = SumOf([r \in U |-> r.usd], S)
<1>1. [x \in S |-> [r \in U |-> r.usd][x]] = [r \in S |-> r.usd] OBVIOUS
<1>. QED BY <1>1 DEF Usd, SumOf

LEMMA UsdOfIs ==
    ASSUME NEW U, NEW S \in SUBSET U, NEW part
    PROVE  UsdOf(part, S) = SumOf([r \in U |-> r.usd[part]], S)
<1>1. [x \in S |-> [r \in U |-> r.usd[part]][x]] = [r \in S |-> r.usd[part]] OBVIOUS
<1>. QED BY <1>1 DEF UsdOf, SumOf

LEMMA UsdAdds ==
    ASSUME NEW S, IsFiniteSet(S), NEW x, x \notin S, \A r \in S \cup {x} : r.usd \in Int
    PROVE  Usd(S \cup {x}) = Usd(S) + x.usd
<1> DEFINE f == [r \in S \cup {x} |-> r.usd]
<1>1. Usd(S \cup {x}) = SumOf(f, S \cup {x}) /\ Usd(S) = SumOf(f, S) BY UsdIs
<1>2. Summable(f, S \cup {x})
  <2>1. IsFiniteSet(S \cup {x}) BY FS_AddElement
  <2>. QED BY <2>1 DEF Summable
<1>3. f[x] = x.usd OBVIOUS
<1> HIDE DEF f
<1>. QED BY <1>1, <1>2, <1>3, SumOfInsert

LEMMA UsdEmpty == Usd({}) = 0
<1>1. Usd({}) = SumOf([r \in {} |-> r.usd], {}) BY UsdIs
<1>. QED BY <1>1, SumOfEmpty

LEMMA SpendBound == MaxUsd \in Nat /\ Cooldown \in Nat /\ Limit \in Nat
BY SpendAssumption

\* Nothing is billed in a step that goes on to the next part.
LEMMA BillingStays ==
    ASSUME SpendInv, UNCHANGED <<n, usd, billed>>, at' \in BurstPlace, Spent(at) \subseteq Spent(at'),
           \A p \in Part : at' # Closing[p]
    PROVE  Billing'
<1>1. {b \in billed' : b.n = n'} = {b \in billed : b.n = n} OBVIOUS
<1>2. \A k \in Nat : {b \in billed' : b.n = k} = {b \in billed : b.n = k} OBVIOUS
<1>3. \A p \in Part \ Spent(at') : usd'[p] = 0 BY DEF SpendInv, Billing
<1>4. \A b \in billed' : b.n <= n' /\ (b.n = n' => b.part \in Spent(at') /\ b.usd = usd'[b.part])
  BY DEF SpendInv, Billing
<1>5. /\ Usd({b \in billed' : b.n = n'}) = usd'["lanes"] + usd'["podB"] + usd'["podA"]
      /\ \A k \in Nat : Usd({b \in billed' : b.n = k}) <= MaxUsd
  BY <1>1, <1>2 DEF SpendInv, Billing
<1>. QED BY <1>3, <1>4, <1>5 DEF SpendInv, Billing

\* Where the bills are does not matter to a step that leaves them and the log.
LEMMA BookedStays ==
    ASSUME SpendInv, UNCHANGED <<exec, billed, logged>>, unlogged \subseteq unlogged',
           \A b \in billed : b \in logged \/ b \in unlogged'
    PROVE  Booked'
<1>1. Costs' = Costs BY DEF Costs, Range
<1>2. Parses(exec') => \A b \in logged' : InLog(b)'
  BY <1>1 DEF SpendInv, Booked, InLog
<1>. QED BY <1>2 DEF SpendInv, Booked

LEMMA ClosingIs ==
    /\ Closing["lanes"] = "close lanes" /\ Closing["podB"] = "close podB" /\ Closing["podA"] = "close podA"
    /\ \A place \in BurstPlace \ {"close lanes", "close podB", "close podA"} :
          \A p \in Part : place # Closing[p]
BY DEF Closing, Part

\* A burst that is not about to close a part has its bills booked.
LEMMA AllBooked ==
    ASSUME SpendInv, \A p \in Part : at # Closing[p]
    PROVE  \A b \in billed : b \in logged \/ b \in unlogged
BY DEF SpendInv, SpendTypes, Booked

\* What Allowed looks at.
AllowedBy(o, D, number, when) ==
    (\E r \in D : r.n < number /\ when - r.ts < Cooldown)
        => "quota" \in o /\ Cardinality({r \in D : r.n < number}) < Limit

LEMMA AllowedIs == ASSUME NEW number, NEW when PROVE Allowed(number, when) <=> AllowedBy(on, Dispatches, number, when)
BY DEF Allowed, AllowedBy

LEMMA StillAllowed ==
    ASSUME NEW o, NEW D, NEW E, IsFiniteSet(D), NEW number, NEW when,
           \A r \in E : r.n < number => r \in D, AllowedBy(o, D, number, when)
    PROVE  AllowedBy(o, E, number, when)
<1> DEFINE d == {r \in D : r.n < number}
           e == {r \in E : r.n < number}
<1>1. e \subseteq d /\ d \subseteq D OBVIOUS
<1>2. IsFiniteSet(d) BY <1>1, FS_Subset
<1>3. IsFiniteSet(e) /\ Cardinality(e) <= Cardinality(d) BY <1>1, <1>2, FS_Subset
<1>4. Cardinality(e) \in Nat /\ Cardinality(d) \in Nat BY <1>2, <1>3, FS_CardinalityType
<1> HIDE DEF d, e
<1>5. Cardinality(d) < Limit => Cardinality(e) < Limit BY <1>3, <1>4, SpendBound
<1>. QED BY <1>5 DEF AllowedBy, d, e

LEMMA DispatchesFinite ==
    ASSUME SpendTypes
    PROVE  IsFiniteSet(Dispatches) /\ Dispatches \subseteq EvidenceRow
<1>1. evid.rows \in Seq(EvidenceRow) BY DEF SpendTypes, LedgerOK, LedgerRecord
<1>2. IsFiniteSet(Range(evid.rows)) /\ Range(evid.rows) \subseteq EvidenceRow BY <1>1, RangeFinite
<1>3. Dispatches \subseteq Range(evid.rows) BY DEF Dispatches
<1>. QED BY <1>2, <1>3, FS_Subset

\* The evidence ledger may only lose rows of earlier bursts.
LEMMA PacedStays ==
    ASSUME SpendInv, UNCHANGED <<on, n, paid>>, at' = at \/ (at = "gate" /\ at' = "lanes") \/ at' \notin {"gate", "lanes"},
           since' = since,
           \A r \in Dispatches' : r \in Dispatches \/ r.n = n
    PROVE  Paced'
<1>1. SpendTypes /\ Paced /\ n \in Nat BY DEF SpendInv, SpendTypes
<1>2. ASSUME NEW number, NEW when, number <= n, number \in Nat, Allowed(number, when)
      PROVE  AllowedBy(on', Dispatches', number, when)
  <2>1. IsFiniteSet(Dispatches) BY <1>1, DispatchesFinite
  <2>2. \A r \in Dispatches' : r.n < number => r \in Dispatches BY <1>1, <1>2
  <2>3. AllowedBy(on, Dispatches, number, when) BY <1>2, AllowedIs
  <2>4. AllowedBy(on, Dispatches', number, when) BY <2>1, <2>2, <2>3, StillAllowed
  <2>. QED BY <2>4
<1>3. ASSUME at' \in {"gate", "lanes"} PROVE AllowedBy(on', Dispatches', n', since')
  <2>1. Allowed(n, since) BY <1>1, <1>3 DEF Paced
  <2>2. AllowedBy(on', Dispatches', n, since) BY <1>1, <1>2, <2>1
  <2>. QED BY <2>2
<1>4. ASSUME NEW p \in paid PROVE p.n <= n /\ AllowedBy(on', Dispatches', p.n, p.ts)
  <2>1. p.n <= n /\ Allowed(p.n, p.ts) /\ p.n \in Nat BY <1>1 DEF Paced, SpendTypes
  <2>. QED BY <1>2, <2>1
<1>5. /\ AllowedBy(on', Dispatches', n', since') => Allowed(n, since)'
      /\ \A p \in paid : AllowedBy(on', Dispatches', p.n, p.ts) => Allowed(p.n, p.ts)'
  BY DEF Allowed, AllowedBy
<1>. QED BY <1>3, <1>4, <1>5 DEF Paced

\* The evidence ledger is written.
LEMMA RecordStep ==
    ASSUME SpendInv, NEW d \in BOOLEAN, Record(d)
    PROVE  /\ LedgerOK(evid', EvidenceRow) /\ noted' \subseteq EvidenceRow
           /\ \A r \in Dispatches' : r \in Dispatches \/ (d /\ r = Row(TRUE))
           /\ \A m \in noted' : m \in noted \/ (d /\ m = Row(TRUE))
           /\ Parses(evid') => noted' \subseteq Dispatches'
<1>0. SpendTypes /\ LedgerOK(evid, EvidenceRow) /\ noted \subseteq EvidenceRow
  BY DEF SpendInv, SpendTypes
<1>1. PICK row : row = Row(d) OBVIOUS
<1>2. row \in EvidenceRow /\ row.dispatched = d /\ (d => row = Row(TRUE))
  <2>1. usd \in [Part -> 0..MaxUsd] /\ NoCost \in [Part -> 0..MaxUsd] BY <1>0, SpendBound DEF SpendTypes, NoCost
  <2>2. (IF d THEN usd ELSE NoCost) \in [Part -> 0..MaxUsd] BY <2>1
  <2>. QED BY <1>0, <1>1, <2>2 DEF Row, EvidenceRow, SpendTypes
<1>3. evid' \in Failed(evid, row) BY <1>1 DEF Record, Failed
<1>4. LedgerOK(evid', EvidenceRow) BY <1>0, <1>2, <1>3, Appends
<1>5. \A r \in Range(evid'.rows) : r = row \/ r \in Range(evid.rows) BY <1>0, <1>2, <1>3, AppendedRows
<1>6. Parses(evid') => /\ Parses(evid) /\ Range(evid.rows) \subseteq Range(evid'.rows)
                       /\ evid' = Written(evid, row) => row \in Range(evid'.rows)
  BY <1>0, <1>2, <1>3, ParsedRows
<1>7. noted' = noted \/ (d /\ noted' = noted \cup {row} /\ evid' = Written(evid, row))
  BY <1>1, <1>2 DEF Record
<1>8. \A r \in Dispatches' : r \in Dispatches \/ (d /\ r = Row(TRUE)) BY <1>2, <1>5 DEF Dispatches
<1>9. Parses(evid') => noted' \subseteq Dispatches'
  BY <1>2, <1>6, <1>7 DEF Dispatches, SpendInv, Notes
<1>. QED BY <1>0, <1>2, <1>4, <1>7, <1>8, <1>9

LEMMA NotesStay ==
    ASSUME SpendInv, n' = n, billed' = billed, clock' \in Nat, clock <= clock',
           at' # "idle" => at # "idle", noted' = noted, Dispatches' \subseteq Dispatches,
           Parses(evid') => noted' \subseteq Dispatches'
    PROVE  Notes'
<1>1. \A r \in Dispatches : r.ts \in Nat BY DispatchesFinite DEF SpendInv, EvidenceRow
<1>2. \A r \in Dispatches' : r.n <= n' /\ (at' # "idle" => r.n < n') /\ r.ts <= clock'
  BY <1>1 DEF SpendInv, SpendTypes, Notes
<1>. QED BY <1>2 DEF SpendInv, Notes

\* The executor log is written.
LEMMA ExecStep ==
    ASSUME SpendInv, NEW entry \in ExecutorRow, exec' \in Failed(exec, entry)
    PROVE  /\ LedgerOK(exec', ExecutorRow)
           /\ \A r \in Range(exec'.rows) : r = entry \/ r \in Range(exec.rows)
           /\ Parses(exec') => /\ \A b \in logged : InLog(b)'
                               /\ exec' = Written(exec, entry) => entry \in Range(exec'.rows)
<1>1. LedgerOK(exec, ExecutorRow) BY DEF SpendInv, SpendTypes
<1>2. LedgerOK(exec', ExecutorRow) BY <1>1, Appends
<1>3. \A r \in Range(exec'.rows) : r = entry \/ r \in Range(exec.rows) BY <1>1, AppendedRows
<1>4. Parses(exec') => /\ Parses(exec) /\ Range(exec.rows) \subseteq Range(exec'.rows)
                       /\ exec' = Written(exec, entry) => entry \in Range(exec'.rows)
  BY <1>1, ParsedRows
<1>5. Parses(exec') => Costs \subseteq Costs' BY <1>4 DEF Costs
<1>6. Parses(exec') => \A b \in logged : InLog(b) BY <1>4 DEF SpendInv, Booked
<1>7. Parses(exec') => \A b \in logged : InLog(b)' BY <1>5, <1>6 DEF InLog
<1>. QED BY <1>2, <1>3, <1>4, <1>7

LEMMA EntryType ==
    ASSUME SpendInv, NEW phase \in {"start", "end"}, NEW p \in Part, NEW c \in (0..MaxUsd) \cup {Unpriced}
    PROVE  Entry(phase, p, c) \in ExecutorRow
BY DEF Entry, ExecutorRow, SpendInv, SpendTypes

LEMMA AskStep == ASSUME SpendInv, Ask PROVE SpendInv'
<1>0. /\ SpendTypes /\ Billing /\ Booked /\ Notes /\ Paced /\ n \in Nat /\ clock \in Nat /\ MaxUsd \in Nat
      /\ at = "idle" /\ n' = n + 1 /\ since' = clock /\ usd' = NoCost /\ at' \in {"refused", "gate"}
      /\ UNCHANGED <<on, raised, clock, exec, evid, billed, logged, noted, unlogged, paid>>
  BY SpendBound DEF SpendInv, SpendTypes, Ask
<1>1. SpendTypes'
  <2>1. usd' \in [Part -> 0..MaxUsd] BY <1>0 DEF NoCost
  <2>2. n' \in Nat /\ n' >= 1 BY <1>0
  <2>3. since' \in Nat /\ clock' \in Nat /\ since' <= clock' BY <1>0
  <2>4. at' \in BurstPlace BY <1>0 DEF BurstPlace
  <2>. QED BY <1>0, <2>1, <2>2, <2>3, <2>4 DEF SpendTypes
<1>2. Billing'
  <2>1. \A b \in billed : b.n <= n /\ b.n \in Nat BY <1>0 DEF Billing, SpendTypes
  <2>2. \A b \in billed' : b.n <= n' /\ b.n # n' BY <1>0, <2>1
  <2>3. {b \in billed' : b.n = n'} = {} BY <2>2
  <2>4. \A p \in Part : usd'[p] = 0 BY <1>0 DEF NoCost
  <2>5. usd'["lanes"] = 0 /\ usd'["podB"] = 0 /\ usd'["podA"] = 0 BY <2>4 DEF Part
  <2>6. Usd({b \in billed' : b.n = n'}) = 0 BY <2>3, UsdEmpty
  <2>7. \A k \in Nat : Usd({b \in billed' : b.n = k}) <= MaxUsd BY <1>0 DEF Billing
  <2>8. \A p \in Part : at' # Closing[p] BY <1>0, ClosingIs DEF BurstPlace
  <2>9. \A b, c \in billed' : b.n = c.n /\ b.part = c.part => b = c BY <1>0 DEF Billing
  <2>. QED BY <1>0, <2>2, <2>4, <2>5, <2>6, <2>7, <2>8, <2>9 DEF Billing
<1>3. Booked'
  <2>1. \A p \in Part : at # Closing[p] BY <1>0, ClosingIs DEF BurstPlace
  <2>. QED BY <1>0, <2>1, AllBooked, BookedStays
<1>4. Notes'
  <2>1. Dispatches' = Dispatches BY <1>0 DEF Dispatches, Range
  <2>2. \A m \in noted : m.n <= n /\ m.n \in Nat BY <1>0 DEF Notes, SpendTypes, EvidenceRow
  <2>3. \A r \in Dispatches : r.n <= n /\ r.n \in Nat /\ r.ts <= clock
    BY <1>0, DispatchesFinite DEF Notes, EvidenceRow
  <2>4. \A m \in noted' : m.n <= n' /\ m.n < n' BY <1>0, <2>2
  <2>5. \A r \in Dispatches' : r.n <= n' /\ r.n < n' /\ r.ts <= clock' BY <1>0, <2>1, <2>3
  <2>. QED BY <1>0, <2>1, <2>4, <2>5 DEF Notes
<1>5. Paced'
  <2>0. Dispatches' = Dispatches BY <1>0 DEF Dispatches, Range
  <2>1. \A p \in paid' : p.n <= n' /\ Allowed(p.n, p.ts)'
    <3>1. SUFFICES ASSUME NEW p \in paid PROVE p.n <= n' /\ AllowedBy(on', Dispatches', p.n, p.ts)
      BY <1>0 DEF Allowed, AllowedBy
    <3>2. p.n \in Nat /\ p.n <= n /\ Allowed(p.n, p.ts) BY <1>0 DEF Paced, SpendTypes
    <3>3. AllowedBy(on, Dispatches, p.n, p.ts) BY <3>2, AllowedIs
    <3>. QED BY <1>0, <2>0, <3>2, <3>3
  <2>2. ASSUME at' = "gate" PROVE AllowedBy(on, Dispatches, n + 1, clock)
    <3>1. {r \in Dispatches : r.n < n + 1} = Dispatches
      <4>1. \A r \in Dispatches : r.n <= n /\ r.n \in Nat BY <1>0, DispatchesFinite DEF Notes, EvidenceRow
      <4>. QED BY <1>0, <4>1
    <3>2. SUFFICES ASSUME NEW r \in Dispatches, clock - r.ts < Cooldown PROVE Cooling
      BY <2>2, <3>1 DEF Ask, QuotaLeft, AllowedBy
    <3> DEFINE T == {q.ts : q \in Dispatches}
    <3>3. T \subseteq 0..clock /\ r.ts \in T
      <4>1. \A q \in Dispatches : q.ts \in Nat /\ q.ts <= clock BY <1>0, DispatchesFinite DEF Notes, EvidenceRow
      <4>. QED BY <4>1
    <3> HIDE DEF T
    <3>4. \E x \in T : \A y \in T : y <= x BY <1>0, <3>3, GreatestUpto
    <3>5. Max(T) \in T /\ \A y \in T : y <= Max(T) BY <3>4 DEF Max
    <3>6. Max(T) \in 0..clock /\ r.ts \in 0..clock /\ r.ts <= Max(T) BY <3>3, <3>5
    <3>7. clock - Max(T) < Cooldown BY <1>0, <3>2, <3>6, SpendBound
    <3>. QED BY <3>7 DEF Cooling, LastAttempt, T
  <2>3. at' \in {"gate", "lanes"} => Allowed(n, since)'
    BY <1>0, <2>0, <2>2 DEF Allowed, AllowedBy
  <2>. QED BY <2>1, <2>3 DEF Paced
<1>. QED BY <1>1, <1>2, <1>3, <1>4, <1>5 DEF SpendInv

LEMMA RefuseStep == ASSUME SpendInv, Refuse PROVE SpendInv'
<1>0. /\ SpendTypes /\ at \in {"refused", "error"} /\ at' = "idle" /\ Record(FALSE)
      /\ UNCHANGED <<on, raised, n, since, usd, clock, exec, billed, logged, unlogged, paid>>
  BY DEF SpendInv, Refuse
<1>1. /\ LedgerOK(evid', EvidenceRow) /\ noted' = noted /\ Dispatches' \subseteq Dispatches
      /\ Parses(evid') => noted' \subseteq Dispatches'
  BY <1>0, RecordStep DEF Record
<1>2. SpendTypes' BY <1>0, <1>1 DEF SpendTypes, BurstPlace
<1>3. \A p \in Part : at # Closing[p] /\ at' # Closing[p] BY <1>0, ClosingIs DEF BurstPlace
<1>4. Billing' BY <1>0, <1>2, <1>3, BillingStays DEF Spent, SpendTypes
<1>5. Booked' BY <1>0, <1>3, AllBooked, BookedStays
<1>6. Notes' BY <1>0, <1>1, NotesStay DEF SpendTypes
<1>7. Paced' BY <1>0, <1>1, PacedStays
<1>. QED BY <1>2, <1>4, <1>5, <1>6, <1>7 DEF SpendInv

LEMMA GateStep == ASSUME SpendInv, Gate PROVE SpendInv'
<1>0. /\ SpendTypes /\ at = "gate" /\ at' \in {"refused", "lanes"}
      /\ Record(FALSE) \/ UNCHANGED <<evid, noted, faults>>
      /\ UNCHANGED <<on, raised, n, since, usd, clock, exec, billed, logged, unlogged, paid>>
  BY DEF SpendInv, Gate
<1>1. /\ LedgerOK(evid', EvidenceRow) /\ noted' = noted /\ Dispatches' \subseteq Dispatches
      /\ Parses(evid') => noted' \subseteq Dispatches'
  <2>1. CASE Record(FALSE) BY <2>1, RecordStep DEF Record
  <2>2. CASE UNCHANGED <<evid, noted, faults>>
    BY <2>2 DEF SpendInv, SpendTypes, Notes, Dispatches, Range
  <2>. QED BY <1>0, <2>1, <2>2
<1>2. SpendTypes' BY <1>0, <1>1 DEF SpendTypes, BurstPlace
<1>3. \A p \in Part : at # Closing[p] /\ at' # Closing[p] BY <1>0, ClosingIs DEF BurstPlace
<1>4. Billing' BY <1>0, <1>2, <1>3, BillingStays DEF Spent, SpendTypes
<1>5. Booked' BY <1>0, <1>3, AllBooked, BookedStays
<1>6. Notes' BY <1>0, <1>1, NotesStay DEF SpendTypes
<1>7. Paced' BY <1>0, <1>1, PacedStays
<1>. QED BY <1>2, <1>4, <1>5, <1>6, <1>7 DEF SpendInv

LEMMA OpenStep == ASSUME SpendInv, Open PROVE SpendInv'
<1> DEFINE entry == Entry("start", "lanes", Unpriced)
<1>0. /\ SpendTypes /\ at = "lanes" /\ at' = "call" /\ paid' = paid \cup {[n |-> n, ts |-> since]}
      /\ UNCHANGED <<on, raised, n, since, usd, clock, evid, billed, logged, noted, unlogged>>
      /\ exec' \in Failed(exec, entry)
  BY DEF SpendInv, Open, Emit, EmitFails, Failed
<1>1. entry \in ExecutorRow /\ entry.phase = "start"
  <2>1. entry \in ExecutorRow BY EntryType DEF Part
  <2>. QED BY <2>1 DEF Entry
<1> HIDE DEF entry
<1>2. /\ LedgerOK(exec', ExecutorRow)
      /\ \A r \in Range(exec'.rows) : r = entry \/ r \in Range(exec.rows)
      /\ Parses(exec') => \A b \in logged : InLog(b)'
  BY <1>0, <1>1, ExecStep
<1>3. SpendTypes' BY <1>0, <1>2 DEF SpendTypes, BurstPlace
<1>4. \A p \in Part : at # Closing[p] /\ at' # Closing[p] BY <1>0, ClosingIs DEF BurstPlace
<1>5. Billing' BY <1>0, <1>3, <1>4, BillingStays DEF Spent, SpendTypes
<1>6. Booked'
  <2>1. \A b \in billed' : b \in logged' \/ b \in unlogged' BY <1>0, <1>4, AllBooked
  <2>2. \A r \in Range(exec'.rows) : r.phase = "end" /\ r.usd # Unpriced => BillOf(r) \in billed'
    BY <1>0, <1>1, <1>2 DEF SpendInv, Booked
  <2>. QED BY <1>0, <1>2, <2>1, <2>2 DEF Booked
<1>7. Dispatches' = Dispatches BY <1>0 DEF Dispatches, Range
<1>8. Notes'
  <2>1. Parses(evid') => noted' \subseteq Dispatches' BY <1>0, <1>7 DEF SpendInv, Notes
  <2>. QED BY <1>0, <1>7, <2>1, NotesStay DEF SpendTypes
<1>9. Paced'
  <2>1. \A p \in paid' : p.n <= n /\ Allowed(p.n, p.ts)
    BY <1>0 DEF SpendInv, Paced, SpendTypes
  <2>2. \A p \in paid' : AllowedBy(on', Dispatches', p.n, p.ts)
    BY <1>0, <1>7, <2>1 DEF Allowed, AllowedBy
  <2>3. \A p \in paid' : p.n <= n' /\ Allowed(p.n, p.ts)'
    BY <1>0, <2>1, <2>2 DEF Allowed, AllowedBy
  <2>. QED BY <1>0, <2>3 DEF Paced
<1>. QED BY <1>3, <1>5, <1>6, <1>8, <1>9 DEF SpendInv

\* A step that leaves the evidence as it is.
LEMMA EvidenceStays ==
    ASSUME SpendInv, UNCHANGED <<on, n, since, clock, evid, noted, billed, paid>>,
           at # "idle", at' \notin {"gate", "lanes"}
    PROVE  Notes' /\ Paced'
<1>1. Dispatches' = Dispatches BY DEF Dispatches, Range
<1>2. Parses(evid') => noted' \subseteq Dispatches' BY <1>1 DEF SpendInv, Notes
<1>3. Notes' BY <1>1, <1>2, NotesStay DEF SpendInv, SpendTypes
<1>4. Paced' BY <1>1, PacedStays
<1>. QED BY <1>3, <1>4

\* The executor log and the bills after a part was closed.
LEMMA CloseStep ==
    ASSUME SpendInv, NEW part \in Part, NEW next \in {"podB", "podA", "row"}, Close(part, next),
           at = Closing[part], Spent(at) \subseteq Spent(next)
    PROVE  SpendInv'
<1> DEFINE full == Entry("end", part, usd[part])
           none == Entry("end", part, Unpriced)
<1>b. PICK bill : bill = [n |-> n, part |-> part, usd |-> usd[part]] OBVIOUS
<1>0. /\ SpendTypes /\ at' \in {"error", next} /\ at # "idle"
      /\ UNCHANGED <<on, n, since, usd, clock, evid, billed, noted, paid>>
  BY ClosingIs DEF SpendInv, Close, Part
<1>1. /\ full \in ExecutorRow /\ none \in ExecutorRow
      /\ full.phase = "end" /\ full.n = n /\ full.part = part /\ full.usd = usd[part] /\ full.usd # Unpriced
      /\ none.usd = Unpriced
  <2>1. usd[part] \in 0..MaxUsd BY <1>0 DEF SpendTypes
  <2>2. full \in ExecutorRow /\ none \in ExecutorRow BY <2>1, EntryType
  <2>3. usd[part] # Unpriced BY <2>1, SpendBound DEF Unpriced
  <2>. QED BY <2>2, <2>3 DEF Entry
<1>2. PICK entry \in {full, none} :
        /\ exec' \in Failed(exec, entry)
        /\ \/ exec' = Written(exec, full) /\ entry = full /\ logged' = logged \cup {bill} /\ unlogged' = unlogged
           \/ logged' = logged /\ unlogged' = unlogged \cup {bill}
  BY <1>b DEF Close, Emit, EmitFails, Failed
<1>3. bill \in billed /\ BillOf(full) = bill
  BY <1>0, <1>1, <1>b DEF SpendInv, Billing, BillOf
<1>4. \A b \in billed : b \in logged \/ b \in unlogged \/ b = bill
  <2>1. SUFFICES ASSUME NEW b \in billed, b.n = n, at = Closing[b.part] PROVE b = bill
    BY DEF SpendInv, Booked
  <2>2. b \in [n : Nat, part : Part, usd : 0..MaxUsd] BY <1>0 DEF SpendTypes
  <2>3. b.part = part BY <2>1, <2>2, ClosingIs DEF Part
  <2>4. b.usd = usd[part] BY <2>1, <2>3 DEF SpendInv, Billing
  <2>. QED BY <1>b, <2>1, <2>2, <2>3, <2>4
<1> HIDE DEF full, none
<1>5. /\ LedgerOK(exec', ExecutorRow)
      /\ \A r \in Range(exec'.rows) : r = entry \/ r \in Range(exec.rows)
      /\ Parses(exec') => /\ \A b \in logged : InLog(b)'
                          /\ exec' = Written(exec, entry) => entry \in Range(exec'.rows)
  BY <1>1, <1>2, ExecStep
<1>6. Parses(exec') /\ exec' = Written(exec, full) /\ entry = full => InLog(bill)'
  <2>1. SUFFICES ASSUME full \in Range(exec'.rows) PROVE InLog(bill)' BY <1>5
  <2>2. full \in Costs' BY <1>1, <2>1 DEF Costs
  <2>3. full.n = bill.n /\ full.part = bill.part /\ full.usd = bill.usd BY <1>3 DEF BillOf
  <2>. QED BY <2>2, <2>3 DEF InLog
<1>7. Booked'
  <2>1. \A b \in billed' : b \in logged' \/ b \in unlogged' BY <1>0, <1>2, <1>4
  <2>2. Parses(exec') => \A b \in logged' : InLog(b)' BY <1>2, <1>5, <1>6
  <2>3. \A r \in Range(exec'.rows) : r.phase = "end" /\ r.usd # Unpriced => BillOf(r) \in billed'
    BY <1>0, <1>1, <1>2, <1>3, <1>5 DEF SpendInv, Booked
  <2>. QED BY <2>1, <2>2, <2>3 DEF Booked
<1>8. SpendTypes'
  <2>1. logged' \subseteq billed' BY <1>0, <1>2, <1>3 DEF SpendTypes
  <2>2. at' \in BurstPlace BY <1>0 DEF BurstPlace
  <2>. QED BY <1>0, <1>5, <2>1, <2>2 DEF SpendTypes
<1>9. Billing'
  <2>1. \A p \in Part : at' # Closing[p] BY <1>0, ClosingIs DEF BurstPlace
  <2>2. Spent(at) \subseteq Spent("error")
    <3>1. Spent("error") = Part BY DEF Spent
    <3>2. Spent(at) \subseteq Part BY DEF Spent, Part
    <3>. QED BY <3>1, <3>2
  <2>3. Spent(at) \subseteq Spent(at') BY <1>0, <2>2
  <2>. QED BY <1>0, <1>8, <2>1, <2>3, BillingStays DEF SpendTypes
<1>10. Notes' /\ Paced' BY <1>0, EvidenceStays
<1>. QED BY <1>7, <1>8, <1>9, <1>10 DEF SpendInv

\* A part is billed: within what is left of the budget, and for the first time.
LEMMA CalledStep ==
    ASSUME SpendInv, NEW part \in Part, Called(part, Closing[part]), at # "idle", \A p \in Part : at # Closing[p],
           part \notin Spent(at), Spent(Closing[part]) = Spent(at) \cup {part},
           Spent(at) = CASE part = "lanes" -> {} [] part = "podB" -> {"lanes"} [] part = "podA" -> {"lanes", "podB"},
           UNCHANGED <<on, n, since, clock, exec, evid, logged, noted, unlogged, paid>>
    PROVE  SpendInv'
<1>0. SpendTypes /\ n \in Nat /\ MaxUsd \in Nat /\ usd \in [Part -> 0..MaxUsd]
  BY SpendBound DEF SpendInv, SpendTypes
<1>1. CASE at' = "error" /\ UNCHANGED <<usd, billed, raised>>
  <2>1. SpendTypes' BY <1>0, <1>1 DEF SpendTypes, BurstPlace
  <2>2. \A p \in Part : at' # Closing[p] BY <1>1, ClosingIs DEF BurstPlace
  <2>3. Spent(at) \subseteq Spent(at') BY <1>1 DEF Spent, Part
  <2>4. Billing' BY <1>1, <2>1, <2>2, <2>3, BillingStays DEF SpendTypes
  <2>5. Booked' BY <1>1, AllBooked, BookedStays
  <2>6. Notes' /\ Paced' BY <1>1, EvidenceStays
  <2>. QED BY <2>1, <2>4, <2>5, <2>6 DEF SpendInv
<1>2. CASE \E cost \in 0..Budget(part) :
             /\ usd' = [usd EXCEPT ![part] = cost]
             /\ billed' = billed \cup {[n |-> n, part |-> part, usd |-> cost]}
             /\ at' = Closing[part]
  <2>1. PICK cost \in 0..Budget(part) :
             /\ usd' = [usd EXCEPT ![part] = cost]
             /\ billed' = billed \cup {[n |-> n, part |-> part, usd |-> cost]}
             /\ at' = Closing[part]
    BY <1>2
  <2>2. PICK bill : bill = [n |-> n, part |-> part, usd |-> cost] OBVIOUS
  <2>3. bill.n = n /\ bill.part = part /\ bill.usd = cost BY <2>2
  <2>4. /\ usd["lanes"] \in 0..MaxUsd /\ usd["podB"] \in 0..MaxUsd /\ usd["podA"] \in 0..MaxUsd
        /\ part # "podA" => usd["podA"] = 0
        /\ part = "lanes" => usd["podB"] = 0
        /\ usd[part] = 0
    BY <1>0 DEF Part, SpendInv, Billing
  <2>5. /\ cost \in Nat
        /\ cost <= Budget(part)
        /\ Budget(part) = MaxUsd - (usd["lanes"] + usd["podB"] + usd["podA"])
    <3>1. Budget(part) = MaxUsd - (usd["lanes"] + usd["podB"] + usd["podA"])
      <4>1. CASE part = "lanes" BY <1>0, <2>4, <4>1 DEF Budget
      <4>2. CASE part = "podB" BY <1>0, <2>4, <4>2 DEF Budget
      <4>3. CASE part = "podA" BY <1>0, <2>4, <4>3 DEF Budget
      <4>. QED BY <4>1, <4>2, <4>3 DEF Part
    <3>. QED BY <1>0, <2>1, <2>4, <3>1
  <2>6. /\ cost \in 0..MaxUsd /\ usd' \in [Part -> 0..MaxUsd]
        /\ usd'[part] = cost /\ \A p \in Part \ {part} : usd'[p] = usd[p]
    BY <1>0, <2>1, <2>4, <2>5
  <2>7. /\ usd'["lanes"] + usd'["podB"] + usd'["podA"] = usd["lanes"] + usd["podB"] + usd["podA"] + cost
        /\ usd'["lanes"] + usd'["podB"] + usd'["podA"] <= MaxUsd
    <3>1. usd'["lanes"] + usd'["podB"] + usd'["podA"] = usd["lanes"] + usd["podB"] + usd["podA"] + cost
      <4>1. CASE part = "lanes" BY <2>4, <2>5, <2>6, <4>1 DEF Part
      <4>2. CASE part = "podB" BY <2>4, <2>5, <2>6, <4>2 DEF Part
      <4>3. CASE part = "podA" BY <2>4, <2>5, <2>6, <4>3 DEF Part
      <4>. QED BY <4>1, <4>2, <4>3 DEF Part
    <3>. QED BY <1>0, <2>4, <2>5, <3>1
  <2>8. /\ billed \subseteq [n : Nat, part : Part, usd : 0..MaxUsd] /\ IsFiniteSet(billed)
        /\ bill \in [n : Nat, part : Part, usd : 0..MaxUsd]
        /\ billed' = billed \cup {bill}
    BY <1>0, <2>1, <2>2, <2>6 DEF SpendTypes
  <2>9. SpendTypes'
    <3>1. IsFiniteSet(billed') BY <2>8, FS_AddElement
    <3>2. at' \in BurstPlace BY <2>1, ClosingIs DEF Part, BurstPlace
    <3>. QED BY <1>0, <2>6, <2>8, <3>1, <3>2 DEF SpendTypes
  <2>10. ASSUME NEW b \in billed PROVE b.n <= n /\ (b.n = n => b.part # part /\ b.part \in Spent(at) /\ b.usd = usd'[b.part])
    BY <2>6, <2>8 DEF SpendInv, Billing
  <2>11. bill \notin billed BY <2>3, <2>10
  <2>12. ASSUME NEW k \in Nat
         PROVE  Usd({b \in billed' : b.n = k}) = Usd({b \in billed : b.n = k}) + (IF k = n THEN cost ELSE 0)
    <3> DEFINE S == {b \in billed : b.n = k}
    <3>1. IsFiniteSet(S) /\ bill \notin S /\ \A r \in S \cup {bill} : r.usd \in Int
      BY <2>8, <2>11, FS_Subset
    <3>2. CASE k = n
      <4>1. {b \in billed' : b.n = k} = S \cup {bill} BY <2>3, <2>8, <3>2
      <4> HIDE DEF S
      <4>2. Usd(S \cup {bill}) = Usd(S) + bill.usd BY <3>1, UsdAdds
      <4>. QED BY <2>3, <3>2, <4>1, <4>2 DEF S
    <3>3. CASE k # n
      <4>1. {b \in billed' : b.n = k} = S BY <2>3, <2>8, <3>3
      <4>2. Usd(S) \in Int
        <5>1. Usd(S) = SumOf([r \in S |-> r.usd], S) BY UsdIs
        <5>2. Summable([r \in S |-> r.usd], S) BY <3>1 DEF Summable
        <5> HIDE DEF S
        <5>. QED BY <5>1, <5>2, SumOfType
      <4>3. PICK u \in Int : u = Usd(S) BY <4>2
      <4>4. u + 0 = u OBVIOUS
      <4>5. Usd({b \in billed' : b.n = k}) = u BY <4>1, <4>3
      <4>6. Usd({b \in billed : b.n = k}) = u BY <4>3
      <4>. HIDE DEF S
      <4>. QED BY <3>3, <4>4, <4>5, <4>6
    <3>. QED BY <3>2, <3>3
  <2>13. Billing'
    <3>1. \A b \in billed' : b.n <= n' /\ (b.n = n' => b.part \in Spent(at') /\ b.usd = usd'[b.part])
      <4>1. part \in Spent(at') /\ \A p \in Spent(at) : p \in Spent(at') BY <2>1
      <4>2. ASSUME NEW b \in billed PROVE b.n <= n /\ (b.n = n => b.part \in Spent(at') /\ b.usd = usd'[b.part])
        BY <2>10, <4>1
      <4>3. bill.n <= n /\ bill.part \in Spent(at') /\ bill.usd = usd'[bill.part] BY <1>0, <2>3, <2>6, <4>1
      <4>. QED BY <2>8, <4>2, <4>3
    <3>2. \A b, c \in billed' : b.n = c.n /\ b.part = c.part => b = c
      <4>1. \A b, c \in billed : b.n = c.n /\ b.part = c.part => b = c BY DEF SpendInv, Billing
      <4>2. \A b \in billed : b.n = bill.n => b.part # bill.part BY <2>3, <2>10
      <4>. QED BY <2>8, <4>1, <4>2
    <3>3. \A p \in Part \ Spent(at') : usd'[p] = 0 BY <2>1, <2>6 DEF SpendInv, Billing
    <3>4. \A p \in Part : at' = Closing[p] => [n |-> n', part |-> p, usd |-> usd'[p]] \in billed'
      <4>1. SUFFICES ASSUME NEW p \in Part, Closing[part] = Closing[p]
                     PROVE  [n |-> n, part |-> p, usd |-> usd'[p]] \in billed'
        BY <2>1
      <4>2. p = part BY <4>1, ClosingIs DEF Part
      <4>. QED BY <2>1, <2>6, <4>2
    <3>5. Usd({b \in billed' : b.n = n'}) = usd'["lanes"] + usd'["podB"] + usd'["podA"]
      <4>1. Usd({b \in billed : b.n = n}) = usd["lanes"] + usd["podB"] + usd["podA"] BY DEF SpendInv, Billing
      <4>2. Usd({b \in billed' : b.n = n}) = Usd({b \in billed : b.n = n}) + cost BY <1>0, <2>12
      <4>. QED BY <2>7, <4>1, <4>2
    <3>6. ASSUME NEW k \in Nat PROVE Usd({b \in billed' : b.n = k}) <= MaxUsd
      <4>1. CASE k = n BY <2>7, <3>5, <4>1
      <4>2. CASE k # n
        <5>1. Usd({b \in billed : b.n = k}) <= MaxUsd BY DEF SpendInv, Billing
        <5>2. Usd({b \in billed : b.n = k}) \in Int
          <6> DEFINE S == {b \in billed : b.n = k}
          <6>0. IsFiniteSet(S) BY <2>8, FS_Subset
          <6>1. Usd(S) = SumOf([r \in S |-> r.usd], S) BY UsdIs
          <6>2. Summable([r \in S |-> r.usd], S) BY <2>8, <6>0 DEF Summable
          <6> HIDE DEF S
          <6>3. Usd(S) \in Int BY <6>1, <6>2, SumOfType
          <6>. QED BY <6>3 DEF S
        <5>3. PICK u \in Int : u = Usd({b \in billed : b.n = k}) BY <5>2
        <5>4. Usd({b \in billed' : b.n = k}) = u + 0 BY <2>12, <4>2, <5>3
        <5>. QED BY <5>1, <5>3, <5>4
      <4>. QED BY <4>1, <4>2
    <3>. QED BY <2>7, <3>1, <3>2, <3>3, <3>4, <3>5, <3>6 DEF Billing
  <2>14. Booked'
    <3>1. \A b \in billed : b \in logged \/ b \in unlogged BY AllBooked
    <3>2. Costs' = Costs BY DEF Costs, Range
    <3>3. Parses(exec') => \A b \in logged' : InLog(b)' BY <3>2 DEF SpendInv, Booked, InLog
    <3>4. \A b \in billed' : b \in logged' \/ b \in unlogged' \/ (b.n = n' /\ at' = Closing[b.part])
      BY <2>1, <2>3, <2>8, <3>1
    <3>. QED BY <2>8, <3>3, <3>4 DEF SpendInv, Booked
  <2>15. Notes'
    <3>1. Dispatches' = Dispatches BY DEF Dispatches, Range
    <3>2. at' # "idle" BY <2>1, ClosingIs DEF Part
    <3>3. \A m \in noted, b \in billed' : b.n = m.n => b.usd = m.usd[b.part]
      <4>1. \A m \in noted : m.n < n BY DEF SpendInv, Notes
      <4>2. \A m \in noted : m.n \in Nat BY <1>0 DEF SpendTypes, EvidenceRow
      <4>. QED BY <1>0, <2>3, <2>8, <4>1, <4>2 DEF SpendInv, Notes
    <3>. QED BY <3>1, <3>2, <3>3 DEF SpendInv, Notes
  <2>16. Paced'
    <3>1. Dispatches' = Dispatches BY DEF Dispatches, Range
    <3>2. at' \notin {"gate", "lanes"} BY <2>1, ClosingIs DEF Part
    <3>. QED BY <3>1, <3>2, PacedStays
  <2>. QED BY <2>9, <2>13, <2>14, <2>15, <2>16 DEF SpendInv
<1>3. \/ at' = "error" /\ UNCHANGED <<usd, billed, raised>>
      \/ \E cost \in 0..Budget(part) :
             /\ usd' = [usd EXCEPT ![part] = cost]
             /\ billed' = billed \cup {[n |-> n, part |-> part, usd |-> cost]}
             /\ at' = Closing[part]
  BY DEF Called
<1>. QED BY <1>1, <1>2, <1>3

LEMMA SpentIs ==
    /\ Spent("call") = {} /\ Spent("close lanes") = {"lanes"} /\ Spent("podB") = {"lanes"}
    /\ Spent("close podB") = {"lanes", "podB"} /\ Spent("podA") = {"lanes", "podB"}
    /\ Spent("close podA") = Part /\ Spent("row") = Part
BY DEF Spent

LEMMA CallStep == ASSUME SpendInv, Call PROVE SpendInv'
<1>1. at = "call" /\ UNCHANGED <<on, n, since, clock, exec, evid, logged, noted, unlogged, paid>> BY DEF Call
<1>2. \A p \in Part : at # Closing[p] BY <1>1, ClosingIs DEF BurstPlace
<1>3. Called("lanes", Closing["lanes"]) BY ClosingIs DEF Call
<1>4. "lanes" \notin Spent(at) /\ Spent(at) = {} /\ Spent(Closing["lanes"]) = Spent(at) \cup {"lanes"}
  BY <1>1, SpentIs, ClosingIs
<1>. QED BY <1>1, <1>2, <1>3, <1>4, CalledStep DEF Part

LEMMA PodStep ==
    ASSUME SpendInv, NEW part \in {"podB", "podA"}, Pod(part, Closing[part], IF part = "podB" THEN "podA" ELSE "row")
    PROVE  SpendInv'
<1> DEFINE next == IF part = "podB" THEN "podA" ELSE "row"
<1>1. /\ SpendTypes /\ at = part
      /\ UNCHANGED <<on, n, since, clock, exec, evid, logged, noted, unlogged, paid>>
  BY DEF Pod, SpendInv
<1>2. \A p \in Part : at # Closing[p] BY <1>1, ClosingIs DEF BurstPlace
<1>3. CASE Called(part, Closing[part])
  <2>1. part \notin Spent(at) /\ Spent(Closing[part]) = Spent(at) \cup {part}
        /\ Spent(at) = IF part = "podB" THEN {"lanes"} ELSE {"lanes", "podB"}
    BY <1>1, SpentIs, ClosingIs DEF Part
  <2>2. CASE part = "podB" BY <1>1, <1>2, <1>3, <2>1, <2>2, CalledStep DEF Part
  <2>3. CASE part = "podA" BY <1>1, <1>2, <1>3, <2>1, <2>3, CalledStep DEF Part
  <2>. QED BY <2>2, <2>3
<1>4. CASE at' = next /\ UNCHANGED <<usd, billed, raised, faults>>
  <2>1. at' \in {"podA", "row"} /\ (at = "podB" => at' = "podA") /\ (at = "podA" => at' = "row") BY <1>1, <1>4
  <2>2. SpendTypes' BY <1>1, <1>4, <2>1 DEF SpendTypes, BurstPlace
  <2>3. \A p \in Part : at' # Closing[p] BY <2>1, ClosingIs DEF BurstPlace
  <2>4. Spent(at) \subseteq Spent(at') BY <1>1, <2>1, SpentIs DEF Part
  <2>5. Billing' BY <1>1, <1>4, <2>2, <2>3, <2>4, BillingStays DEF SpendTypes
  <2>6. Booked' BY <1>1, <1>2, <1>4, AllBooked, BookedStays
  <2>7. Notes' /\ Paced' BY <1>1, <1>4, <2>1, EvidenceStays
  <2>. QED BY <2>2, <2>5, <2>6, <2>7 DEF SpendInv
<1>. QED BY <1>3, <1>4 DEF Pod

\* The burst is over: its row tells its bills.
LEMMA FinishStep == ASSUME SpendInv, Finish PROVE SpendInv'
<1>0. /\ SpendTypes /\ at = "row" /\ at' = "idle" /\ Record(TRUE)
      /\ UNCHANGED <<on, raised, n, since, usd, clock, exec, billed, logged, unlogged, paid>>
  BY DEF SpendInv, Finish
<1>1. PICK row : row = Row(TRUE) OBVIOUS
<1>2. row.n = n /\ row.ts = since /\ row.usd = usd BY <1>1 DEF Row
<1>3. /\ LedgerOK(evid', EvidenceRow) /\ noted' \subseteq EvidenceRow
      /\ \A r \in Dispatches' : r \in Dispatches \/ r = row
      /\ \A m \in noted' : m \in noted \/ m = row
      /\ Parses(evid') => noted' \subseteq Dispatches'
  BY <1>0, <1>1, RecordStep
<1>4. SpendTypes' BY <1>0, <1>3 DEF SpendTypes, BurstPlace
<1>5. \A p \in Part : at # Closing[p] /\ at' # Closing[p] BY <1>0, ClosingIs DEF BurstPlace
<1>6. Billing'
  <2>1. Spent(at) \subseteq Spent(at') BY <1>0 DEF Spent
  <2>. QED BY <1>0, <1>4, <1>5, <2>1, BillingStays DEF SpendTypes
<1>7. Booked' BY <1>0, <1>5, AllBooked, BookedStays
<1>8. Notes'
  <2>1. \A m \in noted : m.n \in Nat /\ m.n < n BY <1>0 DEF SpendInv, Notes, SpendTypes, EvidenceRow
  <2>2. \A m, q \in noted' : m.n = q.n => m = q
    <3>1. \A m, q \in noted : m.n = q.n => m = q BY DEF SpendInv, Notes
    <3>2. \A m \in noted : m.n # row.n BY <1>0, <1>2, <2>1 DEF SpendTypes
    <3>. QED BY <1>3, <3>1, <3>2
  <2>3. \A m \in noted' : m.n <= n BY <1>0, <1>2, <1>3, <2>1 DEF SpendTypes
  <2>4. \A m \in noted', b \in billed : b.n = m.n => b.usd = m.usd[b.part]
    <3>1. \A b \in billed : b.n = row.n => b.usd = row.usd[b.part] BY <1>2 DEF SpendInv, Billing
    <3>. QED BY <1>3, <3>1 DEF SpendInv, Notes
  <2>5. \A r \in Dispatches' : r.n <= n /\ r.ts <= clock
    <3>1. row.n <= n /\ row.ts <= clock BY <1>0, <1>2 DEF SpendTypes
    <3>2. \A r \in Dispatches : r.n <= n /\ r.ts <= clock BY DEF SpendInv, Notes
    <3>. QED BY <1>3, <3>1, <3>2
  <2>. QED BY <1>0, <1>3, <2>2, <2>3, <2>4, <2>5 DEF Notes
<1>9. Paced'
  <2>1. \A r \in Dispatches' : r \in Dispatches \/ r.n = n BY <1>2, <1>3
  <2>. QED BY <1>0, <2>1, PacedStays
<1>. QED BY <1>4, <1>6, <1>7, <1>8, <1>9 DEF SpendInv

LEMMA SpendCrashStep == ASSUME SpendInv, Crash PROVE SpendInv'
<1>0. /\ SpendTypes /\ at' = "idle"
      /\ unlogged' = unlogged \cup {b \in billed : b.n = n /\ b \notin logged}
      /\ UNCHANGED <<on, n, since, usd, clock, exec, evid, billed, logged, noted, paid>>
  BY DEF SpendInv, Crash
<1>1. SpendTypes' BY <1>0 DEF SpendTypes, BurstPlace
<1>2. \A p \in Part : at' # Closing[p] BY <1>0, ClosingIs DEF BurstPlace
<1>3. Spent(at) \subseteq Spent(at') BY <1>0 DEF Spent, Part
<1>4. Billing' BY <1>0, <1>1, <1>2, <1>3, BillingStays DEF SpendTypes
<1>5. Booked'
  <2>1. \A b \in billed : b \in logged \/ b \in unlogged' BY <1>0 DEF SpendInv, Booked
  <2>. QED BY <1>0, <2>1, BookedStays
<1>6. Dispatches' = Dispatches BY <1>0 DEF Dispatches, Range
<1>7. Notes'
  <2>1. Parses(evid') => noted' \subseteq Dispatches' BY <1>0, <1>6 DEF SpendInv, Notes
  <2>. QED BY <1>0, <1>6, <2>1, NotesStay DEF SpendTypes
<1>8. Paced' BY <1>0, <1>6, PacedStays
<1>. QED BY <1>1, <1>4, <1>5, <1>7, <1>8 DEF SpendInv

LEMMA WaitStep == ASSUME SpendInv, Wait PROVE SpendInv'
<1>0. /\ SpendTypes /\ at = "idle" /\ clock \in Nat /\ clock' = clock + 1 /\ clock' \in Nat /\ clock <= clock'
      /\ UNCHANGED <<on, at, raised, n, since, usd, exec, evid, billed, logged, noted, unlogged, paid>>
  BY DEF SpendInv, SpendTypes, Wait
<1>1. SpendTypes' BY <1>0 DEF SpendTypes
<1>2. \A p \in Part : at # Closing[p] /\ at' # Closing[p] BY <1>0, ClosingIs DEF BurstPlace
<1>3. Billing' BY <1>0, <1>1, <1>2, BillingStays DEF SpendTypes
<1>4. Booked' BY <1>0, <1>2, AllBooked, BookedStays
<1>5. Dispatches' = Dispatches BY <1>0 DEF Dispatches, Range
<1>6. Notes'
  <2>1. Parses(evid') => noted' \subseteq Dispatches' BY <1>0, <1>5 DEF SpendInv, Notes
  <2>. QED BY <1>0, <1>5, <2>1, NotesStay
<1>7. Paced' BY <1>0, <1>5, PacedStays
<1>. QED BY <1>1, <1>3, <1>4, <1>6, <1>7 DEF SpendInv

LEMMA SpendStarts == ASSUME NEW switches, SpendInit(switches) PROVE SpendInv
<1>0. /\ at = "idle" /\ n = 0 /\ since = 0 /\ usd = NoCost /\ clock = 0
      /\ exec = NewLedger /\ evid = NewLedger
      /\ billed = {} /\ logged = {} /\ noted = {} /\ unlogged = {} /\ paid = {}
  BY DEF SpendInit
<1>1. LedgerOK(exec, ExecutorRow) /\ LedgerOK(evid, EvidenceRow) /\ exec.rows = <<>> /\ evid.rows = <<>>
  BY <1>0, NewLedgerOK
<1>2. Range(exec.rows) = {} /\ Range(evid.rows) = {} BY <1>1 DEF Range
<1>3. usd \in [Part -> 0..MaxUsd] /\ usd["lanes"] = 0 /\ usd["podB"] = 0 /\ usd["podA"] = 0
      /\ \A p \in Part : usd[p] = 0
  BY <1>0, SpendBound DEF NoCost, Part
<1>4. SpendTypes
  <2>1. IsFiniteSet(billed) BY <1>0, FS_EmptySet
  <2>. QED BY <1>0, <1>1, <1>3, <2>1 DEF SpendTypes, BurstPlace
<1>5. Billing
  <2>1. \A p \in Part : at # Closing[p] BY <1>0, ClosingIs DEF BurstPlace
  <2>2. \A k \in Nat : {b \in billed : b.n = k} = {} BY <1>0
  <2>3. \A k \in Nat : Usd({b \in billed : b.n = k}) = 0 BY <2>2, UsdEmpty
  <2>4. n \in Nat BY <1>0
  <2>5. Usd({b \in billed : b.n = n}) = 0 BY <2>3, <2>4
  <2>6. usd["lanes"] + usd["podB"] + usd["podA"] = 0 /\ 0 <= MaxUsd BY <1>3, SpendBound
  <2>7. \A k \in Nat : Usd({b \in billed : b.n = k}) <= MaxUsd BY <2>3, <2>6
  <2>. QED BY <1>0, <1>3, <2>1, <2>5, <2>6, <2>7 DEF Billing
<1>6. Booked BY <1>0, <1>2 DEF Booked
<1>7. Notes BY <1>0, <1>2 DEF Notes, Dispatches
<1>8. Paced BY <1>0 DEF Paced
<1>. QED BY <1>4, <1>5, <1>6, <1>7, <1>8 DEF SpendInv

LEMMA SpendStep == ASSUME SpendInv, [SpendNext]_spendVars PROVE SpendInv'
<1>1. CASE CloseLanes
  <2>1. at = Closing["lanes"] /\ Spent(at) \subseteq Spent("podB")
        /\ Close("lanes", "podB")
    BY <1>1, ClosingIs, SpentIs DEF CloseLanes
  <2>. QED BY <2>1, CloseStep DEF Part
<1>2. CASE Pod("podB", "close podB", "podA") \/ Pod("podA", "close podA", "row")
  BY <1>2, ClosingIs, PodStep
<1>3. CASE ClosePod("podB", "close podB", "podA")
  <2>1. at = Closing["podB"] /\ Spent(at) \subseteq Spent("podA") /\ Close("podB", "podA")
    BY <1>3, ClosingIs, SpentIs DEF ClosePod
  <2>. QED BY <2>1, CloseStep DEF Part
<1>4. CASE ClosePod("podA", "close podA", "row")
  <2>1. at = Closing["podA"] /\ Spent(at) \subseteq Spent("row") /\ Close("podA", "row")
    BY <1>4, ClosingIs, SpentIs DEF ClosePod
  <2>. QED BY <2>1, CloseStep DEF Part
<1>5. CASE UNCHANGED spendVars
  <2>0. /\ at' = at
        /\ UNCHANGED <<on, raised, n, since, usd, clock, exec, evid, billed, logged, noted, unlogged, paid, faults>>
    BY <1>5 DEF spendVars
  <2>1. SpendTypes' BY <2>0 DEF SpendInv, SpendTypes
  <2>2. Billing' BY <2>0 DEF SpendInv, Billing
  <2>3. Costs' = Costs /\ Dispatches' = Dispatches BY <2>0 DEF Costs, Dispatches, Range
  <2>4. Booked'
    <3>1. Parses(exec') => \A b \in logged' : InLog(b)' BY <2>0, <2>3 DEF SpendInv, Booked, InLog
    <3>. QED BY <2>0, <3>1 DEF SpendInv, Booked
  <2>5. Notes' BY <2>0, <2>3 DEF SpendInv, Notes
  <2>6. Paced' BY <2>0, <2>3, PacedStays
  <2>. QED BY <2>1, <2>2, <2>4, <2>5, <2>6 DEF SpendInv
<1>. QED BY <1>1, <1>2, <1>3, <1>4, <1>5, AskStep, RefuseStep, GateStep, OpenStep, CallStep,
         FinishStep, SpendCrashStep, WaitStep DEF SpendNext

LEMMA CostsAre ==
    ASSUME SpendInv
    PROVE  /\ IsFiniteSet(Costs)
           /\ \A r \in Costs : r \in ExecutorRow /\ r.phase = "end" /\ r.usd \in Nat /\ BillOf(r) \in billed
           /\ \A r, s \in Costs : r.n = s.n /\ r.part = s.part => r = s
<1>0. exec.rows \in Seq(ExecutorRow) BY DEF SpendInv, SpendTypes, LedgerOK, LedgerRecord
<1>1. IsFiniteSet(Range(exec.rows)) /\ Range(exec.rows) \subseteq ExecutorRow BY <1>0, RangeFinite
<1>2. IsFiniteSet(Costs)
  <2>1. Costs \subseteq Range(exec.rows) BY DEF Costs
  <2>. QED BY <1>1, <2>1, FS_Subset
<1>3. \A r \in Costs : r \in ExecutorRow /\ r.phase = "end" /\ r.usd # Unpriced BY <1>1 DEF Costs
<1>4. \A r \in Costs : r.usd \in Nat BY <1>3, SpendBound DEF ExecutorRow
<1>5. \A r \in Costs : BillOf(r) \in billed BY DEF SpendInv, Booked, Costs
<1>6. ASSUME NEW r \in Costs, NEW s \in Costs, r.n = s.n, r.part = s.part PROVE r = s
  <2>1. BillOf(r) = BillOf(s) BY <1>5, <1>6 DEF SpendInv, Billing, BillOf
  <2>2. r.usd = s.usd BY <2>1 DEF BillOf
  <2>. QED BY <1>3, <1>6, <2>2 DEF ExecutorRow
<1>. QED BY <1>2, <1>3, <1>4, <1>5, <1>6

\* The spend that noted bursts tell and the log lacks is outweighed in the log.
LEMMA GapIsCovered == ASSUME SpendInv PROVE PassMissesNoGap
<1> DEFINE PodB(r) == [n |-> r.n, part |-> "podB", usd |-> r.usd["podB"]]
           lost == {r \in noted : ~InLog(PodB(r))}
           matched == noted \ lost
           C == {r \in Costs : r.part = "podB"}
           unnoted == {r \in Costs : r.part = "podB" /\ \A m \in noted : m.n # r.n}
           answering == C \ unnoted
           e == [r \in EvidenceRow |-> r.usd["podB"]]
           c == [r \in C |-> r.usd]
           m == [x \in matched |-> CHOOSE r \in C : r.n = x.n]
<1>0. SUFFICES ASSUME Status = "PASS" PROVE UsdOf("podB", lost) <= Usd(unnoted)
  BY DEF PassMissesNoGap
<1>1. Parses(evid) /\ ~PodBShort BY <1>0 DEF Status
<1>2. SpendTypes /\ noted \subseteq EvidenceRow /\ noted \subseteq Dispatches
      /\ IsFiniteSet(Dispatches) /\ Dispatches \subseteq EvidenceRow
  BY <1>1, DispatchesFinite DEF SpendInv, SpendTypes, Notes
<1>3. \A r \in EvidenceRow : e[r] = r.usd["podB"] /\ e[r] \in Nat BY SpendBound DEF EvidenceRow, Part
<1>4. IsFiniteSet(noted) /\ IsFiniteSet(lost) /\ IsFiniteSet(matched) /\ lost \subseteq noted /\ matched \subseteq noted
      /\ lost \cap matched = {} /\ lost \cup matched = noted
  BY <1>2, FS_Subset
<1>5. IsFiniteSet(C) /\ IsFiniteSet(answering) /\ IsFiniteSet(unnoted) /\ answering \subseteq C /\ unnoted \subseteq C
      /\ answering \cap unnoted = {} /\ answering \cup unnoted = C
  BY CostsAre, FS_Subset
<1>6. \A r \in C : c[r] = r.usd /\ c[r] \in Nat BY CostsAre
<1>7. ASSUME NEW r \in C, NEW x \in noted, r.n = x.n
      PROVE  r.usd = x.usd["podB"] /\ x \in matched
  <2>1. BillOf(r) \in billed BY CostsAre
  <2>2. BillOf(r).n = x.n /\ BillOf(r).part = "podB" /\ BillOf(r).usd = r.usd BY <1>7 DEF BillOf
  <2>3. r.usd = x.usd["podB"] BY <2>1, <2>2 DEF SpendInv, Notes
  <2>4. InLog(PodB(x)) BY <1>7, <2>3 DEF InLog
  <2>. QED BY <2>3, <2>4
<1>8. ASSUME NEW x \in matched PROVE m[x] \in C /\ m[x].n = x.n
  <2>1. \E r \in C : r.n = x.n
    <3>1. InLog(PodB(x)) OBVIOUS
    <3>2. PodB(x).n = x.n /\ PodB(x).part = "podB" OBVIOUS
    <3>. QED BY <3>1, <3>2 DEF InLog
  <2>. QED BY <2>1
<1>9. \A x, y \in matched : m[x] = m[y] => x = y
  <2>1. \A x, y \in noted : x.n = y.n => x = y BY DEF SpendInv, Notes
  <2>. QED BY <1>4, <1>8, <2>1
<1>10. \A x \in matched : c[m[x]] = e[x] BY <1>2, <1>3, <1>4, <1>6, <1>7, <1>8
<1>11. {m[x] : x \in matched} = answering
  <2>1. ASSUME NEW x \in matched PROVE m[x] \in answering
    <3>1. m[x] \in C /\ m[x].n = x.n /\ x \in noted BY <1>8
    <3>. QED BY <3>1
  <2>2. ASSUME NEW r \in answering PROVE \E x \in matched : r = m[x]
    <3>1. PICK x \in noted : x.n = r.n OBVIOUS
    <3>2. r \in C /\ x \in matched BY <1>7, <3>1
    <3>3. m[x] \in C /\ m[x].n = r.n BY <1>8, <3>1, <3>2
    <3>4. r = m[x] BY <3>2, <3>3, CostsAre
    <3>. QED BY <3>2, <3>4
  <2>. HIDE DEF m, answering, matched
  <2>. QED BY <2>1, <2>2
<1>12. UsdOf("podB", Dispatches) = SumOf(e, Dispatches) /\ UsdOf("podB", lost) = SumOf(e, lost)
  BY <1>2, <1>4, UsdOfIs
<1>13. Usd(C) = SumOf(c, C) /\ Usd(unnoted) = SumOf(c, unnoted) BY <1>5, UsdIs
<1>14. LoggedSpend("podB") = Usd(C) BY DEF LoggedSpend
<1>15. \A x \in matched : x \in EvidenceRow BY <1>2, <1>4
<1> HIDE DEF e, c, C, answering, unnoted, lost, matched, m
<1>16. SumOf(e, noted) = SumOf(e, lost) + SumOf(e, matched)
  <2>1. Summable(e, lost) /\ Summable(e, matched) BY <1>2, <1>3, <1>4 DEF Summable
  <2>. QED BY <1>4, <2>1, SumOfParts
<1>17. SumOf(c, C) = SumOf(c, answering) + SumOf(c, unnoted)
  <2>1. Summable(c, answering) /\ Summable(c, unnoted) BY <1>5, <1>6 DEF Summable
  <2>. QED BY <1>5, <2>1, SumOfParts
<1>18. SumOf(c, answering) = SumOf(e, matched)
  <2>1. Summable(e, matched) BY <1>3, <1>4, <1>15 DEF Summable
  <2>2. SumOf(c, {m[x] : x \in matched}) = SumOf(e, matched) BY <1>9, <1>10, <2>1, SumOfImage
  <2>. QED BY <1>11, <2>2
<1>19. SumOf(e, noted) <= SumOf(e, Dispatches)
  <2>1. \A r \in Dispatches : e[r] \in Nat BY <1>2, <1>3
  <2>. QED BY <1>2, <2>1, SumOfPart
<1>20. PICK a \in Nat, b \in Nat, d \in Nat, k \in Nat :
          a = SumOf(e, lost) /\ b = SumOf(e, matched) /\ d = SumOf(e, Dispatches) /\ k = SumOf(c, unnoted)
  <2>1. SumOf(e, lost) \in Nat BY <1>2, <1>3, <1>4, SumOfNat
  <2>2. SumOf(e, matched) \in Nat BY <1>3, <1>4, <1>15, SumOfNat
  <2>3. SumOf(e, Dispatches) \in Nat BY <1>2, <1>3, SumOfNat
  <2>4. SumOf(c, unnoted) \in Nat BY <1>5, <1>6, SumOfNat
  <2>. QED BY <2>1, <2>2, <2>3, <2>4
<1>21. a + b <= d BY <1>16, <1>19, <1>20
<1>22. SumOf(c, C) = b + k BY <1>17, <1>18, <1>20
<1>23. d <= b + k
  <2>1. ~(UsdOf("podB", Dispatches) > Usd(C)) BY <1>1, <1>14 DEF PodBShort, EvidenceSpend
  <2>2. ~(d > b + k) BY <1>12, <1>13, <1>20, <1>22, <2>1
  <2>. QED BY <1>20, <2>2
<1>24. a <= k BY <1>20, <1>21, <1>23
<1>. QED BY <1>12, <1>13, <1>20, <1>24

LEMMA BillsHold == ASSUME SpendInv PROVE BillsAreSeen
<1>1. CapSeesWhatWasLogged BY DEF SpendInv, Booked, CapSeesWhatWasLogged
<1>2. MissingBillHasReason
  <2>1. SUFFICES ASSUME NEW b \in billed, b.n = n, at = Closing[b.part] PROVE at # "idle"
    BY <1>1 DEF SpendInv, Booked, MissingBillHasReason, CapSeesWhatWasLogged
  <2>2. b.part \in Part BY DEF SpendInv, SpendTypes
  <2>. QED BY <2>1, <2>2, ClosingIs DEF Part
<1>3. BurstWithinBudget
  <2>1. \A k \in 1..MaxBursts : k \in Nat OBVIOUS
  <2>. QED BY <2>1 DEF SpendInv, Billing, BurstWithinBudget
<1>4. PacingHasReason
  <2>1. \A p \in paid : Allowed(p.n, p.ts) BY DEF SpendInv, Paced
  <2>. QED BY <2>1 DEF Allowed, PacingHasReason
<1>. QED BY <1>1, <1>2, <1>3, <1>4, GapIsCovered DEF BillsAreSeen

\* The readers of the executor log and of the evidence ledger see what was
\* billed: a bill that was reported as written is in the log or no sum is formed,
\* a missing one has a reason, a burst keeps to its budget, one that follows too
\* soon uses the quota, and a reconciliation that passes overlooks no gap.
\* (executor_log.py, si_evidence.py, daily_cost_cap.py, cost_reconcile.py)
THEOREM BillsAreTold == Spec => []BillsAreSeen
<1>1. Init => SpendInv BY SpendStarts DEF Init
<1>2. SpendInv /\ [Next]_vars => SpendInv'
  <2>1. [Next]_vars => [SpendNext]_spendVars
    BY DEF Next, WriteRows, Account, Observe, Inspect, vars, recordVars, spendVars
  <2>. QED BY <2>1, SpendStep
<1>3. SpendInv => BillsAreSeen BY BillsHold
<1>. QED BY <1>1, <1>2, <1>3, PTL DEF Spec

(***************************************************************************)
(* What the next cycle is told (EpisodeLog)                                *)
(*                                                                         *)
(* As long as no append failed, the file holds what the callers handed     *)
(* over, in the order of the cycles: the last row of a cycle that worked   *)
(* is a row of the last cycle that did. A HALT row is where no append can  *)
(* reach it, was raised, or lies in a spoilt line.                         *)
(***************************************************************************)
EpisodeRow == [cycle : Nat, event : Working \cup {"COST", "HALT"}]
Halt(c) == [cycle |-> c, event |-> "HALT"]

EpisodeTypes ==
    /\ LedgerOK(epi, EpisodeRow)
    /\ cycle \in Nat /\ ended \in BOOLEAN /\ (~ended => cycle >= 1)
    /\ failures \in Nat
    /\ emitted \subseteq EpisodeRow
    /\ \A r \in emitted : r.cycle <= cycle /\ (r.cycle = NoCycle => r.event \in {"COST", "HUMAN"})

\* No append has failed.
Whole ==
    /\ ~epi.open /\ ~epi.torn
    /\ Range(epi.rows) = emitted
    /\ \A i, j \in 1..Len(epi.rows) :
          i < j /\ epi.rows[i].cycle # NoCycle /\ epi.rows[j].cycle # NoCycle
              => epi.rows[i].cycle <= epi.rows[j].cycle

\* What the cycles before this one did.
Others(current) == {r \in emitted : r.event # "COST" /\ r.cycle \notin {NoCycle, current}}
RightNote(note, current) ==
    LET worked == {r.cycle : r \in Others(current)}
    IN /\ note.prev = IF worked = {} THEN NoCycle ELSE Max(worked)
       /\ note.prev # current
       /\ note.halt <=> Halt(note.prev) \in emitted
       /\ note.failed <=> [cycle |-> note.prev, event |-> "VERIFY red"] \in emitted
       /\ ~Silent(note) => note.prev # NoCycle

EpisodeInv ==
    /\ EpisodeTypes
    /\ failures = 0 => Whole
    /\ failures = 0 /\ cycle >= 1 => RightNote(told, cycle)
    /\ \A c \in Nat : Halt(c) \in emitted => c \in audit \/ epi.junk \/ Halt(c) \in Range(Kept(epi))

LEMMA MaxIs == ASSUME NEW S \in SUBSET Int, NEW m \in S, \A y \in S : y <= m PROVE Max(S) = m
<1>1. \A y \in S : m >= y OBVIOUS
<1>2. Max(S) \in S /\ \A y \in S : Max(S) >= y BY <1>1 DEF Max
<1>3. m \in Int /\ Max(S) \in Int BY <1>2
<1>4. Max(S) >= m /\ Max(S) <= m BY <1>2
<1>. QED BY <1>3, <1>4

\* The summary made of a whole file.
LEMMA SummaryIsRight ==
    ASSUME EpisodeTypes, Whole, NEW current \in Nat, current = cycle + 1
    PROVE  RightNote(Summary(current), current)
<1> DEFINE lines == epi.rows
           prior == Prior(current)
           worked == {r.cycle : r \in Others(current)}
           own == {i \in prior : lines[i].cycle \in worked}
           prev == Previous(current)
<1>1. /\ lines \in Seq(EpisodeRow) /\ Len(lines) \in Nat /\ DOMAIN lines = 1..Len(lines)
      /\ \A i \in 1..Len(lines) : lines[i] \in EpisodeRow /\ lines[i] \in emitted
      /\ \A r \in emitted : \E i \in 1..Len(lines) : r = lines[i]
  <2>1. lines \in Seq(EpisodeRow) BY DEF EpisodeTypes, LedgerOK, LedgerRecord
  <2>2. Len(lines) \in Nat /\ DOMAIN lines = 1..Len(lines) /\ \A i \in 1..Len(lines) : lines[i] \in EpisodeRow
    BY <2>1, SeqFacts
  <2>3. Range(lines) = emitted BY DEF Whole
  <2>. QED BY <2>1, <2>2, <2>3 DEF Range
<1>2. prior = 1..Len(lines)
  <2>1. \A i \in 1..Len(lines) : lines[i].cycle # current
    <3>1. \A i \in 1..Len(lines) : lines[i].cycle <= cycle /\ lines[i].cycle \in Nat
      BY <1>1 DEF EpisodeTypes, EpisodeRow
    <3>2. cycle \in Nat BY DEF EpisodeTypes
    <3>. QED BY <3>1, <3>2
  <2>. QED BY <1>1, <2>1 DEF Prior, ReadRows
<1>3. Worked(current) = worked
  <2>1. ASSUME NEW c \in Worked(current) PROVE c \in worked
    <3>1. PICK i \in prior : lines[i].event # "COST" /\ c = lines[i].cycle /\ c # NoCycle
      BY DEF Worked, ReadRows
    <3>2. lines[i] \in Others(current) BY <1>1, <1>2, <3>1 DEF Others, Prior, ReadRows
    <3>. QED BY <3>1, <3>2
  <2>2. ASSUME NEW c \in worked PROVE c \in Worked(current)
    <3>1. PICK r \in Others(current) : c = r.cycle OBVIOUS
    <3>2. PICK i \in 1..Len(lines) : r = lines[i] BY <1>1, <3>1 DEF Others
    <3>. QED BY <1>2, <3>1, <3>2 DEF Others, Worked, ReadRows
  <2>. QED BY <2>1, <2>2
<1>4. worked \subseteq Nat
  <2>1. \A r \in Others(current) : r.cycle \in Nat BY DEF Others, EpisodeTypes, EpisodeRow
  <2>. QED BY <2>1
<1>5. prev = IF own = {} THEN NoCycle ELSE lines[Max(own)].cycle BY <1>3 DEF Previous, ReadRows
<1>6. own \subseteq 1..Len(lines) /\ \A i \in own : lines[i].cycle \in worked BY <1>2
<1>7. \A c \in worked : \E i \in own : c = lines[i].cycle
  <2>1. SUFFICES ASSUME NEW r \in Others(current) PROVE \E i \in own : r.cycle = lines[i].cycle OBVIOUS
  <2>2. PICK i \in 1..Len(lines) : r = lines[i] BY <1>1 DEF Others
  <2>3. lines[i].cycle \in worked BY <2>2
  <2>. QED BY <1>2, <2>2, <2>3
<1>8. NoCycle \notin worked /\ current \notin worked BY DEF Others
<1> HIDE DEF own, worked, prev
<1>9. prev = IF worked = {} THEN NoCycle ELSE Max(worked)
  <2>1. CASE worked = {} BY <1>5, <1>6, <2>1
  <2>2. CASE worked # {}
    <3>1. own # {} BY <1>7, <2>2
    <3>2. PICK m \in own : \A i \in own : i <= m BY <1>1, <1>6, <3>1, GreatestOf
    <3>3. Max(own) = m
      <4>1. own \subseteq Int BY <1>1, <1>6
      <4>. QED BY <3>2, <4>1, MaxIs
    <3>4. ASSUME NEW c \in worked PROVE c <= lines[m].cycle
      <4>1. PICK i \in own : c = lines[i].cycle BY <1>7
      <4>2. i <= m /\ i \in 1..Len(lines) /\ m \in 1..Len(lines) BY <1>6, <3>2
      <4>3. lines[i].cycle # NoCycle /\ lines[m].cycle # NoCycle BY <1>6, <1>8
      <4>4. CASE i = m BY <1>4, <4>1, <4>4
      <4>5. CASE i < m BY <4>1, <4>2, <4>3, <4>5 DEF Whole
      <4>. QED BY <4>2, <4>4, <4>5
    <3>5. lines[m].cycle \in worked BY <1>6
    <3>6. Max(worked) = lines[m].cycle
      <4>1. worked \subseteq Int BY <1>4
      <4>. QED BY <3>4, <3>5, <4>1, MaxIs
    <3>. QED BY <1>5, <2>2, <3>1, <3>3, <3>6
  <2>. QED BY <2>1, <2>2
<1>10. prev \in worked \/ prev = NoCycle
  <2>1. CASE own = {} BY <1>5, <2>1
  <2>2. CASE own # {}
    <3>1. PICK m \in own : \A i \in own : i <= m BY <1>1, <1>6, <2>2, GreatestOf
    <3>2. own \subseteq Int BY <1>1, <1>6
    <3>3. Max(own) = m BY <3>1, <3>2, MaxIs
    <3>. QED BY <1>5, <1>6, <2>2, <3>1, <3>3
  <2>. QED BY <2>1, <2>2
<1>11. prev # current
  <2>1. NoCycle # current BY DEF EpisodeTypes, NoCycle
  <2>. QED BY <1>8, <1>10, <2>1
<1> DEFINE did == {lines[i].event : i \in {k \in prior : lines[k].cycle = prev /\ prev # NoCycle}}
<1>12. ASSUME NEW event \in {"HALT", "VERIFY red"}
       PROVE  event \in did <=> [cycle |-> prev, event |-> event] \in emitted
  <2>1. ASSUME event \in did PROVE [cycle |-> prev, event |-> event] \in emitted
    <3>1. PICK i \in prior : lines[i].cycle = prev /\ lines[i].event = event BY <2>1
    <3>2. lines[i] = [cycle |-> prev, event |-> event] BY <1>1, <1>2, <3>1 DEF EpisodeRow
    <3>. QED BY <1>1, <1>2, <3>2
  <2>2. ASSUME [cycle |-> prev, event |-> event] \in emitted PROVE event \in did
    <3>1. PICK row \in emitted : row.cycle = prev /\ row.event = event BY <2>2
    <3>2. prev # NoCycle BY <3>1 DEF EpisodeTypes
    <3>3. PICK i \in 1..Len(lines) : row = lines[i] BY <1>1
    <3>. QED BY <1>2, <3>1, <3>2, <3>3
  <2>. QED BY <2>1, <2>2
<1>13. prev = NoCycle => did = {} OBVIOUS
<1>14. PICK halt, failed, task, planOnly :
          /\ halt = ("HALT" \in did) /\ failed = ("VERIFY red" \in did) /\ task = ("DISPATCH" \in did)
          /\ planOnly = ("PLAN" \in did /\ did \cap {"DISPATCH", "HALT"} = {})
  OBVIOUS
<1>15. PICK note : note = Summary(current) OBVIOUS
<1>16. note = [prev |-> prev, halt |-> halt, failed |-> failed, task |-> task, planOnly |-> planOnly]
  BY <1>14, <1>15, Zenon DEF Summary, ReadRows, prev
<1> HIDE DEF did
<1>16a. note.prev = prev /\ note.halt = halt /\ note.failed = failed /\ note.task = task /\ note.planOnly = planOnly
  BY <1>16
<1>17. ~Silent(note) => note.prev # NoCycle BY <1>13, <1>14, <1>16a DEF Silent
<1>. QED BY <1>9, <1>11, <1>12, <1>14, <1>15, <1>16a, <1>17 DEF RightNote, Halt, worked

\* A row is appended by the running cycle, or by none.
LEMMA EpisodeAppend ==
    ASSUME EpisodeInv, NEW row \in EpisodeRow,
           row.cycle = cycle \/ row.cycle = NoCycle,
           row.cycle = NoCycle => row.event \in {"COST", "HUMAN"},
           \/ epi' = Written(epi, row) /\ failures' = failures
           \/ epi' \in Failed(epi, row) /\ failures' = failures + 1,
           emitted' = emitted \cup {row}, UNCHANGED <<cycle, told>>,
           ended' \in BOOLEAN, ~ended' => ~ended, audit \subseteq audit',
           row.event = "HALT" => epi' = Written(epi, row) \/ row.cycle \in audit'
    PROVE  EpisodeInv'
<1>0. /\ EpisodeTypes /\ LedgerOK(epi, EpisodeRow) /\ cycle \in Nat /\ failures \in Nat
      /\ emitted \subseteq EpisodeRow /\ row.cycle <= cycle /\ row.cycle \in Nat
      /\ epi' \in Failed(epi, row)
  BY DEF EpisodeInv, EpisodeTypes, Failed, NoCycle
<1>1. EpisodeTypes'
  <2>1. LedgerOK(epi', EpisodeRow) BY <1>0, Appends
  <2>2. failures' \in Nat BY <1>0
  <2>3. \A r \in emitted' : r.cycle <= cycle' /\ (r.cycle = NoCycle => r.event \in {"COST", "HUMAN"})
    BY <1>0 DEF EpisodeTypes
  <2>. QED BY <1>0, <2>1, <2>2, <2>3 DEF EpisodeTypes
<1>2. ASSUME failures' = 0 PROVE Whole'
  <2>1. failures = 0 /\ epi' = Written(epi, row) BY <1>0, <1>2
  <2>2. Whole /\ epi.rows \in Seq(EpisodeRow) /\ ~epi.open /\ ~epi.torn
    BY <1>0, <2>1 DEF EpisodeInv, Whole, LedgerOK, LedgerRecord
  <2>3. epi = [rows |-> epi.rows, open |-> epi.open, torn |-> epi.torn, junk |-> epi.junk]
    BY <1>0 DEF LedgerOK, LedgerRecord
  <2>4. PICK longer \in Seq(EpisodeRow) : longer = Append(epi.rows, row)
    <3>1. Append(epi.rows, row) \in Seq(EpisodeRow) BY <2>2
    <3>. QED BY <3>1
  <2>5. epi' = [rows |-> longer, open |-> epi.open, torn |-> epi.torn, junk |-> epi.junk]
    BY <2>1, <2>2, <2>3, <2>4 DEF Written
  <2>6. epi'.rows = longer /\ ~epi'.open /\ ~epi'.torn BY <2>2, <2>5
  <2>7. PICK k \in Nat : k = Len(epi.rows) BY <2>2
  <2>8. /\ Len(longer) = k + 1 /\ longer[k + 1] = row /\ \A i \in 1..k : longer[i] = epi.rows[i]
        /\ DOMAIN epi.rows = 1..k /\ DOMAIN longer = 1..k + 1
    BY <2>2, <2>4, <2>7, SeqFacts
  <2>9. \A i \in 1..k : epi.rows[i] \in emitted
    BY <2>2, <2>8 DEF Whole, Range
  <2>10. Range(longer) = emitted \cup {row}
    <3>1. Range(longer) = {longer[i] : i \in 1..k + 1} BY <2>8 DEF Range
    <3>2. emitted = {epi.rows[i] : i \in 1..k} BY <2>2, <2>8 DEF Whole, Range
    <3>3. \A i \in 1..k + 1 : i \in 1..k \/ i = k + 1 OBVIOUS
    <3>4. \A i \in 1..k : i \in 1..k + 1 OBVIOUS
    <3>5. k + 1 \in 1..k + 1 OBVIOUS
    <3>6. ASSUME NEW x \in Range(longer) PROVE x \in emitted \cup {row} BY <2>8, <2>9, <3>1, <3>3
    <3>7. ASSUME NEW x \in emitted PROVE x \in Range(longer) BY <2>8, <3>1, <3>2, <3>4
    <3>8. row \in Range(longer) BY <2>8, <3>1, <3>5
    <3>. QED BY <3>6, <3>7, <3>8
  <2>11. ASSUME NEW i \in 1..k + 1, NEW j \in 1..k + 1, i < j,
                longer[i].cycle # NoCycle, longer[j].cycle # NoCycle
         PROVE  longer[i].cycle <= longer[j].cycle
    <3>1. i \in 1..k BY <2>11
    <3>2. CASE j \in 1..k BY <2>2, <2>7, <2>8, <2>11, <3>1, <3>2 DEF Whole
    <3>3. CASE j = k + 1
      <4>1. longer[j].cycle = cycle BY <2>8, <2>11, <3>3
      <4>2. longer[i] \in emitted BY <2>8, <2>9, <3>1
      <4>. QED BY <1>0, <4>1, <4>2 DEF EpisodeTypes
    <3>. QED BY <2>11, <3>2, <3>3
  <2>. QED BY <2>6, <2>8, <2>10, <2>11 DEF Whole
<1>3. ASSUME failures' = 0, cycle' >= 1 PROVE RightNote(told, cycle)'
  <2>1. failures = 0 /\ cycle >= 1 BY <1>0, <1>3
  <2>2. RightNote(told, cycle) BY <2>1 DEF EpisodeInv
  <2>3. Others(cycle)' = Others(cycle) BY DEF Others
  <2>4. told.prev # cycle BY <2>2 DEF RightNote
  <2>5. Halt(told.prev) # row
    <3>1. SUFFICES ASSUME Halt(told.prev) = row PROVE FALSE OBVIOUS
    <3>2. row.cycle = told.prev /\ row.event = "HALT" BY <3>1 DEF Halt
    <3>. QED BY <2>4, <3>2
  <2>6. [cycle |-> told.prev, event |-> "VERIFY red"] # row
    <3>1. SUFFICES ASSUME [cycle |-> told.prev, event |-> "VERIFY red"] = row PROVE FALSE OBVIOUS
    <3>2. row.cycle = told.prev /\ row.event = "VERIFY red" BY <3>1
    <3>. QED BY <2>4, <3>2
  <2>7. Halt(told.prev)' = Halt(told.prev) BY DEF Halt
  <2>. QED BY <2>2, <2>3, <2>5, <2>6, <2>7 DEF RightNote, Silent
<1>4. ASSUME NEW c \in Nat, Halt(c) \in emitted'
      PROVE  c \in audit' \/ epi'.junk \/ Halt(c) \in Range(Kept(epi'))
  <2>1. /\ epi.junk => epi'.junk
        /\ Range(Kept(epi)) \subseteq Range(Kept(epi'))
        /\ epi' = Written(epi, row) => epi'.junk \/ row \in Range(Kept(epi'))
    BY <1>0, KeptStays
  <2>2. CASE Halt(c) \in emitted BY <2>1, <2>2 DEF EpisodeInv
  <2>3. CASE Halt(c) = row
    <3>1. row.cycle = c /\ row.event = "HALT" BY <2>3 DEF Halt
    <3>. QED BY <2>1, <2>3, <3>1
  <2>. QED BY <1>4, <2>2, <2>3
<1>. QED BY <1>1, <1>2, <1>3, <1>4 DEF EpisodeInv, Halt

LEMMA EpisodeEmit ==
    ASSUME EpisodeInv, NEW c \in {cycle, NoCycle}, NEW event \in Working \cup {"COST"}, EmitRow(c, event),
           c = NoCycle => event \in {"COST", "HUMAN"}
    PROVE  EpisodeInv'
<1>1. PICK row : row = [cycle |-> c, event |-> event] OBVIOUS
<1>2. row.cycle = c /\ row.event = event /\ row.event # "HALT" BY <1>1 DEF Working
<1>3. cycle \in Nat /\ ended \in BOOLEAN BY DEF EpisodeInv, EpisodeTypes
<1>4. row \in EpisodeRow BY <1>1, <1>3 DEF EpisodeRow, NoCycle
<1>5. /\ \/ epi' = Written(epi, row) /\ failures' = failures
         \/ epi' \in Failed(epi, row) /\ failures' = failures + 1
      /\ emitted' = emitted \cup {row} /\ UNCHANGED <<cycle, ended, told, audit>>
  BY <1>1 DEF EmitRow, Lose
<1>. QED BY <1>2, <1>3, <1>4, <1>5, EpisodeAppend

LEMMA EpisodeStarts == ASSUME EpisodeInit PROVE EpisodeInv
<1>1. LedgerOK(epi, EpisodeRow) /\ epi.rows = <<>> BY NewLedgerOK DEF EpisodeInit
<1>2. Range(epi.rows) = {} /\ Len(epi.rows) = 0 BY <1>1 DEF Range
<1>3. ~epi.open /\ ~epi.torn BY DEF EpisodeInit, NewLedger
<1>4. EpisodeTypes BY <1>1 DEF EpisodeInit, EpisodeTypes, NoCycle
<1>5. Whole BY <1>2, <1>3 DEF Whole, EpisodeInit
<1>6. ~(cycle >= 1) BY DEF EpisodeInit, NoCycle
<1>. QED BY <1>4, <1>5, <1>6 DEF EpisodeInv, EpisodeInit

LEMMA EpisodeStep == ASSUME EpisodeInv, [EpisodeNext]_episodeVars PROVE EpisodeInv'
<1>0. cycle \in Nat /\ failures \in Nat /\ EpisodeTypes BY DEF EpisodeInv, EpisodeTypes
<1>1. CASE EmitOwn
  <2>1. PICK event \in Working : EmitRow(cycle, event) BY <1>1 DEF EmitOwn
  <2>2. cycle # NoCycle BY <1>0, <1>1 DEF EmitOwn, EpisodeTypes, NoCycle
  <2>. QED BY <2>1, <2>2, EpisodeEmit
<1>2. CASE EmitCost BY <1>2, EpisodeEmit DEF EmitCost
<1>3. CASE EmitPromoted BY <1>3, EpisodeEmit DEF EmitPromoted, Working
<1>4. CASE EmitHalt
  <2>1. PICK row : row = [cycle |-> cycle, event |-> "HALT"] OBVIOUS
  <2>2. row.cycle = cycle /\ row.event = "HALT" /\ row \in EpisodeRow BY <1>0, <2>1 DEF EpisodeRow
  <2>3. cycle # NoCycle BY <1>0, <1>4 DEF EmitHalt, EpisodeTypes, NoCycle
  <2>4. /\ \/ epi' = Written(epi, row) /\ failures' = failures /\ audit' = audit
           \/ epi' \in Failed(epi, row) /\ failures' = failures + 1 /\ audit' = audit \cup {cycle}
        /\ emitted' = emitted \cup {row} /\ ended' = TRUE /\ UNCHANGED <<cycle, told>>
    BY <1>4, <2>1 DEF EmitHalt, Lose, Audited
  <2>. QED BY <2>2, <2>3, <2>4, EpisodeAppend
<1>5. CASE NextCycle
  <2>0. /\ cycle' = cycle + 1 /\ cycle' \in Nat /\ cycle' >= 1 /\ ended' = FALSE
        /\ told' = Summary(cycle + 1) /\ UNCHANGED <<epi, emitted, audit, failures>>
    BY <1>0, <1>5 DEF NextCycle
  <2>1. EpisodeTypes'
    <3>1. \A r \in emitted : r.cycle \in Nat BY <1>0 DEF EpisodeTypes, EpisodeRow
    <3>2. \A r \in emitted : r.cycle <= cycle' BY <1>0, <2>0, <3>1 DEF EpisodeTypes
    <3>. QED BY <1>0, <2>0, <3>2 DEF EpisodeTypes
  <2>2. failures' = 0 => Whole' BY <2>0 DEF EpisodeInv, Whole
  <2>3. ASSUME failures' = 0 PROVE RightNote(told, cycle)'
    <3>1. Whole BY <2>0, <2>3 DEF EpisodeInv
    <3>2. PICK current \in Nat : current = cycle + 1 BY <2>0
    <3>3. RightNote(Summary(current), current) BY <1>0, <3>1, <3>2, SummaryIsRight
    <3>4. PICK note : note = Summary(current) OBVIOUS
    <3>5. told' = note /\ cycle' = current BY <2>0, <3>2, <3>4
    <3>6. RightNote(note, current) BY <3>3, <3>4
    <3>. QED BY <2>0, <3>5, <3>6 DEF RightNote, Others, Halt, Silent
  <2>. QED BY <2>0, <2>1, <2>2, <2>3 DEF EpisodeInv, Halt
<1>6. CASE UNCHANGED episodeVars
  <2>1. UNCHANGED <<epi, cycle, ended, emitted, told, audit, failures>> BY <1>6 DEF episodeVars
  <2>. QED BY <2>1 DEF EpisodeInv, EpisodeTypes, Whole, RightNote, Others, Halt, Silent
<1>. QED BY <1>1, <1>2, <1>3, <1>4, <1>5, <1>6 DEF EpisodeNext

LEMMA EpisodeHolds == ASSUME EpisodeInv PROVE EpisodeIsTold
<1>1. ToldOfTheLastThatWorked
  <2>1. SUFFICES ASSUME cycle > 1, failures = 0 PROVE ToldOfTheLastThatWorked BY DEF ToldOfTheLastThatWorked
  <2>2. cycle >= 1 BY <2>1 DEF EpisodeInv, EpisodeTypes
  <2>3. RightNote(told, cycle) BY <2>1, <2>2 DEF EpisodeInv
  <2>. QED BY <2>3 DEF ToldOfTheLastThatWorked, RightNote, Others, Halt
<1>2. LostHaltIsKnown
  <2>1. LedgerOK(epi, EpisodeRow) BY DEF EpisodeInv, EpisodeTypes
  <2>2. epi.rows \in Seq(EpisodeRow) /\ Kept(epi) \in Seq(EpisodeRow)
    BY <2>1, KeptRows DEF LedgerOK, LedgerRecord
  <2>3. Range(Kept(epi)) \subseteq Range(epi.rows)
    <3>1. DOMAIN epi.rows = 1..Len(epi.rows) /\ DOMAIN Kept(epi) = 1..Len(Kept(epi))
          /\ Len(epi.rows) \in Nat /\ Len(Kept(epi)) \in Nat
      BY <2>2, SeqFacts
    <3>2. \A j \in 1..Len(Kept(epi)) : j \in 1..Len(epi.rows) /\ Kept(epi)[j] = epi.rows[j]
      BY <2>1, <3>1, KeptRows
    <3>. QED BY <3>1, <3>2 DEF Range
  <2>4. \A c \in 1..MaxCycles : c \in Nat BY EpisodeAssumption
  <2>. QED BY <2>3, <2>4 DEF EpisodeInv, LostHaltIsKnown, Reads, ReadRows, Halt
<1>. QED BY <1>1, <1>2 DEF EpisodeIsTold

\* While no append failed, a cycle is told of the last cycle that worked, what
\* that one did, and nothing of an older one; and a HALT row that no reader finds
\* was raised or lies in a line that a failed append spoilt. (episode_log.py:
\* summarize_for_next_cycle, emit_halt, _write)
THEOREM EpisodesAreTold == Spec => []EpisodeIsTold
<1>1. Init => EpisodeInv BY EpisodeStarts DEF Init
<1>2. EpisodeInv /\ [Next]_vars => EpisodeInv'
  <2>1. [Next]_vars => [EpisodeNext]_episodeVars
    BY DEF Next, WriteRows, Account, Observe, Inspect, vars, recordVars, episodeVars
  <2>. QED BY <2>1, EpisodeStep
<1>3. EpisodeInv => EpisodeIsTold BY EpisodeHolds
<1>. QED BY <1>1, <1>2, <1>3, PTL DEF Spec

(***************************************************************************)
(* What is skipped (RepeatedFailure)                                       *)
(*                                                                         *)
(* The rows of the history are settlements in their order: all that were   *)
(* kept. So the last rows of a card tell what its last settlements told,   *)
(* as long as all of them were kept. A card that nobody handed out again   *)
(* is done when it was settled twice.                                      *)
(***************************************************************************)
Signature == {"none", "deadline", "not_ok", "skipped", "reopened"}
Settlement == [target : Card, signature : Signature, kept : BOOLEAN, judged : BOOLEAN, needed : Nat]
HistoryRow == [target : Card, signature : Signature]

\* m moves the places of a set and keeps their order; what is found there tells the same.
Moves(H, m) ==
    /\ H \subseteq Int /\ IsFiniteSet(H)
    /\ \A h \in H : m[h] \in Int
    /\ \A g, h \in H : g < h => m[g] < m[h]
Tells(H, m, a, b) == \A h \in H : a[h].signature = b[m[h]].signature

LEMMA MovedSize ==
    ASSUME NEW H, NEW m, Moves(H, m)
    PROVE  \A T \in SUBSET H : Cardinality({m[h] : h \in T}) = Cardinality(T)
<1> SUFFICES ASSUME NEW T \in SUBSET H PROVE Cardinality({m[h] : h \in T}) = Cardinality(T) OBVIOUS
<1> DEFINE f == [h \in T |-> m[h]]
           P == {m[h] : h \in T}
<1>1. IsFiniteSet(T) BY FS_Subset DEF Moves
<1>2. \A g, h \in T : m[g] = m[h] => g = h
  <2>1. SUFFICES ASSUME NEW g \in T, NEW h \in T, m[g] = m[h] PROVE g = h OBVIOUS
  <2>2. g \in Int /\ h \in Int /\ m[g] \in Int /\ ~(m[g] < m[h]) /\ ~(m[h] < m[g]) BY <2>1 DEF Moves
  <2>3. ~(g < h) /\ ~(h < g) BY <2>1, <2>2 DEF Moves
  <2>. QED BY <2>2, <2>3
<1>3. f \in [T -> P] OBVIOUS
<1>4. f \in Injection(T, P) BY <1>2, <1>3 DEF Injection, IsInjective
<1>5. f \in Surjection(T, P) BY <1>3 DEF Surjection
<1>. QED BY <1>1, <1>4, <1>5, FS_Surjection

LEMMA LastMoved ==
    ASSUME NEW H, NEW m, Moves(H, m), NEW count
    PROVE  LastOf({m[h] : h \in H}, count) = {m[h] : h \in LastOf(H, count)}
<1> DEFINE P == {m[h] : h \in H}
<1>1. ASSUME NEW h \in H
      PROVE  Cardinality({p \in P : p >= m[h]}) = Cardinality({g \in H : g >= h})
  <2> DEFINE T == {g \in H : g >= h}
  <2>1. {p \in P : p >= m[h]} = {m[g] : g \in T}
    <3>1. ASSUME NEW g \in H PROVE m[g] >= m[h] <=> g >= h
      <4>1. g \in Int /\ h \in Int /\ m[g] \in Int /\ m[h] \in Int BY DEF Moves
      <4>2. CASE g < h BY <4>1, <4>2 DEF Moves
      <4>3. CASE g = h BY <4>1, <4>3
      <4>4. CASE h < g BY <4>1, <4>4 DEF Moves
      <4>. QED BY <4>1, <4>2, <4>3, <4>4
    <3>. QED BY <3>1
  <2>2. T \in SUBSET H OBVIOUS
  <2> HIDE DEF T
  <2>3. Cardinality({m[g] : g \in T}) = Cardinality(T) BY <2>2, MovedSize
  <2>. QED BY <2>1, <2>3 DEF T
<1>. QED BY <1>1 DEF LastOf

\* The same settlements, kept in another place, are alike or not alike.
LEMMA AlikeMoved ==
    ASSUME NEW H, NEW m, Moves(H, m), NEW count, NEW a, NEW b, Tells(H, m, a, b),
           NEW P, P = {m[h] : h \in H}
    PROVE  Alike(a, LastOf(H, count), count) <=> Alike(b, LastOf(P, count), count)
<1>1. PICK T \in SUBSET H : T = LastOf(H, count) BY DEF LastOf
<1>2. LastOf({m[h] : h \in H}, count) = {m[h] : h \in T}
  <2>1. LastOf({m[h] : h \in H}, count) = {m[h] : h \in LastOf(H, count)} BY LastMoved
  <2>. QED BY <1>1, <2>1
<1>3. Cardinality({m[h] : h \in T}) = Cardinality(T) BY MovedSize
<1>4. (\A i, j \in T : a[i].signature # "none" /\ a[i].signature = a[j].signature)
        <=> (\A i, j \in {m[h] : h \in T} : b[i].signature # "none" /\ b[i].signature = b[j].signature)
  BY DEF Tells
<1>. QED BY <1>1, <1>2, <1>3, <1>4 DEF Alike

\* A settlement was skipped as it should, and not before its time, in s.
Earlier(s, k) == {i \in 1 .. k - 1 : s[i].target = s[k].target /\ s[i].signature # "reopened"}
RightAt(s, k) ==
    /\ s[k].judged /\ (\A i \in Earlier(s, k) : s[i].kept) =>
          (s[k].signature = "skipped" <=> Alike(s, LastOf(Earlier(s, k), s[k].needed), s[k].needed))
    /\ s[k].signature = "skipped" /\ s[k].needed >= FAILURE_ESCALATE_THRESHOLD
          => \E i \in 1 .. k - 1 : s[i].target = s[k].target /\ s[i].signature = "reopened"

LEMMA RightIs == SkipsOnlyARepeat <=> \A k \in DOMAIN settled : RightAt(settled, k)
<1>1. \A k : Before(k) = Earlier(settled, k) BY DEF Before, Earlier
<1>. QED BY <1>1 DEF SkipsOnlyARepeat, SkipMeansRepeat, OnlyTheDefaultIsReached, RightAt

\* Later settlements do not change that.
LEMMA RightStays ==
    ASSUME NEW s \in Seq(Settlement), NEW e \in Settlement, NEW k \in 1..Len(s), RightAt(s, k)
    PROVE  RightAt(Append(s, e), k)
<1>1. PICK t : t = Append(s, e) OBVIOUS
<1>2. Len(s) \in Nat /\ \A i \in 1..k : t[i] = s[i] BY <1>1
<1>3. t[k] = s[k] /\ \A i \in 1 .. k - 1 : t[i] = s[i] BY <1>2
<1>4. PICK H : H = Earlier(s, k) OBVIOUS
<1>5. Earlier(t, k) = H BY <1>3, <1>4 DEF Earlier
<1>6. \A i \in H : t[i] = s[i] BY <1>3, <1>4 DEF Earlier
<1>7. Alike(t, LastOf(H, s[k].needed), s[k].needed) <=> Alike(s, LastOf(H, s[k].needed), s[k].needed)
  BY <1>6 DEF Alike, LastOf
<1>8. RightAt(t, k) BY <1>3, <1>4, <1>5, <1>6, <1>7 DEF RightAt
<1>. QED BY <1>1, <1>8

RepeatTypes ==
    /\ gateOn \in BOOLEAN /\ setThreshold \in Nat
    /\ history \in Seq(HistoryRow) /\ settled \in Seq(Settlement)
    /\ streak \in [Card -> Nat] /\ done \subseteq Card

\* Where the rows of the history were settled.
Recorded(h, s, m) ==
    /\ m \in [1..Len(h) -> 1..Len(s)]
    /\ \A i, j \in 1..Len(h) : i < j => m[i] < m[j]
    /\ \A i \in 1..Len(h) :
          /\ h[i].target = s[m[i]].target /\ h[i].signature = s[m[i]].signature
          /\ s[m[i]].signature # "reopened"
    /\ \A k \in 1..Len(s) : s[k].kept /\ s[k].signature # "reopened" => \E i \in 1..Len(h) : k = m[i]

\* A card that was never handed out again is not settled twice and open.
Closed(s, over, row, c) ==
    \/ \E k \in 1..Len(s) : s[k].target = c /\ s[k].signature = "reopened"
    \/ /\ \A i, j \in 1..Len(s) : s[i].target = c /\ s[j].target = c /\ i # j => c \in over
       /\ \A i \in 1..Len(s) : s[i].target = c => c \in over \/ row[c] >= 1

RepeatInv ==
    /\ RepeatTypes
    /\ \E m : Recorded(history, settled, m)
    /\ \A c \in Card : Closed(settled, done, streak, c)
    /\ \A k \in 1..Len(settled) : RightAt(settled, k)

\* One settlement more, and its row if it is kept.
LEMMA RecordedMore ==
    ASSUME NEW h \in Seq(HistoryRow), NEW s \in Seq(Settlement), NEW m, Recorded(h, s, m),
           NEW e \in Settlement, NEW r \in HistoryRow, r.target = e.target, r.signature = e.signature,
           e.signature # "reopened", e.kept
    PROVE  \E q : Recorded(Append(h, r), Append(s, e), q)
<1>1. PICK t : t = Append(s, e) OBVIOUS
<1>2. PICK g : g = Append(h, r) OBVIOUS
<1>3. PICK a \in Nat : a = Len(h) OBVIOUS
<1>4. PICK b \in Nat : b = Len(s) OBVIOUS
<1>5. Len(t) = b + 1 /\ t[b + 1] = e /\ \A k \in 1..b : t[k] = s[k] BY <1>1, <1>4, SeqFacts
<1>6. Len(g) = a + 1 /\ g[a + 1] = r /\ \A i \in 1..a : g[i] = h[i] BY <1>2, <1>3, SeqFacts
<1>7. PICK q : q = [i \in 1..a + 1 |-> IF i = a + 1 THEN b + 1 ELSE m[i]] OBVIOUS
<1>8. q[a + 1] = b + 1 /\ \A i \in 1..a : q[i] = m[i] BY <1>7
<1>9. /\ \A i \in 1..a : m[i] \in 1..b
      /\ \A i, j \in 1..a : i < j => m[i] < m[j]
      /\ \A i \in 1..a : /\ h[i].target = s[m[i]].target /\ h[i].signature = s[m[i]].signature
                         /\ s[m[i]].signature # "reopened"
      /\ \A k \in 1..b : s[k].kept /\ s[k].signature # "reopened" => \E i \in 1..a : k = m[i]
  BY <1>3, <1>4 DEF Recorded
<1>10. \A i \in 1..a + 1 : i \in 1..a \/ i = a + 1 OBVIOUS
<1>11. q \in [1..a + 1 -> 1..b + 1]
  <2>1. \A k \in 1..b : k \in 1..b + 1 OBVIOUS
  <2>2. \A i \in 1..a : q[i] \in 1..b + 1 BY ONLY <1>8, <1>9, <2>1
  <2>3. q[a + 1] \in 1..b + 1 BY <1>8
  <2>4. \A i \in 1..a + 1 : q[i] \in 1..b + 1 BY ONLY <1>10, <2>2, <2>3
  <2>. QED BY <1>7, <2>4
<1>12. \A i, j \in 1..a + 1 : i < j => q[i] < q[j]
  <2>1. SUFFICES ASSUME NEW i \in 1..a + 1, NEW j \in 1..a + 1, i < j PROVE q[i] < q[j] OBVIOUS
  <2>2. i \in 1..a BY <2>1
  <2>3. CASE j \in 1..a BY <1>8, <1>9, <2>1, <2>2, <2>3
  <2>4. CASE j = a + 1
    <3>1. q[i] \in 1..b /\ q[j] = b + 1 BY <1>8, <1>9, <2>2, <2>4
    <3>. QED BY <3>1
  <2>. QED BY <1>10, <2>3, <2>4
<1>13. \A i \in 1..a + 1 : /\ g[i].target = t[q[i]].target /\ g[i].signature = t[q[i]].signature
                           /\ t[q[i]].signature # "reopened"
  <2>1. SUFFICES ASSUME NEW i \in 1..a + 1
                 PROVE  /\ g[i].target = t[q[i]].target /\ g[i].signature = t[q[i]].signature
                        /\ t[q[i]].signature # "reopened"
    OBVIOUS
  <2>2. CASE i \in 1..a
    <3>1. q[i] \in 1..b /\ q[i] = m[i] BY <1>8, <1>9, <2>2
    <3>2. t[q[i]] = s[m[i]] /\ g[i] = h[i] BY <1>5, <1>6, <2>2, <3>1
    <3>. QED BY <1>9, <2>2, <3>2
  <2>3. CASE i = a + 1
    <3>1. g[i] = r /\ t[q[i]] = e BY <1>5, <1>6, <1>8, <2>3
    <3>. QED BY <3>1
  <2>. QED BY <1>10, <2>2, <2>3
<1>14. \A k \in 1..b + 1 : t[k].kept /\ t[k].signature # "reopened" => \E i \in 1..a + 1 : k = q[i]
  <2>1. SUFFICES ASSUME NEW k \in 1..b + 1, t[k].kept, t[k].signature # "reopened"
                 PROVE  \E i \in 1..a + 1 : k = q[i]
    OBVIOUS
  <2>2. CASE k = b + 1
    <3>1. a + 1 \in 1..a + 1 OBVIOUS
    <3>. QED BY <1>8, <2>2, <3>1
  <2>3. CASE k \in 1..b
    <3>1. s[k].kept /\ s[k].signature # "reopened" BY <1>5, <2>1, <2>3
    <3>2. PICK i \in 1..a : k = m[i] BY <1>9, <2>3, <3>1
    <3>3. i \in 1..a + 1 /\ k = q[i] BY <1>8, <3>2
    <3>. QED BY <3>3
  <2>4. k = b + 1 \/ k \in 1..b OBVIOUS
  <2>. QED BY <2>2, <2>3, <2>4
<1>15. Recorded(g, t, q) BY <1>5, <1>6, <1>11, <1>12, <1>13, <1>14 DEF Recorded
<1>. QED BY <1>1, <1>2, <1>15

LEMMA RecordedStill ==
    ASSUME NEW h \in Seq(HistoryRow), NEW s \in Seq(Settlement), NEW m, Recorded(h, s, m),
           NEW e \in Settlement, ~e.kept \/ e.signature = "reopened"
    PROVE  Recorded(h, Append(s, e), m)
<1>1. PICK t : t = Append(s, e) OBVIOUS
<1>2. PICK b \in Nat : b = Len(s) OBVIOUS
<1>3. Len(t) = b + 1 /\ t[b + 1] = e /\ \A k \in 1..b : t[k] = s[k] BY <1>1, <1>2, SeqFacts
<1>4. \A i \in 1..Len(h) : m[i] \in 1..b /\ t[m[i]] = s[m[i]] BY <1>2, <1>3 DEF Recorded
<1>5. m \in [1..Len(h) -> 1..b + 1]
  <2>1. \A i \in 1..Len(h) : m[i] \in 1..b + 1 BY <1>4
  <2>. QED BY <2>1 DEF Recorded
<1>6. \A k \in 1..b + 1 : t[k].kept /\ t[k].signature # "reopened" => \E i \in 1..Len(h) : k = m[i]
  <2>1. SUFFICES ASSUME NEW k \in 1..b + 1, t[k].kept, t[k].signature # "reopened"
                 PROVE  \E i \in 1..Len(h) : k = m[i]
    OBVIOUS
  <2>2. k \in 1..b BY <1>3, <2>1
  <2>. QED BY <1>2, <1>3, <2>1, <2>2 DEF Recorded
<1>7. Recorded(h, t, m) BY <1>3, <1>4, <1>5, <1>6 DEF Recorded
<1>. QED BY <1>1, <1>7

\* The gate looks at the settlements of the card, if all of them were kept.
LEMMA GateLooksAt ==
    ASSUME RepeatTypes, NEW m, Recorded(history, settled, m), NEW card \in Card,
           NEW e \in Settlement, e.target = card, NEW t, t = Append(settled, e),
           NEW k, k = Len(settled) + 1, \A i \in Earlier(t, k) : t[i].kept, NEW count
    PROVE  Alike(history, LastOf(OfTarget(card, history), count), count)
             <=> Alike(t, LastOf(Earlier(t, k), count), count)
<1>0. /\ settled \in Seq(Settlement) /\ history \in Seq(HistoryRow)
      /\ Len(settled) \in Nat /\ Len(history) \in Nat /\ DOMAIN history = 1..Len(history)
  BY DEF RepeatTypes
<1>1. t[k] = e /\ \A i \in 1..Len(settled) : t[i] = settled[i] BY <1>0, SeqFacts
<1>2. PICK H : H = OfTarget(card, history) OBVIOUS
<1>3. H \in SUBSET Int /\ IsFiniteSet(H) /\ H \subseteq 1..Len(history)
  <2>1. H \subseteq 1..Len(history) BY <1>0, <1>2 DEF OfTarget
  <2>2. IsFiniteSet(1..Len(history)) BY <1>0, FS_Interval
  <2>3. IsFiniteSet(H) BY <2>1, <2>2, FS_Subset
  <2>4. H \in SUBSET Int BY <2>1
  <2>. QED BY <2>1, <2>3, <2>4
<1>4. /\ \A h \in 1..Len(history) : m[h] \in 1..Len(settled) /\ m[h] \in Int
      /\ \A g, h \in 1..Len(history) : g < h => m[g] < m[h]
      /\ \A h \in 1..Len(history) : /\ history[h].target = t[m[h]].target
                                    /\ history[h].signature = t[m[h]].signature
                                    /\ t[m[h]].signature # "reopened"
      /\ \A i \in 1..Len(settled) : t[i].kept /\ t[i].signature # "reopened"
            => \E h \in 1..Len(history) : i = m[h]
  <2>1. \A h \in 1..Len(history) : m[h] \in 1..Len(settled) /\ m[h] \in Int BY <1>0 DEF Recorded
  <2>2. \A h \in 1..Len(history) : t[m[h]] = settled[m[h]] BY <1>1, <2>1
  <2>3. \A h \in 1..Len(history) : /\ history[h].target = t[m[h]].target
                                    /\ history[h].signature = t[m[h]].signature
                                    /\ t[m[h]].signature # "reopened"
    BY <2>2 DEF Recorded
  <2>4. \A i \in 1..Len(settled) : t[i].kept /\ t[i].signature # "reopened"
            => \E h \in 1..Len(history) : i = m[h]
    BY <1>1 DEF Recorded
  <2>5. \A g, h \in 1..Len(history) : g < h => m[g] < m[h] BY DEF Recorded
  <2>. QED BY <2>1, <2>3, <2>4, <2>5
<1>5. Earlier(t, k) = {i \in 1..Len(settled) : t[i].target = card /\ t[i].signature # "reopened"}
  <2>1. k - 1 = Len(settled) BY <1>0
  <2>. QED BY <1>1, <2>1 DEF Earlier
<1>6. Earlier(t, k) = {m[h] : h \in H}
  <2>1. ASSUME NEW h \in H PROVE m[h] \in Earlier(t, k)
    <3>1. h \in 1..Len(history) /\ history[h].target = card BY <1>0, <1>2 DEF OfTarget
    <3>. QED BY <1>4, <1>5, <3>1
  <2>2. ASSUME NEW i \in Earlier(t, k) PROVE \E h \in H : i = m[h]
    <3>1. i \in 1..Len(settled) /\ t[i].kept /\ t[i].signature # "reopened" /\ t[i].target = card BY <1>5
    <3>2. PICK h \in 1..Len(history) : i = m[h] BY <1>4, <3>1
    <3>3. history[h].target = card BY <1>4, <3>1, <3>2
    <3>. QED BY <1>0, <1>2, <3>2, <3>3 DEF OfTarget
  <2>. QED BY <2>1, <2>2
<1>7. \A h \in H : history[h].signature = t[m[h]].signature BY <1>3, <1>4
<1>8. PICK P : P = {m[h] : h \in H} OBVIOUS
<1>9. PICK a : a = history OBVIOUS
<1>10. Alike(a, LastOf(H, count), count) <=> Alike(t, LastOf(P, count), count)
  <2>1. Moves(H, m) BY <1>3, <1>4 DEF Moves
  <2>2. Tells(H, m, a, t) BY <1>7, <1>9 DEF Tells
  <2>. QED BY <1>8, <2>1, <2>2, AlikeMoved
<1>. QED BY <1>2, <1>6, <1>8, <1>9, <1>10

\* Two rows of a card are two of its settlements.
LEMMA TwoRowsTwice ==
    ASSUME RepeatTypes, NEW m, Recorded(history, settled, m), NEW card \in Card,
           NEW count \in Nat, count >= 2, Alike(history, LastOf(OfTarget(card, history), count), count)
    PROVE  \E i, j \in 1..Len(settled) : settled[i].target = card /\ settled[j].target = card /\ i # j
<1>0. /\ Len(history) \in Nat /\ DOMAIN history = 1..Len(history) /\ Len(settled) \in Nat BY DEF RepeatTypes
<1>1. PICK T : T = LastOf(OfTarget(card, history), count) OBVIOUS
<1>2. /\ Cardinality(T) = count /\ IsFiniteSet(T)
      /\ \A h \in T : h \in 1..Len(history) /\ history[h].target = card
  <2>1. \A h \in T : h \in 1..Len(history) /\ history[h].target = card BY <1>0, <1>1 DEF LastOf, OfTarget
  <2>2. T \subseteq 1..Len(history) BY <2>1
  <2>3. IsFiniteSet(1..Len(history)) BY <1>0, FS_Interval
  <2>. QED BY <1>1, <2>1, <2>2, <2>3, FS_Subset DEF Alike
<1>3. PICK g \in T : TRUE
  <2>1. T # {} BY <1>2, FS_EmptySet
  <2>. QED BY <2>1
<1>4. PICK h \in T : h # g
  <2>1. SUFFICES ASSUME \A h \in T : h = g PROVE FALSE OBVIOUS
  <2>2. T = {g} BY <2>1
  <2>3. Cardinality(T) = 1 BY <2>2, FS_Singleton
  <2>. QED BY <1>2, <2>3
<1>5. /\ m[g] \in 1..Len(settled) /\ m[h] \in 1..Len(settled)
      /\ settled[m[g]].target = card /\ settled[m[h]].target = card
  BY <1>2 DEF Recorded
<1>6. m[g] # m[h]
  <2>1. g \in 1..Len(history) /\ h \in 1..Len(history) BY <1>2
  <2>2. CASE g < h
    <3>1. m[g] < m[h] BY <2>1, <2>2 DEF Recorded
    <3>. QED BY <1>5, <3>1
  <2>3. CASE h < g
    <3>1. m[h] < m[g] BY <2>1, <2>3 DEF Recorded
    <3>. QED BY <1>5, <3>1
  <2>. QED BY <1>0, <1>4, <2>1, <2>2, <2>3
<1>. QED BY <1>5, <1>6

\* What a settlement of a card leaves of the others.
LEMMA ClosedStays ==
    ASSUME NEW s \in Seq(Settlement), NEW e \in Settlement, NEW c, NEW d, NEW f, NEW q, NEW r,
           Closed(s, d, q, c), c # e.target, c \in d => c \in f, r[c] = q[c]
    PROVE  Closed(Append(s, e), f, r, c)
<1>1. PICK t : t = Append(s, e) OBVIOUS
<1>2. PICK b \in Nat : b = Len(s) OBVIOUS
<1>3. Len(t) = b + 1 /\ t[b + 1] = e /\ \A k \in 1..b : t[k] = s[k] BY <1>1, <1>2, SeqFacts
<1>4. \A k \in 1..b + 1 : t[k].target = c => k \in 1..b BY <1>3
<1>5. \A k \in 1..b : k \in 1..b + 1 OBVIOUS
<1>6. Closed(t, f, r, c)
  <2>1. CASE \E k \in 1..b : s[k].target = c /\ s[k].signature = "reopened"
    <3>1. \E k \in 1..b + 1 : t[k].target = c /\ t[k].signature = "reopened" BY <1>3, <1>5, <2>1
    <3>. QED BY <1>3, <3>1 DEF Closed
  <2>2. CASE /\ \A i, j \in 1..b : s[i].target = c /\ s[j].target = c /\ i # j => c \in d
             /\ \A i \in 1..b : s[i].target = c => c \in d \/ q[c] >= 1
    <3>1. \A i, j \in 1..b + 1 : t[i].target = c /\ t[j].target = c /\ i # j => c \in f
      BY <1>3, <1>4, <2>2
    <3>2. \A i \in 1..b + 1 : t[i].target = c => c \in f \/ r[c] >= 1
      BY <1>3, <1>4, <2>2
    <3>. QED BY <1>3, <3>1, <3>2 DEF Closed
  <2>. QED BY <1>2, <2>1, <2>2 DEF Closed
<1>. QED BY <1>1, <1>6

\* A settlement of the card itself.
LEMMA ClosedAgain ==
    ASSUME NEW s \in Seq(Settlement), NEW e \in Settlement, NEW c, NEW d, NEW f, NEW q, NEW r,
           Closed(s, d, q, c), c = e.target, c \notin d, q[c] \in Nat,
           c \in f \/ (r[c] = q[c] + 1 /\ q[c] + 1 < 2)
    PROVE  Closed(Append(s, e), f, r, c)
<1>1. PICK t : t = Append(s, e) OBVIOUS
<1>2. PICK b \in Nat : b = Len(s) OBVIOUS
<1>3. Len(t) = b + 1 /\ t[b + 1] = e /\ \A k \in 1..b : t[k] = s[k] BY <1>1, <1>2, SeqFacts
<1>4. \A k \in 1..b + 1 : k = b + 1 \/ k \in 1..b OBVIOUS
<1>5. \A k \in 1..b : k \in 1..b + 1 OBVIOUS
<1>6. Closed(t, f, r, c)
  <2>1. CASE \E k \in 1..b : s[k].target = c /\ s[k].signature = "reopened"
    <3>1. \E k \in 1..b + 1 : t[k].target = c /\ t[k].signature = "reopened" BY <1>3, <1>5, <2>1
    <3>. QED BY <1>3, <3>1 DEF Closed
  <2>2. CASE c \in f BY <1>3, <2>2 DEF Closed
  <2>3. CASE /\ \A i \in 1..b : s[i].target = c => q[c] >= 1
             /\ r[c] = q[c] + 1 /\ q[c] + 1 < 2
    <3>1. q[c] = 0 /\ r[c] >= 1 BY <2>3
    <3>2. \A i \in 1..b : s[i].target # c BY <2>3, <3>1
    <3>3. \A i, j \in 1..b + 1 : t[i].target = c /\ t[j].target = c => i = j BY <1>3, <1>4, <3>2
    <3>. QED BY <1>3, <3>1, <3>3 DEF Closed
  <2>. QED BY <1>2, <2>1, <2>2, <2>3 DEF Closed
<1>. QED BY <1>1, <1>6

LEMMA AttemptStep == ASSUME RepeatInv, NEW card \in Card, Attempt(card) PROVE RepeatInv'
<1>1. PICK readable \in BOOLEAN, written \in BOOLEAN, result \in Outcome :
        LET skip == should_skip(card, readable)
            signature == IF skip THEN "skipped" ELSE failure_signature(result)
            row == [target |-> card, signature |-> signature]
            failed == signature # "none" IN
        /\ history' = IF gateOn /\ written THEN Append(history, row) ELSE history
        /\ settled' = Append(settled, [target |-> card, signature |-> signature,
                                       kept |-> gateOn /\ written,
                                       judged |-> gateOn /\ readable, needed |-> threshold])
        /\ streak' = [streak EXCEPT ![card] = IF failed THEN @ + 1 ELSE 0]
        /\ done' = IF ~ failed \/ streak[card] + 1 >= FAILURE_ESCALATE_THRESHOLD
                   THEN done \cup {card} ELSE done
  BY Zenon DEF Attempt
<1>1a. PICK signature : signature = IF should_skip(card, readable) THEN "skipped" ELSE failure_signature(result)
  OBVIOUS
<1>1b. /\ history' = IF gateOn /\ written THEN Append(history, [target |-> card, signature |-> signature])
                    ELSE history
       /\ settled' = Append(settled, [target |-> card, signature |-> signature,
                                       kept |-> gateOn /\ written,
                                       judged |-> gateOn /\ readable, needed |-> threshold])
       /\ streak' = [streak EXCEPT ![card] = IF signature # "none" THEN @ + 1 ELSE 0]
       /\ done' = IF signature = "none" \/ streak[card] + 1 >= FAILURE_ESCALATE_THRESHOLD
                  THEN done \cup {card} ELSE done
  BY <1>1, <1>1a
<1>2. /\ RepeatTypes /\ settled \in Seq(Settlement) /\ history \in Seq(HistoryRow) /\ gateOn \in BOOLEAN
      /\ card \notin done /\ UNCHANGED <<gateOn, setThreshold>> /\ Len(settled) \in Nat
      /\ threshold \in Nat /\ streak \in [Card -> Nat] /\ done \subseteq Card
  BY DEF RepeatInv, RepeatTypes, Attempt, threshold, DEFAULT_THRESHOLD
<1>3. /\ signature \in Signature \ {"reopened"}
      /\ signature = "skipped" <=> should_skip(card, readable)
  BY <1>1a DEF Signature, failure_signature, Outcome
<1>4. PICK kept \in BOOLEAN, judged \in BOOLEAN : kept = (gateOn /\ written) /\ judged = (gateOn /\ readable)
  BY <1>2
<1>5. PICK e : e = [target |-> card, signature |-> signature, kept |-> kept, judged |-> judged,
                    needed |-> threshold]
  OBVIOUS
<1>6. /\ e \in Settlement /\ e.target = card /\ e.signature = signature /\ e.kept = kept
      /\ e.judged = judged /\ e.needed = threshold
  BY <1>2, <1>3, <1>4, <1>5 DEF Settlement
<1>7. settled' = Append(settled, e) BY <1>1b, <1>4, <1>5
<1>8. PICK row : row = [target |-> card, signature |-> signature] OBVIOUS
<1>9. row \in HistoryRow /\ row.target = card /\ row.signature = signature
      /\ history' = IF kept THEN Append(history, row) ELSE history
  BY <1>1b, <1>3, <1>4, <1>8 DEF HistoryRow
<1>10. PICK m : Recorded(history, settled, m) BY DEF RepeatInv
<1>11. RepeatTypes'
  <2>1. streak' \in [Card -> Nat] BY <1>1b, <1>2
  <2>2. done' \subseteq Card BY <1>1b, <1>2
  <2>3. history' \in Seq(HistoryRow) BY <1>2, <1>9
  <2>4. settled' \in Seq(Settlement) BY <1>2, <1>6, <1>7
  <2>. QED BY <1>2, <2>1, <2>2, <2>3, <2>4 DEF RepeatTypes
<1>12. \E q : Recorded(history, settled, q)'
  <2>1. CASE kept
    <3>1. \E q : Recorded(Append(history, row), Append(settled, e), q)
      BY <1>2, <1>3, <1>6, <1>9, <1>10, <2>1, RecordedMore
    <3>. QED BY <1>7, <1>9, <2>1, <3>1 DEF Recorded
  <2>2. CASE ~kept
    <3>1. Recorded(history, Append(settled, e), m) BY <1>2, <1>6, <1>10, <2>2, RecordedStill
    <3>. QED BY <1>7, <1>9, <2>2, <3>1 DEF Recorded
  <2>. QED BY <2>1, <2>2
<1>13. ASSUME NEW c \in Card PROVE Closed(settled', done', streak', c)
  <2>0. Closed(settled, done, streak, c) BY DEF RepeatInv
  <2>1. CASE c # card
    <3>1. (c \in done => c \in done') /\ streak'[c] = streak[c] BY <1>1b, <1>2, <2>1
    <3>2. Closed(Append(settled, e), done', streak', c) BY <1>2, <1>6, <2>0, <2>1, <3>1, ClosedStays
    <3>. QED BY <1>7, <3>2
  <2>2. CASE c = card
    <3>1. streak[c] \in Nat BY <1>2
    <3>2. c \in done' \/ (streak'[c] = streak[c] + 1 /\ streak[c] + 1 < 2)
      <4>1. CASE signature = "none" \/ streak[card] + 1 >= FAILURE_ESCALATE_THRESHOLD BY <1>1b, <2>2, <4>1
      <4>2. CASE ~(signature = "none" \/ streak[card] + 1 >= FAILURE_ESCALATE_THRESHOLD)
        <5>1. streak'[c] = streak[c] + 1 BY <1>1b, <1>2, <2>2, <4>2
        <5>2. streak[c] + 1 < 2 BY <2>2, <3>1, <4>2 DEF FAILURE_ESCALATE_THRESHOLD
        <5>. QED BY <5>1, <5>2
      <4>. QED BY <4>1, <4>2
    <3>3. Closed(Append(settled, e), done', streak', c)
      BY <1>2, <1>6, <2>0, <2>2, <3>1, <3>2, ClosedAgain
    <3>. QED BY <1>7, <3>3
  <2>. QED BY <2>1, <2>2
<1>14. PICK k \in Nat : k = Len(settled) + 1 BY <1>2
<1>15. PICK t : t = Append(settled, e) OBVIOUS
<1>16. /\ t = settled' /\ Len(t) = k /\ t[k] = e
       /\ \A i \in 1 .. k - 1 : t[i] = settled[i] /\ i \in 1..Len(settled)
  BY <1>2, <1>6, <1>7, <1>14, <1>15, SeqFacts
<1>17. RightAt(t, k)
  <2>1. ASSUME judged, \A i \in Earlier(t, k) : t[i].kept
        PROVE  signature = "skipped" <=> Alike(t, LastOf(Earlier(t, k), threshold), threshold)
    <3>1. should_skip(card, readable) <=> Alike(history, LastOf(OfTarget(card, history), threshold), threshold)
      BY <1>4, <2>1 DEF should_skip
    <3>2. Alike(history, LastOf(OfTarget(card, history), threshold), threshold)
             <=> Alike(t, LastOf(Earlier(t, k), threshold), threshold)
      BY <1>2, <1>6, <1>10, <1>14, <1>15, <2>1, GateLooksAt
    <3>. QED BY <1>3, <3>1, <3>2
  <2>2. ASSUME signature = "skipped", threshold >= 2
        PROVE  \E i \in 1 .. k - 1 : t[i].target = card /\ t[i].signature = "reopened"
    <3>1. Alike(history, LastOf(OfTarget(card, history), threshold), threshold)
      BY <1>3, <2>2 DEF should_skip
    <3>2. \E i, j \in 1..Len(settled) : settled[i].target = card /\ settled[j].target = card /\ i # j
      BY <1>2, <1>10, <2>2, <3>1, TwoRowsTwice
    <3>3. Closed(settled, done, streak, card) BY DEF RepeatInv
    <3>4. PICK i \in 1..Len(settled) : settled[i].target = card /\ settled[i].signature = "reopened"
      BY <1>2, <3>2, <3>3 DEF Closed
    <3>5. i \in 1 .. k - 1 /\ t[i] = settled[i] BY <1>2, <1>14, <1>16, <3>4
    <3>. QED BY <3>4, <3>5
  <2>. QED BY <1>6, <1>16, <2>1, <2>2 DEF RightAt, FAILURE_ESCALATE_THRESHOLD
<1>18. ASSUME NEW i \in 1..Len(settled') PROVE RightAt(settled', i)
  <2>1. CASE i = k BY <1>16, <1>17, <2>1
  <2>2. CASE i \in 1..Len(settled)
    <3>1. RightAt(settled, i) BY <2>2 DEF RepeatInv
    <3>. QED BY <1>2, <1>6, <1>7, <2>2, <3>1, RightStays
  <2>. QED BY <1>2, <1>14, <1>16, <2>1, <2>2
<1>. QED BY <1>11, <1>12, <1>13, <1>18 DEF RepeatInv

LEMMA HandOutStep == ASSUME RepeatInv, NEW card \in Card, HandOutAgain(card) PROVE RepeatInv'
<1>1. /\ RepeatTypes /\ settled \in Seq(Settlement) /\ history \in Seq(HistoryRow) /\ Len(settled) \in Nat
      /\ threshold \in Nat /\ streak \in [Card -> Nat] /\ done \subseteq Card
      /\ done' = done \ {card} /\ streak' = [streak EXCEPT ![card] = 0]
      /\ UNCHANGED <<gateOn, setThreshold, history>>
  BY DEF RepeatInv, RepeatTypes, HandOutAgain, threshold, DEFAULT_THRESHOLD
<1>2. PICK e : e = [target |-> card, signature |-> "reopened", kept |-> TRUE, judged |-> FALSE,
                    needed |-> threshold]
  OBVIOUS
<1>3. e \in Settlement /\ e.target = card /\ e.signature = "reopened" /\ ~e.judged
  BY <1>1, <1>2 DEF Settlement, Signature
<1>4. settled' = Append(settled, e) BY <1>2 DEF HandOutAgain
<1>5. PICK k \in Nat : k = Len(settled) + 1 BY <1>1
<1>6. PICK t : t = Append(settled, e) OBVIOUS
<1>7. t = settled' /\ Len(t) = k /\ t[k] = e BY <1>1, <1>3, <1>4, <1>5, <1>6, SeqFacts
<1>8. RepeatTypes'
  <2>1. streak' \in [Card -> Nat] /\ done' \subseteq Card BY <1>1
  <2>2. settled' \in Seq(Settlement) BY <1>1, <1>3, <1>4
  <2>. QED BY <1>1, <2>1, <2>2 DEF RepeatTypes
<1>9. \E q : Recorded(history, settled, q)'
  <2>1. PICK m : Recorded(history, settled, m) BY DEF RepeatInv
  <2>2. Recorded(history, Append(settled, e), m) BY <1>1, <1>3, <2>1, RecordedStill
  <2>. QED BY <1>1, <1>4, <2>2 DEF Recorded
<1>10. ASSUME NEW c \in Card PROVE Closed(settled', done', streak', c)
  <2>1. CASE c = card
    <3>1. k \in 1..Len(t) BY <1>5, <1>7
    <3>. QED BY <1>3, <1>7, <2>1, <3>1 DEF Closed
  <2>2. CASE c # card
    <3>1. (c \in done => c \in done') /\ streak'[c] = streak[c] BY <1>1, <2>2
    <3>2. Closed(settled, done, streak, c) BY DEF RepeatInv
    <3>3. Closed(Append(settled, e), done', streak', c) BY <1>1, <1>3, <2>2, <3>1, <3>2, ClosedStays
    <3>. QED BY <1>4, <3>3
  <2>. QED BY <2>1, <2>2
<1>11. ASSUME NEW i \in 1..Len(settled') PROVE RightAt(settled', i)
  <2>1. CASE i = k
    <3>1. RightAt(t, k) BY <1>3, <1>7 DEF RightAt
    <3>. QED BY <1>7, <2>1, <3>1
  <2>2. CASE i \in 1..Len(settled)
    <3>1. RightAt(settled, i) BY <2>2 DEF RepeatInv
    <3>. QED BY <1>1, <1>3, <1>4, <2>2, <3>1, RightStays
  <2>. QED BY <1>1, <1>5, <1>7, <2>1, <2>2
<1>. QED BY <1>8, <1>9, <1>10, <1>11 DEF RepeatInv

LEMMA RepeatStarts == ASSUME RepeatInit PROVE RepeatInv
<1>1. history = <<>> /\ settled = <<>> /\ streak = [c \in Card |-> 0] /\ done = {} /\ gateOn = TRUE
      /\ setThreshold \in Nat
  BY RepeatedFailureAssumption DEF RepeatInit
<1>2. RepeatTypes BY <1>1 DEF RepeatTypes
<1>3. Len(history) = 0 /\ Len(settled) = 0 BY <1>1
<1>4. Recorded(history, settled, <<>>) BY <1>3 DEF Recorded
<1>5. \A c \in Card : Closed(settled, done, streak, c) BY <1>3 DEF Closed
<1>. QED BY <1>2, <1>3, <1>4, <1>5 DEF RepeatInv

LEMMA RepeatStep == ASSUME RepeatInv, [RepeatNext]_repeatVars PROVE RepeatInv'
<1>1. CASE \E c \in Card : Attempt(c) \/ HandOutAgain(c) BY <1>1, AttemptStep, HandOutStep
<1>2. CASE SwitchRepeatGate \/ UNCHANGED repeatVars
  <2>1. gateOn' \in BOOLEAN /\ UNCHANGED <<setThreshold, history, settled, streak, done>>
    BY <1>2 DEF SwitchRepeatGate, repeatVars, RepeatInv, RepeatTypes
  <2>. QED BY <2>1 DEF RepeatInv, RepeatTypes
<1>. QED BY <1>1, <1>2 DEF RepeatNext

LEMMA RepeatHolds == ASSUME RepeatInv PROVE SkipsOnlyARepeat
<1>1. DOMAIN settled = 1..Len(settled) BY DEF RepeatInv, RepeatTypes
<1>. QED BY <1>1, RightIs DEF RepeatInv

\* A settlement is skipped exactly when the last settlements of its own card told
\* one and the same failure, as long as the gate could judge and the history kept
\* each of them; and from a threshold of two on only a card that was handed out
\* again is. (repeated_failure_gate.py: should_skip, record_outcome)
THEOREM RepeatsAreSkipped == Spec => []SkipsOnlyARepeat
<1>1. Init => RepeatInv BY RepeatStarts DEF Init
<1>2. RepeatInv /\ [Next]_vars => RepeatInv'
  <2>1. [Next]_vars => [RepeatNext]_repeatVars
    BY DEF Next, WriteRows, Account, Observe, Inspect, vars, instrumentVars
  <2>. QED BY <2>1, RepeatStep
<1>3. RepeatInv => SkipsOnlyARepeat BY RepeatHolds
<1>. QED BY <1>1, <1>2, <1>3, PTL DEF Spec
=============================================================================
