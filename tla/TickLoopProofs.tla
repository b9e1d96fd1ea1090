--------------------------- MODULE TickLoopProofs ---------------------------
(***************************************************************************)
(* Theorems about TickLoop for every value of its constants: any number of *)
(* processes, rows, faults and dollars.                                    *)
(*                                                                         *)
(*   Shape   types, and the cursor of a tick that holds a row stays inside *)
(*           the inbox it read (needed for the types of tomb and settled). *)
(*   Once    the inductive invariant behind AtMostOnceDispatch; it also    *)
(*           shows that the loop implements QueryLife.                     *)
(*   BillInv the inductive invariant behind DayBounded and                 *)
(*           DispatchWithinHeadroom: under the lease (Slack, Knows) what a *)
(*           tick has counted is still true when it spends.                *)
(*   ReservedInv, ToldInv   the inductive invariants behind the two parts  *)
(*           of PromisesAreTold.                                           *)
(***************************************************************************)
EXTENDS TickLoop, SequenceTheorems, TLAPS

\* Labels at which a tick works on the row under its cursor.
OnRow == {"cap_spent", "cap_resv", "review_reserve", "review", "review_settle",
          "review_reject", "in_flight", "reserve", "dispatch", "settle",
          "campaign", "dispatched"}

CursorOK ==
    \A p \in Proc : /\ upto[p] <= Len(inbox)
                    /\ pc[p] \in OnRow => at[p] <= upto[p]

Shape == TypeOK /\ CursorOK

----------------------------------------------------------------------------
\* Lemmas about the helpers of the specification

LEMMA RowOfInbox ==
    ASSUME TypeOK, NEW j \in 1..Len(inbox)
    PROVE  inbox[j] \in RowType /\ inbox[j].id \in Id
<1>1. inbox[j] \in Rows BY ElementOfSeq DEF TypeOK
<1>. QED BY <1>1, RowsAssumption DEF RowType

LEMMA RowUnderCursor ==
    ASSUME Shape, NEW p \in Proc, pc[p] \in OnRow
    PROVE  at[p] \in 1..Len(inbox) /\ Row(p).id \in Id
<1>1. at[p] \in 1..Len(inbox) BY LenProperties DEF Shape, TypeOK, CursorOK
<1>. QED BY <1>1, RowOfInbox DEF Shape, Row

LEMMA TombstoneType ==
    ASSUME tomb \in [Id -> SUBSET Reason], NEW i \in Id, NEW r \in Reason, Tombstone(i, r)
    PROVE  tomb' \in [Id -> SUBSET Reason]
<1>1. tomb[i] \cup {r} \in SUBSET Reason OBVIOUS
<1>. QED BY <1>1 DEF Tombstone

LEMMA BudgetType ==
    ASSUME NEW usd \in Nat
    PROVE  Budget(usd) \in Nat /\ (usd < Cap => Budget(usd) <= Cap - usd)
BY CapAssumption DEF Budget, Remaining

LEMMA ReserveType ==
    ASSUME LedgerTypeOK, NEW p \in Proc, NEW usd \in Nat, Reserve(p, usd)
    PROVE  resv' \in [Slot -> Nat] /\ handle' \in [Proc -> Slot \cup {NoSlot}]
BY DEF LedgerTypeOK, Reserve, FreeSlots, resvVars

LEMMA SettleType ==
    ASSUME TypeOK, NEW p \in Proc, SettleOrLose(p)
    PROVE  /\ resv' \in [Slot -> Nat] /\ handle' \in [Proc -> Slot \cup {NoSlot}]
           /\ faults' \in Nat
<1> USE DEF TypeOK, LedgerTypeOK
<1>1. CASE Settle(p) /\ UNCHANGED faults
  <2>1. resv' \in [Slot -> Nat] BY <1>1 DEF Settle, resvVars
  <2>2. handle' \in [Proc -> Slot \cup {NoSlot}] BY <1>1 DEF Settle, resvVars
  <2>. QED BY <1>1, <2>1, <2>2
<1>2. CASE SettleLost(p) /\ Fault
  BY <1>2, BoundAssumption DEF SettleLost, Fault
<1>. QED BY <1>1, <1>2 DEF SettleOrLose

LEMMA TallyType ==
    ASSUME LedgerTypeOK, NEW b \in BOOLEAN
    PROVE  Tally(b) \in Tallies
<1>1. SpentSeen(b) \in Nat BY DEF LedgerTypeOK, SpentSeen
<1>. QED BY <1>1 DEF Tally, Tallies

----------------------------------------------------------------------------
\* Types

LEMMA TypeInit == Init => TypeOK
<1> SUFFICES ASSUME Init PROVE TypeOK OBVIOUS
<1>1. LedgerTypeOK BY DEF Init, LedgerInit, LedgerTypeOK, Ledgers
<1>2. inbox \in Seq(Rows) BY EmptySeq DEF Init
<1>3. tally \in [Proc -> Tallies] BY DEF Init, Tallies, NoTally
<1>4. tomb \in [Id -> SUBSET Reason] BY DEF Init
<1>5. gone \in [Proc -> SUBSET Id] /\ settled \in SUBSET Id BY DEF Init
<1>6. lock \in Proc \cup {NoProc} BY DEF Init
<1>7. halted \in BOOLEAN BY DEF Init
<1>8. faults \in Nat BY DEF Init
<1>9. upto \in [Proc -> Nat] /\ at \in [Proc -> Nat] /\ (\A p \in Proc : at[p] > 0)
  BY DEF Init
<1>10. left \in [Proc -> Nat] /\ paid \in [Id -> Nat] BY DEF Init
<1>11. pc \in [Proc -> Label] BY DEF Init, Label
<1>12. straddles \in [Proc -> BOOLEAN] BY DEF Init
<1>13. verdict \in [Proc -> {"none", "approved", "rejected", "halted", "done"}] BY DEF Init
<1>. QED BY <1>1, <1>2, <1>3, <1>4, <1>5, <1>6, <1>7, <1>8, <1>9, <1>10, <1>11, <1>12, <1>13
         DEF TypeOK

LEMMA ForgetType ==
    ASSUME TypeOK, NEW p \in Proc, Forget(p)
    PROVE  /\ lock' \in Proc \cup {NoProc}
           /\ upto' \in [Proc -> Nat] /\ at' \in [Proc -> Nat] /\ (\A q \in Proc : at'[q] > 0)
           /\ gone' \in [Proc -> SUBSET Id]
           /\ tally' \in [Proc -> Tallies]
           /\ left' \in [Proc -> Nat]
           /\ verdict' \in [Proc -> {"none", "approved", "rejected", "halted", "done"}]
           /\ straddles' \in [Proc -> BOOLEAN]
<1> USE DEF TypeOK, Forget
<1>1. lock' \in Proc \cup {NoProc} OBVIOUS
<1>2. upto' \in [Proc -> Nat] /\ at' \in [Proc -> Nat] /\ (\A q \in Proc : at'[q] > 0) OBVIOUS
<1>3. gone' \in [Proc -> SUBSET Id]
  <2>1. {} \in SUBSET Id OBVIOUS
  <2>. QED BY <2>1
<1>4. tally' \in [Proc -> Tallies] BY DEF NoTally, Tallies
<1>5. left' \in [Proc -> Nat] OBVIOUS
<1>6. verdict' \in [Proc -> {"none", "approved", "rejected", "halted", "done"}] OBVIOUS
<1>7. straddles' \in [Proc -> BOOLEAN] OBVIOUS
<1>. QED BY <1>1, <1>2, <1>3, <1>4, <1>5, <1>6, <1>7

LEMMA TypeTick == ASSUME Shape, NEW p \in Proc, Tick(p) PROVE TypeOK'
<1> USE DEF Shape, TypeOK, LedgerTypeOK, Goto, Label, ledgerVars, billVars, resvVars,
            envVars, histVars, walkVars, callVars
<1>1. CASE Start(p) BY <1>1 DEF Start
<1>2. CASE Acquire(p) BY <1>2 DEF Acquire
<1>3. CASE LeaseRefused(p) BY <1>3 DEF LeaseRefused, Fault
<1>4. CASE ReadInbox(p)
  <2>1. upto' \in [Proc -> Nat] BY <1>4, LenProperties DEF ReadInbox
  <2>2. pc' \in [Proc -> Label]
    <3>1. PICK l \in {"return", "consumed"} : pc' = [pc EXCEPT ![p] = l] BY <1>4 DEF ReadInbox
    <3>. QED BY <3>1
  <2>. QED BY <1>4, <2>1, <2>2 DEF ReadInbox
<1>5. CASE ReadConsumed(p)
  <2>1. {} \in SUBSET Id /\ {i \in Id : tomb[i] # {}} \in SUBSET Id OBVIOUS
  <2>2. gone' \in [Proc -> SUBSET Id]
    <3>1. gone' = gone \/ \E G \in SUBSET Id : gone' = [gone EXCEPT ![p] = G]
      BY <1>5, <2>1, Zenon DEF ReadConsumed
    <3>. QED BY <3>1
  <2>3. pc' \in [Proc -> Label]
    <3>1. PICK l \in {"return", "walk"} : pc' = [pc EXCEPT ![p] = l] BY <1>5 DEF ReadConsumed
    <3>. QED BY <3>1
  <2>. QED BY <1>5, <2>2, <2>3 DEF ReadConsumed
<1>6. CASE Exhausted(p) BY <1>6 DEF Exhausted
<1>7. CASE RejectRow(p)
  <2>1. PICK j \in 1..Len(inbox) : RejectRow(p)!(j) BY <1>7 DEF RejectRow
  <2>2. inbox[j].id \in Id BY RowOfInbox
  <2>3. tomb' \in [Id -> SUBSET Reason]
    <3>1. PICK r \in Reason : Tombstone(inbox[j].id, r) BY <2>1 DEF Reason
    <3>. QED BY <3>1, <2>2, TombstoneType
  <2>4. at' \in [Proc -> Nat] /\ (\A q \in Proc : at'[q] > 0)
    BY <2>1, LenProperties
  <2>. QED BY <2>1, <2>3, <2>4
<1>8. CASE AcceptRow(p)
  <2>1. PICK j \in 1..Len(inbox) : AcceptRow(p)!(j) BY <1>8 DEF AcceptRow
  <2>2. at' \in [Proc -> Nat] /\ (\A q \in Proc : at'[q] > 0)
    BY <2>1, LenProperties
  <2>. QED BY <2>1, <2>2
<1>9. CASE ReadSpent(p)
  <2>1. Tally(straddles[p]) \in Tallies BY TallyType
  <2>. QED BY <1>9, <2>1 DEF ReadSpent
<1>10. CASE ReadReservations(p) BY <1>10 DEF ReadReservations
<1>11. CASE ReviewerUnavailable(p) BY <1>11 DEF ReviewerUnavailable
<1>12. CASE StartReview(p)
  <2>1. Budget(tally[p].usd) \in Nat BY BudgetType DEF Tallies
  <2>2. resv' \in [Slot -> Nat] /\ handle' \in [Proc -> Slot \cup {NoSlot}]
    BY <1>12, <2>1, ReserveType DEF StartReview
  <2>. QED BY <1>12, <2>2, BoundAssumption DEF StartReview
<1>13. CASE ReviewUnreserved(p) BY <1>13 DEF ReviewUnreserved, Fault
<1>14. CASE EndReview(p)
  <2>1. verdict' \in [Proc -> {"none", "approved", "rejected", "halted", "done"}]
    BY <1>14 DEF EndReview
  <2>. QED BY <1>14, <2>1 DEF EndReview
<1>15. CASE SettleReview(p)
  <2>1. pc' \in [Proc -> Label]
    <3>1. PICK l \in {"return", "review_reject", "cap_spent", "in_flight"} : pc' = [pc EXCEPT ![p] = l]
      BY <1>15 DEF SettleReview
    <3>. QED BY <3>1
  <2>. QED BY <1>15, <2>1, SettleType DEF SettleReview
<1>16. CASE RejectReview(p)
  <2>1. tomb' \in [Id -> SUBSET Reason]
    BY <1>16, RowUnderCursor, TombstoneType DEF RejectReview, OnRow, Reason
  <2>. QED BY <1>16, <2>1 DEF RejectReview
<1>17. CASE TombstoneInFlight(p)
  <2>1. tomb' \in [Id -> SUBSET Reason]
    BY <1>17, RowUnderCursor, TombstoneType DEF TombstoneInFlight, OnRow, Reason
  <2>. QED BY <1>17, <2>1 DEF TombstoneInFlight
<1>18. CASE ReserveDispatch(p)
  <2>1. Budget(tally[p].usd) \in Nat BY BudgetType DEF Tallies
  <2>2. resv' \in [Slot -> Nat] /\ handle' \in [Proc -> Slot \cup {NoSlot}]
    BY <1>18, <2>1, ReserveType DEF ReserveDispatch
  <2>3. Row(p).id \in Id BY <1>18, RowUnderCursor DEF ReserveDispatch, OnRow
  <2>4. paid' \in [Id -> Nat] BY <1>18, <2>3 DEF ReserveDispatch
  <2>5. left' \in [Proc -> Nat] BY <1>18, <2>1 DEF ReserveDispatch
  <2>6. pc' \in [Proc -> Label] BY <1>18 DEF ReserveDispatch
  <2>. QED BY <1>18, <2>2, <2>4, <2>5, <2>6 DEF ReserveDispatch
<1>19. CASE DispatchUnreserved(p) BY <1>19 DEF DispatchUnreserved, Fault
<1>20. CASE Spend(p)
  <2>1. spent' \in Nat /\ unmeasured' \in Nat /\ UNCHANGED <<spentPrev, unmeasuredPrev>>
    BY <1>20 DEF Spend, Land
  <2>2. left' \in [Proc -> Nat] BY <1>20 DEF Spend
  <2>. QED BY <1>20, <2>1, <2>2 DEF Spend
<1>21. CASE EndDispatch(p)
  <2>1. verdict' \in [Proc -> {"none", "approved", "rejected", "halted", "done"}]
    BY <1>21 DEF EndDispatch
  <2>. QED BY <1>21, <2>1 DEF EndDispatch
<1>22. CASE SettleDispatch(p)
  <2>1. pc' \in [Proc -> Label] BY <1>22 DEF SettleDispatch
  <2>. QED BY <1>22, <2>1, SettleType DEF SettleDispatch
<1>23. CASE SettleCampaign(p)
  <2>1. settled' \in SUBSET Id BY <1>23, RowUnderCursor DEF SettleCampaign, OnRow
  <2>. QED BY <1>23, <2>1 DEF SettleCampaign
<1>24. CASE TombstoneDispatched(p)
  <2>1. tomb' \in [Id -> SUBSET Reason]
    BY <1>24, RowUnderCursor, TombstoneType DEF TombstoneDispatched, OnRow, Reason
  <2>. QED BY <1>24, <2>1 DEF TombstoneDispatched
<1>25. CASE Return(p) BY <1>25, ForgetType DEF Return
<1>. QED BY <1>1, <1>2, <1>3, <1>4, <1>5, <1>6, <1>7, <1>8, <1>9, <1>10, <1>11, <1>12,
            <1>13, <1>14, <1>15, <1>16, <1>17, <1>18, <1>19, <1>20, <1>21, <1>22, <1>23,
            <1>24, <1>25 DEF Tick

LEMMA TypeCrash == ASSUME Shape, NEW p \in Proc, Crash(p) PROVE TypeOK'
<1>1. handle' \in [Proc -> Slot \cup {NoSlot}] BY DEF Shape, TypeOK, LedgerTypeOK, Crash
<1>2. pc' \in [Proc -> Label] /\ faults' \in Nat BY DEF Shape, TypeOK, Label, Crash, Fault
<1>3. Forget(p) /\ UNCHANGED <<billVars, badLedgers, resv, inbox, halted, histVars>> BY DEF Crash
<1>. QED BY <1>1, <1>2, <1>3, ForgetType
         DEF Shape, TypeOK, LedgerTypeOK, billVars, histVars

LEMMA TypeWorld == ASSUME Shape, World PROVE TypeOK'
<1> USE DEF Shape, TypeOK, LedgerTypeOK, ledgerVars, billVars, resvVars,
            envVars, histVars, walkVars, callVars, tickVars
<1>1. CASE \E r \in Rows : Submit(r)
  <2>1. PICK r \in Rows : Submit(r) BY <1>1
  <2>2. inbox' \in Seq(Rows) BY <2>1, AppendProperties DEF Submit
  <2>. QED BY <2>1, <2>2 DEF Submit
<1>2. CASE Halt
  <2>1. halted' \in BOOLEAN BY <1>2 DEF Halt
  <2>. QED BY <1>2, <2>1 DEF Halt, Fault
<1>3. CASE Unhalt
  <2>1. halted' \in BOOLEAN BY <1>3 DEF Unhalt
  <2>. QED BY <1>3, <2>1 DEF Unhalt
<1>4. CASE NewDay
  <2>1. straddles' \in [Proc -> BOOLEAN] BY <1>4 DEF NewDay
  <2>. QED BY <1>4, <2>1 DEF NewDay, Midnight
<1>5. CASE ExpireReservation
  <2>1. resv' \in [Slot -> Nat] /\ UNCHANGED handle BY <1>5 DEF ExpireReservation, Expire
  <2>. QED BY <1>5, <2>1 DEF ExpireReservation
<1>6. CASE OperatorAck BY <1>6 DEF OperatorAck, AckUnmeasured
<1>7. CASE DamageLedger
  <2>1. badLedgers' \in SUBSET Ledgers BY <1>7 DEF DamageLedger, Damage
  <2>. QED BY <1>7, <2>1 DEF DamageLedger, Fault
<1>8. CASE RepairLedgers
  <2>1. badLedgers' \in SUBSET Ledgers BY <1>8 DEF RepairLedgers, Repair
  <2>. QED BY <1>8, <2>1 DEF RepairLedgers
<1>. QED BY <1>1, <1>2, <1>3, <1>4, <1>5, <1>6, <1>7, <1>8 DEF World

LEMMA TypeStutter == ASSUME TypeOK, UNCHANGED vars PROVE TypeOK'
BY DEF TypeOK, LedgerTypeOK, vars, ledgerVars, envVars, histVars, walkVars, callVars

----------------------------------------------------------------------------
\* The cursor

\* What a step of one process leaves alone.
LEMMA OthersKeep ==
    ASSUME TypeOK, NEW p \in Proc, Tick(p) \/ Crash(p), NEW q \in Proc, q # p
    PROVE  /\ pc'[q] = pc[q] /\ upto'[q] = upto[q] /\ at'[q] = at[q]
           /\ gone'[q] = gone[q] /\ tally'[q] = tally[q] /\ left'[q] = left[q]
           /\ verdict'[q] = verdict[q] /\ straddles'[q] = straddles[q]
<1> USE DEF TypeOK, Goto, ledgerVars, envVars, histVars, walkVars, callVars, billVars, resvVars
<1>1. CASE Crash(p) BY <1>1 DEF Crash, Forget
<1>2. CASE Tick(p)
  <2>1. CASE Start(p) \/ Acquire(p) \/ LeaseRefused(p) \/ ReadInbox(p) \/ ReadConsumed(p)
             \/ Exhausted(p)
    BY <2>1 DEF Start, Acquire, LeaseRefused, ReadInbox, ReadConsumed, Exhausted
  <2>2. CASE RejectRow(p) \/ AcceptRow(p) BY <2>2 DEF RejectRow, AcceptRow
  <2>3. CASE ReadSpent(p) \/ ReadReservations(p) \/ ReviewerUnavailable(p) \/ StartReview(p)
             \/ ReviewUnreserved(p) \/ EndReview(p)
    BY <2>3 DEF ReadSpent, ReadReservations, ReviewerUnavailable, StartReview, ReviewUnreserved,
                EndReview
  <2>4. CASE SettleReview(p) \/ RejectReview(p) \/ TombstoneInFlight(p) \/ ReserveDispatch(p)
             \/ DispatchUnreserved(p) \/ Spend(p)
    BY <2>4 DEF SettleReview, RejectReview, TombstoneInFlight, ReserveDispatch,
                DispatchUnreserved, Spend
  <2>5. CASE EndDispatch(p) \/ SettleDispatch(p) \/ SettleCampaign(p)
             \/ TombstoneDispatched(p) \/ Return(p)
    BY <2>5 DEF EndDispatch, SettleDispatch, SettleCampaign, TombstoneDispatched, Return, Forget
  <2>. QED BY <1>2, <2>1, <2>2, <2>3, <2>4, <2>5 DEF Tick
<1>. QED BY <1>1, <1>2

\* What the world outside leaves alone.
LEMMA WorldKeeps ==
    ASSUME TypeOK, World \/ UNCHANGED vars
    PROVE  /\ UNCHANGED <<lock, tomb, paid, settled, pc, upto, at, gone, tally, left, verdict>>
           /\ Len(inbox') >= Len(inbox)
           /\ \A j \in 1..Len(inbox) : inbox'[j] = inbox[j]
<1> USE DEF TypeOK, LedgerTypeOK, vars, ledgerVars, envVars, histVars, walkVars, callVars, tickVars
<1>1. CASE \E r \in Rows : Submit(r)
  <2>1. PICK r \in Rows : Submit(r) BY <1>1
  <2>. QED BY <2>1, AppendProperties, LenProperties DEF Submit
<1>2. CASE UNCHANGED inbox
  <2>1. UNCHANGED <<lock, tomb, paid, settled, pc, upto, at, gone, tally, left, verdict>>
    BY <1>2 DEF World, Submit, Halt, Unhalt, NewDay, ExpireReservation, OperatorAck,
                DamageLedger, RepairLedgers
  <2>. QED BY <1>2, <2>1, LenProperties
<1>3. (\E r \in Rows : Submit(r)) \/ UNCHANGED inbox
  BY DEF World, Halt, Unhalt, NewDay, ExpireReservation, OperatorAck, DamageLedger, RepairLedgers
<1>. QED BY <1>1, <1>2, <1>3

\* Only producers write the inbox.
LEMMA InboxKept == ASSUME NEW p \in Proc, Tick(p) \/ Crash(p) PROVE UNCHANGED inbox
<1> USE DEF envVars
<1>1. CASE Crash(p) BY <1>1 DEF Crash
<1>2. CASE Tick(p)
  BY <1>2 DEF Tick, Start, Acquire, LeaseRefused, ReadInbox, ReadConsumed, Exhausted, RejectRow,
              AcceptRow, ReadSpent, ReadReservations, ReviewerUnavailable, StartReview,
              ReviewUnreserved, EndReview, SettleReview, RejectReview, TombstoneInFlight,
              ReserveDispatch, DispatchUnreserved, Spend, EndDispatch, SettleDispatch,
              SettleCampaign, TombstoneDispatched, Return
<1>. QED BY <1>1, <1>2

LEMMA CursorTick ==
    ASSUME Shape, NEW p \in Proc, Tick(p) \/ Crash(p) PROVE CursorOK'
<1>0. UNCHANGED inbox BY InboxKept
<1>1. ASSUME NEW q \in Proc, q # p
      PROVE  pc'[q] = pc[q] /\ upto'[q] = upto[q] /\ at'[q] = at[q]
  BY <1>1, OthersKeep DEF Shape
<1> USE DEF Shape, TypeOK, LedgerTypeOK, CursorOK, Goto, OnRow, Label,
            ledgerVars, envVars, histVars, walkVars, callVars, billVars, resvVars
<1>2. upto'[p] <= Len(inbox) /\ (pc'[p] \in OnRow => at'[p] <= upto'[p])
  <2>1. CASE Crash(p) \/ Return(p) BY <2>1, LenProperties DEF Crash, Return, Forget
  <2>2. CASE Start(p) \/ Acquire(p) \/ LeaseRefused(p) \/ ReadConsumed(p) \/ Exhausted(p)
    BY <2>2 DEF Start, Acquire, LeaseRefused, ReadConsumed, Exhausted
  <2>3. CASE ReadInbox(p) BY <2>3, LenProperties DEF ReadInbox
  <2>4. CASE RejectRow(p) BY <2>4 DEF RejectRow
  <2>5. CASE AcceptRow(p) BY <2>5 DEF AcceptRow, NextPending
  <2>6. CASE ReadSpent(p) \/ ReadReservations(p) \/ ReviewerUnavailable(p) \/ StartReview(p)
             \/ ReviewUnreserved(p) \/ EndReview(p)
    BY <2>6 DEF ReadSpent, ReadReservations, ReviewerUnavailable, StartReview, ReviewUnreserved,
                EndReview
  <2>7. CASE SettleReview(p) \/ RejectReview(p) \/ TombstoneInFlight(p) \/ ReserveDispatch(p)
             \/ DispatchUnreserved(p) \/ Spend(p)
    BY <2>7 DEF SettleReview, RejectReview, TombstoneInFlight, ReserveDispatch,
                DispatchUnreserved, Spend
  <2>8. CASE EndDispatch(p) \/ SettleDispatch(p) \/ SettleCampaign(p) \/ TombstoneDispatched(p)
    BY <2>8 DEF EndDispatch, SettleDispatch, SettleCampaign, TombstoneDispatched
  <2>. QED BY <2>1, <2>2, <2>3, <2>4, <2>5, <2>6, <2>7, <2>8 DEF Tick
<1>3. ASSUME NEW q \in Proc PROVE upto'[q] <= Len(inbox') /\ (pc'[q] \in OnRow => at'[q] <= upto'[q])
  <2>1. CASE q = p BY <1>0, <1>2, <2>1
  <2>2. CASE q # p BY <1>0, <1>1, <2>2
  <2>. QED BY <2>1, <2>2
<1>. QED BY <1>3

LEMMA ShapeInit == Init => Shape
<1>1. Init => CursorOK BY EmptySeq DEF Init, CursorOK, OnRow
<1>. QED BY <1>1, TypeInit DEF Shape

LEMMA ShapeNext == Shape /\ [Next]_vars => Shape'
<1> SUFFICES ASSUME Shape, [Next]_vars PROVE Shape' OBVIOUS
<1>1. CASE World \/ UNCHANGED vars
  <2>1. TypeOK' BY <1>1, TypeWorld, TypeStutter DEF Shape
  <2>2. CursorOK'
    <3>1. UNCHANGED <<pc, upto, at>> /\ Len(inbox') >= Len(inbox)
      BY <1>1, WorldKeeps DEF Shape
    <3>2. Len(inbox) \in Nat /\ Len(inbox') \in Nat /\ \A p \in Proc : upto[p] \in Nat
      BY <2>1, LenProperties DEF Shape, TypeOK
    <3>. QED BY <3>1, <3>2 DEF Shape, CursorOK
  <2>. QED BY <2>1, <2>2 DEF Shape
<1>2. ASSUME NEW p \in Proc, Tick(p) \/ Crash(p) PROVE Shape'
  BY <1>2, TypeTick, TypeCrash, CursorTick DEF Shape
<1>. QED BY <1>1, <1>2 DEF Next

THEOREM ShapeInvariant == Spec => []Shape
BY ShapeInit, ShapeNext, PTL DEF Spec

\* Every variable keeps its type in every behaviour of the tick loop, whatever
\* number of processes run tick_once and however they crash.
THEOREM TypeInvariant == Spec => []TypeOK
<1>1. Shape => TypeOK BY DEF Shape
<1>. QED BY ShapeInvariant, <1>1, PTL

----------------------------------------------------------------------------
\* No second charge

\* Labels at which a tick still relies on the tombstones it read.
Judging == {"walk", "cap_spent", "cap_resv", "review_reserve", "review", "review_settle",
            "review_reject", "in_flight"}

\* A charge needs an earlier claim, and is made once.
PaidIsClaimed == \A i \in Id : paid[i] <= 1 /\ (paid[i] = 1 => "in_flight" \in tomb[i])

\* What a tick read of the tombstones is still true: a row it holds for
\* unconsumed has not been claimed since.
SnapshotFresh ==
    \A p \in Proc : pc[p] \in Judging =>
        /\ \A j \in at[p]..upto[p] : inbox[j].id \notin gone[p] => "in_flight" \notin tomb[inbox[j].id]
        /\ pc[p] # "walk" => Row(p).id \notin gone[p]

\* Between the tombstone and the dispatch the claim is this tick's own.
ClaimUnpaid ==
    \A p \in Proc : pc[p] = "reserve" => "in_flight" \in tomb[Row(p).id] /\ paid[Row(p).id] = 0

\* The inductive invariant.  AtMostOnceDispatch alone is not inductive: a tick
\* about to dispatch must know that nobody claimed its row after it looked.
Once == SingleFlight /\ PaidIsClaimed /\ SnapshotFresh /\ ClaimUnpaid

GuardedOnce == LeaseOn /\ TickFailClosed => Once

\* Past the lease a process is alone.
LEMMA Alone ==
    ASSUME LeaseOn, SingleFlight, NEW p \in Proc, pc[p] \notin {"idle", "lease"},
           NEW q \in Proc, q # p
    PROVE  pc[q] \in {"idle", "lease"}
BY DEF SingleFlight

LEMMA OnceInit == Init => GuardedOnce
<1> SUFFICES ASSUME Init PROVE Once BY DEF GuardedOnce
<1>1. SingleFlight BY DEF Init, SingleFlight
<1>2. PaidIsClaimed BY DEF Init, PaidIsClaimed
<1>3. SnapshotFresh BY DEF Init, SnapshotFresh, Judging
<1>4. ClaimUnpaid BY DEF Init, ClaimUnpaid
<1>. QED BY <1>1, <1>2, <1>3, <1>4 DEF Once

LEMMA SingleFlightStep ==
    ASSUME Shape, SingleFlight, LeaseOn, NEW p \in Proc, Tick(p) \/ Crash(p)
    PROVE  SingleFlight'
<1>1. ASSUME NEW q \in Proc, q # p PROVE pc'[q] = pc[q]
  BY <1>1, OthersKeep DEF Shape
<1>2. lock # p => lock' = lock \/ (lock = NoProc /\ lock' = p)
  BY DEF Tick, Crash, Start, Acquire, LeaseRefused, ReadInbox, ReadConsumed, Exhausted, RejectRow,
         AcceptRow, ReadSpent, ReadReservations, ReviewerUnavailable, StartReview,
         ReviewUnreserved, EndReview, SettleReview, RejectReview, TombstoneInFlight,
         ReserveDispatch, DispatchUnreserved, Spend, EndDispatch, SettleDispatch,
         SettleCampaign, TombstoneDispatched, Return, Forget, envVars
<1>3. pc'[p] \notin {"idle", "lease"} => lock' = p
  <2> USE DEF Shape, TypeOK, Goto, SingleFlight, envVars
  <2>1. CASE Start(p) \/ LeaseRefused(p) BY <2>1 DEF Start, LeaseRefused
  <2>2. CASE Acquire(p) BY <2>2 DEF Acquire
  <2>3. CASE Return(p) \/ Crash(p) BY <2>3 DEF Return, Crash
  <2>4. CASE ReadInbox(p) \/ ReadConsumed(p) \/ Exhausted(p) \/ RejectRow(p) \/ AcceptRow(p)
             \/ ReadSpent(p) \/ ReadReservations(p) \/ ReviewerUnavailable(p) \/ StartReview(p)
    BY <2>4 DEF ReadInbox, ReadConsumed, Exhausted, RejectRow, AcceptRow, ReadSpent,
                ReadReservations, ReviewerUnavailable, StartReview
  <2>5. CASE ReviewUnreserved(p) \/ EndReview(p) \/ SettleReview(p) \/ RejectReview(p)
             \/ TombstoneInFlight(p) \/ ReserveDispatch(p) \/ DispatchUnreserved(p)
    BY <2>5 DEF ReviewUnreserved, EndReview, SettleReview, RejectReview, TombstoneInFlight,
                ReserveDispatch, DispatchUnreserved
  <2>6. CASE Spend(p) \/ EndDispatch(p) \/ SettleDispatch(p) \/ SettleCampaign(p)
             \/ TombstoneDispatched(p)
    BY <2>6 DEF Spend, EndDispatch, SettleDispatch, SettleCampaign, TombstoneDispatched
  <2>. QED BY <2>1, <2>2, <2>3, <2>4, <2>5, <2>6 DEF Tick
<1>4. ASSUME NEW q \in Proc, q # p, pc'[q] \notin {"idle", "lease"} PROVE lock' = q
  <2>1. lock = q BY <1>1, <1>4 DEF SingleFlight
  <2>. QED BY <1>2, <1>4, <2>1, NoProcAssumption
<1>. QED BY <1>3, <1>4 DEF SingleFlight

\* Tombstones are only ever added.
LEMMA TombGrows ==
    ASSUME Shape, NEW p \in Proc, Tick(p) \/ Crash(p), NEW i \in Id
    PROVE  tomb[i] \subseteq tomb'[i]
<1> USE DEF Shape, TypeOK, histVars
<1>1. CASE \E k \in Id : \E r \in Reason : Tombstone(k, r) BY <1>1 DEF Tombstone
<1>2. CASE UNCHANGED tomb BY <1>2
<1>3. CASE RejectRow(p)
  <2>1. PICK j \in 1..Len(inbox) : RejectRow(p)!(j) BY <1>3 DEF RejectRow
  <2>2. inbox[j].id \in Id BY RowOfInbox
  <2>. QED BY <2>1, <2>2, <1>1 DEF Reason
<1>4. CASE RejectReview(p) \/ TombstoneInFlight(p) \/ TombstoneDispatched(p)
  <2>1. Row(p).id \in Id
    BY <1>4, RowUnderCursor DEF RejectReview, TombstoneInFlight, TombstoneDispatched, Goto, OnRow
  <2>. QED BY <2>1, <1>4, <1>1 DEF RejectReview, TombstoneInFlight, TombstoneDispatched, Reason
<1>5. RejectRow(p) \/ RejectReview(p) \/ TombstoneInFlight(p) \/ TombstoneDispatched(p)
      \/ UNCHANGED tomb
  BY DEF Tick, Crash, Start, Acquire, LeaseRefused, ReadInbox, ReadConsumed, Exhausted,
         AcceptRow, ReadSpent, ReadReservations, ReviewerUnavailable, StartReview,
         ReviewUnreserved, EndReview, SettleReview, ReserveDispatch, DispatchUnreserved, Spend,
         EndDispatch, SettleDispatch, SettleCampaign, Return
<1>. QED BY <1>2, <1>3, <1>4, <1>5

\* Dispatching is the only step that pays.
LEMMA PaidKept ==
    ASSUME NEW p \in Proc, Tick(p) \/ Crash(p) PROVE UNCHANGED paid \/ ReserveDispatch(p)
BY DEF histVars, Tick, Crash, Start, Acquire, LeaseRefused, ReadInbox, ReadConsumed, Exhausted,
       RejectRow, AcceptRow, ReadSpent, ReadReservations, ReviewerUnavailable, StartReview,
       ReviewUnreserved, EndReview, SettleReview, RejectReview, TombstoneInFlight,
       DispatchUnreserved, Spend, EndDispatch, SettleDispatch, SettleCampaign,
       TombstoneDispatched, Return

LEMMA PaidIsClaimedStep ==
    ASSUME Shape, PaidIsClaimed, ClaimUnpaid, NEW p \in Proc, Tick(p) \/ Crash(p)
    PROVE  PaidIsClaimed'
<1>1. CASE UNCHANGED paid BY <1>1, TombGrows DEF PaidIsClaimed
<1>2. CASE ReserveDispatch(p)
  <2>1. pc[p] = "reserve" BY <1>2 DEF ReserveDispatch, Goto
  <2>2. Row(p).id \in Id BY <2>1, RowUnderCursor DEF OnRow
  <2>3. "in_flight" \in tomb[Row(p).id] /\ paid[Row(p).id] = 0 BY <2>1 DEF ClaimUnpaid
  <2>4. \A i \in Id : paid'[i] = IF i = Row(p).id THEN 1 ELSE paid[i]
    BY <1>2, <2>2, <2>3 DEF ReserveDispatch, Shape, TypeOK
  <2>5. UNCHANGED tomb BY <1>2 DEF ReserveDispatch
  <2>. QED BY <2>3, <2>4, <2>5 DEF PaidIsClaimed
<1>. QED BY <1>1, <1>2, PaidKept

\* The rows of a snapshot, and the inbox the steps of ticks leave alone.
LEMMA SnapshotFreshStep ==
    ASSUME Shape, Once, LeaseOn, TickFailClosed, NEW p \in Proc, Tick(p)
    PROVE  /\ pc'[p] \in Judging =>
                /\ \A j \in at'[p]..upto'[p] :
                       inbox[j].id \notin gone'[p] => "in_flight" \notin tomb'[inbox[j].id]
                /\ pc'[p] # "walk" => inbox[at'[p]].id \notin gone'[p]
           /\ pc'[p] = "reserve" =>
                "in_flight" \in tomb'[inbox[at'[p]].id] /\ paid'[inbox[at'[p]].id] = 0
<1>a. upto[p] <= Len(inbox) /\ upto[p] \in Nat /\ at[p] \in Nat /\ at[p] > 0 /\ Len(inbox) \in Nat
  BY LenProperties DEF Shape, TypeOK, CursorOK
<1>b. \A j \in at[p]..upto[p] : inbox[j].id \in Id
  BY <1>a, RowOfInbox DEF Shape
<1>c. \A j \in 1..upto[p] : inbox[j].id \in Id
  BY <1>a, RowOfInbox DEF Shape
<1> USE DEF Shape, TypeOK, Goto, Judging, Label, histVars, walkVars, callVars
<1>1. CASE Start(p) \/ Acquire(p) \/ LeaseRefused(p) \/ ReadInbox(p) \/ Exhausted(p) \/ Return(p)
  BY <1>1 DEF Start, Acquire, LeaseRefused, ReadInbox, Exhausted, Return
<1>2. CASE ReadConsumed(p)
  <2>1. CASE pc'[p] = "return" BY <2>1
  <2>2. CASE pc'[p] = "walk"
    <3>1. gone'[p] = {i \in Id : tomb[i] # {}} \/ upto[p] = 0
      BY <1>2, <2>2 DEF ReadConsumed
    <3>2. UNCHANGED <<tomb, upto, at>> BY <1>2 DEF ReadConsumed
    <3>. QED BY <2>2, <3>1, <3>2, <1>a, <1>b
  <2>. QED BY <1>2, <2>1, <2>2 DEF ReadConsumed
<1>3. CASE RejectRow(p)
  <2>1. PICK j \in 1..Len(inbox) : RejectRow(p)!(j) BY <1>3 DEF RejectRow
  <2>2. inbox[j].id \in Id BY RowOfInbox
  <2>3. \A i \in Id : "in_flight" \in tomb'[i] => "in_flight" \in tomb[i]
    <3>1. PICK r \in Reason \ {"in_flight"} : Tombstone(inbox[j].id, r) BY <2>1 DEF Reason
    <3>. QED BY <3>1, <2>2 DEF Tombstone
  <2>4. at'[p] = j + 1 /\ UNCHANGED <<upto, gone, pc, paid>> /\ pc[p] = "walk" /\ j \in at[p]..upto[p]
    BY <2>1 DEF NextPending
  <2>5. \A k \in at'[p]..upto'[p] : k \in at[p]..upto[p] BY <2>4, <1>a
  <2>. QED BY <2>3, <2>4, <2>5, <1>b DEF Once, SnapshotFresh
<1>4. CASE AcceptRow(p)
  <2>1. PICK j \in 1..Len(inbox) : AcceptRow(p)!(j) BY <1>4 DEF AcceptRow
  <2>2. at'[p] = j /\ UNCHANGED <<upto, gone, tomb, paid>> /\ pc[p] = "walk" /\ pc'[p] = "cap_spent"
        /\ j \in at[p]..upto[p] /\ inbox[j].id \notin gone[p]
    BY <2>1 DEF NextPending
  <2>3. \A k \in at'[p]..upto'[p] : k \in at[p]..upto[p] BY <2>2, <1>a
  <2>. QED BY <2>2, <2>3 DEF Once, SnapshotFresh
<1>5. CASE ReadSpent(p) \/ ReadReservations(p) \/ ReviewerUnavailable(p) \/ StartReview(p)
           \/ ReviewUnreserved(p)
  BY <1>5 DEF ReadSpent, ReadReservations, ReviewerUnavailable, StartReview,
              ReviewUnreserved, Once, SnapshotFresh, Row
<1>6. CASE EndReview(p) \/ SettleReview(p)
  BY <1>6 DEF EndReview, SettleReview, Once, SnapshotFresh, Row
<1>7. CASE RejectReview(p)
  <2>1. Row(p).id \in Id BY <1>7, RowUnderCursor DEF RejectReview, OnRow
  <2>2. \A i \in Id : "in_flight" \in tomb'[i] => "in_flight" \in tomb[i]
    BY <1>7, <2>1 DEF Tombstone, RejectReview
  <2>3. at'[p] = at[p] + 1 /\ UNCHANGED <<upto, gone, paid>> /\ pc[p] = "review_reject" /\ pc'[p] = "walk"
    BY <1>7 DEF RejectReview
  <2>4. \A k \in at'[p]..upto'[p] : k \in at[p]..upto[p] BY <2>3, <1>a
  <2>. QED BY <2>2, <2>3, <2>4, <1>b DEF Once, SnapshotFresh
<1>8. CASE TombstoneInFlight(p)
  <2>1. Row(p).id \in Id /\ at[p] \in at[p]..upto[p]
    BY <1>8, RowUnderCursor, <1>a DEF TombstoneInFlight, OnRow, CursorOK
  <2>2. "in_flight" \notin tomb[Row(p).id]
    BY <1>8, <2>1 DEF TombstoneInFlight, Once, SnapshotFresh, Row
  <2>3. paid[Row(p).id] = 0
    <3>1. PICK i \in Id : i = Row(p).id BY <2>1
    <3>2. paid[i] \in Nat BY DEF Shape, TypeOK
    <3>3. paid[i] <= 1 /\ paid[i] # 1 BY ONLY Once, i \in Id, i = Row(p).id, <2>2 DEF Once, PaidIsClaimed
    <3>4. paid[i] = 0 BY ONLY <3>2, <3>3
    <3>. QED BY <3>1, <3>4
  <2>4. "in_flight" \in tomb'[Row(p).id] BY <1>8, <2>1 DEF TombstoneInFlight, Tombstone
  <2>5. pc'[p] \in {"reserve", "campaign"} /\ UNCHANGED <<at, paid>> BY <1>8 DEF TombstoneInFlight
  <2>. QED BY <2>3, <2>4, <2>5 DEF Row
<1>9. CASE ReserveDispatch(p) \/ DispatchUnreserved(p) \/ EndDispatch(p) \/ SettleDispatch(p)
           \/ SettleCampaign(p) \/ TombstoneDispatched(p)
  BY <1>9 DEF ReserveDispatch, DispatchUnreserved, EndDispatch, SettleDispatch,
              SettleCampaign, TombstoneDispatched
<1>10. CASE Spend(p)
  BY <1>10 DEF Spend, Once, SnapshotFresh, Row
<1>. QED BY <1>1, <1>2, <1>3, <1>4, <1>5, <1>6, <1>7, <1>8, <1>9, <1>10 DEF Tick

\* A process before the lease touches neither tombstones nor charges.
LEMMA BeforeLease ==
    ASSUME Shape, NEW p \in Proc, pc[p] \in {"idle", "lease"}, Tick(p) \/ Crash(p)
    PROVE  UNCHANGED <<tomb, paid>> /\ pc'[p] \in {"idle", "lease", "inbox"}
<1> USE DEF Shape, TypeOK, Goto, histVars
<1>1. CASE Crash(p) BY <1>1 DEF Crash
<1>2. CASE Tick(p)
  <2>1. Start(p) \/ Acquire(p) \/ LeaseRefused(p)
    BY <1>2 DEF Tick, ReadInbox, ReadConsumed, Exhausted, RejectRow, AcceptRow, ReadSpent,
           ReadReservations, ReviewerUnavailable, StartReview, ReviewUnreserved, EndReview,
           SettleReview, RejectReview, TombstoneInFlight, ReserveDispatch, DispatchUnreserved,
           Spend, EndDispatch, SettleDispatch, SettleCampaign, TombstoneDispatched, Return
  <2>. QED BY <2>1 DEF Start, Acquire, LeaseRefused
<1>. QED BY <1>1, <1>2

LEMMA OnceStep ==
    ASSUME Shape, Once, LeaseOn, TickFailClosed, NEW p \in Proc, Tick(p) \/ Crash(p)
    PROVE  Once'
<1>1. SingleFlight' BY SingleFlightStep DEF Once
<1>2. PaidIsClaimed' BY PaidIsClaimedStep DEF Once
<1>3. UNCHANGED inbox BY InboxKept
<1>4. ASSUME NEW q \in Proc, q # p
      PROVE  pc'[q] = pc[q] /\ at'[q] = at[q] /\ upto'[q] = upto[q] /\ gone'[q] = gone[q]
  BY <1>4, OthersKeep DEF Shape
<1>5. CASE pc[p] \in {"idle", "lease"}
  <2>1. UNCHANGED <<tomb, paid>> /\ pc'[p] \in {"idle", "lease", "inbox"} BY <1>5, BeforeLease
  <2>2. SnapshotFresh' BY <2>1, <1>3, <1>4 DEF Once, SnapshotFresh, Judging, Row
  <2>3. ClaimUnpaid' BY <2>1, <1>3, <1>4 DEF Once, ClaimUnpaid, Row
  <2>. QED BY <1>1, <1>2, <2>2, <2>3 DEF Once
<1>6. CASE pc[p] \notin {"idle", "lease"}
  <2>1. ASSUME NEW q \in Proc, q # p PROVE pc'[q] \in {"idle", "lease"}
    BY <1>4, <1>6, <2>1, Alone DEF Once
  <2>2. CASE Crash(p)
    <3>1. pc'[p] = "idle" BY <2>2 DEF Crash, Shape, TypeOK
    <3>. QED BY <1>1, <1>2, <2>1, <3>1 DEF Once, SnapshotFresh, ClaimUnpaid, Judging
  <2>3. CASE Tick(p)
    <3>1. SnapshotFresh'
      BY <2>1, <2>3, <1>3, SnapshotFreshStep DEF SnapshotFresh, Judging, Row
    <3>2. ClaimUnpaid'
      BY <2>1, <2>3, <1>3, SnapshotFreshStep DEF ClaimUnpaid, Row
    <3>. QED BY <1>1, <1>2, <3>1, <3>2 DEF Once
  <2>. QED BY <2>2, <2>3
<1>. QED BY <1>5, <1>6

LEMMA OnceWorld == ASSUME Shape, Once, World \/ UNCHANGED vars PROVE Once'
<1>1. /\ UNCHANGED <<lock, tomb, paid, settled, pc, upto, at, gone, tally, left, verdict>>
      /\ Len(inbox') >= Len(inbox)
      /\ \A j \in 1..Len(inbox) : inbox'[j] = inbox[j]
  BY WorldKeeps DEF Shape
<1>2. SingleFlight' /\ PaidIsClaimed' BY <1>1 DEF Once, SingleFlight, PaidIsClaimed
<1>3. ASSUME NEW p \in Proc PROVE \A j \in at[p]..upto[p] : inbox'[j] = inbox[j]
  BY <1>1, LenProperties DEF Shape, TypeOK, CursorOK
<1>4. ASSUME NEW p \in Proc, pc[p] \in OnRow PROVE Row(p)' = Row(p)
  BY <1>1, <1>4, RowUnderCursor DEF Row
<1>5. SnapshotFresh'
  BY <1>1, <1>3, <1>4 DEF Once, SnapshotFresh, Judging, OnRow
<1>6. ClaimUnpaid' BY <1>1, <1>4 DEF Once, ClaimUnpaid, OnRow
<1>. QED BY <1>2, <1>5, <1>6 DEF Once

LEMMA OnceNext == Shape /\ GuardedOnce /\ [Next]_vars => GuardedOnce'
<1> SUFFICES ASSUME Shape, Once, LeaseOn, TickFailClosed, [Next]_vars PROVE Once'
  BY DEF GuardedOnce
<1>1. CASE World \/ UNCHANGED vars BY <1>1, OnceWorld
<1>2. CASE \E p \in Proc : Tick(p) \/ Crash(p) BY <1>2, OnceStep
<1>. QED BY <1>1, <1>2 DEF Next

THEOREM OnceInvariant == Spec => []GuardedOnce
BY ShapeInvariant, OnceInit, OnceNext, PTL DEF Spec

\* With the lease and the fail-closed ledger reads on, no history of crashes,
\* duplicated rows, overlapping starts and damaged ledgers makes tick_once
\* dispatch an id twice, or dispatch it before its tombstone is durable.
THEOREM AtMostOnce == Spec => []AtMostOnceDispatch
<1>1. GuardedOnce => AtMostOnceDispatch
  BY DEF GuardedOnce, Once, PaidIsClaimed, AtMostOnceDispatch
<1>. QED BY OnceInvariant, <1>1, PTL

\* The kernel lock makes the ticks one at a time: no two processes are past the
\* lease together, whatever else the switches say.
THEOREM OneTickAtATime == Spec => []SingleFlight
<1>1. Init => SingleFlight BY DEF Init, SingleFlight
<1>2. Shape /\ SingleFlight /\ [Next]_vars => SingleFlight'
  <2> SUFFICES ASSUME Shape, SingleFlight, [Next]_vars, LeaseOn PROVE SingleFlight'
    BY DEF SingleFlight
  <2>1. CASE World \/ UNCHANGED vars BY <2>1, WorldKeeps DEF Shape, SingleFlight
  <2>2. CASE \E p \in Proc : Tick(p) \/ Crash(p) BY <2>2, SingleFlightStep
  <2>. QED BY <2>1, <2>2 DEF Next
<1>. QED BY <1>1, <1>2, ShapeInvariant, PTL DEF Spec

\* The lock is held for the tick that is past the lease, and for nobody else.
LockUse == LeaseOn => (lock = NoProc /\ Past = {}) \/ (lock \in Proc /\ Past = {lock})

LEMMA LockMoves ==
    ASSUME Shape, LockUse, LeaseOn, NEW p \in Proc, Tick(p) \/ Crash(p)
    PROVE  Takes(p) \/ Frees(p) \/ UNCHANGED <<lock, Past>>
<1> USE DEF Goto, envVars
<1>1. \A q \in Proc : q # p => pc'[q] = pc[q] BY OthersKeep DEF Shape
<1>2. pc \in [Proc -> Label] BY DEF Shape, TypeOK
<1>3. ASSUME lock' = lock, pc'[p] \in {"idle", "lease"} <=> pc[p] \in {"idle", "lease"}
      PROVE  UNCHANGED <<lock, Past>>
  BY <1>1, <1>3 DEF Past
<1>4. CASE Start(p) \/ LeaseRefused(p)
  <2>1. lock' = lock BY <1>4 DEF Start, LeaseRefused
  <2>2. CASE Start(p)
    <3>1. pc[p] = "idle" /\ pc'[p] = "lease" BY <1>2, <2>2 DEF Start
    <3>. QED BY <1>3, <2>1, <3>1
  <2>3. CASE LeaseRefused(p)
    <3>1. pc[p] = "lease" /\ pc'[p] = "idle" BY <1>2, <2>3 DEF LeaseRefused
    <3>. QED BY <1>3, <2>1, <3>1
  <2>. QED BY ONLY <1>4, <2>2, <2>3
<1>5. CASE Acquire(p)
  <2>1. pc[p] = "lease" /\ pc'[p] = "inbox" /\ lock = NoProc /\ lock' = p BY <1>2, <1>5 DEF Acquire
  <2>2. Past = {} BY <2>1, NoProcAssumption DEF LockUse
  <2>3. Past' = {p} BY <1>1, <2>1, <2>2 DEF Past
  <2>. QED BY <2>1, <2>2, <2>3 DEF Takes
<1>6. CASE Return(p) \/ Crash(p)
  <2>1. pc[p] # "idle" /\ pc'[p] = "idle" /\ lock' = (IF lock = p THEN NoProc ELSE lock)
    BY <1>2, <1>6 DEF Return, Crash, Forget
  <2>2. CASE pc[p] = "lease"
    <3>1. lock # p BY <2>2, NoProcAssumption DEF LockUse, Past
    <3>. QED BY <1>3, <2>1, <2>2, <3>1
  <2>3. CASE pc[p] # "lease"
    <3>1. p \in Past BY <2>1, <2>3 DEF Past
    <3>2. lock = p /\ Past = {p} BY <3>1 DEF LockUse
    <3>3. Past' = {} BY <1>1, <2>1, <3>2 DEF Past
    <3>. QED BY <2>1, <3>2, <3>3 DEF Frees
  <2>. QED BY <2>2, <2>3
<1>7. CASE ReadInbox(p) \/ ReadConsumed(p) \/ Exhausted(p) \/ RejectRow(p) \/ AcceptRow(p)
           \/ ReadSpent(p) \/ ReadReservations(p) \/ ReviewerUnavailable(p) \/ StartReview(p)
  BY <1>2, <1>3, <1>7 DEF ReadInbox, ReadConsumed, Exhausted, RejectRow, AcceptRow, ReadSpent,
                          ReadReservations, ReviewerUnavailable, StartReview
<1>8. CASE ReviewUnreserved(p) \/ EndReview(p) \/ SettleReview(p) \/ RejectReview(p)
           \/ TombstoneInFlight(p) \/ ReserveDispatch(p) \/ DispatchUnreserved(p)
  BY <1>2, <1>3, <1>8 DEF ReviewUnreserved, EndReview, SettleReview, RejectReview, TombstoneInFlight,
                          ReserveDispatch, DispatchUnreserved
<1>9. CASE Spend(p) \/ EndDispatch(p) \/ SettleDispatch(p) \/ SettleCampaign(p)
           \/ TombstoneDispatched(p)
  BY <1>2, <1>3, <1>9 DEF Spend, EndDispatch, SettleDispatch, SettleCampaign, TombstoneDispatched
<1>. QED BY <1>4, <1>5, <1>6, <1>7, <1>8, <1>9 DEF Tick

\* The loop uses its lease as LeaseIsALock says that it may: a tick goes past it
\* when nobody is, and every way a tick ends gives it back, a crash included.
THEOREM LockIsUsed == Spec => LockUsed
<1>1. Init => LockUse /\ (LeaseOn => lock = NoProc /\ Past = {}) BY DEF Init, LockUse, Past
<1>2. Shape /\ LockUse /\ [Next]_vars =>
        LockUse' /\ [LeaseOn => \E p \in Proc : Takes(p) \/ Frees(p)]_<<lock, Past>>
  <2> SUFFICES ASSUME Shape, LockUse, [Next]_vars, LeaseOn
               PROVE  LockUse' /\ [\E p \in Proc : Takes(p) \/ Frees(p)]_<<lock, Past>>
    BY DEF LockUse
  <2>1. CASE World \/ UNCHANGED vars
    <3>1. UNCHANGED <<lock, pc>> BY <2>1, WorldKeeps DEF Shape
    <3>. QED BY <3>1 DEF LockUse, Past
  <2>2. ASSUME NEW p \in Proc, Tick(p) \/ Crash(p)
        PROVE  LockUse' /\ [\E q \in Proc : Takes(q) \/ Frees(q)]_<<lock, Past>>
    <3>1. Takes(p) \/ Frees(p) \/ UNCHANGED <<lock, Past>> BY <2>2, LockMoves
    <3>2. LockUse' BY <3>1 DEF Takes, Frees, LockUse
    <3>. QED BY <3>1, <3>2
  <2>. QED BY <2>1, <2>2 DEF Next
<1>. QED BY <1>1, <1>2, ShapeInvariant, PTL DEF Spec, LockUsed

----------------------------------------------------------------------------
\* The daily bill

\* What counts against the cap: recorded dollars, and the unobserved ones when
\* they block.
Bill == spent + (IF StrictOn THEN unmeasured ELSE 0)

\* What a review may add after the cap was last read.
Slack == IF ReviewOn /\ ~RereadOn THEN ReviewMax ELSE 0

\* What a tick knows of the bill at each of its labels.
Knows(p) ==
    /\ pc[p] = "cap_resv" /\ tally[p].ok => Bill <= tally[p].usd /\ tally[p].usd < Cap
    /\ pc[p] = "review_reserve" => Bill <= tally[p].usd /\ tally[p].usd < Cap
    /\ pc[p] = "review" => Bill + left[p] <= tally[p].usd + ReviewMax /\ tally[p].usd < Cap
    /\ pc[p] = "review_settle" => Bill <= tally[p].usd + ReviewMax /\ tally[p].usd < Cap
    /\ pc[p] \in {"review_reserve", "review", "review_settle"} => ReviewOn
    /\ pc[p] \in {"in_flight", "reserve"} => Bill <= tally[p].usd + Slack /\ tally[p].usd < Cap
    /\ pc[p] = "dispatch" => Bill + left[p] <= Cap + Slack

BillInv == Bill <= DayLimit /\ \A p \in Proc : Knows(p)

GuardedBill == LeaseOn /\ CapFailClosed => BillInv

LEMMA BilledType ==
    ASSUME NEW s \in Nat, NEW u \in Nat PROVE s + (IF StrictOn THEN u ELSE 0) \in Nat
OBVIOUS

LEMMA BillType == ASSUME TypeOK PROVE Bill \in Nat /\ Slack \in Nat /\ DayLimit \in Nat
BY CapAssumption, BoundAssumption DEF TypeOK, LedgerTypeOK, Bill, Slack, DayLimit

LEMMA DayLimitRoom ==
    /\ Cap <= DayLimit
    /\ Cap + Slack <= DayLimit
    /\ ReviewOn /\ ReviewMax > 0 => Cap + ReviewMax - 1 <= DayLimit
BY CapAssumption, BoundAssumption DEF DayLimit, Slack

LEMMA BillInit == Init => GuardedBill
<1> SUFFICES ASSUME Init PROVE BillInv BY DEF GuardedBill
<1>1. Bill = 0 BY DEF Init, LedgerInit, Bill
<1>2. Bill <= DayLimit BY <1>1, CapAssumption, BoundAssumption DEF DayLimit
<1>3. \A p \in Proc : Knows(p) BY DEF Init, Knows
<1>. QED BY <1>2, <1>3 DEF BillInv

\* Only a billed call raises the bill, and by one.
LEMMA BillSteps ==
    ASSUME TypeOK, NEW p \in Proc, Tick(p) \/ Crash(p)
    PROVE  \/ Bill' = Bill
           \/ Spend(p) /\ Bill' <= Bill + 1
<1>1. CASE Spend(p)
  <2>1. Bill' <= Bill + 1 BY <1>1 DEF Spend, Land, Bill, TypeOK, LedgerTypeOK
  <2>. QED BY <1>1, <2>1
<1>2. UNCHANGED <<spent, unmeasured>> \/ Spend(p)
  BY DEF billVars, ledgerVars, Tick, Crash, Start, Acquire, LeaseRefused, ReadInbox,
       ReadConsumed, Exhausted, RejectRow, AcceptRow, ReadSpent, ReadReservations,
       ReviewerUnavailable, StartReview, ReviewUnreserved, EndReview, SettleReview, RejectReview,
       TombstoneInFlight, ReserveDispatch, DispatchUnreserved, EndDispatch, SettleDispatch,
       SettleCampaign, TombstoneDispatched, Return
<1>3. CASE UNCHANGED <<spent, unmeasured>> BY <1>3 DEF Bill
<1>. QED BY <1>1, <1>2, <1>3

\* Midnight and an acknowledgement lower it, nothing else outside moves it.
LEMMA BillWorld == ASSUME TypeOK, World \/ UNCHANGED vars PROVE Bill' <= Bill
<1> USE DEF TypeOK, LedgerTypeOK, Bill
<1>1. CASE NewDay BY <1>1 DEF NewDay, Midnight
<1>2. CASE OperatorAck BY <1>2 DEF OperatorAck, AckUnmeasured
<1>3. CASE UNCHANGED <<spent, unmeasured>> BY <1>3
<1>. QED
  BY <1>1, <1>2, <1>3 DEF World, Submit, Halt, Unhalt, ExpireReservation, DamageLedger,
     RepairLedgers, vars, ledgerVars, billVars

LEMMA ReadIsTrue ==
    ASSUME TypeOK, CapFailClosed, NEW b \in BOOLEAN, Tally(b).ok
    PROVE  Bill <= Tally(b).usd /\ Tally(b).usd < Cap
<1>1. Readable("executor_log") BY DEF Tally
<1>2. Tally(b).usd = SpentSeen(b) /\ Tally(b).usd < Cap BY DEF Tally
<1>3. spent <= SpentSeen(b) BY <1>1 DEF SpentSeen, TypeOK, LedgerTypeOK
<1>4. StrictOn => unmeasured = 0
  BY <1>1 DEF Tally, UnmeasuredSeen, TypeOK, LedgerTypeOK
<1>. QED BY <1>2, <1>3, <1>4 DEF Bill, TypeOK, LedgerTypeOK

LEMMA KnowsStep ==
    ASSUME Shape, BillInv, LeaseOn, CapFailClosed, NEW p \in Proc, Tick(p)
    PROVE  Knows(p)' /\ Bill' <= DayLimit
<1>a. Bill \in Nat /\ Slack \in Nat /\ DayLimit \in Nat BY BillType DEF Shape
<1>b. Bill <= DayLimit /\ Knows(p) BY DEF BillInv
<1>c. tally[p].usd \in Nat /\ left[p] \in Nat /\ ReviewMax \in Nat /\ Cap \in Nat
  BY CapAssumption, BoundAssumption DEF Shape, TypeOK, Tallies
<1>d. Bill' = Bill \/ (Spend(p) /\ Bill' <= Bill + 1) BY BillSteps DEF Shape
<1> USE DEF Shape, TypeOK, Goto, Label, histVars, walkVars, callVars
<1>1. CASE Spend(p)
  <2>1. left[p] > 0 /\ left'[p] = left[p] - 1 /\ UNCHANGED <<pc, tally>> /\ pc[p] \in {"review", "dispatch"}
    BY <1>1 DEF Spend
  <2>2. Bill' <= Bill + 1 /\ Bill' \in Nat
    BY <1>a, <1>d, <1>1 DEF Spend, Land, Bill, LedgerTypeOK
  <2>3. CASE pc[p] = "review"
    <3>1. Bill + left[p] <= tally[p].usd + ReviewMax /\ tally[p].usd < Cap /\ ReviewOn
      BY <1>b, <2>3 DEF Knows
    <3>2. Bill' + left'[p] <= tally[p].usd + ReviewMax BY <3>1, <2>1, <2>2, <1>a, <1>c
    <3>3. Knows(p)' BY <3>1, <3>2, <2>1, <2>3 DEF Knows
    <3>4. CASE ReviewMax > 0
      <4>1. Bill' <= Cap + ReviewMax - 1 BY <3>1, <2>1, <2>2, <1>a, <1>c, <3>2
      <4>. QED BY <4>1, <3>1, <3>3, <3>4, <1>a, <1>c, <2>2, DayLimitRoom
    <3>5. CASE ReviewMax = 0
      <4>1. Bill' <= Cap BY <3>1, <3>2, <3>5, <2>1, <2>2, <1>a, <1>c
      <4>. QED BY <4>1, <3>3, <1>a, <1>c, <2>2, DayLimitRoom
    <3>. QED BY <3>4, <3>5, <1>c
  <2>4. CASE pc[p] = "dispatch"
    <3>1. Bill + left[p] <= Cap + Slack BY <1>b, <2>4 DEF Knows
    <3>2. Bill' + left'[p] <= Cap + Slack BY <3>1, <2>1, <2>2, <1>a, <1>c
    <3>3. Knows(p)' BY <3>2, <2>1, <2>4 DEF Knows, Slack
    <3>4. Bill' <= DayLimit BY <3>1, <2>1, <2>2, <1>a, <1>c, DayLimitRoom
    <3>. QED BY <3>3, <3>4
  <2>. QED BY <2>1, <2>3, <2>4
<1>2. CASE ~Spend(p)
  <2>0. Bill' = Bill BY <1>2, <1>d
  <2>1. CASE Start(p) \/ Acquire(p) \/ LeaseRefused(p) \/ ReadInbox(p) \/ ReadConsumed(p)
             \/ Exhausted(p) \/ Return(p)
    <3>1. pc'[p] \in {"idle", "lease", "inbox", "consumed", "walk", "return"}
      BY <2>1 DEF Start, Acquire, LeaseRefused, ReadInbox, ReadConsumed, Exhausted, Return
    <3>. QED BY <3>1, <2>0, <1>b DEF Knows
  <2>2. CASE RejectRow(p) \/ AcceptRow(p)
    <3>1. pc'[p] \in {"walk", "cap_spent"} BY <2>2 DEF RejectRow, AcceptRow
    <3>. QED BY <3>1, <2>0, <1>b DEF Knows
  <2>3. CASE ReadSpent(p)
    <3>1. pc'[p] = "cap_resv" /\ tally'[p] = Tally(straddles[p]) /\ straddles[p] \in BOOLEAN
      BY <2>3 DEF ReadSpent
    <3>. QED BY <3>1, <2>0, <1>b, ReadIsTrue DEF Knows
  <2>4. CASE ReadReservations(p)
    <3>1. UNCHANGED tally /\ pc[p] = "cap_resv" BY <2>4 DEF ReadReservations
    <3>2. pc'[p] = "return" \/ (tally[p].ok /\ pc'[p] = "review_reserve" /\ ReviewOn)
          \/ (tally[p].ok /\ pc'[p] = "in_flight")
      BY <2>4 DEF ReadReservations, CapAllows
    <3>. QED BY <3>1, <3>2, <2>0, <1>a, <1>b, <1>c DEF Knows
  <2>5. CASE ReviewerUnavailable(p) \/ ReviewUnreserved(p) \/ RejectReview(p)
             \/ DispatchUnreserved(p) \/ EndDispatch(p) \/ SettleDispatch(p)
             \/ SettleCampaign(p) \/ TombstoneDispatched(p)
    <3>1. pc'[p] \in {"review_reject", "return", "walk", "settle", "campaign", "dispatched"}
      BY <2>5 DEF ReviewerUnavailable, ReviewUnreserved, RejectReview, DispatchUnreserved,
                  EndDispatch, SettleDispatch, SettleCampaign, TombstoneDispatched
    <3>. QED BY <3>1, <2>0, <1>b DEF Knows
  <2>6. CASE StartReview(p)
    <3>1. pc[p] = "review_reserve" /\ pc'[p] = "review" /\ left'[p] = ReviewMax /\ UNCHANGED tally
      BY <2>6 DEF StartReview
    <3>. QED BY <3>1, <2>0, <1>a, <1>b, <1>c DEF Knows
  <2>7. CASE EndReview(p)
    <3>1. pc[p] = "review" /\ pc'[p] = "review_settle" /\ UNCHANGED tally BY <2>7 DEF EndReview
    <3>. QED BY <3>1, <2>0, <1>a, <1>b, <1>c DEF Knows
  <2>8. CASE SettleReview(p)
    <3>1. pc[p] = "review_settle" /\ UNCHANGED tally BY <2>8 DEF SettleReview
    <3>2. pc'[p] \in {"return", "review_reject", "cap_spent"} \/ (pc'[p] = "in_flight" /\ ~RereadOn)
      BY <2>8 DEF SettleReview
    <3>. QED BY <3>1, <3>2, <2>0, <1>a, <1>b, <1>c DEF Knows, Slack
  <2>9. CASE TombstoneInFlight(p)
    <3>1. pc[p] = "in_flight" /\ pc'[p] \in {"reserve", "campaign"} /\ UNCHANGED tally
      BY <2>9 DEF TombstoneInFlight
    <3>. QED BY <3>1, <2>0, <1>a, <1>b, <1>c DEF Knows, Slack
  <2>10. CASE ReserveDispatch(p)
    <3>1. pc[p] = "reserve" /\ pc'[p] = "dispatch" /\ left'[p] = Budget(tally[p].usd)
      BY <2>10 DEF ReserveDispatch
    <3>2. Bill <= tally[p].usd + Slack /\ tally[p].usd < Cap BY <3>1, <1>b DEF Knows
    <3>3. left'[p] \in Nat /\ left'[p] <= Cap - tally[p].usd BY <3>1, <3>2, <1>c, BudgetType
    <3>4. Bill' + left'[p] <= Cap + Slack BY <3>2, <3>3, <2>0, <1>a, <1>c
    <3>. QED BY <3>1, <3>4, <2>0, <1>b DEF Knows, Slack
  <2>. QED BY <1>2, <2>1, <2>2, <2>3, <2>4, <2>5, <2>6, <2>7, <2>8, <2>9, <2>10 DEF Tick
<1>. QED BY <1>1, <1>2

LEMMA BillStep ==
    ASSUME Shape, SingleFlight, BillInv, LeaseOn, CapFailClosed, NEW p \in Proc, Tick(p) \/ Crash(p)
    PROVE  BillInv'
<1>1. CASE Crash(p)
  <2>1. Bill' = Bill BY <1>1 DEF Crash, billVars, Bill
  <2>2. ASSUME NEW q \in Proc, q # p
        PROVE  pc'[q] = pc[q] /\ tally'[q] = tally[q] /\ left'[q] = left[q]
    BY <1>1, <2>2, OthersKeep DEF Shape
  <2>3. pc'[p] = "idle" BY <1>1 DEF Crash, Shape, TypeOK
  <2>4. ASSUME NEW q \in Proc PROVE Knows(q)'
    <3>1. CASE q = p BY <3>1, <2>3 DEF Knows
    <3>2. CASE q # p BY <3>2, <2>1, <2>2 DEF BillInv, Knows, Slack
    <3>. QED BY <3>1, <3>2
  <2>. QED BY <2>1, <2>4 DEF BillInv, DayLimit
<1>2. CASE Tick(p)
  <2>1. Knows(p)' /\ Bill' <= DayLimit BY <1>2, KnowsStep
  <2>2. ASSUME NEW q \in Proc, q # p
        PROVE  pc'[q] = pc[q] /\ tally'[q] = tally[q] /\ left'[q] = left[q]
    BY <1>2, <2>2, OthersKeep DEF Shape
  <2>3. CASE pc[p] \in {"idle", "lease"}
    <3>1. ~Spend(p) BY <2>3 DEF Spend
    <3>2. Bill' = Bill BY <3>1, <1>2, BillSteps DEF Shape
    <3>3. ASSUME NEW q \in Proc, q # p PROVE Knows(q)'
      BY <3>2, <3>3, <2>2 DEF BillInv, Knows, Slack
    <3>. QED BY <2>1, <3>3 DEF BillInv, DayLimit
  <2>4. CASE pc[p] \notin {"idle", "lease"}
    <3>1. ASSUME NEW q \in Proc, q # p PROVE Knows(q)'
      <4>1. pc'[q] \in {"idle", "lease"} BY <2>4, <2>2, <3>1, Alone
      <4>. QED BY <4>1 DEF Knows
    <3>. QED BY <2>1, <3>1 DEF BillInv, DayLimit
  <2>. QED BY <2>3, <2>4
<1>. QED BY <1>1, <1>2

LEMMA BillNext == Shape /\ SingleFlight /\ GuardedBill /\ [Next]_vars => GuardedBill'
<1> SUFFICES ASSUME Shape, SingleFlight, BillInv, LeaseOn, CapFailClosed, [Next]_vars PROVE BillInv'
  BY DEF GuardedBill
<1>1. CASE World \/ UNCHANGED vars
  <2>1. Bill' <= Bill /\ Bill \in Nat /\ Slack \in Nat /\ DayLimit \in Nat
    BY <1>1, BillWorld, BillType DEF Shape
  <2>2. UNCHANGED <<pc, tally, left>> BY <1>1, WorldKeeps DEF Shape
  <2>3. Bill' \in Nat
    <3>1. TypeOK' BY <1>1, TypeWorld, TypeStutter DEF Shape
    <3>2. spent' \in Nat /\ unmeasured' \in Nat BY <3>1 DEF TypeOK, LedgerTypeOK
    <3>. QED BY <3>2, BilledType DEF Bill
  <2>4. ASSUME NEW p \in Proc PROVE Knows(p)'
    <3>1. tally[p].usd \in Nat /\ left[p] \in Nat /\ ReviewMax \in Nat /\ Cap \in Nat
      BY CapAssumption, BoundAssumption DEF Shape, TypeOK, Tallies
    <3>. QED BY <3>1, <2>1, <2>2, <2>3 DEF BillInv, Knows, Slack
  <2>5. Bill' <= DayLimit BY <2>1, <2>3 DEF BillInv
  <2>. QED BY <2>4, <2>5 DEF BillInv, DayLimit
<1>2. CASE \E p \in Proc : Tick(p) \/ Crash(p) BY <1>2, BillStep
<1>. QED BY <1>1, <1>2 DEF Next

THEOREM BillInvariant == Spec => []GuardedBill
BY ShapeInvariant, OneTickAtATime, BillInit, BillNext, PTL DEF Spec

\* The daily cap, for every cap, per-cycle cap and review bound: a day costs at
\* most the cap plus one review, whatever crashes and midnights fall into it.
THEOREM DayIsBounded == Spec => []DayBounded
<1>1. TypeOK /\ GuardedBill => DayBounded
  BY BillType DEF GuardedBill, BillInv, Bill, DayBounded, TypeOK, LedgerTypeOK
<1>. QED BY BillInvariant, TypeInvariant, <1>1, PTL

\* A dispatched cycle cannot spend past the cap when the cap is read after the
\* last thing that spends before it.
THEOREM HeadroomSuffices == Spec => []DispatchWithinHeadroom
<1>1. TypeOK /\ GuardedBill => DispatchWithinHeadroom
  BY CapAssumption, BoundAssumption
     DEF GuardedBill, BillInv, Knows, Bill, Slack, DispatchWithinHeadroom, TypeOK, LedgerTypeOK
<1>. QED BY BillInvariant, TypeInvariant, <1>1, PTL

\* No dollar of a day is beyond its cap: not after it is spent, and not before.
THEOREM TheCapIsKept == Spec => []CapIsKept
<1>1. DayBounded /\ DispatchWithinHeadroom => CapIsKept BY DEF CapIsKept
<1>. QED BY DayIsBounded, HeadroomSuffices, <1>1, PTL

----------------------------------------------------------------------------
\* What others wait for

\* Two ticks never hold the same reservation, and a tick that can still spend
\* holds one that covers it.  Without the first part a settlement or an expiry
\* could close the reservation of somebody else.
HandlesApart ==
    \A p, q \in Proc : p # q /\ handle[p] # NoSlot => handle[p] # handle[q]

Covered(p) == pc[p] = "dispatch" => handle[p] # NoSlot /\ left[p] <= resv[handle[p]]

ReservedInv ==
    ResvOn /\ DeadlineOn => HandlesApart /\ \A p \in Proc : Covered(p)

\* The steps of a tick that leave the reservations as they are; those that
\* lead to, or stay in, a dispatch do not.
LEMMA ResvKept ==
    ASSUME TypeOK, NEW p \in Proc, Tick(p)
    PROVE  \/ UNCHANGED <<resv, handle>> /\ (pc'[p] = "dispatch" => pc[p] = "dispatch" /\ left'[p] <= left[p])
           \/ StartReview(p) \/ ReserveDispatch(p) \/ SettleReview(p) \/ SettleDispatch(p)
<1> USE DEF TypeOK, Goto, ledgerVars, resvVars
<1>1. CASE Start(p) \/ Acquire(p) \/ LeaseRefused(p) \/ ReadInbox(p) \/ ReadConsumed(p)
           \/ Exhausted(p)
  BY <1>1 DEF Start, Acquire, LeaseRefused, ReadInbox, ReadConsumed, Exhausted
<1>2. CASE RejectRow(p) \/ AcceptRow(p) \/ ReadSpent(p) \/ ReadReservations(p)
           \/ ReviewerUnavailable(p) \/ ReviewUnreserved(p)
  BY <1>2 DEF RejectRow, AcceptRow, ReadSpent, ReadReservations, ReviewerUnavailable,
              ReviewUnreserved
<1>3. CASE EndReview(p) \/ RejectReview(p) \/ TombstoneInFlight(p) \/ DispatchUnreserved(p)
  BY <1>3 DEF EndReview, RejectReview, TombstoneInFlight, DispatchUnreserved
<1>4. CASE EndDispatch(p) \/ SettleCampaign(p) \/ TombstoneDispatched(p) \/ Return(p)
  BY <1>4 DEF EndDispatch, SettleCampaign, TombstoneDispatched, Return, Forget
<1>5. CASE Spend(p) BY <1>5 DEF Spend
<1>. QED BY <1>1, <1>2, <1>3, <1>4, <1>5 DEF Tick

LEMMA ReservedTick ==
    ASSUME Shape, ResvOn, HandlesApart, \A p \in Proc : Covered(p), NEW p \in Proc, Tick(p)
    PROVE  HandlesApart' /\ \A q \in Proc : Covered(q)'
<1>0. TypeOK /\ TypeOK' BY TypeTick DEF Shape
<1>1. ASSUME NEW q \in Proc, q # p PROVE pc'[q] = pc[q] /\ left'[q] = left[q]
  BY <1>0, <1>1, OthersKeep
<1>a. /\ resv \in [Slot -> Nat] /\ handle \in [Proc -> Slot \cup {NoSlot}]
      /\ left \in [Proc -> Nat] /\ left' \in [Proc -> Nat] /\ pc \in [Proc -> Label]
      /\ tally \in [Proc -> Tallies]
  BY <1>0 DEF TypeOK, LedgerTypeOK
<1>2. CASE UNCHANGED <<resv, handle>>
           /\ (pc'[p] = "dispatch" => pc[p] = "dispatch" /\ left'[p] <= left[p])
  <2>1. HandlesApart' BY <1>2 DEF HandlesApart
  <2>2. Covered(p)' BY <1>2, <1>a DEF Covered
  <2>3. ASSUME NEW q \in Proc, q # p PROVE Covered(q)' BY <1>1, <1>2, <2>3 DEF Covered
  <2>. QED BY <2>1, <2>2, <2>3
<1>3. ASSUME NEW usd \in Nat, Reserve(p, usd), pc'[p] = "dispatch" => left'[p] <= usd
      PROVE  HandlesApart' /\ \A q \in Proc : Covered(q)'
  <2>1. PICK s \in FreeSlots : /\ resv' = [resv EXCEPT ![s] = usd]
                               /\ handle' = [handle EXCEPT ![p] = s]
    BY <1>3 DEF Reserve
  <2>2. s \in Slot /\ \A q \in Proc : handle[q] # s BY DEF FreeSlots
  <2>3. HandlesApart' BY <1>a, <2>1, <2>2 DEF HandlesApart
  <2>4. Covered(p)' BY <1>3, <1>a, <2>1, <2>2, NoSlotAssumption DEF Covered
  <2>5. ASSUME NEW q \in Proc, q # p PROVE Covered(q)'
    BY <1>1, <1>a, <2>1, <2>2, <2>5 DEF Covered
  <2>. QED BY <2>3, <2>4, <2>5
<1>4. CASE StartReview(p)
  <2>1. pc'[p] = "review" BY <1>4, <1>a DEF StartReview, Goto
  <2>2. CASE ReviewTxn
    <3>1. Reserve(p, Budget(tally[p].usd)) BY <1>4, <2>2 DEF StartReview
    <3>2. Budget(tally[p].usd) \in Nat BY <1>a, BudgetType DEF Tallies
    <3>. QED BY <1>3, <2>1, <3>1, <3>2
  <2>3. CASE ~ReviewTxn
    BY <1>2, <1>4, <2>1, <2>3 DEF StartReview, resvVars
  <2>. QED BY <2>2, <2>3
<1>5. CASE ReserveDispatch(p)
  <2>1. Budget(tally[p].usd) \in Nat BY <1>a, BudgetType DEF Tallies
  <2>2. left'[p] = Budget(tally[p].usd) /\ Reserve(p, Budget(tally[p].usd))
    BY <1>5, <1>a DEF ReserveDispatch
  <2>. QED BY <1>3, <2>1, <2>2
<1>6. CASE SettleReview(p) \/ SettleDispatch(p)
  <2>1. pc'[p] # "dispatch" BY <1>6, <1>a DEF SettleReview, SettleDispatch, Goto
  <2>2. SettleOrLose(p) BY <1>6 DEF SettleReview, SettleDispatch
  <2>3. \/ UNCHANGED resvVars
        \/ handle' = [handle EXCEPT ![p] = NoSlot] /\ UNCHANGED resv
        \/ /\ handle[p] # NoSlot /\ handle' = [handle EXCEPT ![p] = NoSlot]
           /\ resv' = [resv EXCEPT ![handle[p]] = 0]
    BY <2>2 DEF SettleOrLose, Settle, SettleLost
  <2>4. HandlesApart' BY <1>a, <2>3 DEF HandlesApart, resvVars
  <2>5. Covered(p)' BY <2>1 DEF Covered
  <2>6. ASSUME NEW q \in Proc, q # p PROVE Covered(q)'
    <3>1. handle'[q] = handle[q] BY <1>a, <2>3, <2>6 DEF resvVars
    <3>2. handle[q] # NoSlot => resv'[handle[q]] = resv[handle[q]]
      BY <1>a, <2>3, <2>6 DEF resvVars, HandlesApart
    <3>. QED BY <1>1, <2>6, <3>1, <3>2 DEF Covered
  <2>. QED BY <2>4, <2>5, <2>6
<1>. QED BY <1>0, <1>2, <1>4, <1>5, <1>6, ResvKept

LEMMA ReservedCrash ==
    ASSUME Shape, HandlesApart, \A p \in Proc : Covered(p), NEW p \in Proc, Crash(p)
    PROVE  HandlesApart' /\ \A q \in Proc : Covered(q)'
<1>1. ASSUME NEW q \in Proc, q # p PROVE pc'[q] = pc[q] /\ left'[q] = left[q]
  BY <1>1, OthersKeep DEF Shape
<1>2. /\ handle \in [Proc -> Slot \cup {NoSlot}] /\ handle' = [handle EXCEPT ![p] = NoSlot]
      /\ UNCHANGED resv /\ pc'[p] = "idle"
  BY DEF Crash, Shape, TypeOK, LedgerTypeOK
<1>3. HandlesApart' BY <1>2 DEF HandlesApart
<1>4. ASSUME NEW q \in Proc PROVE Covered(q)' BY <1>1, <1>2 DEF Covered
<1>. QED BY <1>3, <1>4

LEMMA ReservedWorld ==
    ASSUME Shape, DeadlineOn, HandlesApart, \A p \in Proc : Covered(p), World \/ UNCHANGED vars
    PROVE  HandlesApart' /\ \A q \in Proc : Covered(q)'
<1>1. UNCHANGED <<pc, left>> BY WorldKeeps DEF Shape
<1>2. UNCHANGED handle /\ (UNCHANGED resv \/ \E s \in Slot : Expire(s))
  BY DEF vars, ledgerVars, resvVars, World, Submit, Halt, Unhalt, NewDay, ExpireReservation,
         OperatorAck, DamageLedger, RepairLedgers, Expire
<1>3. HandlesApart' BY <1>2 DEF HandlesApart
<1>4. ASSUME NEW q \in Proc, handle[q] # NoSlot PROVE resv'[handle[q]] = resv[handle[q]]
  BY <1>2, <1>4 DEF Expire, Shape, TypeOK, LedgerTypeOK
<1>. QED BY <1>1, <1>2, <1>3, <1>4 DEF Covered

\* With reservations and the deadline on, no overlap of ticks, lost settlement,
\* crash or expiry leaves a running dispatch without a reservation that covers
\* what it may still spend.
THEOREM DispatchIsReserved == Spec => []DispatchReserved
<1>1. Init => ReservedInv
  BY DEF Init, LedgerInit, ReservedInv, HandlesApart, Covered
<1>2. Shape /\ ReservedInv /\ [Next]_vars => ReservedInv'
  <2> SUFFICES ASSUME Shape, ReservedInv, ResvOn, DeadlineOn, [Next]_vars PROVE ReservedInv'
    BY DEF ReservedInv
  <2>1. HandlesApart /\ \A p \in Proc : Covered(p) BY DEF ReservedInv
  <2>2. CASE World \/ UNCHANGED vars BY <2>1, <2>2, ReservedWorld DEF ReservedInv
  <2>3. CASE \E p \in Proc : Tick(p) \/ Crash(p)
    BY <2>1, <2>3, ReservedTick, ReservedCrash DEF ReservedInv
  <2>. QED BY <2>2, <2>3 DEF Next
<1>3. ReservedInv => DispatchReserved BY DEF ReservedInv, Covered, DispatchReserved
<1>. QED BY <1>1, <1>2, <1>3, ShapeInvariant, PTL DEF Spec

\* The row a tick works on is valid; past the settlement step it is settled; and
\* whatever was marked dispatched came from such a row.
SettledFirst(p) ==
    /\ pc[p] \in OnRow => Row(p).kind = "valid"
    /\ pc[p] = "dispatched" => (Row(p).campaign => Row(p).id \in settled)

ToldInv == DispatchedIsSettled /\ \A p \in Proc : SettledFirst(p)

\* Settlements are only ever added.
LEMMA SettledGrows ==
    ASSUME NEW p \in Proc, Tick(p) \/ Crash(p) PROVE settled \subseteq settled'
BY DEF histVars, Tick, Crash, Start, Acquire, LeaseRefused, ReadInbox, ReadConsumed, Exhausted,
       RejectRow, AcceptRow, ReadSpent, ReadReservations, ReviewerUnavailable, StartReview,
       ReviewUnreserved, EndReview, SettleReview, RejectReview, TombstoneInFlight,
       ReserveDispatch, DispatchUnreserved, Spend, EndDispatch, SettleDispatch, SettleCampaign,
       TombstoneDispatched, Return

\* Only the last step of a row writes the dispatched tombstone.
LEMMA DispatchedMarks ==
    ASSUME Shape, NEW p \in Proc, Tick(p) \/ Crash(p), NEW i \in Id,
           "dispatched" \in tomb'[i], "dispatched" \notin tomb[i]
    PROVE  TombstoneDispatched(p) /\ i = Row(p).id
<1> USE DEF Shape, TypeOK, histVars, Tombstone
<1>1. ~UNCHANGED tomb OBVIOUS
<1>2. CASE RejectRow(p)
  <2>1. PICK j \in 1..Len(inbox) : \E r \in {"rejected_malformed", "rejected_auth"} :
            Tombstone(inbox[j].id, r)
    BY <1>2 DEF RejectRow
  <2>. QED BY <2>1, RowOfInbox
<1>3. CASE RejectReview(p) BY <1>3 DEF RejectReview
<1>4. CASE TombstoneInFlight(p) BY <1>4 DEF TombstoneInFlight
<1>5. CASE TombstoneDispatched(p) BY <1>5 DEF TombstoneDispatched
<1>6. RejectRow(p) \/ RejectReview(p) \/ TombstoneInFlight(p) \/ TombstoneDispatched(p)
  BY <1>1 DEF Tick, Crash, Start, Acquire, LeaseRefused, ReadInbox, ReadConsumed, Exhausted,
         AcceptRow, ReadSpent, ReadReservations, ReviewerUnavailable, StartReview,
         ReviewUnreserved, EndReview, SettleReview, ReserveDispatch, DispatchUnreserved, Spend,
         EndDispatch, SettleDispatch, SettleCampaign, Return
<1>. QED BY <1>2, <1>3, <1>4, <1>5, <1>6

LEMMA SettledFirstTick ==
    ASSUME Shape, NEW p \in Proc, SettledFirst(p), Tick(p)
    PROVE  SettledFirst(p)'
<1>0. UNCHANGED inbox BY InboxKept
<1> USE DEF Shape, TypeOK, Goto, Row, OnRow, SettledFirst, walkVars, histVars
<1>1. CASE AcceptRow(p)
  <2>1. PICK j \in 1..Len(inbox) : AcceptRow(p)!(j) BY <1>1 DEF AcceptRow
  <2>. QED BY <1>0, <2>1
<1>2. CASE SettleCampaign(p) BY <1>0, <1>2 DEF SettleCampaign
<1>3. CASE RejectRow(p) BY <1>3 DEF RejectRow
<1>4. CASE RejectReview(p) BY <1>4 DEF RejectReview
<1>5. CASE Start(p) \/ Acquire(p) \/ LeaseRefused(p) \/ ReadInbox(p) \/ ReadConsumed(p)
           \/ Exhausted(p) \/ Return(p)
  BY <1>5 DEF Start, Acquire, LeaseRefused, ReadInbox, ReadConsumed, Exhausted, Return
<1>6. CASE ReadSpent(p) \/ ReadReservations(p) \/ ReviewerUnavailable(p) \/ StartReview(p)
           \/ ReviewUnreserved(p) \/ EndReview(p) \/ SettleReview(p)
  BY <1>0, <1>6 DEF ReadSpent, ReadReservations, ReviewerUnavailable, StartReview,
                    ReviewUnreserved, EndReview, SettleReview
<1>7. CASE TombstoneInFlight(p) \/ ReserveDispatch(p) \/ DispatchUnreserved(p) \/ Spend(p)
           \/ EndDispatch(p) \/ SettleDispatch(p) \/ TombstoneDispatched(p)
  BY <1>0, <1>7 DEF TombstoneInFlight, ReserveDispatch, DispatchUnreserved, Spend, EndDispatch,
                    SettleDispatch, TombstoneDispatched
<1>. QED BY <1>1, <1>2, <1>3, <1>4, <1>5, <1>6, <1>7 DEF Tick

LEMMA ToldStep ==
    ASSUME Shape, ToldInv, NEW p \in Proc, Tick(p) \/ Crash(p)
    PROVE  ToldInv'
<1>0. UNCHANGED inbox /\ settled \subseteq settled' BY InboxKept, SettledGrows
<1>1. ASSUME NEW q \in Proc, q # p PROVE SettledFirst(q)'
  <2>1. pc'[q] = pc[q] /\ at'[q] = at[q] BY <1>1, OthersKeep DEF Shape
  <2>. QED BY <1>0, <2>1 DEF ToldInv, SettledFirst, Row
<1>2. SettledFirst(p)'
  <2>1. CASE Crash(p) BY <2>1 DEF Crash, Shape, TypeOK, SettledFirst, OnRow
  <2>. QED BY <2>1, SettledFirstTick DEF ToldInv
<1>3. ASSUME NEW i \in Id, "dispatched" \in tomb'[i]
      PROVE  \E j \in 1..Len(inbox) : /\ inbox[j].id = i /\ inbox[j].kind = "valid"
                                      /\ inbox[j].campaign => i \in settled'
  <2>1. CASE "dispatched" \in tomb[i] BY <1>0, <2>1 DEF ToldInv, DispatchedIsSettled
  <2>2. CASE "dispatched" \notin tomb[i]
    <3>1. TombstoneDispatched(p) /\ i = Row(p).id BY <1>3, <2>2, DispatchedMarks
    <3>2. pc[p] = "dispatched" BY <3>1 DEF TombstoneDispatched, Goto
    <3>3. at[p] \in 1..Len(inbox) BY <3>2, RowUnderCursor DEF OnRow
    <3>4. inbox[at[p]].kind = "valid" /\ (inbox[at[p]].campaign => i \in settled)
      BY <3>1, <3>2 DEF ToldInv, SettledFirst, OnRow, Row
    <3>. QED BY <1>0, <3>1, <3>3, <3>4 DEF Row
  <2>. QED BY <2>1, <2>2
<1>. QED BY <1>0, <1>1, <1>2, <1>3 DEF ToldInv, DispatchedIsSettled

LEMMA ToldWorld ==
    ASSUME Shape, ToldInv, World \/ UNCHANGED vars PROVE ToldInv'
<1>1. /\ UNCHANGED <<tomb, settled, pc, at>>
      /\ Len(inbox') >= Len(inbox) /\ \A j \in 1..Len(inbox) : inbox'[j] = inbox[j]
  BY WorldKeeps DEF Shape
<1>2. ASSUME NEW p \in Proc PROVE SettledFirst(p)'
  <2>1. CASE pc[p] \in OnRow
    <3>1. Row(p)' = Row(p) BY <1>1, <2>1, RowUnderCursor DEF Row
    <3>. QED BY <1>1, <3>1 DEF ToldInv, SettledFirst
  <2>. QED BY <1>1, <2>1 DEF SettledFirst, OnRow
<1>3. \A j \in 1..Len(inbox) : j \in 1..Len(inbox')
  BY <1>1, LenProperties, ShapeNext DEF Shape, TypeOK
<1>. QED BY <1>1, <1>2, <1>3 DEF ToldInv, DispatchedIsSettled

\* Whatever stops between the claim of a campaign's card and its tombstone, a
\* card marked dispatched has been settled: no order of duplicates, skips,
\* halts and crashes writes the tombstone first.
THEOREM DispatchIsSettled == Spec => []DispatchedIsSettled
<1>1. Init => ToldInv
  BY DEF Init, ToldInv, DispatchedIsSettled, SettledFirst, OnRow
<1>2. Shape /\ ToldInv /\ [Next]_vars => ToldInv'
  BY ToldStep, ToldWorld DEF Next
<1>3. ToldInv => DispatchedIsSettled BY DEF ToldInv
<1>. QED BY <1>1, <1>2, <1>3, ShapeInvariant, PTL DEF Spec

\* Both promises, as the run checks them.
THEOREM PromisesTold == Spec => []PromisesAreTold
<1>1. DispatchReserved /\ DispatchedIsSettled => PromisesAreTold BY DEF PromisesAreTold
<1>. QED BY DispatchIsReserved, DispatchIsSettled, <1>1, PTL

----------------------------------------------------------------------------
\* The loop implements QueryLife

Rejections == {"rejected_malformed", "rejected_auth", "rejected_review"}

Queued == {i \in Id : \E j \in 1..Len(inbox) : inbox[j].id = i}
Rejected == {i \in Id : tomb[i] \cap Rejections # {}}
Claimed == {i \in Id : "in_flight" \in tomb[i]}
Charged == {i \in Id : paid[i] > 0}

\* A tombstone that turns an unclaimed row away is a TurnAway, or changes
\* nothing the submitter can see.
LEMMA RejectionMaps ==
    ASSUME TypeOK, NEW i \in Id, NEW r \in Rejections, Tombstone(i, r)
    PROVE  Rejected' = Rejected \cup {i} /\ Claimed' = Claimed
BY DEF TypeOK, Tombstone, Rejected, Claimed, Rejections

LEMMA ClaimMaps ==
    ASSUME TypeOK, NEW i \in Id, Tombstone(i, "in_flight")
    PROVE  Rejected' = Rejected /\ Claimed' = Claimed \cup {i}
BY DEF TypeOK, Tombstone, Rejected, Claimed, Rejections

LEMMA TombKept ==
    ASSUME NEW p \in Proc, Tick(p) \/ Crash(p)
    PROVE  \/ RejectRow(p) \/ RejectReview(p) \/ TombstoneInFlight(p) \/ TombstoneDispatched(p)
           \/ UNCHANGED tomb
BY DEF histVars, Tick, Crash, Start, Acquire, LeaseRefused, ReadInbox, ReadConsumed, Exhausted,
       AcceptRow, ReadSpent, ReadReservations, ReviewerUnavailable, StartReview,
       ReviewUnreserved, EndReview, SettleReview, ReserveDispatch, DispatchUnreserved, Spend,
       EndDispatch, SettleDispatch, SettleCampaign, Return

\* Every step of a tick is a step of QueryLife or leaves it alone.
LEMMA TickMaps ==
    ASSUME Shape, Once, LeaseOn, TickFailClosed, NEW p \in Proc, Tick(p) \/ Crash(p)
    PROVE  QL!Next \/ UNCHANGED QL!vars
<1>1. UNCHANGED Queued BY InboxKept DEF Queued
<1>a. \A j \in 1..Len(inbox) : inbox[j].id \in Queued
  <2>1. ASSUME NEW j \in 1..Len(inbox) PROVE inbox[j].id \in Id BY RowOfInbox DEF Shape
  <2>. QED BY <2>1 DEF Queued
<1>b. UNCHANGED <<Queued, Rejected, Claimed, Charged>> => UNCHANGED QL!vars
  BY DEF QL!vars, Queued, Rejected, Claimed, Charged, Rejections
<1>c. ASSUME NEW i \in Queued \ Claimed, Rejected' = Rejected \cup {i},
             UNCHANGED <<Queued, Claimed, Charged>>
      PROVE  QL!Next
  <2>1. QL!TurnAway(i) BY <1>c DEF QL!TurnAway, Queued, Rejected, Claimed, Charged, Rejections
  <2>. QED BY <2>1 DEF QL!Next, Queued
<1>2. CASE RejectRow(p)
  <2>1. PICK j \in 1..Len(inbox) : RejectRow(p)!(j) BY <1>2 DEF RejectRow
  <2>2. inbox[j].id \in Id BY RowOfInbox DEF Shape
  <2>3. PICK r \in Rejections : Tombstone(inbox[j].id, r) BY <2>1 DEF Rejections
  <2>4. inbox[j].id \notin Claimed
    BY <2>1 DEF NextPending, Once, SnapshotFresh, Judging, Claimed
  <2>5. Rejected' = Rejected \cup {inbox[j].id} /\ Claimed' = Claimed
    BY <2>2, <2>3, RejectionMaps DEF Shape
  <2>6. Charged' = Charged BY <2>1 DEF Charged
  <2>. QED BY <2>4, <2>5, <2>6, <1>1, <1>a, <1>c
<1>3. CASE RejectReview(p)
  <2>1. at[p] \in 1..Len(inbox) /\ at[p] \in at[p]..upto[p] /\ Row(p).id \in Id
    BY <1>3, RowUnderCursor DEF RejectReview, Goto, OnRow, Shape, CursorOK, TypeOK
  <2>2. Row(p).id \notin Claimed
    BY <1>3, <2>1 DEF RejectReview, Goto, Once, SnapshotFresh, Judging, Claimed, Row
  <2>3. Rejected' = Rejected \cup {Row(p).id} /\ Claimed' = Claimed
    BY <1>3, <2>1, RejectionMaps DEF RejectReview, Rejections, Shape
  <2>4. Charged' = Charged BY <1>3 DEF RejectReview, Charged
  <2>. QED BY <2>1, <2>2, <2>3, <2>4, <1>1, <1>a, <1>c DEF Row
<1>4. CASE TombstoneInFlight(p)
  <2>1. at[p] \in 1..Len(inbox) /\ at[p] \in at[p]..upto[p] /\ Row(p).id \in Id
    BY <1>4, RowUnderCursor DEF TombstoneInFlight, Goto, OnRow, Shape, CursorOK, TypeOK
  <2>2. Row(p).id \notin Claimed
    BY <1>4, <2>1 DEF TombstoneInFlight, Goto, Once, SnapshotFresh, Judging, Claimed, Row
  <2>3. Rejected' = Rejected /\ Claimed' = Claimed \cup {Row(p).id}
    BY <1>4, <2>1, ClaimMaps DEF TombstoneInFlight, Shape
  <2>4. Charged' = Charged BY <1>4 DEF TombstoneInFlight, Charged
  <2>5. PICK i \in Id : i = Row(p).id BY <2>1
  <2>6. QL!Claim(i)
    BY <2>1, <2>2, <2>3, <2>4, <2>5, <1>1, <1>a
       DEF QL!Claim, Queued, Rejected, Claimed, Charged, Rejections, Row
  <2>. QED BY <2>6 DEF QL!Next
<1>5. CASE ReserveDispatch(p)
  <2>1. pc[p] = "reserve" /\ UNCHANGED tomb BY <1>5 DEF ReserveDispatch, Goto
  <2>2. Row(p).id \in Id BY <2>1, RowUnderCursor DEF OnRow
  <2>3. Row(p).id \in Claimed \ Charged
    BY <2>1, <2>2 DEF Once, ClaimUnpaid, Claimed, Charged
  <2>4. Charged' = Charged \cup {Row(p).id}
    BY <1>5, <2>2 DEF ReserveDispatch, Charged, Shape, TypeOK
  <2>5. UNCHANGED <<Rejected, Claimed>> BY <2>1 DEF Rejected, Claimed
  <2>6. PICK i \in Id : i = Row(p).id BY <2>2
  <2>7. QL!Charge(i)
    BY <2>3, <2>4, <2>5, <2>6, <1>1 DEF QL!Charge, Queued, Rejected, Claimed, Charged, Rejections
  <2>. QED BY <2>7 DEF QL!Next
<1>6. CASE TombstoneDispatched(p)
  <2>1. Row(p).id \in Id BY <1>6, RowUnderCursor DEF TombstoneDispatched, Goto, OnRow
  <2>2. UNCHANGED <<Rejected, Claimed>>
    BY <1>6, <2>1 DEF TombstoneDispatched, Tombstone, Rejected, Claimed, Rejections, Shape, TypeOK
  <2>3. Charged' = Charged BY <1>6 DEF TombstoneDispatched, Charged
  <2>. QED BY <2>2, <2>3, <1>1, <1>b
<1>7. CASE UNCHANGED <<tomb, paid>>
  <2>1. UNCHANGED <<Rejected, Claimed, Charged>> BY <1>7 DEF Rejected, Claimed, Charged
  <2>. QED BY <2>1, <1>1, <1>b
<1>8. UNCHANGED tomb /\ ~ReserveDispatch(p) => UNCHANGED <<tomb, paid>> BY PaidKept
<1>. QED BY <1>2, <1>3, <1>4, <1>5, <1>6, <1>7, <1>8, TombKept

LEMMA WorldMaps ==
    ASSUME Shape, World \/ UNCHANGED vars PROVE QL!Next \/ UNCHANGED QL!vars
<1>1. UNCHANGED <<tomb, paid>> BY WorldKeeps DEF Shape
<1>2. UNCHANGED <<Rejected, Claimed, Charged>> BY <1>1 DEF Rejected, Claimed, Charged
<1>3. CASE UNCHANGED inbox
  BY <1>2, <1>3 DEF QL!vars, Queued, Rejected, Claimed, Charged, Rejections
<1>4. CASE \E r \in Rows : Submit(r)
  <2>1. PICK r \in Rows : Submit(r) BY <1>4
  <2>2. r.id \in Id BY RowsAssumption DEF RowType
  <2>3. Queued' = Queued \cup {r.id}
    <3>1. /\ Len(inbox') = Len(inbox) + 1 /\ inbox'[Len(inbox) + 1] = r
          /\ \A j \in 1..Len(inbox) : inbox'[j] = inbox[j]
      BY <2>1, AppendProperties DEF Submit, Shape, TypeOK
    <3>2. Len(inbox) \in Nat BY LenProperties DEF Shape, TypeOK
    <3>3. ASSUME NEW i \in Id, \E j \in 1..Len(inbox') : inbox'[j].id = i
          PROVE  i \in Queued \cup {r.id}
      BY <3>1, <3>2, <3>3 DEF Queued
    <3>4. ASSUME NEW i \in Queued PROVE \E j \in 1..Len(inbox') : inbox'[j].id = i
      <4>1. PICK j \in 1..Len(inbox) : inbox[j].id = i BY DEF Queued
      <4>. QED BY <4>1, <3>1, <3>2
    <3>5. \E j \in 1..Len(inbox') : inbox'[j].id = r.id BY <3>1, <3>2
    <3>. QED BY <3>3, <3>4, <3>5, <2>2 DEF Queued
  <2>4. QL!Enqueue(r.id)
    BY <2>3, <1>2 DEF QL!Enqueue, Queued, Rejected, Claimed, Charged, Rejections
  <2>. QED BY <2>2, <2>4 DEF QL!Next
<1>5. (\E r \in Rows : Submit(r)) \/ UNCHANGED inbox
  BY DEF World, Halt, Unhalt, NewDay, ExpireReservation, OperatorAck, DamageLedger, RepairLedgers,
         vars, envVars, tickVars
<1>. QED BY <1>3, <1>4, <1>5

\* Seen through its tombstones and its charges the loop behaves as QueryLife
\* says: every step maps to one of its steps, or to a stutter.
THEOREM ImplementsQueryLife == ASSUME LeaseOn, TickFailClosed PROVE Spec => QueryLifeSpec
<1>1. Init => QL!Init
  <2> SUFFICES ASSUME Init PROVE QL!Init OBVIOUS
  <2>1. {i \in Id : \E j \in 1..Len(inbox) : inbox[j].id = i} = {}
    <3>1. Len(inbox) = 0 BY EmptySeq DEF Init
    <3>. QED BY <3>1
  <2>. QED BY <2>1 DEF Init, QL!Init
<1>2. Shape /\ GuardedOnce /\ [Next]_vars => [QL!Next]_(QL!vars)
  <2> SUFFICES ASSUME Shape, Once, [Next]_vars PROVE QL!Next \/ UNCHANGED QL!vars
    BY DEF GuardedOnce
  <2>. QED BY TickMaps, WorldMaps DEF Next
<1>. QED BY <1>1, <1>2, ShapeInvariant, OnceInvariant, PTL DEF Spec, QueryLifeSpec, QL!Spec
=============================================================================
