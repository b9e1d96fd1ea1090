------------------------- MODULE ReviewBudgetProofs -------------------------
(***************************************************************************)
(* Proofs about ReviewBudget.  The argument has four layers:               *)
(*   Exclusive   whoever looks at the ledger in order to write holds the   *)
(*               sidecar lock, so what it saw still holds when it writes;  *)
(*   Private     a transaction belongs to one process, which knows from    *)
(*               its own place in the review what rows it can find there;  *)
(*   Book        what rows a transaction has says what it was billed;      *)
(*   CapInv      what fitted under the caps when it was looked at still    *)
(*               fits when it is written.                                  *)
(***************************************************************************)
EXTENDS ReviewBudget, DataLemmas, SequenceTheorems, TLAPS

Holders == {"check", "append", "recording", "marking"}

\* The reconcile rows the program writes for a transaction billed b.
Reconciles(r, b) ==
    /\ r \in Row
    /\ r.kind = "reconcile"
    /\ r.usd # 0 => (r.usd = b - Envelope /\ b <= Envelope /\ r.mark = "none")

Exclusive == \A p \in Proc : pc[p] \in Holders => lock = p

Private == \A p, q \in Proc : p # q /\ tx[p] = tx[q] => tx[p] = NoTx

\* The rows p finds in its transaction.
Finds(p) ==
    /\ pc[p] \in Label \ {"idle", "reserve", "check"} => tx[p] \in Tx
    /\ pc[p] = "append" => ledger[tx[p]] = <<>> /\ bill[tx[p]] = 0 /\ ~Blocked
    /\ pc[p] \in {"call", "record", "recording"} => Len(ledger[tx[p]]) = 1
    /\ pc[p] = "call" => bill[tx[p]] = 0
    /\ pc[p] \in {"record", "recording", "mark", "marking", "settled"} =>
          (evidence[p] \in {"measured", "unmeasured"} => bill[tx[p]] <= Envelope)
    /\ pc[p] \in {"record", "recording"} => evidence[p] # "none"
    /\ pc[p] \in {"mark", "marking"} => Len(ledger[tx[p]]) \in {1, 2}
    /\ pc[p] = "settled" =>
          /\ Len(ledger[tx[p]]) = 2
          /\ ledger[tx[p]][2].mark = "none"
          /\ ledger[tx[p]][2].usd = bill[tx[p]] - Envelope

\* The rows transaction t can have.
Booked(t) ==
    /\ Len(ledger[t]) \in 0..2
    /\ Len(ledger[t]) = 0 => bill[t] = 0
    /\ Len(ledger[t]) > 0 => ledger[t][1] = ReserveRow
    /\ Len(ledger[t]) = 2 => Reconciles(ledger[t][2], bill[t])

Book ==
    /\ \A p \in Proc : Finds(p)
    /\ \A t \in Tx : Booked(t)

IInv == TypeOK /\ Exclusive /\ Private /\ Book /\ AcceptedIsMeasured

----------------------------------------------------------------------------
\* Lemmas

LEMMA OneMore ==
    ASSUME NEW s \in Seq(Row), NEW r \in Row
    PROVE  /\ Append(s, r) \in Seq(Row) /\ Len(s) \in Nat
           /\ Len(Append(s, r)) = Len(s) + 1 /\ Append(s, r)[Len(s) + 1] = r
           /\ \A k \in 1..Len(s) : Append(s, r)[k] = s[k] /\ s[k] \in Row
           /\ (Len(s) = 0 <=> s = <<>>)
<1>1. Len(s) \in Nat BY LenProperties
<1>2. /\ Append(s, r) \in Seq(Row)
      /\ Len(Append(s, r)) = Len(s) + 1 /\ Append(s, r)[Len(s) + 1] = r
      /\ \A k \in 1..Len(s) : Append(s, r)[k] = s[k]
  BY AppendProperties
<1>3. \A k \in 1..Len(s) : s[k] \in Row BY ElementOfSeq
<1>4. s # <<>> => Len(s) # 0 BY EmptySeq
<1>5. s = <<>> => Len(s) = 0 BY EmptySeq
<1>. QED BY <1>1, <1>2, <1>3, <1>4, <1>5, Zenon

LEMMA ReserveRowIsRow == ReserveRow \in Row /\ ReserveRow.kind = "reserve" /\ ReserveRow.usd = Envelope
BY ReviewAmountAssumption DEF ReserveRow, Row

\* A booked transaction is legal, and takes one reconcile more at most.
LEMMA BookedIsLegal ==
    ASSUME TypeOK, NEW t \in Tx, Booked(t)
    PROVE  /\ Legal(ledger[t])
           /\ \A r \in Row : Legal(Append(ledger[t], r)) => Len(ledger[t]) < 2
<1>1. ledger[t] \in Seq(Row) /\ bill[t] \in Nat BY DEF TypeOK
<1>2. Legal(ledger[t])
  <2>1. CASE Len(ledger[t]) = 0
    BY <1>1, <2>1, EmptySeq DEF Legal
  <2>2. CASE Len(ledger[t]) = 1
    BY <2>2, ReserveRowIsRow, ReviewAmountAssumption DEF Booked, Legal
  <2>3. CASE Len(ledger[t]) = 2
    <3> DEFINE r == ledger[t][2]
    <3>1. Reconciles(r, bill[t])
      BY <2>3 DEF Booked
    <3>2. r.kind = "reconcile" /\ r.usd \in Int /\ Envelope + r.usd >= 0
      <4>1. r.usd \in Int /\ r.kind = "reconcile" BY <3>1 DEF Reconciles, Row
      <4>2. r.usd = 0 \/ r.usd = bill[t] - Envelope BY <3>1 DEF Reconciles
      <4>3. PICK u \in Int, b \in Nat, e \in Nat : u = r.usd /\ b = bill[t] /\ e = Envelope
        BY <1>1, <4>1, ReviewAmountAssumption
      <4>4. u = 0 \/ u = b - e BY <4>2, <4>3
      <4>5. e + u >= 0 BY ONLY <4>3, <4>4
      <4>. QED BY <4>1, <4>3, <4>5
    <3>. QED BY <2>3, <3>2, ReserveRowIsRow, ReviewAmountAssumption DEF Booked, Legal
  <2>. QED BY <2>1, <2>2, <2>3 DEF Booked
<1>3. ASSUME NEW r \in Row, Legal(Append(ledger[t], r)) PROVE Len(ledger[t]) < 2
  BY <1>1, <1>3, OneMore DEF Legal
<1>. QED BY <1>2, <1>3

\* What a process does in its own transaction is invisible to the others.
LEMMA OthersKeep ==
    ASSUME IInv, NEW p \in Proc, NEW q \in Proc, q # p,
           pc'[q] = pc[q], tx'[q] = tx[q], evidence'[q] = evidence[q],
           ledger' = ledger \/ lock = p,
           \A t \in Tx : t # tx[p] => ledger'[t] = ledger[t] /\ bill'[t] = bill[t]
    PROVE  Finds(q)'
<1>1. CASE pc[q] \in {"idle", "reserve", "check"}
  BY <1>1 DEF Finds
<1>2. CASE pc[q] \notin {"idle", "reserve", "check"}
  <2>1. pc[q] \in Label BY DEF IInv, TypeOK
  <2>2. tx[q] \in Tx /\ Finds(q) BY <1>2, <2>1 DEF IInv, Book, Finds
  <2>3. tx[q] # tx[p] BY <2>2, ReviewActorsAssumption DEF IInv, Private
  <2>4. ledger'[tx[q]] = ledger[tx[q]] /\ bill'[tx[q]] = bill[tx[q]] BY <2>2, <2>3
  <2>5. CASE pc[q] = "append"
    <3>1. lock = q BY <2>5 DEF IInv, Exclusive, Holders
    <3>2. ledger' = ledger BY <3>1
    <3>3. Blocked' = Blocked BY <3>2 DEF Blocked
    <3>. QED BY <2>2, <2>4, <2>5, <3>3 DEF Finds
  <2>6. CASE pc[q] # "append"
    BY <2>1, <2>2, <2>4, <2>6 DEF Finds, ReserveRow
  <2>. QED BY <2>5, <2>6
<1>. QED BY <1>1, <1>2

LEMMA BookedKeeps ==
    ASSUME NEW t \in Tx, Booked(t), ledger'[t] = ledger[t], bill'[t] = bill[t]
    PROVE  Booked(t)'
BY DEF Booked, Reconciles, ReserveRow

\* Every row the program books for a transaction is one it may book.
LEMMA ReconcileRowFits ==
    ASSUME IInv, NEW p \in Proc, pc[p] = "recording"
    PROVE  Reconciles(ReconcileRow(p), bill[tx[p]])
<1>1. evidence[p] \in Evidence /\ tx[p] \in Tx
      /\ (evidence[p] \in {"measured", "unmeasured"} => bill[tx[p]] <= Envelope)
  BY DEF IInv, TypeOK, Book, Finds, Label
<1>2. bill[tx[p]] \in Nat BY <1>1 DEF IInv, TypeOK
<1>. QED BY <1>1, <1>2, ReviewAmountAssumption DEF Reconciles, ReconcileRow, Row, Evidence

LEMMA MarkRowFits == \A b \in Nat : Reconciles(MarkRow, b)
BY DEF Reconciles, MarkRow, Row

\* t gained the row r, behind the reservation it had.
Gains(t, r) == Len(ledger[t]) = 1 /\ ledger' = [ledger EXCEPT ![t] = Append(@, r)]

LEMMA GainsBooks ==
    ASSUME IInv, NEW t \in Tx, NEW r, Reconciles(r, bill[t]), Gains(t, r), bill' = bill
    PROVE  /\ ledger' \in [Tx -> Seq(Row)]
           /\ Booked(t)' /\ Len(ledger'[t]) = 2 /\ ledger'[t][2] = r
           /\ \A u \in Tx \ {t} : ledger'[u] = ledger[u]
<1>1. ledger[t] \in Seq(Row) /\ r \in Row /\ Booked(t)
  BY DEF IInv, TypeOK, Book, Reconciles
<1>2. ledger'[t] = Append(ledger[t], r) /\ \A u \in Tx \ {t} : ledger'[u] = ledger[u]
  BY DEF Gains, IInv, TypeOK
<1>3. ledger' \in [Tx -> Seq(Row)]
  BY <1>1, OneMore DEF Gains, IInv, TypeOK
<1>4. Len(ledger'[t]) = 2 /\ ledger'[t][2] = r /\ ledger'[t][1] = ledger[t][1]
  BY <1>1, <1>2, OneMore DEF Gains
<1>5. Booked(t)'
  BY <1>1, <1>4 DEF Booked, Gains, Reconciles, ReserveRow
<1>. QED BY <1>2, <1>3, <1>4, <1>5

\* Behind a full transaction record_spend refuses every row.
LEMMA RecordSpendStep ==
    ASSUME IInv, NEW p \in Proc, pc[p] \in {"recording", "marking"},
           NEW row \in Row, NEW ok, NEW failed, RecordSpend(p, row, ok, failed)
    PROVE  /\ torn' \in BOOLEAN /\ faults' \in Nat
           /\ \/ pc' = [pc EXCEPT ![p] = ok] /\ Gains(tx[p], row)
              \/ pc' = [pc EXCEPT ![p] = failed] /\ (ledger' = ledger \/ Gains(tx[p], row))
<1>1. tx[p] \in Tx /\ Len(ledger[tx[p]]) \in {1, 2} /\ Booked(tx[p])
  BY DEF IInv, Book, Finds, Label, TypeOK
<1>2. Legal(Append(ledger[tx[p]], row)) => Len(ledger[tx[p]]) = 1
  <2>1. TypeOK BY DEF IInv
  <2>2. Legal(Append(ledger[tx[p]], row)) => Len(ledger[tx[p]]) < 2
    BY <1>1, <2>1, BookedIsLegal, Zenon
  <2>3. \A n \in {1, 2} : n < 2 => n = 1
    OBVIOUS
  <2>. QED BY <1>1, <2>2, <2>3
<1>3. torn \in BOOLEAN /\ faults \in Nat BY DEF IInv, TypeOK
<1>4. CASE Legal(Append(ledger[tx[p]], row)) /\ Write(p, tx[p], row, ok, failed)
  <2>1. torn' \in BOOLEAN
    <3>1. torn' = torn \/ torn' = TRUE BY <1>4, Zenon DEF Write
    <3>. QED BY <1>3, <3>1
  <2>2. faults' \in Nat BY <1>3, <1>4 DEF Write, Fault
  <2>3. \/ pc' = [pc EXCEPT ![p] = ok] /\ ledger' = [ledger EXCEPT ![tx[p]] = Append(@, row)]
        \/ pc' = [pc EXCEPT ![p] = failed]
           /\ (ledger' = ledger \/ ledger' = [ledger EXCEPT ![tx[p]] = Append(@, row)])
    BY <1>4, Zenon DEF Write
  <2>. QED BY <1>2, <1>4, <2>1, <2>2, <2>3, Zenon DEF Gains
<1>5. CASE pc' = [pc EXCEPT ![p] = failed] /\ UNCHANGED <<ledger, torn, faults>>
  BY <1>3, <1>5, Zenon
<1>. QED BY <1>4, <1>5, Zenon DEF RecordSpend

LEMMA AcceptedKeeps ==
    ASSUME IInv, accepted' = accepted,
           \A t \in Tx : Len(ledger[t]) = 2 => ledger'[t] = ledger[t] /\ bill'[t] = bill[t]
    PROVE  AcceptedIsMeasured'
BY DEF IInv, TypeOK, AcceptedIsMeasured, Net

----------------------------------------------------------------------------
\* The invariant

LEMMA InitInvariant == Init => IInv
<1> SUFFICES ASSUME Init PROVE IInv OBVIOUS
<1>1. TypeOK
  <2>1. exec \in Nat \cup {NoEpisode} /\ faults \in Nat BY DEF Init
  <2>2. ledger \in [Tx -> Seq(Row)] BY EmptySeq DEF Init
  <2>. QED BY <2>1, <2>2 DEF Init, TypeOK, Label, Evidence
<1>2. Exclusive /\ Private /\ AcceptedIsMeasured
  BY DEF Init, Exclusive, Holders, Private, AcceptedIsMeasured
<1>3. Book
  BY EmptySeq DEF Init, Book, Booked, Finds, Label
<1>. QED BY <1>1, <1>2, <1>3 DEF IInv

LEMMA StartReviewStep ==
    ASSUME IInv, NEW p \in Proc, StartReview(p) PROVE IInv'
<1> USE DEF StartReview, Goto
<1>1. TypeOK' BY DEF IInv, TypeOK, Label, Evidence
<1>2. Exclusive' BY DEF IInv, TypeOK, Exclusive, Holders
<1>3. Private' BY DEF IInv, TypeOK, Private
<1>4. \A q \in Proc : Finds(q)'
  <2>1. Finds(p)' BY DEF IInv, TypeOK, Finds
  <2>2. ASSUME NEW q \in Proc, q # p PROVE Finds(q)'
    <3>1. pc'[q] = pc[q] /\ tx'[q] = tx[q] /\ evidence'[q] = evidence[q]
      BY <2>2 DEF IInv, TypeOK
    <3>. QED BY <2>2, <3>1, OthersKeep
  <2>. QED BY <2>1, <2>2
<1>5. \A t \in Tx : Booked(t)' BY BookedKeeps DEF IInv, Book
<1>6. AcceptedIsMeasured' BY AcceptedKeeps
<1>. QED BY <1>1, <1>2, <1>3, <1>4, <1>5, <1>6 DEF IInv, Book

LEMMA LockStep ==
    ASSUME IInv, NEW p \in Proc, Lock(p) PROVE IInv'
<1> USE DEF Lock
<1>0. /\ pc[p] \in {"reserve", "record", "mark"}
      /\ pc'[p] = CASE pc[p] = "reserve" -> "check" [] pc[p] = "record" -> "recording"
                    [] OTHER -> "marking"
  BY DEF Waiting, IInv, TypeOK
<1>1. TypeOK' BY <1>0 DEF IInv, TypeOK, Label
<1>2. Exclusive' BY ReviewActorsAssumption DEF IInv, TypeOK, Exclusive, Holders
<1>3. Private' BY DEF IInv, Private
<1>4. \A q \in Proc : Finds(q)'
  <2>1. Finds(p)' BY <1>0 DEF IInv, TypeOK, Book, Finds, Label
  <2>2. ASSUME NEW q \in Proc, q # p PROVE Finds(q)'
    <3>1. pc'[q] = pc[q] /\ tx'[q] = tx[q] /\ evidence'[q] = evidence[q]
      BY <2>2 DEF IInv, TypeOK
    <3>. QED BY <2>2, <3>1, OthersKeep
  <2>. QED BY <2>1, <2>2
<1>5. \A t \in Tx : Booked(t)' BY BookedKeeps DEF IInv, Book
<1>6. AcceptedIsMeasured' BY AcceptedKeeps
<1>. QED BY <1>1, <1>2, <1>3, <1>4, <1>5, <1>6 DEF IInv, Book

LEMMA CheckStep ==
    ASSUME IInv, NEW p \in Proc, Check(p) PROVE IInv'
<1> USE DEF Check, Goto
<1>0. pc[p] = "check" /\ lock = p BY DEF IInv, Exclusive, Holders
<1>1. TypeOK' BY DEF IInv, TypeOK, Label
<1>2. Exclusive' BY <1>0 DEF IInv, TypeOK, Exclusive, Holders
<1>3. Private'
  <2>1. CASE UNCHANGED tx BY <2>1 DEF IInv, Private
  <2>2. CASE \E t \in Tx : Fresh(t) /\ tx' = [tx EXCEPT ![p] = t]
    <3>1. PICK t \in Tx : Fresh(t) /\ tx' = [tx EXCEPT ![p] = t] BY <2>2
    <3>2. /\ tx'[p] = t /\ \A q \in Proc : q # p => tx'[q] = tx[q]
          /\ \A q \in Proc : tx[q] # t
      BY <3>1 DEF IInv, TypeOK, Fresh
    <3>. QED BY <3>2 DEF IInv, Private
  <2>. QED BY <2>1, <2>2
<1>4. \A q \in Proc : Finds(q)'
  <2>1. Finds(p)'
    <3>1. CASE pc' = [pc EXCEPT ![p] = "idle"] BY <3>1 DEF IInv, TypeOK, Finds
    <3>2. CASE Admissible /\ pc' = [pc EXCEPT ![p] = "append"]
               /\ \E t \in Tx : Fresh(t) /\ tx' = [tx EXCEPT ![p] = t]
      <4>1. PICK t \in Tx : Fresh(t) /\ tx' = [tx EXCEPT ![p] = t] BY <3>2
      <4>2. ledger[t] = <<>> /\ Booked(t) BY <4>1 DEF Fresh, IInv, Book
      <4>3. bill[t] = 0 BY <4>2, EmptySeq DEF Booked
      <4>4. Blocked' = Blocked /\ ~Blocked BY <3>2 DEF Admissible, Blocked
      <4>5. tx'[p] = t /\ pc'[p] = "append" BY <3>2, <4>1 DEF IInv, TypeOK
      <4>. QED BY <4>2, <4>3, <4>4, <4>5 DEF Finds
    <3>. QED BY <3>1, <3>2
  <2>2. ASSUME NEW q \in Proc, q # p PROVE Finds(q)'
    <3>1. pc'[q] = pc[q] /\ tx'[q] = tx[q] /\ evidence'[q] = evidence[q]
      BY <2>2 DEF IInv, TypeOK
    <3>. QED BY <2>2, <3>1, OthersKeep
  <2>. QED BY <2>1, <2>2
<1>5. \A t \in Tx : Booked(t)' BY BookedKeeps DEF IInv, Book
<1>6. AcceptedIsMeasured' BY AcceptedKeeps
<1>. QED BY <1>1, <1>2, <1>3, <1>4, <1>5, <1>6 DEF IInv, Book

LEMMA AppendReserveStep ==
    ASSUME IInv, NEW p \in Proc, AppendReserve(p) PROVE IInv'
<1> DEFINE t == tx[p]
           ReservedRow == ledger' = [ledger EXCEPT ![t] = Append(@, ReserveRow)]
<1>0. /\ pc[p] = "append" /\ lock = p /\ lock' = Nobody
      /\ UNCHANGED <<tx, evidence, exec, bill, accepted>>
      /\ t \in Tx /\ ledger[t] = <<>> /\ bill[t] = 0 /\ ~Blocked
  BY DEF AppendReserve, IInv, Exclusive, Holders, Book, Finds, Label
<1>1. /\ \/ pc' = [pc EXCEPT ![p] = "call"] /\ ReservedRow
         \/ pc' = [pc EXCEPT ![p] = "idle"] /\ (ledger' = ledger \/ ReservedRow)
      /\ faults' \in Nat
      /\ torn' = torn \/ torn' = TRUE
  <2>1. faults \in Nat /\ Write(p, t, ReserveRow, "call", "idle")
    BY DEF AppendReserve, IInv, TypeOK
  <2>. QED BY <2>1 DEF Write, Fault
<1>2. \/ ledger' = ledger
      \/ /\ ledger' \in [Tx -> Seq(Row)] /\ Len(ledger'[t]) = 1 /\ ledger'[t][1] = ReserveRow
         /\ \A u \in Tx \ {t} : ledger'[u] = ledger[u]
  <2>1. CASE ReservedRow
    <3>1. ledger \in [Tx -> Seq(Row)] /\ Len(ledger[t]) = 0 BY <1>0, EmptySeq DEF IInv, TypeOK
    <3>. QED BY <1>0, <2>1, <3>1, OneMore, ReserveRowIsRow
  <2>. QED BY <1>1, <2>1
<1>3. TypeOK'
  <2>1. torn' \in BOOLEAN BY <1>1 DEF IInv, TypeOK
  <2>. QED BY <1>0, <1>1, <1>2, <2>1 DEF IInv, TypeOK, Label
<1>4. Exclusive' BY <1>0, <1>1 DEF IInv, TypeOK, Exclusive, Holders
<1>5. Private' BY <1>0 DEF IInv, Private
<1>6. \A q \in Proc : Finds(q)'
  <2>1. Finds(p)'
    <3>1. CASE pc' = [pc EXCEPT ![p] = "idle"] BY <3>1 DEF IInv, TypeOK, Finds
    <3>2. CASE pc' = [pc EXCEPT ![p] = "call"] /\ ReservedRow
      <4>1. Len(ledger'[t]) = 1
        <5>1. ledger'[t] = Append(ledger[t], ReserveRow) BY <1>0, <3>2 DEF IInv, TypeOK
        <5>. QED BY <1>0, <5>1, OneMore, EmptySeq, ReserveRowIsRow
      <4>. QED BY <1>0, <3>2, <4>1 DEF IInv, TypeOK, Finds
    <3>. QED BY <1>1, <3>1, <3>2
  <2>2. ASSUME NEW q \in Proc, q # p PROVE Finds(q)'
    <3>1. pc'[q] = pc[q] /\ tx'[q] = tx[q] /\ evidence'[q] = evidence[q]
      BY <1>0, <1>1, <2>2 DEF IInv, TypeOK
    <3>. QED BY <1>0, <1>2, <2>2, <3>1, OthersKeep
  <2>. QED BY <2>1, <2>2
<1>7. \A u \in Tx : Booked(u)'
  <2>1. ASSUME NEW u \in Tx, ledger'[u] = ledger[u] PROVE Booked(u)'
    BY <1>0, <2>1, BookedKeeps DEF IInv, Book
  <2>2. ASSUME NEW u \in Tx, Len(ledger'[u]) = 1, ledger'[u][1] = ReserveRow PROVE Booked(u)'
    BY <2>2 DEF Booked, ReserveRow
  <2>. QED BY <1>2, <2>1, <2>2
<1>8. AcceptedIsMeasured'
  <2>1. Len(ledger[t]) = 0 BY <1>0, EmptySeq
  <2>2. ASSUME NEW u \in Tx, Len(ledger[u]) = 2
        PROVE  ledger'[u] = ledger[u] /\ bill'[u] = bill[u]
    <3>1. u # t
      <4>1. u = t => Len(ledger[u]) = 0 BY <2>1, Zenon
      <4>. QED BY <2>2, <4>1, SMT
    <3>. QED BY <1>0, <1>2, <3>1
  <2>. QED BY <1>0, <2>2, AcceptedKeeps
<1>. QED BY <1>3, <1>4, <1>5, <1>6, <1>7, <1>8 DEF IInv, Book

LEMMA GenerateStep ==
    ASSUME IInv, NEW p \in Proc, Generate(p) PROVE IInv'
<1> DEFINE t == tx[p]
<1>0. /\ pc[p] = "call" /\ pc' = [pc EXCEPT ![p] = "record"]
      /\ UNCHANGED <<ledger, torn, lock, tx, exec, faults, accepted>>
      /\ t \in Tx /\ Len(ledger[t]) = 1
  BY DEF Generate, Goto, IInv, Book, Finds, Label
<1>1. PICK e \in Evidence \ {"none"}, b \in 0..MaxBill :
          /\ e \in {"measured", "unmeasured"} => b <= Envelope
          /\ evidence' = [evidence EXCEPT ![p] = e] /\ bill' = [bill EXCEPT ![t] = b]
  BY DEF Generate
<1>2. b \in Nat BY ReviewAmountAssumption
<1>3. TypeOK' BY <1>0, <1>1, <1>2 DEF IInv, TypeOK, Label
<1>4. Exclusive' BY <1>0 DEF IInv, TypeOK, Exclusive, Holders
<1>5. Private' BY <1>0 DEF IInv, Private
<1>6. \A q \in Proc : Finds(q)'
  <2>1. Finds(p)' BY <1>0, <1>1 DEF IInv, TypeOK, Finds
  <2>2. ASSUME NEW q \in Proc, q # p PROVE Finds(q)'
    <3>1. pc'[q] = pc[q] /\ tx'[q] = tx[q] /\ evidence'[q] = evidence[q]
      BY <1>0, <1>1, <2>2 DEF IInv, TypeOK
    <3>2. \A u \in Tx : u # t => ledger'[u] = ledger[u] /\ bill'[u] = bill[u]
      BY <1>0, <1>1 DEF IInv, TypeOK
    <3>. QED BY <1>0, <2>2, <3>1, <3>2, OthersKeep
  <2>. QED BY <2>1, <2>2
<1>7. \A u \in Tx : Booked(u)'
  <2>1. ASSUME NEW u \in Tx, u # t PROVE Booked(u)'
    BY <1>0, <1>1, <2>1, BookedKeeps DEF IInv, TypeOK, Book
  <2>2. ASSUME NEW u \in Tx, u = t PROVE Booked(u)'
    <3>1. Booked(u) BY DEF IInv, Book
    <3>2. ledger'[u] = ledger[u] /\ Len(ledger[u]) = 1 BY <1>0, <2>2
    <3>. QED BY ONLY <3>1, <3>2, SMT DEF Booked
  <2>. QED BY <2>1, <2>2
<1>8. AcceptedIsMeasured'
  <2>1. ASSUME NEW u \in Tx, Len(ledger[u]) = 2
        PROVE  ledger'[u] = ledger[u] /\ bill'[u] = bill[u]
    <3>1. u # t BY <1>0, <2>1
    <3>. QED BY <1>0, <1>1, <3>1 DEF IInv, TypeOK
  <2>. QED BY <1>0, <2>1, AcceptedKeeps
<1>. QED BY <1>3, <1>4, <1>5, <1>6, <1>7, <1>8 DEF IInv, Book

\* A reconcile or a marker, recorded or not.
LEMMA BookingStep ==
    ASSUME IInv, NEW p \in Proc, pc[p] \in {"recording", "marking"},
           NEW r, Reconciles(r, bill[tx[p]]), NEW ok \in Label, NEW failed \in {"idle", "mark"},
           RecordSpend(p, r, ok, failed), lock' = Nobody,
           UNCHANGED <<tx, evidence, exec, bill, accepted>>,
           \/ ok = "idle"
           \/ /\ ok = "settled" /\ r.mark = "none" /\ r.usd = bill[tx[p]] - Envelope
              /\ evidence[p] = "measured"
    PROVE  IInv'
<1> DEFINE t == tx[p]
<1>0. t \in Tx /\ lock = p /\ Len(ledger[t]) \in {1, 2} /\ Booked(t)
  BY DEF IInv, Exclusive, Holders, Book, Finds, Label, TypeOK
<1>1. /\ torn' \in BOOLEAN /\ faults' \in Nat
      /\ \/ pc' = [pc EXCEPT ![p] = ok] /\ Gains(t, r)
         \/ pc' = [pc EXCEPT ![p] = failed] /\ (ledger' = ledger \/ Gains(t, r))
  <2>1. r \in Row BY DEF Reconciles
  <2>. QED BY <2>1, RecordSpendStep
<1>2. Gains(t, r) => /\ ledger' \in [Tx -> Seq(Row)]
                     /\ Booked(t)' /\ Len(ledger'[t]) = 2 /\ ledger'[t][2] = r
                     /\ \A u \in Tx \ {t} : ledger'[u] = ledger[u]
  BY <1>0, GainsBooks
<1>3. /\ \A q \in Proc \ {p} : pc'[q] = pc[q]
      /\ pc'[p] \in {"idle", "settled", "mark"}
      /\ pc'[p] = "settled" => Gains(t, r) /\ ok = "settled"
      /\ pc' \in [Proc -> Label]
  BY <1>1 DEF IInv, TypeOK, Label
<1>4. TypeOK' BY <1>1, <1>2, <1>3 DEF IInv, TypeOK
<1>5. Exclusive'
  <2>1. ASSUME NEW q \in Proc, pc'[q] \in Holders PROVE lock = q /\ q # p
    <3>1. q # p BY <1>3, <2>1 DEF Holders
    <3>2. pc[q] \in Holders BY <1>3, <2>1, <3>1
    <3>. QED BY <3>1, <3>2 DEF IInv, Exclusive
  <2>. QED BY <1>0, <2>1 DEF Exclusive
<1>6. Private' BY DEF IInv, Private
<1>7. \A q \in Proc : Finds(q)'
  <2>1. Finds(p)'
    <3>1. CASE pc'[p] = "idle" BY <3>1 DEF Finds
    <3>2. CASE pc'[p] = "settled" BY <1>0, <1>2, <1>3, <3>2 DEF IInv, Book, Finds
    <3>3. CASE pc'[p] = "mark"
      <4>1. Len(ledger'[t]) \in {1, 2} BY <1>0, <1>1, <1>2
      <4>2. evidence[p] \in {"measured", "unmeasured"} => bill[t] <= Envelope
        BY DEF IInv, Book, Finds
      <4>. QED BY <1>0, <3>3, <4>1, <4>2 DEF Finds
    <3>. QED BY <1>3, <3>1, <3>2, <3>3
  <2>2. ASSUME NEW q \in Proc, q # p PROVE Finds(q)'
    <3>1. pc'[q] = pc[q] /\ tx'[q] = tx[q] /\ evidence'[q] = evidence[q]
      BY <1>3, <2>2
    <3>. QED BY <1>0, <1>1, <1>2, <2>2, <3>1, OthersKeep
  <2>. QED BY <2>1, <2>2
<1>8. \A u \in Tx : Booked(u)'
  <2>1. ASSUME NEW u \in Tx, ledger'[u] = ledger[u] PROVE Booked(u)'
    BY <2>1, BookedKeeps DEF IInv, Book
  <2>. QED BY <1>1, <1>2, <2>1
<1>9. AcceptedIsMeasured' BY <1>1, <1>2, AcceptedKeeps DEF Gains
<1>. QED BY <1>4, <1>5, <1>6, <1>7, <1>8, <1>9 DEF IInv, Book

LEMMA RecordStep ==
    ASSUME IInv, NEW p \in Proc, Record(p) PROVE IInv'
<1> DEFINE ok == IF evidence[p] = "measured" THEN "settled" ELSE "idle"
<1>1. pc[p] = "recording" /\ Reconciles(ReconcileRow(p), bill[tx[p]])
  BY ReconcileRowFits DEF Record
<1>2. ok \in Label /\ AfterFailure(p) \in {"idle", "mark"}
  BY DEF Label, AfterFailure
<1>3. \/ ok = "idle"
      \/ /\ ok = "settled" /\ evidence[p] = "measured"
         /\ ReconcileRow(p).mark = "none"
         /\ ReconcileRow(p).usd = bill[tx[p]] - Envelope
  BY DEF ReconcileRow
<1>4. /\ RecordSpend(p, ReconcileRow(p), ok, AfterFailure(p)) /\ lock' = Nobody
      /\ UNCHANGED <<tx, evidence, exec, bill, accepted>>
  BY DEF Record
<1>. HIDE DEF ok
<1>. QED BY <1>1, <1>2, <1>3, <1>4, BookingStep

LEMMA MarkStep ==
    ASSUME IInv, NEW p \in Proc, Mark(p) PROVE IInv'
<1>1. pc[p] = "marking" /\ tx[p] \in Tx
  BY DEF Mark, IInv, Book, Finds, Label
<1>2. Reconciles(MarkRow, bill[tx[p]]) BY <1>1, MarkRowFits DEF IInv, TypeOK
<1>3. /\ RecordSpend(p, MarkRow, "idle", "idle") /\ lock' = Nobody
      /\ UNCHANGED <<tx, evidence, exec, bill, accepted>>
      /\ "idle" \in Label
  BY DEF Mark, Label
<1>. QED BY <1>1, <1>2, <1>3, BookingStep

LEMMA AcceptStep ==
    ASSUME IInv, NEW p \in Proc, Accept(p) PROVE IInv'
<1> DEFINE t == tx[p]
<1>0. /\ pc[p] = "settled" /\ pc' = [pc EXCEPT ![p] = "idle"]
      /\ UNCHANGED <<ledger, torn, lock, tx, evidence, exec, faults, bill>>
      /\ accepted' \in {accepted, accepted \cup {t}}
      /\ t \in Tx
  BY DEF Accept, Goto, IInv, Book, Finds, Label
<1>1. TypeOK' BY <1>0 DEF IInv, TypeOK, Label
<1>2. Exclusive' BY <1>0 DEF IInv, TypeOK, Exclusive, Holders
<1>3. Private' BY <1>0 DEF IInv, Private
<1>4. \A q \in Proc : Finds(q)'
  <2>1. Finds(p)' BY <1>0 DEF IInv, TypeOK, Finds
  <2>2. ASSUME NEW q \in Proc, q # p PROVE Finds(q)'
    <3>1. pc'[q] = pc[q] /\ tx'[q] = tx[q] /\ evidence'[q] = evidence[q]
      BY <1>0, <2>2 DEF IInv, TypeOK
    <3>. QED BY <1>0, <2>2, <3>1, OthersKeep
  <2>. QED BY <2>1, <2>2
<1>5. \A u \in Tx : Booked(u)' BY <1>0, BookedKeeps DEF IInv, Book
<1>6. AcceptedIsMeasured'
  <2>1. /\ Len(ledger[t]) = 2 /\ ledger[t][1].usd = Envelope
        /\ ledger[t][2].mark = "none" /\ ledger[t][2].usd = bill[t] - Envelope
    BY <1>0, ReserveRowIsRow DEF IInv, Book, Booked, Finds
  <2>2. bill[t] \in Nat BY <1>0 DEF IInv, TypeOK
  <2>3. Net(t) = bill[t] BY <2>1, <2>2, ReviewAmountAssumption DEF Net
  <2>. QED BY <1>0, <2>1, <2>3 DEF IInv, AcceptedIsMeasured, Net
<1>. QED BY <1>1, <1>2, <1>3, <1>4, <1>5, <1>6 DEF IInv, Book

LEMMA CrashStep ==
    ASSUME IInv, NEW p \in Proc, Crash(p) PROVE IInv'
<1> USE DEF Crash, Fault
<1>1. TypeOK' BY DEF IInv, TypeOK, Label
<1>2. Exclusive' BY DEF IInv, TypeOK, Exclusive, Holders
<1>3. Private' BY DEF IInv, Private
<1>4. \A q \in Proc : Finds(q)'
  <2>1. Finds(p)' BY DEF IInv, TypeOK, Finds
  <2>2. ASSUME NEW q \in Proc, q # p PROVE Finds(q)'
    <3>1. pc'[q] = pc[q] /\ tx'[q] = tx[q] /\ evidence'[q] = evidence[q]
      BY <2>2 DEF IInv, TypeOK
    <3>. QED BY <2>2, <3>1, OthersKeep
  <2>. QED BY <2>1, <2>2
<1>5. \A t \in Tx : Booked(t)' BY BookedKeeps DEF IInv, Book
<1>6. AcceptedIsMeasured' BY AcceptedKeeps
<1>. QED BY <1>1, <1>2, <1>3, <1>4, <1>5, <1>6 DEF IInv, Book

\* Steps that touch no review.
LEMMA OutsideStep ==
    ASSUME IInv, Execute \/ Repair \/ UNCHANGED vars PROVE IInv'
<1>1. /\ UNCHANGED <<ledger, lock, pc, tx, evidence, faults, bill, accepted>>
      /\ torn' = torn \/ torn' = FALSE
  BY DEF Execute, Repair, vars
<1>2. TypeOK'
  <2>1. torn' \in BOOLEAN BY <1>1 DEF IInv, TypeOK
  <2>2. exec' \in Nat \cup {NoEpisode}
    <3>1. exec \in Nat \cup {NoEpisode} BY DEF IInv, TypeOK
    <3>2. CASE Execute
      <4>1. exec \in Nat BY <3>1, <3>2 DEF Execute, EpisodeOn
      <4>. QED BY <3>2, <4>1 DEF Execute
    <3>. QED BY <3>1, <3>2 DEF Repair, vars
  <2>. QED BY <1>1, <2>1, <2>2 DEF IInv, TypeOK
<1>3. Exclusive' /\ Private' BY <1>1 DEF IInv, Exclusive, Private
<1>4. \A q \in Proc : Finds(q)' BY <1>1 DEF IInv, Book, Finds, Blocked
<1>5. \A t \in Tx : Booked(t)' BY <1>1, BookedKeeps DEF IInv, Book
<1>6. AcceptedIsMeasured' BY <1>1, AcceptedKeeps
<1>. QED BY <1>2, <1>3, <1>4, <1>5, <1>6 DEF IInv, Book

\* Types, locks, rows and bills agree in every reachable state: the inductive
\* invariant behind the theorems below.
THEOREM BooksInvariant == Spec => []IInv
<1>1. Init => IInv BY InitInvariant
<1>2. IInv /\ [Next]_vars => IInv'
  <2> SUFFICES ASSUME IInv, [Next]_vars PROVE IInv' OBVIOUS
  <2>1. CASE Execute \/ Repair \/ UNCHANGED vars BY <2>1, OutsideStep
  <2>2. ASSUME NEW p \in Proc, Review(p) PROVE IInv'
    BY <2>2, StartReviewStep, LockStep, CheckStep, AppendReserveStep, GenerateStep,
       RecordStep, MarkStep, AcceptStep DEF Review
  <2>3. ASSUME NEW p \in Proc, Crash(p) PROVE IInv' BY <2>3, CrashStep
  <2>. QED BY <2>1, <2>2, <2>3 DEF Next
<1>. QED BY <1>1, <1>2, PTL DEF Spec

----------------------------------------------------------------------------
\* What follows from it

\* Whatever was lost between a reservation and its reconcile, the charge the
\* readers of the ledger attribute to a transaction covers its bill.
THEOREM BillIsCovered == Spec => []BillCovered
<1>1. IInv => BillCovered
  <2> SUFFICES ASSUME IInv, NEW t \in Tx
               PROVE  Charged(t) >= IF bill[t] <= Envelope THEN bill[t] ELSE Envelope
    BY DEF BillCovered
  <2>0. Booked(t) /\ ledger[t] \in Seq(Row) /\ bill[t] \in Nat /\ Envelope \in Nat
    BY ReviewAmountAssumption DEF IInv, TypeOK, Book
  <2>1. CASE Len(ledger[t]) = 0 BY <2>0, <2>1 DEF Booked, Charged, Net
  <2>2. CASE Len(ledger[t]) = 1
    BY <2>0, <2>2, ReserveRowIsRow DEF Booked, Charged, Net
  <2>3. CASE Len(ledger[t]) = 2
    <3>1. Net(t) = Envelope \/ (Net(t) = bill[t] /\ bill[t] <= Envelope)
      <4> DEFINE u == ledger[t][2].usd
      <4>1. Net(t) = Envelope + u /\ Reconciles(ledger[t][2], bill[t])
        BY <2>0, <2>3, ReserveRowIsRow DEF Booked, Net
      <4>2. u \in Int /\ (u # 0 => u = bill[t] - Envelope /\ bill[t] <= Envelope)
        BY <4>1 DEF Reconciles, Row
      <4>. HIDE DEF u
      <4>. QED BY <2>0, <4>1, <4>2
    <3>. QED BY <2>0, <3>1 DEF Charged
  <2>. QED BY <2>0, <2>1, <2>2, <2>3 DEF Booked
<1>. QED BY <1>1, BooksInvariant, PTL

\* No sequence of failed appends and crashes makes the program write a ledger
\* it would itself refuse to read.
THEOREM LedgerStaysLegal == Spec => []LedgerLegal
<1>1. IInv => LedgerLegal BY BookedIsLegal DEF IInv, Book, LedgerLegal
<1>. QED BY <1>1, BooksInvariant, PTL

\* A review that is handed on is accounted for to the bill.
THEOREM AcceptedReviewsAreMeasured == Spec => []AcceptedIsMeasured
<1>1. IInv => AcceptedIsMeasured BY DEF IInv
<1>. QED BY <1>1, BooksInvariant, PTL

\* The books of the reviewers are legal, cover every bill, and hold every
\* review that was handed on.
THEOREM BooksAreKeptRight == Spec => []BooksAreRight
<1>1. BillCovered /\ LedgerLegal /\ AcceptedIsMeasured => BooksAreRight BY DEF BooksAreRight
<1>. QED BY BillIsCovered, LedgerStaysLegal, AcceptedReviewsAreMeasured, <1>1, PTL

\* A marked ledger takes no further reservation, though the look and the append
\* are separate steps and every other process may mark in between.
THEOREM MarkedLedgerStops == Spec => MarkStops
<1>1. IInv /\ [Next]_vars => [\A t \in Tx : ledger[t] = <<>> /\ ledger'[t] # <<>> => ~Blocked]_vars
  <2> SUFFICES ASSUME IInv, Next, NEW t \in Tx, ledger[t] = <<>>, ledger'[t] # <<>>
               PROVE  ~Blocked
    OBVIOUS
  <2>0. Len(ledger[t]) = 0 BY EmptySeq
  <2>1. CASE ledger' = ledger BY <2>1
  <2>2. ASSUME NEW p \in Proc, AppendReserve(p) PROVE ~Blocked
    BY <2>2 DEF AppendReserve, IInv, Book, Finds
  <2>3. ASSUME NEW p \in Proc, Record(p) \/ Mark(p) PROVE FALSE
    <3>1. pc[p] \in {"recording", "marking"} BY <2>3 DEF Record, Mark
    <3>2. tx[p] \in Tx /\ Len(ledger[tx[p]]) \in {1, 2}
      BY <3>1 DEF IInv, TypeOK, Book, Finds, Label
    <3>3. \E r : ledger' = ledger \/ ledger' = [ledger EXCEPT ![tx[p]] = Append(@, r)]
      BY <2>3 DEF Record, Mark, RecordSpend, Write
    <3>4. t # tx[p] BY <2>0, <3>2
    <3>. QED BY <3>3, <3>4 DEF IInv, TypeOK
  <2>4. ledger' = ledger \/ \E p \in Proc : AppendReserve(p) \/ Record(p) \/ Mark(p)
    BY DEF Next, Execute, Repair, Crash, Review, StartReview, Lock, Check, Generate, Accept
  <2>. QED BY <2>1, <2>2, <2>3, <2>4
<1>. QED BY <1>1, BooksInvariant, PTL DEF Spec, MarkStops

\* A closed transaction is final, for any number of processes: whoever still
\* has it is at its mark, which the ledger then refuses, or past its booking.
THEOREM ClosedStaysClosed == Spec => ClosedIsFinal
<1>1. IInv /\ [Next]_vars =>
        [\A t \in Tx : Len(ledger[t]) = 2 => ledger'[t] = ledger[t] /\ bill'[t] = bill[t]]_vars
  <2> SUFFICES ASSUME IInv, Next, NEW t \in Tx, Len(ledger[t]) = 2
               PROVE  ledger'[t] = ledger[t] /\ bill'[t] = bill[t]
    OBVIOUS
  <2>1. ASSUME NEW p \in Proc, AppendReserve(p) PROVE ledger'[t] = ledger[t] /\ bill'[t] = bill[t]
    <3>1. tx[p] # t
      BY <2>1, EmptySeq DEF AppendReserve, IInv, Book, Finds, Label
    <3>2. bill' = bill /\ (ledger' = ledger \/ \E r : ledger' = [ledger EXCEPT ![tx[p]] = Append(@, r)])
      BY <2>1 DEF AppendReserve, Write
    <3>. QED BY <3>1, <3>2 DEF IInv, TypeOK
  <2>2. ASSUME NEW p \in Proc, Generate(p) PROVE ledger'[t] = ledger[t] /\ bill'[t] = bill[t]
    <3>1. tx[p] # t
      BY <2>2 DEF Generate, Goto, IInv, Book, Finds
    <3>2. ledger' = ledger /\ \E b : bill' = [bill EXCEPT ![tx[p]] = b]
      BY <2>2 DEF Generate
    <3>. QED BY <3>1, <3>2 DEF IInv, TypeOK
  <2>3. ASSUME NEW p \in Proc, NEW row \in Row, NEW ok, NEW failed,
               pc[p] \in {"recording", "marking"}, RecordSpend(p, row, ok, failed)
        PROVE  ledger'[t] = ledger[t]
    <3>1. ledger' = ledger \/ Gains(tx[p], row)
      BY <2>3, RecordSpendStep
    <3>2. CASE Gains(tx[p], row)
      <4>1. tx[p] # t BY <3>2 DEF Gains
      <4>2. PICK s : ledger' = [ledger EXCEPT ![tx[p]] = s] BY <3>2 DEF Gains
      <4>. QED BY <4>1, <4>2 DEF IInv, TypeOK
    <3>. QED BY <3>1, <3>2
  <2>4. ASSUME NEW p \in Proc, Record(p) PROVE ledger'[t] = ledger[t] /\ bill' = bill
    <3>1. pc[p] = "recording" /\ ReconcileRow(p) \in Row
      BY <2>4, ReconcileRowFits DEF Record, Reconciles
    <3>. QED BY <2>3, <2>4, <3>1 DEF Record
  <2>5. ASSUME NEW p \in Proc, Mark(p) PROVE ledger'[t] = ledger[t] /\ bill' = bill
    <3>1. pc[p] = "marking" /\ MarkRow \in Row
      BY <2>5 DEF Mark, MarkRow, Row
    <3>. QED BY <2>3, <2>5, <3>1 DEF Mark
  <2>6. \/ UNCHANGED <<ledger, bill>>
        \/ \E p \in Proc : AppendReserve(p) \/ Generate(p) \/ Record(p) \/ Mark(p)
    BY DEF Next, Execute, Repair, Crash, Review, StartReview, Lock, Check, Accept
  <2>. QED BY <2>1, <2>2, <2>4, <2>5, <2>6
<1>. QED BY <1>1, BooksInvariant, PTL DEF Spec, ClosedIsFinal

----------------------------------------------------------------------------
\* The caps

\* Between the look and the append nothing is promised by anybody else, so what
\* fitted under the caps still does.
Promised(p) ==
    pc[p] = "append" =>
        /\ Total + Envelope <= Cap
        /\ EpisodeOn => Total + Envelope < EpisodeCap

CapInv == BothCapsHold /\ \A p \in Proc : Promised(p)

\* A transaction counts nothing, its reservation, or what its reconcile left of it.
LEMMA NetOf ==
    ASSUME IInv, NEW t \in Tx
    PROVE  /\ Net(t) \in Int
           /\ Len(ledger[t]) = 0 => Net(t) = 0
           /\ Len(ledger[t]) = 1 => Net(t) = Envelope
           /\ Len(ledger[t]) = 2 => Net(t) = Envelope + ledger[t][2].usd /\ Net(t) <= Envelope
<1>1. Booked(t) /\ ledger[t] \in Seq(Row) /\ bill[t] \in Nat /\ Envelope \in Nat
  BY ReviewAmountAssumption DEF IInv, TypeOK, Book
<1>2. CASE Len(ledger[t]) = 0 BY <1>2 DEF Net
<1>3. CASE Len(ledger[t]) = 1 BY <1>1, <1>3, ReserveRowIsRow DEF Booked, Net
<1>4. CASE Len(ledger[t]) = 2
  <2> DEFINE u == ledger[t][2].usd
  <2>1. Net(t) = Envelope + u /\ Reconciles(ledger[t][2], bill[t])
    BY <1>1, <1>4, ReserveRowIsRow DEF Booked, Net
  <2>2. u \in Int /\ u <= 0 BY <1>1, <2>1 DEF Reconciles, Row
  <2> HIDE DEF u
  <2>3. Net(t) \in Int /\ Net(t) <= Envelope BY <1>1, <2>1, <2>2
  <2>. QED BY <1>4, <2>1, <2>3 DEF u
<1>. QED BY <1>1, <1>2, <1>3, <1>4 DEF Booked

LEMMA TotalType == ASSUME IInv PROVE Total \in Int
<1>1. [t \in Tx |-> Net(t)] \in [Tx -> Int] BY NetOf
<1>. QED BY <1>1, SumType, TxAssumption DEF Total

\* The total moves with the one transaction that gains a row.
LEMMA TotalMoves ==
    ASSUME IInv, NEW t \in Tx, Net(t)' \in Int, \A u \in Tx \ {t} : ledger'[u] = ledger[u]
    PROVE  Total' = Total + (Net(t)' - Net(t))
<1>0. \A u \in Tx \ {t} : Net(u)' = Net(u) BY DEF Net
<1>1. PICK f : f = [u \in Tx |-> Net(u)] OBVIOUS
<1>2. PICK g : g = [u \in Tx |-> Net(u)'] OBVIOUS
<1>3. f \in [Tx -> Int] BY <1>1, NetOf
<1>4. g \in [Tx -> Int]
  <2>1. \A u \in Tx : Net(u) \in Int BY NetOf
  <2>2. \A u \in Tx : Net(u)' \in Int BY <1>0, <2>1
  <2>. QED BY <1>2, <2>2
<1>5. \A u \in Tx \ {t} : g[u] = f[u] BY <1>0, <1>1, <1>2
<1>6. SumFunction(g) = SumFunction(f) + (g[t] - f[t])
  BY <1>3, <1>4, <1>5, SumChange, TxAssumption
<1>7. Total = SumFunction(f) /\ Total' = SumFunction(g) BY <1>1, <1>2 DEF Total
<1>8. f[t] = Net(t) /\ g[t] = Net(t)' BY <1>1, <1>2
<1>. QED BY <1>6, <1>7, <1>8

\* A reservation that reaches the disk adds its envelope.
LEMMA ReserveAdds ==
    ASSUME IInv, NEW p \in Proc, AppendReserve(p)
    PROVE  Total' = Total \/ Total' = Total + Envelope
<1>a. PICK t : t = tx[p] OBVIOUS
<1>0. t \in Tx /\ ledger[t] = <<>> /\ Envelope \in Nat
  BY <1>a, ReviewAmountAssumption DEF AppendReserve, IInv, TypeOK, Book, Finds, Label
<1>1. ledger' = ledger \/ ledger' = [ledger EXCEPT ![t] = Append(@, ReserveRow)]
  BY <1>a DEF AppendReserve, Write
<1>2. CASE ledger' = ledger BY <1>2 DEF Total, Net
<1>3. CASE ledger' = [ledger EXCEPT ![t] = Append(@, ReserveRow)]
  <2>1. ledger \in [Tx -> Seq(Row)] /\ Len(ledger[t]) = 0 BY <1>0, EmptySeq DEF IInv, TypeOK
  <2>2. Len(ledger'[t]) = 1 /\ ledger'[t][1] = ReserveRow BY <1>0, <1>3, <2>1, OneMore, ReserveRowIsRow
  <2>3. Net(t)' = Envelope BY <2>2, ReserveRowIsRow DEF Net
  <2>4. Net(t) = 0 BY <1>0, <2>1, NetOf
  <2>5. \A u \in Tx \ {t} : ledger'[u] = ledger[u] BY <1>3, <2>1
  <2>6. Total' = Total + (Envelope - 0) BY <1>0, <2>3, <2>4, <2>5, TotalMoves
  <2>. QED BY <1>0, <2>6, TotalType
<1>. QED BY <1>1, <1>2, <1>3

\* A row that closes a transaction adds nothing and gives back no more than it held.
LEMMA BookingLowers ==
    ASSUME IInv, NEW p \in Proc, Record(p) \/ Mark(p)
    PROVE  Total' \in Int /\ Total' <= Total /\ Total - Envelope <= Total'
<1>a. PICK t : t = tx[p] OBVIOUS
<1>0. /\ t \in Tx /\ Envelope \in Nat /\ bill[t] \in Nat /\ bill' = bill
      /\ pc[p] \in {"recording", "marking"}
  BY <1>a, ReviewAmountAssumption DEF Record, Mark, IInv, TypeOK, Book, Finds, Label
<1>1. PICK r : /\ Reconciles(r, bill[t])
               /\ \E ok, failed : RecordSpend(p, r, ok, failed)
  <2>1. CASE Record(p)
    <3>1. Reconciles(ReconcileRow(p), bill[t]) BY <1>a, <2>1, ReconcileRowFits DEF Record
    <3>. QED BY <2>1, <3>1 DEF Record
  <2>2. CASE Mark(p) BY <1>0, <2>2, MarkRowFits DEF Mark
  <2>. QED BY <2>1, <2>2
<1>2. ledger' = ledger \/ Gains(t, r)
  <2>1. r \in Row BY <1>1 DEF Reconciles
  <2>. QED BY <1>a, <1>0, <1>1, <2>1, RecordSpendStep
<1>3. CASE ledger' = ledger
  <2>1. Total' = Total BY <1>3 DEF Total, Net
  <2>. QED BY <1>0, <2>1, TotalType
<1>4. CASE Gains(t, r)
  <2>1. /\ Booked(t)' /\ Len(ledger'[t]) = 2 /\ ledger'[t][2] = r
        /\ \A u \in Tx \ {t} : ledger'[u] = ledger[u]
    BY <1>0, <1>1, <1>4, GainsBooks
  <2>2. ledger'[t][1].usd = Envelope BY <2>1, ReserveRowIsRow DEF Booked, ReserveRow
  <2>3. Net(t)' = Envelope + r.usd BY <2>1, <2>2 DEF Net
  <2>4. r.usd \in Int /\ r.usd <= 0 /\ 0 - Envelope <= r.usd BY <1>0, <1>1 DEF Reconciles, Row
  <2>5. Net(t) = Envelope BY <1>0, <1>4, NetOf DEF Gains
  <2>6. Net(t)' \in Int BY <1>0, <2>3, <2>4
  <2>7. Total' = Total + (Net(t)' - Net(t)) BY <1>0, <2>1, <2>6, TotalMoves
  <2>. QED BY <1>0, <2>3, <2>4, <2>5, <2>7, TotalType
<1>. QED BY <1>2, <1>3, <1>4

\* No other step writes to the ledger.
LEMMA TotalStays ==
    ASSUME Next, \A p \in Proc : ~(AppendReserve(p) \/ Record(p) \/ Mark(p))
    PROVE  Total' = Total
<1>1. ledger' = ledger
  BY DEF Next, Execute, Repair, Crash, Review, StartReview, Lock, Check, Generate, Accept
<1>. QED BY <1>1 DEF Total, Net

LEMMA CapStep == ASSUME IInv, CapInv, [Next]_vars PROVE CapInv'
<1>0. /\ Total \in Int /\ Cap \in Nat /\ Envelope \in Nat /\ EpisodeCap \in Nat
      /\ exec \in Nat \cup {NoEpisode}
      /\ (EpisodeOn <=> EpisodeOn')
  <2>1. EpisodeOn <=> EpisodeOn'
    BY ReviewActorsAssumption
    DEF IInv, TypeOK, EpisodeOn, vars, Next, Execute, Repair, Crash, Review, StartReview, Lock,
        Check, AppendReserve, Generate, Record, Mark, Accept
  <2>. QED BY <2>1, TotalType, ReviewAmountAssumption DEF IInv, TypeOK
<1>1. CASE UNCHANGED vars
  <2>1. Total' = Total BY <1>1 DEF vars, Total, Net
  <2>. QED BY <1>1, <2>1 DEF vars, CapInv, BothCapsHold, LedgerWithinCap, EpisodeKeepsRoom, Promised,
                             EpisodeOn
<1>2. ASSUME NEW p \in Proc, AppendReserve(p) \/ Record(p) \/ Mark(p) PROVE CapInv'
  <2>1. pc[p] \in Holders
    BY <1>2 DEF AppendReserve, Record, Mark, Holders
  <2>2. \A q \in Proc : pc'[q] # "append"
    <3>1. \A q \in Proc \ {p} : pc[q] # "append"
      BY <2>1 DEF IInv, Exclusive, Holders
    <3>2. \E l \in Label \ {"append"} : pc' = [pc EXCEPT ![p] = l]
      BY <1>2 DEF AppendReserve, Record, Mark, RecordSpend, Write, AfterFailure, Label
    <3>. QED BY <3>1, <3>2 DEF IInv, TypeOK
  <2>3. \A q \in Proc : Promised(q)' BY <2>2 DEF Promised
  <2>4. CASE Record(p) \/ Mark(p)
    <3>1. Total' \in Int /\ Total' <= Total BY <2>4, BookingLowers
    <3>2. LedgerWithinCap' /\ EpisodeKeepsRoom'
      BY <1>0, <3>1 DEF CapInv, BothCapsHold, LedgerWithinCap, EpisodeKeepsRoom
    <3>. QED BY <2>3, <3>2 DEF CapInv, BothCapsHold
  <2>5. CASE AppendReserve(p)
    <3>1. Total' = Total \/ Total' = Total + Envelope BY <2>5, ReserveAdds
    <3>2. Promised(p) /\ pc[p] = "append" BY <2>5 DEF CapInv, AppendReserve
    <3>3. LedgerWithinCap' /\ EpisodeKeepsRoom'
      BY <1>0, <3>1, <3>2 DEF CapInv, BothCapsHold, LedgerWithinCap, EpisodeKeepsRoom, Promised
    <3>. QED BY <2>3, <3>3 DEF CapInv, BothCapsHold
  <2>. QED BY <1>2, <2>4, <2>5
<1>3. CASE Next /\ \A p \in Proc : ~(AppendReserve(p) \/ Record(p) \/ Mark(p))
  <2>1. Total' = Total BY <1>3, TotalStays
  <2>2. LedgerWithinCap' /\ EpisodeKeepsRoom'
    BY <1>0, <2>1 DEF CapInv, BothCapsHold, LedgerWithinCap, EpisodeKeepsRoom
  <2>3. ASSUME NEW q \in Proc, pc'[q] = "append", pc[q] # "append"
        PROVE  Admissible /\ Fits
    BY <1>3, <2>3
    DEF Next, Execute, Repair, Crash, Review, StartReview, Lock, Check, Generate, Accept, Goto,
        Waiting, IInv, TypeOK
  <2>4. ASSUME NEW q \in Proc PROVE Promised(q)'
    <3>1. CASE pc[q] = "append" BY <1>0, <2>1, <3>1 DEF CapInv, Promised
    <3>2. CASE pc[q] # "append" /\ pc'[q] = "append"
      <4>1. Envelope <= Cap - Total /\ (EpisodeOn => Envelope < EpisodeCap - (exec + Total))
        BY <2>3, <3>2 DEF Fits, Headroom, EpisodeRoom
      <4>2. EpisodeOn => exec \in Nat BY <1>0 DEF EpisodeOn
      <4>. QED BY <1>0, <2>1, <4>1, <4>2 DEF Promised
    <3>. QED BY <3>1, <3>2 DEF Promised
  <2>. QED BY <2>2, <2>4 DEF CapInv, BothCapsHold
<1>. QED BY <1>1, <1>2, <1>3

LEMMA NothingPromised == ASSUME Init PROVE Total = 0
<1>1. \A t \in Tx : Net(t) = 0 BY EmptySeq DEF Init, Net
<1>2. PICK f : f = [t \in Tx |-> Net(t)] OBVIOUS
<1>3. f \in [Tx -> Int] /\ \A t \in Tx : f[t] = 0 BY <1>1, <1>2
<1>. QED BY <1>2, <1>3, SumZero, TxAssumption DEF Total

LEMMA CapInvariant == Spec => []CapInv
<1>1. Init => CapInv
  <2> SUFFICES ASSUME Init PROVE CapInv OBVIOUS
  <2>1. \A p \in Proc : pc[p] # "append" BY DEF Init
  <2>. QED BY <2>1, NothingPromised, ReviewAmountAssumption
       DEF CapInv, BothCapsHold, LedgerWithinCap, EpisodeKeepsRoom, Promised
<1>2. IInv /\ CapInv /\ [Next]_vars => CapInv' BY CapStep
<1>. QED BY <1>1, <1>2, BooksInvariant, PTL DEF Spec

\* Neither cap is promised twice, whoever reserves, crashes and writes half a
\* line meanwhile, for any number of processes and transactions and any amounts.
THEOREM CapsAreHeld == Spec => []BothCapsHold
<1>1. CapInv => BothCapsHold BY DEF CapInv
<1>. QED BY <1>1, CapInvariant, PTL

\* The ledger implements a budget with one cap, which its users may take it for:
\* what fitted when it was looked at still fits when it is promised.
THEOREM ImplementsBudget == Spec => BudgetSpec
<1>1. Init => Total = 0 BY NothingPromised
<1>2. IInv /\ CapInv /\ [Next]_vars => [Promise \/ GiveBack]_Total
  <2> SUFFICES ASSUME IInv, CapInv, [Next]_vars PROVE Promise \/ GiveBack \/ Total' = Total
    OBVIOUS
  <2>1. CASE UNCHANGED vars BY <2>1 DEF vars, Total, Net
  <2>2. ASSUME NEW p \in Proc, AppendReserve(p) PROVE Promise \/ Total' = Total
    <3>1. Total + Envelope <= Cap BY <2>2 DEF AppendReserve, CapInv, Promised
    <3>. QED BY <2>2, <3>1, ReserveAdds DEF Promise
  <2>3. ASSUME NEW p \in Proc, Record(p) \/ Mark(p) PROVE GiveBack \/ Total' = Total
    <3>1. Total' \in Int /\ Total' <= Total /\ Total - Envelope <= Total' BY <2>3, BookingLowers
    <3>2. Total \in Int BY TotalType
    <3>. QED BY <3>1, <3>2 DEF GiveBack
  <2>. QED BY <2>1, <2>2, <2>3, TotalStays
<1>. QED BY <1>1, <1>2, BooksInvariant, CapInvariant, PTL DEF Spec, BudgetSpec

=============================================================================
