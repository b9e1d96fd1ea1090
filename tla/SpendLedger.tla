---------------------------- MODULE SpendLedger ----------------------------
(***************************************************************************)
(* The money a tick consults before it spends: today's executor_log rows   *)
(* (runtime/daily_cost_cap.py), the reservation ledger                     *)
(* (runtime/spend_reservation.py) and the verdict daily_cost_cap.check     *)
(* forms from them.  Dollars are integers.  The module holds state and     *)
(* operators; TickLoop supplies the processes that use them.               *)
(*                                                                         *)
(* A reservation is a slot: its open amount, 0 when it is settled,         *)
(* released or aged out.  The ledger is append-only and last-row-wins, so  *)
(* only the latest status of a reservation_id can be observed; a slot is   *)
(* taken again only when nobody holds a handle to it.                      *)
(***************************************************************************)
EXTENDS Integers, FiniteSets, FiniteSetsExt

CONSTANTS
    Proc,          \* processes that may spend (ticks, manual runs)
    NoProc,        \* the owner of a free lock
    Slot,          \* bound on reservations open at the same time
    NoSlot,        \* the handle of a process that holds no reservation
    Cap,           \* AGI_V8_SI_TICK_DAILY_USD_CAP
    PerCycle,      \* AGI_V8_TICK_PER_CYCLE_USD_CAP
    ResvOn,        \* AGI_V8_SPEND_RESERVATION_ENABLED
    DeadlineOn,    \* AGI_V8_TICK_DEADLINE_ENABLED
    StrictOn,      \* AGI_V8_SI_TICK_DAILY_CAP_STRICT_UNMEASURED
    CapFailClosed  \* AGI_V8_COST_CAP_LEDGER_FAILCLOSED

ASSUME CapAssumption == Cap \in Nat /\ PerCycle \in Nat
ASSUME NoProcAssumption == NoProc \notin Proc
ASSUME NoSlotAssumption == NoSlot \notin Slot
ASSUME GateAssumption == {ResvOn, DeadlineOn, StrictOn, CapFailClosed} \subseteq BOOLEAN

VARIABLES
    spent,          \* dollars with a row in executor_log since local midnight
    spentPrev,      \* the same of the previous local day
    unmeasured,     \* dollars billed today behind rows that say cost 0 and
                    \* usage_measured false, not yet acknowledged
    unmeasuredPrev, \* the same of the previous local day
    badLedgers,     \* ledgers that exist but cannot be read or parsed
    resv,           \* open amount of each reservation slot
    handle          \* the reservation each process holds in memory

billVars == <<spent, spentPrev, unmeasured, unmeasuredPrev>>
resvVars == <<resv, handle>>
ledgerVars == <<spent, spentPrev, unmeasured, unmeasuredPrev, badLedgers, resv, handle>>

Ledgers == {"executor_log", "spend_reservation", "inbox_queue", "bought_ledger"}

LedgerTypeOK ==
    /\ spent \in Nat /\ spentPrev \in Nat
    /\ unmeasured \in Nat /\ unmeasuredPrev \in Nat
    /\ badLedgers \in SUBSET Ledgers
    /\ resv \in [Slot -> Nat]
    /\ handle \in [Proc -> Slot \cup {NoSlot}]

LedgerInit ==
    /\ spent = 0 /\ spentPrev = 0
    /\ unmeasured = 0 /\ unmeasuredPrev = 0
    /\ badLedgers = {}
    /\ resv = [s \in Slot |-> 0]
    /\ handle = [p \in Proc |-> NoSlot]

----------------------------------------------------------------------------
\* daily_cost_cap

Readable(l) == l \notin badLedgers

\* The dollars and the unobserved dollars the tally sees.  Its window opens at
\* the midnight of the day the tick started on, so a tick that straddles
\* midnight counts both days; an unreadable ledger counts as empty.
SpentSeen(straddles) ==
    IF ~Readable("executor_log") THEN 0
    ELSE IF straddles THEN spent + spentPrev ELSE spent

UnmeasuredSeen(straddles) ==
    IF ~Readable("executor_log") THEN 0
    ELSE IF straddles THEN unmeasured + unmeasuredPrev ELSE unmeasured

\* Mutant: an unreadable executor_log reads as nothing spent.
Tally_FailOpen(straddles) ==
    [usd |-> SpentSeen(straddles),
     ok  |-> SpentSeen(straddles) < Cap /\ (StrictOn => UnmeasuredSeen(straddles) = 0)]

\* The part of check() decided by the executor_log read.
Tally(straddles) ==
    [usd |-> SpentSeen(straddles),
     ok  |-> /\ SpentSeen(straddles) < Cap
             /\ StrictOn => UnmeasuredSeen(straddles) = 0
             /\ CapFailClosed => Readable("executor_log")]

Tallies == [usd : Nat, ok : BOOLEAN]

NoTally == [usd |-> 0, ok |-> FALSE]

\* open_reservations()["open_usd"]: latest status open and not aged out.
OpenUsd == MapThenSumSet(LAMBDA s : resv[s], Slot)

\* The rest of check(): the reservation ledger is read after the tally, with
\* no lock around the two reads.  Reservations only turn a yes into a no.
CapAllows(tally) ==
    /\ tally.ok
    /\ ResvOn => IF Readable("spend_reservation")
                 THEN tally.usd + OpenUsd < Cap
                 ELSE ~CapFailClosed

\* remaining_usd knows nothing of reservations.
Remaining(usd) == IF Cap > usd THEN Cap - usd ELSE 0

Budget(usd) == IF PerCycle < Remaining(usd) THEN PerCycle ELSE Remaining(usd)

----------------------------------------------------------------------------
\* spend_reservation

FreeSlots == {s \in Slot : resv[s] = 0 /\ \A p \in Proc : handle[p] # s}

\* reserve(): one durable open row and an in-memory handle.
Reserve(p, usd) ==
    IF ResvOn
    THEN \E s \in FreeSlots : /\ resv' = [resv EXCEPT ![s] = usd]
                              /\ handle' = [handle EXCEPT ![p] = s]
    ELSE UNCHANGED resvVars

\* settle(): the row closes the reservation; settle(None) does nothing.
Settle(p) ==
    IF handle[p] = NoSlot
    THEN UNCHANGED resvVars
    ELSE /\ resv' = [resv EXCEPT ![handle[p]] = 0]
         /\ handle' = [handle EXCEPT ![p] = NoSlot]

\* ... a failed append is swallowed: the reservation stays open with nobody
\* left to settle it, until it ages out.
SettleLost(p) ==
    /\ handle[p] # NoSlot
    /\ handle' = [handle EXCEPT ![p] = NoSlot]
    /\ UNCHANGED resv

\* Mutant: the TTL fires under a live owner.
Expire_Held(s) == resv[s] # 0 /\ resv' = [resv EXCEPT ![s] = 0] /\ UNCHANGED handle

\* A reader stops believing an open row older than the TTL (1800 s).  Under
\* the 900 s deadline its owner is gone by then.
Expire(s) ==
    /\ resv[s] # 0
    /\ DeadlineOn => \A p \in Proc : handle[p] # s
    /\ resv' = [resv EXCEPT ![s] = 0]
    /\ UNCHANGED handle

\* A call billed one dollar and recorded it, or could not observe its usage
\* and recorded cost 0 with usage_measured false.
Land ==
    \/ spent' = spent + 1 /\ UNCHANGED <<spentPrev, unmeasured, unmeasuredPrev>>
    \/ unmeasured' = unmeasured + 1 /\ UNCHANGED <<spent, spentPrev, unmeasuredPrev>>

\* ack_unmeasured(): the operator's recorded way out of a strict block.  Its
\* row vouches for every earlier row.
AckUnmeasured ==
    /\ unmeasured + unmeasuredPrev > 0
    /\ unmeasured' = 0 /\ unmeasuredPrev' = 0
    /\ UNCHANGED <<spent, spentPrev>>

\* Local midnight moves the window.
Midnight ==
    /\ spentPrev' = spent /\ spent' = 0
    /\ unmeasuredPrev' = unmeasured /\ unmeasured' = 0

\* Somebody outside the program damages a ledger, or repairs it.
Damage(l) == Readable(l) /\ badLedgers' = badLedgers \cup {l}

Repair == badLedgers # {} /\ badLedgers' = {}
=============================================================================
