---------------------------- MODULE FalsifierBus ----------------------------
(***************************************************************************)
(* bus/falsifier_bus.py: producers append falsifications to one ledger, a  *)
(* reader takes what follows the id it saw last. An event that is emitted  *)
(* again has the id it had before, so an id may stand in several rows.     *)
(***************************************************************************)
EXTENDS Integers, FiniteSets, JsonLedger

CONSTANTS Falsification,    \* valid events, each with one id
          MaxAppends,
          MaxBusFaults

NoId == "no id"

ASSUME BusAssumption == {MaxAppends, MaxBusFaults} \subseteq Nat /\ NoId \notin Falsification

VARIABLES
    bus,        \* the ledger
    appends,    \* rows handed to it
    seen,       \* events the reader was given
    after,      \* the id of the last of them
    busFaults

busVars == <<bus, appends, seen, after, busFaults>>

BusInit ==
    bus = NewLedger /\ appends = 0 /\ seen = {} /\ after = NoId /\ busFaults = 0

\* The id is that of the event, computed or given; a failed append is swallowed.
AppendEvent ==
    /\ appends < MaxAppends
    /\ appends' = appends + 1
    /\ \E e \in Falsification :
          LET row == [id |-> e, k |-> appends + 1] IN
          \/ bus' = Written(bus, row) /\ UNCHANGED busFaults
          \/ /\ busFaults < MaxBusFaults /\ busFaults' = busFaults + 1
             /\ bus' \in Failed(bus, row)
    /\ UNCHANGED <<seen, after>>

Places(id) == {i \in DOMAIN bus.rows : bus.rows[i].id = id}

\* Mutant: what follows the last row with that id.
_FollowingLast(id) ==
    IF Places(id) = {} THEN bus.rows
    ELSE LET i == CHOOSE i \in Places(id) : \A j \in Places(id) : j <= i
         IN SubSeq(bus.rows, i + 1, Len(bus.rows))

\* What follows the first row with that id; everything when no row has it.
Following(id) ==
    IF Places(id) = {} THEN bus.rows
    ELSE LET i == CHOOSE i \in Places(id) : \A j \in Places(id) : i <= j
         IN SubSeq(bus.rows, i + 1, Len(bus.rows))

\* A call with a limit of one or with none. Lines that do not parse are skipped.
ReadEvents ==
    \E limit \in {1, MaxAppends} :
        LET rest == Following(after)
            given == IF limit < Len(rest) THEN SubSeq(rest, 1, limit) ELSE rest
        IN /\ given # <<>>
           /\ seen' = seen \cup {r.id : r \in Range(given)}
           /\ after' = Last(given).id
           /\ UNCHANGED <<bus, appends, busFaults>>

BusNext == AppendEvent \/ ReadEvents

(***************************************************************************)
(* Property                                                                *)
(***************************************************************************)
\* In a ledger whose lines all parse, an event that the reader was never given is
\* still before it: a cursor on an id that was emitted again skips none. (When a
\* failed append destroys the row under the cursor and its event is emitted again,
\* what was appended in between is skipped.)
BusMissesNothing ==
    \A r \in Range(bus.rows) :
        r.id \in seen \/ r \in Range(Following(after)) \/ bus.junk
=============================================================================
