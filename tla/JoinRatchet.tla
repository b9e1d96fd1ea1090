----------------------------- MODULE JoinRatchet -----------------------------
(***************************************************************************)
(* The ratchet over the ledgers of a jail (tools/ledger_join_check.py on   *)
(* tools/ratchet.py): which families of ledgers carry a cycle_id is frozen *)
(* in a sealed baseline, a check compares the jail with it, an update      *)
(* freezes it anew, and people edit the tables, the jail and the file      *)
(* between. The option --since and the reasons' wording are left out.      *)
(***************************************************************************)
EXTENDS FiniteSets, Naturals

CONSTANTS Ledger,       \* ledger files, by their path below the jail
          Folded,       \* those that a new entry of PARTITIONED would fold
          FoldedKey,    \* ... and the family it would fold them to
          MaxTableEdits, \* edits of the tables and of the baseline
          MaxRuns        \* runs of the tool with --ratchet

ASSUME RatchetAssumption ==
    /\ Folded \subseteq Ledger /\ FoldedKey \notin Ledger
    /\ MaxTableEdits \in Nat /\ MaxRuns \in Nat

Family == Ledger \union {FoldedKey}

VARIABLES rows,       \* rows[l]: "absent", "bare" (no row has a cycle_id) or "joined"
          declared,   \* NOT_CYCLE_SCOPED
          receipts,   \* RESCOPE_ALLOWLIST
          folding,    \* does PARTITIONED fold the ledgers of Folded?
          baseline,   \* the file: [state, payload]
          lastCheck,  \* what the last check said: [exit, hidden]
          bounds,     \* [edits, runs]
          promised,   \* families that were frozen inside the denominator
          absorbed    \* those of them that an update has left out as folded

ratchetVars == <<rows, declared, receipts, folding, baseline, lastCheck, bounds, promised, absorbed>>

NoPayload == [f \in {} |-> "outside"]
NoCheck == [exit |-> "none", hidden |-> {}]

RatchetInit ==
    /\ rows \in [Ledger -> {"absent", "joined"}]
    /\ declared = {} /\ receipts = {} /\ folding = FALSE
    /\ baseline = [state |-> "missing", payload |-> NoPayload]
    /\ lastCheck = NoCheck
    /\ bounds = [edits |-> 0, runs |-> 0]
    /\ promised = {} /\ absorbed = {}

(***************************************************************************)
(* Measuring and comparing                                                 *)
(***************************************************************************)
family(l) == IF folding /\ l \in Folded THEN FoldedKey ELSE l

Observed == {family(l) : l \in {x \in Ledger : rows[x] # "absent"}}
AnyJoined(f) == \E l \in Ledger : family(l) = f /\ rows[l] = "joined"

\* The payload of ratchet_measure: a declared family is outside the
\* denominator, whatever its rows are.
Measured == [f \in Observed |-> IF f \in declared THEN "outside"
                                ELSE IF AnyJoined(f) THEN "joined" ELSE "unjoined"]

\* load_baseline: "missing", "damaged" (unparseable, shape or hash) and
\* "foreign" (schema or scope) are errors of their own.
Loads == baseline.state = "sealed"
Frozen == DOMAIN baseline.payload

\* The keys of compare(): added and changed; the check has narrowed the old
\* side to what is observed, so that nothing is ever removed.
Differing == {f \in Observed : f \in Frozen => baseline.payload[f] # Measured[f]}

\* _classify of a changed family.
classify(old, new) ==
    CASE old # "outside" /\ new = "outside" -> "worse"
      [] old = "outside" /\ new # "outside" -> "neutral"
      [] old = "joined" /\ new = "unjoined" -> "worse"
      [] old = "unjoined" /\ new = "joined" -> "better"
      [] OTHER -> "neutral"

\* A family that is declared outside while rows of it carry a cycle_id.
Contradicted == {f \in Observed : Measured[f] = "outside" /\ AnyJoined(f)}

\* What the first layer says of the tables against the frozen payload: a
\* family is declared that was never frozen or was frozen inside, or a frozen
\* family has been folded away.
scope_defects ==
    {f \in declared : f \in Frozen => baseline.payload[f] # "outside"}
    \union {f \in Frozen \intersect Ledger : family(f) # f}

\* A receipt is for a family that is being moved now.
rescope_allowlist_defects ==
    {f \in receipts : ~(f \in declared /\ f \in Frozen /\ baseline.payload[f] # "outside")}
LayerOneIsGreen == Loads /\ Frozen # {} /\ scope_defects = {} /\ rescope_allowlist_defects = {}

(***************************************************************************)
(* The tool                                                                *)
(***************************************************************************)
\* Ghost: the families that the denominator owes and that this jail shows
\* outside it, or without the keys that they were frozen with.
Hidden == {f \in Observed \intersect promised :
              \/ Measured[f] = "outside"
              \/ f \in Frozen /\ baseline.payload[f] = "joined" /\ Measured[f] # "joined"}

\* ratchet_check: 0, 1 and 3 of the exit codes.
Check ==
    /\ bounds.runs < MaxRuns
    /\ bounds' = [bounds EXCEPT !.runs = @ + 1]
    /\ lastCheck' = [exit   |-> IF ~Loads THEN "cannot"
                                ELSE IF Differing # {} \/ Contradicted # {} THEN "regression"
                                ELSE "ok",
                     hidden |-> Hidden]
    /\ UNCHANGED <<rows, declared, receipts, folding, baseline, promised, absorbed>>

\* rescope_refusals: a family that goes from inside to outside without a receipt.
rescope_refusals ==
    {f \in Frozen \intersect Observed :
        /\ classify(baseline.payload[f], Measured[f]) = "worse"
        /\ baseline.payload[f] # "outside" /\ Measured[f] = "outside"
        /\ f \notin receipts}

\* Bug: an update forgets what it has not seen.
_ForgetsUnseen == {f \in Frozen \ Observed : FALSE}

\* What an update carries forward: every frozen family that it has not
\* observed, but for one that folds to a family it has observed.
CarriedForward ==
    {f \in Frozen \ Observed : (f \in Ledger /\ family(f) # f) => family(f) \notin Observed}
Refrozen == [f \in Observed \union CarriedForward |->
                IF f \in Observed THEN Measured[f] ELSE baseline.payload[f]]

\* ratchet_update: it refuses, and leaves the file alone, over a baseline
\* that it cannot read and over a demotion; none at all is a first freeze.
Update ==
    /\ bounds.runs < MaxRuns
    /\ bounds' = [bounds EXCEPT !.runs = @ + 1]
    /\ IF baseline.state \in {"damaged", "foreign"} \/ (Loads /\ rescope_refusals # {})
       THEN UNCHANGED <<baseline, promised, absorbed>>
       ELSE /\ baseline' = [state |-> "sealed", payload |-> Refrozen]
            /\ absorbed' = (absorbed \union {f \in promised \intersect Folded : family(f) \in Observed \ {f}})
                           \ DOMAIN Refrozen
            /\ promised' = {f \in DOMAIN Refrozen : Refrozen[f] # "outside"}
                           \union {f \in promised \ absorbed' : ~(f \in receipts /\ f \in declared /\ f \in Observed)}
    /\ UNCHANGED <<rows, declared, receipts, folding, lastCheck>>

(***************************************************************************)
(* The world: producers, maintenance of the jail, and editors              *)
(***************************************************************************)
AppendRows(l, kind) ==
    /\ rows[l] # "joined" /\ rows[l] # kind
    /\ rows' = [rows EXCEPT ![l] = kind]
    /\ UNCHANGED <<declared, receipts, folding, baseline, lastCheck, bounds, promised, absorbed>>

\* The quarantine tool rewrites a ledger without some of its rows; another
\* jail, or a cleaned one, does not have the ledger at all.
LoseRows(l) ==
    /\ rows[l] # "absent"
    /\ rows' = [rows EXCEPT ![l] = IF rows[l] = "joined" THEN "bare" ELSE "absent"]
    /\ UNCHANGED <<declared, receipts, folding, baseline, lastCheck, bounds, promised, absorbed>>

CountEdit == bounds.edits < MaxTableEdits /\ bounds' = [bounds EXCEPT !.edits = @ + 1]
Flip(set, f) == IF f \in set THEN set \ {f} ELSE set \union {f}

EditTables ==
    /\ CountEdit
    /\ \/ \E f \in Family : declared' = Flip(declared, f) /\ UNCHANGED <<receipts, folding>>
       \/ \E f \in Family : receipts' = Flip(receipts, f) /\ UNCHANGED <<declared, folding>>
       \/ folding' = ~folding /\ UNCHANGED <<declared, receipts>>
    /\ UNCHANGED <<rows, baseline, lastCheck, promised, absorbed>>

\* A hand edit breaks the seal, the baseline of another target does not fit,
\* and the version control brings the file back.
EditBaseline ==
    /\ CountEdit
    /\ baseline.state # "missing"
    /\ baseline' = [baseline EXCEPT !.state = IF Loads THEN "damaged" ELSE "sealed"]
    /\ UNCHANGED <<rows, declared, receipts, folding, lastCheck, promised, absorbed>>

WrongTarget ==
    /\ CountEdit
    /\ Loads
    /\ baseline' = [baseline EXCEPT !.state = "foreign"]
    /\ UNCHANGED <<rows, declared, receipts, folding, lastCheck, promised, absorbed>>

\* Deleting the baseline is the documented way to start over.
DeleteBaseline ==
    /\ CountEdit
    /\ baseline.state # "missing"
    /\ baseline' = [state |-> "missing", payload |-> NoPayload]
    /\ promised' = {} /\ absorbed' = {}
    /\ lastCheck' = NoCheck
    /\ UNCHANGED <<rows, declared, receipts, folding>>

RatchetNext ==
    \/ Check \/ Update \/ EditTables \/ EditBaseline \/ WrongTarget \/ DeleteBaseline
    \/ \E l \in Ledger : LoseRows(l) \/ AppendRows(l, "bare") \/ AppendRows(l, "joined")

(***************************************************************************)
(* Properties                                                              *)
(***************************************************************************)
Counted(f) == f \in Frozen /\ baseline.payload[f] # "outside"

(* A family that was once frozen inside the denominator stays in the       *)
(* sealed baseline, inside, through any number of updates, on jails that   *)
(* do not show it as well, until a receipt, a folding entry of PARTITIONED *)
(* or a deleted file takes it out;                                         *)
(* and a check that says "ok" has not passed over such a family, or over   *)
(* one whose rows have lost their keys (ratchet_update, ratchet_check).    *)
NothingLaundered ==
    /\ Loads => \A f \in promised : Counted(f)
    /\ lastCheck.exit = "ok" => lastCheck.hidden = {}

(* rescope_refusals, 1291-1302: folding a family under a new name and      *)
(* freezing that outside is stopped, for the old key stays in the baseline *)
(* and keeps the first layer red.                                          *)
FoldIsCaught ==
    (Loads /\ \E f \in absorbed : ~Counted(family(f))) => ~LayerOneIsGreen
=============================================================================
