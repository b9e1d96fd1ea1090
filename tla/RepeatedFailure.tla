--------------------------- MODULE RepeatedFailure ---------------------------
(***************************************************************************)
(* The repeated-failure gate of the tick (runtime/repeated_failure_gate.py *)
(* and its calls in tick_runner.tick_once): the settlements of a card are  *)
(* kept as a history of signatures, and a card whose last rows all tell    *)
(* the same failure is settled as failed again without being dispatched.   *)
(* The feed, which hands a card out again until two settlements in a row   *)
(* failed, is not in the tree and follows the gate's comment on it.        *)
(***************************************************************************)
EXTENDS Integers, FiniteSets, Sequences

CONSTANTS
    Card,               \* cards of a campaign
    Thresholds,         \* settings of the threshold, 0: below one or unreadable
    MaxSettlements,     \* bound: settlements in a behaviour
    MaxHistoryFaults    \* bound: rows not written, reads that fail, switches

ASSUME RepeatedFailureAssumption ==
    Thresholds \subseteq Nat /\ MaxSettlements \in Nat /\ MaxHistoryFaults \in Nat

DEFAULT_THRESHOLD == 1
FAILURE_ESCALATE_THRESHOLD == 2

VARIABLES
    gateOn,             \* the gate of the module
    setThreshold,       \* what the environment says
    history,            \* rows: target and signature
    settled,            \* every settlement, in order: row, was it skipped, how was it judged
    streak,             \* card -> settlements failed in a row, as the feed counts
    done,               \* cards the feed no longer hands out
    historyFaults

repeatVars == <<gateOn, setThreshold, history, settled, streak, done, historyFaults>>

threshold == IF setThreshold >= 1 THEN setThreshold ELSE DEFAULT_THRESHOLD

RepeatInit ==
    /\ gateOn = TRUE /\ setThreshold \in Thresholds
    /\ history = <<>> /\ settled = <<>>
    /\ streak = [c \in Card |-> 0] /\ done = {}
    /\ historyFaults = 0

(***************************************************************************)
(* The outcomes of a dispatch that are told apart, and the signature of    *)
(* each: none for a success; a skip is an error with a type of its own.    *)
(***************************************************************************)
Outcome == {"ok", "deadline", "not_ok"}
failure_signature(outcome) == IF outcome = "ok" THEN "none" ELSE outcome

\* Mutant: the rows of every card count.
_AnyTarget(target, rows) == DOMAIN rows

\* Where the rows of a card are, and which of them are the last n.
OfTarget(target, rows) == {i \in DOMAIN rows : rows[i].target = target}
LastOf(places, n) == {i \in places : Cardinality({j \in places : j >= i}) <= n}

\* There are n, and they tell one failure.
Alike(rows, tail, n) ==
    /\ Cardinality(tail) = n
    /\ \A i, j \in tail : rows[i].signature # "none" /\ rows[i].signature = rows[j].signature

should_skip(card, readable) ==
    /\ gateOn /\ readable
    /\ Alike(history, LastOf(OfTarget(card, history), threshold), threshold)

(***************************************************************************)
(* One attempt: the gate, the dispatch unless it is skipped, the row of    *)
(* the history, the feed's own count.                                      *)
(***************************************************************************)
Attempt(card) ==
    /\ card \notin done /\ Len(settled) < MaxSettlements
    /\ \E readable, written \in BOOLEAN, outcome \in Outcome :
        LET skip == should_skip(card, readable)
            signature == IF skip THEN "skipped" ELSE failure_signature(outcome)
            row == [target |-> card, signature |-> signature]
            failed == signature # "none" IN
        /\ historyFaults + (IF readable THEN 0 ELSE 1) + (IF written THEN 0 ELSE 1)
             <= MaxHistoryFaults
        /\ historyFaults' = historyFaults + (IF readable THEN 0 ELSE 1)
                                + (IF written THEN 0 ELSE 1)
        /\ history' = IF gateOn /\ written THEN Append(history, row) ELSE history
        /\ settled' = Append(settled, [target |-> card, signature |-> signature,
                                       kept |-> gateOn /\ written,
                                       judged |-> gateOn /\ readable, needed |-> threshold])
        /\ streak' = [streak EXCEPT ![card] = IF failed THEN @ + 1 ELSE 0]
        /\ done' = IF ~ failed \/ streak[card] + 1 >= FAILURE_ESCALATE_THRESHOLD
                   THEN done \cup {card} ELSE done
    /\ UNCHANGED <<gateOn, setThreshold>>

(***************************************************************************)
(* An operator turns the gate, or hands out a card that was closed again.  *)
(***************************************************************************)
SwitchRepeatGate ==
    /\ historyFaults < MaxHistoryFaults /\ historyFaults' = historyFaults + 1
    /\ gateOn' = ~ gateOn
    /\ UNCHANGED <<setThreshold, history, settled, streak, done>>

HandOutAgain(card) ==
    /\ card \in done /\ done' = done \ {card}
    /\ streak' = [streak EXCEPT ![card] = 0]
    /\ settled' = Append(settled, [target |-> card, signature |-> "reopened", kept |-> TRUE,
                                   judged |-> FALSE, needed |-> threshold])
    /\ Len(settled) < MaxSettlements
    /\ UNCHANGED <<gateOn, setThreshold, history, historyFaults>>

RepeatNext ==
    \/ \E c \in Card : Attempt(c) \/ HandOutAgain(c)
    \/ SwitchRepeatGate

-----------------------------------------------------------------------------
\* The earlier settlements of the card of the k-th.
Before(k) ==
    {i \in 1 .. k - 1 : settled[i].target = settled[k].target /\ settled[i].signature # "reopened"}

(***************************************************************************)
(* A settlement was skipped exactly when the last settlements of its own   *)
(* card told one and the same failure, as long as the gate could judge and *)
(* the history kept a row of each: other cards between them, and the skips *)
(* that are settled as failures themselves, change nothing (should_skip,   *)
(* record_outcome).                                                        *)
(***************************************************************************)
SkipMeansRepeat ==
    \A k \in DOMAIN settled :
        LET s == settled[k] IN
        s.judged /\ (\A i \in Before(k) : settled[i].kept) =>
            (s.signature = "skipped" <=> Alike(settled, LastOf(Before(k), s.needed), s.needed))

(***************************************************************************)
(* From a threshold of two on the gate cannot say a word before the feed   *)
(* closes the card, as the comment at DEFAULT_THRESHOLD argues: only a     *)
(* card that is handed out again is ever skipped.                          *)
(***************************************************************************)
OnlyTheDefaultIsReached ==
    \A k \in DOMAIN settled :
        LET s == settled[k] IN
        s.signature = "skipped" /\ s.needed >= FAILURE_ESCALATE_THRESHOLD
            => \E i \in 1 .. k - 1 : settled[i].target = s.target /\ settled[i].signature = "reopened"

\* The gate holds back a repeated failure and nothing else.
SkipsOnlyARepeat == SkipMeansRepeat /\ OnlyTheDefaultIsReached
=============================================================================
