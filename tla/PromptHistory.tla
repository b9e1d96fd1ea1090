---------------------------- MODULE PromptHistory ----------------------------
(***************************************************************************)
(* The loop's own history becomes rules: events are stamped and appended   *)
(* to cycle_log.jsonl, and now and then the compactor reads what is newer  *)
(* than its cursor, keeps what its budget allows, appends new rules to the *)
(* sidecar and moves the cursor (_run_prompt_evolution_advisory).          *)
(***************************************************************************)
EXTENDS Integers, FiniteSets, FiniteSetsExt, JsonLedger

CONSTANTS Event,        \* events to log
          Size,         \* tokens of each event's line
          TokenBudget,     \* tokens of a packet
          MaxTime,
          MaxMishaps    \* failed appends, crashes, unreadable files

ASSUME HistoryAssumption ==
    Size \in [Event -> Nat] /\ {TokenBudget, MaxTime, MaxMishaps} \subseteq Nat

Unstamped == -1

VARIABLES
    stamp,      \* when each event was stamped
    hist,       \* cycle_log.jsonl
    time,
    cursor,     \* the cursor file
    rules,      \* how often each rule is in the sidecar
    batch,      \* what the compactor holds: where it is, kept, dropped, next cursor
    dropped,    \* events that a budget left out
    overtaken,  \* events appended when the compactor had read up to their stamp
    blind,      \* rounds in which the sidecar could not be read
    mishaps

historyVars == <<stamp, hist, time, cursor, rules, batch, dropped, overtaken, blind, mishaps>>

NoBatch == [at |-> "idle", kept |-> {}, dropped |-> {}, next |-> 0]

HistoryInit ==
    /\ stamp = [e \in Event |-> Unstamped] /\ hist = NewLedger /\ time = 1
    /\ cursor = 0 /\ rules = [e \in Event |-> 0] /\ batch = NoBatch
    /\ dropped = {} /\ overtaken = {} /\ blind = 0 /\ mishaps = 0

Mishap == mishaps < MaxMishaps /\ mishaps' = mishaps + 1

InHist == Range(hist.rows)

(***************************************************************************)
(* Writers: an event is stamped first and appended when the lock is free   *)
(***************************************************************************)
Stamp(e) ==
    /\ stamp[e] = Unstamped
    /\ stamp' = [stamp EXCEPT ![e] = time]
    /\ UNCHANGED <<hist, time, cursor, rules, batch, dropped, overtaken, blind, mishaps>>

\* The highest stamp the compactor has passed or is about to pass.
ReadUpTo == IF batch.at = "idle" THEN cursor ELSE Max({batch.next, cursor})

LogEvent(e) ==
    /\ stamp[e] # Unstamped /\ e \notin InHist
    /\ \/ hist' = Written(hist, e) /\ UNCHANGED mishaps
       \/ Mishap /\ hist' \in Failed(hist, e)
    /\ overtaken' = IF stamp[e] <= ReadUpTo THEN overtaken \cup {e} ELSE overtaken
    /\ UNCHANGED <<stamp, time, cursor, rules, batch, dropped, blind>>

Tick ==
    /\ time < MaxTime /\ time' = time + 1
    /\ UNCHANGED <<stamp, hist, cursor, rules, batch, dropped, overtaken, blind, mishaps>>

(***************************************************************************)
(* The compactor                                                           *)
(***************************************************************************)

\* read_since: strictly newer than the cursor.
Since(c) == {e \in InHist : stamp[e] > c}

\* By descending importance, each event whose line still fits.
Fits(kept) == MapThenSumSet(LAMBDA e : Size[e], kept) <= TokenBudget
Packets(events) ==
    {kept \in SUBSET events : Fits(kept) /\ \A e \in events \ kept : ~Fits(kept \cup {e})}

\* compact_prompts: the cursor passes all that was read, kept or not. A log with a
\* line that does not parse raises.
Compact ==
    /\ batch.at = "idle" /\ Parses(hist) /\ Since(cursor) # {}
    /\ \E kept \in Packets(Since(cursor)) :
          batch' = [at |-> "sidecar", kept |-> kept, dropped |-> Since(cursor) \ kept,
                    next |-> Max({stamp[e] : e \in Since(cursor)})]
    /\ UNCHANGED <<stamp, hist, time, cursor, rules, dropped, overtaken, blind, mishaps>>

\* The rules that the sidecar does not hold yet.
Fresh(kept, existing) == kept \ existing

\* A sidecar that cannot be read is taken for empty.
AppendRules ==
    /\ batch.at = "sidecar"
    /\ \E existing \in {{e \in Event : rules[e] > 0}, {}} :
          /\ rules' = [e \in Event |-> IF e \in Fresh(batch.kept, existing) THEN rules[e] + 1 ELSE rules[e]]
          /\ IF existing = {} /\ \E e \in Event : rules[e] > 0
             THEN Mishap /\ blind' = blind + 1
             ELSE UNCHANGED <<blind, mishaps>>
    /\ batch' = [batch EXCEPT !.at = "cursor"]
    /\ dropped' = dropped \cup batch.dropped
    /\ UNCHANGED <<stamp, hist, time, cursor, overtaken>>

\* The sidecar cannot be written: the round ends, the cursor stays.
FailRules ==
    /\ batch.at = "sidecar" /\ Mishap
    /\ batch' = NoBatch
    /\ UNCHANGED <<stamp, hist, time, cursor, rules, dropped, overtaken, blind>>

\* A cursor that cannot be written stays: the events are read once more.
MoveCursor ==
    /\ batch.at = "cursor"
    /\ \/ cursor' = batch.next /\ UNCHANGED mishaps
       \/ Mishap /\ UNCHANGED cursor
    /\ batch' = NoBatch
    /\ UNCHANGED <<stamp, hist, time, rules, dropped, overtaken, blind>>

\* The process dies; or the cursor file is found damaged and reads as 0.
Interrupt ==
    /\ Mishap
    /\ \/ batch.at # "idle" /\ UNCHANGED cursor
       \/ cursor # 0 /\ cursor' = 0
    /\ batch' = NoBatch
    /\ UNCHANGED <<stamp, hist, time, rules, dropped, overtaken, blind>>

HistoryNext ==
    \/ \E e \in Event : Stamp(e) \/ LogEvent(e)
    \/ Tick \/ Compact \/ AppendRules \/ FailRules \/ MoveCursor \/ Interrupt

(***************************************************************************)
(* Properties                                                              *)
(***************************************************************************)
\* What the cursor has passed is a rule in the sidecar, or a budget left it out,
\* or it was appended after the compactor had read beyond its stamp.
PassedIsHandled ==
    \A e \in InHist : stamp[e] <= cursor => rules[e] > 0 \/ e \in dropped \/ e \in overtaken

\* A round that is repeated, after a crash or with a cursor that was lost, writes
\* no rule again that the sidecar could have shown to be there.
RuleWrittenOnce == \A e \in Event : rules[e] <= 1 + blind
=============================================================================
