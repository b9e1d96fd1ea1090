----------------------------- MODULE EpisodeLog -----------------------------
(***************************************************************************)
(* runtime/episode_log.py: what a cycle writes of itself into              *)
(* episode.jsonl and what the next cycle is told of it. Every row but HALT *)
(* may be lost silently; HALT is an audit row, its loss is raised.         *)
(***************************************************************************)
EXTENDS Integers, FiniteSetsExt, JsonLedger

CONSTANTS MaxCycles,
          MaxRows,      \* rows ever appended
          MaxLost       \* failed appends

ASSUME EpisodeAssumption == {MaxCycles, MaxRows, MaxLost} \subseteq Nat

NoCycle == 0            \* a row that names no cycle

\* PLAN, DISPATCH, VERIFY with failed ids or without, COST, HUMAN, HALT.
Working == {"PLAN", "DISPATCH", "VERIFY green", "VERIFY red", "HUMAN"}

VARIABLES
    epi,        \* the ledger
    cycle,      \* the cycle that runs
    ended,      \* it halted
    emitted,    \* rows the callers handed over
    told,       \* what the cycle was told of the one before
    audit,      \* audit_failures: cycles whose HALT row raised
    failures

episodeVars == <<epi, cycle, ended, emitted, told, audit, failures>>

(***************************************************************************)
(* The reader                                                              *)
(***************************************************************************)
\* Rows in the order of the file, lines that do not parse left out.
ReadRows == epi.rows

\* Where the rows are that the current cycle is told of.
Prior(current) == {i \in DOMAIN ReadRows : ReadRows[i].cycle # current}

\* A cycle has worked if it left a row that is not a cost.
Worked(current) ==
    {ReadRows[i].cycle : i \in {k \in Prior(current) : ReadRows[k].event # "COST"}} \ {NoCycle}

\* The cycle of the last row that belongs to a cycle that worked.
Previous(current) ==
    LET own == {i \in Prior(current) : ReadRows[i].cycle \in Worked(current)}
    IN IF own = {} THEN NoCycle ELSE ReadRows[Max(own)].cycle

\* Of that one cycle: did it halt, what did its last verification with failed ids
\* say (else its last), did it dispatch, did it start and leave nothing else.
Summary(current) ==
    LET prev == Previous(current)
        did == {ReadRows[i].event :
                   i \in {k \in Prior(current) : ReadRows[k].cycle = prev /\ prev # NoCycle}}
    IN [prev |-> prev,
        halt |-> "HALT" \in did,
        failed |-> "VERIFY red" \in did,
        task |-> "DISPATCH" \in did,
        planOnly |-> "PLAN" \in did /\ did \cap {"DISPATCH", "HALT"} = {}]

\* The block is left out when there is nothing to tell.
Silent(s) == ~(s.halt \/ s.failed \/ s.task \/ s.planOnly)

EpisodeInit ==
    /\ epi = NewLedger /\ cycle = NoCycle /\ ended = TRUE
    /\ emitted = {} /\ told = [prev |-> NoCycle, halt |-> FALSE, failed |-> FALSE, task |-> FALSE, planOnly |-> FALSE]
    /\ audit = {} /\ failures = 0

(***************************************************************************)
(* The writers                                                             *)
(***************************************************************************)
Lose(row) == failures < MaxLost /\ failures' = failures + 1 /\ epi' \in Failed(epi, row)

Room == Len(epi.rows) + failures < MaxRows

\* _write: an append that fails is swallowed.
EmitRow(c, event) ==
    LET row == [cycle |-> c, event |-> event] IN
    /\ Room
    /\ (epi' = Written(epi, row) /\ UNCHANGED failures) \/ Lose(row)
    /\ emitted' = emitted \cup {row}
    /\ UNCHANGED <<cycle, ended, told, audit>>

\* What the running cycle does; HUMAN is its query's author.
EmitOwn == \E event \in Working : ~ended /\ EmitRow(cycle, event)

\* A cost row takes its cycle from the context of the call; a call in a thread of
\* its own has none (episode_ctx).
EmitCost == ~ended /\ \E c \in {cycle, NoCycle} : EmitRow(c, "COST")

\* A promotion happens after the episode and belongs to no cycle.
EmitPromoted == EmitRow(NoCycle, "HUMAN")

\* Mutant: the loss of a HALT row is swallowed as that of any other.
_AuditedNever == UNCHANGED audit

\* EpisodeAuditError, and the failure kept for the caller to carry elsewhere.
Audited == audit' = audit \cup {cycle}

EmitHalt ==
    LET row == [cycle |-> cycle, event |-> "HALT"] IN
    /\ ~ended /\ Room
    /\ \/ epi' = Written(epi, row) /\ UNCHANGED <<failures, audit>>
       \/ Lose(row) /\ Audited
    /\ emitted' = emitted \cup {row}
    /\ ended' = TRUE
    /\ UNCHANGED <<cycle, told>>

\* The next cycle, after a halt or after a crash, is told of the one before.
NextCycle ==
    /\ cycle < MaxCycles
    /\ cycle' = cycle + 1 /\ ended' = FALSE
    /\ told' = Summary(cycle + 1)
    /\ UNCHANGED <<epi, emitted, audit, failures>>

EpisodeNext == EmitOwn \/ EmitCost \/ EmitPromoted \/ EmitHalt \/ NextCycle

(***************************************************************************)
(* Properties                                                              *)
(***************************************************************************)
Reads(c, event) == [cycle |-> c, event |-> event] \in Range(ReadRows)

\* A cycle is told of the last cycle that worked and of no other: money spent in
\* vain or late does not hide it, and what an older cycle did is not said of it.
ToldOfTheLastThatWorked ==
    cycle > 1 /\ failures = 0 =>
        LET worked == {r.cycle : r \in {q \in emitted : q.event # "COST" /\ q.cycle \notin {NoCycle, cycle}}}
        IN /\ told.prev = IF worked = {} THEN NoCycle ELSE Max(worked)
           /\ told.halt <=> [cycle |-> told.prev, event |-> "HALT"] \in emitted
           /\ told.failed <=> [cycle |-> told.prev, event |-> "VERIFY red"] \in emitted
           /\ ~Silent(told) => told.prev # NoCycle

\* A HALT that no reader finds was raised, or went into a line that somebody
\* else's failed append had left unfinished.
LostHaltIsKnown ==
    \A c \in 1..MaxCycles :
        [cycle |-> c, event |-> "HALT"] \in emitted =>
            Reads(c, "HALT") \/ c \in audit \/ epi.junk

\* The note on the previous cycle tells what its rows tell.
EpisodeIsTold == ToldOfTheLastThatWorked /\ LostHaltIsKnown
=============================================================================
