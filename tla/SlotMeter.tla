------------------------------ MODULE SlotMeter ------------------------------
(***************************************************************************)
(* The workspace of one orchestrator slot (runtime/multi_orchestrator.py): *)
(* processes open it, append to its manifest and add to its cost meter     *)
(* under a file lock that the kernel releases when its holder dies. The    *)
(* meter is replaced through one temporary file that they all share.       *)
(***************************************************************************)
EXTENDS Integers

CONSTANTS Proc,
          MaxCalls,    \* charged calls of a behaviour
          MaxKills     \* deaths of a behaviour

ASSUME SlotAssumption == "none" \notin Proc /\ MaxCalls \in Nat /\ MaxKills \in Nat

NoMeter == -1
Unreadable == -2

VARIABLES meter,     \* call_count in cost_meter.json, NoMeter or Unreadable
          tmp,       \* cost_meter.json.tmp
          slotRows,  \* rows of manifest.jsonl
          holder,    \* who holds the lock, or "none"
          worker,    \* worker[p] = [pc, value]: what it writes next
          slotGhost  \* what happened: charged, appended, opened late, misread

slotVars == <<meter, tmp, slotRows, holder, worker, slotGhost>>

SlotInit ==
    /\ meter = NoMeter
    /\ tmp = NoMeter
    /\ slotRows = 0
    /\ holder = "none"
    /\ worker = [p \in Proc |-> [pc |-> "new", value |-> 0]]
    /\ slotGhost = [charged |-> 0, appended |-> 0, overlap |-> FALSE, damaged |-> FALSE, kills |-> 0]

At(p, pc) == worker[p].pc = pc
GoTo(p, pc, value) == worker' = [worker EXCEPT ![p] = [pc |-> pc, value |-> value]]

\* Is the first meter of another process on its way?
OthersOpening(p) == \E q \in Proc \ {p} : worker[q].pc \in {"initTmp", "initReplace"}

\* allocate_slot looks for the meter and writes one with no call in it if
\* there is none, without the lock.
Allocate(p) ==
    /\ At(p, "new")
    /\ IF meter = NoMeter THEN GoTo(p, "initTmp", 0) ELSE GoTo(p, "open", 0)
    /\ UNCHANGED <<meter, tmp, slotRows, holder, slotGhost>>

\* _write_cost_meter writes the temporary file ...
WriteTmp(p) ==
    /\ worker[p].pc \in {"initTmp", "tmp"}
    /\ tmp' = worker[p].value
    /\ GoTo(p, IF At(p, "tmp") THEN "replace" ELSE "initReplace", worker[p].value)
    /\ slotGhost' = [slotGhost EXCEPT !.overlap = @ \/ OthersOpening(p)]
    /\ UNCHANGED <<meter, slotRows, holder>>

\* ... and replaces the meter by it: an error if another process has taken
\* it. An update gives the lock back in either case.
ReplaceMeter(p) ==
    /\ worker[p].pc \in {"initReplace", "replace"}
    /\ IF tmp = NoMeter
       THEN UNCHANGED <<meter, tmp>>
       ELSE meter' = tmp /\ tmp' = NoMeter
    /\ holder' = IF At(p, "replace") THEN "none" ELSE holder
    /\ GoTo(p, IF tmp = NoMeter /\ At(p, "initReplace") THEN "new" ELSE "open", 0)
    /\ slotGhost' = [slotGhost EXCEPT
           !.charged = IF At(p, "replace") /\ tmp # NoMeter THEN @ + 1 ELSE @,
           !.overlap = @ \/ OthersOpening(p)]
    /\ UNCHANGED slotRows

_AcquireUnheld(p) ==
    /\ At(p, "open")
    /\ holder' = p
    /\ \E pc \in {"read", "append"} :
        /\ (IF pc = "read" THEN slotGhost.charged ELSE slotGhost.appended) < MaxCalls
        /\ GoTo(p, pc, 0)
    /\ UNCHANGED <<meter, tmp, slotRows, slotGhost>>

\* slot_lock for an update of the meter or for a row of the manifest.
Acquire(p) ==
    /\ At(p, "open") /\ holder = "none"
    /\ holder' = p
    /\ \E pc \in {"read", "append"} :
        /\ pc = "read" => slotGhost.charged < MaxCalls
        /\ pc = "append" => slotGhost.appended < MaxCalls
        /\ GoTo(p, pc, 0)
    /\ UNCHANGED <<meter, tmp, slotRows, slotGhost>>

\* update_cost_meter counts on from what it reads, from nothing if it cannot.
ReadMeter(p) ==
    /\ At(p, "read")
    /\ GoTo(p, "tmp", (IF meter < 0 THEN 0 ELSE meter) + 1)
    /\ UNCHANGED <<meter, tmp, slotRows, holder, slotGhost>>

\* append_manifest_entry.
AppendManifest(p) ==
    /\ At(p, "append")
    /\ slotRows' = slotRows + 1
    /\ holder' = "none"
    /\ GoTo(p, "open", 0)
    /\ slotGhost' = [slotGhost EXCEPT !.appended = @ + 1]
    /\ UNCHANGED <<meter, tmp>>

\* A process dies, with it its lock, and another one opens the slot.
Kill(p) ==
    /\ slotGhost.kills < MaxKills /\ ~At(p, "new")
    /\ holder' = IF holder = p THEN "none" ELSE holder
    /\ GoTo(p, "new", 0)
    /\ slotGhost' = [slotGhost EXCEPT !.kills = @ + 1]
    /\ UNCHANGED <<meter, tmp, slotRows>>

\* Somebody edits the meter so that it no longer parses.
Damage ==
    /\ ~slotGhost.damaged /\ meter >= 0
    /\ meter' = Unreadable
    /\ slotGhost' = [slotGhost EXCEPT !.damaged = TRUE]
    /\ UNCHANGED <<tmp, slotRows, holder, worker>>

SlotNext ==
    \/ \E p \in Proc :
        \/ Allocate(p) \/ WriteTmp(p) \/ ReplaceMeter(p) \/ Acquire(p)
        \/ ReadMeter(p) \/ AppendManifest(p) \/ Kill(p)
    \/ Damage

\* The meter holds every call that an update has returned for, and the
\* manifest every row, however the processes interleave and wherever one
\* dies: but for a meter that stopped to parse (it starts again from nothing)
\* and one that a process opening the slot wrote while others worked in it
\* (allocate_slot, slot_lock, update_cost_meter, append_manifest_entry).
SlotTellsAll ==
    /\ ~slotGhost.damaged /\ ~slotGhost.overlap => meter = slotGhost.charged \/ meter = NoMeter
    /\ slotGhost.charged > 0 => meter # NoMeter
    /\ slotRows = slotGhost.appended
=============================================================================
