------------------------------ MODULE AutoApply ------------------------------
(***************************************************************************)
(* One session of SafeAutoApply.apply_session (enforcement/                *)
(* safe_auto_apply.py): a list of changes is applied to the working tree   *)
(* one after the other, each behind a backup on disk and an intent in the  *)
(* two-phase ledger (enforcement/apply_chain_full.py).  When one of them   *)
(* fails the session replays its backups in reverse, takes its new files   *)
(* away and reports what is left dirty.  A crash may end the session       *)
(* anywhere; the next process then asks the ledger for orphaned intents.   *)
(*                                                                         *)
(* The change at position i makes the text numbered i of its own and a     *)
(* backup numbered i.  The content of a file is Absent, the original with  *)
(* plain or with CRLF line ends, or one of those texts.  Backups of        *)
(* earlier sessions are pruned first and are left out.                     *)
(*                                                                         *)
(* Left out: path containment, protected files and syntax (a change they   *)
(* refuse is one of the rejected), the audit row, and dry runs.            *)
(***************************************************************************)
EXTENDS Integers, Sequences, FiniteSetsExt

CONSTANTS
    File,        \* paths in the repository
    Original,    \* contents the files may have before the session
    MaxChanges,  \* bound on the changes of a session
    MaxWrites,   \* what the cycle has left of max_writes_per_cycle
    Retention,   \* backup_retention
    MaxFaults    \* bound on failed writes, lost backups and crashes

Absent == 0
Lf == 1
CrLf == 2
Text(i) == CrLf + i

ASSUME ApplyAssumption ==
    /\ Original \subseteq {Absent, Lf, CrLf}
    /\ {MaxChanges, MaxFaults} \subseteq Nat
    /\ {MaxWrites, Retention} \subseteq Nat \ {0}

VARIABLES
    base,      \* the tree before the session
    change,    \* the changes that passed validation
    rejected,  \* some did not
    tree,
    saved,     \* the text each backup was given
    baks,      \* backups on disk
    spoilt,    \* backups somebody else removed or rewrote
    intents, commits,   \* rows of the ledger
    pc, i,     \* where the session is, and at which change
    failed,    \* some change was not applied
    applied, mine, created, ledgerErrors,   \* what the session remembers
    undo,      \* what is left to undo
    residual,  \* residual_paths
    result,    \* what the caller is told
    orphans,   \* orphaned_intents_at_boot
    faults,
    wrote      \* changes that reached the tree (history)

input == <<base, change, rejected>>
memory == <<applied, mine, created, ledgerErrors>>
disk == <<tree, saved, baks, spoilt, intents, commits>>
outcome == <<residual, result, orphans>>
sessionVars == <<input, disk, pc, i, failed, memory, undo, outcome, faults, wrote>>

Action == {"create", "edit", "guarded", "delete", "line"}
Index == 1..Len(change)
Content == Absent..Text(MaxChanges)
NoResult == [success |-> FALSE, attempted |-> FALSE, complete |-> FALSE]

TypeOK ==
    /\ {tree, base} \subseteq [File -> Content]
    /\ change \in Seq([file : File, act : Action]) /\ Len(change) \in 1..MaxChanges
    /\ saved \in [1..MaxChanges -> Content]
    /\ UNION {baks, spoilt, intents, commits, mine, created, ledgerErrors, undo, orphans, wrote}
           \subseteq Index
    /\ i \in 1..MaxChanges + 1 /\ applied \in 0..MaxChanges /\ faults \in 0..MaxFaults
    /\ {failed, rejected} \subseteq BOOLEAN
    /\ residual \subseteq File
    /\ result \in [{"success", "attempted", "complete"} -> BOOLEAN]
    /\ pc \in {"examine", "backup", "intent", "mutate", "commit", "restore", "uncreate",
               "report", "done", "crashed", "booted"}

SessionInit ==
    /\ base \in [File -> Original]
    /\ \E n \in 1..MaxChanges : change \in [1..n -> [file : File, act : Action]]
    /\ rejected \in BOOLEAN
    /\ tree = base /\ saved = [k \in 1..MaxChanges |-> Absent]
    /\ baks = {} /\ spoilt = {} /\ intents = {} /\ commits = {}
    /\ pc = "examine" /\ i = 1 /\ failed = FALSE
    /\ applied = 0 /\ mine = {} /\ created = {} /\ ledgerErrors = {}
    /\ undo = {} /\ residual = {} /\ result = NoResult /\ orphans = {}
    /\ faults = 0 /\ wrote = {}

----------------------------------------------------------------------------
\* The change being applied

Target == change[i].file
Act == change[i].act

\* Text read as Python reads it: line ends are plain.
Plain(c) == IF c = CrLf THEN Lf ELSE c

New == IF Act = "delete" THEN Absent ELSE Text(i)

\* A guarded edit was computed from the file as it was before the session.
Refused ==
    \/ Act = "create" /\ tree[Target] # Absent
    \/ Act # "create" /\ tree[Target] = Absent
    \/ Act = "guarded" /\ tree[Target] # base[Target]

Fault == faults < MaxFaults /\ faults' = faults + 1

NextChange == pc' = "examine" /\ i' = i + 1
Fails == NextChange /\ failed' = TRUE

RateLimited ==
    /\ pc = "examine" /\ i <= Len(change) /\ applied >= MaxWrites
    /\ Fails
    /\ UNCHANGED <<input, disk, memory, undo, outcome, faults, wrote>>

Examine ==
    /\ pc = "examine" /\ i <= Len(change) /\ applied < MaxWrites
    /\ IF Refused THEN Fails
       ELSE /\ pc' = IF Act = "create" THEN "intent" ELSE "backup"
            /\ UNCHANGED <<i, failed>>
    /\ UNCHANGED <<input, disk, memory, undo, outcome, faults, wrote>>

Siblings(k) == {j \in baks \cup {k} : change[j].file = change[k].file}

\* _prune_backups keeps the newest.
Pruned(k) == {j \in Siblings(k) : Cardinality({l \in Siblings(k) : l > j}) >= Retention}

\* _disk_backup: written, read back, registered, then the siblings pruned; or
\* it raises, and may leave a file that is not registered.
Backup ==
    /\ pc = "backup"
    /\ saved' = [saved EXCEPT ![i] = Plain(tree[Target])]
    /\ \/ /\ baks' = (baks \cup {i}) \ Pruned(i)
          /\ mine' = mine \cup {i}
          /\ pc' = "intent"
          /\ UNCHANGED <<i, failed, faults>>
       \/ /\ Fault /\ Fails
          /\ baks' \in {baks, baks \cup {i}}
          /\ UNCHANGED mine
    /\ UNCHANGED <<input, tree, spoilt, intents, commits, applied, created, ledgerErrors,
                   undo, outcome, wrote>>

\* Mutant: a write goes ahead of its intent.
Intent_Late ==
    /\ pc = "intent" /\ pc' = "mutate"
    /\ UNCHANGED <<input, disk, i, failed, memory, undo, outcome, faults, wrote>>

\* begin_intent.  A fault of the ledger is noted and never stops the write.
Intent ==
    /\ pc = "intent" /\ pc' = "mutate"
    /\ \/ intents' = intents \cup {i} /\ UNCHANGED <<ledgerErrors, faults>>
       \/ /\ Fault /\ ledgerErrors' = ledgerErrors \cup {i}
          /\ intents' \in {intents, intents \cup {i}}
    /\ UNCHANGED <<input, tree, saved, baks, spoilt, commits, i, failed, applied, mine,
                   created, undo, outcome, wrote>>

\* The write is atomic: a temporary file renamed over the target.  A line edit
\* that does not find its line writes nothing and returns False; a write that
\* raises leaves the intent behind.
Mutate ==
    /\ pc = "mutate"
    /\ \/ /\ tree' = [tree EXCEPT ![Target] = New]
          /\ wrote' = wrote \cup {i}
          /\ pc' = "commit" /\ UNCHANGED <<i, failed, faults>>
       \/ /\ Act = "line" /\ pc' = "commit"
          /\ UNCHANGED <<tree, wrote, i, failed, faults>>
       \/ Fault /\ Fails /\ UNCHANGED <<tree, wrote>>
    /\ UNCHANGED <<input, saved, baks, spoilt, intents, commits, memory, undo, outcome>>

Remember == IF Act = "create" THEN created \cup {i} ELSE created

\* The ledger is told; then the session counts the change, or the failure.
Commit ==
    /\ pc = "commit" /\ NextChange
    /\ \/ i \in ledgerErrors /\ UNCHANGED <<commits, ledgerErrors, faults>>
       \/ i \notin ledgerErrors /\ commits' = commits \cup {i} /\ UNCHANGED <<ledgerErrors, faults>>
       \/ /\ i \notin ledgerErrors
          /\ Fault /\ ledgerErrors' = ledgerErrors \cup {i}
          /\ commits' \in {commits, commits \cup {i}}
    /\ IF i \in wrote
       THEN applied' = applied + 1 /\ created' = Remember /\ UNCHANGED failed
       ELSE failed' = TRUE /\ UNCHANGED <<applied, created>>
    /\ UNCHANGED <<input, tree, saved, baks, spoilt, intents, mine, undo, outcome, wrote>>

----------------------------------------------------------------------------
\* When every change has been tried

Newest(s) == CHOOSE k \in s : \A l \in s : l <= k

\* Backups are replayed after any error, a rejection included; new files are
\* taken away only when a change failed.
Settle ==
    /\ pc = "examine" /\ i > Len(change)
    /\ \/ /\ failed \/ rejected
          /\ mine # {} \/ (failed /\ created # {})
          /\ pc' = "restore" /\ undo' = mine
          /\ result' = [result EXCEPT !.attempted = TRUE]
       \/ /\ (failed \/ rejected) => (mine = {} /\ ~(failed /\ created # {}))
          /\ pc' = "report" /\ UNCHANGED <<undo, result>>
    /\ UNCHANGED <<input, disk, i, failed, memory, residual, orphans, faults, wrote>>

Oldest(s) == CHOOSE k \in s : \A l \in s : k <= l

\* Mutant: backups are replayed in the order they were made.
NextUndo_Forward == Oldest(undo)

NextUndo == Newest(undo)

\* One backup, if it is there and as it was written.
Restore ==
    /\ pc = "restore" /\ undo # {}
    /\ undo' = undo \ {NextUndo}
    /\ LET j == NextUndo  f == change[j].file IN
       \/ /\ j \in baks \ spoilt
          /\ tree' = [tree EXCEPT ![f] = saved[j]]
          /\ UNCHANGED <<residual, faults>>
       \/ /\ j \notin baks \ spoilt
          /\ residual' = residual \cup {f}
          /\ UNCHANGED <<tree, faults>>
       \/ Fault /\ residual' = residual \cup {f} /\ UNCHANGED tree
    /\ UNCHANGED <<input, saved, baks, spoilt, intents, commits, pc, i, failed, memory,
                   result, orphans, wrote>>

Restored ==
    /\ pc = "restore" /\ undo = {}
    /\ \/ failed /\ pc' = "uncreate" /\ undo' = created
       \/ ~failed /\ pc' = "report" /\ UNCHANGED undo
    /\ UNCHANGED <<input, disk, i, failed, memory, outcome, faults, wrote>>

Uncreate ==
    /\ pc = "uncreate" /\ undo # {}
    /\ undo' = undo \ {Newest(undo)}
    /\ LET f == change[Newest(undo)].file IN
       \/ tree' = [tree EXCEPT ![f] = Absent] /\ UNCHANGED <<residual, faults>>
       \/ /\ tree[f] # Absent
          /\ Fault /\ residual' = residual \cup {f} /\ UNCHANGED tree
    /\ UNCHANGED <<input, saved, baks, spoilt, intents, commits, pc, i, failed, memory,
                   result, orphans, wrote>>

Uncreated ==
    /\ pc = "uncreate" /\ undo = {} /\ pc' = "report"
    /\ UNCHANGED <<input, disk, i, failed, memory, undo, outcome, faults, wrote>>

Touched == {change[k].file : k \in Index}

\* The verdict compares the bytes before and after.
Report ==
    /\ pc = "report" /\ pc' = "done"
    /\ result' = [result EXCEPT
           !.complete = /\ result.attempted /\ residual = {}
                        /\ \A f \in Touched : tree[f] = base[f],
           !.success = ~failed /\ ~rejected]
    /\ UNCHANGED <<input, disk, i, failed, memory, undo, residual, orphans, faults, wrote>>

----------------------------------------------------------------------------
\* The environment

\* Memory is lost; the disk stays as it is.
Crash ==
    /\ pc \notin {"done", "crashed", "booted"} /\ pc' = "crashed"
    /\ Fault
    /\ UNCHANGED <<input, disk, i, failed, memory, undo, outcome, wrote>>

\* find_orphaned_intents
Orphans == intents \ commits

\* SafeAutoApply.__init__ in the next process
Boot ==
    /\ pc \in {"done", "crashed"} /\ pc' = "booted"
    /\ orphans' = Orphans
    /\ UNCHANGED <<input, disk, i, failed, memory, undo, residual, result, faults, wrote>>

\* Somebody removes or rewrites a backup.
Spoil ==
    /\ pc \notin {"done", "crashed", "booted"}
    /\ Fault
    /\ \E k \in baks :
           /\ spoilt' = spoilt \cup {k}
           /\ baks' \in {baks, baks \ {k}}
    /\ UNCHANGED <<input, tree, saved, intents, commits, pc, i, failed, memory, undo,
                   outcome, wrote>>

Session ==
    \/ RateLimited \/ Examine \/ Backup \/ Intent \/ Mutate \/ Commit
    \/ Settle \/ Restore \/ Restored \/ Uncreate \/ Uncreated \/ Report

SessionNext == Session \/ Crash \/ Boot \/ Spoil

----------------------------------------------------------------------------
\* Properties

\* The session makes a file it deleted before (or failed to make) anew.
Remade == \E k, l \in Index : /\ k < l /\ change[k].file = change[l].file
                              /\ change[k].act = "delete" /\ change[l].act = "create"

Clean(f) == Plain(tree[f]) = Plain(base[f])

\* A session in which a change failed leaves every file as it found it, up to
\* line ends, or names it: whichever write, backup or restore failed, however
\* often a file was changed and whatever became of the backups.
DirtIsNamed ==
    pc = "done" /\ failed /\ ~Remade => \A f \in File : Clean(f) \/ f \in residual

Own(f) == {k \in Index : change[k].file = f}

\* What the changes s make of the file f when each does what it says.
MadeBy(s, f) ==
    IF s = {} THEN base[f] ELSE IF change[Newest(s)].act = "delete" THEN Absent ELSE Text(Newest(s))

\* Success is never reported for less than the whole list.
SuccessMeansAll ==
    pc = "done" /\ result.success => ~rejected /\ tree = [f \in File |-> MadeBy(Own(f), f)]

\* At every instant, also in the middle of a roll-back and after a crash, the
\* original text of a file is in the tree or in a backup nobody spoilt, as
\* long as the session changes the file no more often than backups are kept.
OriginalKept ==
    \A f \in File :
        base[f] # Absent /\ Cardinality(Own(f)) <= Retention /\ Own(f) \cap spoilt = {} =>
            Clean(f) \/ \E k \in Own(f) \cap baks : saved[k] = Plain(base[f])

\* What a session tells of the tree is so: the three above.
SessionTellsAll == DirtIsNamed /\ SuccessMeansAll /\ OriginalKept

\* After a restart every write that was not confirmed is an orphan, unless the
\* ledger had failed for it and the session knew.
OrphansTellAll == pc = "booted" => wrote \ commits \subseteq orphans \cup ledgerErrors

\* ApplyResult's comment: residual_paths answers "what's left dirty".
ResidueIsWhatIsDirty ==
    pc = "done" /\ failed /\ result.attempted => \A f \in File : Clean(f) \/ f \in residual
=============================================================================
