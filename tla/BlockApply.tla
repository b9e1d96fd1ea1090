------------------------------ MODULE BlockApply ------------------------------
(***************************************************************************)
(* Managed blocks in one file (enforcement/safe_auto_apply.py, apply_block *)
(* and revert_last): processes put marked blocks into it and take the last *)
(* change back from a backup, while others edit the file, other processes  *)
(* back it up as well and backups are rewritten or pruned.                 *)
(***************************************************************************)
EXTENDS Integers, Sequences, SequencesExt

CONSTANTS Applier,
          Pid,             \* proposals, each with a block of its own
          BakRetention,    \* backups that are kept of a file
          MaxBlockWrites,       \* max_writes_per_cycle
          MaxApplies, MaxOutside

ASSUME BlockAssumption ==
    {BakRetention, MaxBlockWrites, MaxApplies, MaxOutside} \subseteq Nat /\ BakRetention > 0

\* A file: is it there, the version of the text outside the blocks (0 if there
\* is none), the version of each block (0 if it is not in it), whether a start
\* marker lacks its end.
Gone == [there |-> FALSE, text |-> 0, block |-> [p \in Pid |-> 0], broken |-> FALSE]
Empty == [Gone EXCEPT !.there = TRUE]

VARIABLES file,
          backupsOf,     \* the backups, oldest first: [content, by, generation, altered]
          applier,  \* applier[a], a process and the call it is in
          applies, outside,
          blockGhost \* blockGhost[a]: what a backed up last, and after which of its
                     \* reverts; see Revert

blockVars == <<file, backupsOf, applier, applies, outside, blockGhost>>

NewApplier(generation) ==
    [pc |-> "idle", generation |-> generation, pid |-> CHOOSE p \in Pid : TRUE,
     seen |-> Gone, writes |-> 0]
NoRevert == [taken |-> Gone, foreign |-> FALSE, reverted |-> FALSE, to |-> Gone, over |-> FALSE]

BlockInit ==
    /\ file \in {Gone, Empty, [Empty EXCEPT !.text = 1]}
    /\ backupsOf = <<>>
    /\ applier = [a \in Applier |-> NewApplier(0)]
    /\ applies = 0
    /\ outside = 0
    /\ blockGhost = [a \in Applier |-> NoRevert]

Settled(a) == [applier[a] EXCEPT !.pc = "idle", !.seen = Gone]

(***************************************************************************)
(* apply_block                                                             *)
(***************************************************************************)
\* Refused beyond the limit of writes and where a block has no end; the file
\* is read once.
ReadTarget(a) ==
    /\ applier[a].pc = "idle" /\ applies < MaxApplies
    /\ applier[a].writes < MaxBlockWrites /\ ~file.broken
    /\ \E pid \in Pid :
        applier' = [applier EXCEPT ![a].pc = "backup", ![a].pid = pid, ![a].seen = file]
    /\ applies' = applies + 1
    /\ blockGhost' = [blockGhost EXCEPT ![a].reverted = FALSE]
    /\ UNCHANGED <<file, backupsOf, outside>>

\* What was read is backed up if there is a file by now. The backup is
\* compared with the hash of what was read, and that of nothing is no hash: an
\* empty file does not pass. The file's backup may also not be written.
BackUp(a) ==
    /\ applier[a].pc = "backup"
    /\ LET seen == applier[a].seen  refused == applier' = [applier EXCEPT ![a] = Settled(a)] IN
       \/ ~file.there /\ applier' = [applier EXCEPT ![a].pc = "write"] /\ UNCHANGED <<backupsOf, blockGhost>>
       \/ /\ file.there
          /\ \/ refused /\ UNCHANGED <<backupsOf, blockGhost>>
             \/ /\ [seen EXCEPT !.there = TRUE] # Empty
                /\ backupsOf' = Append(backupsOf, [content |-> seen, by |-> a, altered |-> FALSE,
                                         generation |-> applier[a].generation])
                /\ applier' = [applier EXCEPT ![a].pc = "write"]
                /\ blockGhost' = [b \in Applier |->
                       IF b = a THEN [NoRevert EXCEPT !.taken = seen]
                       ELSE [blockGhost[b] EXCEPT !.foreign = TRUE]]
    /\ UNCHANGED <<file, applies, outside>>

\* _prune_backups keeps the newest.
PrunedBackups(s) == SubSeq(s, IF Len(s) > BakRetention THEN Len(s) - BakRetention + 1 ELSE 1, Len(s))

\* The block is replaced where it stands or put at the end of what was read.
WriteBlock(a) ==
    /\ applier[a].pc = "write"
    /\ \/ /\ LET pid == applier[a].pid IN
             file' = [applier[a].seen EXCEPT !.there = TRUE, !.block[pid] = applies]
          /\ backupsOf' = IF file.there THEN PrunedBackups(backupsOf) ELSE backupsOf
          /\ applier' = [applier EXCEPT ![a] = [Settled(a) EXCEPT !.writes = @ + 1]]
       \/ applier' = [applier EXCEPT ![a] = Settled(a)] /\ UNCHANGED <<file, backupsOf>>
    /\ UNCHANGED <<applies, outside, blockGhost>>

(***************************************************************************)
(* revert_last                                                             *)
(***************************************************************************)
\* Mutant: the oldest backup of the file.
_NewestFirst == Head(backupsOf)

\* The newest backup must be one that this process took, have the hash it had
\* then, and not be empty; a backup stays after it was used.
NewestBackup == Last(backupsOf)

Revert(a) ==
    /\ applier[a].pc = "idle" /\ backupsOf # <<>> /\ applies < MaxApplies
    /\ LET bak == NewestBackup IN
       /\ bak.by = a /\ bak.generation = applier[a].generation /\ ~bak.altered
       /\ file' = [bak.content EXCEPT !.there = TRUE]
       /\ blockGhost' = [blockGhost EXCEPT ![a].reverted = TRUE, ![a].to = bak.content,
                                               ![a].over = blockGhost[a].foreign]
    /\ applies' = applies + 1
    /\ UNCHANGED <<backupsOf, applier, outside>>

(***************************************************************************)
(* Others                                                                  *)
(***************************************************************************)
\* The process dies; its successor knows none of the backups.
DieApplier(a) ==
    /\ outside < MaxOutside
    /\ applier' = [applier EXCEPT ![a] = NewApplier(@.generation + 1)]
    /\ blockGhost' = [blockGhost EXCEPT ![a] = NoRevert]
    /\ outside' = outside + 1
    /\ UNCHANGED <<file, backupsOf, applies>>

\* Somebody edits the text, damages a marker, removes the file or rewrites or
\* removes a backup.
Meddle ==
    /\ outside < MaxOutside
    /\ \/ file' = [file EXCEPT !.there = TRUE, !.text = outside + 2] /\ UNCHANGED backupsOf
       \/ file.there /\ file' = [file EXCEPT !.broken = TRUE] /\ UNCHANGED backupsOf
       \/ file.there /\ file' = Gone /\ UNCHANGED backupsOf
       \/ \E i \in DOMAIN backupsOf :
            /\ backupsOf' = [backupsOf EXCEPT ![i].altered = TRUE, ![i].content = Empty]
            /\ UNCHANGED file
       \/ \E i \in DOMAIN backupsOf : backupsOf' = RemoveAt(backupsOf, i) /\ UNCHANGED file
    /\ outside' = outside + 1
    /\ UNCHANGED <<applier, applies, blockGhost>>

BlockNext ==
    \/ \E a \in Applier : ReadTarget(a) \/ BackUp(a) \/ WriteBlock(a) \/ Revert(a) \/ DieApplier(a)
    \/ Meddle

(***************************************************************************)
(* Properties                                                              *)
(***************************************************************************)
\* A revert takes back the last change of the process that asks for it: the
\* file gets what that process backed up last, never an older, another's or a
\* rewritten backup, and never over a backup that another process has taken
\* since. (revert_last, _prune_backups; a backup that somebody removed, or
\* that the process took before a removed one, is where it may go further
\* back.)
RevertTakesBackItsOwn ==
    \A a \in Applier :
        blockGhost[a].reverted /\ outside = 0 =>
            blockGhost[a].to = blockGhost[a].taken /\ ~blockGhost[a].over
===============================================================================
