----------------------------- MODULE RepoSnapshot -----------------------------
(***************************************************************************)
(* The snapshot of a repository that a card works on                       *)
(* (runtime/workspace_snapshot.py): the files of the work tree are copied  *)
(* one by one while somebody may edit the source, then committed as a      *)
(* repository of its own. The destination may hold what an earlier         *)
(* snapshot or its worker left there.                                      *)
(***************************************************************************)
EXTENDS Integers, FiniteSets

CONSTANTS RepoFile,
          Secretlike,    \* the files whose name looks like a credential
          Excludes,      \* the declarations snapshot_exclude to try
          MaxVersion,    \* versions of a file
          MaxEdits,      \* edits of source and destination in a behaviour
          MaxSnapshots

ASSUME SnapshotAssumption ==
    /\ IsFiniteSet(RepoFile) /\ Secretlike \subseteq RepoFile /\ Excludes \subseteq SUBSET RepoFile
    /\ MaxVersion \in Nat \ {0} /\ MaxEdits \in Nat /\ MaxSnapshots \in Nat

\* A file of the source: its version, 0 if there is none, whether a link
\* stands in its place, whether git tracks it.
VARIABLES source,   \* source[f] = [version, link, tracked]
          head,     \* head[f], the version in the last commit of the source
          dest,     \* dest[f], the version at the destination, 0 if none
          git,      \* .git of the destination: [there, wipeable, tree, commits]
          snap,     \* the snapshot under way
          report,   \* what the last one returned
          edits, taken

snapVars == <<source, head, dest, git, snap, report, edits, taken>>

NoReport == [there |-> FALSE, init |-> "ok", copied |-> {}, dirty |-> 0, reset |-> FALSE,
             verifiedTree |-> FALSE, verifiedHead |-> FALSE, exclude |-> {}]
IdleSnap == [pc |-> "idle", exclude |-> {}, todo |-> {}, copied |-> {}, dirty |-> 0,
             moved |-> FALSE, atHead |-> [f \in RepoFile |-> 0]]

SnapInit ==
    /\ \E present \in SUBSET RepoFile :
        /\ Cardinality(RepoFile \ present) <= 1
        /\ source = [f \in RepoFile |-> [version |-> IF f \in present THEN 1 ELSE 0,
                                    link |-> FALSE, tracked |-> f \in present]]
        /\ head = [f \in RepoFile |-> IF f \in present THEN 1 ELSE 0]
    /\ dest = [f \in RepoFile |-> 0]
    /\ git = [there |-> FALSE, wipeable |-> TRUE, tree |-> {}, commits |-> 0]
    /\ snap = IdleSnap
    /\ report = NoReport
    /\ edits = 0
    /\ taken = 0

(***************************************************************************)
(* The source and the work at the destination                              *)
(***************************************************************************)
InTree(f) == source[f].version > 0 /\ ~source[f].link
_DirtyTracked == {f \in RepoFile : source[f].tracked /\ source[f].version # head[f]}
\* git status --porcelain: the files that differ from the last commit.
DirtyFiles == {f \in RepoFile : source[f].version # head[f] \/ source[f].link}

\* A snapshot that is under way sees the source change under it.
Moved == snap' = [snap EXCEPT !.moved = @ \/ snap.pc # "idle"]

\* Somebody writes, deletes, links or adds a file, or commits the work tree.
EditSource ==
    /\ edits < MaxEdits
    /\ \/ \E f \in RepoFile : \E v \in 0..MaxVersion, link \in BOOLEAN :
            /\ link => v > 0
            /\ source' = [source EXCEPT ![f] = [version |-> v, link |-> link, tracked |-> @.tracked]]
            /\ source' # source
            /\ UNCHANGED head
       \/ /\ DirtyFiles # {}
          /\ head' = [f \in RepoFile |-> source[f].version]
          /\ source' = [f \in RepoFile |->
                 [source[f] EXCEPT !.tracked = source[f].version > 0]]
    /\ Moved
    /\ edits' = edits + 1
    /\ UNCHANGED <<dest, git, report, taken>>

\* Between two snapshots a worker leaves files and commits at the destination,
\* and a .git that cannot be removed.
WorkAtDest ==
    /\ snap.pc = "idle" /\ report.there /\ edits < MaxEdits
    /\ \/ \E f \in RepoFile : dest' = [dest EXCEPT ![f] = MaxVersion + 1] /\ UNCHANGED git
       \/ git.there /\ git' = [git EXCEPT !.commits = @ + 1, !.tree = {f \in RepoFile : dest[f] > 0}]
                    /\ UNCHANGED dest
       \/ git.there /\ git' = [git EXCEPT !.wipeable = ~@] /\ UNCHANGED dest
    /\ report' = NoReport
    /\ edits' = edits + 1
    /\ UNCHANGED <<source, head, snap, taken>>

(***************************************************************************)
(* snapshot_repo                                                           *)
(***************************************************************************)
\* The snapshot is refused: what has been copied stays where it is.
Refuse == snap' = IdleSnap /\ report' = NoReport

\* _tracked_files lists what git tracks and what it does not ignore; a card
\* may declare files that are to be left out. git may not work.
Begin ==
    /\ snap.pc = "idle" /\ taken < MaxSnapshots
    /\ \E exclude \in Excludes :
        \/ /\ snap' = [IdleSnap EXCEPT !.pc = "copying", !.exclude = exclude,
                           !.todo = {f \in RepoFile : source[f].tracked \/ source[f].version > 0}]
           /\ report' = NoReport
        \/ Refuse
    /\ taken' = taken + 1
    /\ UNCHANGED <<source, head, dest, git, edits>>

\* _snapshot_skip_reason, then the exclusion, then the copy, which fails when
\* the file goes away under it.
CopyOne ==
    /\ snap.pc = "copying"
    /\ \E f \in snap.todo :
        LET skipped == f \in Secretlike \/ ~InTree(f) \/ f \in snap.exclude IN
        \/ /\ skipped
           /\ snap' = [snap EXCEPT !.todo = @ \ {f}]
           /\ UNCHANGED <<dest, report>>
        \/ /\ ~skipped
           /\ dest' = [dest EXCEPT ![f] = source[f].version]
           /\ snap' = [snap EXCEPT !.todo = @ \ {f}, !.copied = @ \cup {f}]
           /\ UNCHANGED report
        \/ ~skipped /\ Refuse /\ UNCHANGED dest
    /\ UNCHANGED <<source, head, git, edits, taken>>

\* _verify_excludes_absent: what an earlier snapshot left counts as well.
VerifyTree ==
    /\ snap.pc = "copying" /\ snap.todo = {}
    /\ IF \E f \in snap.exclude : dest[f] > 0
       THEN Refuse
       ELSE snap' = [snap EXCEPT !.pc = "identity"] /\ UNCHANGED report
    /\ UNCHANGED <<source, head, dest, git, edits, taken>>

\* HEAD and status of the source as they are after the copy.
Identify ==
    /\ snap.pc = "identity"
    /\ snap' = [snap EXCEPT !.pc = "commit", !.dirty = Cardinality(DirtyFiles), !.atHead = head]
    /\ UNCHANGED <<source, head, dest, git, report, edits, taken>>

Return(init, tree) ==
    /\ report' = [there |-> TRUE, init |-> init, copied |-> snap.copied, dirty |-> snap.dirty,
                  reset |-> git.there, exclude |-> snap.exclude,
                  verifiedTree |-> snap.exclude # {},
                  verifiedHead |-> init = "ok" /\ snap.exclude # {}
                                   /\ tree \cap snap.exclude = {}]
    /\ snap' = [IdleSnap EXCEPT !.moved = snap.moved, !.atHead = snap.atHead]

\* _init_snapshot_repo: an old history goes first, and a snapshot over one that
\* does not go is refused. Then one commit of the copied files, which is no
\* good when anything else lies at the destination.
CommitSnapshot ==
    /\ snap.pc = "commit"
    /\ \/ /\ git.there /\ ~git.wipeable
          /\ Refuse
          /\ UNCHANGED git
       \/ /\ ~git.there \/ git.wipeable
          /\ \/ /\ git' = [there |-> TRUE, wipeable |-> TRUE, tree |-> {}, commits |-> 0]
                /\ Return("failed", {})
             \/ /\ git' = [there |-> TRUE, wipeable |-> TRUE, tree |-> snap.copied,
                           commits |-> IF snap.copied = {} THEN 0 ELSE 1]
                /\ IF snap.copied = {}
                   THEN Return("failed", {})
                   ELSE Return(IF \E f \in RepoFile \ snap.copied : dest[f] > 0
                               THEN "mismatch" ELSE "ok", snap.copied)
    /\ UNCHANGED <<source, head, dest, edits, taken>>

SnapNext == EditSource \/ WorkAtDest \/ Begin \/ CopyOne \/ VerifyTree \/ Identify \/ CommitSnapshot

(***************************************************************************)
(* Properties                                                              *)
(***************************************************************************)
\* A snapshot that reports "ok" is one commit of exactly the files that lie at
\* the destination, with nothing that was declared out and nothing that looks
\* like a credential, whatever an earlier snapshot, its worker or a failed
\* attempt had left there (snapshot_repo, _verify_excludes_absent,
\* _init_snapshot_repo).
OneCommitOfAll ==
    report.there /\ report.init = "ok" =>
        /\ git.commits = 1
        /\ git.tree = {f \in RepoFile : dest[f] > 0}
        /\ git.tree \cap (Secretlike \cup report.exclude) = {}
        /\ report.verifiedHead = (report.exclude # {})

\* A snapshot that reports a clean source holds the files of the commit that
\* it names, unless the source was touched while it was taken
\* (snapshot_repo: head, dirty).
CleanSnapshotIsTheCommit ==
    report.there /\ report.init = "ok" /\ report.dirty = 0 /\ ~snap.moved =>
        \A f \in report.copied : dest[f] = snap.atHead[f]

\* The two together: what a card gets is what the report says that it got
\* (snapshot_repo).
SnapshotIsWhole == OneCommitOfAll /\ CleanSnapshotIsTheCommit
===============================================================================
