------------------------------ MODULE Promotion ------------------------------
(***************************************************************************)
(* promote_patches (si_lanes/promote.py): operators' processes land        *)
(* reviewed patches in a live git tree that other processes edit, commit   *)
(* and promote into at the same time.  Nothing is locked: a scan for       *)
(* uncommitted work, a compare-and-swap of HEAD and of the targets around  *)
(* the verification, and approvals that count once stand between them.     *)
(*                                                                         *)
(* A content is a number, 0 for no file; every edit and every request has  *)
(* a number of its own.  The scan is one step: an edit it may have missed  *)
(* counts as one made after it.  The write applies the batch file by file  *)
(* and undoes it as apply_session does (AutoApply has the detail).         *)
(*                                                                         *)
(* Left out: malformed batches, baseline failures, the index of git, a     *)
(* HEAD that moves back to an earlier commit, and dry runs.                *)
(***************************************************************************)
EXTENDS Integers, FiniteSetsExt

CONSTANTS
    Proc,         \* processes that promote
    File,         \* code files
    Nonce,        \* approvals an operator gave
    NoNonce,      \* a request without one
    MaxText,      \* bound on edits and requests
    MaxCommits,   \* bound on commits
    MaxFaults     \* bound on crashes and failed writes

Absent == 0
Original == 1
Content == Absent..MaxText

ASSUME PromotionAssumption ==
    NoNonce \notin Nonce /\ MaxText \in Nat \ {0} /\ {MaxCommits, MaxFaults} \subseteq Nat

VARIABLES
    tree,      \* the working tree
    head,      \* the tree of HEAD
    commits,   \* the commit HEAD is at
    bound,     \* approvals in the nonce ledger
    pc,        \* where each process is
    req,       \* its request
    carried,   \* uncommitted files it took into the verification
    cas,       \* what it captured before the verification
    tested,    \* the tree that was verified
    todo,      \* targets still to be written
    saved,     \* backups of its session
    failed,    \* a target could not be written
    text,      \* the last number given
    faults,
    grants,    \* requests each approval admitted (history)
    raced,     \* targets others wrote while it could not see it (history)
    verdictOn  \* the tree of HEAD its verification started from (history)

git == <<tree, head, commits>>
session == <<todo, saved, failed>>
verification == <<carried, cas, tested, verdictOn>>
vars == <<git, bound, pc, req, verification, session, text, faults, grants, raced>>

Tree == [File -> Content]
None == [f \in {} |-> Absent]
NoRequest == [targets |-> {}, text |-> Absent, nonce |-> NoNonce, carry |-> FALSE]

\* What a promotion holds.
HoldingsOK(p) ==
    /\ {tested[p], verdictOn[p]} \subseteq Tree
    /\ DOMAIN carried[p] \subseteq File \ req[p].targets
    /\ carried[p] \in [DOMAIN carried[p] -> Content]
    /\ cas[p].commit \in 0..MaxCommits /\ DOMAIN cas[p].pre \subseteq req[p].targets
    /\ raced[p] \cup todo[p] \subseteq req[p].targets
    /\ DOMAIN saved[p] \subseteq req[p].targets \ todo[p]
    /\ saved[p] \in [DOMAIN saved[p] -> Content]

TypeOK ==
    /\ {tree, head} \subseteq Tree /\ commits \in 0..MaxCommits
    /\ bound \subseteq Nonce
    /\ pc \in [Proc -> {"idle", "bind", "scan", "carry", "capture", "verify", "recheck",
                        "write", "promoted", "refused"}]
    /\ req \in [Proc -> [targets : SUBSET File, text : Content, nonce : Nonce \cup {NoNonce},
                         carry : BOOLEAN]]
    /\ DOMAIN carried = Proc /\ DOMAIN cas = Proc /\ DOMAIN tested = Proc
    /\ DOMAIN verdictOn = Proc /\ DOMAIN todo = Proc /\ DOMAIN saved = Proc /\ DOMAIN raced = Proc
    /\ \A p \in Proc : HoldingsOK(p)
    /\ failed \in [Proc -> BOOLEAN]
    /\ text \in Content /\ faults \in 0..MaxFaults
    /\ grants \in [Nonce -> Nat]

Init ==
    /\ tree \in [File -> {Absent, Original}] /\ head = tree /\ commits = 0
    /\ bound = {}
    /\ pc = [p \in Proc |-> "idle"] /\ req = [p \in Proc |-> NoRequest]
    /\ carried = [p \in Proc |-> None]
    /\ cas = [p \in Proc |-> [commit |-> 0, pre |-> None]]
    /\ tested = [p \in Proc |-> tree] /\ verdictOn = [p \in Proc |-> tree]
    /\ todo = [p \in Proc |-> {}] /\ saved = [p \in Proc |-> None]
    /\ failed = [p \in Proc |-> FALSE]
    /\ text = Original /\ faults = 0
    /\ grants = [n \in Nonce |-> 0] /\ raced = [p \in Proc |-> {}]

----------------------------------------------------------------------------
Goto(p, from, to) == pc[p] = from /\ pc' = [pc EXCEPT ![p] = to]
Dirty == {f \in File : tree[f] # head[f]}
Fault == faults < MaxFaults /\ faults' = faults + 1

\* While it scans and captures, and from its last look to its last write, a
\* process cannot see what others do to its targets.
Blind == {"carry", "capture", "write"}
Races(p, f) ==
    raced' = [q \in Proc |-> IF q # p /\ pc[q] \in Blind THEN raced[q] \cup ({f} \cap req[q].targets)
                             ELSE raced[q]]

\* An approved batch: the file gates passed.
Request(p) ==
    /\ pc[p] \in {"idle", "promoted", "refused"} /\ pc' = [pc EXCEPT ![p] = "bind"]
    /\ text < MaxText /\ text' = text + 1
    /\ \E targets \in (SUBSET File) \ {{}}, nonce \in Nonce \cup {NoNonce}, carry \in BOOLEAN :
           req' = [req EXCEPT ![p] = [targets |-> targets, text |-> text + 1,
                                      nonce |-> nonce, carry |-> carry]]
    /\ carried' = [carried EXCEPT ![p] = None]
    /\ cas' = [cas EXCEPT ![p] = [commit |-> 0, pre |-> None]]
    /\ todo' = [todo EXCEPT ![p] = {}] /\ saved' = [saved EXCEPT ![p] = None]
    /\ failed' = [failed EXCEPT ![p] = FALSE] /\ raced' = [raced EXCEPT ![p] = {}]
    /\ UNCHANGED <<git, bound, tested, verdictOn, faults, grants>>

\* _check_and_bind_nonce: creating the approval's file exclusively is both the
\* question and the answer; it stays used whatever becomes of the request.
Bind(p) ==
    /\ \/ req[p].nonce \notin bound
          /\ Goto(p, "bind", "scan")
          /\ bound' = bound \cup ({req[p].nonce} \cap Nonce)
          /\ grants' = [n \in Nonce |-> IF n = req[p].nonce THEN grants[n] + 1 ELSE grants[n]]
       \/ req[p].nonce \in bound
          /\ Goto(p, "bind", "refused") /\ UNCHANGED <<bound, grants>>
    /\ UNCHANGED <<git, req, verification, session, text, faults, raced>>

\* Mutant: uncommitted work on a target is carried like any other.
Acceptable_Carry(p) == Dirty = {} \/ req[p].carry

\* Uncommitted work on a target is never acceptable; elsewhere it is carried
\* if the caller asked for it.
Acceptable(p) ==
    Dirty \cap req[p].targets = {} /\ (Dirty = {} \/ req[p].carry)

Scan(p) ==
    /\ IF Acceptable(p)
       THEN /\ Goto(p, "scan", "carry")
            /\ carried' = [carried EXCEPT ![p] = Restrict(tree, Dirty \ req[p].targets)]
       ELSE Goto(p, "scan", "refused") /\ UNCHANGED carried
    /\ UNCHANGED <<git, bound, req, cas, tested, verdictOn, session, text, faults, grants, raced>>

\* _read_regular_uncommitted: the files are read after the scan.
Carry(p) ==
    /\ IF \A f \in DOMAIN carried[p] : tree[f] # Absent
       THEN /\ Goto(p, "carry", "capture")
            /\ carried' = [carried EXCEPT ![p] = Restrict(tree, DOMAIN carried[p])]
       ELSE Goto(p, "carry", "refused") /\ UNCHANGED carried
    /\ UNCHANGED <<git, bound, req, cas, tested, verdictOn, session, text, faults, grants, raced>>

Capture(p) ==
    /\ Goto(p, "capture", "verify")
    /\ cas' = [cas EXCEPT ![p] = [commit |-> commits, pre |-> Restrict(tree, req[p].targets)]]
    /\ UNCHANGED <<git, bound, req, carried, tested, verdictOn, session, text, faults, grants, raced>>

\* The verification: HEAD, the carried files and the patches in a tree of
\* their own.  Its outcome is anybody's guess.
Verify(p) ==
    /\ \/ /\ Goto(p, "verify", "recheck")
          /\ verdictOn' = [verdictOn EXCEPT ![p] = head]
          /\ tested' = [tested EXCEPT ![p] =
                 [f \in File |-> IF f \in req[p].targets THEN req[p].text
                                 ELSE IF f \in DOMAIN carried[p] THEN carried[p][f] ELSE head[f]]]
       \/ Goto(p, "verify", "refused") /\ UNCHANGED <<verdictOn, tested>>
    /\ UNCHANGED <<git, bound, req, carried, cas, session, text, faults, grants, raced>>

\* Mutant: only HEAD is compared.
Unmoved_HeadOnly(p) == cas[p].commit = commits

Unmoved(p) == cas[p].commit = commits /\ cas[p].pre = Restrict(tree, req[p].targets)

Recheck(p) ==
    /\ IF Unmoved(p)
       THEN Goto(p, "recheck", "write") /\ todo' = [todo EXCEPT ![p] = req[p].targets]
       ELSE Goto(p, "recheck", "refused") /\ UNCHANGED todo
    /\ UNCHANGED <<git, bound, req, verification, saved, failed, text, faults, grants, raced>>

----------------------------------------------------------------------------
\* The write (apply_session)

\* Created or edited, by what the file was at the last look.
AsClassified(p, f) == (cas[p].pre[f] = Absent) = (tree[f] = Absent)

Rest(p, f) == todo[p] \ {f}

\* One target: backed up and replaced; or not, and the others are tried still.
Write(p) ==
    /\ pc[p] = "write"
    /\ \E f \in todo[p] :
           /\ todo' = [todo EXCEPT ![p] = Rest(p, f)]
           /\ \/ /\ AsClassified(p, f)
                 /\ tree' = [tree EXCEPT ![f] = req[p].text]
                 /\ saved' = [saved EXCEPT ![p] = [g \in DOMAIN @ \cup {f} |->
                                  IF g = f THEN tree[f] ELSE @[g]]]
                 /\ Races(p, f)
                 /\ UNCHANGED <<failed, faults>>
              \/ /\ ~AsClassified(p, f) /\ UNCHANGED faults
                 /\ failed' = [failed EXCEPT ![p] = TRUE] /\ UNCHANGED <<tree, saved, raced>>
              \/ /\ Fault
                 /\ failed' = [failed EXCEPT ![p] = TRUE] /\ UNCHANGED <<tree, saved, raced>>
    /\ UNCHANGED <<head, commits, bound, pc, req, verification, text, grants>>

\* One backup replayed, or one new file taken away.
Undo(p) ==
    /\ pc[p] = "write" /\ todo[p] = {} /\ failed[p]
    /\ \E f \in DOMAIN saved[p] :
           /\ tree' = [tree EXCEPT ![f] = saved[p][f]]
           /\ saved' = [saved EXCEPT ![p] = Restrict(@, DOMAIN @ \ {f})]
           /\ Races(p, f)
    /\ UNCHANGED <<head, commits, bound, pc, req, verification, todo, failed, text, faults, grants>>

Finish(p) ==
    /\ todo[p] = {}
    /\ \/ ~failed[p] /\ Goto(p, "write", "promoted")
       \/ failed[p] /\ saved[p] = None /\ Goto(p, "write", "refused")
    /\ UNCHANGED <<git, bound, req, verification, session, text, faults, grants, raced>>

----------------------------------------------------------------------------
\* The others

Crash(p) ==
    /\ pc[p] \notin {"idle", "promoted", "refused"} /\ pc' = [pc EXCEPT ![p] = "idle"]
    /\ Fault
    /\ UNCHANGED <<git, bound, req, verification, session, text, grants, raced>>

\* An editor, a formatter, a checkout: one file written or deleted.
Edit ==
    /\ text < MaxText /\ text' = text + 1
    /\ \E f \in File, c \in {Absent, text + 1} :
           /\ tree' = [tree EXCEPT ![f] = c]
           /\ raced' = [q \in Proc |-> IF pc[q] \in Blind
                                       THEN raced[q] \cup ({f} \cap req[q].targets) ELSE raced[q]]
    /\ UNCHANGED <<head, commits, bound, pc, req, verification, session, faults, grants>>

\* Somebody commits everything.
CommitAll ==
    /\ Dirty # {} /\ commits < MaxCommits
    /\ head' = tree /\ commits' = commits + 1
    /\ UNCHANGED <<tree, bound, pc, req, verification, session, text, faults, grants, raced>>

Promote(p) ==
    \/ Request(p) \/ Bind(p) \/ Scan(p) \/ Carry(p) \/ Capture(p) \/ Verify(p)
    \/ Recheck(p) \/ Write(p) \/ Undo(p) \/ Finish(p)

Next == Edit \/ CommitAll \/ \E p \in Proc : Promote(p) \/ Crash(p)

Spec == Init /\ [][Next]_vars

----------------------------------------------------------------------------
\* Properties

\* One approval admits one request, however many race for it, whatever
\* happens to the first.
ApprovalCountsOnce == \A n \in Nonce : grants[n] <= 1

\* What a promotion is about to replace is what the verified HEAD had there,
\* through edits, commits and other promotions since, unless somebody wrote
\* the target in one of the two windows the compare-and-swap leaves open.
ReplacesWhatWasTested ==
    \A p \in Proc : pc[p] = "write" =>
        \A f \in todo[p] \ raced[p] : tree[f] = verdictOn[p][f]

\* Uncommitted work of an editor or of another promotion is overwritten or
\* rolled over only if it was done in one of those two windows.
OverwritesNobodysWork ==
    [][\A p \in Proc : (Write(p) \/ Undo(p)) => \A f \in File :
           tree'[f] # tree[f] => tree[f] \in {head[f], req[p].text} \/ f \in raced[p]]_vars

\* A promotion is of the tree that was tested, for an approval of its own.
PromotesWhatWasApproved == ReplacesWhatWasTested /\ ApprovalCountsOnce

=============================================================================
