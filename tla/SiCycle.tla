------------------------------- MODULE SiCycle -------------------------------
(***************************************************************************)
(* One self-improvement cycle after another (run_one_si_cycle): lanes      *)
(* propose changes and commands, the verify gate tries ranked candidates,  *)
(* the apply ladder reviews, writes and executes, and four ledgers record  *)
(* it: proposal archive, apply chain, cycle log, continuation ring.        *)
(*                                                                         *)
(* A change or a command is named by where it comes from: a pod's block,   *)
(* the base lanes, or a ranked candidate of the objective editor.          *)
(***************************************************************************)
EXTENDS Integers

CONSTANTS MaxRank,      \* candidates the editor ranks
          MaxSiFaults,    \* exceptions and crashes
          Objective,    \* objectives a cycle may be given
          NoGoal,       \* no durable goal
          Switches      \* the combinations of switches the run starts with

ASSUME BoundsAssumption == MaxRank \in Nat /\ MaxSiFaults \in Nat
ASSUME GoalAssumption == NoGoal \notin Objective

Pod == -1
Base == 0
Rank == 1..MaxRank
Source == {Pod, Base} \cup Rank
NoRank == -2
NoVerdict == [full |-> FALSE, accepted |-> {}]
SiStatus == {"consensus", "split", "blocked", "advisory_stub"}
Replan == 3             \* FORCE_REPLAN_THRESHOLD

(***************************************************************************)
(* The switches: the verify gate, the execution authority, the operator's  *)
(* write gate, the armed command seam, re-loading of the ring.             *)
(***************************************************************************)
Switch == [gate : BOOLEAN, authority : BOOLEAN, write : BOOLEAN,
           armed : BOOLEAN, rehydrate : BOOLEAN]

ASSUME SwitchAssumption == Switches \subseteq Switch

VARIABLES
    sw,         \* the switches
    stage,         \* where the cycle is
    c,          \* its local variables and the cycle's history
    confs,      \* confirmation of each verified batch
    archive,    \* what the archive holds of this cycle: the batch, and whose verdict
    chain,      \* rows of this cycle in apply_chain.jsonl
    log,        \* trail of the cycles in cycle_log.jsonl
    ring,       \* trail of the ring in memory
    disk,       \* trail of the ring's sidecar
    lost,       \* an entry since the last other status never reached the sidecar
    goal,       \* the durable goal
    siFaults

siVars == <<sw, stage, c, confs, archive, chain, log, ring, disk, lost, goal, siFaults>>
ledgers == <<log, ring, disk, lost>>

Places == {"idle", "goal", "propose", "edit", "verify", "discard", "judge", "archive",
           "commands", "review", "write", "execute", "products", "confirm", "chain",
           "rollback", "command", "log", "ring", "done"}

\* Of the cycle's records: what it proposes, what the gate is trying and has
\* decided, what the ladder did. `trusted` is the batch that earned a trusted
\* green verdict, `torn` that the cycle did not run to its end undisturbed.
NewCycle == [status |-> "blocked", replan |-> FALSE,
          changes |-> {}, commands |-> {}, pods |-> [changes |-> {}, commands |-> {}],
          ranked |-> 0, at |-> 0, verdict |-> NoVerdict, held |-> NoRank, trusted |-> NoRank,
          verified |-> FALSE, errored |-> FALSE, archived |-> {}, judged |-> NoRank,
          approved |-> {}, pass |-> TRUE, landed |-> {}, reverted |-> FALSE,
          ran |-> {}, product |-> FALSE, torn |-> FALSE]

NoConfirmation == [b \in {Base} \cup Rank |-> "none"]
NoArchive == [batch |-> {}, judged |-> NoRank, accepted |-> {}]

SiInit ==
    /\ sw \in Switches
    /\ stage = "idle"
    /\ c = NewCycle
    /\ confs = NoConfirmation /\ archive = NoArchive /\ chain = {}
    /\ log = 0 /\ ring = 0 /\ disk = 0
    /\ lost = FALSE
    /\ goal = NoGoal
    /\ siFaults = 0

(***************************************************************************)
(* The continuation ring and the cycle policy. The policy reads how many   *)
(* of the newest entries are escalated, so a ring, its sidecar and the log *)
(* are known by that number, counted up to the threshold.                  *)
(***************************************************************************)
RingStatus(status, reverted) ==
    IF reverted THEN "escalated"
    ELSE CASE status = "consensus" -> "accepted"
           [] status = "blocked" -> "escalated"
           [] OTHER -> "continuation_pending"

Extend(trail, status) ==
    IF status # "escalated" THEN 0 ELSE IF trail < Replan THEN trail + 1 ELSE Replan

ForceReplan(trail) == trail >= Replan

(***************************************************************************)
(* The start of a cycle                                                    *)
(***************************************************************************)
\* A new process builds its ring from the sidecar, or starts an empty one.
NewProcess ==
    /\ stage = "idle"
    /\ ring' = IF sw.rehydrate THEN disk ELSE 0
    /\ UNCHANGED <<sw, stage, c, confs, archive, chain, log, disk, lost, goal, siFaults>>

\* What the votes of the two pods make of the cycle: a missing pod leaves a
\* stub; consensus needs the aligned axes and no diagnosis against it.
VoteStatus(inputs, aligned, diagnosis) ==
    CASE inputs = "none" -> "advisory_stub"
      [] inputs = "one" -> "blocked"
      [] inputs = "both" /\ aligned >= 5 /\ diagnosis -> "consensus"
      [] inputs = "both" /\ aligned >= 3 /\ ~(aligned >= 5 /\ diagnosis) -> "split"
      [] OTHER -> "blocked"

\* The policy is built from the ring and the pods vote. A pod's block may
\* carry changes and commands of its own.
Start ==
    /\ stage = "idle"
    /\ \E inputs \in {"none", "one", "both"}, aligned \in {2, 4, 6}, diagnosis \in BOOLEAN,
          changes, commands \in SUBSET {Pod} :
          /\ inputs # "both" => aligned = 2 /\ diagnosis
          /\ (changes \cup commands) # {} => inputs # "none"
          /\ c' = [NewCycle EXCEPT !.status = VoteStatus(inputs, aligned, diagnosis),
                                !.replan = ForceReplan(ring),
                                !.pods = [changes |-> changes, commands |-> commands]]
    /\ stage' = "goal"
    /\ UNCHANGED <<sw, confs, archive, chain, ledgers, goal, siFaults>>

\* Mutant: a record that could not be read passes for an empty one.
_AdoptsUnread(readable) == goal = NoGoal \/ ~readable

\* The cycle's objective becomes the goal only over a record that was read and
\* is empty.
Adopts(readable) == goal = NoGoal /\ readable

\* The durable goal: an active one is re-injected, a complete one is not.
Reinject ==
    /\ stage = "goal"
    /\ \E readable \in BOOLEAN, objective \in Objective :
          /\ ~readable => siFaults < MaxSiFaults
          /\ siFaults' = siFaults + (IF readable THEN 0 ELSE 1)
          /\ goal' = IF Adopts(readable) THEN objective ELSE goal
    /\ stage' = "propose"
    /\ UNCHANGED <<sw, c, confs, archive, chain, ledgers>>

\* The operator declares the goal reached.
CompleteGoal ==
    /\ goal \in Objective /\ stage = "idle"
    /\ goal' = "complete"
    /\ UNCHANGED <<sw, stage, c, confs, archive, chain, ledgers, siFaults>>

(***************************************************************************)
(* The lanes                                                               *)
(***************************************************************************)
\* What one lane returns: nothing (no provider, over budget, an exception),
\* changes with or without commands, or commands alone.
LaneResult == [changes : SUBSET {Base}, commands : SUBSET {Base}]

\* The failure, model and objective lanes add to the same two lists.
Propose ==
    /\ stage = "propose"
    /\ \E r \in LaneResult :
          c' = [c EXCEPT !.changes = r.changes, !.commands = r.commands]
    /\ stage' = "edit"
    /\ UNCHANGED <<sw, confs, archive, chain, ledgers, goal, siFaults>>

\* The objective editor adds one more result, or, for an armed gate, hands over
\* ranked candidates; a malformed list is dropped whole. The archive is to
\* hold what was proposed: the candidate of the first rank, until told better.
EditLanes ==
    /\ stage = "edit"
    /\ \E r \in LaneResult, n \in 0..MaxRank :
          /\ n > 0 => sw.gate /\ r.changes = {} /\ r.commands = {}
          /\ LET changes == c.changes \cup r.changes IN
             /\ c' = [c EXCEPT !.changes = changes,
                               !.commands = @ \cup r.commands,
                               !.ranked = n, !.at = IF n > 0 THEN 1 ELSE Base,
                               !.archived = changes \cup (1..(IF n > 0 THEN 1 ELSE 0))]
             /\ stage' = IF sw.gate /\ (changes # {} \/ n > 0) THEN "verify" ELSE "archive"
    /\ UNCHANGED <<sw, confs, archive, chain, ledgers, goal, siFaults>>

(***************************************************************************)
(* The verify gate                                                         *)
(***************************************************************************)
Ordered == c.ranked > 0
Batch == c.changes \cup (IF Ordered THEN {c.at} ELSE {})

\* Any exception of the gate drops the changes; the commands are left to the
\* later check of `verified`.
GateError ==
    /\ siFaults < MaxSiFaults
    /\ siFaults' = siFaults + 1
    /\ c' = [c EXCEPT !.changes = {}, !.errored = TRUE, !.torn = TRUE]
    /\ stage' = "archive"

\* A candidate is green when it was run, passed, was certified and accepted in
\* part at least, and its confirmation is at hand.
Green(v, confirmed) == v.full /\ confirmed /\ v.accepted # {}

\* Mutant: the confirmation of a candidate that is passed over is forgotten.
_AfterVerdictNoDiscard(green, confirmed) ==
    IF ~Ordered \/ green THEN "judge"
    ELSE IF c.at < c.ranked THEN "verify" ELSE "judge"

\* The first green candidate ends the search, and so does the last one; the
\* confirmation of one that is not green is discarded first.
AfterVerdict(green, confirmed) ==
    IF ~Ordered \/ green THEN "judge"
    ELSE IF confirmed THEN "discard"
    ELSE IF c.at < c.ranked THEN "verify" ELSE "judge"

\* One call of verify_changes.
VerifyNext ==
    /\ stage = "verify"
    /\ \/ \E v \in [full : BOOLEAN, accepted : SUBSET Batch], confirmed \in BOOLEAN :
             LET green == Ordered /\ Green(v, confirmed)
                 next == AfterVerdict(green, confirmed)
             IN /\ confs' = [confs EXCEPT ![c.at] = IF confirmed THEN "open" ELSE @]
                /\ stage' = next
                /\ c' = [c EXCEPT !.verdict = v,
                                  !.held = IF confirmed /\ (green \/ ~Ordered) THEN c.at ELSE @,
                                  !.trusted = IF Green(v, confirmed) THEN c.at ELSE @,
                                  !.at = IF next = "verify" THEN @ + 1 ELSE @]
                /\ UNCHANGED siFaults
       \/ GateError /\ UNCHANGED confs
    /\ UNCHANGED <<sw, archive, chain, ledgers, goal>>

SettleConf(b, how) == [confs EXCEPT ![b] = IF @ = "open" THEN how ELSE "twice"]

Discard ==
    /\ stage = "discard"
    /\ \/ /\ confs' = SettleConf(c.at, "discarded")
          /\ stage' = IF c.at < c.ranked THEN "verify" ELSE "judge"
          /\ c' = [c EXCEPT !.at = IF c.at < c.ranked THEN @ + 1 ELSE @]
          /\ UNCHANGED siFaults
       \/ GateError /\ UNCHANGED confs
    /\ UNCHANGED <<sw, archive, chain, ledgers, goal>>

Selected == Ordered /\ c.held = c.at

\* When no ranked candidate was green nothing is kept.
KeptChanges == IF Ordered /\ ~Selected THEN {} ELSE c.verdict.accepted

\* What the archive is to hold: the batch that the kept verdict is about.
Archived == Batch

\* The last verdict decides: the accepted changes stay (none, when no candidate
\* was green), the archive gets the batch that was judged, the commands are
\* cleared for use or not. Recording the verdict comes last and may raise.
Judge ==
    /\ stage = "judge"
    /\ LET decided == [c EXCEPT !.changes = KeptChanges,
                                !.commands = @ \cup (IF Selected THEN {c.at} ELSE {}),
                                !.archived = Archived,
                                !.judged = c.at,
                                !.verified = c.verdict.full /\ (Selected \/ ~Ordered)]
       IN \/ /\ c' = decided
             /\ UNCHANGED siFaults
          \/ /\ siFaults < MaxSiFaults
             /\ siFaults' = siFaults + 1
             /\ c' = [decided EXCEPT !.changes = {}, !.errored = TRUE, !.torn = TRUE]
    /\ stage' = "archive"
    /\ UNCHANGED <<sw, confs, archive, chain, ledgers, goal>>

(***************************************************************************)
(* Between the gate and the ladder                                         *)
(***************************************************************************)
\* The archive writes one row for each proposed change, with the verdict's
\* disposition; whatever goes wrong is swallowed.
Archive ==
    /\ stage = "archive"
    /\ \/ /\ archive' = [batch |-> c.archived, judged |-> c.judged,
                         accepted |-> IF c.judged = NoRank THEN {}
                                      ELSE c.archived \cap c.verdict.accepted]
          /\ UNCHANGED siFaults
       \/ /\ siFaults < MaxSiFaults
          /\ siFaults' = siFaults + 1
          /\ UNCHANGED archive
    /\ stage' = "commands"
    /\ UNCHANGED <<sw, c, confs, chain, ledgers, goal>>

\* Behind an armed gate only commands of a verified run go on, and those that
\* do are the approved ones.
Commands ==
    /\ stage = "commands"
    /\ LET kept == IF sw.gate /\ ~c.verified THEN {} ELSE c.commands
       IN c' = [c EXCEPT !.commands = kept, !.approved = IF sw.gate THEN kept ELSE Source]
    /\ stage' = "review"
    /\ UNCHANGED <<sw, confs, archive, chain, ledgers, goal, siFaults>>

(***************************************************************************)
(* The apply ladder                                                        *)
(***************************************************************************)
\* The pods' own changes and commands ride along.
AllChanges == c.pods.changes \cup c.changes
AllCommands == c.pods.commands \cup c.commands

\* An exception that leaves run_one_si_cycle.
Abort ==
    /\ siFaults < MaxSiFaults
    /\ siFaults' = siFaults + 1
    /\ c' = [c EXCEPT !.torn = TRUE]
    /\ stage' = "done"

\* The review stage. A confirmation vouches for exactly what it confirmed;
\* without one the pre-commit gate runs. The cross-model review, and the sandbox
\* when it is fail-closed, may refuse as well. No changes, no review.
Review ==
    /\ stage = "review"
    /\ \/ \E ok \in BOOLEAN :
             /\ AllChanges = {} => ok
             /\ (AllChanges # {} /\ c.held # NoRank /\ AllChanges # c.verdict.accepted) => ~ok
             /\ c' = [c EXCEPT !.pass = ok]
             /\ stage' = "write"
             /\ UNCHANGED siFaults
       \/ Abort
    /\ UNCHANGED <<sw, confs, archive, chain, ledgers, goal>>

Authorized == c.status = "consensus" /\ c.pass

\* The session writes all changes, or fails and is rolled back, or never starts;
\* without the authority it is a dry run.
WriteLadder ==
    /\ stage = "write"
    /\ \/ /\ \E outcome \in {"landed", "reverted", "refused"} :
                /\ ~(Authorized /\ sw.write /\ AllChanges # {}) => outcome = "refused"
                /\ c' = [c EXCEPT !.landed = IF outcome = "landed" THEN AllChanges ELSE {},
                                  !.reverted = outcome = "reverted"]
          /\ stage' = "execute"
          /\ UNCHANGED siFaults
       \/ Abort
    /\ UNCHANGED <<sw, confs, archive, chain, ledgers, goal>>

\* Mutant: an authorized cycle runs any command that came along.
_MayRunUnapproved(k) == sw.armed /\ (sw.authority => Authorized)

\* The seam is armed, the cycle is authorized, the command is an approved one.
MayRun(k) == sw.armed /\ (sw.authority => Authorized /\ k \in c.approved)

\* Each command that the executor's policy allows runs if it may.
Execute ==
    /\ stage = "execute"
    /\ \/ /\ \E allowed \in SUBSET AllCommands :
                c' = [c EXCEPT !.ran = {k \in allowed : MayRun(k)}]
          /\ stage' = "products"
          /\ UNCHANGED siFaults
       \/ Abort
    /\ UNCHANGED <<sw, confs, archive, chain, ledgers, goal>>

\* A work product, if the lane returned one, has a session of its own behind the
\* operator's gate alone; what it wrote is run.
Products ==
    /\ stage = "products"
    /\ \/ /\ \E success \in BOOLEAN :
                /\ success => sw.write
                /\ c' = [c EXCEPT !.product = success]
          /\ stage' = IF c.held # NoRank THEN "confirm" ELSE "chain"
          /\ UNCHANGED siFaults
       \/ Abort
    /\ UNCHANGED <<sw, confs, archive, chain, ledgers, goal>>

\* The verifier is told whether its batch was applied; a failure is swallowed.
Confirm ==
    /\ stage = "confirm"
    /\ \/ /\ confs' = SettleConf(c.held, IF c.landed # {} THEN "applied" ELSE "discarded")
          /\ UNCHANGED <<c, siFaults>>
       \/ /\ siFaults < MaxSiFaults
          /\ siFaults' = siFaults + 1
          /\ c' = [c EXCEPT !.torn = TRUE]
          /\ UNCHANGED confs
    /\ stage' = "chain"
    /\ UNCHANGED <<sw, archive, chain, ledgers, goal>>

(***************************************************************************)
(* The ledgers                                                             *)
(***************************************************************************)
AppendChain(kind, next) ==
    \/ /\ chain' = chain \cup {[kind |-> kind, applied |-> c.landed # {}, product |-> c.product]}
       /\ stage' = next
       /\ UNCHANGED <<c, siFaults>>
    \/ Abort /\ UNCHANGED chain

AfterRollback == IF AllCommands # {} THEN "command" ELSE "log"

AfterApply == IF c.reverted THEN "rollback" ELSE AfterRollback

RecordApply ==
    /\ stage = "chain"
    /\ AppendChain("apply", AfterApply)
    /\ UNCHANGED <<sw, confs, archive, ledgers, goal>>

RecordRollback ==
    /\ stage = "rollback"
    /\ AppendChain("rollback", AfterRollback)
    /\ UNCHANGED <<sw, confs, archive, ledgers, goal>>

RecordCommands ==
    /\ stage = "command"
    /\ AppendChain("command", "log")
    /\ UNCHANGED <<sw, confs, archive, ledgers, goal>>

Outcome == RingStatus(c.status, c.reverted)

AppendLog ==
    /\ stage = "log"
    /\ \/ /\ log' = Extend(log, Outcome)
          /\ stage' = "ring"
          /\ UNCHANGED <<c, siFaults>>
       \/ Abort /\ UNCHANGED log
    /\ UNCHANGED <<sw, confs, archive, chain, ring, disk, lost, goal>>

\* A roll-back escalates whatever the vote was.
RingOutcome == RingStatus(c.status, c.reverted)

\* The ring in memory first, then its sidecar, whose failure is swallowed.
AppendRing ==
    /\ stage = "ring"
    /\ ring' = Extend(ring, RingOutcome)
    /\ \/ /\ disk' = Extend(disk, RingOutcome)
          /\ lost' = (lost /\ Outcome = "escalated")
          /\ UNCHANGED siFaults
       \/ /\ siFaults < MaxSiFaults
          /\ siFaults' = siFaults + 1
          /\ lost' = TRUE
          /\ UNCHANGED disk
    /\ stage' = "done"
    /\ UNCHANGED <<sw, c, confs, archive, chain, log, goal>>

\* The cycle is over, whichever way.
Done ==
    /\ stage = "done"
    /\ stage' = "idle"
    /\ c' = NewCycle
    /\ confs' = NoConfirmation /\ archive' = NoArchive /\ chain' = {}
    /\ UNCHANGED <<sw, ledgers, goal, siFaults>>

\* The process dies; the next one builds its ring anew.
DieInCycle ==
    /\ stage \notin {"idle", "done"} /\ siFaults < MaxSiFaults
    /\ siFaults' = siFaults + 1
    /\ stage' = "done"
    /\ c' = [c EXCEPT !.torn = TRUE]
    /\ ring' = IF sw.rehydrate THEN disk ELSE 0
    /\ lost' = (lost \/ stage = "ring")
    /\ UNCHANGED <<sw, confs, archive, chain, log, disk, goal>>

SiNext ==
    \/ NewProcess \/ Start \/ Reinject \/ CompleteGoal \/ Propose \/ EditLanes
    \/ VerifyNext \/ Discard \/ Judge \/ Archive \/ Commands
    \/ Review \/ WriteLadder \/ Execute \/ Products \/ Confirm
    \/ RecordApply \/ RecordRollback \/ RecordCommands \/ AppendLog \/ AppendRing
    \/ Done \/ DieInCycle

(***************************************************************************)
(* Properties                                                              *)
(***************************************************************************)
Candidate == {NoRank, Base} \cup Rank

CycleRecord ==
    [status : SiStatus, replan : BOOLEAN, changes : SUBSET Source, commands : SUBSET Source,
     pods : [changes : SUBSET {Pod}, commands : SUBSET {Pod}],
     ranked : 0..MaxRank, at : {Base} \cup Rank,
     verdict : [full : BOOLEAN, accepted : SUBSET Source], held : Candidate,
     trusted : Candidate, verified : BOOLEAN, errored : BOOLEAN, archived : SUBSET Source,
     judged : Candidate, approved : SUBSET Source, pass : BOOLEAN, landed : SUBSET Source,
     reverted : BOOLEAN, ran : SUBSET Source, product : BOOLEAN, torn : BOOLEAN]

SiTypeOK ==
    /\ sw \in Switches /\ stage \in Places /\ c \in CycleRecord
    /\ confs \in [{Base} \cup Rank -> {"none", "open", "applied", "discarded", "twice"}]
    /\ archive \in [batch : SUBSET Source, judged : Candidate, accepted : SUBSET Source]
    /\ chain \subseteq [kind : {"apply", "rollback", "command"}, applied : BOOLEAN, product : BOOLEAN]
    /\ log \in 0..Replan /\ ring \in 0..Replan /\ disk \in 0..Replan
    /\ lost \in BOOLEAN
    /\ goal \in Objective \cup {NoGoal, "complete"}
    /\ siFaults \in 0..MaxSiFaults

\* Behind an armed gate and the execution authority, a command runs only in a
\* cycle with consensus whose review passed, and only if it came with the batch
\* whose verdict was full: no pod's command, none of a candidate that was
\* passed over (execution_authority.py: proposed, verified, approved, executed).
RunsOnlyWhatWasVerified ==
    (sw.gate /\ sw.authority /\ c.ran # {}) =>
        /\ c.status = "consensus" /\ c.pass
        /\ c.verified /\ c.verdict.full
        /\ c.ran \subseteq {Base, c.at}

\* Behind an armed gate a written change of the lanes was accepted by the last
\* verdict; a ranked candidate is written only if its verdict was the trusted
\* one, and nothing else comes along.
WritesOnlyWhatWasAccepted ==
    (sw.gate /\ c.landed # {}) =>
        /\ c.landed \ {Pod} \subseteq c.verdict.accepted
        /\ Ordered /\ c.landed \ {Pod} # {} =>
              c.trusted = c.at /\ c.landed = c.verdict.accepted

\* Every confirmation the verifier gives out is settled exactly once, as applied
\* only if its batch is what was written; a cycle that ran undisturbed leaves
\* none open.
ConfirmationsAreSettled ==
    /\ \A b \in DOMAIN confs :
          /\ confs[b] # "twice"
          /\ confs[b] = "applied" => b = c.held /\ c.landed = c.verdict.accepted
    /\ (stage = "done" /\ ~c.torn) => \A b \in DOMAIN confs : confs[b] # "open"

\* An archived disposition is that of the verdict on the very candidate whose
\* bodies are archived (self_improvement_v8.py:4683-4685).
ArchivePairsVerdict ==
    archive.judged # NoRank =>
        /\ archive.batch \cap Rank = {archive.judged} \cap Rank
        /\ archive.accepted = c.verdict.accepted

\* A cycle in the cycle log has its row in the apply chain, which tells whether
\* something was written, and further rows for a roll-back and for commands.
LogImpliesChain ==
    (stage = "ring" \/ (stage = "done" /\ ~c.torn)) =>
        /\ [kind |-> "apply", applied |-> c.landed # {}, product |-> c.product] \in chain
        /\ c.reverted => \E r \in chain : r.kind = "rollback"
        /\ c.ran # {} => \E r \in chain : r.kind = "command"

\* While no ring entry was lost, a forced replan means that the last three
\* logged cycles all escalated, by blocked pods or by a roll-back; with the ring
\* re-loaded at each start, three such cycles always force one.
ReplanIsEarned ==
    (~lost /\ stage \notin {"idle", "ring", "done"}) =>
        /\ c.replan => ForceReplan(log)
        /\ sw.rehydrate => (ForceReplan(log) => c.replan)

\* What a verdict was about is what is written, run and archived with it.
VerdictIsRespected == RunsOnlyWhatWasVerified /\ WritesOnlyWhatWasAccepted /\ ArchivePairsVerdict

\* The records of a cycle, confirmations, chain, log and ring, agree.
RecordsAgree == ConfirmationsAreSettled /\ LogImpliesChain /\ ReplanIsEarned

\* The goal of the campaign is set once: no later objective and no failed read
\* replaces it; only the operator ends it.
GoalIsKept == [][goal # NoGoal => goal' \in {goal, "complete"}]_siVars
=============================================================================
