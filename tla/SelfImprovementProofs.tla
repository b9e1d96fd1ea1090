------------------------ MODULE SelfImprovementProofs ------------------------
(***************************************************************************)
(* Theorems about SelfImprovement for any number of objectives, ranked     *)
(* candidates, faults, keywords and weights, and for any settings of the   *)
(* switches and sets of callbacks.                                         *)
(*                                                                         *)
(* The inductive invariant of the self-improvement cycle (SiInv) has,      *)
(* beside the types, four parts:                                           *)
(*   Judged    what each place knows of the verdict and of the batch that  *)
(*             it is about;                                                *)
(*   Acted     what was approved, written and run, and why;                *)
(*   Settled   which confirmations are open, and which rows are written;   *)
(*   Trailed   how the trails of log, ring and sidecar hang together.      *)
(* That of the orchestrator's cycle (CycleInv) says what has been told at  *)
(* each place, that of its vote (VoteInv) what the count of aligned axes   *)
(* knows of the axes, that of a card (CardInv) what lies behind it, and    *)
(* that of a promotion (IInv) what its compare-and-swap still knows.       *)
(***************************************************************************)
EXTENDS SelfImprovement, TLAPS

(***************************************************************************)
(* The invariant of the self-improvement cycle                             *)
(***************************************************************************)
Unjudged == {"idle", "goal", "propose", "edit"}
Judging == {"verify", "discard", "judge"}
BeforeReview == Unjudged \cup Judging \cup {"archive", "commands"}
BeforeWrite == BeforeReview \cup {"review", "write"}
BeforeRun == BeforeWrite \cup {"execute"}
Unconfirmed == {"judge", "archive", "commands", "review", "write", "execute", "products", "confirm"}
Told == {"chain", "rollback", "command", "log", "ring", "done"}

\* The verdict: before there is one, while one is sought, and once it is there.
Judged ==
    /\ c.ranked > 0 <=> c.at \in Rank
    /\ Pod \notin c.verdict.accepted
    /\ c.commands \subseteq {Base, c.at}
    /\ c.verified => c.verdict.full
    /\ stage \in Unjudged => c.ranked = 0 /\ c.verdict = NoVerdict /\ c.held = NoRank
    /\ stage \in Unjudged \cup Judging =>
           /\ c.changes \subseteq {Base} /\ c.commands \subseteq {Base}
           /\ c.judged = NoRank /\ ~c.verified
    /\ stage \in {"verify", "discard"} => c.held = NoRank
    /\ stage \in {"discard", "judge"} => c.verdict.accepted \subseteq Batch
    /\ stage = "judge" /\ Selected => c.trusted = c.at
    /\ stage \in Unjudged \cup Judging \cup {"archive"} => archive = NoArchive
    /\ stage = "archive" /\ c.judged # NoRank =>
           /\ c.archived \cap Rank = {c.judged} \cap Rank
           /\ c.verdict.accepted \subseteq c.archived
    /\ stage \in {"archive", "commands", "review", "write"} /\ sw.gate =>
           /\ c.changes \subseteq c.verdict.accepted
           /\ Ordered /\ c.changes # {} => c.trusted = c.at /\ c.held = c.at
    /\ ArchivePairsVerdict

\* The deeds: none before its place, and each with what allowed it.
Acted ==
    /\ stage \in BeforeReview => c.approved = {}
    /\ stage \in BeforeWrite => c.landed = {} /\ ~c.reverted
    /\ stage \in BeforeRun => c.ran = {}
    /\ sw.gate => c.approved \subseteq {Base, c.at} /\ (c.approved # {} => c.verified)
    /\ stage = "write" /\ c.pass /\ AllChanges # {} /\ c.held # NoRank =>
           AllChanges = c.verdict.accepted
    /\ c.landed # {} /\ c.held # NoRank => c.landed = c.verdict.accepted
    /\ c.ran \subseteq AllCommands
    /\ WritesOnlyWhatWasAccepted
    /\ RunsOnlyWhatWasVerified

\* The rows that a cycle which got so far has written.
HasApplyRow == [kind |-> "apply", applied |-> c.landed # {}, product |-> c.product] \in chain
HasRow(kind) == \E r_ \in chain : r_.kind = kind

\* A confirmation is open from its verdict to the confirm step, unless the cycle
\* was torn; the rows are there from the place on that wrote them.
Settled ==
    /\ \A b \in DOMAIN confs : confs[b] # "twice"
    /\ \A b \in DOMAIN confs : confs[b] = "applied" => b = c.held /\ c.landed = c.verdict.accepted
    /\ stage \in Unjudged \cup Judging \cup Unconfirmed => \A b \in DOMAIN confs : confs[b] # "applied"
    /\ stage \in Unjudged \cup {"verify"} => \A b \in DOMAIN confs : confs[b] # "open"
    /\ stage = "discard" => \A b \in DOMAIN confs : confs[b] = "open" <=> b = c.at
    /\ stage \in Unconfirmed =>
           /\ c.held # NoRank => confs[c.held] = "open"
           /\ ~c.torn => \A b \in DOMAIN confs : confs[b] = "open" => b = c.held
    /\ stage = "confirm" => c.held # NoRank
    /\ stage \in Told /\ ~c.torn => \A b \in DOMAIN confs : confs[b] # "open"
    /\ stage \in {"rollback", "command", "log", "ring"} \/ (stage = "done" /\ ~c.torn) => HasApplyRow
    /\ stage \in {"command", "log", "ring"} \/ (stage = "done" /\ ~c.torn) =>
           (c.reverted => HasRow("rollback"))
    /\ stage \in {"log", "ring"} \/ (stage = "done" /\ ~c.torn) => (c.ran # {} => HasRow("command"))

\* Log, sidecar and ring agree as long as no entry was lost.
Trailed ==
    /\ ~lost /\ stage # "ring" => disk = log
    /\ stage = "ring" =>
           /\ Outcome # "escalated" => log = 0
           /\ ~lost => log = Extend(disk, Outcome)
    /\ ~lost => ring <= disk /\ (sw.rehydrate => ring = disk)
    /\ ReplanIsEarned

\* The parts of a cycle's record that a step leaves alone or does not.
planPart == <<c.status, c.replan, c.pods>>
workPart == <<c.changes, c.commands>>
gatePart == <<c.ranked, c.at, c.verdict, c.held, c.trusted, c.verified, c.archived, c.judged>>
deedPart == <<c.approved, c.pass, c.landed, c.reverted, c.ran, c.product, c.torn>>

SiInv == SiTypeOK /\ Judged /\ Acted /\ Settled /\ Trailed

(***************************************************************************)
(* Types                                                                   *)
(***************************************************************************)
\* The names of changes and of candidates.
LEMMA Names ==
    /\ Base \in Source /\ Pod \in Source /\ Rank \subseteq Source
    /\ Base \notin Rank /\ Pod \notin Rank /\ NoRank \notin Rank
    /\ Pod # Base /\ NoRank # Base /\ NoRank # Pod
    /\ Rank \subseteq Nat /\ Base = 0
    /\ {Base} \cup Rank \subseteq Candidate /\ NoRank \in Candidate
  BY BoundsAssumption DEF Source, Rank, Pod, Base, NoRank, Candidate

LEMMA NewCycleType == NewCycle \in CycleRecord
  <1>1. 0 \in 0..MaxRank /\ 0 \in {Base} \cup Rank
    BY BoundsAssumption DEF Base
  <1>2. [changes |-> {}, commands |-> {}] \in [changes : SUBSET {Pod}, commands : SUBSET {Pod}]
    OBVIOUS
  <1>3. NoVerdict \in [full : BOOLEAN, accepted : SUBSET Source]
    BY DEF NoVerdict
  <1>. QED
    BY <1>1, <1>2, <1>3, Names DEF NewCycle, CycleRecord, SiStatus

LEMMA InitType == SiInit => SiTypeOK
  <1>. SUFFICES ASSUME SiInit PROVE SiTypeOK
    OBVIOUS
  <1>1. archive \in [batch : SUBSET Source, judged : Candidate, accepted : SUBSET Source]
    BY Names DEF SiInit, NoArchive
  <1>2. confs \in [{Base} \cup Rank -> {"none", "open", "applied", "discarded", "twice"}]
    BY DEF SiInit, NoConfirmation
  <1>3. chain \subseteq [kind : {"apply", "rollback", "command"}, applied : BOOLEAN, product : BOOLEAN]
    BY DEF SiInit
  <1>4. c \in CycleRecord /\ sw \in Switches /\ stage \in Places
    BY NewCycleType DEF SiInit, Places
  <1>5. log \in 0..Replan /\ ring \in 0..Replan /\ disk \in 0..Replan /\ siFaults \in 0..MaxSiFaults
    BY BoundsAssumption DEF SiInit, Replan
  <1>. QED
    BY <1>1, <1>2, <1>3, <1>4, <1>5 DEF SiInit, SiTypeOK

\* What an exception leaves of the cycle's record.
LEMMA TornType ==
    ASSUME c \in CycleRecord
    PROVE  /\ [c EXCEPT !.torn = TRUE] \in CycleRecord
           /\ [c EXCEPT !.changes = {}, !.errored = TRUE, !.torn = TRUE] \in CycleRecord
  <1>1. {} \in SUBSET Source /\ TRUE \in BOOLEAN
    OBVIOUS
  <1>2. [c EXCEPT !.torn = TRUE] \in CycleRecord
    BY <1>1 DEF CycleRecord
  <1>3. [c EXCEPT !.changes = {}, !.errored = TRUE, !.torn = TRUE] \in CycleRecord
    BY <1>1 DEF CycleRecord
  <1>. QED
    BY <1>2, <1>3

LEMMA RowType ==
    ASSUME c \in CycleRecord, NEW kind \in {"apply", "rollback", "command"}
    PROVE  [kind |-> kind, applied |-> c.landed # {}, product |-> c.product]
               \in [kind : {"apply", "rollback", "command"}, applied : BOOLEAN, product : BOOLEAN]
  <1>1. c.product \in BOOLEAN
    BY DEF CycleRecord
  <1>. QED
    BY <1>1

LEMMA BatchType ==
    ASSUME c \in CycleRecord
    PROVE  /\ AllChanges \subseteq Source /\ AllCommands \subseteq Source /\ Batch \subseteq Source
           /\ KeptChanges \subseteq Source /\ c.at \in Source /\ c.at \in Candidate
  <1>1. /\ c.changes \subseteq Source /\ c.commands \subseteq Source
        /\ c.pods.changes \subseteq {Pod} /\ c.pods.commands \subseteq {Pod}
        /\ c.at \in {Base} \cup Rank /\ c.verdict.accepted \subseteq Source
    BY DEF CycleRecord
  <1>2. c.at \in Source /\ c.at \in Candidate
    BY <1>1, Names
  <1>. QED
    BY <1>1, <1>2, Names DEF AllChanges, AllCommands, Batch, KeptChanges

\* A verdict and what follows of it are set together, and so is what was decided.
LEMMA VerdictFields ==
    ASSUME NEW x \in CycleRecord, NEW v \in [full : BOOLEAN, accepted : SUBSET Source],
           NEW h \in Candidate, NEW u \in Candidate, NEW a \in {Base} \cup Rank
    PROVE  [x EXCEPT !.verdict = v, !.held = h, !.trusted = u, !.at = a] \in CycleRecord
<1>1. [x EXCEPT !.verdict = v, !.held = h] \in CycleRecord BY DEF CycleRecord
<1>2. PICK y \in CycleRecord : y = [x EXCEPT !.verdict = v, !.held = h] BY <1>1
<1>3. [y EXCEPT !.trusted = u, !.at = a] \in CycleRecord BY DEF CycleRecord
<1>4. [x EXCEPT !.verdict = v, !.held = h, !.trusted = u, !.at = a] = [y EXCEPT !.trusted = u, !.at = a]
  BY <1>2
<1>. QED BY <1>3, <1>4

LEMMA DecidedFields ==
    ASSUME NEW x \in CycleRecord, NEW g \in SUBSET Source, NEW k \in SUBSET Source,
           NEW a \in SUBSET Source, NEW j \in Candidate, NEW v \in BOOLEAN
    PROVE  [x EXCEPT !.changes = g, !.commands = k, !.archived = a, !.judged = j, !.verified = v]
               \in CycleRecord
<1>1. [x EXCEPT !.changes = g, !.commands = k, !.archived = a] \in CycleRecord BY DEF CycleRecord
<1>2. PICK y \in CycleRecord : y = [x EXCEPT !.changes = g, !.commands = k, !.archived = a] BY <1>1
<1>3. [y EXCEPT !.judged = j, !.verified = v] \in CycleRecord BY DEF CycleRecord
<1>4. [x EXCEPT !.changes = g, !.commands = k, !.archived = a, !.judged = j, !.verified = v]
          = [y EXCEPT !.judged = j, !.verified = v]
  BY <1>2
<1>. QED BY <1>3, <1>4

\* What a cycle starts with.
LEMMA StartsWith ==
    ASSUME Start
    PROVE  \E inputs \in {"none", "one", "both"}, aligned \in {2, 4, 6}, diagnosis \in BOOLEAN,
              changes, commands \in SUBSET {Pod} :
              /\ inputs # "both" => aligned = 2 /\ diagnosis
              /\ (changes \cup commands) # {} => inputs # "none"
              /\ c' = [NewCycle EXCEPT !.status = VoteStatus(inputs, aligned, diagnosis),
                                    !.replan = ForceReplan(ring),
                                    !.pods = [changes |-> changes, commands |-> commands]]
BY Zenon DEF Start

LEMMA TypeIsKept ==
    ASSUME SiTypeOK, SiNext
    PROVE  SiTypeOK'
<1>. USE BoundsAssumption DEF SiTypeOK, ledgers, Replan, Places
<1>0. /\ AllChanges \subseteq Source /\ AllCommands \subseteq Source /\ Batch \subseteq Source
      /\ KeptChanges \subseteq Source /\ c.at \in Source /\ c.at \in Candidate
  BY BatchType
<1>1. CASE NewProcess
  BY <1>1 DEF NewProcess
<1>2. CASE Start
  <2>1. PICK inputs \in {"none", "one", "both"}, aligned \in {2, 4, 6}, diagnosis \in BOOLEAN,
             changes, commands \in SUBSET {Pod} :
          /\ inputs # "both" => aligned = 2 /\ diagnosis
          /\ (changes \cup commands) # {} => inputs # "none"
          /\ c' = [NewCycle EXCEPT !.status = VoteStatus(inputs, aligned, diagnosis),
                                   !.replan = ForceReplan(ring),
                                   !.pods = [changes |-> changes, commands |-> commands]]
    BY <1>2, StartsWith, Zenon
  <2>2. VoteStatus(inputs, aligned, diagnosis) \in SiStatus
    BY DEF VoteStatus, SiStatus
  <2>3. ForceReplan(ring) \in BOOLEAN
    BY DEF ForceReplan
  <2>4. [changes |-> changes, commands |-> commands]
            \in [changes : SUBSET {Pod}, commands : SUBSET {Pod}]
    OBVIOUS
  <2>5. c' \in CycleRecord
    BY ONLY <2>1, <2>2, <2>3, <2>4, NewCycleType DEF CycleRecord
  <2>. QED
    BY <1>2, <2>5 DEF Start
<1>3. CASE Reinject
  BY <1>3 DEF Reinject, Adopts
<1>4. CASE CompleteGoal
  BY <1>4 DEF CompleteGoal
<1>5. CASE Propose
  <2>1. PICK x \in LaneResult : c' = [c EXCEPT !.changes = x.changes, !.commands = x.commands]
    BY <1>5 DEF Propose
  <2>2. x.changes \in SUBSET Source /\ x.commands \in SUBSET Source
    BY Names DEF LaneResult
  <2>3. c' \in CycleRecord
    BY ONLY <2>1, <2>2, c \in CycleRecord DEF CycleRecord
  <2>. QED
    BY <1>5, <2>3 DEF Propose
<1>6. CASE EditLanes
  <2>1. PICK x \in LaneResult, n \in 0..MaxRank :
          /\ c' = [c EXCEPT !.changes = c.changes \cup x.changes,
                            !.commands = @ \cup x.commands,
                            !.ranked = n, !.at = IF n > 0 THEN 1 ELSE Base,
                            !.archived = (c.changes \cup x.changes)
                                            \cup (1..(IF n > 0 THEN 1 ELSE 0))]
    BY <1>6 DEF EditLanes
  <2>2. /\ c.changes \cup x.changes \in SUBSET Source
        /\ c.commands \cup x.commands \in SUBSET Source
    BY Names DEF LaneResult, CycleRecord
  <2>3. /\ (IF n > 0 THEN 1 ELSE Base) \in {Base} \cup Rank
        /\ 1..(IF n > 0 THEN 1 ELSE 0) \subseteq Source
    BY DEF Rank, Source
  <2>4. (c.changes \cup x.changes) \cup (1..(IF n > 0 THEN 1 ELSE 0)) \in SUBSET Source
    BY <2>2, <2>3
  <2>5. c' \in CycleRecord
    BY ONLY <2>1, <2>2, <2>3, <2>4, c \in CycleRecord DEF CycleRecord
  <2>. QED
    BY <1>6, <2>5 DEF EditLanes
<1>7. CASE VerifyNext
  <2>1. CASE GateError /\ UNCHANGED confs
    <3>1. c' \in CycleRecord
      BY <2>1, TornType DEF GateError
    <3>2. UNCHANGED <<sw, confs, archive, chain, log, ring, disk, lost, goal>>
      BY <1>7, <2>1 DEF VerifyNext
    <3>. QED
      BY <2>1, <3>1, <3>2 DEF GateError
  <2>2. CASE ~(GateError /\ UNCHANGED confs)
    <3>1. PICK v \in [full : BOOLEAN, accepted : SUBSET Batch], confirmed \in BOOLEAN :
             LET green == Ordered /\ Green(v, confirmed)
                 next == AfterVerdict(green, confirmed)
             IN /\ confs' = [confs EXCEPT ![c.at] = IF confirmed THEN "open" ELSE @]
                /\ stage' = next
                /\ c' = [c EXCEPT !.verdict = v,
                                  !.held = IF confirmed /\ (green \/ ~Ordered) THEN c.at ELSE @,
                                  !.trusted = IF Green(v, confirmed) THEN c.at ELSE @,
                                  !.at = IF next = "verify" THEN @ + 1 ELSE @]
                /\ UNCHANGED siFaults
      BY <1>7, <2>2 DEF VerifyNext
    <3>. DEFINE green == Ordered /\ Green(v, confirmed)
                next == AfterVerdict(green, confirmed)
    <3>2. v \in [full : BOOLEAN, accepted : SUBSET Source]
      BY <1>0
    <3>3. next \in {"verify", "discard", "judge"}
      BY DEF AfterVerdict
    <3>4. (IF next = "verify" THEN c.at + 1 ELSE c.at) \in {Base} \cup Rank
      BY DEF AfterVerdict, CycleRecord, Ordered, Base, Rank
    <3>5. /\ (IF confirmed /\ (green \/ ~Ordered) THEN c.at ELSE c.held) \in Candidate
          /\ (IF Green(v, confirmed) THEN c.at ELSE c.trusted) \in Candidate
      BY <1>0 DEF CycleRecord
    <3>6. c' = [c EXCEPT !.verdict = v,
                         !.held = IF confirmed /\ (green \/ ~Ordered) THEN c.at ELSE c.held,
                         !.trusted = IF Green(v, confirmed) THEN c.at ELSE c.trusted,
                         !.at = IF next = "verify" THEN c.at + 1 ELSE c.at]
      BY <3>1
    <3>. HIDE DEF green, next
    <3>7. c' \in CycleRecord
      BY ONLY <3>2, <3>4, <3>5, <3>6, c \in CycleRecord, VerdictFields
    <3>8. confs' \in [{Base} \cup Rank -> {"none", "open", "applied", "discarded", "twice"}]
      BY <3>1
    <3>. QED
      BY <1>7, <3>1, <3>3, <3>7, <3>8 DEF VerifyNext, next, green
  <2>. QED
    BY <2>1, <2>2
<1>8. CASE Discard
  <2>1. CASE GateError /\ UNCHANGED confs
    <3>1. c' \in CycleRecord
      BY <2>1, TornType DEF GateError
    <3>. QED
      BY <1>8, <2>1, <3>1 DEF Discard, GateError
  <2>2. CASE ~(GateError /\ UNCHANGED confs)
    <3>1. (IF c.at < c.ranked THEN c.at + 1 ELSE c.at) \in {Base} \cup Rank
      BY DEF CycleRecord, Base, Rank
    <3>2. c' = [c EXCEPT !.at = IF c.at < c.ranked THEN c.at + 1 ELSE c.at]
      BY <1>8, <2>2 DEF Discard
    <3>3. c' \in CycleRecord
      BY <3>1, <3>2 DEF CycleRecord
    <3>4. confs' \in [{Base} \cup Rank -> {"none", "open", "applied", "discarded", "twice"}]
      BY <1>8, <2>2 DEF Discard, SettleConf
    <3>. QED
      BY <1>8, <2>2, <3>3, <3>4 DEF Discard
  <2>. QED
    BY <2>1, <2>2
<1>9. CASE Judge
  <2>. DEFINE decided == [c EXCEPT !.changes = KeptChanges,
                                   !.commands = c.commands \cup (IF Selected THEN {c.at} ELSE {}),
                                   !.archived = Archived,
                                   !.judged = c.at,
                                   !.verified = c.verdict.full /\ (Selected \/ ~Ordered)]
  <2>1. /\ KeptChanges \in SUBSET Source
        /\ c.commands \cup (IF Selected THEN {c.at} ELSE {}) \in SUBSET Source
        /\ Archived \in SUBSET Source /\ c.at \in Candidate
        /\ (c.verdict.full /\ (Selected \/ ~Ordered)) \in BOOLEAN
    BY <1>0 DEF CycleRecord, Archived
  <2>2. decided \in CycleRecord
    BY ONLY <2>1, c \in CycleRecord, DecidedFields
  <2>3. c' = decided \/ c' = [decided EXCEPT !.changes = {}, !.errored = TRUE, !.torn = TRUE]
    BY <1>9 DEF Judge
  <2>. HIDE DEF decided
  <2>4. [decided EXCEPT !.changes = {}, !.errored = TRUE, !.torn = TRUE] \in CycleRecord
    BY ONLY <2>2, {} \in SUBSET Source, TRUE \in BOOLEAN DEF CycleRecord
  <2>. QED
    BY <1>9, <2>2, <2>3, <2>4 DEF Judge
<1>10. CASE Archive
  <2>1. (IF c.judged = NoRank THEN {} ELSE c.archived \cap c.verdict.accepted) \in SUBSET Source
    BY DEF CycleRecord
  <2>2. c.archived \in SUBSET Source /\ c.judged \in Candidate
    BY DEF CycleRecord
  <2>3. archive' \in [batch : SUBSET Source, judged : Candidate, accepted : SUBSET Source]
    BY <1>10, <2>1, <2>2 DEF Archive
  <2>. QED
    BY <1>10, <2>3 DEF Archive
<1>11. CASE Commands
  <2>. DEFINE kept == IF sw.gate /\ ~c.verified THEN {} ELSE c.commands
  <2>1. kept \in SUBSET Source /\ (IF sw.gate THEN kept ELSE Source) \in SUBSET Source
    BY DEF CycleRecord
  <2>2. c' = [c EXCEPT !.commands = kept, !.approved = IF sw.gate THEN kept ELSE Source]
    BY <1>11 DEF Commands
  <2>. HIDE DEF kept
  <2>3. c' \in CycleRecord
    <3>1. PICK ran \in SUBSET Source : ran = IF sw.gate THEN kept ELSE Source
      BY <2>1
    <3>2. c' = [c EXCEPT !.commands = kept, !.approved = ran] /\ c \in CycleRecord
      BY <2>2, <3>1
    <3>. QED
      BY ONLY <2>1, <3>2 DEF CycleRecord
  <2>. QED
    BY <1>11, <2>3 DEF Commands
<1>12. CASE Review
  <2>1. c' \in CycleRecord
    <3>1. CASE Abort
      BY <3>1, TornType DEF Abort
    <3>2. CASE ~Abort
      <4>1. PICK x \in BOOLEAN : c' = [c EXCEPT !.pass = x]
        BY <1>12, <3>2 DEF Review
      <4>. QED
        BY <4>1 DEF CycleRecord
    <3>. QED
      BY <3>1, <3>2
  <2>. QED
    BY <1>12, <2>1 DEF Review, Abort
<1>13. CASE WriteLadder
  <2>1. c' \in CycleRecord
    <3>1. CASE Abort
      BY <3>1, TornType DEF Abort
    <3>2. CASE ~Abort
      <4>1. PICK x \in SUBSET Source, y \in BOOLEAN : c' = [c EXCEPT !.landed = x, !.reverted = y]
        BY <1>0, <1>13, <3>2 DEF WriteLadder
      <4>. QED
        BY <4>1 DEF CycleRecord
    <3>. QED
      BY <3>1, <3>2
  <2>. QED
    BY <1>13, <2>1 DEF WriteLadder, Abort
<1>14. CASE Execute
  <2>1. c' \in CycleRecord
    <3>1. CASE Abort
      BY <3>1, TornType DEF Abort
    <3>2. CASE ~Abort
      <4>1. PICK x \in SUBSET Source : c' = [c EXCEPT !.ran = x]
        BY <1>0, <1>14, <3>2 DEF Execute
      <4>. QED
        BY <4>1 DEF CycleRecord
    <3>. QED
      BY <3>1, <3>2
  <2>. QED
    BY <1>14, <2>1 DEF Execute, Abort
<1>15. CASE Products
  <2>1. c' \in CycleRecord
    <3>1. CASE Abort
      BY <3>1, TornType DEF Abort
    <3>2. CASE ~Abort
      <4>1. PICK x \in BOOLEAN : c' = [c EXCEPT !.product = x]
        BY <1>15, <3>2 DEF Products
      <4>. QED
        BY <4>1 DEF CycleRecord
    <3>. QED
      BY <3>1, <3>2
  <2>. QED
    BY <1>15, <2>1 DEF Products, Abort
<1>16. CASE Confirm
  <2>1. c' \in CycleRecord
    BY <1>16, TornType DEF Confirm
  <2>2. confs' \in [{Base} \cup Rank -> {"none", "open", "applied", "discarded", "twice"}]
    BY <1>16 DEF Confirm, SettleConf
  <2>. QED
    BY <1>16, <2>1, <2>2 DEF Confirm
<1>17. CASE RecordApply
  <2>1. c' \in CycleRecord
    BY <1>17, TornType DEF RecordApply, AppendChain, Abort
  <2>2. chain' \subseteq [kind : {"apply", "rollback", "command"}, applied : BOOLEAN, product : BOOLEAN]
    BY <1>17, RowType DEF RecordApply, AppendChain
  <2>. QED
    BY <1>17, <2>1, <2>2 DEF RecordApply, AppendChain, Abort, AfterApply, AfterRollback
<1>18. CASE RecordRollback
  <2>1. c' \in CycleRecord
    BY <1>18, TornType DEF RecordRollback, AppendChain, Abort
  <2>2. chain' \subseteq [kind : {"apply", "rollback", "command"}, applied : BOOLEAN, product : BOOLEAN]
    BY <1>18, RowType DEF RecordRollback, AppendChain
  <2>. QED
    BY <1>18, <2>1, <2>2 DEF RecordRollback, AppendChain, Abort, AfterRollback
<1>19. CASE RecordCommands
  <2>1. c' \in CycleRecord
    BY <1>19, TornType DEF RecordCommands, AppendChain, Abort
  <2>2. chain' \subseteq [kind : {"apply", "rollback", "command"}, applied : BOOLEAN, product : BOOLEAN]
    BY <1>19, RowType DEF RecordCommands, AppendChain
  <2>. QED
    BY <1>19, <2>1, <2>2 DEF RecordCommands, AppendChain, Abort
<1>20. CASE AppendLog
  <2>1. c' \in CycleRecord
    BY <1>20, TornType DEF AppendLog, Abort
  <2>. QED
    BY <1>20, <2>1 DEF AppendLog, Abort, Extend
<1>21. CASE AppendRing
  <2>1. ring' \in 0..Replan /\ disk' \in 0..Replan
    BY <1>21 DEF AppendRing, Extend
  <2>2. lost' \in BOOLEAN
    BY <1>21 DEF AppendRing
  <2>3. siFaults' \in 0..MaxSiFaults
    BY <1>21 DEF AppendRing
  <2>. QED
    BY <1>21, <2>1, <2>2, <2>3 DEF AppendRing
<1>22. CASE Done
  <2>1. confs' \in [{Base} \cup Rank -> {"none", "open", "applied", "discarded", "twice"}]
    BY <1>22 DEF Done, NoConfirmation
  <2>2. archive' \in [batch : SUBSET Source, judged : Candidate, accepted : SUBSET Source]
    BY <1>22, Names DEF Done, NoArchive
  <2>. QED
    BY <1>22, <2>1, <2>2, NewCycleType DEF Done
<1>23. CASE DieInCycle
  <2>1. c' \in CycleRecord
    BY <1>23, TornType DEF DieInCycle
  <2>. QED
    BY <1>23, <2>1 DEF DieInCycle
<1>. QED
  BY <1>1, <1>2, <1>3, <1>4, <1>5, <1>6, <1>7, <1>8, <1>9, <1>10, <1>11, <1>12, <1>13, <1>14,
     <1>15, <1>16, <1>17, <1>18, <1>19, <1>20, <1>21, <1>22, <1>23
     DEF SiNext

(***************************************************************************)
(* Proposing                                                               *)
(***************************************************************************)
LEMMA StartKeeps ==
    ASSUME SiInv, Start
    PROVE  Judged' /\ Acted' /\ Settled' /\ Trailed'
<1>1. PICK inputs \in {"none", "one", "both"}, aligned \in {2, 4, 6}, diagnosis \in BOOLEAN,
           changes, commands \in SUBSET {Pod} :
        /\ inputs # "both" => aligned = 2 /\ diagnosis
        /\ (changes \cup commands) # {} => inputs # "none"
        /\ c' = [NewCycle EXCEPT !.status = VoteStatus(inputs, aligned, diagnosis),
                                 !.replan = ForceReplan(ring),
                                 !.pods = [changes |-> changes, commands |-> commands]]
  BY StartsWith, Zenon
<1>2. /\ c'.ranked = 0 /\ c'.at = Base /\ c'.changes = {} /\ c'.commands = {} /\ c'.verdict = NoVerdict
      /\ c'.held = NoRank /\ c'.judged = NoRank /\ ~c'.verified /\ c'.approved = {}
      /\ c'.landed = {} /\ ~c'.reverted /\ c'.ran = {} /\ ~c'.torn
      /\ c'.replan = ForceReplan(ring)
  BY ONLY <1>1 DEF NewCycle, Base
<1>3. stage = "idle" /\ stage' = "goal" /\ UNCHANGED <<sw, confs, archive, chain, log, ring, disk, lost>>
  BY DEF Start, ledgers
<1>4. Judged'
  BY <1>2, <1>3, Names
     DEF SiInv, Judged, Selected, Ordered, Batch, ArchivePairsVerdict, Unjudged, Judging, NoVerdict
<1>5. Acted'
  BY <1>2, <1>3
     DEF SiInv, Acted, AllChanges, AllCommands, WritesOnlyWhatWasAccepted, RunsOnlyWhatWasVerified, Ordered
<1>6. Settled'
  BY <1>2, <1>3 DEF SiInv, Settled, HasApplyRow, HasRow, Unjudged, Judging, Unconfirmed, Told
<1>7. Trailed'
  <2>1. ~lost => disk = log /\ ring <= disk /\ (sw.rehydrate => ring = disk)
    BY <1>3 DEF SiInv, Trailed
  <2>2. ~lost => (c'.replan => ForceReplan(log)) /\ (sw.rehydrate => (ForceReplan(log) => c'.replan))
    <3>1. ~lost => /\ ForceReplan(ring) => ForceReplan(log)
                   /\ sw.rehydrate => (ForceReplan(log) => ForceReplan(ring))
      BY <2>1 DEF SiInv, SiTypeOK, Replan, ForceReplan
    <3>. QED
      BY <1>2, <3>1, Zenon
  <2>3. ReplanIsEarned'
    BY <1>3, <2>2 DEF ReplanIsEarned, ForceReplan
  <2>. QED
    BY <1>3, <2>1, <2>3 DEF Trailed
<1>. QED
  BY <1>4, <1>5, <1>6, <1>7

LEMMA EditLanesKeeps ==
    ASSUME SiInv, EditLanes
    PROVE  Judged' /\ Acted' /\ Settled' /\ Trailed'
<1>1. PICK x \in LaneResult, n \in 0..MaxRank :
        /\ c' = [c EXCEPT !.changes = c.changes \cup x.changes,
                          !.commands = @ \cup x.commands,
                          !.ranked = n, !.at = IF n > 0 THEN 1 ELSE Base,
                          !.archived = (c.changes \cup x.changes)
                                          \cup (1..(IF n > 0 THEN 1 ELSE 0))]
        /\ stage' = IF sw.gate /\ (c.changes \cup x.changes # {} \/ n > 0) THEN "verify" ELSE "archive"
  BY DEF EditLanes
<1>2. /\ c'.changes = c.changes \cup x.changes /\ c'.commands = c.commands \cup x.commands
      /\ c'.ranked = n /\ c'.at = IF n > 0 THEN 1 ELSE Base
      /\ c'.verdict = c.verdict /\ c'.held = c.held /\ c'.judged = c.judged /\ c'.verified = c.verified
      /\ UNCHANGED <<planPart, deedPart>>
  BY <1>1 DEF SiInv, SiTypeOK, CycleRecord, planPart, deedPart
<1>3. /\ stage = "edit" /\ stage' \in {"verify", "archive"}
      /\ UNCHANGED <<sw, confs, archive, chain, log, ring, disk, lost>>
  BY <1>1 DEF EditLanes, ledgers
<1>4. /\ c'.changes \subseteq {Base} /\ c'.commands \subseteq {Base}
      /\ c.verdict = NoVerdict /\ c.held = NoRank /\ c.judged = NoRank /\ ~c.verified
  BY <1>2, <1>3 DEF SiInv, Judged, Unjudged, LaneResult
<1>5. stage' = "archive" /\ sw.gate => c'.changes = {}
  BY <1>1, <1>2
<1>6. c'.ranked > 0 <=> c'.at \in Rank
  BY <1>2, BoundsAssumption DEF Base, Rank
<1>7. Judged'
  BY <1>2, <1>3, <1>4, <1>5, <1>6, Names
     DEF SiInv, Judged, Selected, Ordered, Batch, ArchivePairsVerdict, Unjudged, Judging, NoVerdict
<1>8. Acted'
  BY <1>2, <1>3, <1>4
     DEF SiInv, Acted, AllChanges, AllCommands, WritesOnlyWhatWasAccepted, RunsOnlyWhatWasVerified,
         planPart, deedPart, BeforeReview, BeforeWrite, BeforeRun, Unjudged, Judging
<1>9. Settled'
  BY <1>2, <1>3, <1>4
     DEF SiInv, Settled, HasApplyRow, HasRow, deedPart, Unjudged, Judging, Unconfirmed, Told
<1>10. Trailed'
  BY <1>2, <1>3 DEF SiInv, Trailed, ReplanIsEarned, ForceReplan, planPart
<1>. QED
  BY <1>7, <1>8, <1>9, <1>10

LEMMA OthersKeep ==
    ASSUME SiInv, NewProcess \/ Reinject \/ CompleteGoal \/ Propose
    PROVE  Judged' /\ Acted' /\ Settled' /\ Trailed'
<1>. USE DEF SiInv
<1>1. CASE NewProcess
  <2>1. Judged'
    BY <1>1 DEF NewProcess, Judged, Selected, Ordered, Batch, ArchivePairsVerdict
  <2>2. Acted'
    BY <1>1 DEF NewProcess, Acted, AllChanges, AllCommands, WritesOnlyWhatWasAccepted,
                RunsOnlyWhatWasVerified, Ordered
  <2>3. Settled'
    BY <1>1 DEF NewProcess, Settled, HasApplyRow, HasRow
  <2>4. Trailed'
    BY <1>1 DEF NewProcess, Trailed, ReplanIsEarned, SiTypeOK, Replan
  <2>. QED
    BY <2>1, <2>2, <2>3, <2>4
<1>2. CASE CompleteGoal
  <2>1. UNCHANGED <<sw, stage, c, confs, archive, chain, log, ring, disk, lost>>
    BY <1>2 DEF CompleteGoal, ledgers
  <2>2. Judged'
    BY <2>1 DEF Judged, Selected, Ordered, Batch, ArchivePairsVerdict
  <2>3. Acted'
    BY <2>1 DEF Acted, AllChanges, AllCommands, WritesOnlyWhatWasAccepted,
                RunsOnlyWhatWasVerified, Ordered
  <2>4. Settled'
    BY <2>1 DEF Settled, HasApplyRow, HasRow
  <2>5. Trailed'
    BY <2>1 DEF Trailed, ReplanIsEarned, Outcome, RingStatus
  <2>. QED
    BY <2>2, <2>3, <2>4, <2>5
<1>3. CASE Reinject
  <2>1. /\ stage = "goal" /\ stage' = "propose"
        /\ UNCHANGED <<sw, c, confs, archive, chain, log, ring, disk, lost>>
    BY <1>3 DEF Reinject, ledgers
  <2>2. Judged'
    BY <2>1 DEF Judged, Selected, Ordered, Batch, ArchivePairsVerdict, Unjudged, Judging
  <2>3. Acted'
    BY <2>1 DEF Acted, AllChanges, AllCommands, WritesOnlyWhatWasAccepted, RunsOnlyWhatWasVerified,
                Ordered, BeforeReview, BeforeWrite, BeforeRun, Unjudged, Judging
  <2>4. Settled'
    BY <2>1 DEF Settled, HasApplyRow, HasRow, Unjudged, Judging, Unconfirmed, Told
  <2>5. Trailed'
    BY <2>1 DEF Trailed, ReplanIsEarned
  <2>. QED
    BY <2>2, <2>3, <2>4, <2>5
<1>4. CASE Propose
  <2>1. PICK x \in LaneResult : c' = [c EXCEPT !.changes = x.changes, !.commands = x.commands]
    BY <1>4 DEF Propose
  <2>2. /\ c'.changes = x.changes /\ c'.commands = x.commands
        /\ UNCHANGED <<planPart, gatePart, deedPart>>
    BY <2>1 DEF SiTypeOK, CycleRecord, planPart, gatePart, deedPart
  <2>3. /\ stage = "propose" /\ stage' = "edit"
        /\ UNCHANGED <<sw, confs, archive, chain, log, ring, disk, lost>>
    BY <1>4 DEF Propose, ledgers
  <2>4. Judged'
    BY <2>2, <2>3 DEF Judged, Selected, Ordered, Batch, ArchivePairsVerdict, Unjudged, Judging,
                      LaneResult, gatePart
  <2>5. Acted'
    BY <2>2, <2>3
       DEF Acted, AllChanges, AllCommands, WritesOnlyWhatWasAccepted, RunsOnlyWhatWasVerified, Ordered,
           BeforeReview, BeforeWrite, BeforeRun, Unjudged, Judging, planPart, gatePart, deedPart
  <2>6. Settled'
    BY <2>2, <2>3
       DEF Settled, HasApplyRow, HasRow, Unjudged, Judging, Unconfirmed, Told, gatePart, deedPart
  <2>7. Trailed'
    BY <2>2, <2>3 DEF Trailed, ReplanIsEarned, planPart
  <2>. QED
    BY <2>4, <2>5, <2>6, <2>7
<1>. QED
  BY <1>1, <1>2, <1>3, <1>4

(***************************************************************************)
(* Verifying                                                               *)
(***************************************************************************)
\* An exception of the gate, whatever it does to the confirmations.
LEMMA GateErrorKeeps ==
    ASSUME SiInv, stage \in {"verify", "discard"}, GateError, UNCHANGED confs,
           UNCHANGED <<sw, archive, chain, log, ring, disk, lost>>
    PROVE  Judged' /\ Acted' /\ Settled' /\ Trailed'
<1>. USE DEF SiInv
<1>1. c' = [c EXCEPT !.changes = {}, !.errored = TRUE, !.torn = TRUE] /\ stage' = "archive"
  BY DEF GateError
<1>2. /\ c'.changes = {} /\ c'.commands = c.commands /\ c'.torn
      /\ c'.approved = c.approved /\ c'.pass = c.pass /\ c'.landed = c.landed
      /\ c'.reverted = c.reverted /\ c'.ran = c.ran /\ c'.product = c.product
      /\ UNCHANGED <<planPart, gatePart>>
  BY <1>1 DEF SiTypeOK, CycleRecord, planPart, gatePart
<1>0. c.held = NoRank
  BY DEF Judged
<1>3. Judged'
  BY <1>1, <1>2 DEF Judged, Selected, Ordered, Batch, ArchivePairsVerdict, Unjudged, Judging, gatePart
<1>4. Acted'
  BY <1>1, <1>2
     DEF Acted, AllChanges, AllCommands, WritesOnlyWhatWasAccepted, RunsOnlyWhatWasVerified, Ordered,
         BeforeReview, BeforeWrite, BeforeRun, Unjudged, Judging, planPart, gatePart
<1>5. Settled'
  BY <1>0, <1>1, <1>2
     DEF Settled, HasApplyRow, HasRow, Unjudged, Judging, Unconfirmed, Told, gatePart
<1>6. Trailed'
  BY <1>1, <1>2 DEF Trailed, ReplanIsEarned, planPart
<1>. QED
  BY <1>3, <1>4, <1>5, <1>6

LEMMA VerifyKeeps ==
    ASSUME SiInv, VerifyNext
    PROVE  Judged' /\ Acted' /\ Settled' /\ Trailed'
<1>. USE DEF SiInv
<1>0. UNCHANGED <<sw, archive, chain, log, ring, disk, lost>> /\ stage = "verify"
  BY DEF VerifyNext, ledgers
<1>1. CASE GateError /\ UNCHANGED confs
  BY <1>0, <1>1, GateErrorKeeps
<1>2. CASE ~(GateError /\ UNCHANGED confs)
  <2>1. PICK v \in [full : BOOLEAN, accepted : SUBSET Batch], confirmed \in BOOLEAN :
           LET green == Ordered /\ Green(v, confirmed)
               next == AfterVerdict(green, confirmed)
           IN /\ confs' = [confs EXCEPT ![c.at] = IF confirmed THEN "open" ELSE @]
              /\ stage' = next
              /\ c' = [c EXCEPT !.verdict = v,
                                !.held = IF confirmed /\ (green \/ ~Ordered) THEN c.at ELSE @,
                                !.trusted = IF Green(v, confirmed) THEN c.at ELSE @,
                                !.at = IF next = "verify" THEN @ + 1 ELSE @]
              /\ UNCHANGED siFaults
    BY <1>2 DEF VerifyNext
  <2>. DEFINE green == Ordered /\ Green(v, confirmed)
              next == AfterVerdict(green, confirmed)
              held == IF confirmed /\ (green \/ ~Ordered) THEN c.at ELSE c.held
              trusted == IF Green(v, confirmed) THEN c.at ELSE c.trusted
              at == IF next = "verify" THEN c.at + 1 ELSE c.at
  <2>2. /\ c' = [c EXCEPT !.verdict = v, !.held = held, !.trusted = trusted, !.at = at]
        /\ stage' = next /\ confs' = [confs EXCEPT ![c.at] = IF confirmed THEN "open" ELSE @]
    BY <2>1
  <2>. HIDE DEF green, next, held, trusted, at
  <2>3. /\ c'.verdict = v /\ c'.held = held /\ c'.trusted = trusted /\ c'.at = at
        /\ c'.ranked = c.ranked /\ c'.verified = c.verified /\ c'.judged = c.judged
        /\ UNCHANGED <<planPart, workPart, deedPart>>
    BY <2>2 DEF SiTypeOK, CycleRecord, planPart, workPart, deedPart
  <2>4. /\ c.held = NoRank /\ c.at \in DOMAIN confs /\ c.at # NoRank
        /\ Ordered <=> c.at \in Rank
    BY <1>0, Names DEF Judged, SiTypeOK, CycleRecord, Ordered
  <2>5. /\ next \in {"verify", "discard", "judge"}
        /\ next = "verify" => ~confirmed /\ c.at < c.ranked /\ Ordered
        /\ next = "discard" => confirmed /\ Ordered /\ ~green
        /\ next = "judge" => ~Ordered \/ green \/ ~confirmed
        /\ green => Ordered /\ confirmed /\ Green(v, confirmed)
    BY DEF next, green, AfterVerdict, Green
  <2>6. /\ next = "verify" => held = NoRank
        /\ next = "discard" => held = NoRank /\ at = c.at
        /\ next = "judge" => /\ at = c.at /\ (Ordered /\ held = c.at => trusted = c.at)
                             /\ (confirmed => held = c.at) /\ (~confirmed => held = NoRank)
    BY <2>4, <2>5 DEF held, trusted, at
  <2>7. at \in Rank <=> c.at \in Rank
    BY <2>4, <2>5, BoundsAssumption DEF at, SiTypeOK, CycleRecord, Rank
  <2>8. v.accepted \subseteq Batch /\ (at = c.at => Batch' = Batch) /\ Pod \notin Batch
    BY <1>0, <2>3, Names DEF Batch, Ordered, workPart, Judged, Judging, SiTypeOK, CycleRecord
  <2>9. Judged'
    BY <1>0, <2>2, <2>3, <2>4, <2>5, <2>6, <2>7, <2>8
       DEF Judged, Selected, Ordered, ArchivePairsVerdict, Unjudged, Judging, workPart, NoArchive
  <2>10. Acted'
    BY <1>0, <2>2, <2>3, <2>4, <2>5, <2>6
       DEF Acted, AllChanges, AllCommands, WritesOnlyWhatWasAccepted, RunsOnlyWhatWasVerified, Ordered,
           BeforeReview, BeforeWrite, BeforeRun, Unjudged, Judging, planPart, workPart, deedPart
  <2>11. Settled'
    BY <1>0, <2>2, <2>3, <2>4, <2>5, <2>6, <2>7
       DEF Settled, HasApplyRow, HasRow, Unjudged, Judging, Unconfirmed, Told, deedPart, SiTypeOK
  <2>12. Trailed'
    BY <1>0, <2>2, <2>3, <2>5 DEF Trailed, ReplanIsEarned, planPart
  <2>. QED
    BY <2>9, <2>10, <2>11, <2>12
<1>. QED
  BY <1>1, <1>2

LEMMA DiscardKeeps ==
    ASSUME SiInv, Discard
    PROVE  Judged' /\ Acted' /\ Settled' /\ Trailed'
<1>. USE DEF SiInv
<1>0. UNCHANGED <<sw, archive, chain, log, ring, disk, lost>> /\ stage = "discard"
  BY DEF Discard, ledgers
<1>1. CASE GateError /\ UNCHANGED confs
  BY <1>0, <1>1, GateErrorKeeps
<1>2. CASE ~(GateError /\ UNCHANGED confs)
  <2>. DEFINE at == IF c.at < c.ranked THEN c.at + 1 ELSE c.at
  <2>1. /\ confs' = SettleConf(c.at, "discarded")
        /\ stage' = IF c.at < c.ranked THEN "verify" ELSE "judge"
        /\ c' = [c EXCEPT !.at = at]
    BY <1>2 DEF Discard
  <2>. HIDE DEF at
  <2>2. /\ c'.at = at /\ c'.ranked = c.ranked /\ c'.verdict = c.verdict /\ c'.held = c.held
        /\ c'.trusted = c.trusted /\ c'.verified = c.verified /\ c'.judged = c.judged
        /\ UNCHANGED <<planPart, workPart, deedPart>>
    BY <2>1 DEF SiTypeOK, CycleRecord, planPart, workPart, deedPart
  <2>3. /\ c.held = NoRank /\ c.at \in DOMAIN confs /\ at # NoRank
        /\ at \in Rank <=> c.at \in Rank
        /\ stage' = "judge" => at = c.at
    BY <1>0, <2>1, Names, BoundsAssumption DEF at, Judged, SiTypeOK, CycleRecord, Rank, Base, NoRank
  <2>4. at = c.at => Batch' = Batch
    BY <2>2 DEF Batch, Ordered, workPart
  <2>5. \A b \in DOMAIN confs : confs'[b] \notin {"open", "applied", "twice"}
    BY <1>0, <2>1, <2>3 DEF Settled, SettleConf, SiTypeOK, Judging
  <2>6. Judged'
    BY <1>0, <2>1, <2>2, <2>3, <2>4
       DEF Judged, Selected, Ordered, ArchivePairsVerdict, Unjudged, Judging, workPart, NoArchive
  <2>7. Acted'
    BY <1>0, <2>1, <2>2
       DEF Acted, AllChanges, AllCommands, WritesOnlyWhatWasAccepted, RunsOnlyWhatWasVerified, Ordered,
           BeforeReview, BeforeWrite, BeforeRun, Unjudged, Judging, planPart, workPart, deedPart
  <2>8. DOMAIN confs' = DOMAIN confs
    BY <2>1 DEF SettleConf
  <2>9. Settled'
    BY <1>0, <2>1, <2>2, <2>3, <2>5, <2>8
       DEF Settled, HasApplyRow, HasRow, Unjudged, Judging, Unconfirmed, Told, deedPart
  <2>10. Trailed'
    BY <1>0, <2>1, <2>2 DEF Trailed, ReplanIsEarned, planPart
  <2>. QED
    BY <2>6, <2>7, <2>9, <2>10
<1>. QED
  BY <1>1, <1>2

LEMMA JudgeKeeps ==
    ASSUME SiInv, Judge
    PROVE  Judged' /\ Acted' /\ Settled' /\ Trailed'
<1>. USE DEF SiInv
<1>. DEFINE decided == [c EXCEPT !.changes = KeptChanges,
                                 !.commands = c.commands \cup (IF Selected THEN {c.at} ELSE {}),
                                 !.archived = Archived,
                                 !.judged = c.at,
                                 !.verified = c.verdict.full /\ (Selected \/ ~Ordered)]
<1>1. c' = decided \/ c' = [decided EXCEPT !.changes = {}, !.errored = TRUE, !.torn = TRUE]
  BY DEF Judge
<1>2. /\ stage = "judge" /\ stage' = "archive"
      /\ UNCHANGED <<sw, confs, archive, chain, log, ring, disk, lost>>
  BY DEF Judge, ledgers
<1>3. /\ c'.changes \in {{}, KeptChanges}
      /\ c'.commands = c.commands \cup (IF Selected THEN {c.at} ELSE {})
      /\ c'.archived = Batch /\ c'.judged = c.at
      /\ c'.verified = (c.verdict.full /\ (Selected \/ ~Ordered))
      /\ c'.ranked = c.ranked /\ c'.at = c.at /\ c'.verdict = c.verdict /\ c'.held = c.held
      /\ c'.trusted = c.trusted /\ UNCHANGED planPart
      /\ c'.approved = c.approved /\ c'.pass = c.pass /\ c'.landed = c.landed
      /\ c'.reverted = c.reverted /\ c'.ran = c.ran /\ c'.product = c.product
      /\ ~c'.torn => ~c.torn
  <2>1. CASE c' = decided
    BY <2>1 DEF SiTypeOK, CycleRecord, planPart, Archived
  <2>2. CASE c' = [decided EXCEPT !.changes = {}, !.errored = TRUE, !.torn = TRUE]
    <3>1. c' = [c EXCEPT !.changes = {}, !.errored = TRUE, !.torn = TRUE,
                         !.commands = c.commands \cup (IF Selected THEN {c.at} ELSE {}),
                         !.archived = Archived, !.judged = c.at,
                         !.verified = c.verdict.full /\ (Selected \/ ~Ordered)]
      BY <2>2 DEF SiTypeOK, CycleRecord
    <3>. QED
      BY <3>1 DEF SiTypeOK, CycleRecord, planPart, Archived
  <2>. QED
    BY <1>1, <2>1, <2>2
<1>4. /\ c'.changes \subseteq c.verdict.accepted
      /\ Ordered /\ c'.changes # {} => c.trusted = c.at /\ c.held = c.at
  BY <1>2, <1>3 DEF KeptChanges, Judged, Selected
<1>5. /\ Batch \cap Rank = {c.at} \cap Rank
      /\ c.verdict.accepted \subseteq Batch
  <2>1. c.changes \cap Rank = {} /\ (Ordered <=> c.at \in Rank)
    BY <1>2, Names DEF Judged, Judging, Ordered
  <2>. QED
    BY <1>2, <2>1 DEF Batch, Judged
<1>6. Judged'
  BY <1>2, <1>3, <1>4, <1>5
     DEF Judged, Selected, Ordered, ArchivePairsVerdict, Unjudged, Judging, NoArchive
<1>7. Acted'
  BY <1>2, <1>3
     DEF Acted, AllChanges, AllCommands, WritesOnlyWhatWasAccepted, RunsOnlyWhatWasVerified, Ordered,
         BeforeReview, BeforeWrite, BeforeRun, Unjudged, Judging, planPart
<1>8. Settled'
  BY <1>2, <1>3 DEF Settled, HasApplyRow, HasRow, Unjudged, Judging, Unconfirmed, Told
<1>9. Trailed'
  BY <1>2, <1>3 DEF Trailed, ReplanIsEarned, planPart
<1>. QED
  BY <1>6, <1>7, <1>8, <1>9

LEMMA ArchiveKeeps ==
    ASSUME SiInv, Archive
    PROVE  Judged' /\ Acted' /\ Settled' /\ Trailed'
<1>. USE DEF SiInv
<1>1. /\ stage = "archive" /\ stage' = "commands"
      /\ UNCHANGED <<sw, c, confs, chain, log, ring, disk, lost>>
  BY DEF Archive, ledgers
<1>2. ArchivePairsVerdict'
  <2>1. CASE UNCHANGED archive
    BY <1>1, <2>1 DEF Judged, ArchivePairsVerdict
  <2>2. CASE ~UNCHANGED archive
    <3>1. archive' = [batch |-> c.archived, judged |-> c.judged,
                      accepted |-> IF c.judged = NoRank THEN {}
                                   ELSE c.archived \cap c.verdict.accepted]
      BY <2>2 DEF Archive
    <3>2. c.judged # NoRank => c.archived \cap c.verdict.accepted = c.verdict.accepted
      BY <1>1 DEF Judged
    <3>. QED
      BY <1>1, <3>1, <3>2 DEF Judged, ArchivePairsVerdict
  <2>. QED
    BY <2>1, <2>2
<1>3. Judged'
  BY <1>1, <1>2 DEF Judged, Selected, Ordered, Batch, Unjudged, Judging
<1>4. Acted'
  BY <1>1
     DEF Acted, AllChanges, AllCommands, WritesOnlyWhatWasAccepted, RunsOnlyWhatWasVerified, Ordered,
         BeforeReview, BeforeWrite, BeforeRun, Unjudged, Judging
<1>5. Settled'
  BY <1>1 DEF Settled, HasApplyRow, HasRow, Unjudged, Judging, Unconfirmed, Told
<1>6. Trailed'
  BY <1>1 DEF Trailed, ReplanIsEarned
<1>. QED
  BY <1>3, <1>4, <1>5, <1>6

LEMMA CommandsKeeps ==
    ASSUME SiInv, Commands
    PROVE  Judged' /\ Acted' /\ Settled' /\ Trailed'
<1>. USE DEF SiInv
<1>. DEFINE kept == IF sw.gate /\ ~c.verified THEN {} ELSE c.commands
<1>1. c' = [c EXCEPT !.commands = kept, !.approved = IF sw.gate THEN kept ELSE Source]
  BY DEF Commands
<1>. HIDE DEF kept
<1>2. /\ c'.commands = kept /\ c'.approved = (IF sw.gate THEN kept ELSE Source)
      /\ c'.changes = c.changes /\ c'.pass = c.pass /\ c'.landed = c.landed
      /\ c'.reverted = c.reverted /\ c'.ran = c.ran /\ c'.product = c.product /\ c'.torn = c.torn
      /\ UNCHANGED <<planPart, gatePart>>
  BY <1>1 DEF SiTypeOK, CycleRecord, planPart, gatePart
<1>3. /\ stage = "commands" /\ stage' = "review"
      /\ UNCHANGED <<sw, confs, archive, chain, log, ring, disk, lost>>
  BY DEF Commands, ledgers
<1>4. /\ kept \subseteq c.commands
      /\ sw.gate => c'.approved = kept /\ (kept # {} => c.verified)
  BY <1>2 DEF kept
<1>5. Judged'
  BY <1>2, <1>3, <1>4 DEF Judged, Selected, Ordered, Batch, ArchivePairsVerdict, Unjudged, Judging, gatePart
<1>6. Acted'
  BY <1>2, <1>3, <1>4
     DEF Acted, AllChanges, AllCommands, WritesOnlyWhatWasAccepted, RunsOnlyWhatWasVerified, Ordered,
         BeforeReview, BeforeWrite, BeforeRun, Unjudged, Judging, planPart, gatePart, Judged
<1>7. Settled'
  BY <1>2, <1>3
     DEF Settled, HasApplyRow, HasRow, Unjudged, Judging, Unconfirmed, Told, gatePart
<1>8. Trailed'
  BY <1>2, <1>3 DEF Trailed, ReplanIsEarned, planPart
<1>. QED
  BY <1>5, <1>6, <1>7, <1>8

(***************************************************************************)
(* The ladder                                                              *)
(***************************************************************************)
\* An exception, or a crash, that ends the cycle where nothing is open that
\* was settled before.
LEMMA TearKeeps ==
    ASSUME SiInv, stage # "idle", c' = [c EXCEPT !.torn = TRUE], stage' = "done",
           UNCHANGED <<sw, confs, archive, chain>>
    PROVE  Judged' /\ Acted' /\ Settled'
<1>. USE DEF SiInv
<1>1. /\ c'.torn /\ c'.approved = c.approved /\ c'.pass = c.pass /\ c'.landed = c.landed
      /\ c'.reverted = c.reverted /\ c'.ran = c.ran /\ c'.product = c.product
      /\ UNCHANGED <<planPart, workPart, gatePart>>
  BY DEF SiTypeOK, CycleRecord, planPart, workPart, gatePart
<1>2. Judged'
  BY <1>1 DEF Judged, Selected, Ordered, Batch, ArchivePairsVerdict, Unjudged, Judging, workPart, gatePart
<1>3. Acted'
  BY <1>1
     DEF Acted, AllChanges, AllCommands, WritesOnlyWhatWasAccepted, RunsOnlyWhatWasVerified, Ordered,
         BeforeReview, BeforeWrite, BeforeRun, Unjudged, Judging, planPart, workPart, gatePart
<1>4. Settled'
  BY <1>1 DEF Settled, HasApplyRow, HasRow, Unjudged, Judging, Unconfirmed, Told, gatePart
<1>. QED
  BY <1>2, <1>3, <1>4

LEMMA AbortKeeps ==
    ASSUME SiInv, Abort, stage \notin {"idle", "ring"},
           UNCHANGED <<sw, confs, archive, chain, log, ring, disk, lost>>
    PROVE  Judged' /\ Acted' /\ Settled' /\ Trailed'
<1>1. c' = [c EXCEPT !.torn = TRUE] /\ stage' = "done"
  BY DEF Abort
<1>2. Judged' /\ Acted' /\ Settled'
  BY <1>1, TearKeeps
<1>3. Trailed'
  BY <1>1 DEF SiInv, Trailed, ReplanIsEarned
<1>. QED
  BY <1>2, <1>3

LEMMA ReviewKeeps ==
    ASSUME SiInv, Review
    PROVE  Judged' /\ Acted' /\ Settled' /\ Trailed'
<1>. USE DEF SiInv
<1>1. stage = "review" /\ UNCHANGED <<sw, confs, archive, chain, log, ring, disk, lost>>
  BY DEF Review, ledgers
<1>2. CASE Abort
  BY <1>1, <1>2, AbortKeeps
<1>3. CASE ~Abort
  <2>1. PICK ok \in BOOLEAN :
          /\ (AllChanges # {} /\ c.held # NoRank /\ AllChanges # c.verdict.accepted) => ~ok
          /\ c' = [c EXCEPT !.pass = ok]
          /\ stage' = "write"
    BY <1>3 DEF Review
  <2>2. /\ c'.pass = ok /\ c'.approved = c.approved /\ c'.landed = c.landed /\ c'.reverted = c.reverted
        /\ c'.ran = c.ran /\ c'.product = c.product /\ c'.torn = c.torn
        /\ UNCHANGED <<planPart, workPart, gatePart>>
    BY <2>1 DEF SiTypeOK, CycleRecord, planPart, workPart, gatePart
  <2>3. Judged'
    BY <1>1, <2>1, <2>2
       DEF Judged, Selected, Ordered, Batch, ArchivePairsVerdict, Unjudged, Judging, workPart, gatePart
  <2>4. Acted'
    BY <1>1, <2>1, <2>2
       DEF Acted, AllChanges, AllCommands, WritesOnlyWhatWasAccepted, RunsOnlyWhatWasVerified, Ordered,
           BeforeReview, BeforeWrite, BeforeRun, Unjudged, Judging, planPart, workPart, gatePart
  <2>5. Settled'
    BY <1>1, <2>1, <2>2
       DEF Settled, HasApplyRow, HasRow, Unjudged, Judging, Unconfirmed, Told, gatePart
  <2>6. Trailed'
    BY <1>1, <2>1, <2>2 DEF Trailed, ReplanIsEarned, planPart
  <2>. QED
    BY <2>3, <2>4, <2>5, <2>6
<1>. QED
  BY <1>2, <1>3

LEMMA WriteKeeps ==
    ASSUME SiInv, WriteLadder
    PROVE  Judged' /\ Acted' /\ Settled' /\ Trailed'
<1>. USE DEF SiInv
<1>1. stage = "write" /\ UNCHANGED <<sw, confs, archive, chain, log, ring, disk, lost>>
  BY DEF WriteLadder, ledgers
<1>2. CASE Abort
  BY <1>1, <1>2, AbortKeeps
<1>3. CASE ~Abort
  <2>1. PICK outcome \in {"landed", "reverted", "refused"} :
          /\ ~(Authorized /\ sw.write /\ AllChanges # {}) => outcome = "refused"
          /\ c' = [c EXCEPT !.landed = IF outcome = "landed" THEN AllChanges ELSE {},
                            !.reverted = outcome = "reverted"]
          /\ stage' = "execute"
    BY <1>3 DEF WriteLadder
  <2>2. /\ c'.landed = (IF outcome = "landed" THEN AllChanges ELSE {})
        /\ c'.approved = c.approved /\ c'.pass = c.pass
        /\ c'.ran = c.ran /\ c'.product = c.product /\ c'.torn = c.torn
        /\ UNCHANGED <<planPart, workPart, gatePart>>
    BY <2>1 DEF SiTypeOK, CycleRecord, planPart, workPart, gatePart
  <2>3. Judged'
    BY <1>1, <2>1, <2>2
       DEF Judged, Selected, Ordered, Batch, ArchivePairsVerdict, Unjudged, Judging, workPart, gatePart
  <2>4. c'.landed # {} => /\ c'.landed = AllChanges
                          /\ c.held # NoRank => AllChanges = c.verdict.accepted
    BY <1>1, <2>1, <2>2 DEF Authorized, Acted
  <2>5. WritesOnlyWhatWasAccepted'
    <3>1. AllChanges \ {Pod} \subseteq c.changes
      BY DEF AllChanges, SiTypeOK, CycleRecord
    <3>2. sw.gate => /\ c.changes \subseteq c.verdict.accepted
                     /\ Ordered /\ c.changes # {} => c.trusted = c.at /\ c.held = c.at
      BY <1>1 DEF Judged
    <3>3. c.at # NoRank
      BY Names DEF SiTypeOK, CycleRecord
    <3>. QED
      BY <1>1, <2>2, <2>4, <3>1, <3>2, <3>3 DEF WritesOnlyWhatWasAccepted, Ordered, gatePart
  <2>6. Acted'
    BY <1>1, <2>1, <2>2, <2>4, <2>5
       DEF Acted, AllChanges, AllCommands, RunsOnlyWhatWasVerified,
           BeforeReview, BeforeWrite, BeforeRun, Unjudged, Judging, planPart, workPart, gatePart
  <2>7. Settled'
    BY <1>1, <2>1, <2>2
       DEF Settled, HasApplyRow, HasRow, Unjudged, Judging, Unconfirmed, Told, gatePart
  <2>8. Trailed'
    BY <1>1, <2>1, <2>2 DEF Trailed, ReplanIsEarned, planPart
  <2>. QED
    BY <2>3, <2>6, <2>7, <2>8
<1>. QED
  BY <1>2, <1>3

LEMMA ExecuteKeeps ==
    ASSUME SiInv, Execute
    PROVE  Judged' /\ Acted' /\ Settled' /\ Trailed'
<1>. USE DEF SiInv
<1>1. stage = "execute" /\ UNCHANGED <<sw, confs, archive, chain, log, ring, disk, lost>>
  BY DEF Execute, ledgers
<1>2. CASE Abort
  BY <1>1, <1>2, AbortKeeps
<1>3. CASE ~Abort
  <2>1. PICK allowed \in SUBSET AllCommands : c' = [c EXCEPT !.ran = {k \in allowed : MayRun(k)}]
    BY <1>3 DEF Execute
  <2>. DEFINE ran == {k \in allowed : MayRun(k)}
  <2>2. c' = [c EXCEPT !.ran = ran] /\ stage' = "products"
    BY <1>3, <2>1 DEF Execute
  <2>3. /\ ran \subseteq AllCommands
        /\ sw.authority => ran \subseteq c.approved /\ (ran # {} => Authorized)
    BY DEF MayRun
  <2>. HIDE DEF ran
  <2>4. /\ c'.ran = ran /\ c'.approved = c.approved /\ c'.pass = c.pass /\ c'.landed = c.landed
        /\ c'.reverted = c.reverted /\ c'.product = c.product /\ c'.torn = c.torn
        /\ UNCHANGED <<planPart, workPart, gatePart>>
    BY <2>2 DEF SiTypeOK, CycleRecord, planPart, workPart, gatePart
  <2>5. Judged'
    BY <1>1, <2>2, <2>4
       DEF Judged, Selected, Ordered, Batch, ArchivePairsVerdict, Unjudged, Judging, workPart, gatePart
  <2>6. RunsOnlyWhatWasVerified'
    <3>1. sw.gate /\ sw.authority /\ ran # {} =>
            /\ ran \subseteq {Base, c.at} /\ c.verified /\ c.verdict.full
            /\ c.status = "consensus" /\ c.pass
      BY <2>3 DEF Acted, Judged, Authorized
    <3>. QED
      BY <1>1, <2>4, <3>1 DEF RunsOnlyWhatWasVerified, planPart, gatePart
  <2>7. Acted'
    BY <1>1, <2>2, <2>3, <2>4, <2>6
       DEF Acted, AllChanges, AllCommands, WritesOnlyWhatWasAccepted, Ordered,
           BeforeReview, BeforeWrite, BeforeRun, Unjudged, Judging, planPart, workPart, gatePart
  <2>8. Settled'
    BY <1>1, <2>2, <2>4
       DEF Settled, HasApplyRow, HasRow, Unjudged, Judging, Unconfirmed, Told, gatePart
  <2>9. Trailed'
    BY <1>1, <2>2, <2>4 DEF Trailed, ReplanIsEarned, planPart
  <2>. QED
    BY <2>5, <2>7, <2>8, <2>9
<1>. QED
  BY <1>2, <1>3

LEMMA ProductsKeeps ==
    ASSUME SiInv, Products
    PROVE  Judged' /\ Acted' /\ Settled' /\ Trailed'
<1>. USE DEF SiInv
<1>1. stage = "products" /\ UNCHANGED <<sw, confs, archive, chain, log, ring, disk, lost>>
  BY DEF Products, ledgers
<1>2. CASE Abort
  BY <1>1, <1>2, AbortKeeps
<1>3. CASE ~Abort
  <2>1. PICK success \in BOOLEAN : c' = [c EXCEPT !.product = success]
    BY <1>3 DEF Products
  <2>2. stage' = IF c.held # NoRank THEN "confirm" ELSE "chain"
    BY <1>3 DEF Products
  <2>3. /\ c'.ran = c.ran /\ c'.approved = c.approved /\ c'.pass = c.pass /\ c'.landed = c.landed
        /\ c'.reverted = c.reverted /\ c'.torn = c.torn
        /\ UNCHANGED <<planPart, workPart, gatePart>>
    BY <2>1 DEF SiTypeOK, CycleRecord, planPart, workPart, gatePart
  <2>4. Judged'
    BY <1>1, <2>2, <2>3
       DEF Judged, Selected, Ordered, Batch, ArchivePairsVerdict, Unjudged, Judging, workPart, gatePart
  <2>5. Acted'
    BY <1>1, <2>2, <2>3
       DEF Acted, AllChanges, AllCommands, WritesOnlyWhatWasAccepted, RunsOnlyWhatWasVerified, Ordered,
           BeforeReview, BeforeWrite, BeforeRun, Unjudged, Judging, planPart, workPart, gatePart
  <2>6. Settled'
    BY <1>1, <2>2, <2>3, Names
       DEF Settled, HasApplyRow, HasRow, Unjudged, Judging, Unconfirmed, Told, gatePart, SiTypeOK
  <2>7. Trailed'
    BY <1>1, <2>2, <2>3 DEF Trailed, ReplanIsEarned, planPart
  <2>. QED
    BY <2>4, <2>5, <2>6, <2>7
<1>. QED
  BY <1>2, <1>3

LEMMA ConfirmKeeps ==
    ASSUME SiInv, Confirm
    PROVE  Judged' /\ Acted' /\ Settled' /\ Trailed'
<1>. USE DEF SiInv
<1>1. /\ stage = "confirm" /\ stage' = "chain"
      /\ UNCHANGED <<sw, archive, chain, log, ring, disk, lost>>
  BY DEF Confirm, ledgers
<1>2. /\ c'.ran = c.ran /\ c'.approved = c.approved /\ c'.pass = c.pass /\ c'.landed = c.landed
      /\ c'.reverted = c.reverted /\ c'.product = c.product
      /\ UNCHANGED <<planPart, workPart, gatePart>>
  BY DEF Confirm, SiTypeOK, CycleRecord, planPart, workPart, gatePart
<1>3. Judged'
  BY <1>1, <1>2
     DEF Judged, Selected, Ordered, Batch, ArchivePairsVerdict, Unjudged, Judging, workPart, gatePart
<1>4. Acted'
  BY <1>1, <1>2
     DEF Acted, AllChanges, AllCommands, WritesOnlyWhatWasAccepted, RunsOnlyWhatWasVerified, Ordered,
         BeforeReview, BeforeWrite, BeforeRun, Unjudged, Judging, planPart, workPart, gatePart
<1>5. Settled'
  <2>1. c.held \in DOMAIN confs /\ confs[c.held] = "open"
    BY <1>1, Names DEF Settled, Unconfirmed, SiTypeOK, CycleRecord, Candidate
  <2>2. CASE confs' = SettleConf(c.held, IF c.landed # {} THEN "applied" ELSE "discarded") /\ UNCHANGED c
    <3>1. /\ DOMAIN confs' = DOMAIN confs
          /\ \A b \in DOMAIN confs : confs'[b] =
                 IF b # c.held THEN confs[b] ELSE IF c.landed # {} THEN "applied" ELSE "discarded"
      BY <2>1, <2>2 DEF SettleConf, SiTypeOK
    <3>2. c.landed # {} => c.landed = c.verdict.accepted
      BY <1>1, <2>1, Names DEF Acted, SiTypeOK
    <3>. QED
      BY <1>1, <2>1, <2>2, <3>1, <3>2
         DEF Settled, HasApplyRow, HasRow, Unjudged, Judging, Unconfirmed, Told
  <2>3. CASE c' = [c EXCEPT !.torn = TRUE] /\ UNCHANGED confs
    <3>1. c'.torn
      BY <2>3 DEF SiTypeOK, CycleRecord
    <3>. QED
      BY <1>1, <1>2, <2>3, <3>1
         DEF Settled, HasApplyRow, HasRow, Unjudged, Judging, Unconfirmed, Told, gatePart
  <2>. QED
    BY <2>2, <2>3 DEF Confirm
<1>6. Trailed'
  BY <1>1, <1>2 DEF Trailed, ReplanIsEarned, planPart
<1>. QED
  BY <1>3, <1>4, <1>5, <1>6

(***************************************************************************)
(* The records                                                             *)
(***************************************************************************)
\* A row of the chain is written and the cycle goes on to the next.
LEMMA RowKeeps ==
    ASSUME SiInv, NEW kind \in {"apply", "rollback", "command"},
           stage = (CASE kind = "apply" -> "chain" [] kind = "rollback" -> "rollback"
                      [] kind = "command" -> "command"),
           stage' = (CASE kind = "apply" -> AfterApply [] kind = "rollback" -> AfterRollback
                       [] kind = "command" -> "log"),
           chain' = chain \cup {[kind |-> kind, applied |-> c.landed # {}, product |-> c.product]},
           UNCHANGED <<sw, c, confs, archive, log, ring, disk, lost>>
    PROVE  Judged' /\ Acted' /\ Settled' /\ Trailed'
<1>. USE DEF SiInv
<1>1. stage \in {"chain", "rollback", "command"} /\ stage' \in {"rollback", "command", "log"}
  BY DEF AfterApply, AfterRollback
<1>2. Judged'
  BY <1>1 DEF Judged, Selected, Ordered, Batch, ArchivePairsVerdict, Unjudged, Judging
<1>3. Acted'
  BY <1>1
     DEF Acted, AllChanges, AllCommands, WritesOnlyWhatWasAccepted, RunsOnlyWhatWasVerified, Ordered,
         BeforeReview, BeforeWrite, BeforeRun, Unjudged, Judging
<1>4. HasApplyRow'
  BY <1>1 DEF HasApplyRow, Settled
<1>5. HasRow(kind)' /\ \A k \in {"apply", "rollback", "command"} : HasRow(k) => HasRow(k)'
  <2>1. [kind |-> kind, applied |-> c.landed # {}, product |-> c.product].kind = kind
    OBVIOUS
  <2>. QED
    BY <2>1 DEF HasRow
<1>6. stage' \in {"command", "log"} => (c.reverted => HasRow("rollback")')
  BY <1>5 DEF Settled, AfterApply
<1>7. stage' = "log" => (c.ran # {} => HasRow("command")')
  BY <1>5 DEF Settled, Acted, AfterApply, AfterRollback
<1>8. Settled'
  BY <1>1, <1>4, <1>6, <1>7 DEF Settled, Unjudged, Judging, Unconfirmed, Told, HasRow
<1>9. Trailed'
  BY <1>1 DEF Trailed, ReplanIsEarned
<1>. QED
  BY <1>2, <1>3, <1>8, <1>9

LEMMA RecordsKeep ==
    ASSUME SiInv, RecordApply \/ RecordRollback \/ RecordCommands
    PROVE  Judged' /\ Acted' /\ Settled' /\ Trailed'
<1>1. CASE RecordApply
  <2>1. stage = "chain" /\ UNCHANGED <<sw, confs, archive, log, ring, disk, lost>>
    BY <1>1 DEF RecordApply, ledgers
  <2>2. CASE Abort /\ UNCHANGED chain
    BY <2>1, <2>2, AbortKeeps
  <2>3. CASE ~(Abort /\ UNCHANGED chain)
    <3>1. /\ chain' = chain \cup {[kind |-> "apply", applied |-> c.landed # {}, product |-> c.product]}
          /\ stage' = AfterApply /\ UNCHANGED c
      BY <1>1, <2>3 DEF RecordApply, AppendChain
    <3>. QED
      BY <2>1, <3>1, RowKeeps
  <2>. QED
    BY <2>2, <2>3
<1>2. CASE RecordRollback
  <2>1. stage = "rollback" /\ UNCHANGED <<sw, confs, archive, log, ring, disk, lost>>
    BY <1>2 DEF RecordRollback, ledgers
  <2>2. CASE Abort /\ UNCHANGED chain
    BY <2>1, <2>2, AbortKeeps
  <2>3. CASE ~(Abort /\ UNCHANGED chain)
    <3>1. /\ chain' = chain \cup {[kind |-> "rollback", applied |-> c.landed # {}, product |-> c.product]}
          /\ stage' = AfterRollback /\ UNCHANGED c
      BY <1>2, <2>3 DEF RecordRollback, AppendChain
    <3>. QED
      BY <2>1, <3>1, RowKeeps
  <2>. QED
    BY <2>2, <2>3
<1>3. CASE RecordCommands
  <2>1. stage = "command" /\ UNCHANGED <<sw, confs, archive, log, ring, disk, lost>>
    BY <1>3 DEF RecordCommands, ledgers
  <2>2. CASE Abort /\ UNCHANGED chain
    BY <2>1, <2>2, AbortKeeps
  <2>3. CASE ~(Abort /\ UNCHANGED chain)
    <3>1. /\ chain' = chain \cup {[kind |-> "command", applied |-> c.landed # {}, product |-> c.product]}
          /\ stage' = "log" /\ UNCHANGED c
      BY <1>3, <2>3 DEF RecordCommands, AppendChain
    <3>. QED
      BY <2>1, <3>1, RowKeeps
  <2>. QED
    BY <2>2, <2>3
<1>. QED
  BY <1>1, <1>2, <1>3

\* The trail grows with its statuses, up to the threshold.
LEMMA ExtendGrows ==
    ASSUME NEW x \in 0..Replan, NEW y \in 0..Replan, NEW status
    PROVE  /\ Extend(x, status) \in 0..Replan
           /\ x <= y => Extend(x, status) <= Extend(y, status)
           /\ status # "escalated" => Extend(x, status) = 0
  BY DEF Extend, Replan

LEMMA AppendLogKeeps ==
    ASSUME SiInv, AppendLog
    PROVE  Judged' /\ Acted' /\ Settled' /\ Trailed'
<1>. USE DEF SiInv
<1>1. stage = "log" /\ UNCHANGED <<sw, confs, archive, chain, ring, disk, lost>>
  BY DEF AppendLog
<1>2. CASE Abort /\ UNCHANGED log
  BY <1>1, <1>2, AbortKeeps
<1>3. CASE ~(Abort /\ UNCHANGED log)
  <2>1. log' = Extend(log, Outcome) /\ stage' = "ring" /\ UNCHANGED c
    BY <1>3 DEF AppendLog
  <2>2. Judged'
    BY <1>1, <2>1 DEF Judged, Selected, Ordered, Batch, ArchivePairsVerdict, Unjudged, Judging
  <2>3. Acted'
    BY <1>1, <2>1
       DEF Acted, AllChanges, AllCommands, WritesOnlyWhatWasAccepted, RunsOnlyWhatWasVerified, Ordered,
           BeforeReview, BeforeWrite, BeforeRun, Unjudged, Judging
  <2>4. Settled'
    BY <1>1, <2>1 DEF Settled, HasApplyRow, HasRow, Unjudged, Judging, Unconfirmed, Told
  <2>5. Trailed'
    <3>1. Outcome' = Outcome
      BY <2>1 DEF Outcome, RingStatus
    <3>2. Outcome # "escalated" => log' = 0
      BY <2>1, ExtendGrows DEF SiTypeOK
    <3>3. ~lost => log' = Extend(disk, Outcome)
      BY <1>1, <2>1 DEF Trailed
    <3>. QED
      BY <1>1, <2>1, <3>1, <3>2, <3>3 DEF Trailed, ReplanIsEarned
  <2>. QED
    BY <2>2, <2>3, <2>4, <2>5
<1>. QED
  BY <1>2, <1>3

LEMMA AppendRingKeeps ==
    ASSUME SiInv, AppendRing
    PROVE  Judged' /\ Acted' /\ Settled' /\ Trailed'
<1>. USE DEF SiInv
<1>1. /\ stage = "ring" /\ stage' = "done" /\ ring' = Extend(ring, Outcome)
      /\ UNCHANGED <<sw, c, confs, archive, chain, log>>
  BY DEF AppendRing, RingOutcome, Outcome
<1>2. Judged'
  BY <1>1 DEF Judged, Selected, Ordered, Batch, ArchivePairsVerdict, Unjudged, Judging
<1>3. Acted'
  BY <1>1
     DEF Acted, AllChanges, AllCommands, WritesOnlyWhatWasAccepted, RunsOnlyWhatWasVerified, Ordered,
         BeforeReview, BeforeWrite, BeforeRun, Unjudged, Judging
<1>4. Settled'
  BY <1>1 DEF Settled, HasApplyRow, HasRow, Unjudged, Judging, Unconfirmed, Told
<1>5. Trailed'
  <2>1. CASE lost'
    BY <1>1, <2>1 DEF Trailed, ReplanIsEarned
  <2>2. CASE ~lost'
    <3>1. disk' = Extend(disk, Outcome) /\ (~lost \/ Outcome # "escalated")
      BY <2>2 DEF AppendRing, RingOutcome, Outcome
    <3>2. disk' = log' /\ ring' <= disk' /\ (sw.rehydrate => ring' = disk')
      <4>1. CASE ~lost
        BY <1>1, <3>1, <4>1, ExtendGrows DEF Trailed, SiTypeOK
      <4>2. CASE Outcome # "escalated"
        BY <1>1, <3>1, <4>2, ExtendGrows DEF Trailed, SiTypeOK
      <4>. QED
        BY <3>1, <4>1, <4>2
    <3>. QED
      BY <1>1, <3>2 DEF Trailed, ReplanIsEarned
  <2>. QED
    BY <2>1, <2>2
<1>. QED
  BY <1>2, <1>3, <1>4, <1>5

LEMMA DoneKeeps ==
    ASSUME SiInv, Done
    PROVE  Judged' /\ Acted' /\ Settled' /\ Trailed'
<1>. USE DEF SiInv
<1>1. /\ stage = "done" /\ stage' = "idle" /\ c' = NewCycle /\ confs' = NoConfirmation
      /\ archive' = NoArchive /\ UNCHANGED <<sw, log, ring, disk, lost>>
  BY DEF Done, ledgers
<1>2. /\ c'.ranked = 0 /\ c'.at = Base /\ c'.changes = {} /\ c'.commands = {} /\ c'.verdict = NoVerdict
      /\ c'.held = NoRank /\ c'.judged = NoRank /\ ~c'.verified /\ c'.approved = {}
      /\ c'.landed = {} /\ ~c'.reverted /\ c'.ran = {} /\ ~c'.torn
  BY <1>1 DEF NewCycle, Base
<1>3. Judged'
  BY <1>1, <1>2, Names
     DEF Judged, Selected, Ordered, Batch, ArchivePairsVerdict, Unjudged, Judging, NoVerdict, NoArchive
<1>4. Acted'
  BY <1>1, <1>2
     DEF Acted, AllChanges, AllCommands, WritesOnlyWhatWasAccepted, RunsOnlyWhatWasVerified, Ordered
<1>5. Settled'
  BY <1>1, <1>2
     DEF Settled, HasApplyRow, HasRow, Unjudged, Judging, Unconfirmed, Told, NoConfirmation
<1>6. Trailed'
  BY <1>1 DEF Trailed, ReplanIsEarned
<1>. QED
  BY <1>3, <1>4, <1>5, <1>6

LEMMA DieKeeps ==
    ASSUME SiInv, DieInCycle
    PROVE  Judged' /\ Acted' /\ Settled' /\ Trailed'
<1>1. /\ stage \notin {"idle", "done"} /\ stage' = "done" /\ c' = [c EXCEPT !.torn = TRUE]
      /\ ring' = IF sw.rehydrate THEN disk ELSE 0
      /\ UNCHANGED <<sw, confs, archive, chain, log, disk>>
  BY DEF DieInCycle
<1>2. lost' <=> (lost \/ stage = "ring")
  BY DEF DieInCycle
<1>3. Judged' /\ Acted' /\ Settled'
  BY <1>1, TearKeeps
<1>4. Trailed'
  BY <1>1, <1>2 DEF SiInv, SiTypeOK, Replan, Trailed, ReplanIsEarned
<1>. QED
  BY <1>3, <1>4

(***************************************************************************)
(* The invariant                                                           *)
(***************************************************************************)
LEMMA SiInvInit == SiInit => SiInv
<1>. SUFFICES ASSUME SiInit PROVE SiInv
  OBVIOUS
<1>1. SiTypeOK
  BY InitType
<1>2. /\ c.ranked = 0 /\ c.at = Base /\ c.changes = {} /\ c.commands = {} /\ c.verdict = NoVerdict
      /\ c.held = NoRank /\ c.judged = NoRank /\ ~c.verified /\ c.approved = {}
      /\ c.landed = {} /\ ~c.reverted /\ c.ran = {} /\ ~c.torn
  BY DEF SiInit, NewCycle, Base
<1>3. /\ stage = "idle" /\ confs = NoConfirmation /\ archive = NoArchive
      /\ log = 0 /\ ring = 0 /\ disk = 0
  BY DEF SiInit
<1>4. Judged
  BY <1>2, <1>3, Names
     DEF Judged, Selected, Ordered, Batch, ArchivePairsVerdict, Unjudged, Judging, NoVerdict, NoArchive
<1>5. Acted
  BY <1>2, <1>3
     DEF Acted, AllChanges, AllCommands, WritesOnlyWhatWasAccepted, RunsOnlyWhatWasVerified, Ordered
<1>6. Settled
  BY <1>2, <1>3
     DEF Settled, HasApplyRow, HasRow, Unjudged, Judging, Unconfirmed, Told, NoConfirmation
<1>7. Trailed
  BY <1>3 DEF Trailed, ReplanIsEarned
<1>. QED
  BY <1>1, <1>4, <1>5, <1>6, <1>7 DEF SiInv

LEMMA SiInvStep == SiInv /\ [SiNext]_siVars => SiInv'
<1>. SUFFICES ASSUME SiInv, [SiNext]_siVars PROVE SiInv'
  OBVIOUS
<1>1. CASE SiNext
  <2>1. SiTypeOK'
    BY <1>1, TypeIsKept DEF SiInv
  <2>2. Judged' /\ Acted' /\ Settled' /\ Trailed'
    BY <1>1, StartKeeps, EditLanesKeeps, OthersKeep, VerifyKeeps, DiscardKeeps, JudgeKeeps,
       ArchiveKeeps, CommandsKeeps, ReviewKeeps, WriteKeeps, ExecuteKeeps, ProductsKeeps,
       ConfirmKeeps, RecordsKeep, AppendLogKeeps, AppendRingKeeps, DoneKeeps, DieKeeps
       DEF SiNext
  <2>. QED
    BY <2>1, <2>2 DEF SiInv
<1>2. CASE UNCHANGED siVars
  BY <1>2
     DEF siVars, SiInv, SiTypeOK, Judged, Acted, Settled, Trailed, Selected, Ordered, Batch,
         AllChanges, AllCommands, ArchivePairsVerdict, WritesOnlyWhatWasAccepted,
         RunsOnlyWhatWasVerified, HasApplyRow, HasRow, Outcome, RingStatus, ReplanIsEarned, ledgers
<1>. QED
  BY <1>1, <1>2

\* A behaviour of the whole is one of the self-improvement cycle.
LEMMA SiSteps ==
    /\ WholeInit => SiInit
    /\ [WholeNext]_wholeVars => [SiNext]_siVars
  BY DEF WholeInit, WholeNext, wholeVars

LEMMA SiInvariant == WholeSpec => []SiInv
<1>1. WholeInit => SiInv
  BY SiSteps, SiInvInit
<1>2. SiInv /\ [WholeNext]_wholeVars => SiInv'
  BY SiSteps, SiInvStep
<1>. QED
  BY <1>1, <1>2, PTL DEF WholeSpec

(***************************************************************************)
(* Theorems about the self-improvement cycle                               *)
(***************************************************************************)
\* Every variable of the cycle keeps its type: no confirmation, candidate or
\* trail leaves its range, however many cycles run (run_one_si_cycle).
THEOREM CycleTypes == WholeSpec => []SiTypeOK
  BY SiInvariant, PTL DEF SiInv

\* Behind an armed gate what is run, written and archived is what the last full
\* verdict was about, for every number of ranked candidates and whatever goes
\* wrong in between (the verify gate and the apply ladder of run_one_si_cycle).
THEOREM TheVerdictIsRespected == WholeSpec => []VerdictIsRespected
<1>1. SiInv => VerdictIsRespected
  BY DEF SiInv, Acted, Judged, VerdictIsRespected
<1>. QED
  BY <1>1, SiInvariant, PTL

\* Confirmations, chain, log and ring tell the same story of every cycle
\* (confirm_apply, append_entry, append_cycle_log_entry, ContinuationRing).
THEOREM TheRecordsAgree == WholeSpec => []RecordsAgree
<1>1. SiInv => ConfirmationsAreSettled
  BY DEF SiInv, Settled, ConfirmationsAreSettled, Told
<1>2. SiInv => LogImpliesChain
  BY DEF SiInv, Settled, LogImpliesChain, HasApplyRow, HasRow
<1>3. SiInv => RecordsAgree
  BY <1>1, <1>2 DEF SiInv, Trailed, RecordsAgree
<1>. QED
  BY <1>3, SiInvariant, PTL

\* The campaign's goal is set once and ended by the operator alone: no later
\* objective and no failed read replaces it (the durable goal of
\* run_one_si_cycle).
THEOREM TheGoalIsKept == WholeSpec => GoalIsKept
<1>1. [SiNext]_siVars => [goal # NoGoal => goal' \in {goal, "complete"}]_siVars
  <2>. SUFFICES ASSUME SiNext PROVE goal # NoGoal => goal' \in {goal, "complete"}
    OBVIOUS
  <2>1. CASE Reinject
    BY <2>1 DEF Reinject, Adopts
  <2>2. CASE CompleteGoal
    BY <2>2 DEF CompleteGoal
  <2>3. CASE ~Reinject /\ ~CompleteGoal
    <3>1. UNCHANGED goal
      BY <2>3 DEF SiNext, NewProcess, Start, Propose, EditLanes, VerifyNext, Discard, Judge,
                  Archive, Commands, Review, WriteLadder, Execute, Products, Confirm, RecordApply,
                  RecordRollback, RecordCommands, AppendLog, AppendRing, Done, DieInCycle
    <3>. QED
      BY <3>1
  <2>. QED
    BY <2>1, <2>2, <2>3
<1>2. [WholeNext]_wholeVars => [SiNext]_siVars
  BY SiSteps
<1>. QED
  BY <1>1, <1>2, PTL DEF WholeSpec, GoalIsKept

(***************************************************************************)
(* The evidence card                                                       *)
(***************************************************************************)
\* The states of a card's way to acceptance, none of which has a dispute behind
\* it, and the verifications that it must have behind it by then.
CardInv ==
    /\ CardTypeOK
    /\ card \in seen
    /\ card \in {"draft", "hypothesis", "executed_unverified", "verified_once",
                 "verified_twice", "accepted"} =>
           seen \cap {"contradicted", "infeasible_recorded", "rejected"} = {}
    /\ card \in {"verified_twice", "accepted"} => "verified_once" \in seen
    /\ card = "accepted" => "verified_twice" \in seen

\* However a step promotes the card, it takes one of the listed transitions.
LEMMA CardSteps ==
    ASSUME CardNext, card \in CardState
    PROVE  /\ card' \in CardState
           /\ \/ UNCHANGED cardVars
              \/ <<card, card'>> \in Transitions /\ seen' = seen \cup {card'}
              \/ card' = card /\ seen' = seen \cup {card}
<1>1. PICK to \in CardState, decision \in BOOLEAN :
        \/ PromoteCard(to, decision)
        \/ \E doubt \in BOOLEAN : PromoteWithAudit(to, decision, doubt)
        \/ \E report \in Report : GatedPromote(to, decision, report)
  BY DEF CardNext
<1>2. CASE PromoteCard(to, decision)
  BY <1>2 DEF PromoteCard, CanPromote
<1>3. CASE \E doubt \in BOOLEAN : PromoteWithAudit(to, decision, doubt)
  BY <1>3 DEF PromoteWithAudit, CanPromote
<1>4. CASE \E report \in Report : GatedPromote(to, decision, report)
  BY <1>4 DEF GatedPromote, PromoteCard, CanPromote, cardVars
<1>. QED
  BY <1>1, <1>2, <1>3, <1>4

LEMMA CardInvariant == WholeSpec => []CardInv
<1>1. WholeInit => CardInv
  BY DEF WholeInit, CardInit, CardInv, CardTypeOK, CardState
<1>2. CardInv /\ CardNext => CardInv'
  <2>. SUFFICES ASSUME CardInv, CardNext PROVE CardInv'
    OBVIOUS
  <2>1. card' \in CardState
    BY CardSteps DEF CardInv, CardTypeOK
  <2>2. CASE UNCHANGED cardVars
    BY <2>2 DEF CardInv, CardTypeOK, cardVars
  <2>3. CASE <<card, card'>> \in Transitions /\ seen' = seen \cup {card'}
    BY <2>1, <2>3 DEF CardInv, CardTypeOK, Transitions
  <2>4. CASE card' = card /\ seen' = seen \cup {card}
    BY <2>4 DEF CardInv, CardTypeOK
  <2>. QED
    BY <2>2, <2>3, <2>4, CardSteps DEF CardInv, CardTypeOK
<1>3. CardInv /\ UNCHANGED cardVars => CardInv'
  BY DEF CardInv, CardTypeOK, cardVars
<1>4. [WholeNext]_wholeVars => CardNext \/ UNCHANGED cardVars
  BY DEF WholeNext, wholeVars
<1>. QED
  BY <1>1, <1>2, <1>3, <1>4, PTL DEF WholeSpec

\* A card is always in one of its states (EvidenceState).
THEOREM CardTypes == WholeSpec => []CardTypeOK
  BY CardInvariant, PTL DEF CardInv

\* A card is accepted only after two verifications and with no dispute behind
\* it, whichever of the promotions its steps took (_TRANSITIONS, promote,
\* promote_with_audit, gated_promote).
THEOREM TheAcceptedWasVerified == WholeSpec => []AcceptedWasVerified
<1>1. CardInv => AcceptedWasVerified
  BY DEF CardInv, AcceptedWasVerified
<1>. QED
  BY <1>1, CardInvariant, PTL

(***************************************************************************)
(* The orchestrator's cycle                                                *)
(***************************************************************************)
Ended == {"handoff", "phases", "judge", "retry", "provider", "close", "done"}
Settling == {"lanes", "multimodal", "critic", "settle"}

\* What is told, place by place: nothing of the end before there is one, the
\* acceptance only of a consensus with no failed agent, and afterwards the end.
CycleInv ==
    /\ on \subseteq Hook /\ r \in Gathered
    /\ phase \notin Ended \cup {"idle"} =>
           /\ r.end = "" /\ r.verdict = "" /\ r.phases = {} /\ r.handoff = "" /\ r.told = ""
           /\ r.trail = "" /\ r.retry = 0
    /\ phase \notin Ended \cup Settling \cup {"raised"} => "postaccept" \notin r.fired
    /\ phase \in Settling => ("postaccept" \in r.fired => r.status = "consensus" /\ r.early = {})
    /\ phase \in Settling => r.failed \ r.early \subseteq {x \in {"critic"} : phase = "settle"}
    /\ phase \in Settling \cup {"hooks"} => r.status # ""
    /\ phase \in Ended =>
           /\ r.end # "" /\ (r.end = "consensus" => r.failed = {} /\ "retry_chain" \notin r.phases)
           /\ r.handoff \in {"", r.end} /\ r.told \in {"", r.end}
           /\ r.verdict = "accept" => r.end = "consensus"
           /\ r.end = "consensus" => r.trail = ""
    /\ phase \in {"handoff", "phases", "judge"} => r.trail = "" /\ r.retry = 0
    /\ phase = "retry" => r.end # "consensus" /\ r.retry <= MaxRetry
    /\ phase \in {"provider", "close", "done"} => r.trail \in {"", "escalate"}
    /\ PostacceptStands

\* The fields that most of the steps leave alone.
endPart == <<r.end, r.verdict, r.phases, r.handoff, r.told, r.trail, r.retry>>
hookPart == <<r.fired, r.early, r.status>>

LEMMA FreshType == Fresh \in Gathered
  BY DEF Fresh, Gathered, Word, MaxRetryChainIterations

LEMMA Begins ==
    ASSUME CycleInv, Disabled \/ Begin \/ Return
    PROVE  CycleInv'
<1>1. CASE Disabled
  <2>1. [Fresh EXCEPT !.end = "blocked"] \in Gathered
    BY FreshType DEF Gathered, Word
  <2>2. phase' = "idle" /\ r'.fired = {} /\ on' = on /\ r' \in Gathered
    BY <1>1, <2>1 DEF Disabled, Fresh
  <2>. QED
    BY <2>2 DEF CycleInv, PostacceptStands, Ended, Settling
<1>2. CASE Begin \/ Return
  <2>1. r' = Fresh /\ on' = on /\ phase' \in {"idle", "planner", "ladder"}
    BY <1>2 DEF Begin, Return
  <2>2. /\ r'.fired = {} /\ r'.end = "" /\ r'.verdict = "" /\ r'.phases = {} /\ r'.handoff = ""
        /\ r'.told = "" /\ r'.trail = "" /\ r'.retry = 0
    BY <2>1 DEF Fresh
  <2>. QED
    BY <2>1, <2>2, FreshType DEF CycleInv, PostacceptStands, Ended, Settling
<1>. QED
  BY <1>1, <1>2

\* Planning, activation, evidence and vote.
LEMMA PlansAndVotes ==
    ASSUME CycleInv, (\E n \in 1..4 : Agent(n)) \/ SelectActivation \/ GetEvidence \/ RunSi
    PROVE  CycleInv'
<1>1. CASE \E n \in 1..4 : Agent(n)
  <2>1. PICK n \in 1..4 : Agent(n)
    BY <1>1
  <2>2. phase \in {"planner", "architect", "planner_merge", "executor"}
    BY <2>1 DEF Agent, Stages
  <2>3. phase' \in {"architect", "planner_merge", "executor", "ladder"} /\ on' = on
    BY <2>1 DEF Agent, Stages
  <2>4. AgentKind(phase) \in Agents
    BY <2>2 DEF AgentKind, Agents
  <2>5. CASE r' = [r EXCEPT !.failed = {AgentKind(phase)}]
    <3>1. r' \in Gathered /\ UNCHANGED <<endPart, hookPart>>
      BY <2>4, <2>5 DEF CycleInv, Gathered, endPart, hookPart
    <3>. QED
      BY <2>2, <2>3, <3>1 DEF CycleInv, endPart, hookPart, PostacceptStands, Ended, Settling
  <2>6. CASE r' = [r EXCEPT !.invoked = @ \cup {AgentKind(phase)},
                            !.tickets = @ \/ n = 4,
                            !.fired = Fired(CASE n = 1 -> {"planning"}
                                              [] n = 4 -> {"trace"}
                                              [] OTHER -> {})]
    <3>. DEFINE fired == Fired(CASE n = 1 -> {"planning"} [] n = 4 -> {"trace"} [] OTHER -> {})
    <3>1. fired \in SUBSET Hook /\ ("postaccept" \notin r.fired => "postaccept" \notin fired)
      BY <2>1 DEF Fired, CycleInv, Gathered, Hook
    <3>2. PICK made \in BOOLEAN : made = (r.tickets \/ n = 4)
      OBVIOUS
    <3>4. PICK hooks \in SUBSET Hook : hooks = fired
      BY <3>1
    <3>. HIDE DEF fired
    <3>5. r \in Gathered
      BY DEF CycleInv
    <3>6. PICK called \in SUBSET (Agents \cup {"continuation"}) : called = r.invoked \cup {AgentKind(phase)}
      BY <2>4, <3>5 DEF Gathered
    <3>7. r' = [r EXCEPT !.invoked = called, !.tickets = made, !.fired = hooks]
      BY <2>6, <3>2, <3>4, <3>6 DEF fired
    <3>3. r' \in Gathered /\ UNCHANGED <<endPart, r.early, r.status>> /\ r'.fired = fired
      BY <3>4, <3>5, <3>7 DEF Gathered, endPart
    <3>. QED
      BY <2>2, <2>3, <3>1, <3>3 DEF CycleInv, endPart, PostacceptStands, Ended, Settling
  <2>. QED
    BY <2>1, <2>5, <2>6 DEF Agent
<1>2. CASE SelectActivation
  <2>1. phase = "ladder" /\ phase' \in {"evidence", "raised"} /\ on' = on
    BY <1>2 DEF SelectActivation
  <2>2. r' \in Gathered /\ UNCHANGED <<endPart, hookPart>>
    <3>1. CASE UNCHANGED r
      BY <3>1 DEF CycleInv, endPart, hookPart
    <3>2. CASE ~UNCHANGED r
      <4>1. PICK n \in {0, 1} : r' = [r EXCEPT !.lanes = n]
        BY <1>2, <3>2 DEF SelectActivation
      <4>. QED
        BY <4>1 DEF CycleInv, Gathered, endPart, hookPart
    <3>. QED
      BY <3>1, <3>2
  <2>. QED
    BY <2>1, <2>2 DEF CycleInv, endPart, hookPart, PostacceptStands, Ended, Settling
<1>3. CASE GetEvidence
  <2>1. phase = "evidence" /\ phase' \in {"vote", "raised"} /\ UNCHANGED <<on, r>>
    BY <1>3 DEF GetEvidence
  <2>. QED
    BY <2>1 DEF CycleInv, PostacceptStands, Ended, Settling
<1>4. CASE RunSi
  <2>1. phase = "vote" /\ phase' \in {"hooks", "raised"} /\ on' = on
    BY <1>4 DEF RunSi
  <2>2. CASE phase' = "raised" /\ UNCHANGED r
    BY <2>1, <2>2 DEF CycleInv, PostacceptStands, Ended, Settling
  <2>3. CASE ~(phase' = "raised" /\ UNCHANGED r)
    <3>1. PICK fails \in SUBSET {"sia_controller", "critic"} :
            r' = [r EXCEPT !.status = Status(vote), !.failed = @ \cup fails]
      BY <1>4, <2>3 DEF RunSi
    <3>2. Status(vote) \in Word \ {""}
      BY DEF Status, Word
    <3>3. r.failed \cup fails \in SUBSET Agents
      BY DEF CycleInv, Gathered, Agents
    <3>4. r' \in Gathered /\ UNCHANGED <<endPart, r.fired, r.early>> /\ r'.status # ""
      BY <3>1, <3>2, <3>3 DEF CycleInv, Gathered, endPart
    <3>. QED
      BY <2>1, <3>4 DEF CycleInv, endPart, PostacceptStands, Ended, Settling
  <2>. QED
    BY <2>2, <2>3
<1>. QED
  BY <1>1, <1>2, <1>3, <1>4

\* The hooks, the lanes, the multimodal step and the critic.
LEMMA TellsAndAsks ==
    ASSUME CycleInv, FireHooks \/ RunSiLayer \/ RunMultimodal \/ AskCritic
    PROVE  CycleInv'
<1>1. CASE FireHooks
  <2>1. phase = "hooks" /\ phase' = "lanes" /\ on' = on
        /\ r' = [r EXCEPT !.fired = Fired(HooksOf(r.status, r.failed)), !.early = r.failed]
    BY <1>1 DEF FireHooks
  <2>2. /\ Fired(HooksOf(r.status, r.failed)) \in SUBSET Hook /\ r.failed \in SUBSET Agents
        /\ "postaccept" \in Fired(HooksOf(r.status, r.failed)) =>
               "postaccept" \in r.fired \/ (r.status = "consensus" /\ r.failed = {})
    BY DEF Fired, HooksOf, CycleInv, Gathered, Hook
  <2>3. /\ r' \in Gathered /\ UNCHANGED <<endPart, r.status, r.failed>>
        /\ r'.fired = Fired(HooksOf(r.status, r.failed)) /\ r'.early = r.failed
    BY <2>1, <2>2 DEF CycleInv, Gathered, endPart
  <2>. QED
    BY <2>1, <2>2, <2>3 DEF CycleInv, endPart, PostacceptStands, Ended, Settling
<1>2. CASE RunSiLayer
  <2>1. phase = "lanes" /\ phase' \in {"multimodal", "raised"} /\ on' = on
    BY <1>2 DEF RunSiLayer
  <2>2. r' \in Gathered /\ UNCHANGED <<endPart, hookPart, r.failed>>
    <3>1. CASE UNCHANGED r
      BY <3>1 DEF CycleInv, endPart, hookPart
    <3>2. CASE ~UNCHANGED r
      <4>1. PICK enabled \in BOOLEAN :
              r' = [r EXCEPT !.lanes = 0,
                             !.emitted = IF enabled /\ r.lanes > 0 THEN TicketsEmitted(r.lanes) ELSE 0]
        BY <1>2, <3>2 DEF RunSiLayer
      <4>2. r.lanes \in {0, 1}
        BY DEF CycleInv, Gathered
      <4>3. TicketsEmitted(1) \in Nat
        BY DEF TicketsEmitted, Scaled, Share, Deficit, LaneAllocation
      <4>4. (IF enabled /\ r.lanes > 0 THEN TicketsEmitted(r.lanes) ELSE 0) \in Nat
        BY <4>2, <4>3
      <4>. QED
        BY <4>1, <4>4 DEF CycleInv, Gathered, endPart, hookPart
    <3>. QED
      BY <3>1, <3>2
  <2>. QED
    BY <2>1, <2>2 DEF CycleInv, endPart, hookPart, PostacceptStands, Ended, Settling
<1>3. CASE RunMultimodal
  <2>1. phase = "multimodal" /\ phase' = "critic" /\ on' = on
    BY <1>3 DEF RunMultimodal
  <2>2. r' \in Gathered /\ UNCHANGED <<endPart, hookPart, r.failed>>
    <3>1. PICK signal \in {"", "step", "wire_error"} : r' = [r EXCEPT !.signal = signal]
      BY <1>3 DEF RunMultimodal
    <3>2. r \in Gathered
      BY DEF CycleInv
    <3>. QED
      BY ONLY <3>1, <3>2 DEF Gathered, endPart, hookPart
  <2>. QED
    BY <2>1, <2>2 DEF CycleInv, endPart, hookPart, PostacceptStands, Ended, Settling
<1>4. CASE AskCritic
  <2>1. phase = "critic" /\ phase' = "settle" /\ on' = on
    BY <1>4 DEF AskCritic
  <2>2. r' \in Gathered /\ UNCHANGED <<endPart, hookPart>> /\ r'.failed \subseteq r.failed \cup {"critic"}
    <3>1. CASE UNCHANGED r
      BY <3>1 DEF CycleInv, endPart, hookPart
    <3>2. CASE r' = [r EXCEPT !.invoked = @ \cup {"critic"}]
      BY <3>2 DEF CycleInv, Gathered, Agents, endPart, hookPart
    <3>3. CASE r' = [r EXCEPT !.failed = @ \cup {"critic"}]
      BY <3>3 DEF CycleInv, Gathered, Agents, endPart, hookPart
    <3>. QED
      BY <1>4, <3>1, <3>2, <3>3 DEF AskCritic
  <2>. QED
    BY <2>1, <2>2 DEF CycleInv, endPart, hookPart, PostacceptStands, Ended, Settling
<1>. QED
  BY <1>1, <1>2, <1>3, <1>4

\* The settling and what is derived from it.
LEMMA SettlesAndDerives ==
    ASSUME CycleInv, Settle \/ Handoff \/ PhaseChain \/ JudgeCycle \/ RetryChain \/ ProviderLane \/ Close
    PROVE  CycleInv'
<1>1. CASE Settle
  <2>1. phase = "settle" /\ phase' = "handoff" /\ on' = on
        /\ r' = [r EXCEPT !.end = EndOf(r.status, r.failed)]
    BY <1>1 DEF Settle
  <2>2. /\ EndOf(r.status, r.failed) \in Word \ {""}
        /\ EndOf(r.status, r.failed) = "consensus" => r.failed = {} /\ r.status = "consensus"
        /\ r.failed = {} => EndOf(r.status, r.failed) = r.status
    BY <2>1 DEF EndOf, CycleInv, Gathered, Word, Settling
  <2>3. /\ r' \in Gathered /\ r'.end = EndOf(r.status, r.failed) /\ UNCHANGED <<hookPart, r.failed>>
        /\ UNCHANGED <<r.verdict, r.phases, r.handoff, r.told, r.trail, r.retry>>
    BY <2>1, <2>2 DEF CycleInv, Gathered, hookPart
  <2>4. PostacceptStands'
    <3>. SUFFICES ASSUME "postaccept" \in r.fired
                  PROVE  r'.end = "consensus" \/ r.failed \ r.early = {"critic"}
      BY <2>3 DEF PostacceptStands, hookPart
    <3>1. r.status = "consensus" /\ r.early = {} /\ r.failed \subseteq {"critic"}
      BY <2>1 DEF CycleInv, Settling
    <3>. QED
      BY <2>2, <2>3, <3>1
  <2>. QED
    BY <2>1, <2>2, <2>3, <2>4 DEF CycleInv, hookPart, Ended, Settling
<1>2. CASE Handoff
  <2>1. phase = "handoff" /\ phase' = "phases" /\ on' = on
    BY <1>2 DEF Handoff
  <2>2. /\ r' \in Gathered /\ UNCHANGED <<hookPart, r.failed>>
        /\ UNCHANGED <<r.end, r.verdict, r.phases, r.told, r.trail, r.retry>>
        /\ r'.handoff \in {r.handoff, r.end}
    <3>1. CASE UNCHANGED r
      BY <3>1 DEF CycleInv, hookPart
    <3>2. CASE r' = [r EXCEPT !.handoff = r.end, !.invoked = @ \cup {"continuation"}]
      <4>1. r.end \in Word
        BY DEF CycleInv, Gathered
      <4>. QED
        BY <3>2, <4>1 DEF CycleInv, Gathered, hookPart
    <3>. QED
      BY <1>2, <3>1, <3>2 DEF Handoff
  <2>. QED
    BY <2>1, <2>2 DEF CycleInv, hookPart, PostacceptStands, Ended, Settling
<1>3. CASE PhaseChain
  <2>1. phase = "phases" /\ phase' = "judge" /\ on' = on
    BY <1>3 DEF PhaseChain
  <2>2. /\ r' \in Gathered /\ UNCHANGED <<hookPart, r.failed>>
        /\ UNCHANGED <<r.end, r.verdict, r.handoff, r.told, r.trail, r.retry>>
        /\ "retry_chain" \in r'.phases => "retry_chain" \in r.phases \/ r.end # "consensus"
    <3>1. CASE UNCHANGED r
      BY <3>1 DEF CycleInv, hookPart
    <3>2. CASE ~UNCHANGED r
      <4>1. PICK exit \in BOOLEAN :
             r' = [r EXCEPT !.phases =
                      {"planning", "execution", "acceptance", "judge", "continuation"}
                        \cup {p \in {"retry_chain"} : r.end # "consensus"}
                        \cup {p \in {"completed"} : exit}]
        BY <1>3, <3>2 DEF PhaseChain
      <4>. QED
        BY <4>1 DEF CycleInv, Gathered, hookPart
    <3>. QED
      BY <3>1, <3>2
  <2>. QED
    BY <2>1, <2>2 DEF CycleInv, hookPart, PostacceptStands, Ended, Settling
<1>4. CASE JudgeCycle
  <2>1. /\ phase = "judge" /\ on' = on /\ phase' \in {"provider", "retry"}
        /\ phase' = "retry" => r.end # "consensus"
    BY <1>4 DEF JudgeCycle
  <2>2. \A severity \in {"none", "warn", "reject"} :
          LET v == DowngradeWithCritic(
                       VerdictFromAcceptance(JudgeAcceptance(CycleReport(r.end))), severity)
          IN /\ v \in {"", "accept", "blocked", "retry", "escalate"}
             /\ v = "accept" => r.end = "consensus"
    BY DEF DowngradeWithCritic, VerdictFromAcceptance, JudgeAcceptance, CycleReport, Missing
  <2>3. /\ r' \in Gathered /\ UNCHANGED <<hookPart, r.failed>>
        /\ UNCHANGED <<r.end, r.phases, r.handoff, r.told, r.trail, r.retry>>
        /\ r'.verdict = "accept" => r.verdict = "accept" \/ r.end = "consensus"
    <3>1. CASE UNCHANGED r
      BY <3>1 DEF CycleInv, hookPart
    <3>2. CASE ~UNCHANGED r
      <4>1. PICK v \in {"", "accept", "blocked", "retry", "escalate"} :
              r' = [r EXCEPT !.verdict = v] /\ (v = "accept" => r.end = "consensus")
        BY <1>4, <2>2, <3>2 DEF JudgeCycle
      <4>. QED
        BY <4>1 DEF CycleInv, Gathered, hookPart
    <3>. QED
      BY <3>1, <3>2
  <2>. QED
    <3>1. r.trail = "" /\ r.retry = 0 /\ phase \in Ended
      BY <2>1 DEF CycleInv, Ended
    <3>2. 0 <= MaxRetry
      BY DEF MaxRetry
    <3>3. PostacceptStands'
      BY <2>3 DEF CycleInv, PostacceptStands, hookPart
    <3>4. CASE phase' = "retry"
      BY <2>1, <2>3, <3>1, <3>2, <3>3, <3>4 DEF CycleInv, hookPart, Ended, Settling
    <3>5. CASE phase' = "provider"
      BY <2>1, <2>3, <3>1, <3>3, <3>5 DEF CycleInv, hookPart, Ended, Settling
    <3>. QED
      BY <2>1, <3>4, <3>5
<1>5. CASE RetryChain
  <2>. DEFINE repeats == IF r.end = "split" THEN 0 ELSE 1
              action == DecideRecovery(repeats, r.retry, MaxRetry, FALSE, 0)
  <2>1. /\ phase = "retry" /\ on' = on
        /\ r' = [r EXCEPT !.trail = action, !.retry = @ + 1]
        /\ phase' = IF action = "retry" /\ r.retry + 1 < MaxRetryChainIterations
                    THEN "retry" ELSE "provider"
    BY <1>5 DEF RetryChain
  <2>2. r.retry \in 0..MaxRetry
    <3>1. r.retry \in Nat
      <4>1. r \in Gathered
        BY DEF CycleInv
      <4>2. r.retry \in 0..MaxRetryChainIterations
        BY <4>1 DEF Gathered
      <4>. QED
        BY <4>2 DEF MaxRetryChainIterations
    <3>2. r.retry <= MaxRetry
      BY <2>1 DEF CycleInv
    <3>. QED
      BY <3>1, <3>2 DEF MaxRetry
  <2>3. action = IF r.retry >= MaxRetry THEN "escalate" ELSE "retry"
    BY <2>2 DEF DecideRecovery, MaxRetry
  <2>. HIDE DEF action
  <2>4. action \in {"escalate", "retry"} /\ r.retry + 1 \in 0..MaxRetryChainIterations
    BY <2>2, <2>3 DEF MaxRetry, MaxRetryChainIterations
  <2>5. /\ r' \in Gathered /\ r'.trail = action /\ r'.retry = r.retry + 1
        /\ UNCHANGED <<hookPart, r.failed, r.end, r.verdict, r.phases, r.handoff, r.told>>
    BY <2>1, <2>4 DEF CycleInv, Gathered, hookPart
  <2>6. /\ phase' \in {"retry", "provider"}
        /\ phase' = "retry" => r'.retry <= MaxRetry
        /\ phase' = "provider" => action = "escalate"
    BY <2>1, <2>2, <2>3, <2>5 DEF MaxRetry, MaxRetryChainIterations
  <2>. QED
    BY <2>1, <2>5, <2>6 DEF CycleInv, hookPart, PostacceptStands, Ended, Settling
<1>6. CASE ProviderLane
  <2>1. phase = "provider" /\ phase' = "close" /\ on' = on
    BY <1>6 DEF ProviderLane
  <2>2. r' \in Gathered /\ UNCHANGED <<endPart, hookPart, r.failed>>
    <3>1. PICK x \in {"skipped_disabled", "failed", "blocked", "provider_called", "budget_checked"} :
            r' = [r EXCEPT !.provider = x]
      BY <1>6 DEF ProviderLane, ProviderStatus
    <3>. QED
      BY <3>1 DEF CycleInv, Gathered, endPart, hookPart
  <2>. QED
    BY <2>1, <2>2 DEF CycleInv, endPart, hookPart, PostacceptStands, Ended, Settling
<1>7. CASE Close
  <2>1. phase = "close" /\ phase' = "done" /\ on' = on
        /\ r' = [r EXCEPT !.fired = Fired({"cyclelog"}),
                          !.told = IF "cyclelog" \in on THEN r.end ELSE ""]
    BY <1>7 DEF Close
  <2>2. /\ Fired({"cyclelog"}) \in SUBSET Hook /\ (IF "cyclelog" \in on THEN r.end ELSE "") \in Word
        /\ "postaccept" \in Fired({"cyclelog"}) => "postaccept" \in r.fired
    BY DEF Fired, CycleInv, Gathered, Hook, Word
  <2>3. /\ r' \in Gathered /\ r'.fired = Fired({"cyclelog"}) /\ r'.told \in {"", r.end}
        /\ UNCHANGED <<r.failed, r.early, r.end, r.verdict, r.phases, r.handoff, r.trail, r.retry>>
    BY <2>1, <2>2 DEF CycleInv, Gathered
  <2>. QED
    BY <2>1, <2>2, <2>3 DEF CycleInv, PostacceptStands, Ended, Settling
<1>. QED
  BY <1>1, <1>2, <1>3, <1>4, <1>5, <1>6, <1>7

LEMMA CycleInvInit == CycleInit => CycleInv
<1>. SUFFICES ASSUME CycleInit PROVE CycleInv
  OBVIOUS
<1>1. r = Fresh /\ phase = "idle" /\ on \subseteq Hook
  BY HookAssumption DEF CycleInit
<1>2. r.fired = {}
  BY <1>1 DEF Fresh
<1>. QED
  BY <1>1, <1>2, FreshType DEF CycleInv, PostacceptStands, Ended, Settling

LEMMA CycleInvStep == CycleInv /\ [CycleNext]_<<voteVars, cycleVars>> => CycleInv'
<1>. SUFFICES ASSUME CycleInv, [CycleNext]_<<voteVars, cycleVars>> PROVE CycleInv'
  OBVIOUS
<1>1. CASE UNCHANGED cycleVars
  <2>1. on' = on /\ phase' = phase /\ r' = r
    BY <1>1 DEF cycleVars
  <2>2. (/\ phase \notin Ended \cup {"idle"} =>
             /\ r.end = "" /\ r.verdict = "" /\ r.phases = {} /\ r.handoff = "" /\ r.told = ""
             /\ r.trail = "" /\ r.retry = 0)'
    BY ONLY CycleInv, <2>1 DEF CycleInv
  <2>. QED
    BY ONLY CycleInv, <2>1, <2>2 DEF CycleInv, PostacceptStands
<1>2. CASE ~UNCHANGED cycleVars
  BY <1>2, Begins, PlansAndVotes, TellsAndAsks, SettlesAndDerives DEF CycleNext, Outside
<1>. QED
  BY <1>1, <1>2

(***************************************************************************)
(* The vote                                                                *)
(***************************************************************************)
VoteTypeOK == gate \in Gate /\ vote \in Vote /\ last \in Pair

\* Two blocks with the same evidence on every axis are told apart by the guard
\* alone; the status is that of a vote on all axes.
VoteInv ==
    /\ VoteTypeOK
    /\ vote.aligned <= vote.read
    /\ ~vote.novel /\ ~vote.apart => vote.aligned = vote.read
    /\ phase = "hooks" => vote.read = Axes /\ r.status = Status(vote)

LEMMA BlocksKeep ==
    ASSUME NEW inputs \in {"none", "one", "both", "malformed"}, Blocks(inputs)
    PROVE  /\ VoteTypeOK' /\ vote'.aligned = 0 /\ vote'.read = 0
<1>1. Silent \in Reading
  BY DEF Silent, Reading
<1>2. last' \in Pair /\ gate' \in Gate
  BY <1>1, GateAssumption DEF Blocks, Pair
<1>3. vote' = [inputs |-> inputs, read |-> 0, aligned |-> 0, novel |-> FALSE,
               a |-> FALSE, b |-> FALSE, apart |-> FALSE]
  BY DEF Blocks, NoVote
<1>. QED
  BY <1>2, <1>3 DEF VoteTypeOK, Vote, Axes

LEMMA EndOfVoteKeeps ==
    ASSUME EndOfVote
    PROVE  VoteTypeOK' /\ vote'.aligned = 0 /\ vote'.read = 0
<1>1. Silent \in Reading
  BY DEF Silent, Reading
<1>2. last' \in Pair /\ gate' \in Gate
  BY <1>1 DEF EndOfVote, Pair, Gate, NoGate
<1>. QED
  BY <1>2 DEF EndOfVote, NoVote, VoteTypeOK, Vote, Axes

LEMMA ReadAxisKeeps ==
    ASSUME VoteInv, ReadAxis
    PROVE  /\ VoteTypeOK' /\ vote'.aligned <= vote'.read
           /\ ~vote'.novel /\ ~vote'.apart => vote'.aligned = vote'.read
<1>1. PICK p \in Pair :
        /\ last' = p
        /\ vote' = [vote EXCEPT
               !.read = @ + 1,
               !.aligned = @ + One(Aligned(p)),
               !.novel = @ \/ Evidence(p.a) # Evidence(p.b),
               !.a = @ \/ Evidence(p.a) # {},
               !.b = @ \/ Evidence(p.b) # {},
               !.apart = @ \/ Apart(p.a, p.b)]
  BY DEF ReadAxis
<1>. DEFINE new == One(Aligned(p))
            differs == Evidence(p.a) # Evidence(p.b)
            apart == Apart(p.a, p.b)
<1>2. /\ vote.read < Axes /\ UNCHANGED gate
      /\ vote.read \in 0..Axes /\ vote.aligned \in 0..Axes
  BY DEF ReadAxis, VoteInv, VoteTypeOK, Vote
<1>3. new \in {0, 1} /\ (~differs /\ ~apart => new = 1)
  <2>1. Evidence(p.a) = Evidence(p.b) => AxisAligned(Evidence(p.a), Evidence(p.b))
    BY DEF AxisAligned
  <2>. QED
    BY <2>1 DEF One, Aligned
<1>4. /\ vote'.read = vote.read + 1 /\ vote'.aligned = vote.aligned + new
      /\ vote'.novel <=> (vote.novel \/ differs)
      /\ vote'.apart <=> (vote.apart \/ apart)
  BY <1>1 DEF VoteInv, VoteTypeOK, Vote
<1>5. vote' \in Vote
  <2>1. vote.read + 1 \in 0..Axes /\ vote.aligned + new \in 0..Axes
    BY <1>2, <1>3 DEF VoteInv, Axes
  <2>2. PICK fresh, fromA, fromB, told \in BOOLEAN :
          /\ fresh = (vote.novel \/ Evidence(p.a) # Evidence(p.b))
          /\ fromA = (vote.a \/ Evidence(p.a) # {})
          /\ fromB = (vote.b \/ Evidence(p.b) # {})
          /\ told = (vote.apart \/ Apart(p.a, p.b))
    OBVIOUS
  <2>3. PICK n, m \in 0..Axes : n = vote.read + 1 /\ m = vote.aligned + new
    BY <2>1
  <2>4. vote' = [vote EXCEPT !.read = n, !.aligned = m, !.novel = fresh, !.a = fromA, !.b = fromB, !.apart = told]
    BY <1>1, <2>2, <2>3
  <2>5. /\ vote \in Vote /\ n \in 0..Axes /\ m \in 0..Axes
        /\ fresh \in BOOLEAN /\ fromA \in BOOLEAN /\ fromB \in BOOLEAN /\ told \in BOOLEAN
    BY <2>2, <2>3 DEF VoteInv, VoteTypeOK
  <2>6. PICK Count : Count = 0..Axes
    OBVIOUS
  <2>7. Vote = [inputs : {"none", "one", "both", "malformed"}, read : Count, aligned : Count,
                novel : BOOLEAN, a : BOOLEAN, b : BOOLEAN, apart : BOOLEAN]
    BY <2>6 DEF Vote
  <2>8. n \in Count /\ m \in Count
    BY <2>5, <2>6
  <2>. QED
    BY ONLY <2>4, <2>5, <2>7, <2>8
<1>. HIDE DEF new, differs, apart
<1>6. VoteTypeOK'
  BY <1>1, <1>2, <1>5 DEF VoteInv, VoteTypeOK, Vote
<1>. QED
  BY <1>2, <1>3, <1>4, <1>6 DEF VoteInv, Axes

LEMMA VoteInvInit == WholeInit => VoteInv
<1>. SUFFICES ASSUME WholeInit PROVE VoteInv
  OBVIOUS
<1>1. VoteInit /\ CycleInit
  BY DEF WholeInit
<1>2. Silent \in Reading
  BY DEF Silent, Reading
<1>. QED
  BY <1>1, <1>2 DEF VoteInit, CycleInit, VoteInv, VoteTypeOK, Vote, NoVote, NoGate, Gate, Pair, Axes

LEMMA VoteInvStep ==
    CycleInv /\ VoteInv /\ [CycleNext]_<<voteVars, cycleVars>> => VoteInv'
<1>. SUFFICES ASSUME CycleInv, VoteInv, [CycleNext]_<<voteVars, cycleVars>> PROVE VoteInv'
  OBVIOUS
<1>0. UNCHANGED voteVars => /\ VoteTypeOK' /\ Status(vote)' = Status(vote) /\ UNCHANGED vote
  BY DEF VoteInv, VoteTypeOK, voteVars, Status, Diagnosis, AxesAligned
<1>1. CASE Outside /\ UNCHANGED voteVars
  <2>1. CASE RunSi
    <3>1. CASE phase' = "hooks"
      <4>1. PICK fails \in SUBSET {"sia_controller", "critic"} :
              r' = [r EXCEPT !.status = Status(vote), !.failed = @ \cup fails]
        BY <2>1, <3>1 DEF RunSi
      <4>2. r'.status = Status(vote)
        BY <4>1 DEF CycleInv, Gathered
      <4>3. vote.read = Axes
        BY <2>1 DEF RunSi, Voted
      <4>. QED
        BY <1>0, <1>1, <4>2, <4>3 DEF VoteInv
    <3>. QED
      BY <1>0, <1>1, <3>1 DEF VoteInv
  <2>2. CASE phase' # "hooks"
    BY <1>0, <1>1, <2>2 DEF VoteInv
  <2>3. RunSi \/ phase' # "hooks"
    <3>1. CASE \E n \in 1..4 : Agent(n)
      BY <3>1 DEF Agent, Stages
    <3>2. CASE ~(\E n \in 1..4 : Agent(n))
      BY <1>1, <3>2
         DEF Outside, Disabled, Begin, SelectActivation, RunSiLayer, RunMultimodal,
             AskCritic, Settle, Handoff, PhaseChain, JudgeCycle, RetryChain, ProviderLane, Close
    <3>. QED
      BY <3>1, <3>2
  <2>. QED
    BY <2>1, <2>2, <2>3
<1>2. CASE GetEvidence
  <2>1. phase' \in {"vote", "raised"}
    BY <1>2 DEF GetEvidence
  <2>2. CASE UNCHANGED voteVars
    BY <1>0, <2>1, <2>2 DEF VoteInv
  <2>3. CASE \E inputs \in {"none", "one", "both", "malformed"} : Blocks(inputs)
    BY <2>1, <2>3, BlocksKeep DEF VoteInv
  <2>. QED
    BY <1>2, <2>2, <2>3 DEF GetEvidence
<1>3. CASE phase = "vote" /\ ReadAxis /\ UNCHANGED cycleVars
  BY <1>3, ReadAxisKeeps DEF VoteInv, cycleVars
<1>4. CASE FireHooks \/ Return
  BY <1>4, EndOfVoteKeeps DEF VoteInv, FireHooks, Return
<1>5. CASE UNCHANGED <<voteVars, cycleVars>>
  BY <1>0, <1>5 DEF VoteInv, cycleVars
<1>. QED
  BY <1>1, <1>2, <1>3, <1>4, <1>5 DEF CycleNext

LEMMA PhaseStep == phase \in CyclePhases /\ [CycleNext]_<<voteVars, cycleVars>> => (phase \in CyclePhases)'
<1>. SUFFICES ASSUME phase \in CyclePhases, [CycleNext]_<<voteVars, cycleVars>>
              PROVE  phase' \in CyclePhases
  OBVIOUS
<1>1. CASE UNCHANGED phase
  BY <1>1
<1>2. CASE \E n \in 1..4 : Agent(n)
  BY <1>2 DEF Agent, Stages, CyclePhases
<1>3. CASE Disabled \/ Begin \/ SelectActivation \/ RunSi \/ RunSiLayer \/ RunMultimodal \/ AskCritic
             \/ GetEvidence \/ FireHooks \/ Return
  BY <1>3 DEF Disabled, Begin, SelectActivation, RunSi, RunSiLayer, RunMultimodal, AskCritic,
              GetEvidence, FireHooks, Return, CyclePhases
<1>4. CASE Settle \/ Handoff \/ PhaseChain \/ JudgeCycle \/ RetryChain \/ ProviderLane \/ Close
  BY <1>4 DEF Settle, Handoff, PhaseChain, JudgeCycle, RetryChain, ProviderLane, Close, CyclePhases
<1>. QED
  BY <1>1, <1>2, <1>3, <1>4 DEF CycleNext, Outside, cycleVars

\* What a full count of aligned axes takes, when one of the two derived axes or
\* the axis of causes may stand for one of the four.
LEMMA ConsensusLemma == VoteInv => ConsensusIsEarned
<1>. SUFFICES ASSUME VoteInv, phase = "hooks", r.status = "consensus"
             PROVE  /\ vote.aligned = Axes \/ (gate.causality /\ vote.apart)
                    /\ gate.wired => vote.inputs = "both"
                    /\ gate.wired /\ gate.eligible => vote.a /\ vote.b
  BY DEF ConsensusIsEarned
<1>1. Status(vote) = "consensus" /\ vote.read = Axes
  BY DEF VoteInv
<1>2. AxesAligned(vote) >= Consensus /\ (gate.wired => Diagnosis(vote) = "PASS")
      /\ vote.inputs \notin {"none", "one"}
  BY <1>1 DEF Status
<1>3. vote.aligned = Axes \/ (gate.causality /\ vote.apart)
  BY <1>1, <1>2 DEF VoteInv, VoteTypeOK, Vote, AxesAligned, One, Consensus, Axes
<1>4. gate.wired => vote.inputs = "both" /\ (gate.eligible => vote.a /\ vote.b)
  BY <1>2 DEF VoteInv, VoteTypeOK, Vote, Diagnosis
<1>. QED
  BY <1>3, <1>4

\* The bands of two weights share a token only within a band and its margins,
\* and always within a margin.
LEMMA BandsMeet ==
    ASSUME NEW x \in 0..100, NEW y \in 0..100
    PROVE  /\ Bands(x) \cap Bands(y) # {} => Distance(x, y) <= Mid - Lo + 2 * Tolerance
           /\ Distance(x, y) <= Tolerance => Bands(x) \cap Bands(y) # {}
<1>1. /\ Distance(x, y) = (IF x > y THEN x - y ELSE y - x)
      /\ Mid - Lo + 2 * Tolerance = 45 /\ Tolerance = 6
  BY DEF Distance, Mid, Lo, Tolerance
<1>2. \A w \in 0..100 :
        /\ "lo" \in Bands(w) <=> w <= 40
        /\ "mid" \in Bands(w) <=> w >= 28 /\ w <= 73
        /\ "hi" \in Bands(w) <=> w >= 61
        /\ Bands(w) \subseteq {"lo", "mid", "hi"}
  BY DEF Bands, Distance, Mid, Lo, Tolerance
<1>3. Bands(x) \cap Bands(y) # {} =>
        (x <= 40 /\ y <= 40) \/ (x >= 28 /\ x <= 73 /\ y >= 28 /\ y <= 73) \/ (x >= 61 /\ y >= 61)
  <2>. SUFFICES ASSUME NEW t \in {"lo", "mid", "hi"}, t \in Bands(x), t \in Bands(y)
                PROVE  (x <= 40 /\ y <= 40) \/ (x >= 28 /\ x <= 73 /\ y >= 28 /\ y <= 73)
                         \/ (x >= 61 /\ y >= 61)
    BY <1>2
  <2>. QED
    BY <1>2
<1>4. (x <= 40 /\ y <= 40) \/ (x >= 28 /\ x <= 73 /\ y >= 28 /\ y <= 73) \/ (x >= 61 /\ y >= 61)
        => Bands(x) \cap Bands(y) # {}
  <2>1. \A t \in {"lo", "mid", "hi"} :
          t \in Bands(x) /\ t \in Bands(y) => Bands(x) \cap Bands(y) # {}
    OBVIOUS
  <2>. HIDE DEF Bands
  <2>. QED
    BY <1>2, <2>1
<1>. QED
  BY <1>1, <1>3, <1>4

LEMMA DivergenceLemma == VoteInv => DivergenceIsSeen
<1>. SUFFICES ASSUME VoteInv, Scored(last.a), Scored(last.b)
             PROVE  LET d == Distance(last.a.weight, last.b.weight) IN
                    /\ Aligned(last) /\ gate.guard => d < GapThreshold
                    /\ Aligned(last) /\ last.a.words \cap last.b.words = {} =>
                           d <= Mid - Lo + 2 * Tolerance
                    /\ d <= Tolerance => Aligned(last)
  BY DEF DivergenceIsSeen
<1>. DEFINE x == last.a.weight
            y == last.b.weight
<1>1. /\ x \in 0..100 /\ y \in 0..100
      /\ last.a.words \subseteq Words /\ last.b.words \subseteq Words
  BY WeightAssumption DEF VoteInv, VoteTypeOK, Vote, Pair, Reading, Scored
<1>2. /\ Evidence(last.a) = last.a.words \cup Bands(x)
      /\ Evidence(last.b) = last.b.words \cup Bands(y)
  BY DEF Evidence
<1>4. Bands(x) \subseteq {"lo", "mid", "hi"} /\ Bands(y) \subseteq {"lo", "mid", "hi"}
  BY DEF Bands
<1>5. Bands(x) # {} 
  BY DEF Bands
<1>. HIDE DEF x, y
<1>3. Distance(x, y) \in Int /\ GapThreshold = 20 /\ Tolerance = 6
  BY <1>1 DEF Distance, GapThreshold, Tolerance
<1>6. Aligned(last) /\ gate.guard => Distance(x, y) < GapThreshold
  BY <1>3 DEF Aligned, Apart, x, y
<1>7. Aligned(last) /\ last.a.words \cap last.b.words = {} => Bands(x) \cap Bands(y) # {}
  BY <1>1, <1>2, <1>4, <1>5, WordsAssumption DEF Aligned, AxisAligned
<1>8. Bands(x) \cap Bands(y) # {} /\ Distance(x, y) <= Tolerance => Aligned(last)
  BY <1>2, <1>3 DEF Aligned, AxisAligned, Apart, x, y
<1>. QED
  BY <1>1, <1>6, <1>7, <1>8, BandsMeet DEF x, y

(***************************************************************************)
(* Theorems about the orchestrator's cycle                                 *)
(***************************************************************************)
\* A behaviour of the whole is one of the orchestrator's cycle.
LEMMA CycleSteps ==
    /\ WholeInit => CycleInit
    /\ [WholeNext]_wholeVars => [CycleNext]_<<voteVars, cycleVars>>
  BY DEF WholeInit, WholeNext, wholeVars

LEMMA CycleInvariant == WholeSpec => [](CycleInv /\ VoteInv)
<1>1. WholeInit => CycleInv /\ VoteInv
  BY CycleSteps, CycleInvInit, VoteInvInit
<1>2. CycleInv /\ VoteInv /\ [WholeNext]_wholeVars => (CycleInv /\ VoteInv)'
  BY CycleSteps, CycleInvStep, VoteInvStep
<1>. QED
  BY <1>1, <1>2, PTL DEF WholeSpec

\* Every variable of the cycle and of its vote keeps its type (run_cycle,
\* vote_per_axis).
THEOREM OrchestratorTypes == WholeSpec => []CycleTypeOK
<1>1. WholeInit => phase \in CyclePhases
  BY DEF WholeInit, CycleInit, CyclePhases
<1>2. phase \in CyclePhases /\ [WholeNext]_wholeVars => (phase \in CyclePhases)'
  BY CycleSteps, PhaseStep
<1>3. CycleInv /\ VoteInv /\ phase \in CyclePhases => CycleTypeOK
  BY DEF CycleInv, VoteInv, VoteTypeOK, CycleTypeOK
<1>. QED
  BY <1>1, <1>2, <1>3, CycleInvariant, PTL DEF WholeSpec

\* For any keywords, weights and settings of the switches: a consensus is the
\* agreement on all axes, and weights far apart do not agree (vote_per_axis,
\* diagnose_consensus).
THEOREM TheVoteIsRight == WholeSpec => []VoteIsRight
<1>1. VoteInv => VoteIsRight
  BY ConsensusLemma, DivergenceLemma DEF VoteIsRight
<1>. QED
  BY <1>1, CycleInvariant, PTL

\* Whoever was told of an outcome was told the one the cycle ends with, for any
\* set of callbacks (run_cycle).
THEOREM TheOutcomeIsToldRight == WholeSpec => []OutcomeIsToldRight
<1>1. CycleInv => LateWordsAgree
  BY DEF CycleInv, LateWordsAgree, Ended
<1>2. CycleInv => OutcomeIsToldRight
  BY <1>1 DEF CycleInv, OutcomeIsToldRight
<1>. QED
  BY <1>2, CycleInvariant, PTL

(***************************************************************************)
(* Promotion: any number of processes, files, approvals, edits, commits    *)
(* and faults.  The inductive invariant has three parts:                   *)
(*   Shape    types, and no backups before the write;                      *)
(*   Steady   what the compare-and-swap has established about the targets  *)
(*            nobody raced for, at each label of a promotion;              *)
(*   Used     an approval that admitted a request is in the ledger.        *)
(***************************************************************************)
Unwritten == {"bind", "scan", "carry", "capture", "verify", "recheck"}

Shape == TypeOK /\ \A p \in Proc : pc[p] \in Unwritten => DOMAIN saved[p] = {}

\* The targets p has seen at every moment that counts.
Watched(p) == req[p].targets \ raced[p]

Steady(p) ==
    /\ pc[p] \in {"carry", "capture"} => \A f \in Watched(p) : tree[f] = head[f]
    /\ pc[p] \in {"verify", "recheck"} =>
           /\ cas[p].commit <= commits
           /\ cas[p].commit = commits => \A f \in Watched(p) : cas[p].pre[f] = head[f]
    /\ pc[p] = "recheck" /\ cas[p].commit = commits =>
           \A f \in Watched(p) : verdictOn[p][f] = head[f]
    /\ pc[p] = "write" =>
           /\ \A f \in todo[p] \ raced[p] : tree[f] = verdictOn[p][f] /\ tree[f] = head[f]
           /\ \A f \in DOMAIN saved[p] \ raced[p] : tree[f] = req[p].text

Used == \A n \in Nonce : grants[n] <= 1 /\ (n \notin bound => grants[n] = 0)

IInv == Shape /\ Used /\ \A p \in Proc : Steady(p)

----------------------------------------------------------------------------
\* What other processes and the world do to a promotion

\* Nothing, when the tree, HEAD and the promotion itself stay as they are.
LEMMA Undisturbed ==
    ASSUME NEW q \in Proc, Steady(q), UNCHANGED git,
           pc'[q] = pc[q], req'[q] = req[q], cas'[q] = cas[q], verdictOn'[q] = verdictOn[q],
           todo'[q] = todo[q], saved'[q] = saved[q], raced'[q] = raced[q]
    PROVE  Steady(q)'
BY DEF Steady, Watched, git

\* A file changes: the promotion is blind to it, and the file is raced for; or
\* it is not, and has established nothing about the tree.
LEMMA OneFileChanges ==
    ASSUME NEW q \in Proc, Steady(q), UNCHANGED <<head, commits>>,
           pc'[q] = pc[q], req'[q] = req[q], cas'[q] = cas[q], verdictOn'[q] = verdictOn[q],
           todo'[q] = todo[q], saved'[q] = saved[q],
           todo[q] \subseteq req[q].targets, DOMAIN saved[q] \subseteq req[q].targets,
           NEW f \in File, \A g \in File \ {f} : tree'[g] = tree[g],
           req[q].targets \subseteq File,
           raced'[q] = IF pc[q] \in Blind THEN raced[q] \cup ({f} \cap req[q].targets)
                       ELSE raced[q]
    PROVE  Steady(q)'
<1>1. CASE pc[q] \in {"carry", "capture"}
  <2>1. \A g \in Watched(q)' : g \in Watched(q) /\ tree'[g] = tree[g]
    BY <1>1 DEF Watched, Blind
  <2>. QED BY <1>1, <2>1 DEF Steady
<1>2. CASE pc[q] \in {"verify", "recheck"}
  BY <1>2 DEF Steady, Watched, Blind
<1>3. CASE pc[q] = "write"
  <2>1. \A g \in (todo[q] \cup DOMAIN saved[q]) \ raced'[q] : g \notin raced[q] /\ tree'[g] = tree[g]
    BY <1>3 DEF Blind
  <2>. QED BY <1>3, <2>1 DEF Steady
<1>4. CASE pc[q] \notin {"carry", "capture", "verify", "recheck", "write"}
  BY <1>4 DEF Steady
<1>. QED BY <1>1, <1>2, <1>3, <1>4

----------------------------------------------------------------------------
\* One lemma per kind of step

LEMMA InitInvariant == Init => IInv
<1> SUFFICES ASSUME Init PROVE IInv OBVIOUS
<1>1. tree \in [File -> Content] /\ Absent \in Content /\ Original \in Content
  BY PromotionAssumption DEF Init, Content, Absent, Original
<1>2. TypeOK
  BY <1>1, PromotionAssumption DEF Init, TypeOK, HoldingsOK, Tree, None, NoRequest
<1>3. \A p \in Proc : pc[p] \in Unwritten => DOMAIN saved[p] = {} BY DEF Init, None, Unwritten
<1>4. Used /\ \A p \in Proc : Steady(p) BY DEF Init, Used, Steady
<1>. QED BY <1>2, <1>3, <1>4 DEF IInv, Shape

\* What p does leaves the holdings of the others alone.
LEMMA OthersHold ==
    ASSUME IInv, NEW q \in Proc,
           req'[q] = req[q], carried'[q] = carried[q], cas'[q] = cas[q], tested'[q] = tested[q],
           verdictOn'[q] = verdictOn[q], todo'[q] = todo[q], saved'[q] = saved[q],
           raced'[q] = raced[q]
    PROVE  HoldingsOK(q)'
BY DEF IInv, Shape, TypeOK, HoldingsOK

\* A step of p that leaves the tree, HEAD and the others' promotions alone.
LEMMA QuietStep ==
    ASSUME IInv, NEW p \in Proc, UNCHANGED git, Used', Steady(p)', HoldingsOK(p)',
           NEW l \in {"idle", "bind", "scan", "carry", "capture", "verify", "recheck",
                      "write", "promoted", "refused"},
           pc' = [pc EXCEPT ![p] = l], l \in Unwritten => DOMAIN saved'[p] = {},
           req' \in [Proc -> [targets : SUBSET File, text : Content,
                              nonce : Nonce \cup {NoNonce}, carry : BOOLEAN]],
           DOMAIN carried' = Proc, DOMAIN cas' = Proc, DOMAIN tested' = Proc,
           DOMAIN verdictOn' = Proc, DOMAIN todo' = Proc, DOMAIN saved' = Proc,
           DOMAIN raced' = Proc,
           failed' \in [Proc -> BOOLEAN], text' \in Content, faults' \in 0..MaxFaults,
           bound' \subseteq Nonce, grants' \in [Nonce -> Nat],
           \A q \in Proc \ {p} :
               /\ req'[q] = req[q] /\ carried'[q] = carried[q] /\ cas'[q] = cas[q]
               /\ tested'[q] = tested[q] /\ verdictOn'[q] = verdictOn[q]
               /\ todo'[q] = todo[q] /\ saved'[q] = saved[q] /\ raced'[q] = raced[q]
    PROVE  IInv'
<1>1. \A q \in Proc \ {p} : pc'[q] = pc[q] BY DEF IInv, Shape, TypeOK
<1>2. ASSUME NEW q \in Proc, q # p PROVE Steady(q)' /\ HoldingsOK(q)'
  BY <1>1, <1>2, Undisturbed, OthersHold DEF IInv
<1>3. TypeOK' BY <1>2 DEF IInv, Shape, TypeOK, git
<1>4. \A q \in Proc : pc'[q] \in Unwritten => DOMAIN saved'[q] = {}
  BY <1>1 DEF IInv, Shape, TypeOK
<1>. QED BY <1>2, <1>3, <1>4 DEF IInv, Shape

LEMMA RequestStep == ASSUME IInv, NEW p \in Proc, Request(p) PROVE IInv'
<1> USE DEF Request
<1>1. text + 1 \in Content /\ req' \in [Proc -> [targets : SUBSET File, text : Content,
                              nonce : Nonce \cup {NoNonce}, carry : BOOLEAN]]
  BY PromotionAssumption DEF IInv, Shape, TypeOK, Content, Absent
<1>2. HoldingsOK(p)'
  BY PromotionAssumption DEF IInv, Shape, TypeOK, HoldingsOK, None
<1>3. Used' BY DEF IInv, Used
<1>4. Steady(p)' BY DEF IInv, Shape, TypeOK, Steady
<1>. QED BY <1>1, <1>2, <1>3, <1>4, QuietStep DEF IInv, Shape, TypeOK, None

LEMMA BindStep == ASSUME IInv, NEW p \in Proc, Bind(p) PROVE IInv'
<1> USE DEF Bind, Goto, verification, session
<1>1. grants' \in [Nonce -> Nat] /\ bound' \subseteq Nonce BY DEF IInv, Shape, TypeOK
<1>2. HoldingsOK(p)' BY OthersHold
<1>3. Used' BY DEF IInv, Shape, TypeOK, Used
<1>4. Steady(p)' BY DEF IInv, Shape, TypeOK, Steady
<1>. QED BY <1>1, <1>2, <1>3, <1>4, QuietStep DEF IInv, Shape, TypeOK, Unwritten

LEMMA ScanStep == ASSUME IInv, NEW p \in Proc, Scan(p) PROVE IInv'
<1> USE DEF Scan, Goto, session
<1>2. HoldingsOK(p)'
  BY DEF IInv, Shape, TypeOK, HoldingsOK, Restrict, Dirty, Tree
<1>3. Used' BY DEF IInv, Used
<1>4. Steady(p)'
  BY DEF IInv, Shape, TypeOK, Steady, Watched, Acceptable, Dirty, git
<1>. QED BY <1>2, <1>3, <1>4, QuietStep DEF IInv, Shape, TypeOK, Unwritten

LEMMA CarryStep == ASSUME IInv, NEW p \in Proc, Carry(p) PROVE IInv'
<1> USE DEF Carry, Goto, session
<1>2. HoldingsOK(p)' BY DEF IInv, Shape, TypeOK, HoldingsOK, Restrict, Tree
<1>3. Used' BY DEF IInv, Used
<1>4. Steady(p)' BY DEF IInv, Shape, TypeOK, Steady, Watched, git
<1>. QED BY <1>2, <1>3, <1>4, QuietStep DEF IInv, Shape, TypeOK, Unwritten

LEMMA CaptureStep == ASSUME IInv, NEW p \in Proc, Capture(p) PROVE IInv'
<1> USE DEF Capture, Goto, session
<1>2. HoldingsOK(p)' BY DEF IInv, Shape, TypeOK, HoldingsOK, Restrict
<1>3. Used' BY DEF IInv, Used
<1>4. Steady(p)' BY DEF IInv, Shape, TypeOK, HoldingsOK, Steady, Watched, git, Restrict
<1>. QED BY <1>2, <1>3, <1>4, QuietStep DEF IInv, Shape, TypeOK, Unwritten

LEMMA VerifyStep == ASSUME IInv, NEW p \in Proc, Verify(p) PROVE IInv'
<1> USE DEF Verify, Goto, session
<1>2. HoldingsOK(p)'
  <2>1. /\ head \in Tree /\ req[p].text \in Content
        /\ carried[p] \in [DOMAIN carried[p] -> Content]
    BY DEF IInv, Shape, TypeOK, HoldingsOK
  <2>2. [f \in File |-> IF f \in req[p].targets THEN req[p].text
                        ELSE IF f \in DOMAIN carried[p] THEN carried[p][f] ELSE head[f]] \in Tree
    BY <2>1 DEF Tree
  <2>3. {tested'[p], verdictOn'[p]} \subseteq Tree
    <3>1. DOMAIN tested = Proc /\ DOMAIN verdictOn = Proc /\ {tested[p], verdictOn[p]} \subseteq Tree
      BY DEF IInv, Shape, TypeOK, HoldingsOK
    <3>2. \/ verdictOn'[p] = verdictOn[p] /\ tested'[p] = tested[p]
          \/ /\ verdictOn'[p] = head
             /\ tested'[p] = [f \in File |->
                    IF f \in req[p].targets THEN req[p].text
                    ELSE IF f \in DOMAIN carried[p] THEN carried[p][f] ELSE head[f]]
      BY <3>1
    <3>. QED BY <2>1, <2>2, <3>1, <3>2
  <2>4. UNCHANGED <<req, carried, cas, todo, saved, raced>> OBVIOUS
  <2>. QED BY <2>3, <2>4 DEF IInv, Shape, TypeOK, HoldingsOK
<1>3. Used' BY DEF IInv, Used
<1>4. Steady(p)' BY DEF IInv, Shape, TypeOK, Steady, Watched, git
<1>. QED BY <1>2, <1>3, <1>4, QuietStep DEF IInv, Shape, TypeOK, Unwritten

LEMMA RecheckStep == ASSUME IInv, NEW p \in Proc, Recheck(p) PROVE IInv'
<1> USE DEF Recheck, Goto, verification
<1>1. pc[p] = "recheck" /\ DOMAIN saved[p] = {} /\ req[p].targets \subseteq File
  BY DEF IInv, Shape, TypeOK, Unwritten
<1>2. HoldingsOK(p)' BY <1>1 DEF IInv, Shape, TypeOK, HoldingsOK
<1>3. Used' BY DEF IInv, Used
<1>4. Steady(p)'
  <2>1. CASE Unmoved(p)
    <3>1. \A f \in Watched(p) : /\ cas[p].pre[f] = tree[f]
                                /\ cas[p].pre[f] = head[f] /\ verdictOn[p][f] = head[f]
      BY <2>1, <1>1 DEF IInv, Steady, Watched, Unmoved, Restrict
    <3>. QED BY <2>1, <1>1, <3>1 DEF IInv, Shape, TypeOK, Steady, Watched, git
  <2>2. CASE ~Unmoved(p) BY <2>2 DEF IInv, Shape, TypeOK, Steady
  <2>. QED BY <2>1, <2>2
<1>. QED BY <1>2, <1>3, <1>4, QuietStep DEF IInv, Shape, TypeOK, Unwritten

LEMMA FinishStep == ASSUME IInv, NEW p \in Proc, Finish(p) PROVE IInv'
<1> USE DEF Finish, Goto, verification, session
<1>2. HoldingsOK(p)' BY OthersHold
<1>3. Used' BY DEF IInv, Used
<1>4. Steady(p)' BY DEF IInv, Shape, TypeOK, Steady
<1>. QED BY <1>2, <1>3, <1>4, QuietStep DEF IInv, Shape, TypeOK, Unwritten

LEMMA CrashStep == ASSUME IInv, NEW p \in Proc, Crash(p) PROVE IInv'
<1> USE DEF Crash, verification, session
<1>1. faults' \in 0..MaxFaults BY PromotionAssumption DEF IInv, Shape, TypeOK, Fault
<1>2. HoldingsOK(p)' BY OthersHold
<1>3. Used' BY DEF IInv, Used
<1>4. Steady(p)' BY DEF IInv, Shape, TypeOK, Steady
<1>. QED BY <1>1, <1>2, <1>3, <1>4, QuietStep DEF IInv, Shape, TypeOK, Unwritten

\* A step of p that changes one file, or none, of the tree.
LEMMA FileStep ==
    ASSUME IInv, NEW p \in Proc, NEW f \in File, pc[p] = "write",
           UNCHANGED <<head, commits, bound, pc, req, verification, text, grants>>,
           tree' \in Tree, \A g \in File \ {f} : tree'[g] = tree[g],
           (tree' = tree /\ raced' = raced) \/ Races(p, f),
           HoldingsOK(p)', Steady(p)', failed' \in [Proc -> BOOLEAN], faults' \in 0..MaxFaults,
           DOMAIN todo' = Proc, DOMAIN saved' = Proc,
           \A q \in Proc \ {p} : todo'[q] = todo[q] /\ saved'[q] = saved[q]
    PROVE  IInv'
<1> USE DEF verification
<1>1. DOMAIN raced' = Proc BY DEF Races, IInv, Shape, TypeOK
<1>2. ASSUME NEW q \in Proc, q # p PROVE Steady(q)' /\ HoldingsOK(q)'
  <2>1. \/ tree' = tree /\ raced'[q] = raced[q]
        \/ raced'[q] = IF pc[q] \in Blind THEN raced[q] \cup ({f} \cap req[q].targets) ELSE raced[q]
    BY <1>2 DEF Races
  <2>2. HoldingsOK(q)' BY <1>2, <2>1 DEF IInv, Shape, TypeOK, HoldingsOK
  <2>3. /\ todo[q] \subseteq req[q].targets /\ DOMAIN saved[q] \subseteq req[q].targets
        /\ req[q].targets \subseteq File
    BY DEF IInv, Shape, TypeOK, HoldingsOK
  <2>4. /\ Steady(q) /\ pc'[q] = pc[q] /\ req'[q] = req[q] /\ cas'[q] = cas[q]
        /\ verdictOn'[q] = verdictOn[q] /\ todo'[q] = todo[q] /\ saved'[q] = saved[q]
    BY <1>2 DEF IInv
  <2>5. CASE tree' = tree /\ raced'[q] = raced[q]
    <3>1. UNCHANGED git BY <2>5 DEF git
    <3>. QED BY <2>2, <2>5, <2>4, <3>1, Undisturbed
  <2>6. CASE raced'[q] = IF pc[q] \in Blind THEN raced[q] \cup ({f} \cap req[q].targets)
                         ELSE raced[q]
    <3>1. UNCHANGED <<head, commits>> OBVIOUS
    <3>. QED BY <2>2, <2>3, <2>4, <2>6, <3>1, OneFileChanges
  <2>. QED BY <2>1, <2>2, <2>5, <2>6
<1>3. TypeOK' BY <1>1, <1>2 DEF IInv, Shape, TypeOK
<1>4. \A q \in Proc : pc'[q] \in Unwritten => DOMAIN saved'[q] = {}
  BY DEF IInv, Shape, TypeOK, Unwritten
<1>5. Used' BY DEF IInv, Used
<1>. QED BY <1>2, <1>3, <1>4, <1>5 DEF IInv, Shape

LEMMA WriteStep == ASSUME IInv, NEW p \in Proc, Write(p) PROVE IInv'
<1> USE DEF verification
<1>1. PICK f \in todo[p] :
          /\ todo' = [todo EXCEPT ![p] = todo[p] \ {f}]
          /\ \/ /\ tree' = [tree EXCEPT ![f] = req[p].text]
                /\ saved' = [saved EXCEPT ![p] = [g \in DOMAIN saved[p] \cup {f} |->
                                 IF g = f THEN tree[f] ELSE saved[p][g]]]
                /\ Races(p, f)
                /\ UNCHANGED <<failed, faults>>
             \/ /\ faults' = faults \/ Fault
                /\ failed' = [failed EXCEPT ![p] = TRUE] /\ UNCHANGED <<tree, saved, raced>>
  BY DEF Write, Rest
<1>2. /\ pc[p] = "write"
      /\ UNCHANGED <<head, commits, bound, pc, req, verification, text, grants>>
  BY DEF Write
<1>3. f \in File /\ f \in req[p].targets /\ f \notin DOMAIN saved[p]
  BY DEF IInv, Shape, TypeOK, HoldingsOK
<1>4. faults' \in 0..MaxFaults /\ failed' \in [Proc -> BOOLEAN]
  <2>1. failed \in [Proc -> BOOLEAN] /\ faults \in 0..MaxFaults /\ MaxFaults \in Nat
    BY PromotionAssumption DEF IInv, Shape, TypeOK
  <2>2. faults' = faults \/ Fault BY <1>1
  <2>3. faults' \in 0..MaxFaults BY <2>1, <2>2 DEF Fault
  <2>4. failed' = failed \/ failed' = [failed EXCEPT ![p] = TRUE] BY <1>1
  <2>5. failed' \in [Proc -> BOOLEAN] BY <2>1, <2>4
  <2>. QED BY <2>3, <2>5
<1>5. tree' \in Tree /\ \A g \in File \ {f} : tree'[g] = tree[g]
  BY <1>1, <1>3 DEF IInv, Shape, TypeOK, Tree
<1>6. raced'[p] = raced[p]
  BY <1>1 DEF Races, IInv, Shape, TypeOK
<1>7. /\ todo'[p] = todo[p] \ {f}
      /\ \/ saved'[p] = saved[p]
         \/ saved'[p] = [g \in DOMAIN saved[p] \cup {f} |->
                             IF g = f THEN tree[f] ELSE saved[p][g]]
  BY <1>1 DEF IInv, Shape, TypeOK
<1>8. tree[f] \in Content BY <1>3 DEF IInv, Shape, TypeOK, Tree
<1>9. HoldingsOK(p)'
  BY <1>2, <1>3, <1>6, <1>7, <1>8 DEF IInv, Shape, TypeOK, HoldingsOK
<1>10. Steady(p)'
  <2>1. \A g \in todo'[p] \ raced'[p] :
            g \in todo[p] \ raced[p] /\ tree'[g] = tree[g]
    BY <1>3, <1>5, <1>6, <1>7 DEF IInv, Shape, TypeOK, HoldingsOK
  <2>2. ASSUME NEW g \in DOMAIN saved'[p] \ raced'[p] PROVE tree'[g] = req[p].text
    <3>1. CASE tree' = [tree EXCEPT ![f] = req[p].text]
      BY <1>3, <1>6, <1>7, <2>2, <3>1, <1>2 DEF IInv, Shape, TypeOK, HoldingsOK, Steady, Tree
    <3>2. CASE tree' = tree /\ saved' = saved
      BY <1>2, <1>6, <2>2, <3>2 DEF IInv, Steady
    <3>. QED BY <1>1, <3>1, <3>2
  <2>. QED BY <1>2, <2>1, <2>2 DEF IInv, Steady
<1>11. /\ DOMAIN todo' = Proc /\ DOMAIN saved' = Proc
       /\ \A q \in Proc \ {p} : todo'[q] = todo[q] /\ saved'[q] = saved[q]
  BY <1>1 DEF IInv, Shape, TypeOK
<1>. QED BY <1>1, <1>2, <1>3, <1>4, <1>5, <1>9, <1>10, <1>11, FileStep

LEMMA UndoStep == ASSUME IInv, NEW p \in Proc, Undo(p) PROVE IInv'
<1> USE DEF verification
<1>1. PICK f \in DOMAIN saved[p] :
          /\ tree' = [tree EXCEPT ![f] = saved[p][f]]
          /\ saved' = [saved EXCEPT ![p] = Restrict(saved[p], DOMAIN saved[p] \ {f})]
          /\ Races(p, f)
  BY DEF Undo
<1>2. /\ pc[p] = "write" /\ todo[p] = {}
      /\ UNCHANGED <<head, commits, bound, pc, req, verification, todo, failed, text,
                     faults, grants>>
  BY DEF Undo
<1>3. f \in File /\ saved[p][f] \in Content
  BY DEF IInv, Shape, TypeOK, HoldingsOK
<1>4. tree' \in Tree /\ \A g \in File \ {f} : tree'[g] = tree[g]
  BY <1>1, <1>3 DEF IInv, Shape, TypeOK, Tree
<1>5. raced'[p] = raced[p] BY <1>1 DEF Races, IInv, Shape, TypeOK
<1>6. saved'[p] = [g \in DOMAIN saved[p] \ {f} |-> saved[p][g]]
  BY <1>1 DEF IInv, Shape, TypeOK, Restrict
<1>7. HoldingsOK(p)' BY <1>2, <1>5, <1>6 DEF IInv, Shape, TypeOK, HoldingsOK
<1>8. Steady(p)'
  <2>1. \A g \in DOMAIN saved'[p] \ raced'[p] :
            g \in DOMAIN saved[p] \ raced[p] /\ g \in File /\ tree'[g] = tree[g]
    BY <1>3, <1>4, <1>5, <1>6 DEF IInv, Shape, TypeOK, HoldingsOK
  <2>. QED BY <1>2, <2>1 DEF IInv, Steady
<1>9. /\ DOMAIN saved' = Proc /\ \A q \in Proc \ {p} : saved'[q] = saved[q]
  BY <1>1 DEF IInv, Shape, TypeOK
<1>10. DOMAIN todo = Proc /\ failed \in [Proc -> BOOLEAN] /\ faults \in 0..MaxFaults
  BY DEF IInv, Shape, TypeOK
<1>. QED BY <1>1, <1>2, <1>3, <1>4, <1>7, <1>8, <1>9, <1>10, FileStep

LEMMA EditStep == ASSUME IInv, Edit PROVE IInv'
<1> USE DEF session, verification
<1>1. PICK f \in File, edit \in {Absent, text + 1} :
          /\ tree' = [tree EXCEPT ![f] = edit]
          /\ raced' = [q \in Proc |-> IF pc[q] \in Blind
                                      THEN raced[q] \cup ({f} \cap req[q].targets) ELSE raced[q]]
  BY DEF Edit
<1>2. /\ UNCHANGED <<head, commits, bound, pc, req, carried, cas, tested, verdictOn, todo, saved,
                     failed, faults, grants>>
      /\ text < MaxText /\ text' = text + 1
  BY DEF Edit
<1>3. text' \in Content /\ edit \in Content
  BY <1>2, PromotionAssumption DEF IInv, Shape, TypeOK, Content, Absent
<1>4. tree' \in Tree /\ \A g \in File \ {f} : tree'[g] = tree[g]
  BY <1>1, <1>3 DEF IInv, Shape, TypeOK, Tree
<1>5. ASSUME NEW q \in Proc PROVE Steady(q)' /\ HoldingsOK(q)'
  <2>1. raced'[q] = IF pc[q] \in Blind THEN raced[q] \cup ({f} \cap req[q].targets) ELSE raced[q]
    BY <1>1
  <2>2. HoldingsOK(q)' BY <1>2, <2>1 DEF IInv, Shape, TypeOK, HoldingsOK
  <2>3. /\ todo[q] \subseteq req[q].targets /\ DOMAIN saved[q] \subseteq req[q].targets
        /\ req[q].targets \subseteq File
    BY DEF IInv, Shape, TypeOK, HoldingsOK
  <2>4. /\ Steady(q) /\ pc'[q] = pc[q] /\ req'[q] = req[q] /\ cas'[q] = cas[q]
        /\ verdictOn'[q] = verdictOn[q] /\ todo'[q] = todo[q] /\ saved'[q] = saved[q]
        /\ UNCHANGED <<head, commits>>
    BY <1>2 DEF IInv
  <2>5. Steady(q)' BY <1>4, <2>1, <2>3, <2>4, OneFileChanges
  <2>. QED BY <2>2, <2>5
<1>6. DOMAIN raced' = Proc BY <1>1
<1>7. TypeOK' BY <1>2, <1>3, <1>4, <1>5, <1>6 DEF IInv, Shape, TypeOK
<1>8. Used' /\ \A q \in Proc : pc'[q] \in Unwritten => DOMAIN saved'[q] = {}
  BY <1>2 DEF IInv, Used, Shape
<1>. QED BY <1>5, <1>7, <1>8 DEF IInv, Shape

\* A commit leaves the tree, and outdates what was captured before it.
LEMMA CommitAllStep == ASSUME IInv, CommitAll PROVE IInv'
<1> USE DEF session, verification
<1>1. /\ UNCHANGED <<tree, bound, pc, req, carried, cas, tested, verdictOn, todo, saved, failed,
                     text, faults, grants, raced>>
      /\ commits < MaxCommits /\ head' = tree /\ commits' = commits + 1
  BY DEF CommitAll
<1>2. commits \in Nat /\ commits' \in 0..MaxCommits /\ head' \in Tree
  BY <1>1, PromotionAssumption DEF IInv, Shape, TypeOK
<1>3. ASSUME NEW q \in Proc PROVE Steady(q)' /\ HoldingsOK(q)'
  <2>1. HoldingsOK(q)' BY <1>1 DEF IInv, Shape, TypeOK, HoldingsOK
  <2>2. Steady(q) /\ cas[q].commit \in Int BY DEF IInv, Shape, TypeOK, HoldingsOK
  <2>3. Steady(q)' BY <1>1, <1>2, <2>2 DEF Steady, Watched
  <2>. QED BY <2>1, <2>3
<1>4. TypeOK' BY <1>1, <1>2, <1>3 DEF IInv, Shape, TypeOK
<1>5. Used' /\ \A q \in Proc : pc'[q] \in Unwritten => DOMAIN saved'[q] = {}
  BY <1>1 DEF IInv, Used, Shape
<1>. QED BY <1>3, <1>4, <1>5 DEF IInv, Shape

LEMMA NextStep == ASSUME IInv, [Next]_vars PROVE IInv'
<1>1. CASE Edit BY <1>1, EditStep
<1>2. CASE CommitAll BY <1>2, CommitAllStep
<1>3. ASSUME NEW p \in Proc, Promote(p) \/ Crash(p) PROVE IInv'
  BY <1>3, RequestStep, BindStep, ScanStep, CarryStep, CaptureStep, VerifyStep, RecheckStep,
     WriteStep, UndoStep, FinishStep, CrashStep DEF Promote
<1>4. CASE UNCHANGED vars
  BY <1>4 DEF vars, git, verification, session, IInv, Shape, TypeOK, HoldingsOK, Used, Steady,
     Watched
<1>. QED BY <1>1, <1>2, <1>3, <1>4 DEF Next

----------------------------------------------------------------------------
\* Theorems about a promotion

\* Whatever edits, commits, crashes and other promotions come between, what
\* promote_patches' scan and compare-and-swap have established holds at every
\* step, of any number of processes, files and approvals.
THEOREM PromotionInvariant == Spec => []IInv
<1>1. Init => IInv BY InitInvariant
<1>2. IInv /\ [Next]_vars => IInv' BY NextStep
<1>. QED BY <1>1, <1>2, PTL DEF Spec

\* The state of a promotion, its captures and backups are what promote_patches
\* builds: no reachable state is ill typed.
THEOREM PromotionTypes == Spec => []TypeOK
<1>1. IInv => TypeOK BY DEF IInv, Shape
<1>. QED BY <1>1, PromotionInvariant, PTL

\* An approval admits at most one request, for any number of approvals and of
\* processes that race for it: _check_and_bind_nonce is one step.
THEOREM ApprovalIsUsedOnce == Spec => []ApprovalCountsOnce
<1>1. IInv => ApprovalCountsOnce BY DEF IInv, Used, ApprovalCountsOnce
<1>. QED BY <1>1, PromotionInvariant, PTL

\* A target about to be replaced is what the verified HEAD had there, unless
\* somebody wrote it in one of the windows of the compare-and-swap.
THEOREM ReplacesTheTested == Spec => []ReplacesWhatWasTested
<1>1. IInv => ReplacesWhatWasTested BY DEF IInv, Steady, ReplacesWhatWasTested
<1>. QED BY <1>1, PromotionInvariant, PTL

\* What is promoted replaces the tree that was tested, for an approval of its own.
THEOREM PromotesTheApproved == Spec => []PromotesWhatWasApproved
<1>1. ReplacesWhatWasTested /\ ApprovalCountsOnce => PromotesWhatWasApproved
  BY DEF PromotesWhatWasApproved
<1>. QED BY ReplacesTheTested, ApprovalIsUsedOnce, <1>1, PTL

\* No promotion overwrites or rolls over work it could have seen: the write
\* replaces what HEAD has, and the rollback replaces the promotion's own text.
THEOREM NobodysWorkIsOverwritten == Spec => OverwritesNobodysWork
<1>1. ASSUME IInv, NEW p \in Proc, Write(p) \/ Undo(p), NEW f \in File, tree'[f] # tree[f]
      PROVE  tree[f] \in {head[f], req[p].text} \/ f \in raced[p]
  <2>1. tree \in Tree /\ Steady(p) BY <1>1 DEF IInv, Shape, TypeOK
  <2>2. CASE Write(p)
    <3>1. f \in todo[p] BY <1>1, <2>1, <2>2 DEF Write, Tree
    <3>2. pc[p] = "write" BY <2>2 DEF Write
    <3>. QED BY <2>1, <3>1, <3>2 DEF Steady
  <2>3. CASE Undo(p)
    <3>1. f \in DOMAIN saved[p] BY <1>1, <2>1, <2>3 DEF Undo, Tree
    <3>2. pc[p] = "write" BY <2>3 DEF Undo
    <3>. QED BY <2>1, <3>1, <3>2 DEF Steady
  <2>. QED BY <1>1, <2>2, <2>3
<1>2. IInv => \A p \in Proc : (Write(p) \/ Undo(p)) => \A f \in File :
                  tree'[f] # tree[f] => tree[f] \in {head[f], req[p].text} \/ f \in raced[p]
  BY <1>1
<1>. QED BY <1>2, PromotionInvariant, PTL DEF OverwritesNobodysWork

\* Nothing of this is lost in the whole: whatever it follows, its promotions
\* are promotions.
THEOREM TheWholePromotes == WholeSpec => Spec
<1>1. WholeInit => Init BY DEF WholeInit
<1>2. [WholeNext]_wholeVars => [Next]_vars BY DEF WholeNext, wholeVars
<1>. QED BY <1>1, <1>2, PTL DEF WholeSpec, Spec
===============================================================================
