--------------------------- MODULE EvidenceScoring ---------------------------
(***************************************************************************)
(* The vote of the two pods (core/axis_scorer.py) and what the             *)
(* self-improvement cycle makes of it: each pod's block is read into       *)
(* tokens per axis, the axes are compared one after another, two more axes *)
(* are derived from them, and the count decides.                           *)
(*                                                                         *)
(* A block is, per axis, the keywords its text holds and the pod's weight  *)
(* in hundredths.                                                          *)
(***************************************************************************)
EXTENDS Integers

CONSTANTS Words,     \* keywords of an axis
          Weights,   \* weights a pod may give, in hundredths
          Unscored,  \* no weight
          Gates      \* combinations of the vote's switches

ASSUME WeightAssumption == Weights \subseteq 0..100 /\ Unscored \notin Weights
ASSUME WordsAssumption == Words \cap {"lo", "mid", "hi"} = {}     \* a band is "<axis>:<band>"

Axes == 4                                      \* SWARM_SCORED_AXES
Lo == 34                                       \* _BAND_LO_MAX
Mid == 67                                      \* _BAND_MID_MAX
Tolerance == 6                                 \* _BAND_EDGE_TOL
GapThreshold == 20
Consensus == 5
Split == 3

\* The switches: weights become tokens, the guard on their distance, the axis
\* of causes, the demand for evidence, the diagnosis in the cycle.
Gate == [numeric : BOOLEAN, guard : BOOLEAN, causality : BOOLEAN,
         eligible : BOOLEAN, wired : BOOLEAN]

ASSUME GateAssumption == Gates \subseteq Gate

VARIABLES gate,   \* the switches, read from the environment by each vote
          vote,   \* the axes read so far
          last    \* the two readings of the last axis

voteVars == <<gate, vote, last>>

Reading == [words : SUBSET Words, weight : Weights \cup {Unscored}]
Silent == [words |-> {}, weight |-> Unscored]
Pair == [a : Reading, b : Reading]

\* `inputs` tells how many pods sent a block and whether one is no mapping.
NoVote == [inputs |-> "none", read |-> 0, aligned |-> 0, novel |-> FALSE,
           a |-> FALSE, b |-> FALSE, apart |-> FALSE]

NoGate == [numeric |-> FALSE, guard |-> FALSE, causality |-> FALSE, eligible |-> FALSE,
           wired |-> FALSE]

VoteInit == gate = NoGate /\ vote = NoVote /\ last = [a |-> Silent, b |-> Silent]

(***************************************************************************)
(* Reading a block                                                         *)
(***************************************************************************)
Distance(x, y) == IF x > y THEN x - y ELSE y - x

\* A weight near the edge of a band has the tokens of both bands.
Bands(w) ==
    {IF w < Lo THEN "lo" ELSE IF w < Mid THEN "mid" ELSE "hi"}
        \cup {t \in {"lo", "mid"} : Distance(w, Lo) <= Tolerance}
        \cup {t \in {"mid", "hi"} : Distance(w, Mid) <= Tolerance}

\* The weight the vote may use at all.
Scored(r) == gate.numeric /\ r.weight # Unscored

Evidence(r) == r.words \cup IF Scored(r) THEN Bands(r.weight) ELSE {}

(***************************************************************************)
(* Comparing the pods                                                      *)
(***************************************************************************)
AxisAligned(a, b) == a \cap b # {} \/ a \cup b = {}

\* Both gave a weight, and the two are too far apart whatever the tokens say.
Apart(a, b) ==
    /\ gate.guard /\ Scored(a) /\ Scored(b)
    /\ Distance(a.weight, b.weight) > 0
    /\ Distance(a.weight, b.weight) >= GapThreshold

Aligned(p) == AxisAligned(Evidence(p.a), Evidence(p.b)) /\ ~Apart(p.a, p.b)

\* Two further axes: no token belongs to one pod alone, and all four agree.
\* The axis of causes is empty on both sides, which counts as agreement.
One(b) == IF b THEN 1 ELSE 0
AxesAligned(v) ==
    v.aligned + One(~v.novel) + One(v.aligned = Axes) + One(gate.causality)

_DiagnosisOfSilence(v) ==
    IF v.inputs = "malformed" THEN "EVALUATOR_ERROR"
    ELSE IF AxesAligned(v) >= Consensus THEN "PASS" ELSE "FAIL"

Diagnosis(v) ==
    IF v.inputs = "malformed" THEN "EVALUATOR_ERROR"
    ELSE IF gate.eligible /\ ~v.a /\ ~v.b THEN "UNMEASURED"
    ELSE IF gate.eligible /\ (~v.a \/ ~v.b) THEN "INELIGIBLE"
    ELSE IF AxesAligned(v) >= Consensus THEN "PASS" ELSE "FAIL"

Status(v) ==
    IF v.inputs = "none" THEN "advisory_stub"
    ELSE IF v.inputs = "one" THEN "blocked"
    ELSE IF AxesAligned(v) >= Consensus /\ (gate.wired => Diagnosis(v) = "PASS")
         THEN "consensus"
    ELSE IF AxesAligned(v) >= Split THEN "split" ELSE "blocked"

(***************************************************************************)
(* The steps                                                               *)
(***************************************************************************)
\* The blocks arrive. One that is no mapping has no tokens.
Blocks(inputs) ==
    /\ vote' = [NoVote EXCEPT !.inputs = inputs]
    /\ last' = [a |-> Silent, b |-> Silent]
    /\ gate' \in Gates

\* The next axis of the two blocks. A stub block has no tokens either; the
\* vote on it is taken and not used.
ReadAxis ==
    /\ vote.read < Axes
    /\ \E p \in Pair :
        /\ vote.inputs # "both" => p.a = Silent
        /\ vote.inputs \in {"none", "one"} => p.b = Silent
        /\ last' = p
        /\ vote' = [vote EXCEPT
               !.read = @ + 1,
               !.aligned = @ + One(Aligned(p)),
               !.novel = @ \/ Evidence(p.a) # Evidence(p.b),
               !.a = @ \/ Evidence(p.a) # {},
               !.b = @ \/ Evidence(p.b) # {},
               !.apart = @ \/ Apart(p.a, p.b)]
    /\ UNCHANGED gate

Voted == vote.read = Axes

\* Its status is what is left of the vote.
EndOfVote == gate' = NoGate /\ vote' = NoVote /\ last' = [a |-> Silent, b |-> Silent]

(***************************************************************************)
(* Evidence cards and the judges that stand before their promotion:        *)
(* core/evidence_gate.py, core/acceptance_gate.py, core/judge.py.          *)
(***************************************************************************)
VARIABLES
    card,       \* state of the evidence card
    seen        \* the states the card has been in

cardVars == <<card, seen>>

CardState == {"draft", "hypothesis", "executed_unverified", "verified_once",
              "verified_twice", "contradicted", "infeasible_recorded",
              "accepted", "rejected", "skipped_with_reason"}

PromotionBlockers == {"draft", "hypothesis", "executed_unverified", "contradicted",
                      "infeasible_recorded"}

Transitions ==
    {<<"draft", "hypothesis">>, <<"draft", "skipped_with_reason">>,
     <<"hypothesis", "executed_unverified">>, <<"hypothesis", "skipped_with_reason">>,
     <<"executed_unverified", "verified_once">>, <<"executed_unverified", "contradicted">>,
     <<"executed_unverified", "infeasible_recorded">>,
     <<"verified_once", "verified_twice">>, <<"verified_once", "contradicted">>,
     <<"verified_twice", "accepted">>, <<"verified_twice", "rejected">>,
     <<"contradicted", "rejected">>,
     <<"infeasible_recorded", "rejected">>, <<"infeasible_recorded", "skipped_with_reason">>}

CardInit == card = "draft" /\ seen = {"draft"}

(***************************************************************************)
(* The acceptance gate. A criterion is prose, or names a file that is      *)
(* there, that is missing, or that is missing and has a word in its name   *)
(* that is read as trouble of the environment.                             *)
(***************************************************************************)
Criterion == {"prose", "present", "absent", "marked"}
Report == [available : BOOLEAN, tester : {"pass", "fail", "other"},
           builder : {"fail", "other"}, criteria : SUBSET Criterion]

Missing(r) ==
    (r.criteria \cap {"absent", "marked"})
        \cup {x \in {"tester"} : r.tester = "fail"}
        \cup {x \in {"builder"} : r.builder = "fail"}

JudgeAcceptance(r) ==
    CASE ~r.available -> "UNMEASURED"
      [] r.available /\ Missing(r) # {} ->
            IF Missing(r) \subseteq {"marked"} THEN "BLOCKED" ELSE "FAIL"
      [] r.available /\ Missing(r) = {} /\ "prose" \in r.criteria -> "REVIEW_REQUIRED"
      [] r.available /\ Missing(r) = {} /\ "prose" \notin r.criteria ->
            IF r.criteria # {} \/ r.tester = "pass" THEN "PASS" ELSE "UNKNOWN"

(***************************************************************************)
(* The judge of a cycle; the critic can only take away from its verdict.   *)
(***************************************************************************)
VerdictFromAcceptance(v) ==
    IF v = "PASS" THEN "accept" ELSE IF v = "BLOCKED" THEN "blocked" ELSE "retry"

DowngradeWithCritic(verdict, severity) ==
    IF severity = "reject" THEN "escalate"
    ELSE IF severity = "warn" /\ verdict = "accept" THEN "retry" ELSE verdict

(***************************************************************************)
(* Promotion                                                               *)
(***************************************************************************)
_CanPromoteDisputed(from, to) ==
    <<from, to>> \in Transitions \/ (from = "contradicted" /\ to = "verified_once")

CanPromote(from, to) == <<from, to>> \in Transitions

\* A blocking state is left with a decision record only.
PromoteCard(to, decision) ==
    /\ CanPromote(card, to)
    /\ card \in PromotionBlockers => decision
    /\ card' = to /\ seen' = seen \cup {to}

\* The audit of the card's claim: any doubt leaves the card where it is,
\* whatever it was to become.
PromoteWithAudit(to, decision, doubt) ==
    /\ CanPromote(card, to)
    /\ card \in PromotionBlockers => decision
    /\ card' = IF doubt THEN card ELSE to
    /\ seen' = seen \cup {card'}

\* The acceptance gate: no criteria, nothing to gate; no pass, an exception.
GatedPromote(to, decision, report) ==
    \/ JudgeAcceptance(report) = "UNKNOWN" /\ UNCHANGED cardVars
    \/ JudgeAcceptance(report) = "PASS" /\ PromoteCard(to, decision)

CardNext ==
    \E to \in CardState, decision \in BOOLEAN :
        \/ PromoteCard(to, decision)
        \/ \E doubt \in BOOLEAN : PromoteWithAudit(to, decision, doubt)
        \/ \E report \in Report : GatedPromote(to, decision, report)

(***************************************************************************)
(* Properties                                                              *)
(***************************************************************************)
CardTypeOK == card \in CardState /\ seen \subseteq CardState

\* A card is accepted only after two verifications, and never one that has
\* been contradicted or found infeasible, whichever of the three ways of
\* promotion its steps took (_TRANSITIONS, promote).
AcceptedWasVerified ==
    card = "accepted" =>
        /\ {"verified_once", "verified_twice"} \subseteq seen
        /\ seen \cap {"contradicted", "infeasible_recorded", "rejected"} = {}
==============================================================================
