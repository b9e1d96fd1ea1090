--------------------------- MODULE OrchestratorCycle ---------------------------
(***************************************************************************)
(* OrchestratorV8.run_cycle: the planning agents, the evidence, the vote   *)
(* and the self-improvement cycle, then everything that is told about the  *)
(* outcome: hooks, lanes, critic, handoff, phases, judge, retry chain and  *)
(* provider lane.                                                          *)
(*                                                                         *)
(* Two outcomes are in play: `status`, which the self-improvement cycle    *)
(* returns, and `end`, which the orchestrator settles on once it knows     *)
(* which agents have failed. What is told before that is told of `status`. *)
(***************************************************************************)
EXTENDS EvidenceScoring, Sequences

CONSTANTS Callbacks     \* the sets of hooks that are armed and have a callback

VARIABLES on,   \* the hooks that are called
          phase,   \* where the cycle is
          r     \* what the cycle has gathered

cycleVars == <<on, phase, r>>

Hook == {"planning", "trace", "failure", "sirepair", "digest", "postaccept", "cyclelog"}

ASSUME HookAssumption == Callbacks \subseteq SUBSET Hook

Stages == <<"planner", "architect", "planner_merge", "executor", "ladder">>
MaxRetry == 3
MaxRetryChainIterations == 64

Fresh == [failed |-> {}, invoked |-> {}, tickets |-> FALSE, lanes |-> 0, emitted |-> 0,
          fired |-> {}, status |-> "", signal |-> "", early |-> {},
          end |-> "", handoff |-> "", phases |-> {}, verdict |-> "",
          retry |-> 0, trail |-> "", provider |-> "", told |-> ""]

CycleInit ==
    /\ on \in Callbacks
    /\ phase = "idle"
    /\ r = Fresh

\* The hooks that write are armed by switches of their own, the others also
\* by the one that only observes; what a callback raises is swallowed.
Armed(master, observe, write) ==
    master \cup write \cup IF observe THEN Hook \ {"postaccept", "cyclelog"} ELSE {}

Fired(hooks) == r.fired \cup (hooks \cap on)

(***************************************************************************)
(* Before the vote                                                         *)
(***************************************************************************)
\* AGI_V8_ENABLED is read anew by every cycle.
Disabled ==
    /\ phase = "idle"
    /\ r' = [Fresh EXCEPT !.end = "blocked"]
    /\ UNCHANGED <<on, phase>>

Begin ==
    /\ phase = "idle"
    /\ r' = Fresh
    /\ phase' \in {"planner", "ladder"}    \* the three agents are passed together or not used
    /\ UNCHANGED on

AgentKind(stage) == IF stage = "planner_merge" THEN "planner" ELSE stage

\* One stage of the planning: the first that fails ends the planning.
Agent(n) ==
    /\ phase = Stages[n]
    /\ \/ /\ r' = [r EXCEPT !.invoked = @ \cup {AgentKind(phase)},
                           !.tickets = @ \/ n = 4,
                           !.fired = Fired(CASE n = 1 -> {"planning"}
                                             [] n = 4 -> {"trace"}
                                             [] OTHER -> {})]
          /\ phase' = Stages[n + 1]
       \/ /\ r' = [r EXCEPT !.failed = {AgentKind(phase)}]
          /\ phase' = "ladder"
    /\ UNCHANGED on

\* select_plan_activation is given one task and no risk, which is the scout
\* mode; it has a lane of self-improvement only in the scaled table.
SelectActivation ==
    /\ phase = "ladder"
    /\ \/ /\ \E ladder, scaled \in BOOLEAN :
               r' = [r EXCEPT !.lanes = IF ladder /\ scaled THEN 1 ELSE 0]
          /\ phase' = "evidence"
       \/ /\ phase' = "raised"     \* the manifest of the decision has no payload
          /\ UNCHANGED r
    /\ UNCHANGED on

\* The blocks of the caller, or those bought for a cycle that has none.
GetEvidence ==
    /\ phase = "evidence"
    /\ \/ /\ \E inputs \in {"none", "one", "both", "malformed"} : Blocks(inputs)
          /\ phase' = "vote"
       \/ phase' = "raised" /\ UNCHANGED voteVars
    /\ UNCHANGED <<on, r>>

(***************************************************************************)
(* The self-improvement cycle, from outside: its status is the vote's; the *)
(* rewriting lane and the critic inside it may fail.                       *)
(***************************************************************************)
RunSi ==
    /\ phase = "vote" /\ Voted
    /\ \/ /\ \E fails \in SUBSET {"sia_controller", "critic"} :
               r' = [r EXCEPT !.status = Status(vote), !.failed = @ \cup fails]
          /\ phase' = "hooks"
       \/ phase' = "raised" /\ UNCHANGED r
    /\ UNCHANGED on

\* The hooks that are told of the status as soon as it is there.
HooksOf(status, failed) ==
    {h \in {"failure"} : status # "consensus"}
        \cup {h \in {"sirepair"} : status = "blocked"}
        \cup {"digest"}
        \cup {h \in {"postaccept"} : status = "consensus" /\ failed = {}}

FireHooks ==
    /\ phase = "hooks"
    /\ r' = [r EXCEPT !.fired = Fired(HooksOf(r.status, r.failed)), !.early = r.failed]
    /\ phase' = "lanes"
    /\ EndOfVote
    /\ UNCHANGED on

(***************************************************************************)
(* Proposer, rollback guard, outcome observer and ticket writer get 4, 4,  *)
(* 2 and 2 of twelve; what rounding leaves over goes round, one each.      *)
(***************************************************************************)
LaneAllocation == <<4, 4, 2, 2>>
Share(k, n) == (LaneAllocation[k] * n) \div 12
Deficit(n) == n - (Share(1, n) + Share(2, n) + Share(3, n) + Share(4, n))
Scaled(k, n) ==
    IF n >= 12 THEN LaneAllocation[k]
    ELSE Share(k, n) + (Deficit(n) + 4 - k) \div 4

\* A proposer emits a ticket for the one decision, a guard one for each of
\* those, a writer all of them again.
TicketsEmitted(n) ==
    LET proposed == Scaled(1, n)
        guarded == Scaled(2, n) * proposed
    IN proposed + guarded + Scaled(4, n) * (proposed + guarded)

RunSiLayer ==
    /\ phase = "lanes"
    /\ \/ /\ \E enabled \in BOOLEAN :
               r' = [r EXCEPT !.lanes = 0,
                              !.emitted = IF enabled /\ r.lanes > 0
                                          THEN TicketsEmitted(r.lanes) ELSE 0]
          /\ phase' = "multimodal"
       \/ /\ r.lanes > 0
          /\ phase' = "raised"
          /\ UNCHANGED r
    /\ UNCHANGED on

\* The multimodal step, never fatal: no answer, an answer, or an error
\* of its switch or of the step.
RunMultimodal ==
    /\ phase = "multimodal"
    /\ \E signal \in {"", "step", "wire_error"} :
        r' = [r EXCEPT !.signal = signal]
    /\ phase' = "critic"
    /\ UNCHANGED on

(***************************************************************************)
(* Settling                                                                *)
(***************************************************************************)
\* The critic is asked again unless it has already failed in this cycle.
AskCritic ==
    /\ phase = "critic"
    /\ \/ UNCHANGED r                                       \* there is none, or it failed
       \/ /\ "critic" \notin r.failed
          /\ r' \in {[r EXCEPT !.invoked = @ \cup {"critic"}],
                     [r EXCEPT !.failed = @ \cup {"critic"}]}
    /\ phase' = "settle"
    /\ UNCHANGED on

_EndOfStatus(status, failed) == status

EndOf(status, failed) == IF failed = {} THEN status ELSE "blocked"

Settle ==
    /\ phase = "settle"
    /\ r' = [r EXCEPT !.end = EndOf(r.status, r.failed)]
    /\ phase' = "handoff"
    /\ UNCHANGED on

Handoff ==
    /\ phase = "handoff"
    /\ \/ UNCHANGED r                   \* no continuation, or it failed
       \/ r' = [r EXCEPT !.handoff = r.end, !.invoked = @ \cup {"continuation"}]
    /\ phase' = "phases"
    /\ UNCHANGED on

(***************************************************************************)
(* What is derived from the settled outcome; each part has its own switch. *)
(***************************************************************************)
\* The phase manager, a payload, decides alone whether the exit is satisfied.
PhaseChain ==
    /\ phase = "phases"
    /\ \/ UNCHANGED r
       \/ \E exit \in BOOLEAN :
             r' = [r EXCEPT !.phases =
                      {"planning", "execution", "acceptance", "judge", "continuation"}
                        \cup {p \in {"retry_chain"} : r.end # "consensus"}
                        \cup {p \in {"completed"} : exit}]
    /\ phase' = "judge"
    /\ UNCHANGED on

\* The judge has no criteria, a tester that passes with a consensus, and the
\* critic once more, which may be absent, silent, warn, reject or fail.
CycleReport(status) ==
    [available |-> TRUE, tester |-> IF status = "consensus" THEN "pass" ELSE "fail",
     builder |-> "other", criteria |-> {}]

JudgeCycle ==
    /\ phase = "judge"
    /\ \/ UNCHANGED r
       \/ \E severity \in {"none", "warn", "reject"} :
             r' = [r EXCEPT !.verdict =
                      DowngradeWithCritic(
                          VerdictFromAcceptance(JudgeAcceptance(CycleReport(r.end))), severity)]
    /\ phase' \in {"provider"} \cup {p \in {"retry"} : r.end # "consensus"}
    /\ UNCHANGED on

\* The recovery ladder; `repeats`, `elapsed` and `open` are how often the
\* failure was seen, whether it is old, how many tasks wait.
DecideRecovery(repeats, retries, maxRetry, old, open) ==
    IF repeats >= 5 \/ (old /\ open > 0) THEN "decompose"
    ELSE IF repeats >= 3 \/ (maxRetry > 0 /\ retries >= maxRetry /\ open > 0) THEN "replan"
    ELSE IF maxRetry > 0 /\ retries >= maxRetry THEN "escalate"
    ELSE "retry"

\* One turn of the chain. A split has not been seen before, the rest once.
RetryChain ==
    /\ phase = "retry"
    /\ LET action == DecideRecovery(IF r.end = "split" THEN 0 ELSE 1, r.retry, MaxRetry, FALSE, 0)
       IN /\ r' = [r EXCEPT !.trail = action, !.retry = @ + 1]
          /\ phase' = IF action = "retry" /\ r.retry + 1 < MaxRetryChainIterations
                   THEN "retry" ELSE "provider"
    /\ UNCHANGED on

\* The provider lane calls a mock through the manager and its ledger: an
\* answer, a budget that refuses, or something that fails.
ProviderStatus(failed, blocked, called) ==
    IF failed THEN "failed" ELSE IF blocked THEN "blocked"
    ELSE IF called THEN "provider_called" ELSE "budget_checked"

ProviderLane ==
    /\ phase = "provider"
    /\ \/ r' = [r EXCEPT !.provider = "skipped_disabled"]
       \/ \E failed, blocked, called \in BOOLEAN :
            /\ ~(failed /\ blocked)
            /\ ~failed /\ ~blocked => called
            /\ r' = [r EXCEPT !.provider = ProviderStatus(failed, blocked, called)]
    /\ phase' = "close"
    /\ UNCHANGED on

Close ==
    /\ phase = "close"
    /\ r' = [r EXCEPT !.fired = Fired({"cyclelog"}),
                     !.told = IF "cyclelog" \in on THEN r.end ELSE ""]
    /\ phase' = "done"
    /\ UNCHANGED on

\* The result is returned, or the exception reaches the caller.
Return ==
    /\ phase \in {"done", "raised"}
    /\ phase' = "idle"
    /\ r' = Fresh
    /\ EndOfVote
    /\ UNCHANGED on

Outside ==
    \/ Disabled \/ Begin \/ SelectActivation \/ RunSi \/ RunSiLayer
    \/ \E n \in 1..4 : Agent(n)
    \/ RunMultimodal \/ AskCritic \/ Settle \/ Handoff
    \/ PhaseChain \/ JudgeCycle \/ RetryChain \/ ProviderLane \/ Close

CycleNext ==
    \/ Outside /\ UNCHANGED voteVars
    \/ GetEvidence
    \/ phase = "vote" /\ ReadAxis /\ UNCHANGED cycleVars
    \/ FireHooks
    \/ Return

(***************************************************************************)
(* Properties                                                              *)
(***************************************************************************)
Agents == {"planner", "architect", "executor", "critic", "sia_controller"}
Word == {"", "advisory_stub", "blocked", "split", "consensus"}

Gathered ==
    [failed : SUBSET Agents, invoked : SUBSET (Agents \cup {"continuation"}),
     tickets : BOOLEAN, lanes : {0, 1}, emitted : Nat, fired : SUBSET Hook,
     status : Word, signal : {"", "step", "wire_error"}, early : SUBSET Agents,
     end : Word, handoff : Word, told : Word,
     phases : SUBSET {"planning", "execution", "acceptance", "judge", "continuation",
                      "retry_chain", "completed"},
     verdict : {"", "accept", "blocked", "retry", "escalate"},
     retry : 0..MaxRetryChainIterations,
     trail : {"", "decompose", "replan", "escalate", "retry"},
     provider : {"", "skipped_disabled", "failed", "blocked", "provider_called", "budget_checked"}]

Vote == [inputs : {"none", "one", "both", "malformed"}, read : 0..Axes, aligned : 0..Axes,
         novel : BOOLEAN, a : BOOLEAN, b : BOOLEAN, apart : BOOLEAN]

CyclePhases == {"idle", "planner", "architect", "planner_merge", "executor", "ladder",
                "evidence", "vote", "hooks", "lanes", "multimodal", "critic", "settle",
                "handoff", "phases", "judge", "retry", "provider", "close", "done", "raised"}

CycleTypeOK ==
    /\ on \subseteq Hook /\ phase \in CyclePhases /\ r \in Gathered
    /\ gate \in Gate /\ vote \in Vote /\ last \in Pair

\* A consensus is the agreement of both pods on all four axes: the two
\* derived axes cannot outvote one they were derived from, and silence is no
\* agreement while the diagnosis asks for evidence (vote_per_axis,
\* diagnose_consensus, _CONSENSUS_THRESHOLD). With the axis of causes, which
\* is always aligned, an axis that only the guard on the weights tells apart
\* can be outvoted.
ConsensusIsEarned ==
    phase = "hooks" /\ r.status = "consensus" =>
        /\ vote.aligned = Axes \/ (gate.causality /\ vote.apart)
        /\ gate.wired => vote.inputs = "both"
        /\ gate.wired /\ gate.eligible => vote.a /\ vote.b

\* Bands overlap near their edges so that near weights agree; weights that
\* share no keyword and are further apart than a band with both its margins
\* never do, and with the guard not even those at its threshold
\* (_bands, _BAND_EDGE_TOL, the guard in vote_per_axis).
DivergenceIsSeen ==
    Scored(last.a) /\ Scored(last.b) =>
        LET d == Distance(last.a.weight, last.b.weight) IN
        /\ Aligned(last) /\ gate.guard => d < GapThreshold
        /\ Aligned(last) /\ last.a.words \cap last.b.words = {} =>
               d <= Mid - Lo + 2 * Tolerance
        /\ d <= Tolerance => Aligned(last)

\* Who has been told that the cycle was accepted has been told the truth: it
\* ends as a consensus, unless the critic, asked once more after the hooks,
\* is the one that fails (the hook of run_cycle "fires after EvidenceState
\* transitions to accepted").
PostacceptStands ==
    "postaccept" \in r.fired /\ r.end # "" =>
        r.end = "consensus" \/ r.failed \ r.early = {"critic"}

\* What is told after the settling agrees with the result that is returned:
\* the judge accepts and no chain of retries runs only where the cycle ends
\* as a consensus with no failed agent, the chain ends in an escalation, and
\* handoff and cycle log carry the settled status.
LateWordsAgree ==
    phase = "done" =>
        /\ r.verdict = "accept" => r.end = "consensus" /\ r.failed = {}
        /\ r.end = "consensus" => r.trail = "" /\ "retry_chain" \notin r.phases
        /\ r.end # "consensus" => r.trail \in {"", "escalate"}
        /\ {r.handoff, r.told} \subseteq {"", r.end}

\* The vote means what it says, axis by axis and as a whole.
VoteIsRight == ConsensusIsEarned /\ DivergenceIsSeen

\* Whoever is told of the outcome, in the hooks or after the settling, is told
\* the one that the cycle ends with.
OutcomeIsToldRight == PostacceptStands /\ LateWordsAgree
===============================================================================
