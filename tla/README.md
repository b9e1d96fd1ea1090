# Formal models of agi_v8_1

`agi_v8_1` is a supervised self-improvement loop. Producers append *queries* to
an inbox; a *tick*, started by cron, an operator or a service manager, takes one
query, checks it against a daily budget, has it reviewed, and dispatches one
orchestrator cycle in a child process with a deadline. A cycle lets two pods
vote, may run a self-improvement cycle that proposes changes, verifies them in a
sandbox, applies them, rolls them back, and leaves cards and approvals; an
operator promotes patches into the live git tree. All shared state is in files:
append-only JSONL ledgers, small JSON records, kernel locks and the source tree
itself. Nothing is a server; every guarantee has to hold between processes that
start, overlap and die on their own.

The TLA+ modules in this directory model that control: which process reads and
writes which file in which order, and what is left when it dies half-way. TLC
checks small instances; TLAPS proves the main safety properties for every
instance. Paths below are relative to `src/agi_v8_1/`.

    tlc -workers 2 -config TickLoop_safety.cfg MCTickLoop.tla     # one run
    tlapm TickLoopProofs.tla                                      # one proof module

Contents: 1 inventory, 2 interactions, 3 the modules, 4 the runs, 5 fairness,
6 proofs, 7 what the models showed, 8 what is left out, 9 plan.

## 1. Inventory

`PROJECT.json` assigns every source file to a component and says what of it is
modelled. The components with state that several actors touch, or that has to
survive a failure:

| component | state | operations | what is hard | what makes it correct |
|---|---|---|---|---|
| tick loop (`runtime/tick_runner.py`) | inbox and tombstone ledgers, campaign settlements | `tick_once`: snapshot, walk, reject, review, claim, dispatch, settle | stale snapshot, crash between claim and charge, unreadable ledgers, several ticks | a query is charged at most once, and is answered in the end |
| daily cost cap (`runtime/daily_cost_cap.py`) | `executor_log` rows since local midnight, acknowledgements | `check`, `remaining_usd`, `ack_unmeasured` | two ledgers read without a lock, midnight, spend nobody observed | a day's spend stays within its limit |
| spend reservation (`runtime/spend_reservation.py`) | reservation ledger | `reserve`, `settle`, `release`, `open_reservations` | lost settlements, TTL against a live owner | a running cycle is always counted, an orphan only for a while |
| tick lease (`runtime/tick_lease.py`) | kernel flock, `lease.json` | `acquire`, `status` | record and lock are two objects; files survive a crash, locks do not; status probes by locking | the record never lies about a live holder; the lock always comes back |
| dispatch deadline, descendant seal (`runtime/tick_deadline.py`, `runtime/tick_descendant_seal.py`) | process tree, pipes, subreaper flag, PID namespace, death signals | `run_with_deadline`, `run_sealed` | fork, setsid, arming and adoption race the clean-up | nothing of a dispatch outlives it unnoticed |
| repeated-failure gate (`runtime/repeated_failure_gate.py`) | history of signatures | `should_skip`, `record_outcome` | the skip writes history itself | only a repeat of the same failure is skipped |
| progress stall (`runtime/progress_stall.py`) | scans, purchases | `stall_verdict`, `merge_scale` | an observer that sees less looks like progress | "progressing" means something was resolved |
| cross-model budget (`verifier/cross_model_budget.py`, the review function in `self_improvement_v8.py`) | spend ledger and its sidecar lock | `exhausted`, `reserve_if_capacity`, `record_spend`, the review | reserve, bill, reconcile across crashes and lost acknowledgements | the ledger covers every bill, stays legal and within its cap, and stops when nobody can vouch for it |
| safe auto apply (`enforcement/safe_auto_apply.py`, `enforcement/apply_chain_full.py`) | files, backups, intent/commit ledger, hash chain, in-memory session | `apply_session`, `apply_block`, `revert_last`, `append`, `verify_chain` | failure after several writes, roll-back that fails too, pruned backups, several appliers, gate changes | what is left dirty is named; originals survive; unconfirmed writes are found after a restart; the chain's verdict is right |
| promotion (`si_lanes/promote.py`) | working tree, HEAD, nonce ledger | `promote_patches` | no lock: editors, commits and other promotions run meanwhile | it replaces what was tested, overwrites nobody's work, uses an approval once |
| proposal archive (`si_lanes/proposal_archive.py`) | bodies, index | `archive_cycle`, `read_archive` | body and row are two writes | each row leads to its body or says why not |
| workspace snapshot (`runtime/workspace_snapshot.py`) | a copy, its report | `snapshot_repo` | the source is edited and committed to meanwhile | a clean report means one commit |
| workspace slots (`runtime/multi_orchestrator.py`) | meter, manifest of a slot | `allocate_slot`, `update_cost_meter`, `append_manifest_entry` | first write without the lock, damaged meter | no returned charge is lost |
| tier gate (`policy/tier_gate.py`) | token, evidence, receipt | `grant_local`, `import_token`, `require_tier` | check and write are two steps; expiry; releases | an acquired tier stays |
| sandbox (`core/sandbox_runner.py`) | snapshot cache, staging directories, containers, clean-up registry | `run` | timeouts, forks, docker that goes away, sealed process tree | the grade is of what ran; every leftover has a reason |
| executor log, evidence bursts, reconciliation (`enforcement/executor_log.py`, `bridge/si_evidence.py`, `runtime/cost_reconcile.py`) | two ledgers that should agree | `log_executor_event`, `swarm_evidence_blocks`, `reconcile` | lost, torn and late rows, crash between the bill and the row | a bill is in a ledger or its absence has a reason |
| episode log (`runtime/episode_log.py`) | `episode.jsonl`, `audit_failures` | `emit_plan`, `emit_cost`, `emit_halt`, `summarize_for_next_cycle` | lost rows, torn tail | the next cycle is told of the last that worked |
| prompts' history (`core/cycle_logger.py`, `prompts/prompt_compactor_v8.py`) | log, cursor, sidecar | `log_event`, `compact_prompts` | stamp and append are two steps; crash before the cursor moves | what the cursor passed was handled, once |
| falsifier bus (`bus/falsifier_bus.py`) | one ledger, readers' cursors | `append_event`, `read_events` | re-emitted ids, torn rows | a reader misses nothing |
| usage of calls (`providers/base.py`) | `last_usage` of a thread and shared | billing boundary, seal, record | threads share a provider, retries, readers without a box | a row carries its own call's tokens |
| cost limiter (`enforcement/cost_limiter.py`) | running total, records | `check_and_reserve`, `replace_reservation` | refusals, interleaved settlements | the total is what the dispatches hold |
| fail-fast (`policy/fail_fast.py`) | strict mode, census, re-entry guard | `swallowed`, critical records, `strict_scope` | threads share strict mode; the masker fails or swallows | critical records always have a text; no secret leaves unmasked |
| join ratchet (`tools/ledger_join_check.py`, `tools/ratchet.py`) | tables, sealed baseline, jail | check, update, probe of live code | any order of edits, updates and deletions | nothing that counted is laundered |
| delivery (`capabilities/delivery.py`) | manifest, bundle directories | `build_manifest`, `copy_bundle`, `validate_bundle` | source changes while read, copiers race | a whole bundle is the frozen one |
| orchestrator cycle (`orchestrator_v8.py`, `core/axis_scorer.py`, `core/judge.py`, `core/retry_chain.py`) | one record per cycle | `run_cycle` | swallowed and uncaught failures at every stage; two notions of outcome | consensus is earned; whoever is told is told the outcome |
| self-improvement cycle (`self_improvement_v8.py`, `core/continuation_ring.py`, `core/cycle_policy_v81.py`) | goal, archive, chain rows, log, ring | propose, verify, judge, apply, run, confirm, log | long sequences of early returns; crashes; memory and sidecar | what a verdict was about is what is done with it; the records agree |
| evidence cards (`core/evidence_gate.py`, `core/acceptance_gate.py`) | ten states | three ways to promote | sequences of legal calls | accepted means twice verified |
| everything else | text, prompts, scores, reports, data classes | | no interacting state | not modelled (section 8) |

## 2. Interactions

- Ticks meet in files only: inbox and tombstones (`TickLoop`), the money ledgers
  (`SpendLedger`, shared state of `TickLoop`), the lease (`TickLease`; `TickLoop`
  takes it as a lock that the kernel frees on death, which is what `TickLease`
  establishes).
- A tick calls `run_with_deadline`, which forks; the child inherits the lease's
  descriptor (`DispatchTree`). `TickLoop` takes the dispatch as: it spends at
  most its budget and ends. That no descendant spends after it, unless the tick
  was told so, is `NothingOutlives`.
- What a tick hands to the repeated-failure gate is the settlement of a card;
  `RepeatedFailure` has the gate and the feed around it, `TickLoop` its verdict
  as a free choice.
- The dispatched cycle is `OrchestratorCycle`: agents, evidence, vote
  (`EvidenceScoring`), then the self-improvement cycle (`SiCycle`) as one step that
  returns a status or raises, then everybody who is told. `SiCycle` takes the
  verdicts of the sandbox and of the reviewer as inputs; `Sandbox` and
  `ReviewBudget` say how they come about.
- A cycle applies patches through `apply_session` (`AutoApply`). `promote_patches`
  uses the same function for its write; `Promotion` keeps one step per file and
  the roll-back, and leaves the ledger and the backups to `AutoApply`.
- The ledgers under the state directory all lie on `state/store.py`: `JsonLedger`
  is its file (rows, a last line without an end, a piece of a row, a line that
  does not parse), and `EpisodeLog`, `PromptHistory`, `FalsifierBus`,
  `ProposalArchive` and `SpendRecords` append to instances of it.

Three modules compose parts. `OnDisk` puts together what lies on the disk beside
the ledgers, `Ledgers` the ledgers and the instruments that read them,
`SelfImprovement` the cycle, the card, the self-improvement cycle and the
promotion. In the code these parts have files and variables of their own; what
one hands to another is taken from a set that holds everything the other can
hand over. So nothing is gained by interleaving them, and a behaviour of a
composition chooses one part, which it then follows with all its interleavings
and faults; the state of the other parts stays as it began. Where a part is
itself concurrent (several ticks, appliers, claimants, copiers, threads,
promoters, processes of a slot) all its actors interleave.

## 3. The modules

| module | models | state ↔ code | actions ↔ code |
|---|---|---|---|
| `SpendLedger` | the money of one day | `spent`, `unmeasured`, `inflight`: `executor_log` rows since midnight; `resv`: open reservations; `badLedgers`: unreadable files | helpers of `TickLoop`: `Tally` (the two-read sum of `check`), `CapAllows`, `Budget` (`min(per cycle, remaining)`), `Reserve`, `Settle`, `Expire` (the TTL), `Midnight` |
| `TickLoop` | `tick_once`, by several processes | `inbox`, `tomb` (consumed.jsonl), `upto`/`at`/`gone` (the snapshot a tick walks), `tally`/`left` (locals), `pc` | one action per step that touches a file; `Crash` between any two; a write that raises unwinds the same way |
| `QueryLife` | the abstract promise about one query | queued, rejected, claimed, charged | `TickLoop` refines it under the lease (`QueryLifeSpec`) |
| `TickLease` | `acquire` and `status` | `lock` (flock), `record` (lease.json with its nonce) | try-lock, publish, work, read own record, unlink, unlock; status reads, then probes |
| `DispatchTree` | `run_with_deadline`, `_child_main`, `run_sealed` | `st`, `dad`, `grp`, `armed`, `doomed`: the kernel's view of P (tick), L (leader), S (seal leader), N (namespace init) and workers; `lease`: who has the lease's descriptor | the code of P, L, S and N step by step; workers fork, leave their group and exit at will |
| `ReviewBudget` | the review function and its ledger | `ledger`: rows of each transaction; `torn`: half a line at the end; `lock`; `evidence`: what the provider call left | `StartReview`, `Lock`, `Check`, `AppendReserve`, `Generate`, `Record`, `Mark`, `Accept`; `Crash`, `Repair`, the other spender `Execute` |
| `AutoApply` | one `apply_session` and the next start | `tree`, `baks` and `saved` (backups), `intents`, `commits`, the session's memory, `undo` | examine, back up, intent, mutate, commit; settle, restore, uncreate, report; `Crash`, `Boot`, `Spoil` |
| `BlockApply` | `apply_block`, `revert_last` of several appliers on one file | `file` (blocks in it), `backupsOf`, `applier[a]` (the call and what it read) | read the target, back it up (and prune), write; revert; die; somebody else's edit |
| `ApplyChain` | the hash chain of applied changes | `chain`: lines with hash, previous hash and number; the gate `numbering` | append, an append that dies, gate switches, tampering, a tail cut off |
| `ProposalArchive` | `archive_cycle`, `read_archive` | `bodies`, `index` (a `JsonLedger`), counters | `Archive` begins a call, `StoreBody`, `IndexRow`; failures and death between them |
| `RepoSnapshot` | `snapshot_repo` | `source`, `head`, `dest`, the snapshot's own `git` | begin, copy one file, verify, identify, commit; edits and commits of the source between |
| `SlotMeter` | meter and manifest of a slot | `meter`, its temporary file, `slotRows`, `holder` (the lock), `worker[p]` | allocate, acquire, read, write, replace, append; kills and damage |
| `Delivery` | `build_manifest`, `copy_bundle`, `validate_bundle` | source versions, manifest, `dirs`, `copier[c]` | open and read each file twice, make the directory, write, manifest, validate; edits, removal, a copy broken off |
| `TierGate` | `grant_local`, `import_token`, expiry, releases | `token`, `evidence`, `receipt`, `claim[c]` (what each claimant checked) | check, write evidence, write receipt, write token, abandon, a new day, a new release |
| `JsonLedger` | `append_jsonl` and its readers | rows, `open`, `torn`, `junk` | `Written`, `Cut`, `Unended`, `Failed`, `Parses` as operators |
| `SpendRecords` | evidence bursts, executor log, reconciliation | two ledgers, the switches, `billed` | ask, gate, open, call, close, pods, row; lost and torn rows, crash |
| `EpisodeLog` | rows of a cycle, the note on the previous one | ledger, `audit` | emit, halt, next cycle, faults |
| `PromptHistory` | logger, compactor | log, cursor, sidecar, the compactor's batch | stamp, append, compact, append rules, move the cursor, interrupt |
| `FalsifierBus` | bus and a reader | ledger, cursor | emit (again), tear, read with a limit |
| `UsageTally` | one provider shared by threads | `call[t]`, `shared` | enter, trip, clear, leave, bill the caller, next call |
| `CostBudget` | the limiter under several dispatches | `cumulative`, `records`, `dispatch` | reserve, call the provider (or fail), replace the reservation |
| `ProgressStall` | scans and purchases of a loop | see `VARIABLES` | judge, feed (buy), resolve; the tree changes, an observer goes blind |
| `RepeatedFailure` | the gate, its history, the feed | `history`, `settled`, `streak` | attempt (skip or dispatch), hand out again, switch |
| `FailFast` | `swallowed` and the critical records in several threads | `strict`, `counts`, `last`, the stack of calls per thread | call, count, raise, take text, mask, store; scopes |
| `JoinRatchet` | check and update of the join ratchet | `rows`, tables, `baseline` | check, update, edits of tables, baseline and jail |
| `LiveCode` | the probe for live code | a function body as a tree | probe it; run it by a reference definition (beside the ledgers, in `MCLedgers`) |
| `EvidenceScoring` | scoring and the vote; an evidence card | `gate`, `vote`; `card`, `seen` | read one axis, count; `PromoteCard`, `PromoteWithAudit`, `GatedPromote` |
| `OrchestratorCycle` | `run_cycle` | `phase`, `r` (what the cycle has gathered) | one action per stage, with what it swallows and what it lets through |
| `SiCycle` | a campaign of self-improvement cycles | `stage`, `c` (locals), `confs`, `archive`, `chain`, `log`, `ring` and `disk`, `goal` | one action per step that changes a file or decides; `DieInCycle`, `NewProcess` |
| `Sandbox` | `run`, two calls of a process | calls, snapshot cache, directories, containers, registry, daemon | the gates, staging, start, wait, timeout, outcome, receipt, clean-up; daemon loss, kill |
| `Promotion` | `promote_patches`, by several processes | `tree`, `head`, `commits` (git), `bound` (nonces), `cas` (captured preimages), `tested` | request, bind, scan, carry, capture, verify, recheck, write, undo, finish; `Edit`, `CommitAll`, `Crash` |
| `OnDisk`, `Ledgers`, `SelfImprovement` | compositions (section 2) | `part`, `ledger` name the part of a behaviour | the actions of the part |

`*Proofs` hold the theorems, `DataLemmas` the lemmas about data that several of
them need; `MC*` the constants of the runs. `TickLease`, `DispatchTree`,
`ReviewBudget` and `Sandbox` are run as they are, their `.cfg` gives every constant. Definitions whose
comment begins with "Mutant" or "Bug" are faulty variants of the definition that
follows them. They are not used by any specification: each run's properties are
tested against them (`mutants` in `PROJECT.json`).

Conventions. Dollars are small integers: the code's fixed-point rounding is not
modelled. Contents are numbers, ids and processes are model values. `faults`
(also `siFaults`, `mishaps`, ...) bounds crashes, failed writes and damage in
every module, and every other bound (`Max...`) is a constant named for what it
bounds. History variables (`paid`, `settled`, `bill`, `accepted`, `grants`,
`raced`, `verdictOn`, `wrote`, `seen`, the `...Ghost` records) exist for the
properties and guard nothing. Properties are conjunctions of named parts, each
with its own comment: `CapIsKept` is `DayBounded` and `DispatchWithinHeadroom`,
and so on; the parts are what a counterexample names.

What each module gives up:

- `TickLoop`: a dispatched cycle spends its budget in one-dollar calls and may
  end or be halted between them; a review call spends at most `ReviewMax`. The
  switches of the code that change control are constants (`LeaseOn`, `ResvOn`,
  `StrictOn`, ...). `straddles` is a tick whose midnight is yesterday's.
- `TickLease`: the content of `lease.json` is its owner and its nonce.
- `DispatchTree`: SIGTERM is no step, because a process may exit at any time
  anyway; what matters is which processes SIGKILL reaches.
- `ReviewBudget`: the order of rows of different transactions is not kept, since
  every reader sums or scans. The transaction id is fresh (the code draws 128
  random bits).
- `AutoApply`: a content is a number and the kind of its line ends (the roll-back
  writes what `read_text` returned, so CRLF comes back as LF). Paths are
  distinct files.
- `BlockApply`: one file; a block is its proposal's id. `ApplyChain`: a hash is
  the row it is the hash of; a row's body is a number.
- `Promotion`: a scan is one step; malformed batches, baseline failures and dry
  runs are left out, and HEAD never moves back to an earlier commit.
- `Sandbox`: candidate and payload are opaque; what the container answers is a
  free choice among a verified envelope, an invalid one and none. Docker is its
  answers. Two calls of one process; the snapshot is the one the process builds.
- `SiCycle`: a candidate is its rank; sandbox, reviewer, judge and ladder verdicts
  are free choices at the place where the code asks. A crash may fall between
  any two writes. The trail of the ring is a sequence of statuses up to the
  length that the escalation reads.
- `OrchestratorCycle`: an agent answers, fails or raises; texts are left out.
- `EvidenceScoring`: a block is its keywords and its weight in hundredths, so the bands
  of `axis_scorer` and their overlaps are exact.
  Of a card, the pieces of evidence are the outcomes of their checks.
- `SpendRecords`, `EpisodeLog`, `PromptHistory`, `FalsifierBus`, `ProposalArchive`:
  a row is the fields its readers use; clocks are small integers.
- `UsageTally`: tokens of a trip are 1; `CostBudget`: prices are integers.
- `ProgressStall`, `RepeatedFailure`: candidates and cards are model values, a
  signature is the card and its outcome.
- `FailFast`: a text is what it holds (`plain`, `secret`, `masked`, `withheld`).
- `JoinRatchet`: a ledger is whether its rows carry `cycle_id`. `LiveCode`: nine
  kinds of node, bodies of small depth.
- `Delivery`: a file's content is its version; a directory is what was copied.

## 4. The runs

Each question is one run; the bounds are those at which every action fires and
every mutant is caught. The times are those of two workers.

| run | module | instance | states | what it shows |
|---|---|---|---|---|
| `tick_safety` | `MCTickLoop` | 2 ticks, 2 reservation slots; a campaign card, a forged row under its id, a plain query; 2 submissions; cap 2; all gates on; 1 fault | 1.0 M, 31 s | `AtMostOnceDispatch`, `CapIsKept`, `PromisesAreTold`, and `TickLoop` implements `QueryLife` |
| `tick_live` | `MCTickLoop` | 2 ticks, 2 plain queries, 1 fault, no reviewer | 92 s | `Served`: every query gets a tombstone |
| `lease` | `TickLease` | 3 ticks, 2 status callers, 4 acquisitions, 2 faults | 27 s | `RecordTellsTruth`, and the lock comes back (`LockReturns`) |
| `tree` | `DispatchTree` | sealed and not, 2 workers | 76 s | `NothingOutlives`, `EveryEndComes` |
| `review_safety` | `ReviewBudget` | 2 reviewers, 3 transactions, cap 5, envelope 2, bills up to 3, with and without an episode budget, 2 faults | 4.6 M, 57 s | `BothCapsHold`, `BooksAreRight` |
| `sandbox` | `Sandbox` | 2 calls of one process, 3 directories, three settings of the gates, 2 faults | 0.46 M, 21 s | `VerdictIsOfWhatRan`, `EveryCallReturns` |
| `on_disk` | `MCOnDisk` | see below | 1.8 M, 44 s | nine properties of what is left on the disk |
| `ledgers` | `MCLedgers` | see below | 3.5 M, 2-3 min | ten properties of ledgers and instruments |
| `cycle` | `MCSelfImprovement` | 2 pods, 1 card, 2 ranked candidates under three settings of the switches, 1 fault; 2 promoters, 2 files, 1 approval, 2 commits, 2 faults | 7.4 M, 2-3 min | eight properties of votes, cycles, cards and promotions |
| `tick_orphan_card` | `MCTickLoop` | as `tick_safety` | | violation: a campaign card taken and never settled |
| `apply_residue` | `MCOnDisk` | one session (`SessionSpec`), no fault | | violation: a file is lost and not named |
| `ratchet_fold` | `MCLedgers` | the ratchet alone (`RatchetSpec`) | | violation: a demotion by a fold is frozen |

The bounds of the compositions, part by part:

- `on_disk`. Sessions: every list of up to 3 changes on 2 files, 2 writes per
  cycle, 2 backups kept, 1 fault. Blocks: 2 appliers, 4 applies, 2 backups kept,
  one edit from outside. Chain: 4 lines, 2 acts of tampering, 2 switches of the
  numbering gate. Archive: 2 calls with one to four changes (kept, longer, sensitive, not
  text, twice the same), 2 bodies per cycle, 1 fault. Snapshots: 2 of a repository of three
  files, 2 edits. Slots: 2 processes, 3 calls, 2 kills. Delivery: 2 copiers, 2
  files, 2 edits, 2 mishaps. Tier: 2 claimants, 4 claims, 2 days.
- `ledgers`. Spend rows: 2 bursts under three settings of the switches, 2 faults.
  Episode: 3 cycles with up to 3 rows, 1 lost. Prompts: 3 events, a budget of
  two, 2 mishaps. Bus: 2 ids in 5 appends, 2 faults. Usage: 2 threads, 2 trips a
  call. Limiter: 2 dispatches, a cap and none. Stall: 3 candidates in 2 files,
  window 2, 3 purchases, 1 mishap. Repeated failure: 2 cards, 5 settlements, 1
  fault, the gate off and at its default. Fail-fast: 2 threads, 2 calls, 1 scope.
  Ratchet: 2 families of which one may be folded, 3 edits, 3 runs. Live code:
  every body of the depth that its constructors reach, loops of 2 rounds.

Why the bounds are enough. Two processes already interleave in every order the
shared files allow; the third tick of `lease` lets a record be stale twice. Two
faults let the recovery from a fault be hit by one. In `AutoApply` one fault is
enough because changes also fail without one (an absent target, a backup that
does not verify, the rate limit). Three changes let one file be changed twice
and another once, which is where the order of roll-back matters; keeping two
backups lets the third prune. Two workers are a parent and its orphan: adoption,
detached groups and double forks need no more. In `SpendLedger` a cap of two
dollars and cycles of one and two dollars cover: nothing left, less than asked
left, and enough. In `ReviewBudget` a cap of five with envelopes of two leaves a
headroom that is above the minimum and below the envelope. Two requests or edits
after the original text let an edit race one promotion, or two promotions race
each other. Two calls of the sandbox are one that builds the snapshot and one
that finds it; three directories let one be refused and another made. Two ranked
candidates are one that is passed over and one that is taken; the trail of the
ring matters up to three, so four cycles are enough, and they are reached because
nothing bounds the number of cycles. A cursor errs on the row before or behind it:
three events are one on each side. Two dispatches of the limiter race for the
last of the cap. The ratchet's laundering needs a demotion, an update and a
second edit. The proofs of section 6 remove the bounds from every safety
property but `WhatRunsCounts`: thirty-five of the forty properties.

Deadlock is checked in the runs of `TickLoop` and `TickLease`. It is not checked
where the system may stop: a tick that is done or dead, a sandbox process that
ended, a part of a composition whose bounded steps are used up, a review ledger
that is marked.

Symmetry is used in the safety run of `TickLoop` and in the runs of the three
compositions, none of which has a liveness property; the members that it exchanges
are model values that no definition tells apart.

## 5. Fairness

Only what some scheduler of the real system provides, never that an operation
succeeds:

- `TickLoop`: `Tick(p)` (cron starts ticks for ever, and a started process runs
  on), `Unhalt` and `RepairLedgers` (an operator lifts a halt and repairs a file
  in the end; without them the code stops on purpose), `NewDay` and
  `ExpireReservation` (time passes). Crashes, faults, submissions and
  acknowledgements are never forced.
- `TickLease`: the holder runs on (`Publish`, `Release`), a status call finishes
  (`StatusDone`). Work itself is covered by the deadline of the dispatch, so
  `Release` includes it.
- `DispatchTree`: the kernel delivers a pending SIGKILL, `Tick` (bounded loops
  around a monotonic clock), and the set-up code of L, S and N, which waits for
  nothing. Nothing says that the dispatched function ever ends.
- `Sandbox`: `CallStep(k)`, the steps of the calling process, which include its
  time-out (`subprocess.run(timeout=...)`). The candidate, the daemon and the
  removal of what is left owe nothing.

The other modules have no liveness property: their operations are calls that
return after a bounded number of steps, and none waits for another.

## 6. Proofs

TLAPS checks these for every value of the constants. The assumptions are the
`ASSUME`s of the component modules. They say that bounds are naturals, switches
are Booleans and lengths of bodies are naturals; that the sets of candidates,
dispatches, transactions and files are finite, where a property sums or counts
over them; that an envelope is at most the greatest bill; that keywords are not
the names of bands, and that markers such as `NoProc` or `NoId` are not members of
the sets they mark. `TickLoop` additionally needs that the rows are records of its
row type.

Every theorem of a safety property has the same shape: an invariant that is
inductive, `Init` gives it, each action keeps it (one step per action), and it
implies the property. What has to be found is what each place of the code has
established; that is what the named parts of the invariants say.

`TickLoopProofs`.
- `Shape`: types, and the cursor of a tick that holds a row lies inside the
  inbox. Types alone are not inductive: the tombstone of `Row(p).id` has a type
  only if the row exists.
- `Once`: under the lease only one process is past it (`SingleFlight`); a paid id
  has its `in_flight` tombstone; the snapshot of consumed ids of a tick past its
  read is not stale; the id under the cursor is unpaid until the dispatch. Gives
  `AtMostOnceDispatch`, and step by step the refinement `ImplementsQueryLife`.
- `LockUse`: the lock is held for the one tick past it and for nobody else. Gives
  `LockUsed` (`LockIsUsed`): a tick goes past the lease only when none is, and each
  way it ends frees it. `LeaseIsALock` below shows of `TickLease` that the lease
  offers just that, so the two models fit together.
- `BillInv`: what each label of a tick knows about the bill of the day (`Knows`).
  It uses `SingleFlight`: nobody else spends between the reading and the
  dispatch. Gives `DayBounded` and `DispatchWithinHeadroom`, together `CapIsKept`
  (`TheCapIsKept`).
- `ReservedInv`: with reservations and the deadline on, no two ticks hold one
  reservation (`HandlesApart`; otherwise the settlement of one could close the
  other's), and the reservation of a dispatching tick is at least what is left of
  its budget (`Covered`). Gives `DispatchIsReserved`.
- `ToldInv`: the row in a tick's hands is a valid one, and past the step that
  settles it is settled (`SettledFirst`). Gives `DispatchIsSettled`; both
  together are `PromisesAreTold` (`PromisesTold`).

`ProcessProofs`, about the lease and the process tree of a tick.
- `LeaseInv`: `Owning` (who works owns the lock) and `Named` (what the record says
  at each label) give `RecordNamesWorker`, `StaleMeansFault` and
  `FreeMeansNobodyWorks`, together `RecordTellsTruth` (`RecordIsTruthful`), with
  the action property `DeletesOnlyItsOwn`. The same invariant shows that the lease
  implements the lock that `TickLoop` assumes (`LockSpec`, `LeaseIsALock`): a status
  call's probe, a failed write and a record without an owner are stutters of it, a
  tick's lock and its unlock or death its two steps.
- `TreeInv`: who is present has a living father or belongs to the host's init
  (`Fathered`). That nothing outlives a dispatch needs more: that the workers'
  fatherhood has no circle, for any number of workers that fork (`Grounded`), who
  can be the father of L, S and N (`Ranks`), that the workers of a sealed dispatch
  live under a living namespace init (`Namespaced`), and that nobody escapes to
  init while the tick is a subreaper (`Adopts`). So a tree in which the tick has no
  child is empty (`Swept`). Gives `NothingOutlives` (`NoDispatchOutlives`).

`ReviewBudgetProofs`. `Exclusive` (who looked in order to write holds the lock),
`Private` (a transaction has one owner) and `Book` (the owner's place says which
rows its transaction has, and what they say about the bill) give `BillCovered`,
`LedgerLegal` and `AcceptedIsMeasured`, together `BooksAreRight`, and the action
properties `MarkStops` and `ClosedIsFinal` (a closed transaction is never booked or
billed again: who lost the acknowledgement of its row is refused its mark).
`CapInv` adds what a reviewer between look and append relies on: what fitted
still fits, because nobody else can append (`Promised`). The sum over the
transactions changes by what the one of them changes (`DataLemmas`), and that is
nothing, an envelope, or an envelope and its reconcile. Gives `BothCapsHold`
(`CapsAreHeld`), and that the ledger implements a budget of one sum under one cap
(`BudgetSpec`, `ImplementsBudget`): every promise is a whole envelope that fits at
the instant it is made, and a reconcile gives back at most what was promised.

`SandboxProofs`. `SnapshotInv`: who is at the snapshot holds its lock, a directory
that is filled or registered is its maker's alone, who works with a snapshot has
one, and a whole directory is removed at exit or about to be registered for it.
`BoxInv`: nothing is launched before its place. `GradeInv`: a line of the candidate
is never the report for its own call, and who is past the image check has the image
that the gates demand. Together they give `VerdictIsOfWhatRan` (`VerdictsAreTrue`).

`SelfImprovementProofs`, about `WholeSpec` of `SelfImprovement` and its parts. A step
of it is a step of one part that leaves the variables of the others, so each part
has an invariant of its own.
- `IInv`, the promotion. The targets a promotion has not missed a write to are its
  `Watched` files. `Steady` says what each label has established about them: after
  the scan they equal HEAD; while HEAD does not move, the captured preimages equal
  HEAD; once HEAD has moved (`cas.commit # commits`) nothing is claimed, because the
  re-check will refuse; in the write, what is still to be replaced equals the
  verified HEAD and what is backed up is the promotion's own text. With `Used` (an
  approval that admitted a request is in the ledger) it gives `ApprovalCountsOnce`
  and `ReplacesWhatWasTested`, together `PromotesWhatWasApproved`, and the action
  property `OverwritesNobodysWork`; `TheWholePromotes` carries both to `WholeSpec`.
- `SiInv`, the campaign of self-improvement cycles. `Judged`: before there is a
  verdict nothing is selected, while one is sought it is about the candidate
  under the cursor, and once it is there what goes on is a part of what it
  accepted. `Acted`: what was approved, written and run, place by place, with
  what allowed it. `Settled`: which confirmations are open and which rows each
  place has behind it. `Trailed`: ring, sidecar and log agree as long as no entry
  was lost. `VerdictIsRespected` and `RecordsAgree` are not inductive without
  them: that a run had a verified verdict says nothing of the place where the
  commands were put together. `TheGoalIsKept` is an action property by the types
  alone, since every step that assigns the goal tests the old one first.
- `CardInv`, the evidence card: the states on the way to acceptance have no
  dispute behind them; every way of promotion takes a listed transition
  (`CardSteps`). Gives `AcceptedWasVerified`.
- `CycleInv`, the orchestrator's cycle: nothing of the end is told before there
  is an end, and the acceptance only of a consensus with no failed agent. Gives
  `OutcomeIsToldRight`.
- `VoteInv`: two blocks with the same evidence on every axis are told apart by
  the guard alone, and the status of a cycle at its hooks is that of a vote on
  all axes. Gives `VoteIsRight`. `WordsAssumption` was found here: a keyword that
  is the name of a band would make two different tokens one.

`OnDiskProofs`, one invariant per part of `OnDisk`.
- `OrphanInv`: what was written is in the intents or its ledger failed, and neither is
  ever taken back. Gives `OrphansTellAll`.
- `SessionInv`: the first backup of a file is its original (`BackedUp`); the tree is
  what the session's writes make of it (`TreeIsMade`); and, in a roll-back, what is
  still to be restored or removed is in the session's memory (`RollsBack`). Gives
  `SessionTellsAll`.
- `BlockInv`: until somebody else touches the file or a process dies, the newest
  backup is what the process that took it remembers to have taken last, and no
  other has taken one since. Gives `RevertTakesBackItsOwn`.
- `ChainInv`: a whole row of a ledger on which nothing was built after an edit has
  the hash of the first n bodies and names that of the first n - 1, whatever became
  of its place; while nobody touched the chain every row is linked, and without a
  restart of the numbering the numbers run. Gives `ChainVerdictIsRight`.
- `ArchiveInv`: the rows of a cycle are of older calls or of an earlier change of
  this one (`RunTallied`, `AllTallied`), so a body that is about to be written is
  never one that a row leads to (`RowsLead`, `FilesOK`). While every line parses, the
  rows of the call, the pending one included, are the last ones and add up to its
  counters; once a line does not parse nothing is claimed of the sums. Gives
  `ArchiveAccountsForAll`.
- `SnapInv` (`Copied`, `Identified`), `SlotInv` (`SlotLocked`, `SlotOpened`,
  `SlotExact`), `DeliveryInv` (`FreezesOnce`, `WritesAlone`, ...) and `TierInv`
  (while no two claims are under way together, the one that is has checked what it
  is about to replace, and that still stands) give `SnapshotIsWhole`, `SlotTellsAll`,
  `DeliveredIsFrozen` and the action property `AcquiredTierStays`.

`LedgersProofs`, one invariant per ledger of `Ledgers`.
- `TallyInv` (`UsageTally`): what a call owes at each place of a trip, and what its
  bill settles of it. Gives `BillIsWhatWasPaid`.
- `BudgetInv` (`CostBudget`): which rows each dispatch has at its place (`Course`);
  the cumulative amount is the sum of what they hold. Gives `TotalIsWhatIsHeld`.
- `FailInv` (`FailFast`): the stack of calls of a thread says who waits for whom,
  the recursion guard is up exactly when one frame holds it, and at most one frame
  is above it (`StackOK`). Gives `FailuresAreToldSafely`.
- `HistoryInv` (`PromptHistory`): an event that the cursor has passed is in the
  sidecar, dropped or overtaken; a round under way answers for what its next cursor
  will pass. `BusInv` (`FalsifierBus`): as long as every line parses, a row was given
  or is ahead of the reader (`ReaderOK`). Give `CursorsMissNothing`.
- `RatchetInv` (`JoinRatchet`): what was promised is in the payload of the baseline,
  whether its seal holds or not. Gives `NothingLaundered`.
- `StallInv` (`ProgressStall`): a scan tells how many files it saw, so one that misses
  a file an earlier scan covered has seen fewer. Gives `ProgressIsReal`.
- `SpendInv` (`SpendRecords`): `Billing` and `Booked` (which calls a burst has paid
  and which of them are in rows), `Notes` (what the reconciliation may say), `Paced`
  (quota and cooldown). Gives `BillsAreSeen`.
- `EpisodeInv` (`EpisodeLog`): as long as no append failed the file holds what was
  emitted, in the order of the cycles (`Whole`), and the note is about the last
  cycle that worked (`RightNote`); a HALT that was raised is in the audit, in a
  ledger that no longer parses, or in a kept row. Gives `EpisodeIsTold`.
- `RepeatInv` (`RepeatedFailure`): the history is the kept settlements in their order
  (`Recorded`), and a card that was never handed out again is not settled twice and
  open (`Closed`). Gives `SkipsOnlyARepeat`.

`DataLemmas` has what these need of data: the least number of a set and the minimal
member of a family of finite sets (each induction is made on a least counterexample,
because the library's induction theorems take an operator), sums over a finite set,
what appends and updates do to a sequence, and what an append leaves of a
`JsonLedger` (`ParsedAppend`). Three definitions of the models were put in another
form for the prover's sake, with the same meaning: index sets instead of
`SelectSeq`, and an explicit function instead of `:>` and `@@`, none of which
`tlapm` can expand.

Only model-checked. All liveness (`Served`, `LockReturns`, `EveryEndComes`,
`EveryCallReturns`) and `ENABLED`, out of the prover's reach; and `WhatRunsCounts`,
which compares two recursive definitions over syntax trees: that is an induction
over data, and a module that reaches a `RECURSIVE` definition has no SMT backend.
`LiveCode` is therefore composed with the ledgers in `MCLedgers` only.

## 7. What the models showed

Disagreements between the code and its own text, each with a run:

- `tick_orphan_card`. The comment at `runtime/tick_runner.py:1514` says that a
  taken card without a settlement is an orphan for ever. The `HumanHalt` return and
  the `spend_reservation_unavailable` return leave without one.
- `apply_residue`. A session that deletes a file, makes it anew and fails later
  restores the file and then removes it as one it created; the residue is empty
  (`rollback_complete` is false, so a caller that looks at it is told something
  is wrong, but not what).
- `ratchet_fold`. `rescope_refusals` says that a demotion by folding a family
  under a new name is stopped all the same, because the old keys stay in the
  baseline. Since the fold migration (`tools/ledger_join_check.py:1813-1822`) they
  do not.

Other observations, true in the models and worth knowing.

Ticks and money:

- With the lease off (its default) overlapping ticks are admitted on the same
  headroom: the day can pass its cap by one fresh day's budget for every tick but
  one. `daily_cost_cap.check` reads two ledgers without a lock; a reservation
  settled between the two reads is in neither sum, although the comment at
  `daily_cost_cap.py:579-587` expects only errors towards too much.
- "A settlement always comes before the TTL" needs the deadline gate, which is off
  by default; `PromisesAreTold` is stated with both.
- A query whose reservation cannot be written after its `in_flight` tombstone is
  never dispatched; `Served` counts the tombstone as the answer.
- Under the strict cap a reviewer whose cost is not observed makes the cap block
  after the review: the same query is reviewed again the next day, and again.
  With a cap of at most twice a review and every tick across midnight the queue
  behind it does not move either. `tick_live` therefore has no reviewer.
- A rejected row does not end its id: a valid row with the same id behind it is
  dispatched.
- `status` can make a tick that starts at that instant see `lease_busy`, and the
  owner in that message may be stale. When the bounded kill phase fails, the tick
  reports `DeadlineUnavailable` and releases the lease with survivors. The
  namespace init arms its parent-death signal (`runtime/tick_descendant_seal.py:250`)
  without a way to see whether its parent is already dead; if it is, the sealed
  tree runs on.
- The review ledger has no TTL: a crash leaves a full envelope charged for ever.
  An unreadable ledger reads as exactly the cap, so the look after the reconcile
  accepts. A half-written line blocks all reviews until it is repaired.
- `repeated_failure_gate`: the history has no TTL, so with the threshold 1 a card
  that failed once is skipped for ever when it is handed out again, and with 2 or
  more the skip's own signature resets the streak.
- Evidence bursts: a dispatch error after a paid call consumes neither cooldown
  nor quota (`bridge/si_evidence.py`); the quota is looked at only inside the
  cooldown. `cost_reconcile` compares sums, so errors may cancel. A cycle of HUMAN
  rows only hides the real previous one from the note. A torn tail merges with
  the next row, whose append reports success, and readers that insist on every
  line then fail for ever; a HALT row is lost that way with `audit_failures` empty
  (against `runtime/episode_log.py:282`).
- The compactor's cursor passes events that the budget dropped; an event stamped
  before the last one handled, but appended after, is skipped for ever. A bus id
  emitted again can hide rows from a reader with a limit.
- Providers: usage that is cleared and then retried is lost, although
  `providers/base.py:999-1000` claims the opposite; a reader that is no call's box
  gets another thread's usage; a failed call with the same usage as the one before
  is recorded as unknown; a measured free call that is cleared is flagged too
  often. The limiter keeps the estimate of a settlement it refused and never gives
  a failed call's reservation back; an output of zero tokens reads as absent.

Cycles and verdicts:

- The causality axis and the gap guard can together outvote an axis of evidence,
  and a causality that is always neutral adds one agreement (`core/axis_scorer.py`).
  The hook for accepted cycles may fire for a cycle that its critic then blocks;
  no code does what the comment at `orchestrator_v8.py:600` says. A self-improvement
  status never contains "rollback", so the repair hook never fires. A failed agent
  over a consensus fires neither hook. `run_cycle` lets exceptions through from
  activation, evidence, the self-improvement cycle and its layer.
- `promote_with_audit` blocks every transition, also those to a rejection. The
  retry chain with no retries allowed ends at 64 only.
- The ring is per process unless the rehydrate gate is on; while three escalations
  stand at its end every cycle resets. An exception in the ladder leaves a
  confirmation unsettled, a crash after the write leaves no chain row (`torn`).
  Commands of pods may take the whole cap of eight. The artifact step runs on
  `work_applied or applied` (2970), its comment (2895-2900) says less. A gate error
  keeps the commands (4724 against the comment at 4504).
- `promote_patches`: between the scan and the capture, and between the re-check
  and the write, an edit of a target is not seen (`raced` in the model). Carried
  files, and any other file, may have changed since the verification
  (`si_lanes/promote.py:722` against the message at 629-631). Two promotions of
  different files are never verified together.
- Sandbox: the time-out includes docker's start, so a candidate's time-out may be
  the machine's. A container stays when its id is missing, the daemon is gone or
  the client fails. The snapshot is built once per process, at the HEAD of then; a
  refused registration whose removal fails leaves its directory cached.

Files:

- `apply_session`: a file with CRLF line ends comes back from a roll-back with LF
  (`safe_auto_apply.py:1160` against the comment at 1551-1552). Pruning (1909) can
  remove a backup of the running session when line edits that did not find their
  line made backups without counting for the rate limit, against the comment at
  1090-1093; `OriginalKept` states the condition under which originals are safe.
  Such an edit is also recorded as committed (1376). A crash between two changes
  or inside a roll-back leaves no orphan: the ledger knows single writes only.
- `apply_block` never applies to an empty file (1996 against 2034). A revert after
  a creation goes to an older backup, a second revert repeats the first; a revert
  writes no ledger rows and overwrites what was edited meanwhile.
- The chain: switching the numbering gate on, off and on again breaks a chain
  nobody touched (`apply_chain_full.py:291` against 407-412); a tail that was cut
  off is not detected; a row without its line end merges with the next.
- The archive: a body whose directory cannot be synced stays beside a row that
  says write error; a crash leaves a body without a row; an archive error loses
  its counters. Nothing is ever removed.
- Slots: the first write of the meter is not under the lock and may reset it
  (against the docstring, `multi_orchestrator.py:7-8`); an unreadable meter starts
  again from zero. Snapshots: the source's identity is read after the copy, so a
  commit in between is in the report and not in the copy. Tier: check and write
  have no lock; evidence that is removed makes every further grant refuse.
- Delivery: the manifest may freeze a mixture that no single moment had; nothing is
  synced; a failed copy leaves a partial directory that blocks its path.
- Stall: the baseline is in the last scans, so a rotation forgets it and a shrink
  ages out. Ratchet: a family whose rows stopped to carry the key is frozen anew in
  silence; deleting the baseline launders everything. Fail-fast: overlapping strict
  scopes of two threads restore the wrong value, and the text of a census entry is
  stored under a second lock. The probe for live code recognises literal
  conditions only, so it also counts code that never runs.

## 8. Not modelled

Signatures and HMACs (cryptography; a row is signed or not), the content of
prompts and answers, regular expressions of the command and privacy policies,
floating-point scores, schemas and data classes, read-only reports and developer
tools, provider plug-ins (network), docker's command lines and image tags that are
moved, `tick_runner`'s own health reports, settings that are checked once at the
start, the branches of a cycle that only advise (after the ring,
`self_improvement_v8.py:5376-5668`; the head's numbering, 5272-5286), the ratchet's
`--since` and the wording of its reasons, `cost_limiter.enforce_budget` (a pure
test), and everything in `PROJECT.json` with status `not_modelled` and a reason.
The payload modules that the code resolves at run time (`resolve_payload`:
`measure_window`, `pm.exit_satisfied` and others) are not in the repository; they
are modelled from how they are used and marked external. `promote` and
`gated_promote` of `core/evidence_gate.py` have no caller in the repository: the
card is the one that any sequence of calls could make.

## 9. Plan

1. Done: the tick loop with its money, lease, process tree and abstract promise;
   the review ledger; sessions and promotion; sandbox; what lies on the disk; the
   ledgers and their instruments; the orchestrator's and the self-improvement
   cycle with the vote and the card; seven proof modules, which state every safety
   property of the runs but one.
2. Done: abstract specifications beyond `QueryLife`, a lock that `TickLease`
   implements and `TickLoop` assumes (`LockSpec`) and a budget with one cap that
   `ReviewBudget` implements (`BudgetSpec`). `CostBudget` does not implement it: a
   settlement there may also raise the total, within the cap; what it promises is
   `TotalIsWhatIsHeld`.
3. Proofs about the compositions' action properties that the runs do not state yet,
   such as that a row of a ledger, once written, stays.
4. Extensions: the retry of the review inside a cycle, the campaign branch of a
   cycle, the audit ledger of `free_tier_cli`, single-use tokens of
   `destructive_command_policy.py`.
