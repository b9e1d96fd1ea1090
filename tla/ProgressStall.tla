----------------------------- MODULE ProgressStall -----------------------------
(***************************************************************************)
(* Does the loop finish the work that it buys (runtime/progress_stall.py)? *)
(* A bought candidate that an observer no longer reports counts as         *)
(* resolved, so an observer that sees less looks like progress. The        *)
(* observer reports what it could read, and how much of it.                *)
(***************************************************************************)
EXTENDS Naturals, Sequences, SequencesExt, FiniteSetsExt

CONSTANTS Candidate,
          FileOf,        \* the source file that a candidate is found in
          Unfired,       \* candidates that the executor log gives, not a file
          WINDOW,        \* the last bought candidates that are judged
          MIN_EVIDENCE,
          MaxBuys, MaxStallMishaps

StallFile == {FileOf[c] : c \in Candidate}

ASSUME StallAssumption ==
    /\ IsFiniteSet(Candidate)
    /\ Unfired \subseteq Candidate /\ DOMAIN FileOf = Candidate
    /\ {WINDOW, MIN_EVIDENCE, MaxBuys, MaxStallMishaps} \subseteq Nat /\ WINDOW > 0

\* OBSERVER_INPUTS, one axis of each role, and the ledger that is measured too.
SOURCE_AXES == {"bought_ledger", "executor_log", "scan_scale", "cycle_log"}
axis_role == [a \in SOURCE_AXES |-> CASE a = "scan_scale" -> "resolution"
                                      [] a = "cycle_log" -> "instrument"
                                      [] OTHER -> "verdict"]
BLOCKING_VERDICTS == {"stalled", "unknown"}

VARIABLES open,     \* candidates that are really unresolved
          bought,   \* the ledger of what the loop has bought, as far as it is read
          tree,     \* files that exist
          unseen,    \* files that a scan skips without an error
          logRead,  \* is the executor log there?
          scans,    \* the last scans: [bought_n, py_files] and the files seen
          verdict,  \* the last one, and whether it is about the present
          stallMishaps

stallVars == <<open, bought, tree, unseen, logRead, scans, verdict, stallMishaps>>

NoVerdict == [verdict |-> "none", reason |-> "none", covered |-> FALSE, resolved |-> FALSE]

StallInit ==
    /\ open = Candidate
    /\ bought = <<>>
    /\ tree \in SUBSET StallFile
    /\ unseen = {}
    /\ logRead = TRUE
    /\ scans = <<>>
    /\ verdict = NoVerdict
    /\ stallMishaps = 0

(***************************************************************************)
(* What the observer sees                                                  *)
(***************************************************************************)
\* dedup_keep_last: a candidate that was bought again counts where it was last.
dedup_keep_last(ids) ==
    LET Later(i) == {ids[j] : j \in i + 1..Len(ids)}
        last == {i \in DOMAIN ids : ids[i] \notin Later(i)}
    IN [n \in 1..Cardinality(last) |-> ids[CHOOSE i \in last : Cardinality({j \in last : j <= i}) = n]]

SeenOpen == {c \in open : IF c \in Unfired THEN logRead ELSE FileOf[c] \in tree \ unseen}
\* A candidate goes with its file.
Unresolved(c) == c \in open /\ (c \in Unfired \/ FileOf[c] \in tree)

Scale == [bought_n |-> Len(bought), py_files |-> Cardinality(tree \ unseen), seen |-> tree \ unseen]

_LastScan(key) == Last(scans)[key]
\* merge_scale over the scans that are kept: the most that one of them saw.
merge_scale(key) == Max({s[key] : s \in Range(scans)})

\* scale_axes: less than that is not the same scan; a first one is not compared.
Shrunk(key) == scans # <<>> /\ Scale[key] < merge_scale(key)

\* The report that a caller makes of the axes.
Report == [a \in SOURCE_AXES |->
    CASE a = "bought_ledger" -> ~Shrunk("bought_n")
      [] a = "scan_scale" -> ~Shrunk("py_files")
      [] a = "executor_log" -> logRead
      [] OTHER -> TRUE]

role_gaps(sources, role) == {a \in DOMAIN sources : ~sources[a] /\ axis_role[a] = role}

\* measure_window of the payload: the window of what was bought, last first.
WindowIds == LET ids == dedup_keep_last(bought) IN
             {ids[i] : i \in Max({1, Len(ids) - WINDOW + 1})..Len(ids)}
ResolvedSeen == WindowIds \ SeenOpen

(***************************************************************************)
(* stall_verdict                                                           *)
(***************************************************************************)
\* The order of the rules is part of the contract: what is not known comes
\* before what there is too little of, and a scan that shrank counts only
\* against progress.
stall_verdict(failure, sources) ==
    CASE failure # "none" -> [verdict |-> "unknown", reason |-> failure]
      [] SOURCE_AXES \ DOMAIN sources # {} ->
            [verdict |-> "unknown", reason |-> "observer_sources_incomplete"]
      [] role_gaps(sources, "verdict") # {} ->
            [verdict |-> "unknown", reason |-> "observer_sources_degraded"]
      [] Len(dedup_keep_last(bought)) < MIN_EVIDENCE ->
            [verdict |-> "insufficient_evidence", reason |-> "bought_lt_min_evidence"]
      [] ResolvedSeen = {} -> [verdict |-> "stalled", reason |-> "window_resolved_zero"]
      [] role_gaps(sources, "resolution") # {} ->
            [verdict |-> "unknown", reason |-> "resolution_scan_shrank"]
      [] OTHER -> [verdict |-> "progressing", reason |-> "window_resolved_some"]

\* The observer may fail aloud, leave an axis out or, with no payload, not be
\* able to count.
Failures == {"bought_ledger_unreadable", "candidate_build_failed", "candidate_schema_invalid",
             "candidate_tool_error", "observer_sources_unreported", "payload_unavailable"}

\* The baseline is kept in the rows of the last WINDOW scans.
LastScans(s) == SubSeq(s, IF Len(s) > WINDOW THEN Len(s) - WINDOW + 1 ELSE 1, Len(s))

Judge ==
    /\ \E failure \in Failures \cup {"none"}, told \in {SOURCE_AXES, SOURCE_AXES \ {"scan_scale"}} :
        LET judged == stall_verdict(failure, [a \in told |-> Report[a]]) IN
        /\ failure # "none" => told = SOURCE_AXES
        /\ verdict' = [verdict |-> judged.verdict, reason |-> judged.reason,
                       covered |-> \E s \in Range(scans) : tree \subseteq s.seen,
                       resolved |-> \E c \in WindowIds : ~Unresolved(c)]
    /\ scans' = LastScans(Append(scans, Scale))
    /\ UNCHANGED <<open, bought, tree, unseen, logRead, stallMishaps>>

\* The loop buys a candidate that it sees, after a verdict that does not block.
Feed ==
    /\ verdict.verdict \notin BLOCKING_VERDICTS \cup {"none"}
    /\ Len(bought) < MaxBuys
    /\ \E c \in SeenOpen : bought' = Append(bought, c)
    /\ verdict' = NoVerdict
    /\ UNCHANGED <<open, tree, unseen, logRead, scans, stallMishaps>>

(***************************************************************************)
(* What happens to the work and to the observer                            *)
(***************************************************************************)
Resolve ==
    /\ \E c \in open : open' = open \ {c}
    /\ verdict' = NoVerdict
    /\ UNCHANGED <<bought, tree, unseen, logRead, scans, stallMishaps>>

ChangeTree ==
    /\ stallMishaps < MaxStallMishaps
    /\ \E f \in StallFile : tree' = IF f \in tree THEN tree \ {f} ELSE tree \cup {f}
    /\ stallMishaps' = stallMishaps + 1
    /\ verdict' = NoVerdict
    /\ UNCHANGED <<open, bought, unseen, logRead, scans>>

\* A directory turns unreadable, the executor log or the oldest row of the
\* ledger is gone, the log that holds the baseline is rotated; or all is well again.
Blinded ==
    /\ stallMishaps < MaxStallMishaps
    /\ \/ (\E f \in tree : unseen' = unseen \cup {f}) /\ UNCHANGED <<bought, logRead, scans>>
       \/ logRead' = FALSE /\ UNCHANGED <<bought, unseen, scans>>
       \/ bought # <<>> /\ bought' = Tail(bought) /\ UNCHANGED <<unseen, logRead, scans>>
       \/ scans' = <<>> /\ UNCHANGED <<bought, unseen, logRead>>
       \/ unseen' = {} /\ logRead' = TRUE /\ UNCHANGED <<bought, scans>>
    /\ stallMishaps' = stallMishaps + 1
    /\ verdict' = NoVerdict
    /\ UNCHANGED <<open, tree>>

StallNext == Judge \/ Feed \/ Resolve \/ ChangeTree \/ Blinded

(***************************************************************************)
(* Properties                                                              *)
(***************************************************************************)
\* "progressing" is never the silence of an observer: something that was
\* bought lately is really resolved, although files become unreadable without
\* an error, logs and rows go missing and the tree grows and shrinks, as long
\* as one of the scans that are kept has seen every file there is now
\* (stall_verdict, scale_axes, merge_scale).
ProgressIsReal == verdict.verdict = "progressing" /\ verdict.covered => verdict.resolved
===============================================================================
