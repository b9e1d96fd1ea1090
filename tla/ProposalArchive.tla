--------------------------- MODULE ProposalArchive ---------------------------
(***************************************************************************)
(* The archive of what a cycle proposed (si_lanes/proposal_archive.py):    *)
(* for each change of the batch first its body, in a file of its own, and  *)
(* then its row in the index. Writes fail and the process dies; a reader   *)
(* must find a body or a reason for each change.                           *)
(***************************************************************************)
EXTENDS Integers, JsonLedger, FiniteSets

CONSTANTS Change,          \* changes, told apart by path, action and content
          PathOf,          \* PathOf[change]
          Length,          \* Length[change], in characters after masking
          NotText,         \* changes that are no mapping or have no content
          SensitivePath,   \* paths that is_sensitive_path holds of
          Accepted,        \* what a verdict may accept
          Batch,           \* the batches of changes that cycles hand over
          MaxArchives, MaxArchiveFaults,
          MAX_BODIES_PER_CYCLE, MaxBodyChars

ASSUME ArchiveAssumption ==
    /\ {MaxArchives, MaxArchiveFaults, MAX_BODIES_PER_CYCLE, MaxBodyChars} \subseteq Nat
    /\ Length \in [Change -> Nat]
    /\ NotText \subseteq Change /\ Batch \subseteq Seq(Change) \ {<<>>}

NoBody == <<>>
Nobody == [cycle |-> 0, seq |-> 0]

VARIABLES index,       \* index.jsonl
          bodies,      \* what is in the files under bodies/, by name
          run,         \* the call in progress
          told,        \* the summaries that calls returned, by cycle
          archFaults

archiveVars == <<index, bodies, run, told, archFaults>>

NoRun == [pc |-> "idle", cycle |-> 0, batch |-> <<>>, verdict |-> "none", accepted |-> {},
          attributed |-> FALSE, row |-> Nobody, written |-> 0, stored |-> 0, cut |-> 0,
          sensitive |-> 0, over |-> 0]

ArchiveInit ==
    /\ index = NewLedger
    /\ bodies = <<>>
    /\ run = NoRun
    /\ told = <<>>
    /\ archFaults = 0

(***************************************************************************)
(* One change                                                              *)
(***************************************************************************)
\* is_sensitive_path
Sensitive(change) == PathOf[change] \in SensitivePath

\* bodies/<cycle>/<seq>__<path>.txt
BodyFile(cycle, seq, change) == <<cycle, seq, PathOf[change]>>

\* _write_body keeps the first characters and says in the file if it cut.
Body(change) ==
    [of |-> change,
     chars |-> IF Length[change] > MaxBodyChars THEN MaxBodyChars ELSE Length[change],
     marked |-> Length[change] > MaxBodyChars]

\* The directory after a file was written, or written over.
Put(name, text) ==
    [file \in DOMAIN bodies \cup {name} |-> IF file = name THEN text ELSE bodies[file]]

\* _load_body cuts the marker off by the length the row gives.
Loaded(row) == [of |-> bodies[row.body].of, chars |-> row.chars]

\* _attribute: accepted or blocked by a verdict that lists what it accepts.
Disposition(change) ==
    CASE run.verdict # "listed" -> "unknown"
      [] change \in run.accepted -> "accepted"
      [] OTHER -> "blocked"

\* And mapped or dropped, when the caller says so; an accepted change that is
\* neither is unmapped. (The callers pass what was accepted as mapped.)
Attribution(change) ==
    CASE run.attributed /\ change \in run.accepted -> "mapped"
      [] run.attributed -> "dropped"
      [] Disposition(change) = "accepted" -> "unmapped"
      [] OTHER -> "unknown"

\* Why a change gets no body file, or "" if it is to get one.
\* Mutant: the limit lets one body more through.
_OmittedLate(change) ==
    CASE change \in NotText -> "not_text"
      [] Sensitive(change) -> "sensitive_path"
      [] run.stored > MAX_BODIES_PER_CYCLE -> "over_count_cap"
      [] OTHER -> ""

Omitted(change) ==
    CASE change \in NotText -> "not_text"
      [] Sensitive(change) -> "sensitive_path"
      [] run.stored >= MAX_BODIES_PER_CYCLE -> "over_count_cap"
      [] OTHER -> ""

IndexEntry(seq, change, body, reason) ==
    [cycle |-> run.cycle, seq |-> seq, change |-> change, body |-> body, omitted |-> reason,
     chars |-> IF body = NoBody THEN 0 ELSE Body(change).chars,
     truncated |-> body # NoBody /\ Body(change).marked,
     disposition |-> Disposition(change), attribution |-> Attribution(change)]

(***************************************************************************)
(* archive_cycle                                                           *)
(***************************************************************************)
Unmeasured == [archived |-> FALSE, written |-> -1, stored |-> -1, cut |-> -1, sensitive |-> -1,
               over |-> -1, batch |-> <<>>]
Nothing == [archived |-> FALSE, written |-> 0, stored |-> 0, cut |-> 0, sensitive |-> 0,
            over |-> 0, batch |-> <<>>]

Tell(summary) == told' = Append(told, summary) /\ run' = NoRun

\* A cycle hands over its batch, with the list of what was accepted if there
\* is one: off,
\* nothing to do, or the first change is next.
Archive ==
    /\ run.pc = "idle" /\ Len(told) < MaxArchives
    /\ \/ Tell(Unmeasured) \/ Tell(Nothing)
       \/ \E batch \in Batch, verdict \in {"none", "listed"}, accepted \in Accepted,
             attributed \in BOOLEAN :
            /\ verdict # "listed" => accepted = {}
            /\ run' = [NoRun EXCEPT !.pc = "body", !.cycle = Len(told) + 1, !.batch = batch,
                           !.verdict = verdict, !.accepted = accepted, !.attributed = attributed]
            /\ UNCHANGED told
    /\ UNCHANGED <<index, bodies, archFaults>>

\* The body of the next change is written, or there is a reason not to. A
\* write that raises may have replaced the file: its directory is synced last.
StoreBody ==
    /\ run.pc = "body"
    /\ LET seq == run.written + 1
           change == run.batch[seq]
           reason == Omitted(change)
           file == BodyFile(run.cycle, seq, change)
           next == [run EXCEPT !.pc = "row"]
       IN \/ /\ reason # ""
             /\ run' = [next EXCEPT !.row = IndexEntry(seq, change, NoBody, reason),
                            !.sensitive = IF reason = "sensitive_path" THEN @ + 1 ELSE @,
                            !.over = IF reason = "over_count_cap" THEN @ + 1 ELSE @]
             /\ UNCHANGED <<bodies, archFaults>>
          \/ /\ reason = ""
             /\ run' = [next EXCEPT !.row = IndexEntry(seq, change, file, ""), !.stored = @ + 1,
                            !.cut = IF Body(change).marked THEN @ + 1 ELSE @]
             /\ bodies' = Put(file, Body(change))
             /\ UNCHANGED archFaults
          \/ /\ reason = "" /\ archFaults < MaxArchiveFaults
             /\ archFaults' = archFaults + 1
             /\ run' = [next EXCEPT !.row = IndexEntry(seq, change, NoBody, "write_error")]
             /\ bodies' \in {bodies, Put(file, Body(change))}
    /\ UNCHANGED <<index, told>>

\* Its row is appended; when that raises the archive of the cycle ends here
\* and has counted nothing.
IndexRow ==
    /\ run.pc = "row"
    /\ \/ /\ index' = Written(index, run.row)
          /\ IF run.written + 1 < Len(run.batch)
             THEN run' = [run EXCEPT !.pc = "body", !.written = @ + 1] /\ UNCHANGED told
             ELSE Tell([archived |-> TRUE, written |-> run.written + 1, stored |-> run.stored,
                        cut |-> run.cut, sensitive |-> run.sensitive, over |-> run.over,
                        batch |-> run.batch])
          /\ UNCHANGED archFaults
       \/ /\ archFaults < MaxArchiveFaults
          /\ archFaults' = archFaults + 1
          /\ index' \in Failed(index, run.row)
          /\ Tell(Unmeasured)
    /\ UNCHANGED bodies

\* The process dies between two steps, or in the middle of a line.
DieArchiving ==
    /\ run.pc # "idle" /\ archFaults < MaxArchiveFaults
    /\ archFaults' = archFaults + 1
    /\ index' \in IF run.pc = "row" THEN {index, Cut(index), Unended(index, run.row)} ELSE {index}
    /\ Tell(Unmeasured)
    /\ UNCHANGED bodies

ArchiveNext == Archive \/ StoreBody \/ IndexRow \/ DieArchiving

(***************************************************************************)
(* Properties                                                              *)
(***************************************************************************)
\* Where the rows of a cycle are, and how many of them show something.
RowsOf(cycle) == {i \in DOMAIN index.rows : index.rows[i].cycle = cycle}

Shows(row, what) ==
    CASE what = "stored" -> row.body # NoBody
      [] what = "cut" -> row.truncated
      [] OTHER -> row.omitted = what

Showing(cycle, what) == Cardinality({i \in RowsOf(cycle) : Shows(index.rows[i], what)})

\* Each row leads to the body of its own change, as far as it was kept, or
\* says why there is none; no body of a sensitive path, and never more than
\* the limit for a cycle, is on disk unless its write had failed; and a call
\* that says that it archived has a row for each change, in order, that add up
\* to what it counted, as long as no line was damaged. (archive_cycle,
\* _write_body, read_archive.)
ArchiveAccountsForAll ==
    /\ \A i \in DOMAIN index.rows :
         LET row == index.rows[i] IN
         IF row.body = NoBody THEN row.omitted # ""
         ELSE /\ row.body \in DOMAIN bodies
              /\ Loaded(row) = [of |-> row.change, chars |-> Body(row.change).chars]
              /\ bodies[row.body].marked = row.truncated
    /\ \A file \in DOMAIN bodies : file[3] \notin SensitivePath
    /\ \A cycle \in DOMAIN told :
         LET rows == RowsOf(cycle)
             summary == told[cycle]
         IN summary.archived /\ Parses(index) =>
              /\ Cardinality(rows) = Len(summary.batch)
              /\ \A i \in rows : LET place == Cardinality({j \in rows : j <= i}) IN
                    index.rows[i].seq = place /\ index.rows[i].change = summary.batch[place]
              /\ Showing(cycle, "stored") = summary.stored /\ Showing(cycle, "cut") = summary.cut
              /\ Showing(cycle, "sensitive_path") = summary.sensitive
              /\ Showing(cycle, "over_count_cap") = summary.over
              /\ summary.stored <= MAX_BODIES_PER_CYCLE
==============================================================================
