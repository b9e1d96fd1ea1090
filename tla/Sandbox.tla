------------------------------- MODULE Sandbox -------------------------------
(***************************************************************************)
(* core/sandbox_runner.py: calls of run() in one process, each of which    *)
(* grades a candidate in a container or a bwrap jail and returns telemetry *)
(* or a stub that names why it could not. The calls share the docker       *)
(* daemon and one read-only snapshot of the repository, built under a lock *)
(* at first use and removed when the process exits.                        *)
(***************************************************************************)
EXTENDS Integers, FiniteSets

CONSTANTS Call,         \* calls of run(), each with its own nonce and sources
          MaxDirs,      \* snapshot directories ever made
          MaxFaults,    \* failures of the host, exceptions, crashes
          Gates         \* the settings the run starts with, each a set of gates

ASSUME BoundsAssumption == MaxDirs \in Nat /\ MaxFaults \in Nat

(***************************************************************************)
(* The gates: fall back to bwrap, bring a repository snapshot, pin the     *)
(* image, certify its harness, demand a signed receipt, trust only the     *)
(* docker endpoint captured before the seal, run inside the seal.          *)
(***************************************************************************)
Gate == {"bwrap", "worktree", "pin", "entry", "receipt", "preseal", "sealed"}

ASSUME GateAssumption == Gates \subseteq SUBSET Gate

Dir == 1..MaxDirs
NoDir == 0
Free == "free"
ASSUME FreeAssumption == Free \notin Call

\* stub_reason -> status, and the two statuses of a graded candidate.
Infra == {"payload_unavailable", "docker_missing", "docker_unavailable", "image_missing",
          "docker_endpoint_untrusted", "no_isolation_available", "image_untrusted"}
Evaluator == {"invalid_config", "input_rejected", "container_failed", "invalid_envelope",
              "exception", "worktree_unavailable", "receipt_untrusted"}
Status(reason) ==
    CASE reason = "no_unit" -> "NONE"
      [] reason = "disabled" -> "NOT_CONFIGURED"
      [] reason \in Infra -> "INFRA_UNAVAILABLE"
      [] reason \in Evaluator -> "EVALUATOR_ERROR"
      [] reason = "timeout" -> "CANDIDATE_TIMEOUT"
      [] OTHER -> "GRADED"      \* PASS or CANDIDATE_FAIL

VARIABLES
    gate,       \* the gates that are on
    phase,      \* the process: "running", "exited", "killed"
    docker,     \* the daemon: "absent", "down", "up"
    image,      \* the image of the configured tag: "none", "trusted", "other"
    call,       \* where each call is, its backend, its snapshot, what it returned
    box,        \* its container or jail
    line,       \* the last line that came out of it
    dir,        \* the snapshot directories on disk
    cache,      \* _snapshot_dir
    owned,      \* directories whose removal is registered (atexit or seal)
    lock,       \* _snapshot_lock
    unreached,  \* calls whose container could not be named or removed
    faults

vars == <<gate, phase, docker, image, call, box, line, dir, cache, owned, lock, unreached, faults>>
host == <<docker, image>>
snapshot == <<dir, cache, owned, lock>>

On(g) == g \in gate

NoLine == [by |-> "none", nonce |-> Free, intact |-> FALSE]
\* The last line: the harness's report, signed for the call that the nonce
\* names, as it was or with numbers changed; a line of the candidate's own.
Line == [by : {"none", "candidate", "harness"}, nonce : Call \cup {Free}, intact : BOOLEAN]

Init ==
    /\ gate \in Gates
    /\ phase = "running"
    /\ docker \in {"absent", "down", "up"}
    /\ image \in {"none", "trusted", "other"}
    /\ call = [k \in Call |-> [at |-> "select", backend |-> "none", tree |-> NoDir, reason |-> ""]]
    /\ box = [k \in Call |-> "none"]
    /\ line = [k \in Call |-> NoLine]
    /\ dir = [d \in Dir |-> "none"] /\ cache = NoDir /\ owned = {} /\ lock = Free
    /\ unreached = {}
    /\ faults = 0

Fault == faults < MaxFaults /\ faults' = faults + 1

At(k, place) == phase = "running" /\ call[k].at = place
Go(k, place) == call' = [call EXCEPT ![k].at = place]
Return(k, reason) == call' = [call EXCEPT ![k].at = "returned", ![k].reason = reason]

(***************************************************************************)
(* Before the launch                                                       *)
(***************************************************************************)
\* The verify stage looks for a whole Python file among the changes and its test.
Select(k) ==
    /\ At(k, "select")
    /\ Go(k, "start") \/ Return(k, "no_unit")
    /\ UNCHANGED <<gate, phase, host, box, line, snapshot, unreached, faults>>

\* A setting or the sources are out of bounds, the payload is not installed.
BadInput == {"invalid_config", "input_rejected", "payload_unavailable"}

\* Behind the seal the captured endpoint must still vouch for the daemon.
Refused(k) == On("preseal") /\ Return(k, "docker_endpoint_untrusted")

\* A receipt needs its key and the allow-list, both outside the checkout.
KeyMissing(k) == On("receipt") /\ Return(k, "receipt_untrusted")

\* What may be wrong before anything is asked of the host.
Configure(k) ==
    /\ At(k, "start")
    /\ \/ Go(k, "docker")
       \/ \E reason \in {"disabled"} \cup BadInput : Return(k, reason)
       \/ Refused(k)
       \/ KeyMissing(k)
    /\ UNCHANGED <<gate, phase, host, box, line, snapshot, unreached, faults>>

\* The daemon is asked for its version and answers within five seconds.
DockerReady == docker = "up"

\* bwrap is only the fall-back, and never
\* for a process that has crossed into the seal's namespace.
FindBackend(k) ==
    /\ At(k, "docker")
    /\ \/ /\ DockerReady
          /\ call' = [call EXCEPT ![k].at = "image", ![k].backend = "docker"]
          /\ UNCHANGED faults
       \/ /\ IF DockerReady THEN Fault ELSE UNCHANGED faults
          /\ \/ /\ (On("preseal") /\ On("sealed")) \/ ~On("bwrap")
                /\ Return(k, IF docker = "absent" THEN "docker_missing" ELSE "docker_unavailable")
             \/ /\ On("bwrap") /\ ~(On("preseal") /\ On("sealed"))
                /\ \/ call' = [call EXCEPT ![k].at = "tree", ![k].backend = "bwrap"]
                   \/ Return(k, "no_isolation_available")
       \/ Refused(k) /\ UNCHANGED faults
    /\ UNCHANGED <<gate, phase, host, box, line, snapshot, unreached>>

\* The tag exists; if that is armed, its id is the pinned one, and the label of
\* its harness is that of this checkout. An inspection that fails is a no.
ImageExists == docker = "up" /\ image # "none"
ImageIdTrusted == On("pin") => docker = "up" /\ image = "trusted"
EntryDigestTrusted == On("entry") => docker = "up" /\ image = "trusted"

CheckImage(k) ==
    /\ At(k, "image")
    /\ \/ ImageExists /\ ImageIdTrusted /\ EntryDigestTrusted /\ Go(k, "tree")
       \/ ~ImageExists /\ Return(k, "image_missing")
       \/ ~(ImageIdTrusted /\ EntryDigestTrusted) /\ Return(k, "image_untrusted")
       \/ Refused(k)
    /\ UNCHANGED <<gate, phase, host, box, line, snapshot, unreached, faults>>

(***************************************************************************)
(* The snapshot of the repository                                          *)
(***************************************************************************)
\* The cached directory still has its package: a directory that lost files in
\* a removal that failed may have it or not.
Usable(d) == d # NoDir /\ dir[d] \in {"whole", "torn"}
Sound(d) == d # NoDir /\ dir[d] = "whole"

NeedTree(k) ==
    /\ At(k, "tree") /\ ~On("worktree")
    /\ Go(k, "prepare")
    /\ UNCHANGED <<gate, phase, host, box, line, snapshot, unreached, faults>>

\* The lock is held while the snapshot is built.
TakeTree(k) ==
    /\ At(k, "tree") /\ On("worktree") /\ lock = Free
    /\ \/ /\ Usable(cache)
          /\ call' = [call EXCEPT ![k].at = "prepare", ![k].tree = cache]
          /\ UNCHANGED <<cache, lock>>
       \/ /\ ~Sound(cache)
          /\ cache' = NoDir /\ lock' = k
          /\ Go(k, "build")
    /\ UNCHANGED <<gate, phase, host, box, line, dir, owned, unreached, faults>>

\* Mutant: the lock stays taken.
_ReleaseHeld(outcome) == UNCHANGED lock /\ outcome

Release(outcome) == lock' = Free /\ outcome

\* A directory of its own, or none: no repository, no git, no room.
MakeDir(k) ==
    /\ At(k, "build")
    /\ \/ \E d \in Dir :
             /\ dir[d] = "none" /\ \A e \in Dir : e < d => dir[e] # "none"
             /\ dir' = [dir EXCEPT ![d] = "building"]
             /\ call' = [call EXCEPT ![k].at = "fill", ![k].tree = d]
             /\ UNCHANGED <<lock, faults>>
       \/ Fault /\ Release(Return(k, "worktree_unavailable")) /\ UNCHANGED dir
    /\ UNCHANGED <<gate, phase, host, box, line, cache, owned, unreached>>

\* A removal takes all, or leaves the rest behind.
Removed(d) == [dir EXCEPT ![d] = "gone"]
Torn(d) == [dir EXCEPT ![d] = "torn"]

\* git archive | tar, permissions, the package's presence; then the directory is
\* cached and its removal at exit registered. After a failure it is removed.
Fill(k) ==
    /\ At(k, "fill")
    /\ LET d == call[k].tree IN
       \/ /\ dir' = [dir EXCEPT ![d] = "whole"]
          /\ cache' = d
          /\ Go(k, "register")
          /\ UNCHANGED <<lock, faults>>
       \/ /\ Fault
          /\ dir' \in {Removed(d), Torn(d)}
          /\ Release(Return(k, "worktree_unavailable"))
          /\ UNCHANGED cache
    /\ UNCHANGED <<gate, phase, host, box, line, owned, unreached>>

\* Who leaves the process normally removes the directory: an atexit handler, in
\* the seal's child, which runs none, the child's own list.
Owned(d) == owned \cup {d}

\* In the seal's child a refused registration removes the directory again and
\* forgets it, unless the removal fails.
Register(k) ==
    /\ At(k, "register")
    /\ LET d == call[k].tree IN
       \/ /\ owned' = Owned(d)
          /\ Release(Go(k, "prepare"))
          /\ UNCHANGED <<dir, cache, faults>>
       \/ /\ On("sealed") /\ Fault
          /\ \/ dir' = Removed(d) /\ cache' = NoDir
             \/ dir' = Torn(d) /\ UNCHANGED cache
          /\ Release(Return(k, "worktree_unavailable"))
          /\ UNCHANGED owned
    /\ UNCHANGED <<gate, phase, host, box, line, unreached>>

(***************************************************************************)
(* The launch                                                              *)
(***************************************************************************)
\* A temporary directory gets the sources, each file checked to be the one that
\* was made; any doubt raises.
BindInput(k) ==
    /\ At(k, "prepare")
    /\ \/ Go(k, "argv") /\ UNCHANGED faults
       \/ Fault /\ Return(k, "exception")
    /\ UNCHANGED <<gate, phase, host, box, line, snapshot, unreached>>

\* The command line and the environment.
Prepare(k) ==
    /\ At(k, "argv")
    /\ Go(k, "launch") \/ (call[k].backend = "docker" /\ Refused(k))
    /\ UNCHANGED <<gate, phase, host, box, line, snapshot, unreached, faults>>

Launch(k) ==
    /\ At(k, "launch")
    /\ \/ /\ box' = [box EXCEPT ![k] = "starting"]
          /\ Go(k, "wait")
          /\ UNCHANGED faults
       \/ Fault /\ Return(k, "exception") /\ UNCHANGED box
    /\ UNCHANGED <<gate, phase, host, line, snapshot, unreached>>

\* The container exists and its id is in the cidfile; a jail just starts.
Create(k) ==
    /\ box[k] = "starting"
    /\ call[k].backend = "docker" => docker = "up"
    /\ box' = [box EXCEPT ![k] = "created"]
    /\ UNCHANGED <<gate, phase, host, call, line, snapshot, unreached, faults>>

\* The client, still there, starts it.
Begin(k) ==
    /\ box[k] = "created" /\ At(k, "wait")
    /\ call[k].backend = "docker" => docker = "up"
    /\ box' = [box EXCEPT ![k] = "running"]
    /\ UNCHANGED <<gate, phase, host, call, line, snapshot, unreached, faults>>

\* What may have been printed last: the harness's report for the nonce it was
\* given, a line of the candidate, which may repeat a report it has seen, whole
\* or changed, or nothing.
LastLines(k) ==
    {NoLine, [by |-> "harness", nonce |-> k, intact |-> TRUE],
     [by |-> "candidate", nonce |-> Free, intact |-> FALSE]}
    \cup {[by |-> "candidate", nonce |-> j, intact |-> i] :
            j \in {j \in Call : line[j].by = "harness"}, i \in BOOLEAN}

\* The candidate ends; --rm takes the container away.
Finish(k) ==
    /\ box[k] = "running"
    /\ \E l \in LastLines(k) : line' = [line EXCEPT ![k] = l]
    /\ box' = [box EXCEPT ![k] = "exited"]
    /\ UNCHANGED <<gate, phase, host, call, snapshot, unreached, faults>>

Living == {"created", "running"}

\* The client ends without a report: the runtime refuses, or the daemon is gone,
\* and the container with it or not.
Lose(k) ==
    /\ At(k, "wait")
    /\ \/ /\ box[k] \in Living \cup {"starting"} /\ Fault
          /\ box' = [box EXCEPT ![k] = "gone"]
          /\ UNCHANGED unreached
       \/ /\ box[k] \in Living /\ call[k].backend = "docker" /\ docker # "up"
          /\ unreached' = unreached \cup {k}
          /\ UNCHANGED <<box, faults>>
    /\ Return(k, "container_failed")
    /\ UNCHANGED <<gate, phase, host, line, snapshot>>

\* bwrap --die-with-parent.
DiesWithParent(k) == call[k].backend = "bwrap"

\* The time is up: the client, and with it a jail, is killed. A container that
\* is not there yet may come into being, never to be started.
TimeOut(k) ==
    /\ At(k, "wait") /\ box[k] \in {"starting", "created", "running"}
    /\ IF DiesWithParent(k)
       THEN box' = [box EXCEPT ![k] = "exited"] /\ Return(k, "timeout")
       ELSE /\ \/ UNCHANGED box
               \/ box[k] = "starting" /\ box' = [box EXCEPT ![k] = "gone"]
            /\ Go(k, "clean")
    /\ UNCHANGED <<gate, phase, host, line, snapshot, unreached, faults>>

\* `docker rm -f` by the id in the cidfile; without an id, or without an answer,
\* nothing happens.
Removable(k) == box[k] \in Living /\ docker = "up"

Clean(k) ==
    /\ At(k, "clean")
    /\ \/ /\ Removable(k)
          /\ box' = [box EXCEPT ![k] = "gone"]
          /\ UNCHANGED <<unreached, faults>>
       \/ /\ ~Removable(k)
          /\ unreached' = unreached \cup (IF box[k] = "starting" \/ docker # "up" THEN {k} ELSE {})
          /\ UNCHANGED <<box, faults>>
       \/ /\ Removable(k) /\ Fault
          /\ unreached' = unreached \cup {k}
          /\ UNCHANGED box
    /\ Return(k, "timeout")
    /\ UNCHANGED <<gate, phase, host, line, snapshot>>

\* Mutant: the nonce of a receipt is not compared with the call's own.
_VerifiedAnyCall(k, l) == l.nonce # Free /\ l.intact

\* The receipt is signed, issued for this call and its sources, agrees with the
\* envelope around it, and names an allow-listed harness.
Verified(k, l) == l.nonce = k /\ l.intact

\* The exit status, the last line, the receipt, the numbers.
Parse(k) ==
    /\ At(k, "wait") /\ box[k] = "exited"
    /\ \/ \E reason \in {"container_failed", "invalid_envelope", "exception"} : Return(k, reason)
       \/ On("receipt") /\ ~Verified(k, line[k]) /\ Return(k, "receipt_untrusted")
       \/ line[k].by # "none" /\ (On("receipt") => Verified(k, line[k])) /\ Return(k, "graded")
    /\ UNCHANGED <<gate, phase, host, box, line, snapshot, unreached, faults>>

(***************************************************************************)
(* The host and the process                                                *)
(***************************************************************************)
DaemonGoes ==
    /\ docker = "up" /\ Fault
    /\ docker' = "down"
    /\ UNCHANGED <<gate, phase, image, call, box, line, snapshot, unreached>>

DaemonComes ==
    /\ docker = "down" /\ Fault
    /\ docker' = "up"
    /\ UNCHANGED <<gate, phase, image, call, box, line, snapshot, unreached>>

\* Somebody tidies up the temporary directories.
Reap(d) ==
    /\ dir[d] = "whole" /\ Fault
    /\ dir' = Torn(d)
    /\ UNCHANGED <<gate, phase, host, call, box, line, cache, owned, lock, unreached>>

\* The process ends as it should: what is registered is removed.
Exit ==
    /\ phase = "running" /\ \A k \in Call : call[k].at = "returned"
    /\ phase' = "exited"
    /\ \E left \in {"gone", "torn"} :
          /\ IF left = "torn" THEN Fault ELSE UNCHANGED faults
          /\ dir' = [d \in Dir |-> IF d \in owned THEN left ELSE dir[d]]
    /\ UNCHANGED <<gate, host, call, box, line, cache, owned, lock, unreached>>

\* The process dies: jails die with it, containers do not.
Kill ==
    /\ phase = "running" /\ Fault
    /\ phase' = "killed"
    /\ box' = [k \in Call |-> IF DiesWithParent(k) /\ box[k] \in Living \cup {"starting"}
                              THEN "exited" ELSE box[k]]
    /\ UNCHANGED <<gate, host, call, line, snapshot, unreached>>

CallStep(k) ==
    \/ Select(k) \/ Configure(k) \/ FindBackend(k) \/ CheckImage(k)
    \/ NeedTree(k) \/ TakeTree(k) \/ MakeDir(k) \/ Fill(k) \/ Register(k)
    \/ BindInput(k) \/ Prepare(k) \/ Launch(k) \/ TimeOut(k) \/ Clean(k) \/ Parse(k)

BoxStep(k) == Create(k) \/ Begin(k) \/ Finish(k) \/ Lose(k)

Next ==
    \/ \E k \in Call : CallStep(k) \/ BoxStep(k)
    \/ \E d \in Dir : Reap(d)
    \/ DaemonGoes \/ DaemonComes \/ Exit \/ Kill

\* A call goes on by itself and its time-out strikes; whatever it started need
\* not do anything.
Fairness == \A k \in Call : WF_vars(CallStep(k))

Spec == Init /\ [][Next]_vars /\ Fairness

(***************************************************************************)
(* Properties                                                              *)
(***************************************************************************)
Places == {"select", "start", "argv", "docker", "image", "tree", "build", "fill", "register", "prepare",
           "launch", "wait", "clean", "returned"}

TypeOK ==
    /\ gate \in Gates /\ phase \in {"running", "exited", "killed"}
    /\ docker \in {"absent", "down", "up"} /\ image \in {"none", "trusted", "other"}
    /\ \A k \in Call : call[k].at \in Places /\ call[k].tree \in Dir \cup {NoDir}
    /\ box \in [Call -> {"none", "starting", "created", "running", "exited", "gone"}]
    /\ line \in [Call -> Line]
    /\ dir \in [Dir -> {"none", "building", "whole", "torn", "gone"}]
    /\ cache \in Dir \cup {NoDir} /\ owned \subseteq Dir /\ lock \in Call \cup {Free}

Returned(k, reason) == call[k].at = "returned" /\ call[k].reason = reason

\* A grade comes from a candidate that ran to its end, in the trusted image if
\* that is demanded; with the receipt gate on, from the very line that the
\* harness printed for this call, not from one that a candidate repeats
\* (_verify_grade_receipt: "replay or splice").
GradeIsEarned ==
    \A k \in Call : Returned(k, "graded") =>
        /\ box[k] = "exited"
        /\ (On("pin") \/ On("entry")) /\ call[k].backend = "docker" => image = "trusted"
        /\ On("worktree") => call[k].tree # NoDir
        /\ On("receipt") => line[k].by = "harness"

\* A call that is reported as not configured or without infrastructure has
\* started nothing: the caller may count the candidate as unmeasured.
UnmeasuredRanNothing ==
    \A k \in Call :
        (call[k].at = "returned" /\ Status(call[k].reason) \in {"NONE", "NOT_CONFIGURED", "INFRA_UNAVAILABLE"})
            => box[k] = "none"

\* A container that outlives its call is one that had no id yet when the time
\* was up, or one that the daemon did not remove; a jail never does.
LeftoverHasReason ==
    \A k \in Call :
        (call[k].at = "returned" \/ phase = "killed") /\ box[k] \in Living \cup {"starting"} =>
            /\ call[k].backend = "docker"
            /\ phase # "killed" => k \in unreached

\* The snapshot that a call works with is complete, but for what a foreign
\* removal took from it, and is not taken away while the call lasts; nothing
\* but rests of failed removals is left of any when the process has ended.
SnapshotLastsAsLongAsItsUsers ==
    /\ \A k \in Call :
          On("worktree") /\ phase = "running" /\ call[k].at \in {"prepare", "argv", "launch", "wait", "clean"}
              => dir[call[k].tree] \in {"whole", "torn"}
    /\ phase = "exited" => \A d \in Dir : dir[d] \in {"none", "torn", "gone"}

\* What a call says of its candidate happened, and what is left is known.
VerdictIsOfWhatRan ==
    GradeIsEarned /\ UnmeasuredRanNothing /\ LeftoverHasReason /\ SnapshotLastsAsLongAsItsUsers

\* Every call returns, whatever the candidate, the daemon and the other calls do.
EveryCallReturns == \A k \in Call : <>(call[k].at = "returned" \/ phase = "killed")
=============================================================================
