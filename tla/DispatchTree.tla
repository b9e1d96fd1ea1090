---------------------------- MODULE DispatchTree ----------------------------
(***************************************************************************)
(* The process tree of one deadline-bounded dispatch: the tick P (tick_    *)
(* deadline.run_with_deadline) forks a leader L; L runs the dispatched     *)
(* function itself or, sealed (tick_descendant_seal.run_sealed), through a *)
(* seal leader S and a PID-namespace init N.  The function forks workers   *)
(* which may fork, leave the process group, ignore SIGTERM and exit as     *)
(* they like.  P holds the tick lease; every process may be killed at any  *)
(* instant.                                                                *)
(*                                                                         *)
(* External: the kernel's fork, wait, sessions, PR_SET_PDEATHSIG,          *)
(* PR_SET_CHILD_SUBREAPER, PID namespaces and flock.  SIGTERM only invites *)
(* a process to exit, which it may do anyway, so no step stands for it.    *)
(***************************************************************************)
EXTENDS Naturals, FiniteSets

CONSTANT Worker   \* bound on the processes the dispatched function ever forks

ASSUME WorkerAssumption == Worker \cap {"P", "L", "S", "N", "init"} = {}

Below == {"L", "S", "N"} \cup Worker   \* everything P is answerable for
Procs == {"P"} \cup Below

VARIABLES
    st,       \* "unborn", "live", "zombie" or "gone" (reaped)
    dad,      \* parent; "init" is the host's
    grp,      \* process group, named by its leader
    armed,    \* PR_SET_PDEATHSIG(SIGKILL) is set
    doomed,   \* a SIGKILL is pending
    holds,    \* processes with a copy of the lease's file descriptor
    locked,   \* the flock of that open file description
    at,       \* where P, L, S and N are in their code
    ready,    \* the byte in the ready pipe
    known,    \* P's group_ready: the leader has a group of its own
    outcome   \* what run_with_deadline is going to report

kin == <<st, dad, grp, armed, doomed>>
lease == <<holds, locked>>
report == <<ready, known, outcome>>
vars == <<kin, lease, at, report>>

TypeOK ==
    /\ st \in [Procs -> {"unborn", "live", "zombie", "gone"}]
    /\ dad \in [Procs -> Procs \cup {"init"}]
    /\ grp \in [Procs -> Procs]
    /\ armed \subseteq Below /\ doomed \subseteq Below
    /\ holds \subseteq Procs /\ locked \in BOOLEAN
    /\ at \in [{"P", "L", "S", "N"} ->
               {"start", "wait", "term", "kill", "restore", "free", "dead",
                "arm", "setsid", "close", "ready", "fn", "seal", "sealkill", "unshare", "parked", "off"}]
    /\ ready \in {"none", "0", "1", "2"}
    /\ known \in BOOLEAN
    /\ outcome \in {"none", "result", "timeout", "cancelled", "failed", "unavailable"}

\* AGI_V8_TICK_DESCENDANT_SEAL_ENABLED; without it the code of S and N is off.
SealOn == at["S"] # "off"

Init ==
    /\ st = [x \in Procs |-> IF x = "P" THEN "live" ELSE "unborn"]
    /\ dad = [x \in Procs |-> "init"]
    /\ grp = [x \in Procs |-> "P"]
    /\ armed = {} /\ doomed = {}
    /\ holds = {"P"} /\ locked = TRUE
    /\ \E sealed \in BOOLEAN :
           at = [x \in {"P", "L", "S", "N"} |->
                    CASE x = "P" -> "start"
                      [] x \in {"S", "N"} /\ ~sealed -> "off"
                      [] OTHER -> "arm"]
    /\ ready = "none" /\ known = FALSE /\ outcome = "none"

----------------------------------------------------------------------------
\* The kernel

Live(x) == st[x] = "live"
Present(x) == st[x] \in {"live", "zombie"}

\* A process with a SIGKILL pending runs no more of its code.
Runs(x) == Live(x) /\ x \notin doomed

Goto(x, from, to) == Runs(x) /\ at[x] = from /\ at' = [at EXCEPT ![x] = to]

Born(x, parent) ==
    /\ st[x] = "unborn" /\ Runs(parent)
    /\ st' = [st EXCEPT ![x] = "live"]
    /\ dad' = [dad EXCEPT ![x] = parent]
    /\ grp' = [grp EXCEPT ![x] = grp[parent]]
    /\ holds' = IF parent \in holds THEN holds \cup {x} ELSE holds
    /\ UNCHANGED <<armed, doomed, locked>>

\* Where the children of x go when it dies: to the namespace init, to the
\* child subreaper, or past both.
Heir(x) ==
    IF SealOn /\ x \in Worker THEN "N"
    ELSE IF x # "P" /\ at["P"] \in {"wait", "term", "kill", "restore"} THEN "P"
    ELSE "init"

\* The death of x: of a namespace init with all its namespace, at once.  Its
\* descriptors close, armed children are sent SIGKILL, all are adopted.
Falls(x) ==
    LET dead == {x} \cup (IF SealOn /\ x = "N" THEN {w \in Worker : Present(w)} ELSE {})
        left == {c \in Procs \ dead : dad[c] \in dead /\ Present(c)}
        heir == Heir(x)
    IN  /\ st' = [c \in Procs |->
                     IF c = x THEN IF dad[x] = "init" THEN "gone" ELSE "zombie"
                     ELSE IF c \in dead \/ (c \in left /\ heir = "init" /\ ~Live(c)) THEN "gone"
                     ELSE st[c]]
        /\ dad' = [c \in Procs |-> IF c \in left THEN heir ELSE dad[c]]
        /\ doomed' = (doomed \cup {c \in left \cap armed : Live(c)}) \ dead
        /\ holds' = holds \ dead
        /\ UNCHANGED <<grp, armed, locked>>

Reaped(x, parent) == dad[x] = parent /\ st[x] = "zombie" /\ st' = [st EXCEPT ![x] = "gone"]

\* Anything below P may end at any time; what has a SIGKILL pending must.
Exits(x) == Live(x) /\ Falls(x) /\ UNCHANGED <<at, report>>

Killed(x) == x \in doomed /\ Exits(x)

----------------------------------------------------------------------------
\* The tick: run_with_deadline

Fork ==
    /\ Goto("P", "start", "wait")
    /\ Born("L", "P")
    /\ UNCHANGED report

ForkFails ==
    /\ Goto("P", "start", "restore")
    /\ outcome' = "failed"
    /\ UNCHANGED <<kin, lease, ready, known>>

\* The ready byte; anything but "1" is a failed set-up.
ReadReady ==
    /\ Live("P") /\ at["P"] = "wait" /\ ~known /\ ready # "none"
    /\ known' = (ready \in {"1", "2"})
    /\ \/ ready = "1" /\ UNCHANGED <<at, outcome>>
       \/ ready # "1" /\ at' = [at EXCEPT !["P"] = "term"] /\ outcome' = "failed"
    /\ UNCHANGED <<kin, lease, ready>>

\* The whole frame, the deadline, a catchable signal, or a broken pipe.  The
\* clean-up takes one more look at the ready pipe, without waiting.
StopWaiting ==
    /\ Goto("P", "wait", "term")
    /\ \/ known /\ at["L"] = "parked" /\ outcome' = "result"
       \/ ~Live("L") /\ outcome' = "failed"
       \/ outcome' \in {"timeout", "cancelled"}
    /\ known' = (known \/ ready \in {"1", "2"})
    /\ UNCHANGED <<kin, lease, ready>>

\* killpg once the group is known to be the leader's own, kill before that.
BeginKill ==
    /\ Goto("P", "term", "kill")
    /\ doomed' = doomed \cup {x \in Below : Live(x) /\ IF known THEN grp[x] = "L" ELSE x = "L"}
    /\ UNCHANGED <<st, dad, grp, armed, lease, report>>

Adopted == {x \in Below \ {"L"} : dad[x] = "P" /\ Present(x)}

\* _signal_adopted_children(SIGKILL): every adoptee and its group, unless that
\* is P's own.
Sweep ==
    /\ Live("P") /\ at["P"] = "kill" /\ Adopted # {}
    /\ doomed' = doomed \cup {x \in Below : Live(x) /\
                     (x \in Adopted \/ \E c \in Adopted : grp[c] # "P" /\ grp[x] = grp[c])}
    /\ UNCHANGED <<st, dad, grp, armed, lease, at, report>>

ReapBelow ==
    /\ Live("P") /\ at["P"] \in {"term", "kill"}
    /\ \E x \in Below : Reaped(x, "P")
    /\ UNCHANGED <<dad, grp, armed, doomed, lease, at, report>>

\* Mutant: adopted descendants are forgotten.
Remains_GroupOnly ==
    \/ st["L"] # "gone"
    \/ known /\ \E x \in Below : Present(x) /\ grp[x] = "L"

Remains ==
    \/ st["L"] # "gone"
    \/ known /\ \E x \in Below : Present(x) /\ grp[x] = "L"
    \/ Adopted # {}

CleanedUp ==
    /\ Live("P") /\ at["P"] \in {"term", "kill"} /\ ~Remains
    /\ at' = [at EXCEPT !["P"] = "restore"]
    /\ UNCHANGED <<kin, lease, report>>

\* The bounded kill phase runs out: DeadlineUnavailable replaces the outcome.
CleanUpFails ==
    /\ Goto("P", "kill", "restore")
    /\ Remains
    /\ outcome' = "unavailable"
    /\ UNCHANGED <<kin, lease, ready, known>>

\* The subreaper flag is restored, tick_once returns and releases the lease:
\* LOCK_UN, then close.
Release ==
    /\ Goto("P", "restore", "free")
    /\ locked' = FALSE /\ holds' = holds \ {"P"}
    /\ UNCHANGED <<kin, report>>

\* The uncatchable SIGKILL.
Dies ==
    /\ Live("P") /\ at["P"] # "free"
    /\ at' = [at EXCEPT !["P"] = "dead"]
    /\ Falls("P")
    /\ UNCHANGED report

Tick ==
    \/ Fork \/ ForkFails \/ ReadReady \/ StopWaiting \/ BeginKill \/ Sweep \/ ReapBelow
    \/ CleanedUp \/ CleanUpFails \/ Release

----------------------------------------------------------------------------
\* The leader: _child_main, and run_sealed inside it

\* Arm, then look whether the parent is still the one that forked.
LeaderArm ==
    \/ /\ Goto("L", "arm", "setsid") /\ dad["L"] = "P"
       /\ armed' = armed \cup {"L"}
       /\ UNCHANGED <<st, dad, grp, doomed, lease, report>>
    \/ /\ Runs("L") /\ at["L"] = "arm" /\ dad["L"] # "P"
       /\ Falls("L")
       /\ ready' = "0"
       /\ UNCHANGED <<at, known, outcome>>

LeaderSetsid ==
    /\ Goto("L", "setsid", "close")
    /\ grp' = [grp EXCEPT !["L"] = "L"]
    /\ UNCHANGED <<st, dad, armed, doomed, lease, report>>

LeaderClose ==
    \/ /\ Goto("L", "close", "ready")
       /\ holds' = holds \ {"L"}
       /\ UNCHANGED <<kin, locked, report>>
    \/ /\ Runs("L") /\ at["L"] = "close"
       /\ Falls("L")
       /\ ready' = "2"
       /\ UNCHANGED <<at, known, outcome>>

LeaderReady ==
    /\ Goto("L", "ready", "fn")
    /\ ready' = "1"
    /\ UNCHANGED <<kin, lease, known, outcome>>

\* The function returns or raises; the frame is written and the leader parks.
LeaderDone ==
    /\ ~SealOn /\ Goto("L", "fn", "parked")
    /\ UNCHANGED <<kin, lease, report>>

SealFork ==
    /\ SealOn /\ Goto("L", "fn", "seal")
    /\ Born("S", "L")
    /\ UNCHANGED report

\* A frame from N, the seal's own timeout or a broken pipe.
SealEnds ==
    /\ Goto("L", "seal", "sealkill")
    /\ doomed' = IF Live("S") THEN doomed \cup {"S"} ELSE doomed
    /\ UNCHANGED <<st, dad, grp, armed, lease, report>>

\* S is reaped, or the reap times out; both park the leader.
SealReap ==
    /\ Goto("L", "sealkill", "parked")
    /\ Reaped("S", "L") \/ (Present("S") /\ UNCHANGED st)
    /\ UNCHANGED <<dad, grp, armed, doomed, lease, report>>

Leader ==
    \/ LeaderArm \/ LeaderSetsid \/ LeaderClose \/ LeaderReady \/ LeaderDone
    \/ SealFork \/ SealEnds \/ SealReap

----------------------------------------------------------------------------
\* The seal leader and the namespace init

\* Mutant: the seal leader does not look who its parent is.
SealArm_Blind ==
    /\ Goto("S", "arm", "unshare")
    /\ armed' = armed \cup {"S"}
    /\ UNCHANGED <<st, dad, grp, doomed, lease, report>>

SealArm ==
    \/ /\ Goto("S", "arm", "unshare") /\ dad["S"] = "L"
       /\ armed' = armed \cup {"S"}
       /\ UNCHANGED <<st, dad, grp, doomed, lease, report>>
    \/ /\ Runs("S") /\ at["S"] = "arm" /\ dad["S"] # "L"
       /\ Falls("S")
       /\ UNCHANGED <<at, report>>

SealUnshare ==
    /\ Goto("S", "unshare", "wait")
    /\ Born("N", "S")
    /\ UNCHANGED report

SealWait ==
    /\ Runs("S") /\ at["S"] = "wait"
    /\ Reaped("N", "S")
    /\ UNCHANGED <<dad, grp, armed, doomed, lease, at, report>>

\* N cannot see its parent's pid from inside the namespace: it arms and trusts
\* that the parent is alive.
InitArm ==
    /\ Goto("N", "arm", "fn")
    /\ armed' = armed \cup {"N"}
    /\ UNCHANGED <<st, dad, grp, doomed, lease, report>>

InitDone ==
    /\ Goto("N", "fn", "parked")
    /\ UNCHANGED <<kin, lease, report>>

Seal == SealArm \/ SealUnshare \/ SealWait \/ InitArm \/ InitDone

----------------------------------------------------------------------------
\* The dispatched function and what it forks

Host == IF SealOn THEN "N" ELSE "L"

Spawn(x, w) ==
    /\ x \in Worker \/ (x = Host /\ at[x] \in {"fn", "parked"})
    /\ Born(w, x)
    /\ UNCHANGED <<at, report>>

\* A worker makes a session of its own.
Detach(w) ==
    /\ Runs(w) /\ grp' = [grp EXCEPT ![w] = w]
    /\ UNCHANGED <<st, dad, armed, doomed, lease, at, report>>

Function ==
    \/ \E w \in Worker : (\E x \in Worker \cup {"L", "N"} : Spawn(x, w)) \/ Detach(w)

Next == Tick \/ Dies \/ Leader \/ Seal \/ Function \/ \E x \in Below : Exits(x)

Spec == Init /\ [][Next]_vars

\* A process with a pending SIGKILL dies; P's loops and its deadline run; the
\* set-up code of L, S and N, which waits for nothing, runs.  Nothing says the
\* dispatched function ever ends.
Fairness ==
    /\ \A x \in Below : WF_vars(Killed(x))
    /\ WF_vars(Tick)
    /\ WF_vars(LeaderArm) /\ WF_vars(LeaderSetsid) /\ WF_vars(LeaderClose)
    /\ WF_vars(SealArm) /\ WF_vars(SealUnshare) /\ WF_vars(InitArm)

FairSpec == Spec /\ Fairness

----------------------------------------------------------------------------
\* Properties

\* When the dispatch returns and does not say that its clean-up failed, nothing
\* of it is left, however its workers forked, detached and exited meanwhile:
\* no descendant outlives the release of the lease.
NoSurvivor ==
    at["P"] = "free" /\ outcome # "unavailable" => \A x \in Below : st[x] \in {"unborn", "gone"}

\* No process that runs the function's code, and none it forked, can keep the
\* lease: a survivor never blocks the next tick.
LeaseNotInherited == \A x \in holds : x = "P" \/ (x = "L" /\ at["L"] \in {"arm", "setsid", "close"})

\* The race of the leader with the death of the tick is closed: a leader that
\* outlives the tick past its arming is already being killed.
LeaderFollows == at["P"] = "dead" /\ Live("L") /\ at["L"] # "arm" => "L" \in doomed

\* Nothing of a dispatch is left where its end was reported, none of it keeps
\* the lease, and none runs on unnoticed when the tick has died.
NothingOutlives == NoSurvivor /\ LeaseNotInherited /\ LeaderFollows

\* The tick always gets out, with whatever outcome.
Returns == at["P"] = "wait" ~> at["P"] \in {"free", "dead"}

\* A dead tick's lease is free again without anybody's help.
LeaseFreed == at["P"] = "dead" ~> ~(locked /\ holds # {})

\* Once the namespace init is armed under a live parent, the death of the tick
\* takes the whole sealed tree with it, with no code of the program running.
SealedTreeFalls ==
    at["P"] = "dead" /\ SealOn /\ "N" \in armed /\ (Live("S") \/ "N" \in doomed)
        ~> \A x \in Below : ~Live(x)

\* Whatever hangs, every end that the code promises comes.
EveryEndComes == Returns /\ LeaseFreed /\ SealedTreeFalls
=============================================================================
