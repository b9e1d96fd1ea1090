---------------------------- MODULE ProcessProofs ----------------------------
(***************************************************************************)
(* Theorems about the two ways a tick answers for processes: the lease     *)
(* that lets one tick run at a time (TickLease) and the tree of processes  *)
(* one dispatch leaves below it (DispatchTree).                            *)
(***************************************************************************)
EXTENDS TickLease, DispatchTree, TLAPS

(***************************************************************************)
(* The lease, for any number of ticks, status callers, acquisitions and    *)
(* faults.  The kernel lock decides everything: whoever is past its        *)
(* acquisition or inside a probe holds it, so nobody else writes the       *)
(* record meanwhile.                                                       *)
(***************************************************************************)
Owning ==
    /\ \A p \in Proc : pc[p] # "idle" => lock = p /\ nonce[p] >= 1
    /\ \A o \in Obs : held[o] = "probing" => lock = o

Named == \A p \in Proc : pc[p] \in {"work", "own", "unlink"} => record = Mine(p)

LeaseInv == LeaseTypeOK /\ Owning /\ Named /\ StaleMeansFault

LEMMA InitInvariant == LeaseInit => LeaseInv
<1> SUFFICES ASSUME LeaseInit PROVE LeaseInv OBVIOUS
<1>1. LeaseTypeOK BY LeaseBoundAssumption DEF LeaseInit, LeaseTypeOK, Records
<1>2. Owning /\ Named /\ StaleMeansFault
  BY DEF LeaseInit, Owning, Named, StaleMeansFault
<1>. QED BY <1>1, <1>2 DEF LeaseInv

\* A tick's step: it held the lock before, or takes a free one now.
LEMMA AcquirerStep ==
    ASSUME LeaseInv, NEW p \in Proc, Acquirer(p) PROVE LeaseInv'
<1> USE DEF LeaseInv, Advance, Free
<1>1. CASE TryLock(p)
  <2>1. LeaseTypeOK' BY <1>1, LeaseBoundAssumption DEF TryLock, LeaseTypeOK
  <2>2. \A q \in Proc : pc[q] = "idle" BY <1>1, LeaseActorsAssumption DEF TryLock, Owning
  <2>3. Owning'
    BY <1>1, <2>2, LeaseActorsAssumption DEF TryLock, LeaseTypeOK, Owning
  <2>4. Named' BY <1>1, <2>2 DEF TryLock, LeaseTypeOK, Named
  <2>5. StaleMeansFault'
    <3>1. ~(faults = 0 /\ record # NoRecord)
      BY <1>1, LeaseActorsAssumption, <2>2 DEF TryLock, StaleMeansFault, LeaseTypeOK, Records, NoRecord
    <3>. QED BY <1>1, <3>1 DEF TryLock, StaleMeansFault
  <2>. QED BY <2>1, <2>3, <2>4, <2>5
<1>2. CASE Publish(p)
  <2>0. pc[p] = "publish" /\ lock = p /\ nonce[p] \in 1..MaxAcquires /\ UNCHANGED <<lock, nonce, held>>
    BY <1>2, LeaseBoundAssumption DEF Publish, Owning, LeaseTypeOK
  <2>1. LeaseTypeOK'
    <3>1. Mine(p) \in Records BY <2>0 DEF Mine, Records
    <3>. QED BY <1>2, <3>1, LeaseBoundAssumption DEF Publish, Fault, LeaseTypeOK
  <2>2. Owning' BY <1>2, <2>0 DEF Publish, LeaseTypeOK, Owning
  <2>3. \A q \in Proc \ {p} : pc[q] = "idle" /\ pc'[q] = "idle"
    BY <1>2, <2>0 DEF Publish, LeaseTypeOK, Owning
  <2>4. Named' BY <1>2, <2>3 DEF Publish, LeaseTypeOK, Named, Mine
  <2>5. StaleMeansFault'
    <3>1. CASE pc' = [pc EXCEPT ![p] = "work"] /\ record' = Mine(p)
      BY <2>0, <3>1 DEF StaleMeansFault, LeaseTypeOK, Mine
    <3>2. CASE Fault
      <4>1. faults' # 0 BY <3>2 DEF Fault, LeaseTypeOK
      <4>. QED BY <4>1 DEF StaleMeansFault
    <3>. QED BY <1>2, <3>1, <3>2 DEF Publish
  <2>. QED BY <2>1, <2>2, <2>4, <2>5
<1>3. CASE Finish(p) \/ ReadOwn(p)
  <2>0. /\ pc[p] \in {"work", "own"} /\ lock = p
        /\ UNCHANGED <<lock, record, nonce, acquires, saw, held>>
        /\ \A q \in Proc \ {p} : pc[q] = "idle" /\ pc'[q] = "idle"
    BY <1>3 DEF Finish, ReadOwn, Owning, LeaseTypeOK
  <2>1. LeaseTypeOK' BY <1>3, LeaseBoundAssumption DEF Finish, ReadOwn, Fault, LeaseTypeOK
  <2>2. Owning' BY <2>0 DEF LeaseTypeOK, Owning
  <2>3. Named' BY <2>0 DEF Named, Mine
  <2>4. StaleMeansFault'
    <3>1. record = Mine(p) BY <2>0 DEF Named
    <3>2. CASE faults' = faults /\ pc' \in {[pc EXCEPT ![p] = "own"], [pc EXCEPT ![p] = "unlink"]}
      BY <2>0, <3>1, <3>2 DEF StaleMeansFault, Mine, LeaseTypeOK
    <3>3. CASE Fault
      <4>1. faults' # 0 BY <3>3 DEF Fault, LeaseTypeOK
      <4>. QED BY <4>1 DEF StaleMeansFault
    <3>. QED BY <1>3, <3>1, <3>2, <3>3 DEF Finish, ReadOwn
  <2>. QED BY <2>1, <2>2, <2>3, <2>4
<1>4. CASE Unlink(p)
  <2>0. /\ pc[p] = "unlink" /\ lock = p /\ pc' = [pc EXCEPT ![p] = "unlock"]
        /\ UNCHANGED <<lock, nonce, acquires, saw, held>>
        /\ \A q \in Proc \ {p} : pc[q] = "idle"
    BY <1>4 DEF Unlink, Owning, LeaseTypeOK
  <2>1. LeaseTypeOK' BY <1>4, LeaseBoundAssumption DEF Unlink, Fault, LeaseTypeOK, Records
  <2>2. Owning' BY <2>0 DEF LeaseTypeOK, Owning
  <2>3. Named' BY <2>0 DEF Named, LeaseTypeOK
  <2>4. StaleMeansFault'
    <3>1. CASE record' = NoRecord BY <3>1 DEF StaleMeansFault
    <3>2. CASE Fault
      <4>1. faults' # 0 BY <3>2 DEF Fault, LeaseTypeOK
      <4>. QED BY <4>1 DEF StaleMeansFault
    <3>. QED BY <1>4, <3>1, <3>2 DEF Unlink
  <2>. QED BY <2>1, <2>2, <2>3, <2>4
<1>5. CASE Unlock(p) \/ Crash(p)
  <2>0. /\ pc[p] # "idle" /\ lock = p /\ lock' = Nobody /\ pc' = [pc EXCEPT ![p] = "idle"]
        /\ UNCHANGED <<record, nonce, acquires, saw, held>>
        /\ \A q \in Proc \ {p} : pc[q] = "idle"
    BY <1>5 DEF Unlock, Crash, Owning, LeaseTypeOK
  <2>1. LeaseTypeOK' BY <1>5, <2>0, LeaseBoundAssumption DEF Unlock, Crash, Fault, LeaseTypeOK
  <2>2. \A o \in Obs : held[o] # "probing" BY <2>0, LeaseActorsAssumption DEF Owning
  <2>3. Owning' BY <2>0, <2>2 DEF Owning, LeaseTypeOK
  <2>4. Named' BY <2>0 DEF Named, LeaseTypeOK
  <2>5. StaleMeansFault'
    <3>1. CASE Crash(p)
      <4>1. faults' # 0 BY <3>1 DEF Crash, Fault, LeaseTypeOK
      <4>. QED BY <4>1 DEF StaleMeansFault
    <3>2. CASE Unlock(p)
      <4>1. ~(faults = 0 /\ record # NoRecord) BY <2>0, <3>2 DEF Unlock, StaleMeansFault
      <4>. QED BY <3>2, <4>1 DEF Unlock, StaleMeansFault
    <3>. QED BY <1>5, <3>1, <3>2
  <2>. QED BY <2>1, <2>3, <2>4, <2>5
<1>. QED BY <1>1, <1>2, <1>3, <1>4, <1>5 DEF Acquirer, WindDown

\* A status call takes only a free lock, and only for itself.
LEMMA ObserverStep ==
    ASSUME LeaseInv, NEW o \in Obs, Observer(o) PROVE LeaseInv'
<1> USE DEF LeaseInv, Free
<1>1. /\ UNCHANGED <<record, pc, nonce, acquires, faults>>
      /\ \/ UNCHANGED lock
         \/ lock = Nobody /\ lock' = o
         \/ lock = o /\ lock' = Nobody
  BY DEF Observer, StatusRead, StatusProbe, StatusDone, Owning
<1>2. LeaseTypeOK' BY DEF Observer, StatusRead, StatusProbe, StatusDone, LeaseTypeOK
<1>3. lock \in {Nobody, o} => \A p \in Proc : pc[p] = "idle"
  BY LeaseActorsAssumption DEF Owning
<1>4. Owning'
  <2>1. \A p \in Proc : pc'[p] # "idle" => lock' = p /\ nonce'[p] >= 1
    BY <1>1, <1>3 DEF Owning
  <2>2. \A q \in Obs : held'[q] = "probing" => lock' = q
    BY LeaseActorsAssumption DEF Observer, StatusRead, StatusProbe, StatusDone, Owning, LeaseTypeOK
  <2>. QED BY <2>1, <2>2 DEF Owning
<1>5. Named' BY <1>1 DEF Named, Mine
<1>6. StaleMeansFault'
  <2>1. CASE lock' = lock BY <1>1, <2>1 DEF StaleMeansFault
  <2>2. CASE lock \in {Nobody, o}
    <3>1. ~(faults = 0 /\ record # NoRecord)
      BY <2>2, <1>3, LeaseActorsAssumption DEF StaleMeansFault, LeaseTypeOK, Records
    <3>. QED BY <1>1, <3>1 DEF StaleMeansFault
  <2>. QED BY <1>1, <2>1, <2>2
<1>. QED BY <1>2, <1>4, <1>5, <1>6

\* The inductive invariant: types, the owner of the lock, and the record.
THEOREM LeaseInvariant == LeaseSpec => []LeaseInv
<1>1. LeaseInv /\ [LeaseNext]_leaseVars => LeaseInv'
  <2>1. CASE UNCHANGED leaseVars
    BY <2>1 DEF leaseVars, LeaseInv, LeaseTypeOK, Owning, Named, StaleMeansFault, Mine
  <2>. QED BY <2>1, AcquirerStep, ObserverStep DEF LeaseNext
<1>. QED BY <1>1, InitInvariant, PTL DEF LeaseSpec

----------------------------------------------------------------------------
\* What follows from it

\* The record names the tick that works, whatever faults came before.
THEOREM RecordIsTrue == LeaseSpec => []RecordNamesWorker
<1>1. LeaseInv => RecordNamesWorker BY DEF LeaseInv, Named, RecordNamesWorker
<1>. QED BY <1>1, LeaseInvariant, PTL

\* A stale record is evidence of a fault.
THEOREM StaleIsEvidence == LeaseSpec => []StaleMeansFault
<1>1. LeaseInv => StaleMeansFault BY DEF LeaseInv
<1>. QED BY <1>1, LeaseInvariant, PTL

\* A probe that got the lock saw nobody working.
THEOREM ProbeIsHonest == LeaseSpec => []FreeMeansNobodyWorks
<1>1. LeaseInv => FreeMeansNobodyWorks
  BY LeaseActorsAssumption DEF LeaseInv, Owning, FreeMeansNobodyWorks
<1>. QED BY <1>1, LeaseInvariant, PTL

\* Whoever reads the record beside the lock in time reads the truth: of a live
\* holder, of a crash, and of nobody.
THEOREM RecordIsTruthful == LeaseSpec => []RecordTellsTruth
<1>1. RecordNamesWorker /\ StaleMeansFault /\ FreeMeansNobodyWorks => RecordTellsTruth
  BY DEF RecordTellsTruth
<1>. QED BY RecordIsTrue, StaleIsEvidence, ProbeIsHonest, <1>1, PTL

\* No tick deletes the record of another.
THEOREM OnlyOwnRecords == LeaseSpec => DeletesOnlyItsOwn
<1>1. LeaseInv /\ [LeaseNext]_leaseVars =>
        [\A p \in Proc : Unlink(p) => record' \in {record, NoRecord} /\ record = Mine(p)]_leaseVars
  BY DEF LeaseInv, Named, Unlink, Advance
<1>. QED BY <1>1, LeaseInvariant, PTL DEF LeaseSpec, DeletesOnlyItsOwn

\* A tick's step enters, leaves, or keeps the lock and who is inside.
LEMMA AcquirerLocks ==
    ASSUME LeaseInv, NEW p \in Proc, Acquirer(p)
    PROVE  Enter(p) \/ Leave(p) \/ UNCHANGED <<Holder, Inside>>
<1> USE LeaseActorsAssumption DEF Holder, Inside
<1>1. CASE TryLock(p)
  <2>1. lock = Nobody /\ lock' = p /\ \A q \in Proc : pc[q] = "idle"
    BY <1>1 DEF TryLock, LeaseInv, Owning
  <2>2. pc'[p] = "publish" /\ \A q \in Proc \ {p} : pc'[q] = pc[q]
    BY <1>1 DEF TryLock, Advance, LeaseInv, LeaseTypeOK
  <2>. QED BY <2>1, <2>2 DEF Enter
<1>2. CASE Publish(p) \/ Finish(p) \/ ReadOwn(p) \/ Unlink(p)
  <2>1. lock' = lock /\ pc[p] # "idle" /\ pc'[p] # "idle"
    BY <1>2 DEF Publish, Finish, ReadOwn, Unlink, Advance, LeaseInv, LeaseTypeOK
  <2>2. \A q \in Proc \ {p} : pc'[q] = pc[q]
    BY <1>2 DEF Publish, Finish, ReadOwn, Unlink, Advance, LeaseInv, LeaseTypeOK
  <2>. QED BY <2>1, <2>2
<1>3. CASE Unlock(p) \/ Crash(p)
  <2>1. pc[p] # "idle" /\ pc' = [pc EXCEPT ![p] = "idle"] /\ Free(p)
    BY <1>3 DEF Unlock, Crash, Advance
  <2>2. lock = p /\ lock' = Nobody /\ \A q \in Proc \ {p} : pc[q] = "idle"
    BY <2>1 DEF Free, LeaseInv, Owning
  <2>3. \A q \in Proc : pc'[q] = "idle"
    BY <2>1, <2>2 DEF LeaseInv, LeaseTypeOK
  <2>. QED BY <2>1, <2>2, <2>3 DEF Leave
<1>. QED BY <1>1, <1>2, <1>3 DEF Acquirer, WindDown

\* The lock of TickLease is the one TickLoop assumes: a tick enters it only
\* when nobody is inside, it gets it from nobody and keeps it until it unlocks
\* or dies, whatever status calls, failed writes and stale records there are.
THEOREM LeaseIsALock == LeaseSpec => LockSpec
<1>1. LeaseInit => LockInit
  BY LeaseActorsAssumption DEF LeaseInit, LockInit, Holder, Inside
<1>2. LeaseInv /\ [LeaseNext]_leaseVars => [\E p \in Proc : Enter(p) \/ Leave(p)]_<<Holder, Inside>>
  <2>. SUFFICES ASSUME LeaseInv, [LeaseNext]_leaseVars
                PROVE  (\E p \in Proc : Enter(p) \/ Leave(p)) \/ UNCHANGED <<Holder, Inside>>
    OBVIOUS
  <2>1. CASE UNCHANGED leaseVars
    BY <2>1 DEF leaseVars, Holder, Inside
  <2>2. ASSUME NEW o \in Obs, Observer(o) PROVE UNCHANGED <<Holder, Inside>>
    <3>1. pc' = pc /\ (lock' = lock \/ (lock \notin Proc /\ lock' \notin Proc))
      BY <2>2, LeaseActorsAssumption
         DEF Observer, StatusRead, StatusProbe, StatusDone, Free, LeaseInv, Owning
    <3>. QED BY <3>1 DEF Holder, Inside
  <2>. QED BY <2>1, <2>2, AcquirerLocks DEF LeaseNext
<1>. QED BY <1>1, <1>2, LeaseInvariant, PTL DEF LeaseSpec, LockSpec

(***************************************************************************)
(* The tree, for any number of workers: nothing of a dispatch outlives the *)
(* report of its end.  The argument is about the tree: who is present has  *)
(* a living father or the host's init, the workers' fatherhood has no      *)
(* cycle, and while the tick is a subreaper nobody gets away to init; so a *)
(* tree without children of the tick is empty.                             *)
(***************************************************************************)
Waiting == {"wait", "term", "kill", "restore"}    \* the tick is a subreaper

\* The tick and its place in the code.
TickLives ==
    /\ dad["P"] = "init"
    /\ at["P"] # "dead" => st["P"] = "live"
    /\ at["P"] = "dead" => st["P"] = "gone"
    /\ at["P"] = "start" => \A x \in Below : st[x] = "unborn"

\* Whoever is present has a living father, or the host's init.
Fathered == \A x \in Below : Present(x) => dad[x] = "init" \/ Live(dad[x])

\* L, S and N are each the child of the one before, until they are adopted.
Ranks ==
    /\ Present("L") => dad["L"] \in {"P", "init"}
    /\ Present("S") => dad["S"] \in {"L", "P", "init"}
    /\ Present("N") => dad["N"] \in {"S", "P", "init"}

\* Workers of a sealed dispatch live in the namespace of N.
Namespaced == SealOn => \A w \in Worker : Present(w) => Live("N")

\* No workers are each other's fathers in a circle.
Grounded ==
    \A W \in SUBSET Worker : W # {} /\ (\A w \in W : Present(w)) => \E w \in W : dad[w] \notin W

\* Orphans go to the tick while it is there to wait for them.
Adopts == at["P"] \in Waiting => \A x \in Below : Present(x) => dad[x] # "init"

\* The leader is the tick's child, and armed past its arming.
LeaderKnown ==
    /\ Present("L") /\ at["P"] # "dead" => dad["L"] = "P"
    /\ Live("L") /\ at["L"] # "arm" => "L" \in armed
    /\ st["L"] = "unborn" => at["L"] = "arm"

\* Past a clean-up that did not fail nobody is left.
Swept == at["P"] \in {"restore", "free"} /\ outcome # "unavailable" => \A x \in Below : ~Present(x)

TreeInv ==
    /\ TypeOK /\ TickLives /\ Fathered /\ Ranks /\ Namespaced /\ Grounded /\ Adopts
    /\ LeaderKnown /\ Swept /\ LeaseNotInherited /\ LeaderFollows

LEMMA NamesApart ==
    /\ {"P", "L", "S", "N"} \subseteq Procs /\ Worker \subseteq Procs /\ Below \subseteq Procs
    /\ "init" \notin Procs /\ "P" \notin Below
    /\ \A w \in Worker : w \notin {"P", "L", "S", "N", "init"}
BY WorkerAssumption DEF Procs, Below

\* A state of the tree only depends on who is present and whose child each is.
LEMMA KinLeft ==
    ASSUME Fathered, Ranks, Namespaced, Grounded, UNCHANGED <<st, dad>>, SealOn' = SealOn
    PROVE  Fathered' /\ Ranks' /\ Namespaced' /\ Grounded'
BY DEF Fathered, Ranks, Namespaced, Grounded, Present, Live

LEMMA BornKin ==
    ASSUME TypeOK, Fathered, Ranks, Namespaced, Grounded, SealOn' = SealOn,
           NEW x \in Below, NEW parent \in Procs, Born(x, parent),
           \/ x = "L" /\ parent = "P"
           \/ x = "S" /\ parent = "L"
           \/ x = "N" /\ parent = "S"
           \/ x \in Worker /\ parent \in Worker
           \/ x \in Worker /\ parent = (IF SealOn THEN "N" ELSE "L")
    PROVE  /\ Fathered' /\ Ranks' /\ Namespaced' /\ Grounded'
           /\ st' \in [Procs -> {"unborn", "live", "zombie", "gone"}]
           /\ dad' \in [Procs -> Procs \cup {"init"}] /\ grp' \in [Procs -> Procs]
           /\ holds' \subseteq Procs
<1> USE NamesApart
<1>1. /\ x \in Procs /\ st[x] = "unborn" /\ Live(parent) /\ x # parent
      /\ st' = [st EXCEPT ![x] = "live"] /\ dad' = [dad EXCEPT ![x] = parent]
  BY DEF Born, Runs, Live
<1>2. /\ st'[x] = "live" /\ dad'[x] = parent
      /\ \A c \in Procs : c # x => st'[c] = st[c] /\ dad'[c] = dad[c]
  BY <1>1 DEF TypeOK
<1>3. \A c \in Procs : (Live(c) => Live(c)') /\ (c # x /\ Present(c)' => Present(c))
  BY <1>1, <1>2 DEF Live, Present
<1>4. /\ st' \in [Procs -> {"unborn", "live", "zombie", "gone"}]
      /\ dad' \in [Procs -> Procs \cup {"init"}] /\ grp' \in [Procs -> Procs] /\ holds' \subseteq Procs
  BY <1>1 DEF TypeOK, Born
<1>5. Fathered'
  <2>1. \A c \in Below : c # x /\ Present(c)' => dad'[c] = "init" \/ st'[dad'[c]] = "live"
    BY <1>2, <1>3 DEF Fathered, Live, TypeOK
  <2>2. st'[dad'[x]] = "live" BY <1>1, <1>2, <1>3 DEF Live
  <2>. QED BY <2>1, <2>2 DEF Fathered, Live
<1>6. Ranks'
  BY <1>2, <1>3 DEF Ranks
<1>7. Namespaced'
  <2>1. ASSUME SealOn, NEW w \in Worker, Present(w)' PROVE Live("N")'
    <3>1. CASE w # x
      <4>1. Present(w) BY <1>3, <2>1, <3>1
      <4>2. Live("N") BY <2>1, <4>1 DEF Namespaced
      <4>. QED BY <1>3, <4>2
    <3>2. CASE w = x
      <4>1. parent = "N" \/ (parent \in Worker /\ Present(parent)) BY <1>1, <2>1, <3>2 DEF Present, Live
      <4>2. Live("N") BY <1>1, <2>1, <4>1 DEF Namespaced
      <4>. QED BY <1>3, <4>2
    <3>. QED BY <3>1, <3>2
  <2>. QED BY <2>1 DEF Namespaced
<1>8. Grounded'
  <2>1. ASSUME NEW W \in SUBSET Worker, W # {}, \A w \in W : Present(w)' PROVE \E w \in W : dad'[w] \notin W
    <3>1. CASE W = {x} BY <1>1, <1>2, <3>1
    <3>2. CASE W # {x}
      <4>1. W \ {x} # {} /\ \A w \in W \ {x} : Present(w) BY <1>3, <2>1, <3>2
      <4>2. PICK w \in W \ {x} : dad[w] \notin W \ {x} BY <4>1 DEF Grounded
      <4>3. dad[w] # x
        <5>1. dad[w] = "init" \/ Live(dad[w]) BY <4>1 DEF Fathered, Below
        <5>. QED BY <1>1, <5>1 DEF Live
      <4>. QED BY <1>2, <4>2, <4>3
    <3>. QED BY <3>1, <3>2
  <2>. QED BY <2>1 DEF Grounded
<1>. QED BY <1>4, <1>5, <1>6, <1>7, <1>8

LEMMA ReapedKin ==
    ASSUME TypeOK, Fathered, Ranks, Namespaced, Grounded, SealOn' = SealOn, UNCHANGED dad,
           NEW x \in Below, NEW parent, Reaped(x, parent)
    PROVE  /\ Fathered' /\ Ranks' /\ Namespaced' /\ Grounded'
           /\ st' \in [Procs -> {"unborn", "live", "zombie", "gone"}]
           /\ \A c \in Procs : (Live(c) <=> Live(c)') /\ (Present(c)' => Present(c))
                               /\ (st[c] = "unborn" <=> st'[c] = "unborn")
<1> USE NamesApart
<1>1. /\ st[x] = "zombie" /\ st' = [st EXCEPT ![x] = "gone"] /\ x \in Procs BY DEF Reaped
<1>2. st'[x] = "gone" /\ \A c \in Procs : c # x => st'[c] = st[c] BY <1>1 DEF TypeOK
<1>3. \A c \in Procs : (Live(c) <=> Live(c)') /\ (Present(c)' => Present(c)) /\ (st[c] = "unborn" <=> st'[c] = "unborn")
  BY <1>1, <1>2 DEF Live, Present
<1>4. st' \in [Procs -> {"unborn", "live", "zombie", "gone"}] BY <1>1 DEF TypeOK
<1>5. Fathered' BY <1>3 DEF Fathered, TypeOK
<1>6. Ranks' BY <1>3 DEF Ranks
<1>7. Namespaced' BY <1>3 DEF Namespaced
<1>8. Grounded' BY <1>3 DEF Grounded
<1>. QED BY <1>3, <1>4, <1>5, <1>6, <1>7, <1>8

LEMMA HeirIs ==
    ASSUME NEW x
    PROVE  /\ Heir(x) \in {"N", "P", "init"}
           /\ Heir(x) = "N" => SealOn /\ x \in Worker
           /\ Heir(x) = "P" => x # "P" /\ at["P"] \in Waiting
           /\ x # "P" /\ at["P"] \in Waiting => Heir(x) # "init"
BY DEF Heir, Waiting

\* Who dies at once when x does.
DiesWith(x) == {x} \cup (IF SealOn /\ x = "N" THEN {w \in Worker : Present(w)} ELSE {})

\* What the death of a process does to the tree: it takes the namespace of an
\* init with it, and the heir adopts who is left.
LEMMA FallsFacts ==
    ASSUME TypeOK, NEW x \in Procs, Falls(x), NEW dead, dead = DiesWith(x)
    PROVE  /\ st' \in [Procs -> {"unborn", "live", "zombie", "gone"}]
           /\ dad' \in [Procs -> Procs \cup {"init"}]
           /\ doomed' \subseteq Below /\ holds' = holds \ dead /\ UNCHANGED <<grp, armed, locked>>
           /\ \A c \in Procs : dad'[c] = IF c \notin dead /\ dad[c] \in dead /\ Present(c)
                                         THEN Heir(x) ELSE dad[c]
           /\ \A c \in Procs : c \notin dead /\ Live(c) => Live(c)'
           /\ \A c \in Procs : c \in dead => ~Live(c)' /\ (Present(c)' => c = x)
           /\ \A c \in Procs : (Present(c)' /\ c # x => Present(c)) /\ (Live(c)' => Live(c))
           /\ st'[x] = IF dad[x] = "init" THEN "gone" ELSE "zombie"
           /\ \A c \in Procs : st'[c] = "unborn" => st[c] = "unborn"
           /\ \A c \in doomed : c \notin dead => c \in doomed'
           /\ \A c \in armed : Live(c) /\ c \notin dead /\ dad[c] \in dead => c \in doomed'
<1> USE NamesApart
<1> DEFINE left == {c \in Procs \ dead : dad[c] \in dead /\ Present(c)}
<1>1. /\ st' = [c \in Procs |->
                     IF c = x THEN IF dad[x] = "init" THEN "gone" ELSE "zombie"
                     ELSE IF c \in dead \/ (c \in left /\ Heir(x) = "init" /\ ~Live(c)) THEN "gone"
                     ELSE st[c]]
      /\ dad' = [c \in Procs |-> IF c \in left THEN Heir(x) ELSE dad[c]]
      /\ doomed' = (doomed \cup {c \in left \cap armed : Live(c)}) \ dead
      /\ holds' = holds \ dead /\ UNCHANGED <<grp, armed, locked>>
  BY DEF Falls, DiesWith
<1>2. st' \in [Procs -> {"unborn", "live", "zombie", "gone"}] BY <1>1 DEF TypeOK
<1>3. dad' \in [Procs -> Procs \cup {"init"}]
  <2>1. Heir(x) \in Procs \cup {"init"} BY HeirIs
  <2>. QED BY <1>1, <2>1 DEF TypeOK
<1>4. doomed' \subseteq Below BY <1>1 DEF TypeOK
<1>5. \A c \in Procs : dad'[c] = IF c \notin dead /\ dad[c] \in dead /\ Present(c) THEN Heir(x) ELSE dad[c]
  BY <1>1
<1>0. x \in dead BY DEF DiesWith
<1>6. \A c \in Procs : c \notin dead /\ Live(c) => Live(c)' BY <1>0, <1>1 DEF Live
<1>7. \A c \in Procs : c \in dead => ~Live(c)' /\ (Present(c)' => c = x) BY <1>1 DEF Live, Present
<1>8. \A c \in Procs : (Present(c)' /\ c # x => Present(c)) /\ (Live(c)' => Live(c)) BY <1>1 DEF Live, Present
<1>9. st'[x] = IF dad[x] = "init" THEN "gone" ELSE "zombie" BY <1>1
<1>10. \A c \in Procs : st'[c] = "unborn" => st[c] = "unborn" BY <1>1
<1>11. /\ \A c \in doomed : c \notin dead => c \in doomed'
       /\ \A c \in armed : Live(c) /\ c \notin dead /\ dad[c] \in dead => c \in doomed'
  BY <1>1 DEF TypeOK, Present, Live
<1>. QED BY <1>1, <1>2, <1>3, <1>4, <1>5, <1>6, <1>7, <1>8, <1>9, <1>10, <1>11

LEMMA FallsKin ==
    ASSUME TypeOK, TickLives, Fathered, Ranks, Namespaced, Grounded, SealOn' = SealOn,
           NEW x \in Procs, Live(x), Falls(x)
    PROVE  Fathered' /\ Ranks' /\ Namespaced' /\ Grounded'
<1> USE NamesApart
<1>0. PICK dead : /\ dead = DiesWith(x)
                  /\ dead = {x} \cup (IF SealOn /\ x = "N" THEN {w \in Worker : Present(w)} ELSE {})
  BY DEF DiesWith
<1>1. /\ \A c \in Procs : dad'[c] = IF c \notin dead /\ dad[c] \in dead /\ Present(c)
                                    THEN Heir(x) ELSE dad[c]
      /\ \A c \in Procs : c \notin dead /\ Live(c) => Live(c)'
      /\ \A c \in Procs : c \in dead => ~Live(c)' /\ (Present(c)' => c = x)
      /\ \A c \in Procs : Present(c)' => Present(c)
      /\ dad \in [Procs -> Procs \cup {"init"}]
  <2>1. Present(x) BY DEF Live, Present
  <2>2. /\ \A c \in Procs : dad'[c] = IF c \notin dead /\ dad[c] \in dead /\ Present(c)
                                    THEN Heir(x) ELSE dad[c]
        /\ \A c \in Procs : c \notin dead /\ Live(c) => Live(c)'
        /\ \A c \in Procs : c \in dead => ~Live(c)' /\ (Present(c)' => c = x)
        /\ \A c \in Procs : Present(c)' /\ c # x => Present(c)
    BY <1>0, FallsFacts
  <2>. QED BY <2>1, <2>2 DEF TypeOK
<1>2. x \in dead /\ Present(x) BY <1>0 DEF Live, Present
<1>3. dead \subseteq Procs /\ "init" \notin dead /\ ("P" \in dead => x = "P")
      /\ ("N" \in dead => x = "N") /\ ("L" \in dead => x = "L") /\ ("S" \in dead => x = "S")
  BY <1>0
<1>4. Fathered'
  <2> SUFFICES ASSUME NEW c \in Below, Present(c)' PROVE dad'[c] = "init" \/ st'[dad'[c]] = "live"
    BY DEF Fathered, Live
  <2>0. Present(c) /\ c \in Procs /\ (dad[c] = "init" \/ Live(dad[c])) BY <1>1 DEF Fathered
  <2>1. CASE c \notin dead /\ dad[c] \in dead
    <3>1. dad'[c] = Heir(x) BY <1>1, <2>0, <2>1
    <3>2. CASE Heir(x) = "N"
      <4>1. x \in Worker /\ Live("N") BY <1>2, <3>2, HeirIs DEF Namespaced
      <4>2. "N" \notin dead BY <1>3, <4>1
      <4>. QED BY <1>1, <3>1, <3>2, <4>1, <4>2 DEF Live
    <3>3. CASE Heir(x) = "P"
      <4>1. x # "P" /\ Live("P") BY <3>3, HeirIs DEF TickLives, Live, Waiting
      <4>2. "P" \notin dead BY <1>3, <4>1
      <4>. QED BY <1>1, <3>1, <3>3, <4>1, <4>2 DEF Live
    <3>. QED BY <3>1, <3>2, <3>3, HeirIs
  <2>2. CASE c \notin dead /\ dad[c] \notin dead
    <3>1. dad'[c] = dad[c] BY <1>1, <2>0, <2>2
    <3>. QED BY <1>1, <2>0, <2>2, <3>1 DEF Live
  <2>3. CASE c \in dead
    <3>1. c = x /\ dad'[c] = dad[c] BY <1>1, <2>0, <2>3
    <3>2. dad[x] \notin dead
      <4>1. CASE x \in {"L", "S", "N"} BY <1>0, <1>2, <4>1 DEF Ranks
      <4>2. CASE x \in Worker
        <5>1. dad[x] # x
          <6>1. {x} \in SUBSET Worker /\ {x} # {} /\ \A w \in {x} : Present(w) BY <1>2, <4>2
          <6>2. \E w \in {x} : dad[w] \notin {x} BY <6>1 DEF Grounded
          <6>. QED BY <6>2
        <5>. QED BY <1>0, <4>2, <5>1
      <4>. QED BY <3>1, <4>1, <4>2 DEF Below
    <3>. QED BY <1>1, <2>0, <3>1, <3>2 DEF Live
  <2>. QED BY <2>1, <2>2, <2>3
<1>5. Ranks'
  <2>1. Present("L")' => dad'["L"] \in {"P", "init"}
    BY <1>1, <1>3, HeirIs DEF Ranks
  <2>2. Present("S")' => dad'["S"] \in {"L", "P", "init"}
    BY <1>1, <1>3, HeirIs DEF Ranks
  <2>3. Present("N")' => dad'["N"] \in {"S", "P", "init"}
    BY <1>1, <1>3, HeirIs DEF Ranks
  <2>. QED BY <2>1, <2>2, <2>3 DEF Ranks
<1>6. Namespaced'
  <2> SUFFICES ASSUME SealOn, NEW w \in Worker, Present(w)' PROVE Live("N")' BY DEF Namespaced
  <2>1. Present(w) /\ Live("N") BY <1>1 DEF Namespaced
  <2>2. "N" \notin dead
    <3> SUFFICES ASSUME "N" \in dead PROVE FALSE OBVIOUS
    <3>1. x = "N" /\ w \in dead BY <1>0, <1>3, <2>1
    <3>. QED BY <1>1, <3>1
  <2>. QED BY <1>1, <2>1, <2>2
<1>7. Grounded'
  <2> SUFFICES ASSUME NEW W \in SUBSET Worker, W # {}, \A w \in W : Present(w)'
      PROVE  \E w \in W : dad'[w] \notin W
    BY DEF Grounded
  <2>1. \A w \in W : Present(w) BY <1>1
  <2>2. PICK w \in W : dad[w] \notin W BY <2>1 DEF Grounded
  <2>3. dad'[w] \in {dad[w], Heir(x)} BY <1>1
  <2>4. Heir(x) \notin W BY HeirIs
  <2>. QED BY <2>2, <2>3, <2>4
<1>. QED BY <1>4, <1>5, <1>6, <1>7

(***************************************************************************)
(* Deaths                                                                  *)
(***************************************************************************)
LEMMA BelowFalls ==
    ASSUME TreeInv, NEW x \in Below, Live(x), Falls(x), UNCHANGED <<at, known, outcome>>,
           ready' \in {"none", "0", "1", "2"}
    PROVE  TreeInv'
<1> USE NamesApart DEF TreeInv
<1>0. PICK dead : /\ dead = DiesWith(x)
                  /\ dead = {x} \cup (IF SealOn /\ x = "N" THEN {w \in Worker : Present(w)} ELSE {})
  BY DEF DiesWith
<1>1. /\ st' \in [Procs -> {"unborn", "live", "zombie", "gone"}]
      /\ dad' \in [Procs -> Procs \cup {"init"}]
      /\ doomed' \subseteq Below /\ holds' = holds \ dead /\ UNCHANGED <<grp, armed, locked>>
      /\ \A c \in Procs : dad'[c] = IF c \notin dead /\ dad[c] \in dead /\ Present(c)
                                    THEN Heir(x) ELSE dad[c]
      /\ \A c \in Procs : c \notin dead /\ Live(c) => Live(c)'
      /\ \A c \in Procs : c \in dead => ~Live(c)'
      /\ \A c \in Procs : (Present(c)' /\ c # x => Present(c)) /\ (Live(c)' => Live(c))
      /\ \A c \in Procs : st'[c] = "unborn" => st[c] = "unborn"
      /\ \A c \in doomed : c \notin dead => c \in doomed'
  BY <1>0, FallsFacts
<1>2. Present(x) /\ x \in dead /\ "P" \notin dead /\ "init" \notin dead /\ SealOn' = SealOn
  BY <1>0 DEF Live, Present, SealOn
<1>3. Fathered' /\ Ranks' /\ Namespaced' /\ Grounded' BY <1>2, FallsKin
<1>4. TypeOK' BY <1>1 DEF TypeOK
<1>5. TickLives'
  <2>1. dad'["P"] = "init" BY <1>1, <1>2 DEF TickLives
  <2>2. at["P"] # "start" BY DEF TickLives, Live
  <2>3. at["P"] # "dead" => st'["P"] = "live" BY <1>1, <1>2 DEF TickLives, Live
  <2>4. ASSUME at["P"] = "dead" PROVE st'["P"] = "gone"
    <3>1. st["P"] = "gone" BY <2>4 DEF TickLives
    <3>2. ~Present("P")' BY <1>1, <1>2, <3>1 DEF Present
    <3>3. st'["P"] # "unborn" BY <1>1, <3>1
    <3>. QED BY <1>1, <3>2, <3>3 DEF Present
  <2>. QED BY <2>1, <2>2, <2>3, <2>4 DEF TickLives
<1>6. Adopts'
  <2>1. ASSUME at["P"] \in Waiting, NEW c \in Below, Present(c)' PROVE dad'[c] # "init"
    <3>1. Present(c) /\ dad[c] # "init" BY <1>1, <1>2, <2>1 DEF Adopts
    <3>2. Heir(x) # "init" BY <2>1, HeirIs
    <3>. QED BY <1>1, <3>1, <3>2
  <2>. QED BY <2>1 DEF Adopts
<1>7. LeaderKnown'
  <2>1. Present("L")' => Present("L") BY <1>1, <1>2
  <2>2. Present("L")' /\ at["P"] # "dead" => dad'["L"] = "P"
    BY <1>1, <1>2, <2>1 DEF LeaderKnown
  <2>. QED BY <1>1, <2>2 DEF LeaderKnown
<1>8. Swept' BY <1>1, <1>2 DEF Swept
<1>9. LeaseNotInherited' BY <1>1 DEF LeaseNotInherited
<1>10. LeaderFollows' BY <1>1 DEF LeaderFollows
<1>. QED BY <1>3, <1>4, <1>5, <1>6, <1>7, <1>8, <1>9, <1>10

LEMMA TickFalls == ASSUME TreeInv, Dies PROVE TreeInv'
<1> USE NamesApart DEF TreeInv
<1>0. PICK dead : dead = DiesWith("P") /\ dead = {"P"} BY DEF DiesWith
<1>1. /\ st' \in [Procs -> {"unborn", "live", "zombie", "gone"}]
      /\ dad' \in [Procs -> Procs \cup {"init"}]
      /\ doomed' \subseteq Below /\ holds' = holds \ dead /\ UNCHANGED <<grp, armed, locked>>
      /\ \A c \in Procs : dad'[c] = IF c \notin dead /\ dad[c] \in dead /\ Present(c)
                                    THEN Heir("P") ELSE dad[c]
      /\ \A c \in Procs : c \in dead => ~Live(c)'
      /\ \A c \in Procs : Live(c)' => Live(c)
      /\ st'["P"] = IF dad["P"] = "init" THEN "gone" ELSE "zombie"
      /\ \A c \in Procs : st'[c] = "unborn" => st[c] = "unborn"
      /\ \A c \in armed : Live(c) /\ c \notin dead /\ dad[c] \in dead => c \in doomed'
  BY <1>0, FallsFacts DEF Dies
<1>2. Live("P") /\ at' = [at EXCEPT !["P"] = "dead"] /\ UNCHANGED report /\ at["P"] # "dead"
  BY DEF Dies, TickLives, Live
<1>3. at'["P"] = "dead" /\ at'["L"] = at["L"] /\ SealOn' = SealOn
  BY <1>2 DEF TypeOK, SealOn
<1>4. Fathered' /\ Ranks' /\ Namespaced' /\ Grounded' BY <1>2, <1>3, FallsKin DEF Dies
<1>5. TypeOK' BY <1>1, <1>2 DEF TypeOK, report
<1>6. TickLives' BY <1>0, <1>1, <1>3 DEF TickLives
<1>7. Adopts' /\ Swept' BY <1>3 DEF Adopts, Swept, Waiting
<1>8. LeaderKnown' BY <1>1, <1>3 DEF LeaderKnown
<1>9. LeaseNotInherited' BY <1>1, <1>3 DEF LeaseNotInherited
<1>10. LeaderFollows'
  <2> SUFFICES ASSUME Live("L")', at["L"] # "arm" PROVE "L" \in doomed' BY <1>3 DEF LeaderFollows
  <2>1. Live("L") /\ dad["L"] = "P" /\ "L" \in armed BY <1>1, <1>2 DEF LeaderKnown, Live, Present
  <2>. QED BY <1>0, <1>1, <2>1
<1>. QED BY <1>4, <1>5, <1>6, <1>7, <1>8, <1>9, <1>10

(***************************************************************************)
(* The tick's own steps                                                    *)
(***************************************************************************)
\* A step that leaves processes alone and moves nobody but the tick.
LEMMA TickMoves ==
    ASSUME TreeInv, UNCHANGED <<st, dad, grp, armed>>, doomed \subseteq doomed', doomed' \subseteq Below,
           holds' \subseteq holds, TypeOK', \A a \in {"L", "S", "N"} : at'[a] = at[a],
           at["P"] # "dead", at'["P"] # "dead", at'["P"] # "start" \/ at["P"] = "start",
           at'["P"] \in Waiting => at["P"] \in Waiting \/ \A x \in Below : ~Present(x),
           at'["P"] \in {"restore", "free"} /\ outcome' # "unavailable" => \A x \in Below : ~Present(x)
    PROVE  TreeInv'
<1> USE DEF TreeInv, Present, Live
<1>1. SealOn' = SealOn BY DEF SealOn
<1>2. Fathered' /\ Ranks' /\ Namespaced' /\ Grounded' BY <1>1, KinLeft
<1>3. TickLives' BY DEF TickLives
<1>4. Adopts' BY DEF Adopts
<1>5. LeaderKnown' BY DEF LeaderKnown
<1>6. Swept' BY DEF Swept
<1>7. LeaseNotInherited' BY DEF LeaseNotInherited
<1>8. LeaderFollows' BY DEF LeaderFollows
<1>. QED BY <1>2, <1>3, <1>4, <1>5, <1>6, <1>7, <1>8

\* With nothing left to wait for nobody below is present: the first of a line
\* would be a child of the tick.
LEMMA NothingRemains ==
    ASSUME TreeInv, at["P"] \in Waiting, ~Remains PROVE \A x \in Below : ~Present(x)
<1> USE NamesApart DEF TreeInv
<1>1. ~Present("L") /\ \A x \in Below \ {"L"} : Present(x) => dad[x] # "P"
  BY DEF Remains, Adopted, Present
<1>2. \A x \in Below : Present(x) => dad[x] # "init" /\ dad[x] # "P" /\ Live(dad[x])
  BY <1>1 DEF Adopts, Fathered
<1>3. ~Present("S")
  <2>1. Present("S") => dad["S"] = "L" /\ Live("L") BY <1>2 DEF Ranks, Below
  <2>. QED BY <1>1, <2>1 DEF Live, Present
<1>4. ~Present("N")
  <2>1. Present("N") => dad["N"] = "S" /\ Live("S") BY <1>2 DEF Ranks, Below
  <2>. QED BY <1>3, <2>1 DEF Live, Present
<1>5. \A x \in Worker : ~Present(x)
  <2> SUFFICES ASSUME NEW x \in Worker, Present(x) PROVE FALSE OBVIOUS
  <2>1. PICK W \in SUBSET Worker : W = {w \in Worker : Present(w)} OBVIOUS
  <2>2. PICK w \in W : dad[w] \notin W BY <2>1 DEF Grounded
  <2>3. w \in Worker /\ Present(w) BY <2>1, <2>2
  <2>4. Live(dad[w]) /\ dad[w] \in Procs /\ dad[w] # "P"
    BY <1>2, <2>3 DEF TypeOK, Below
  <2>5. Present(dad[w]) BY <2>4 DEF Live, Present
  <2>. QED BY <1>1, <1>3, <1>4, <2>1, <2>2, <2>4, <2>5 DEF Procs, Below
<1>. QED BY <1>1, <1>3, <1>4, <1>5 DEF Below

LEMMA TickSteps == ASSUME TreeInv, Tick PROVE TreeInv'
<1> USE NamesApart DEF Goto, Runs, kin, lease, report
<1>0. TypeOK /\ TickLives BY DEF TreeInv
<1>1. CASE Fork
  <2>1. /\ at["P"] = "start" /\ at' = [at EXCEPT !["P"] = "wait"] /\ Born("L", "P")
        /\ UNCHANGED <<armed, doomed, locked, ready, known, outcome>>
    BY <1>1 DEF Fork, Born
  <2>2. at'["P"] = "wait" /\ at'["L"] = at["L"] /\ SealOn' = SealOn BY <1>0, <2>1 DEF TypeOK, SealOn
  <2>3. /\ Fathered' /\ Ranks' /\ Namespaced' /\ Grounded'
        /\ st' \in [Procs -> {"unborn", "live", "zombie", "gone"}]
        /\ dad' \in [Procs -> Procs \cup {"init"}] /\ grp' \in [Procs -> Procs] /\ holds' \subseteq Procs
    BY <2>1, <2>2, BornKin DEF TreeInv, Below
  <2>4. TypeOK' BY <1>0, <2>1, <2>3 DEF TypeOK
  <2>5. /\ \A x \in Procs : x # "L" => st'[x] = st[x] /\ dad'[x] = dad[x]
        /\ st'["L"] = "live" /\ dad'["L"] = "P" /\ holds' \subseteq holds \cup {"L"}
        /\ st["L"] = "unborn" /\ st["P"] = "live"
    BY <1>0, <2>1 DEF Born, TypeOK, TickLives, Live
  <2>6. TickLives' BY <1>0, <2>1, <2>2, <2>5 DEF TickLives
  <2>7. \A x \in Below : x # "L" => ~Present(x)' BY <1>0, <2>1, <2>5 DEF TickLives, Present
  <2>8. Adopts' BY <2>5, <2>7 DEF Adopts
  <2>9. at["L"] = "arm" BY <2>5 DEF TreeInv, LeaderKnown
  <2>10. LeaderKnown' BY <2>2, <2>5, <2>9 DEF LeaderKnown
  <2>11. Swept' /\ LeaderFollows' BY <2>2 DEF Swept, LeaderFollows
  <2>12. LeaseNotInherited' BY <2>2, <2>5, <2>9 DEF TreeInv, LeaseNotInherited
  <2>. QED BY <2>3, <2>4, <2>6, <2>8, <2>10, <2>11, <2>12 DEF TreeInv
<1>2. CASE ForkFails
  <2>1. /\ at["P"] = "start" /\ at' = [at EXCEPT !["P"] = "restore"] /\ outcome' = "failed"
        /\ UNCHANGED <<kin, lease, ready, known>>
    BY <1>2 DEF ForkFails
  <2>2. TypeOK' BY <1>0, <2>1 DEF TypeOK
  <2>3. \A x \in Below : ~Present(x) BY <1>0, <2>1 DEF TickLives, Present
  <2>. QED BY <1>0, <2>1, <2>2, <2>3, TickMoves DEF TypeOK
<1>3. CASE ReadReady
  <2>1. /\ at["P"] = "wait" /\ UNCHANGED <<kin, lease, ready>> /\ known' \in BOOLEAN
        /\ at' = at \/ at' = [at EXCEPT !["P"] = "term"]
        /\ outcome' \in {outcome, "failed"}
    BY <1>3 DEF ReadReady
  <2>2. TypeOK' BY <1>0, <2>1 DEF TypeOK
  <2>3. at'["P"] \in {"wait", "term"} /\ \A a \in {"L", "S", "N"} : at'[a] = at[a]
    BY <1>0, <2>1 DEF TypeOK
  <2>. QED BY <1>0, <2>1, <2>2, <2>3, TickMoves DEF TypeOK, Waiting
<1>4. CASE StopWaiting
  <2>1. /\ at["P"] = "wait" /\ UNCHANGED <<kin, lease, ready>> /\ known' \in BOOLEAN
        /\ at' = [at EXCEPT !["P"] = "term"]
        /\ outcome' \in {"result", "failed", "timeout", "cancelled"}
    BY <1>0, <1>4 DEF StopWaiting, TypeOK
  <2>2. TypeOK' BY <1>0, <2>1 DEF TypeOK
  <2>3. at'["P"] = "term" /\ \A a \in {"L", "S", "N"} : at'[a] = at[a]
    BY <1>0, <2>1 DEF TypeOK
  <2>. QED BY <1>0, <2>1, <2>2, <2>3, TickMoves DEF TypeOK, Waiting
<1>5. CASE BeginKill
  <2>1. /\ at["P"] = "term" /\ UNCHANGED <<st, dad, grp, armed, lease, report>>
        /\ at' = [at EXCEPT !["P"] = "kill"] /\ doomed \subseteq doomed' /\ doomed' \subseteq Below
    BY <1>0, <1>5 DEF BeginKill, TypeOK
  <2>2. TypeOK' BY <1>0, <2>1 DEF TypeOK
  <2>3. at'["P"] = "kill" /\ \A a \in {"L", "S", "N"} : at'[a] = at[a]
    BY <1>0, <2>1 DEF TypeOK
  <2>. QED BY <1>0, <2>1, <2>2, <2>3, TickMoves DEF TypeOK, Waiting
<1>6. CASE Sweep
  <2>1. /\ at["P"] = "kill" /\ UNCHANGED <<st, dad, grp, armed, lease, at, report>>
        /\ doomed \subseteq doomed' /\ doomed' \subseteq Below
    BY <1>0, <1>6 DEF Sweep, TypeOK
  <2>2. TypeOK' BY <1>0, <2>1 DEF TypeOK
  <2>. QED BY <1>0, <2>1, <2>2, TickMoves DEF TypeOK, Waiting
<1>7. CASE ReapBelow
  <2>1. PICK x \in Below : Reaped(x, "P") BY <1>7 DEF ReapBelow
  <2>2. /\ at["P"] \in {"term", "kill"} /\ UNCHANGED <<dad, grp, armed, doomed, lease, at, report>>
        /\ SealOn' = SealOn
    BY <1>7 DEF ReapBelow, SealOn
  <2>3. /\ Fathered' /\ Ranks' /\ Namespaced' /\ Grounded'
        /\ st' \in [Procs -> {"unborn", "live", "zombie", "gone"}]
        /\ \A c \in Procs : (Live(c) <=> Live(c)') /\ (Present(c)' => Present(c))
                            /\ (st[c] = "unborn" <=> st'[c] = "unborn")
    BY <2>1, <2>2, ReapedKin DEF TreeInv
  <2>4. TypeOK' BY <1>0, <2>2, <2>3 DEF TypeOK
  <2>5. TickLives' BY <1>0, <2>2, <2>3 DEF TickLives, Live
  <2>6. Adopts' /\ LeaderKnown' /\ Swept' BY <2>2, <2>3 DEF TreeInv, Adopts, LeaderKnown, Swept
  <2>7. LeaseNotInherited' /\ LeaderFollows'
    BY <2>2, <2>3 DEF TreeInv, LeaseNotInherited, LeaderFollows
  <2>. QED BY <2>3, <2>4, <2>5, <2>6, <2>7 DEF TreeInv
<1>8. CASE CleanedUp
  <2>1. /\ at["P"] \in {"term", "kill"} /\ UNCHANGED <<kin, lease, report>> /\ ~Remains
        /\ at' = [at EXCEPT !["P"] = "restore"]
    BY <1>8 DEF CleanedUp
  <2>2. \A x \in Below : ~Present(x) BY <2>1, NothingRemains DEF Waiting
  <2>3. TypeOK' BY <1>0, <2>1 DEF TypeOK
  <2>. QED BY <1>0, <2>1, <2>2, <2>3, TickMoves DEF TypeOK
<1>9. CASE CleanUpFails
  <2>1. /\ at["P"] = "kill" /\ UNCHANGED <<kin, lease, ready, known>> /\ outcome' = "unavailable"
        /\ at' = [at EXCEPT !["P"] = "restore"]
    BY <1>9 DEF CleanUpFails
  <2>2. TypeOK' BY <1>0, <2>1 DEF TypeOK
  <2>. QED BY <1>0, <2>1, <2>2, TickMoves DEF TypeOK, Waiting
<1>10. CASE Release
  <2>1. /\ at["P"] = "restore" /\ UNCHANGED <<kin, report>> /\ holds' \subseteq holds
        /\ at' = [at EXCEPT !["P"] = "free"] /\ locked' = FALSE
    BY <1>10 DEF Release
  <2>2. TypeOK' BY <1>0, <2>1 DEF TypeOK
  <2>3. at'["P"] = "free" /\ \A a \in {"L", "S", "N"} : at'[a] = at[a]
    BY <1>0, <2>1 DEF TypeOK
  <2>. QED BY <1>0, <2>1, <2>2, <2>3, TickMoves DEF TypeOK, TreeInv, Swept, Waiting
<1>. QED BY <1>1, <1>2, <1>3, <1>4, <1>5, <1>6, <1>7, <1>8, <1>9, <1>10 DEF Tick

(***************************************************************************)
(* The leader, the seal and the function                                   *)
(***************************************************************************)
\* One of the four goes to another place in its code.
Moves(x, to) ==
    /\ at' \in [{"P", "L", "S", "N"} ->
               {"start", "wait", "term", "kill", "restore", "free", "dead",
                "arm", "setsid", "close", "ready", "fn", "seal", "sealkill", "unshare", "parked", "off"}]
    /\ at'[x] = to /\ \A a \in {"P", "L", "S", "N"} : a # x => at'[a] = at[a]

\* A step that leaves processes alone and moves L, S or N within their code.
LEMMA CodeMoves ==
    ASSUME TreeInv, UNCHANGED <<st, dad, known, outcome>>, grp' \in [Procs -> Procs],
           armed \subseteq armed', armed' \subseteq Below, doomed \subseteq doomed', doomed' \subseteq Below,
           holds' \subseteq holds, UNCHANGED locked, ready' \in {"none", "0", "1", "2"},
           NEW x \in {"L", "S", "N"}, NEW to \in {"setsid", "close", "ready", "fn", "seal", "sealkill",
                                                  "unshare", "wait", "parked"},
           at[x] # "off", Moves(x, to),
           x = "L" => /\ at["L"] # "arm" \/ ("L" \in armed' /\ dad["L"] = "P")
                      /\ "L" \in holds' => to \in {"setsid", "close"}
                      /\ st["L"] # "unborn"
    PROVE  TreeInv'
<1> USE NamesApart DEF TreeInv, Present, Live
<1>1. at'[x] = to /\ \A a \in {"P", "L", "S", "N"} : a # x => at'[a] = at[a] BY DEF Moves
<1>2. SealOn' = SealOn BY <1>1 DEF SealOn
<1>3. Fathered' /\ Ranks' /\ Namespaced' /\ Grounded' BY <1>2, KinLeft
<1>4. TypeOK' BY DEF TypeOK, Moves
<1>5. TickLives' BY <1>1 DEF TickLives
<1>6. Adopts' /\ Swept' BY <1>1 DEF Adopts, Swept
<1>7. LeaderKnown'
  <2>1. Live("L") /\ at'["L"] # "arm" => "L" \in armed' BY <1>1 DEF LeaderKnown
  <2>2. st["L"] = "unborn" => at'["L"] = "arm" BY <1>1 DEF LeaderKnown
  <2>. QED BY <1>1, <2>1, <2>2 DEF LeaderKnown
<1>8. LeaseNotInherited'
  <2>1. \A h \in holds' : h = "P" \/ (h = "L" /\ at'["L"] \in {"arm", "setsid", "close"})
    BY <1>1 DEF LeaseNotInherited
  <2>. QED BY <2>1 DEF LeaseNotInherited
<1>9. LeaderFollows'
  <2>1. CASE x = "L"
    <3>1. CASE at["L"] # "arm" BY <1>1, <3>1 DEF LeaderFollows
    <3>2. CASE dad["L"] = "P" /\ st["L"] = "live"
      <4>1. st["P"] = "live" BY <3>2 DEF Fathered, Below
      <4>. QED BY <1>1, <2>1, <4>1 DEF TickLives, LeaderFollows
    <3>3. CASE st["L"] # "live" BY <3>3 DEF LeaderFollows
    <3>. QED BY <2>1, <3>1, <3>2, <3>3
  <2>2. CASE x # "L" BY <1>1, <2>2 DEF LeaderFollows
  <2>. QED BY <2>1, <2>2
<1>. QED BY <1>3, <1>4, <1>5, <1>6, <1>7, <1>8, <1>9

\* A process forks S, N or a worker; the leader holds no lease any more.
LEMMA BelowBorn ==
    ASSUME TreeInv, NEW x \in Below \ {"L"}, NEW parent \in Below, Born(x, parent), UNCHANGED <<report>>,
           \/ x = "S" /\ parent = "L"
           \/ x = "N" /\ parent = "S"
           \/ x \in Worker /\ parent \in Worker
           \/ x \in Worker /\ parent = (IF SealOn THEN "N" ELSE "L"),
           parent = "L" => at["L"] \in {"fn", "seal", "parked"},
           at' \in [{"P", "L", "S", "N"} ->
               {"start", "wait", "term", "kill", "restore", "free", "dead",
                "arm", "setsid", "close", "ready", "fn", "seal", "sealkill", "unshare", "parked", "off"}],
           at'["P"] = at["P"], SealOn' = SealOn,
           at'["L"] = at["L"] \/ (at["L"] = "fn" /\ at'["L"] = "seal")
    PROVE  TreeInv'
<1> USE NamesApart DEF TreeInv
<1>1. /\ Fathered' /\ Ranks' /\ Namespaced' /\ Grounded'
      /\ st' \in [Procs -> {"unborn", "live", "zombie", "gone"}]
      /\ dad' \in [Procs -> Procs \cup {"init"}] /\ grp' \in [Procs -> Procs] /\ holds' \subseteq Procs
  BY BornKin
<1>2. /\ UNCHANGED <<armed, doomed, locked, ready, known, outcome>>
      /\ st' = [st EXCEPT ![x] = "live"] /\ dad' = [dad EXCEPT ![x] = parent]
      /\ holds' = IF parent \in holds THEN holds \cup {x} ELSE holds
      /\ Live(parent) /\ st[x] = "unborn" /\ x \in Procs
  BY DEF Born, Runs, report
<1>3. /\ st'[x] = "live" /\ dad'[x] = parent /\ parent # "init" /\ parent # "P"
      /\ \A c \in Procs : c # x => st'[c] = st[c] /\ dad'[c] = dad[c]
  BY <1>2 DEF TypeOK
<1>4. TypeOK' BY <1>1, <1>2 DEF TypeOK
<1>5. Present(parent) /\ at["P"] # "start" BY <1>2 DEF TickLives, Live, Present
<1>6. TickLives' BY <1>3, <1>5 DEF TickLives
<1>7. Adopts'
  <2>1. at["P"] \in Waiting => \A c \in Below : c # x /\ Present(c)' => dad'[c] # "init"
    BY <1>3 DEF Adopts, Present
  <2>. QED BY <1>3, <2>1 DEF Adopts
<1>8. LeaderKnown' BY <1>2, <1>3 DEF LeaderKnown, Present, Live
<1>9. Swept' BY <1>2, <1>5 DEF Swept
<1>10. LeaseNotInherited'
  <2>1. parent \notin holds BY DEF LeaseNotInherited
  <2>2. \A h \in holds : at["L"] = "fn" => h = "P" BY DEF LeaseNotInherited
  <2>. QED BY <1>2, <2>1, <2>2 DEF LeaseNotInherited
<1>11. LeaderFollows' BY <1>2, <1>3 DEF LeaderFollows, Live
<1>. QED BY <1>1, <1>4, <1>6, <1>7, <1>8, <1>9, <1>10, <1>11

LEMMA ReapedInv ==
    ASSUME TreeInv, NEW x \in Below, NEW parent, Reaped(x, parent),
           UNCHANGED <<dad, grp, armed, doomed, lease, report>>,
           at' = at \/ (at["L"] = "sealkill" /\ at' = [at EXCEPT !["L"] = "parked"])
    PROVE  TreeInv'
<1> USE NamesApart DEF TreeInv, lease, report
<1>1. /\ \A a \in {"P", "S", "N"} : at'[a] = at[a]
      /\ at'["L"] = at["L"] \/ (at["L"] = "sealkill" /\ at'["L"] = "parked")
  BY DEF TypeOK
<1>2. SealOn' = SealOn BY <1>1 DEF SealOn
<1>3. /\ Fathered' /\ Ranks' /\ Namespaced' /\ Grounded'
      /\ st' \in [Procs -> {"unborn", "live", "zombie", "gone"}]
      /\ \A c \in Procs : (Live(c) <=> Live(c)') /\ (Present(c)' => Present(c))
                          /\ (st[c] = "unborn" <=> st'[c] = "unborn")
  BY <1>2, ReapedKin
<1>4. TypeOK' BY <1>3 DEF TypeOK
<1>5. TickLives'
  <2>1. x # "P" /\ st' = [st EXCEPT ![x] = "gone"] BY DEF Reaped
  <2>2. st'["P"] = st["P"] BY <2>1 DEF TypeOK
  <2>. QED BY <1>1, <1>3, <2>2 DEF TickLives
<1>6. Adopts' /\ Swept' BY <1>1, <1>3 DEF Adopts, Swept
<1>7. LeaderKnown' BY <1>1, <1>3 DEF LeaderKnown
<1>8. LeaseNotInherited' BY <1>1 DEF LeaseNotInherited
<1>9. LeaderFollows' BY <1>1, <1>3 DEF LeaderFollows
<1>. QED BY <1>3, <1>4, <1>5, <1>6, <1>7, <1>8, <1>9

LEMMA LeaderSteps == ASSUME TreeInv, Leader PROVE TreeInv'
<1> USE NamesApart DEF Goto, Runs, kin, lease, report
<1>0. /\ TypeOK /\ {"L", "S", "N"} \subseteq Below
      /\ at["L"] \in {"setsid", "close"} => "L" \in Below
  BY DEF TreeInv, Below
<1>1. CASE LeaderArm
  <2>1. CASE dad["L"] = "P"
    <3>1. /\ Live("L") /\ at["L"] = "arm" /\ at' = [at EXCEPT !["L"] = "setsid"] /\ dad["L"] = "P"
          /\ armed' = armed \cup {"L"} /\ UNCHANGED <<st, dad, grp, doomed, lease, report>>
      BY <1>1, <2>1 DEF LeaderArm
    <3>9. Moves("L", "setsid") BY <1>0, <3>1 DEF TypeOK, Moves
    <3>. QED BY <1>0, <3>1, <3>9, CodeMoves DEF TypeOK, Live
  <2>2. CASE dad["L"] # "P"
    <3>1. Live("L") /\ Falls("L") /\ ready' = "0" /\ UNCHANGED <<at, known, outcome>>
      BY <1>1, <2>2 DEF LeaderArm
    <3>. QED BY <1>0, <3>1, BelowFalls
  <2>. QED BY <2>1, <2>2
<1>2. CASE LeaderSetsid
  <2>1. /\ Live("L") /\ at["L"] = "setsid" /\ at' = [at EXCEPT !["L"] = "close"]
        /\ UNCHANGED <<st, dad, armed, doomed, lease, report>> /\ grp' \in [Procs -> Procs]
    BY <1>0, <1>2 DEF LeaderSetsid, TypeOK
  <2>9. Moves("L", "close") BY <1>0, <2>1 DEF TypeOK, Moves
  <2>. QED BY <1>0, <2>1, <2>9, CodeMoves DEF TypeOK, Live
<1>3. CASE LeaderClose
  <2>1. CASE Goto("L", "close", "ready") /\ holds' = holds \ {"L"} /\ UNCHANGED <<kin, locked, report>>
    <3>1. /\ Live("L") /\ at["L"] = "close" /\ at' = [at EXCEPT !["L"] = "ready"]
          /\ holds' = holds \ {"L"} /\ UNCHANGED <<kin, locked, report>>
      BY <2>1
    <3>9. Moves("L", "ready") BY <1>0, <3>1 DEF TypeOK, Moves
    <3>. QED BY <1>0, <3>1, <3>9, CodeMoves DEF TypeOK, Live
  <2>2. CASE /\ Live("L") /\ Falls("L") /\ ready' = "2" /\ UNCHANGED <<at, known, outcome>>
    BY <1>0, <2>2, BelowFalls
  <2>. QED BY <1>3, <2>1, <2>2 DEF LeaderClose
<1>4. CASE LeaderReady
  <2>1. /\ Live("L") /\ at["L"] = "ready" /\ at' = [at EXCEPT !["L"] = "fn"]
        /\ ready' = "1" /\ UNCHANGED <<kin, lease, known, outcome>>
    BY <1>4 DEF LeaderReady
  <2>2. "L" \notin holds BY <2>1 DEF TreeInv, LeaseNotInherited
  <2>9. Moves("L", "fn") BY <1>0, <2>1 DEF TypeOK, Moves
  <2>. QED BY <1>0, <2>1, <2>2, <2>9, CodeMoves DEF TypeOK, Live
<1>5. CASE LeaderDone
  <2>1. /\ Live("L") /\ at["L"] = "fn" /\ at' = [at EXCEPT !["L"] = "parked"]
        /\ UNCHANGED <<kin, lease, report>>
    BY <1>5 DEF LeaderDone
  <2>2. "L" \notin holds BY <2>1 DEF TreeInv, LeaseNotInherited
  <2>9. Moves("L", "parked") BY <1>0, <2>1 DEF TypeOK, Moves
  <2>. QED BY <1>0, <2>1, <2>2, <2>9, CodeMoves DEF TypeOK, Live
<1>6. CASE SealFork
  <2>1. /\ SealOn /\ at["L"] = "fn" /\ at' = [at EXCEPT !["L"] = "seal"] /\ Born("S", "L") /\ UNCHANGED report
    BY <1>6 DEF SealFork
  <2>2. at'["P"] = at["P"] /\ at'["L"] = "seal" /\ SealOn' = SealOn BY <1>0, <2>1 DEF TypeOK, SealOn
  <2>3. at' \in [{"P", "L", "S", "N"} ->
               {"start", "wait", "term", "kill", "restore", "free", "dead",
                "arm", "setsid", "close", "ready", "fn", "seal", "sealkill", "unshare", "parked", "off"}]
    BY <1>0, <2>1 DEF TypeOK
  <2>. QED BY <1>0, <2>1, <2>2, <2>3, BelowBorn
<1>7. CASE SealEnds
  <2>1. /\ Live("L") /\ at["L"] = "seal" /\ at' = [at EXCEPT !["L"] = "sealkill"]
        /\ doomed \subseteq doomed' /\ doomed' \subseteq Below
        /\ UNCHANGED <<st, dad, grp, armed, lease, report>>
    BY <1>0, <1>7 DEF SealEnds, TypeOK
  <2>2. "L" \notin holds BY <2>1 DEF TreeInv, LeaseNotInherited
  <2>9. Moves("L", "sealkill") BY <1>0, <2>1 DEF TypeOK, Moves
  <2>. QED BY <1>0, <2>1, <2>2, <2>9, CodeMoves DEF TypeOK, Live
<1>8. CASE SealReap
  <2>1. /\ Live("L") /\ at["L"] = "sealkill" /\ at' = [at EXCEPT !["L"] = "parked"]
        /\ Reaped("S", "L") \/ UNCHANGED st
        /\ UNCHANGED <<dad, grp, armed, doomed, lease, report>>
    BY <1>8 DEF SealReap
  <2>2. CASE Reaped("S", "L") BY <1>0, <2>1, <2>2, ReapedInv
  <2>3. CASE UNCHANGED st
    <3>1. "L" \notin holds BY <2>1 DEF TreeInv, LeaseNotInherited
    <3>9. Moves("L", "parked") BY <1>0, <2>1 DEF TypeOK, Moves
    <3>. QED BY <1>0, <2>1, <2>3, <3>1, <3>9, CodeMoves DEF TypeOK, Live
  <2>. QED BY <2>1, <2>2, <2>3
<1>. QED BY <1>1, <1>2, <1>3, <1>4, <1>5, <1>6, <1>7, <1>8 DEF Leader

LEMMA SealSteps == ASSUME TreeInv, Seal PROVE TreeInv'
<1> USE NamesApart DEF Goto, Runs, kin, lease, report
<1>0. TypeOK /\ {"L", "S", "N"} \subseteq Below BY DEF TreeInv, Below
<1>1. CASE SealArm
  <2>1. CASE dad["S"] = "L"
    <3>1. /\ at["S"] = "arm" /\ at' = [at EXCEPT !["S"] = "unshare"]
          /\ armed' = armed \cup {"S"} /\ UNCHANGED <<st, dad, grp, doomed, lease, report>>
      BY <1>1, <2>1 DEF SealArm
    <3>9. Moves("S", "unshare") BY <1>0, <3>1 DEF TypeOK, Moves
    <3>. QED BY <1>0, <3>1, <3>9, CodeMoves DEF TypeOK
  <2>2. CASE dad["S"] # "L"
    <3>1. Live("S") /\ Falls("S") /\ UNCHANGED <<at, report>> BY <1>1, <2>2 DEF SealArm
    <3>. QED BY <1>0, <3>1, BelowFalls DEF TypeOK
  <2>. QED BY <2>1, <2>2
<1>2. CASE SealUnshare
  <2>1. /\ at["S"] = "unshare" /\ at' = [at EXCEPT !["S"] = "wait"] /\ Born("N", "S") /\ UNCHANGED report
    BY <1>2 DEF SealUnshare
  <2>2. at'["P"] = at["P"] /\ at'["L"] = at["L"] /\ SealOn' = SealOn BY <1>0, <2>1 DEF TypeOK, SealOn
  <2>3. at' \in [{"P", "L", "S", "N"} ->
               {"start", "wait", "term", "kill", "restore", "free", "dead",
                "arm", "setsid", "close", "ready", "fn", "seal", "sealkill", "unshare", "parked", "off"}]
    BY <1>0, <2>1 DEF TypeOK
  <2>. QED BY <1>0, <2>1, <2>2, <2>3, BelowBorn
<1>3. CASE SealWait
  <2>1. /\ Live("S") /\ Reaped("N", "S") /\ UNCHANGED <<dad, grp, armed, doomed, lease, at, report>>
    BY <1>3 DEF SealWait
  <2>. QED BY <1>0, <2>1, ReapedInv
<1>4. CASE InitArm
  <2>1. /\ at["N"] = "arm" /\ at' = [at EXCEPT !["N"] = "fn"]
        /\ armed' = armed \cup {"N"} /\ UNCHANGED <<st, dad, grp, doomed, lease, report>>
    BY <1>4 DEF InitArm
  <2>9. Moves("N", "fn") BY <1>0, <2>1 DEF TypeOK, Moves
  <2>. QED BY <1>0, <2>1, <2>9, CodeMoves DEF TypeOK
<1>5. CASE InitDone
  <2>1. /\ at["N"] = "fn" /\ at' = [at EXCEPT !["N"] = "parked"] /\ UNCHANGED <<kin, lease, report>>
    BY <1>5 DEF InitDone
  <2>9. Moves("N", "parked") BY <1>0, <2>1 DEF TypeOK, Moves
  <2>. QED BY <1>0, <2>1, <2>9, CodeMoves DEF TypeOK
<1>. QED BY <1>1, <1>2, <1>3, <1>4, <1>5 DEF Seal

LEMMA FunctionSteps == ASSUME TreeInv, Function PROVE TreeInv'
<1> USE NamesApart DEF Goto, Runs, kin, lease, report
<1>0. TypeOK /\ {"L", "S", "N"} \cup Worker \subseteq Below BY DEF TreeInv, Below
<1>1. ASSUME NEW w \in Worker, NEW x \in Worker \cup {"L", "N"}, Spawn(x, w) PROVE TreeInv'
  <2>1. /\ Born(w, x) /\ UNCHANGED <<at, report>>
        /\ x \in Worker \/ (x = (IF SealOn THEN "N" ELSE "L") /\ at[x] \in {"fn", "parked"})
    BY <1>1 DEF Spawn, Host
  <2>2. x = "L" => at["L"] \in {"fn", "seal", "parked"} BY <2>1
  <2>3. w \in Below \ {"L"} /\ x \in Below /\ SealOn' = SealOn BY <1>0, <2>1 DEF SealOn
  <2>. QED BY <1>0, <2>1, <2>2, <2>3, BelowBorn DEF TypeOK
<1>2. ASSUME NEW w \in Worker, Detach(w) PROVE TreeInv'
  <2>1. UNCHANGED <<st, dad, armed, doomed, lease, at, report>> /\ grp' = [grp EXCEPT ![w] = w]
    BY <1>2 DEF Detach
  <2>2. TypeOK' BY <1>0, <2>1 DEF TypeOK
  <2>3. SealOn' = SealOn BY <2>1 DEF SealOn
  <2>4. Fathered' /\ Ranks' /\ Namespaced' /\ Grounded' BY <2>1, <2>3, KinLeft DEF TreeInv
  <2>. QED BY <2>1, <2>2, <2>4 DEF TreeInv, TickLives, Adopts, LeaderKnown, Swept, LeaseNotInherited,
            LeaderFollows, Present, Live
<1>. QED BY <1>1, <1>2 DEF Function

(***************************************************************************)
(* The theorem                                                             *)
(***************************************************************************)
LEMMA TreeInit == Init => TreeInv
<1> SUFFICES ASSUME Init PROVE TreeInv OBVIOUS
<1> USE NamesApart
<1>1. PICK sealed \in BOOLEAN :
         at = [x \in {"P", "L", "S", "N"} |->
                    CASE x = "P" -> "start"
                      [] x \in {"S", "N"} /\ ~sealed -> "off"
                      [] OTHER -> "arm"]
  BY DEF Init
<1>2. at["P"] = "start" /\ at["L"] = "arm" /\ at["S"] \in {"off", "arm"} /\ at["N"] \in {"off", "arm"}
  BY <1>1
<1>3. TypeOK
  <2>1. at \in [{"P", "L", "S", "N"} ->
               {"start", "wait", "term", "kill", "restore", "free", "dead",
                "arm", "setsid", "close", "ready", "fn", "seal", "sealkill", "unshare", "parked", "off"}]
    BY <1>1
  <2>2. /\ st \in [Procs -> {"unborn", "live", "zombie", "gone"}]
        /\ dad \in [Procs -> Procs \cup {"init"}] /\ grp \in [Procs -> Procs]
    BY DEF Init
  <2>3. /\ armed = {} /\ doomed = {} /\ holds = {"P"} /\ locked = TRUE
        /\ ready = "none" /\ known = FALSE /\ outcome = "none"
    BY DEF Init
  <2>. QED BY <2>1, <2>2, <2>3 DEF TypeOK
<1>4. /\ st["P"] = "live" /\ dad["P"] = "init" /\ holds = {"P"}
      /\ \A x \in Below : st[x] = "unborn" /\ ~Present(x) /\ ~Live(x)
  BY DEF Init, Present, Live
<1>5. TickLives /\ Adopts /\ Swept /\ LeaseNotInherited /\ LeaderFollows
  BY <1>2, <1>4 DEF TickLives, Adopts, Waiting, Swept, LeaseNotInherited, LeaderFollows
<1>6. Fathered /\ Ranks /\ Namespaced /\ Grounded /\ LeaderKnown
  BY <1>2, <1>4 DEF Fathered, Ranks, Namespaced, Grounded, LeaderKnown, Below
<1>. QED BY <1>3, <1>5, <1>6 DEF TreeInv

LEMMA TreeStep == ASSUME TreeInv, [Next]_vars PROVE TreeInv'
<1>1. CASE Tick BY <1>1, TickSteps
<1>2. CASE Dies BY <1>2, TickFalls
<1>3. CASE Leader BY <1>3, LeaderSteps
<1>4. CASE Seal BY <1>4, SealSteps
<1>5. CASE Function BY <1>5, FunctionSteps
<1>6. ASSUME NEW x \in Below, Exits(x) PROVE TreeInv'
  <2>1. ready \in {"none", "0", "1", "2"} BY DEF TreeInv, TypeOK
  <2>. QED BY <1>6, <2>1, BelowFalls DEF Exits, report
<1>7. CASE UNCHANGED vars
  <2>1. SealOn' = SealOn BY <1>7 DEF SealOn, vars
  <2>2. Fathered' /\ Ranks' /\ Namespaced' /\ Grounded' BY <1>7, <2>1, KinLeft DEF TreeInv, vars, kin
  <2>. QED BY <1>7, <2>2 DEF TreeInv, vars, kin, lease, report, TypeOK, TickLives, Adopts, LeaderKnown,
            Swept, LeaseNotInherited, LeaderFollows, Present, Live
<1>. QED BY <1>1, <1>2, <1>3, <1>4, <1>5, <1>6, <1>7 DEF Next

\* However many workers a dispatch forks, and however they detach, fork and
\* end: when its end is reported without a failed clean-up none of it is left;
\* none of it ever has the lease; and a leader that outlives the tick past its
\* arming is being killed (run_with_deadline, _child_main, run_sealed).
THEOREM NoDispatchOutlives == Spec => []NothingOutlives
<1>1. TreeInv => NothingOutlives
  <2> SUFFICES ASSUME TreeInv PROVE NothingOutlives OBVIOUS
  <2>1. NoSurvivor
    <3>1. \A x \in Below : st[x] \in {"unborn", "live", "zombie", "gone"}
      BY NamesApart DEF TreeInv, TypeOK
    <3>. QED BY <3>1 DEF TreeInv, Swept, NoSurvivor, Present
  <2>. QED BY <2>1 DEF TreeInv, NothingOutlives
<1>. QED BY <1>1, TreeInit, TreeStep, PTL DEF Spec

\* And every part of the tree's state stays of its type.
THEOREM TreeTypes == Spec => []TypeOK
<1>1. TreeInv => TypeOK BY DEF TreeInv
<1>. QED BY <1>1, TreeInit, TreeStep, PTL DEF Spec
=============================================================================
