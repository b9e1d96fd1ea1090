----------------------------- MODULE TickLease -----------------------------
(***************************************************************************)
(* The single-flight lease (runtime/tick_lease.py): a kernel flock that    *)
(* decides who runs, and beside it a JSON record that only tells who.      *)
(* Ticks acquire it, publish the record, work, take their record away and  *)
(* unlock; status callers read the record and probe the lock, which takes  *)
(* it for a moment.  Files survive a crash, the lock does not.             *)
(*                                                                         *)
(* External: the kernel's flock (exclusive, non-blocking, gone with its    *)
(* owner) and the atomic replace and read of a small JSON file.            *)
(***************************************************************************)
EXTENDS Integers, FiniteSets

CONSTANTS
    Proc,         \* processes that call acquire
    Obs,          \* processes that call status
    Nobody,       \* the owner of a free lock
    MaxAcquires,  \* bound on the leases ever taken
    MaxFaults     \* bound on crashes, failed writes and failed unlinks

ASSUME LeaseActorsAssumption == Proc \cap Obs = {} /\ Nobody \notin Proc \cup Obs
ASSUME LeaseBoundAssumption == MaxAcquires \in Nat /\ MaxFaults \in Nat

VARIABLES
    lock,      \* who the kernel grants the lock to
    record,    \* lease.json: its owner and nonce, or NoRecord
    pc,        \* where each acquirer is
    nonce,     \* the nonce of the lease it holds
    acquires,  \* leases taken so far, the source of fresh nonces
    saw,       \* what each status call read of the record
    held,      \* what it found of the lock: "unknown" until it probed
    faults

leaseVars == <<lock, record, pc, nonce, acquires, saw, held, faults>>

NoRecord == [owner |-> Nobody, nonce |-> 0]
Records == [owner : Proc, nonce : 1..MaxAcquires] \cup {NoRecord}

LeaseTypeOK ==
    /\ lock \in Proc \cup Obs \cup {Nobody}
    /\ record \in Records
    /\ pc \in [Proc -> {"idle", "publish", "work", "own", "unlink", "unlock"}]
    /\ nonce \in [Proc -> 0..MaxAcquires]
    /\ acquires \in 0..MaxAcquires
    /\ saw \in [Obs -> Records]
    /\ held \in [Obs -> {"unknown", "probing", "free", "busy"}]
    /\ faults \in 0..MaxFaults

LeaseInit ==
    /\ lock = Nobody /\ record = NoRecord
    /\ pc = [p \in Proc |-> "idle"] /\ nonce = [p \in Proc |-> 0]
    /\ acquires = 0
    /\ saw = [o \in Obs |-> NoRecord] /\ held = [o \in Obs |-> "unknown"]
    /\ faults = 0

----------------------------------------------------------------------------
\* acquire

Fault == faults < MaxFaults /\ faults' = faults + 1

Advance(p, from, to) == pc[p] = from /\ pc' = [pc EXCEPT ![p] = to]

Mine(p) == [owner |-> p, nonce |-> nonce[p]]

\* A fresh open file description takes the lock or is told it is taken.
TryLock(p) ==
    /\ Advance(p, "idle", "publish")
    /\ lock = Nobody /\ lock' = p
    /\ acquires < MaxAcquires /\ acquires' = acquires + 1
    /\ nonce' = [nonce EXCEPT ![p] = acquires + 1]
    /\ UNCHANGED <<record, saw, held, faults>>

\* Mutant: a record that cannot be written does not stop the tick.
Publish_Tolerant(p) ==
    /\ Advance(p, "publish", "work")
    /\ \/ record' = Mine(p) /\ UNCHANGED faults
       \/ Fault /\ UNCHANGED record
    /\ UNCHANGED <<lock, nonce, acquires, saw, held>>

\* LeaseUnavailable leaves whatever record was there.
Publish(p) ==
    /\ \/ Advance(p, "publish", "work") /\ record' = Mine(p) /\ UNCHANGED faults
       \/ Advance(p, "publish", "unlock") /\ Fault /\ UNCHANGED record
    /\ UNCHANGED <<lock, nonce, acquires, saw, held>>

Finish(p) ==
    /\ Advance(p, "work", "own")
    /\ UNCHANGED <<lock, record, nonce, acquires, saw, held, faults>>

\* The record is taken away only by the nonce that wrote it; one that cannot
\* be read is left.
ReadOwn(p) ==
    /\ \/ Advance(p, "own", "unlink") /\ record = Mine(p) /\ UNCHANGED faults
       \/ Advance(p, "own", "unlock") /\ record # Mine(p) /\ UNCHANGED faults
       \/ Advance(p, "own", "unlock") /\ Fault
    /\ UNCHANGED <<lock, record, nonce, acquires, saw, held>>

Unlink(p) ==
    /\ Advance(p, "unlink", "unlock")
    /\ \/ record' = NoRecord /\ UNCHANGED faults
       \/ UNCHANGED record /\ Fault
    /\ UNCHANGED <<lock, nonce, acquires, saw, held>>

Free(x) == lock' = IF lock = x THEN Nobody ELSE lock

\* Mutant: release forgets the lock, which then waits for the process to die.
Unlock_Leaked(p) ==
    /\ Advance(p, "unlock", "idle")
    /\ UNCHANGED <<lock, record, nonce, acquires, saw, held, faults>>

Unlock(p) ==
    /\ Advance(p, "unlock", "idle")
    /\ Free(p)
    /\ UNCHANGED <<record, nonce, acquires, saw, held, faults>>

Crash(p) ==
    /\ pc[p] # "idle" /\ pc' = [pc EXCEPT ![p] = "idle"]
    /\ Fault
    /\ Free(p)
    /\ UNCHANGED <<record, nonce, acquires, saw, held>>

----------------------------------------------------------------------------
\* status: the record first, then the probe

StatusRead(o) ==
    /\ held[o] \in {"unknown", "free", "busy"}
    /\ saw' = [saw EXCEPT ![o] = record]
    /\ held' = [held EXCEPT ![o] = "unknown"]
    /\ UNCHANGED <<lock, record, pc, nonce, acquires, faults>>

StatusProbe(o) ==
    /\ held[o] = "unknown"
    /\ \/ lock = Nobody /\ lock' = o /\ held' = [held EXCEPT ![o] = "probing"]
       \/ lock # Nobody /\ UNCHANGED lock /\ held' = [held EXCEPT ![o] = "busy"]
    /\ UNCHANGED <<record, pc, nonce, acquires, saw, faults>>

StatusDone(o) ==
    /\ held[o] = "probing"
    /\ Free(o)
    /\ held' = [held EXCEPT ![o] = "free"]
    /\ UNCHANGED <<record, pc, nonce, acquires, saw, faults>>

WindDown(p) == Finish(p) \/ ReadOwn(p) \/ Unlink(p) \/ Unlock(p)

Acquirer(p) == TryLock(p) \/ Publish(p) \/ WindDown(p) \/ Crash(p)

Observer(o) == StatusRead(o) \/ StatusProbe(o) \/ StatusDone(o)

LeaseNext == (\E p \in Proc : Acquirer(p)) \/ (\E o \in Obs : Observer(o))

LeaseSpec == LeaseInit /\ [][LeaseNext]_leaseVars

\* A process that holds the lock runs on; a status call ends its probe.
LeaseFairness ==
    /\ \A p \in Proc : WF_leaseVars(Publish(p)) /\ WF_leaseVars(WindDown(p))
    /\ \A o \in Obs : WF_leaseVars(StatusDone(o))

LeaseFairSpec == LeaseSpec /\ LeaseFairness

----------------------------------------------------------------------------
\* Properties

\* While a tick works the record names it and no other: nobody overwrites or
\* deletes the record of a live holder, though a late cleanup, a failed
\* unlink and a crashed owner may each have left one of their own behind.
RecordNamesWorker == \A p \in Proc : pc[p] = "work" => record = Mine(p)

\* What a tick deletes is its own record, never a successor's.
DeletesOnlyItsOwn ==
    [][\A p \in Proc : Unlink(p) => record' \in {record, NoRecord} /\ record = Mine(p)]_leaseVars

\* The lock that TickLoop assumes: one tick enters a free one, leaves it when
\* it ends or dies, and nobody gets it from another; status calls do not count.
Holder == IF lock \in Proc THEN lock ELSE Nobody
Inside == {p \in Proc : pc[p] # "idle"}
LockInit == Holder = Nobody /\ Inside = {}
Enter(p) == Holder = Nobody /\ Inside = {} /\ Holder' = p /\ Inside' = {p}
Leave(p) == Holder = p /\ Inside = {p} /\ Holder' = Nobody /\ Inside' = {}
LockSpec == LockInit /\ [][\E p \in Proc : Enter(p) \/ Leave(p)]_<<Holder, Inside>>

\* A record without a live owner is the work of a fault: a clean history
\* leaves none behind, so a stale one tells of a crash or a failed write.
StaleMeansFault ==
    faults = 0 /\ record # NoRecord =>
        lock = record.owner /\ pc[record.owner] \in {"work", "own", "unlink"}

\* A status call that found the lock free looked at an instant without a
\* working tick, whatever record it shows (the record was read earlier).
FreeMeansNobodyWorks ==
    \A o \in Obs : held[o] = "probing" => \A p \in Proc : pc[p] = "idle"

\* The record beside the lock tells the truth to whoever reads it in time: of
\* a live holder, of a crash, and of nobody.
RecordTellsTruth == RecordNamesWorker /\ StaleMeansFault /\ FreeMeansNobodyWorks

\* The lock always becomes free again: no crash, failed write or probe keeps it.
LockReturns == lock # Nobody ~> lock = Nobody
=============================================================================
