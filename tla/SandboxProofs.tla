--------------------------- MODULE SandboxProofs ---------------------------
(***************************************************************************)
(* Theorems about Sandbox for any number of calls, directories and faults  *)
(* and any choice of gates: what a call says of its candidate happened,    *)
(* and what is left on the host is known.  Three invariants carry it: who  *)
(* holds the snapshot's lock and whose directory is whose; what may have   *)
(* been launched at which place of a call; and which line can be the last. *)
(***************************************************************************)
EXTENDS Sandbox, TLAPS

Reasons == {"", "no_unit", "disabled", "timeout", "graded"} \cup Infra \cup Evaluator

Backends == {"none", "docker", "bwrap"}
Trees == Dir \cup {NoDir}

CallsOK == call \in [Call -> [at : Places, backend : Backends, tree : Trees, reason : Reasons]]

(***************************************************************************)
(* The snapshot                                                            *)
(***************************************************************************)
Building == {"build", "fill", "register"}
InUse == {"prepare", "argv", "launch", "wait", "clean"}

SnapshotType ==
    /\ dir \in [Dir -> {"none", "building", "whole", "torn", "gone"}]
    /\ cache \in Dir \cup {NoDir} /\ owned \subseteq Dir
    /\ phase \in {"running", "exited", "killed"}

\* Who is at the snapshot holds the lock.
LockHeld == \A k \in Call : call[k].at \in Building => lock = k /\ On("worktree")

\* A directory that is filled or registered is its maker's alone.
MakersOwn ==
    /\ \A k \in Call : call[k].at = "fill" => call[k].tree \in Dir /\ dir[call[k].tree] = "building"
    /\ \A k \in Call : call[k].at = "register" =>
          /\ call[k].tree \in Dir /\ dir[call[k].tree] \in {"whole", "torn"}
          /\ \A j \in Call : call[j].at \in InUse => call[j].tree # call[k].tree

\* Who works with a snapshot has one.
UsersHave ==
    On("worktree") =>
        \A k \in Call :
            /\ call[k].at \in InUse \/ Returned(k, "graded") => call[k].tree \in Dir
            /\ phase = "running" /\ call[k].at \in InUse => dir[call[k].tree] \in {"whole", "torn"}

\* A whole directory is removed at exit, or about to be registered for it.
MadeForRemoval ==
    phase = "running" =>
        \A d \in Dir :
            /\ dir[d] = "building" => \E k \in Call : call[k].at = "fill" /\ call[k].tree = d
            /\ dir[d] = "whole" =>
                  d \in owned \/ \E k \in Call : call[k].at = "register" /\ call[k].tree = d

NothingLeft == phase = "exited" => \A d \in Dir : dir[d] \in {"none", "torn", "gone"}

SnapshotInv ==
    CallsOK /\ SnapshotType /\ LockHeld /\ MakersOwn /\ UsersHave /\ MadeForRemoval /\ NothingLeft

(***************************************************************************)
(* The boxes                                                               *)
(***************************************************************************)
Before == {"select", "start", "docker"}      \* no backend yet
Early == Before \cup {"image", "tree", "prepare", "argv", "launch"} \cup Building   \* no launch yet

BoxType ==
    /\ box \in [Call -> {"none", "starting", "created", "running", "exited", "gone"}]
    /\ phase \in {"running", "exited", "killed"}

\* Nothing is launched before its place, and what is launched has a backend.
LaunchedLate ==
    \A k \in Call :
        /\ call[k].at \in Early => box[k] = "none"
        /\ call[k].at \notin Before \cup {"returned"} \/ box[k] # "none" => call[k].backend # "none"
        /\ call[k].at = "clean" => call[k].backend = "docker"

BoxInv == CallsOK /\ BoxType /\ LaunchedLate /\ UnmeasuredRanNothing /\ LeftoverHasReason

(***************************************************************************)
(* The grades                                                              *)
(***************************************************************************)
\* A candidate has printed only when it has ended, and what it repeats is
\* never the report for its own call.
LinesAreOwn ==
    \A k \in Call :
        /\ box[k] \in {"none", "starting", "created", "running"} => line[k] = NoLine
        /\ line[k].by \in {"none", "candidate"} => line[k].nonce # k

\* Who is past the image check in docker has the image that is demanded.
ImageOK ==
    \A k \in Call :
        /\ call[k].at \notin Before \cup {"image", "returned"} \/ Returned(k, "graded")
        /\ call[k].backend = "docker" /\ (On("pin") \/ On("entry"))
        => image = "trusted"

GradesOK ==
    \A k \in Call : Returned(k, "graded") =>
        box[k] = "exited" /\ (On("receipt") => line[k].by = "harness")

GradeInv == line \in [Call -> Line] /\ LinesAreOwn /\ ImageOK /\ GradesOK

IInv == SnapshotInv /\ BoxInv /\ GradeInv

(***************************************************************************)
(* Where a call goes                                                       *)
(***************************************************************************)
LEMMA Moved ==
    ASSUME CallsOK, NEW k \in Call, NEW place \in Places, Go(k, place)
    PROVE /\ CallsOK' /\ \A j \in Call \ {k} : call'[j] = call[j]
          /\ call'[k].at = place /\ call'[k].backend = call[k].backend
          /\ call'[k].tree = call[k].tree /\ call'[k].reason = call[k].reason
BY DEF CallsOK, Go

LEMMA HasReturned ==
    ASSUME CallsOK, NEW k \in Call, NEW reason \in Reasons, Return(k, reason)
    PROVE /\ CallsOK' /\ \A j \in Call \ {k} : call'[j] = call[j]
          /\ call'[k].at = "returned" /\ call'[k].reason = reason
          /\ call'[k].backend = call[k].backend /\ call'[k].tree = call[k].tree
<1>1. PICK returned \in Places : returned = "returned" BY DEF Places
<1>2. call' = [call EXCEPT ![k].at = returned, ![k].reason = reason] BY <1>1 DEF Return
<1>. QED BY <1>1, <1>2 DEF CallsOK

\* A place and a tree are set together.
LEMMA MovedWithTree ==
    ASSUME CallsOK, NEW k \in Call, NEW place \in Places, NEW d \in Trees,
           call' = [call EXCEPT ![k].at = place, ![k].tree = d]
    PROVE /\ CallsOK' /\ \A j \in Call \ {k} : call'[j] = call[j]
          /\ call'[k].at = place /\ call'[k].tree = d
          /\ call'[k].backend = call[k].backend /\ call'[k].reason = call[k].reason
BY DEF CallsOK

(***************************************************************************)
(* What the steps before a launch, and those after it, do to their call    *)
(***************************************************************************)
LEMMA ClientSteps ==
    ASSUME CallsOK, NEW k \in Call,
           Select(k) \/ Configure(k) \/ FindBackend(k) \/ CheckImage(k) \/ BindInput(k) \/ Prepare(k)
    PROVE /\ CallsOK' /\ \A j \in Call \ {k} : call'[j] = call[j]
          /\ UNCHANGED <<gate, phase, host, box, line, snapshot, unreached>> /\ phase = "running"
          /\ call[k].at \in Before \cup {"image", "prepare", "argv"}
          /\ call'[k].at \in Before \cup {"image", "tree", "argv", "launch", "returned"}
          /\ call'[k].at = "returned" => call'[k].reason # "graded"
          /\ call'[k].at \in {"argv", "launch"} => call[k].at \in InUse
          /\ call'[k].tree = call[k].tree
          /\ call[k].at \notin Before => call'[k].backend = call[k].backend
          /\ call[k].at \in Before /\ call'[k].at \notin Before \cup {"returned"} =>
                call'[k].backend \in {"docker", "bwrap"} /\ call'[k].at \in {"image", "tree"}
          /\ call[k].at \in Before /\ call'[k].at = "tree" => call'[k].backend = "bwrap"
          /\ call[k].at = "image" /\ call'[k].at # "returned" =>
                call'[k].at = "tree" /\ ImageIdTrusted /\ EntryDigestTrusted
<1> USE DEF At, Before, InUse
<1>0. /\ {"start", "docker", "image", "tree", "argv", "launch"} \subseteq Places
      /\ {"no_unit", "disabled", "invalid_config", "input_rejected", "payload_unavailable",
          "docker_endpoint_untrusted", "receipt_untrusted", "docker_missing", "docker_unavailable",
          "no_isolation_available", "image_missing", "image_untrusted", "exception"} \subseteq Reasons
  BY DEF Places, Reasons, Infra, Evaluator
<1>1. CASE Select(k)
  <2>1. CASE Go(k, "start") BY <1>0, <1>1, <2>1, Moved DEF Select
  <2>2. CASE Return(k, "no_unit") BY <1>0, <1>1, <2>2, HasReturned DEF Select
  <2>. QED BY <1>1, <2>1, <2>2 DEF Select
<1>2. CASE Configure(k)
  <2>1. CASE Go(k, "docker") BY <1>0, <1>2, <2>1, Moved DEF Configure
  <2>2. ASSUME NEW reason \in {"disabled", "receipt_untrusted", "docker_endpoint_untrusted"} \cup BadInput,
               Return(k, reason)
        PROVE  /\ CallsOK' /\ \A j \in Call \ {k} : call'[j] = call[j]
               /\ call'[k].at = "returned" /\ call'[k].reason = reason /\ reason # "graded"
               /\ call'[k].backend = call[k].backend /\ call'[k].tree = call[k].tree
    <3>1. reason \in Reasons /\ reason # "graded" BY <1>0, <2>2 DEF BadInput
    <3>. QED BY <3>1, <2>2, HasReturned
  <2>3. Go(k, "docker") \/ \E reason \in {"disabled", "receipt_untrusted", "docker_endpoint_untrusted"} \cup BadInput :
           Return(k, reason)
    BY <1>2 DEF Configure, Refused, KeyMissing, BadInput
  <2>. QED BY <1>2, <2>1, <2>2, <2>3 DEF Configure
<1>3. CASE FindBackend(k)
  <2>0. /\ call[k].at = "docker" /\ phase = "running"
        /\ UNCHANGED <<gate, phase, host, box, line, snapshot, unreached>>
    BY <1>3 DEF FindBackend
  <2>1. ASSUME call' = [call EXCEPT ![k].at = "image", ![k].backend = "docker"]
        PROVE  /\ CallsOK' /\ \A j \in Call \ {k} : call'[j] = call[j]
               /\ call'[k].at = "image" /\ call'[k].backend = "docker" /\ call'[k].tree = call[k].tree
    <3>1. PICK place \in Places, b \in Backends : place = "image" /\ b = "docker"
      BY <1>0 DEF Backends
    <3>2. call' = [call EXCEPT ![k].at = place, ![k].backend = b] BY <2>1, <3>1
    <3>3. /\ CallsOK' /\ \A j \in Call \ {k} : call'[j] = call[j]
          /\ call'[k].at = place /\ call'[k].backend = b /\ call'[k].tree = call[k].tree
      BY <3>2 DEF CallsOK
    <3>. QED BY <3>1, <3>3
  <2>2. ASSUME call' = [call EXCEPT ![k].at = "tree", ![k].backend = "bwrap"]
        PROVE  /\ CallsOK' /\ \A j \in Call \ {k} : call'[j] = call[j]
               /\ call'[k].at = "tree" /\ call'[k].backend = "bwrap" /\ call'[k].tree = call[k].tree
    <3>1. PICK place \in Places, b \in Backends : place = "tree" /\ b = "bwrap"
      BY <1>0 DEF Backends
    <3>2. call' = [call EXCEPT ![k].at = place, ![k].backend = b] BY <2>2, <3>1
    <3>3. /\ CallsOK' /\ \A j \in Call \ {k} : call'[j] = call[j]
          /\ call'[k].at = place /\ call'[k].backend = b /\ call'[k].tree = call[k].tree
      BY <3>2 DEF CallsOK
    <3>. QED BY <3>1, <3>3
  <2>3. ASSUME NEW reason \in {"docker_missing", "docker_unavailable", "no_isolation_available",
                               "docker_endpoint_untrusted"}, Return(k, reason)
        PROVE  /\ CallsOK' /\ \A j \in Call \ {k} : call'[j] = call[j]
               /\ call'[k].at = "returned" /\ call'[k].reason = reason /\ reason # "graded"
               /\ call'[k].backend = call[k].backend /\ call'[k].tree = call[k].tree
    <3>1. reason \in Reasons /\ reason # "graded" BY <1>0, <2>3
    <3>. QED BY <3>1, <2>3, HasReturned
  <2>4. \/ call' = [call EXCEPT ![k].at = "image", ![k].backend = "docker"]
        \/ call' = [call EXCEPT ![k].at = "tree", ![k].backend = "bwrap"]
        \/ \E reason \in {"docker_missing", "docker_unavailable", "no_isolation_available",
                          "docker_endpoint_untrusted"} : Return(k, reason)
    BY <1>3 DEF FindBackend, Refused
  <2>. QED BY <2>0, <2>1, <2>2, <2>3, <2>4
<1>4. CASE CheckImage(k)
  <2>1. CASE Go(k, "tree") /\ ImageIdTrusted /\ EntryDigestTrusted
    BY <1>0, <1>4, <2>1, Moved DEF CheckImage
  <2>2. ASSUME NEW reason \in {"image_missing", "image_untrusted", "docker_endpoint_untrusted"}, Return(k, reason)
        PROVE  /\ CallsOK' /\ \A j \in Call \ {k} : call'[j] = call[j]
               /\ call'[k].at = "returned" /\ call'[k].reason = reason /\ reason # "graded"
               /\ call'[k].backend = call[k].backend /\ call'[k].tree = call[k].tree
    <3>1. reason \in Reasons /\ reason # "graded" BY <1>0, <2>2
    <3>. QED BY <3>1, <2>2, HasReturned
  <2>3. (Go(k, "tree") /\ ImageIdTrusted /\ EntryDigestTrusted) \/
        \E reason \in {"image_missing", "image_untrusted", "docker_endpoint_untrusted"} : Return(k, reason)
    BY <1>4 DEF CheckImage, Refused
  <2>. QED BY <1>4, <2>1, <2>2, <2>3 DEF CheckImage
<1>5. CASE BindInput(k)
  <2>1. CASE Go(k, "argv") BY <1>0, <1>5, <2>1, Moved DEF BindInput
  <2>2. CASE Return(k, "exception") BY <1>0, <1>5, <2>2, HasReturned DEF BindInput
  <2>. QED BY <1>5, <2>1, <2>2 DEF BindInput
<1>6. CASE Prepare(k)
  <2>1. CASE Go(k, "launch") BY <1>0, <1>6, <2>1, Moved DEF Prepare
  <2>2. CASE Return(k, "docker_endpoint_untrusted") BY <1>0, <1>6, <2>2, HasReturned DEF Prepare
  <2>. QED BY <1>6, <2>1, <2>2 DEF Prepare, Refused
<1>. QED BY <1>1, <1>2, <1>3, <1>4, <1>5, <1>6

LEMMA TreeSteps ==
    ASSUME CallsOK, cache \in Trees, NEW k \in Call,
           NeedTree(k) \/ TakeTree(k) \/ MakeDir(k) \/ Fill(k) \/ Register(k)
    PROVE /\ CallsOK' /\ \A j \in Call \ {k} : call'[j] = call[j]
          /\ UNCHANGED <<gate, phase, host, box, line, unreached>> /\ phase = "running"
          /\ call[k].at \in Building \cup {"tree"}
          /\ call'[k].at \in Building \cup {"prepare", "returned"}
          /\ call'[k].at = "returned" => call'[k].reason = "worktree_unavailable"
          /\ call'[k].backend = call[k].backend
<1> USE DEF At, Building
<1>0. /\ {"prepare", "build", "fill", "register"} \subseteq Places
      /\ "worktree_unavailable" \in Reasons
  BY DEF Places, Reasons, Evaluator
<1>1. CASE NeedTree(k) BY <1>0, <1>1, Moved DEF NeedTree
<1>2. CASE TakeTree(k)
  <2>1. CASE Usable(cache) /\ call' = [call EXCEPT ![k].at = "prepare", ![k].tree = cache]
    BY <1>0, <1>2, <2>1, MovedWithTree DEF TakeTree
  <2>2. CASE Go(k, "build") BY <1>0, <1>2, <2>2, Moved DEF TakeTree
  <2>. QED BY <1>2, <2>1, <2>2 DEF TakeTree
<1>3. CASE MakeDir(k)
  <2>1. ASSUME NEW d \in Dir, call' = [call EXCEPT ![k].at = "fill", ![k].tree = d]
        PROVE  /\ CallsOK' /\ \A j \in Call \ {k} : call'[j] = call[j]
               /\ call'[k].at = "fill" /\ call'[k].backend = call[k].backend
    BY <1>0, <2>1, MovedWithTree DEF Trees
  <2>2. CASE Return(k, "worktree_unavailable") BY <1>0, <1>3, <2>2, HasReturned DEF MakeDir
  <2>. QED BY <1>3, <2>1, <2>2 DEF MakeDir, Release
<1>4. CASE Fill(k)
  <2>1. CASE Go(k, "register") BY <1>0, <1>4, <2>1, Moved DEF Fill
  <2>2. CASE Return(k, "worktree_unavailable") BY <1>0, <1>4, <2>2, HasReturned DEF Fill
  <2>. QED BY <1>4, <2>1, <2>2 DEF Fill, Release
<1>5. CASE Register(k)
  <2>1. CASE Go(k, "prepare") BY <1>0, <1>5, <2>1, Moved DEF Register
  <2>2. CASE Return(k, "worktree_unavailable") BY <1>0, <1>5, <2>2, HasReturned DEF Register
  <2>. QED BY <1>5, <2>1, <2>2 DEF Register, Release
<1>. QED BY <1>1, <1>2, <1>3, <1>4, <1>5

LEMMA WaitSteps ==
    ASSUME CallsOK, NEW k \in Call, Launch(k) \/ Lose(k) \/ TimeOut(k) \/ Clean(k) \/ Parse(k)
    PROVE /\ CallsOK' /\ \A j \in Call \ {k} : call'[j] = call[j]
          /\ UNCHANGED <<gate, phase, host, line, snapshot>> /\ phase = "running"
          /\ call[k].at \in {"launch", "wait", "clean"} /\ call'[k].at \in {"wait", "clean", "returned"}
          /\ call'[k].at = "returned" => call'[k].reason \in Evaluator \cup {"timeout", "graded"}
          /\ call'[k].tree = call[k].tree /\ call'[k].backend = call[k].backend
          /\ call'[k].at = "clean" => ~DiesWithParent(k)
<1> USE DEF At
<1>0. /\ {"wait", "clean"} \subseteq Places /\ Evaluator \cup {"timeout", "graded"} \subseteq Reasons
      /\ {"exception", "container_failed", "invalid_envelope", "receipt_untrusted"} \subseteq Evaluator
  BY DEF Places, Reasons, Evaluator
<1>1. ASSUME NEW reason \in Evaluator \cup {"timeout", "graded"}, Return(k, reason)
      PROVE  /\ CallsOK' /\ \A j \in Call \ {k} : call'[j] = call[j]
             /\ call'[k].at = "returned" /\ call'[k].reason \in Evaluator \cup {"timeout", "graded"}
             /\ call'[k].tree = call[k].tree /\ call'[k].backend = call[k].backend
  <2>1. reason \in Reasons BY <1>0, <1>1
  <2>. QED BY <2>1, <1>1, HasReturned
<1>2. CASE Launch(k)
  <2>1. CASE Go(k, "wait") BY <1>0, <1>2, <2>1, Moved DEF Launch
  <2>2. CASE Return(k, "exception") BY <1>0, <1>1, <1>2, <2>2 DEF Launch
  <2>. QED BY <1>2, <2>1, <2>2 DEF Launch
<1>3. CASE Lose(k) BY <1>0, <1>1, <1>3 DEF Lose
<1>4. CASE TimeOut(k)
  <2>1. CASE ~DiesWithParent(k)
    <3>1. Go(k, "clean") BY <1>4, <2>1 DEF TimeOut
    <3>. QED BY <1>0, <1>4, <2>1, <3>1, Moved DEF TimeOut
  <2>2. CASE DiesWithParent(k)
    <3>1. Return(k, "timeout") BY <1>4, <2>2 DEF TimeOut
    <3>. QED BY <1>0, <1>1, <1>4, <3>1 DEF TimeOut
  <2>. QED BY <2>1, <2>2
<1>5. CASE Clean(k) BY <1>0, <1>1, <1>5 DEF Clean
<1>6. CASE Parse(k)
  <2>1. \E reason \in {"container_failed", "invalid_envelope", "exception", "receipt_untrusted", "graded"} :
           Return(k, reason)
    BY <1>6 DEF Parse
  <2>. QED BY <1>0, <1>1, <1>6, <2>1 DEF Parse
<1>. QED BY <1>2, <1>3, <1>4, <1>5, <1>6

(***************************************************************************)
(* The snapshot                                                            *)
(***************************************************************************)
\* A call that is not at the snapshot goes on or returns.
LEMMA SnapshotLetBe ==
    ASSUME SnapshotInv, NEW k \in Call, CallsOK', \A j \in Call \ {k} : call'[j] = call[j],
           UNCHANGED <<gate, phase, snapshot>>, call[k].at \notin Building, call'[k].at \notin Building,
           call'[k].tree = call[k].tree,
           call'[k].at \in InUse \/ Returned(k, "graded")' => call[k].at \in InUse \/ Returned(k, "graded"),
           call'[k].at \in InUse => call[k].at \in InUse
    PROVE SnapshotInv'
<1> USE DEF SnapshotInv, snapshot, On
<1>1. SnapshotType' BY DEF SnapshotType
<1>2. LockHeld' BY DEF LockHeld
<1>3. MakersOwn' BY DEF MakersOwn, Building
<1>4. UsersHave' BY DEF UsersHave, Returned
<1>5. MadeForRemoval'
  <2>1. \A j \in Call : call[j].at \in {"fill", "register"} => call'[j] = call[j] BY DEF Building
  <2>. QED BY <2>1 DEF MadeForRemoval
<1>6. NothingLeft' BY DEF NothingLeft
<1>. QED BY <1>1, <1>2, <1>3, <1>4, <1>5, <1>6

LEMMA SnapshotSteps ==
    ASSUME SnapshotInv, NEW k \in Call, CallStep(k) PROVE SnapshotInv'
<1> USE DEF On
<1>0. CallsOK /\ SnapshotType /\ LockHeld /\ MakersOwn /\ UsersHave /\ MadeForRemoval /\ NothingLeft
      /\ cache \in Trees
  BY DEF SnapshotInv, SnapshotType, Trees
<1>1. CASE Select(k) \/ Configure(k) \/ FindBackend(k) \/ CheckImage(k) \/ BindInput(k) \/ Prepare(k)
  BY <1>0, <1>1, ClientSteps, SnapshotLetBe DEF Before, Building, InUse, Returned
<1>2. CASE Launch(k) \/ TimeOut(k) \/ Clean(k) \/ Parse(k)
  BY <1>0, <1>2, WaitSteps, SnapshotLetBe DEF Building, InUse, Returned
<1>3. CASE NeedTree(k)
  <2>1. /\ CallsOK' /\ \A j \in Call \ {k} : call'[j] = call[j]
        /\ call[k].at = "tree" /\ call'[k].at = "prepare" /\ ~On("worktree")
        /\ UNCHANGED <<gate, phase, snapshot>>
    BY <1>0, <1>3, Moved DEF NeedTree, At, Places
  <2>2. \A j \in Call : call[j].at \notin Building /\ call'[j].at \notin Building
    BY <1>0, <2>1 DEF LockHeld, Building
  <2>3. SnapshotType' BY <1>0, <2>1 DEF SnapshotType, snapshot
  <2>4. LockHeld' /\ MakersOwn' BY <2>2 DEF LockHeld, MakersOwn, Building
  <2>5. UsersHave' /\ NothingLeft' BY <1>0, <2>1 DEF UsersHave, NothingLeft, snapshot
  <2>6. MadeForRemoval' BY <1>0, <2>1, <2>2 DEF MadeForRemoval, snapshot, Building
  <2>. QED BY <2>1, <2>3, <2>4, <2>5, <2>6 DEF SnapshotInv
<1>4. CASE TakeTree(k)
  <2>1. /\ \A j \in Call \ {k} : call'[j] = call[j]
        /\ UNCHANGED <<gate, phase, dir, owned>> /\ phase = "running" /\ CallsOK'
    BY <1>0, <1>4, TreeSteps DEF TakeTree
  <2>2. /\ call[k].at = "tree" /\ On("worktree") /\ lock = Free
        /\ \A j \in Call : call[j].at \notin Building
    BY <1>0, <1>4, FreeAssumption DEF TakeTree, At, LockHeld
  <2>3. CASE /\ Usable(cache) /\ UNCHANGED <<cache, lock>>
             /\ call' = [call EXCEPT ![k].at = "prepare", ![k].tree = cache]
    <3>1. PICK place \in Places : place = "prepare" BY DEF Places
    <3>2. call' = [call EXCEPT ![k].at = place, ![k].tree = cache] BY <2>3, <3>1
    <3>3. call'[k].at = place /\ call'[k].tree = cache BY <1>0, <3>2 DEF CallsOK
    <3>4. call'[k].at = "prepare" /\ call'[k].tree \in Dir /\ dir[call'[k].tree] \in {"whole", "torn"}
      BY <1>0, <2>3, <3>1, <3>3 DEF Usable, SnapshotType
    <3>5. \A j \in Call : call'[j].at \notin Building BY <2>1, <2>2, <3>4 DEF Building
    <3>6. SnapshotType' BY <1>0, <2>1, <2>3 DEF SnapshotType
    <3>7. LockHeld' /\ MakersOwn' BY <3>5 DEF LockHeld, MakersOwn, Building
    <3>8. UsersHave' BY <1>0, <2>1, <3>4 DEF UsersHave, Returned
    <3>9. MadeForRemoval' /\ NothingLeft'
      BY <1>0, <2>1, <2>2 DEF MadeForRemoval, NothingLeft, Building
    <3>. QED BY <2>1, <3>6, <3>7, <3>8, <3>9 DEF SnapshotInv
  <2>4. CASE cache' = NoDir /\ lock' = k /\ Go(k, "build")
    <3>1. call'[k].at = "build" BY <1>0, <2>4, Moved DEF Places
    <3>2. SnapshotType' BY <1>0, <2>1, <2>4 DEF SnapshotType
    <3>3. LockHeld' BY <2>1, <2>2, <2>4 DEF LockHeld
    <3>4. MakersOwn' BY <2>1, <2>2, <3>1 DEF MakersOwn, Building
    <3>5. UsersHave' BY <1>0, <2>1, <3>1 DEF UsersHave, Returned, InUse
    <3>6. MadeForRemoval' /\ NothingLeft'
      BY <1>0, <2>1, <2>2 DEF MadeForRemoval, NothingLeft, Building
    <3>. QED BY <2>1, <3>2, <3>3, <3>4, <3>5, <3>6 DEF SnapshotInv
  <2>. QED BY <1>4, <2>3, <2>4 DEF TakeTree
<1>5. CASE MakeDir(k) \/ Fill(k) \/ Register(k)
  <2>1. /\ \A j \in Call \ {k} : call'[j] = call[j] /\ call[j].at \notin Building
        /\ UNCHANGED <<gate, phase>> /\ phase = "running" /\ CallsOK'
        /\ On("worktree") /\ lock = k /\ call[k].at \in Building
        /\ call'[k].at \in Building \cup {"prepare", "returned"}
        /\ call'[k].at = "returned" => call'[k].reason = "worktree_unavailable"
    <3>1. call[k].at \in Building BY <1>5 DEF MakeDir, Fill, Register, At, Building
    <3>. QED BY <1>0, <1>5, <3>1, TreeSteps DEF LockHeld
  <2>2. CASE MakeDir(k)
    <3>1. CASE /\ UNCHANGED <<dir, cache, owned>> /\ Release(Return(k, "worktree_unavailable"))
      <4>1. call'[k].at = "returned" /\ call[k].at = "build"
        BY <1>0, <2>2, <3>1, HasReturned DEF Release, Reasons, Evaluator, MakeDir, At
      <4>2. \A j \in Call : call'[j].at \notin Building BY <2>1, <4>1 DEF Building
      <4>3. SnapshotType' BY <1>0, <2>1, <3>1 DEF SnapshotType
      <4>4. LockHeld' /\ MakersOwn' BY <4>2 DEF LockHeld, MakersOwn, Building
      <4>5. UsersHave' BY <1>0, <2>1, <3>1, <4>1 DEF UsersHave, Returned, InUse
      <4>6. MadeForRemoval' /\ NothingLeft'
        BY <1>0, <2>1, <3>1, <4>1 DEF MadeForRemoval, NothingLeft, Building
      <4>. QED BY <2>1, <4>3, <4>4, <4>5, <4>6 DEF SnapshotInv
    <3>2. ASSUME NEW d \in Dir, dir[d] = "none", dir' = [dir EXCEPT ![d] = "building"],
                 call' = [call EXCEPT ![k].at = "fill", ![k].tree = d],
                 UNCHANGED <<cache, owned, lock>>
          PROVE  SnapshotInv'
      <4>1. PICK place \in Places : place = "fill" BY DEF Places
      <4>2. call' = [call EXCEPT ![k].at = place, ![k].tree = d] BY <3>2, <4>1
      <4>3. d \in Trees BY DEF Trees
      <4>4. call'[k].at = place /\ call'[k].tree = d BY <1>0, <4>2, <4>3 DEF CallsOK
      <4>5. call'[k].at = "fill" /\ call'[k].tree = d /\ call[k].at = "build"
        BY <2>2, <4>1, <4>4 DEF MakeDir, At
      <4>6. SnapshotType' BY <1>0, <2>1, <3>2 DEF SnapshotType
      <4>7. LockHeld' BY <1>0, <2>1, <3>2 DEF LockHeld
      <4>a. /\ dir[d] = "none" /\ dir'[d] = "building" /\ owned' = owned
            /\ \A e \in Dir : e # d => dir'[e] = dir[e]
        BY <1>0, <3>2 DEF SnapshotType
      <4>8. MakersOwn'
        BY <2>1, <4>5, <4>a DEF MakersOwn, Building
      <4>9. UsersHave'
        BY <1>0, <2>1, <4>5, <4>a DEF UsersHave, Returned, InUse
      <4>b. NothingLeft'
        BY <2>1 DEF NothingLeft
      <4>10. MadeForRemoval'
        BY <1>0, <2>1, <4>5, <4>a DEF MadeForRemoval, Building
      <4>. QED BY <2>1, <4>6, <4>7, <4>8, <4>9, <4>b, <4>10 DEF SnapshotInv
    <3>. QED BY <2>2, <3>1, <3>2 DEF MakeDir
  <2>3. CASE Fill(k)
    <3>0. PICK d \in Dir : d = call[k].tree /\ dir[d] = "building" /\ call[k].at = "fill"
      BY <1>0, <2>3 DEF Fill, At, MakersOwn
    <3>1. CASE /\ dir' = [dir EXCEPT ![d] = "whole"] /\ cache' = d
               /\ Go(k, "register") /\ UNCHANGED <<lock, owned>>
      <4>1. call'[k].at = "register" /\ call'[k].tree = d BY <1>0, <3>0, <3>1, Moved DEF Places
      <4>2. SnapshotType' BY <1>0, <2>1, <3>1 DEF SnapshotType
      <4>3. LockHeld' BY <1>0, <2>1, <3>1 DEF LockHeld
      <4>4. MakersOwn'
        <5>1. dir'[d] = "whole" BY <1>0, <3>1 DEF SnapshotType
        <5>2. \A j \in Call : call'[j].at \in InUse => j # k /\ call[j].tree # d
          BY <1>0, <2>1, <3>0, <4>1 DEF UsersHave, InUse
        <5>. QED BY <2>1, <4>1, <5>1, <5>2 DEF MakersOwn, Building
      <4>a. dir'[d] = "whole" /\ \A e \in Dir : e # d => dir'[e] = dir[e]
        BY <1>0, <3>1 DEF SnapshotType
      <4>5. UsersHave' /\ NothingLeft'
        BY <1>0, <2>1, <3>0, <4>1, <4>a DEF UsersHave, Returned, InUse, NothingLeft
      <4>6. MadeForRemoval'
        BY <1>0, <2>1, <3>0, <3>1, <4>1, <4>a DEF MadeForRemoval, Building
      <4>. QED BY <2>1, <4>2, <4>3, <4>4, <4>5, <4>6 DEF SnapshotInv
    <3>2. CASE /\ dir' \in {Removed(d), Torn(d)} /\ UNCHANGED <<cache, owned>>
               /\ Release(Return(k, "worktree_unavailable"))
      <4>1. call'[k].at = "returned"
        BY <1>0, <3>2, HasReturned DEF Release, Reasons, Evaluator
      <4>2. /\ \A j \in Call : call'[j].at \notin Building
            /\ \A e \in Dir : e # d => dir'[e] = dir[e]
            /\ dir'[d] \in {"torn", "gone"} /\ SnapshotType'
        BY <1>0, <2>1, <3>2, <4>1 DEF Building, SnapshotType, Removed, Torn
      <4>3. LockHeld' /\ MakersOwn' BY <4>2 DEF LockHeld, MakersOwn, Building
      <4>4. UsersHave' /\ NothingLeft'
        BY <1>0, <2>1, <3>0, <4>1, <4>2 DEF UsersHave, Returned, InUse, NothingLeft
      <4>5. MadeForRemoval'
        BY <1>0, <2>1, <3>0, <3>2, <4>2 DEF MadeForRemoval, Building
      <4>. QED BY <2>1, <4>2, <4>3, <4>4, <4>5 DEF SnapshotInv
    <3>. QED BY <2>3, <3>0, <3>1, <3>2 DEF Fill
  <2>4. CASE Register(k)
    <3>0. PICK d \in Dir : /\ d = call[k].tree /\ dir[d] \in {"whole", "torn"} /\ call[k].at = "register"
                           /\ \A j \in Call : call[j].at \in InUse => call[j].tree # d
      BY <1>0, <2>4 DEF Register, At, MakersOwn
    <3>1. CASE /\ owned' = Owned(d) /\ Release(Go(k, "prepare")) /\ UNCHANGED <<dir, cache>>
      <4>1. call'[k].at = "prepare" /\ call'[k].tree = d
        BY <1>0, <3>0, <3>1, Moved DEF Places, Release
      <4>2. \A j \in Call : call'[j].at \notin Building BY <2>1, <4>1 DEF Building
      <4>3. SnapshotType' BY <1>0, <2>1, <3>1 DEF SnapshotType, Owned
      <4>4. LockHeld' /\ MakersOwn' BY <4>2 DEF LockHeld, MakersOwn, Building
      <4>5. UsersHave' /\ NothingLeft'
        BY <1>0, <2>1, <3>0, <3>1, <4>1 DEF UsersHave, Returned, NothingLeft
      <4>6. MadeForRemoval'
        BY <1>0, <2>1, <3>0, <3>1 DEF MadeForRemoval, Building, Owned
      <4>. QED BY <2>1, <4>3, <4>4, <4>5, <4>6 DEF SnapshotInv
    <3>2. CASE /\ \/ dir' = Removed(d) /\ cache' = NoDir
                  \/ dir' = Torn(d) /\ UNCHANGED cache
               /\ Release(Return(k, "worktree_unavailable")) /\ UNCHANGED owned
      <4>1. call'[k].at = "returned"
        BY <1>0, <3>2, HasReturned DEF Release, Reasons, Evaluator
      <4>2. /\ \A j \in Call : call'[j].at \notin Building
            /\ \A e \in Dir : e # d => dir'[e] = dir[e]
            /\ dir'[d] \in {"torn", "gone"} /\ SnapshotType'
        BY <1>0, <2>1, <3>2, <4>1 DEF Building, SnapshotType, Removed, Torn
      <4>3. LockHeld' /\ MakersOwn' BY <4>2 DEF LockHeld, MakersOwn, Building
      <4>4. UsersHave' /\ NothingLeft'
        BY <1>0, <2>1, <3>0, <4>1, <4>2 DEF UsersHave, Returned, InUse, NothingLeft
      <4>5. MadeForRemoval'
        BY <1>0, <2>1, <3>0, <3>2, <4>2 DEF MadeForRemoval, Building
      <4>. QED BY <2>1, <4>2, <4>3, <4>4, <4>5 DEF SnapshotInv
    <3>. QED BY <2>4, <3>0, <3>1, <3>2 DEF Register
  <2>. QED BY <1>5, <2>2, <2>3, <2>4
<1>. QED BY <1>1, <1>2, <1>3, <1>4, <1>5 DEF CallStep

LEMMA SnapshotKept ==
    ASSUME SnapshotInv, [Next]_vars PROVE SnapshotInv'
<1> USE DEF On
<1>0. CallsOK /\ SnapshotType /\ LockHeld /\ MakersOwn /\ UsersHave /\ MadeForRemoval /\ NothingLeft
  BY DEF SnapshotInv
<1>1. ASSUME NEW k \in Call, CallStep(k) PROVE SnapshotInv' BY <1>1, SnapshotSteps
<1>2. CASE UNCHANGED <<gate, phase, call, snapshot>>
  BY <1>0, <1>2 DEF SnapshotInv, CallsOK, SnapshotType, LockHeld, MakersOwn, UsersHave,
     MadeForRemoval, NothingLeft, Returned, snapshot
<1>3. ASSUME NEW k \in Call, BoxStep(k) PROVE SnapshotInv'
  <2>1. CASE Lose(k)
    BY <1>0, <2>1, WaitSteps, SnapshotLetBe DEF Building, InUse, Returned, SnapshotInv, Lose, At
  <2>2. CASE Create(k) \/ Begin(k) \/ Finish(k) BY <1>2, <2>2 DEF Create, Begin, Finish
  <2>. QED BY <1>3, <2>1, <2>2 DEF BoxStep
<1>4. CASE DaemonGoes \/ DaemonComes BY <1>2, <1>4 DEF DaemonGoes, DaemonComes
<1>5. ASSUME NEW d \in Dir, Reap(d) PROVE SnapshotInv'
  <2>1. /\ dir[d] = "whole" /\ dir' = [dir EXCEPT ![d] = "torn"]
        /\ UNCHANGED <<gate, phase, call, cache, owned, lock>>
    BY <1>5 DEF Reap, Torn
  <2>2. /\ \A e \in Dir : e # d => dir'[e] = dir[e]
        /\ dir'[d] = "torn" /\ SnapshotType'
    BY <1>0, <2>1 DEF SnapshotType
  <2>3. CallsOK' /\ LockHeld' BY <1>0, <2>1 DEF CallsOK, LockHeld
  <2>4. MakersOwn' BY <1>0, <2>1, <2>2 DEF MakersOwn
  <2>5. UsersHave'
    <3>1. \A e : dir[e] \in {"whole", "torn"} /\ e \in Dir => dir'[e] \in {"whole", "torn"} BY <2>2
    <3>. QED BY <1>0, <2>1, <3>1 DEF UsersHave, Returned
  <2>6. MadeForRemoval' /\ NothingLeft' BY <1>0, <2>1, <2>2 DEF MadeForRemoval, NothingLeft
  <2>. QED BY <2>2, <2>3, <2>4, <2>5, <2>6 DEF SnapshotInv
<1>6. CASE Exit
  <2>1. PICK left \in {"gone", "torn"} : dir' = [d \in Dir |-> IF d \in owned THEN left ELSE dir[d]]
    BY <1>6 DEF Exit
  <2>2. /\ phase = "running" /\ phase' = "exited" /\ \A k \in Call : call[k].at = "returned"
        /\ UNCHANGED <<gate, call, cache, owned, lock>>
    BY <1>6 DEF Exit
  <2>3. SnapshotType' BY <1>0, <2>1, <2>2 DEF SnapshotType
  <2>4. CallsOK' /\ LockHeld' /\ MakersOwn' BY <1>0, <2>2 DEF CallsOK, LockHeld, MakersOwn, Building
  <2>5. UsersHave' BY <1>0, <2>2 DEF UsersHave, Returned
  <2>6. MadeForRemoval' BY <2>2 DEF MadeForRemoval
  <2>7. NothingLeft' BY <1>0, <2>1, <2>2 DEF NothingLeft, MadeForRemoval, SnapshotType
  <2>. QED BY <2>3, <2>4, <2>5, <2>6, <2>7 DEF SnapshotInv
<1>7. CASE Kill
  <2>1. phase' = "killed" /\ UNCHANGED <<gate, call, snapshot>> BY <1>7 DEF Kill
  <2>. QED BY <1>0, <2>1 DEF SnapshotInv, CallsOK, SnapshotType, LockHeld, MakersOwn, UsersHave,
            MadeForRemoval, NothingLeft, Returned, snapshot
<1>8. CASE UNCHANGED vars BY <1>2, <1>8 DEF vars, snapshot
<1>. QED BY <1>1, <1>3, <1>4, <1>5, <1>6, <1>7, <1>8 DEF Next

(***************************************************************************)
(* The boxes                                                               *)
(***************************************************************************)
\* Before the launch a call has no box, so wherever it goes it leaves none.
LEMMA NothingLaunched ==
    ASSUME BoxInv, NEW k \in Call, CallsOK', \A j \in Call \ {k} : call'[j] = call[j],
           UNCHANGED <<phase, box, unreached>>, call[k].at \in Early,
           call'[k].at \in Early \cup {"returned"},
           call'[k].at \notin Before \cup {"returned"} => call'[k].backend # "none"
    PROVE BoxInv'
<1>1. box[k] = "none" BY DEF BoxInv, LaunchedLate
<1>2. CallsOK' /\ BoxType' BY DEF BoxInv, BoxType
<1>3. LaunchedLate' BY <1>1 DEF BoxInv, LaunchedLate, Early, Before, Building
<1>4. UnmeasuredRanNothing' BY <1>1 DEF BoxInv, UnmeasuredRanNothing
<1>5. LeftoverHasReason' BY <1>1 DEF BoxInv, LeftoverHasReason, Living
<1>. QED BY <1>2, <1>3, <1>4, <1>5 DEF BoxInv

\* What a call returns once it has launched is nobody's excuse for not measuring.
LEMMA Measured ==
    ASSUME NEW reason \in Evaluator \cup {"timeout", "graded"}
    PROVE Status(reason) \notin {"NONE", "NOT_CONFIGURED", "INFRA_UNAVAILABLE"}
BY DEF Status, Evaluator, Infra

\* The call has launched: its box goes on, and when it returns what is left has a reason.
LEMMA BoxGoesOn ==
    ASSUME BoxInv, NEW k \in Call, CallsOK', \A j \in Call \ {k} : call'[j] = call[j] /\ box'[j] = box[j],
           BoxType', UNCHANGED phase, unreached \subseteq unreached',
           call[k].at \notin Before \cup {"returned"}, call'[k].at \in {"wait", "clean", "returned"},
           call'[k].backend = call[k].backend,
           call'[k].at = "clean" => call[k].backend = "docker",
           call'[k].at = "returned" =>
              call'[k].reason \in Evaluator \cup {"timeout", "graded"},
           call'[k].at = "returned" \/ phase = "killed" =>
              (box'[k] \in Living \cup {"starting"} => call[k].backend = "docker" /\ k \in unreached')
    PROVE BoxInv'
<1>1. call[k].backend # "none" BY DEF BoxInv, LaunchedLate
<1>2. LaunchedLate' BY <1>1 DEF BoxInv, LaunchedLate, Early, Before, Building
<1>3. UnmeasuredRanNothing' BY Measured DEF BoxInv, UnmeasuredRanNothing
<1>4. LeftoverHasReason' BY DEF BoxInv, LeftoverHasReason
<1>. QED BY <1>2, <1>3, <1>4 DEF BoxInv

LEMMA WaitStepsKeepBoxes ==
    ASSUME BoxInv, NEW k \in Call, Launch(k) \/ Lose(k) \/ TimeOut(k) \/ Clean(k) \/ Parse(k)
    PROVE BoxInv'
<1> USE DEF At
<1>0. /\ CallsOK /\ BoxType /\ LaunchedLate /\ phase = "running" /\ UNCHANGED phase
      /\ CallsOK' /\ \A j \in Call \ {k} : call'[j] = call[j]
      /\ call[k].at \in {"launch", "wait", "clean"} /\ call'[k].at \in {"wait", "clean", "returned"}
      /\ call'[k].at = "returned" => call'[k].reason \in Evaluator \cup {"timeout", "graded"}
      /\ call'[k].backend = call[k].backend
      /\ call'[k].at = "clean" => call[k].backend # "bwrap"
  BY WaitSteps DEF BoxInv, DiesWithParent
<1>1. /\ call[k].backend \in {"docker", "bwrap"} /\ (call'[k].at = "clean" => call[k].backend = "docker")
      /\ call[k].at \notin Before \cup {"returned"}
  BY <1>0 DEF CallsOK, Backends, LaunchedLate, Before
<1>2. CASE Launch(k)
  <2>1. call[k].at = "launch" /\ box[k] = "none" BY <1>0, <1>2 DEF Launch, LaunchedLate, Early
  <2>2. CASE box' = [box EXCEPT ![k] = "starting"] /\ Go(k, "wait")
    <3>1. call'[k].at = "wait" BY <1>0, <2>2, Moved DEF Places
    <3>2. BoxType' /\ \A j \in Call \ {k} : box'[j] = box[j] BY <1>0, <2>2 DEF BoxType
    <3>3. UNCHANGED unreached BY <1>2 DEF Launch
    <3>. QED BY <1>0, <1>1, <3>1, <3>2, <3>3, BoxGoesOn
  <2>3. CASE UNCHANGED box
    <3>1. BoxType' BY <1>0, <2>3 DEF BoxType
    <3>2. UNCHANGED unreached BY <1>2 DEF Launch
    <3>. QED BY <1>0, <1>1, <2>1, <2>3, <3>1, <3>2, BoxGoesOn DEF Living
  <2>. QED BY <1>2, <2>2, <2>3 DEF Launch
<1>3. CASE Lose(k)
  <2>1. CASE box' = [box EXCEPT ![k] = "gone"] /\ UNCHANGED unreached
    <3>1. BoxType' /\ box'[k] = "gone" /\ \A j \in Call \ {k} : box'[j] = box[j]
      BY <1>0, <2>1 DEF BoxType
    <3>. QED BY <1>0, <1>1, <2>1, <3>1, BoxGoesOn DEF Living
  <2>2. CASE call[k].backend = "docker" /\ unreached' = unreached \cup {k} /\ UNCHANGED box
    <3>1. BoxType' BY <1>0, <2>2 DEF BoxType
    <3>. QED BY <1>0, <1>1, <2>2, <3>1, BoxGoesOn
  <2>. QED BY <1>3, <2>1, <2>2 DEF Lose
<1>4. CASE TimeOut(k)
  <2>0. UNCHANGED unreached BY <1>4 DEF TimeOut
  <2>1. CASE box' = [box EXCEPT ![k] = "exited"]
    <3>1. BoxType' /\ box'[k] = "exited" /\ \A j \in Call \ {k} : box'[j] = box[j]
      BY <1>0, <2>1 DEF BoxType
    <3>. QED BY <1>0, <1>1, <2>0, <3>1, BoxGoesOn DEF Living
  <2>2. CASE (UNCHANGED box \/ box' = [box EXCEPT ![k] = "gone"]) /\ Go(k, "clean")
    <3>1. call'[k].at = "clean" BY <1>0, <2>2, Moved DEF Places
    <3>2. BoxType' /\ \A j \in Call \ {k} : box'[j] = box[j] BY <1>0, <2>2 DEF BoxType
    <3>. QED BY <1>0, <1>1, <2>0, <3>1, <3>2, BoxGoesOn
  <2>. QED BY <1>4, <2>1, <2>2 DEF TimeOut
<1>5. CASE Clean(k)
  <2>1. CASE box' = [box EXCEPT ![k] = "gone"] /\ UNCHANGED unreached
    <3>1. BoxType' /\ box'[k] = "gone" /\ \A j \in Call \ {k} : box'[j] = box[j]
      BY <1>0, <2>1 DEF BoxType
    <3>. QED BY <1>0, <1>1, <2>1, <3>1, BoxGoesOn DEF Living
  <2>2. CASE UNCHANGED box /\ unreached \subseteq unreached'
             /\ (box[k] \in Living \cup {"starting"} => k \in unreached')
    <3>0. call[k].backend = "docker" BY <1>0, <1>5 DEF Clean, LaunchedLate
    <3>1. BoxType' BY <1>0, <2>2 DEF BoxType
    <3>. QED BY <1>0, <1>1, <2>2, <3>0, <3>1, BoxGoesOn
  <2>. QED BY <1>5, <2>1, <2>2 DEF Clean, Removable
<1>6. CASE Parse(k)
  <2>1. box[k] = "exited" /\ UNCHANGED <<box, unreached>> /\ BoxType'
    BY <1>0, <1>6 DEF Parse, BoxType
  <2>. QED BY <1>0, <1>1, <2>1, BoxGoesOn DEF Living
<1>. QED BY <1>2, <1>3, <1>4, <1>5, <1>6

LEMMA BoxesKept ==
    ASSUME SnapshotInv, BoxInv, [Next]_vars PROVE BoxInv'
<1>0. CallsOK /\ BoxType /\ LaunchedLate /\ UnmeasuredRanNothing /\ LeftoverHasReason
  BY DEF BoxInv
<1>1. CASE UNCHANGED <<phase, call, box, unreached>>
  BY <1>0, <1>1 DEF BoxInv, CallsOK, BoxType, LaunchedLate, UnmeasuredRanNothing, LeftoverHasReason
<1>2. ASSUME NEW k \in Call, CallStep(k) PROVE BoxInv'
  <2>1. CASE Select(k) \/ Configure(k) \/ FindBackend(k) \/ CheckImage(k) \/ BindInput(k) \/ Prepare(k)
    <3>1. /\ CallsOK' /\ \A j \in Call \ {k} : call'[j] = call[j]
          /\ UNCHANGED <<phase, box, unreached>>
          /\ call[k].at \in Early /\ call'[k].at \in Early \cup {"returned"}
      BY <1>0, <2>1, ClientSteps DEF Early, Before
    <3>2. call'[k].at \notin Before \cup {"returned"} => call'[k].backend # "none"
      <4>1. CASE call[k].at \in Before BY <1>0, <2>1, <4>1, ClientSteps
      <4>2. CASE call[k].at \notin Before
        <5>1. call[k].at # "returned" BY <3>1 DEF Early, Before, Building
        <5>. QED BY <1>0, <2>1, <4>2, <5>1, ClientSteps DEF LaunchedLate
      <4>. QED BY <4>1, <4>2
    <3>. QED BY <3>1, <3>2, NothingLaunched
  <2>2. CASE NeedTree(k) \/ TakeTree(k) \/ MakeDir(k) \/ Fill(k) \/ Register(k)
    <3>1. cache \in Trees BY DEF SnapshotInv, SnapshotType, Trees
    <3>2. /\ CallsOK' /\ \A j \in Call \ {k} : call'[j] = call[j]
          /\ UNCHANGED <<phase, box, unreached>>
          /\ call[k].at \in Early \ Before /\ call'[k].at \in Early \cup {"returned"}
          /\ call'[k].backend = call[k].backend /\ call[k].at # "returned"
      BY <1>0, <2>2, <3>1, TreeSteps DEF Early, Before, Building
    <3>3. call'[k].backend # "none" BY <1>0, <3>2 DEF LaunchedLate
    <3>. QED BY <3>2, <3>3, NothingLaunched
  <2>3. CASE Launch(k) \/ TimeOut(k) \/ Clean(k) \/ Parse(k) BY <2>3, WaitStepsKeepBoxes
  <2>. QED BY <1>2, <2>1, <2>2, <2>3 DEF CallStep
<1>3. ASSUME NEW k \in Call, BoxStep(k) PROVE BoxInv'
  <2>1. CASE Lose(k) BY <2>1, WaitStepsKeepBoxes
  <2>2. CASE Create(k) \/ Begin(k) \/ Finish(k)
    <3>1. PICK left \in {"created", "running", "exited"} : box' = [box EXCEPT ![k] = left]
      BY <2>2 DEF Create, Begin, Finish
    <3>2. /\ box[k] \in Living \cup {"starting"} /\ UNCHANGED <<phase, call, unreached>>
      BY <2>2 DEF Create, Begin, Finish, Living
    <3>3. BoxType' /\ box'[k] # "none" /\ \A j \in Call \ {k} : box'[j] = box[j]
      BY <1>0, <3>1, <3>2 DEF BoxType
    <3>4. CallsOK' BY <1>0, <3>2 DEF CallsOK
    <3>5. LaunchedLate' BY <1>0, <3>2, <3>3 DEF LaunchedLate, Living
    <3>6. UnmeasuredRanNothing' BY <1>0, <3>2, <3>3 DEF UnmeasuredRanNothing, Living
    <3>7. LeftoverHasReason' BY <1>0, <3>2, <3>3 DEF LeftoverHasReason
    <3>. QED BY <3>3, <3>4, <3>5, <3>6, <3>7 DEF BoxInv
  <2>. QED BY <1>3, <2>1, <2>2 DEF BoxStep
<1>4. CASE DaemonGoes \/ DaemonComes BY <1>1, <1>4 DEF DaemonGoes, DaemonComes
<1>5. ASSUME NEW d \in Dir, Reap(d) PROVE BoxInv' BY <1>1, <1>5 DEF Reap
<1>6. CASE Exit
  <2>1. /\ phase = "running" /\ phase' = "exited" /\ UNCHANGED <<call, box, unreached>>
        /\ \A k \in Call : call[k].at = "returned"
    BY <1>6 DEF Exit
  <2>2. BoxType' /\ CallsOK' /\ LaunchedLate' /\ UnmeasuredRanNothing'
    BY <1>0, <2>1 DEF BoxType, CallsOK, LaunchedLate, UnmeasuredRanNothing
  <2>3. LeftoverHasReason' BY <1>0, <2>1 DEF LeftoverHasReason
  <2>. QED BY <2>2, <2>3 DEF BoxInv
<1>7. CASE Kill
  <2>1. /\ phase' = "killed" /\ UNCHANGED <<call, unreached>>
        /\ box' = [k \in Call |-> IF DiesWithParent(k) /\ box[k] \in Living \cup {"starting"}
                                  THEN "exited" ELSE box[k]]
    BY <1>7 DEF Kill
  <2>2. /\ BoxType' /\ \A k \in Call : /\ box'[k] = "none" <=> box[k] = "none"
                                       /\ box'[k] \in {box[k], "exited"}
                                       /\ box'[k] \in Living \cup {"starting"} => ~DiesWithParent(k)
    BY <1>0, <2>1 DEF BoxType, Living
  <2>3. CallsOK' /\ LaunchedLate' /\ UnmeasuredRanNothing'
    BY <1>0, <2>1, <2>2 DEF CallsOK, LaunchedLate, UnmeasuredRanNothing
  <2>4. LeftoverHasReason'
    <3>1. \A k \in Call : box'[k] \in Living \cup {"starting"} => call[k].backend = "docker"
      BY <1>0, <2>2 DEF LaunchedLate, CallsOK, Backends, DiesWithParent, Living
    <3>. QED BY <2>1, <3>1 DEF LeftoverHasReason
  <2>. QED BY <2>2, <2>3, <2>4 DEF BoxInv
<1>8. CASE UNCHANGED vars BY <1>1, <1>8 DEF vars
<1>. QED BY <1>2, <1>3, <1>4, <1>5, <1>6, <1>7, <1>8 DEF Next

(***************************************************************************)
(* The grades                                                              *)
(***************************************************************************)
\* A call that is not graded by the step goes on, in the image that it had or
\* that was just found to be the right one.
LEMMA NoGrade ==
    ASSUME GradeInv, CallsOK, NEW k \in Call, \A j \in Call \ {k} : call'[j] = call[j],
           UNCHANGED <<gate, image, line>>,
           \A j \in Call : box'[j] = box[j] \/ box'[j] \in {"exited", "gone"}
                                \/ (box[j] = "none" /\ box'[j] = "starting"),
           \A j \in Call : Returned(j, "graded") => box'[j] = box[j],
           ~Returned(k, "graded"), ~Returned(k, "graded")',
           call'[k].at \notin Before \cup {"image", "returned"} =>
              \/ call[k].at \notin Before \cup {"image", "returned"} /\ call'[k].backend = call[k].backend
              \/ call'[k].backend = "bwrap"
              \/ On("pin") \/ On("entry") => image = "trusted"
    PROVE GradeInv'
<1> USE DEF On
<1>1. LinesAreOwn' /\ (line \in [Call -> Line])' BY DEF GradeInv, LinesAreOwn
<1>2. ImageOK' BY DEF GradeInv, ImageOK, Returned
<1>3. GradesOK' BY DEF GradeInv, GradesOK, Returned
<1>. QED BY <1>1, <1>2, <1>3 DEF GradeInv

LEMMA GradesKept ==
    ASSUME SnapshotInv, BoxInv, GradeInv, [Next]_vars PROVE GradeInv'
<1> USE DEF On
<1>0. /\ CallsOK /\ BoxType /\ LaunchedLate /\ line \in [Call -> Line] /\ LinesAreOwn /\ ImageOK
      /\ GradesOK
  BY DEF BoxInv, GradeInv
<1>1. CASE UNCHANGED <<gate, image, call, box, line>>
  BY <1>0, <1>1 DEF GradeInv, LinesAreOwn, ImageOK, GradesOK, Returned
<1>2. ASSUME NEW k \in Call, CallStep(k) PROVE GradeInv'
  <2>1. CASE Select(k) \/ Configure(k) \/ FindBackend(k) \/ CheckImage(k) \/ BindInput(k) \/ Prepare(k)
    <3>1. /\ \A j \in Call \ {k} : call'[j] = call[j]
          /\ UNCHANGED <<gate, host, line, box>>
          /\ ~Returned(k, "graded") /\ ~Returned(k, "graded")'
      BY <1>0, <2>1, ClientSteps DEF Returned, Before
    <3>2. call'[k].at \notin Before \cup {"image", "returned"} =>
              \/ call[k].at \notin Before \cup {"image", "returned"} /\ call'[k].backend = call[k].backend
              \/ call'[k].backend = "bwrap"
              \/ On("pin") \/ On("entry") => image = "trusted"
      <4>1. CASE call[k].at \in Before BY <1>0, <2>1, <4>1, ClientSteps
      <4>2. CASE call[k].at = "image"
        BY <1>0, <2>1, <4>2, ClientSteps DEF ImageIdTrusted, EntryDigestTrusted
      <4>3. CASE call[k].at \in {"prepare", "argv"} BY <1>0, <2>1, <4>3, ClientSteps DEF Before
      <4>. QED BY <1>0, <2>1, <4>1, <4>2, <4>3, ClientSteps
    <3>. QED BY <1>0, <3>1, <3>2, NoGrade DEF host
  <2>2. CASE NeedTree(k) \/ TakeTree(k) \/ MakeDir(k) \/ Fill(k) \/ Register(k)
    <3>1. cache \in Trees BY DEF SnapshotInv, SnapshotType, Trees
    <3>2. /\ \A j \in Call \ {k} : call'[j] = call[j]
          /\ UNCHANGED <<gate, host, line, box>>
          /\ call[k].at \notin Before \cup {"image", "returned"}
          /\ call'[k].at = "returned" => call'[k].reason # "graded"
          /\ call'[k].backend = call[k].backend
      BY <1>0, <2>2, <3>1, TreeSteps DEF Before, Building
    <3>. QED BY <1>0, <3>2, NoGrade DEF Returned, host
  <2>3. CASE Launch(k) \/ TimeOut(k) \/ Clean(k)
    <3>1. /\ \A j \in Call \ {k} : call'[j] = call[j]
          /\ UNCHANGED <<gate, host, line>>
          /\ call[k].at \notin Before \cup {"image", "returned"}
          /\ call'[k].backend = call[k].backend
      BY <1>0, <2>3, WaitSteps DEF Before
    <3>2. call'[k].at = "returned" => call'[k].reason # "graded"
      <4>1. ASSUME NEW reason \in {"exception", "timeout"}, Return(k, reason)
            PROVE  call'[k].reason = reason
        <5>1. reason \in Reasons BY DEF Reasons, Evaluator
        <5>. QED BY <1>0, <4>1, <5>1, HasReturned
      <4>2. ASSUME NEW place \in {"wait", "clean"}, Go(k, place) PROVE call'[k].at = place
        <5>1. place \in Places BY DEF Places
        <5>. QED BY <1>0, <4>2, <5>1, Moved
      <4>. QED BY <2>3, <4>1, <4>2 DEF Launch, TimeOut, Clean
    <3>3. /\ box[k] = "none" \/ call[k].at # "launch"
          /\ \A j \in Call : \/ box'[j] = box[j]
                             \/ j = k /\ (box'[j] \in {"exited", "gone"} \/ (box[j] = "none" /\ box'[j] = "starting"))
      BY <1>0, <2>3 DEF BoxType, LaunchedLate, Early, Launch, TimeOut, Clean, At
    <3>. QED BY <1>0, <3>1, <3>2, <3>3, NoGrade DEF Returned, host
  <2>4. CASE Parse(k)
    <3>1. /\ CallsOK' /\ \A j \in Call \ {k} : call'[j] = call[j]
          /\ UNCHANGED <<gate, host, line, box>> /\ box[k] = "exited" /\ call[k].at = "wait"
          /\ call'[k].backend = call[k].backend
      BY <1>0, <2>4, WaitSteps DEF Parse, At
    <3>2. CASE ~Returned(k, "graded")'
      BY <1>0, <3>1, <3>2, NoGrade DEF Returned, host, Before
    <3>3. CASE Returned(k, "graded")'
      <4>1. On("receipt") => Verified(k, line[k])
        <5>1. ASSUME NEW reason \in {"container_failed", "invalid_envelope", "exception", "receipt_untrusted"},
                     Return(k, reason)
              PROVE  FALSE
          <6>1. reason \in Reasons /\ reason # "graded" BY DEF Reasons, Evaluator
          <6>. QED BY <1>0, <3>3, <5>1, <6>1, HasReturned DEF Returned
        <5>. QED BY <2>4, <5>1 DEF Parse
      <4>2. On("receipt") => line[k].by = "harness"
        BY <1>0, <4>1 DEF Verified, LinesAreOwn, Line
      <4>3. LinesAreOwn' /\ (line \in [Call -> Line])' BY <1>0, <3>1 DEF LinesAreOwn
      <4>4. ImageOK' BY <1>0, <3>1 DEF ImageOK, Returned, Before, host
      <4>5. GradesOK' BY <1>0, <3>1, <4>2 DEF GradesOK, Returned
      <4>. QED BY <4>3, <4>4, <4>5 DEF GradeInv
    <3>. QED BY <3>2, <3>3
  <2>. QED BY <1>2, <2>1, <2>2, <2>3, <2>4 DEF CallStep
<1>3. ASSUME NEW k \in Call, BoxStep(k) PROVE GradeInv'
  <2>1. CASE Lose(k)
    <3>1. /\ \A j \in Call \ {k} : call'[j] = call[j]
          /\ UNCHANGED <<gate, host, line>> /\ call[k].at = "wait" /\ call'[k].at = "returned"
          /\ call'[k].reason = "container_failed"
      BY <1>0, <2>1, WaitSteps, HasReturned DEF Lose, At, Reasons, Evaluator
    <3>2. \A j \in Call : box'[j] = box[j] \/ (j = k /\ box'[j] = "gone")
      BY <1>0, <2>1 DEF Lose, BoxType
    <3>. QED BY <1>0, <3>1, <3>2, NoGrade DEF Returned, host
  <2>2. CASE Create(k) \/ Begin(k)
    <3>1. /\ UNCHANGED <<gate, host, call, line>> /\ box[k] \in {"starting", "created"}
          /\ box' = [box EXCEPT ![k] = "created"] \/ box' = [box EXCEPT ![k] = "running"]
      BY <2>2 DEF Create, Begin
    <3>2. \A j \in Call : box'[j] = box[j] \/ (j = k /\ box'[j] \in {"created", "running"})
      BY <1>0, <3>1 DEF BoxType
    <3>3. LinesAreOwn' /\ (line \in [Call -> Line])' BY <1>0, <3>1, <3>2 DEF LinesAreOwn
    <3>4. ImageOK' BY <1>0, <3>1 DEF ImageOK, Returned, host
    <3>5. GradesOK' BY <1>0, <3>1, <3>2 DEF GradesOK, Returned
    <3>. QED BY <3>3, <3>4, <3>5 DEF GradeInv
  <2>3. CASE Finish(k)
    <3>1. PICK l \in LastLines(k) : line' = [line EXCEPT ![k] = l] BY <2>3 DEF Finish
    <3>2. /\ UNCHANGED <<gate, host, call>> /\ box[k] = "running" /\ box' = [box EXCEPT ![k] = "exited"]
      BY <2>3 DEF Finish
    <3>3. line[k] = NoLine BY <1>0, <3>2 DEF LinesAreOwn
    <3>4. l \in Line /\ (l.by \in {"none", "candidate"} => l.nonce # k)
      <4>1. CASE l = NoLine BY <4>1, FreeAssumption DEF Line, NoLine
      <4>2. CASE l = [by |-> "harness", nonce |-> k, intact |-> TRUE] BY <4>2 DEF Line
      <4>3. CASE l = [by |-> "candidate", nonce |-> Free, intact |-> FALSE]
        BY <4>3, FreeAssumption DEF Line
      <4>4. ASSUME NEW j \in Call, line[j].by = "harness", NEW i \in BOOLEAN,
                   l = [by |-> "candidate", nonce |-> j, intact |-> i]
            PROVE  l \in Line /\ l.nonce # k
        <5>1. j # k BY <3>3, <4>4 DEF NoLine
        <5>. QED BY <4>4, <5>1 DEF Line
      <4>. QED BY <3>1, <4>1, <4>2, <4>3, <4>4 DEF LastLines
    <3>5. /\ line'[k] = l /\ box'[k] = "exited"
          /\ \A j \in Call \ {k} : line'[j] = line[j] /\ box'[j] = box[j]
      BY <1>0, <3>1, <3>2 DEF BoxType
    <3>6. LinesAreOwn' /\ (line \in [Call -> Line])' BY <1>0, <3>1, <3>4, <3>5 DEF LinesAreOwn
    <3>7. ImageOK' BY <1>0, <3>2 DEF ImageOK, Returned, host
    <3>8. GradesOK' BY <1>0, <3>2, <3>5 DEF GradesOK, Returned
    <3>. QED BY <3>6, <3>7, <3>8 DEF GradeInv
  <2>. QED BY <1>3, <2>1, <2>2, <2>3 DEF BoxStep
<1>4. CASE DaemonGoes \/ DaemonComes BY <1>1, <1>4 DEF DaemonGoes, DaemonComes
<1>5. ASSUME NEW d \in Dir, Reap(d) PROVE GradeInv' BY <1>1, <1>5 DEF Reap, host
<1>6. CASE Exit BY <1>1, <1>6 DEF Exit, host
<1>7. CASE Kill
  <2>1. /\ UNCHANGED <<gate, host, call, line>>
        /\ \A j \in Call : box'[j] = box[j] \/ (box'[j] = "exited" /\ box[j] \in Living \cup {"starting"})
    BY <1>7 DEF Kill
  <2>2. LinesAreOwn' /\ (line \in [Call -> Line])' BY <1>0, <2>1 DEF LinesAreOwn
  <2>3. ImageOK' BY <1>0, <2>1 DEF ImageOK, Returned, host
  <2>4. GradesOK' BY <1>0, <2>1 DEF GradesOK, Returned
  <2>. QED BY <2>2, <2>3, <2>4 DEF GradeInv
<1>8. CASE UNCHANGED vars BY <1>1, <1>8 DEF vars
<1>. QED BY <1>2, <1>3, <1>4, <1>5, <1>6, <1>7, <1>8 DEF Next

(***************************************************************************)
(* The theorems                                                            *)
(***************************************************************************)
LEMMA InitInvariant == Init => IInv
<1> SUFFICES ASSUME Init PROVE IInv OBVIOUS
<1>1. \A k \in Call : call[k].at = "select" /\ call[k].tree = NoDir /\ call[k].backend = "none"
  BY DEF Init
<1>2. CallsOK BY DEF Init, CallsOK, Places, Backends, Trees, Reasons
<1>3. SnapshotInv
  <2>1. SnapshotType BY DEF Init, SnapshotType
  <2>2. LockHeld /\ MakersOwn /\ UsersHave BY <1>1 DEF LockHeld, MakersOwn, UsersHave, Building, InUse, Returned
  <2>3. MadeForRemoval /\ NothingLeft BY DEF Init, MadeForRemoval, NothingLeft
  <2>. QED BY <1>2, <2>1, <2>2, <2>3 DEF SnapshotInv
<1>4. BoxInv
  <2>1. BoxType BY DEF Init, BoxType
  <2>2. LaunchedLate BY <1>1 DEF Init, LaunchedLate, Before
  <2>3. UnmeasuredRanNothing /\ LeftoverHasReason
    BY <1>1 DEF Init, UnmeasuredRanNothing, LeftoverHasReason, Living
  <2>. QED BY <1>2, <2>1, <2>2, <2>3 DEF BoxInv
<1>5. GradeInv
  <2>1. line \in [Call -> Line] BY DEF Init, NoLine, Line
  <2>2. LinesAreOwn BY FreeAssumption DEF Init, LinesAreOwn, NoLine
  <2>3. ImageOK /\ GradesOK BY <1>1 DEF ImageOK, GradesOK, Returned, Before
  <2>. QED BY <2>1, <2>2, <2>3 DEF GradeInv
<1>. QED BY <1>3, <1>4, <1>5 DEF IInv

\* For any number of calls, snapshot directories and failures, and whatever
\* gates are on: a grade belongs to a candidate that ran to its end where it
\* had to, told by the harness for this very call; what is called unmeasured
\* started nothing; what is left behind has its reason; and no call loses the
\* snapshot it works with (SandboxRunner.run and the steps below it).
THEOREM VerdictsAreTrue == Spec => []VerdictIsOfWhatRan
<1>1. Init => IInv BY InitInvariant
<1>2. IInv /\ [Next]_vars => IInv' BY SnapshotKept, BoxesKept, GradesKept DEF IInv
<1>3. IInv => VerdictIsOfWhatRan
  <2> SUFFICES ASSUME IInv PROVE VerdictIsOfWhatRan OBVIOUS
  <2> USE DEF IInv, On
  <2>1. GradeIsEarned
    <3>1. \A k \in Call : Returned(k, "graded") /\ On("worktree") => call[k].tree # NoDir
      BY DEF SnapshotInv, UsersHave, Dir, NoDir
    <3>. QED BY <3>1 DEF GradeInv, GradesOK, ImageOK, GradeIsEarned
  <2>2. SnapshotLastsAsLongAsItsUsers
    BY DEF SnapshotInv, UsersHave, NothingLeft, SnapshotLastsAsLongAsItsUsers, InUse
  <2>. QED BY <2>1, <2>2 DEF BoxInv, VerdictIsOfWhatRan
<1>. QED BY <1>1, <1>2, <1>3, PTL DEF Spec

\* What the snapshot's and the boxes' invariants leave out of the types.
HostType ==
    /\ gate \in Gates /\ docker \in {"absent", "down", "up"} /\ image \in {"none", "trusted", "other"}
    /\ lock \in Call \cup {Free}

LEMMA HostTypeKept == ASSUME SnapshotInv, HostType, [Next]_vars PROVE HostType'
<1> USE DEF HostType
<1>0. CallsOK /\ cache \in Trees BY DEF SnapshotInv, SnapshotType, Trees
<1>1. CASE UNCHANGED <<gate, host, lock>> BY <1>1 DEF host
<1>2. ASSUME NEW k \in Call, CallStep(k) PROVE HostType'
  <2>1. CASE Select(k) \/ Configure(k) \/ FindBackend(k) \/ CheckImage(k) \/ BindInput(k) \/ Prepare(k)
    BY <1>0, <1>1, <2>1, ClientSteps DEF snapshot
  <2>2. CASE Launch(k) \/ TimeOut(k) \/ Clean(k) \/ Parse(k) BY <1>0, <1>1, <2>2, WaitSteps DEF snapshot
  <2>3. CASE NeedTree(k) \/ TakeTree(k) \/ MakeDir(k) \/ Fill(k) \/ Register(k)
    <3>1. UNCHANGED <<gate, host>> BY <1>0, <2>3, TreeSteps
    <3>2. lock' \in {lock, k, Free}
      BY <2>3 DEF NeedTree, TakeTree, MakeDir, Fill, Register, Release, snapshot
    <3>. QED BY <3>1, <3>2 DEF host
  <2>. QED BY <1>2, <2>1, <2>2, <2>3 DEF CallStep
<1>3. ASSUME NEW k \in Call, BoxStep(k) PROVE HostType'
  BY <1>1, <1>3 DEF BoxStep, Create, Begin, Finish, Lose, snapshot
<1>4. CASE DaemonGoes \/ DaemonComes BY <1>4 DEF DaemonGoes, DaemonComes, snapshot
<1>5. ASSUME NEW d \in Dir, Reap(d) PROVE HostType' BY <1>1, <1>5 DEF Reap
<1>6. CASE Exit \/ Kill BY <1>1, <1>6 DEF Exit, Kill, snapshot
<1>7. CASE UNCHANGED vars BY <1>1, <1>7 DEF vars, host
<1>. QED BY <1>2, <1>3, <1>4, <1>5, <1>6, <1>7 DEF Next

\* Whatever happens, the state of the calls, their boxes and the host is of its
\* type.
THEOREM SandboxTypes == Spec => []TypeOK
<1>1. Init => IInv /\ HostType
  <2>1. Init => HostType BY DEF Init, HostType
  <2>. QED BY <2>1, InitInvariant
<1>2. IInv /\ HostType /\ [Next]_vars => IInv' /\ HostType'
  BY SnapshotKept, BoxesKept, GradesKept, HostTypeKept DEF IInv
<1>3. IInv /\ HostType => TypeOK
  <2> SUFFICES ASSUME IInv, HostType PROVE TypeOK OBVIOUS
  <2>1. \A k \in Call : call[k].at \in Places /\ call[k].tree \in Dir \cup {NoDir}
    BY DEF IInv, SnapshotInv, CallsOK, Trees
  <2>. QED BY <2>1 DEF IInv, SnapshotInv, SnapshotType, BoxInv, BoxType, GradeInv, HostType, TypeOK
<1>. QED BY <1>1, <1>2, <1>3, PTL DEF Spec
============================================================================
