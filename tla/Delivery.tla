------------------------------- MODULE Delivery -------------------------------
(***************************************************************************)
(* The delivery of a public bundle (capabilities/delivery.py): the source  *)
(* files are frozen in a manifest, and a bundle is copied to a directory   *)
(* that must not exist yet. Every file is read while it may change, copies *)
(* may run side by side, fail between any two steps or die, and somebody   *)
(* may remove a destination that a copier still holds open.                *)
(***************************************************************************)
EXTENDS Integers, Sequences

CONSTANTS
    Paths,              \* how many paths are approved, in their order
    Copier,             \* processes that run copy_bundle
    MaxSourceEdits,     \* bound: edits of the source
    MaxBundleMishaps    \* bound: removals and edits of destinations, failures

ASSUME DeliveryAssumption ==
    "builder" \notin Copier /\ Paths \in Nat \ {0} /\ MaxSourceEdits \in Nat /\ MaxBundleMishaps \in Nat

Path == 1 .. Paths
Foreign == 0                \* content no version of the source ever had

VARIABLES
    approved,           \* path -> the version its file holds
    manifest,           \* the versions frozen so far, in the order of the paths
    saw,                \* what fstat told each reader of the file it is reading
    dirs,               \* every destination directory ever made
    destination,        \* the one the destination path names, 0: none
    copier,             \* what each copier is doing
    sourceEdits,
    bundleMishaps

deliveryVars ==
    <<approved, manifest, saw, dirs, destination, copier, sourceEdits, bundleMishaps>>

Frozen == Len(manifest) = Paths
NotReading == -1
NewDir == [files |-> <<>>, manifest |-> "none", extra |-> FALSE, touched |-> FALSE]
NewCopier == [at |-> "read", held |-> <<>>, dir |-> 0, checked |-> 0]

DeliveryInit ==
    /\ approved = [f \in Path |-> 1]
    /\ manifest = <<>>
    /\ saw = [r \in Copier \cup {"builder"} |-> NotReading]
    /\ dirs = <<>> /\ destination = 0
    /\ copier = [c \in Copier |-> NewCopier]
    /\ sourceEdits = 0 /\ bundleMishaps = 0

(***************************************************************************)
(* _read_regular refuses a file that changed between fstat and the last    *)
(* read; the caller then gives up.                                         *)
(***************************************************************************)
Open(r, f) == saw[r] = NotReading /\ saw' = [saw EXCEPT ![r] = approved[f]]
Close(r) == saw[r] # NotReading /\ saw' = [saw EXCEPT ![r] = NotReading]
UnchangedSinceOpen(r, f) == approved[f] = saw[r]

BuildOpens ==
    /\ ~ Frozen
    /\ Open("builder", Len(manifest) + 1)
    /\ UNCHANGED <<approved, manifest, dirs, destination, copier, sourceEdits, bundleMishaps>>

BuildReads ==
    LET f == Len(manifest) + 1 IN
    /\ Close("builder")
    /\ manifest' = IF UnchangedSinceOpen("builder", f) THEN Append(manifest, approved[f])
                   ELSE <<>>
    /\ UNCHANGED <<approved, dirs, destination, copier, sourceEdits, bundleMishaps>>

_SizeOnly(f, content) == content # Foreign
Matches(f, content) == content = manifest[f]

CopyOpens(c) ==
    /\ Frozen /\ copier[c].at = "read"
    /\ Open(c, Len(copier[c].held) + 1)
    /\ UNCHANGED <<approved, manifest, dirs, destination, copier, sourceEdits, bundleMishaps>>

CopyReads(c) ==
    LET f == Len(copier[c].held) + 1 IN
    /\ Close(c)
    /\ copier' = [copier EXCEPT ![c] =
          IF UnchangedSinceOpen(c, f) /\ Matches(f, approved[f])
          THEN [@ EXCEPT !.held = Append(copier[c].held, approved[f]),
                         !.at = IF f = Paths THEN "mkdir" ELSE "read"]
          ELSE [@ EXCEPT !.at = "failed"]]
    /\ UNCHANGED <<approved, manifest, dirs, destination, sourceEdits, bundleMishaps>>

(***************************************************************************)
(* The destination is made, never reused, and written through the          *)
(* descriptor opened then, the manifest last.                              *)
(***************************************************************************)
MakeDestination(c) ==
    /\ copier[c].at = "mkdir"
    /\ IF destination # 0
       THEN /\ copier' = [copier EXCEPT ![c].at = "failed"]
            /\ UNCHANGED <<dirs, destination>>
       ELSE /\ dirs' = Append(dirs, NewDir)
            /\ destination' = Len(dirs) + 1
            /\ copier' = [copier EXCEPT ![c].at = "write", ![c].dir = Len(dirs) + 1]
    /\ UNCHANGED <<approved, manifest, saw, sourceEdits, bundleMishaps>>

Inside(c) == dirs[copier[c].dir]

WriteFile(c) ==
    /\ copier[c].at = "write" /\ Len(Inside(c).files) < Paths
    /\ dirs' = [dirs EXCEPT ![copier[c].dir].files =
                    Append(@, copier[c].held[Len(@) + 1])]
    /\ UNCHANGED <<approved, manifest, saw, destination, copier, sourceEdits, bundleMishaps>>

WriteManifest(c) ==
    /\ copier[c].at = "write" /\ Len(Inside(c).files) = Paths
    /\ dirs' = [dirs EXCEPT ![copier[c].dir].manifest = "whole"]
    /\ copier' = [copier EXCEPT ![c].at = "recheck"]
    /\ UNCHANGED <<approved, manifest, saw, destination, sourceEdits, bundleMishaps>>

(***************************************************************************)
(* A write that fails, or a death, leaves what was written so far, the     *)
(* last file torn.                                                         *)
(***************************************************************************)
BreakOff(c) ==
    /\ bundleMishaps < MaxBundleMishaps /\ bundleMishaps' = bundleMishaps + 1
    /\ copier[c].at \in {"write", "recheck", "validate"}
    /\ copier' = [copier EXCEPT ![c].at = "failed"]
    /\ \/ UNCHANGED dirs
       \/ /\ copier[c].at = "write"
          /\ dirs' = [dirs EXCEPT ![copier[c].dir] =
                IF Len(@.files) < Paths THEN [@ EXCEPT !.files = Append(Inside(c).files, Foreign)]
                ELSE [@ EXCEPT !.manifest = "torn"]]
    /\ UNCHANGED <<approved, manifest, saw, destination, sourceEdits>>

(***************************************************************************)
(* The copier reads its own directory again, then validate_bundle opens    *)
(* whatever the path names by now, reads the manifest there, takes the     *)
(* inventory and reads file after file.                                    *)
(***************************************************************************)
Inventoried(d) == Len(d.files) = Paths /\ d.manifest # "none" /\ ~ d.extra

CheckNext(c) ==
    LET f == copier[c].checked + 1 IN
    /\ copier[c].at \in {"recheck", "validate"} /\ copier[c].checked < Paths
    /\ copier' = [copier EXCEPT ![c] =
          IF /\ f = 1 => Inventoried(Inside(c)) /\ (@.at = "recheck" \/ Inside(c).manifest = "whole")
             /\ Matches(f, Inside(c).files[f])
          THEN [@ EXCEPT !.checked = f] ELSE [@ EXCEPT !.at = "failed"]]
    /\ UNCHANGED <<approved, manifest, saw, dirs, destination, sourceEdits, bundleMishaps>>

ValidateBundle(c) ==
    /\ copier[c].at = "recheck" /\ copier[c].checked = Paths
    /\ copier' = [copier EXCEPT ![c] =
          [@ EXCEPT !.at = IF destination = 0 THEN "failed" ELSE "validate",
                    !.dir = destination, !.checked = 0]]
    /\ UNCHANGED <<approved, manifest, saw, dirs, destination, sourceEdits, bundleMishaps>>

ReturnDestination(c) ==
    /\ copier[c].at = "validate" /\ copier[c].checked = Paths
    /\ copier' = [copier EXCEPT ![c].at = "returned"]
    /\ UNCHANGED <<approved, manifest, saw, dirs, destination, sourceEdits, bundleMishaps>>

(***************************************************************************)
(* Others: the source is worked on, a destination is removed or edited.    *)
(***************************************************************************)
EditApproved(f) ==
    /\ sourceEdits < MaxSourceEdits /\ sourceEdits' = sourceEdits + 1
    /\ approved' = [approved EXCEPT ![f] = @ + 1]
    /\ UNCHANGED <<manifest, saw, dirs, destination, copier, bundleMishaps>>

RemoveDestination ==
    /\ destination # 0
    /\ bundleMishaps < MaxBundleMishaps /\ bundleMishaps' = bundleMishaps + 1
    /\ destination' = 0
    /\ UNCHANGED <<approved, manifest, saw, dirs, copier, sourceEdits>>

EditDestination ==
    /\ destination # 0
    /\ bundleMishaps < MaxBundleMishaps /\ bundleMishaps' = bundleMishaps + 1
    /\ LET files == dirs[destination].files IN
       \/ dirs' = [dirs EXCEPT ![destination] = [@ EXCEPT !.extra = TRUE, !.touched = TRUE]]
       \/ \E f \in DOMAIN files :
             dirs' = [dirs EXCEPT ![destination] =
                         [@ EXCEPT !.files = [files EXCEPT ![f] = Foreign], !.touched = TRUE]]
    /\ UNCHANGED <<approved, manifest, saw, destination, copier, sourceEdits>>

DeliveryNext ==
    \/ BuildOpens \/ BuildReads
    \/ \E c \in Copier :
          \/ CopyOpens(c) \/ CopyReads(c) \/ MakeDestination(c)
          \/ WriteFile(c) \/ WriteManifest(c) \/ BreakOff(c)
          \/ CheckNext(c) \/ ValidateBundle(c) \/ ReturnDestination(c)
    \/ \E f \in Path : EditApproved(f)
    \/ RemoveDestination \/ EditDestination

-----------------------------------------------------------------------------
Whole(d) == d.files = manifest /\ d.manifest = "whole"

(***************************************************************************)
(* A directory that carries the whole manifest holds exactly the frozen    *)
(* files, whoever made it and wherever a copy was broken off, unless       *)
(* somebody edited it; and a copier that returned a destination validated  *)
(* such a directory, even if the one it wrote was removed meanwhile.       *)
(***************************************************************************)
DeliveredIsFrozen ==
    /\ \A d \in DOMAIN dirs :
          dirs[d].manifest = "whole" /\ ~ dirs[d].touched => Whole(dirs[d])
    /\ \A c \in Copier :
          copier[c].at = "returned" =>
             dirs[copier[c].dir].touched \/ Whole(dirs[copier[c].dir])
=============================================================================
