-------------------------------- MODULE OnDisk --------------------------------
(***************************************************************************)
(* What lies on the disk and is written by several hands: the tree that a  *)
(* session or single blocks are applied to, the chain of applied changes,  *)
(* the archive of proposals, the snapshot a card works on, the workspace   *)
(* of an orchestrator slot, a delivered bundle and the receipts of the     *)
(* tiers. Each has its own files, so a behaviour works on one of them and  *)
(* leaves the rest as they were.                                           *)
(***************************************************************************)
EXTENDS AutoApply, BlockApply, ApplyChain, ProposalArchive, RepoSnapshot, SlotMeter,
        Delivery, TierGate

VARIABLE part       \* what is worked on

\* Where a part may begin in several ways the others begin in one.
Init ==
    /\ part \in {"session", "blocks", "chain", "archive", "snapshot", "slot", "delivery", "tiers"}
    /\ SessionInit /\ (part # "session" => base = [f \in File |-> Lf]
                           /\ Len(change) = 1 /\ change[1].act = "edit" /\ ~rejected)
    /\ BlockInit /\ (part # "blocks" => file = Gone)
    /\ ChainInit /\ (part # "chain" => numbering)
    /\ SnapInit /\ (part # "snapshot" => \A f \in RepoFile : head[f] = 1)
    /\ ArchiveInit /\ SlotInit /\ DeliveryInit /\ TierInit

Next ==
    \/ /\ part = "session" /\ SessionNext
       /\ UNCHANGED <<part, blockVars, chainVars, archiveVars, snapVars, slotVars, deliveryVars, tierVars>>
    \/ /\ part = "blocks" /\ BlockNext
       /\ UNCHANGED <<part, sessionVars, chainVars, archiveVars, snapVars, slotVars, deliveryVars, tierVars>>
    \/ /\ part = "chain" /\ ChainNext
       /\ UNCHANGED <<part, sessionVars, blockVars, archiveVars, snapVars, slotVars, deliveryVars, tierVars>>
    \/ /\ part = "archive" /\ ArchiveNext
       /\ UNCHANGED <<part, sessionVars, blockVars, chainVars, snapVars, slotVars, deliveryVars, tierVars>>
    \/ /\ part = "snapshot" /\ SnapNext
       /\ UNCHANGED <<part, sessionVars, blockVars, chainVars, archiveVars, slotVars, deliveryVars, tierVars>>
    \/ /\ part = "slot" /\ SlotNext
       /\ UNCHANGED <<part, sessionVars, blockVars, chainVars, archiveVars, snapVars, deliveryVars, tierVars>>
    \/ /\ part = "delivery" /\ DeliveryNext
       /\ UNCHANGED <<part, sessionVars, blockVars, chainVars, archiveVars, snapVars, slotVars, tierVars>>
    \/ /\ part = "tiers" /\ TierNext
       /\ UNCHANGED <<part, sessionVars, blockVars, chainVars, archiveVars, snapVars, slotVars, deliveryVars>>

vars == <<part, sessionVars, blockVars, chainVars, archiveVars, snapVars, slotVars,
          deliveryVars, tierVars>>

Spec == Init /\ [][Next]_vars
===============================================================================
