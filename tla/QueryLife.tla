----------------------------- MODULE QueryLife -----------------------------
(***************************************************************************)
(* What tick_once promises about one query, whoever runs it and however    *)
(* often it dies: a queued query is turned away or claimed; a claim is     *)
(* made once, is never turned away afterwards, and is what a charge needs; *)
(* a charge is made once.  TickLoop implements it under the lease.         *)
(***************************************************************************)
CONSTANT Id

VARIABLES queued, rejected, claimed, charged

vars == <<queued, rejected, claimed, charged>>

Init == queued = {} /\ rejected = {} /\ claimed = {} /\ charged = {}

Enqueue(i) ==
    /\ queued' = queued \cup {i}
    /\ UNCHANGED <<rejected, claimed, charged>>

TurnAway(i) ==
    /\ i \in queued \ claimed
    /\ rejected' = rejected \cup {i}
    /\ UNCHANGED <<queued, claimed, charged>>

Claim(i) ==
    /\ i \in queued \ claimed
    /\ claimed' = claimed \cup {i}
    /\ UNCHANGED <<queued, rejected, charged>>

Charge(i) ==
    /\ i \in claimed \ charged
    /\ charged' = charged \cup {i}
    /\ UNCHANGED <<queued, rejected, claimed>>

Next == \E i \in Id : Enqueue(i) \/ TurnAway(i) \/ Claim(i) \/ Charge(i)

Spec == Init /\ [][Next]_vars
=============================================================================
