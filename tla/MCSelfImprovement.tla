-------------------------- MODULE MCSelfImprovement --------------------------
(***************************************************************************)
(* Two pods over four axes, one evidence card, cycles with two ranked      *)
(* candidates and three settings of the gates, two promoters with one      *)
(* approval and two files.                                                 *)
(***************************************************************************)
EXTENDS SelfImprovement, TLC

CONSTANTS o1, o2, p1, p2, f1, f2, n1

\* Objectives change places with promoters; files on their own.
MCSym ==
    {p \in Permutations({o1, o2, p1, p2, f1, f2}) :
        /\ p[o1] \in {o1, o2} /\ p[p1] \in {p1, p2} /\ p[f1] \in {f1, f2}
        /\ p[o2] \in {o1, o2} /\ p[p2] \in {p1, p2} /\ p[f2] \in {f1, f2}
        /\ p[o1] = o1 <=> p[p1] = p1}

MCGates ==
    {[numeric |-> TRUE, guard |-> g, causality |-> c_, eligible |-> TRUE, wired |-> TRUE] :
        g, c_ \in BOOLEAN}
    \cup {[numeric |-> n, guard |-> FALSE, causality |-> FALSE, eligible |-> n, wired |-> ~n] :
        n \in BOOLEAN}

\* Every hook, those that only observe, those that write.
MCCallbacks == {Armed(Hook, FALSE, {}), Armed({}, TRUE, {}),
                Armed({}, FALSE, {"postaccept", "cyclelog"})}

AllOn == [gate |-> TRUE, authority |-> TRUE, write |-> TRUE, armed |-> TRUE, rehydrate |-> TRUE]
MCSwitches == {AllOn, [AllOn EXCEPT !.gate = FALSE, !.rehydrate = FALSE],
               [AllOn EXCEPT !.gate = FALSE, !.authority = FALSE]}

\* The lanes of the table add up and none is beyond its full allocation.
ASSUME LanesAddUp ==
    \A n \in 0..12 :
        /\ Scaled(1, n) + Scaled(2, n) + Scaled(3, n) + Scaled(4, n) = n
        /\ \A k \in 1..4 : Scaled(k, n) <= LaneAllocation[k]
===============================================================================
