SPECIFICATION WholeSpec
CONSTANTS
    Words = {"bug"}
    Weights = {27, 73}
    Unscored = Unscored
    Gates <- MCGates
    Callbacks <- MCCallbacks
    o1 = o1  o2 = o2  NoGoal = NoGoal
    Objective = {o1, o2}
    MaxRank = 2  MaxSiFaults = 1
    Switches <- MCSwitches
    p1 = p1  p2 = p2  f1 = f1  f2 = f2  n1 = n1  NoNonce = NoNonce
    Proc = {p1, p2}
    File = {f1, f2}
    Nonce = {n1}
    MaxText = 3  MaxCommits = 2  MaxFaults = 2
SYMMETRY MCSym
\* The requests and edits are bounded.
CHECK_DEADLOCK FALSE
INVARIANTS
    VoteIsRight
    OutcomeIsToldRight
    AcceptedWasVerified
    VerdictIsRespected
    RecordsAgree
    PromotesWhatWasApproved
PROPERTIES
    GoalIsKept
    OverwritesNobodysWork
