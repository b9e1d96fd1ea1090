SPECIFICATION FairSpec
CONSTANTS
    Worker = {w1, w2}
\* A tick that is dead or done starts nothing more.
CHECK_DEADLOCK FALSE
INVARIANTS NothingOutlives
PROPERTIES EveryEndComes
