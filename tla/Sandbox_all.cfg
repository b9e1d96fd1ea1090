SPECIFICATION Spec
CONSTANTS
    Call = {k1, k2}
    MaxDirs = 3  MaxFaults = 2
    \* A grading run, a sealed one, a bwrap jail with a snapshot.
    Gates = {{"pin", "receipt", "bwrap"}, {"worktree", "preseal", "sealed"}, {"worktree", "bwrap", "entry"}}
\* The process ends.
CHECK_DEADLOCK FALSE
INVARIANTS VerdictIsOfWhatRan
PROPERTIES EveryCallReturns
