SPECIFICATION Spec
CONSTANTS
    p1 = p1  p2 = p2  s1 = s1  s2 = s2  i1 = i1  i2 = i2
    NoProc = NoProc  NoSlot = NoSlot
    Proc = {p1, p2}
    Slot = {s1, s2}
    Id = {i1, i2}
    Rows <- MixedRows
    Cap = 2  PerCycle = 2  ReviewMax = 1
    ResvOn = TRUE  DeadlineOn = TRUE  StrictOn = TRUE  CapFailClosed = TRUE
    LeaseOn = TRUE  TickFailClosed = TRUE
    ReviewOn = TRUE  ReviewTxn = TRUE  RereadOn = TRUE
    RfgOn = TRUE  TtlOn = TRUE
    MaxInbox = 2  MaxFaults = 1
SYMMETRY MCSym
INVARIANTS TakenCardIsSettled
