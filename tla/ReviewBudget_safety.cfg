SPECIFICATION Spec
CONSTANTS
    Nobody = Nobody  NoTx = NoTx  NoEpisode = NoEpisode
    Proc = {p1, p2}
    Tx = {t1, t2, t3}
    Cap = 5  MinHeadroom = 1  Envelope = 2  MaxBill = 3
    EpisodeCap = 5  MaxExec = 2
    MaxFaults = 2
\* A marked ledger admits nobody any more: the system may stop.
CHECK_DEADLOCK FALSE
INVARIANTS BothCapsHold BooksAreRight
