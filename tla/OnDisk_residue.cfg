SPECIFICATION SessionSpec
CONSTANTS
    f1 = f1  f2 = f2  a = a  b = b
    File = {f1, f2}
    Original = {1}
    MaxChanges = 3  MaxWrites = 5  Retention = 10  MaxFaults = 0
    Applier = {a, b}
    Pid = {"x", "y"}
    BakRetention = 2  MaxBlockWrites = 3  MaxApplies = 4  MaxOutside = 1
    MaxChain = 4  MaxTampering = 2  MaxSwitches = 2
    Change = {"old", "new", "env", "odd"}
    PathOf <- MCPathOf
    Length <- MCLength
    Batch <- MCBatch
    Accepted = {{}, {"old"}}
    NotText = {"odd"}
    SensitivePath = {".env"}
    MaxArchives = 2  MaxArchiveFaults = 1
    MAX_BODIES_PER_CYCLE = 2  MaxBodyChars = 1
    RepoFile = {"env", "a", "b"}
    Secretlike = {"env"}
    Excludes = {{}, {"b"}}
    MaxVersion = 2  MaxEdits = 2  MaxSnapshots = 2
    Proc = {"p1", "p2"}
    MaxCalls = 3  MaxKills = 2
    Paths = 2
    Copier = {"c1", "c2"}
    MaxSourceEdits = 2  MaxBundleMishaps = 2
    Claimant = {"c1", "c2"}
    TokenTier = {3, 9}
    MaxDay = 1  MaxGrants = 4  MinimumCycles = 2
SYMMETRY MCSym
\* Every part is bounded.
CHECK_DEADLOCK FALSE
INVARIANTS ResidueIsWhatIsDirty
