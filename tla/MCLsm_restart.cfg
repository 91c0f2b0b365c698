CONSTANTS
    Base = 3
    Width = 2
    BlockRecords = 2
    Key <- MCKey
    Writes <- MCWrites
    Txn = {t1, t2}
    CompactionTrigger = 2
    Modes = {"single", "leader"}
    MaxCommits = 3
    MaxTxns = 4
    MaxEvents = 1
SYMMETRY Perms
SPECIFICATION Spec
INVARIANTS
    RestartAlwaysFindsCommits
CHECK_DEADLOCK FALSE
