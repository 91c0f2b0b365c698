CONSTANTS
    Base = 3
    Width = 2
    BlockRecords = 2
    Key <- MCPrefixKeys
    Writes <- MCPrefixWrites
    Txn = {t1, t2}
    CompactionTrigger = 2
    Modes = {"single"}
    MaxCommits = 3
    MaxTxns = 4
    MaxEvents = 0
SYMMETRY Perms
SPECIFICATION Spec
INVARIANTS
    NoLostUpdate
CHECK_DEADLOCK FALSE
