SPECIFICATION Spec
CONSTANTS
    nightly = nightly
    hourly = hourly
    deploy = deploy
    bank = bank
    Kinds <- MCKinds
    Resources <- MCResources
    Exclusive = "server-restart"
    ResourceOf <- MCResourceOf
    PriorityOf <- MCPriorityOf
    LeaseOf <- MCLeaseOf
    MaxQueued = 3
    MaxRunning = 1
    Now = 2
    NotBefores = {0, 2, 3}
    StaleAfters = {0, 2}
    Beats = {1, 2}
INVARIANTS
    LoopAgrees
    StartsAreCompatible
    NeverStuck
    OneVerdictEach
CHECK_DEADLOCK FALSE
