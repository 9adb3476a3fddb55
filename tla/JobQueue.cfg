SPECIFICATION FairSpec
CONSTANTS
    nightly = nightly
    hourly = hourly
    deploy = deploy
    Kinds <- MCKinds
    ExecutorKinds <- MCExecutorKinds
    Resources <- MCResources
    Exclusive = "server-restart"
    ResourceOf <- MCResourceOf
    PriorityOf <- MCPriorityOf
    LeaseOf <- MCLeaseOf
    StaleDelay <- MCStaleDelay
    RetryDelay = 1
    MaxJobs = 2
    MaxTime = 3
INVARIANTS
    TypeOK
    OneQueuedPerKind
    OneExecutorJobRunning
    AwaitedJobIsOut
PROPERTIES
    StartsAlone
    Drains
    StartsInItsWindow
    KeepsLifecycle
    SilentJobIsWrittenOff
CHECK_DEADLOCK FALSE
