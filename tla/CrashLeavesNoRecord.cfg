SPECIFICATION IngestSpec
CONSTANTS
    Nightly = nightly
    Hourly = hourly
    deploy = deploy
    Kinds <- MCKinds
    ExecutorKinds <- MCExecutorKinds
    Resources <- MCResources
    Exclusive = "server-restart"
    ResourceOf <- MCResourceOf
    PriorityOf <- MCPriorityOf
    LeaseOf <- MCLeaseOf
    StaleDelay <- MCStaleDelay
    RetryDelay = 1
    RepeatWindow = 2
    NightlySlots = {3}
    HourlySlots = {2}
    MaxJobs = 2
    MaxRuns = 3
    MaxTime = 4
    Faults = {"server-crash"}
    MaxFaults = 1
INVARIANTS
    LostJobIsOnRecord
CHECK_DEADLOCK FALSE
