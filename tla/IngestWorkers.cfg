SPECIFICATION IngestSpec
CONSTANTS
    Nightly = nightly
    Hourly = hourly
    deploy = deploy
    Kinds <- MCKinds
    ExecutorKinds <- MCExecutorKinds
    Resources <- MCResources
    Exclusive = "server-restart"
    ResourceOf <- MCResourceOf
    PriorityOf <- MCPriorityOf
    LeaseOf <- MCLeaseOf
    StaleDelay <- MCStaleDelay
    RetryDelay = 1
    RepeatWindow = 2
    NightlySlots = {3}
    HourlySlots = {2}
    MaxJobs = 3
    MaxRuns = 3
    MaxTime = 4
    Faults = {"service-crash", "agent-crash", "claim-lost", "report-lost"}
    MaxFaults = 1
VIEW View
INVARIANTS
    RunningJobIsInHands
    DeployFindsServiceIdle
    HoldersAreCompatible
    CancelledIsIdle
    EndedJobRanItsSlot
CHECK_DEADLOCK FALSE
