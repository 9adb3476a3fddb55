SPECIFICATION IngestSpec
CONSTANTS
    Nightly = nightly
    Hourly = hourly
    deploy = deploy
    Kinds <- MCKinds
    ExecutorKinds <- MCExecutorKinds
    Resources <- MCResources
    Exclusive = "server-restart"
    ResourceOf <- MCResourceOf
    PriorityOf <- MCPriorityOf
    LeaseOf <- MCLeaseOf
    StaleDelay <- MCStaleDelay
    RetryDelay = 1
    RepeatWindow = 2
    NightlySlots = {3}
    HourlySlots = {2}
    MaxJobs = 2
    MaxRuns = 2
    MaxTime = 4
    Faults = {"timeout", "stall", "service-crash", "agent-crash", "claim-lost", "report-lost", "outside-run"}
    MaxFaults = 2
VIEW View
INVARIANTS
    IngestTypeOK
    LostJobIsOnRecord
PROPERTIES
    SlotsAdvance
CHECK_DEADLOCK FALSE
