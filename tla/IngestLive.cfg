SPECIFICATION FairIngestSpec
CONSTANTS
    Nightly = nightly
    Hourly = hourly
    deploy = deploy
    Kinds <- MCKinds
    ExecutorKinds <- MCExecutorKinds
    Resources <- MCResources
    Exclusive = "server-restart"
    ResourceOf <- MCResourceOf
    PriorityOf <- MCPriorityOf
    LeaseOf <- MCLeaseOf
    StaleDelay <- MCStaleDelay
    RetryDelay = 1
    RepeatWindow = 2
    NightlySlots = {3}
    HourlySlots = {2}
    MaxJobs = 2
    MaxRuns = 5
    MaxTime = 3
    Faults = {"timeout", "stall", "server-crash", "service-crash", "agent-crash", "claim-lost", "report-lost", "outside-run"}
    MaxFaults = 1
INVARIANTS
    ReportedRunEndsItsJob
PROPERTIES
    DueJobIsDecided
    ImplementsJobQueue
    OutcomeStays
CHECK_DEADLOCK FALSE
