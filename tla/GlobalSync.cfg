SPECIFICATION FairSpec
CONSTANTS
    nyse = nyse
    ipc = ipc
    StepOrder <- MCStepOrder
    FastSources <- MCFast
    StateSources <- MCState
    Rechecked <- MCFast
    Monthly <- MCState
    Period <- MCPeriod
    FirstDue <- MCFirstDue
    Markable <- MCState
    Poll = 3
    FastPoll = 2
    WakeGap = 2
    RetryDelays <- MCRetryDelays
    Off = Off
INVARIANTS
    TypeOK
    StaleIsPolled
    DueIsOnTime
    RetryOnlyRecovers
PROPERTIES
    WakeIsWaitedFor
    StaleIsTried
