SPECIFICATION FairSpec
CONSTANTS
    nyse = nyse
    ipc = ipc
    StepOrder <- MCStepOrder
    FastSources <- MCFast
    StateSources <- MCState
    Rechecked <- MCFast
    Monthly <- MCState
    Period <- MCPeriod
    FirstDue <- MCFirstDue
    Markable <- MCFast
    Poll = 3
    FastPoll = 2
    WakeGap = 2
    RetryDelays <- MCRetryDelays
    Off = Off
PROPERTIES
    MarkedUntilSynced
