SPECIFICATION Spec
CONSTANTS
    Absent = Absent
    NoEvent = NoEvent
    Deliveries = {1}
    Keyed = {}
    Depts = {1, 2, 3}
    Queues = {1}
    Events = {1}
    SourceEvents = {1}
    Contents = {1}
    EventOf <- MCIdentity
    QueueOf <- MCIdentity
    DeptOf <- MCIdentity
    SourceOf <- MCOneSource
    Raises <- MCNone
    DeadLetterOf <- MCNone
    FailureFactOf <- MCNone
    Graphs <- MCShrinkingGraphs
    RetryingDepts = {1}
    MaxInFlight = 1
    AdmissionBurst = 1
    RenewInterval = 1
    MaxTime = 2
    MaxPublications = 1
    MaxStarts = 2
    MaxAttempts = 1
    BackoffBase = 1
    BackoffCap = 1
    MaxRedrives = 1
    Cooldown = 1
    AbsenceBudget = 1
    Retention = 1
    LeaseDuration = 2
    BatchLimit = 1
    CompactionLimit = 1
PROPERTIES
    StartupRecordsAbsence
