SPECIFICATION Spec
CONSTANTS
    Absent = Absent
    NoEvent = NoEvent
    Deliveries = {1, 2, 3}
    Keyed = {}
    Depts = {1, 2}
    Queues = {1, 2, 3}
    Events = {1, 2, 3}
    SourceEvents = {1}
    Contents = {1, 2}
    EventOf <- MCIdentity
    QueueOf <- MCIdentity
    DeptOf <- MCReportDept
    SourceOf <- MCOneSource
    Raises <- MCNone
    DeadLetterOf <- MCDeadLetterOf
    FailureFactOf <- MCFailureFactOf
    Graphs <- MCReportGraphs
    RetryingDepts = {1}
    MaxInFlight = 1
    AdmissionBurst = 1
    RenewInterval = 1
    MaxTime = 2
    MaxPublications = 1
    MaxStarts = 2
    MaxAttempts = 1
    BackoffBase = 1
    BackoffCap = 1
    MaxRedrives = 0
    Cooldown = 1
    AbsenceBudget = 1
    Retention = 1
    LeaseDuration = 1
    BatchLimit = 1
    CompactionLimit = 1
INVARIANTS
    NoLostSignal
