SPECIFICATION Spec
CONSTANTS
    Absent = Absent
    NoEvent = NoEvent
    Deliveries = {1, 2}
    Keyed = {2}
    Depts = {1}
    Queues = {1}
    Events = {1, 2}
    SourceEvents = {1}
    Contents = {1}
    EventOf <- MCIdentity
    QueueOf <- MCOneQueue
    DeptOf <- MCOneDept
    SourceOf <- MCOneSource
    Raises <- MCRaises
    DeadLetterOf <- MCNone
    FailureFactOf <- MCNone
    Graphs <- MCLoop
    RetryingDepts = {1}
    MaxInFlight = 1
    AdmissionBurst = 1
    RenewInterval = 1
    MaxTime = 3
    MaxPublications = 1
    MaxStarts = 1
    MaxAttempts = 1
    BackoffBase = 1
    BackoffCap = 1
    MaxRedrives = 1
    Cooldown = 1
    AbsenceBudget = 1
    Retention = 1
    LeaseDuration = 2
    BatchLimit = 1
    CompactionLimit = 1
INVARIANTS
    LineageAnswersScan
