SPECIFICATION Spec
CONSTANTS
    Absent = Absent
    NoEvent = NoEvent
    Deliveries = {1, 2, 3}
    Keyed = {}
    Depts = {1}
    Queues = {1, 2, 3}
    Events = {1, 2, 3}
    SourceEvents = {1, 2, 3}
    Contents = {1}
    EventOf <- MCIdentity
    QueueOf <- MCIdentity
    DeptOf <- MCOneDept
    SourceOf <- MCOneSource
    Raises <- MCNone
    DeadLetterOf <- MCNone
    FailureFactOf <- MCNone
    Graphs <- MCBacklog
    RetryingDepts = {}
    MaxInFlight = 2
    AdmissionBurst = 2
    RenewInterval = 1
    MaxTime = 1
    MaxPublications = 3
    MaxStarts = 2
    MaxAttempts = 1
    BackoffBase = 1
    BackoffCap = 1
    MaxRedrives = 1
    Cooldown = 1
    AbsenceBudget = 1
    Retention = 1
    LeaseDuration = 1
    BatchLimit = 2
    CompactionLimit = 1
INVARIANTS
    WithinCapacity
    LeaseHonoured
    RuntimeIndexesExact
    NoLostSignal
