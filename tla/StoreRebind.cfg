SPECIFICATION Spec
CONSTANTS
    Absent = Absent
    Callers = {c1}
    Deliveries = {1}
    Keyed = {}
    Depts = {1, 2}
    Queues = {1}
    Contents = {1}
    QueueOf <- MCFirst
    DeptOf <- MCFirst
    SourceOf <- MCIdentity
    Times <- MCTimes
    MaxGeneration = 2
    MaxAttempts = 1
    BackoffBase = 1
    BackoffCap = 1
    MaxRedrives = 0
    Cooldown = 1
    AbsenceBudget = 9
    Retention = 1
    LeaseDuration = 1
    BatchLimit = 1
    CompactionLimit = 1
INVARIANTS
    NoStrandedDelivery
    LineageAnswersScan
PROPERTIES
    GenerationFences
