SPECIFICATION Spec
CONSTANTS
    Absent = Absent
    Callers = {c1}
    Deliveries = {1}
    Keyed = {1}
    Depts = {1}
    Queues = {1}
    Contents = {1}
    QueueOf <- MCFirst
    DeptOf <- MCFirst
    SourceOf <- MCIdentity
    Times <- MCTimes
    MaxGeneration = 3
    MaxAttempts = 2
    BackoffBase = 1
    BackoffCap = 1
    MaxRedrives = 1
    Cooldown = 1
    AbsenceBudget = 0
    Retention = 1
    LeaseDuration = 1
    BatchLimit = 1
    CompactionLimit = 1
INVARIANT
    WithinRetryBudgets
