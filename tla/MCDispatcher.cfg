CONSTANTS
    u1 = u1  u2 = u2  u3 = u3  in = in  idle = idle  ne = ne  se = se  sem = sem  mut = mut
    UserThreads = {u1, u2, u3}
    BootThread = u1
    InputThread = in
    Idle = idle
    NotificationEvents = {}
    SynchronizationEvents = {se}
    Semaphores = {sem}
    Mutants = {}
    Limit <- MCLimit
    WaitLists <- MCWaitLists
    Releases = {1}
    DEFAULT_QUANTUM = 1
    MaxTimeout = 1
    MaxTick = 2
SPECIFICATION Spec
INVARIANTS ReadyQueueOK WaitListsOK NoLostWakeup SignalInRange
PROPERTY WaitOutcomes
