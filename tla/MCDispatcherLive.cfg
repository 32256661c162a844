CONSTANTS
    u1 = u1  u2 = u2  u3 = u3  in = in  idle = idle  ne = ne  se = se  sem = sem  mut = mut
    UserThreads = {u1, u2}
    BootThread = u1
    InputThread = in
    Idle = idle
    NotificationEvents = {ne}
    SynchronizationEvents = {}
    Semaphores = {}
    Mutants = {mut}
    Limit <- MCLimit
    WaitLists <- MCLevelWaitLists
    Releases = {1}
    DEFAULT_QUANTUM = 2
    MaxTimeout = 1
    MaxTick = 2
SPECIFICATION FairSpec
PROPERTIES TimedCallsReturn ReadyThreadRuns
