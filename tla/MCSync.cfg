\* Three threads are what it takes for one to pass while two race.
CONSTANTS
  Callers = {"t1", "t2"}
  SectionThreads = {"t1", "t2", "t3"}
  K32 = {"k"}
  Rtl = {"r"}
  MaxDepth = 2
  OnceThreads = {"t1", "t2", "t3", "t4"}
  Contexts = {0, 4, 8, 9}
  Misaligned = {9}
  K32Threads = {"s1", "s2"}
  RtlWriters = {}
  RtlReaders = {"s3", "s4"}
  SRW = 16
  WORD = 3
  HUNDRED_NS_PER_TICK = 2
  MaxTicks = 3
  Clients = {"c1", "c2"}
  Timers = {"t"}
  Waits = {"w"}
  Periods = {0, 1}
  MaxCalls = 3
  PER_TICK = 4
  PER_MS = 2
  INFINITE = 5
  MaxTime = 16
  MaxInterval = 11
  WaitItems = {1, 2}
  Objects = {"a", "b"}
  Closable = {"b"}
  Values = {"v"}
  INDEXES = 2
  FLS_INDEXES = 2
  Creators = {"c1"}
  Workers = {1, 2, 3}
  MAX_WORK = 2
  POOL = 2
  MaxTries = 2
  Sizes = {0, 2}
  SEGMENT = 4
  MaxSegments = 2
SPECIFICATION Spec
INVARIANTS
  LocksExclude
  NothingLost
  SlotsPrivate
  ArmedCalledOnce
  TimesRight
PROPERTIES
  HeapImplementsAllocator
  NobodyStarves
CHECK_DEADLOCK FALSE
