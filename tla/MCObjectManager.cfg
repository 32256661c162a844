CONSTANTS
    rootDir = rootDir  deviceDir = deviceDir  con = con  o1 = o1  o2 = o2  o3 = o3
    t1 = t1  t2 = t2  none = none
    Objects = {rootDir, deviceDir, con, o1, o2, o3}
    Root = rootDir
    Device = deviceDir
    Console = con
    Threads = {t1, t2}
    BootThread = t1
    OB_MAX_HANDLES = 2
    WaitHandles <- MCWaitHandles
    None = none
SPECIFICATION Spec
INVARIANTS PointerCountExact HandleCountExact PointersValid NamespaceStays
CHECK_DEADLOCK FALSE
