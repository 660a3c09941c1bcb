CONSTANTS
    t1 = t1
    t2 = t2
    o1 = o1
    o2 = o2
    s1 = s1
    s2 = s2
    Threads <- MCThreads
    Objs <- MCObjs
    SObjs <- MCSObjs
    NoObj = NoObj
    NoThread = NoThread
    MaxHeld = 2
    DeletedFloor <- MCDeletedFloor
    Cooperative = TRUE
SPECIFICATION Spec
INVARIANT TypeOK
INVARIANT NoUseAfterFree
INVARIANT RefCountAccounting
PROPERTY RefinesLifecycle
