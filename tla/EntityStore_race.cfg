\* Two threads calling the client entry functions with their steps
\* interleaved; no server entries, so the trace is the client path.
CONSTANTS
    t1 = t1
    t2 = t2
    o1 = o1
    o2 = o2
    s1 = s1
    s2 = s2
    Threads <- MCThreads
    Objs <- MCObjs
    SObjs <- MCNoSObjs
    NoObj = NoObj
    NoThread = NoThread
    MaxHeld = 2
    DeletedFloor <- MCDeletedFloor
    Cooperative = FALSE
SPECIFICATION Spec
INVARIANT NoUseAfterFree
