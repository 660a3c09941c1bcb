\* Three resolves (by ID, by nickname, by ID list) of two client entries; the run stops when all are answered.
CONSTANTS
    c1 = c1
    c2 = c2
    c3 = c3
    e1 = e1
    e2 = e2
    s1 = s1
    NoEnt = NoEnt
    Callers <- MCCallers
    ClientIds <- MCClientIds2
    ServerIds <- MCNone
    MaxIdent = 3
SPECIFICATION Spec
INVARIANT TagNamesOpenLookup
PROPERTY EveryResolveCompletes
CHECK_DEADLOCK FALSE
