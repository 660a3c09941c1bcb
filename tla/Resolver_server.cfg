\* Three resolves of one server entry; the run stops when all are answered.
CONSTANTS
    c1 = c1
    c2 = c2
    c3 = c3
    e1 = e1
    e2 = e2
    s1 = s1
    NoEnt = NoEnt
    Callers <- MCCallers
    ClientIds <- MCNone
    ServerIds <- MCServerIds
    MaxIdent = 3
SPECIFICATION Spec
PROPERTY EveryResolveCompletes
CHECK_DEADLOCK FALSE
