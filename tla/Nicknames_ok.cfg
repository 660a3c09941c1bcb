\* The local user and two other clients adding, resolving, joining,
\* changing nicknames and leaving, under two nicknames.
CONSTANTS
    me = me
    c1 = c1
    c2 = c2
    foo = foo
    bar = bar
    None = None
    Clients <- MCClients
    Local = me
    Bases <- MCBases
    MaxNum = 5
SPECIFICATION Spec
INVARIANT TypeOK DistinctNumbered LocalPlain
