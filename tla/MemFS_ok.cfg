\* Every call of the application and every request of any peer: the handle
\* table and the directory links stay sound.
CONSTANTS
    Entries <- MCEntries
    Root = e0
    Null = Null
    Names <- MCNames
    Perms <- MCPerms
    RootPerm <- RWX
    Paths <- MCPaths
    MaxIdx = 5
    NFd = 2
    PeerOps <- AllOps
    HonestPeer = FALSE
    MaxOpen = 3
    e0 = e0  e1 = e1  e2 = e2
INIT Init
NEXT Next
INVARIANT TypeOK HandleTableSound DirectoriesLinked
CONSTRAINT Defined
