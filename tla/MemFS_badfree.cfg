\* A peer that sends only handles it holds and no REALPATH: a lookup of a
\* missing absolute path frees a pointer into the path string.
CONSTANTS
    Entries <- MCEntries
    Root = e0
    Null = Null
    Names <- MCNames
    Perms <- MCPerms
    RootPerm <- RWX
    Paths <- MCPaths
    MaxIdx = 5
    NFd = 2
    PeerOps <- NoRealPath
    HonestPeer = TRUE
    MaxOpen = 3
    e0 = e0  e1 = e1  e2 = e2
INIT Init
NEXT Next
INVARIANT MemorySafe
