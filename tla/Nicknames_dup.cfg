\* A WHOIS reply resolves a client entry added without a nickname.
CONSTANTS
    me = me
    c1 = c1
    c2 = c2
    foo = foo
    bar = bar
    None = None
    Clients <- MCClients
    Local = me
    Bases <- MCBases
    MaxNum = 5
SPECIFICATION Spec
INVARIANT Addressable
