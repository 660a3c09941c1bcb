\* x is known and valid but its username is not: a JOIN of x resolves it
\* again after every failed WHOIS and never reaches the processed state.
CONSTANTS
    n1 = n1
    n2 = n2
    n3 = n3
    n4 = n4
    n5 = n5
    n6 = n6
    n7 = n7
    n8 = n8
    me = me
    x = x
    y = y
    ch1 = ch1
    o0 = o0
    o1 = o1
    o2 = o2
    o3 = o3
    o4 = o4
    NoObj = NoObj
    NoCh = NoCh
    Threads <- MCThreads
    ClientIds <- MCClientIds
    Self = me
    Channels <- MCChannels
    Objs <- MCObjs
    ObjId <- MCObjId
    Idents <- MCIdents
    MaxRetry = 1
    Notif <- JoinTopicLeave
    InitClients <- ClientsAll
    InitMembers <- MembersMeY
    InitUsername = {FALSE}
SPECIFICATION Spec
PROPERTY AllNotifiesProcessed
CHECK_DEADLOCK FALSE
