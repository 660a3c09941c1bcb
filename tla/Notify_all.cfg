\* y, not yet known, joins, sets the topic, kicks x and leaves; x signs
\* off; y kicks the local user, which empties and deletes the channel; y
\* kills x; x's server signs off with x and y.
CONSTANTS
    n1 = n1
    n2 = n2
    n3 = n3
    n4 = n4
    n5 = n5
    n6 = n6
    n7 = n7
    n8 = n8
    me = me
    x = x
    y = y
    ch1 = ch1
    o0 = o0
    o1 = o1
    o2 = o2
    o3 = o3
    o4 = o4
    NoObj = NoObj
    NoCh = NoCh
    Threads <- MCThreads8
    ClientIds <- MCClientIds
    Self = me
    Channels <- MCChannels
    Objs <- MCObjs
    ObjId <- MCObjId
    Idents <- MCIdents
    MaxRetry = 1
    Notif <- AllEight
    InitClients <- ClientsMeX
    InitMembers <- MembersMeX
    InitUsername = {TRUE}
SPECIFICATION Spec
INVARIANT TypeOK
INVARIANT ReferencesSound
INVARIANT ChannelTagHeld
PROPERTY AllNotifiesProcessed
CHECK_DEADLOCK FALSE
