\* Channel keys across three rekeys, private keys, mode and HMAC changes
\* (an HMAC change may name an unsupported HMAC): no freed key is used,
\* and the decrypt walk finds every held key generation.
CONSTANTS
    NC = 10
    NH = 7
    MaxSaves = 3
    MaxPriv = 2
    p1 = p1
    PrivMats <- MCPrivMats
    CanFail <- UnsupportedHmac
INIT Init
NEXT Next
INVARIANT NoFreedKeyUse DecryptsHeldKeys
\* The channel entry is freed at the end; nothing follows.
CHECK_DEADLOCK FALSE
