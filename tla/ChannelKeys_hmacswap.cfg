\* After a channel key with an unsupported cipher, a CMODE_CHANGE HMAC swap
\* frees an HMAC that old_hmacs still holds.
CONSTANTS
    NC = 8
    NH = 5
    MaxSaves = 2
    MaxPriv = 2
    p1 = p1
    PrivMats <- MCPrivMats
    CanFail <- UnsupportedCipher
INIT Init
NEXT Next
INVARIANT NoFreedKeyUse
\* The channel entry is freed at the end; nothing follows.
CHECK_DEADLOCK FALSE
