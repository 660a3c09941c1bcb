--------------------------- MODULE MCChannelKeys ---------------------------
(* Model-checking instances of ChannelKeys: three channel key payloads,   *)
(* up to two private keys of one material.                                *)
EXTENDS ChannelKeys, TLC

CONSTANTS p1

MCPrivMats == {p1}
\* Allocation failures of save_channel_key (an unsupported cipher or HMAC
\* sent by the server, or memory exhaustion).
SaveFails == {"save_send", "save_recv", "save_hmac"}
PrivFails == {"priv_send", "priv_recv", "priv_hmac"}
NoFails == {}
\* The server names a channel cipher the client does not support.
UnsupportedCipher == {"save_send"}
\* A CMODE_CHANGE names an HMAC the client does not support.
UnsupportedHmac == {"cmode_hmac"}
=============================================================================
