---------------------------- MODULE MCNicknames ----------------------------
(* Model-checking instance of Nicknames: the local user and two other    *)
(* client entries, two nicknames.                                        *)
EXTENDS Nicknames

CONSTANTS me, c1, c2, foo, bar

MCClients == {me, c1, c2}
MCBases == {foo, bar}
=============================================================================
