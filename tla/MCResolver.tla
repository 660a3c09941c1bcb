----------------------------- MODULE MCResolver -----------------------------
(* Model-checking instance of Resolver: three resolve requests for up to   *)
(* two entries, enough for a lookup, an attach, a resolve after a reply,   *)
(* and an ID list with one cached and one unknown entry.                   *)
EXTENDS Resolver

CONSTANTS c1, c2, c3, e1, e2, s1

MCCallers == {c1, c2, c3}
MCClientIds == {e1}
MCClientIds2 == {e1, e2}
MCServerIds == {s1}
MCNone == {}
=============================================================================
