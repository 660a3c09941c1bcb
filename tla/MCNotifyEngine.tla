--------------------------- MODULE MCNotifyEngine ---------------------------
(* Model-checking instances of NotifyEngine: one channel, the local user  *)
(* and two other clients, three to six notify packets.                    *)
EXTENDS NotifyEngine, TLC

CONSTANTS n1, n2, n3, n4, n5, n6, n7, n8, me, x, y, ch1, o0, o1, o2, o3, o4

MCThreads == {n1, n2, n3}
MCThreads6 == {n1, n2, n3, n4, n5, n6}
MCThreads8 == MCThreads6 \cup {n7, n8}
MCClientIds == {me, x, y}
MCChannels == {ch1}
MCObjs == {o0, o1, o2, o3, o4}
MCObjId == o0 :> me @@ o1 :> x @@ o2 :> x @@ o3 :> y @@ o4 :> y
MCIdents == {1, 2}

N(type, c, a, b) == [type |-> type, ch |-> c, x |-> a, y |-> b]

\* x joins (unknown to us), y sets the topic, then x leaves.
JoinTopicLeave ==
    n1 :> N("JOIN", ch1, x, x) @@ n2 :> N("TOPIC_SET", ch1, x, y)
    @@ n3 :> N("LEAVE", ch1, x, x)
\* y, not yet known, joins, sets the topic and kicks x; x signs off; y
\* leaves again and kicks the local user, which empties and deletes the
\* channel.  Six packets in any interleaving of their handlers.
JoinTopicKickLeave ==
    n1 :> N("JOIN", ch1, y, y) @@ n2 :> N("TOPIC_SET", ch1, x, y)
    @@ n3 :> N("KICKED", ch1, x, y) @@ n4 :> N("SIGNOFF", ch1, x, x)
    @@ n5 :> N("LEAVE", ch1, y, y) @@ n6 :> N("KICKED", ch1, me, y)

\* The same six, and y kills x while x's server signs off with x and y.
AllEight ==
    JoinTopicKickLeave @@ n7 :> N("KILLED", NoCh, x, y)
    @@ n8 :> N("SERVER_SIGNOFF", NoCh, x, y)

MembersMeY == {<<me, ch1>>, <<y, ch1>>}
ClientsMeY == {me, y}
ClientsMeX == {me, x}
MembersMeX == {<<me, ch1>>, <<x, ch1>>}
ClientsAll == {me, x, y}
=============================================================================
