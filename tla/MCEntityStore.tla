---------------------------- MODULE MCEntityStore ----------------------------
(* Model-checking instance of EntityStore: two threads, two allocations of *)
(* one Client ID and two of one Server ID (so that an ID can be re-added   *)
(* after its entry is freed).                                              *)
EXTENDS EntityStore

CONSTANTS t1, t2, o1, o2, s1, s2

MCThreads == {t1, t2}
MCObjs == {o1, o2}
MCSObjs == {s1, s2}
\* No server entries: the race run explores the client entry functions only.
MCNoSObjs == {}
MCDeletedFloor == -1
=============================================================================
