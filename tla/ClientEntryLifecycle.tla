------------------------ MODULE ClientEntryLifecycle ------------------------
(***************************************************************************)
(* What the client entry API of lib/silcclient/client_entry.c promises its *)
(* callers, with no counters and no locks.  An entry is created listed in  *)
(* the connection's ID cache, and the cache holds it until it is deleted.  *)
(* Callers own the references they get and release only those.  An entry  *)
(* disappears (it is unlisted and freed) exactly when neither a caller nor *)
(* the cache holds it any longer.  All of one Client ID's entries are      *)
(* allocations in Objs; at most one of them is listed at a time.  Server   *)
(* entries make the same promise, with a Server ID's allocations as Objs.  *)
(***************************************************************************)
EXTENDS Naturals, Functions

CONSTANTS Threads, Objs

VARIABLES
    life,      \* [Objs -> {"unused", "live", "freed"}]
    listed,    \* [Objs -> BOOLEAN]: silc_client_get_client_by_id finds it
    cacheRef,  \* [Objs -> BOOLEAN]: not yet deleted, the cache holds it
    owners     \* [Threads -> [Objs -> Nat]]: references callers own

avars == <<life, listed, cacheRef, owners>>

Holders(o) == SumFunction([t \in Threads |-> owners[t][o]])

LInit ==
    /\ life = [o \in Objs |-> "unused"]
    /\ listed = [o \in Objs |-> FALSE]
    /\ cacheRef = [o \in Objs |-> FALSE]
    /\ owners = [t \in Threads |-> [o \in Objs |-> 0]]

\* silc_client_add_client: a new entry for the ID, listed and held by the
\* cache, when the cache has none.
Create(o) ==
    /\ life[o] = "unused"
    /\ \A p \in Objs : ~listed[p]
    /\ life' = [life EXCEPT ![o] = "live"]
    /\ listed' = [listed EXCEPT ![o] = TRUE]
    /\ cacheRef' = [cacheRef EXCEPT ![o] = TRUE]
    /\ UNCHANGED owners

\* silc_client_get_client(_by_id): a listed entry gains a reference.
Lookup(t, o) ==
    /\ listed[o]
    /\ owners' = [owners EXCEPT ![t][o] = @ + 1]
    /\ UNCHANGED <<life, listed, cacheRef>>

\* silc_client_del_client by an owner: the cache gives up its hold; a
\* deleted entry stays listed while anyone still holds it.
Delete(t, o) ==
    /\ owners[t][o] > 0
    /\ cacheRef[o]
    /\ cacheRef' = [cacheRef EXCEPT ![o] = FALSE]
    /\ UNCHANGED <<life, listed, owners>>

\* silc_client_unref_client by an owner; the last hold going frees it.
Release(t, o) ==
    /\ owners[t][o] > 0
    /\ owners' = [owners EXCEPT ![t][o] = @ - 1]
    /\ IF Holders(o) = 1 /\ ~cacheRef[o]
       THEN /\ life' = [life EXCEPT ![o] = "freed"]
            /\ listed' = [listed EXCEPT ![o] = FALSE]
       ELSE UNCHANGED <<life, listed>>
    /\ UNCHANGED cacheRef

LNext ==
    \E o \in Objs :
        \/ Create(o)
        \/ \E t \in Threads : Lookup(t, o) \/ Delete(t, o) \/ Release(t, o)

LSpec == LInit /\ [][LNext]_avars
=============================================================================
