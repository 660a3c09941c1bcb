----------------------------- MODULE EntityStore -----------------------------
(***************************************************************************)
(* Reference-counted client and server entries of a SILC client connection *)
(* (lib/silcclient/client_entry.c).  Every entry carries two atomic        *)
(* counters: refcnt, and deleted (initialised to 1, decremented by         *)
(* silc_client_del_client).  The ID cache owns one reference, taken right  *)
(* after the entry is inserted and dropped by the first del.  The entry is *)
(* removed from the cache and freed by the unref that takes refcnt to 0.   *)
(*                                                                         *)
(* Server entries follow the same protocol with their own functions.      *)
(*                                                                         *)
(* Threads call the entry API: silc_client_get_client (find, else add),    *)
(* silc_client_unref_client and silc_client_del_client, and for servers    *)
(* get_server(_by_id), add_server, ref_server, unref_server, del_server.  Each atomic       *)
(* operation and each region under conn->internal->lock is one step.  With *)
(* Cooperative = TRUE one API call runs to completion before another       *)
(* starts, which is how the library's own FSM threads call it; with        *)
(* Cooperative = FALSE the steps of different threads interleave, as when  *)
(* an application thread calls the API beside the connection thread.       *)
(***************************************************************************)
EXTENDS Integers, FiniteSets, Functions

CONSTANTS
    Threads,      \* callers of the entry API
    Objs,         \* client entry allocations, all for one Client ID
    SObjs,        \* server entry allocations, all for one Server ID
    NoObj,        \* "no entry" (NULL)
    NoThread,
    MaxHeld,      \* bound: references one thread holds on one entry
    DeletedFloor, \* bound: lowest value the deleted counter may reach
    Cooperative   \* TRUE: one API call at a time

ASSUME NoObj \notin Objs \cup SObjs /\ Objs \cap SObjs = {} /\ NoThread \notin Threads
ASSUME MaxHeld \in Nat \ {0} /\ DeletedFloor \in Int /\ DeletedFloor < 0
ASSUME Cooperative \in BOOLEAN

VARIABLES
    status,   \* [Objs -> {"unused", "live", "freed"}]: allocation state
    inCache,  \* [AllObjs -> BOOLEAN]: in the connection's client_cache
              \* (client entries) or server_cache (server entries)
    refcnt,   \* [Objs -> Int]: internal.refcnt
    deleted,  \* [Objs -> Int]: internal.deleted
    held,     \* [Threads -> [Objs -> Nat]]: references a thread owns
    pc,       \* [Threads -> ...]: where a thread is inside an API call
    cur,      \* [Threads -> AllObjs \cup {NoObj}]: entry the call works on
    running,  \* thread inside an API call when Cooperative, else NoThread
    uaf       \* TRUE once a step has touched a freed entry

vars == <<status, inCache, refcnt, deleted, held, pc, cur, running, uaf>>

AllObjs == Objs \cup SObjs

Idle == "idle"
PCs == {Idle, "add", "add_ref", "get_ref", "del_unref", "unref_free", "sadd_ref",
        "sunref_free"}

\* Where the decrement to 0 of entry o goes on: unref_client's free path or
\* unref_server's.
FreePc(o) == IF o \in SObjs THEN "sunref_free" ELSE "unref_free"

TypeOK ==
    /\ status \in [AllObjs -> {"unused", "live", "freed"}]
    /\ inCache \in [AllObjs -> BOOLEAN]
    /\ refcnt \in [AllObjs -> Int]
    /\ deleted \in [AllObjs -> DeletedFloor..1]
    /\ held \in [Threads -> [AllObjs -> 0..MaxHeld]]
    /\ pc \in [Threads -> PCs]
    /\ cur \in [Threads -> AllObjs \cup {NoObj}]
    /\ running \in Threads \cup {NoThread}
    /\ uaf \in BOOLEAN

Init ==
    /\ status = [o \in AllObjs |-> "unused"]
    /\ inCache = [o \in AllObjs |-> FALSE]
    /\ refcnt = [o \in AllObjs |-> 0]
    /\ deleted = [o \in AllObjs |-> 1]
    /\ held = [t \in Threads |-> [o \in AllObjs |-> 0]]
    /\ pc = [t \in Threads |-> Idle]
    /\ cur = [t \in Threads |-> NoObj]
    /\ running = NoThread
    /\ uaf = FALSE

\* A thread may begin an API call: under Cooperative only when no other
\* call is in progress.
MayStart(t) == pc[t] = Idle /\ (Cooperative => running = NoThread)
Begin(t) == running' = IF Cooperative THEN t ELSE NoThread
Finish(t) == /\ pc' = [pc EXCEPT ![t] = Idle]
             /\ cur' = [cur EXCEPT ![t] = NoObj]
             /\ running' = NoThread
\* A step that reads or writes entry o records a use after free.
Touch(o) == uaf' = (uaf \/ status[o] = "freed")

Cached == {o \in Objs : inCache[o]}
SCached == {o \in SObjs : inCache[o]}

(***************************************************************************)
(* silc_client_get_client: silc_client_get_client_by_id looks the ID up    *)
(* and references the entry under the connection lock.  If it is found the *)
(* call returns it; otherwise the call goes on to silc_client_add_client.  *)
(***************************************************************************)
GetClientById(t) ==
    /\ MayStart(t)
    /\ \/ \E o \in Cached :
            /\ held[t][o] < MaxHeld
            /\ refcnt' = [refcnt EXCEPT ![o] = @ + 1]
            /\ held' = [held EXCEPT ![t][o] = @ + 1]
            /\ UNCHANGED <<pc, cur, running>>
       \/ /\ Cached = {}
          /\ pc' = [pc EXCEPT ![t] = "add"]
          /\ Begin(t)
          /\ UNCHANGED <<refcnt, held, cur>>
    /\ UNCHANGED <<status, inCache, deleted, uaf>>

\* silc_client_add_client: allocation, then silc_idcache_add under the lock.
\* The entry starts with refcnt 0 and deleted 1.  The call returns NULL,
\* releasing the unseen allocation, when an allocation or the nickname
\* normalisation fails, or when silc_idcache_add refuses the ID.
AddClient(t) ==
    /\ pc[t] = "add"
    /\ \/ \E o \in Objs :
            /\ status[o] = "unused"
            /\ Cached = {}
            /\ status' = [status EXCEPT ![o] = "live"]
            /\ inCache' = [inCache EXCEPT ![o] = TRUE]
            /\ pc' = [pc EXCEPT ![t] = "add_ref"]
            /\ cur' = [cur EXCEPT ![t] = o]
            /\ UNCHANGED running
       \/ /\ Finish(t)
          /\ UNCHANGED <<status, inCache>>
    /\ UNCHANGED <<refcnt, deleted, held, uaf>>

\* silc_client_add_client: silc_client_ref_client after the lock is
\* released; this is the reference the ID cache owns.
AddClientRef(t) ==
    /\ pc[t] = "add_ref"
    /\ refcnt' = [refcnt EXCEPT ![cur[t]] = @ + 1]
    /\ Touch(cur[t])
    /\ pc' = [pc EXCEPT ![t] = "get_ref"]
    /\ UNCHANGED <<status, inCache, deleted, held, cur, running>>

\* silc_client_get_client: the extra reference returned to the caller.
GetClientRef(t) ==
    /\ pc[t] = "get_ref"
    /\ refcnt' = [refcnt EXCEPT ![cur[t]] = @ + 1]
    /\ held' = [held EXCEPT ![t][cur[t]] = @ + 1]
    /\ Touch(cur[t])
    /\ Finish(t)
    /\ UNCHANGED <<status, inCache, deleted>>

(***************************************************************************)
(* silc_client_unref_client: atomic decrement; only the decrement that     *)
(* reaches 0 goes on, takes the lock, deletes the entry from the cache and *)
(* frees it if the cache still had it (silc_idcache_del_by_context        *)
(* returned TRUE).                                                         *)
(***************************************************************************)
\* Faulty variant: an off-by-one that frees while one reference remains.
UnrefDecrementEarly(t, o) ==
    /\ refcnt' = [refcnt EXCEPT ![o] = @ - 1]
    /\ IF refcnt[o] - 1 > 1
       THEN Finish(t)
       ELSE /\ pc' = [pc EXCEPT ![t] = FreePc(o)]
            /\ cur' = [cur EXCEPT ![t] = o]
            /\ Begin(t)

UnrefDecrement(t, o) ==
    /\ refcnt' = [refcnt EXCEPT ![o] = @ - 1]
    /\ IF refcnt[o] - 1 > 0
       THEN Finish(t)
       ELSE /\ pc' = [pc EXCEPT ![t] = FreePc(o)]
            /\ cur' = [cur EXCEPT ![t] = o]
            /\ Begin(t)

\* Faulty variant: a caller releases a reference it does not own.
UnrefClientUnowned(t) ==
    /\ MayStart(t)
    /\ \E o \in Objs :
        /\ status[o] = "live"
        /\ held' = [held EXCEPT ![t][o] = @ - 1]
        /\ UnrefDecrement(t, o)
        /\ Touch(o)
    /\ UNCHANGED <<status, inCache, deleted>>

UnrefClient(t) ==
    /\ MayStart(t)
    /\ \E o \in Objs :
        /\ held[t][o] > 0
        /\ held' = [held EXCEPT ![t][o] = @ - 1]
        /\ UnrefDecrement(t, o)
        /\ Touch(o)
    /\ UNCHANGED <<status, inCache, deleted>>

UnrefFree(t) ==
    /\ pc[t] = "unref_free"
    /\ LET o == cur[t] IN
        /\ inCache' = [inCache EXCEPT ![o] = FALSE]
        /\ status' = IF inCache[o] THEN [status EXCEPT ![o] = "freed"]
                                   ELSE status
    /\ Finish(t)
    /\ UNCHANGED <<refcnt, deleted, held, uaf>>

(***************************************************************************)
(* silc_client_del_client: the atomic decrement of deleted lets only the   *)
(* first call through; that call drops the cache's reference.  The caller  *)
(* keeps its own reference.                                                *)
(***************************************************************************)
\* Faulty variant: no atomic deleted counter, so every del drops the
\* cache's reference.
DelClientEvery(t) ==
    /\ MayStart(t)
    /\ \E o \in Objs :
        /\ held[t][o] > 0
        /\ deleted[o] > DeletedFloor
        /\ deleted' = [deleted EXCEPT ![o] = @ - 1]
        /\ Touch(o)
        /\ pc' = [pc EXCEPT ![t] = "del_unref"]
        /\ cur' = [cur EXCEPT ![t] = o]
        /\ Begin(t)
    /\ UNCHANGED <<status, inCache, refcnt, held>>

DelClient(t) ==
    /\ MayStart(t)
    /\ \E o \in Objs :
        /\ held[t][o] > 0
        /\ deleted[o] > DeletedFloor
        /\ deleted' = [deleted EXCEPT ![o] = @ - 1]
        /\ Touch(o)
        /\ IF deleted[o] - 1 # 0
           THEN UNCHANGED <<pc, cur, running>>
           ELSE /\ pc' = [pc EXCEPT ![t] = "del_unref"]
                /\ cur' = [cur EXCEPT ![t] = o]
                /\ Begin(t)
    /\ UNCHANGED <<status, inCache, refcnt, held>>

DelClientUnref(t) ==
    /\ pc[t] = "del_unref"
    /\ UnrefDecrement(t, cur[t])
    /\ Touch(cur[t])
    /\ UNCHANGED <<status, inCache, deleted, held>>

(***************************************************************************)
(* Server entries.  silc_client_get_server (by name) and                   *)
(* silc_client_get_server_by_id find the cached entry and reference it     *)
(* under the lock; a name or ID not in the cache returns NULL.  There is   *)
(* no find-else-add call: the command reply code calls add_server.         *)
(***************************************************************************)
GetServer(t) ==
    /\ MayStart(t)
    /\ \E o \in SCached :
        /\ held[t][o] < MaxHeld
        /\ refcnt' = [refcnt EXCEPT ![o] = @ + 1]
        /\ held' = [held EXCEPT ![t][o] = @ + 1]
    /\ UNCHANGED <<status, inCache, deleted, pc, cur, running, uaf>>

\* silc_client_add_server: allocation (refcnt 0, deleted 1) and
\* silc_idcache_add under the lock, which refuses an ID already cached;
\* every failure frees the unseen allocation and returns NULL.
AddServer(t) ==
    /\ MayStart(t)
    /\ \E o \in SObjs :
        /\ status[o] = "unused"
        /\ SCached = {}
        /\ status' = [status EXCEPT ![o] = "live"]
        /\ inCache' = [inCache EXCEPT ![o] = TRUE]
        /\ pc' = [pc EXCEPT ![t] = "sadd_ref"]
        /\ cur' = [cur EXCEPT ![t] = o]
        /\ Begin(t)
    /\ UNCHANGED <<refcnt, deleted, held, uaf>>

\* silc_client_add_server: silc_client_ref_server after the lock is
\* released, the cache's reference.  The caller is handed the entry but
\* owns no reference of its own.
AddServerRef(t) ==
    /\ pc[t] = "sadd_ref"
    /\ refcnt' = [refcnt EXCEPT ![cur[t]] = @ + 1]
    /\ Touch(cur[t])
    /\ Finish(t)
    /\ UNCHANGED <<status, inCache, deleted, held>>

\* silc_client_ref_server by a caller that holds the entry.
RefServer(t) ==
    /\ MayStart(t)
    /\ \E o \in SObjs :
        /\ held[t][o] \in 1 .. MaxHeld - 1
        /\ refcnt' = [refcnt EXCEPT ![o] = @ + 1]
        /\ held' = [held EXCEPT ![t][o] = @ + 1]
        /\ Touch(o)
    /\ UNCHANGED <<status, inCache, deleted, pc, cur, running>>

\* silc_client_unref_server: the same atomic decrement as for clients; the
\* decrement to 0 goes on to UnrefServerFree.
UnrefServer(t) ==
    /\ MayStart(t)
    /\ \E o \in SObjs :
        /\ held[t][o] > 0
        /\ held' = [held EXCEPT ![t][o] = @ - 1]
        /\ UnrefDecrement(t, o)
        /\ Touch(o)
    /\ UNCHANGED <<status, inCache, deleted>>

\* Faulty variant: del_server ignores the deleted counter, so every del
\* drops the cache's reference.
DelServerEvery(t) ==
    /\ MayStart(t)
    /\ \E o \in SObjs :
        /\ held[t][o] > 0
        /\ deleted[o] > DeletedFloor
        /\ deleted' = [deleted EXCEPT ![o] = @ - 1]
        /\ Touch(o)
        /\ pc' = [pc EXCEPT ![t] = "del_unref"]
        /\ cur' = [cur EXCEPT ![t] = o]
        /\ Begin(t)
    /\ UNCHANGED <<status, inCache, refcnt, held>>

\* silc_client_del_server: the first decrement of deleted drops the
\* cache's reference with silc_client_unref_server (DelClientUnref, whose
\* decrement to 0 goes on to UnrefServerFree).
DelServer(t) ==
    /\ MayStart(t)
    /\ \E o \in SObjs :
        /\ held[t][o] > 0
        /\ deleted[o] > DeletedFloor
        /\ deleted' = [deleted EXCEPT ![o] = @ - 1]
        /\ Touch(o)
        /\ IF deleted[o] - 1 # 0
           THEN UNCHANGED <<pc, cur, running>>
           ELSE /\ pc' = [pc EXCEPT ![t] = "del_unref"]
                /\ cur' = [cur EXCEPT ![t] = o]
                /\ Begin(t)
    /\ UNCHANGED <<status, inCache, refcnt, held>>

\* silc_client_unref_server after the decrement to 0: under the lock the
\* entry is deleted from the cache if it is found there; then it is freed
\* whether or not it was.  Freeing an entry already freed is recorded as a
\* use after free.
UnrefServerFree(t) ==
    /\ pc[t] = "sunref_free"
    /\ LET o == cur[t] IN
        /\ inCache' = [inCache EXCEPT ![o] = FALSE]
        /\ status' = [status EXCEPT ![o] = "freed"]
        /\ Touch(o)
    /\ Finish(t)
    /\ UNCHANGED <<refcnt, deleted, held>>

Next ==
    \E t \in Threads :
        \/ GetClientById(t)
        \/ AddClient(t)
        \/ AddClientRef(t)
        \/ GetClientRef(t)
        \/ UnrefClient(t)
        \/ UnrefFree(t)
        \/ DelClient(t)
        \/ DelClientUnref(t)
        \/ GetServer(t)
        \/ AddServer(t)
        \/ AddServerRef(t)
        \/ RefServer(t)
        \/ UnrefServer(t)
        \/ UnrefServerFree(t)
        \/ DelServer(t)

Spec == Init /\ [][Next]_vars

-----------------------------------------------------------------------------
HeldBy(o) == SumFunction([t \in Threads |-> held[t][o]])

(* No thread ever reads or writes a freed client entry, and every          *)
(* reference a thread owns is to a live entry: silc_client_unref_client    *)
(* must not free an entry that silc_client_get_client_by_id has just       *)
(* handed out, nor silc_client_add_client reference one already freed.     *)
NoUseAfterFree ==
    /\ ~uaf
    /\ \A t \in Threads, o \in AllObjs : held[t][o] > 0 => status[o] = "live"

(* Between API calls, a live entry's refcnt is exactly the references      *)
(* threads own plus the ID cache's one, which exists until the first       *)
(* silc_client_del_client: neither a repeated del nor any unref path may   *)
(* drop a reference that nobody owns.                                      *)
RefCountAccounting ==
    (\A t \in Threads : pc[t] = Idle) =>
        \A o \in AllObjs : status[o] = "live" =>
            refcnt[o] = HeldBy(o) + (IF deleted[o] = 1 THEN 1 ELSE 0)

-----------------------------------------------------------------------------
(***************************************************************************)
(* Refinement mapping to ClientEntryLifecycle.  An entry whose last        *)
(* reference has been dropped by silc_client_unref_client, and whose       *)
(* caller is about to take it out of the cache and free it, is already     *)
(* gone for every other caller.  The cache's hold is the deleted counter   *)
(* still at 1.  The steps that move only refcnt, pc or a repeated deleted  *)
(* decrement are stuttering steps of the lifecycle.                        *)
(***************************************************************************)
Dying(o) == \E t \in Threads : pc[t] = FreePc(o) /\ cur[t] = o

\* The abstract variables of the entries in S, all for one ID.
LifeOf(S) == [o \in S |-> IF Dying(o) THEN "freed" ELSE status[o]]
ListedOf(S) == [o \in S |-> inCache[o] /\ ~Dying(o)]
CacheRefOf(S) == [o \in S |-> status[o] = "live" /\ deleted[o] = 1]
OwnersOf(S) == [t \in Threads |-> [o \in S |-> held[t][o]]]

Lifecycle == INSTANCE ClientEntryLifecycle WITH
    life <- LifeOf(Objs), listed <- ListedOf(Objs),
    cacheRef <- CacheRefOf(Objs), owners <- OwnersOf(Objs)

SLifecycle == INSTANCE ClientEntryLifecycle WITH
    Objs <- SObjs, life <- LifeOf(SObjs), listed <- ListedOf(SObjs),
    cacheRef <- CacheRefOf(SObjs), owners <- OwnersOf(SObjs)

(* When API calls do not overlap, the counter protocol of                  *)
(* silc_client_get_client, _unref_client and _del_client, and of the       *)
(* server entry functions, implements the lifecycle for each kind: an      *)
(* entry is freed exactly when the last of its callers and                 *)
(* the cache let go, a lookup only ever returns a listed entry, and only a *)
(* caller that owns a reference releases or deletes.                       *)
RefinesLifecycle == Lifecycle!LSpec /\ SLifecycle!LSpec
=============================================================================
