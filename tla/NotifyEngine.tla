----------------------------- MODULE NotifyEngine -----------------------------
(***************************************************************************)
(* Notify processing of a SILC client connection                           *)
(* (lib/silcclient/client_notify.c) over the entry store it mutates        *)
(* (client_entry.c, client_channel.c).  Every received notify packet runs  *)
(* in its own FSM thread.  FSM threads are cooperative: a handler state    *)
(* runs to completion, or to a suspension in SILC_FSM_CALL, as one step.   *)
(* A handler suspends                                                      *)
(*   - when the channel it is about carries a resolve_cmd_ident: it waits  *)
(*     with silc_client_notify_wait_continue for that command's reply;     *)
(*   - when a client it needs is missing or invalid: it resolves it with   *)
(*     silc_client_get_client_by_id_resolve, stores the channel in         *)
(*     notify->channel, tags the channel with the command identifier and   *)
(*     continues in silc_client_notify_resolved.                           *)
(* Reply callbacks continue the thread synchronously                       *)
(* (SILC_FSM_CALL_CONTINUE_SYNC): the resumed handlers run before any      *)
(* other event is processed.                                               *)
(*                                                                         *)
(* Modelled handlers: JOIN, LEAVE, SIGNOFF, TOPIC_SET (by a client),      *)
(* KICKED, KILLED (by a client) and SERVER_SIGNOFF (of two clients), with *)
(* every reference they take and release, the membership records that     *)
(* own references, and the delete-once counters.                          *)
(***************************************************************************)
EXTENDS Integers, FiniteSets, FiniteSetsExt, SequencesExt

CONSTANTS
    Threads,      \* notify packets, one FSM thread each
    Notif,        \* [Threads -> notify]: type and arguments of each packet
    ClientIds,    \* Client IDs the notifies name
    Self,         \* the connection's own Client ID (conn->local_entry)
    Channels,     \* channel entries (one allocation each)
    Objs,         \* client entry allocations
    ObjId,        \* [Objs -> ClientIds]: the ID an allocation is for
    NoObj, NoCh,  \* NULL client entry, NULL channel entry
    Idents,       \* command identifiers in use at the same time
    MaxRetry,     \* bound: timeouts retried by silc_client_notify_resolved
    InitClients,  \* IDs with a valid entry when the threads start
    InitMembers,  \* initial <<Client ID, channel>> memberships
    InitUsername  \* whether those entries may already know the username

Types == {"JOIN", "LEAVE", "SIGNOFF", "TOPIC_SET", "KICKED", "KILLED",
          "SERVER_SIGNOFF"}
Notify == [type : Types, ch : Channels \cup {NoCh}, x : ClientIds, y : ClientIds]
Outcome == {"ok", "error", "timeout"}

ASSUME Notif \in [Threads -> Notify] /\ Self \in ClientIds
ASSUME ObjId \in [Objs -> ClientIds] /\ NoObj \notin Objs /\ NoCh \notin Channels
ASSUME MaxRetry \in Nat /\ InitUsername \subseteq BOOLEAN
ASSUME InitMembers \subseteq InitClients \X Channels

VARIABLES
    store,    \* the entries: see Store below
    cmds,     \* [Idents -> command]: WHOIS commands and their callbacks
    ctx,      \* [Threads -> SilcClientNotify context and FSM state]
    urgent    \* threads resumed synchronously by the reply being processed

vars == <<store, cmds, ctx, urgent>>

(* The entries.  Client allocations: cst (unused/live/freed), rc           *)
(* (internal.refcnt), del (internal.deleted), valid, user (username known), *)
(* cident (internal.resolve_cmd_ident).  Channels: chst, chrc, chdel,      *)
(* chident.  mem: the <<client, channel>> SilcChannelUser records.  uaf:    *)
(* some step touched a freed entry.  Live entries are exactly the cached    *)
(* ones: an entry leaves the cache only in the unref that frees it.        *)
Store ==
    [cst : [Objs -> {"unused", "live", "freed"}], rc : [Objs -> Int],
     del : [Objs -> Int], valid : [Objs -> BOOLEAN], user : [Objs -> BOOLEAN],
     cident : [Objs -> Idents \cup {0}],
     chst : [Channels -> {"live", "freed"}], chrc : [Channels -> Int],
     chdel : [Channels -> Int], chident : [Channels -> Idents \cup {0}],
     mem : SUBSET (Objs \X Channels), uaf : BOOLEAN]

Waiter == [t : Threads, kind : {"resolved", "wait"}, owner : Objs \cup {NoObj}]
Command == [open : BOOLEAN, target : ClientIds, waiters : SUBSET Waiter]
Context == [pc : {"run", "wait", "done"}, nce : Objs \cup {NoObj},
            hce : BOOLEAN, nch : Channels \cup {NoCh}, hch : BOOLEAN,
            retry : 0..(MaxRetry + 1)]

TypeOK ==
    /\ store \in Store
    /\ cmds \in [Idents -> Command]
    /\ ctx \in [Threads -> Context]
    /\ urgent \subseteq Threads

-----------------------------------------------------------------------------
(***************************************************************************)
(* Entry store operations, as functions of the store.                      *)
(***************************************************************************)
Touch(S, o) == [S EXCEPT !.uaf = @ \/ S.cst[o] = "freed"]
TouchCh(S, ch) == [S EXCEPT !.uaf = @ \/ S.chst[ch] = "freed"]

\* silc_client_get_client_by_id: the cached entry of an ID, referenced.
FindClient(S, x) ==
    IF \E o \in Objs : S.cst[o] = "live" /\ ObjId[o] = x
    THEN CHOOSE o \in Objs : S.cst[o] = "live" /\ ObjId[o] = x
    ELSE NoObj

\* silc_client_ref_client / silc_client_unref_client.  The unref that takes
\* refcnt to 0 deletes the entry from the cache and frees it.
RefClient(S, o) ==
    IF o = NoObj THEN S ELSE [Touch(S, o) EXCEPT !.rc[o] = @ + 1]

UnrefClient(S, o) ==
    IF o = NoObj THEN S
    ELSE LET T == Touch(S, o) IN
         IF T.rc[o] - 1 > 0 THEN [T EXCEPT !.rc[o] = @ - 1]
         ELSE [T EXCEPT !.rc[o] = @ - 1, !.cst[o] = "freed"]

\* silc_client_del_client: only the call that takes deleted to 0 drops the
\* cache's reference.
DelClient(S, o) ==
    IF o = NoObj THEN S
    ELSE LET T == [Touch(S, o) EXCEPT !.del[o] = @ - 1] IN
         IF T.del[o] # 0 THEN T ELSE UnrefClient(T, o)

\* silc_client_get_channel_by_id, silc_client_ref_channel,
\* silc_client_unref_channel, silc_client_del_channel.
FindChannel(S, ch) ==
    IF ch # NoCh /\ S.chst[ch] = "live" THEN ch ELSE NoCh

RefChannel(S, ch) ==
    IF ch = NoCh THEN S ELSE [TouchCh(S, ch) EXCEPT !.chrc[ch] = @ + 1]

UnrefChannel(S, ch) ==
    IF ch = NoCh THEN S
    ELSE LET T == TouchCh(S, ch) IN
         IF T.chrc[ch] - 1 > 0 THEN [T EXCEPT !.chrc[ch] = @ - 1]
         ELSE [T EXCEPT !.chrc[ch] = @ - 1, !.chst[ch] = "freed"]

DelChannel(S, ch) ==
    LET T == [TouchCh(S, ch) EXCEPT !.chdel[ch] = @ - 1] IN
    IF T.chdel[ch] # 0 THEN T ELSE UnrefChannel(T, ch)

\* silc_client_get_client: find the entry, else add one (refcnt 0, the
\* cache's reference, then the caller's).  Nickname unknown: not valid.
GetClient(S, x) ==
    LET f == FindClient(S, x) IN
    IF f # NoObj THEN [s |-> RefClient(S, f), o |-> f]
    ELSE IF \E o \in Objs : S.cst[o] = "unused" /\ ObjId[o] = x
    THEN LET o == CHOOSE o \in Objs : S.cst[o] = "unused" /\ ObjId[o] = x IN
         [s |-> [S EXCEPT !.cst[o] = "live", !.rc[o] = 2, !.del[o] = 1,
                          !.valid[o] = FALSE, !.user[o] = FALSE,
                          !.cident[o] = 0],
          o |-> o]
    ELSE [s |-> S, o |-> NoObj]

\* silc_client_add_to_channel: a new SilcChannelUser references both.
AddToChannel(S, ch, o) ==
    IF <<o, ch>> \in S.mem THEN S
    ELSE RefChannel(RefClient([S EXCEPT !.mem = @ \cup {<<o, ch>>}], o), ch)

\* silc_client_remove_from_channel: FALSE when not on the channel; the
\* channel is deleted when it becomes empty, then both references of the
\* record are released.
RemoveFromChannel(S, ch, o) ==
    IF <<o, ch>> \notin S.mem THEN [s |-> S, ok |-> FALSE]
    ELSE LET T1 == [TouchCh(Touch(S, o), ch) EXCEPT !.mem = @ \ {<<o, ch>>}]
             T2 == IF \E m \in T1.mem : m[2] = ch THEN T1 ELSE DelChannel(T1, ch)
         IN [s |-> UnrefChannel(UnrefClient(T2, o), ch), ok |-> TRUE]

\* silc_client_empty_channel: every record of the channel is removed.
EmptyChannel(S, ch) ==
    FoldSet(LAMBDA m, A :
                UnrefChannel(UnrefClient([A EXCEPT !.mem = @ \ {m}], m[1]), ch),
            TouchCh(S, ch), {m \in S.mem : m[2] = ch})

\* silc_client_remove_from_channels: every record of the client is
\* removed, a channel left empty is deleted, and each record's two
\* references are released.
RemoveFromChannels(S, o) ==
    FoldSet(LAMBDA m, A :
                LET T == [A EXCEPT !.mem = @ \ {m}] IN
                UnrefChannel(UnrefClient(
                    IF \E r \in T.mem : r[2] = m[2] THEN T ELSE DelChannel(T, m[2]),
                    o), m[2]),
            S, {m \in S.mem : m[1] = o})

\* The delete sequence of KILLED and SERVER_SIGNOFF: out of every channel,
\* marked invalid, deleted.
Kill(S, o) == DelClient([RemoveFromChannels(S, o) EXCEPT !.valid[o] = FALSE], o)

-----------------------------------------------------------------------------
(***************************************************************************)
(* Resolving and continuing.                                               *)
(***************************************************************************)
\* silc_client_get_client_by_id_resolve for thread t: attach to the entry's
\* command (reading resolve_cmd_ident after the unref), or send a WHOIS
\* and keep the found entry's reference in i->client_entry.  A send that
\* fails (sendOk = FALSE) completes with SILC_STATUS_ERR_RESOURCE_LIMIT and
\* returns 0.
ResolveClient(S, C, t, x, sendOk) ==
    LET ce == FindClient(S, x)
        S1 == RefClient(S, ce)
    IN IF ce # NoObj /\ S1.cident[ce] # 0
       THEN LET S2 == Touch(UnrefClient(S1, ce), ce)
                i == S2.cident[ce]
            IN [s |-> S2, id |-> i,
                c |-> [C EXCEPT ![i].waiters =
                         @ \cup {[t |-> t, kind |-> "resolved", owner |-> NoObj]}]]
       ELSE IF sendOk /\ \E i \in Idents : ~C[i].open
       THEN LET i == CHOOSE i \in Idents : ~C[i].open IN
            [s |-> IF ce # NoObj THEN [S1 EXCEPT !.cident[ce] = i] ELSE S1,
             id |-> i,
             c |-> [C EXCEPT ![i] = [open |-> TRUE, target |-> x,
                     waiters |-> {[t |-> t, kind |-> "resolved", owner |-> ce]}]]]
       ELSE [s |-> UnrefClient(S1, ce), id |-> 0, c |-> C]

\* Faulty variant: timeouts are retried without the bound.
NotifyResolvedNoCap(S, X, status) ==
    LET ce == X.nce
        S0 == IF ce # NoObj THEN Touch(S, ce) ELSE S
        invalid == ce # NoObj /\ ~S0.valid[ce]
        retry == IF invalid /\ status = "timeout" THEN X.retry + 1 ELSE X.retry
        fail == invalid /\ status # "timeout"
        S1 == IF fail THEN UnrefClient(S0, ce) ELSE S0
        S2 == IF X.nch # NoCh
              THEN UnrefChannel([TouchCh(S1, X.nch) EXCEPT !.chident[X.nch] = 0],
                                X.nch)
              ELSE S1
        processed == fail \/ (status # "ok" /\ ce = NoObj)
    IN [s |-> S2,
        x |-> [X EXCEPT !.retry = retry, !.hce = @ /\ ~fail,
                        !.hch = IF X.nch # NoCh THEN FALSE ELSE @,
                        !.pc = IF processed THEN "done" ELSE "run"]]

\* Faulty variant: the channel's resolve_cmd_ident is not cleared.
NotifyResolvedKeepTag(S, X, status) ==
    LET ce == X.nce
        S0 == IF ce # NoObj THEN Touch(S, ce) ELSE S
        invalid == ce # NoObj /\ ~S0.valid[ce]
        retry == IF invalid /\ status = "timeout" THEN X.retry + 1 ELSE X.retry
        fail == invalid /\ (status # "timeout" \/ retry > MaxRetry)
        S1 == IF fail THEN UnrefClient(S0, ce) ELSE S0
        S2 == IF X.nch # NoCh THEN UnrefChannel(TouchCh(S1, X.nch), X.nch) ELSE S1
        processed == fail \/ (status # "ok" /\ ce = NoObj)
    IN [s |-> S2,
        x |-> [X EXCEPT !.retry = retry, !.hce = @ /\ ~fail,
                        !.hch = IF X.nch # NoCh THEN FALSE ELSE @,
                        !.pc = IF processed THEN "done" ELSE "run"]]

\* silc_client_notify_resolved: an entry still invalid ends the notify
\* (after at most MaxRetry timeouts) and drops notify->client_entry; no
\* entries and no client entry ends it too; the channel's tag is cleared
\* and notify->channel released; then the thread continues.
NotifyResolved(S, X, status) ==
    LET ce == X.nce
        S0 == IF ce # NoObj THEN Touch(S, ce) ELSE S
        invalid == ce # NoObj /\ ~S0.valid[ce]
        retry == IF invalid /\ status = "timeout" THEN X.retry + 1 ELSE X.retry
        fail == invalid /\ (status # "timeout" \/ retry > MaxRetry)
        S1 == IF fail THEN UnrefClient(S0, ce) ELSE S0
        S2 == IF X.nch # NoCh
              THEN UnrefChannel([TouchCh(S1, X.nch) EXCEPT !.chident[X.nch] = 0],
                                X.nch)
              ELSE S1
        processed == fail \/ (status # "ok" /\ ce = NoObj)
    IN [s |-> S2,
        x |-> [X EXCEPT !.retry = retry, !.hce = @ /\ ~fail,
                        !.hch = IF X.nch # NoCh THEN FALSE ELSE @,
                        !.pc = IF processed THEN "done" ELSE "run"]]

\* The resolve path of a handler: notify->channel and notify->client_entry
\* take the references, and the channel is tagged with the identifier the
\* resolve returns (0 after a failed send, written after the completion).
SuspendResolve(t, S, C, X, ch, ce, x, sendOk) ==
    LET X1 == [X EXCEPT !.nch = ch, !.hch = (ch # NoCh), !.nce = ce,
                        !.hce = (ce # NoObj)]
        R == ResolveClient(S, C, t, x, sendOk)
    IN IF R.id # 0
       THEN [s |-> IF ch # NoCh THEN [R.s EXCEPT !.chident[ch] = R.id] ELSE R.s,
             c |-> R.c, x |-> [X1 EXCEPT !.pc = "wait"]]
       ELSE LET N == NotifyResolved(R.s, X1, "resource") IN
            [s |-> IF ch # NoCh
                   THEN [TouchCh(N.s, ch) EXCEPT !.chident[ch] = 0] ELSE N.s,
             c |-> R.c, x |-> N.x]

-----------------------------------------------------------------------------
(***************************************************************************)
(* Handlers.  Each gives [s: store, c: commands, x: the thread's context]  *)
(* after one run of the handler state.                                     *)
(***************************************************************************)
\* The "out:" label: release the channel, next state is processed.
Done(S, C, X, ch) == [s |-> UnrefChannel(S, ch), c |-> C, x |-> [X EXCEPT !.pc = "done"]]

\* silc_client_notify_join: the joining client (notify->client_entry after
\* a resolve) must be valid and have a username, else it is resolved.
JoinBody(t, S, C, X, sendOk, ch) ==
    LET G == IF X.nce # NoObj THEN [s |-> S, o |-> X.nce] ELSE GetClient(S, Notif[t].x)
        ce == G.o
        S1 == IF ce # NoObj THEN Touch(G.s, ce) ELSE G.s
    IN IF ce = NoObj \/ ~S1.valid[ce] \/ ~S1.user[ce]
       THEN SuspendResolve(t, S1, C, X, ch, ce, Notif[t].x, sendOk)
       ELSE Done(UnrefClient(AddToChannel(S1, ch, ce), ce), C,
                 [X EXCEPT !.hce = FALSE], ch)

\* Faulty variant: the client entry is used without the reference
\* silc_client_get_client_by_id returns.
LeaveBodyNoRef(t, S, C, X, ch) ==
    LET ce == FindClient(S, Notif[t].x) IN
    IF ce = NoObj THEN Done(S, C, X, ch)
    ELSE LET R == RemoveFromChannel(S, ch, ce) IN
         IF ~R.ok THEN Done(R.s, C, X, ch)
         ELSE Done(UnrefClient(R.s, ce), C, X, ch)

\* silc_client_notify_leave: an unknown client drops the notify; so does a
\* client that is not on the channel, without releasing the client entry.
LeaveBody(t, S, C, X, ch) ==
    LET ce == FindClient(S, Notif[t].x) IN
    IF ce = NoObj THEN Done(S, C, X, ch)
    ELSE LET R == RemoveFromChannel(RefClient(S, ce), ch, ce) IN
         IF ~R.ok THEN Done(R.s, C, X, ch)
         ELSE Done(UnrefClient(R.s, ce), C, X, ch)

\* silc_client_notify_topic_set by a client: the setter is resolved unless
\* it is already notify->client_entry; a setter not on the channel drops
\* the notify without releasing the client entry.
TopicSetBody(t, S, C, X, sendOk, ch) ==
    IF X.nce = NoObj
    THEN LET G == GetClient(S, Notif[t].y)
             S1 == IF G.o # NoObj THEN Touch(G.s, G.o) ELSE G.s
         IN IF G.o = NoObj \/ ~S1.valid[G.o]
            THEN SuspendResolve(t, S1, C, X, ch, G.o, Notif[t].y, sendOk)
            ELSE IF <<G.o, ch>> \notin S1.mem THEN Done(S1, C, X, ch)
            ELSE Done(UnrefClient(S1, G.o), C, X, ch)
    ELSE IF <<X.nce, ch>> \notin S.mem THEN Done(S, C, X, ch)
    ELSE Done(UnrefClient(S, X.nce), C, [X EXCEPT !.hce = FALSE], ch)

\* Faulty variant: the kicker's entry is used without the reference
\* silc_client_get_client_by_id returns.
KickedBodyNoRef(t, S, C, X, sendOk, ch) ==
    LET ce == FindClient(S, Notif[t].x)
        S1 == RefClient(S, ce)
        ce2 == FindClient(S1, Notif[t].y)
        S2 == S1
    IN IF ce = NoObj THEN Done(S, C, X, ch)
       ELSE IF ce2 = NoObj \/ ~Touch(S2, ce2).valid[ce2]
       THEN SuspendResolve(t, UnrefClient(UnrefClient(S2, ce), ce2), C, X, ch,
                           X.nce, Notif[t].y, sendOk)
       ELSE IF Notif[t].x # Self
       THEN LET R == RemoveFromChannel(S2, ch, ce) IN
            IF ~R.ok THEN Done(R.s, C, X, ch)
            ELSE Done(UnrefClient(UnrefClient(R.s, ce), ce2), C, X, ch)
       ELSE Done(UnrefClient(UnrefClient(
                     DelChannel(EmptyChannel(S2, ch), ch), ce), ce2), C, X, ch)

\* silc_client_notify_kicked: the kicked client must be known, the kicker
\* valid (else both are released and the kicker resolved).  Another
\* client is removed from the channel (not on it: dropped, both entries
\* kept); when the local user is kicked the channel is emptied and deleted.
KickedBody(t, S, C, X, sendOk, ch) ==
    LET ce == FindClient(S, Notif[t].x)
        S1 == RefClient(S, ce)
        ce2 == FindClient(S1, Notif[t].y)
        S2 == RefClient(S1, ce2)
    IN IF ce = NoObj THEN Done(S, C, X, ch)
       ELSE IF ce2 = NoObj \/ ~Touch(S2, ce2).valid[ce2]
       THEN SuspendResolve(t, UnrefClient(UnrefClient(S2, ce), ce2), C, X, ch,
                           X.nce, Notif[t].y, sendOk)
       ELSE IF Notif[t].x # Self
       THEN LET R == RemoveFromChannel(S2, ch, ce) IN
            IF ~R.ok THEN Done(R.s, C, X, ch)
            ELSE Done(UnrefClient(UnrefClient(R.s, ce), ce2), C, X, ch)
       ELSE Done(UnrefClient(UnrefClient(
                     DelChannel(EmptyChannel(S2, ch), ch), ce), ce2), C, X, ch)

\* The handler body that runs once the channel is known and not being
\* resolved.
ChannelBody(t, S, C, X, sendOk, ch) ==
    CASE Notif[t].type = "JOIN" -> JoinBody(t, S, C, X, sendOk, ch)
      [] Notif[t].type = "LEAVE" -> LeaveBody(t, S, C, X, ch)
      [] Notif[t].type = "TOPIC_SET" -> TopicSetBody(t, S, C, X, sendOk, ch)
      [] Notif[t].type = "KICKED" -> KickedBody(t, S, C, X, sendOk, ch)

\* Faulty variant: the wait on the channel's command is not registered.
WithChannelUnregistered(t, S, C, X, sendOk) ==
    LET ch == FindChannel(S, Notif[t].ch) IN
    IF ch = NoCh THEN [s |-> S, c |-> C, x |-> [X EXCEPT !.pc = "done"]]
    ELSE LET S1 == RefChannel(S, ch) IN
         IF S1.chident[ch] = 0 THEN ChannelBody(t, S1, C, X, sendOk, ch)
         ELSE [s |-> TouchCh(UnrefChannel(S1, ch), ch), c |-> C,
               x |-> [X EXCEPT !.pc = "wait"]]

\* Handlers about a channel: an unknown channel drops the notify; a channel
\* being resolved makes the thread wait for that command's reply (its
\* resolve_cmd_ident is read after the channel's reference is dropped).
WithChannel(t, S, C, X, sendOk) ==
    LET ch == FindChannel(S, Notif[t].ch) IN
    IF ch = NoCh THEN [s |-> S, c |-> C, x |-> [X EXCEPT !.pc = "done"]]
    ELSE LET S1 == RefChannel(S, ch) IN
         IF S1.chident[ch] = 0 THEN ChannelBody(t, S1, C, X, sendOk, ch)
         ELSE LET S2 == TouchCh(UnrefChannel(S1, ch), ch)
                  i == S2.chident[ch]
              IN [s |-> S2, x |-> [X EXCEPT !.pc = "wait"],
                  c |-> [C EXCEPT ![i].waiters =
                           @ \cup {[t |-> t, kind |-> "wait", owner |-> NoObj]}]]

\* silc_client_notify_signoff: no channel wait.  The client is removed
\* from the channel the packet was sent to, marked invalid and deleted.
Signoff(S, C, X, t) ==
    LET ce == FindClient(S, Notif[t].x)
        S1 == RefClient(S, ce)
        ch == FindChannel(S1, Notif[t].ch)
        S2 == RefChannel(S1, ch)
        S3 == IF ch # NoCh
              THEN UnrefChannel(RemoveFromChannel(S2, ch, ce).s, ch) ELSE S2
        S4 == UnrefClient(DelClient([S3 EXCEPT !.valid[ce] = FALSE], ce), ce)
    IN IF ce = NoObj THEN [s |-> S, c |-> C, x |-> [X EXCEPT !.pc = "done"]]
       ELSE [s |-> S4, c |-> C, x |-> [X EXCEPT !.pc = "done"]]

\* silc_client_notify_killed with a client killer: the killed client must
\* be known; a killer missing or invalid releases both entries and is
\* resolved (notify->client_entry is not set).  The killed client, unless
\* it is the local user, leaves every channel and is deleted; both
\* references are released.
KilledBody(t, S, C, X, sendOk) ==
    LET ce == FindClient(S, Notif[t].x)
        S1 == RefClient(S, ce)
        ce2 == FindClient(S1, Notif[t].y)
        S2 == RefClient(S1, ce2)
    IN IF ce = NoObj THEN Done(S, C, X, NoCh)
       ELSE IF ce2 = NoObj \/ ~Touch(S2, ce2).valid[ce2]
       THEN SuspendResolve(t, UnrefClient(UnrefClient(S2, ce), ce2), C, X, NoCh,
                           X.nce, Notif[t].y, sendOk)
       ELSE Done(UnrefClient(UnrefClient(
                     IF Notif[t].x # Self THEN Kill(S2, ce) ELSE S2, ce), ce2),
                 C, X, NoCh)

\* silc_client_notify_server_signoff for the Client IDs x and y: each is
\* looked up with silc_client_get_client_by_id and listed if valid; a
\* listed client leaves its channels and is deleted, and
\* silc_client_list_free releases the listed references.  The reference
\* of an entry found but not valid is never released.
ServerSignoff(S, C, X, t) ==
    LET ids == <<Notif[t].x, Notif[t].y>>
        Look(A, k) ==
            LET o == FindClient(A.s, ids[k])
                T == RefClient(A.s, o)
            IN IF o # NoObj /\ Touch(T, o).valid[o]
               THEN [s |-> T, l |-> A.l \o <<o>>] ELSE [s |-> T, l |-> A.l]
        L == Look(Look([s |-> S, l |-> <<>>], 1), 2)
        D == FoldLeft(LAMBDA A, o : Kill(A, o), L.s, L.l)
    IN [s |-> FoldLeft(LAMBDA A, o : UnrefClient(A, o), D, L.l), c |-> C,
        x |-> [X EXCEPT !.pc = "done"]]

-----------------------------------------------------------------------------
(***************************************************************************)
(* Replies.  The WHOIS reply processing (client_command_reply.c, not in    *)
(* the sources) adds or updates the entry on success; then the callbacks   *)
(* run: silc_client_get_clients_cb clears the tags and releases            *)
(* i->client_entry, and every completion continues its thread.             *)
(***************************************************************************)
WhoisReply(S, x, out) ==
    LET f == FindClient(S, x) IN
    IF out # "ok" THEN S
    ELSE IF f # NoObj
    THEN [Touch(S, f) EXCEPT !.valid[f] = TRUE, !.user[f] = TRUE]
    ELSE LET o == CHOOSE o \in Objs : S.cst[o] = "unused" /\ ObjId[o] = x IN
         [S EXCEPT !.cst[o] = "live", !.rc[o] = 1, !.del[o] = 1,
                   !.valid[o] = TRUE, !.user[o] = TRUE, !.cident[o] = 0]

\* An OK reply needs the entry, or an allocation for it.
CanAdd(S, x) ==
    FindClient(S, x) # NoObj \/ \E o \in Objs : S.cst[o] = "unused" /\ ObjId[o] = x

GetClientsCb(S, W, x, out) ==
    LET S1 == IF out = "ok" THEN [S EXCEPT !.cident[FindClient(S, x)] = 0] ELSE S
        owners == {w.owner : w \in W} \ {NoObj}
    IN FoldSet(LAMBDA o, A : UnrefClient([A EXCEPT !.cident[o] = 0], o), S1, owners)

\* silc_client_notify_resolved or silc_client_notify_wait_continue of one
\* waiter, on the accumulated [s: store, x: contexts].
Complete(w, A, out) ==
    IF w.kind = "wait" THEN [A EXCEPT !.x[w.t].pc = "run"]
    ELSE LET N == NotifyResolved(A.s, A.x[w.t], out) IN
         [s |-> N.s, x |-> [A.x EXCEPT ![w.t] = N.x]]

Reply(i) ==
    /\ urgent = {}
    /\ cmds[i].open
    /\ \E out \in Outcome :
        LET x == cmds[i].target
            W == cmds[i].waiters
            S1 == GetClientsCb(WhoisReply(store, x, out), W, x, out)
            A == FoldSet(LAMBDA w, B : Complete(w, B, out), [s |-> S1, x |-> ctx], W)
        IN /\ out = "ok" => CanAdd(store, x)
           /\ store' = A.s
           /\ ctx' = A.x
           /\ urgent' = {w.t : w \in W} \cap {t \in Threads : A.x[t].pc = "run"}
    /\ cmds' = [cmds EXCEPT ![i].open = FALSE, ![i].waiters = {}]

-----------------------------------------------------------------------------
FirstObj(x) == CHOOSE o \in Objs : ObjId[o] = x

\* conn->local_entry holds one reference to the local user's entry.
LocalRef(o) == IF o = FirstObj(Self) THEN 1 ELSE 0

Init ==
    /\ \E user \in [InitClients -> InitUsername] :
        store = [cst |-> [o \in Objs |->
                     IF ObjId[o] \in InitClients /\ o = FirstObj(ObjId[o])
                     THEN "live" ELSE "unused"],
                 rc |-> [o \in Objs |->
                     IF ObjId[o] \in InitClients /\ o = FirstObj(ObjId[o])
                     THEN 1 + LocalRef(o)
                          + Cardinality({m \in InitMembers : m[1] = ObjId[o]})
                     ELSE 0],
                 del |-> [o \in Objs |-> 1],
                 valid |-> [o \in Objs |-> ObjId[o] \in InitClients],
                 user |-> [o \in Objs |->
                     IF ObjId[o] \in InitClients THEN user[ObjId[o]] ELSE FALSE],
                 cident |-> [o \in Objs |-> 0],
                 chst |-> [ch \in Channels |-> "live"],
                 chrc |-> [ch \in Channels |->
                     1 + Cardinality({m \in InitMembers : m[2] = ch})],
                 chdel |-> [ch \in Channels |-> 1],
                 chident |-> [ch \in Channels |-> 0],
                 mem |-> {<<FirstObj(m[1]), m[2]>> : m \in InitMembers},
                 uaf |-> FALSE]
    /\ cmds = [i \in Idents |->
                [open |-> FALSE, target |-> Self, waiters |-> {}]]
    /\ ctx = [t \in Threads |->
                [pc |-> "run", nce |-> NoObj, hce |-> FALSE, nch |-> NoCh,
                 hch |-> FALSE, retry |-> 0]]
    /\ urgent = {}

\* A thread may run its handler when it is ready and no synchronously
\* resumed thread is still pending.
Runnable(t) == ctx[t].pc = "run" /\ (urgent = {} \/ t \in urgent)

Apply(t, R) ==
    LET r == R IN
    /\ store' = r.s
    /\ cmds' = r.c
    /\ ctx' = [ctx EXCEPT ![t] = r.x]
    /\ urgent' = (urgent \ {t}) \cup (IF r.x.pc = "run" THEN {t} ELSE {})

NotifyJoin(t) ==
    /\ Runnable(t) /\ Notif[t].type = "JOIN"
    /\ \E ok \in BOOLEAN :
        Apply(t, WithChannel(t, store, cmds, ctx[t], ok))

NotifyLeave(t) ==
    /\ Runnable(t) /\ Notif[t].type = "LEAVE"
    /\ Apply(t, WithChannel(t, store, cmds, ctx[t], FALSE))

NotifyTopicSet(t) ==
    /\ Runnable(t) /\ Notif[t].type = "TOPIC_SET"
    /\ \E ok \in BOOLEAN :
        Apply(t, WithChannel(t, store, cmds, ctx[t], ok))

NotifyKicked(t) ==
    /\ Runnable(t) /\ Notif[t].type = "KICKED"
    /\ \E ok \in BOOLEAN :
        Apply(t, WithChannel(t, store, cmds, ctx[t], ok))

NotifySignoff(t) ==
    /\ Runnable(t) /\ Notif[t].type = "SIGNOFF"
    /\ Apply(t, Signoff(store, cmds, ctx[t], t))

NotifyKilled(t) ==
    /\ Runnable(t) /\ Notif[t].type = "KILLED"
    /\ \E ok \in BOOLEAN :
        Apply(t, KilledBody(t, store, cmds, ctx[t], ok))

NotifyServerSignoff(t) ==
    /\ Runnable(t) /\ Notif[t].type = "SERVER_SIGNOFF"
    /\ Apply(t, ServerSignoff(store, cmds, ctx[t], t))

Handle(t) ==
    \/ NotifyJoin(t) \/ NotifyLeave(t) \/ NotifyTopicSet(t)
    \/ NotifyKicked(t) \/ NotifySignoff(t) \/ NotifyKilled(t)
    \/ NotifyServerSignoff(t)

Next ==
    \/ \E t \in Threads : Handle(t)
    \/ \E i \in Idents : Reply(i)

\* The FSM scheduler runs every ready thread; the server answers every
\* command, or the client library times it out.  Stated as weak fairness
\* of Handle(t) and Reply(i) in the form "infinitely often not enabled":
\* ENABLED Handle(t) is Runnable(t), ENABLED Reply(i) is ReplyEnabled(i),
\* and a Reply(i) step always disables Reply(i); a Handle(t) step leaves
\* t runnable only when a JOIN's resolve of a valid client without a
\* username fails to send, which keeps the thread looping in any case.
ReplyEnabled(i) == urgent = {} /\ cmds[i].open

Fairness ==
    /\ \A t \in Threads : []<>(~Runnable(t))
    /\ \A i \in Idents : []<>(~ReplyEnabled(i))

Spec == Init /\ [][Next]_vars /\ Fairness

-----------------------------------------------------------------------------
\* The references that exist on a client entry: the ID cache's (until the
\* first del), conn->local_entry's, one per channel membership, a held
\* notify->client_entry of a notify not yet processed (the processed
\* state frees the context without releasing it), and a pending resolve's
\* i->client_entry.
ClientRefs(o) ==
    (IF store.del[o] = 1 THEN 1 ELSE 0) + LocalRef(o)
    + Cardinality({ch \in Channels : <<o, ch>> \in store.mem})
    + Cardinality({t \in Threads : ctx[t].pc # "done" /\ ctx[t].hce /\ ctx[t].nce = o})
    + Cardinality({i \in Idents : \E w \in cmds[i].waiters : w.owner = o})

\* ... and on a channel: the cache's, memberships, held notify->channel.
ChannelRefs(ch) ==
    (IF store.chdel[ch] = 1 THEN 1 ELSE 0)
    + Cardinality({o \in Objs : <<o, ch>> \in store.mem})
    + Cardinality({t \in Threads : ctx[t].pc # "done" /\ ctx[t].hch /\ ctx[t].nch = ch})

(* No handler step touches a freed client or channel entry, no entry is  *)
(* freed while the cache, a membership record, a notify context or a     *)
(* pending resolve still owns a reference to it, and refcnt never falls  *)
(* below the references that exist: no path of the handlers, of          *)
(* silc_client_notify_resolved or of the membership routines releases a  *)
(* reference it does not own.                                            *)
ReferencesSound ==
    /\ ~store.uaf
    /\ \A o \in Objs :
        /\ store.cst[o] = "live" => store.rc[o] >= ClientRefs(o)
        /\ store.cst[o] = "freed" => ClientRefs(o) = 0
    /\ \A ch \in Channels :
        /\ store.chst[ch] = "live" => store.chrc[ch] >= ChannelRefs(ch)
        /\ store.chst[ch] = "freed" => ChannelRefs(ch) = 0

(* Every reference a notify handler takes is released again: refcnt of a  *)
(* live entry is exactly the references that exist (design, section 4.4: *)
(* each handler releases every reference it acquired on every path).     *)
RefCountExact ==
    /\ \A o \in Objs : store.cst[o] = "live" => store.rc[o] = ClientRefs(o)
    /\ \A ch \in Channels :
        store.chst[ch] = "live" => store.chrc[ch] = ChannelRefs(ch)

(* A channel's resolve_cmd_ident always names an unanswered command whose *)
(* callbacks include silc_client_notify_resolved of a thread that holds   *)
(* the channel as notify->channel: the tag is cleared exactly when that   *)
(* thread resumes, so threads waiting on the channel are woken and the    *)
(* channel is alive when they read the tag after dropping their own       *)
(* reference.                                                             *)
ChannelTagHeld ==
    \A ch \in Channels :
        store.chst[ch] = "live" /\ store.chident[ch] # 0 =>
            LET i == store.chident[ch] IN
            /\ cmds[i].open
            /\ \E t \in Threads :
                /\ ctx[t].nch = ch /\ ctx[t].hch
                /\ \E w \in cmds[i].waiters : w.t = t /\ w.kind = "resolved"

(* Every notify packet is eventually processed: no thread waits forever  *)
(* on a command or loops resolving the same client.                      *)
AllNotifiesProcessed ==
    \A t \in Threads : <>(ctx[t].pc = "done")
=============================================================================
