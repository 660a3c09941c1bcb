------------------------------ MODULE Nicknames ------------------------------
(***************************************************************************)
(* Nickname formatting of SILC client entries (lib/silcclient/            *)
(* client_entry.c: silc_client_nickname_format, silc_client_add_client,   *)
(* silc_client_update_client, silc_client_change_nickname) and the        *)
(* NICK_CHANGE notify (client_notify.c).  The client is configured with   *)
(* the nickname format "%n#%a": a client whose nickname another cached    *)
(* client also has is shown as nick#N, N one more than the highest number *)
(* shown for that nickname.                                                *)
(*                                                                         *)
(* A nickname is modelled by what the format makes of it: a base          *)
(* nickname (already normalized: the cache name) and a number, 0 for the  *)
(* plain nickname, Unnumbered for "nick#" with no number.  A Client ID    *)
(* carries a hash of the nickname it was issued for; it is modelled by    *)
(* that base.                                                             *)
(***************************************************************************)
EXTENDS Integers, FiniteSets, FiniteSetsExt

CONSTANTS
    Clients,   \* client entry allocations
    Local,     \* conn->local_entry
    Bases,     \* normalized nicknames
    None,      \* empty nickname, NULL name, no event
    MaxNum     \* bound: highest number a formatted nickname may carry

ASSUME Local \in Clients /\ None \notin Bases /\ MaxNum \in Nat

Unnumbered == -1
Nick == [base : Bases, num : {Unnumbered, 0} \cup 2..MaxNum]
Plain(b) == [base |-> b, num |-> 0]

VARIABLES
    cached,  \* [Clients -> BOOLEAN]: in conn->internal->client_cache
    name,    \* the cache name = nickname_normalized, or None
    nick,    \* client_entry->nickname as displayed, or None (empty)
    hash,    \* the nickname hash of the entry's Client ID
    valid,   \* client_entry->internal.valid
    event,   \* the NICK_CHANGE application notify last emitted, or None
    watched  \* the nickname the last WATCH notify passed on, or None

vars == <<cached, name, nick, hash, valid, event, watched>>

Rename == [old : Nick \cup {None}, new : Nick, from : Bases \cup {None},
           to : Bases]

TypeOK ==
    /\ cached \in [Clients -> BOOLEAN]
    /\ name \in [Clients -> Bases \cup {None}]
    /\ nick \in [Clients -> Nick \cup {None}]
    /\ hash \in [Clients -> Bases]
    /\ valid \in [Clients -> BOOLEAN]
    /\ event \in Rename \cup {None}
    /\ watched \in Bases \cup {None}

\* The local user's entry exists from the connection on, with its nickname.
Init ==
    /\ \E b \in Bases :
        /\ cached = [c \in Clients |-> c = Local]
        /\ name = [c \in Clients |-> IF c = Local THEN b ELSE None]
        /\ nick = [c \in Clients |-> IF c = Local THEN Plain(b) ELSE None]
        /\ hash = [c \in Clients |-> b]
    /\ valid = [c \in Clients |-> c = Local]
    /\ event = None
    /\ watched = None

-----------------------------------------------------------------------------
(***************************************************************************)
(* silc_client_nickname_format(c, priority) over the nicknames nk, the    *)
(* cache names nm and the cache contents cs, with c's nickname_normalized *)
(* normC.  The set of nickname functions it may produce: the entry taken  *)
(* as "the unformatted one" is the first the cache lists, in an order the *)
(* model leaves open.                                                      *)
(***************************************************************************)
\* The "%a" number: none when the list has one entry, else one more than
\* the highest number shown by an entry of the list whose nickname starts
\* with "nick#" and is longer (atoi), and at least 2.
FormatNumberByCount(L, nk, b) ==
    IF Cardinality(L) = 1 THEN Unnumbered ELSE Cardinality(L)

FormatNumber(L, nk, b) ==
    IF Cardinality(L) = 1 THEN Unnumbered
    ELSE 1 + Max({1} \cup {nk[d].num : d \in {d \in L : nk[d] # None
                                  /\ nk[d].base = b /\ nk[d].num > 0}})

FormatEntry(t, L, nk) ==
    [nk EXCEPT ![t] = [base |-> nk[t].base,
                       num |-> FormatNumber(L, nk, nk[t].base)]]

\* silc_client_nickname_parse with the format "%n#%a": the nickname up to
\* the '#' separator, that is, its plain form.
ParseNick(nk) == Plain(nk.base)

\* silc_client_get_clients_local_ext(nickname, get_all, get_valid): the
\* cached entries whose cache name is the parsed nickname; with get_all
\* all of them, else those showing exactly `nickname' (the format is set,
\* so the parsed nickname is never NULL and `format' is the nickname).
\* With get_valid only valid ones.  There is no server part.
ClientsLocalExt(nk0, getAll, getValid, nk, nm, cs) ==
    LET named == {d \in Clients : cs[d] /\ nm[d] = ParseNick(nk0).base}
        wanted(d) == (~getValid \/ valid[d]) /\ (getAll \/ nk[d] = nk0)
    IN {d \in named : wanted(d)}

NicknameFormat(c, priority, normC, nk, nm, cs) ==
    LET b == nk[c].base
        L == ClientsLocalExt(nk[c], TRUE, FALSE, nk, nm, cs)
        formatted == normC # None /\ nk[c] # Plain(normC)
        Unformatted == {d \in L : valid[d] /\ d # c /\ nk[d] = Plain(nm[d])}
    IN IF nk[c] = None \/ L = {} \/ (Cardinality(L) = 1 /\ ~priority) THEN {nk}
       ELSE IF Unformatted = {} /\ ~formatted THEN {nk}
       ELSE IF priority
       THEN LET nk1 == IF formatted THEN [nk EXCEPT ![c] = ParseNick(nk[c])]
                          ELSE nk IN
            IF Unformatted = {} THEN {nk1}
            ELSE {FormatEntry(u, L, nk1) : u \in Unformatted}
       ELSE IF formatted THEN {nk}
       ELSE {FormatEntry(c, L, nk)}

Bounded(nk) == \A c \in Clients : nk[c] \in Nick \cup {None}

-----------------------------------------------------------------------------
\* silc_client_add_client: the entry is cached under its normalized
\* nickname (none when the nickname is not known yet), then formatted; it
\* is valid when it has a nickname.
AddClient(c, b, known) ==
    /\ c # Local /\ ~cached[c]
    /\ LET cs == [cached EXCEPT ![c] = TRUE]
           nm == [name EXCEPT ![c] = IF known THEN b ELSE None]
           nk == [nick EXCEPT ![c] = IF known THEN Plain(b) ELSE None]
       IN \E nk2 \in NicknameFormat(c, FALSE, nm[c], nk, nm, cs) :
            /\ Bounded(nk2)
            /\ nick' = nk2 /\ name' = nm /\ cached' = cs
    /\ hash' = [hash EXCEPT ![c] = b]
    /\ valid' = [valid EXCEPT ![c] = known]
    /\ UNCHANGED <<event, watched>>

\* silc_client_update_client with the nickname of a WHOIS reply, for an
\* entry that has none: the nickname is formatted while the cache still
\* has the entry without a name and nickname_normalized is NULL; the
\* cache name is updated after.
UpdateClient(c) ==
    /\ cached[c] /\ nick[c] = None
    /\ LET b == hash[c] IN
       \E nk2 \in NicknameFormat(c, c = Local, None,
                                 [nick EXCEPT ![c] = Plain(b)], name, cached) :
            /\ Bounded(nk2)
            /\ nick' = nk2
            /\ name' = [name EXCEPT ![c] = b]
    /\ valid' = [valid EXCEPT ![c] = TRUE]
    /\ UNCHANGED <<cached, hash, event, watched>>

\* silc_client_notify_join, once the joining client is valid: another
\* client's nickname is formatted again (line 415 skips the local user).
JoinFormatAnyClient(c) ==
    /\ cached[c] /\ valid[c]
    /\ \E nk2 \in NicknameFormat(c, FALSE, name[c], nick, name, cached) :
            Bounded(nk2) /\ nick' = nk2
    /\ UNCHANGED <<cached, name, hash, valid, event, watched>>

JoinFormat(c) ==
    /\ cached[c] /\ valid[c] /\ c # Local
    /\ \E nk2 \in NicknameFormat(c, FALSE, name[c], nick, name, cached) :
            Bounded(nk2) /\ nick' = nk2
    /\ UNCHANGED <<cached, name, hash, valid, event, watched>>

\* silc_client_change_nickname: the cache entry gets the new ID and name,
\* the nickname is set and formatted (with priority for the local user).
\* ChangedNicks is the nicknames it may leave; ChangeNickname(c, b2, nk2)
\* is the change that leaves nk2.
ChangedNicks(c, b2) ==
    {nk2 \in NicknameFormat(c, c = Local, b2, [nick EXCEPT ![c] = Plain(b2)],
                            [name EXCEPT ![c] = b2], cached) : Bounded(nk2)}

ChangeNicknameDisplayedName(c, b2, nk2) ==
    /\ nick' = nk2
    /\ name' = [name EXCEPT ![c] = nk2[c]]
    /\ hash' = [hash EXCEPT ![c] = b2]
    /\ valid' = [valid EXCEPT ![c] = TRUE]

ChangeNickname(c, b2, nk2) ==
    /\ nick' = nk2
    /\ name' = [name EXCEPT ![c] = b2]
    /\ hash' = [hash EXCEPT ![c] = b2]
    /\ valid' = [valid EXCEPT ![c] = TRUE]

\* silc_client_notify_nick_change for another client's old ID and a new ID
\* issued for nickname b2: when the ID hashes match and the new nickname
\* equals the entry's nickname, only the ID is updated; otherwise the
\* nickname is changed and, if the entry was valid, the application is
\* told the old and the new nickname.
NickChange(c, b2) ==
    /\ c # Local /\ cached[c]
    /\ IF hash[c] = b2 /\ nick[c] = Plain(b2)
       THEN /\ event' = None
            /\ UNCHANGED <<name, nick, hash, valid>>
       ELSE \E nk2 \in ChangedNicks(c, b2) :
                /\ ChangeNickname(c, b2, nk2)
                /\ event' = IF valid[c]
                            THEN [old |-> nick[c], new |-> nk2[c],
                                  from |-> name[c], to |-> b2]
                            ELSE None
    /\ UNCHANGED <<cached, watched>>

\* The reply to the local user's NICK command calls
\* silc_client_change_nickname on conn->local_entry.
LocalNickChange(b2) ==
    /\ \E nk2 \in ChangedNicks(Local, b2) : ChangeNickname(Local, b2, nk2)
    /\ UNCHANGED <<cached, event, watched>>

\* The unref that frees another client's entry deletes it from the cache.
Remove(c) ==
    /\ c # Local /\ cached[c]
    /\ cached' = [cached EXCEPT ![c] = FALSE]
    /\ name' = [name EXCEPT ![c] = None]
    /\ nick' = [nick EXCEPT ![c] = None]
    /\ valid' = [valid EXCEPT ![c] = FALSE]
    /\ UNCHANGED <<hash, event, watched>>

\* silc_client_notify_watch for a found, valid client (an unknown or
\* invalid one is resolved first, and the handler runs again after the
\* WHOIS reply, UpdateClient), with nickname argument b (None when absent)
\* and whether the notify type says the client left the network
\* (SIGNOFF, SERVER_SIGNOFF, KILLED).  A nickname equal to the parsed one
\* is passed on as NULL.  A client that left is removed from its
\* channels, made invalid and deleted; the cache drops it at the last
\* unref (Remove).
Watch(c, b, left) ==
    /\ cached[c] /\ valid[c]
    /\ watched' = IF b # None /\ Plain(b) = ParseNick(nick[c]) THEN None ELSE b
    /\ valid' = [valid EXCEPT ![c] = ~left]
    /\ UNCHANGED <<cached, name, nick, hash, event>>

Next ==
    \/ \E c \in Clients, b \in Bases, known \in BOOLEAN : AddClient(c, b, known)
    \/ \E c \in Clients :
        \/ UpdateClient(c) \/ JoinFormat(c) \/ Remove(c)
        \/ \E b2 \in Bases : NickChange(c, b2)
    \/ \E b2 \in Bases : LocalNickChange(b2)
    \/ \E c \in Clients, b \in Bases \cup {None}, left \in BOOLEAN : Watch(c, b, left)

Spec == Init /\ [][Next]_vars

-----------------------------------------------------------------------------
Shown(c) == cached[c] /\ nick[c] # None

(* Two cached clients never show the same numbered nickname: the "%a"     *)
(* number silc_client_nickname_format gives is above every number shown   *)
(* for that nickname, across add_client, change_nickname, the JOIN        *)
(* reformat and the local user's priority formatting.                     *)
DistinctNumbered ==
    \A c, d \in Clients :
        c # d /\ Shown(c) /\ Shown(d) /\ nick[c].num # 0 => nick[c] # nick[d]

(* The local user always sees its own nickname unformatted: its changes   *)
(* format with priority, and the JOIN notify skips conn->local_entry.     *)
LocalPlain == nick[Local].num = 0

(* The nickname a valid client is shown with addresses that client and no *)
(* other: silc_client_get_clients_local(nickname, FALSE), which looks up  *)
(* a nickname the user typed, returns exactly it.  nickname_format says   *)
(* it formats whenever another client has the same nickname               *)
(* (client_entry.c lines 1171-1173).                                     *)
Addressable ==
    \A c \in Clients :
        Shown(c) /\ valid[c] =>
            ClientsLocalExt(nick[c], FALSE, TRUE, nick, name, cached) = {c}
=============================================================================
