------------------------------- MODULE Resolver -------------------------------
(***************************************************************************)
(* Resolving client and server entries from the server                     *)
(* (lib/silcclient/client_entry.c).  A resolve either attaches to the      *)
(* command already in flight for the entry, named by the entry's           *)
(* resolve_cmd_ident, or sends a new WHOIS / IDENTIFY and, when the entry  *)
(* exists, tags it with the new command identifier.  When the reply        *)
(* arrives every callback registered for that identifier runs, in one      *)
(* step of the connection's event loop: the sender's own callback and the  *)
(* ones attached with silc_client_command_pending.                         *)
(*                                                                         *)
(* The command layer (silc_client_command_send, silc_client_command_pending*)
(* and the reply processing of client_command_reply.c) is not part of the  *)
(* sources; it is modelled from the design: a command gets the next        *)
(* identifier, or 0 when it cannot be sent, and its reply is OK, an error  *)
(* or a timeout generated by the client library.                           *)
(***************************************************************************)
EXTENDS Naturals, FiniteSets

CONSTANTS
    Callers,     \* resolve requests, each with its own completion context
    ClientIds,   \* client entries (resolved with WHOIS)
    ServerIds,   \* server entries (resolved with IDENTIFY)
    NoEnt,       \* "no entry" (NULL i->client_entry)
    MaxIdent     \* bound: command identifiers the connection hands out

Entities == ClientIds \cup ServerIds
Idents == 1..MaxIdent
Outcomes == {"ok", "error", "timeout"}

ASSUME ClientIds \cap ServerIds = {} /\ NoEnt \notin Entities
ASSUME MaxIdent \in Nat \ {0}

VARIABLES
    exists,      \* [Entities -> BOOLEAN]: entry in the connection's cache
    valid,       \* [Entities -> BOOLEAN]: entry's information resolved
    ident,       \* [Entities -> 0..MaxIdent]: internal.resolve_cmd_ident
    nextIdent,   \* next command identifier the connection hands out
    target,      \* [Idents -> SUBSET Entities]: the entries a command asks for
    open,        \* [Idents -> BOOLEAN]: command sent, reply not yet processed
    waiters,     \* [Idents -> SUBSET Waiter]: callbacks of a command
    phase,       \* [Callers -> Phases]
    result       \* [Callers -> Outcomes \cup {"resource", "none"}]

vars == <<exists, valid, ident, nextIdent, target, open, waiters, phase,
          result>>

\* A registered callback: the completion context it belongs to, the entry
\* it tagged (i->client_entry), NoEnt for an attached or untagged one, and
\* which callback function it is.
Callbacks == {"clients", "server", "list"}
Waiter == [who : Callers, owner : Entities \cup {NoEnt}, cb : Callbacks]

\* "lost": the request returned 0 without ever calling its completion.
Phases == {"idle", "waiting", "done", "lost"}

TypeOK ==
    /\ exists \in [Entities -> BOOLEAN]
    /\ valid \in [Entities -> BOOLEAN]
    /\ ident \in [Entities -> 0..MaxIdent]
    /\ nextIdent \in 1..(MaxIdent + 1)
    /\ target \in [Idents -> SUBSET Entities]
    /\ open \in [Idents -> BOOLEAN]
    /\ waiters \in [Idents -> SUBSET Waiter]
    /\ phase \in [Callers -> Phases]
    /\ result \in [Callers -> Outcomes \cup {"resource", "none"}]

Init ==
    /\ exists = [e \in Entities |-> FALSE]
    /\ valid = [e \in Entities |-> FALSE]
    /\ ident = [e \in Entities |-> 0]
    /\ nextIdent = 1
    /\ target = [i \in Idents |-> {}]
    /\ open = [i \in Idents |-> FALSE]
    /\ waiters = [i \in Idents |-> {}]
    /\ phase = [c \in Callers |-> "idle"]
    /\ result = [c \in Callers |-> "none"]

(***************************************************************************)
(* Resolve requests.  Both functions find the entry, attach when it has a  *)
(* resolve_cmd_ident, else send the command; a command that cannot be sent *)
(* (identifier 0) completes at once with SILC_STATUS_ERR_RESOURCE_LIMIT.   *)
(* The client variant remembers the tagged entry in i->client_entry so its *)
(* callback can clear the tag; the server variant does not.                *)
(***************************************************************************)
\* Faulty variant: attaches without registering the pending callback.
AttachUnregistered(c, e, cb) ==
    /\ phase' = [phase EXCEPT ![c] = "waiting"]
    /\ UNCHANGED <<ident, nextIdent, target, open, waiters, result>>

Attach(c, e, cb) ==
    /\ waiters' = [waiters EXCEPT ![ident[e]] =
                        @ \cup {[who |-> c, owner |-> NoEnt, cb |-> cb]}]
    /\ phase' = [phase EXCEPT ![c] = "waiting"]
    /\ UNCHANGED <<ident, nextIdent, target, open, result>>

\* silc_client_command_send of a query for the entries E with callback cb;
\* the caller's tag is the entry to mark, NoEnt when there is none.
\* SendOk is a command sent; sending fails when the command context or
\* packet cannot be allocated.
SendOk(c, E, tag, cb) ==
    /\ nextIdent <= MaxIdent
    /\ LET i == nextIdent IN
        /\ target' = [target EXCEPT ![i] = E]
        /\ open' = [open EXCEPT ![i] = TRUE]
        /\ waiters' = [waiters EXCEPT ![i] = {[who |-> c, owner |-> tag, cb |-> cb]}]
        /\ ident' = IF tag = NoEnt THEN ident ELSE [ident EXCEPT ![tag] = i]
    /\ nextIdent' = nextIdent + 1
    /\ phase' = [phase EXCEPT ![c] = "waiting"]
    /\ UNCHANGED result

\* The by-ID resolves complete at once with SILC_STATUS_ERR_RESOURCE_LIMIT
\* when the command cannot be sent.
Send(c, e, tag, cb) ==
    \/ SendOk(c, {e}, tag, cb)
    \/ /\ phase' = [phase EXCEPT ![c] = "done"]
       /\ result' = [result EXCEPT ![c] = "resource"]
       /\ UNCHANGED <<ident, nextIdent, target, open, waiters>>

ResolveClient(c, e) ==
    /\ phase[c] = "idle"
    /\ e \in ClientIds
    /\ IF exists[e] /\ ident[e] # 0
       THEN Attach(c, e, "clients")
       ELSE Send(c, e, IF exists[e] THEN e ELSE NoEnt, "clients")
    /\ UNCHANGED <<exists, valid>>

ResolveServer(c, e) ==
    /\ phase[c] = "idle"
    /\ e \in ServerIds
    /\ IF exists[e] /\ ident[e] # 0
       THEN Attach(c, e, "server")
       ELSE Send(c, e, IF exists[e] THEN e ELSE NoEnt, "server")
    /\ UNCHANGED <<exists, valid>>

\* silc_client_get_clients / silc_client_get_clients_whois: an IDENTIFY or
\* WHOIS by the nickname of e.  No entry is tagged and no resolve in
\* flight is joined.  When the command cannot be sent, the function
\* returns 0 and never calls the completion.
GetClients(c, e) ==
    /\ phase[c] = "idle"
    /\ e \in ClientIds
    /\ \/ SendOk(c, {e}, NoEnt, "clients")
       \/ /\ phase' = [phase EXCEPT ![c] = "lost"]
          /\ UNCHANGED <<ident, nextIdent, target, open, waiters, result>>
    /\ UNCHANGED <<exists, valid>>

\* silc_client_get_clients_by_list: one WHOIS for the IDs of S whose entry
\* is missing or incomplete.  No entry is tagged.  When every entry is
\* cached, get_clients_list_cb runs at once.  When the WHOIS cannot be
\* sent, the function returns 0 and never calls the completion.
GetClientsByList(c, S) ==
    LET unknown == {e \in S : ~exists[e] \/ ~valid[e]} IN
    /\ phase[c] = "idle"
    /\ S # {}
    /\ IF unknown = {}
       THEN /\ phase' = [phase EXCEPT ![c] = "done"]
            /\ result' = [result EXCEPT ![c] = "ok"]
            /\ UNCHANGED <<ident, nextIdent, target, open, waiters>>
       ELSE \/ SendOk(c, unknown, NoEnt, "list")
            \/ /\ phase' = [phase EXCEPT ![c] = "lost"]
               /\ UNCHANGED <<ident, nextIdent, target, open, waiters, result>>
    /\ UNCHANGED <<exists, valid>>

(***************************************************************************)
(* Reply callbacks: the entries whose resolve tag a callback w clears when *)
(* the reply to command i has outcome out.                                 *)
(***************************************************************************)
\* Faulty variant: the error path leaves the tag of i->client_entry set.
GetClientsCbClearsOkOnly(w, i, out) ==
    IF out = "ok" THEN target[i] ELSE {}

\* silc_client_get_clients_cb: on error it clears the tag of
\* i->client_entry; on success it clears the tag of every returned entry,
\* whichever command that tag names, and of i->client_entry.
GetClientsCbClears(w, i, out) ==
    (IF out = "ok" THEN target[i] ELSE {}) \cup ({w.owner} \ {NoEnt})

\* silc_client_get_server_cb: only the success path clears the tags.
GetServerCbClears(w, i, out) ==
    IF out = "ok" THEN target[i] ELSE {}

\* silc_client_get_clients_list_cb touches no tag.  Whatever the status,
\* once the reply is over it looks the IDs up in the cache and calls the
\* completion with SILC_STATUS_OK and the entries it finds.
GetClientsListCbClears(w, i, out) == {}

CbClears(w, i, out) ==
    CASE w.cb = "clients" -> GetClientsCbClears(w, i, out)
      [] w.cb = "server"  -> GetServerCbClears(w, i, out)
      [] w.cb = "list"    -> GetClientsListCbClears(w, i, out)

\* The status a callback hands to its completion.
CbStatus(w, out) == IF w.cb = "list" THEN "ok" ELSE out

\* Reply processing of a command: an OK reply adds or updates the entries,
\* then every registered callback runs and calls its completion.
Reply(i) ==
    /\ open[i]
    /\ \E out \in Outcomes :
        LET cleared == UNION {CbClears(w, i, out) : w \in waiters[i]} IN
        /\ ident' = [e \in Entities |-> IF e \in cleared THEN 0 ELSE ident[e]]
        /\ exists' = [e \in Entities |-> exists[e] \/ (out = "ok" /\ e \in target[i])]
        /\ valid' = [e \in Entities |-> valid[e] \/ (out = "ok" /\ e \in target[i])]
        /\ phase' = [c \in Callers |->
                        IF \E w \in waiters[i] : w.who = c THEN "done" ELSE phase[c]]
        /\ result' = [c \in Callers |->
                        IF \E w \in waiters[i] : w.who = c
                        THEN CbStatus(CHOOSE w \in waiters[i] : w.who = c, out)
                        ELSE result[c]]
    /\ open' = [open EXCEPT ![i] = FALSE]
    /\ waiters' = [waiters EXCEPT ![i] = {}]
    /\ UNCHANGED <<nextIdent, target>>

Next ==
    \/ \E c \in Callers, e \in ClientIds : ResolveClient(c, e) \/ GetClients(c, e)
    \/ \E c \in Callers, S \in SUBSET ClientIds : GetClientsByList(c, S)
    \/ \E c \in Callers, e \in ServerIds : ResolveServer(c, e)
    \/ \E i \in Idents : Reply(i)

\* The server answers every command, or the client library times it out.
Fairness == \A i \in Idents : WF_vars(Reply(i))

Spec == Init /\ [][Next]_vars /\ Fairness

-----------------------------------------------------------------------------
(* Whenever an entry carries a resolve_cmd_ident, that identifier names a *)
(* lookup of this very entry whose reply has not been processed yet: a    *)
(* callback path that forgets to clear the tag leaves later resolves      *)
(* attached to a command that will never answer again.                    *)
TagNamesOpenLookup ==
    \A e \in Entities :
        ident[e] # 0 => open[ident[e]] /\ target[ident[e]] = {e}

(* At most one lookup per entry is in flight at a time: concurrent        *)
(* resolves of the same ID attach to the first one (design, section 8.1). *)
AtMostOneLookup ==
    \A e \in Entities :
        Cardinality({i \in Idents : open[i] /\ e \in target[i]}) <= 1

(* Every resolve request is eventually completed: the completion of an    *)
(* attached request runs when the command it attached to is answered.     *)
EveryResolveCompletes ==
    \A c \in Callers : phase[c] = "waiting" ~> phase[c] = "done"
=============================================================================
