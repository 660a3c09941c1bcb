# TLA+ models of the SILC client library

This directory holds TLA+ models of the entity, resolve, notify and channel
key and nickname logic of `src/lib/silcclient` (SILC Toolkit client 1.1.11) and of the
SFTP memory filesystem of `src/lib/silcsftp`, the MC modules and TLC
configurations that check them, and `PROJECT.json`, which records each
model's correspondence to the source, the runs, the mutants and the findings.

## The system and how its parts interact

- **Entity store** (`client_entry.c`) keeps client, channel and server
  entries in per-connection ID caches.
  - Each entry has an atomic `refcnt` and an atomic `deleted` counter,
    which starts at 1.
  - The cache owns one reference until the first `silc_client_del_*`.
  - The unref that takes `refcnt` to 0 removes the entry from the cache and
    frees it.
- **Resolver** (`client_entry.c`) fetches missing entries with WHOIS or
  IDENTIFY.
  - An entry being resolved carries `resolve_cmd_ident`.
  - A second resolve of the same entry attaches to that command with
    `silc_client_command_pending` instead of sending a new one.
  - The reply callback clears the tag and calls every completion.
  - `silc_client_get_clients` (by nickname) and
    `silc_client_get_clients_by_list` (one WHOIS for the IDs the cache
    lacks) send commands that tag no entry.
  - When a command cannot be sent, these two return 0 and never call the
    completion. The by-ID resolves do call it, with
    `SILC_STATUS_ERR_RESOURCE_LIMIT`.
- **Notify engine** (`client_notify.c`) runs every notify packet in its own
  cooperative FSM thread. A handler can suspend in two ways:
  - it waits on a channel's `resolve_cmd_ident`
    (`silc_client_notify_wait_continue`);
  - it resolves a client, tags the channel with the new command, and
    continues in `silc_client_notify_resolved`.

  Reply callbacks resume threads synchronously, before any other event is
  handled.
- **Channel membership** (`client_channel.c`): each membership record holds
  a reference on both the client and the channel. Removing the last member
  deletes the channel.
- **Channel keys** (`client_channel.c`, `client_notify.c`): a channel's
  cipher and hmac are replaced on every CHANNEL_KEY
  (`silc_client_save_channel_key`). The previous receive key and hmac are
  kept on `old_channel_keys`/`old_hmacs` for late messages, and a
  rekey timer prunes them. Private keys (`add_channel_private_key`) are a
  list that the receive path tries after the channel keys, and
  that the sender can select. CMODE_CHANGE with an hmac argument replaces
  the hmac. `silc_client_del_channel` frees all of them.
- **Nickname formatting** (`client_entry.c`, `client_notify.c`): when
  several cached clients have the same nickname, the application's format
  (here `"%n#%a"`) shows them as `foo`, `foo#2`, `foo#3`, and so on.
  - `silc_client_nickname_format` looks up every cached entry under the
    nickname's normalized form. If another valid entry shows the plain
    nickname, it gives the entry being formatted a number one above the
    highest number shown.
  - With priority (the local user), the entry keeps or regains the plain
    nickname, and the other plain one is numbered instead.
  - It runs in `add_client`, `update_client` (WHOIS reply),
    `change_nickname` (NICK_CHANGE notify, NICK reply) and the JOIN notify.
- **SFTP memory filesystem** (`sftp_fs_memory.c`): the application builds
  a tree of directories and files (`silc_sftp_fs_memory_add_dir`, `_add_file`,
  `_del_dir`, `_del_file`). A file entry names a real file. An SFTP peer
  reaches the tree through the `memfs_*` callbacks, which the SFTP server
  calls one at a time. Handles travel as 32-bit indexes into
  `fs->handles`, and `memfs_get_handle` turns them back into handles.
  It shares nothing with the client library above.
- Channel message encoding, the irssi front end and the utility libraries
  are described in `PROJECT.json` and are not modelled yet.

## Modules

| Module | Models | State | Actions |
|---|---|---|---|
| `EntityStore` | client and server entry lifetime under concurrent API calls | `status`, `inCache`, `refcnt`, `deleted`, per-thread `held` references, `pc`, `cur` | `GetClientById`, `AddClient`, `AddClientRef`, `GetClientRef` (silc_client_get_client split at its lock boundaries), `UnrefClient`/`UnrefFree` (silc_client_unref_client), `DelClient`/`DelClientUnref`; for servers `GetServer` (get_server and get_server_by_id), `AddServer`/`AddServerRef`, `RefServer`, `UnrefServer`/`UnrefServerFree` (silc_client_unref_server), `DelServer` |
| `ClientEntryLifecycle` | what the client entry API promises, with no counters and no locks: an entry is created listed and held by the cache, callers own the references they get, and it is unlisted and freed exactly when the last holder lets go | `life`, `listed`, `cacheRef`, `owners` | `Create`, `Lookup`, `Delete`, `Release` |
| `Resolver` | resolve tags, attach, send and reply callbacks for client and server entries | `exists`, `valid`, `ident`, commands (`target`, `open`, `waiters`), callers' `phase` and `result` | `ResolveClient`, `ResolveServer`, `GetClients`, `GetClientsByList`, `Reply` |
| `ChannelKeys` | one channel's key material: the current cipher pair and hmac, the old-key lists, the prune timers, the private key list and the object allocator with failures | `cst`/`hst` (allocated, freed) of every cipher and hmac object, `sendKey`, `recvKey`, `hmac`, `oldKeys`, `oldHmacs`, `timers`, `priv`, `curr`, `privkeyMode`, flags `uaf` and `nullDeref` | `SaveChannelKey`, `RekeyTimer`, `Receive(m)`, `SendMessage(k)`, `AddPrivateKey`, `DelPrivateKey`, `DelPrivateKeys`, `CurrentPrivateKey`, `ChangeMode` (CMODE_CHANGE), `DeleteChannel` |
| `MemFS` | the SFTP memory filesystem: entry tree, handle table and descriptors, with memory errors recorded | per entry `est` (unused, live, freed), `edir`, `eparent`, `ename`, `eperm`, `slots` (the `entry` array); `root`; `handles` (each slot NULL or a handle's `fd`, `entry` and `handle`); `held` (the indexes the peer holds); `fdOpen`; `memErr` | application: `AddDir`, `AddFile`, `DelDir` (NULL rebuilds the root), `DelFile`; peer: `Open`, `OpenDir`, `ReadDir`, `Close`, `FStat`, `Stat` (stat and lstat), `RealPath` |
| `NotifyEngine` | JOIN, LEAVE, SIGNOFF, TOPIC_SET, KICKED, KILLED (by a client) and SERVER_SIGNOFF handlers over the store, the resolver and membership | `store` (client and channel entries, memberships), `cmds` (WHOIS commands and callbacks), `ctx` (each notify's `client_entry`, `channel`, retry count and FSM state), `urgent` | one action per handler state, plus `Reply` |
| `Nicknames` | nickname formatting over the client cache | `cached`, the cache `name` (normalized nickname), the displayed `nick` (a base and a number), the ID's nickname `hash`, `valid`, the last NICK_CHANGE `event`, the nickname the last WATCH passed on (`watched`) | `AddClient`, `UpdateClient`, `JoinFormat`, `NickChange`, `LocalNickChange`, `Watch`, `Remove` |

Each atomic operation, and each region under `conn->internal->lock`, is one
step of `EntityStore`.

- `Cooperative = TRUE`: one API call runs to completion before another
  starts. This is how the library's own FSM threads call the API.
- `Cooperative = FALSE`: the steps of different threads interleave, as when
  an application thread calls the API beside the connection thread.

Server entries (`SObjs`, allocations of one Server ID) share the counters
and `DelClientUnref` with client entries, as `del_server` mirrors
`del_client`. Their free step is their own, `UnrefServerFree`:
`unref_client` frees the entry only when `silc_idcache_del_by_context`
removed it from the cache (`UnrefFree`), while `unref_server` frees it
whether or not the cache still had it, so a second free of the same entry is
recorded as a use after free. `add_server` takes only the
cache's reference, so its caller owns none.

`EntityStore` refines `ClientEntryLifecycle` once for each kind of entry:
`Lifecycle` and `SLifecycle` are two `INSTANCE ClientEntryLifecycle WITH ...`
over `Objs` and `SObjs`, with the same mapping (`LifeOf`, `ListedOf`,
`CacheRefOf`, `OwnersOf`):

- `owners` is `held`.
- `cacheRef` is "live with `deleted` still 1".
- An entry counts as freed and unlisted from the step where
  `silc_client_unref_client` takes `refcnt` to 0. That is, its caller is at
  `unref_free`, even though the caller has not yet removed the entry from the
  cache.

Under that mapping:

- `AddClient` is `Create`.
- `GetClientById` (found) and `GetClientRef` are `Lookup`.
- The first `DelClient` is `Delete`.
- `UnrefClient` is `Release`.
- `AddClientRef`, `DelClientUnref`, `UnrefFree`, `UnrefServerFree`, a
  repeated `DelClient` and failed adds are stuttering steps.
- For servers: `AddServer` is `Create`, `GetServer` and `RefServer` are
  `Lookup`, the first `DelServer` is `Delete`, `UnrefServer` is `Release`,
  and `AddServerRef` stutters.

`RefinesLifecycle` checks this in `EntityStore_coop.cfg`. The race run has
no server entries (`SObjs <- MCNoSObjs`), so its trace runs through
`add_client` and `unref_client` only; it breaks `RefinesLifecycle` as well as
`NoUseAfterFree`.

In `NotifyEngine`, one handler state is one step. It runs to completion, or
to its `SILC_FSM_CALL`.

- The helpers compute the store change of every call the handler makes, in
  the code's order: `RefClient`, `UnrefClient`, `DelChannel`,
  `RemoveFromChannel`, `ResolveClient`, `NotifyResolved`, and the rest.
- `Reply(i)` runs the WHOIS reply processing, then `get_clients_cb`, then
  every completion.
- Resumed threads go into `urgent`. They run before any other event.

In `Resolver`:

- A command asks for a set of entries (`target`).
- Each registered callback records which function it is (`clients`,
  `server` or `list`). `Reply` clears the union of the tags each callback
  clears (`GetClientsCbClears`, `GetServerCbClears`,
  `GetClientsListCbClears`).
- `get_clients_cb` clears the tag of every entry it returns, even when
  that tag names another command.
- `get_clients_list_cb` reports `SILC_STATUS_OK` whatever the reply's
  status (`CbStatus`).
- A request that returned 0 without calling its completion ends in phase
  `lost`.

The command layer is not in the sources. It is modelled from the design:
`client_command.c` and `client_command_reply.c` allocate identifiers, add
entries from WHOIS replies and generate timeouts.

## Runs

| Run | Result | Shows |
|---|---|---|
| `EntityStore_coop.cfg` | pass | cooperative callers of the client and server entry functions never touch a freed entry, `refcnt` equals the references that exist between calls, and the calls refine `ClientEntryLifecycle` (`RefinesLifecycle`) |
| `EntityStore_race.cfg` | violation of `NoUseAfterFree` | `add_client` takes the cache's reference after unlocking (line 863); a concurrent find and unref can free the entry first |
| `Resolver_client.cfg` | pass | with resolves by ID, by nickname and by ID list over two entries: a client's tag always names an unanswered WHOIS for it, and every resolve whose command was sent completes |
| `Resolver_server.cfg` | violation of `EveryResolveCompletes` | `get_server_cb`'s error path leaves the tag set; later resolves attach to a dead command |
| `Notify_all.cfg` | pass | eight packets (JOIN of an unknown client, TOPIC_SET, KICKED, SIGNOFF, LEAVE, KICKED of the local user, which empties and deletes the channel, KILLED of x by the joining y, and SERVER_SIGNOFF of x and y), in every interleaving and under all reply outcomes, release only references they own, keep channel tags owned, and all finish |
| `Notify_joinloop.cfg` | violation of `AllNotifiesProcessed` | JOIN of a valid client without a username re-sends WHOIS after every error, forever |
| `MemFS_ok.cfg` | pass | any interleaving of tree changes with any peer's requests, up to the first memory error: `fs->handles` holds exactly the handles the peer was given and has not closed, each at its own index, and deleted directories are unlinked |
| `MemFS_badfree.cfg` | violation of `MemorySafe` | `open`/`stat` of a missing absolute path frees `cp`, a pointer one byte into the path (sftp_fs_memory.c 194) |
| `ChannelKeys_ok.cfg` | pass | with an unsupported CMODE hmac as the only failure, no freed cipher or hmac is used, and every message encrypted with a key the channel still holds (current, old or private) is decrypted |
| `ChannelKeys_hmacswap.cfg` | violation of `NoFreedKeyUse` | after a failed save the current hmac is also on `old_hmacs`; CMODE_CHANGE frees it (client_notify.c 923) and the receive path then uses the freed hmac |
| `Nicknames_ok.cfg` | pass | across adds with and without a nickname, WHOIS resolves, JOINs, renames and removals, no two clients show the same numbered nickname, and the local user's nickname is never formatted |
| `Nicknames_dup.cfg` | violation of `Addressable` | `update_client` formats (client_entry.c 921) before it sets the cache name (926). An entry made by `silc_client_get_client` and then resolved to a nickname one other client has is not in its own list, so both show the plain nickname, and `get_clients_local` of that nickname returns both |

In `Nicknames`, a nickname is modelled by what the format makes of it:
the normalized base and the `%a` number (0 for plain). The other format
letters and the string handling are left out.
- `NicknameFormat` returns the set of nickname functions that
  `silc_client_nickname_format` may produce. Which unformatted entry is
  renumbered depends on the cache's list order, and the model leaves that
  order open.
- Each action applies the format with the same cache contents and the same
  `nickname_normalized` as the code does at that point. In particular,
  `UpdateClient` formats before the cache name is set.
- `ParseNick` (`silc_client_nickname_parse` for this format) gives the plain
  form. `ClientsLocalExt` is `silc_client_get_clients_local_ext`: with
  `get_all` it is the same-nickname list the format works on. Without it,
  it is the exact-match lookup the application uses to address a nickname
  the user typed, and `Addressable` is stated with it.
- `Watch` runs for valid clients. An unknown or invalid client is first
  resolved, and its WHOIS reply is `UpdateClient`.

Every property of a passing run has a mutant in `PROJECT.json`. The mutant
is a faulty variant of one mapped definition, written in the module next to
the original, and TLC finds the property violated when it is used.

More questions were checked as violation runs and then folded into
hazard notes, to keep the number of runs small:
- `Resolver.AtMostOneLookup` (design §8.1): with two callers of an ID
  that has no entry, each resolve sends its own WHOIS (client_entry.c 316);
- `NotifyEngine.RefCountExact`: a LEAVE of a client that is not on the
  channel keeps its reference (client_notify.c 488). In the `Notify_all`
  scenario, y's LEAVE before its JOIN is enough;
- `ChannelKeys.NoNullKeyDeref`: deleting the current private key of a
  channel that has no channel key calls `silc_cipher_get_name(NULL)`
  (client_channel.c 682);
- `ChannelKeys.OldKeysPruned` (spec invariant 3): the first save puts the
  NULL receive key at the head of `old_channel_keys`, and the prune task
  stops at a NULL head (client_channel.c 350), so no old key is ever pruned;
- spec item 5 on NICK_CHANGE: `NickChange` compares the new nickname with
  the displayed one (client_notify.c 746). A client shown as `foo#2`
  whose ID changes without a rename is reformatted and reported to the
  application as renamed from `foo#2` to `foo#2` (two steps from the start).

`MemFS` records more memory errors than the one its violation run
reports. Its hazards in `PROJECT.json` list them. Each is seen with
`MemorySafe` by changing `PeerOps`, `HonestPeer` or `Paths` in the cfg:
- index `handles_count`, or any index before the first open, in a handle
  string (`memfs_find_handle`'s `>` test);
- `del_file`'s dangling slot, since `add_file` leaves `parent` NULL;
- a handle whose directory the application deleted;
- every REALPATH, which frees one string twice.

## Bounds

- `EntityStore`:
  - two threads and two allocations each of one Client ID and one Server
    ID: a race needs two callers, and a re-add after a free needs a second
    allocation (the race run leaves out the server entries);
  - `MaxHeld = 2` references per thread.
- `Resolver`: three callers, two client entries (one server entry in the
  server run) and three command identifiers.
  - This is enough for a send, an attach and a re-send after the reply.
  - It is also enough for a nickname reply that clears a by-ID tag, and
    for an ID list with one cached and one unknown entry.
- `NotifyEngine`:
  - one channel, the local user and two other clients, with two allocations
    each, so that an entry can be freed and re-created;
  - two command identifiers, enough for two WHOIS in flight;
  - `MaxRetry = 1`, instead of the code's 1000, so that the give-up path
    after timeouts is reached;
  - three or eight notify packets. Eight is the most that finishes in one to
    three minutes. With them, KILLED and SERVER_SIGNOFF delete a client
    that SIGNOFF, a KICKED or the other one has already deleted, and
    SERVER_SIGNOFF meets y both before and after y is resolved.
- `ChannelKeys`:
  - `MaxSaves = 3` CHANNEL_KEY saves and `MaxPriv = 2` private keys:
    enough for two old keys on the list, a prune, and a private key
    added, selected and deleted;
  - `NC` ciphers and `NH` hmacs are the allocator's objects. There are
    enough for every allocation the bounds allow, and `HmacSpare` guards
    CMODE swaps so that the allocator never runs out;
  - `CanFail` names the allocation sites that fail (an unsupported cipher
    or hmac name). The message contents are abstracted to the key they
    were sent under.

- `MemFS`:
  - three entry objects: the root, one entry, and a spare for the root
    that `del_dir(NULL)` allocates;
  - names "a" and "ab", so that the prefix match of `memfs_find_entry`
    can pick the wrong entry;
  - the paths "/", "", "a", "/ab" and "a/a";
  - two permission sets, one without read;
  - `MaxOpen = 3` handles open at once, so the five-slot table is
    reused but does not grow;
  - handle indexes 0..5: index 5 is `handles_count`;
  - descriptors 0 (the application's) and 1;
  - `MemFS_ok.cfg` explores only states before the first memory error
    (`CONSTRAINT Defined`): after one, the C program's behaviour is
    undefined.

- `Nicknames`: the local user and two clients, two nicknames, and
  numbers up to `MaxNum = 5`.
  - Three holders of one nickname (`foo`, `foo#2`, `foo#3`) are needed
    for a numbered client to leave and be re-added with a number.
    Removed entries are re-added, so two other clients suffice.
  - Two nicknames are needed for renames between them.
  - A format that would need a number above 5 is not taken.

## Fairness

- `Resolver`: weak fairness of `Reply`. The server answers every command,
  or the client library times it out.
- `NotifyEngine`: weak fairness of the handlers and of `Reply`. The FSM
  scheduler runs every ready thread, and every command ends in a reply or a
  timeout. It is written as "infinitely often not enabled":
  - `ENABLED Reply(i)` is the state predicate `ReplyEnabled(i)`, and a
    `Reply(i)` step disables it;
  - `ENABLED Handle(t)` is `Runnable(t)`, and a handler step leaves the
    thread runnable only in JOIN's failed-send loop;
  - this form avoids evaluating `ENABLED` on the handler expressions.
- `ChannelKeys`: weak fairness of `RekeyTimer`. The scheduler fires every
  registered timeout. `OldKeysPruned` is stated under it; it is not kept as a run (see above).
- `EntityStore`, `MemFS` and `Nicknames` are checked for safety only. The memory
  filesystem does nothing on its own, so there is nothing it must
  eventually do.

## Not modelled

The `components` and `hazards` of `PROJECT.json` give the detail. What is
left out, and why:

- **Out of the design's scope, or pure conversion.** This covers:
  - the irssi front end (UI commands and formatting);
  - the SFTP name and attribute encoding;
  - the command payload codec;
  - networking, the Win32 thread wrappers, crypto and string utilities;
  - the headers.

  These hold no state that the core's protocols depend on, or they are
  encode/decode functions whose detail no property here tells apart. The
  one stateful part of the front end, the FTP session list of
  `silc-servers.c`, is driven from callers outside `src`.
  `silc_server_free_ftp` (line 1345) frees a session without resetting
  `current_session`.
- **Notify handlers not modelled:** CMODE/CUMODE, ERROR, INVITE, and KILLED
  by a server or a channel.
  - Each follows the pattern of the modelled handlers: find or resolve,
    then wait on the channel tag.
  - Adding them to `NotifyEngine` multiplies a state space that already
    takes about two minutes.
- **Channel entry creation and resolve.** `add_channel`, `get_channel` and
  the channel resolve by ID are not modelled.
  - `NotifyEngine` starts with its channels in the cache.
  - It drops a notify about a channel that is gone, where the code
    resolves the channel with IDENTIFY and re-runs the handler.
  - The reply that re-creates the channel entry belongs to the command
    layer, which is not in `src`.
- **`update_server`** changes only the name and info strings; no property
  tells them apart.
- **Faults described in hazard notes, without a run of their own.**
  - Closing a directory handle closes descriptor 0 (`MemFS.Close` models
    it; no property states descriptor ownership).
  - The handle table's growth past five slots needs six open handles. A
    run that reaches it does not finish in ten minutes.
  - These leaks and faults have no run. Each note says whether TLC was
    shown to reach it:
    - the client reference leaks of LEAVE, TOPIC_SET and KICKED
      (`client_notify.c` 488, 635, 1285);
    - the old channel keys that are never pruned (`client_channel.c` 418);
    - the NULL `send_key` of `del_channel_private_key`
      (`client_channel.c` 682).
  - `get_clients` and `get_clients_by_list` never call the completion
    when the command cannot be sent. This is `Resolver`'s `lost` phase;
    the design says the completion gets ResourceExhausted.
