------------------------------- MODULE MemFS -------------------------------
(* The SFTP memory filesystem of src/lib/silcsftp/sftp_fs_memory.c.        *)
(*                                                                         *)
(* The application builds a tree of directory and file entries with the    *)
(* silc_sftp_fs_memory_* calls; an SFTP peer reaches it through the        *)
(* memfs_* callbacks, which the SFTP server calls one at a time.  Entries  *)
(* are heap objects: a freed entry keeps its last contents, and every read *)
(* of it, every free of an interior pointer and every access past the end *)
(* of an array is recorded in memErr.  Freed entries are not handed out    *)
(* again, so a dangling pointer always denotes freed memory.  A handle is  *)
(* the record in its slot of the handle table.                             *)
EXTENDS Naturals, Integers, Sequences, FiniteSets, SequencesExt

CONSTANTS
    Entries,     \* entry objects the allocator can hand out (MemFSEntry)
    Root,        \* the root entry silc_sftp_fs_memory_alloc creates
    Null,        \* the NULL pointer
    Names,       \* entry and path component names, as character sequences
    Perms,       \* permission sets the application gives entries
    RootPerm,    \* the permissions given to silc_sftp_fs_memory_alloc
    Paths,       \* paths the peer sends: [abs : BOOLEAN, comps : Seq(Names)]
    MaxIdx,      \* largest handle index the peer puts in a handle string
    NFd,         \* descriptors 0..NFd-1 of the process; 0 is the application's
    PeerOps,     \* the requests the peer sends
    HonestPeer,  \* TRUE: the peer names only handles it holds open
    MaxOpen      \* bound of the model: handles open at once

ASSUME /\ Root \in Entries /\ Null \notin Entries
       /\ RootPerm \in Perms /\ MaxIdx \in Nat /\ NFd \in Nat \ {0}

Fds == 0 .. NFd - 1
Ops == {"open", "opendir", "readdir", "close", "fstat", "stat", "realpath"}
MemErrs == {"null", "oob", "uaf", "badfree", "doublefree"}

VARIABLES
    est,      \* entry object -> "unused", "live" or "freed"
    edir,     \* entry -> its `directory' bit
    eparent,  \* entry -> its `parent' pointer
    ename,    \* entry -> its `name'
    eperm,    \* entry -> its `perm' bits, a subset of {"r", "w", "x"}
    slots,    \* entry -> its `entry' array, entry_count slots, Null in holes
    root,     \* fs->root
    handles,  \* fs->handles, handles_count slots (<<>> while NULL); a
              \* handle is its `fd' (a descriptor, or readdir's cursor),
              \* `entry' and `handle' index
    held,     \* the handle indexes the peer has been given and not closed
    fdOpen,   \* the process's open descriptors
    memErr    \* memory errors that have happened

entryVars == <<est, edir, eparent, ename, eperm, slots, root>>
handleVars == <<handles, held>>
vars == <<entryVars, handleVars, fdOpen, memErr>>

Live == {e \in Entries : est[e] = "live"}
LiveDirs == {d \in Live : edir[d]}
HRec == [fd : -1 .. NFd - 1, entry : Entries, handle : Nat]
Occupied == {k \in DOMAIN handles : handles[k] # Null}
FreeFds == Fds \ fdOpen

TypeOK ==
    /\ est \in [Entries -> {"unused", "live", "freed"}]
    /\ edir \in [Entries -> BOOLEAN]
    /\ eparent \in [Entries -> Entries \cup {Null}]
    /\ ename \in [Entries -> Names \cup {<<"/">>}]
    /\ eperm \in [Entries -> SUBSET {"r", "w", "x"}]
    /\ \A e \in Entries : slots[e] \in Seq(Entries \cup {Null})
    /\ root \in Entries
    /\ handles \in Seq(HRec \cup {Null})
    /\ held \subseteq Nat
    /\ fdOpen \subseteq Fds
    /\ memErr \subseteq MemErrs

\* silc_sftp_fs_memory_alloc: a root directory with the given permissions.
Init ==
    /\ est = [e \in Entries |-> IF e = Root THEN "live" ELSE "unused"]
    /\ edir = [e \in Entries |-> e = Root]
    /\ eparent = [e \in Entries |-> Null]
    /\ ename = [e \in Entries |-> <<"/">>]
    /\ eperm = [e \in Entries |-> IF e = Root THEN RootPerm ELSE {}]
    /\ slots = [e \in Entries |-> <<>>]
    /\ root = Root
    /\ handles = <<>>
    /\ held = {}
    /\ fdOpen = {0}
    /\ memErr = {}

Unused == {e \in Entries : est[e] = "unused"}
NewEntry == CHOOSE e \in Unused : TRUE
Holes(s) == {i \in DOMAIN s : s[i] = Null}
UseOf(e) == IF est[e] = "freed" THEN {"uaf"} ELSE {}

(***************************************************************************)
(* memfs_add_entry: the first free slot, or a new array of three slots,    *)
(* or the array grown by three.                                            *)
(***************************************************************************)
AddEntry(s, e) ==
    IF Holes(s) # {} THEN [s EXCEPT ![Min(Holes(s))] = e]
    ELSE s \o <<e, Null, Null>>

\* Every entry reachable from entry e through the `entry' arrays.
RECURSIVE Subtree(_)
Subtree(S) ==
    LET next == S \cup (UNION {ToSet(slots[x]) : x \in S} \ {Null})
    IN IF next = S THEN S ELSE Subtree(next)

(***************************************************************************)
(* memfs_del_entry(entry, FALSE): frees the entry and, recursively, every  *)
(* entry in its array, then clears the entry's slot in its parent, if it   *)
(* has a parent.  Freeing an entry that is already free (a dangling slot)  *)
(* is a double free.                                                       *)
(***************************************************************************)
\* The `entry' arrays after entry e is removed from its parent's.
UnlinkKeepSlot(e) == slots

Unlink(e) ==
    LET p == eparent[e] IN
    IF p = Null \/ \A i \in DOMAIN slots[p] : slots[p][i] # e THEN slots
    ELSE [slots EXCEPT ![p][Min({j \in DOMAIN slots[p] : slots[p][j] = e})] = Null]

\* The entry states after the objects in `gone' are freed and `new' allocated.
Freeing(gone, new) ==
    [x \in Entries |-> IF x \in gone THEN "freed"
                       ELSE IF x = new THEN "live" ELSE est[x]]

DelEntry(e) ==
    /\ est' = Freeing(Subtree({e}), Null)
    /\ memErr' = memErr \cup UNION {UseOf(x) : x \in Subtree({e})}
    /\ slots' = Unlink(e)

(***************************************************************************)
(* memfs_find_entry: the first non-empty slot whose name starts with the   *)
(* `name_len' characters of the component (strncmp).  Reading the         *)
(* directory or an entry's name after it was freed is a use after free.   *)
(***************************************************************************)
FindEntry(d, n) ==
    LET s == slots[d]
        occ == {i \in DOMAIN s : s[i] # Null}
        hit == {i \in occ : IsPrefix(n, ename[s[i]])}
        last == IF hit = {} THEN Len(s) ELSE Min(hit)
    IN [res |-> IF hit = {} THEN Null ELSE s[last],
        err |-> UseOf(d) \cup UNION {UseOf(s[i]) : i \in {j \in occ : j <= last}}]

(***************************************************************************)
(* memfs_find_entry_path: walks the components from `dir'.  "/" alone     *)
(* returns `dir'.  On a missing component the code frees `cp', which     *)
(* points past the leading '/' of an absolute path and past every earlier *)
(* component, so it is the string itself only for the first component of *)
(* a relative path.                                                        *)
(***************************************************************************)
RECURSIVE Walk(_, _, _)
Walk(d, p, k) ==
    LET f == FindEntry(d, p.comps[k]) IN
    IF f.res = Null
    THEN [res |-> Null,
          err |-> f.err \cup (IF p.abs \/ k > 1 THEN {"badfree"} ELSE {})]
    ELSE IF k = Len(p.comps) THEN f
    ELSE LET r == Walk(f.res, p, k + 1)
         IN [res |-> r.res, err |-> f.err \cup r.err]

FindEntryPath(d, p) ==
    IF p.comps = <<>>
    THEN [res |-> IF p.abs THEN d ELSE Null, err |-> {}]
    ELSE Walk(d, p, 1)

\* opendir, stat, lstat and realpath read an empty path as "/".
DirPath(p) == IF ~p.abs /\ p.comps = <<>> THEN [abs |-> TRUE, comps |-> <<>>]
              ELSE p

(***************************************************************************)
(* memfs_create_handle: the first empty slot of fs->handles, or a new      *)
(* table of five slots, or the table grown by five; the slot's index is    *)
(* the handle's `handle'.                                                  *)
(***************************************************************************)
HandleSlot ==
    IF Holes(handles) # {} THEN Min(Holes(handles)) ELSE Len(handles) + 1

CreateHandle(fd, e) ==
    LET t == IF HandleSlot <= Len(handles) THEN handles
             ELSE handles \o <<Null, Null, Null, Null, Null>>
    IN
    /\ Cardinality(Occupied) < MaxOpen
    /\ handles' = [t EXCEPT ![HandleSlot] =
                     [fd |-> fd, entry |-> e, handle |-> HandleSlot - 1]]
    /\ held' = held \cup {HandleSlot - 1}

(***************************************************************************)
(* memfs_find_handle, reached from memfs_get_handle with the index the     *)
(* peer sent; it yields the handle's slot, or 0 for NULL.  The bound test  *)
(* is `handle > handles_count', so index handles_count reads one slot past *)
(* the table, and index 0 reads the NULL table before the first open.     *)
(***************************************************************************)
FindHandle(i) ==
    IF i > Len(handles) THEN [k |-> 0, err |-> {}]
    ELSE IF handles = <<>> THEN [k |-> 0, err |-> {"null"}]
    ELSE IF i = Len(handles) THEN [k |-> 0, err |-> {"oob"}]
    ELSE IF handles[i + 1] = Null \/ handles[i + 1].handle # i
         THEN [k |-> 0, err |-> {}]
    ELSE [k |-> i + 1, err |-> {}]

\* The handle indexes the peer sends.
PeerIdx == IF HonestPeer THEN held ELSE 0 .. MaxIdx

\* memfs_del_handle: empties the handle's slot and frees it; the
\* descriptor memfs_close has closed is closed again and fails.
DelHandleKeepSlot(k) == handles

DelHandle(k) == [handles EXCEPT ![k] = Null]

(***************************************************************************)
(* The application's calls.                                                *)
(***************************************************************************)

\* silc_sftp_fs_memory_add_dir(fs, dir, perm, name); dir NULL is the root.
AddDir(dir, perm, n) ==
    LET d == IF dir = Null THEN root ELSE dir
        e == NewEntry
    IN
    /\ Unused # {}
    /\ est' = [est EXCEPT ![e] = "live"]
    /\ edir' = [edir EXCEPT ![e] = TRUE]
    /\ eparent' = [eparent EXCEPT ![e] = d]
    /\ ename' = [ename EXCEPT ![e] = n]
    /\ eperm' = [eperm EXCEPT ![e] = perm]
    /\ slots' = [slots EXCEPT ![d] = AddEntry(slots[d], e)]
    /\ UNCHANGED <<root, handleVars, fdOpen, memErr>>

\* silc_sftp_fs_memory_add_file: like add_dir, but `parent' is left NULL.
AddFile(dir, perm, n) ==
    LET d == IF dir = Null THEN root ELSE dir
        e == NewEntry
    IN
    /\ Unused # {}
    /\ est' = [est EXCEPT ![e] = "live"]
    /\ ename' = [ename EXCEPT ![e] = n]
    /\ eperm' = [eperm EXCEPT ![e] = perm]
    /\ slots' = [slots EXCEPT ![d] = AddEntry(slots[d], e)]
    /\ UNCHANGED <<edir, eparent, root, handleVars, fdOpen, memErr>>

(***************************************************************************)
(* silc_sftp_fs_memory_del_dir: deletes `dir', or with NULL the whole     *)
(* tree, after which a fresh root with the alloc-time permissions is made. *)
(***************************************************************************)
DelDir(dir) ==
    /\ \/ /\ dir # Null
          /\ DelEntry(dir)
          /\ UNCHANGED <<edir, eparent, ename, eperm, root>>
       \/ /\ dir = Null
          /\ Unused # {}
          /\ est' = Freeing(Subtree({root}), NewEntry)
          /\ memErr' = memErr \cup UNION {UseOf(x) : x \in Subtree({root})}
          /\ slots' = Unlink(root)
          /\ root' = NewEntry
          /\ edir' = [edir EXCEPT ![NewEntry] = TRUE]
          /\ eperm' = [eperm EXCEPT ![NewEntry] = RootPerm]
          /\ UNCHANGED <<eparent, ename>>
    /\ UNCHANGED <<handleVars, fdOpen>>

\* silc_sftp_fs_memory_del_file: memfs_del_entry_name on the first entry
\* of `dir' whose name starts with `filename'.
DelFile(dir, n) ==
    LET f == FindEntry(IF dir = Null THEN root ELSE dir, n) IN
    /\ \/ /\ f.res = Null
          /\ memErr' = memErr \cup f.err
          /\ UNCHANGED <<est, slots>>
       \/ /\ f.res # Null
          /\ est' = Freeing(Subtree({f.res}), Null)
          /\ memErr' = memErr \cup f.err \cup UNION {UseOf(x) : x \in Subtree({f.res})}
          /\ slots' = Unlink(f.res)
    /\ UNCHANGED <<edir, eparent, ename, eperm, root, handleVars, fdOpen>>

(***************************************************************************)
(* The peer's requests, each run to completion by its memfs_* callback.   *)
(***************************************************************************)

\* memfs_open's checks: a file, readable for READ and writable for WRITE.
MayOpen(e, fl) == e # Null /\ ~edir[e] /\ fl \subseteq eperm[e]

\* memfs_open: after its checks the real file is opened at the lowest free
\* descriptor, or the open fails.
Open(p, fl) ==
    LET f == FindEntryPath(root, p)
        e == f.res
    IN
    /\ "open" \in PeerOps
    /\ memErr' = memErr \cup f.err
    /\ \/ /\ ~MayOpen(e, fl)
          /\ UNCHANGED <<handleVars, fdOpen>>
       \/ /\ MayOpen(e, fl)
          /\ UNCHANGED <<handleVars, fdOpen>>
       \/ /\ MayOpen(e, fl)
          /\ FreeFds # {}
          /\ fdOpen' = fdOpen \cup {Min(FreeFds)}
          /\ CreateHandle(Min(FreeFds), e)
    /\ UNCHANGED entryVars

\* memfs_opendir's checks: a directory with the read bit.
MayOpenDir(e) == e # Null /\ edir[e] /\ "r" \in eperm[e]

\* memfs_opendir: a readable directory gets a handle whose `fd' is 0, the
\* cursor of memfs_readdir.
OpenDir(p) ==
    LET f == FindEntryPath(root, DirPath(p))
        e == f.res
    IN
    /\ "opendir" \in PeerOps
    /\ memErr' = memErr \cup f.err
    /\ \/ /\ ~MayOpenDir(e)
          /\ UNCHANGED handleVars
       \/ /\ MayOpenDir(e)
          /\ CreateHandle(0, e)
    /\ UNCHANGED <<entryVars, fdOpen>>

(***************************************************************************)
(* memfs_close: closes `fd' unless it is -1 and then deletes the handle;   *)
(* if the close fails the handle stays in the table.  A directory handle  *)
(* closes its readdir cursor as a descriptor.                             *)
(***************************************************************************)
Closes(k) == k # 0 /\ (handles[k].fd = -1 \/ handles[k].fd \in fdOpen)

Close(i) ==
    LET g == FindHandle(i) IN
    /\ "close" \in PeerOps
    /\ i \in PeerIdx
    /\ memErr' = memErr \cup g.err
    /\ \/ /\ ~Closes(g.k)
          /\ UNCHANGED <<handleVars, fdOpen>>
       \/ /\ Closes(g.k)
          /\ fdOpen' = fdOpen \ {handles[g.k].fd}
          /\ handles' = DelHandle(g.k)
          /\ held' = held \ {i}
    /\ UNCHANGED entryVars

(***************************************************************************)
(* memfs_readdir: reads the entry's `directory' bit, then every slot from  *)
(* the cursor on (at most 100, more than any array here has), and sets the *)
(* cursor to -1.                                                           *)
(***************************************************************************)
\* The cursor after a readdir of directory d from cursor c: the slot
\* where the loop stopped, or -1 once it reached entry_count.  The loop
\* reads 100 slots, more than any array of the model has, so it always
\* reaches the end.
NextCursorAtEnd(c, d) == Len(slots[d])

NextCursor(c, d) == IF c + 100 >= Len(slots[d]) THEN -1 ELSE c + 100

ReadDir(i) ==
    LET g == FindHandle(i)
        h == handles[g.k]
        d == h.entry
        rest == {k \in DOMAIN slots[d] : k > h.fd /\ slots[d][k] # Null}
    IN
    /\ "readdir" \in PeerOps
    /\ i \in PeerIdx
    /\ \/ /\ g.k = 0
          /\ memErr' = memErr \cup g.err
          /\ UNCHANGED handles
       \/ /\ g.k # 0 /\ (~edir[d] \/ h.fd = -1)
          /\ memErr' = memErr \cup UseOf(d)
          /\ UNCHANGED handles
       \/ /\ g.k # 0 /\ edir[d] /\ h.fd # -1
          /\ memErr' = memErr \cup UseOf(d) \cup UNION {UseOf(slots[d][k]) : k \in rest}
          /\ handles' = [handles EXCEPT ![g.k].fd = NextCursor(h.fd, d)]
    /\ UNCHANGED <<entryVars, held, fdOpen>>

\* memfs_fstat: reads the handle's entry, then fstat()s a file's descriptor.
FStat(i) ==
    LET g == FindHandle(i) IN
    /\ "fstat" \in PeerOps
    /\ i \in PeerIdx
    /\ memErr' = memErr \cup g.err \cup (IF g.k = 0 THEN {} ELSE UseOf(handles[g.k].entry))
    /\ UNCHANGED <<entryVars, handleVars, fdOpen>>

\* memfs_stat and memfs_lstat: a path lookup, then stat() of a file.
Stat(p) ==
    /\ "stat" \in PeerOps
    /\ memErr' = memErr \cup FindEntryPath(root, DirPath(p)).err
    /\ UNCHANGED <<entryVars, handleVars, fdOpen>>

(***************************************************************************)
(* memfs_realpath: the expanded path is stored as both `filename[0]' and   *)
(* `long_filename[0]', and silc_sftp_name_free frees each of them.         *)
(***************************************************************************)
RealPath(p) ==
    /\ "realpath" \in PeerOps
    /\ memErr' = memErr \cup {"doublefree"}
    /\ UNCHANGED <<entryVars, handleVars, fdOpen>>

Next ==
    \/ \E d \in LiveDirs \cup {Null}, perm \in Perms, n \in Names :
          AddDir(d, perm, n) \/ AddFile(d, perm, n)
    \/ \E d \in (LiveDirs \ {root}) \cup {Null} : DelDir(d)
    \/ \E d \in LiveDirs \cup {Null}, n \in Names : DelFile(d, n)
    \/ \E p \in Paths :
          \/ \E fl \in {{"r"}, {"w"}} : Open(p, fl)
          \/ OpenDir(p) \/ Stat(p) \/ RealPath(p)
    \/ \E i \in 0 .. MaxIdx : Close(i) \/ ReadDir(i) \/ FStat(i)

Spec == Init /\ [][Next]_vars

\* No undefined behaviour has happened yet; after a memory error the C
\* program's further behaviour is undefined, so runs that check other
\* properties explore only the states before it.
Defined == memErr = {}

(***************************************************************************)
(* Properties.                                                             *)
(***************************************************************************)

\* No request of the peer and no call of the application reads freed
\* memory, reads outside the handle table, frees a pointer that malloc did
\* not return, or frees a string twice: memfs_find_entry_path's error
\* path, memfs_find_handle's bound test, del_file's dangling slot and
\* memfs_realpath's shared string are the places this can go wrong.
MemorySafe == memErr = {}

\* fs->handles stays in step with what the peer was told: its size is a
\* multiple of five, every non-empty slot holds a handle whose `handle' is
\* the slot's index, and the occupied slots are exactly the handles the
\* peer was given by open or opendir and has not closed.  A handle closed
\* with success but left in the table could be used again.
HandleTableSound ==
    /\ Len(handles) % 5 = 0
    /\ \A k \in Occupied : handles[k].handle = k - 1
    /\ {k - 1 : k \in Occupied} = held

\* The directories of the tree stay linked: every directory in a live
\* directory's array is live and has that directory as its parent, and
\* every live directory but the root is in its parent's array.  Deleting a
\* directory (recursively, or the whole tree with del_dir(NULL)) must unlink
\* it; files are not covered, since add_file leaves their parent NULL.
DirectoriesLinked ==
    /\ \A d \in LiveDirs : \A c \in ToSet(slots[d]) \ {Null} :
          edir[c] => c \in Live /\ eparent[c] = d
    /\ \A d \in LiveDirs \ {root} :
          eparent[d] \in LiveDirs /\ d \in ToSet(slots[eparent[d]])
====
