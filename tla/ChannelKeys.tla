---------------------------- MODULE ChannelKeys ----------------------------
(***************************************************************************)
(* Key material of one channel entry (lib/silcclient/client_channel.c and *)
(* the key part of silc_client_del_channel in client_entry.c).            *)
(*                                                                         *)
(* Cipher and HMAC objects are numbered 1..NC and 1..NH; 0 is NULL.  Each  *)
(* object has a status (unused, live, freed) and the key material it was  *)
(* keyed with: a channel key generation 1..MaxSaves sent by the server,   *)
(* or a private key material of PrivMats set by the application.  A       *)
(* message encrypted with material m decrypts with a cipher/HMAC pair iff *)
(* both are keyed with m.  Allocation failure is possible only at the     *)
(* sites named in CanFail.  uaf records that a freed object was used or   *)
(* freed again, nullDeref that a NULL key was dereferenced.               *)
(***************************************************************************)
EXTENDS Naturals, Sequences, FiniteSets, SequencesExt

CONSTANTS NC, NH, MaxSaves, MaxPriv, PrivMats, CanFail

Gens == 1..MaxSaves
Mats == Gens \cup PrivMats
NoMat == 0
FailSites == {"save_send", "save_recv", "save_hmac",
              "priv_send", "priv_recv", "priv_hmac", "cmode_hmac"}

ASSUME CanFail \subseteq FailSites
ASSUME NC >= 2 * (MaxSaves + MaxPriv) /\ NH >= MaxSaves + MaxPriv
\* HMAC objects beyond MaxSaves + MaxPriv serve CMODE_CHANGE HMAC swaps.

Entry == [send : 1..NC, recv : 1..NC, hmac : 1..NH]
NoEntry == [send |-> 0, recv |-> 0, hmac |-> 0]
NoRx == [mat |-> NoMat, ok |-> FALSE]

VARIABLES
    cst, cmat,        \* cipher objects: status and key material
    hst, hmat,        \* HMAC objects: status and key material
    sendKey, recvKey, hmac,   \* channel->internal.send_key/receive_key/hmac
    oldKeys, oldHmacs,        \* internal.old_channel_keys / old_hmacs
    timers,           \* pending silc_client_save_channel_key_rekey tasks
    saved,            \* channel key payloads processed so far
    priv, curr,       \* internal.private_keys (a sequence) and curr_key
    added,            \* private keys the application has added
    privkeyMode,      \* SILC_CHANNEL_MODE_PRIVKEY in channel->mode
    alive,            \* the channel entry is not yet freed
    lastRx,           \* outcome of the step, if it received a message
    uaf, nullDeref

vars == <<cst, cmat, hst, hmat, sendKey, recvKey, hmac, oldKeys, oldHmacs,
          timers, saved, priv, curr, added, privkeyMode, alive,
          lastRx, uaf, nullDeref>>

Status == {"unused", "live", "freed"}

TypeOK ==
    /\ cst \in [1..NC -> Status] /\ cmat \in [1..NC -> Mats \cup {NoMat}]
    /\ hst \in [1..NH -> Status] /\ hmat \in [1..NH -> Mats \cup {NoMat}]
    /\ sendKey \in 0..NC /\ recvKey \in 0..NC /\ hmac \in 0..NH
    /\ oldKeys \in Seq(0..NC) /\ oldHmacs \in Seq(0..NH)
    /\ timers \in Nat /\ saved \in 0..MaxSaves /\ added \in 0..MaxPriv
    /\ priv \in Seq(Entry) /\ curr \in Entry \cup {NoEntry}
    /\ privkeyMode \in BOOLEAN /\ alive \in BOOLEAN
    /\ lastRx \in [mat : Mats \cup {NoMat}, ok : BOOLEAN]
    /\ uaf \in BOOLEAN /\ nullDeref \in BOOLEAN

(* silc_client_add_channel: a new channel has no keys at all. *)
Init ==
    /\ cst = [i \in 1..NC |-> "unused"] /\ cmat = [i \in 1..NC |-> NoMat]
    /\ hst = [i \in 1..NH |-> "unused"] /\ hmat = [i \in 1..NH |-> NoMat]
    /\ sendKey = 0 /\ recvKey = 0 /\ hmac = 0
    /\ oldKeys = <<>> /\ oldHmacs = <<>>
    /\ timers = 0 /\ saved = 0 /\ priv = <<>> /\ curr = NoEntry
    /\ added = 0 /\ privkeyMode \in BOOLEAN /\ alive = TRUE
    /\ lastRx = NoRx /\ uaf = FALSE /\ nullDeref = FALSE

-----------------------------------------------------------------------------
(* Object helpers *)

\* The lowest unused object numbers (the allocator hands out fresh memory).
FreshC(k) == CHOOSE i \in 1..NC : cst[i] = "unused"
                 /\ Cardinality({j \in 1..i : cst[j] = "unused"}) = k
FreshH == CHOOSE i \in 1..NH : hst[i] = "unused"

\* An allocation at site s may fail only if s is in CanFail.
Outcome(s) == IF s \in CanFail THEN BOOLEAN ELSE {TRUE}

\* Using (parsing, encrypting, naming) a non-NULL object that is freed.
UsedFreed(cs, hs) ==
    \/ \E c \in cs \ {0} : cst[c] = "freed"
    \/ \E h \in hs \ {0} : hst[h] = "freed"

\* Freeing the objects of two sequences: a freed or twice-listed object is
\* a double free.
DoubleFree(cseq, hseq) ==
    \/ UsedFreed(ToSet(cseq), ToSet(hseq))
    \/ Cardinality(ToSet(cseq)) < Len(cseq)
    \/ Cardinality(ToSet(hseq)) < Len(hseq)

FreeC(cs) == [i \in 1..NC |-> IF i \in cs THEN "freed" ELSE cst[i]]
FreeH(hs) == [i \in 1..NH |-> IF i \in hs THEN "freed" ELSE hst[i]]

\* A pair decrypts a message of material m.
Decrypts(c, h, m) == c # 0 /\ h # 0 /\ cmat[c] = m /\ hmat[h] = m

-----------------------------------------------------------------------------
(* silc_client_save_channel_key (client_channel.c 370-492), called for a  *)
(* Channel Key packet.  The current receive key and HMAC are appended to  *)
(* the old lists, whatever they are, and a prune task is scheduled; then  *)
(* send_key, receive_key and hmac are allocated in that order, each       *)
(* overwriting the field, and the first failure returns FALSE.            *)
SaveChannelKey ==
    /\ alive /\ saved < MaxSaves
    /\ LET g == saved + 1
           s == FreshC(1)
           r == FreshC(2)
           h == FreshH
       IN \E okS \in Outcome("save_send"), okR \in Outcome("save_recv"),
             okH \in Outcome("save_hmac") :
          LET newS == okS
              newR == okS /\ okR
              newH == newR /\ okH
              got == {i \in {s, r} : (i = s /\ newS) \/ (i = r /\ newR)}
          IN /\ oldKeys' = Append(oldKeys, recvKey)
             /\ oldHmacs' = Append(oldHmacs, hmac)
             /\ timers' = timers + 1
             /\ saved' = g
             /\ sendKey' = IF newS THEN s ELSE sendKey
             /\ recvKey' = IF newR THEN r ELSE recvKey
             /\ hmac' = IF newH THEN h ELSE hmac
             /\ cst' = [i \in 1..NC |-> IF i \in got THEN "live" ELSE cst[i]]
             /\ cmat' = [i \in 1..NC |-> IF i \in got /\ newR THEN g
                                         ELSE cmat[i]]
             /\ hst' = IF newH THEN [hst EXCEPT ![h] = "live"] ELSE hst
             /\ hmat' = IF newH THEN [hmat EXCEPT ![h] = g] ELSE hmat
             \* the HMAC name is read from the current hmac object
             /\ uaf' = (uaf \/ (newR /\ UsedFreed({}, {hmac})))
    /\ lastRx' = NoRx
    /\ UNCHANGED <<priv, curr, added, privkeyMode, alive, nullDeref>>

(* silc_client_save_channel_key_rekey (341-365): remove and free the      *)
(* first old key and the first old HMAC, each only if it is not NULL.     *)
RekeyTimer ==
    /\ alive /\ timers > 0
    /\ LET k == IF oldKeys = <<>> THEN 0 ELSE Head(oldKeys)
           h == IF oldHmacs = <<>> THEN 0 ELSE Head(oldHmacs)
       IN /\ oldKeys' = IF k # 0 THEN Tail(oldKeys) ELSE oldKeys
          /\ oldHmacs' = IF h # 0 THEN Tail(oldHmacs) ELSE oldHmacs
          /\ cst' = FreeC({k} \ {0})
          /\ hst' = FreeH({h} \ {0})
          /\ uaf' = (uaf \/ UsedFreed({k}, {h}))
    /\ timers' = timers - 1
    /\ lastRx' = NoRx
    /\ UNCHANGED <<cmat, hmat, sendKey, recvKey, hmac, saved, priv, curr,
                   added, privkeyMode, alive, nullDeref>>

-----------------------------------------------------------------------------
(* Decryption in the silc_client_channel_message state (226-322).         *)

\* The j-th old key and HMAC counted from the end (silc_dlist_end, then
\* silc_dlist_get moving backwards); past the end of a list is NULL.
OldKeyAt(j) == IF j < Len(oldKeys) THEN oldKeys[Len(oldKeys) - j] ELSE 0
OldHmacAt(j) == IF j < Len(oldHmacs) THEN oldHmacs[Len(oldHmacs) - j] ELSE 0

\* Mutant: an if instead of the while loop, only the newest old pair.
OldDepthNewest ==
    IF Len(oldKeys) = 0 \/ OldKeyAt(0) = 0 \/ OldHmacAt(0) = 0 THEN 0 ELSE 1

\* How many old pairs the walk parses at most: it stops at the first NULL
\* key or NULL HMAC.
OldDepth ==
    LET stops == {j \in 0..Len(oldKeys) : OldKeyAt(j) = 0 \/ OldHmacAt(j) = 0}
    IN Min(stops)

\* The old pairs parsed for a message of material m, newest first, up to
\* the one that decrypts it.
OldTried(m) ==
    LET hits == {j \in 0..OldDepth - 1 : Decrypts(OldKeyAt(j), OldHmacAt(j), m)}
    IN IF hits = {} THEN 0..OldDepth - 1 ELSE 0..Min(hits)

\* The private keys parsed for m, in list order, up to the one that works.
PrivTried(m) ==
    LET hits == {i \in 1..Len(priv) : Decrypts(priv[i].recv, priv[i].hmac, m)}
    IN IF hits = {} THEN 1..Len(priv) ELSE 1..Min(hits)

(* A message of material m arrives from a peer on the channel.  With no   *)
(* private keys: the channel key, then the old keys.  With private keys:  *)
(* the channel key unless PRIVKEY mode is set, then every private key.    *)
Receive(m) ==
    /\ alive
    /\ LET chTry == priv = <<>> \/ ~privkeyMode
           chOk == chTry /\ Decrypts(recvKey, hmac, m)
           oldJ == IF priv = <<>> /\ ~chOk THEN OldTried(m) ELSE {}
           privI == IF priv # <<>> /\ ~chOk THEN PrivTried(m) ELSE {}
           ok == \/ chOk
                 \/ \E j \in oldJ : Decrypts(OldKeyAt(j), OldHmacAt(j), m)
                 \/ \E i \in privI : Decrypts(priv[i].recv, priv[i].hmac, m)
           cs == (IF chTry THEN {recvKey} ELSE {})
                 \cup {OldKeyAt(j) : j \in oldJ} \cup {priv[i].recv : i \in privI}
           hs == (IF chTry /\ recvKey # 0 THEN {hmac} ELSE {})
                 \cup {OldHmacAt(j) : j \in oldJ} \cup {priv[i].hmac : i \in privI}
       IN /\ lastRx' = [mat |-> m, ok |-> ok]
          /\ uaf' = (uaf \/ UsedFreed(cs, hs))
    /\ UNCHANGED <<cst, cmat, hst, hmat, sendKey, recvKey, hmac, oldKeys,
                   oldHmacs, timers, saved, priv, curr, added, privkeyMode,
                   alive, nullDeref>>

(* silc_client_send_channel_message (29-141), key choice: the key the     *)
(* application gives, else in PRIVKEY mode the current private key, else  *)
(* the first private key, which becomes current; else the channel key.    *)
(* No cipher or no HMAC returns FALSE before anything is encrypted.       *)
SendMessage(k) ==
    /\ alive
    /\ LET usePriv == priv # <<>>
           useFirst == usePriv /\ k = NoEntry /\ privkeyMode /\ curr = NoEntry
           e == CASE ~usePriv -> NoEntry
                  [] k # NoEntry -> k
                  [] privkeyMode /\ curr # NoEntry -> curr
                  [] useFirst -> Head(priv)
                  [] OTHER -> NoEntry
           c == IF e = NoEntry THEN sendKey ELSE e.send
           h == IF e = NoEntry THEN hmac ELSE e.hmac
       IN /\ curr' = IF useFirst THEN Head(priv) ELSE curr
          /\ uaf' = (uaf \/ (c # 0 /\ h # 0 /\ UsedFreed({c}, {h})))
    /\ lastRx' = NoRx
    /\ UNCHANGED <<cst, cmat, hst, hmat, sendKey, recvKey, hmac, oldKeys,
                   oldHmacs, timers, saved, priv, added, privkeyMode, alive, nullDeref>>

-----------------------------------------------------------------------------
(* Channel private keys (515-748).                                        *)

(* silc_client_add_channel_private_key: allocate the entry, send_key,     *)
(* receive_key and hmac.  Each failure path frees the entry and then      *)
(* reads entry->name to free it (a use after free), freeing what was      *)
(* allocated.  On success the entry is appended, and it becomes the       *)
(* current key if there is none.                                          *)
AddPrivateKey(m) ==
    /\ alive /\ added < MaxPriv
    /\ LET s == FreshC(1)
           r == FreshC(2)
           h == FreshH
       IN \E okS \in Outcome("priv_send"), okR \in Outcome("priv_recv"),
             okH \in Outcome("priv_hmac") :
          LET ok == okS /\ okR /\ okH
              got == {i \in {s, r} : (i = s /\ okS) \/ (i = r /\ okS /\ okR)}
              e == [send |-> s, recv |-> r, hmac |-> h]
          IN /\ cst' = [i \in 1..NC |-> IF i \in got
                                        THEN IF ok THEN "live" ELSE "freed"
                                        ELSE cst[i]]
             /\ cmat' = [i \in 1..NC |-> IF i \in got /\ okR THEN m
                                         ELSE cmat[i]]
             /\ hst' = IF ok THEN [hst EXCEPT ![h] = "live"] ELSE hst
             /\ hmat' = IF ok THEN [hmat EXCEPT ![h] = m] ELSE hmat
             /\ priv' = IF ok THEN Append(priv, e) ELSE priv
             /\ curr' = IF ok /\ curr = NoEntry THEN e ELSE curr
             /\ uaf' = (uaf \/ ~ok)
    /\ added' = added + 1
    /\ lastRx' = NoRx
    /\ UNCHANGED <<sendKey, recvKey, hmac, oldKeys, oldHmacs, timers, saved,
                   privkeyMode, alive, nullDeref>>

\* Mutant: curr_key is not cleared when the current entry is deleted.
DelPrivateKeyKeepCurr(e) ==
    /\ alive /\ e \in ToSet(priv)
    /\ curr' = curr /\ nullDeref' = nullDeref
    /\ uaf' = (uaf \/ DoubleFree(<<e.send, e.recv>>, <<e.hmac>>))
    /\ priv' = Remove(priv, e)
    /\ cst' = FreeC({e.send, e.recv})
    /\ hst' = FreeH({e.hmac})
    /\ lastRx' = NoRx
    /\ UNCHANGED <<cmat, hmat, sendKey, recvKey, hmac, oldKeys, oldHmacs,
                   timers, saved, added, privkeyMode, alive>>

(* silc_client_del_channel_private_key: if the entry is current, clear    *)
(* curr_key and name the channel cipher and HMAC from send_key and hmac   *)
(* (no NULL check); unlink the entry and free its keys.                   *)
DelPrivateKey(e) ==
    /\ alive /\ e \in ToSet(priv)
    /\ LET isCurr == curr = e
       IN /\ curr' = IF isCurr THEN NoEntry ELSE curr
          /\ nullDeref' = (nullDeref \/ (isCurr /\ (sendKey = 0 \/ hmac = 0)))
          /\ uaf' = \/ uaf
                    \/ isCurr /\ UsedFreed({sendKey}, {hmac})
                    \/ DoubleFree(<<e.send, e.recv>>, <<e.hmac>>)
    /\ priv' = Remove(priv, e)
    /\ cst' = FreeC({e.send, e.recv})
    /\ hst' = FreeH({e.hmac})
    /\ lastRx' = NoRx
    /\ UNCHANGED <<cmat, hmat, sendKey, recvKey, hmac, oldKeys, oldHmacs,
                   timers, saved, added, privkeyMode, alive>>

\* The cipher and HMAC objects of a list of private key entries.
PrivCiphers(es) == {e.send : e \in es} \cup {e.recv : e \in es}
PrivHmacs(es) == {e.hmac : e \in es}

(* silc_client_del_channel_private_keys: free every entry, clear          *)
(* curr_key; FALSE when there are no private keys.                        *)
DelPrivateKeys ==
    /\ alive /\ priv # <<>>
    /\ cst' = FreeC(PrivCiphers(ToSet(priv)))
    /\ hst' = FreeH(PrivHmacs(ToSet(priv)))
    /\ uaf' = (uaf \/ UsedFreed(PrivCiphers(ToSet(priv)),
                                PrivHmacs(ToSet(priv))))
    /\ priv' = <<>> /\ curr' = NoEntry
    /\ lastRx' = NoRx
    /\ UNCHANGED <<cmat, hmat, sendKey, recvKey, hmac, oldKeys, oldHmacs,
                   timers, saved, added, privkeyMode, alive,
                   nullDeref>>

(* silc_client_current_channel_private_key: make e current and read the   *)
(* names of its send key and hmac.                                         *)
CurrentPrivateKey(e) ==
    /\ alive /\ e \in ToSet(priv)
    /\ curr' = e
    /\ uaf' = (uaf \/ UsedFreed({e.send}, {e.hmac}))
    /\ lastRx' = NoRx
    /\ UNCHANGED <<cst, cmat, hst, hmat, sendKey, recvKey, hmac, oldKeys,
                   oldHmacs, timers, saved, priv, added, privkeyMode, alive, nullDeref>>

\* An HMAC object is free beyond those later saves and private keys need.
HmacSpare ==
    Cardinality({i \in 1..NH : hst[i] = "unused"})
        > (MaxSaves - saved) + (MaxPriv - added)

(* The channel part of a CMODE_CHANGE notify (client_notify.c 898-947).  *)
(* With an HMAC argument a new HMAC is allocated (failure: goto out, the  *)
(* mode is not saved) and keyed from the current one, which is freed and *)
(* replaced; then the new mode, with or without PRIVKEY, is saved.  NH    *)
(* bounds the HMAC objects, so the argument is offered while one is spare.*)
ChangeMode ==
    /\ alive
    /\ \E newMode \in BOOLEAN,
          withHmac \in IF HmacSpare THEN BOOLEAN ELSE {FALSE} :
       LET h == FreshH
       IN \E ok \in IF withHmac THEN Outcome("cmode_hmac") ELSE {TRUE} :
          LET swap == withHmac /\ ok /\ hmac # 0
          IN /\ privkeyMode' = IF ok THEN newMode ELSE privkeyMode
             /\ hmac' = IF swap THEN h ELSE hmac
             /\ hst' = CASE swap -> [hst EXCEPT ![hmac] = "freed", ![h] = "live"]
                         [] withHmac /\ ok -> [hst EXCEPT ![h] = "live"]
                         [] OTHER -> hst
             /\ hmat' = IF swap THEN [hmat EXCEPT ![h] = hmat[hmac]] ELSE hmat
             /\ uaf' = (uaf \/ (swap /\ UsedFreed({}, {hmac})))
    /\ lastRx' = NoRx
    /\ UNCHANGED <<cst, cmat, sendKey, recvKey, oldKeys, oldHmacs, timers,
                   saved, priv, curr, added, alive, nullDeref>>

\* The prefix of an old list that a silc_dlist_get loop from the start
\* visits: it stops at the first NULL.
UpToNull(s) ==
    LET z == {i \in 1..Len(s) : s[i] = 0}
    IN SubSeq(s, 1, IF z = {} THEN Len(s) ELSE Min(z) - 1)

NonNull(s) == SelectSeq(s, LAMBDA i : i # 0)

(* The last reference is released: the free path of                       *)
(* silc_client_unref_channel (client_entry.c 1843-1872) deletes the       *)
(* private keys, frees send_key, receive_key and                          *)
(* hmac, frees the old lists by a loop that stops at the first NULL, and  *)
(* deletes the channel's pending prune tasks.                             *)
DeleteChannel ==
    /\ alive
    /\ LET cseq == NonNull(<<sendKey, recvKey>>) \o UpToNull(oldKeys)
           hseq == NonNull(<<hmac>>) \o UpToNull(oldHmacs)
           pc == PrivCiphers(ToSet(priv))
           ph == PrivHmacs(ToSet(priv))
       IN /\ cst' = FreeC(ToSet(cseq) \cup pc)
          /\ hst' = FreeH(ToSet(hseq) \cup ph)
          /\ uaf' = (uaf \/ UsedFreed(pc, ph) \/ DoubleFree(cseq, hseq))
    /\ alive' = FALSE
    /\ timers' = 0
    /\ priv' = <<>> /\ curr' = NoEntry
    /\ lastRx' = NoRx
    /\ UNCHANGED <<cmat, hmat, sendKey, recvKey, hmac, oldKeys, oldHmacs,
                   saved, added, privkeyMode, nullDeref>>

-----------------------------------------------------------------------------
Next ==
    \/ SaveChannelKey
    \/ RekeyTimer
    \/ \E m \in 1..saved \cup PrivMats : Receive(m)
    \/ \E k \in ToSet(priv) \cup {NoEntry} : SendMessage(k)
    \/ \E m \in PrivMats : AddPrivateKey(m)
    \/ \E e \in ToSet(priv) : DelPrivateKey(e) \/ CurrentPrivateKey(e)
    \/ DelPrivateKeys
    \/ ChangeMode
    \/ DeleteChannel

\* The prune task is a scheduler timeout: once due it runs.
Spec == Init /\ [][Next]_vars /\ WF_vars(RekeyTimer)

-----------------------------------------------------------------------------
(* Properties *)

\* A channel key generation m is held: the current pair or a pair saved
\* together on the old lists is keyed with m.
HeldPair(m) ==
    \/ Decrypts(recvKey, hmac, m)
    \/ \E i \in 1..Len(oldKeys) :
          i <= Len(oldHmacs) /\ Decrypts(oldKeys[i], oldHmacs[i], m)

(* No cipher or HMAC object is used or freed after it was freed: by the   *)
(* decrypt walk, the send path, the prune task, the private key           *)
(* operations or the channel free.                                        *)
NoFreedKeyUse == ~uaf

(* No NULL channel key is dereferenced (del_channel_private_key names the *)
(* channel cipher from send_key when the current private key goes).      *)
NoNullKeyDeref == ~nullDeref

(* With no private keys set, a received channel message whose key         *)
(* generation the channel still holds, current or old, is decrypted: the  *)
(* old-key walk in silc_client_channel_message reaches every held pair.   *)
DecryptsHeldKeys ==
    lastRx # NoRx /\ priv = <<>> => lastRx.ok \/ ~HeldPair(lastRx.mat)

(* Every key retired to the old key list is eventually pruned by the      *)
(* rekey task (the grace period after a rekey ends), or the channel goes. *)
OldKeysPruned ==
    \A c \in 1..NC : c \in ToSet(oldKeys) /\ alive ~> c \notin ToSet(oldKeys) \/ ~alive
=============================================================================
