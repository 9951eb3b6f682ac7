------------------------------ MODULE Keyring ------------------------------
(***************************************************************************)
(* The file of secret cookies that DBUS_COOKIE_SHA1 rests on                 *)
(* (dbus/dbus-keyring.c): servers add keys to it under a lock file, clients  *)
(* read it without one.  Every conversation has a DBusKeyring of its own in   *)
(* a server process of its own, which may be slow and may crash at any point; *)
(* a lock file outlives the process that made it, and whoever has waited long *)
(* enough removes it.                                                        *)
(*                                                                         *)
(* The clock only goes forward, and is the same for everyone.                *)
(***************************************************************************)
EXTENDS Integers, Sequences, SequencesExt, FiniteSets

CONSTANTS
    Conversations,      \* one server process with one client each
    None,               \* no conversation
    Dead,               \* a server that crashed long ago
    NewKeyTimeout,      \* NEW_KEY_TIMEOUT_SECONDS
    ExpireKeysTimeout,  \* EXPIRE_KEYS_TIMEOUT_SECONDS
    MaxKeysInFile,      \* MAX_KEYS_IN_FILE
    MaxLockTimeouts,    \* MAX_LOCK_TIMEOUTS
    MaxTime             \* bound: the clock

ASSUME TimeAssumption ==
    /\ NewKeyTimeout \in Nat \ {0}
    /\ ExpireKeysTimeout \in Nat /\ ExpireKeysTimeout > NewKeyTimeout
    /\ MaxKeysInFile \in Nat \ {0}
    /\ MaxLockTimeouts \in Nat
    /\ {None, Dead} \cap Conversations = {} /\ None # Dead

VARIABLES
    file,       \* the keys in the file, in order
    lock,       \* whose lock file there is; the file does not say whose
    now,        \* the time
    server,     \* the server's side of each conversation
    stolen      \* a lock file was deleted as stale

vars == <<file, lock, now, server, stolen>>

\* A key: the conversation that made it stands for its random id and secret.
Key(c) == [id |-> c, time |-> now]

-----------------------------------------------------------------------------
(* Reading the file. *)

Expired(k, at) == at - ExpireKeysTimeout > k.time

\* _dbus_keyring_reload(): the first keys that are not expired, not more
\* than the limit.
Loaded(at, limit) ==
    LET alive == SelectSeq(file, LAMBDA k : ~Expired(k, at))
    IN  SubSeq(alive, 1, IF Len(alive) < limit THEN Len(alive) ELSE limit)

Recent(k) == now - NewKeyTimeout < k.time

\* find_recent_key(): the first in the list that is young enough.
FindRecentKey(keys) ==
    LET young == SelectSeq(keys, Recent)
    IN  IF young = <<>> THEN None ELSE young[1].id

Ids(keys) == {keys[i].id : i \in 1..Len(keys)}

-----------------------------------------------------------------------------
(* The server. *)

At(c, pc) == server[c].pc = pc

Become(c, pc) == server' = [server EXCEPT ![c].pc = pc]

Fresh == [pc |-> "start", keys |-> <<>>, asked |-> 0, timeouts |-> 0,
          cookie |-> None, since |-> 0]

\* The conversation is over for the keyring.
End(c, pc) == server' = [server EXCEPT ![c] = [Fresh EXCEPT !.pc = pc]]

\* The key is chosen and the challenge is sent.  The server will check the
\* answer with the secret it holds, whatever becomes of the file.
Challenge(c, keys) ==
    LET id == FindRecentKey(keys)
    IN  IF id = None THEN End(c, "rejected")
        ELSE server' = [server EXCEPT ![c] =
                [Fresh EXCEPT !.pc = "challenged", !.cookie = id, !.since = now]]

\* _dbus_keyring_new_for_credentials(), then _dbus_keyring_get_best_key():
\* a recent key will do, otherwise the lock is needed for a new one.
Open(c) ==
    /\ At(c, "start")
    /\ LET keys == Loaded(now, MaxKeysInFile)
       IN  IF FindRecentKey(keys) # None THEN Challenge(c, keys)
           ELSE server' = [server EXCEPT ![c].asked = now, ![c].pc = "locking"]
    /\ UNCHANGED <<file, lock, now, stolen>>

Lock(c) ==
    /\ At(c, "locking") /\ server[c].timeouts < MaxLockTimeouts
    /\ lock = None
    /\ lock' = c
    /\ Become(c, "reading")
    /\ UNCHANGED <<file, now, stolen>>

\* 250 milliseconds later it tries again.
LockTimeout(c) ==
    /\ At(c, "locking") /\ server[c].timeouts < MaxLockTimeouts
    /\ lock # None
    /\ server' = [server EXCEPT ![c].timeouts = @ + 1]
    /\ UNCHANGED <<file, lock, now, stolen>>

\* A plausible slip: a lock is somebody's, whatever became of them.
DeleteStaleLockFaulty(c) ==
    /\ At(c, "locking") /\ server[c].timeouts = MaxLockTimeouts
    /\ lock = None
    /\ End(c, "rejected")
    /\ UNCHANGED <<file, lock, now, stolen>>

DeleteStaleLock(c) ==
    /\ At(c, "locking") /\ server[c].timeouts = MaxLockTimeouts
    /\ IF lock = None THEN End(c, "rejected") ELSE Become(c, "relocking")
    /\ lock' = None
    /\ stolen' = (stolen \/ lock # None)
    /\ UNCHANGED <<file, now>>

LockAgain(c) ==
    /\ At(c, "relocking")
    /\ IF lock = None THEN Become(c, "reading") ELSE End(c, "rejected")
    /\ lock' = IF lock = None THEN c ELSE lock
    /\ UNCHANGED <<file, now, stolen>>

\* A plausible slip: what was loaded before the lock was had is good enough,
\* and that held no key of use.
ReadFileFaulty(c) ==
    /\ At(c, "reading")
    /\ server' = [server EXCEPT ![c].keys = <<Key(c)>>, ![c].pc = "saving"]
    /\ UNCHANGED <<file, lock, now, stolen>>

\* The file is read again under the lock, by the time it was asked for, and
\* a new key is added.
ReadFile(c) ==
    /\ At(c, "reading")
    /\ server' = [server EXCEPT
            ![c].keys = Append(Loaded(server[c].asked, MaxKeysInFile - 1), Key(c)),
            ![c].pc = "saving"]
    /\ UNCHANGED <<file, lock, now, stolen>>

\* The new contents replace the old ones in one step, by renaming.
SaveFile(c) ==
    /\ At(c, "saving")
    /\ file' = server[c].keys
    /\ Become(c, "unlocking")
    /\ UNCHANGED <<lock, now, stolen>>

\* The disk is full: nothing is saved, the lock is dropped.
SaveFails(c) ==
    /\ At(c, "saving")
    /\ lock' = None
    /\ End(c, "rejected")
    /\ UNCHANGED <<file, now, stolen>>

\* The lock file is deleted, whoever made it.
Unlock(c) ==
    /\ At(c, "unlocking")
    /\ lock' = None
    /\ Challenge(c, server[c].keys)
    /\ UNCHANGED <<file, now, stolen>>

Crash(c) ==
    /\ server[c].pc \notin {"challenged", "accepted", "rejected", "crashed"}
    /\ End(c, "crashed")
    /\ UNCHANGED <<file, lock, now, stolen>>

-----------------------------------------------------------------------------
(* The client looks for the cookie it is asked for. *)

HasKey(c) == server[c].cookie \in Ids(Loaded(now, MaxKeysInFile))

Answer(c) ==
    /\ At(c, "challenged")
    /\ End(c, IF HasKey(c) THEN "accepted" ELSE "rejected")
    /\ UNCHANGED <<file, lock, now, stolen>>

Tick ==
    /\ now < MaxTime
    /\ now' = now + 1
    /\ UNCHANGED <<file, lock, server, stolen>>

-----------------------------------------------------------------------------

Init ==
    /\ file = <<>>
    /\ lock \in {None, Dead}
    /\ now = 0
    /\ server = [c \in Conversations |-> Fresh]
    /\ stolen = FALSE

GetBestKey(c) ==
    \/ Open(c)
    \/ Lock(c) \/ LockTimeout(c) \/ DeleteStaleLock(c) \/ LockAgain(c)
    \/ ReadFile(c) \/ SaveFile(c) \/ SaveFails(c) \/ Unlock(c)

Next ==
    \/ \E c \in Conversations : GetBestKey(c) \/ Crash(c) \/ Answer(c)
    \/ Tick

\* A server that does not crash goes on.
Fairness == \A c \in Conversations : WF_vars(GetBestKey(c))

Spec == Init /\ [][Next]_vars /\ Fairness

-----------------------------------------------------------------------------
(* Properties. *)

(***************************************************************************)
(* The time a key lives on after it was last handed out is what a client    *)
(* has to answer (EXPIRE_KEYS_TIMEOUT_SECONDS): whoever answers within it   *)
(* finds the key, however many servers add theirs and crash, as long as no  *)
(* lock is taken away from its owner and the file is not full.              *)
(***************************************************************************)
KeysOutliveChallenges ==
    \A c \in Conversations :
        /\ At(c, "challenged")
        /\ now - server[c].since <= ExpireKeysTimeout - NewKeyTimeout
        /\ ~stolen /\ Len(file) < MaxKeysInFile
        => HasKey(c)

(***************************************************************************)
(* As long as no lock is taken away, only one server is between its lock    *)
(* and its unlock, and it is the one the lock file is about.                *)
(***************************************************************************)
OneWriter ==
    ~stolen => \A c \in Conversations :
        server[c].pc \in {"reading", "saving", "unlocking"} => lock = c

(***************************************************************************)
(* A server that asks for a key gets one or gives up, although others       *)
(* crashed with the lock in their hands: the lock is not waited for for     *)
(* ever.                                                                    *)
(***************************************************************************)
LockIsNotForEver ==
    \A c \in Conversations :
        server[c].pc = "locking" ~> server[c].pc \in {"challenged", "rejected", "crashed"}
=============================================================================
