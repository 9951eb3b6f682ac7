--------------------------- MODULE KeyringProofs ---------------------------
(***************************************************************************)
(* Proofs about Keyring, for any number of servers and any times: as long    *)
(* as no lock is taken away, the lock file does what it is for.              *)
(***************************************************************************)
EXTENDS Keyring, TLAPS

USE TimeAssumption

Critical == {"reading", "saving", "unlocking"}

\* What the argument needs of the types.
ServersHavePlaces ==
    /\ DOMAIN server = Conversations
    /\ \A c \in Conversations : "pc" \in DOMAIN server[c]

\* Only who has taken a lock away tries a second time.
SecondTryStole == \A c \in Conversations : server[c].pc = "relocking" => stolen

WriterInv ==
    /\ stolen \in BOOLEAN
    /\ ServersHavePlaces
    /\ SecondTryStole
    /\ OneWriter

(* No lock file was taken away at first, and nobody holds one but a server  *)
(* that is gone (the state in which _dbus_keyring_new_for_credentials       *)
(* begins).                                                                *)
LEMMA InitWriter == Init => WriterInv
<1> SUFFICES ASSUME Init PROVE WriterInv
  OBVIOUS
<1>1. \A c \in Conversations : server[c] = Fresh
  BY DEF Init
<1>2. Fresh.pc = "start" /\ "pc" \in DOMAIN Fresh
  BY DEF Fresh
<1>3. stolen = FALSE /\ DOMAIN server = Conversations
  BY DEF Init
<1>4. ServersHavePlaces
  BY <1>1, <1>2, <1>3 DEF ServersHavePlaces
<1> QED BY <1>1, <1>2, <1>3, <1>4 DEF WriterInv, SecondTryStole, OneWriter

(* What a step of one server may do to the program counters: it changes its *)
(* own place only.                                                         *)
Moves(c, pcs) ==
    /\ DOMAIN server' = Conversations
    /\ "pc" \in DOMAIN server'[c]
    /\ server'[c].pc \in pcs
    /\ \A d \in Conversations \ {c} : server'[d] = server[d]

(* Become and End, the assignments the actions are built of, are such steps. *)
LEMMA Assignments ==
    ASSUME ServersHavePlaces, NEW c \in Conversations, NEW pc
    PROVE  /\ Become(c, pc) => Moves(c, {pc})
           /\ End(c, pc) => Moves(c, {pc})
  BY DEF ServersHavePlaces, Moves, Become, End, Fresh

(* A challenge is sent, or the server has no key to name: either way it is  *)
(* out of the critical section.                                            *)
LEMMA ChallengeLeaves ==
    ASSUME ServersHavePlaces, NEW c \in Conversations, NEW keys, Challenge(c, keys)
    PROVE  Moves(c, {"challenged", "rejected"})
<1> DEFINE id == FindRecentKey(keys)
<1>1. CASE id = None
  <2>1. End(c, "rejected")
    BY <1>1 DEF Challenge
  <2> QED BY <2>1, Assignments DEF Moves
<1>2. CASE id # None
  <2>1. server' = [server EXCEPT ![c] =
            [Fresh EXCEPT !.pc = "challenged", !.cookie = id, !.since = now]]
    BY <1>2 DEF Challenge
  <2> QED BY <2>1 DEF Moves, ServersHavePlaces, Fresh
<1> QED BY <1>1, <1>2

(* Every step of _dbus_keyring_get_best_key keeps the invariant.  While no  *)
(* lock was taken away, the lock is free when it is made, and deleted only  *)
(* by the server it is about.                                              *)
LEMMA GetBestKeyWriter ==
    ASSUME WriterInv, NEW c \in Conversations, GetBestKey(c)
    PROVE  WriterInv'
<1> USE DEF WriterInv
<1>1. CASE Open(c)
  <2>1. Moves(c, {"challenged", "rejected", "locking"})
    <3> DEFINE keys == Loaded(now, MaxKeysInFile)
    <3>1. CASE FindRecentKey(keys) # None
      BY <3>1, <1>1, ChallengeLeaves DEF Open, Moves
    <3>2. CASE FindRecentKey(keys) = None
      BY <3>2, <1>1 DEF Open, Moves, ServersHavePlaces
    <3> QED BY <3>1, <3>2
  <2> QED BY <2>1, <1>1 DEF Open, Moves, ServersHavePlaces, SecondTryStole, OneWriter
<1>2. CASE Lock(c)
  <2>1. Moves(c, {"reading"})
    BY <1>2, Assignments DEF Lock
  <2> QED BY <2>1, <1>2 DEF Lock, Moves, ServersHavePlaces, SecondTryStole, OneWriter
<1>3. CASE LockTimeout(c)
  <2>1. Moves(c, {"locking"})
    BY <1>3 DEF LockTimeout, At, Moves, ServersHavePlaces
  <2> QED BY <2>1, <1>3 DEF LockTimeout, Moves, ServersHavePlaces, SecondTryStole, OneWriter
<1>4. CASE DeleteStaleLock(c)
  <2>1. CASE lock = None
    <3>1. Moves(c, {"rejected"})
      BY <1>4, <2>1, Assignments DEF DeleteStaleLock
    <3> QED BY <3>1, <2>1, <1>4
          DEF DeleteStaleLock, Moves, ServersHavePlaces, SecondTryStole, OneWriter
  <2>2. CASE lock # None
    <3>1. Moves(c, {"relocking"}) /\ stolen' = TRUE
      BY <1>4, <2>2, Assignments DEF DeleteStaleLock
    <3> QED BY <3>1 DEF Moves, ServersHavePlaces, SecondTryStole, OneWriter
  <2> QED BY <2>1, <2>2
<1>5. CASE LockAgain(c)
  <2>1. Moves(c, {"reading", "rejected"}) /\ stolen' = stolen
    BY <1>5, Assignments DEF LockAgain, Moves
  <2>2. stolen
    BY <1>5 DEF LockAgain, At, SecondTryStole
  <2> QED BY <2>1, <2>2 DEF Moves, ServersHavePlaces, SecondTryStole, OneWriter
<1>6. CASE ReadFile(c)
  <2>1. Moves(c, {"saving"})
    BY <1>6 DEF ReadFile, Moves, ServersHavePlaces
  <2> QED BY <2>1, <1>6 DEF ReadFile, At, Moves, ServersHavePlaces, SecondTryStole, OneWriter
<1>7. CASE SaveFile(c)
  <2>1. Moves(c, {"unlocking"})
    BY <1>7, Assignments DEF SaveFile
  <2> QED BY <2>1, <1>7 DEF SaveFile, At, Moves, ServersHavePlaces, SecondTryStole, OneWriter
<1>8. CASE SaveFails(c)
  <2>1. Moves(c, {"rejected"})
    BY <1>8, Assignments DEF SaveFails
  <2> QED BY <2>1, <1>8 DEF SaveFails, At, Moves, ServersHavePlaces, SecondTryStole, OneWriter
<1>9. CASE Unlock(c)
  <2>1. Moves(c, {"challenged", "rejected"})
    BY <1>9, ChallengeLeaves DEF Unlock
  <2> QED BY <2>1, <1>9 DEF Unlock, At, Moves, ServersHavePlaces, SecondTryStole, OneWriter
<1> QED BY <1>1, <1>2, <1>3, <1>4, <1>5, <1>6, <1>7, <1>8, <1>9 DEF GetBestKey

(* As long as no lock file was deleted as stale (_dbus_keyring_lock), only   *)
(* one server is between its lock and its unlock, and the lock file is the   *)
(* one it made: two servers never both read and rewrite the cookie file,     *)
(* whoever crashes.                                                         *)
THEOREM WritersAreAlone == Spec => []OneWriter
<1>1. WriterInv /\ [Next]_vars => WriterInv'
  <2> SUFFICES ASSUME WriterInv, [Next]_vars PROVE WriterInv'
    OBVIOUS
  <2>1. CASE \E c \in Conversations : GetBestKey(c)
    BY <2>1, GetBestKeyWriter
  <2>2. ASSUME NEW c \in Conversations, Crash(c) \/ Answer(c) PROVE WriterInv'
    <3>1. Moves(c, {"crashed", "accepted", "rejected"})
      BY <2>2, Assignments DEF Crash, Answer, Moves, WriterInv
    <3> QED BY <3>1, <2>2
          DEF Crash, Answer, Moves, WriterInv, ServersHavePlaces, SecondTryStole, OneWriter
  <2>3. CASE Tick \/ UNCHANGED vars
    BY <2>3 DEF Tick, vars, WriterInv, ServersHavePlaces, SecondTryStole, OneWriter
  <2> QED BY <2>1, <2>2, <2>3 DEF Next
<1>2. WriterInv => OneWriter
  BY DEF WriterInv
<1> QED BY <1>1, <1>2, InitWriter, PTL DEF Spec
=============================================================================
