------------------------------ MODULE BusState ------------------------------
(***************************************************************************)
(* The state the D-Bus daemon shares between its name registry             *)
(* (bus/services.c), its activation table (bus/activation.c) and its       *)
(* transactions (bus/connection.c), with the vocabulary of messages,       *)
(* pending function calls and cancel hooks the other modules use.          *)
(*                                                                         *)
(* The daemon is single threaded.  One handler runs at a time, and the     *)
(* variable phase says how far it is:                                      *)
(*    idle    the main loop is about to pick the next event                *)
(*    run     the calls in todo are made, then the messages are sent       *)
(*    cancel  an allocation failed: the cancel hooks run                   *)
(*    round   a handler that loops (disconnection, failed activations)     *)
(*            is between two of its transactions                           *)
(*    abort   an assertion failed                                          *)
(*    fault   a freed owner is linked in a queue, or one is linked twice   *)
(* The model stops at abort and fault.  An operator named ...Faulty is the *)
(* one that follows it with a mistake; no specification uses it.           *)
(***************************************************************************)
EXTENDS Naturals, FiniteSets, Sequences, SequencesExt

CONSTANTS
  Conn,         \* client connections; a connection is its own unique name
  Name,         \* well-known bus names
  NoOne,        \* the empty owner in NameOwnerChanged
  MayOwn,       \* pairs <<conn, name>> the security policy lets own
  Denied,       \* pairs <<sender, recipient>> the security policy rejects
  MaxServices,  \* max_services_per_connection
  MaxPending,   \* max_pending_activations
  Activatable,  \* names with a .service file
  Exec,         \* Exec[n]: the command in the .service file of n
  SpawnErrors,  \* how starting a program may fail: "parse", "fork"
  Flags,        \* the RequestName flags clients use
  MaxOom,       \* bound: number of allocations that fail
  OomIn,        \* in which handlers they fail: sender "up", "down", or "daemon"
  Asserts       \* whether _dbus_assert is compiled in

AnyName == Name \cup Conn

AllFlags == [allow : BOOLEAN, noqueue : BOOLEAN, replace : BOOLEAN]

ASSUME ConnAssumption ==
  /\ Conn \cap Name = {}
  /\ NoOne \notin Conn \cup Name

ASSUME ConfigAssumption ==
  /\ MayOwn \subseteq Conn \X Name
  /\ Denied \subseteq Conn \X Conn
  /\ MaxServices \in Nat \ {0}
  /\ MaxPending \in Nat
  /\ Activatable \subseteq Name
  /\ Flags \subseteq AllFlags

ASSUME FailureAssumption ==
  /\ SpawnErrors \subseteq {"parse", "fork"}
  /\ MaxOom \in Nat
  /\ OomIn \subseteq {"up", "down", "daemon"}
  /\ Asserts \in BOOLEAN

VARIABLES
  link,     \* transport of each connection: up, down (hung up), gone (freed)
  active,   \* connections that have a unique name (d->name # NULL)
  owners,   \* service->owners of each name; <<>>: no such service
  owned,    \* d->services_owned of each connection
  pending,  \* entries of the pending activation of each name
  child,    \* names whose activated program has a live babysitter
  phase,
  job,      \* the handler that runs: why, by whom, names left to fail
  todo,     \* its function calls, the next one first
  msgs,     \* messages its transaction holds
  hooks,    \* cancel hooks of its transaction, the last added first
  oom,      \* allocations that can still fail
  told,     \* names each client was told it owns (NameAcquired, NameLost)
  watched,  \* owner of each name according to NameOwnerChanged
  calls,    \* the activation each client waits for
  before    \* owners when the transaction began (history)

busVars  == <<link, active, owners, owned, pending, child>>
txnVars  == <<phase, job, todo, msgs, hooks>>
seenVars == <<told, watched, calls>>
vars     == <<busVars, txnVars, oom, seenVars, before>>

-----------------------------------------------------------------------------
(* Queues of owners. *)

Owner == [conn : Conn, allow : BOOLEAN, noqueue : BOOLEAN]

OwnerOf(c, f) == [conn |-> c, allow |-> f.allow, noqueue |-> f.noqueue]

Place(q, c) == CHOOSE i \in DOMAIN q : q[i].conn = c

QueuedFaulty(q, c) == q # <<>> /\ q[1].conn = c

Queued(q, c) == \E i \in DOMAIN q : q[i].conn = c

Without(q, c) == IF Queued(q, c) THEN RemoveAt(q, Place(q, c)) ELSE q

(* _dbus_list_insert_after the first link; an empty list has none. *)
SecondIn(q, o) == IF q = <<>> THEN <<o>> ELSE InsertAt(q, 2, o)

Primary(n) == IF owners[n] = <<>> THEN NoOne ELSE owners[n][1].conn

(* _dbus_list_remove_last on d->services_owned. *)
DisownedFaulty(s, n) == s

LastAt(s, n, i) == s[i] = n /\ \A j \in DOMAIN s : s[j] = n => j <= i

Disowned(s, n) ==
  IF \E i \in DOMAIN s : LastAt(s, n, i)
    THEN RemoveAt(s, CHOOSE i \in DOMAIN s : LastAt(s, n, i))
    ELSE s

-----------------------------------------------------------------------------
(* Messages.  to = NoOne stands for every client with a matching rule in   *)
(* "changed", and for the reply tracking of the daemon in "handover".      *)

Acquired(c, n)      == [kind |-> "acquired", to |-> c, name |-> n]
Lost(c, n)          == [kind |-> "lost", to |-> c, name |-> n]
Changed(n, o, w)    == [kind |-> "changed", to |-> NoOne, name |-> n, old |-> o, new |-> w]
Reply(c, n, r)      == [kind |-> "reply", to |-> c, name |-> n, result |-> r]
Failure(c)          == [kind |-> "error", to |-> c]
Answer(c, n)        == [kind |-> "answer", to |-> c, name |-> n]
Handover(c, n)      == [kind |-> "handover", to |-> NoOne, from |-> c, name |-> n]

Result == {"welcome", "primary", "queued", "exists", "already",
           "released", "nonexistent", "notowner"}

Message ==
       {Acquired(c, n) : c \in Conn, n \in AnyName}
  \cup {Lost(c, n) : c \in Conn, n \in AnyName}
  \cup {Changed(n, o, w) : n \in AnyName, o \in Conn \cup {NoOne}, w \in Conn \cup {NoOne}}
  \cup {Reply(c, n, r) : c \in Conn, n \in AnyName, r \in Result}
  \cup {Failure(c) : c \in Conn}
  \cup {Answer(c, n) : c \in Conn, n \in Name}
  \cup {Handover(c, n) : c \in Conn, n \in Name}

-----------------------------------------------------------------------------
(* Function calls a handler still has to make. *)

Entry == [conn : Conn, auto : BOOLEAN]

Send(m)            == [call |-> "send", msg |-> m]
LinkOwner(n, c, f) == [call |-> "link_owner", name |-> n, conn |-> c, flags |-> f]
SetFlags(n, c, f)  == [call |-> "set_flags", name |-> n, conn |-> c, flags |-> f]
RemoveOwner(n, c)  == [call |-> "remove_owner", name |-> n, conn |-> c]
UnlinkOwner(n, o)  == [call |-> "unlink_owner", name |-> n, owner |-> o]
SwapOwner(n, c)    == [call |-> "swap_owner", name |-> n, conn |-> c]
SwapLinks(n, o)    == [call |-> "swap_links", name |-> n, owner |-> o]
Notify(n, e)       == [call |-> "notify", name |-> n, entry |-> e]
SendHeld(n)        == [call |-> "send_held", name |-> n]
Dispatch(n, e)     == [call |-> "dispatch", name |-> n, entry |-> e]
Forget(n)          == [call |-> "forget", name |-> n]
Register(n, c, a)  == [call |-> "register", name |-> n, conn |-> c, auto |-> a]
Spawn(n)           == [call |-> "spawn", name |-> n]
Complete(c)        == [call |-> "complete", conn |-> c]
Drop(n)            == [call |-> "drop", name |-> n]

Call ==
       {Send(m) : m \in Message}
  \cup {LinkOwner(n, c, f) : n \in AnyName, c \in Conn, f \in AllFlags}
  \cup {SetFlags(n, c, f) : n \in AnyName, c \in Conn, f \in AllFlags}
  \cup {RemoveOwner(n, c) : n \in AnyName, c \in Conn}
  \cup {UnlinkOwner(n, o) : n \in AnyName, o \in Owner}
  \cup {SwapOwner(n, c) : n \in AnyName, c \in Conn}
  \cup {SwapLinks(n, o) : n \in AnyName, o \in Owner}
  \cup {Notify(n, e) : n \in Name, e \in Entry}
  \cup {SendHeld(n) : n \in Name}
  \cup {Dispatch(n, e) : n \in Name, e \in Entry}
  \cup {Forget(n) : n \in Name}
  \cup {Register(n, c, a) : n \in Name, c \in Conn, a \in BOOLEAN}
  \cup {Spawn(n) : n \in Name}
  \cup {Complete(c) : c \in Conn}
  \cup {Drop(n) : n \in Name}

(* The next call, and its replacement by the calls it makes. *)
Top == Head(todo)

Calling(f) == /\ phase = "run"
              /\ todo # <<>>
              /\ Top.call = f

Return    == todo' = Tail(todo)
Make(s)   == todo' = s \o Tail(todo)

-----------------------------------------------------------------------------
(* Cancel hooks. *)

CancelOwnership(n, c)     == [hook |-> "cancel_ownership", name |-> n, conn |-> c]
RestoreOwnership(n, o, i) == [hook |-> "restore_ownership", name |-> n, owner |-> o, at |-> i]
CancelPending(n)          == [hook |-> "cancel_pending", name |-> n]
RestorePending(n, es, k)  == [hook |-> "restore_pending", name |-> n, entries |-> es, alive |-> k]

Hook ==
       {CancelOwnership(n, c) : n \in AnyName, c \in Conn}
  \cup [hook : {"restore_ownership"}, name : AnyName, owner : Owner, at : {1, 2}]
  \cup {CancelPending(n) : n \in Name}
  \cup [hook : {"restore_pending"}, name : Name, entries : Seq(Entry), alive : BOOLEAN]

-----------------------------------------------------------------------------
(* The types, and the daemon before any client said Hello. *)

NoJob == [why |-> "none", by |-> NoOne, left |-> {}]

Job == [why : {"request", "call", "disconnect"}, by : Conn, left : {{}}]
         \cup [why : {"expire"}, by : Name, left : SUBSET Name]
         \cup {NoJob}

(* Type correctness of everything the daemon and its clients keep. *)
TypeOK ==
  /\ link \in [Conn -> {"up", "down", "gone"}]
  /\ active \subseteq Conn
  /\ owners \in [AnyName -> Seq(Owner)]
  /\ owned \in [Conn -> Seq(AnyName)]
  /\ pending \in [Name -> Seq(Entry)]
  /\ child \subseteq Name
  /\ phase \in {"idle", "run", "cancel", "round", "abort", "fault"}
  /\ job \in Job
  /\ todo \in Seq(Call)
  /\ msgs \in Seq(Message)
  /\ hooks \in Seq(Hook)
  /\ oom \in 0..MaxOom
  /\ told \in [Conn -> SUBSET AnyName]
  /\ watched \in [AnyName -> Conn \cup {NoOne}]
  /\ calls \in [Conn -> Name \cup {NoOne}]
  /\ before \in [AnyName -> Seq(Owner)]

Init ==
  /\ link = [c \in Conn |-> "up"]
  /\ active = {}
  /\ owners = [n \in AnyName |-> <<>>]
  /\ owned = [c \in Conn |-> <<>>]
  /\ pending = [n \in Name |-> <<>>]
  /\ child = {}
  /\ phase = "idle"
  /\ job = NoJob
  /\ todo = <<>>
  /\ msgs = <<>>
  /\ hooks = <<>>
  /\ oom = MaxOom
  /\ told = [c \in Conn |-> {}]
  /\ watched = [n \in AnyName |-> NoOne]
  /\ calls = [c \in Conn |-> NoOne]
  /\ before = owners

=============================================================================
