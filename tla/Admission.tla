----------------------------- MODULE Admission -----------------------------
(***************************************************************************)
(* How the bus lets clients in (bus/connection.c, bus/driver.c, the main     *)
(* loop they run under, dbus/dbus-mainloop.c, and the listening sockets,      *)
(* dbus/dbus-server-socket.c): a new connection is incomplete until its       *)
(* Hello is answered; there are limits on incomplete connections, on          *)
(* completed ones and on those of one user; an incomplete connection that     *)
(* stays too long is closed; a Hello gives out a unique name.                 *)
(*                                                                         *)
(* One iteration of the main loop goes through three phases: the timeout,    *)
(* the watches that are ready, and the dispatching of everything that was     *)
(* read.  Closing or accepting a connection changes the list of watches, and  *)
(* the rest of the watches must then wait for the next iteration.             *)
(*                                                                         *)
(* Times are kept as ages, which stop counting at the authentication timeout. *)
(***************************************************************************)
EXTENDS Integers, Sequences, SequencesExt, FiniteSets, FiniteSetsExt

CONSTANTS
    Connections,    \* places for connections; a place is used again
    Users,          \* the users that clients run as
    Anonymous,      \* a client whose user is not known
    AuthTimeout,    \* auth_timeout
    MaxIncomplete,  \* max_incomplete_connections
    MaxCompleted,   \* max_completed_connections
    MaxPerUser,     \* max_connections_per_user
    MaxInt,         \* the largest int
    MaxMajor,       \* bound: no Hello is sent when the names have got here
    MaxShortages    \* bound: how often memory runs out

ASSUME LimitsAssumption ==
    /\ IsFiniteSet(Connections)
    /\ AuthTimeout \in Nat \ {0}
    /\ {MaxIncomplete, MaxCompleted, MaxPerUser, MaxInt} \subseteq Nat \ {0}
    /\ Anonymous \notin Users

VARIABLES
    conn,       \* BusConnectionData, and the connection's incoming queue
    incomplete, \* BusConnections.incomplete, oldest first
    byUser,     \* completed_by_user
    next,       \* next_major_number and next_minor_number
    timer,      \* the interval of expire_timeout and the time since it last fired
    phase,      \* where the main loop is
    used,       \* history: every name that was ever given to a client
    given,      \* history: how many clients were given one
    shortages   \* how often memory ran out

vars == <<conn, incomplete, byUser, next, timer, phase, used, given, shortages>>

Off == -1

Free == [state |-> "free", open |-> FALSE, age |-> 0, user |-> Anonymous,
         incoming |-> <<>>]

Completed == {c \in Connections : conn[c].state = "completed"}

CompletedOf(u) == {c \in Completed : conn[c].user = u}

\* _dbus_list_unlink() of the connection's link in the list.
Unlinked(list, c) ==
    IF \E i \in 1..Len(list) : list[i] = c
    THEN RemoveAt(list, CHOOSE i \in 1..Len(list) : list[i] = c)
    ELSE list

-----------------------------------------------------------------------------
(* Expiring what is incomplete. *)

\* bus_connections_expire_incomplete(): the overdue ones at the head of the
\* list are closed, the timeout is for the first one that is not overdue.
Overdue(all, list) ==
    LET young == {i \in 1..Len(list) : all[list[i]].age < AuthTimeout}
        end == IF young = {} THEN Len(list) ELSE Min(young) - 1
    IN  {list[i] : i \in 1..end}

\* A plausible slip: the timeout is for the oldest, overdue or not, and
\* nobody is waited for when that one is overdue.
NextIntervalFaulty(all, list) ==
    IF list = <<>> \/ all[list[1]].age = AuthTimeout THEN Off
    ELSE AuthTimeout - all[list[1]].age

NextInterval(all, list) ==
    LET young == SelectSeq(list, LAMBDA c : all[c].age < AuthTimeout)
    IN  IF young = <<>> THEN Off ELSE AuthTimeout - all[young[1]].age

\* dbus_connection_close(): nothing more is read or written, what was read
\* is still to be dispatched.
Close(all, closed) ==
    [c \in Connections |->
        IF c \in closed THEN [all[c] EXCEPT !.open = FALSE] ELSE all[c]]

ExpireIncomplete(all, list) ==
    /\ conn' = Close(all, Overdue(all, list))
    /\ timer' = [timer EXCEPT !.interval = NextInterval(all, list)]

-----------------------------------------------------------------------------
(* The main loop. *)

Due == timer.interval # Off /\ timer.since >= timer.interval

NeedsDispatch(c) ==
    \/ conn[c].incoming # <<>>
    \/ conn[c].state # "free" /\ ~conn[c].open

\* expire_incomplete_timeout().  When it closes somebody, that ends the pass.
\* The loop measures an interval from the last time the timeout fired.
Timeout ==
    /\ phase = "poll" /\ Due
    /\ conn' = Close(conn, Overdue(conn, incomplete))
    /\ timer' = [interval |-> NextInterval(conn, incomplete), since |-> 0]
    /\ phase' = IF \E c \in Overdue(conn, incomplete) : conn[c].open
                THEN "dispatch" ELSE "watches"
    /\ UNCHANGED <<incomplete, byUser, next, used, given, shortages>>

\* No timeout is due.  The wait ends when a watch is ready, or for no reason.
Poll ==
    /\ phase = "poll" /\ ~Due
    /\ phase' = "watches"
    /\ UNCHANGED <<conn, incomplete, byUser, next, timer, used, given, shortages>>

\* What can be read from a client at once: a message to somebody else may
\* come before or after its Hello, and so may another Hello.
Batches == {<<"Hello">>, <<"Other">>, <<"Hello", "Hello">>, <<"Other", "Hello">>}

\* The socket of a client is readable, and the loop gets to it.
ReadClient(c, batch) ==
    /\ phase = "watches" /\ conn[c].open /\ conn[c].incoming = <<>>
    /\ next.major <= MaxMajor
    /\ conn' = [conn EXCEPT ![c].incoming = batch]
    /\ UNCHANGED <<incomplete, byUser, next, timer, phase, used, given, shortages>>

\* The client has hung up: its watches go, which ends the pass.
ReadHangUp(c) ==
    /\ phase = "watches" /\ conn[c].open
    /\ conn' = Close(conn, {c})
    /\ phase' = "dispatch"
    /\ UNCHANGED <<incomplete, byUser, next, timer, used, given, shortages>>

\* Every watch that was ready had its turn.
EndOfWatches ==
    /\ phase = "watches"
    /\ phase' = "dispatch"
    /\ UNCHANGED <<conn, incomplete, byUser, next, timer, used, given, shortages>>

\* _dbus_loop_dispatch() goes on until nobody needs it.
EndOfIteration ==
    /\ phase = "dispatch" /\ \A c \in Connections : ~NeedsDispatch(c)
    /\ phase' = "poll"
    /\ UNCHANGED <<conn, incomplete, byUser, next, timer, used, given, shortages>>

-----------------------------------------------------------------------------
(* Accepting. *)

Arrived(c, u) == [conn EXCEPT ![c] =
    [Free EXCEPT !.state = "incomplete", !.open = TRUE, !.user = u]]

\* bus_connections_setup_connection(): who is overdue is closed, then the
\* oldest if there are too many, even if that one has just been closed.
SetupConnection(c, u) ==
    LET list == Append(incomplete, c)
        overdue == Overdue(Arrived(c, u), list)
        surplus == IF Len(list) > MaxIncomplete THEN {list[1]} ELSE {}
    IN  /\ conn' = Close(Arrived(c, u), overdue \union surplus)
        /\ timer' = [timer EXCEPT !.interval = NextInterval(Arrived(c, u), list)]
        /\ incomplete' = list
        /\ UNCHANGED <<byUser, next, used, given, shortages>>

\* A plausible slip: the loop goes on with its other listening sockets.
AcceptFaulty(c, u) ==
    /\ phase = "watches" /\ conn[c] = Free
    /\ SetupConnection(c, u)
    /\ UNCHANGED phase

\* A listening socket takes one client, whose watches end the pass.
Accept(c, u) ==
    /\ phase = "watches" /\ conn[c] = Free
    /\ SetupConnection(c, u)
    /\ phase' = "dispatch"

\* Memory runs out while the connection is set up: it is closed at once.
AcceptNoMemory ==
    /\ phase = "watches" /\ shortages < MaxShortages
    /\ phase' = "dispatch"
    /\ shortages' = shortages + 1
    /\ UNCHANGED <<conn, incomplete, byUser, next, timer, used, given>>

-----------------------------------------------------------------------------
(* Hello. *)

\* An int that grows past the largest becomes the smallest.
Wrapped(n) == IF n > MaxInt THEN n - 2 * (MaxInt + 1) ELSE n

\* A plausible slip: only the very first name starts a new major number.
UniqueNameFaulty == IF next.minor <= 0 THEN <<1, 0>> ELSE <<next.major, next.minor>>

\* create_unique_client_name(): the numbers for the next client.  The
\* registry has no such name yet: it gets its unique names from here.
UniqueName ==
    IF next.minor <= 0 THEN <<next.major + 1, 0>> ELSE <<next.major, next.minor>>

Numbered == next' = [major |-> UniqueName[1], minor |-> Wrapped(UniqueName[2] + 1)]

\* bus_connections_check_limits()
CheckLimits(c) ==
    /\ Cardinality(Completed) < MaxCompleted
    /\ conn[c].user # Anonymous => byUser[conn[c].user] < MaxPerUser

\* adjust_connections_for_uid(), where the user is known
Adjust(c, by) ==
    byUser' = [u \in Users |-> IF u = conn[c].user THEN byUser[u] + by ELSE byUser[u]]

Dispatching(c, message) ==
    /\ phase = "dispatch"
    /\ conn[c].incoming # <<>> /\ Head(conn[c].incoming) = message

Taken(c) == [conn EXCEPT ![c].incoming = Tail(@)]

\* The Hello is refused: there was one before, or there are too many.
HelloRefused(c) ==
    /\ Dispatching(c, "Hello")
    /\ conn[c].state = "completed" \/ ~CheckLimits(c)
    /\ conn' = Taken(c)
    /\ UNCHANGED <<incomplete, byUser, next, timer, phase, used, given, shortages>>

Welcome(c) == Dispatching(c, "Hello") /\ conn[c].state = "incomplete" /\ CheckLimits(c)

\* bus_driver_handle_hello() and bus_connection_complete(): the connection is
\* counted, changes its list, and the rest of the old list is looked at again.
\* It does not matter to these whether it is still open, nor to the lists
\* whether memory then runs out for the answer.
Hello(c) ==
    /\ Welcome(c)
    /\ Numbered
    /\ Adjust(c, 1)
    /\ incomplete' = Unlinked(incomplete, c)
    /\ ExpireIncomplete([Taken(c) EXCEPT ![c].state = "completed", ![c].age = 0],
                        Unlinked(incomplete, c))
    /\ used' = used \union {UniqueName}
    /\ given' = given + 1
    /\ UNCHANGED <<phase, shortages>>

\* Memory runs out before the number is used up, although the major one may
\* have been increased; before the connection is counted; or after.  A count
\* is not taken back.
HelloNoMemory(c) ==
    /\ Welcome(c) /\ shortages < MaxShortages
    /\ \/ /\ next' = [major |-> UniqueName[1], minor |-> UniqueName[2]]
          /\ UNCHANGED byUser
       \/ Numbered /\ UNCHANGED byUser
       \/ Numbered /\ Adjust(c, 1)
    /\ conn' = Taken(c)
    /\ shortages' = shortages + 1
    /\ UNCHANGED <<incomplete, timer, phase, used, given>>

\* A message to somebody else.  Who is not registered is closed for it.
Other(c) ==
    /\ Dispatching(c, "Other")
    /\ conn' = IF conn[c].state = "incomplete" THEN Close(Taken(c), {c}) ELSE Taken(c)
    /\ UNCHANGED <<incomplete, byUser, next, timer, phase, used, given, shortages>>

\* A plausible slip: nobody asks whether it had been counted.
DisconnectedFaulty(c) ==
    /\ phase = "dispatch" /\ conn[c].incoming = <<>>
    /\ conn[c].state # "free" /\ ~conn[c].open
    /\ incomplete' = Unlinked(incomplete, c)
    /\ Adjust(c, -1)
    /\ conn' = [conn EXCEPT ![c] = Free]
    /\ UNCHANGED <<next, timer, phase, used, given, shortages>>

\* bus_connection_disconnected(), when all that was read is dispatched.
Disconnected(c) ==
    /\ phase = "dispatch" /\ conn[c].incoming = <<>>
    /\ conn[c].state # "free" /\ ~conn[c].open
    /\ incomplete' = Unlinked(incomplete, c)
    /\ IF conn[c].state = "completed" THEN Adjust(c, -1) ELSE UNCHANGED byUser
    /\ conn' = [conn EXCEPT ![c] = Free]
    /\ UNCHANGED <<next, timer, phase, used, given, shortages>>

-----------------------------------------------------------------------------
(* Time. *)

Older(t) == IF t < AuthTimeout THEN t + 1 ELSE t

Tick ==
    /\ conn' = [c \in Connections |->
            IF conn[c].state = "incomplete" THEN [conn[c] EXCEPT !.age = Older(@)] ELSE conn[c]]
    /\ timer' = [timer EXCEPT !.since = Older(@)]
    /\ UNCHANGED <<incomplete, byUser, next, phase, used, given, shortages>>

-----------------------------------------------------------------------------

Init ==
    /\ conn = [c \in Connections |-> Free]
    /\ incomplete = <<>>
    /\ byUser = [u \in Users |-> 0]
    /\ next = [major |-> 0, minor |-> 0]
    /\ timer = [interval |-> Off, since |-> 0]
    /\ phase = "poll"
    /\ used = {}
    /\ given = 0
    /\ shortages = 0

Iterate ==
    \/ Timeout \/ Poll \/ EndOfWatches \/ EndOfIteration \/ AcceptNoMemory
    \/ \E c \in Connections :
        \/ \E batch \in Batches : ReadClient(c, batch)
        \/ ReadHangUp(c)
        \/ \E u \in Users \union {Anonymous} : Accept(c, u)
        \/ HelloRefused(c) \/ Hello(c) \/ HelloNoMemory(c)
        \/ Other(c) \/ Disconnected(c)

Next == Iterate \/ Tick

\* The main loop goes on, and so does time.
Spec == Init /\ [][Next]_vars /\ WF_vars(Iterate) /\ WF_vars(Tick)

-----------------------------------------------------------------------------
(* Properties. *)

(***************************************************************************)
(* completed_by_user is the number of completed connections of each user,   *)
(* however they were closed, by whom, and with what still to be dispatched, *)
(* as long as no Hello ran out of memory half way.  With too high a count   *)
(* a user would be locked out for good, with too low a one not limited.     *)
(***************************************************************************)
UserCountsExact ==
    shortages = 0 => \A u \in Users : byUser[u] = Cardinality(CompletedOf(u))

(***************************************************************************)
(* The limits of the configuration file hold of the connections there are:  *)
(* on those completed, on those of a user, and, whenever the main loop      *)
(* waits, on those incomplete, although only one is dropped for each new    *)
(* one and that one may have been closed before.                            *)
(***************************************************************************)
LimitsHold ==
    /\ Cardinality(Completed) <= MaxCompleted
    /\ \A u \in Users : Cardinality(CompletedOf(u)) <= MaxPerUser
    /\ phase = "poll" => Len(incomplete) <= MaxIncomplete

(***************************************************************************)
(* A unique name is never given twice, not to a client that comes when the   *)
(* first one has gone, nor when the minor number has run over, nor after a   *)
(* Hello that failed ("we never want to use the same unique client name      *)
(* twice", create_unique_client_name).                                       *)
(***************************************************************************)
NamesNeverReused == Cardinality(used) = given

(***************************************************************************)
(* No connection stays incomplete for ever: it completes, or it is dropped   *)
(* in the end by the authentication timeout (how late, is not said), although *)
(* the timeout is only ever set for one of them, is not looked at when one of *)
(* them goes, and new clients that come in every iteration may keep its       *)
(* socket from being read.                                                    *)
(***************************************************************************)
EveryConnectionSettles ==
    \A c \in Connections :
        conn[c].state = "incomplete" ~> conn[c].state # "incomplete"
=============================================================================
