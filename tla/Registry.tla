------------------------------ MODULE Registry ------------------------------
(***************************************************************************)
(* The registry of bus names (bus/services.c) and the driver methods that  *)
(* change it: Hello, RequestName, ReleaseName (bus/driver.c).              *)
(*                                                                         *)
(* Each name has a queue of owners; the first is the primary owner.  An    *)
(* operation announces a change (NameLost, NameOwnerChanged, NameAcquired) *)
(* in its transaction before it changes the queue.                         *)
(***************************************************************************)
EXTENDS Transaction

(* bus_activation_service_created: the StartServiceByName calls that wait
   for a name are answered when it appears. *)
StartedFaulty(n) == [i \in DOMAIN pending[n] |-> Send(Answer(pending[n][i].conn, n))]

Started(n) == [i \in DOMAIN pending[n] |-> Notify(n, pending[n][i])]

(* bus_service_add_owner. *)
AddOwner(n, c, f) ==
  (IF owners[n] = <<>> THEN <<Send(Acquired(c, n))>> ELSE <<>>) \o <<LinkOwner(n, c, f)>>

(* bus_registry_ensure.  The slot in the hash of services is allocated with
   the owner. *)
Ensure(n, c, f) ==
  IF owners[n] # <<>> THEN <<>>
  ELSE <<Send(Changed(n, NoOne, c))>>
         \o (IF n \in Name THEN Started(n) ELSE <<>>)
         \o AddOwner(n, c, f)

-----------------------------------------------------------------------------
(* bus_registry_acquire_service.  What a RequestName call comes to. *)

MayReplace(n, f) == f.replace /\ owners[n][1].allow

Outcome(c, n, f) ==
  IF owners[n] = <<>>      THEN "primary"
  ELSE IF Primary(n) = c   THEN "already"
  ELSE IF MayReplace(n, f) THEN "replaced"
  ELSE IF f.noqueue        THEN "exists"
  ELSE                          "queued"

(* A client that does not want to wait leaves the queue. *)
DeclineFaulty(c, n) == <<>>

Decline(c, n) == IF Queued(owners[n], c) THEN <<RemoveOwner(n, c)>> ELSE <<>>

(* The replaced owner waits, unless it does not want to. *)
Dethrone(n) ==
  IF owners[n][1].noqueue THEN <<RemoveOwner(n, Primary(n))>> ELSE <<SwapOwner(n, Primary(n))>>

(* The calls each outcome makes. *)
OutcomeCalls(c, n, f) ==
  CASE Outcome(c, n, f) = "primary"  -> Ensure(n, c, f)
    [] Outcome(c, n, f) = "already"  -> <<SetFlags(n, c, f)>>
    [] Outcome(c, n, f) = "exists"   -> Decline(c, n)
    [] Outcome(c, n, f) = "queued"   -> AddOwner(n, c, f)
    [] Outcome(c, n, f) = "replaced" -> AddOwner(n, c, f) \o Dethrone(n)

OutcomeResult(c, n, f) ==
  IF Outcome(c, n, f) = "replaced" THEN "primary" ELSE Outcome(c, n, f)

MayAcquireFaulty(c, n) == <<c, n>> \in MayOwn

MayAcquire(c, n) ==
  /\ <<c, n>> \in MayOwn
  /\ Len(owned[c]) < MaxServices

AcquireService(c, n, f) ==
  IF MayAcquire(c, n)
    THEN OutcomeCalls(c, n, f)
           \o <<SendHeld(n), Send(Reply(c, n, OutcomeResult(c, n, f)))>>
    ELSE <<Send(Failure(c))>>

(* bus_registry_release_service. *)
ReleaseService(c, n) ==
  IF owners[n] = <<>>          THEN <<Send(Reply(c, n, "nonexistent"))>>
  ELSE IF ~Queued(owners[n], c) THEN <<Send(Reply(c, n, "notowner"))>>
  ELSE <<RemoveOwner(n, c), Send(Reply(c, n, "released"))>>

-----------------------------------------------------------------------------
(* The driver methods.  The messages of a client that hung up are handled
   like the others until its Disconnected message is. *)

Speaks(c) == Idle /\ link[c] \in {"up", "down"}

(* The unique name and the welcome reply, then the service of that name. *)
Hello(c) ==
  /\ Speaks(c) /\ c \notin active
  /\ Begin("request", c, {},
           <<Complete(c), Send(Reply(c, c, "welcome"))>>
             \o Ensure(c, c, [allow |-> FALSE, noqueue |-> FALSE, replace |-> FALSE]))
  /\ UNCHANGED <<busVars, oom, seenVars>>

RequestName(c, n, f) ==
  /\ Speaks(c) /\ c \in active
  /\ Begin("request", c, {}, AcquireService(c, n, f))
  /\ UNCHANGED <<busVars, oom, seenVars>>

ReleaseName(c, n) ==
  /\ Speaks(c) /\ c \in active
  /\ Begin("request", c, {}, ReleaseService(c, n))
  /\ UNCHANGED <<busVars, oom, seenVars>>

-----------------------------------------------------------------------------
(* The function calls. *)

unseen == <<link, pending, child, phase, job, oom, seenVars, before>>

(* The reply to a StartServiceByName call, none for a held message. *)
NotifyStarted ==
  /\ Calling("notify")
  /\ msgs' = IF ~Top.entry.auto /\ Connected(Top.entry.conn)
                THEN Append(msgs, Answer(Top.entry.conn, Top.name)) ELSE msgs
  /\ Return
  /\ UNCHANGED <<active, owners, owned, hooks, unseen>>

(* bus_connection_complete. *)
CompleteConnection ==
  /\ Calling("complete")
  /\ active' = active \cup {Top.conn}
  /\ Return
  /\ UNCHANGED <<owners, owned, msgs, hooks, unseen>>

(* The end of bus_service_add_owner: a new owner waits at the end of the
   queue, or right behind the primary owner if it wants to replace it.  One
   that is in the queue already moves, but no hook is added. *)
LinkNewOwner ==
  /\ Calling("link_owner")
  /\ ~Queued(owners[Top.name], Top.conn)
  /\ LET q == owners[Top.name]
         o == OwnerOf(Top.conn, Top.flags)
     IN  owners' = [owners EXCEPT ![Top.name] =
           IF Top.flags.replace THEN SecondIn(q, o) ELSE Append(q, o)]
  /\ owned' = [owned EXCEPT ![Top.conn] = Append(@, Top.name)]
  /\ hooks' = <<CancelOwnership(Top.name, Top.conn)>> \o hooks
  /\ Return
  /\ UNCHANGED <<active, msgs, unseen>>

RelinkOwner ==
  /\ Calling("link_owner")
  /\ Queued(owners[Top.name], Top.conn)
  /\ LET q == owners[Top.name]
         o == OwnerOf(Top.conn, Top.flags)
     IN  owners' = [owners EXCEPT ![Top.name] =
           IF Top.flags.replace THEN SecondIn(Without(q, Top.conn), o)
                                ELSE [q EXCEPT ![Place(q, Top.conn)] = o]]
  /\ Return
  /\ UNCHANGED <<active, owned, msgs, hooks, unseen>>

(* bus_owner_set_flags on the primary owner. *)
SetOwnerFlags ==
  /\ Calling("set_flags")
  /\ owners' = [owners EXCEPT ![Top.name] =
       [owners[Top.name] EXCEPT ![1] = OwnerOf(Primary(Top.name), Top.flags)]]
  /\ Return
  /\ UNCHANGED <<active, owned, msgs, hooks, unseen>>

(* The next owner of a name that its primary owner leaves, and what is
   announced of it. *)
Heir(n) == IF Len(owners[n]) = 1 THEN NoOne ELSE owners[n][2].conn

SuccessionFaulty(n, c) == <<Send(Changed(n, c, Heir(n)))>>

Succession(n, c) ==
  <<Send(Changed(n, c, Heir(n)))>>
    \o (IF Heir(n) = NoOne THEN <<>> ELSE <<Send(Acquired(Heir(n), n))>>)

(* bus_service_remove_owner.  A connection that only waits leaves the queue
   at once, and no hook is added. *)
RemovePrimary ==
  /\ Calling("remove_owner")
  /\ Primary(Top.name) = Top.conn
  /\ Make(<<Send(Lost(Top.conn, Top.name))>> \o Succession(Top.name, Top.conn)
            \o <<UnlinkOwner(Top.name, owners[Top.name][1])>>)
  /\ UNCHANGED <<active, owners, owned, msgs, hooks, unseen>>

RemoveWaiting ==
  /\ Calling("remove_owner")
  /\ Primary(Top.name) # Top.conn
  /\ owners' = [owners EXCEPT ![Top.name] = Without(@, Top.conn)]
  /\ owned' = [owned EXCEPT ![Top.conn] = Disowned(@, Top.name)]
  /\ Return
  /\ UNCHANGED <<active, msgs, hooks, unseen>>

UnlinkPrimary ==
  /\ Calling("unlink_owner")
  /\ hooks' = <<RestoreOwnership(Top.name, Top.owner, 1)>> \o hooks
  /\ owners' = [owners EXCEPT ![Top.name] = Without(@, Top.owner.conn)]
  /\ Return
  /\ UNCHANGED <<active, owned, msgs, unseen>>

(* bus_service_swap_owner; an assertion guards that it is called for the
   primary owner. *)
SwapPrimary ==
  /\ Calling("swap_owner")
  /\ Primary(Top.name) = Top.conn
  /\ Make(<<Send(Lost(Top.conn, Top.name))>> \o Succession(Top.name, Top.conn)
            \o <<SwapLinks(Top.name, owners[Top.name][1])>>)
  /\ UNCHANGED <<active, owners, owned, msgs, hooks, unseen>>

SwappedFaulty(q) == IF q = <<>> THEN q ELSE Append(Tail(q), q[1])

Swapped(q) == IF q = <<>> THEN q ELSE SecondIn(Tail(q), q[1])

SwapFirstTwo ==
  /\ Calling("swap_links")
  /\ hooks' = <<RestoreOwnership(Top.name, Top.owner, 2)>> \o hooks
  /\ owners' = [owners EXCEPT ![Top.name] = Swapped(@)]
  /\ Return
  /\ UNCHANGED <<active, owned, msgs, unseen>>

RegistryCall ==
  \/ NotifyStarted \/ CompleteConnection
  \/ LinkNewOwner \/ RelinkOwner \/ SetOwnerFlags
  \/ RemovePrimary \/ RemoveWaiting \/ UnlinkPrimary
  \/ SwapPrimary \/ SwapFirstTwo

-----------------------------------------------------------------------------
(* The cancel hooks. *)

Cancelling(h) == phase = "cancel" /\ hooks # <<>> /\ Head(hooks).hook = h

(* cancel_ownership. *)
UndoAddOwnerFaulty ==
  /\ Cancelling("cancel_ownership")
  /\ hooks' = Tail(hooks)
  /\ UNCHANGED <<link, active, owners, owned, pending, child, phase, job, todo, msgs,
                 oom, seenVars, before>>

UndoAddOwner ==
  /\ Cancelling("cancel_ownership")
  /\ LET h == Head(hooks)
     IN  /\ owners' = [owners EXCEPT ![h.name] = Without(@, h.conn)]
         /\ owned' = [owned EXCEPT ![h.conn] = Disowned(@, h.name)]
  /\ hooks' = Tail(hooks)
  /\ UNCHANGED <<link, active, pending, child, phase, job, todo, msgs, oom, seenVars, before>>

(* restore_ownership.  The owner is linked where it was, with a second entry
   in services_owned, and then loses the reference the hook held: a removed
   owner is freed while the queue links it, a swapped one is linked twice.
   When the name has other owners an assertion fails first: the hash entry
   is always preallocated. *)
UndoRemoveOwner ==
  /\ Cancelling("restore_ownership")
  /\ LET h == Head(hooks)
         q == owners[h.name]
     IN  IF q # <<>> /\ Asserts
           THEN phase' = "abort" /\ UNCHANGED <<owners, owned>>
           ELSE /\ phase' = "fault"
                /\ owners' = [owners EXCEPT ![h.name] = InsertAt(q, 1, h.owner)]
                /\ owned' = IF h.at = 1 THEN owned
                            ELSE [owned EXCEPT ![h.owner.conn] = Append(@, h.name)]
  /\ UNCHANGED <<link, active, pending, child, job, todo, msgs, hooks, oom, seenVars, before>>

=============================================================================
