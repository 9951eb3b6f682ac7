------------------------------ MODULE Dispatch ------------------------------
(***************************************************************************)
(* The daemon's main loop: clients come and go, their requests are         *)
(* dispatched one at a time (bus/dispatch.c), each handler runs to its end *)
(* and its transaction is executed or cancelled.                           *)
(***************************************************************************)
EXTENDS Activation

(* The transport of a client fails.  The daemon notices between two
   handlers, or when it writes to the client. *)
HangUp(c) ==
  /\ Idle \/ Executing
  /\ link[c] = "up"
  /\ link' = [link EXCEPT ![c] = "down"]
  /\ UNCHANGED <<active, owners, owned, pending, child, txnVars, oom, seenVars, before>>

DisconnectedFaulty(c) ==
  /\ Idle /\ link[c] = "down" /\ c \in active
  /\ phase' = "round"
  /\ job' = [why |-> "disconnect", by |-> c, left |-> {}]
  /\ UNCHANGED <<busVars, todo, msgs, hooks, oom, seenVars, before>>

(* bus_connection_disconnected: one transaction for each name the client
   owns or waits for, the last on its list first. *)
Disconnected(c) ==
  /\ Idle /\ link[c] = "down"
  /\ phase' = "round"
  /\ job' = [why |-> "disconnect", by |-> c, left |-> {}]
  /\ UNCHANGED <<busVars, todo, msgs, hooks, oom, seenVars, before>>

DropLastName ==
  /\ phase = "round" /\ job.why = "disconnect"
  /\ owned[job.by] # <<>>
  /\ Begin("disconnect", job.by, {}, <<RemoveOwner(Last(owned[job.by]), job.by)>>)
  /\ UNCHANGED <<busVars, oom, seenVars>>

ForgetClientFaulty ==
  /\ phase = "round" /\ job.why = "disconnect"
  /\ owned[job.by] = <<>> \/ Len(owned[job.by]) > 1
  /\ link' = [link EXCEPT ![job.by] = "gone"]
  /\ Rest
  /\ UNCHANGED <<active, owners, owned, pending, child, todo, msgs, hooks,
                 oom, seenVars>>

ForgetClient ==
  /\ phase = "round" /\ job.why = "disconnect"
  /\ owned[job.by] = <<>>
  /\ link' = [link EXCEPT ![job.by] = "gone"]
  /\ Rest
  /\ UNCHANGED <<active, owners, owned, pending, child, todo, msgs, hooks,
                 oom, seenVars>>

-----------------------------------------------------------------------------

(* What clients and programs do. *)
Outside ==
  \/ \E c \in Conn : Hello(c) \/ HangUp(c)
  \/ \E c \in Conn, n \in Name :
       \/ \E f \in Flags : RequestName(c, n, f)
       \/ ReleaseName(c, n)
       \/ \E auto \in BOOLEAN : Activate(c, n, auto)
  \/ \E n \in Name : ChildFails(n) \/ ChildExits(n)

(* What the daemon does by itself once a handler has begun. *)
Handler ==
  \/ SendMessage \/ RegistryCall \/ ActivationCall
  \/ DeliverMessage \/ FreeHook \/ EndExecute
  \/ UndoAddOwner \/ UndoRemoveOwner \/ UndoActivate \/ UndoForget \/ EndCancel
  \/ DropLastName \/ ForgetClient \/ FailNext \/ FailedAll

Next ==
  \/ Outside
  \/ \E c \in Conn : Disconnected(c)
  \/ \E n \in Name : TimeOut(n)
  \/ Handler
  \/ OutOfMemory

Spec == Init /\ [][Next]_vars

(* A handler that has begun runs on: the daemon has one thread and waits for
   nothing inside it.  The main loop dispatches every connection and checks
   every timeout in each iteration, so a Disconnected message or a timeout
   that is due again and again between two handlers is handled. *)
Fairness ==
  /\ WF_vars(Handler)
  /\ \A c \in Conn : SF_vars(Disconnected(c))
  /\ \A n \in Name : SF_vars(TimeOut(n))

FairSpec == Spec /\ Fairness

=============================================================================
