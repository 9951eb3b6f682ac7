----------------------------- MODULE Activation -----------------------------
(***************************************************************************)
(* Starting programs on demand (bus/activation.c).  A request to start a   *)
(* name, or a message to a name without owner that may start it, waits in  *)
(* a pending activation until the name gets an owner, the program fails or *)
(* a timeout expires.                                                      *)
(***************************************************************************)
EXTENDS Registry

(* n_pending_activations counts the entries of all pending activations. *)
PendingCount == Cardinality({p \in Name \X (1..MaxPending) : p[2] \in DOMAIN pending[p[1]]})

(* bus_activation_activate_service. *)
ActivateServiceFaulty(c, n, auto) ==
  IF PendingCount >= MaxPending \/ n \notin Activatable \/ (~auto /\ owners[n] # <<>>)
    THEN <<Send(Answer(c, n))>>
  ELSE IF pending[n] = <<>> THEN <<Register(n, c, auto), Spawn(n)>> ELSE <<>>

ActivateService(c, n, auto) ==
  IF PendingCount >= MaxPending \/ n \notin Activatable \/ (~auto /\ owners[n] # <<>>)
    THEN <<Send(Answer(c, n))>>
  ELSE <<Register(n, c, auto)>> \o (IF pending[n] = <<>> THEN <<Spawn(n)>> ELSE <<>>)

(* StartServiceByName, and bus_dispatch for a message to a name that has no
   owner.  A client waits for one activation at a time. *)
Activate(c, n, auto) ==
  /\ Speaks(c) /\ c \in active
  /\ calls[c] = NoOne
  /\ auto => owners[n] = <<>>
  /\ calls' = [calls EXCEPT ![c] = n]
  /\ Begin("call", c, {}, ActivateService(c, n, auto))
  /\ UNCHANGED <<busVars, oom, told, watched>>

-----------------------------------------------------------------------------
(* The function calls. *)

registered == <<link, active, owners, owned, oom, seenVars, before>>

RegisterEntry ==
  /\ Calling("register")
  /\ pending' = [pending EXCEPT ![Top.name] = Append(@, [conn |-> Top.conn, auto |-> Top.auto])]
  /\ hooks' = <<CancelPending(Top.name)>> \o hooks
  /\ Return
  /\ UNCHANGED <<child, phase, job, msgs, registered>>

SpawnProgram ==
  /\ Calling("spawn")
  /\ child' = child \cup {Top.name}
  /\ Return
  /\ UNCHANGED <<pending, phase, job, msgs, hooks, registered>>

(* A command that cannot be parsed ends the activation at once. *)
SpawnParseError ==
  /\ Calling("spawn") /\ "parse" \in SpawnErrors
  /\ pending' = [pending EXCEPT ![Top.name] = <<>>]
  /\ Raise
  /\ UNCHANGED <<child, phase, job, msgs, hooks, registered>>

(* A program that cannot be started leaves it in the table. *)
SpawnForkError ==
  /\ Calling("spawn") /\ "fork" \in SpawnErrors
  /\ Raise
  /\ UNCHANGED <<pending, child, phase, job, msgs, hooks, registered>>

(* bus_activation_send_pending_auto_activation_messages: the held messages
   go to the primary owner, then the pending activation is over. *)
Held(n) == [i \in DOMAIN pending[n] |-> Dispatch(n, pending[n][i])]

SendHeldMessages ==
  /\ Calling("send_held")
  /\ Make(IF pending[Top.name] = <<>> THEN <<>> ELSE Held(Top.name) \o <<Forget(Top.name)>>)
  /\ UNCHANGED <<pending, child, phase, job, msgs, hooks, registered>>

Permitted(c, n) == <<c, Primary(n)>> \notin Denied

IsHeld(e) == e.auto /\ Connected(e.conn)

DispatchHeld ==
  /\ Calling("dispatch")
  /\ IsHeld(Top.entry) => Permitted(Top.entry.conn, Top.name)
  /\ msgs' = IF IsHeld(Top.entry) THEN Append(msgs, Handover(Top.entry.conn, Top.name)) ELSE msgs
  /\ Return
  /\ UNCHANGED <<pending, child, phase, job, hooks, registered>>

RejectHeld ==
  /\ Calling("dispatch")
  /\ IsHeld(Top.entry) /\ ~Permitted(Top.entry.conn, Top.name)
  /\ Raise
  /\ UNCHANGED <<pending, child, phase, job, msgs, hooks, registered>>

ForgetPending ==
  /\ Calling("forget")
  /\ hooks' = <<RestorePending(Top.name, pending[Top.name], Top.name \in child)>> \o hooks
  /\ pending' = [pending EXCEPT ![Top.name] = <<>>]
  /\ child' = child \ {Top.name}
  /\ Return
  /\ UNCHANGED <<phase, job, msgs, registered>>

(* The end of pending_activation_failed, once the errors are sent. *)
DropPending ==
  /\ Calling("drop")
  /\ pending' = [pending EXCEPT ![Top.name] = <<>>]
  /\ child' = child \ {Top.name}
  /\ job' = [job EXCEPT !.left = @ \ {Top.name}]
  /\ Return
  /\ UNCHANGED <<phase, msgs, hooks, registered>>

ActivationCall ==
  \/ RegisterEntry
  \/ SpawnProgram \/ SpawnParseError \/ SpawnForkError
  \/ SendHeldMessages \/ DispatchHeld \/ RejectHeld
  \/ ForgetPending \/ DropPending

-----------------------------------------------------------------------------
(* The cancel hooks. *)

(* cancel_pending: the whole pending activation goes, and its program. *)
UndoActivate ==
  /\ Cancelling("cancel_pending")
  /\ pending' = [pending EXCEPT ![Head(hooks).name] = <<>>]
  /\ child' = child \ {Head(hooks).name}
  /\ hooks' = Tail(hooks)
  /\ UNCHANGED <<phase, job, todo, msgs, registered>>

(* restore_pending. *)
UndoForget ==
  /\ Cancelling("restore_pending")
  /\ LET h == Head(hooks)
     IN  /\ pending' = [pending EXCEPT ![h.name] = h.entries]
         /\ child' = IF h.alive THEN child \cup {h.name} ELSE child
  /\ hooks' = Tail(hooks)
  /\ UNCHANGED <<phase, job, todo, msgs, registered>>

-----------------------------------------------------------------------------
(* Activations that fail: a timeout, or the exit of the program, which also
   fails the other activations of the same command.  Each is a transaction
   of its own, tried until the memory suffices. *)

Fail(n, names) ==
  /\ phase' = "round"
  /\ job' = [why |-> "expire", by |-> n, left |-> names]
  /\ UNCHANGED <<busVars, todo, msgs, hooks, oom, seenVars, before>>

(* pending_activation_timed_out. *)
TimeOut(n) ==
  /\ Idle /\ pending[n] # <<>>
  /\ Fail(n, {n})

(* babysitter_watch_callback. *)
ChildFails(n) ==
  /\ Idle /\ n \in child
  /\ Fail(n, {m \in Name : pending[m] # <<>> /\ Exec[m] = Exec[n]})

(* A program that exits with status 0 may have left a daemon behind. *)
ChildExits(n) ==
  /\ Idle /\ n \in child
  /\ child' = child \ {n}
  /\ UNCHANGED <<pending, txnVars, registered>>

(* try_send_activation_failure. *)
FailuresFaulty(n) == [i \in DOMAIN pending[n] |-> Notify(n, pending[n][i])]

Failures(n) == [i \in DOMAIN pending[n] |-> Send(Answer(pending[n][i].conn, n))]

FailNext ==
  /\ phase = "round" /\ job.why = "expire"
  /\ \E n \in job.left :
       /\ n = job.by => job.left = {n}
       /\ Begin("expire", job.by, job.left, Failures(n) \o <<Drop(n)>>)
  /\ UNCHANGED <<busVars, oom, seenVars>>

FailedAll ==
  /\ phase = "round" /\ job.why = "expire" /\ job.left = {}
  /\ Rest
  /\ UNCHANGED <<busVars, todo, msgs, hooks, oom, seenVars>>

=============================================================================
