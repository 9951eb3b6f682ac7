----------------------------- MODULE Transaction -----------------------------
(***************************************************************************)
(* Bus transactions (bus/connection.c) and the end of bus_dispatch         *)
(* (bus/dispatch.c), which executes or cancels them.                       *)
(*                                                                         *)
(* A handler queues messages in its transaction and registers cancel       *)
(* hooks that undo what it did.  When it succeeds the messages are sent.   *)
(* When an allocation fails the messages are dropped and the hooks run in  *)
(* the reverse order, unless the client that made the request has hung up  *)
(* meanwhile: then bus_dispatch executes the unfinished transaction.       *)
(***************************************************************************)
EXTENDS BusState

Connected(c) == link[c] = "up"

Idle == phase = "idle"

(* A new transaction for a handler that makes the given calls. *)
Begin(why, who, names, s) ==
  /\ phase' = "run"
  /\ job' = [why |-> why, by |-> who, left |-> names]
  /\ todo' = s
  /\ msgs' = <<>>
  /\ hooks' = <<>>
  /\ before' = owners

Requested == job.why \in {"request", "call"}

(* The handler is over. *)
Rest ==
  /\ phase' = "idle"
  /\ job' = NoJob
  /\ before' = owners

(* The transaction of a request ends its handler, another one a round. *)
Close ==
  /\ IF Requested THEN Rest ELSE phase' = "round" /\ UNCHANGED <<job, before>>
  /\ UNCHANGED <<busVars, todo, msgs, hooks, oom, seenVars>>

(* All calls are made: the transaction executes. *)
Executing == phase = "run" /\ todo = <<>>

(* The error reply of the handler that runs. *)
ErrorReply(n) == IF job.why = "call" THEN Answer(job.by, n) ELSE Failure(job.by)

(* An error other than lack of memory: the other calls are not made, the
   error goes to the client if it is still there, and the transaction
   executes with what it holds. *)
Raise ==
  todo' = IF Requested /\ Connected(job.by) THEN <<Send(ErrorReply(Top.name))>> ELSE <<>>

(* bus_transaction_send: messages to a client that hung up are ignored. *)
Reaches(m) == m.to = NoOne \/ (m.to \in Conn /\ Connected(m.to))

SendMessage ==
  /\ Calling("send")
  /\ msgs' = IF Reaches(Top.msg) THEN Append(msgs, Top.msg) ELSE msgs
  /\ Return
  /\ UNCHANGED <<busVars, phase, job, hooks, oom, seenVars, before>>

-----------------------------------------------------------------------------
(* Lack of memory. *)

Allocates ==
  \/ Top.call \in {"send", "unlink_owner", "swap_links", "forget",
                   "register", "spawn", "complete"}
  \/ Top.call = "notify" /\ ~Top.entry.auto /\ Connected(Top.entry.conn)
  \/ Top.call = "dispatch" /\ Top.entry.auto /\ Connected(Top.entry.conn)
  \/ Top.call = "link_owner" /\ ~Queued(owners[Top.name], Top.conn)

MayFail ==
  /\ phase = "run" /\ todo # <<>> /\ Allocates
  /\ oom > 0
  /\ IF Requested THEN link[job.by] \in OomIn ELSE "daemon" \in OomIn

(* The transaction of a client that hung up is executed all the same. *)
AbandonedFaulty == Requested

Abandoned == Requested /\ ~Connected(job.by)

(* Registering an activation fails in two ways: before the table changed,
   or when the cancel hook cannot be added, which removes the whole pending
   activation. *)
OutOfMemory ==
  /\ MayFail
  /\ oom' = oom - 1
  /\ todo' = <<>>
  /\ IF Abandoned
       THEN UNCHANGED <<phase, msgs>>
       ELSE phase' = "cancel" /\ msgs' = <<>>
  /\ calls' = IF job.why = "call" /\ Connected(job.by)
                THEN [calls EXCEPT ![job.by] = NoOne] ELSE calls
  /\ \/ UNCHANGED <<pending, child>>
     \/ /\ Top.call = "register"
        /\ pending' = [pending EXCEPT ![Top.name] = <<>>]
        /\ child' = child \ {Top.name}
  /\ UNCHANGED <<link, active, owners, owned, job, hooks, told, watched, before>>

(* All hooks have run: the request is over, or the handler tries again. *)
EndCancel ==
  /\ phase = "cancel" /\ hooks = <<>>
  /\ Close

-----------------------------------------------------------------------------
(* Execution.  What clients learn from each message, in the order sent. *)

DeliverMessage ==
  /\ Executing /\ msgs # <<>>
  /\ msgs' = Tail(msgs)
  /\ LET m == Head(msgs) IN
       /\ told' = CASE m.kind = "acquired" -> [told EXCEPT ![m.to] = @ \cup {m.name}]
                    [] m.kind = "lost"     -> [told EXCEPT ![m.to] = @ \ {m.name}]
                    [] OTHER               -> told
       /\ watched' = IF m.kind = "changed" THEN [watched EXCEPT ![m.name] = m.new] ELSE watched
       /\ calls' = CASE m.kind = "answer"   -> [calls EXCEPT ![m.to] = NoOne]
                     [] m.kind = "handover" -> [calls EXCEPT ![m.from] = NoOne]
                     [] OTHER               -> calls
  /\ UNCHANGED <<busVars, phase, job, todo, hooks, oom, before>>

(* Freeing the hook of a removed owner drops the last reference to it, and
   bus_owner_unref takes the name off the owner's list.  A swapped owner is
   still referenced by the queue. *)
FreeHook ==
  /\ Executing /\ msgs = <<>> /\ hooks # <<>>
  /\ hooks' = Tail(hooks)
  /\ LET h == Head(hooks) IN
       owned' = IF h.hook = "restore_ownership" /\ h.at = 1
                  THEN [owned EXCEPT ![h.owner.conn] = Disowned(@, h.name)]
                  ELSE owned
  /\ UNCHANGED <<link, active, owners, pending, child, phase, job, todo, msgs,
                 oom, seenVars, before>>

EndExecute ==
  /\ Executing /\ msgs = <<>> /\ hooks = <<>>
  /\ Close

=============================================================================
