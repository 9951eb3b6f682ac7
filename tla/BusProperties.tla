---------------------------- MODULE BusProperties ----------------------------
(***************************************************************************)
(* What makes the daemon's name service correct.  Most state properties    *)
(* speak of the moments between two handlers, when clients and monitors    *)
(* have been sent all that happened.                                       *)
(***************************************************************************)
EXTENDS Dispatch

Halted == phase \in {"abort", "fault"}

(* The connections that own or wait for a name. *)
Holders(n) == {owners[n][i].conn : i \in DOMAIN owners[n]}

-----------------------------------------------------------------------------
(* Invariants of the registry. *)

(* No connection is twice in the queue of a name, whatever mix of requests,
   replacements, releases and cancelled transactions made the queue. *)
NoDuplicateOwner ==
  ~Halted =>
    \A n \in AnyName : \A i, j \in DOMAIN owners[n] :
      owners[n][i].conn = owners[n][j].conn => i = j

(* The list of names a connection keeps, from which its names are released
   when it disconnects, is exactly the names it owns or waits for; a client
   that was freed is in no queue, so that none keeps a dead pointer. *)
OwnedMatchesQueues ==
  Idle =>
    \A c \in Conn :
      /\ ToSet(owned[c]) = {n \in AnyName : c \in Holders(n)}
      /\ Cardinality(ToSet(owned[c])) = Len(owned[c])
      /\ link[c] = "gone" => owned[c] = <<>>

(* NameAcquired and NameLost tell each client precisely the names it is the
   primary owner of. *)
ClientsKnowTheirNames ==
  Idle => \A c \in Conn : Connected(c) => told[c] = {n \in AnyName : Primary(n) = c}

(* A monitor that follows NameOwnerChanged knows the owner of every name. *)
WatchersKnowOwners ==
  Idle => \A n \in AnyName : watched[n] = Primary(n)

(* NameOwnerChanged signals of a name form a chain: the old owner one names
   is the new owner the last one named. *)
OwnerChangesChain ==
  (Executing /\ msgs # <<>>) =>
    LET m == Head(msgs) IN m.kind = "changed" => m.old = watched[m.name] /\ m.old # m.new

(* The three ownership signals agree with the queues and with each other,
   whatever the handler that queued them changed afterwards. *)
SignalsAgree == ClientsKnowTheirNames /\ WatchersKnowOwners /\ OwnerChangesChain

(* The reply to RequestName or ReleaseName says where the client stands in
   the queue when the reply is sent. *)
RepliesAreTrue ==
  (Executing /\ msgs # <<>> /\ Head(msgs).kind = "reply") =>
    LET m == Head(msgs) IN
      CASE m.result \in {"welcome", "primary", "already"} -> Primary(m.name) = m.to
        [] m.result = "queued" -> m.to \in Holders(m.name) /\ Primary(m.name) # m.to
        [] OTHER -> m.to \notin Holders(m.name)

(* The transactions of the registry implement the one-step operations of
   NameQueue: before is the state of the queues between transactions.
   NameQueue says what services.c does.  doc/dbus-specification.xml (3355,
   3361) says of RequestName that while nobody replaces the owner "its flags
   are updated" if the caller waits already, and that it "is appended to the
   queue" otherwise; the code puts a caller that asked to replace right behind
   the owner, in front of clients that have waited longer. *)
Queues == INSTANCE NameQueue WITH queue <- before

ImplementsNameQueue == Queues!Spec

(* As long as no allocation has failed (oom counts down from MaxOom): the
   hooks of a request that is cancelled do not put back a waiter that left, or
   changed its flags or its place, so that after it the queues may have moved
   by something that is no operation. *)
OperationsUntilShortage == Queues!Init /\ [][oom' = MaxOom => Queues!Next]_before

-----------------------------------------------------------------------------
(* Invariants of activation. *)

(* A name that has an owner has no pending activation, so no message waits
   for a program that is already there. *)
NothingPendsOnOwnedNames ==
  Idle => \A n \in Name : owners[n] # <<>> => pending[n] = <<>>

(* Every activation a connected client waits for is in the table, and it is
   there once: it will be answered.  This is so until an allocation fails: a
   request that joined an activation and is cancelled drops the requests of
   others with it (bus/activation.c:1500). *)
WaitingCallsArePending ==
  Idle /\ oom = MaxOom => \A c \in Conn : Connected(c) =>
    \A n \in Name :
      Cardinality({i \in DOMAIN pending[n] : pending[n][i].conn = c})
        = (IF calls[c] = n THEN 1 ELSE 0)

(* A client is answered only about the activation it waits for, once. *)
AnsweredOnce ==
  (Executing /\ msgs # <<>>) =>
    LET m == Head(msgs) IN
      /\ m.kind = "answer" /\ Connected(m.to) => calls[m.to] = m.name
      /\ m.kind = "handover" /\ Connected(m.from) => calls[m.from] = m.name

-----------------------------------------------------------------------------
(* Liveness. *)

(* A client that hangs up is forgotten, with all its names. *)
HangUpsAreNoticed == \A c \in Conn : link[c] = "down" ~> link[c] = "gone"

(* A client that waits for an activation is answered. *)
CallsAreAnswered ==
  \A c \in Conn : calls[c] # NoOne ~> calls[c] = NoOne \/ ~Connected(c)

=============================================================================
