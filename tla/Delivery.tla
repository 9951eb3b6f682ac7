------------------------------ MODULE Delivery ------------------------------
(***************************************************************************)
(* How a message reaches its recipients (bus_dispatch and                  *)
(* bus_dispatch_matches in bus/dispatch.c): the security policy is asked   *)
(* for the addressed recipient, the matchmaker finds the others, and the   *)
(* policy is asked for each of them (bus_context_check_security_policy).   *)
(*                                                                         *)
(* Names are acquired without flags and released; the queues of owners     *)
(* themselves are the subject of module Registry, and whether a reply was  *)
(* asked for is the subject of module PendingReplies: here it is a choice. *)
(***************************************************************************)
EXTENDS Matchmaker

CONSTANTS
  Message,    \* what clients send: messages without their sender
  BusPolicy,  \* the configurations: the first at the start, then one by one
  Who,        \* Who[c]: user, groups and console of the client
  AsksFor,    \* AsksFor[c]: the match rules the client uses
  TakesFds,   \* connections that negotiated file descriptors
  FullSets,   \* sets of connections whose outgoing queue may be over its limit
  MaxTotal    \* bound: match rules on the bus

ASSUME DeliveryAssumption ==
  /\ TakesFds \subseteq Conn
  /\ FullSets \subseteq SUBSET Conn
  /\ MaxTotal \in Nat

VARIABLES
  life,    \* new, active (has a unique name), gone
  policy,  \* context->policy, as a number of BusPolicy
  client,  \* d->policy: the optimised rules of each connection
  asOf,    \* the configuration client was made of (history)
  queue,   \* owners of each name, the primary owner first
  out,     \* the messages the last handler delivered, and to whom
  said,    \* what it answered its caller
  asked    \* how often each client added a rule and did not remove it (history)

vars == <<mm, life, policy, client, asOf, queue, out, said, asked>>

DriverIface == CHOOSE i \in Iface : TRUE

(* A call of the driver, its answer, and NameOwnerChanged. *)
Call(c, member) == [type |-> "call", iface |-> DriverIface, member |-> member, reply |-> FALSE,
                    fds |-> FALSE, dest |-> Driver, sender |-> c]
Answer(c) == [type |-> "return", iface |-> Nil, member |-> Nil, reply |-> TRUE,
              fds |-> FALSE, dest |-> c, sender |-> Driver]
OwnerChanged == [type |-> "signal", iface |-> DriverIface, member |-> "NameOwnerChanged", reply |-> FALSE,
                 fds |-> FALSE, dest |-> Nil, sender |-> Driver]

Init ==
  /\ InitMatchmaker
  /\ life = [c \in Conn |-> "new"]
  /\ policy = 1
  /\ client = [c \in Conn |-> <<>>]
  /\ asOf = [c \in Conn |-> policy]
  /\ queue = [n \in Name \cup Conn |-> <<>>]
  /\ out = <<>>
  /\ said = <<>>
  /\ asked = [c \in Conn |-> [v \in MatchRule |-> 0]]

-----------------------------------------------------------------------------
(* What a delivery depends on: the rules, the queues and the policies. *)
World == [mm |-> mm, queue |-> queue, client |-> client]

(* bus_context_check_security_policy.  Only the addressed recipient gets a *)
(* requested reply; the daemon's own replies always are.  full holds the   *)
(* connections whose outgoing queue is over its limit.                     *)

CheckPolicy(w, m, addressed, proposed, requested, full) ==
  LET expected == m.reply /\ requested /\ addressed = proposed
  IN /\ m.sender # Driver => CanSend(w.client[m.sender], m, expected, proposed, w.queue)
     /\ proposed # Driver => CanReceive(w.client[proposed], m, expected, addressed, proposed, w.queue)
     /\ proposed \notin full

TakesIt(m, c) == m.fds => c \in TakesFds

(* bus_dispatch_matches, after the deliveries d. *)
DispatchMatches(d, w, m, addressed, requested, full) ==
  LET hit == GetRecipients(Candidates(w.mm, m), m, addressed, w.queue)
      to  == SelectSeq(hit, LAMBDA c : CheckPolicy(w, m, addressed, c, requested, full) /\ TakesIt(m, c))
      first == IF addressed = Nil THEN <<>> ELSE <<addressed>>
  IN Append(d, [msg |-> m, addressed |-> addressed, requested |-> requested,
                full |-> full, to |-> first \o to])

(* NameOwnerChanged for n names, one after the other. *)
Broadcast(d, w, n, full) ==
  FoldLeft(LAMBDA e, i : DispatchMatches(e, w, OwnerChanged, Nil, FALSE, full), d, [i \in 1 .. n |-> i])

(* bus_transaction_send_from_driver drops what the policy rejects. *)
Told(c, full, what) == IF CheckPolicy(World, Answer(c), c, c, TRUE, full) THEN what ELSE <<>>

(* Between two handlers the daemon waits for events and writes. *)
Idle == out = <<>> /\ said = <<>>

WriteOut ==
  /\ ~Idle
  /\ out' = <<>>
  /\ said' = <<>>
  /\ UNCHANGED <<mm, life, policy, client, asOf, queue, asked>>

-----------------------------------------------------------------------------
(* Clients come and go. *)

(* The name, the policy, the signal; then the call is matched. *)
Hello(c) ==
  /\ Idle
  /\ life[c] = "new"
  /\ life' = [life EXCEPT ![c] = "active"]
  /\ client' = [client EXCEPT ![c] = Optimize(ClientRules(BusPolicy[policy], Who[c]))]
  /\ asOf' = [asOf EXCEPT ![c] = policy]
  /\ queue' = [queue EXCEPT ![c] = <<c>>]
  /\ LET w == [mm |-> mm, queue |-> queue', client |-> client']
     IN \E full \in FullSets :
          /\ out' = DispatchMatches(Broadcast(<<>>, w, 1, full), w, Call(c, "Hello"), Nil, FALSE, full)
          /\ said' = IF CheckPolicy(w, Answer(c), c, c, TRUE, full) THEN <<"ack">> ELSE <<>>
  /\ UNCHANGED <<mm, policy, asked>>

Without(q, c) == SelectSeq(q, LAMBDA d : d # c)

(* The rules go first, then the names, each with a signal when it had the  *)
(* connection as its primary owner.                                        *)
Disconnect(c) ==
  /\ Idle
  /\ life[c] = "active"
  /\ life' = [life EXCEPT ![c] = "gone"]
  /\ mm' = MatchmakerDisconnected(mm, c)
  /\ queue' = [n \in DOMAIN queue |-> Without(queue[n], c)]
  /\ \E full \in FullSets :
       out' = Broadcast(<<>>, [World EXCEPT !.mm = mm'],
                        Cardinality({n \in DOMAIN queue : PrimaryOwner(queue, n) = c}), full)
  /\ asked' = [asked EXCEPT ![c] = [v \in MatchRule |-> 0]]
  /\ said' = <<>>
  /\ UNCHANGED <<policy, client, asOf>>

(* A reload replaces the policy of the context. *)
Reload ==
  /\ Idle
  /\ policy < Len(BusPolicy)
  /\ policy' = policy + 1
  /\ UNCHANGED <<mm, life, client, asOf, queue, out, said, asked>>

-----------------------------------------------------------------------------
(* Calls of the driver.  A handler yields the world after it, the number   *)
(* of names that change hands, the answers, and whether it succeeded.      *)

Failing(c, full) == [w |-> World, changes |-> 0, ok |-> FALSE, said |-> Told(c, full, <<"error">>)]

Doing(c, full, w, changes) == [w |-> w, changes |-> changes, ok |-> TRUE, said |-> Told(c, full, <<"ack">>)]

HandleAddMatch(c, v, full) ==
  IF mm.count[c] >= MaxRules THEN Failing(c, full)
                             ELSE Doing(c, full, [World EXCEPT !.mm = AddRule(mm, c, v)], 0)

(* The acknowledgement is sent before the rule is looked for, and the      *)
(* error that it was not found follows it.                                 *)
HandleRemoveMatch(c, v, full) ==
  IF HasRule(mm, c, v)
    THEN Doing(c, full, [World EXCEPT !.mm = RemoveByValue(mm, c, v)], 0)
    ELSE [Failing(c, full) EXCEPT !.said = Told(c, full, <<"ack", "error">>)]

(* RequestName without flags: the client is queued. *)
HandleRequestName(c, n, full) ==
  IF ~CanOwn(client[c], n) THEN Failing(c, full)
  ELSE IF \E i \in DOMAIN queue[n] : queue[n][i] = c THEN Doing(c, full, World, 0)
  ELSE Doing(c, full, [World EXCEPT !.queue[n] = Append(@, c)], IF queue[n] = <<>> THEN 1 ELSE 0)

HandleReleaseName(c, n, full) ==
  Doing(c, full, [World EXCEPT !.queue[n] = Without(@, c)], IF PrimaryOwner(queue, n) = c THEN 1 ELSE 0)

(* bus_dispatch of a call of the driver: if the policy lets it, h handles  *)
(* it, and it is matched against the rules as h leaves them.               *)
DriverCall(c, member, h, full) ==
  /\ Idle
  /\ life[c] = "active"
  /\ LET m == Call(c, member)
         d == Broadcast(<<>>, h.w, h.changes, full)
     IN IF CheckPolicy(World, m, Nil, Driver, FALSE, full)
          THEN /\ mm' = h.w.mm
               /\ queue' = h.w.queue
               /\ said' = h.said
               /\ out' = IF h.ok THEN DispatchMatches(d, h.w, m, Nil, FALSE, full) ELSE d
          ELSE /\ said' = Told(c, full, <<"error">>)
               /\ out' = <<>>
               /\ UNCHANGED <<mm, queue>>
  /\ UNCHANGED <<life, policy, client, asOf>>

AddMatch(c, v) ==
  /\ Cardinality(Rules(mm)) < MaxTotal
  /\ \E full \in FullSets :
       /\ DriverCall(c, "AddMatch", HandleAddMatch(c, v, full), full)
       /\ asked' = IF mm' # mm THEN [asked EXCEPT ![c][v] = @ + 1] ELSE asked

RemoveMatch(c, v) ==
  \E full \in FullSets :
    /\ DriverCall(c, "RemoveMatch", HandleRemoveMatch(c, v, full), full)
    /\ asked' = IF mm' # mm THEN [asked EXCEPT ![c][v] = @ - 1] ELSE asked

RequestName(c, n) ==
  \E full \in FullSets :
    /\ DriverCall(c, "RequestName", HandleRequestName(c, n, full), full)
    /\ UNCHANGED asked

ReleaseName(c, n) ==
  \E full \in FullSets :
    /\ DriverCall(c, "ReleaseName", HandleReleaseName(c, n, full), full)
    /\ UNCHANGED asked

(* Memory runs out while an AddMatch is matched: the transaction is        *)
(* cancelled, the rule stays, and the client is answered with an error.    *)
AddMatchNoMemory(c, v) ==
  /\ Idle
  /\ life[c] = "active"
  /\ mm.count[c] < MaxRules
  /\ Cardinality(Rules(mm)) < MaxTotal
  /\ CheckPolicy(World, Call(c, "AddMatch"), Nil, Driver, FALSE, {})
  /\ mm' = AddRule(mm, c, v)
  /\ asked' = [asked EXCEPT ![c][v] = @ + 1]
  /\ said' = <<"error">>
  /\ UNCHANGED <<life, policy, client, asOf, queue, out>>

-----------------------------------------------------------------------------
(* Messages to other clients, and broadcast signals. *)

Send(c, m0) ==
  LET m == [m0 EXCEPT !.sender = c]
      addressed == IF m.dest = Nil THEN Nil ELSE PrimaryOwner(queue, m.dest)
  IN /\ Idle
     /\ life[c] = "active"
     /\ \E full \in FullSets : \E requested \in IF m.reply THEN BOOLEAN ELSE {FALSE} :
          IF \/ m.dest # Nil /\ addressed = Nil                 \* NameHasNoOwner
             \/ addressed # Nil /\ ~CheckPolicy(World, m, addressed, addressed, requested, full)
             \/ addressed # Nil /\ ~TakesIt(m, addressed)
            THEN said' = Told(c, full, <<"error">>) /\ out' = <<>>
            ELSE said' = <<>> /\ out' = DispatchMatches(<<>>, World, m, addressed, requested, full)
     /\ UNCHANGED <<mm, life, policy, client, asOf, queue, asked>>

-----------------------------------------------------------------------------

Next ==
  \/ WriteOut
  \/ \E c \in Conn : Hello(c) \/ Disconnect(c)
  \/ Reload
  \/ \E c \in Conn : \E v \in AsksFor[c] : AddMatch(c, v) \/ RemoveMatch(c, v) \/ AddMatchNoMemory(c, v)
  \/ \E c \in Conn, n \in Name : RequestName(c, n) \/ ReleaseName(c, n)
  \/ \E c \in Conn, m \in Message : Send(c, m)

Spec == Init /\ [][Next]_vars

-----------------------------------------------------------------------------
(* Properties. *)

(* The reference: all the features of a rule are compared. *)
Wants(v, m, addressed) ==
  /\ v.type \in {Nil, m.type}
  /\ v.iface \in {Nil, m.iface}
  /\ v.member \in {Nil, m.member}
  /\ SenderMatches(v, m, queue)
  /\ DestinationMatches(v, m, addressed, queue)

(* May c have what was delivered, by the policies of sender and recipient? *)
Entitled(c, e) ==
  LET expected == e.msg.reply /\ e.requested /\ c = e.addressed
  IN /\ e.msg.sender # Driver => CanSend(client[e.msg.sender], e.msg, expected, c, queue)
     /\ CanReceive(client[c], e.msg, expected, e.addressed, c, queue)
     /\ c \notin e.full
     /\ TakesIt(e.msg, c)

(* bus_dispatch_matches: a message goes, once each, to its addressed       *)
(* recipient and to exactly the connections that asked for it with some    *)
(* AddMatch they have not taken back and that the policies entitle to it,  *)
(* whatever other rules they have and in whichever pools.  A client has    *)
(* the policy of its Hello, whatever was loaded since, although            *)
(* doc/dbus-daemon.1.in says "Policy changes should take effect with       *)
(* SIGHUP": nothing makes it again after a reload.                         *)
ExactDelivery ==
  \A k \in DOMAIN out :
    LET e == out[k]
        interested == {c \in Conn : \E v \in MatchRule : asked[c][v] > 0 /\ Wants(v, e.msg, e.addressed)}
    IN /\ Cardinality(Range(e.to)) = Len(e.to)
       /\ Range(e.to) = {c \in interested \cup ({e.addressed} \ {Nil}) : Entitled(c, e)}
       /\ e.addressed # Nil => e.to[1] = e.addressed

(* Everything the policy of c is asked about messages: what c sends to d,  *)
(* and what d sends, to c or to nobody in particular.                      *)
Asked(c) == [msg : Message, peer : Conn, expected : BOOLEAN, addressed : {c, Nil}]

SendDecision(rules, c, q) ==
  CanSend(rules, [q.msg EXCEPT !.sender = c], q.expected, q.peer, queue)

ReceiveDecision(rules, c, q) ==
  CanReceive(rules, [q.msg EXCEPT !.sender = q.peer], q.expected, q.addressed, c, queue)

(* bus_client_policy_optimize never lets through what the whole list of    *)
(* the configuration the client was admitted under denies, and decides on  *)
(* names exactly as that list does.                                        *)
OptimizeNeverLoosens ==
  [][\A c \in Conn : client'[c] # client[c] =>
       LET whole == ClientRules(BusPolicy[asOf'[c]], Who[c])
       IN /\ \A q \in Asked(c) : /\ SendDecision(client'[c], c, q) => SendDecision(whole, c, q)
                                 /\ ReceiveDecision(client'[c], c, q) => ReceiveDecision(whole, c, q)
          /\ \A n \in Name : CanOwn(client'[c], n) <=> CanOwn(whole, n)]_vars

(* A call of the driver has one answer at most (a method return or an      *)
(* error).                                                                 *)
OneAnswerEach == Len(said) <= 1

=============================================================================
