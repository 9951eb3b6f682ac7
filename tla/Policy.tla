------------------------------- MODULE Policy -------------------------------
(***************************************************************************)
(* The security policy of the daemon (bus/policy.c): the rules of the      *)
(* configuration, the list that applies to one client, the optimisation of *)
(* that list, and the three questions asked of it: may a message be sent,  *)
(* may it be received, may a name be owned.                                *)
(*                                                                         *)
(* A message is a record with the fields type, iface, member (Nil when the *)
(* header has none), reply (reply_serial # 0), sender (a connection or     *)
(* Driver), dest (a name or Nil) and fds.  The field member of a rule      *)
(* stands for path, member and error name, which are compared alike.       *)
(***************************************************************************)
EXTENDS Naturals, Sequences, SequencesExt

CONSTANTS
  Conn,    \* client connections; a connection is its own unique name
  Name,    \* well-known names
  Driver,  \* org.freedesktop.DBus, as a name and as sender or recipient
  Nil      \* NULL

ASSUME NamesAssumption ==
  /\ Conn \cap Name = {}
  /\ {Driver, Nil} \cap (Conn \cup Name) = {}
  /\ Driver # Nil

(* A rule as the parser makes it.  requested_reply is TRUE for allow and   *)
(* FALSE for deny unless the configuration says otherwise.                 *)
Rule(kind, allow) ==
  [kind |-> kind, allow |-> allow, type |-> Nil, iface |-> Nil, member |-> Nil,
   peer |-> Nil, eavesdrop |-> FALSE, requested |-> allow]

-----------------------------------------------------------------------------
(* The list of one client.  p is a record of the lists of a BusPolicy; who *)
(* is what the daemon knows of the client: user, groups, console.          *)

PerConnection(rules) == SelectSeq(rules, LAMBDA r : r.kind \in {"own", "send", "receive"})

ClientRules(p, who) ==
  PerConnection(p.default)
    \o FlattenSeq([i \in DOMAIN who.groups |-> PerConnection(p.group[who.groups[i]])])
    \o PerConnection(p.user[who.user])
    \o PerConnection(p.console[who.console])
    \o PerConnection(p.mandatory)

Unqualified(r) ==
  /\ r.type = Nil
  /\ r.iface = Nil
  /\ r.member = Nil
  /\ r.peer = Nil

(* Mistake: whatever came before is dropped, of every kind. *)
OptimizeFaulty(rules) ==
  FoldLeft(LAMBDA kept, r : IF Unqualified(r) THEN <<r>> ELSE Append(kept, r), <<>>, rules)

(* An unqualified rule removes the rules of its kind before it. *)
Optimize(rules) ==
  FoldLeft(LAMBDA kept, r :
             Append(IF Unqualified(r) THEN SelectSeq(kept, LAMBDA k : k.kind # r.kind) ELSE kept, r),
           <<>>, rules)

-----------------------------------------------------------------------------
(* Does a rule apply?  queue[n] is the queue of owners of the name n.      *)

(* A deny rule for an interface applies to messages without one. *)
HeaderApplies(r, m) ==
  /\ r.type \in {Nil, m.type}
  /\ r.iface # Nil => IF m.iface = Nil THEN ~r.allow ELSE m.iface = r.iface
  /\ r.member # Nil => m.member \in {Nil, r.member}

RequestedApplies(r, m, requested) ==
  m.reply => /\ ~(~requested /\ r.allow /\ r.requested /\ ~r.eavesdrop)
             /\ ~(requested /\ ~r.allow /\ ~r.requested)

EavesdropApplies(r, eavesdropping) ==
  /\ ~(eavesdropping /\ r.allow /\ ~r.eavesdrop)
  /\ ~(~eavesdropping /\ ~r.allow /\ r.eavesdrop)

(* The peer is compared as text when it is the daemon, and otherwise by    *)
(* what it owns, or waits for.                                             *)
PeerApplies(r, peer, text, queue) ==
  \/ r.peer = Nil
  \/ peer = Driver /\ text = r.peer
  \/ peer \in Conn /\ r.peer \in DOMAIN queue /\ \E i \in DOMAIN queue[r.peer] : queue[r.peer][i] = peer

SendApplies(r, m, requested, receiver, queue) ==
  /\ r.kind = "send"
  /\ HeaderApplies(r, m)
  /\ RequestedApplies(r, m, requested)
  /\ PeerApplies(r, receiver, m.dest, queue)

Eavesdropping(m, addressed, proposed) == addressed # proposed /\ m.dest # Nil

ReceiveApplies(r, m, requested, addressed, proposed, queue) ==
  /\ r.kind = "receive"
  /\ HeaderApplies(r, m)
  /\ EavesdropApplies(r, Eavesdropping(m, addressed, proposed))
  /\ RequestedApplies(r, m, requested)
  /\ PeerApplies(r, m.sender, m.sender, queue)

OwnApplies(r, n) == r.kind = "own" /\ r.peer \in {Nil, n}

-----------------------------------------------------------------------------
(* The loops of the three checks: the last rule that applies decides, and  *)
(* without one the answer is no.                                           *)

Decides(rules, applying) ==
  \E i \in applying : rules[i].allow /\ \A j \in applying : j <= i

CanSend(rules, m, requested, receiver, queue) ==
  Decides(rules, {i \in DOMAIN rules : SendApplies(rules[i], m, requested, receiver, queue)})

CanReceive(rules, m, requested, addressed, proposed, queue) ==
  Decides(rules, {i \in DOMAIN rules : ReceiveApplies(rules[i], m, requested, addressed, proposed, queue)})

CanOwn(rules, n) == Decides(rules, {i \in DOMAIN rules : OwnApplies(rules[i], n)})

=============================================================================
