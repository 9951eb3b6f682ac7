----------------------------- MODULE Matchmaker -----------------------------
(***************************************************************************)
(* The match rules of the daemon (bus/signals.c): every rule lies in the   *)
(* list of its message type and interface, in the list of the connection   *)
(* that added it, and is counted there (bus/connection.c).                 *)
(*                                                                         *)
(* The state is the variable mm: pools (rules_by_type, with the rules that *)
(* name no interface under Nil), list (d->match_rules, by the identity of  *)
(* the rule) and count (d->n_match_rules).  Parsed rules are records; the  *)
(* field member stands for member, path and arguments.                     *)
(***************************************************************************)
EXTENDS Policy, FiniteSets

CONSTANTS
  Type,       \* message types
  Iface,      \* interfaces
  MaxRules,   \* max_match_rules_per_connection
  MatchRule   \* the rules clients ask for, as parsed

ASSUME MatchAssumption ==
  /\ Nil \notin Type \cup Iface
  /\ MaxRules \in Nat \ {0}
  /\ \A v \in MatchRule : /\ DOMAIN v = {"type", "iface", "member", "sender", "destination"}
                          /\ v.type \in Type \cup {Nil}
                          /\ v.iface \in Iface \cup {Nil}

VARIABLE mm

(* Identities of the rules that exist at one time. *)
RuleId == 1 .. Cardinality(Conn) * MaxRules

Rules(x) == UNION {Range(x.pools[p]) : p \in DOMAIN x.pools}

FreshId(x) == CHOOSE i \in RuleId : \A r \in Rules(x) : r.id # i

InitMatchmaker ==
  mm = [pools |-> [p \in (Type \cup {Nil}) \X (Iface \cup {Nil}) |-> <<>>],
        list |-> [c \in Conn |-> <<>>],
        count |-> [c \in Conn |-> 0]]

Pool(v) == <<v.type, v.iface>>

-----------------------------------------------------------------------------
(* Adding and removing. *)

AddRule(x, c, v) ==
  LET id == FreshId(x)
  IN [pools |-> [x.pools EXCEPT ![Pool(v)] = Append(@, [id |-> id, goesTo |-> c, is |-> v])],
      list |-> [x.list EXCEPT ![c] = Append(@, id)],
      count |-> [x.count EXCEPT ![c] = @ + 1]]

(* _dbus_list_remove_last on d->match_rules; an identity is there once. *)
Forget(s, ids) == SelectSeq(s, LAMBDA i : i \notin ids)

(* bus_matchmaker_remove_rule_link for every rule of a set. *)
RemoveRules(x, gone) ==
  LET ids == {r.id : r \in gone}
  IN [pools |-> [p \in DOMAIN x.pools |-> SelectSeq(x.pools[p], LAMBDA r : r \notin gone)],
      list |-> [c \in Conn |-> Forget(x.list[c], ids)],
      count |-> [c \in Conn |-> x.count[c] - Cardinality({r \in gone : r.goesTo = c})]]

Equal(x, c, v) == {i \in DOMAIN x.pools[Pool(v)] :
                     x.pools[Pool(v)][i].goesTo = c /\ x.pools[Pool(v)][i].is = v}

HasRule(x, c, v) == Equal(x, c, v) # {}

(* The list is searched from its end: the most recent equal rule goes. *)
RemoveByValue(x, c, v) ==
  RemoveRules(x, {x.pools[Pool(v)][i] : i \in {j \in Equal(x, c, v) : \A k \in Equal(x, c, v) : k <= j}})

(* The rules of c, and those that name its unique name. *)
Doomed(r, c) == r.goesTo = c \/ r.is.sender = c \/ r.is.destination = c

(* Mistake: the rules of others that name c lose their link in the pool,   *)
(* and stay counted.                                                       *)
MatchmakerDisconnectedFaulty(x, c) ==
  IF x.count[c] > 0
    THEN [RemoveRules(x, {r \in Rules(x) : r.goesTo = c}) EXCEPT
            !.pools = [p \in DOMAIN x.pools |-> SelectSeq(x.pools[p], LAMBDA r : ~Doomed(r, c))]]
    ELSE x

(* The matchmaker is told only when the connection has rules of its own. *)
MatchmakerDisconnected(x, c) ==
  IF x.count[c] > 0 THEN RemoveRules(x, {r \in Rules(x) : Doomed(r, c)}) ELSE x

-----------------------------------------------------------------------------
(* Matching.  queue[n] is the queue of owners of n. *)

PrimaryOwner(queue, n) == IF n \in DOMAIN queue /\ queue[n] # <<>> THEN queue[n][1] ELSE Nil

SenderMatches(v, m, queue) ==
  \/ v.sender = Nil
  \/ m.sender = Driver /\ v.sender = Driver
  \/ m.sender # Driver /\ PrimaryOwner(queue, v.sender) = m.sender

DestinationMatches(v, m, addressed, queue) ==
  \/ v.destination = Nil
  \/ /\ m.dest # Nil
     /\ IF addressed = Nil THEN v.destination = Driver
                           ELSE PrimaryOwner(queue, v.destination) = addressed

(* match_rule_matches, when type and interface have already matched. *)
MatchesWithinPool(v, m, addressed, queue) ==
  /\ v.member \in {Nil, m.member}
  /\ SenderMatches(v, m, queue)
  /\ DestinationMatches(v, m, addressed, queue)

(* The four lists that can hold a rule for m. *)
Candidates(x, m) ==
  LET iface == IF m.iface = Nil THEN <<>> ELSE x.pools[<<Nil, m.iface>>]
      both  == IF m.iface = Nil THEN <<>> ELSE x.pools[<<m.type, m.iface>>]
  IN x.pools[<<Nil, Nil>>] \o iface \o x.pools[<<m.type, Nil>>] \o both

(* Mistake: a connection is appended for each of its rules. *)
GetRecipientsFaulty(rules, m, addressed, queue) ==
  FoldLeft(LAMBDA to, r :
             IF MatchesWithinPool(r.is, m, addressed, queue) /\ r.goesTo # addressed
               THEN Append(to, r.goesTo) ELSE to,
           <<>>, rules)

(* bus_matchmaker_get_recipients.  Nobody carries the new stamp; then the  *)
(* addressed recipient does, and each connection that is appended.         *)
GetRecipients(rules, m, addressed, queue) ==
  FoldLeft(LAMBDA to, r :
             IF /\ MatchesWithinPool(r.is, m, addressed, queue)
                /\ r.goesTo \notin Range(to) \cup {addressed}
               THEN Append(to, r.goesTo) ELSE to,
           <<>>, rules)

-----------------------------------------------------------------------------
(* A rule is in the pool of its type and interface, and once.  The rules   *)
(* in the pools are, connection by connection, the rules in d->match_rules *)
(* and as many as d->n_match_rules, which the limit is checked against:    *)
(* AddMatch, RemoveMatch and the disconnection of this client or of one    *)
(* its rules name leave no rule behind that could not be removed again.    *)
RuleBooks ==
  /\ \A p \in DOMAIN mm.pools : \A r \in Range(mm.pools[p]) : Pool(r.is) = p
  /\ \A p, q \in DOMAIN mm.pools : \A i \in DOMAIN mm.pools[p], j \in DOMAIN mm.pools[q] :
       mm.pools[p][i].id = mm.pools[q][j].id => p = q /\ i = j
  /\ \A c \in Conn :
       /\ Range(mm.list[c]) = {r.id : r \in {s \in Rules(mm) : s.goesTo = c}}
       /\ Len(mm.list[c]) = mm.count[c]
       /\ Cardinality(Range(mm.list[c])) = mm.count[c]
       /\ mm.count[c] <= MaxRules

=============================================================================
