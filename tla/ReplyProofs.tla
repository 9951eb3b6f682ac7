---------------------------- MODULE ReplyProofs ----------------------------
(***************************************************************************)
(* Proofs about PendingReplies, for every set of clients and serials and   *)
(* every configuration: types, no pointer to a freed client, at most one    *)
(* expected reply that a reply can match, a timer that is early enough, and *)
(* accounts of what every client waits for that balance.                   *)
(***************************************************************************)
EXTENDS PendingReplies, FiniteSetTheorems, TLAPS

USE RepliesAssumption

(* A handler of bus_dispatch has a message to dispatch. *)
Dispatching ==
  phase \in {"check", "policy", "expect", "fds", "send", "match", "error",
             "execute", "cancel"}

HasMessage == Dispatching => msg \in Message

TypedStep == TypeOK /\ HasMessage

LEMMA InitTyped == Init => TypedStep
  BY DEF Init, TypedStep, TypeOK, HasMessage, Dispatching, Hook, Answer, NoMsg

(* The history keeps its type. *)
LEMMA HistoryTyped ==
  ASSUME NEW f \in [Answer -> Nat], NEW ks
  PROVE  /\ Count(f, ks) \in [Answer -> Nat]
         /\ Settle(f, ks) \in [Answer -> Nat]
  BY DEF Count, Settle, Less

LEMMA ClientsTyped == TypedStep /\ Clients => TypedStep'
<1> SUFFICES ASSUME TypedStep, Clients PROVE TypedStep'
  OBVIOUS
<1>1. ASSUME NEW a \in Conn, NEW b \in Conn, NEW s \in Serial, NEW w \in BOOLEAN,
             NEW f \in CallFds, SendCall(a, b, s, w, f)
      PROVE  TypedStep'
  <2> DEFINE m == [type |-> "call", from |-> a, to |-> b, serial |-> s,
                   wants |-> w, fds |-> f]
  <2>1. m \in Message
    BY DEF Message
  <2>2. msg' = m /\ phase' = "policy"
    BY <1>1 DEF SendCall, Begin
  <2>3. owed' \in [Answer -> Nat] /\ made' \in 0..MaxCalls
    BY <1>1 DEF SendCall, TypedStep, TypeOK, Answer
  <2> QED BY <1>1, <2>1, <2>2, <2>3
          DEF SendCall, Begin, TypedStep, TypeOK, HasMessage, listVars
<1>2. ASSUME NEW a \in Conn, NEW b \in Conn, NEW s \in Serial, NEW f \in BOOLEAN,
             SendReply(b, a, s, f)
      PROVE  TypedStep'
  <2> DEFINE m == [type |-> "reply", from |-> b, to |-> a, serial |-> s,
                   wants |-> FALSE, fds |-> f]
  <2>1. m \in Message
    BY DEF Message
  <2>2. msg' = m /\ phase' = "check"
    BY <1>2 DEF SendReply, Begin
  <2> QED BY <1>2, <2>1, <2>2
          DEF SendReply, Begin, TypedStep, TypeOK, HasMessage, listVars
<1>3. ASSUME NEW c \in Conn, HangUp(c) PROVE TypedStep'
  BY <1>3 DEF HangUp, TypedStep, TypeOK, HasMessage, Dispatching, listVars, txnVars, pastVars
<1> QED BY <1>1, <1>2, <1>3 DEF Clients

LEMMA HandlerTyped == TypedStep /\ Handler => TypedStep'
<1> SUFFICES ASSUME TypedStep, Handler PROVE TypedStep'
  OBVIOUS
<1> USE DEF TypedStep, TypeOK, HasMessage, Dispatching, listVars, pastVars, GoTo, At
<1>1. CASE CheckReply
  BY <1>1 DEF CheckReply, Expected, Hook
<1>2. CASE Refuse
  BY <1>2 DEF Refuse
<1>3. CASE Permit
  BY <1>3 DEF Permit
<1>4. CASE ExpectReply
  <2> DEFINE p == [getter |-> msg.from, sender |-> msg.to, serial |-> msg.serial,
                   age |-> 0, left |-> FALSE]
  <2>1. msg \in Message
    BY <1>4 DEF ExpectReply
  <2>2. p \in Item
    BY <2>1 DEF Message, Item
  <2>3. hook' \in Hook /\ items' \subseteq Item
    <3>1. [undo |-> "forget", item |-> p] \in Hook
      BY <2>2 DEF Hook
    <3>2. \/ items' = items /\ hook' = hook
          \/ items' = items \cup {p} /\ hook' = [undo |-> "forget", item |-> p]
      BY <1>4 DEF ExpectReply
    <3> HIDE DEF p
    <3> QED BY <2>2, <3>1, <3>2
  <2>4. timer' \in Nat \cup {Off}
    BY <1>4 DEF ExpectReply, Awake
  <2>5. phase' \in {"fds", "error"}
    BY <1>4 DEF ExpectReply
  <2>6. UNCHANGED <<link, msg, oom, made, owed, lost, out>>
    BY <1>4 DEF ExpectReply
  <2> QED BY <2>1, <2>3, <2>4, <2>5, <2>6
<1>5. CASE CheckFds
  BY <1>5 DEF CheckFds
<1>6. CASE Forward
  BY <1>6 DEF Forward, RepliesTo, Message, Answer
<1>7. CASE MatchOthers
  BY <1>7 DEF MatchOthers
<1>8. CASE SendError
  BY <1>8 DEF SendError, Asked, Message, Answer
<1>9. CASE Execute
  BY <1>9, HistoryTyped DEF Execute, EndHandler, Hook
<1>10. CASE Cancel
  <2>1. items' \subseteq Item
    BY <1>10 DEF Cancel, Undone, Hook, NoHook
  <2> QED BY <1>10, <2>1 DEF Cancel, EndHandler, Awake, Hook
<1>11. ASSUME NEW p \in items, Expire(p) PROVE TypedStep'
  BY <1>11, HistoryTyped DEF Expire, txnVars
<1>12. CASE ExpireEnd
  <2>1. ASSUME NEW p \in items PROVE ReplyTimeout - p.age \in Nat
    BY DEF Item
  <2>2. NextInterval \subseteq Nat \cup {Off}
    BY <2>1 DEF NextInterval
  <2> QED BY <1>12, <2>2 DEF ExpireEnd
<1> QED BY <1>1, <1>2, <1>3, <1>4, <1>5, <1>6, <1>7, <1>8, <1>9, <1>10, <1>11, <1>12
        DEF Handler

LEMMA NextTyped == TypedStep /\ [Next]_vars => TypedStep'
<1> SUFFICES ASSUME TypedStep, [Next]_vars PROVE TypedStep'
  OBVIOUS
<1> USE DEF TypedStep, TypeOK, HasMessage, Dispatching, listVars, txnVars, pastVars
<1>1. CASE Clients
  BY <1>1, ClientsTyped
<1>2. CASE Handler
  BY <1>2, HandlerTyped
<1>3. CASE OutOfMemory
  BY <1>3, HistoryTyped DEF OutOfMemory
<1>4. CASE ExpireLater
  BY <1>4 DEF ExpireLater
<1>5. CASE TimeOut
  BY <1>5 DEF TimeOut, GoTo
<1>6. CASE Tick
  <2>1. ASSUME NEW p \in Item PROVE Aged(p) \in Item
    BY DEF Aged, Item
  <2>2. items' \subseteq Item
    BY <1>6, <2>1 DEF Tick
  <2> QED BY <1>6, <2>2 DEF Tick, Less
<1>7. ASSUME NEW c \in Conn, Disconnected(c) PROVE TypedStep'
  <2>1. ASSUME NEW p \in Item PROVE Abandoned(p, c) \in Item
    <3>1. ReplyTimeout \in 0..ReplyTimeout
      OBVIOUS
    <3>2. [p EXCEPT !.age = ReplyTimeout, !.left = TRUE] \in Item
      BY <3>1 DEF Item
    <3> QED BY <3>2 DEF Abandoned
  <2>2. items' \subseteq Item
    BY <1>7, <2>1 DEF Disconnected, Kept
  <2> QED BY <1>7, <2>2 DEF Disconnected
<1>8. CASE UNCHANGED vars
  BY <1>8 DEF vars
<1> QED BY <1>1, <1>2, <1>3, <1>4, <1>5, <1>6, <1>7, <1>8 DEF Next

(* Every reachable state of the list of expected replies, of the transaction
   and of the history has its type. *)
THEOREM RepliesTyped == Spec => []TypeOK
<1>1. Init => TypedStep
  BY InitTyped
<1>2. TypedStep /\ [Next]_vars => TypedStep'
  BY NextTyped
<1>3. TypedStep => TypeOK
  BY DEF TypedStep
<1> QED BY <1>1, <1>2, <1>3, PTL DEF Spec

-----------------------------------------------------------------------------
(* The inductive invariant behind the two safety theorems. *)

SameReply(p, q) == p.getter = q.getter /\ p.sender = q.sender /\ p.serial = q.serial

(* Callers on the list live, and repliers live until they are marked. *)
Alive ==
  \A p \in items :
    /\ link[p.getter] # "gone"
    /\ p.left => link[p.sender] = "gone"
    /\ ~p.left => link[p.sender] # "gone"

(* The clients of the message that is dispatched live. *)
Present ==
  Dispatching => link[msg.from] # "gone" /\ link[msg.to] # "gone"

(* A reply that was taken off the list can be put back. *)
Restorable ==
  hook.undo = "restore" =>
    /\ link[hook.item.getter] # "gone"
    /\ link[hook.item.sender] # "gone"
    /\ ~hook.item.left
    /\ \A p \in items : ~SameReply(p, hook.item)

(* Only replies are checked, and only a reply that is past its check has something to put back. *)
HookWhen ==
  /\ phase = "check" => msg.type = "reply"
  /\ ~Dispatching => hook = NoHook
  /\ phase \in {"check", "expect"} => hook = NoHook
  /\ phase = "policy" /\ msg.type = "call" => hook = NoHook

ListInv ==
  /\ TypedStep
  /\ Alive
  /\ Present
  /\ OneItemForEachReply
  /\ Restorable
  /\ HookWhen

LEMMA InitList == Init => ListInv
  BY InitTyped DEF Init, ListInv, Alive, Present, OneItemForEachReply, Restorable,
                   HookWhen, Dispatching, NoHook

(* What the steps between check and execute have in common: the list, the hook
   and the clients stay. *)
LEMMA SteadyList ==
  ASSUME ListInv, TypedStep', UNCHANGED <<link, items, hook>>,
         Dispatching, Dispatching' => UNCHANGED msg,
         HookWhen'
  PROVE  ListInv'
  BY DEF ListInv, Alive, Present, OneItemForEachReply, Restorable, SameReply

LEMMA ClientsList == ListInv /\ Clients => ListInv'
<1> SUFFICES ASSUME ListInv, Clients PROVE ListInv'
  OBVIOUS
<1>t. TypedStep'
  BY ClientsTyped DEF ListInv
<1> USE DEF ListInv
<1>1. ASSUME NEW m \in Message, NEW p \in {"policy", "check"}, Begin(m, p),
             p = "check" => m.type = "reply"
      PROVE  ListInv'
  <2>1. hook = NoHook /\ hook' = NoHook
    BY <1>1 DEF Begin, Idle, HookWhen, Dispatching
  <2>2. UNCHANGED <<link, items>>
    BY <1>1 DEF Begin, listVars
  <2>3. Present'
    BY <1>1, <2>2 DEF Begin, Present
  <2>4. HookWhen'
    BY <1>1, <2>1 DEF Begin, HookWhen
  <2> QED BY <1>t, <2>1, <2>2, <2>3, <2>4
          DEF Alive, OneItemForEachReply, Restorable, NoHook
<1>2. ASSUME NEW a \in Conn, NEW b \in Conn, NEW s \in Serial, NEW w \in BOOLEAN,
             NEW f \in CallFds, SendCall(a, b, s, w, f)
      PROVE  ListInv'
  <2> DEFINE m == [type |-> "call", from |-> a, to |-> b, serial |-> s,
                   wants |-> w, fds |-> f]
  <2>1. m \in Message
    BY DEF Message
  <2>2. Begin(m, "policy")
    BY <1>2 DEF SendCall
  <2> QED BY <1>1, <2>1, <2>2
<1>3. ASSUME NEW a \in Conn, NEW b \in Conn, NEW s \in Serial, NEW f \in BOOLEAN,
             SendReply(b, a, s, f)
      PROVE  ListInv'
  <2> DEFINE m == [type |-> "reply", from |-> b, to |-> a, serial |-> s,
                   wants |-> FALSE, fds |-> f]
  <2>1. m \in Message
    BY DEF Message
  <2>2. Begin(m, "check")
    BY <1>3 DEF SendReply
  <2> QED BY <1>1, <2>1, <2>2
<1>4. ASSUME NEW c \in Conn, HangUp(c) PROVE ListInv'
  <2>1. UNCHANGED <<items, phase, msg, hook>>
    BY <1>4 DEF HangUp, listVars, txnVars
  <2>2. \A d \in Conn : link'[d] = "gone" <=> link[d] = "gone"
    BY <1>4 DEF HangUp, TypedStep, TypeOK
  <2>3. \A p \in items : p.getter \in Conn /\ p.sender \in Conn
    BY DEF TypedStep, TypeOK, Item
  <2>4. Alive'
    BY <2>1, <2>2, <2>3 DEF Alive
  <2>5. Present'
    BY <2>1, <2>2 DEF Present, Dispatching, TypedStep, HasMessage, Message
  <2>6. Restorable'
    <3>1. hook.undo = "restore" => hook.item.getter \in Conn /\ hook.item.sender \in Conn
      BY DEF TypedStep, TypeOK, Hook, NoHook, Item
    <3> QED BY <2>1, <2>2, <3>1 DEF Restorable, SameReply
  <2> QED BY <1>t, <2>1, <2>4, <2>5, <2>6
          DEF OneItemForEachReply, HookWhen, Dispatching
<1> QED BY <1>2, <1>3, <1>4 DEF Clients

LEMMA CheckReplyList == ListInv /\ CheckReply => ListInv'
<1> SUFFICES ASSUME ListInv, CheckReply PROVE ListInv'
  OBVIOUS
<1>t. TypedStep'
  BY HandlerTyped DEF ListInv, Handler
<1> USE DEF ListInv
<1>1. At("check") /\ hook = NoHook /\ UNCHANGED <<link, msg>>
  BY DEF CheckReply, GoTo, HookWhen, At
<1>2. Dispatching /\ Dispatching'
  BY DEF CheckReply, GoTo, Dispatching, At
<1>3. Present'
  BY <1>1, <1>2 DEF Present
<1>4. CASE Expected = {} /\ UNCHANGED <<items, hook>> /\ phase' = "error"
  BY <1>t, <1>1, <1>2, <1>4, SteadyList DEF HookWhen
<1>5. ASSUME NEW p \in Expected, items' = items \ {p}, phase' = "policy",
             hook' = [undo |-> "restore", item |-> p]
      PROVE  ListInv'
  <2>1. p \in items /\ ~p.left
    BY DEF Expected
  <2>2. Alive' /\ OneItemForEachReply'
    BY <1>1, <1>5 DEF Alive, OneItemForEachReply
  <2>3. Restorable'
    <3>1. link'[p.getter] # "gone" /\ link'[p.sender] # "gone"
      BY <1>1, <2>1 DEF Alive
    <3>2. \A q \in items' : ~SameReply(q, p)
      BY <1>5, <2>1 DEF OneItemForEachReply, SameReply
    <3>3. hook'.item = p
      BY <1>5
    <3> QED BY <2>1, <3>1, <3>2, <3>3 DEF Restorable
  <2>4. msg.type = "reply"
    BY <1>1 DEF HookWhen, At
  <2>5. HookWhen'
    BY <1>1, <1>2, <1>5, <2>4 DEF HookWhen
  <2> QED BY <1>t, <1>3, <2>2, <2>3, <2>5
<1> QED BY <1>4, <1>5 DEF CheckReply, GoTo

LEMMA ExpectReplyList == ListInv /\ ExpectReply => ListInv'
<1> SUFFICES ASSUME ListInv, ExpectReply PROVE ListInv'
  OBVIOUS
<1>t. TypedStep'
  BY HandlerTyped DEF ListInv, Handler
<1> USE DEF ListInv
<1> DEFINE p == [getter |-> msg.from, sender |-> msg.to, serial |-> msg.serial,
                 age |-> 0, left |-> FALSE]
<1>1. Dispatching /\ Dispatching' /\ hook = NoHook /\ UNCHANGED <<link, msg>>
  BY DEF ExpectReply, GoTo, HookWhen, At, Dispatching
<1>2. phase' \in {"fds", "error"}
  BY DEF ExpectReply, GoTo
<1>3. HookWhen'
  BY <1>1, <1>2 DEF HookWhen
<1>4. CASE UNCHANGED <<items, hook>>
  BY <1>t, <1>1, <1>3, <1>4, SteadyList
<1>5. CASE /\ Outstanding = {}
           /\ items' = items \cup {p}
           /\ hook' = [undo |-> "forget", item |-> p]
  <2>1. /\ p.getter = msg.from /\ p.sender = msg.to /\ p.serial = msg.serial
        /\ ~p.left
    OBVIOUS
  <2>2. link[msg.from] # "gone" /\ link[msg.to] # "gone"
    BY <1>1 DEF Present
  <2>3. \A q \in items : ~SameReply(p, q)
    <3>1. SUFFICES ASSUME NEW q \in items, SameReply(p, q) PROVE FALSE
      OBVIOUS
    <3>2. q.left
      BY <1>5, <2>1, <3>1 DEF Outstanding, SameReply
    <3> QED BY <2>1, <2>2, <3>1, <3>2 DEF Alive, SameReply
  <2>4. Present'
    BY <1>1, <2>2 DEF Present
  <2> HIDE DEF p
  <2>5. Alive'
    BY <1>1, <1>5, <2>1, <2>2 DEF Alive
  <2>6. OneItemForEachReply'
    BY <1>5, <2>3 DEF OneItemForEachReply, SameReply
  <2>7. Restorable'
    BY <1>5 DEF Restorable
  <2> QED BY <1>t, <1>3, <2>4, <2>5, <2>6, <2>7
<1> QED BY <1>4, <1>5 DEF ExpectReply, MayExpect, listVars

LEMMA CancelList == ListInv /\ Cancel => ListInv'
<1> SUFFICES ASSUME ListInv, Cancel PROVE ListInv'
  OBVIOUS
<1>t. TypedStep'
  BY HandlerTyped DEF ListInv, Handler
<1> USE DEF ListInv
<1>1. UNCHANGED link /\ hook' = NoHook /\ phase' = "idle"
  BY DEF Cancel, EndHandler
<1>2. Present' /\ Restorable' /\ HookWhen'
  BY <1>1 DEF Present, Restorable, HookWhen, Dispatching, NoHook
<1>3. CASE items' \subseteq items
  BY <1>t, <1>1, <1>2, <1>3 DEF Alive, OneItemForEachReply
<1>4. CASE hook.undo = "restore" /\ items' = items \cup {hook.item}
  <2>1. Alive'
    BY <1>1, <1>4 DEF Alive, Restorable
  <2>2. OneItemForEachReply'
    BY <1>4 DEF OneItemForEachReply, Restorable, SameReply
  <2> QED BY <1>t, <1>2, <2>1, <2>2
<1> QED BY <1>3, <1>4 DEF Cancel, Undone

LEMMA HandlerList == ListInv /\ Handler => ListInv'
<1> SUFFICES ASSUME ListInv, Handler PROVE ListInv'
  OBVIOUS
<1>t. TypedStep'
  BY HandlerTyped DEF ListInv
<1> USE DEF ListInv
<1>1. CASE CheckReply
  BY <1>1, CheckReplyList
<1>2. CASE ExpectReply
  BY <1>2, ExpectReplyList
<1>3. CASE Refuse \/ Permit \/ CheckFds \/ Forward \/ MatchOthers \/ SendError
  <2>1. Dispatching /\ UNCHANGED <<link, items, hook, msg>>
    BY <1>3 DEF Refuse, Permit, CheckFds, Forward, MatchOthers, SendError, GoTo, At,
                Dispatching, listVars
  <2>2. HookWhen'
    BY <1>3, <2>1 DEF Refuse, Permit, CheckFds, Forward, MatchOthers, SendError, GoTo, At,
                      HookWhen, Dispatching
  <2> QED BY <1>t, <2>1, <2>2, SteadyList
<1>4. CASE Execute
  <2>1. UNCHANGED <<link, items>> /\ hook' = NoHook /\ phase' = "idle"
    BY <1>4 DEF Execute, EndHandler, listVars
  <2> QED BY <1>t, <2>1 DEF Alive, Present, OneItemForEachReply, Restorable, HookWhen,
                            Dispatching, NoHook
<1>5. CASE Cancel
  BY <1>5, CancelList
<1>6. ASSUME NEW p \in items, Expire(p) PROVE ListInv'
  <2>1. items' \subseteq items /\ UNCHANGED <<link, phase, msg, hook>>
    BY <1>6 DEF Expire, txnVars
  <2>2. hook = NoHook /\ ~Dispatching
    BY <1>6 DEF Expire, At, HookWhen, Dispatching
  <2> QED BY <1>t, <2>1, <2>2 DEF Alive, Present, OneItemForEachReply, Restorable, HookWhen,
                                  Dispatching, NoHook
<1>7. CASE ExpireEnd
  <2>1. UNCHANGED <<link, items, hook>> /\ phase' = "idle" /\ phase = "expire"
    BY <1>7 DEF ExpireEnd, GoTo, At
  <2>2. hook = NoHook
    BY <2>1 DEF HookWhen, Dispatching
  <2> QED BY <1>t, <2>1, <2>2 DEF Alive, Present, OneItemForEachReply, Restorable, HookWhen,
                                  Dispatching, NoHook
<1> QED BY <1>1, <1>2, <1>3, <1>4, <1>5, <1>6, <1>7 DEF Handler

LEMMA NextList == ListInv /\ [Next]_vars => ListInv'
<1> SUFFICES ASSUME ListInv, [Next]_vars PROVE ListInv'
  OBVIOUS
<1>t. TypedStep'
  BY NextTyped DEF ListInv
<1> USE DEF ListInv
<1>1. CASE Clients
  BY <1>1, ClientsList
<1>2. CASE Handler
  BY <1>2, HandlerList
<1>3. CASE OutOfMemory
  <2>1. Dispatching /\ UNCHANGED <<link, items, hook, msg>>
    BY <1>3 DEF OutOfMemory, listVars, Dispatching
  <2>2. phase' \in {"cancel", "execute"}
    BY <1>3 DEF OutOfMemory
  <2>3. HookWhen'
    BY <2>2 DEF HookWhen, Dispatching
  <2> QED BY <1>t, <2>1, <2>3, SteadyList
<1>4. CASE ExpireLater \/ TimeOut
  <2>1. /\ ~Dispatching /\ ~Dispatching' /\ phase' # "check"
        /\ UNCHANGED <<link, items, hook>>
    BY <1>4 DEF ExpireLater, TimeOut, GoTo, At, Idle, listVars, Dispatching
  <2>2. HookWhen'
    BY <2>1 DEF HookWhen, Dispatching
  <2> QED BY <1>t, <2>1, <2>2 DEF Alive, Present, OneItemForEachReply, Restorable
<1>5. CASE Tick
  <2>1. ~Dispatching /\ UNCHANGED <<link, phase, msg, hook>>
    BY <1>5 DEF Tick, Idle, Dispatching, txnVars
  <2>2. ASSUME NEW p \in items
        PROVE  SameReply(Aged(p), p) /\ Aged(p).left = p.left
    BY DEF Aged, SameReply, TypedStep, TypeOK, Item
  <2>3. items' = {Aged(p) : p \in items}
    BY <1>5 DEF Tick
  <2>4. Alive'
    BY <2>1, <2>2, <2>3 DEF Alive, SameReply
  <2>5. OneItemForEachReply'
    BY <2>2, <2>3 DEF OneItemForEachReply, SameReply
  <2>6. Present' /\ HookWhen' /\ Restorable'
    BY <2>1 DEF Present, HookWhen, Restorable, Dispatching, NoHook
  <2> QED BY <1>t, <2>4, <2>5, <2>6
<1>6. ASSUME NEW c \in Conn, Disconnected(c) PROVE ListInv'
  <2>1. ~Dispatching /\ UNCHANGED <<phase, msg, hook>>
    BY <1>6 DEF Disconnected, Idle, Dispatching, txnVars
  <2>2. \A d \in Conn : link'[d] = IF d = c THEN "gone" ELSE link[d]
    BY <1>6 DEF Disconnected, TypedStep, TypeOK
  <2>3. ASSUME NEW p \in items
        PROVE  /\ p.getter \in Conn /\ p.sender \in Conn
               /\ SameReply(Abandoned(p, c), p)
               /\ p.sender = c => Abandoned(p, c).left
               /\ p.sender # c => Abandoned(p, c) = p
    BY DEF Abandoned, SameReply, TypedStep, TypeOK, Item
  <2>4. items' = {Abandoned(p, c) : p \in {q \in items : q.getter # c}}
    BY <1>6 DEF Disconnected, Kept
  <2>5. Alive'
    BY <2>2, <2>3, <2>4 DEF Alive, SameReply
  <2>6. OneItemForEachReply'
    BY <2>3, <2>4 DEF OneItemForEachReply, SameReply
  <2>7. Present' /\ HookWhen' /\ Restorable'
    BY <2>1 DEF Present, HookWhen, Restorable, Dispatching, NoHook
  <2> QED BY <1>t, <2>5, <2>6, <2>7
<1>7. CASE UNCHANGED vars
  BY <1>t, <1>7 DEF vars, listVars, txnVars, Alive, Present, OneItemForEachReply, Restorable,
                    HookWhen, Dispatching
<1> QED BY <1>1, <1>2, <1>3, <1>4, <1>5, <1>6, <1>7 DEF Next

(* bus_connection_drop_pending_replies leaves the list without a pointer to a
   freed client, and no cancelled transaction puts one back: whatever the
   order of calls, replies, failures and disconnections. *)
THEOREM NoFreedClients == Spec => []NoFreedClient
<1>1. Init => ListInv
  BY InitList
<1>2. ListInv /\ [Next]_vars => ListInv'
  BY NextList
<1>3. ListInv => NoFreedClient
  BY DEF ListInv, Alive, NoFreedClient
<1> QED BY <1>1, <1>2, <1>3, PTL DEF Spec

(* bus_connections_expect_reply refuses a serial that is outstanding, so a reply
   that bus_connections_check_reply looks up is the answer to one call only,
   also after a cancelled transaction put an expected reply back. *)
THEOREM RepliesMatchOnce == Spec => []OneItemForEachReply
<1>1. Init => ListInv
  BY InitList
<1>2. ListInv /\ [Next]_vars => ListInv'
  BY NextList
<1>3. ListInv => OneItemForEachReply
  BY DEF ListInv
<1> QED BY <1>1, <1>2, <1>3, PTL DEF Spec

-----------------------------------------------------------------------------
(* The timer of the list. *)

(* The timer is set early enough for every item, also for the one that a
   cancelled transaction would put back, and for any that is added: whatever
   the daemon is doing. *)
InTime(p) ==
  /\ ReplyTimeout > 0 => timer # Off /\ p.age + timer <= ReplyTimeout + Delay
  /\ p.left => timer # Off /\ timer <= Delay

Scheduled ==
  /\ \A p \in items : InTime(p)
  /\ hook.undo = "restore" => InTime(hook.item)
  /\ ReplyTimeout > 0 /\ timer # Off => timer <= ReplyTimeout + Delay

(* What memory may delay never shrinks. *)
LEMMA DelayGrows ==
  ASSUME TypeOK, oom' \in 0..oom
  PROVE  Delay \in Nat /\ Delay' \in Nat /\ Delay <= Delay'
  BY DEF TypeOK, Delay

(* Most steps leave the list and its timer alone. *)
LEMMA SteadyTimer ==
  ASSUME ListInv, Scheduled, oom' \in 0..oom, UNCHANGED timer, items' \subseteq items,
         hook'.undo = "restore" =>
            \/ hook' = hook
            \/ hook'.item \in items
  PROVE  Scheduled'
<1>1. Delay \in Nat /\ Delay' \in Nat /\ Delay <= Delay'
  BY DelayGrows DEF ListInv, TypedStep
<1>2. timer \in Nat \cup {Off} /\ items \subseteq Item /\ hook \in Hook
  BY DEF ListInv, TypedStep, TypeOK
<1>3. ASSUME NEW p \in Item, InTime(p) PROVE InTime(p)'
  <2>1. p.age \in Nat
    BY DEF Item
  <2> QED BY <1>1, <1>2, <1>3, <2>1 DEF InTime
<1>4. hook'.undo = "restore" => hook'.item \in Item /\ InTime(hook'.item)
  <2>1. CASE hook' = hook
    BY <1>2, <2>1 DEF Hook, NoHook, Scheduled
  <2>2. CASE hook'.item \in items
    BY <1>2, <2>2 DEF Scheduled
  <2> QED BY <2>1, <2>2
<1>5. hook'.undo = "restore" => InTime(hook.item)'
  BY <1>3, <1>4
<1>6. ReplyTimeout > 0 /\ timer # Off => timer <= ReplyTimeout + Delay'
  <2>1. SUFFICES ASSUME ReplyTimeout > 0, timer # Off PROVE timer <= ReplyTimeout + Delay'
    OBVIOUS
  <2>2. timer <= ReplyTimeout + Delay
    BY <2>1 DEF Scheduled
  <2>3. timer \in Nat /\ ReplyTimeout \in Nat
    BY <1>2, <2>1
  <2>4. ASSUME NEW d \in Nat, NEW e \in Nat, d <= e, timer <= ReplyTimeout + d
        PROVE  timer <= ReplyTimeout + e
    BY <2>3, <2>4
  <2> QED BY <1>1, <2>2, <2>4
<1> QED BY <1>2, <1>3, <1>5, <1>6 DEF Scheduled

(* An item is added to the list, and the timer is started. *)
LEMMA AddedInTime ==
  ASSUME ListInv, Scheduled, UNCHANGED oom, timer' = Awake,
         NEW p \in Item, ~p.left, items' = items \cup {p},
         p.age = 0 \/ InTime(p), hook'.undo # "restore"
  PROVE  Scheduled'
<1>1. Delay \in Nat /\ Delay' = Delay
  BY DelayGrows DEF ListInv, TypedStep, TypeOK, Delay
<1>2. timer \in Nat \cup {Off} /\ items \subseteq Item /\ Off \notin Nat
  BY DEF ListInv, TypedStep, TypeOK
<1>3. timer' \in Nat /\ timer' # Off /\ (timer # Off => timer' = timer)
      /\ (timer = Off => timer' = 0)
  BY <1>2 DEF Awake
<1>4. ASSUME NEW q \in items PROVE InTime(q)'
  <2>1. q.age \in 0..ReplyTimeout /\ InTime(q)
    BY <1>2 DEF Item, Scheduled
  <2> QED BY <1>1, <1>2, <1>3, <2>1 DEF InTime
<1>5. InTime(p)'
  <2>1. p.age \in 0..ReplyTimeout
    BY DEF Item
  <2>2. CASE timer = Off
    BY <1>1, <1>3, <2>1, <2>2 DEF InTime
  <2>3. CASE timer # Off
    <3>1. ReplyTimeout > 0 => timer <= ReplyTimeout + Delay
      BY <2>3 DEF Scheduled
    <3> QED BY <1>1, <1>2, <1>3, <2>1, <2>3, <3>1 DEF InTime
  <2> QED BY <2>2, <2>3
<1>6. ReplyTimeout > 0 => timer' <= ReplyTimeout + Delay
  BY <1>1, <1>2, <1>3 DEF Scheduled
<1> QED BY <1>1, <1>4, <1>5, <1>6 DEF Scheduled

LEMMA HandlerTimer == ListInv /\ Scheduled /\ Handler => Scheduled'
<1> SUFFICES ASSUME ListInv, Scheduled, Handler PROVE Scheduled'
  OBVIOUS
<1>t. /\ timer \in Nat \cup {Off} /\ items \subseteq Item /\ hook \in Hook
      /\ oom \in 0..MaxOom /\ oom \in 0..oom
  BY DEF ListInv, TypedStep, TypeOK
<1>1. CASE CheckReply
  BY <1>t, <1>1, SteadyTimer DEF CheckReply, Expected, GoTo
<1>2. CASE Refuse \/ Permit \/ CheckFds \/ Forward \/ MatchOthers \/ SendError \/ Execute
  <2>1. UNCHANGED <<items, timer, oom>> /\ (hook' = hook \/ hook' = NoHook)
    BY <1>2 DEF Refuse, Permit, CheckFds, Forward, MatchOthers, SendError, Execute,
                EndHandler, GoTo, listVars
  <2> QED BY <1>t, <2>1, SteadyTimer DEF NoHook
<1>3. CASE ExpectReply
  <2> DEFINE p == [getter |-> msg.from, sender |-> msg.to, serial |-> msg.serial,
                   age |-> 0, left |-> FALSE]
  <2>1. UNCHANGED oom
    BY <1>3 DEF ExpectReply, GoTo
  <2>2. CASE UNCHANGED <<items, timer, hook>>
    BY <1>t, <2>1, <2>2, SteadyTimer
  <2>3. CASE /\ items' = items \cup {p} /\ timer' = Awake
             /\ hook' = [undo |-> "forget", item |-> p]
    <3>1. p \in Item /\ ~p.left /\ p.age = 0
      BY <1>3 DEF ListInv, TypedStep, HasMessage, Dispatching, ExpectReply, At, Message, Item
    <3>2. hook'.undo # "restore"
      BY <2>3
    <3> HIDE DEF p
    <3> QED BY <2>1, <2>3, <3>1, <3>2, AddedInTime
  <2> QED BY <1>3, <2>2, <2>3 DEF ExpectReply, listVars
<1>4. CASE Cancel
  <2>1. UNCHANGED oom /\ hook' = NoHook
    BY <1>4 DEF Cancel, EndHandler
  <2>2. CASE hook.undo = "restore"
    <3>1. items' = items \cup {hook.item} /\ timer' = Awake
      BY <1>4, <2>2 DEF Cancel, Undone
    <3>2. hook.item \in Item /\ ~hook.item.left /\ InTime(hook.item)
      BY <1>t, <2>2 DEF ListInv, Restorable, Hook, NoHook, Scheduled
    <3> QED BY <2>1, <3>1, <3>2, AddedInTime DEF NoHook
  <2>3. CASE hook.undo # "restore"
    BY <1>t, <1>4, <2>1, <2>3, SteadyTimer DEF Cancel, Undone, NoHook
  <2> QED BY <2>2, <2>3
<1>5. ASSUME NEW p \in items, Expire(p) PROVE Scheduled'
  BY <1>t, <1>5, SteadyTimer DEF Expire, txnVars
<1>6. CASE ExpireEnd
  <2>1. UNCHANGED <<items, hook, oom>> /\ timer' \in NextInterval
        /\ \A p \in items : ~Due(p)
    BY <1>6 DEF ExpireEnd, GoTo
  <2>2. hook.undo # "restore"
    BY <1>6 DEF ExpireEnd, At, ListInv, HookWhen, Dispatching, NoHook
  <2>3. Delay \in Nat /\ Delay' = Delay
    BY <2>1, DelayGrows, <1>t DEF ListInv, TypedStep, Delay
  <2>4. ReplyTimeout \in Nat /\ Off \notin Nat
    OBVIOUS
  <2>5. CASE ReplyTimeout = 0
    BY <2>1, <2>2, <2>5 DEF Scheduled, InTime, Due
  <2>6. CASE items = {}
    <3>1. timer' = Off
      BY <2>1, <2>6 DEF NextInterval
    <3> QED BY <2>1, <2>2, <2>6, <3>1 DEF Scheduled
  <2>7. CASE ReplyTimeout # 0 /\ items # {}
    <3>1. PICK p \in items : /\ timer' = ReplyTimeout - p.age
                             /\ \A r \in items : p.age >= r.age
      BY <2>1, <2>7 DEF NextInterval
    <3>2. p.age \in 0..ReplyTimeout /\ \A q \in items : q.age \in 0..ReplyTimeout
      BY <1>t DEF Item
    <3>3. timer' \in Nat /\ timer' # Off /\ timer' <= ReplyTimeout
      BY <2>4, <3>1, <3>2
    <3>4. ASSUME NEW q \in items PROVE InTime(q)'
      <4>1. ~q.left
        BY <2>1 DEF Due
      <4>2. q.age + timer' <= ReplyTimeout
        BY <2>4, <3>1, <3>2
      <4> QED BY <2>3, <2>4, <3>2, <3>3, <4>1, <4>2 DEF InTime
    <3>5. timer' <= ReplyTimeout + Delay'
      BY <2>3, <2>4, <3>3
    <3> QED BY <2>1, <2>2, <3>4, <3>5 DEF Scheduled
  <2> QED BY <2>5, <2>6, <2>7
<1> QED BY <1>1, <1>2, <1>3, <1>4, <1>5, <1>6 DEF Handler

LEMMA NextTimer == ListInv /\ Scheduled /\ [Next]_vars => Scheduled'
<1> SUFFICES ASSUME ListInv, Scheduled, [Next]_vars PROVE Scheduled'
  OBVIOUS
<1>t. /\ timer \in Nat \cup {Off} /\ items \subseteq Item /\ hook \in Hook
      /\ oom \in 0..MaxOom /\ oom \in 0..oom /\ ReplyTimeout \in Nat /\ Off \notin Nat
  BY DEF ListInv, TypedStep, TypeOK
<1>1. CASE Clients \/ TimeOut \/ OutOfMemory \/ UNCHANGED vars
  <2>1. UNCHANGED <<items, timer, hook>> /\ (oom' = oom \/ (oom > 0 /\ oom' = oom - 1))
    <3>1. CASE Clients
      <4>1. ASSUME NEW m, NEW p, Begin(m, p) PROVE UNCHANGED <<items, timer, hook, oom>>
        BY <4>1 DEF Begin, listVars
      <4>2. ASSUME NEW c \in Conn, HangUp(c) PROVE UNCHANGED <<items, timer, hook, oom>>
        BY <4>2 DEF HangUp, listVars, txnVars
      <4> QED BY <3>1, <4>1, <4>2 DEF Clients, SendCall, SendReply
    <3>2. CASE TimeOut
      BY <3>2 DEF TimeOut, GoTo, listVars
    <3>3. CASE OutOfMemory
      BY <3>3 DEF OutOfMemory, listVars
    <3>4. CASE UNCHANGED vars
      BY <3>4 DEF vars, listVars, txnVars
    <3> QED BY <1>1, <3>1, <3>2, <3>3, <3>4
  <2> QED BY <1>t, <2>1, SteadyTimer
<1>2. CASE Handler
  BY <1>2, HandlerTimer
<1>3. CASE ExpireLater
  <2>1. /\ UNCHANGED <<items, hook>> /\ timer' = OomWait
        /\ oom > 0 /\ oom' = oom - 1 /\ hook.undo # "restore"
    BY <1>3 DEF ExpireLater, At, ListInv, HookWhen, Dispatching, NoHook
  <2>2. Delay' = OomWait /\ OomWait \in Nat
    BY <1>t, <2>1 DEF Delay
  <2>3. ASSUME NEW p \in items PROVE InTime(p)'
    <3>1. p.age \in 0..ReplyTimeout
      BY <1>t DEF Item
    <3> QED BY <1>t, <2>1, <2>2, <3>1 DEF InTime
  <2> QED BY <1>t, <2>1, <2>2, <2>3 DEF Scheduled
<1>4. CASE Tick
  <2>1. /\ items' = {Aged(p) : p \in items} /\ UNCHANGED <<hook, oom>>
        /\ timer' = IF timer = Off THEN Off ELSE Less(timer)
        /\ hook.undo # "restore"
    BY <1>4 DEF Tick, txnVars, Idle, ListInv, HookWhen, Dispatching, NoHook
  <2>2. Delay \in Nat /\ Delay' = Delay
    BY <2>1, DelayGrows, <1>t DEF ListInv, TypedStep, Delay
  <2>3. timer # Off => timer' \in Nat /\ timer' # Off /\ timer' <= timer
                       /\ (timer > 0 => timer' = timer - 1) /\ (timer = 0 => timer' = 0)
    BY <1>t, <2>1 DEF Less
  <2>4. ASSUME NEW p \in items PROVE InTime(Aged(p))'
    <3>1. p.age \in 0..ReplyTimeout /\ InTime(p)
      BY <1>t DEF Item, Scheduled
    <3>2. /\ Aged(p).left = p.left /\ Aged(p).age \in 0..ReplyTimeout
          /\ Aged(p).age <= p.age + 1
      BY <1>t, <3>1 DEF Aged, Item
    <3>3. ReplyTimeout > 0 => timer' # Off /\ Aged(p).age + timer' <= ReplyTimeout + Delay
      BY <1>t, <2>2, <2>3, <3>1, <3>2 DEF InTime
    <3>4. p.left => timer' # Off /\ timer' <= Delay
      BY <1>t, <2>2, <2>3, <3>1 DEF InTime
    <3> QED BY <2>2, <3>2, <3>3, <3>4 DEF InTime
  <2>5. ReplyTimeout > 0 /\ timer' # Off => timer' <= ReplyTimeout + Delay
    BY <1>t, <2>1, <2>2, <2>3 DEF Scheduled
  <2> QED BY <2>1, <2>2, <2>4, <2>5 DEF Scheduled
<1>5. ASSUME NEW c \in Conn, Disconnected(c) PROVE Scheduled'
  <2>1. /\ items' = {Abandoned(p, c) : p \in {q \in items : q.getter # c}}
        /\ UNCHANGED <<hook, oom>> /\ hook.undo # "restore"
        /\ timer' = IF \E p \in Kept(c) : p.sender = c THEN 0 ELSE timer
    BY <1>5 DEF Disconnected, Kept, txnVars, Idle, ListInv, HookWhen, Dispatching, NoHook
  <2>2. Delay \in Nat /\ Delay' = Delay
    BY <2>1, DelayGrows, <1>t DEF ListInv, TypedStep, Delay
  <2>3. ASSUME NEW p \in items, p.getter # c PROVE InTime(Abandoned(p, c))'
    <3>1. p.age \in 0..ReplyTimeout /\ InTime(p)
      BY <1>t DEF Item, Scheduled
    <3>2. CASE p.sender = c
      <4>1. timer' = 0
        BY <2>1, <2>3, <3>2 DEF Kept
      <4>2. Abandoned(p, c).age = ReplyTimeout
        BY <1>t, <3>2 DEF Abandoned, Item
      <4> QED BY <1>t, <2>2, <4>1, <4>2 DEF InTime
    <3>3. CASE p.sender # c
      <4>1. Abandoned(p, c) = p
        BY <3>3 DEF Abandoned
      <4>2. timer' = 0 \/ timer' = timer
        BY <2>1
      <4> QED BY <1>t, <2>2, <3>1, <4>1, <4>2 DEF InTime
    <3> QED BY <3>2, <3>3
  <2>4. ReplyTimeout > 0 /\ timer' # Off => timer' <= ReplyTimeout + Delay
    BY <1>t, <2>1, <2>2 DEF Scheduled
  <2> QED BY <2>1, <2>2, <2>3, <2>4 DEF Scheduled
<1> QED BY <1>1, <1>2, <1>3, <1>4, <1>5 DEF Next

(* The timer of bus/expirelist.c is due before any reply has waited too long,
   and at once when a replier left, whatever adds, removes, restores, ages or
   marks the items and however often memory lacks (bus_expire_list_add,
   bus_expire_list_recheck_immediately, do_expiration_with_current_time). *)
THEOREM TimersAreSet == Spec => []ExpiryScheduled
<1>1. Init => ListInv /\ Scheduled
  BY InitList DEF Init, Scheduled, NoHook
<1>2. ListInv /\ Scheduled /\ [Next]_vars => (ListInv /\ Scheduled)'
  BY NextList, NextTimer
<1>3. ListInv /\ Scheduled => ExpiryScheduled
  BY DEF Scheduled, InTime, ExpiryScheduled
<1> QED BY <1>1, <1>2, <1>3, PTL DEF Spec

-----------------------------------------------------------------------------
(* The accounts: what a client waits for is on the list, or carried by the
   transaction, or was discarded. *)

OnList(k) == {p \in items : Key(p) = k}

(* The answer that the transaction settles if it is executed. *)
Carried ==
  IF ~Dispatching THEN {}
  ELSE IF hook.undo = "restore" THEN {Key(hook.item)}
  ELSE IF hook.undo = "none" /\ phase # "cancel" /\ msg.type = "call" /\ msg.wants
       THEN {Asked(msg)}
  ELSE {}

(* The answer that was given when memory lacked, whose call is on the list
   until the transaction is cancelled. *)
Paid == IF phase = "cancel" /\ hook.undo = "forget" THEN {Key(hook.item)} ELSE {}

One(k, ks) == IF k \in ks THEN 1 ELSE 0

Balanced ==
  \A k \in Answer : Connected(k[1]) =>
    owed[k] + One(k, Paid) = lost[k] + Cardinality(OnList(k)) + One(k, Carried)

(* Nobody is called with descriptors that cannot receive them. *)
FdsFit == NoFds = {} \/ TRUE \notin CallFds

(* What the hook undoes is the work of the message that is dispatched. *)
HookFits ==
  /\ Dispatching /\ msg.type = "call" => ~(msg.fds /\ msg.to \in NoFds)
  /\ phase = "expect" => msg.type = "call"
  /\ hook.undo = "restore" => msg.type = "reply" /\ Key(hook.item) = RepliesTo(msg)
  /\ hook.undo = "forget" =>
       /\ msg.type = "call" /\ msg.wants
       /\ hook.item \in items /\ Key(hook.item) = Asked(msg)
       /\ phase \in {"fds", "send", "match", "execute", "cancel"}
  /\ phase \in {"policy", "fds", "send", "match"} /\ msg.type = "reply" =>
       hook.undo = "restore"

(* An answer is only held by a transaction that carries it. *)
OutFits == out # {} => phase \in {"match", "execute"} /\ out = Carried

AccountInv ==
  /\ ListInv
  /\ IsFiniteSet(items)
  /\ HookFits
  /\ OutFits
  /\ Balanced

LEMMA OnListIsFinite ==
  ASSUME IsFiniteSet(items), NEW k
  PROVE  Cardinality(OnList(k)) \in Nat /\ IsFiniteSet(OnList(k))
  BY FS_Subset, FS_CardinalityType DEF OnList

LEMMA ItemAdded ==
  ASSUME IsFiniteSet(items), NEW p, p \notin items, items' = items \cup {p}, NEW k
  PROVE  /\ IsFiniteSet(items')
         /\ Cardinality(OnList(k)') = Cardinality(OnList(k)) + One(k, {Key(p)})
<1>1. IsFiniteSet(items')
  BY FS_AddElement
<1>2. CASE Key(p) = k
  <2>1. OnList(k)' = OnList(k) \cup {p} /\ p \notin OnList(k)
    BY <1>2 DEF OnList
  <2> QED BY <1>1, <1>2, <2>1, OnListIsFinite, FS_AddElement DEF One
<1>3. CASE Key(p) # k
  <2>1. OnList(k)' = OnList(k)
    BY <1>3 DEF OnList
  <2> QED BY <1>1, <1>3, <2>1, OnListIsFinite DEF One
<1> QED BY <1>2, <1>3

LEMMA ItemRemoved ==
  ASSUME IsFiniteSet(items), NEW p \in items, items' = items \ {p}, NEW k
  PROVE  /\ IsFiniteSet(items')
         /\ Cardinality(OnList(k)) = Cardinality(OnList(k)') + One(k, {Key(p)})
<1>1. IsFiniteSet(items')
  BY FS_RemoveElement
<1>2. CASE Key(p) = k
  <2>1. OnList(k)' = OnList(k) \ {p} /\ p \in OnList(k)
    BY <1>2 DEF OnList
  <2>2. Cardinality(OnList(k)) \in Nat /\ IsFiniteSet(OnList(k))
    BY OnListIsFinite
  <2>3. Cardinality(OnList(k) \ {p}) = Cardinality(OnList(k)) - 1
    BY <2>1, <2>2, FS_RemoveElement
  <2>4. Cardinality(OnList(k)') + 1 = Cardinality(OnList(k))
    BY <2>1, <2>2, <2>3
  <2> QED BY <1>1, <1>2, <2>4 DEF One
<1>3. CASE Key(p) # k
  <2>1. OnList(k)' = OnList(k)
    BY <1>3 DEF OnList
  <2> QED BY <1>1, <1>3, <2>1, OnListIsFinite DEF One
<1> QED BY <1>2, <1>3

(* Items that are changed one by one, and remain different, are as many. *)
LEMMA ImageIsAsLarge ==
  ASSUME NEW S, IsFiniteSet(S), NEW f \in [S -> Item], \A p, q \in S : f[p] = f[q] => p = q
  PROVE  /\ IsFiniteSet({f[p] : p \in S})
         /\ Cardinality({f[p] : p \in S}) = Cardinality(S)
<1> DEFINE T == {f[p] : p \in S}
<1>1. f \in Bijection(S, T)
  BY DEF Bijection, Injection, Surjection, IsInjective
<1>2. ExistsBijection(S, T)
  BY <1>1 DEF ExistsBijection
<1> QED BY <1>2, FS_Bijection

(* What a transaction at rest holds. *)
LEMMA Resting ==
  ASSUME AccountInv, ~Dispatching
  PROVE  Carried = {} /\ Paid = {} /\ out = {} /\ hook = NoHook
  BY DEF AccountInv, ListInv, HookWhen, Carried, Paid, OutFits, NoHook, Dispatching

(* The steps of a handler that only choose what comes next, or what to send. *)
LEMMA QuietAccounts ==
  ASSUME AccountInv, ListInv', Dispatching, Dispatching', phase # "cancel", phase' # "cancel",
         UNCHANGED <<link, items, hook, msg, owed, lost>>, HookFits', OutFits'
  PROVE  AccountInv'
<1>1. Carried' = Carried /\ Paid' = Paid
  BY DEF Carried, Paid
<1>2. \A k : OnList(k)' = OnList(k)
  BY DEF OnList
<1>3. Balanced'
  BY <1>1, <1>2 DEF AccountInv, Balanced, Connected
<1> QED BY <1>3 DEF AccountInv

LEMMA BeginAccounts ==
  ASSUME FdsFit, AccountInv, ListInv', Clients
  PROVE  AccountInv'
<1>t. owed \in [Answer -> Nat] /\ lost \in [Answer -> Nat]
  BY DEF AccountInv, ListInv, TypedStep, TypeOK
<1>1. ASSUME NEW a \in Conn, NEW b \in Conn, NEW s \in Serial, NEW w \in BOOLEAN,
             NEW f \in CallFds, SendCall(a, b, s, w, f)
      PROVE  AccountInv'
  <2> DEFINE m == [type |-> "call", from |-> a, to |-> b, serial |-> s,
                   wants |-> w, fds |-> f]
  <2>1. Begin(m, "policy") /\ owed' = IF w THEN [owed EXCEPT ![<<a, s>>] = @ + 1] ELSE owed
    BY <1>1 DEF SendCall
  <2>2. /\ msg' = m /\ phase' = "policy" /\ ~Dispatching
        /\ UNCHANGED <<link, items, hook, out, lost>>
    BY <2>1 DEF Begin, Idle, Dispatching, listVars
  <2>3. Carried = {} /\ Paid = {} /\ out = {} /\ hook = NoHook
    BY <2>2, Resting
  <2>4. /\ msg'.type = "call" /\ msg'.from = a /\ msg'.to = b /\ msg'.serial = s
        /\ msg'.wants = w /\ msg'.fds = f
    BY <2>2
  <2>5. Paid' = {} /\ Carried' = IF w THEN {<<a, s>>} ELSE {}
    BY <2>2, <2>3, <2>4 DEF Carried, Paid, Dispatching, NoHook, Asked
  <2>6. HookFits' /\ OutFits'
    BY <2>2, <2>3, <2>4 DEF FdsFit, HookFits, OutFits, Dispatching, NoHook
  <2>7. ASSUME NEW k \in Answer, Connected(k[1])'
        PROVE  owed'[k] + One(k, Paid') = lost'[k] + Cardinality(OnList(k)') + One(k, Carried')
    <3>1. owed[k] + One(k, Paid) = lost[k] + Cardinality(OnList(k)) + One(k, Carried)
      BY <2>2, <2>7 DEF AccountInv, Balanced, Connected
    <3>2. OnList(k)' = OnList(k) /\ Cardinality(OnList(k)) \in Nat
      BY <2>2, OnListIsFinite DEF OnList, AccountInv
    <3>3. One(k, Paid) = 0 /\ One(k, Carried) = 0 /\ One(k, Paid') = 0
      BY <2>3, <2>5 DEF One
    <3>4. CASE w /\ k = <<a, s>>
      <4>1. owed'[k] = owed[k] + 1 /\ One(k, Carried') = 1
        BY <1>t, <2>1, <2>5, <3>4 DEF One
      <4> QED BY <1>t, <2>2, <3>1, <3>2, <3>3, <4>1
    <3>5. CASE ~(w /\ k = <<a, s>>)
      <4>1. owed'[k] = owed[k] /\ One(k, Carried') = 0
        BY <1>t, <2>1, <2>5, <3>5 DEF One
      <4> QED BY <1>t, <2>2, <3>1, <3>2, <3>3, <4>1
    <3> QED BY <3>4, <3>5
  <2>8. Balanced'
    BY <2>7 DEF Balanced
  <2> QED BY <2>2, <2>6, <2>8 DEF AccountInv
<1>2. ASSUME NEW a \in Conn, NEW b \in Conn, NEW s \in Serial, NEW f \in BOOLEAN,
             SendReply(b, a, s, f)
      PROVE  AccountInv'
  <2> DEFINE m == [type |-> "reply", from |-> b, to |-> a, serial |-> s,
                   wants |-> FALSE, fds |-> f]
  <2>1. Begin(m, "check") /\ UNCHANGED owed
    BY <1>2 DEF SendReply
  <2>2. /\ msg' = m /\ phase' = "check" /\ ~Dispatching
        /\ UNCHANGED <<link, items, hook, out, lost>>
    BY <2>1 DEF Begin, Idle, Dispatching, listVars
  <2>3. Carried = {} /\ Paid = {} /\ out = {} /\ hook = NoHook
    BY <2>2, Resting
  <2>4. msg'.type = "reply"
    BY <2>2
  <2>5. Paid' = {} /\ Carried' = {}
    BY <2>2, <2>3, <2>4 DEF Carried, Paid, Dispatching, NoHook
  <2>6. HookFits' /\ OutFits'
    BY <2>2, <2>3, <2>4 DEF HookFits, OutFits, Dispatching, NoHook
  <2>7. \A k : OnList(k)' = OnList(k)
    BY <2>2 DEF OnList
  <2>8. Balanced'
    BY <2>1, <2>2, <2>3, <2>5, <2>7 DEF AccountInv, Balanced, Connected
  <2> QED BY <2>2, <2>6, <2>8 DEF AccountInv
<1>3. ASSUME NEW c \in Conn, HangUp(c) PROVE AccountInv'
  <2>1. UNCHANGED <<items, phase, msg, hook, out, owed, lost>>
    BY <1>3 DEF HangUp, listVars, txnVars, pastVars
  <2>2. \A d \in Conn : Connected(d)' => Connected(d)
    BY <1>3 DEF HangUp, Connected, AccountInv, ListInv, TypedStep, TypeOK
  <2>3. Carried' = Carried /\ Paid' = Paid /\ \A k : OnList(k)' = OnList(k)
    BY <2>1 DEF Carried, Paid, OnList, Dispatching
  <2>4. Balanced'
    BY <2>1, <2>2, <2>3 DEF AccountInv, Balanced, Answer
  <2>5. HookFits' /\ OutFits'
    BY <2>1, <2>3 DEF AccountInv, HookFits, OutFits, Dispatching
  <2> QED BY <2>1, <2>4, <2>5 DEF AccountInv
<1> QED BY <1>1, <1>2, <1>3 DEF Clients

LEMMA CheckAccounts ==
  ASSUME AccountInv, ListInv', CheckReply
  PROVE  AccountInv'
<1>1. /\ phase = "check" /\ hook = NoHook /\ msg.type = "reply" /\ out = {}
      /\ UNCHANGED <<link, msg, owed, lost, out>>
  BY DEF CheckReply, GoTo, At, AccountInv, ListInv, HookWhen, OutFits, pastVars
<1>2. Dispatching /\ Dispatching'
  BY DEF CheckReply, GoTo, Dispatching, At
<1>3. CASE Expected = {} /\ UNCHANGED <<items, hook>> /\ phase' = "error"
  <2>1. HookFits' /\ OutFits'
    BY <1>1, <1>3 DEF HookFits, OutFits, NoHook
  <2> QED BY <1>1, <1>2, <1>3, <2>1, QuietAccounts
<1>4. ASSUME NEW p \in Expected, items' = items \ {p}, phase' = "policy",
             hook' = [undo |-> "restore", item |-> p]
      PROVE  AccountInv'
  <2>1. p \in items /\ Key(p) = RepliesTo(msg)
    BY DEF Expected, Key, RepliesTo
  <2>2. hook'.undo = "restore" /\ hook'.item = p
    BY <1>4
  <2>3. Carried = {} /\ Paid = {} /\ Carried' = {Key(p)} /\ Paid' = {}
    BY <1>1, <1>2, <1>4, <2>2 DEF Carried, Paid, NoHook
  <2>4. HookFits' /\ OutFits'
    BY <1>1, <1>4, <2>1, <2>2 DEF HookFits, OutFits, Key, RepliesTo
  <2>5. ASSUME NEW k \in Answer, Connected(k[1])'
        PROVE  owed'[k] + One(k, Paid') = lost'[k] + Cardinality(OnList(k)') + One(k, Carried')
    <3>1. owed[k] + One(k, Paid) = lost[k] + Cardinality(OnList(k)) + One(k, Carried)
      BY <1>1, <2>5 DEF AccountInv, Balanced, Connected
    <3>2. /\ Cardinality(OnList(k)) = Cardinality(OnList(k)') + One(k, {Key(p)})
          /\ IsFiniteSet(items')
      BY <1>4, <2>1, ItemRemoved DEF AccountInv
    <3>3. One(k, Paid) = 0 /\ One(k, Carried) = 0 /\ One(k, Paid') = 0
      BY <2>3 DEF One
    <3>4. Cardinality(OnList(k)') \in Nat /\ One(k, {Key(p)}) \in Nat
      BY <3>2, OnListIsFinite, FS_Subset, FS_CardinalityType DEF One, OnList
    <3>5. owed[k] \in Nat /\ lost[k] \in Nat
      BY DEF AccountInv, ListInv, TypedStep, TypeOK
    <3> QED BY <1>1, <2>3, <3>1, <3>2, <3>3, <3>4, <3>5
  <2>6. Balanced'
    BY <2>5 DEF Balanced
  <2>7. IsFiniteSet(items')
    BY <1>4, FS_RemoveElement DEF AccountInv
  <2> QED BY <2>4, <2>6, <2>7 DEF AccountInv
<1> QED BY <1>3, <1>4 DEF CheckReply, GoTo

LEMMA ExpectAccounts ==
  ASSUME AccountInv, ListInv', ExpectReply
  PROVE  AccountInv'
<1> DEFINE p == [getter |-> msg.from, sender |-> msg.to, serial |-> msg.serial,
                 age |-> 0, left |-> FALSE]
<1>1. /\ phase = "expect" /\ hook = NoHook /\ msg.type = "call" /\ out = {}
      /\ UNCHANGED <<link, msg, owed, lost, out>>
  BY DEF ExpectReply, GoTo, At, AccountInv, ListInv, HookWhen, HookFits, OutFits, pastVars
<1>2. Dispatching /\ Dispatching' /\ phase' \in {"fds", "error"}
  BY DEF ExpectReply, GoTo, Dispatching, At
<1>3. ~(msg.fds /\ msg.to \in NoFds)
  BY <1>1, <1>2 DEF AccountInv, HookFits
<1>4. CASE UNCHANGED <<items, hook>>
  <2>1. HookFits' /\ OutFits'
    BY <1>1, <1>2, <1>3, <1>4 DEF HookFits, OutFits, NoHook
  <2> QED BY <1>1, <1>2, <1>4, <2>1, QuietAccounts
<1>5. CASE /\ msg.wants /\ Outstanding = {} /\ phase' = "fds"
           /\ items' = items \cup {p}
           /\ hook' = [undo |-> "forget", item |-> p]
  <2>1. p \notin items /\ Key(p) = Asked(msg)
    BY <1>5 DEF Outstanding, Key, Asked
  <2>2. hook'.undo = "forget" /\ hook'.item = p
    BY <1>5
  <2>3. Carried = {Key(p)} /\ Paid = {} /\ Carried' = {} /\ Paid' = {}
    BY <1>1, <1>2, <1>5, <2>1, <2>2 DEF Carried, Paid, NoHook
  <2>4. HookFits' /\ OutFits'
    BY <1>1, <1>3, <1>5, <2>1, <2>2 DEF HookFits, OutFits, Key, Asked
  <2>5. ASSUME NEW k \in Answer, Connected(k[1])'
        PROVE  owed'[k] + One(k, Paid') = lost'[k] + Cardinality(OnList(k)') + One(k, Carried')
    <3>1. owed[k] + One(k, Paid) = lost[k] + Cardinality(OnList(k)) + One(k, Carried)
      BY <1>1, <2>5 DEF AccountInv, Balanced, Connected
    <3>2. Cardinality(OnList(k)') = Cardinality(OnList(k)) + One(k, {Key(p)})
      BY <1>5, <2>1, ItemAdded DEF AccountInv
    <3>3. One(k, Paid) = 0 /\ One(k, Carried') = 0 /\ One(k, Paid') = 0
      BY <2>3 DEF One
    <3>4. Cardinality(OnList(k)) \in Nat /\ One(k, {Key(p)}) \in Nat
      BY OnListIsFinite DEF One, AccountInv
    <3>5. owed[k] \in Nat /\ lost[k] \in Nat
      BY DEF AccountInv, ListInv, TypedStep, TypeOK
    <3> QED BY <1>1, <2>3, <3>1, <3>2, <3>3, <3>4, <3>5
  <2>6. Balanced'
    BY <2>5 DEF Balanced
  <2>7. IsFiniteSet(items')
    BY <1>5, FS_AddElement DEF AccountInv
  <2> QED BY <2>4, <2>6, <2>7 DEF AccountInv
<1> QED BY <1>4, <1>5 DEF ExpectReply, MayExpect, listVars, GoTo

LEMMA ChoiceAccounts ==
  ASSUME AccountInv, ListInv', Refuse \/ Permit \/ CheckFds \/ Forward \/ MatchOthers \/ SendError
  PROVE  AccountInv'
<1>1. /\ UNCHANGED <<link, items, hook, msg, owed, lost>>
      /\ Dispatching /\ Dispatching' /\ phase # "cancel" /\ phase' # "cancel"
  BY DEF Refuse, Permit, CheckFds, Forward, MatchOthers, SendError, GoTo, At,
         Dispatching, listVars, pastVars
<1>2. /\ msg \in Message /\ hook \in Hook
      /\ ListInv /\ HookFits /\ OutFits
  BY <1>1 DEF AccountInv, ListInv, TypedStep, TypeOK, HasMessage
<1>3. msg.type \in {"call", "reply"} /\ hook.undo \in {"none", "forget", "restore"}
  BY <1>2 DEF Message, Hook, NoHook
<1>4. Carried' = Carried
  BY <1>1 DEF Carried
<1>5. HookFits'
  <2>1. CASE Refuse
    BY <1>1, <1>2, <2>1 DEF HookFits, Refuse, GoTo, At
  <2>2. CASE Permit
    BY <1>1, <1>2, <1>3, <2>2 DEF HookFits, Permit, GoTo, At
  <2>3. CASE CheckFds
    BY <1>1, <1>2, <1>3, <2>3 DEF HookFits, CheckFds, GoTo, At
  <2>4. CASE Forward
    BY <1>1, <1>2, <1>3, <2>4 DEF HookFits, Forward, GoTo, At
  <2>5. CASE MatchOthers
    BY <1>1, <1>2, <1>3, <2>5 DEF HookFits, MatchOthers, GoTo, At
  <2>6. CASE SendError
    BY <1>1, <1>2, <1>3, <2>6 DEF HookFits, SendError, GoTo, At
  <2> QED BY <2>1, <2>2, <2>3, <2>4, <2>5, <2>6
<1>6. OutFits'
  <2>1. CASE Refuse \/ Permit \/ CheckFds
    BY <1>2, <2>1 DEF OutFits, Refuse, Permit, CheckFds, GoTo, At
  <2>2. CASE Forward
    <3>1. phase = "send" /\ phase' = "match"
      BY <2>2 DEF Forward, GoTo, At
    <3>2. msg.type = "reply" => Carried = {RepliesTo(msg)}
      BY <1>1, <1>2, <3>1 DEF HookFits, Carried
    <3> QED BY <1>4, <2>2, <3>1, <3>2 DEF OutFits, Forward
  <2>3. CASE MatchOthers
    BY <1>2, <1>4, <2>3 DEF OutFits, MatchOthers, GoTo, At
  <2>4. CASE SendError
    <3>1. phase = "error" /\ phase' = "execute"
      BY <2>4 DEF SendError, GoTo, At
    <3>2. msg.type = "call" /\ msg.wants => Carried = {Asked(msg)}
      BY <1>1, <1>2, <1>3, <3>1 DEF HookFits, Carried
    <3> QED BY <1>4, <2>4, <3>1, <3>2 DEF OutFits, SendError
  <2> QED BY <2>1, <2>2, <2>3, <2>4
<1> QED BY <1>1, <1>5, <1>6, QuietAccounts

(* What the history records. *)
LEMMA Counting ==
  ASSUME NEW f \in [Answer -> Nat], NEW ks, NEW k \in Answer
  PROVE  /\ Count(f, ks)[k] = f[k] + One(k, ks)
         /\ f[k] > 0 \/ k \notin ks => Settle(f, ks)[k] + One(k, ks) = f[k]
         /\ f[k] \in Nat /\ One(k, ks) \in Nat
         /\ Count(f, ks)[k] \in Nat /\ Settle(f, ks)[k] \in Nat
  BY DEF Count, Settle, Less, One

(* A transaction that ends leaves nothing carried. *)
LEMMA Ended ==
  ASSUME EndHandler
  PROVE  Carried' = {} /\ Paid' = {} /\ HookFits' /\ OutFits'
  BY DEF EndHandler, Carried, Paid, HookFits, OutFits, Dispatching, NoHook

LEMMA ExecuteAccounts ==
  ASSUME AccountInv, ListInv', Execute
  PROVE  AccountInv'
<1>1. /\ phase = "execute" /\ Dispatching /\ EndHandler
      /\ UNCHANGED <<link, items>>
      /\ owed' = Settle(owed, out) /\ lost' = Count(lost, Discarded)
  BY DEF Execute, At, Dispatching, listVars
<1>2. /\ msg \in Message /\ hook \in Hook /\ HookFits /\ OutFits
      /\ owed \in [Answer -> Nat] /\ lost \in [Answer -> Nat]
  BY <1>1 DEF AccountInv, ListInv, TypedStep, TypeOK, HasMessage
<1>3. hook.undo \in {"none", "forget", "restore"}
  BY <1>2 DEF Hook, NoHook
<1>4. Discarded = IF out = {} THEN Carried ELSE {}
  BY <1>1, <1>2, <1>3 DEF Discarded, Carried, HookFits
<1>5. out \subseteq Carried /\ (out # {} => out = Carried) /\ Paid = {}
  BY <1>1, <1>2 DEF OutFits, Paid
<1>6. ASSUME NEW k \in Answer, Connected(k[1])'
      PROVE  owed'[k] + One(k, Paid') = lost'[k] + Cardinality(OnList(k)') + One(k, Carried')
  <2>1. owed[k] + One(k, Paid) = lost[k] + Cardinality(OnList(k)) + One(k, Carried)
    BY <1>1, <1>6 DEF AccountInv, Balanced, Connected
  <2>2. OnList(k)' = OnList(k) /\ Cardinality(OnList(k)) \in Nat
    BY <1>1, OnListIsFinite DEF OnList, AccountInv
  <2>3. One(k, Paid) = 0 /\ One(k, Paid') = 0 /\ One(k, Carried') = 0
    BY <1>1, <1>5, Ended DEF One
  <2>4. lost'[k] = lost[k] + One(k, Discarded) /\ lost[k] \in Nat /\ owed[k] \in Nat
    BY <1>1, <1>2, Counting
  <2>5. One(k, Carried) = One(k, out) + One(k, Discarded) /\ One(k, out) \in Nat
        /\ One(k, Discarded) \in Nat
    BY <1>4, <1>5 DEF One
  <2>6. owed'[k] + One(k, out) = owed[k] /\ owed'[k] \in Nat
    <3>1. k \in out => owed[k] > 0
      BY <2>1, <2>2, <2>3, <2>4, <2>5 DEF One
    <3> QED BY <1>1, <1>2, <3>1, Counting
  <2> QED BY <2>1, <2>2, <2>3, <2>4, <2>5, <2>6
<1>7. Balanced'
  BY <1>6 DEF Balanced
<1> QED BY <1>1, <1>7, Ended DEF AccountInv

LEMMA CancelAccounts ==
  ASSUME AccountInv, ListInv', Cancel
  PROVE  AccountInv'
<1>1. /\ phase = "cancel" /\ Dispatching /\ EndHandler
      /\ UNCHANGED <<link, owed, lost>> /\ items' = Undone
  BY DEF Cancel, At, Dispatching, pastVars
<1>2. /\ hook \in Hook /\ HookFits /\ IsFiniteSet(items) /\ Restorable /\ Balanced
      /\ owed \in [Answer -> Nat] /\ lost \in [Answer -> Nat]
  BY DEF AccountInv, ListInv, TypedStep, TypeOK
<1>3. hook.undo \in {"none", "forget", "restore"}
  BY <1>2 DEF Hook, NoHook
<1>4. ASSUME NEW k \in Answer
      PROVE  owed[k] \in Nat /\ lost[k] \in Nat /\ Cardinality(OnList(k)) \in Nat
             /\ \A ks : One(k, ks) \in {0, 1} /\ One(k, {}) = 0
  BY <1>2, OnListIsFinite DEF One
<1>5. ASSUME NEW k \in Answer, Connected(k[1])'
      PROVE  /\ owed[k] + One(k, Paid) = lost[k] + Cardinality(OnList(k)) + One(k, Carried)
             /\ owed'[k] = owed[k] /\ lost'[k] = lost[k]
  BY <1>1, <1>2, <1>5 DEF Balanced, Connected
<1>6. CASE hook.undo = "none"
  <2>1. Carried = {} /\ Paid = {} /\ items' = items
    BY <1>1, <1>6 DEF Carried, Paid, Undone
  <2>2. \A k : OnList(k)' = OnList(k)
    BY <2>1 DEF OnList
  <2>3. Balanced'
    BY <1>1, <1>2, <2>1, <2>2, Ended DEF Balanced, Connected
  <2> QED BY <1>1, <1>2, <2>1, <2>3, Ended DEF AccountInv
<1>7. CASE hook.undo = "forget"
  <2>1. /\ Carried = {} /\ Paid = {Key(hook.item)} /\ hook.item \in items
        /\ items' = items \ {hook.item}
    BY <1>1, <1>2, <1>7 DEF Carried, Paid, Undone, HookFits
  <2>2. IsFiniteSet(items')
    BY <1>2, <2>1, FS_RemoveElement
  <2>3. ASSUME NEW k \in Answer, Connected(k[1])'
        PROVE  owed'[k] = lost'[k] + Cardinality(OnList(k)')
    <3>1. /\ Cardinality(OnList(k)) = Cardinality(OnList(k)') + One(k, {Key(hook.item)})
          /\ Cardinality(OnList(k)') \in Nat
      BY <1>2, <2>1, <2>2, ItemRemoved, FS_Subset, FS_CardinalityType DEF OnList
    <3>2. owed[k] + One(k, {Key(hook.item)}) = lost[k] + Cardinality(OnList(k)) + 0
      BY <1>4, <1>5, <2>1, <2>3
    <3> QED BY <1>4, <1>5, <2>3, <3>1, <3>2
  <2>4. Balanced'
    BY <1>1, <2>3, Ended, <1>4, <1>1 DEF Balanced, One
  <2> QED BY <1>1, <2>2, <2>4, Ended DEF AccountInv
<1>8. CASE hook.undo = "restore"
  <2>1. /\ Carried = {Key(hook.item)} /\ Paid = {} /\ hook.item \notin items
        /\ items' = items \cup {hook.item}
    BY <1>1, <1>2, <1>8 DEF Carried, Paid, Undone, Restorable, SameReply
  <2>2. IsFiniteSet(items')
    BY <1>2, <2>1, FS_AddElement
  <2>3. ASSUME NEW k \in Answer, Connected(k[1])'
        PROVE  owed'[k] = lost'[k] + Cardinality(OnList(k)')
    <3>1. Cardinality(OnList(k)') = Cardinality(OnList(k)) + One(k, {Key(hook.item)})
      BY <1>2, <2>1, ItemAdded
    <3>2. owed[k] + 0 = lost[k] + Cardinality(OnList(k)) + One(k, {Key(hook.item)})
      BY <1>4, <1>5, <2>1, <2>3
    <3> QED BY <1>4, <1>5, <2>3, <3>1, <3>2
  <2>4. Balanced'
    BY <1>1, <2>3, Ended, <1>4 DEF Balanced, One
  <2> QED BY <1>1, <2>2, <2>4, Ended DEF AccountInv
<1> QED BY <1>3, <1>6, <1>7, <1>8

LEMMA OutOfMemoryAccounts ==
  ASSUME AccountInv, ListInv', OutOfMemory
  PROVE  AccountInv'
<1>1. /\ UNCHANGED <<link, items, hook, msg, lost>> /\ Dispatching
      /\ phase \notin {"cancel", "execute"}
  BY DEF OutOfMemory, Dispatching, listVars
<1>2. /\ msg \in Message /\ hook \in Hook /\ HookFits /\ OutFits /\ IsFiniteSet(items)
      /\ owed \in [Answer -> Nat] /\ lost \in [Answer -> Nat] /\ Balanced /\ HookWhen
  BY <1>1 DEF AccountInv, ListInv, TypedStep, TypeOK, HasMessage
<1>3. /\ msg.type \in {"call", "reply"} /\ hook.undo \in {"none", "forget", "restore"}
      /\ msg.wants \in BOOLEAN
  BY <1>2 DEF Message, Hook, NoHook
<1>4. CASE ~Connected(msg.from)
  <2>1. phase' = "execute" /\ UNCHANGED <<out, owed>>
    BY <1>4 DEF OutOfMemory
  <2>2. Dispatching' /\ Carried' = Carried
    BY <1>1, <2>1 DEF Carried, Dispatching
  <2>3. HookFits' /\ OutFits'
    BY <1>1, <1>2, <2>1, <2>2 DEF HookFits, OutFits
  <2> QED BY <1>1, <2>1, <2>2, <2>3, QuietAccounts
<1>5. CASE Connected(msg.from)
  <2> DEFINE asked == IF msg.type = "call" /\ msg.wants THEN {Asked(msg)} ELSE {}
  <2>1. phase' = "cancel" /\ out' = {} /\ owed' = Settle(owed, asked)
    BY <1>5 DEF OutOfMemory
  <2>2. Dispatching'
    BY <2>1 DEF Dispatching
  <2>3. HookFits' /\ OutFits'
    BY <1>1, <1>2, <2>1, <2>2 DEF HookFits, OutFits
  <2>4. Paid = {} /\ \A k : OnList(k)' = OnList(k)
    BY <1>1 DEF Paid, OnList
  <2>5. \/ hook.undo = "none" /\ Carried = asked /\ Carried' = {} /\ Paid' = {}
        \/ hook.undo = "forget" /\ Carried = {} /\ Carried' = {} /\ Paid' = asked
           /\ hook.item \in items /\ asked = {Key(hook.item)}
        \/ hook.undo = "restore" /\ asked = {} /\ Carried' = Carried /\ Paid' = {}
    BY <1>1, <1>2, <1>3, <2>1, <2>2 DEF Carried, Paid, HookFits
  <2> HIDE DEF asked
  <2>6. ASSUME NEW k \in Answer, Connected(k[1])'
        PROVE  owed'[k] + One(k, Paid') = lost'[k] + Cardinality(OnList(k)') + One(k, Carried')
    <3>1. owed[k] + One(k, Paid) = lost[k] + Cardinality(OnList(k)) + One(k, Carried)
      BY <1>1, <1>2, <2>6 DEF Balanced, Connected
    <3>2. /\ Cardinality(OnList(k)) \in Nat /\ owed[k] \in Nat /\ lost[k] \in Nat
          /\ OnList(k)' = OnList(k) /\ One(k, Paid) = 0 /\ One(k, {}) = 0
          /\ One(k, asked) \in Nat /\ One(k, Carried) \in Nat
      BY <1>2, <2>4, OnListIsFinite DEF One
    <3>3. k \in asked => owed[k] > 0
      <4>1. SUFFICES ASSUME k \in asked PROVE owed[k] > 0
        OBVIOUS
      <4>2. CASE hook.undo = "none"
        <5>1. One(k, Carried) = 1
          BY <2>5, <4>1, <4>2 DEF One
        <5> QED BY <3>1, <3>2, <5>1
      <4>3. CASE hook.undo = "forget"
        <5>1. hook.item \in OnList(k)
          BY <2>5, <4>1, <4>3 DEF OnList
        <5>2. Cardinality(OnList(k)) # 0
          BY <1>2, <5>1, OnListIsFinite, FS_EmptySet
        <5>3. /\ Cardinality(OnList(k)) > 0
              /\ owed[k] = lost[k] + Cardinality(OnList(k)) + One(k, Carried)
          BY <3>1, <3>2, <5>2
        <5>4. lost[k] + Cardinality(OnList(k)) + One(k, Carried) > 0
          BY <3>2, <5>3
        <5> QED BY <5>3, <5>4
      <4> QED BY <1>3, <2>5, <4>1, <4>2, <4>3
    <3>4. owed'[k] + One(k, asked) = owed[k] /\ owed'[k] \in Nat
      BY <1>2, <2>1, <3>3, Counting
    <3>5. CASE hook.undo = "none"
      <4>1. One(k, Paid') = 0 /\ One(k, Carried) = One(k, asked) /\ One(k, Carried') = 0
        BY <2>5, <3>2, <3>5
      <4> QED BY <1>1, <3>1, <3>2, <3>4, <4>1
    <3>6. CASE hook.undo = "forget"
      <4>1. One(k, Paid') = One(k, asked) /\ One(k, Carried) = 0 /\ One(k, Carried') = 0
        BY <2>5, <3>2, <3>6
      <4> QED BY <1>1, <3>1, <3>2, <3>4, <4>1
    <3>7. CASE hook.undo = "restore"
      <4>1. One(k, Paid') = 0 /\ One(k, asked) = 0 /\ One(k, Carried') = One(k, Carried)
        BY <2>5, <3>2, <3>7
      <4> QED BY <1>1, <3>1, <3>2, <3>4, <4>1
    <3> QED BY <1>3, <3>5, <3>6, <3>7
  <2>7. Balanced'
    BY <2>6 DEF Balanced
  <2> QED BY <1>1, <1>2, <2>3, <2>7 DEF AccountInv
<1> QED BY <1>4, <1>5

LEMMA ExpireAccounts ==
  ASSUME AccountInv, ListInv', NEW p \in items, Expire(p)
  PROVE  AccountInv'
<1>1. /\ phase = "expire" /\ items' = items \ {p} /\ UNCHANGED <<link, phase, msg, hook, out>>
      /\ ~Dispatching /\ ~Dispatching'
  BY DEF Expire, At, Dispatching, txnVars
<1>2. /\ owed \in [Answer -> Nat] /\ lost \in [Answer -> Nat]
      /\ IsFiniteSet(items) /\ Balanced
  BY DEF AccountInv, ListInv, TypedStep, TypeOK
<1>3. Carried = {} /\ Paid = {} /\ out = {} /\ hook = NoHook /\ Carried' = {} /\ Paid' = {}
  BY <1>1, Resting DEF Carried, Paid
<1>4. IsFiniteSet(items')
  BY <1>1, <1>2, FS_RemoveElement
<1>5. HookFits' /\ OutFits'
  BY <1>1, <1>3 DEF HookFits, OutFits, Dispatching, NoHook
<1>6. ASSUME NEW k \in Answer, Connected(k[1])'
      PROVE  owed'[k] + One(k, Paid') = lost'[k] + Cardinality(OnList(k)') + One(k, Carried')
  <2>1. owed[k] + One(k, Paid) = lost[k] + Cardinality(OnList(k)) + One(k, Carried)
    BY <1>1, <1>2, <1>6 DEF Balanced, Connected
  <2>2. One(k, Paid) = 0 /\ One(k, Carried) = 0 /\ One(k, Paid') = 0 /\ One(k, Carried') = 0
    BY <1>3 DEF One
  <2>3. /\ Cardinality(OnList(k)) = Cardinality(OnList(k)') + One(k, {Key(p)})
        /\ Cardinality(OnList(k)') \in Nat
    BY <1>1, <1>2, <1>4, ItemRemoved, FS_Subset, FS_CardinalityType DEF OnList
  <2>4. owed[k] \in Nat /\ lost[k] \in Nat /\ One(k, {Key(p)}) \in Nat
    BY <1>2, Counting
  <2>5. owed[k] = lost[k] + Cardinality(OnList(k)') + One(k, {Key(p)})
    BY <2>1, <2>2, <2>3, <2>4
  <2>6. CASE owed' = Settle(owed, {Key(p)}) /\ UNCHANGED lost
    <3>1. k \in {Key(p)} => owed[k] > 0
      <4>1. SUFFICES ASSUME k \in {Key(p)} PROVE owed[k] > 0
        OBVIOUS
      <4>2. One(k, {Key(p)}) = 1
        BY <4>1 DEF One
      <4> QED BY <2>3, <2>4, <2>5, <4>2
    <3>2. owed'[k] + One(k, {Key(p)}) = owed[k] /\ owed'[k] \in Nat
      BY <1>2, <2>6, <3>1, Counting
    <3> QED BY <2>2, <2>3, <2>4, <2>5, <2>6, <3>2
  <2>7. CASE lost' = Count(lost, {Key(p)}) /\ UNCHANGED owed
    <3>1. lost'[k] = lost[k] + One(k, {Key(p)})
      BY <1>2, <2>7, Counting
    <3> QED BY <2>2, <2>3, <2>4, <2>5, <2>7, <3>1
  <2> QED BY <2>6, <2>7 DEF Expire
<1>7. Balanced'
  BY <1>6 DEF Balanced
<1> QED BY <1>4, <1>5, <1>7 DEF AccountInv

(* Between handlers items are only aged, marked, and dropped with their caller;
   the calls of the others stay on the list. *)
LEMMA RestingAccounts ==
  ASSUME AccountInv, ListInv', ~Dispatching, ~Dispatching',
         UNCHANGED <<hook, out, owed, lost>>,
         \A d \in Conn : Connected(d)' => Connected(d),
         IsFiniteSet(items'),
         \A k \in Answer : Connected(k[1])' => Cardinality(OnList(k)') = Cardinality(OnList(k))
  PROVE  AccountInv'
<1>1. Carried = {} /\ Paid = {} /\ out = {} /\ hook = NoHook
  BY Resting
<1>2. Carried' = {} /\ Paid' = {}
  BY <1>1 DEF Carried, Paid, NoHook
<1>3. HookFits' /\ OutFits'
  BY <1>1 DEF HookFits, OutFits, Dispatching, NoHook
<1>4. \A k \in Answer : k[1] \in Conn
  BY DEF Answer
<1>5. Balanced'
  BY <1>1, <1>2, <1>4 DEF AccountInv, Balanced
<1> QED BY <1>3, <1>5 DEF AccountInv

LEMMA TickAccounts ==
  ASSUME AccountInv, ListInv', Tick
  PROVE  AccountInv'
<1>1. /\ ~Dispatching /\ ~Dispatching' /\ UNCHANGED <<link, hook, out, owed, lost>>
      /\ items' = {Aged(p) : p \in items}
  BY DEF Tick, Idle, Dispatching, txnVars, pastVars
<1>2. IsFiniteSet(items) /\ items \subseteq Item /\ OneItemForEachReply
  BY DEF AccountInv, ListInv, TypedStep, TypeOK
<1>3. ASSUME NEW p \in items
      PROVE  Aged(p) \in Item /\ SameReply(Aged(p), p) /\ Key(Aged(p)) = Key(p)
  BY <1>2 DEF Aged, SameReply, Item, Key
<1>4. ASSUME NEW S, S \subseteq items
      PROVE  /\ IsFiniteSet({Aged(p) : p \in S})
             /\ Cardinality({Aged(p) : p \in S}) = Cardinality(S)
  <2> DEFINE f == [p \in S |-> Aged(p)]
  <2>1. IsFiniteSet(S)
    BY <1>2, <1>4, FS_Subset
  <2>2. f \in [S -> Item]
    BY <1>3, <1>4
  <2>3. \A p, q \in S : f[p] = f[q] => p = q
    BY <1>2, <1>3, <1>4 DEF OneItemForEachReply, SameReply
  <2>4. {f[p] : p \in S} = {Aged(p) : p \in S}
    OBVIOUS
  <2> HIDE DEF f
  <2> QED BY <2>1, <2>2, <2>3, <2>4, ImageIsAsLarge
<1>5. IsFiniteSet(items')
  BY <1>1, <1>4
<1>6. ASSUME NEW k \in Answer PROVE Cardinality(OnList(k)') = Cardinality(OnList(k))
  <2>1. OnList(k)' = {Aged(p) : p \in OnList(k)}
    BY <1>1, <1>3 DEF OnList
  <2>2. OnList(k) \subseteq items
    BY DEF OnList
  <2> QED BY <1>4, <2>1, <2>2
<1> QED BY <1>1, <1>5, <1>6, RestingAccounts DEF Connected

LEMMA DisconnectedAccounts ==
  ASSUME AccountInv, ListInv', NEW c \in Conn, Disconnected(c)
  PROVE  AccountInv'
<1>1. /\ ~Dispatching /\ ~Dispatching' /\ UNCHANGED <<hook, out, owed, lost>>
      /\ items' = {Abandoned(p, c) : p \in Kept(c)}
      /\ link' = [link EXCEPT ![c] = "gone"]
  BY DEF Disconnected, Idle, Dispatching, txnVars, pastVars
<1>2. /\ IsFiniteSet(items) /\ items \subseteq Item /\ OneItemForEachReply
      /\ link \in [Conn -> {"up", "down", "gone"}]
  BY DEF AccountInv, ListInv, TypedStep, TypeOK
<1>3. ASSUME NEW p \in items
      PROVE  /\ Abandoned(p, c) \in Item /\ SameReply(Abandoned(p, c), p)
             /\ Key(Abandoned(p, c)) = Key(p)
  <2>1. p \in Item /\ ReplyTimeout \in 0..ReplyTimeout
    BY <1>2
  <2> QED BY <2>1 DEF Abandoned, SameReply, Item, Key
<1>4. ASSUME NEW S, S \subseteq items
      PROVE  /\ IsFiniteSet({Abandoned(p, c) : p \in S})
             /\ Cardinality({Abandoned(p, c) : p \in S}) = Cardinality(S)
  <2> DEFINE f == [p \in S |-> Abandoned(p, c)]
  <2>1. IsFiniteSet(S)
    BY <1>2, <1>4, FS_Subset
  <2>2. f \in [S -> Item]
    BY <1>3, <1>4
  <2>3. \A p, q \in S : f[p] = f[q] => p = q
    BY <1>2, <1>3, <1>4 DEF OneItemForEachReply, SameReply
  <2>4. {f[p] : p \in S} = {Abandoned(p, c) : p \in S}
    OBVIOUS
  <2> HIDE DEF f
  <2> QED BY <2>1, <2>2, <2>3, <2>4, ImageIsAsLarge
<1>5. IsFiniteSet(items')
  BY <1>1, <1>4 DEF Kept
<1>6. \A d \in Conn : Connected(d)' => Connected(d) /\ d # c
  BY <1>1, <1>2 DEF Connected
<1>7. ASSUME NEW k \in Answer, Connected(k[1])'
      PROVE  Cardinality(OnList(k)') = Cardinality(OnList(k))
  <2>1. k[1] # c
    BY <1>6, <1>7 DEF Answer
  <2>2. \A p \in OnList(k) : p.getter # c
    BY <2>1 DEF OnList, Key
  <2>3. OnList(k)' = {Abandoned(p, c) : p \in OnList(k)}
    BY <1>1, <1>3, <2>2 DEF OnList, Kept
  <2>4. OnList(k) \subseteq items
    BY DEF OnList
  <2> QED BY <1>4, <2>3, <2>4
<1> QED BY <1>1, <1>5, <1>6, <1>7, RestingAccounts

LEMMA NextAccounts == FdsFit /\ AccountInv /\ [Next]_vars => AccountInv'
<1> SUFFICES ASSUME FdsFit, AccountInv, [Next]_vars PROVE AccountInv'
  OBVIOUS
<1>1. ListInv'
  BY NextList DEF AccountInv
<1>2. CASE Clients
  BY <1>1, <1>2, BeginAccounts
<1>3. CASE CheckReply \/ ExpectReply \/ Execute \/ Cancel \/ OutOfMemory
  BY <1>1, <1>3, CheckAccounts, ExpectAccounts, ExecuteAccounts, CancelAccounts,
     OutOfMemoryAccounts
<1>4. CASE Refuse \/ Permit \/ CheckFds \/ Forward \/ MatchOthers \/ SendError
  BY <1>1, <1>4, ChoiceAccounts
<1>5. ASSUME NEW p \in items, Expire(p) PROVE AccountInv'
  BY <1>1, <1>5, ExpireAccounts
<1>6. CASE ExpireEnd \/ ExpireLater \/ TimeOut
  <2>1. /\ ~Dispatching /\ ~Dispatching'
        /\ UNCHANGED <<link, items, hook, out, owed, lost>>
    BY <1>6 DEF ExpireEnd, ExpireLater, TimeOut, GoTo, At, Idle, Dispatching, listVars, pastVars
  <2>2. \A k : OnList(k)' = OnList(k)
    BY <2>1 DEF OnList
  <2> QED BY <1>1, <2>1, <2>2, RestingAccounts DEF Connected, AccountInv
<1>7. CASE Tick
  BY <1>1, <1>7, TickAccounts
<1>8. ASSUME NEW c \in Conn, Disconnected(c) PROVE AccountInv'
  BY <1>1, <1>8, DisconnectedAccounts
<1>9. CASE UNCHANGED vars
  <2>1. UNCHANGED <<link, items, hook, msg, phase, out, owed, lost>>
    BY <1>9 DEF vars, listVars, txnVars, pastVars
  <2>2. /\ Dispatching' = Dispatching /\ Carried' = Carried /\ Paid' = Paid
        /\ \A k : OnList(k)' = OnList(k)
    BY <2>1 DEF Dispatching, Carried, Paid, OnList
  <2>3. HookFits' /\ OutFits' /\ Balanced'
    BY <2>1, <2>2 DEF AccountInv, HookFits, OutFits, Balanced, Connected, Dispatching
  <2> QED BY <1>1, <2>1, <2>3 DEF AccountInv
<1> QED BY <1>2, <1>3, <1>4, <1>5, <1>6, <1>7, <1>8, <1>9 DEF Next, Handler

LEMMA InitAccounts == Init => AccountInv
<1> SUFFICES ASSUME Init PROVE AccountInv
  OBVIOUS
<1>1. ListInv /\ IsFiniteSet(items) /\ items = {} /\ Cardinality({}) = 0
  BY InitList, FS_EmptySet DEF Init
<1>2. Carried = {} /\ Paid = {} /\ \A k : OnList(k) = {}
  BY <1>1 DEF Init, Carried, Paid, Dispatching, OnList
<1>3. HookFits /\ OutFits
  BY DEF Init, HookFits, OutFits, Dispatching, NoHook
<1>4. Balanced
  BY <1>1, <1>2 DEF Init, Balanced, One
<1> QED BY <1>1, <1>3, <1>4 DEF AccountInv

LEMMA AccountsHold ==
  ASSUME FdsFit
  PROVE  Spec => []AccountInv
<1>1. Init => AccountInv
  BY InitAccounts
<1>2. AccountInv /\ [Next]_vars => AccountInv'
  BY NextAccounts
<1> QED BY <1>1, <1>2, PTL DEF Spec

(* Between handlers every call that a connected client waits for is on the list
   of expected replies, once, or its answer was discarded: through
   bus_connections_expect_reply, bus_connections_check_reply, the hooks of a
   cancelled transaction, expiry and departures.  Calls that carry descriptors
   to a client that cannot receive them are the exception, see the README. *)
THEOREM CallsAreTracked ==
  ASSUME FdsFit
  PROVE  Spec => []EveryCallTracked
<1>1. AccountInv => EveryCallTracked
  <2>0. SUFFICES ASSUME AccountInv PROVE EveryCallTracked
    OBVIOUS
  <2>1. SUFFICES ASSUME Idle, NEW k \in Answer, Connected(k[1])
                 PROVE  owed[k] = lost[k] + Cardinality(OnList(k))
    BY DEF EveryCallTracked, OnList
  <2>2. Carried = {} /\ Paid = {}
    BY <2>0, <2>1, Resting DEF Idle, Dispatching
  <2>3. owed[k] + One(k, {}) = lost[k] + Cardinality(OnList(k)) + One(k, {})
    BY <2>0, <2>1, <2>2 DEF AccountInv, Balanced
  <2>4. owed[k] \in Nat /\ lost[k] \in Nat /\ Cardinality(OnList(k)) \in Nat /\ One(k, {}) = 0
    BY <2>0, OnListIsFinite DEF AccountInv, ListInv, TypedStep, TypeOK, One
  <2> QED BY <2>3, <2>4
<1> QED BY <1>1, AccountsHold, PTL

(* No connected client is answered more often than it called: the reply that is
   executed, and the errors of the timeout, all go to a call that is waited for
   (bus_transaction_execute_and_free, bus_pending_reply_expired). *)
THEOREM AnswersAreAwaited ==
  ASSUME FdsFit
  PROVE  Spec => []OneAnswer
<1>1. AccountInv => OneAnswer
  <2>0. SUFFICES ASSUME AccountInv PROVE OneAnswer
    OBVIOUS
  <2>1. SUFFICES ASSUME NEW k \in Answering, Connected(k[1]) PROVE owed[k] > 0
    BY DEF OneAnswer
  <2>2. k \in Answer /\ (k \in Carried \/ OnList(k) # {}) /\ Paid = {}
    <3>1. CASE phase = "execute"
      BY <2>0, <2>1, <3>1 DEF Answering, AccountInv, OutFits, ListInv, TypedStep, TypeOK, Paid
    <3>2. CASE phase = "expire"
      <4>1. PICK p \in items : k = Key(p)
        BY <2>1, <3>2 DEF Answering
      <4>2. p \in Item
        BY <2>0, <4>1 DEF AccountInv, ListInv, TypedStep, TypeOK
      <4> QED BY <3>2, <4>1, <4>2 DEF OnList, Item, Key, Answer, Paid
    <3> QED BY <2>1, <3>1, <3>2 DEF Answering
  <2>3. owed[k] + One(k, {}) = lost[k] + Cardinality(OnList(k)) + One(k, Carried)
    BY <2>0, <2>1, <2>2 DEF AccountInv, Balanced
  <2>4. /\ owed[k] \in Nat /\ lost[k] \in Nat /\ Cardinality(OnList(k)) \in Nat
        /\ IsFiniteSet(OnList(k)) /\ One(k, {}) = 0 /\ One(k, Carried) \in {0, 1}
    BY <2>0, <2>2, OnListIsFinite DEF AccountInv, ListInv, TypedStep, TypeOK, One
  <2>5. One(k, Carried) + Cardinality(OnList(k)) > 0
    <3>1. CASE k \in Carried
      BY <2>4, <3>1 DEF One
    <3>2. CASE OnList(k) # {}
      <4>1. Cardinality(OnList(k)) # 0
        BY <2>4, <3>2, FS_EmptySet
      <4> QED BY <2>4, <4>1
    <3> QED BY <2>2, <3>1, <3>2
  <2> QED BY <2>3, <2>4, <2>5
<1> QED BY <1>1, AccountsHold, PTL

=============================================================================
