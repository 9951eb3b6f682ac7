--------------------------- MODULE PendingReplies ---------------------------
(***************************************************************************)
(* Calls between clients and the replies the daemon expects to them        *)
(* (bus/connection.c), the list on which they expire (bus/expirelist.c)    *)
(* and the security check that consults it (bus/bus.c).                    *)
(*                                                                         *)
(* bus_dispatch handles one message at a time.  A call is checked against  *)
(* the policy, its reply is expected, and it is forwarded.  A reply is     *)
(* taken off the list, checked, and forwarded.  The steps of one handler   *)
(* are the values of phase:                                                *)
(*    idle, check (is the reply expected), policy, expect (the reply),     *)
(*    fds (can the recipient take descriptors), send, match (other         *)
(*    recipients), error (reply to the sender), execute, cancel            *)
(* and expire is the handler of the list's timeout.                        *)
(*                                                                         *)
(* owed and lost are history: the answers a client waits for, and those    *)
(* the daemon discarded.                                                   *)
(***************************************************************************)
EXTENDS Naturals, FiniteSets

CONSTANTS
  Conn,          \* registered clients; a client is used once
  Serial,        \* serials clients give to their calls
  Off,           \* the timer of the list is disabled
  MaxReplies,    \* max_replies_per_connection
  ReplyTimeout,  \* reply_timeout, in ticks; 0 stands for never
  OomWait,       \* _dbus_get_oom_wait, in ticks
  NoFds,         \* clients that cannot receive file descriptors
  CallFds,       \* whether calls may carry descriptors: a subset of BOOLEAN
  Refusals,      \* why messages are refused: "receive" (policy of the
                 \* recipient), "full" (its queue, or the sender's policy)
  MaxCalls,      \* bound: number of calls made
  MaxOom         \* bound: number of allocations that fail

ASSUME RepliesAssumption ==
  /\ Off \notin Nat
  /\ MaxReplies \in Nat
  /\ ReplyTimeout \in Nat
  /\ OomWait \in Nat
  /\ NoFds \subseteq Conn
  /\ CallFds \subseteq BOOLEAN
  /\ Refusals \subseteq {"receive", "full"}
  /\ MaxCalls \in Nat
  /\ MaxOom \in Nat

VARIABLES
  link,    \* transport of each client: up, down (hung up), gone (freed)
  items,   \* connections->pending_replies
  timer,   \* ticks until the timer of the list is due, or Off
  phase,
  msg,     \* the message bus_dispatch handles
  hook,    \* cancel hook of its transaction: none, or what it undoes
  out,     \* answers its transaction holds, at most one
  oom,     \* allocations that can still fail
  made,    \* calls made so far
  owed,    \* answers each client waits for, by serial
  lost     \* answers the daemon discarded, by client and serial

listVars == <<items, timer>>
txnVars  == <<phase, msg, hook, out>>
pastVars == <<made, owed, lost>>
vars     == <<link, listVars, txnVars, oom, pastVars>>

-----------------------------------------------------------------------------
(* Messages and expected replies. *)

(* Of a reply, serial is the serial it replies to. *)
Message == [type : {"call", "reply"}, from : Conn, to : Conn, serial : Serial,
            wants : BOOLEAN, fds : BOOLEAN]

(* BusPendingReply.  left: will_send_reply is NULL and the time it was added
   is 0.  The key of an item is unique, so the list is a set; the order in
   which several items expire is left open. *)
Item == [getter : Conn, sender : Conn, serial : Serial, age : 0..ReplyTimeout,
         left : BOOLEAN]

(* An answer ends a call: the caller and the serial. *)
Answer == Conn \X Serial

Asked(m) == <<m.from, m.serial>>

RepliesTo(m) == <<m.to, m.serial>>

Key(p) == <<p.getter, p.serial>>

NoMsg == [type |-> "none"]

NoHook == [undo |-> "none"]

Hook == [undo : {"forget", "restore"}, item : Item] \cup {NoHook}

Idle == phase = "idle"

Connected(c) == link[c] = "up"

(* do_expiration_with_current_time: an item is due when its replier left, or
   when there is a timeout and it has passed. *)
Due(p) == p.left \/ (ReplyTimeout > 0 /\ p.age >= ReplyTimeout)

(* bus_expire_list_add, bus_expire_list_add_link: a timer that is disabled is
   due at once, and finds the interval itself. *)
AwakeFaulty == timer

Awake == IF timer = Off THEN 0 ELSE timer

Less(n) == IF n > 0 THEN n - 1 ELSE 0

(* The time until the first item is due: a set of one element.  An interval is
   an hour at most, which only makes the timer look early; this is left out. *)
NextIntervalFaulty ==
  IF items = {} \/ ReplyTimeout = 0 THEN {Off}
  ELSE {ReplyTimeout - p.age : p \in {q \in items : \A r \in items : q.age <= r.age}}

NextInterval ==
  IF items = {} \/ ReplyTimeout = 0 THEN {Off}
  ELSE {ReplyTimeout - p.age : p \in {q \in items : \A r \in items : q.age >= r.age}}

Init ==
  /\ link = [c \in Conn |-> "up"]
  /\ items = {}
  /\ timer = Off
  /\ phase = "idle"
  /\ msg = NoMsg
  /\ hook = NoHook
  /\ out = {}
  /\ oom = MaxOom
  /\ made = 0
  /\ owed = [k \in Answer |-> 0]
  /\ lost = [k \in Answer |-> 0]

-----------------------------------------------------------------------------
(* bus_dispatch takes the next message of a client, also of one that has hung
   up since: its Disconnected message comes last.  Only a client that could
   receive descriptors can send them. *)

Begin(m, p) ==
  /\ Idle
  /\ link[m.from] # "gone" /\ link[m.to] # "gone"
  /\ m.fds => m.from \notin NoFds
  /\ phase' = p
  /\ msg' = m
  /\ UNCHANGED <<link, listVars, hook, out, oom, lost>>

SendCall(a, b, s, w, f) ==
  /\ made < MaxCalls
  /\ made' = made + 1
  /\ owed' = IF w THEN [owed EXCEPT ![<<a, s>>] = @ + 1] ELSE owed
  /\ Begin([type |-> "call", from |-> a, to |-> b, serial |-> s, wants |-> w, fds |-> f],
           "policy")

SendReply(b, a, s, f) ==
  /\ Begin([type |-> "reply", from |-> b, to |-> a, serial |-> s, wants |-> FALSE, fds |-> f],
           "check")
  /\ UNCHANGED <<made, owed>>

At(p) == phase = p

GoTo(p) == phase' = p /\ UNCHANGED <<link, msg, oom, pastVars>>

-----------------------------------------------------------------------------
(* The security check. *)

Expected ==
  {p \in items : /\ p.getter = msg.to /\ p.sender = msg.from /\ ~p.left
                 /\ p.serial = msg.serial}

(* bus_connections_check_reply.  A reply nobody expects is not permitted. *)
CheckReplyFaulty ==
  /\ At("check")
  /\ IF Expected = {} THEN GoTo("error") ELSE GoTo("policy")
  /\ UNCHANGED <<listVars, hook, out>>

CheckReply ==
  /\ At("check")
  /\ \/ /\ Expected = {}
        /\ GoTo("error")
        /\ UNCHANGED <<items, hook>>
     \/ \E p \in Expected :
          /\ items' = items \ {p}
          /\ hook' = [undo |-> "restore", item |-> p]
          /\ GoTo("policy")
  /\ UNCHANGED <<timer, out>>

(* The policy of the recipient denies the message, which sets no error, or
   its outgoing queue is full or the policy of the sender denies it, which
   sets one. *)
Refuse ==
  /\ At("policy")
  /\ \E r \in Refusals : GoTo(IF r = "receive" THEN "execute" ELSE "error")
  /\ UNCHANGED <<listVars, hook, out>>

Permit ==
  /\ At("policy")
  /\ GoTo(IF msg.type = "call" THEN "expect" ELSE "fds")
  /\ UNCHANGED <<listVars, hook, out>>

Outstanding ==
  {p \in items : /\ p.getter = msg.from /\ p.sender = msg.to /\ ~p.left
                 /\ p.serial = msg.serial}

Awaited(c) == {p \in items : p.getter = c}

MayExpectFaulty == Cardinality(Awaited(msg.from)) < MaxReplies

MayExpect == Outstanding = {} /\ Cardinality(Awaited(msg.from)) < MaxReplies

(* bus_connections_expect_reply. *)
ExpectReply ==
  /\ At("expect")
  /\ \/ /\ ~msg.wants
        /\ GoTo("fds")
        /\ UNCHANGED <<listVars, hook>>
     \/ /\ msg.wants /\ ~MayExpect
        /\ GoTo("error")
        /\ UNCHANGED <<listVars, hook>>
     \/ /\ msg.wants /\ MayExpect
        /\ LET p == [getter |-> msg.from, sender |-> msg.to, serial |-> msg.serial,
                     age |-> 0, left |-> FALSE] IN
             /\ items' = items \cup {p}
             /\ hook' = [undo |-> "forget", item |-> p]
        /\ timer' = Awake
        /\ GoTo("fds")
  /\ UNCHANGED out

-----------------------------------------------------------------------------
(* bus_dispatch_matches and the end of bus_dispatch. *)

CheckFds ==
  /\ At("fds")
  /\ GoTo(IF msg.fds /\ msg.to \in NoFds THEN "error" ELSE "send")
  /\ UNCHANGED <<listVars, hook, out>>

(* A message to a client that hung up is ignored. *)
Forward ==
  /\ At("send")
  /\ out' = IF msg.type = "reply" /\ Connected(msg.to) THEN {RepliesTo(msg)} ELSE {}
  /\ GoTo("match")
  /\ UNCHANGED <<listVars, hook>>

MatchOthers ==
  /\ At("match")
  /\ GoTo("execute")
  /\ UNCHANGED <<listVars, hook, out>>

(* An error that its recipient refuses is dropped silently, as in Expire. *)
SendError ==
  /\ At("error")
  /\ \/ /\ msg.type = "call" /\ msg.wants /\ Connected(msg.from)
        /\ out' = {Asked(msg)}
     \/ /\ msg.type = "call" /\ msg.wants /\ Connected(msg.from) => Refusals # {}
        /\ out' = {}
  /\ GoTo("execute")
  /\ UNCHANGED <<listVars, hook>>

(* Nothing more will be heard of the call: its reply is off the list and not
   sent, or its sender gets neither a reply nor an error. *)
Discarded ==
  IF out # {} THEN {}
  ELSE IF hook.undo = "restore" THEN {RepliesTo(msg)}
  ELSE IF msg.type = "call" /\ msg.wants /\ hook.undo = "none" THEN {Asked(msg)}
  ELSE {}

Count(f, ks) == [k \in Answer |-> IF k \in ks THEN f[k] + 1 ELSE f[k]]

Settle(f, ks) == [k \in Answer |-> IF k \in ks THEN Less(f[k]) ELSE f[k]]

EndHandler ==
  /\ phase' = "idle"
  /\ msg' = NoMsg
  /\ hook' = NoHook
  /\ out' = {}

(* bus_transaction_execute_and_free. *)
Execute ==
  /\ At("execute")
  /\ owed' = Settle(owed, out)
  /\ lost' = Count(lost, Discarded)
  /\ EndHandler
  /\ UNCHANGED <<link, listVars, oom, made>>

(* cancel_pending_reply, cancel_check_pending_reply. *)
UndoneFaulty == IF hook.undo = "forget" THEN items \ {hook.item} ELSE items

Undone ==
  CASE hook.undo = "forget"  -> items \ {hook.item}
    [] hook.undo = "restore" -> items \cup {hook.item}
    [] OTHER                 -> items

Cancel ==
  /\ At("cancel")
  /\ items' = Undone
  /\ timer' = IF hook.undo = "restore" THEN Awake ELSE timer
  /\ EndHandler
  /\ UNCHANGED <<link, oom, pastVars>>

(* An allocation fails.  A connected sender gets an error that was allocated
   in advance and the transaction is cancelled; that of a sender that hung up
   is executed as far as it got. *)
OutOfMemory ==
  /\ phase \in {"check", "policy", "expect", "fds", "send", "match", "error"}
  /\ oom > 0
  /\ oom' = oom - 1
  /\ IF Connected(msg.from)
       THEN /\ phase' = "cancel"
            /\ out' = {}
            /\ owed' = Settle(owed, IF msg.type = "call" /\ msg.wants THEN {Asked(msg)} ELSE {})
       ELSE /\ phase' = "execute"
            /\ UNCHANGED <<out, owed>>
  /\ UNCHANGED <<link, listVars, msg, hook, made, lost>>

-----------------------------------------------------------------------------
(* Time.  The daemon may be late for its timer. *)

Aged(p) == [p EXCEPT !.age = IF @ < ReplyTimeout THEN @ + 1 ELSE @]

Tick ==
  /\ Idle
  /\ items' = {Aged(p) : p \in items}
  /\ timer' = IF timer = Off THEN Off ELSE Less(timer)
  /\ UNCHANGED <<link, txnVars, oom, pastVars>>

(* expire_timeout_handler: each item that is due in a transaction of its own,
   until memory lacks. *)
TimeOut ==
  /\ Idle /\ timer = 0
  /\ GoTo("expire")
  /\ UNCHANGED <<listVars, hook, out>>

(* bus_pending_reply_expired.  An error of the daemon that the recipient
   refuses is dropped silently. *)
Expire(p) ==
  /\ At("expire") /\ Due(p)
  /\ items' = items \ {p}
  /\ \/ owed' = Settle(owed, {Key(p)}) /\ UNCHANGED lost
     \/ Refusals # {} /\ lost' = Count(lost, {Key(p)}) /\ UNCHANGED owed
  /\ UNCHANGED <<link, timer, txnVars, oom, made>>

ExpireLater ==
  /\ At("expire") /\ \E p \in items : Due(p)
  /\ oom > 0
  /\ oom' = oom - 1
  /\ timer' = OomWait
  /\ phase' = "idle"
  /\ UNCHANGED <<link, items, msg, hook, out, pastVars>>

ExpireEnd ==
  /\ At("expire") /\ \A p \in items : ~Due(p)
  /\ timer' \in NextInterval
  /\ GoTo("idle")
  /\ UNCHANGED <<items, hook, out>>

-----------------------------------------------------------------------------
(* Clients leave. *)

HangUp(c) ==
  /\ phase \in {"idle", "execute", "expire"}
  /\ link[c] = "up"
  /\ link' = [link EXCEPT ![c] = "down"]
  /\ UNCHANGED <<listVars, txnVars, oom, pastVars>>

(* bus_connection_drop_pending_replies. *)
Abandoned(p, c) ==
  IF p.sender = c THEN [p EXCEPT !.age = ReplyTimeout, !.left = TRUE] ELSE p

KeptFaulty(c) == {p \in items : p.getter # c \/ p.sender = c}

Kept(c) == {p \in items : p.getter # c}

Disconnected(c) ==
  /\ Idle /\ link[c] = "down"
  /\ link' = [link EXCEPT ![c] = "gone"]
  /\ items' = {Abandoned(p, c) : p \in Kept(c)}
  /\ timer' = IF \E p \in Kept(c) : p.sender = c THEN 0 ELSE timer
  /\ UNCHANGED <<txnVars, oom, pastVars>>

-----------------------------------------------------------------------------

Clients ==
  \/ \E a, b \in Conn, s \in Serial :
       \/ \E w \in BOOLEAN, f \in CallFds : SendCall(a, b, s, w, f)
       \/ \E f \in BOOLEAN : SendReply(b, a, s, f)
  \/ \E c \in Conn : HangUp(c)

Handler ==
  \/ CheckReply \/ Refuse \/ Permit \/ ExpectReply
  \/ CheckFds \/ Forward \/ MatchOthers \/ SendError
  \/ Execute \/ Cancel
  \/ (\E p \in items : Expire(p)) \/ ExpireEnd

Next ==
  \/ Clients
  \/ Handler
  \/ OutOfMemory \/ ExpireLater
  \/ TimeOut \/ Tick
  \/ \E c \in Conn : Disconnected(c)

Spec == Init /\ [][Next]_vars

(* A handler runs to its end.  Time passes, and the main loop looks at the
   timer and at every client between handlers again and again. *)
Fairness ==
  /\ WF_vars(Handler)
  /\ SF_vars(Tick)
  /\ SF_vars(TimeOut)
  /\ \A c \in Conn : SF_vars(Disconnected(c))

FairSpec == Spec /\ Fairness

-----------------------------------------------------------------------------
(* Properties. *)

(* Type correctness of the list, the transaction and the history. *)
TypeOK ==
  /\ link \in [Conn -> {"up", "down", "gone"}]
  /\ items \subseteq Item
  /\ timer \in Nat \cup {Off}
  /\ phase \in {"idle", "check", "policy", "expect", "fds", "send", "match",
                "error", "execute", "cancel", "expire"}
  /\ msg \in Message \cup {NoMsg}
  /\ hook \in Hook
  /\ out \subseteq Answer
  /\ oom \in 0..MaxOom
  /\ made \in 0..MaxCalls
  /\ owed \in [Answer -> Nat]
  /\ lost \in [Answer -> Nat]

(* Between handlers the list holds every call a connected client waits for,
   once, whatever replies, refusals, timeouts and cancelled transactions came
   before; the calls whose answer the daemon discarded are the exception. *)
EveryCallTracked ==
  Idle => \A k \in Answer : Connected(k[1]) =>
    owed[k] = lost[k] + Cardinality({p \in items : Key(p) = k})

(* The answers the next step of the daemon delivers. *)
Answering ==
  CASE phase = "execute" -> out
    [] phase = "expire"  -> {Key(p) : p \in {q \in items : Due(q)}}
    [] OTHER             -> {}

(* A client is never answered more often than it called: not by a reply and by
   the timeout, and not by an error and by the timeout. *)
OneAnswer ==
  \A k \in Answering : Connected(k[1]) => owed[k] > 0

(* What lack of memory may add. *)
Delay == IF oom < MaxOom THEN OomWait ELSE 0

(* The timer of the list is set so that no reply expires later than it should,
   but for one wait for memory; at once when its replier left. *)
ExpiryScheduled ==
  Idle => \A p \in items :
    /\ ReplyTimeout > 0 => timer # Off /\ p.age + timer <= ReplyTimeout + Delay
    /\ p.left => timer # Off /\ timer <= Delay

(* The list points to no client that was freed: it loses the items of a caller
   and forgets the replier, before either is freed. *)
NoFreedClient ==
  Idle => \A p \in items :
    /\ link[p.getter] # "gone"
    /\ ~p.left => link[p.sender] # "gone"

(* A reply matches at most one item of the list. *)
OneItemForEachReply ==
  \A p, q \in items :
    (p.getter = q.getter /\ p.sender = q.sender /\ p.serial = q.serial) => p = q

(* With a timeout every call ends in an answer, unless the daemon discarded it
   or the caller hung up: a lost, refused or failed reply does not leave a
   client waiting. *)
CallsComeToAnEnd ==
  \A k \in Answer :
    owed[k] > lost[k] ~> owed[k] <= lost[k] \/ ~Connected(k[1])

=============================================================================
