----------------------------- MODULE CallProofs -----------------------------
(***************************************************************************)
(* Proof that every activation a connected client waits for is in the table *)
(* once, and that the client is answered about it once, for all sets of     *)
(* clients and names and all configurations in which memory does not run    *)
(* out, programs can be started and no held message is rejected.            *)
(***************************************************************************)
EXTENDS SignalProofs

-----------------------------------------------------------------------------
(* Answers under way.                                                      *)

(* The two entries a client may have in the table: a StartServiceByName call
   and a message that is held. *)
Asking(c)  == [conn |-> c, auto |-> FALSE]
Holding(c) == [conn |-> c, auto |-> TRUE]
Waits(c)   == {Asking(c), Holding(c)}

(* The messages that end the waiting of a client, and the calls that will
   send one. *)
Answering(c) == {Answer(c, n) : n \in Name} \cup {Handover(c, n) : n \in Name}

Serving(c) ==
       {Send(m) : m \in Answering(c)}
  \cup {Notify(n, Asking(c)) : n \in Name}
  \cup {Dispatch(n, Holding(c)) : n \in Name}

(* Client c is about to be answered about n. *)
Comes(c, n) ==
  \/ Coming(Answer(c, n)) \/ Coming(Handover(c, n))
  \/ Lists(todo, Notify(n, Asking(c)))
  \/ Lists(todo, Dispatch(n, Holding(c)))

Enrolled(n, c) == Lists(pending[n], Asking(c)) \/ Lists(pending[n], Holding(c))

(* The calls after which the activation of a name is no more. *)
Closing(n) == Lists(todo, Forget(n)) \/ Lists(todo, Drop(n))

Ending ==
  {SendHeld(n) : n \in Name} \cup {Forget(n) : n \in Name} \cup {Drop(n) : n \in Name}

Registering == {Register(n, c, a) : n \in Name, c \in Conn, a \in BOOLEAN}

-----------------------------------------------------------------------------
(* The invariant.                                                          *)

(* An answer to client c is under way in one place. *)
Alone(c) ==
  /\ OneOf(msgs, Answering(c)) /\ OneOf(todo, Serving(c))
  /\ NoneOf(msgs, Answering(c)) \/ NoneOf(todo, Serving(c))

(* Client c waits for n if it is in the table, is about to be answered or is
   about to be put there; it is in the table and about to be answered at once
   only while the handler that answers it is not done with the activation. *)
Accounted(c, n) ==
  /\ OneOf(pending[n], Waits(c))
  /\ Enrolled(n, c) \/ Comes(c, n) => calls[c] = n
  /\ calls[c] = n =>
       Enrolled(n, c) \/ Comes(c, n) \/ \E a \in BOOLEAN : Lists(todo, Register(n, c, a))
  /\ Lists(pending[n], Asking(c)) => (Comes(c, n) <=> Lists(todo, SendHeld(n)) \/ Closing(n))
  /\ Lists(pending[n], Holding(c)) => (Comes(c, n) <=> Closing(n))

(* What is true of a client that is connected. *)
Attended(c) == Alone(c) /\ \A n \in Name : Accounted(c, n)

(* An activation that is being registered or whose program is started is the
   only thing its handler does, and it is new. *)
Opening ==
  \A k : Lists(todo, k) /\ k.call \in {"register", "spawn"} =>
    /\ job.why = "call"
    /\ \A x : Lists(todo, x) => x.call \in {"register", "spawn"}
    /\ Connected(job.by) => calls[job.by] = k.name /\ \A n \in Name : ~Comes(job.by, n)
    /\ k.call = "spawn" => \A e : Lists(pending[k.name], e) => e.conn = job.by
    /\ k.call = "register" =>
         k.conn = job.by /\ (Connected(job.by) => \A n \in Name : ~Enrolled(n, job.by))

CallsInv ==
  /\ phase \in {"idle", "run", "round"}
  /\ phase # "run" => todo = <<>> /\ msgs = <<>>
  /\ OneOf(todo, Ending) /\ OneOf(todo, Registering)
  /\ Opening
  /\ \A c \in Conn : Connected(c) => Attended(c)

-----------------------------------------------------------------------------
(* Messages and calls that answer.                                         *)

(* Answers differ when their clients, names or kinds do. *)
LEMMA AnswerForm ==
  /\ \A c, n, d, m : Answer(c, n) = Answer(d, m) <=> c = d /\ n = m
  /\ \A c, n, d, m : Handover(c, n) = Handover(d, m) <=> c = d /\ n = m
  /\ \A c, n, d, m : Answer(c, n) # Handover(d, m)
  /\ \A c, n : Answer(c, n).to = c /\ Answer(c, n).name = n
  /\ \A c, n : Handover(c, n).from = c /\ Handover(c, n).name = n /\ Handover(c, n).to = NoOne
<1>1. \A c, n : /\ Answer(c, n).to = c /\ Answer(c, n).name = n /\ Answer(c, n).kind = "answer"
                /\ Handover(c, n).from = c /\ Handover(c, n).name = n
                /\ Handover(c, n).to = NoOne /\ Handover(c, n).kind = "handover"
  BY DEF Answer, Handover
<1> QED BY <1>1

(* The messages of either kind are those of some client. *)
LEMMA AnswerMessage ==
  ASSUME NEW m \in Message, m.kind \in {"answer", "handover"}
  PROVE  \E c \in Conn, n \in Name :
           /\ m \in {Answer(c, n), Handover(c, n)}
           /\ m.kind = "answer" => m = Answer(c, n)
           /\ m.kind = "handover" => m = Handover(c, n)
<1>1. PICK c \in Conn, n \in Name : m = Answer(c, n) \/ m = Handover(c, n)
  BY DEF Message, Acquired, Lost, Changed, Reply, Failure, Answer, Handover
<1> QED BY <1>1, MessageKinds

(* The entries a client has are its own. *)
LEMMA EntryForm ==
  /\ \A c, d : Asking(c) = Asking(d) <=> c = d
  /\ \A c, d : Holding(c) = Holding(d) <=> c = d
  /\ \A c, d : Asking(c) # Holding(d)
  /\ \A c : Asking(c).conn = c /\ ~Asking(c).auto /\ Holding(c).conn = c /\ Holding(c).auto
  /\ \A c \in Conn : Asking(c) \in Entry /\ Holding(c) \in Entry
  /\ \A e \in Entry : /\ e.conn \in Conn
                      /\ e.auto => e = Holding(e.conn)
                      /\ ~e.auto => e = Asking(e.conn)
<1>1. \A c : Asking(c).conn = c /\ Asking(c).auto = FALSE
  BY DEF Asking
<1>2. \A c : Holding(c).conn = c /\ Holding(c).auto = TRUE
  BY DEF Holding
<1>3. \A c \in Conn : Asking(c) \in Entry /\ Holding(c) \in Entry
  BY DEF Asking, Holding, Entry
<1>4. \A e \in Entry : /\ e.conn \in Conn
                       /\ e.auto => e = Holding(e.conn)
                       /\ ~e.auto => e = Asking(e.conn)
  BY DEF Asking, Holding, Entry
<1>5. TRUE # FALSE
  OBVIOUS
<1> QED BY <1>1, <1>2, <1>3, <1>4, <1>5

(* A call that has nothing to do with the waiting of a client. *)
Muted(k) ==
  /\ k.call \notin {"notify", "dispatch", "send_held", "forget", "drop", "register", "spawn"}
  /\ k.call = "send" => k.msg.kind \notin {"answer", "handover"}

LEMMA ServingForm ==
  /\ \A c, k : k \in Serving(c) <=>
       \E n \in Name : \/ k = Send(Answer(c, n)) \/ k = Send(Handover(c, n))
                       \/ k = Notify(n, Asking(c)) \/ k = Dispatch(n, Holding(c))
  /\ \A c, m : m \in Answering(c) <=> \E n \in Name : m = Answer(c, n) \/ m = Handover(c, n)
  /\ \A c, k : k \in Serving(c) => k.call \in {"send", "notify", "dispatch"}
<1>1. \A c, m : m \in Answering(c) <=> \E n \in Name : m = Answer(c, n) \/ m = Handover(c, n)
  BY DEF Answering
<1>2. \A c, k : k \in Serving(c) <=>
       \E n \in Name : \/ k = Send(Answer(c, n)) \/ k = Send(Handover(c, n))
                       \/ k = Notify(n, Asking(c)) \/ k = Dispatch(n, Holding(c))
  BY <1>1 DEF Serving
<1>3. \A m, n, e : Send(m).call = "send" /\ Notify(n, e).call = "notify"
                   /\ Dispatch(n, e).call = "dispatch"
  BY DEF Send, Notify, Dispatch
<1> QED BY <1>1, <1>2, <1>3

(* Which calls are which. *)
LEMMA CallForm ==
  /\ \A m, n, e : /\ Send(m).call = "send" /\ Send(m).msg = m
                  /\ Notify(n, e).call = "notify" /\ Notify(n, e).name = n
                  /\ Notify(n, e).entry = e
                  /\ Dispatch(n, e).call = "dispatch" /\ Dispatch(n, e).name = n
                  /\ Dispatch(n, e).entry = e
  /\ \A n : /\ SendHeld(n).call = "send_held" /\ SendHeld(n).name = n
            /\ Forget(n).call = "forget" /\ Forget(n).name = n
            /\ Drop(n).call = "drop" /\ Drop(n).name = n
            /\ Spawn(n).call = "spawn" /\ Spawn(n).name = n
  /\ \A n, c, a : /\ Register(n, c, a).call = "register" /\ Register(n, c, a).name = n
                  /\ Register(n, c, a).conn = c /\ Register(n, c, a).auto = a
  /\ \A k \in Ending : k.call \in {"send_held", "forget", "drop"}
  /\ \A n \in Name : SendHeld(n) \in Ending /\ Forget(n) \in Ending /\ Drop(n) \in Ending
  /\ \A k \in Registering : k.call = "register"
<1>1. \A m, n, e : /\ Send(m).call = "send" /\ Send(m).msg = m
                   /\ Notify(n, e).call = "notify" /\ Notify(n, e).name = n
                   /\ Notify(n, e).entry = e
                   /\ Dispatch(n, e).call = "dispatch" /\ Dispatch(n, e).name = n
                   /\ Dispatch(n, e).entry = e
  BY DEF Send, Notify, Dispatch
<1>2. \A n : /\ SendHeld(n).call = "send_held" /\ SendHeld(n).name = n
             /\ Forget(n).call = "forget" /\ Forget(n).name = n
             /\ Drop(n).call = "drop" /\ Drop(n).name = n
             /\ Spawn(n).call = "spawn" /\ Spawn(n).name = n
  BY DEF SendHeld, Forget, Drop, Spawn
<1>3. \A n, c, a : /\ Register(n, c, a).call = "register" /\ Register(n, c, a).name = n
                   /\ Register(n, c, a).conn = c /\ Register(n, c, a).auto = a
  BY DEF Register
<1>4. /\ \A k \in Ending : k.call \in {"send_held", "forget", "drop"}
      /\ \A n \in Name : SendHeld(n) \in Ending /\ Forget(n) \in Ending /\ Drop(n) \in Ending
  BY <1>2 DEF Ending
<1>5. \A k \in Registering : k.call = "register"
  BY <1>3 DEF Registering
<1> QED BY <1>1, <1>2, <1>3, <1>4, <1>5

(* Calls by their kind are these calls. *)
LEMMA CallShape ==
  ASSUME NEW k \in Call
  PROVE  /\ k.call = "send" => k = Send(k.msg) /\ k.msg \in Message
         /\ k.call = "notify" => k = Notify(k.name, k.entry) /\ k.name \in Name /\ k.entry \in Entry
         /\ k.call = "dispatch" => k = Dispatch(k.name, k.entry) /\ k.name \in Name /\ k.entry \in Entry
         /\ k.call = "send_held" => k = SendHeld(k.name) /\ k.name \in Name
         /\ k.call = "forget" => k = Forget(k.name) /\ k.name \in Name
         /\ k.call = "drop" => k = Drop(k.name) /\ k.name \in Name
         /\ k.call = "spawn" => k = Spawn(k.name) /\ k.name \in Name
         /\ k.call = "register" => /\ k = Register(k.name, k.conn, k.auto) /\ k \in Registering
                                   /\ k.name \in Name /\ k.conn \in Conn /\ k.auto \in BOOLEAN
<1>1. k.call = "send" => k = Send(k.msg) /\ k.msg \in Message
  BY SendForm
<1>2. k.call \in {"notify", "dispatch"} => k.name \in Name /\ k.entry \in Entry
  BY CallFields
<1>3. k.call \in {"send_held", "forget", "spawn", "drop"} => k.name \in Name
  BY CallFields
<1>4. k.call = "register" => k.name \in Name /\ k.conn \in Conn /\ k.auto \in BOOLEAN
  BY CallFields
<1>5. /\ k.call = "notify" => k = Notify(k.name, k.entry)
      /\ k.call = "dispatch" => k = Dispatch(k.name, k.entry)
  BY DEF Call, Send, LinkOwner, SetFlags, RemoveOwner, UnlinkOwner, SwapOwner, SwapLinks, Notify,
         SendHeld, Dispatch, Forget, Register, Spawn, Complete, Drop
<1>6. /\ k.call = "send_held" => k = SendHeld(k.name)
      /\ k.call = "forget" => k = Forget(k.name)
      /\ k.call = "drop" => k = Drop(k.name)
      /\ k.call = "spawn" => k = Spawn(k.name)
  BY DEF Call, Send, LinkOwner, SetFlags, RemoveOwner, UnlinkOwner, SwapOwner, SwapLinks, Notify,
         SendHeld, Dispatch, Forget, Register, Spawn, Complete, Drop
<1>7. k.call = "register" => k = Register(k.name, k.conn, k.auto)
  BY DEF Call, Send, LinkOwner, SetFlags, RemoveOwner, UnlinkOwner, SwapOwner, SwapLinks, Notify,
         SendHeld, Dispatch, Forget, Register, Spawn, Complete, Drop
<1>8. k.call = "register" => k \in Registering
  BY <1>4, <1>7 DEF Registering
<1> QED BY <1>1, <1>2, <1>3, <1>4, <1>5, <1>6, <1>7, <1>8

-----------------------------------------------------------------------------
(* One call returns.                                                       *)

Muffled(s) == \A k : Lists(s, k) => Muted(k)

(* Muted calls answer nobody, end nothing and register nothing. *)
LEMMA MutedCalls ==
  /\ \A k : Muted(k) => /\ k \notin Ending /\ k \notin Registering
                        /\ \A c : k \notin Serving(c)
                        /\ k.call \notin {"register", "spawn"}
  /\ \A s : Muffled(s) => /\ NoneOf(s, Ending) /\ NoneOf(s, Registering)
                          /\ \A c : NoneOf(s, Serving(c))
                          /\ ~Activating(s)
<1>1. \A c, n : Send(Answer(c, n)).msg.kind = "answer" /\ Send(Handover(c, n)).msg.kind = "handover"
  BY MessageKinds, CallForm
<1>2. \A k : Muted(k) => \A c : k \notin Serving(c)
  <2> SUFFICES ASSUME NEW k, NEW c, Muted(k), k \in Serving(c) PROVE FALSE
    OBVIOUS
  <2>1. k.call = "send"
    BY ServingForm DEF Muted
  <2>2. \E n \in Name : k = Send(Answer(c, n)) \/ k = Send(Handover(c, n))
    BY <2>1, ServingForm, CallForm
  <2> QED BY <1>1, <2>1, <2>2 DEF Muted
<1>3. \A k : Muted(k) => k \notin Ending /\ k \notin Registering
                         /\ k.call \notin {"register", "spawn"}
  BY CallForm DEF Muted
<1> QED BY <1>2, <1>3 DEF Muffled, NoneOf, Activating

(* What the next call adds to the transaction is the answer it stands for, if
   it serves client c, and no answer to c otherwise. *)
Forwards(c) ==
  \/ Top \notin Serving(c)
     /\ (msgs' = msgs \/ \E m \in Message : m \notin Answering(c) /\ msgs' = Append(msgs, m))
  \/ \E n \in Name, m \in Message :
       /\ msgs' = Append(msgs, m)
       /\ \/ m \in {Answer(c, n), Handover(c, n)} /\ Top = Send(m)
          \/ m = Answer(c, n) /\ Top = Notify(n, Asking(c))
          \/ m = Handover(c, n) /\ Top = Dispatch(n, Holding(c))

(* Who comes, by the messages and calls that are there. *)
LEMMA ComesForm ==
  /\ \A c, n : n \in Name => (Comes(c, n) <=>
       \/ Lists(msgs, Answer(c, n)) \/ Lists(msgs, Handover(c, n))
       \/ Lists(todo, Send(Answer(c, n))) \/ Lists(todo, Send(Handover(c, n)))
       \/ Lists(todo, Notify(n, Asking(c))) \/ Lists(todo, Dispatch(n, Holding(c))))
  /\ \A c, n : n \in Name =>
       /\ Answer(c, n) \in Answering(c) /\ Handover(c, n) \in Answering(c)
       /\ Send(Answer(c, n)) \in Serving(c) /\ Send(Handover(c, n)) \in Serving(c)
       /\ Notify(n, Asking(c)) \in Serving(c) /\ Dispatch(n, Holding(c)) \in Serving(c)
<1>1. \A c, n : Comes(c, n) <=>
       \/ Lists(msgs, Answer(c, n)) \/ Lists(msgs, Handover(c, n))
       \/ Lists(todo, Send(Answer(c, n))) \/ Lists(todo, Send(Handover(c, n)))
       \/ Lists(todo, Notify(n, Asking(c))) \/ Lists(todo, Dispatch(n, Holding(c)))
  BY DEF Comes, Coming
<1> QED BY <1>1, ServingForm

LEMMA NobodyComes ==
  ASSUME NEW c
  PROVE  (\A n \in Name : ~Comes(c, n)) <=> NoneOf(msgs, Answering(c)) /\ NoneOf(todo, Serving(c))
<1>1. ASSUME \A n \in Name : ~Comes(c, n)
      PROVE  NoneOf(msgs, Answering(c)) /\ NoneOf(todo, Serving(c))
  <2>1. \A n \in Name :
          /\ ~Lists(msgs, Answer(c, n)) /\ ~Lists(msgs, Handover(c, n))
          /\ ~Lists(todo, Send(Answer(c, n))) /\ ~Lists(todo, Send(Handover(c, n)))
          /\ ~Lists(todo, Notify(n, Asking(c))) /\ ~Lists(todo, Dispatch(n, Holding(c)))
    BY <1>1, ComesForm
  <2>2. NoneOf(msgs, Answering(c))
    BY <2>1 DEF NoneOf, Answering
  <2>3. NoneOf(todo, Serving(c))
    BY <2>1, ServingForm DEF NoneOf
  <2> QED BY <2>2, <2>3
<1>2. ASSUME NoneOf(msgs, Answering(c)), NoneOf(todo, Serving(c))
      PROVE  \A n \in Name : ~Comes(c, n)
  BY <1>2, ComesForm DEF NoneOf
<1> QED BY <1>1, <1>2

(* A call that returns leaves the answers under way as they are. *)
LEMMA Forwarded ==
  ASSUME TypeOK, NEW f, Calling(f), NEW u \in Seq(Call), todo' = u \o Tail(todo),
         NEW c, Alone(c), Forwards(c), NoneOf(u, Serving(c))
  PROVE  Alone(c)' /\ \A n \in Name : Comes(c, n)' <=> Comes(c, n)
<1> DEFINE A == Answering(c)
           V == Serving(c)
<1>1. /\ todo \in Seq(Call) /\ todo # <<>> /\ Top \in Call
      /\ Top = Head(todo) /\ Tail(todo) \in Seq(Call)
      /\ \A x : Lists(todo, x) <=> x = Top \/ Lists(Tail(todo), x)
  BY TopOf
<1>2. msgs \in Seq(Message)
  BY DEF TypeOK
<1>3. PICK s : s = u \o Tail(todo)
  OBVIOUS
<1>4. PICK w : w = msgs'
  OBVIOUS
<1>5. /\ \A x : Lists(s, x) <=> Lists(u, x) \/ Lists(Tail(todo), x)
      /\ \A X : NoneOf(u, X) /\ OneOf(Tail(todo), X) => OneOf(s, X)
  BY <1>1, <1>3, ListsConcat
<1>6. /\ \A X : OneOf(todo, X) => OneOf(Tail(todo), X)
      /\ \A X : OneOf(todo, X) /\ Top \in X => NoneOf(Tail(todo), X)
  BY <1>1, ListsTail
<1>7. OneOf(s, V)
  BY <1>5, <1>6 DEF Alone
<1>8. \A x \in V : Lists(s, x) <=> Lists(Tail(todo), x)
  BY <1>5 DEF NoneOf
<1>9. (Alone(c)' <=> OneOf(w, A) /\ OneOf(s, V) /\ (NoneOf(w, A) \/ NoneOf(s, V)))
  BY <1>3, <1>4 DEF Alone, Answering, Serving, Answer, Handover, Send, Notify, Dispatch, Asking, Holding,
             OneOf, NoneOf, Lists
<1>10. \A n \in Name : Comes(c, n)' <=>
         \/ Lists(w, Answer(c, n)) \/ Lists(w, Handover(c, n))
         \/ Lists(s, Send(Answer(c, n))) \/ Lists(s, Send(Handover(c, n)))
         \/ Lists(s, Notify(n, Asking(c))) \/ Lists(s, Dispatch(n, Holding(c)))
  BY <1>3, <1>4 DEF Comes, Coming, Answer, Handover, Send, Notify, Dispatch, Asking, Holding, Lists
<1>11. CASE /\ Top \notin V
            /\ (w = msgs \/ \E m \in Message : m \notin A /\ w = Append(msgs, m))
  <2>0. OneOf(msgs, A)
    BY DEF Alone
  <2>1. (\A x \in A : Lists(w, x) <=> Lists(msgs, x)) /\ OneOf(w, A)
    <3>1. CASE w = msgs
      BY <2>0, <3>1
    <3>2. CASE \E m \in Message : m \notin A /\ w = Append(msgs, m)
      <4>1. PICK m \in Message : m \notin A /\ w = Append(msgs, m)
        BY <3>2
      <4>2. /\ \A x : Lists(Append(msgs, m), x) <=> Lists(msgs, x) \/ x = m
            /\ OneOf(Append(msgs, m), A)
        BY <1>2, <2>0, <4>1, ListsAppended
      <4>3. \A x \in A : x # m
        BY <4>1
      <4> QED BY <4>1, <4>2, <4>3
    <3> QED BY <1>11, <3>1, <3>2
  <2>3. \A x \in V : Lists(s, x) <=> Lists(todo, x)
    BY <1>1, <1>8, <1>11
  <2>4. Alone(c)'
    BY <1>7, <1>9, <2>1, <2>3 DEF Alone, NoneOf
  <2> QED BY <1>10, <2>1, <2>3, <2>4, ComesForm
<1>12. CASE \E n \in Name, m \in Message :
              /\ w = Append(msgs, m)
              /\ \/ m \in {Answer(c, n), Handover(c, n)} /\ Top = Send(m)
                 \/ m = Answer(c, n) /\ Top = Notify(n, Asking(c))
                 \/ m = Handover(c, n) /\ Top = Dispatch(n, Holding(c))
  <2>1. PICK n \in Name, m \in Message :
              /\ w = Append(msgs, m)
              /\ \/ m \in {Answer(c, n), Handover(c, n)} /\ Top = Send(m)
                 \/ m = Answer(c, n) /\ Top = Notify(n, Asking(c))
                 \/ m = Handover(c, n) /\ Top = Dispatch(n, Holding(c))
    BY <1>12
  <2>2. Top \in V /\ m \in A
    BY <2>1, ComesForm
  <2>3. Lists(todo, Top)
    BY <1>1
  <2>4. NoneOf(msgs, A) /\ NoneOf(Tail(todo), V)
    BY <1>6, <2>2, <2>3 DEF Alone, NoneOf
  <2>5. NoneOf(s, V)
    BY <1>8, <2>4 DEF NoneOf
  <2>6. OneOf(w, A) /\ \A x : Lists(w, x) <=> Lists(msgs, x) \/ x = m
    BY <1>2, <2>1, <2>4, ListsAppended
  <2>7. \A k \in Name : Comes(c, k)' <=> m = Answer(c, k) \/ m = Handover(c, k)
    BY <1>10, <2>4, <2>5, <2>6, ComesForm DEF NoneOf
  <2>8. \A k \in Name : Comes(c, k) <=>
          \/ Top = Send(Answer(c, k)) \/ Top = Send(Handover(c, k))
          \/ Top = Notify(k, Asking(c)) \/ Top = Dispatch(k, Holding(c))
    BY <1>1, <2>4, ComesForm DEF NoneOf
  <2>9. \A k \in Name : Comes(c, k) <=> m = Answer(c, k) \/ m = Handover(c, k)
    <3>1. /\ \A x, y : Send(x) = Send(y) <=> x = y
          /\ \A x, k, e : Send(x) # Notify(k, e) /\ Send(x) # Dispatch(k, e)
      BY CallForm
    <3>2. /\ \A k, l, e, d : Notify(k, e) = Notify(l, d) => k = l
          /\ \A k, l, e, d : Dispatch(k, e) = Dispatch(l, d) => k = l
          /\ \A k, l, e, d : Notify(k, e) # Dispatch(l, d)
      BY CallForm
    <3>3. CASE m \in {Answer(c, n), Handover(c, n)} /\ Top = Send(m)
      <4> SUFFICES ASSUME NEW k \in Name
                   PROVE  Comes(c, k) <=> m = Answer(c, k) \/ m = Handover(c, k)
        OBVIOUS
      <4>1. Top # Notify(k, Asking(c)) /\ Top # Dispatch(k, Holding(c))
        BY <3>1, <3>3
      <4>2. /\ Top = Send(Answer(c, k)) <=> m = Answer(c, k)
            /\ Top = Send(Handover(c, k)) <=> m = Handover(c, k)
        BY <3>1, <3>3
      <4> QED BY <2>8, <4>1, <4>2
    <3>4. CASE m = Answer(c, n) /\ Top = Notify(n, Asking(c))
      <4> SUFFICES ASSUME NEW k \in Name
                   PROVE  Comes(c, k) <=> m = Answer(c, k) \/ m = Handover(c, k)
        OBVIOUS
      <4>1. /\ Top # Send(Answer(c, k)) /\ Top # Send(Handover(c, k))
            /\ Top # Dispatch(k, Holding(c))
        BY <3>1, <3>2, <3>4
      <4>2. Top = Notify(k, Asking(c)) <=> k = n
        BY <3>2, <3>4
      <4>3. (m = Answer(c, k) <=> k = n) /\ m # Handover(c, k)
        BY <3>4, AnswerForm
      <4> QED BY <2>8, <4>1, <4>2, <4>3
    <3>5. CASE m = Handover(c, n) /\ Top = Dispatch(n, Holding(c))
      BY <2>8, <3>1, <3>2, <3>5, AnswerForm
    <3> QED BY <2>1, <3>3, <3>4, <3>5
  <2> QED BY <1>7, <1>9, <2>5, <2>6, <2>7, <2>9
<1> QED BY <1>4, <1>11, <1>12 DEF Forwards

(* Nothing changes for a client and a name. *)
LEMMA AccountedAgain ==
  ASSUME NEW c, NEW n, Accounted(c, n), calls'[c] = calls[c], pending'[n] = pending[n],
         Comes(c, n)' <=> Comes(c, n),
         NEW s, todo' = s,
         Lists(s, SendHeld(n)) \/ Lists(s, Forget(n)) \/ Lists(s, Drop(n))
           <=> Lists(todo, SendHeld(n)) \/ Lists(todo, Forget(n)) \/ Lists(todo, Drop(n)),
         Lists(s, Forget(n)) \/ Lists(s, Drop(n)) <=> Lists(todo, Forget(n)) \/ Lists(todo, Drop(n)),
         \A a : Lists(todo, Register(n, c, a)) => Lists(s, Register(n, c, a))
  PROVE  Accounted(c, n)'
<1>1. PICK q : q = pending[n]
  OBVIOUS
<1>2. /\ OneOf(q, Waits(c))
      /\ Lists(q, Asking(c)) \/ Lists(q, Holding(c)) \/ Comes(c, n) => calls[c] = n
      /\ calls[c] = n =>
           \/ Lists(q, Asking(c)) \/ Lists(q, Holding(c)) \/ Comes(c, n)
           \/ \E a \in BOOLEAN : Lists(todo, Register(n, c, a))
      /\ Lists(q, Asking(c)) =>
           (Comes(c, n) <=> Lists(todo, SendHeld(n)) \/ Lists(todo, Forget(n)) \/ Lists(todo, Drop(n)))
      /\ Lists(q, Holding(c)) => (Comes(c, n) <=> Lists(todo, Forget(n)) \/ Lists(todo, Drop(n)))
  BY <1>1 DEF Accounted, Enrolled, Closing
<1>3. /\ OneOf(q, Waits(c))
      /\ Lists(q, Asking(c)) \/ Lists(q, Holding(c)) \/ Comes(c, n)' => calls'[c] = n
      /\ calls'[c] = n =>
           \/ Lists(q, Asking(c)) \/ Lists(q, Holding(c)) \/ Comes(c, n)'
           \/ \E a \in BOOLEAN : Lists(s, Register(n, c, a))
      /\ Lists(q, Asking(c)) =>
           (Comes(c, n)' <=> Lists(s, SendHeld(n)) \/ Lists(s, Forget(n)) \/ Lists(s, Drop(n)))
      /\ Lists(q, Holding(c)) => (Comes(c, n)' <=> Lists(s, Forget(n)) \/ Lists(s, Drop(n)))
  BY <1>2
<1> QED BY <1>1, <1>3 DEF Accounted, Enrolled, Closing, OneOf, Waits, Asking, Holding, Lists,
                          SendHeld, Forget, Drop, Register

(* A handler that makes other calls registers and starts nothing. *)
LEMMA NotOpening ==
  ASSUME TypeOK, CallsInv, NEW f, Calling(f), f \notin {"register", "spawn"}
  PROVE  ~Activating(todo)
<1>1. Lists(todo, Top) /\ Top.call = f
  BY TopOf
<1> QED BY <1>1 DEF CallsInv, Opening, Activating

LEMMA NothingOpens ==
  ASSUME NEW s, todo' = s, ~Activating(s)
  PROVE  Opening' /\ OneOf(s, Registering) /\ \A n, c, a : ~Lists(s, Register(n, c, a))
<1>1. Opening'
  BY DEF Opening, Activating, Lists
<1>2. NoneOf(s, Registering)
  BY CallForm DEF Activating, NoneOf
<1>3. \A n, c, a : ~Lists(s, Register(n, c, a))
  BY CallForm DEF Activating
<1> QED BY <1>1, <1>2, <1>3 DEF OneOf, NoneOf, Lists

(* The invariant from its parts, for a handler that goes on. *)
LEMMA CallsAssembled ==
  ASSUME phase' = "run", NEW s, todo' = s, OneOf(s, Ending), OneOf(s, Registering), Opening',
         \A c \in Conn : Connected(c)' => Attended(c)'
  PROVE  CallsInv'
<1>1. /\ OneOf(todo, Ending)' <=> OneOf(s, Ending)
      /\ OneOf(todo, Registering)' <=> OneOf(s, Registering)
  BY DEF OneOf, Ending, Registering, SendHeld, Forget, Drop, Register
<1> QED BY <1>1 DEF CallsInv

(* A call outside the activation table returns, or makes others of its kind. *)
LEMMA QuietCall ==
  ASSUME TypeOK, CallsInv, NEW f, Calling(f),
         f \notin {"send_held", "forget", "drop", "register", "spawn"},
         NEW u \in Seq(Call), Muffled(u), todo' = u \o Tail(todo),
         UNCHANGED <<link, calls, pending, phase>>,
         \A c \in Conn : Connected(c) => Forwards(c)
  PROVE  CallsInv'
<1>1. /\ phase = "run" /\ todo \in Seq(Call) /\ todo # <<>> /\ Top \in Call /\ Top.call = f
      /\ Top = Head(todo) /\ Tail(todo) \in Seq(Call)
      /\ \A x : Lists(todo, x) <=> x = Top \/ Lists(Tail(todo), x)
  BY TopOf
<1>2. PICK s : s = u \o Tail(todo)
  OBVIOUS
<1>3. /\ \A x : Lists(s, x) <=> Lists(u, x) \/ Lists(Tail(todo), x)
      /\ \A X : NoneOf(u, X) /\ OneOf(Tail(todo), X) => OneOf(s, X)
  BY <1>1, <1>2, ListsConcat
<1>4. /\ NoneOf(u, Ending) /\ \A c : NoneOf(u, Serving(c))
      /\ ~Activating(u)
  BY MutedCalls
<1>5. OneOf(s, Ending)
  BY <1>1, <1>3, <1>4, ListsTail DEF CallsInv
<1>6. ~Activating(s)
  BY <1>1, <1>3, <1>4, NotOpening DEF Activating
<1>7. \A x \in Ending : Lists(s, x) <=> Lists(todo, x)
  BY <1>1, <1>3, <1>4, CallForm DEF NoneOf
<1>8. \A n \in Name : SendHeld(n) \in Ending /\ Forget(n) \in Ending /\ Drop(n) \in Ending
  BY CallForm
<1>9. ASSUME NEW c \in Conn, Connected(c)
      PROVE  Attended(c)'
  <2>1. Attended(c) /\ Forwards(c) /\ Alone(c)
    BY <1>9 DEF CallsInv, Attended
  <2>2. Alone(c)' /\ \A n \in Name : Comes(c, n)' <=> Comes(c, n)
    BY <1>4, <2>1, Forwarded
  <2>3. ASSUME NEW n \in Name
        PROVE  Accounted(c, n)'
    <3>1. Accounted(c, n) /\ (Comes(c, n)' <=> Comes(c, n))
      BY <2>1, <2>2 DEF Attended
    <3>2. /\ Lists(s, SendHeld(n)) <=> Lists(todo, SendHeld(n))
          /\ Lists(s, Forget(n)) <=> Lists(todo, Forget(n))
          /\ Lists(s, Drop(n)) <=> Lists(todo, Drop(n))
      BY <1>7, <1>8
    <3>3. \A a : ~Lists(todo, Register(n, c, a))
      BY NotOpening, CallForm DEF Activating
    <3> QED BY <1>2, <3>1, <3>2, <3>3, AccountedAgain
  <2> QED BY <2>2, <2>3 DEF Attended
<1>10. \A c : Connected(c)' <=> Connected(c)
  BY DEF Connected
<1> QED BY <1>1, <1>2, <1>5, <1>6, <1>9, <1>10, NothingOpens, CallsAssembled

(* A muted call answers nobody. *)
LEMMA MutedForwards ==
  ASSUME Muted(Top), msgs' = msgs
  PROVE  \A c : Forwards(c)
BY MutedCalls DEF Forwards

LEMMA QuietReturn ==
  ASSUME TypeOK, CallsInv, NEW f, Calling(f),
         f \notin {"send_held", "forget", "drop", "register", "spawn"},
         Return, UNCHANGED <<link, calls, pending, phase>>,
         \A c \in Conn : Connected(c) => Forwards(c)
  PROVE  CallsInv'
<1>1. <<>> \in Seq(Call) /\ Tail(todo) \in Seq(Call) /\ Muffled(<<>>)
  BY TopOf, CallSequences, ListsShort DEF Muffled
<1>2. todo' = <<>> \o Tail(todo)
  BY <1>1, ConcatEmptySeq DEF Return
<1> QED BY <1>1, <1>2, QuietCall

(* bus_transaction_send: an answer to a connected client is queued. *)
LEMMA SendCalls ==
  ASSUME TypeOK, CallsInv, SendMessage
  PROVE  CallsInv'
<1>1. /\ Calling("send") /\ Return /\ UNCHANGED <<link, calls, pending, phase>>
      /\ msgs' = IF Reaches(Top.msg) THEN Append(msgs, Top.msg) ELSE msgs
  BY DEF SendMessage, busVars, seenVars
<1>2. Top \in Call /\ Top.call = "send"
  BY <1>1, TopOf
<1>3. PICK m \in Message : m = Top.msg /\ Top = Send(m)
  BY <1>2, CallShape
<1>4. ASSUME NEW c \in Conn, Connected(c)
      PROVE  Forwards(c)
  <2>1. CASE Top \in Serving(c)
    <3>1. PICK n \in Name : Top = Send(Answer(c, n)) \/ Top = Send(Handover(c, n))
      BY <1>2, <2>1, ServingForm, CallForm
    <3>2. m \in {Answer(c, n), Handover(c, n)}
      BY <1>3, <3>1, SendForm
    <3>3. Reaches(m)
      BY <1>4, <3>2, AnswerForm DEF Reaches
    <3> QED BY <1>1, <1>3, <3>2, <3>3 DEF Forwards
  <2>2. CASE Top \notin Serving(c)
    <3>1. m \notin Answering(c)
      BY <1>3, <2>2 DEF Serving
    <3> QED BY <1>1, <1>3, <2>2, <3>1 DEF Forwards
  <2> QED BY <2>1, <2>2
<1> QED BY <1>1, <1>4, QuietReturn

(* bus_activation_service_created: the reply to the call of a client that is
   connected is queued. *)
LEMMA NotifyCalls ==
  ASSUME TypeOK, CallsInv, NotifyStarted
  PROVE  CallsInv'
<1>1. /\ Calling("notify") /\ Return /\ UNCHANGED <<link, calls, pending, phase>>
      /\ msgs' = IF ~Top.entry.auto /\ Connected(Top.entry.conn)
                   THEN Append(msgs, Answer(Top.entry.conn, Top.name)) ELSE msgs
  BY DEF NotifyStarted, unseen, seenVars
<1>2. Top \in Call /\ Top.call = "notify"
  BY <1>1, TopOf
<1>3. PICK n \in Name, e \in Entry : n = Top.name /\ e = Top.entry /\ Top = Notify(n, e)
  BY <1>2, CallShape
<1>4. ASSUME NEW c \in Conn, Connected(c)
      PROVE  Forwards(c)
  <2>1. Top \in Serving(c) => Top = Notify(n, Asking(c))
    <3>1. \A k \in Name : /\ Top # Send(Answer(c, k)) /\ Top # Send(Handover(c, k))
                          /\ Top # Dispatch(k, Holding(c))
      BY <1>2, CallForm
    <3>2. \A k : Top = Notify(k, Asking(c)) => k = n
      BY <1>3, CallForm
    <3> QED BY <3>1, <3>2, ServingForm
  <2>2. CASE e = Asking(c)
    <3>1. msgs' = Append(msgs, Answer(c, n)) /\ Answer(c, n) \in Message
      BY <1>1, <1>3, <1>4, <2>2, EntryForm, MessageIntro
    <3> QED BY <1>3, <2>2, <3>1 DEF Forwards
  <2>3. CASE e # Asking(c)
    <3>1. Top \notin Serving(c)
      BY <1>3, <2>1, <2>3, CallForm
    <3>2. CASE ~e.auto /\ Connected(e.conn)
      <4>1. e.conn \in Conn /\ e.conn # c
        BY <2>3, <3>2, EntryForm
      <4>2. Answer(e.conn, n) \in Message /\ Answer(e.conn, n) \notin Answering(c)
        BY <4>1, MessageIntro, ServingForm, AnswerForm
      <4> QED BY <1>1, <1>3, <3>1, <3>2, <4>2 DEF Forwards
    <3>3. CASE ~(~e.auto /\ Connected(e.conn))
      BY <1>1, <1>3, <3>1, <3>3 DEF Forwards
    <3> QED BY <3>2, <3>3
  <2> QED BY <2>2, <2>3
<1> QED BY <1>1, <1>4, QuietReturn

(* bus_activation_send_pending_auto_activation_messages: the held message of
   a client that is connected is handed over. *)
LEMMA DispatchCalls ==
  ASSUME TypeOK, CallsInv, DispatchHeld
  PROVE  CallsInv'
<1>1. /\ Calling("dispatch") /\ Return /\ UNCHANGED <<link, calls, pending, phase>>
      /\ msgs' = IF IsHeld(Top.entry) THEN Append(msgs, Handover(Top.entry.conn, Top.name)) ELSE msgs
  BY DEF DispatchHeld, registered, seenVars
<1>2. Top \in Call /\ Top.call = "dispatch"
  BY <1>1, TopOf
<1>3. PICK n \in Name, e \in Entry : n = Top.name /\ e = Top.entry /\ Top = Dispatch(n, e)
  BY <1>2, CallShape
<1>4. ASSUME NEW c \in Conn, Connected(c)
      PROVE  Forwards(c)
  <2>1. Top \in Serving(c) => Top = Dispatch(n, Holding(c))
    <3>1. \A k \in Name : /\ Top # Send(Answer(c, k)) /\ Top # Send(Handover(c, k))
                          /\ Top # Notify(k, Asking(c))
      BY <1>2, CallForm
    <3>2. \A k : Top = Dispatch(k, Holding(c)) => k = n
      BY <1>3, CallForm
    <3> QED BY <3>1, <3>2, ServingForm
  <2>2. CASE e = Holding(c)
    <3>1. msgs' = Append(msgs, Handover(c, n)) /\ Handover(c, n) \in Message
      BY <1>1, <1>3, <1>4, <2>2, EntryForm, MessageIntro DEF IsHeld
    <3> QED BY <1>3, <2>2, <3>1 DEF Forwards
  <2>3. CASE e # Holding(c)
    <3>1. Top \notin Serving(c)
      BY <1>3, <2>1, <2>3, CallForm
    <3>2. CASE IsHeld(e)
      <4>1. e.conn \in Conn /\ e.conn # c
        BY <2>3, <3>2, EntryForm DEF IsHeld
      <4>2. Handover(e.conn, n) \in Message /\ Handover(e.conn, n) \notin Answering(c)
        BY <4>1, MessageIntro, ServingForm, AnswerForm
      <4> QED BY <1>1, <1>3, <3>1, <3>2, <4>2 DEF Forwards
    <3>3. CASE ~IsHeld(e)
      BY <1>1, <1>3, <3>1, <3>3 DEF Forwards
    <3> QED BY <3>2, <3>3
  <2> QED BY <2>2, <2>3
<1> QED BY <1>1, <1>4, QuietReturn

(* The announcements of a succession answer nobody. *)
LEMMA MuffledSuccession ==
  ASSUME TypeOK, NEW n \in AnyName, NEW c \in Conn, owners[n] # <<>>, NEW x \in Call, Muted(x)
  PROVE  LET a == <<Send(Lost(c, n))>> \o Succession(n, c) \o <<x>> IN
         a \in Seq(Call) /\ Muffled(a)
<1> DEFINE b == <<Send(Lost(c, n))>> \o Succession(n, c)
<1>1. /\ b \in Seq(Call) /\ AllEarly(b)
      /\ \A m : Lists(b, Send(m)) <=>
           \/ m = Lost(c, n) \/ m = Changed(n, c, Heir(n))
           \/ Heir(n) \in Conn /\ m = Acquired(Heir(n), n)
  BY SuccessionForm
<1>2. \A k : Lists(b, k) => k.call = "send"
  BY DEF Lists, Succession, Send
<1> HIDE DEF b
<1>3. <<x>> \in Seq(Call) /\ \A k : Lists(<<x>>, k) <=> k = x
  BY CallSequences, ListsShort
<1>4. b \o <<x>> \in Seq(Call) /\ \A k : Lists(b \o <<x>>, k) <=> Lists(b, k) \/ k = x
  BY <1>1, <1>3, ListsConcat
<1>5. \A k : Lists(b, k) => k \in Call
  BY <1>1, LenProperties, ElementOfSeq DEF Lists
<1>6. \A m : Lists(b, Send(m)) => m.kind \notin {"answer", "handover"}
  BY <1>1, MessageKinds
<1>7. \A k : Lists(b, k) => Muted(k)
  BY <1>2, <1>5, <1>6, CallShape DEF Muted
<1> QED BY <1>4, <1>7 DEF Muffled, b

(* The registry answers no client about an activation, but for the calls it
   is told are answered. *)
LEMMA RegistryCalls ==
  ASSUME TypeOK, CallsInv, RegistryCall
  PROVE  CallsInv'
<1>1. CASE NotifyStarted
  BY <1>1, NotifyCalls
<1>2. CASE RemovePrimary \/ SwapPrimary
  <2>1. PICK f \in {"remove_owner", "swap_owner"} :
          /\ Calling(f) /\ Primary(Top.name) = Top.conn
          /\ UNCHANGED <<link, calls, pending, phase, msgs>>
    BY <1>2 DEF RemovePrimary, SwapPrimary, unseen, seenVars
  <2>2. Top \in Call /\ Top.call = f /\ Top.name \in AnyName /\ Top.conn \in Conn
    BY <2>1, TopOf, CallFields
  <2>3. PICK n \in AnyName, c \in Conn : n = Top.name /\ c = Top.conn
    BY <2>2
  <2>4. owners[n] # <<>>
    BY <2>1, <2>3, ConnAssumption DEF Primary
  <2>5. owners[n][1] \in Owner
    BY <2>4, FirstOwner
  <2>6. PICK x \in Call : /\ Muted(x)
                          /\ todo' = (<<Send(Lost(c, n))>> \o Succession(n, c) \o <<x>>) \o Tail(todo)
    <3>1. /\ UnlinkOwner(n, owners[n][1]) \in Call /\ SwapLinks(n, owners[n][1]) \in Call
          /\ Muted(UnlinkOwner(n, owners[n][1])) /\ Muted(SwapLinks(n, owners[n][1]))
      BY <2>5, CallIntro DEF Muted, UnlinkOwner, SwapLinks
    <3>2. CASE RemovePrimary
      BY <2>3, <3>1, <3>2 DEF RemovePrimary, Make
    <3>3. CASE SwapPrimary
      BY <2>3, <3>1, <3>3 DEF SwapPrimary, Make
    <3> QED BY <1>2, <3>2, <3>3
  <2>7. PICK a : a = <<Send(Lost(c, n))>> \o Succession(n, c) \o <<x>>
    OBVIOUS
  <2>8. a \in Seq(Call) /\ Muffled(a)
    BY <2>4, <2>6, <2>7, MuffledSuccession
  <2>9. Muted(Top)
    BY <2>1, <2>2 DEF Muted
  <2>10. \A d : Forwards(d)
    BY <2>1, <2>9, MutedForwards
  <2> QED BY <2>1, <2>6, <2>7, <2>8, <2>10, QuietCall
<1>3. CASE \/ CompleteConnection \/ LinkNewOwner \/ RelinkOwner \/ SetOwnerFlags
           \/ RemoveWaiting \/ UnlinkPrimary \/ SwapFirstTwo
  <2>1. PICK f \in {"complete", "link_owner", "set_flags", "remove_owner", "unlink_owner", "swap_links"} :
          Calling(f) /\ Return /\ UNCHANGED <<link, calls, pending, phase, msgs>>
    BY <1>3 DEF CompleteConnection, LinkNewOwner, RelinkOwner, SetOwnerFlags, RemoveWaiting,
                UnlinkPrimary, SwapFirstTwo, unseen, seenVars
  <2>2. Muted(Top)
    BY <2>1, TopOf DEF Muted
  <2>3. \A d : Forwards(d)
    BY <2>1, <2>2, MutedForwards
  <2> QED BY <2>1, <2>3, QuietReturn
<1> QED BY <1>1, <1>2, <1>3 DEF RegistryCall

-----------------------------------------------------------------------------
(* Calls of the activation table.                                          *)

(* An activation leaves the table when its clients are about to be answered,
   or it was not there. *)
LEMMA ClearedCalls ==
  ASSUME TypeOK, CallsInv, NEW f, f \in {"forget", "drop", "send_held"}, Calling(f),
         todo' = Tail(todo), f = "send_held" => pending[Top.name] = <<>>,
         pending' = [pending EXCEPT ![Top.name] = <<>>],
         UNCHANGED <<link, calls, phase, msgs>>
  PROVE  CallsInv'
<1>1. /\ phase = "run" /\ todo \in Seq(Call) /\ todo # <<>> /\ Top \in Call /\ Top.call = f
      /\ Top = Head(todo) /\ Tail(todo) \in Seq(Call)
      /\ \A x : Lists(todo, x) <=> x = Top \/ Lists(Tail(todo), x)
  BY TopOf
<1>2. PICK n \in Name : n = Top.name /\ (Top = Forget(n) \/ Top = Drop(n) \/ Top = SendHeld(n))
  BY <1>1, CallShape
<1>3. PICK s : s = Tail(todo)
  OBVIOUS
<1>4. Top \in Ending
  BY <1>2, CallForm
<1>5. OneOf(s, Ending) /\ NoneOf(s, Ending)
  BY <1>1, <1>3, <1>4, ListsTail DEF CallsInv
<1>6. ~Activating(todo) /\ ~Activating(s)
  BY <1>1, <1>3, NotOpening DEF Activating
<1>7. pending'[n] = <<>> /\ \A k \in Name : k # n => pending'[k] = pending[k]
  BY <1>2, TableUpdate
<1>8. \A k \in Name : /\ ~Lists(s, SendHeld(k)) /\ ~Lists(s, Forget(k)) /\ ~Lists(s, Drop(k))
                      /\ k # n => /\ ~Lists(todo, Forget(k)) /\ ~Lists(todo, Drop(k))
                                  /\ ~Lists(todo, SendHeld(k))
  <2>1. \A k \in Name : ~Lists(s, SendHeld(k)) /\ ~Lists(s, Forget(k)) /\ ~Lists(s, Drop(k))
    BY <1>5, CallForm DEF NoneOf
  <2>2. \A k : k # n => Top # Forget(k) /\ Top # Drop(k) /\ Top # SendHeld(k)
    BY <1>1, <1>2, CallForm
  <2> QED BY <1>1, <1>3, <2>1, <2>2
<1>9. ASSUME NEW c \in Conn, Connected(c)
      PROVE  Attended(c)'
  <2>1. Attended(c) /\ Alone(c) /\ Forwards(c)
    BY <1>1, <1>9, ServingForm DEF CallsInv, Attended, Forwards
  <2>2. <<>> \in Seq(Call) /\ NoneOf(<<>>, Serving(c)) /\ todo' = <<>> \o Tail(todo)
    BY <1>1, CallSequences, ListsShort, ConcatEmptySeq DEF NoneOf
  <2>3. Alone(c)' /\ \A k \in Name : Comes(c, k)' <=> Comes(c, k)
    BY <2>1, <2>2, Forwarded
  <2>4. \A k, a : ~Lists(todo, Register(k, c, a))
    BY <1>6, CallForm DEF Activating
  <2>5. ASSUME NEW k \in Name, k # n
        PROVE  Accounted(c, k)'
    <3>1. Accounted(c, k) /\ (Comes(c, k)' <=> Comes(c, k)) /\ todo' = s
      BY <1>3, <2>1, <2>3 DEF Attended
    <3> QED BY <1>7, <1>8, <2>4, <2>5, <3>1, AccountedAgain
  <2>6. Accounted(c, n)'
    <3>1. Accounted(c, n) /\ (Comes(c, n)' <=> Comes(c, n))
      BY <2>1, <2>3 DEF Attended
    <3>2. Enrolled(n, c) => Closing(n)
      <4>1. CASE f = "send_held"
        <5>1. pending[n] = <<>>
          BY <1>2, <4>1
        <5> QED BY <5>1, ListsShort DEF Enrolled
      <4>2. CASE f # "send_held"
        BY <1>1, <1>2, <4>2, CallForm DEF Closing
      <4> QED BY <4>1, <4>2
    <3>3. Comes(c, n) <=> calls[c] = n
      BY <2>4, <3>1, <3>2 DEF Accounted, Enrolled
    <3>4. /\ OneOf(<<>>, Waits(c))
          /\ ~Lists(<<>>, Asking(c)) /\ ~Lists(<<>>, Holding(c))
          /\ Comes(c, n)' <=> calls'[c] = n
      BY <3>1, <3>3, ListsShort
    <3> QED BY <1>7, <3>4 DEF Accounted, Enrolled, OneOf, Waits, Asking, Holding, Lists
  <2> QED BY <2>3, <2>5, <2>6 DEF Attended
<1>10. \A c : Connected(c)' <=> Connected(c)
  BY DEF Connected
<1> QED BY <1>1, <1>3, <1>5, <1>6, <1>9, <1>10, NothingOpens, CallsAssembled

(* The calls that hand over what is held, by the entries they come from. *)
LEMMA HeldForm ==
  ASSUME TypeOK, NEW n \in Name
  PROVE  /\ Held(n) \in Seq(Call)
         /\ \A k : Lists(Held(n), k) <=> \E e \in Entry : Lists(pending[n], e) /\ k = Dispatch(n, e)
         /\ \A c : OneOf(pending[n], Waits(c)) => OneOf(Held(n), Serving(c))
<1>1. Held(n) \in Seq(Call) /\ pending[n] \in Seq(Entry)
  BY CallsForEntries DEF TypeOK
<1>2. PICK q \in Seq(Entry) : q = pending[n]
  BY <1>1
<1>3. DOMAIN Held(n) = DOMAIN q /\ \A i \in DOMAIN q : Held(n)[i] = Dispatch(n, q[i])
  BY <1>2 DEF Held
<1>4. \A i \in DOMAIN q : q[i] \in Entry
  BY LenProperties, ElementOfSeq
<1>5. \A k : Lists(Held(n), k) <=> \E e \in Entry : Lists(pending[n], e) /\ k = Dispatch(n, e)
  BY <1>2, <1>3, <1>4 DEF Lists
<1>6. ASSUME NEW c, OneOf(q, Waits(c))
      PROVE  OneOf(Held(n), Serving(c))
  <2>1. \A i \in DOMAIN q : Held(n)[i] \in Serving(c) => q[i] = Holding(c)
    <3>1. \A i \in DOMAIN q : Held(n)[i] \in Serving(c) => \E k \in Name : Held(n)[i] = Dispatch(k, Holding(c))
      BY <1>3, ServingForm, CallForm
    <3> QED BY <1>3, <3>1, CallForm
  <2> QED BY <1>3, <1>6, <2>1 DEF OneOf, Waits
<1> QED BY <1>1, <1>2, <1>5, <1>6

(* The held messages are handed over before the activation is forgotten. *)
LEMMA SendHeldCalls ==
  ASSUME TypeOK, CallsInv, SendHeldMessages
  PROVE  CallsInv'
<1>1. Calling("send_held") /\ UNCHANGED <<link, calls, phase, msgs, pending>>
  BY DEF SendHeldMessages, registered, seenVars
<1>2. /\ phase = "run" /\ todo \in Seq(Call) /\ todo # <<>> /\ Top \in Call /\ Top.call = "send_held"
      /\ Top = Head(todo) /\ Tail(todo) \in Seq(Call)
      /\ \A x : Lists(todo, x) <=> x = Top \/ Lists(Tail(todo), x)
  BY <1>1, TopOf
<1>3. PICK n \in Name : n = Top.name /\ Top = SendHeld(n)
  BY <1>2, CallShape
<1>4. CASE pending[n] = <<>>
  <2>1. todo' = <<>> \o Tail(todo)
    BY <1>3, <1>4 DEF SendHeldMessages, Make
  <2>2. todo' = Tail(todo)
    BY <1>2, <2>1, ConcatEmptySeq
  <2>3. pending' = [pending EXCEPT ![Top.name] = <<>>]
    BY <1>1, <1>3, <1>4 DEF TypeOK
  <2> QED BY <1>1, <1>3, <1>4, <2>2, <2>3, ClearedCalls
<1>5. CASE pending[n] # <<>>
  <2>1. /\ Held(n) \in Seq(Call) /\ <<Forget(n)>> \in Seq(Call)
        /\ \A k : Lists(<<Forget(n)>>, k) <=> k = Forget(n)
    BY CallsForEntries, CallIntro, CallSequences, ListsShort
  <2>2. PICK u \in Seq(Call) : u = Held(n) \o <<Forget(n)>>
    BY <2>1, CallSequences
  <2>3. PICK s : s = u \o Tail(todo)
    OBVIOUS
  <2>4. todo' = s
    BY <1>3, <1>5, <2>2, <2>3 DEF SendHeldMessages, Make
  <2>5. \A k : Lists(Held(n), k) <=> \E e \in Entry : Lists(pending[n], e) /\ k = Dispatch(n, e)
    BY HeldForm
  <2>6. /\ \A x : Lists(u, x) <=> Lists(Held(n), x) \/ x = Forget(n)
        /\ \A X : OneOf(Held(n), X) /\ Forget(n) \notin X => OneOf(u, X)
        /\ \A X : NoneOf(Held(n), X) => OneOf(u, X)
    <3>1. /\ \A x : Lists(u, x) <=> Lists(Held(n), x) \/ Lists(<<Forget(n)>>, x)
          /\ \A X : OneOf(Held(n), X) /\ NoneOf(<<Forget(n)>>, X) => OneOf(u, X)
          /\ \A X : NoneOf(Held(n), X) /\ OneOf(<<Forget(n)>>, X) => OneOf(u, X)
      BY <2>1, <2>2, ListsConcat
    <3>2. \A X : /\ OneOf(<<Forget(n)>>, X)
                 /\ Forget(n) \notin X => NoneOf(<<Forget(n)>>, X)
      BY <2>1, ListsShort DEF NoneOf
    <3> QED BY <2>1, <3>1, <3>2
  <2>7. /\ \A x : Lists(s, x) <=> Lists(u, x) \/ Lists(Tail(todo), x)
        /\ \A X : OneOf(u, X) /\ NoneOf(Tail(todo), X) => OneOf(s, X)
    BY <1>2, <2>3, ListsConcat
  <2>8. NoneOf(Tail(todo), Ending)
    <3>1. Top \in Ending /\ OneOf(todo, Ending)
      BY <1>3, CallForm DEF CallsInv
    <3> QED BY <1>2, <3>1, ListsTail
  <2>9. NoneOf(Held(n), Ending) /\ ~Activating(u)
    BY <2>5, <2>6, CallForm DEF NoneOf, Activating
  <2>10. OneOf(s, Ending)
    BY <2>6, <2>7, <2>8, <2>9
  <2>11. ~Activating(todo) /\ ~Activating(s)
    BY <1>1, <1>2, <2>7, <2>9, NotOpening DEF Activating
  <2>12. \A c, k, a : ~Lists(todo, Register(k, c, a))
    BY <2>11, CallForm DEF Activating
  <2>13. /\ ~Closing(n) /\ Lists(todo, SendHeld(n)) /\ Lists(s, Forget(n))
         /\ \A k \in Name : k # n =>
              /\ ~Lists(todo, Forget(k)) /\ ~Lists(todo, Drop(k)) /\ ~Lists(todo, SendHeld(k))
              /\ ~Lists(s, Forget(k)) /\ ~Lists(s, Drop(k)) /\ ~Lists(s, SendHeld(k))
    <3>1. \A k \in Name : /\ ~Lists(Tail(todo), Forget(k)) /\ ~Lists(Tail(todo), Drop(k))
                          /\ ~Lists(Tail(todo), SendHeld(k))
                          /\ ~Lists(Held(n), Forget(k)) /\ ~Lists(Held(n), Drop(k))
                          /\ ~Lists(Held(n), SendHeld(k))
      BY <2>8, <2>9, CallForm DEF NoneOf
    <3>2. /\ \A k : Top # Forget(k) /\ Top # Drop(k)
          /\ \A k : Forget(n) # SendHeld(k) /\ Forget(n) # Drop(k)
          /\ \A k : k # n => Top # SendHeld(k) /\ Forget(n) # Forget(k)
      BY <1>3, CallForm
    <3> QED BY <1>2, <1>3, <2>6, <2>7, <3>1, <3>2 DEF Closing
  <2>14. ASSUME NEW c \in Conn, Connected(c)
         PROVE  Attended(c)'
    <3>1. /\ Attended(c) /\ Alone(c) /\ Top \notin Serving(c)
          /\ \A k \in Name : Accounted(c, k)
      BY <1>2, <2>14, ServingForm DEF CallsInv, Attended
    <3>2. \A k : Dispatch(k, Holding(c)) \in Serving(c) <=> k \in Name
      BY CallForm, ServingForm
    <3>3. CASE Lists(pending[n], Holding(c))
      <4>1. ~Comes(c, n) /\ calls[c] = n
        BY <2>13, <3>1, <3>3 DEF Accounted, Enrolled
      <4>2. \A k \in Name : ~Comes(c, k)
        BY <3>1, <4>1 DEF Accounted
      <4>3. NoneOf(msgs, Answering(c)) /\ NoneOf(todo, Serving(c))
        BY <4>2, NobodyComes
      <4>4. NoneOf(Tail(todo), Serving(c))
        BY <1>2, <4>3 DEF NoneOf
      <4>5. OneOf(s, Serving(c))
        BY <2>6, <2>7, <3>1, <4>4, HeldForm, ServingForm, CallForm DEF Accounted
      <4>6. Alone(c)'
        BY <1>1, <2>4, <3>1, <4>3, <4>5 DEF Alone, Answering, Serving, Answer, Handover, Send, Notify,
             Dispatch, Asking, Holding, OneOf, NoneOf, Lists
      <4>7. \A k \in Name : Comes(c, k)' <=>
              \/ Lists(s, Send(Answer(c, k))) \/ Lists(s, Send(Handover(c, k)))
              \/ Lists(s, Notify(k, Asking(c))) \/ Lists(s, Dispatch(k, Holding(c)))
        <5>1. \A k \in Name : ~Lists(msgs, Answer(c, k)) /\ ~Lists(msgs, Handover(c, k))
          BY <4>3, ComesForm DEF NoneOf
        <5> QED BY <1>1, <2>4, <5>1 DEF Comes, Coming, Answer, Handover, Send, Notify, Dispatch, Asking,
                                   Holding, Lists
      <4>8. \A k \in Name : Comes(c, k)' <=> k = n
        <5>1. \A x \in Serving(c) : Lists(s, x) <=> Lists(Held(n), x)
          BY <2>6, <2>7, <4>4, ServingForm, CallForm DEF NoneOf
        <5>2. /\ \A k : /\ ~Lists(Held(n), Send(Answer(c, k))) /\ ~Lists(Held(n), Send(Handover(c, k)))
                        /\ ~Lists(Held(n), Notify(k, Asking(c)))
              /\ \A k : Lists(Held(n), Dispatch(k, Holding(c))) <=> k = n
          BY <2>5, <3>3, EntryForm, CallForm
        <5> QED BY <4>7, <5>1, <5>2, ComesForm
      <4>9. ASSUME NEW k \in Name, k # n
            PROVE  Accounted(c, k)'
        <5>1. Accounted(c, k) /\ (Comes(c, k)' <=> Comes(c, k))
          BY <3>1, <4>2, <4>8, <4>9
        <5> QED BY <1>1, <2>4, <2>12, <2>13, <4>9, <5>1, AccountedAgain
      <4>10. Accounted(c, n)'
        <5>1. OneOf(pending[n], Waits(c)) /\ Comes(c, n)' /\ calls'[c] = n /\ Lists(s, Forget(n))
          BY <1>1, <2>13, <3>1, <4>1, <4>8 DEF Accounted
        <5> QED BY <1>1, <2>4, <5>1 DEF Accounted, Enrolled, Closing, OneOf, Waits, Asking, Holding, Lists,
                          SendHeld, Forget, Drop
      <4> QED BY <4>6, <4>9, <4>10 DEF Attended
    <3>4. CASE ~Lists(pending[n], Holding(c))
      <4>1. NoneOf(u, Serving(c))
        <5>1. \A e : Dispatch(n, e) \in Serving(c) => e = Holding(c)
          <6>1. \A e : Dispatch(n, e) \in Serving(c) => \E k \in Name : Dispatch(n, e) = Dispatch(k, Holding(c))
            BY ServingForm, CallForm
          <6> QED BY <6>1, CallForm
        <5>2. Forget(n) \notin Serving(c)
          BY ServingForm, CallForm
        <5> QED BY <2>5, <2>6, <3>4, <5>1, <5>2 DEF NoneOf
      <4>2. Forwards(c)
        BY <1>1, <3>1 DEF Forwards
      <4>3. Alone(c)' /\ \A k \in Name : Comes(c, k)' <=> Comes(c, k)
        BY <1>1, <2>3, <2>4, <3>1, <4>1, <4>2, Forwarded
      <4>4. ASSUME NEW k \in Name, k # n
            PROVE  Accounted(c, k)'
        <5>1. Accounted(c, k) /\ (Comes(c, k)' <=> Comes(c, k))
          BY <3>1, <4>3
        <5> QED BY <1>1, <2>4, <2>12, <2>13, <4>4, <5>1, AccountedAgain
      <4>5. Accounted(c, n)'
        <5>1. /\ OneOf(pending[n], Waits(c)) /\ Lists(s, Forget(n))
              /\ Comes(c, n)' <=> Comes(c, n)
              /\ Enrolled(n, c) \/ Comes(c, n) => calls[c] = n
              /\ calls[c] = n => Enrolled(n, c) \/ Comes(c, n)
              /\ Lists(pending[n], Asking(c)) => Comes(c, n)
          BY <2>12, <2>13, <3>1, <4>3 DEF Accounted
        <5> QED BY <1>1, <2>4, <3>4, <5>1 DEF Accounted, Enrolled, Closing, OneOf, Waits, Asking, Holding,
                          Lists, SendHeld, Forget, Drop
      <4> QED BY <4>3, <4>4, <4>5 DEF Attended
    <3> QED BY <3>3, <3>4
  <2>15. \A c : Connected(c)' <=> Connected(c)
    BY <1>1 DEF Connected
  <2> QED BY <1>1, <1>2, <2>4, <2>10, <2>11, <2>14, <2>15, NothingOpens, CallsAssembled
<1> QED BY <1>4, <1>5

-----------------------------------------------------------------------------
(* Calls that open an activation.                                          *)

(* What is true when an activation is registered or its program is started,
   and of the calls that are left. *)
LEMMA OpeningFacts ==
  ASSUME TypeOK, CallsInv, NEW f, f \in {"register", "spawn"}, Calling(f)
  PROVE  \E n \in Name, b \in Conn :
           /\ n = Top.name /\ b = job.by /\ job.why = "call"
           /\ Connected(b) => calls[b] = n /\ \A k \in Name : ~Comes(b, k)
           /\ f = "spawn" => Top = Spawn(n) /\ \A e : Lists(pending[n], e) => e.conn = b
           /\ f = "register" => /\ \E a \in BOOLEAN : Top = Register(n, b, a) /\ a = Top.auto
                                /\ Top.conn = b /\ NoneOf(Tail(todo), Registering)
                                /\ Connected(b) => \A k \in Name : ~Enrolled(k, b)
           /\ \A x : Lists(todo, x) => /\ x \in Call /\ x.call \in {"register", "spawn"}
                                       /\ x \notin Ending /\ \A c : x \notin Serving(c)
                                       /\ Connected(b) => calls[b] = x.name
                                       /\ x.call = "register" => x.conn = b
<1>1. /\ phase = "run" /\ todo \in Seq(Call) /\ todo # <<>> /\ Top \in Call /\ Top.call = f
      /\ Top = Head(todo) /\ Tail(todo) \in Seq(Call)
      /\ \A x : Lists(todo, x) <=> x = Top \/ Lists(Tail(todo), x)
  BY TopOf
<1>2. PICK n \in Name : /\ n = Top.name
                        /\ f = "spawn" => Top = Spawn(n)
                        /\ f = "register" => /\ Top = Register(n, Top.conn, Top.auto) /\ Top \in Registering
                                             /\ Top.conn \in Conn /\ Top.auto \in BOOLEAN
  BY <1>1, CallShape
<1>3. \A k : Lists(todo, k) /\ k.call \in {"register", "spawn"} =>
        /\ job.why = "call"
        /\ \A x : Lists(todo, x) => x.call \in {"register", "spawn"}
        /\ Connected(job.by) => calls[job.by] = k.name /\ \A m \in Name : ~Comes(job.by, m)
        /\ k.call = "spawn" => \A e : Lists(pending[k.name], e) => e.conn = job.by
        /\ k.call = "register" =>
             k.conn = job.by /\ (Connected(job.by) => \A m \in Name : ~Enrolled(m, job.by))
  BY DEF CallsInv, Opening
<1>4. Lists(todo, Top) /\ Top.call \in {"register", "spawn"}
  BY <1>1
<1>5. job.why = "call" /\ \A x : Lists(todo, x) => x.call \in {"register", "spawn"}
  BY <1>3, <1>4
<1>6. job.by \in Conn
  BY <1>5 DEF TypeOK, Job, NoJob
<1>7. PICK b \in Conn : b = job.by
  BY <1>6
<1>8. Connected(b) => calls[b] = n /\ \A k \in Name : ~Comes(b, k)
  BY <1>2, <1>3, <1>4, <1>7
<1>9. f = "spawn" => \A e : Lists(pending[n], e) => e.conn = b
  BY <1>1, <1>2, <1>3, <1>4, <1>7
<1>10. f = "register" => /\ Top.conn = b /\ NoneOf(Tail(todo), Registering)
                         /\ Connected(b) => \A k \in Name : ~Enrolled(k, b)
  <2> SUFFICES ASSUME f = "register"
               PROVE  /\ Top.conn = b /\ NoneOf(Tail(todo), Registering)
                      /\ Connected(b) => \A k \in Name : ~Enrolled(k, b)
    OBVIOUS
  <2>1. Top.conn = b /\ (Connected(b) => \A k \in Name : ~Enrolled(k, b))
    BY <1>1, <1>3, <1>4, <1>7
  <2>2. Top \in Registering /\ OneOf(todo, Registering)
    BY <1>2 DEF CallsInv
  <2>3. NoneOf(Tail(todo), Registering)
    BY <1>1, <2>2, ListsTail
  <2> QED BY <2>1, <2>3
<1>11. f = "register" => \E a \in BOOLEAN : Top = Register(n, b, a) /\ a = Top.auto
  BY <1>2, <1>10
<1>12. \A x : Lists(todo, x) => x \in Call
  BY <1>1, LenProperties, ElementOfSeq DEF Lists
<1>13. \A x : x.call \in {"register", "spawn"} => x \notin Ending /\ \A c : x \notin Serving(c)
  BY CallForm, ServingForm
<1>14. \A x : Lists(todo, x) => /\ Connected(b) => calls[b] = x.name
                                /\ x.call = "register" => x.conn = b
  BY <1>3, <1>5, <1>7
<1> QED BY <1>2, <1>5, <1>7, <1>8, <1>9, <1>10, <1>11, <1>12, <1>13, <1>14

LEMMA OpeningAgain ==
  ASSUME NEW s, todo' = s, NEW b, b = job.by, UNCHANGED <<job, link, calls>>, job.why = "call",
         \A x : Lists(s, x) => /\ x.call \in {"register", "spawn"}
                               /\ Connected(b) => calls[b] = x.name,
         Connected(b) => \A n \in Name : ~Comes(b, n)',
         \A k : Lists(s, k) /\ k.call = "spawn" => \A e : Lists(pending'[k.name], e) => e.conn = b,
         \A k : Lists(s, k) /\ k.call = "register" =>
           k.conn = b /\ (Connected(b) => \A n \in Name : pending'[n] = pending[n] /\ ~Enrolled(n, b))
  PROVE  Opening'
<1>1. Connected(b)' <=> Connected(b)
  BY DEF Connected
<1>2. \A n \in Name : pending'[n] = pending[n] /\ ~Enrolled(n, b) => ~Enrolled(n, b)'
  BY DEF Enrolled, Lists, Asking, Holding
<1>3. /\ \A n : Comes(b, n)' <=> Comes(job.by, n)'
      /\ \A n : Enrolled(n, b)' <=> Enrolled(n, job.by)'
      /\ Connected(b)' <=> Connected(job.by)'
  BY DEF Comes, Coming, Enrolled, Connected, Asking, Holding, Answer, Handover, Send, Notify, Dispatch
<1>4. \A k : Lists(s, k) /\ k.call \in {"register", "spawn"} =>
        /\ job'.why = "call"
        /\ \A x : Lists(s, x) => x.call \in {"register", "spawn"}
        /\ Connected(job.by)' => calls'[b] = k.name /\ \A m \in Name : ~Comes(job.by, m)'
        /\ k.call = "spawn" => \A e : Lists(pending'[k.name], e) => e.conn = b
        /\ k.call = "register" =>
             k.conn = b /\ (Connected(job.by)' => \A m \in Name : ~Enrolled(m, job.by)')
  BY <1>1, <1>2, <1>3
<1>5. job'.by = b
  OBVIOUS
<1> QED BY <1>4, <1>5 DEF Opening, Lists

(* The lists of calls of a handler that opens an activation end none, and one
   that returns answers nobody. *)
LEMMA OpeningReturn ==
  ASSUME TypeOK, CallsInv, NEW f, f \in {"register", "spawn"}, Calling(f), Return,
         UNCHANGED <<link, msgs>>
  PROVE  /\ OneOf(Tail(todo), Ending) /\ OneOf(Tail(todo), Registering)
         /\ \A n \in Name : /\ ~Lists(todo, SendHeld(n)) /\ ~Lists(todo, Forget(n))
                            /\ ~Lists(todo, Drop(n)) /\ ~Lists(Tail(todo), SendHeld(n))
                            /\ ~Lists(Tail(todo), Forget(n)) /\ ~Lists(Tail(todo), Drop(n))
         /\ \A c \in Conn : Connected(c) =>
              Alone(c)' /\ \A n \in Name : Comes(c, n)' <=> Comes(c, n)
<1>1. /\ phase = "run" /\ todo \in Seq(Call) /\ todo # <<>> /\ Top \in Call /\ Top.call = f
      /\ Top = Head(todo) /\ Tail(todo) \in Seq(Call)
      /\ \A x : Lists(todo, x) <=> x = Top \/ Lists(Tail(todo), x)
  BY TopOf
<1>2. \A x : Lists(todo, x) => x \notin Ending /\ \A c : x \notin Serving(c)
  BY OpeningFacts
<1>3. OneOf(Tail(todo), Ending) /\ OneOf(Tail(todo), Registering)
  BY <1>1, ListsTail DEF CallsInv
<1>4. \A n \in Name : /\ ~Lists(todo, SendHeld(n)) /\ ~Lists(todo, Forget(n)) /\ ~Lists(todo, Drop(n))
  BY <1>2, CallForm
<1>5. ASSUME NEW c \in Conn, Connected(c)
      PROVE  Alone(c)' /\ \A n \in Name : Comes(c, n)' <=> Comes(c, n)
  <2>1. Alone(c) /\ Forwards(c)
    BY <1>1, <1>2, <1>5 DEF CallsInv, Attended, Forwards
  <2>2. <<>> \in Seq(Call) /\ NoneOf(<<>>, Serving(c)) /\ todo' = <<>> \o Tail(todo)
    BY <1>1, CallSequences, ListsShort, ConcatEmptySeq DEF NoneOf, Return
  <2> QED BY <2>1, <2>2, Forwarded
<1> QED BY <1>1, <1>3, <1>4, <1>5

(* bus_activation_activate_service: the caller is put in the table. *)
LEMMA RegisterCalls ==
  ASSUME TypeOK, CallsInv, RegisterEntry
  PROVE  CallsInv'
<1>1. /\ Calling("register") /\ Return /\ UNCHANGED <<link, calls, phase, msgs, job>>
      /\ pending' = [pending EXCEPT ![Top.name] = Append(@, [conn |-> Top.conn, auto |-> Top.auto])]
  BY DEF RegisterEntry, registered, seenVars
<1>2. PICK n \in Name, b \in Conn, a \in BOOLEAN :
        /\ n = Top.name /\ b = job.by /\ job.why = "call"
        /\ Connected(b) => calls[b] = n /\ \A k \in Name : ~Comes(b, k) /\ ~Enrolled(k, b)
        /\ Top = Register(n, b, a) /\ a = Top.auto
        /\ Top.conn = b /\ NoneOf(Tail(todo), Registering)
        /\ \A x : Lists(todo, x) => /\ x \in Call /\ x.call \in {"register", "spawn"}
                                    /\ Connected(b) => calls[b] = x.name
                                    /\ x.call = "register" => x.conn = b
  BY <1>1, OpeningFacts
<1>3. PICK s : s = Tail(todo)
  OBVIOUS
<1>4. /\ phase = "run" /\ todo \in Seq(Call) /\ s \in Seq(Call) /\ todo' = s
      /\ \A x : Lists(todo, x) <=> x = Top \/ Lists(s, x)
  BY <1>1, <1>3, TopOf DEF Return
<1>5. /\ OneOf(s, Ending) /\ OneOf(s, Registering)
      /\ \A k \in Name : /\ ~Lists(todo, SendHeld(k)) /\ ~Lists(todo, Forget(k)) /\ ~Lists(todo, Drop(k))
                         /\ ~Lists(s, SendHeld(k)) /\ ~Lists(s, Forget(k)) /\ ~Lists(s, Drop(k))
      /\ \A c \in Conn : Connected(c) =>
           Alone(c)' /\ \A k \in Name : Comes(c, k)' <=> Comes(c, k)
  BY <1>1, <1>3, OpeningReturn
<1>6. PICK e \in Entry : e = [conn |-> b, auto |-> a]
  BY DEF Entry
<1>7. e \in {Asking(b), Holding(b)} /\ e.conn = b
  BY <1>6 DEF Asking, Holding
<1>8. pending[n] \in Seq(Entry)
  BY DEF TypeOK
<1>9. PICK q : q = Append(pending[n], e)
  OBVIOUS
<1>10. pending'[n] = q /\ \A k \in Name : k # n => pending'[k] = pending[k]
  BY <1>1, <1>2, <1>6, <1>9, TableUpdate
<1>11. /\ \A x : Lists(q, x) <=> Lists(pending[n], x) \/ x = e
       /\ \A X : NoneOf(pending[n], X) \/ (OneOf(pending[n], X) /\ e \notin X) => OneOf(q, X)
  BY <1>8, <1>9, ListsAppended
<1>12. \A x : Lists(s, x) => x \in Call /\ x.call = "spawn" /\ (Connected(b) => calls[b] = x.name)
  <2>1. \A x \in Call : x.call = "register" => x \in Registering
    BY CallShape
  <2> QED BY <1>2, <1>3, <1>4, <2>1 DEF NoneOf
<1>13. Opening'
  <2>1. Connected(b) => \A k \in Name : ~Comes(b, k)'
    BY <1>2, <1>5
  <2>2. \A k : Lists(s, k) /\ k.call = "spawn" => \A x : Lists(pending'[k.name], x) => x.conn = b
    <3> SUFFICES ASSUME NEW k, Lists(s, k), k.call = "spawn"
                 PROVE  \A x : Lists(pending'[k.name], x) => x.conn = b
      OBVIOUS
    <3>1. Lists(todo, k) /\ k \in Call /\ k.name \in Name
      BY <1>4, <1>12, CallFields
    <3>2. \A x : Lists(pending[k.name], x) => x.conn = b
      BY <1>2, <3>1 DEF CallsInv, Opening
    <3>3. CASE k.name = n
      BY <1>7, <1>10, <1>11, <3>2, <3>3
    <3>4. CASE k.name # n
      BY <1>10, <3>1, <3>2, <3>4
    <3> QED BY <3>3, <3>4
  <2>3. \A x : Lists(s, x) => /\ x.call \in {"register", "spawn"} /\ x.call # "register"
                              /\ Connected(b) => calls[b] = x.name
    BY <1>12
  <2> QED BY <1>1, <1>2, <1>4, <2>1, <2>2, <2>3, OpeningAgain
<1>14. ASSUME NEW c \in Conn, Connected(c)
       PROVE  Attended(c)'
  <2>1. /\ Attended(c) /\ Alone(c)' /\ \A k \in Name : Comes(c, k)' <=> Comes(c, k)
        /\ \A k \in Name : Accounted(c, k)
    BY <1>5, <1>14 DEF CallsInv, Attended
  <2>2. \A k, d : Lists(todo, Register(k, c, d)) => c = b /\ k = n
    <3>1. \A k, d : Lists(todo, Register(k, c, d)) => Register(k, c, d) = Top
      <4>1. \A x : Lists(s, x) => x.call = "spawn"
        BY <1>12
      <4> QED BY <1>4, <4>1, CallForm
    <3> QED BY <1>2, <3>1, CallForm
  <2>3. ASSUME NEW k \in Name, k # n
        PROVE  Accounted(c, k)'
    <3>1. Accounted(c, k) /\ (Comes(c, k)' <=> Comes(c, k))
      BY <2>1
    <3>2. \A d : ~Lists(todo, Register(k, c, d))
      BY <2>2, <2>3
    <3> QED BY <1>1, <1>4, <1>5, <1>10, <2>3, <3>1, <3>2, AccountedAgain
  <2>4. Accounted(c, n)'
    <3>1. OneOf(q, Waits(c))
      <4>1. CASE c = b
        <5>1. ~Enrolled(n, c)
          BY <1>2, <1>14, <4>1
        <5>2. NoneOf(pending[n], Waits(c))
          BY <5>1 DEF NoneOf, Waits, Enrolled
        <5> QED BY <1>11, <5>2
      <4>2. CASE c # b
        <5>1. e \notin Waits(c)
          BY <1>7, <4>2, EntryForm DEF Waits
        <5> QED BY <1>11, <2>1, <5>1 DEF Accounted
      <4> QED BY <4>1, <4>2
    <3>2. c = b => /\ Lists(q, Asking(c)) \/ Lists(q, Holding(c))
                   /\ calls[c] = n /\ ~Comes(c, n)'
      BY <1>2, <1>7, <1>11, <1>14, <2>1
    <3>3. c # b => /\ Lists(q, Asking(c)) <=> Lists(pending[n], Asking(c))
                   /\ Lists(q, Holding(c)) <=> Lists(pending[n], Holding(c))
                   /\ \A d : ~Lists(todo, Register(n, c, d))
      BY <1>7, <1>11, <2>2, EntryForm
    <3>4. /\ Lists(q, Asking(c)) \/ Lists(q, Holding(c)) \/ Comes(c, n)' => calls[c] = n
          /\ calls[c] = n => Lists(q, Asking(c)) \/ Lists(q, Holding(c)) \/ Comes(c, n)'
          /\ Lists(q, Asking(c)) \/ Lists(q, Holding(c)) => ~Comes(c, n)'
      <4>1. CASE c = b
        BY <3>2, <4>1
      <4>2. CASE c # b
        <5>1. ~Closing(n)
          BY <1>5 DEF Closing
        <5> QED BY <1>5, <2>1, <3>3, <4>2, <5>1 DEF Accounted, Enrolled
      <4> QED BY <4>1, <4>2
    <3>5. ~Lists(s, SendHeld(n)) /\ ~Lists(s, Forget(n)) /\ ~Lists(s, Drop(n))
      BY <1>5
    <3> QED BY <1>1, <1>4, <1>10, <3>1, <3>4, <3>5 DEF Accounted, Enrolled, Closing, OneOf, Waits, Asking,
                          Holding, Lists, SendHeld, Forget, Drop
  <2> QED BY <2>1, <2>3, <2>4 DEF Attended
<1>15. \A c : Connected(c)' <=> Connected(c)
  BY <1>1 DEF Connected
<1> QED BY <1>1, <1>4, <1>5, <1>13, <1>14, <1>15, CallsAssembled

(* The program of an activation is started. *)
LEMMA SpawnCalls ==
  ASSUME TypeOK, CallsInv, SpawnProgram
  PROVE  CallsInv'
<1>1. Calling("spawn") /\ Return /\ UNCHANGED <<link, calls, phase, msgs, job, pending>>
  BY DEF SpawnProgram, registered, seenVars
<1>2. PICK n \in Name, b \in Conn :
        /\ n = Top.name /\ b = job.by /\ job.why = "call"
        /\ Connected(b) => calls[b] = n /\ \A k \in Name : ~Comes(b, k)
        /\ Top = Spawn(n)
        /\ \A x : Lists(todo, x) => /\ x \in Call /\ x.call \in {"register", "spawn"}
                                    /\ Connected(b) => calls[b] = x.name
                                    /\ x.call = "register" => x.conn = b
  BY <1>1, OpeningFacts
<1>3. PICK s : s = Tail(todo)
  OBVIOUS
<1>4. /\ phase = "run" /\ todo' = s
      /\ \A x : Lists(todo, x) <=> x = Top \/ Lists(s, x)
  BY <1>1, <1>3, TopOf DEF Return
<1>5. /\ OneOf(s, Ending) /\ OneOf(s, Registering)
      /\ \A k \in Name : /\ ~Lists(todo, SendHeld(k)) /\ ~Lists(todo, Forget(k)) /\ ~Lists(todo, Drop(k))
                         /\ ~Lists(s, SendHeld(k)) /\ ~Lists(s, Forget(k)) /\ ~Lists(s, Drop(k))
      /\ \A c \in Conn : Connected(c) =>
           Alone(c)' /\ \A k \in Name : Comes(c, k)' <=> Comes(c, k)
  BY <1>1, <1>3, OpeningReturn
<1>6. Opening'
  <2>1. Connected(b) => \A k \in Name : ~Comes(b, k)'
    BY <1>2, <1>5
  <2>2. \A k : Lists(s, k) /\ k.call \in {"register", "spawn"} =>
          /\ k.call = "spawn" => \A e : Lists(pending[k.name], e) => e.conn = b
          /\ k.call = "register" =>
               k.conn = b /\ (Connected(b) => \A m \in Name : ~Enrolled(m, b))
    BY <1>2, <1>4 DEF CallsInv, Opening
  <2>3. \A x : Lists(s, x) => /\ x.call \in {"register", "spawn"}
                              /\ Connected(b) => calls[b] = x.name
    BY <1>2, <1>4
  <2> QED BY <1>1, <1>2, <1>4, <2>1, <2>2, <2>3, OpeningAgain
<1>7. ASSUME NEW c \in Conn, Connected(c)
      PROVE  Attended(c)'
  <2>1. Alone(c)' /\ \A k \in Name : Accounted(c, k) /\ (Comes(c, k)' <=> Comes(c, k))
    BY <1>5, <1>7 DEF CallsInv, Attended
  <2>2. \A k, a : Lists(todo, Register(k, c, a)) => Lists(s, Register(k, c, a))
    BY <1>2, <1>4, CallForm
  <2>3. ASSUME NEW k \in Name
        PROVE  Accounted(c, k)'
    BY <1>1, <1>4, <1>5, <2>1, <2>2, AccountedAgain
  <2> QED BY <2>1, <2>3 DEF Attended
<1>8. \A c : Connected(c)' <=> Connected(c)
  BY <1>1 DEF Connected
<1> QED BY <1>1, <1>4, <1>5, <1>6, <1>7, <1>8, CallsAssembled

(* A command that cannot be parsed: the only client that waits is told. *)
LEMMA ParseErrorCalls ==
  ASSUME TypeOK, CallsInv, SpawnParseError
  PROVE  CallsInv'
<1>1. /\ Calling("spawn") /\ Raise /\ UNCHANGED <<link, calls, phase, msgs, job>>
      /\ pending' = [pending EXCEPT ![Top.name] = <<>>]
  BY DEF SpawnParseError, registered, seenVars
<1>2. PICK n \in Name, b \in Conn :
        /\ n = Top.name /\ b = job.by /\ job.why = "call"
        /\ Connected(b) => calls[b] = n /\ \A k \in Name : ~Comes(b, k)
        /\ \A e : Lists(pending[n], e) => e.conn = b
        /\ \A x : Lists(todo, x) => /\ x.call \in {"register", "spawn"}
                                    /\ \A c : x \notin Serving(c)
                                    /\ x.call = "register" => x.conn = b
  BY <1>1, OpeningFacts
<1>3. PICK s : s = IF Connected(b) THEN <<Send(Answer(b, n))>> ELSE <<>>
  OBVIOUS
<1>4. phase = "run" /\ todo' = s
  BY <1>1, <1>2, <1>3 DEF Calling, Raise, Requested, ErrorReply
<1>5. /\ \A x : Lists(s, x) <=> Connected(b) /\ x = Send(Answer(b, n))
      /\ \A X : OneOf(s, X)
  <2>1. CASE Connected(b)
    BY <1>3, <2>1, ListsShort
  <2>2. CASE ~Connected(b)
    BY <1>3, <2>2, ListsShort
  <2> QED BY <2>1, <2>2
<1>6. ~Activating(s)
  BY <1>5, CallForm DEF Activating
<1>7. pending'[n] = <<>> /\ \A k \in Name : k # n => pending'[k] = pending[k]
  BY <1>1, <1>2, TableUpdate
<1>8. ASSUME NEW c \in Conn, Connected(c)
      PROVE  Attended(c)'
  <2>1. Alone(c) /\ \A k \in Name : Accounted(c, k)
    BY <1>8 DEF CallsInv, Attended
  <2>2. \A k : /\ ~Lists(todo, SendHeld(k)) /\ ~Closing(k)
               /\ \A a : Lists(todo, Register(k, c, a)) => c = b
    BY <1>2, CallForm DEF Closing
  <2>3. NoneOf(todo, Serving(c))
    BY <1>2 DEF NoneOf
  <2>4. c = b => NoneOf(msgs, Answering(c))
    BY <1>2, <1>8, NobodyComes
  <2>5. c # b => NoneOf(s, Serving(c))
    <3>1. c # b => Send(Answer(b, n)) \notin Serving(c)
      BY ServingForm, CallForm, AnswerForm
    <3> QED BY <1>5, <3>1 DEF NoneOf
  <2>6. Alone(c)'
    <3>1. OneOf(msgs, Answering(c)) /\ OneOf(s, Serving(c))
          /\ (NoneOf(msgs, Answering(c)) \/ NoneOf(s, Serving(c)))
      BY <1>5, <2>1, <2>4, <2>5 DEF Alone
    <3> QED BY <1>1, <1>4, <3>1 DEF Alone, Answering, Serving, Answer, Handover, Send, Notify, Dispatch,
                                    Asking, Holding, OneOf, NoneOf, Lists
  <2>7. \A k \in Name : Comes(c, k)' <=>
          \/ Lists(msgs, Answer(c, k)) \/ Lists(msgs, Handover(c, k))
          \/ Lists(s, Send(Answer(c, k))) \/ Lists(s, Send(Handover(c, k)))
          \/ Lists(s, Notify(k, Asking(c))) \/ Lists(s, Dispatch(k, Holding(c)))
    BY <1>1, <1>4 DEF Comes, Coming, Answer, Handover, Send, Notify, Dispatch, Asking, Holding, Lists
  <2>8. \A k \in Name : Comes(c, k) <=> Lists(msgs, Answer(c, k)) \/ Lists(msgs, Handover(c, k))
    BY <2>3, ComesForm DEF NoneOf
  <2>9. \A k \in Name : Comes(c, k)' <=> Comes(c, k) \/ (c = b /\ k = n)
    <3>1. \A k : /\ Lists(s, Send(Answer(c, k))) <=> c = b /\ k = n
                 /\ ~Lists(s, Send(Handover(c, k)))
      BY <1>5, <1>8, SendForm, AnswerForm
    <3>2. \A k : ~Lists(s, Notify(k, Asking(c))) /\ ~Lists(s, Dispatch(k, Holding(c)))
      BY <1>5, CallForm
    <3> QED BY <2>7, <2>8, <3>1, <3>2
  <2>10. \A k \in Name : calls'[c] = k <=> Comes(c, k)' \/ (k # n /\ Enrolled(k, c))
    <3> SUFFICES ASSUME NEW k \in Name
                 PROVE  calls'[c] = k <=> Comes(c, k)' \/ (k # n /\ Enrolled(k, c))
      OBVIOUS
    <3>1. CASE c = b
      <4>1. Enrolled(k, c) => k = n
        BY <1>2, <1>8, <2>1, <3>1 DEF Accounted
      <4> QED BY <1>1, <1>2, <1>8, <2>9, <3>1, <4>1
    <3>2. CASE c # b
      <4>1. ~Enrolled(n, c)
        BY <1>2, <3>2, EntryForm DEF Enrolled
      <4>2. calls[c] = k <=> Enrolled(k, c) \/ Comes(c, k)
        BY <2>1, <2>2, <3>2 DEF Accounted
      <4> QED BY <1>1, <2>9, <3>2, <4>1, <4>2
    <3> QED BY <3>1, <3>2
  <2>11. ASSUME NEW k \in Name
         PROVE  Accounted(c, k)'
    <3>1. CASE k = n
      <4>1. /\ OneOf(<<>>, Waits(c)) /\ ~Lists(<<>>, Asking(c)) /\ ~Lists(<<>>, Holding(c))
            /\ Comes(c, k)' <=> calls'[c] = k
        BY <2>10, <3>1, ListsShort
      <4> QED BY <1>7, <3>1, <4>1 DEF Accounted, Enrolled, OneOf, Waits, Asking, Holding, Lists
    <3>2. CASE k # n
      <4>1. Enrolled(k, c) => ~Comes(c, k)
        BY <2>1, <2>2 DEF Accounted, Enrolled
      <4>2. Comes(c, k)' <=> Comes(c, k)
        BY <2>9, <3>2
      <4>3. /\ OneOf(pending[k], Waits(c)) /\ pending'[k] = pending[k]
            /\ Enrolled(k, c) \/ Comes(c, k)' <=> calls'[c] = k
            /\ Enrolled(k, c) => ~Comes(c, k)'
        BY <1>7, <2>1, <2>10, <3>2, <4>1, <4>2 DEF Accounted
      <4>4. ~Lists(s, SendHeld(k)) /\ ~Lists(s, Forget(k)) /\ ~Lists(s, Drop(k))
        BY <1>5, CallForm
      <4> QED BY <1>4, <4>3, <4>4 DEF Accounted, Enrolled, Closing, OneOf, Waits, Asking, Holding, Lists,
                                      SendHeld, Forget, Drop
    <3> QED BY <3>1, <3>2
  <2> QED BY <2>6, <2>11 DEF Attended
<1>9. \A c : Connected(c)' <=> Connected(c)
  BY <1>1 DEF Connected
<1> QED BY <1>1, <1>4, <1>5, <1>6, <1>8, <1>9, NothingOpens, CallsAssembled

(* Every call of the activation table, when no program fails to start and no
   held message is rejected. *)
LEMMA ActivationCalls ==
  ASSUME TypeOK, CallsInv, ActivationCall, "fork" \notin SpawnErrors, Denied = {}
  PROVE  CallsInv'
<1>1. ~SpawnForkError /\ ~RejectHeld
  BY DEF SpawnForkError, RejectHeld, Permitted
<1>2. ASSUME ForgetPending \/ DropPending
      PROVE  CallsInv'
  <2>1. PICK f \in {"forget", "drop"} :
          /\ Calling(f) /\ Return /\ UNCHANGED <<link, calls, phase, msgs>>
          /\ pending' = [pending EXCEPT ![Top.name] = <<>>]
    BY <1>2 DEF ForgetPending, DropPending, registered, seenVars
  <2> QED BY <2>1, ClearedCalls DEF Return
<1> QED BY <1>1, <1>2, RegisterCalls, SpawnCalls, ParseErrorCalls, SendHeldCalls, DispatchCalls
        DEF ActivationCall

-----------------------------------------------------------------------------
(* Execution, and what happens between handlers.                           *)

(* A step that changes nothing a client waits for; clients may hang up. *)
LEMMA QuietCalls ==
  ASSUME TypeOK, CallsInv, UNCHANGED <<pending, todo, msgs, calls>>,
         todo = <<>>, phase' \in {"idle", "run", "round"}, phase' # "run" => msgs = <<>>,
         \A c \in Conn : Connected(c)' => Connected(c)
  PROVE  CallsInv'
<1>1. ~Activating(<<>>) /\ OneOf(<<>>, Ending)
  BY ListsShort DEF Activating
<1>2. Opening'
  BY <1>1, NothingOpens
<1>3. OneOf(todo, Ending)' /\ OneOf(todo, Registering)'
  BY ListsShort DEF OneOf
<1>4. \A c \in Conn : Connected(c)' => Attended(c)'
  <2> SUFFICES ASSUME NEW c \in Conn, Connected(c)
               PROVE  Attended(c)'
    OBVIOUS
  <2>1. Attended(c)
    BY DEF CallsInv
  <2> QED BY <2>1 DEF Attended, Alone, Accounted, Enrolled, Comes, Coming, Closing, OneOf, NoneOf, Lists
<1> QED BY <1>2, <1>3, <1>4 DEF CallsInv

(* A client is answered about the activation it waits for, and is then in the
   table no more. *)
LEMMA DeliverCalls ==
  ASSUME TypeOK, CallsInv, DeliverMessage
  PROVE  CallsInv'
<1>1. /\ phase = "run" /\ todo = <<>> /\ msgs # <<>>
      /\ msgs' = Tail(msgs) /\ UNCHANGED <<link, pending, phase, todo>>
  BY DEF DeliverMessage, Executing, busVars
<1>2. msgs \in Seq(Message)
  BY DEF TypeOK
<1>3. PICK m \in Message : m = Head(msgs)
  BY <1>1, <1>2, ListsTail
<1>4. PICK w : w = Tail(msgs)
  OBVIOUS
<1>5. /\ \A x : Lists(msgs, x) <=> x = m \/ Lists(w, x)
      /\ \A X : OneOf(msgs, X) => OneOf(w, X)
      /\ \A X : OneOf(msgs, X) /\ m \in X => NoneOf(w, X)
  BY <1>1, <1>2, <1>3, <1>4, ListsTail
<1>6. /\ m.kind = "answer" => calls' = [calls EXCEPT ![m.to] = NoOne]
      /\ m.kind = "handover" => calls' = [calls EXCEPT ![m.from] = NoOne]
      /\ m.kind \notin {"answer", "handover"} => calls' = calls
  <2>1. calls' = CASE m.kind = "answer"   -> [calls EXCEPT ![m.to] = NoOne]
                   [] m.kind = "handover" -> [calls EXCEPT ![m.from] = NoOne]
                   [] OTHER               -> calls
    BY <1>3 DEF DeliverMessage
  <2> QED BY <2>1
<1>7. ASSUME NEW c \in Conn, m \in Answering(c)
      PROVE  calls'[c] = NoOne /\ calls[c] \in Name \cup {NoOne}
  <2>1. PICK n \in Name : m = Answer(c, n) \/ m = Handover(c, n)
    BY <1>7, ServingForm
  <2>2. calls' = [calls EXCEPT ![c] = NoOne]
    <3>1. CASE m = Answer(c, n)
      BY <1>6, <3>1, MessageKinds, AnswerForm
    <3>2. CASE m = Handover(c, n)
      BY <1>6, <3>2, MessageKinds, AnswerForm
    <3> QED BY <2>1, <3>1, <3>2
  <2> QED BY <2>2 DEF TypeOK
<1>8. ASSUME NEW c \in Conn, m \notin Answering(c)
      PROVE  calls'[c] = calls[c]
  <2>1. CASE m.kind \in {"answer", "handover"}
    <3>1. PICK d \in Conn, n \in Name :
            /\ m.kind = "answer" => m = Answer(d, n)
            /\ m.kind = "handover" => m = Handover(d, n)
      BY <2>1, AnswerMessage
    <3>2. d # c
      BY <1>8, <2>1, <3>1, ServingForm
    <3>3. calls' = [calls EXCEPT ![d] = NoOne]
      <4>1. CASE m.kind = "answer"
        BY <1>6, <3>1, <4>1, AnswerForm
      <4>2. CASE m.kind = "handover"
        BY <1>6, <3>1, <4>2, AnswerForm
      <4> QED BY <2>1, <4>1, <4>2
    <3> QED BY <3>2, <3>3 DEF TypeOK
  <2>2. CASE m.kind \notin {"answer", "handover"}
    BY <1>6, <2>2
  <2> QED BY <2>1, <2>2
<1>9. ASSUME NEW c \in Conn, Connected(c)
      PROVE  Attended(c)'
  <2>1. Alone(c) /\ \A k \in Name : Accounted(c, k)
    BY <1>9 DEF CallsInv, Attended
  <2>2. /\ \A x : ~Lists(todo, x)
        /\ OneOf(<<>>, Serving(c)) /\ NoneOf(<<>>, Serving(c))
    BY <1>1, ListsShort DEF NoneOf
  <2>3. \A k \in Name : /\ Comes(c, k) <=> Lists(msgs, Answer(c, k)) \/ Lists(msgs, Handover(c, k))
                        /\ Comes(c, k)' <=> Lists(w, Answer(c, k)) \/ Lists(w, Handover(c, k))
    <3>1. \A k \in Name : Comes(c, k) <=> Lists(msgs, Answer(c, k)) \/ Lists(msgs, Handover(c, k))
      BY <2>2, ComesForm
    <3>2. \A k \in Name : Comes(c, k)' <=>
            \/ Lists(w, Answer(c, k)) \/ Lists(w, Handover(c, k))
            \/ Lists(todo, Send(Answer(c, k))) \/ Lists(todo, Send(Handover(c, k)))
            \/ Lists(todo, Notify(k, Asking(c))) \/ Lists(todo, Dispatch(k, Holding(c)))
      BY <1>1, <1>4 DEF Comes, Coming, Answer, Handover, Send, Notify, Dispatch, Asking, Holding, Lists
    <3> QED BY <2>2, <3>1, <3>2
  <2>4. Alone(c)'
    <3>1. OneOf(w, Answering(c))
      BY <1>5, <2>1 DEF Alone
    <3> QED BY <1>1, <1>4, <2>2, <3>1 DEF Alone, Answering, Serving, Answer, Handover, Send, Notify,
                                   Dispatch, Asking, Holding, OneOf, NoneOf, Lists
  <2>5. \A k \in Name : /\ OneOf(pending[k], Waits(c))
                        /\ Enrolled(k, c) => ~Comes(c, k)
                        /\ calls[c] = k <=> Enrolled(k, c) \/ Comes(c, k)
    BY <2>1, <2>2 DEF Accounted, Enrolled, Closing
  <2>6. \A k \in Name : calls'[c] = k <=> Enrolled(k, c) \/ Comes(c, k)'
    <3> SUFFICES ASSUME NEW k \in Name
                 PROVE  calls'[c] = k <=> Enrolled(k, c) \/ Comes(c, k)'
      OBVIOUS
    <3>1. CASE m \in Answering(c)
      <4>1. PICK n \in Name : m = Answer(c, n) \/ m = Handover(c, n)
        BY <3>1, ServingForm
      <4>2. Comes(c, n)
        BY <1>5, <2>3, <4>1
      <4>3. calls[c] = n /\ ~Enrolled(n, c)
        BY <2>5, <4>2
      <4>4. ~Enrolled(k, c)
        BY <2>5, <4>3
      <4>5. NoneOf(w, Answering(c))
        BY <1>5, <2>1, <3>1 DEF Alone
      <4>6. ~Comes(c, k)'
        BY <2>3, <4>5, ComesForm DEF NoneOf
      <4>7. calls'[c] # k
        BY <1>7, <3>1, ConnAssumption
      <4> QED BY <4>4, <4>6, <4>7
    <3>2. CASE m \notin Answering(c)
      <4>1. m # Answer(c, k) /\ m # Handover(c, k)
        BY <3>2, ComesForm
      <4>2. Comes(c, k)' <=> Comes(c, k)
        BY <1>5, <2>3, <4>1
      <4> QED BY <1>8, <2>5, <3>2, <4>2
    <3> QED BY <3>1, <3>2
  <2>7. \A k \in Name : Enrolled(k, c) => ~Comes(c, k)'
    BY <1>5, <2>3, <2>5
  <2>8. ASSUME NEW k \in Name
        PROVE  Accounted(c, k)'
    <3>1. /\ OneOf(pending[k], Waits(c))
          /\ calls'[c] = k <=> Enrolled(k, c) \/ Comes(c, k)'
          /\ Enrolled(k, c) => ~Comes(c, k)'
          /\ ~Lists(todo, SendHeld(k)) /\ ~Lists(todo, Forget(k)) /\ ~Lists(todo, Drop(k))
      BY <2>2, <2>5, <2>6, <2>7
    <3> QED BY <1>1, <3>1 DEF Accounted, Enrolled, Closing, OneOf, Waits, Asking, Holding, Lists,
                              SendHeld, Forget, Drop
  <2> QED BY <2>4, <2>8 DEF Attended
<1>10. \A c : Connected(c)' <=> Connected(c)
  BY <1>1 DEF Connected
<1>11. ~Activating(<<>>) /\ OneOf(<<>>, Ending)
  BY ListsShort DEF Activating
<1> QED BY <1>1, <1>9, <1>10, <1>11, NothingOpens, CallsAssembled

-----------------------------------------------------------------------------
(* Handlers that begin.                                                    *)

(* The calls of s that answer client c about n. *)
Answered(s, c, n) ==
  \/ Lists(s, Send(Answer(c, n))) \/ Lists(s, Send(Handover(c, n)))
  \/ Lists(s, Notify(n, Asking(c))) \/ Lists(s, Dispatch(n, Holding(c)))

(* Between two handlers a client waits for precisely what it is listed for. *)
LEMMA AtRest ==
  ASSUME CallsInv, phase # "run", NEW c \in Conn, Connected(c)
  PROVE  /\ todo = <<>> /\ msgs = <<>>
         /\ \A k \in Name : /\ OneOf(pending[k], Waits(c)) /\ ~Comes(c, k)
                            /\ calls[c] = k <=> Enrolled(k, c)
<1>1. todo = <<>> /\ msgs = <<>> /\ Attended(c)
  BY DEF CallsInv
<1>2. \A x : ~Lists(todo, x) /\ ~Lists(msgs, x)
  BY <1>1, ListsShort
<1>3. \A k \in Name : ~Comes(c, k)
  BY <1>2, ComesForm
<1> QED BY <1>1, <1>2, <1>3 DEF Attended, Accounted

(* A client the calls answer is in the table when they begin. *)
LEMMA BeginCalls ==
  ASSUME TypeOK, CallsInv, phase # "run", NEW s \in Seq(Call), todo' = s, msgs' = <<>>,
         phase' = "run", UNCHANGED <<link, pending, calls>>,
         OneOf(s, Ending), ~Activating(s),
         \A c \in Conn : Connected(c) =>
           /\ OneOf(s, Serving(c))
           /\ \A k \in Name :
                /\ Answered(s, c, k) => Enrolled(k, c)
                /\ Lists(pending[k], Asking(c)) =>
                     (Answered(s, c, k) <=>
                        Lists(s, SendHeld(k)) \/ Lists(s, Forget(k)) \/ Lists(s, Drop(k)))
                /\ Lists(pending[k], Holding(c)) =>
                     (Answered(s, c, k) <=> Lists(s, Forget(k)) \/ Lists(s, Drop(k)))
  PROVE  CallsInv'
<1>1. ASSUME NEW c \in Conn, Connected(c)
      PROVE  Attended(c)'
  <2>1. \A k \in Name : OneOf(pending[k], Waits(c)) /\ (calls[c] = k <=> Enrolled(k, c))
    BY <1>1, AtRest
  <2>2. /\ OneOf(<<>>, Answering(c)) /\ \A x : ~Lists(<<>>, x)
        /\ NoneOf(<<>>, Answering(c))
    BY ListsShort DEF NoneOf
  <2>3. OneOf(s, Serving(c))
    BY <1>1
  <2>4. Alone(c)'
    BY <2>2, <2>3 DEF Alone, Answering, Serving, Answer, Handover, Send, Notify, Dispatch, Asking,
                      Holding, OneOf, NoneOf, Lists
  <2>5. \A k \in Name : Comes(c, k)' <=> Answered(s, c, k)
    <3>1. \A k \in Name : Comes(c, k)' <=>
            \/ Lists(<<>>, Answer(c, k)) \/ Lists(<<>>, Handover(c, k))
            \/ Lists(s, Send(Answer(c, k))) \/ Lists(s, Send(Handover(c, k)))
            \/ Lists(s, Notify(k, Asking(c))) \/ Lists(s, Dispatch(k, Holding(c)))
      BY DEF Comes, Coming, Answer, Handover, Send, Notify, Dispatch, Asking, Holding, Lists
    <3> QED BY <2>2, <3>1 DEF Answered
  <2>6. ASSUME NEW k \in Name
        PROVE  Accounted(c, k)'
    <3>1. /\ OneOf(pending[k], Waits(c))
          /\ calls[c] = k <=> Enrolled(k, c) \/ Comes(c, k)'
          /\ Lists(pending[k], Asking(c)) =>
               (Comes(c, k)' <=> Lists(s, SendHeld(k)) \/ Lists(s, Forget(k)) \/ Lists(s, Drop(k)))
          /\ Lists(pending[k], Holding(c)) =>
               (Comes(c, k)' <=> Lists(s, Forget(k)) \/ Lists(s, Drop(k)))
      BY <1>1, <2>1, <2>5
    <3> QED BY <3>1 DEF Accounted, Enrolled, Closing, OneOf, Waits, Asking, Holding, Lists,
                        SendHeld, Forget, Drop
  <2> QED BY <2>4, <2>6 DEF Attended
<1>2. \A c : Connected(c)' <=> Connected(c)
  BY DEF Connected
<1> QED BY <1>1, <1>2, NothingOpens, CallsAssembled

LEMMA AnsweredForm ==
  /\ \A s, c, k : k \in Name /\ NoneOf(s, Serving(c)) => ~Answered(s, c, k)
  /\ \A s, c : (\A x : Lists(s, x) => x \notin Serving(c)) => OneOf(s, Serving(c))
BY ComesForm DEF Answered, NoneOf, OneOf, Lists

(* A handler that answers nobody, and hands over nothing. *)
LEMMA BeginMuffled ==
  ASSUME TypeOK, CallsInv, phase # "run", NEW s \in Seq(Call), todo' = s, msgs' = <<>>,
         phase' = "run", UNCHANGED <<link, pending, calls>>,
         OneOf(s, Ending),
         \A x : Lists(s, x) => Muted(x) \/ \E n \in Name : x = SendHeld(n) /\ pending[n] = <<>>
  PROVE  CallsInv'
<1>1. \A x : Lists(s, x) => /\ x.call \notin {"register", "spawn"}
                            /\ \A c : x \notin Serving(c)
  BY MutedCalls, CallForm, ServingForm
<1>2. ~Activating(s)
  BY <1>1 DEF Activating
<1>3. \A c : NoneOf(s, Serving(c)) /\ OneOf(s, Serving(c))
  BY <1>1, AnsweredForm DEF NoneOf
<1>4. \A k \in Name : /\ ~Lists(s, Forget(k)) /\ ~Lists(s, Drop(k))
                      /\ Lists(s, SendHeld(k)) => pending[k] = <<>>
  <2>1. \A k \in Name : ~Muted(SendHeld(k)) /\ ~Muted(Forget(k)) /\ ~Muted(Drop(k))
    BY MutedCalls, CallForm
  <2>2. \A k, n : /\ SendHeld(k) = SendHeld(n) => k = n
                  /\ Forget(k) # SendHeld(n) /\ Drop(k) # SendHeld(n)
    BY CallForm
  <2> QED BY <2>1, <2>2
<1>5. \A c \in Conn, k \in Name :
        /\ ~Answered(s, c, k)
        /\ Enrolled(k, c) => ~Lists(s, SendHeld(k))
  BY <1>3, <1>4, AnsweredForm, ListsShort DEF Enrolled
<1> QED BY <1>2, <1>3, <1>4, <1>5, BeginCalls DEF Enrolled

LEMMA MuffledSequences ==
  /\ Muffled(<<>>)
  /\ \A x : Muted(x) => Muffled(<<x>>)
  /\ \A a, b \in Seq(Call) : Muffled(a) /\ Muffled(b) => Muffled(a \o b)
<1>1. Muffled(<<>>) /\ \A x : Muted(x) => Muffled(<<x>>)
  BY ListsShort DEF Muffled
<1>2. ASSUME NEW a \in Seq(Call), NEW b \in Seq(Call), Muffled(a), Muffled(b)
      PROVE  Muffled(a \o b)
  <2>1. \A x : Lists(a \o b, x) <=> Lists(a, x) \/ Lists(b, x)
    BY ListsConcat
  <2> QED BY <1>2, <2>1 DEF Muffled
<1> QED BY <1>1, <1>2

LEMMA MutedForm ==
  /\ \A c, n : Muted(Send(Acquired(c, n))) /\ Muted(Send(Lost(c, n)))
  /\ \A n, o, w : Muted(Send(Changed(n, o, w)))
  /\ \A c, n, r : Muted(Send(Reply(c, n, r)))
  /\ \A c : Muted(Send(Failure(c))) /\ Muted(Complete(c))
  /\ \A n, c, f : Muted(LinkOwner(n, c, f)) /\ Muted(SetFlags(n, c, f))
  /\ \A n, c : Muted(RemoveOwner(n, c)) /\ Muted(SwapOwner(n, c))
<1>1. \A m : m.kind \notin {"answer", "handover"} => Muted(Send(m))
  BY DEF Muted, Send
<1>2. /\ \A c, n : Acquired(c, n).kind = "acquired" /\ Lost(c, n).kind = "lost"
      /\ \A n, o, w : Changed(n, o, w).kind = "changed"
      /\ \A c, n, r : Reply(c, n, r).kind = "reply"
      /\ \A c : Failure(c).kind = "error"
  BY MessageKinds
<1>3. \A n, c, f : Muted(LinkOwner(n, c, f)) /\ Muted(SetFlags(n, c, f))
  BY DEF Muted, LinkOwner, SetFlags
<1>4. \A n, c : Muted(RemoveOwner(n, c)) /\ Muted(SwapOwner(n, c)) /\ Muted(Complete(c))
  BY DEF Muted, RemoveOwner, SwapOwner, Complete
<1> QED BY <1>1, <1>2, <1>3, <1>4

(* The calls that tell the clients their program is there, by the entries
   they come from. *)
LEMMA StartedForm ==
  ASSUME TypeOK, NEW n \in Name
  PROVE  /\ Started(n) \in Seq(Call)
         /\ \A k : Lists(Started(n), k) <=> \E e \in Entry : Lists(pending[n], e) /\ k = Notify(n, e)
         /\ \A c : OneOf(pending[n], Waits(c)) => OneOf(Started(n), Serving(c))
<1>1. Started(n) \in Seq(Call) /\ pending[n] \in Seq(Entry)
  BY CallsForEntries DEF TypeOK
<1>2. PICK q \in Seq(Entry) : q = pending[n]
  BY <1>1
<1>3. DOMAIN Started(n) = DOMAIN q /\ \A i \in DOMAIN q : Started(n)[i] = Notify(n, q[i])
  BY <1>2 DEF Started
<1>4. \A i \in DOMAIN q : q[i] \in Entry
  BY LenProperties, ElementOfSeq
<1>5. \A k : Lists(Started(n), k) <=> \E e \in Entry : Lists(pending[n], e) /\ k = Notify(n, e)
  BY <1>2, <1>3, <1>4 DEF Lists
<1>6. ASSUME NEW c, OneOf(q, Waits(c))
      PROVE  OneOf(Started(n), Serving(c))
  <2>1. \A i \in DOMAIN q : Started(n)[i] \in Serving(c) => q[i] = Asking(c)
    <3>1. \A i \in DOMAIN q : Started(n)[i] \in Serving(c) => \E k \in Name : Started(n)[i] = Notify(k, Asking(c))
      BY <1>3, ServingForm, CallForm
    <3> QED BY <1>3, <3>1, CallForm
  <2> QED BY <1>3, <1>6, <2>1 DEF OneOf, Waits
<1> QED BY <1>1, <1>2, <1>5, <1>6

(* The errors a failed activation sends, by the entries they come from. *)
LEMMA FailuresForm ==
  ASSUME TypeOK, NEW n \in Name
  PROVE  /\ Failures(n) \in Seq(Call)
         /\ \A k : Lists(Failures(n), k) <=>
              \E e \in Entry : Lists(pending[n], e) /\ k = Send(Answer(e.conn, n))
         /\ \A c : OneOf(pending[n], Waits(c)) => OneOf(Failures(n), Serving(c))
<1>1. Failures(n) \in Seq(Call) /\ pending[n] \in Seq(Entry)
  BY CallsForEntries DEF TypeOK
<1>2. PICK q \in Seq(Entry) : q = pending[n]
  BY <1>1
<1>3. DOMAIN Failures(n) = DOMAIN q /\ \A i \in DOMAIN q : Failures(n)[i] = Send(Answer(q[i].conn, n))
  BY <1>2 DEF Failures
<1>4. \A i \in DOMAIN q : q[i] \in Entry
  BY LenProperties, ElementOfSeq
<1>5. \A k : Lists(Failures(n), k) <=>
        \E e \in Entry : Lists(pending[n], e) /\ k = Send(Answer(e.conn, n))
  BY <1>2, <1>3, <1>4 DEF Lists
<1>6. ASSUME NEW c, OneOf(q, Waits(c))
      PROVE  OneOf(Failures(n), Serving(c))
  <2>1. \A i \in DOMAIN q : Failures(n)[i] \in Serving(c) => q[i] \in Waits(c)
    <3>1. ASSUME NEW i \in DOMAIN q, Failures(n)[i] \in Serving(c)
          PROVE  q[i].conn = c
      <4>1. PICK m : m = Answer(q[i].conn, n) /\ Failures(n)[i] = Send(m)
        BY <1>3
      <4>2. PICK k \in Name : Send(m) = Send(Answer(c, k)) \/ Send(m) = Send(Handover(c, k))
        BY <3>1, <4>1, ServingForm, CallForm
      <4>3. m = Answer(c, k) \/ m = Handover(c, k)
        BY <4>2, CallForm
      <4> QED BY <4>1, <4>3, AnswerForm
    <3> QED BY <1>4, <3>1, EntryForm DEF Waits
  <2> QED BY <1>3, <1>6, <2>1 DEF OneOf
<1> QED BY <1>1, <1>2, <1>5, <1>6

(* A handler in which a name appears tells the clients that asked for it, and
   will hand over what is held. *)
LEMMA BeginStarted ==
  ASSUME TypeOK, CallsInv, phase # "run", NEW s \in Seq(Call), todo' = s, msgs' = <<>>,
         phase' = "run", UNCHANGED <<link, pending, calls>>, NEW n \in Name,
         OneOf(s, Ending), Lists(s, SendHeld(n)),
         \A k : Lists(Started(n), k) => Lists(s, k),
         \A k : Lists(s, k) => Muted(k) \/ k = SendHeld(n) \/ Lists(Started(n), k),
         \A c : OneOf(Started(n), Serving(c)) => OneOf(s, Serving(c))
  PROVE  CallsInv'
<1>1. \A k : Lists(Started(n), k) <=> \E e \in Entry : Lists(pending[n], e) /\ k = Notify(n, e)
  BY StartedForm
<1>2. \A k : Lists(s, k) => \/ Muted(k) \/ k = SendHeld(n)
                            \/ k.call = "notify" /\ \E e \in Entry : Lists(pending[n], e) /\ k = Notify(n, e)
  BY <1>1, CallForm
<1>3. ~Activating(s)
  BY <1>2, MutedCalls, CallForm DEF Activating
<1>4. \A k \in Name : /\ ~Lists(s, Forget(k)) /\ ~Lists(s, Drop(k))
                      /\ Lists(s, SendHeld(k)) <=> k = n
  <2>1. \A k \in Name : ~Muted(SendHeld(k)) /\ ~Muted(Forget(k)) /\ ~Muted(Drop(k))
    BY MutedCalls, CallForm
  <2>2. \A k : /\ SendHeld(k) = SendHeld(n) => k = n
               /\ Forget(k) # SendHeld(n) /\ Drop(k) # SendHeld(n)
    BY CallForm
  <2>3. \A k : SendHeld(k).call # "notify" /\ Forget(k).call # "notify" /\ Drop(k).call # "notify"
    BY CallForm
  <2> QED BY <1>2, <2>1, <2>2, <2>3
<1>5. ASSUME NEW c \in Conn, Connected(c)
      PROVE  /\ OneOf(s, Serving(c))
             /\ \A k \in Name :
                  /\ Answered(s, c, k) => k = n /\ Lists(pending[n], Asking(c))
                  /\ Lists(pending[n], Asking(c)) => Answered(s, c, n)
                  /\ Lists(pending[n], Asking(c)) => ~Lists(pending[n], Holding(c))
  <2>1. OneOf(pending[n], Waits(c))
    BY <1>5, AtRest
  <2>2. OneOf(s, Serving(c))
    BY <2>1, StartedForm
  <2>3. ASSUME NEW k \in Name, Answered(s, c, k)
        PROVE  k = n /\ Lists(pending[n], Asking(c))
    <3>1. PICK x : /\ Lists(s, x) /\ x \in Serving(c)
                   /\ \/ x = Send(Answer(c, k)) \/ x = Send(Handover(c, k))
                      \/ x = Notify(k, Asking(c)) \/ x = Dispatch(k, Holding(c))
      BY <2>3, ComesForm DEF Answered
    <3>2. x.call = "notify" /\ \E e \in Entry : Lists(pending[n], e) /\ x = Notify(n, e)
      <4>1. x.call # "send_held" /\ ~Muted(x)
        BY <3>1, ServingForm, MutedCalls
      <4> QED BY <1>2, <3>1, <4>1, CallForm
    <3>3. x = Notify(k, Asking(c))
      BY <3>1, <3>2, CallForm
    <3>4. PICK e \in Entry : Lists(pending[n], e) /\ x = Notify(n, e)
      BY <3>2
    <3>5. x.name = k /\ x.entry = Asking(c) /\ x.name = n /\ x.entry = e
      BY <3>3, <3>4 DEF Notify
    <3> QED BY <3>4, <3>5
  <2>4. Lists(pending[n], Asking(c)) => Answered(s, c, n)
    BY <1>1, <1>5, EntryForm DEF Answered
  <2>5. Lists(pending[n], Asking(c)) => ~Lists(pending[n], Holding(c))
    <3>1. \A i, j \in DOMAIN pending[n] : pending[n][i] = Asking(c) /\ pending[n][j] = Holding(c) => i = j
      BY <2>1 DEF OneOf, Waits
    <3> QED BY <3>1, EntryForm DEF Lists
  <2> QED BY <2>2, <2>3, <2>4, <2>5
<1>6. \A c \in Conn : Connected(c) =>
        /\ OneOf(s, Serving(c))
        /\ \A k \in Name :
             /\ Answered(s, c, k) => Enrolled(k, c)
             /\ Lists(pending[k], Asking(c)) =>
                  (Answered(s, c, k) <=>
                     Lists(s, SendHeld(k)) \/ Lists(s, Forget(k)) \/ Lists(s, Drop(k)))
             /\ Lists(pending[k], Holding(c)) =>
                  (Answered(s, c, k) <=> Lists(s, Forget(k)) \/ Lists(s, Drop(k)))
  BY <1>4, <1>5 DEF Enrolled
<1> QED BY <1>3, <1>6, BeginCalls

(* A handler in which an activation fails tells everyone that waits for it. *)
LEMMA BeginFailed ==
  ASSUME TypeOK, CallsInv, phase # "run", NEW n \in Name,
         todo' = Failures(n) \o <<Drop(n)>>, msgs' = <<>>,
         phase' = "run", UNCHANGED <<link, pending, calls>>
  PROVE  CallsInv'
<1>1. PICK s : s = Failures(n) \o <<Drop(n)>>
  OBVIOUS
<1>2. PICK a : a = <<Drop(n)>>
  OBVIOUS
<1>3. /\ Failures(n) \in Seq(Call)
      /\ \A k : Lists(Failures(n), k) <=>
           \E e \in Entry : Lists(pending[n], e) /\ k = Send(Answer(e.conn, n))
  BY FailuresForm
<1>4. /\ a \in Seq(Call) /\ \A k : Lists(a, k) <=> k = Drop(n)
      /\ OneOf(a, Ending)
  BY <1>2, CallIntro, CallSequences, ListsShort
<1>5. /\ s \in Seq(Call)
      /\ \A k : Lists(s, k) <=> Lists(Failures(n), k) \/ k = Drop(n)
      /\ \A X : NoneOf(Failures(n), X) /\ OneOf(a, X) => OneOf(s, X)
      /\ \A X : OneOf(Failures(n), X) /\ NoneOf(a, X) => OneOf(s, X)
  BY <1>1, <1>2, <1>3, <1>4, ListsConcat
<1>6. OneOf(s, Ending) /\ ~Activating(s)
  <2>1. \A k : Lists(Failures(n), k) => k.call = "send"
    BY <1>3, CallForm
  <2>2. NoneOf(Failures(n), Ending)
    BY <2>1, CallForm DEF NoneOf
  <2> QED BY <1>4, <1>5, <2>1, <2>2, CallForm DEF Activating
<1>7. \A k \in Name : /\ ~Lists(s, Forget(k)) /\ ~Lists(s, SendHeld(k))
                      /\ Lists(s, Drop(k)) <=> k = n
  BY <1>3, <1>5, CallForm
<1>8. ASSUME NEW c \in Conn, Connected(c)
      PROVE  /\ OneOf(s, Serving(c))
             /\ \A k \in Name : Answered(s, c, k) <=> k = n /\ Enrolled(n, c)
  <2>1. OneOf(pending[n], Waits(c))
    BY <1>8, AtRest
  <2>2. Drop(n) \notin Serving(c)
    BY ServingForm, CallForm
  <2>3. OneOf(s, Serving(c))
    BY <1>4, <1>5, <2>1, <2>2, FailuresForm DEF NoneOf
  <2>4. ASSUME NEW k \in Name, Answered(s, c, k)
        PROVE  k = n /\ Enrolled(n, c)
    <3>1. PICK x : /\ Lists(s, x) /\ x.call \in {"send", "notify", "dispatch"}
                   /\ \/ x = Send(Answer(c, k)) \/ x = Send(Handover(c, k))
                      \/ x = Notify(k, Asking(c)) \/ x = Dispatch(k, Holding(c))
      BY <2>4, CallForm DEF Answered
    <3>2. PICK e \in Entry : Lists(pending[n], e) /\ x = Send(Answer(e.conn, n))
      BY <1>3, <1>5, <3>1, CallForm
    <3>3. PICK m : m = Answer(e.conn, n) /\ x.msg = m /\ x.call = "send"
      BY <3>2, CallForm
    <3>4. m = Answer(c, k) \/ m = Handover(c, k)
      BY <3>1, <3>3, CallForm
    <3>5. e.conn = c /\ k = n
      BY <3>3, <3>4, AnswerForm
    <3> QED BY <3>2, <3>5, EntryForm DEF Enrolled
  <2>5. Enrolled(n, c) => Answered(s, c, n)
    <3>1. ASSUME NEW e \in Entry, Lists(pending[n], e), e.conn = c
          PROVE  Answered(s, c, n)
      BY <1>3, <1>5, <3>1 DEF Answered
    <3> QED BY <1>8, <3>1, EntryForm DEF Enrolled
  <2> QED BY <2>3, <2>4, <2>5
<1>9. \A c \in Conn : Connected(c) =>
        /\ OneOf(s, Serving(c))
        /\ \A k \in Name :
             /\ Answered(s, c, k) => Enrolled(k, c)
             /\ Lists(pending[k], Asking(c)) =>
                  (Answered(s, c, k) <=>
                     Lists(s, SendHeld(k)) \/ Lists(s, Forget(k)) \/ Lists(s, Drop(k)))
             /\ Lists(pending[k], Holding(c)) =>
                  (Answered(s, c, k) <=> Lists(s, Forget(k)) \/ Lists(s, Drop(k)))
  BY <1>7, <1>8 DEF Enrolled
<1> QED BY <1>1, <1>5, <1>6, <1>9, BeginCalls

-----------------------------------------------------------------------------
(* The requests.                                                           *)

(* A new owner is linked in silence. *)
LEMMA NewOwnerMuffled ==
  ASSUME TypeOK, NEW n \in AnyName, NEW c \in Conn, NEW f \in AllFlags
  PROVE  AddOwner(n, c, f) \in Seq(Call) /\ Muffled(AddOwner(n, c, f))
<1>1. PICK a, b : /\ a = IF owners[n] = <<>> THEN <<Send(Acquired(c, n))>> ELSE <<>>
                  /\ b = <<LinkOwner(n, c, f)>>
  OBVIOUS
<1>2. a \in Seq(Call) /\ b \in Seq(Call)
  BY <1>1, CallIntro, MessageIntro, CallSequences
<1>3. Muffled(a) /\ Muffled(b)
  BY <1>1, MutedForm, MuffledSequences
<1>4. AddOwner(n, c, f) = a \o b
  BY <1>1 DEF AddOwner
<1> QED BY <1>2, <1>3, <1>4, MuffledSequences, NewOwnerCalls

(* The calls that make a service: the clients that asked for it are told
   between two things that are none of their business. *)
LEMMA EnsureParts ==
  ASSUME TypeOK, NEW n \in AnyName, NEW c \in Conn, NEW f \in AllFlags, owners[n] = <<>>
  PROVE  \E v, b \in Seq(Call) :
           /\ Muffled(v) /\ Muffled(b)
           /\ n \in Name => Ensure(n, c, f) = v \o (Started(n) \o b)
           /\ n \notin Name => Ensure(n, c, f) = v \o b
<1>1. PICK v, b : v = <<Send(Changed(n, NoOne, c))>> /\ b = AddOwner(n, c, f)
  OBVIOUS
<1>2. v \in Seq(Call) /\ b \in Seq(Call) /\ Muffled(v) /\ Muffled(b)
  BY <1>1, CallIntro, MessageIntro, CallSequences, MutedForm, MuffledSequences, NewOwnerMuffled
<1>3. CASE n \in Name
  <2>1. PICK a \in Seq(Call) : a = Started(n)
    BY <1>3, CallsForEntries
  <2>2. Ensure(n, c, f) = (v \o a) \o b \/ Ensure(n, c, f) = v \o (a \o b)
    BY <1>1, <1>3, <2>1 DEF Ensure
  <2>3. (v \o a) \o b = v \o (a \o b)
    BY <1>2, <2>1, ConcatAssociative
  <2> QED BY <1>2, <1>3, <2>1, <2>2, <2>3
<1>4. CASE n \notin Name
  <2>1. PICK a \in Seq(Call) : a = <<>>
    BY CallSequences
  <2>2. Ensure(n, c, f) = (v \o a) \o b \/ Ensure(n, c, f) = v \o (a \o b)
    BY <1>1, <1>4, <2>1 DEF Ensure
  <2>3. (v \o a) \o b = v \o b /\ v \o (a \o b) = v \o b
    BY <1>2, <2>1, ConcatEmptySeq
  <2> QED BY <1>2, <1>4, <2>2, <2>3
<1> QED BY <1>3, <1>4

LEMMA HelloCalls ==
  ASSUME TypeOK, CallsInv, NEW c \in Conn, Hello(c)
  PROVE  CallsInv'
<1> DEFINE f == [allow |-> FALSE, noqueue |-> FALSE, replace |-> FALSE]
<1>1. PICK x, e, s : /\ x = <<Complete(c), Send(Reply(c, c, "welcome"))>>
                     /\ e = Ensure(c, c, f) /\ s = x \o e
  OBVIOUS
<1>2. f \in AllFlags /\ c \in AnyName /\ c \notin Name /\ "welcome" \in Result
  BY ConnAssumption DEF AllFlags, AnyName, Result
<1>3. Begin("request", c, {}, s) /\ Idle /\ UNCHANGED <<link, pending, calls>>
  BY <1>1 DEF Hello, Speaks, busVars, seenVars
<1> HIDE DEF f
<1>4. x \in Seq(Call) /\ Muffled(x)
  <2>1. Complete(c) \in Call /\ Send(Reply(c, c, "welcome")) \in Call
    BY <1>2, CallIntro, MessageIntro
  <2>2. Muted(Complete(c)) /\ Muted(Send(Reply(c, c, "welcome")))
    BY MutedForm
  <2>3. \A k : Lists(x, k) => k = Complete(c) \/ k = Send(Reply(c, c, "welcome"))
    BY <1>1, ListsShort
  <2>4. x \in Seq(Call)
    BY <1>1, <2>1
  <2> QED BY <2>2, <2>3, <2>4 DEF Muffled
<1>5. e \in Seq(Call) /\ Muffled(e)
  <2>1. CASE owners[c] # <<>>
    BY <1>1, <2>1, CallSequences, MuffledSequences DEF Ensure
  <2>2. CASE owners[c] = <<>>
    <3>1. PICK v, b \in Seq(Call) : Muffled(v) /\ Muffled(b) /\ e = v \o b
      BY <1>1, <1>2, <2>2, EnsureParts
    <3> QED BY <3>1, CallSequences, MuffledSequences
  <2> QED BY <2>1, <2>2
<1>6. s \in Seq(Call) /\ Muffled(s)
  BY <1>1, <1>4, <1>5, CallSequences, MuffledSequences
<1>7. OneOf(s, Ending)
  BY <1>6, MutedCalls DEF OneOf, NoneOf, Lists
<1> QED BY <1>3, <1>6, <1>7, BeginMuffled DEF Begin, Idle, Muffled

(* What RequestName does to a name that has an owner, or to a client that may
   not own it, concerns no activation. *)
LEMMA OutcomeMuffled ==
  ASSUME TypeOK, NEW c \in Conn, NEW n \in Name, NEW f \in AllFlags, owners[n] # <<>>
  PROVE  OutcomeCalls(c, n, f) \in Seq(Call) /\ Muffled(OutcomeCalls(c, n, f))
<1>1. Outcome(c, n, f) \in {"already", "replaced", "exists", "queued"}
  BY DEF Outcome
<1>2. n \in AnyName
  BY DEF AnyName
<1>3. AddOwner(n, c, f) \in Seq(Call) /\ Muffled(AddOwner(n, c, f))
  BY <1>2, NewOwnerMuffled
<1>4. CASE Outcome(c, n, f) = "already"
  BY <1>2, <1>4, CallIntro, CallSequences, MutedForm, MuffledSequences DEF OutcomeCalls
<1>5. CASE Outcome(c, n, f) = "exists"
  BY <1>2, <1>5, CallIntro, CallSequences, MutedForm, MuffledSequences DEF OutcomeCalls, Decline
<1>6. CASE Outcome(c, n, f) = "queued"
  BY <1>3, <1>6 DEF OutcomeCalls
<1>7. CASE Outcome(c, n, f) = "replaced"
  <2>1. OutcomeCalls(c, n, f) = AddOwner(n, c, f) \o Dethrone(n)
    BY <1>7 DEF OutcomeCalls
  <2>2. Primary(n) \in Conn
    BY <1>2, FirstOwner
  <2>3. Dethrone(n) \in Seq(Call) /\ Muffled(Dethrone(n))
    BY <1>2, <2>2, CallIntro, CallSequences, MutedForm, MuffledSequences DEF Dethrone
  <2> QED BY <1>3, <2>1, <2>3, CallSequences, MuffledSequences
<1> QED BY <1>1, <1>4, <1>5, <1>6, <1>7

LEMMA RequestNameCalls ==
  ASSUME TypeOK, CallsInv, PendingInv, NEW c \in Conn, NEW n \in Name, NEW f \in Flags,
         RequestName(c, n, f)
  PROVE  CallsInv'
<1>1. PICK s : s = AcquireService(c, n, f)
  OBVIOUS
<1>2. /\ todo' = s /\ msgs' = <<>> /\ phase' = "run" /\ phase = "idle"
      /\ UNCHANGED <<link, pending, calls>>
  BY <1>1 DEF RequestName, Speaks, Idle, busVars, seenVars, Begin
<1>3. CASE ~MayAcquire(c, n)
  <2>1. PICK x : x = Send(Failure(c)) /\ s = <<x>>
    BY <1>1, <1>3 DEF AcquireService
  <2>2. x \in Call /\ Muted(x)
    BY <2>1, CallIntro, MessageIntro, MutedForm
  <2>3. s \in Seq(Call) /\ Muffled(s) /\ OneOf(s, Ending)
    BY <2>1, <2>2, CallSequences, MuffledSequences, ListsShort
  <2> QED BY <1>2, <2>3, BeginMuffled DEF Muffled
<1>4. CASE MayAcquire(c, n)
  <2>1. f \in AllFlags /\ n \in AnyName
    BY ConfigAssumption DEF AnyName
  <2>2. OutcomeResult(c, n, f) \in Result
    BY DEF OutcomeResult, Outcome, Result
  <2>3. PICK a, x, b : /\ a = OutcomeCalls(c, n, f)
                       /\ x = Send(Reply(c, n, OutcomeResult(c, n, f)))
                       /\ b = <<SendHeld(n), x>>
    OBVIOUS
  <2>4. s = a \o b
    BY <1>1, <1>4, <2>3 DEF AcquireService
  <2>5. SendHeld(n) \in Call /\ x \in Call /\ Muted(x)
    BY <2>1, <2>2, <2>3, CallIntro, MessageIntro, MutedForm
  <2>6. b \in Seq(Call)
    BY <2>3, <2>5
  <2>7. \A k : Lists(b, k) <=> k = SendHeld(n) \/ k = x
    BY <2>3, ListsShort
  <2>8. OneOf(b, Ending) /\ \A d : NoneOf(b, Serving(d))
    <3>1. x \notin Ending
      BY <2>5, MutedCalls
    <3>2. OneOf(b, Ending)
      BY <2>3, <3>1, ListsShort
    <3>3. \A d : x \notin Serving(d) /\ SendHeld(n) \notin Serving(d)
      BY <2>5, MutedCalls, ServingForm, CallForm
    <3> QED BY <2>7, <3>2, <3>3 DEF NoneOf
  <2>9. CASE owners[n] # <<>>
    <3>1. a \in Seq(Call) /\ Muffled(a)
      BY <2>1, <2>3, <2>9, OutcomeMuffled
    <3>2. NoneOf(a, Ending)
      BY <3>1, MutedCalls
    <3>3. /\ s \in Seq(Call) /\ OneOf(s, Ending)
          /\ \A k : Lists(s, k) <=> Lists(a, k) \/ Lists(b, k)
      BY <2>4, <2>6, <2>8, <3>1, <3>2, ListsConcat
    <3>4. pending[n] = <<>>
      BY <1>2, <2>9 DEF PendingInv, PendingRest
    <3>5. \A k : Lists(s, k) => Muted(k) \/ \E m \in Name : k = SendHeld(m) /\ pending[m] = <<>>
      BY <2>5, <2>7, <3>1, <3>3, <3>4 DEF Muffled
    <3> QED BY <1>2, <3>3, <3>5, BeginMuffled
  <2>10. CASE owners[n] = <<>>
    <3>1. a = Ensure(n, c, f)
      BY <2>3, <2>10 DEF OutcomeCalls, Outcome
    <3>2. PICK v, w \in Seq(Call) : /\ Muffled(v) /\ Muffled(w)
                                    /\ a = v \o (Started(n) \o w)
      BY <2>1, <2>10, <3>1, EnsureParts
    <3>3. PICK q \in Seq(Call) : q = Started(n)
      BY StartedForm
    <3>4. \A k : Lists(q, k) => k.call = "notify"
      BY <3>3, StartedForm, CallForm
    <3>5. NoneOf(q, Ending)
      BY <3>4, CallForm DEF NoneOf
    <3>6. /\ NoneOf(v, Ending) /\ NoneOf(w, Ending)
          /\ \A d : NoneOf(v, Serving(d)) /\ NoneOf(w, Serving(d))
      BY <3>2, MutedCalls
    <3>7. PICK r : r = q \o w
      OBVIOUS
    <3>8. /\ r \in Seq(Call)
          /\ \A k : Lists(r, k) <=> Lists(q, k) \/ Lists(w, k)
          /\ \A X : OneOf(q, X) /\ NoneOf(w, X) => OneOf(r, X)
      BY <3>2, <3>3, <3>7, ListsConcat
    <3>9. /\ a \in Seq(Call)
          /\ \A k : Lists(a, k) <=> Lists(v, k) \/ Lists(r, k)
          /\ \A X : NoneOf(v, X) /\ OneOf(r, X) => OneOf(a, X)
      BY <3>2, <3>3, <3>7, <3>8, ListsConcat
    <3>10. /\ s \in Seq(Call)
           /\ \A k : Lists(s, k) <=> Lists(a, k) \/ Lists(b, k)
           /\ \A X : OneOf(a, X) /\ NoneOf(b, X) => OneOf(s, X)
           /\ \A X : NoneOf(a, X) /\ OneOf(b, X) => OneOf(s, X)
      BY <2>4, <2>6, <3>9, ListsConcat
    <3>11. OneOf(s, Ending)
      <4>1. NoneOf(a, Ending)
        BY <3>5, <3>6, <3>8, <3>9 DEF NoneOf
      <4> QED BY <2>8, <3>10, <4>1
    <3>12. \A d : OneOf(Started(n), Serving(d)) => OneOf(s, Serving(d))
      BY <2>8, <3>3, <3>6, <3>8, <3>9, <3>10
    <3>13. \A k : Lists(s, k) <=>
             Lists(v, k) \/ Lists(Started(n), k) \/ Lists(w, k) \/ k = SendHeld(n) \/ k = x
      BY <2>7, <3>3, <3>8, <3>9, <3>10
    <3>14. /\ Lists(s, SendHeld(n))
           /\ \A k : Lists(Started(n), k) => Lists(s, k)
           /\ \A k : Lists(s, k) => Muted(k) \/ k = SendHeld(n) \/ Lists(Started(n), k)
      BY <2>5, <3>2, <3>13 DEF Muffled
    <3> QED BY <1>2, <3>10, <3>11, <3>12, <3>14, BeginStarted
  <2> QED BY <2>9, <2>10
<1> QED BY <1>3, <1>4

LEMMA ReleaseNameCalls ==
  ASSUME TypeOK, CallsInv, NEW c \in Conn, NEW n \in Name, ReleaseName(c, n)
  PROVE  CallsInv'
<1>1. PICK s : s = ReleaseService(c, n)
  OBVIOUS
<1>2. /\ todo' = s /\ msgs' = <<>> /\ phase' = "run" /\ phase = "idle"
      /\ UNCHANGED <<link, pending, calls>>
  BY <1>1 DEF ReleaseName, Speaks, Idle, busVars, seenVars, Begin
<1>3. s \in Seq(Call)
  BY <1>1, RequestCalls
<1>4. Muffled(s)
  <2>1. \E r : s = <<Send(Reply(c, n, r))>> \/ s = <<RemoveOwner(n, c), Send(Reply(c, n, r))>>
    BY <1>1 DEF ReleaseService
  <2>2. PICK r : \A k : Lists(s, k) => k = RemoveOwner(n, c) \/ k = Send(Reply(c, n, r))
    BY <2>1, ListsShort
  <2> QED BY <2>2, MutedForm DEF Muffled
<1>5. OneOf(s, Ending)
  BY <1>4, MutedCalls DEF OneOf, NoneOf, Lists
<1> QED BY <1>2, <1>3, <1>4, <1>5, BeginMuffled DEF Muffled

(* The rounds of a client that left and of an activation that failed. *)
LEMMA RoundCalls ==
  ASSUME TypeOK, CallsInv, DropLastName \/ FailNext
  PROVE  CallsInv'
<1>1. CASE DropLastName
  <2>1. PICK x, s : x = RemoveOwner(Last(owned[job.by]), job.by) /\ s = <<x>>
    OBVIOUS
  <2>2. /\ todo' = s /\ msgs' = <<>> /\ phase' = "run" /\ phase = "round"
        /\ UNCHANGED <<link, pending, calls>>
    BY <1>1, <2>1 DEF DropLastName, busVars, seenVars, Begin
  <2>3. s \in Seq(Call)
    <3>1. TypeOK'
      BY <1>1, RoundType
    <3> QED BY <2>2, <3>1 DEF TypeOK
  <2>4. Muted(x)
    BY <2>1, MutedForm
  <2>5. Muffled(s) /\ OneOf(s, Ending)
    BY <2>1, <2>4, MuffledSequences, ListsShort
  <2> QED BY <2>2, <2>3, <2>5, BeginMuffled DEF Muffled
<1>2. CASE FailNext
  <2>1. PICK n \in job.left : Begin("expire", job.by, job.left, Failures(n) \o <<Drop(n)>>)
    BY <1>2 DEF FailNext
  <2>2. n \in Name
    <3>1. job.left \subseteq Name
      BY <1>2 DEF FailNext, TypeOK, Job, NoJob
    <3> QED BY <3>1
  <2>3. phase = "round" /\ UNCHANGED <<link, pending, calls>>
    BY <1>2 DEF FailNext, busVars, seenVars
  <2> QED BY <2>1, <2>2, <2>3, BeginFailed DEF Begin
<1> QED BY <1>1, <1>2

(* The calls of a request that activates: the answer to it, or the
   registration of the client and, for a new activation, the program. *)
LEMMA ActivateParts ==
  ASSUME TypeOK, NEW c \in Conn, NEW n \in Name, NEW a \in BOOLEAN,
         NEW s, s = ActivateService(c, n, a)
  PROVE  \/ s = <<Send(Answer(c, n))>>
         \/ /\ s \in Seq(Call) /\ Lists(s, Register(n, c, a)) /\ OneOf(s, Registering)
            /\ \A x : Lists(s, x) => x = Register(n, c, a) \/ (x = Spawn(n) /\ pending[n] = <<>>)
<1>1. PICK b : b = IF pending[n] = <<>> THEN <<Spawn(n)>> ELSE <<>>
  OBVIOUS
<1>2. s = <<Send(Answer(c, n))>> \/ s = <<Register(n, c, a)>> \o b
  BY <1>1 DEF ActivateService
<1>3. Register(n, c, a) \in Call /\ Spawn(n) \in Call
  BY CallIntro
<1>4. b \in Seq(Call) /\ \A x : Lists(b, x) => x = Spawn(n) /\ pending[n] = <<>>
  BY <1>1, <1>3, CallSequences, ListsShort
<1>5. Spawn(n) \notin Registering
  BY CallForm
<1>6. NoneOf(b, Registering)
  BY <1>4, <1>5 DEF NoneOf
<1>7. PICK k \in Call : k = Register(n, c, a)
  BY <1>3
<1>8. /\ <<k>> \o b \in Seq(Call)
      /\ \A y : Lists(<<k>> \o b, y) <=> y = k \/ Lists(b, y)
      /\ OneOf(<<k>> \o b, Registering)
  BY <1>4, <1>6, ListsCons
<1> QED BY <1>2, <1>4, <1>7, <1>8

LEMMA ActivateCalls ==
  ASSUME TypeOK, CallsInv, NEW c \in Conn, NEW n \in Name, NEW a \in BOOLEAN, Activate(c, n, a)
  PROVE  CallsInv'
<1>1. PICK s : s = ActivateService(c, n, a)
  OBVIOUS
<1>2. /\ todo' = s /\ msgs' = <<>> /\ phase' = "run" /\ phase = "idle"
      /\ job' = [why |-> "call", by |-> c, left |-> {}]
      /\ UNCHANGED <<link, pending>>
      /\ calls[c] = NoOne /\ calls' = [calls EXCEPT ![c] = n]
  BY <1>1 DEF Activate, Speaks, Idle, busVars, Begin
<1>3. job'.why = "call" /\ job'.by = c
  BY <1>2
<1>4. calls'[c] = n /\ \A d \in Conn : d # c => calls'[d] = calls[d]
  BY <1>2 DEF TypeOK
<1>5. \/ s = <<Send(Answer(c, n))>>
      \/ /\ Lists(s, Register(n, c, a)) /\ OneOf(s, Registering)
         /\ \A x : Lists(s, x) => x = Register(n, c, a) \/ (x = Spawn(n) /\ pending[n] = <<>>)
  BY <1>1, ActivateParts
<1>6. \A x : Lists(s, x) => /\ x.call \in {"send", "register", "spawn"}
                            /\ x \notin Ending
  <2>1. CASE s = <<Send(Answer(c, n))>>
    <3>1. \A x : Lists(s, x) => x.call = "send"
      BY <2>1, ListsShort, CallForm
    <3> QED BY <3>1, CallForm
  <2>2. CASE s # <<Send(Answer(c, n))>>
    <3>1. \A x : Lists(s, x) => x.call \in {"register", "spawn"}
      BY <1>5, <2>2, CallForm
    <3> QED BY <3>1, CallForm
  <2> QED BY <2>1, <2>2
<1>7. /\ OneOf(s, Ending)
      /\ \A k \in Name : ~Lists(s, SendHeld(k)) /\ ~Lists(s, Forget(k)) /\ ~Lists(s, Drop(k))
  <2>1. OneOf(s, Ending)
    BY <1>6 DEF OneOf, Lists
  <2>2. \A k \in Name : SendHeld(k) \in Ending /\ Forget(k) \in Ending /\ Drop(k) \in Ending
    BY CallForm
  <2> QED BY <1>6, <2>1, <2>2
<1>8. OneOf(s, Registering)
  <2>1. CASE s = <<Send(Answer(c, n))>>
    BY <2>1, ListsShort
  <2> QED BY <1>5, <2>1
<1>9. \A d \in Conn, k \in Name :
        Comes(d, k)' <=> d = c /\ k = n /\ s = <<Send(Answer(c, n))>>
  <2>1. ASSUME NEW d \in Conn, NEW k \in Name
        PROVE  Comes(d, k)' <=> Answered(s, d, k)
    <3>1. Comes(d, k)' <=>
            \/ Lists(<<>>, Answer(d, k)) \/ Lists(<<>>, Handover(d, k))
            \/ Lists(s, Send(Answer(d, k))) \/ Lists(s, Send(Handover(d, k)))
            \/ Lists(s, Notify(k, Asking(d))) \/ Lists(s, Dispatch(k, Holding(d)))
      BY <1>2 DEF Comes, Coming, Answer, Handover, Send, Notify, Dispatch, Asking, Holding, Lists
    <3>2. \A x : ~Lists(<<>>, x)
      BY ListsShort
    <3> QED BY <3>1, <3>2 DEF Answered
  <2>2. CASE s = <<Send(Answer(c, n))>>
    <3>1. PICK x, m : m = Answer(c, n) /\ x = Send(m) /\ \A y : Lists(s, y) <=> y = x
      BY <2>2, ListsShort
    <3>2. \A d, k : /\ x = Send(Answer(d, k)) <=> d = c /\ k = n
                    /\ x # Send(Handover(d, k))
      <4>1. \A y : x = Send(y) <=> y = m
        BY <3>1, CallForm
      <4> QED BY <3>1, <4>1, AnswerForm
    <3>3. \A d, k : x # Notify(k, Asking(d)) /\ x # Dispatch(k, Holding(d))
      BY <3>1, CallForm
    <3>4. \A d, k : Answered(s, d, k) <=> d = c /\ k = n
      BY <3>1, <3>2, <3>3 DEF Answered
    <3> QED BY <2>1, <2>2, <3>4
  <2>3. CASE s # <<Send(Answer(c, n))>>
    <3>1. \A x : Lists(s, x) => x.call \in {"register", "spawn"}
      BY <1>5, <2>3, CallForm
    <3>2. \A d, k : ~Answered(s, d, k)
      BY <3>1, CallForm DEF Answered
    <3> QED BY <2>1, <2>3, <3>2
  <2> QED BY <2>2, <2>3
<1>10. \A d \in Conn : Connected(d) =>
         \A k \in Name : OneOf(pending[k], Waits(d)) /\ (calls[d] = k <=> Enrolled(k, d))
  BY <1>2, AtRest
<1>11. Connected(c) => \A k \in Name : ~Enrolled(k, c)
  BY <1>2, <1>10, ConnAssumption
<1>12. \A d : /\ Connected(d)' <=> Connected(d)
              /\ \A k : Enrolled(k, d)' <=> Enrolled(k, d)
  BY <1>2 DEF Connected, Enrolled, Lists, Asking, Holding
<1>13. Opening'
  <2>1. CASE s = <<Send(Answer(c, n))>>
    <3>1. \A x : Lists(s, x) => x.call = "send"
      BY <2>1, ListsShort, CallForm
    <3>2. ~Activating(s)
      BY <3>1 DEF Activating
    <3> QED BY <1>2, <3>2, NothingOpens
  <2>2. CASE s # <<Send(Answer(c, n))>>
    <3>1. \A x : Lists(s, x) => /\ x.call \in {"register", "spawn"} /\ x.name = n
                                /\ x.call = "register" => x.conn = c
                                /\ x.call = "spawn" => pending[n] = <<>>
      BY <1>5, <2>2, CallForm
    <3>2. pending[n] = <<>> => \A e : ~Lists(pending[n], e)
      BY ListsShort
    <3>3. Connected(c) => \A m \in Name : ~Comes(c, m)'
      BY <1>9, <2>2
    <3>4. \A k : Lists(s, k) /\ k.call \in {"register", "spawn"} =>
            /\ \A x : Lists(s, x) => x.call \in {"register", "spawn"}
            /\ Connected(c) => calls'[c] = k.name /\ \A m \in Name : ~Comes(c, m)'
            /\ k.call = "spawn" => \A e : Lists(pending[k.name], e) => e.conn = c
            /\ k.call = "register" => k.conn = c /\ (Connected(c) => \A m \in Name : ~Enrolled(m, c))
      BY <1>4, <1>11, <3>1, <3>2, <3>3
    <3>5. /\ Connected(job.by)' <=> Connected(c)
          /\ \A m \in Name : /\ Comes(job.by, m)' <=> Comes(c, m)'
                             /\ Enrolled(m, job.by)' <=> Enrolled(m, c)
      <4>1. job'.by = c
        BY <1>3
      <4>2. /\ Connected(job.by)' <=> Connected(c)'
            /\ \A m \in Name : /\ Comes(job.by, m)' <=> Comes(c, m)'
                               /\ Enrolled(m, job.by)' <=> Enrolled(m, c)'
        BY <4>1 DEF Connected, Comes, Coming, Enrolled, Asking, Holding, Answer, Handover, Send,
                    Notify, Dispatch
      <4> QED BY <1>12, <4>2
    <3> QED BY <1>2, <1>3, <3>4, <3>5 DEF Opening, Lists
  <2> QED BY <2>1, <2>2
<1>14. ASSUME NEW d \in Conn, Connected(d)
       PROVE  Attended(d)'
  <2>1. Alone(d)'
    <3>1. OneOf(s, Serving(d))
      <4>1. CASE s = <<Send(Answer(c, n))>>
        BY <4>1, ListsShort
      <4>2. CASE s # <<Send(Answer(c, n))>>
        <5>1. \A x : Lists(s, x) => x.call \in {"register", "spawn"}
          BY <1>5, <4>2, CallForm
        <5>2. \A x : Lists(s, x) => x \notin Serving(d)
          BY <5>1, ServingForm
        <5> QED BY <5>2, AnsweredForm
      <4> QED BY <4>1, <4>2
    <3>2. OneOf(<<>>, Answering(d)) /\ NoneOf(<<>>, Answering(d))
      BY ListsShort DEF NoneOf
    <3> QED BY <1>2, <3>1, <3>2 DEF Alone, Answering, Serving, Answer, Handover, Send, Notify,
                                    Dispatch, Asking, Holding, OneOf, NoneOf, Lists
  <2>2. ASSUME NEW k \in Name
        PROVE  Accounted(d, k)'
    <3>1. OneOf(pending[k], Waits(d)) /\ ~(Enrolled(k, d) /\ Comes(d, k)')
      BY <1>9, <1>10, <1>11, <1>14
    <3>2. Enrolled(k, d) \/ Comes(d, k)' => calls'[d] = k
      BY <1>4, <1>9, <1>10, <1>11, <1>14
    <3>3. calls'[d] = k => Enrolled(k, d) \/ Comes(d, k)' \/ \E x \in BOOLEAN : Lists(s, Register(k, d, x))
      BY <1>4, <1>5, <1>9, <1>10, <1>14
    <3>4. /\ ~Lists(s, SendHeld(k)) /\ ~Lists(s, Forget(k)) /\ ~Lists(s, Drop(k))
      BY <1>7
    <3> QED BY <1>2, <3>1, <3>2, <3>3, <3>4
        DEF Accounted, Enrolled, Closing, OneOf, Waits, Asking, Holding, Lists, SendHeld, Forget,
            Drop, Register
  <2> QED BY <2>1, <2>2 DEF Attended
<1>15. \A d \in Conn : Connected(d)' => Attended(d)'
  BY <1>12, <1>14
<1> QED BY <1>2, <1>7, <1>8, <1>13, <1>15, CallsAssembled

-----------------------------------------------------------------------------
(* Every step.                                                             *)

(* What happens between two handlers, and at their end. *)
LEMMA EventCalls ==
  ASSUME TypeOK, CallsInv,
         \/ \E c \in Conn : HangUp(c) \/ Disconnected(c)
         \/ \E n \in Name : TimeOut(n) \/ ChildFails(n) \/ ChildExits(n)
         \/ ForgetClient \/ FailedAll \/ FreeHook \/ EndExecute
  PROVE  CallsInv'
<1>1. phase # "run" => todo = <<>> /\ msgs = <<>>
  BY DEF CallsInv
<1>2. ASSUME NEW c \in Conn, HangUp(c)
      PROVE  CallsInv'
  <2>1. /\ phase = "idle" \/ (phase = "run" /\ todo = <<>>)
        /\ UNCHANGED <<phase, pending, todo, msgs, calls>>
        /\ link' = [link EXCEPT ![c] = "down"]
    BY <1>2 DEF HangUp, Idle, Executing, txnVars, seenVars
  <2>2. \A d \in Conn : Connected(d)' => Connected(d)
    BY <2>1 DEF Connected, TypeOK
  <2> QED BY <1>1, <2>1, <2>2, QuietCalls
<1>3. CASE \/ \E c \in Conn : Disconnected(c)
           \/ \E n \in Name : TimeOut(n) \/ ChildFails(n) \/ ChildExits(n)
  <2>1. /\ phase = "idle" /\ phase' \in {"idle", "round"}
        /\ UNCHANGED <<link, pending, todo, msgs, calls>>
    BY <1>3 DEF Disconnected, TimeOut, ChildFails, ChildExits, Fail, Idle, txnVars, busVars, seenVars,
                registered
  <2>2. \A d \in Conn : Connected(d)' => Connected(d)
    BY <2>1 DEF Connected
  <2> QED BY <1>1, <2>1, <2>2, QuietCalls
<1>4. CASE ForgetClient
  <2>1. /\ phase = "round" /\ phase' = "idle"
        /\ UNCHANGED <<pending, todo, msgs, calls>>
        /\ link' = [link EXCEPT ![job.by] = "gone"]
    BY <1>4 DEF ForgetClient, Rest, seenVars
  <2>2. \A d \in Conn : Connected(d)' => Connected(d)
    BY <2>1 DEF Connected, TypeOK
  <2> QED BY <1>1, <2>1, <2>2, QuietCalls
<1>5. CASE FailedAll
  <2>1. /\ phase = "round" /\ phase' = "idle"
        /\ UNCHANGED <<link, pending, todo, msgs, calls>>
    BY <1>5 DEF FailedAll, Rest, busVars, seenVars
  <2>2. \A d \in Conn : Connected(d)' => Connected(d)
    BY <2>1 DEF Connected
  <2> QED BY <1>1, <2>1, <2>2, QuietCalls
<1>6. CASE FreeHook \/ EndExecute
  <2>1. /\ todo = <<>> /\ msgs = <<>> /\ phase' \in {"idle", "run", "round"}
        /\ UNCHANGED <<link, pending, todo, msgs, calls>>
    BY <1>6 DEF FreeHook, EndExecute, Executing, Close, Rest, busVars, seenVars
  <2>2. \A d \in Conn : Connected(d)' => Connected(d)
    BY <2>1 DEF Connected
  <2> QED BY <2>1, <2>2, QuietCalls
<1> QED BY <1>2, <1>3, <1>4, <1>5, <1>6

LEMMA NextCalls ==
  ASSUME TypeOK, CallsInv, PendingInv, Next, OomIn = {}, Denied = {}, "fork" \notin SpawnErrors
  PROVE  CallsInv'
<1>1. phase # "cancel"
  BY DEF CallsInv
<1>2. ~OutOfMemory
  BY DEF OutOfMemory, MayFail
<1>3. CASE Outside
  <2>1. ASSUME NEW c \in Conn, Hello(c) \/ HangUp(c)
        PROVE  CallsInv'
    BY <2>1, HelloCalls, EventCalls
  <2>2. ASSUME NEW c \in Conn, NEW n \in Name, NEW f \in Flags, RequestName(c, n, f)
        PROVE  CallsInv'
    BY <2>2, RequestNameCalls
  <2>3. ASSUME NEW c \in Conn, NEW n \in Name, ReleaseName(c, n)
        PROVE  CallsInv'
    BY <2>3, ReleaseNameCalls
  <2>4. ASSUME NEW c \in Conn, NEW n \in Name, NEW a \in BOOLEAN, Activate(c, n, a)
        PROVE  CallsInv'
    BY <2>4, ActivateCalls
  <2>5. ASSUME NEW n \in Name, ChildFails(n) \/ ChildExits(n)
        PROVE  CallsInv'
    BY <2>5, EventCalls
  <2> QED BY <1>3, <2>1, <2>2, <2>3, <2>4, <2>5 DEF Outside
<1>4. CASE \/ \E c \in Conn : Disconnected(c)
           \/ \E n \in Name : TimeOut(n)
  BY <1>4, EventCalls
<1>5. CASE Handler
  <2>1. ~(UndoAddOwner \/ UndoRemoveOwner \/ UndoActivate \/ UndoForget \/ EndCancel)
    BY <1>1 DEF UndoAddOwner, UndoRemoveOwner, UndoActivate, UndoForget, EndCancel, Cancelling
  <2>2. CASE SendMessage \/ RegistryCall \/ ActivationCall \/ DeliverMessage
    BY <2>2, SendCalls, RegistryCalls, ActivationCalls, DeliverCalls
  <2>3. CASE FreeHook \/ EndExecute \/ ForgetClient \/ FailedAll
    BY <2>3, EventCalls
  <2>4. CASE DropLastName \/ FailNext
    BY <2>4, RoundCalls
  <2> QED BY <1>5, <2>1, <2>2, <2>3, <2>4 DEF Handler
<1> QED BY <1>2, <1>3, <1>4, <1>5 DEF Next

LEMMA InitCalls == Init => CallsInv
<1> SUFFICES ASSUME Init PROVE CallsInv
  OBVIOUS
<1>1. /\ phase = "idle" /\ todo = <<>> /\ msgs = <<>>
      /\ \A c \in Conn : calls[c] = NoOne
      /\ \A n \in Name : pending[n] = <<>>
  BY DEF Init
<1>2. \A x : ~Lists(todo, x) /\ ~Lists(msgs, x)
  BY <1>1, ListsShort
<1>3. Opening
  BY <1>2 DEF Opening
<1>4. \A X : OneOf(todo, X) /\ OneOf(msgs, X) /\ NoneOf(todo, X)
  BY <1>1, <1>2, ListsShort DEF NoneOf
<1>5. ASSUME NEW c \in Conn
      PROVE  Attended(c)
  <2>1. \A n \in Name : ~Comes(c, n)
    BY <1>2, ComesForm
  <2>2. \A n \in Name : ~Enrolled(n, c) /\ OneOf(pending[n], Waits(c))
    BY <1>1, ListsShort DEF Enrolled
  <2>3. \A n \in Name : calls[c] # n
    BY <1>1, ConnAssumption
  <2>4. \A n \in Name : Accounted(c, n)
    BY <2>1, <2>2, <2>3 DEF Accounted, Enrolled
  <2> QED BY <1>4, <2>4 DEF Attended, Alone
<1> QED BY <1>1, <1>3, <1>4, <1>5 DEF CallsInv

LEMMA StutterCalls ==
  ASSUME UNCHANGED vars, CallsInv
  PROVE  CallsInv'
<1>1. UNCHANGED <<link, phase, job, todo, msgs, pending, calls>>
  BY DEF vars, busVars, txnVars, seenVars
<1>2. \A c : Alone(c)' <=> Alone(c)
  BY <1>1 DEF Alone, Answering, Serving, Answer, Handover, Send, Notify, Dispatch, Asking, Holding,
              OneOf, NoneOf, Lists
<1>3. \A c, n : Accounted(c, n)' <=> Accounted(c, n)
  BY <1>1 DEF Accounted, Enrolled, Comes, Coming, Closing, Waits, Answer, Handover, Send, Notify,
              Dispatch, Asking, Holding, SendHeld, Forget, Drop, Register, OneOf, Lists
<1>4. Opening' <=> Opening
  BY <1>1 DEF Opening, Connected, Enrolled, Comes, Coming, Answer, Handover, Send, Notify, Dispatch,
              Asking, Holding, Lists
<1>5. /\ OneOf(todo, Ending)' <=> OneOf(todo, Ending)
      /\ OneOf(todo, Registering)' <=> OneOf(todo, Registering)
  BY <1>1 DEF OneOf, Ending, Registering, SendHeld, Forget, Drop, Register
<1>6. \A c : Connected(c)' <=> Connected(c)
  BY <1>1 DEF Connected
<1> QED BY <1>1, <1>2, <1>3, <1>4, <1>5, <1>6 DEF CallsInv, Attended

-----------------------------------------------------------------------------
(* The properties.                                                         *)

(* A client is in the table once at most. *)
LEMMA EnrolledOnce ==
  ASSUME TypeOK, NEW c \in Conn, NEW n \in Name, OneOf(pending[n], Waits(c))
  PROVE  Cardinality({i \in DOMAIN pending[n] : pending[n][i].conn = c})
           = (IF Enrolled(n, c) THEN 1 ELSE 0)
<1>1. PICK q \in Seq(Entry) : q = pending[n]
  BY DEF TypeOK
<1>2. \A i \in DOMAIN q : q[i] \in Entry
  BY LenProperties, ElementOfSeq
<1>3. \A i \in DOMAIN q : q[i].conn = c <=> q[i] \in Waits(c)
  BY <1>2, EntryForm DEF Waits
<1>4. CASE Enrolled(n, c)
  <2>1. PICK j \in DOMAIN q : q[j] \in Waits(c)
    BY <1>1, <1>4 DEF Enrolled, Lists, Waits
  <2>2. {i \in DOMAIN q : q[i].conn = c} = {j}
    BY <1>1, <1>3, <2>1 DEF OneOf
  <2> QED BY <1>1, <1>4, <2>2, FS_Singleton
<1>5. CASE ~Enrolled(n, c)
  <2>1. \A i \in DOMAIN q : q[i] \notin Waits(c)
    BY <1>1, <1>5 DEF Enrolled, Lists, Waits
  <2>2. {i \in DOMAIN q : q[i].conn = c} = {}
    BY <1>3, <2>1
  <2> QED BY <1>1, <1>5, <2>2, FS_EmptySet
<1> QED BY <1>4, <1>5

LEMMA CallsWait == TypeOK /\ CallsInv => WaitingCallsArePending
<1> SUFFICES ASSUME TypeOK, CallsInv, Idle, NEW c \in Conn, Connected(c), NEW n \in Name
             PROVE  Cardinality({i \in DOMAIN pending[n] : pending[n][i].conn = c})
                      = (IF calls[c] = n THEN 1 ELSE 0)
  BY DEF WaitingCallsArePending
<1>1. OneOf(pending[n], Waits(c)) /\ (calls[c] = n <=> Enrolled(n, c))
  BY AtRest DEF Idle
<1> QED BY <1>1, EnrolledOnce

LEMMA CallsAnswered == TypeOK /\ CallsInv => AnsweredOnce
<1> SUFFICES ASSUME TypeOK, CallsInv, Executing, msgs # <<>>
             PROVE  LET m == Head(msgs) IN
                      /\ m.kind = "answer" /\ Connected(m.to) => calls[m.to] = m.name
                      /\ m.kind = "handover" /\ Connected(m.from) => calls[m.from] = m.name
  BY DEF AnsweredOnce
<1>1. PICK m \in Message : m = Head(msgs) /\ Lists(msgs, m)
  <2>1. msgs \in Seq(Message)
    BY DEF TypeOK
  <2> QED BY <2>1, ListsTail
<1>2. ASSUME NEW c \in Conn, NEW n \in Name, Connected(c), m = Answer(c, n) \/ m = Handover(c, n)
      PROVE  calls[c] = n
  <2>1. Comes(c, n)
    BY <1>1, <1>2, ComesForm
  <2>2. Accounted(c, n)
    BY <1>2 DEF CallsInv, Attended
  <2> QED BY <2>1, <2>2 DEF Accounted
<1>3. m.kind = "answer" /\ Connected(m.to) => calls[m.to] = m.name
  <2> SUFFICES ASSUME m.kind = "answer", Connected(m.to) PROVE calls[m.to] = m.name
    OBVIOUS
  <2>1. PICK c \in Conn, n \in Name : m = Answer(c, n)
    BY AnswerMessage
  <2>2. m.to = c /\ m.name = n
    BY <2>1 DEF Answer
  <2> QED BY <1>2, <2>1, <2>2
<1>4. m.kind = "handover" /\ Connected(m.from) => calls[m.from] = m.name
  <2> SUFFICES ASSUME m.kind = "handover", Connected(m.from) PROVE calls[m.from] = m.name
    OBVIOUS
  <2>1. PICK c \in Conn, n \in Name : m = Handover(c, n)
    BY AnswerMessage
  <2>2. m.from = c /\ m.name = n
    BY <2>1 DEF Handover
  <2> QED BY <1>2, <2>1, <2>2
<1> QED BY <1>1, <1>3, <1>4

(* The invariant of waiting clients, on top of that of activation. *)
WaitingInv == ActivationInv /\ CallsInv

LEMMA WaitingKept ==
  ASSUME OomIn = {}, Denied = {}, "fork" \notin SpawnErrors
  PROVE  /\ Init => WaitingInv
         /\ WaitingInv /\ [Next]_vars => WaitingInv'
         /\ WaitingInv => TypeOK
<1>1. Init => WaitingInv
  BY InitQueues, InitSignals, InitPending, InitCalls DEF WaitingInv, ActivationInv, RegistryInv
<1>2. CallsInv => ~Halted
  BY DEF CallsInv, Halted
<1>3. WaitingInv => TypeOK /\ PendingInv
  BY <1>2 DEF WaitingInv, ActivationInv, RegistryInv, QueueInv
<1>4. WaitingInv /\ [Next]_vars => WaitingInv'
  <2> SUFFICES ASSUME WaitingInv, [Next]_vars PROVE WaitingInv'
    OBVIOUS
  <2>1. ActivationInv'
    BY NextActivation DEF WaitingInv
  <2>2. CASE Next
    BY <1>3, <2>1, <2>2, NextCalls DEF WaitingInv
  <2>3. CASE UNCHANGED vars
    BY <2>1, <2>3, StutterCalls DEF WaitingInv
  <2> QED BY <2>2, <2>3
<1> QED BY <1>1, <1>3, <1>4

(* Every activation a connected client waits for is in the table, and the
   client is there once.  The request registers its caller before the program
   is started; the entry leaves the table only in the transaction that answers
   it: when the name appears (bus_activation_service_created answers those that
   asked, bus_activation_send_pending_auto_activation_messages hands over what
   is held), when the activation fails or times out
   (pending_activation_failed), or when the command cannot be parsed and the
   error goes to the only client that waits (bus_activation_activate_service).
   Three things are assumed: memory does not run out, since a cancelled
   transaction drops the answers and may drop the whole activation
   (cancel_pending); programs can be started, since one that cannot be is
   reported at once and stays in the table; and the policy rejects no held
   message, since the handler then ends before the activation is over. *)
THEOREM ActivationsAreListed ==
  ASSUME OomIn = {}, Denied = {}, "fork" \notin SpawnErrors
  PROVE  Spec => []WaitingCallsArePending
<1>1. /\ Init => WaitingInv
      /\ WaitingInv /\ [Next]_vars => WaitingInv'
  BY WaitingKept
<1>2. WaitingInv => WaitingCallsArePending
  BY WaitingKept, CallsWait DEF WaitingInv
<1> QED BY <1>1, <1>2, PTL DEF Spec

(* An answer or a handed over message that is sent about an activation to a
   client that is there concerns the activation that client waits for: nobody
   is answered twice, although the clients of an activation are told from two
   places, the creation of the service and the hand-over of held messages, or
   from the failure of the activation (bus_activation_service_created,
   try_send_activation_failure, bus_dispatch_matches).  The assumptions are
   those of ActivationsAreListed. *)
THEOREM AnswersAreForCalls ==
  ASSUME OomIn = {}, Denied = {}, "fork" \notin SpawnErrors
  PROVE  Spec => []AnsweredOnce
<1>1. /\ Init => WaitingInv
      /\ WaitingInv /\ [Next]_vars => WaitingInv'
  BY WaitingKept
<1>2. WaitingInv => AnsweredOnce
  BY WaitingKept, CallsAnswered DEF WaitingInv
<1> QED BY <1>1, <1>2, PTL DEF Spec

=============================================================================
