--------------------------- MODULE ConnectionProofs ---------------------------
(***************************************************************************)
(* Proofs about the shared connection of libdbus (module Connection), for  *)
(* any number of threads and calls: timeouts are registered for calls that *)
(* wait, the connection knows every call that waits, and nobody sleeps     *)
(* over its reply.                                                         *)
(***************************************************************************)
EXTENDS Connection, SequenceTheorems, WellFoundedInduction, TLAPS

----------------------------------------------------------------------------
(* Which messages a list holds. *)

Has(s, x) == \E i \in 1..Len(s) : s[i] = x

LEMMA AnswersAreHad == \A c : Answers(c) # {} <=> Has(incoming, c)
BY DEF Answers, Has

(* _dbus_list_append *)
LEMMA HasAppend ==
  ASSUME NEW S, NEW s \in Seq(S), NEW x \in S
  PROVE  /\ Append(s, x) \in Seq(S)
         /\ \A y : Has(Append(s, x), y) <=> Has(s, y) \/ y = x
<1>1. /\ Append(s, x) \in Seq(S) /\ Len(Append(s, x)) = Len(s) + 1 /\ Len(s) \in Nat
      /\ \A i \in 1..Len(s) : Append(s, x)[i] = s[i]
      /\ Append(s, x)[Len(s) + 1] = x
  BY AppendProperties, LenProperties
<1> DEFINE r == Append(s, x)
<1> HIDE DEF r
<1>2. /\ Len(r) = Len(s) + 1 /\ Len(s) \in Nat
      /\ \A i \in 1..Len(s) : r[i] = s[i]
      /\ r[Len(s) + 1] = x
  BY <1>1 DEF r
<1>3. ASSUME NEW y PROVE Has(r, y) <=> Has(s, y) \/ y = x
  <2>1. ASSUME Has(r, y) PROVE Has(s, y) \/ y = x
    <3>1. PICK i \in 1..Len(r) : r[i] = y
      BY <2>1 DEF Has
    <3>2. i = Len(s) + 1 \/ i \in 1..Len(s)
      BY <1>2
    <3> QED BY <1>2, <3>1, <3>2 DEF Has
  <2>2. ASSUME Has(s, y) PROVE Has(r, y)
    <3>1. PICK i \in 1..Len(s) : s[i] = y
      BY <2>2 DEF Has
    <3>2. i \in 1..Len(r) /\ r[i] = y
      BY <1>2, <3>1
    <3> QED BY <3>2 DEF Has
  <2>3. ASSUME y = x PROVE Has(r, y)
    <3>1. Len(s) + 1 \in 1..Len(r)
      BY <1>2
    <3> QED BY <1>2, <2>3, <3>1 DEF Has
  <2> QED BY <2>1, <2>2, <2>3
<1> QED BY <1>1, <1>3 DEF r

(* A part of a list. *)
LEMMA Part ==
  ASSUME NEW S, NEW s \in Seq(S), NEW m \in Nat, NEW n \in Nat,
         m >= 1, n <= Len(s), n >= m - 1
  PROVE  /\ SubSeq(s, m, n) \in Seq(S) /\ Len(SubSeq(s, m, n)) = n - m + 1
         /\ \A i \in 1..(n - m + 1) : SubSeq(s, m, n)[i] = s[m + i - 1]
<1>1. \A i \in m..n : s[i] \in S
  <2>1. Len(s) \in Nat
    BY LenProperties
  <2> QED BY <2>1, ElementOfSeq
<1>2. m \in Int /\ n \in Int
  OBVIOUS
<1>3. /\ SubSeq(s, m, n) \in Seq(S)
      /\ Len(SubSeq(s, m, n)) = IF m <= n THEN n - m + 1 ELSE 0
      /\ \A i \in 1..(n - m + 1) : SubSeq(s, m, n)[i] = s[m + i - 1]
  BY <1>1, <1>2, SubSeqProperties
<1> QED BY <1>3

(* do_reading: n messages go from the socket to the queue. *)
LEMMA HasRead ==
  ASSUME NEW S, NEW s \in Seq(S), NEW u \in Seq(S), NEW n \in 0..Len(u)
  PROVE  /\ s \o SubSeq(u, 1, n) \in Seq(S)
         /\ \A y : Has(s \o SubSeq(u, 1, n), y)
                     <=> Has(s, y) \/ \E i \in 1..n : u[i] = y
<1>1. Len(u) \in Nat /\ Len(s) \in Nat /\ n \in Nat /\ n <= Len(u)
  BY LenProperties
<1> DEFINE v == SubSeq(u, 1, n)
           r == s \o v
<1>2. v \in Seq(S) /\ Len(v) = n /\ \A i \in 1..n : v[i] = u[i]
  <2>1. /\ v \in Seq(S) /\ Len(v) = n - 1 + 1
        /\ \A i \in 1..(n - 1 + 1) : v[i] = u[1 + i - 1]
    <3>1. 1 \in Nat /\ 1 >= 1 /\ n >= 1 - 1
      BY <1>1
    <3> HIDE DEF v
    <3> QED BY <1>1, <3>1, Part DEF v
  <2> HIDE DEF v
  <2> QED BY <1>1, <2>1
<1> HIDE DEF v
<1>3. /\ r \in Seq(S) /\ Len(r) = Len(s) + n
      /\ \A i \in 1..(Len(s) + n) :
           r[i] = IF i <= Len(s) THEN s[i] ELSE v[i - Len(s)]
  BY <1>2, ConcatProperties
<1> HIDE DEF r
<1>4. ASSUME NEW y PROVE Has(r, y) <=> Has(s, y) \/ \E i \in 1..n : u[i] = y
  <2>1. ASSUME Has(r, y) PROVE Has(s, y) \/ \E i \in 1..n : u[i] = y
    <3>1. PICK i \in 1..(Len(s) + n) : r[i] = y
      BY <1>3, <2>1 DEF Has
    <3>2. CASE i <= Len(s)
      <4>1. i \in 1..Len(s) /\ s[i] = y
        BY <1>1, <1>3, <3>1, <3>2
      <4> QED BY <4>1 DEF Has
    <3>3. CASE ~(i <= Len(s))
      <4>1. i - Len(s) \in 1..n
        BY <1>1, <3>3
      <4>2. v[i - Len(s)] = y
        BY <1>3, <3>1, <3>3
      <4> QED BY <1>2, <4>1, <4>2
    <3> QED BY <3>2, <3>3
  <2>2. ASSUME Has(s, y) PROVE Has(r, y)
    <3>1. PICK i \in 1..Len(s) : s[i] = y
      BY <2>2 DEF Has
    <3>2. i \in 1..(Len(s) + n) /\ i <= Len(s)
      BY <1>1
    <3> QED BY <1>3, <3>1, <3>2 DEF Has
  <2>3. ASSUME NEW i \in 1..n, u[i] = y PROVE Has(r, y)
    <3>1. /\ Len(s) + i \in 1..(Len(s) + n) /\ ~(Len(s) + i <= Len(s))
          /\ (Len(s) + i) - Len(s) = i
      BY <1>1
    <3>2. r[Len(s) + i] = y
      BY <1>2, <1>3, <2>3, <3>1
    <3> QED BY <1>3, <3>1, <3>2 DEF Has
  <2> QED BY <2>1, <2>2, <2>3
<1> QED BY <1>3, <1>4 DEF r, v

(* ... and the rest stays where it was. *)
LEMMA HasRest ==
  ASSUME NEW S, NEW u \in Seq(S), NEW n \in 0..Len(u)
  PROVE  /\ SubSeq(u, n + 1, Len(u)) \in Seq(S)
         /\ \A y : Has(SubSeq(u, n + 1, Len(u)), y) => Has(u, y)
<1>1. Len(u) \in Nat /\ n \in Nat /\ n <= Len(u)
  BY LenProperties
<1> DEFINE v == SubSeq(u, n + 1, Len(u))
<1>2. /\ v \in Seq(S) /\ Len(v) = Len(u) - (n + 1) + 1
      /\ \A i \in 1..(Len(u) - (n + 1) + 1) : v[i] = u[(n + 1) + i - 1]
  <2>1. n + 1 \in Nat /\ n + 1 >= 1 /\ Len(u) >= (n + 1) - 1
    BY <1>1
  <2>2. Len(u) <= Len(u)
    BY <1>1
  <2> QED BY <1>1, <2>1, <2>2, Part
<1> HIDE DEF v
<1>3. ASSUME NEW y, Has(v, y) PROVE Has(u, y)
  <2>1. PICK i \in 1..Len(v) : v[i] = y
    BY <1>3 DEF Has
  <2>2. (n + 1) + i - 1 \in 1..Len(u) /\ u[(n + 1) + i - 1] = y
    BY <1>1, <1>2, <2>1
  <2> QED BY <2>2 DEF Has
<1> QED BY <1>2, <1>3 DEF v

(* One message is taken out of a list. *)
LEMMA HasCut ==
  ASSUME NEW S, NEW s \in Seq(S), NEW k \in 1..Len(s)
  PROVE  /\ SubSeq(s, 1, k - 1) \o SubSeq(s, k + 1, Len(s)) \in Seq(S)
         /\ \A y : Has(SubSeq(s, 1, k - 1) \o SubSeq(s, k + 1, Len(s)), y) => Has(s, y)
         /\ \A y : y # s[k] /\ Has(s, y) =>
                     Has(SubSeq(s, 1, k - 1) \o SubSeq(s, k + 1, Len(s)), y)
<1>1. Len(s) \in Nat /\ k \in Nat /\ k >= 1 /\ k <= Len(s)
  BY LenProperties
<1> DEFINE a == SubSeq(s, 1, k - 1)
           b == SubSeq(s, k + 1, Len(s))
           r == a \o b
<1>2. a \in Seq(S) /\ Len(a) = k - 1 /\ \A i \in 1..(k - 1) : a[i] = s[i]
  <2>1. /\ a \in Seq(S) /\ Len(a) = (k - 1) - 1 + 1
        /\ \A i \in 1..((k - 1) - 1 + 1) : a[i] = s[1 + i - 1]
    <3>1. 1 \in Nat /\ k - 1 \in Nat /\ 1 >= 1 /\ k - 1 <= Len(s) /\ k - 1 >= 1 - 1
      BY <1>1
    <3> HIDE DEF a
    <3> QED BY <3>1, Part DEF a
  <2> HIDE DEF a
  <2> QED BY <1>1, <2>1
<1>3. b \in Seq(S) /\ Len(b) = Len(s) - k /\ \A i \in 1..(Len(s) - k) : b[i] = s[k + i]
  <2>1. /\ b \in Seq(S) /\ Len(b) = Len(s) - (k + 1) + 1
        /\ \A i \in 1..(Len(s) - (k + 1) + 1) : b[i] = s[(k + 1) + i - 1]
    <3>1. k + 1 \in Nat /\ k + 1 >= 1 /\ Len(s) <= Len(s) /\ Len(s) >= (k + 1) - 1
      BY <1>1
    <3> HIDE DEF b
    <3> QED BY <1>1, <3>1, Part DEF b
  <2> HIDE DEF b
  <2> QED BY <1>1, <2>1
<1> HIDE DEF a, b
<1>4. /\ r \in Seq(S) /\ Len(r) = Len(a) + Len(b)
      /\ \A i \in 1..(Len(a) + Len(b)) :
           r[i] = IF i <= Len(a) THEN a[i] ELSE b[i - Len(a)]
  BY <1>2, <1>3, ConcatProperties
<1> HIDE DEF r
<1>5. /\ Len(r) = Len(s) - 1
      /\ \A i \in 1..(Len(s) - 1) : r[i] = IF i < k THEN s[i] ELSE s[i + 1]
  <2>1. Len(r) = Len(s) - 1
    BY <1>1, <1>2, <1>3, <1>4
  <2>2. ASSUME NEW i \in 1..(Len(s) - 1)
        PROVE  r[i] = IF i < k THEN s[i] ELSE s[i + 1]
    <3> i \in Int /\ i \in 1..(Len(a) + Len(b))
      BY <1>1, <1>2, <1>3, <2>2
    <3>1. CASE i < k
      <4>1. i <= Len(a) /\ i \in 1..(k - 1)
        BY <1>1, <1>2, <2>2, <3>1
      <4> QED BY <1>2, <1>4, <3>1, <4>1
    <3>2. CASE ~(i < k)
      <4>1. i - (k - 1) \in 1..(Len(s) - k) /\ k + (i - (k - 1)) = i + 1
        BY <1>1, <2>2, <3>2
      <4>2. r[i] = b[i - (k - 1)]
        <5>1. ~(i <= Len(a))
          BY <1>1, <1>2, <3>2
        <5> QED BY <1>2, <1>4, <5>1
      <4>3. b[i - (k - 1)] = s[i + 1]
        BY <1>3, <4>1
      <4> QED BY <3>2, <4>2, <4>3
    <3> QED BY <3>1, <3>2
  <2> QED BY <2>1, <2>2
<1>6. ASSUME NEW y, Has(r, y) PROVE Has(s, y)
  <2>1. PICK i \in 1..(Len(s) - 1) : r[i] = y
    BY <1>5, <1>6 DEF Has
  <2>2. i \in 1..Len(s) /\ i + 1 \in 1..Len(s)
    BY <1>1, <2>1
  <2> QED BY <1>5, <2>1, <2>2 DEF Has
<1>7. ASSUME NEW y, y # s[k], Has(s, y) PROVE Has(r, y)
  <2>1. PICK i \in 1..Len(s) : s[i] = y
    BY <1>7 DEF Has
  <2>2. CASE i < k
    <3>1. i \in 1..(Len(s) - 1)
      BY <1>1, <2>2
    <3> QED BY <1>5, <2>1, <2>2, <3>1 DEF Has
  <2>3. CASE ~(i < k)
    <3>1. i # k
      BY <1>7, <2>1
    <3>2. i - 1 \in 1..(Len(s) - 1) /\ ~(i - 1 < k) /\ (i - 1) + 1 = i
      BY <1>1, <2>3, <3>1
    <3>3. r[i - 1] = y
      BY <1>5, <2>1, <3>2
    <3> QED BY <1>5, <3>2, <3>3 DEF Has
  <2> QED BY <2>2, <2>3
<1> QED BY <1>4, <1>6, <1>7 DEF r, a, b

(* _dbus_connection_pop_message_link_unlocked *)
LEMMA HasTail ==
  ASSUME NEW S, NEW s \in Seq(S), s # <<>>
  PROVE  /\ Tail(s) \in Seq(S) /\ Head(s) \in S
         /\ \A y : Has(Tail(s), y) => Has(s, y)
         /\ \A y : y # Head(s) /\ Has(s, y) => Has(Tail(s), y)
<1>1. /\ Tail(s) \in Seq(S) /\ Head(s) \in S /\ Head(s) = s[1]
      /\ Len(s) \in Nat /\ Len(s) >= 1 /\ Len(Tail(s)) = Len(s) - 1
      /\ \A i \in 1..(Len(s) - 1) : Tail(s)[i] = s[i + 1]
  BY HeadTailProperties, LenProperties, EmptySeq
<1> DEFINE r == Tail(s)
<1> HIDE DEF r
<1>2. Len(r) = Len(s) - 1 /\ \A i \in 1..(Len(s) - 1) : r[i] = s[i + 1]
  BY <1>1 DEF r
<1>3. ASSUME NEW y, Has(r, y) PROVE Has(s, y)
  <2>1. PICK i \in 1..(Len(s) - 1) : r[i] = y
    BY <1>2, <1>3 DEF Has
  <2>2. i + 1 \in 1..Len(s) /\ s[i + 1] = y
    BY <1>1, <1>2, <2>1
  <2> QED BY <2>2 DEF Has
<1>4. ASSUME NEW y, y # Head(s), Has(s, y) PROVE Has(r, y)
  <2>1. PICK i \in 1..Len(s) : s[i] = y
    BY <1>4 DEF Has
  <2>2. i # 1
    BY <1>1, <1>4, <2>1
  <2>3. i - 1 \in 1..(Len(s) - 1) /\ (i - 1) + 1 = i
    BY <1>1, <2>1, <2>2
  <2>4. r[i - 1] = y
    BY <1>2, <2>1, <2>3
  <2> QED BY <1>2, <2>3, <2>4 DEF Has
<1> QED BY <1>1, <1>3, <1>4 DEF r
----------------------------------------------------------------------------
(* The inductive invariant. *)

TypeInv ==
  /\ thr \in [Threads -> Thread] /\ call \in [Calls -> PendingCall]
  /\ incoming \in Seq(Messages) /\ wire \in Seq(Messages)
  /\ outgoing \in Seq(Messages)
  /\ pendingReplies \subseteq Calls /\ ioPath \in Threads \cup {NoThread}

(* Where get_dispatch_status and the completion of a call go on. *)
Follow == {"idle", "recheck", "checkReply", "dispatch", "readWrite", "status",
           "dispatched"}

(* A thread that is in none of the places below says nothing about the     *)
(* connection.  A blocking iteration looks for the reply first or ends in  *)
(* time.                                                                   *)
Modest(th) ==
  /\ th \in Thread /\ th.next \in Follow
  /\ th.pc \notin {"iterate", "poll", "fire", "drain"}
  /\ (th.pc = "acquire" /\ th.iter = "block") => (th.peek \/ th.call \in Timed)

PlaceInv(t) ==
  /\ thr[t].next \in Follow
  /\ thr[t].pc \in {"iterate", "poll"} => ioPath = t
  /\ thr[t].pc = "fire" => thr[t].call \in Timed
  /\ thr[t].pc = "drain" => disconnected
  /\ (thr[t].pc \in {"acquire", "iterate", "poll"} /\ thr[t].iter = "block") =>
       (thr[t].peek \/ thr[t].call \in Timed)
ThreadInv == \A t \in Threads : PlaceInv(t)

(* Nobody heard of a call that was not sent; a timeout that is registered  *)
(* has its error ready; a call in the hash without that error has its      *)
(* answer queued.                                                          *)
UnsentInv(c) ==
  ~call[c].sent =>
    /\ ~call[c].link /\ ~call[c].added /\ c \notin peer
    /\ ~Has(incoming, c) /\ ~Has(wire, c) /\ ~Has(outgoing, c)
TimerInv(c) ==
  call[c].added =>
    c \in Timed /\ c \in pendingReplies /\ call[c].link /\ ~Has(incoming, c)
HashInv(c) ==
  c \in pendingReplies =>
    /\ call[c].link \/ Has(incoming, c)
    /\ c \in Timed => (call[c].added \/ Has(incoming, c))
CallInv == \A c \in Calls : UnsentInv(c) /\ TimerInv(c) /\ HashInv(c)

(* A thread that may sleep for ever, and what it must not sleep over. *)
Sleeps(t) ==
  thr[t].pc = "poll" /\ thr[t].iter = "block" /\ thr[t].call \notin Timed
SleepInv ==
  \A t \in Threads : Sleeps(t) /\ ~disconnected => ~Has(incoming, thr[t].call)

ConnectionInv == TypeInv /\ ThreadInv /\ CallInv /\ SleepInv

(* The connection knows the calls that wait; this does not depend on what   *)
(* the queue holds, and is proved apart.                                   *)
KnownInv == \A c \in Calls : Waits(c) => Known(c)

LEMMA InvImpliesProperties ==
  /\ ConnectionInv => TimeoutsOfWaitingCalls /\ NoSleepOverReply
  /\ ConnectionInv /\ KnownInv => NobodyForgotten
<1>1. ConnectionInv => TimeoutsOfWaitingCalls
  BY AnswersAreHad DEF TimeoutsOfWaitingCalls, ConnectionInv, CallInv, TimerInv
<1>2. ConnectionInv /\ KnownInv => NobodyForgotten
  BY AnswersAreHad DEF NobodyForgotten, KnownInv, ConnectionInv, CallInv, HashInv,
    TypeInv
<1>3. ConnectionInv => NoSleepOverReply
  BY AnswersAreHad DEF NoSleepOverReply, ConnectionInv, SleepInv, Sleeps, At,
    ThreadInv, PlaceInv
<1> QED BY <1>1, <1>2, <1>3

LEMMA InitInv == Init => ConnectionInv
<1> SUFFICES ASSUME Init PROVE ConnectionInv
  OBVIOUS
<1>1. <<>> \in Seq(Messages) /\ \A x : ~Has(<<>>, x)
  BY EmptySeq DEF Has
<1>2. TypeInv
  <2>1. Idle \in Thread
    BY DEF Idle, Thread, Places, Iterations
  <2>2. NewCall \in PendingCall
    BY DEF NewCall, PendingCall
  <2> QED BY <1>1, <2>1, <2>2 DEF Init, TypeInv
<1>3. ThreadInv
  BY DEF Init, ThreadInv, PlaceInv, Idle, Follow
<1>4. CallInv
  BY <1>1 DEF Init, CallInv, UnsentInv, TimerInv, HashInv, NewCall
<1>5. SleepInv
  BY <1>1 DEF Init, SleepInv
<1> QED BY <1>2, <1>3, <1>4, <1>5 DEF ConnectionInv

----------------------------------------------------------------------------
(* Where a thread goes. *)

Moves(t) == thr' = [thr EXCEPT ![t] = thr'[t]] /\ Modest(thr'[t])

(* Fields of a thread. *)
LEMMA FrameIsModest ==
  ASSUME NEW th \in Thread, NEW pc \in Places, NEW next \in Follow,
         pc \notin {"acquire", "iterate", "poll", "fire", "drain"}
  PROVE  Modest(Frame(th, pc, next))
<1> DEFINE f == Frame(th, pc, next)
<1>1. next \in Places /\ "block" \in Iterations
  BY DEF Follow, Places, Iterations
<1>2. f \in Thread
  BY <1>1 DEF Frame, Thread
<1>3. f.pc = pc /\ f.next = next
  BY DEF Frame, Thread
<1> HIDE DEF f
<1>4. Modest(f)
  BY <1>2, <1>3 DEF Modest
<1> QED BY <1>4 DEF f

LEMMA IdleIsModest == Modest(Idle)
BY DEF Idle, Modest, Thread, Places, Follow, Iterations

LEMMA GoOnMoves ==
  ASSUME TypeInv, NEW t \in Threads, NEW place \in Follow \cup {"flush"},
         GoOn(t, place)
  PROVE  Moves(t)
<1>1. CASE place = "idle"
  BY <1>1, IdleIsModest DEF GoOn, Moves, TypeInv
<1>2. CASE place # "idle"
  <2>1. Modest(Frame(thr[t], place, "idle"))
    BY FrameIsModest DEF TypeInv, Places, Follow
  <2> QED BY <1>2, <2>1 DEF GoOn, Moves, TypeInv
<1> QED BY <1>1, <1>2

LEMMA StatusThenMoves ==
  ASSUME TypeInv, NEW t \in Threads, NEW next \in Follow, StatusThen(t, next)
  PROVE  Moves(t)
<1>1. Modest(Frame(thr[t], "status", next))
  BY FrameIsModest DEF TypeInv, Places, Follow
<1> QED BY <1>1 DEF StatusThen, Moves, TypeInv

LEMMA IterateThenMoves ==
  ASSUME TypeInv, NEW t \in Threads, thr[t].next \in Follow,
         NEW iter \in Iterations, NEW peek \in BOOLEAN,
         iter = "block" => (peek \/ thr[t].call \in Timed),
         IterateThen(t, iter, peek)
  PROVE  Moves(t)
<1> DEFINE flag == \/ iter \in {"send", "flush", "writeWatch"}
                   \/ iter = "readWrite" /\ outgoing # <<>>
           th == [thr[t] EXCEPT !.pc = "acquire", !.iter = iter, !.peek = peek,
                                !.write = flag]
<1>1. thr[t] \in Thread /\ flag \in BOOLEAN
  BY DEF TypeInv
<1>2. thr' = [thr EXCEPT ![t] = th]
  BY DEF IterateThen
<1>3. /\ th \in Thread /\ th.next = thr[t].next /\ th.pc = "acquire"
      /\ th.iter = iter /\ th.peek = peek /\ th.call = thr[t].call
  <2> HIDE DEF flag
  <2> QED BY <1>1 DEF Thread, Places
<1>4. Modest(th)
  <2> HIDE DEF th
  <2> QED BY <1>3 DEF Modest
<1> QED BY <1>2, <1>4 DEF Moves, TypeInv

LEMMA BlockAgainMoves ==
  ASSUME TypeInv, NEW t \in Threads, thr[t].next \in Follow,
         BlockAgain(t, thr[t].call)
  PROVE  Moves(t)
<1> DEFINE peek == thr[t].call \notin Timed
<1>1. thr[t] \in Thread /\ peek \in BOOLEAN
  BY DEF TypeInv
<1>2. PICK late \in IF thr[t].call \in Timed THEN {FALSE} ELSE {thr[t].late, TRUE} :
        thr' = [thr EXCEPT ![t].pc = "acquire", ![t].iter = "block",
                           ![t].peek = peek, ![t].write = FALSE, ![t].late = late]
  BY DEF BlockAgain
<1> DEFINE th == [thr[t] EXCEPT !.pc = "acquire", !.iter = "block", !.peek = peek,
                                !.write = FALSE, !.late = late]
<1>3. thr' = [thr EXCEPT ![t] = th]
  BY <1>2
<1>4. late \in BOOLEAN
  BY <1>1 DEF Thread
<1>5. /\ th \in Thread /\ th.next = thr[t].next /\ th.pc = "acquire"
      /\ th.iter = "block" /\ th.peek = peek /\ th.call = thr[t].call
  <2> HIDE DEF peek
  <2> QED BY <1>1, <1>4 DEF Thread, Places, Iterations
<1>6. Modest(th)
  <2> HIDE DEF th
  <2> QED BY <1>5 DEF Modest
<1> QED BY <1>3, <1>6 DEF Moves, TypeInv

LEMMA IterationReturnsMoves ==
  ASSUME TypeInv, NEW t \in Threads, IterationReturns(t)
  PROVE  Moves(t)
<1>1. thr[t].iter \in Iterations
  BY DEF TypeInv, Thread
<1>2. CASE thr[t].iter \in {"send", "readWatch", "writeWatch"}
  <2>1. StatusThen(t, "idle")
    BY <1>2 DEF IterationReturns
  <2> QED BY <2>1, StatusThenMoves DEF Follow
<1>3. CASE thr[t].iter = "flush"
  <2>1. GoOn(t, "flush")
    BY <1>3 DEF IterationReturns
  <2> QED BY <2>1, GoOnMoves
<1>4. CASE thr[t].iter = "block"
  <2>1. StatusThen(t, "recheck")
    BY <1>4 DEF IterationReturns
  <2> QED BY <2>1, StatusThenMoves DEF Follow
<1>5. CASE thr[t].iter = "readWrite"
  <2>1. GoOn(t, "idle")
    BY <1>5 DEF IterationReturns
  <2> QED BY <2>1, GoOnMoves DEF Follow
<1> QED BY <1>1, <1>2, <1>3, <1>4, <1>5 DEF Iterations

(* The place and a local variable of a thread change, and no more. *)
LEMMA MovesTo ==
  ASSUME TypeInv, NEW t \in Threads, NEW th, thr' = [thr EXCEPT ![t] = th],
         th \in Thread, th.next \in Follow,
         th.pc \notin {"acquire", "iterate", "poll", "fire", "drain"}
  PROVE  Moves(t)
BY DEF Moves, Modest, TypeInv

LEMMA GiveMoves ==
  ASSUME TypeInv, NEW t \in Threads, NEW c \in Calls \cup {NoCall},
         NEW next \in Follow, Give(t, c, next)
  PROVE  Moves(t)
<1> DEFINE th == [thr[t] EXCEPT !.pc = "finish", !.call = c, !.next = next]
<1>1. th \in Thread /\ th.next = next /\ th.pc = "finish"
  BY DEF TypeInv, Thread, Places, Follow
<1>2. thr' = [thr EXCEPT ![t] = th]
  BY DEF Give
<1> QED BY <1>1, <1>2, MovesTo

(* A thread that moves spoils nothing, as long as it takes the I/O path    *)
(* from nobody.                                                            *)
LEMMA MovesKeepsThreads ==
  ASSUME TypeInv, ThreadInv, NEW t \in Threads, Moves(t),
         \A s \in Threads : s # t /\ ioPath = s => ioPath' = s,
         disconnected => disconnected'
  PROVE  thr' \in [Threads -> Thread] /\ ThreadInv'
<1>1. /\ thr \in [Threads -> Thread] /\ thr'[t] \in Thread
      /\ thr' = [thr EXCEPT ![t] = thr'[t]]
  BY DEF TypeInv, Moves, Modest
<1>2. thr' \in [Threads -> Thread] /\ \A s \in Threads : s # t => thr'[s] = thr[s]
  BY <1>1
<1>3. ASSUME NEW s \in Threads, s # t PROVE PlaceInv(s)'
  <2>1. thr'[s] = thr[s] /\ PlaceInv(s)
    BY <1>2, <1>3 DEF ThreadInv
  <2> QED BY <1>3, <2>1 DEF PlaceInv
<1>4. PlaceInv(t)'
  BY DEF Moves, Modest, PlaceInv
<1> QED BY <1>2, <1>3, <1>4 DEF ThreadInv

(* ... and nobody sleeps over what is added to the queue meanwhile. *)
LEMMA MovesKeepsSleep ==
  ASSUME TypeInv, SleepInv, NEW t \in Threads, Moves(t),
         disconnected => disconnected',
         \A s \in Threads : (s # t /\ Sleeps(s) /\ ~disconnected') =>
           (Has(incoming', thr[s].call) => Has(incoming, thr[s].call))
  PROVE  SleepInv'
<1>1. \A s \in Threads : s # t => thr'[s] = thr[s]
  BY DEF TypeInv, Moves
<1>2. SUFFICES ASSUME NEW s \in Threads, Sleeps(s)', ~disconnected'
               PROVE  ~Has(incoming, thr[s].call)'
  BY DEF SleepInv
<1>3. s # t
  BY <1>2 DEF Moves, Modest, Sleeps
<1>4. Sleeps(s) /\ thr'[s] = thr[s] /\ ~disconnected
  BY <1>1, <1>2, <1>3 DEF Sleeps
<1>5. ~Has(incoming, thr[s].call)
  BY <1>4 DEF SleepInv
<1>6. Has(incoming', thr[s].call) => Has(incoming, thr[s].call)
  BY <1>2, <1>3, <1>4
<1> QED BY <1>4, <1>5, <1>6 DEF Has
----------------------------------------------------------------------------
(* What happens to the calls. *)

data == <<incoming, outgoing, pendingReplies, call, wire, peer>>

LEMMA UnchangedCalls ==
  ASSUME CallInv, UNCHANGED data
  PROVE  CallInv'
BY DEF CallInv, UnsentInv, TimerInv, HashInv, Has, data

(* A step that leaves the calls alone. *)
LEMMA QuietStep ==
  ASSUME ConnectionInv, NEW t \in Threads, Moves(t), UNCHANGED data,
         ioPath' \in Threads \cup {NoThread},
         \A s \in Threads : s # t /\ ioPath = s => ioPath' = s,
         disconnected => disconnected'
  PROVE  ConnectionInv'
<1>1. thr' \in [Threads -> Thread] /\ ThreadInv'
  BY MovesKeepsThreads DEF ConnectionInv
<1>2. TypeInv'
  BY <1>1 DEF ConnectionInv, TypeInv, data
<1>3. CallInv'
  BY UnchangedCalls DEF ConnectionInv
<1>4. SleepInv'
  BY MovesKeepsSleep DEF ConnectionInv, data
<1> QED BY <1>1, <1>2, <1>3, <1>4 DEF ConnectionInv

(* A step after which no thread is anywhere else. *)
LEMMA StillStep ==
  ASSUME ConnectionInv, UNCHANGED data, UNCHANGED <<thr, ioPath, disconnected>>
  PROVE  ConnectionInv'
<1>1. TypeInv'
  BY DEF ConnectionInv, TypeInv, data
<1>2. ThreadInv'
  BY DEF ConnectionInv, ThreadInv, PlaceInv
<1>3. CallInv'
  BY UnchangedCalls DEF ConnectionInv
<1>4. SleepInv'
  BY DEF ConnectionInv, SleepInv, Sleeps, Has, data
<1> QED BY <1>1, <1>2, <1>3, <1>4 DEF ConnectionInv

(* A call leaves the hash, and its timeout is not registered any more.  It *)
(* may be answered by its timeout error, once it was sent.                 *)
LEMMA ForgetKeepsCalls ==
  ASSUME TypeInv, CallInv, NEW c,
         call' \in [Calls -> PendingCall], pendingReplies' = pendingReplies \ {c},
         \A d \in Calls : d # c => call'[d] = call[d],
         c \in Calls => /\ ~call'[c].added /\ call'[c].sent = call[c].sent
                        /\ call'[c].link => call[c].link,
         \A y : Has(incoming', y) =>
                  Has(incoming, y) \/ (y = c /\ c \in Calls /\ call[c].sent),
         \A y : y # c /\ Has(incoming, y) => Has(incoming', y),
         UNCHANGED <<outgoing, wire, peer>>
  PROVE  CallInv'
<1> SUFFICES ASSUME NEW d \in Calls
             PROVE  UnsentInv(d)' /\ TimerInv(d)' /\ HashInv(d)'
  BY DEF CallInv
<1>1. UnsentInv(d) /\ TimerInv(d) /\ HashInv(d)
  BY DEF CallInv
<1>2. /\ Has(wire, d)' = Has(wire, d) /\ Has(outgoing, d)' = Has(outgoing, d)
      /\ Has(incoming, d)' = Has(incoming', d)
  BY DEF Has
<1>3. CASE d = c
  <2>1. UnsentInv(d)'
    BY <1>1, <1>2, <1>3 DEF UnsentInv
  <2>2. TimerInv(d)' /\ HashInv(d)'
    BY <1>3 DEF TimerInv, HashInv
  <2> QED BY <2>1, <2>2
<1>4. CASE d # c
  <2>1. call'[d] = call[d] /\ (Has(incoming', d) <=> Has(incoming, d))
    BY <1>4
  <2>2. d \in pendingReplies' <=> d \in pendingReplies
    BY <1>4
  <2> QED BY <1>1, <1>2, <2>1, <2>2 DEF UnsentInv, TimerInv, HashInv
<1> QED BY <1>3, <1>4

(* Messages are read and written. *)
LEMMA TransferKeepsCalls ==
  ASSUME TypeInv, CallInv, NEW n \in 0..Len(wire), NEW k \in 0..Len(outgoing),
         Transfer(n, k), pendingReplies' = pendingReplies
  PROVE  /\ incoming' \in Seq(Messages) /\ wire' \in Seq(Messages)
         /\ outgoing' \in Seq(Messages) /\ call' \in [Calls -> PendingCall]
         /\ CallInv'
<1>1. /\ incoming' \in Seq(Messages)
      /\ \A y : Has(incoming', y) <=> Has(incoming, y) \/ \E i \in 1..n : wire[i] = y
  BY HasRead DEF TypeInv, Transfer
<1>2. wire' \in Seq(Messages) /\ \A y : Has(wire', y) => Has(wire, y)
  BY HasRest DEF TypeInv, Transfer
<1>3. outgoing' \in Seq(Messages) /\ \A y : Has(outgoing', y) => Has(outgoing, y)
  BY HasRest DEF TypeInv, Transfer
<1>4. \A y : y \in peer' => y \in peer \/ Has(outgoing, y)
  <2>1. Len(outgoing) \in Nat
    BY LenProperties DEF TypeInv
  <2>2. \A i \in 1..k : i \in 1..Len(outgoing)
    BY <2>1
  <2> QED BY <2>2 DEF Transfer, Has
<1>5. \A y : (\E i \in 1..n : wire[i] = y) => Has(wire, y)
  <2>1. Len(wire) \in Nat
    BY LenProperties DEF TypeInv
  <2>2. \A i \in 1..n : i \in 1..Len(wire)
    BY <2>1
  <2> QED BY <2>2 DEF Has
<1>6. call' \in [Calls -> PendingCall]
  BY DEF TypeInv, Transfer, PendingCall
<1>7. ASSUME NEW d \in Calls
      PROVE  /\ call'[d].sent = call[d].sent /\ call'[d].link = call[d].link
             /\ call'[d].added <=>
                  call[d].added /\ ~(d \in pendingReplies /\ \E i \in 1..n : wire[i] = d)
  <2>1. call'[d] = IF d \in pendingReplies /\ \E i \in 1..n : wire[i] = d
                   THEN [call[d] EXCEPT !.added = FALSE] ELSE call[d]
    BY DEF Transfer
  <2> QED BY <2>1 DEF TypeInv, PendingCall
<1>8. ASSUME NEW d \in Calls PROVE UnsentInv(d)' /\ TimerInv(d)' /\ HashInv(d)'
  <2>1. UnsentInv(d) /\ TimerInv(d) /\ HashInv(d)
    BY DEF CallInv
  <2>2. /\ Has(wire, d)' = Has(wire', d) /\ Has(outgoing, d)' = Has(outgoing', d)
        /\ Has(incoming, d)' = Has(incoming', d)
    BY DEF Has
  <2>3. UnsentInv(d)'
    BY <1>1, <1>2, <1>3, <1>4, <1>5, <1>7, <2>1, <2>2 DEF UnsentInv
  <2>4. TimerInv(d)'
    BY <1>1, <1>7, <2>1, <2>2 DEF TimerInv
  <2>5. HashInv(d)'
    BY <1>1, <1>7, <2>1, <2>2 DEF HashInv
  <2> QED BY <2>3, <2>4, <2>5
<1> QED BY <1>1, <1>2, <1>3, <1>6, <1>8 DEF CallInv

(* Only the thread with the I/O path does it. *)
LEMMA TransferStep ==
  ASSUME ConnectionInv, NEW t \in Threads, ioPath = t, Moves(t),
         NEW reading \in BOOLEAN, DoIO(t, reading), ioPath' = NoThread,
         pendingReplies' = pendingReplies
  PROVE  ConnectionInv'
<1>1. \E n \in 0..Len(wire) : \E k \in 0..Len(outgoing) : Transfer(n, k)
  <2>1. Len(wire) \in Nat /\ Len(outgoing) \in Nat
    BY LenProperties DEF ConnectionInv, TypeInv
  <2> DEFINE live == ~disconnected
             eof(n) == live /\ reading /\ closed /\ n = Len(wire)
  <2>2. PICK n \in IF live /\ reading /\ wire # <<>> THEN 1..Len(wire) ELSE {0} :
        \E k \in IF live /\ thr[t].write /\ ~closed /\ ~eof(n)
                 THEN (IF thr[t].iter = "send" \/ outgoing = <<>> THEN 0 ELSE 1)
                      .. Len(outgoing)
                 ELSE {0} : Transfer(n, k)
    BY DEF DoIO
  <2>3. PICK k \in IF live /\ thr[t].write /\ ~closed /\ ~eof(n)
                   THEN (IF thr[t].iter = "send" \/ outgoing = <<>> THEN 0 ELSE 1)
                        .. Len(outgoing)
                   ELSE {0} : Transfer(n, k)
    BY <2>2
  <2>4. n \in 0..Len(wire)
    BY <2>1
  <2>5. k \in 0..Len(outgoing)
    BY <2>1
  <2> QED BY <2>3, <2>4, <2>5
<1>2. /\ incoming' \in Seq(Messages) /\ wire' \in Seq(Messages)
      /\ outgoing' \in Seq(Messages) /\ call' \in [Calls -> PendingCall]
      /\ CallInv'
  BY <1>1, TransferKeepsCalls DEF ConnectionInv
<1>3. disconnected => disconnected'
  BY DEF DoIO
<1>4. \A s \in Threads : s # t => ioPath # s
  OBVIOUS
<1>5. thr' \in [Threads -> Thread] /\ ThreadInv'
  BY <1>3, <1>4, MovesKeepsThreads DEF ConnectionInv
<1>6. TypeInv'
  BY <1>2, <1>5 DEF ConnectionInv, TypeInv
<1>7. \A s \in Threads : s # t => ~Sleeps(s)
  BY <1>4 DEF ConnectionInv, ThreadInv, PlaceInv, Sleeps
<1>8. SleepInv'
  BY <1>3, <1>7, MovesKeepsSleep DEF ConnectionInv
<1> QED BY <1>2, <1>5, <1>6, <1>8 DEF ConnectionInv

(* A thread takes a call out of the hash; the queue does not get longer,   *)
(* and loses no answer to another call.                                    *)
LEMMA ForgetStep ==
  ASSUME ConnectionInv, NEW t \in Threads, Moves(t), NEW c,
         call' \in [Calls -> PendingCall], pendingReplies' = pendingReplies \ {c},
         \A d \in Calls : d # c => call'[d] = call[d],
         c \in Calls => /\ ~call'[c].added /\ call'[c].sent = call[c].sent
                        /\ call'[c].link => call[c].link,
         incoming' \in Seq(Messages),
         \A y : Has(incoming', y) => Has(incoming, y),
         \A y : y # c /\ Has(incoming, y) => Has(incoming', y),
         UNCHANGED <<outgoing, wire, peer, ioPath, disconnected>>
  PROVE  ConnectionInv'
<1>1. CallInv'
  BY ForgetKeepsCalls DEF ConnectionInv
<1>2. thr' \in [Threads -> Thread] /\ ThreadInv'
  BY MovesKeepsThreads DEF ConnectionInv
<1>3. TypeInv'
  BY <1>2 DEF ConnectionInv, TypeInv
<1>4. SleepInv'
  BY MovesKeepsSleep DEF ConnectionInv
<1> QED BY <1>1, <1>2, <1>3, <1>4 DEF ConnectionInv

(* complete_pending_call_and_unlock is one such step. *)
LEMMA GiveStep ==
  ASSUME ConnectionInv, NEW t \in Threads, NEW c \in Calls \cup {NoCall},
         NEW next \in Follow, Give(t, c, next),
         incoming' \in Seq(Messages),
         \A y : Has(incoming', y) => Has(incoming, y),
         \A y : y # c /\ Has(incoming, y) => Has(incoming', y),
         UNCHANGED <<outgoing, wire, peer, ioPath, disconnected>>
  PROVE  ConnectionInv'
<1>1. Moves(t)
  BY GiveMoves DEF ConnectionInv
<1>2. call' = [call EXCEPT ![c].added = FALSE] /\ pendingReplies' = pendingReplies \ {c}
  BY DEF Give
<1>3. call \in [Calls -> PendingCall]
  BY DEF ConnectionInv, TypeInv
<1>4. call' \in [Calls -> PendingCall]
  BY <1>2, <1>3 DEF PendingCall
<1>5. \A d \in Calls : d # c => call'[d] = call[d]
  BY <1>2, <1>3
<1>6. c \in Calls => /\ ~call'[c].added /\ call'[c].sent = call[c].sent
                     /\ call'[c].link => call[c].link
  BY <1>2, <1>3 DEF PendingCall
<1> QED BY <1>1, <1>2, <1>4, <1>5, <1>6, ForgetStep

LEMMA GiveTimeoutStep ==
  ASSUME ConnectionInv, NEW t \in Threads, NEW c \in Calls \cup {NoCall},
         thr[t].call = c, GiveTimeout(t, c),
         UNCHANGED <<incoming, outgoing, wire, peer, ioPath, disconnected>>
  PROVE  ConnectionInv'
<1>1. CASE ~call[c].link
  BY <1>1, StillStep DEF GiveTimeout, data
<1>2. CASE call[c].link
  <2>1. /\ call' = [call EXCEPT ![c].added = FALSE, ![c].link = FALSE]
        /\ pendingReplies' = pendingReplies \ {c}
        /\ thr' = [thr EXCEPT ![t].pc = "finish", ![t].next = "status"]
    BY <1>2 DEF GiveTimeout
  <2>2. Moves(t)
    <3> DEFINE th == [thr[t] EXCEPT !.pc = "finish", !.next = "status"]
    <3>1. th \in Thread /\ th.next = "status" /\ th.pc = "finish"
      BY DEF ConnectionInv, TypeInv, Thread, Places
    <3>2. thr' = [thr EXCEPT ![t] = th]
      BY <2>1
    <3> QED BY <3>1, <3>2, MovesTo DEF ConnectionInv, Follow
  <2>3. call \in [Calls -> PendingCall] /\ incoming \in Seq(Messages)
    BY DEF ConnectionInv, TypeInv
  <2> DEFINE new == [call[c] EXCEPT !.added = FALSE, !.link = FALSE]
  <2>4. c \in Calls => /\ new \in PendingCall
                       /\ ~new.added /\ ~new.link /\ new.sent = call[c].sent
    <3> DEFINE old == call[c]
    <3>1. c \in Calls => old \in PendingCall
      BY <2>3
    <3> HIDE DEF old
    <3>2. c \in Calls => /\ [old EXCEPT !.added = FALSE, !.link = FALSE] \in PendingCall
                         /\ ~[old EXCEPT !.added = FALSE, !.link = FALSE].added
                         /\ ~[old EXCEPT !.added = FALSE, !.link = FALSE].link
                         /\ [old EXCEPT !.added = FALSE, !.link = FALSE].sent = old.sent
      BY <3>1 DEF PendingCall
    <3> QED BY <3>2 DEF old
  <2>5. call' = [call EXCEPT ![c] = new]
    BY <2>1, <2>3
  <2> HIDE DEF new
  <2>6. /\ call' \in [Calls -> PendingCall]
        /\ \A d \in Calls : d # c => call'[d] = call[d]
        /\ c \in Calls => /\ ~call'[c].added /\ call'[c].sent = call[c].sent
                          /\ call'[c].link => call[c].link
    BY <2>3, <2>4, <2>5
  <2>7. /\ incoming' \in Seq(Messages)
        /\ \A y : Has(incoming', y) <=> Has(incoming, y)
    BY <2>3
  <2>8. pendingReplies' = pendingReplies \ {c}
    BY <2>1
  <2> QED BY ONLY ConnectionInv, t \in Threads, <2>2, <2>6, <2>7, <2>8, ForgetStep,
             UNCHANGED <<outgoing, wire, peer, ioPath, disconnected>>
<1> QED BY <1>1, <1>2
----------------------------------------------------------------------------
(* One lemma for each step of a thread that is inside libdbus. *)

LEMMA AcquireIOPathStep ==
  ASSUME ConnectionInv, NEW t \in Threads, AcquireIOPath(t)
  PROVE  ConnectionInv'
<1>1. /\ thr[t].pc = "acquire" /\ ioPath = NoThread /\ ioPath' = t
      /\ thr' = [thr EXCEPT ![t].pc = "iterate"]
      /\ UNCHANGED data /\ UNCHANGED disconnected
  BY DEF AcquireIOPath, At, data
<1>2. thr \in [Threads -> Thread]
  BY DEF ConnectionInv, TypeInv
<1>3. /\ thr' \in [Threads -> Thread]
      /\ thr'[t] = [thr[t] EXCEPT !.pc = "iterate"]
      /\ \A s \in Threads : s # t => thr'[s] = thr[s]
  BY <1>1, <1>2 DEF Thread, Places
<1>4. /\ thr'[t].pc = "iterate" /\ thr'[t].next = thr[t].next
      /\ thr'[t].iter = thr[t].iter /\ thr'[t].peek = thr[t].peek
      /\ thr'[t].call = thr[t].call
  BY <1>2, <1>3 DEF Thread
<1>5. TypeInv'
  BY <1>1, <1>3 DEF ConnectionInv, TypeInv, data
<1>6. ThreadInv'
  <2>1. \A s \in Threads : ioPath # s
    BY <1>1, ConnectionAssumption
  <2>2. PlaceInv(t)'
    BY <1>1, <1>4 DEF ConnectionInv, ThreadInv, PlaceInv
  <2>3. ASSUME NEW s \in Threads, s # t PROVE PlaceInv(s)'
    BY <1>1, <1>3, <2>1, <2>3 DEF ConnectionInv, ThreadInv, PlaceInv
  <2> QED BY <2>2, <2>3 DEF ThreadInv
<1>7. CallInv'
  BY <1>1, UnchangedCalls DEF ConnectionInv
<1>8. SleepInv'
  BY <1>1, <1>3, <1>4 DEF ConnectionInv, SleepInv, Sleeps, Has, data
<1> QED BY <1>5, <1>6, <1>7, <1>8 DEF ConnectionInv

LEMMA GiveUpIOPathStep ==
  ASSUME ConnectionInv, NEW t \in Threads, GiveUpIOPath(t)
  PROVE  ConnectionInv'
<1>1. UNCHANGED data /\ UNCHANGED <<ioPath, disconnected>>
  BY DEF GiveUpIOPath, data
<1>2. Moves(t)
  <2>1. CASE thr[t].iter \in {"readWatch", "writeWatch"}
    BY <2>1, IdleIsModest DEF GiveUpIOPath, Moves, ConnectionInv, TypeInv
  <2>2. CASE thr[t].iter = "block"
    <3>1. PICK late \in {thr[t].late, TRUE} :
            thr' = [thr EXCEPT ![t] = [Frame(@, "status", "recheck") EXCEPT !.late = late]]
      BY <2>2 DEF GiveUpIOPath
    <3> DEFINE f == Frame(thr[t], "status", "recheck")
               th == [f EXCEPT !.late = late]
    <3>2. Modest(f)
      BY FrameIsModest DEF ConnectionInv, TypeInv, Places, Follow
    <3>3. late \in BOOLEAN
      BY DEF ConnectionInv, TypeInv, Thread
    <3>4. f.pc = "status" /\ f.next = "recheck"
      BY DEF ConnectionInv, TypeInv, Thread, Frame
    <3>5. thr' = [thr EXCEPT ![t] = th]
      BY <3>1 DEF ConnectionInv, TypeInv
    <3>6. th \in Thread /\ th.pc = "status" /\ th.next = "recheck"
      <4> HIDE DEF f
      <4> QED BY <3>2, <3>3, <3>4 DEF Modest, Thread
    <3> HIDE DEF th
    <3> QED BY <3>5, <3>6, MovesTo DEF ConnectionInv, Follow
  <2>3. CASE thr[t].iter \notin {"readWatch", "writeWatch", "block"}
    <3>1. IterationReturns(t)
      BY <2>3 DEF GiveUpIOPath
    <3> QED BY <3>1, IterationReturnsMoves DEF ConnectionInv
  <2> QED BY <2>1, <2>2, <2>3
<1>3. ioPath' \in Threads \cup {NoThread}
  BY <1>1 DEF ConnectionInv, TypeInv
<1> QED BY <1>1, <1>2, <1>3, QuietStep

LEMMA IterateStep ==
  ASSUME ConnectionInv, NEW t \in Threads, Iterate(t)
  PROVE  ConnectionInv'
<1>1. thr[t].pc = "iterate" /\ ioPath = t /\ pendingReplies' = pendingReplies
  BY DEF Iterate, At, ConnectionInv, ThreadInv, PlaceInv
<1>2. \A s \in Threads : s # t => ioPath # s
  BY <1>1
<1>3. CASE NothingToDo(t)
  <2>1. /\ IterationReturns(t) /\ ioPath' = NoThread
        /\ UNCHANGED <<incoming, outgoing, call, wire, peer, disconnected>>
    BY <1>3 DEF Iterate
  <2>2. Moves(t)
    BY <2>1, IterationReturnsMoves DEF ConnectionInv
  <2>3. UNCHANGED data
    BY <1>1, <2>1 DEF data
  <2> QED BY <1>2, <2>1, <2>2, <2>3, QuietStep
<1>4. CASE ~NothingToDo(t) /\ thr[t].iter \in {"flush", "block", "readWrite"}
  <2>1. /\ thr' = [thr EXCEPT ![t].pc = "poll"]
        /\ UNCHANGED data /\ UNCHANGED <<disconnected, ioPath>>
    BY <1>1, <1>4 DEF Iterate, data
  <2>2. thr \in [Threads -> Thread]
    BY DEF ConnectionInv, TypeInv
  <2>3. /\ thr' \in [Threads -> Thread]
        /\ thr'[t] = [thr[t] EXCEPT !.pc = "poll"]
        /\ \A s \in Threads : s # t => thr'[s] = thr[s]
    BY <2>1, <2>2 DEF Thread, Places
  <2>4. /\ thr'[t].pc = "poll" /\ thr'[t].next = thr[t].next
        /\ thr'[t].iter = thr[t].iter /\ thr'[t].peek = thr[t].peek
        /\ thr'[t].call = thr[t].call
    BY <2>2, <2>3 DEF Thread
  <2>5. TypeInv'
    BY <2>1, <2>3 DEF ConnectionInv, TypeInv, data
  <2>6. ThreadInv'
    <3>1. PlaceInv(t)'
      BY <1>1, <2>1, <2>4 DEF ConnectionInv, ThreadInv, PlaceInv
    <3>2. ASSUME NEW s \in Threads, s # t PROVE PlaceInv(s)'
      BY <2>1, <2>3, <3>2 DEF ConnectionInv, ThreadInv, PlaceInv
    <3> QED BY <3>1, <3>2 DEF ThreadInv
  <2>7. CallInv'
    BY <2>1, UnchangedCalls DEF ConnectionInv
  <2>8. SleepInv'
    <3> SUFFICES ASSUME NEW s \in Threads, Sleeps(s)', ~disconnected'
                 PROVE  ~Has(incoming, thr[s].call)'
      BY DEF SleepInv
    <3>1. CASE s = t
      <4>1. thr[t].peek
        BY <1>1, <2>4, <3>1 DEF Sleeps, ConnectionInv, ThreadInv, PlaceInv
      <4>2. ~Has(incoming, thr[t].call)
        BY <1>4, <4>1, AnswersAreHad DEF NothingToDo
      <4> QED BY <2>1, <2>4, <3>1, <4>2 DEF Has, data
    <3>2. CASE s # t
      <4>1. Sleeps(s) /\ thr'[s] = thr[s] /\ ~disconnected
        BY <2>1, <2>3, <3>2 DEF Sleeps
      <4> QED BY <2>1, <4>1 DEF ConnectionInv, SleepInv, Has, data
    <3> QED BY <3>1, <3>2
  <2> QED BY <2>5, <2>6, <2>7, <2>8 DEF ConnectionInv
<1>5. CASE ~NothingToDo(t) /\ thr[t].iter \notin {"flush", "block", "readWrite"}
  <2>1. DoIO(t, Reads(t)) /\ IterationReturns(t) /\ ioPath' = NoThread
    BY <1>5 DEF Iterate
  <2>2. Moves(t)
    BY <2>1, IterationReturnsMoves DEF ConnectionInv
  <2>3. Reads(t) \in BOOLEAN
    BY DEF Reads
  <2> QED BY <1>1, <2>1, <2>2, <2>3, TransferStep
<1> QED BY <1>3, <1>4, <1>5

LEMMA PollReturnsStep ==
  ASSUME ConnectionInv, NEW t \in Threads, PollReturns(t)
  PROVE  ConnectionInv'
<1>1. /\ ioPath = t /\ DoIO(t, Readable) /\ IterationReturns(t) /\ ioPath' = NoThread
      /\ pendingReplies' = pendingReplies
  BY DEF PollReturns, At, ConnectionInv, ThreadInv, PlaceInv
<1>2. Moves(t)
  BY <1>1, IterationReturnsMoves DEF ConnectionInv
<1>3. (Readable) \in BOOLEAN
  <2>1. (wire # <<>> \/ closed) \in BOOLEAN
    OBVIOUS
  <2> QED BY <2>1 DEF Readable
<1> QED BY <1>1, <1>2, <1>3, TransferStep

LEMMA PollTimesOutStep ==
  ASSUME ConnectionInv, NEW t \in Threads, PollTimesOut(t)
  PROVE  ConnectionInv'
<1>1. ioPath = t /\ ioPath' = NoThread /\ UNCHANGED data /\ UNCHANGED disconnected
  BY DEF PollTimesOut, At, ConnectionInv, ThreadInv, PlaceInv, data
<1>2. Moves(t)
  <2>1. CASE thr[t].iter = "block"
    <3>1. thr' = [thr EXCEPT ![t] = [Frame(@, "status", "recheck") EXCEPT !.late = TRUE]]
      BY <2>1 DEF PollTimesOut
    <3> DEFINE f == Frame(thr[t], "status", "recheck")
               th == [f EXCEPT !.late = TRUE]
    <3>2. Modest(f)
      BY FrameIsModest DEF ConnectionInv, TypeInv, Places, Follow
    <3>4. f.pc = "status" /\ f.next = "recheck"
      BY DEF ConnectionInv, TypeInv, Thread, Frame
    <3>5. thr' = [thr EXCEPT ![t] = th]
      BY <3>1 DEF ConnectionInv, TypeInv
    <3>6. th \in Thread /\ th.pc = "status" /\ th.next = "recheck"
      <4> HIDE DEF f
      <4> QED BY <3>2, <3>4 DEF Modest, Thread
    <3> HIDE DEF th
    <3> QED BY <3>5, <3>6, MovesTo DEF ConnectionInv, Follow
  <2>2. CASE thr[t].iter # "block"
    <3>1. IterationReturns(t)
      BY <2>2 DEF PollTimesOut
    <3> QED BY <3>1, IterationReturnsMoves DEF ConnectionInv
  <2> QED BY <2>1, <2>2
<1>3. \A s \in Threads : s # t => ioPath # s
  BY <1>1
<1> QED BY <1>1, <1>2, <1>3, QuietStep
(* A thread goes to a place that says something about the connection; only  *)
(* the queue of what is to be written may be emptied.                       *)
LEMMA OneThreadChanges ==
  ASSUME ConnectionInv, NEW t \in Threads, NEW th \in Thread,
         thr' = [thr EXCEPT ![t] = th], th.next \in Follow,
         th.pc \notin {"acquire", "iterate", "poll"},
         th.pc = "fire" => th.call \in Timed,
         th.pc = "drain" => disconnected,
         outgoing' \in {outgoing, <<>>},
         UNCHANGED <<incoming, pendingReplies, call, wire, peer, ioPath, disconnected>>
  PROVE  ConnectionInv'
<1>1. /\ thr' \in [Threads -> Thread] /\ thr'[t] = th
      /\ \A s \in Threads : s # t => thr'[s] = thr[s]
  BY DEF ConnectionInv, TypeInv
<1>2. <<>> \in Seq(Messages) /\ \A x : ~Has(<<>>, x)
  BY EmptySeq DEF Has
<1>3. TypeInv'
  BY <1>1, <1>2 DEF ConnectionInv, TypeInv
<1>4. ThreadInv'
  <2>1. PlaceInv(t)'
    BY <1>1 DEF PlaceInv
  <2>2. ASSUME NEW s \in Threads, s # t PROVE PlaceInv(s)'
    BY <1>1, <2>2 DEF ConnectionInv, ThreadInv, PlaceInv
  <2> QED BY <2>1, <2>2 DEF ThreadInv
<1>5. CallInv'
  <2>1. ASSUME NEW d \in Calls PROVE UnsentInv(d)' /\ TimerInv(d)' /\ HashInv(d)'
    <3>1. Has(outgoing', d) => Has(outgoing, d)
      BY <1>2
    <3>2. UnsentInv(d) /\ TimerInv(d) /\ HashInv(d)
      BY DEF ConnectionInv, CallInv
    <3>3. /\ Has(wire, d)' = Has(wire, d) /\ Has(incoming, d)' = Has(incoming, d)
          /\ Has(outgoing, d)' = Has(outgoing', d)
      BY DEF Has
    <3> QED BY <3>1, <3>2, <3>3 DEF UnsentInv, TimerInv, HashInv
  <2> QED BY <2>1 DEF CallInv
<1>6. SleepInv'
  <2> SUFFICES ASSUME NEW s \in Threads, Sleeps(s)', ~disconnected'
               PROVE  ~Has(incoming, thr[s].call)'
    BY DEF SleepInv
  <2>1. s # t
    BY <1>1 DEF Sleeps
  <2> QED BY <1>1, <2>1 DEF ConnectionInv, SleepInv, Sleeps, Has
<1> QED BY <1>3, <1>4, <1>5, <1>6 DEF ConnectionInv

(* Moves, in the same words. *)
LEMMA MovingStep ==
  ASSUME ConnectionInv, NEW t \in Threads, Moves(t), UNCHANGED data,
         UNCHANGED <<ioPath, disconnected>>
  PROVE  ConnectionInv'
<1>1. ioPath' \in Threads \cup {NoThread}
  BY DEF ConnectionInv, TypeInv
<1> QED BY <1>1, QuietStep

LEMMA GetDispatchStatusStep ==
  ASSUME ConnectionInv, NEW t \in Threads, GetDispatchStatus(t)
  PROVE  ConnectionInv'
<1>1. /\ UNCHANGED <<incoming, pendingReplies, call, wire, peer, ioPath, disconnected>>
      /\ thr[t] \in Thread /\ thr[t].next \in Follow
  BY DEF GetDispatchStatus, ConnectionInv, TypeInv, ThreadInv, PlaceInv
<1>2. CASE incoming # <<>> \/ ~disconnected
  <2>1. GoOn(t, thr[t].next) /\ outgoing' = outgoing
    BY <1>2 DEF GetDispatchStatus
  <2>2. Moves(t)
    BY <1>1, <2>1, GoOnMoves DEF ConnectionInv
  <2> QED BY <1>1, <2>1, <2>2, MovingStep DEF data
<1>3. CASE ~(incoming # <<>> \/ ~disconnected)
  <2>1. outgoing' = <<>> /\ disconnected
    BY <1>3 DEF GetDispatchStatus
  <2>2. CASE discLink
    <3> DEFINE th == [thr[t] EXCEPT !.pc = "drain"]
    <3>1. thr' = [thr EXCEPT ![t] = th]
      BY <1>3, <2>2 DEF GetDispatchStatus
    <3>2. th \in Thread /\ th.pc = "drain" /\ th.next = thr[t].next
      BY <1>1 DEF Thread, Places
    <3> HIDE DEF th
    <3> QED BY <1>1, <2>1, <3>1, <3>2, OneThreadChanges
  <2>3. CASE ~discLink
    <3>1. GoOn(t, thr[t].next)
      BY <1>3, <2>3 DEF GetDispatchStatus
    <3>2. Moves(t)
      BY <1>1, <3>1, GoOnMoves DEF ConnectionInv
    <3>3. /\ thr' = [thr EXCEPT ![t] = thr'[t]] /\ thr'[t] \in Thread
          /\ thr'[t].next \in Follow
          /\ thr'[t].pc \notin {"iterate", "poll", "fire", "drain"}
      BY <3>2 DEF Moves, Modest
    <3>4. thr'[t].pc # "acquire"
      <4>1. CASE thr[t].next = "idle"
        <5>1. thr'[t] = Idle
          BY <3>1, <4>1 DEF GoOn, ConnectionInv, TypeInv
        <5> QED BY <5>1 DEF Idle
      <4>2. CASE thr[t].next # "idle"
        <5>1. thr'[t] = Frame(thr[t], thr[t].next, "idle")
          BY <3>1, <4>2 DEF GoOn, ConnectionInv, TypeInv
        <5>2. thr'[t].pc = thr[t].next
          BY <1>1, <5>1 DEF Frame, Thread
        <5> QED BY <1>1, <5>2 DEF Follow
      <4> QED BY <4>1, <4>2
    <3> QED BY <1>1, <2>1, <3>3, <3>4, OneThreadChanges
  <2> QED BY <2>2, <2>3
<1> QED BY <1>2, <1>3

LEMMA DrainOneStep ==
  ASSUME ConnectionInv, NEW t \in Threads, NEW c \in Calls, DrainOne(t, c)
  PROVE  ConnectionInv'
<1>1. /\ incoming' = IF call[c].link THEN Append(incoming, c) ELSE incoming
      /\ call' = [call EXCEPT ![c].link = FALSE, ![c].added = FALSE]
      /\ pendingReplies' = pendingReplies \ {c}
      /\ UNCHANGED <<outgoing, disconnected, ioPath, thr, wire, peer>>
  BY DEF DrainOne
<1>2. disconnected
  BY DEF DrainOne, At, ConnectionInv, ThreadInv, PlaceInv
<1>3. call \in [Calls -> PendingCall] /\ incoming \in Seq(Messages)
  BY DEF ConnectionInv, TypeInv
<1>4. call' \in [Calls -> PendingCall]
  BY <1>1, <1>3 DEF PendingCall
<1>5. \A d \in Calls : d # c => call'[d] = call[d]
  BY <1>1, <1>3
<1>6. /\ ~call'[c].added /\ call'[c].sent = call[c].sent
      /\ call'[c].link => call[c].link
  BY <1>1, <1>3 DEF PendingCall
<1>7. call[c].link => call[c].sent
  BY DEF ConnectionInv, CallInv, UnsentInv
<1>8. /\ incoming' \in Seq(Messages)
      /\ \A y : Has(incoming', y) => Has(incoming, y) \/ (y = c /\ call[c].sent)
      /\ \A y : y # c /\ Has(incoming, y) => Has(incoming', y)
  <2>1. c \in Messages
    BY DEF Messages
  <2>2. /\ Append(incoming, c) \in Seq(Messages)
        /\ \A y : Has(Append(incoming, c), y) <=> Has(incoming, y) \/ y = c
    BY <1>3, <2>1, HasAppend
  <2> QED BY <1>1, <1>3, <1>7, <2>2
<1>9. CallInv'
  BY <1>1, <1>4, <1>5, <1>6, <1>8, ForgetKeepsCalls DEF ConnectionInv
<1>10. TypeInv'
  BY <1>1, <1>4, <1>8 DEF ConnectionInv, TypeInv
<1>11. ThreadInv'
  BY <1>1 DEF ConnectionInv, ThreadInv, PlaceInv
<1>12. SleepInv'
  BY <1>1, <1>2 DEF SleepInv
<1> QED BY <1>9, <1>10, <1>11, <1>12 DEF ConnectionInv

LEMMA DrainEndStep ==
  ASSUME ConnectionInv, NEW t \in Threads, DrainEnd(t)
  PROVE  ConnectionInv'
<1>1. /\ UNCHANGED <<outgoing, pendingReplies, disconnected, ioPath, call, wire, peer>>
      /\ disconnected
  BY DEF DrainEnd, At, ConnectionInv, ThreadInv, PlaceInv
<1>2. CASE ~discLink
  <2>1. UNCHANGED data /\ UNCHANGED thr
    BY <1>1, <1>2 DEF DrainEnd, data
  <2> QED BY <1>1, <2>1, StillStep
<1>3. CASE discLink
  <2>1. incoming' = Append(incoming, Disconnected) /\ GoOn(t, thr[t].next)
    BY <1>3 DEF DrainEnd
  <2>2. thr[t].next \in Follow
    BY DEF ConnectionInv, ThreadInv, PlaceInv
  <2>3. Moves(t)
    BY <2>1, <2>2, GoOnMoves DEF ConnectionInv
  <2>4. /\ incoming' \in Seq(Messages)
        /\ \A y : Has(incoming', y) <=> Has(incoming, y) \/ y = Disconnected
    <3>1. Disconnected \in Messages /\ incoming \in Seq(Messages)
      BY DEF Messages, ConnectionInv, TypeInv
    <3> QED BY <2>1, <3>1, HasAppend
  <2>5. CallInv'
    <3>1. ASSUME NEW d \in Calls PROVE UnsentInv(d)' /\ TimerInv(d)' /\ HashInv(d)'
      <4>1. Has(incoming', d) <=> Has(incoming, d)
        BY <2>4, ConnectionAssumption
      <4>2. UnsentInv(d) /\ TimerInv(d) /\ HashInv(d)
        BY DEF ConnectionInv, CallInv
      <4>3. /\ Has(wire, d)' = Has(wire, d) /\ Has(outgoing, d)' = Has(outgoing, d)
            /\ Has(incoming, d)' = Has(incoming', d)
        BY <1>1 DEF Has
      <4> QED BY <1>1, <4>1, <4>2, <4>3 DEF UnsentInv, TimerInv, HashInv
    <3> QED BY <3>1 DEF CallInv
  <2>6. thr' \in [Threads -> Thread] /\ ThreadInv'
    BY <1>1, <2>3, MovesKeepsThreads DEF ConnectionInv
  <2>7. TypeInv'
    BY <1>1, <2>4, <2>6 DEF ConnectionInv, TypeInv
  <2>8. SleepInv'
    BY <1>1 DEF SleepInv
  <2> QED BY <2>5, <2>6, <2>7, <2>8 DEF ConnectionInv
<1> QED BY <1>2, <1>3

(* Only the number of completions changes. *)
LEMMA FinishStep ==
  ASSUME ConnectionInv, NEW t \in Threads, Finish(t)
  PROVE  ConnectionInv'
<1> DEFINE c == thr[t].call
<1>1. /\ call' = [call EXCEPT ![c].completions = IF @ < 2 THEN @ + 1 ELSE @]
      /\ UNCHANGED <<incoming, outgoing, pendingReplies, disconnected, ioPath, wire, peer>>
  BY DEF Finish
<1>2. thr[t] \in Thread /\ thr[t].next \in Follow /\ call \in [Calls -> PendingCall]
  BY DEF ConnectionInv, TypeInv, ThreadInv, PlaceInv
<1>3. Moves(t)
  <2>1. thr' = [thr EXCEPT ![t] =
          CASE @.next = "status" -> [@ EXCEPT !.pc = "status", !.next = "idle"]
            [] @.next = "idle"   -> Idle
            [] OTHER             -> [@ EXCEPT !.pc = thr[t].next]]
    BY DEF Finish
  <2>2. CASE thr[t].next = "status"
    <3> DEFINE th == [thr[t] EXCEPT !.pc = "status", !.next = "idle"]
    <3>1. thr' = [thr EXCEPT ![t] = th]
      BY <2>1, <2>2 DEF ConnectionInv, TypeInv
    <3>2. th \in Thread /\ th.pc = "status" /\ th.next = "idle"
      BY <1>2 DEF Thread, Places
    <3> HIDE DEF th
    <3> QED BY <3>1, <3>2, MovesTo DEF ConnectionInv, Follow
  <2>3. CASE thr[t].next = "idle"
    <3>1. thr' = [thr EXCEPT ![t] = Idle]
      BY <2>1, <2>3 DEF ConnectionInv, TypeInv
    <3> QED BY <3>1, IdleIsModest DEF Moves, ConnectionInv, TypeInv
  <2>4. CASE thr[t].next # "status" /\ thr[t].next # "idle"
    <3> DEFINE th == [thr[t] EXCEPT !.pc = thr[t].next]
    <3>1. thr' = [thr EXCEPT ![t] = th]
      BY <2>1, <2>4 DEF ConnectionInv, TypeInv
    <3>2. th \in Thread /\ th.pc = thr[t].next /\ th.next = thr[t].next
      BY <1>2 DEF Thread, Places, Follow
    <3>3. thr[t].next \notin {"acquire", "iterate", "poll", "fire", "drain"}
      BY <1>2 DEF Follow
    <3> HIDE DEF th
    <3> QED BY <1>2, <3>1, <3>2, <3>3, MovesTo DEF ConnectionInv
  <2> QED BY <2>2, <2>3, <2>4
<1>4. call' \in [Calls -> PendingCall]
  <2>1. ASSUME NEW d \in Calls PROVE call'[d] \in PendingCall
    <3>1. call[d] \in PendingCall
      BY <1>2
    <3>2. CASE d # c
      BY <1>1, <1>2, <3>1, <3>2
    <3>3. CASE d = c
      <4> DEFINE n == IF call[d].completions < 2 THEN call[d].completions + 1
                      ELSE call[d].completions
      <4>1. call'[d] = [call[d] EXCEPT !.completions = n]
        BY <1>1, <1>2, <3>3
      <4>2. n \in 0..2
        BY <3>1 DEF PendingCall
      <4> HIDE DEF n
      <4> QED BY <3>1, <4>1, <4>2 DEF PendingCall
    <3> QED BY <3>2, <3>3
  <2>2. DOMAIN call' = Calls /\ call' = [d \in DOMAIN call' |-> call'[d]]
    BY <1>1, <1>2
  <2> QED BY <2>1, <2>2
<1>5. \A d \in Calls : /\ call'[d].sent = call[d].sent /\ call'[d].link = call[d].link
                       /\ call'[d].added = call[d].added
  BY <1>1, <1>2 DEF PendingCall
<1>6. CallInv'
  <2>1. ASSUME NEW d \in Calls PROVE UnsentInv(d)' /\ TimerInv(d)' /\ HashInv(d)'
    <3>1. UnsentInv(d) /\ TimerInv(d) /\ HashInv(d)
      BY DEF ConnectionInv, CallInv
    <3>2. /\ Has(wire, d)' = Has(wire, d) /\ Has(outgoing, d)' = Has(outgoing, d)
          /\ Has(incoming, d)' = Has(incoming, d)
      BY <1>1 DEF Has
    <3>3. /\ call'[d].sent = call[d].sent /\ call'[d].link = call[d].link
          /\ call'[d].added = call[d].added
      BY <1>5
    <3> QED BY <1>1, <3>1, <3>2, <3>3 DEF UnsentInv, TimerInv, HashInv
  <2> QED BY <2>1 DEF CallInv
<1>7. thr' \in [Threads -> Thread] /\ ThreadInv'
  BY <1>1, <1>3, MovesKeepsThreads DEF ConnectionInv
<1>8. TypeInv'
  BY <1>1, <1>4, <1>7 DEF ConnectionInv, TypeInv
<1>9. SleepInv'
  BY <1>1, <1>3, MovesKeepsSleep DEF ConnectionInv
<1> QED BY <1>6, <1>7, <1>8, <1>9 DEF ConnectionInv

LEMMA LeastOf ==
  ASSUME NEW T, T \subseteq Nat, T # {}
  PROVE  \E k \in T : \A j \in T : k <= j
<1> DEFINE R == {p \in Nat \X Nat : p[1] < p[2]}
<1>1. IsWellFoundedOn(R, Nat)
  BY NatLessThanWellFounded DEF OpToRel
<1> HIDE DEF R
<1>2. PICK k \in T : \A j \in T : ~ (<<j, k>> \in R)
  BY <1>1, WFMin
<1>3. ASSUME NEW j \in T PROVE k <= j
  <2>1. k \in Nat /\ j \in Nat
    OBVIOUS
  <2>2. ~ (j < k)
    BY <1>2, <2>1 DEF R
  <2> QED BY <2>1, <2>2
<1> QED BY <1>3

(* check_for_reply_unlocked *)
LEMMA TakeAnswerStep ==
  ASSUME ConnectionInv, NEW t \in Threads, NEW c \in Calls \cup {NoCall},
         Answers(c) # {}, TakeAnswer(t, c),
         UNCHANGED <<outgoing, wire, peer, ioPath, disconnected>>
  PROVE  ConnectionInv'
<1> DEFINE i == FirstAnswer(c)
<1>1. Len(incoming) \in Nat /\ incoming \in Seq(Messages)
  BY LenProperties DEF ConnectionInv, TypeInv
<1>2. i \in 1..Len(incoming) /\ incoming[i] = c
  <2>1. \E k \in Answers(c) : \A j \in Answers(c) : k <= j
    <3>1. Answers(c) \subseteq Nat
      BY <1>1 DEF Answers
    <3>2. PICK m \in Answers(c) : TRUE
      OBVIOUS
    <3> QED BY <3>1, <3>2, LeastOf
  <2>2. i \in Answers(c)
    BY <2>1 DEF FirstAnswer
  <2> QED BY <2>2 DEF Answers
<1> HIDE DEF i
<1>3. /\ incoming' = SubSeq(incoming, 1, i - 1) \o SubSeq(incoming, i + 1, Len(incoming))
      /\ Give(t, c, "status")
  BY DEF TakeAnswer, i
<1>4. /\ incoming' \in Seq(Messages)
      /\ \A y : Has(incoming', y) => Has(incoming, y)
      /\ \A y : y # incoming[i] /\ Has(incoming, y) => Has(incoming', y)
  BY <1>1, <1>2, <1>3, HasCut
<1>5. "status" \in Follow
  BY DEF Follow
<1> QED BY <1>2, <1>3, <1>4, <1>5, GiveStep
LEMMA FlushStep ==
  ASSUME ConnectionInv, NEW t \in Threads, Flush(t)
  PROVE  ConnectionInv'
<1>1. UNCHANGED data /\ UNCHANGED <<ioPath, disconnected>>
  BY DEF Flush, data
<1>2. Moves(t)
  <2>1. CASE outgoing # <<>> /\ ~disconnected
    <3>1. IterateThen(t, "flush", FALSE)
      BY <2>1 DEF Flush
    <3> QED BY <3>1, IterateThenMoves DEF ConnectionInv, ThreadInv, PlaceInv, Iterations
  <2>2. CASE ~(outgoing # <<>> /\ ~disconnected)
    <3>1. StatusThen(t, "checkReply")
      BY <2>2 DEF Flush
    <3> QED BY <3>1, StatusThenMoves DEF ConnectionInv, Follow
  <2> QED BY <2>1, <2>2
<1> QED BY <1>1, <1>2, MovingStep

LEMMA CheckReplyStep ==
  ASSUME ConnectionInv, NEW t \in Threads, CheckReply(t)
  PROVE  ConnectionInv'
<1>1. /\ UNCHANGED <<outgoing, wire, peer, ioPath, disconnected>>
      /\ thr[t].call \in Calls \cup {NoCall}
  BY DEF CheckReply, ConnectionInv, TypeInv, Thread
<1>2. CASE Answers(thr[t].call) # {}
  <2>1. TakeAnswer(t, thr[t].call)
    BY <1>2 DEF CheckReply
  <2> QED BY <1>1, <1>2, <2>1, TakeAnswerStep
<1>3. CASE ~(Answers(thr[t].call) # {})
  <2>1. IterateThen(t, "block", TRUE) /\ UNCHANGED data
    BY <1>1, <1>3 DEF CheckReply, data
  <2>2. Moves(t)
    BY <2>1, IterateThenMoves DEF ConnectionInv, ThreadInv, PlaceInv, Iterations
  <2> QED BY <1>1, <2>1, <2>2, MovingStep
<1> QED BY <1>2, <1>3

LEMMA RecheckStep ==
  ASSUME ConnectionInv, NEW t \in Threads, Recheck(t)
  PROVE  ConnectionInv'
<1> DEFINE c == thr[t].call
<1>1. /\ UNCHANGED <<outgoing, wire, peer, ioPath, disconnected>>
      /\ c \in Calls \cup {NoCall}
  BY DEF Recheck, ConnectionInv, TypeInv, Thread
<1>2. CASE Completed(c)
  <2>1. GoOn(t, "idle") /\ UNCHANGED data
    BY <1>1, <1>2 DEF Recheck, data
  <2>2. Moves(t)
    BY <2>1, GoOnMoves DEF ConnectionInv, Follow
  <2> QED BY <1>1, <2>1, <2>2, MovingStep
<1>3. CASE ~Completed(c) /\ Answers(c) # {}
  <2>1. TakeAnswer(t, c)
    BY <1>3 DEF Recheck
  <2> QED BY <1>1, <1>3, <2>1, TakeAnswerStep
<1>4. CASE ~Completed(c) /\ Answers(c) = {}
  <2>1. \/ disconnected /\ Give(t, c, "idle") /\ incoming' = incoming
        \/ GiveTimeout(t, c) /\ incoming' = incoming
        \/ BlockAgain(t, c) /\ UNCHANGED <<incoming, call, pendingReplies>>
    BY <1>4 DEF Recheck
  <2>2. CASE disconnected /\ Give(t, c, "idle") /\ incoming' = incoming
    <3>1. /\ incoming' \in Seq(Messages)
          /\ \A y : Has(incoming', y) => Has(incoming, y)
          /\ \A y : y # c /\ Has(incoming, y) => Has(incoming', y)
      BY <2>2 DEF ConnectionInv, TypeInv
    <3> QED BY <1>1, <2>2, <3>1, GiveStep DEF Follow
  <2>3. CASE GiveTimeout(t, c) /\ incoming' = incoming
    BY <1>1, <2>3, GiveTimeoutStep
  <2>4. CASE BlockAgain(t, c) /\ UNCHANGED <<incoming, call, pendingReplies>>
    <3>1. thr[t].next \in Follow
      BY DEF ConnectionInv, ThreadInv, PlaceInv
    <3>2. Moves(t)
      BY <2>4, <3>1, BlockAgainMoves DEF ConnectionInv
    <3>3. UNCHANGED data
      BY <1>1, <2>4 DEF data
    <3> QED BY <1>1, <3>2, <3>3, MovingStep
  <2> QED BY <2>1, <2>2, <2>3, <2>4
<1> QED BY <1>2, <1>3, <1>4

LEMMA DispatchDataStep ==
  ASSUME ConnectionInv, NEW t \in Threads, DispatchData(t)
  PROVE  ConnectionInv'
<1>1. UNCHANGED data /\ UNCHANGED <<ioPath, disconnected>>
  BY DEF DispatchData, data
<1>2. Moves(t)
  <2>1. CASE incoming = <<>>
    <3>1. thr' = [thr EXCEPT ![t] = Idle]
      BY <2>1 DEF DispatchData, ConnectionInv, TypeInv
    <3> QED BY <3>1, IdleIsModest DEF Moves, ConnectionInv, TypeInv
  <2>2. CASE incoming # <<>>
    <3> DEFINE th == [thr[t] EXCEPT !.pc = "waitDispatch"]
    <3>1. thr' = [thr EXCEPT ![t] = th]
      BY <2>2 DEF DispatchData, ConnectionInv, TypeInv
    <3>2. th \in Thread /\ th.pc = "waitDispatch" /\ th.next = thr[t].next
      BY DEF ConnectionInv, TypeInv, Thread, Places
    <3> HIDE DEF th
    <3> QED BY <3>1, <3>2, MovesTo DEF ConnectionInv, ThreadInv, PlaceInv
  <2> QED BY <2>1, <2>2
<1> QED BY <1>1, <1>2, MovingStep

LEMMA AcquireDispatchStep ==
  ASSUME ConnectionInv, NEW t \in Threads, AcquireDispatch(t)
  PROVE  ConnectionInv'
<1>1. UNCHANGED data /\ UNCHANGED <<ioPath, disconnected>>
  BY DEF AcquireDispatch, data
<1> DEFINE th == [thr[t] EXCEPT !.pc = "pop"]
<1>2. thr' = [thr EXCEPT ![t] = th]
  BY DEF AcquireDispatch
<1>3. th \in Thread /\ th.pc = "pop" /\ th.next = thr[t].next
  BY DEF ConnectionInv, TypeInv, Thread, Places
<1>4. Moves(t)
  <2> HIDE DEF th
  <2> QED BY <1>2, <1>3, MovesTo DEF ConnectionInv, ThreadInv, PlaceInv
<1> QED BY <1>1, <1>4, MovingStep

LEMMA PopStep ==
  ASSUME ConnectionInv, NEW t \in Threads, Pop(t)
  PROVE  ConnectionInv'
<1>1. /\ UNCHANGED <<outgoing, wire, peer, ioPath, disconnected>>
      /\ incoming \in Seq(Messages) /\ pendingReplies \subseteq Calls
  BY DEF Pop, ConnectionInv, TypeInv
<1>2. CASE incoming = <<>>
  <2>1. StatusThen(t, "idle") /\ UNCHANGED data
    BY <1>1, <1>2 DEF Pop, data
  <2>2. Moves(t)
    BY <2>1, StatusThenMoves DEF ConnectionInv, Follow
  <2> QED BY <1>1, <2>1, <2>2, MovingStep
<1>3. CASE incoming # <<>>
  <2> DEFINE c == Head(incoming)
  <2>1. incoming' = Tail(incoming)
    BY <1>3 DEF Pop
  <2>2. /\ incoming' \in Seq(Messages)
        /\ \A y : Has(incoming', y) => Has(incoming, y)
        /\ \A y : y # c /\ Has(incoming, y) => Has(incoming', y)
    BY <1>1, <1>3, <2>1, HasTail
  <2>3. CASE c \in pendingReplies
    <3>1. Give(t, c, "dispatched")
      BY <1>3, <2>3 DEF Pop
    <3>2. c \in Calls \cup {NoCall}
      BY <1>1, <2>3
    <3> HIDE DEF c
    <3> QED BY <1>1, <2>2, <3>1, <3>2, GiveStep DEF Follow
  <2>4. CASE c \notin pendingReplies
    <3>1. /\ thr' = [thr EXCEPT ![t].pc = "dispatched"]
          /\ UNCHANGED <<call, pendingReplies>>
      BY <1>3, <2>4 DEF Pop
    <3> DEFINE th == [thr[t] EXCEPT !.pc = "dispatched"]
    <3>2. th \in Thread /\ th.pc = "dispatched" /\ th.next = thr[t].next
      BY DEF ConnectionInv, TypeInv, Thread, Places
    <3>3. thr' = [thr EXCEPT ![t] = th]
      BY <3>1
    <3>4. Moves(t)
      <4> HIDE DEF th
      <4> QED BY <3>2, <3>3, MovesTo DEF ConnectionInv, ThreadInv, PlaceInv
    <3>5. pendingReplies' = pendingReplies \ {c}
      BY <2>4, <3>1
    <3>6. call' \in [Calls -> PendingCall]
      BY <3>1 DEF ConnectionInv, TypeInv
    <3>7. c \in Calls => ~call'[c].added
      BY <2>4, <3>1 DEF ConnectionInv, CallInv, TimerInv
    <3> HIDE DEF c
    <3> QED BY <1>1, <2>2, <3>1, <3>4, <3>5, <3>6, <3>7, ForgetStep
  <2> QED BY <2>3, <2>4
<1> QED BY <1>2, <1>3

LEMMA DispatchedStep ==
  ASSUME ConnectionInv, NEW t \in Threads, Dispatched(t)
  PROVE  ConnectionInv'
<1>1. UNCHANGED data /\ UNCHANGED <<ioPath, disconnected>> /\ StatusThen(t, "idle")
  BY DEF Dispatched, data
<1>2. Moves(t)
  BY <1>1, StatusThenMoves DEF ConnectionInv, Follow
<1> QED BY <1>1, <1>2, MovingStep

(* The timeout of a call that is registered no longer is the error queued. *)
LEMMA ReplyHandlerTimeoutStep ==
  ASSUME ConnectionInv, NEW t \in Threads, ReplyHandlerTimeout(t)
  PROVE  ConnectionInv'
<1> DEFINE c == thr[t].call
<1>1. /\ incoming' = IF call[c].link THEN Append(incoming, c) ELSE incoming
      /\ call' = [call EXCEPT ![c].link = FALSE, ![c].added = FALSE]
      /\ StatusThen(t, "idle")
      /\ UNCHANGED <<outgoing, pendingReplies, disconnected, ioPath, wire, peer>>
  BY DEF ReplyHandlerTimeout
<1>2. c \in Timed /\ c \in Calls
  BY ConnectionAssumption
     DEF ReplyHandlerTimeout, At, ConnectionInv, ThreadInv, PlaceInv
<1> HIDE DEF c
<1>3. call \in [Calls -> PendingCall] /\ incoming \in Seq(Messages)
  BY DEF ConnectionInv, TypeInv
<1>4. Moves(t)
  BY <1>1, StatusThenMoves DEF ConnectionInv, Follow
<1>5. call' \in [Calls -> PendingCall]
  BY <1>1, <1>3 DEF PendingCall
<1>6. /\ \A d \in Calls : d # c => call'[d] = call[d]
      /\ ~call'[c].added /\ ~call'[c].link /\ call'[c].sent = call[c].sent
  BY <1>1, <1>2, <1>3 DEF PendingCall
<1>7. /\ incoming' \in Seq(Messages)
      /\ \A y : Has(incoming', y) <=> Has(incoming, y) \/ (y = c /\ call[c].link)
  <2>1. c \in Messages
    BY <1>2 DEF Messages
  <2>2. /\ Append(incoming, c) \in Seq(Messages)
        /\ \A y : Has(Append(incoming, c), y) <=> Has(incoming, y) \/ y = c
    BY <1>3, <2>1, HasAppend
  <2> QED BY <1>1, <1>3, <2>2
<1>8. ASSUME NEW d \in Calls PROVE UnsentInv(d)' /\ TimerInv(d)' /\ HashInv(d)'
  <2>1. UnsentInv(d) /\ TimerInv(d) /\ HashInv(d)
    BY DEF ConnectionInv, CallInv
  <2>2. /\ Has(wire, d)' = Has(wire, d) /\ Has(outgoing, d)' = Has(outgoing, d)
        /\ Has(incoming, d)' = Has(incoming', d)
    BY <1>1 DEF Has
  <2>3. CASE d = c
    <3>1. UnsentInv(d)'
      BY <1>1, <1>6, <1>7, <2>1, <2>2, <2>3 DEF UnsentInv
    <3>2. TimerInv(d)'
      BY <1>6, <2>3 DEF TimerInv
    <3>3. HashInv(d)'
      <4>1. d \in pendingReplies => Has(incoming', d)
        BY <1>7, <2>1, <2>3 DEF HashInv
      <4> QED BY <1>1, <2>2, <4>1 DEF HashInv
    <3> QED BY <3>1, <3>2, <3>3
  <2>4. CASE d # c
    <3>1. call'[d] = call[d] /\ (Has(incoming', d) <=> Has(incoming, d))
      BY <1>6, <1>7, <2>4
    <3> QED BY <1>1, <2>1, <2>2, <3>1 DEF UnsentInv, TimerInv, HashInv
  <2> QED BY <2>3, <2>4
<1>9. CallInv'
  BY <1>8 DEF CallInv
<1>10. thr' \in [Threads -> Thread] /\ ThreadInv'
  BY <1>1, <1>4, MovesKeepsThreads DEF ConnectionInv
<1>11. TypeInv'
  BY <1>1, <1>5, <1>7, <1>10 DEF ConnectionInv, TypeInv
<1>12. SleepInv'
  <2>1. \A s \in Threads : Sleeps(s) => thr[s].call # c
    BY <1>2 DEF Sleeps
  <2>2. \A s \in Threads : (s # t /\ Sleeps(s) /\ ~disconnected') =>
          (Has(incoming', thr[s].call) => Has(incoming, thr[s].call))
    BY <1>7, <2>1
  <2> QED BY <1>1, <1>4, <2>2, MovesKeepsSleep DEF ConnectionInv
<1> QED BY <1>9, <1>10, <1>11, <1>12 DEF ConnectionInv

LEMMA ReadWriteStep ==
  ASSUME ConnectionInv, NEW t \in Threads, ReadWrite(t)
  PROVE  ConnectionInv'
<1>1. UNCHANGED data /\ UNCHANGED <<ioPath, disconnected>>
  BY DEF ReadWrite, data
<1>2. CASE incoming # <<>>
  <2> DEFINE th == [thr[t] EXCEPT !.pc = "status", !.next = "dispatch"]
  <2>1. thr' = [thr EXCEPT ![t] = th]
    BY <1>2 DEF ReadWrite
  <2>2. th \in Thread /\ th.pc = "status" /\ th.next = "dispatch"
    BY DEF ConnectionInv, TypeInv, Thread, Places
  <2>3. Moves(t)
    <3> HIDE DEF th
    <3> QED BY <2>1, <2>2, MovesTo DEF ConnectionInv, Follow
  <2> QED BY <1>1, <2>3, MovingStep
<1>3. CASE incoming = <<>> /\ disconnected
  <2>1. GoOn(t, "idle")
    BY <1>3 DEF ReadWrite
  <2>2. Moves(t)
    BY <2>1, GoOnMoves DEF ConnectionInv, Follow
  <2> QED BY <1>1, <2>2, MovingStep
<1>4. CASE incoming = <<>> /\ ~disconnected
  <2>1. IterateThen(t, "readWrite", FALSE)
    BY <1>4 DEF ReadWrite
  <2>2. Moves(t)
    BY <2>1, IterateThenMoves DEF ConnectionInv, ThreadInv, PlaceInv, Iterations
  <2> QED BY <1>1, <2>2, MovingStep
<1> QED BY <1>2, <1>3, <1>4
----------------------------------------------------------------------------
(* What the application asks for, and the peer. *)

LEMMA SendWithReplyStep ==
  ASSUME ConnectionInv, NEW t \in Threads, NEW c \in Calls, SendWithReply(t, c)
  PROVE  ConnectionInv'
<1>1. /\ ~call[c].sent
      /\ call' = [call EXCEPT ![c].sent = TRUE, ![c].link = TRUE, ![c].added = (c \in Timed)]
      /\ pendingReplies' = pendingReplies \cup {c}
      /\ outgoing' = Append(outgoing, c)
      /\ IterateThen(t, "send", FALSE)
      /\ UNCHANGED <<incoming, disconnected, ioPath, wire, peer>>
  BY DEF SendWithReply
<1>2. /\ call \in [Calls -> PendingCall] /\ outgoing \in Seq(Messages)
      /\ c \in Messages
  BY DEF ConnectionInv, TypeInv, Messages
<1>3. call' \in [Calls -> PendingCall]
  <2>1. (c \in Timed) \in BOOLEAN
    OBVIOUS
  <2> QED BY <1>1, <1>2, <2>1 DEF PendingCall
<1>4. /\ \A d \in Calls : d # c => call'[d] = call[d]
      /\ call'[c].sent /\ call'[c].link /\ (call'[c].added <=> c \in Timed)
  BY <1>1, <1>2 DEF PendingCall
<1>5. /\ outgoing' \in Seq(Messages)
      /\ \A y : Has(outgoing', y) <=> Has(outgoing, y) \/ y = c
  BY <1>1, <1>2, HasAppend
<1>6. Moves(t)
  BY <1>1, IterateThenMoves DEF ConnectionInv, ThreadInv, PlaceInv, Iterations
<1>7. ASSUME NEW d \in Calls PROVE UnsentInv(d)' /\ TimerInv(d)' /\ HashInv(d)'
  <2>1. UnsentInv(d) /\ TimerInv(d) /\ HashInv(d)
    BY DEF ConnectionInv, CallInv
  <2>2. /\ Has(wire, d)' = Has(wire, d) /\ Has(outgoing, d)' = Has(outgoing', d)
        /\ Has(incoming, d)' = Has(incoming, d)
    BY <1>1 DEF Has
  <2>3. CASE d = c
    BY <1>1, <1>4, <2>1, <2>2, <2>3 DEF UnsentInv, TimerInv, HashInv
  <2>4. CASE d # c
    BY <1>1, <1>4, <1>5, <2>1, <2>2, <2>4 DEF UnsentInv, TimerInv, HashInv
  <2> QED BY <2>3, <2>4
<1>8. CallInv'
  BY <1>7 DEF CallInv
<1>9. thr' \in [Threads -> Thread] /\ ThreadInv'
  BY <1>1, <1>6, MovesKeepsThreads DEF ConnectionInv
<1>10. TypeInv'
  BY <1>1, <1>3, <1>5, <1>9 DEF ConnectionInv, TypeInv
<1>11. SleepInv'
  BY <1>1, <1>6, MovesKeepsSleep DEF ConnectionInv
<1> QED BY <1>8, <1>9, <1>10, <1>11 DEF ConnectionInv

LEMMA CancelStep ==
  ASSUME ConnectionInv, NEW t \in Threads, NEW c \in Calls, Cancel(t, c)
  PROVE  ConnectionInv'
<1>1. /\ pendingReplies' = pendingReplies \ {c}
      /\ call' = [call EXCEPT ![c].added = FALSE, ![c].cancelled = TRUE]
      /\ UNCHANGED <<incoming, outgoing, disconnected, ioPath, thr, wire, peer>>
  BY DEF Cancel
<1>2. call \in [Calls -> PendingCall]
  BY DEF ConnectionInv, TypeInv
<1>3. call' \in [Calls -> PendingCall]
  BY <1>1, <1>2 DEF PendingCall
<1>4. /\ \A d \in Calls : d # c => call'[d] = call[d]
      /\ ~call'[c].added /\ call'[c].sent = call[c].sent
      /\ call'[c].link => call[c].link
  BY <1>1, <1>2 DEF PendingCall
<1>5. CallInv'
  BY <1>1, <1>3, <1>4, ForgetKeepsCalls DEF ConnectionInv
<1>6. TypeInv' /\ ThreadInv'
  BY <1>1, <1>3 DEF ConnectionInv, TypeInv, ThreadInv, PlaceInv
<1>7. SleepInv'
  BY <1>1 DEF ConnectionInv, SleepInv, Sleeps, Has
<1> QED BY <1>5, <1>6, <1>7 DEF ConnectionInv

LEMMA BlockStep ==
  ASSUME ConnectionInv, NEW t \in Threads, NEW c \in Calls, Block(t, c)
  PROVE  ConnectionInv'
<1>1. UNCHANGED data /\ UNCHANGED <<ioPath, disconnected>>
  BY DEF Block, data
<1> DEFINE th == [thr[t] EXCEPT !.pc = "flush", !.call = c, !.late = FALSE]
<1>2. thr' = [thr EXCEPT ![t] = th]
  BY DEF Block
<1>3. th \in Thread /\ th.pc = "flush" /\ th.next = thr[t].next
  BY DEF ConnectionInv, TypeInv, Thread, Places
<1>4. Moves(t)
  <2> HIDE DEF th
  <2> QED BY <1>2, <1>3, MovesTo DEF ConnectionInv, ThreadInv, PlaceInv
<1> QED BY <1>1, <1>4, MovingStep

LEMMA FireStep ==
  ASSUME ConnectionInv, NEW t \in Threads, NEW c \in Calls, Fire(t, c)
  PROVE  ConnectionInv'
<1>1. UNCHANGED <<incoming, outgoing, pendingReplies, call, wire, peer, ioPath, disconnected>>
  BY DEF Fire
<1>2. c \in Timed
  BY DEF Fire, ConnectionInv, CallInv, TimerInv
<1> DEFINE th == [thr[t] EXCEPT !.pc = "fire", !.call = c]
<1>3. thr' = [thr EXCEPT ![t] = th]
  BY DEF Fire
<1>4. th \in Thread /\ th.pc = "fire" /\ th.call = c /\ th.next = thr[t].next
  BY DEF ConnectionInv, TypeInv, Thread, Places
<1>5. thr[t].next \in Follow
  BY DEF ConnectionInv, ThreadInv, PlaceInv
<1> HIDE DEF th
<1> QED BY <1>1, <1>2, <1>3, <1>4, <1>5, OneThreadChanges

LEMMA EnterStep ==
  ASSUME ConnectionInv, NEW t \in Threads,
         \/ Dispatch(t) \/ ReadWriteDispatch(t) \/ Close(t)
         \/ \E watch \in {"readWatch", "writeWatch"} : HandleWatch(t, watch)
  PROVE  ConnectionInv'
<1>1. UNCHANGED data /\ ioPath' = ioPath /\ (disconnected => disconnected')
  <2>1. CASE Dispatch(t)
    BY <2>1 DEF Dispatch, data
  <2>2. CASE ReadWriteDispatch(t)
    BY <2>2 DEF ReadWriteDispatch, data
  <2>3. CASE Close(t)
    BY <2>3 DEF Close, data
  <2>4. CASE \E watch \in {"readWatch", "writeWatch"} : HandleWatch(t, watch)
    BY <2>4 DEF HandleWatch, data
  <2> QED BY <2>1, <2>2, <2>3, <2>4
<1>2. CASE Dispatch(t)
  <2>1. StatusThen(t, "dispatch")
    BY <1>2 DEF Dispatch
  <2>2. Moves(t)
    BY <2>1, StatusThenMoves DEF ConnectionInv, Follow
  <2> QED BY <1>1, <2>2, QuietStep DEF ConnectionInv, TypeInv
<1>3. CASE ReadWriteDispatch(t)
  <2>1. StatusThen(t, "readWrite")
    BY <1>3 DEF ReadWriteDispatch
  <2>2. Moves(t)
    BY <2>1, StatusThenMoves DEF ConnectionInv, Follow
  <2> QED BY <1>1, <2>2, QuietStep DEF ConnectionInv, TypeInv
<1>4. CASE Close(t)
  <2>1. StatusThen(t, "idle")
    BY <1>4 DEF Close
  <2>2. Moves(t)
    BY <2>1, StatusThenMoves DEF ConnectionInv, Follow
  <2> QED BY <1>1, <2>2, QuietStep DEF ConnectionInv, TypeInv
<1>5. ASSUME NEW watch \in {"readWatch", "writeWatch"}, HandleWatch(t, watch)
      PROVE  ConnectionInv'
  <2>1. IterateThen(t, watch, FALSE)
    BY <1>5 DEF HandleWatch
  <2>2. Moves(t)
    BY <2>1, IterateThenMoves DEF ConnectionInv, ThreadInv, PlaceInv, Iterations
  <2> QED BY <1>1, <2>2, QuietStep DEF ConnectionInv, TypeInv
<1> QED BY <1>2, <1>3, <1>4, <1>5

LEMMA PeerStep ==
  ASSUME ConnectionInv, Peer
  PROVE  ConnectionInv'
<1>1. UNCHANGED <<incoming, outgoing, pendingReplies, call, thr, ioPath, disconnected>>
  BY DEF Peer, PeerCloses, PeerAnswers, local
<1>2. /\ wire' \in Seq(Messages)
      /\ \A y : y \in peer' => y \in peer
      /\ \A y : Has(wire', y) => Has(wire, y) \/ y \in peer
  <2>1. CASE PeerCloses
    BY <2>1 DEF PeerCloses, ConnectionInv, TypeInv
  <2>2. ASSUME NEW c \in Calls, PeerAnswers(c)
        PROVE  /\ wire' \in Seq(Messages)
               /\ \A y : y \in peer' => y \in peer
               /\ \A y : Has(wire', y) => Has(wire, y) \/ y \in peer
    <3>1. wire' = Append(wire, c) /\ peer' = peer \ {c} /\ c \in peer
      BY <2>2 DEF PeerAnswers
    <3>2. wire \in Seq(Messages) /\ c \in Messages
      BY DEF ConnectionInv, TypeInv, Messages
    <3>3. wire' \in Seq(Messages) /\ \A y : Has(wire', y) <=> Has(wire, y) \/ y = c
      BY <3>1, <3>2, HasAppend
    <3> QED BY <3>1, <3>3
  <2> QED BY <2>1, <2>2 DEF Peer
<1>3. ASSUME NEW d \in Calls PROVE UnsentInv(d)' /\ TimerInv(d)' /\ HashInv(d)'
  <2>1. UnsentInv(d) /\ TimerInv(d) /\ HashInv(d)
    BY DEF ConnectionInv, CallInv
  <2>2. /\ Has(wire, d)' = Has(wire', d) /\ Has(outgoing, d)' = Has(outgoing, d)
        /\ Has(incoming, d)' = Has(incoming, d)
    BY <1>1 DEF Has
  <2> QED BY <1>1, <1>2, <2>1, <2>2 DEF UnsentInv, TimerInv, HashInv
<1>4. TypeInv' /\ ThreadInv'
  BY <1>1, <1>2 DEF ConnectionInv, TypeInv, ThreadInv, PlaceInv
<1>5. SleepInv'
  BY <1>1 DEF ConnectionInv, SleepInv, Sleeps, Has
<1> QED BY <1>3, <1>4, <1>5 DEF ConnectionInv, CallInv

LEMMA NextInv == ConnectionInv /\ [Next]_vars => ConnectionInv'
<1> SUFFICES ASSUME ConnectionInv, [Next]_vars PROVE ConnectionInv'
  OBVIOUS
<1>1. CASE Peer
  BY <1>1, PeerStep
<1>2. ASSUME NEW t \in Threads, Inside(t) PROVE ConnectionInv'
  <2>1. CASE AcquireIOPath(t) \/ GiveUpIOPath(t) \/ Iterate(t)
    BY <2>1, AcquireIOPathStep, GiveUpIOPathStep, IterateStep
  <2>2. CASE PollReturns(t) \/ PollTimesOut(t)
    BY <2>2, PollReturnsStep, PollTimesOutStep
  <2>3. CASE GetDispatchStatus(t) \/ DrainEnd(t) \/ \E c \in Calls : DrainOne(t, c)
    BY <2>3, GetDispatchStatusStep, DrainEndStep, DrainOneStep
  <2>4. CASE Finish(t) \/ Flush(t) \/ CheckReply(t) \/ Recheck(t)
    BY <2>4, FinishStep, FlushStep, CheckReplyStep, RecheckStep
  <2>5. CASE DispatchData(t) \/ AcquireDispatch(t) \/ Pop(t) \/ Dispatched(t)
    BY <2>5, DispatchDataStep, AcquireDispatchStep, PopStep, DispatchedStep
  <2>6. CASE ReplyHandlerTimeout(t) \/ ReadWrite(t)
    BY <2>6, ReplyHandlerTimeoutStep, ReadWriteStep
  <2> QED BY <1>2, <2>1, <2>2, <2>3, <2>4, <2>5, <2>6 DEF Inside
<1>3. ASSUME NEW t \in Threads, Enter(t) PROVE ConnectionInv'
  <2>1. ASSUME NEW c \in Calls,
               SendWithReply(t, c) \/ Block(t, c) \/ Cancel(t, c) \/ Fire(t, c)
        PROVE  ConnectionInv'
    BY <2>1, SendWithReplyStep, BlockStep, CancelStep, FireStep
  <2> QED BY <1>3, <2>1, EnterStep DEF Enter
<1>4. CASE UNCHANGED vars
  BY <1>4, StillStep DEF vars, data
<1> QED BY <1>1, <1>2, <1>3, <1>4 DEF Next

----------------------------------------------------------------------------
(* The calls that wait are known.  A thread answers for the call it is      *)
(* about to complete, so it matters which thread moves.                     *)

Alone(t) == \A s \in Threads \ {t} : thr'[s] = thr[s]

(* Steps of a thread end in one of these, or say it themselves. *)
LEMMA EndsAlone ==
  ASSUME NEW t \in Threads, NEW place, NEW iter, NEW peek, NEW c,
         \/ GoOn(t, place) \/ StatusThen(t, place) \/ IterateThen(t, iter, peek)
         \/ IterationReturns(t) \/ BlockAgain(t, c) \/ Give(t, c, place)
         \/ GiveTimeout(t, c),
         TypeInv
  PROVE  Alone(t)
<1>1. CASE GoOn(t, place) \/ StatusThen(t, place) \/ IterateThen(t, iter, peek)
  BY <1>1 DEF GoOn, StatusThen, IterateThen, Alone, TypeInv
<1>2. CASE IterationReturns(t)
  <2>1. thr[t].iter \in Iterations
    BY DEF TypeInv, Thread
  <2>2. \/ StatusThen(t, "idle") \/ StatusThen(t, "recheck")
        \/ GoOn(t, "flush") \/ GoOn(t, "idle")
    BY <1>2, <2>1 DEF IterationReturns, Iterations
  <2> QED BY <2>2 DEF GoOn, StatusThen, Alone, TypeInv
<1>3. CASE BlockAgain(t, c) \/ Give(t, c, place) \/ GiveTimeout(t, c)
  BY <1>3 DEF BlockAgain, Give, GiveTimeout, Alone, TypeInv
<1> QED BY <1>1, <1>2, <1>3

(* A thread that completes nothing leaves a call known, as long as the call *)
(* stays in the hash.                                                       *)
LEMMA StaysKnown ==
  ASSUME KnownInv, NEW t \in Threads, Alone(t), disconnected => disconnected',
         NEW c \in Calls, thr[t].pc = "finish" => thr[t].call # c,
         Waits(c)' => Waits(c), c \in pendingReplies => c \in pendingReplies',
         call'[c].link => call[c].link
  PROVE  Waits(c)' => Known(c)'
<1> SUFFICES ASSUME Waits(c)' PROVE Known(c)'
  OBVIOUS
<1>1. Known(c)
  BY DEF KnownInv
<1>2. CASE \E s \in Threads : thr[s].pc = "finish" /\ thr[s].call = c
  <2>1. PICK s \in Threads : thr[s].pc = "finish" /\ thr[s].call = c
    BY <1>2
  <2>2. thr'[s] = thr[s]
    BY <2>1 DEF Alone
  <2> QED BY <2>1, <2>2 DEF Known
<1> QED BY <1>1, <1>2 DEF Known

(* Such a step when the calls themselves stay as they were. *)
LEMMA CallsStayKnown ==
  ASSUME KnownInv, NEW t \in Threads, Alone(t), disconnected => disconnected',
         thr[t].pc # "finish", UNCHANGED <<call, pendingReplies>>
  PROVE  KnownInv'
<1>1. ASSUME NEW c \in Calls PROVE Waits(c)' => Known(c)'
  <2>1. Waits(c)' => Waits(c)
    BY DEF Waits, Completed
  <2> QED BY <2>1, StaysKnown
<1> QED BY <1>1 DEF KnownInv

(* A call leaves the hash with the thread that will complete it. *)
LEMMA GiveKeepsKnown ==
  ASSUME TypeInv, KnownInv, NEW t \in Threads, thr[t].pc # "finish",
         NEW c \in Calls \cup {NoCall}, NEW next \in Follow, UNCHANGED disconnected,
         Give(t, c, next) \/ (GiveTimeout(t, c) /\ thr[t].call = c)
  PROVE  KnownInv'
<1>1. Alone(t)
  BY EndsAlone
<1>2. CASE UNCHANGED <<call, pendingReplies>>
  BY <1>1, <1>2, CallsStayKnown
<1>3. CASE ~UNCHANGED <<call, pendingReplies>>
  <2>1. /\ pendingReplies' = pendingReplies \ {c}
        /\ thr'[t].pc = "finish" /\ thr'[t].call = c
        /\ \A d \in Calls : d # c => call'[d] = call[d]
    BY <1>3 DEF Give, GiveTimeout, TypeInv, Thread
  <2>2. ASSUME NEW d \in Calls PROVE Waits(d)' => Known(d)'
    <3>1. CASE d = c
      BY <2>1, <3>1 DEF Known
    <3>2. CASE d # c
      <4>1. Waits(d)' => Waits(d)
        BY <2>1, <3>2 DEF Waits, Completed
      <4> QED BY <1>1, <2>1, <3>2, <4>1, StaysKnown
    <3> QED BY <3>1, <3>2
  <2> QED BY <2>2 DEF KnownInv
<1> QED BY <1>2, <1>3

(* Threads that complete no call. *)
LEMMA QuietKnown ==
  ASSUME ConnectionInv, KnownInv, NEW t \in Threads,
         \/ AcquireIOPath(t) \/ GiveUpIOPath(t) \/ PollTimesOut(t)
         \/ GetDispatchStatus(t) \/ DrainEnd(t) \/ Flush(t) \/ DispatchData(t)
         \/ AcquireDispatch(t) \/ Dispatched(t) \/ ReadWrite(t)
  PROVE  KnownInv'
<1>1. UNCHANGED <<call, pendingReplies, disconnected>> /\ thr[t].pc # "finish"
  BY DEF AcquireIOPath, GiveUpIOPath, PollTimesOut, GetDispatchStatus, DrainEnd, Flush,
    DispatchData, AcquireDispatch, Dispatched, ReadWrite, At
<1>2. TypeInv
  BY DEF ConnectionInv
<1>3. CASE AcquireIOPath(t) \/ DispatchData(t) \/ AcquireDispatch(t)
  BY <1>1, <1>2, <1>3, CallsStayKnown
  DEF AcquireIOPath, DispatchData, AcquireDispatch, Alone, TypeInv
<1>4. CASE GiveUpIOPath(t) \/ PollTimesOut(t)
  <2>1. Alone(t) \/ IterationReturns(t)
    BY <1>2, <1>4 DEF GiveUpIOPath, PollTimesOut, Alone, TypeInv
  <2> QED BY <1>1, <1>2, <2>1, EndsAlone, CallsStayKnown
<1>5. CASE GetDispatchStatus(t) \/ DrainEnd(t)
  <2>1. Alone(t) \/ GoOn(t, thr[t].next)
    BY <1>2, <1>5 DEF GetDispatchStatus, DrainEnd, Alone, TypeInv
  <2> QED BY <1>1, <1>2, <2>1, EndsAlone, CallsStayKnown
<1>6. CASE Flush(t) \/ Dispatched(t) \/ ReadWrite(t)
  <2>1. \/ Alone(t) \/ IterateThen(t, "flush", FALSE) \/ StatusThen(t, "checkReply")
        \/ StatusThen(t, "idle") \/ GoOn(t, "idle")
        \/ IterateThen(t, "readWrite", FALSE)
    BY <1>2, <1>6 DEF Flush, Dispatched, ReadWrite, Alone, TypeInv
  <2> QED BY <1>1, <1>2, <2>1, EndsAlone, CallsStayKnown
<1> QED BY <1>3, <1>4, <1>5, <1>6

(* A reply that is read only stops the timeout of its call. *)
LEMMA ReadKnown ==
  ASSUME ConnectionInv, KnownInv, NEW t \in Threads, Iterate(t) \/ PollReturns(t)
  PROVE  KnownInv'
<1>1. /\ TypeInv /\ thr[t].pc # "finish" /\ UNCHANGED pendingReplies
      /\ disconnected => disconnected'
  BY DEF ConnectionInv, Iterate, PollReturns, At, DoIO
<1>2. Alone(t)
  <2>1. Alone(t) \/ IterationReturns(t)
    BY <1>1 DEF Iterate, PollReturns, Alone, TypeInv
  <2> QED BY <1>1, <2>1, EndsAlone
<1>3. UNCHANGED call \/ \E n, k : Transfer(n, k)
  BY DEF Iterate, PollReturns, DoIO
<1>4. ASSUME NEW c \in Calls PROVE Waits(c)' => Known(c)'
  <2>1. call[c] \in PendingCall
    BY <1>1 DEF TypeInv
  <2>2. call'[c] = call[c] \/ call'[c] = [call[c] EXCEPT !.added = FALSE]
    BY <1>3 DEF Transfer
  <2>3. /\ call'[c].sent = call[c].sent /\ call'[c].cancelled = call[c].cancelled
        /\ call'[c].link = call[c].link /\ call'[c].completions = call[c].completions
    BY <2>1, <2>2 DEF PendingCall
  <2>4. Waits(c)' => Waits(c)
    BY <2>3 DEF Waits, Completed
  <2> QED BY <1>1, <1>2, <2>3, <2>4, StaysKnown
<1> QED BY <1>4 DEF KnownInv

(* The drain takes a call out of the hash when the connection is lost and   *)
(* its error is used up.                                                    *)
LEMMA DrainKnown ==
  ASSUME ConnectionInv, KnownInv, NEW t \in Threads, NEW c \in Calls, DrainOne(t, c)
  PROVE  KnownInv'
<1>1. /\ disconnected /\ disconnected' /\ thr' = thr
      /\ pendingReplies' = pendingReplies \ {c} /\ thr[t].pc # "finish"
      /\ ~call'[c].link /\ \A d \in Calls : d # c => call'[d] = call[d]
  BY DEF DrainOne, At, ConnectionInv, ThreadInv, PlaceInv, TypeInv, PendingCall
<1>2. ASSUME NEW d \in Calls PROVE Waits(d)' => Known(d)'
  <2>1. CASE d = c
    BY <1>1, <2>1 DEF Known
  <2>2. CASE d # c
    <3>1. Waits(d)' => Waits(d)
      BY <1>1, <2>2 DEF Waits, Completed
    <3> QED BY <1>1, <2>2, <3>1, StaysKnown DEF Alone
  <2> QED BY <2>1, <2>2
<1> QED BY <1>2 DEF KnownInv

(* A completed call waits no longer. *)
LEMMA FinishKnown ==
  ASSUME ConnectionInv, KnownInv, NEW t \in Threads, Finish(t)
  PROVE  KnownInv'
<1>1. /\ Alone(t) /\ UNCHANGED <<pendingReplies, disconnected>>
      /\ call' = [call EXCEPT ![thr[t].call].completions = IF @ < 2 THEN @ + 1 ELSE @]
      /\ call \in [Calls -> PendingCall]
  BY DEF Finish, Alone, ConnectionInv, TypeInv
<1>2. ASSUME NEW c \in Calls PROVE Waits(c)' => Known(c)'
  <2>1. call[c].completions \in 0..2
    BY <1>1 DEF PendingCall
  <2>2. CASE c = thr[t].call
    <3>1. call'[c].completions = IF call[c].completions < 2 THEN call[c].completions + 1
                                 ELSE call[c].completions
      BY <1>1, <2>2 DEF PendingCall
    <3> QED BY <2>1, <3>1 DEF Waits, Completed
  <2>3. CASE c # thr[t].call
    <3>1. call'[c] = call[c]
      BY <1>1, <2>3
    <3>2. Waits(c)' => Waits(c)
      BY <3>1 DEF Waits, Completed
    <3> QED BY <1>1, <2>3, <3>1, <3>2, StaysKnown
  <2> QED BY <2>2, <2>3
<1> QED BY <1>2 DEF KnownInv

(* Whoever takes an answer or the timeout error completes the call. *)
LEMMA AnswerKnown ==
  ASSUME ConnectionInv, KnownInv, NEW t \in Threads,
         CheckReply(t) \/ Recheck(t) \/ Pop(t)
  PROVE  KnownInv'
<1> DEFINE c == thr[t].call
<1>1. /\ TypeInv /\ thr[t].pc # "finish" /\ UNCHANGED disconnected
      /\ c \in Calls \cup {NoCall}
  BY DEF CheckReply, Recheck, Pop, At, ConnectionInv, TypeInv, Thread
<1>2. CASE CheckReply(t) \/ Recheck(t)
  <2>1. \/ Give(t, c, "status") \/ Give(t, c, "idle") \/ GiveTimeout(t, c)
        \/ /\ UNCHANGED <<call, pendingReplies>>
           /\ \/ IterateThen(t, "block", TRUE) \/ GoOn(t, "idle")
              \/ BlockAgain(t, c)
    BY <1>2 DEF CheckReply, Recheck, TakeAnswer
  <2>2. "status" \in Follow /\ "idle" \in Follow
    BY DEF Follow
  <2>3. CASE Give(t, c, "status") \/ Give(t, c, "idle") \/ GiveTimeout(t, c)
    BY <1>1, <2>2, <2>3, GiveKeepsKnown
  <2>4. CASE /\ UNCHANGED <<call, pendingReplies>>
             /\ \/ IterateThen(t, "block", TRUE) \/ GoOn(t, "idle")
                \/ BlockAgain(t, c)
    <3>1. Alone(t)
      BY <1>1, <2>4, EndsAlone
    <3> QED BY <1>1, <2>4, <3>1, CallsStayKnown
  <2> QED BY <2>1, <2>3, <2>4
<1>3. CASE Pop(t)
  <2>1. CASE incoming # <<>> /\ Head(incoming) \in pendingReplies
    <3>1. Give(t, Head(incoming), "dispatched") /\ Head(incoming) \in Calls
      BY <1>1, <1>3, <2>1 DEF Pop, TypeInv
    <3> QED BY <1>1, <3>1, GiveKeepsKnown DEF Follow
  <2>2. CASE ~(incoming # <<>> /\ Head(incoming) \in pendingReplies)
    <3>1. UNCHANGED <<call, pendingReplies>> /\ (Alone(t) \/ StatusThen(t, "idle"))
      BY <1>1, <1>3, <2>2 DEF Pop, Alone, TypeInv
    <3> QED BY <1>1, <3>1, EndsAlone, CallsStayKnown
  <2> QED BY <2>1, <2>2
<1> QED BY <1>2, <1>3

LEMMA FireKnown ==
  ASSUME ConnectionInv, KnownInv, NEW t \in Threads, ReplyHandlerTimeout(t)
  PROVE  KnownInv'
<1>1. /\ TypeInv /\ thr[t].pc # "finish" /\ UNCHANGED <<pendingReplies, disconnected>>
      /\ call' = [call EXCEPT ![thr[t].call].link = FALSE, ![thr[t].call].added = FALSE]
      /\ StatusThen(t, "idle")
  BY DEF ReplyHandlerTimeout, At, ConnectionInv
<1>2. Alone(t)
  BY <1>1, EndsAlone
<1>3. ASSUME NEW c \in Calls PROVE Waits(c)' => Known(c)'
  <2>1. call[c] \in PendingCall
    BY <1>1 DEF TypeInv
  <2>2. /\ call'[c].sent = call[c].sent /\ call'[c].cancelled = call[c].cancelled
        /\ call'[c].link => call[c].link
        /\ call'[c].completions = call[c].completions
    BY <1>1, <2>1 DEF TypeInv, PendingCall
  <2>3. Waits(c)' => Waits(c)
    BY <2>2 DEF Waits, Completed
  <2> QED BY <1>1, <1>2, <2>2, <2>3, StaysKnown
<1> QED BY <1>3 DEF KnownInv

(* What the application asks for: a call that is sent is in the hash, and a *)
(* call that is taken out of it is cancelled.                               *)
LEMMA EnterKnown ==
  ASSUME ConnectionInv, KnownInv, NEW t \in Threads, Enter(t)
  PROVE  KnownInv'
<1>1. TypeInv /\ call \in [Calls -> PendingCall]
  BY DEF ConnectionInv, TypeInv
<1>2. ASSUME NEW c \in Calls, SendWithReply(t, c) PROVE KnownInv'
  <2>1. /\ thr[t].pc # "finish" /\ UNCHANGED disconnected
        /\ pendingReplies' = pendingReplies \cup {c} /\ IterateThen(t, "send", FALSE)
        /\ \A d \in Calls : d # c => call'[d] = call[d]
    BY <1>1, <1>2 DEF SendWithReply, At
  <2>2. Alone(t)
    BY <1>1, <2>1, EndsAlone
  <2>3. ASSUME NEW d \in Calls PROVE Waits(d)' => Known(d)'
    <3>1. CASE d = c
      BY <2>1, <3>1 DEF Known
    <3>2. CASE d # c
      <4>1. Waits(d)' => Waits(d)
        BY <2>1, <3>2 DEF Waits, Completed
      <4> QED BY <2>1, <2>2, <3>2, <4>1, StaysKnown
    <3> QED BY <3>1, <3>2
  <2> QED BY <2>3 DEF KnownInv
<1>3. ASSUME NEW c \in Calls, Cancel(t, c) PROVE KnownInv'
  <2>1. /\ thr[t].pc # "finish" /\ UNCHANGED <<thr, disconnected>>
        /\ pendingReplies' = pendingReplies \ {c} /\ call'[c].cancelled
        /\ \A d \in Calls : d # c => call'[d] = call[d]
    BY <1>1, <1>3 DEF Cancel, At, PendingCall
  <2>2. ASSUME NEW d \in Calls PROVE Waits(d)' => Known(d)'
    <3>1. CASE d = c
      BY <2>1, <3>1 DEF Waits
    <3>2. CASE d # c
      <4>1. Waits(d)' => Waits(d)
        BY <2>1, <3>2 DEF Waits, Completed
      <4> QED BY <2>1, <3>2, <4>1, StaysKnown DEF Alone
    <3> QED BY <3>1, <3>2
  <2> QED BY <2>2 DEF KnownInv
<1>4. ASSUME NEW c \in Calls, Block(t, c) \/ Fire(t, c) PROVE KnownInv'
  <2>1. /\ thr[t].pc # "finish" /\ UNCHANGED <<call, pendingReplies, disconnected>>
        /\ Alone(t)
    BY <1>1, <1>4 DEF Block, Fire, At, Alone, TypeInv
  <2> QED BY <2>1, CallsStayKnown
<1>5. CASE \/ Dispatch(t) \/ ReadWriteDispatch(t) \/ Close(t)
           \/ \E watch \in {"readWatch", "writeWatch"} : HandleWatch(t, watch)
  <2>1. /\ thr[t].pc # "finish" /\ UNCHANGED <<call, pendingReplies>>
        /\ UNCHANGED disconnected \/ disconnected'
    <3>1. CASE Close(t)
      BY <3>1 DEF Close, At
    <3>2. CASE Dispatch(t) \/ ReadWriteDispatch(t)
      BY <3>2 DEF Dispatch, ReadWriteDispatch, At
    <3>3. ASSUME NEW watch, HandleWatch(t, watch)
          PROVE  thr[t].pc # "finish" /\ UNCHANGED <<call, pendingReplies, disconnected>>
      BY <3>3 DEF HandleWatch, At
    <3> QED BY <1>5, <3>1, <3>2, <3>3
  <2>2. \/ StatusThen(t, "dispatch") \/ StatusThen(t, "readWrite")
        \/ StatusThen(t, "idle") \/ IterateThen(t, "readWatch", FALSE)
        \/ IterateThen(t, "writeWatch", FALSE)
    BY <1>5 DEF Dispatch, ReadWriteDispatch, Close, HandleWatch
  <2>3. Alone(t)
    BY <1>1, <2>2, EndsAlone
  <2> QED BY <2>1, <2>3, CallsStayKnown
<1> QED BY <1>2, <1>3, <1>4, <1>5 DEF Enter

LEMMA NextKnown == ConnectionInv /\ KnownInv /\ [Next]_vars => KnownInv'
<1> SUFFICES ASSUME ConnectionInv, KnownInv, [Next]_vars PROVE KnownInv'
  OBVIOUS
<1>1. CASE Peer \/ UNCHANGED vars
  <2>1. UNCHANGED <<call, pendingReplies, disconnected, thr>>
    BY <1>1 DEF Peer, PeerCloses, PeerAnswers, local, vars
  <2> QED BY <2>1 DEF KnownInv, Waits, Known, Completed
<1>2. ASSUME NEW t \in Threads, Inside(t) PROVE KnownInv'
  BY <1>2, QuietKnown, ReadKnown, DrainKnown, FinishKnown, AnswerKnown, FireKnown
  DEF Inside
<1>3. ASSUME NEW t \in Threads, Enter(t) PROVE KnownInv'
  BY <1>3, EnterKnown
<1> QED BY <1>1, <1>2, <1>3 DEF Next

----------------------------------------------------------------------------
(* Whatever the threads do at the same time, a timeout of the main loop    *)
(* belongs to a call that waits, has its error ready and no answer         *)
(* (_dbus_connection_queue_received_message_link, reply_handler_timeout).  *)
THEOREM TimeoutsBelong == Spec => []TimeoutsOfWaitingCalls
<1>1. Spec => []ConnectionInv
  BY InitInv, NextInv, PTL DEF Spec
<1> QED BY <1>1, InvImpliesProperties, PTL

(* Whatever the threads do at the same time, a call that was sent and that *)
(* nobody cancelled or completed is in the hash, or in the hands of a      *)
(* thread that is about to complete it, or its error is used up on a lost  *)
(* connection (dbus_connection_send_with_reply, complete_pending_call_and_ *)
(* unlock, connection_timeout_and_complete_all_pending_calls_unlocked).    *)
(* In the hash its timeout, if it has one, runs or its answer is queued.   *)
THEOREM CallsAreRemembered == Spec => []NobodyForgotten
<1>1. Init => KnownInv
  BY DEF Init, KnownInv, Waits, NewCall
<1>2. Spec => [](ConnectionInv /\ KnownInv)
  BY <1>1, InitInv, NextInv, NextKnown, PTL DEF Spec
<1> QED BY <1>2, InvImpliesProperties, PTL

(* A thread in poll() has the I/O path; without a timeout it does not      *)
(* sleep over a reply that another thread has read before                  *)
(* (_dbus_connection_do_iteration_unlocked looks for it again).            *)
THEOREM RepliesAreSeen == Spec => []NoSleepOverReply
<1>1. Spec => []ConnectionInv
  BY InitInv, NextInv, PTL DEF Spec
<1> QED BY <1>1, InvImpliesProperties, PTL
============================================================================
