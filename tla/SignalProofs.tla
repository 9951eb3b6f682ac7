----------------------------- MODULE SignalProofs -----------------------------
(***************************************************************************)
(* Proof that NameAcquired, NameLost and NameOwnerChanged agree with the   *)
(* queues of owners, and that the replies of the driver are true when they *)
(* are sent, for all sets of clients and names and all configurations in   *)
(* which no request of a client that hung up runs out of memory; that no   *)
(* activation pends for a name that has an owner; and that the             *)
(* transactions of the daemon are the operations of NameQueue, each at     *)
(* once, as long as no allocation fails.                                   *)
(***************************************************************************)
EXTENDS DispatchProofs

-----------------------------------------------------------------------------
(* The head of a queue.                                                    *)

First(q) == IF q = <<>> THEN NoOne ELSE q[1].conn

(* The queue after bus_service_add_owner for a client that is not its head. *)
Linked(q, c, f) ==
  IF Queued(q, c)
    THEN IF f.replace THEN SecondIn(Without(q, c), OwnerOf(c, f))
                      ELSE [q EXCEPT ![Place(q, c)] = OwnerOf(c, f)]
    ELSE IF f.replace THEN SecondIn(q, OwnerOf(c, f)) ELSE Append(q, OwnerOf(c, f))

LEMMA FirstOf ==
  ASSUME NEW q \in Seq(Owner)
  PROVE  /\ q = <<>> => First(q) = NoOne
         /\ q # <<>> => /\ Len(q) \in Nat \ {0} /\ 1 \in DOMAIN q
                        /\ First(q) = q[1].conn /\ First(q) \in Conn
         /\ \A c \in Conn : First(q) = c => q # <<>> /\ Queued(q, c)
         /\ (\A c \in Conn : ~Queued(q, c)) => q = <<>>
         /\ \A c : ~Queued(<<>>, c)
<1>1. ASSUME q # <<>>
      PROVE  /\ Len(q) \in Nat \ {0} /\ 1 \in DOMAIN q
             /\ First(q) = q[1].conn /\ First(q) \in Conn /\ Queued(q, First(q))
  <2>1. Len(q) \in Nat /\ Len(q) # 0 /\ DOMAIN q = 1..Len(q)
    BY <1>1, LenProperties, EmptySeq
  <2>2. 1 \in 1..Len(q)
    BY <2>1
  <2>3. q[1] \in Owner
    BY <2>2, ElementOfSeq
  <2> QED BY <1>1, <2>1, <2>2, <2>3 DEF First, Queued, Owner
<1>2. \A c \in Conn : c # NoOne
  BY ConnAssumption
<1>3. \A c : ~Queued(<<>>, c)
  BY DEF Queued
<1> QED BY <1>1, <1>2, <1>3 DEF First

(* What is left when a client leaves a queue begins with the same head,
   or with the second when the head leaves. *)
LEMMA FirstWithout ==
  ASSUME NEW q \in Seq(Owner), NEW c, NoTwice(q)
  PROVE  /\ First(q) # c => First(Without(q, c)) = First(q)
         /\ q # <<>> /\ First(q) = c =>
              First(Without(q, c)) = (IF Len(q) = 1 THEN NoOne ELSE q[2].conn)
<1>1. CASE ~Queued(q, c)
  <2>1. q # <<>> => Queued(q, First(q))
    BY FirstOf
  <2> QED BY <1>1, <2>1 DEF Without
<1>2. CASE Queued(q, c)
  <2> DEFINE p == Place(q, c)
             r == RemoveAt(q, p)
  <2>1. Len(q) \in Nat /\ DOMAIN q = 1..Len(q)
    BY LenProperties
  <2>2. p \in 1..Len(q) /\ q[p].conn = c
    BY <1>2, <2>1 DEF Queued, Place
  <2>3. Without(q, c) = r
    BY <1>2 DEF Without
  <2> HIDE DEF p
  <2>4. /\ r \in Seq(Owner)
        /\ Len(r) = Len(q) - 1
        /\ \A j \in 1..(Len(q) - 1) : r[j] = IF j < p THEN q[j] ELSE q[j + 1]
    BY <2>2, RemoveAtProperties
  <2> HIDE DEF r
  <2>5. q # <<>> /\ First(q) = q[1].conn
    BY <2>1, <2>2, FirstOf
  <2>6. ASSUME First(q) # c
        PROVE  First(r) = First(q)
    <3>1. p # 1
      BY <2>2, <2>5, <2>6
    <3>2. 1 \in 1..(Len(q) - 1) /\ 1 < p
      BY <2>1, <2>2, <3>1
    <3>3. r[1] = q[1]
      BY <2>4, <3>2
    <3>4. r # <<>>
      BY <2>4, <3>2, EmptySeq
    <3> QED BY <2>5, <3>3, <3>4 DEF First
  <2>7. ASSUME First(q) = c
        PROVE  First(r) = IF Len(q) = 1 THEN NoOne ELSE q[2].conn
    <3>1. 1 \in 1..Len(q)
      BY <2>1, <2>2
    <3>5. 1 \in DOMAIN q /\ p \in DOMAIN q /\ q[1].conn = q[p].conn
      BY <2>1, <2>2, <2>5, <2>7, <3>1
    <3>2. p = 1
      BY <3>5 DEF NoTwice
    <3>3. CASE Len(q) = 1
      <4>1. Len(r) = 0
        BY <2>4, <3>3
      <4>2. r = <<>>
        BY <2>4, <4>1, EmptySeq
      <4> QED BY <3>3, <4>2 DEF First
    <3>4. CASE Len(q) # 1
      <4>1. 1 \in 1..(Len(q) - 1) /\ ~(1 < p) /\ 1 + 1 = 2
        BY <2>1, <3>1, <3>2, <3>4
      <4>2. r[1] = q[2]
        BY <2>4, <4>1
      <4>3. r # <<>>
        BY <2>4, <4>1, EmptySeq
      <4> QED BY <3>4, <4>2, <4>3 DEF First
    <3> QED BY <3>3, <3>4
  <2> QED BY <2>3, <2>6, <2>7
<1> QED BY <1>1, <1>2

(* A new owner behind the first. *)
LEMMA FirstSecondIn ==
  ASSUME NEW q \in Seq(Owner), NEW o \in Owner
  PROVE  /\ q = <<>> => First(SecondIn(q, o)) = o.conn /\ First(Append(q, o)) = o.conn
         /\ q # <<>> => /\ First(SecondIn(q, o)) = First(q)
                        /\ Len(SecondIn(q, o)) >= 2
                        /\ SecondIn(q, o)[2] = o
                        /\ First(Append(q, o)) = First(q)
                        /\ Len(Append(q, o)) >= 2
<1>1. ASSUME q = <<>>
      PROVE  First(SecondIn(q, o)) = o.conn /\ First(Append(q, o)) = o.conn
  <2>1. SecondIn(q, o) = <<o>> /\ Append(q, o) = <<o>>
    BY <1>1 DEF SecondIn
  <2>2. <<o>> # <<>> /\ <<o>>[1] = o
    OBVIOUS
  <2> QED BY <2>1, <2>2 DEF First
<1>2. ASSUME q # <<>>
      PROVE  /\ First(SecondIn(q, o)) = First(q)
             /\ Len(SecondIn(q, o)) >= 2
             /\ SecondIn(q, o)[2] = o
             /\ First(Append(q, o)) = First(q)
             /\ Len(Append(q, o)) >= 2
  <2> DEFINE r == InsertAt(q, 2, o)
             s == Append(q, o)
  <2>1. Len(q) \in Nat /\ Len(q) > 0
    BY <1>2, LenProperties, EmptySeq
  <2>2. 2 \in 1..(Len(q) + 1) /\ 1 \in 1..(Len(q) + 1) /\ 1 \in 1..Len(q) /\ 1 < 2 /\ ~(2 < 2)
    BY <2>1
  <2>3. /\ r \in Seq(Owner)
        /\ Len(r) = Len(q) + 1
        /\ \A i \in 1..(Len(q) + 1) : r[i] = IF i < 2 THEN q[i] ELSE IF i = 2 THEN o ELSE q[i - 1]
    BY <2>2, InsertAtProperties
  <2>4. SecondIn(q, o) = r
    BY <1>2 DEF SecondIn
  <2>5. /\ s \in Seq(Owner)
        /\ Len(s) = Len(q) + 1
        /\ s[1] = q[1]
    BY <2>2, AppendProperties
  <2> HIDE DEF r, s
  <2>6. r[1] = q[1] /\ r[2] = o
    BY <2>2, <2>3
  <2>7. r # <<>> /\ s # <<>>
    BY <2>1, <2>3, <2>5, EmptySeq
  <2>8. Len(q) + 1 >= 2
    BY <2>1
  <2> QED BY <1>2, <2>3, <2>4, <2>5, <2>6, <2>7, <2>8 DEF First, s
<1> QED BY <1>1, <1>2

(* An entry replaced by another of the same client. *)
LEMMA FirstReplaced ==
  ASSUME NEW q \in Seq(Owner), NEW i, NEW o, i \in 1..Len(q) => o.conn = q[i].conn
  PROVE  /\ First([q EXCEPT ![i] = o]) = First(q)
         /\ Len([q EXCEPT ![i] = o]) = Len(q)
<1> DEFINE r == [q EXCEPT ![i] = o]
<1>1. DOMAIN q = 1..Len(q) /\ Len(q) \in Nat /\ DOMAIN r = DOMAIN q
  BY LenProperties
<1>2. \A j \in DOMAIN q : r[j].conn = q[j].conn
  BY <1>1
<1>3. Len(r) = Len(q)
  BY <1>1
<1> HIDE DEF r
<1>4. CASE q = <<>>
  <2>1. r = <<>>
    BY <1>1, <1>4 DEF r
  <2> QED BY <1>3, <1>4, <2>1 DEF r
<1>5. CASE q # <<>>
  <2>1. 1 \in DOMAIN q
    BY <1>5, FirstOf
  <2>2. r # <<>>
    BY <1>1, <2>1
  <2> QED BY <1>2, <1>3, <1>5, <2>1, <2>2 DEF First, r
<1> QED BY <1>4, <1>5

(* Linking a client that is not the head. *)
LEMMA LinkedProperties ==
  ASSUME NEW q \in Seq(Owner), NoTwice(q), NEW c \in Conn, NEW f \in AllFlags, First(q) # c
  PROVE  /\ Linked(q, c, f) \in Seq(Owner)
         /\ NoTwice(Linked(q, c, f))
         /\ \A d : Queued(Linked(q, c, f), d) <=> Queued(q, d) \/ d = c
         /\ q = <<>> => First(Linked(q, c, f)) = c
         /\ q # <<>> => First(Linked(q, c, f)) = First(q) /\ Len(Linked(q, c, f)) >= 2
         /\ q # <<>> /\ f.replace => Linked(q, c, f)[2].conn = c
         /\ First(Without(Linked(q, c, f), c)) = First(q)
<1> DEFINE o == OwnerOf(c, f)
           w == Without(q, c)
           p == Place(q, c)
           r == Linked(q, c, f)
<1>1. o \in Owner /\ o.conn = c
  BY OwnerOfType
<1>2. w \in Seq(Owner) /\ NoTwice(w) /\ ~Queued(w, c)
  BY WithoutProperties
<1>3. \A d : Queued(w, d) <=> Queued(q, d) /\ d # c
  BY QueuedWithout
<1>4. First(w) = First(q)
  BY FirstWithout
<1>5. q # <<>> => w # <<>>
  <2>1. ASSUME q # <<>>
        PROVE  w # <<>>
    <3>1. First(w) \in Conn
      BY <1>4, <2>1, FirstOf
    <3> QED BY <1>2, <3>1, FirstOf
  <2> QED BY <2>1
<1>6. CASE ~Queued(q, c)
  <2>1. r = IF f.replace THEN SecondIn(q, o) ELSE Append(q, o)
    BY <1>6 DEF Linked
  <2> HIDE DEF r, o
  <2>2. r \in Seq(Owner) /\ NoTwice(r)
    BY <1>1, <1>6, <2>1, SecondInProperties, AppendOwner
  <2>3. \A d : Queued(r, d) <=> Queued(q, d) \/ d = c
    BY <1>1, <2>1, QueuedAppend, QueuedSecondIn
  <2>4. /\ q = <<>> => First(r) = c
        /\ q # <<>> => First(r) = First(q) /\ Len(r) >= 2
        /\ q # <<>> /\ f.replace => r[2].conn = c
    BY <1>1, <2>1, FirstSecondIn
  <2>5. First(Without(r, c)) = First(q)
    <3>1. CASE q # <<>>
      BY <2>2, <2>4, <3>1, FirstWithout
    <3>2. CASE q = <<>>
      <4>1. \A d \in Conn : ~Queued(Without(r, c), d)
        BY <2>2, <2>3, <3>2, QueuedWithout, FirstOf
      <4>2. Without(r, c) = <<>>
        BY <2>2, <4>1, WithoutProperties, FirstOf
      <4> QED BY <3>2, <4>2
    <3> QED BY <3>1, <3>2
  <2> QED BY <2>2, <2>3, <2>4, <2>5 DEF r
<1>7. CASE Queued(q, c)
  <2>1. r = IF f.replace THEN SecondIn(w, o) ELSE [q EXCEPT ![p] = o]
    BY <1>7 DEF Linked
  <2>2. q # <<>>
    BY <1>7, FirstOf
  <2>3. p \in 1..Len(q) /\ q[p].conn = c /\ 1 \in DOMAIN q /\ First(q) = q[1].conn /\ Len(q) \in Nat
    BY <1>7, <2>2, FirstOf, LenProperties DEF Queued, Place
  <2> HIDE DEF r, o, w, p
  <2>4. Len(q) >= 2
    <3>1. p # 1
      BY <2>3
    <3> QED BY <2>3, <3>1
  <2>5. CASE f.replace
    <3>1. r \in Seq(Owner) /\ NoTwice(r)
      BY <1>1, <1>2, <2>1, <2>5, SecondInProperties
    <3>2. \A d : Queued(r, d) <=> Queued(q, d) \/ d = c
      BY <1>1, <1>2, <1>3, <2>1, <2>5, <1>7, QueuedSecondIn
    <3>3. First(r) = First(q) /\ Len(r) >= 2 /\ r[2].conn = c
      BY <1>1, <1>2, <1>4, <1>5, <2>1, <2>2, <2>5, FirstSecondIn
    <3>4. First(Without(r, c)) = First(q)
      BY <3>1, <3>3, FirstWithout
    <3> QED BY <2>2, <3>1, <3>2, <3>3, <3>4 DEF r
  <2>6. CASE ~f.replace
    <3>1. r = [q EXCEPT ![p] = o]
      BY <2>1, <2>6
    <3>2. r \in Seq(Owner) /\ NoTwice(r)
      BY <1>1, <2>3, <3>1, ReplacedOwner
    <3>3. \A d : Queued(r, d) <=> Queued(q, d) \/ d = c
      BY <1>1, <1>7, <2>3, <3>1, QueuedReplaced
    <3>6. p \in 1..Len(q) => o.conn = q[p].conn
      BY <1>1, <2>3
    <3>7. First([q EXCEPT ![p] = o]) = First(q) /\ Len([q EXCEPT ![p] = o]) = Len(q)
      BY <3>6, FirstReplaced
    <3>4. First(r) = First(q) /\ Len(r) >= 2
      BY <2>4, <3>1, <3>7
    <3>5. First(Without(r, c)) = First(q)
      BY <3>2, <3>4, FirstWithout
    <3> QED BY <2>2, <2>6, <3>2, <3>3, <3>4, <3>5 DEF r
  <2> QED BY <2>5, <2>6
<1> QED BY <1>6, <1>7

(* The first two exchanged. *)
LEMMA FirstSwapped ==
  ASSUME NEW q \in Seq(Owner), Len(q) >= 2
  PROVE  First(Swapped(q)) = q[2].conn
<1> DEFINE t == Tail(q)
<1>1. Len(q) \in Nat /\ q # <<>> /\ q[1] \in Owner
  BY LenProperties, EmptySeq, FirstOf, ElementOfSeq
<1>2. t \in Seq(Owner) /\ Len(t) = Len(q) - 1 /\ \A j \in 1..Len(t) : t[j] = q[j + 1]
  BY <1>1, HeadTailProperties
<1>3. Swapped(q) = SecondIn(t, q[1])
  BY <1>1 DEF Swapped
<1> HIDE DEF t
<1>4. 1 \in 1..Len(t) /\ 1 + 1 = 2
  BY <1>1, <1>2
<1>5. t[1] = q[2]
  BY <1>2, <1>4
<1>6. t # <<>>
  BY <1>2, <1>4, EmptySeq
<1>7. First(t) = t[1].conn
  BY <1>6 DEF First
<1>8. First(SecondIn(t, q[1])) = First(t)
  BY <1>1, <1>2, <1>6, FirstSecondIn
<1> QED BY <1>3, <1>5, <1>7, <1>8

-----------------------------------------------------------------------------
(* Sequences: what they list, and lists with at most one element of a set. *)

OneOf(s, X)  == \A i, j \in DOMAIN s : s[i] \in X /\ s[j] \in X => i = j
NoneOf(s, X) == \A x \in X : ~Lists(s, x)

LEMMA ListsShort ==
  ASSUME NEW X
  PROVE  /\ \A x : ~Lists(<<>>, x)
         /\ \A x, y : Lists(<<x>>, y) <=> y = x
         /\ \A x, y, z : Lists(<<x, y>>, z) <=> z = x \/ z = y
         /\ OneOf(<<>>, X)
         /\ \A x : OneOf(<<x>>, X)
         /\ \A x, y : x \notin X \/ y \notin X => OneOf(<<x, y>>, X)
<1>1. DOMAIN <<>> = {} /\ \A x : DOMAIN <<x>> = {1} /\ <<x>>[1] = x
  OBVIOUS
<1>2. \A x, y : DOMAIN <<x, y>> = {1, 2} /\ <<x, y>>[1] = x /\ <<x, y>>[2] = y
  OBVIOUS
<1> QED BY <1>1, <1>2 DEF Lists, OneOf

LEMMA ListsConcat ==
  ASSUME NEW S, NEW a \in Seq(S), NEW b \in Seq(S)
  PROVE  /\ a \o b \in Seq(S)
         /\ \A x : Lists(a \o b, x) <=> Lists(a, x) \/ Lists(b, x)
         /\ \A X : NoneOf(a, X) /\ OneOf(b, X) => OneOf(a \o b, X)
         /\ \A X : OneOf(a, X) /\ NoneOf(b, X) => OneOf(a \o b, X)
<1> DEFINE r == a \o b
           m == Len(a)
<1>1. /\ m \in Nat /\ Len(b) \in Nat
      /\ r \in Seq(S) /\ Len(r) = m + Len(b)
      /\ \A i \in 1..(m + Len(b)) : r[i] = IF i <= m THEN a[i] ELSE b[i - m]
      /\ DOMAIN a = 1..m /\ DOMAIN b = 1..Len(b) /\ DOMAIN r = 1..Len(r)
  BY LenProperties, ConcatProperties
<1> HIDE DEF r, m
<1>2. ASSUME NEW i \in DOMAIN r
      PROVE  \/ i <= m /\ i \in DOMAIN a /\ r[i] = a[i]
             \/ i > m /\ i - m \in DOMAIN b /\ r[i] = b[i - m]
  BY <1>1
<1>3. ASSUME NEW i \in DOMAIN a
      PROVE  i \in DOMAIN r /\ r[i] = a[i]
  BY <1>1
<1>4. ASSUME NEW i \in DOMAIN b
      PROVE  i + m \in DOMAIN r /\ r[i + m] = b[i]
  <2>1. i + m \in 1..(m + Len(b)) /\ ~(i + m <= m) /\ (i + m) - m = i
    BY <1>1
  <2> QED BY <1>1, <2>1
<1>5. ASSUME NEW x
      PROVE  Lists(r, x) <=> Lists(a, x) \/ Lists(b, x)
  <2>1. Lists(r, x) => Lists(a, x) \/ Lists(b, x)
    BY <1>2 DEF Lists
  <2>2. Lists(a, x) => Lists(r, x)
    BY <1>3 DEF Lists
  <2>3. Lists(b, x) => Lists(r, x)
    BY <1>4 DEF Lists
  <2> QED BY <2>1, <2>2, <2>3
<1>6. ASSUME NEW X, NoneOf(a, X), OneOf(b, X)
      PROVE  OneOf(r, X)
  <2>1. SUFFICES ASSUME NEW i \in DOMAIN r, NEW j \in DOMAIN r, r[i] \in X, r[j] \in X
                 PROVE  i = j
    BY DEF OneOf
  <2>2. \A k \in DOMAIN a : a[k] \notin X
    BY <1>6 DEF NoneOf, Lists
  <2>3. /\ i - m \in DOMAIN b /\ r[i] = b[i - m]
        /\ j - m \in DOMAIN b /\ r[j] = b[j - m]
    BY <1>2, <2>1, <2>2
  <2>4. i - m = j - m
    BY <1>6, <2>1, <2>3 DEF OneOf
  <2> QED BY <1>1, <2>4
<1>7. ASSUME NEW X, OneOf(a, X), NoneOf(b, X)
      PROVE  OneOf(r, X)
  <2>1. SUFFICES ASSUME NEW i \in DOMAIN r, NEW j \in DOMAIN r, r[i] \in X, r[j] \in X
                 PROVE  i = j
    BY DEF OneOf
  <2>2. \A k \in DOMAIN b : b[k] \notin X
    BY <1>7 DEF NoneOf, Lists
  <2>3. i \in DOMAIN a /\ r[i] = a[i] /\ j \in DOMAIN a /\ r[j] = a[j]
    BY <1>2, <2>1, <2>2
  <2> QED BY <1>7, <2>1, <2>3 DEF OneOf
<1> QED BY <1>1, <1>5, <1>6, <1>7 DEF r

LEMMA ListsTail ==
  ASSUME NEW S, NEW s \in Seq(S), s # <<>>
  PROVE  /\ Head(s) \in S /\ Tail(s) \in Seq(S)
         /\ s = <<Head(s)>> \o Tail(s)
         /\ \A x : Lists(s, x) <=> x = Head(s) \/ Lists(Tail(s), x)
         /\ \A X : OneOf(s, X) => OneOf(Tail(s), X)
         /\ \A X : OneOf(s, X) /\ Head(s) \in X => NoneOf(Tail(s), X)
<1> DEFINE t == Tail(s)
           h == Head(s)
<1>1. /\ Len(s) \in Nat /\ Len(s) > 0 /\ h = s[1]
      /\ h \in S /\ t \in Seq(S) /\ Len(t) = Len(s) - 1
      /\ \A i \in 1..Len(t) : t[i] = s[i + 1]
      /\ DOMAIN s = 1..Len(s)
  BY LenProperties, EmptySeq, HeadTailProperties
<1> HIDE DEF t, h
<1>2. DOMAIN t = 1..Len(t)
  BY <1>1, LenProperties
<1>3. ASSUME NEW i \in DOMAIN t
      PROVE  i + 1 \in DOMAIN s /\ i + 1 # 1 /\ t[i] = s[i + 1]
  BY <1>1, <1>2
<1>4. ASSUME NEW i \in DOMAIN s, i # 1
      PROVE  i - 1 \in DOMAIN t /\ t[i - 1] = s[i]
  <2>1. i - 1 \in 1..Len(t) /\ (i - 1) + 1 = i
    BY <1>1, <1>4
  <2> QED BY <1>1, <1>2, <2>1
<1>5. 1 \in DOMAIN s
  BY <1>1
<1>6. \A x : Lists(s, x) <=> x = h \/ Lists(t, x)
  <2>1. ASSUME NEW x, Lists(s, x)
        PROVE  x = h \/ Lists(t, x)
    BY <1>1, <1>4, <2>1 DEF Lists
  <2>2. ASSUME NEW x, x = h \/ Lists(t, x)
        PROVE  Lists(s, x)
    BY <1>1, <1>3, <1>5, <2>2 DEF Lists
  <2> QED BY <2>1, <2>2
<1>7. ASSUME NEW X, OneOf(s, X)
      PROVE  OneOf(t, X) /\ (h \in X => NoneOf(t, X))
  <2>1. ASSUME NEW i \in DOMAIN t, NEW j \in DOMAIN t, t[i] \in X, t[j] \in X
        PROVE  i = j
    <3>1. i + 1 = j + 1
      BY <1>3, <1>7, <2>1 DEF OneOf
    <3> QED BY <1>2, <3>1
  <2>2. ASSUME h \in X, NEW i \in DOMAIN t, t[i] \in X
        PROVE  FALSE
    <3>1. i + 1 = 1
      BY <1>1, <1>3, <1>5, <1>7, <2>2 DEF OneOf
    <3> QED BY <1>3, <3>1
  <2> QED BY <2>1, <2>2 DEF OneOf, NoneOf, Lists
<1>8. s = <<h>> \o t
  <2> DEFINE r == <<h>> \o t
  <2>1. r \in Seq(S) /\ Len(r) = Len(t) + 1 /\ r[1] = h /\ \A j \in 1..Len(t) : r[j + 1] = t[j]
    BY <1>1, ConsProperties
  <2> HIDE DEF r
  <2>2. Len(r) = Len(s)
    BY <1>1, <2>1
  <2>3. ASSUME NEW i \in 1..Len(s)
        PROVE  s[i] = r[i]
    <3>1. CASE i = 1
      BY <1>1, <2>1, <3>1
    <3>2. CASE i # 1
      <4>1. i - 1 \in 1..Len(t) /\ (i - 1) + 1 = i /\ t[i - 1] = s[i]
        BY <1>1, <1>2, <1>4, <3>2
      <4> QED BY <2>1, <4>1
    <3> QED BY <3>1, <3>2
  <2>4. s = r
    BY <2>1, <2>2, <2>3, SeqEqual
  <2> QED BY <2>4 DEF r
<1> QED BY <1>1, <1>6, <1>7, <1>8 DEF t, h

LEMMA HeadTailConcat ==
  ASSUME NEW S, NEW x \in S, NEW b \in Seq(S)
  PROVE  /\ Head(<<x>> \o b) = x /\ Tail(<<x>> \o b) = b /\ <<x>> \o b # <<>>
         /\ \A a \in Seq(S) : a # <<>> =>
              /\ a \o b # <<>>
              /\ Head(a \o b) = Head(a)
              /\ Tail(a \o b) = Tail(a) \o b
<1>1. ASSUME NEW y \in S, NEW c \in Seq(S)
      PROVE  Head(<<y>> \o c) = y /\ Tail(<<y>> \o c) = c /\ <<y>> \o c # <<>>
  <2> DEFINE r == <<y>> \o c
  <2>1. /\ r \in Seq(S) /\ Len(r) = Len(c) + 1 /\ r[1] = y
        /\ \A j \in 1..Len(c) : r[j + 1] = c[j]
    BY ConsProperties
  <2> HIDE DEF r
  <2>5. Len(c) \in Nat
    BY LenProperties
  <2>2. r # <<>>
    BY <2>1, <2>5, EmptySeq
  <2>3. Head(r) = y /\ Tail(r) \in Seq(S) /\ Len(Tail(r)) = Len(c)
        /\ \A j \in 1..Len(Tail(r)) : Tail(r)[j] = r[j + 1]
    BY <2>1, <2>2, <2>5, HeadTailProperties
  <2>4. Tail(r) = c
    BY <2>1, <2>3, SeqEqual
  <2> QED BY <2>2, <2>3, <2>4 DEF r
<1>2. ASSUME NEW a \in Seq(S), a # <<>>
      PROVE  /\ a \o b # <<>>
             /\ Head(a \o b) = Head(a)
             /\ Tail(a \o b) = Tail(a) \o b
  <2>1. Head(a) \in S /\ Tail(a) \in Seq(S) /\ a = <<Head(a)>> \o Tail(a)
    BY <1>2, ListsTail
  <2> DEFINE h == <<Head(a)>>
             t == Tail(a)
  <2>2. h \in Seq(S)
    BY <2>1
  <2>3. a \o b = h \o (t \o b)
    BY <2>1, <2>2, ConcatAssociative
  <2>4. t \o b \in Seq(S)
    BY <2>1, ConcatProperties
  <2> QED BY <1>1, <2>1, <2>3, <2>4
<1> QED BY <1>1, <1>2

LEMMA ListsCons ==
  ASSUME NEW S, NEW x \in S, NEW b \in Seq(S)
  PROVE  /\ <<x>> \o b \in Seq(S)
         /\ \A y : Lists(<<x>> \o b, y) <=> y = x \/ Lists(b, y)
         /\ \A X : NoneOf(b, X) \/ (x \notin X /\ OneOf(b, X)) => OneOf(<<x>> \o b, X)
<1> DEFINE y == <<x>>
           r == y \o b
<1>0. y \in Seq(S)
  OBVIOUS
<1>4. \A z : Lists(y, z) <=> z = x
  BY ListsShort
<1>5. \A X : OneOf(y, X)
  BY ListsShort
<1> HIDE DEF y
<1>1. /\ y \in Seq(S)
      /\ \A z : Lists(y, z) <=> z = x
      /\ \A X : OneOf(y, X)
      /\ \A X : x \notin X => NoneOf(y, X)
  BY <1>0, <1>4, <1>5 DEF NoneOf
<1>2. /\ r \in Seq(S)
      /\ \A z : Lists(r, z) <=> Lists(y, z) \/ Lists(b, z)
      /\ \A X : NoneOf(y, X) /\ OneOf(b, X) => OneOf(r, X)
      /\ \A X : OneOf(y, X) /\ NoneOf(b, X) => OneOf(r, X)
  BY <1>1, ListsConcat
<1> HIDE DEF r
<1>3. /\ r \in Seq(S)
      /\ \A z : Lists(r, z) <=> z = x \/ Lists(b, z)
      /\ \A X : NoneOf(b, X) \/ (x \notin X /\ OneOf(b, X)) => OneOf(r, X)
  BY <1>1, <1>2
<1> QED BY <1>3 DEF r, y

LEMMA ListsAppended ==
  ASSUME NEW S, NEW s \in Seq(S), NEW e \in S
  PROVE  /\ \A x : Lists(Append(s, e), x) <=> Lists(s, x) \/ x = e
         /\ \A X : NoneOf(s, X) \/ (OneOf(s, X) /\ e \notin X) => OneOf(Append(s, e), X)
<1>1. <<e>> \in Seq(S) /\ Append(s, e) = s \o <<e>>
  BY AppendIsConcat
<1>2. /\ \A x : Lists(<<e>>, x) <=> x = e
      /\ \A X : OneOf(<<e>>, X)
      /\ \A X : e \notin X => NoneOf(<<e>>, X)
  BY ListsShort DEF NoneOf
<1> DEFINE y == <<e>>
           r == s \o y
<1>3. /\ \A x : Lists(r, x) <=> Lists(s, x) \/ Lists(y, x)
      /\ \A X : NoneOf(s, X) /\ OneOf(y, X) => OneOf(r, X)
      /\ \A X : OneOf(s, X) /\ NoneOf(y, X) => OneOf(r, X)
  BY <1>1, ListsConcat
<1> HIDE DEF y, r
<1>4. /\ \A x : Lists(y, x) <=> x = e
      /\ \A X : OneOf(y, X)
      /\ \A X : e \notin X => NoneOf(y, X)
  BY <1>2 DEF y
<1>5. Append(s, e) = r
  BY <1>1 DEF r, y
<1> QED BY <1>3, <1>4, <1>5

-----------------------------------------------------------------------------
(* The invariant.  A handler takes the queues from owners to their final   *)
(* state q by the calls it still has to make.  Its signals are about q and *)
(* are queued before the calls that change a head; its replies are true    *)
(* in q.                                                                   *)

OwnerCalls == Removal \cup {"link_owner", "set_flags"}

Signal(m) == m.kind \in {"acquired", "lost", "changed"}

(* Calls that change no queue and send no signal, and those made before the
   call that changes a queue. *)
Plain(k) == k.call \notin OwnerCalls /\ (k.call = "send" => ~Signal(k.msg))
Early(k) == k.call \in {"send", "notify", "complete"}

AllPlain(s) == \A k : Lists(s, k) => Plain(k)
AllEarly(s) == \A k : Lists(s, k) => Early(k)

(* What a call does to a queue in the end, and to the queues. *)
Effect(k, q) ==
  CASE k.call = "link_owner"   -> Linked(q, k.conn, k.flags)
    [] k.call = "set_flags"    -> [q EXCEPT ![1] = OwnerOf(First(q), k.flags)]
    [] k.call = "remove_owner" -> Without(q, k.conn)
    [] k.call = "unlink_owner" -> Without(q, k.owner.conn)
    [] OTHER                   -> Swapped(q)

After(k, p) == [p EXCEPT ![k.name] = Effect(k, p[k.name])]

(* The messages that are sent if the transaction executes. *)
Coming(m) == Lists(msgs, m) \/ Lists(todo, Send(m))

Changes ==
  {Changed(n, o, w) : n \in AnyName, o \in Conn \cup {NoOne}, w \in Conn \cup {NoOne}}

Announcing == {Send(m) : m \in Changes}

(* At most one NameOwnerChanged signal. *)
OneChange ==
  /\ OneOf(msgs, Changes) /\ OneOf(todo, Announcing)
  /\ NoneOf(msgs, Changes) \/ NoneOf(todo, Announcing)

(* The signals tell of the heads of the queues p. *)
Announces(p) ==
  /\ OneChange
  /\ \A n \in AnyName :
       /\ \A o, w : Coming(Changed(n, o, w)) => o = watched[n] /\ w = First(p[n]) /\ o # w
       /\ (\A o, w : ~Coming(Changed(n, o, w))) => watched[n] = First(p[n])
  /\ \A n \in AnyName, c \in Conn : Connected(c) =>
       /\ Coming(Acquired(c, n)) => First(p[n]) = c
       /\ Coming(Lost(c, n)) => First(p[n]) # c
       /\ ~Coming(Acquired(c, n)) /\ ~Coming(Lost(c, n)) => (n \in told[c] <=> First(p[n]) = c)

(* Everybody knows the heads of the queues p. *)
Agree(p) ==
  /\ \A n \in AnyName : watched[n] = First(p[n])
  /\ \A n \in AnyName, c \in Conn : Connected(c) => (n \in told[c] <=> First(p[n]) = c)

(* What a reply says of a queue. *)
Honest(q, c, r) ==
  CASE r \in {"welcome", "primary", "already"} -> First(q) = c
    [] r = "queued" -> Queued(q, c) /\ First(q) # c
    [] OTHER -> ~Queued(q, c)

Answers(p) == \A c, n, r : Coming(Reply(c, n, r)) => Honest(p[n], c, r)

(* What a cancelled transaction undoes. *)
Undoes(n, c) == Lists(hooks, CancelOwnership(n, c))
NoCancel == \A n, c : ~Undoes(n, c)

Undone(n) ==
  \/ (\A c : ~Undoes(n, c)) /\ First(owners[n]) = First(before[n])
  \/ \E c : /\ Undoes(n, c)
            /\ \A d : Undoes(n, d) => d = c
            /\ First(Without(owners[n], c)) = First(before[n])

Undoable == Agree(before) /\ (Restoring \/ \A n \in AnyName : Undone(n))

-----------------------------------------------------------------------------
(* How far a handler is. *)

Done(p) == AllPlain(todo) /\ p = owners

LinkFits(k) ==
  /\ First(owners[k.name]) # k.conn
  /\ k.name \in Conn => k.conn = k.name
  /\ NoCancel

(* One call is left, and its signals are queued. *)
OneLeft(p) ==
  \E a \in Seq(Call), k \in Call, b \in Seq(Call) :
    /\ todo = a \o (<<k>> \o b)
    /\ AllEarly(a) /\ AllPlain(b)
    /\ k.call \in {"link_owner", "set_flags", "unlink_owner", "swap_links"}
    /\ k.call = "link_owner" => LinkFits(k)
    /\ k.call = "set_flags" => NoCancel
    /\ p = After(k, owners)

(* The owner that goes is removed, or makes way: its signals come. *)
Leaving(k) ==
  /\ k.call \in {"remove_owner", "swap_owner"}
  /\ First(owners[k.name]) = k.conn \/ NoCancel

TopLeft(p) ==
  \E k \in Call, b \in Seq(Call) :
    /\ todo = <<k>> \o b
    /\ Leaving(k) /\ AllPlain(b)
    /\ k.call = "swap_owner" => Len(owners[k.name]) >= 2
    /\ p = After(k, owners)

(* A client takes the place of the primary owner. *)
TwoLeft(p) ==
  \E l \in Call, k \in Call, b \in Seq(Call) :
    /\ todo = <<l>> \o (<<k>> \o b)
    /\ l.call = "link_owner" /\ LinkFits(l)
    /\ Leaving(k) /\ First(owners[k.name]) = k.conn /\ l.name = k.name
    /\ AllPlain(b)
    /\ p = After(k, After(l, owners))

Stage(p) ==
  \/ (Done(p) \/ OneLeft(p)) /\ Announces(p)
  \/ (TopLeft(p) \/ TwoLeft(p)) /\ msgs = <<>> /\ Agree(owners)

Works == \E p \in [AnyName -> Seq(Owner)] : Stage(p) /\ Answers(p)

(* A unique name is in the queue of no other client. *)
Unique == \A n, c \in Conn : Queued(owners[n], c) => c = n

SignalInv ==
  /\ Unique
  /\ phase \in {"idle", "round"} => msgs = <<>> /\ Agree(owners)
  /\ phase = "cancel" => msgs = <<>> /\ Undoable
  /\ phase = "run" => Works /\ (todo # <<>> => Undoable)

-----------------------------------------------------------------------------
(* Messages and hooks.                                                     *)

LEMMA MessageForm ==
  ASSUME NEW m \in Message
  PROVE  /\ m.kind = "changed" <=> m \in Changes
         /\ m.kind = "changed" => m = Changed(m.name, m.old, m.new)
         /\ m.kind = "acquired" => m = Acquired(m.to, m.name)
         /\ m.kind = "lost" => m = Lost(m.to, m.name)
         /\ m.kind = "reply" => m = Reply(m.to, m.name, m.result)
<1> USE DEF Acquired, Lost, Changed, Reply, Failure, Answer, Handover
<1>0. m \in Changes => m.kind = "changed"
  BY DEF Changes
<1>1. CASE m \in {Acquired(c, n) : c \in Conn, n \in AnyName}
  BY <1>0, <1>1
<1>2. CASE m \in {Lost(c, n) : c \in Conn, n \in AnyName}
  BY <1>0, <1>2
<1>3. CASE m \in {Changed(n, o, w) : n \in AnyName, o \in Conn \cup {NoOne}, w \in Conn \cup {NoOne}}
  <2>1. m \in Changes
    BY <1>3 DEF Changes
  <2> QED BY <1>0, <1>3, <2>1
<1>4. CASE m \in {Reply(c, n, r) : c \in Conn, n \in AnyName, r \in Result}
  BY <1>0, <1>4
<1>5. CASE m \in {Failure(c) : c \in Conn}
  BY <1>0, <1>5
<1>6. CASE \/ m \in {Answer(c, n) : c \in Conn, n \in Name}
           \/ m \in {Handover(c, n) : c \in Conn, n \in Name}
  BY <1>0, <1>6
<1> QED BY <1>1, <1>2, <1>3, <1>4, <1>5, <1>6 DEF Message

LEMMA MessageKinds ==
  /\ \A c, n : /\ Signal(Acquired(c, n)) /\ Acquired(c, n).to = c
               /\ Acquired(c, n).kind = "acquired" /\ Acquired(c, n).name = n
               /\ Signal(Lost(c, n)) /\ Lost(c, n).to = c
               /\ Lost(c, n).kind = "lost" /\ Lost(c, n).name = n
  /\ \A n, o, w : /\ Signal(Changed(n, o, w)) /\ Changed(n, o, w).kind = "changed"
                  /\ Changed(n, o, w).name = n /\ Changed(n, o, w).new = w
                  /\ Changed(n, o, w).old = o /\ Changed(n, o, w).to = NoOne
  /\ \A c, n, r : /\ Reply(c, n, r).kind = "reply" /\ ~Signal(Reply(c, n, r))
                  /\ Reply(c, n, r).to = c /\ Reply(c, n, r).name = n
                  /\ Reply(c, n, r).result = r
  /\ \A c : Failure(c).kind = "error"
  /\ \A c, n : Answer(c, n).kind = "answer" /\ Handover(c, n).kind = "handover"
BY DEF Signal, Acquired, Lost, Changed, Reply, Failure, Answer, Handover

(* A call that sends. *)
LEMMA SendForm ==
  /\ \A k \in Call : k.call = "send" => k.msg \in Message /\ k = Send(k.msg)
  /\ \A m : Send(m).call = "send" /\ Send(m).msg = m
  /\ \A m, x : Send(m) = Send(x) <=> m = x
  /\ \A m : Send(m) \in Announcing <=> m \in Changes
  /\ \A k \in Announcing : k.call = "send" /\ k.msg \in Changes
<1>1. \A m : Send(m).call = "send" /\ Send(m).msg = m
  BY DEF Send
<1>2. \A m, x : Send(m) = Send(x) <=> m = x
  BY <1>1
<1>3. \A m : Send(m) \in Announcing <=> m \in Changes
  BY <1>2 DEF Announcing
<1>4. \A k \in Announcing : k.call = "send" /\ k.msg \in Changes
  BY <1>1 DEF Announcing
<1>5. ASSUME NEW k \in Call, k.call = "send"
      PROVE  k.msg \in Message /\ k = Send(k.msg)
  <2>1. k \in {Send(m) : m \in Message}
    BY <1>5 DEF Call, LinkOwner, SetFlags, RemoveOwner, UnlinkOwner, SwapOwner, SwapLinks,
                Notify, SendHeld, Dispatch, Forget, Register, Spawn, Complete, Drop
  <2> QED BY <1>1, <2>1
<1> QED BY <1>1, <1>2, <1>3, <1>4, <1>5

(* Sequences without signals announce nothing. *)
LEMMA PlainSequences ==
  /\ AllPlain(<<>>) /\ AllEarly(<<>>)
  /\ \A x : Plain(x) => AllPlain(<<x>>)
  /\ \A x : Early(x) => AllEarly(<<x>>)
  /\ \A a, b \in Seq(Call) : /\ AllPlain(a) /\ AllPlain(b) => AllPlain(a \o b)
                             /\ AllEarly(a) /\ AllEarly(b) => AllEarly(a \o b)
  /\ \A a \in Seq(Call) : AllPlain(a) =>
       /\ NoneOf(a, Announcing)
       /\ \A m : Signal(m) => ~Lists(a, Send(m))
  /\ \A a \in Seq(Call) : a # <<>> => /\ AllPlain(a) => Plain(Head(a)) /\ AllPlain(Tail(a))
                                      /\ AllEarly(a) => Early(Head(a)) /\ AllEarly(Tail(a))
<1>1. /\ AllPlain(<<>>) /\ AllEarly(<<>>)
      /\ \A x : Plain(x) => AllPlain(<<x>>)
      /\ \A x : Early(x) => AllEarly(<<x>>)
  BY ListsShort DEF AllPlain, AllEarly
<1>2. ASSUME NEW a \in Seq(Call), NEW b \in Seq(Call)
      PROVE  /\ AllPlain(a) /\ AllPlain(b) => AllPlain(a \o b)
             /\ AllEarly(a) /\ AllEarly(b) => AllEarly(a \o b)
  <2>1. \A x : Lists(a \o b, x) <=> Lists(a, x) \/ Lists(b, x)
    BY ListsConcat
  <2> QED BY <2>1 DEF AllPlain, AllEarly
<1>3. ASSUME NEW a \in Seq(Call), AllPlain(a)
      PROVE  /\ NoneOf(a, Announcing)
             /\ \A m : Signal(m) => ~Lists(a, Send(m))
  <2>1. \A m : Signal(m) => ~Lists(a, Send(m))
    BY <1>3, SendForm DEF AllPlain, Plain
  <2>2. \A m \in Changes : Signal(m)
    BY MessageKinds DEF Changes
  <2> QED BY <2>1, <2>2 DEF NoneOf, Announcing
<1>4. ASSUME NEW a \in Seq(Call), a # <<>>
      PROVE  /\ AllPlain(a) => Plain(Head(a)) /\ AllPlain(Tail(a))
             /\ AllEarly(a) => Early(Head(a)) /\ AllEarly(Tail(a))
  <2>1. \A x : Lists(a, x) <=> x = Head(a) \/ Lists(Tail(a), x)
    BY <1>4, ListsTail
  <2> QED BY <2>1 DEF AllPlain, AllEarly
<1> QED BY <1>1, <1>2, <1>3, <1>4

(* A hook that cancels is added or gone. *)
LEMMA HookForm ==
  /\ \A h \in Hook : h.hook = "cancel_ownership" => h = CancelOwnership(h.name, h.conn)
  /\ \A n, c : CancelOwnership(n, c).hook = "cancel_ownership"
  /\ \A n, c, m, d : CancelOwnership(n, c) = CancelOwnership(m, d) <=> n = m /\ c = d
<1>1. \A n, c : /\ CancelOwnership(n, c).hook = "cancel_ownership"
                /\ CancelOwnership(n, c).name = n /\ CancelOwnership(n, c).conn = c
  BY DEF CancelOwnership
<1>2. ASSUME NEW h \in Hook, h.hook = "cancel_ownership"
      PROVE  h = CancelOwnership(h.name, h.conn)
  <2>1. h \in {CancelOwnership(n, c) : n \in AnyName, c \in Conn}
    BY <1>2 DEF Hook, CancelPending
  <2> QED BY <1>1, <2>1
<1> QED BY <1>1, <1>2

LEMMA UndoesAdded ==
  ASSUME TypeOK, NEW h \in Hook, hooks' = <<h>> \o hooks
  PROVE  /\ h.hook # "cancel_ownership" => \A n, c : Undoes(n, c)' <=> Undoes(n, c)
         /\ \A m, d : h = CancelOwnership(m, d) =>
              \A n, c : Undoes(n, c)' <=> (n = m /\ c = d) \/ Undoes(n, c)
         /\ Restoring => Restoring'
         /\ h.hook = "restore_ownership" => Restoring'
<1>1. hooks \in Seq(Hook)
  BY DEF TypeOK
<1>2. hooks' \in Seq(Hook) /\ \A x : Lists(hooks', x) <=> x = h \/ Lists(hooks, x)
  BY <1>1, ListsCons
<1>3. /\ DOMAIN hooks = 1..Len(hooks) /\ DOMAIN hooks' = 1..Len(hooks')
  BY <1>1, <1>2, LenProperties
<1>4. /\ \A x : Lists(hooks, x) /\ x.hook = "restore_ownership" => Restoring
      /\ \A x : Lists(hooks', x) /\ x.hook = "restore_ownership" => Restoring'
      /\ Restoring => \E x : Lists(hooks, x) /\ x.hook = "restore_ownership"
  BY <1>3 DEF Restoring, Lists
<1>5. \A n, c : Undoes(n, c)' <=> CancelOwnership(n, c) = h \/ Undoes(n, c)
  BY <1>2 DEF Undoes, Lists
<1> QED BY <1>2, <1>4, <1>5, HookForm

LEMMA UndoesGone ==
  ASSUME TypeOK, hooks # <<>>, hooks' = Tail(hooks)
  PROVE  \A n, c : Undoes(n, c) <=> CancelOwnership(n, c) = Head(hooks) \/ Undoes(n, c)'
<1>1. \A x : Lists(hooks, x) <=> x = Head(hooks) \/ Lists(hooks', x)
  BY ListsTail DEF TypeOK
<1> QED BY <1>1 DEF Undoes, Lists

-----------------------------------------------------------------------------
(* Steps that keep the signals and the replies that come.                  *)

Kept ==
  /\ \A m : (Signal(m) \/ m.kind = "reply") /\ Coming(m)' => Coming(m)
  /\ \A m : Signal(m) /\ Reaches(m) /\ Coming(m) => Coming(m)'
  /\ OneChange => OneChange'
  /\ UNCHANGED <<told, watched>>
  /\ \A c \in Conn : Connected(c)' => Connected(c)

(* Queues with the same heads. *)
SameHeads(p, q) == \A n \in AnyName : First(p[n]) = First(q[n])

LEMMA KeptAnnounces ==
  ASSUME Kept, NEW p, NEW q, SameHeads(p, q), Announces(q)
  PROVE  Announces(p)'
<1>1. \A n, o, w : Coming(Changed(n, o, w))' <=> Coming(Changed(n, o, w))
  BY MessageKinds DEF Kept, Reaches
<1>2. \A n, c : c \in Conn /\ Connected(c) =>
        /\ Coming(Acquired(c, n))' <=> Coming(Acquired(c, n))
        /\ Coming(Lost(c, n))' <=> Coming(Lost(c, n))
  BY MessageKinds DEF Kept, Reaches
<1>3. /\ \A n \in AnyName : watched'[n] = watched[n] /\ First(p[n]) = First(q[n])
      /\ \A c \in Conn : told'[c] = told[c] /\ (Connected(c)' => Connected(c))
  BY DEF Kept, SameHeads
<1>4. ASSUME NEW n \in AnyName
      PROVE  /\ \A o, w : Coming(Changed(n, o, w))' => o = watched'[n] /\ w = First(p[n]) /\ o # w
             /\ (\A o, w : ~Coming(Changed(n, o, w))') => watched'[n] = First(p[n])
  BY <1>1, <1>3 DEF Announces
<1>5. ASSUME NEW n \in AnyName, NEW c \in Conn, Connected(c)'
      PROVE  /\ Coming(Acquired(c, n))' => First(p[n]) = c
             /\ Coming(Lost(c, n))' => First(p[n]) # c
             /\ ~Coming(Acquired(c, n))' /\ ~Coming(Lost(c, n))' =>
                  (n \in told'[c] <=> First(p[n]) = c)
  BY <1>2, <1>3, <1>5 DEF Announces
<1>6. OneChange'
  BY DEF Kept, Announces
<1> QED BY <1>4, <1>5, <1>6 DEF Announces

LEMMA KeptAnswers ==
  ASSUME Kept, NEW p, Answers(p)
  PROVE  Answers(p)'
<1>1. \A c, n, r : Coming(Reply(c, n, r))' => Coming(Reply(c, n, r))
  BY MessageKinds DEF Kept
<1> QED BY <1>1 DEF Answers

LEMMA KeptAgree ==
  ASSUME UNCHANGED <<told, watched>>, \A c \in Conn : Connected(c)' => Connected(c),
         NEW p, NEW q, SameHeads(p, q), Agree(q)
  PROVE  Agree(p)'
BY DEF Agree, SameHeads

(* A call returns; it may have sent a message. *)
LEMMA ReturnKept ==
  ASSUME TypeOK, NEW f, Calling(f), Return, UNCHANGED <<told, watched, link>>,
         \/ f # "send" /\ msgs' = msgs
         \/ /\ f # "send"
            /\ \E x \in Message : x.kind \in {"answer", "handover"} /\ msgs' = Append(msgs, x)
         \/ f = "send" /\ msgs' = IF Reaches(Top.msg) THEN Append(msgs, Top.msg) ELSE msgs
  PROVE  Kept
<1>1. /\ todo \in Seq(Call) /\ todo # <<>> /\ msgs \in Seq(Message)
      /\ Top \in Call /\ Top.call = f /\ todo' = Tail(todo) /\ Top = Head(todo)
  BY NextCall DEF Calling, Return, TypeOK, Top
<1>2. /\ \A x : Lists(todo, x) <=> x = Top \/ Lists(todo', x)
      /\ OneOf(todo, Announcing) => OneOf(todo', Announcing)
      /\ OneOf(todo, Announcing) /\ Top \in Announcing => NoneOf(todo', Announcing)
  BY <1>1, ListsTail
<1>3. NoneOf(todo, Announcing) => NoneOf(todo', Announcing) /\ Top \notin Announcing
  BY <1>2 DEF NoneOf
<1>4. \A c \in Conn : Connected(c)' => Connected(c)
  BY DEF Connected
<1>5. \A m : Coming(m)' <=> Lists(msgs', m) \/ Lists(todo', Send(m))
  BY DEF Coming, Lists
<1>6. OneChange' <=> /\ OneOf(msgs', Changes) /\ OneOf(todo', Announcing)
                     /\ NoneOf(msgs', Changes) \/ NoneOf(todo', Announcing)
  BY DEF OneChange, OneOf, NoneOf, Lists
<1>7. CASE f # "send" /\ msgs' = msgs
  <2>1. \A m : Top # Send(m)
    BY <1>1, <1>7, SendForm
  <2>2. \A m : Coming(m)' <=> Coming(m)
    BY <1>2, <1>5, <1>7, <2>1 DEF Coming
  <2>3. OneChange => OneChange'
    BY <1>2, <1>3, <1>6, <1>7 DEF OneChange
  <2> QED BY <1>4, <2>2, <2>3 DEF Kept
<1>8. CASE /\ f # "send"
           /\ \E x \in Message : x.kind \in {"answer", "handover"} /\ msgs' = Append(msgs, x)
  <2>1. PICK x \in Message : x.kind \in {"answer", "handover"} /\ msgs' = Append(msgs, x)
    BY <1>8
  <2>2. x \notin Changes
    BY <2>1, MessageForm
  <2>3. /\ \A m : Lists(msgs', m) <=> Lists(msgs, m) \/ m = x
        /\ OneOf(msgs, Changes) => OneOf(msgs', Changes)
    BY <1>1, <2>1, <2>2, ListsAppended
  <2>4. NoneOf(msgs, Changes) => NoneOf(msgs', Changes)
    BY <2>2, <2>3 DEF NoneOf
  <2>5. \A m : Top # Send(m)
    BY <1>1, <1>8, SendForm
  <2>6. \A m : Signal(m) \/ m.kind = "reply" => m # x
    BY <2>1 DEF Signal
  <2>7. \A m : Signal(m) \/ m.kind = "reply" => (Coming(m)' <=> Coming(m))
    BY <1>2, <1>5, <2>3, <2>5, <2>6 DEF Coming
  <2>8. OneChange => OneChange'
    BY <1>2, <1>3, <1>6, <2>3, <2>4 DEF OneChange
  <2> QED BY <1>4, <2>7, <2>8 DEF Kept
<1>9. CASE f = "send" /\ msgs' = IF Reaches(Top.msg) THEN Append(msgs, Top.msg) ELSE msgs
  <2> DEFINE x == Top.msg
  <2>1. x \in Message /\ Top = Send(x) /\ (Top \in Announcing <=> x \in Changes)
    BY <1>1, <1>9, SendForm
  <2> HIDE DEF x
  <2>2. /\ \A m : Lists(Append(msgs, x), m) <=> Lists(msgs, m) \/ m = x
        /\ NoneOf(msgs, Changes) => OneOf(Append(msgs, x), Changes)
        /\ OneOf(msgs, Changes) /\ x \notin Changes => OneOf(Append(msgs, x), Changes)
    BY <1>1, <2>1, ListsAppended
  <2>3. msgs' = IF Reaches(x) THEN Append(msgs, x) ELSE msgs
    BY <1>9 DEF x
  <2>4. \A m : Top = Send(m) <=> m = x
    BY <2>1, SendForm
  <2>5. \A m : Coming(m)' => Coming(m)
    BY <1>2, <1>5, <2>2, <2>3, <2>4 DEF Coming
  <2>6. \A m : Reaches(m) /\ Coming(m) => Coming(m)'
    BY <1>2, <1>5, <2>2, <2>3, <2>4 DEF Coming
  <2>7. ASSUME OneChange
        PROVE  OneChange'
    <3>1. CASE x \in Changes
      <4>1. NoneOf(todo', Announcing) /\ NoneOf(msgs, Changes)
        BY <1>2, <1>3, <2>1, <2>7, <3>1 DEF OneChange
      <4>2. OneOf(msgs', Changes)
        BY <2>2, <2>3, <2>7, <4>1 DEF OneChange
      <4> QED BY <1>2, <1>6, <2>7, <4>1, <4>2 DEF OneChange
    <3>2. CASE x \notin Changes
      <4>1. OneOf(msgs', Changes)
        BY <2>2, <2>3, <2>7, <3>2 DEF OneChange
      <4>2. NoneOf(msgs, Changes) => NoneOf(msgs', Changes)
        BY <2>2, <2>3, <3>2 DEF NoneOf
      <4> QED BY <1>2, <1>3, <1>6, <2>7, <4>1, <4>2 DEF OneChange
    <3> QED BY <3>1, <3>2
  <2> QED BY <1>4, <2>5, <2>6, <2>7 DEF Kept
<1> QED BY <1>7, <1>8, <1>9

(* A step that neither calls nor sends. *)
LEMMA StillKept ==
  ASSUME UNCHANGED <<todo, msgs, told, watched>>, \A c \in Conn : Connected(c)' => Connected(c)
  PROVE  Kept
BY DEF Kept, Coming, OneChange, OneOf, NoneOf, Lists

(* What the transaction would undo stays. *)
LEMMA UndoableKept ==
  ASSUME Undoable, UNCHANGED <<owners, before, told, watched>>,
         \A c \in Conn : Connected(c)' => Connected(c),
         \A n, c : Undoes(n, c)' <=> Undoes(n, c),
         Restoring => Restoring'
  PROVE  Undoable'
<1>1. Agree(before)'
  BY DEF Undoable, Agree
<1>2. \A n \in AnyName : Undone(n) => Undone(n)'
  <2>1. ASSUME NEW n \in AnyName, Undone(n)
        PROVE  Undone(n)'
    <3>1. First(owners[n])' = First(owners[n]) /\ First(before[n])' = First(before[n])
      BY DEF First
    <3>2. \A c : First(Without(owners[n], c))' = First(Without(owners[n], c))
      BY DEF First, Without, Queued, Place, RemoveAt
    <3> QED BY <2>1, <3>1, <3>2 DEF Undone
  <2> QED BY <2>1
<1> QED BY <1>1, <1>2 DEF Undoable

-----------------------------------------------------------------------------
(* A call returns or is replaced, and no queue changes.                    *)

(* The call that is made, and what is left. *)
LEMMA TopOf ==
  ASSUME TypeOK, NEW f, Calling(f)
  PROVE  /\ phase = "run" /\ todo \in Seq(Call) /\ todo # <<>>
         /\ Top \in Call /\ Top.call = f /\ Top = Head(todo)
         /\ Tail(todo) \in Seq(Call)
         /\ \A x : Lists(todo, x) <=> x = Top \/ Lists(Tail(todo), x)
         /\ AllPlain(todo) => Plain(Top) /\ AllPlain(Tail(todo))
<1>1. /\ phase = "run" /\ todo \in Seq(Call) /\ todo # <<>>
      /\ Top \in Call /\ Top.call = f /\ Top = Head(todo)
      /\ Tail(todo) \in Seq(Call)
  BY NextCall DEF Calling, TypeOK, Top
<1>2. \A x : Lists(todo, x) <=> x = Top \/ Lists(Tail(todo), x)
  BY <1>1, ListsTail
<1>3. AllPlain(todo) => Plain(Top) /\ AllPlain(Tail(todo))
  BY <1>1, PlainSequences
<1> QED BY <1>1, <1>2, <1>3

(* The stages, by the next call. *)
LEMMA StageOfOther ==
  ASSUME TypeOK, NEW f, Calling(f), f \notin OwnerCalls, NEW p, Stage(p)
  PROVE  /\ Announces(p)
         /\ ~Early(Top) => Done(p)
         /\ \/ Done(p)
            \/ \E a \in Seq(Call), k \in Call, b \in Seq(Call) :
                 /\ Tail(todo) = a \o (<<k>> \o b)
                 /\ AllEarly(a) /\ AllPlain(b)
                 /\ k.call \in {"link_owner", "set_flags", "unlink_owner", "swap_links"}
                 /\ k.call = "link_owner" => LinkFits(k)
                 /\ k.call = "set_flags" => NoCancel
                 /\ p = After(k, owners)
<1>1. todo # <<>> /\ Top \in Call /\ Top.call = f /\ Top = Head(todo)
  BY TopOf
<1>2. \A k \in Call, b \in Seq(Call) : todo = <<k>> \o b => k = Top
  BY <1>1, HeadTailConcat
<1>3. ~TopLeft(p)
  BY <1>1, <1>2 DEF TopLeft, Leaving, OwnerCalls, Removal
<1>4. ~TwoLeft(p)
  <2>1. SUFFICES ASSUME NEW l \in Call, NEW k \in Call, NEW b \in Seq(Call),
                        todo = <<l>> \o (<<k>> \o b), l.call = "link_owner"
                 PROVE  FALSE
    BY DEF TwoLeft
  <2>2. <<k>> \o b \in Seq(Call)
    BY ListsCons
  <2> QED BY <1>1, <1>2, <2>1, <2>2 DEF OwnerCalls
<1>5. ASSUME OneLeft(p)
      PROVE  /\ Early(Top)
             /\ \E a \in Seq(Call), k \in Call, b \in Seq(Call) :
                 /\ Tail(todo) = a \o (<<k>> \o b)
                 /\ AllEarly(a) /\ AllPlain(b)
                 /\ k.call \in {"link_owner", "set_flags", "unlink_owner", "swap_links"}
                 /\ k.call = "link_owner" => LinkFits(k)
                 /\ k.call = "set_flags" => NoCancel
                 /\ p = After(k, owners)
  <2>1. PICK a \in Seq(Call), k \in Call, b \in Seq(Call) :
               /\ todo = a \o (<<k>> \o b)
               /\ AllEarly(a) /\ AllPlain(b)
               /\ k.call \in {"link_owner", "set_flags", "unlink_owner", "swap_links"}
               /\ k.call = "link_owner" => LinkFits(k)
               /\ k.call = "set_flags" => NoCancel
               /\ p = After(k, owners)
    BY <1>5 DEF OneLeft
  <2>2. <<k>> \o b \in Seq(Call)
    BY ListsCons
  <2>3. a # <<>>
    <3>1. ASSUME a = <<>>
          PROVE  FALSE
      <4>1. todo = <<k>> \o b
        BY <2>1, <2>2, <3>1, ConcatEmptySeq
      <4> QED BY <1>1, <1>2, <2>1, <4>1 DEF OwnerCalls, Removal
    <3> QED BY <3>1
  <2>4. Head(todo) = Head(a) /\ Tail(todo) = Tail(a) \o (<<k>> \o b)
    BY <2>1, <2>2, <2>3, HeadTailConcat
  <2>5. Early(Head(a)) /\ AllEarly(Tail(a))
    BY <2>1, <2>3, PlainSequences
  <2>6. Tail(a) \in Seq(Call)
    BY <2>3, ListsTail
  <2> QED BY <1>1, <2>1, <2>4, <2>5, <2>6
<1> QED BY <1>3, <1>4, <1>5 DEF Stage

(* A call returns that changes no queue. *)
LEMMA ReturnSignals ==
  ASSUME TypeOK, SignalInv, NEW f, Calling(f), f \notin OwnerCalls, Return, Kept,
         UNCHANGED <<owners, before, phase>>,
         \A n, c : Undoes(n, c)' <=> Undoes(n, c), Restoring => Restoring'
  PROVE  SignalInv'
<1>1. phase = "run" /\ todo # <<>> /\ todo' = Tail(todo) /\ (AllPlain(todo) => AllPlain(Tail(todo)))
  BY TopOf DEF Return
<1>2. Undoable'
  BY <1>1, UndoableKept DEF SignalInv, Kept
<1>3. PICK p \in [AnyName -> Seq(Owner)] : Stage(p) /\ Answers(p)
  BY <1>1 DEF SignalInv, Works
<1>4. Announces(p)' /\ Answers(p)'
  <2>1. Announces(p) /\ SameHeads(p, p)
    BY <1>3, StageOfOther DEF SameHeads
  <2> QED BY <1>3, <2>1, KeptAnnounces, KeptAnswers
<1>5. NoCancel => NoCancel'
  BY DEF NoCancel
<1>6. \A k : LinkFits(k) => LinkFits(k)'
  BY <1>5 DEF LinkFits, First
<1>7. \A k : After(k, owners)' = After(k, owners)
  BY DEF After, Effect
<1>8. Stage(p)'
  <2>1. CASE Done(p)
    <3>1. AllPlain(todo)'
      BY <1>1, <2>1 DEF Done, AllPlain, Lists
    <3>2. Done(p)'
      BY <2>1, <3>1 DEF Done
    <3> QED BY <1>4, <3>2 DEF Stage
  <2>2. CASE ~Done(p)
    <3>1. PICK a \in Seq(Call), k \in Call, b \in Seq(Call) :
                 /\ Tail(todo) = a \o (<<k>> \o b)
                 /\ AllEarly(a) /\ AllPlain(b)
                 /\ k.call \in {"link_owner", "set_flags", "unlink_owner", "swap_links"}
                 /\ k.call = "link_owner" => LinkFits(k)
                 /\ k.call = "set_flags" => NoCancel
                 /\ p = After(k, owners)
      BY <1>3, <2>2, StageOfOther
    <3>2. OneLeft(p)'
      BY <1>1, <1>5, <1>6, <1>7, <3>1 DEF OneLeft
    <3> QED BY <1>4, <3>2 DEF Stage
  <2> QED BY <2>1, <2>2
<1>9. Works'
  BY <1>3, <1>4, <1>8 DEF Works
<1>10. Unique'
  BY DEF SignalInv, Unique, Queued
<1> QED BY <1>1, <1>2, <1>9, <1>10 DEF SignalInv

(* A call is replaced by others, or the handler raises an error: nothing is
   left that changes a queue. *)
LEMMA MadeSignals ==
  ASSUME TypeOK, SignalInv, NEW f, Calling(f), f \notin OwnerCalls, ~Early(Top),
         NEW u \in Seq(Call), todo' = u, AllPlain(u),
         \A m : m.kind = "reply" /\ Lists(u, Send(m)) => Lists(todo, Send(m)),
         UNCHANGED <<link, msgs, told, watched, owners, before, phase, hooks>>
  PROVE  SignalInv'
<1>1. phase = "run" /\ todo # <<>> /\ todo \in Seq(Call)
  BY TopOf
<1>2. PICK p \in [AnyName -> Seq(Owner)] : Stage(p) /\ Answers(p)
  BY <1>1 DEF SignalInv, Works
<1>3. Done(p) /\ Announces(p)
  BY <1>2, StageOfOther
<1>4. NoneOf(todo, Announcing) /\ \A m : Signal(m) => ~Lists(todo, Send(m))
  BY <1>1, <1>3, PlainSequences DEF Done
<1>5. NoneOf(u, Announcing) /\ \A m : Signal(m) => ~Lists(u, Send(m))
  BY PlainSequences
<1>6. Kept
  <2>1. \A m : Coming(m)' <=> Lists(msgs, m) \/ Lists(u, Send(m))
    BY DEF Coming, Lists
  <2>2. \A m : (Signal(m) \/ m.kind = "reply") /\ Coming(m)' => Coming(m)
    BY <1>5, <2>1 DEF Coming
  <2>3. \A m : Signal(m) /\ Coming(m) => Coming(m)'
    BY <1>4, <2>1 DEF Coming
  <2>4. OneChange => OneChange'
    <3>1. OneOf(u, Announcing)
      BY <1>5 DEF NoneOf, OneOf, Lists
    <3>2. OneChange' <=> /\ OneOf(msgs, Changes) /\ OneOf(u, Announcing)
                         /\ NoneOf(msgs, Changes) \/ NoneOf(u, Announcing)
      BY DEF OneChange, OneOf, NoneOf, Lists
    <3> QED BY <1>5, <3>1, <3>2 DEF OneChange
  <2>5. \A c \in Conn : Connected(c)' => Connected(c)
    BY DEF Connected
  <2> QED BY <2>2, <2>3, <2>4, <2>5 DEF Kept
<1>7. Undoable'
  <2>1. (\A n, c : Undoes(n, c)' <=> Undoes(n, c)) /\ (Restoring => Restoring')
    BY DEF Undoes, Lists, Restoring
  <2> QED BY <1>1, <1>6, <2>1, UndoableKept DEF SignalInv, Kept
<1>8. Announces(p)' /\ Answers(p)'
  <2>1. SameHeads(p, p)
    BY DEF SameHeads
  <2> QED BY <1>2, <1>3, <1>6, <2>1, KeptAnnounces, KeptAnswers
<1>9. Stage(p)'
  <2>1. AllPlain(todo)'
    BY DEF AllPlain, Lists
  <2>2. Done(p)'
    BY <1>3, <2>1 DEF Done
  <2> QED BY <1>8, <2>2 DEF Stage
<1>10. Works'
  BY <1>2, <1>8, <1>9 DEF Works
<1>11. Unique'
  BY DEF SignalInv, Unique, Queued
<1> QED BY <1>1, <1>7, <1>10, <1>11 DEF SignalInv

-----------------------------------------------------------------------------
(* The calls that change a queue.                                          *)

LEMMA StageOfOwner ==
  ASSUME TypeOK, NEW f, Calling(f), f \in OwnerCalls, NEW p, Stage(p)
  PROVE  /\ f \in {"set_flags", "unlink_owner", "swap_links"} =>
              /\ AllPlain(Tail(todo)) /\ Announces(p) /\ p = After(Top, owners)
              /\ f = "set_flags" => NoCancel
         /\ f \in {"remove_owner", "swap_owner"} =>
              /\ AllPlain(Tail(todo)) /\ msgs = <<>> /\ Agree(owners) /\ p = After(Top, owners)
              /\ Leaving(Top)
              /\ f = "swap_owner" => Len(owners[Top.name]) >= 2
         /\ f = "link_owner" =>
              /\ LinkFits(Top)
              /\ \/ AllPlain(Tail(todo)) /\ Announces(p) /\ p = After(Top, owners)
                 \/ /\ msgs = <<>> /\ Agree(owners)
                    /\ \E k \in Call, b \in Seq(Call) :
                         /\ Tail(todo) = <<k>> \o b /\ AllPlain(b)
                         /\ Leaving(k) /\ First(owners[k.name]) = k.conn /\ Top.name = k.name
                         /\ p = After(k, After(Top, owners))
<1>1. todo # <<>> /\ Top \in Call /\ Top.call = f /\ Top = Head(todo)
  BY TopOf
<1>2. \A k \in Call, b \in Seq(Call) : todo = <<k>> \o b => k = Top /\ b = Tail(todo)
  <2>1. \A k \in Call, b \in Seq(Call) : Head(<<k>> \o b) = k /\ Tail(<<k>> \o b) = b
    BY HeadTailConcat
  <2> QED BY <1>1, <2>1
<1>3. ~Done(p)
  BY <1>1, TopOf DEF Done, Plain
<1>4. ASSUME OneLeft(p)
      PROVE  /\ f \in {"link_owner", "set_flags", "unlink_owner", "swap_links"}
             /\ AllPlain(Tail(todo)) /\ p = After(Top, owners)
             /\ f = "link_owner" => LinkFits(Top)
             /\ f = "set_flags" => NoCancel
  <2>1. PICK a \in Seq(Call), k \in Call, b \in Seq(Call) :
               /\ todo = a \o (<<k>> \o b)
               /\ AllEarly(a) /\ AllPlain(b)
               /\ k.call \in {"link_owner", "set_flags", "unlink_owner", "swap_links"}
               /\ k.call = "link_owner" => LinkFits(k)
               /\ k.call = "set_flags" => NoCancel
               /\ p = After(k, owners)
    BY <1>4 DEF OneLeft
  <2>2. <<k>> \o b \in Seq(Call)
    BY ListsCons
  <2>3. a = <<>>
    <3>1. ASSUME a # <<>>
          PROVE  FALSE
      <4>1. Head(todo) = Head(a)
        BY <2>1, <2>2, <3>1, HeadTailConcat
      <4>2. Early(Head(a))
        BY <2>1, <3>1, PlainSequences
      <4> QED BY <1>1, <4>1, <4>2 DEF Early, OwnerCalls, Removal
    <3> QED BY <3>1
  <2>4. todo = <<k>> \o b
    BY <2>1, <2>2, <2>3, ConcatEmptySeq
  <2> QED BY <1>1, <1>2, <2>1, <2>4
<1>5. ASSUME TopLeft(p)
      PROVE  /\ f \in {"remove_owner", "swap_owner"}
             /\ AllPlain(Tail(todo)) /\ p = After(Top, owners) /\ Leaving(Top)
             /\ f = "swap_owner" => Len(owners[Top.name]) >= 2
  BY <1>1, <1>2, <1>5 DEF TopLeft, Leaving
<1>6. ASSUME TwoLeft(p)
      PROVE  /\ f = "link_owner" /\ LinkFits(Top)
             /\ \E k \in Call, b \in Seq(Call) :
                  /\ Tail(todo) = <<k>> \o b /\ AllPlain(b)
                  /\ Leaving(k) /\ First(owners[k.name]) = k.conn /\ Top.name = k.name
                  /\ p = After(k, After(Top, owners))
  <2>1. PICK l \in Call, k \in Call, b \in Seq(Call) :
               /\ todo = <<l>> \o (<<k>> \o b)
               /\ l.call = "link_owner" /\ LinkFits(l)
               /\ Leaving(k) /\ First(owners[k.name]) = k.conn /\ l.name = k.name
               /\ AllPlain(b)
               /\ p = After(k, After(l, owners))
    BY <1>6 DEF TwoLeft
  <2>2. <<k>> \o b \in Seq(Call)
    BY ListsCons
  <2>3. l = Top /\ <<k>> \o b = Tail(todo)
    BY <1>2, <2>1, <2>2
  <2> QED BY <1>1, <2>1, <2>3
<1>7. CASE OneLeft(p) /\ Announces(p)
  BY <1>1, <1>4, <1>7
<1>8. CASE TopLeft(p) /\ msgs = <<>> /\ Agree(owners)
  BY <1>1, <1>5, <1>8
<1>9. CASE TwoLeft(p) /\ msgs = <<>> /\ Agree(owners)
  BY <1>1, <1>6, <1>9
<1> QED BY <1>3, <1>7, <1>8, <1>9 DEF Stage

(* A client joins a queue, or moves in it. *)
LEMMA LinkSignals ==
  ASSUME TypeOK, TypeOK', Distinct, SignalInv, LinkNewOwner \/ RelinkOwner
  PROVE  SignalInv'
<1> DEFINE n == Top.name
           c == Top.conn
           q == owners[n]
           w == Linked(q, c, Top.flags)
<1>1. /\ Calling("link_owner") /\ Return
      /\ UNCHANGED <<link, told, watched, before, msgs, phase>>
  BY DEF LinkNewOwner, RelinkOwner, unseen, seenVars
<1>2. /\ phase = "run" /\ todo # <<>> /\ todo' = Tail(todo) /\ Top \in Call
      /\ Top.call = "link_owner" /\ n \in AnyName /\ c \in Conn /\ Top.flags \in AllFlags
  BY <1>1, TopOf, CallFields DEF Return
<1>3. q \in Seq(Owner) /\ NoTwice(q)
  BY <1>2, QueueType DEF Distinct
<1>4. owners' = After(Top, owners) /\ After(Top, owners) = [owners EXCEPT ![n] = w]
  <2>1. After(Top, owners) = [owners EXCEPT ![n] = w]
    BY <1>2 DEF After, Effect
  <2>2. CASE LinkNewOwner
    BY <2>1, <2>2 DEF LinkNewOwner, Linked
  <2>3. CASE RelinkOwner
    BY <2>1, <2>3 DEF RelinkOwner, Linked
  <2> QED BY <2>1, <2>2, <2>3
<1>5. PICK p \in [AnyName -> Seq(Owner)] : Stage(p) /\ Answers(p)
  BY <1>2 DEF SignalInv, Works
<1>6. /\ LinkFits(Top)
      /\ \/ AllPlain(Tail(todo)) /\ Announces(p) /\ p = After(Top, owners)
         \/ /\ msgs = <<>> /\ Agree(owners)
            /\ \E k \in Call, b \in Seq(Call) :
                 /\ Tail(todo) = <<k>> \o b /\ AllPlain(b)
                 /\ Leaving(k) /\ First(owners[k.name]) = k.conn /\ n = k.name
                 /\ p = After(k, After(Top, owners))
  BY <1>1, <1>5, StageOfOwner DEF OwnerCalls
<1>7. First(q) # c /\ (n \in Conn => c = n) /\ NoCancel
  BY <1>6 DEF LinkFits
<1>8. /\ \A d : Queued(w, d) <=> Queued(q, d) \/ d = c
      /\ q # <<>> => First(w) = First(q) /\ Len(w) >= 2
      /\ First(Without(w, c)) = First(q)
  BY <1>2, <1>3, <1>7, LinkedProperties
<1>9. Queued(q, c) => q # <<>>
  BY <1>3, FirstOf
<1> HIDE DEF w
<1>10. \A m \in AnyName : owners'[m] = IF m = n THEN w ELSE owners[m]
  BY <1>2, <1>4 DEF TypeOK
<1>11. /\ Restoring => Restoring'
       /\ \/ \A m, d : ~Undoes(m, d)'
          \/ \A m, d : Undoes(m, d)' <=> m = n /\ d = c
       /\ (\A m, d : ~Undoes(m, d)') => Queued(q, c)
  <2>1. CASE LinkNewOwner
    <3>1. CancelOwnership(n, c) \in Hook /\ hooks' = <<CancelOwnership(n, c)>> \o hooks
      BY <1>2, <2>1, HookIntro DEF LinkNewOwner
    <3>2. /\ Restoring => Restoring'
          /\ \A m, d : Undoes(m, d)' <=> (m = n /\ d = c) \/ Undoes(m, d)
      BY <3>1, UndoesAdded
    <3> QED BY <1>7, <3>2 DEF NoCancel
  <2>2. CASE RelinkOwner
    <3>1. Queued(q, c) /\ hooks' = hooks
      BY <2>2 DEF RelinkOwner
    <3>2. (\A m, d : ~Undoes(m, d)') /\ (Restoring => Restoring')
      BY <1>7, <3>1 DEF NoCancel, Undoes, Lists, Restoring
    <3> QED BY <3>1, <3>2
  <2> QED BY <2>1, <2>2
<1>12. Undoable'
  <2>1. Undoable /\ Agree(before)'
    BY <1>1, <1>2 DEF SignalInv, Undoable, Agree, Connected
  <2>2. ASSUME NEW m \in AnyName, Undone(m)
        PROVE  Undone(m)'
    <3>1. First(owners[m]) = First(before[m]) /\ before' = before
      BY <1>1, <1>7, <2>2 DEF Undone, NoCancel
    <3>2. CASE m # n
      <4>1. First(owners'[m]) = First(before'[m]) /\ \A d : ~Undoes(m, d)'
        BY <1>10, <1>11, <3>1, <3>2
      <4> QED BY <4>1 DEF Undone, First
    <3>3. CASE m = n
      <4>1. CASE \A i, d : ~Undoes(i, d)'
        <5>1. First(owners'[m]) = First(before'[m])
          BY <1>8, <1>9, <1>10, <1>11, <3>1, <3>3, <4>1
        <5> QED BY <4>1, <5>1 DEF Undone, First
      <4>2. CASE \A i, d : Undoes(i, d)' <=> i = n /\ d = c
        <5>1. First(Without(owners'[m], c)) = First(before'[m])
          BY <1>8, <1>10, <3>1, <3>3
        <5>2. PICK e : e = c
          BY Zenon
        <5>3. Undoes(m, e)' /\ \A d : Undoes(m, d)' => d = e
          BY <3>3, <4>2, <5>2, Zenon
        <5>4. First(Without(owners[m], e))' = First(before[m])'
          BY <5>1, <5>2, Zenon DEF First, Without, Queued, Place, RemoveAt
        <5> QED BY <5>3, <5>4 DEF Undone
      <4> QED BY <1>11, <4>1, <4>2
    <3> QED BY <3>2, <3>3
  <2> QED BY <1>11, <2>1, <2>2 DEF Undoable
<1>13. Kept
  BY <1>1, ReturnKept
<1>14. Unique'
  <2>1. ASSUME NEW m \in Conn, NEW d \in Conn, Queued(owners'[m], d)
        PROVE  d = m
    <3>1. m \in AnyName
      BY DEF AnyName
    <3>2. CASE m # n
      BY <1>10, <2>1, <3>1, <3>2 DEF SignalInv, Unique
    <3>3. CASE m = n
      BY <1>7, <1>8, <1>10, <2>1, <3>1, <3>3 DEF SignalInv, Unique
    <3> QED BY <3>2, <3>3
  <2> QED BY <2>1 DEF Unique, Queued
<1>15. Stage(p)'
  <2>1. CASE AllPlain(Tail(todo)) /\ Announces(p) /\ p = After(Top, owners)
    <3>1. Done(p)'
      BY <1>2, <1>4, <2>1 DEF Done, AllPlain, Lists
    <3>2. Announces(p)'
      <4>1. SameHeads(p, p)
        BY DEF SameHeads
      <4> QED BY <1>13, <2>1, <4>1, KeptAnnounces
    <3> QED BY <3>1, <3>2 DEF Stage
  <2>2. CASE /\ msgs = <<>> /\ Agree(owners)
             /\ \E k \in Call, b \in Seq(Call) :
                  /\ Tail(todo) = <<k>> \o b /\ AllPlain(b)
                  /\ Leaving(k) /\ First(owners[k.name]) = k.conn /\ n = k.name
                  /\ p = After(k, After(Top, owners))
    <3>1. PICK k \in Call, b \in Seq(Call) :
                 /\ Tail(todo) = <<k>> \o b /\ AllPlain(b)
                 /\ Leaving(k) /\ First(owners[k.name]) = k.conn /\ n = k.name
                 /\ p = After(k, After(Top, owners))
      BY <2>2
    <3>2. k.call \in {"remove_owner", "swap_owner"} /\ k.conn \in Conn
      BY <3>1, CallFields DEF Leaving
    <3>3. q # <<>> /\ First(w) = First(q) /\ Len(w) >= 2
      BY <1>3, <1>8, <3>1, <3>2, FirstOf
    <3>4. owners'[k.name] = w
      BY <1>2, <1>10, <3>1
    <3>5. First(owners'[k.name]) = k.conn /\ Len(owners'[k.name]) >= 2
      BY <3>1, <3>3, <3>4
    <3>6. Leaving(k)'
      BY <3>2, <3>5 DEF Leaving, First
    <3>7. p = After(k, owners)'
      BY <1>4, <3>1 DEF After, Effect
    <3>8. TopLeft(p)'
      BY <1>2, <3>1, <3>5, <3>6, <3>7 DEF TopLeft
    <3>9. Agree(owners)'
      <4>1. PICK r : r = owners'
        OBVIOUS
      <4>2. SameHeads(r, owners)
        BY <1>10, <3>3, <4>1 DEF SameHeads
      <4>3. Agree(r)'
        BY <1>13, <2>2, <4>2, KeptAgree DEF Kept
      <4> QED BY <4>1, <4>3 DEF Agree, First
    <3> QED BY <1>1, <2>2, <3>8, <3>9 DEF Stage
  <2> QED BY <1>6, <2>1, <2>2
<1>16. Works'
  BY <1>5, <1>13, <1>15, KeptAnswers DEF Works
<1> QED BY <1>1, <1>2, <1>12, <1>14, <1>16 DEF SignalInv

(* The last call that changes a queue: its signals are queued. *)
LEMMA LastChange ==
  ASSUME TypeOK, SignalInv, NEW f, Calling(f), f \in {"set_flags", "unlink_owner", "swap_links"},
         Return, owners' = After(Top, owners),
         UNCHANGED <<link, told, watched, before, msgs, phase>>, Undoable', Unique'
  PROVE  SignalInv'
<1>1. phase = "run" /\ todo' = Tail(todo)
  BY TopOf DEF Return
<1>2. PICK p \in [AnyName -> Seq(Owner)] : Stage(p) /\ Answers(p)
  BY <1>1 DEF SignalInv, Works, Calling
<1>3. AllPlain(Tail(todo)) /\ Announces(p) /\ p = After(Top, owners)
  BY <1>2, StageOfOwner DEF OwnerCalls, Removal
<1>4. Kept
  BY ReturnKept
<1>5. Done(p)'
  BY <1>1, <1>3 DEF Done, AllPlain, Lists
<1>6. Announces(p)' /\ Answers(p)'
  <2>1. SameHeads(p, p)
    BY DEF SameHeads
  <2> QED BY <1>2, <1>3, <1>4, <2>1, KeptAnnounces, KeptAnswers
<1>7. Works'
  BY <1>2, <1>5, <1>6 DEF Works, Stage
<1> QED BY <1>1, <1>7 DEF SignalInv

LEMMA SetFlagsSignals ==
  ASSUME TypeOK, SignalInv, SetOwnerFlags
  PROVE  SignalInv'
<1> DEFINE n == Top.name
           q == owners[n]
           o == OwnerOf(Primary(n), Top.flags)
           w == [q EXCEPT ![1] = o]
<1>1. /\ Calling("set_flags") /\ Return
      /\ UNCHANGED <<link, told, watched, before, msgs, phase, hooks>>
  BY DEF SetOwnerFlags, unseen, seenVars
<1>2. phase = "run" /\ todo # <<>> /\ Top \in Call /\ Top.call = "set_flags" /\ n \in AnyName
  BY <1>1, TopOf, CallFields
<1>3. q \in Seq(Owner)
  BY <1>2, QueueType
<1>4. owners' = [owners EXCEPT ![n] = w] /\ owners' = After(Top, owners)
  <2>1. Primary(n) = First(q)
    BY DEF Primary, First
  <2> QED BY <1>2, <2>1 DEF SetOwnerFlags, After, Effect
<1>5. 1 \in 1..Len(q) => o.conn = q[1].conn
  <2>1. 1 \in 1..Len(q) => q # <<>>
    OBVIOUS
  <2> QED BY <2>1 DEF OwnerOf, Primary
<1>6. First(w) = First(q) /\ \A d : Queued(w, d) <=> Queued(q, d)
  BY <1>3, <1>5, FirstReplaced, QueuedReplaced
<1>7. NoCancel
  <2>1. PICK p \in [AnyName -> Seq(Owner)] : Stage(p) /\ Answers(p)
    BY <1>2 DEF SignalInv, Works
  <2> QED BY <1>1, <2>1, StageOfOwner DEF OwnerCalls
<1> HIDE DEF w
<1>8. \A m \in AnyName : owners'[m] = IF m = n THEN w ELSE owners[m]
  BY <1>2, <1>4 DEF TypeOK
<1>9. Undoable'
  <2>1. Undoable /\ Agree(before)'
    BY <1>1, <1>2 DEF SignalInv, Undoable, Agree, Connected
  <2>2. (\A m, d : ~Undoes(m, d)') /\ (Restoring => Restoring')
    BY <1>1, <1>7 DEF NoCancel, Undoes, Lists, Restoring
  <2>3. ASSUME NEW m \in AnyName, Undone(m)
        PROVE  Undone(m)'
    <3>1. First(owners[m]) = First(before[m]) /\ before' = before
      BY <1>1, <1>7, <2>3 DEF Undone, NoCancel
    <3>2. First(owners'[m]) = First(before'[m])
      BY <1>6, <1>8, <3>1
    <3> QED BY <2>2, <3>2 DEF Undone, First
  <2> QED BY <2>1, <2>2, <2>3 DEF Undoable
<1>10. Unique'
  <2>1. \A m, d \in Conn : Queued(owners'[m], d) => Queued(owners[m], d)
    BY <1>6, <1>8 DEF AnyName
  <2> QED BY <2>1 DEF SignalInv, Unique, Queued
<1> QED BY <1>1, <1>4, <1>9, <1>10, LastChange

(* The primary owner is unlinked, or changes places with the second. *)
LEMMA UnlinkSignals ==
  ASSUME TypeOK, Distinct, SignalInv, UnlinkPrimary \/ SwapFirstTwo
  PROVE  SignalInv'
<1> DEFINE n == Top.name
           q == owners[n]
           f == Top.call
           w == IF UnlinkPrimary THEN Without(q, Top.owner.conn) ELSE Swapped(q)
           h == RestoreOwnership(n, Top.owner, IF UnlinkPrimary THEN 1 ELSE 2)
<1>1. /\ Calling(f) /\ f = (IF UnlinkPrimary THEN "unlink_owner" ELSE "swap_links") /\ Return
      /\ UNCHANGED <<link, told, watched, before, msgs, phase>>
      /\ hooks' = <<h>> \o hooks
      /\ owners' = [owners EXCEPT ![n] = w]
  BY DEF UnlinkPrimary, SwapFirstTwo, unseen, seenVars, Calling
<1>2. /\ phase = "run" /\ todo # <<>> /\ Top \in Call
      /\ n \in AnyName /\ Top.owner \in Owner
  BY <1>1, TopOf, CallFields
<1>3. q \in Seq(Owner) /\ NoTwice(q)
  BY <1>2, QueueType DEF Distinct
<1>4. owners' = After(Top, owners)
  BY <1>1 DEF After, Effect
<1>5. \A d : Queued(w, d) => Queued(q, d)
  BY <1>3, QueuedWithout, QueuedSwapped
<1>6. h \in Hook /\ h.hook = "restore_ownership"
  BY <1>2, HookIntro DEF RestoreOwnership
<1> HIDE DEF w, h
<1>7. \A m \in AnyName : owners'[m] = IF m = n THEN w ELSE owners[m]
  BY <1>1, <1>2 DEF TypeOK
<1>8. Undoable'
  <2>1. Agree(before)'
    BY <1>1, <1>2 DEF SignalInv, Undoable, Agree, Connected
  <2>2. Restoring'
    BY <1>1, <1>6, UndoesAdded
  <2> QED BY <2>1, <2>2 DEF Undoable
<1>9. Unique'
  <2>1. \A m, d \in Conn : Queued(owners'[m], d) => Queued(owners[m], d)
    BY <1>5, <1>7 DEF AnyName
  <2> QED BY <2>1 DEF SignalInv, Unique, Queued
<1> QED BY <1>1, <1>4, <1>8, <1>9, LastChange

(* When everybody knows the heads and no signal comes, none is missing. *)
LEMMA SilenceAnnounces ==
  ASSUME NEW p, Agree(p)', NEW s, todo' = s, \A m : Signal(m) => ~Lists(s, Send(m)), msgs' = <<>>
  PROVE  Announces(p)'
<1>1. NoneOf(s, Announcing)
  <2>1. \A m \in Changes : Signal(m)
    BY MessageKinds DEF Changes
  <2> QED BY <2>1 DEF NoneOf, Announcing
<1>2. \A m : Signal(m) => ~Coming(m)'
  <2>1. \A m : ~Lists(msgs', m)
    BY ListsShort
  <2>2. \A m : Coming(m)' <=> Lists(msgs', m) \/ Lists(s, Send(m))
    BY DEF Coming, Lists
  <2> QED BY <2>1, <2>2
<1>3. OneChange'
  <2>1. OneOf(s, Announcing)
    BY <1>1 DEF NoneOf, OneOf, Lists
  <2>2. OneOf(<<>>, Changes) /\ NoneOf(<<>>, Changes)
    BY ListsShort DEF NoneOf
  <2>3. OneChange' <=> /\ OneOf(msgs', Changes) /\ OneOf(s, Announcing)
                       /\ NoneOf(msgs', Changes) \/ NoneOf(s, Announcing)
    BY DEF OneChange, OneOf, NoneOf, Lists
  <2> QED BY <2>1, <2>2, <2>3
<1>4. /\ \A n, o, w : ~Coming(Changed(n, o, w))'
      /\ \A c, n : ~Coming(Acquired(c, n))' /\ ~Coming(Lost(c, n))'
  BY <1>2, MessageKinds
<1> QED BY <1>3, <1>4 DEF Announces, Agree

LEMMA RemoveWaitingSignals ==
  ASSUME TypeOK, TypeOK', Distinct, SignalInv, RemoveWaiting
  PROVE  SignalInv'
<1> DEFINE n == Top.name
           c == Top.conn
           q == owners[n]
           w == Without(q, c)
<1>1. /\ Calling("remove_owner") /\ Return
      /\ UNCHANGED <<link, told, watched, before, msgs, phase, hooks>>
      /\ owners' = [owners EXCEPT ![n] = w] /\ Primary(n) # c
  BY DEF RemoveWaiting, unseen, seenVars
<1>2. /\ phase = "run" /\ todo # <<>> /\ todo' = Tail(todo) /\ Tail(todo) \in Seq(Call)
      /\ Top \in Call /\ Top.call = "remove_owner" /\ n \in AnyName /\ c \in Conn
  BY <1>1, TopOf, CallFields DEF Return
<1>3. q \in Seq(Owner) /\ NoTwice(q)
  BY <1>2, QueueType DEF Distinct
<1>4. owners' = After(Top, owners)
  BY <1>1, <1>2 DEF After, Effect
<1>5. First(q) # c
  BY <1>1 DEF Primary, First
<1>6. PICK p \in [AnyName -> Seq(Owner)] : Stage(p) /\ Answers(p)
  BY <1>2 DEF SignalInv, Works
<1>7. /\ AllPlain(Tail(todo)) /\ msgs = <<>> /\ Agree(owners) /\ p = After(Top, owners)
      /\ Leaving(Top)
  BY <1>1, <1>6, StageOfOwner DEF OwnerCalls, Removal
<1>8. NoCancel
  BY <1>5, <1>7 DEF Leaving
<1>9. First(w) = First(q) /\ \A d : Queued(w, d) => Queued(q, d)
  BY <1>3, <1>5, FirstWithout, QueuedWithout
<1> HIDE DEF w
<1>10. \A m \in AnyName : owners'[m] = IF m = n THEN w ELSE owners[m]
  BY <1>1, <1>2 DEF TypeOK
<1>11. Kept
  BY <1>1, ReturnKept
<1>12. Announces(p)' /\ Answers(p)' /\ Done(p)'
  <2>1. SameHeads(p, owners)
    BY <1>4, <1>7, <1>9, <1>10 DEF SameHeads
  <2>2. Agree(p)'
    BY <1>7, <1>11, <2>1, KeptAgree DEF Kept
  <2>3. Announces(p)'
    BY <1>1, <1>2, <1>7, <2>2, PlainSequences, SilenceAnnounces
  <2>4. Done(p)'
    BY <1>2, <1>4, <1>7 DEF Done, AllPlain, Lists
  <2> QED BY <1>6, <1>11, <2>3, <2>4, KeptAnswers
<1>13. Works'
  BY <1>6, <1>12 DEF Works, Stage
<1>14. Undoable'
  <2>1. Undoable /\ Agree(before)'
    BY <1>1, <1>2 DEF SignalInv, Undoable, Agree, Connected
  <2>2. (\A m, d : ~Undoes(m, d)') /\ (Restoring => Restoring')
    BY <1>1, <1>8 DEF NoCancel, Undoes, Lists, Restoring
  <2>3. ASSUME NEW m \in AnyName, Undone(m)
        PROVE  Undone(m)'
    <3>1. First(owners[m]) = First(before[m]) /\ before' = before
      BY <1>1, <1>8, <2>3 DEF Undone, NoCancel
    <3>2. First(owners'[m]) = First(before'[m])
      BY <1>9, <1>10, <3>1
    <3> QED BY <2>2, <3>2 DEF Undone, First
  <2> QED BY <2>1, <2>2, <2>3 DEF Undoable
<1>15. Unique'
  <2>1. \A m, d \in Conn : Queued(owners'[m], d) => Queued(owners[m], d)
    BY <1>9, <1>10 DEF AnyName
  <2> QED BY <2>1 DEF SignalInv, Unique, Queued
<1> QED BY <1>1, <1>2, <1>13, <1>14, <1>15 DEF SignalInv

(* The signals of a name that changes hands tell of its new head. *)
LEMMA HandoverAnnounces ==
  ASSUME NEW p, NEW n \in AnyName, NEW o, NEW w, Agree(owners), UNCHANGED <<link, told, watched>>,
         First(owners[n]) = o, First(p[n]) = w, o # w,
         \A m \in AnyName : m # n => First(p[m]) = First(owners[m]),
         msgs' = <<>>, NEW s, todo' = s, OneOf(s, Announcing),
         \A m : Signal(m) => (Lists(s, Send(m)) <=>
           \/ m = Changed(n, o, w)
           \/ o \in Conn /\ m = Lost(o, n)
           \/ w \in Conn /\ m = Acquired(w, n))
  PROVE  Announces(p)'
<1>1. \A m : Signal(m) => (Coming(m)' <=>
           \/ m = Changed(n, o, w)
           \/ o \in Conn /\ m = Lost(o, n)
           \/ w \in Conn /\ m = Acquired(w, n))
  <2>1. \A m : ~Lists(msgs', m)
    BY ListsShort
  <2>2. \A m : Coming(m)' <=> Lists(msgs', m) \/ Lists(s, Send(m))
    BY DEF Coming, Lists
  <2> QED BY <2>1, <2>2
<1>2. OneChange'
  <2>1. OneOf(<<>>, Changes) /\ NoneOf(<<>>, Changes)
    BY ListsShort DEF NoneOf
  <2>2. OneChange' <=> /\ OneOf(msgs', Changes) /\ OneOf(s, Announcing)
                       /\ NoneOf(msgs', Changes) \/ NoneOf(s, Announcing)
    BY DEF OneChange, OneOf, NoneOf, Lists
  <2> QED BY <2>1, <2>2
<1>3. \A i, a, b : Coming(Changed(i, a, b))' <=> i = n /\ a = o /\ b = w
  <2>1. ASSUME NEW i, NEW a, NEW b
        PROVE  Coming(Changed(i, a, b))' <=> i = n /\ a = o /\ b = w
    <3> DEFINE m == Changed(i, a, b)
    <3>1. /\ Signal(m) /\ m.kind = "changed" /\ m.name = i /\ m.old = a /\ m.new = b
          /\ Changed(n, o, w).name = n /\ Changed(n, o, w).old = o /\ Changed(n, o, w).new = w
          /\ Lost(o, n).kind = "lost" /\ Acquired(w, n).kind = "acquired"
      BY MessageKinds
    <3>2. Coming(m)' <=> m = Changed(n, o, w)
      BY <1>1, <3>1
    <3> QED BY <3>1, <3>2
  <2> QED BY <2>1
<1>4. \A d, i : Coming(Acquired(d, i))' <=> w \in Conn /\ i = n /\ d = w
  <2>1. ASSUME NEW d, NEW i
        PROVE  Coming(Acquired(d, i))' <=> w \in Conn /\ i = n /\ d = w
    <3> DEFINE m == Acquired(d, i)
    <3>1. /\ Signal(m) /\ m.kind = "acquired" /\ m.name = i /\ m.to = d
          /\ Acquired(w, n).name = n /\ Acquired(w, n).to = w
          /\ Lost(o, n).kind = "lost" /\ Changed(n, o, w).kind = "changed"
      BY MessageKinds
    <3>2. Coming(m)' <=> w \in Conn /\ m = Acquired(w, n)
      BY <1>1, <3>1
    <3> QED BY <3>1, <3>2
  <2> QED BY <2>1
<1>5. \A d, i : Coming(Lost(d, i))' <=> o \in Conn /\ i = n /\ d = o
  <2>1. ASSUME NEW d, NEW i
        PROVE  Coming(Lost(d, i))' <=> o \in Conn /\ i = n /\ d = o
    <3> DEFINE m == Lost(d, i)
    <3>1. /\ Signal(m) /\ m.kind = "lost" /\ m.name = i /\ m.to = d
          /\ Lost(o, n).name = n /\ Lost(o, n).to = o
          /\ Acquired(w, n).kind = "acquired" /\ Changed(n, o, w).kind = "changed"
      BY MessageKinds
    <3>2. Coming(m)' <=> o \in Conn /\ m = Lost(o, n)
      BY <1>1, <3>1
    <3> QED BY <3>1, <3>2
  <2> QED BY <2>1
<1>6. /\ \A i \in AnyName : watched'[i] = First(owners[i])
      /\ \A i \in AnyName, d \in Conn : Connected(d)' => (i \in told'[d] <=> First(owners[i]) = d)
  BY DEF Agree, Connected
<1>7. ASSUME NEW i \in AnyName
      PROVE  /\ \A a, b : Coming(Changed(i, a, b))' => a = watched'[i] /\ b = First(p[i]) /\ a # b
             /\ (\A a, b : ~Coming(Changed(i, a, b))') => watched'[i] = First(p[i])
  BY <1>3, <1>6
<1>8. ASSUME NEW i \in AnyName, NEW d \in Conn, Connected(d)'
      PROVE  /\ Coming(Acquired(d, i))' => First(p[i]) = d
             /\ Coming(Lost(d, i))' => First(p[i]) # d
             /\ ~Coming(Acquired(d, i))' /\ ~Coming(Lost(d, i))' => (i \in told'[d] <=> First(p[i]) = d)
  BY <1>4, <1>5, <1>6, <1>8
<1> QED BY <1>2, <1>7, <1>8 DEF Announces

LEMMA SecondPlace ==
  \A i \in Nat \ {0} : (i # 1 => 2 \in 1..i) /\ (i >= 2 => i # 1)
OBVIOUS

(* The signals about an owner that goes. *)
LEMMA SuccessionForm ==
  ASSUME TypeOK, NEW n \in AnyName, NEW c \in Conn, owners[n] # <<>>
  PROVE  LET a == <<Send(Lost(c, n))>> \o Succession(n, c) IN
         /\ a \in Seq(Call) /\ AllEarly(a) /\ OneOf(a, Announcing)
         /\ \A m : Lists(a, Send(m)) <=>
              \/ m = Lost(c, n) \/ m = Changed(n, c, Heir(n))
              \/ Heir(n) \in Conn /\ m = Acquired(Heir(n), n)
<1> DEFINE v == Send(Lost(c, n))
           u == Send(Changed(n, c, Heir(n)))
           x == Send(Acquired(Heir(n), n))
           b == (IF Heir(n) = NoOne THEN <<>> ELSE <<x>>)
           s == <<u>> \o b
           a == <<v>> \o s
<1>1. owners[n] \in Seq(Owner) /\ Len(owners[n]) \in Nat \ {0}
  BY EmptySeq, QueueType
<1>2. Heir(n) \in Conn \cup {NoOne} /\ (Heir(n) \in Conn <=> Heir(n) # NoOne)
  <2>1. CASE Len(owners[n]) = 1
    BY <2>1, ConnAssumption DEF Heir
  <2>2. CASE Len(owners[n]) # 1
    <3>1. 2 \in 1..Len(owners[n])
      BY <1>1, <2>2, SecondPlace
    <3>2. owners[n][2] \in Owner
      BY <1>1, <3>1, ElementOfSeq
    <3> QED BY <2>2, <3>2, ConnAssumption DEF Heir, Owner
  <2> QED BY <2>1, <2>2
<1>3. v \in Call /\ u \in Call /\ (Heir(n) # NoOne => x \in Call)
  BY <1>2, CallIntro, MessageIntro
<1>4. Early(v) /\ Early(u) /\ Early(x)
  BY SendForm DEF Early
<1>5. v \notin Announcing /\ x \notin Announcing
  BY SendForm, MessageKinds DEF Changes
<1>6. /\ \A m : v = Send(m) <=> m = Lost(c, n)
      /\ \A m : u = Send(m) <=> m = Changed(n, c, Heir(n))
      /\ \A m : x = Send(m) <=> m = Acquired(Heir(n), n)
  BY SendForm
<1>7. a = <<Send(Lost(c, n))>> \o Succession(n, c)
  BY DEF Succession
<1> HIDE DEF v, u, x
<1>8. /\ b \in Seq(Call) /\ AllEarly(b) /\ NoneOf(b, Announcing)
      /\ \A y : Lists(b, y) <=> Heir(n) # NoOne /\ y = x
  <2>1. \A y : Lists(b, y) <=> Heir(n) # NoOne /\ y = x
    BY ListsShort
  <2>2. b \in Seq(Call)
    BY <1>3, CallSequences
  <2> QED BY <1>4, <1>5, <2>1, <2>2 DEF AllEarly, NoneOf
<1> HIDE DEF b
<1>9. s \in Seq(Call) /\ OneOf(s, Announcing) /\ \A y : Lists(s, y) <=> y = u \/ Lists(b, y)
  BY <1>3, <1>8, ListsCons
<1> HIDE DEF s
<1>10. a \in Seq(Call) /\ OneOf(a, Announcing) /\ \A y : Lists(a, y) <=> y = v \/ Lists(s, y)
  BY <1>3, <1>5, <1>9, ListsCons
<1> HIDE DEF a
<1>11. AllEarly(a)
  BY <1>4, <1>8, <1>9, <1>10 DEF AllEarly
<1>12. \A m : Lists(a, Send(m)) <=>
              \/ m = Lost(c, n) \/ m = Changed(n, c, Heir(n))
              \/ Heir(n) \in Conn /\ m = Acquired(Heir(n), n)
  BY <1>2, <1>6, <1>8, <1>9, <1>10
<1> QED BY <1>7, <1>10, <1>11, <1>12

(* The head of a queue when its first owner goes, or makes way. *)
LEMMA HeirIsFirst ==
  ASSUME TypeOK, Distinct, NEW n \in AnyName, NEW c \in Conn, First(owners[n]) = c
  PROVE  /\ owners[n] # <<>> /\ owners[n][1].conn = c
         /\ Heir(n) # c
         /\ First(Without(owners[n], c)) = Heir(n)
         /\ Len(owners[n]) >= 2 => First(Swapped(owners[n])) = Heir(n)
<1> DEFINE q == owners[n]
<1>1. q \in Seq(Owner) /\ NoTwice(q)
  BY QueueType DEF Distinct
<1>2. q # <<>> /\ q[1].conn = c /\ Len(q) \in Nat \ {0} /\ 1 \in DOMAIN q
  BY <1>1, FirstOf
<1>3. Heir(n) = IF Len(q) = 1 THEN NoOne ELSE q[2].conn
  BY DEF Heir
<1>4. Heir(n) # c
  <2>1. CASE Len(q) = 1
    BY <1>3, <2>1, ConnAssumption
  <2>2. CASE Len(q) # 1
    <3>1. 2 \in DOMAIN q
      <4>1. 2 \in 1..Len(q)
        BY <1>2, <2>2, SecondPlace
      <4> QED BY <1>1, <4>1, LenProperties
    <3> QED BY <1>1, <1>2, <1>3, <2>2, <3>1 DEF NoTwice
  <2> QED BY <2>1, <2>2
<1>5. First(Without(q, c)) = Heir(n)
  BY <1>1, <1>2, <1>3, FirstWithout
<1>6. Len(q) >= 2 => First(Swapped(q)) = Heir(n)
  <2>1. Len(q) >= 2 => First(Swapped(q)) = q[2].conn
    BY <1>1, FirstSwapped
  <2>2. Len(q) >= 2 => Len(q) # 1
    BY <1>2, SecondPlace
  <2> QED BY <1>3, <2>1, <2>2
<1> QED BY <1>2, <1>4, <1>5, <1>6

LEMMA SuccessionSignals ==
  ASSUME TypeOK, Distinct, SignalInv, RemovePrimary \/ SwapPrimary
  PROVE  SignalInv'
<1> DEFINE n == Top.name
           c == Top.conn
           f == Top.call
           o == owners[n][1]
           l == <<Send(Lost(c, n))>>
           a == l \o Succession(n, c)
           x == IF RemovePrimary THEN UnlinkOwner(n, o) ELSE SwapLinks(n, o)
           t == Tail(todo)
<1>1. /\ Calling(f) /\ f = (IF RemovePrimary THEN "remove_owner" ELSE "swap_owner")
      /\ Primary(n) = c /\ todo' = (a \o <<x>>) \o t
      /\ UNCHANGED <<link, told, watched, before, msgs, phase, hooks, owners>>
  BY DEF RemovePrimary, SwapPrimary, unseen, seenVars, Calling, Make
<1>2. /\ phase = "run" /\ todo # <<>> /\ t \in Seq(Call) /\ n \in AnyName /\ c \in Conn
      /\ \A y : Lists(todo, y) <=> y = Top \/ Lists(t, y)
  BY <1>1, TopOf, CallFields
<1>3. First(owners[n]) = c
  BY <1>1 DEF Primary, First
<1>4. /\ owners[n] # <<>> /\ o.conn = c /\ Heir(n) # c
      /\ First(Without(owners[n], c)) = Heir(n)
      /\ Len(owners[n]) >= 2 => First(Swapped(owners[n])) = Heir(n)
  BY <1>2, <1>3, HeirIsFirst
<1>5. o \in Owner
  BY <1>2, <1>4, FirstOwner
<1>6. PICK p \in [AnyName -> Seq(Owner)] : Stage(p) /\ Answers(p)
  BY <1>2 DEF SignalInv, Works
<1>7. /\ AllPlain(t) /\ msgs = <<>> /\ Agree(owners) /\ p = After(Top, owners)
      /\ f = "swap_owner" => Len(owners[n]) >= 2
  BY <1>1, <1>6, StageOfOwner DEF OwnerCalls, Removal
<1>8. /\ x \in Call /\ x.call = (IF RemovePrimary THEN "unlink_owner" ELSE "swap_links")
      /\ x.name = n /\ x.owner = o
  <2>1. UnlinkOwner(n, o) \in Call /\ SwapLinks(n, o) \in Call
    BY <1>2, <1>5, CallIntro
  <2> QED BY <2>1, SMT DEF UnlinkOwner, SwapLinks
<1>9. p = After(x, owners) /\ p = [owners EXCEPT ![n] = Effect(x, owners[n])]
  BY <1>1, <1>4, <1>7, <1>8, Zenon DEF After, Effect
<1>10. First(p[n]) = Heir(n) /\ \A m \in AnyName : m # n => First(p[m]) = First(owners[m])
  <2>1. \A m \in AnyName : p[m] = IF m = n THEN Effect(x, owners[n]) ELSE owners[m]
    BY <1>9 DEF TypeOK
  <2>2. First(Effect(x, owners[n])) = Heir(n)
    BY <1>1, <1>4, <1>7, <1>8 DEF Effect
  <2> QED BY <1>2, <2>1, <2>2
<1>11. /\ a \in Seq(Call) /\ AllEarly(a) /\ OneOf(a, Announcing)
       /\ \A m : Lists(a, Send(m)) <=>
            \/ m = Lost(c, n) \/ m = Changed(n, c, Heir(n))
            \/ Heir(n) \in Conn /\ m = Acquired(Heir(n), n)
  BY <1>2, <1>4, SuccessionForm
<1> HIDE DEF a, x, t
<1>12. /\ <<x>> \in Seq(Call) /\ <<x>> \o t \in Seq(Call)
       /\ todo' = a \o (<<x>> \o t)
       /\ \A y : Lists(<<x>> \o t, y) <=> y = x \/ Lists(t, y)
  BY <1>1, <1>2, <1>8, <1>11, ListsCons, ConcatAssociative, CallSequences
<1>13. NoneOf(<<x>> \o t, Announcing) /\ \A m : x # Send(m)
  <2>1. NoneOf(t, Announcing)
    BY <1>2, <1>7, PlainSequences
  <2>2. \A m : x # Send(m)
    BY <1>8, SendForm
  <2>3. x \notin Announcing
    BY <2>2 DEF Announcing
  <2> QED BY <1>12, <2>1, <2>2, <2>3 DEF NoneOf
<1> DEFINE s == a \o (<<x>> \o t)
<1>14. OneOf(s, Announcing) /\ \A y : Lists(s, y) <=> Lists(a, y) \/ y = x \/ Lists(t, y)
  BY <1>11, <1>12, <1>13, ListsConcat
<1>15. \A m : Signal(m) => (Lists(s, Send(m)) <=>
            \/ m = Changed(n, c, Heir(n))
            \/ c \in Conn /\ m = Lost(c, n)
            \/ Heir(n) \in Conn /\ m = Acquired(Heir(n), n))
  <2>1. \A m : Signal(m) => ~Lists(t, Send(m))
    BY <1>2, <1>7, PlainSequences
  <2> QED BY <1>2, <1>11, <1>13, <1>14, <2>1
<1>16. todo' = s
  BY <1>12
<1> HIDE DEF s
<1>17. Announces(p)'
  <2> DEFINE w == Heir(n)
             i == n
             d == c
  <2>1. /\ Agree(owners) /\ UNCHANGED <<link, told, watched>> /\ i \in AnyName
        /\ First(owners[i]) = d /\ First(p[i]) = w /\ d # w /\ msgs' = <<>>
        /\ \A m \in AnyName : m # i => First(p[m]) = First(owners[m])
    BY <1>1, <1>2, <1>3, <1>4, <1>7, <1>10
  <2>2. \A m : Signal(m) => (Lists(s, Send(m)) <=>
            \/ m = Changed(i, d, w)
            \/ d \in Conn /\ m = Lost(d, i)
            \/ w \in Conn /\ m = Acquired(w, i))
    BY <1>15
  <2> HIDE DEF i, d, w
  <2> QED BY <1>14, <1>16, <2>1, <2>2, HandoverAnnounces
<1>18. Answers(p)'
  <2>1. ASSUME NEW e, NEW i, NEW r, Coming(Reply(e, i, r))'
        PROVE  Honest(p[i], e, r)
    <3> DEFINE m == Reply(e, i, r)
    <3>6. msgs' = <<>> /\ ~Lists(<<>>, m)
      BY <1>1, <1>7, ListsShort
    <3>7. m.kind = "reply"
      BY MessageKinds
    <3>1. m.kind = "reply" /\ ~Lists(msgs', m)
      BY <3>6, <3>7
    <3>2. Lists(s, Send(m))
      BY <1>16, <2>1, <3>1 DEF Coming, Lists
    <3>3. /\ Lost(c, n).kind = "lost" /\ Changed(n, c, Heir(n)).kind = "changed"
          /\ Acquired(Heir(n), n).kind = "acquired"
      BY MessageKinds
    <3>4. Lists(t, Send(m))
      BY <1>11, <1>13, <1>14, <3>1, <3>2, <3>3
    <3>5. Coming(m)
      BY <1>2, <3>4 DEF Coming
    <3> QED BY <1>6, <3>5 DEF Answers
  <2> QED BY <2>1 DEF Answers
<1>19. OneLeft(p)'
  <2>1. \E b \in Seq(Call), k \in Call, e \in Seq(Call) :
          /\ todo' = b \o (<<k>> \o e)
          /\ AllEarly(b) /\ AllPlain(e)
          /\ k.call \in {"unlink_owner", "swap_links"}
          /\ p = After(k, owners)
    BY <1>2, <1>7, <1>8, <1>9, <1>11, <1>12
  <2>2. \A k : After(k, owners)' = After(k, owners)
    BY <1>1 DEF After, Effect
  <2> QED BY <2>1, <2>2 DEF OneLeft
<1>20. Works'
  BY <1>6, <1>17, <1>18, <1>19 DEF Works, Stage
<1>21. Undoable'
  <2>1. (\A m, d : Undoes(m, d)' <=> Undoes(m, d)) /\ (Restoring => Restoring')
    BY <1>1 DEF Undoes, Lists, Restoring
  <2> QED BY <1>1, <1>2, <2>1, UndoableKept DEF SignalInv, Connected
<1>22. Unique'
  BY <1>1 DEF SignalInv, Unique, Queued
<1> QED BY <1>1, <1>2, <1>20, <1>21, <1>22 DEF SignalInv

-----------------------------------------------------------------------------
(* The calls that change no queue.                                         *)

LEMMA HooksStay ==
  ASSUME UNCHANGED hooks
  PROVE  (\A n, c : Undoes(n, c)' <=> Undoes(n, c)) /\ (Restoring => Restoring')
BY DEF Undoes, Lists, Restoring

LEMMA RegistrySignals ==
  ASSUME TypeOK, TypeOK', Distinct, SignalInv, RegistryCall
  PROVE  SignalInv'
<1>1. CASE NotifyStarted
  <2>1. /\ Calling("notify") /\ Return
        /\ UNCHANGED <<link, told, watched, owners, before, phase, hooks>>
        /\ msgs' = IF ~Top.entry.auto /\ Connected(Top.entry.conn)
                     THEN Append(msgs, Answer(Top.entry.conn, Top.name)) ELSE msgs
    BY <1>1 DEF NotifyStarted, unseen, seenVars
  <2>2. Top.entry \in Entry /\ Top.name \in Name
    BY <2>1, TopOf, CallFields
  <2>3. /\ Answer(Top.entry.conn, Top.name) \in Message
        /\ Answer(Top.entry.conn, Top.name).kind = "answer"
    BY <2>2, MessageIntro, MessageKinds DEF Entry
  <2>4. Kept
    BY <2>1, <2>3, ReturnKept
  <2> QED BY <2>1, <2>4, HooksStay, ReturnSignals DEF OwnerCalls, Removal
<1>2. CASE CompleteConnection
  <2>1. /\ Calling("complete") /\ Return
        /\ UNCHANGED <<link, told, watched, owners, before, phase, hooks, msgs>>
    BY <1>2 DEF CompleteConnection, unseen, seenVars
  <2>2. Kept
    BY <2>1, ReturnKept
  <2> QED BY <2>1, <2>2, HooksStay, ReturnSignals DEF OwnerCalls, Removal
<1> QED BY <1>1, <1>2, LinkSignals, SetFlagsSignals, SuccessionSignals, RemoveWaitingSignals,
           UnlinkSignals DEF RegistryCall

LEMMA SendSignals ==
  ASSUME TypeOK, SignalInv, SendMessage
  PROVE  SignalInv'
<1>1. /\ Calling("send") /\ Return
      /\ UNCHANGED <<link, told, watched, owners, before, phase, hooks>>
      /\ msgs' = IF Reaches(Top.msg) THEN Append(msgs, Top.msg) ELSE msgs
  BY DEF SendMessage, busVars, seenVars
<1>2. Kept
  BY <1>1, ReturnKept
<1> QED BY <1>1, <1>2, HooksStay, ReturnSignals DEF OwnerCalls, Removal

LEMMA RaiseSignals ==
  ASSUME TypeOK, SignalInv, NEW f \in {"spawn", "dispatch"}, Calling(f), Raise,
         UNCHANGED <<link, msgs, told, watched, owners, before, phase, hooks>>
  PROVE  SignalInv'
<1>1. Top \in Call /\ Top.call = f /\ Top.name \in Name
  BY TopOf, CallFields
<1>2. todo' \in Seq(Call)
  BY <1>1, RaiseType
<1>3. PICK u : u = todo'
  OBVIOUS
<1>4. u = <<>> \/ u = <<Send(ErrorReply(Top.name))>>
  BY <1>3 DEF Raise
<1>5. ErrorReply(Top.name).kind \in {"answer", "error"}
  BY MessageKinds DEF ErrorReply
<1>6. \A k : Lists(u, k) => k = Send(ErrorReply(Top.name))
  BY <1>4, ListsShort
<1>7. AllPlain(u)
  BY <1>5, <1>6, SendForm DEF AllPlain, Plain, OwnerCalls, Removal, Signal
<1>8. \A m : m.kind = "reply" => ~Lists(u, Send(m))
  BY <1>5, <1>6, SendForm
<1>9. f \notin OwnerCalls /\ ~Early(Top)
  BY <1>1 DEF OwnerCalls, Removal, Early
<1> QED BY <1>2, <1>3, <1>7, <1>8, <1>9, MadeSignals

(* A call of the activation table returns, and may add a hook. *)
LEMMA TableSignals ==
  ASSUME TypeOK, SignalInv, NEW f \in {"register", "spawn", "dispatch", "forget", "drop"},
         Calling(f), Return, UNCHANGED <<link, told, watched, owners, before, phase>>,
         \/ msgs' = msgs
         \/ \E x \in Message : x.kind \in {"answer", "handover"} /\ msgs' = Append(msgs, x),
         \/ hooks' = hooks
         \/ \E h \in Hook : h.hook # "cancel_ownership" /\ hooks' = <<h>> \o hooks
  PROVE  SignalInv'
<1>1. Kept
  BY ReturnKept
<1>2. (\A n, c : Undoes(n, c)' <=> Undoes(n, c)) /\ (Restoring => Restoring')
  BY HooksStay, UndoesAdded
<1> QED BY <1>1, <1>2, ReturnSignals DEF OwnerCalls, Removal

LEMMA ActivationSignals ==
  ASSUME TypeOK, SignalInv, ActivationCall
  PROVE  SignalInv'
<1> USE DEF registered, seenVars
<1>1. CASE RegisterEntry
  <2>1. /\ Calling("register") /\ Return
        /\ UNCHANGED <<link, told, watched, owners, before, phase, msgs>>
        /\ hooks' = <<CancelPending(Top.name)>> \o hooks
    BY <1>1 DEF RegisterEntry
  <2>2. Top.name \in Name
    BY <2>1, TopOf, CallFields
  <2>3. CancelPending(Top.name) \in Hook /\ CancelPending(Top.name).hook # "cancel_ownership"
    BY <2>2, HookIntro DEF CancelPending
  <2> QED BY <2>1, <2>3, TableSignals
<1>2. CASE SpawnProgram
  <2>1. /\ Calling("spawn") /\ Return
        /\ UNCHANGED <<link, told, watched, owners, before, phase, msgs, hooks>>
    BY <1>2 DEF SpawnProgram
  <2> QED BY <2>1, TableSignals
<1>3. CASE SpawnParseError \/ SpawnForkError
  <2>1. /\ Calling("spawn") /\ Raise
        /\ UNCHANGED <<link, told, watched, owners, before, phase, msgs, hooks>>
    BY <1>3 DEF SpawnParseError, SpawnForkError
  <2> QED BY <2>1, RaiseSignals
<1>4. CASE RejectHeld
  <2>1. /\ Calling("dispatch") /\ Raise
        /\ UNCHANGED <<link, told, watched, owners, before, phase, msgs, hooks>>
    BY <1>4 DEF RejectHeld
  <2> QED BY <2>1, RaiseSignals
<1>5. CASE DispatchHeld
  <2> DEFINE x == Handover(Top.entry.conn, Top.name)
  <2>1. /\ Calling("dispatch") /\ Return
        /\ UNCHANGED <<link, told, watched, owners, before, phase, hooks>>
        /\ msgs' = msgs \/ msgs' = Append(msgs, x)
    BY <1>5 DEF DispatchHeld
  <2>2. Top.entry \in Entry /\ Top.name \in Name
    BY <2>1, TopOf, CallFields
  <2>3. x \in Message /\ x.kind = "handover"
    BY <2>2, MessageIntro, MessageKinds DEF Entry
  <2> HIDE DEF x
  <2> QED BY <2>1, <2>3, TableSignals
<1>6. CASE ForgetPending
  <2> DEFINE h == RestorePending(Top.name, pending[Top.name], Top.name \in child)
  <2>1. /\ Calling("forget") /\ Return
        /\ UNCHANGED <<link, told, watched, owners, before, phase, msgs>>
        /\ hooks' = <<h>> \o hooks
    BY <1>6 DEF ForgetPending
  <2>2. Top.name \in Name
    BY <2>1, TopOf, CallFields
  <2>3. pending[Top.name] \in Seq(Entry) /\ (Top.name \in child) \in BOOLEAN
    BY <2>2 DEF TypeOK
  <2>4. h \in Hook /\ h.hook # "cancel_ownership"
    BY <2>2, <2>3, HookIntro DEF RestorePending
  <2> HIDE DEF h
  <2> QED BY <2>1, <2>4, TableSignals
<1>7. CASE DropPending
  <2>1. /\ Calling("drop") /\ Return
        /\ UNCHANGED <<link, told, watched, owners, before, phase, msgs, hooks>>
    BY <1>7 DEF DropPending
  <2> QED BY <2>1, TableSignals
<1>8. CASE SendHeldMessages
  <2> DEFINE n == Top.name
             s == IF pending[n] = <<>> THEN <<>> ELSE Held(n) \o <<Forget(n)>>
             t == Tail(todo)
  <2>1. /\ Calling("send_held") /\ todo' = s \o t
        /\ UNCHANGED <<link, told, watched, owners, before, phase, msgs, hooks>>
    BY <1>8 DEF SendHeldMessages, Make
  <2>2. /\ n \in Name /\ t \in Seq(Call) /\ Top.call = "send_held"
        /\ \A y : Lists(todo, y) <=> y = Top \/ Lists(t, y)
    BY <2>1, TopOf, CallFields
  <2>3. /\ Held(n) \in Seq(Call) /\ <<Forget(n)>> \in Seq(Call)
        /\ \A k : Lists(Held(n), k) => k.call = "dispatch"
        /\ \A k : Lists(<<Forget(n)>>, k) => k.call = "forget"
    <3>1. Held(n) \in Seq(Call) /\ Forget(n) \in Call
      BY <2>2, CallsForEntries, CallIntro
    <3>2. \A k : Lists(Held(n), k) => k.call = "dispatch"
      BY DEF Held, Lists, Dispatch
    <3>3. \A k : Lists(<<Forget(n)>>, k) => k.call = "forget"
      BY ListsShort DEF Forget
    <3> QED BY <3>1, <3>2, <3>3, CallSequences
  <2>4. s \in Seq(Call) /\ \A k : Lists(s, k) => k.call \in {"dispatch", "forget"}
    <3>1. CASE pending[n] = <<>>
      BY <3>1, ListsShort, CallSequences
    <3>2. CASE pending[n] # <<>>
      BY <2>3, <3>2, ListsConcat
    <3> QED BY <3>1, <3>2
  <2>5. PICK p \in [AnyName -> Seq(Owner)] : Stage(p) /\ Answers(p)
    BY <2>1 DEF SignalInv, Works, Calling
  <2>6. ~Early(Top) /\ "send_held" \notin OwnerCalls
    BY <2>2 DEF Early, OwnerCalls, Removal
  <2>7. AllPlain(t)
    BY <2>1, <2>5, <2>6, StageOfOther, TopOf DEF Done
  <2> HIDE DEF s, t
  <2>8. PICK u : u = s \o t
    OBVIOUS
  <2>9. u \in Seq(Call) /\ \A k : Lists(u, k) <=> Lists(s, k) \/ Lists(t, k)
    BY <2>2, <2>4, <2>8, ListsConcat
  <2>10. AllPlain(u)
    BY <2>4, <2>7, <2>9 DEF AllPlain, Plain, OwnerCalls, Removal
  <2>11. \A m : Lists(u, Send(m)) => Lists(todo, Send(m))
    BY <2>2, <2>4, <2>9, SendForm
  <2> QED BY <2>1, <2>6, <2>8, <2>9, <2>10, <2>11, MadeSignals
<1> QED BY <1>1, <1>2, <1>3, <1>4, <1>5, <1>6, <1>7, <1>8 DEF ActivationCall

-----------------------------------------------------------------------------
(* The end of a handler.                                                   *)

(* When all calls are made the queues are what the signals tell. *)
LEMMA ExecutingStage ==
  ASSUME TypeOK, SignalInv, Executing
  PROVE  Announces(owners) /\ Answers(owners)
<1>1. PICK p \in [AnyName -> Seq(Owner)] : Stage(p) /\ Answers(p)
  BY DEF SignalInv, Works, Executing
<1>2. todo = <<>>
  BY DEF Executing
<1>3. \A k \in Call, b \in Seq(Call) : <<k>> \o b \in Seq(Call) /\ <<k>> \o b # <<>>
  BY ListsCons, HeadTailConcat
<1>4. ~OneLeft(p)
  <2>1. SUFFICES ASSUME NEW a \in Seq(Call), NEW k \in Call, NEW b \in Seq(Call),
                        todo = a \o (<<k>> \o b)
                 PROVE  FALSE
    BY DEF OneLeft
  <2>2. CASE a = <<>>
    BY <1>2, <1>3, <2>1, <2>2, ConcatEmptySeq
  <2>3. CASE a # <<>>
    <3>1. <<k>> \o b \in Seq(Call)
      BY <1>3
    <3> QED BY <1>2, <2>1, <2>3, <3>1, HeadTailConcat
  <2> QED BY <2>2, <2>3
<1>5. ~TopLeft(p) /\ ~TwoLeft(p)
  BY <1>2, <1>3 DEF TopLeft, TwoLeft
<1>6. Done(p) /\ Announces(p)
  BY <1>1, <1>4, <1>5 DEF Stage
<1> QED BY <1>1, <1>6 DEF Done

(* A step while the transaction executes. *)
LEMMA StillExecuting ==
  ASSUME TypeOK, SignalInv, todo' = <<>>, phase' = "run", UNCHANGED owners,
         Announces(owners)', Answers(owners)'
  PROVE  SignalInv'
<1>1. PICK p : p = owners'
  OBVIOUS
<1>2. p \in [AnyName -> Seq(Owner)]
  BY <1>1 DEF TypeOK
<1>3. AllPlain(todo)'
  BY PlainSequences DEF AllPlain, Lists
<1>4. Announces(p)' /\ Answers(p)'
  BY <1>1 DEF Announces, Answers
<1>5. Done(p)'
  BY <1>1, <1>3 DEF Done
<1>6. Works'
  BY <1>2, <1>4, <1>5 DEF Works, Stage
<1>7. Unique'
  BY DEF SignalInv, Unique, Queued
<1> QED BY <1>6, <1>7 DEF SignalInv

(* Nothing is left to tell. *)
LEMMA NothingComes ==
  ASSUME NEW p, Announces(p), msgs = <<>>, todo = <<>>
  PROVE  Agree(p)
<1>1. \A m : ~Coming(m)
  BY ListsShort DEF Coming
<1> QED BY <1>1 DEF Announces, Agree

LEMMA DeliverSignals ==
  ASSUME TypeOK, SignalInv, DeliverMessage
  PROVE  SignalInv'
<1> DEFINE x == Head(msgs)
<1>1. /\ Executing /\ msgs # <<>> /\ msgs' = Tail(msgs) /\ todo = <<>> /\ todo' = <<>>
      /\ UNCHANGED <<owners, link>> /\ phase = "run" /\ phase' = "run"
      /\ told' = CASE x.kind = "acquired" -> [told EXCEPT ![x.to] = @ \cup {x.name}]
                   [] x.kind = "lost"     -> [told EXCEPT ![x.to] = @ \ {x.name}]
                   [] OTHER               -> told
      /\ watched' = IF x.kind = "changed" THEN [watched EXCEPT ![x.name] = x.new] ELSE watched
  BY DEF DeliverMessage, Executing, busVars
<1>2. PICK p : p = owners
  OBVIOUS
<1>3. Announces(p) /\ Answers(p)
  BY <1>1, <1>2, ExecutingStage
<1>4. /\ x \in Message /\ msgs' \in Seq(Message)
      /\ \A m : Lists(msgs, m) <=> m = x \/ Lists(msgs', m)
      /\ OneOf(msgs, Changes) => OneOf(msgs', Changes)
      /\ OneOf(msgs, Changes) /\ x \in Changes => NoneOf(msgs', Changes)
  BY <1>1, ListsTail DEF TypeOK
<1>5. \A m : ~Lists(todo, Send(m)) /\ ~Lists(todo', Send(m))
  BY <1>1, ListsShort
<1>6. /\ \A m : Coming(m) <=> m = x \/ Lists(msgs', m)
      /\ \A m : Coming(m)' <=> Lists(msgs', m)
  <2>1. \A m : Coming(m)' <=> Lists(msgs', m) \/ Lists(todo', Send(m))
    BY DEF Coming, Lists
  <2> QED BY <1>4, <1>5, <2>1 DEF Coming
<1>7. x.kind = "changed" <=> x \in Changes
  BY <1>4, MessageForm
<1>8. OneOf(msgs, Changes)
  BY <1>3 DEF Announces, OneChange
<1> HIDE DEF x
<1>9. OneChange'
  <2>1. OneChange' <=> /\ OneOf(msgs', Changes) /\ OneOf(todo', Announcing)
                       /\ NoneOf(msgs', Changes) \/ NoneOf(todo', Announcing)
    BY DEF OneChange, OneOf, NoneOf, Lists
  <2>2. OneOf(<<>>, Announcing) /\ NoneOf(<<>>, Announcing)
    BY ListsShort DEF NoneOf
  <2> QED BY <1>1, <1>4, <1>8, <2>1, <2>2
<1>10. ASSUME NEW n \in AnyName
       PROVE  /\ \A o, w : Coming(Changed(n, o, w))' => o = watched'[n] /\ w = First(p[n]) /\ o # w
              /\ (\A o, w : ~Coming(Changed(n, o, w))') => watched'[n] = First(p[n])
  <2>1. CASE x.kind = "changed"
    <3>1. x = Changed(x.name, x.old, x.new)
      BY <1>4, <2>1, MessageForm
    <3>2. x.name \in AnyName
      BY <1>4, <2>1, MessageFields
    <3>3. x.new = First(p[x.name])
      BY <1>3, <1>6, <3>1, <3>2 DEF Announces
    <3>4. \A o, w : ~Coming(Changed(n, o, w))'
      <4>1. SUFFICES ASSUME NEW o, NEW w, Lists(msgs', Changed(n, o, w))
                     PROVE  FALSE
        BY <1>6
      <4>2. \A i \in DOMAIN msgs' : msgs'[i] \in Message
        BY <1>4, LenProperties, ElementOfSeq
      <4>3. Changed(n, o, w) \in Message
        BY <4>1, <4>2 DEF Lists
      <4>4. Changed(n, o, w) \in Changes
        BY <4>3, MessageForm, MessageKinds
      <4> QED BY <1>4, <1>7, <1>8, <2>1, <4>1, <4>4 DEF NoneOf
    <3>5. watched'[n] = IF n = x.name THEN x.new ELSE watched[n]
      BY <1>1, <2>1 DEF TypeOK
    <3>6. ASSUME n # x.name
          PROVE  watched[n] = First(p[n])
      <4>1. \A o, w : Changed(n, o, w) # x
        <5>1. \A o, w : Changed(n, o, w).name = n
          BY MessageKinds
        <5> QED BY <3>6, <5>1
      <4>2. \A o, w : ~Coming(Changed(n, o, w))
        BY <1>6, <3>4, <4>1
      <4> QED BY <1>3, <4>2 DEF Announces
    <3> QED BY <3>3, <3>4, <3>5, <3>6
  <2>2. CASE x.kind # "changed"
    <3>1. \A o, w : Coming(Changed(n, o, w))' <=> Coming(Changed(n, o, w))
      <4>1. \A o, w : Changed(n, o, w) # x
        BY <2>2, MessageKinds
      <4> QED BY <1>6, <4>1
    <3>2. watched' = watched
      BY <1>1, <2>2
    <3> QED BY <1>3, <3>1, <3>2 DEF Announces
  <2> QED BY <2>1, <2>2
<1>11. ASSUME NEW n \in AnyName, NEW c \in Conn, Connected(c)'
       PROVE  /\ Coming(Acquired(c, n))' => First(p[n]) = c
              /\ Coming(Lost(c, n))' => First(p[n]) # c
              /\ ~Coming(Acquired(c, n))' /\ ~Coming(Lost(c, n))' => (n \in told'[c] <=> First(p[n]) = c)
  <2>1. /\ Coming(Acquired(c, n)) => First(p[n]) = c
        /\ Coming(Lost(c, n)) => First(p[n]) # c
        /\ ~Coming(Acquired(c, n)) /\ ~Coming(Lost(c, n)) => (n \in told[c] <=> First(p[n]) = c)
    BY <1>1, <1>3, <1>11 DEF Announces, Connected
  <2>2. /\ Acquired(c, n).kind = "acquired" /\ Acquired(c, n).to = c /\ Acquired(c, n).name = n
        /\ Lost(c, n).kind = "lost" /\ Lost(c, n).to = c /\ Lost(c, n).name = n
    BY MessageKinds
  <2>3. CASE x = Acquired(c, n)
    <3>1. n \in told'[c]
      BY <1>1, <2>2, <2>3 DEF TypeOK
    <3> QED BY <1>6, <2>1, <2>3, <3>1
  <2>4. CASE x = Lost(c, n)
    <3>1. n \notin told'[c]
      BY <1>1, <2>2, <2>4 DEF TypeOK
    <3> QED BY <1>6, <2>1, <2>4, <3>1
  <2>5. CASE x # Acquired(c, n) /\ x # Lost(c, n)
    <3>1. n \in told'[c] <=> n \in told[c]
      <4>1. CASE x.kind = "acquired"
        <5>1. x = Acquired(x.to, x.name)
          BY <1>4, <4>1, MessageForm
        <5>2. ~(x.to = c /\ x.name = n)
          BY <2>5, <5>1
        <5>3. told' = [told EXCEPT ![x.to] = @ \cup {x.name}]
          BY <1>1, <4>1
        <5> QED BY <5>2, <5>3 DEF TypeOK
      <4>2. CASE x.kind = "lost"
        <5>1. x = Lost(x.to, x.name)
          BY <1>4, <4>2, MessageForm
        <5>2. ~(x.to = c /\ x.name = n)
          BY <2>5, <5>1
        <5>3. told' = [told EXCEPT ![x.to] = @ \ {x.name}]
          BY <1>1, <4>2
        <5> QED BY <5>2, <5>3 DEF TypeOK
      <4>3. CASE x.kind \notin {"acquired", "lost"}
        BY <1>1, <4>3
      <4> QED BY <4>1, <4>2, <4>3
    <3> QED BY <1>6, <2>1, <2>5, <3>1
  <2> QED BY <2>3, <2>4, <2>5
<1>12. Announces(p)' /\ Answers(p)'
  <2>1. Announces(p)'
    BY <1>9, <1>10, <1>11 DEF Announces
  <2>2. Answers(p)'
    BY <1>3, <1>6 DEF Answers
  <2> QED BY <2>1, <2>2
<1>13. Announces(owners)' /\ Answers(owners)'
  BY <1>1, <1>2, <1>12 DEF Announces, Answers
<1> QED BY <1>1, <1>13, StillExecuting

(* A step of the execution that sends nothing. *)
LEMMA QuietExecution ==
  ASSUME TypeOK, SignalInv, Executing, todo' = <<>>, phase' = "run",
         UNCHANGED <<owners, msgs, told, watched>>,
         \A c \in Conn : Connected(c)' => Connected(c)
  PROVE  SignalInv'
<1>1. PICK p : p = owners
  OBVIOUS
<1>2. Announces(p) /\ Answers(p)
  BY <1>1, ExecutingStage
<1>3. Kept /\ SameHeads(p, p)
  BY StillKept DEF Executing, SameHeads
<1>4. Announces(p)' /\ Answers(p)'
  BY <1>2, <1>3, KeptAnnounces, KeptAnswers
<1>5. Announces(owners)' /\ Answers(owners)'
  BY <1>1, <1>4 DEF Announces, Answers
<1> QED BY <1>5, StillExecuting

LEMMA FreeHookSignals ==
  ASSUME TypeOK, SignalInv, FreeHook
  PROVE  SignalInv'
<1>1. /\ Executing /\ todo' = <<>> /\ phase' = "run"
      /\ UNCHANGED <<owners, msgs, told, watched, link>>
  BY DEF FreeHook, Executing, seenVars
<1> QED BY <1>1, QuietExecution DEF Connected

(* Between two transactions nothing is left to tell. *)
LEMMA RestSignals ==
  ASSUME SignalInv, Agree(owners), msgs' = <<>>, phase' \in {"idle", "round"},
         UNCHANGED <<owners, told, watched>>,
         \A c \in Conn : Connected(c)' => Connected(c)
  PROVE  SignalInv'
<1>1. PICK p : p = owners
  OBVIOUS
<1>2. Agree(p)'
  BY <1>1, KeptAgree DEF SameHeads
<1>3. Agree(owners)'
  BY <1>1, <1>2 DEF Agree
<1>4. Unique'
  BY DEF SignalInv, Unique, Queued
<1> QED BY <1>3, <1>4 DEF SignalInv

LEMMA HangUpSignals ==
  ASSUME TypeOK, SignalInv, NEW c \in Conn, HangUp(c)
  PROVE  SignalInv'
<1>1. /\ UNCHANGED <<owners, phase, todo, msgs, told, watched>>
      /\ \A d \in Conn : Connected(d)' => Connected(d)
  BY DEF HangUp, txnVars, seenVars, Connected, TypeOK
<1>2. CASE Executing
  BY <1>1, <1>2, QuietExecution DEF Executing
<1>3. CASE Idle
  BY <1>1, <1>3, RestSignals DEF Idle, SignalInv
<1> QED BY <1>2, <1>3 DEF HangUp

LEMMA ExecutedSignals ==
  ASSUME TypeOK, SignalInv, EndExecute
  PROVE  SignalInv'
<1>1. /\ Executing /\ todo = <<>> /\ msgs = <<>> /\ msgs' = <<>> /\ phase' \in {"idle", "round"}
      /\ UNCHANGED <<owners, told, watched, link>>
  BY DEF EndExecute, Executing, Close, Rest, busVars, seenVars
<1>2. Agree(owners)
  BY <1>1, ExecutingStage, NothingComes
<1> QED BY <1>1, <1>2, RestSignals DEF Connected

(* The events and rounds that begin no transaction. *)
LEMMA EventSignals ==
  ASSUME TypeOK, SignalInv
  PROVE  /\ \A c \in Conn : Disconnected(c) => SignalInv'
         /\ \A n \in Name : TimeOut(n) \/ ChildFails(n) \/ ChildExits(n) => SignalInv'
         /\ ForgetClient \/ FailedAll => SignalInv'
<1>1. phase \in {"idle", "round"} => msgs = <<>> /\ Agree(owners)
  BY DEF SignalInv
<1>2. ASSUME NEW c \in Conn, Disconnected(c)
      PROVE  SignalInv'
  <2>1. /\ phase \in {"idle", "round"} /\ phase' \in {"idle", "round"}
        /\ UNCHANGED <<owners, told, watched, link, msgs>>
    BY <1>2 DEF Disconnected, Idle, busVars, seenVars
  <2> QED BY <1>1, <2>1, RestSignals DEF Connected
<1>3. ASSUME NEW n \in Name, TimeOut(n) \/ ChildFails(n) \/ ChildExits(n)
      PROVE  SignalInv'
  <2>1. /\ phase \in {"idle", "round"} /\ phase' \in {"idle", "round"}
        /\ UNCHANGED <<owners, told, watched, link, msgs>>
    BY <1>3 DEF TimeOut, ChildFails, ChildExits, Fail, Idle, busVars, txnVars, seenVars, registered
  <2> QED BY <1>1, <2>1, RestSignals DEF Connected
<1>4. ASSUME ForgetClient \/ FailedAll
      PROVE  SignalInv'
  <2>1. /\ phase \in {"idle", "round"} /\ phase' \in {"idle", "round"}
        /\ UNCHANGED <<owners, told, watched, msgs>>
    BY <1>4 DEF ForgetClient, FailedAll, Rest, busVars, seenVars
  <2>2. \A c \in Conn : Connected(c)' => Connected(c)
    BY <1>4 DEF ForgetClient, FailedAll, busVars, Connected, TypeOK
  <2> QED BY <1>1, <2>1, <2>2, RestSignals
<1> QED BY <1>2, <1>3, <1>4

-----------------------------------------------------------------------------
(* Lack of memory, and what the cancel hooks undo.                         *)

(* The transaction of a client that is there is not abandoned. *)
LEMMA NotAbandoned ==
  ASSUME TypeOK, OutOfMemory, "down" \notin OomIn
  PROVE  ~Abandoned
<1>1. ASSUME Requested
      PROVE  Connected(job.by)
  <2>1. job.by \in Conn
    BY <1>1 DEF Requested, TypeOK, Job, NoJob
  <2>2. link[job.by] \in {"up", "down", "gone"}
    BY <2>1 DEF TypeOK
  <2>3. link[job.by] \in OomIn
    BY <1>1 DEF OutOfMemory, MayFail
  <2> QED BY <2>2, <2>3, FailureAssumption DEF Connected
<1> QED BY <1>1 DEF Abandoned

(* It is cancelled. *)
LEMMA OutOfMemorySignals ==
  ASSUME TypeOK, SignalInv, OutOfMemory, "down" \notin OomIn
  PROVE  SignalInv'
<1>1. /\ phase = "run" /\ todo # <<>>
      /\ UNCHANGED <<owners, told, watched, before, hooks, link>>
  BY DEF OutOfMemory, MayFail
<1>2. phase' = "cancel" /\ msgs' = <<>>
  BY NotAbandoned DEF OutOfMemory
<1>3. Undoable'
  <2>1. (\A n, c : Undoes(n, c)' <=> Undoes(n, c)) /\ (Restoring => Restoring')
    BY <1>1, HooksStay
  <2>2. \A c \in Conn : Connected(c)' => Connected(c)
    BY <1>1 DEF Connected
  <2> QED BY <1>1, <2>1, <2>2, UndoableKept DEF SignalInv
<1>4. Unique'
  BY <1>1 DEF SignalInv, Unique, Queued
<1> QED BY <1>2, <1>3, <1>4 DEF SignalInv

(* The owner that was added leaves the queue again. *)
LEMMA UndoAddSignals ==
  ASSUME TypeOK, Distinct, HookInv, SignalInv, UndoAddOwner
  PROVE  SignalInv'
<1>1. /\ phase = "cancel" /\ phase' = "cancel" /\ hooks # <<>> /\ hooks' = Tail(hooks)
      /\ Head(hooks).hook = "cancel_ownership"
      /\ UNCHANGED <<link, told, watched, before, msgs>>
  BY DEF UndoAddOwner, Cancelling, seenVars
<1>2. PICK h : h = Head(hooks)
  OBVIOUS
<1>3. h \in Hook /\ h = CancelOwnership(h.name, h.conn) /\ h.name \in AnyName /\ h.conn \in Conn
  <2>1. h \in Hook
    BY <1>1, <1>2, HeadTailProperties DEF TypeOK
  <2> QED BY <1>1, <1>2, <2>1, HookForm, HookFields
<1>4. PICK n \in AnyName, c \in Conn : n = h.name /\ c = h.conn
  BY <1>3
<1>5. owners' = [owners EXCEPT ![n] = Without(owners[n], c)]
  BY <1>2, <1>4 DEF UndoAddOwner
<1>6. \A m, d : Undoes(m, d) <=> (m = n /\ d = c) \/ Undoes(m, d)'
  <2>1. \A m, d : Undoes(m, d) <=> CancelOwnership(m, d) = h \/ Undoes(m, d)'
    BY <1>1, <1>2, UndoesGone
  <2> QED BY <1>3, <1>4, <2>1, HookForm
<1>7. ~Restoring
  <2>1. Len(hooks) \in Nat /\ 1 \in 1..Len(hooks) /\ hooks[1].hook = "cancel_ownership"
    <3>1. Len(hooks) \in Nat /\ Len(hooks) # 0
      BY <1>1, LenProperties, EmptySeq DEF TypeOK
    <3>2. 1 \in 1..Len(hooks)
      BY <3>1
    <3> QED BY <1>1, <3>1, <3>2
  <2>2. ASSUME NEW j \in 1..Len(hooks), hooks[j].hook = "restore_ownership"
        PROVE  FALSE
    <3>1. j # 1
      BY <2>1, <2>2
    <3>2. 1 < j
      BY <2>1, <3>1
    <3> QED BY <2>1, <2>2, <3>2 DEF HookInv
  <2> QED BY <2>2 DEF Restoring
<1>8. msgs = <<>> /\ Agree(before) /\ \A m \in AnyName : Undone(m)
  BY <1>1, <1>7 DEF SignalInv, Undoable
<1>9. /\ owners[n] \in Seq(Owner) /\ NoTwice(owners[n])
      /\ \A m \in AnyName : owners'[m] = IF m = n THEN Without(owners[n], c) ELSE owners[m]
  BY <1>5, QueueType DEF Distinct, TypeOK
<1>10. ASSUME NEW m \in AnyName
       PROVE  Undone(m)'
  <2>1. CASE m # n
    <3>1. Undone(m)' <=> \/ (\A d : ~Undoes(m, d)) /\ First(owners[m]) = First(before[m])
                         \/ \E d : /\ Undoes(m, d)
                                   /\ \A x : Undoes(m, x) => x = d
                                   /\ First(Without(owners[m], d)) = First(before[m])
      <4>1. \A d : Undoes(m, d)' <=> Undoes(m, d)
        BY <1>6, <2>1
      <4>2. owners'[m] = owners[m] /\ before' = before
        BY <1>1, <1>9, <2>1
      <4>3. First(owners[m])' = First(owners[m]) /\ First(before[m])' = First(before[m])
        BY <4>2 DEF First
      <4>4. \A d : First(Without(owners[m], d))' = First(Without(owners[m], d))
        BY <4>2 DEF First, Without, Queued, Place, RemoveAt
      <4> QED BY <4>1, <4>3, <4>4 DEF Undone
    <3> QED BY <1>8, <3>1 DEF Undone
  <2>2. CASE m = n
    <3>1. /\ \A d : Undoes(n, d) => d = c
          /\ First(Without(owners[n], c)) = First(before[n])
      <4>1. Undoes(n, c) /\ Undone(n)
        BY <1>6, <1>8
      <4> QED BY <4>1 DEF Undone
    <3>2. \A d : Undoes(n, d)' => d = c
      BY <1>6, <3>1
    <3>3. PICK q : q = Without(owners[n], c)
      OBVIOUS
    <3>4. q \in Seq(Owner) /\ ~Queued(q, c)
      BY <1>9, <3>3, WithoutProperties
    <3>5. Without(q, c) = q
      BY <3>4 DEF Without
    <3>6. owners'[n] = q /\ before'[n] = before[n]
      BY <1>1, <1>9, <3>3
    <3>7. First(owners[n])' = First(before[n]) /\ First(before[n])' = First(before[n])
      BY <3>1, <3>3, <3>6 DEF First
    <3>8. First(Without(owners[n], c))' = First(before[n])
      <4>1. First(Without(owners[n], c))' = First(Without(q, c))
        BY <3>6 DEF First, Without, Queued, Place, RemoveAt
      <4> QED BY <3>1, <3>3, <3>5, <4>1
    <3>9. CASE Undoes(n, c)'
      BY <2>2, <3>2, <3>7, <3>8, <3>9 DEF Undone
    <3>10. CASE ~Undoes(n, c)'
      BY <2>2, <3>2, <3>7, <3>10 DEF Undone
    <3> QED BY <3>9, <3>10
  <2> QED BY <2>1, <2>2
<1>11. Undoable'
  <2>1. Agree(before)'
    BY <1>1, <1>8 DEF Agree, Connected, First
  <2> QED BY <1>10, <2>1 DEF Undoable
<1>12. Unique'
  <2>1. ASSUME NEW m \in Conn, NEW d \in Conn, Queued(owners[m], d)'
        PROVE  d = m
    <3>1. m \in AnyName
      BY DEF AnyName
    <3>2. Queued(owners'[m], d)
      BY <2>1 DEF Queued
    <3>3. Queued(owners[m], d)
      BY <1>9, <3>1, <3>2, QueuedWithout
    <3> QED BY <3>3 DEF SignalInv, Unique
  <2> QED BY <2>1 DEF Unique
<1> QED BY <1>1, <1>8, <1>11, <1>12 DEF SignalInv

(* The hooks of activations concern no owner. *)
LEMMA UndoPendingSignals ==
  ASSUME TypeOK, HookInv, SignalInv, UndoActivate \/ UndoForget
  PROVE  SignalInv'
<1>1. /\ phase = "cancel" /\ phase' = "cancel" /\ hooks # <<>> /\ hooks' = Tail(hooks)
      /\ Head(hooks).hook \in {"cancel_pending", "restore_pending"}
      /\ UNCHANGED <<link, owners, told, watched, before, msgs>>
  BY DEF UndoActivate, UndoForget, Cancelling, seenVars, registered
<1>2. \A n, c : Undoes(n, c)' <=> Undoes(n, c)
  <2>1. \A n, c : CancelOwnership(n, c) # Head(hooks)
    BY <1>1, HookForm
  <2> QED BY <1>1, <2>1, UndoesGone
<1>3. Restoring => Restoring'
  <2>1. \A x : Lists(hooks, x) <=> x = Head(hooks) \/ Lists(hooks', x)
    BY <1>1, ListsTail DEF TypeOK
  <2>2. /\ DOMAIN hooks = 1..Len(hooks) /\ hooks' \in Seq(Hook)
        /\ DOMAIN hooks' = 1..Len(hooks')
    BY <1>1, LenProperties, HeadTailProperties DEF TypeOK
  <2>3. /\ Restoring => \E x : Lists(hooks, x) /\ x.hook = "restore_ownership"
        /\ (\E x : Lists(hooks', x) /\ x.hook = "restore_ownership") => Restoring'
    BY <2>2 DEF Restoring, Lists
  <2> QED BY <1>1, <2>1, <2>3
<1>4. Undoable'
  <2>1. \A c \in Conn : Connected(c)' => Connected(c)
    BY <1>1 DEF Connected
  <2> QED BY <1>1, <1>2, <1>3, <2>1, UndoableKept DEF SignalInv
<1>5. Unique'
  BY <1>1 DEF SignalInv, Unique, Queued
<1> QED BY <1>1, <1>4, <1>5 DEF SignalInv

(* A cancelled transaction changed no head: nobody was told anything. *)
LEMMA CancelledHeads ==
  ASSUME TypeOK, SignalInv, phase = "cancel", hooks = <<>>
  PROVE  Agree(before) /\ \A n \in AnyName : First(owners[n]) = First(before[n])
<1>1. \A x : ~Lists(hooks, x)
  BY ListsShort
<1>2. \A n, c : ~Undoes(n, c)
  BY <1>1 DEF Undoes
<1>3. DOMAIN hooks = 1..Len(hooks)
  BY LenProperties DEF TypeOK
<1>4. ~Restoring
  BY <1>1, <1>3 DEF Restoring, Lists
<1> QED BY <1>2, <1>4 DEF SignalInv, Undoable, Undone

LEMMA CancelledSignals ==
  ASSUME TypeOK, SignalInv, EndCancel
  PROVE  SignalInv'
<1>1. /\ phase = "cancel" /\ hooks = <<>> /\ msgs = <<>> /\ msgs' = <<>>
      /\ phase' \in {"idle", "round"} /\ UNCHANGED <<owners, told, watched, link>>
  BY DEF EndCancel, Close, Rest, busVars, seenVars, SignalInv
<1>2. Agree(owners)
  BY <1>1, CancelledHeads DEF Agree
<1> QED BY <1>1, <1>2, RestSignals DEF Connected

-----------------------------------------------------------------------------
(* Handlers begin.                                                         *)

(* The calls s are all there is to come. *)
Starts(s) ==
  /\ phase \in {"idle", "round"} /\ s \in Seq(Call)
  /\ \E y, w, u : Begin(y, w, u, s)
  /\ UNCHANGED <<owners, link, told, watched>>

(* The replies among them are true of the queues p. *)
Truthful(s, p) == \A c, n, r : Lists(s, Send(Reply(c, n, r))) => Honest(p[n], c, r)

LEMMA StartForm ==
  ASSUME TypeOK, SignalInv, NEW s, Starts(s), NEW p
  PROVE  /\ todo' = s /\ msgs' = <<>> /\ hooks' = <<>> /\ NoCancel'
         /\ Agree(owners) /\ UNCHANGED <<owners, link, told, watched>>
         /\ (p = owners => Agree(p)')
         /\ Agree(owners)'
         /\ Truthful(s, p) => Answers(p)'
         /\ \A k : After(k, owners)' = After(k, owners)
         /\ \A n : First(owners[n])' = First(owners[n])
<1>1. /\ todo' = s /\ msgs' = <<>> /\ hooks' = <<>>
      /\ Agree(owners) /\ UNCHANGED <<owners, link, told, watched>>
  BY DEF Starts, Begin, SignalInv
<1>2. NoCancel'
  BY <1>1, ListsShort DEF NoCancel, Undoes, Lists
<1>3. p = owners => Agree(p)'
  BY <1>1, KeptAgree DEF SameHeads, Connected
<1>4. Agree(owners)'
  BY <1>1 DEF Agree, First, Connected
<1>5. Truthful(s, p) => Answers(p)'
  <2>1. \A m : Coming(m)' <=> Lists(msgs', m) \/ Lists(todo', Send(m))
    BY DEF Coming, Lists
  <2>2. \A m : Coming(m)' <=> Lists(s, Send(m))
    BY <1>1, <2>1, ListsShort
  <2> QED BY <2>2 DEF Truthful, Answers
<1>6. \A k : After(k, owners)' = After(k, owners)
  BY <1>1 DEF After, Effect
<1>7. \A n : First(owners[n])' = First(owners[n])
  BY <1>1 DEF First
<1> QED BY <1>1, <1>2, <1>3, <1>4, <1>5, <1>6, <1>7

LEMMA StartSignals ==
  ASSUME TypeOK, SignalInv, NEW s, Starts(s),
         NEW p \in [AnyName -> Seq(Owner)], Stage(p)', Truthful(s, p)
  PROVE  SignalInv'
<1>1. /\ hooks' = <<>> /\ before' = owners /\ phase' = "run"
      /\ UNCHANGED <<owners, link, told, watched>> /\ Agree(owners) /\ NoCancel'
  BY StartForm DEF Starts, Begin
<1>2. Agree(before)'
  BY <1>1 DEF Agree, Connected, First
<1>3. ASSUME NEW n \in AnyName
      PROVE  Undone(n)'
  <2>1. First(owners[n])' = First(before[n])'
    BY <1>1 DEF First
  <2> QED BY <1>1, <2>1 DEF Undone, NoCancel
<1>4. Answers(p)'
  BY StartForm
<1>5. Works'
  BY <1>4 DEF Works
<1>6. Unique'
  BY <1>1 DEF SignalInv, Unique, Queued
<1> QED BY <1>1, <1>2, <1>3, <1>5, <1>6 DEF SignalInv, Undoable

(* No queue will change. *)
LEMMA StartPlain ==
  ASSUME TypeOK, SignalInv, NEW s, Starts(s), AllPlain(s), Truthful(s, owners)
  PROVE  SignalInv'
<1>1. PICK p : p = owners
  OBVIOUS
<1>2. p \in [AnyName -> Seq(Owner)] /\ Truthful(s, p)
  BY <1>1 DEF TypeOK, Truthful
<1>3. todo' = s /\ msgs' = <<>> /\ Agree(p)' /\ owners' = owners
  BY <1>1, StartForm
<1>4. Announces(p)'
  BY <1>3, PlainSequences, SilenceAnnounces DEF Starts
<1>5. AllPlain(todo)'
  BY <1>3 DEF AllPlain, Lists
<1>6. Done(p)'
  BY <1>1, <1>3, <1>5 DEF Done
<1> QED BY <1>2, <1>4, <1>6, StartSignals DEF Stage

(* A client leaves a queue. *)
LEMMA StartRemoval ==
  ASSUME TypeOK, TypeOK', SignalInv, NEW n \in AnyName, NEW c \in Conn, NEW b \in Seq(Call),
         Starts(<<RemoveOwner(n, c)>> \o b), AllPlain(b),
         Truthful(<<RemoveOwner(n, c)>> \o b, [owners EXCEPT ![n] = Without(owners[n], c)])
  PROVE  SignalInv'
<1> DEFINE k == RemoveOwner(n, c)
<1>1. /\ k \in Call /\ k.call = "remove_owner" /\ k.name = n /\ k.conn = c
  BY CallIntro DEF RemoveOwner
<1>2. PICK s : s = <<k>> \o b
  OBVIOUS
<1>3. PICK p : p = After(k, owners)
  OBVIOUS
<1>4. p = [owners EXCEPT ![n] = Without(owners[n], c)]
  BY <1>1, <1>3 DEF After, Effect
<1>5. p \in [AnyName -> Seq(Owner)]
  <2>1. Without(owners[n], c) \in Seq(Owner)
    BY QueueType, WithoutProperties
  <2> QED BY <1>4, <2>1 DEF TypeOK
<1>6. Starts(s) /\ Truthful(s, p)
  BY <1>2, <1>4
<1> HIDE DEF k
<1>7. todo' = s /\ msgs' = <<>> /\ Agree(owners)' /\ NoCancel' /\ After(k, owners)' = After(k, owners)
  BY <1>6, StartForm
<1>8. Leaving(k)'
  BY <1>1, <1>7 DEF Leaving
<1>9. p = After(k, owners)'
  BY <1>3, <1>7
<1>10. TopLeft(p)'
  BY <1>1, <1>2, <1>7, <1>8, <1>9 DEF TopLeft
<1> QED BY <1>5, <1>6, <1>7, <1>10, StartSignals DEF Stage

(* One call will change a queue, and the signals about it come before. *)
LEMMA StartChange ==
  ASSUME TypeOK, SignalInv, NEW a \in Seq(Call), NEW k \in Call, NEW b \in Seq(Call),
         NEW p \in [AnyName -> Seq(Owner)],
         Starts(a \o (<<k>> \o b)), AllEarly(a), AllPlain(b),
         k.call \in {"link_owner", "set_flags"},
         k.call = "link_owner" => /\ First(owners[k.name]) # k.conn
                                  /\ k.name \in Conn => k.conn = k.name,
         p = After(k, owners), Announces(p)', Truthful(a \o (<<k>> \o b), p)
  PROVE  SignalInv'
<1>1. PICK s : s = a \o (<<k>> \o b)
  OBVIOUS
<1>2. Starts(s) /\ Truthful(s, p)
  BY <1>1
<1>3. /\ todo' = s /\ NoCancel' /\ After(k, owners)' = After(k, owners)
      /\ First(owners[k.name])' = First(owners[k.name])
  BY <1>2, StartForm
<1>4. k.call = "link_owner" => LinkFits(k)'
  BY <1>3 DEF LinkFits
<1>5. p = After(k, owners)'
  BY <1>3
<1>6. OneLeft(p)'
  BY <1>1, <1>3, <1>4, <1>5 DEF OneLeft
<1> QED BY <1>2, <1>6, StartSignals DEF Stage

(* A call changes a queue and keeps its head. *)
LEMMA StartQuietChange ==
  ASSUME TypeOK, SignalInv, NEW k \in Call, NEW b \in Seq(Call),
         NEW p \in [AnyName -> Seq(Owner)],
         Starts(<<k>> \o b), AllPlain(b),
         k.call \in {"link_owner", "set_flags"},
         k.call = "link_owner" => /\ First(owners[k.name]) # k.conn
                                  /\ k.name \in Conn => k.conn = k.name,
         p = After(k, owners), SameHeads(p, owners), Truthful(<<k>> \o b, p)
  PROVE  SignalInv'
<1>1. PICK s : s = <<k>> \o b
  OBVIOUS
<1>2. s \in Seq(Call) /\ \A x : Lists(s, x) <=> x = k \/ Lists(b, x)
  BY <1>1, ListsCons
<1>3. \A m : Signal(m) => ~Lists(s, Send(m))
  BY <1>2, SendForm, PlainSequences
<1>4. <<>> \in Seq(Call) /\ s = <<>> \o s /\ AllEarly(<<>>)
  BY <1>2, CallSequences, ConcatEmptySeq, PlainSequences
<1>5. /\ todo' = s /\ msgs' = <<>> /\ Agree(owners)
      /\ UNCHANGED <<owners, link, told, watched>>
  BY <1>1, StartForm
<1>6. Agree(p)'
  BY <1>5, KeptAgree DEF Connected
<1>7. Announces(p)'
  BY <1>3, <1>5, <1>6, SilenceAnnounces
<1>8. Starts(<<>> \o (<<k>> \o b)) /\ Truthful(<<>> \o (<<k>> \o b), p)
  BY <1>1, <1>4
<1> QED BY <1>4, <1>7, <1>8, StartChange

(* The calls of a new service. *)
LEMMA EnsureForm ==
  ASSUME TypeOK, NEW n \in AnyName, NEW c \in Conn, NEW f \in AllFlags, owners[n] = <<>>
  PROVE  \E a \in Seq(Call) :
           /\ Ensure(n, c, f) = a \o <<LinkOwner(n, c, f)>>
           /\ AllEarly(a) /\ OneOf(a, Announcing)
           /\ \A m : Lists(a, Send(m)) <=> m = Changed(n, NoOne, c) \/ m = Acquired(c, n)
<1> DEFINE u == Send(Changed(n, NoOne, c))
           v == Send(Acquired(c, n))
           l == LinkOwner(n, c, f)
           s == (IF n \in Name THEN Started(n) ELSE <<>>)
           x == <<u>> \o s
           a == x \o <<v>>
<1>1. u \in Call /\ v \in Call /\ l \in Call
  BY CallIntro, MessageIntro
<1>2. s \in Seq(Call) /\ \A k : Lists(s, k) => k.call = "notify"
  <2>1. s \in Seq(Call)
    BY CallSequences, CallsForEntries
  <2>2. \A k : Lists(Started(n), k) => k.call = "notify"
    BY DEF Started, Lists, Notify
  <2> QED BY <2>1, <2>2, ListsShort
<1>3. Ensure(n, c, f) = x \o (<<v>> \o <<l>>)
  BY DEF Ensure, AddOwner
<1> HIDE DEF s
<1>4. u.call = "send" /\ v.call = "send" /\ v \notin Announcing
  BY SendForm, MessageKinds DEF Changes
<1>5. (\A m : u = Send(m) <=> m = Changed(n, NoOne, c)) /\ (\A m : v = Send(m) <=> m = Acquired(c, n))
  BY SendForm
<1> HIDE DEF u, v, l
<1>6. NoneOf(s, Announcing)
  BY <1>2, SendForm DEF NoneOf
<1>7. OneOf(s, Announcing)
  BY <1>6 DEF NoneOf, OneOf, Lists
<1>8. x \in Seq(Call) /\ OneOf(x, Announcing) /\ \A y : Lists(x, y) <=> y = u \/ Lists(s, y)
  BY <1>1, <1>2, <1>6, ListsCons
<1>9. <<v>> \in Seq(Call) /\ <<l>> \in Seq(Call) /\ (\A y : Lists(<<v>>, y) <=> y = v)
  BY <1>1, CallSequences, ListsShort
<1>10. NoneOf(<<v>>, Announcing)
  BY <1>4, <1>9 DEF NoneOf
<1> HIDE DEF x
<1>11. a \in Seq(Call) /\ OneOf(a, Announcing) /\ \A y : Lists(a, y) <=> Lists(x, y) \/ y = v
  BY <1>8, <1>9, <1>10, ListsConcat
<1>12. x \o (<<v>> \o <<l>>) = a \o <<l>>
  BY <1>8, <1>9, ConcatAssociative
<1> HIDE DEF a
<1>13. AllEarly(a)
  BY <1>2, <1>4, <1>8, <1>11 DEF AllEarly, Early
<1>14. \A m : Lists(a, Send(m)) <=> m = Changed(n, NoOne, c) \/ m = Acquired(c, n)
  BY <1>2, <1>5, <1>8, <1>11, SendForm
<1> QED BY <1>3, <1>11, <1>12, <1>13, <1>14 DEF l

(* A client gets a name that has no owner: x comes before, b after. *)
LEMMA StartNew ==
  ASSUME TypeOK, SignalInv, NEW n \in AnyName, NEW c \in Conn, NEW f \in AllFlags,
         owners[n] = <<>>, n \in Conn => c = n,
         NEW x \in Seq(Call), NEW b \in Seq(Call), AllEarly(x), AllPlain(x), AllPlain(b),
         Starts((x \o Ensure(n, c, f)) \o b),
         \A p : First(p[n]) = c => Truthful(x, p) /\ Truthful(b, p)
  PROVE  SignalInv'
<1> DEFINE q == Linked(<<>>, c, f)
<1>0. PICK k, p : k = LinkOwner(n, c, f) /\ p = [owners EXCEPT ![n] = q]
  OBVIOUS
<1>1. PICK a \in Seq(Call) :
         /\ Ensure(n, c, f) = a \o <<k>>
         /\ AllEarly(a) /\ OneOf(a, Announcing)
         /\ \A m : Lists(a, Send(m)) <=> m = Changed(n, NoOne, c) \/ m = Acquired(c, n)
  <2>1. LinkOwner(n, c, f) = k
    BY <1>0
  <2> QED BY ONLY <2>1, TypeOK, owners[n] = <<>>, n \in AnyName, c \in Conn, f \in AllFlags, EnsureForm
<1>2. k \in Call /\ k.call = "link_owner" /\ k.name = n /\ k.conn = c /\ k.flags = f
  BY <1>0, CallIntro DEF LinkOwner
<1>3. q \in Seq(Owner) /\ First(q) = c
  <2>1. <<>> \in Seq(Owner) /\ NoTwice(<<>>) /\ First(<<>>) = NoOne /\ c # NoOne
    BY ConnAssumption DEF First, NoTwice
  <2> QED BY <2>1, LinkedProperties
<1>4. p = After(k, owners)
  BY <1>0, <1>2 DEF After, Effect
<1>5. p \in [AnyName -> Seq(Owner)] /\ p[n] = q /\ \A m \in AnyName : m # n => p[m] = owners[m]
  BY <1>0, <1>3 DEF TypeOK
<1> HIDE DEF q
<1>6. PICK y : y = x \o a
  OBVIOUS
<1>7. y \in Seq(Call) /\ AllEarly(y) /\ \A z : Lists(y, z) <=> Lists(x, z) \/ Lists(a, z)
  BY <1>1, <1>6, ListsConcat, PlainSequences
<1>8. PICK s : s = y \o (<<k>> \o b)
  OBVIOUS
<1>9. s = (x \o Ensure(n, c, f)) \o b
  <2>1. <<k>> \in Seq(Call) /\ a \o <<k>> \in Seq(Call)
    BY <1>1, <1>2, CallSequences
  <2>2. (x \o a) \o <<k>> = x \o (a \o <<k>>)
    BY <1>1, <2>1, ConcatAssociative
  <2>3. (y \o <<k>>) \o b = y \o (<<k>> \o b)
    BY <1>7, <2>1, ConcatAssociative
  <2> QED BY <1>1, <1>6, <1>8, <2>2, <2>3
<1>10. Starts(s)
  BY <1>9
<1>11. <<k>> \o b \in Seq(Call) /\ \A z : Lists(<<k>> \o b, z) <=> z = k \/ Lists(b, z)
  BY <1>2, ListsCons
<1>12. \A z : Lists(s, z) <=> Lists(x, z) \/ Lists(a, z) \/ z = k \/ Lists(b, z)
  <2>1. PICK g \in Seq(Call) : g = <<k>> \o b
    BY <1>11
  <2>2. y \in Seq(Call) /\ s = y \o g
    BY <1>7, <1>8, <2>1
  <2>3. \A z : Lists(s, z) <=> Lists(y, z) \/ Lists(g, z)
    BY <2>2, ListsConcat
  <2> QED BY <1>7, <1>11, <2>1, <2>3
<1>13. \A m : k # Send(m)
  BY <1>2, SendForm
<1>14. \A m : Signal(m) => ~Lists(x, Send(m)) /\ ~Lists(b, Send(m))
  BY PlainSequences
<1>15. OneOf(s, Announcing)
  <2>1. NoneOf(x, Announcing) /\ NoneOf(b, Announcing)
    BY PlainSequences
  <2>2. OneOf(y, Announcing)
    BY <1>1, <1>6, <2>1, ListsConcat
  <2>3. NoneOf(<<k>> \o b, Announcing)
    BY <1>2, <1>11, <2>1, SendForm DEF NoneOf
  <2> QED BY <1>7, <1>8, <1>11, <2>2, <2>3, ListsConcat
<1>16. \A m : Signal(m) =>
         (Lists(s, Send(m)) <=> m = Changed(n, NoOne, c) \/ m = Acquired(c, n))
  BY <1>1, <1>12, <1>13, <1>14
<1>17. /\ todo' = s /\ msgs' = <<>> /\ Agree(owners)
       /\ UNCHANGED <<owners, link, told, watched>>
  BY <1>10, StartForm
<1>18. Announces(p)'
  <2>1. First(owners[n]) = NoOne /\ First(p[n]) = c /\ NoOne # c /\ NoOne \notin Conn
    BY <1>3, <1>5, ConnAssumption DEF First
  <2>2. \A m \in AnyName : m # n => First(p[m]) = First(owners[m])
    BY <1>5
  <2> QED BY <1>15, <1>16, <1>17, <2>1, <2>2, HandoverAnnounces
<1>19. Truthful(s, p)
  <2>1. Truthful(x, p) /\ Truthful(b, p)
    BY <1>3, <1>5
  <2>2. \A d, m, r : ~Lists(a, Send(Reply(d, m, r)))
    <3>1. \A d, m, r : Reply(d, m, r) # Changed(n, NoOne, c) /\ Reply(d, m, r) # Acquired(c, n)
      BY MessageKinds
    <3> QED BY <1>1, <3>1
  <2> QED BY <1>12, <1>13, <2>1, <2>2 DEF Truthful
<1>20. First(owners[k.name]) # k.conn /\ (k.name \in Conn => k.conn = k.name)
  BY <1>2, ConnAssumption DEF First
<1> QED BY <1>2, <1>4, <1>5, <1>7, <1>8, <1>10, <1>18, <1>19, <1>20, StartChange

(* A client takes a name from its owner. *)
LEMMA StartReplacement ==
  ASSUME TypeOK, Distinct, SignalInv, NEW n \in Name, NEW c \in Conn, NEW f \in AllFlags,
         owners[n] # <<>>, Primary(n) # c, f.replace,
         NEW b \in Seq(Call), AllPlain(b),
         Starts((AddOwner(n, c, f) \o Dethrone(n)) \o b),
         \A p : First(p[n]) = c => Truthful(b, p)
  PROVE  SignalInv'
<1>0. PICK l, q, h, k :
         /\ l = LinkOwner(n, c, f) /\ q = owners[n] /\ h = Primary(n)
         /\ k = IF q[1].noqueue THEN RemoveOwner(n, h) ELSE SwapOwner(n, h)
  OBVIOUS
<1> DEFINE r == Linked(q, c, f)
           t == <<k>> \o b
           s == <<l>> \o t
<1>1. n \in AnyName /\ n \notin Conn
  BY ConnAssumption DEF AnyName
<1>2. q \in Seq(Owner) /\ NoTwice(q) /\ First(q) = h /\ h \in Conn
  BY <1>0, <1>1, QueueType, FirstOwner DEF Distinct, First, Primary
<1>3. l \in Call /\ l.call = "link_owner" /\ l.name = n /\ l.conn = c /\ l.flags = f
  BY <1>0, <1>1, CallIntro DEF LinkOwner
<1>4. k \in Call /\ k.call \in {"remove_owner", "swap_owner"} /\ k.name = n /\ k.conn = h
  BY <1>0, <1>1, <1>2, CallIntro DEF RemoveOwner, SwapOwner
<1>5. /\ r \in Seq(Owner) /\ NoTwice(r) /\ First(r) = h /\ Len(r) >= 2 /\ r[2].conn = c
  BY <1>0, <1>2, LinkedProperties
<1>6. r # <<>> /\ Len(r) # 1
  <2>1. r # <<>>
    BY <1>2, <1>5, FirstOf
  <2>2. Len(r) \in Nat \ {0}
    BY <1>5, <2>1, FirstOf
  <2> QED BY <1>5, <2>1, <2>2, SecondPlace
<1>7. First(Without(r, h)) = c /\ First(Swapped(r)) = c
  BY <1>5, <1>6, FirstWithout, FirstSwapped
<1>8. Without(r, h) \in Seq(Owner) /\ Swapped(r) \in Seq(Owner)
  BY <1>5, <1>6, WithoutProperties, SwappedProperties
<1>9. s = (AddOwner(n, c, f) \o Dethrone(n)) \o b
  <2>1. <<l>> \in Seq(Call) /\ <<k>> \in Seq(Call)
    BY <1>3, <1>4, CallSequences
  <2>2. AddOwner(n, c, f) = <<>> \o <<l>> /\ Dethrone(n) = <<k>>
    BY <1>0 DEF AddOwner, Dethrone
  <2>3. <<>> \o <<l>> = <<l>>
    BY <2>1, ConcatEmptySeq
  <2>4. (<<l>> \o <<k>>) \o b = <<l>> \o (<<k>> \o b)
    BY <2>1, ConcatAssociative
  <2> QED BY <2>2, <2>3, <2>4
<1> HIDE DEF r
<1>10. PICK o, p : o = After(l, owners) /\ p = After(k, o)
  OBVIOUS
<1>11. o[n] = r /\ o \in [AnyName -> Seq(Owner)]
  <2>1. o = [owners EXCEPT ![n] = r]
    BY <1>0, <1>3, <1>10 DEF After, Effect, r
  <2> QED BY <1>1, <1>5, <2>1 DEF TypeOK
<1>12. p \in [AnyName -> Seq(Owner)] /\ First(p[n]) = c
  <2>1. p = [o EXCEPT ![n] = Effect(k, r)]
    BY <1>4, <1>10, <1>11 DEF After
  <2>2. Effect(k, r) = Without(r, h) \/ Effect(k, r) = Swapped(r)
    BY <1>4 DEF Effect
  <2>3. p \in [AnyName -> Seq(Owner)] /\ p[n] = Effect(k, r)
    BY <1>1, <1>8, <1>11, <2>1, <2>2
  <2> QED BY <1>7, <2>2, <2>3
<1>13. t \in Seq(Call) /\ \A y : Lists(t, y) <=> y = k \/ Lists(b, y)
  BY <1>4, ListsCons
<1> HIDE DEF t
<1>14. \A y : Lists(s, y) <=> y = l \/ Lists(t, y)
  BY <1>3, <1>13, ListsCons
<1>15. PICK z : z = s
  OBVIOUS
<1>17. Starts(z)
  BY <1>9, <1>15
<1>18. Truthful(z, p)
  <2>1. \A m : l # Send(m) /\ k # Send(m)
    BY <1>3, <1>4, SendForm
  <2>2. Truthful(b, p)
    BY <1>12
  <2> QED BY <1>13, <1>14, <1>15, <2>1, <2>2 DEF Truthful
<1>19. /\ todo' = z /\ msgs' = <<>> /\ owners' = owners /\ Agree(owners)' /\ NoCancel'
       /\ First(owners[n])' = First(owners[n])
  BY <1>17, StartForm
<1>20. First(owners[n])' = h
  BY <1>0, <1>2, <1>19
<1>21. LinkFits(l)' /\ Leaving(k)' /\ First(owners[k.name])' = k.conn
  <2>1. h # c
    BY <1>0
  <2> QED BY <1>1, <1>3, <1>4, <1>19, <1>20, <2>1 DEF LinkFits, Leaving
<1>22. p = After(k, After(l, owners))'
  BY <1>10, <1>19 DEF After, Effect
<1>23. TwoLeft(p)'
  <2>1. z = <<l>> \o (<<k>> \o b)
    BY <1>15 DEF s, t
  <2> QED BY <1>3, <1>4, <1>19, <1>21, <1>22, <2>1 DEF TwoLeft
<1>24. Stage(p)'
  BY <1>19, <1>23 DEF Stage
<1> QED BY <1>12, <1>17, <1>18, <1>24, StartSignals

(* The replies of the driver. *)
LEMMA ReplyForm ==
  ASSUME NEW c \in Conn, NEW n \in AnyName, NEW r \in Result
  PROVE  /\ Send(Reply(c, n, r)) \in Call /\ Plain(Send(Reply(c, n, r)))
         /\ Early(Send(Reply(c, n, r)))
         /\ \A d, m, e : Send(Reply(d, m, e)) = Send(Reply(c, n, r)) <=> d = c /\ m = n /\ e = r
<1>1. Send(Reply(c, n, r)) \in Call
  BY CallIntro, MessageIntro
<1>2. \A d, m, e : Reply(d, m, e) = Reply(c, n, r) <=> d = c /\ m = n /\ e = r
  <2>1. \A d, m, e : /\ Reply(d, m, e).to = d /\ Reply(d, m, e).name = m
                     /\ Reply(d, m, e).result = e
    BY MessageKinds
  <2> QED BY <2>1
<1>3. /\ Send(Reply(c, n, r)).call = "send" /\ Send(Reply(c, n, r)).msg = Reply(c, n, r)
      /\ ~Signal(Reply(c, n, r))
  BY SendForm, MessageKinds
<1>4. \A d, m, e : Send(Reply(d, m, e)) = Send(Reply(c, n, r)) <=> d = c /\ m = n /\ e = r
  BY <1>2, SendForm
<1> QED BY <1>1, <1>3, <1>4 DEF Plain, Early, OwnerCalls, Removal

LEMMA ReplyAlone ==
  ASSUME NEW c \in Conn, NEW n \in AnyName, NEW r \in Result
  PROVE  LET b == <<Send(Reply(c, n, r))>> IN
         /\ b \in Seq(Call) /\ AllPlain(b)
         /\ \A p : Honest(p[n], c, r) => Truthful(b, p)
<1>1. PICK k : k = Send(Reply(c, n, r))
  OBVIOUS
<1>2. k \in Call /\ Plain(k) /\ \A d, m, e : Send(Reply(d, m, e)) = k => d = c /\ m = n /\ e = r
  BY <1>1, ReplyForm
<1>3. <<k>> \in Seq(Call) /\ AllPlain(<<k>>) /\ \A x : Lists(<<k>>, x) <=> x = k
  BY <1>2, CallSequences, PlainSequences, ListsShort
<1> QED BY <1>1, <1>2, <1>3 DEF Truthful

LEMMA ReplyAfter ==
  ASSUME NEW c \in Conn, NEW n \in AnyName, NEW r \in Result, NEW h \in Call, Plain(h),
         h.call # "send"
  PROVE  LET b == <<h, Send(Reply(c, n, r))>> IN
         /\ b \in Seq(Call) /\ AllPlain(b)
         /\ Early(h) => AllEarly(b)
         /\ \A p : Honest(p[n], c, r) => Truthful(b, p)
<1>1. PICK k : k = Send(Reply(c, n, r))
  OBVIOUS
<1>2. /\ k \in Call /\ Plain(k) /\ Early(k)
      /\ \A d, m, e : Send(Reply(d, m, e)) = k => d = c /\ m = n /\ e = r
  BY <1>1, ReplyForm
<1>3. <<h, k>> \in Seq(Call) /\ \A x : Lists(<<h, k>>, x) <=> x = h \/ x = k
  BY <1>2, CallSequences, ListsShort
<1>4. \A m : Send(m) # h
  BY SendForm
<1> QED BY <1>1, <1>2, <1>3, <1>4 DEF Truthful, AllPlain, AllEarly

LEMMA TruthfulJoined ==
  ASSUME NEW k \in Call, k.call # "send", NEW b \in Seq(Call), NEW p, Truthful(b, p)
  PROVE  Truthful(<<k>> \o b, p)
<1>1. \A x : Lists(<<k>> \o b, x) <=> x = k \/ Lists(b, x)
  BY ListsCons
<1>2. \A m : Send(m) # k
  BY SendForm
<1> QED BY <1>1, <1>2 DEF Truthful

LEMMA HelloSignals ==
  ASSUME TypeOK, SignalInv, NEW c \in Conn, Hello(c)
  PROVE  SignalInv'
<1> DEFINE f == [allow |-> FALSE, noqueue |-> FALSE, replace |-> FALSE]
           x == <<Complete(c), Send(Reply(c, c, "welcome"))>>
           s == x \o Ensure(c, c, f)
<1>1. f \in AllFlags /\ c \in AnyName /\ "welcome" \in Result
  BY DEF AllFlags, AnyName, Result
<1>2. /\ x \in Seq(Call) /\ AllPlain(x) /\ AllEarly(x)
      /\ \A p : First(p[c]) = c => Truthful(x, p)
  <2>1. /\ Complete(c) \in Call /\ Complete(c).call # "send"
        /\ Plain(Complete(c)) /\ Early(Complete(c))
    BY CallIntro DEF Complete, Plain, Early, OwnerCalls, Removal
  <2>2. \A p : First(p[c]) = c => Honest(p[c], c, "welcome")
    BY DEF Honest
  <2> QED BY <1>1, <2>1, <2>2, ReplyAfter
<1>3. Begin("request", c, {}, s) /\ Idle /\ UNCHANGED <<link, owners, told, watched>>
  BY DEF Hello, Speaks, busVars, seenVars
<1>4. Ensure(c, c, f) \in Seq(Call)
  BY <1>1, NewOwnerCalls
<1> HIDE DEF f, x
<1>5. s \in Seq(Call)
  BY <1>2, <1>4, CallSequences
<1>6. Starts(s)
  BY <1>3, <1>5 DEF Starts, Idle
<1>7. CASE owners[c] = <<>>
  <2>1. <<>> \in Seq(Call) /\ AllPlain(<<>>) /\ \A p : Truthful(<<>>, p)
    BY CallSequences, PlainSequences, ListsShort DEF Truthful
  <2>2. s \o <<>> = s
    BY <1>5, ConcatEmptySeq
  <2>3. Starts((x \o Ensure(c, c, f)) \o <<>>)
    BY <1>6, <2>2
  <2> QED BY <1>1, <1>2, <1>7, <2>1, <2>3, StartNew
<1>8. CASE owners[c] # <<>>
  <2>1. s = x
    <3>1. Ensure(c, c, f) = <<>>
      BY <1>8 DEF Ensure
    <3> QED BY <1>2, <3>1, ConcatEmptySeq
  <2>2. First(owners[c]) \in Conn /\ Queued(owners[c], First(owners[c]))
    BY <1>1, <1>8, QueueType, FirstOf
  <2>3. First(owners[c]) = c
    BY <2>2 DEF SignalInv, Unique
  <2>4. Truthful(x, owners)
    <3>1. PICK p : p = owners
      OBVIOUS
    <3>2. Truthful(x, p)
      BY <1>2, <2>3, <3>1
    <3> QED BY <3>1, <3>2
  <2>5. PICK z : z = x
    OBVIOUS
  <2>6. Starts(z) /\ AllPlain(z) /\ Truthful(z, owners)
    BY <1>2, <1>6, <2>1, <2>4, <2>5
  <2> QED BY <2>6, StartPlain
<1> QED BY <1>7, <1>8

(* Handlers that send an error, or a reply and nothing else. *)
LEMMA StartError ==
  ASSUME TypeOK, SignalInv, NEW m \in Message, m.kind \in {"answer", "error"}, Starts(<<Send(m)>>)
  PROVE  SignalInv'
<1>1. PICK s : s = <<Send(m)>>
  OBVIOUS
<1>2. \A k : Lists(s, k) <=> k = Send(m)
  BY <1>1, ListsShort
<1>3. AllPlain(s)
  BY <1>2, SendForm DEF AllPlain, Plain, OwnerCalls, Removal, Signal
<1>4. Truthful(s, owners)
  <2>1. \A c, n, r : Reply(c, n, r) # m
    BY MessageKinds
  <2> QED BY <1>2, <2>1, SendForm DEF Truthful
<1> QED BY <1>1, <1>3, <1>4, StartPlain

LEMMA StartReply ==
  ASSUME TypeOK, SignalInv, NEW c \in Conn, NEW n \in AnyName, NEW r \in Result,
         Starts(<<Send(Reply(c, n, r))>>), Honest(owners[n], c, r)
  PROVE  SignalInv'
<1>1. PICK s, p : s = <<Send(Reply(c, n, r))>> /\ p = owners
  OBVIOUS
<1>2. AllPlain(s) /\ Truthful(s, p)
  BY <1>1, ReplyAlone
<1> QED BY <1>1, <1>2, StartPlain

LEMMA RequestSignals ==
  ASSUME TypeOK, TypeOK', Distinct, SignalInv, NEW c \in Conn, NEW n \in Name, NEW f \in Flags,
         RequestName(c, n, f)
  PROVE  SignalInv'
<1> DEFINE o == Outcome(c, n, f)
           r == OutcomeResult(c, n, f)
           s == AcquireService(c, n, f)
<1>1. f \in AllFlags /\ n \in AnyName /\ n \notin Conn
  BY ConfigAssumption, ConnAssumption DEF AnyName
<1>2. s \in Seq(Call)
  BY <1>1, RequestCalls
<1>3. Starts(s)
  BY <1>2 DEF RequestName, Speaks, Idle, Starts, busVars, seenVars
<1>4. CASE ~MayAcquire(c, n)
  <2>1. s = <<Send(Failure(c))>>
    BY <1>4 DEF AcquireService
  <2>2. Failure(c) \in Message /\ Failure(c).kind \in {"answer", "error"}
    BY MessageIntro, MessageKinds
  <2> QED BY <1>3, <2>1, <2>2, StartError
<1>5. CASE MayAcquire(c, n)
  <2>1. o \in {"primary", "already", "replaced", "exists", "queued"}
    BY DEF Outcome
  <2>2. r \in Result /\ r = IF o = "replaced" THEN "primary" ELSE o
    BY <2>1 DEF OutcomeResult, Result
  <2>3. PICK b : b = <<SendHeld(n), Send(Reply(c, n, r))>>
    OBVIOUS
  <2>4. /\ b \in Seq(Call) /\ AllPlain(b)
        /\ \A p : Honest(p[n], c, r) => Truthful(b, p)
    <3>1. SendHeld(n) \in Call /\ Plain(SendHeld(n)) /\ SendHeld(n).call # "send"
      BY CallIntro DEF SendHeld, Plain, OwnerCalls, Removal
    <3> QED BY <1>1, <2>2, <2>3, <3>1, ReplyAfter
  <2>5. Starts(OutcomeCalls(c, n, f) \o b)
    BY <1>3, <1>5, <2>3 DEF AcquireService
  <2>6. PICK q : q = owners[n]
    OBVIOUS
  <2>7. /\ q \in Seq(Owner) /\ NoTwice(q) /\ First(q) = Primary(n)
        /\ owners[n] = q
    BY <1>1, <2>6, QueueType DEF Distinct, First, Primary
  <2> HIDE DEF s, r
  <2>8. CASE o = "primary"
    <3>1. owners[n] = <<>>
      BY <2>8 DEF Outcome
    <3>2. OutcomeCalls(c, n, f) = Ensure(n, c, f)
      BY <2>8 DEF OutcomeCalls
    <3>3. /\ <<>> \in Seq(Call) /\ AllPlain(<<>>) /\ AllEarly(<<>>)
          /\ \A p : Truthful(<<>>, p)
      BY CallSequences, PlainSequences, ListsShort DEF Truthful
    <3>4. Ensure(n, c, f) \in Seq(Call)
      BY <1>1, NewOwnerCalls
    <3>5. <<>> \o Ensure(n, c, f) = Ensure(n, c, f)
      BY <3>4, ConcatEmptySeq
    <3>6. \A p : First(p[n]) = c => Truthful(b, p)
      BY <2>2, <2>4, <2>8 DEF Honest
    <3>7. Starts((<<>> \o Ensure(n, c, f)) \o b)
      BY <2>5, <3>2, <3>5
    <3> QED BY <1>1, <2>4, <3>1, <3>3, <3>6, <3>7, StartNew
  <2>9. CASE o = "already"
    <3>1. owners[n] # <<>> /\ First(q) = c
      BY <2>7, <2>9 DEF Outcome
    <3>2. PICK k, p : k = SetFlags(n, c, f) /\ p = After(k, owners)
      OBVIOUS
    <3>3. k \in Call /\ k.call = "set_flags" /\ k.name = n /\ k.flags = f
      BY <1>1, <3>2, CallIntro DEF SetFlags
    <3>4. OutcomeCalls(c, n, f) = <<k>>
      BY <2>9, <3>2 DEF OutcomeCalls
    <3>5. p = [owners EXCEPT ![n] = [q EXCEPT ![1] = OwnerOf(c, f)]]
      BY <2>7, <3>1, <3>2, <3>3 DEF After, Effect
    <3>6. /\ [q EXCEPT ![1] = OwnerOf(c, f)] \in Seq(Owner)
          /\ First([q EXCEPT ![1] = OwnerOf(c, f)]) = First(q)
      <4>1. OwnerOf(c, f) \in Owner /\ OwnerOf(c, f).conn = c
        BY <1>1, OwnerOfType
      <4>2. 1 \in DOMAIN q /\ q[1].conn = c /\ DOMAIN q = 1..Len(q)
        BY <2>7, <3>1, FirstOf, LenProperties
      <4>3. [q EXCEPT ![1] = OwnerOf(c, f)] \in Seq(Owner)
        BY <2>7, <4>1, <4>2, ReplacedOwner
      <4>4. First([q EXCEPT ![1] = OwnerOf(c, f)]) = First(q)
        <5>1. 1 \in 1..Len(q) => OwnerOf(c, f).conn = q[1].conn
          BY <4>1, <4>2
        <5> QED BY <2>7, <5>1, FirstReplaced
      <4> QED BY <4>3, <4>4
    <3>7. p \in [AnyName -> Seq(Owner)] /\ SameHeads(p, owners) /\ First(p[n]) = c
      BY <1>1, <2>7, <3>1, <3>5, <3>6 DEF TypeOK, SameHeads
    <3>8. Truthful(b, p)
      BY <2>2, <2>4, <2>9, <3>7 DEF Honest
    <3>9. Truthful(<<k>> \o b, p) /\ Starts(<<k>> \o b)
      BY <2>4, <2>5, <3>3, <3>4, <3>8, TruthfulJoined
    <3> QED BY <2>4, <3>2, <3>3, <3>7, <3>9, StartQuietChange
  <2>10. CASE o = "queued"
    <3>1. owners[n] # <<>> /\ First(q) # c
      BY <2>7, <2>10 DEF Outcome
    <3>2. PICK k, p : k = LinkOwner(n, c, f) /\ p = After(k, owners)
      OBVIOUS
    <3>3. k \in Call /\ k.call = "link_owner" /\ k.name = n /\ k.conn = c /\ k.flags = f
      BY <1>1, <3>2, CallIntro DEF LinkOwner
    <3>4. OutcomeCalls(c, n, f) = <<k>>
      <4>1. AddOwner(n, c, f) = <<>> \o <<k>>
        BY <3>1, <3>2 DEF AddOwner
      <4>2. <<k>> \in Seq(Call)
        BY <3>3, CallSequences
      <4>3. <<>> \o <<k>> = <<k>>
        BY <4>2, ConcatEmptySeq
      <4> QED BY <2>10, <4>1, <4>3 DEF OutcomeCalls
    <3>5. p = [owners EXCEPT ![n] = Linked(q, c, f)]
      BY <2>7, <3>2, <3>3 DEF After, Effect
    <3>6. /\ Linked(q, c, f) \in Seq(Owner) /\ First(Linked(q, c, f)) = First(q)
          /\ Queued(Linked(q, c, f), c)
      BY <1>1, <2>7, <3>1, LinkedProperties
    <3>7. /\ p \in [AnyName -> Seq(Owner)] /\ SameHeads(p, owners)
          /\ First(p[n]) # c /\ Queued(p[n], c)
      BY <1>1, <2>7, <3>1, <3>5, <3>6 DEF TypeOK, SameHeads
    <3>8. Truthful(b, p)
      BY <2>2, <2>4, <2>10, <3>7 DEF Honest
    <3>9. Truthful(<<k>> \o b, p) /\ Starts(<<k>> \o b)
      BY <2>4, <2>5, <3>3, <3>4, <3>8, TruthfulJoined
    <3> QED BY <1>1, <2>4, <2>7, <3>1, <3>2, <3>3, <3>7, <3>9, StartQuietChange
  <2>11. CASE o = "replaced"
    <3>1. owners[n] # <<>> /\ Primary(n) # c /\ f.replace
      BY <2>11 DEF Outcome, MayReplace
    <3>2. Starts((AddOwner(n, c, f) \o Dethrone(n)) \o b)
      BY <2>5, <2>11 DEF OutcomeCalls
    <3>3. \A p : First(p[n]) = c => Truthful(b, p)
      BY <2>2, <2>4, <2>11 DEF Honest
    <3> QED BY <1>1, <2>4, <3>1, <3>2, <3>3, StartReplacement
  <2>12. CASE o = "exists"
    <3>1. owners[n] # <<>> /\ OutcomeCalls(c, n, f) = Decline(c, n)
      BY <2>12 DEF Outcome, OutcomeCalls
    <3>2. \A p : ~Queued(p[n], c) => Truthful(b, p)
      BY <2>2, <2>4, <2>12 DEF Honest
    <3>3. CASE Queued(q, c)
      <4>1. PICK k, p : k = RemoveOwner(n, c) /\ p = [owners EXCEPT ![n] = Without(q, c)]
        OBVIOUS
      <4>2. k \in Call /\ k.call # "send"
        BY <1>1, <4>1, CallIntro DEF RemoveOwner
      <4>3. ~Queued(p[n], c)
        <5>1. p[n] = Without(q, c)
          BY <1>1, <4>1 DEF TypeOK
        <5> QED BY <2>7, <5>1, WithoutProperties
      <4>4. Truthful(<<k>> \o b, p)
        BY <2>4, <3>2, <4>2, <4>3, TruthfulJoined
      <4>5. Starts(<<k>> \o b)
        BY <2>5, <2>7, <3>1, <3>3, <4>1 DEF Decline
      <4> QED BY <1>1, <2>4, <2>7, <4>1, <4>4, <4>5, StartRemoval
    <3>4. CASE ~Queued(q, c)
      <4>1. <<>> \o b = b
        BY <2>4, ConcatEmptySeq
      <4>2. Starts(b)
        BY <2>5, <2>7, <3>1, <3>4, <4>1 DEF Decline
      <4>3. PICK p : p = owners
        OBVIOUS
      <4>4. Truthful(b, p)
        BY <2>7, <3>2, <3>4, <4>3
      <4> QED BY <2>4, <4>2, <4>3, <4>4, StartPlain
    <3> QED BY <3>3, <3>4
  <2> QED BY <2>1, <2>8, <2>9, <2>10, <2>11, <2>12
<1> QED BY <1>4, <1>5

LEMMA ReleaseSignals ==
  ASSUME TypeOK, TypeOK', Distinct, SignalInv, NEW c \in Conn, NEW n \in Name, ReleaseName(c, n)
  PROVE  SignalInv'
<1> DEFINE s == ReleaseService(c, n)
<1>1. n \in AnyName /\ s \in Seq(Call)
  BY RequestCalls DEF AnyName
<1>2. Starts(s)
  BY <1>1 DEF ReleaseName, Speaks, Idle, Starts, busVars, seenVars
<1>3. owners[n] \in Seq(Owner) /\ NoTwice(owners[n])
  BY <1>1, QueueType DEF Distinct
<1>4. CASE owners[n] = <<>>
  <2>1. s = <<Send(Reply(c, n, "nonexistent"))>> /\ "nonexistent" \in Result
    BY <1>4 DEF ReleaseService, Result
  <2>2. Honest(owners[n], c, "nonexistent")
    BY <1>4 DEF Honest, Queued
  <2> QED BY <1>1, <1>2, <2>1, <2>2, StartReply
<1>5. CASE owners[n] # <<>> /\ ~Queued(owners[n], c)
  <2>1. s = <<Send(Reply(c, n, "notowner"))>> /\ "notowner" \in Result
    BY <1>5 DEF ReleaseService, Result
  <2>2. Honest(owners[n], c, "notowner")
    BY <1>5 DEF Honest
  <2> QED BY <1>1, <1>2, <2>1, <2>2, StartReply
<1>6. CASE owners[n] # <<>> /\ Queued(owners[n], c)
  <2>1. PICK k, x : k = RemoveOwner(n, c) /\ x = Send(Reply(c, n, "released"))
    OBVIOUS
  <2>2. s = <<k, x>>
    BY <1>6, <2>1 DEF ReleaseService
  <2>4. /\ k \in Call /\ k.call # "send" /\ "released" \in Result
    BY <1>1, <2>1, CallIntro DEF RemoveOwner, Result
  <2>3. <<k, x>> = <<k>> \o <<x>>
    <3>1. <<k>> \in Seq(Call) /\ x \in Call
      BY <1>1, <2>1, <2>4, CallSequences, ReplyForm
    <3>2. /\ <<k>> \o <<x>> \in Seq(Call) /\ Len(<<k>> \o <<x>>) = 2
          /\ (<<k>> \o <<x>>)[1] = k /\ (<<k>> \o <<x>>)[2] = x
      <4>1. Append(<<k>>, x) = <<k>> \o <<x>>
        BY <3>1, AppendIsConcat
      <4>2. /\ Append(<<k>>, x) \in Seq(Call) /\ Len(Append(<<k>>, x)) = Len(<<k>>) + 1
            /\ \A i \in 1..Len(<<k>>) : Append(<<k>>, x)[i] = <<k>>[i]
            /\ Append(<<k>>, x)[Len(<<k>>) + 1] = x
        BY <3>1, AppendProperties
      <4>3. Len(<<k>>) = 1 /\ <<k>>[1] = k /\ 1 \in 1..1 /\ 1 + 1 = 2
        OBVIOUS
      <4> QED BY <4>1, <4>2, <4>3
    <3>3. /\ <<k, x>> \in Seq(Call) /\ Len(<<k, x>>) = 2
          /\ <<k, x>>[1] = k /\ <<k, x>>[2] = x /\ \A i \in 1..2 : i = 1 \/ i = 2
      BY <2>4, <3>1
    <3> QED BY <3>2, <3>3, SeqEqual
  <2>5. /\ <<x>> \in Seq(Call) /\ AllPlain(<<x>>)
        /\ \A p : Honest(p[n], c, "released") => Truthful(<<x>>, p)
    BY <1>1, <2>1, <2>4, ReplyAlone
  <2>6. PICK p : p = [owners EXCEPT ![n] = Without(owners[n], c)]
    OBVIOUS
  <2>7. ~Queued(p[n], c)
    <3>1. p[n] = Without(owners[n], c)
      BY <1>1, <2>6 DEF TypeOK
    <3> QED BY <1>3, <3>1, WithoutProperties
  <2>8. Honest(p[n], c, "released")
    BY <2>7 DEF Honest
  <2>9. Truthful(<<k>> \o <<x>>, p) /\ Starts(<<k>> \o <<x>>)
    BY <1>2, <2>2, <2>3, <2>4, <2>5, <2>8, TruthfulJoined
  <2> QED BY <1>1, <2>1, <2>5, <2>6, <2>9, StartRemoval
<1> QED BY <1>4, <1>5, <1>6

LEMMA ActivateSignals ==
  ASSUME TypeOK, SignalInv, NEW c \in Conn, NEW n \in Name, NEW a \in BOOLEAN, Activate(c, n, a)
  PROVE  SignalInv'
<1> DEFINE s == ActivateService(c, n, a)
<1>1. s \in Seq(Call)
  BY RequestCalls
<1>2. Starts(s)
  BY <1>1 DEF Activate, Speaks, Idle, Starts, busVars
<1>3. CASE s = <<Send(Answer(c, n))>>
  <2>1. Answer(c, n) \in Message /\ Answer(c, n).kind \in {"answer", "error"}
    BY MessageIntro, MessageKinds
  <2> QED BY <1>2, <1>3, <2>1, StartError
<1>4. CASE s # <<Send(Answer(c, n))>>
  <2>1. PICK k, b : /\ k = Register(n, c, a)
                    /\ b = IF pending[n] = <<>> THEN <<Spawn(n)>> ELSE <<>>
    OBVIOUS
  <2>2. k \in Call /\ k.call = "register" /\ Spawn(n) \in Call /\ Spawn(n).call = "spawn"
    BY <2>1, CallIntro DEF Register, Spawn
  <2>3. b \in Seq(Call) /\ \A x : Lists(b, x) => x = Spawn(n)
    BY <2>1, <2>2, CallSequences, ListsShort
  <2>4. s = <<k>> \o b
    BY <1>4, <2>1 DEF ActivateService
  <2>5. \A x : Lists(<<k>> \o b, x) => x.call \in {"register", "spawn"}
    BY <2>2, <2>3, ListsCons
  <2>6. PICK z : z = <<k>> \o b
    OBVIOUS
  <2>7. AllPlain(z)
    BY <2>5, <2>6 DEF AllPlain, Plain, OwnerCalls, Removal
  <2>8. Truthful(z, owners)
    BY <2>5, <2>6, SendForm DEF Truthful
  <2> QED BY <1>2, <2>4, <2>6, <2>7, <2>8, StartPlain
<1> QED BY <1>3, <1>4

(* The rounds of a handler that loops. *)
LEMMA RoundSignals ==
  ASSUME TypeOK, TypeOK', SignalInv, DropLastName \/ FailNext
  PROVE  SignalInv'
<1>1. CASE DropLastName
  <2>1. PICK n, c : n = Last(owned[job.by]) /\ c = job.by
    OBVIOUS
  <2>2. c \in Conn /\ n \in AnyName
    <3>1. c \in Conn
      BY <1>1, <2>1 DEF DropLastName, TypeOK, Job, NoJob
    <3>2. owned[c] \in Seq(AnyName) /\ owned[c] # <<>>
      BY <1>1, <2>1, <3>1, QueueType DEF DropLastName
    <3>3. Len(owned[c]) \in 1..Len(owned[c])
      BY <3>2, LenProperties, EmptySeq
    <3>4. n \in AnyName
      BY <2>1, <3>2, <3>3, ElementOfSeq DEF Last
    <3> QED BY <3>1, <3>4
  <2>3. PICK k : k = RemoveOwner(n, c)
    OBVIOUS
  <2>4. k \in Call /\ k.call # "send"
    BY <2>2, <2>3, CallIntro DEF RemoveOwner
  <2>5. /\ <<>> \in Seq(Call) /\ AllPlain(<<>>) /\ \A p : Truthful(<<>>, p)
        /\ <<k>> \in Seq(Call) /\ <<k>> \o <<>> = <<k>>
    BY <2>4, CallSequences, PlainSequences, ListsShort, ConcatEmptySeq DEF Truthful
  <2>6. Starts(<<k>> \o <<>>)
    BY <1>1, <2>1, <2>3, <2>5 DEF DropLastName, Starts, busVars, seenVars
  <2>7. PICK p : p = [owners EXCEPT ![n] = Without(owners[n], c)]
    OBVIOUS
  <2>8. Truthful(<<k>> \o <<>>, p)
    BY <2>4, <2>5, TruthfulJoined
  <2> QED BY <2>2, <2>3, <2>5, <2>6, <2>7, <2>8, StartRemoval
<1>2. CASE FailNext
  <2>1. PICK n \in job.left : Begin("expire", job.by, job.left, Failures(n) \o <<Drop(n)>>)
    BY <1>2 DEF FailNext
  <2>2. n \in Name
    <3>1. job.left \subseteq Name
      BY <1>2 DEF FailNext, TypeOK, Job, NoJob
    <3> QED BY <3>1
  <2>3. /\ Failures(n) \in Seq(Call) /\ <<Drop(n)>> \in Seq(Call)
        /\ \A k : Lists(<<Drop(n)>>, k) => k.call = "drop"
    <3>1. Failures(n) \in Seq(Call) /\ Drop(n) \in Call
      BY <2>2, CallIntro, CallsForEntries
    <3>2. \A k : Lists(<<Drop(n)>>, k) => k.call = "drop"
      BY ListsShort DEF Drop
    <3> QED BY <3>1, <3>2, CallSequences
  <2>4. \A k : Lists(Failures(n), k) => k.call = "send" /\ k.msg.kind = "answer"
    BY DEF Failures, Lists, Send, Answer
  <2>5. PICK s : s = Failures(n) \o <<Drop(n)>>
    OBVIOUS
  <2>6. s \in Seq(Call) /\ \A k : Lists(s, k) <=> Lists(Failures(n), k) \/ Lists(<<Drop(n)>>, k)
    BY <2>3, <2>5, ListsConcat
  <2>7. Starts(s)
    BY <1>2, <2>1, <2>5, <2>6 DEF FailNext, Starts, busVars, seenVars
  <2>8. AllPlain(s)
    BY <2>3, <2>4, <2>6 DEF AllPlain, Plain, OwnerCalls, Removal, Signal
  <2>9. Truthful(s, owners)
    BY <2>3, <2>4, <2>6, SendForm, MessageKinds DEF Truthful
  <2> QED BY <2>7, <2>8, <2>9, StartPlain
<1> QED BY <1>1, <1>2

(* Whatever comes from outside between two handlers. *)
LEMMA OutsideSignals ==
  ASSUME TypeOK, TypeOK', Distinct, SignalInv, Outside
  PROVE  SignalInv'
<1>1. ASSUME NEW c \in Conn, Hello(c) \/ HangUp(c)
      PROVE  SignalInv'
  BY <1>1, HelloSignals, HangUpSignals
<1>2. ASSUME NEW c \in Conn, NEW n \in Name, NEW f \in Flags, RequestName(c, n, f)
      PROVE  SignalInv'
  BY <1>2, RequestSignals
<1>3. ASSUME NEW c \in Conn, NEW n \in Name, ReleaseName(c, n)
      PROVE  SignalInv'
  BY <1>3, ReleaseSignals
<1>4. ASSUME NEW c \in Conn, NEW n \in Name, NEW a \in BOOLEAN, Activate(c, n, a)
      PROVE  SignalInv'
  BY <1>4, ActivateSignals
<1>5. ASSUME NEW n \in Name, ChildFails(n) \/ ChildExits(n)
      PROVE  SignalInv'
  BY <1>5, EventSignals
<1> QED BY <1>1, <1>2, <1>3, <1>4, <1>5 DEF Outside

(* Whatever a handler does that has begun, unless the daemon aborts. *)
LEMMA HandlerSignals ==
  ASSUME TypeOK, TypeOK', Distinct, Consistent, SignalInv, Handler, ~Halted'
  PROVE  SignalInv'
<1>1. ~UndoRemoveOwner
  BY DEF UndoRemoveOwner, Halted
<1>2. HookInv
  BY DEF Consistent
<1>3. CASE SendMessage \/ RegistryCall \/ ActivationCall
  BY <1>3, SendSignals, RegistrySignals, ActivationSignals
<1>4. CASE DeliverMessage \/ FreeHook \/ EndExecute
  BY <1>4, DeliverSignals, FreeHookSignals, ExecutedSignals
<1>5. CASE UndoAddOwner \/ UndoActivate \/ UndoForget \/ EndCancel
  BY <1>2, <1>5, UndoAddSignals, UndoPendingSignals, CancelledSignals
<1>6. CASE DropLastName \/ FailNext
  BY <1>6, RoundSignals
<1>7. CASE ForgetClient \/ FailedAll
  BY <1>7, EventSignals
<1> QED BY <1>1, <1>3, <1>4, <1>5, <1>6, <1>7 DEF Handler

LEMMA NextSignals ==
  ASSUME TypeOK, TypeOK', Distinct, Consistent, SignalInv, Next, ~Halted', "down" \notin OomIn
  PROVE  SignalInv'
BY OutsideSignals, HandlerSignals, EventSignals, OutOfMemorySignals DEF Next

LEMMA InitSignals == Init => SignalInv
<1> SUFFICES ASSUME Init PROVE SignalInv
  OBVIOUS
<1>1. \A n \in AnyName : First(owners[n]) = NoOne
  BY DEF Init, First
<1>2. Agree(owners)
  BY <1>1, ConnAssumption DEF Init, Agree
<1>3. Unique
  BY DEF Init, Unique, AnyName, Queued
<1> QED BY <1>2, <1>3 DEF Init, SignalInv

(* A step that changes nothing. *)
LEMMA StutterSignals ==
  ASSUME UNCHANGED vars, SignalInv
  PROVE  SignalInv'
<1>1. UNCHANGED <<link, owners, told, watched, before, phase, todo, msgs, hooks>>
  BY DEF vars, busVars, txnVars, seenVars
<1>2. \A c : Connected(c)' <=> Connected(c)
  BY <1>1 DEF Connected
<1>3. Unique'
  BY <1>1 DEF SignalInv, Unique, Queued
<1>4. ASSUME Undoable
      PROVE  Undoable'
  BY <1>1, <1>2, <1>4, UndoableKept, HooksStay
<1>5. ASSUME Agree(owners)
      PROVE  Agree(owners)'
  BY <1>1, <1>2, <1>5 DEF Agree, First
<1>6. ASSUME Works
      PROVE  Works'
  <2>1. PICK p \in [AnyName -> Seq(Owner)] : Stage(p) /\ Answers(p)
    BY <1>6 DEF Works
  <2>2. Kept
    BY <1>1, <1>2, StillKept
  <2>3. Answers(p)' /\ (Announces(p) => Announces(p)')
    BY <2>1, <2>2, KeptAnswers, KeptAnnounces DEF SameHeads
  <2>4. /\ NoCancel => NoCancel'
        /\ \A k : /\ LinkFits(k) => LinkFits(k)'
                  /\ Leaving(k) => Leaving(k)'
                  /\ After(k, owners)' = After(k, owners)
    BY <1>1 DEF NoCancel, LinkFits, Leaving, Undoes, Lists, After, Effect, First
  <2>5. /\ Done(p) => Done(p)'
        /\ OneLeft(p) => OneLeft(p)'
    BY <1>1, <2>4 DEF Done, OneLeft
  <2>6. TopLeft(p) => TopLeft(p)'
    BY <1>1, <2>4 DEF TopLeft
  <2>7. TwoLeft(p) => TwoLeft(p)'
    BY <1>1, <2>4 DEF TwoLeft
  <2>8. Stage(p)'
    BY <1>1, <1>5, <2>1, <2>3, <2>5, <2>6, <2>7 DEF Stage
  <2> QED BY <2>1, <2>3, <2>8 DEF Works
<1> QED BY <1>1, <1>3, <1>4, <1>5, <1>6 DEF SignalInv

-----------------------------------------------------------------------------
(* The theorems.                                                           *)

(* The invariant of the registry and of what it tells. *)
RegistryInv == QueueInv /\ (~Halted => SignalInv)

LEMMA NextRegistry ==
  ASSUME "down" \notin OomIn
  PROVE  RegistryInv /\ [Next]_vars => RegistryInv'
<1> SUFFICES ASSUME RegistryInv, [Next]_vars PROVE RegistryInv'
  OBVIOUS
<1>1. QueueInv'
  BY NextQueues DEF RegistryInv
<1>2. CASE Next
  <2>1. ~Halted
    BY <1>2, QueueChanges DEF RegistryInv, QueueInv
  <2>2. TypeOK /\ TypeOK' /\ Distinct /\ Consistent /\ SignalInv
    BY <1>1, <2>1 DEF RegistryInv, QueueInv
  <2> QED BY <1>1, <1>2, <2>2, NextSignals DEF RegistryInv
<1>3. CASE UNCHANGED vars
  <2>1. Halted' <=> Halted
    BY <1>3 DEF vars, busVars, txnVars, Halted
  <2> QED BY <1>1, <1>3, <2>1, StutterSignals DEF RegistryInv
<1> QED BY <1>2, <1>3

(* What the invariant says when nothing runs, and when messages go out. *)
LEMMA RegistryAgrees == RegistryInv => SignalsAgree
<1> SUFFICES ASSUME RegistryInv PROVE SignalsAgree
  OBVIOUS
<1>1. TypeOK
  BY DEF RegistryInv, QueueInv
<1>2. \A n : Primary(n) = First(owners[n])
  BY DEF Primary, First
<1>3. ASSUME Idle
      PROVE  ClientsKnowTheirNames /\ WatchersKnowOwners
  <2>1. Agree(owners)
    BY <1>3 DEF RegistryInv, SignalInv, Idle, Halted
  <2>2. \A c \in Conn : told[c] \subseteq AnyName
    BY <1>1 DEF TypeOK
  <2>3. ClientsKnowTheirNames
    BY <1>2, <2>1, <2>2 DEF Agree, ClientsKnowTheirNames
  <2> QED BY <1>2, <2>1, <2>3 DEF Agree, WatchersKnowOwners
<1>4. ASSUME Executing, msgs # <<>>, Head(msgs).kind = "changed"
      PROVE  Head(msgs).old = watched[Head(msgs).name] /\ Head(msgs).old # Head(msgs).new
  <2>1. SignalInv
    BY <1>4 DEF RegistryInv, Executing, Halted
  <2>2. Announces(owners)
    BY <1>1, <1>4, <2>1, ExecutingStage
  <2>3. PICK m : m = Head(msgs)
    OBVIOUS
  <2>4. m \in Message /\ Coming(m)
    BY <1>1, <1>4, <2>3, HeadTailProperties, ListsTail DEF TypeOK, Coming
  <2>5. m = Changed(m.name, m.old, m.new) /\ m.name \in AnyName
    BY <1>4, <2>3, <2>4, MessageForm, MessageFields
  <2> QED BY <2>2, <2>3, <2>4, <2>5 DEF Announces
<1> QED BY <1>3, <1>4 DEF SignalsAgree, ClientsKnowTheirNames, WatchersKnowOwners, OwnerChangesChain

LEMMA RegistryHonest == RegistryInv => RepliesAreTrue
<1> SUFFICES ASSUME RegistryInv, Executing, msgs # <<>>, NEW m, m = Head(msgs), m.kind = "reply"
             PROVE  CASE m.result \in {"welcome", "primary", "already"} -> Primary(m.name) = m.to
                      [] m.result = "queued" -> m.to \in Holders(m.name) /\ Primary(m.name) # m.to
                      [] OTHER -> m.to \notin Holders(m.name)
  BY DEF RepliesAreTrue
<1>1. TypeOK /\ SignalInv
  BY DEF RegistryInv, QueueInv, Executing, Halted
<1>2. Answers(owners)
  BY <1>1, ExecutingStage
<1>3. m \in Message /\ Coming(m)
  BY <1>1, HeadTailProperties, ListsTail DEF TypeOK, Coming
<1>4. m = Reply(m.to, m.name, m.result)
  BY <1>3, MessageForm
<1>5. Honest(owners[m.name], m.to, m.result)
  BY <1>2, <1>3, <1>4 DEF Answers
<1>6. /\ Primary(m.name) = First(owners[m.name])
      /\ m.to \in Holders(m.name) <=> Queued(owners[m.name], m.to)
  BY DEF Primary, First, Holders, Queued
<1> QED BY <1>5, <1>6 DEF Honest

(* NameAcquired, NameLost and NameOwnerChanged are true of the queues, and of
   each other, when they are all sent: every connected client knows exactly
   the names it is the primary owner of, a monitor knows the owner of every
   name, and the changes of a name form a chain.  The handlers queue these
   signals before, while and after they change the queues, and a transaction
   that fails sends none and takes the change back (bus_service_add_owner,
   bus_service_remove_owner, bus_service_swap_owner,
   bus_driver_send_service_owner_changed).  It is assumed that no request of
   a client that has hung up runs out of memory: its unfinished transaction
   would be executed (bus_dispatch). *)
THEOREM SignalsTellTheTruth ==
  ASSUME "down" \notin OomIn
  PROVE  Spec => []SignalsAgree
<1>1. Init => RegistryInv
  BY InitQueues, InitSignals DEF RegistryInv
<1>2. RegistryInv /\ [Next]_vars => RegistryInv'
  BY NextRegistry
<1>3. RegistryInv => SignalsAgree
  BY RegistryAgrees
<1> QED BY <1>1, <1>2, <1>3, PTL DEF Spec

(* The reply to Hello, RequestName and ReleaseName is true when it is sent,
   although it is decided before the queue is changed and leaves after the
   whole handler has run: the client that is told it is the primary owner is
   at the head, the one that is told it waits is in the queue and not at the
   head, and the others are not in it (bus_registry_acquire_service,
   bus_registry_release_service, bus_driver_handle_hello). *)
THEOREM RepliesTellTheTruth ==
  ASSUME "down" \notin OomIn
  PROVE  Spec => []RepliesAreTrue
<1>1. Init => RegistryInv
  BY InitQueues, InitSignals DEF RegistryInv
<1>2. RegistryInv /\ [Next]_vars => RegistryInv'
  BY NextRegistry
<1>3. RegistryInv => RepliesAreTrue
  BY RegistryHonest
<1> QED BY <1>1, <1>2, <1>3, PTL DEF Spec

-----------------------------------------------------------------------------
(* Pending activations of names that get an owner.                         *)

(* What restore_pending would put back into the table. *)
PutsBack(n) == \E h : /\ Lists(hooks, h)
                      /\ h.hook = "restore_pending" /\ h.name = n /\ h.entries # <<>>

LinkFree(s) == \A k : Lists(s, k) => k.call # "link_owner"

(* After a client is linked the messages held for the name are sent. *)
Followed(s) ==
  \A i \in DOMAIN s : s[i].call = "link_owner" /\ s[i].name \in Name =>
    \E j \in DOMAIN s : j > i /\ s[j] = SendHeld(s[i].name)

(* The pending activation of a name will be dealt with. *)
Due(s, n) == Lists(s, SendHeld(n)) \/ Lists(s, Forget(n))

Activating(s) == \E k : Lists(s, k) /\ k.call \in {"register", "spawn"}

PendingRest == \A n \in Name : owners[n] # <<>> => pending[n] = <<>>

PendingRun ==
  /\ Followed(todo)
  /\ \A n \in Name : owners[n] # <<>> /\ pending[n] # <<>> => Due(todo, n)
  /\ Activating(todo) => PendingRest /\ LinkFree(todo)
  /\ \A k : Lists(todo, k) /\ k.call = "register" => owners[k.name] = <<>> /\ before[k.name] = <<>>

PendingInv ==
  /\ phase \in {"idle", "round"} => PendingRest
  /\ phase \in {"run", "cancel"} => \A n \in Name : pending[n] # <<>> \/ PutsBack(n) => before[n] = <<>>
  /\ phase = "run" => PendingRun

LEMMA FollowedParts ==
  /\ \A s : LinkFree(s) => Followed(s)
  /\ \A s \in Seq(Call) : s # <<>> /\ Followed(s) =>
       /\ Followed(Tail(s))
       /\ Head(s).call = "link_owner" /\ Head(s).name \in Name =>
            Lists(Tail(s), SendHeld(Head(s).name))
  /\ \A a, b \in Seq(Call) :
       /\ Followed(b)
       /\ \A k : Lists(a, k) /\ k.call = "link_owner" /\ k.name \in Name => Lists(b, SendHeld(k.name))
       => Followed(a \o b)
<1>1. \A s : LinkFree(s) => Followed(s)
  BY DEF LinkFree, Followed, Lists
<1>2. ASSUME NEW s \in Seq(Call), s # <<>>, Followed(s)
      PROVE  /\ Followed(Tail(s))
             /\ Head(s).call = "link_owner" /\ Head(s).name \in Name =>
                  Lists(Tail(s), SendHeld(Head(s).name))
  <2> DEFINE t == Tail(s)
  <2>1. /\ Len(s) \in Nat /\ Len(s) > 0 /\ Head(s) = s[1]
        /\ t \in Seq(Call) /\ Len(t) = Len(s) - 1
        /\ \A i \in 1..Len(t) : t[i] = s[i + 1]
        /\ DOMAIN s = 1..Len(s) /\ DOMAIN t = 1..Len(t)
    BY <1>2, LenProperties, EmptySeq, HeadTailProperties
  <2> HIDE DEF t
  <2>2. \A j \in DOMAIN s : j > 1 => j - 1 \in DOMAIN t /\ t[j - 1] = s[j]
    <3>1. \A j \in 1..Len(s) : j > 1 => j - 1 \in 1..Len(t) /\ (j - 1) + 1 = j
      BY <2>1
    <3> QED BY <2>1, <3>1
  <2>3. \A i \in DOMAIN t : i + 1 \in DOMAIN s /\ i + 1 > 1 /\ s[i + 1] = t[i]
    BY <2>1
  <2>4. ASSUME NEW i \in DOMAIN t, t[i].call = "link_owner", t[i].name \in Name
        PROVE  \E j \in DOMAIN t : j > i /\ t[j] = SendHeld(t[i].name)
    <3>1. PICK j \in DOMAIN s : j > i + 1 /\ s[j] = SendHeld(t[i].name)
      BY <2>3, <2>4, <1>2 DEF Followed
    <3>2. j > 1 /\ j - 1 > i
      BY <2>1, <3>1
    <3> QED BY <2>2, <3>1, <3>2
  <2>5. ASSUME s[1].call = "link_owner", s[1].name \in Name
        PROVE  Lists(t, SendHeld(s[1].name))
    <3>1. 1 \in DOMAIN s
      BY <2>1
    <3>2. PICK j \in DOMAIN s : j > 1 /\ s[j] = SendHeld(s[1].name)
      BY <2>5, <3>1, <1>2 DEF Followed
    <3> QED BY <2>2, <3>2 DEF Lists
  <2> QED BY <2>1, <2>4, <2>5 DEF Followed, t
<1>3. ASSUME NEW a \in Seq(Call), NEW b \in Seq(Call), Followed(b),
             \A k : Lists(a, k) /\ k.call = "link_owner" /\ k.name \in Name => Lists(b, SendHeld(k.name))
      PROVE  Followed(a \o b)
  <2> DEFINE r == a \o b
             m == Len(a)
  <2>1. /\ m \in Nat /\ Len(b) \in Nat
        /\ r \in Seq(Call) /\ Len(r) = m + Len(b)
        /\ \A i \in 1..(m + Len(b)) : r[i] = IF i <= m THEN a[i] ELSE b[i - m]
        /\ DOMAIN a = 1..m /\ DOMAIN b = 1..Len(b) /\ DOMAIN r = 1..Len(r)
    BY LenProperties, ConcatProperties
  <2> HIDE DEF r, m
  <2>2. \A j \in DOMAIN b : j + m \in DOMAIN r /\ j + m > m /\ r[j + m] = b[j]
    <3>1. \A j \in 1..Len(b) : j + m \in 1..(m + Len(b)) /\ ~(j + m <= m) /\ j + m > m /\ (j + m) - m = j
      BY <2>1
    <3> QED BY <2>1, <3>1
  <2>3. ASSUME NEW i \in DOMAIN r, r[i].call = "link_owner", r[i].name \in Name
        PROVE  \E j \in DOMAIN r : j > i /\ r[j] = SendHeld(r[i].name)
    <3>1. CASE i <= m
      <4>1. i \in DOMAIN a /\ r[i] = a[i]
        BY <2>1, <3>1
      <4>2. PICK j \in DOMAIN b : b[j] = SendHeld(r[i].name)
        BY <1>3, <2>3, <4>1 DEF Lists
      <4>3. j + m > i
        BY <2>1, <2>2, <3>1, <4>2
      <4> QED BY <2>2, <4>2, <4>3
    <3>2. CASE ~(i <= m)
      <4>1. i - m \in DOMAIN b /\ r[i] = b[i - m]
        BY <2>1, <3>2
      <4>2. PICK j \in DOMAIN b : j > i - m /\ b[j] = SendHeld(r[i].name)
        BY <1>3, <2>3, <4>1 DEF Followed
      <4>3. j + m > i
        BY <2>1, <4>2
      <4> QED BY <2>2, <4>2, <4>3
    <3> QED BY <3>1, <3>2
  <2> QED BY <2>3 DEF Followed, r
<1> QED BY <1>1, <1>2, <1>3

(* A handler goes on with the calls s: no queue begins, no activation begins,
   and those that are due stay so. *)
LEMMA PendingStep ==
  ASSUME PendingInv, phase = "run", phase' = "run", UNCHANGED before,
         NEW s, todo' = s, Followed(s), Activating(s) => Activating(todo) /\ LinkFree(s),
         \A k : Lists(s, k) /\ k.call = "register" => Lists(todo, k),
         \A n \in Name :
           /\ owners'[n] # <<>> => owners[n] # <<>>
           /\ pending'[n] # <<>> => pending[n] # <<>>
           /\ PutsBack(n)' => PutsBack(n) \/ pending[n] # <<>>
           /\ pending'[n] # <<>> /\ owners'[n] # <<>> /\ Due(todo, n) => Due(s, n),
         \A k : Lists(s, k) /\ k.call = "register" =>
           (owners[k.name] = <<>> => owners'[k.name] = <<>>)
  PROVE  PendingInv'
<1>1. \A n \in Name : pending'[n] # <<>> \/ PutsBack(n)' => before'[n] = <<>>
  BY DEF PendingInv
<1>2. \A n \in Name : owners'[n] # <<>> /\ pending'[n] # <<>> => Due(s, n)
  BY DEF PendingInv, PendingRun
<1>3. Activating(s) => PendingRest' /\ LinkFree(s)
  BY DEF PendingInv, PendingRun, PendingRest
<1>4. \A k : Lists(s, k) /\ k.call = "register" => owners'[k.name] = <<>> /\ before'[k.name] = <<>>
  BY DEF PendingInv, PendingRun
<1>5. PendingRun'
  BY <1>2, <1>3, <1>4 DEF PendingRun, Followed, Due, Activating, LinkFree, Lists
<1> QED BY <1>1, <1>5 DEF PendingInv

(* Nothing comes into the table or is to be put back into it. *)
TableShrinks ==
  \A n \in Name : (pending'[n] # <<>> => pending[n] # <<>>) /\ (PutsBack(n)' => PutsBack(n))

LEMMA TableKept ==
  ASSUME TypeOK, UNCHANGED pending,
         \/ UNCHANGED hooks
         \/ hooks # <<>> /\ hooks' = Tail(hooks)
         \/ \E h \in Hook : h.hook # "restore_pending" /\ hooks' = <<h>> \o hooks
  PROVE  TableShrinks
<1>1. hooks \in Seq(Hook)
  BY DEF TypeOK
<1>2. \A x : Lists(hooks', x) => Lists(hooks, x) \/ x.hook # "restore_pending"
  <2>1. CASE UNCHANGED hooks
    BY <2>1 DEF Lists
  <2>2. CASE hooks # <<>> /\ hooks' = Tail(hooks)
    <3>1. \A x : Lists(Tail(hooks), x) => Lists(hooks, x)
      BY <1>1, <2>2, ListsTail
    <3> QED BY <2>2, <3>1
  <2>3. CASE \E h \in Hook : h.hook # "restore_pending" /\ hooks' = <<h>> \o hooks
    <3>1. PICK h \in Hook : h.hook # "restore_pending" /\ hooks' = <<h>> \o hooks
      BY <2>3
    <3>2. \A x : Lists(<<h>> \o hooks, x) <=> x = h \/ Lists(hooks, x)
      BY <1>1, ListsCons
    <3> QED BY <3>1, <3>2
  <2> QED BY <2>1, <2>2, <2>3
<1>3. \A n \in Name : PutsBack(n)' => PutsBack(n)
  BY <1>2 DEF PutsBack, Lists
<1> QED BY <1>3 DEF TableShrinks

(* A call other than those of activation returns or makes others. *)
LEMMA PendingCall ==
  ASSUME TypeOK, PendingInv, NEW f, Calling(f), f \notin {"send_held", "forget", "register"},
         UNCHANGED <<phase, before>>, TableShrinks,
         NEW u \in Seq(Call), todo' = u \o Tail(todo),
         \A k : Lists(u, k) => k.call \notin {"link_owner", "register", "spawn"},
         \A n \in AnyName : owners'[n] # <<>> => owners[n] # <<>>
  PROVE  PendingInv'
<1>1. /\ phase = "run" /\ todo \in Seq(Call) /\ todo # <<>> /\ Top \in Call /\ Top.call = f
      /\ Top = Head(todo) /\ Tail(todo) \in Seq(Call)
      /\ \A x : Lists(todo, x) <=> x = Top \/ Lists(Tail(todo), x)
  BY TopOf
<1>2. PICK s : s = u \o Tail(todo)
  OBVIOUS
<1>3. \A x : Lists(s, x) <=> Lists(u, x) \/ Lists(Tail(todo), x)
  BY <1>1, <1>2, ListsConcat
<1>4. Followed(todo)
  BY <1>1 DEF PendingInv, PendingRun
<1>5. Followed(Tail(todo))
  BY <1>1, <1>4, FollowedParts
<1>6. Followed(s)
  BY <1>1, <1>2, <1>5, FollowedParts
<1>7. Activating(s) => Activating(todo) /\ LinkFree(s)
  <2>1. ASSUME Activating(s)
        PROVE  Activating(todo)
    BY <1>1, <1>3, <2>1 DEF Activating
  <2>2. ASSUME Activating(todo)
        PROVE  LinkFree(s)
    BY <1>1, <1>3, <2>2 DEF LinkFree, PendingInv, PendingRun
  <2> QED BY <2>1, <2>2
<1>8. \A k : Lists(s, k) /\ k.call = "register" => Lists(todo, k)
  BY <1>1, <1>3
<1>9. \A n : Due(todo, n) => Due(s, n)
  <2>1. \A n : SendHeld(n).call = "send_held" /\ Forget(n).call = "forget"
    BY DEF SendHeld, Forget
  <2>2. \A n : SendHeld(n) # Top /\ Forget(n) # Top
    BY <1>1, <2>1
  <2> QED BY <1>1, <1>3, <2>2 DEF Due
<1>10. \A n \in Name : (PutsBack(n)' => PutsBack(n)) /\ (pending'[n] # <<>> => pending[n] # <<>>)
  BY DEF TableShrinks
<1>11. \A n \in Name : n \in AnyName
  BY DEF AnyName
<1>12. \A k : Lists(s, k) /\ k.call = "register" => k.name \in AnyName
  <2>1. \A k : Lists(s, k) => k \in Call
    BY <1>1, <1>2, ListsConcat, LenProperties, ElementOfSeq DEF Lists
  <2> QED BY <1>11, <2>1, CallFields
<1> QED BY <1>1, <1>2, <1>6, <1>7, <1>8, <1>9, <1>10, <1>11, <1>12, PendingStep

LEMMA PendingReturn ==
  ASSUME TypeOK, PendingInv, NEW f, Calling(f), f \notin {"send_held", "forget", "register"},
         Return, UNCHANGED <<phase, before>>, TableShrinks,
         \A n \in AnyName : owners'[n] # <<>> => owners[n] # <<>>
  PROVE  PendingInv'
<1>1. <<>> \in Seq(Call) /\ Tail(todo) \in Seq(Call) /\ \A k : ~Lists(<<>>, k)
  BY TopOf, CallSequences, ListsShort
<1>2. todo' = <<>> \o Tail(todo)
  BY <1>1, ConcatEmptySeq DEF Return
<1> QED BY <1>1, <1>2, PendingCall

(* The queues of the other names do not begin, and neither does this one. *)
LEMMA NoNewQueue ==
  ASSUME TypeOK, NEW n \in AnyName, NEW q, q # <<>> => owners[n] # <<>>,
         owners' = [owners EXCEPT ![n] = q]
  PROVE  \A m \in AnyName : owners'[m] # <<>> => owners[m] # <<>>
BY DEF TypeOK

LEMMA EmptyQueue ==
  /\ \A c : Without(<<>>, c) = <<>>
  /\ Swapped(<<>>) = <<>>
BY DEF Without, Queued, Swapped

LEMMA PendingSuccession ==
  ASSUME TypeOK, PendingInv, RemovePrimary \/ SwapPrimary
  PROVE  PendingInv'
<1> DEFINE n == Top.name
           c == Top.conn
           f == Top.call
           o == owners[n][1]
           a == <<Send(Lost(c, n))>> \o Succession(n, c)
<1>1. PICK x : x = IF RemovePrimary THEN UnlinkOwner(n, o) ELSE SwapLinks(n, o)
  OBVIOUS
<1>2. /\ Calling(f) /\ f \in {"remove_owner", "swap_owner"}
      /\ Primary(n) = c /\ todo' = (a \o <<x>>) \o Tail(todo)
      /\ UNCHANGED <<before, phase, pending, hooks, owners>>
  BY <1>1 DEF RemovePrimary, SwapPrimary, unseen, seenVars, Calling, Make
<1>3. n \in AnyName /\ c \in Conn
  BY <1>2, TopOf, CallFields
<1>4. owners[n] # <<>>
  BY <1>2, <1>3, ConnAssumption DEF Primary
<1>5. o \in Owner
  BY <1>3, <1>4, FirstOwner
<1>6. x \in Call /\ x.call \notin {"link_owner", "register", "spawn"}
  BY <1>1, <1>3, <1>5, CallIntro DEF UnlinkOwner, SwapLinks
<1>7. a \in Seq(Call) /\ AllEarly(a)
  BY <1>3, <1>4, SuccessionForm
<1> HIDE DEF a
<1>8. <<x>> \in Seq(Call)
  BY <1>6, CallSequences
<1>9. a \o <<x>> \in Seq(Call) /\ \A k : Lists(a \o <<x>>, k) <=> Lists(a, k) \/ Lists(<<x>>, k)
  BY <1>7, <1>8, ListsConcat
<1>10. \A k : Lists(a \o <<x>>, k) => k.call \notin {"link_owner", "register", "spawn"}
  BY <1>6, <1>7, <1>9, ListsShort DEF AllEarly, Early
<1>11. TableShrinks
  BY <1>2, TableKept
<1> QED BY <1>2, <1>9, <1>10, <1>11, PendingCall

(* A client is linked: for a name it is followed by the held messages. *)
LEMMA PendingLink ==
  ASSUME TypeOK, TypeOK', PendingInv, LinkNewOwner
  PROVE  PendingInv'
<1> DEFINE n == Top.name
<1>1. /\ Calling("link_owner") /\ todo' = Tail(todo)
      /\ UNCHANGED <<before, phase, pending>>
      /\ hooks' = <<CancelOwnership(n, Top.conn)>> \o hooks
      /\ \E q : owners' = [owners EXCEPT ![n] = q]
  BY DEF LinkNewOwner, unseen, Return
<1>2. /\ phase = "run" /\ todo \in Seq(Call) /\ todo # <<>> /\ Top \in Call
      /\ Top = Head(todo) /\ Tail(todo) \in Seq(Call) /\ Top.call = "link_owner"
      /\ \A x : Lists(todo, x) <=> x = Top \/ Lists(Tail(todo), x)
  BY <1>1, TopOf
<1>3. n \in AnyName /\ Top.conn \in Conn
  BY <1>2, CallFields
<1>4. TableShrinks
  <2>1. CancelOwnership(n, Top.conn) \in Hook /\ CancelOwnership(n, Top.conn).hook # "restore_pending"
    BY <1>3, HookIntro DEF CancelOwnership
  <2> QED BY <1>1, <2>1, TableKept
<1>5. PendingRun
  BY <1>2 DEF PendingInv
<1>6. ~Activating(todo)
  BY <1>2, <1>5 DEF PendingRun, LinkFree
<1>7. Followed(Tail(todo)) /\ (n \in Name => Lists(Tail(todo), SendHeld(n)))
  BY <1>2, <1>5, FollowedParts DEF PendingRun
<1>8. ~Activating(Tail(todo))
  BY <1>2, <1>6 DEF Activating
<1>9. ASSUME NEW m \in Name, owners'[m] # <<>>, pending'[m] # <<>>
      PROVE  Due(Tail(todo), m)
  <2>1. CASE m = n
    BY <1>7, <2>1 DEF Due
  <2>2. CASE m # n
    <3>1. m \in AnyName /\ owners'[m] = owners[m]
      BY <1>1, <2>2 DEF TypeOK, AnyName
    <3>2. Due(todo, m)
      BY <1>1, <1>5, <1>9, <3>1 DEF PendingRun
    <3>3. SendHeld(m) # Top /\ Forget(m) # Top
      BY <1>2 DEF SendHeld, Forget
    <3> QED BY <1>2, <3>2, <3>3 DEF Due
  <2> QED BY <2>1, <2>2
<1>10. PendingRun'
  <2>1. \A k : Lists(todo', k) /\ k.call = "register" => FALSE
    BY <1>1, <1>8 DEF Activating
  <2> QED BY <1>1, <1>7, <1>8, <1>9, <2>1 DEF PendingRun, Followed, Due, Activating, Lists
<1>11. \A m \in Name : pending'[m] # <<>> \/ PutsBack(m)' => before'[m] = <<>>
  BY <1>1, <1>2, <1>4 DEF TableShrinks, PendingInv
<1> QED BY <1>1, <1>2, <1>10, <1>11 DEF PendingInv

LEMMA PendingRegistry ==
  ASSUME TypeOK, TypeOK', PendingInv, RegistryCall
  PROVE  PendingInv'
<1>1. CASE NotifyStarted \/ CompleteConnection
  <2>1. /\ Calling("notify") \/ Calling("complete")
        /\ Return /\ UNCHANGED <<phase, before, pending, hooks, owners>>
    BY <1>1 DEF NotifyStarted, CompleteConnection, unseen
  <2> QED BY <2>1, TableKept, PendingReturn
<1>2. CASE LinkNewOwner
  BY <1>2, PendingLink
<1>3. CASE RelinkOwner
  <2>1. /\ Calling("link_owner") /\ Queued(owners[Top.name], Top.conn)
        /\ Return /\ UNCHANGED <<phase, before, pending, hooks>>
        /\ \E q : owners' = [owners EXCEPT ![Top.name] = q]
    BY <1>3 DEF RelinkOwner, unseen
  <2>2. Top.name \in AnyName /\ owners[Top.name] # <<>>
    <3>1. Top.name \in AnyName
      BY <2>1, TopOf, CallFields
    <3> QED BY <2>1, <3>1 DEF Queued
  <2>3. \A m \in AnyName : owners'[m] # <<>> => owners[m] # <<>>
    BY <2>1, <2>2, NoNewQueue
  <2> QED BY <2>1, <2>3, TableKept, PendingReturn
<1>4. CASE SetOwnerFlags
  <2>1. /\ Calling("set_flags")
        /\ Return /\ UNCHANGED <<phase, before, pending, hooks>>
        /\ owners' = [owners EXCEPT ![Top.name] =
             [owners[Top.name] EXCEPT ![1] = OwnerOf(Primary(Top.name), Top.flags)]]
    BY <1>4 DEF SetOwnerFlags, unseen
  <2>2. PICK n, o : n = Top.name /\ o = OwnerOf(Primary(Top.name), Top.flags)
    OBVIOUS
  <2>3. n \in AnyName
    BY <2>1, <2>2, TopOf, CallFields
  <2>4. owners[n] = <<>> => [owners[n] EXCEPT ![1] = o] = <<>>
    OBVIOUS
  <2>5. \A m \in AnyName : owners'[m] # <<>> => owners[m] # <<>>
    BY <2>1, <2>2, <2>3, <2>4, NoNewQueue
  <2> QED BY <2>1, <2>5, TableKept, PendingReturn
<1>5. CASE RemovePrimary \/ SwapPrimary
  BY <1>5, PendingSuccession
<1>6. CASE RemoveWaiting
  <2>1. /\ Calling("remove_owner")
        /\ Return /\ UNCHANGED <<phase, before, pending, hooks>>
        /\ owners' = [owners EXCEPT ![Top.name] = Without(owners[Top.name], Top.conn)]
    BY <1>6 DEF RemoveWaiting, unseen
  <2>2. Top.name \in AnyName
    BY <2>1, TopOf, CallFields
  <2>3. \A m \in AnyName : owners'[m] # <<>> => owners[m] # <<>>
    BY <2>1, <2>2, EmptyQueue, NoNewQueue
  <2> QED BY <2>1, <2>3, TableKept, PendingReturn
<1>7. CASE UnlinkPrimary \/ SwapFirstTwo
  <2>1. /\ Calling("unlink_owner") \/ Calling("swap_links")
        /\ Return /\ UNCHANGED <<phase, before, pending>>
        /\ \E i \in {1, 2} : hooks' = <<RestoreOwnership(Top.name, Top.owner, i)>> \o hooks
        /\ \/ owners' = [owners EXCEPT ![Top.name] = Without(owners[Top.name], Top.owner.conn)]
           \/ owners' = [owners EXCEPT ![Top.name] = Swapped(owners[Top.name])]
    BY <1>7 DEF UnlinkPrimary, SwapFirstTwo, unseen
  <2>2. Top.name \in AnyName /\ Top.owner \in Owner
    BY <2>1, TopOf, CallFields
  <2>3. \A m \in AnyName : owners'[m] # <<>> => owners[m] # <<>>
    <3>1. PICK q : owners' = [owners EXCEPT ![Top.name] = q] /\ (owners[Top.name] = <<>> => q = <<>>)
      BY <2>1, EmptyQueue
    <3> QED BY <2>2, <3>1, NoNewQueue
  <2>4. TableShrinks
    <3>1. \A i \in {1, 2} : /\ RestoreOwnership(Top.name, Top.owner, i) \in Hook
                            /\ RestoreOwnership(Top.name, Top.owner, i).hook # "restore_pending"
      BY <2>2, HookIntro DEF RestoreOwnership
    <3> QED BY <2>1, <3>1, TableKept
  <2> QED BY <2>1, <2>3, <2>4, PendingReturn
<1> QED BY <1>1, <1>2, <1>3, <1>4, <1>5, <1>6, <1>7 DEF RegistryCall

(* One entry of the table changes. *)
LEMMA TableUpdate ==
  ASSUME TypeOK, NEW n \in Name, NEW x, pending' = [pending EXCEPT ![n] = x]
  PROVE  pending'[n] = x /\ \A m \in Name : m # n => pending'[m] = pending[m]
BY DEF TypeOK

(* An activation is registered for a name that has no owner. *)
LEMMA PendingRegister ==
  ASSUME TypeOK, PendingInv, RegisterEntry
  PROVE  PendingInv'
<1> DEFINE n == Top.name
<1>1. /\ Calling("register") /\ todo' = Tail(todo)
      /\ UNCHANGED <<before, phase, owners>>
      /\ hooks' = <<CancelPending(n)>> \o hooks
  BY DEF RegisterEntry, registered, Return
<1>2. PICK x : pending' = [pending EXCEPT ![n] = x]
  BY DEF RegisterEntry
<1>3. /\ phase = "run" /\ todo \in Seq(Call) /\ todo # <<>> /\ Top \in Call
      /\ Top = Head(todo) /\ Tail(todo) \in Seq(Call) /\ Top.call = "register"
      /\ \A y : Lists(todo, y) <=> y = Top \/ Lists(Tail(todo), y)
  BY <1>1, TopOf
<1>4. n \in Name
  BY <1>3, CallFields
<1>5. PendingRun
  BY <1>3 DEF PendingInv
<1>6. PendingRest /\ LinkFree(todo) /\ owners[n] = <<>> /\ before[n] = <<>>
  BY <1>3, <1>5 DEF PendingRun, Activating
<1>7. \A m \in Name : PutsBack(m)' => PutsBack(m)
  <2>1. CancelPending(n) \in Hook /\ CancelPending(n).hook # "restore_pending"
    BY <1>4, HookIntro DEF CancelPending
  <2>2. \A y : Lists(hooks', y) => Lists(hooks, y) \/ y.hook # "restore_pending"
    BY <1>1, <2>1, ListsCons DEF TypeOK
  <2> QED BY <2>2 DEF PutsBack, Lists
<1>8. \A m \in Name : m # n => pending'[m] = pending[m]
  BY <1>2, <1>4, TableUpdate
<1>9. PendingRest'
  BY <1>1, <1>6, <1>8 DEF PendingRest
<1>10. \A m \in Name : pending'[m] # <<>> \/ PutsBack(m)' => before'[m] = <<>>
  BY <1>1, <1>3, <1>6, <1>7, <1>8 DEF PendingInv
<1>11. Followed(Tail(todo)) /\ LinkFree(Tail(todo))
  BY <1>3, <1>6, FollowedParts DEF LinkFree
<1>12. \A k : Lists(Tail(todo), k) /\ k.call = "register" => owners[k.name] = <<>> /\ before[k.name] = <<>>
  BY <1>3, <1>5 DEF PendingRun
<1>13. PendingRun'
  BY <1>1, <1>9, <1>11, <1>12 DEF PendingRun, PendingRest, Followed, Activating, LinkFree, Lists
<1> QED BY <1>1, <1>3, <1>10, <1>13 DEF PendingInv

(* A program cannot be started. *)
LEMMA PendingSpawnError ==
  ASSUME TypeOK, PendingInv, SpawnParseError \/ SpawnForkError
  PROVE  PendingInv'
<1>1. /\ Calling("spawn") /\ Raise
      /\ UNCHANGED <<before, phase, owners, hooks>>
      /\ UNCHANGED pending \/ pending' = [pending EXCEPT ![Top.name] = <<>>]
  BY DEF SpawnParseError, SpawnForkError, registered
<1>2. phase = "run" /\ Top.name \in Name /\ Lists(todo, Top) /\ Top.call = "spawn"
  BY <1>1, TopOf, CallFields
<1>3. \A m \in Name : pending'[m] # <<>> => pending[m] # <<>>
  BY <1>1, <1>2, TableUpdate
<1>4. PendingRest
  BY <1>2 DEF PendingInv, PendingRun, Activating
<1>5. PendingRest'
  BY <1>1, <1>3, <1>4 DEF PendingRest
<1>6. \A k : Lists(todo', k) => k.call = "send"
  BY <1>1, ListsShort, SendForm DEF Raise
<1>7. \A m \in Name : PutsBack(m)' => PutsBack(m)
  BY <1>1 DEF PutsBack, Lists
<1>8. \A m \in Name : pending'[m] # <<>> \/ PutsBack(m)' => before'[m] = <<>>
  BY <1>1, <1>2, <1>3, <1>7 DEF PendingInv
<1>9. LinkFree(todo') /\ Followed(todo') /\ ~Activating(todo')
  BY <1>6, FollowedParts DEF LinkFree, Activating
<1>10. PendingRun'
  <2>1. \A k : Lists(todo', k) /\ k.call = "register" => FALSE
    BY <1>6
  <2> QED BY <1>5, <1>9, <2>1 DEF PendingRun, PendingRest, Followed, Activating, LinkFree, Lists
<1> QED BY <1>1, <1>2, <1>8, <1>10 DEF PendingInv

(* The calls for the messages that are held. *)
LEMMA HeldCalls ==
  ASSUME TypeOK, NEW n \in Name
  PROVE  LET u == IF pending[n] = <<>> THEN <<>> ELSE Held(n) \o <<Forget(n)>> IN
         /\ u \in Seq(Call)
         /\ \A k : Lists(u, k) => k.call \in {"dispatch", "forget"}
         /\ pending[n] # <<>> => Lists(u, Forget(n))
<1> DEFINE u == Held(n) \o <<Forget(n)>>
<1>1. Held(n) \in Seq(Call) /\ <<Forget(n)>> \in Seq(Call)
  BY CallsForEntries, CallIntro, CallSequences
<1>2. u \in Seq(Call) /\ \A k : Lists(u, k) <=> Lists(Held(n), k) \/ Lists(<<Forget(n)>>, k)
  BY <1>1, ListsConcat
<1>3. \A k : Lists(Held(n), k) => k.call = "dispatch"
  BY DEF Held, Lists, Dispatch
<1>4. Forget(n).call = "forget"
  BY DEF Forget
<1>5. \A k : Lists(u, k) => k.call \in {"dispatch", "forget"}
  BY <1>2, <1>3, <1>4, ListsShort
<1>6. Lists(u, Forget(n))
  BY <1>2, ListsShort
<1> QED BY <1>2, <1>5, <1>6, CallSequences, ListsShort

LEMMA PendingHeld ==
  ASSUME TypeOK, PendingInv, SendHeldMessages
  PROVE  PendingInv'
<1>1. PICK n : n = Top.name
  OBVIOUS
<1>2. PICK u : u = IF pending[n] = <<>> THEN <<>> ELSE Held(n) \o <<Forget(n)>>
  OBVIOUS
<1>3. PICK s : s = u \o Tail(todo)
  OBVIOUS
<1>4. /\ Calling("send_held") /\ todo' = s
      /\ UNCHANGED <<before, phase, owners, pending, hooks>>
  BY <1>1, <1>2, <1>3 DEF SendHeldMessages, registered, Make
<1>5. /\ phase = "run" /\ todo \in Seq(Call) /\ todo # <<>> /\ Top \in Call
      /\ Top = Head(todo) /\ Tail(todo) \in Seq(Call) /\ Top.call = "send_held"
      /\ \A y : Lists(todo, y) <=> y = Top \/ Lists(Tail(todo), y)
  BY <1>4, TopOf
<1>6. n \in Name
  BY <1>1, <1>5, CallFields
<1>7. /\ u \in Seq(Call)
      /\ \A k : Lists(u, k) => k.call \in {"dispatch", "forget"}
      /\ pending[n] # <<>> => Lists(u, Forget(n))
  BY <1>2, <1>6, HeldCalls
<1>8. \A y : Lists(s, y) <=> Lists(u, y) \/ Lists(Tail(todo), y)
  BY <1>3, <1>5, <1>7, ListsConcat
<1>9. PendingRun
  BY <1>5 DEF PendingInv
<1>10. Followed(s)
  <2>1. Followed(Tail(todo))
    BY <1>5, <1>9, FollowedParts DEF PendingRun
  <2> QED BY <1>3, <1>5, <1>7, <2>1, FollowedParts
<1>11. Activating(s) => Activating(todo) /\ LinkFree(s)
  <2>1. Activating(s) => Activating(todo)
    BY <1>5, <1>7, <1>8 DEF Activating
  <2>2. Activating(todo) => LinkFree(s)
    BY <1>5, <1>7, <1>8, <1>9 DEF LinkFree, PendingRun
  <2> QED BY <2>1, <2>2
<1>12. \A k : Lists(s, k) /\ k.call = "register" => Lists(todo, k)
  BY <1>5, <1>7, <1>8
<1>13. ASSUME NEW m \in Name, pending[m] # <<>>, Due(todo, m)
       PROVE  Due(s, m)
  <2>1. CASE m = n
    BY <1>7, <1>8, <1>13, <2>1 DEF Due
  <2>2. CASE m # n
    <3>1. SendHeld(m).name = m /\ Forget(m).call = "forget"
      BY DEF SendHeld, Forget
    <3>2. SendHeld(m) # Top /\ Forget(m) # Top
      BY <1>1, <1>5, <2>2, <3>1
    <3> QED BY <1>5, <1>8, <1>13, <3>2 DEF Due
  <2> QED BY <2>1, <2>2
<1>14. \A m : PutsBack(m)' => PutsBack(m)
  BY <1>4 DEF PutsBack, Lists
<1>15. phase' = "run" /\ UNCHANGED before
  BY <1>4, <1>5
<1> QED BY <1>4, <1>5, <1>10, <1>11, <1>12, <1>13, <1>14, <1>15, PendingStep

LEMMA PendingForget ==
  ASSUME TypeOK, PendingInv, ForgetPending
  PROVE  PendingInv'
<1>1. PICK n, h : n = Top.name /\ h = RestorePending(n, pending[n], n \in child)
  OBVIOUS
<1>2. PICK s : s = Tail(todo)
  OBVIOUS
<1>3. /\ Calling("forget") /\ todo' = s
      /\ UNCHANGED <<before, phase, owners>>
      /\ hooks' = <<h>> \o hooks
      /\ pending' = [pending EXCEPT ![n] = <<>>]
  BY <1>1, <1>2 DEF ForgetPending, registered, Return
<1>4. /\ phase = "run" /\ todo \in Seq(Call) /\ todo # <<>> /\ Top \in Call
      /\ Top = Head(todo) /\ s \in Seq(Call) /\ Top.call = "forget"
      /\ \A y : Lists(todo, y) <=> y = Top \/ Lists(s, y)
  BY <1>2, <1>3, TopOf
<1>5. n \in Name
  BY <1>1, <1>4, CallFields
<1>6. pending'[n] = <<>> /\ \A m \in Name : m # n => pending'[m] = pending[m]
  BY <1>3, <1>5, TableUpdate
<1>7. h.name = n /\ h.entries = pending[n] /\ h \in Hook
  <2>1. pending[n] \in Seq(Entry)
    BY <1>5 DEF TypeOK
  <2>2. PICK k : k = (n \in child) /\ h = RestorePending(n, pending[n], k)
    BY <1>1
  <2>3. k \in BOOLEAN
    BY <2>2
  <2>4. h \in Hook
    BY <1>5, <2>1, <2>2, <2>3, HookIntro
  <2> QED BY <2>2, <2>4 DEF RestorePending
<1>8. \A m \in Name : PutsBack(m)' => PutsBack(m) \/ pending[m] # <<>>
  <2>1. \A y : Lists(hooks', y) => Lists(hooks, y) \/ y = h
    BY <1>3, <1>7, ListsCons DEF TypeOK
  <2> QED BY <1>7, <2>1 DEF PutsBack, Lists
<1>9. PendingRun
  BY <1>4 DEF PendingInv
<1>10. Followed(s)
  BY <1>2, <1>4, <1>9, FollowedParts DEF PendingRun
<1>11. Activating(s) => Activating(todo) /\ LinkFree(s)
  BY <1>4, <1>9 DEF Activating, LinkFree, PendingRun
<1>12. \A k : Lists(s, k) /\ k.call = "register" => Lists(todo, k)
  BY <1>4
<1>13. ASSUME NEW m \in Name, pending'[m] # <<>>, Due(todo, m)
       PROVE  Due(s, m)
  <2>1. m # n
    BY <1>6, <1>13
  <2>2. Forget(m).name = m /\ SendHeld(m).call = "send_held"
    BY DEF SendHeld, Forget
  <2>3. SendHeld(m) # Top /\ Forget(m) # Top
    BY <1>1, <1>4, <2>1, <2>2
  <2> QED BY <1>4, <1>13, <2>3 DEF Due
<1>14. \A m \in Name : pending'[m] # <<>> => pending[m] # <<>>
  BY <1>6
<1>15. phase' = "run" /\ UNCHANGED <<before, owners>>
  BY <1>3, <1>4
<1> QED BY <1>3, <1>4, <1>8, <1>10, <1>11, <1>12, <1>13, <1>14, <1>15, PendingStep

LEMMA PendingActivation ==
  ASSUME TypeOK, PendingInv, ActivationCall, Denied = {}
  PROVE  PendingInv'
<1>1. CASE SpawnProgram \/ DispatchHeld
  <2>1. /\ Calling("spawn") \/ Calling("dispatch")
        /\ Return /\ UNCHANGED <<phase, before, pending, hooks, owners>>
    BY <1>1 DEF SpawnProgram, DispatchHeld, registered
  <2> QED BY <2>1, TableKept, PendingReturn
<1>2. CASE DropPending
  <2>1. /\ Calling("drop")
        /\ Return /\ UNCHANGED <<phase, before, hooks, owners>>
        /\ pending' = [pending EXCEPT ![Top.name] = <<>>]
    BY <1>2 DEF DropPending, registered
  <2>2. Top.name \in Name
    BY <2>1, TopOf, CallFields
  <2>3. \A m \in Name : pending'[m] # <<>> => pending[m] # <<>>
    BY <2>1, <2>2, TableUpdate
  <2>4. \A m \in Name : PutsBack(m)' => PutsBack(m)
    BY <2>1 DEF PutsBack, Lists
  <2> QED BY <2>1, <2>3, <2>4, PendingReturn DEF TableShrinks
<1>3. ~RejectHeld
  BY DEF RejectHeld, Permitted
<1> QED BY <1>1, <1>2, <1>3, PendingRegister, PendingSpawnError, PendingHeld, PendingForget
        DEF ActivationCall

(* A handler begins with the calls s. *)
LEMMA PendingStart ==
  ASSUME PendingInv, NEW s, NEW y, NEW w, NEW u, phase \in {"idle", "round"}, Begin(y, w, u, s),
         UNCHANGED <<owners, pending>>, Followed(s), Activating(s) => LinkFree(s),
         \A k : Lists(s, k) /\ k.call = "register" => owners[k.name] = <<>>
  PROVE  PendingInv'
<1>1. todo' = s /\ hooks' = <<>> /\ before' = owners /\ phase' = "run"
  BY DEF Begin
<1>2. PendingRest
  BY DEF PendingInv
<1>3. \A n : ~PutsBack(n)'
  BY <1>1 DEF PutsBack, Lists
<1>4. \A n \in Name : pending'[n] # <<>> \/ PutsBack(n)' => before'[n] = <<>>
  BY <1>1, <1>2, <1>3 DEF PendingRest
<1>5. PendingRun'
  BY <1>1, <1>2 DEF PendingRun, PendingRest, Followed, Due, Activating, LinkFree, Lists
<1> QED BY <1>1, <1>4, <1>5 DEF PendingInv

(* Between handlers nothing pends. *)
LEMMA PendingQuiet ==
  ASSUME PendingRest, phase' \in {"idle", "round"},
         UNCHANGED owners, \A n \in Name : pending'[n] # <<>> => pending[n] # <<>>
  PROVE  PendingInv'
BY DEF PendingRest, PendingInv

LEMMA PendingEvents ==
  ASSUME TypeOK, PendingInv
  PROVE  /\ \A c \in Conn : Disconnected(c) => PendingInv'
         /\ \A n \in Name : TimeOut(n) \/ ChildFails(n) \/ ChildExits(n) => PendingInv'
         /\ ForgetClient \/ FailedAll => PendingInv'
<1>1. ASSUME phase \in {"idle", "round"}, phase' \in {"idle", "round"}, UNCHANGED <<owners, pending>>
      PROVE  PendingInv'
  BY <1>1, PendingQuiet DEF PendingInv
<1>2. \A c \in Conn : Disconnected(c) => PendingInv'
  BY <1>1 DEF Disconnected, Idle, busVars
<1>3. \A n \in Name : TimeOut(n) \/ ChildFails(n) \/ ChildExits(n) => PendingInv'
  BY <1>1 DEF TimeOut, ChildFails, ChildExits, Fail, Idle, busVars, txnVars, registered
<1>4. ForgetClient \/ FailedAll => PendingInv'
  BY <1>1 DEF ForgetClient, FailedAll, Rest, busVars
<1> QED BY <1>2, <1>3, <1>4

(* The calls of RequestName: a link is followed by the held messages. *)
LEMMA OutcomeLinks ==
  ASSUME TypeOK, NEW c \in Conn, NEW n \in Name, NEW f \in AllFlags
  PROVE  /\ OutcomeCalls(c, n, f) \in Seq(Call)
         /\ \A k : Lists(OutcomeCalls(c, n, f), k) =>
              /\ k.call \notin {"register", "spawn", "complete"}
              /\ k.call = "link_owner" => k.name = n /\ k.conn = c
              /\ k.call \in {"remove_owner", "unlink_owner"} => k.name = n
<1> DEFINE x == Outcome(c, n, f)
           P(k) == /\ k.call \notin {"register", "spawn", "complete"}
                   /\ k.call = "link_owner" => k.name = n /\ k.conn = c
                   /\ k.call \in {"remove_owner", "unlink_owner"} => k.name = n
<1>1. x \in {"primary", "already", "replaced", "exists", "queued"}
  BY DEF Outcome
<1>2. n \in AnyName
  BY DEF AnyName
<1>3. /\ \A m : P(Send(m))
      /\ P(LinkOwner(n, c, f)) /\ P(SetFlags(n, c, f)) /\ P(RemoveOwner(n, c))
      /\ \A d : P(SwapOwner(n, d)) /\ P(RemoveOwner(n, d))
      /\ \A e : P(Notify(n, e))
  BY DEF Send, LinkOwner, SetFlags, RemoveOwner, SwapOwner, Notify
<1> HIDE DEF P
<1>4. AddOwner(n, c, f) \in Seq(Call) /\ \A k : Lists(AddOwner(n, c, f), k) => P(k)
  <2>1. PICK a : a = IF owners[n] = <<>> THEN <<Send(Acquired(c, n))>> ELSE <<>>
    OBVIOUS
  <2>2. LinkOwner(n, c, f) \in Call /\ Send(Acquired(c, n)) \in Call
    BY <1>2, CallIntro, MessageIntro
  <2>3. a \in Seq(Call) /\ <<LinkOwner(n, c, f)>> \in Seq(Call)
    BY <2>1, <2>2, CallSequences
  <2>4. \A k : Lists(a, k) => k = Send(Acquired(c, n))
    BY <2>1, ListsShort
  <2>5. \A k : Lists(<<LinkOwner(n, c, f)>>, k) => k = LinkOwner(n, c, f)
    BY ListsShort
  <2>6. AddOwner(n, c, f) = a \o <<LinkOwner(n, c, f)>>
    BY <2>1 DEF AddOwner
  <2>7. \A k : Lists(a \o <<LinkOwner(n, c, f)>>, k) <=> Lists(a, k) \/ Lists(<<LinkOwner(n, c, f)>>, k)
    BY <2>3, ListsConcat
  <2> QED BY <1>2, <1>3, <2>4, <2>5, <2>6, <2>7, NewOwnerCalls
<1>5. \A k : Lists(Started(n), k) => P(k)
  BY <1>3 DEF Started, Lists
<1>6. CASE x = "primary"
  <2>1. PICK v, a, b : v = Send(Changed(n, NoOne, c)) /\ a = Started(n) /\ b = AddOwner(n, c, f)
    OBVIOUS
  <2>2. owners[n] = <<>> /\ OutcomeCalls(c, n, f) = Ensure(n, c, f)
    BY <1>6 DEF Outcome, OutcomeCalls
  <2>3. v \in Call /\ a \in Seq(Call) /\ b \in Seq(Call)
    BY <1>2, <1>4, <2>1, CallIntro, MessageIntro, CallsForEntries
  <2>4. <<v>> \in Seq(Call) /\ \A k : Lists(<<v>>, k) => P(k)
    BY <1>3, <2>1, <2>3, CallSequences, ListsShort
  <2>5. OutcomeCalls(c, n, f) = (<<v>> \o a) \o b \/ OutcomeCalls(c, n, f) = <<v>> \o (a \o b)
    BY <2>1, <2>2 DEF Ensure
  <2>6. /\ <<v>> \o a \in Seq(Call)
        /\ \A k : Lists(<<v>> \o a, k) <=> Lists(<<v>>, k) \/ Lists(a, k)
    BY <2>3, <2>4, ListsConcat
  <2>7. /\ a \o b \in Seq(Call)
        /\ \A k : Lists(a \o b, k) <=> Lists(a, k) \/ Lists(b, k)
    BY <2>3, ListsConcat
  <2>8. /\ (<<v>> \o a) \o b \in Seq(Call)
        /\ \A k : Lists((<<v>> \o a) \o b, k) <=> Lists(<<v>> \o a, k) \/ Lists(b, k)
    BY <2>3, <2>6, ListsConcat
  <2>9. /\ <<v>> \o (a \o b) \in Seq(Call)
        /\ \A k : Lists(<<v>> \o (a \o b), k) <=> Lists(<<v>>, k) \/ Lists(a \o b, k)
    BY <2>4, <2>7, ListsConcat
  <2>10. \A k : Lists(<<v>>, k) \/ Lists(a, k) \/ Lists(b, k) => P(k)
    BY <1>4, <1>5, <2>1, <2>4
  <2> QED BY <2>5, <2>6, <2>7, <2>8, <2>9, <2>10 DEF P
<1>7. CASE x = "already"
  <2>1. OutcomeCalls(c, n, f) = <<SetFlags(n, c, f)>> /\ SetFlags(n, c, f) \in Call
    BY <1>2, <1>7, CallIntro DEF OutcomeCalls
  <2> QED BY <1>3, <2>1, CallSequences, ListsShort DEF P
<1>8. CASE x = "exists"
  <2>1. OutcomeCalls(c, n, f) = Decline(c, n) /\ RemoveOwner(n, c) \in Call
    BY <1>2, <1>8, CallIntro DEF OutcomeCalls
  <2> QED BY <1>3, <2>1, CallSequences, ListsShort DEF Decline, P
<1>9. CASE x = "queued"
  BY <1>4, <1>9 DEF OutcomeCalls, P
<1>10. CASE x = "replaced"
  <2>1. OutcomeCalls(c, n, f) = AddOwner(n, c, f) \o Dethrone(n)
    BY <1>10 DEF OutcomeCalls
  <2>2. Primary(n) \in Conn
    BY <1>2, <1>10, FirstOwner DEF Outcome
  <2>3. Dethrone(n) \in Seq(Call) /\ \A k : Lists(Dethrone(n), k) => P(k)
    BY <1>2, <1>3, <2>2, CallIntro, CallSequences, ListsShort DEF Dethrone
  <2>4. /\ AddOwner(n, c, f) \o Dethrone(n) \in Seq(Call)
        /\ \A k : Lists(AddOwner(n, c, f) \o Dethrone(n), k)
             <=> Lists(AddOwner(n, c, f), k) \/ Lists(Dethrone(n), k)
    BY <1>4, <2>3, ListsConcat
  <2> QED BY <1>4, <2>1, <2>3, <2>4 DEF P
<1> QED BY <1>1, <1>6, <1>7, <1>8, <1>9, <1>10

(* A handler begins that links nobody to a well-known name and activates
   nothing. *)
LEMMA PendingBegin ==
  ASSUME PendingInv, NEW s, NEW y, NEW w, NEW u, phase \in {"idle", "round"}, Begin(y, w, u, s),
         UNCHANGED <<owners, pending>>,
         \A k : Lists(s, k) => /\ k.call \notin {"register", "spawn"}
                               /\ k.call = "link_owner" => k.name \notin Name
  PROVE  PendingInv'
<1>1. Followed(s)
  BY DEF Followed, Lists
<1>2. ~Activating(s) /\ \A k : Lists(s, k) => k.call # "register"
  BY DEF Activating
<1> QED BY <1>1, <1>2, PendingStart

LEMMA PendingHello ==
  ASSUME TypeOK, PendingInv, NEW c \in Conn, Hello(c)
  PROVE  PendingInv'
<1> DEFINE f == [allow |-> FALSE, noqueue |-> FALSE, replace |-> FALSE]
<1>1. PICK x, e, s : /\ x = <<Complete(c), Send(Reply(c, c, "welcome"))>>
                     /\ e = Ensure(c, c, f) /\ s = x \o e
  OBVIOUS
<1>2. f \in AllFlags /\ c \in AnyName /\ c \notin Name /\ "welcome" \in Result
  BY ConnAssumption DEF AllFlags, AnyName, Result
<1>3. Begin("request", c, {}, s) /\ Idle /\ UNCHANGED <<owners, pending>>
  BY <1>1 DEF Hello, Speaks, busVars
<1> HIDE DEF f
<1>4. /\ x \in Seq(Call)
      /\ \A k : Lists(x, k) => k.call \in {"complete", "send"}
  <2>1. Complete(c) \in Call /\ Send(Reply(c, c, "welcome")) \in Call
    BY <1>2, CallIntro, MessageIntro
  <2>2. Complete(c).call = "complete" /\ Send(Reply(c, c, "welcome")).call = "send"
    BY DEF Complete, Send
  <2>3. \A k : Lists(x, k) => k = Complete(c) \/ k = Send(Reply(c, c, "welcome"))
    BY <1>1, ListsShort
  <2>4. x \in Seq(Call)
    BY <1>1, <2>1
  <2> QED BY <2>2, <2>3, <2>4
<1>5. /\ e \in Seq(Call)
      /\ \A k : Lists(e, k) => /\ k.call \notin {"register", "spawn"}
                               /\ k.call = "link_owner" => k.name \notin Name
  <2>1. CASE owners[c] # <<>>
    <3>1. e = <<>>
      BY <1>1, <2>1 DEF Ensure
    <3> QED BY <3>1, CallSequences, ListsShort
  <2>2. CASE owners[c] = <<>>
    <3>1. PICK a \in Seq(Call) : e = a \o <<LinkOwner(c, c, f)>> /\ AllEarly(a)
      BY <1>1, <1>2, <2>2, EnsureForm
    <3>2. <<LinkOwner(c, c, f)>> \in Seq(Call)
      BY <1>2, CallIntro, CallSequences
    <3>3. e \in Seq(Call) /\ \A k : Lists(e, k) <=> Lists(a, k) \/ Lists(<<LinkOwner(c, c, f)>>, k)
      BY <3>1, <3>2, ListsConcat
    <3>4. \A k : Lists(a, k) => k.call \notin {"link_owner", "register", "spawn"}
      BY <3>1 DEF AllEarly, Early
    <3>5. LinkOwner(c, c, f).call = "link_owner" /\ LinkOwner(c, c, f).name = c
      BY DEF LinkOwner
    <3>6. \A k : Lists(<<LinkOwner(c, c, f)>>, k) => k = LinkOwner(c, c, f)
      BY ListsShort
    <3> QED BY <1>2, <3>3, <3>4, <3>5, <3>6
  <2> QED BY <2>1, <2>2
<1>6. \A k : Lists(s, k) <=> Lists(x, k) \/ Lists(e, k)
  <2>1. x \in Seq(Call) /\ e \in Seq(Call)
    BY <1>4, <1>5
  <2>2. \A k : Lists(x \o e, k) <=> Lists(x, k) \/ Lists(e, k)
    BY <2>1, ListsConcat
  <2> QED BY <1>1, <2>2
<1>7. \A k : Lists(s, k) => /\ k.call \notin {"register", "spawn"}
                            /\ k.call = "link_owner" => k.name \notin Name
  BY <1>4, <1>5, <1>6
<1> QED BY <1>3, <1>7, PendingBegin DEF Idle

LEMMA PendingRequest ==
  ASSUME TypeOK, PendingInv, NEW c \in Conn, NEW n \in Name, NEW f \in Flags, RequestName(c, n, f)
  PROVE  PendingInv'
<1>1. PICK s : s = AcquireService(c, n, f)
  OBVIOUS
<1>2. Begin("request", c, {}, s) /\ phase \in {"idle", "round"} /\ UNCHANGED <<owners, pending>>
  BY <1>1 DEF RequestName, Speaks, Idle, busVars
<1>3. CASE ~MayAcquire(c, n)
  <2>1. s = <<Send(Failure(c))>>
    BY <1>1, <1>3 DEF AcquireService
  <2>2. \A k : Lists(s, k) => k.call = "send"
    BY <2>1, ListsShort, SendForm
  <2> QED BY <1>2, <2>2, PendingBegin
<1>4. CASE MayAcquire(c, n)
  <2>1. f \in AllFlags /\ n \in AnyName
    BY ConfigAssumption DEF AnyName
  <2>2. OutcomeResult(c, n, f) \in Result
    BY DEF OutcomeResult, Outcome, Result
  <2>3. PICK a, x, b : /\ a = OutcomeCalls(c, n, f)
                       /\ x = Send(Reply(c, n, OutcomeResult(c, n, f)))
                       /\ b = <<SendHeld(n), x>>
    OBVIOUS
  <2>4. s = a \o b
    BY <1>1, <1>4, <2>3 DEF AcquireService
  <2>5. SendHeld(n) \in Call /\ x \in Call
    BY <2>1, <2>2, <2>3, CallIntro, MessageIntro
  <2>6. b \in Seq(Call)
    BY <2>3, <2>5
  <2>7. \A k : Lists(b, k) <=> k = SendHeld(n) \/ k = x
    BY <2>3, ListsShort
  <2>8. SendHeld(n).call = "send_held" /\ x.call = "send"
    BY <2>3 DEF SendHeld, Send
  <2>9. /\ a \in Seq(Call)
        /\ \A k : Lists(a, k) => /\ k.call \notin {"register", "spawn"}
                                 /\ k.call = "link_owner" => k.name = n
    BY <2>1, <2>3, OutcomeLinks
  <2>10. LinkFree(b)
    BY <2>7, <2>8 DEF LinkFree
  <2>11. Followed(b)
    BY <2>10, FollowedParts
  <2>12. Lists(b, SendHeld(n))
    BY <2>7
  <2>13. \A k : Lists(a, k) /\ k.call = "link_owner" /\ k.name \in Name => Lists(b, SendHeld(k.name))
    BY <2>9, <2>12
  <2>14. Followed(s)
    BY <2>4, <2>6, <2>9, <2>11, <2>13, FollowedParts
  <2>15. \A k : Lists(s, k) <=> Lists(a, k) \/ Lists(b, k)
    BY <2>4, <2>6, <2>9, ListsConcat
  <2>16. \A k : Lists(s, k) => k.call \notin {"register", "spawn"}
    BY <2>7, <2>8, <2>9, <2>15
  <2>17. ~Activating(s) /\ \A k : Lists(s, k) => k.call # "register"
    BY <2>16 DEF Activating
  <2> QED BY <1>2, <2>14, <2>17, PendingStart
<1> QED BY <1>3, <1>4

LEMMA PendingRelease ==
  ASSUME TypeOK, PendingInv, NEW c \in Conn, NEW n \in Name, ReleaseName(c, n)
  PROVE  PendingInv'
<1>1. PICK s : s = ReleaseService(c, n)
  OBVIOUS
<1>2. Begin("request", c, {}, s) /\ phase \in {"idle", "round"} /\ UNCHANGED <<owners, pending>>
  BY <1>1 DEF ReleaseName, Speaks, Idle, busVars
<1>3. \E x, y : /\ s = <<Send(x)>> \/ s = <<RemoveOwner(n, c), Send(y)>>
  BY <1>1 DEF ReleaseService
<1>4. RemoveOwner(n, c).call = "remove_owner"
  BY DEF RemoveOwner
<1>5. \A k : Lists(s, k) => k.call \in {"send", "remove_owner"}
  BY <1>3, <1>4, ListsShort, SendForm
<1> QED BY <1>2, <1>5, PendingBegin

LEMMA PendingActivate ==
  ASSUME TypeOK, PendingInv, NEW c \in Conn, NEW n \in Name, NEW a \in BOOLEAN, Activate(c, n, a)
  PROVE  PendingInv'
<1>1. PICK s : s = ActivateService(c, n, a)
  OBVIOUS
<1>2. /\ Begin("call", c, {}, s) /\ phase \in {"idle", "round"} /\ UNCHANGED <<owners, pending>>
      /\ a => owners[n] = <<>>
  BY <1>1 DEF Activate, Speaks, Idle, busVars
<1>3. CASE s = <<Send(Answer(c, n))>>
  <2>1. \A k : Lists(s, k) => k.call = "send"
    BY <1>3, ListsShort, SendForm
  <2> QED BY <1>2, <2>1, PendingBegin
<1>4. CASE s # <<Send(Answer(c, n))>>
  <2>1. owners[n] = <<>>
    BY <1>1, <1>2, <1>4 DEF ActivateService
  <2>2. PICK k, b : /\ k = Register(n, c, a)
                    /\ b = IF pending[n] = <<>> THEN <<Spawn(n)>> ELSE <<>>
    OBVIOUS
  <2>3. /\ k \in Call /\ k.call = "register" /\ k.name = n
        /\ Spawn(n) \in Call /\ Spawn(n).call = "spawn"
    BY <2>2, CallIntro DEF Register, Spawn
  <2>4. b \in Seq(Call) /\ \A x : Lists(b, x) => x = Spawn(n)
    BY <2>2, <2>3, CallSequences, ListsShort
  <2>5. s = <<k>> \o b
    BY <1>1, <1>4, <2>2 DEF ActivateService
  <2>6. \A x : Lists(s, x) => x = k \/ x = Spawn(n)
    BY <2>3, <2>4, <2>5, ListsCons
  <2>7. LinkFree(s)
    BY <2>3, <2>6 DEF LinkFree
  <2>8. Followed(s)
    BY <2>7, FollowedParts
  <2>9. \A x : Lists(s, x) /\ x.call = "register" => owners[x.name] = <<>>
    BY <2>1, <2>3, <2>6
  <2> QED BY <1>2, <2>7, <2>8, <2>9, PendingStart
<1> QED BY <1>3, <1>4

LEMMA PendingRound ==
  ASSUME TypeOK, PendingInv, DropLastName \/ FailNext
  PROVE  PendingInv'
<1>1. CASE DropLastName
  <2>1. PICK x, s : x = RemoveOwner(Last(owned[job.by]), job.by) /\ s = <<x>>
    OBVIOUS
  <2>2. Begin("disconnect", job.by, {}, s) /\ phase \in {"idle", "round"} /\ UNCHANGED <<owners, pending>>
    BY <1>1, <2>1 DEF DropLastName, busVars
  <2>3. x.call = "remove_owner"
    BY <2>1 DEF RemoveOwner
  <2>4. \A k : Lists(s, k) => k.call = "remove_owner"
    BY <2>1, <2>3, ListsShort
  <2> QED BY <2>2, <2>4, PendingBegin
<1>2. CASE FailNext
  <2>1. PICK n \in job.left : Begin("expire", job.by, job.left, Failures(n) \o <<Drop(n)>>)
    BY <1>2 DEF FailNext
  <2>2. n \in Name
    <3>1. job.left \subseteq Name
      BY <1>2 DEF FailNext, TypeOK, Job, NoJob
    <3> QED BY <3>1
  <2>3. PICK s : s = Failures(n) \o <<Drop(n)>>
    OBVIOUS
  <2>4. Failures(n) \in Seq(Call) /\ <<Drop(n)>> \in Seq(Call)
    BY <2>2, CallIntro, CallsForEntries, CallSequences
  <2>5. \A k : Lists(s, k) <=> Lists(Failures(n), k) \/ Lists(<<Drop(n)>>, k)
    BY <2>3, <2>4, ListsConcat
  <2>6. \A k : Lists(Failures(n), k) => k.call = "send"
    BY DEF Failures, Lists, Send
  <2>7. Drop(n).call = "drop"
    BY DEF Drop
  <2>8. \A k : Lists(s, k) => k.call \in {"send", "drop"}
    BY <2>5, <2>6, <2>7, ListsShort
  <2>9. phase \in {"idle", "round"} /\ UNCHANGED <<owners, pending>>
    BY <1>2 DEF FailNext, busVars
  <2> QED BY <2>1, <2>3, <2>8, <2>9, PendingBegin
<1> QED BY <1>1, <1>2

LEMMA PendingOutside ==
  ASSUME TypeOK, PendingInv, Outside
  PROVE  PendingInv'
<1>1. ASSUME NEW c \in Conn, HangUp(c)
      PROVE  PendingInv'
  <2>1. UNCHANGED <<owners, pending, hooks, before, todo, phase>>
    BY <1>1 DEF HangUp, txnVars
  <2> QED BY <2>1 DEF PendingInv, PendingRun, PendingRest, PutsBack, Followed, Due, Activating,
                      LinkFree, Lists
<1>2. ASSUME NEW c \in Conn, Hello(c)
      PROVE  PendingInv'
  BY <1>2, PendingHello
<1>3. ASSUME NEW c \in Conn, NEW n \in Name, NEW f \in Flags, RequestName(c, n, f)
      PROVE  PendingInv'
  BY <1>3, PendingRequest
<1>4. ASSUME NEW c \in Conn, NEW n \in Name, ReleaseName(c, n)
      PROVE  PendingInv'
  BY <1>4, PendingRelease
<1>5. ASSUME NEW c \in Conn, NEW n \in Name, NEW a \in BOOLEAN, Activate(c, n, a)
      PROVE  PendingInv'
  BY <1>5, PendingActivate
<1>6. ASSUME NEW n \in Name, ChildFails(n) \/ ChildExits(n)
      PROVE  PendingInv'
  BY <1>6, PendingEvents
<1> QED BY <1>1, <1>2, <1>3, <1>4, <1>5, <1>6 DEF Outside

LEMMA PendingExecution ==
  ASSUME TypeOK, PendingInv, SendMessage \/ DeliverMessage \/ FreeHook \/ EndExecute
  PROVE  PendingInv'
<1>1. CASE SendMessage
  <2>1. Calling("send") /\ Return /\ UNCHANGED <<phase, before, pending, hooks, owners>>
    BY <1>1 DEF SendMessage, busVars
  <2> QED BY <2>1, TableKept, PendingReturn
<1>2. CASE DeliverMessage \/ FreeHook
  <2>1. /\ phase = "run" /\ todo = <<>> /\ UNCHANGED <<phase, todo, before, pending, owners>>
        /\ UNCHANGED hooks \/ (hooks # <<>> /\ hooks' = Tail(hooks))
    BY <1>2 DEF DeliverMessage, FreeHook, Executing, busVars
  <2>2. TableShrinks
    BY <2>1, TableKept
  <2>3. \A n \in Name : pending'[n] # <<>> \/ PutsBack(n)' => before'[n] = <<>>
    BY <2>1, <2>2 DEF TableShrinks, PendingInv
  <2>4. PendingRun'
    BY <2>1 DEF PendingInv, PendingRun, PendingRest, Followed, Due, Activating, LinkFree, Lists
  <2> QED BY <2>1, <2>3, <2>4 DEF PendingInv
<1>3. CASE EndExecute
  <2>1. /\ phase = "run" /\ todo = <<>> /\ phase' \in {"idle", "round"}
        /\ UNCHANGED <<owners, pending>>
    BY <1>3 DEF EndExecute, Executing, Close, Rest, busVars
  <2>2. \A n : ~Due(todo, n)
    BY <2>1, ListsShort DEF Due
  <2>3. PendingRest
    BY <2>1, <2>2 DEF PendingInv, PendingRun, PendingRest
  <2> QED BY <2>1, <2>3, PendingQuiet
<1> QED BY <1>1, <1>2, <1>3

LEMMA PendingOutOfMemory ==
  ASSUME TypeOK, PendingInv, OutOfMemory, "down" \notin OomIn
  PROVE  PendingInv'
<1>1. phase = "run" /\ todo # <<>> /\ UNCHANGED <<before, hooks, owners>>
  BY DEF OutOfMemory, MayFail
<1>2. phase' = "cancel"
  BY NotAbandoned DEF OutOfMemory
<1>3. \A n \in Name : pending'[n] # <<>> => pending[n] # <<>>
  <2>1. CASE UNCHANGED pending
    BY <2>1
  <2>2. CASE Top.call = "register" /\ pending' = [pending EXCEPT ![Top.name] = <<>>]
    BY <2>2 DEF TypeOK
  <2> QED BY <2>1, <2>2 DEF OutOfMemory
<1>4. \A n \in Name : PutsBack(n)' => PutsBack(n)
  BY <1>1 DEF PutsBack, Lists
<1>5. \A n \in Name : pending'[n] # <<>> \/ PutsBack(n)' => before'[n] = <<>>
  BY <1>1, <1>3, <1>4 DEF PendingInv
<1> QED BY <1>2, <1>5 DEF PendingInv

(* The cancel hooks: what comes back was for names without owner. *)
LEMMA PendingUndo ==
  ASSUME TypeOK, PendingInv, UndoAddOwner \/ UndoActivate \/ UndoForget
  PROVE  PendingInv'
<1>1. PICK h : h = Head(hooks)
  OBVIOUS
<1>2. /\ phase = "cancel" /\ phase' = "cancel" /\ hooks # <<>> /\ hooks' = Tail(hooks)
      /\ UNCHANGED before
      /\ \/ UNCHANGED pending
         \/ h.hook = "cancel_pending" /\ pending' = [pending EXCEPT ![h.name] = <<>>]
         \/ h.hook = "restore_pending" /\ pending' = [pending EXCEPT ![h.name] = h.entries]
  BY <1>1 DEF UndoAddOwner, UndoActivate, UndoForget, Cancelling, registered
<1>3. h \in Hook /\ \A x : Lists(hooks, x) <=> x = h \/ Lists(hooks', x)
  BY <1>1, <1>2, ListsTail DEF TypeOK
<1>4. \A n \in Name : PutsBack(n)' => PutsBack(n)
  BY <1>3 DEF PutsBack, Lists
<1>5. ASSUME NEW n \in Name, pending'[n] # <<>>
      PROVE  pending[n] # <<>> \/ PutsBack(n)
  <2>1. CASE UNCHANGED pending
    BY <1>5, <2>1
  <2>2. CASE h.hook = "cancel_pending" /\ pending' = [pending EXCEPT ![h.name] = <<>>]
    BY <1>5, <2>2 DEF TypeOK
  <2>3. CASE h.hook = "restore_pending" /\ pending' = [pending EXCEPT ![h.name] = h.entries]
    <3>1. CASE h.name = n
      <4>1. pending'[n] = h.entries
        BY <2>3, <3>1 DEF TypeOK
      <4> QED BY <1>3, <1>5, <2>3, <3>1, <4>1 DEF PutsBack
    <3>2. CASE h.name # n
      BY <1>5, <2>3, <3>2 DEF TypeOK
    <3> QED BY <3>1, <3>2
  <2> QED BY <1>2, <2>1, <2>2, <2>3
<1>6. \A n \in Name : pending'[n] # <<>> \/ PutsBack(n)' => before'[n] = <<>>
  BY <1>2, <1>4, <1>5 DEF PendingInv
<1> QED BY <1>2, <1>6 DEF PendingInv

(* After a cancelled transaction the owned names are those of before. *)
LEMMA PendingCancelled ==
  ASSUME TypeOK, PendingInv, SignalInv, EndCancel
  PROVE  PendingInv'
<1>1. /\ phase = "cancel" /\ hooks = <<>> /\ phase' \in {"idle", "round"}
      /\ UNCHANGED <<owners, pending>>
  BY DEF EndCancel, Close, Rest, busVars
<1>2. \A n \in AnyName : First(owners[n]) = First(before[n])
  BY <1>1, CancelledHeads
<1>3. ASSUME NEW n \in Name, owners[n] # <<>>
      PROVE  pending[n] = <<>>
  <2>1. n \in AnyName
    BY DEF AnyName
  <2>2. First(owners[n]) \in Conn
    BY <1>3, <2>1, QueueType, FirstOf
  <2>3. before[n] # <<>>
    BY <1>2, <2>1, <2>2, ConnAssumption DEF First
  <2> QED BY <1>1, <2>3 DEF PendingInv
<1>4. PendingRest
  BY <1>3 DEF PendingRest
<1> QED BY <1>1, <1>4, PendingQuiet

LEMMA NextPending ==
  ASSUME TypeOK, TypeOK', SignalInv, PendingInv, Next, ~Halted',
         "down" \notin OomIn, Denied = {}
  PROVE  PendingInv'
<1>1. CASE Outside
  BY <1>1, PendingOutside
<1>2. CASE OutOfMemory
  BY <1>2, PendingOutOfMemory
<1>3. CASE \/ \E c \in Conn : Disconnected(c)
           \/ \E n \in Name : TimeOut(n)
  BY <1>3, PendingEvents
<1>4. CASE Handler
  <2>1. ~UndoRemoveOwner
    BY DEF UndoRemoveOwner, Halted
  <2>2. CASE SendMessage \/ DeliverMessage \/ FreeHook \/ EndExecute
    BY <2>2, PendingExecution
  <2>3. CASE RegistryCall \/ ActivationCall
    BY <2>3, PendingRegistry, PendingActivation
  <2>4. CASE UndoAddOwner \/ UndoActivate \/ UndoForget \/ EndCancel
    BY <2>4, PendingUndo, PendingCancelled
  <2>5. CASE DropLastName \/ FailNext
    BY <2>5, PendingRound
  <2>6. CASE ForgetClient \/ FailedAll
    BY <2>6, PendingEvents
  <2> QED BY <1>4, <2>1, <2>2, <2>3, <2>4, <2>5, <2>6 DEF Handler
<1> QED BY <1>1, <1>2, <1>3, <1>4 DEF Next

LEMMA InitPending == Init => PendingInv
BY DEF Init, PendingInv, PendingRest

LEMMA StutterPending ==
  ASSUME UNCHANGED vars, PendingInv
  PROVE  PendingInv'
<1>1. UNCHANGED <<owners, pending, hooks, before, todo, phase>>
  BY DEF vars, busVars, txnVars
<1> QED BY <1>1 DEF PendingInv, PendingRun, PendingRest, PutsBack, Followed, Due, Activating,
                    LinkFree, Lists

(* The invariant of activation, on top of that of the registry. *)
ActivationInv == RegistryInv /\ (~Halted => PendingInv)

LEMMA NextActivation ==
  ASSUME "down" \notin OomIn, Denied = {}
  PROVE  ActivationInv /\ [Next]_vars => ActivationInv'
<1> SUFFICES ASSUME ActivationInv, [Next]_vars PROVE ActivationInv'
  OBVIOUS
<1>1. RegistryInv /\ RegistryInv'
  BY NextRegistry DEF ActivationInv
<1>2. CASE Next
  <2>1. ~Halted
    BY <1>1, <1>2, QueueChanges DEF RegistryInv, QueueInv
  <2>2. TypeOK /\ TypeOK' /\ SignalInv /\ PendingInv
    BY <1>1, <2>1 DEF ActivationInv, RegistryInv, QueueInv
  <2> QED BY <1>1, <1>2, <2>2, NextPending DEF ActivationInv
<1>3. CASE UNCHANGED vars
  <2>1. Halted' <=> Halted
    BY <1>3 DEF vars, busVars, txnVars, Halted
  <2> QED BY <1>1, <1>3, <2>1, StutterPending DEF ActivationInv
<1> QED BY <1>2, <1>3

(* A name that has an owner has no pending activation.  When a client gets a
   name whose activation pends, the held messages are sent in the same
   transaction and the activation leaves the table; when that transaction is
   cancelled the activation comes back, but the queue is then what it was
   before, which is empty, because an activation pends only for a name that
   had no owner when the transaction began (bus_registry_acquire_service,
   bus_activation_send_pending_auto_activation_messages, restore_pending,
   cancel_pending).  Two things are assumed: no request of a client that has
   hung up runs out of memory, since its unfinished transaction would be
   executed (bus_dispatch), and the security policy rejects no held message,
   since the request then fails after its client was linked
   (bus_dispatch_matches). *)
THEOREM OwnedNamesDoNotPend ==
  ASSUME "down" \notin OomIn, Denied = {}
  PROVE  Spec => []NothingPendsOnOwnedNames
<1>1. Init => ActivationInv
  BY InitQueues, InitSignals, InitPending DEF ActivationInv, RegistryInv
<1>2. ActivationInv /\ [Next]_vars => ActivationInv'
  BY NextActivation
<1>3. ActivationInv => NothingPendsOnOwnedNames
  BY DEF ActivationInv, PendingInv, PendingRest, NothingPendsOnOwnedNames, Idle, Halted
<1> QED BY <1>1, <1>2, <1>3, PTL DEF Spec

-----------------------------------------------------------------------------
(* Queues with a head and a rest.                                          *)

(* Every queue that is not empty is one. *)
LEMMA HeadAndRest ==
  ASSUME NEW q \in Seq(Owner), q # <<>>
  PROVE  /\ q = <<q[1]>> \o Tail(q)
         /\ q[1] \in Owner /\ Tail(q) \in Seq(Owner) /\ First(q) = q[1].conn
<1> DEFINE t == Tail(q)
           h == q[1]
           r == <<h>> \o t
           n == Len(q)
<1>1. n \in Nat /\ n >= 1 /\ DOMAIN q = 1..n /\ h \in Owner /\ First(q) = h.conn
  BY FirstOf, ElementOfSeq, LenProperties
<1>2. t \in Seq(Owner) /\ Len(t) = n - 1 /\ \A j \in 1..(n - 1) : t[j] = q[j + 1]
  BY HeadTailProperties
<1> HIDE DEF t, h, n
<1>3. /\ r \in Seq(Owner) /\ Len(r) = Len(t) + 1 /\ r[1] = h
      /\ \A j \in 1..Len(t) : r[j + 1] = t[j]
  BY <1>1, <1>2, ConsProperties
<1> HIDE DEF r
<1>4. Len(r) = n
  BY <1>1, <1>2, <1>3
<1>5. ASSUME NEW i \in 1..n
      PROVE  r[i] = q[i]
  <2>1. CASE i = 1
    BY <1>3, <2>1 DEF h
  <2>2. CASE i # 1
    <3>1. i - 1 \in 1..(n - 1) /\ (i - 1) + 1 = i
      BY <1>1, <2>2
    <3>2. r[(i - 1) + 1] = t[i - 1] /\ t[i - 1] = q[(i - 1) + 1]
      BY <1>2, <1>3, <3>1
    <3> QED BY <3>1, <3>2
  <2> QED BY <2>1, <2>2
<1>6. r = q
  <2>1. Len(r) = Len(q) /\ \A i \in 1..Len(r) : r[i] = q[i]
    BY <1>4, <1>5 DEF n
  <2> QED BY <1>3, <2>1, SeqEqual
<1> QED BY <1>1, <1>2, <1>6 DEF r, t, h

(* Who waits behind a head. *)
LEMMA BehindHead ==
  ASSUME NEW h \in Owner, NEW t \in Seq(Owner), NoTwice(<<h>> \o t)
  PROVE  /\ \A c : Queued(<<h>> \o t, c) <=> h.conn = c \/ Queued(t, c)
         /\ NoTwice(t) /\ ~Queued(t, h.conn)
<1> DEFINE r == <<h>> \o t
<1>1. /\ r \in Seq(Owner) /\ Len(r) = Len(t) + 1 /\ r[1] = h
      /\ \A j \in 1..Len(t) : r[j + 1] = t[j]
  BY ConsProperties
<1> HIDE DEF r
<1>2. Len(t) \in Nat /\ DOMAIN t = 1..Len(t) /\ DOMAIN r = 1..Len(r)
  BY <1>1, LenProperties
<1>3. ASSUME NEW c
      PROVE  Queued(r, c) <=> h.conn = c \/ Queued(t, c)
  <2>1. ASSUME Queued(r, c), h.conn # c
        PROVE  Queued(t, c)
    <3>1. PICK i \in 1..Len(r) : r[i].conn = c
      BY <1>2, <2>1 DEF Queued
    <3>2. i # 1
      BY <1>1, <2>1, <3>1
    <3>3. i - 1 \in 1..Len(t) /\ (i - 1) + 1 = i
      BY <1>1, <1>2, <3>2
    <3>4. t[i - 1].conn = c
      BY <1>1, <3>1, <3>3
    <3> QED BY <1>2, <3>3, <3>4 DEF Queued
  <2>2. ASSUME h.conn = c
        PROVE  Queued(r, c)
    BY <1>1, <1>2, <2>2 DEF Queued
  <2>3. ASSUME Queued(t, c)
        PROVE  Queued(r, c)
    <3>1. PICK j \in 1..Len(t) : t[j].conn = c
      BY <1>2, <2>3 DEF Queued
    <3>2. j + 1 \in 1..Len(r) /\ r[j + 1].conn = c
      BY <1>1, <1>2, <3>1
    <3> QED BY <1>2, <3>2 DEF Queued
  <2> QED BY <2>1, <2>2, <2>3
<1>4. ASSUME NEW i \in 1..Len(t), NEW j \in 1..Len(t), t[i].conn = t[j].conn
      PROVE  i = j
  <2>1. i + 1 \in 1..Len(r) /\ j + 1 \in 1..Len(r) /\ r[i + 1].conn = r[j + 1].conn
    BY <1>1, <1>2, <1>4
  <2>2. i + 1 = j + 1
    BY <1>2, <2>1 DEF NoTwice, r
  <2> QED BY <2>2
<1>5. ~Queued(t, h.conn)
  <2>1. ASSUME NEW j \in 1..Len(t), t[j].conn = h.conn
        PROVE  FALSE
    <3>1. j + 1 \in 1..Len(r) /\ 1 \in 1..Len(r) /\ r[j + 1].conn = r[1].conn /\ j + 1 # 1
      BY <1>1, <1>2, <2>1
    <3> QED BY <1>2, <3>1 DEF NoTwice, r
  <2> QED BY <1>2, <2>1 DEF Queued
<1> QED BY <1>2, <1>3, <1>4, <1>5 DEF NoTwice, r

(* The head leaves, or one behind it. *)
LEMMA WithoutHead ==
  ASSUME NEW h \in Owner, NEW t \in Seq(Owner), NoTwice(<<h>> \o t)
  PROVE  /\ Without(<<h>> \o t, h.conn) = t
         /\ \A c : c # h.conn => Without(<<h>> \o t, c) = <<h>> \o Without(t, c)
<1> DEFINE r == <<h>> \o t
           n == Len(t)
<1>1. /\ r \in Seq(Owner) /\ Len(r) = n + 1 /\ r[1] = h
      /\ \A j \in 1..n : r[j + 1] = t[j]
  BY ConsProperties
<1>2. /\ \A c : Queued(r, c) <=> h.conn = c \/ Queued(t, c)
      /\ NoTwice(t) /\ ~Queued(t, h.conn) /\ NoTwice(r)
  BY BehindHead
<1>3. n \in Nat /\ DOMAIN t = 1..n /\ Len(r) \in Nat /\ DOMAIN r = 1..Len(r)
  BY <1>1, LenProperties
<1> HIDE DEF r, n
<1>4. Without(r, h.conn) = t
  <2> DEFINE p == Place(r, h.conn)
             w == RemoveAt(r, p)
  <2>1. p \in 1..Len(r) /\ r[p].conn = h.conn
    BY <1>2, <1>3 DEF Queued, Place
  <2>2. p = 1
    <3>1. 1 \in 1..Len(r)
      BY <1>1, <1>3
    <3> QED BY <1>1, <1>2, <1>3, <2>1, <3>1 DEF NoTwice
  <2> HIDE DEF p
  <2>3. /\ w \in Seq(Owner) /\ Len(w) = Len(r) - 1
        /\ \A j \in 1..(Len(r) - 1) : w[j] = IF j < p THEN r[j] ELSE r[j + 1]
    BY <1>1, <2>1, RemoveAtProperties
  <2>4. Without(r, h.conn) = w
    BY <1>2 DEF Without, w, p
  <2> HIDE DEF w
  <2>5. Len(w) = n /\ \A j \in 1..n : w[j] = t[j]
    BY <1>1, <1>3, <2>2, <2>3
  <2>6. Len(w) = Len(t) /\ \A j \in 1..Len(w) : w[j] = t[j]
    BY <2>5 DEF n
  <2> QED BY <2>3, <2>4, <2>6, SeqEqual
<1>5. ASSUME NEW c, c # h.conn
      PROVE  Without(r, c) = <<h>> \o Without(t, c)
  <2>1. CASE ~Queued(t, c)
    BY <1>2, <1>5, <2>1 DEF Without, r
  <2>2. CASE Queued(t, c)
    <3> DEFINE p == Place(r, c)
               i == Place(t, c)
               w == RemoveAt(r, p)
               v == RemoveAt(t, i)
               u == <<h>> \o v
    <3>1. p \in 1..Len(r) /\ r[p].conn = c /\ i \in 1..n /\ t[i].conn = c
      BY <1>2, <1>3, <2>2 DEF Queued, Place
    <3>2. p = i + 1
      <4>1. i + 1 \in 1..Len(r) /\ r[i + 1].conn = c
        BY <1>1, <1>3, <3>1
      <4> QED BY <1>2, <1>3, <3>1, <4>1 DEF NoTwice
    <3>3. Without(r, c) = w /\ Without(t, c) = v
      BY <1>2, <2>2 DEF Without
    <3> HIDE DEF p, i
    <3>4. /\ w \in Seq(Owner) /\ Len(w) = Len(r) - 1
          /\ \A j \in 1..(Len(r) - 1) : w[j] = IF j < p THEN r[j] ELSE r[j + 1]
      BY <1>1, <3>1, RemoveAtProperties
    <3>5. /\ v \in Seq(Owner) /\ Len(v) = n - 1
          /\ \A j \in 1..(n - 1) : v[j] = IF j < i THEN t[j] ELSE t[j + 1]
      BY <3>1, RemoveAtProperties DEF n
    <3> HIDE DEF v
    <3>6. /\ u \in Seq(Owner) /\ Len(u) = Len(v) + 1 /\ u[1] = h
          /\ \A j \in 1..Len(v) : u[j + 1] = v[j]
      BY <3>5, ConsProperties
    <3> HIDE DEF u, w
    <3>7. n >= 1 /\ Len(w) = n /\ Len(u) = n
      BY <1>1, <1>3, <3>1, <3>4, <3>5, <3>6
    <3>8. ASSUME NEW j \in 1..n
          PROVE  w[j] = u[j]
      <4>1. CASE j = 1
        <5>1. w[1] = r[1]
          BY <1>1, <1>3, <3>1, <3>2, <3>4, <3>7
        <5> QED BY <1>1, <3>6, <4>1, <5>1
      <4>2. CASE j # 1
        <5>1. PICK k \in 1..(n - 1) : j = k + 1
          <6>1. j - 1 \in 1..(n - 1) /\ j = (j - 1) + 1
            BY <1>3, <4>2
          <6> QED BY <6>1
        <5>2. u[j] = IF k < i THEN t[k] ELSE t[k + 1]
          BY <1>3, <3>5, <3>6, <5>1
        <5>3. w[j] = IF k < i THEN r[k + 1] ELSE r[(k + 1) + 1]
          BY <1>1, <1>3, <3>1, <3>2, <3>4, <5>1
        <5>4. k \in 1..n /\ k + 1 \in 1..n
          BY <1>3, <5>1
        <5>5. r[k + 1] = t[k] /\ r[(k + 1) + 1] = t[k + 1]
          BY <1>1, <5>4
        <5> QED BY <5>2, <5>3, <5>5
      <4> QED BY <4>1, <4>2
    <3>9. w = u
      <4>1. Len(w) = Len(u) /\ \A j \in 1..Len(w) : w[j] = u[j]
        BY <3>7, <3>8
      <4> QED BY <3>4, <3>6, <4>1, SeqEqual
    <3> QED BY <3>3, <3>9 DEF u, r
  <2> QED BY <2>1, <2>2
<1> QED BY <1>4, <1>5 DEF r

(* A head and a rest. *)
LEMMA HeadJoined ==
  ASSUME NEW h \in Owner, NEW t \in Seq(Owner)
  PROVE  LET r == <<h>> \o t IN
         /\ r \in Seq(Owner) /\ r # <<>> /\ r[1] = h /\ Tail(r) = t
         /\ \A j \in 1..Len(t) : r[j + 1] = t[j]
         /\ Len(t) \in Nat /\ Len(r) = Len(t) + 1 /\ DOMAIN r = 1..(Len(t) + 1)
<1> DEFINE r == <<h>> \o t
<1>1. r \in Seq(Owner) /\ Len(r) = Len(t) + 1 /\ r[1] = h /\ \A j \in 1..Len(t) : r[j + 1] = t[j]
  BY ConsProperties
<1>2. Tail(r) = t /\ r # <<>>
  BY HeadTailConcat
<1> HIDE DEF r
<1>3. Len(t) \in Nat /\ DOMAIN r = 1..Len(r)
  BY <1>1, LenProperties
<1> QED BY <1>1, <1>2, <1>3 DEF r

(* A new owner at the second place. *)
LEMMA SecondInHead ==
  ASSUME NEW h \in Owner, NEW t \in Seq(Owner), NEW o \in Owner
  PROVE  SecondIn(<<h>> \o t, o) = <<h>> \o (<<o>> \o t)
<1> DEFINE v == <<h>> \o t
           m == <<o>> \o t
           u == <<h>> \o m
           w == InsertAt(v, 2, o)
           n == Len(t)
<1>1. /\ n \in Nat /\ v \in Seq(Owner) /\ Len(v) = n + 1 /\ v[1] = h /\ v # <<>>
      /\ \A j \in 1..n : v[j + 1] = t[j]
  BY HeadJoined
<1>2. /\ m \in Seq(Owner) /\ Len(m) = n + 1 /\ m[1] = o
      /\ \A j \in 1..n : m[j + 1] = t[j]
  BY HeadJoined
<1> HIDE DEF n, m
<1>3. /\ u \in Seq(Owner) /\ Len(u) = Len(m) + 1 /\ u[1] = h
      /\ \A j \in 1..Len(m) : u[j + 1] = m[j]
  BY <1>2, HeadJoined
<1>4. SecondIn(v, o) = w
  BY <1>1 DEF SecondIn
<1> HIDE DEF v, u
<1>5. v \in Seq(Owner) /\ 2 \in 1..(Len(v) + 1)
  BY <1>1
<1>6. /\ w \in Seq(Owner) /\ Len(w) = Len(v) + 1
      /\ \A i \in 1..(Len(v) + 1) : w[i] = IF i < 2 THEN v[i] ELSE IF i = 2 THEN o ELSE v[i - 1]
  BY <1>5, InsertAtProperties
<1> HIDE DEF w
<1>7. ASSUME NEW i \in 1..(n + 2)
      PROVE  w[i] = u[i]
  <2>1. CASE i = 1
    BY <1>1, <1>3, <1>6, <2>1
  <2>2. CASE i = 2
    <3>1. 1 \in 1..Len(m) /\ 1 + 1 = 2
      BY <1>1, <1>2
    <3>2. u[2] = o
      BY <1>2, <1>3, <3>1
    <3> QED BY <1>1, <1>6, <2>2, <3>2
  <2>3. CASE i > 2
    <3>1. PICK j \in 1..n : i = j + 2
      <4>1. i - 2 \in 1..n /\ i = (i - 2) + 2
        BY <1>1, <2>3
      <4> QED BY <4>1
    <3>2. /\ j + 1 \in 1..Len(m) /\ (j + 1) + 1 = i /\ i - 1 = j + 1
          /\ i \in 1..(Len(v) + 1) /\ ~(i < 2) /\ i # 2
      BY <1>1, <1>2, <2>3, <3>1
    <3>3. w[i] = v[i - 1]
      BY <1>6, <3>2
    <3>4. w[i] = t[j]
      BY <1>1, <3>2, <3>3
    <3>5. u[i] = m[j + 1]
      BY <1>3, <3>2
    <3> QED BY <1>2, <3>4, <3>5
  <2> QED BY <1>1, <2>1, <2>2, <2>3
<1>8. Len(w) = Len(u) /\ \A i \in 1..Len(w) : w[i] = u[i]
  <2>1. Len(w) = n + 2 /\ Len(u) = n + 2
    BY <1>1, <1>2, <1>3, <1>6
  <2> QED BY <1>7, <2>1
<1>9. w = u
  BY <1>3, <1>6, <1>8, SeqEqual
<1> QED BY <1>4, <1>9 DEF v, u, m

(* The first two exchanged. *)
LEMMA SwappedHead ==
  ASSUME NEW h \in Owner, NEW t \in Seq(Owner), NEW o \in Owner
  PROVE  Swapped(<<h>> \o (<<o>> \o t)) = <<o>> \o (<<h>> \o t)
<1> DEFINE m == <<o>> \o t
           r == <<h>> \o m
<1>1. m \in Seq(Owner) /\ SecondIn(m, h) = <<o>> \o (<<h>> \o t)
  BY HeadJoined, SecondInHead
<1> HIDE DEF m
<1>2. r # <<>> /\ r[1] = h /\ Tail(r) = m
  BY <1>1, HeadJoined
<1> HIDE DEF r
<1>3. Swapped(r) = SecondIn(m, h)
  BY <1>2 DEF Swapped
<1> QED BY <1>1, <1>3 DEF r, m

(* Another head. *)
LEMMA HeadReplaced ==
  ASSUME NEW h \in Owner, NEW t \in Seq(Owner), NEW o \in Owner
  PROVE  [(<<h>> \o t) EXCEPT ![1] = o] = <<o>> \o t
<1> DEFINE r == <<h>> \o t
           u == <<o>> \o t
           w == [r EXCEPT ![1] = o]
           n == Len(t)
<1>1. /\ n \in Nat /\ r \in Seq(Owner) /\ DOMAIN r = 1..(n + 1) /\ Len(r) = n + 1
      /\ \A j \in 1..n : r[j + 1] = t[j]
  BY HeadJoined
<1>2. /\ u \in Seq(Owner) /\ Len(u) = n + 1 /\ u[1] = o
      /\ \A j \in 1..n : u[j + 1] = t[j]
  BY HeadJoined
<1> HIDE DEF r, u, n
<1>3. w \in Seq(Owner) /\ Len(w) = n + 1
  BY <1>1
<1>4. ASSUME NEW i \in 1..(n + 1)
      PROVE  w[i] = u[i]
  <2>1. CASE i = 1
    BY <1>1, <1>2, <2>1
  <2>2. CASE i # 1
    <3>1. i - 1 \in 1..n /\ (i - 1) + 1 = i
      BY <1>1, <2>2
    <3>2. r[(i - 1) + 1] = t[i - 1] /\ u[(i - 1) + 1] = t[i - 1]
      BY <1>1, <1>2, <3>1
    <3>3. w[i] = r[i]
      BY <1>1, <2>2
    <3> QED BY <3>1, <3>2, <3>3
  <2> QED BY <2>1, <2>2
<1> HIDE DEF w
<1>5. Len(w) = Len(u) /\ \A i \in 1..Len(w) : w[i] = u[i]
  BY <1>2, <1>3, <1>4
<1>6. w = u
  BY <1>2, <1>3, <1>5, SeqEqual
<1> QED BY <1>6 DEF w, r, u

(* NameQueue speaks of queues as the daemon's operators do. *)
LEMMA SameWithout ==
  ASSUME NEW q \in Seq(Owner), NEW c
  PROVE  Queues!Without(q, c) = Without(q, c) /\ (Queues!In(q, c) <=> Queued(q, c))
<1>1. Queues!In(q, c) <=> Queued(q, c)
  BY DEF Queues!In, Queued
<1> QED BY <1>1 DEF Queues!Without, Without, Place, Queues!RemoveAt, RemoveAt

(* What the parts of a request make of a queue is what NameQueue makes of it
   at once (bus_registry_acquire_service). *)
LEMMA AskedQueue ==
  ASSUME NEW q \in Seq(Owner), NoTwice(q), NEW c \in Conn, NEW f \in AllFlags
  PROVE  LET r == Queues!Asked(q, c, f) IN
         /\ q = <<>> => Linked(q, c, f) = r
         /\ First(q) = c => [q EXCEPT ![1] = OwnerOf(c, f)] = r
         /\ q # <<>> /\ First(q) # c /\ ~(f.replace /\ q[1].allow) =>
              r = IF f.noqueue THEN Without(q, c) ELSE Linked(q, c, f)
         /\ q # <<>> /\ First(q) # c /\ f.replace /\ q[1].allow =>
              r = IF q[1].noqueue THEN Without(Linked(q, c, f), First(q))
                                  ELSE Swapped(Linked(q, c, f))
<1> DEFINE o == OwnerOf(c, f)
           r == Queues!Asked(q, c, f)
<1>0. o \in Owner /\ o.conn = c /\ c # NoOne
  BY OwnerOfType, ConnAssumption
<1>1. r = IF q = <<>> \/ q[1].conn = c
            THEN <<o>> \o (IF q = <<>> THEN <<>> ELSE Tail(q))
          ELSE IF f.replace /\ q[1].allow
            THEN (<<o>> \o (IF q[1].noqueue THEN <<>> ELSE <<q[1]>>)) \o Queues!Without(Tail(q), c)
          ELSE IF f.noqueue
            THEN <<q[1]>> \o Queues!Without(Tail(q), c)
          ELSE IF f.replace
            THEN (<<q[1]>> \o <<o>>) \o Queues!Without(Tail(q), c)
          ELSE IF Queued(q, c)
            THEN [i \in DOMAIN q |-> IF q[i].conn = c THEN o ELSE q[i]]
          ELSE q \o <<o>>
  BY SameWithout DEF Queues!Asked, Queues!Owner, OwnerOf
<1> HIDE DEF r, o
<1>2. CASE q = <<>>
  <2>1. r = <<o>> \o <<>>
    BY <1>1, <1>2
  <2>2. <<o>> \in Seq(Owner) /\ <<o>> \o <<>> = <<o>>
    BY <1>0, ConcatEmptySeq
  <2>3. ~Queued(q, c) /\ First(q) = NoOne
    BY <1>2, FirstOf
  <2>4. Linked(q, c, f) = <<o>>
    BY <1>2, <2>3 DEF Linked, SecondIn, o
  <2> QED BY <1>0, <1>2, <2>1, <2>2, <2>3, <2>4 DEF r
<1>3. CASE q # <<>>
  <2> DEFINE h == q[1]
             t == Tail(q)
             w == Without(t, c)
             l == Linked(q, c, f)
  <2>1. q = <<h>> \o t /\ h \in Owner /\ t \in Seq(Owner) /\ First(q) = h.conn
    BY <1>3, HeadAndRest
  <2>2. NoTwice(<<h>> \o t)
    BY <2>1
  <2> HIDE DEF h, t
  <2>3. /\ Queued(q, c) <=> h.conn = c \/ Queued(t, c)
        /\ NoTwice(t) /\ ~Queued(t, h.conn)
    BY <2>1, <2>2, BehindHead
  <2>4. w \in Seq(Owner) /\ NoTwice(w) /\ ~Queued(w, c)
    BY <2>1, <2>3, WithoutProperties
  <2>5. Queues!Without(t, c) = w
    BY <2>1, SameWithout
  <2> HIDE DEF w
  <2>6. r = IF h.conn = c THEN <<o>> \o t
            ELSE IF f.replace /\ h.allow
              THEN (<<o>> \o (IF h.noqueue THEN <<>> ELSE <<h>>)) \o w
            ELSE IF f.noqueue THEN <<h>> \o w
            ELSE IF f.replace THEN (<<h>> \o <<o>>) \o w
            ELSE IF Queued(q, c)
              THEN [i \in DOMAIN q |-> IF q[i].conn = c THEN o ELSE q[i]]
            ELSE q \o <<o>>
    BY <1>1, <1>3, <2>5 DEF h, t
  <2>7. ASSUME h.conn = c
        PROVE  [q EXCEPT ![1] = o] = r
    <3>1. r = <<o>> \o t
      BY <2>6, <2>7
    <3> QED BY <1>0, <2>1, <3>1, HeadReplaced
  <2>8. ASSUME h.conn # c
        PROVE  /\ Without(q, c) = <<h>> \o w
               /\ f.replace => l = <<h>> \o (<<o>> \o w)
    <3>1. Without(q, c) = <<h>> \o w
      BY <2>1, <2>2, <2>8, WithoutHead DEF w
    <3>2. f.replace => l = SecondIn(Without(q, c), o)
      BY DEF Linked, Without, o
    <3>3. SecondIn(<<h>> \o w, o) = <<h>> \o (<<o>> \o w)
      BY <1>0, <2>1, <2>4, SecondInHead
    <3> HIDE DEF l
    <3> QED BY <3>1, <3>2, <3>3
  <2> HIDE DEF l
  <2>9. ASSUME h.conn # c, ~(f.replace /\ h.allow)
        PROVE  r = IF f.noqueue THEN Without(q, c) ELSE l
    <3>1. CASE f.noqueue
      BY <2>6, <2>8, <2>9, <3>1
    <3>2. CASE ~f.noqueue /\ f.replace
      <4>1. r = (<<h>> \o <<o>>) \o w
        BY <2>6, <2>9, <3>2
      <4>2. <<h>> \in Seq(Owner) /\ <<o>> \in Seq(Owner)
        BY <1>0, <2>1
      <4>3. r = <<h>> \o (<<o>> \o w)
        BY <2>4, <4>1, <4>2, ConcatAssociative
      <4> QED BY <2>8, <2>9, <3>2, <4>3
    <3>3. CASE ~f.noqueue /\ ~f.replace /\ ~Queued(q, c)
      <4>1. r = q \o <<o>>
        BY <2>6, <2>9, <3>3, <2>3
      <4>2. Append(q, o) = q \o <<o>>
        BY <1>0, AppendIsConcat
      <4>3. l = Append(q, o)
        BY <3>3 DEF l, Linked, o
      <4> QED BY <3>3, <4>1, <4>2, <4>3
    <3>4. CASE ~f.noqueue /\ ~f.replace /\ Queued(q, c)
      <4>1. r = [i \in DOMAIN q |-> IF q[i].conn = c THEN o ELSE q[i]]
        BY <2>6, <2>9, <3>4
      <4>2. l = [q EXCEPT ![Place(q, c)] = o]
        BY <3>4 DEF l, Linked, o
      <4>3. Place(q, c) \in DOMAIN q /\ q[Place(q, c)].conn = c
        BY <3>4 DEF Queued, Place
      <4>4. \A i \in DOMAIN q : q[i].conn = c <=> i = Place(q, c)
        BY <4>3 DEF NoTwice
      <4> HIDE DEF r
      <4>5. r = [i \in DOMAIN q |-> IF i = Place(q, c) THEN o ELSE q[i]]
        BY <4>1, <4>4
      <4>6. l = [i \in DOMAIN q |-> IF i = Place(q, c) THEN o ELSE q[i]]
        BY <4>2
      <4> QED BY <3>4, <4>5, <4>6
    <3> QED BY <3>1, <3>2, <3>3, <3>4
  <2>10. ASSUME h.conn # c, f.replace, h.allow
         PROVE  r = IF h.noqueue THEN Without(l, h.conn) ELSE Swapped(l)
    <3>1. l = <<h>> \o (<<o>> \o w)
      BY <2>8, <2>10
    <3>2. <<o>> \o w \in Seq(Owner)
      BY <1>0, <2>4, HeadJoined
    <3>3. l \in Seq(Owner) /\ NoTwice(l)
      BY <2>1, <2>10, LinkedProperties DEF l
    <3>4. CASE h.noqueue
      <4>1. r = (<<o>> \o <<>>) \o w
        BY <2>6, <2>10, <3>4
      <4>2. <<o>> \in Seq(Owner) /\ <<o>> \o <<>> = <<o>>
        BY <1>0, ConcatEmptySeq
      <4>3. NoTwice(<<h>> \o (<<o>> \o w))
        BY <3>1, <3>3
      <4>4. Without(<<h>> \o (<<o>> \o w), h.conn) = <<o>> \o w
        BY <2>1, <3>2, <4>3, WithoutHead
      <4> QED BY <3>1, <3>4, <4>1, <4>2, <4>4
    <3>5. CASE ~h.noqueue
      <4>1. r = (<<o>> \o <<h>>) \o w
        BY <2>6, <2>10, <3>5
      <4>2. <<h>> \in Seq(Owner) /\ <<o>> \in Seq(Owner)
        BY <1>0, <2>1
      <4>3. r = <<o>> \o (<<h>> \o w)
        BY <2>4, <4>1, <4>2, ConcatAssociative
      <4>4. Swapped(<<h>> \o (<<o>> \o w)) = <<o>> \o (<<h>> \o w)
        BY <1>0, <2>1, <2>4, SwappedHead
      <4> QED BY <3>1, <3>5, <4>3, <4>4
    <3> QED BY <3>4, <3>5
  <2> QED BY <1>3, <2>1, <2>7, <2>9, <2>10 DEF r, o, l, h
<1> QED BY <1>2, <1>3 DEF r, o

(* No call of a sequence changes a queue. *)
Quiet(s) == \A k : Lists(s, k) => k.call \notin OwnerCalls

(* The calls still to be made take the queues from owners to p. *)
Leads(p) ==
  \/ Quiet(todo) /\ p = owners
  \/ \E a \in Seq(Call), k \in Call, b \in Seq(Call) :
       /\ todo = a \o (<<k>> \o b) /\ Quiet(a) /\ Quiet(b)
       /\ k.call \in OwnerCalls
       /\ p = After(k, owners)
  \/ \E l \in Call, k \in Call, b \in Seq(Call) :
       /\ todo = <<l>> \o (<<k>> \o b) /\ Quiet(b)
       /\ l.call = "link_owner" /\ k.call \in {"remove_owner", "swap_owner"}
       /\ p = After(k, After(l, owners))

LEMMA QuietSequences ==
  /\ Quiet(<<>>)
  /\ \A x : x.call \notin OwnerCalls <=> Quiet(<<x>>)
  /\ \A a, b \in Seq(Call) : Quiet(a) /\ Quiet(b) => Quiet(a \o b)
  /\ \A a \in Seq(Call) : a # <<>> /\ Quiet(a) => Head(a).call \notin OwnerCalls /\ Quiet(Tail(a))
  /\ \A a : AllPlain(a) \/ AllEarly(a) => Quiet(a)
<1>1. Quiet(<<>>) /\ \A x : x.call \notin OwnerCalls <=> Quiet(<<x>>)
  BY ListsShort DEF Quiet
<1>2. \A a, b \in Seq(Call) : Quiet(a) /\ Quiet(b) => Quiet(a \o b)
  BY ListsConcat DEF Quiet
<1>3. ASSUME NEW a \in Seq(Call), a # <<>>, Quiet(a)
      PROVE  Head(a).call \notin OwnerCalls /\ Quiet(Tail(a))
  <2>1. \A x : Lists(a, x) <=> x = Head(a) \/ Lists(Tail(a), x)
    BY <1>3, ListsTail
  <2> QED BY <1>3, <2>1 DEF Quiet
<1>4. \A a : AllPlain(a) \/ AllEarly(a) => Quiet(a)
  BY DEF AllPlain, Plain, AllEarly, Early, Quiet, OwnerCalls, Removal
<1> QED BY <1>1, <1>2, <1>3, <1>4

(* The last form of Leads, by the next call. *)
LEMMA LeadsOther ==
  ASSUME TypeOK, NEW f, Calling(f), f \notin OwnerCalls, NEW p, Leads(p)
  PROVE  \/ Quiet(todo) /\ p = owners /\ Quiet(Tail(todo))
         \/ \E a \in Seq(Call), k \in Call, b \in Seq(Call) :
              /\ Tail(todo) = a \o (<<k>> \o b) /\ Quiet(a) /\ Quiet(b)
              /\ k.call \in OwnerCalls
              /\ p = After(k, owners)
<1>1. todo \in Seq(Call) /\ todo # <<>> /\ Head(todo).call \notin OwnerCalls
  BY TopOf
<1>2. \A k \in Call, b \in Seq(Call) : todo = <<k>> \o b => k.call \notin OwnerCalls
  BY <1>1, HeadTailConcat
<1>3. CASE Quiet(todo) /\ p = owners
  BY <1>1, <1>3, QuietSequences
<1>4. ASSUME NEW a \in Seq(Call), NEW k \in Call, NEW b \in Seq(Call),
             todo = a \o (<<k>> \o b), Quiet(a), Quiet(b), k.call \in OwnerCalls,
             p = After(k, owners)
      PROVE  /\ Tail(a) \in Seq(Call) /\ Quiet(Tail(a))
             /\ Tail(todo) = Tail(a) \o (<<k>> \o b)
  <2>1. <<k>> \o b \in Seq(Call)
    BY ListsCons
  <2>2. a # <<>>
    <3>1. ASSUME a = <<>> PROVE FALSE
      <4>1. todo = <<k>> \o b
        BY <1>4, <2>1, <3>1, ConcatEmptySeq
      <4> QED BY <1>2, <1>4, <4>1
    <3> QED BY <3>1
  <2>3. Tail(todo) = Tail(a) \o (<<k>> \o b)
    BY <1>4, <2>1, <2>2, HeadTailConcat
  <2>4. Tail(a) \in Seq(Call) /\ Quiet(Tail(a))
    BY <1>4, <2>2, ListsTail, QuietSequences
  <2> QED BY <2>3, <2>4
<1>5. ASSUME NEW l \in Call, NEW k \in Call, NEW b \in Seq(Call),
             todo = <<l>> \o (<<k>> \o b), l.call = "link_owner"
      PROVE  FALSE
  <2>1. <<k>> \o b \in Seq(Call)
    BY ListsCons
  <2> QED BY <1>2, <1>5, <2>1 DEF OwnerCalls
<1>6. CASE \E a \in Seq(Call), k \in Call, b \in Seq(Call) :
             /\ todo = a \o (<<k>> \o b) /\ Quiet(a) /\ Quiet(b)
             /\ k.call \in OwnerCalls
             /\ p = After(k, owners)
  <2>1. PICK a \in Seq(Call), k \in Call, b \in Seq(Call) :
             /\ todo = a \o (<<k>> \o b) /\ Quiet(a) /\ Quiet(b)
             /\ k.call \in OwnerCalls
             /\ p = After(k, owners)
    BY <1>6
  <2>2. /\ Tail(a) \in Seq(Call) /\ Quiet(Tail(a))
        /\ Tail(todo) = Tail(a) \o (<<k>> \o b)
    BY <1>4, <2>1
  <2> QED BY <2>1, <2>2
<1> QED BY <1>3, <1>5, <1>6 DEF Leads

LEMMA LeadsOwner ==
  ASSUME TypeOK, NEW f, Calling(f), f \in OwnerCalls, NEW p, Leads(p)
  PROVE  \/ Quiet(Tail(todo)) /\ p = After(Top, owners)
         \/ /\ f = "link_owner"
            /\ \E k \in Call, b \in Seq(Call) :
                 /\ Tail(todo) = <<k>> \o b /\ Quiet(b)
                 /\ k.call \in OwnerCalls
                 /\ p = After(k, After(Top, owners))
<1>1. /\ todo \in Seq(Call) /\ todo # <<>> /\ Head(todo).call \in OwnerCalls
      /\ Top = Head(todo) /\ Top.call = f
  BY TopOf
<1>2. \A k \in Call, b \in Seq(Call) : todo = <<k>> \o b => k = Top /\ b = Tail(todo)
  <2>1. \A k \in Call, b \in Seq(Call) : Head(<<k>> \o b) = k /\ Tail(<<k>> \o b) = b
    BY HeadTailConcat
  <2> QED BY <1>1, <2>1
<1>3. ~Quiet(todo)
  BY <1>1, QuietSequences
<1>4. ASSUME NEW a \in Seq(Call), NEW k \in Call, NEW b \in Seq(Call),
             todo = a \o (<<k>> \o b), Quiet(a)
      PROVE  k = Top /\ b = Tail(todo)
  <2>1. <<k>> \o b \in Seq(Call)
    BY ListsCons
  <2>2. a = <<>>
    <3>1. ASSUME a # <<>> PROVE FALSE
      <4>1. Head(todo) = Head(a)
        BY <1>4, <2>1, <3>1, HeadTailConcat
      <4> QED BY <1>1, <1>4, <3>1, <4>1, QuietSequences
    <3> QED BY <3>1
  <2>3. todo = <<k>> \o b
    BY <1>4, <2>1, <2>2, ConcatEmptySeq
  <2> QED BY <1>2, <2>3
<1>5. ASSUME NEW l \in Call, NEW k \in Call, NEW b \in Seq(Call), todo = <<l>> \o (<<k>> \o b)
      PROVE  l = Top /\ Tail(todo) = <<k>> \o b
  <2>1. <<k>> \o b \in Seq(Call)
    BY ListsCons
  <2> QED BY <1>2, <1>5, <2>1
<1>6. CASE \E a \in Seq(Call), k \in Call, b \in Seq(Call) :
             /\ todo = a \o (<<k>> \o b) /\ Quiet(a) /\ Quiet(b)
             /\ k.call \in OwnerCalls
             /\ p = After(k, owners)
  BY <1>4, <1>6
<1>7. CASE \E l \in Call, k \in Call, b \in Seq(Call) :
             /\ todo = <<l>> \o (<<k>> \o b) /\ Quiet(b)
             /\ l.call = "link_owner" /\ k.call \in {"remove_owner", "swap_owner"}
             /\ p = After(k, After(l, owners))
  <2>1. PICK l \in Call, k \in Call, b \in Seq(Call) :
             /\ todo = <<l>> \o (<<k>> \o b) /\ Quiet(b)
             /\ l.call = "link_owner" /\ k.call \in {"remove_owner", "swap_owner"}
             /\ p = After(k, After(l, owners))
    BY <1>7
  <2>2. l = Top /\ Tail(todo) = <<k>> \o b
    BY <1>5, <2>1
  <2> QED BY <1>1, <2>1, <2>2 DEF OwnerCalls, Removal
<1> QED BY <1>3, <1>6, <1>7 DEF Leads

(* How the calls that are left after a step lead to p. *)
LEMMA LeadsTo ==
  ASSUME NEW p
  PROVE  /\ Quiet(todo') /\ p = owners' => Leads(p)'
         /\ \A a \in Seq(Call), k \in Call, b \in Seq(Call) :
              /\ todo' = a \o (<<k>> \o b) /\ Quiet(a) /\ Quiet(b)
              /\ k.call \in OwnerCalls
              /\ p = After(k, owners')
              => Leads(p)'
         /\ \A l \in Call, k \in Call, b \in Seq(Call) :
              /\ todo' = <<l>> \o (<<k>> \o b) /\ Quiet(b)
              /\ l.call = "link_owner" /\ k.call \in {"remove_owner", "swap_owner"}
              /\ p = After(k, After(l, owners'))
              => Leads(p)'
<1>1. \A s : Quiet(s)' <=> Quiet(s)
  BY DEF Quiet, Lists
<1>2. Leads(p)' <=>
        \/ Quiet(todo') /\ p = owners'
        \/ \E a \in Seq(Call), k \in Call, b \in Seq(Call) :
             /\ todo' = a \o (<<k>> \o b) /\ Quiet(a) /\ Quiet(b)
             /\ k.call \in OwnerCalls
             /\ p = After(k, owners')
        \/ \E l \in Call, k \in Call, b \in Seq(Call) :
             /\ todo' = <<l>> \o (<<k>> \o b) /\ Quiet(b)
             /\ l.call = "link_owner" /\ k.call \in {"remove_owner", "swap_owner"}
             /\ p = After(k, After(l, owners'))
  BY DEF Leads, Quiet, Lists, After, Effect
<1> QED BY <1>2

(* A call that changes no queue is replaced by others that change none. *)
LEMMA LeadsMade ==
  ASSUME TypeOK, NEW f, Calling(f), f \notin OwnerCalls, NEW s \in Seq(Call), Quiet(s),
         Make(s), UNCHANGED owners, NEW p, Leads(p)
  PROVE  Leads(p)'
<1>1. Tail(todo) \in Seq(Call)
  BY TopOf
<1>2. CASE Quiet(todo) /\ p = owners /\ Quiet(Tail(todo))
  <2>1. Quiet(s \o Tail(todo))
    BY <1>1, <1>2, QuietSequences
  <2> QED BY <1>2, <2>1, LeadsTo DEF Make
<1>3. CASE \E a \in Seq(Call), k \in Call, b \in Seq(Call) :
             /\ Tail(todo) = a \o (<<k>> \o b) /\ Quiet(a) /\ Quiet(b)
             /\ k.call \in OwnerCalls
             /\ p = After(k, owners)
  <2>1. PICK a \in Seq(Call), k \in Call, b \in Seq(Call) :
             /\ Tail(todo) = a \o (<<k>> \o b) /\ Quiet(a) /\ Quiet(b)
             /\ k.call \in OwnerCalls
             /\ p = After(k, owners)
    BY <1>3
  <2>2. <<k>> \o b \in Seq(Call)
    BY ListsCons
  <2>3. s \o (a \o (<<k>> \o b)) = (s \o a) \o (<<k>> \o b)
    BY <2>2, ConcatAssociative
  <2>4. s \o a \in Seq(Call) /\ Quiet(s \o a)
    BY <2>1, CallSequences, QuietSequences
  <2>5. todo' = (s \o a) \o (<<k>> \o b)
    BY <2>1, <2>3 DEF Make
  <2>6. p = After(k, owners')
    BY <2>1
  <2> QED BY <2>1, <2>4, <2>5, <2>6, LeadsTo
<1> QED BY <1>2, <1>3, LeadsOther

(* It returns. *)
LEMMA LeadsReturn ==
  ASSUME TypeOK, NEW f, Calling(f), f \notin OwnerCalls, Return, UNCHANGED owners,
         NEW p, Leads(p)
  PROVE  Leads(p)'
<1>1. Tail(todo) \in Seq(Call)
  BY TopOf
<1>2. Make(<<>>)
  BY <1>1, ConcatEmptySeq DEF Make, Return
<1> QED BY <1>2, CallSequences, QuietSequences, LeadsMade

(* A call changes a queue and returns. *)
LEMMA LeadsChange ==
  ASSUME TypeOK, NEW f, Calling(f), f \in OwnerCalls, Return,
         owners' = After(Top, owners), NEW p, Leads(p)
  PROVE  Leads(p)'
<1>1. CASE Quiet(Tail(todo)) /\ p = After(Top, owners)
  BY <1>1, LeadsTo DEF Return
<1>2. CASE \E k \in Call, b \in Seq(Call) :
             /\ Tail(todo) = <<k>> \o b /\ Quiet(b)
             /\ k.call \in OwnerCalls
             /\ p = After(k, After(Top, owners))
  <2>1. PICK k \in Call, b \in Seq(Call) :
             /\ Tail(todo) = <<k>> \o b /\ Quiet(b)
             /\ k.call \in OwnerCalls
             /\ p = After(k, After(Top, owners))
    BY <1>2
  <2>2. <<k>> \o b \in Seq(Call)
    BY ListsCons
  <2>3. todo' = <<>> \o (<<k>> \o b)
    BY <2>1, <2>2, ConcatEmptySeq DEF Return
  <2>4. p = After(k, owners')
    BY <2>1
  <2> QED BY <2>1, <2>3, <2>4, CallSequences, QuietSequences, LeadsTo
<1> QED BY <1>1, <1>2, LeadsOwner

(* A call that changes a queue is replaced by one that changes it alike. *)
LEMMA LeadsReplaced ==
  ASSUME TypeOK, NEW f, Calling(f), f \in {"remove_owner", "swap_owner"},
         NEW a \in Seq(Call), Quiet(a), NEW k \in Call, k.call \in OwnerCalls,
         Make(a \o <<k>>), UNCHANGED owners, After(k, owners) = After(Top, owners),
         NEW p, Leads(p)
  PROVE  Leads(p)'
<1>1. Tail(todo) \in Seq(Call)
  BY TopOf
<1>2. Quiet(Tail(todo)) /\ p = After(k, owners)
  BY LeadsOwner DEF OwnerCalls, Removal
<1>3. <<k>> \in Seq(Call)
  BY CallSequences
<1>4. (a \o <<k>>) \o Tail(todo) = a \o (<<k>> \o Tail(todo))
  BY <1>1, <1>3, ConcatAssociative
<1>5. todo' = a \o (<<k>> \o Tail(todo))
  BY <1>4 DEF Make
<1>6. p = After(k, owners')
  BY <1>2
<1> QED BY <1>1, <1>2, <1>5, <1>6, LeadsTo

(* Without a call that changes a queue, the queues are what they will be. *)
LEMMA LeadsQuiet ==
  ASSUME Quiet(todo), NEW p, Leads(p)
  PROVE  p = owners
<1>1. ASSUME NEW a \in Seq(Call), NEW k \in Call, NEW b \in Seq(Call),
             todo = a \o (<<k>> \o b), k.call \in OwnerCalls
      PROVE  FALSE
  <2>1. <<k>> \o b \in Seq(Call) /\ Lists(<<k>> \o b, k)
    BY ListsCons
  <2>2. Lists(todo, k)
    BY <1>1, <2>1, ListsConcat
  <2> QED BY <1>1, <2>2 DEF Quiet
<1>2. ASSUME NEW l \in Call, NEW k \in Call, NEW b \in Seq(Call),
             todo = <<l>> \o (<<k>> \o b), l.call = "link_owner"
      PROVE  FALSE
  <2>1. <<k>> \o b \in Seq(Call)
    BY ListsCons
  <2>2. Lists(todo, l)
    BY <1>2, <2>1, ListsCons
  <2> QED BY <1>2, <2>2 DEF Quiet, OwnerCalls
<1> QED BY <1>1, <1>2 DEF Leads

LEMMA LeadsSuccession ==
  ASSUME TypeOK, RemovePrimary \/ SwapPrimary, NEW p, Leads(p)
  PROVE  Leads(p)'
<1>1. PICK n, c, q, a : /\ n = Top.name /\ c = Top.conn /\ q = owners[n]
                        /\ a = <<Send(Lost(c, n))>> \o Succession(n, c)
  OBVIOUS
<1>2. PICK f : f \in {"remove_owner", "swap_owner"} /\ Calling(f)
  BY DEF RemovePrimary, SwapPrimary
<1>3. Top \in Call /\ Top.call = f /\ n \in AnyName /\ c \in Conn
  BY <1>1, <1>2, TopOf, CallFields
<1>4. Primary(n) = c /\ UNCHANGED owners
  BY <1>1 DEF RemovePrimary, SwapPrimary
<1>5. q \in Seq(Owner) /\ q # <<>> /\ q[1] \in Owner /\ q[1].conn = c
  <2>1. q # <<>>
    BY <1>1, <1>3, <1>4, ConnAssumption DEF Primary
  <2> QED BY <1>1, <1>3, <1>4, <2>1, FirstOwner
<1>6. a \in Seq(Call) /\ Quiet(a)
  BY <1>1, <1>3, <1>5, SuccessionForm, QuietSequences
<1>7. CASE RemovePrimary
  <2>1. PICK k : k = UnlinkOwner(n, q[1])
    OBVIOUS
  <2>2. /\ k \in Call /\ k.call = "unlink_owner" /\ k.name = n /\ k.owner = q[1]
        /\ k.call \in OwnerCalls
    BY <1>3, <1>5, <2>1, CallIntro DEF UnlinkOwner, OwnerCalls, Removal
  <2>3. Make(a \o <<k>>) /\ f = "remove_owner"
    BY <1>1, <1>2, <1>7, <2>1 DEF RemovePrimary, Calling
  <2>4. After(k, owners) = After(Top, owners)
    BY <1>1, <1>3, <1>5, <2>2, <2>3 DEF After, Effect
  <2> QED BY <1>2, <1>4, <1>6, <2>2, <2>3, <2>4, LeadsReplaced
<1>8. CASE SwapPrimary
  <2>1. PICK k : k = SwapLinks(n, q[1])
    OBVIOUS
  <2>2. /\ k \in Call /\ k.call = "swap_links" /\ k.name = n /\ k.owner = q[1]
        /\ k.call \in OwnerCalls
    BY <1>3, <1>5, <2>1, CallIntro DEF SwapLinks, OwnerCalls, Removal
  <2>3. Make(a \o <<k>>) /\ f = "swap_owner"
    BY <1>1, <1>2, <1>8, <2>1 DEF SwapPrimary, Calling
  <2>4. After(k, owners) = After(Top, owners)
    BY <1>1, <1>3, <1>5, <2>2, <2>3 DEF After, Effect
  <2> QED BY <1>2, <1>4, <1>6, <2>2, <2>3, <2>4, LeadsReplaced
<1> QED BY <1>7, <1>8

LEMMA LeadsRegistry ==
  ASSUME TypeOK, RegistryCall, NEW p, Leads(p)
  PROVE  Leads(p)'
<1>1. CASE NotifyStarted \/ CompleteConnection
  <2>1. /\ Calling("notify") \/ Calling("complete")
        /\ Return /\ UNCHANGED owners
    BY <1>1 DEF NotifyStarted, CompleteConnection
  <2> QED BY <2>1, LeadsReturn DEF OwnerCalls, Removal
<1>2. CASE LinkNewOwner \/ RelinkOwner
  <2>1. Calling("link_owner") /\ Return /\ Top.call = "link_owner"
    BY <1>2 DEF LinkNewOwner, RelinkOwner, Calling
  <2>2. owners' = After(Top, owners)
    BY <1>2, <2>1 DEF LinkNewOwner, RelinkOwner, After, Effect, Linked
  <2> QED BY <2>1, <2>2, LeadsChange DEF OwnerCalls
<1>3. CASE SetOwnerFlags
  <2>1. Calling("set_flags") /\ Return /\ Top.call = "set_flags"
    BY <1>3 DEF SetOwnerFlags, Calling
  <2>2. owners' = After(Top, owners)
    BY <1>3, <2>1 DEF SetOwnerFlags, After, Effect, First, Primary
  <2> QED BY <2>1, <2>2, LeadsChange DEF OwnerCalls
<1>4. CASE RemoveWaiting
  <2>1. Calling("remove_owner") /\ Return /\ Top.call = "remove_owner"
    BY <1>4 DEF RemoveWaiting, Calling
  <2>2. owners' = After(Top, owners)
    BY <1>4, <2>1 DEF RemoveWaiting, After, Effect
  <2> QED BY <2>1, <2>2, LeadsChange DEF OwnerCalls, Removal
<1>5. CASE UnlinkPrimary
  <2>1. Calling("unlink_owner") /\ Return /\ Top.call = "unlink_owner"
    BY <1>5 DEF UnlinkPrimary, Calling
  <2>2. owners' = After(Top, owners)
    BY <1>5, <2>1 DEF UnlinkPrimary, After, Effect
  <2> QED BY <2>1, <2>2, LeadsChange DEF OwnerCalls, Removal
<1>6. CASE SwapFirstTwo
  <2>1. Calling("swap_links") /\ Return /\ Top.call = "swap_links"
    BY <1>6 DEF SwapFirstTwo, Calling
  <2>2. owners' = After(Top, owners)
    BY <1>6, <2>1 DEF SwapFirstTwo, After, Effect
  <2> QED BY <2>1, <2>2, LeadsChange DEF OwnerCalls, Removal
<1>7. CASE RemovePrimary \/ SwapPrimary
  BY <1>7, LeadsSuccession
<1> QED BY <1>1, <1>2, <1>3, <1>4, <1>5, <1>6, <1>7 DEF RegistryCall

LEMMA LeadsActivation ==
  ASSUME TypeOK, SignalInv, ActivationCall, NEW p, Leads(p)
  PROVE  Leads(p)' /\ UNCHANGED <<phase, before>>
<1>1. UNCHANGED <<owners, phase, before>>
  BY DEF ActivationCall, RegisterEntry, SpawnProgram, SpawnParseError, SpawnForkError,
         SendHeldMessages, DispatchHeld, RejectHeld, ForgetPending, DropPending, registered
<1>2. CASE RegisterEntry \/ SpawnProgram \/ DispatchHeld \/ ForgetPending \/ DropPending
  <2>1. PICK f \in {"register", "spawn", "dispatch", "forget", "drop"} : Calling(f) /\ Return
    BY <1>2 DEF RegisterEntry, SpawnProgram, DispatchHeld, ForgetPending, DropPending
  <2> QED BY <1>1, <2>1, LeadsReturn DEF OwnerCalls, Removal
<1>3. CASE SendHeldMessages
  <2>1. PICK n, s : /\ n = Top.name
                    /\ s = IF pending[n] = <<>> THEN <<>> ELSE Held(n) \o <<Forget(n)>>
    OBVIOUS
  <2>2. Calling("send_held") /\ Make(s)
    BY <1>3, <2>1 DEF SendHeldMessages
  <2>3. n \in Name
    BY <2>1, <2>2, TopOf, CallFields
  <2>4. s \in Seq(Call) /\ \A k : Lists(s, k) => k.call \in {"dispatch", "forget"}
    BY <2>1, <2>3, HeldCalls
  <2>5. Quiet(s)
    BY <2>4 DEF Quiet, OwnerCalls, Removal
  <2> QED BY <1>1, <2>2, <2>4, <2>5, LeadsMade DEF OwnerCalls, Removal
<1>4. CASE SpawnParseError \/ SpawnForkError \/ RejectHeld
  <2>1. PICK f \in {"spawn", "dispatch"} : Calling(f) /\ Raise
    BY <1>4 DEF SpawnParseError, SpawnForkError, RejectHeld
  <2>2. phase = "run" /\ Top.call = f
    BY <2>1 DEF Calling
  <2>3. PICK q : Stage(q)
    BY <2>2 DEF SignalInv, Works
  <2>4. AllPlain(todo)
    BY <2>1, <2>2, <2>3, StageOfOther DEF Early, Done, OwnerCalls, Removal
  <2>5. p = owners
    BY <2>4, QuietSequences, LeadsQuiet
  <2>6. todo' = <<Send(ErrorReply(Top.name))>> \/ todo' = <<>>
    BY <2>1 DEF Raise
  <2>7. Quiet(todo')
    BY <2>6, SendForm, QuietSequences DEF OwnerCalls, Removal
  <2> QED BY <1>1, <2>5, <2>7, LeadsTo
<1> QED BY <1>1, <1>2, <1>3, <1>4 DEF ActivationCall

(* One operation of NameQueue, or none, takes the queues from q to r. *)
Operates(q, r) ==
  \/ r = q
  \/ \E c \in Conn :
       \/ /\ q[c] = <<>>
          /\ r = [q EXCEPT ![c] = <<[conn |-> c, allow |-> FALSE, noqueue |-> FALSE]>>]
       \/ /\ {n \in AnyName : Queues!In(q[n], c)} = {c}
          /\ r = [q EXCEPT ![c] = <<>>]
       \/ \E n \in Name :
            /\ Queues!In(q[n], c)
            /\ r = [q EXCEPT ![n] = Queues!Without(q[n], c)]
       \/ \E n \in Name, f \in Flags :
            /\ q[c] # <<>> /\ <<c, n>> \in MayOwn
            /\ Cardinality({m \in AnyName : Queues!In(q[m], c)}) < MaxServices
            /\ r = [q EXCEPT ![n] = Queues!Asked(q[n], c, f)]

(* The queues change once between the start of a handler and its end. *)
WorkInv ==
  /\ phase \in {"idle", "round"} => Operates(before, owners)
  /\ phase = "run" => \E p : Leads(p) /\ Operates(before, p)

LEMMA OperatesPrimed ==
  ASSUME NEW p
  PROVE  /\ Operates(before, p)' <=> Operates(before', p)
         /\ Operates(before, owners)' <=> Operates(before', owners')
BY DEF Operates, Queues!In, Queues!Without, Queues!Asked

(* A step that leaves the queues where they were before the handler. *)
LEMMA WorkKept ==
  ASSUME WorkInv, UNCHANGED before, phase = "run" /\ phase' = "run",
         \A p : Leads(p) => Leads(p)'
  PROVE  WorkInv'
BY OperatesPrimed DEF WorkInv

LEMMA SameCardinality == \A S : Queues!Cardinality(S) = Cardinality(S)
BY DEF Queues!Cardinality, Cardinality

LEMMA OperatesStep ==
  ASSUME Operates(before, owners), before' = owners
  PROVE  [Queues!Next]_before
<1> DEFINE q == before
           r == owners
<1>0. \A c : Queues!Names(c) = {n \in AnyName : Queues!In(q[n], c)}
  BY DEF Queues!Names, Queues!AnyName, AnyName
<1>1. CASE r = q
  BY <1>1
<1>2. ASSUME NEW c \in Conn, q[c] = <<>>,
             r = [q EXCEPT ![c] = <<[conn |-> c, allow |-> FALSE, noqueue |-> FALSE]>>]
      PROVE  Queues!Next
  <2>1. Queues!Appear(c)
    BY <1>2 DEF Queues!Appear, Queues!Here
  <2> QED BY <2>1 DEF Queues!Next
<1>3. ASSUME NEW c \in Conn, {n \in AnyName : Queues!In(q[n], c)} = {c}, r = [q EXCEPT ![c] = <<>>]
      PROVE  Queues!Next
  <2>1. Queues!Depart(c)
    BY <1>0, <1>3 DEF Queues!Depart
  <2> QED BY <2>1 DEF Queues!Next
<1>4. ASSUME NEW c \in Conn, NEW n \in Name, Queues!In(q[n], c),
             r = [q EXCEPT ![n] = Queues!Without(q[n], c)]
      PROVE  Queues!Next
  <2>1. n \in Queues!Names(c)
    BY <1>0, <1>4 DEF AnyName
  <2>2. Queues!Leave(c, n)
    BY <1>4, <2>1 DEF Queues!Leave
  <2> QED BY <2>2 DEF Queues!Next
<1>5. ASSUME NEW c \in Conn, NEW n \in Name, NEW f \in Flags,
             q[c] # <<>>, <<c, n>> \in MayOwn,
             Cardinality({m \in AnyName : Queues!In(q[m], c)}) < MaxServices,
             r = [q EXCEPT ![n] = Queues!Asked(q[n], c, f)]
      PROVE  Queues!Next
  <2>1. Queues!Request(c, n, f)
    BY <1>0, <1>5, SameCardinality DEF Queues!Request, Queues!Here
  <2> QED BY <2>1 DEF Queues!Next
<1> HIDE DEF q, r
<1>6. Operates(q, r)
  BY DEF q, r
<1> QED BY <1>1, <1>2, <1>3, <1>4, <1>5, <1>6 DEF Operates, q, r

(* A handler begins that will take the queues to p. *)
LEMMA WorkStart ==
  ASSUME NEW y, NEW w, NEW u, NEW s, Begin(y, w, u, s), NEW p, Leads(p)', Operates(owners, p)
  PROVE  WorkInv'
BY OperatesPrimed DEF WorkInv, Begin

LEMMA LeadsKept ==
  ASSUME UNCHANGED <<todo, owners>>, NEW p, Leads(p)
  PROVE  Leads(p)'
<1>1. PICK s, q : s = todo /\ q = owners
  OBVIOUS
<1>2. s = todo' /\ q = owners'
  BY <1>1
<1>3. \/ Quiet(s) /\ p = q
      \/ \E a \in Seq(Call), k \in Call, b \in Seq(Call) :
           /\ s = a \o (<<k>> \o b) /\ Quiet(a) /\ Quiet(b)
           /\ k.call \in OwnerCalls
           /\ p = After(k, q)
      \/ \E l \in Call, k \in Call, b \in Seq(Call) :
           /\ s = <<l>> \o (<<k>> \o b) /\ Quiet(b)
           /\ l.call = "link_owner" /\ k.call \in {"remove_owner", "swap_owner"}
           /\ p = After(k, After(l, q))
  BY <1>1 DEF Leads
<1> QED BY <1>2, <1>3, LeadsTo

(* What a step of the daemon does to the queues before it. *)
Operated == UNCHANGED before \/ (before' = owners /\ Operates(before, owners))

LEMMA OperatesItself == \A q : Operates(q, q)
BY DEF Operates

(* Nothing is done to the queues. *)
LEMMA WorkStill ==
  ASSUME WorkInv, UNCHANGED <<phase, todo, owners, before>>
  PROVE  WorkInv'
<1>1. phase \in {"idle", "round"} => Operates(before, owners)'
  BY OperatesPrimed DEF WorkInv
<1>2. ASSUME phase = "run"
      PROVE  \E p : Leads(p)' /\ Operates(before, p)'
  <2>1. PICK p : Leads(p) /\ Operates(before, p)
    BY <1>2 DEF WorkInv
  <2>2. Leads(p)' /\ Operates(before, p)'
    BY <2>1, LeadsKept, OperatesPrimed
  <2> QED BY <2>2
<1> QED BY <1>1, <1>2 DEF WorkInv

(* Between two transactions, and after the last. *)
LEMMA WorkRests ==
  ASSUME WorkInv, phase \in {"idle", "round"}, phase' \in {"idle", "round"}, UNCHANGED owners,
         UNCHANGED before \/ before' = owners
  PROVE  WorkInv' /\ Operated
<1>1. Operates(before, owners)
  BY DEF WorkInv
<1>2. Operates(before, owners)'
  BY <1>1, OperatesPrimed, OperatesItself
<1> QED BY <1>1, <1>2 DEF WorkInv, Operated

LEMMA WorkExecution ==
  ASSUME TypeOK, WorkInv, SendMessage \/ DeliverMessage \/ FreeHook \/ EndExecute
  PROVE  WorkInv' /\ Operated
<1>1. CASE SendMessage
  <2>1. Calling("send") /\ Return /\ UNCHANGED <<phase, before, owners>>
    BY <1>1 DEF SendMessage, busVars
  <2>2. \A p : Leads(p) => Leads(p)'
    BY <2>1, LeadsReturn DEF OwnerCalls, Removal
  <2> QED BY <2>1, <2>2, WorkKept DEF Operated, Calling
<1>2. CASE DeliverMessage \/ FreeHook
  <2>1. UNCHANGED <<phase, todo, owners, before>>
    BY <1>2 DEF DeliverMessage, FreeHook, busVars
  <2> QED BY <2>1, WorkStill DEF Operated
<1>3. CASE EndExecute
  <2>1. /\ phase = "run" /\ todo = <<>> /\ phase' \in {"idle", "round"}
        /\ UNCHANGED owners
        /\ UNCHANGED before \/ before' = owners
    BY <1>3 DEF EndExecute, Executing, Close, Rest, busVars
  <2>2. PICK p : Leads(p) /\ Operates(before, p)
    BY <2>1 DEF WorkInv
  <2>3. Quiet(todo)
    BY <2>1, QuietSequences
  <2>4. Operates(before, owners)
    BY <2>2, <2>3, LeadsQuiet
  <2>5. Operates(before, owners)'
    BY <2>1, <2>4, OperatesPrimed, OperatesItself
  <2> QED BY <2>1, <2>4, <2>5 DEF WorkInv, Operated
<1> QED BY <1>1, <1>2, <1>3

LEMMA WorkCalls ==
  ASSUME TypeOK, SignalInv, WorkInv, RegistryCall \/ ActivationCall
  PROVE  WorkInv' /\ Operated
<1>1. phase = "run" /\ phase' = "run" /\ UNCHANGED before
  BY DEF RegistryCall, NotifyStarted, CompleteConnection, LinkNewOwner, RelinkOwner,
         SetOwnerFlags, RemovePrimary, RemoveWaiting, UnlinkPrimary, SwapPrimary, SwapFirstTwo,
         unseen, ActivationCall, RegisterEntry, SpawnProgram, SpawnParseError, SpawnForkError,
         SendHeldMessages, DispatchHeld, RejectHeld, ForgetPending, DropPending, registered, Calling
<1>2. \A p : Leads(p) => Leads(p)'
  BY LeadsRegistry, LeadsActivation
<1> QED BY <1>1, <1>2, WorkKept DEF Operated

LEMMA WorkEvents ==
  ASSUME WorkInv,
         \/ \E c \in Conn : HangUp(c) \/ Disconnected(c)
         \/ \E n \in Name : TimeOut(n) \/ ChildFails(n) \/ ChildExits(n)
         \/ ForgetClient \/ FailedAll
  PROVE  WorkInv' /\ Operated
<1>1. CASE (\E c \in Conn : HangUp(c)) \/ (\E n \in Name : ChildExits(n))
  <2>1. UNCHANGED <<phase, todo, owners, before>>
    BY <1>1 DEF HangUp, ChildExits, txnVars, registered
  <2> QED BY <2>1, WorkStill DEF Operated
<1>2. CASE \/ \E c \in Conn : Disconnected(c)
           \/ \E n \in Name : TimeOut(n) \/ ChildFails(n)
           \/ ForgetClient \/ FailedAll
  <2>1. /\ phase \in {"idle", "round"} /\ phase' \in {"idle", "round"} /\ UNCHANGED owners
        /\ UNCHANGED before \/ before' = owners
    BY <1>2 DEF Disconnected, TimeOut, ChildFails, Fail, ForgetClient, FailedAll, Rest, Idle, busVars
  <2> QED BY <2>1, WorkRests
<1> QED BY <1>1, <1>2

(* A client is on the bus while it owns its unique name, or is about to get
   it, or to lose it with its last name. *)
Departing(c) == job.why = "disconnect" /\ job.by = c

Joins(c) == \E k : Lists(todo, k) /\ k.call = "link_owner" /\ k.name = c

LastName(c) == owned[c] = <<>> \/ owned[c] = <<c>>

Leaves(c) == Departing(c) /\ LastName(c)

(* Only Hello links a unique name, and only the end of a departure removes
   it. *)
Fits(k) ==
  /\ k.call = "link_owner" =>
       /\ job.why = "request"
       /\ IF k.name \in Conn THEN k.conn = k.name /\ owned[k.conn] = <<>>
                             ELSE owned[k.conn] # <<>>
  /\ k.call \in {"remove_owner", "unlink_owner"} /\ k.name \in Conn => Leaves(k.name)

HookFits(h) ==
  h.hook = "restore_ownership" /\ h.at = 1 /\ h.name \in Conn => Leaves(h.name)

(* The unique name of a client is the first on its list. *)
Present(c) ==
  /\ \A n \in Conn : Lists(owned[c], n) => n = c
  /\ owned[c] # <<>> => owned[c][1] = c
  /\ c \in active /\ link[c] # "gone" => owned[c] # <<>> \/ Joins(c) \/ Departing(c)
  /\ c \notin active => owned[c] = <<>> /\ (Joins(c) => Top = Complete(c))

(* bus_connection_complete is the first call of Hello, before the unique name
   is linked. *)
Completing ==
  todo # <<>> =>
    /\ \A k : Lists(Tail(todo), k) => k.call # "complete"
    /\ Top.call = "complete" => Joins(Top.conn)

PresenceInv ==
  /\ phase \in {"idle", "run", "round"}
  /\ Completing
  /\ phase = "idle" => job = NoJob
  /\ \A c \in Conn : Present(c)
  /\ \A k : Lists(todo, k) => Fits(k)
  /\ \A h : Lists(hooks, h) => HookFits(h)

-----------------------------------------------------------------------------
(* The handlers begin operations of NameQueue.                             *)

LEMMA WorkOne ==
  ASSUME NEW y, NEW w, NEW u, NEW s, Begin(y, w, u, s), UNCHANGED owners,
         NEW a \in Seq(Call), NEW k \in Call, NEW b \in Seq(Call), s = a \o (<<k>> \o b),
         Quiet(a), Quiet(b), k.call \in OwnerCalls, Operates(owners, After(k, owners))
  PROVE  WorkInv'
<1>1. PICK p : p = After(k, owners)
  OBVIOUS
<1>2. p = After(k, owners') /\ todo' = a \o (<<k>> \o b)
  BY <1>1 DEF Begin
<1>3. Leads(p)'
  BY <1>2, LeadsTo
<1> QED BY <1>1, <1>3, WorkStart

LEMMA WorkNone ==
  ASSUME NEW y, NEW w, NEW u, NEW s, Begin(y, w, u, s), UNCHANGED owners, Quiet(s)
  PROVE  WorkInv'
<1>1. PICK p : p = owners
  OBVIOUS
<1>2. Leads(p)'
  BY <1>1, LeadsTo DEF Begin
<1> QED BY <1>1, <1>2, WorkStart, OperatesItself

(* Between two transactions the list of a client names its queues. *)
LEMMA OwnedBetween ==
  ASSUME Consistent, phase \in {"idle", "round"}, NEW c \in Conn
  PROVE  /\ \A n \in AnyName : Lists(owned[c], n) <=> Queued(owners[n], c)
         /\ Once(owned[c]) /\ todo = <<>>
<1>1. hooks = <<>> /\ todo = <<>>
  BY DEF Consistent, HookInv, TodoInv
<1>2. \A n : ~Removed(n, c)
  BY <1>1 DEF Removed
<1> QED BY <1>1, <1>2 DEF Consistent, OwnInv

(* The names NameQueue counts are those on the list. *)
LEMMA NamesCounted ==
  ASSUME TypeOK, Consistent, phase \in {"idle", "round"}, NEW c \in Conn
  PROVE  Cardinality({n \in AnyName : Queues!In(owners[n], c)}) = Len(owned[c])
<1>1. owned[c] \in Seq(AnyName) /\ \A n \in AnyName : owners[n] \in Seq(Owner)
  BY DEF TypeOK
<1>2. \A n \in AnyName : Queues!In(owners[n], c) <=> Lists(owned[c], n)
  BY <1>1, OwnedBetween, SameWithout
<1>3. ToSet(owned[c]) = {n \in AnyName : Lists(owned[c], n)}
  <2>1. \A i \in DOMAIN owned[c] : owned[c][i] \in AnyName
    BY <1>1, LenProperties, ElementOfSeq
  <2> QED BY <2>1 DEF ToSet, Lists
<1>4. {n \in AnyName : Queues!In(owners[n], c)} = ToSet(owned[c])
  BY <1>2, <1>3
<1> QED BY <1>1, <1>4, OwnedBetween, OnceCardinality

(* The queue of a unique name. *)
LEMMA UniqueQueue ==
  ASSUME TypeOK, Consistent, Unique, phase \in {"idle", "round"}, NEW c \in Conn
  PROVE  owners[c] = <<>> <=> ~Lists(owned[c], c)
<1>1. c \in AnyName /\ owners[c] \in Seq(Owner)
  BY DEF TypeOK, AnyName
<1>2. Lists(owned[c], c) <=> Queued(owners[c], c)
  BY <1>1, OwnedBetween
<1>3. owners[c] # <<>> => Queued(owners[c], First(owners[c])) /\ First(owners[c]) \in Conn
  BY <1>1, FirstOf
<1>4. owners[c] # <<>> => Queued(owners[c], c)
  BY <1>3 DEF Unique
<1>5. owners[c] = <<>> => ~Queued(owners[c], c)
  BY <1>1, FirstOf
<1> QED BY <1>2, <1>4, <1>5

(* A client that says Hello has no name yet. *)
LEMMA Newcomer ==
  ASSUME TypeOK, Consistent, SignalInv, PresenceInv, NEW c \in Conn, Hello(c)
  PROVE  phase = "idle" /\ owned[c] = <<>> /\ owners[c] = <<>>
<1>1. owned[c] = <<>> /\ phase = "idle"
  BY DEF Hello, Speaks, Idle, PresenceInv, Present
<1>2. ~Lists(owned[c], c)
  BY <1>1, ListsShort
<1> QED BY <1>1, <1>2, UniqueQueue DEF SignalInv

LEMMA WorkHello ==
  ASSUME TypeOK, Consistent, SignalInv, PresenceInv, NEW c \in Conn, Hello(c)
  PROVE  WorkInv'
<1>1. PICK f : f = [allow |-> FALSE, noqueue |-> FALSE, replace |-> FALSE]
  OBVIOUS
<1>2. f \in AllFlags /\ c \in AnyName /\ "welcome" \in Result
  BY <1>1 DEF AllFlags, AnyName, Result
<1>3. owners[c] = <<>>
  BY Newcomer
<1>4. PICK x, e, s : /\ x = <<Complete(c), Send(Reply(c, c, "welcome"))>>
                     /\ e = Ensure(c, c, f) /\ s = x \o e
  OBVIOUS
<1>5. Begin("request", c, {}, s) /\ UNCHANGED owners
  BY <1>1, <1>4 DEF Hello, busVars
<1>6. x \in Seq(Call) /\ Quiet(x)
  <2>1. Complete(c) \in Call /\ Send(Reply(c, c, "welcome")) \in Call
    BY <1>2, CallIntro, MessageIntro
  <2>2. Complete(c).call = "complete" /\ Send(Reply(c, c, "welcome")).call = "send"
    BY DEF Complete, Send
  <2>3. \A k : Lists(x, k) => k = Complete(c) \/ k = Send(Reply(c, c, "welcome"))
    BY <1>4, ListsShort
  <2>4. x \in Seq(Call)
    BY <1>4, <2>1
  <2> QED BY <2>2, <2>3, <2>4 DEF Quiet, OwnerCalls, Removal
<1>7. PICK k : k = LinkOwner(c, c, f)
  OBVIOUS
<1>8. k \in Call /\ k.call = "link_owner" /\ k.name = c /\ k.conn = c /\ k.flags = f
  BY <1>2, <1>7, CallIntro DEF LinkOwner
<1>9. PICK a \in Seq(Call) : e = a \o <<k>> /\ AllEarly(a)
  BY <1>2, <1>3, <1>4, <1>7, EnsureForm
<1>10. x \o a \in Seq(Call) /\ Quiet(x \o a)
  BY <1>6, <1>9, CallSequences, QuietSequences
<1>11. s = (x \o a) \o (<<k>> \o <<>>)
  <2>1. <<k>> \in Seq(Call) /\ <<k>> \o <<>> = <<k>>
    BY <1>8, CallSequences, ConcatEmptySeq
  <2>2. x \o (a \o <<k>>) = (x \o a) \o <<k>>
    BY <1>6, <2>1, ConcatAssociative
  <2> QED BY <1>4, <1>9, <2>1, <2>2
<1>12. After(k, owners) =
         [owners EXCEPT ![c] = <<[conn |-> c, allow |-> FALSE, noqueue |-> FALSE]>>]
  <2>1. Linked(<<>>, c, f) = <<[conn |-> c, allow |-> FALSE, noqueue |-> FALSE]>>
    <3>1. ~Queued(<<>>, c)
      BY DEF Queued
    <3>2. OwnerOf(c, f) = [conn |-> c, allow |-> FALSE, noqueue |-> FALSE] /\ ~f.replace
      BY <1>1 DEF OwnerOf
    <3>3. Linked(<<>>, c, f) = Append(<<>>, OwnerOf(c, f))
      BY <3>1, <3>2 DEF Linked
    <3>4. Append(<<>>, OwnerOf(c, f)) = <<OwnerOf(c, f)>>
      OBVIOUS
    <3> QED BY <3>2, <3>3, <3>4
  <2> QED BY <1>3, <1>8, <2>1 DEF After, Effect
<1>13. Operates(owners, After(k, owners))
  BY <1>3, <1>12 DEF Operates
<1>14. <<>> \in Seq(Call) /\ Quiet(<<>>) /\ k.call \in OwnerCalls
  BY <1>8, CallSequences, QuietSequences DEF OwnerCalls
<1> QED BY <1>5, <1>8, <1>10, <1>11, <1>13, <1>14, WorkOne

(* A client that makes a request owns its unique name. *)
LEMMA RequesterIsHere ==
  ASSUME TypeOK, Consistent, SignalInv, PresenceInv, NEW c \in Conn, Speaks(c), c \in active
  PROVE  phase = "idle" /\ owners[c] # <<>> /\ owned[c] # <<>>
<1>1. phase = "idle" /\ todo = <<>> /\ job = NoJob /\ link[c] # "gone"
  BY OwnedBetween DEF Speaks, Idle, PresenceInv
<1>2. ~Joins(c)
  BY <1>1, ListsShort DEF Joins
<1>3. ~Departing(c)
  BY <1>1 DEF Departing, NoJob
<1>4. owned[c] # <<>> /\ owned[c][1] = c
  BY <1>1, <1>2, <1>3 DEF PresenceInv, Present
<1>5. 1 \in DOMAIN owned[c]
  <2>1. owned[c] \in Seq(AnyName)
    BY DEF TypeOK
  <2>2. Len(owned[c]) \in Nat /\ Len(owned[c]) # 0 /\ DOMAIN owned[c] = 1..Len(owned[c])
    BY <1>4, <2>1, LenProperties, EmptySeq
  <2> QED BY <2>2
<1>6. Lists(owned[c], c)
  BY <1>4, <1>5 DEF Lists
<1> QED BY <1>1, <1>4, <1>6, UniqueQueue DEF SignalInv

(* A request that is granted, whatever it comes to. *)
LEMMA RequestOperates ==
  ASSUME TypeOK, Consistent, SignalInv, PresenceInv, NEW c \in Conn, NEW n \in Name,
         NEW f \in Flags, Speaks(c), c \in active, MayAcquire(c, n),
         NEW p, p = [owners EXCEPT ![n] = Queues!Asked(owners[n], c, f)]
  PROVE  Operates(owners, p)
<1>1. phase = "idle" /\ owners[c] # <<>>
  BY RequesterIsHere
<1>2. Cardinality({m \in AnyName : Queues!In(owners[m], c)}) < MaxServices
  BY <1>1, NamesCounted DEF MayAcquire
<1>3. <<c, n>> \in MayOwn
  BY DEF MayAcquire
<1> HIDE DEF MayAcquire
<1> QED BY <1>1, <1>2, <1>3 DEF Operates

LEMMA WorkRequest ==
  ASSUME TypeOK, Distinct, Consistent, SignalInv, PresenceInv,
         NEW c \in Conn, NEW n \in Name, NEW f \in Flags, RequestName(c, n, f)
  PROVE  WorkInv'
<1>1. f \in AllFlags /\ n \in AnyName
  BY ConfigAssumption DEF AnyName
<1>2. PICK s : s = AcquireService(c, n, f)
  OBVIOUS
<1>3. Begin("request", c, {}, s) /\ UNCHANGED owners /\ Speaks(c) /\ c \in active
  BY <1>2 DEF RequestName, busVars
<1>4. CASE ~MayAcquire(c, n)
  <2>1. s = <<Send(Failure(c))>>
    BY <1>2, <1>4 DEF AcquireService
  <2>2. Send(Failure(c)).call = "send"
    BY DEF Send
  <2>3. Quiet(s)
    BY <2>1, <2>2, QuietSequences DEF OwnerCalls, Removal
  <2> QED BY <1>3, <2>3, WorkNone
<1>5. CASE MayAcquire(c, n)
  <2>1. PICK o, q, r : /\ o = Outcome(c, n, f) /\ q = owners[n]
                       /\ r = Queues!Asked(q, c, f)
    OBVIOUS
  <2>2. /\ o \in {"primary", "already", "replaced", "exists", "queued"}
        /\ OutcomeResult(c, n, f) \in Result
    BY <2>1 DEF Outcome, OutcomeResult, Result
  <2>3. q \in Seq(Owner) /\ NoTwice(q) /\ First(q) = Primary(n)
    BY <1>1, <2>1, QueueType DEF Distinct, First, Primary
  <2>4. PICK b : b = <<SendHeld(n), Send(Reply(c, n, OutcomeResult(c, n, f)))>>
    OBVIOUS
  <2>5. b \in Seq(Call) /\ Quiet(b)
    <3>1. SendHeld(n) \in Call /\ Send(Reply(c, n, OutcomeResult(c, n, f))) \in Call
      BY <1>1, <2>2, CallIntro, MessageIntro
    <3>2. /\ SendHeld(n).call = "send_held"
          /\ Send(Reply(c, n, OutcomeResult(c, n, f))).call = "send"
      BY DEF SendHeld, Send
    <3>3. \A k : Lists(b, k) =>
               k = SendHeld(n) \/ k = Send(Reply(c, n, OutcomeResult(c, n, f)))
      BY <2>4, ListsShort
    <3>4. b \in Seq(Call)
      BY <2>4, <3>1
    <3> QED BY <3>2, <3>3, <3>4 DEF Quiet, OwnerCalls, Removal
  <2>6. s = OutcomeCalls(c, n, f) \o b
    BY <1>2, <1>5, <2>4 DEF AcquireService
  <2>7. \A k : k.name = n /\ Effect(k, q) = r => Operates(owners, After(k, owners))
    BY <1>3, <1>5, <2>1, RequestOperates DEF After
  <2>8. ASSUME NEW a \in Seq(Call), NEW k \in Call, Quiet(a), k.call \in OwnerCalls, k.name = n,
               Effect(k, q) = r, OutcomeCalls(c, n, f) = a \o <<k>>
        PROVE  WorkInv'
    <3>1. <<k>> \in Seq(Call)
      BY CallSequences
    <3>2. s = a \o (<<k>> \o b)
      BY <2>5, <2>6, <2>8, <3>1, ConcatAssociative
    <3>3. Operates(owners, After(k, owners))
      BY <2>7, <2>8
    <3> QED BY <1>3, <2>5, <2>8, <3>2, <3>3, WorkOne
  <2>9. ASSUME NEW k \in Call, k.call \in OwnerCalls, k.name = n,
               Effect(k, q) = r, OutcomeCalls(c, n, f) = <<k>>
        PROVE  WorkInv'
    <3>1. <<>> \in Seq(Call) /\ Quiet(<<>>) /\ <<k>> = <<>> \o <<k>>
      BY CallSequences, ConcatEmptySeq, QuietSequences
    <3> QED BY <2>8, <2>9, <3>1
  <2>10. PICK l : l = LinkOwner(n, c, f)
    OBVIOUS
  <2>11. /\ l \in Call /\ l.call = "link_owner" /\ l.name = n /\ l.call \in OwnerCalls
         /\ \A x : Effect(l, x) = Linked(x, c, f)
    BY <1>1, <2>10, CallIntro DEF LinkOwner, Effect, OwnerCalls
  <2>12. AddOwner(n, c, f) = IF q = <<>> THEN <<Send(Acquired(c, n))>> \o <<l>> ELSE <<>> \o <<l>>
    BY <2>1, <2>10 DEF AddOwner
  <2>13. <<>> \o <<l>> = <<l>>
    BY <2>11, CallSequences, ConcatEmptySeq
  <2>14. CASE o = "primary"
    <3>1. q = <<>> /\ OutcomeCalls(c, n, f) = Ensure(n, c, f)
      BY <2>1, <2>14 DEF Outcome, OutcomeCalls
    <3>2. PICK a \in Seq(Call) : Ensure(n, c, f) = a \o <<l>> /\ AllEarly(a)
      BY <1>1, <2>1, <2>10, <3>1, EnsureForm
    <3>3. Linked(q, c, f) = r
      BY <1>1, <2>1, <2>3, <3>1, AskedQueue
    <3> QED BY <2>8, <2>11, <3>1, <3>2, <3>3, QuietSequences
  <2>15. CASE o = "already"
    <3>1. q # <<>> /\ First(q) = c /\ OutcomeCalls(c, n, f) = <<SetFlags(n, c, f)>>
      BY <2>1, <2>3, <2>15 DEF Outcome, OutcomeCalls
    <3>2. PICK k : k = SetFlags(n, c, f)
      OBVIOUS
    <3>3. /\ k \in Call /\ k.call = "set_flags" /\ k.name = n /\ k.call \in OwnerCalls
          /\ Effect(k, q) = [q EXCEPT ![1] = OwnerOf(First(q), f)]
      BY <1>1, <3>2, CallIntro DEF SetFlags, Effect, OwnerCalls
    <3>4. [q EXCEPT ![1] = OwnerOf(c, f)] = r
      BY <1>1, <2>1, <2>3, <3>1, AskedQueue
    <3> QED BY <2>9, <3>1, <3>2, <3>3, <3>4
  <2>16. CASE o = "queued"
    <3>1. q # <<>> /\ First(q) # c /\ ~(f.replace /\ q[1].allow) /\ ~f.noqueue
      BY <2>1, <2>3, <2>16 DEF Outcome, MayReplace
    <3>2. OutcomeCalls(c, n, f) = <<l>>
      BY <2>1, <2>12, <2>13, <2>16, <3>1 DEF OutcomeCalls
    <3>3. Linked(q, c, f) = r
      BY <1>1, <2>1, <2>3, <3>1, AskedQueue
    <3> QED BY <2>9, <2>11, <3>2, <3>3
  <2>17. CASE o = "exists"
    <3>1. q # <<>> /\ First(q) # c /\ ~(f.replace /\ q[1].allow) /\ f.noqueue
      BY <2>1, <2>3, <2>17 DEF Outcome, MayReplace
    <3>2. OutcomeCalls(c, n, f) = IF Queued(q, c) THEN <<RemoveOwner(n, c)>> ELSE <<>>
      BY <2>1, <2>17 DEF OutcomeCalls, Decline
    <3>3. Without(q, c) = r
      BY <1>1, <2>1, <2>3, <3>1, AskedQueue
    <3>4. CASE Queued(q, c)
      <4>1. PICK k : k = RemoveOwner(n, c)
        OBVIOUS
      <4>2. /\ k \in Call /\ k.call = "remove_owner" /\ k.name = n /\ k.call \in OwnerCalls
            /\ Effect(k, q) = Without(q, c)
        BY <1>1, <4>1, CallIntro DEF RemoveOwner, Effect, OwnerCalls, Removal
      <4> QED BY <2>9, <3>2, <3>3, <3>4, <4>1, <4>2
    <3>5. CASE ~Queued(q, c)
      <4>1. s = b
        BY <2>5, <2>6, <3>2, <3>5, ConcatEmptySeq
      <4> QED BY <1>3, <2>5, <4>1, WorkNone
    <3> QED BY <3>4, <3>5
  <2>18. CASE o = "replaced"
    <3>1. q # <<>> /\ First(q) # c /\ f.replace /\ q[1].allow
      BY <2>1, <2>3, <2>18 DEF Outcome, MayReplace
    <3>2. OutcomeCalls(c, n, f) = <<l>> \o Dethrone(n)
      BY <2>1, <2>12, <2>13, <2>18, <3>1 DEF OutcomeCalls
    <3>3. PICK k : k = IF q[1].noqueue THEN RemoveOwner(n, First(q)) ELSE SwapOwner(n, First(q))
      OBVIOUS
    <3>4. Dethrone(n) = <<k>>
      BY <2>1, <2>3, <3>3 DEF Dethrone
    <3>5. First(q) \in Conn
      BY <2>3, <3>1, FirstOf
    <3>6. /\ k \in Call /\ k.call \in {"remove_owner", "swap_owner"} /\ k.name = n
          /\ \A x : Effect(k, x) = IF q[1].noqueue THEN Without(x, First(q)) ELSE Swapped(x)
      <4>1. CASE q[1].noqueue
        BY <1>1, <3>3, <3>5, <4>1, CallIntro DEF RemoveOwner, Effect
      <4>2. CASE ~q[1].noqueue
        BY <1>1, <3>3, <3>5, <4>2, CallIntro DEF SwapOwner, Effect
      <4> QED BY <4>1, <4>2
    <3>7. Effect(k, Linked(q, c, f)) = r
      BY <1>1, <2>1, <2>3, <3>1, <3>6, AskedQueue
    <3>8. PICK p : p = After(k, After(l, owners))
      OBVIOUS
    <3>9. p = [owners EXCEPT ![n] = r]
      <4>1. After(l, owners) = [owners EXCEPT ![n] = Linked(q, c, f)]
        BY <2>1, <2>11 DEF After
      <4>2. [owners EXCEPT ![n] = Linked(q, c, f)][n] = Linked(q, c, f)
        BY <1>1 DEF TypeOK
      <4>3. p = [[owners EXCEPT ![n] = Linked(q, c, f)] EXCEPT ![n] = r]
        BY <3>6, <3>7, <3>8, <4>1, <4>2 DEF After
      <4> QED BY <1>1, <4>3 DEF TypeOK
    <3>10. Operates(owners, p)
      BY <1>3, <1>5, <2>1, <3>9, RequestOperates
    <3>11. s = <<l>> \o (<<k>> \o b)
      <4>1. <<l>> \in Seq(Call) /\ <<k>> \in Seq(Call)
        BY <2>11, <3>6, CallSequences
      <4> QED BY <2>5, <2>6, <3>2, <3>4, <4>1, ConcatAssociative
    <3>12. todo' = <<l>> \o (<<k>> \o b) /\ p = After(k, After(l, owners'))
      BY <1>3, <3>8, <3>11 DEF Begin
    <3>13. Leads(p)'
      BY <2>5, <2>11, <3>6, <3>12, LeadsTo
    <3> QED BY <1>3, <3>10, <3>13, WorkStart
  <2> QED BY <2>2, <2>14, <2>15, <2>16, <2>17, <2>18
<1> QED BY <1>4, <1>5

(* The daemon removes a client from one queue, and then sends b. *)
LEMMA WorkRemoval ==
  ASSUME NEW y, NEW w, NEW u, NEW n \in AnyName, NEW c \in Conn, NEW b \in Seq(Call), Quiet(b),
         Begin(y, w, u, <<RemoveOwner(n, c)>> \o b), UNCHANGED owners,
         Operates(owners, [owners EXCEPT ![n] = Without(owners[n], c)])
  PROVE  WorkInv'
<1>1. PICK k, s : k = RemoveOwner(n, c) /\ s = <<k>> \o b
  OBVIOUS
<1>2. k \in Call /\ k.call = "remove_owner" /\ k.name = n /\ k.conn = c /\ k.call \in OwnerCalls
  BY <1>1, CallIntro DEF RemoveOwner, OwnerCalls, Removal
<1>3. After(k, owners) = [owners EXCEPT ![n] = Without(owners[n], c)]
  BY <1>2 DEF After, Effect
<1>4. <<k>> \o b \in Seq(Call)
  BY <1>2, ListsCons
<1>5. s = <<>> \o (<<k>> \o b) /\ <<>> \in Seq(Call) /\ Quiet(<<>>)
  BY <1>1, <1>4, ConcatEmptySeq, CallSequences, QuietSequences
<1>6. Begin(y, w, u, s)
  BY <1>1
<1>7. Operates(owners, After(k, owners))
  BY <1>3
<1> QED BY <1>2, <1>5, <1>6, <1>7, WorkOne

LEMMA WorkRelease ==
  ASSUME TypeOK, NEW c \in Conn, NEW n \in Name, ReleaseName(c, n)
  PROVE  WorkInv'
<1>1. PICK s : s = ReleaseService(c, n)
  OBVIOUS
<1>2. Begin("request", c, {}, s) /\ UNCHANGED owners
  BY <1>1 DEF ReleaseName, busVars
<1>3. n \in AnyName /\ owners[n] \in Seq(Owner) /\ "released" \in Result
  BY DEF TypeOK, AnyName, Result
<1>4. CASE \E m : s = <<Send(m)>>
  <2>1. PICK m : s = <<Send(m)>>
    BY <1>4
  <2>2. Send(m).call = "send"
    BY DEF Send
  <2>3. Quiet(s)
    BY <2>1, <2>2, QuietSequences DEF OwnerCalls, Removal
  <2> QED BY <1>2, <2>3, WorkNone
<1>5. CASE ~\E m : s = <<Send(m)>>
  <2>1. PICK x : x = Send(Reply(c, n, "released"))
    OBVIOUS
  <2>2. Queued(owners[n], c) /\ s = <<RemoveOwner(n, c), x>>
    BY <1>1, <1>5, <2>1 DEF ReleaseService
  <2>3. x \in Call /\ x.call = "send"
    BY <1>3, <2>1, CallIntro, MessageIntro DEF Send
  <2>4. <<x>> \in Seq(Call) /\ Quiet(<<x>>)
    BY <2>3, CallSequences, QuietSequences DEF OwnerCalls, Removal
  <2>5. s = <<RemoveOwner(n, c)>> \o <<x>>
    BY <2>2
  <2>6. Queues!In(owners[n], c) /\ Queues!Without(owners[n], c) = Without(owners[n], c)
    BY <1>3, <2>2, SameWithout
  <2>7. Operates(owners, [owners EXCEPT ![n] = Without(owners[n], c)])
    BY <2>6 DEF Operates
  <2> QED BY <1>2, <1>3, <2>4, <2>5, <2>7, WorkRemoval
<1> QED BY <1>4, <1>5

LEMMA WorkActivate ==
  ASSUME TypeOK, NEW c \in Conn, NEW n \in Name, NEW a \in BOOLEAN, Activate(c, n, a)
  PROVE  WorkInv'
<1>1. PICK s : s = ActivateService(c, n, a)
  OBVIOUS
<1>2. Begin("call", c, {}, s) /\ UNCHANGED owners
  BY <1>1 DEF Activate, busVars
<1>3. PICK x, k, b : /\ x = Send(Answer(c, n)) /\ k = Register(n, c, a)
                     /\ b = IF pending[n] = <<>> THEN <<Spawn(n)>> ELSE <<>>
  OBVIOUS
<1>4. s = <<x>> \/ s = <<k>> \o b
  BY <1>1, <1>3 DEF ActivateService
<1>5. /\ x.call = "send"
      /\ k \in Call /\ k.call = "register"
      /\ Spawn(n) \in Call /\ Spawn(n).call = "spawn"
  BY <1>3, CallIntro DEF Send, Register, Spawn
<1>6. b \in Seq(Call) /\ Quiet(b)
  BY <1>3, <1>5, CallSequences, QuietSequences DEF OwnerCalls, Removal
<1>7. Quiet(<<x>>) /\ Quiet(<<k>>) /\ <<k>> \in Seq(Call)
  BY <1>5, CallSequences, QuietSequences DEF OwnerCalls, Removal
<1>8. Quiet(<<k>> \o b)
  BY <1>6, <1>7, QuietSequences
<1> QED BY <1>2, <1>4, <1>7, <1>8, WorkNone

(* The last name of a client, when only its unique name is left. *)
LEMMA LastOfOne ==
  ASSUME NEW S, NEW s \in Seq(S), s # <<>>, Once(s)
  PROVE  /\ Lists(s, Last(s)) /\ Lists(s, s[1])
         /\ Last(s) = s[1] => s = <<s[1]>>
<1>1. Len(s) \in Nat /\ Len(s) # 0 /\ DOMAIN s = 1..Len(s) /\ Last(s) = s[Len(s)]
  BY LenProperties, EmptySeq DEF Last
<1>2. 1 \in DOMAIN s /\ Len(s) \in DOMAIN s
  BY <1>1
<1>3. ASSUME Last(s) = s[1]
      PROVE  s = <<s[1]>>
  <2>1. Len(s) = 1
    BY <1>1, <1>2, <1>3 DEF Once
  <2>2. s = [i \in 1..Len(s) |-> s[i]]
    BY LenProperties
  <2> QED BY <2>1, <2>2
<1> QED BY <1>1, <1>2, <1>3 DEF Lists

LEMMA WorkRound ==
  ASSUME TypeOK, Distinct, Consistent, SignalInv, PresenceInv, DropLastName \/ FailNext
  PROVE  WorkInv'
<1>1. CASE DropLastName
  <2>1. PICK c, n : c = job.by /\ n = Last(owned[c])
    OBVIOUS
  <2>2. /\ phase \in {"idle", "round"} /\ UNCHANGED owners /\ owned[c] # <<>>
        /\ Begin("disconnect", c, {}, <<RemoveOwner(n, c)>>)
    BY <1>1, <2>1 DEF DropLastName, busVars
  <2>3. c \in Conn
    BY <1>1, <2>1 DEF DropLastName, TypeOK, Job, NoJob
  <2>4. owned[c] \in Seq(AnyName) /\ Once(owned[c])
    BY <2>2, <2>3, OwnedBetween DEF TypeOK
  <2>5. /\ Lists(owned[c], n)
        /\ n = owned[c][1] => owned[c] = <<n>>
    BY <2>1, <2>2, <2>4, LastOfOne
  <2>6. n \in AnyName
    BY <2>4, <2>5, LenProperties, ElementOfSeq DEF Lists
  <2>7. owners[n] \in Seq(Owner) /\ NoTwice(owners[n]) /\ Queued(owners[n], c)
    BY <2>2, <2>3, <2>5, <2>6, OwnedBetween DEF TypeOK, Distinct
  <2>8. Queues!In(owners[n], c) /\ Queues!Without(owners[n], c) = Without(owners[n], c)
    BY <2>7, SameWithout
  <2>9. PICK p : p = [owners EXCEPT ![n] = Without(owners[n], c)]
    OBVIOUS
  <2>10. Operates(owners, p)
    <3>1. CASE n \in Name
      BY <2>3, <2>8, <2>9, <3>1 DEF Operates
    <3>2. CASE n \in Conn
      <4>1. n = c /\ owned[c][1] = c
        BY <2>2, <2>3, <2>5, <3>2 DEF PresenceInv, Present
      <4>2. owned[c] = <<c>>
        BY <2>5, <4>1
      <4>3. \A m : Lists(owned[c], m) <=> m = c
        BY <4>2, ListsShort
      <4>4. \A m \in AnyName : owners[m] \in Seq(Owner)
        BY DEF TypeOK
      <4>5. \A m \in AnyName : Queues!In(owners[m], c) <=> m = c
        BY <2>2, <2>3, <4>3, <4>4, OwnedBetween, SameWithout
      <4>6. {m \in AnyName : Queues!In(owners[m], c)} = {c}
        BY <2>6, <4>1, <4>5
      <4>7. Without(owners[c], c) \in Seq(Owner)
        BY <2>7, <4>1, WithoutProperties
      <4>8. \A d \in Conn : ~Queued(Without(owners[c], c), d)
        <5>1. \A d : Queued(Without(owners[c], c), d) <=> Queued(owners[c], d) /\ d # c
          BY <2>7, <4>1, QueuedWithout
        <5> QED BY <2>3, <5>1 DEF SignalInv, Unique
      <4>9. Without(owners[c], c) = <<>>
        BY <4>7, <4>8, FirstOf
      <4> QED BY <2>3, <2>9, <4>1, <4>6, <4>9 DEF Operates
    <3> QED BY <2>6, <3>1, <3>2 DEF AnyName
  <2>11. RemoveOwner(n, c) \in Call
    BY <2>3, <2>6, CallIntro
  <2>12. <<RemoveOwner(n, c)>> = <<RemoveOwner(n, c)>> \o <<>>
    <3>1. <<RemoveOwner(n, c)>> \in Seq(Call)
      BY <2>11, CallSequences
    <3> QED BY <3>1, ConcatEmptySeq
  <2>13. <<>> \in Seq(Call) /\ Quiet(<<>>)
    BY CallSequences, QuietSequences
  <2> QED BY <2>2, <2>3, <2>6, <2>9, <2>10, <2>12, <2>13, WorkRemoval
<1>2. CASE FailNext
  <2>1. PICK n \in job.left : Begin("expire", job.by, job.left, Failures(n) \o <<Drop(n)>>)
    BY <1>2 DEF FailNext
  <2>2. n \in Name
    <3>1. job.left \subseteq Name
      BY <1>2 DEF FailNext, TypeOK, Job, NoJob
    <3> QED BY <3>1
  <2>3. Failures(n) \in Seq(Call) /\ <<Drop(n)>> \in Seq(Call)
    BY <2>2, CallIntro, CallsForEntries, CallSequences
  <2>4. \A k : Lists(Failures(n), k) => k.call = "send"
    BY DEF Failures, Lists, Send
  <2>5. Drop(n).call = "drop"
    BY DEF Drop
  <2>6. Quiet(Failures(n)) /\ Quiet(<<Drop(n)>>)
    BY <2>4, <2>5, QuietSequences DEF Quiet, OwnerCalls, Removal
  <2>7. Quiet(Failures(n) \o <<Drop(n)>>)
    BY <2>3, <2>6, QuietSequences
  <2>8. UNCHANGED owners
    BY <1>2 DEF FailNext, busVars
  <2> QED BY <2>1, <2>7, <2>8, WorkNone
<1> QED BY <1>1, <1>2

(* No memory fails, and no cancel hook runs. *)
LEMMA NothingFails ==
  ASSUME OomIn = {}, PresenceInv
  PROVE  /\ ~OutOfMemory
         /\ ~(UndoAddOwner \/ UndoRemoveOwner \/ UndoActivate \/ UndoForget \/ EndCancel)
<1>1. ~OutOfMemory
  BY DEF OutOfMemory, MayFail
<1>2. phase # "cancel"
  BY DEF PresenceInv
<1> QED BY <1>1, <1>2 DEF UndoAddOwner, UndoRemoveOwner, UndoActivate, UndoForget, EndCancel,
                          Cancelling

LEMMA NextWork ==
  ASSUME TypeOK, Distinct, Consistent, SignalInv, PresenceInv, WorkInv, Next, OomIn = {}
  PROVE  WorkInv' /\ Operated
<1>1. CASE \/ \E c \in Conn : Hello(c)
           \/ \E c \in Conn, n \in Name :
                \/ \E f \in Flags : RequestName(c, n, f)
                \/ ReleaseName(c, n)
                \/ \E auto \in BOOLEAN : Activate(c, n, auto)
           \/ DropLastName \/ FailNext
  <2>1. WorkInv'
    BY <1>1, WorkHello, WorkRequest, WorkRelease, WorkActivate, WorkRound
  <2>2. phase \in {"idle", "round"} /\ before' = owners
    BY <1>1 DEF Hello, RequestName, ReleaseName, Activate, DropLastName, FailNext, Begin,
                Speaks, Idle
  <2> QED BY <2>1, <2>2 DEF WorkInv, Operated
<1>2. CASE \/ \E c \in Conn : HangUp(c) \/ Disconnected(c)
           \/ \E n \in Name : TimeOut(n) \/ ChildFails(n) \/ ChildExits(n)
           \/ ForgetClient \/ FailedAll
  BY <1>2, WorkEvents
<1>3. CASE SendMessage \/ DeliverMessage \/ FreeHook \/ EndExecute
  BY <1>3, WorkExecution
<1>4. CASE RegistryCall \/ ActivationCall
  BY <1>4, WorkCalls
<1>5. /\ ~OutOfMemory
      /\ ~(UndoAddOwner \/ UndoRemoveOwner \/ UndoActivate \/ UndoForget \/ EndCancel)
  BY NothingFails
<1> QED BY <1>1, <1>2, <1>3, <1>4, <1>5 DEF Next, Outside, Handler

-----------------------------------------------------------------------------
(* Every step keeps a client on the bus as long as it owns its unique name. *)

(* A name that goes from a list is not the first, *)
LEMMA FirstKept ==
  ASSUME NEW S, NEW s \in Seq(S), NEW n, s # <<>>, s[1] # n
  PROVE  Disowned(s, n)[1] = s[1]
<1>1. Len(s) \in Nat /\ Len(s) # 0 /\ DOMAIN s = 1..Len(s)
  BY LenProperties, EmptySeq
<1>2. CASE \E i \in DOMAIN s : LastAt(s, n, i)
  <2>1. PICK i : i = CHOOSE j \in DOMAIN s : LastAt(s, n, j)
    OBVIOUS
  <2>2. i \in 1..Len(s) /\ s[i] = n
    BY <1>1, <1>2, <2>1 DEF LastAt
  <2>3. 1 \in 1..(Len(s) - 1) /\ 1 < i
    BY <1>1, <2>2
  <2>4. RemoveAt(s, i)[1] = s[1]
    BY <2>2, <2>3, RemoveAtProperties
  <2> QED BY <1>2, <2>1, <2>4 DEF Disowned
<1>3. CASE ~\E i \in DOMAIN s : LastAt(s, n, i)
  BY <1>3 DEF Disowned
<1> QED BY <1>2, <1>3

(* unless it is the unique name of a client that leaves. *)
LEMMA OneDisowned ==
  ASSUME TypeOK, Consistent, PresenceInv, NEW n \in AnyName, NEW c \in Conn,
         owned' = [owned EXCEPT ![c] = Disowned(@, n)], n \in Conn => Leaves(n)
  PROVE  \A d \in Conn :
           /\ \A m \in Conn : Lists(owned'[d], m) => m = d
           /\ owned'[d] # <<>> => owned'[d][1] = d
           /\ owned[d] = <<>> => owned'[d] = <<>>
           /\ owned[d] # <<>> => owned'[d] # <<>> \/ Departing(d)
           /\ LastName(d) => owned'[d] = <<>> \/ owned'[d] = <<d>>
<1>1. PICK s, t : s = owned[c] /\ t = Disowned(s, n)
  OBVIOUS
<1>2. owned'[c] = t /\ \A d \in Conn : d # c => owned'[d] = owned[d]
  BY <1>1 DEF TypeOK
<1>3. s \in Seq(AnyName) /\ Once(s) /\ t \in Seq(AnyName)
  <2>1. s \in Seq(AnyName) /\ Once(s)
    BY <1>1 DEF TypeOK, Consistent, OwnInv
  <2> QED BY <1>1, <2>1, DisownedType
<1>4. /\ \A m : Lists(t, m) <=> Lists(s, m) /\ m # n
      /\ ~Lists(s, n) => t = s
  BY <1>1, <1>3, DisownedProperties
<1>5. /\ \A m \in Conn : Lists(s, m) => m = c
      /\ s # <<>> => s[1] = c
  BY <1>1 DEF PresenceInv, Present
<1>6. s = <<>> => ~Lists(s, n)
  BY ListsShort
<1>7. CASE ~Lists(s, n)
  BY <1>1, <1>2, <1>4, <1>7 DEF PresenceInv, Present, LastName
<1>8. CASE Lists(s, n) /\ n \in Conn
  <2>1. n = c /\ Leaves(c) /\ s = <<c>>
    BY <1>1, <1>5, <1>6, <1>8 DEF Leaves, LastName
  <2>2. \A m : Lists(s, m) <=> m = c
    BY <2>1, ListsShort
  <2>3. \A m : ~Lists(t, m)
    BY <1>4, <2>1, <2>2
  <2>4. t = <<>>
    <3>1. Len(t) \in Nat /\ DOMAIN t = 1..Len(t) /\ (Len(t) = 0 => t = <<>>)
      BY <1>3, LenProperties, EmptySeq
    <3>2. \A i \in DOMAIN t : Lists(t, t[i])
      BY DEF Lists
    <3> QED BY <2>3, <3>1, <3>2
  <2> QED BY <1>1, <1>2, <2>1, <2>3, <2>4 DEF PresenceInv, Present, LastName, Leaves
<1>9. CASE Lists(s, n) /\ n \notin Conn
  <2>1. s # <<>> /\ s[1] = c /\ n # c
    BY <1>5, <1>6, <1>9
  <2>2. t[1] = c /\ Lists(s, c)
    <3>1. t[1] = s[1]
      BY <1>1, <1>3, <2>1, FirstKept
    <3> QED BY <1>3, <2>1, <3>1, LastOfOne
  <2>3. t # <<>>
    BY <1>4, <2>1, <2>2, ListsShort
  <2>4. s # <<c>>
    <3>1. \A m : Lists(<<c>>, m) <=> m = c
      BY ListsShort
    <3> QED BY <1>9, <2>1, <3>1
  <2>5. \A m \in Conn : Lists(t, m) => m = c
    BY <1>4, <1>5
  <2> QED BY <1>1, <1>2, <2>1, <2>2, <2>3, <2>4, <2>5 DEF PresenceInv, Present, LastName
<1> QED BY <1>7, <1>8, <1>9

(* What the calls and hooks need depends on the job and the lists. *)
LEMMA FitsKept ==
  ASSUME UNCHANGED owned, job'.why = job.why, job'.by = job.by
  PROVE  /\ \A k : Fits(k)' <=> Fits(k)
         /\ \A h : HookFits(h)' <=> HookFits(h)
         /\ \A c : Departing(c)' <=> Departing(c)
<1>1. PICK s, y, w : s = owned /\ y = job.why /\ w = job.by
  OBVIOUS
<1>2. owned' = s /\ job'.why = y /\ job'.by = w
  BY <1>1
<1> QED BY <1>1, <1>2 DEF Fits, HookFits, Leaves, LastName, Departing

(* A call returns or makes others, and no list changes. *)
LEMMA PresenceCall ==
  ASSUME TypeOK, TypeOK', PresenceInv, NEW f, Calling(f), UNCHANGED <<owned, link>>,
         phase' = "run", job'.why = job.why, job'.by = job.by,
         active' = IF f = "complete" THEN active \cup {Top.conn} ELSE active,
         \A k : Lists(todo', k) =>
           \/ Lists(Tail(todo), k)
           \/ k.call \notin {"link_owner", "complete"} /\ Fits(k),
         \A k : Lists(Tail(todo), k) /\ k.call = "link_owner" => Lists(todo', k),
         f = "link_owner" /\ Top.name \in Conn => owned[Top.name] # <<>>,
         \A h : Lists(hooks', h) => Lists(hooks, h) \/ HookFits(h)
  PROVE  PresenceInv'
<1>1. /\ todo # <<>> /\ Top.call = f
      /\ \A k : Lists(todo, k) <=> k = Top \/ Lists(Tail(todo), k)
  BY TopOf
<1>2. \A k : Lists(Tail(todo), k) => k.call # "complete"
  BY <1>1 DEF PresenceInv, Completing
<1>3. Completing'
  <2>1. SUFFICES ASSUME todo' # <<>>
                 PROVE  \A k : Lists(todo', k) => k.call # "complete"
    <3>1. PICK u : u = todo'
      OBVIOUS
    <3>2. u \in Seq(Call)
      BY <3>1 DEF TypeOK
    <3>3. u # <<>> => \A k : Lists(u, k) <=> k = Head(u) \/ Lists(Tail(u), k)
      BY <3>2, ListsTail
    <3> QED BY <2>1, <3>1, <3>3 DEF Completing, Top
  <2> QED BY <1>2
<1>4. \A c \in Conn : Joins(c)' <=> \E k : Lists(Tail(todo), k) /\ k.call = "link_owner" /\ k.name = c
  BY DEF Joins
<1>5. \A c \in Conn :
        Joins(c) <=> Joins(c)' \/ (f = "link_owner" /\ Top.name = c)
  BY <1>1, <1>4 DEF Joins
<1>6. ASSUME NEW c \in Conn
      PROVE  Present(c)'
  <2>1. PICK a, s, l : a = active' /\ s = owned[c] /\ l = link[c]
    OBVIOUS
  <2>2. owned'[c] = s /\ link'[c] = l
    BY <2>1
  <2>3. /\ \A n \in Conn : Lists(s, n) => n = c
        /\ s # <<>> => s[1] = c
    BY <2>1 DEF PresenceInv, Present
  <2>4. c \in a /\ l # "gone" => s # <<>> \/ Joins(c)' \/ Departing(c)'
    <3>1. CASE c \in active
      <4>1. l # "gone" => s # <<>> \/ Joins(c) \/ Departing(c)
        BY <2>1, <3>1 DEF PresenceInv, Present
      <4> QED BY <1>5, <2>1, <4>1, FitsKept
    <3>2. CASE c \notin active
      <4>1. c \in a => f = "complete" /\ c = Top.conn
        BY <2>1, <3>2
      <4>2. c \in a => Joins(c)
        BY <1>1, <4>1 DEF PresenceInv, Completing
      <4> QED BY <1>5, <4>1, <4>2
    <3> QED BY <3>1, <3>2
  <2>5. c \notin a => s = <<>> /\ ~Joins(c)'
    <3>1. SUFFICES ASSUME c \notin a
                   PROVE  s = <<>> /\ ~Joins(c)'
      OBVIOUS
    <3>2. c \notin active
      BY <2>1, <3>1
    <3>3. s = <<>> /\ (Joins(c) => Top = Complete(c))
      BY <2>1, <3>2 DEF PresenceInv, Present
    <3>4. Joins(c) => f = "complete" /\ Top.conn = c
      BY <1>1, <3>3 DEF Complete
    <3>5. ~Joins(c)
      BY <2>1, <3>1, <3>4
    <3> QED BY <1>5, <3>3, <3>5
  <2> QED BY <2>1, <2>2, <2>3, <2>4, <2>5 DEF Present
<1>7. \A k : Lists(todo', k) => Fits(k)'
  <2>1. \A k : Lists(todo', k) => Fits(k)
    BY <1>1 DEF PresenceInv
  <2> QED BY <2>1, FitsKept
<1>8. \A h : Lists(hooks', h) => HookFits(h)'
  <2>1. \A h : Lists(hooks', h) => HookFits(h)
    BY DEF PresenceInv
  <2> QED BY <2>1, FitsKept
<1> QED BY <1>3, <1>6, <1>7, <1>8 DEF PresenceInv

(* A list changes, and no call that changes queues is left. *)
LEMMA PresenceDisowned ==
  ASSUME TypeOK, TypeOK', Consistent, PresenceInv, NEW n \in AnyName, NEW c \in Conn,
         owned' = [owned EXCEPT ![c] = Disowned(@, n)], n \in Conn => Leaves(n),
         UNCHANGED <<link, active, job>>, phase' = "run",
         \A k : Lists(todo, k) => k.call # "link_owner",
         \A k : Lists(todo', k) =>
           k.call \notin {"link_owner", "remove_owner", "unlink_owner", "complete"},
         \A h : Lists(hooks', h) => Lists(hooks, h)
  PROVE  PresenceInv'
<1>1. Completing'
  <2>1. PICK u : u = todo'
    OBVIOUS
  <2>2. u \in Seq(Call)
    BY <2>1 DEF TypeOK
  <2>3. u # <<>> => \A k : Lists(u, k) <=> k = Head(u) \/ Lists(Tail(u), k)
    BY <2>2, ListsTail
  <2>4. \A k : Lists(u, k) => k.call # "complete"
    BY <2>1
  <2> QED BY <2>1, <2>3, <2>4 DEF Completing, Top
<1>2. \A d : ~Joins(d) /\ ~Joins(d)'
  BY DEF Joins
<1>3. PICK y, w, a, l : y = job.why /\ w = job.by /\ a = active /\ l = link
  OBVIOUS
<1>4. job'.why = y /\ job'.by = w /\ active' = a /\ link' = l
  BY <1>3
<1>5. \A d : Departing(d)' <=> Departing(d)
  BY <1>3, <1>4 DEF Departing
<1>6. \A d \in Conn : Present(d)'
  <2>1. SUFFICES ASSUME NEW d \in Conn
                 PROVE  Present(d)'
    OBVIOUS
  <2>2. PICK s, t : s = owned[d] /\ t = owned'[d]
    OBVIOUS
  <2>3. /\ \A m \in Conn : Lists(t, m) => m = d
        /\ t # <<>> => t[1] = d
        /\ s = <<>> => t = <<>>
        /\ s # <<>> => t # <<>> \/ Departing(d)
    BY <2>2, OneDisowned
  <2>4. /\ d \in a /\ l[d] # "gone" => s # <<>> \/ Departing(d)
        /\ d \notin a => s = <<>>
    BY <1>2, <1>3, <2>2 DEF PresenceInv, Present
  <2> QED BY <1>2, <1>4, <1>5, <2>2, <2>3, <2>4 DEF Present
<1>7. \A d \in Conn : Leaves(d) => Leaves(d)'
  <2>1. \A d \in Conn : LastName(d) => LastName(d)'
    BY OneDisowned DEF LastName
  <2> QED BY <1>5, <2>1 DEF Leaves
<1>8. \A k : Lists(todo', k) => Fits(k)'
  BY DEF Fits
<1>9. \A h : Lists(hooks', h) => HookFits(h)'
  BY <1>7 DEF PresenceInv, HookFits
<1> QED BY <1>1, <1>6, <1>8, <1>9 DEF PresenceInv

(* A step that changes neither lists nor calls. *)
LEMMA PresenceStill ==
  ASSUME PresenceInv, UNCHANGED <<owned, active, job, todo, hooks, phase>>,
         \A c \in Conn : link'[c] # "gone" => link[c] # "gone"
  PROVE  PresenceInv'
<1>1. PICK a, s, l, y, u, h, p :
        /\ a = active /\ s = owned /\ l = link /\ y = job /\ u = todo /\ h = hooks /\ p = phase
  OBVIOUS
<1>2. active' = a /\ owned' = s /\ job' = y /\ todo' = u /\ hooks' = h /\ phase' = p
  BY <1>1
<1>3. \A c : Joins(c)' <=> Joins(c)
  BY <1>1, <1>2 DEF Joins
<1>4. \A c : Departing(c)' <=> Departing(c)
  BY <1>1, <1>2 DEF Departing
<1>5. \A c \in Conn : Present(c)'
  BY <1>1, <1>2, <1>3, <1>4 DEF PresenceInv, Present, Top
<1>6. Completing'
  <2>1. Completing
    BY DEF PresenceInv
  <2> QED BY <1>1, <1>2, <1>3, <2>1 DEF Completing, Top
<1>7. (\A k : Fits(k)' <=> Fits(k)) /\ (\A x : HookFits(x)' <=> HookFits(x))
  BY FitsKept
<1> QED BY <1>1, <1>2, <1>5, <1>6, <1>7 DEF PresenceInv

(* Between two transactions. *)
LEMMA PresenceRest ==
  ASSUME PresenceInv, todo = <<>>, todo' = <<>>, hooks' = <<>>, UNCHANGED <<owned, active>>,
         phase' \in {"idle", "round"}, phase' = "idle" => job' = NoJob,
         \A c \in Conn : link'[c] # "gone" => link[c] # "gone" /\ (Departing(c) => Departing(c)')
  PROVE  PresenceInv'
<1>1. \A x : ~Lists(<<>>, x)
  BY ListsShort
<1>2. \A c : ~Joins(c) /\ ~Joins(c)'
  BY <1>1 DEF Joins
<1>3. \A c \in Conn : Present(c)'
  <2>1. PICK a, s : a = active /\ s = owned
    OBVIOUS
  <2>2. active' = a /\ owned' = s
    BY <2>1
  <2> QED BY <1>2, <2>1, <2>2 DEF PresenceInv, Present
<1>4. Completing'
  BY DEF Completing
<1> QED BY <1>1, <1>3, <1>4 DEF PresenceInv

(* A handler begins that does not concern unique names, or a client leaves. *)
LEMMA PresenceBegin ==
  ASSUME PresenceInv, todo = <<>>, NEW y, NEW w, NEW u, NEW s \in Seq(Call), Begin(y, w, u, s),
         UNCHANGED <<link, active, owned>>,
         \A d \in Conn : Departing(d) => y = "disconnect" /\ w = d,
         \A k : Lists(s, k) =>
           /\ k.call # "complete"
           /\ k.call = "link_owner" =>
                y = "request" /\ k.name \notin Conn /\ owned[k.conn] # <<>>
           /\ k.call \in {"remove_owner", "unlink_owner"} /\ k.name \in Conn =>
                y = "disconnect" /\ w = k.name /\ LastName(k.name)
  PROVE  PresenceInv'
<1>1. \A x : ~Lists(<<>>, x)
  BY ListsShort
<1>2. /\ todo' = s /\ hooks' = <<>> /\ phase' = "run" /\ job'.why = y /\ job'.by = w
  BY DEF Begin
<1>3. \A c \in Conn : ~Joins(c) /\ ~Joins(c)'
  BY <1>1, <1>2 DEF Joins
<1>4. PICK a, o, l : a = active /\ o = owned /\ l = link
  OBVIOUS
<1>5. active' = a /\ owned' = o /\ link' = l
  BY <1>4
<1>6. \A d \in Conn : Departing(d) => Departing(d)'
  BY <1>2 DEF Departing
<1>7. \A c \in Conn : Present(c)'
  BY <1>3, <1>4, <1>5, <1>6 DEF PresenceInv, Present
<1>8. Completing'
  <2>1. s # <<>> => \A k : Lists(s, k) <=> k = Head(s) \/ Lists(Tail(s), k)
    BY ListsTail
  <2> QED BY <1>2, <2>1 DEF Completing, Top
<1>9. \A k : Lists(s, k) => Fits(k)'
  BY <1>2, <1>4, <1>5 DEF Fits, Leaves, LastName, Departing
<1> QED BY <1>1, <1>2, <1>7, <1>8, <1>9 DEF PresenceInv

-----------------------------------------------------------------------------
(* The calls.                                                              *)

(* A call that returns, and may add a hook. *)
LEMMA PresenceReturn ==
  ASSUME TypeOK, TypeOK', PresenceInv, NEW f, Calling(f), Return, UNCHANGED <<owned, link>>,
         phase' = "run", job'.why = job.why, job'.by = job.by,
         active' = IF f = "complete" THEN active \cup {Top.conn} ELSE active,
         f = "link_owner" /\ Top.name \in Conn => owned[Top.name] # <<>>,
         hooks' = hooks \/ \E h \in Hook : hooks' = <<h>> \o hooks /\ HookFits(h)
  PROVE  PresenceInv'
<1>1. todo' = Tail(todo)
  BY DEF Return
<1>2. \A h : Lists(hooks', h) => Lists(hooks, h) \/ HookFits(h)
  <2>1. CASE hooks' = hooks
    BY <2>1
  <2>2. CASE \E h \in Hook : hooks' = <<h>> \o hooks /\ HookFits(h)
    <3>1. PICK h \in Hook : hooks' = <<h>> \o hooks /\ HookFits(h)
      BY <2>2
    <3>2. hooks \in Seq(Hook)
      BY DEF TypeOK
    <3> QED BY <3>1, <3>2, ListsCons
  <2> QED BY <2>1, <2>2
<1> QED BY <1>1, <1>2, PresenceCall

(* A call that is replaced by others. *)
LEMMA PresenceMade ==
  ASSUME TypeOK, TypeOK', PresenceInv, NEW f, Calling(f), f \notin {"complete", "link_owner"},
         NEW s \in Seq(Call), Make(s),
         \A k : Lists(s, k) => k.call \notin {"link_owner", "complete"} /\ Fits(k),
         UNCHANGED <<owned, link, phase, job, active, hooks>>
  PROVE  PresenceInv'
<1>1. todo' = s \o Tail(todo) /\ Tail(todo) \in Seq(Call) /\ phase = "run"
  BY TopOf DEF Make
<1>2. \A k : Lists(todo', k) <=> Lists(s, k) \/ Lists(Tail(todo), k)
  BY <1>1, ListsConcat
<1> QED BY <1>1, <1>2, PresenceCall

LEMMA PresenceSuccession ==
  ASSUME TypeOK, TypeOK', PresenceInv, RemovePrimary \/ SwapPrimary
  PROVE  PresenceInv'
<1> DEFINE Change(f) ==
       IF f = "remove_owner" THEN UnlinkOwner(Top.name, owners[Top.name][1])
                             ELSE SwapLinks(Top.name, owners[Top.name][1])
<1>0. PICK f : /\ f \in {"remove_owner", "swap_owner"}
               /\ Calling(f) /\ Primary(Top.name) = Top.conn
               /\ Make(<<Send(Lost(Top.conn, Top.name))>> \o Succession(Top.name, Top.conn)
                         \o <<Change(f)>>)
               /\ UNCHANGED <<owned, link, phase, job, active, hooks>>
  <2>1. CASE RemovePrimary
    BY <2>1 DEF RemovePrimary, unseen
  <2>2. CASE SwapPrimary
    BY <2>2 DEF SwapPrimary, unseen
  <2> QED BY <2>1, <2>2
<1>1. PICK n, c, o, k : n = Top.name /\ c = Top.conn /\ o = owners[n][1] /\ k = Change(f)
  OBVIOUS
<1>2. Top \in Call /\ Top.call = f /\ Lists(todo, Top)
  BY <1>0, TopOf
<1>3. n \in AnyName /\ c \in Conn
  BY <1>0, <1>1, <1>2, CallFields
<1>4. owners[n] # <<>> /\ o \in Owner
  <2>1. owners[n] # <<>>
    BY <1>0, <1>1, <1>3, ConnAssumption DEF Primary
  <2> QED BY <1>1, <1>3, <2>1, FirstOwner
<1>5. k \in Call /\ k.name = n /\ k.call = IF f = "remove_owner" THEN "unlink_owner" ELSE "swap_links"
  BY <1>0, <1>1, <1>3, <1>4, CallIntro DEF UnlinkOwner, SwapLinks
<1>6. PICK a : a = <<Send(Lost(c, n))>> \o Succession(n, c)
  OBVIOUS
<1>7. a \in Seq(Call) /\ \A j : Lists(a, j) => j.call = "send"
  <2>1. a \in Seq(Call)
    BY <1>3, <1>4, <1>6, SuccessionForm
  <2>2. /\ <<Send(Lost(c, n))>> \in Seq(Call) /\ Succession(n, c) \in Seq(Call)
    <3>1. Send(Lost(c, n)) \in Call
      BY <1>3, MessageIntro, CallIntro
    <3> QED BY <1>3, <1>4, <3>1, CallSequences, SuccessionCalls
  <2>3. \A j : Lists(<<Send(Lost(c, n))>>, j) => j.call = "send"
    BY ListsShort, SendForm
  <2>4. \A j : Lists(Succession(n, c), j) => j.call = "send"
    <3>1. PICK x, y : x = Send(Changed(n, c, Heir(n))) /\ y = Send(Acquired(Heir(n), n))
      OBVIOUS
    <3>2. x.call = "send" /\ y.call = "send"
      BY <3>1, SendForm
    <3>3. PICK b : b = IF Heir(n) = NoOne THEN <<>> ELSE <<y>>
      OBVIOUS
    <3>4. Succession(n, c) = <<x>> \o b
      BY <3>1, <3>3 DEF Succession
    <3>5. PICK S : x \in S /\ y \in S
      <4>1. x \in {x, y} /\ y \in {x, y}
        OBVIOUS
      <4> QED BY <4>1
    <3>6. <<x>> \in Seq(S) /\ b \in Seq(S)
      <4>1. <<x>> \in Seq(S) /\ <<y>> \in Seq(S) /\ <<>> \in Seq(S)
        BY <3>5
      <4> QED BY <3>3, <4>1
    <3>7. \A j : Lists(<<x>>, j) \/ Lists(b, j) => j = x \/ j = y
      BY <3>3, ListsShort
    <3>8. \A j : Lists(<<x>> \o b, j) => j = x \/ j = y
      BY <3>7, <3>6, ListsConcat
    <3> QED BY <3>2, <3>4, <3>8
  <2> QED BY <1>6, <2>1, <2>2, <2>3, <2>4, ListsConcat
<1>8. <<k>> \in Seq(Call) /\ \A j : Lists(<<k>>, j) <=> j = k
  BY <1>5, CallSequences, ListsShort
<1>9. PICK s : s = a \o <<k>>
  OBVIOUS
<1>10. s \in Seq(Call) /\ \A j : Lists(s, j) <=> Lists(a, j) \/ j = k
  BY <1>7, <1>8, <1>9, ListsConcat
<1>11. \A j : Lists(a, j) => j.call \notin {"link_owner", "complete"} /\ Fits(j)
  BY <1>7 DEF Fits
<1>12. k.call \notin {"link_owner", "complete"} /\ Fits(k)
  <2>1. f = "remove_owner" /\ n \in Conn => Leaves(n)
    BY <1>0, <1>1, <1>2 DEF PresenceInv, Fits
  <2> QED BY <1>0, <1>5, <2>1 DEF Fits
<1>13. Make(s)
  BY <1>0, <1>1, <1>6, <1>9
<1> QED BY <1>0, <1>10, <1>11, <1>12, <1>13, PresenceMade

(* Who is in a queue that is not the one of a departed owner is listed. *)
LEMMA PresenceRelink ==
  ASSUME TypeOK, TypeOK', Consistent, PresenceInv, RelinkOwner
  PROVE  PresenceInv'
<1>1. /\ Calling("link_owner") /\ Return /\ Queued(owners[Top.name], Top.conn)
      /\ UNCHANGED <<owned, link, phase, job, active, hooks>>
  BY DEF RelinkOwner, unseen
<1>2. Top \in Call /\ Top.call = "link_owner" /\ Lists(todo, Top) /\ phase = "run"
  BY <1>1, TopOf
<1>3. Top.name \in AnyName /\ Top.conn \in Conn
  BY <1>2, CallFields
<1>4. Lists(owned[Top.conn], Top.name)
  BY <1>1, <1>3 DEF Consistent, OwnInv
<1>5. owned[Top.conn] # <<>>
  BY <1>4, ListsShort
<1>6. Top.name \notin Conn
  BY <1>2, <1>5 DEF PresenceInv, Fits
<1> QED BY <1>1, <1>2, <1>6, PresenceReturn

LEMMA PresenceUnlink ==
  ASSUME TypeOK, TypeOK', PresenceInv, UnlinkPrimary \/ SwapFirstTwo
  PROVE  PresenceInv'
<1>1. PICK f, i : /\ (f = "unlink_owner" /\ i = 1) \/ (f = "swap_links" /\ i = 2)
                  /\ Calling(f) /\ Return
                  /\ hooks' = <<RestoreOwnership(Top.name, Top.owner, i)>> \o hooks
                  /\ UNCHANGED <<owned, link, phase, job, active>>
  <2>1. CASE UnlinkPrimary
    <3>1. /\ Calling("unlink_owner") /\ Return
          /\ hooks' = <<RestoreOwnership(Top.name, Top.owner, 1)>> \o hooks
          /\ UNCHANGED <<owned, link, phase, job, active>>
      BY <2>1 DEF UnlinkPrimary, unseen
    <3> QED BY <3>1
  <2>2. CASE SwapFirstTwo
    <3>1. /\ Calling("swap_links") /\ Return
          /\ hooks' = <<RestoreOwnership(Top.name, Top.owner, 2)>> \o hooks
          /\ UNCHANGED <<owned, link, phase, job, active>>
      BY <2>2 DEF SwapFirstTwo, unseen
    <3> QED BY <3>1
  <2> QED BY <2>1, <2>2
<1>2. Top \in Call /\ Top.call = f /\ Lists(todo, Top) /\ phase = "run"
  BY <1>1, TopOf
<1>3. Top.name \in AnyName /\ Top.owner \in Owner
  BY <1>1, <1>2, CallFields
<1>4. PICK h : h = RestoreOwnership(Top.name, Top.owner, i)
  OBVIOUS
<1>5. h \in Hook /\ h.at = i /\ h.name = Top.name
  BY <1>1, <1>3, <1>4, HookIntro DEF RestoreOwnership
<1>6. HookFits(h)
  <2>1. f = "unlink_owner" /\ Top.name \in Conn => Leaves(Top.name)
    BY <1>2 DEF PresenceInv, Fits
  <2> QED BY <1>1, <1>5, <2>1 DEF HookFits
<1> QED BY <1>1, <1>2, <1>4, <1>5, <1>6, PresenceReturn

(* After a client was linked nobody is, and no unique name goes. *)
LEMMA AfterLink ==
  ASSUME TypeOK, SignalInv, PresenceInv, Calling("link_owner")
  PROVE  /\ \A k : Lists(Tail(todo), k) => k.call \notin {"link_owner", "complete"}
         /\ \A k : Lists(Tail(todo), k) /\ k.call \in {"remove_owner", "unlink_owner"} =>
              k.name \notin Conn
         /\ \A h : Lists(hooks, h) /\ h.hook = "restore_ownership" /\ h.at = 1 => h.name \notin Conn
<1>1. Top.call = "link_owner" /\ todo # <<>> /\ \A k : Lists(todo, k) <=> k = Top \/ Lists(Tail(todo), k)
  BY TopOf
<1>2. job.why = "request"
  BY <1>1 DEF PresenceInv, Fits
<1>3. \A c : ~Leaves(c)
  BY <1>2 DEF Leaves, Departing
<1>4. PICK p : Stage(p)
  BY DEF SignalInv, Works, Calling
<1>5. \A k : Lists(Tail(todo), k) => k.call # "link_owner"
  <2>1. CASE AllPlain(Tail(todo))
    BY <2>1 DEF AllPlain, Plain, OwnerCalls
  <2>2. CASE \E k \in Call, b \in Seq(Call) :
               Tail(todo) = <<k>> \o b /\ AllPlain(b) /\ Leaving(k)
    <3>1. PICK k \in Call, b \in Seq(Call) :
            Tail(todo) = <<k>> \o b /\ AllPlain(b) /\ Leaving(k)
      BY <2>2
    <3>2. \A x : Lists(Tail(todo), x) <=> x = k \/ Lists(b, x)
      <4>1. PICK u : u = Tail(todo)
        OBVIOUS
      <4>2. \A x : Lists(<<k>> \o b, x) <=> x = k \/ Lists(b, x)
        BY ListsCons
      <4> QED BY <3>1, <4>1, <4>2
    <3>3. k.call # "link_owner"
      BY <3>1 DEF Leaving
    <3>4. \A x : Lists(b, x) => x.call # "link_owner"
      BY <3>1 DEF AllPlain, Plain, OwnerCalls
    <3> QED BY <3>2, <3>3, <3>4
  <2>3. "link_owner" \in OwnerCalls
    BY DEF OwnerCalls
  <2>4. \/ AllPlain(Tail(todo))
        \/ \E k \in Call, b \in Seq(Call) :
             Tail(todo) = <<k>> \o b /\ AllPlain(b) /\ Leaving(k)
    BY <1>4, <2>3, StageOfOwner
  <2> QED BY <2>1, <2>2, <2>4
<1>6. \A k : Lists(Tail(todo), k) => k.call # "complete"
  BY <1>1 DEF PresenceInv, Completing
<1>7. \A k : Lists(Tail(todo), k) => Fits(k)
  BY <1>1 DEF PresenceInv
<1> QED BY <1>3, <1>5, <1>6, <1>7 DEF PresenceInv, Fits, HookFits

LEMMA PresenceLink ==
  ASSUME TypeOK, TypeOK', SignalInv, PresenceInv, LinkNewOwner
  PROVE  PresenceInv'
<1>1. PICK c, n, s, t : /\ c = Top.conn /\ n = Top.name
                        /\ s = owned[c] /\ t = Append(s, n)
  OBVIOUS
<1>2. /\ Calling("link_owner") /\ todo' = Tail(todo)
      /\ owned' = [owned EXCEPT ![c] = Append(@, n)]
      /\ hooks' = <<CancelOwnership(n, c)>> \o hooks
      /\ UNCHANGED <<link, phase, job, active>>
  BY <1>1 DEF LinkNewOwner, Return, unseen
<1>3. /\ Top \in Call /\ Top.call = "link_owner" /\ phase = "run" /\ Tail(todo) \in Seq(Call)
      /\ \A k : Lists(todo, k) <=> k = Top \/ Lists(Tail(todo), k)
  BY <1>2, TopOf
<1>4. c \in Conn /\ n \in AnyName
  BY <1>1, <1>3, CallFields
<1>5. Fits(Top)
  BY <1>3 DEF PresenceInv
<1>6. /\ job.why = "request"
      /\ n \in Conn => c = n /\ s = <<>>
      /\ n \notin Conn => s # <<>>
  BY <1>1, <1>3, <1>5 DEF Fits
<1>7. /\ \A k : Lists(Tail(todo), k) => k.call \notin {"link_owner", "complete"}
      /\ \A k : Lists(Tail(todo), k) /\ k.call \in {"remove_owner", "unlink_owner"} =>
           k.name \notin Conn
      /\ \A h : Lists(hooks, h) /\ h.hook = "restore_ownership" /\ h.at = 1 => h.name \notin Conn
  BY <1>2, AfterLink
<1>8. owned'[c] = t /\ s \in Seq(AnyName) /\ \A d \in Conn : d # c => owned'[d] = owned[d]
  BY <1>1, <1>2, <1>4 DEF TypeOK
<1>9. c \in active
  <2>1. CASE n \in Conn
    <3>1. Joins(c)
      BY <1>1, <1>3, <1>6, <2>1 DEF Joins
    <3>2. Top # Complete(c)
      BY <1>3 DEF Complete
    <3> QED BY <1>4, <3>1, <3>2 DEF PresenceInv, Present
  <2>2. CASE n \notin Conn
    BY <1>1, <1>4, <1>6, <2>2 DEF PresenceInv, Present
  <2> QED BY <2>1, <2>2
<1>10. /\ t # <<>> /\ t[1] = c
       /\ \A m \in Conn : Lists(t, m) => m = c
  <2>1. \A m : Lists(t, m) <=> Lists(s, m) \/ m = n
    BY <1>1, <1>4, <1>8, ListsAppend
  <2>2. \A m \in Conn : Lists(s, m) => m = c
    BY <1>1, <1>4 DEF PresenceInv, Present
  <2>3. t # <<>>
    BY <2>1, ListsShort
  <2>4. s # <<>> => s[1] = c
    BY <1>1, <1>4 DEF PresenceInv, Present
  <2>5. t[1] = c
    <3>1. CASE n \in Conn
      BY <1>1, <1>6, <3>1
    <3>2. CASE n \notin Conn
      <4>1. Len(s) \in Nat /\ Len(s) # 0
        BY <1>6, <1>8, <3>2, LenProperties, EmptySeq
      <4>2. t[1] = s[1]
        BY <1>1, <1>4, <1>8, <4>1, AppendProperties
      <4> QED BY <1>6, <2>4, <3>2, <4>2
    <3> QED BY <3>1, <3>2
  <2> QED BY <1>6, <2>1, <2>2, <2>3, <2>5
<1>11. PICK a, l : a = active /\ l = link
  OBVIOUS
<1>12. active' = a /\ link' = l
  BY <1>2, <1>11
<1>13. \A d : ~Departing(d) /\ ~Departing(d)' /\ ~Joins(d)'
  BY <1>2, <1>6, <1>7 DEF Departing, Joins
<1>14. \A d \in Conn : d # c => ~Joins(d)
  BY <1>1, <1>3, <1>6, <1>7 DEF Joins
<1>15. \A d \in Conn : Present(d)'
  <2>1. Present(c)'
    BY <1>8, <1>9, <1>10, <1>11, <1>12, <1>13 DEF Present
  <2>2. ASSUME NEW d \in Conn, d # c
        PROVE  Present(d)'
    <3>1. PICK r : r = owned[d]
      OBVIOUS
    <3>2. owned'[d] = r
      BY <1>8, <2>2, <3>1
    <3> QED BY <1>11, <1>12, <1>13, <1>14, <2>2, <3>1, <3>2 DEF PresenceInv, Present
  <2> QED BY <2>1, <2>2
<1>16. Completing'
  <2>1. PICK u : u = Tail(todo)
    OBVIOUS
  <2>2. u # <<>> => \A k : Lists(u, k) <=> k = Head(u) \/ Lists(Tail(u), k)
    BY <1>3, <2>1, ListsTail
  <2> QED BY <1>2, <1>7, <2>1, <2>2 DEF Completing, Top
<1>17. \A k : Lists(todo', k) => Fits(k)'
  BY <1>2, <1>7 DEF Fits
<1>18. \A h : Lists(hooks', h) => HookFits(h)'
  <2>1. hooks \in Seq(Hook) /\ CancelOwnership(n, c) \in Hook
    BY <1>4, HookIntro DEF TypeOK
  <2>2. \A h : Lists(hooks', h) <=> h = CancelOwnership(n, c) \/ Lists(hooks, h)
    BY <1>2, <2>1, ListsCons
  <2>3. CancelOwnership(n, c).hook # "restore_ownership"
    BY HookForm
  <2> QED BY <1>7, <2>2, <2>3 DEF HookFits
<1> QED BY <1>2, <1>3, <1>15, <1>16, <1>17, <1>18 DEF PresenceInv

LEMMA PresenceRemoval ==
  ASSUME TypeOK, TypeOK', Consistent, SignalInv, PresenceInv, RemoveWaiting
  PROVE  PresenceInv'
<1>1. /\ Calling("remove_owner") /\ todo' = Tail(todo)
      /\ owned' = [owned EXCEPT ![Top.conn] = Disowned(@, Top.name)]
      /\ UNCHANGED <<link, active, job, hooks, phase>>
  BY DEF RemoveWaiting, Return, unseen
<1>2. /\ Top \in Call /\ Top.call = "remove_owner" /\ phase = "run" /\ todo # <<>>
      /\ \A k : Lists(todo, k) <=> k = Top \/ Lists(Tail(todo), k)
  BY <1>1, TopOf
<1>3. Top.name \in AnyName /\ Top.conn \in Conn
  BY <1>2, CallFields
<1>4. Top.name \in Conn => Leaves(Top.name)
  BY <1>2 DEF PresenceInv, Fits
<1>5. PICK p : Stage(p)
  BY <1>2 DEF SignalInv, Works
<1>6. AllPlain(Tail(todo))
  <2>1. "remove_owner" \in OwnerCalls
    BY DEF OwnerCalls, Removal
  <2> QED BY <1>1, <1>5, <2>1, StageOfOwner
<1>7. \A k : Lists(Tail(todo), k) =>
           k.call \notin {"link_owner", "remove_owner", "unlink_owner", "complete"}
  <2>1. \A k : Lists(Tail(todo), k) => k.call # "complete"
    BY <1>2 DEF PresenceInv, Completing
  <2>2. \A k : Lists(Tail(todo), k) => k.call \notin OwnerCalls
    BY <1>6 DEF AllPlain, Plain
  <2> QED BY <2>1, <2>2 DEF OwnerCalls, Removal
<1>8. \A k : Lists(todo, k) => k.call # "link_owner"
  BY <1>2, <1>7
<1> QED BY <1>1, <1>2, <1>3, <1>4, <1>7, <1>8, PresenceDisowned

LEMMA PresenceFree ==
  ASSUME TypeOK, TypeOK', Consistent, PresenceInv, FreeHook
  PROVE  PresenceInv'
<1>1. PICK h, r : h = Head(hooks) /\ r = Tail(hooks)
  OBVIOUS
<1>2. /\ phase = "run" /\ todo = <<>> /\ hooks # <<>> /\ hooks' = r
      /\ UNCHANGED <<link, active, job, todo, phase>>
      /\ owned' = IF h.hook = "restore_ownership" /\ h.at = 1
                    THEN [owned EXCEPT ![h.owner.conn] = Disowned(@, h.name)]
                    ELSE owned
  BY <1>1 DEF FreeHook, Executing
<1>3. h \in Hook /\ \A x : Lists(hooks, x) <=> x = h \/ Lists(r, x)
  <2>1. hooks \in Seq(Hook)
    BY DEF TypeOK
  <2> QED BY <1>1, <1>2, <2>1, ListsTail
<1>4. \A x : ~Lists(todo, x) /\ ~Lists(todo', x)
  <2>1. \A x : ~Lists(<<>>, x)
    BY ListsShort
  <2> QED BY <1>2, <2>1
<1>5. CASE h.hook = "restore_ownership" /\ h.at = 1
  <2>1. PICK n, c : n = h.name /\ c = h.owner.conn
    OBVIOUS
  <2>2. n \in AnyName /\ c \in Conn
    BY <1>3, <1>5, <2>1, HookFields DEF Owner
  <2>3. n \in Conn => Leaves(n)
    BY <1>3, <1>5, <2>1 DEF PresenceInv, HookFits
  <2>4. owned' = [owned EXCEPT ![c] = Disowned(@, n)] /\ UNCHANGED <<link, active, job>>
    BY <1>2, <1>5, <2>1
  <2> QED BY <1>2, <1>3, <1>4, <2>2, <2>3, <2>4, PresenceDisowned
<1>6. CASE ~(h.hook = "restore_ownership" /\ h.at = 1)
  <2>1. UNCHANGED <<owned, link, active, job, todo>> /\ phase' = "run"
    BY <1>2, <1>6
  <2>2. \A c \in Conn : Present(c)'
    <3>1. PICK a, s, l, y, w : a = active /\ s = owned /\ l = link /\ y = job.why /\ w = job.by
      OBVIOUS
    <3>2. active' = a /\ owned' = s /\ link' = l /\ job'.why = y /\ job'.by = w
      BY <2>1, <3>1
    <3>3. \A c : ~Joins(c) /\ ~Joins(c)'
      BY <1>4 DEF Joins
    <3> QED BY <3>1, <3>2, <3>3 DEF PresenceInv, Present, Departing
  <2>3. \A x : Lists(r, x) => HookFits(x)'
    <3>1. \A x : Lists(r, x) => HookFits(x)
      BY <1>3 DEF PresenceInv
    <3> QED BY <2>1, <3>1, FitsKept
  <2>4. Completing'
    BY <1>2 DEF Completing
  <2> QED BY <1>2, <1>4, <2>1, <2>2, <2>3, <2>4 DEF PresenceInv
<1> QED BY <1>5, <1>6

LEMMA PresenceRegistry ==
  ASSUME TypeOK, TypeOK', Consistent, SignalInv, PresenceInv, RegistryCall
  PROVE  PresenceInv'
<1>1. CASE NotifyStarted
  <2>1. /\ Calling("notify") /\ Return /\ phase' = "run"
        /\ UNCHANGED <<owned, link, job, active, hooks>>
    BY <1>1 DEF NotifyStarted, unseen, Calling
  <2> QED BY <2>1, PresenceReturn
<1>2. CASE CompleteConnection
  <2>1. /\ Calling("complete") /\ Return /\ phase' = "run"
        /\ active' = active \cup {Top.conn}
        /\ UNCHANGED <<owned, link, job, hooks>>
    BY <1>2 DEF CompleteConnection, unseen, Calling
  <2> QED BY <2>1, PresenceReturn
<1>3. CASE SetOwnerFlags
  <2>1. /\ Calling("set_flags") /\ Return /\ phase' = "run"
        /\ UNCHANGED <<owned, link, job, active, hooks>>
    BY <1>3 DEF SetOwnerFlags, unseen, Calling
  <2> QED BY <2>1, PresenceReturn
<1> QED BY <1>1, <1>2, <1>3, PresenceLink, PresenceRelink, PresenceSuccession, PresenceRemoval,
           PresenceUnlink DEF RegistryCall

(* The calls of the activation table concern no owner. *)
LEMMA PresenceRaise ==
  ASSUME TypeOK, TypeOK', SignalInv, PresenceInv, NEW f \in {"spawn", "dispatch"}, Calling(f),
         Raise, UNCHANGED <<owned, link, job, active, hooks, phase>>
  PROVE  PresenceInv'
<1>1. Top.call = f /\ phase = "run" /\ \A k : Lists(todo, k) <=> k = Top \/ Lists(Tail(todo), k)
  BY TopOf
<1>2. PICK p : Stage(p)
  BY <1>1 DEF SignalInv, Works, Calling
<1>3. AllPlain(todo)
  BY <1>1, <1>2, StageOfOther DEF Early, OwnerCalls, Removal, Done
<1>4. \A k : Lists(Tail(todo), k) => k.call # "link_owner"
  BY <1>1, <1>3 DEF AllPlain, Plain, OwnerCalls
<1>5. \A k : Lists(todo', k) => k.call = "send"
  <2>1. PICK m : m = ErrorReply(Top.name)
    OBVIOUS
  <2>2. todo' = <<Send(m)>> \/ todo' = <<>>
    BY <2>1 DEF Raise
  <2> QED BY <2>2, ListsShort, SendForm
<1>6. \A k : Lists(todo', k) => k.call \notin {"link_owner", "complete"} /\ Fits(k)
  BY <1>5 DEF Fits
<1>7. /\ active' = IF f = "complete" THEN active \cup {Top.conn} ELSE active
      /\ phase' = "run" /\ job'.why = job.why /\ job'.by = job.by
      /\ UNCHANGED <<owned, link>>
      /\ \A h : Lists(hooks', h) => Lists(hooks, h) \/ HookFits(h)
  BY <1>1
<1> QED BY <1>4, <1>6, <1>7, PresenceCall

LEMMA PresenceActivation ==
  ASSUME TypeOK, TypeOK', SignalInv, PresenceInv, ActivationCall
  PROVE  PresenceInv'
<1>1. CASE RegisterEntry
  <2>1. /\ Calling("register") /\ Return /\ phase' = "run"
        /\ hooks' = <<CancelPending(Top.name)>> \o hooks
        /\ UNCHANGED <<owned, link, job, active>>
    BY <1>1 DEF RegisterEntry, registered, Calling
  <2>2. Top.name \in Name
    BY <2>1, TopOf, CallFields
  <2>3. CancelPending(Top.name) \in Hook /\ HookFits(CancelPending(Top.name))
    BY <2>2, HookIntro DEF HookFits, CancelPending
  <2> QED BY <2>1, <2>3, PresenceReturn
<1>2. CASE ForgetPending
  <2>1. PICK h : h = RestorePending(Top.name, pending[Top.name], Top.name \in child)
    OBVIOUS
  <2>2. /\ Calling("forget") /\ Return /\ phase' = "run" /\ hooks' = <<h>> \o hooks
        /\ UNCHANGED <<owned, link, job, active>>
    BY <1>2, <2>1 DEF ForgetPending, registered, Calling
  <2>3. Top.name \in Name
    BY <2>2, TopOf, CallFields
  <2>4. h \in Hook
    <3>1. pending[Top.name] \in Seq(Entry) /\ (Top.name \in child) \in BOOLEAN
      BY <2>3 DEF TypeOK
    <3> QED BY <2>1, <2>3, <3>1, HookIntro
  <2>5. HookFits(h)
    BY <2>1 DEF HookFits, RestorePending
  <2> QED BY <2>2, <2>4, <2>5, PresenceReturn
<1>3. CASE SpawnProgram
  <2>1. /\ Calling("spawn") /\ Return /\ phase' = "run"
        /\ UNCHANGED <<owned, link, job, active, hooks>>
    BY <1>3 DEF SpawnProgram, registered, Calling
  <2> QED BY <2>1, PresenceReturn
<1>4. CASE DispatchHeld
  <2>1. /\ Calling("dispatch") /\ Return /\ phase' = "run"
        /\ UNCHANGED <<owned, link, job, active, hooks>>
    BY <1>4 DEF DispatchHeld, registered, Calling
  <2> QED BY <2>1, PresenceReturn
<1>5. CASE DropPending
  <2>1. /\ Calling("drop") /\ Return /\ phase' = "run"
        /\ job' = [job EXCEPT !.left = @ \ {Top.name}]
        /\ UNCHANGED <<owned, link, active, hooks>>
    BY <1>5 DEF DropPending, registered, Calling
  <2>2. job'.why = job.why /\ job'.by = job.by
    BY <2>1 DEF TypeOK, Job, NoJob
  <2> QED BY <2>1, <2>2, PresenceReturn
<1>6. CASE SpawnParseError \/ SpawnForkError
  <2>1. Calling("spawn") /\ Raise /\ UNCHANGED <<owned, link, job, active, hooks, phase>>
    BY <1>6 DEF SpawnParseError, SpawnForkError, registered
  <2> QED BY <2>1, PresenceRaise
<1>7. CASE RejectHeld
  <2>1. Calling("dispatch") /\ Raise /\ UNCHANGED <<owned, link, job, active, hooks, phase>>
    BY <1>7 DEF RejectHeld, registered
  <2> QED BY <2>1, PresenceRaise
<1>8. CASE SendHeldMessages
  <2>1. PICK u : u = IF pending[Top.name] = <<>> THEN <<>>
                     ELSE Held(Top.name) \o <<Forget(Top.name)>>
    OBVIOUS
  <2>2. /\ Calling("send_held") /\ Make(u)
        /\ UNCHANGED <<owned, link, job, active, hooks, phase>>
    BY <1>8, <2>1 DEF SendHeldMessages, registered
  <2>3. Top.name \in Name
    BY <2>2, TopOf, CallFields
  <2>4. u \in Seq(Call) /\ \A k : Lists(u, k) => k.call \in {"dispatch", "forget"}
    BY <2>1, <2>3, HeldCalls
  <2>5. \A k : Lists(u, k) => k.call \notin {"link_owner", "complete"} /\ Fits(k)
    BY <2>4 DEF Fits
  <2> QED BY <2>2, <2>4, <2>5, PresenceMade
<1> QED BY <1>1, <1>2, <1>3, <1>4, <1>5, <1>6, <1>7, <1>8 DEF ActivationCall

LEMMA PresenceExecution ==
  ASSUME TypeOK, TypeOK', Consistent, PresenceInv,
         SendMessage \/ DeliverMessage \/ FreeHook \/ EndExecute
  PROVE  PresenceInv'
<1>1. CASE SendMessage
  <2>1. /\ Calling("send") /\ Return /\ phase' = "run"
        /\ UNCHANGED <<owned, link, job, active, hooks>>
    BY <1>1 DEF SendMessage, busVars, Calling
  <2> QED BY <2>1, PresenceReturn
<1>2. CASE DeliverMessage
  <2>1. UNCHANGED <<owned, link, job, active, hooks, todo, phase>>
    BY <1>2 DEF DeliverMessage, busVars
  <2> QED BY <2>1, PresenceStill
<1>3. CASE EndExecute
  <2>1. /\ phase = "run" /\ todo = <<>> /\ hooks = <<>>
        /\ UNCHANGED <<owned, active, link, todo, hooks>>
        /\ \/ phase' = "idle" /\ job' = NoJob /\ Requested
           \/ phase' = "round" /\ UNCHANGED job
    BY <1>3 DEF EndExecute, Executing, Close, Rest, busVars
  <2>2. \A c : Departing(c) => ~Requested
    BY DEF Departing, Requested
  <2>3. \A c : Departing(c) => Departing(c)'
    BY <2>1, <2>2 DEF Departing
  <2>4. todo' = <<>> /\ hooks' = <<>> /\ link' = link
    BY <2>1
  <2> QED BY <2>1, <2>3, <2>4, PresenceRest
<1> QED BY <1>1, <1>2, <1>3, PresenceFree

(* What happens between two handlers and begins no transaction. *)
LEMMA PresenceEvents ==
  ASSUME TypeOK, Consistent, PresenceInv,
         \/ \E c \in Conn : HangUp(c) \/ Disconnected(c)
         \/ \E n \in Name : TimeOut(n) \/ ChildFails(n) \/ ChildExits(n)
         \/ ForgetClient \/ FailedAll
  PROVE  PresenceInv'
<1>1. CASE \E c \in Conn : HangUp(c)
  <2>1. PICK c \in Conn : HangUp(c)
    BY <1>1
  <2>2. /\ UNCHANGED <<owned, job, active, hooks, todo, phase>>
        /\ link' = [link EXCEPT ![c] = "down"]
    BY <2>1 DEF HangUp, txnVars
  <2>3. \A d \in Conn : link'[d] # "gone" => link[d] # "gone"
    BY <2>1, <2>2 DEF TypeOK, HangUp
  <2> QED BY <2>2, <2>3, PresenceStill
<1>2. CASE \E n \in Name : ChildExits(n)
  <2>1. UNCHANGED <<owned, link, job, active, hooks, todo, phase>>
    BY <1>2 DEF ChildExits, registered, txnVars
  <2> QED BY <2>1, PresenceStill
<1>3. phase \in {"idle", "round"} => todo = <<>> /\ hooks = <<>>
  BY DEF Consistent, TodoInv, HookInv
<1>4. phase = "idle" => \A c : ~Departing(c)
  BY DEF PresenceInv, Departing, NoJob
<1>5. CASE (\E c \in Conn : Disconnected(c)) \/ (\E n \in Name : TimeOut(n) \/ ChildFails(n))
  <2>1. phase = "idle" /\ phase' = "round" /\ UNCHANGED <<owned, active, link, todo, hooks>>
    BY <1>5 DEF Disconnected, TimeOut, ChildFails, Fail, Idle, busVars
  <2>2. todo = <<>> /\ todo' = <<>> /\ hooks' = <<>> /\ link' = link
    BY <1>3, <2>1
  <2> QED BY <1>4, <2>1, <2>2, PresenceRest
<1>6. CASE ForgetClient
  <2>1. PICK d : d = job.by
    OBVIOUS
  <2>2. /\ phase = "round" /\ phase' = "idle" /\ job' = NoJob
        /\ UNCHANGED <<owned, active, todo, hooks>>
        /\ link' = [link EXCEPT ![d] = "gone"]
    BY <1>6, <2>1 DEF ForgetClient, Rest
  <2>3. todo = <<>> /\ todo' = <<>> /\ hooks' = <<>>
    BY <1>3, <2>2
  <2>4. \A c : Departing(c) => c = d
    BY <2>1 DEF Departing
  <2>5. \A c \in Conn : link'[c] # "gone" => link[c] # "gone" /\ c # d
    BY <2>2 DEF TypeOK
  <2> QED BY <2>2, <2>3, <2>4, <2>5, PresenceRest
<1>7. CASE FailedAll
  <2>1. /\ phase = "round" /\ phase' = "idle" /\ job' = NoJob /\ job.why = "expire"
        /\ UNCHANGED <<owned, active, todo, hooks, link>>
    BY <1>7 DEF FailedAll, Rest, busVars
  <2>2. todo = <<>> /\ todo' = <<>> /\ hooks' = <<>> /\ link' = link
    BY <1>3, <2>1
  <2>3. \A c : ~Departing(c)
    BY <2>1 DEF Departing
  <2> QED BY <2>1, <2>2, <2>3, PresenceRest
<1> QED BY <1>1, <1>2, <1>5, <1>6, <1>7

-----------------------------------------------------------------------------
(* The handlers begin.                                                     *)

(* A request of a client: nobody is about to leave. *)
LEMMA PresenceRequested ==
  ASSUME Consistent, PresenceInv, phase = "idle", NEW y, NEW w, NEW u, NEW s \in Seq(Call),
         Begin(y, w, u, s), UNCHANGED <<link, active, owned>>,
         \A k : Lists(s, k) =>
           /\ k.call # "complete"
           /\ k.call = "link_owner" =>
                y = "request" /\ k.name \notin Conn /\ owned[k.conn] # <<>>
           /\ k.call \in {"remove_owner", "unlink_owner"} => k.name \notin Conn
  PROVE  PresenceInv'
<1>1. todo = <<>> /\ \A c : ~Departing(c)
  BY DEF Consistent, TodoInv, PresenceInv, Departing, NoJob
<1> QED BY <1>1, PresenceBegin

LEMMA PresenceRequest ==
  ASSUME TypeOK, Consistent, SignalInv, PresenceInv,
         NEW c \in Conn, NEW n \in Name, NEW f \in Flags, RequestName(c, n, f)
  PROVE  PresenceInv'
<1>1. f \in AllFlags /\ n \notin Conn
  BY ConfigAssumption, ConnAssumption
<1>2. PICK s : s = AcquireService(c, n, f)
  OBVIOUS
<1>3. /\ Begin("request", c, {}, s) /\ UNCHANGED <<link, active, owned>>
      /\ Speaks(c) /\ c \in active
  BY <1>2 DEF RequestName, busVars
<1>4. phase = "idle" /\ owned[c] # <<>>
  BY <1>3, RequesterIsHere
<1>5. s \in Seq(Call)
  BY <1>1, <1>2, RequestCalls
<1>6. PICK o, b, e : /\ o = OutcomeCalls(c, n, f)
                     /\ b = <<SendHeld(n), Send(Reply(c, n, OutcomeResult(c, n, f)))>>
                     /\ e = <<Send(Failure(c))>>
  OBVIOUS
<1>7. s = o \o b \/ s = e
  BY <1>2, <1>6 DEF AcquireService
<1>8. \A k : Lists(o, k) =>
           /\ k.call \notin {"register", "spawn", "complete"}
           /\ k.call = "link_owner" => k.name = n /\ k.conn = c
           /\ k.call \in {"remove_owner", "unlink_owner"} => k.name = n
  BY <1>1, <1>6, OutcomeLinks
<1>9. /\ o \in Seq(Call) /\ b \in Seq(Call)
      /\ \A k : Lists(b, k) \/ Lists(e, k) => k.call \in {"send_held", "send"}
  <2>1. PICK x, z, v : /\ x = SendHeld(n) /\ z = Send(Reply(c, n, OutcomeResult(c, n, f)))
                       /\ v = Send(Failure(c))
    OBVIOUS
  <2>2. OutcomeResult(c, n, f) \in Result
    BY DEF Outcome, OutcomeResult, Result
  <2>3. n \in AnyName
    BY DEF AnyName
  <2>4. x \in Call /\ z \in Call
    BY <2>1, <2>2, <2>3, CallIntro, MessageIntro
  <2>5. x.call = "send_held" /\ z.call = "send" /\ v.call = "send"
    BY <2>1 DEF SendHeld, Send
  <2>6. b = <<x, z>> /\ e = <<v>>
    BY <1>6, <2>1
  <2>7. b \in Seq(Call)
    BY <2>4, <2>6, CallSequences
  <2> QED BY <1>1, <1>6, <2>5, <2>6, <2>7, ListsShort, OutcomeLinks
<1>10. \A k : Lists(s, k) => Lists(o, k) \/ Lists(b, k) \/ Lists(e, k)
  <2>1. \A k : Lists(o \o b, k) <=> Lists(o, k) \/ Lists(b, k)
    BY <1>9, ListsConcat
  <2> QED BY <1>7, <2>1
<1>11. \A k : Lists(s, k) =>
         /\ k.call # "complete"
         /\ k.call = "link_owner" => k.name \notin Conn /\ owned[k.conn] # <<>>
         /\ k.call \in {"remove_owner", "unlink_owner"} => k.name \notin Conn
  BY <1>1, <1>4, <1>8, <1>9, <1>10
<1> QED BY <1>3, <1>4, <1>5, <1>11, PresenceRequested

LEMMA PresenceRelease ==
  ASSUME TypeOK, Consistent, PresenceInv, NEW c \in Conn, NEW n \in Name, ReleaseName(c, n)
  PROVE  PresenceInv'
<1>1. PICK s : s = ReleaseService(c, n)
  OBVIOUS
<1>2. /\ Begin("request", c, {}, s) /\ UNCHANGED <<link, active, owned>> /\ phase = "idle"
  BY <1>1 DEF ReleaseName, Speaks, Idle, busVars
<1>3. s \in Seq(Call) /\ n \notin Conn
  BY <1>1, RequestCalls, ConnAssumption
<1>4. \A k : Lists(s, k) => k.call = "send" \/ (k.call = "remove_owner" /\ k.name = n)
  <2>1. PICK x, y, z, r : /\ x = Send(Reply(c, n, "nonexistent")) /\ y = Send(Reply(c, n, "notowner"))
                          /\ z = Send(Reply(c, n, "released")) /\ r = RemoveOwner(n, c)
    OBVIOUS
  <2>2. x.call = "send" /\ y.call = "send" /\ z.call = "send" /\ r.call = "remove_owner" /\ r.name = n
    BY <2>1 DEF Send, RemoveOwner
  <2>3. s = <<x>> \/ s = <<y>> \/ s = <<r, z>>
    BY <1>1, <2>1 DEF ReleaseService
  <2> QED BY <2>2, <2>3, ListsShort
<1>5. \A k : Lists(s, k) =>
        /\ k.call # "complete"
        /\ k.call = "link_owner" => k.name \notin Conn /\ owned[k.conn] # <<>>
        /\ k.call \in {"remove_owner", "unlink_owner"} => k.name \notin Conn
  BY <1>3, <1>4
<1> QED BY <1>2, <1>3, <1>5, PresenceRequested

LEMMA PresenceActivate ==
  ASSUME TypeOK, Consistent, PresenceInv, NEW c \in Conn, NEW n \in Name, NEW a \in BOOLEAN,
         Activate(c, n, a)
  PROVE  PresenceInv'
<1>1. PICK s : s = ActivateService(c, n, a)
  OBVIOUS
<1>2. /\ Begin("call", c, {}, s) /\ UNCHANGED <<link, active, owned>> /\ phase = "idle"
  BY <1>1 DEF Activate, Speaks, Idle, busVars
<1>3. s \in Seq(Call)
  BY <1>1, RequestCalls
<1>4. PICK x, k, b : /\ x = Send(Answer(c, n)) /\ k = Register(n, c, a)
                     /\ b = IF pending[n] = <<>> THEN <<Spawn(n)>> ELSE <<>>
  OBVIOUS
<1>5. s = <<x>> \/ s = <<k>> \o b
  BY <1>1, <1>4 DEF ActivateService
<1>6. x.call = "send" /\ k \in Call /\ k.call = "register" /\ b \in Seq(Call)
  BY <1>4, CallIntro, CallSequences DEF Send, Register
<1>7. \A j : Lists(b, j) => j.call = "spawn"
  BY <1>4, ListsShort DEF Spawn
<1>8. \A j : Lists(<<k>> \o b, j) <=> j = k \/ Lists(b, j)
  BY <1>6, ListsCons
<1>9. \A j : Lists(s, j) => j.call \in {"send", "register", "spawn"}
  <2>1. \A j : Lists(<<x>>, j) <=> j = x
    BY ListsShort
  <2>2. CASE s = <<x>>
    BY <1>6, <2>1, <2>2
  <2>3. CASE s = <<k>> \o b
    BY <1>6, <1>7, <1>8, <2>3
  <2> QED BY <1>5, <2>2, <2>3
<1> QED BY <1>2, <1>3, <1>9, PresenceRequested

LEMMA PresenceHello ==
  ASSUME TypeOK, TypeOK', Consistent, SignalInv, PresenceInv, NEW c \in Conn, Hello(c)
  PROVE  PresenceInv'
<1>1. PICK f : f = [allow |-> FALSE, noqueue |-> FALSE, replace |-> FALSE]
  OBVIOUS
<1>2. f \in AllFlags /\ c \in AnyName /\ c \notin Name /\ "welcome" \in Result
  BY <1>1, ConnAssumption DEF AllFlags, AnyName, Result
<1>3. phase = "idle" /\ owned[c] = <<>> /\ owners[c] = <<>>
  BY Newcomer
<1>4. PICK k, x, v, w, l : /\ k = Complete(c) /\ x = Send(Reply(c, c, "welcome"))
                           /\ v = Send(Changed(c, NoOne, c)) /\ w = Send(Acquired(c, c))
                           /\ l = LinkOwner(c, c, f)
  OBVIOUS
<1>5. k \in Call /\ x \in Call /\ v \in Call /\ w \in Call /\ l \in Call
  BY <1>2, <1>4, CallIntro, MessageIntro
<1>6. /\ k.call = "complete" /\ x.call = "send" /\ v.call = "send" /\ w.call = "send"
      /\ l.call = "link_owner" /\ l.name = c /\ l.conn = c /\ k.conn = c
  BY <1>4 DEF Complete, Send, LinkOwner
<1>7. PICK s, b : /\ s = <<k, x>> \o b
                  /\ b = (<<v>> \o <<>>) \o (<<w>> \o <<l>>)
  OBVIOUS
<1>8. Begin("request", c, {}, s) /\ UNCHANGED <<owned, active, link>>
  <2>1. Ensure(c, c, f) = b
    BY <1>2, <1>3, <1>4, <1>7 DEF Ensure, AddOwner
  <2> QED BY <1>1, <1>4, <1>7, <2>1 DEF Hello, busVars
<1>9. b \in Seq(Call) /\ \A j : Lists(b, j) <=> j \in {v, w, l}
  <2>1. /\ <<v>> \in Seq(Call) /\ <<w>> \in Seq(Call) /\ <<l>> \in Seq(Call)
        /\ <<v>> \o <<>> = <<v>>
    BY <1>5, CallSequences, ConcatEmptySeq
  <2>2. <<w>> \o <<l>> \in Seq(Call) /\ \A j : Lists(<<w>> \o <<l>>, j) <=> j = w \/ j = l
    <3>1. \A j : Lists(<<l>>, j) <=> j = l
      BY ListsShort
    <3> QED BY <1>5, <2>1, <3>1, ListsCons
  <2>3. b = <<v>> \o (<<w>> \o <<l>>)
    BY <1>7, <2>1
  <2>4. PICK u : u = <<w>> \o <<l>>
    OBVIOUS
  <2>5. u \in Seq(Call) /\ \A j : Lists(u, j) <=> j = w \/ j = l
    BY <2>2, <2>4
  <2>6. <<v>> \o u \in Seq(Call) /\ \A j : Lists(<<v>> \o u, j) <=> j = v \/ Lists(u, j)
    BY <1>5, <2>5, ListsCons
  <2> QED BY <2>3, <2>4, <2>5, <2>6
<1>10. s = <<k>> \o (<<x>> \o b)
  <2>1. <<k>> \in Seq(Call) /\ <<x>> \in Seq(Call)
    BY <1>5, CallSequences
  <2>2. <<k, x>> = <<k>> \o <<x>>
    <3>1. <<k, x>> = Append(<<k>>, x)
      OBVIOUS
    <3> QED BY <1>5, <2>1, <3>1, AppendIsConcat
  <2>3. (<<k>> \o <<x>>) \o b = <<k>> \o (<<x>> \o b)
    BY <1>9, <2>1, ConcatAssociative
  <2> QED BY <1>7, <2>2, <2>3, Zenon
<1>11. <<x>> \o b \in Seq(Call) /\ \A j : Lists(<<x>> \o b, j) <=> j \in {x, v, w, l}
  BY <1>5, <1>9, ListsCons
<1>12. /\ s \in Seq(Call) /\ Head(s) = k /\ Tail(s) = <<x>> \o b
       /\ \A j : Lists(s, j) <=> j \in {k, x, v, w, l}
  <2>1. /\ <<k>> \o (<<x>> \o b) \in Seq(Call)
        /\ \A j : Lists(<<k>> \o (<<x>> \o b), j) <=> j = k \/ Lists(<<x>> \o b, j)
    BY <1>5, <1>11, ListsCons
  <2>2. Head(<<k>> \o (<<x>> \o b)) = k /\ Tail(<<k>> \o (<<x>> \o b)) = <<x>> \o b
    BY <1>5, <1>11, HeadTailConcat
  <2> QED BY <1>10, <1>11, <2>1, <2>2
<1>13. /\ todo' = s /\ hooks' = <<>> /\ phase' = "run" /\ job'.why = "request"
  BY <1>8 DEF Begin
<1>14. Joins(c)' /\ \A d : Joins(d)' => d = c
  BY <1>6, <1>12, <1>13 DEF Joins
<1>15. Completing'
  BY <1>6, <1>11, <1>12, <1>13, <1>14 DEF Completing, Top
<1>16. \A d \in Conn : Present(d)'
  <2>1. PICK a, o, g : a = active /\ o = owned /\ g = link
    OBVIOUS
  <2>2. active' = a /\ owned' = o /\ link' = g
    BY <1>8, <2>1
  <2>3. \A d : ~Joins(d) /\ ~Departing(d)
    <3>1. todo = <<>>
      BY <1>3 DEF Consistent, TodoInv
    <3> QED BY <1>3, <3>1, ListsShort DEF Joins, PresenceInv, Departing, NoJob
  <2>4. Top' = Complete(c)
    BY <1>4, <1>12, <1>13 DEF Top
  <2> QED BY <1>14, <2>1, <2>2, <2>3, <2>4 DEF PresenceInv, Present
<1>17. \A j : Lists(s, j) => Fits(j)'
  <2>1. owned'[c] = <<>>
    BY <1>3, <1>8
  <2> QED BY <1>6, <1>12, <1>13, <2>1 DEF Fits
<1>18. \A h : ~Lists(hooks', h)
  <2>1. \A h : ~Lists(<<>>, h)
    BY ListsShort
  <2> QED BY <1>13, <2>1
<1> QED BY <1>13, <1>15, <1>16, <1>17, <1>18 DEF PresenceInv

(* The rounds of a departure and of failed activations. *)
LEMMA PresenceRound ==
  ASSUME TypeOK, Consistent, PresenceInv, DropLastName \/ FailNext
  PROVE  PresenceInv'
<1>1. phase = "round" /\ todo = <<>>
  BY DEF DropLastName, FailNext, Consistent, TodoInv
<1>2. CASE DropLastName
  <2>1. PICK c, n, k : c = job.by /\ n = Last(owned[c]) /\ k = RemoveOwner(n, c)
    OBVIOUS
  <2>2. /\ Begin("disconnect", c, {}, <<k>>) /\ UNCHANGED <<link, active, owned>>
        /\ owned[c] # <<>>
    BY <1>2, <2>1 DEF DropLastName, busVars
  <2>3. c \in Conn
    BY <1>2, <2>1 DEF DropLastName, TypeOK, Job, NoJob
  <2>4. owned[c] \in Seq(AnyName) /\ Once(owned[c])
    BY <1>1, <2>3, OwnedBetween DEF TypeOK
  <2>5. /\ Lists(owned[c], n)
        /\ n = owned[c][1] => owned[c] = <<n>>
    BY <2>1, <2>2, <2>4, LastOfOne
  <2>6. n \in AnyName
    BY <2>4, <2>5, LenProperties, ElementOfSeq DEF Lists
  <2>7. n \in Conn => n = c /\ LastName(c)
    <3>1. owned[c][1] = c /\ \A m \in Conn : Lists(owned[c], m) => m = c
      BY <2>2, <2>3 DEF PresenceInv, Present
    <3> QED BY <2>5, <3>1 DEF LastName
  <2>8. k \in Call /\ k.call = "remove_owner" /\ k.name = n
    BY <2>1, <2>3, <2>6, CallIntro DEF RemoveOwner
  <2>9. <<k>> \in Seq(Call) /\ \A j : Lists(<<k>>, j) <=> j = k
    BY <2>8, CallSequences, ListsShort
  <2>10. \A d \in Conn : Departing(d) => d = c
    BY <2>1 DEF Departing
  <2>11. PICK s : s = <<k>>
    OBVIOUS
  <2>12. s \in Seq(Call) /\ Begin("disconnect", c, {}, s)
    BY <2>2, <2>9, <2>11 DEF Begin
  <2>13. \A j : Lists(s, j) => j = k
    BY <2>9, <2>11
  <2> QED BY <1>1, <2>2, <2>7, <2>8, <2>10, <2>12, <2>13, PresenceBegin
<1>3. CASE FailNext
  <2>1. PICK n \in job.left : Begin("expire", job.by, job.left, Failures(n) \o <<Drop(n)>>)
    BY <1>3 DEF FailNext
  <2>2. n \in Name
    <3>1. job.left \subseteq Name
      BY <1>3 DEF FailNext, TypeOK, Job, NoJob
    <3> QED BY <3>1
  <2>3. PICK a, k, s : a = Failures(n) /\ k = Drop(n) /\ s = a \o <<k>>
    OBVIOUS
  <2>4. a \in Seq(Call) /\ <<k>> \in Seq(Call)
    BY <2>2, <2>3, CallIntro, CallsForEntries, CallSequences
  <2>5. \A j : Lists(a, j) => j.call = "send"
    BY <2>3 DEF Failures, Lists, Send
  <2>6. k.call = "drop" /\ \A j : Lists(<<k>>, j) <=> j = k
    BY <2>3, ListsShort DEF Drop
  <2>7. s \in Seq(Call) /\ \A j : Lists(s, j) => j.call \in {"send", "drop"}
    BY <2>3, <2>4, <2>5, <2>6, ListsConcat
  <2>8. UNCHANGED <<link, active, owned>> /\ Begin("expire", job.by, job.left, s)
    BY <1>3, <2>1, <2>3 DEF FailNext, busVars
  <2>9. \A d : ~Departing(d)
    BY <1>3 DEF FailNext, Departing
  <2> QED BY <1>1, <2>7, <2>8, <2>9, PresenceBegin
<1> QED BY <1>2, <1>3

LEMMA NextPresence ==
  ASSUME TypeOK, TypeOK', Consistent, SignalInv, PresenceInv, Next, OomIn = {}
  PROVE  PresenceInv'
<1>1. CASE \/ \E c \in Conn : Hello(c)
           \/ \E c \in Conn, n \in Name :
                \/ \E f \in Flags : RequestName(c, n, f)
                \/ ReleaseName(c, n)
                \/ \E auto \in BOOLEAN : Activate(c, n, auto)
           \/ DropLastName \/ FailNext
  BY <1>1, PresenceHello, PresenceRequest, PresenceRelease, PresenceActivate, PresenceRound
<1>2. CASE \/ \E c \in Conn : HangUp(c) \/ Disconnected(c)
           \/ \E n \in Name : TimeOut(n) \/ ChildFails(n) \/ ChildExits(n)
           \/ ForgetClient \/ FailedAll
  BY <1>2, PresenceEvents
<1>3. CASE SendMessage \/ DeliverMessage \/ FreeHook \/ EndExecute
  BY <1>3, PresenceExecution
<1>4. CASE RegistryCall \/ ActivationCall
  BY <1>4, PresenceRegistry, PresenceActivation
<1>5. /\ ~OutOfMemory
      /\ ~(UndoAddOwner \/ UndoRemoveOwner \/ UndoActivate \/ UndoForget \/ EndCancel)
  BY NothingFails
<1> QED BY <1>1, <1>2, <1>3, <1>4, <1>5 DEF Next, Outside, Handler

-----------------------------------------------------------------------------
(* The theorem.                                                            *)

(* The invariant of the registry, of who is on the bus, and of what the
   running handler does to the queues. *)
NameInv == RegistryInv /\ PresenceInv /\ WorkInv

LEMMA InitName == Init => NameInv
<1> SUFFICES ASSUME Init PROVE NameInv
  OBVIOUS
<1>1. RegistryInv
  BY InitQueues, InitSignals DEF RegistryInv
<1>2. \A x : ~Lists(<<>>, x)
  BY ListsShort
<1>3. PresenceInv
  BY <1>2 DEF Init, PresenceInv, Completing, Present, Joins
<1>4. WorkInv
  BY OperatesItself DEF Init, WorkInv
<1> QED BY <1>1, <1>3, <1>4 DEF NameInv

LEMMA StutterName ==
  ASSUME UNCHANGED vars, PresenceInv, WorkInv
  PROVE  PresenceInv' /\ WorkInv'
<1>1. UNCHANGED <<owned, active, job, todo, hooks, phase, owners, before, link>>
  BY DEF vars, busVars, txnVars
<1>2. \A c \in Conn : link'[c] # "gone" => link[c] # "gone"
  BY <1>1
<1>3. PresenceInv'
  BY <1>1, <1>2, PresenceStill
<1>4. WorkInv'
  BY <1>1, WorkStill
<1> QED BY <1>3, <1>4

LEMMA NextName ==
  ASSUME OomIn = {}
  PROVE  NameInv /\ [Next]_vars => NameInv' /\ [Queues!Next]_before
<1> SUFFICES ASSUME NameInv, [Next]_vars PROVE NameInv' /\ [Queues!Next]_before
  OBVIOUS
<1>1. RegistryInv'
  BY NextRegistry DEF NameInv
<1>2. CASE Next
  <2>1. ~Halted
    BY <1>2, QueueChanges
  <2>2. TypeOK /\ TypeOK' /\ Distinct /\ Consistent /\ SignalInv /\ PresenceInv /\ WorkInv
    BY <1>1, <2>1 DEF NameInv, RegistryInv, QueueInv
  <2>3. PresenceInv'
    BY <1>2, <2>2, NextPresence
  <2>4. WorkInv' /\ Operated
    BY <1>2, <2>2, NextWork
  <2>5. [Queues!Next]_before
    BY <2>4, OperatesStep DEF Operated
  <2> QED BY <1>1, <2>3, <2>4, <2>5 DEF NameInv
<1>3. CASE UNCHANGED vars
  <2>1. PresenceInv' /\ WorkInv'
    BY <1>3, StutterName DEF NameInv
  <2>2. UNCHANGED before
    BY <1>3 DEF vars
  <2> QED BY <1>1, <2>1, <2>2 DEF NameInv
<1> QED BY <1>2, <1>3

(* The transactions of the daemon are the operations of NameQueue, each at
   once: whatever calls a request is made of, and whichever signals and held
   messages come between them, from one transaction to the next the queues
   change by nothing, by one Hello, one RequestName, one ReleaseName or one
   step of a departure (bus_driver_handle_hello,
   bus_registry_acquire_service, bus_registry_release_service,
   bus_connection_disconnected).  The unique name of a client that says Hello
   is free, and the last of its names to go.  It is assumed that no
   allocation fails: the cancel hooks do not take back that a client that
   waits changed its flags or its place, or left the queue. *)
THEOREM TransactionsAreOperations ==
  ASSUME OomIn = {}
  PROVE  Spec => ImplementsNameQueue
<1>1. Init => NameInv
  BY InitName
<1>2. NameInv /\ [Next]_vars => NameInv' /\ [Queues!Next]_before
  BY NextName
<1>3. Init => Queues!Init
  BY DEF Init, Queues!Init, AnyName, Queues!AnyName
<1> QED BY <1>1, <1>2, <1>3, PTL DEF Spec, ImplementsNameQueue, Queues!Spec

=============================================================================
