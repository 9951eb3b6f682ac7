---------------------------- MODULE DispatchProofs ----------------------------
(***************************************************************************)
(* Every state the daemon reaches is well typed, no queue of owners holds a *)
(* connection twice, and the list of names each connection keeps is exactly *)
(* the names whose queues it is in, between two handlers, for all sets of   *)
(* clients and names and all configurations.                               *)
(***************************************************************************)
EXTENDS BusProperties, SequencesExt, SequenceTheorems, FiniteSetTheorems, TLAPS

(* A queue that holds every connection at most once. *)
NoTwice(q) == \A i, j \in DOMAIN q : q[i].conn = q[j].conn => i = j

-----------------------------------------------------------------------------
(* Lists: what the operators on them return, for lists of any length
   (dbus/dbus-list.c as the model uses it).                                *)

(* RemoveAt drops one element and closes the gap. *)
LEMMA RemoveAtProperties ==
  ASSUME NEW S, NEW s \in Seq(S), NEW i \in 1..Len(s)
  PROVE  /\ RemoveAt(s, i) \in Seq(S)
         /\ Len(RemoveAt(s, i)) = Len(s) - 1
         /\ \A j \in 1..(Len(s) - 1) :
              RemoveAt(s, i)[j] = IF j < i THEN s[j] ELSE s[j + 1]
<1> DEFINE front == SubSeq(s, 1, i - 1)
           back  == SubSeq(s, i + 1, Len(s))
<1>1. Len(s) \in Nat /\ i \in Nat /\ i >= 1 /\ i <= Len(s)
  BY LenProperties
<1>2. \A j \in 1..Len(s) : s[j] \in S
  BY ElementOfSeq
<1>3. /\ front \in Seq(S)
      /\ Len(front) = i - 1
      /\ \A j \in 1..(i - 1) : front[j] = s[j]
  <2>1. /\ front \in Seq(S)
        /\ Len(front) = IF 1 <= i - 1 THEN (i - 1) - 1 + 1 ELSE 0
        /\ \A j \in 1..((i - 1) - 1 + 1) : front[j] = s[1 + j - 1]
    <3>1. \A j \in 1..(i - 1) : s[j] \in S
      BY <1>1, <1>2
    <3>2. 1 \in Int /\ i - 1 \in Int
      BY <1>1
    <3> HIDE DEF front
    <3> QED BY <3>1, <3>2, SubSeqProperties DEF front
  <2> HIDE DEF front
  <2> QED BY <2>1, <1>1
<1>4. /\ back \in Seq(S)
      /\ Len(back) = Len(s) - i
      /\ \A j \in 1..(Len(s) - i) : back[j] = s[i + j]
  <2>1. /\ back \in Seq(S)
        /\ Len(back) = IF i + 1 <= Len(s) THEN Len(s) - (i + 1) + 1 ELSE 0
        /\ \A j \in 1..(Len(s) - (i + 1) + 1) : back[j] = s[(i + 1) + j - 1]
    <3>1. \A j \in (i + 1)..Len(s) : s[j] \in S
      BY <1>1, <1>2
    <3>2. i + 1 \in Int /\ Len(s) \in Int
      BY <1>1
    <3> HIDE DEF back
    <3> QED BY <3>1, <3>2, SubSeqProperties DEF back
  <2> HIDE DEF back
  <2> QED BY <2>1, <1>1
<1>5. RemoveAt(s, i) = front \o back
  BY DEF RemoveAt
<1> HIDE DEF front, back
<1>6. /\ front \o back \in Seq(S)
      /\ Len(front \o back) = Len(front) + Len(back)
      /\ \A j \in 1..(Len(front) + Len(back)) :
           (front \o back)[j] = IF j <= Len(front) THEN front[j] ELSE back[j - Len(front)]
  BY <1>3, <1>4, ConcatProperties
<1> QED BY <1>1, <1>3, <1>4, <1>5, <1>6

(* InsertAt puts one element at a position and moves the rest back. *)
LEMMA InsertAtProperties ==
  ASSUME NEW S, NEW s \in Seq(S), NEW i \in 1..(Len(s) + 1), NEW e \in S
  PROVE  /\ InsertAt(s, i, e) \in Seq(S)
         /\ Len(InsertAt(s, i, e)) = Len(s) + 1
         /\ \A j \in 1..(Len(s) + 1) :
              InsertAt(s, i, e)[j] = IF j < i THEN s[j] ELSE IF j = i THEN e ELSE s[j - 1]
<1> DEFINE front == SubSeq(s, 1, i - 1)
           back  == SubSeq(s, i, Len(s))
<1>1. Len(s) \in Nat /\ i \in Nat /\ i >= 1 /\ i <= Len(s) + 1
  BY LenProperties
<1>2. \A j \in 1..Len(s) : s[j] \in S
  BY ElementOfSeq
<1>3. /\ front \in Seq(S)
      /\ Len(front) = i - 1
      /\ \A j \in 1..(i - 1) : front[j] = s[j]
  <2>1. /\ front \in Seq(S)
        /\ Len(front) = IF 1 <= i - 1 THEN (i - 1) - 1 + 1 ELSE 0
        /\ \A j \in 1..((i - 1) - 1 + 1) : front[j] = s[1 + j - 1]
    <3>1. \A j \in 1..(i - 1) : s[j] \in S
      BY <1>1, <1>2
    <3>2. 1 \in Int /\ i - 1 \in Int
      BY <1>1
    <3> HIDE DEF front
    <3> QED BY <3>1, <3>2, SubSeqProperties DEF front
  <2> HIDE DEF front
  <2> QED BY <2>1, <1>1
<1>4. /\ back \in Seq(S)
      /\ Len(back) = Len(s) - i + 1
      /\ \A j \in 1..(Len(s) - i + 1) : back[j] = s[i + j - 1]
  <2>1. /\ back \in Seq(S)
        /\ Len(back) = IF i <= Len(s) THEN Len(s) - i + 1 ELSE 0
        /\ \A j \in 1..(Len(s) - i + 1) : back[j] = s[i + j - 1]
    <3>1. \A j \in i..Len(s) : s[j] \in S
      BY <1>1, <1>2
    <3>2. i \in Int /\ Len(s) \in Int
      BY <1>1
    <3> HIDE DEF back
    <3> QED BY <3>1, <3>2, SubSeqProperties DEF back
  <2> HIDE DEF back
  <2> QED BY <2>1, <1>1
<1>5. InsertAt(s, i, e) = front \o <<e>> \o back
  BY DEF InsertAt
<1> HIDE DEF front, back
<1>6. <<e>> \in Seq(S) /\ Len(<<e>>) = 1 /\ <<e>>[1] = e
  OBVIOUS
<1>7. /\ front \o <<e>> \in Seq(S)
      /\ Len(front \o <<e>>) = i
      /\ \A j \in 1..i : (front \o <<e>>)[j] = IF j < i THEN s[j] ELSE e
  <2>1. /\ front \o <<e>> \in Seq(S)
        /\ Len(front \o <<e>>) = Len(front) + Len(<<e>>)
        /\ \A j \in 1..(Len(front) + Len(<<e>>)) :
             (front \o <<e>>)[j] = IF j <= Len(front) THEN front[j] ELSE <<e>>[j - Len(front)]
    BY <1>3, <1>6, ConcatProperties
  <2>2. ASSUME NEW j \in 1..i
        PROVE  (front \o <<e>>)[j] = IF j < i THEN s[j] ELSE e
    <3>1. CASE j < i
      BY <3>1, <2>1, <1>1, <1>3, <1>6
    <3>2. CASE j = i
      <4>1. j - Len(front) = 1
        BY <3>2, <1>1, <1>3
      <4> QED BY <3>2, <4>1, <2>1, <1>1, <1>3, <1>6
    <3>3. j < i \/ j = i
      BY <1>1
    <3> QED BY <3>1, <3>2, <3>3
  <2>3. Len(front) + Len(<<e>>) = i
    BY <1>1, <1>3, <1>6
  <2> QED BY <2>1, <2>2, <2>3
<1> DEFINE f1 == front \o <<e>>
<1>8. /\ f1 \in Seq(S)
      /\ Len(f1) = i
      /\ \A j \in 1..i : f1[j] = IF j < i THEN s[j] ELSE e
  BY <1>7
<1>12. InsertAt(s, i, e) = f1 \o back
  BY <1>5
<1> HIDE DEF f1
<1>9. /\ f1 \o back \in Seq(S)
      /\ Len(f1 \o back) = Len(f1) + Len(back)
      /\ \A j \in 1..(Len(f1) + Len(back)) :
           (f1 \o back)[j] = IF j <= Len(f1) THEN f1[j] ELSE back[j - Len(f1)]
  <2>1. f1 \in Seq(S) /\ back \in Seq(S)
    BY <1>4, <1>8
  <2> QED BY <2>1, ConcatProperties
<1>10. ASSUME NEW j \in 1..(Len(s) + 1)
       PROVE  (f1 \o back)[j] = IF j < i THEN s[j] ELSE IF j = i THEN e ELSE s[j - 1]
  <2>1. CASE j <= i
    BY <2>1, <1>1, <1>4, <1>8, <1>9
  <2>2. CASE j > i
    <3>1. (f1 \o back)[j] = back[j - i]
      BY <2>2, <1>1, <1>4, <1>8, <1>9
    <3>2. back[j - i] = s[i + (j - i) - 1]
      BY <2>2, <1>1, <1>4
    <3>3. i + (j - i) - 1 = j - 1
      BY <1>1
    <3> QED BY <2>2, <3>1, <3>2, <3>3, <1>1
  <2>3. j <= i \/ j > i
    BY <1>1
  <2> QED BY <2>1, <2>2, <2>3
<1>11. Len(f1 \o back) = Len(s) + 1
  BY <1>1, <1>4, <1>8, <1>9
<1> QED BY <1>12, <1>9, <1>10, <1>11

(* The elements of a list after one was dropped, *)
LEMMA RemoveAtElements ==
  ASSUME NEW S, NEW s \in Seq(S), NEW i \in 1..Len(s)
  PROVE  /\ \A j \in 1..Len(RemoveAt(s, i)) :
              \E k \in 1..Len(s) : k # i /\ RemoveAt(s, i)[j] = s[k]
         /\ \A k \in 1..Len(s) : k # i =>
              \E j \in 1..Len(RemoveAt(s, i)) : RemoveAt(s, i)[j] = s[k]
<1> DEFINE r == RemoveAt(s, i)
<1>1. /\ Len(s) \in Nat /\ i \in Nat /\ i >= 1 /\ i <= Len(s)
      /\ Len(r) = Len(s) - 1
      /\ \A j \in 1..(Len(s) - 1) : r[j] = IF j < i THEN s[j] ELSE s[j + 1]
  BY LenProperties, RemoveAtProperties
<1> HIDE DEF r
<1>2. ASSUME NEW j \in 1..Len(r)
      PROVE  \E k \in 1..Len(s) : k # i /\ r[j] = s[k]
  <2>1. CASE j < i
    BY <2>1, <1>1
  <2>2. CASE j >= i
    <3>1. j + 1 \in 1..Len(s) /\ j + 1 # i /\ r[j] = s[j + 1]
      BY <2>2, <1>1
    <3> QED BY <3>1
  <2> QED BY <2>1, <2>2, <1>1
<1>3. ASSUME NEW k \in 1..Len(s), k # i
      PROVE  \E j \in 1..Len(r) : r[j] = s[k]
  <2>1. CASE k < i
    BY <2>1, <1>1
  <2>2. CASE k > i
    <3>1. k - 1 \in 1..Len(r) /\ r[k - 1] = s[(k - 1) + 1] /\ (k - 1) + 1 = k
      BY <2>2, <1>1
    <3> QED BY <3>1
  <2> QED BY <2>1, <2>2, <1>3, <1>1
<1> QED BY <1>2, <1>3 DEF r

(* and after one was put in. *)
LEMMA InsertAtElements ==
  ASSUME NEW S, NEW s \in Seq(S), NEW i \in 1..(Len(s) + 1), NEW e \in S
  PROVE  /\ \A j \in 1..Len(InsertAt(s, i, e)) :
              InsertAt(s, i, e)[j] = e \/ \E k \in 1..Len(s) : InsertAt(s, i, e)[j] = s[k]
         /\ \E j \in 1..Len(InsertAt(s, i, e)) : InsertAt(s, i, e)[j] = e
         /\ \A k \in 1..Len(s) :
              \E j \in 1..Len(InsertAt(s, i, e)) : InsertAt(s, i, e)[j] = s[k]
<1> DEFINE r == InsertAt(s, i, e)
<1>1. /\ Len(s) \in Nat /\ i \in Nat /\ i >= 1 /\ i <= Len(s) + 1
      /\ Len(r) = Len(s) + 1
      /\ \A j \in 1..(Len(s) + 1) : r[j] = IF j < i THEN s[j] ELSE IF j = i THEN e ELSE s[j - 1]
  <2>1. Len(s) \in Nat
    BY LenProperties
  <2>2. /\ Len(InsertAt(s, i, e)) = Len(s) + 1
        /\ \A j \in 1..(Len(s) + 1) :
              InsertAt(s, i, e)[j] = IF j < i THEN s[j] ELSE IF j = i THEN e ELSE s[j - 1]
    <3> HIDE DEF r
    <3> QED BY InsertAtProperties
  <2>3. i \in Nat /\ i >= 1 /\ i <= Len(s) + 1
    BY <2>1
  <2> QED BY <2>1, <2>2, <2>3
<1> HIDE DEF r
<1>2. ASSUME NEW j \in 1..Len(r)
      PROVE  r[j] = e \/ \E k \in 1..Len(s) : r[j] = s[k]
  <2>1. CASE j < i
    <3>1. j \in 1..Len(s) /\ j \in 1..(Len(s) + 1)
      BY <2>1, <1>1
    <3>2. r[j] = s[j]
      BY <2>1, <3>1, <1>1
    <3> QED BY <3>1, <3>2
  <2>2. CASE j = i
    BY <2>2, <1>1
  <2>3. CASE j > i
    <3>1. j - 1 \in 1..Len(s) /\ r[j] = s[j - 1]
      BY <2>3, <1>1
    <3> QED BY <3>1
  <2> QED BY <2>1, <2>2, <2>3, <1>1
<1>3. \E j \in 1..Len(r) : r[j] = e
  <2>1. i \in 1..Len(r) /\ r[i] = e
    BY <1>1
  <2> QED BY <2>1
<1>4. ASSUME NEW k \in 1..Len(s)
      PROVE  \E j \in 1..Len(r) : r[j] = s[k]
  <2>1. CASE k < i
    <3>1. k \in 1..Len(r) /\ r[k] = s[k]
      BY <2>1, <1>1
    <3> QED BY <3>1
  <2>2. CASE k >= i
    <3>1. k + 1 \in 1..Len(r) /\ r[k + 1] = s[(k + 1) - 1] /\ (k + 1) - 1 = k
      BY <2>2, <1>1
    <3> QED BY <3>1
  <2>3. k < i \/ k >= i
    BY <1>1
  <2> QED BY <2>1, <2>2, <2>3
<1> QED BY <1>2, <1>3, <1>4 DEF r

(* A list in front of which one element is put, as hooks and calls are. *)
LEMMA ConsProperties ==
  ASSUME NEW S, NEW s \in Seq(S), NEW e \in S
  PROVE  /\ <<e>> \o s \in Seq(S)
         /\ Len(<<e>> \o s) = Len(s) + 1
         /\ (<<e>> \o s)[1] = e
         /\ \A j \in 1..Len(s) : (<<e>> \o s)[j + 1] = s[j]
<1>1. <<e>> \in Seq(S) /\ Len(<<e>>) = 1 /\ <<e>>[1] = e /\ Len(s) \in Nat
  BY LenProperties
<1> DEFINE f == <<e>>
<1> HIDE DEF f
<1>2. /\ f \o s \in Seq(S)
      /\ Len(f \o s) = Len(f) + Len(s)
      /\ \A j \in 1..(Len(f) + Len(s)) :
           (f \o s)[j] = IF j <= Len(f) THEN f[j] ELSE s[j - Len(f)]
  BY <1>1, ConcatProperties DEF f
<1>3. Len(f) = 1 /\ f[1] = e
  BY <1>1 DEF f
<1> DEFINE r == f \o s
<1>5. /\ Len(r) = 1 + Len(s)
      /\ \A j \in 1..(1 + Len(s)) : r[j] = IF j <= 1 THEN f[j] ELSE s[j - 1]
  BY <1>2, <1>3
<1> HIDE DEF r
<1>6. ASSUME NEW j \in 1..Len(s)
      PROVE  r[j + 1] = s[j]
  <2>1. j + 1 \in 1..(1 + Len(s)) /\ ~(j + 1 <= 1) /\ (j + 1) - 1 = j
    BY <1>1
  <2>2. r[j + 1] = s[(j + 1) - 1]
    BY <1>5, <2>1
  <2> QED BY <2>1, <2>2
<1>7. Len(r) = Len(s) + 1 /\ r[1] = e
  BY <1>1, <1>3, <1>5
<1>4. r \in Seq(S)
  BY <1>2 DEF r
<1> QED BY <1>4, <1>6, <1>7 DEF f, r

-----------------------------------------------------------------------------
(* Queues of owners. *)

(* Taking a client out of a queue leaves no entry of it, and twice no other. *)
LEMMA WithoutProperties ==
  ASSUME NEW q \in Seq(Owner), NEW c
  PROVE  /\ Without(q, c) \in Seq(Owner)
         /\ NoTwice(q) => NoTwice(Without(q, c)) /\ ~Queued(Without(q, c), c)
<1>1. CASE ~Queued(q, c)
  BY <1>1 DEF Without
<1>2. CASE Queued(q, c)
  <2> DEFINE p == Place(q, c)
  <2>1. Len(q) \in Nat /\ DOMAIN q = 1..Len(q)
    BY LenProperties
  <2>2. p \in 1..Len(q) /\ q[p].conn = c
    BY <1>2, <2>1 DEF Queued, Place
  <2>3. Without(q, c) = RemoveAt(q, p)
    BY <1>2 DEF Without
  <2> HIDE DEF p
  <2> DEFINE r == RemoveAt(q, p)
  <2>4. /\ r \in Seq(Owner)
        /\ Len(r) = Len(q) - 1
        /\ \A j \in 1..(Len(q) - 1) : r[j] = IF j < p THEN q[j] ELSE q[j + 1]
    BY <2>2, RemoveAtProperties
  <2> HIDE DEF r
  <2>5. DOMAIN r = 1..(Len(q) - 1)
    BY <2>4, LenProperties
  <2>6. ASSUME NoTwice(q)
        PROVE  NoTwice(r)
    <3>1. SUFFICES ASSUME NEW i \in 1..(Len(q) - 1), NEW j \in 1..(Len(q) - 1),
                          r[i].conn = r[j].conn
                   PROVE  i = j
      BY <2>5 DEF NoTwice
    <3> DEFINE at(k) == IF k < p THEN k ELSE k + 1
    <3>2. at(i) \in 1..Len(q) /\ at(j) \in 1..Len(q)
      BY <2>1, <2>2
    <3>3. r[i] = q[at(i)] /\ r[j] = q[at(j)]
      BY <2>4
    <3>4. at(i) = at(j)
      BY <2>6, <2>1, <3>1, <3>2, <3>3 DEF NoTwice
    <3> QED BY <3>4, <2>1, <2>2
  <2>7. ASSUME NoTwice(q)
        PROVE  ~Queued(r, c)
    <3>1. SUFFICES ASSUME NEW i \in 1..(Len(q) - 1), r[i].conn = c
                   PROVE  FALSE
      BY <2>5 DEF Queued
    <3> DEFINE k == IF i < p THEN i ELSE i + 1
    <3>2. k \in 1..Len(q) /\ k # p
      BY <2>1, <2>2
    <3>3. q[k].conn = c
      BY <2>4, <3>1
    <3> QED BY <2>6, <2>7, <2>1, <2>2, <3>2, <3>3 DEF NoTwice
  <2> QED BY <2>3, <2>4, <2>6, <2>7 DEF r
<1> QED BY <1>1, <1>2

(* A new owner joins at the end. *)
LEMMA AppendOwner ==
  ASSUME NEW q \in Seq(Owner), NEW o \in Owner
  PROVE  /\ Append(q, o) \in Seq(Owner)
         /\ NoTwice(q) /\ ~Queued(q, o.conn) => NoTwice(Append(q, o))
<1> DEFINE r == Append(q, o)
<1>1. Len(q) \in Nat /\ DOMAIN q = 1..Len(q)
  BY LenProperties
<1>2. /\ r \in Seq(Owner)
      /\ Len(r) = Len(q) + 1
      /\ \A i \in 1..Len(q) : r[i] = q[i]
      /\ r[Len(q) + 1] = o
  BY AppendProperties
<1> HIDE DEF r
<1>3. DOMAIN r = 1..(Len(q) + 1)
  BY <1>2, LenProperties
<1>4. ASSUME NoTwice(q), ~Queued(q, o.conn)
      PROVE  NoTwice(r)
  <2>1. SUFFICES ASSUME NEW i \in 1..(Len(q) + 1), NEW j \in 1..(Len(q) + 1),
                        r[i].conn = r[j].conn
                 PROVE  i = j
    BY <1>3 DEF NoTwice
  <2>2. \A k \in 1..Len(q) : q[k].conn # o.conn
    BY <1>1, <1>4 DEF Queued
  <2>3. CASE i \in 1..Len(q) /\ j \in 1..Len(q)
    BY <2>1, <2>3, <1>1, <1>2, <1>4 DEF NoTwice
  <2>4. CASE i = Len(q) + 1 \/ j = Len(q) + 1
    BY <2>1, <2>2, <2>4, <1>1, <1>2
  <2>5. (i \in 1..Len(q) /\ j \in 1..Len(q)) \/ i = Len(q) + 1 \/ j = Len(q) + 1
    BY <1>1
  <2> QED BY <2>3, <2>4, <2>5
<1> QED BY <1>2, <1>4 DEF r

(* A new owner is linked behind the first. *)
LEMMA SecondInProperties ==
  ASSUME NEW q \in Seq(Owner), NEW o \in Owner
  PROVE  /\ SecondIn(q, o) \in Seq(Owner)
         /\ NoTwice(q) /\ ~Queued(q, o.conn) => NoTwice(SecondIn(q, o))
<1>1. CASE q = <<>>
  <2>1. SecondIn(q, o) = <<o>>
    BY <1>1 DEF SecondIn
  <2>2. <<o>> \in Seq(Owner) /\ DOMAIN <<o>> = 1..1
    OBVIOUS
  <2> QED BY <2>1, <2>2 DEF NoTwice
<1>2. CASE q # <<>>
  <2> DEFINE r == InsertAt(q, 2, o)
  <2>1. Len(q) \in Nat /\ Len(q) > 0 /\ DOMAIN q = 1..Len(q)
    BY <1>2, LenProperties, EmptySeq
  <2>2. 2 \in 1..(Len(q) + 1)
    BY <2>1
  <2>3. /\ r \in Seq(Owner)
        /\ Len(r) = Len(q) + 1
        /\ \A i \in 1..(Len(q) + 1) : r[i] = IF i < 2 THEN q[i] ELSE IF i = 2 THEN o ELSE q[i - 1]
    BY <2>2, InsertAtProperties
  <2>4. SecondIn(q, o) = r
    BY <1>2 DEF SecondIn
  <2> HIDE DEF r
  <2>5. DOMAIN r = 1..(Len(q) + 1)
    BY <2>3, LenProperties
  <2>6. ASSUME NoTwice(q), ~Queued(q, o.conn)
        PROVE  NoTwice(r)
    <3>1. SUFFICES ASSUME NEW i \in 1..(Len(q) + 1), NEW j \in 1..(Len(q) + 1),
                          r[i].conn = r[j].conn
                   PROVE  i = j
      BY <2>5 DEF NoTwice
    <3>2. \A k \in 1..Len(q) : q[k].conn # o.conn
      BY <2>1, <2>6 DEF Queued
    <3> DEFINE at(k) == IF k < 2 THEN k ELSE k - 1
    <3>3. ASSUME NEW k \in 1..(Len(q) + 1), k # 2
          PROVE  at(k) \in 1..Len(q) /\ r[k] = q[at(k)]
      BY <3>3, <2>1, <2>3
    <3>4. r[2] = o
      BY <2>1, <2>3
    <3>5. CASE i = 2 \/ j = 2
      BY <3>1, <3>2, <3>3, <3>4, <3>5
    <3>6. CASE i # 2 /\ j # 2
      <4>1. q[at(i)].conn = q[at(j)].conn /\ at(i) \in 1..Len(q) /\ at(j) \in 1..Len(q)
        BY <3>1, <3>3, <3>6
      <4>2. at(i) = at(j)
        BY <4>1, <2>1, <2>6 DEF NoTwice
      <4> QED BY <4>2, <3>6, <2>1
    <3> QED BY <3>5, <3>6
  <2> QED BY <2>3, <2>4, <2>6
<1> QED BY <1>1, <1>2

(* An entry replaced by another of the same client. *)
LEMMA ReplacedOwner ==
  ASSUME NEW q \in Seq(Owner), NEW i, NEW o,
         i \in 1..Len(q) => o \in Owner /\ o.conn = q[i].conn
  PROVE  /\ [q EXCEPT ![i] = o] \in Seq(Owner)
         /\ NoTwice(q) => NoTwice([q EXCEPT ![i] = o])
<1> DEFINE r == [q EXCEPT ![i] = o]
<1>1. Len(q) \in Nat /\ DOMAIN q = 1..Len(q)
  BY LenProperties
<1>2. CASE i \in 1..Len(q)
  <2>1. /\ r \in Seq(Owner)
        /\ Len(r) = Len(q)
        /\ \A j \in 1..Len(q) : r[j] = IF j = i THEN o ELSE q[j]
    BY <1>2, ExceptSeq
  <2> HIDE DEF r
  <2>2. DOMAIN r = 1..Len(q)
    BY <2>1, LenProperties
  <2>3. \A j \in 1..Len(q) : r[j].conn = q[j].conn
    BY <1>2, <2>1
  <2>4. NoTwice(q) => NoTwice(r)
    BY <1>1, <2>2, <2>3 DEF NoTwice
  <2> QED BY <2>1, <2>4 DEF r
<1>3. CASE i \notin 1..Len(q)
  <2>1. r = q
    <3>1. q = [j \in 1..Len(q) |-> q[j]]
      BY LenProperties
    <3>2. r = [j \in 1..Len(q) |-> q[j]]
      BY <1>1, <1>3
    <3> QED BY <3>1, <3>2
  <2> HIDE DEF r
  <2> QED BY <2>1 DEF r
<1> QED BY <1>2, <1>3

(* The first owner put behind the second. *)
LEMMA SwappedProperties ==
  ASSUME NEW q \in Seq(Owner)
  PROVE  /\ Swapped(q) \in Seq(Owner)
         /\ NoTwice(q) => NoTwice(Swapped(q))
<1>1. CASE q = <<>>
  BY <1>1 DEF Swapped
<1>2. CASE q # <<>>
  <2>1. Len(q) \in Nat /\ Len(q) > 0 /\ DOMAIN q = 1..Len(q)
    BY <1>2, LenProperties, EmptySeq
  <2>2. q[1] \in Owner
    BY <2>1, ElementOfSeq
  <2> DEFINE t == Tail(q)
  <2>3. /\ t \in Seq(Owner)
        /\ Len(t) = Len(q) - 1
        /\ \A j \in 1..Len(t) : t[j] = q[j + 1]
    BY <1>2, HeadTailProperties
  <2>4. Swapped(q) = SecondIn(t, q[1])
    BY <1>2 DEF Swapped
  <2> HIDE DEF t
  <2>5. DOMAIN t = 1..Len(t)
    BY <2>3, LenProperties
  <2>6. ASSUME NoTwice(q)
        PROVE  NoTwice(t) /\ ~Queued(t, q[1].conn)
    <3>1. ASSUME NEW i \in 1..Len(t), NEW j \in 1..Len(t), t[i].conn = t[j].conn
          PROVE  i = j
      <4>1. i + 1 \in DOMAIN q /\ j + 1 \in DOMAIN q
        BY <2>1, <2>3
      <4>2. q[i + 1].conn = q[j + 1].conn
        BY <3>1, <2>3
      <4>3. i + 1 = j + 1
        BY <4>1, <4>2, <2>6 DEF NoTwice
      <4> QED BY <4>3, <2>1, <2>3
    <3>2. ASSUME NEW i \in 1..Len(t), t[i].conn = q[1].conn
          PROVE  FALSE
      <4>1. i + 1 \in DOMAIN q /\ 1 \in DOMAIN q
        BY <2>1, <2>3
      <4>2. q[i + 1].conn = q[1].conn
        BY <3>2, <2>3
      <4>3. i + 1 = 1
        BY <4>1, <4>2, <2>6 DEF NoTwice
      <4> QED BY <4>3, <2>1, <2>3
    <3> QED BY <3>1, <3>2, <2>5 DEF NoTwice, Queued
  <2> QED BY <2>2, <2>3, <2>4, <2>6, SecondInProperties
<1> QED BY <1>1, <1>2

(* The list of names of a client stays one. *)
LEMMA DisownedType ==
  ASSUME NEW S, NEW s \in Seq(S), NEW n
  PROVE  Disowned(s, n) \in Seq(S)
<1>1. CASE \E i \in DOMAIN s : LastAt(s, n, i)
  <2> DEFINE p == CHOOSE i \in DOMAIN s : LastAt(s, n, i)
  <2>1. p \in 1..Len(s)
    BY <1>1, LenProperties
  <2>2. Disowned(s, n) = RemoveAt(s, p)
    BY <1>1 DEF Disowned
  <2> HIDE DEF p
  <2> QED BY <2>1, <2>2, RemoveAtProperties
<1>2. CASE ~ \E i \in DOMAIN s : LastAt(s, n, i)
  BY <1>2 DEF Disowned
<1> QED BY <1>1, <1>2

-----------------------------------------------------------------------------
(* Who is in a queue, and which names are on a client's list.              *)

Lists(s, n) == \E i \in DOMAIN s : s[i] = n

(* A list that holds every name at most once. *)
Once(s) == \A i, j \in DOMAIN s : s[i] = s[j] => i = j

(* Exactly one client leaves. *)
LEMMA QueuedWithout ==
  ASSUME NEW q \in Seq(Owner), NEW c, NoTwice(q)
  PROVE  \A d : Queued(Without(q, c), d) <=> Queued(q, d) /\ d # c
<1>1. CASE ~Queued(q, c)
  BY <1>1 DEF Without
<1>2. CASE Queued(q, c)
  <2> DEFINE p == Place(q, c)
             r == RemoveAt(q, p)
  <2>1. Len(q) \in Nat /\ DOMAIN q = 1..Len(q)
    BY LenProperties
  <2>2. p \in 1..Len(q) /\ q[p].conn = c
    BY <1>2, <2>1 DEF Queued, Place
  <2>3. Without(q, c) = r
    BY <1>2 DEF Without
  <2>4. \A k \in 1..Len(q) : q[k].conn = c => k = p
    BY <2>1, <2>2 DEF NoTwice
  <2> HIDE DEF p
  <2>5. r \in Seq(Owner)
    BY <2>2, RemoveAtProperties
  <2>6. /\ \A j \in 1..Len(r) : \E k \in 1..Len(q) : k # p /\ r[j] = q[k]
        /\ \A k \in 1..Len(q) : k # p => \E j \in 1..Len(r) : r[j] = q[k]
    BY <2>2, RemoveAtElements
  <2> HIDE DEF r
  <2>7. DOMAIN r = 1..Len(r)
    BY <2>5, LenProperties
  <2>8. ASSUME NEW d, Queued(r, d)
        PROVE  Queued(q, d) /\ d # c
    <3>1. PICK j \in 1..Len(r) : r[j].conn = d
      BY <2>7, <2>8 DEF Queued
    <3>2. PICK k \in 1..Len(q) : k # p /\ r[j] = q[k]
      BY <2>6
    <3> QED BY <2>1, <2>4, <3>1, <3>2 DEF Queued
  <2>9. ASSUME NEW d, Queued(q, d), d # c
        PROVE  Queued(r, d)
    <3>1. PICK k \in 1..Len(q) : q[k].conn = d
      BY <2>1, <2>9 DEF Queued
    <3>2. k # p
      BY <2>2, <2>9, <3>1
    <3>3. PICK j \in 1..Len(r) : r[j] = q[k]
      BY <2>6, <3>2
    <3> QED BY <2>7, <3>1, <3>3 DEF Queued
  <2> QED BY <2>3, <2>8, <2>9
<1> QED BY <1>1, <1>2

(* One joins, at the end or behind the first. *)
LEMMA QueuedAppend ==
  ASSUME NEW q \in Seq(Owner), NEW o \in Owner
  PROVE  \A d : Queued(Append(q, o), d) <=> Queued(q, d) \/ d = o.conn
<1> DEFINE r == Append(q, o)
<1>1. /\ Len(q) \in Nat /\ DOMAIN q = 1..Len(q)
      /\ r \in Seq(Owner)
      /\ Len(r) = Len(q) + 1
      /\ \A i \in 1..Len(q) : r[i] = q[i]
      /\ r[Len(q) + 1] = o
  BY AppendProperties, LenProperties
<1> HIDE DEF r
<1>2. DOMAIN r = 1..(Len(q) + 1)
  BY <1>1, LenProperties
<1>3. \A i \in 1..(Len(q) + 1) : i \in 1..Len(q) \/ i = Len(q) + 1
  BY <1>1
<1>4. (\A i \in 1..Len(q) : i \in 1..(Len(q) + 1)) /\ Len(q) + 1 \in 1..(Len(q) + 1)
  BY <1>1
<1>5. ASSUME NEW d, Queued(r, d)
      PROVE  Queued(q, d) \/ d = o.conn
  BY <1>1, <1>2, <1>3, <1>5 DEF Queued
<1>6. ASSUME NEW d, Queued(q, d) \/ d = o.conn
      PROVE  Queued(r, d)
  BY <1>1, <1>2, <1>4, <1>6 DEF Queued
<1> QED BY <1>5, <1>6 DEF r

LEMMA QueuedSecondIn ==
  ASSUME NEW q \in Seq(Owner), NEW o \in Owner
  PROVE  \A d : Queued(SecondIn(q, o), d) <=> Queued(q, d) \/ d = o.conn
<1>1. CASE q = <<>>
  <2>1. SecondIn(q, o) = <<o>> /\ <<o>>[1] = o /\ DOMAIN <<o>> = {1} /\ DOMAIN q = {}
    BY <1>1 DEF SecondIn
  <2> QED BY <2>1 DEF Queued
<1>2. CASE q # <<>>
  <2> DEFINE r == InsertAt(q, 2, o)
  <2>1. Len(q) \in Nat /\ Len(q) > 0 /\ DOMAIN q = 1..Len(q)
    BY <1>2, LenProperties, EmptySeq
  <2>2. 2 \in 1..(Len(q) + 1)
    BY <2>1
  <2>3. r \in Seq(Owner) /\ SecondIn(q, o) = r
    BY <1>2, <2>2, InsertAtProperties DEF SecondIn
  <2>4. /\ \A j \in 1..Len(r) : r[j] = o \/ \E k \in 1..Len(q) : r[j] = q[k]
        /\ \E j \in 1..Len(r) : r[j] = o
        /\ \A k \in 1..Len(q) : \E j \in 1..Len(r) : r[j] = q[k]
    BY <2>2, InsertAtElements
  <2> HIDE DEF r
  <2>5. DOMAIN r = 1..Len(r)
    BY <2>3, LenProperties
  <2>6. ASSUME NEW d, Queued(r, d)
        PROVE  Queued(q, d) \/ d = o.conn
    <3>1. PICK j \in 1..Len(r) : r[j].conn = d
      BY <2>5, <2>6 DEF Queued
    <3>2. CASE \E k \in 1..Len(q) : r[j] = q[k]
      BY <2>1, <3>1, <3>2 DEF Queued
    <3> QED BY <2>4, <3>1, <3>2
  <2>7. ASSUME NEW d, Queued(q, d) \/ d = o.conn
        PROVE  Queued(r, d)
    BY <2>1, <2>4, <2>5, <2>7 DEF Queued
  <2> QED BY <2>3, <2>6, <2>7
<1> QED BY <1>1, <1>2

(* An entry that is replaced by one of the same client, and the exchange of
   the first two, leave everybody in the queue. *)
LEMMA QueuedReplaced ==
  ASSUME NEW q \in Seq(Owner), NEW i, NEW o, i \in 1..Len(q) => o.conn = q[i].conn
  PROVE  \A d : Queued([q EXCEPT ![i] = o], d) <=> Queued(q, d)
<1> DEFINE r == [q EXCEPT ![i] = o]
<1>1. DOMAIN q = 1..Len(q) /\ DOMAIN r = DOMAIN q
  BY LenProperties
<1>2. \A j \in DOMAIN q : r[j].conn = q[j].conn
  BY <1>1
<1> HIDE DEF r
<1>3. \A d : Queued(r, d) <=> Queued(q, d)
  BY <1>1, <1>2 DEF Queued
<1> QED BY <1>3 DEF r

LEMMA QueuedSwapped ==
  ASSUME NEW q \in Seq(Owner)
  PROVE  \A d : Queued(Swapped(q), d) <=> Queued(q, d)
<1>1. CASE q = <<>>
  BY <1>1 DEF Swapped
<1>2. CASE q # <<>>
  <2> DEFINE t == Tail(q)
  <2>1. /\ Len(q) \in Nat /\ Len(q) > 0 /\ DOMAIN q = 1..Len(q)
        /\ t \in Seq(Owner)
        /\ Len(t) = Len(q) - 1
        /\ \A j \in 1..Len(t) : t[j] = q[j + 1]
    BY <1>2, LenProperties, EmptySeq, HeadTailProperties
  <2>2. Swapped(q) = SecondIn(t, q[1])
    BY <1>2 DEF Swapped
  <2> HIDE DEF t
  <2>3. DOMAIN t = 1..Len(t) /\ q[1] \in Owner
    BY <2>1, LenProperties, ElementOfSeq
  <2>4. ASSUME NEW d
        PROVE  Queued(q, d) <=> Queued(t, d) \/ d = q[1].conn
    <3>1. ASSUME Queued(q, d)
          PROVE  Queued(t, d) \/ d = q[1].conn
      <4>1. PICK k \in 1..Len(q) : q[k].conn = d
        BY <2>1, <3>1 DEF Queued
      <4>2. CASE k = 1
        BY <4>1, <4>2
      <4>3. CASE k # 1
        <5>1. k - 1 \in 1..Len(t) /\ (k - 1) + 1 = k
          BY <2>1, <4>3
        <5>2. t[k - 1] = q[k]
          BY <2>1, <5>1
        <5> QED BY <2>3, <4>1, <5>1, <5>2 DEF Queued
      <4> QED BY <4>2, <4>3
    <3>2. ASSUME Queued(t, d) \/ d = q[1].conn
          PROVE  Queued(q, d)
      <4>1. \A j \in 1..Len(t) : j + 1 \in 1..Len(q)
        BY <2>1
      <4>2. 1 \in 1..Len(q)
        BY <2>1
      <4> QED BY <2>1, <2>3, <3>2, <4>1, <4>2 DEF Queued
    <3> QED BY <3>1, <3>2
  <2> QED BY <2>1, <2>2, <2>3, <2>4, QueuedSecondIn
<1> QED BY <1>1, <1>2

(* A name that is put on a list. *)
LEMMA ListsAppend ==
  ASSUME NEW S, NEW s \in Seq(S), NEW n \in S
  PROVE  /\ \A m : Lists(Append(s, n), m) <=> Lists(s, m) \/ m = n
         /\ Once(s) /\ ~Lists(s, n) => Once(Append(s, n))
<1> DEFINE r == Append(s, n)
<1>1. /\ Len(s) \in Nat /\ DOMAIN s = 1..Len(s)
      /\ r \in Seq(S)
      /\ Len(r) = Len(s) + 1
      /\ \A i \in 1..Len(s) : r[i] = s[i]
      /\ r[Len(s) + 1] = n
  BY AppendProperties, LenProperties
<1> HIDE DEF r
<1>2. DOMAIN r = 1..(Len(s) + 1)
  BY <1>1, LenProperties
<1>3. \A i \in 1..(Len(s) + 1) : i \in 1..Len(s) \/ i = Len(s) + 1
  BY <1>1
<1>4. (\A i \in 1..Len(s) : i \in 1..(Len(s) + 1)) /\ Len(s) + 1 \in 1..(Len(s) + 1)
  BY <1>1
<1>5. ASSUME NEW m, Lists(r, m)
      PROVE  Lists(s, m) \/ m = n
  BY <1>1, <1>2, <1>3, <1>5 DEF Lists
<1>6. ASSUME NEW m, Lists(s, m) \/ m = n
      PROVE  Lists(r, m)
  BY <1>1, <1>2, <1>4, <1>6 DEF Lists
<1>7. ASSUME Once(s), ~Lists(s, n)
      PROVE  Once(r)
  <2>1. \A k \in 1..Len(s) : s[k] # n
    BY <1>1, <1>7 DEF Lists
  <2>2. ASSUME NEW i \in 1..(Len(s) + 1), NEW j \in 1..(Len(s) + 1), r[i] = r[j]
        PROVE  i = j
    <3>1. CASE i \in 1..Len(s) /\ j \in 1..Len(s)
      BY <1>1, <1>7, <2>2, <3>1 DEF Once
    <3>2. CASE i = Len(s) + 1 \/ j = Len(s) + 1
      BY <1>1, <1>3, <2>1, <2>2, <3>2
    <3> QED BY <1>3, <3>1, <3>2
  <2> QED BY <1>2, <2>2 DEF Once
<1> QED BY <1>5, <1>6, <1>7 DEF r

(* _dbus_list_remove_last takes exactly the name off a list that has it once. *)
LEMMA DisownedProperties ==
  ASSUME NEW S, NEW s \in Seq(S), NEW n, Once(s)
  PROVE  /\ Once(Disowned(s, n))
         /\ \A m : Lists(Disowned(s, n), m) <=> Lists(s, m) /\ m # n
         /\ ~Lists(s, n) => Disowned(s, n) = s
<1>1. CASE ~Lists(s, n)
  <2>1. ~ \E i \in DOMAIN s : LastAt(s, n, i)
    BY <1>1 DEF Lists, LastAt
  <2> QED BY <1>1, <2>1 DEF Disowned, Lists
<1>2. CASE Lists(s, n)
  <2> DEFINE p == CHOOSE i \in DOMAIN s : LastAt(s, n, i)
             r == RemoveAt(s, p)
  <2>1. Len(s) \in Nat /\ DOMAIN s = 1..Len(s)
    BY LenProperties
  <2>2. \E i \in DOMAIN s : LastAt(s, n, i)
    <3>1. PICK i \in 1..Len(s) : s[i] = n
      BY <1>2, <2>1 DEF Lists
    <3>2. \A j \in 1..Len(s) : s[j] = n => j = i
      BY <2>1, <3>1 DEF Once
    <3>3. i <= i
      BY <2>1
    <3> QED BY <2>1, <3>1, <3>2, <3>3 DEF LastAt
  <2>3. p \in 1..Len(s) /\ s[p] = n
    BY <2>1, <2>2 DEF LastAt
  <2>4. Disowned(s, n) = r
    BY <2>2 DEF Disowned
  <2> HIDE DEF p
  <2>5. /\ r \in Seq(S)
        /\ Len(r) = Len(s) - 1
        /\ \A j \in 1..(Len(s) - 1) : r[j] = IF j < p THEN s[j] ELSE s[j + 1]
    BY <2>3, RemoveAtProperties
  <2>6. /\ \A j \in 1..Len(r) : \E k \in 1..Len(s) : k # p /\ r[j] = s[k]
        /\ \A k \in 1..Len(s) : k # p => \E j \in 1..Len(r) : r[j] = s[k]
    BY <2>3, RemoveAtElements
  <2> HIDE DEF r
  <2>7. DOMAIN r = 1..(Len(s) - 1) /\ DOMAIN r = 1..Len(r)
    BY <2>5, LenProperties
  <2>8. Once(r)
    <3>1. SUFFICES ASSUME NEW i \in 1..(Len(s) - 1), NEW j \in 1..(Len(s) - 1), r[i] = r[j]
                   PROVE  i = j
      BY <2>7 DEF Once
    <3> DEFINE at(k) == IF k < p THEN k ELSE k + 1
    <3>2. at(i) \in 1..Len(s) /\ at(j) \in 1..Len(s)
      BY <2>1, <2>3
    <3>3. r[i] = s[at(i)] /\ r[j] = s[at(j)]
      BY <2>5
    <3>4. at(i) = at(j)
      BY <2>1, <3>1, <3>2, <3>3 DEF Once
    <3> QED BY <3>4, <2>1, <2>3
  <2>9. \A k \in 1..Len(s) : s[k] = n => k = p
    BY <2>1, <2>3 DEF Once
  <2>10. ASSUME NEW m, Lists(r, m)
         PROVE  Lists(s, m) /\ m # n
    <3>1. PICK j \in 1..Len(r) : r[j] = m
      BY <2>7, <2>10 DEF Lists
    <3>2. PICK k \in 1..Len(s) : k # p /\ r[j] = s[k]
      BY <2>6
    <3> QED BY <2>1, <2>9, <3>1, <3>2 DEF Lists
  <2>11. ASSUME NEW m, Lists(s, m), m # n
         PROVE  Lists(r, m)
    <3>1. PICK k \in 1..Len(s) : s[k] = m
      BY <2>1, <2>11 DEF Lists
    <3>2. PICK j \in 1..Len(r) : r[j] = s[k]
      BY <2>3, <2>6, <2>11, <3>1
    <3> QED BY <2>7, <3>1, <3>2 DEF Lists
  <2> QED BY <1>2, <2>4, <2>8, <2>10, <2>11
<1> QED BY <1>1, <1>2

-----------------------------------------------------------------------------
(* What the constructors of messages, calls and hooks build, and what the  *)
(* kind of one says about its fields.                                      *)

(* Every message the daemon writes is a Message. *)
LEMMA MessageIntro ==
  /\ \A c \in Conn, n \in AnyName : Acquired(c, n) \in Message /\ Lost(c, n) \in Message
  /\ \A n \in AnyName, o \in Conn \cup {NoOne}, w \in Conn \cup {NoOne} : Changed(n, o, w) \in Message
  /\ \A c \in Conn, n \in AnyName, r \in Result : Reply(c, n, r) \in Message
  /\ \A c \in Conn : Failure(c) \in Message
  /\ \A c \in Conn, n \in Name : Answer(c, n) \in Message /\ Handover(c, n) \in Message
<1>1. \A c \in Conn, n \in AnyName : Acquired(c, n) \in Message /\ Lost(c, n) \in Message
  BY DEF Message
<1>2. \A n \in AnyName, o \in Conn \cup {NoOne}, w \in Conn \cup {NoOne} : Changed(n, o, w) \in Message
  BY DEF Message
<1>3. \A c \in Conn, n \in AnyName, r \in Result : Reply(c, n, r) \in Message
  BY DEF Message
<1>4. \A c \in Conn : Failure(c) \in Message
  BY DEF Message
<1>5. \A c \in Conn, n \in Name : Answer(c, n) \in Message /\ Handover(c, n) \in Message
  BY DEF Message
<1> QED BY <1>1, <1>2, <1>3, <1>4, <1>5

(* The fields clients read from a message, by its kind. *)
LEMMA MessageFields ==
  ASSUME NEW m \in Message
  PROVE  /\ m.kind \in {"acquired", "lost"} => m.to \in Conn /\ m.name \in AnyName
         /\ m.kind = "changed" => m.name \in AnyName /\ m.new \in Conn \cup {NoOne}
         /\ m.kind = "answer" => m.to \in Conn
         /\ m.kind = "handover" => m.from \in Conn
<1> USE DEF Acquired, Lost, Changed, Reply, Failure, Answer, Handover
<1>1. CASE m \in {Acquired(c, n) : c \in Conn, n \in AnyName}
  BY <1>1
<1>2. CASE m \in {Lost(c, n) : c \in Conn, n \in AnyName}
  BY <1>2
<1>3. CASE m \in {Changed(n, o, w) : n \in AnyName, o \in Conn \cup {NoOne}, w \in Conn \cup {NoOne}}
  BY <1>3
<1>4. CASE m \in {Reply(c, n, r) : c \in Conn, n \in AnyName, r \in Result}
  BY <1>4
<1>5. CASE m \in {Failure(c) : c \in Conn}
  BY <1>5
<1>6. CASE m \in {Answer(c, n) : c \in Conn, n \in Name}
  BY <1>6
<1>7. CASE m \in {Handover(c, n) : c \in Conn, n \in Name}
  BY <1>7
<1> QED BY <1>1, <1>2, <1>3, <1>4, <1>5, <1>6, <1>7 DEF Message

(* Every call a handler plans is a Call. *)
LEMMA CallIntro ==
  /\ \A m \in Message : Send(m) \in Call
  /\ \A n \in AnyName, c \in Conn, f \in AllFlags :
       LinkOwner(n, c, f) \in Call /\ SetFlags(n, c, f) \in Call
  /\ \A n \in AnyName, c \in Conn : RemoveOwner(n, c) \in Call /\ SwapOwner(n, c) \in Call
  /\ \A n \in AnyName, o \in Owner : UnlinkOwner(n, o) \in Call /\ SwapLinks(n, o) \in Call
  /\ \A n \in Name, e \in Entry : Notify(n, e) \in Call /\ Dispatch(n, e) \in Call
  /\ \A n \in Name : /\ SendHeld(n) \in Call /\ Forget(n) \in Call
                     /\ Spawn(n) \in Call /\ Drop(n) \in Call
  /\ \A n \in Name, c \in Conn, a \in BOOLEAN : Register(n, c, a) \in Call
  /\ \A c \in Conn : Complete(c) \in Call
<1>1. \A m \in Message : Send(m) \in Call
  BY DEF Call
<1>2. \A n \in AnyName, c \in Conn, f \in AllFlags :
        LinkOwner(n, c, f) \in Call /\ SetFlags(n, c, f) \in Call
  BY DEF Call
<1>3. \A n \in AnyName, c \in Conn : RemoveOwner(n, c) \in Call /\ SwapOwner(n, c) \in Call
  BY DEF Call
<1>4. \A n \in AnyName, o \in Owner : UnlinkOwner(n, o) \in Call /\ SwapLinks(n, o) \in Call
  BY DEF Call
<1>5. \A n \in Name, e \in Entry : Notify(n, e) \in Call /\ Dispatch(n, e) \in Call
  BY DEF Call
<1>6. \A n \in Name : /\ SendHeld(n) \in Call /\ Forget(n) \in Call
                      /\ Spawn(n) \in Call /\ Drop(n) \in Call
  BY DEF Call
<1>7. \A n \in Name, c \in Conn, a \in BOOLEAN : Register(n, c, a) \in Call
  BY DEF Call
<1>8. \A c \in Conn : Complete(c) \in Call
  BY DEF Call
<1> QED BY <1>1, <1>2, <1>3, <1>4, <1>5, <1>6, <1>7, <1>8

(* The arguments of a call, by the function called. *)
LEMMA CallFields ==
  ASSUME NEW k \in Call
  PROVE  /\ k.call = "send" => k.msg \in Message
         /\ k.call \in {"link_owner", "set_flags"} =>
              k.name \in AnyName /\ k.conn \in Conn /\ k.flags \in AllFlags
         /\ k.call \in {"remove_owner", "swap_owner"} => k.name \in AnyName /\ k.conn \in Conn
         /\ k.call \in {"unlink_owner", "swap_links"} => k.name \in AnyName /\ k.owner \in Owner
         /\ k.call \in {"notify", "dispatch"} => k.name \in Name /\ k.entry \in Entry
         /\ k.call \in {"send_held", "forget", "spawn", "drop"} => k.name \in Name
         /\ k.call = "register" => k.name \in Name /\ k.conn \in Conn /\ k.auto \in BOOLEAN
         /\ k.call = "complete" => k.conn \in Conn
<1> USE DEF Send, LinkOwner, SetFlags, RemoveOwner, UnlinkOwner, SwapOwner, SwapLinks,
            Notify, SendHeld, Dispatch, Forget, Register, Spawn, Complete, Drop
<1>1. CASE k \in {Send(m) : m \in Message}
  BY <1>1
<1>2. CASE k \in {LinkOwner(n, c, f) : n \in AnyName, c \in Conn, f \in AllFlags}
  BY <1>2
<1>3. CASE k \in {SetFlags(n, c, f) : n \in AnyName, c \in Conn, f \in AllFlags}
  BY <1>3
<1>4. CASE k \in {RemoveOwner(n, c) : n \in AnyName, c \in Conn}
  BY <1>4
<1>5. CASE k \in {UnlinkOwner(n, o) : n \in AnyName, o \in Owner}
  BY <1>5
<1>6. CASE k \in {SwapOwner(n, c) : n \in AnyName, c \in Conn}
  BY <1>6
<1>7. CASE k \in {SwapLinks(n, o) : n \in AnyName, o \in Owner}
  BY <1>7
<1>8. CASE k \in {Notify(n, e) : n \in Name, e \in Entry}
  BY <1>8
<1>9. CASE k \in {SendHeld(n) : n \in Name}
  BY <1>9
<1>10. CASE k \in {Dispatch(n, e) : n \in Name, e \in Entry}
  BY <1>10
<1>11. CASE k \in {Forget(n) : n \in Name}
  BY <1>11
<1>12. CASE k \in {Register(n, c, a) : n \in Name, c \in Conn, a \in BOOLEAN}
  BY <1>12
<1>13. CASE k \in {Spawn(n) : n \in Name}
  BY <1>13
<1>14. CASE k \in {Complete(c) : c \in Conn}
  BY <1>14
<1>15. CASE k \in {Drop(n) : n \in Name}
  BY <1>15
<1> HIDE DEF Send, LinkOwner, SetFlags, RemoveOwner, UnlinkOwner, SwapOwner, SwapLinks,
             Notify, SendHeld, Dispatch, Forget, Register, Spawn, Complete, Drop
<1> QED BY <1>1, <1>2, <1>3, <1>4, <1>5, <1>6, <1>7, <1>8, <1>9, <1>10,
           <1>11, <1>12, <1>13, <1>14, <1>15 DEF Call

(* Every hook a handler adds is a Hook. *)
LEMMA HookIntro ==
  /\ \A n \in AnyName, c \in Conn : CancelOwnership(n, c) \in Hook
  /\ \A n \in AnyName, o \in Owner, i \in {1, 2} : RestoreOwnership(n, o, i) \in Hook
  /\ \A n \in Name : CancelPending(n) \in Hook
  /\ \A n \in Name, es \in Seq(Entry), k \in BOOLEAN : RestorePending(n, es, k) \in Hook
<1>1. \A n \in AnyName, c \in Conn : CancelOwnership(n, c) \in Hook
  BY DEF Hook
<1>2. \A n \in AnyName, o \in Owner, i \in {1, 2} : RestoreOwnership(n, o, i) \in Hook
  BY DEF Hook, RestoreOwnership
<1>3. \A n \in Name : CancelPending(n) \in Hook
  BY DEF Hook
<1>4. \A n \in Name, es \in Seq(Entry), k \in BOOLEAN : RestorePending(n, es, k) \in Hook
  BY DEF Hook, RestorePending
<1> QED BY <1>1, <1>2, <1>3, <1>4

(* The data of a hook, by what it undoes. *)
LEMMA HookFields ==
  ASSUME NEW h \in Hook
  PROVE  /\ h.hook = "cancel_ownership" => h.name \in AnyName /\ h.conn \in Conn
         /\ h.hook = "restore_ownership" => h.name \in AnyName /\ h.owner \in Owner
         /\ h.hook = "cancel_pending" => h.name \in Name
         /\ h.hook = "restore_pending" =>
              h.name \in Name /\ h.entries \in Seq(Entry) /\ h.alive \in BOOLEAN
<1>1. CASE h \in {CancelOwnership(n, c) : n \in AnyName, c \in Conn}
  BY <1>1 DEF CancelOwnership
<1>2. CASE h \in [hook : {"restore_ownership"}, name : AnyName, owner : Owner, at : {1, 2}]
  BY <1>2
<1>3. CASE h \in {CancelPending(n) : n \in Name}
  BY <1>3 DEF CancelPending
<1>4. CASE h \in [hook : {"restore_pending"}, name : Name, entries : Seq(Entry), alive : BOOLEAN]
  BY <1>4
<1> QED BY <1>1, <1>2, <1>3, <1>4 DEF Hook

-----------------------------------------------------------------------------
(* The calls handlers plan.                                                *)

(* Short and joined sequences of calls. *)
LEMMA CallSequences ==
  /\ <<>> \in Seq(Call)
  /\ \A a \in Call : <<a>> \in Seq(Call)
  /\ \A a, b \in Call : <<a, b>> \in Seq(Call)
  /\ \A s, t \in Seq(Call) : s \o t \in Seq(Call)
  /\ \A s \in Seq(Call), a \in Call : Append(s, a) \in Seq(Call)
<1>1. \A s, t \in Seq(Call) : s \o t \in Seq(Call)
  BY ConcatProperties
<1>2. \A s \in Seq(Call), a \in Call : Append(s, a) \in Seq(Call)
  BY AppendProperties
<1>3. /\ <<>> \in Seq(Call)
      /\ \A a \in Call : <<a>> \in Seq(Call)
      /\ \A a, b \in Call : <<a, b>> \in Seq(Call)
  OBVIOUS
<1> QED BY <1>1, <1>2, <1>3

(* One call for each entry of a pending activation. *)
LEMMA CallsForEntries ==
  ASSUME TypeOK, NEW n \in Name
  PROVE  /\ Started(n) \in Seq(Call)
         /\ Held(n) \in Seq(Call)
         /\ Failures(n) \in Seq(Call)
<1>1. pending[n] \in Seq(Entry)
  BY DEF TypeOK
<1>2. /\ DOMAIN pending[n] = 1..Len(pending[n])
      /\ Len(pending[n]) \in Nat
  BY <1>1, LenProperties
<1>3. \A i \in DOMAIN pending[n] : pending[n][i] \in Entry /\ pending[n][i].conn \in Conn
  <2>1. \A i \in DOMAIN pending[n] : pending[n][i] \in Entry
    BY <1>1, <1>2, ElementOfSeq
  <2> QED BY <2>1 DEF Entry
<1>4. \A g : g \in [1..Len(pending[n]) -> Call] => g \in Seq(Call)
  BY <1>2, SeqDef
<1>5. Started(n) \in [1..Len(pending[n]) -> Call]
  BY <1>2, <1>3, CallIntro DEF Started
<1>6. Held(n) \in [1..Len(pending[n]) -> Call]
  BY <1>2, <1>3, CallIntro DEF Held
<1>7. Failures(n) \in [1..Len(pending[n]) -> Call]
  <2>1. \A i \in DOMAIN pending[n] : Send(Answer(pending[n][i].conn, n)) \in Call
    BY <1>3, CallIntro, MessageIntro
  <2> QED BY <1>2, <2>1 DEF Failures
<1> QED BY <1>4, <1>5, <1>6, <1>7

(* The queue of a name with an owner has a first element. *)
LEMMA FirstOwner ==
  ASSUME TypeOK, NEW n \in AnyName, owners[n] # <<>>
  PROVE  /\ owners[n] \in Seq(Owner)
         /\ 1 \in DOMAIN owners[n]
         /\ owners[n][1] \in Owner
         /\ Primary(n) = owners[n][1].conn
         /\ Primary(n) \in Conn
<1>1. owners[n] \in Seq(Owner)
  BY DEF TypeOK
<1>2. Len(owners[n]) \in Nat \ {0} /\ DOMAIN owners[n] = 1..Len(owners[n])
  BY <1>1, LenProperties, EmptySeq
<1>3. 1 \in 1..Len(owners[n])
  BY <1>2
<1>4. owners[n][1] \in Owner
  BY <1>1, <1>3, ElementOfSeq
<1> QED BY <1>1, <1>2, <1>3, <1>4 DEF Primary, Owner

(* The calls that announce who owns a name next. *)
LEMMA SuccessionCalls ==
  ASSUME TypeOK, NEW n \in AnyName, NEW c \in Conn, owners[n] # <<>>
  PROVE  Succession(n, c) \in Seq(Call)
<1>1. owners[n] \in Seq(Owner)
  BY DEF TypeOK
<1>2. Len(owners[n]) \in Nat \ {0}
  BY <1>1, EmptySeq
<1>3. Heir(n) \in Conn \cup {NoOne}
  <2>1. CASE Len(owners[n]) = 1
    BY <2>1 DEF Heir
  <2>2. CASE Len(owners[n]) # 1
    <3>1. 2 \in 1..Len(owners[n])
      <4>1. Len(owners[n]) \in Nat /\ Len(owners[n]) # 0 /\ Len(owners[n]) # 1
        BY <2>2, <1>2
      <4>2. \A k \in Nat : k # 0 /\ k # 1 => 2 \in 1..k
        OBVIOUS
      <4> QED BY <4>1, <4>2
    <3>2. owners[n][2] \in Owner
      BY <3>1, <1>1, ElementOfSeq
    <3> QED BY <2>2, <3>2 DEF Heir, Owner
  <2> QED BY <2>1, <2>2
<1>4. Send(Changed(n, c, Heir(n))) \in Call
  BY <1>3, CallIntro, MessageIntro
<1>5. Heir(n) # NoOne => Send(Acquired(Heir(n), n)) \in Call
  BY <1>3, CallIntro, MessageIntro
<1> QED BY <1>4, <1>5, CallSequences DEF Succession

(* The calls of a new owner and of a new service. *)
LEMMA NewOwnerCalls ==
  ASSUME TypeOK, NEW n \in AnyName, NEW c \in Conn, NEW f \in AllFlags
  PROVE  /\ AddOwner(n, c, f) \in Seq(Call)
         /\ Ensure(n, c, f) \in Seq(Call)
<1>1. Send(Acquired(c, n)) \in Call /\ LinkOwner(n, c, f) \in Call
  BY CallIntro, MessageIntro
<1>2. Send(Changed(n, NoOne, c)) \in Call
  BY CallIntro, MessageIntro
<1>3. AddOwner(n, c, f) \in Seq(Call)
  BY <1>1, CallSequences DEF AddOwner
<1>4. (IF n \in Name THEN Started(n) ELSE <<>>) \in Seq(Call)
  BY CallsForEntries, CallSequences
<1>5. <<Send(Changed(n, NoOne, c))>> \in Seq(Call)
  BY <1>2, CallSequences
<1>6. <<Send(Changed(n, NoOne, c))>> \o (IF n \in Name THEN Started(n) ELSE <<>>) \in Seq(Call)
  BY <1>4, <1>5, CallSequences
<1>7. <<Send(Changed(n, NoOne, c))>> \o (IF n \in Name THEN Started(n) ELSE <<>>)
        \o AddOwner(n, c, f) \in Seq(Call)
  BY <1>3, <1>6, CallSequences
<1> QED BY <1>3, <1>7, CallSequences DEF Ensure

(* The calls of RequestName, ReleaseName and of a call that activates. *)
LEMMA RequestCalls ==
  ASSUME TypeOK, NEW n \in Name, NEW c \in Conn
  PROVE  /\ \A f \in AllFlags : AcquireService(c, n, f) \in Seq(Call)
         /\ ReleaseService(c, n) \in Seq(Call)
         /\ \A a \in BOOLEAN : ActivateService(c, n, a) \in Seq(Call)
<1>0. n \in AnyName
  BY DEF AnyName
<1>1. ASSUME NEW f \in AllFlags
      PROVE  AcquireService(c, n, f) \in Seq(Call)
  <2> DEFINE x == Outcome(c, n, f)
  <2>1. x \in {"primary", "already", "replaced", "exists", "queued"}
    BY DEF Outcome
  <2>2. OutcomeResult(c, n, f) \in Result
    BY <2>1 DEF OutcomeResult, Result
  <2> HIDE DEF x
  <2>8. OutcomeCalls(c, n, f) \in Seq(Call)
    <3>1. CASE x = "primary"
      BY <3>1, <1>0, NewOwnerCalls DEF OutcomeCalls, x
    <3>2. CASE x = "already"
      <4>1. <<SetFlags(n, c, f)>> \in Seq(Call)
        BY <1>0, CallIntro, CallSequences
      <4> QED BY <3>2, <4>1 DEF OutcomeCalls, x
    <3>3. CASE x = "exists"
      <4>1. Decline(c, n) \in Seq(Call)
        BY <1>0, CallIntro, CallSequences DEF Decline
      <4> QED BY <3>3, <4>1 DEF OutcomeCalls, x
    <3>4. CASE x = "queued"
      BY <3>4, <1>0, NewOwnerCalls DEF OutcomeCalls, x
    <3>5. CASE x = "replaced"
      <4>1. Primary(n) \in Conn
        BY <3>5, <1>0, FirstOwner DEF Outcome, x
      <4>2. Dethrone(n) \in Seq(Call)
        BY <4>1, <1>0, CallIntro, CallSequences DEF Dethrone
      <4>3. AddOwner(n, c, f) \o Dethrone(n) \in Seq(Call)
        BY <4>2, <1>0, NewOwnerCalls, CallSequences
      <4> QED BY <3>5, <4>3 DEF OutcomeCalls, x
    <3> QED BY <2>1, <3>1, <3>2, <3>3, <3>4, <3>5
  <2>9. /\ SendHeld(n) \in Call
        /\ Send(Reply(c, n, OutcomeResult(c, n, f))) \in Call
        /\ Send(Failure(c)) \in Call
    BY <1>0, <2>2, CallIntro, MessageIntro
  <2>10. <<SendHeld(n), Send(Reply(c, n, OutcomeResult(c, n, f)))>> \in Seq(Call)
    BY <2>9, CallSequences
  <2> QED BY <2>8, <2>9, <2>10, CallSequences DEF AcquireService
<1>2. ReleaseService(c, n) \in Seq(Call)
  <2>1. \A r \in Result : Send(Reply(c, n, r)) \in Call
    BY <1>0, CallIntro, MessageIntro
  <2>2. RemoveOwner(n, c) \in Call
    BY <1>0, CallIntro
  <2> QED BY <2>1, <2>2, CallSequences DEF ReleaseService, Result
<1>3. ASSUME NEW a \in BOOLEAN
      PROVE  ActivateService(c, n, a) \in Seq(Call)
  <2>1. Send(Answer(c, n)) \in Call /\ Register(n, c, a) \in Call /\ Spawn(n) \in Call
    BY CallIntro, MessageIntro
  <2> QED BY <2>1, CallSequences DEF ActivateService
<1> QED BY <1>1, <1>2, <1>3

-----------------------------------------------------------------------------
(* Steps keep the types.                                                   *)

(* The next call is one, and so is what is left when it returns. *)
LEMMA NextCall ==
  ASSUME TypeOK, NEW f, Calling(f)
  PROVE  /\ Top \in Call /\ Top.call = f
         /\ Tail(todo) \in Seq(Call)
         /\ \A s \in Seq(Call) : s \o Tail(todo) \in Seq(Call)
<1>1. todo \in Seq(Call) /\ todo # <<>> /\ Top.call = f
  BY DEF Calling, TypeOK
<1>2. Top \in Call /\ Tail(todo) \in Seq(Call)
  BY <1>1, HeadTailProperties DEF Top
<1> QED BY <1>1, <1>2, CallSequences

(* A handler begins with calls and a job of the right type. *)
LEMMA BeginType ==
  ASSUME TypeOK, NEW y, NEW w, NEW u, NEW s \in Seq(Call),
         [why |-> y, by |-> w, left |-> u] \in Job,
         Begin(y, w, u, s), UNCHANGED <<busVars, oom, told, watched>>,
         calls' \in [Conn -> Name \cup {NoOne}]
  PROVE  TypeOK'
<1>1. <<>> \in Seq(Message) /\ <<>> \in Seq(Hook)
  OBVIOUS
<1> QED BY <1>1 DEF TypeOK, Begin, busVars

(* Raising an error leaves at most the error reply to send. *)
LEMMA RaiseType ==
  ASSUME TypeOK, Raise, Top.name \in Name
  PROVE  todo' \in Seq(Call)
<1>1. job.why \in {"request", "call"} => job.by \in Conn
  BY DEF TypeOK, Job, NoJob
<1>2. Requested => Send(ErrorReply(Top.name)) \in Call
  BY <1>1, CallIntro, MessageIntro DEF Requested, ErrorReply
<1> QED BY <1>2, CallSequences DEF Raise

(* What clients and programs do. *)
LEMMA OutsideType == TypeOK /\ Outside => TypeOK'
<1> SUFFICES ASSUME TypeOK, Outside PROVE TypeOK'
  OBVIOUS
<1>1. \A c \in Conn : /\ [why |-> "request", by |-> c, left |-> {}] \in Job
                      /\ [why |-> "call", by |-> c, left |-> {}] \in Job
  BY DEF Job
<1>2. calls \in [Conn -> Name \cup {NoOne}]
  BY DEF TypeOK
<1>3. ASSUME NEW c \in Conn, Hello(c)
      PROVE  TypeOK'
  <2> DEFINE f == [allow |-> FALSE, noqueue |-> FALSE, replace |-> FALSE]
             s == <<Complete(c), Send(Reply(c, c, "welcome"))>> \o Ensure(c, c, f)
  <2>1. f \in AllFlags
    BY DEF AllFlags
  <2>2. c \in AnyName
    BY DEF AnyName
  <2>3. Complete(c) \in Call /\ Send(Reply(c, c, "welcome")) \in Call
    BY <2>2, CallIntro, MessageIntro DEF Result
  <2>4. Ensure(c, c, f) \in Seq(Call)
    BY <2>1, <2>2, NewOwnerCalls
  <2>5. s \in Seq(Call)
    BY <2>3, <2>4, CallSequences
  <2>6. Begin("request", c, {}, s) /\ UNCHANGED <<busVars, oom, seenVars>>
    BY <1>3 DEF Hello
  <2>7. UNCHANGED <<busVars, oom, told, watched, calls>>
    BY <2>6 DEF seenVars
  <2> HIDE DEF s
  <2> QED BY <1>1, <1>2, <2>5, <2>6, <2>7, BeginType
<1>4. ASSUME NEW c \in Conn, HangUp(c)
      PROVE  TypeOK'
  BY <1>4 DEF HangUp, TypeOK, txnVars, seenVars
<1>5. ASSUME NEW c \in Conn, NEW n \in Name, NEW f \in Flags, RequestName(c, n, f)
      PROVE  TypeOK'
  <2>1. AcquireService(c, n, f) \in Seq(Call)
    BY RequestCalls, ConfigAssumption
  <2>2. UNCHANGED <<busVars, oom, told, watched, calls>>
    BY <1>5 DEF RequestName, seenVars
  <2> QED BY <1>1, <1>2, <1>5, <2>1, <2>2, BeginType DEF RequestName
<1>6. ASSUME NEW c \in Conn, NEW n \in Name, ReleaseName(c, n)
      PROVE  TypeOK'
  <2>1. ReleaseService(c, n) \in Seq(Call)
    BY RequestCalls
  <2>2. UNCHANGED <<busVars, oom, told, watched, calls>>
    BY <1>6 DEF ReleaseName, seenVars
  <2> QED BY <1>1, <1>2, <1>6, <2>1, <2>2, BeginType DEF ReleaseName
<1>7. ASSUME NEW c \in Conn, NEW n \in Name, NEW a \in BOOLEAN, Activate(c, n, a)
      PROVE  TypeOK'
  <2>1. ActivateService(c, n, a) \in Seq(Call)
    BY RequestCalls
  <2>2. calls' \in [Conn -> Name \cup {NoOne}]
    BY <1>2, <1>7 DEF Activate
  <2> QED BY <1>1, <1>7, <2>1, <2>2, BeginType DEF Activate
<1>8. ASSUME NEW n \in Name, ChildFails(n)
      PROVE  TypeOK'
  <2>1. job' \in Job
    BY <1>8 DEF ChildFails, Fail, Job
  <2> QED BY <1>8, <2>1 DEF ChildFails, Fail, TypeOK, busVars, seenVars
<1>9. ASSUME NEW n \in Name, ChildExits(n)
      PROVE  TypeOK'
  BY <1>9 DEF ChildExits, TypeOK, txnVars, registered, seenVars
<1> QED BY <1>3, <1>4, <1>5, <1>6, <1>7, <1>8, <1>9 DEF Outside

(* The queue of a name, and the list of names of a client. *)
LEMMA QueueType ==
  ASSUME TypeOK
  PROVE  /\ \A n \in AnyName : owners[n] \in Seq(Owner)
         /\ \A c \in Conn : owned[c] \in Seq(AnyName)
         /\ \A n \in AnyName, q \in Seq(Owner) :
              [owners EXCEPT ![n] = q] \in [AnyName -> Seq(Owner)]
         /\ \A c \in Conn, s \in Seq(AnyName) :
              [owned EXCEPT ![c] = s] \in [Conn -> Seq(AnyName)]
BY DEF TypeOK

(* The flags a client asked for make an owner. *)
LEMMA OwnerOfType ==
  ASSUME NEW c \in Conn, NEW f \in AllFlags
  PROVE  OwnerOf(c, f) \in Owner /\ OwnerOf(c, f).conn = c
BY DEF OwnerOf, Owner, AllFlags

(* The function calls of the registry. *)
LEMMA RegistryType == TypeOK /\ RegistryCall => TypeOK'
<1> SUFFICES ASSUME TypeOK, RegistryCall PROVE TypeOK'
  OBVIOUS
<1> USE DEF unseen, seenVars
<1>1. CASE NotifyStarted
  <2>1. Tail(todo) \in Seq(Call) /\ Top.name \in Name /\ Top.entry \in Entry
    BY <1>1, NextCall, CallFields DEF NotifyStarted
  <2>2. Answer(Top.entry.conn, Top.name) \in Message
    BY <2>1, MessageIntro DEF Entry
  <2>3. msgs' \in Seq(Message)
    BY <1>1, <2>2, AppendProperties DEF NotifyStarted, TypeOK
  <2> QED BY <1>1, <2>1, <2>3 DEF NotifyStarted, Return, TypeOK
<1>2. CASE CompleteConnection
  <2>1. Tail(todo) \in Seq(Call) /\ Top.conn \in Conn
    BY <1>2, NextCall, CallFields DEF CompleteConnection
  <2> QED BY <1>2, <2>1 DEF CompleteConnection, Return, TypeOK
<1>3. CASE LinkNewOwner \/ RelinkOwner
  <2> DEFINE n == Top.name
             c == Top.conn
             q == owners[n]
             o == OwnerOf(c, Top.flags)
  <2>1. Tail(todo) \in Seq(Call) /\ n \in AnyName /\ c \in Conn /\ Top.flags \in AllFlags
    BY <1>3, NextCall, CallFields DEF LinkNewOwner, RelinkOwner
  <2>2. q \in Seq(Owner) /\ owned[c] \in Seq(AnyName)
    BY <2>1, QueueType
  <2>3. o \in Owner /\ o.conn = c
    BY <2>1, OwnerOfType
  <2>4. owners' \in [AnyName -> Seq(Owner)]
    <3>1. CASE LinkNewOwner
      <4>1. SecondIn(q, o) \in Seq(Owner) /\ Append(q, o) \in Seq(Owner)
        BY <2>2, <2>3, SecondInProperties, AppendOwner
      <4> QED BY <3>1, <4>1, <2>1, QueueType DEF LinkNewOwner
    <3>2. CASE RelinkOwner
      <4>1. SecondIn(Without(q, c), o) \in Seq(Owner)
        BY <2>2, <2>3, WithoutProperties, SecondInProperties
      <4>2. Queued(q, c)
        BY <3>2 DEF RelinkOwner
      <4>3. Place(q, c) \in 1..Len(q) /\ q[Place(q, c)].conn = c
        BY <4>2, <2>2, LenProperties DEF Queued, Place
      <4>4. [q EXCEPT ![Place(q, c)] = o] \in Seq(Owner)
        BY <4>3, <2>2, <2>3, ReplacedOwner
      <4> QED BY <3>2, <4>1, <4>4, <2>1, QueueType DEF RelinkOwner
    <3> QED BY <1>3, <3>1, <3>2
  <2>5. owned' \in [Conn -> Seq(AnyName)]
    <3>1. Append(owned[c], n) \in Seq(AnyName)
      BY <2>1, <2>2, AppendProperties
    <3>2. CASE LinkNewOwner
      BY <3>1, <3>2, <2>1, QueueType DEF LinkNewOwner
    <3>3. CASE RelinkOwner
      BY <3>3 DEF RelinkOwner, TypeOK
    <3> QED BY <1>3, <3>2, <3>3
  <2>6. hooks' \in Seq(Hook)
    <3>1. <<CancelOwnership(n, c)>> \in Seq(Hook)
      BY <2>1, HookIntro
    <3>2. <<CancelOwnership(n, c)>> \o hooks \in Seq(Hook)
      BY <3>1, ConcatProperties DEF TypeOK
    <3> QED BY <1>3, <3>2 DEF LinkNewOwner, RelinkOwner, TypeOK
  <2>7. todo' \in Seq(Call)
    BY <1>3, <2>1 DEF LinkNewOwner, RelinkOwner, Return
  <2>8. UNCHANGED <<active, msgs, unseen>>
    BY <1>3 DEF LinkNewOwner, RelinkOwner
  <2> QED BY <2>4, <2>5, <2>6, <2>7, <2>8 DEF TypeOK
<1>4. CASE SetOwnerFlags
  <2> DEFINE n == Top.name
             q == owners[n]
             o == OwnerOf(Primary(n), Top.flags)
  <2>1. Tail(todo) \in Seq(Call) /\ n \in AnyName /\ Top.flags \in AllFlags
    BY <1>4, NextCall, CallFields DEF SetOwnerFlags
  <2>2. q \in Seq(Owner)
    BY <2>1, QueueType
  <2>3. 1 \in 1..Len(q) => o \in Owner /\ o.conn = q[1].conn
    <3>1. ASSUME 1 \in 1..Len(q)
          PROVE  Primary(n) \in Conn /\ Primary(n) = q[1].conn
      <4>1. q # <<>>
        BY <3>1
      <4> QED BY <4>1, <2>1, FirstOwner
    <3> QED BY <3>1, <2>1, OwnerOfType
  <2>4. [q EXCEPT ![1] = o] \in Seq(Owner)
    BY <2>2, <2>3, ReplacedOwner
  <2>5. owners' = [owners EXCEPT ![n] = [q EXCEPT ![1] = o]]
    BY <1>4 DEF SetOwnerFlags
  <2>6. owners' \in [AnyName -> Seq(Owner)]
    BY <2>1, <2>4, <2>5, QueueType
  <2> QED BY <1>4, <2>1, <2>6 DEF SetOwnerFlags, Return, TypeOK
<1>5. CASE RemovePrimary \/ SwapPrimary
  <2> DEFINE n == Top.name
             c == Top.conn
             o == owners[n][1]
  <2>1. n \in AnyName /\ c \in Conn /\ Primary(n) = c
    BY <1>5, NextCall, CallFields DEF RemovePrimary, SwapPrimary
  <2>2. owners[n] # <<>>
    BY <2>1, ConnAssumption DEF Primary
  <2>3. o \in Owner
    BY <2>1, <2>2, FirstOwner
  <2>4. /\ Send(Lost(c, n)) \in Call
        /\ UnlinkOwner(n, o) \in Call
        /\ SwapLinks(n, o) \in Call
    BY <2>1, <2>3, CallIntro, MessageIntro
  <2>5. <<Send(Lost(c, n))>> \o Succession(n, c) \in Seq(Call)
    BY <2>1, <2>2, <2>4, SuccessionCalls, CallSequences
  <2>6. /\ <<Send(Lost(c, n))>> \o Succession(n, c) \o <<UnlinkOwner(n, o)>> \in Seq(Call)
        /\ <<Send(Lost(c, n))>> \o Succession(n, c) \o <<SwapLinks(n, o)>> \in Seq(Call)
    BY <2>4, <2>5, CallSequences
  <2>7. todo' \in Seq(Call)
    <3>1. CASE RemovePrimary
      BY <3>1, <2>6, NextCall DEF RemovePrimary, Make
    <3>2. CASE SwapPrimary
      BY <3>2, <2>6, NextCall DEF SwapPrimary, Make
    <3> QED BY <1>5, <3>1, <3>2
  <2>8. UNCHANGED <<active, owners, owned, msgs, hooks, unseen>>
    BY <1>5 DEF RemovePrimary, SwapPrimary
  <2> QED BY <2>7, <2>8 DEF TypeOK
<1>6. CASE RemoveWaiting
  <2> DEFINE n == Top.name
             c == Top.conn
  <2>1. Tail(todo) \in Seq(Call) /\ n \in AnyName /\ c \in Conn
    BY <1>6, NextCall, CallFields DEF RemoveWaiting
  <2>2. Without(owners[n], c) \in Seq(Owner) /\ Disowned(owned[c], n) \in Seq(AnyName)
    BY <2>1, QueueType, WithoutProperties, DisownedType
  <2>3. owners' \in [AnyName -> Seq(Owner)] /\ owned' \in [Conn -> Seq(AnyName)]
    BY <1>6, <2>1, <2>2, QueueType DEF RemoveWaiting
  <2> QED BY <1>6, <2>1, <2>3 DEF RemoveWaiting, Return, TypeOK
<1>7. CASE UnlinkPrimary \/ SwapFirstTwo
  <2> DEFINE n == Top.name
             o == Top.owner
  <2>1. Tail(todo) \in Seq(Call) /\ n \in AnyName /\ o \in Owner
    BY <1>7, NextCall, CallFields DEF UnlinkPrimary, SwapFirstTwo
  <2>2. Without(owners[n], o.conn) \in Seq(Owner) /\ Swapped(owners[n]) \in Seq(Owner)
    BY <2>1, QueueType, WithoutProperties, SwappedProperties
  <2>3. owners' \in [AnyName -> Seq(Owner)]
    BY <1>7, <2>1, <2>2, QueueType DEF UnlinkPrimary, SwapFirstTwo
  <2>4. <<RestoreOwnership(n, o, 1)>> \in Seq(Hook) /\ <<RestoreOwnership(n, o, 2)>> \in Seq(Hook)
    BY <2>1, HookIntro
  <2>5. /\ <<RestoreOwnership(n, o, 1)>> \o hooks \in Seq(Hook)
        /\ <<RestoreOwnership(n, o, 2)>> \o hooks \in Seq(Hook)
    BY <2>4, ConcatProperties DEF TypeOK
  <2>6. hooks' \in Seq(Hook)
    BY <1>7, <2>5 DEF UnlinkPrimary, SwapFirstTwo
  <2>7. /\ todo' \in Seq(Call)
        /\ UNCHANGED <<active, owned, msgs, unseen>>
    BY <1>7, <2>1 DEF UnlinkPrimary, SwapFirstTwo, Return
  <2> QED BY <2>3, <2>6, <2>7 DEF TypeOK
<1> QED BY <1>1, <1>2, <1>3, <1>4, <1>5, <1>6, <1>7 DEF RegistryCall

(* The function calls of the activation table. *)
LEMMA ActivationType == TypeOK /\ ActivationCall => TypeOK'
<1> SUFFICES ASSUME TypeOK, ActivationCall PROVE TypeOK'
  OBVIOUS
<1> USE DEF registered, seenVars
<1>1. CASE RegisterEntry
  <2> DEFINE n == Top.name
             e == [conn |-> Top.conn, auto |-> Top.auto]
  <2>1. Tail(todo) \in Seq(Call) /\ n \in Name /\ e \in Entry
    BY <1>1, NextCall, CallFields DEF RegisterEntry, Entry
  <2>2. Append(pending[n], e) \in Seq(Entry)
    BY <2>1, AppendProperties DEF TypeOK
  <2>3. pending' \in [Name -> Seq(Entry)]
    BY <1>1, <2>1, <2>2 DEF RegisterEntry, TypeOK
  <2>4. <<CancelPending(n)>> \in Seq(Hook)
    BY <2>1, HookIntro
  <2>5. hooks' \in Seq(Hook)
    BY <1>1, <2>4, ConcatProperties DEF RegisterEntry, TypeOK
  <2> QED BY <1>1, <2>1, <2>3, <2>5 DEF RegisterEntry, Return, TypeOK
<1>2. CASE SpawnProgram
  <2>1. Tail(todo) \in Seq(Call) /\ Top.name \in Name
    BY <1>2, NextCall, CallFields DEF SpawnProgram
  <2> QED BY <1>2, <2>1 DEF SpawnProgram, Return, TypeOK
<1>3. CASE SpawnParseError \/ SpawnForkError \/ RejectHeld
  <2>1. Top.name \in Name
    BY <1>3, NextCall, CallFields DEF SpawnParseError, SpawnForkError, RejectHeld
  <2>2. todo' \in Seq(Call)
    BY <1>3, <2>1, RaiseType DEF SpawnParseError, SpawnForkError, RejectHeld
  <2>3. pending' \in [Name -> Seq(Entry)]
    <3>1. <<>> \in Seq(Entry)
      OBVIOUS
    <3> QED BY <1>3, <2>1, <3>1 DEF SpawnParseError, SpawnForkError, RejectHeld, TypeOK
  <2>4. UNCHANGED <<child, phase, job, msgs, hooks, registered>>
    BY <1>3 DEF SpawnParseError, SpawnForkError, RejectHeld
  <2> QED BY <2>2, <2>3, <2>4 DEF TypeOK
<1>4. CASE SendHeldMessages
  <2> DEFINE n == Top.name
  <2>1. n \in Name
    BY <1>4, NextCall, CallFields DEF SendHeldMessages
  <2>2. Held(n) \o <<Forget(n)>> \in Seq(Call)
    BY <2>1, CallsForEntries, CallIntro, CallSequences
  <2>3. todo' \in Seq(Call)
    BY <1>4, <2>2, NextCall, CallSequences DEF SendHeldMessages, Make
  <2> QED BY <1>4, <2>3 DEF SendHeldMessages, TypeOK
<1>5. CASE DispatchHeld
  <2>1. Tail(todo) \in Seq(Call) /\ Top.name \in Name /\ Top.entry \in Entry
    BY <1>5, NextCall, CallFields DEF DispatchHeld
  <2>2. Handover(Top.entry.conn, Top.name) \in Message
    BY <2>1, MessageIntro DEF Entry
  <2>3. msgs' \in Seq(Message)
    BY <1>5, <2>2, AppendProperties DEF DispatchHeld, TypeOK
  <2> QED BY <1>5, <2>1, <2>3 DEF DispatchHeld, Return, TypeOK
<1>6. CASE ForgetPending
  <2> DEFINE n == Top.name
             h == RestorePending(n, pending[n], n \in child)
  <2>1. Tail(todo) \in Seq(Call) /\ n \in Name
    BY <1>6, NextCall, CallFields DEF ForgetPending
  <2>2. pending[n] \in Seq(Entry) /\ (n \in child) \in BOOLEAN
    BY <2>1 DEF TypeOK
  <2>3. h \in Hook
    BY <2>1, <2>2, HookIntro
  <2>4. hooks' \in Seq(Hook)
    <3>1. <<h>> \in Seq(Hook)
      BY <2>3
    <3>2. <<h>> \o hooks \in Seq(Hook)
      BY <3>1, ConcatProperties DEF TypeOK
    <3> QED BY <1>6, <3>2 DEF ForgetPending
  <2>5. pending' \in [Name -> Seq(Entry)]
    <3>1. <<>> \in Seq(Entry)
      OBVIOUS
    <3> QED BY <1>6, <3>1 DEF ForgetPending, TypeOK
  <2> QED BY <1>6, <2>1, <2>4, <2>5 DEF ForgetPending, Return, TypeOK
<1>7. CASE DropPending
  <2>1. Tail(todo) \in Seq(Call) /\ Top.name \in Name
    BY <1>7, NextCall, CallFields DEF DropPending
  <2>2. pending' \in [Name -> Seq(Entry)]
    <3>1. <<>> \in Seq(Entry)
      OBVIOUS
    <3> QED BY <1>7, <3>1 DEF DropPending, TypeOK
  <2>3. job' \in Job
    <3>1. job \in Job /\ job' = [job EXCEPT !.left = job.left \ {Top.name}]
      BY <1>7 DEF DropPending, TypeOK
    <3>2. CASE job \in [why : {"request", "call", "disconnect"}, by : Conn, left : {{}}]
      BY <3>1, <3>2 DEF Job
    <3>3. CASE job \in [why : {"expire"}, by : Name, left : SUBSET Name]
      BY <3>1, <3>3 DEF Job
    <3>4. CASE job = NoJob
      BY <3>1, <3>4 DEF Job, NoJob
    <3> QED BY <3>1, <3>2, <3>3, <3>4 DEF Job
  <2> QED BY <1>7, <2>1, <2>2, <2>3 DEF DropPending, Return, TypeOK
<1> QED BY <1>1, <1>2, <1>3, <1>4, <1>5, <1>6, <1>7 DEF ActivationCall

(* The end of a transaction. *)
LEMMA CloseType == TypeOK /\ Close => TypeOK'
<1> SUFFICES ASSUME TypeOK, Close PROVE TypeOK'
  OBVIOUS
<1>1. phase' \in {"idle", "round"} /\ job' \in Job /\ before' \in [AnyName -> Seq(Owner)]
  BY DEF Close, Rest, TypeOK, Job
<1> QED BY <1>1 DEF Close, busVars, seenVars, TypeOK

(* Sending, delivery and the freeing of hooks. *)
LEMMA ExecutionType ==
  TypeOK /\ (SendMessage \/ DeliverMessage \/ FreeHook \/ EndExecute) => TypeOK'
<1> SUFFICES ASSUME TypeOK, SendMessage \/ DeliverMessage \/ FreeHook \/ EndExecute
             PROVE  TypeOK'
  OBVIOUS
<1>1. CASE SendMessage
  <2>1. Tail(todo) \in Seq(Call) /\ Top.msg \in Message
    BY <1>1, NextCall, CallFields DEF SendMessage
  <2>2. msgs' \in Seq(Message)
    BY <1>1, <2>1, AppendProperties DEF SendMessage, TypeOK
  <2> QED BY <1>1, <2>1, <2>2 DEF SendMessage, Return, TypeOK, busVars, seenVars
<1>2. CASE DeliverMessage
  <2> DEFINE m == Head(msgs)
  <2>1. m \in Message /\ Tail(msgs) \in Seq(Message)
    BY <1>2, HeadTailProperties DEF DeliverMessage, TypeOK
  <2> HIDE DEF m
  <2>2. told' \in [Conn -> SUBSET AnyName]
    <3>1. CASE m.kind = "acquired"
      BY <1>2, <2>1, <3>1, MessageFields DEF DeliverMessage, TypeOK, m
    <3>2. CASE m.kind = "lost"
      BY <1>2, <2>1, <3>2, MessageFields DEF DeliverMessage, TypeOK, m
    <3>3. CASE m.kind \notin {"acquired", "lost"}
      BY <1>2, <3>3 DEF DeliverMessage, TypeOK, m
    <3> QED BY <3>1, <3>2, <3>3
  <2>3. watched' \in [AnyName -> Conn \cup {NoOne}]
    BY <1>2, <2>1, MessageFields DEF DeliverMessage, TypeOK, m
  <2>4. calls' \in [Conn -> Name \cup {NoOne}]
    <3>1. CASE m.kind = "answer"
      BY <1>2, <2>1, <3>1, MessageFields DEF DeliverMessage, TypeOK, m
    <3>2. CASE m.kind = "handover"
      BY <1>2, <2>1, <3>2, MessageFields DEF DeliverMessage, TypeOK, m
    <3>3. CASE m.kind \notin {"answer", "handover"}
      BY <1>2, <3>3 DEF DeliverMessage, TypeOK, m
    <3> QED BY <3>1, <3>2, <3>3
  <2>5. msgs' \in Seq(Message) /\ UNCHANGED <<busVars, phase, job, todo, hooks, oom, before>>
    BY <1>2, <2>1 DEF DeliverMessage
  <2> QED BY <2>2, <2>3, <2>4, <2>5 DEF TypeOK, busVars
<1>3. CASE FreeHook
  <2> DEFINE h == Head(hooks)
  <2>1. h \in Hook /\ Tail(hooks) \in Seq(Hook)
    BY <1>3, HeadTailProperties DEF FreeHook, TypeOK
  <2> HIDE DEF h
  <2>2. ASSUME h.hook = "restore_ownership"
        PROVE  [owned EXCEPT ![h.owner.conn] = Disowned(owned[h.owner.conn], h.name)]
                 \in [Conn -> Seq(AnyName)]
    <3>1. h.owner.conn \in Conn
      BY <2>1, <2>2, HookFields DEF Owner
    <3>2. Disowned(owned[h.owner.conn], h.name) \in Seq(AnyName)
      BY <3>1, QueueType, DisownedType
    <3> QED BY <3>1, <3>2, QueueType
  <2>3. owned' = IF h.hook = "restore_ownership" /\ h.at = 1
                   THEN [owned EXCEPT ![h.owner.conn] = Disowned(owned[h.owner.conn], h.name)]
                   ELSE owned
    BY <1>3 DEF FreeHook, h
  <2>4. owned' \in [Conn -> Seq(AnyName)]
    BY <2>2, <2>3 DEF TypeOK
  <2> QED BY <1>3, <2>1, <2>4 DEF FreeHook, TypeOK, seenVars
<1>4. CASE EndExecute
  BY <1>4, CloseType DEF EndExecute
<1> QED BY <1>1, <1>2, <1>3, <1>4

(* Lack of memory and the hooks that run then. *)
LEMMA CancelType ==
  /\ TypeOK /\ OutOfMemory => TypeOK'
  /\ TypeOK /\ (UndoAddOwner \/ UndoRemoveOwner) => TypeOK'
  /\ TypeOK /\ (UndoActivate \/ UndoForget \/ EndCancel) => TypeOK'
<1> DEFINE h == Head(hooks)
<1>1. ASSUME TypeOK, NEW f, Cancelling(f)
      PROVE  h \in Hook /\ h.hook = f /\ Tail(hooks) \in Seq(Hook)
  BY <1>1, HeadTailProperties DEF Cancelling, TypeOK
<1> HIDE DEF h
<1>2. ASSUME TypeOK, OutOfMemory
      PROVE  TypeOK'
  <2>1. todo # <<>> /\ Top \in Call
    BY <1>2, HeadTailProperties DEF OutOfMemory, MayFail, Top, TypeOK
  <2>2. oom' \in 0..MaxOom
    BY <1>2, FailureAssumption DEF OutOfMemory, MayFail, TypeOK
  <2>3. job.why = "call" => job.by \in Conn
    BY <1>2 DEF TypeOK, Job, NoJob
  <2>4. calls' \in [Conn -> Name \cup {NoOne}]
    BY <1>2, <2>3 DEF OutOfMemory, TypeOK
  <2>5. pending' \in [Name -> Seq(Entry)] /\ child' \subseteq Name
    <3>1. <<>> \in Seq(Entry)
      OBVIOUS
    <3> QED BY <1>2, <2>1, <3>1 DEF OutOfMemory, TypeOK
  <2>6. todo' \in Seq(Call) /\ msgs' \in Seq(Message) /\ phase' \in {"run", "cancel"}
    <3>1. <<>> \in Seq(Call) /\ <<>> \in Seq(Message)
      OBVIOUS
    <3> QED BY <1>2, <3>1 DEF OutOfMemory, MayFail, TypeOK
  <2>7. UNCHANGED <<link, active, owners, owned, job, hooks, told, watched, before>>
    BY <1>2 DEF OutOfMemory
  <2> QED BY <1>2, <2>2, <2>4, <2>5, <2>6, <2>7 DEF TypeOK
<1>3. ASSUME TypeOK, UndoAddOwner
      PROVE  TypeOK'
  <2>1. h \in Hook /\ Tail(hooks) \in Seq(Hook) /\ h.name \in AnyName /\ h.conn \in Conn
    BY <1>1, <1>3, HookFields DEF UndoAddOwner
  <2>2. /\ Without(owners[h.name], h.conn) \in Seq(Owner)
        /\ Disowned(owned[h.conn], h.name) \in Seq(AnyName)
    BY <1>3, <2>1, QueueType, WithoutProperties, DisownedType
  <2>3. owners' \in [AnyName -> Seq(Owner)] /\ owned' \in [Conn -> Seq(AnyName)]
    BY <1>3, <2>1, <2>2, QueueType DEF UndoAddOwner, h
  <2> QED BY <1>3, <2>1, <2>3 DEF UndoAddOwner, TypeOK, seenVars
<1>4. ASSUME TypeOK, UndoRemoveOwner
      PROVE  TypeOK'
  <2> DEFINE q == owners[h.name]
  <2>1. h \in Hook /\ h.name \in AnyName /\ h.owner \in Owner
    BY <1>1, <1>4, HookFields DEF UndoRemoveOwner
  <2>2. q \in Seq(Owner) /\ 1 \in 1..(Len(q) + 1)
    BY <1>4, <2>1, QueueType, LenProperties
  <2>3. InsertAt(q, 1, h.owner) \in Seq(Owner)
    BY <2>1, <2>2, InsertAtProperties
  <2>4. owners' \in [AnyName -> Seq(Owner)]
    BY <1>4, <2>1, <2>3, QueueType DEF UndoRemoveOwner, h, TypeOK
  <2>5. h.owner.conn \in Conn
    BY <2>1 DEF Owner
  <2>6. Append(owned[h.owner.conn], h.name) \in Seq(AnyName)
    BY <1>4, <2>1, <2>5, QueueType, AppendProperties
  <2>7. owned' \in [Conn -> Seq(AnyName)]
    BY <1>4, <2>5, <2>6, QueueType DEF UndoRemoveOwner, h, TypeOK
  <2> QED BY <1>4, <2>4, <2>7 DEF UndoRemoveOwner, TypeOK, seenVars
<1>5. ASSUME TypeOK, UndoActivate
      PROVE  TypeOK'
  <2>1. Tail(hooks) \in Seq(Hook) /\ h.name \in Name
    BY <1>1, <1>5, HookFields DEF UndoActivate
  <2>2. <<>> \in Seq(Entry)
    OBVIOUS
  <2>3. pending' \in [Name -> Seq(Entry)] /\ child' \subseteq Name
    BY <1>5, <2>2 DEF UndoActivate, TypeOK
  <2> QED BY <1>5, <2>1, <2>3 DEF UndoActivate, TypeOK, registered, seenVars
<1>6. ASSUME TypeOK, UndoForget
      PROVE  TypeOK'
  <2>1. h \in Hook /\ h.hook = "restore_pending" /\ Tail(hooks) \in Seq(Hook)
    BY <1>1, <1>6 DEF UndoForget
  <2>2. h.name \in Name /\ h.entries \in Seq(Entry)
    BY <2>1, HookFields
  <2>3. pending' \in [Name -> Seq(Entry)] /\ child' \subseteq Name
    BY <1>6, <2>2 DEF UndoForget, TypeOK, h
  <2> QED BY <1>6, <2>1, <2>3 DEF UndoForget, TypeOK, registered, seenVars
<1>7. ASSUME TypeOK, EndCancel
      PROVE  TypeOK'
  BY <1>7, CloseType DEF EndCancel
<1> QED BY <1>2, <1>3, <1>4, <1>5, <1>6, <1>7

(* The handlers that loop, and the events that begin them. *)
LEMMA RoundType ==
  /\ TypeOK /\ (DropLastName \/ ForgetClient \/ FailNext \/ FailedAll) => TypeOK'
  /\ \A c \in Conn : TypeOK /\ Disconnected(c) => TypeOK'
  /\ \A n \in Name : TypeOK /\ TimeOut(n) => TypeOK'
<1>1. ASSUME TypeOK, job.why = "disconnect"
      PROVE  job.by \in Conn
  BY <1>1 DEF TypeOK, Job, NoJob
<1>2. ASSUME TypeOK, job.why = "expire"
      PROVE  job.by \in Name /\ job.left \subseteq Name
  BY <1>2 DEF TypeOK, Job, NoJob
<1>3. ASSUME TypeOK, DropLastName
      PROVE  TypeOK'
  <2> DEFINE s == owned[job.by]
  <2>1. job.by \in Conn
    BY <1>1, <1>3 DEF DropLastName
  <2>2. s \in Seq(AnyName) /\ s # <<>>
    BY <1>3, <2>1, QueueType DEF DropLastName
  <2>3. Len(s) \in 1..Len(s)
    BY <2>2, LenProperties, EmptySeq
  <2>4. Last(s) \in AnyName
    BY <2>2, <2>3, ElementOfSeq DEF Last
  <2>5. <<RemoveOwner(Last(s), job.by)>> \in Seq(Call)
    BY <2>1, <2>4, CallIntro, CallSequences
  <2>6. [why |-> "disconnect", by |-> job.by, left |-> {}] \in Job
    BY <2>1 DEF Job
  <2>7. calls' \in [Conn -> Name \cup {NoOne}] /\ UNCHANGED <<busVars, oom, told, watched>>
    BY <1>3 DEF DropLastName, seenVars, TypeOK
  <2> QED BY <1>3, <2>5, <2>6, <2>7, BeginType DEF DropLastName
<1>4. ASSUME TypeOK, ForgetClient
      PROVE  TypeOK'
  <2>1. job' \in Job /\ before' \in [AnyName -> Seq(Owner)]
    BY <1>4 DEF ForgetClient, Rest, Job, TypeOK
  <2>2. link' \in [Conn -> {"up", "down", "gone"}]
    BY <1>4 DEF ForgetClient, TypeOK
  <2> QED BY <1>4, <2>1, <2>2 DEF ForgetClient, Rest, TypeOK, seenVars
<1>5. ASSUME TypeOK, FailNext
      PROVE  TypeOK'
  <2>1. PICK n \in job.left : Begin("expire", job.by, job.left, Failures(n) \o <<Drop(n)>>)
    BY <1>5 DEF FailNext
  <2>2. job.by \in Name /\ job.left \subseteq Name
    BY <1>2, <1>5 DEF FailNext
  <2>3. Failures(n) \o <<Drop(n)>> \in Seq(Call)
    BY <1>5, <2>2, CallsForEntries, CallIntro, CallSequences
  <2>4. [why |-> "expire", by |-> job.by, left |-> job.left] \in Job
    BY <2>2 DEF Job
  <2>5. calls' \in [Conn -> Name \cup {NoOne}] /\ UNCHANGED <<busVars, oom, told, watched>>
    BY <1>5 DEF FailNext, seenVars, TypeOK
  <2> QED BY <1>5, <2>1, <2>3, <2>4, <2>5, BeginType
<1>6. ASSUME TypeOK, FailedAll
      PROVE  TypeOK'
  <2>1. job' \in Job /\ before' \in [AnyName -> Seq(Owner)]
    BY <1>6 DEF FailedAll, Rest, Job, TypeOK
  <2> QED BY <1>6, <2>1 DEF FailedAll, Rest, TypeOK, busVars, seenVars
<1>7. ASSUME TypeOK, NEW c \in Conn, Disconnected(c)
      PROVE  TypeOK'
  <2>1. job' \in Job
    BY <1>7 DEF Disconnected, Job
  <2> QED BY <1>7, <2>1 DEF Disconnected, TypeOK, busVars, seenVars
<1>8. ASSUME TypeOK, NEW n \in Name, TimeOut(n)
      PROVE  TypeOK'
  <2>1. job' \in Job
    BY <1>8 DEF TimeOut, Fail, Job
  <2> QED BY <1>8, <2>1 DEF TimeOut, Fail, TypeOK, busVars, seenVars
<1> QED BY <1>3, <1>4, <1>5, <1>6, <1>7, <1>8

(* Initially everything is well typed. *)
LEMMA InitType == Init => TypeOK
<1> SUFFICES ASSUME Init PROVE TypeOK
  OBVIOUS
<1>1. /\ <<>> \in Seq(Owner) /\ <<>> \in Seq(AnyName) /\ <<>> \in Seq(Entry)
      /\ <<>> \in Seq(Call) /\ <<>> \in Seq(Message) /\ <<>> \in Seq(Hook)
  OBVIOUS
<1>2. NoJob \in Job
  BY DEF Job
<1>3. oom \in 0..MaxOom
  BY FailureAssumption DEF Init
<1> QED BY <1>1, <1>2, <1>3 DEF Init, TypeOK

(* Every step keeps the types. *)
LEMMA NextType == TypeOK /\ [Next]_vars => TypeOK'
<1> SUFFICES ASSUME TypeOK, [Next]_vars PROVE TypeOK'
  OBVIOUS
<1>1. CASE Outside
  BY <1>1, OutsideType
<1>2. CASE Handler
  BY <1>2, ExecutionType, RegistryType, ActivationType, CancelType, RoundType DEF Handler
<1>3. CASE \/ \E c \in Conn : Disconnected(c)
           \/ \E n \in Name : TimeOut(n)
           \/ OutOfMemory
  BY <1>3, CancelType, RoundType
<1>4. CASE UNCHANGED vars
  BY <1>4 DEF vars, busVars, txnVars, seenVars, TypeOK
<1> QED BY <1>1, <1>2, <1>3, <1>4 DEF Next

(* Type correctness of the daemon's tables, its running handler and what
   its clients know, in every reachable state (bus/services.c,
   bus/activation.c, bus/connection.c). *)
THEOREM TypesHold == Spec => []TypeOK
<1>1. Init => TypeOK
  BY InitType
<1>2. TypeOK /\ [Next]_vars => TypeOK'
  BY NextType
<1> QED BY <1>1, <1>2, PTL DEF Spec

-----------------------------------------------------------------------------
(* No queue holds a connection twice.                                      *)

(* The steps that change a queue of owners. *)
ChangesQueue ==
  \/ LinkNewOwner \/ RelinkOwner \/ SetOwnerFlags \/ RemoveWaiting
  \/ UnlinkPrimary \/ SwapFirstTwo \/ UndoAddOwner \/ UndoRemoveOwner

(* Nothing else does, and nothing happens once the daemon has halted. *)
LEMMA QueueChanges ==
  ASSUME Next
  PROVE  ~Halted /\ (ChangesQueue \/ UNCHANGED owners)
<1> USE DEF ChangesQueue, Halted, Idle, busVars
<1>1. CASE Outside
  BY <1>1 DEF Outside, Hello, HangUp, RequestName, ReleaseName, Activate, ChildFails,
              ChildExits, Fail, Speaks, Executing, registered
<1>2. CASE (\E c \in Conn : Disconnected(c)) \/ (\E n \in Name : TimeOut(n)) \/ OutOfMemory
  BY <1>2 DEF Disconnected, TimeOut, Fail, OutOfMemory, MayFail
<1>3. CASE RegistryCall
  BY <1>3 DEF RegistryCall, NotifyStarted, CompleteConnection, RemovePrimary, SwapPrimary,
              LinkNewOwner, RelinkOwner, SetOwnerFlags, RemoveWaiting, UnlinkPrimary,
              SwapFirstTwo, Calling
<1>4. CASE ActivationCall
  BY <1>4 DEF ActivationCall, RegisterEntry, SpawnProgram, SpawnParseError, SpawnForkError,
              SendHeldMessages, DispatchHeld, RejectHeld, ForgetPending, DropPending,
              Calling, registered
<1>5. CASE SendMessage \/ DeliverMessage \/ FreeHook \/ EndExecute
  BY <1>5 DEF SendMessage, DeliverMessage, FreeHook, EndExecute, Close, Calling, Executing
<1>6. CASE UndoAddOwner \/ UndoRemoveOwner \/ UndoActivate \/ UndoForget \/ EndCancel
  BY <1>6 DEF UndoAddOwner, UndoRemoveOwner, UndoActivate, UndoForget, EndCancel, Close,
              Cancelling, registered
<1>7. CASE DropLastName \/ ForgetClient \/ FailNext \/ FailedAll
  BY <1>7 DEF DropLastName, ForgetClient, FailNext, FailedAll
<1> QED BY <1>1, <1>2, <1>3, <1>4, <1>5, <1>6, <1>7 DEF Next, Handler

Distinct == \A n \in AnyName : NoTwice(owners[n])

(* A change of one queue that keeps it distinct keeps all distinct. *)
LEMMA OneQueue ==
  ASSUME TypeOK, Distinct, NEW n \in AnyName, NEW q,
         owners' = [owners EXCEPT ![n] = q], NoTwice(q)
  PROVE  Distinct'
<1>1. \A k \in AnyName : owners'[k] = IF k = n THEN q ELSE owners[k]
  BY DEF TypeOK
<1> QED BY <1>1 DEF Distinct

(* A step that does not halt the daemon keeps the queues distinct. *)
LEMMA NextDistinct ==
  ASSUME TypeOK, Distinct, Next, ~Halted'
  PROVE  Distinct'
<1>1. ChangesQueue \/ UNCHANGED owners
  BY QueueChanges
<1> DEFINE n == Top.name
           q == owners[n]
<1>2. ASSUME Top \in Call, Top.call \in {"link_owner", "set_flags", "remove_owner",
                                         "unlink_owner", "swap_links"}
      PROVE  n \in AnyName /\ q \in Seq(Owner) /\ NoTwice(q)
  BY <1>2, CallFields, QueueType DEF Distinct
<1>3. CASE LinkNewOwner \/ RelinkOwner
  <2> DEFINE c == Top.conn
             o == OwnerOf(c, Top.flags)
  <2>1. Top \in Call /\ Top.call = "link_owner"
    BY <1>3, NextCall DEF LinkNewOwner, RelinkOwner
  <2>2. n \in AnyName /\ q \in Seq(Owner) /\ NoTwice(q)
    BY <1>2, <2>1
  <2>3. o \in Owner /\ o.conn = c
    BY <2>1, CallFields, OwnerOfType
  <2>4. CASE LinkNewOwner
    <3>1. ~Queued(q, c)
      BY <2>4 DEF LinkNewOwner
    <3>2. NoTwice(SecondIn(q, o)) /\ NoTwice(Append(q, o))
      BY <3>1, <2>2, <2>3, SecondInProperties, AppendOwner
    <3> QED BY <2>2, <2>4, <3>2, OneQueue DEF LinkNewOwner
  <2>5. CASE RelinkOwner
    <3>1. Queued(q, c)
      BY <2>5 DEF RelinkOwner
    <3>2. NoTwice(SecondIn(Without(q, c), o))
      BY <2>2, <2>3, WithoutProperties, SecondInProperties
    <3>3. Place(q, c) \in 1..Len(q) /\ q[Place(q, c)].conn = c
      BY <3>1, <2>2, LenProperties DEF Queued, Place
    <3>4. NoTwice([q EXCEPT ![Place(q, c)] = o])
      BY <3>3, <2>2, <2>3, ReplacedOwner
    <3> QED BY <2>2, <2>5, <3>2, <3>4, OneQueue DEF RelinkOwner
  <2> QED BY <1>3, <2>4, <2>5
<1>4. CASE SetOwnerFlags
  <2> DEFINE o == OwnerOf(Primary(n), Top.flags)
  <2>1. Top \in Call /\ Top.call = "set_flags"
    BY <1>4, NextCall DEF SetOwnerFlags
  <2>2. n \in AnyName /\ q \in Seq(Owner) /\ NoTwice(q)
    BY <1>2, <2>1
  <2>3. 1 \in 1..Len(q) => o \in Owner /\ o.conn = q[1].conn
    <3>1. ASSUME 1 \in 1..Len(q)
          PROVE  Primary(n) \in Conn /\ Primary(n) = q[1].conn
      <4>1. q # <<>>
        BY <3>1
      <4> QED BY <4>1, <2>2, FirstOwner
    <3> QED BY <3>1, <2>1, CallFields, OwnerOfType
  <2>4. NoTwice([q EXCEPT ![1] = o])
    BY <2>2, <2>3, ReplacedOwner
  <2> QED BY <1>4, <2>2, <2>4, OneQueue DEF SetOwnerFlags
<1>5. CASE RemoveWaiting
  <2>1. Top \in Call /\ Top.call = "remove_owner"
    BY <1>5, NextCall DEF RemoveWaiting
  <2>2. n \in AnyName /\ q \in Seq(Owner) /\ NoTwice(q)
    BY <1>2, <2>1
  <2>3. owners' = [owners EXCEPT ![n] = Without(q, Top.conn)]
    BY <1>5 DEF RemoveWaiting
  <2> QED BY <2>2, <2>3, WithoutProperties, OneQueue
<1>6. CASE UnlinkPrimary
  <2>1. Top \in Call /\ Top.call = "unlink_owner"
    BY <1>6, NextCall DEF UnlinkPrimary
  <2>2. n \in AnyName /\ q \in Seq(Owner) /\ NoTwice(q)
    BY <1>2, <2>1
  <2>3. owners' = [owners EXCEPT ![n] = Without(q, Top.owner.conn)]
    BY <1>6 DEF UnlinkPrimary
  <2> QED BY <2>2, <2>3, WithoutProperties, OneQueue
<1>7. CASE SwapFirstTwo
  <2>1. Top \in Call /\ Top.call = "swap_links"
    BY <1>7, NextCall DEF SwapFirstTwo
  <2>2. n \in AnyName /\ q \in Seq(Owner) /\ NoTwice(q)
    BY <1>2, <2>1
  <2>3. owners' = [owners EXCEPT ![n] = Swapped(q)]
    BY <1>7 DEF SwapFirstTwo
  <2> QED BY <2>2, <2>3, SwappedProperties, OneQueue
<1>8. CASE UndoAddOwner
  <2> DEFINE h == Head(hooks)
  <2>1. h \in Hook /\ h.hook = "cancel_ownership"
    BY <1>8, HeadTailProperties DEF UndoAddOwner, Cancelling, TypeOK
  <2>2. h.name \in AnyName
    BY <2>1, HookFields
  <2>3. owners[h.name] \in Seq(Owner) /\ NoTwice(owners[h.name])
    BY <2>2, QueueType DEF Distinct
  <2>4. owners' = [owners EXCEPT ![h.name] = Without(owners[h.name], h.conn)]
    BY <1>8 DEF UndoAddOwner
  <2> QED BY <2>2, <2>3, <2>4, WithoutProperties, OneQueue
<1>9. CASE UndoRemoveOwner
  BY <1>9 DEF UndoRemoveOwner, Halted
<1>10. CASE UNCHANGED owners
  BY <1>10 DEF Distinct
<1> QED BY <1>1, <1>3, <1>4, <1>5, <1>6, <1>7, <1>8, <1>9, <1>10 DEF ChangesQueue

(* No connection is ever twice in the queue of a name: a request of a client
   that waits moves its entry, a replaced owner moves behind the new one, and
   cancelling a transaction takes out the entry it added
   (bus_service_add_owner, bus_service_swap_owner, cancel_ownership). *)
THEOREM OwnersAreDistinct == Spec => []NoDuplicateOwner
<1> DEFINE Inv == TypeOK /\ (~Halted => Distinct)
<1>1. Init => Inv
  <2>1. Init => Distinct
    BY DEF Init, Distinct, NoTwice
  <2> QED BY <2>1, InitType
<1>2. Inv /\ [Next]_vars => Inv'
  <2> SUFFICES ASSUME Inv, [Next]_vars PROVE Inv'
    OBVIOUS
  <2>1. TypeOK'
    BY NextType
  <2>2. CASE Next
    BY <2>1, <2>2, NextDistinct, QueueChanges
  <2>3. CASE UNCHANGED vars
    BY <2>1, <2>3 DEF vars, busVars, txnVars, Halted, Distinct
  <2> QED BY <2>2, <2>3
<1>3. Inv => NoDuplicateOwner
  BY DEF NoDuplicateOwner, Distinct, NoTwice
<1> QED BY <1>1, <1>2, <1>3, PTL DEF Spec

-----------------------------------------------------------------------------
(* Ownership: the list of names of each connection and the queues.          *)

(* The calls that take an owner out of a queue, or move it back in one. *)
Removal == {"remove_owner", "unlink_owner", "swap_owner", "swap_links"}

-----------------------------------------------------------------------------
(* Sequences of calls.                                                     *)

(* No call adds or removes an owner. *)
Steady(s) == \A i \in 1..Len(s) : s[i].call \notin Removal \cup {"link_owner"}

(* Owners are added for connections that exist, and none removed. *)
LinksLive(s) == \A i \in 1..Len(s) : s[i].call = "link_owner" => link[s[i].conn] # "gone"
Linking(s)   == LinksLive(s) /\ \A i \in 1..Len(s) : s[i].call \notin Removal

(* After a removal no owner is added or removed. *)
Ordered(s) ==
  \A i, j \in 1..Len(s) :
    i < j /\ s[i].call \in Removal => s[j].call \notin Removal \cup {"link_owner"}

(* The primary owner is unlinked at once after the signals about it are
   queued: it is still there. *)
Unlinks(s) ==
  \A j \in 1..Len(s) : s[j].call = "unlink_owner" =>
    /\ Queued(owners[s[j].name], s[j].owner.conn)
    /\ \A i \in 1..Len(s) : i < j => s[i].call = "send"

NoUnlink(s) == \A i \in 1..Len(s) : s[i].call # "unlink_owner"

(* The calls a handler begins with. *)
Fresh(s) == Ordered(s) /\ LinksLive(s) /\ NoUnlink(s)

LEMMA SteadyIsFresh ==
  /\ \A s : Steady(s) => Linking(s)
  /\ \A s : Linking(s) => Fresh(s)
BY DEF Steady, Linking, LinksLive, Fresh, Ordered, NoUnlink, Removal

(* Where the elements of a concatenation come from. *)
LEMMA ConcatElements ==
  ASSUME NEW S, NEW a \in Seq(S), NEW b \in Seq(S)
  PROVE  /\ a \o b \in Seq(S)
         /\ Len(a \o b) = Len(a) + Len(b)
         /\ \A i \in 1..Len(a \o b) :
              \/ i \in 1..Len(a) /\ (a \o b)[i] = a[i]
              \/ i > Len(a) /\ i - Len(a) \in 1..Len(b) /\ (a \o b)[i] = b[i - Len(a)]
<1> DEFINE r == a \o b
<1>1. /\ Len(a) \in Nat /\ Len(b) \in Nat
      /\ r \in Seq(S)
      /\ Len(r) = Len(a) + Len(b)
      /\ \A i \in 1..(Len(a) + Len(b)) : r[i] = IF i <= Len(a) THEN a[i] ELSE b[i - Len(a)]
  BY LenProperties, ConcatProperties
<1> HIDE DEF r
<1>2. ASSUME NEW i \in 1..Len(r)
      PROVE  \/ i \in 1..Len(a) /\ r[i] = a[i]
             \/ i > Len(a) /\ i - Len(a) \in 1..Len(b) /\ r[i] = b[i - Len(a)]
  BY <1>1
<1> QED BY <1>1, <1>2 DEF r

(* Joining sequences of calls. *)
LEMMA Joined ==
  ASSUME NEW a \in Seq(Call), NEW b \in Seq(Call)
  PROVE  /\ Steady(a) /\ Steady(b) => Steady(a \o b)
         /\ Linking(a) /\ Linking(b) => Linking(a \o b)
         /\ Linking(a) /\ Fresh(b) => Fresh(a \o b)
<1> DEFINE r == a \o b
           m == Len(a)
<1>1. /\ m \in Nat /\ Len(b) \in Nat /\ Len(r) \in Nat
      /\ \A i \in 1..Len(r) :
           \/ i \in 1..m /\ r[i] = a[i]
           \/ i > m /\ i - m \in 1..Len(b) /\ r[i] = b[i - m]
  BY ConcatElements, LenProperties
<1> HIDE DEF r, m
<1>2. ASSUME Steady(a), Steady(b)
      PROVE  Steady(r)
  BY <1>1, <1>2 DEF Steady, m
<1>3. ASSUME LinksLive(a), LinksLive(b)
      PROVE  LinksLive(r)
  BY <1>1, <1>3 DEF LinksLive, m
<1>4. ASSUME Linking(a), Linking(b)
      PROVE  Linking(r)
  BY <1>1, <1>3, <1>4 DEF Linking, m
<1>5. ASSUME Linking(a), Fresh(b)
      PROVE  Fresh(r)
  <2>1. LinksLive(r)
    BY <1>3, <1>5 DEF Linking, Fresh
  <2>2. NoUnlink(r)
    BY <1>1, <1>5 DEF Linking, Fresh, NoUnlink, Removal, m
  <2>3. ASSUME NEW i \in 1..Len(r), NEW j \in 1..Len(r), i < j, r[i].call \in Removal
        PROVE  r[j].call \notin Removal \cup {"link_owner"}
    <3>1. i > m /\ i - m \in 1..Len(b) /\ r[i] = b[i - m]
      BY <1>1, <1>5, <2>3 DEF Linking, m
    <3>2. j > m
      BY <1>1, <2>3, <3>1
    <3>3. j - m \in 1..Len(b) /\ r[j] = b[j - m]
      BY <1>1, <3>2
    <3>4. i - m < j - m
      BY <1>1, <2>3
    <3> QED BY <1>5, <2>3, <3>1, <3>3, <3>4 DEF Fresh, Ordered
  <2>4. Ordered(r)
    BY <2>3 DEF Ordered
  <2> QED BY <2>1, <2>2, <2>4 DEF Fresh
<1> QED BY <1>2, <1>4, <1>5 DEF r

(* One call alone, and one that begins a removal. *)
LEMMA OneCall ==
  /\ Steady(<<>>)
  /\ \A x : x.call \notin Removal \cup {"link_owner"} => Steady(<<x>>)
  /\ \A x : x.call = "link_owner" /\ link[x.conn] # "gone" => Linking(<<x>>)
  /\ \A x : x.call \in {"remove_owner", "swap_owner"} => Fresh(<<x>>)
<1>1. \A x : Len(<<x>>) = 1 /\ <<x>>[1] = x
  OBVIOUS
<1>2. Steady(<<>>)
  BY DEF Steady
<1>3. \A i, j \in 1..1 : i = 1 /\ ~(i < j)
  OBVIOUS
<1>4. ASSUME NEW x, x.call \notin Removal \cup {"link_owner"}
      PROVE  Steady(<<x>>)
  BY <1>1, <1>3, <1>4 DEF Steady
<1>5. ASSUME NEW x, x.call = "link_owner", link[x.conn] # "gone"
      PROVE  Linking(<<x>>)
  BY <1>1, <1>3, <1>5 DEF Linking, LinksLive, Removal
<1>6. ASSUME NEW x, x.call \in {"remove_owner", "swap_owner"}
      PROVE  Fresh(<<x>>)
  BY <1>1, <1>3, <1>6 DEF Fresh, Ordered, LinksLive, NoUnlink
<1> QED BY <1>2, <1>4, <1>5, <1>6

LEMMA RemovalThenSteady ==
  ASSUME NEW x \in Call, x.call \in {"remove_owner", "swap_owner"},
         NEW b \in Seq(Call), Steady(b)
  PROVE  Fresh(<<x>> \o b)
<1> DEFINE r == <<x>> \o b
<1>1. /\ Len(b) \in Nat /\ Len(r) = Len(b) + 1
      /\ r[1] = x
      /\ \A j \in 1..Len(b) : r[j + 1] = b[j]
  BY ConsProperties, LenProperties
<1> HIDE DEF r
<1>2. ASSUME NEW i \in 1..Len(r), i # 1
      PROVE  r[i].call \notin Removal \cup {"link_owner"}
  <2>1. i - 1 \in 1..Len(b) /\ (i - 1) + 1 = i
    BY <1>1, <1>2
  <2>2. r[i] = b[i - 1]
    BY <1>1, <2>1
  <2> QED BY <2>1, <2>2 DEF Steady
<1>3. \A i, j \in 1..Len(r) : i < j => j # 1
  BY <1>1
<1>4. Ordered(r)
  BY <1>2, <1>3 DEF Ordered
<1>5. LinksLive(r) /\ NoUnlink(r)
  BY <1>1, <1>2 DEF LinksLive, NoUnlink, Removal
<1> QED BY <1>4, <1>5 DEF Fresh, r

(* Signals, the unlinking they announce, and what was left. *)
LEMMA SignalsThenUnlink ==
  ASSUME NEW a \in Seq(Call), \A i \in 1..Len(a) : a[i].call = "send",
         NEW x \in Call,
         x.call = "unlink_owner" => Queued(owners[x.name], x.owner.conn),
         x.call \in {"unlink_owner", "swap_links"},
         NEW b \in Seq(Call), Steady(b)
  PROVE  Ordered(a \o <<x>> \o b) /\ LinksLive(a \o <<x>> \o b) /\ Unlinks(a \o <<x>> \o b)
<1> DEFINE p == a \o <<x>>
           m == Len(a)
<1>0. <<x>> \in Seq(Call) /\ Len(<<x>>) = 1 /\ <<x>>[1] = x /\ m \in Nat
  BY LenProperties
<1>1. p \in Seq(Call) /\ Len(p) = m + 1
  BY <1>0, ConcatElements
<1>2. \A i \in 1..(m + 1) : (i # m + 1 /\ p[i].call = "send") \/ (i = m + 1 /\ p[i] = x)
  <2> DEFINE y == <<x>>
  <2> HIDE DEF y
  <2>1. \A i \in 1..Len(p) : \/ i \in 1..m /\ p[i] = a[i]
                             \/ i > m /\ i - m \in 1..Len(y) /\ p[i] = y[i - m]
    BY <1>0, ConcatElements DEF y
  <2>2. Len(y) = 1 /\ y[1] = x
    BY <1>0 DEF y
  <2> HIDE DEF p, m
  <2>3. ASSUME NEW i \in 1..(m + 1)
        PROVE  (i # m + 1 /\ p[i].call = "send") \/ (i = m + 1 /\ p[i] = x)
    <3>1. CASE i \in 1..m /\ p[i] = a[i]
      <4>1. i # m + 1
        BY <3>1, <1>0
      <4> QED BY <3>1, <4>1 DEF m
    <3>2. CASE i > m /\ i - m \in 1..Len(y) /\ p[i] = y[i - m]
      <4>1. i - m = 1 /\ i = m + 1
        BY <3>2, <2>2, <1>0
      <4> QED BY <3>2, <4>1, <2>2
    <3> QED BY <1>1, <2>1, <3>1, <3>2
  <2> QED BY <2>3
<1> HIDE DEF p
<1> DEFINE r == p \o b
<1>3. \A i \in 1..Len(r) : \/ i \in 1..(m + 1) /\ r[i] = p[i]
                           \/ i > m + 1 /\ i - (m + 1) \in 1..Len(b) /\ r[i] = b[i - (m + 1)]
  BY <1>1, ConcatElements
<1> HIDE DEF r, m
<1>4. ASSUME NEW i \in 1..Len(r)
      PROVE  \/ i < m + 1 /\ r[i].call = "send"
             \/ i = m + 1 /\ r[i] = x
             \/ i > m + 1 /\ r[i].call \notin Removal \cup {"link_owner"}
  <2>1. CASE i \in 1..(m + 1) /\ r[i] = p[i]
    BY <1>0, <1>2, <2>1
  <2>2. CASE i > m + 1 /\ i - (m + 1) \in 1..Len(b) /\ r[i] = b[i - (m + 1)]
    BY <2>2 DEF Steady
  <2> QED BY <1>3, <2>1, <2>2
<1>5. Ordered(r)
  <2>1. SUFFICES ASSUME NEW i \in 1..Len(r), NEW j \in 1..Len(r), i < j, r[i].call \in Removal
                 PROVE  r[j].call \notin Removal \cup {"link_owner"}
    BY DEF Ordered
  <2>2. i = m + 1
    BY <1>4, <2>1 DEF Removal
  <2>3. ~(j < m + 1) /\ j # m + 1
    BY <1>0, <2>1, <2>2
  <2> QED BY <1>4, <2>3
<1>6. LinksLive(r)
  BY <1>4 DEF LinksLive
<1>7. Unlinks(r)
  <2>1. SUFFICES ASSUME NEW j \in 1..Len(r), r[j].call = "unlink_owner"
                 PROVE  /\ Queued(owners[r[j].name], r[j].owner.conn)
                        /\ \A i \in 1..Len(r) : i < j => r[i].call = "send"
    BY DEF Unlinks
  <2>2. j = m + 1 /\ r[j] = x
    BY <1>4, <2>1 DEF Removal
  <2>3. ASSUME NEW i \in 1..Len(r), i < j
        PROVE  r[i].call = "send"
    <3>1. i # m + 1 /\ ~(i > m + 1)
      BY <1>0, <2>2, <2>3
    <3> QED BY <1>4, <3>1
  <2> QED BY <2>1, <2>2, <2>3
<1> QED BY <1>5, <1>6, <1>7 DEF r, p

-----------------------------------------------------------------------------
(* The sequences handlers begin with are fresh.                            *)

(* One call for each entry of a pending activation. *)
LEMMA EntriesSteady ==
  ASSUME TypeOK, NEW n \in Name
  PROVE  Steady(Started(n)) /\ Steady(Held(n)) /\ Steady(Failures(n))
<1> DEFINE p == pending[n]
<1>1. p \in Seq(Entry) /\ DOMAIN p = 1..Len(p) /\ Len(p) \in Nat
  BY LenProperties DEF TypeOK
<1>2. /\ Started(n) \in Seq(Call) /\ DOMAIN Started(n) = DOMAIN p
      /\ Held(n) \in Seq(Call) /\ DOMAIN Held(n) = DOMAIN p
      /\ Failures(n) \in Seq(Call) /\ DOMAIN Failures(n) = DOMAIN p
  BY CallsForEntries DEF Started, Held, Failures
<1>3. /\ DOMAIN Started(n) = 1..Len(Started(n))
      /\ DOMAIN Held(n) = 1..Len(Held(n))
      /\ DOMAIN Failures(n) = 1..Len(Failures(n))
  BY <1>2, LenProperties
<1>4. /\ \A i \in DOMAIN p : Started(n)[i].call = "notify"
      /\ \A i \in DOMAIN p : Held(n)[i].call = "dispatch"
      /\ \A i \in DOMAIN p : Failures(n)[i].call = "send"
  BY DEF Started, Held, Failures, Notify, Dispatch, Send
<1> HIDE DEF p
<1> QED BY <1>2, <1>3, <1>4 DEF Steady, Removal

(* bus_service_add_owner and bus_registry_ensure, for a client that exists. *)
LEMMA NewOwnerLinks ==
  ASSUME TypeOK, NEW n \in AnyName, NEW c \in Conn, NEW f \in AllFlags, link[c] # "gone"
  PROVE  Linking(AddOwner(n, c, f)) /\ Linking(Ensure(n, c, f))
<1> DEFINE a == (IF owners[n] = <<>> THEN <<Send(Acquired(c, n))>> ELSE <<>>)
           l == <<LinkOwner(n, c, f)>>
           w == <<Send(Changed(n, NoOne, c))>>
           s == (IF n \in Name THEN Started(n) ELSE <<>>)
<1>1. Send(Acquired(c, n)) \in Call /\ LinkOwner(n, c, f) \in Call /\ Send(Changed(n, NoOne, c)) \in Call
  BY CallIntro, MessageIntro
<1>2. a \in Seq(Call) /\ l \in Seq(Call) /\ w \in Seq(Call) /\ s \in Seq(Call)
  BY <1>1, CallSequences, CallsForEntries
<1>3. \A m : Send(m).call \notin Removal \cup {"link_owner"}
  BY DEF Send, Removal
<1>4. Steady(a) /\ Steady(w)
  BY <1>3, OneCall
<1>5. Steady(s)
  BY OneCall, EntriesSteady
<1>6. Linking(l)
  <2>1. LinkOwner(n, c, f).call = "link_owner" /\ LinkOwner(n, c, f).conn = c
    BY DEF LinkOwner
  <2> QED BY <2>1, OneCall
<1>7. AddOwner(n, c, f) = a \o l
  BY DEF AddOwner
<1> HIDE DEF a, l, w, s
<1>8. a \o l \in Seq(Call) /\ Linking(a \o l)
  BY <1>2, <1>4, <1>6, SteadyIsFresh, Joined, CallSequences
<1>9. w \o s \in Seq(Call) /\ Linking(w \o s)
  BY <1>2, <1>4, <1>5, SteadyIsFresh, Joined, CallSequences
<1>10. Linking(w \o s \o (a \o l))
  BY <1>8, <1>9, Joined
<1>11. Ensure(n, c, f) = <<>> \/ Ensure(n, c, f) = w \o s \o (a \o l)
  BY <1>7 DEF Ensure, w, s
<1> QED BY <1>7, <1>8, <1>10, <1>11, OneCall, SteadyIsFresh

(* Hello, RequestName, ReleaseName and StartServiceByName. *)
LEMMA RequestsFresh ==
  ASSUME TypeOK, NEW c \in Conn, link[c] # "gone"
  PROVE  /\ \A f \in AllFlags :
              Fresh(<<Complete(c), Send(Reply(c, c, "welcome"))>> \o Ensure(c, c, f))
         /\ \A n \in Name, f \in AllFlags : Fresh(AcquireService(c, n, f))
         /\ \A n \in Name : Fresh(ReleaseService(c, n))
         /\ \A n \in Name, a \in BOOLEAN : Fresh(ActivateService(c, n, a))
<1>1. \A m : Send(m).call \notin Removal \cup {"link_owner"}
  BY DEF Send, Removal
<1>2. ASSUME NEW x \in Call, NEW y \in Call,
             x.call \notin Removal \cup {"link_owner"}, y.call \notin Removal \cup {"link_owner"}
      PROVE  <<x, y>> \in Seq(Call) /\ Steady(<<x, y>>)
  <2>1. <<x, y>> \in Seq(Call) /\ Len(<<x, y>>) = 2 /\ <<x, y>>[1] = x /\ <<x, y>>[2] = y
    OBVIOUS
  <2>2. \A i \in 1..2 : i = 1 \/ i = 2
    OBVIOUS
  <2> QED BY <1>2, <2>1, <2>2 DEF Steady
<1>3. ASSUME NEW f \in AllFlags
      PROVE  Fresh(<<Complete(c), Send(Reply(c, c, "welcome"))>> \o Ensure(c, c, f))
  <2>1. c \in AnyName
    BY DEF AnyName
  <2>2. Complete(c) \in Call /\ Send(Reply(c, c, "welcome")) \in Call
    BY <2>1, CallIntro, MessageIntro DEF Result
  <2>3. Complete(c).call \notin Removal \cup {"link_owner"}
    BY DEF Complete, Removal
  <2> DEFINE s == <<Complete(c), Send(Reply(c, c, "welcome"))>>
  <2>4. s \in Seq(Call) /\ Steady(s)
    BY <1>1, <1>2, <2>2, <2>3
  <2> HIDE DEF s
  <2>5. Ensure(c, c, f) \in Seq(Call) /\ Linking(Ensure(c, c, f))
    BY <2>1, NewOwnerCalls, NewOwnerLinks
  <2>6. Linking(s \o Ensure(c, c, f))
    BY <2>4, <2>5, SteadyIsFresh, Joined
  <2> QED BY <2>6, SteadyIsFresh DEF s
<1>4. ASSUME NEW n \in Name, NEW f \in AllFlags
      PROVE  Fresh(AcquireService(c, n, f))
  <2> DEFINE x == Outcome(c, n, f)
             t == <<SendHeld(n), Send(Reply(c, n, OutcomeResult(c, n, f)))>>
             o == OutcomeCalls(c, n, f)
  <2>0. n \in AnyName
    BY DEF AnyName
  <2>1. x \in {"primary", "already", "replaced", "exists", "queued"}
    BY DEF Outcome
  <2>2. OutcomeResult(c, n, f) \in Result
    BY <2>1 DEF OutcomeResult, Result
  <2>3. SendHeld(n) \in Call /\ Send(Reply(c, n, OutcomeResult(c, n, f))) \in Call
    BY <2>0, <2>2, CallIntro, MessageIntro
  <2>4. SendHeld(n).call \notin Removal \cup {"link_owner"}
    BY DEF SendHeld, Removal
  <2>5. t \in Seq(Call) /\ Steady(t)
    BY <1>1, <1>2, <2>3, <2>4
  <2>6. Fresh(<<Send(Failure(c))>>)
    BY <1>1, OneCall, SteadyIsFresh
  <2> HIDE DEF t, x
  <2>7. Fresh(o \o t)
    <3>1. CASE x = "primary"
      <4>1. o = Ensure(n, c, f)
        BY <3>1 DEF OutcomeCalls, x
      <4>2. o \in Seq(Call) /\ Linking(o)
        BY <4>1, <2>0, NewOwnerCalls, NewOwnerLinks
      <4> QED BY <4>2, <2>5, Joined, SteadyIsFresh
    <3>2. CASE x = "already"
      <4>1. o = <<SetFlags(n, c, f)>>
        BY <3>2 DEF OutcomeCalls, x
      <4>2. SetFlags(n, c, f) \in Call /\ SetFlags(n, c, f).call \notin Removal \cup {"link_owner"}
        BY <2>0, CallIntro DEF SetFlags, Removal
      <4>3. o \in Seq(Call) /\ Steady(o)
        BY <4>1, <4>2, OneCall, CallSequences
      <4> QED BY <4>3, <2>5, Joined, SteadyIsFresh
    <3>3. CASE x = "exists"
      <4>1. o = Decline(c, n)
        BY <3>3 DEF OutcomeCalls, x
      <4>2. RemoveOwner(n, c) \in Call /\ RemoveOwner(n, c).call = "remove_owner"
        BY <2>0, CallIntro DEF RemoveOwner
      <4>3. Fresh(<<RemoveOwner(n, c)>> \o t)
        BY <4>2, <2>5, RemovalThenSteady
      <4>4. Fresh(<<>> \o t)
        BY <2>5, OneCall, Joined, SteadyIsFresh, CallSequences
      <4> QED BY <4>1, <4>3, <4>4 DEF Decline
    <3>4. CASE x = "queued"
      <4>1. o = AddOwner(n, c, f)
        BY <3>4 DEF OutcomeCalls, x
      <4>2. o \in Seq(Call) /\ Linking(o)
        BY <4>1, <2>0, NewOwnerCalls, NewOwnerLinks
      <4> QED BY <4>2, <2>5, Joined, SteadyIsFresh
    <3>5. CASE x = "replaced"
      <4> DEFINE a == AddOwner(n, c, f)
                 y == IF owners[n][1].noqueue THEN RemoveOwner(n, Primary(n))
                                              ELSE SwapOwner(n, Primary(n))
      <4>1. o = a \o <<y>>
        BY <3>5 DEF OutcomeCalls, Dethrone, x
      <4>2. Primary(n) \in Conn
        BY <3>5, <2>0, FirstOwner DEF Outcome, x
      <4>3. y \in Call /\ y.call \in {"remove_owner", "swap_owner"}
        BY <4>2, <2>0, CallIntro DEF RemoveOwner, SwapOwner
      <4>4. a \in Seq(Call) /\ Linking(a)
        BY <2>0, NewOwnerCalls, NewOwnerLinks
      <4> HIDE DEF a, y
      <4>5. <<y>> \in Seq(Call) /\ <<y>> \o t \in Seq(Call) /\ Fresh(<<y>> \o t)
        BY <4>3, <2>5, CallSequences, RemovalThenSteady
      <4>6. Fresh(a \o (<<y>> \o t))
        BY <4>4, <4>5, Joined
      <4>7. (a \o <<y>>) \o t = a \o (<<y>> \o t)
        BY <4>4, <4>5, <2>5, ConcatAssociative
      <4> QED BY <4>1, <4>6, <4>7
    <3> QED BY <2>1, <3>1, <3>2, <3>3, <3>4, <3>5 DEF x
  <2> QED BY <2>6, <2>7 DEF AcquireService, t
<1>5. ASSUME NEW n \in Name
      PROVE  Fresh(ReleaseService(c, n))
  <2>1. /\ Fresh(<<Send(Reply(c, n, "nonexistent"))>>)
        /\ Fresh(<<Send(Reply(c, n, "notowner"))>>)
    BY <1>1, OneCall, SteadyIsFresh
  <2> DEFINE x == RemoveOwner(n, c)
             y == Send(Reply(c, n, "released"))
  <2>2. x.call = "remove_owner" /\ y.call = "send"
    BY DEF RemoveOwner, Send
  <2>3. Len(<<x, y>>) = 2 /\ <<x, y>>[1] = x /\ <<x, y>>[2] = y
    OBVIOUS
  <2>4. \A i, j \in 1..2 : (i = 1 \/ i = 2) /\ (i < j => j = 2)
    OBVIOUS
  <2> HIDE DEF x, y
  <2>5. Fresh(<<x, y>>)
    BY <2>2, <2>3, <2>4 DEF Fresh, Ordered, LinksLive, NoUnlink, Removal
  <2> QED BY <2>1, <2>5 DEF ReleaseService, x, y
<1>6. ASSUME NEW n \in Name, NEW a \in BOOLEAN
      PROVE  Fresh(ActivateService(c, n, a))
  <2>1. Register(n, c, a) \in Call /\ Spawn(n) \in Call
    BY CallIntro
  <2>2. /\ Register(n, c, a).call \notin Removal \cup {"link_owner"}
        /\ Spawn(n).call \notin Removal \cup {"link_owner"}
    BY DEF Register, Spawn, Removal
  <2> DEFINE r == <<Register(n, c, a)>>
             p == (IF pending[n] = <<>> THEN <<Spawn(n)>> ELSE <<>>)
  <2>3. r \in Seq(Call) /\ Steady(r) /\ p \in Seq(Call) /\ Steady(p)
    BY <2>1, <2>2, OneCall, CallSequences
  <2>4. ActivateService(c, n, a) = <<Send(Answer(c, n))>> \/ ActivateService(c, n, a) = r \o p
    BY DEF ActivateService
  <2> HIDE DEF r, p
  <2>5. Fresh(r \o p) /\ Fresh(<<Send(Answer(c, n))>>)
    BY <1>1, <2>3, Joined, OneCall, SteadyIsFresh
  <2> QED BY <2>4, <2>5
<1> QED BY <1>3, <1>4, <1>5, <1>6

-----------------------------------------------------------------------------
(* The invariant: what the queues and the lists of names agree on in every *)
(* state, mid-handler and mid-cancellation ones included.                  *)

(* The hook restores an owner that left the queue and still has the name on
   its list, until the hook is freed. *)
Restores(h, n, c) ==
  h.hook = "restore_ownership" /\ h.at = 1 /\ h.name = n /\ h.owner.conn = c

Removed(n, c) == \E i \in 1..Len(hooks) : Restores(hooks[i], n, c)

Restoring == \E i \in 1..Len(hooks) : hooks[i].hook = "restore_ownership"

TodoInv ==
  /\ phase # "run" => todo = <<>>
  /\ Ordered(todo)
  /\ LinksLive(todo)
  /\ Unlinks(todo)

(* Of the hooks that concern owners the last one added is the only one that
   can restore; after it nothing is added or removed. *)
HookInv ==
  /\ phase \in {"idle", "round"} => hooks = <<>>
  /\ \A i, j \in 1..Len(hooks) :
       i < j /\ hooks[j].hook = "restore_ownership" =>
         hooks[i].hook \notin {"cancel_ownership", "restore_ownership"}
  /\ Restoring => Steady(todo)

OwnInv ==
  \A c \in Conn :
    /\ Once(owned[c])
    /\ \A n \in AnyName : Lists(owned[c], n) <=> Queued(owners[n], c) \/ Removed(n, c)
    /\ \A n \in AnyName : Removed(n, c) => ~Queued(owners[n], c)
    /\ link[c] = "gone" => owned[c] = <<>>

Consistent == TodoInv /\ HookInv /\ OwnInv

-----------------------------------------------------------------------------
(* What is left of the calls and the hooks.                                *)

LEMMA NothingToDo == Ordered(<<>>) /\ LinksLive(<<>>) /\ Unlinks(<<>>) /\ Steady(<<>>)
BY DEF Ordered, LinksLive, Unlinks, Steady

LEMMA TodoTail ==
  ASSUME TypeOK, TodoInv, NEW f, Calling(f), Return, UNCHANGED <<link, phase>>,
         f = "send" => UNCHANGED owners
  PROVE  /\ TodoInv'
         /\ f \in Removal => Steady(todo)'
         /\ Steady(todo) => Steady(todo)'
         /\ f # "send" => NoUnlink(Tail(todo))
<1> DEFINE t == Tail(todo)
<1>1. /\ todo \in Seq(Call) /\ todo # <<>>
      /\ todo[1].call = f
      /\ todo' = t
      /\ phase' = "run"
  BY DEF Calling, Top, Return, TypeOK
<1>2. /\ Len(todo) \in Nat /\ Len(todo) > 0
      /\ t \in Seq(Call)
      /\ Len(t) = Len(todo) - 1
      /\ \A i \in 1..Len(t) : t[i] = todo[i + 1]
  BY <1>1, LenProperties, EmptySeq, HeadTailProperties
<1> HIDE DEF t
<1>3. \A i \in 1..Len(t) : i + 1 \in 1..Len(todo) /\ 1 < i + 1 /\ 1 \in 1..Len(todo)
  BY <1>2
<1>4. \A i, j \in 1..Len(t) : i < j => i + 1 < j + 1
  BY <1>2
<1>5. Ordered(t)
  BY <1>2, <1>3, <1>4 DEF TodoInv, Ordered
<1>6. \A i \in 1..Len(t) : t[i].call = "link_owner" => link[t[i].conn] # "gone"
  BY <1>2, <1>3 DEF TodoInv, LinksLive
<1>7. f \in Removal => Steady(t)
  BY <1>1, <1>2, <1>3 DEF TodoInv, Ordered, Steady
<1>8. Steady(todo) => Steady(t)
  BY <1>2, <1>3 DEF Steady
<1>9. f # "send" => NoUnlink(t)
  BY <1>1, <1>2, <1>3 DEF TodoInv, Unlinks, NoUnlink
<1>10. \A j \in 1..Len(t) : t[j].call = "unlink_owner" =>
         /\ Queued(owners[t[j].name], t[j].owner.conn)
         /\ \A i \in 1..Len(t) : i < j => t[i].call = "send"
  <2>1. SUFFICES ASSUME NEW j \in 1..Len(t), t[j].call = "unlink_owner"
                 PROVE  /\ Queued(owners[t[j].name], t[j].owner.conn)
                        /\ \A i \in 1..Len(t) : i < j => t[i].call = "send"
    OBVIOUS
  <2> DEFINE k == j + 1
  <2>2. k \in 1..Len(todo) /\ t[j] = todo[k]
    BY <1>2, <1>3
  <2>3. \A i \in 1..Len(t) : i < j => i + 1 \in 1..Len(todo) /\ i + 1 < k /\ t[i] = todo[i + 1]
    BY <1>2, <1>3, <1>4
  <2> HIDE DEF k
  <2>4. /\ Queued(owners[todo[k].name], todo[k].owner.conn)
        /\ \A i \in 1..Len(todo) : i < k => todo[i].call = "send"
    BY <2>1, <2>2 DEF TodoInv, Unlinks
  <2>5. \A i \in 1..Len(t) : i < j => t[i].call = "send"
    BY <2>3, <2>4
  <2> QED BY <2>2, <2>4, <2>5
<1>11. /\ Ordered(todo)' /\ LinksLive(todo)'
       /\ f \in Removal => Steady(todo)'
       /\ Steady(todo) => Steady(todo)'
  BY <1>1, <1>5, <1>6, <1>7, <1>8 DEF Ordered, LinksLive, Steady
<1>12. Unlinks(todo)'
  <2>1. CASE f = "send"
    BY <1>1, <1>10, <2>1 DEF Unlinks
  <2>2. CASE f # "send"
    BY <1>1, <1>9, <2>2 DEF Unlinks, NoUnlink
  <2> QED BY <2>1, <2>2
<1> QED BY <1>1, <1>9, <1>11, <1>12 DEF TodoInv, t

(* The hooks stay, *)
LEMMA HooksKept ==
  ASSUME HookInv, UNCHANGED hooks, phase' \in {"idle", "round"} => hooks = <<>>,
         Steady(todo) => Steady(todo)'
  PROVE  HookInv' /\ \A n, c : Removed(n, c)' <=> Removed(n, c)
<1>1. \A n, c : Removed(n, c)' <=> Removed(n, c)
  BY DEF Removed
<1>2. Restoring' <=> Restoring
  BY DEF Restoring
<1>3. Restoring' => Steady(todo)'
  BY <1>2 DEF HookInv
<1>4. \A i, j \in 1..Len(hooks') :
        i < j /\ hooks'[j].hook = "restore_ownership" =>
          hooks'[i].hook \notin {"cancel_ownership", "restore_ownership"}
  BY DEF HookInv
<1>5. HookInv'
  BY <1>3, <1>4 DEF HookInv
<1> QED BY <1>1, <1>5

(* one is added, *)
LEMMA HookAdded ==
  ASSUME TypeOK, HookInv, NEW h \in Hook, hooks' = <<h>> \o hooks, phase' = "run"
  PROVE  /\ /\ h.hook \notin {"cancel_ownership", "restore_ownership"}
            /\ Steady(todo) => Steady(todo)'
            => HookInv' /\ \A n, c : Removed(n, c)' <=> Removed(n, c)
         /\ /\ ~Restoring
            /\ h.hook = "restore_ownership" => Steady(todo)'
            => HookInv' /\ \A n, c : Removed(n, c)' <=> Restores(h, n, c)
<1> DEFINE r == hooks'
<1>1. /\ Len(hooks) \in Nat /\ Len(r) = Len(hooks) + 1
      /\ r[1] = h
      /\ \A j \in 1..Len(hooks) : r[j + 1] = hooks[j]
  BY ConsProperties, LenProperties DEF TypeOK
<1> HIDE DEF r
<1>2. ASSUME NEW i \in 1..Len(r), i # 1
      PROVE  i - 1 \in 1..Len(hooks) /\ r[i] = hooks[i - 1]
  <2>1. i - 1 \in 1..Len(hooks) /\ (i - 1) + 1 = i
    BY <1>1, <1>2
  <2> QED BY <1>1, <2>1
<1>3. \A j \in 1..Len(hooks) : j + 1 \in 1..Len(r)
  BY <1>1
<1>4. 1 \in 1..Len(r)
  BY <1>1
<1>5. \A i, j \in 1..Len(r) : i < j => j # 1 /\ (i # 1 => i - 1 < j - 1)
  BY <1>1
<1>6. \A n, c : (\E i \in 1..Len(r) : Restores(r[i], n, c)) <=> Restores(h, n, c) \/ Removed(n, c)
  <2>1. ASSUME NEW n, NEW c, NEW i \in 1..Len(r), Restores(r[i], n, c)
        PROVE  Restores(h, n, c) \/ Removed(n, c)
    BY <1>1, <1>2, <2>1 DEF Removed
  <2>2. ASSUME NEW n, NEW c, Restores(h, n, c) \/ Removed(n, c)
        PROVE  \E i \in 1..Len(r) : Restores(r[i], n, c)
    BY <1>1, <1>3, <1>4, <2>2 DEF Removed
  <2> QED BY <2>1, <2>2
<1>7. (\E i \in 1..Len(r) : r[i].hook = "restore_ownership") =>
        h.hook = "restore_ownership" \/ Restoring
  BY <1>1, <1>2 DEF Restoring
<1>8. \A n, c : Restores(h, n, c) => h.hook = "restore_ownership"
  BY DEF Restores
<1>9. \A n, c : Removed(n, c) => Restoring
  BY DEF Removed, Restoring, Restores
<1>10. ASSUME h.hook \notin {"cancel_ownership", "restore_ownership"},
              Steady(todo) => Steady(todo)'
       PROVE  HookInv' /\ \A n, c : Removed(n, c)' <=> Removed(n, c)
  <2>1. ASSUME NEW i \in 1..Len(r), NEW j \in 1..Len(r), i < j, r[j].hook = "restore_ownership"
        PROVE  r[i].hook \notin {"cancel_ownership", "restore_ownership"}
    <3>1. CASE i = 1
      BY <1>1, <1>10, <3>1
    <3>2. CASE i # 1
      BY <1>2, <1>5, <2>1, <3>2 DEF HookInv
    <3> QED BY <3>1, <3>2
  <2>2. Restoring' => Steady(todo)'
    BY <1>7, <1>10 DEF Restoring, HookInv, r
  <2>3. HookInv'
    BY <2>1, <2>2 DEF HookInv, r
  <2> QED BY <1>6, <1>8, <1>10, <2>3 DEF Removed, r
<1>11. ASSUME ~Restoring, h.hook = "restore_ownership" => Steady(todo)'
       PROVE  HookInv' /\ \A n, c : Removed(n, c)' <=> Restores(h, n, c)
  <2>1. ASSUME NEW i \in 1..Len(r), NEW j \in 1..Len(r), i < j, r[j].hook = "restore_ownership"
        PROVE  FALSE
    BY <1>2, <1>5, <1>11, <2>1 DEF Restoring
  <2>2. Restoring' => Steady(todo)'
    BY <1>7, <1>11 DEF Restoring, r
  <2>3. HookInv'
    BY <2>1, <2>2 DEF HookInv, r
  <2> QED BY <1>6, <1>9, <1>11, <2>3 DEF Removed, r
<1> QED BY <1>10, <1>11

(* or the last one added is run or freed. *)
LEMMA HookGone ==
  ASSUME TypeOK, HookInv, hooks # <<>>, hooks' = Tail(hooks), UNCHANGED <<todo, phase>>
  PROVE  /\ HookInv'
         /\ \A n, c : Removed(n, c) <=> Restores(Head(hooks), n, c) \/ Removed(n, c)'
         /\ Head(hooks).hook \in {"cancel_ownership", "restore_ownership"} =>
              \A n, c : ~Removed(n, c)'
<1> DEFINE t == hooks'
           h == Head(hooks)
<1>1. /\ Len(hooks) \in Nat /\ Len(hooks) > 0
      /\ h = hooks[1]
      /\ Len(t) = Len(hooks) - 1
      /\ \A i \in 1..Len(t) : t[i] = hooks[i + 1]
  BY LenProperties, EmptySeq, HeadTailProperties DEF TypeOK
<1> HIDE DEF t, h
<1>2. \A i \in 1..Len(t) : i + 1 \in 1..Len(hooks) /\ 1 < i + 1
  BY <1>1
<1>3. 1 \in 1..Len(hooks)
  BY <1>1
<1>4. \A i, j \in 1..Len(t) : i < j => i + 1 < j + 1
  BY <1>1
<1>5. ASSUME NEW i \in 1..Len(hooks), i # 1
      PROVE  i - 1 \in 1..Len(t) /\ t[i - 1] = hooks[i]
  <2>1. i - 1 \in 1..Len(t) /\ (i - 1) + 1 = i
    BY <1>1, <1>5
  <2> QED BY <1>1, <2>1
<1>6. HookInv'
  <2>1. \A i, j \in 1..Len(t) :
          i < j /\ t[j].hook = "restore_ownership" =>
            t[i].hook \notin {"cancel_ownership", "restore_ownership"}
    BY <1>1, <1>2, <1>4 DEF HookInv
  <2>2. Restoring' => Restoring
    BY <1>1, <1>2 DEF Restoring, t
  <2>3. Steady(todo) => Steady(todo)'
    BY DEF Steady
  <2>4. phase' \notin {"idle", "round"}
    BY DEF HookInv
  <2> QED BY <2>1, <2>2, <2>3, <2>4 DEF HookInv, t
<1>7. ASSUME NEW n, NEW c
      PROVE  Removed(n, c) <=> Restores(h, n, c) \/ \E i \in 1..Len(t) : Restores(t[i], n, c)
  BY <1>1, <1>2, <1>3, <1>5 DEF Removed
<1>8. ASSUME h.hook \in {"cancel_ownership", "restore_ownership"}, NEW n, NEW c
      PROVE  ~ \E i \in 1..Len(t) : Restores(t[i], n, c)
  BY <1>1, <1>2, <1>3, <1>8 DEF HookInv, Restores
<1> QED BY <1>6, <1>7, <1>8 DEF Removed, t, h

-----------------------------------------------------------------------------
(* The steps.                                                              *)

(* The lists and the queues stay, or the queues only change their order. *)
LEMMA OwnKept ==
  ASSUME OwnInv, UNCHANGED owned,
         \A n \in AnyName, c \in Conn : Queued(owners[n], c)' <=> Queued(owners[n], c),
         \A n, c : Removed(n, c)' <=> Removed(n, c),
         \A c \in Conn : link'[c] = "gone" => link[c] = "gone" \/ owned[c] = <<>>
  PROVE  OwnInv'
<1>1. SUFFICES ASSUME NEW c \in Conn
               PROVE  /\ Once(owned'[c])
                      /\ \A n \in AnyName :
                           Lists(owned'[c], n) <=> Queued(owners[n], c)' \/ Removed(n, c)'
                      /\ \A n \in AnyName : Removed(n, c)' => ~Queued(owners[n], c)'
                      /\ link'[c] = "gone" => owned'[c] = <<>>
  BY DEF OwnInv, Once, Lists, Queued
<1>2. Once(owned'[c])
  BY DEF OwnInv
<1>3. \A n \in AnyName : Lists(owned'[c], n) <=> Queued(owners[n], c)' \/ Removed(n, c)'
  BY DEF OwnInv
<1>4. \A n \in AnyName : Removed(n, c)' => ~Queued(owners[n], c)'
  BY DEF OwnInv
<1>5. link'[c] = "gone" => owned'[c] = <<>>
  BY DEF OwnInv
<1> QED BY <1>2, <1>3, <1>4, <1>5

(* Queues that do not change. *)
LEMMA QueuesKept ==
  ASSUME UNCHANGED owners
  PROVE  \A n, c : Queued(owners[n], c)' <=> Queued(owners[n], c)
BY DEF Queued

(* A call returns that changes no queue, no list and no hook. *)
LEMMA PlainReturn ==
  ASSUME TypeOK, Consistent, NEW f, Calling(f), Return,
         UNCHANGED <<link, owners, owned, hooks, phase>>
  PROVE  Consistent'
<1>1. TodoInv' /\ (Steady(todo) => Steady(todo)')
  BY TodoTail DEF Consistent
<1>2. HookInv' /\ \A n, c : Removed(n, c)' <=> Removed(n, c)
  BY <1>1, HooksKept DEF Consistent, HookInv
<1>3. OwnInv'
  BY <1>2, OwnKept, QueuesKept DEF Consistent
<1> QED BY <1>1, <1>2, <1>3 DEF Consistent

(* A handler begins. *)
LEMMA BeginConsistent ==
  ASSUME TypeOK, Consistent, phase \in {"idle", "round"},
         NEW y, NEW w, NEW u, NEW s \in Seq(Call), Fresh(s), Begin(y, w, u, s),
         UNCHANGED <<link, owners, owned>>
  PROVE  Consistent'
<1>1. todo' = s /\ phase' = "run" /\ hooks' = <<>> /\ hooks = <<>>
  BY DEF Begin, Consistent, HookInv
<1>2. TodoInv'
  BY <1>1 DEF TodoInv, Fresh, Ordered, LinksLive, NoUnlink, Unlinks
<1>3. /\ \A n, c : ~Removed(n, c) /\ ~Removed(n, c)'
      /\ ~Restoring'
  BY <1>1 DEF Removed, Restoring
<1>4. HookInv'
  BY <1>1, <1>3 DEF HookInv
<1>5. OwnInv'
  BY <1>3, OwnKept, QueuesKept DEF Consistent
<1> QED BY <1>2, <1>4, <1>5 DEF Consistent

(* A step of a handler with nothing left to call: between two handlers, or
   while it executes or cancels its transaction. *)
LEMMA QuietStep ==
  ASSUME TypeOK, Consistent, todo' = <<>>, UNCHANGED <<owners, owned, hooks>>,
         phase' \in {"idle", "round"} => hooks = <<>>,
         \A c \in Conn : link'[c] = "gone" => link[c] = "gone" \/ owned[c] = <<>>
  PROVE  Consistent'
<1>1. TodoInv' /\ Steady(todo)'
  BY NothingToDo DEF TodoInv, Ordered, LinksLive, Unlinks, Steady
<1>2. HookInv' /\ \A n, c : Removed(n, c)' <=> Removed(n, c)
  BY <1>1, HooksKept DEF Consistent
<1>3. OwnInv'
  BY <1>2, OwnKept, QueuesKept DEF Consistent
<1> QED BY <1>1, <1>2, <1>3 DEF Consistent

(* Raising an error leaves only its reply to send. *)
LEMMA RaiseConsistent ==
  ASSUME TypeOK, Consistent, Raise, UNCHANGED <<link, owners, owned, hooks>>,
         phase = "run", phase' = "run"
  PROVE  Consistent'
<1>1. todo' = <<>> \/ \E m : todo' = <<Send(m)>>
  BY DEF Raise
<1>2. Steady(todo)' /\ Fresh(todo)'
  <2>1. \A m : Send(m).call \notin Removal \cup {"link_owner"}
    BY DEF Send, Removal
  <2>2. CASE todo' = <<>>
    BY <2>2 DEF Steady, Fresh, Ordered, LinksLive, NoUnlink
  <2>3. CASE \E m : todo' = <<Send(m)>>
    <3>1. PICK m : todo' = <<Send(m)>>
      BY <2>3
    <3>2. Len(todo') = 1 /\ todo'[1].call \notin Removal \cup {"link_owner"}
      BY <2>1, <3>1
    <3>3. \A i, j \in 1..1 : i = 1 /\ ~(i < j)
      OBVIOUS
    <3> QED BY <3>2, <3>3 DEF Steady, Fresh, Ordered, LinksLive, NoUnlink, Removal
  <2> QED BY <1>1, <2>2, <2>3
<1>3. TodoInv'
  BY <1>2 DEF TodoInv, Fresh, NoUnlink, Unlinks
<1>4. HookInv' /\ \A n, c : Removed(n, c)' <=> Removed(n, c)
  BY <1>2, HooksKept DEF Consistent
<1>5. OwnInv'
  BY <1>4, OwnKept, QueuesKept DEF Consistent
<1> QED BY <1>3, <1>4, <1>5 DEF Consistent

(* A call that only registers a hook of the activation table. *)
LEMMA HookedReturn ==
  ASSUME TypeOK, Consistent, NEW f, Calling(f), Return, UNCHANGED <<link, owners, owned, phase>>,
         NEW h \in Hook, h.hook \in {"cancel_pending", "restore_pending"},
         hooks' = <<h>> \o hooks
  PROVE  Consistent'
<1>1. TodoInv' /\ (Steady(todo) => Steady(todo)')
  BY TodoTail DEF Consistent
<1>2. phase' = "run"
  BY DEF Calling
<1>3. HookInv' /\ \A n, c : Removed(n, c)' <=> Removed(n, c)
  BY <1>1, <1>2, HookAdded DEF Consistent
<1>4. OwnInv'
  BY <1>3, OwnKept, QueuesKept DEF Consistent
<1> QED BY <1>1, <1>3, <1>4 DEF Consistent

(* A call that is replaced by others. *)
LEMMA MakeConsistent ==
  ASSUME TypeOK, Consistent, UNCHANGED <<link, owners, owned, hooks>>,
         phase = "run", phase' = "run", TodoInv',
         Steady(todo) => Steady(todo)'
  PROVE  Consistent'
<1>1. HookInv' /\ \A n, c : Removed(n, c)' <=> Removed(n, c)
  BY HooksKept DEF Consistent
<1>2. OwnInv'
  BY <1>1, OwnKept, QueuesKept DEF Consistent
<1> QED BY <1>1, <1>2 DEF Consistent

(* No hook restores an owner while a call that changes a queue is ahead. *)
LEMMA NoneRemoved ==
  ASSUME TypeOK, Consistent, NEW f, Calling(f), f \in Removal \cup {"link_owner"}
  PROVE  ~Restoring /\ \A n, c : ~Removed(n, c)
<1>1. 1 \in 1..Len(todo) /\ todo[1].call = f
  <2>1. todo \in Seq(Call) /\ todo # <<>> /\ Head(todo) = todo[1] /\ todo[1].call = f
    BY DEF Calling, Top, TypeOK
  <2>2. Len(todo) \in Nat /\ Len(todo) # 0
    BY <2>1, LenProperties, EmptySeq
  <2> QED BY <2>1, <2>2
<1>2. ~Steady(todo)
  BY <1>1 DEF Steady
<1>3. ~Restoring
  BY <1>2 DEF Consistent, HookInv
<1> QED BY <1>3 DEF Restoring, Removed, Restores

(* The function calls of the registry that change a queue. *)

(* A queue changes for one client c and name n only, together with the list
   of the client. *)
LEMMA OwnChanged ==
  ASSUME TypeOK, OwnInv, NEW n \in AnyName, NEW c \in Conn, NEW q, NEW s,
         owners' = [owners EXCEPT ![n] = q], owned' = [owned EXCEPT ![c] = s],
         UNCHANGED link,
         \A d \in Conn : d # c => (Queued(q, d) <=> Queued(owners[n], d)),
         Once(s),
         \A m \in AnyName : m # n => (Lists(s, m) <=> Lists(owned[c], m)),
         \A m \in AnyName, d \in Conn :
           m # n \/ d # c => (Removed(m, d)' <=> Removed(m, d)),
         Lists(s, n) <=> Queued(q, c) \/ Removed(n, c)',
         Removed(n, c)' => ~Queued(q, c),
         link[c] = "gone" => s = <<>>
  PROVE  OwnInv'
<1>1. /\ \A m \in AnyName : owners'[m] = IF m = n THEN q ELSE owners[m]
      /\ \A d \in Conn : owned'[d] = IF d = c THEN s ELSE owned[d]
  BY DEF TypeOK
<1>2. ASSUME NEW d \in Conn, d # c
      PROVE  /\ Once(owned'[d])
             /\ \A m \in AnyName :
                  Lists(owned'[d], m) <=> Queued(owners'[m], d) \/ Removed(m, d)'
             /\ \A m \in AnyName : Removed(m, d)' => ~Queued(owners'[m], d)
             /\ link'[d] = "gone" => owned'[d] = <<>>
  <2>1. owned'[d] = owned[d]
    BY <1>1, <1>2
  <2>2. \A m \in AnyName : /\ Queued(owners'[m], d) <=> Queued(owners[m], d)
                           /\ Removed(m, d)' <=> Removed(m, d)
    BY <1>1, <1>2
  <2> QED BY <2>1, <2>2 DEF OwnInv
<1>3. /\ Once(owned'[c])
      /\ link'[c] = "gone" => owned'[c] = <<>>
  BY <1>1
<1>4. ASSUME NEW m \in AnyName
      PROVE  /\ Lists(owned'[c], m) <=> Queued(owners'[m], c) \/ Removed(m, c)'
             /\ Removed(m, c)' => ~Queued(owners'[m], c)
  <2>1. CASE m = n
    BY <1>1, <2>1
  <2>2. CASE m # n
    <3>1. /\ owners'[m] = owners[m] /\ (Removed(m, c)' <=> Removed(m, c))
          /\ Lists(owned'[c], m) <=> Lists(owned[c], m)
      BY <1>1, <2>2
    <3> QED BY <3>1 DEF OwnInv
  <2> QED BY <2>1, <2>2
<1>5. ASSUME NEW d \in Conn
      PROVE  /\ Once(owned'[d])
             /\ \A m \in AnyName :
                  Lists(owned'[d], m) <=> Queued(owners'[m], d) \/ Removed(m, d)'
             /\ \A m \in AnyName : Removed(m, d)' => ~Queued(owners'[m], d)
             /\ link'[d] = "gone" => owned'[d] = <<>>
  BY <1>2, <1>3, <1>4
<1>6. \A m, d : Queued(owners[m], d)' <=> Queued(owners'[m], d)
  BY DEF Queued
<1>7. \A d : Once(owned[d])' <=> Once(owned'[d])
  BY DEF Once
<1>8. \A m, d : Lists(owned[d], m)' <=> Lists(owned'[d], m)
  BY DEF Lists
<1> QED BY <1>5, <1>6, <1>7, <1>8 DEF OwnInv

(* Nobody joins or leaves a queue that only changes its order or flags. *)
LEMMA QueueReordered ==
  ASSUME TypeOK, NEW n \in AnyName, NEW q, owners' = [owners EXCEPT ![n] = q],
         \A d : Queued(q, d) <=> Queued(owners[n], d)
  PROVE  \A m \in AnyName, d \in Conn : Queued(owners[m], d)' <=> Queued(owners[m], d)
<1>1. \A m \in AnyName : owners'[m] = IF m = n THEN q ELSE owners[m]
  BY DEF TypeOK
<1>2. \A m, d : Queued(owners[m], d)' <=> Queued(owners'[m], d)
  BY DEF Queued
<1> QED BY <1>1, <1>2

LEMMA LinkNewOwnerConsistent ==
  ASSUME TypeOK, Distinct, Consistent, LinkNewOwner
  PROVE  Consistent'
<1> DEFINE n == Top.name
           c == Top.conn
           o == OwnerOf(c, Top.flags)
           q == IF Top.flags.replace THEN SecondIn(owners[n], o) ELSE Append(owners[n], o)
           s == Append(owned[c], n)
           h == CancelOwnership(n, c)
<1>1. Calling("link_owner") /\ Return /\ UNCHANGED <<link, phase>> /\ phase' = "run"
  BY DEF LinkNewOwner, unseen, Calling
<1>2. n \in AnyName /\ c \in Conn /\ o \in Owner /\ o.conn = c
  BY <1>1, NextCall, CallFields, OwnerOfType
<1>3. owners[n] \in Seq(Owner) /\ owned[c] \in Seq(AnyName)
  BY <1>2, QueueType
<1>4. ~Restoring /\ \A m, d : ~Removed(m, d)
  BY <1>1, NoneRemoved
<1>5. ~Queued(owners[n], c)
  BY DEF LinkNewOwner
<1>6. link[c] # "gone"
  <2>1. todo \in Seq(Call) /\ todo # <<>> /\ todo[1] = Top /\ Top.call = "link_owner"
    BY <1>1 DEF Calling, Top, TypeOK
  <2>2. Len(todo) \in Nat /\ Len(todo) # 0
    BY <2>1, LenProperties, EmptySeq
  <2>3. 1 \in 1..Len(todo)
    BY <2>2
  <2> QED BY <2>1, <2>3 DEF Consistent, TodoInv, LinksLive
<1>7. TodoInv'
  BY <1>1, TodoTail DEF Consistent
<1>8. h \in Hook /\ h.hook = "cancel_ownership" /\ hooks' = <<h>> \o hooks
  BY <1>2, HookIntro DEF LinkNewOwner, CancelOwnership
<1>9. HookInv' /\ \A m, d : Removed(m, d)' <=> Restores(h, m, d)
  BY <1>1, <1>4, <1>8, HookAdded DEF Consistent
<1>10. \A m, d : ~Removed(m, d)'
  BY <1>8, <1>9 DEF Restores
<1>11. \A d : Queued(q, d) <=> Queued(owners[n], d) \/ d = c
  BY <1>2, <1>3, QueuedAppend, QueuedSecondIn
<1>12. Once(owned[c]) /\ ~Lists(owned[c], n)
  BY <1>2, <1>4, <1>5 DEF Consistent, OwnInv
<1>13. Once(s) /\ \A m : Lists(s, m) <=> Lists(owned[c], m) \/ m = n
  BY <1>2, <1>3, <1>12, ListsAppend
<1>14. owners' = [owners EXCEPT ![n] = q] /\ owned' = [owned EXCEPT ![c] = s]
  BY DEF LinkNewOwner
<1> HIDE DEF n, c, q, s, o, h
<1>15. OwnInv'
  BY <1>1, <1>2, <1>4, <1>6, <1>10, <1>11, <1>13, <1>14, OwnChanged DEF Consistent
<1> QED BY <1>7, <1>9, <1>15 DEF Consistent

LEMMA RelinkConsistent ==
  ASSUME TypeOK, Distinct, Consistent, RelinkOwner \/ SetOwnerFlags
  PROVE  Consistent'
<1> DEFINE n == Top.name
           f == Top.call
<1>1. /\ Calling(f) /\ f \in {"link_owner", "set_flags"} /\ Return
      /\ UNCHANGED <<link, phase, owned, hooks>>
  BY DEF RelinkOwner, SetOwnerFlags, unseen, Calling
<1>2. Top \in Call /\ n \in AnyName /\ Top.flags \in AllFlags
  BY <1>1, NextCall, CallFields
<1>3. owners[n] \in Seq(Owner) /\ NoTwice(owners[n])
  BY <1>2, QueueType DEF Distinct
<1>4. TodoInv' /\ (Steady(todo) => Steady(todo)')
  BY <1>1, TodoTail DEF Consistent
<1>5. phase' \notin {"idle", "round"}
  BY <1>1 DEF Calling
<1>6. HookInv' /\ \A m, d : Removed(m, d)' <=> Removed(m, d)
  BY <1>1, <1>4, <1>5, HooksKept DEF Consistent
<1>7. \E q : /\ owners' = [owners EXCEPT ![n] = q]
             /\ \A d : Queued(q, d) <=> Queued(owners[n], d)
  <2>1. CASE RelinkOwner
    <3> DEFINE c == Top.conn
               o == OwnerOf(c, Top.flags)
               p == Place(owners[n], c)
               r == Without(owners[n], c)
    <3>1. c \in Conn
      BY <1>2, <2>1, CallFields DEF RelinkOwner, Calling
    <3>2. o \in Owner /\ o.conn = c
      BY <1>2, <3>1, OwnerOfType
    <3>3. Queued(owners[n], c)
      BY <2>1 DEF RelinkOwner
    <3>4. p \in 1..Len(owners[n]) /\ owners[n][p].conn = c
      BY <1>3, <3>3, LenProperties DEF Queued, Place
    <3>5. r \in Seq(Owner) /\ \A d : Queued(r, d) <=> Queued(owners[n], d) /\ d # c
      BY <1>3, WithoutProperties, QueuedWithout
    <3>6. owners' = [owners EXCEPT ![n] = IF Top.flags.replace THEN SecondIn(r, o)
                                          ELSE [owners[n] EXCEPT ![p] = o]]
      BY <2>1 DEF RelinkOwner
    <3> HIDE DEF r, p, o, c
    <3>7. \A d : Queued(SecondIn(r, o), d) <=> Queued(r, d) \/ d = c
      BY <3>2, <3>5, QueuedSecondIn
    <3>8. \A d : Queued(SecondIn(r, o), d) <=> Queued(owners[n], d)
      BY <3>3, <3>5, <3>7
    <3>9. \A d : Queued([owners[n] EXCEPT ![p] = o], d) <=> Queued(owners[n], d)
      BY <1>3, <3>2, <3>4, QueuedReplaced
    <3> QED BY <3>6, <3>8, <3>9
  <2>2. CASE SetOwnerFlags
    <3> DEFINE o == OwnerOf(Primary(n), Top.flags)
    <3>1. 1 \in 1..Len(owners[n]) => o.conn = owners[n][1].conn
      <4>1. ASSUME 1 \in 1..Len(owners[n])
            PROVE  owners[n] # <<>>
        BY <4>1
      <4> QED BY <4>1, <1>2, FirstOwner DEF OwnerOf
    <3>2. owners' = [owners EXCEPT ![n] = [owners[n] EXCEPT ![1] = o]]
      BY <2>2 DEF SetOwnerFlags
    <3> HIDE DEF o
    <3>3. \A d : Queued([owners[n] EXCEPT ![1] = o], d) <=> Queued(owners[n], d)
      BY <1>3, <3>1, QueuedReplaced
    <3> QED BY <3>2, <3>3
  <2> QED BY <2>1, <2>2
<1>8. \A m \in AnyName, d \in Conn : Queued(owners[m], d)' <=> Queued(owners[m], d)
  BY <1>2, <1>7, QueueReordered
<1>9. OwnInv'
  BY <1>1, <1>6, <1>8, OwnKept DEF Consistent
<1> QED BY <1>4, <1>6, <1>9 DEF Consistent

LEMMA RemoveWaitingConsistent ==
  ASSUME TypeOK, Distinct, Consistent, RemoveWaiting
  PROVE  Consistent'
<1> DEFINE n == Top.name
           c == Top.conn
           q == Without(owners[n], c)
           s == Disowned(owned[c], n)
<1>1. /\ Calling("remove_owner") /\ Return
      /\ UNCHANGED <<link, phase, hooks>>
  BY DEF RemoveWaiting, unseen
<1>2. n \in AnyName /\ c \in Conn
  BY <1>1, NextCall, CallFields
<1>3. owners[n] \in Seq(Owner) /\ NoTwice(owners[n]) /\ owned[c] \in Seq(AnyName)
  BY <1>2, QueueType DEF Distinct
<1>4. \A m, d : ~Removed(m, d)
  BY <1>1, NoneRemoved DEF Removal
<1>5. TodoInv' /\ (Steady(todo) => Steady(todo)')
  BY <1>1, TodoTail DEF Consistent
<1>6. phase' \notin {"idle", "round"}
  BY <1>1 DEF Calling
<1>7. HookInv' /\ \A m, d : Removed(m, d)' <=> Removed(m, d)
  BY <1>1, <1>5, <1>6, HooksKept DEF Consistent
<1>8. \A d : Queued(q, d) <=> Queued(owners[n], d) /\ d # c
  BY <1>3, QueuedWithout
<1>9. Once(owned[c]) /\ (link[c] = "gone" => owned[c] = <<>>)
  BY <1>2 DEF Consistent, OwnInv
<1>10. /\ Once(s) /\ \A m : Lists(s, m) <=> Lists(owned[c], m) /\ m # n
       /\ ~Lists(owned[c], n) => s = owned[c]
  BY <1>3, <1>9, DisownedProperties
<1>11. link[c] = "gone" => s = <<>>
  BY <1>9, <1>10 DEF Lists
<1>12. owners' = [owners EXCEPT ![n] = q] /\ owned' = [owned EXCEPT ![c] = s]
  BY DEF RemoveWaiting
<1> HIDE DEF n, c, q, s
<1>13. OwnInv'
  BY <1>1, <1>2, <1>4, <1>7, <1>8, <1>10, <1>11, <1>12, OwnChanged DEF Consistent
<1> QED BY <1>5, <1>7, <1>13 DEF Consistent

LEMMA UnlinkConsistent ==
  ASSUME TypeOK, Distinct, Consistent, UnlinkPrimary
  PROVE  Consistent'
<1> DEFINE n == Top.name
           o == Top.owner
           c == o.conn
           q == Without(owners[n], c)
           h == RestoreOwnership(n, o, 1)
<1>1. /\ Calling("unlink_owner") /\ Return
      /\ UNCHANGED <<link, phase, owned>> /\ phase' = "run"
  BY DEF UnlinkPrimary, unseen, Calling
<1>2. n \in AnyName /\ o \in Owner /\ c \in Conn
  BY <1>1, NextCall, CallFields DEF Owner
<1>3. owners[n] \in Seq(Owner) /\ NoTwice(owners[n])
  BY <1>2, QueueType DEF Distinct
<1>4. ~Restoring /\ \A m, d : ~Removed(m, d)
  BY <1>1, NoneRemoved DEF Removal
<1>5. TodoInv' /\ Steady(todo)'
  BY <1>1, TodoTail DEF Consistent, Removal
<1>6. Queued(owners[n], c)
  <2>1. todo \in Seq(Call) /\ todo # <<>> /\ todo[1] = Top /\ Top.call = "unlink_owner"
    BY <1>1 DEF Calling, Top, TypeOK
  <2>2. Len(todo) \in Nat /\ Len(todo) # 0
    BY <2>1, LenProperties, EmptySeq
  <2>3. 1 \in 1..Len(todo)
    BY <2>2
  <2> QED BY <2>1, <2>3 DEF Consistent, TodoInv, Unlinks
<1>7. h \in Hook /\ hooks' = <<h>> \o hooks
  BY <1>2, HookIntro DEF UnlinkPrimary
<1>8. HookInv' /\ \A m, d : Removed(m, d)' <=> Restores(h, m, d)
  BY <1>1, <1>4, <1>5, <1>7, HookAdded DEF Consistent
<1>9. \A m, d : Removed(m, d)' <=> m = n /\ d = c
  BY <1>8 DEF Restores, RestoreOwnership
<1>10. \A d : Queued(q, d) <=> Queued(owners[n], d) /\ d # c
  BY <1>3, QueuedWithout
<1>11. /\ Once(owned[c]) /\ Lists(owned[c], n)
       /\ link[c] = "gone" => owned[c] = <<>>
  BY <1>2, <1>6 DEF Consistent, OwnInv
<1>12. owners' = [owners EXCEPT ![n] = q] /\ owned' = [owned EXCEPT ![c] = owned[c]]
  <2>1. owners' = [owners EXCEPT ![n] = q]
    BY DEF UnlinkPrimary
  <2> QED BY <1>1, <2>1 DEF TypeOK
<1> HIDE DEF n, c, o, q, h
<1>13. OwnInv'
  BY <1>1, <1>2, <1>4, <1>9, <1>10, <1>11, <1>12, OwnChanged DEF Consistent
<1> QED BY <1>5, <1>8, <1>13 DEF Consistent

LEMMA SwapConsistent ==
  ASSUME TypeOK, Distinct, Consistent, SwapFirstTwo
  PROVE  Consistent'
<1> DEFINE n == Top.name
           o == Top.owner
           h == RestoreOwnership(n, o, 2)
<1>1. /\ Calling("swap_links") /\ Return
      /\ UNCHANGED <<link, phase, owned>> /\ phase' = "run"
  BY DEF SwapFirstTwo, unseen, Calling
<1>2. n \in AnyName /\ o \in Owner
  BY <1>1, NextCall, CallFields
<1>3. owners[n] \in Seq(Owner)
  BY <1>2, QueueType
<1>4. ~Restoring /\ \A m, d : ~Removed(m, d)
  BY <1>1, NoneRemoved DEF Removal
<1>5. TodoInv' /\ Steady(todo)'
  BY <1>1, TodoTail DEF Consistent, Removal
<1>6. h \in Hook /\ h.at = 2 /\ hooks' = <<h>> \o hooks
  BY <1>2, HookIntro DEF SwapFirstTwo, RestoreOwnership
<1>7. HookInv' /\ \A m, d : Removed(m, d)' <=> Restores(h, m, d)
  BY <1>1, <1>4, <1>5, <1>6, HookAdded DEF Consistent
<1>8. \A m, d : Removed(m, d)' <=> Removed(m, d)
  BY <1>4, <1>6, <1>7 DEF Restores
<1>9. owners' = [owners EXCEPT ![n] = Swapped(owners[n])]
  BY DEF SwapFirstTwo
<1>10. \A m \in AnyName, d \in Conn : Queued(owners[m], d)' <=> Queued(owners[m], d)
  BY <1>2, <1>3, <1>9, QueuedSwapped, QueueReordered
<1>11. OwnInv'
  BY <1>1, <1>8, <1>10, OwnKept DEF Consistent
<1> QED BY <1>5, <1>7, <1>11 DEF Consistent

(* The primary owner goes or makes way: signals, then the queue. *)
LEMMA SuccessionConsistent ==
  ASSUME TypeOK, Consistent, RemovePrimary \/ SwapPrimary
  PROVE  Consistent'
<1> DEFINE n == Top.name
           c == Top.conn
           o == owners[n][1]
           l == <<Send(Lost(c, n))>>
           s == Succession(n, c)
           x == IF RemovePrimary THEN UnlinkOwner(n, o) ELSE SwapLinks(n, o)
           t == Tail(todo)
           f == Top.call
<1>1. /\ Calling(f) /\ f \in {"remove_owner", "swap_owner"} /\ Primary(n) = c
      /\ UNCHANGED <<link, owners, owned, hooks, phase>>
  BY DEF RemovePrimary, SwapPrimary, unseen, Calling
<1>2. n \in AnyName /\ c \in Conn /\ t \in Seq(Call)
  BY <1>1, NextCall, CallFields
<1>3. owners[n] # <<>>
  BY <1>1, <1>2, ConnAssumption DEF Primary
<1>4. o \in Owner /\ 1 \in DOMAIN owners[n] /\ o.conn = c
  BY <1>1, <1>2, <1>3, FirstOwner
<1>5. Queued(owners[n], c)
  BY <1>4 DEF Queued
<1>6. todo' = (l \o s \o <<x>>) \o t
  <2>1. CASE RemovePrimary
    BY <2>1 DEF RemovePrimary, Make
  <2>2. CASE ~RemovePrimary
    BY <2>2 DEF SwapPrimary, Make
  <2> QED BY <2>1, <2>2
<1>7. /\ x \in Call
      /\ x.call \in {"unlink_owner", "swap_links"}
      /\ x.call = "unlink_owner" => Queued(owners[x.name], x.owner.conn)
  <2>1. UnlinkOwner(n, o) \in Call /\ SwapLinks(n, o) \in Call
    BY <1>2, <1>4, CallIntro
  <2>2. /\ UnlinkOwner(n, o).call = "unlink_owner" /\ UnlinkOwner(n, o).name = n
        /\ UnlinkOwner(n, o).owner = o /\ SwapLinks(n, o).call = "swap_links"
    BY DEF UnlinkOwner, SwapLinks
  <2> QED BY <1>4, <1>5, <2>1, <2>2
<1>8. l \in Seq(Call) /\ s \in Seq(Call) /\ l \o s \in Seq(Call)
  BY <1>2, <1>3, CallIntro, MessageIntro, CallSequences, SuccessionCalls
<1>9. \A i \in 1..Len(l \o s) : (l \o s)[i].call = "send"
  <2>1. \A i \in 1..Len(l) : l[i].call = "send"
    BY DEF Send
  <2>2. \A i \in 1..Len(s) : s[i].call = "send"
    <3> DEFINE u == Send(Changed(n, c, Heir(n)))
               v == Send(Acquired(Heir(n), n))
               a == <<u>>
               b == (IF Heir(n) = NoOne THEN <<>> ELSE <<v>>)
    <3>1. u.call = "send" /\ v.call = "send"
      BY DEF Send
    <3>3. s = a \o b
      BY DEF Succession
    <3> HIDE DEF u, v
    <3>4. <<>> \in Seq({u, v}) /\ <<u>> \in Seq({u, v}) /\ <<v>> \in Seq({u, v})
      OBVIOUS
    <3>5. a \in Seq({u, v}) /\ b \in Seq({u, v})
      BY <3>4
    <3>2. (\A i \in 1..Len(a) : a[i].call = "send") /\ (\A i \in 1..Len(b) : b[i].call = "send")
      BY <3>1
    <3> HIDE DEF a, b
    <3>6. \A i \in 1..Len(a \o b) :
            \/ i \in 1..Len(a) /\ (a \o b)[i] = a[i]
            \/ i - Len(a) \in 1..Len(b) /\ (a \o b)[i] = b[i - Len(a)]
      BY <3>5, ConcatElements
    <3> QED BY <3>2, <3>3, <3>6
  <2> HIDE DEF l, s
  <2>3. \A i \in 1..Len(l \o s) :
          \/ i \in 1..Len(l) /\ (l \o s)[i] = l[i]
          \/ i - Len(l) \in 1..Len(s) /\ (l \o s)[i] = s[i - Len(l)]
    BY <1>8, ConcatElements
  <2> QED BY <2>1, <2>2, <2>3
<1>10. Steady(t)
  <2>1. todo \in Seq(Call) /\ todo # <<>> /\ todo[1] = Top
    BY <1>1 DEF Calling, Top, TypeOK
  <2>2. /\ Len(todo) \in Nat /\ Len(t) = Len(todo) - 1
        /\ \A i \in 1..Len(t) : t[i] = todo[i + 1]
    BY <2>1, LenProperties, HeadTailProperties
  <2> HIDE DEF t
  <2>3. \A i \in 1..Len(t) : 1 \in 1..Len(todo) /\ i + 1 \in 1..Len(todo) /\ 1 < i + 1
    BY <2>2
  <2>4. todo[1].call \in Removal
    BY <1>1, <2>1 DEF Removal
  <2> QED BY <2>2, <2>3, <2>4 DEF Steady, Consistent, TodoInv, Ordered
<1>11. \A m, d : ~Removed(m, d) /\ ~Restoring
  BY <1>1, NoneRemoved DEF Removal
<1> DEFINE a == l \o s
<1>12. a \in Seq(Call) /\ \A i \in 1..Len(a) : a[i].call = "send"
  BY <1>8, <1>9
<1>13. todo' = a \o <<x>> \o t
  BY <1>6
<1> HIDE DEF a, x, t
<1>14. Ordered(todo') /\ LinksLive(todo') /\ Unlinks(todo')
  BY <1>2, <1>7, <1>10, <1>12, <1>13, SignalsThenUnlink
<1>15. phase = "run" /\ phase' = "run"
  BY <1>1 DEF Calling
<1>16. TodoInv'
  BY <1>1, <1>14, <1>15 DEF TodoInv, Ordered, LinksLive, Unlinks
<1>17. HookInv' /\ \A m, d : Removed(m, d)' <=> Removed(m, d)
  <2>1. ~Steady(todo)
    <3>1. todo \in Seq(Call) /\ todo # <<>> /\ todo[1] = Top
      BY <1>1 DEF Calling, Top, TypeOK
    <3>2. Len(todo) \in Nat /\ Len(todo) # 0
      BY <3>1, LenProperties, EmptySeq
    <3>3. 1 \in 1..Len(todo)
      BY <3>2
    <3> QED BY <1>1, <3>1, <3>3 DEF Steady, Removal
  <2> QED BY <1>1, <1>15, <2>1, HooksKept DEF Consistent
<1>18. OwnInv'
  BY <1>1, <1>17, OwnKept, QueuesKept DEF Consistent
<1> QED BY <1>16, <1>17, <1>18 DEF Consistent

(* The held messages of an activation are dispatched one by one. *)
LEMMA SendHeldConsistent ==
  ASSUME TypeOK, Consistent, SendHeldMessages
  PROVE  Consistent'
<1> DEFINE n == Top.name
           a == IF pending[n] = <<>> THEN <<>> ELSE Held(n) \o <<Forget(n)>>
           t == Tail(todo)
<1>1. /\ Calling("send_held") /\ todo' = a \o t
      /\ UNCHANGED <<link, owners, owned, hooks, phase>>
  BY DEF SendHeldMessages, Make, registered
<1>2. n \in Name /\ t \in Seq(Call)
  BY <1>1, NextCall, CallFields
<1>3. a \in Seq(Call) /\ Steady(a)
  <2>1. Forget(n) \in Call /\ Forget(n).call \notin Removal \cup {"link_owner"}
    BY <1>2, CallIntro DEF Forget, Removal
  <2>2. <<Forget(n)>> \in Seq(Call) /\ Steady(<<Forget(n)>>)
    BY <2>1, CallSequences, OneCall
  <2>3. Held(n) \in Seq(Call) /\ Steady(Held(n))
    BY <1>2, CallsForEntries, EntriesSteady
  <2>4. Held(n) \o <<Forget(n)>> \in Seq(Call) /\ Steady(Held(n) \o <<Forget(n)>>)
    BY <2>2, <2>3, CallSequences, Joined
  <2> QED BY <2>4, OneCall, CallSequences
<1>4. todo \in Seq(Call) /\ todo # <<>> /\ todo[1] = Top
  BY <1>1 DEF Calling, Top, TypeOK
<1>5. /\ Len(todo) \in Nat /\ Len(t) = Len(todo) - 1
      /\ \A i \in 1..Len(t) : t[i] = todo[i + 1]
  BY <1>4, LenProperties, HeadTailProperties
<1> HIDE DEF t, a
<1>6. \A i \in 1..Len(t) : 1 \in 1..Len(todo) /\ i + 1 \in 1..Len(todo) /\ 1 < i + 1
  BY <1>5
<1>7. \A i, j \in 1..Len(t) : i < j => i + 1 < j + 1
  BY <1>5
<1>8. Top.call = "send_held"
  BY <1>1 DEF Calling
<1>9. Ordered(t) /\ LinksLive(t)
  BY <1>5, <1>6, <1>7 DEF Ordered, LinksLive, Consistent, TodoInv
<1>10. NoUnlink(t)
  BY <1>4, <1>5, <1>6, <1>8 DEF NoUnlink, Unlinks, Consistent, TodoInv
<1>11. Fresh(a \o t)
  BY <1>2, <1>3, <1>9, <1>10, SteadyIsFresh, Joined DEF Fresh
<1>12. phase = "run" /\ phase' = "run"
  BY <1>1 DEF Calling
<1>13. TodoInv'
  BY <1>1, <1>11, <1>12 DEF TodoInv, Fresh, Ordered, LinksLive, NoUnlink, Unlinks
<1>14. Steady(todo) => Steady(todo)'
  <2>1. Steady(todo) => Steady(t)
    BY <1>5, <1>6 DEF Steady
  <2>2. Steady(todo) => Steady(a \o t)
    BY <1>2, <1>3, <2>1, Joined
  <2> QED BY <1>1, <2>2 DEF Steady
<1> QED BY <1>1, <1>12, <1>13, <1>14, MakeConsistent

-----------------------------------------------------------------------------
(* Cancelling and executing.                                               *)

LEMMA UndoAddConsistent ==
  ASSUME TypeOK, Distinct, Consistent, UndoAddOwner
  PROVE  Consistent'
<1> DEFINE h == Head(hooks)
           n == h.name
           c == h.conn
           q == Without(owners[n], c)
           s == Disowned(owned[c], n)
<1>1. /\ hooks # <<>> /\ h.hook = "cancel_ownership" /\ hooks' = Tail(hooks) /\ phase = "cancel"
      /\ UNCHANGED <<link, phase, todo>>
  BY DEF UndoAddOwner, Cancelling
<1>2. h \in Hook
  BY <1>1, HeadTailProperties DEF TypeOK
<1>3. n \in AnyName /\ c \in Conn
  BY <1>1, <1>2, HookFields
<1>4. owners[n] \in Seq(Owner) /\ NoTwice(owners[n]) /\ owned[c] \in Seq(AnyName)
  BY <1>3, QueueType DEF Distinct
<1>5. /\ HookInv'
      /\ \A m, d : Removed(m, d) <=> Restores(h, m, d) \/ Removed(m, d)'
      /\ \A m, d : ~Removed(m, d)'
  BY <1>1, HookGone DEF Consistent
<1>6. \A m, d : ~Removed(m, d)
  BY <1>1, <1>5 DEF Restores
<1>7. TodoInv'
  BY <1>1, NothingToDo DEF Consistent, TodoInv, Ordered, LinksLive, Unlinks
<1>8. \A d : Queued(q, d) <=> Queued(owners[n], d) /\ d # c
  BY <1>4, QueuedWithout
<1>9. Once(owned[c]) /\ (link[c] = "gone" => owned[c] = <<>>)
  BY <1>3 DEF Consistent, OwnInv
<1>10. /\ Once(s) /\ \A m : Lists(s, m) <=> Lists(owned[c], m) /\ m # n
       /\ ~Lists(owned[c], n) => s = owned[c]
  BY <1>4, <1>9, DisownedProperties
<1>11. link[c] = "gone" => s = <<>>
  BY <1>9, <1>10 DEF Lists
<1>12. owners' = [owners EXCEPT ![n] = q] /\ owned' = [owned EXCEPT ![c] = s]
  BY DEF UndoAddOwner
<1> HIDE DEF n, c, q, s
<1>13. OwnInv'
  BY <1>1, <1>3, <1>5, <1>6, <1>8, <1>10, <1>11, <1>12, OwnChanged DEF Consistent
<1> QED BY <1>5, <1>7, <1>13 DEF Consistent

(* cancel_pending and restore_pending. *)
LEMMA UndoPendingConsistent ==
  ASSUME TypeOK, Consistent, UndoActivate \/ UndoForget
  PROVE  Consistent'
<1> DEFINE h == Head(hooks)
<1>1. /\ hooks # <<>> /\ h.hook \in {"cancel_pending", "restore_pending"} /\ hooks' = Tail(hooks)
      /\ phase = "cancel" /\ UNCHANGED <<link, phase, todo, owners, owned>>
  BY DEF UndoActivate, UndoForget, Cancelling, registered
<1>2. /\ HookInv'
      /\ \A m, d : Removed(m, d) <=> Restores(h, m, d) \/ Removed(m, d)'
  BY <1>1, HookGone DEF Consistent
<1>3. \A m, d : Removed(m, d)' <=> Removed(m, d)
  BY <1>1, <1>2 DEF Restores
<1>4. TodoInv'
  BY <1>1, NothingToDo DEF Consistent, TodoInv, Ordered, LinksLive, Unlinks
<1>5. OwnInv'
  BY <1>1, <1>3, OwnKept, QueuesKept DEF Consistent
<1> QED BY <1>2, <1>4, <1>5 DEF Consistent

(* The last reference to a removed owner is dropped with its hook. *)
LEMMA FreeHookConsistent ==
  ASSUME TypeOK, Consistent, FreeHook
  PROVE  Consistent'
<1> DEFINE h == Head(hooks)
<1>1. /\ hooks # <<>> /\ hooks' = Tail(hooks) /\ todo = <<>>
      /\ UNCHANGED <<link, phase, todo, owners>>
      /\ owned' = IF h.hook = "restore_ownership" /\ h.at = 1
                    THEN [owned EXCEPT ![h.owner.conn] = Disowned(@, h.name)] ELSE owned
  BY DEF FreeHook, Executing
<1>2. h \in Hook
  BY <1>1, HeadTailProperties DEF TypeOK
<1>3. /\ HookInv'
      /\ \A m, d : Removed(m, d) <=> Restores(h, m, d) \/ Removed(m, d)'
      /\ h.hook = "restore_ownership" => \A m, d : ~Removed(m, d)'
  BY <1>1, HookGone DEF Consistent
<1>4. TodoInv'
  BY <1>1, NothingToDo DEF Consistent, TodoInv, Ordered, LinksLive, Unlinks
<1>5. CASE h.hook = "restore_ownership" /\ h.at = 1
  <2> DEFINE n == h.name
             c == h.owner.conn
             s == Disowned(owned[c], n)
  <2>1. n \in AnyName /\ c \in Conn
    BY <1>2, <1>5, HookFields DEF Owner
  <2>2. owned[c] \in Seq(AnyName)
    BY <2>1, QueueType
  <2>3. Removed(n, c) /\ \A m, d : (m # n \/ d # c) => ~Removed(m, d)
    BY <1>3, <1>5 DEF Restores
  <2>4. Once(owned[c]) /\ (link[c] = "gone" => owned[c] = <<>>) /\ ~Queued(owners[n], c)
    BY <2>1, <2>3 DEF Consistent, OwnInv
  <2>5. /\ Once(s) /\ \A m : Lists(s, m) <=> Lists(owned[c], m) /\ m # n
        /\ ~Lists(owned[c], n) => s = owned[c]
    BY <2>2, <2>4, DisownedProperties
  <2>6. link[c] = "gone" => s = <<>>
    BY <2>4, <2>5 DEF Lists
  <2>7. owners' = [owners EXCEPT ![n] = owners[n]] /\ owned' = [owned EXCEPT ![c] = s]
    BY <1>1, <1>5 DEF TypeOK
  <2>8. \A m, d : ~Removed(m, d)'
    BY <1>3, <1>5
  <2> HIDE DEF n, c, s
  <2>9. OwnInv'
    BY <1>1, <2>1, <2>3, <2>4, <2>5, <2>6, <2>7, <2>8, OwnChanged DEF Consistent
  <2> QED BY <1>3, <1>4, <2>9 DEF Consistent
<1>6. CASE ~(h.hook = "restore_ownership" /\ h.at = 1)
  <2>1. \A m, d : Removed(m, d)' <=> Removed(m, d)
    BY <1>3, <1>6 DEF Restores
  <2>2. OwnInv'
    BY <1>1, <1>6, <2>1, OwnKept, QueuesKept DEF Consistent
  <2> QED BY <1>3, <1>4, <2>2 DEF Consistent
<1> QED BY <1>5, <1>6

-----------------------------------------------------------------------------
(* Every step.                                                             *)

LEMMA OutsideConsistent ==
  ASSUME TypeOK, Consistent, Outside
  PROVE  Consistent'
<1> USE DEF Idle
<1>1. phase = "idle" => todo = <<>> /\ hooks = <<>>
  BY DEF Consistent, TodoInv, HookInv
<1>2. ASSUME NEW c \in Conn, Hello(c)
      PROVE  Consistent'
  <2> DEFINE f == [allow |-> FALSE, noqueue |-> FALSE, replace |-> FALSE]
             s == <<Complete(c), Send(Reply(c, c, "welcome"))>> \o Ensure(c, c, f)
  <2>1. f \in AllFlags /\ c \in AnyName /\ link[c] # "gone" /\ phase \in {"idle", "round"}
    BY <1>2 DEF AllFlags, AnyName, Hello, Speaks
  <2>2. Complete(c) \in Call /\ Send(Reply(c, c, "welcome")) \in Call
    BY <2>1, CallIntro, MessageIntro DEF Result
  <2>3. s \in Seq(Call)
    BY <2>1, <2>2, NewOwnerCalls, CallSequences
  <2>4. Fresh(s)
    BY <2>1, RequestsFresh
  <2>5. Begin("request", c, {}, s) /\ UNCHANGED <<link, owners, owned>>
    BY <1>2 DEF Hello, busVars
  <2> HIDE DEF s
  <2> QED BY <2>1, <2>3, <2>4, <2>5, BeginConsistent
<1>3. ASSUME NEW c \in Conn, HangUp(c)
      PROVE  Consistent'
  <2>1. todo' = <<>> /\ UNCHANGED <<owners, owned, hooks, phase>>
    BY <1>1, <1>3 DEF HangUp, Executing, txnVars
  <2>2. phase' \in {"idle", "round"} => hooks = <<>>
    BY <2>1 DEF Consistent, HookInv
  <2>3. \A d \in Conn : link'[d] = "gone" => link[d] = "gone" \/ owned[d] = <<>>
    BY <1>3 DEF HangUp, TypeOK
  <2> QED BY <2>1, <2>2, <2>3, QuietStep
<1>4. ASSUME NEW c \in Conn, NEW n \in Name, NEW f \in Flags, RequestName(c, n, f)
      PROVE  Consistent'
  <2>1. f \in AllFlags /\ link[c] # "gone" /\ phase \in {"idle", "round"}
    BY <1>4, ConfigAssumption DEF RequestName, Speaks
  <2>2. AcquireService(c, n, f) \in Seq(Call) /\ Fresh(AcquireService(c, n, f))
    BY <2>1, RequestCalls, RequestsFresh
  <2>3. UNCHANGED <<link, owners, owned>>
    BY <1>4 DEF RequestName, busVars
  <2> QED BY <1>4, <2>1, <2>2, <2>3, BeginConsistent DEF RequestName
<1>5. ASSUME NEW c \in Conn, NEW n \in Name, ReleaseName(c, n)
      PROVE  Consistent'
  <2>1. link[c] # "gone" /\ phase \in {"idle", "round"}
    BY <1>5 DEF ReleaseName, Speaks
  <2>2. ReleaseService(c, n) \in Seq(Call) /\ Fresh(ReleaseService(c, n))
    BY <2>1, RequestCalls, RequestsFresh
  <2>3. UNCHANGED <<link, owners, owned>>
    BY <1>5 DEF ReleaseName, busVars
  <2> QED BY <1>5, <2>1, <2>2, <2>3, BeginConsistent DEF ReleaseName
<1>6. ASSUME NEW c \in Conn, NEW n \in Name, NEW a \in BOOLEAN, Activate(c, n, a)
      PROVE  Consistent'
  <2>1. link[c] # "gone" /\ phase \in {"idle", "round"}
    BY <1>6 DEF Activate, Speaks
  <2>2. ActivateService(c, n, a) \in Seq(Call) /\ Fresh(ActivateService(c, n, a))
    BY <2>1, RequestCalls, RequestsFresh
  <2>3. UNCHANGED <<link, owners, owned>>
    BY <1>6 DEF Activate, busVars
  <2> QED BY <1>6, <2>1, <2>2, <2>3, BeginConsistent DEF Activate
<1>7. ASSUME NEW n \in Name, ChildFails(n) \/ ChildExits(n)
      PROVE  Consistent'
  <2>1. todo' = <<>> /\ hooks = <<>> /\ UNCHANGED <<link, owners, owned, hooks>>
    BY <1>1, <1>7 DEF ChildFails, ChildExits, Fail, busVars, txnVars, registered
  <2> QED BY <2>1, QuietStep
<1> QED BY <1>2, <1>3, <1>4, <1>5, <1>6, <1>7 DEF Outside

LEMMA RegistryConsistent ==
  ASSUME TypeOK, Distinct, Consistent, RegistryCall
  PROVE  Consistent'
<1>1. CASE NotifyStarted
  <2>1. Calling("notify") /\ Return /\ UNCHANGED <<link, owners, owned, hooks, phase>>
    BY <1>1 DEF NotifyStarted, unseen
  <2> QED BY <2>1, PlainReturn
<1>2. CASE CompleteConnection
  <2>1. Calling("complete") /\ Return /\ UNCHANGED <<link, owners, owned, hooks, phase>>
    BY <1>2 DEF CompleteConnection, unseen
  <2> QED BY <2>1, PlainReturn
<1> QED BY <1>1, <1>2, LinkNewOwnerConsistent, RelinkConsistent, RemoveWaitingConsistent,
           UnlinkConsistent, SwapConsistent, SuccessionConsistent DEF RegistryCall

LEMMA ActivationConsistent ==
  ASSUME TypeOK, Consistent, ActivationCall
  PROVE  Consistent'
<1> USE DEF registered
<1>1. CASE RegisterEntry
  <2> DEFINE h == CancelPending(Top.name)
  <2>1. Calling("register") /\ Return /\ UNCHANGED <<link, owners, owned, phase>>
    BY <1>1 DEF RegisterEntry
  <2>2. Top.name \in Name
    BY <2>1, NextCall, CallFields
  <2>3. h \in Hook /\ h.hook = "cancel_pending" /\ hooks' = <<h>> \o hooks
    BY <1>1, <2>2, HookIntro DEF RegisterEntry, CancelPending
  <2> HIDE DEF h
  <2> QED BY <2>1, <2>3, HookedReturn
<1>2. CASE SpawnProgram
  <2>1. Calling("spawn") /\ Return /\ UNCHANGED <<link, owners, owned, hooks, phase>>
    BY <1>2 DEF SpawnProgram
  <2> QED BY <2>1, PlainReturn
<1>3. CASE SpawnParseError \/ SpawnForkError \/ RejectHeld
  <2>1. /\ Raise /\ UNCHANGED <<link, owners, owned, hooks, phase>> /\ phase = "run"
    BY <1>3 DEF SpawnParseError, SpawnForkError, RejectHeld, Calling
  <2> QED BY <2>1, RaiseConsistent
<1>4. CASE DispatchHeld
  <2>1. Calling("dispatch") /\ Return /\ UNCHANGED <<link, owners, owned, hooks, phase>>
    BY <1>4 DEF DispatchHeld
  <2> QED BY <2>1, PlainReturn
<1>5. CASE ForgetPending
  <2> DEFINE h == RestorePending(Top.name, pending[Top.name], Top.name \in child)
  <2>1. Calling("forget") /\ Return /\ UNCHANGED <<link, owners, owned, phase>>
    BY <1>5 DEF ForgetPending
  <2>2. Top.name \in Name
    BY <2>1, NextCall, CallFields
  <2>3. pending[Top.name] \in Seq(Entry) /\ (Top.name \in child) \in BOOLEAN
    BY <2>2 DEF TypeOK
  <2>4. h \in Hook /\ h.hook = "restore_pending" /\ hooks' = <<h>> \o hooks
    BY <1>5, <2>2, <2>3, HookIntro DEF ForgetPending, RestorePending
  <2> HIDE DEF h
  <2> QED BY <2>1, <2>4, HookedReturn
<1>6. CASE DropPending
  <2>1. Calling("drop") /\ Return /\ UNCHANGED <<link, owners, owned, hooks, phase>>
    BY <1>6 DEF DropPending
  <2> QED BY <2>1, PlainReturn
<1> QED BY <1>1, <1>2, <1>3, <1>4, <1>5, <1>6, SendHeldConsistent DEF ActivationCall

(* The end of a transaction, the handlers that loop and the events that
   begin them. *)
LEMMA RestConsistent ==
  ASSUME TypeOK, Consistent
  PROVE  /\ SendMessage \/ DeliverMessage => Consistent'
         /\ EndExecute \/ EndCancel \/ OutOfMemory => Consistent'
         /\ DropLastName \/ ForgetClient \/ FailNext \/ FailedAll => Consistent'
         /\ \A c \in Conn : Disconnected(c) => Consistent'
         /\ \A n \in Name : TimeOut(n) => Consistent'
<1>1. phase \in {"idle", "round"} => todo = <<>> /\ hooks = <<>>
  BY DEF Consistent, TodoInv, HookInv
<1>2. phase # "run" => todo = <<>>
  BY DEF Consistent, TodoInv
<1>3. ASSUME SendMessage
      PROVE  Consistent'
  <2>1. Calling("send") /\ Return /\ UNCHANGED <<link, owners, owned, hooks, phase>>
    BY <1>3 DEF SendMessage, busVars
  <2> QED BY <2>1, PlainReturn
<1>4. ASSUME DeliverMessage
      PROVE  Consistent'
  <2>1. todo' = <<>> /\ phase' = "run" /\ UNCHANGED <<link, owners, owned, hooks>>
    BY <1>4 DEF DeliverMessage, Executing, busVars
  <2> QED BY <2>1, QuietStep
<1>5. ASSUME EndExecute \/ EndCancel
      PROVE  Consistent'
  <2>1. todo' = <<>> /\ hooks = <<>> /\ UNCHANGED <<link, owners, owned, hooks>>
    BY <1>2, <1>5 DEF EndExecute, EndCancel, Executing, Close, busVars
  <2> QED BY <2>1, QuietStep
<1>6. ASSUME OutOfMemory
      PROVE  Consistent'
  <2>1. todo' = <<>> /\ phase' \in {"run", "cancel"} /\ UNCHANGED <<link, owners, owned, hooks>>
    BY <1>6 DEF OutOfMemory, MayFail
  <2> QED BY <2>1, QuietStep
<1>7. ASSUME DropLastName
      PROVE  Consistent'
  <2> DEFINE s == <<RemoveOwner(Last(owned[job.by]), job.by)>>
  <2>1. RemoveOwner(Last(owned[job.by]), job.by).call = "remove_owner"
    BY DEF RemoveOwner
  <2>2. Fresh(s)
    BY <2>1, OneCall
  <2>3. s \in Seq(Call)
    <3>1. job.by \in Conn
      BY <1>7 DEF DropLastName, TypeOK, Job, NoJob
    <3>2. owned[job.by] \in Seq(AnyName) /\ owned[job.by] # <<>>
      BY <1>7, <3>1, QueueType DEF DropLastName
    <3>3. Len(owned[job.by]) \in 1..Len(owned[job.by])
      BY <3>2, LenProperties, EmptySeq
    <3>4. Last(owned[job.by]) \in AnyName
      BY <3>2, <3>3, ElementOfSeq DEF Last
    <3> QED BY <3>1, <3>4, CallIntro, CallSequences
  <2>4. /\ Begin("disconnect", job.by, {}, s) /\ phase \in {"idle", "round"}
        /\ UNCHANGED <<link, owners, owned>>
    BY <1>7 DEF DropLastName, busVars
  <2> HIDE DEF s
  <2> QED BY <2>2, <2>3, <2>4, BeginConsistent
<1>8. ASSUME ForgetClient
      PROVE  Consistent'
  <2>1. todo' = <<>> /\ hooks = <<>> /\ UNCHANGED <<owners, owned, hooks>>
    BY <1>1, <1>8 DEF ForgetClient
  <2>2. \A d \in Conn : link'[d] = "gone" => link[d] = "gone" \/ owned[d] = <<>>
    BY <1>8 DEF ForgetClient, TypeOK
  <2> QED BY <2>1, <2>2, QuietStep
<1>9. ASSUME FailNext
      PROVE  Consistent'
  <2>1. PICK n \in job.left : Begin("expire", job.by, job.left, Failures(n) \o <<Drop(n)>>)
    BY <1>9 DEF FailNext
  <2>2. n \in Name
    <3>1. job.left \subseteq Name
      BY <1>9 DEF FailNext, TypeOK, Job, NoJob
    <3> QED BY <3>1
  <2>3. Drop(n) \in Call /\ Drop(n).call \notin Removal \cup {"link_owner"}
    BY <2>2, CallIntro DEF Drop, Removal
  <2>4. Failures(n) \in Seq(Call) /\ <<Drop(n)>> \in Seq(Call)
    BY <2>2, <2>3, CallsForEntries, CallSequences
  <2>5. Fresh(Failures(n) \o <<Drop(n)>>) /\ Failures(n) \o <<Drop(n)>> \in Seq(Call)
    BY <2>2, <2>3, <2>4, EntriesSteady, OneCall, Joined, SteadyIsFresh, CallSequences
  <2>6. phase \in {"idle", "round"} /\ UNCHANGED <<link, owners, owned>>
    BY <1>9 DEF FailNext, busVars
  <2> QED BY <2>1, <2>5, <2>6, BeginConsistent
<1>10. ASSUME FailedAll
       PROVE  Consistent'
  <2>1. todo' = <<>> /\ hooks = <<>> /\ UNCHANGED <<link, owners, owned, hooks>>
    BY <1>1, <1>10 DEF FailedAll, busVars
  <2> QED BY <2>1, QuietStep
<1>11. ASSUME NEW c \in Conn, Disconnected(c)
       PROVE  Consistent'
  <2>1. todo' = <<>> /\ hooks = <<>> /\ UNCHANGED <<link, owners, owned, hooks>>
    BY <1>1, <1>11 DEF Disconnected, Idle, busVars
  <2> QED BY <2>1, QuietStep
<1>12. ASSUME NEW n \in Name, TimeOut(n)
       PROVE  Consistent'
  <2>1. todo' = <<>> /\ hooks = <<>> /\ UNCHANGED <<link, owners, owned, hooks>>
    BY <1>1, <1>12 DEF TimeOut, Fail, Idle, busVars
  <2> QED BY <2>1, QuietStep
<1> QED BY <1>3, <1>4, <1>5, <1>6, <1>7, <1>8, <1>9, <1>10, <1>11, <1>12

(* A step that does not halt the daemon keeps everything consistent. *)
LEMMA NextConsistent ==
  ASSUME TypeOK, Distinct, Consistent, Next, ~Halted'
  PROVE  Consistent'
<1>1. ~UndoRemoveOwner
  BY DEF UndoRemoveOwner, Halted
<1>2. CASE Handler
  BY <1>1, <1>2, RegistryConsistent, ActivationConsistent, RestConsistent, FreeHookConsistent,
     UndoAddConsistent, UndoPendingConsistent DEF Handler
<1> QED BY <1>2, OutsideConsistent, RestConsistent DEF Next

(* The list of a client without duplicates is as long as the set of its
   names. *)
LEMMA OnceCardinality ==
  ASSUME NEW S, NEW s \in Seq(S), Once(s)
  PROVE  Cardinality(ToSet(s)) = Len(s)
<1>1. Len(s) \in Nat /\ DOMAIN s = 1..Len(s) /\ s = [i \in 1..Len(s) |-> s[i]]
  BY LenProperties
<1>2. ToSet(s) = {s[i] : i \in 1..Len(s)}
  BY <1>1 DEF ToSet
<1>3. IsFiniteSet(1..Len(s)) /\ Cardinality(1..Len(s)) = Len(s)
  <2> DEFINE m == Len(s)
  <2>3. 1 \in Int /\ m \in Int /\ m \in Nat
    BY <1>1
  <2> HIDE DEF m
  <2>1. /\ IsFiniteSet(1..m)
        /\ Cardinality(1..m) = IF 1 > m THEN 0 ELSE m - 1 + 1
    BY <2>3, FS_Interval
  <2>2. \A k \in Nat : (IF 1 > k THEN 0 ELSE k - 1 + 1) = k
    OBVIOUS
  <2> QED BY <2>1, <2>2, <2>3 DEF m
<1>4. s \in Bijection(1..Len(s), ToSet(s))
  <2>1. s \in [1..Len(s) -> ToSet(s)]
    BY <1>1, <1>2
  <2>2. \A i, j \in 1..Len(s) : s[i] = s[j] => i = j
    BY <1>1 DEF Once
  <2>3. \A x \in ToSet(s) : \E i \in 1..Len(s) : s[i] = x
    BY <1>2
  <2> QED BY <2>1, <2>2, <2>3 DEF Bijection, Injection, Surjection, IsInjective
<1>5. Cardinality(1..Len(s)) = Cardinality(ToSet(s))
  BY <1>3, <1>4, FS_Bijection DEF ExistsBijection
<1> QED BY <1>3, <1>5

(* The invariant of the registry, as long as the daemon runs. *)
QueueInv == TypeOK /\ (~Halted => Distinct /\ Consistent)

LEMMA InitQueues == Init => QueueInv
<1> SUFFICES ASSUME Init PROVE Distinct /\ Consistent
  BY InitType DEF QueueInv
<1>1. Distinct
  BY DEF Init, Distinct, NoTwice
<1>2. TodoInv
  BY NothingToDo DEF Init, TodoInv
<1>3. /\ \A n, c : ~Removed(n, c)
      /\ ~Restoring
  BY DEF Init, Removed, Restoring
<1>4. HookInv
  BY <1>3 DEF Init, HookInv
<1>5. OwnInv
  BY <1>3 DEF Init, OwnInv, Once, Lists, Queued
<1> QED BY <1>1, <1>2, <1>4, <1>5 DEF Consistent

LEMMA NextQueues == QueueInv /\ [Next]_vars => QueueInv'
<1> SUFFICES ASSUME QueueInv, [Next]_vars PROVE QueueInv'
  OBVIOUS
<1>1. TypeOK'
  BY NextType DEF QueueInv
<1>2. CASE Next
  BY <1>1, <1>2, NextDistinct, NextConsistent, QueueChanges DEF QueueInv
<1>3. CASE UNCHANGED vars
  <2>1. UNCHANGED <<link, owners, owned, phase, todo, hooks>>
    BY <1>3 DEF vars, busVars, txnVars
  <2>2. (Halted' <=> Halted) /\ (Distinct' <=> Distinct)
    BY <2>1 DEF Halted, Distinct, NoTwice
  <2>3. TodoInv' <=> TodoInv
    BY <2>1 DEF TodoInv, Ordered, LinksLive, Unlinks, Queued
  <2>4. HookInv' <=> HookInv
    BY <2>1 DEF HookInv, Restoring, Steady
  <2>5. OwnInv' <=> OwnInv
    BY <2>1 DEF OwnInv, Once, Lists, Queued, Removed
  <2> QED BY <1>1, <2>2, <2>3, <2>4, <2>5 DEF Consistent, QueueInv
<1> QED BY <1>2, <1>3

(* The list of names a connection keeps is exactly the names it owns or
   waits for, each once, and a freed client is in no queue: whatever
   requests, hang-ups, failed allocations and cancelled transactions came
   before (bus_service_add_owner, bus_service_remove_owner, bus_owner_unref,
   bus_connection_disconnected). *)
THEOREM ListsMatchQueues == Spec => []OwnedMatchesQueues
<1>1. Init => QueueInv
  BY InitQueues
<1>2. QueueInv /\ [Next]_vars => QueueInv'
  BY NextQueues
<1>3. QueueInv => OwnedMatchesQueues
  <2> SUFFICES ASSUME QueueInv, Idle, NEW c \in Conn
               PROVE  /\ ToSet(owned[c]) = {n \in AnyName : c \in Holders(n)}
                      /\ Cardinality(ToSet(owned[c])) = Len(owned[c])
                      /\ link[c] = "gone" => owned[c] = <<>>
    BY DEF OwnedMatchesQueues
  <2>1. TypeOK /\ Consistent /\ hooks = <<>>
    BY DEF QueueInv, Idle, Halted, Consistent, HookInv
  <2>2. \A n : ~Removed(n, c)
    BY <2>1 DEF Removed
  <2>3. owned[c] \in Seq(AnyName) /\ Once(owned[c]) /\ (link[c] = "gone" => owned[c] = <<>>)
    BY <2>1, QueueType DEF Consistent, OwnInv
  <2>4. \A n \in AnyName : Lists(owned[c], n) <=> c \in Holders(n)
    BY <2>1, <2>2 DEF Consistent, OwnInv, Holders, Queued
  <2>5. /\ \A n : n \in ToSet(owned[c]) <=> Lists(owned[c], n)
        /\ \A n : Lists(owned[c], n) => n \in AnyName
    <3>1. DOMAIN owned[c] = 1..Len(owned[c]) /\ \A i \in 1..Len(owned[c]) : owned[c][i] \in AnyName
      BY <2>3, LenProperties, ElementOfSeq
    <3> QED BY <3>1 DEF ToSet, Lists
  <2> QED BY <2>3, <2>4, <2>5, OnceCardinality
<1> QED BY <1>1, <1>2, <1>3, PTL DEF Spec

=============================================================================
