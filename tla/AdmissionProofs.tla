-------------------------- MODULE AdmissionProofs --------------------------
(***************************************************************************)
(* Proofs about Admission, for any number of connections, any users and any *)
(* limits: connections are counted rightly, the limits of the configuration *)
(* hold, and no unique name is given twice.                                 *)
(***************************************************************************)
EXTENDS Admission, SequencesExt, SequenceTheorems, FiniteSetTheorems, TLAPS

USE LimitsAssumption

Message == {"Hello", "Other"}

ConnectionData ==
    [state : {"free", "incomplete", "completed"}, open : BOOLEAN, age : Nat,
     user : Users \union {Anonymous}, incoming : Seq(Message)]

\* The types of what the arguments below are about.
TypeOK ==
    /\ conn \in [Connections -> ConnectionData]
    /\ incomplete \in Seq(Connections)
    /\ byUser \in [Users -> Int]
    /\ next \in [major : Nat, minor : Int] /\ next.minor <= MaxInt
    /\ phase \in {"poll", "watches", "dispatch"}
    /\ used \subseteq Nat \X Nat /\ IsFiniteSet(used)
    /\ given \in Nat /\ shortages \in Nat

-----------------------------------------------------------------------------
(* What the operators do. *)

(* RemoveAt drops one element and closes the gap. *)
LEMMA RemoveAtProperties ==
  ASSUME NEW S, NEW s \in Seq(S), NEW i \in 1..Len(s)
  PROVE  /\ RemoveAt(s, i) \in Seq(S)
         /\ Len(RemoveAt(s, i)) = Len(s) - 1
         /\ \A j \in 1..(Len(s) - 1) :
              RemoveAt(s, i)[j] = IF j < i THEN s[j] ELSE s[j + 1]
<1> DEFINE front == SubSeq(s, 1, i - 1)
           back  == SubSeq(s, i + 1, Len(s))
<1>1. Len(s) \in Nat /\ i \in Nat /\ i >= 1 /\ i <= Len(s)
  BY LenProperties
<1>2. \A j \in 1..Len(s) : s[j] \in S
  BY ElementOfSeq
<1>3. /\ front \in Seq(S)
      /\ Len(front) = i - 1
      /\ \A j \in 1..(i - 1) : front[j] = s[j]
  <2>1. /\ front \in Seq(S)
        /\ Len(front) = IF 1 <= i - 1 THEN (i - 1) - 1 + 1 ELSE 0
        /\ \A j \in 1..((i - 1) - 1 + 1) : front[j] = s[1 + j - 1]
    <3>1. \A j \in 1..(i - 1) : s[j] \in S
      BY <1>1, <1>2
    <3>2. 1 \in Int /\ i - 1 \in Int
      BY <1>1
    <3> HIDE DEF front
    <3> QED BY <3>1, <3>2, SubSeqProperties DEF front
  <2> HIDE DEF front
  <2> QED BY <2>1, <1>1
<1>4. /\ back \in Seq(S)
      /\ Len(back) = Len(s) - i
      /\ \A j \in 1..(Len(s) - i) : back[j] = s[i + j]
  <2>1. /\ back \in Seq(S)
        /\ Len(back) = IF i + 1 <= Len(s) THEN Len(s) - (i + 1) + 1 ELSE 0
        /\ \A j \in 1..(Len(s) - (i + 1) + 1) : back[j] = s[(i + 1) + j - 1]
    <3>1. \A j \in (i + 1)..Len(s) : s[j] \in S
      BY <1>1, <1>2
    <3>2. i + 1 \in Int /\ Len(s) \in Int
      BY <1>1
    <3> HIDE DEF back
    <3> QED BY <3>1, <3>2, SubSeqProperties DEF back
  <2> HIDE DEF back
  <2> QED BY <2>1, <1>1
<1>5. RemoveAt(s, i) = front \o back
  BY DEF RemoveAt
<1> HIDE DEF front, back
<1>6. /\ front \o back \in Seq(S)
      /\ Len(front \o back) = Len(front) + Len(back)
      /\ \A j \in 1..(Len(front) + Len(back)) :
           (front \o back)[j] = IF j <= Len(front) THEN front[j] ELSE back[j - Len(front)]
  BY <1>3, <1>4, ConcatProperties
<1> QED BY <1>1, <1>3, <1>4, <1>5, <1>6

(* Closing a connection changes nothing but that it is open.               *)
LEMMA CloseKeeps ==
    ASSUME NEW all \in [Connections -> ConnectionData], NEW closed
    PROVE  /\ Close(all, closed) \in [Connections -> ConnectionData]
           /\ \A c \in Connections :
                /\ Close(all, closed)[c].state = all[c].state
                /\ Close(all, closed)[c].user = all[c].user
                /\ Close(all, closed)[c].open => all[c].open
                /\ c \in closed => ~Close(all, closed)[c].open
<1>1. ASSUME NEW c \in Connections
      PROVE  /\ Close(all, closed)[c] \in ConnectionData
             /\ Close(all, closed)[c].state = all[c].state
             /\ Close(all, closed)[c].user = all[c].user
             /\ Close(all, closed)[c].open => all[c].open
             /\ c \in closed => ~Close(all, closed)[c].open
  BY DEF Close, ConnectionData
<1>2. Close(all, closed) = [c \in Connections |-> Close(all, closed)[c]]
  BY DEF Close
<1> QED BY <1>1, <1>2

(* The messages that are left are messages.                                *)
LEMMA TakenKeeps ==
    ASSUME conn \in [Connections -> ConnectionData],
           NEW c \in Connections, conn[c].incoming # <<>>
    PROVE  /\ Taken(c) \in [Connections -> ConnectionData]
           /\ \A d \in Connections :
                /\ Taken(c)[d].state = conn[d].state
                /\ Taken(c)[d].user = conn[d].user
                /\ Taken(c)[d].open = conn[d].open
<1>1. Tail(conn[c].incoming) \in Seq(Message)
  BY HeadTailProperties DEF ConnectionData
<1> QED BY <1>1 DEF Taken, ConnectionData

\* No connection is twice on the list, and every one on it is incomplete.
\* It is the other way round as well: who is incomplete is on the list.
Listed(list, all) ==
    /\ \A i, j \in 1..Len(list) : list[i] = list[j] => i = j
    /\ \A c \in Connections :
        all[c].state = "incomplete" <=> \E i \in 1..Len(list) : list[i] = c

(* Unlinking takes out the connection and leaves the others.               *)
LEMMA UnlinkedProperties ==
    ASSUME NEW list \in Seq(Connections), NEW c \in Connections,
           \A i, j \in 1..Len(list) : list[i] = list[j] => i = j
    PROVE  LET left == Unlinked(list, c)
           IN  /\ left \in Seq(Connections)
               /\ \A i, j \in 1..Len(left) : left[i] = left[j] => i = j
               /\ \A d \in Connections :
                    (\E i \in 1..Len(left) : left[i] = d)
                      <=> d # c /\ \E i \in 1..Len(list) : list[i] = d
               /\ Len(left) <= Len(list)
               /\ (\E i \in 1..Len(list) : list[i] = c) => Len(left) = Len(list) - 1
<1> DEFINE left == Unlinked(list, c)
<1>1. CASE \A i \in 1..Len(list) : list[i] # c
  <2>1. left = list
    BY <1>1 DEF Unlinked
  <2>2. Len(list) \in Nat
    BY LenProperties
  <2> HIDE DEF left
  <2> QED BY <1>1, <2>1, <2>2 DEF left
<1>2. CASE \E i \in 1..Len(list) : list[i] = c
  <2> DEFINE p == CHOOSE i \in 1..Len(list) : list[i] = c
  <2>1. p \in 1..Len(list) /\ list[p] = c
    BY <1>2
  <2>2. left = RemoveAt(list, p)
    BY <1>2 DEF Unlinked
  <2> HIDE DEF p, left
  <2>3. Len(list) \in Nat
    BY LenProperties
  <2>4. /\ left \in Seq(Connections)
        /\ Len(left) = Len(list) - 1
        /\ \A j \in 1..(Len(list) - 1) : left[j] = IF j < p THEN list[j] ELSE list[j + 1]
    BY <2>1, <2>2, RemoveAtProperties
  <2>5. ASSUME NEW i \in 1..Len(left), NEW j \in 1..Len(left), left[i] = left[j]
        PROVE  i = j
    <3> DEFINE at(k) == IF k < p THEN k ELSE k + 1
    <3>1. at(i) \in 1..Len(list) /\ at(j) \in 1..Len(list)
      BY <2>1, <2>3, <2>4
    <3>2. list[at(i)] = list[at(j)]
      BY <2>3, <2>4, <2>5
    <3>3. at(i) = at(j)
      BY <3>1, <3>2
    <3> QED BY <3>3, <2>1, <2>3, <2>4
  <2>6. ASSUME NEW i \in 1..Len(left)
        PROVE  \E k \in 1..Len(list) : k # p /\ left[i] = list[k]
    <3> DEFINE k == IF i < p THEN i ELSE i + 1
    <3>1. k \in 1..Len(list) /\ k # p /\ left[i] = list[k]
      BY <2>1, <2>3, <2>4
    <3> HIDE DEF k
    <3> QED BY <3>1
  <2>7. ASSUME NEW k \in 1..Len(list), k # p
        PROVE  \E i \in 1..Len(left) : left[i] = list[k]
    <3> DEFINE i == IF k < p THEN k ELSE k - 1
    <3>1. i \in 1..Len(left) /\ left[i] = list[k]
      BY <2>1, <2>3, <2>4, <2>7
    <3> HIDE DEF i
    <3> QED BY <3>1
  <2>8. ASSUME NEW d \in Connections
        PROVE  (\E i \in 1..Len(left) : left[i] = d)
                 <=> d # c /\ \E i \in 1..Len(list) : list[i] = d
    <3>1. ASSUME NEW i \in 1..Len(left), left[i] = d
          PROVE  d # c /\ \E k \in 1..Len(list) : list[k] = d
      BY <3>1, <2>1, <2>6
    <3>2. ASSUME d # c, NEW k \in 1..Len(list), list[k] = d
          PROVE  \E i \in 1..Len(left) : left[i] = d
      BY <3>2, <2>1, <2>7
    <3> QED BY <3>1, <3>2
  <2> QED BY <1>2, <2>3, <2>4, <2>5, <2>8 DEF left
<1> QED BY <1>1, <1>2

-----------------------------------------------------------------------------
(* Types. *)

\* A step that may close connections and take messages, and no more.
StatesKept ==
    /\ conn' \in [Connections -> ConnectionData]
    /\ \A c \in Connections :
        /\ conn'[c].state = conn[c].state
        /\ conn'[c].user = conn[c].user
        /\ conn'[c].open => conn[c].open
    /\ UNCHANGED incomplete

(* The names are given in order: numbers grow, or memory runs out between   *)
(* the major and the minor one.                                            *)
LEMMA NumbersAreNumbers ==
    ASSUME TypeOK
    PROVE  /\ UniqueName \in Nat \X Nat
           /\ UniqueName[1] \in Nat /\ UniqueName[2] \in Nat /\ UniqueName[2] <= MaxInt
           /\ Wrapped(UniqueName[2] + 1) \in Int
           /\ Wrapped(UniqueName[2] + 1) <= MaxInt
<1>1. next.major \in Nat /\ next.minor \in Int /\ next.minor <= MaxInt
  BY DEF TypeOK
<1>2. MaxInt \in Nat /\ MaxInt > 0
  OBVIOUS
<1>3. CASE next.minor <= 0
  <2>1. UniqueName = <<next.major + 1, 0>>
    BY <1>3 DEF UniqueName
  <2> QED BY <2>1, <1>1, <1>2 DEF Wrapped
<1>4. CASE ~(next.minor <= 0)
  <2>1. UniqueName = <<next.major, next.minor>>
    BY <1>4 DEF UniqueName
  <2> QED BY <2>1, <1>1, <1>2, <1>4 DEF Wrapped
<1> QED BY <1>3, <1>4

(* What the steps but an arrival, a Hello and a departure do to connections. *)
LEMMA KeptBy ==
    ASSUME TypeOK
    PROVE  /\ Timeout \/ Poll \/ EndOfWatches \/ EndOfIteration \/ AcceptNoMemory => StatesKept
           /\ \A c \in Connections :
                \/ \E batch \in Batches : ReadClient(c, batch)
                \/ ReadHangUp(c) \/ HelloRefused(c) \/ HelloNoMemory(c) \/ Other(c)
                => StatesKept
           /\ Tick => StatesKept
<1> USE DEF TypeOK
<1>1. ASSUME UNCHANGED <<conn, incomplete>> PROVE StatesKept
  BY <1>1 DEF StatesKept
<1>2. ASSUME NEW closed, conn' = Close(conn, closed), UNCHANGED incomplete PROVE StatesKept
  BY <1>2, CloseKeeps DEF StatesKept
<1>3. ASSUME NEW c \in Connections, conn[c].incoming # <<>>, conn' = Taken(c), UNCHANGED incomplete
      PROVE  StatesKept
  BY <1>3, TakenKeeps DEF StatesKept
<1>4. Timeout => StatesKept
  BY <1>2 DEF Timeout
<1>5. Poll \/ EndOfWatches \/ EndOfIteration \/ AcceptNoMemory => StatesKept
  BY <1>1 DEF Poll, EndOfWatches, EndOfIteration, AcceptNoMemory
<1>6. ASSUME NEW c \in Connections, NEW batch \in Batches, ReadClient(c, batch)
      PROVE  StatesKept
  <2>1. batch \in Seq(Message)
    <3>1. "Hello" \in Message /\ "Other" \in Message
      BY DEF Message
    <3>2. /\ <<"Hello">> \in Seq(Message) /\ <<"Other">> \in Seq(Message)
          /\ <<"Hello", "Hello">> \in Seq(Message) /\ <<"Other", "Hello">> \in Seq(Message)
      BY <3>1
    <3> QED BY <3>2 DEF Batches
  <2>2. conn' = [conn EXCEPT ![c].incoming = batch] /\ UNCHANGED incomplete
    BY <1>6 DEF ReadClient
  <2> DEFINE old == conn[c]
             new == [old EXCEPT !.incoming = batch]
  <2>3. old \in ConnectionData
    OBVIOUS
  <2>4. conn' = [conn EXCEPT ![c] = new]
    BY <2>2
  <2> HIDE DEF old
  <2>5. /\ new \in ConnectionData
        /\ new.state = old.state /\ new.user = old.user /\ new.open = old.open
    BY <2>1, <2>3 DEF ConnectionData
  <2> HIDE DEF new
  <2>6. /\ conn' \in [Connections -> ConnectionData]
        /\ \A d \in Connections : conn'[d] = IF d = c THEN new ELSE conn[d]
    BY <2>4, <2>5
  <2> QED BY <2>2, <2>5, <2>6 DEF StatesKept, old
<1>7. ASSUME NEW c \in Connections, ReadHangUp(c)
      PROVE  StatesKept
  BY <1>2, <1>7 DEF ReadHangUp
<1>8. ASSUME NEW c \in Connections, HelloRefused(c) \/ HelloNoMemory(c)
      PROVE  StatesKept
  BY <1>3, <1>8 DEF HelloRefused, HelloNoMemory, Welcome, Dispatching
<1>9. ASSUME NEW c \in Connections, Other(c)
      PROVE  StatesKept
  <2>1. conn[c].incoming # <<>> /\ UNCHANGED incomplete
    BY <1>9 DEF Other, Dispatching
  <2>2. CASE conn[c].state = "incomplete"
    <3>1. conn' = Close(Taken(c), {c})
      BY <1>9, <2>2 DEF Other
    <3>2. Taken(c) \in [Connections -> ConnectionData]
      BY <2>1, TakenKeeps
    <3> DEFINE all == Taken(c)
               left == Close(all, {c})
    <3>3. \A d \in Connections :
            /\ all[d].state = conn[d].state
            /\ all[d].user = conn[d].user
            /\ all[d].open = conn[d].open
      BY <2>1, TakenKeeps
    <3>4. all \in [Connections -> ConnectionData]
      BY <3>2
    <3> HIDE DEF all
    <3>5. /\ left \in [Connections -> ConnectionData]
          /\ \A d \in Connections :
               /\ left[d].state = all[d].state
               /\ left[d].user = all[d].user
               /\ left[d].open => all[d].open
      BY <3>4, CloseKeeps
    <3>6. conn' = left
      BY <3>1 DEF all
    <3> HIDE DEF left
    <3> QED BY <2>1, <3>3, <3>5, <3>6 DEF StatesKept
  <2>3. CASE conn[c].state # "incomplete"
    BY <1>3, <1>9, <2>1, <2>3 DEF Other
  <2> QED BY <2>2, <2>3
<1>10. Tick => StatesKept
  <2>1. ASSUME Tick PROVE StatesKept
    <3>1. AuthTimeout \in Nat
      OBVIOUS
    <3>2. \A c \in Connections : Older(conn[c].age) \in Nat
      BY <3>1 DEF Older, ConnectionData
    <3> DEFINE new(c) == [conn[c] EXCEPT !.age = Older(@)]
    <3>3. ASSUME NEW c \in Connections
          PROVE  /\ new(c) \in ConnectionData
                 /\ new(c).state = conn[c].state
                 /\ new(c).user = conn[c].user
                 /\ new(c).open = conn[c].open
      <4> DEFINE old == conn[c]
                 age == Older(old.age)
      <4>1. old \in ConnectionData /\ age \in Nat
        BY <3>2
      <4> HIDE DEF old, age
      <4>2. /\ [old EXCEPT !.age = age] \in ConnectionData
            /\ [old EXCEPT !.age = age].state = old.state
            /\ [old EXCEPT !.age = age].user = old.user
            /\ [old EXCEPT !.age = age].open = old.open
        BY <4>1 DEF ConnectionData
      <4> QED BY <4>2 DEF old, age
    <3>4. /\ conn' = [c \in Connections |->
                       IF conn[c].state = "incomplete" THEN new(c) ELSE conn[c]]
          /\ UNCHANGED incomplete
      BY <2>1 DEF Tick
    <3> HIDE DEF new
    <3>5. ASSUME NEW c \in Connections
          PROVE  conn'[c] \in {new(c), conn[c]} /\ conn[c] \in ConnectionData
      BY <3>4
    <3>6. conn' \in [Connections -> ConnectionData]
      BY <3>3, <3>4, <3>5
    <3> QED BY <3>3, <3>4, <3>5, <3>6 DEF StatesKept
  <2> QED BY <2>1
<1> QED BY <1>4, <1>5, <1>6, <1>7, <1>8, <1>9, <1>10

\* The state and the user of one connection change, the others' stay.
Becomes(c, state, user) ==
    /\ conn' \in [Connections -> ConnectionData]
    /\ conn'[c].state = state /\ conn'[c].user = user
    /\ \A d \in Connections \ {c} :
        /\ conn'[d].state = conn[d].state
        /\ conn'[d].user = conn[d].user
        /\ conn'[d].open => conn[d].open

(* An arrival: bus_connections_setup_connection puts it at the end of the   *)
(* list and closes the oldest if there are too many.                       *)
LEMMA Arrival ==
    ASSUME TypeOK, NEW c \in Connections, NEW u \in Users \union {Anonymous}, Accept(c, u)
    PROVE  /\ Becomes(c, "incomplete", u)
           /\ conn[c].state = "free"
           /\ incomplete' = Append(incomplete, c) /\ incomplete' \in Seq(Connections)
           /\ Len(incomplete') > MaxIncomplete => ~conn'[incomplete'[1]].open
           /\ UNCHANGED <<byUser, next, used, given, shortages>>
<1> USE DEF TypeOK
<1> DEFINE all == Arrived(c, u)
           overdue == Overdue(all, Append(incomplete, c))
           surplus == IF Len(Append(incomplete, c)) > MaxIncomplete
                      THEN {Append(incomplete, c)[1]} ELSE {}
<1>1. conn[c] = Free /\ SetupConnection(c, u)
  BY DEF Accept
<1>2. /\ conn' = Close(all, overdue \union surplus)
      /\ incomplete' = Append(incomplete, c)
      /\ UNCHANGED <<byUser, next, used, given, shortages>>
  BY <1>1 DEF SetupConnection
<1>3. [Free EXCEPT !.state = "incomplete", !.open = TRUE, !.user = u] \in ConnectionData
  <2>1. <<>> \in Seq(Message)
    OBVIOUS
  <2> QED BY <2>1 DEF Free, ConnectionData
<1>4. /\ all \in [Connections -> ConnectionData]
      /\ \A d \in Connections : all[d] =
            IF d = c THEN [Free EXCEPT !.state = "incomplete", !.open = TRUE, !.user = u]
            ELSE conn[d]
  BY <1>3 DEF Arrived
<1>5. all[c].state = "incomplete" /\ all[c].user = u
  BY <1>4 DEF Free
<1> HIDE DEF all, overdue
<1>6. /\ conn' \in [Connections -> ConnectionData]
      /\ \A d \in Connections :
            /\ conn'[d].state = all[d].state
            /\ conn'[d].user = all[d].user
            /\ conn'[d].open => all[d].open
            /\ d \in overdue \union surplus => ~conn'[d].open
  <2> DEFINE closed == overdue \union surplus
  <2>1. conn' = Close(all, closed) /\ all \in [Connections -> ConnectionData]
    BY <1>2, <1>4
  <2> HIDE DEF closed
  <2>2. /\ conn' \in [Connections -> ConnectionData]
        /\ \A d \in Connections :
             /\ conn'[d].state = all[d].state
             /\ conn'[d].user = all[d].user
             /\ conn'[d].open => all[d].open
             /\ d \in closed => ~conn'[d].open
    BY <2>1, CloseKeeps
  <2> QED BY <2>2 DEF closed
<1>7. incomplete' \in Seq(Connections) /\ Len(incomplete') = Len(incomplete) + 1
  BY <1>2, AppendProperties
<1>8. incomplete'[1] \in Connections
  BY <1>7, LenProperties, ElementOfSeq
<1>9. ASSUME Len(incomplete') > MaxIncomplete PROVE ~conn'[incomplete'[1]].open
  BY <1>2, <1>6, <1>8, <1>9
<1>10. conn[c].state = "free"
  BY <1>1 DEF Free
<1>11. Becomes(c, "incomplete", u)
  <2>1. \A d \in Connections \ {c} : all[d] = conn[d]
    BY <1>4
  <2> QED BY <2>1, <1>5, <1>6 DEF Becomes
<1> QED BY <1>2, <1>7, <1>9, <1>10, <1>11

(* What bus_connection_complete makes of the data of a connection.          *)
LEMMA CountedKeeps ==
    ASSUME NEW all \in [Connections -> ConnectionData], NEW c \in Connections
    PROVE  LET done == [all EXCEPT ![c].state = "completed", ![c].age = 0]
           IN  /\ done \in [Connections -> ConnectionData]
               /\ done[c].state = "completed" /\ done[c].user = all[c].user
               /\ \A d \in Connections \ {c} : done[d] = all[d]
  BY DEF ConnectionData

(* A Hello that succeeds: bus_connection_complete moves the connection from *)
(* one list to the other, and closes who is overdue.                       *)
LEMMA Completion ==
    ASSUME TypeOK, NEW c \in Connections, Hello(c)
    PROVE  /\ Becomes(c, "completed", conn[c].user)
           /\ conn[c].state = "incomplete"
           /\ incomplete' = Unlinked(incomplete, c)
<1> USE DEF TypeOK
<1> DEFINE all == [Taken(c) EXCEPT ![c].state = "completed", ![c].age = 0]
<1>1. /\ conn[c].state = "incomplete" /\ conn[c].incoming # <<>>
      /\ incomplete' = Unlinked(incomplete, c)
      /\ conn' = Close(all, Overdue(all, Unlinked(incomplete, c)))
  BY DEF Hello, Welcome, Dispatching, ExpireIncomplete
<1>2. /\ Taken(c) \in [Connections -> ConnectionData]
      /\ \A d \in Connections : /\ Taken(c)[d].state = conn[d].state
                               /\ Taken(c)[d].user = conn[d].user
                               /\ Taken(c)[d].open = conn[d].open
  BY <1>1, TakenKeeps
<1> HIDE DEF all
<1>5. /\ all \in [Connections -> ConnectionData]
      /\ all[c].state = "completed" /\ all[c].user = conn[c].user
      /\ \A d \in Connections \ {c} : all[d] = Taken(c)[d]
  <2> DEFINE t == Taken(c)
             done == [t EXCEPT ![c].state = "completed", ![c].age = 0]
  <2>1. t \in [Connections -> ConnectionData] /\ t[c].user = conn[c].user
    BY <1>2
  <2>2. all = done
    BY DEF all
  <2> HIDE DEF t
  <2>3. /\ done \in [Connections -> ConnectionData]
        /\ done[c].state = "completed" /\ done[c].user = t[c].user
        /\ \A d \in Connections \ {c} : done[d] = t[d]
    BY <2>1, CountedKeeps
  <2> HIDE DEF done
  <2>4. /\ all \in [Connections -> ConnectionData]
        /\ all[c].state = "completed" /\ all[c].user = conn[c].user
        /\ \A d \in Connections \ {c} : all[d] = t[d]
    BY <2>1, <2>2, <2>3
  <2> QED BY <2>4 DEF t
<1>6. /\ conn' \in [Connections -> ConnectionData]
      /\ \A d \in Connections :
            /\ conn'[d].state = all[d].state
            /\ conn'[d].user = all[d].user
            /\ conn'[d].open => all[d].open
  <2> DEFINE closed == Overdue(all, Unlinked(incomplete, c))
  <2>1. conn' = Close(all, closed) /\ all \in [Connections -> ConnectionData]
    BY <1>1, <1>5
  <2> HIDE DEF closed
  <2> QED BY ONLY <2>1, CloseKeeps
<1>7. \A d \in Connections \ {c} : /\ all[d].state = conn[d].state
                                   /\ all[d].user = conn[d].user
                                   /\ all[d].open = conn[d].open
  BY ONLY <1>2, <1>5
<1>8. Becomes(c, "completed", conn[c].user)
  BY ONLY c \in Connections, <1>5, <1>6, <1>7 DEF Becomes
<1> QED BY <1>1, <1>8

(* A departure: the place is free again.                                   *)
LEMMA Departure ==
    ASSUME TypeOK, NEW c \in Connections, Disconnected(c)
    PROVE  /\ Becomes(c, "free", Anonymous)
           /\ conn[c].state # "free"
           /\ incomplete' = Unlinked(incomplete, c)
<1> USE DEF TypeOK
<1>1. Free \in ConnectionData
  <2>1. <<>> \in Seq(Message)
    OBVIOUS
  <2> QED BY <2>1 DEF Free, ConnectionData
<1>2. conn' = [conn EXCEPT ![c] = Free]
  BY DEF Disconnected
<1>3. Becomes(c, "free", Anonymous)
  BY <1>1, <1>2 DEF Becomes, Free
<1> QED BY <1>3 DEF Disconnected

(* Steps that keep the states are all but the three above.                  *)
LEMMA Steps ==
    ASSUME TypeOK, [Next]_vars
    PROVE  \/ StatesKept
           \/ \E c \in Connections, u \in Users \union {Anonymous} : Accept(c, u)
           \/ \E c \in Connections : Hello(c)
           \/ \E c \in Connections : Disconnected(c)
<1>1. CASE UNCHANGED vars
  BY <1>1 DEF vars, StatesKept, TypeOK
<1>2. CASE Tick
  BY <1>2, KeptBy
<1>3. CASE Iterate
  BY <1>3, KeptBy DEF Iterate
<1> QED BY <1>1, <1>2, <1>3 DEF Next

(* The types are kept: what is not about connections.                      *)
LEMMA TypeStep == TypeOK /\ [Next]_vars => TypeOK'
<1> SUFFICES ASSUME TypeOK, [Next]_vars PROVE TypeOK'
  OBVIOUS
<1>1. conn' \in [Connections -> ConnectionData] /\ incomplete' \in Seq(Connections)
  <2>1. CASE StatesKept
    BY <2>1 DEF StatesKept, TypeOK
  <2>2. ASSUME NEW c \in Connections, NEW u \in Users \union {Anonymous}, Accept(c, u)
        PROVE  conn' \in [Connections -> ConnectionData] /\ incomplete' \in Seq(Connections)
    BY <2>2, Arrival DEF Becomes
  <2>3. ASSUME NEW c \in Connections PROVE Unlinked(incomplete, c) \in Seq(Connections)
    <3>1. CASE \E i \in 1..Len(incomplete) : incomplete[i] = c
      BY <3>1, RemoveAtProperties DEF TypeOK, Unlinked
    <3>2. CASE ~ \E i \in 1..Len(incomplete) : incomplete[i] = c
      BY <3>2 DEF TypeOK, Unlinked
    <3> QED BY <3>1, <3>2
  <2>4. ASSUME NEW c \in Connections, Hello(c)
        PROVE  conn' \in [Connections -> ConnectionData] /\ incomplete' \in Seq(Connections)
    BY <2>3, <2>4, Completion DEF Becomes
  <2>5. ASSUME NEW c \in Connections, Disconnected(c)
        PROVE  conn' \in [Connections -> ConnectionData] /\ incomplete' \in Seq(Connections)
    BY <2>3, <2>5, Departure DEF Becomes
  <2> QED BY <2>1, <2>2, <2>4, <2>5, Steps
<1>2. phase' \in {"poll", "watches", "dispatch"}
  BY DEF TypeOK, Next, vars, Iterate, Tick, Timeout, Poll, EndOfWatches, EndOfIteration,
         AcceptNoMemory, ReadClient, ReadHangUp, Accept, HelloRefused, Hello, HelloNoMemory,
         Other, Disconnected
<1>3. \/ UNCHANGED <<next, used, given>>
      \/ \E c \in Connections : Hello(c) \/ HelloNoMemory(c)
  BY DEF Next, vars, Iterate, Tick, Timeout, Poll, EndOfWatches, EndOfIteration,
         AcceptNoMemory, ReadClient, ReadHangUp, Accept, SetupConnection, HelloRefused,
         Other, Disconnected
<1>4. /\ next' \in [major : Nat, minor : Int] /\ next'.minor <= MaxInt
      /\ used' \subseteq Nat \X Nat /\ IsFiniteSet(used')
      /\ given' \in Nat
  <2>1. CASE UNCHANGED <<next, used, given>>
    BY <2>1 DEF TypeOK
  <2>2. Numbered => next' \in [major : Nat, minor : Int] /\ next'.minor <= MaxInt
    BY NumbersAreNumbers DEF Numbered
  <2>3. ASSUME NEW c \in Connections, Hello(c)
        PROVE  <1>4!1 /\ <1>4!2 /\ <1>4!3
    <3>1. used' = used \union {UniqueName} /\ given' = given + 1 /\ Numbered
      BY <2>3 DEF Hello
    <3>2. IsFiniteSet(used')
      BY <3>1, FS_AddElement DEF TypeOK
    <3> QED BY <2>2, <3>1, <3>2, NumbersAreNumbers DEF TypeOK
  <2>4. ASSUME NEW c \in Connections, HelloNoMemory(c)
        PROVE  <1>4!1 /\ <1>4!2 /\ <1>4!3
    <3>1. next' = [major |-> UniqueName[1], minor |-> UniqueName[2]] \/ Numbered
      BY <2>4 DEF HelloNoMemory
    <3>2. UNCHANGED <<used, given>>
      BY <2>4 DEF HelloNoMemory
    <3>3. next' = [major |-> UniqueName[1], minor |-> UniqueName[2]]
            => next' \in [major : Nat, minor : Int] /\ next'.minor <= MaxInt
      BY NumbersAreNumbers
    <3> QED BY <2>2, <3>1, <3>2, <3>3 DEF TypeOK
  <2> QED BY <1>3, <2>1, <2>3, <2>4
<1>5. shortages' \in Nat
  <2>1. shortages' = shortages \/ shortages' = shortages + 1
    BY DEF Next, vars, Iterate, Tick, Timeout, Poll, EndOfWatches, EndOfIteration,
           AcceptNoMemory, ReadClient, ReadHangUp, Accept, SetupConnection, HelloRefused,
           Hello, HelloNoMemory, Other, Disconnected
  <2> QED BY <2>1 DEF TypeOK
<1>6. byUser' \in [Users -> Int]
  <2>1. \/ UNCHANGED byUser
        \/ \E c \in Connections : Adjust(c, 1) \/ Adjust(c, -1)
    BY DEF Next, vars, Iterate, Tick, Timeout, Poll, EndOfWatches, EndOfIteration,
           AcceptNoMemory, ReadClient, ReadHangUp, Accept, SetupConnection, HelloRefused,
           Hello, HelloNoMemory, Other, Disconnected
  <2>2. byUser \in [Users -> Int]
    BY DEF TypeOK
  <2>3. ASSUME NEW c \in Connections, NEW by \in {1, -1}, Adjust(c, by)
        PROVE  byUser' \in [Users -> Int]
    BY <2>2, <2>3 DEF Adjust
  <2> QED BY <2>1, <2>2, <2>3
<1> QED BY <1>1, <1>2, <1>4, <1>5, <1>6 DEF TypeOK

(* The daemon starts with no connections and no names.                     *)
LEMMA TypeInit == Init => TypeOK
<1> SUFFICES ASSUME Init PROVE TypeOK
  OBVIOUS
<1>1. Free \in ConnectionData
  <2>1. <<>> \in Seq(Message)
    OBVIOUS
  <2> QED BY <2>1 DEF Free, ConnectionData
<1>2. conn \in [Connections -> ConnectionData]
  BY <1>1 DEF Init
<1>3. next \in [major : Nat, minor : Int] /\ next.minor <= MaxInt
  BY DEF Init
<1>4. used \subseteq Nat \X Nat /\ IsFiniteSet(used)
  BY FS_EmptySet DEF Init
<1> QED BY <1>2, <1>3, <1>4 DEF Init, TypeOK

-----------------------------------------------------------------------------
(* The list of incomplete connections. *)

\* The list holds those that are incomplete, each once.  It is too long by one
\* at most, and only as long as one on it is closed and waits for the
\* dispatch that will take it off.
ListInv ==
    /\ Listed(incomplete, conn)
    /\ Len(incomplete) <= MaxIncomplete + 1
    /\ Len(incomplete) > MaxIncomplete =>
         /\ phase = "dispatch"
         /\ \E i \in 1..Len(incomplete) : ~conn[incomplete[i]].open

(* An arrival finds the list short enough, since the dispatch is over.     *)
LEMMA ArrivalListed ==
    ASSUME TypeOK, ListInv, NEW c \in Connections, NEW u \in Users \union {Anonymous}, Accept(c, u)
    PROVE  ListInv'
<1>1. /\ Becomes(c, "incomplete", u)
      /\ conn[c].state = "free"
      /\ incomplete' = Append(incomplete, c) /\ incomplete' \in Seq(Connections)
      /\ Len(incomplete') > MaxIncomplete => ~conn'[incomplete'[1]].open
  BY Arrival
<1>2. phase = "watches" /\ phase' = "dispatch"
  BY DEF Accept
<1>3. incomplete \in Seq(Connections) /\ Len(incomplete) \in Nat
  BY LenProperties DEF TypeOK
<1>4. /\ Len(incomplete') = Len(incomplete) + 1
      /\ \A i \in 1..Len(incomplete) : incomplete'[i] = incomplete[i]
      /\ incomplete'[Len(incomplete) + 1] = c
  BY <1>1, <1>3, AppendProperties
<1>5. Len(incomplete) <= MaxIncomplete
  BY <1>2, <1>3 DEF ListInv
<1>6. Listed(incomplete, conn)
  BY DEF ListInv
<1>7. \A i \in 1..Len(incomplete) : incomplete[i] # c
  BY <1>1, <1>6 DEF Listed
<1>8. \A i, j \in 1..Len(incomplete') : incomplete'[i] = incomplete'[j] => i = j
  BY <1>3, <1>4, <1>6, <1>7 DEF Listed
<1>9. ASSUME NEW d \in Connections
      PROVE  conn'[d].state = "incomplete" <=> \E i \in 1..Len(incomplete') : incomplete'[i] = d
  <2>1. CASE d = c
    <3>1. Len(incomplete) + 1 \in 1..Len(incomplete')
      BY <1>3, <1>4
    <3> QED BY <2>1, <3>1, <1>1, <1>4 DEF Becomes
  <2>2. CASE d # c
    <3>1. conn'[d].state = conn[d].state
      BY <2>2, <1>1 DEF Becomes
    <3>2. (\E i \in 1..Len(incomplete') : incomplete'[i] = d)
            <=> \E i \in 1..Len(incomplete) : incomplete[i] = d
      BY <2>2, <1>3, <1>4
    <3> QED BY <3>1, <3>2, <1>6 DEF Listed
  <2> QED BY <2>1, <2>2
<1>10. 1 \in 1..Len(incomplete')
  BY <1>3, <1>4
<1> QED BY <1>1, <1>2, <1>3, <1>4, <1>5, <1>8, <1>9, <1>10 DEF ListInv, Listed

(* One that leaves the list makes it short enough again.                   *)
LEMMA DepartureListed ==
    ASSUME TypeOK, ListInv, NEW c \in Connections, NEW state, NEW user,
           state # "incomplete", Becomes(c, state, user),
           incomplete' = Unlinked(incomplete, c), phase' = phase,
           conn[c].state # "incomplete" => phase = "dispatch"
    PROVE  ListInv'
<1>1. incomplete \in Seq(Connections) /\ Len(incomplete) \in Nat
  BY LenProperties DEF TypeOK
<1>2. Listed(incomplete, conn)
  BY DEF ListInv
<1>3. /\ incomplete' \in Seq(Connections)
      /\ \A i, j \in 1..Len(incomplete') : incomplete'[i] = incomplete'[j] => i = j
      /\ \A d \in Connections :
           (\E i \in 1..Len(incomplete') : incomplete'[i] = d)
             <=> d # c /\ \E i \in 1..Len(incomplete) : incomplete[i] = d
      /\ Len(incomplete') <= Len(incomplete)
      /\ (\E i \in 1..Len(incomplete) : incomplete[i] = c)
           => Len(incomplete') = Len(incomplete) - 1
  <2> DEFINE left == Unlinked(incomplete, c)
  <2>1. \A i, j \in 1..Len(incomplete) : incomplete[i] = incomplete[j] => i = j
    BY <1>2 DEF Listed
  <2>2. incomplete \in Seq(Connections)
    BY <1>1
  <2>3. /\ left \in Seq(Connections)
        /\ \A i, j \in 1..Len(left) : left[i] = left[j] => i = j
        /\ \A d \in Connections :
             (\E i \in 1..Len(left) : left[i] = d)
               <=> d # c /\ \E i \in 1..Len(incomplete) : incomplete[i] = d
        /\ Len(left) <= Len(incomplete)
        /\ (\E i \in 1..Len(incomplete) : incomplete[i] = c) => Len(left) = Len(incomplete) - 1
    BY ONLY <2>1, <2>2, UnlinkedProperties, c \in Connections
  <2> QED BY <2>3
<1>4. Len(incomplete') \in Nat
  BY <1>3, LenProperties
<1>5. Listed(incomplete', conn')
  <2>1. ASSUME NEW d \in Connections
        PROVE  conn'[d].state = "incomplete" <=> \E i \in 1..Len(incomplete') : incomplete'[i] = d
    BY <1>2, <1>3 DEF Becomes, Listed
  <2> QED BY <2>1, <1>3 DEF Listed
<1>6. CASE conn[c].state = "incomplete"
  <2>1. Len(incomplete') = Len(incomplete) - 1
    BY <1>2, <1>3, <1>6 DEF Listed
  <2> QED BY <2>1, <1>1, <1>4, <1>5 DEF ListInv
<1>7. CASE conn[c].state # "incomplete"
  <2>1. \A i \in 1..Len(incomplete) : incomplete[i] # c
    BY <1>2, <1>7 DEF Listed
  <2>2. incomplete' = incomplete
    BY <2>1 DEF Unlinked
  <2>3. ASSUME NEW i \in 1..Len(incomplete), ~conn[incomplete[i]].open
        PROVE  ~conn'[incomplete[i]].open
    <3>1. incomplete[i] \in Connections \ {c}
      BY <2>1, <1>1, ElementOfSeq
    <3> QED BY <3>1, <2>3 DEF Becomes
  <2>4. /\ Len(incomplete) <= MaxIncomplete + 1
        /\ Len(incomplete) > MaxIncomplete =>
             /\ phase = "dispatch"
             /\ \E i \in 1..Len(incomplete) : ~conn[incomplete[i]].open
    BY DEF ListInv
  <2>5. Len(incomplete') > MaxIncomplete =>
           /\ phase' = "dispatch"
           /\ \E i \in 1..Len(incomplete') : ~conn'[incomplete'[i]].open
    BY <2>2, <2>3, <2>4
  <2> QED BY <2>2, <2>4, <2>5, <1>5 DEF ListInv
<1> QED BY <1>6, <1>7

(* A step that keeps the states ends the dispatch only when nobody who is   *)
(* closed is left.                                                         *)
LEMMA KeptListed ==
    ASSUME TypeOK, ListInv, StatesKept, [Next]_vars
    PROVE  ListInv'
<1>1. Listed(incomplete', conn')
  BY DEF StatesKept, Listed, ListInv
<1>2. \A i \in 1..Len(incomplete) : incomplete[i] \in Connections
  BY ElementOfSeq DEF TypeOK
<1>3. CASE EndOfIteration
  <2>1. ASSUME NEW i \in 1..Len(incomplete) PROVE conn[incomplete[i]].open
    <3>1. conn[incomplete[i]].state = "incomplete"
      BY <1>2 DEF ListInv, Listed
    <3> QED BY <3>1, <1>2, <1>3 DEF EndOfIteration, NeedsDispatch, TypeOK, ConnectionData
  <2> QED BY <2>1, <1>1, <1>3 DEF StatesKept, ListInv, EndOfIteration
<1>4. CASE ~EndOfIteration
  <2>1. phase = "dispatch" => phase' = "dispatch"
    BY <1>4 DEF Next, vars, Iterate, Tick, Timeout, Poll, EndOfWatches,
         AcceptNoMemory, ReadClient, ReadHangUp, Accept, HelloRefused, Hello, HelloNoMemory,
         Other, Disconnected
  <2>2. \A i \in 1..Len(incomplete) : ~conn[incomplete[i]].open => ~conn'[incomplete[i]].open
    BY <1>2 DEF StatesKept
  <2> QED BY <2>1, <2>2, <1>1 DEF StatesKept, ListInv
<1> QED BY <1>3, <1>4

(* Every step keeps the list in order.                                     *)
LEMMA ListStep == TypeOK /\ ListInv /\ [Next]_vars => ListInv'
<1> SUFFICES ASSUME TypeOK, ListInv, [Next]_vars PROVE ListInv'
  OBVIOUS
<1>1. ASSUME NEW c \in Connections, Hello(c) PROVE ListInv'
  <2>1. /\ Becomes(c, "completed", conn[c].user)
        /\ conn[c].state = "incomplete"
        /\ incomplete' = Unlinked(incomplete, c)
    BY <1>1, Completion
  <2>2. phase' = phase
    BY <1>1 DEF Hello
  <2> QED BY <2>1, <2>2, DepartureListed
<1>2. ASSUME NEW c \in Connections, Disconnected(c) PROVE ListInv'
  <2>1. Becomes(c, "free", Anonymous) /\ incomplete' = Unlinked(incomplete, c)
    BY <1>2, Departure
  <2>2. phase' = phase /\ phase = "dispatch"
    BY <1>2 DEF Disconnected
  <2> QED BY <2>1, <2>2, DepartureListed
<1> QED BY <1>1, <1>2, Steps, KeptListed, ArrivalListed

-----------------------------------------------------------------------------
(* The counts. *)

\* No user is counted too low, and nobody too high unless memory ran out.
CountInv ==
    /\ Cardinality(Completed) <= MaxCompleted
    /\ \A u \in Users :
        /\ byUser[u] >= Cardinality(CompletedOf(u))
        /\ shortages = 0 => byUser[u] = Cardinality(CompletedOf(u))
        /\ Cardinality(CompletedOf(u)) <= MaxPerUser

(* There are finitely many connections to count.                           *)
LEMMA FinitelyMany ==
    /\ IsFiniteSet(Completed) /\ Cardinality(Completed) \in Nat
    /\ \A u : IsFiniteSet(CompletedOf(u)) /\ Cardinality(CompletedOf(u)) \in Nat
<1>1. IsFiniteSet(Completed)
  BY FS_Subset DEF Completed
<1>2. ASSUME NEW u PROVE IsFiniteSet(CompletedOf(u))
  BY <1>1, FS_Subset DEF CompletedOf
<1> QED BY <1>1, <1>2, FS_CardinalityType

(* While the states stay, nobody is counted anew.                          *)
LEMMA SameCounts ==
    ASSUME StatesKept
    PROVE  Completed' = Completed /\ \A u : CompletedOf(u)' = CompletedOf(u)
  BY DEF StatesKept, Completed, CompletedOf

(* Who neither was nor is completed is not counted.                        *)
LEMMA UncountedStep ==
    ASSUME NEW c \in Connections, NEW state, NEW user, Becomes(c, state, user),
           conn[c].state # "completed", state # "completed"
    PROVE  Completed' = Completed /\ \A u : CompletedOf(u)' = CompletedOf(u)
<1>1. Completed' = Completed
  BY DEF Becomes, Completed
<1>2. ASSUME NEW u PROVE CompletedOf(u)' = CompletedOf(u)
  BY <1>1 DEF Becomes, Completed, CompletedOf
<1> QED BY <1>1, <1>2

(* One more, or one less, in total and of its user, while the others stay. *)
LEMMA CountedStep ==
    ASSUME TypeOK, NEW c \in Connections
    PROVE  /\ Becomes(c, "completed", conn[c].user) /\ conn[c].state # "completed" =>
               /\ Completed' = Completed \union {c} /\ c \notin Completed
               /\ \A u : CompletedOf(u)' =
                    IF u = conn[c].user THEN CompletedOf(u) \union {c} ELSE CompletedOf(u)
               /\ \A u : c \notin CompletedOf(u)
           /\ Becomes(c, "free", Anonymous) /\ conn[c].state = "completed" =>
               /\ Completed' = Completed \ {c} /\ c \in Completed
               /\ \A u : CompletedOf(u)' =
                    IF u = conn[c].user THEN CompletedOf(u) \ {c} ELSE CompletedOf(u)
               /\ c \in CompletedOf(conn[c].user)
<1>1. ASSUME Becomes(c, "completed", conn[c].user), conn[c].state # "completed"
      PROVE  /\ Completed' = Completed \union {c} /\ c \notin Completed
             /\ \A u : CompletedOf(u)' =
                  IF u = conn[c].user THEN CompletedOf(u) \union {c} ELSE CompletedOf(u)
             /\ \A u : c \notin CompletedOf(u)
  <2>1. Completed' = Completed \union {c} /\ c \notin Completed
    BY <1>1 DEF Becomes, Completed
  <2>2. ASSUME NEW u
        PROVE  CompletedOf(u)' =
                  IF u = conn[c].user THEN CompletedOf(u) \union {c} ELSE CompletedOf(u)
    BY <1>1, <2>1 DEF Becomes, Completed, CompletedOf
  <2> QED BY <2>1, <2>2 DEF CompletedOf
<1>2. ASSUME Becomes(c, "free", Anonymous), conn[c].state = "completed"
      PROVE  /\ Completed' = Completed \ {c} /\ c \in Completed
             /\ \A u : CompletedOf(u)' =
                  IF u = conn[c].user THEN CompletedOf(u) \ {c} ELSE CompletedOf(u)
             /\ c \in CompletedOf(conn[c].user)
  <2>1. Completed' = Completed \ {c} /\ c \in Completed
    BY <1>2 DEF Becomes, Completed
  <2>2. ASSUME NEW u
        PROVE  CompletedOf(u)' =
                  IF u = conn[c].user THEN CompletedOf(u) \ {c} ELSE CompletedOf(u)
    BY <1>2, <2>1 DEF Becomes, Completed, CompletedOf
  <2> QED BY <2>1, <2>2 DEF CompletedOf
<1> QED BY <1>1, <1>2

(* A Hello is let through only below the limits, and counted at once.      *)
LEMMA HelloCounted ==
    ASSUME TypeOK, CountInv, NEW c \in Connections, Hello(c)
    PROVE  CountInv'
<1>1. Becomes(c, "completed", conn[c].user) /\ conn[c].state # "completed"
  BY Completion
<1>2. /\ Completed' = Completed \union {c} /\ c \notin Completed
      /\ \A u : CompletedOf(u)' =
           IF u = conn[c].user THEN CompletedOf(u) \union {c} ELSE CompletedOf(u)
      /\ \A u : c \notin CompletedOf(u)
  BY <1>1, CountedStep
<1>3. CheckLimits(c) /\ Adjust(c, 1) /\ UNCHANGED shortages
  BY DEF Hello, Welcome
<1>4. Cardinality(Completed') = Cardinality(Completed) + 1
  BY <1>2, FinitelyMany, FS_AddElement
<1>5. Cardinality(Completed') <= MaxCompleted
  BY <1>3, <1>4, FinitelyMany DEF CheckLimits
<1>6. ASSUME NEW u \in Users
      PROVE  /\ byUser'[u] >= Cardinality(CompletedOf(u)')
             /\ shortages' = 0 => byUser'[u] = Cardinality(CompletedOf(u)')
             /\ Cardinality(CompletedOf(u)') <= MaxPerUser
  <2>1. /\ byUser[u] >= Cardinality(CompletedOf(u))
        /\ shortages = 0 => byUser[u] = Cardinality(CompletedOf(u))
        /\ Cardinality(CompletedOf(u)) <= MaxPerUser
        /\ byUser[u] \in Int /\ Cardinality(CompletedOf(u)) \in Nat
    BY FinitelyMany DEF CountInv, TypeOK
  <2>2. CASE u = conn[c].user
    <3>1. Cardinality(CompletedOf(u)') = Cardinality(CompletedOf(u)) + 1
      <4>1. CompletedOf(u)' = CompletedOf(u) \union {c} /\ c \notin CompletedOf(u)
        BY <1>2, <2>2
      <4> QED BY <4>1, FinitelyMany, FS_AddElement
    <3>2. byUser'[u] = byUser[u] + 1
      BY <1>3, <2>2 DEF Adjust
    <3>3. byUser[u] < MaxPerUser
      BY <1>3, <2>2 DEF CheckLimits
    <3> QED BY <1>3, <2>1, <3>1, <3>2, <3>3
  <2>3. CASE u # conn[c].user
    <3>1. CompletedOf(u)' = CompletedOf(u)
      BY <1>2, <2>3
    <3>2. byUser'[u] = byUser[u]
      BY <1>3, <2>3 DEF Adjust
    <3> QED BY <1>3, <2>1, <3>1, <3>2
  <2> QED BY <2>2, <2>3
<1> QED BY <1>5, <1>6 DEF CountInv

(* A departure is counted exactly if the connection had been.              *)
LEMMA DepartureCounted ==
    ASSUME TypeOK, CountInv, NEW c \in Connections, Disconnected(c)
    PROVE  CountInv'
<1>1. Becomes(c, "free", Anonymous) /\ UNCHANGED shortages
  BY Departure DEF Disconnected
<1>2. CASE conn[c].state # "completed"
  <2>1. UNCHANGED byUser
    BY <1>2 DEF Disconnected
  <2>2. Completed' = Completed /\ \A u : CompletedOf(u)' = CompletedOf(u)
    BY <1>1, <1>2, UncountedStep
  <2> QED BY <1>1, <2>1, <2>2 DEF CountInv
<1>3. CASE conn[c].state = "completed"
  <2>1. /\ Completed' = Completed \ {c} /\ c \in Completed
        /\ \A u : CompletedOf(u)' =
             IF u = conn[c].user THEN CompletedOf(u) \ {c} ELSE CompletedOf(u)
        /\ c \in CompletedOf(conn[c].user)
    BY <1>1, <1>3, CountedStep
  <2>2. Adjust(c, -1)
    BY <1>3 DEF Disconnected
  <2>3. Cardinality(Completed') = Cardinality(Completed) - 1
    BY <2>1, FinitelyMany, FS_RemoveElement
  <2>4. Cardinality(Completed') <= MaxCompleted
    BY <2>3, FinitelyMany DEF CountInv
  <2>5. ASSUME NEW u \in Users
        PROVE  /\ byUser'[u] >= Cardinality(CompletedOf(u)')
               /\ shortages' = 0 => byUser'[u] = Cardinality(CompletedOf(u)')
               /\ Cardinality(CompletedOf(u)') <= MaxPerUser
    <3>1. /\ byUser[u] >= Cardinality(CompletedOf(u))
          /\ shortages = 0 => byUser[u] = Cardinality(CompletedOf(u))
          /\ Cardinality(CompletedOf(u)) <= MaxPerUser
          /\ byUser[u] \in Int /\ Cardinality(CompletedOf(u)) \in Nat
      BY FinitelyMany DEF CountInv, TypeOK
    <3>2. CASE u = conn[c].user
      <4>1. Cardinality(CompletedOf(u)') = Cardinality(CompletedOf(u)) - 1
        <5>1. CompletedOf(u)' = CompletedOf(u) \ {c} /\ c \in CompletedOf(u)
          BY <2>1, <3>2
        <5> QED BY <5>1, FinitelyMany, FS_RemoveElement
      <4>2. byUser'[u] = byUser[u] + (-1)
        BY <2>2, <3>2 DEF Adjust
      <4> QED BY <1>1, <3>1, <4>1, <4>2
    <3>3. CASE u # conn[c].user
      <4>1. CompletedOf(u)' = CompletedOf(u)
        BY <2>1, <3>3
      <4>2. byUser'[u] = byUser[u]
        BY <2>2, <3>3 DEF Adjust
      <4> QED BY <1>1, <3>1, <4>1, <4>2
    <3> QED BY <3>2, <3>3
  <2> QED BY <2>4, <2>5 DEF CountInv
<1> QED BY <1>2, <1>3

(* A Hello that runs out of memory may leave a count, which is too high     *)
(* from then on and never too low.                                         *)
LEMMA KeptCounted ==
    ASSUME TypeOK, CountInv, StatesKept, [Next]_vars,
           \A c \in Connections : ~Hello(c) /\ ~Disconnected(c)
    PROVE  CountInv'
<1>1. Completed' = Completed /\ \A u : CompletedOf(u)' = CompletedOf(u)
  BY SameCounts
<1>2. \/ UNCHANGED byUser /\ (shortages' = shortages \/ shortages' = shortages + 1)
      \/ \E c \in Connections : Adjust(c, 1) /\ shortages' = shortages + 1
  BY DEF Next, vars, Iterate, Tick, Timeout, Poll, EndOfWatches, EndOfIteration,
         AcceptNoMemory, ReadClient, ReadHangUp, Accept, SetupConnection, HelloRefused,
         HelloNoMemory, Other
<1>3. shortages \in Nat
  BY DEF TypeOK
<1>4. CASE UNCHANGED byUser /\ (shortages' = shortages \/ shortages' = shortages + 1)
  BY <1>1, <1>3, <1>4 DEF CountInv
<1>5. ASSUME NEW c \in Connections, Adjust(c, 1), shortages' = shortages + 1
      PROVE  CountInv'
  <2>1. \A u \in Users : byUser'[u] = byUser[u] \/ byUser'[u] = byUser[u] + 1
    BY <1>5 DEF Adjust
  <2>2. \A u \in Users : byUser[u] \in Int /\ Cardinality(CompletedOf(u)) \in Nat
    BY FinitelyMany DEF TypeOK
  <2> QED BY <1>1, <1>3, <1>5, <2>1, <2>2 DEF CountInv
<1> QED BY <1>2, <1>4, <1>5

(* Every step keeps the counts.                                            *)
LEMMA CountStep == TypeOK /\ CountInv /\ [Next]_vars => CountInv'
<1> SUFFICES ASSUME TypeOK, CountInv, [Next]_vars PROVE CountInv'
  OBVIOUS
<1>1. ASSUME NEW c \in Connections, NEW u \in Users \union {Anonymous}, Accept(c, u)
      PROVE  CountInv'
  <2>1. /\ Becomes(c, "incomplete", u) /\ conn[c].state = "free"
        /\ UNCHANGED <<byUser, shortages>>
    BY <1>1, Arrival
  <2>2. Completed' = Completed /\ \A v : CompletedOf(v)' = CompletedOf(v)
    BY <2>1, UncountedStep
  <2> QED BY <2>1, <2>2 DEF CountInv
<1> QED BY <1>1, Steps, KeptCounted, HelloCounted, DepartureCounted

-----------------------------------------------------------------------------
(* The names. *)

\* Every name given is behind the counters: its major number is lower, or
\* the same and the minor one is lower or has run over.
NameInv ==
    /\ Cardinality(used) = given
    /\ \A name \in used :
        \/ name[1] < next.major
        \/ name[1] = next.major /\ (next.minor <= 0 \/ name[2] < next.minor)

(* The next name is new, and behind the counters once they are increased:   *)
(* a minor number that runs over is negative, which starts a new major one. *)
LEMMA NameStep == TypeOK /\ NameInv /\ [Next]_vars => NameInv'
<1> SUFFICES ASSUME TypeOK, NameInv, [Next]_vars PROVE NameInv'
  OBVIOUS
<1>1. /\ next.major \in Nat /\ next.minor \in Int /\ next.minor <= MaxInt
      /\ MaxInt \in Nat /\ MaxInt > 0
      /\ \A name \in used : name[1] \in Nat /\ name[2] \in Nat
      /\ IsFiniteSet(used) /\ given \in Nat
  BY DEF TypeOK
<1>2. UniqueName \notin used
  <2>1. CASE next.minor <= 0
    BY <2>1, <1>1 DEF UniqueName, NameInv
  <2>2. CASE ~(next.minor <= 0)
    BY <2>2, <1>1 DEF UniqueName, NameInv
  <2> QED BY <2>1, <2>2
<1>3. ASSUME Numbered
      PROVE  \A name \in used \union {UniqueName} :
               \/ name[1] < next'.major
               \/ name[1] = next'.major /\ (next'.minor <= 0 \/ name[2] < next'.minor)
  <2>1. CASE next.minor <= 0
    <3>1. UniqueName = <<next.major + 1, 0>>
      BY <2>1 DEF UniqueName
    <3>2. next'.major = next.major + 1 /\ next'.minor = 1
      BY <1>1, <1>3, <3>1 DEF Numbered, Wrapped
    <3> QED BY <1>1, <3>1, <3>2 DEF NameInv
  <2>2. CASE ~(next.minor <= 0)
    <3>1. UniqueName = <<next.major, next.minor>>
      BY <2>2 DEF UniqueName
    <3>2. next'.major = next.major /\ (next'.minor = next.minor + 1 \/ next'.minor < 0)
      BY <1>1, <1>3, <3>1 DEF Numbered, Wrapped
    <3>3. next'.minor \in Int
      BY <1>3, NumbersAreNumbers DEF Numbered
    <3>4. \A name \in used :
            \/ name[1] < next.major
            \/ name[1] = next.major /\ name[2] < next.minor
      BY <2>2, <1>1 DEF NameInv
    <3>5. ASSUME NEW name \in used
          PROVE  \/ name[1] < next'.major
                 \/ name[1] = next'.major /\ (next'.minor <= 0 \/ name[2] < next'.minor)
      <4>1. CASE next'.minor < 0
        BY <3>2, <3>4, <3>3, <4>1, <1>1
      <4>2. CASE next'.minor = next.minor + 1
        BY <3>2, <3>4, <4>2, <1>1
      <4> QED BY <3>2, <4>1, <4>2
    <3>6. UniqueName[1] = next'.major /\ (next'.minor <= 0 \/ UniqueName[2] < next'.minor)
      BY <1>1, <3>1, <3>2, <3>3
    <3> QED BY <3>5, <3>6
  <2> QED BY <2>1, <2>2
<1>4. ASSUME NEW c \in Connections, Hello(c) PROVE NameInv'
  <2>1. used' = used \union {UniqueName} /\ given' = given + 1 /\ Numbered
    BY <1>4 DEF Hello
  <2>2. Cardinality(used') = given'
    BY <1>1, <1>2, <2>1, FS_AddElement DEF NameInv
  <2> QED BY <1>3, <2>1, <2>2 DEF NameInv
<1>5. ASSUME NEW c \in Connections, HelloNoMemory(c) PROVE NameInv'
  <2>1. /\ next' = [major |-> UniqueName[1], minor |-> UniqueName[2]] \/ Numbered
        /\ UNCHANGED <<used, given>>
    BY <1>5 DEF HelloNoMemory
  <2>2. CASE Numbered
    BY <2>1, <2>2, <1>3 DEF NameInv
  <2>3. CASE next' = [major |-> UniqueName[1], minor |-> UniqueName[2]]
    <3>1. next'.major = UniqueName[1] /\ next'.minor = UniqueName[2]
      BY <2>3
    <3>2. \/ next'.major = next.major + 1
          \/ next'.major = next.major /\ next'.minor = next.minor
      BY <3>1 DEF UniqueName
    <3> QED BY <1>1, <2>1, <3>2 DEF NameInv
  <2> QED BY <2>1, <2>2, <2>3
<1>6. \/ UNCHANGED <<next, used, given>>
      \/ \E c \in Connections : Hello(c) \/ HelloNoMemory(c)
  BY DEF Next, vars, Iterate, Tick, Timeout, Poll, EndOfWatches, EndOfIteration,
         AcceptNoMemory, ReadClient, ReadHangUp, Accept, SetupConnection, HelloRefused,
         Other, Disconnected
<1> QED BY <1>4, <1>5, <1>6 DEF NameInv

-----------------------------------------------------------------------------

\* The inductive invariant.
AdmissionInv == TypeOK /\ ListInv /\ CountInv /\ NameInv

(* The daemon starts with nobody on the list, nobody counted and no name    *)
(* given.                                                                  *)
LEMMA AdmissionInit == Init => AdmissionInv
<1> SUFFICES ASSUME Init PROVE AdmissionInv
  OBVIOUS
<1>1. TypeOK
  BY TypeInit
<1>2. \A c \in Connections : conn[c].state = "free"
  BY DEF Init, Free
<1>3. ListInv
  BY <1>2 DEF Init, ListInv, Listed
<1>4. Completed = {} /\ \A u \in Users : CompletedOf(u) = {}
  BY <1>2 DEF Completed, CompletedOf
<1>5. CountInv
  <2>1. MaxCompleted \in Nat /\ MaxPerUser \in Nat
    BY LimitsAssumption
  <2>2. Cardinality({}) = 0
    BY FS_EmptySet
  <2>3. \A u \in Users : byUser[u] = 0
    BY DEF Init
  <2> QED BY <1>4, <2>1, <2>2, <2>3 DEF CountInv
<1>6. NameInv
  BY FS_EmptySet DEF NameInv, Init
<1> QED BY <1>1, <1>3, <1>5, <1>6 DEF AdmissionInv

(* The invariant holds in every state of the daemon.                       *)
LEMMA AdmissionInvariant == Spec => []AdmissionInv
<1>1. AdmissionInv /\ [Next]_vars => AdmissionInv'
  BY TypeStep, ListStep, CountStep, NameStep DEF AdmissionInv
<1> QED BY <1>1, AdmissionInit, PTL DEF Spec

(* completed_by_user counts every user's completed connections exactly      *)
(* (adjust_connections_for_uid), as long as no Hello ran out of memory.     *)
THEOREM UsersAreCounted == Spec => []UserCountsExact
<1>1. AdmissionInv => UserCountsExact
  BY DEF AdmissionInv, CountInv, UserCountsExact
<1> QED BY <1>1, AdmissionInvariant, PTL

(* The limits of the configuration hold (bus_connections_check_limits, and  *)
(* the list that bus_connections_setup_connection keeps short), memory or   *)
(* not.                                                                    *)
THEOREM LimitsAreKept == Spec => []LimitsHold
<1>1. AdmissionInv => LimitsHold
  BY DEF AdmissionInv, CountInv, ListInv, LimitsHold
<1> QED BY <1>1, AdmissionInvariant, PTL

(* create_unique_client_name never makes a name twice, for any size of int. *)
THEOREM NamesAreUnique == Spec => []NamesNeverReused
<1>1. AdmissionInv => NamesNeverReused
  BY DEF AdmissionInv, NameInv, NamesNeverReused
<1> QED BY <1>1, AdmissionInvariant, PTL
=============================================================================
