----------------------------- MODULE NameQueue -----------------------------
(***************************************************************************)
(* What the name service promises, operation by operation: every name has  *)
(* a queue of clients, and RequestName, ReleaseName, Hello and a client's  *)
(* departure each change queues in one step.  There are no transactions,   *)
(* signals or cancel hooks here.                                           *)
(***************************************************************************)
EXTENDS Naturals, FiniteSets, Sequences, SequencesExt

CONSTANTS Conn, Name, MayOwn, MaxServices, Flags

VARIABLE queue

AnyName == Name \cup Conn

Init == queue = [n \in AnyName |-> <<>>]

Owner(c, f) == [conn |-> c, allow |-> f.allow, noqueue |-> f.noqueue]

In(q, c) == \E i \in DOMAIN q : q[i].conn = c

(* A client is in a queue once. *)
Without(q, c) ==
  IF In(q, c) THEN RemoveAt(q, CHOOSE i \in DOMAIN q : q[i].conn = c) ELSE q

(* The queue after c asked for the name with flags f.  Who may not replace *)
(* the owner, but asked to, is put right behind it: so does services.c;    *)
(* doc/dbus-specification.xml has such a client appended, or left where it *)
(* waits.                                                                  *)
Asked(q, c, f) ==
  LET new  == <<Owner(c, f)>>
      rest == Without(Tail(q), c)
  IN  IF q = <<>> \/ q[1].conn = c
        THEN new \o (IF q = <<>> THEN <<>> ELSE Tail(q))
      ELSE IF f.replace /\ q[1].allow
        THEN new \o (IF q[1].noqueue THEN <<>> ELSE <<q[1]>>) \o rest
      ELSE IF f.noqueue
        THEN <<q[1]>> \o rest
      ELSE IF f.replace
        THEN <<q[1]>> \o new \o rest
      ELSE IF In(q, c)
        THEN [i \in DOMAIN q |-> IF q[i].conn = c THEN new[1] ELSE q[i]]
      ELSE q \o new

(* A client is on the bus while it owns its unique name. *)
Here(c) == queue[c] # <<>>

Names(c) == {n \in AnyName : In(queue[n], c)}

Appear(c) ==
  /\ ~Here(c)
  /\ queue' = [queue EXCEPT ![c] = <<[conn |-> c, allow |-> FALSE, noqueue |-> FALSE]>>]

Request(c, n, f) ==
  /\ Here(c) /\ <<c, n>> \in MayOwn
  /\ Cardinality(Names(c)) < MaxServices
  /\ queue' = [queue EXCEPT ![n] = Asked(@, c, f)]

(* ReleaseName, and each step of a departure. *)
Leave(c, n) ==
  /\ n \in Names(c)
  /\ queue' = [queue EXCEPT ![n] = Without(@, c)]

(* The unique name goes when no other name is left. *)
Depart(c) ==
  /\ Names(c) = {c}
  /\ queue' = [queue EXCEPT ![c] = <<>>]

Next ==
  \E c \in Conn :
    \/ Appear(c) \/ Depart(c)
    \/ \E n \in Name : Leave(c, n) \/ \E f \in Flags : Request(c, n, f)

Spec == Init /\ [][Next]_queue

=============================================================================
