----------------------------- MODULE AuthProofs -----------------------------
(***************************************************************************)
(* Proofs about Auth, for any messages, any sets of allowed mechanisms and   *)
(* any number of failures, lines and shortages of memory: whoever is let in  *)
(* as a user has proved to be that user.                                     *)
(***************************************************************************)
EXTENDS Auth, SequenceTheorems, TLAPS

USE BoundsAssumption, MechanismsAssumption

-----------------------------------------------------------------------------
(* The invariant. *)

Mechanisms == {"EXTERNAL", "DBUS_COOKIE_SHA1", "ANONYMOUS"}

Commands == {"nul", "eol", "message", "AUTH", "DATA", "CANCEL", "BEGIN", "ERROR",
             "REJECTED", "OK", "NEGOTIATE_UNIX_FD", "AGREE_UNIX_FD"}

Arguments == Mechanisms \cup {"", "guid"}

Words == {"", "user", "other", "trace", "hash", "challenge"}

Tokens ==
    [cmd : Commands, arg : Arguments \cup {Messages[i] : i \in Nat}, data : Words]

\* What a client may say: only who can read the cookie has the hash.
Told == {t \in Tokens : t.data = "hash" => env.knows}

\* What may come to each end.
Heard(s) == IF s = "server" THEN Told ELSE Tokens

Stream(s) == Seq(Heard(s))

MechanismLists == Seq(Mechanisms)

StatesOf(s) ==
    IF s = "server"
    THEN {"WaitingForAuth", "WaitingForData", "WaitingForBegin",
          "Authenticated", "NeedDisconnect"}
    ELSE {"WaitingForData", "WaitingForReject", "WaitingForAgreeUnixFD",
          "Authenticated", "NeedDisconnect"}

\* One end of the conversation, of the types its fields have.
AuthType(s) ==
    [state : StatesOf(s), mech : Mechanisms \cup {"none"},
     incoming : Stream(s), outgoing : Stream(Other(s)),
     identity : Words, asked : BOOLEAN, cookie : BOOLEAN, desired : Words,
     authorized : {"", "user"}, failures : Nat,
     guid : BOOLEAN, fd : BOOLEAN, listed : BOOLEAN, tries : MechanismLists,
     credentials : {"send", "receive", "none"},
     authenticated : BOOLEAN, recovered : BOOLEAN, gone : BOOLEAN]

\* The mechanism that is in use has been allowed, and an identity was
\* authorized only where that mechanism proves it.
Chosen(p) ==
    /\ p.mech \in env.allowed
    /\ p.authorized = "user" => Working(p.mech)

\* Before a mechanism is chosen nobody is authorized, unless the handler of
\* AUTH ran out of memory behind that: then it runs again, for the same
\* mechanism.
NotChosen(p) ==
    p.authorized = "user" =>
        /\ Starving(p)
        /\ Head(p.incoming).cmd = "AUTH" /\ Working(Head(p.incoming).arg)

Proved(p) ==
    /\ p.cookie => env.keyring
    /\ p.state = "WaitingForAuth" => NotChosen(p)
    /\ p.state \in {"WaitingForData", "WaitingForBegin", "Authenticated"} => Chosen(p)
    /\ p.authenticated => p.state = "Authenticated" /\ Allow(p)

EndInv(s, p) == p \in AuthType(s) /\ (s = "server" => Proved(p))

AuthInv ==
    /\ env \in Environments
    /\ DOMAIN peer = Sides
    /\ \A s \in Sides : EndInv(s, peer[s])
    /\ DOMAIN net = Sides
    /\ \A s \in Sides : net[s] \in Stream(s)
    /\ sent \in Nat

-----------------------------------------------------------------------------
(* The tokens. *)

(* A line of the protocol is two tokens, and one that anybody may say       *)
(* unless it holds the hash.                                               *)
LEMMA LinesAreTokens ==
    ASSUME NEW c \in Commands, NEW arg \in Arguments, NEW data \in Words
    PROVE  /\ Line(c, arg, data) \in Seq(Tokens)
           /\ (data = "hash" => env.knows) => Line(c, arg, data) \in Seq(Told)
<1>1. Token(c, arg, data) \in Tokens /\ Token(c, arg, data).data = data
  BY DEF Token, Tokens
<1>2. Eol \in Tokens /\ Eol.data # "hash"
  BY DEF Token, Tokens, Eol, Commands, Words, Arguments
<1>3. PICK t, e : t = Token(c, arg, data) /\ e = Eol
  OBVIOUS
<1>4. t \in Tokens /\ e \in Tokens /\ t.data = data /\ e.data # "hash"
  BY <1>1, <1>2, <1>3
<1>5. (data = "hash" => env.knows) => t \in Told /\ e \in Told
  BY <1>4 DEF Told
<1>6. \A S : t \in S /\ e \in S => <<t, e>> \in Seq(S)
  OBVIOUS
<1>7. Line(c, arg, data) = <<t, e>>
  BY <1>3 DEF Line
<1> QED BY <1>4, <1>5, <1>6, <1>7

LEMMA HeardTokens ==
    /\ Heard("server") = Told /\ Heard("client") = Tokens
    /\ Other("server") = "client" /\ Other("client") = "server"
    /\ \A s \in Sides : Other(s) \in Sides /\ Other(Other(s)) = s
    /\ \A s \in Sides : Heard(s) \subseteq Tokens
  BY DEF Heard, Told, Other, Sides

(* The lines of the conversation. *)
LEMMA ServerLines ==
    /\ Line("REJECTED", "", "") \in Stream("client")
    /\ Line("ERROR", "", "") \in Stream("client")
    /\ Line("OK", "guid", "") \in Stream("client")
    /\ Line("DATA", "", "") \in Stream("client")
    /\ Line("DATA", "", "challenge") \in Stream("client")
    /\ Line("AGREE_UNIX_FD", "", "") \in Stream("client")
<1>1. \A c \in Commands, arg \in Arguments, data \in Words :
        Line(c, arg, data) \in Seq(Tokens)
  BY LinesAreTokens
<1>2. /\ "REJECTED" \in Commands /\ "ERROR" \in Commands /\ "OK" \in Commands
      /\ "DATA" \in Commands /\ "AGREE_UNIX_FD" \in Commands
  BY DEF Commands
<1>3. "" \in Arguments /\ "guid" \in Arguments /\ "" \in Words /\ "challenge" \in Words
  BY DEF Arguments, Words
<1>4. Stream("client") = Seq(Tokens)
  BY HeardTokens DEF Stream
<1> HIDE DEF Stream
<1> QED BY <1>1, <1>2, <1>3, <1>4

\* Two ends that differ in what is of no account to who is let in.
Like(s, p, q) ==
    /\ q \in AuthType(s)
    /\ q.state = p.state /\ q.mech = p.mech /\ q.incoming = p.incoming
    /\ q.cookie = p.cookie /\ q.authorized = p.authorized
    /\ q.authenticated = p.authenticated

(* To say a line changes what is to be written only. *)
LEMMA SayLike ==
    ASSUME NEW s \in Sides, NEW p \in AuthType(s), NEW x \in Stream(Other(s))
    PROVE  Like(s, p, Say(p, x))
<1>1. p.outgoing \in Stream(Other(s))
  BY DEF AuthType
<1>2. PICK out : out = p.outgoing \o x /\ out \in Stream(Other(s))
  BY <1>1, ConcatProperties DEF Stream
<1>3. PICK q : q = [p EXCEPT !.outgoing = out]
  OBVIOUS
<1>4. q \in AuthType(s)
  <2>1. [p EXCEPT !.outgoing = out] \in AuthType(s)
    BY <1>2 DEF AuthType
  <2> QED BY <1>3, <2>1
<1>5. Say(p, x) = q
  BY <1>2, <1>3 DEF Say
<1>6. Like(s, p, q)
  BY <1>3, <1>4 DEF Like, AuthType
<1> QED BY <1>5, <1>6

(* shutdown_mech: nobody is authorized any more. *)
LEMMA ShutdownMechForgets ==
    ASSUME NEW s \in Sides, NEW p \in AuthType(s)
    PROVE  \E q \in AuthType(s) :
             /\ q = ShutdownMech(p)
             /\ q.authorized = "" /\ ~q.cookie
             /\ q.incoming = p.incoming /\ q.authenticated = p.authenticated
             /\ q.failures = p.failures /\ q.state = p.state
<1>1. PICK id, auth, mech : /\ id = "" /\ auth = "" /\ mech = "none"
                            /\ id \in Words /\ auth \in {"", "user"}
                            /\ mech \in Mechanisms \cup {"none"}
  BY DEF Words
<1>2. PICK q : q = [p EXCEPT !.asked = FALSE, !.identity = id, !.desired = id,
                             !.authorized = auth, !.cookie = FALSE, !.mech = mech]
  OBVIOUS
<1>3. q \in AuthType(s)
  <2>1. [p EXCEPT !.asked = FALSE, !.identity = id, !.desired = id,
                  !.authorized = auth, !.cookie = FALSE, !.mech = mech] \in AuthType(s)
    BY <1>1 DEF AuthType
  <2> QED BY <1>2, <2>1
<1>4. q = ShutdownMech(p)
  BY <1>1, <1>2 DEF ShutdownMech
<1>5. /\ q.authorized = "" /\ ~q.cookie
      /\ q.incoming = p.incoming /\ q.authenticated = p.authenticated
      /\ q.failures = p.failures /\ q.state = p.state
  BY <1>1, <1>2 DEF AuthType
<1> QED BY <1>3, <1>4, <1>5

LEMMA GotoKeeps ==
    ASSUME NEW s \in Sides, NEW p \in AuthType(s), NEW st \in StatesOf(s)
    PROVE  \E q \in AuthType(s) :
             /\ q = Goto(p, st)
             /\ q.state = st /\ q.mech = p.mech /\ q.incoming = p.incoming
             /\ q.cookie = p.cookie /\ q.authorized = p.authorized
             /\ q.authenticated = p.authenticated
<1>1. PICK q : q = [p EXCEPT !.state = st]
  OBVIOUS
<1>2. q \in AuthType(s)
  <2>1. [p EXCEPT !.state = st] \in AuthType(s)
    BY DEF AuthType
  <2> QED BY <1>1, <2>1
<1>3. /\ q.state = st /\ q.mech = p.mech /\ q.incoming = p.incoming
      /\ q.cookie = p.cookie /\ q.authorized = p.authorized
      /\ q.authenticated = p.authenticated
  BY <1>1 DEF AuthType
<1>4. q = Goto(p, st)
  BY <1>1 DEF Goto
<1> QED BY <1>2, <1>3, <1>4

-----------------------------------------------------------------------------
(* The server's handlers.                                                  *)

LEMMA ServerSide ==
    /\ "server" \in Sides /\ Other("server") = "client"
    /\ StatesOf("server") = {"WaitingForAuth", "WaitingForData", "WaitingForBegin",
                             "Authenticated", "NeedDisconnect"}
  BY DEF Sides, Other, StatesOf

\* What handling a command may make of the server p.
Handled(p, r) ==
    /\ r \in AuthType("server")
    /\ r.incoming = p.incoming /\ r.authenticated = p.authenticated
    /\ r.cookie => env.keyring
    /\ r.state = "WaitingForAuth" => r.authorized = ""
    /\ r.state \in {"WaitingForData", "WaitingForBegin", "Authenticated"} => Chosen(r)

(* send_rejected: whatever was authorized is forgotten (shutdown_mech).     *)
LEMMA RejectedHandled ==
    ASSUME NEW p \in AuthType("server")
    PROVE  Handled(p, SendRejected(p))
<1>1. PICK said : said = Say(p, Line("REJECTED", "", ""))
  OBVIOUS
<1>2. Like("server", p, said)
  BY <1>1, SayLike, ServerLines, ServerSide
<1>3. said \in AuthType("server")
  BY <1>2 DEF Like
<1>4. PICK q \in AuthType("server") :
             /\ q = ShutdownMech(said)
             /\ q.authorized = "" /\ ~q.cookie
             /\ q.incoming = said.incoming /\ q.authenticated = said.authenticated
             /\ q.failures = said.failures /\ q.state = said.state
  <2>1. "server" \in Sides
    BY ServerSide
  <2> QED BY <1>3, <2>1, ShutdownMechForgets
<1>5. PICK n \in Nat : n = q.failures + 1
  <2>1. q.failures \in Nat
    BY <1>4 DEF AuthType
  <2> QED BY <2>1
<1>6. PICK st \in {"NeedDisconnect", "WaitingForAuth"} :
        st = (IF p.failures + 1 >= MaxFailures THEN "NeedDisconnect" ELSE "WaitingForAuth")
  OBVIOUS
<1>7. PICK r : r = [q EXCEPT !.failures = n, !.state = st]
  OBVIOUS
<1>8. r \in AuthType("server")
  <2>1. st \in StatesOf("server")
    BY <1>6, ServerSide
  <2>2. [q EXCEPT !.failures = n, !.state = st] \in AuthType("server")
    BY <2>1 DEF AuthType
  <2> QED BY <1>7, <2>2
<1>9. /\ r.authorized = "" /\ ~r.cookie /\ r.incoming = p.incoming
      /\ r.authenticated = p.authenticated /\ r.state = st
  <2>1. /\ r.authorized = q.authorized /\ r.cookie = q.cookie /\ r.incoming = q.incoming
        /\ r.authenticated = q.authenticated /\ r.state = st
    BY <1>7 DEF AuthType
  <2> QED BY <2>1, <1>2, <1>4 DEF Like
<1>10. SendRejected(p) = r
  <2>1. SendRejected(p) =
          [q EXCEPT !.failures = q.failures + 1,
                    !.state = IF p.failures + 1 >= MaxFailures THEN "NeedDisconnect"
                              ELSE "WaitingForAuth"]
    BY <1>1, <1>4 DEF SendRejected
  <2> QED BY <2>1, <1>5, <1>6, <1>7
<1>11. Handled(p, r)
  BY <1>6, <1>8, <1>9 DEF Handled
<1> QED BY <1>10, <1>11

(* send_error leaves the server where it was. *)
LEMMA ErrorLike ==
    ASSUME NEW p \in AuthType("server")
    PROVE  Like("server", p, SendError(p))
  BY SayLike, ServerLines, ServerSide DEF SendError

(* send_ok: the server that chose a mechanism waits for BEGIN. *)
LEMMA OkHandled ==
    ASSUME NEW p \in AuthType("server"), Chosen(p), p.cookie => env.keyring
    PROVE  Handled(p, SendOk(p))
<1>1. PICK said : said = Say(p, Line("OK", "guid", ""))
  OBVIOUS
<1>2. Like("server", p, said)
  BY <1>1, SayLike, ServerLines, ServerSide
<1>3. said \in AuthType("server") /\ "WaitingForBegin" \in StatesOf("server")
  BY <1>2, ServerSide DEF Like
<1>4. PICK q \in AuthType("server") :
             /\ q = Goto(said, "WaitingForBegin")
             /\ q.state = "WaitingForBegin" /\ q.mech = said.mech
             /\ q.incoming = said.incoming
             /\ q.cookie = said.cookie /\ q.authorized = said.authorized
             /\ q.authenticated = said.authenticated
  BY <1>3, ServerSide, GotoKeeps
<1>5. SendOk(p) = q
  BY <1>1, <1>4 DEF SendOk
<1>6. Chosen(q)
  BY <1>2, <1>4 DEF Like, Chosen
<1>7. Handled(p, q)
  BY <1>2, <1>4, <1>6 DEF Handled, Like
<1> QED BY <1>5, <1>7

(* What Like leaves alone decides what Handled says. *)
LEMMA HandledLike ==
    ASSUME NEW p, NEW q, Like("server", p, q), NEW r, Handled(q, r)
    PROVE  Handled(p, r)
  BY DEF Like, Handled

LEMMA NamedLike ==
    ASSUME NEW p \in AuthType("server"), NEW data \in Words
    PROVE  Like("server", p, Named(p, data))
<1>1. p.identity \in Words
  BY DEF AuthType
<1>2. PICK id \in Words : id = (IF data = "" THEN p.identity ELSE data)
  BY <1>1
<1>3. PICK q : q = [p EXCEPT !.identity = id]
  OBVIOUS
<1>4. q \in AuthType("server")
  <2>1. [p EXCEPT !.identity = id] \in AuthType("server")
    BY DEF AuthType
  <2> QED BY <1>3, <2>1
<1>5. Like("server", p, q)
  BY <1>3, <1>4 DEF AuthType, Like
<1>6. Named(p, data) = q
  BY <1>2, <1>3 DEF Named
<1> QED BY <1>5, <1>6

(* A server that asks for more, by a line of its own, waits for data of the *)
(* mechanism it has chosen; what it remembers of the question is free.      *)
LEMMA AskHandled ==
    ASSUME NEW p \in AuthType("server"), Chosen(p), p.cookie => env.keyring,
           NEW x \in Stream("client")
    PROVE  /\ Handled(p, Goto(Say(p, x), "WaitingForData"))
           /\ \A asked \in BOOLEAN :
                Handled(p, [Goto(Say(p, x), "WaitingForData") EXCEPT !.asked = asked])
           /\ \A desired \in Words, cookie \in {k \in BOOLEAN : k => env.keyring} :
                Handled(p, [Goto(Say(p, x), "WaitingForData") EXCEPT
                              !.desired = desired, !.cookie = cookie])
<1>1. PICK said : said = Say(p, x)
  OBVIOUS
<1>2. Like("server", p, said)
  BY <1>1, SayLike, ServerSide
<1>3. said \in AuthType("server") /\ "WaitingForData" \in StatesOf("server")
  BY <1>2, ServerSide DEF Like
<1>4. PICK q \in AuthType("server") :
             /\ q = Goto(said, "WaitingForData")
             /\ q.state = "WaitingForData" /\ q.mech = said.mech
             /\ q.incoming = said.incoming
             /\ q.cookie = said.cookie /\ q.authorized = said.authorized
             /\ q.authenticated = said.authenticated
  BY <1>3, ServerSide, GotoKeeps
<1>5. Goto(Say(p, x), "WaitingForData") = q
  BY <1>1, <1>4
<1>6. Handled(p, q)
  BY <1>2, <1>4 DEF Like, Chosen, Handled
<1>7. ASSUME NEW asked \in BOOLEAN PROVE Handled(p, [q EXCEPT !.asked = asked])
  <2>1. PICK r : r = [q EXCEPT !.asked = asked]
    OBVIOUS
  <2>2. r \in AuthType("server")
    <3>1. [q EXCEPT !.asked = asked] \in AuthType("server")
      BY DEF AuthType
    <3> QED BY <2>1, <3>1
  <2>3. Like("server", q, r)
    BY <2>1, <2>2 DEF AuthType, Like
  <2>4. Handled(p, r)
    BY <1>6, <2>3 DEF Like, Chosen, Handled
  <2> QED BY <2>1, <2>4
<1>8. ASSUME NEW desired \in Words, NEW cookie \in {k \in BOOLEAN : k => env.keyring}
      PROVE  Handled(p, [q EXCEPT !.desired = desired, !.cookie = cookie])
  <2>1. PICK r : r = [q EXCEPT !.desired = desired, !.cookie = cookie]
    OBVIOUS
  <2>2. r \in AuthType("server")
    <3>1. [q EXCEPT !.desired = desired, !.cookie = cookie] \in AuthType("server")
      BY DEF AuthType
    <3> QED BY <2>1, <3>1
  <2>3. /\ r.state = q.state /\ r.mech = q.mech /\ r.incoming = q.incoming
        /\ r.cookie = cookie /\ r.authorized = q.authorized
        /\ r.authenticated = q.authenticated
    BY <2>1 DEF AuthType
  <2>4. Handled(p, r)
    BY <1>6, <2>2, <2>3 DEF Chosen, Handled
  <2> QED BY <2>1, <2>4
<1> QED BY <1>5, <1>6, <1>7, <1>8

(* An identity that the mechanism in use proves may be authorized. *)
LEMMA GrantHandled ==
    ASSUME NEW p \in AuthType("server"), Chosen(p), p.cookie => env.keyring,
           Working(p.mech), NEW d \in Words
    PROVE  /\ Handled(p, SendOk([p EXCEPT !.desired = d, !.authorized = "user"]))
           /\ Handled(p, SendOk([p EXCEPT !.authorized = "user"]))
<1>1. PICK a \in {"", "user"} : a = "user"
  OBVIOUS
<1>2. PICK q1, q2 : /\ q1 = [p EXCEPT !.desired = d, !.authorized = a]
                    /\ q2 = [p EXCEPT !.authorized = a]
  OBVIOUS
<1>3. q1 \in AuthType("server") /\ q2 \in AuthType("server")
  <2>1. /\ [p EXCEPT !.desired = d, !.authorized = a] \in AuthType("server")
        /\ [p EXCEPT !.authorized = a] \in AuthType("server")
    BY DEF AuthType
  <2> QED BY <1>2, <2>1
<1>4. \A q \in {q1, q2} :
        /\ q.mech = p.mech /\ q.incoming = p.incoming /\ q.cookie = p.cookie
        /\ q.authenticated = p.authenticated
  BY <1>2 DEF AuthType
<1>5. \A q \in {q1, q2} : Chosen(q)
  BY <1>4 DEF Chosen
<1>6. \A q \in {q1, q2} : Handled(q, SendOk(q))
  BY <1>3, <1>4, <1>5, OkHandled
<1>7. \A q \in {q1, q2} : Handled(p, SendOk(q))
  BY <1>4, <1>6 DEF Handled
<1> QED BY <1>1, <1>2, <1>7

(* handle_server_data_anonymous_mech authorizes nobody. *)
LEMMA AnonymousHandled ==
    ASSUME NEW p \in AuthType("server"), Chosen(p), p.cookie => env.keyring
    PROVE  Handled(p, ServerAnonymous(p))
<1>1. PICK d \in Words : d = ""
  BY DEF Words
<1>2. PICK q : q = [p EXCEPT !.desired = d]
  OBVIOUS
<1>3. q \in AuthType("server")
  <2>1. [p EXCEPT !.desired = d] \in AuthType("server")
    BY DEF AuthType
  <2> QED BY <1>2, <2>1
<1>4. Like("server", p, q)
  BY <1>2, <1>3 DEF AuthType, Like
<1>5. Handled(q, SendOk(q))
  BY <1>3, <1>4, OkHandled DEF Like, Chosen
<1>6. Handled(p, SendOk(q))
  BY <1>4, <1>5, HandledLike
<1> QED BY <1>1, <1>2, <1>6 DEF ServerAnonymous

(* handle_server_data_external_mech: without credentials nobody gets past.  *)
LEMMA ExternalHandled ==
    ASSUME NEW p \in AuthType("server"), NEW data \in Words,
           p.mech = "EXTERNAL", Chosen(p), p.cookie => env.keyring
    PROVE  Handled(p, ServerExternal(p, data))
<1>1. PICK q : q = Named(p, data)
  OBVIOUS
<1>2. Like("server", p, q)
  BY <1>1, NamedLike
<1>3. q \in AuthType("server") /\ Chosen(q) /\ (q.cookie => env.keyring)
  BY <1>2 DEF Like, Chosen
<1>4. PICK wanted : wanted = (IF q.identity = "" THEN "user" ELSE q.identity)
  OBVIOUS
<1>5. PICK ask : ask = [Goto(Say(q, Line("DATA", "", "")), "WaitingForData") EXCEPT
                          !.asked = TRUE]
  OBVIOUS
<1>6. PICK ok : ok = SendOk([q EXCEPT !.desired = wanted, !.authorized = wanted])
  OBVIOUS
<1>7. /\ ~env.creds \/ NamesTwice(p, data) => ServerExternal(p, data) = SendRejected(p)
      /\ env.creds /\ ~NamesTwice(p, data) =>
           \/ ServerExternal(p, data) = ask
           \/ wanted = "user" /\ ServerExternal(p, data) = ok
           \/ ServerExternal(p, data) = SendRejected(q)
  BY <1>1, <1>4, <1>5, <1>6 DEF ServerExternal
<1>8. Handled(p, SendRejected(p)) /\ Handled(q, SendRejected(q))
  BY <1>3, RejectedHandled
<1>9. Handled(q, ask)
  BY <1>3, <1>5, ServerLines, AskHandled
<1>10. ASSUME env.creds, wanted = "user" PROVE Handled(q, ok)
  <2>1. Working(q.mech)
    BY <1>2, <1>10 DEF Like, Working
  <2>2. "user" \in Words
    BY DEF Words
  <2>3. Handled(q, SendOk([q EXCEPT !.desired = "user", !.authorized = "user"]))
    BY <1>3, <2>1, <2>2, GrantHandled
  <2> QED BY <1>6, <1>10, <2>3
<1>11. \A r : Handled(q, r) => Handled(p, r)
  BY <1>2, HandledLike
<1> QED BY <1>7, <1>8, <1>9, <1>10, <1>11

(* sha1_handle_first_client_response: the keyring is there when a cookie is *)
(* chosen.                                                                 *)
LEMMA ChallengeHandled ==
    ASSUME NEW p \in AuthType("server"), NEW data \in Words,
           Chosen(p), p.cookie => env.keyring
    PROVE  Handled(p, SendChallenge(p, data))
<1>1. PICK q : q = Named(p, data)
  OBVIOUS
<1>2. Like("server", p, q)
  BY <1>1, NamedLike
<1>3. q \in AuthType("server") /\ Chosen(q) /\ (q.cookie => env.keyring)
  BY <1>2 DEF Like, Chosen
<1>4. PICK ask : ask =
        [Goto(Say(q, Line("DATA", "", "challenge")), "WaitingForData") EXCEPT
            !.desired = data, !.cookie = TRUE]
  OBVIOUS
<1>5. \/ SendChallenge(p, data) = SendRejected(p)
      \/ SendChallenge(p, data) = SendRejected(q)
      \/ env.keyring /\ SendChallenge(p, data) = ask
  BY <1>1, <1>4 DEF SendChallenge
<1>6. Handled(p, SendRejected(p)) /\ Handled(q, SendRejected(q))
  BY <1>3, RejectedHandled
<1>7. ASSUME env.keyring PROVE Handled(q, ask)
  <2>1. TRUE \in {k \in BOOLEAN : k => env.keyring}
    BY <1>7
  <2> QED BY <1>3, <1>4, <2>1, ServerLines, AskHandled
<1>8. \A r : Handled(q, r) => Handled(p, r)
  BY <1>2, HandledLike
<1> QED BY <1>5, <1>6, <1>7, <1>8

(* sha1_handle_second_client_response: who gives the hash knows the cookie. *)
LEMMA HashHandled ==
    ASSUME NEW p \in AuthType("server"), NEW data \in Words,
           data = "hash" => env.knows,
           p.mech = "DBUS_COOKIE_SHA1", p.cookie, Chosen(p), p.cookie => env.keyring
    PROVE  Handled(p, CheckHash(p, data))
<1>1. CASE data = "hash" /\ p.desired = "user"
  <2>1. CheckHash(p, data) = SendOk([p EXCEPT !.authorized = "user"])
    BY <1>1 DEF CheckHash
  <2>2. Working(p.mech)
    BY <1>1 DEF Working
  <2>3. "" \in Words
    BY DEF Words
  <2>4. Handled(p, SendOk([p EXCEPT !.authorized = "user"]))
    BY <2>2, <2>3, GrantHandled
  <2> QED BY <2>1, <2>4
<1>2. CASE ~(data = "hash" /\ p.desired = "user")
  BY <1>2, RejectedHandled DEF CheckHash
<1> QED BY <1>1, <1>2

LEMMA DataHandled ==
    ASSUME NEW p \in AuthType("server"), NEW data \in Words,
           data = "hash" => env.knows,
           p.mech \in Mechanisms, Chosen(p), p.cookie => env.keyring
    PROVE  Handled(p, ServerData(p, data))
<1>1. CASE p.mech = "EXTERNAL"
  BY <1>1, ExternalHandled DEF ServerData
<1>2. CASE p.mech = "DBUS_COOKIE_SHA1"
  <2>1. ServerData(p, data) = IF p.cookie THEN CheckHash(p, data)
                                          ELSE SendChallenge(p, data)
    BY <1>2 DEF ServerData, ServerCookie
  <2>2. p.cookie => Handled(p, CheckHash(p, data))
    BY <1>2, HashHandled
  <2>3. Handled(p, SendChallenge(p, data))
    BY ChallengeHandled
  <2> QED BY <2>1, <2>2, <2>3
<1>3. CASE p.mech = "ANONYMOUS"
  BY <1>3, AnonymousHandled DEF ServerData
<1> QED BY <1>1, <1>2, <1>3 DEF Mechanisms

LEMMA AllowedMechanisms ==
    ASSUME env \in Environments
    PROVE  env.allowed \subseteq Mechanisms
  BY DEF Environments, Mechanisms

(* handle_auth: a mechanism is chosen among the allowed ones.  What an AUTH *)
(* EXTERNAL authorized before memory ran out is what it may authorize.      *)
LEMMA AuthHandled ==
    ASSUME env \in Environments, NEW p \in AuthType("server"), NEW c \in Told,
           p.cookie => env.keyring,
           p.authorized = "user" => Working(c.arg)
    PROVE  Handled(p, HandleAuth(p, c))
<1>1. CASE c.arg \in env.allowed
  <2>1. PICK mech \in Mechanisms : mech = c.arg
    BY <1>1, AllowedMechanisms
  <2>2. PICK q : q = [p EXCEPT !.mech = mech]
    OBVIOUS
  <2>3. q \in AuthType("server")
    <3>1. [p EXCEPT !.mech = mech] \in AuthType("server")
      BY DEF AuthType
    <3> QED BY <2>2, <3>1
  <2>4. /\ q.mech = mech /\ q.incoming = p.incoming /\ q.cookie = p.cookie
        /\ q.authorized = p.authorized /\ q.authenticated = p.authenticated
    BY <2>2 DEF AuthType
  <2>5. Chosen(q)
    BY <1>1, <2>1, <2>4 DEF Chosen
  <2>6. c.data \in Words /\ (c.data = "hash" => env.knows)
    BY DEF Told, Tokens
  <2>7. Handled(q, ServerData(q, c.data))
    BY <2>1, <2>3, <2>4, <2>5, <2>6, DataHandled
  <2>8. HandleAuth(p, c) = ServerData(q, c.data)
    BY <1>1, <2>1, <2>2 DEF HandleAuth
  <2> QED BY <2>4, <2>7, <2>8 DEF Handled
<1>2. CASE c.arg \notin env.allowed
  BY <1>2, RejectedHandled DEF HandleAuth
<1> QED BY <1>1, <1>2

(* A server that changes its state only. *)
LEMMA GotoHandled ==
    ASSUME NEW p \in AuthType("server"), p.cookie => env.keyring,
           NEW st \in StatesOf("server") \ {"WaitingForAuth"},
           st # "NeedDisconnect" => Chosen(p)
    PROVE  Handled(p, Goto(p, st))
<1>1. PICK q \in AuthType("server") :
             /\ q = Goto(p, st)
             /\ q.state = st /\ q.mech = p.mech /\ q.incoming = p.incoming
             /\ q.cookie = p.cookie /\ q.authorized = p.authorized
             /\ q.authenticated = p.authenticated
  <2>1. "server" \in Sides /\ st \in StatesOf("server")
    BY ServerSide
  <2> QED BY <2>1, GotoKeeps
<1>2. Handled(p, q)
  BY <1>1 DEF Handled, Chosen
<1> QED BY <1>1, <1>2

(* Whatever a server does for a command, nobody is authorized but by the    *)
(* mechanism it has chosen.                                                *)
LEMMA ServerHandled ==
    ASSUME env \in Environments, NEW p \in AuthType("server"), Proved(p),
           Starving(p), NEW c \in Told, c = Head(p.incoming)
    PROVE  Handled(p, ServerHandles(p, c))
<1>1. /\ p.cookie => env.keyring
      /\ p.state = "WaitingForAuth" => NotChosen(p)
      /\ p.state \in {"WaitingForData", "WaitingForBegin"} => Chosen(p)
  BY DEF Proved
<1>2. Handled(p, SendRejected(p))
  BY RejectedHandled
<1>3. Handled(p, Goto(p, "NeedDisconnect"))
  <2>1. "NeedDisconnect" \in StatesOf("server") \ {"WaitingForAuth"}
    BY ServerSide
  <2> QED BY <1>1, <2>1, GotoHandled
<1>4. c.data \in Words /\ (c.data = "hash" => env.knows)
  BY DEF Told, Tokens
<1>5. CASE p.state = "WaitingForAuth"
  <2>1. ServerHandles(p, c) = ServerWaitingForAuth(p, c)
    BY <1>5 DEF ServerHandles
  <2>2. CASE c.cmd = "AUTH"
    <3>1. Handled(p, HandleAuth(p, c))
      BY <1>1, <1>5, AuthHandled DEF NotChosen
    <3> QED BY <2>1, <2>2, <3>1 DEF ServerWaitingForAuth
  <2>3. CASE c.cmd # "AUTH"
    <3>1. p.authorized = ""
      BY <1>1, <1>5, <2>3 DEF NotChosen, AuthType
    <3>2. Handled(p, SendError(p))
      BY <1>1, <1>5, <3>1, ErrorLike DEF Like, Handled
    <3> QED BY <2>1, <2>3, <3>2, <1>2, <1>3 DEF ServerWaitingForAuth
  <2> QED BY <2>2, <2>3
<1>6. ASSUME p.state # "WaitingForAuth", Chosen(p) PROVE Handled(p, SendError(p))
  <2>1. PICK r : r = SendError(p)
    OBVIOUS
  <2>2. Like("server", p, r)
    BY <2>1, ErrorLike
  <2>3. Chosen(r)
    BY <1>6, <2>2 DEF Like, Chosen
  <2>4. Handled(p, r)
    BY <1>1, <1>6, <2>2, <2>3 DEF Like, Handled
  <2> QED BY <2>1, <2>4
<1>7. CASE p.state = "WaitingForData"
  <2>1. ServerHandles(p, c) = ServerWaitingForData(p, c)
    BY <1>7 DEF ServerHandles
  <2>2. p.mech \in Mechanisms
    BY <1>1, <1>7, AllowedMechanisms DEF Chosen
  <2>3. Handled(p, ServerData(p, c.data))
    BY <1>1, <1>4, <1>7, <2>2, DataHandled
  <2>4. Handled(p, SendError(p))
    BY <1>1, <1>6, <1>7
  <2> QED BY <2>1, <2>3, <2>4, <1>2, <1>3 DEF ServerWaitingForData
<1>8. CASE p.state = "WaitingForBegin"
  <2>1. ServerHandles(p, c) = ServerWaitingForBegin(p, c)
    BY <1>8 DEF ServerHandles
  <2>2. Handled(p, Goto(p, "Authenticated"))
    <3>1. "Authenticated" \in StatesOf("server") \ {"WaitingForAuth"}
      BY ServerSide
    <3> QED BY <1>1, <1>8, <3>1, GotoHandled
  <2>3. Handled(p, SendAgree(p))
    <3>1. PICK said : said = Say(p, Line("AGREE_UNIX_FD", "", ""))
      OBVIOUS
    <3>2. Like("server", p, said)
      BY <3>1, SayLike, ServerLines, ServerSide
    <3>3. said \in AuthType("server")
      BY <3>2 DEF Like
    <3>4. PICK q : q = [said EXCEPT !.fd = TRUE]
      OBVIOUS
    <3>5. q \in AuthType("server")
      <4>1. [said EXCEPT !.fd = TRUE] \in AuthType("server")
        BY <3>3 DEF AuthType
      <4> QED BY <3>4, <4>1
    <3>6. Like("server", said, q)
      BY <3>3, <3>4, <3>5 DEF AuthType, Like
    <3>7. Handled(p, q)
      BY <1>1, <1>8, <3>2, <3>6 DEF Like, Handled, Chosen
    <3> QED BY <3>1, <3>4, <3>7 DEF SendAgree
  <2>4. Handled(p, SendError(p))
    BY <1>1, <1>6, <1>8
  <2> QED BY <2>1, <2>2, <2>3, <2>4, <1>2, <1>3 DEF ServerWaitingForBegin
<1>9. p.state \in {"WaitingForAuth", "WaitingForData", "WaitingForBegin"}
  <2>1. p.state \in StatesOf("server")
    BY DEF AuthType
  <2>2. p.state # "Authenticated" /\ p.state # "NeedDisconnect"
    BY DEF Starving, EndStates
  <2> QED BY <2>1, <2>2, ServerSide
<1> QED BY <1>5, <1>7, <1>8, <1>9

-----------------------------------------------------------------------------
(* The client's handlers.  It says the hash only if it can read the cookie. *)

LEMMA ClientSide ==
    /\ "client" \in Sides /\ Other("client") = "server"
    /\ StatesOf("client") = {"WaitingForData", "WaitingForReject",
                             "WaitingForAgreeUnixFD", "Authenticated", "NeedDisconnect"}
  BY DEF Sides, Other, StatesOf

LEMMA ClientLines ==
    /\ Line("ERROR", "", "") \in Stream("server")
    /\ Line("BEGIN", "", "") \in Stream("server")
    /\ Line("CANCEL", "", "") \in Stream("server")
    /\ Line("NEGOTIATE_UNIX_FD", "", "") \in Stream("server")
    /\ env.knows => Line("DATA", "", "hash") \in Stream("server")
    /\ \A mech \in Mechanisms, data \in {"user", "trace"} :
         Line("AUTH", mech, data) \in Stream("server")
<1>1. \A c \in Commands, arg \in Arguments, data \in Words :
        (data = "hash" => env.knows) => Line(c, arg, data) \in Seq(Told)
  BY LinesAreTokens
<1>2. /\ "ERROR" \in Commands /\ "BEGIN" \in Commands /\ "CANCEL" \in Commands
      /\ "NEGOTIATE_UNIX_FD" \in Commands /\ "DATA" \in Commands /\ "AUTH" \in Commands
  BY DEF Commands
<1>3. /\ "" \in Arguments /\ Mechanisms \subseteq Arguments
      /\ "" \in Words /\ "hash" \in Words /\ {"user", "trace"} \subseteq Words
      /\ "hash" # "" /\ "hash" \notin {"user", "trace"}
  BY DEF Arguments, Words
<1>4. Stream("server") = Seq(Told)
  BY HeardTokens DEF Stream
<1> HIDE DEF Stream
<1> QED BY <1>1, <1>2, <1>3, <1>4

\* What handling a command may make of the client p.
ClientHandled(p, r) == r \in AuthType("client") /\ r.incoming = p.incoming

LEMMA ClientSays ==
    ASSUME NEW p \in AuthType("client"), NEW x \in Stream("server")
    PROVE  ClientHandled(p, Say(p, x))
  BY SayLike, ClientSide DEF Like, ClientHandled

LEMMA ClientGoes ==
    ASSUME NEW p \in AuthType("client"), NEW st \in StatesOf("client")
    PROVE  ClientHandled(p, Goto(p, st))
<1>1. "client" \in Sides
  BY ClientSide
<1> QED BY <1>1, GotoKeeps DEF ClientHandled

(* send_auth: the next mechanism is tried from the start. *)
LEMMA AuthSaid ==
    ASSUME NEW p \in AuthType("client"), NEW mech \in Mechanisms
    PROVE  ClientHandled(p, SendAuth(p, mech))
<1>1. PICK data \in {"user", "trace"} : data = (IF mech = "ANONYMOUS" THEN "trace" ELSE "user")
  OBVIOUS
<1>2. PICK said : said = Say(p, Line("AUTH", mech, data))
  OBVIOUS
<1>3. ClientHandled(p, said)
  <2>1. Line("AUTH", mech, data) \in Stream("server")
    BY ClientLines
  <2> QED BY <1>2, <2>1, ClientSays
<1>4. PICK q \in AuthType("client") :
             /\ q = ShutdownMech(said)
             /\ q.authorized = "" /\ ~q.cookie
             /\ q.incoming = said.incoming /\ q.authenticated = said.authenticated
             /\ q.failures = said.failures /\ q.state = said.state
  <2>1. "client" \in Sides
    BY ClientSide
  <2>2. said \in AuthType("client")
    BY <1>3 DEF ClientHandled
  <2> QED BY <2>1, <2>2, ShutdownMechForgets
<1>5. PICK st \in StatesOf("client") : st = "WaitingForData"
  BY ClientSide
<1>6. PICK r : r = [q EXCEPT !.mech = mech, !.state = st]
  OBVIOUS
<1>7. r \in AuthType("client")
  <2>1. [q EXCEPT !.mech = mech, !.state = st] \in AuthType("client")
    BY DEF AuthType
  <2> QED BY <1>6, <2>1
<1>8. r.incoming = p.incoming
  <2>1. r.incoming = q.incoming
    BY <1>6 DEF AuthType
  <2> QED BY <2>1, <1>3, <1>4 DEF ClientHandled
<1>9. SendAuth(p, mech) = r
  BY <1>1, <1>2, <1>4, <1>5, <1>6 DEF SendAuth
<1> QED BY <1>7, <1>8, <1>9 DEF ClientHandled

(* process_rejected: the list of the first REJECTED is tried in order.      *)
LEMMA RejectedProcessed ==
    ASSUME NEW p \in AuthType("client")
    PROVE  ClientHandled(p, ProcessRejected(p))
<1>1. PICK q : q = RecordMechanisms(p)
  OBVIOUS
<1>2. q \in AuthType("client") /\ q.incoming = p.incoming
  <2>1. CASE p.listed
    BY <1>1, <2>1 DEF RecordMechanisms
  <2>2. CASE ~p.listed
    <3>1. PICK tries \in MechanismLists : tries = Tail(AllMechanisms)
      <4>1. Tail(AllMechanisms) = <<"DBUS_COOKIE_SHA1", "ANONYMOUS">>
        BY DEF AllMechanisms
      <4>2. PICK a, b : a = "DBUS_COOKIE_SHA1" /\ b = "ANONYMOUS"
        OBVIOUS
      <4>3. a \in Mechanisms /\ b \in Mechanisms
        BY <4>2 DEF Mechanisms
      <4>4. <<a, b>> \in Seq(Mechanisms)
        BY <4>3
      <4> QED BY <4>1, <4>2, <4>4 DEF MechanismLists
    <3>2. q = [p EXCEPT !.listed = TRUE, !.tries = tries]
      BY <1>1, <2>2, <3>1 DEF RecordMechanisms
    <3>3. [p EXCEPT !.listed = TRUE, !.tries = tries] \in AuthType("client")
      BY DEF AuthType
    <3>4. q.incoming = p.incoming
      BY <3>2 DEF AuthType
    <3> QED BY <3>2, <3>3, <3>4
  <2> QED BY <2>1, <2>2
<1>3. CASE q.tries = <<>>
  <2>1. "NeedDisconnect" \in StatesOf("client")
    BY ClientSide
  <2>2. ClientHandled(q, Goto(q, "NeedDisconnect"))
    BY <1>2, <2>1, ClientGoes
  <2> QED BY <1>1, <1>2, <1>3, <2>2 DEF ProcessRejected, ClientHandled
<1>4. CASE q.tries # <<>>
  <2>1. q.tries \in MechanismLists
    BY <1>2 DEF AuthType
  <2>2. PICK mech \in Mechanisms : mech = Head(q.tries)
    BY <1>4, <2>1, HeadTailProperties DEF MechanismLists
  <2>3. PICK sent1 : sent1 = SendAuth(q, mech)
    OBVIOUS
  <2>4. ClientHandled(q, sent1)
    BY <1>2, <2>3, AuthSaid
  <2>5. sent1.tries = q.tries
    BY <1>2, <2>3 DEF SendAuth, ShutdownMech, Say, AuthType
  <2>6. PICK tries \in MechanismLists : tries = Tail(sent1.tries)
    BY <1>4, <2>1, <2>5, HeadTailProperties DEF MechanismLists
  <2>7. ProcessRejected(p) = [sent1 EXCEPT !.tries = tries]
    BY <1>1, <1>4, <2>2, <2>3, <2>6 DEF ProcessRejected
  <2>8. sent1 \in AuthType("client")
    BY <2>4 DEF ClientHandled
  <2>9. PICK r : r = [sent1 EXCEPT !.tries = tries]
    OBVIOUS
  <2>10. r \in AuthType("client")
    <3>1. [sent1 EXCEPT !.tries = tries] \in AuthType("client")
      BY <2>8 DEF AuthType
    <3> QED BY <2>9, <3>1
  <2>11. r.incoming = sent1.incoming
    BY <2>8, <2>9 DEF AuthType
  <2> QED BY <1>2, <2>4, <2>7, <2>9, <2>10, <2>11 DEF ClientHandled
<1> QED BY <1>3, <1>4

(* send_begin, and process_ok, which may ask for descriptors first. *)
LEMMA BeginSaid ==
    ASSUME NEW p \in AuthType("client")
    PROVE  ClientHandled(p, SendBegin(p))
<1>1. PICK said : said = Say(p, Line("BEGIN", "", ""))
  OBVIOUS
<1>2. ClientHandled(p, said)
  BY <1>1, ClientLines, ClientSays
<1>3. "Authenticated" \in StatesOf("client")
  BY ClientSide
<1>4. ClientHandled(said, Goto(said, "Authenticated"))
  BY <1>2, <1>3, ClientGoes DEF ClientHandled
<1> QED BY <1>1, <1>2, <1>4 DEF SendBegin, ClientHandled

LEMMA FlagsRaised ==
    ASSUME NEW p \in AuthType("client"), NEW b \in BOOLEAN
    PROVE  /\ ClientHandled(p, [p EXCEPT !.guid = b])
           /\ ClientHandled(p, [p EXCEPT !.fd = b])
<1>1. PICK q1, q2 : q1 = [p EXCEPT !.guid = b] /\ q2 = [p EXCEPT !.fd = b]
  OBVIOUS
<1>2. q1 \in AuthType("client") /\ q2 \in AuthType("client")
  <2>1. /\ [p EXCEPT !.guid = b] \in AuthType("client")
        /\ [p EXCEPT !.fd = b] \in AuthType("client")
    BY DEF AuthType
  <2> QED BY <1>1, <2>1
<1>3. q1.incoming = p.incoming /\ q2.incoming = p.incoming
  BY <1>1 DEF AuthType
<1> QED BY <1>1, <1>2, <1>3 DEF ClientHandled

LEMMA OkProcessed ==
    ASSUME NEW p \in AuthType("client")
    PROVE  ClientHandled(p, ProcessOk(p))
<1>1. PICK q : q = [p EXCEPT !.guid = TRUE]
  OBVIOUS
<1>2. ClientHandled(p, q)
  BY <1>1, FlagsRaised
<1>3. q \in AuthType("client") /\ q.incoming = p.incoming
  BY <1>2 DEF ClientHandled
<1>4. PICK said : said = Say(q, Line("NEGOTIATE_UNIX_FD", "", ""))
  OBVIOUS
<1>5. ClientHandled(q, said)
  BY <1>3, <1>4, ClientLines, ClientSays
<1>6. "WaitingForAgreeUnixFD" \in StatesOf("client")
  BY ClientSide
<1>7. ClientHandled(said, Goto(said, "WaitingForAgreeUnixFD"))
  BY <1>5, <1>6, ClientGoes DEF ClientHandled
<1>8. ClientHandled(q, SendBegin(q))
  BY <1>3, BeginSaid
<1> QED BY <1>1, <1>3, <1>4, <1>5, <1>7, <1>8 DEF ProcessOk, ClientHandled

(* Whatever a client does for a command, it stays a client. *)
LEMMA ClientAnswers ==
    ASSUME NEW p \in AuthType("client"), Starving(p), NEW c
    PROVE  ClientHandled(p, ClientHandles(p, c))
<1>1. ClientHandled(p, SendError(p))
  BY ClientLines, ClientSays DEF SendError
<1>2. ClientHandled(p, ProcessRejected(p))
  BY RejectedProcessed
<1>3. CASE p.state = "WaitingForData"
  <2>1. ClientHandles(p, c) = ClientWaitingForData(p, c)
    BY <1>3 DEF ClientHandles
  <2>2. ClientHandled(p, p)
    BY DEF ClientHandled
  <2>3. env.knows => ClientHandled(p, Say(p, Line("DATA", "", "hash")))
    BY ClientLines, ClientSays
  <2>4. ClientHandled(p, ClientData(p))
    BY <1>1, <2>2, <2>3 DEF ClientData
  <2>5. ClientHandled(p, Goto(Say(p, Line("CANCEL", "", "")), "WaitingForReject"))
    <3>1. PICK said : said = Say(p, Line("CANCEL", "", ""))
      OBVIOUS
    <3>2. ClientHandled(p, said)
      BY <3>1, ClientLines, ClientSays
    <3>3. "WaitingForReject" \in StatesOf("client")
      BY ClientSide
    <3>4. ClientHandled(said, Goto(said, "WaitingForReject"))
      BY <3>2, <3>3, ClientGoes DEF ClientHandled
    <3> QED BY <3>1, <3>2, <3>4 DEF ClientHandled
  <2> QED BY <2>1, <2>4, <2>5, <1>1, <1>2, OkProcessed DEF ClientWaitingForData
<1>4. CASE p.state = "WaitingForReject"
  <2>1. "NeedDisconnect" \in StatesOf("client")
    BY ClientSide
  <2>2. ClientHandled(p, Goto(p, "NeedDisconnect"))
    BY <2>1, ClientGoes
  <2>3. ClientHandles(p, c) = ClientWaitingForReject(p, c)
    BY <1>4 DEF ClientHandles
  <2> QED BY <2>2, <2>3, <1>2 DEF ClientWaitingForReject
<1>5. CASE p.state = "WaitingForAgreeUnixFD"
  <2>1. ASSUME NEW b \in BOOLEAN PROVE ClientHandled(p, SendBegin([p EXCEPT !.fd = b]))
    <3>1. PICK q : q = [p EXCEPT !.fd = b]
      OBVIOUS
    <3>2. ClientHandled(p, q)
      BY <3>1, FlagsRaised
    <3>3. ClientHandled(q, SendBegin(q))
      BY <3>2, BeginSaid DEF ClientHandled
    <3> QED BY <3>1, <3>2, <3>3 DEF ClientHandled
  <2>2. ClientHandles(p, c) = ClientWaitingForAgree(p, c)
    BY <1>5 DEF ClientHandles
  <2> QED BY <2>1, <2>2, <1>1 DEF ClientWaitingForAgree
<1>6. p.state \in {"WaitingForData", "WaitingForReject", "WaitingForAgreeUnixFD"}
  <2>1. p.state \in StatesOf("client")
    BY DEF AuthType
  <2>2. p.state # "Authenticated" /\ p.state # "NeedDisconnect"
    BY DEF Starving, EndStates
  <2> QED BY <2>1, <2>2, ClientSide
<1> QED BY <1>3, <1>4, <1>5, <1>6

-----------------------------------------------------------------------------
(* The loop over the commands, and what the transport does to one end.     *)

(* Cutting a stream leaves streams of the same tokens. *)
LEMMA Pieces ==
    ASSUME NEW T, NEW x \in Seq(T)
    PROVE  /\ \A m \in Nat \ {0} : SubSeq(x, m, Len(x)) \in Seq(T)
           /\ \A n \in 0..Len(x) : SubSeq(x, 1, n) \in Seq(T)
           /\ x # <<>> => Head(x) \in T /\ Tail(x) \in Seq(T)
<1>1. Len(x) \in Nat /\ \A i \in 1..Len(x) : x[i] \in T
  OBVIOUS
<1>2. ASSUME NEW m \in Nat \ {0} PROVE SubSeq(x, m, Len(x)) \in Seq(T)
  <2>1. \A i \in m..Len(x) : x[i] \in T
    BY <1>1
  <2> QED BY <1>1, <2>1, SubSeqProperties
<1>3. ASSUME NEW n \in 0..Len(x) PROVE SubSeq(x, 1, n) \in Seq(T)
  <2>1. \A i \in 1..n : x[i] \in T
    BY <1>1
  <2> QED BY <1>1, <2>1, SubSeqProperties
<1> QED BY <1>2, <1>3, HeadTailProperties

(* What Like leaves alone decides the invariant of one end. *)
LEMMA LikeKept ==
    ASSUME NEW s \in Sides, NEW p, NEW q, EndInv(s, p), Like(s, p, q)
    PROVE  EndInv(s, q)
<1>1. q \in AuthType(s)
  BY DEF Like
<1>2. ASSUME s = "server" PROVE Proved(q)
  <2>1. Proved(p)
    BY <1>2 DEF EndInv
  <2>2. Starving(q) <=> Starving(p)
    BY DEF Like, Starving, HasCommand
  <2>3. NotChosen(p) => NotChosen(q)
    BY <2>2 DEF Like, NotChosen
  <2>4. Chosen(p) => Chosen(q)
    BY DEF Like, Chosen
  <2>5. Allow(p) => Allow(q)
    BY DEF Like, Allow
  <2> QED BY <2>1, <2>3, <2>4, <2>5 DEF Like, Proved
<1> QED BY <1>1, <1>2 DEF EndInv

(* An end that hangs up, has dealt with the credentials or has written some *)
(* of what it had to say is where it was.                                  *)
LEMMA HungUp ==
    ASSUME NEW s \in Sides, NEW p, EndInv(s, p)
    PROVE  /\ EndInv(s, [p EXCEPT !.gone = TRUE])
           /\ EndInv(s, [p EXCEPT !.credentials = "none"])
<1>1. p \in AuthType(s)
  BY DEF EndInv
<1>2. PICK b \in BOOLEAN, cr \in {"send", "receive", "none"} : b = TRUE /\ cr = "none"
  OBVIOUS
<1>3. PICK q1, q2 : q1 = [p EXCEPT !.gone = b] /\ q2 = [p EXCEPT !.credentials = cr]
  OBVIOUS
<1>4. q1 \in AuthType(s) /\ q2 \in AuthType(s)
  <2>1. [p EXCEPT !.gone = b] \in AuthType(s) /\ [p EXCEPT !.credentials = cr] \in AuthType(s)
    BY <1>1 DEF AuthType
  <2> QED BY <1>3, <2>1
<1>5. Like(s, p, q1) /\ Like(s, p, q2)
  BY <1>1, <1>3, <1>4 DEF AuthType, Like
<1>6. EndInv(s, q1) /\ EndInv(s, q2)
  BY <1>5, LikeKept
<1> QED BY <1>2, <1>3, <1>6

LEMMA Wrote ==
    ASSUME NEW s \in Sides, NEW p, EndInv(s, p), NEW n \in Nat
    PROVE  EndInv(s, [p EXCEPT !.outgoing = SubSeq(@, n + 1, Len(@))])
<1>1. p \in AuthType(s) /\ n + 1 \in Nat \ {0}
  BY DEF EndInv
<1>2. p.outgoing \in Stream(Other(s))
  BY <1>1 DEF AuthType
<1>3. PICK out \in Stream(Other(s)) : out = SubSeq(p.outgoing, n + 1, Len(p.outgoing))
  BY <1>1, <1>2, Pieces DEF Stream
<1>4. PICK q : q = [p EXCEPT !.outgoing = out]
  OBVIOUS
<1>5. q \in AuthType(s)
  <2>1. [p EXCEPT !.outgoing = out] \in AuthType(s)
    BY <1>1 DEF AuthType
  <2> QED BY <1>4, <2>1
<1>6. Like(s, p, q)
  BY <1>1, <1>4, <1>5 DEF AuthType, Like
<1>7. EndInv(s, q)
  BY <1>6, LikeKept
<1> QED BY <1>3, <1>4, <1>7

(* More bytes behind those in the buffer: the first command stays first.    *)
LEMMA MoreRead ==
    ASSUME NEW s \in Sides, NEW p, EndInv(s, p), NEW x \in Stream(s)
    PROVE  EndInv(s, [p EXCEPT !.incoming = @ \o x])
<1>1. p \in AuthType(s)
  BY DEF EndInv
<1>2. p.incoming \in Stream(s)
  BY <1>1 DEF AuthType
<1>3. PICK in \in Stream(s) : in = p.incoming \o x
  BY <1>2, ConcatProperties DEF Stream
<1>4. PICK q : q = [p EXCEPT !.incoming = in]
  OBVIOUS
<1>5. q \in AuthType(s)
  <2>1. [p EXCEPT !.incoming = in] \in AuthType(s)
    BY <1>1 DEF AuthType
  <2> QED BY <1>4, <2>1
<1>6. /\ q.state = p.state /\ q.mech = p.mech /\ q.incoming = in
      /\ q.cookie = p.cookie /\ q.authorized = p.authorized
      /\ q.authenticated = p.authenticated
  BY <1>1, <1>4 DEF AuthType
<1>7. HasCommand(p) => HasCommand(q) /\ Head(q.incoming) = Head(p.incoming)
  <2>1. SUFFICES ASSUME Len(p.incoming) >= 2, p.incoming[2] = Eol
                 PROVE  Len(in) >= 2 /\ in[2] = Eol /\ Head(in) = Head(p.incoming)
    BY <1>6 DEF HasCommand
  <2>2. p.incoming \in Seq(Heard(s)) /\ x \in Seq(Heard(s))
    BY <1>2 DEF Stream
  <2>3. /\ Len(in) = Len(p.incoming) + Len(x)
        /\ \A i \in 1..Len(in) : in[i] = IF i <= Len(p.incoming) THEN p.incoming[i]
                                          ELSE x[i - Len(p.incoming)]
    BY <1>3, <2>2, ConcatProperties
  <2>4. Len(x) \in Nat /\ Len(p.incoming) \in Nat
    BY <2>2
  <2>5. Len(in) >= 2 /\ in[1] = p.incoming[1] /\ in[2] = p.incoming[2]
    BY <2>1, <2>3, <2>4
  <2>6. Head(in) = in[1] /\ Head(p.incoming) = p.incoming[1]
    OBVIOUS
  <2> QED BY <2>1, <2>5, <2>6
<1>8. ASSUME s = "server" PROVE Proved(q)
  <2>1. Proved(p)
    BY <1>8 DEF EndInv
  <2>2. NotChosen(p) => NotChosen(q)
    BY <1>6, <1>7 DEF NotChosen, Starving
  <2>3. Chosen(p) => Chosen(q)
    BY <1>6 DEF Chosen
  <2>4. Allow(p) => Allow(q)
    BY <1>6 DEF Allow
  <2> QED BY <1>6, <2>1, <2>2, <2>3, <2>4 DEF Proved
<1> QED BY <1>3, <1>4, <1>5, <1>8 DEF EndInv

(* _dbus_auth_do_work: one command is handled and leaves the buffer.        *)
LEMMA CommandProcessed ==
    ASSUME env \in Environments, NEW s \in Sides, NEW p, EndInv(s, p), Starving(p)
    PROVE  EndInv(s, ProcessCommand(s, p))
<1>1. p \in AuthType(s)
  BY DEF EndInv
<1>2. p.incoming \in Stream(s)
  BY <1>1 DEF AuthType
<1>3. p.incoming # <<>>
  BY <1>2 DEF Starving, HasCommand, Stream
<1>4. PICK c \in Heard(s) : c = Head(p.incoming)
  BY <1>2, <1>3, Pieces DEF Stream
<1>5. PICK rest \in Stream(s) : rest = SubSeq(p.incoming, 3, Len(p.incoming))
  <2>1. \A m \in Nat \ {0} : SubSeq(p.incoming, m, Len(p.incoming)) \in Stream(s)
    BY <1>2, Pieces DEF Stream
  <2>2. 3 \in Nat \ {0}
    OBVIOUS
  <2> QED BY <2>1, <2>2
<1>6. PICK h : h = Handles(s, p, c)
  OBVIOUS
<1>7. s = "server" => Handled(p, h)
  <2>1. SUFFICES ASSUME s = "server" PROVE Handled(p, h)
    OBVIOUS
  <2>2. p \in AuthType("server") /\ Proved(p) /\ c \in Told
    BY <1>1, <1>4, <2>1, HeardTokens DEF EndInv
  <2>3. Handled(p, ServerHandles(p, c))
    BY <1>4, <2>2, ServerHandled
  <2> QED BY <1>6, <2>1, <2>3 DEF Handles
<1>8. h \in AuthType(s) /\ h.incoming = p.incoming
  <2>1. CASE s = "server"
    BY <1>7, <2>1 DEF Handled
  <2>2. CASE s = "client"
    <3>1. p \in AuthType("client")
      BY <1>1, <2>2
    <3>2. ClientHandled(p, ClientHandles(p, c))
      BY <3>1, ClientAnswers
    <3>3. h = ClientHandles(p, c)
      BY <1>6, <2>2 DEF Handles
    <3> QED BY <2>2, <3>2, <3>3 DEF ClientHandled
  <2> QED BY <2>1, <2>2 DEF Sides
<1>9. PICK r : r = [h EXCEPT !.incoming = rest]
  OBVIOUS
<1>10. r \in AuthType(s)
  <2>1. [h EXCEPT !.incoming = rest] \in AuthType(s)
    BY <1>8 DEF AuthType
  <2> QED BY <1>9, <2>1
<1>11. /\ r.state = h.state /\ r.mech = h.mech
       /\ r.cookie = h.cookie /\ r.authorized = h.authorized
       /\ r.authenticated = h.authenticated
  BY <1>8, <1>9 DEF AuthType
<1>12. ProcessCommand(s, p) = r
  BY <1>4, <1>5, <1>6, <1>8, <1>9 DEF ProcessCommand
<1>13. ASSUME s = "server" PROVE Proved(r)
  <2>1. Proved(p) /\ Handled(p, h)
    BY <1>7, <1>13 DEF EndInv
  <2>2. ~p.authenticated
    BY <2>1 DEF Proved, Starving, EndStates
  <2>3. r.state = "WaitingForAuth" => NotChosen(r)
    BY <1>11, <2>1 DEF Handled, NotChosen
  <2>4. Chosen(h) => Chosen(r)
    BY <1>11 DEF Chosen
  <2> QED BY <1>11, <2>1, <2>2, <2>3, <2>4 DEF Handled, Proved
<1> QED BY <1>10, <1>12, <1>13 DEF EndInv

(* The end of a handler: commands that are there are handled, and an end   *)
(* that is authenticated asks whether it may be let in.                    *)
LEMMA SettleKept ==
    ASSUME env \in Environments, NEW s \in Sides, NEW p, EndInv(s, p)
    PROVE  EndInv(s, Settle(s, p))
<1>1. PICK d : d = DoWork(s, p)
  OBVIOUS
<1>2. EndInv(s, d)
  BY <1>1, CommandProcessed DEF DoWork
<1>3. d \in AuthType(s)
  BY <1>2 DEF EndInv
<1>4. EndInv(s, [d EXCEPT !.gone = TRUE])
  BY <1>2, HungUp
<1>5. ASSUME d.state = "Authenticated", s = "server" => Allow(d)
      PROVE  EndInv(s, [d EXCEPT !.authenticated = TRUE])
  <2>1. PICK q : q = [d EXCEPT !.authenticated = TRUE]
    OBVIOUS
  <2>2. q \in AuthType(s)
    <3>1. [d EXCEPT !.authenticated = TRUE] \in AuthType(s)
      BY <1>3 DEF AuthType
    <3> QED BY <2>1, <3>1
  <2>3. /\ q.state = d.state /\ q.mech = d.mech
        /\ q.cookie = d.cookie /\ q.authorized = d.authorized
    BY <1>3, <2>1 DEF AuthType
  <2>4. ASSUME s = "server" PROVE Proved(q)
    <3>1. Proved(d) /\ Allow(d)
      BY <1>2, <1>5, <2>4 DEF EndInv
    <3>2. Chosen(d) => Chosen(q)
      BY <2>3 DEF Chosen
    <3>3. Allow(q)
      BY <2>3, <3>1 DEF Allow
    <3> QED BY <1>5, <2>3, <3>1, <3>2, <3>3 DEF Proved
  <2> QED BY <2>1, <2>2, <2>4 DEF EndInv
<1>6. PICK q : q = IsAuthenticated(s, p)
  OBVIOUS
<1>7. EndInv(s, q)
  BY <1>1, <1>2, <1>4, <1>5, <1>6 DEF IsAuthenticated
<1>8. EndInv(s, [q EXCEPT !.gone = TRUE])
  BY <1>7, HungUp
<1> QED BY <1>6, <1>7, <1>8 DEF Settle

(* The bytes behind BEGIN leave the buffer of an end that is let in. *)
LEMMA RecoveredKept ==
    ASSUME NEW s \in Sides, NEW p, EndInv(s, p)
    PROVE  EndInv(s, Recovered(s, p))
<1>1. CASE s = "server" /\ p.authenticated /\ ~p.recovered
  <2>1. p \in AuthType(s) /\ Proved(p)
    BY <1>1 DEF EndInv
  <2>2. PICK in \in Stream(s) : in = <<>>
    <3>1. <<>> \in Stream(s)
      BY DEF Stream
    <3> QED BY <3>1
  <2>3. PICK q : q = [p EXCEPT !.recovered = TRUE, !.incoming = in]
    OBVIOUS
  <2>4. q \in AuthType(s)
    <3>1. [p EXCEPT !.recovered = TRUE, !.incoming = in] \in AuthType(s)
      BY <2>1 DEF AuthType
    <3> QED BY <2>3, <3>1
  <2>5. /\ q.state = p.state /\ q.mech = p.mech
        /\ q.cookie = p.cookie /\ q.authorized = p.authorized
        /\ q.authenticated = p.authenticated
    BY <2>1, <2>3 DEF AuthType
  <2>6. Proved(q)
    <3>1. p.state = "Authenticated"
      BY <1>1, <2>1 DEF Proved
    <3>2. Chosen(p) => Chosen(q)
      BY <2>5 DEF Chosen
    <3>3. Allow(p) => Allow(q)
      BY <2>5 DEF Allow
    <3> QED BY <2>1, <2>5, <3>1, <3>2, <3>3 DEF Proved
  <2>7. Recovered(s, p) = q
    BY <1>1, <2>2, <2>3 DEF Recovered
  <2> QED BY <2>4, <2>6, <2>7 DEF EndInv
<1>2. CASE ~(s = "server" /\ p.authenticated /\ ~p.recovered)
  BY <1>2 DEF Recovered
<1> QED BY <1>1, <1>2

-----------------------------------------------------------------------------
(* A shortage of memory: what a handler that was stopped leaves behind.     *)

\* Nothing but what a mechanism remembers differs, and whoever is authorized
\* has been so by a mechanism that works.
HalfLike(p, q) ==
    /\ q \in AuthType("server")
    /\ q.state = p.state /\ q.mech = p.mech /\ q.incoming = p.incoming
    /\ q.authenticated = p.authenticated
    /\ q.cookie => env.keyring
    /\ q.authorized = "user" => Working(p.mech)

LEMMA HalfData ==
    ASSUME env \in Environments, NEW p \in AuthType("server"), p.cookie => env.keyring,
           p.authorized = "user" => Working(p.mech),
           NEW data \in Words, data = "hash" => env.knows,
           NEW q \in HalfDoneData(p, data)
    PROVE  HalfLike(p, q)
<1>1. PICK named : named = Named(p, data)
  OBVIOUS
<1>2. Like("server", p, named)
  BY <1>1, NamedLike
<1>3. HalfLike(p, named)
  BY <1>2 DEF Like, HalfLike
<1>4. named \in AuthType("server")
  BY <1>2 DEF Like
<1>5. ASSUME NEW a \in AuthType("server"), HalfLike(p, a), Working(p.mech)
      PROVE  HalfLike(p, [a EXCEPT !.authorized = "user"])
  <2>1. PICK auth \in {"", "user"} : auth = "user"
    OBVIOUS
  <2>2. PICK r : r = [a EXCEPT !.authorized = auth]
    OBVIOUS
  <2>3. r \in AuthType("server")
    <3>1. [a EXCEPT !.authorized = auth] \in AuthType("server")
      BY DEF AuthType
    <3> QED BY <2>2, <3>1
  <2>4. /\ r.state = a.state /\ r.mech = a.mech /\ r.incoming = a.incoming
        /\ r.authenticated = a.authenticated /\ r.cookie = a.cookie
    BY <2>2 DEF AuthType
  <2>5. HalfLike(p, r)
    BY <1>5, <2>3, <2>4 DEF HalfLike
  <2> QED BY <2>1, <2>2, <2>5
<1>6. ASSUME env.keyring
      PROVE  HalfLike(p, [named EXCEPT !.desired = data, !.cookie = TRUE])
  <2>1. PICK r : r = [named EXCEPT !.desired = data, !.cookie = TRUE]
    OBVIOUS
  <2>2. r \in AuthType("server")
    <3>1. [named EXCEPT !.desired = data, !.cookie = TRUE] \in AuthType("server")
      BY <1>4 DEF AuthType
    <3> QED BY <2>1, <3>1
  <2>3. /\ r.state = named.state /\ r.mech = named.mech /\ r.incoming = named.incoming
        /\ r.authenticated = named.authenticated /\ r.authorized = named.authorized
    BY <1>4, <2>1 DEF AuthType
  <2>4. HalfLike(p, r)
    BY <1>3, <1>6, <2>2, <2>3 DEF HalfLike
  <2> QED BY <2>1, <2>4
<1>7. HalfLike(p, p)
  BY DEF HalfLike
<1>8. CASE p.mech = "EXTERNAL" /\ env.creds /\ ~NamesTwice(p, data)
  <2>1. Working(p.mech)
    BY <1>8 DEF Working
  <2>2. HalfDoneData(p, data) =
          {named} \cup {[named EXCEPT !.authorized = d] : d \in {named.identity} \cap {"user"}}
    BY <1>1, <1>8 DEF HalfDoneData
  <2>3. q = named \/ q = [named EXCEPT !.authorized = "user"]
    BY <2>2
  <2> QED BY <1>3, <1>4, <1>5, <2>1, <2>3
<1>9. CASE /\ p.mech = "DBUS_COOKIE_SHA1" /\ ~p.cookie
           /\ ~NamesTwice(p, data) /\ data # ""
  <2>1. HalfDoneData(p, data) =
          {named} \cup {[named EXCEPT !.desired = data, !.cookie = TRUE] :
                          k \in {TRUE} \cap {env.keyring}}
    BY <1>1, <1>9 DEF HalfDoneData
  <2>2. q = named \/ (q = [named EXCEPT !.desired = data, !.cookie = TRUE] /\ env.keyring)
    BY <2>1
  <2> QED BY <1>3, <1>6, <2>2
<1>10. CASE /\ p.mech = "DBUS_COOKIE_SHA1" /\ p.cookie
            /\ data = "hash" /\ p.desired = "user"
  <2>1. Working(p.mech)
    BY <1>10 DEF Working
  <2>2. HalfDoneData(p, data) = {[p EXCEPT !.authorized = "user"]}
    BY <1>10 DEF HalfDoneData
  <2>3. q = [p EXCEPT !.authorized = "user"]
    BY <2>2
  <2> QED BY <1>5, <1>7, <2>1, <2>3
<1> QED BY <1>8, <1>9, <1>10 DEF HalfDoneData

LEMMA ServerHalf ==
    ASSUME env \in Environments, NEW p, EndInv("server", p), Starving(p),
           NEW c \in Told, c = Head(p.incoming),
           NEW half \in HalfDone("server", p, c)
    PROVE  EndInv("server", half)
<1>1. p \in AuthType("server") /\ Proved(p)
  BY DEF EndInv
<1>2. c.data \in Words /\ (c.data = "hash" => env.knows)
  BY DEF Told, Tokens
<1>3. p.cookie => env.keyring
  BY <1>1 DEF Proved
<1>4. ~p.authenticated
  BY <1>1 DEF Proved, Starving, EndStates
<1>5. CASE p.state = "WaitingForAuth" /\ c.cmd = "AUTH" /\ c.arg \in env.allowed
  <2>1. PICK mech \in Mechanisms : mech = c.arg
    BY <1>5, AllowedMechanisms
  <2>2. PICK a : a = [p EXCEPT !.mech = mech]
    OBVIOUS
  <2>3. a \in AuthType("server")
    <3>1. [p EXCEPT !.mech = mech] \in AuthType("server")
      BY <1>1 DEF AuthType
    <3> QED BY <2>2, <3>1
  <2>4. /\ a.state = p.state /\ a.mech = mech /\ a.incoming = p.incoming
        /\ a.cookie = p.cookie /\ a.authorized = p.authorized
        /\ a.authenticated = p.authenticated
    BY <1>1, <2>2 DEF AuthType
  <2>5. a.authorized = "user" => Working(a.mech)
    BY <1>1, <1>5, <2>1, <2>4 DEF Proved, NotChosen
  <2>6. HalfDone("server", p, c) =
          {p} \cup {[q EXCEPT !.mech = "none"] : q \in HalfDoneData(a, c.data)}
    BY <1>5, <2>1, <2>2 DEF HalfDone
  <2>7. CASE half = p
    BY <2>7
  <2>8. CASE half \in {[q EXCEPT !.mech = "none"] : q \in HalfDoneData(a, c.data)}
    <3>1. PICK q \in HalfDoneData(a, c.data) : half = [q EXCEPT !.mech = "none"]
      BY <2>8
    <3>2. HalfLike(a, q)
      BY <1>2, <1>3, <2>3, <2>4, <2>5, HalfData
    <3>3. PICK none \in Mechanisms \cup {"none"} : none = "none"
      OBVIOUS
    <3>4. q \in AuthType("server")
      BY <3>2 DEF HalfLike
    <3>5. half \in AuthType("server")
      <4>1. [q EXCEPT !.mech = none] \in AuthType("server")
        BY <3>4 DEF AuthType
      <4> QED BY <3>1, <3>3, <4>1
    <3>6. /\ half.state = q.state /\ half.incoming = q.incoming /\ half.cookie = q.cookie
          /\ half.authorized = q.authorized /\ half.authenticated = q.authenticated
      BY <3>1, <3>4 DEF AuthType
    <3>7. Starving(half)
      BY <2>4, <3>2, <3>6 DEF HalfLike, Starving, HasCommand
    <3>8. NotChosen(half)
      BY <1>5, <2>1, <2>4, <3>2, <3>6, <3>7 DEF HalfLike, NotChosen
    <3>9. Proved(half)
      BY <1>4, <1>5, <2>4, <3>2, <3>6, <3>8 DEF HalfLike, Proved
    <3> QED BY <3>5, <3>9 DEF EndInv
  <2> QED BY <2>6, <2>7, <2>8
<1>6. CASE p.state = "WaitingForData" /\ c.cmd = "DATA"
  <2>1. Chosen(p)
    BY <1>1, <1>6 DEF Proved
  <2>2. HalfDone("server", p, c) = {p} \cup HalfDoneData(p, c.data)
    BY <1>6 DEF HalfDone
  <2>3. CASE half = p
    BY <2>3
  <2>4. CASE half \in HalfDoneData(p, c.data)
    <3>1. HalfLike(p, half)
      BY <1>1, <1>2, <1>3, <2>1, <2>4, HalfData DEF Chosen
    <3>2. Chosen(half)
      BY <2>1, <3>1 DEF Chosen, HalfLike
    <3>3. Proved(half)
      BY <1>4, <1>6, <3>1, <3>2 DEF Proved, HalfLike
    <3> QED BY <3>1, <3>3 DEF EndInv, HalfLike
  <2> QED BY <2>2, <2>3, <2>4
<1>7. CASE p.state = "WaitingForBegin" /\ c.cmd = "NEGOTIATE_UNIX_FD" /\ env.fds["server"]
  <2>1. HalfDone("server", p, c) = {p} \cup {[p EXCEPT !.fd = TRUE]}
    BY <1>7 DEF HalfDone
  <2>2. CASE half = p
    BY <2>2
  <2>3. CASE half = [p EXCEPT !.fd = TRUE]
    <3>1. half \in AuthType("server")
      <4>1. [p EXCEPT !.fd = TRUE] \in AuthType("server")
        BY <1>1 DEF AuthType
      <4> QED BY <2>3, <4>1
    <3>2. Like("server", p, half)
      BY <1>1, <2>3, <3>1 DEF AuthType, Like
    <3>3. "server" \in Sides
      BY ServerSide
    <3> QED BY <3>2, <3>3, LikeKept
  <2> QED BY <2>1, <2>2, <2>3
<1>8. CASE /\ ~(p.state = "WaitingForAuth" /\ c.cmd = "AUTH" /\ c.arg \in env.allowed)
           /\ ~(p.state = "WaitingForData" /\ c.cmd = "DATA")
           /\ ~(p.state = "WaitingForBegin" /\ c.cmd = "NEGOTIATE_UNIX_FD" /\ env.fds["server"])
  <2>1. half = p
    BY <1>8 DEF HalfDone
  <2> QED BY <2>1
<1> QED BY <1>5, <1>6, <1>7, <1>8

LEMMA HalfKept ==
    ASSUME env \in Environments, NEW s \in Sides, NEW p, EndInv(s, p), Starving(p),
           NEW half \in HalfDone(s, p, Head(p.incoming))
    PROVE  EndInv(s, half)
<1>1. PICK c : c = Head(p.incoming)
  OBVIOUS
<1>2. p \in AuthType(s)
  BY DEF EndInv
<1>3. c \in Heard(s)
  <2>1. p.incoming \in Seq(Heard(s))
    BY <1>2 DEF AuthType, Stream
  <2>2. p.incoming # <<>>
    BY DEF Starving, HasCommand
  <2> QED BY <1>1, <2>1, <2>2, HeadTailProperties
<1>4. CASE s = "server"
  <2>1. EndInv("server", p) /\ c \in Told /\ half \in HalfDone("server", p, c)
    BY <1>1, <1>3, <1>4, HeardTokens
  <2>2. EndInv("server", half)
    BY <1>1, <2>1, ServerHalf
  <2> QED BY <1>4, <2>2
<1>5. CASE s = "client"
  <2>1. half \in {p, [p EXCEPT !.guid = TRUE], [p EXCEPT !.fd = TRUE]}
    BY <1>5 DEF HalfDone
  <2>2. p \in AuthType("client")
    BY <1>2, <1>5
  <2>3. half \in AuthType("client")
    BY <2>1, <2>2, FlagsRaised DEF ClientHandled
  <2> QED BY <1>5, <2>3 DEF EndInv
<1> QED BY <1>4, <1>5 DEF Sides

-----------------------------------------------------------------------------
(* Steps.  The circumstances never change, so what one end is made of does  *)
(* not either.                                                             *)

LEMMA EnvKept ==
    ASSUME env' = env
    PROVE  \A s \in Sides : Stream(s)' = Stream(s) /\ AuthType(s)' = AuthType(s)
<1>1. Told' = Told
  BY DEF Told
<1>2. ASSUME NEW s \in Sides PROVE Heard(s)' = Heard(s)
  BY <1>1 DEF Heard
<1>3. ASSUME NEW s \in Sides PROVE Stream(s)' = Stream(s)
  BY <1>2 DEF Stream
<1>4. ASSUME NEW s \in Sides PROVE AuthType(s)' = AuthType(s)
  <2>1. Other(s) \in Sides
    BY HeardTokens
  <2>2. Stream(s)' = Stream(s) /\ Stream(Other(s))' = Stream(Other(s))
    BY <1>3, <2>1
  <2> QED BY <2>2 DEF AuthType
<1> QED BY <1>3, <1>4

LEMMA EndKept ==
    ASSUME env' = env, NEW s \in Sides, NEW r, EndInv(s, r), r = peer'[s]
    PROVE  EndInv(s, peer[s])'
<1>1. peer'[s] \in AuthType(s)'
  BY EnvKept DEF EndInv
<1>2. ASSUME s = "server" PROVE Proved(peer[s])'
  <2>1. Proved(r)
    BY <1>2 DEF EndInv
  <2>2. NotChosen(r) => NotChosen(peer[s])'
    BY DEF NotChosen, Working, Starving, HasCommand
  <2>3. Chosen(r) => Chosen(peer[s])'
    BY DEF Chosen, Working
  <2>4. Allow(r) => Allow(peer[s])'
    BY DEF Allow
  <2> QED BY <2>1, <2>2, <2>3, <2>4 DEF Proved
<1> QED BY <1>1, <1>2 DEF EndInv

LEMMA StepKept ==
    ASSUME AuthInv, env' = env, sent' \in Nat,
           NEW s \in Sides, NEW q, EndInv(s, q), peer' = [peer EXCEPT ![s] = q],
           DOMAIN net' = Sides, \A t \in Sides : net'[t] \in Stream(t)
    PROVE  AuthInv'
<1>1. DOMAIN peer' = Sides
  BY DEF AuthInv
<1>2. ASSUME NEW t \in Sides PROVE EndInv(t, peer[t])'
  <2>1. PICK r : r = peer'[t]
    OBVIOUS
  <2>2. r = IF t = s THEN q ELSE peer[t]
    BY <2>1 DEF AuthInv
  <2>3. EndInv(t, r)
    BY <2>2 DEF AuthInv
  <2> QED BY <2>1, <2>3, EndKept
<1>3. \A t \in Sides : net'[t] \in Stream(t)'
  BY EnvKept
<1>4. env' \in Environments'
  BY DEF AuthInv, Environments
<1> QED BY <1>1, <1>2, <1>3, <1>4 DEF AuthInv

LEMMA NetKept ==
    ASSUME AuthInv, NEW s \in Sides, NEW x \in Stream(s), net' = [net EXCEPT ![s] = x]
    PROVE  DOMAIN net' = Sides /\ \A t \in Sides : net'[t] \in Stream(t)
<1>1. DOMAIN net = Sides /\ \A t \in Sides : net[t] \in Stream(t)
  BY DEF AuthInv
<1> HIDE DEF Stream
<1> QED BY <1>1

(* A read takes the first tokens from the socket. *)
LEMMA NetRead ==
    ASSUME AuthInv, NEW s \in Sides, NEW n \in 1..Len(net[s])
    PROVE  /\ SubSeq(net[s], n + 1, Len(net[s])) \in Stream(s)
           /\ SubSeq(net[s], 1, n) \in Stream(s)
<1>1. net[s] \in Seq(Heard(s))
  BY DEF AuthInv, Stream
<1>2. n + 1 \in Nat \ {0} /\ n \in 0..Len(net[s])
  BY <1>1
<1> QED BY <1>1, <1>2, Pieces DEF Stream

LEMMA WrittenKept ==
    ASSUME AuthInv, env' = env, sent' \in Nat, NEW s \in Sides, NEW p, EndInv(s, p),
           NEW x \in Stream(Other(s)), Written(s, p, x)
    PROVE  AuthInv'
<1>1. DOMAIN net = Sides /\ \A t \in Sides : net[t] \in Stream(t)
  BY DEF AuthInv
<1>2. CASE peer[Other(s)].gone
  <2>1. PICK q : q = [p EXCEPT !.gone = TRUE]
    OBVIOUS
  <2>2. EndInv(s, q)
    BY <2>1, HungUp
  <2>3. peer' = [peer EXCEPT ![s] = q] /\ net' = net
    BY <1>2, <2>1 DEF Written
  <2> QED BY <1>1, <2>2, <2>3, StepKept
<1>3. CASE ~peer[Other(s)].gone
  <2>1. PICK q : q = Recovered(s, p)
    OBVIOUS
  <2>2. EndInv(s, q)
    BY <2>1, RecoveredKept
  <2>3. /\ peer' = [peer EXCEPT ![s] = q]
        /\ net' = [net EXCEPT ![Other(s)] = net[Other(s)] \o x]
    BY <1>3, <2>1 DEF Written, Returns
  <2>4. Other(s) \in Sides
    BY HeardTokens
  <2>5. net[Other(s)] \o x \in Stream(Other(s))
    BY <1>1, <2>4, ConcatProperties DEF Stream
  <2>6. DOMAIN net' = Sides /\ \A t \in Sides : net'[t] \in Stream(t)
    BY <2>3, <2>4, <2>5, NetKept
  <2> QED BY <2>2, <2>3, <2>6, StepKept
<1> QED BY <1>2, <1>3

LEMMA PeerOfInv ==
    ASSUME AuthInv, NEW s \in Sides
    PROVE  /\ EndInv(s, peer[s]) /\ EndInv(s, Settle(s, peer[s]))
           /\ env \in Environments /\ sent \in Nat
           /\ DOMAIN net = Sides /\ \A t \in Sides : net[t] \in Stream(t)
<1>1. EndInv(s, peer[s]) /\ env \in Environments
  BY DEF AuthInv
<1>2. EndInv(s, Settle(s, peer[s]))
  BY <1>1, SettleKept
<1> QED BY <1>1, <1>2 DEF AuthInv

LEMMA ReadCredentialsStep ==
    ASSUME AuthInv, NEW s \in Sides, ReadCredentials(s)
    PROVE  AuthInv'
<1>1. /\ net[s] # <<>> /\ net' = [net EXCEPT ![s] = Tail(net[s])]
      /\ peer' = [peer EXCEPT ![s] = [peer[s] EXCEPT !.credentials = "none"]]
      /\ env' = env /\ sent' = sent
  BY DEF ReadCredentials
<1>2. Tail(net[s]) \in Stream(s)
  BY <1>1, PeerOfInv, Pieces DEF Stream
<1>3. DOMAIN net' = Sides /\ \A t \in Sides : net'[t] \in Stream(t)
  BY <1>1, <1>2, NetKept
<1>4. PICK q : q = [peer[s] EXCEPT !.credentials = "none"]
  OBVIOUS
<1>5. EndInv(s, q)
  BY <1>4, PeerOfInv, HungUp
<1>6. peer' = [peer EXCEPT ![s] = q] /\ sent' \in Nat
  BY <1>1, <1>4, PeerOfInv
<1> QED BY <1>1, <1>3, <1>5, <1>6, StepKept

LEMMA DoReadingStep ==
    ASSUME AuthInv, NEW s \in Sides, DoReading(s)
    PROVE  AuthInv'
<1>1. PICK p : p = Settle(s, peer[s])
  OBVIOUS
<1>2. PICK n \in 1..Len(net[s]) :
        /\ net' = [net EXCEPT ![s] = SubSeq(net[s], n + 1, Len(net[s]))]
        /\ peer' = [peer EXCEPT ![s] = Recovered(s, p)]
        /\ env' = env /\ sent' = sent
  BY <1>1 DEF DoReading, Returns
<1>3. PICK q : q = Recovered(s, p)
  OBVIOUS
<1>4. EndInv(s, q)
  BY <1>1, <1>3, PeerOfInv, RecoveredKept
<1>5. DOMAIN net' = Sides /\ \A t \in Sides : net'[t] \in Stream(t)
  BY <1>2, NetRead, NetKept
<1>6. peer' = [peer EXCEPT ![s] = q] /\ sent' \in Nat /\ env' = env
  BY <1>2, <1>3, PeerOfInv
<1> QED BY <1>4, <1>5, <1>6, StepKept

LEMMA DoAuthenticationReadingStep ==
    ASSUME AuthInv, NEW s \in Sides, DoAuthenticationReading(s)
    PROVE  AuthInv'
<1>1. PICK p : p = Settle(s, peer[s])
  OBVIOUS
<1>2. PICK n \in 1..Len(net[s]) :
        /\ net' = [net EXCEPT ![s] = SubSeq(net[s], n + 1, Len(net[s]))]
        /\ peer' = [peer EXCEPT ![s] = Recovered(s,
              Settle(s, [p EXCEPT !.incoming = @ \o SubSeq(net[s], 1, n)]))]
        /\ env' = env /\ sent' = sent
  BY <1>1 DEF DoAuthenticationReading, Returns
<1>3. PICK x \in Stream(s) : x = SubSeq(net[s], 1, n)
  BY NetRead
<1>4. PICK a : a = [p EXCEPT !.incoming = @ \o x]
  OBVIOUS
<1>5. EndInv(s, a)
  BY <1>1, <1>4, PeerOfInv, MoreRead
<1>6. PICK b, q : b = Settle(s, a) /\ q = Recovered(s, b)
  OBVIOUS
<1>7. EndInv(s, q)
  BY <1>5, <1>6, PeerOfInv, SettleKept, RecoveredKept
<1>8. DOMAIN net' = Sides /\ \A t \in Sides : net'[t] \in Stream(t)
  BY <1>2, NetRead, NetKept
<1>9. peer' = [peer EXCEPT ![s] = q] /\ sent' \in Nat /\ env' = env
  BY <1>2, <1>3, <1>4, <1>6, PeerOfInv
<1> QED BY <1>7, <1>8, <1>9, StepKept

LEMMA RetryReadingStep ==
    ASSUME AuthInv, NEW s \in Sides, RetryReading(s)
    PROVE  AuthInv'
<1>1. PICK p : p = Settle(s, peer[s])
  OBVIOUS
<1>2. peer' = [peer EXCEPT ![s] = p] /\ env' = env /\ net' = net /\ sent' = sent
  BY <1>1 DEF RetryReading
<1>3. EndInv(s, p)
  BY <1>1, PeerOfInv
<1>4. /\ DOMAIN net' = Sides /\ \A t \in Sides : net'[t] \in Stream(t)
      /\ sent' \in Nat
  BY <1>2, PeerOfInv
<1> QED BY <1>2, <1>3, <1>4, StepKept

LEMMA ReadingNoMemoryStep ==
    ASSUME AuthInv, NEW s \in Sides, ReadingNoMemory(s)
    PROVE  AuthInv'
<1>1. PICK n \in 1..Len(net[s]) :
        LET q == [peer[s] EXCEPT !.incoming = @ \o SubSeq(net[s], 1, n)]
        IN  /\ Starving(q)
            /\ net' = [net EXCEPT ![s] = SubSeq(net[s], n + 1, Len(net[s]))]
            /\ \E half \in HalfDone(s, q, Head(q.incoming)) :
                 peer' = [peer EXCEPT ![s] = half]
  BY DEF ReadingNoMemory
<1>2. PICK x \in Stream(s) : x = SubSeq(net[s], 1, n)
  BY NetRead
<1>3. PICK q : q = [peer[s] EXCEPT !.incoming = @ \o x]
  OBVIOUS
<1>4. EndInv(s, q)
  BY <1>3, PeerOfInv, MoreRead
<1>5. PICK half \in HalfDone(s, q, Head(q.incoming)) :
        peer' = [peer EXCEPT ![s] = half] /\ Starving(q)
  BY <1>1, <1>2, <1>3
<1>6. EndInv(s, half)
  BY <1>4, <1>5, PeerOfInv, HalfKept
<1>7. DOMAIN net' = Sides /\ \A t \in Sides : net'[t] \in Stream(t)
  BY <1>1, NetRead, NetKept
<1>8. env' = env /\ sent' \in Nat
  BY PeerOfInv DEF ReadingNoMemory
<1> QED BY <1>5, <1>6, <1>7, <1>8, StepKept

(* An end that hangs up: ReadEof and the timeout of the server. *)
LEMMA GoneStep ==
    ASSUME AuthInv, NEW s \in Sides,
           peer' = [peer EXCEPT ![s].gone = TRUE],
           env' = env, net' = net, sent' = sent
    PROVE  AuthInv'
<1>1. PICK q : q = [peer[s] EXCEPT !.gone = TRUE]
  OBVIOUS
<1>2. EndInv(s, q)
  BY <1>1, PeerOfInv, HungUp
<1>3. peer' = [peer EXCEPT ![s] = q]
  BY <1>1
<1>4. /\ DOMAIN net' = Sides /\ \A t \in Sides : net'[t] \in Stream(t)
      /\ sent' \in Nat
  BY PeerOfInv
<1> QED BY <1>2, <1>3, <1>4, StepKept

(* The credentials byte and the messages may be said by anybody. *)
LEMMA OthersAreTokens ==
    ASSUME NEW s \in Sides
    PROVE  /\ <<Nul>> \in Stream(s)
           /\ \A i \in Nat : <<Message(i)>> \in Stream(s)
<1>1. Nul \in Tokens /\ Nul.data # "hash"
  BY DEF Token, Tokens, Nul, Commands, Words, Arguments
<1>2. ASSUME NEW i \in Nat PROVE Message(i) \in Tokens /\ Message(i).data # "hash"
  BY DEF Token, Tokens, Message, Commands, Words, Arguments
<1>3. Nul \in Heard(s) /\ \A i \in Nat : Message(i) \in Heard(s)
  BY <1>1, <1>2 DEF Heard, Told
<1>4. \A t \in Heard(s) : <<t>> \in Seq(Heard(s))
  OBVIOUS
<1> QED BY <1>3, <1>4 DEF Stream

LEMMA SendCredentialsStep ==
    ASSUME AuthInv, NEW s \in Sides, SendCredentials(s)
    PROVE  AuthInv'
<1>1. PICK q : q = [peer[s] EXCEPT !.credentials = "none"]
  OBVIOUS
<1>2. EndInv(s, q)
  BY <1>1, PeerOfInv, HungUp
<1>3. Written(s, q, <<Nul>>)
  BY <1>1 DEF SendCredentials
<1>4. env' = env /\ sent' \in Nat
  BY PeerOfInv DEF SendCredentials
<1>5. <<Nul>> \in Stream(Other(s))
  BY HeardTokens, OthersAreTokens
<1> QED BY <1>2, <1>3, <1>4, <1>5, WrittenKept

LEMMA DoAuthenticationWritingStep ==
    ASSUME AuthInv, NEW s \in Sides, DoAuthenticationWriting(s)
    PROVE  AuthInv'
<1>1. PICK p : p = Settle(s, peer[s])
  OBVIOUS
<1>2. EndInv(s, p)
  BY <1>1, PeerOfInv
<1>3. PICK n \in (IF p.outgoing = <<>> THEN {0} ELSE 1..Len(p.outgoing)) :
        Written(s, Settle(s, [p EXCEPT !.outgoing = SubSeq(@, n + 1, Len(@))]),
                SubSeq(p.outgoing, 1, n))
  BY <1>1 DEF DoAuthenticationWriting
<1>4. p.outgoing \in Stream(Other(s))
  BY <1>2 DEF EndInv, AuthType
<1>5. n \in Nat /\ n \in 0..Len(p.outgoing)
  <2>1. Len(p.outgoing) \in Nat
    BY <1>4 DEF Stream
  <2> QED BY <1>3, <2>1
<1>6. PICK x \in Stream(Other(s)) : x = SubSeq(p.outgoing, 1, n)
  BY <1>4, <1>5, Pieces DEF Stream
<1>7. PICK a : a = [p EXCEPT !.outgoing = SubSeq(@, n + 1, Len(@))]
  OBVIOUS
<1>8. EndInv(s, a)
  BY <1>2, <1>5, <1>7, Wrote
<1>9. PICK q : q = Settle(s, a)
  OBVIOUS
<1>10. EndInv(s, q)
  BY <1>8, <1>9, PeerOfInv, SettleKept
<1>11. Written(s, q, x)
  BY <1>3, <1>6, <1>7, <1>9
<1>12. env' = env /\ sent' \in Nat
  BY PeerOfInv DEF DoAuthenticationWriting
<1> QED BY <1>10, <1>11, <1>12, WrittenKept

LEMMA DoWritingStep ==
    ASSUME AuthInv, NEW s \in Sides, DoWriting(s)
    PROVE  AuthInv'
<1>1. PICK i \in Nat : i = sent + 1
  BY PeerOfInv
<1>2. PICK p : p = peer[s]
  OBVIOUS
<1>3. EndInv(s, p)
  BY <1>2, PeerOfInv
<1>4. Written(s, p, <<Message(i)>>)
  BY <1>1, <1>2 DEF DoWriting
<1>5. env' = env /\ sent' \in Nat
  BY <1>1 DEF DoWriting
<1>6. <<Message(i)>> \in Stream(Other(s))
  BY HeardTokens, OthersAreTokens
<1> QED BY <1>3, <1>4, <1>5, <1>6, WrittenKept

(* Whatever another client says, it says the hash only if it can read the   *)
(* cookie.                                                                 *)
LEMMA OtherLinesTold ==
    ASSUME NEW line \in OtherLines
    PROVE  line \in Stream("server")
<1>1. \A c \in Commands, arg \in Arguments, data \in Words :
        (data = "hash" => env.knows) => Line(c, arg, data) \in Stream("server")
  BY LinesAreTokens, HeardTokens DEF Stream
<1>2. PICK c \in Commands, arg \in Arguments, data \in Words :
        line = Line(c, arg, data) /\ (data = "hash" => env.knows)
  <2>1. /\ {"AUTH", "DATA", "CANCEL", "BEGIN", "NEGOTIATE_UNIX_FD"} \subseteq Commands
        /\ {"", "EXTERNAL", "DBUS_COOKIE_SHA1", "ANONYMOUS"} \subseteq Arguments
        /\ {"", "user", "other", "trace", "hash"} \subseteq Words
    BY DEF Commands, Arguments, Mechanisms, Words
  <2>2. CASE line \in {Line("AUTH", "EXTERNAL", d) : d \in {"", "user", "other"}}
    BY <2>1, <2>2
  <2>3. CASE line \in {Line("AUTH", "DBUS_COOKIE_SHA1", d) : d \in {"user", "other"}}
    BY <2>1, <2>3
  <2>4. CASE line \in {Line("AUTH", "ANONYMOUS", "trace")}
    BY <2>1, <2>4
  <2>5. CASE line \in {Line("DATA", "", d) : d \in {"", "user"}}
    BY <2>1, <2>5
  <2>6. CASE line \in {Line(c, "", "") : c \in {"CANCEL", "BEGIN", "NEGOTIATE_UNIX_FD"}}
    <3>1. PICK c \in {"CANCEL", "BEGIN", "NEGOTIATE_UNIX_FD"} : line = Line(c, "", "")
      BY <2>6
    <3>2. c \in Commands /\ "" \in Arguments /\ "" \in Words /\ "" # "hash"
      BY <2>1
    <3> QED BY <3>1, <3>2
  <2>7. CASE line \in {Line("DATA", "", "hash") :
                         k \in {TRUE} \cap {env.knows /\ peer["server"].cookie}}
    BY <2>1, <2>7
  <2> QED BY <2>2, <2>3, <2>4, <2>5, <2>6, <2>7 DEF OtherLines
<1> QED BY <1>1, <1>2

LEMMA OtherWritesStep ==
    ASSUME AuthInv, OtherWrites
    PROVE  AuthInv'
<1>1. PICK line \in OtherLines :
        net' = [client |-> <<>>, server |-> line] /\ peer' = peer /\ env' = env /\ sent' = sent
  BY DEF OtherWrites
<1>2. line \in Stream("server")
  BY OtherLinesTold
<1>3. <<>> \in Stream("client")
  BY DEF Stream
<1>4. DOMAIN net' = Sides /\ \A t \in Sides : net'[t] \in Stream(t)
  BY <1>1, <1>2, <1>3 DEF Sides
<1>5. ASSUME NEW t \in Sides PROVE EndInv(t, peer[t])'
  <2>1. PICK r : r = peer'[t]
    OBVIOUS
  <2>2. EndInv(t, r)
    BY <1>1, <2>1 DEF AuthInv
  <2> QED BY <1>1, <2>1, <2>2, EndKept
<1>6. \A t \in Sides : net'[t] \in Stream(t)'
  BY <1>1, <1>4, EnvKept
<1>7. /\ env' \in Environments' /\ DOMAIN peer' = Sides /\ sent' \in Nat
  BY <1>1 DEF AuthInv, Environments
<1> QED BY <1>4, <1>5, <1>6, <1>7 DEF AuthInv

-----------------------------------------------------------------------------

LEMMA InitAuthInv == Init => AuthInv
<1> SUFFICES ASSUME Init PROVE AuthInv
  OBVIOUS
<1>1. ASSUME NEW s \in Sides PROVE EndInv(s, NewAuth(s))
  <2>1. PICK st \in StatesOf(s) :
          st = (IF s = "server" THEN "WaitingForAuth" ELSE "WaitingForData")
    BY DEF StatesOf
  <2>2. PICK mech \in Mechanisms \cup {"none"} :
          mech = (IF s = "server" THEN "none" ELSE AllMechanisms[1])
    BY DEF Mechanisms, AllMechanisms
  <2>3. PICK in \in Stream(s) : in = <<>>
    <3>1. <<>> \in Stream(s)
      BY DEF Stream
    <3> QED BY <3>1
  <2>4. PICK out \in Stream(Other(s)) :
          out = (IF s = "server" THEN <<>> ELSE Line("AUTH", AllMechanisms[1], "user"))
    <3>1. CASE s = "server"
      <4>1. <<>> \in Stream(Other(s))
        BY DEF Stream
      <4> QED BY <3>1, <4>1
    <3>2. CASE s = "client"
      <4>1. PICK m : m = AllMechanisms[1]
        OBVIOUS
      <4>2. m \in Mechanisms /\ "user" \in {"user", "trace"}
        BY <4>1 DEF Mechanisms, AllMechanisms
      <4>3. Line("AUTH", m, "user") \in Stream("server")
        BY <4>2, ClientLines
      <4>4. Other(s) = "server" /\ s # "server"
        BY <3>2, HeardTokens
      <4> QED BY <4>1, <4>3, <4>4
    <3> QED BY <3>1, <3>2 DEF Sides
  <2>5. PICK cr \in {"send", "receive", "none"} :
          cr = (IF s = "server" THEN "receive" ELSE "send")
    OBVIOUS
  <2>6. PICK none, auth, tries, zero :
          /\ none = "" /\ none \in Words /\ auth = "" /\ auth \in {"", "user"}
          /\ tries = <<>> /\ tries \in MechanismLists /\ zero = 0 /\ zero \in Nat
    <3>1. <<>> \in MechanismLists
      BY DEF MechanismLists
    <3>2. "" \in Words
      BY DEF Words
    <3> QED BY <3>1, <3>2
  <2>7. PICK p : p =
          [state |-> st, mech |-> mech, incoming |-> in, outgoing |-> out,
           identity |-> none, asked |-> FALSE, cookie |-> FALSE, desired |-> none,
           authorized |-> auth, failures |-> zero,
           guid |-> FALSE, fd |-> FALSE, listed |-> FALSE, tries |-> tries,
           credentials |-> cr,
           authenticated |-> FALSE, recovered |-> FALSE, gone |-> FALSE]
    OBVIOUS
  <2>8. p \in AuthType(s)
    BY <2>6, <2>7 DEF AuthType
  <2>9. NewAuth(s) = p
    BY <2>1, <2>2, <2>3, <2>4, <2>5, <2>6, <2>7 DEF NewAuth
  <2>10. /\ p.state = st /\ p.authorized = "" /\ ~p.cookie /\ ~p.authenticated
    BY <2>6, <2>7
  <2>11. s = "server" => Proved(p)
    BY <2>1, <2>10 DEF Proved, NotChosen
  <2> QED BY <2>8, <2>9, <2>11 DEF EndInv
<1>2. <<Nul>> \in Stream("server") /\ <<>> \in Stream("server") /\ <<>> \in Stream("client")
  <2>1. "server" \in Sides
    BY ServerSide
  <2> QED BY <2>1, OthersAreTokens DEF Stream
<1>3. DOMAIN net = Sides /\ \A t \in Sides : net[t] \in Stream(t)
  BY <1>2 DEF Init, Sides
<1>4. DOMAIN peer = Sides /\ \A s \in Sides : EndInv(s, peer[s])
  BY <1>1 DEF Init
<1> QED BY <1>3, <1>4 DEF Init, AuthInv

LEMMA NextAuthInv == AuthInv /\ [Next]_vars => AuthInv'
<1> SUFFICES ASSUME AuthInv, [Next]_vars PROVE AuthInv'
  OBVIOUS
<1>1. ASSUME NEW s \in Sides, ReadWatch(s) PROVE AuthInv'
  <2>1. CASE ReadEof(s)
    BY <2>1, GoneStep DEF ReadEof
  <2> QED BY <1>1, <2>1, ReadCredentialsStep, DoAuthenticationReadingStep, DoReadingStep,
             RetryReadingStep DEF ReadWatch
<1>2. ASSUME NEW s \in Sides, WriteWatch(s) PROVE AuthInv'
  BY <1>2, SendCredentialsStep, DoAuthenticationWritingStep, DoWritingStep DEF WriteWatch
<1>3. CASE AuthTimeout
  <2>1. /\ peer' = [peer EXCEPT !["server"].gone = TRUE]
        /\ env' = env /\ net' = net /\ sent' = sent
    BY <1>3 DEF AuthTimeout
  <2>2. "server" \in Sides
    BY ServerSide
  <2> QED BY <2>1, <2>2, GoneStep
<1>4. CASE UNCHANGED vars
  <2>1. PICK s \in Sides : s = "server"
    BY ServerSide
  <2>2. ASSUME NEW t \in Sides PROVE EndInv(t, peer[t])'
    <3>1. PICK r : r = peer'[t]
      OBVIOUS
    <3>2. EndInv(t, r)
      BY <1>4, <3>1 DEF AuthInv, vars
    <3> QED BY <1>4, <3>1, <3>2, EndKept DEF vars
  <2>3. /\ env' = env /\ peer' = peer /\ net' = net /\ sent' = sent
    BY <1>4 DEF vars
  <2>4. \A t \in Sides : net'[t] \in Stream(t)'
    BY <2>3, EnvKept, PeerOfInv
  <2>5. /\ env' \in Environments' /\ DOMAIN peer' = Sides /\ DOMAIN net' = Sides
        /\ sent' \in Nat
    BY <2>3 DEF AuthInv, Environments
  <2> QED BY <2>2, <2>4, <2>5 DEF AuthInv
<1> QED BY <1>1, <1>2, <1>3, <1>4, ReadingNoMemoryStep, OtherWritesStep DEF Next

(* Whoever is let in as a user has proved to be that user by the mechanism  *)
(* in use, which the server allows, and is a user it admits; nobody else is *)
(* let in unless anyone is: whatever was tried, granted and given up before *)
(* (shutdown_mech), and wherever memory ran out on the way.                 *)
THEOREM WhoIsLetInHasProvedIt == Spec => []IdentityIsProved
<1>1. AuthInv => IdentityIsProved
  <2> SUFFICES ASSUME AuthInv, peer["server"].authenticated
               PROVE  IF peer["server"].authorized = "" THEN env.anonymous
                      ELSE /\ peer["server"].mech \in env.allowed
                           /\ Working(peer["server"].mech) /\ env.admits
    BY DEF IdentityIsProved
  <2>1. PICK p : p = peer["server"]
    OBVIOUS
  <2>2. p \in AuthType("server") /\ Proved(p)
    BY <2>1, ServerSide, PeerOfInv DEF EndInv
  <2>3. p.authorized \in {"", "user"}
    BY <2>2 DEF AuthType
  <2>4. Chosen(p) /\ Allow(p)
    BY <2>1, <2>2 DEF Proved
  <2> QED BY <2>1, <2>3, <2>4 DEF Chosen, Allow
<1> QED BY <1>1, InitAuthInv, NextAuthInv, PTL DEF Spec

=============================================================================
