------------------------------- MODULE Auth -------------------------------
(***************************************************************************)
(* The authentication conversation that opens every connection: the state   *)
(* machines of both ends (dbus/dbus-auth.c), the socket transport that       *)
(* carries them from its watches (dbus/dbus-transport-socket.c) and the      *)
(* decision whether the peer may talk (dbus/dbus-transport.c).               *)
(*                                                                         *)
(* A stream is a sequence of tokens: the credentials byte, the name of a     *)
(* command with its argument, the end of its line, a message.  Reads and      *)
(* writes move any number of them, so a line may arrive in two pieces and     *)
(* messages may arrive behind BEGIN in one read.  A shortage of memory makes  *)
(* the handler of a command fail half way; the command then stays in the      *)
(* buffer and is handled again from the start.                               *)
(***************************************************************************)
EXTENDS Integers, Sequences, SequencesExt

CONSTANTS
    Messages,       \* what the client has to say once it is authenticated
    AllowedSets,    \* the sets of mechanisms a server may be configured with
    MaxFailures,    \* rejections before the server gives up (6 in the code)
    MaxLines,       \* bound: lines a client that is not libdbus writes
    MaxShortages    \* bound: handlers that run out of memory

ASSUME BoundsAssumption ==
    /\ MaxFailures \in Nat \ {0}
    /\ MaxLines \in Nat
    /\ MaxShortages \in Nat

\* Only a mechanism that find_mech() knows can be allowed.
ASSUME MechanismsAssumption ==
    \A allowed \in AllowedSets : allowed \subseteq {"EXTERNAL", "DBUS_COOKIE_SHA1", "ANONYMOUS"}

VARIABLES
    env,        \* the circumstances of this conversation; never change
    peer,       \* the two ends: the DBusAuth and the DBusTransport of each
    net,        \* the tokens on their way to each end
    loader,     \* the tokens the server's message loader was given
    sent,       \* number of messages the client has written
    lines,      \* number of lines a client that is not libdbus has written
    shortages,  \* handlers that have run out of memory
    expired     \* the server's authentication timeout has struck

vars == <<env, peer, net, loader, sent, lines, shortages, expired>>

Sides == {"client", "server"}

Other(s) == IF s = "client" THEN "server" ELSE "client"

\* all_mechanisms, in our order of preference.
AllMechanisms == <<"EXTERNAL", "DBUS_COOKIE_SHA1", "ANONYMOUS">>

-----------------------------------------------------------------------------
(* Tokens. *)

Token(c, arg, data) == [cmd |-> c, arg |-> arg, data |-> data]

Nul == Token("nul", "", "")

Eol == Token("eol", "", "")

Message(i) == Token("message", Messages[i], "")

Line(c, arg, data) == <<Token(c, arg, data), Eol>>

\* A whole line is in the buffer.
HasCommand(p) == Len(p.incoming) >= 2 /\ p.incoming[2] = Eol

EndStates == {"Authenticated", "NeedDisconnect"}

\* process_command() has something to do, and only lacks the memory for it.
Starving(p) == p.state \notin EndStates /\ HasCommand(p)

-----------------------------------------------------------------------------
(* What both ends do. *)

NewAuth(side) ==
    [state |-> IF side = "server" THEN "WaitingForAuth" ELSE "WaitingForData",
     mech |-> IF side = "server" THEN "none" ELSE AllMechanisms[1],
     incoming |-> <<>>,
     outgoing |-> IF side = "server" THEN <<>>
                  ELSE Line("AUTH", AllMechanisms[1], "user"),
     identity |-> "", asked |-> FALSE, cookie |-> FALSE, desired |-> "",
     authorized |-> "", failures |-> 0,
     guid |-> FALSE, fd |-> FALSE, listed |-> FALSE, tries |-> <<>>,
     credentials |-> IF side = "server" THEN "receive" ELSE "send",
     authenticated |-> FALSE, recovered |-> FALSE, gone |-> FALSE]

Say(p, line) == [p EXCEPT !.outgoing = @ \o line]

Goto(p, state) == [p EXCEPT !.state = state]

\* A plausible slip: the identity that was authorized stays behind.
ShutdownMechFaulty(p) ==
    [p EXCEPT !.asked = FALSE, !.identity = "", !.desired = "",
              !.cookie = FALSE, !.mech = "none"]

ShutdownMech(p) ==
    [p EXCEPT !.asked = FALSE, !.identity = "", !.desired = "",
              !.authorized = "", !.cookie = FALSE, !.mech = "none"]

SendError(p) == Say(p, Line("ERROR", "", ""))

-----------------------------------------------------------------------------
(* The server's half. *)

SendRejected(p) ==
    LET q == ShutdownMech(Say(p, Line("REJECTED", "", "")))
    IN  [q EXCEPT !.failures = @ + 1,
                  !.state = IF p.failures + 1 >= MaxFailures THEN "NeedDisconnect"
                            ELSE "WaitingForAuth"]

SendOk(p) == Goto(Say(p, Line("OK", "guid", "")), "WaitingForBegin")

\* The identity the client names; naming one twice is refused.
NamesTwice(p, data) == data # "" /\ p.identity # ""

Named(p, data) == [p EXCEPT !.identity = IF data = "" THEN @ ELSE data]

\* The socket's credentials are those of "user"; "other" is another account.
ServerExternal(p, data) ==
    LET q == Named(p, data)
        wanted == IF q.identity = "" THEN "user" ELSE q.identity
    IN  IF ~env.creds \/ NamesTwice(p, data) THEN SendRejected(p)
        ELSE IF q.identity = "" /\ ~q.asked
          THEN [Goto(Say(q, Line("DATA", "", "")), "WaitingForData") EXCEPT !.asked = TRUE]
        ELSE IF wanted = "user"
          THEN SendOk([q EXCEPT !.desired = wanted, !.authorized = wanted])
        ELSE SendRejected(q)

SendChallenge(p, data) ==
    IF NamesTwice(p, data) \/ data = "" THEN SendRejected(p)
    ELSE IF ~env.keyring THEN SendRejected(Named(p, data))
    ELSE [Goto(Say(Named(p, data), Line("DATA", "", "challenge")), "WaitingForData") EXCEPT
             !.desired = data, !.cookie = TRUE]

\* The hash is right when the client has the cookie of the user it named.
CheckHash(p, data) ==
    IF data = "hash" /\ p.desired = "user"
    THEN SendOk([p EXCEPT !.authorized = p.desired])
    ELSE SendRejected(p)

ServerCookie(p, data) ==
    IF p.cookie THEN CheckHash(p, data) ELSE SendChallenge(p, data)

ServerAnonymous(p) == SendOk([p EXCEPT !.desired = ""])

ServerData(p, data) ==
    CASE p.mech = "EXTERNAL" -> ServerExternal(p, data)
      [] p.mech = "DBUS_COOKIE_SHA1" -> ServerCookie(p, data)
      [] p.mech = "ANONYMOUS" -> ServerAnonymous(p)

HandleAuth(p, c) ==
    IF c.arg \in env.allowed
    THEN ServerData([p EXCEPT !.mech = c.arg], c.data)
    ELSE SendRejected(p)

\* A plausible slip: agreeing is left to the transport, the flag stays down.
SendAgreeFaulty(p) == Say(p, Line("AGREE_UNIX_FD", "", ""))

SendAgree(p) == [Say(p, Line("AGREE_UNIX_FD", "", "")) EXCEPT !.fd = TRUE]

ServerWaitingForAuth(p, c) ==
    CASE c.cmd = "AUTH" -> HandleAuth(p, c)
      [] c.cmd = "BEGIN" -> Goto(p, "NeedDisconnect")
      [] c.cmd = "ERROR" -> SendRejected(p)
      [] OTHER -> SendError(p)

ServerWaitingForData(p, c) ==
    CASE c.cmd = "DATA" -> ServerData(p, c.data)
      [] c.cmd \in {"CANCEL", "ERROR"} -> SendRejected(p)
      [] c.cmd = "BEGIN" -> Goto(p, "NeedDisconnect")
      [] OTHER -> SendError(p)

ServerWaitingForBegin(p, c) ==
    CASE c.cmd = "BEGIN" -> Goto(p, "Authenticated")
      [] c.cmd = "NEGOTIATE_UNIX_FD" ->
            IF env.fds["server"] THEN SendAgree(p) ELSE SendError(p)
      [] c.cmd \in {"CANCEL", "ERROR"} -> SendRejected(p)
      [] OTHER -> SendError(p)

ServerHandles(p, c) ==
    CASE p.state = "WaitingForAuth" -> ServerWaitingForAuth(p, c)
      [] p.state = "WaitingForData" -> ServerWaitingForData(p, c)
      [] p.state = "WaitingForBegin" -> ServerWaitingForBegin(p, c)

-----------------------------------------------------------------------------
(* The client's half. *)

SendAuth(p, mech) ==
    LET data == IF mech = "ANONYMOUS" THEN "trace" ELSE "user"
    IN  [ShutdownMech(Say(p, Line("AUTH", mech, data))) EXCEPT
            !.mech = mech, !.state = "WaitingForData"]

SendBegin(p) == Goto(Say(p, Line("BEGIN", "", "")), "Authenticated")

\* _dbus_assert: the GUID is not known yet when OK comes.
ProcessOk(p) ==
    LET q == [p EXCEPT !.guid = TRUE]
    IN  IF env.fds["client"]
        THEN Goto(Say(q, Line("NEGOTIATE_UNIX_FD", "", "")), "WaitingForAgreeUnixFD")
        ELSE SendBegin(q)

\* A plausible slip: the list is built by prepending to it.
RecordMechanismsFaulty(p) ==
    IF p.listed THEN p
    ELSE [p EXCEPT !.listed = TRUE, !.tries = Reverse(Tail(AllMechanisms))]

\* The first mechanism was tried at once; the list of the first REJECTED
\* names all the others, whether the server allows them or not.
RecordMechanisms(p) ==
    IF p.listed THEN p
    ELSE [p EXCEPT !.listed = TRUE, !.tries = Tail(AllMechanisms)]

ProcessRejected(p) ==
    LET q == RecordMechanisms(p)
    IN  IF q.tries = <<>> THEN Goto(q, "NeedDisconnect")
        ELSE [SendAuth(q, Head(q.tries)) EXCEPT !.tries = Tail(@)]

ClientData(p) ==
    CASE p.mech = "DBUS_COOKIE_SHA1" ->
            IF env.knows THEN Say(p, Line("DATA", "", "hash")) ELSE SendError(p)
      [] OTHER -> p

ClientWaitingForData(p, c) ==
    CASE c.cmd = "DATA" -> ClientData(p)
      [] c.cmd = "REJECTED" -> ProcessRejected(p)
      [] c.cmd = "OK" -> ProcessOk(p)
      [] c.cmd = "ERROR" -> Goto(Say(p, Line("CANCEL", "", "")), "WaitingForReject")
      [] OTHER -> SendError(p)

ClientWaitingForReject(p, c) ==
    IF c.cmd = "REJECTED" THEN ProcessRejected(p) ELSE Goto(p, "NeedDisconnect")

ClientWaitingForAgree(p, c) ==
    CASE c.cmd = "AGREE_UNIX_FD" -> SendBegin([p EXCEPT !.fd = TRUE])
      [] c.cmd = "ERROR" -> SendBegin([p EXCEPT !.fd = FALSE])
      [] OTHER -> SendError(p)

ClientHandles(p, c) ==
    CASE p.state = "WaitingForData" -> ClientWaitingForData(p, c)
      [] p.state = "WaitingForReject" -> ClientWaitingForReject(p, c)
      [] p.state = "WaitingForAgreeUnixFD" -> ClientWaitingForAgree(p, c)

-----------------------------------------------------------------------------
(* The loop over the commands in the buffer, and what a handler that ran    *)
(* out of memory leaves behind.                                             *)

Handles(s, p, c) == IF s = "server" THEN ServerHandles(p, c) ELSE ClientHandles(p, c)

ProcessCommand(s, p) ==
    [Handles(s, p, Head(p.incoming)) EXCEPT !.incoming = SubSeq(@, 3, Len(@))]

\* Either end waits for an answer before it writes its next line, so there is
\* never a second line to go on with.
DoWork(s, p) == IF Starving(p) THEN ProcessCommand(s, p) ELSE p

\* The server copied the identity, or authorized it, or chose a cookie.
HalfDoneData(p, data) ==
    CASE p.mech = "EXTERNAL" /\ env.creds /\ ~NamesTwice(p, data) ->
            {Named(p, data)}
              \cup {[Named(p, data) EXCEPT !.authorized = d] :
                        d \in {Named(p, data).identity} \cap {"user"}}
      [] p.mech = "DBUS_COOKIE_SHA1" /\ ~p.cookie /\ ~NamesTwice(p, data) /\ data # "" ->
            {Named(p, data)}
              \cup {[Named(p, data) EXCEPT !.desired = data, !.cookie = TRUE] :
                        k \in {TRUE} \cap {env.keyring}}
      [] p.mech = "DBUS_COOKIE_SHA1" /\ p.cookie /\ data = "hash" /\ p.desired = "user" ->
            {[p EXCEPT !.authorized = "user"]}
      [] OTHER -> {}

HalfDone(s, p, c) ==
    {p} \cup
    CASE s = "server" /\ p.state = "WaitingForAuth" /\ c.cmd = "AUTH"
                      /\ c.arg \in env.allowed ->
            {[q EXCEPT !.mech = "none"] :
                q \in HalfDoneData([p EXCEPT !.mech = c.arg], c.data)}
      [] s = "server" /\ p.state = "WaitingForData" /\ c.cmd = "DATA" ->
            HalfDoneData(p, c.data)
      [] s = "server" /\ p.state = "WaitingForBegin" /\ c.cmd = "NEGOTIATE_UNIX_FD"
                      /\ env.fds["server"] -> {[p EXCEPT !.fd = TRUE]}
      [] s = "client" /\ p.state = "WaitingForData" /\ c.cmd = "OK" ->
            {[p EXCEPT !.guid = TRUE]}
      [] s = "client" /\ p.state = "WaitingForAgreeUnixFD"
                      /\ c.cmd = "AGREE_UNIX_FD" -> {[p EXCEPT !.fd = TRUE]}
      [] OTHER -> {}

-----------------------------------------------------------------------------
(* The transport. *)

\* The server asks whether this identity may use it at all.
Allow(p) == IF p.authorized = "user" THEN env.admits ELSE env.anonymous

IsAuthenticated(s, p) ==
    IF p.authenticated \/ p.gone \/ p.credentials # "none" THEN p
    ELSE LET q == DoWork(s, p)
         IN  IF q.outgoing # <<>> \/ q.state # "Authenticated" THEN q
             ELSE IF s = "server" /\ ~Allow(q) THEN [q EXCEPT !.gone = TRUE]
             ELSE [q EXCEPT !.authenticated = TRUE]

\* The auth conversation is over and everything was written: hang up.
NeedDisconnect(p) == p.state = "NeedDisconnect" /\ p.outgoing = <<>>

Settle(s, p) ==
    LET q == IsAuthenticated(s, p)
    IN  IF NeedDisconnect(q) THEN [q EXCEPT !.gone = TRUE] ELSE q

CheckReadWatch(p) ==
    /\ ~p.gone
    /\ \/ p.authenticated
       \/ p.credentials = "receive"
       \/ Starving(p)
       \/ p.outgoing = <<>> /\ p.state # "NeedDisconnect"

\* A plausible slip: nothing to write means no need to be woken.
CheckWriteWatchFaulty(s, p) ==
    /\ ~p.gone
    /\ IF p.authenticated THEN s = "client" /\ sent < Len(Messages)
       ELSE p.credentials = "send" \/ p.outgoing # <<>>

CheckWriteWatch(s, p) ==
    /\ ~p.gone
    /\ IF p.authenticated THEN s = "client" /\ sent < Len(Messages)
       ELSE p.credentials = "send" \/ p.outgoing # <<>> \/ Starving(p)

\* The bytes behind BEGIN go to the message loader, once.
Recover(s, p, before) ==
    IF s = "server" /\ p.authenticated /\ ~p.recovered THEN before \o p.incoming
    ELSE before

Recovered(s, p) ==
    IF s = "server" /\ p.authenticated /\ ~p.recovered
    THEN [p EXCEPT !.recovered = TRUE, !.incoming = <<>>]
    ELSE p

Libdbus(s) == s = "server" \/ env.client = "libdbus"

\* The end of a watch handler: the state of the dispatch is looked at, which
\* hands the unused bytes over.
Returns(s, p, before) ==
    /\ peer' = [peer EXCEPT ![s] = Recovered(s, p)]
    /\ loader' = Recover(s, p, before)

Readable(s) ==
    /\ Libdbus(s)
    /\ CheckReadWatch(peer[s])
    /\ net[s] # <<>> \/ peer[Other(s)].gone

\* The byte that carries the credentials.
ReadCredentials(s) ==
    /\ Readable(s) /\ peer[s].credentials = "receive" /\ net[s] # <<>>
    /\ net' = [net EXCEPT ![s] = Tail(@)]
    /\ peer' = [peer EXCEPT ![s].credentials = "none"]
    /\ UNCHANGED <<env, loader, sent, lines, shortages, expired>>

\* The read watch of an end that is authenticated by now, also when it is
\* this handler's first look at its buffer that makes it so: new bytes are
\* read into the loader, and only then the unused ones are looked for.
\* Only the server is sent messages.
DoReading(s) ==
    \E p \in {Settle(s, peer[s])} :
        /\ Readable(s) /\ p.authenticated /\ net[s] # <<>>
        /\ \E n \in 1..Len(net[s]) :
             /\ net' = [net EXCEPT ![s] = SubSeq(@, n + 1, Len(@))]
             /\ Returns(s, p, loader \o SubSeq(net[s], 1, n))
        /\ UNCHANGED <<env, sent, lines, shortages, expired>>

\* A plausible slip: the handler goes on reading when it has just finished
\* the authentication.
DoAuthenticationReadingFaulty(s) ==
    \E p \in {Settle(s, peer[s])} :
        /\ Readable(s) /\ ~p.authenticated /\ p.credentials # "receive"
        /\ ~p.gone /\ p.outgoing = <<>> /\ net[s] # <<>>
        /\ \E n \in 1..Len(net[s]) :
             LET q == Settle(s, [p EXCEPT !.incoming = @ \o SubSeq(net[s], 1, n)])
                 k == IF q.authenticated /\ s = "server" THEN Len(net[s]) ELSE n
             IN  /\ net' = [net EXCEPT ![s] = SubSeq(@, k + 1, Len(@))]
                 /\ Returns(s, q, loader \o SubSeq(net[s], n + 1, k))
        /\ UNCHANGED <<env, sent, lines, shortages, expired>>

\* The read watch of an end that is not authenticated yet.
DoAuthenticationReading(s) ==
    \E p \in {Settle(s, peer[s])} :
        /\ Readable(s) /\ ~p.authenticated /\ p.credentials # "receive"
        /\ ~p.gone /\ p.outgoing = <<>> /\ net[s] # <<>>
        /\ \E n \in 1..Len(net[s]) :
             /\ net' = [net EXCEPT ![s] = SubSeq(@, n + 1, Len(@))]
             /\ \E q \in {Settle(s, [p EXCEPT !.incoming = @ \o SubSeq(net[s], 1, n)])} :
                  Returns(s, q, loader)
        /\ UNCHANGED <<env, sent, lines, shortages, expired>>

\* The command that was short of memory is answered now, or ends it all:
\* nothing is read before the answer is written.
RetryReading(s) ==
    \E p \in {Settle(s, peer[s])} :
        /\ Readable(s) /\ ~p.authenticated /\ p.credentials # "receive"
        /\ p.gone \/ p.outgoing # <<>>
        /\ peer' = [peer EXCEPT ![s] = p]
        /\ UNCHANGED <<env, net, loader, sent, lines, shortages, expired>>

\* Memory is short as long as the handler runs: what it reads stays in the
\* buffer, and the first command is done by half.
ReadingNoMemory(s) ==
    LET p == peer[s]
    IN  /\ Readable(s) /\ ~p.authenticated /\ p.credentials # "receive"
        /\ ~Starving(p) /\ p.outgoing = <<>> /\ net[s] # <<>>
        /\ shortages < MaxShortages
        /\ \E n \in 1..Len(net[s]) :
             LET q == [p EXCEPT !.incoming = @ \o SubSeq(net[s], 1, n)]
             IN  /\ Starving(q)
                 /\ net' = [net EXCEPT ![s] = SubSeq(@, n + 1, Len(@))]
                 /\ \E half \in HalfDone(s, q, Head(q.incoming)) :
                      peer' = [peer EXCEPT ![s] = half]
        /\ shortages' = shortages + 1
        /\ UNCHANGED <<env, loader, sent, lines, expired>>

\* The other end has hung up and everything it wrote has been read.
ReadEof(s) ==
    /\ Readable(s) /\ net[s] = <<>>
    /\ peer' = [peer EXCEPT ![s].gone = TRUE]
    /\ UNCHANGED <<env, net, loader, sent, lines, shortages, expired>>

Writable(s) == Libdbus(s) /\ CheckWriteWatch(s, peer[s])

\* Writing to an end that has hung up breaks the transport.
Written(s, p, tokens) ==
    IF peer[Other(s)].gone
    THEN /\ peer' = [peer EXCEPT ![s] = [p EXCEPT !.gone = TRUE]]
         /\ UNCHANGED <<net, loader>>
    ELSE /\ net' = [net EXCEPT ![Other(s)] = @ \o tokens]
         /\ Returns(s, p, loader)

SendCredentials(s) ==
    /\ Writable(s) /\ peer[s].credentials = "send"
    /\ Written(s, [peer[s] EXCEPT !.credentials = "none"], <<Nul>>)
    /\ UNCHANGED <<env, sent, lines, shortages, expired>>

\* The write watch of an end that is not authenticated yet; when it was
\* short of memory this is where it tries again.
DoAuthenticationWriting(s) ==
    \E p \in {Settle(s, peer[s])} :
        /\ Writable(s) /\ ~peer[s].authenticated /\ p.credentials # "send"
        /\ \E n \in (IF p.outgoing = <<>> THEN {0} ELSE 1..Len(p.outgoing)) :
             \E q \in {Settle(s, [p EXCEPT !.outgoing = SubSeq(@, n + 1, Len(@))])} :
               Written(s, q, SubSeq(p.outgoing, 1, n))
        /\ UNCHANGED <<env, sent, lines, shortages, expired>>

\* No messages without authentication!
DoWriting(s) ==
    /\ Writable(s) /\ peer[s].authenticated
    /\ sent' = sent + 1
    /\ Written(s, peer[s], <<Message(sent + 1)>>)
    /\ UNCHANGED <<env, lines, shortages, expired>>

\* bus_connections_expire_incomplete()
AuthTimeout ==
    /\ ~peer["server"].authenticated /\ ~peer["server"].gone
    /\ peer' = [peer EXCEPT !["server"].gone = TRUE]
    /\ expired' = TRUE
    /\ UNCHANGED <<env, net, loader, sent, lines, shortages>>

-----------------------------------------------------------------------------
(* A client that is not libdbus: it says whatever it likes, a line at a time. *)

OtherLines ==
    UNION {{Line("AUTH", "EXTERNAL", d) : d \in {"", "user", "other"}},
           {Line("AUTH", "DBUS_COOKIE_SHA1", d) : d \in {"user", "other"}},
           {Line("AUTH", "ANONYMOUS", "trace")},
           {Line("DATA", "", d) : d \in {"", "user"}},
           {Line(c, "", "") : c \in {"CANCEL", "BEGIN", "NEGOTIATE_UNIX_FD"}},
           {Line("DATA", "", "hash") :
                k \in {TRUE} \cap {env.knows /\ peer["server"].cookie}}}

OtherWrites ==
    /\ env.client = "other" /\ lines < MaxLines
    /\ peer["server"].outgoing = <<>> /\ peer["server"].incoming = <<>>
    /\ ~peer["server"].gone /\ net["server"] = <<>>
    /\ peer["server"].state \notin EndStates
    /\ \E line \in OtherLines : net' = [client |-> <<>>, server |-> line]
    /\ lines' = lines + 1
    /\ UNCHANGED <<env, peer, loader, sent, shortages, expired>>

-----------------------------------------------------------------------------

Environments ==
    [client : {"libdbus", "other"},     \* which client this is
     creds : BOOLEAN,                   \* the socket carries credentials
     keyring : BOOLEAN,                 \* the server can use its keyring
     knows : BOOLEAN,                   \* the client can read the cookie
     allowed : AllowedSets,             \* the server's mechanisms
     admits : BOOLEAN,                  \* the server lets this user in
     anonymous : BOOLEAN,               \* the server lets anyone in
     fds : [Sides -> BOOLEAN]]          \* the socket can pass descriptors

Init ==
    /\ env \in Environments
    /\ env.client = "other" => ~env.fds["client"]     \* it asks as it likes
    /\ peer = [s \in Sides |-> NewAuth(s)]
    /\ net = [client |-> <<>>,
              server |-> IF env.client = "other" THEN <<Nul>> ELSE <<>>]
    /\ loader = <<>>
    /\ sent = 0 /\ lines = 0 /\ shortages = 0
    /\ expired = FALSE

ReadWatch(s) ==
    \/ ReadCredentials(s)
    \/ DoAuthenticationReading(s)
    \/ DoReading(s)
    \/ RetryReading(s)
    \/ ReadEof(s)

WriteWatch(s) ==
    \/ SendCredentials(s)
    \/ DoAuthenticationWriting(s)
    \/ DoWriting(s)

Next ==
    \/ \E s \in Sides :
          \/ ReadWatch(s)
          \/ ReadingNoMemory(s)
          \/ WriteWatch(s)
    \/ AuthTimeout
    \/ OtherWrites

\* The main loop of either end calls the watches that are ready.
Fairness ==
    \A s \in Sides : WF_vars(ReadWatch(s)) /\ WF_vars(WriteWatch(s))

Spec == Init /\ [][Next]_vars /\ Fairness

-----------------------------------------------------------------------------
(* Properties. *)

Working(mech) ==
    CASE mech = "EXTERNAL" -> env.creds
      [] mech = "DBUS_COOKIE_SHA1" -> env.keyring /\ env.knows
      [] mech = "ANONYMOUS" -> FALSE

(***************************************************************************)
(* Whoever is let in as a user has proved to be that user by the mechanism  *)
(* in use, whatever was tried, granted and given up before (shutdown_mech), *)
(* and is a user this server admits; nobody else is let in unless anyone    *)
(* is.                                                                     *)
(***************************************************************************)
IdentityIsProved ==
    LET p == peer["server"]
    IN  p.authenticated =>
            IF p.authorized = "" THEN env.anonymous
            ELSE /\ p.mech \in env.allowed /\ Working(p.mech)
                 /\ env.admits

(***************************************************************************)
(* The messages the server's loader is given are the messages the client    *)
(* sent, in order, from the first one on, however the stream was cut, as    *)
(* long as no handler ran out of memory (do_authentication,                 *)
(* recover_unused_bytes): nothing of the authentication gets into them and  *)
(* nothing is left behind.                                                 *)
(***************************************************************************)
StreamIntact ==
    shortages = 0 =>
        loader = SubSeq([i \in 1..Len(Messages) |-> Message(i)], 1, Len(loader))

(***************************************************************************)
(* The two ends agree on whether descriptors may be passed once both are    *)
(* authenticated, also when a reply had to be written twice.                *)
(***************************************************************************)
DescriptorsAgreed ==
    env.client = "libdbus" /\ peer["client"].authenticated /\ peer["server"].authenticated
        => peer["client"].fd = peer["server"].fd

(***************************************************************************)
(* Two ends that both run libdbus come to an end: each is authenticated or  *)
(* has hung up; neither waits for the other for ever, also after a          *)
(* shortage of memory, when the socket has nothing more to wake it up with  *)
(* (check_read_watch, check_write_watch).                                  *)
(***************************************************************************)
ConversationEnds ==
    env.client = "libdbus" =>
        <>[](\A s \in Sides : peer[s].authenticated \/ peer[s].gone)

(***************************************************************************)
(* A client that has a mechanism that works and that the server allows gets *)
(* in as itself, although other mechanisms are tried first, unless memory   *)
(* or time run out.                                                        *)
(***************************************************************************)
GoodClientGetsIn ==
    (env.client = "libdbus" /\ env.admits /\ \E m \in env.allowed : Working(m)) =>
        <>(\/ peer["server"].authenticated /\ peer["server"].authorized = "user"
           \/ expired \/ shortages > 0)

=============================================================================
