----------------------------- MODULE Connection -----------------------------
(***************************************************************************)
(* A DBusConnection of libdbus shared by the threads of an application     *)
(* (dbus-connection.c, dbus-pending-call.c and the message side of         *)
(* dbus-transport-socket.c): method calls with a reply, threads that block *)
(* on a reply, the main loop that dispatches messages and fires timeouts,  *)
(* and the loss of the connection.                                         *)
(*                                                                         *)
(* One action is what a thread does between two places where it may let    *)
(* go of the connection's lock.  `mutex' is the thread that goes on        *)
(* holding the lock from one action to the next.  The critical sections of *)
(* io_path_mutex and dispatch_mutex are parts of single actions.           *)
(*                                                                         *)
(* Authentication is over, and memory does not run out in this module.     *)
(***************************************************************************)
EXTENDS Integers, Sequences, FiniteSets

CONSTANTS Threads,      \* threads of the application
          Loops,        \* threads that run the main loop of the connection
          Calls,        \* method calls that expect a reply
          Timed,        \* the calls with a timeout, not DBUS_TIMEOUT_INFINITE
          Caller,       \* the thread that makes each call
          NoThread, NoCall,
          Disconnected  \* the message that tells the application of the loss

ASSUME ConnectionAssumption ==
  /\ Loops \subseteq Threads /\ Timed \subseteq Calls
  /\ Caller \in [Calls -> Threads]
  /\ NoThread \notin Threads /\ NoCall \notin Calls
  /\ Disconnected \notin Calls

VARIABLES
  incoming,      \* incoming_messages
  outgoing,      \* outgoing_messages, oldest first: the calls still to write
  pendingReplies,\* pending_replies, a hash of the calls by serial
  discLink,      \* disconnect_message_link != NULL
  disconnected,  \* transport->disconnected
  ioPath,        \* the thread that set io_path_acquired
  dispatcher,    \* the thread that set dispatch_acquired
  mutex,         \* the thread that holds the lock between two actions
  call,          \* the DBusPendingCall of each call
  thr,           \* where each thread is, with its local variables
  wire,          \* what the peer sent and nobody read
  peer,          \* calls that the peer has read and not answered
  closed,        \* the peer closed its end
  writeWatch,    \* write_watch is enabled
  crashed        \* a thread used a NULL pointer

vars == <<incoming, outgoing, pendingReplies, discLink, disconnected, ioPath,
          dispatcher, mutex, call, thr, wire, peer, closed, writeWatch, crashed>>

(* A message with a reply serial, be it the reply or the timeout error, is  *)
(* the call it answers.  Other messages of the peer are left out: they only *)
(* wake threads, as the replies to other calls do.                          *)
Messages == Calls \cup {Disconnected}

(* link: timeout_link # NULL; added: timeout_added; completions: runs of    *)
(* _dbus_pending_call_complete, each of which calls the notify function.    *)
PendingCall ==
  [sent : BOOLEAN, cancelled : BOOLEAN, link : BOOLEAN, added : BOOLEAN,
   completions : 0..2]
NewCall ==
  [sent |-> FALSE, cancelled |-> FALSE, link |-> FALSE, added |-> FALSE,
   completions |-> 0]
Completed(c) == call[c].completions > 0

(* Where a thread is.  next: where it goes on when get_dispatch_status       *)
(* returns; iter: which call of do_iteration it is in; peek: the pending    *)
(* argument of that call is not NULL; write: its flags have DO_WRITING;     *)
(* late: the time the thread was to block is over, or, when it was to block *)
(* without limit, the clock has moved on since it began.                    *)
Places == {"idle", "flush", "checkReply", "recheck", "acquire", "iterate",
           "poll", "status", "drain", "finish", "readWrite", "dispatch",
           "waitDispatch", "pop", "dispatched", "fire"}
Iterations == {"send", "flush", "block", "readWrite", "readWatch", "writeWatch"}
Thread == [pc : Places, next : Places, call : Calls \cup {NoCall},
           iter : Iterations, peek : BOOLEAN, write : BOOLEAN, late : BOOLEAN]
Idle == [pc |-> "idle", next |-> "idle", call |-> NoCall,
         iter |-> "block", peek |-> FALSE, write |-> FALSE, late |-> FALSE]

Init ==
  /\ incoming = <<>> /\ outgoing = <<>> /\ pendingReplies = {}
  /\ discLink = TRUE /\ disconnected = FALSE
  /\ ioPath = NoThread /\ dispatcher = NoThread /\ mutex = NoThread
  /\ call = [c \in Calls |-> NewCall]
  /\ thr = [t \in Threads |-> Idle]
  /\ wire = <<>> /\ peer = {} /\ closed = FALSE
  /\ writeWatch = FALSE /\ crashed = FALSE

----------------------------------------------------------------------------
(* Steps of a thread. *)

At(t, place) == thr[t].pc = place /\ ~crashed
Locked(t)    == mutex \in {NoThread, t}

(* The local variables of a thread outside do_iteration. *)
Frame(th, pc, next) ==
  [th EXCEPT !.pc = pc, !.next = next, !.iter = "block", !.peek = FALSE,
             !.write = FALSE]

(* The thread goes on at `place' with the lock held, or is done. *)
GoOn(t, place) ==
  IF place = "idle" THEN thr' = [thr EXCEPT ![t] = Idle] /\ mutex' = NoThread
  ELSE thr' = [thr EXCEPT ![t] = Frame(@, place, "idle")] /\ mutex' = t

(* The dispatch status is asked for; then the thread goes on at `next'. *)
StatusThen(t, next) ==
  /\ thr' = [thr EXCEPT ![t] = Frame(@, "status", next)]
  /\ mutex' = t

(* _dbus_connection_do_iteration_unlocked is called; it lets go of the lock *)
(* while it waits for the I/O path.                                         *)
IterateThen(t, iter, peek) ==
  /\ thr' = [thr EXCEPT ![t].pc = "acquire", ![t].iter = iter, ![t].peek = peek,
                        ![t].write = \/ iter \in {"send", "flush", "writeWatch"}
                                     \/ iter = "readWrite" /\ outgoing # <<>>]
  /\ mutex' = NoThread

(* ... and returns to its caller, with the lock held. *)
IterationReturns(t) ==
  CASE thr[t].iter \in {"send", "readWatch", "writeWatch"} -> StatusThen(t, "idle")
    [] thr[t].iter = "flush"     -> GoOn(t, "flush")
    [] thr[t].iter = "block"     -> StatusThen(t, "recheck")
    [] thr[t].iter = "readWrite" -> GoOn(t, "idle")

Reads(t) == thr[t].iter \in {"flush", "block", "readWrite", "readWatch"}
Readable == wire # <<>> \/ closed
(* Waiting in poll() ends when the time is over. *)
HasTimeout(t) == IF thr[t].iter = "block" THEN thr[t].call \in Timed
                 ELSE thr[t].iter # "flush"
(* So does waiting for the I/O path, where only -1 means no limit: a thread *)
(* that blocks again without a timeout asks for -1 less the time elapsed.   *)
GivesUp(t) == HasTimeout(t) \/ (thr[t].iter = "block" /\ thr[t].late)

Answers(c) == {i \in 1..Len(incoming) : incoming[i] = c}
FirstAnswer(c) == CHOOSE i \in Answers(c) : \A j \in Answers(c) : i <= j

----------------------------------------------------------------------------
(* Reading and writing. *)

(* Mistake: a reply leaves the timeout of its call registered. *)
TransferFaulty(n, k) ==
  /\ incoming' = incoming \o SubSeq(wire, 1, n)
  /\ wire' = SubSeq(wire, n + 1, Len(wire))
  /\ call' = call
  /\ outgoing' = SubSeq(outgoing, k + 1, Len(outgoing))
  /\ peer' = peer \cup {outgoing[i] : i \in 1..k}

(* do_reading takes n messages off the socket and do_writing puts k on it.  *)
(* A reply that somebody waits for stops the timeout of its call.           *)
Transfer(n, k) ==
  /\ incoming' = incoming \o SubSeq(wire, 1, n)
  /\ wire' = SubSeq(wire, n + 1, Len(wire))
  /\ call' = [c \in Calls |->
       IF c \in pendingReplies /\ \E i \in 1..n : wire[i] = c
       THEN [call[c] EXCEPT !.added = FALSE] ELSE call[c]]
  /\ outgoing' = SubSeq(outgoing, k + 1, Len(outgoing))
  /\ peer' = peer \cup {outgoing[i] : i \in 1..k}

(* do_reading reads until nothing is left or it has read enough, and finds  *)
(* the end of the stream; do_writing ignores EPIPE and may not get a        *)
(* message out when it did not poll.  do_iteration ends with                *)
(* check_write_watch, and so does the write watch.                          *)
DoIO(t, reading) ==
  LET live  == ~disconnected
      eof(n) == live /\ reading /\ closed /\ n = Len(wire)
  IN \E n \in IF live /\ reading /\ wire # <<>> THEN 1..Len(wire) ELSE {0} :
     \E k \in IF live /\ thr[t].write /\ ~closed /\ ~eof(n)
              THEN (IF thr[t].iter = "send" \/ outgoing = <<>> THEN 0 ELSE 1)
                   .. Len(outgoing)
              ELSE {0} :
       /\ Transfer(n, k)
       /\ disconnected' = (disconnected \/ eof(n))
       /\ writeWatch' = IF disconnected' THEN FALSE
                        ELSE IF thr[t].iter = "readWatch" THEN writeWatch
                        ELSE outgoing' # <<>>

(* _dbus_connection_acquire_io_path: the path is taken ... *)
AcquireIOPath(t) ==
  /\ At(t, "acquire") /\ ioPath = NoThread
  /\ ioPath' = t
  /\ thr' = [thr EXCEPT ![t].pc = "iterate"]
  /\ UNCHANGED <<incoming, outgoing, pendingReplies, discLink, disconnected,
                 dispatcher, mutex, call, wire, peer, closed,
                 writeWatch, crashed>>

(* ... or not: the time is over, or another thread was faster.  A watch     *)
(* handler then returns without asking for the dispatch status.             *)
GiveUpIOPath(t) ==
  /\ At(t, "acquire") /\ ioPath # NoThread /\ GivesUp(t)
  /\ IF thr[t].iter \in {"readWatch", "writeWatch"}
     THEN thr' = [thr EXCEPT ![t] = Idle] /\ mutex' = mutex
     ELSE /\ Locked(t)
          /\ IF thr[t].iter = "block"
             THEN \E late \in {thr[t].late, TRUE} :
                    /\ thr' = [thr EXCEPT ![t] = [Frame(@, "status", "recheck")
                                            EXCEPT !.late = late]]
                    /\ mutex' = t
             ELSE IterationReturns(t)
  /\ UNCHANGED <<incoming, outgoing, pendingReplies, discLink, disconnected,
                 ioPath, dispatcher, call, wire, peer, closed,
                 writeWatch, crashed>>

(* Mistake: do_iteration does not look for the reply again. *)
NothingToDoFaulty(t) == disconnected
(* With the I/O path: do_iteration looks for the reply first when it was    *)
(* given the pending call; a blocking iteration lets go of the lock in      *)
(* poll(), the others read or write at once.                                *)
NothingToDo(t) ==
  \/ disconnected
  \/ thr[t].peek /\ (Completed(thr[t].call) \/ Answers(thr[t].call) # {})
(* Mistake: the early return of do_iteration keeps the I/O path. *)
IterateFaulty(t) ==
  /\ At(t, "iterate") /\ Locked(t)
  /\ IF NothingToDo(t)
     THEN /\ IterationReturns(t) /\ ioPath' = ioPath
          /\ UNCHANGED <<incoming, outgoing, call, wire, peer, disconnected, writeWatch>>
     ELSE IF thr[t].iter \in {"flush", "block", "readWrite"}
     THEN /\ thr' = [thr EXCEPT ![t].pc = "poll"] /\ mutex' = NoThread
          /\ UNCHANGED <<incoming, outgoing, call, wire, peer, disconnected, ioPath,
                         writeWatch>>
     ELSE /\ DoIO(t, Reads(t))
          /\ IterationReturns(t) /\ ioPath' = NoThread
  /\ UNCHANGED <<pendingReplies, discLink, dispatcher, closed, crashed>>
Iterate(t) ==
  /\ At(t, "iterate") /\ Locked(t)
  /\ IF NothingToDo(t)
     THEN /\ IterationReturns(t) /\ ioPath' = NoThread
          /\ UNCHANGED <<incoming, outgoing, call, wire, peer, disconnected, writeWatch>>
     ELSE IF thr[t].iter \in {"flush", "block", "readWrite"}
     THEN /\ thr' = [thr EXCEPT ![t].pc = "poll"] /\ mutex' = NoThread
          /\ UNCHANGED <<incoming, outgoing, call, wire, peer, disconnected, ioPath,
                         writeWatch>>
     ELSE /\ DoIO(t, Reads(t))
          /\ IterationReturns(t) /\ ioPath' = NoThread
  /\ UNCHANGED <<pendingReplies, discLink, dispatcher, closed, crashed>>

(* poll() returns, and the thread lets go of the I/O path. *)
Ready(t) == Readable \/ thr[t].write
PollReturns(t) ==
  /\ At(t, "poll") /\ Locked(t) /\ Ready(t)
  /\ DoIO(t, Readable)
  /\ IterationReturns(t) /\ ioPath' = NoThread
  /\ UNCHANGED <<pendingReplies, discLink, dispatcher, closed, crashed>>

PollTimesOut(t) ==
  /\ At(t, "poll") /\ Locked(t) /\ HasTimeout(t) /\ ~Ready(t)
  /\ IF thr[t].iter = "block"
     THEN /\ thr' = [thr EXCEPT ![t] = [Frame(@, "status", "recheck")
                                  EXCEPT !.late = TRUE]]
          /\ mutex' = t
     ELSE IterationReturns(t)
  /\ ioPath' = NoThread
  /\ writeWatch' = (~disconnected /\ outgoing # <<>>)
  /\ UNCHANGED <<incoming, outgoing, pendingReplies, discLink, disconnected,
                 dispatcher, call, wire, peer, closed, crashed>>

----------------------------------------------------------------------------
(* The dispatch status, and what is done once the connection is lost. *)

(* _dbus_connection_get_dispatch_status_unlocked *)
GetDispatchStatus(t) ==
  /\ At(t, "status") /\ Locked(t)
  /\ IF incoming # <<>> \/ ~disconnected
     THEN GoOn(t, thr[t].next) /\ outgoing' = outgoing
     ELSE /\ outgoing' = <<>>
          /\ IF discLink THEN thr' = [thr EXCEPT ![t].pc = "drain"] /\ mutex' = t
             ELSE GoOn(t, thr[t].next)
  /\ UNCHANGED <<incoming, pendingReplies, discLink, disconnected, ioPath,
                 dispatcher, call, wire, peer, closed, writeWatch, crashed>>

(* connection_timeout_and_complete_all_pending_calls_unlocked queues the    *)
(* timeout error of one call and forgets the call; it lets go of the lock   *)
(* to drop the reference.                                                   *)
DrainOne(t, c) ==
  /\ At(t, "drain") /\ Locked(t) /\ c \in pendingReplies
  /\ incoming' = IF call[c].link THEN Append(incoming, c) ELSE incoming
  /\ call' = [call EXCEPT ![c].link = FALSE, ![c].added = FALSE]
  /\ pendingReplies' = pendingReplies \ {c}
  /\ mutex' = NoThread
  /\ UNCHANGED <<outgoing, discLink, disconnected, ioPath, dispatcher, thr, wire,
                 peer, closed, writeWatch, crashed>>

(* When none is left the Disconnected message is queued, from the link made *)
(* for it with the connection.                                              *)
DrainEnd(t) ==
  /\ At(t, "drain") /\ Locked(t) /\ pendingReplies = {}
  /\ IF discLink
     THEN /\ incoming' = Append(incoming, Disconnected) /\ discLink' = FALSE
          /\ GoOn(t, thr[t].next)
          /\ UNCHANGED crashed
     ELSE crashed' = TRUE /\ UNCHANGED <<incoming, discLink, thr, mutex>>
  /\ UNCHANGED <<outgoing, pendingReplies, disconnected, ioPath, dispatcher, call,
                 wire, peer, closed, writeWatch>>

----------------------------------------------------------------------------
(* Calls. *)

(* dbus_connection_send_with_reply, up to the iteration that may write the  *)
(* message.  On a lost connection it does nothing.                          *)
SendWithReply(t, c) ==
  /\ At(t, "idle") /\ Locked(t) /\ Caller[c] = t /\ ~call[c].sent
  /\ ~disconnected
  /\ call' = [call EXCEPT ![c].sent = TRUE, ![c].link = TRUE,
                          ![c].added = (c \in Timed)]
  /\ pendingReplies' = pendingReplies \cup {c}
  /\ outgoing' = Append(outgoing, c)
  /\ IterateThen(t, "send", FALSE)
  /\ UNCHANGED <<incoming, discLink, disconnected, ioPath, dispatcher, wire, peer,
                 closed, writeWatch, crashed>>

(* dbus_pending_call_cancel *)
Cancel(t, c) ==
  /\ At(t, "idle") /\ Locked(t) /\ Caller[c] = t
  /\ call[c].sent /\ ~call[c].cancelled
  /\ pendingReplies' = pendingReplies \ {c}
  /\ call' = [call EXCEPT ![c].added = FALSE, ![c].cancelled = TRUE]
  /\ UNCHANGED <<incoming, outgoing, discLink, disconnected, ioPath, dispatcher,
                 mutex, thr, wire, peer, closed, writeWatch, crashed>>

(* complete_pending_call_and_unlock up to the place where it has let go of  *)
(* the lock: the call has its reply and is no longer in the hash.  A NULL   *)
(* message stands for the timeout error made with the call.                 *)
Give(t, c, next) ==
  /\ call' = [call EXCEPT ![c].added = FALSE]
  /\ pendingReplies' = pendingReplies \ {c}
  /\ thr' = [thr EXCEPT ![t].pc = "finish", ![t].call = c, ![t].next = next]
  /\ mutex' = NoThread
  /\ UNCHANGED crashed
GiveTimeout(t, c) ==
  IF call[c].link
  THEN /\ call' = [call EXCEPT ![c].added = FALSE, ![c].link = FALSE]
       /\ pendingReplies' = pendingReplies \ {c}
       /\ thr' = [thr EXCEPT ![t].pc = "finish", ![t].next = "status"]
       /\ mutex' = NoThread
       /\ UNCHANGED crashed
  ELSE crashed' = TRUE /\ UNCHANGED <<call, pendingReplies, thr, mutex>>

(* check_for_reply_unlocked takes the answer out of the queue. *)
TakeAnswer(t, c) ==
  LET i == FirstAnswer(c)
  IN /\ incoming' = SubSeq(incoming, 1, i - 1) \o SubSeq(incoming, i + 1, Len(incoming))
     /\ Give(t, c, "status")

(* _dbus_pending_call_complete runs without the lock. *)
Finish(t) ==
  LET c == thr[t].call
  IN /\ At(t, "finish")
     /\ call' = [call EXCEPT ![c].completions = IF @ < 2 THEN @ + 1 ELSE @]
     /\ thr' = [thr EXCEPT ![t] =
          CASE @.next = "status" -> [@ EXCEPT !.pc = "status", !.next = "idle"]
            [] @.next = "idle"   -> Idle
            [] OTHER             -> [@ EXCEPT !.pc = thr[t].next]]
     /\ UNCHANGED <<incoming, outgoing, pendingReplies, discLink, disconnected,
                    ioPath, dispatcher, mutex, wire, peer, closed,
                    writeWatch, crashed>>

(* _dbus_connection_block_pending_call: it flushes the outgoing messages, *)
Block(t, c) ==
  /\ At(t, "idle") /\ Locked(t) /\ Caller[c] = t
  /\ call[c].sent /\ ~call[c].cancelled /\ ~Completed(c)
  /\ thr' = [thr EXCEPT ![t].pc = "flush", ![t].call = c, ![t].late = FALSE]
  /\ UNCHANGED <<incoming, outgoing, pendingReplies, discLink, disconnected, ioPath,
                 dispatcher, mutex, call, wire, peer, closed, writeWatch,
                 crashed>>
Flush(t) ==
  /\ At(t, "flush") /\ Locked(t)
  /\ IF outgoing # <<>> /\ ~disconnected THEN IterateThen(t, "flush", FALSE)
     ELSE StatusThen(t, "checkReply")
  /\ UNCHANGED <<incoming, outgoing, pendingReplies, discLink, disconnected, ioPath,
                 dispatcher, call, wire, peer, closed, writeWatch, crashed>>

(* takes a reply that another thread read, or blocks once, *)
CheckReply(t) ==
  /\ At(t, "checkReply") /\ Locked(t)
  /\ IF Answers(thr[t].call) # {} THEN TakeAnswer(t, thr[t].call)
     ELSE /\ IterateThen(t, "block", TRUE)
          /\ UNCHANGED <<incoming, call, pendingReplies, crashed>>
  /\ UNCHANGED <<outgoing, discLink, disconnected, ioPath, dispatcher, wire, peer,
                 closed, writeWatch>>

(* and then, after each iteration, looks for a reason to return.  It blocks *)
(* again with the pending call when there is no timeout, else without it.   *)
BlockAgain(t, c) ==
  /\ \E late \in IF c \in Timed THEN {FALSE} ELSE {thr[t].late, TRUE} :
       thr' = [thr EXCEPT ![t].pc = "acquire", ![t].iter = "block",
                          ![t].peek = (c \notin Timed), ![t].write = FALSE,
                          ![t].late = late]
  /\ mutex' = NoThread
Recheck(t) ==
  LET c == thr[t].call
      unchanged == UNCHANGED <<incoming, call, pendingReplies, crashed>>
  IN /\ At(t, "recheck") /\ Locked(t)
     /\ CASE Completed(c) -> GoOn(t, "idle") /\ unchanged
          [] ~Completed(c) /\ Answers(c) # {} -> TakeAnswer(t, c)
          [] OTHER ->
               CASE disconnected -> Give(t, c, "idle") /\ incoming' = incoming
                 [] ~disconnected /\ ~discLink ->
                      GiveTimeout(t, c) /\ incoming' = incoming
                 [] ~disconnected /\ discLink ->
                      IF c \in Timed /\ thr[t].late
                      THEN GiveTimeout(t, c) /\ incoming' = incoming
                      ELSE BlockAgain(t, c) /\ unchanged
     /\ UNCHANGED <<outgoing, discLink, disconnected, ioPath, dispatcher, wire, peer,
                    closed, writeWatch>>

----------------------------------------------------------------------------
(* The main loop. *)

(* dbus_connection_dispatch *)
Dispatch(t) ==
  /\ At(t, "idle") /\ Locked(t) /\ t \in Loops
  /\ incoming # <<>> \/ (disconnected /\ discLink)
  /\ StatusThen(t, "dispatch")
  /\ UNCHANGED <<incoming, outgoing, pendingReplies, discLink, disconnected, ioPath,
                 dispatcher, call, wire, peer, closed, writeWatch, crashed>>
DispatchData(t) ==
  /\ At(t, "dispatch") /\ Locked(t)
  /\ thr' = [thr EXCEPT ![t] =
       IF incoming = <<>> THEN Idle ELSE [@ EXCEPT !.pc = "waitDispatch"]]
  /\ mutex' = NoThread
  /\ UNCHANGED <<incoming, outgoing, pendingReplies, discLink, disconnected, ioPath,
                 dispatcher, call, wire, peer, closed, writeWatch, crashed>>

(* _dbus_connection_acquire_dispatch *)
AcquireDispatch(t) ==
  /\ At(t, "waitDispatch") /\ dispatcher = NoThread
  /\ dispatcher' = t
  /\ thr' = [thr EXCEPT ![t].pc = "pop"]
  /\ UNCHANGED <<incoming, outgoing, pendingReplies, discLink, disconnected, ioPath,
                 mutex, call, wire, peer, closed, writeWatch, crashed>>

(* The head of the queue completes its call, or goes to filters and object  *)
(* path handlers, which run without the lock.                               *)
Pop(t) ==
  /\ At(t, "pop") /\ Locked(t)
  /\ IF incoming = <<>>
     THEN /\ dispatcher' = NoThread
          /\ StatusThen(t, "idle")
          /\ UNCHANGED <<incoming, call, pendingReplies, crashed>>
     ELSE /\ incoming' = Tail(incoming)
          /\ IF Head(incoming) \in pendingReplies
             THEN Give(t, Head(incoming), "dispatched")
             ELSE /\ thr' = [thr EXCEPT ![t].pc = "dispatched"] /\ mutex' = NoThread
                  /\ UNCHANGED <<call, pendingReplies, crashed>>
          /\ UNCHANGED dispatcher
  /\ UNCHANGED <<outgoing, discLink, disconnected, ioPath, wire, peer, closed,
                 writeWatch>>
Dispatched(t) ==
  /\ At(t, "dispatched") /\ Locked(t)
  /\ dispatcher' = NoThread
  /\ StatusThen(t, "idle")
  /\ UNCHANGED <<incoming, outgoing, pendingReplies, discLink, disconnected, ioPath,
                 call, wire, peer, closed, writeWatch, crashed>>

(* A timeout of the connection is due; the main loop calls                  *)
(* reply_handler_timeout, which takes the lock only then.                   *)
Fire(t, c) ==
  /\ At(t, "idle") /\ t \in Loops /\ call[c].added
  /\ thr' = [thr EXCEPT ![t].pc = "fire", ![t].call = c]
  /\ UNCHANGED <<incoming, outgoing, pendingReplies, discLink, disconnected, ioPath,
                 dispatcher, mutex, call, wire, peer, closed, writeWatch,
                 crashed>>
(* Mistake: the timeout is removed and its error is not queued. *)
ReplyHandlerTimeoutFaulty(t) ==
  LET c == thr[t].call
  IN /\ At(t, "fire") /\ Locked(t)
     /\ call' = [call EXCEPT ![c].link = FALSE, ![c].added = FALSE]
     /\ StatusThen(t, "idle")
     /\ UNCHANGED <<incoming, outgoing, pendingReplies, discLink, disconnected, ioPath,
                    dispatcher, wire, peer, closed, writeWatch, crashed>>
ReplyHandlerTimeout(t) ==
  LET c == thr[t].call
  IN /\ At(t, "fire") /\ Locked(t)
     /\ incoming' = IF call[c].link THEN Append(incoming, c) ELSE incoming
     /\ call' = [call EXCEPT ![c].link = FALSE, ![c].added = FALSE]
     /\ StatusThen(t, "idle")
     /\ UNCHANGED <<outgoing, pendingReplies, discLink, disconnected, ioPath,
                    dispatcher, wire, peer, closed, writeWatch, crashed>>

(* The socket is readable, or writable and somebody wants to write. *)
HandleWatch(t, watch) ==
  /\ At(t, "idle") /\ Locked(t) /\ t \in Loops /\ ~disconnected
  /\ IF watch = "readWatch" THEN Readable ELSE writeWatch
  /\ IterateThen(t, watch, FALSE)
  /\ UNCHANGED <<incoming, outgoing, pendingReplies, discLink, disconnected, ioPath,
                 dispatcher, call, wire, peer, closed, writeWatch, crashed>>

(* dbus_connection_read_write_dispatch with a timeout: dispatches a message *)
(* when there is one, else runs an iteration.                               *)
ReadWriteDispatch(t) ==
  /\ At(t, "idle") /\ Locked(t) /\ t \in Loops /\ ~disconnected
  /\ StatusThen(t, "readWrite")
  /\ UNCHANGED <<incoming, outgoing, pendingReplies, discLink, disconnected, ioPath,
                 dispatcher, call, wire, peer, closed, writeWatch, crashed>>
ReadWrite(t) ==
  /\ At(t, "readWrite") /\ Locked(t)
  /\ CASE incoming # <<>> ->
            /\ thr' = [thr EXCEPT ![t].pc = "status", ![t].next = "dispatch"]
            /\ mutex' = NoThread
       [] incoming = <<>> /\ disconnected -> GoOn(t, "idle")
       [] incoming = <<>> /\ ~disconnected -> IterateThen(t, "readWrite", FALSE)
  /\ UNCHANGED <<incoming, outgoing, pendingReplies, discLink, disconnected, ioPath,
                 dispatcher, call, wire, peer, closed, writeWatch, crashed>>

(* dbus_connection_close of a private connection *)
Close(t) ==
  /\ At(t, "idle") /\ Locked(t) /\ ~disconnected
  /\ disconnected' = TRUE /\ writeWatch' = FALSE
  /\ StatusThen(t, "idle")
  /\ UNCHANGED <<incoming, outgoing, pendingReplies, discLink, ioPath, dispatcher,
                 call, wire, peer, closed, crashed>>

----------------------------------------------------------------------------
(* The peer answers calls, and may go away.                                 *)

local == <<incoming, outgoing, pendingReplies, discLink, disconnected, ioPath,
           dispatcher, mutex, call, thr, writeWatch, crashed>>
PeerAnswers(c) ==
  /\ c \in peer /\ ~closed
  /\ wire' = Append(wire, c) /\ peer' = peer \ {c}
  /\ UNCHANGED <<closed, local>>
PeerCloses ==
  /\ ~closed
  /\ closed' = TRUE /\ peer' = {}
  /\ UNCHANGED <<wire, local>>

(* What a thread does once it is inside a function of the connection. *)
Inside(t) ==
  \/ AcquireIOPath(t) \/ GiveUpIOPath(t) \/ Iterate(t) \/ PollReturns(t)
  \/ PollTimesOut(t) \/ GetDispatchStatus(t) \/ DrainEnd(t)
  \/ \E c \in Calls : DrainOne(t, c)
  \/ Finish(t) \/ Flush(t) \/ CheckReply(t) \/ Recheck(t)
  \/ DispatchData(t) \/ AcquireDispatch(t) \/ Pop(t) \/ Dispatched(t)
  \/ ReplyHandlerTimeout(t) \/ ReadWrite(t)

(* What the application asks of a thread. *)
Enter(t) ==
  \/ \E c \in Calls : SendWithReply(t, c) \/ Block(t, c) \/ Cancel(t, c) \/ Fire(t, c)
  \/ Dispatch(t) \/ ReadWriteDispatch(t) \/ Close(t)
  \/ \E watch \in {"readWatch", "writeWatch"} : HandleWatch(t, watch)

Peer == PeerCloses \/ \E c \in Calls : PeerAnswers(c)
Next == Peer \/ \E t \in Threads : Inside(t) \/ Enter(t)

(* Threads inside libdbus run on, poll() and the wait for the I/O path end  *)
(* with their timeout, and the peer answers the calls it gets.  Nothing     *)
(* makes the application call libdbus.                                      *)
Fairness ==
  /\ \A t \in Threads : SF_vars(Inside(t)) /\ SF_vars(AcquireIOPath(t))
  /\ \A c \in Calls : WF_vars(PeerAnswers(c))
Spec == Init /\ [][Next]_vars /\ Fairness

(* ... and a main loop that runs: it comes back to the messages that are    *)
(* queued, to the socket and to the timeouts that are due.                  *)
LoopRuns ==
  \A t \in Loops :
    /\ SF_vars(Dispatch(t))
    /\ \A watch \in {"readWatch", "writeWatch"} : SF_vars(HandleWatch(t, watch))
    /\ \A c \in Calls : SF_vars(Fire(t, c))
LoopSpec == Spec /\ LoopRuns

----------------------------------------------------------------------------
(* Properties. *)

(* A registered timeout belongs to a call that still waits: it is in the    *)
(* hash, its timeout error is not used up and no answer to it is queued.    *)
TimeoutsOfWaitingCalls ==
  \A c \in Calls : call[c].added =>
    c \in pendingReplies /\ call[c].link /\ Answers(c) = {}

(* No call is forgotten.  The connection knows every call that waits: one   *)
(* that was sent, and is neither cancelled nor completed, is in the hash,   *)
(* unless a thread is about to complete it, or the connection is lost and   *)
(* the error that would end the call is used up (DrainOne; what becomes of  *)
(* such a call is the matter of EveryCallSeesAReply).  And while a call     *)
(* with a timeout is in the hash, the timeout runs or an answer is queued.  *)
Waits(c) == call[c].sent /\ ~call[c].cancelled /\ ~Completed(c)
Known(c) ==
  \/ c \in pendingReplies
  \/ \E t \in Threads : thr[t].pc = "finish" /\ thr[t].call = c
  \/ disconnected /\ ~call[c].link
NobodyForgotten ==
  /\ \A c \in Calls : Waits(c) => Known(c)
  /\ \A c \in pendingReplies \cap Timed : call[c].added \/ Answers(c) # {}

(* Only the thread with the I/O path polls, and a thread that blocks        *)
(* without a timeout never polls while its answer is in the queue.          *)
NoSleepOverReply ==
  \A t \in Threads : At(t, "poll") /\ thr[t].iter = "block" =>
    /\ ioPath = t
    /\ thr[t].call \notin Timed /\ ~disconnected => Answers(thr[t].call) = {}

(* A thread that blocks on a call returns. *)
BlockReturns ==
  \A t \in Threads : thr[t].pc = "flush" ~> thr[t].pc = "idle" \/ crashed

(* "A #DBusPendingCall will always see exactly one reply message, unless    *)
(* it's cancelled" (dbus_connection_send_with_reply): with a main loop that *)
(* runs, every call that was sent ends.  The code does not keep this when   *)
(* the connection is lost: the error that the drain queues for a call finds *)
(* no call in the hash when it is dispatched, and goes to the filters.      *)
EveryCallSeesAReply ==
  \A c \in Calls : call[c].sent ~> Completed(c) \/ call[c].cancelled \/ crashed
============================================================================
