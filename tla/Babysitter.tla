----------------------------- MODULE Babysitter -----------------------------
(***************************************************************************)
(* How the daemon starts a program and learns what became of it             *)
(* (dbus/dbus-spawn.c, and its use in bus/activation.c).  Three processes    *)
(* take part: the daemon, the babysitter it forks, and the program the       *)
(* babysitter forks, its child.  The babysitter reports the child's pid and   *)
(* its exit status over a socket, the child reports a failed exec over a      *)
(* pipe.  Both ends for writing are held by the babysitter and, until its     *)
(* exec, by the child.                                                      *)
(*                                                                         *)
(* A report is two integers in two writes.  A process that exits closes its  *)
(* descriptors one by one.                                                  *)
(***************************************************************************)
EXTENDS Sequences

VARIABLES
    daemon,     \* the DBusBabysitter, and where the daemon is in its functions
    sitter,     \* the babysitter process
    child,      \* the program
    pipe,       \* the integers written to each descriptor and not read
    writers,    \* the processes that hold its end for writing
    copied      \* a babysitter forked later has copies of the daemon's ends

vars == <<daemon, sitter, child, pipe, writers, copied>>

\* In the order in which an iteration of the daemon looks at them.
Ends == {"socket", "errors"}

InOrder == <<"socket", "errors">>

\* What waitpid() tells: exit(0), another exit code, a signal.
Statuses == {"ok", "failed", "signalled"}

Nothing == "nothing"

-----------------------------------------------------------------------------
(* Processes. *)

Alive(p) == p.pc \notin {"unborn", "exiting", "zombie", "reaped"}

Exit(p, status) == [p EXCEPT !.pc = "exiting", !.status = status]

\* The kernel closes the descriptors of a process that exits, in some order.
CloseAtExit(name, p, e) ==
    /\ p.pc = "exiting" /\ name \in writers[e]
    /\ writers' = [writers EXCEPT ![e] = @ \ {name}]
    /\ UNCHANGED <<daemon, sitter, child, pipe, copied>>

Closed(name, p) == p.pc = "exiting" /\ \A e \in Ends : name \notin writers[e]

\* do_write() of one integer by process p, which then becomes next.  Without a
\* reader that is death by SIGPIPE.
Written(e, p, next) == IF daemon.open[e] \/ copied THEN next ELSE Exit(p, "signalled")

Write(e, int) ==
    pipe' = IF daemon.open[e] \/ copied THEN [pipe EXCEPT ![e] = Append(@, int)] ELSE pipe

-----------------------------------------------------------------------------
(* The program. *)

\* execve() succeeds and closes what is marked close-on-exec.
Exec ==
    /\ child.pc = "setup"
    /\ child' = [child EXCEPT !.pc = "running"]
    /\ writers' = [e \in Ends |-> writers[e] \ {"child"}]
    /\ UNCHANGED <<daemon, sitter, pipe, copied>>

ExecFails ==
    /\ child.pc = "setup"
    /\ child' = [child EXCEPT !.pc = "write what"]
    /\ UNCHANGED <<daemon, sitter, pipe, writers, copied>>

\* write_err_and_exit()
WriteExecFailed ==
    /\ \/ /\ child.pc = "write what"
          /\ child' = Written("errors", child, [child EXCEPT !.pc = "write errno"])
          /\ Write("errors", "EXEC_FAILED")
       \/ /\ child.pc = "write errno"
          /\ child' = Written("errors", child, [Exit(child, "failed") EXCEPT !.told = TRUE])
          /\ Write("errors", "errno")
    /\ UNCHANGED <<daemon, sitter, writers, copied>>

\* The program ends, one way or another; it need not.
ChildEnds ==
    /\ child.pc = "running"
    /\ \E status \in Statuses : child' = Exit(child, status)
    /\ UNCHANGED <<daemon, sitter, pipe, writers, copied>>

\* It can be waited for, and its parent gets SIGCHLD, which is lost unless
\* babysit_signal_handler() is in place.  Without a parent, init reaps it.
ChildIsZombie ==
    /\ Closed("child", child)
    /\ child' = [child EXCEPT !.pc = IF Alive(sitter) THEN "zombie" ELSE "reaped"]
    /\ sitter' = [sitter EXCEPT !.byte = @ \/ (Alive(sitter) /\ sitter.handles)]
    /\ UNCHANGED <<daemon, pipe, writers, copied>>

-----------------------------------------------------------------------------
(* The babysitter process. *)

SitterStep(pc, next) ==
    /\ sitter.pc = pc
    /\ sitter' = next
    /\ UNCHANGED <<daemon, child, pipe, writers, copied>>

SitterAt(pc) == [sitter EXCEPT !.pc = pc]

Fork ==
    /\ sitter.pc = "fork"
    /\ sitter' = SitterAt("pipe")
    /\ child' = [child EXCEPT !.pc = "setup"]
    /\ writers' = [e \in Ends |-> writers[e] \cup {"child"}]
    /\ UNCHANGED <<daemon, pipe, copied>>

ForkFails == SitterStep("fork", SitterAt("fork what"))

\* babysit() has no descriptor for its own pipe, and gives up.
NoSigchldPipe == SitterStep("pipe", [Exit(sitter, "failed") EXCEPT !.broken = TRUE])

SetSignalHandler ==
    SitterStep("pipe", [sitter EXCEPT !.pc = "pid what", !.handles = TRUE])

\* A report to the daemon: its first integer, then its second.
SitterWrites(from, to, int) ==
    /\ sitter.pc = from
    /\ sitter' = Written("socket", sitter, to)
    /\ Write("socket", int)
    /\ UNCHANGED <<daemon, child, writers, copied>>

\* A plausible slip: SIGCHLD will tell when there is something to check.
WritePidFaulty ==
    \/ SitterWrites("pid what", SitterAt("pid"), "PID")
    \/ SitterWrites("pid", SitterAt("poll"), "pid")

\* write_pid(), after which the child is checked whatever SIGCHLD did.
WritePid ==
    \/ SitterWrites("pid what", SitterAt("pid"), "PID")
    \/ SitterWrites("pid", SitterAt("check"), "pid")

WriteForkFailed ==
    \/ SitterWrites("fork what", SitterAt("fork errno"), "FORK_FAILED")
    \/ SitterWrites("fork errno", [Exit(sitter, "failed") EXCEPT !.told = TRUE], "errno")

\* write_status_and_exit()
WriteStatus ==
    \/ SitterWrites("status what", SitterAt("status"), "EXITED")
    \/ SitterWrites("status", Exit(sitter, "ok"), child.status)

\* The daemon has closed its end, and nobody has a copy of it.
HungUp == ~daemon.open["socket"] /\ ~copied

\* check_babysit_events(): first the child, then the daemon.
CheckBabysitEvents ==
    /\ sitter.pc = "check"
    /\ IF child.pc = "zombie"
       THEN /\ child' = [child EXCEPT !.pc = "reaped"]
            /\ sitter' = SitterAt("status what")
       ELSE /\ sitter' = IF sitter.hangUp THEN Exit(sitter, "ok") ELSE SitterAt("poll")
            /\ UNCHANGED child
    /\ UNCHANGED <<daemon, pipe, writers, copied>>

\* The poll of babysit() returns.  The byte is not read when the socket is
\* what woke it.
Wake ==
    /\ HungUp \/ sitter.byte
    /\ SitterStep("poll", [sitter EXCEPT !.pc = "check", !.hangUp = HungUp,
                                         !.byte = @ /\ HungUp])

SitterIsZombie ==
    /\ Closed("sitter", sitter)
    /\ SitterStep("exiting", SitterAt("zombie"))

\* Somebody kills the babysitter.
SitterKilled ==
    /\ Alive(sitter)
    /\ SitterStep(sitter.pc, [Exit(sitter, "signalled") EXCEPT !.broken = TRUE])

-----------------------------------------------------------------------------
(* The daemon: reading. *)

\* A read of the end returns: there is something, or the end of the stream.
Readable(e) == pipe[e] # <<>> \/ writers[e] = {}

Ready(e) == daemon.open[e] /\ Readable(e)

LiveChildren == \E e \in Ends : daemon.open[e]

DaemonAt(pc) == [daemon EXCEPT !.pc = pc]

\* close_socket_to_babysitter() and close_error_pipe_from_child()
ClosedEnd(e) == [daemon EXCEPT !.open[e] = FALSE, !.plan = Tail(@), !.what = Nothing]

Received(int) ==
    LET d == [daemon EXCEPT !.plan = Tail(@), !.what = Nothing]
    IN  CASE daemon.what = "PID" -> [d EXCEPT !.pid = TRUE]
          [] daemon.what = "EXITED" -> [d EXCEPT !.status = int, !.errnum = Nothing]
          [] daemon.what = "FORK_FAILED" -> [d EXCEPT !.forkErr = TRUE, !.errnum = int]
          [] daemon.what = "EXEC_FAILED" -> [d EXCEPT !.execErr = TRUE, !.errnum = int]

\* A plausible slip: a hangup is looked at first.
HandleEndFaulty(e) ==
    IF writers[e] = {}
    THEN daemon' = ClosedEnd(e) /\ UNCHANGED pipe
    ELSE daemon' = [daemon EXCEPT !.what = Head(pipe[e])] /\ pipe' = [pipe EXCEPT ![e] = Tail(@)]

\* handle_babysitter_socket() and handle_error_pipe(): a hangup counts when
\* there is no more to read.  read_data() begins with the kind of report.
HandleEnd(e) ==
    IF pipe[e] = <<>>
    THEN daemon' = ClosedEnd(e) /\ UNCHANGED pipe
    ELSE daemon' = [daemon EXCEPT !.what = Head(pipe[e])] /\ pipe' = [pipe EXCEPT ![e] = Tail(@)]

\* Its second integer, or the end of the stream before it.
ReadArgument(e) ==
    IF pipe[e] = <<>>
    THEN daemon' = ClosedEnd(e) /\ UNCHANGED pipe
    ELSE daemon' = Received(Head(pipe[e])) /\ pipe' = [pipe EXCEPT ![e] = Tail(@)]

\* One report of each end that a poll found ready.  The whole daemon waits
\* for what is not there yet, and for what another callback has read since.
Read ==
    /\ daemon.plan # <<>> /\ Readable(Head(daemon.plan))
    /\ IF daemon.what = Nothing THEN HandleEnd(Head(daemon.plan))
                                ELSE ReadArgument(Head(daemon.plan))
    /\ UNCHANGED <<sitter, child, writers, copied>>

\* A plausible slip: the pid will come.
HavePidFaulty == daemon.pid

\* kill_child() waits no longer: it has the pid, or will never get it.
HavePid == daemon.pid \/ ~LiveChildren

\* babysitter_iteration(): the poll.  In kill_child() it blocks.
Poll ==
    /\ daemon.pc \in {"handling", "asking", "killing"} /\ daemon.plan = <<>>
    /\ daemon.pc = "killing" => ~HavePid
    /\ \E e \in Ends : Ready(e)
    /\ daemon' = [daemon EXCEPT !.plan = SelectSeq(InOrder, Ready)]
    /\ UNCHANGED <<sitter, child, pipe, writers, copied>>

NoMoreToRead == daemon.plan = <<>> /\ \A e \in Ends : ~Ready(e)

-----------------------------------------------------------------------------
(* The daemon: callbacks of the main loop. *)

\* _dbus_babysitter_unref() of the last reference: the babysitter has exited
\* or is killed, and is reaped; the program is on its own.
Unref(report) ==
    /\ daemon' = [daemon EXCEPT !.pc = "freed", !.open = [e \in Ends |-> FALSE],
                                !.watch = [e \in Ends |-> FALSE], !.seen = <<>>,
                                !.report = report]
    /\ sitter' = SitterAt("reaped")
    /\ writers' = [e \in Ends |-> writers[e] \ {"sitter"}]

\* No callback of these watches is due: the main loop polls, dispatches, runs
\* timeouts and the callbacks of other watches.
AtRest == daemon.pc = "loop" /\ daemon.seen = <<>>

\* The poll of the main loop, which looks at the watches in the order in which
\* they were made.
LoopPoll ==
    /\ AtRest
    /\ \E e \in Ends : daemon.watch[e] /\ Ready(e)
    /\ daemon' = [daemon EXCEPT !.seen =
                    SelectSeq(<<"errors", "socket">>, LAMBDA e : daemon.watch[e] /\ Ready(e))]
    /\ UNCHANGED <<sitter, child, pipe, writers, copied>>

\* babysitter_watch_callback() of the next watch this poll found ready, which
\* begins with handle_watch(): it reads one report, if its end is open still.
WatchCallback ==
    /\ daemon.pc = "loop" /\ daemon.seen # <<>>
    /\ LET e == Head(daemon.seen)
       IN  daemon' = [daemon EXCEPT !.pc = "handling", !.seen = Tail(@),
                                    !.plan = IF daemon.open[e] THEN <<e>> ELSE <<>>]
    /\ UNCHANGED <<sitter, child, pipe, writers, copied>>

\* The end of handle_watch(): watches of what it has closed are removed, and
\* with a changed list of watches the main loop polls again.
EndHandleWatch ==
    /\ daemon.pc = "handling" /\ NoMoreToRead
    /\ LET left == [e \in Ends |-> daemon.watch[e] /\ daemon.open[e]]
       IN  daemon' = [daemon EXCEPT !.pc = "asking", !.watch = left,
                                    !.seen = IF left = daemon.watch THEN @ ELSE <<>>]
    /\ UNCHANGED <<sitter, child, pipe, writers, copied>>

\* _dbus_babysitter_set_child_exit_error()
ExitError ==
    IF daemon.execErr THEN "exec"
    ELSE IF daemon.forkErr THEN "fork"
    ELSE IF daemon.status # Nothing THEN daemon.status ELSE "unknown"

\* get_child_exited() says no, or says yes and the exit code is 0, which may
\* be a program that puts itself into the background.
GoOn ==
    /\ daemon.pc = "asking" /\ NoMoreToRead
    /\ daemon.open["socket"] \/ ExitError = "ok"
    /\ daemon' = [daemon EXCEPT !.pc = "loop",
                                !.report = IF daemon.open["socket"] THEN @ ELSE "ok"]
    /\ UNCHANGED <<sitter, child, pipe, writers, copied>>

\* The activation fails, and the DBusBabysitter goes with it.
ActivationFails ==
    /\ daemon.pc = "asking" /\ NoMoreToRead
    /\ ~daemon.open["socket"] /\ ExitError # "ok"
    /\ Unref(ExitError)
    /\ UNCHANGED <<child, pipe, copied>>

\* The descriptor of a watch was closed behind its back, by get_child_exited():
\* the main loop finds that out and removes the watch.
RemoveStaleWatch(e) ==
    /\ AtRest /\ daemon.watch[e] /\ ~daemon.open[e]
    /\ daemon' = [daemon EXCEPT !.watch[e] = FALSE]
    /\ UNCHANGED <<sitter, child, pipe, writers, copied>>

\* The activation times out or is cancelled.
KillChild ==
    /\ AtRest
    /\ daemon' = DaemonAt("killing")
    /\ UNCHANGED <<sitter, child, pipe, writers, copied>>

\* kill(), which finds the program or, when it was reaped, nobody.
EndKillChild ==
    /\ daemon.pc = "killing" /\ daemon.plan = <<>> /\ HavePid
    /\ child' = IF daemon.pid /\ Alive(child) THEN Exit(child, "signalled") ELSE child
    /\ Unref(daemon.report)
    /\ UNCHANGED <<pipe, copied>>

\* The name has appeared, or another activation of this program has failed.
Drop ==
    /\ AtRest
    /\ Unref(daemon.report)
    /\ UNCHANGED <<child, pipe, copied>>

\* Other programs are started, and their babysitters go.
OtherBabysitter ==
    /\ \/ ~copied /\ AtRest /\ LiveChildren
       \/ copied
    /\ copied' = ~copied
    /\ UNCHANGED <<daemon, sitter, child, pipe, writers>>

-----------------------------------------------------------------------------

\* The daemon has forked the babysitter and closed the ends for writing.
Init ==
    /\ daemon = [pc |-> "loop", open |-> [e \in Ends |-> TRUE],
                 watch |-> [e \in Ends |-> TRUE], seen |-> <<>>, plan |-> <<>>,
                 what |-> Nothing,
                 pid |-> FALSE, status |-> Nothing, forkErr |-> FALSE,
                 execErr |-> FALSE, errnum |-> Nothing, report |-> Nothing]
    /\ sitter = [pc |-> "fork", status |-> Nothing, handles |-> FALSE, byte |-> FALSE,
                 hangUp |-> FALSE, told |-> FALSE, broken |-> FALSE]
    /\ child = [pc |-> "unborn", status |-> Nothing, told |-> FALSE]
    /\ pipe = [e \in Ends |-> <<>>]
    /\ writers = [e \in Ends |-> {"sitter"}]
    /\ copied = FALSE

Daemon ==
    \/ LoopPoll \/ WatchCallback \/ Read \/ Poll \/ EndHandleWatch
    \/ GoOn \/ ActivationFails \/ EndKillChild
    \/ \E e \in Ends : RemoveStaleWatch(e)

Sitter ==
    \/ Fork \/ ForkFails \/ NoSigchldPipe \/ SetSignalHandler
    \/ WritePid \/ WriteForkFailed \/ WriteStatus
    \/ CheckBabysitEvents \/ Wake \/ SitterIsZombie
    \/ \E e \in Ends : CloseAtExit("sitter", sitter, e)

Child ==
    \/ Exec \/ ExecFails \/ WriteExecFailed \/ ChildIsZombie
    \/ \E e \in Ends : CloseAtExit("child", child, e)

Next ==
    \/ Daemon \/ Sitter \/ Child
    \/ ChildEnds \/ SitterKilled \/ KillChild \/ Drop \/ OtherBabysitter

\* Every process goes on, but nobody need kill, end or time out.
Fairness == WF_vars(Daemon) /\ WF_vars(Sitter) /\ WF_vars(Child)

Spec == Init /\ [][Next]_vars /\ Fairness

-----------------------------------------------------------------------------
(* Properties. *)

(***************************************************************************)
(* What the daemon says of a program that failed is what happened, although *)
(* the reports come from two processes over two streams, in pieces and in    *)
(* no fixed order: a failed exec is reported as that and not as an exit,     *)
(* the status is the program's own, and the reason is unknown only when the  *)
(* babysitter did not do its work ("we need to give priority to the exec      *)
(* error", _dbus_babysitter_set_child_exit_error).                           *)
(***************************************************************************)
ReportIsTrue ==
    daemon.report # Nothing =>
        /\ daemon.report = "exec" <=> child.told
        /\ daemon.report = "fork" <=> sitter.told
        /\ daemon.report \in Statuses => child.status = daemon.report
        /\ daemon.report = "unknown" => sitter.broken

(***************************************************************************)
(* The end of a program is noticed, also when it comes before the           *)
(* babysitter's signal handler, its report or anybody's poll, and also when  *)
(* the babysitter is killed.                                                *)
(***************************************************************************)
EndIsNoticed ==
    child.status # Nothing \/ sitter.status # Nothing
        ~> daemon.report # Nothing \/ daemon.pc = "freed"

(***************************************************************************)
(* _dbus_babysitter_kill_child blocks the whole daemon until it has a pid:   *)
(* it gets one or learns that there will be none.                           *)
(***************************************************************************)
KillReturns == daemon.pc = "killing" ~> daemon.pc = "freed"
=============================================================================
