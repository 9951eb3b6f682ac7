# A TLA+ model of D-Bus

The repository holds D-Bus 1.4.16 (`src/Python/dbus-1.4.16`), a message bus
daemon in C with its client library, and a handful of desktop scripts. This
directory models the daemon (who owns which name, which programs are started,
which calls expect a reply, who is let in, who gets which message) and the parts
of the library in which several threads, processes or machines meet: calls on a
shared connection, authentication, the cookie file, and the babysitting of
started programs. Paths below are relative to `src/Python/dbus-1.4.16` unless
they begin with `src/`.

## 1. The system

### 1.1 Components

| Component | State it keeps | Operations | Made correct by |
|---|---|---|---|
| Name registry, `bus/services.c` | for each name a queue of owners with flags; the list `services_owned` of each connection | RequestName, ReleaseName, the service of a unique name, cancel and restore hooks | queues without duplicates, agreeing with `services_owned`, with the signals and with the replies |
| Transactions, `bus/connection.c` | messages to send and cancel hooks, for the handler that runs | send, add hook, execute, cancel | all of a handler's effects or none |
| Service activation, `bus/activation.c` | pending activations with their requests, a babysitter and a timeout each | activate, name appeared, timeout, program failed, hooks | every request is answered exactly once |
| Dispatch, `bus/dispatch.c` | none of its own | run the handler of a message, find its recipients, execute or cancel its transaction | a message reaches exactly those entitled to it; errors reach who caused them |
| Driver, `bus/driver.c` | the unique name counter | Hello, RequestName, ReleaseName, StartServiceByName, AddMatch, RemoveMatch, ... | replies that are true when they are sent; names used once |
| Admission, `bus/connection.c` | incomplete and completed connections, counts for each user | accept, complete, authentication timeout | limits hold and counts do not leak |
| Pending replies, `bus/connection.c`, `bus/expirelist.c` | calls that expect a reply | call, reply, expiry, hooks | one reply for each call |
| Match rules, `bus/signals.c` | rules in pools, and by connection | add, remove, match | recipients are those whose rules match |
| Policy, `bus/policy.c` | ordered rules | may own, may send, may receive, optimise | the last matching rule decides |
| Configuration, `bus/config-parser*.c`, `bus/bus.c` | the parsed configuration | load, reload on SIGHUP | policy changes take effect (not for connected clients, section 5.1) |
| Library connections, `dbus/dbus-connection.c`, `dbus-pending-call.c` | message queues, pending calls, locks | send, block, dispatch | each call ends once (it does not always, section 5.1), nobody sleeps over a reply |
| Authentication, `dbus/dbus-auth.c`, `dbus-transport*.c` | the SASL states of client and server, buffers, watches | the commands of the protocol | identities are proved, no byte is lost, both sides end |
| Keyring, `dbus/dbus-keyring.c` | the cookie file and its lock file | get a key, lock, reload, save | keys live as long as challenges; a dead lock is removed |
| Main loop and servers, `dbus/dbus-mainloop.c`, `dbus-server*.c` | watches, timeouts, connections that need dispatch | iterate, accept | nothing is starved |
| Babysitter, `dbus/dbus-spawn.c` | a pid and two streams | spawn, exit, kill | the exit is seen, and rightly explained |
| Object tree, `dbus/dbus-object-tree.c` | handlers by path | register, unregister, dispatch | the closest handler gets the message |

`PROJECT.json` lists these and the rest (messages and marshalling, containers,
SELinux, directory watches, tools, scripts) with a status.

### 1.2 How the components interact

The daemon has one thread. The main loop picks an event (a message of a client,
a disconnection, a timeout, the exit of a program) and calls its handler. The
handler allocates a `BusTransaction`, calls functions of the registry and the
activation table, which change their tables at once, add messages to the
transaction and register cancel hooks. When it succeeds the messages are moved
to the connections' outgoing queues and the hooks are freed. When it runs out
of memory the messages are dropped and the hooks run, the last added first.

The registry calls the activation table when a name appears
(`bus_activation_service_created`, and
`bus_activation_send_pending_auto_activation_messages` at the end of every
RequestName). A disconnection calls the registry once for each name, in a
transaction of its own, and retries it until the memory suffices. Before a
message leaves, `bus_context_check_security_policy` asks the policies of sender
and recipient and records the reply that is expected, and the matchmaker adds
the recipients that asked for it.

A client connects to a listening socket, authenticates (both ends run the same
`DBusAuth` code), says Hello and is then completed. The library in the client
process may be called by several threads, which share one lock, one I/O path and
one right to dispatch. A started program runs below a babysitter process that
reports to the daemon over a socket.

### 1.3 What is hard here

* Effects are applied before the outcome is known. Some are undone by a hook,
  some are not, and the hooks must run in the right order.
* Two lists describe the same fact: the queue of a name and the
  `services_owned` of a connection; the pools of match rules and the list and the
  count of a connection; completed connections and the count of each user.
* Signals are queued before the queues change, so they announce a state
  that the rest of the handler has still to bring about.
* Clients hang up at any moment. Messages they sent before are still handled,
  and messages to them are silently dropped.
* Activations are joined by several clients, end in five ways (the name
  appears, the timeout, the program fails, a command that cannot be parsed, a
  cancelled request) and hold messages that the policy may reject later.
* An expected reply leaves the list when the reply comes, the timeout passes,
  either client departs or a transaction is cancelled; one timer serves the
  whole list, and a reply may still be refused after it was taken off. The
  expiry of incomplete connections has one timer of the same kind.
* Threads of a client give up the lock inside functions that look atomic.
* Streams are cut anywhere; memory runs out between two commands of the
  authentication; bytes of messages arrive behind its last line.
* Servers crash while they hold the lock file; programs end before anybody
  listens to SIGCHLD, and the reports about them come over two streams.

`PROJECT.json` "hazards" lists each of them at its line.

## 2. The modules

```
BusState -> Transaction -> Registry -> Activation -> Dispatch -> BusProperties -> MCBus
BusProperties -> DispatchProofs -> SignalProofs -> CallProofs
NameQueue  (INSTANCE in BusProperties, with queue <- before)

PendingReplies -> MCReplies, ReplyProofs
Policy -> Matchmaker -> Delivery -> MCDelivery
Connection -> MCConnection, ConnectionProofs
Auth -> MCAuth, AuthProofs
Keyring -> KeyringProofs
Admission -> AdmissionProofs
Babysitter
```

An arrow `A -> B` means that B extends A.

| Module | Models |
|---|---|
| `BusState` | The shared state; messages, function calls and hooks; `Init`, `TypeOK` |
| `Transaction` | `BusTransaction`: send, execute, cancel, and failing allocations |
| `Registry` | `bus/services.c`; Hello, RequestName and ReleaseName of `bus/driver.c` |
| `Activation` | `bus/activation.c`; StartServiceByName, messages that start a program |
| `Dispatch` | Which handler runs when; disconnections; `Next`, the fairness |
| `NameQueue` | The abstract specification: each operation changes one queue in one step |
| `BusProperties` | The properties, and the refinement of `NameQueue` |
| `PendingReplies` | Calls and replies between clients: expected replies of `bus/connection.c`, `bus/expirelist.c`, the security check of `bus/bus.c`, `bus_dispatch_matches` |
| `Policy` | `bus/policy.c`: the rules of a client, their optimisation, the three questions |
| `Matchmaker` | `bus/signals.c`: pools of rules, recipients |
| `Delivery` | Policy, rules and names together: who gets a message (`bus/dispatch.c`, `bus/bus.c`), AddMatch and RemoveMatch, reload of the policy |
| `Admission` | Accepting, Hello, limits and unique names, expiry of incomplete connections, the phases of the main loop |
| `Connection` | `dbus-connection.c` and `dbus-pending-call.c` under several threads |
| `Auth` | Both ends of `dbus-auth.c`, over the socket transport and its watches |
| `Keyring` | `dbus-keyring.c`: the cookie file and its lock, used by several processes that crash |
| `Babysitter` | `dbus-spawn.c` and its use in `bus/activation.c`: three processes, two streams |
| `MCBus`, `MCReplies`, `MCDelivery`, `MCConnection`, `MCAuth` | Constants for TLC |
| `DispatchProofs`, `SignalProofs`, `CallProofs`, `ReplyProofs`, `ConnectionProofs`, `AuthProofs`, `KeyringProofs`, `AdmissionProofs` | Theorems and their proofs |

Each group stands beside the others. The groups share connections and names only,
and what one group needs of another is a choice in it: `PendingReplies` and
`Delivery` both model the security check, the first with the list of expected
replies and the policy as a choice, the second with the policy and whether a reply
was expected as a choice. `Delivery` keeps queues of owners without flags,
because rules and policies look at the primary owner and at membership only.
`Activation` keeps of a babysitter that it lives, and `Babysitter` of the activation
that it fails, times out, is cancelled or succeeds.

### 2.1 State

Of `BusState`:

| Variable | In the code |
|---|---|
| `link` | the transport of a `DBusConnection`: up, down (hung up, its Disconnected message not handled yet), gone (freed) |
| `active` | `BusConnectionData.name` is set |
| `owners[n]` | `BusService.owners`; `<<>>` when the hash has no such service |
| `owned[c]` | `BusConnectionData.services_owned` |
| `pending[n]` | `BusPendingActivation.entries`; `<<>>` when the hash has none |
| `child` | pending activations whose babysitter lives |
| `phase`, `job`, `todo` | the handler that runs: how far it is, what it is about, and the calls it has still to make |
| `msgs`, `hooks` | the `BusTransaction` of the handler |
| `oom` | allocations that can still fail |
| `told`, `watched`, `calls` | what clients know: names they were told they own; owners announced by NameOwnerChanged; the activation each waits for |
| `before` | history: `owners` when the present transaction began |

`todo` is the rest of the handler as a stack of function calls. An action takes
the first call and makes it. A call that makes calls of its own is replaced by
them (`Make`). So `bus_registry_acquire_service` for a new name becomes
NameOwnerChanged, the answers to the clients that wait for it, NameAcquired, the
new owner, the held messages and the reply, each a step at which an allocation
can fail or, while the transaction executes, a client can hang up. What a handler
decides from the tables (`Outcome`, `Decline`, `Dethrone`) is computed when the
handler begins: nothing else runs in between, and none of these decisions
depends on what the handler itself has changed before it.

A connection stands for its unique name as well, so a name is a member of
`AnyName == Name \cup Conn`.

Of `PendingReplies`, whose transactions have at most one hook, so that `hook` and
`phase` describe them without the stack `todo`:

| Variable | In the code |
|---|---|
| `link` | as above |
| `items` | `BusConnections.pending_replies`, a set because no two entries have the same key; `age` is the time since a call was recorded, `left` stands for an entry with a NULL replier and time 0 |
| `timer` | the timeout of the `BusExpireList`: ticks left, or `Off` (disabled) |
| `phase`, `msg`, `hook`, `out` | how far `bus_dispatch` is, with which message, the cancel hook of its transaction, and the answer it is to deliver |
| `oom`, `made` | allocations that can still fail, calls made (bound `MaxCalls`) |
| `owed`, `lost` | history: answers each client waits for, and those of them that the daemon discarded |

Of `Delivery` and `Matchmaker`:

| Variable | In the code |
|---|---|
| `mm` | `rules_by_type` (pools by message type and interface), and `match_rules` and `n_match_rules` of each connection |
| `life`, `queue` | whether a connection has a unique name; owners of each name |
| `policy`, `client` | `BusContext.policy`, and the optimised `BusClientPolicy` each connection got with its Hello |
| `out`, `said` | what the last handler delivered to whom, and what it answered its caller |
| `asOf`, `asked` | history: the configuration a client's policy was made of; rules added and not removed |

Of `Admission`:

| Variable | In the code |
|---|---|
| `conn` | `BusConnectionData` and the incoming queue; `open` is false once the transport is disconnected |
| `incomplete`, `byUser`, `next` | `BusConnections.incomplete`, `completed_by_user`, the two static counters of `create_unique_client_name` |
| `timer` | the interval of `expire_timeout`, and the time since it last fired, from which the main loop measures |
| `phase` | where `_dbus_loop_iterate` is: before its poll, at its watches, dispatching |
| `used`, `given` | history: names given out, and how many clients got one |

Of `Connection`: the fields of `DBusConnection` under their names, with `mutex` for
the lock when it is held from one action to the next, `ioPath` and `dispatcher` for
the two rights that outlive a lock; `call` for each `DBusPendingCall`; `thr` for
where each thread is, with its local variables; `wire`, `peer` and `closed` for the
other end; `crashed` when a thread used a pointer that another had taken. One
action is what a thread does between two places where it may let go of the lock.

Of `Auth`: `peer[s]` holds the `DBusAuth` and the transport of each end; `net` the
tokens under way; `loader` what the server's message loader was given; `env` the
circumstances of one conversation (mechanisms allowed, credentials on the socket,
a keyring that works, descriptors), chosen at the beginning and never changed.

Of `Keyring`: `file` and `lock` are the two files, `server[c]` the program counter
and the local variables of a server process, `stolen` a history variable: a lock
file was deleted as stale.

Of `Babysitter`: `daemon` is the `DBusBabysitter` and where the daemon is in its
functions; `sitter` and `child` are the other two processes; `pipe[e]` the integers
in each stream; `writers[e]` who holds its end for writing, which decides about
end of file; `daemon.seen` the watches the main loop's poll found ready and has
not called back; `copied` that a babysitter forked later has inherited the daemon's
ends, so that closing them wakes nobody.

### 2.2 Errors and lack of memory

* `OutOfMemory` may happen at every call that allocates, at most `MaxOom` times
  in a run, in the handlers `OomIn` selects: requests of clients that are up,
  requests of clients that hung up, and handlers the daemon began by itself.
  `phase` becomes `cancel`, the hooks run one by one, and a handler that retries
  (disconnection, failed activations) does.
* When the sender has hung up, `bus_dispatch` goes to its end and executes
  the unfinished transaction. The model does the same (`Abandoned`).
* Any other error (`Raise`) drops the calls left, sends an error reply and
  executes the transaction, with the changes made so far.
* `restore_ownership` cannot work (section 5). Compiled with
  assertions the daemon aborts when the name has other owners, and otherwise a
  freed owner is linked. Assertions are off by default (`configure.ac:127`),
  hence the constant `Asserts`. The model stops there: phase `abort` or `fault`.
* In `Auth` a handler of a command may fail half way; the command stays in the
  buffer and is handled again. In `Admission` memory may run out while a connection
  is set up and at three places of Hello. In `Delivery` it may run out while an
  AddMatch is matched: the rule stays.

### 2.3 What is abstracted

Of names, activation and replies:

* Security policy: the constants `MayOwn` and `Denied`. Invalid and reserved
  names are names nobody may own. Messages of the driver are permitted.
* One watcher with a rule for NameOwnerChanged, always there, stands for all
  clients with match rules.
* Messages are delivered in the order of the transaction. In the code each
  connection has its own queue; every property here concerns one recipient.
* The slot in the hash of services is allocated together with its owner
  (`bus/services.c:305` allocates it later; when the requester hung up the owner
  would stay in a service that no lookup finds).
* A client waits for one activation at a time, and each connection is used
  once: a client that comes back is another connection. Therefore the system
  may really stop, when all clients have gone, and the runs of `MCBus` say
  `CHECK_DEADLOCK FALSE`. In `PendingReplies` time goes on.
* A held message counts as handed over once it is dispatched to the new owner.
* In `PendingReplies` the policy permits a message or refuses it in one of the
  two ways the code tells apart: with an error (sender's policy, full queue) and
  without one (recipient's policy). A reply nobody expects is denied, as in
  `bus/system.conf.in`. Time is counted in ticks; no tick passes inside a
  handler, and the daemon may be late by any number of them. Several entries
  that are due expire in any order.

Of the others:

* `Policy`, `Matchmaker`, `Delivery`: rules are records as the parsers make them;
  one field stands for member, path, error name and arguments, which are all
  compared for equality. Whether a reply was asked for, and whose queue is full,
  are choices.
* `Admission`: the order of the watches in a pass is any order. Ages stop counting
  at the authentication timeout. A batch is what one read brings. The loop of
  `create_unique_client_name` that asks the registry for a free name ends at once,
  because names of this form come from nowhere else.
* `Connection`: authentication is over and memory does not run out. Messages that
  answer no call, borrowed and stolen messages, filters and object handlers are
  left out: they only wake threads, as replies to other calls do. The application
  makes each call once, so it may stop, and the run says so.
* `Auth`: a line is two tokens, its command with its argument and its end. The
  limits on the buffers (`MAX_BUFFER`) are not reached by lines this short.
  Challenges are taken as proofs or not: SHA-1 is not computed.
* `Keyring`: the clock is common to all and does not go back; the key a
  conversation makes is named by the conversation. The format of the file and its
  permissions are left out. Renaming makes a new file visible in one step.
* `Babysitter`: begins after the first fork; what fails before it leaves nothing
  behind. Reads and writes of one integer are atomic.

## 3. The runs

Sizes are distinct states. `Registry`, `Activation` and `Liveness` use `MCBus`,
`Replies` `MCReplies`, `Client` and `LostCall` `MCConnection`, `Delivery` and
`RemoveMatch` `MCDelivery`, `Auth` `MCAuth`; the others run their module as it is. The
last two state what a text of the repository promises, and TLC shows that the code
does not keep it (section 5.1).

| Run | Instance | Shows |
|---|---|---|
| `Registry` (1.8 million) | 3 clients, 1 name, all 8 flag combinations, hang-ups | queues, `services_owned`, signals and replies agree; implements `NameQueue`, so takeovers need consent |
| `Activation` (4.5 million) | 2 clients, 2 names of one command, one of them forbidden to one client, 2 names for each client at most, 1 failing allocation | until the allocation fails every client that waits is in the table and each transaction is an operation of `NameQueue`; with the failure too, nobody is answered twice, the tables and the signals agree after cancelled transactions, and nothing pends on an owned name |
| `Liveness` (0.2 million) | 2 clients, 1 name, every spawn error, a denied pair, 1 failing allocation | hang-ups are noticed, calls are answered |
| `Replies` (0.4 million) | 2 clients that call each other and themselves, 1 serial, 3 calls, 2 replies expected at most, a timeout of 2 ticks, both refusals, 1 failing allocation | the list agrees with what callers wait for, nobody is answered twice, the timer is never late, no pointer to a freed client, every call ends |
| `Client` (0.4 million) | 2 threads, 2 calls, one of them with a timeout | the connection knows every call that waits, none that it knows loses both its timeout and its answer, nobody sleeps over a reply that was read, every thread that blocks returns |
| `Delivery` (0.7 million) | 3 clients, 1 name, four kinds of match rules, 2 configurations, one full queue, descriptors | rule books agree, a message reaches exactly those entitled to it by the policies of their Hello, the optimisation of a policy permits nothing new |
| `Auth` (0.6 million) | both ends, 2 sets of mechanisms, 3 failures and 4 lines at most, 2 messages behind the last line, 1 shortage of memory | nobody is admitted under an identity he did not prove, messages arrive whole and in order, both ends agree about descriptors, every conversation ends, an honest client gets in |
| `Keyring` (0.2 million) | 2 conversations whose servers may crash, 4 keys in the file, times 2 and 4 | a key outlives the challenge that names it, a dead lock is removed |
| `Admission` (0.7 million) | 3 connections of one user, limits 1, 2 and 1, a timeout of 2 ticks, 1 shortage of memory | counts and limits hold, names are never reused, every connection is completed or closed |
| `Babysitter` (43 thousand) | one program, its babysitter, the daemon, a babysitter forked later | the daemon reports what happened, notices the end, and never waits for ever in the kill |
| `RemoveMatch` (violation) | as `Delivery` | one call, two answers |
| `LostCall` (violation) | 2 threads, 1 call with a timeout, a main loop that runs | a call of a lost connection never ends |

### 3.1 Bounds, and why they suffice

* Three clients give an owner, a waiter and a newcomer, the most one
  queue operation distinguishes: the first, the second, the one that moves.
  In `Activation` the limit on the names of a client (`MaxServices` 2) is met when it
  has a well-known name besides its unique one, and the other name is still to be had.
* Two names of one command make a program's failure fail a second activation.
* `MaxPending` of 2 lets both clients join one activation, or wait for one each. With
  two clients who wait for one thing each, a limit of 2 is reached and nobody is left
  to be refused. `Registry`, with a limit of 0, has the refusal, which is the same as
  that of a name no program stands for.
* One failing allocation, at any call of any handler `OomIn` selects, is what a
  cancelled transaction needs; that a second one, in the retry of a handler or in
  another request, changes nothing is what the theorems of section 4 say of
  `OwnedMatchesQueues`, `SignalsAgree` and `NothingPendsOnOwnedNames`.
* The flags of `Activation` and `Liveness` are subsets: flags are the subject of
  `Registry`.
* In `Replies` three calls of one serial meet the limit of two expected replies
  and the check for a serial that is outstanding; two ticks let one entry be
  older than another, so that the interval depends on the right one; a wait for
  memory of one tick is shorter than the timeout, as in the code (500
  milliseconds). Calls carry no descriptors there, replies do.
* `Client`: one thread has the I/O path, one waits for it; the second is what the
  hazards are about. One call has a timeout and the other none, because the code
  treats them differently in the dispatch, the block and the loss of the
  connection. Only the main thread dispatches as a main loop does.
* `Delivery`: one eavesdropper, one sender, one recipient. The rules are one for
  each feature that decides something (type and interface, sender, destination,
  eavesdropping). Two rules for each client meet the limit and the same rule twice.
  The configurations differ, so that a reload matters.
* `Auth`: three failures are more than the mechanisms a client can try, four lines
  let the server be behind by a whole exchange; two messages tell loss from
  reordering.
* `Keyring`: times are small, but a key is still used after its successor is due
  and still kept after it is no longer handed out, as with 5 and 7 minutes in the
  code. Two retries of the lock lie on both sides of a crash.
* `Admission`: each limit is at its edge with three connections. `MaxInt` 1 makes
  the minor number of unique names wrap.
* `Babysitter` has no bounds: everything in it happens at most once, and all the
  streams together carry a handful of integers.
* `Registry` treats clients as symmetric. No constant of this run tells clients apart,
  and its properties are state invariants and step properties.

### 3.2 Fairness, and what justifies it

| Module | Assumed | Because |
|---|---|---|
| `Dispatch`, `PendingReplies` | weak fairness of `Handler` | a handler that has begun runs on in the only thread |
| | strong fairness of `Disconnected(c)`, `TimeOut` | `_dbus_loop_iterate` checks every timeout and dispatches every connection in each iteration, but only between handlers: the actions are enabled again and again and not continuously |
| `PendingReplies` | strong fairness of `Tick` | time passes |
| `Connection` | strong fairness of `Inside(t)` and `AcquireIOPath(t)` | a thread inside the library runs on, and a lock that is free again and again is got; nothing is assumed of the application's loops |
| | weak fairness of `PeerAnswers(c)` | a call without a timeout returns only if the peer answers or closes |
| | in `LostCall` also strong fairness of `Dispatch(t)`, `HandleWatch(t, watch)` and `Fire(t, c)` of threads that run a main loop (`LoopSpec`) | the application runs its main loop, which calls the handlers of ready watches and timeouts that are due and dispatches; without it a call of which nobody asks need not end |
| `Auth` | weak fairness of `ReadWatch(s)`, `WriteWatch(s)` | both main loops call the handlers of ready watches that are enabled |
| `Keyring` | weak fairness of `GetBestKey(c)` | a server runs on unless it crashes |
| `Admission` | weak fairness of `Iterate`, `Tick` | the daemon iterates and time passes; clients owe nothing |
| `Babysitter` | weak fairness of `Daemon`, `Sitter`, `Child` | the three processes are scheduled; that the program ends is no part of it |

Nothing is assumed about memory beyond the bound: handlers that loop until the
memory suffices end because failures are finite.

The systems of `Admission` and `Replies` never stop, and deadlock is checked. The
others say `CHECK_DEADLOCK FALSE`, because they may rightly stop: clients have
gone, conversations are over, calls are made once, processes have ended.

### 3.3 Mutants

Every property of a passing run has a mutant in `PROJECT.json`: a plausible bug
that breaks it. The faulty operators stand just before the ones they replace,
under a name that ends in `Faulty`; no specification uses them.

## 4. The proofs

For every set of clients and names and every configuration that meets
the assumptions of `BusState` (names and clients differ, policies are about
them, limits are natural numbers), TLAPS checks:

* `TypesHold`: `Spec => []TypeOK`. `TypeOK` is inductive as it stands. The
  proof has a lemma for each group of actions and, under it, a step for each
  action. `CallFields`, `MessageFields` and `HookFields` say which fields a
  call, a message or a hook has by its kind; `RequestCalls` and
  `SuccessionCalls` say that what handlers plan is a sequence of calls. Two
  parts of the type carry the argument: a `disconnect` job belongs to a client
  and an `expire` job to a name, and an owner that is to be unlinked travels
  with the call, so that a hook never restores an owner that does not exist.
* `OwnersAreDistinct`: `Spec => []NoDuplicateOwner`. The inductive invariant is
  `TypeOK /\ (~Halted => Distinct)`. `TypeOK` is needed because the operators
  on queues do what they should only to sequences of owners. `QueueChanges`
  shows that only eight actions change a queue and none of them after
  a halt; the lemmas about queues that come first show that each of the operators they use
  (`Without`, `SecondIn`, `Append` of an absent owner, `Swapped`, a replaced
  entry) keeps entries distinct. `UndoRemoveOwner` is the reason for
  `~Halted`: it does link an owner twice.

* `ListsMatchQueues`: `Spec => []OwnedMatchesQueues`, with memory failing anywhere.
  Between handlers the two lists agree; inside one they do not, so the invariant
  `TypeOK /\ (~Halted => Distinct /\ Consistent)` says what makes up for the
  difference. `OwnInv`: an owner that a hook may still restore (`Removed`) is on the
  list of its connection and not in the queue; otherwise list and queue agree, and
  what is freed has no list. `HookInv`: there are hooks only within a
  transaction, and at most the one added last restores an owner, after which the calls
  left neither add nor remove one (`Steady`). `TodoInv`: a handler removes at
  most one owner and adds none after it (`Ordered`), adds owners only for
  connections that exist (`LinksLive`), and the primary owner that is
  about to be unlinked is still in the queue, with only signals before
  that (`Unlinks`). The last one is needed because the signals of
  `bus_service_remove_owner` are queued first, and memory may run out at each.
  Most of the proof is about the shape of `todo`: `Joined`,
  `RemovalThenSteady` and `SignalsThenUnlink` say what is left of it when a call is
  replaced by others.

* `SignalsTellTheTruth` and `RepliesTellTheTruth`: `Spec => []SignalsAgree` and
  `Spec => []RepliesAreTrue`. Signals and replies are decided before the queues
  change, so inside a handler they are true of queues that are still to come. The
  invariant `SignalInv`, beside the one of `ListsMatchQueues`, names these:
  there are queues `p` which what is left of the handler leads to (`Stage`), and of
  which every message that is queued or still to be queued (`Coming`) is true. With
  `p` the queues there are, nothing is left that changes one (`Done`); before that
  one call is left and its signals are queued or follow it (`OneLeft`), or the owner that
  goes is still to be dealt with (`TopLeft`), perhaps after the one who takes
  its place was linked (`TwoLeft`). `Effect` says what each call makes of a queue and
  `Linked` what a request that does not get the name makes of it. When the
  handler fails instead, `Undoable` says that the heads of the queues, less the one
  owner the hook will remove, are those of `before`, which everybody knows. Between
  handlers `Agree` is all of it. Hang-ups may come while a
  transaction executes: what a client that is gone would have been told does not matter,
  and everything is therefore said of connected clients.

  The hypothesis is `"down" \notin OomIn`: memory does not run out in a request of a
  client that has hung up. It is needed, since `bus_dispatch` executes the
  unfinished transaction of such a request (`bus/dispatch.c:356`, section 5.2) and
  sends signals of a change that never happens. It does not restrict where memory runs out
  otherwise, in requests, rounds of disconnection or activation.

* `OwnedNamesDoNotPend`: `Spec => []NothingPendsOnOwnedNames`. Inside a handler a name
  may have both an owner and a pending activation: after the client was linked and
  before the held messages are sent, and while a cancelled transaction is undone.
  `PendingInv` says what makes up for it. While a handler runs such a name is `Due`,
  with `send_held` or `forget` still to be called for it, because every link of
  a well-known name is followed by `send_held` (`Followed`), and a handler that registers
  an activation links nobody. While it is cancelled, whatever is in the table or would
  be put back (`PutsBack`) is of a name that had no owner before the transaction; at the
  end the heads of the queues are those of before (`CancelledHeads`, from `Undoable`).
  It needs `SignalInv`, and with it `"down" \notin OomIn`; the other
  hypothesis is `Denied = {}`, since a held message that is rejected fails the request
  after its client was linked (`bus/activation.c:1198`, section 5.2).

* `TransactionsAreOperations`: `Spec => ImplementsNameQueue`, the specification of
  `NameQueue` with `before` as its queues. Two invariants are added to the ones
  above. `WorkInv` says of a running handler that there are queues `p` to which the
  calls that are left lead (`Leads`), and that one operation of `NameQueue`, or
  none, takes the queues of before to `p` (`Operates`); between handlers that is
  so of the queues there are. Each handler that begins is shown to plan one operation
  at most: a takeover, which the code makes of a link and then a swap or a removal, is
  one `Request`, and each round of a departure is one `Leave` or `Depart`. A
  call then changes no queue, or takes the queues a part of the way to `p`. `before`
  moves only between handlers, and by what `WorkInv` says.

  The other invariant is needed for what `NameQueue` asks of a client. It has
  no set of clients on the bus: a client is there while it owns its unique name. In
  the code that is a flag of the connection, set by the first call of Hello, while
  the name is linked by its last. `PresenceInv` relates the two: a client that is active
  and not yet freed owns its unique name, unless Hello is about to link it
  (`Joins`) or the client is departing; the unique name is the first on the list of
  a client, so it is the last to go (`bus_connection_disconnected` removes
  the last of the list); and only Hello links a unique name and only the end of
  a departure removes it (`Fits`). `OwnedMatchesQueues`, with the fact that the two
  lists name nothing twice, makes the limit the code counts on the list of the
  connection the limit `NameQueue` counts over the queues (`NamesCounted`).

  The hypothesis is `OomIn = {}`. When memory runs out a request is cancelled, and
  the hooks undo that an owner was added or removed; that a waiter left, or
  changed its flags or its place, they do not (section 5.2), so the queues move
  by something `NameQueue` has no operation for (`OperationsUntilShortage` of the run
  `Activation` is what is left of the theorem then). Policies, limits, flags, spawn
  errors and hang-ups in the middle of a transaction are not restricted.

* `ActivationsAreListed` and `AnswersAreForCalls`: `Spec => []WaitingCallsArePending`
  and `Spec => []AnsweredOnce`. A client that waits for an activation is answered by
  one of several handlers: the program took the name, it exited, it could not be
  parsed, it timed out, or the client's own request found the name owned. Each
  plans its answers when it begins and forgets the activation at its end, and
  meanwhile the client is both in the table and about to be answered. `CallsInv`
  follows a client from one place to the next. An answer to it is in
  one place only, among the messages of the transaction or among the calls that are
  left (`Alone`). It waits for a name exactly when it is in the table for it, is about
  to be answered about it (`Comes`) or is about to be registered, and it is in the
  table and about to be answered at once only while the activation is still to be
  sent off or forgotten (`Accounted`). A handler forgets one activation and registers one
  client at most (`Ending`, `Registering`), and one that registers does nothing else:
  its caller waits for nothing before, and the only client of the activation whose
  program it starts is that caller (`Opening`). Clients that hang up on the way are
  taken off the table, so everything is said of connected clients.

  The hypotheses are `OomIn = {}`, `Denied = {}` and `"fork" \notin SpawnErrors`, and
  each is needed (section 5.2). A transaction that is cancelled for lack of memory
  takes its answers back, and its hook drops the activation together with the
  requests of other clients that had joined it (`bus/activation.c:1500`). A held
  message that is rejected ends the handler before the activation is forgotten, whose
  other clients have been told by then. A program that cannot be started is
  reported at once, and its activation stays in the table to be reported again at
  the timeout. In the run `Activation` `AnsweredOnce` holds with a failing allocation
  as well, and `WaitingCallsArePending` is about the states before it; hang-ups,
  timeouts, exits and joined requests are not restricted.

For `PendingReplies`, under `RepliesAssumption` (limits and times are natural
numbers, `Off` is not), with any clients and serials:

* `RepliesTyped`: `Spec => []TypeOK`. The invariant adds that a handler of
  `bus_dispatch` has a message (`HasMessage`): what is expected is built from it.
* `NoFreedClients`: `Spec => []NoFreedClient`, and `RepliesMatchOnce`:
  `Spec => []OneItemForEachReply`. Both follow from `ListInv`. The difficulty is
  the hook that puts an entry back. `Restorable` says that its two clients
  live and that nothing on the list has its key: no client departs and no call
  is recorded between the check of a reply and the cancellation. `HookWhen`
  says in which phases there is a hook, and `Alive` that an entry is marked
  exactly when its replier is gone, which is why a marked entry never has
  the key of a new one.
* `TimersAreSet`: `Spec => []ExpiryScheduled`. One timer serves the list, and an
  entry that leaves it may come back. `Scheduled` says that the timer is early enough
  for every entry on the list and for the one the hook would put back: were it
  computed from the list alone, a reply whose transaction is cancelled could
  return to a list whose timer was stopped meanwhile.
* `CallsAreTracked`: `Spec => []EveryCallTracked`, and `AnswersAreAwaited`:
  `Spec => []OneAnswer`. `AccountInv` adds up, for each caller and serial: the answers
  owed, and the one that a cancelled transaction has delivered although it will take
  its call off the list (`Paid`), are those that were discarded, those on the list, and
  the one the present transaction carries (`Carried`). The proof goes through the
  handler phase by phase and keeps the sum. Both theorems have the hypothesis `FdsFit`:
  no call carries descriptors to a client that cannot take them. It is needed: such a
  call is rejected after its reply was expected, in a transaction that is executed
  (`bus/dispatch.c:122`, section 5.2), and the sum is wrong from then on. It
  restricts the clients of an instance, who may otherwise call in any way.

For `Connection`, under `ConnectionAssumption` (main loops run in threads, every call
has a caller, the null values are no threads and no calls), with any numbers of threads
and calls and any interleaving:

* `TimeoutsBelong`, `CallsAreRemembered` and `RepliesAreSeen`: always
  `TimeoutsOfWaitingCalls`, `NobodyForgotten` and `NoSleepOverReply`. They share the
  invariant `ConnectionInv == TypeInv /\ ThreadInv /\ CallInv /\ SleepInv`.
  `ThreadInv` says what a thread's place tells about the connection: who iterates or
  polls holds the I/O path, who fires a timeout has a call with one, who drains
  has seen the disconnection, and who is about to iterate without a timeout of its
  own looks for its reply first. `CallInv` follows a call: before it is sent nobody
  knows it; a timeout that is registered belongs to a call that waits and has no answer
  queued; a call in the hash of pending replies has its error ready or its answer
  queued. `CallsAreRemembered` is about every call that was sent, in the hash or not.
  For it `KnownInv` is added: a call that waits is in the hash, or a thread is about to
  complete it, or the connection is lost and its error was used up. It does not say that such a call ends, which it
  need not (`LostCall`). `SleepInv` is the delicate one: what a thread looked for after it acquired the
  I/O path nobody can have read since, because whoever queues an answer holds that
  path or has lost the connection.

For `Admission`, under `LimitsAssumption` (limits, timeout and `MaxInt` are positive; a
run of the daemon meets finitely many connections, without which counting them
means nothing):

* `UsersAreCounted`, `LimitsAreKept` and `NamesAreUnique`: always `UserCountsExact`,
  `LimitsHold` and `NamesNeverReused`. The invariant is
  `TypeOK /\ ListInv /\ CountInv /\ NameInv`. `ListInv` says which connections are
  incomplete, and that the list is too long by one only while a connection in it is
  closed and waits for its dispatch. `CountInv` has an inequality that holds always
  and an equality that holds until memory runs out: the daemon never counts
  too few, which is why the limit of a user holds nevertheless. `NameInv` puts the
  names given out before the next one, in the order of major and minor
  number, so that the next is fresh also when the minor number starts again.

For `Keyring`, under `TimeAssumption`, with any number of conversations:

* `WritersAreAlone`: `Spec => []OneWriter`. As long as no lock file was deleted as
  stale, at most one server is between its lock and its unlock, and the lock file
  is its own, whoever crashes. The invariant `WriterInv` adds that a server
  that tries the lock again has deleted it before (`SecondTryStole`): the code
  deletes what it takes for a stale lock and creates its own in two calls, and
  without that conjunct the second call would look like a second writer. Each
  action is first reduced to where it moves its server (`Moves`); only then is
  the invariant opened.

For `Auth`, under `MechanismsAssumption` (a server allows mechanisms that `find_mech`
knows, no others), with any messages, sets of mechanisms and bounds:

* `WhoIsLetInHasProvedIt`: `Spec => []IdentityIsProved`. The invariant `AuthInv` says
  three things. Only tokens the client may say are on their way to the server, in
  its socket and in its buffer: the hash is among them only if the client can read
  the cookie (`Told`). As long as a server waits for a client to go on
  with a mechanism, or has let it in, that mechanism is allowed, and an identity
  was authorized only if it works (`Chosen`). And while a server waits for AUTH,
  nobody is authorized, with one exception that the shortage of memory makes
  necessary: a handler of AUTH that was stopped after it had authorized the user
  leaves that behind, without a mechanism, but then the same AUTH is still the
  first command in the buffer and runs again (`NotChosen`). One lemma per handler
  shows what it makes of the server (`Handled`), one what it leaves half done
  (`HalfLike`); the steps of the transport are reduced to what they do to one end
  (`StepKept`). The model's two-way choices of `ServerExternal` and
  `SendChallenge` are written in the order of the code's returns for that reason.

`TypesHold`, `RepliesTyped` and `WritersAreAlone` are stated of every constant, and
their invariants are not repeated by the runs. `IsFiniteSet`, `Cardinality` and
sequences are treated with the theorems of the library; the first lemmas of
`DispatchProofs` say of each operation on lists and queues which entries the
result has and that it repeats none.

Only model-checked:

* `ReportIsTrue`: `Babysitter` has no constants, so its run is already complete.
* `StreamIntact` and `DescriptorsAgreed`: they relate what both ends, both sockets
  and both buffers hold at once. Their invariant is a case for each pair of states
  the ends can be in, which TLC goes through.
* `RuleBooks`, `ExactDelivery`, `OptimizeNeverLoosens` and `KeysOutliveChallenges`: their models select from
  sequences with `SelectSeq` and folds, and what these compute is a matter of
  induction over data.
* Liveness under fairness, and whatever rests on `ENABLED`.

No module uses a recursive operator.

## 5. Findings and limitations

### 5.1 Findings

Two have a run that states what a text of the repository says and that TLC refutes;
of the two others a passing run shows that the code does, always, something else
than the text says.

* `RemoveMatch`: `bus_driver_handle_remove_match` queues its reply
  (`bus/driver.c:1046`) before it looks for the rule. When there is none, the error
  MatchRuleNotFound is sent in the same transaction, which is executed, not
  cancelled: the caller gets both a return and an error for one call.
* *The place in the queue* (`Registry`): a client that asks with REPLACE_EXISTING for a
  name whose owner does not allow it is put right behind the owner
  (`bus/services.c:857`, and 877 for one that waits already). The specification
  (`doc/dbus-specification.xml:3351` to 3364) has a newcomer appended and a waiter keep
  its place. `Asked` of `NameQueue` follows the code; that `ImplementsNameQueue` passes
  shows that each such request overtakes the clients that have waited longer.
* *The policy after a reload* (`Delivery`): a connection is judged by the policy of its
  Hello (`bus/connection.c:1364`), also after a reload, although
  `doc/dbus-daemon.1.in:49` says that policy changes take effect with SIGHUP. That
  `ExactDelivery` passes shows that deliveries follow the policies the
  connections have, not the configuration in force.
* `LostCall`: when a connection is lost the errors of all calls are queued, and the calls
  leave the hash at once (`dbus/dbus-connection.c:2285`). The dispatch looks
  for the call of an error in the hash (4547), finds none, and the call never ends,
  unless a thread blocks on it. With the calls left in the hash until their errors are
  dispatched, the property of this run holds.

`LostCall` is about what `NobodyForgotten` does not say. It says that the connection
knows a call that waits, or has already used its error up.

### 5.2 What the passing runs leave out, and why

The models take these steps; the runs restrict the constants or the properties so
that they say something about the rest.

* *A freed owner.* `restore_ownership` links an owner without a reference and then
  frees it (`bus/services.c:926`, 942, 950); with assertions it aborts when
  others wait. The model stops there, and the runs say nothing of what comes after.
* *Hello without memory.* A failure after `bus_connection_complete`
  (`bus/driver.c:295`, 301) leaves a client that is registered and has no name.
* *Descriptors.* A call rejected because its recipient takes no descriptors was
  recorded as expecting a reply (`bus/dispatch.c:122`): it is answered twice.
  Calls of `Replies` carry none.
* *Programs that cannot be started* are reported at once and again at the timeout
  (`bus/activation.c:2131`). `Activation` has no `fork` error; `Liveness` has it.
* *A held message that is rejected* fails the RequestName of the new owner, who owns
  the name nevertheless (`bus/activation.c:1198`). `Activation` has no denied
  pair; `Liveness` has one.
* *A cancelled request that joined an activation* drops the requests of the others
  (`bus/activation.c:1500`). `WaitingCallsArePending` speaks of the states before the
  first failing allocation.
* *A waiter that leaves or moves* has no hook and is not put back
  (`bus/services.c:1136`), so that after a failed allocation the queues may have moved by
  something that is no operation of `NameQueue`: `OperationsUntilShortage`.
* *A sender that hung up.* Its unfinished transaction is executed
  (`bus/dispatch.c:356`). With `"down"` in `OomIn` TLC finds a NameOwnerChanged for
  an owner that was never linked; `Activation` has `"up"` and `"daemon"` only.
* *Three silences*, recorded in `lost` of `PendingReplies`, from which its properties
  except themselves. A reply that is refused after `bus_connections_check_reply`
  took it off the list, or whose sender hung up when memory ran out, is discarded. A
  call that the recipient's policy denies sets no error (`bus/bus.c:1620` passes
  NULL). An error of the daemon to a client whose queue is full is dropped
  (`bus_transaction_send_from_driver`). No text of the repository promises
  otherwise.
* *The count of a user* stays too high when `bus_connection_complete` fails after
  counting (`bus/connection.c:1393`). `UserCountsExact` speaks of states in which
  memory has not run out.
* *A rule of an AddMatch that failed* for lack of memory stays (`bus/driver.c:1002`).
* *Two answers to one call.* When a timeout fires while the reply is on its way, both
  answers are queued. The dispatch completes the call with the first. A thread that has
  just begun to block on the call has tested that before, finds the second answer in
  the queue and completes the call again (`dbus/dbus-connection.c:2316`; with
  assertions, `dbus/dbus-pending-call.c:189` aborts). The model counts completions; no
  property bounds them.
* *A message nobody looks after.* A thread that sends while another has the I/O path
  returns without an iteration of the transport (`dbus/dbus-connection.c:1197`), and
  the other need not look at the queue: the handler of the read watch does not, nor
  does an iteration that finds its reply (1211). `check_write_watch`, which the comment
  at `dbus/dbus-transport-socket.c:1182` says must always be called, is not, and the
  message waits until somebody writes something else. A thread that blocks on the reply
  writes it itself.
* *`disconnect_message_link`* may be taken by two threads
  (`dbus/dbus-connection.c:4154`): the second follows a NULL pointer. The model
  stops that thread (`crashed`).
* *The lock of the cookie file* may be deleted by two waiters one after the other,
  the second time when it belongs to the first (`dbus/dbus-keyring.c:225`); unlocking
  deletes whoever's lock is there (247); a file that is full drops keys (477).
  Hence the history variable `stolen`, and `OneWriter` and
  `KeysOutliveChallenges` are about states before the first such deletion, the
  second also about files that are not full.
* *Memory in the authentication.* `StreamIntact` is stated for conversations in which
  memory did not run out.
* *The babysitter.* CHILD_EXITED resets the errno of a failed exec to 0
  (`dbus/dbus-spawn.c:423`), so that the message ends in "Success". `kill_child`
  may kill a pid that was reaped before (619). `get_child_exited` closes descriptors
  whose watches the main loop then has to drop by itself, in spite of the comment
  at 777. A watch that the poll found ready is called back even if the callback
  before has read its end empty, and then the whole daemon waits in `read` until the
  babysitter's next report or end; it happens after a failed exec, whose status
  follows at once. When the pipe for SIGCHLD cannot be made, a program that runs is
  reported as ended.

## 6. Not modelled, and the plan

Done: names, transactions, activation; replies between clients; admission and
limits; policy, match rules and delivery; threads and calls in the library;
authentication; the keyring; the babysitter.

Still without a model, in the order of what they would add:

1. Shared connections of `dbus/dbus-bus.c`: the table, its lock, `atexit` and a
   second thread.
2. The object tree, against a reference definition of the closest handler.
3. The message loader and data slots.
4. Directory watches and reloads that are missed between a change and its watch.
5. Systemd activation, and the methods of the driver that only read.

Outside TLC's reach, or pure input and output: the configuration parser,
marshalling and validation of messages, SELinux, `.service` file parsing, the
setuid launch helper, and the system dependent code. The scripts under `src/AHK`,
`src/Javascript`, `src/QC`, `src/WS` and `src/Python` drive other programs and
keep no state worth a model. For that reason most of the repository's lines have
no counterpart here: byte-level encoding, containers, two platforms' system
calls, tests inside the source files, and copies of a file such as
`bus/config-parser(1).c`.
