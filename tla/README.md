# Ceylon in TLA+

Ceylon is a multi-agent framework: agents written in Python (or Rust) run on a
Rust core that connects them over libp2p. One agent is the *admin*: it listens,
serves as the rendezvous point and relays messages. The others are *clients*
that dial it. This directory holds TLA+ modules of the core, the TLC instances
that check them and machine-checked proofs about them.

Paths below are relative to the repository. `uniffied_agent.rs` is
`libs/ceylon-core/src/workspace/uniffied_agent.rs`, `node.rs` is
`libs/sangedama/src/peer/node/node.rs`.

## 1. The system

| Component | State | Operations | Talks to |
|---|---|---|---|
| Agent runtime (`uniffied_agent.rs`) | broadcast channel, `_connected_agents`, cancel token, registration token, five tasks | `broadcast`, `send_direct`, `start`, `run`, `stop`; handlers for messages, introductions, acknowledgements and Subscribe events | the peer through two bounded channels; the application through callbacks |
| Peer node (`node.rs`) | swarm, `inside_rx`, `outside_tx`, `connected_peers` | event loop: swarm events, publishing, cancellation | agent runtime (channels), libp2p (gossipsub, rendezvous) |
| Messages (`message.rs`, `data.rs`) | none | encode, decode | runtime, peer |
| Behaviour and swarm (`peer.rs`, `peer_swarm.rs`) | libp2p's | construction only | libp2p |
| Configuration file (`uniffied_agent.rs:50-102`, `327-344`) | `.ceylon_network`, shared by the agents of a directory | the admin writes it in `new`, every agent reads it in `run` | runtime |
| Python dispatch (`bindings/ceylon/ceylon/base`) | handler tables per class and per instance | `on`, `on_run`, `on_connect`; `common_on_message`, `common_on_run`, `common_on_agent_connected` | callbacks of the runtime |
| Example applications (`bindings/ceylon/examples`) | bids, tasks, slots | their handlers | dispatch |

How a message travels. `broadcast` puts it into the agent's broadcast channel
and `task_broadcast` (here: the *forwarder*) moves it into the peer's `inside`
channel. The peer's loop publishes it with gossipsub. At the other end the
peer's loop puts what arrives into `outside`, `task_peer_listener` (the
*listener*) takes it from there and dispatches it: a user message becomes
an `on_message` call, an introduction is recorded and acknowledged and becomes
an `on_agent_connected` call, an acknowledgement cancels the registration token.
A Subscribe event makes the admin introduce itself once and a client start a
loop that introduces it every 100 ms until the token is cancelled.

What makes it hard:

* the channels are bounded and form a cycle, because the listener sends into
  `inside` while the peer sends into `outside`, each inside its own `select!`;
* cancellation ends tasks one after the other, and sends into a channel whose
  receiver is gone are unwrapped;
* a peer whose port is taken or that receives what it cannot decode panics, and the
  agent goes on without it, its sends panicking one by one;
* the handshake has no identity check on acknowledgements, repeats its messages,
  and everything may be lost or overtaken;
* connections close without anyone dialling again;
* a call of `start` runs several agents on one runtime and drops it while their
  tasks are in the middle of something, and agents share mutexes and a file;
* handlers of an application run concurrently, and an exception of one is
  swallowed while the others go on.

What makes each part correct:

* *runtime and peer*: accepted messages go out in order, each at most once, and
  none is lost while the agent and its peer run; a task panics only when its peer is
  over or at data that does not decode, never because a channel is full; after a stop
  no backlog of events is worked through; every task ends;
* *handshake*: acknowledgements are true; a client does not fall silent unless the
  admin knows it; it does become known; introductions cease;
* *lifecycle*: `stop` stops the agent it is called on; `start` returns when it
  should;
* *configuration*: an agent joins the network it was configured for;
* *dispatch*: the handlers a class declares are called, once each; one event is
  handled before the next, and nothing is left of it after the end of `start`.

The hazards are listed with their lines in `PROJECT.json`.

## 2. Modules

| Module | What it is |
|---|---|
| `AgentNode` | one running agent: forwarder, peer, listener, introduction loops, cancellation |
| `FifoPipe` | abstract specification: the order in which accepted messages reach the network |
| `Registration` | the admin and its clients: connection, subscription, introductions, acknowledgements |
| `Roster` | abstract specification: who knows whom, which clients are to stop introducing themselves, and who may be forgotten |
| `NetworkConfig` | an agent's configuration and `.ceylon_network`: writing, reading, merging |
| `Lifecycle` | agents from `new` to the end of `start`, over `NetworkConfig` |
| `Dispatch` | how events become calls of an application's handlers |
| `Callbacks` | abstract specification: when events are handled, and what is left of one that failed |
| `MCAgentNode`, `MCRegistration`, `MCLifecycle`, `MCDispatch` | instances for TLC |
| `AgentNodeProofs`, `AgentPipeProofs`, `RegistrationProofs`, `LifecycleProofs`, `LifecycleFileProofs`, `DispatchProofs`, `DispatchCallProofs` | theorems and proofs |
| `Iteration` | induction over the natural numbers and iterated functions, for the proofs |

`AgentNode` refines `FifoPipe`, `Registration` refines `Roster`, `Dispatch` refines `Callbacks`. `Registration` puts several agents together, each
with its listener's handlers in one step; `Lifecycle` looks at whole tasks, whose
inside is `AgentNode`; `Dispatch` is what is behind `AgentNode`'s
`CallbackReturn` when the application is a Python agent.

### AgentNode

A task is a program counter whose values are its await points; between two
awaits a task is one action. The guard of a send is the room in the channel or
its being closed.

| Code | Model |
|---|---|
| broadcast channel, `inside`, `outside` | sequences `bcast`, `inside`, `outside` |
| `task_broadcast` | `forwarder`, `fwdMsg`; `FwdTake`, `FwdSend`, `FwdStop` |
| `peer.run` in `task_peer` | `peer`, `peerEvent`; `PeerStart` (or `PeerCannotStart`: the `unwrap()` of `listen_on` and `dial`), `PeerReceive` (or `PeerCannotDecode`), `PeerForward`, `PeerPublish`, `PeerStop` |
| `task_peer_listener` | `listener`, `event`; `LisTake`, `LisStop`, `Handle...`, `LisSend`, `Callback...` |
| the spawned introduction loop | `loop[p]`; `LoopCheck`, `LoopSend` |
| `cancel_token`, registration token | `cancelled`, `registered` |
| `_connected_agents` | `connected` |

`wire`, `refused`, `poisoned`, `lateCalls`, `lateIntros` are history; `announced` and
`arrivals` describe the environment. A user message is the number of its
acceptance; an introduction or acknowledgement in `inside` is `Control`. A
listener that ends or panics drops what is left in `outside`, a peer that ends or
panics drops `inside`; the receiver of the broadcast channel lives in the agent and
survives the forwarder. A publish may be refused (gossipsub returns an error,
which `node.rs:230` logs).

A panic ends its own task only: the `JoinHandle` keeps it and the agent is not
cancelled. There are three causes from outside. `listen_on` or `dial` fails
(`node.rs:143`, `:161`: an admin's port may be taken). Data on the topic is no
`NodeMessage` (`data.rs:42`, called at `node.rs:265` and `:295`), which ends the peer.
Or the payload of one is no `AgentMessage` (`message.rs:48`, called at
`uniffied_agent.rs:418`), which ends the listener: the event of kind `malformed`. Every
other panic follows from these or from a stop: a send into a peer that is over is
unwrapped.

Left out here: the payloads and times of messages; direct messages to somebody
else, which the peer filters; `connected_peers`, which nothing reads; the processor
and the run-holder task, which share nothing with these tasks but the token.

### Registration

A client goes from `dialing` (`node.rs:157-161`) over `registering`
(`:178`), `served` (the admin's PeerRegistered, `:364-374`) to `registered`
(`:347-362`), or `down` once its connection closes (`Disconnect`) or its dial fails
(`DialFails`, the event that ends in the `other` branch of `:199`). A listener handles an event in one step
together with what its handler publishes, so that an inbox stands for everything
between two listeners: the channels of `AgentNode` and the network. An inbox is a
set: equal messages under way at the same time are one element, so the model says
whether a message is there, not how often (in the code each carries a timestamp, so
gossipsub does not merge them). Messages overtake one another.

The topology is a star: a client dials nobody but the admin. So what a
client publishes reaches another client only if the admin's gossipsub has it,
which hands it to the admin's own listener as well (`Receivers`). A client's
connection to the admin carries the admin's subscription before anything else,
hence the guard `CanReceive`. In the other direction a client may be heard before its
own Subscribe event, because gossipsub publishes to all known peers of a topic.

An acknowledgement that reaches the admin only cancels a token nobody reads there,
and is not kept.

A panic of a peer or a listener is not in this module: to the others it is a
connection that closes, or a node that answers nothing more. What it says of progress is said of
agents whose tasks run.

`Roster` has no messages and no connections. In it a client gets *through* when its
introduction reaches the admin's inbox, a node learns of the admin and of clients that
are through or lost, and a client falls silent once somebody else has learned of
somebody. A client that is *lost*, without a connection, may be forgotten and may return: the code
does neither (`RegLinkLost`), but the documents say both, and the promise leaves room for
code that does. Who has a connection is never forgotten. The refinement maps `known` to
`connected`, `through` to the clients that the admin has recorded or whose introduction is in its
inbox, `lost` to those whose link is down, and `silent` to those whose registration token is cancelled.

### NetworkConfig and Lifecycle

The file is a function from the keys it has lines for to values; a missing file
and a truncated one are the empty function. A configuration gives every key a
value or `None`. `update_from_file` is `Updated`, `write_to_file` is `Writable`
(what it unwraps) and `Written`, and its `fs::write` into a file that is no longer empty is
`Overwritten`; `new_admin` and `new_member` are `Listens`,
`Dials` and `Dialable` (what `new_member` unwraps).

| Code | Model |
|---|---|
| `UnifiedAgent::new` | `NewClient`; `NewAdmin` truncates the file, `WriteFile` fills it (`fs::write` does the two one after the other, under no lock, so that the constructors of two admins may overlap) |
| a call of `start` | a session `s`: `owner`, `pc`, `todo` |
| `run` of the owner, then of each worker | `RunNext`, one agent a step; a panic ends the session |
| `task_peer`, `task_peer_listener`, `run_holder_process` | the task `<<a, "node", "on">>`, as they end by the same token |
| `task_processor`, `task_broadcast`, `task_shutdown` | tasks that wait for a lock, hold it, and for the processor poll the token: `Acquire`, `UserReturns`, `TaskPanics`, `SeesCancel`, `ShutdownMessage` |
| the select at the end of `start` | `Return`, `CtrlC` |
| the runtime, dropped when `start` is left | `End`: `live[s]` becomes empty |
| `_cancel_token`, `stop` | `token[a]`, `Stop` |

A session runs everything under its *owner's* token. Mutexes belong to agents, so
`Free` looks at the tasks of all sessions. An agent may own one session and be a worker in
another, or be started twice.

Two constructors that overlap each write from the beginning of the file, and the end
of the longer text stays. `Overwritten` gives what is then read back: the new lines,
with some of the old ones after them, and the line at the seam glued to what it cut
through (`Glued`); of two lines for a key the later counts. The lines are in any
order, that of a `HashMap`, so each key may be at the seam. `overlapped` is
history: that this has happened. `TaskPanics` is what becomes of a forwarder whose peer
has panicked, or of an application's `run` that panics: the task ends and its lock is free. The
task "node" stays when the peer or the listener in it panics, as `run_holder_process` does.

Nothing is assumed of the configurations agents are given, or of the file that was
there before: the code checks neither. The address that an admin writes may not
parse, and a file may lack any line, as the one that
`docs/examples/connect-through-network.md:68-72` shows lacks `WORKSPACE_PEER`. An admin
reads the file in `run` as a client does.

Taken as given: a worker is another agent than the owner and is listed once; reading
and writing the file do not fail. `start` itself is
awaited to its end and outside a tokio runtime, as the generated binding does. Ctrl-C may reach
one session and not another, which may be in another process.

### Dispatch

A program is the agent's classes in `__mro__` order and its decorated methods and
functions in the order of decoration. `ClassTable` and `OwnTable` are the dicts the
decorators fill (`Dict`): keys keep their place, a later value replaces an earlier one. Methods are
stored under the first part of `__qualname__` (`Scope`) and looked up by
`__name__` (`Name`).

| Code | Model |
|---|---|
| `on`, `on_run`, `on_connect`, module level and of an agent | `Put`, `ClassTable`, `OwnTable` |
| `_matches_pattern`; the loops over tables | `_matches_pattern`, `Applies`, `Picked` |
| `onmessage_handler`, `onrun_handler`, `onconnect_handler` | `Found`, `ClassChain` |
| `common_on_message`, `common_on_agent_connected`, `common_on_run` | `Chains`, `Rejected`, `Begin`, `GatherReturns` |
| the listener's and the processor's calls | `Receive` (when no other message or connection is awaited), `Run` (once) |
| a handler under way | a record in `live` whose `rest` is what is left of its chain; `HandlerReturns`, `HandlerRaises` |
| the end of `start` | `Stop`: callbacks that are awaited are cancelled with the handlers of their gather, unless that gather is over |

`Callbacks` has neither tables nor chains. An event is taken, may fail while it is handled or
when it is left behind, and is finished with; only one that failed stays *loose*, with
handlers at work. The refinement maps `handled` to `awaited`, `failed` to the events in `raised`, and
`loose` to the events in `live` that are not awaited.

Left out: the arguments of handlers (`has_param`); `print` and logging. Taken as
given: decorators run before the agent starts, and handlers do not swallow a
cancellation. Malformed patterns (two colons) and bytes that do not unpickle are
inputs: they raise, some before anything is called (`Rejected`), some in a chain.

## 3. Runs

| Run | Instance | Shows |
|---|---|---|
| `NodeAdmin` | admin, 2 interchangeable clients, channels of 1, callbacks that send, 3 messages, 3 events | types; no message reordered or repeated, and none lost while agent and peer run; no panic without a stop or a panic with a cause outside; at most one late callback; the ways in which all tasks can stand still; the wedge ends only by a stop |
| `NodeClient` | client, channels of 1, 1 message, 4 events, fairness | the loop sends at most one introduction too many; no panic without its cause; accepted messages get out unless the agent is stopped, cut off or wedged; a stop ends every task |
| `NodeShutdown` | client, channels of 1, 2 messages, 2 events | **violated**: the forwarder ends cleanly |
| `RegOne` | 1 client, lossy, closing links, fairness | it stops only when known; it becomes known; introductions cease; every step, that of a lost connection too, is one of `Roster` |
| `RegTwo` | 2 interchangeable clients, nothing lost | types; true acknowledgements; nobody gives up unacknowledged; nobody is known behind the admin's back; a client the admin will not learn of was silenced by the other; when all is settled a client knows the admin; every step is one of `Roster` |
| `RegLockedOut` | the same | **violated**: a client stops only when the admin knows it |
| `RegRepeated` | 1 client, nothing lost | **violated**: `on_agent_connected` is called for new agents only |
| `RegLinkLost` | 1 client, nothing lost, closing links, fairness | **violated**: a known client whose connection closes is connected again or taken off the list |
| `LifeNetwork` | 2 admins that may be constructed at once, one of them perhaps without a port and the other with an address that does not parse; 1 client; 1 session with up to 1 worker; a complete leftover file, the documents' one or none; fairness | types; the client joins the admin that starts it; it dials what one file says, unless two writes overlapped; a written file is enough, but for its address; a cancelled session ends |
| `LifeTeams` | 1 admin, 1 client, 2 sessions without workers, fairness | no cancelled session waits on a circle of locks; `start` returns for a cancellation only, and then it does |
| `LifeWorkerStop` | 1 admin, 1 client, 1 session with up to 1 worker, fairness | **violated**: an agent that is stopped ends |
| `Dispatch` | 5 programs, up to 3 events, fairness | types; handlers overlap only after a failure; the handlers due are called, once each; every step is one of `Callbacks`; the listener moves on |

Bounds, and why they suffice. `PeerBuffer = BroadcastBuffer = 1` is the
smallest capacity at which channels can be full and therefore the one at which tasks
wait for each other soonest; the theorems hold for every capacity. Three
messages are one for each place a message can be queued, plus the forwarder's
hand, once the first has moved on; three events fill the listener's hand, `outside` and the peer's
hand, which is the wedge. A client hears nothing before the Subscribe event of the admin, so that
`NodeClient` needs four: that one, and three for the wedge, which one message and the introduction loop complete from
the other side. `MaxMsgs` bounds `accepted`, `MaxArrivals` bounds `arrivals`;
no other quantity grows. Two clients are enough for one to be acknowledged in the
other's place. `RegTwo` loses nothing and no connection closes in it, because with either the space is too large; the
theorems cover both, and any number of clients.

`SomeTails` bounds the ways in which a longer file ends that is written over: at the end of
a line, or with two lines left of which one is whole. `Sessions` and `MaxTeam` bound the calls of `start` and their teams. One session with
one worker and two admins is enough for the file to change between any two steps
of `start`; two sessions of the same agent are enough for one to wait for the other's locks.
Both at once is too large a space; the safety theorems cover it, with any teams. The configurations
given differ in every key, so that a mixture shows. `MaxEvents = 3` is two messages or
connections, of which one can overtake the other, and a run beside them. The five
programs are a class that overrides its base's methods, one sharing its name with
another class, one defined in a function, one with a malformed pattern on a
method and one with a malformed pattern on a function.

Deadlock is not checked, since every system here may come to rest: an agent when it is stopped,
or when the bounds are used up; the handshake when all is said; a program when its sessions are over or its events handled.

What the violated runs show:

* `NodeShutdown`: `task_broadcast` awaits its send inside the branch of its
  `select!`. If the token is cancelled then, the peer is dropped and the send's
  `unwrap()` panics (`uniffied_agent.rs:554`). The comment at `:541` says "Spawn
  broadcast handler with proper cancellation".
* `RegLockedOut`: acknowledgements are broadcast, and one that names somebody else
  cancels a client's introductions all the same (`:468-473`). If it is handled
  before the client's loop is first polled the client never sends one
  introduction. `bindings/ceylon/examples/auction/single_item_auction.md:46` says
  "The Auctioneer waits for all Bidders to connect."
* `RegRepeated`: `docs/tutorials.md:20` describes the callback with "Handle
  new agent connections"; each repeated introduction calls it.
* `RegLinkLost`: `docs/technology.md:31` lists "Automatic reconnection", and
  `docs/examples/connect-through-network.md:172-174` has "Update connected agents" follow
  a disconnect. A closed connection is only logged (`node.rs:193-195`), `run` dials once, before its loop, and
  nothing ever removes an entry of `_connected_agents`. A dial that fails at first is not repeated either.
* `LifeWorkerStop`: `docs/core-concepts.md:277-279` stops workers one by one before
  the admin. A worker's tasks were spawned under the admin's token
  (`uniffied_agent.rs:246`, `:258-261`); its own token, which `stop` cancels, is watched by nobody.

Two behaviours of `Dispatch` appear as conditions of its properties. `CallsWhatIsDue` speaks
of programs whose classes have names of their own at module level (`WellNamed`): two
classes of one name share table entries, and a class inside a function is never
found, because its methods are stored under the function's name. And every statement about
overlap says "only after a failure": once one handler of an event raises, its other handlers go on beside those of the next event
and after `start`.

The wedge is not a finding, since no document excludes it, but it is what a user of
small buffers will meet. The peer waits in `outside_tx.send` while the listener waits
in `inside_tx.send`; neither serves its other channel meanwhile.
`WedgeOnlyEndsByStop` shows that nothing inside the agent resolves it and
`AcceptedIsHandled` that there is no other way to get stuck while the peer lives. `StandstillExplained` says of
every state, without fairness, what it means that no task can move. The agent is at rest, with nothing in any
hand or channel (its listener may have panicked). Or it is in the wedge. Or it is cut off: its peer has panicked and every
sender is idle or has panicked too. Or a stop has ended everything; or everything but a listener whose
callback broadcasts into a full channel, which can happen to one that is cut off as well. The last is there because the receiving end of
that channel is kept in the agent (`uniffied_agent.rs:197-225`), so that the send waits
instead of failing. `Standstill` is written out with the tasks' guards, so that it can be reasoned
about.

The file is the weakest joint. `WorkersJoinTheirAdmin`, `WholeTarget` and `AdvertSuffices` state their exceptions,
and TLC reaches each of them:

* Another admin of the directory: its constructor replaces the file, whose readers follow it. An admin reads it too
  and then listens on the other's port. The constructor writes `.ceylon_network` whatever `config_path` its agent was given
  (`uniffied_agent.rs:164-169`).
* Two constructors at once may leave a mixture, by which a client dials one admin's id with another's
  port or topic.
* An `admin_ip` that does not parse is written as it was given (`:94`), and every client that reads it panics
  (`node.rs:66`).
* A client that was given no `admin_peer` and finds the file the documents show panics at
  `uniffied_agent.rs:360`, since that file does not name an admin. One that was given an id keeps
  it and takes the rest from the file, which is what `WholeTarget` allows.

What is right about the handshake is said beside what is wrong: `RegLockedOut` shows that two clients
can silence one another, and `LockedOutByAnother` that this is the only way for a
connected client to fall silent unknown: no lost message and no order of events does it alone.
`SettledIsKnown` says how it ends. The admin introduces itself to a subscriber once, and not at
all to one it has recorded already. Still, once nothing is under way, a client with both subscriptions handled is known to the
admin; or another was answered in its place, and then it knows the admin at least, unless the
network lost that one introduction. That a client which is known itself may never
list the admin is not excluded: no document promises it.

## 4. Fairness

`AgentNode`: weak fairness for a task that can take a step and keeps
being able to, because tokio polls woken tasks. Strong fairness for a send into a shared bounded channel:
its waiters are served in the order of arrival, so a sender that is
passed over now is served later. `select!` chooses at random between ready
branches, which gives the peer both publishing and stopping their turn. `CallbackReturn` is fair by assumption on the application.
A peer gets past its start one way or the other (`PeerStart \/ PeerCannotStart`), and which way is open.
`NodeClient` has callbacks that do not send: after a stop a callback that
broadcasts into a full channel waits for ever, as the forwarder has gone and the
receiver has not. There is no fairness on `AppBroadcast`, `Cancel`, `PeerReceive` and `PeerCannotDecode`.

`Registration`: weak fairness for connecting, being served, being registered, hearing,
and the loop; the network is fair-lossy, so strong fairness says that of introductions sent again
and again some reach the admin and some of its acknowledgements come
back. Disconnections are never forced, and the liveness properties exempt a client
whose link is down, but for `LossIsRepaired`, which is about it. Nothing brings a link up again, in the code or by fairness.

`Lifecycle`: weak fairness for the progress of `start` and for tasks that can see
a cancellation, as tokio polls them; strong fairness for tasks waiting for a
lock, since tokio's mutex serves its waiters in order. *Nothing* makes an application's
run return, a task panic, an application stop an agent or a Ctrl-C arrive.

`Dispatch`: the event loop is fair. Handlers of messages and connections end, which is an
assumption on the application; a run need not. Nothing makes an event come or the agent stop.

## 5. Proofs

All theorems hold for every value of the constants that satisfies the named assumptions
`NodeAssumption` (capacities at least one, bounds natural, finitely many peers),
`RegistrationAssumption` (the admin is not a client), `LifecycleAssumption` (no agent is
both admin and client), `ConfigAssumption` (an admin's own id and "127.0.0.1" parse, a configuration's port is a number if it is
there; nothing about addresses that were given or files that were there) and `DispatchAssumption` (events and handlers are messages, connections or runs; classes, methods and functions come
in sequences; a class is once in its `__mro__`, as Python guarantees, and a handler names one decoration of one place).

* `AgentNodeProofs`. `TypeInv` is `TypeOK`, plus what each program
  counter says of the message or event in a task's hands, plus the budget of messages that
  `AppBroadcast` leaves for a callback that is already sending; it is inductive,
  and `TypeOK` alone is not. `PanicInv` adds that a task is done only after the cancellation, and
  that a panicked sender has outlived its peer, or is a listener that met a malformed payload.
  `LateInv` ties `lateCalls` to whether the listener still has an
  event taken before the cancellation: once that is used, its next look ends it.
  `IntroInv` counts: the late introductions and the loops asleep with one in hand
  are together no more than the peers. `StandstillSafety` goes through the tasks: before the
  cancellation each one that stands still waits for room in a channel whose reader waits too, which
  closes the circle, or has nothing to do, or `PanicInv` says what has cut it off; after it `PanicInv` says what has ended.
  `StoppedForGood` says that nothing from outside, the only thing that moves at a standstill, wakes a stopped
  agent's tasks. `WedgeIsPermanent` needs no invariant beyond the types: no task other than the stuck ones can touch
  the two full channels.
* `AgentPipeProofs`. `OrderInv` says that message numbers increase along `wire`,
  `inside`, the forwarder's hand and `bcast`, in this order. Then every step is a step of `FifoPipe` or a
  stutter (`Refinement`). `Held`, the set of messages somewhere in the agent,
  never shrinks while the agent and its peer run, whichever other task panics (`Lossless`).
* `RegistrationProofs`. `MessageInv` (a message in an inbox was sent by another
  node, an introduction is about its sender, an acknowledgement is about somebody else and
  true) gives `AckSafety`. `TryingInv` adds to `KeepsTrying` that a client knows nobody before it
  has handled the admin's subscription.
  `ThroughInv` says that a client that another client knows, or has an introduction of, is known to the
  admin, about to be, or has lost its connection (`OnItsWay`). `OnItsWay` is never lost again: a closing connection
  takes messages of that client alone out of the admin's inbox. From the two, an acknowledgement that
  a client receives is about itself, and then it is on its way, or about another node that
  somebody else has recorded; this is what `LockedInv` keeps for cancelled tokens and
  `LockedOutSafety` concludes. With one client nobody else is left (`SingleClientSafety`), with two
  `StopsOnlyWhenKnown` is not an invariant, as `RegLockedOut` shows.
  `NoticedInv` says of a client whose subscription the admin has handled that the admin knows it, or that it knows the
  admin or has the introduction in its inbox, unless the network loses messages: the inbox is emptied only by
  handling it or by a closing link. With `LockedInv` this gives `SettledSafety`.
  `RosterRefinement` maps each action. Handling an introduction keeps its client through (`HandlingKeeps`) and is `Learn`, with
  `OnItsWay` for its guard; sending one lets at most its own client through (`SendingThrough`); a connection that
  closes takes at most its own client out (`LossOfOne`) and is `Lose`; handling an
  acknowledgement is `FallSilent`, whose guard is `MessageInv`.
* `LifecycleProofs`. `SessionInv` says what a session has in each place: no tasks before and after; the
  owner's own node while it waits, and its shutdown task, unless its token is cancelled. Hence neither
  branch of the select can be reached without a cancellation, which gives
  `ReturnsOnlyWhenCancelled`, itself not inductive.
  `LockInv` says that a mutex has one holder among all sessions and that a shutdown task is its owner's.
  So whoever holds the lock that a cancelled `start` waits for is a session of the same owner, sees the
  same token, and can move: `NoLockCircle`, the part of `StartReturns` that is about locks.
* `LifecycleFileProofs`. `FileInv` has three parts. `OneWriter`: unless constructors overlapped, the file is empty, was
  there before, or is what one admin wrote, and only one admin is writing; and of an admin that is alone the file
  is its own. `BuiltInv`: what a session runs has been constructed, so that its configuration stays. `ReadInv`: a
  session of an admin that is alone has found that admin's file. The lemmas about the operators say that a file
  with every line replaces what its reader had, that an empty one changes nothing, and that what an admin writes has
  every line. From it: whom workers dial, that targets are whole, and the one reason for a panic at a written file.
* `DispatchProofs`. `WorkInv` says that handlers at work belong to an event that is still
  awaited or of which one failed, and that no message or connection comes after one that is awaited.
  `OverlapSafety` follows, and so does `CallbacksRefinement`: a lemma for each step says which step of `Callbacks` it is.
  A handler that raises may have been the last of an event left behind, hence the choice in `Fail`; a
  handler that returns is a stutter unless it was that (`ReturnStep`).
* `DispatchCallProofs`. The operators first, for every sequence: `DictFacts` says that a dict
  holds the last entry for each key, `FlattenFacts` what a concatenation contains, and
  `ClassChainFacts` that the chain found along the `__mro__` consists of `DueMethods`, each once,
  if class names are plain. Then the steps: `CallInv` says of every chain that what was called is its
  first part, that the task at work on it holds the rest, and that a chain without a
  task was called to the end, raised, was cancelled, or its event is in `cut`. It holds for every program (`CallInvSafety`), and
  with `ClassChainFacts` it gives `CallsWhatIsDue` (`CallSafety`).
* `Iteration`. `Dict` and `FlattenSeq` are recursive functions, so their facts need induction, and
  the library's induction theorems take an operator, which the provers cannot instantiate. The lemma `Induction` is stated of a
  set instead: strict inclusion is well-founded on finite sets (`FS_StrictSubsetOrderingWellFounded`),
  a number stands for `0..n`, and `WFMin` gives a least counterexample. `Iterates`
  shows that the recursive function exists.

Only model-checked:

* the liveness properties `AcceptedIsHandled`, `StopEndsTasks`, `EventuallyKnown`, `IntroductionsCease`,
  `StartReturns` and `ListenerMovesOn`, since fairness is out of the prover's reach. What they need besides
  fairness is proved for three of them: `StandstillSafety` and `StoppedForGood` (`StopEndsTasks`), `SettledSafety`
  (`EventuallyKnown`), `NoLockCircle` (`StartReturns`). For `ListenerMovesOn` there is nothing to
  prove: either a handler of an event is at work, or its gather may return.

Every other property of a passing run is a theorem.

## 6. Not modelled, and plan

Not modelled, and why:

* libp2p itself, of which the modules keep what the settings of `peer.rs` allow
  (loss, reordering, a star topology);
* the JSON and pickle encodings, which round-trip, the generated bindings and logging;
* `connected_peers`, the admin's roster, which nothing reads; the time stamps of messages,
  on which nothing depends; `utils/env.rs`, which nothing calls;
* `libs/sangedama/src/main.rs` and the other demo programs;
* the example applications: programs against the framework, whose
  reliance on it is stated of the framework itself (repeated or missing
  connections in `Registration`, overlapping handlers in `Dispatch`).

Open, in order:

1. A promise of `Lifecycle` in the manner of `Callbacks`: a `start` is begun, runs, and ends for one of three
   reasons, whatever its tasks do. `ReturnsOnlyWhenCancelled` and `StartReturns` say the most of it now.
2. `Lifecycle` with restarts of the whole program between sessions, the leftover file being the
   one an earlier run of the model wrote.
