# A TLA+ model of orcs-cli

orcs-cli is a Rust runtime that lets several *components* (most of them Lua
scripts, some of which call language models) work side by side under the eye of
one user. Every component runs in an event loop of its own, bound to a *channel*;
the channels form a tree; the user steers the whole with signals (veto, cancel,
pause, approve, reject) that must get through even to a component that is busy.

This directory models that machinery in TLA+, checks it with TLC on small
instances, and proves the properties of its core for instances of any size with
TLAPS. File names below are relative to `src/crates/`; `runtime/` stands for
`orcs-runtime/src/`.

## 1. Inventory

### 1.1 Components, their state, their operations

| Component | State | Operations that change it |
|---|---|---|
| **World** (`runtime/channel/world.rs`, `channel.rs`, `config.rs`) | the tree of channels: state, parent, children, cached ancestor path, capped configuration, principal | `create_channel`, `spawn_with(_id)`, `kill`, `complete`, `pause`, `resume`, `await_approval`, `resolve_approval`, `abort` |
| **WorldManager** (`runtime/channel/manager.rs`, `command.rs`) | a bounded queue of commands, each with a one-shot reply | one handler per command; the loop ends at `Shutdown` or with the last sender |
| **ChannelRunner** (`runtime/channel/runner/base.rs`, `common.rs`, `paused_queue.rs`) | the loop's position, a queue of events held back by a pause, the pending approval, granted patterns | the biased `select!`, `handle_signal`, `handle_event`, `handle_rpc_request`, `drain_paused_queue`, `handle_approval_resolved`, shutdown |
| **Interrupting a request** (`orcs-component/src/interrupt.rs`, `orcs-lua/src/kill_flag.rs`, `orcs-lua/src/component.rs`) | interrupt flag and wake-up permit, kill flag, cancel token, one bridge task per request | the veto-watcher task, the bridge, `on_request`, `on_signal`, `shutdown` of `LuaComponent` |
| **OrcsEngine** (`runtime/engine/engine.rs`) | tables of channel handles, of names and of runner tasks; the exit monitor | registration, `spawn_runner_*`, `start`, `stop`, `signal`, `shutdown_parallel`, the monitor |
| **EventBus** (`runtime/engine/eventbus.rs`) | two shared maps, channel to handle and name to channel | `register_channel`, `register_component`, `unregister_channel`, `broadcast` |
| **ChildContext** (`runtime/channel/runner/child_context.rs`) | the same two maps, from inside a runner | `spawn_runner_from_script`, the wrapper of a spawned runner, `rpc`, `request_stop` |
| **agent_mgr**, the supervisor (`orcs-app/builtins/agent_mgr.lua`) | names it manages, restarts counted in a window | spawns its concierge at `init`, restarts it on `runner_exited` |
| **RPC** (`runtime/channel/runner/rpc.rs`, `emitter.rs`) | requests in flight with a one-shot reply | resolve a name, send, wait with a time limit |
| **ChildSpawner** (`runtime/channel/runner/child_spawner.rs`, `orcs-lua/src/child.rs`) | at most 64 children per runner, a mutex for the table and one for each child | `spawn_child`, `send_to_child`, `send_to_child_async`, `send_to_children_batch`, `propagate_signal`, `abort_all`, `reap_finished` |
| **ClientRunner**, IO bridge, console (`runtime/channel/runner/client.rs`, `runtime/components/io_bridge.rs`, `runtime/io/`) | the pending approval shown to the user, input and output queues | parsing of input into signals and events, display of output |
| **Authorisation** (`orcs-auth/src/`, `runtime/auth/`, `runtime/sandbox.rs`, `orcs-lua/src/tool_registry.rs`) | grant stores (one shared by elevated components, one for each of the others), allowed paths | `grant`, `is_granted`, `list_grants`, `restore_grants`, `allow_path`, the gates of tools, commands and paths |
| **Tool loop** (`orcs-lua/src/llm_command/`) | conversations by session, the turns used, the call a request was suspended at | `orcs.llm`: ask, dispatch intents, suspend, resume, truncate, retry |
| **Hooks** (`orcs-hook/src/`) | a sorted list of hooks | `register`, `unregister`, `dispatch` |
| **Sessions and snapshots** (`runtime/session/`, `orcs-app/src/app/`) | one file for each session and its temporary name; the asset in memory; the state of every component | `save`, `load`, `delete`; resume, pause, quit; `snapshot`, `restore`, `init` |
| **Board, configuration** | a ring of recent events, files | append, load |
| **MCP client, ACP server, Lua bindings, LLM and HTTP calls** | connections, retry counters | calls to the outside |

`PROJECT.json` lists these and the remaining parts (command line, lint tool,
built-in scripts, shared types) under `components`, each with its state of work.

### 1.2 How they interact

* Only the WorldManager writes the World. Everyone else pushes a
  `WorldCommand` into its queue and awaits the reply; readers take the read lock
  and may act on what they read after releasing it.
* The engine sends **signals** over one broadcast ring to every runner. Each
  runner subscribes *twice*: the loop reads a signal between two requests, the
  veto-watcher reads the same signal while a request is running.
* **Events** and **RPC requests** reach a runner through two queues of its own,
  found by way of the shared maps.
* A component that needs a permission returns `Suspended`; the runner moves its
  channel to `AwaitingApproval`, shows the request to the user, and runs the
  request again when an `Approve` with the same identifier arrives.
* A Veto or Shutdown travels watcher -> interrupt channel -> bridge task -> kill
  flag and cancel token -> Lua instruction hook.
* An approval request goes from the runner through a bounded output queue, the
  client runner and the IO port to the user; the answer comes back the same way
  as a line, is parsed, and is broadcast as a signal.
* agent_mgr passes a user's line on to an agent by RPC or event; agents call back
  into agent_mgr; a delegation gets a runner of its own that reports by event.
* At a pause the engine shuts every runner down, collects their snapshots, and
  the application writes them over those the session was loaded with.
* A runner that ends sends an exit notice; the engine's monitor takes it out of
  the maps. A component may spawn runners itself; their wrapper does the same.

### 1.3 What is hard

* A handler awaits several times, and between any two awaits the channel may be
  killed, or aborted by a command whose sender gave up on it after 100 ms.
* The biased select never reads a signal while a handler runs: everything urgent
  takes the watcher's path, which shares flags with the loop without a lock.
* An approval can come before, during or after the transition it answers, twice,
  or for a request that has been overtaken.
* A pause holds events back in a bounded queue, drained by the `Resume`.
* The manager may stop with commands in its queue; their senders must not hang.
* The signal ring overwrites what a slow reader has not read.
* Names and handles sit in two maps behind two locks with three writers.
* The loop passes signals to children through mutexes that scripts hold while
  they run, on the loop's thread or on others.

* A tool call that needs approval unwinds a conversation with a language model in
  the middle of a batch; what is put aside must fit the request that resumes it.
* A component that calls another cannot serve calls itself: calls in a circle end
  by time-out, and late answers find nobody.
* The user answers what was displayed, which need not be what is asked by then.
* A save may be cut short anywhere, and snapshots may be missing from a pause.

`PROJECT.json` lists the hazards one by one under `hazards`, with the line where
each bites and the properties that cover it, or why none does yet.

### 1.4 What makes each component correct

* World: parent, children and cached path describe the same tree; `kill` takes
  exactly a subtree; privilege never grows downwards; a finished channel stays so.
* WorldManager: every command is one atomic step of the World; every sender is
  answered once or released; the queue alone orders a kill and a spawn.
* ChannelRunner: what is granted was approved; events come out of a pause in
  order and none stays behind; stops and approvals that arrive have their effect.
* Interrupt: an interrupt ends the request it was meant for and no other.
* Engine: a running component is reachable under its name, a finished one is
  not; shutdown keeps every snapshot it can.
* Children: no call waits for itself; a stop aborts every child; what is sent to a
  child is run.
* Agents and RPC: an answer reaches the caller that still waits for it; every
  handler ends; what becomes of a delegation is told, and told in order.
* Approvals: nothing guarded runs unapproved; what was approved is not asked again;
  an answer reaches the request it names and no request is forgotten.
* Tool loop: the conversation is well formed for the provider, carries every turn
  across suspensions, keeps to the budget, and speaks for the request it serves.
* Sessions: a save is seen whole or not at all, and what the user was told is saved
  is not lost by a later pause.

## 2. Modules and their correspondence to the code

`map` in `PROJECT.json` names the lines of every definition. In outline:

### World.tla
`channels` is `World.channels`, a function from identifiers to records with the
fields of `Channel`; `allocated` are the UUIDs drawn so far (a UUID never
repeats). `CreateOf`, `SpawnOf`, `KillOf` and `TransitionOf` are the commands as
functions of the tree, so that the modules that use the World share its text.
The World alone takes them in any order: `TreeInit`, `TreeNext`, `TreeSpec`.
`Accepts` collects the guards of the six `ChannelMut` methods, `Target` what they
leave. `kill` recurses over a clone of the children while it removes channels;
`KillSet` is the least set that recursion visits. Scheduling priorities are
dropped: nothing reads them.

### WorldManager.tla
`queue` is the `mpsc` channel of capacity `Capacity` (256 in the code), `pc`,
`command` and `reply` describe each client, a task that holds a sender. `Issue`
and `Enqueue` are the two halves of `send().await`; `Apply` is one turn of the
manager's loop; `Stop` drops the queue and with it every one-shot reply;
`GiveUp` is the time-out of `send_abort`, after which the command is still in
the queue. The module extends World, whose variables it drives; its property
`ImplementsWorld` is `TreeSpec`: World is the abstract specification, the manager in
front of it the detailed one.

### ChannelRunner.tla
One runner, its inbox and the World's record of its channel. `pc` is the place of
the loop: in `select`, inside `on_request` (`component`), waiting for a reply
(`transition`, `abort`), inside `drain_paused_queue`, at the `check` that follows
every message, in the shutdown sequence. Each `Recv...`, `Handle...` and
`...Replied` action is one stretch of code between two awaits, so a kill, a late
abort or a stopped manager can come in between. An event is taken into `batch` in one step
and looked at in the next (`process`), where `is_channel_paused` is read, as are the
events of a drain one by one. The component is external: it
may return, fail, suspend for any pattern it still needs, or ask to be stopped; it gets
events while a request of its waits for approval, and may suspend those too. An approval
request reaches the user (`shown`) or is dropped by `try_send`.
The manager answers in one step here, which WorldManager justifies. `filed`, `shown`,
`approved` and `overtaken` are history: the pattern of each approval request, those the user
saw, those he approved, and those made while another one waited.

### Interrupt.tla
The four kinds of task that share the flags: the loop inside `LuaComponent`, the
watcher, and one bridge per request, because `abort()` on a bridge's handle takes
effect only at an await and an old bridge may outlive its request. Each store,
load and notification is a step of its own. Lua code is external: it may run for
ever. On the way out the runner takes the component's snapshot with the flags as
they are then: `SnapshotReturns` for a callback that ends before the hook looks,
`SnapshotKilled` for one that does not.

### Engine.tla
`handles` and `map` are the two shared maps, `stage` the place of every runner's
task: an engine runner is listed before it starts and is unlisted by the monitor
or by `shutdown_parallel`; a runner spawned by a component goes through the steps
of its wrapper in `child_context.rs` (world command, handle, name, ready, run,
notice, handle away, name away), each behind its own lock and therefore an action
of its own. The monitor takes a notice, broadcasts `runner_exited` and cleans up
the two maps in two further steps. The supervisor is agent_mgr: its inbox has a
bound, `try_inject` drops what does not fit, and it blocks while it spawns. `Stop`,
`BeginShutdown`, `Collect`, `TimeOut`, `StopManager` and `Unregister` are `stop()` and
the stages of `shutdown_parallel`. What a runner does in its loop is left to
ChannelRunner: here it may end, panic, or stay for ever. `overlapped`, `missed`
are history, read by properties only. Left out: the window of sixty seconds after
which the script forgets its restarts (the model stays within one), a concierge
configured by the user, and the delegate workers, which are restarted alike.

### Children.tla
`children` is the table of one ChildSpawner, `spawner` and `lock` the holders of its
mutexes, `stack` the calls each thread is in: thread 0 is the runner's loop, the
others are started by `send_to_child_async` and `send_to_children_batch`. A frame
is what a call does next, so taking a mutex, running a script under it and giving
it back are separate steps, and a thread may wait at each. `Tell` and `Abort` take
and release a child's mutex in one step; nothing in between waits. A `send_to_child`
has the table (`sending`) while it waits for the child and while the child runs.
`Calls` says what the scripts do; the code lets any script make any call. A child is
`Nested` when its script calls back and it is sent to in another way than in a batch of
the component: it can wait for itself, or for a loop that waits for it. `NoDeadlock` says that
every circle of waiting threads has such a child in it. No script panics in the model: the
mutex of a child that did would be poisoned, and later signals and aborts pass the child over
(`child_spawner.rs:296`, `:308`).

### ToolLoop.tla
One runner and the calls of `orcs.llm` its requests make. `history` holds the
conversation of each session (a message is a prompt, a reply with its batch of tool
uses, or results), `messages`, `turn` and `at` the call that is running, `pending` the
runner's pending approval; `savedSession` and `savedTurns` are the two values in the
Lua state that outlive a suspended run, as in the code. The provider is external: a
reply ends, is truncated, or names a batch of tools, of which some mutate and are
asked about and some act outside the sandbox and are asked about again; a dispatch may
fail and end the call with results made up for the rest. Messages
are told apart by the task or the reply they come from. Requests come by event or by RPC and
also begin while another one waits for the user, as the runner has it (`base.rs:1284`); the one
that runs next then takes the saved session and turns, whoever left them
(`llm_command/mod.rs:642`). `savedBy`, `robbed` and `mixed` are history of that, which no
guard reads: whose turns are saved, who lost them to another, and whose
conversation another one spoke in.

### Agents.tla
The runners of agent_mgr, an agent, concierge, console_metrics and one delegate
worker for each delegation. `job` is what each runner's handler is at, `wait` whose
answer it waits for; `inbox` and `events` are its bounded queues. A handler that
calls waits without serving. `TimeOut` leaves the request where it is, no longer
`live`: it is served all the same and its answer dropped.
`Completed` and `RunnerExited` are the two ways
agent_mgr hears of a delegation; the monitor's `Exited` comes after the worker's
`Report` through another task. The spawn of a worker may fail, and a worker may not be
registered in the five seconds it is given: it then never gets its event (`unasked`). An
agent may end at any time.

### Approvals.tla
Two runners, one elevated, that meet the three gates (a mutating tool, a command, a
path outside the sandbox), the bounded output queue filled by `try_send`, the
client runner, the IO port, the display with the one approval it remembers, and
the user, who answers by identifier or with a bare `y` or `n`. Grants are patterns;
a grant sits in the shared store or in the component's own, an approved path in
the sandbox's list; `Within` is the prefix by which a granted command or an opened directory
covers others. A path that is still to be created (`Missing`) cannot be opened. A component that
waits gets further events, and the request they start may be suspended in turn: it is
`overtaken` (history), takes the place of the pending one in the runner, and not in the World.
`Restart` is a pause and a resume, by which the session's
grants pass through the file.

### SessionStore.tla, LocalFileStore.tla
SessionStore is the promise of the trait: every call takes effect at one instant
or not at all. LocalFileStore is the code: names lead to inodes, `save` writes the
temporary name and renames it, `load` looks, opens and reads, `delete` looks and
unlinks, each a step of its own, and a process may crash between any two. An inode
that is open stays when its name is taken. `StoreIsAtomic` is the abstract
specification under a refinement mapping that reads the file behind each name and
fixes the answer of a load when it opens the file. Two processes may save one session at
once, over one temporary name. Such a session is `clashed` (history) until all of its saves
have ended; the promise then lets it become anything, a torn file included (`Muddle`), and
still nothing else.

### Sessions.tla
Several processes over that store: a session is begun or resumed, whoever else is in it
(`builder.rs:350`), components work,
a pause merges the snapshots that were collected into the asset that was loaded
and saves it, `q` saves nothing. A component's state is counted by the changes it
holds. `Reloads` are the components whose `init()` overwrites what `restore()` set.
`promised` is history: what the last successful save of a session held. So are `behind`, the
processes whose session another one has saved since they came, and `contested`, the
sessions saved by one of those, by two at once, or removed during a save.

### The proofs
WorldManagerProofs, ChannelRunnerProofs, EngineProofs, ChildrenProofs, ToolLoopProofs,
ApprovalsProofs and SessionsProofs hold the theorems about the modules of
the same name and the lemmas they rest on (section 4). WorldManagerProofs begins with
World alone and SessionsProofs with LocalFileStore, which their other theorems use.
RequestProofs is about both sides of a request: Agents, whose specification is `Spec`,
and Interrupt, whose specification is `InterruptSpec`.

## 3. Runs

All runs finish within the time a reader would wait for; the bounds are constants
in the `.cfg` files.

| Run | Instance | What it shows |
|---|---|---|
| `world` | four identifiers (symmetric), all presets, one approval identifier | the tree stays a tree under every order of calls; `kill` is exact; privilege is capped |
| `manager` | two clients, two channels, a queue of two, aborts that are given up | order, atomicity (`ImplementsWorld`), and no client left waiting when the manager stops |
| `runner_approval` | requests that need two permissions, two events and one RPC, two approval requests, the second also while the first waits, two signals out of Approve, Reject, Cancel and signals for others, a ring of two, late aborts, hooks that skip | what is granted was approved by a user who had seen it, and an approval that arrives takes effect, but for what one overtaken request does to the other; a stopped runner leaves a terminal channel |
| `runner_pause` | three events, a paused queue of two, three signals out of Pause, Resume, Cancel, kills | nothing overtakes, every event is handled, nothing reaches a paused component, a Cancel ends the runner |
| `interrupt` | three requests, two signals out of Veto and Shutdown | no interrupt is left over for a later request by the flag, no wake-up is lost |
| `engine` | a client, agent_mgr and one supervised component, one restart, an inbox of one, panics | a running component is found, restarts happen, snapshots are kept and shutdown ends |
| `children` | three children of whom two fit, five calls, three background threads, two signals; one child only works, one calls back and is run in batches, one calls back and is sent to | the only circles of waiting threads are those with a child that calls back from outside a batch; a stop aborts every child; but for such circles signals come through and nothing sent is lost |
| `tool_loop` | two requests of one runner, by event or RPC and also one while the other waits, named sessions or none, a tool that needs nothing, one that needs the user's leave and one that needs it twice, batches of two, two turns, one retry, six replies | every tool use is answered before the provider is asked again; every turn is counted across suspensions, the budget is kept and a request's conversation is its own, but for the requests another one took these from |
| `agents` | one line of the user, one delegation, one call of the agent by each handler, request queues of two, event queues of one, workers that are not ready in time | callers are answered or time out, handlers end, a delegation's end is told, and after its result |
| `approvals` | two components (one elevated), three kinds of gate, a path still to be created below another that is asked for, an output queue and a screen of two, two requests in all, also at one component at once, four asks, one bare answer, one restart | nothing guarded runs unapproved but by a request that overtook another, nothing approved is asked again but a path that does not exist, grants come back on resume, an answer hits its request, a request is answered or the user was shown it |
| `sessions` | two processes on one session, also at once, two components, one change each, three inodes | the store is atomic through crashes and failed writes, but for a session during saves that overlap; a pause with missing snapshots loses nothing that was saved in a session nobody contended for |
| `interrupt_snapshot` | as `interrupt` | the disagreement of section 6 |

Why these bounds are enough. Four channels give every shape of tree with three
levels and siblings on two of them, which is where a link or a path could be
wrong; symmetry is sound because no property or action names an identifier, and
that run has no liveness property. Two clients and a queue of two let the queue
be full, a command be overtaken while its sender still tries, and a kill pass a
spawn. A paused queue of two and three events make it overflow with one event
behind. Two permissions for one request cover the second suspension after an
approval, two events one that is suspended while the other waits. Three requests let a bridge outlive a request and meet the next but one. One
restart lets a runner meet the clean-up of its predecessor, and an inbox of one
lets the supervisor miss an event. Three background threads let two meet at one
child while a batch runs, and a spare child fills the table. Two requests let one
find, or take, what the other put aside; two turns let the budget run out in the middle of a
batch. Two components that ask at once are what the one
remembered approval can get wrong, and an output queue of two fills up. Two processes are a writer with a reader, or with a
crashed predecessor; three inodes are the file, its temporary name and one held open;
one change tells a snapshot that was saved from one that was missed. `sessions` uses a VIEW that
forgets the contents of inodes nothing refers to: `Create` empties them before use.

Where a property names an exception (`overtaken`, `robbed`, `mixed`, `Nested`, a path still to
be created, `clashed`, `contested`), its run meets the case: TLC finds the property violated when
the exception is left out. Section 6 says what the code does then.

The modules' `TypeOK` hold in these instances too; the runs leave them out, because a
value out of its type shows up as an error of TLC or in a deeper property.

`CHECK_DEADLOCK FALSE` is set wherever the system may stop: a World with all identifiers used and all channels killed, a manager that
stopped, a runner that ended, an engine shut down. What must not stop is stated as liveness.

### Fairness
Each tokio task that has something to do is polled eventually: weak fairness on
the manager's loop (`WorldManager`), on the runner and on the manager's answer
to it (`ChannelRunner`), on the watcher, the bridges and the loop (`Interrupt`).
A client's place in a full queue is taken in order, tokio's semaphore being
first-come-first-served, so `WorldManager` assumes strong fairness of `Enqueue`.
Nothing is assumed of users, of other components or of killers. ChannelRunner
assumes that a component returns from `on_request`; Interrupt, which is about
components that do not, assumes nothing of the kind. Engine assumes that the steps
of the engine, the monitor, the wrappers and the supervisor's handler are taken,
and that timers run out; no runner has to end, and nobody has to call `stop`.
Children assumes that threads are scheduled and that scripts return; weak fairness
is enough for the mutexes because the calls are bounded. Agents assumes that handlers
go on, that time-outs run out and that notices are taken; agents need not end, and a
worker that asked to stop need not leave, because nothing wakes it. Approvals assumes
that the runners, the client runner and the application take what is in their
queues, and nothing of the user but to answer what is shown. ToolLoop and
Sessions state safety only.

## 4. Proofs

Twenty-eight of the forty properties that passing runs check are theorems, for every
value of the constants: all invariants, all action properties and the refinements. The twelve others
are liveness properties; of six of those the half that needs no fairness, that nothing
which is still to happen has been lost, is a theorem of its own. Each section below names the
inductive invariant and why it is needed.

### World and WorldManager
The first part of `WorldManagerProofs` is about World alone. It proves, for every set of
identifiers, approvals and principals:

* `SpecTypeOK`, and `SpecLinksAgree`, `SpecPathsAgree`, `SpecPrivilegeCapped`, the three
  invariants of `world`;
* `SpecKillIsExact`, its action property, and `SpecTerminalIsFinal`.

They rest on two assumptions only, both named in `World.tla`: "no parent" is not
an identifier and "no request" is not an approval.

None of the four invariants is inductive alone. `kill` is described by the least
set closed under children, and that it equals the descendants by cached path
needs links and paths together, and more: that following parents ends. The
inductive invariant therefore adds to typing, links, paths and caps that every
path lists its channel's ancestors without the channel itself, so that a nonempty
set of channels closed under "parent" always holds one whose parent is outside
it; this well-foundedness replaces an induction over depth, which the provers
cannot carry out. One lemma per command shows that it is kept; the privilege cap
follows because a spawn compares with the parent only and the parent is already
below all of its ancestors.

The second part proves `SpecImplementsWorld`, that the manager behind its queue is
a World, and `SpecKillOrdersSpawn`, for any clients, channels, configurations and
capacity. A spawn reaches the tree long after its identifier was drawn, when World
demands that it is unused: `Fresh` follows identifiers from the client that draws
them, through the wait for room, to the queue, where no two spawns share one.
`Ordered` follows a kill and the spawns behind it: as long as the kill is queued it
covers them, and once it is applied their parent is out of the tree for good, so the reply
they are owed is a refusal. What was proved of World then holds behind the manager
too (`SpecReadersAgree`, `SpecOverIsFinal`): the refinement carries it over, and no step of
the manager is looked at again.

`SpecAnswersOwed` is the safety half of `Released`: a client that waits has one live entry in
the queue of a manager that runs, with its own command, and every live entry has a client
that waits, through time-outs, a stopping manager and an abandoned wait. Its invariant
`Held` adds that nobody sends to a manager that was not set up; it stands on `Fresh`.

### ChannelRunner
`ChannelRunnerProofs` proves, for any requests, patterns, signals and buffer sizes:

* `SpecStopLeavesTerminal`, `SpecDeliveryInOrder` and `SpecPauseHolds`;
* `SpecGrantsApproved` and `SpecApprovalRoutes`, for any number of requests suspended at
  once. A request that was `overtaken`, suspended while another waited, is the one exception, and
  the properties say what the code makes of it: the Approve of the other grants its pattern.

The runner shares its channel with killers, late aborts and its own transitions, and the
World appears in the proof as the state of that channel only (`Life`): one lemma says what
each transition asks of it and leaves, another that a channel that is over stays so. Order is
kept in three places at once, the paused queue, the batch that is being drained and the
buffer; `InOrder` puts them in a line behind what was delivered, and it can do so only
because `Draining` says that nothing is held back while a drain is under way, a drain having
begun with a `Resume` the World accepted. `Routed` follows an approval's identifier from
the World to the runner and to the signals on their way: the pending request has the
identifier the World waits for, or a later one that is `overtaken`.

### Engine
`EngineProofs` proves `SpecFoundUnlessOverlapped` and `SpecSnapshotsKept`, for any components, any
number of restarts and any inbox. Five parties remove entries from the two registries:
the wrapper of a runner, twice, the monitor, twice, and the shutdown. Which of them may
still do so is told by the stage a runner has reached: a notice is only ever of a runner
that left its loop (`Noticed`), and two runners of one name that are both between their
registration and the end of their clean-up are `overlapped` (`Overlaps`). For the snapshots,
`Awaited` follows a runner of the engine from its task to the snapshot or the time-out.
`SpecRunnersBounded` shows that the numbers the model gives to runners never run out, by
an injection of runners into components and restarts: the bound cuts nothing off.

`SpecExitsKept` is the safety half of `Restarted`: the newest runner of a component agent_mgr still
tracks, once its wrapper has sent its notice, is in the monitor's queue or its name is in the
supervisor's inbox, unless the supervisor ended, a full inbox took nothing, or the shutdown
has begun. Its invariant `Attended` says that the supervisor's runner is listed as long as
it is alive, so that the broadcast cannot pass it over between two handlers.

### Children
`ChildrenProofs` proves, for any children, scripts, threads, calls and signals,
`SpecTypeOK`, `SpecAllAborted` and `SpecNoDeadlock`, whatever calls the scripts make. The
stacks obey a grammar (`Chain`, `OnTop`): a call lies on the script that makes it, a child's
script on the `sending` or `run` that started it, a visit of a signal on nothing but the
`abort` to follow. `TableHeld` and `LocksHeld` tie each mutex to the frames on the stacks, so
that two threads are never in one child. `Pending` follows the children there were at
the stop through the visits of `abort_all`. For the absence of deadlock, suppose that
the threads in S wait for each other and none of them runs a child that is `Nested`. A child that does not call back is on top of its
thread, so nobody in S waits for it; whoever has the table is running such a child, or is the
loop on a visit; and a child that calls back and is not `Nested` (`Batched`) runs on a thread of
its own that the loop has joined, so the loop is not on a visit. What is left are threads of the loop's batch
that wait for threads of their own batches, whose children do not call back (`Joined`).

`SpecSentAccounted`, the safety half of `SentIsRun`, has no condition on the calls: a thread
that was started has run its script or is about to (`Unserved`), and a batch joins only
threads that were started (`Rests`), so when they have ended all their scripts were run.

### The tool loop
`ToolLoopProofs` proves `SpecTurnsCarried` and `SpecBudgetKept` for every set of tasks,
sessions and tools and every bound on turns and retries, whatever requests begin while a
suspended one waits. The exception is part of the properties: a task is `robbed` once another
one ran with `hil_intents` while its turns were put aside.
The budget is not inductive: the turn of the run at hand is
bounded only if the turns saved for the next run are, and those only if they are
the turns of the run that saved them (`savedBy`). The invariant ties both to the replies the
task has had.

`SpecUsesAnswered` needs no condition: what is stored of a conversation is closed (`Closed`),
whether the request that left it was suspended, truncated, killed, or met another on
its way. `SpecSpeaksForTask` holds of every request, by event or RPC, that is not `mixed`: one that
took over the session another was suspended in, the one that was, or one in whose session a
request that named it spoke meanwhile. Its invariant says where the replies of the request at
hand are, whatever the place of its run, and counts them.

### Requests: Agents and Interrupt
The first part of `RequestProofs` is about the callers. For any lengths of the queues and
numbers of lines, delegations and calls it proves

* `SpecWaitersServed`. A caller that waits has exactly one live request, in the queue of the
  component it waits for or in that component's hands, and who does not wait there has none
  (`Served`): a time-out makes the request dead wherever it is, and an agent that ends
  takes its queue with it, releases its callers and abandons what it asked itself;
* `SpecToldInOrder`. The reports and the exit notice of a worker are somewhere on one path: in
  the queue of events, in agent_mgr's hands, in the reports it keeps. At most one report
  is on it, behind the exit there is none (`InOrder`, `Follows`), and what a worker may still
  send depends on how far it has come;
* `SpecDelegationsAccounted`, the safety half of `DelegationTold`: what became of a worker is on
  that path or was dropped by a full queue.

The second part is about the callee, for any number of requests and signals:
`SpecInterruptTypeOK`, `SpecNoLeftoverInterrupt` and `SpecInterruptPursued`. What makes the
second inductive is `FlagIsCurrent`: between the reset of the flag at the
start of a request and the spawn of its bridge, and from then on, a flag that is up was
stored for that request or a later one. The order of these two is what the proof rests on.
`SpecInterruptPursued` is the safety half of `InterruptLands`: while a request runs with the
flag up, its bridge has still to look at it, is past it, or has a wake-up coming (`Awake`). That
takes `OneBridge`: the only bridge that was not told to abort is the one of the request at hand.

### Approvals
`ApprovalsProofs` proves `SpecRunOnlyApproved`, `SpecGrantsResumed`, `SpecOwnAnswerOnly` and
`SpecAskedOnce` for any components, operations, lists of gates and prefixes, for paths
that exist and paths that do not, and for requests that reach a component that waits. What the
code does not keep is named in the properties: a gate that was asked for by a request that
overtook another, and a path still to be created. The invariant ties every identifier on its way, through queues, screen and typed lines, to the
request that was asked, what a runner waits for to what it remembers, and every
yes and every stored grant to something the user said yes to. That the gate a component
asks about is the first closed one needs the least-number principle.

`SpecNoneLost` is the safety half of `NoneForgotten`. The display remembers one request, two
components may ask at once, and an answer may meet a component in the wrong state; still
the request of a component that waits is in the output queue or on the screen, or was
shown and not answered, or is named by a typed line or by a signal in its inbox, or is among
those the full queue dropped, or another request of the component has taken its place (`Way`).

### Sessions and files
The first part of `SessionsProofs` is about LocalFileStore and proves `SpecStoreIsAtomic`: for any processes, sessions, assets
and inodes the store of files implements SessionStore, saves of one session by several
processes included. Those share the temporary name, and a torn file becomes visible in seven
steps: a step at a `clashed` session is mapped to the `Muddle` of that session, so that what it
does is confined to it and to the time until its saves have ended. The invariant `FileInv` says
that no file has two names and an open one is of the session its caller named (`Apart`,
`Opened`), which is why a clash does not spread; that a process writes to its session's
temporary file and renames it complete (`Writes`), and is alone in saving it (`SaversApart`),
in a session that is not clashed; and that no reader's file is a temporary one (`Reads`), which is why
a load never sees the part of a session. Every other step of the files is mapped
to one step of the promise or to none.

The second part proves `SpecRemembered` for any processes, sessions and components, several
in one session included. It reads no file: the first part turns each step of the
files into a step of SessionStore, and the invariant `AppInv` says, in terms of what is
stored and of the answers to come, where an asset with at least what was promised
is at each point of a run: in the store, in the answer of a load, in memory and in
the components, in the save under way. It says so of a process that is not `behind` another's
save, and of a session that is not `contested`; what ties the two is that the first to save
puts everybody else in that session behind (`Watched`, `Carried`, `Alone`). The same invariant shows that the application makes only the calls the
store's theorem is about (`SpecSessionsStoreIsAtomic`).

### Only model-checked
The twelve liveness properties: fairness and ENABLED are out of the prover's reach. The
halves of `Released`, `Restarted`, `SentIsRun`, `DelegationTold`, `InterruptLands` and
`NoneForgotten` that need neither are proved (above); that what is still under way then arrives is
TLC's to check. `StopHeard`, `EventsHandled`, `ApprovedResumes`, `SignalHandled`, `HandlersEnd` and
`StopEnds` are checked only, on the instances of section 3.

## 5. Plan

Done, in this order: World, WorldManager, ChannelRunner, Interrupt, Engine, Children;
then ToolLoop, Agents, Approvals, SessionStore, LocalFileStore, Sessions; then the proofs of
World, ToolLoop, LocalFileStore, WorldManager, Interrupt, Approvals and Sessions; then those of
ChannelRunner, Engine, Children and the conversations of ToolLoop; at last those of Agents and
the safety halves of six liveness properties. What is not modelled is in section 7.

## 6. Where code and comments disagree

Shown by the run `interrupt_snapshot` (`findings` in `PROJECT.json`):

* **Snapshots under the kill flag.** A Shutdown raises a component's kill flag;
  `snapshot()` is called before `shutdown()` lowers it. A callback of more than 128
  instructions is stopped by the hook, and the state it was to save is missing,
  while `base.rs:663` says "Capture component snapshot (if supported)" and the user
  reads "Session saved".

Met while modelling, each reproduced with one of the modules by checking the property
named, or by dropping from it the exception named, but without a run of their own:

* **Two suspended requests** (`GrantsApproved`, `RunOnlyApproved` without `overtaken`;
  `TurnsCarried`, `BudgetKept` without `robbed`; `SpeaksForTask` without `mixed`). Events
  are dispatched while a channel awaits an approval. A second suspension
  overwrites the pending approval, the World keeps the first identifier, and
  approving the first request grants the second's pattern, while an n to the second ends
  the first (`OwnAnswerOnly`). In the tool loop the
  request that runs next resumes the conversation of the one that waits, with its turns.
* **Self-stop** (`SelfStopExits`). The loop looks at its channel's state only after a
  message; a late abort leaves it waiting on an aborted channel.
* **Shutdown at the start of a request** (`ShutdownEndsRequest`). A Shutdown between
  taking an event and `rx.reset()` is wiped by the reset, and the request runs on.
* **Restart against clean-up** (`Reachable`). A spawned runner sends its exit notice,
  then removes its name from the map without looking whose it is. A successor that
  registers in between cannot be called, though `child_context.rs:472` calls it ready.
* **Children that call back** (`NoDeadlock`). Signals are passed on with the table of
  children locked, waiting for each child's mutex; a child in the background holds
  its own and needs the table for `spawn_child`. When the two meet, both wait for
  ever; "Veto signals must reach everything" (`orcs-component/src/child.rs:10`). A
  `send_to_child` to a child that calls back needs no signal: it waits for the table
  its own thread holds. Both are in the run; `Nested` names the children they need.
* **Suspension by RPC** (`SpeaksForTask` without `mixed`). `handle_rpc_request` answers a
  caller with `Suspended` as with any error and asks nobody, though agent_mgr sets
  `hil_intents` for agents it only reaches by RPC (`agent_mgr.lua:572`); the next message
  to that agent is sent in the abandoned session as if the user had approved.
* **A path that does not exist yet** (`AskedOnce` without its exception). Its approval is
  stored canonicalised (`sandbox.rs:166`), which fails: it is asked for ever.
* **Two processes that resume one session** (`StoreIsAtomic` without `clashed`,
  `Remembered` without `contested`) share
  the temporary name, so a torn file can become visible; and the last save wins.

Read in the code while modelling:

* `tool_loop_limit` is never returned (`llm_command/mod.rs:1038-1057` cannot be reached),
  so the extension in `delegate_worker.lua:113-147` is dead; `types/orcs.d.lua:102`
  documents it.
* The prompt of a call that names a new session is not stored in its history; on a
  resumed call it is stored twice; intents already executed before a suspension are
  answered with "please retry".
* A delegation that completed gets a second, *failed* entry when its worker's end is
  heard (`agent_mgr.lua:1322`). A delegate that timed out at its caller still runs. When a
  spawned worker is not ready in five seconds `spawn_runner` succeeds, the task's
  event is lost (`child_context.rs:1053`), and agent_mgr, told that some runner took it
  (`emitter.rs:320`), answers that the task is delegated.
* `agent_mgr.lua:1358` says a call "cannot contribute to deadlock"; the circle agent,
  agent_mgr, agent waits for its time-out. The send stage of an RPC has none
  (`rpc.rs:106`): a caller waits for a full queue.
* A Reject aborts the channel, though `common.rs:100` says it does not stop it. An
  approved path is open for every component and for writing. After a resume the
  paths approved before are asked for again. A bare `y` typed ahead answers what is on
  display by then. Grants in the stores of components that are not elevated are not saved.
* `init()` of foundation_manager, console_metrics and mcp_manager overwrites what
  `restore()` set, so their snapshots never count, against the contract "`restore()`
  must return the component to the exact state" (`orcs-component/src/snapshot.rs:213`):
  Sessions has them as `Reloads`. profile_manager's `restore` calls skill_manager, which
  is spawned after it and may not be registered. Nothing is synced to disk.

Smaller ones: the veto-watcher reads signals through a receiver
of its own, and one that is late by a whole request ends the next one for a Veto
the loop is done with (`orcs-component/src/interrupt.rs:67` says the reset prevents
this); `run()` of a child does not look whether it was aborted, so a background
thread runs it afterwards (`orcs-component/src/traits.rs:182`: "No more work should be
performed"); a runner that ends because its channel was killed or aborted does not
abort its children; `background()` is documented as
unable to spawn (`runtime/channel/config.rs:226`) while `spawn_with_id` never looks
at `can_spawn`; `complete` is documented to refuse terminal channels
(`runtime/channel/world.rs:358`) and refuses paused and waiting ones too; `stop` is
documented to send a Veto (`runtime/engine/engine.rs:797`) and sends a Shutdown.

## 7. Not modelled

Parsing and display (console, input, rendering), configuration files, resolution of
paths, formatting of LLM, HTTP, MCP and ACP messages, the bindings of Lua to files,
processes and JSON, the analyser of the lint tool: sequential code over strings
and files, where unit tests do well and a model would be a transcription. Together
they are most of the repository's lines. External libraries (tokio's channels and
`Notify`, the Lua VM, the file system) appear as the code relies on them: a bounded
FIFO, a broadcast ring that overwrites, a permit that is kept, a hook that runs now
and then, names that lead to inodes.

Hooks are a sorted list under one lock; where one can change the control flow of a
runner, ChannelRunner has it as a choice. The board is a ring nothing depends on. The
MCP client connects its servers once, before any tool is called, and the product
does not disconnect or add one later, so its two tables are never changed under a reader.
One-time grants and expiring elevation exist in `orcs-auth`; the product makes none of
the first and elevates for longer than it runs. A crash of the machine, as opposed to
one of a process, is left out of LocalFileStore: the code makes no promise about it.
