----------------------------- MODULE Interrupt -----------------------------
(***************************************************************************)
(* How a Veto or a Shutdown reaches a component that is inside on_request: *)
(* the veto-watcher task of the runner (channel/runner/base.rs), the       *)
(* reusable interrupt channel (orcs-component/interrupt.rs) and the bridge *)
(* task, kill flag and cancel token of LuaComponent (orcs-lua/component.rs,*)
(* kill_flag.rs).  The event loop gets the same broadcast through its own  *)
(* receiver, but reads it only between two requests.                       *)
(*                                                                         *)
(* Four kinds of task share the flags, without a lock: the event loop, the *)
(* watcher, and one bridge per request.  Requests are numbered.            *)
(***************************************************************************)
EXTENDS Naturals, Sequences, SequencesExt

CONSTANTS
  MaxRequests, MaxSignals,   \* bounds of the model
  SignalKinds                \* the kinds sent, of {"Veto", "Shutdown"}

ASSUME InterruptAssumption ==
  MaxRequests \in Nat \ {0} /\ MaxSignals \in Nat /\ SignalKinds \subseteq {"Veto", "Shutdown"}

Requests == 1..MaxRequests

VARIABLES
  loopQueue, watchQueue,  \* unread signals of the two broadcast receivers
  sent,                   \* signals sent so far
  pc,                     \* the event loop
  request,                \* number of the current or last request
  watcher,                \* the veto-watcher task
  flag, permit,           \* the interrupt channel: AtomicBool and Notify
  bridge,                 \* the bridge task of each request
  guardAborted,           \* requests whose bridge was told to abort
  kill,                   \* the kill flag read by the instruction hook
  token,                  \* the request whose cancel token is installed
  cancelled,              \* cancel tokens fired, by the request they belong to
  storedIn,               \* history: the request at hand when the flag was last stored
  killed,                 \* history: requests that ended because of an interrupt
  captured                \* the shutdown sequence got its snapshot

queues == <<loopQueue, watchQueue, sent>>
channel == <<flag, permit>>
bridges == <<bridge, guardAborted>>
lua == <<kill, token, cancelled>>
history == <<storedIn, killed, captured>>
interruptVars == <<queues, pc, request, watcher, channel, bridges, lua, history>>

InterruptInit ==
  /\ loopQueue = <<>> /\ watchQueue = <<>> /\ sent = 0
  /\ pc = "select" /\ request = 0
  /\ watcher = "watching" /\ flag = FALSE /\ permit = FALSE
  /\ bridge = [r \in Requests |-> "none"] /\ guardAborted = {}
  /\ kill = FALSE /\ token = 0 /\ cancelled = {}
  /\ storedIn = 0 /\ killed = {} /\ captured = FALSE

\* One broadcast, two receivers; nothing follows a Shutdown.
SendSignal(kind) ==
  /\ sent < MaxSignals /\ pc # "done"
  /\ \A i \in DOMAIN loopQueue : loopQueue[i] # "Shutdown"
  /\ pc \notin {"shutdown", "snapshotted", "handler"}
  /\ sent' = sent + 1
  /\ loopQueue' = Append(loopQueue, kind)
  /\ watchQueue' = IF watcher = "exited" THEN watchQueue ELSE Append(watchQueue, kind)
  /\ UNCHANGED <<pc, request, watcher, channel, bridges, lua, history>>

-----------------------------------------------------------------------------
(* The veto-watcher.  InterruptSender::interrupt stores the flag, then     *)
(* leaves a permit with notify_one.                                        *)

WatcherRecv ==
  /\ watcher = "watching" /\ watchQueue # <<>>
  /\ watcher' = "interrupting"
  /\ UNCHANGED <<queues, pc, request, channel, bridges, lua, history>>

WatcherNext == IF Head(watchQueue) = "Shutdown" THEN "exited" ELSE "watching"

StoreFlag ==
  /\ watcher = "interrupting"
  /\ flag' = TRUE /\ watcher' = "notifying" /\ storedIn' = request
  /\ UNCHANGED <<queues, pc, request, permit, bridges, lua, killed, captured>>

\* Mutant of Notify: notify_waiters, which leaves no permit behind.
NotifyWaitersOnly ==
  /\ watcher = "notifying"
  /\ permit' = (\E r \in Requests : bridge[r] = "waiting")
  /\ watcher' = WatcherNext /\ watchQueue' = Tail(watchQueue)
  /\ UNCHANGED <<loopQueue, sent, pc, request, flag, bridges, lua, history>>

Notify ==
  /\ watcher = "notifying"
  /\ permit' = TRUE
  /\ watcher' = WatcherNext /\ watchQueue' = Tail(watchQueue)
  /\ UNCHANGED <<loopQueue, sent, pc, request, flag, bridges, lua, history>>

-----------------------------------------------------------------------------
(* The bridge of request r: interrupted().await, kill_flag.set(), send.    *)

BridgeMoves(r, from, to) ==
  /\ bridge[r] = from /\ bridge' = [bridge EXCEPT ![r] = to]
  /\ UNCHANGED <<queues, pc, request, watcher, guardAborted, token, history>>

\* The first poll.
BridgeStarts(r) ==
  /\ r \notin guardAborted
  /\ BridgeMoves(r, "spawned", "checking")
  /\ UNCHANGED <<channel, kill, cancelled>>

\* The flag is read; without it the task goes to wait for a permit.
BridgeChecks(r) ==
  /\ BridgeMoves(r, "checking", IF flag THEN "interrupted" ELSE "arming")
  /\ UNCHANGED <<channel, kill, cancelled>>

\* notified() is polled for the first time.
BridgeArms(r) ==
  /\ BridgeMoves(r, "arming", "waiting")
  /\ UNCHANGED <<channel, kill, cancelled>>

BridgeWakes(r) ==
  /\ r \notin guardAborted
  /\ permit /\ permit' = FALSE
  /\ BridgeMoves(r, "waiting", "checking")
  /\ UNCHANGED <<flag, kill, cancelled>>

BridgeKills(r) ==
  /\ BridgeMoves(r, "interrupted", "cancelling")
  /\ kill' = TRUE
  /\ UNCHANGED <<channel, cancelled>>

\* The sender was cloned when the bridge was spawned.
BridgeCancels(r) ==
  /\ BridgeMoves(r, "cancelling", "done")
  /\ cancelled' = cancelled \cup {r}
  /\ UNCHANGED <<channel, kill>>

\* abort() takes effect where the task is not running.
BridgeDropped(r) ==
  /\ r \in guardAborted
  /\ \E from \in {"spawned", "waiting"} : BridgeMoves(r, from, "dropped")
  /\ UNCHANGED <<channel, kill, cancelled>>

BridgeStep(r) ==
  \/ BridgeStarts(r) \/ BridgeChecks(r) \/ BridgeArms(r) \/ BridgeWakes(r)
  \/ BridgeKills(r) \/ BridgeCancels(r) \/ BridgeDropped(r)

-----------------------------------------------------------------------------
(* The event loop, and LuaComponent inside it.                             *)

LoopMoves(from, to) ==
  /\ pc = from /\ pc' = to
  /\ UNCHANGED <<watchQueue, sent, watcher, permit>>

\* The biased select takes a request only when no signal is there.
TakeRequest ==
  /\ loopQueue = <<>> /\ request < MaxRequests
  /\ request' = request + 1
  /\ LoopMoves("select", "taken")
  /\ UNCHANGED <<loopQueue, flag, bridges, lua, history>>

\* on_request: kill_flag.reset(), then a new cancel token ...
ResetKill ==
  /\ LoopMoves("taken", "resetting")
  /\ kill' = FALSE /\ token' = request
  /\ UNCHANGED <<loopQueue, request, flag, bridges, cancelled, history>>

\* Mutant of ResetFlag: the interrupt channel is not reset.
ResetFlagForgotten ==
  /\ LoopMoves("resetting", "spawning")
  /\ UNCHANGED <<loopQueue, request, flag, bridges, lua, history>>

\* ... interrupt_rx.reset() ...
ResetFlag ==
  /\ LoopMoves("resetting", "spawning")
  /\ flag' = FALSE
  /\ UNCHANGED <<loopQueue, request, bridges, lua, history>>

\* ... and the bridge is spawned.
SpawnBridge ==
  /\ LoopMoves("spawning", "running")
  /\ bridge' = [bridge EXCEPT ![request] = "spawned"]
  /\ UNCHANGED <<loopQueue, request, flag, guardAborted, lua, history>>

\* The Lua code returns by itself, perhaps with the kill flag up: the hook
\* looks at it every 128 instructions only.
LuaReturns ==
  /\ LoopMoves("running", "returned")
  /\ UNCHANGED <<loopQueue, request, flag, bridges, lua, history>>

\* The hook raises an error, or a blocking call gives up; run_lua_on_request
\* then takes the kill flag down if it is up.
LuaInterrupted ==
  /\ kill \/ request \in cancelled
  /\ LoopMoves("running", "returned")
  /\ kill' = FALSE
  /\ killed' = killed \cup {request}
  /\ UNCHANGED <<loopQueue, request, flag, bridges, token, cancelled, storedIn, captured>>

\* guard.abort() on every exit path.
AbortBridge ==
  /\ LoopMoves("returned", "select")
  /\ guardAborted' = guardAborted \cup {request}
  /\ UNCHANGED <<loopQueue, request, flag, bridge, lua, history>>

\* on_signal, a Veto: the Lua handler is called, under the same hook.
TakeVeto ==
  /\ loopQueue # <<>> /\ Head(loopQueue) = "Veto"
  /\ loopQueue' = Tail(loopQueue)
  /\ LoopMoves("select", "on_signal")
  /\ UNCHANGED <<request, flag, bridges, lua, history>>

\* The handler returns, or meets the hook with the kill flag up: to the runner a
\* Veto is handled either way.
HandlerReturns ==
  /\ LoopMoves("on_signal", "select")
  /\ UNCHANGED <<loopQueue, request, flag, bridges, lua, history>>

\* on_signal, a Shutdown: handled without Lua; the runner leaves its loop.
TakeShutdown ==
  /\ loopQueue # <<>> /\ Head(loopQueue) = "Shutdown"
  /\ loopQueue' = Tail(loopQueue)
  /\ LoopMoves("select", "shutdown")
  /\ kill' = TRUE /\ cancelled' = cancelled \cup ({token} \ {0})
  /\ UNCHANGED <<request, flag, bridges, token, history>>

\* The shutdown sequence calls snapshot() first, under the same hook: it may
\* get through between two looks at the kill flag ...
SnapshotReturns ==
  /\ LoopMoves("shutdown", "snapshotted")
  /\ captured' = TRUE
  /\ UNCHANGED <<loopQueue, request, flag, bridges, lua, storedIn, killed>>

\* ... or be stopped; the error is logged and the flag stays up.
SnapshotKilled ==
  /\ kill
  /\ LoopMoves("shutdown", "snapshotted")
  /\ UNCHANGED <<loopQueue, request, flag, bridges, lua, history>>

\* shutdown(): the kill flag is taken down for the last handler.
LuaShutdown ==
  /\ LoopMoves("snapshotted", "handler")
  /\ kill' = FALSE
  /\ UNCHANGED <<loopQueue, request, flag, bridges, token, cancelled, history>>

\* The last handler ends; the watcher is aborted.
Exit ==
  /\ pc = "handler" /\ pc' = "done"
  /\ watcher' = "exited" /\ watchQueue' = <<>>
  /\ UNCHANGED <<loopQueue, sent, request, channel, bridges, lua, history>>

-----------------------------------------------------------------------------
WatcherStep == WatcherRecv \/ StoreFlag \/ Notify

\* Every step of the loop that does not wait for a request or for Lua.
LoopStep ==
  \/ ResetKill \/ ResetFlag \/ SpawnBridge \/ LuaInterrupted \/ AbortBridge
  \/ TakeVeto \/ HandlerReturns \/ TakeShutdown
  \/ SnapshotReturns \/ SnapshotKilled \/ LuaShutdown \/ Exit

InterruptNext ==
  \/ \E kind \in SignalKinds : SendSignal(kind)
  \/ WatcherStep
  \/ \E r \in Requests : BridgeStep(r)
  \/ LoopStep \/ TakeRequest \/ LuaReturns

\* Every task is scheduled.  A request may run for ever if nobody stops it.
Fairness ==
  /\ WF_interruptVars(WatcherStep) /\ WF_interruptVars(LoopStep)
  /\ \A r \in Requests : WF_interruptVars(BridgeStep(r))

InterruptSpec == InterruptInit /\ [][InterruptNext]_interruptVars /\ Fairness

-----------------------------------------------------------------------------
(* Properties.                                                             *)

TypeOK ==
  /\ loopQueue \in Seq({"Veto", "Shutdown"}) /\ watchQueue \in Seq({"Veto", "Shutdown"})
  /\ sent \in 0..MaxSignals /\ request \in 0..MaxRequests /\ token \in 0..request
  /\ pc \in {"select", "taken", "resetting", "spawning", "running", "returned",
             "on_signal", "shutdown", "snapshotted", "handler", "done"}
  /\ watcher \in {"watching", "interrupting", "notifying", "exited"}
  /\ (watcher \in {"interrupting", "notifying"} => watchQueue # <<>>)
  /\ {flag, permit, kill} \subseteq BOOLEAN
  /\ bridge \in [Requests -> {"none", "spawned", "checking", "arming", "waiting",
                             "interrupted", "cancelling", "done", "dropped"}]
  /\ \A r \in Requests : bridge[r] # "none" => r <= request
  /\ storedIn \in 0..request
  /\ guardAborted \subseteq 1..request /\ cancelled \subseteq 1..request /\ killed \subseteq 1..request

\* A bridge fires for an interrupt issued while its request, or a later one, was
\* at hand: what an earlier interrupt left in the flag is gone by then.
NoLeftoverInterrupt ==
  \A r \in Requests : bridge[r] \in {"interrupted", "cancelling", "done"} => storedIn >= r

\* An interrupt that finds its request running ends it: no wake-up is lost
\* between the flag and the permit.
InterruptLands == flag /\ pc = "running" ~> pc # "running"

\* base.rs: "After the event loop exits, executes the shutdown sequence: 1.
\* Capture component snapshot (if supported)".  A component that has a
\* snapshot callback and is told to shut down leaves its snapshot behind.
\* Does not hold: on_signal raises the kill flag, and only shutdown(), which
\* comes after, takes it down.
SnapshotTaken == pc \in {"snapshotted", "handler", "done"} => captured

\* base.rs: the watcher fires the interrupt "bypassing the event loop which may
\* be blocked in on_request"; so a Shutdown ends the request it meets.  Does
\* not hold: ResetFlag may wipe it.
ShutdownEndsRequest ==
  pc = "running" /\ (\E i \in DOMAIN loopQueue : loopQueue[i] = "Shutdown") ~> pc # "running"
=============================================================================
