------------------------------- MODULE Engine -------------------------------
(***************************************************************************)
(* The life of runners as OrcsEngine sees it (engine/engine.rs), the two   *)
(* registries of the EventBus (engine/eventbus.rs), the runners that       *)
(* components spawn (channel/runner/child_context.rs) and the supervisor   *)
(* among them (builtins/agent_mgr.lua).  A runner is found by looking its  *)
(* name up in one map and the channel it gives in another.  Four kinds of  *)
(* task write these maps, each behind its own lock: the engine, the exit   *)
(* monitor, and the wrapper around every runner a component spawned.       *)
(*                                                                         *)
(* Channels are numbered in the order they are drawn.  What a runner does  *)
(* between its start and its end is ChannelRunner.tla.  All restarts fall  *)
(* into one RESTART_WINDOW_SECS.                                           *)
(***************************************************************************)
EXTENDS Naturals, Sequences, FiniteSets

CONSTANTS
  Boot,           \* components the engine spawns before it starts
  Client,         \* the one of them that is a ClientRunner
  Supervisor,     \* the one of them that restarts others: agent_mgr
  Supervised,     \* the components it spawns and restarts
  MaxRestarts,    \* MAX_RESTARTS, 3 in the script
  InboxMax,       \* EVENT_BUFFER_SIZE, 64
  MayPanic        \* a component may panic

Name == Boot \cup Supervised

ASSUME EngineAssumption ==
  /\ Client \in Boot /\ Supervisor \in Boot \ {Client} /\ Boot \cap Supervised = {}
  /\ IsFiniteSet(Name) /\ MaxRestarts \in Nat /\ InboxMax \in Nat \ {0} /\ MayPanic \in BOOLEAN

\* Every component once, and the restarts.
MaxRunners == Cardinality(Boot) + (MaxRestarts + 1) * Cardinality(Supervised)
Channel == 1..MaxRunners
Nobody == 0

VARIABLES
  phase,        \* the engine: setup, running, stopping, awaiting, unlisting, done
  up,           \* the WorldManager is running
  drawn,        \* channels drawn so far
  name, stage,  \* of each channel: its component, and how far its task is
  waits,        \* waits[p]: the channel whose ready p's component waits for
  engineOwn,    \* channel_handles: runners the engine spawned itself
  tasks,        \* of those, the ones shutdown still awaits
  timedOut,     \* and those it gave up on
  snapshots,    \* collected_snapshots
  handles,      \* the shared map from channels to handles (its domain)
  map,          \* the shared map from names to channels
  notices,      \* exit notices on their way to the monitor
  monitor, dead,         \* the monitor task, and the notice it works on
  inbox,        \* events the supervisor has not handled; runner_exited by name
  tracked, restarts,     \* the supervisor's memory
  overlapped,   \* history: had the name together with a runner of the same name
  missed        \* history: an event did not get into the supervisor's inbox

engine == <<phase, up, tasks, timedOut, snapshots>>
runners == <<drawn, name, stage, waits, engineOwn>>
registry == <<handles, map>>
monitoring == <<notices, monitor, dead>>
supervision == <<inbox, tracked, restarts>>
history == <<overlapped, missed>>
vars == <<engine, runners, registry, monitoring, supervision, history>>

Init ==
  /\ phase = "setup" /\ up = TRUE /\ tasks = {} /\ timedOut = {}
  /\ snapshots = [n \in Name |-> Nobody]
  /\ drawn = 0 /\ name = [c \in Channel |-> Client] /\ stage = [c \in Channel |-> "free"]
  /\ waits = [c \in Channel |-> Nobody] /\ engineOwn = {}
  /\ handles = {} /\ map = [n \in Name |-> Nobody]
  /\ notices = <<>> /\ monitor = "off" /\ dead = Nobody
  /\ inbox = <<>> /\ tracked = {} /\ restarts = [n \in Supervised |-> 0]
  /\ overlapped = {} /\ missed = FALSE

\* The wrapper of c has begun and has not ended.
Unfinished(c) == stage[c] \in {"listed", "running", "spawning", "returned", "noticed", "unlisted"}

\* The runner of c is in its loop.
Alive(c) == stage[c] \in {"running", "spawning"}

Moves(c, from, to) == stage[c] = from /\ stage' = [stage EXCEPT ![c] = to]

-----------------------------------------------------------------------------
(* The engine at start.                                                    *)

\* finalize_runner, or spawn_client_runner, which has no name to register and
\* comes first, because the others write to its queue.
SpawnBoot(n) ==
  LET c == drawn + 1 IN
  /\ phase = "setup" /\ (drawn = 0 <=> n = Client)
  /\ n \in Boot /\ \A d \in 1..drawn : name[d] # n
  /\ drawn' = c /\ name' = [name EXCEPT ![c] = n] /\ stage' = [stage EXCEPT ![c] = "running"]
  /\ engineOwn' = engineOwn \cup {c}
  /\ handles' = handles \cup {c}
  /\ map' = IF n = Client THEN map ELSE [map EXCEPT ![n] = c]
  /\ UNCHANGED <<engine, waits, monitoring, supervision, history>>

\* start() and the monitor.
Start ==
  /\ phase = "setup" /\ phase' = "running"
  /\ \A n \in Boot : \E c \in engineOwn : name[c] = n
  /\ monitor' = "idle"
  /\ UNCHANGED <<up, tasks, timedOut, snapshots, runners, registry, notices, dead, supervision, history>>

-----------------------------------------------------------------------------
(* A component spawns a runner and waits until it is ready.                *)

SpawnRunner(p, n) ==
  LET c == drawn + 1 IN
  /\ drawn' = c /\ name' = [name EXCEPT ![c] = n]
  /\ stage' = [stage EXCEPT ![c] = "registering", ![p] = "spawning"]
  /\ waits' = [waits EXCEPT ![p] = c]
  /\ UNCHANGED <<engine, engineOwn, registry, monitoring, history>>

\* agent_mgr, init(): the first runner of each supervised component.
SpawnFirst(p, n) ==
  /\ stage[p] = "running" /\ name[p] = Supervisor
  /\ n \in Supervised /\ \A d \in 1..drawn : name[d] # n
  /\ SpawnRunner(p, n)
  /\ tracked' = tracked \cup {n}
  /\ UNCHANGED <<inbox, restarts>>

\* The world command is applied, or its reply is dropped by the manager.
Registered(c) ==
  /\ Moves(c, "registering", IF up THEN "building" ELSE "failed")
  /\ UNCHANGED <<engine, drawn, name, waits, engineOwn, registry, monitoring, supervision, history>>

ListHandle(c) ==
  /\ Moves(c, "building", "listed")
  /\ handles' = handles \cup {c}
  /\ UNCHANGED <<engine, drawn, name, waits, engineOwn, map, monitoring, supervision, history>>

\* ready_tx fires, and the runner starts.
ListName(c) ==
  LET rivals == {d \in Channel \ {c} : name[d] = name[c] /\ Unfinished(d)} IN
  /\ Moves(c, "listed", "running")
  /\ map' = [map EXCEPT ![name[c]] = c]
  /\ overlapped' = IF rivals = {} THEN overlapped ELSE overlapped \cup rivals \cup {c}
  /\ UNCHANGED <<engine, drawn, name, waits, engineOwn, handles, monitoring, supervision, missed>>

\* spawn_runner_from_script returns: ready, dropped, or five seconds are over.
Resumes(p) ==
  /\ waits[p] # Nobody
  /\ Moves(p, "spawning", "running")
  /\ waits' = [waits EXCEPT ![p] = Nobody]
  /\ UNCHANGED <<engine, drawn, name, engineOwn, registry, monitoring, supervision, history>>

-----------------------------------------------------------------------------
(* A runner ends.                                                          *)

\* Shutdown, Cancel, a stop of its own: run() returns.
Exit(c) ==
  /\ Moves(c, "running", "returned")
  /\ UNCHANGED <<engine, drawn, name, waits, engineOwn, registry, monitoring, supervision, history>>

\* The task unwinds: no notice, no clean-up.
Panic(c) ==
  /\ MayPanic
  /\ Moves(c, "running", "panicked")
  /\ UNCHANGED <<engine, drawn, name, waits, engineOwn, registry, monitoring, supervision, history>>

\* The receiver is dropped with the monitor.
ReceiverAlive == phase \in {"setup", "running", "stopping"} \/ monitor # "off"

\* The wrapper sends its notice; a task of the engine ends with it.
SendNotice(c) ==
  /\ Moves(c, "returned", IF c \in engineOwn THEN "gone" ELSE "noticed")
  /\ notices' = IF name[c] # Client /\ ReceiverAlive THEN Append(notices, c) ELSE notices
  /\ UNCHANGED <<engine, drawn, name, waits, engineOwn, registry, monitor, dead, supervision, history>>

UnlistHandle(c) ==
  /\ Moves(c, "noticed", "unlisted")
  /\ handles' = handles \ {c}
  /\ UNCHANGED <<engine, drawn, name, waits, engineOwn, map, monitoring, supervision, history>>

\* map.remove(&component_fqn): by name, whoever has it now.
UnlistName(c) ==
  /\ Moves(c, "unlisted", "gone")
  /\ map' = [map EXCEPT ![name[c]] = Nobody]
  /\ UNCHANGED <<engine, drawn, name, waits, engineOwn, handles, monitoring, supervision, history>>

-----------------------------------------------------------------------------
(* The exit monitor.                                                       *)

Supervisors == {c \in handles : name[c] = Supervisor /\ Alive(c)}

\* Mutant of Broadcast: a runner inside a handler is passed over.
BroadcastIdle(n) ==
  /\ inbox' = IF (\E c \in Supervisors : stage[c] = "running") /\ Len(inbox) < InboxMax
              THEN Append(inbox, n) ELSE inbox
  /\ missed' = (missed \/ Len(inbox) = InboxMax)

\* try_inject into every listed handle: a full or closed inbox takes nothing.
Broadcast(n) ==
  /\ inbox' = IF Supervisors # {} /\ Len(inbox) < InboxMax THEN Append(inbox, n) ELSE inbox
  /\ missed' = (missed \/ Len(inbox) = InboxMax)

MonitorRecv ==
  /\ monitor = "idle" /\ notices # <<>>
  /\ monitor' = "handle" /\ dead' = Head(notices) /\ notices' = Tail(notices)
  /\ Broadcast(name[dead'])
  /\ UNCHANGED <<engine, runners, registry, tracked, restarts, overlapped>>

MonitorUnlistHandle ==
  /\ monitor = "handle" /\ monitor' = "name"
  /\ handles' = handles \ {dead}
  /\ UNCHANGED <<engine, runners, map, notices, dead, supervision, history>>

\* Mutant of Retained: the monitor, too, removes by name.
RetainedByName(c) == [map EXCEPT ![name[c]] = Nobody]

\* map.retain: the entries of other channels.
Retained(c) == [n \in Name |-> IF map[n] = c THEN Nobody ELSE map[n]]

\* abort() takes effect when the monitor is back at recv.
MonitorUnlistName ==
  /\ monitor = "name"
  /\ monitor' = IF phase \in {"setup", "running", "stopping"} THEN "idle" ELSE "off"
  /\ map' = Retained(dead) /\ dead' = Nobody
  /\ UNCHANGED <<engine, runners, handles, notices, supervision, history>>

-----------------------------------------------------------------------------
(* The supervisor's inbox.                                                 *)

\* Any other event, the input of a user for one; it names no runner.
SendOther ==
  /\ Supervisors # {} /\ Len(inbox) < InboxMax
  /\ inbox' = Append(inbox, Client)
  /\ UNCHANGED <<engine, runners, registry, monitoring, tracked, restarts, history>>

Restart(p) ==
  /\ stage[p] = "running" /\ name[p] = Supervisor /\ inbox # <<>>
  /\ LET n == Head(inbox) IN
     /\ n \in tracked /\ restarts[n] < MaxRestarts
     /\ restarts' = [restarts EXCEPT ![n] = @ + 1]
     /\ SpawnRunner(p, n)
  /\ inbox' = Tail(inbox)
  /\ UNCHANGED tracked

\* Another event or runner, or one restarted too often, which is forgotten.
Forget(p) ==
  /\ stage[p] = "running" /\ name[p] = Supervisor /\ inbox # <<>>
  /\ LET n == Head(inbox) IN
     /\ n \in tracked => restarts[n] >= MaxRestarts
     /\ tracked' = tracked \ {n}
  /\ inbox' = Tail(inbox)
  /\ UNCHANGED <<engine, runners, registry, monitoring, restarts, history>>

-----------------------------------------------------------------------------
(* stop() and shutdown_parallel().                                         *)

\* Shutdown is broadcast; every runner may take it or be stuck in a request.
Stop ==
  /\ phase = "running" /\ phase' = "stopping"
  /\ UNCHANGED <<up, tasks, timedOut, snapshots, runners, registry, monitoring, supervision, history>>

\* Mutant of Drained: runners that have ended already are not awaited.
DrainedAlive == {c \in engineOwn : stage[c] # "gone"}

\* runner_tasks.drain().
Drained == engineOwn

BeginShutdown ==
  /\ phase = "stopping" /\ phase' = "awaiting"
  /\ tasks' = Drained
  /\ monitor' = IF monitor = "idle" THEN "off" ELSE monitor
  /\ UNCHANGED <<up, timedOut, snapshots, runners, registry, notices, dead, supervision, history>>

\* A finished runner gives its snapshot; a ClientRunner has none.
Collect(c) ==
  /\ phase = "awaiting" /\ c \in tasks /\ stage[c] \in {"gone", "panicked"}
  /\ tasks' = tasks \ {c}
  /\ snapshots' = IF stage[c] = "gone" /\ name[c] # Client
                  THEN [snapshots EXCEPT ![name[c]] = c] ELSE snapshots
  /\ UNCHANGED <<phase, up, timedOut, runners, registry, monitoring, supervision, history>>

\* Mutant of TimeOut: there is no limit while a component spawns.
TimeOutUnlessSpawning(c) ==
  /\ phase = "awaiting" /\ c \in tasks /\ stage[c] \notin {"gone", "panicked", "running", "spawning"}
  /\ tasks' = tasks \ {c} /\ timedOut' = timedOut \cup {c}
  /\ UNCHANGED <<phase, up, snapshots, runners, registry, monitoring, supervision, history>>

\* Five seconds are over; task.abort().
TimeOut(c) ==
  /\ phase = "awaiting" /\ c \in tasks /\ stage[c] \notin {"gone", "panicked"}
  /\ tasks' = tasks \ {c} /\ timedOut' = timedOut \cup {c}
  /\ UNCHANGED <<phase, up, snapshots, runners, registry, monitoring, supervision, history>>

\* The abort lands at an await of the runner, not inside block_in_place.
AbortLands(c) ==
  /\ c \in timedOut /\ Moves(c, "running", "aborted")
  /\ UNCHANGED <<engine, drawn, name, waits, engineOwn, registry, monitoring, supervision, history>>

\* WorldCommand::Shutdown, and the manager's task is awaited.
StopManager ==
  /\ phase = "awaiting" /\ tasks = {}
  /\ up' = FALSE /\ phase' = "unlisting"
  /\ UNCHANGED <<tasks, timedOut, snapshots, runners, registry, monitoring, supervision, history>>

\* unregister_channel for every handle the engine kept.
Unregister ==
  /\ phase = "unlisting" /\ phase' = "done"
  /\ handles' = handles \ engineOwn
  /\ map' = [n \in Name |-> IF map[n] \in engineOwn THEN Nobody ELSE map[n]]
  /\ UNCHANGED <<up, tasks, timedOut, snapshots, runners, monitoring, supervision, history>>

-----------------------------------------------------------------------------
\* What a runner's task does besides waiting for messages.
Wrapper(c) ==
  Registered(c) \/ ListHandle(c) \/ ListName(c) \/ Resumes(c)
    \/ SendNotice(c) \/ UnlistHandle(c) \/ UnlistName(c)

Monitor == MonitorRecv \/ MonitorUnlistHandle \/ MonitorUnlistName

Supervise(p) == Restart(p) \/ Forget(p)

EngineStep ==
  \/ \E n \in Boot : SpawnBoot(n)
  \/ Start \/ BeginShutdown \/ StopManager \/ Unregister
  \/ \E c \in Channel : Collect(c) \/ TimeOut(c)

Next ==
  \/ EngineStep \/ Stop \/ SendOther
  \/ \E p \in Channel, n \in Supervised : SpawnFirst(p, n)
  \/ \E c \in Channel : Wrapper(c) \/ Exit(c) \/ Panic(c) \/ AbortLands(c) \/ Supervise(c)
  \/ Monitor

\* Tasks are scheduled and timers run out; the supervisor returns from its
\* handler.  Nobody has to stop the engine, and no other runner has to end.
Fairness ==
  /\ WF_vars(EngineStep) /\ WF_vars(Monitor)
  /\ \A c \in Channel : WF_vars(Wrapper(c)) /\ WF_vars(Supervise(c))

Spec == Init /\ [][Next]_vars /\ Fairness

-----------------------------------------------------------------------------
(* Properties.                                                             *)

Stage == {"free", "registering", "building", "listed", "running", "spawning", "returned",
          "noticed", "unlisted", "gone", "failed", "panicked", "aborted"}

\* The state is well-formed; only runners that exist are listed, under their
\* own name.
TypeOK ==
  /\ phase \in {"setup", "running", "stopping", "awaiting", "unlisting", "done"}
  /\ up \in BOOLEAN /\ drawn \in 0..MaxRunners
  /\ name \in [Channel -> Name] /\ stage \in [Channel -> Stage]
  /\ \A c \in Channel : stage[c] = "free" <=> c > drawn
  /\ waits \in [Channel -> Channel \cup {Nobody}]
  /\ \A c \in Channel : waits[c] # Nobody <=> stage[c] = "spawning"
  /\ engineOwn \subseteq 1..drawn /\ tasks \subseteq engineOwn /\ timedOut \subseteq engineOwn
  /\ snapshots \in [Name -> engineOwn \cup {Nobody}]
  /\ handles \subseteq 1..drawn /\ map \in [Name -> 0..drawn]
  /\ \A n \in Name : map[n] # Nobody => name[map[n]] = n
  /\ notices \in Seq(1..drawn) /\ monitor \in {"off", "idle", "handle", "name"}
  /\ dead \in 0..drawn /\ (dead # Nobody <=> monitor \in {"handle", "name"})
  /\ inbox \in Seq(Name) /\ Len(inbox) <= InboxMax
  /\ tracked \subseteq Supervised /\ restarts \in [Supervised -> 0..MaxRestarts]
  /\ overlapped \subseteq 1..drawn /\ missed \in BOOLEAN

\* What a caller finds under the name of c is c.
Found(c) == map[name[c]] = c /\ c \in handles

\* A component is found under its name from its ready on for as long as its
\* runner is in the loop, whatever late clean-up of an earlier runner comes
\* in between, unless that runner's wrapper had not ended when c registered.
FoundUnlessOverlapped ==
  \A c \in Channel :
    Alive(c) /\ name[c] # Client /\ c \notin overlapped \cup timedOut => Found(c)

\* child_context.rs: the ready receiver fires when the registration is complete
\* "and the Component is ready to receive RPC requests", so callers find the
\* newest runner of a name while it runs.
Reachable ==
  \A c \in Channel \ timedOut :
    Alive(c) /\ name[c] # Client /\ (\A d \in Channel : d > c => name[d] # name[c]) => Found(c)

Ended == {c \in Channel : stage[c] = "gone" /\ name[c] # Client}

\* Shutdown keeps the snapshot of every runner the engine spawned that ended in
\* time, before or after the signal, and no snapshot of another.
SnapshotsKept ==
  phase \in {"unlisting", "done"} =>
    \A c \in engineOwn : name[c] # Client =>
      (snapshots[name[c]] = c <=> stage[c] # "panicked" /\ c \notin timedOut)

\* A stop always comes to its end, whatever runners and components do.
StopEnds == phase = "stopping" ~> phase = "done"

\* A supervised component that ends is restarted, unless the supervisor gave up
\* on it, ended, panicked or missed an event, or the engine is told to stop.
Restarted ==
  \A n \in Supervised :
    LET Down == \E c \in Ended : name[c] = n /\ \A d \in 1..drawn : d > c => name[d] # n
    IN  Down ~> \/ ~Down \/ n \notin tracked \/ missed
                \/ phase \in {"stopping", "awaiting", "unlisting", "done"}
                \/ \E p \in engineOwn : name[p] = Supervisor /\ ~Alive(p)
=============================================================================
