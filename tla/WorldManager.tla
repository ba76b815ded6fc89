----------------------------- MODULE WorldManager ----------------------------
(***************************************************************************)
(* The command queue in front of the World (channel/manager.rs).  Runners  *)
(* and the engine never write the World: they push a WorldCommand into a   *)
(* bounded FIFO and await a one-shot reply.  One task takes the commands   *)
(* in order and applies each under the write lock, until it meets Shutdown *)
(* or every sender is gone; what is still queued then is dropped, and with *)
(* it the reply its sender is waiting for.                                 *)
(*                                                                         *)
(* Spawn and SpawnWithId differ only in who draws the identifier, which is *)
(* a UUID: both are the command "Spawn" here and draw it when they are     *)
(* sent.  A client is a task that holds a clone of the sender.             *)
(***************************************************************************)
EXTENDS World, SequencesExt

CONSTANTS
  Client,       \* tasks that hold a WorldCommandSender
  Configs,      \* configurations channels are created with
  Offered,      \* state transitions clients ask for
  Capacity      \* COMMAND_BUFFER_SIZE, 256 in the code

ASSUME CapacityAssumption == Capacity \in Nat \ {0}
ASSUME PrincipalAssumption == "System" \in Principal

VARIABLES
  manager,              \* "setup", "running" or "stopped"
  queue,                \* commands accepted and not yet applied
  pc,                   \* what each client is doing
  command,              \* the command a client is sending or waits on
  reply,                \* what it learned of it
  drawn,                \* identifiers generated by clients
  killSent,             \* history: channels a Kill was queued for, behind their spawn
  doomed                \* history: client's spawn was queued behind such a Kill

ASSUME ConfigsAssumption == Configs \subseteq Presets /\ Offered \subseteq Transitions

vars == <<channels, allocated, manager, queue, pc, command, reply, drawn, killSent, doomed>>

-----------------------------------------------------------------------------
Command ==
  [kind : {"Spawn"}, parent : ChannelId, id : ChannelId, config : Configs]
    \cup [kind : {"Kill", "GetState"}, id : ChannelId]
    \cup [kind : {"Update"}, id : ChannelId, t : Offered]
    \cup [kind : {"Shutdown"}]

Idle == [kind |-> "Idle"]

\* Kill and Shutdown carry no reply channel.
HasReply(cmd) == cmd.kind \notin {"Kill", "Shutdown"}

\* A queued command; live while its one-shot receiver is still held.
Entry == [client : Client, cmd : Command, live : BOOLEAN]

Reply == {"none", "accepted", "refused", "absent", "dropped", "timeout"} \cup ChannelState

Init ==
  /\ TreeInit
  /\ manager = "setup"
  /\ queue = <<>>
  /\ pc = [c \in Client |-> "idle"]
  /\ command = [c \in Client |-> Idle]
  /\ reply = [c \in Client |-> "none"]
  /\ drawn = {}
  /\ killSent = {}
  /\ doomed = [c \in Client |-> FALSE]

-----------------------------------------------------------------------------
\* with_world: the engine creates root channels in a World it still owns.
CreateRoot(id, config) ==
  /\ manager = "setup"
  /\ id \notin drawn
  /\ drawn' = drawn \cup {id}
  /\ Create(id, config, "System")
  /\ UNCHANGED <<manager, queue, pc, command, reply, killSent, doomed>>

Run ==
  /\ manager = "setup"
  /\ manager' = "running"
  /\ UNCHANGED <<treeVars, queue, pc, command, reply, drawn, killSent, doomed>>

\* A client decides on its next command and starts to send it.
Issue(c, cmd) ==
  /\ manager # "setup"
  /\ pc[c] = "idle"
  /\ cmd.kind = "Spawn" => cmd.id \notin drawn /\ cmd.parent \in drawn
  /\ cmd.kind \in {"Kill", "GetState", "Update"} => cmd.id \in drawn
  /\ drawn' = IF cmd.kind = "Spawn" THEN drawn \cup {cmd.id} ELSE drawn
  /\ pc' = [pc EXCEPT ![c] = "sending"]
  /\ command' = [command EXCEPT ![c] = cmd]
  /\ reply' = [reply EXCEPT ![c] = "none"]
  /\ UNCHANGED <<treeVars, manager, queue, killSent, doomed>>

\* Channels whose creation has been applied or is ahead in the queue.
Created ==
  allocated \cup {queue[i].cmd.id : i \in {j \in DOMAIN queue : queue[j].cmd.kind = "Spawn"}}

EntryOf(c) == [client |-> c, cmd |-> command[c], live |-> HasReply(command[c])]

EnqueueInto(c, longer) ==
  LET cmd == command[c] IN
  /\ pc[c] = "sending"
  /\ manager = "running"
  /\ queue' = longer
  /\ pc' = [pc EXCEPT ![c] = IF HasReply(cmd) THEN "waiting" ELSE "idle"]
  /\ command' = [command EXCEPT ![c] = IF HasReply(cmd) THEN cmd ELSE Idle]
  /\ killSent' = IF cmd.kind = "Kill" /\ cmd.id \in Created THEN killSent \cup {cmd.id} ELSE killSent
  /\ doomed' = [doomed EXCEPT ![c] = cmd.kind = "Spawn" /\ cmd.parent \in killSent]
  /\ UNCHANGED <<treeVars, manager, reply, drawn>>

\* Mutant of Enqueue: the newest is served first.
EnqueueFront(c) == Len(queue) < Capacity /\ EnqueueInto(c, <<EntryOf(c)>> \o queue)

\* mpsc::Sender::send completes when there is room.
Enqueue(c) == Len(queue) < Capacity /\ EnqueueInto(c, Append(queue, EntryOf(c)))

\* ... and fails once the receiver is gone.
SendFails(c) ==
  /\ pc[c] = "sending"
  /\ manager = "stopped"
  /\ pc' = [pc EXCEPT ![c] = "idle"]
  /\ reply' = [reply EXCEPT ![c] = "dropped"]
  /\ command' = [command EXCEPT ![c] = Idle]
  /\ UNCHANGED <<treeVars, manager, queue, drawn, killSent, doomed>>

\* Mutant of Applied: kill forgets the children.
AppliedShallowKill(cmd) ==
  CASE cmd.kind = "Spawn" -> SpawnOf(channels, cmd.parent, cmd.id, cmd.config)
    [] cmd.kind = "Kill" -> [c \in DOMAIN channels \ {cmd.id} |-> channels[c]]
    [] cmd.kind = "Update" -> TransitionOf(channels, cmd.id, cmd.t)
    [] cmd.kind = "GetState" -> channels

\* What apply_command makes of the tree.
Applied(cmd) ==
  CASE cmd.kind = "Spawn" -> SpawnOf(channels, cmd.parent, cmd.id, cmd.config)
    [] cmd.kind = "Kill" -> IF cmd.id \in DOMAIN channels THEN KillOf(channels, cmd.id) ELSE channels
    [] cmd.kind = "Update" -> TransitionOf(channels, cmd.id, cmd.t)
    [] cmd.kind = "GetState" -> channels

\* What it answers.
Answer(cmd) ==
  LET YesNo(b) == IF b THEN "accepted" ELSE "refused" IN
  CASE cmd.kind = "Spawn" -> YesNo(cmd.parent \in DOMAIN channels)
    [] cmd.kind = "Update" -> YesNo(Accepts(channels, cmd.id, cmd.t))
    [] cmd.kind = "GetState" -> IF cmd.id \in DOMAIN channels THEN channels[cmd.id].state ELSE "absent"
    [] OTHER -> "none"

\* One turn of the run loop.
Process ==
  /\ manager = "running"
  /\ queue # <<>>
  /\ Head(queue).cmd.kind # "Shutdown"
  /\ queue' = Tail(queue)
  /\ channels' = Applied(Head(queue).cmd)
  /\ allocated' = IF Head(queue).cmd.kind = "Spawn" THEN allocated \cup {Head(queue).cmd.id} ELSE allocated
  /\ IF Head(queue).live
     THEN /\ pc' = [pc EXCEPT ![Head(queue).client] = "idle"]
          /\ reply' = [reply EXCEPT ![Head(queue).client] = Answer(Head(queue).cmd)]
          /\ command' = [command EXCEPT ![Head(queue).client] = Idle]
     ELSE UNCHANGED <<pc, command, reply>>
  /\ UNCHANGED <<manager, drawn, killSent, doomed>>

StopReleasing(orphans) ==
  /\ manager = "running"
  /\ queue # <<>>
  /\ Head(queue).cmd.kind = "Shutdown"
  /\ manager' = "stopped"
  /\ queue' = <<>>
  /\ pc' = [c \in Client |-> IF c \in orphans THEN "idle" ELSE pc[c]]
  /\ reply' = [c \in Client |-> IF c \in orphans THEN "dropped" ELSE reply[c]]
  /\ command' = [c \in Client |-> IF c \in orphans THEN Idle ELSE command[c]]
  /\ UNCHANGED <<treeVars, drawn, killSent, doomed>>

\* Mutant of Stop: the queue goes, the reply senders in it are kept.
StopSilently == StopReleasing({})

\* The loop breaks on Shutdown and run() returns: the receiver is dropped with
\* everything behind the Shutdown, and so are the reply senders in it.
Stop == StopReleasing({queue[i].client : i \in {j \in DOMAIN queue : queue[j].live}})

\* recv() returns None once every sender is dropped and the queue is empty.
AllGone ==
  /\ manager = "running"
  /\ queue = <<>>
  /\ \A c \in Client : pc[c] = "gone"
  /\ manager' = "stopped"
  /\ UNCHANGED <<treeVars, queue, pc, command, reply, drawn, killSent, doomed>>

\* send_abort waits ABORT_TIMEOUT_MS; the command stays queued.
GiveUp(c) ==
  /\ pc[c] = "waiting"
  /\ command[c].kind = "Update" /\ command[c].t.kind = "Abort"
  /\ pc' = [pc EXCEPT ![c] = "idle"]
  /\ reply' = [reply EXCEPT ![c] = "timeout"]
  /\ command' = [command EXCEPT ![c] = Idle]
  /\ queue' = [i \in DOMAIN queue |->
                IF queue[i].client = c THEN [queue[i] EXCEPT !.live = FALSE] ELSE queue[i]]
  /\ UNCHANGED <<treeVars, manager, drawn, killSent, doomed>>

\* A task ends and drops its sender.
DropSender(c) ==
  /\ manager # "setup"
  /\ pc[c] = "idle"
  /\ pc' = [pc EXCEPT ![c] = "gone"]
  /\ UNCHANGED <<treeVars, manager, queue, command, reply, drawn, killSent, doomed>>

Next ==
  \/ \E id \in ChannelId, config \in Configs : CreateRoot(id, config)
  \/ Run
  \/ \E c \in Client, cmd \in Command : Issue(c, cmd)
  \/ \E c \in Client : Enqueue(c)
  \/ \E c \in Client : SendFails(c)
  \/ Process
  \/ Stop
  \/ AllGone
  \/ \E c \in Client : GiveUp(c)
  \/ \E c \in Client : DropSender(c)

\* The manager's task is scheduled; a blocked sender is served in FIFO order by
\* tokio's semaphore, so it is not overtaken for ever.
Fairness ==
  /\ WF_vars(Run) /\ WF_vars(Process) /\ WF_vars(Stop)
  /\ \A c \in Client : SF_vars(Enqueue(c)) /\ WF_vars(SendFails(c))

Spec == Init /\ [][Next]_vars /\ Fairness

-----------------------------------------------------------------------------
(* Properties.                                                             *)

TypeOK ==
  /\ TreeTypeOK
  /\ manager \in {"setup", "running", "stopped"}
  /\ queue \in Seq(Entry) /\ Len(queue) <= Capacity
  /\ pc \in [Client -> {"idle", "sending", "waiting", "gone"}]
  /\ command \in [Client -> Command \cup {Idle}]
  /\ reply \in [Client -> Reply]
  /\ allocated \subseteq drawn /\ drawn \subseteq ChannelId
  /\ killSent \subseteq drawn
  /\ doomed \in [Client -> BOOLEAN]

\* Kill is fire-and-forget, yet a spawn queued after it never finds the killed
\* parent: the queue alone orders them.
KillOrdersSpawn ==
  \A c \in Client : doomed[c] /\ pc[c] # "waiting" => reply[c] # "accepted"

\* Every command is applied as one atomic step of the World, in queue order:
\* readers under the read lock only ever see trees that World allows.
ImplementsWorld == TreeSpec

\* A client that sends or awaits is always released: by the answer, or by the
\* error of a manager that stopped with the command in its queue.
Released ==
  \A c \in Client : pc[c] \in {"sending", "waiting"} ~> pc[c] \in {"idle", "gone"}
=============================================================================
