--------------------------- MODULE ChannelRunner ---------------------------
(***************************************************************************)
(* The event loop that binds one channel to one component                  *)
(* (channel/runner/base.rs, common.rs, paused_queue.rs).  A biased select  *)
(* takes signals before RPC requests before events; each message is        *)
(* handled to its end, through every await in the handler, before the next *)
(* is taken.  The channel's state lives in the World: the runner asks the  *)
(* WorldManager to change it and reads it back, so that a kill, a late     *)
(* abort or a manager that stopped can come between any two of its steps.  *)
(*                                                                         *)
(* Self is the channel; other runners show here as signals that are not    *)
(* for it.  The manager applies a command and answers in one step, which   *)
(* WorldManager.tla refines.                                               *)
(***************************************************************************)
EXTENDS Naturals, Sequences, FiniteSets, SequencesExt

CONSTANTS
  Self,            \* the runner's channel
  Request,         \* kinds of request, told apart by what they need
  Pattern,         \* permission patterns a user can be asked for
  Needs,           \* Needs[r]: the patterns the component wants for r
  SignalKinds,     \* kinds of signal the environment sends
  AbortsOn,        \* kinds the component answers with SignalResponse::Abort
  HookMaySkip,     \* a pre-dispatch hook may skip or abort what it sees
  MayKill,         \* somebody kills the channel through world_tx
  MayTimeOut,      \* an abort may outlast ABORT_TIMEOUT_MS
  SignalMax,       \* SIGNAL_BUFFER_SIZE, 256 in the code
  EventMax,        \* EVENT_BUFFER_SIZE, 64
  PausedMax,       \* PAUSED_QUEUE_MAX_SIZE, 128
  MaxSignals, MaxEvents, MaxRpcs, MaxApprovals   \* bounds of the model

Kind == {"Veto", "Cancel", "Shutdown", "Pause", "Resume", "Approve", "Reject", "Steer", "Other"}

ASSUME RunnerAssumption ==
  /\ Needs \in [Request -> SUBSET Pattern]
  /\ SignalKinds \subseteq Kind /\ AbortsOn \subseteq Kind
  /\ {HookMaySkip, MayKill, MayTimeOut} \subseteq BOOLEAN
  /\ {SignalMax, EventMax, PausedMax} \subseteq Nat \ {0}
  /\ {MaxSignals, MaxEvents, MaxRpcs, MaxApprovals} \subseteq Nat

VARIABLES
  \* the World, and the manager in front of it
  channels, up,      \* up: the WorldManager is running
  late,              \* an abort whose sender gave up is still queued
  \* what is on its way to the runner
  signals, lagged,   \* the broadcast ring; lagged: it overwrote unread signals
  events, rpcs,
  open,              \* the channels that still have a sender
  \* the runner
  pc, current, isRpc, asked, why, exit,
  batch,             \* events taken and not yet processed: one from the buffer, or a paused queue
  paused,            \* paused_queue
  pending,           \* pending_approval
  children,          \* its children were not told to abort
  \* the user
  grants,            \* patterns granted
  shown,             \* the approval requests that reached the user
  \* history
  filed,             \* the pattern asked for by each approval request
  overtaken,         \* approval requests made while another one waited
  approved,          \* approval requests the user answered with Approve
  sent, sentEvents, sentRpcs,
  log,               \* the events dispatched, by the order they were sent in
  selfStop,          \* the component called request_stop
  lost               \* a signal was overwritten in the ring, or skipped by a hook

world == <<channels, up, late>>
inbox == <<signals, lagged, events, rpcs, open>>
loop == <<pc, current, isRpc, asked, why, exit, batch, paused, pending, children>>
asks == <<filed, overtaken>>
user == <<grants, shown, asks>>
history == <<approved, sent, sentEvents, sentRpcs, log, selfStop, lost>>
vars == <<world, inbox, loop, user, history>>

ApprovalId == 1..MaxApprovals
None == "none"
NoTransition == [kind |-> "none"]
NoPending == [id |-> 0]

W == INSTANCE World
  WITH ChannelId <- {Self}, allocated <- {Self}, Principal <- {"System"},
       NoChannel <- None, NoApproval <- 0

-----------------------------------------------------------------------------
\* An event; wanted unless it is a broadcast outside the subscriptions.
Event == [n : 1..MaxEvents, r : Request, wanted : BOOLEAN]

\* Signals for this channel, global or by scope; "Other" is for another one.
Signal ==
  [kind : Kind \ {"Approve", "Reject"}] \cup [kind : {"Approve", "Reject"}, id : ApprovalId]

Pending == [id : ApprovalId, pattern : Pattern, request : Request]

IsActive == Self \in DOMAIN channels /\ ~W!IsTerminal(channels, Self)
\* Mutant of IsPaused: the answer is guessed from the runner's own queue.
IsPausedCached == paused # <<>>
IsPaused == Self \in DOMAIN channels /\ channels[Self].state = "Paused"

AwaitsApproval(a) ==
  /\ Self \in DOMAIN channels
  /\ channels[Self].state = "AwaitingApproval" /\ channels[Self].request_id = a

Init ==
  /\ channels = W!CreateOf(<<>>, Self, W!default, "System")
  /\ up = TRUE /\ late = FALSE
  /\ signals = <<>> /\ lagged = FALSE /\ events = <<>> /\ rpcs = <<>>
  /\ open = {"signals", "events"}
  /\ pc = "select" /\ current = None /\ isRpc = FALSE /\ asked = NoTransition
  /\ why = None /\ exit = None
  /\ batch = <<>> /\ paused = <<>> /\ pending = NoPending /\ children = TRUE
  /\ grants = {} /\ shown = {} /\ filed = <<>> /\ overtaken = {}
  /\ approved = {} /\ sent = 0 /\ sentEvents = 0 /\ sentRpcs = 0 /\ log = <<>>
  /\ selfStop = FALSE /\ lost = FALSE

-----------------------------------------------------------------------------
(* The environment.                                                        *)

\* broadcast::send: a full ring overwrites its oldest signal.
SendSignal(s) ==
  /\ "signals" \in open /\ pc # "done"
  /\ sent < MaxSignals /\ sent' = sent + 1
  /\ s.kind \in {"Approve", "Reject"} => s.id \in shown
  /\ approved' = IF s.kind = "Approve" THEN approved \cup {s.id} ELSE approved
  /\ IF Len(signals) < SignalMax
     THEN signals' = Append(signals, s) /\ UNCHANGED lagged
     ELSE signals' = Append(Tail(signals), s) /\ lagged' = TRUE
  /\ lost' = (lost \/ Len(signals) = SignalMax)
  /\ UNCHANGED <<world, events, rpcs, open, loop, user, sentEvents, sentRpcs, log, selfStop>>

SendEvent(r, wanted) ==
  /\ "events" \in open /\ pc # "done"
  /\ sentEvents < MaxEvents /\ Len(events) < EventMax
  /\ sentEvents' = sentEvents + 1
  /\ events' = Append(events, [n |-> sentEvents + 1, r |-> r, wanted |-> wanted])
  /\ UNCHANGED <<world, signals, lagged, rpcs, open, loop, user, approved, sent, sentRpcs, log,
                 selfStop, lost>>

SendRpc(r) ==
  /\ pc # "done" /\ sentRpcs < MaxRpcs
  /\ sentRpcs' = sentRpcs + 1
  /\ rpcs' = Append(rpcs, r)
  /\ UNCHANGED <<world, signals, lagged, events, open, loop, user, approved, sent, sentEvents, log,
                 selfStop, lost>>

\* The last sender of signals or of events is dropped.
CloseSender(which) ==
  /\ which \in open
  /\ open' = open \ {which}
  /\ UNCHANGED <<world, signals, lagged, events, rpcs, loop, user, history>>

\* Kill through a clone of world_tx.
Kill ==
  /\ MayKill /\ up /\ Self \in DOMAIN channels
  /\ channels' = W!KillOf(channels, Self)
  /\ UNCHANGED <<up, late, inbox, loop, user, history>>

\* The manager meets Shutdown; a late abort behind it is lost.
ManagerStops ==
  /\ up /\ up' = FALSE
  /\ late' = FALSE
  /\ UNCHANGED <<channels, inbox, loop, user, history>>

\* The manager gets to an abort its sender no longer waits for.
LateAbort ==
  /\ up /\ late
  /\ late' = FALSE
  /\ channels' = W!TransitionOf(channels, Self, [kind |-> "Abort"])
  /\ UNCHANGED <<up, inbox, loop, user, history>>

-----------------------------------------------------------------------------
(* Taking a message.                                                       *)

\* The select is biased: a branch is polled when those before it are pending.
NoSignal == signals = <<>> /\ ~lagged /\ "signals" \in open

RecvLagged ==
  /\ pc = "select" /\ lagged
  /\ lagged' = FALSE
  /\ pc' = "check"
  /\ UNCHANGED <<world, signals, events, rpcs, open, current, isRpc, asked, why, exit,
                 batch, paused, pending, children, user, history>>

\* recv() on a closed channel, once it is empty.
RecvClosed ==
  /\ pc = "select" /\ ~lagged
  /\ \/ signals = <<>> /\ "signals" \notin open /\ exit' = "SignalChannelClosed"
     \/ NoSignal /\ rpcs = <<>> /\ events = <<>> /\ "events" \notin open /\ exit' = "EventChannelClosed"
  /\ pc' = "stopping"
  /\ UNCHANGED <<world, inbox, current, isRpc, asked, why, batch, paused, pending, children,
                 user, history>>

\* The signal at the head is taken, and is for this channel.
Take(s) ==
  /\ pc = "select" /\ ~lagged /\ signals # <<>> /\ s = Head(signals)
  /\ signals' = Tail(signals)
  /\ UNCHANGED <<lagged, events, rpcs, open, user, approved, sent, sentEvents, sentRpcs, log, selfStop>>

\* Mutant of Stops: only the component can ask for it.
StopsByComponent(s) == s.kind \in AbortsOn \ {"Veto", "Other"}

\* The component or the channel level asks to stop; Veto never does.
Stops(s) == s.kind \in {"Cancel", "Shutdown"} \cup (AbortsOn \ {"Veto", "Other"})

TransitionFor(s) ==
  CASE s.kind = "Pause" -> [kind |-> "Pause"]
    [] s.kind = "Resume" -> [kind |-> "Resume"]
    [] s.kind = "Approve" -> [kind |-> "ResolveApproval", approval_id |-> s.id]

IsRejectOfPending(s) == s.kind = "Reject" /\ pending # NoPending /\ pending.id = s.id

\* Not for this channel, skipped by a hook, or without effect on it.
HandleNoop(s) ==
  /\ Take(s)
  /\ \/ HookMaySkip /\ lost' = TRUE
     \/ s.kind = "Other" /\ UNCHANGED lost
     \/ ~Stops(s) /\ s.kind \in {"Veto", "Steer"} /\ UNCHANGED lost
     \/ ~Stops(s) /\ s.kind = "Reject" /\ ~IsRejectOfPending(s) /\ UNCHANGED lost
  /\ pc' = "check"
  /\ UNCHANGED <<world, current, isRpc, asked, why, exit, batch, paused, pending, children>>

\* Mutant of HandleStop: the World is not told.
HandleStopSilently(s) ==
  /\ Take(s)
  /\ Stops(s)
  /\ children' = FALSE
  /\ pc' = "stopping" /\ exit' = "Signal"
  /\ UNCHANGED <<world, current, isRpc, asked, why, batch, paused, pending, lost>>

HandleStop(s) ==
  /\ Take(s)
  /\ Stops(s)
  /\ children' = FALSE
  /\ pc' = "abort" /\ why' = "stop"
  /\ UNCHANGED <<world, current, isRpc, asked, exit, batch, paused, pending, lost>>

\* Mutant of HandleReject: the pending request is forgotten, the channel waits on.
HandleRejectQuietly(s) ==
  /\ Take(s)
  /\ ~Stops(s) /\ IsRejectOfPending(s)
  /\ pc' = "check" /\ pending' = NoPending
  /\ UNCHANGED <<world, current, isRpc, asked, why, exit, batch, paused, children, lost>>

HandleReject(s) ==
  /\ Take(s)
  /\ ~Stops(s) /\ IsRejectOfPending(s)
  /\ pc' = "abort" /\ why' = "reject"
  /\ UNCHANGED <<world, current, isRpc, asked, exit, batch, paused, pending, children, lost>>

HandleTransition(s) ==
  /\ Take(s)
  /\ ~Stops(s) /\ s.kind \in {"Pause", "Resume", "Approve"}
  /\ pc' = "transition" /\ asked' = TransitionFor(s)
  /\ UNCHANGED <<world, current, isRpc, why, exit, batch, paused, pending, children, lost>>

RecvRpc ==
  /\ pc = "select" /\ NoSignal /\ rpcs # <<>>
  /\ rpcs' = Tail(rpcs)
  /\ \/ pc' = "component" /\ current' = Head(rpcs) /\ isRpc' = TRUE
     \/ HookMaySkip /\ pc' = "check" /\ UNCHANGED <<current, isRpc>>
  /\ UNCHANGED <<world, signals, lagged, events, open, asked, why, exit, batch, paused,
                 pending, children, user, history>>

\* Mutant of Enqueued: the queue keeps the newest events first.
EnqueuedFront(e) == IF Len(paused) < PausedMax THEN <<e>> \o paused ELSE paused

\* PausedEventQueue::try_enqueue: a full queue drops the event.
Enqueued(e) == IF Len(paused) < PausedMax THEN Append(paused, e) ELSE paused

\* handle_event: the World is asked whether the channel is paused, and its lock
\* released, before the event is processed.
RecvEvent ==
  /\ pc = "select" /\ NoSignal /\ rpcs = <<>> /\ events # <<>>
  /\ events' = Tail(events)
  /\ LET e == Head(events) IN
     \/ ~e.wanted /\ pc' = "check" /\ UNCHANGED <<batch, paused>>
     \/ e.wanted /\ IsPaused /\ pc' = "check" /\ paused' = Enqueued(e) /\ UNCHANGED batch
     \/ e.wanted /\ ~IsPaused /\ pc' = "process" /\ batch' = <<e>> /\ UNCHANGED paused
  /\ UNCHANGED <<world, signals, lagged, rpcs, open, current, isRpc, asked, why, exit, pending,
                 children, user, history>>

-----------------------------------------------------------------------------
(* Inside a handler.                                                       *)

\* Mutant of AfterRequest: a drain ends with its first event.
AfterRequestLeaves(rest) == "check"

\* Where process_event returns to: the drain it belongs to, or the loop.
AfterRequest(rest) == IF rest = <<>> THEN "check" ELSE "process"

\* process_event up to on_request, for the event just taken or in one turn of
\* drain_paused_queue's loop; a pre-dispatch hook may end it there.
ProcessEvent ==
  /\ pc = "process"
  /\ batch' = Tail(batch)
  /\ \/ /\ pc' = "component" /\ current' = Head(batch).r /\ isRpc' = FALSE
        /\ log' = Append(log, Head(batch).n)
     \/ HookMaySkip /\ pc' = AfterRequest(Tail(batch)) /\ UNCHANGED <<current, isRpc, log>>
  /\ UNCHANGED <<world, inbox, asked, why, exit, paused, pending, children, user,
                 approved, sent, sentEvents, sentRpcs, selfStop, lost>>

\* on_request returns Ok or an error, or Suspended to an RPC caller, who gets
\* it as an error.
Return ==
  /\ pc = "component"
  /\ pc' = AfterRequest(batch)
  /\ current' = None /\ isRpc' = FALSE
  /\ UNCHANGED <<world, inbox, asked, why, exit, batch, paused, pending, children, user, history>>

\* on_request returns Suspended, the first time or after a re-dispatch; what was
\* pending is overwritten.
Suspend(p) ==
  LET id == Len(filed) + 1 IN
  /\ pc = "component" /\ ~isRpc
  /\ p \in Needs[current] \ grants
  /\ id <= MaxApprovals
  /\ pending' = [id |-> id, pattern |-> p, request |-> current]
  /\ asked' = [kind |-> "AwaitApproval", approval_id |-> id]
  /\ pc' = "transition" /\ current' = None
  /\ filed' = Append(filed, p)
  /\ overtaken' = IF pending = NoPending THEN overtaken ELSE overtaken \cup {id}
  /\ UNCHANGED <<world, inbox, isRpc, why, exit, batch, paused, children, grants, shown, history>>

\* request_stop: the component awaits send_abort for its own channel.
StopSelf ==
  /\ pc = "component" /\ ~selfStop
  /\ selfStop' = TRUE
  /\ \/ /\ up /\ ~late
        /\ channels' = W!TransitionOf(channels, Self, [kind |-> "Abort"])
        /\ UNCHANGED late
     \/ up /\ MayTimeOut /\ late' = TRUE /\ UNCHANGED channels
     \/ ~up /\ UNCHANGED <<channels, late>>
  /\ UNCHANGED <<up, inbox, loop, user, approved, sent, sentEvents, sentRpcs,
                 log, lost>>

\* The manager applied the transition asked for, or dropped the reply.
Accepted == up /\ W!Accepts(channels, Self, asked)
\* The queue is a FIFO: nothing overtakes a late abort.
Replied ==
  /\ pc = "transition" /\ ~late
  /\ channels' = IF Accepted THEN W!TransitionOf(channels, Self, asked) ELSE channels
  /\ asked' = NoTransition
  /\ UNCHANGED <<up, late, inbox, why, exit, children, approved, sent, sentEvents,
                 sentRpcs, log, selfStop, lost>>

PauseReplied ==
  /\ Replied /\ asked.kind = "Pause"
  /\ pc' = "check"
  /\ UNCHANGED <<current, isRpc, batch, paused, pending, user>>

\* The paused queue is drained whatever the answer was.
ResumeReplied ==
  /\ Replied /\ asked.kind = "Resume"
  /\ batch' = paused /\ paused' = <<>>
  /\ pc' = AfterRequest(paused)
  /\ UNCHANGED <<current, isRpc, pending, user>>

\* Mutant of ApproveReplied: the answer of the World is not looked at.
ApproveRepliedBlind ==
  /\ Replied /\ asked.kind = "ResolveApproval"
  /\ IF pending # NoPending
     THEN /\ grants' = grants \cup {pending.pattern}
          /\ current' = pending.request /\ isRpc' = FALSE /\ pc' = "component"
          /\ pending' = NoPending
     ELSE pc' = "check" /\ UNCHANGED <<grants, current, isRpc, pending>>
  /\ UNCHANGED <<batch, paused, shown, asks>>

\* Mutant of ApproveReplied: the request runs again without its grant.
ApproveRepliedNoGrant ==
  /\ Replied /\ asked.kind = "ResolveApproval"
  /\ IF Accepted /\ pending # NoPending
     THEN /\ current' = pending.request /\ isRpc' = FALSE /\ pc' = "component"
          /\ pending' = NoPending
     ELSE pc' = "check" /\ UNCHANGED <<current, isRpc, pending>>
  /\ UNCHANGED <<batch, paused, user>>

\* handle_approval_resolved: grant the pattern, run the request again.
ApproveReplied ==
  /\ Replied /\ asked.kind = "ResolveApproval"
  /\ IF Accepted /\ pending # NoPending
     THEN /\ grants' = grants \cup {pending.pattern}
          /\ current' = pending.request /\ isRpc' = FALSE /\ pc' = "component"
          /\ pending' = NoPending
     ELSE pc' = "check" /\ UNCHANGED <<grants, current, isRpc, pending>>
  /\ UNCHANGED <<batch, paused, shown, asks>>

\* The approval request goes to the user, accepted by the World or not, unless
\* there is no io_output_tx or its queue is full.
AwaitReplied ==
  /\ Replied /\ asked.kind = "AwaitApproval"
  /\ shown' \in {shown, shown \cup {asked.approval_id}}
  /\ pc' = AfterRequest(batch)
  /\ UNCHANGED <<current, isRpc, batch, paused, pending, grants, asks>>

\* send_abort ends: answered, timed out, or refused by a manager that is gone.
\* A stop then leaves the loop; a rejection clears pending and stays in it.
AbortEnds ==
  /\ pc = "abort"
  /\ \/ /\ up /\ ~late
        /\ channels' = W!TransitionOf(channels, Self, [kind |-> "Abort"])
        /\ UNCHANGED late
     \/ up /\ MayTimeOut /\ late' = TRUE /\ UNCHANGED channels
     \/ ~up /\ UNCHANGED <<channels, late>>
  /\ IF why = "stop"
     THEN pc' = "stopping" /\ exit' = "Signal" /\ UNCHANGED <<why, pending>>
     ELSE pc' = "check" /\ why' = None /\ pending' = NoPending /\ UNCHANGED exit
  /\ UNCHANGED <<up, inbox, current, isRpc, asked, batch, paused, children, user, history>>

\* is_channel_active after every message.
Check ==
  /\ pc = "check"
  /\ IF IsActive
     THEN pc' = "select" /\ UNCHANGED exit
     ELSE pc' = "stopping" /\ exit' = "ChannelInactive"
  /\ UNCHANGED <<world, inbox, current, isRpc, asked, why, batch, paused, pending, children,
                 user, history>>

\* Snapshot, component.shutdown, and the receivers are dropped.
Shutdown ==
  /\ pc = "stopping"
  /\ pc' = "done"
  /\ UNCHANGED <<world, inbox, current, isRpc, asked, why, exit, batch, paused, pending,
                 children, user, history>>

-----------------------------------------------------------------------------
Handle(s) == HandleNoop(s) \/ HandleStop(s) \/ HandleReject(s) \/ HandleTransition(s)

\* The runner's task, with the manager's answers to it.
Step ==
  \/ RecvLagged \/ RecvClosed \/ RecvRpc \/ RecvEvent
  \/ \E s \in Signal : Handle(s)
  \/ ProcessEvent \/ Return \/ StopSelf
  \/ \E p \in Pattern : Suspend(p)
  \/ PauseReplied \/ ResumeReplied \/ ApproveReplied \/ AwaitReplied
  \/ AbortEnds \/ Check \/ Shutdown

Environment ==
  \/ \E s \in Signal : s.kind \in SignalKinds /\ SendSignal(s)
  \/ \E r \in Request, wanted \in BOOLEAN : SendEvent(r, wanted)
  \/ \E r \in Request : SendRpc(r)
  \/ \E which \in {"signals", "events"} : CloseSender(which)
  \/ Kill
  \/ ManagerStops

Next == Step \/ LateAbort \/ Environment

\* The runner's and the manager's tasks are scheduled, and the component
\* returns from every on_request; nothing is assumed of the environment.
Fairness == WF_vars(Step) /\ WF_vars(LateAbort)

Spec == Init /\ [][Next]_vars /\ Fairness

-----------------------------------------------------------------------------
(* Properties.                                                             *)

TypeOK ==
  /\ W!TreeTypeOK /\ {up, late, lagged, isRpc, children, selfStop, lost} \subseteq BOOLEAN
  /\ signals \in Seq(Signal) /\ Len(signals) <= SignalMax
  /\ events \in Seq(Event) /\ Len(events) <= EventMax
  /\ rpcs \in Seq(Request) /\ Len(rpcs) <= MaxRpcs
  /\ open \subseteq {"signals", "events"}
  /\ pc \in {"select", "component", "transition", "process", "abort", "check", "stopping", "done"}
  /\ current \in Request \cup {None} /\ (pc = "component" <=> current # None)
  /\ asked \in W!Transitions \cup {NoTransition} /\ (pc = "transition" <=> asked # NoTransition)
  /\ why \in {None, "stop", "reject"} /\ (pc = "abort" => why # None)
  /\ exit \in {None, "Signal", "SignalChannelClosed", "EventChannelClosed", "ChannelInactive"}
  /\ (exit # None <=> pc \in {"stopping", "done"})
  /\ paused \in Seq(Event) /\ Len(paused) <= PausedMax
  /\ batch \in Seq(Event) /\ Len(batch) <= PausedMax /\ (pc = "process" => batch # <<>>)
  /\ pending \in Pending \cup {NoPending}
  /\ grants \subseteq Pattern /\ filed \in Seq(Pattern) /\ Len(filed) <= MaxApprovals
  /\ shown \subseteq DOMAIN filed /\ approved \subseteq shown /\ overtaken \subseteq DOMAIN filed

\* A permission is granted only when the user, who had been shown the request for
\* it, approved that request, or when the request was suspended while another one
\* waited: handle_approval_resolved then grants, for the approval of the other,
\* what was suspended last.
GrantsApproved == grants \subseteq {filed[a] : a \in (approved \cap shown) \cup overtaken}

\* While the World waits for an approval, the runner between two messages holds
\* the request that approval is for, or one that was suspended after it and took
\* its place (unless an abort is on its way).
ApprovalRoutes ==
  pc = "select" /\ up /\ ~late =>
    \A a \in ApprovalId : AwaitsApproval(a) =>
      pending # NoPending /\ (pending.id = a \/ (pending.id > a /\ pending.id \in overtaken))

\* A live channel's component sees its events in the order they were sent,
\* those held back by a pause included.
DeliveryInOrder ==
  IsActive => \A i, j \in DOMAIN log : i < j => log[i] < log[j]

\* No event reaches the component of a paused channel, as long as there is a
\* manager to answer the Resume.
PauseHolds ==
  [][log' # log /\ Self \in DOMAIN channels /\ channels[Self].state = "Paused" => ~up]_vars

\* A runner that a signal stopped leaves its channel in a terminal state, at
\* the latest when the abort it no longer waits for is applied.
StopLeavesTerminal == pc = "done" /\ exit = "Signal" /\ up /\ ~late => ~IsActive

\* A Cancel or Shutdown ends the runner whatever is ahead of it, unless the ring
\* overwrote a signal or a hook took one.
StopHeard ==
  (\E i \in DOMAIN signals : signals[i].kind \in {"Cancel", "Shutdown"}) ~> pc = "done" \/ lost

\* An Approve for the request the channel waits on grants what that request asked
\* for, or what one that took its place did, unless a signal is lost, or the
\* channel, the runner or the manager ends first.
ApprovedResumes ==
  \A a \in ApprovalId :
    AwaitsApproval(a) /\ (\E i \in DOMAIN signals : signals[i] = [kind |-> "Approve", id |-> a])
      ~> \/ \E b \in DOMAIN filed :
              (b = a \/ (b > a /\ b \in overtaken)) /\ filed[b] \in grants
         \/ pc = "done" \/ ~up \/ ~IsActive \/ lost

\* An event in the buffer, or in a drain that has begun, does not wait for ever.
EventsHandled ==
  \A n \in 1..MaxEvents :
    (\E i \in DOMAIN (events \o batch) : (events \o batch)[i].n = n)
      ~> \/ \A i \in DOMAIN (events \o batch) : (events \o batch)[i].n # n
         \/ pc = "done"

\* context.rs, request_stop(): the Abort makes "the runner ... exit its event
\* loop cleanly after the current request completes".
SelfStopExits == selfStop ~> pc = "done" \/ ~up
=============================================================================
