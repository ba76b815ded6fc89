------------------------------- MODULE Agents -------------------------------
(***************************************************************************)
(* The built-in components that answer a user (orcs-app/builtins), and the *)
(* calls between them (channel/runner/rpc.rs).  agent_mgr gets what the    *)
(* user types: "@name ..." it passes to that agent by RPC, anything else   *)
(* it emits as an AgentTask to concierge.  Both ask console_metrics for    *)
(* its block, which asks agent_mgr for its lists, and both may have        *)
(* agent_mgr delegate a task: it spawns a worker that works on its own,    *)
(* emits a DelegateResult and stops.                                       *)
(*                                                                         *)
(* A runner takes one request or event at a time, requests first.  A       *)
(* handler that calls another component blocks: without limit while the    *)
(* callee's queue is full, then until the answer, the end of the callee or *)
(* a time-out, which leaves the request where it is.                       *)
(***************************************************************************)
EXTENDS Naturals, Sequences, SequencesExt, FiniteSets

CONSTANTS
  MaxInputs,       \* what the user types
  MaxDelegations,  \* delegations with a task
  MaxAsks,         \* tools that call a component, in one run of a model
  QueueCap,        \* REQUEST_BUFFER_SIZE, 32 in the code
  EventCap         \* EVENT_BUFFER_SIZE, 64 in the code

ASSUME AgentsAssumption ==
  /\ {MaxInputs, MaxDelegations, MaxAsks} \subseteq Nat
  /\ {QueueCap, EventCap} \subseteq Nat \ {0}

Comp == {"agent_mgr", "agent", "concierge", "console_metrics"}
NoComp == "none"
Delegation == 1..MaxDelegations
Listeners == {"agent_mgr", "concierge"}

VARIABLES
  inbox,       \* requests to each component: [from, op, live]
  events,      \* events it subscribes to: [op, of]
  job,         \* what it handles: a request or event, and the calls left
  wait,        \* the component whose answer it waits for
  worker,      \* how far each delegate worker is
  delegated,   \* delegation_counter
  dead,        \* the agent's runner is gone
  results,     \* what delegation_results has been told: [of, how]
  inputs,      \* inputs so far
  died,        \* workers that left without a report (history)
  lost         \* events a full queue dropped (history)

vars == <<inbox, events, job, wait, worker, delegated, dead, results, inputs, died, lost>>
serving == <<inbox, job, wait>>
working == <<worker, delegated, died>>

\* Calls a handler makes before it is done, or before its model is run.
Script(op) ==
  CASE op = "get_all" -> <<"list_agents", "list_active">>
    [] op \in {"task", "process"} -> <<"get_all">>
    [] op \in {"at", "invoke_agent"} -> <<"process">>
    [] OTHER -> <<>>

Target(op) ==
  CASE op = "get_all" -> "console_metrics"
    [] op = "process" -> "agent"
    [] OTHER -> "agent_mgr"

\* Intents that route to a component.
Intents(c) ==
  CASE c = "concierge" -> {"delegate", "invoke_agent"}
    [] c = "agent" -> {"delegate"}
    [] OTHER -> {}

Idle == [op |-> "idle", from |-> NoComp, live |-> FALSE, of |-> 0, calls |-> <<>>, asks |-> 0]
Job(op, from, live, of) ==
  [op |-> op, from |-> from, live |-> live, of |-> of, calls |-> Script(op),
   asks |-> IF op \in {"task", "process"} THEN MaxAsks ELSE 0]

Init ==
  /\ inbox = [c \in Comp |-> <<>>] /\ events = [c \in Listeners |-> <<>>]
  /\ job = [c \in Comp |-> Idle] /\ wait = [c \in Comp |-> NoComp]
  /\ worker = [d \in Delegation |-> "none"] /\ delegated = 0
  /\ dead = FALSE /\ results = <<>> /\ inputs = 0
  /\ died = {} /\ lost = {}

\* try_inject: a full queue drops the event.
Inject(c, e) ==
  IF Len(events[c]) < EventCap
  THEN events' = [events EXCEPT ![c] = Append(@, e)] /\ UNCHANGED lost
  ELSE lost' = lost \cup {e} /\ UNCHANGED events

Event(op, of) == [op |-> op, of |-> of]

\* The user types a line.
Input(op) ==
  /\ inputs < MaxInputs /\ inputs' = inputs + 1
  /\ Inject("agent_mgr", Event(op, 0))
  /\ UNCHANGED <<serving, working, dead, results>>

-----------------------------------------------------------------------------
(* The runners: select!, biased to requests, then events.                  *)

Take(c) ==
  /\ job[c] = Idle /\ inbox[c] # <<>>
  /\ LET r == Head(inbox[c])
     IN  job' = [job EXCEPT ![c] = Job(r.op, r.from, r.live, 0)]
  /\ inbox' = [inbox EXCEPT ![c] = Tail(@)]
  /\ UNCHANGED <<events, wait, working, dead, results, inputs, lost>>

TakeEvent(c) ==
  /\ job[c] = Idle /\ inbox[c] = <<>> /\ events[c] # <<>>
  /\ LET e == Head(events[c])
     IN  job' = [job EXCEPT ![c] = Job(e.op, NoComp, FALSE, e.of)]
  /\ events' = [events EXCEPT ![c] = Tail(@)]
  /\ UNCHANGED <<inbox, wait, working, dead, results, inputs, lost>>

-----------------------------------------------------------------------------
(* orcs.request: resolve_and_send_rpc.                                     *)

\* The model asks for a tool that is another component's.
Ask(c) ==
  /\ job[c].op \in {"task", "process"} /\ job[c].calls = <<>> /\ wait[c] = NoComp
  /\ job[c].asks > 0
  /\ \E op \in Intents(c) :
       job' = [job EXCEPT ![c].calls = <<op>>, ![c].asks = @ - 1]
  /\ UNCHANGED <<inbox, events, wait, working, dead, results, inputs, lost>>

Gone(t) == t = "agent" /\ dead

\* No answer is waited for when the callee is gone.
Call(c) ==
  /\ job[c].calls # <<>> /\ wait[c] = NoComp
  /\ LET op == Head(job[c].calls)
         t == Target(op)
     IN  IF Gone(t) THEN UNCHANGED <<inbox, wait>>
         ELSE /\ Len(inbox[t]) < QueueCap
              /\ inbox' = [inbox EXCEPT ![t] = Append(@, [from |-> c, op |-> op, live |-> TRUE])]
              /\ wait' = [wait EXCEPT ![c] = t]
  /\ job' = [job EXCEPT ![c].calls = Tail(@)]
  /\ UNCHANGED <<events, working, dead, results, inputs, lost>>

\* The receiver of the answer is dropped; the request stays.
Abandon(c, r) == IF r.from = c THEN [r EXCEPT !.live = FALSE] ELSE r

\* Mutant of TimeOut: a call waits for its answer for ever.
TimeOutNever(c) == FALSE /\ UNCHANGED vars

TimeOut(c) ==
  /\ wait[c] # NoComp
  /\ LET t == wait[c]
     IN  /\ inbox' = [inbox EXCEPT ![t] = [i \in DOMAIN @ |-> Abandon(c, @[i])]]
         /\ job' = [job EXCEPT ![t] = Abandon(c, @)]
  /\ wait' = [wait EXCEPT ![c] = NoComp]
  /\ UNCHANGED <<events, working, dead, results, inputs, lost>>

\* The handler returns; an answer nobody waits for is dropped.
Done(c) ==
  /\ job' = [job EXCEPT ![c] = Idle]
  /\ wait' = IF job[c].live THEN [wait EXCEPT ![job[c].from] = NoComp] ELSE wait
  /\ UNCHANGED inbox

Ready(c, ops) == job[c].op \in ops /\ job[c].calls = <<>> /\ wait[c] = NoComp

\* Handlers that change nothing else.
Return(c) ==
  /\ Ready(c, {"list_agents", "list_active", "get_all", "process", "task", "at", "invoke_agent"})
  /\ Done(c)
  /\ UNCHANGED <<events, working, dead, results, inputs, lost>>

\* Mutant of AgentDies: requests it has not answered keep their callers waiting.
AgentDiesSilent ==
  /\ ~dead /\ dead' = TRUE
  /\ inbox' = [inbox EXCEPT !["agent"] = <<>>]
  /\ job' = [job EXCEPT !["agent"] = Idle]
  /\ wait' = [wait EXCEPT !["agent"] = NoComp]
  /\ UNCHANGED <<events, working, results, inputs, lost>>

\* A Veto ends the agent's runner: whoever waits for it sees the reply close,
\* and the call it was in has no receiver any more.
AgentDies ==
  /\ ~dead /\ dead' = TRUE
  /\ inbox' = [c \in Comp |->
       IF c = "agent" THEN <<>> ELSE [i \in DOMAIN inbox[c] |-> Abandon("agent", inbox[c][i])]]
  /\ job' = [c \in Comp |-> IF c = "agent" THEN Idle ELSE Abandon("agent", job[c])]
  /\ wait' = [c \in Comp |-> IF c = "agent" \/ wait[c] = "agent" THEN NoComp ELSE wait[c]]
  /\ UNCHANGED <<events, working, results, inputs, lost>>

-----------------------------------------------------------------------------
(* agent_mgr.                                                              *)

\* dispatch_llm.
Plain ==
  /\ Ready("agent_mgr", {"plain"}) /\ Done("agent_mgr")
  /\ Inject("concierge", Event("task", 0))
  /\ UNCHANGED <<working, dead, results, inputs>>

\* One worker for each delegation, unless the task is empty or the spawn fails.
\* Its own event waits for it, but for a worker that is not ready in five
\* seconds: the event went to the other runners, and is not sent again.
Delegate ==
  /\ Ready("agent_mgr", {"delegate"}) /\ Done("agent_mgr")
  /\ \/ UNCHANGED <<delegated, worker>>
     \/ /\ delegated < MaxDelegations /\ delegated' = delegated + 1
        /\ \E w \in {"none", "spawned", "unasked"} :
             worker' = [worker EXCEPT ![delegated + 1] = w]
  /\ UNCHANGED <<events, dead, results, inputs, died, lost>>

\* A DelegateResult is kept, and concierge is to report it.
Completed ==
  /\ Ready("agent_mgr", {"completed", "failed"}) /\ Done("agent_mgr")
  /\ results' = Append(results, Event(job["agent_mgr"].op, job["agent_mgr"].of))
  /\ Inject("concierge", Event("task", job["agent_mgr"].of))
  /\ UNCHANGED <<working, dead, inputs>>

\* Mutant of RunnerExited: a worker that stopped was done, so nothing is kept.
RunnerExitedIgnored ==
  /\ Ready("agent_mgr", {"exited"}) /\ Done("agent_mgr")
  /\ UNCHANGED <<events, working, dead, results, inputs, lost>>

\* runner_exited of a worker is kept as a failure of its task.
RunnerExited ==
  /\ Ready("agent_mgr", {"exited"}) /\ Done("agent_mgr")
  /\ results' = Append(results, Event("exited", job["agent_mgr"].of))
  /\ UNCHANGED <<events, working, dead, inputs, lost>>

-----------------------------------------------------------------------------
(* delegate_worker, one for each delegation, and the engine's monitor.     *)

Start(d) ==
  /\ worker[d] = "spawned" /\ worker' = [worker EXCEPT ![d] = "running"]
  /\ UNCHANGED <<serving, events, delegated, dead, results, inputs, died, lost>>

Report(d) ==
  /\ worker[d] = "running" /\ worker' = [worker EXCEPT ![d] = "reported"]
  /\ \E op \in {"completed", "failed"} : Inject("agent_mgr", Event(op, d))
  /\ UNCHANGED <<serving, delegated, dead, results, inputs, died>>

\* request_stop: the runner leaves once it is woken after the abort.
SelfStop(d) ==
  /\ worker[d] = "reported" /\ worker' = [worker EXCEPT ![d] = "exiting"]
  /\ UNCHANGED <<serving, events, delegated, dead, results, inputs, died, lost>>

\* A Veto, or a Reject of what it asked for.
WorkerDies(d) ==
  /\ worker[d] \in {"spawned", "unasked", "running"} /\ worker' = [worker EXCEPT ![d] = "exiting"]
  /\ died' = died \cup {d}
  /\ UNCHANGED <<serving, events, delegated, dead, results, inputs, lost>>

\* Mutant of Exited: the monitor hears of a worker that is still at work.
ExitedEarly(d) ==
  /\ worker[d] \in {"running", "exiting"}
  /\ worker' = [worker EXCEPT ![d] = IF @ = "exiting" THEN "gone" ELSE @]
  /\ Inject("agent_mgr", Event("exited", d))
  /\ UNCHANGED <<serving, delegated, dead, results, inputs, died>>

Exited(d) ==
  /\ worker[d] = "exiting" /\ worker' = [worker EXCEPT ![d] = "gone"]
  /\ Inject("agent_mgr", Event("exited", d))
  /\ UNCHANGED <<serving, delegated, dead, results, inputs, died>>

-----------------------------------------------------------------------------
Serve(c) == Take(c) \/ Ask(c) \/ Call(c) \/ Return(c)
Manage == Plain \/ Delegate \/ Completed \/ RunnerExited
Work(d) == Start(d) \/ Report(d) \/ Exited(d)

Next ==
  \/ \E op \in {"plain", "at"} : Input(op)
  \/ \E c \in Comp : Serve(c) \/ TimeOut(c)
  \/ \E c \in Listeners : TakeEvent(c)
  \/ AgentDies \/ Manage
  \/ \E d \in Delegation : Work(d) \/ SelfStop(d) \/ WorkerDies(d)

\* Runners and time-outs go on.  A worker that asked to stop need not leave:
\* nothing wakes it until an event or a signal comes.
Spec ==
  /\ Init /\ [][Next]_vars
  /\ \A c \in Comp : WF_vars(Serve(c)) /\ WF_vars(TimeOut(c))
  /\ \A c \in Listeners : WF_vars(TakeEvent(c))
  /\ WF_vars(Manage)
  /\ \A d \in Delegation : WF_vars(Work(d))
-----------------------------------------------------------------------------
(* Properties.                                                             *)

Outstanding(c, t) ==
  Cardinality({i \in DOMAIN inbox[t] : inbox[t][i].from = c /\ inbox[t][i].live})
  + (IF job[t].from = c /\ job[t].live THEN 1 ELSE 0)

\* Whoever waits for an answer has one request with the component it waits
\* for, queued or being handled, and nobody else holds one of its requests
\* that could still be answered: through time-outs, late answers and the end
\* of a callee, no caller waits for what nobody will answer, and none gets
\* the answer to an earlier call.
WaitersServed ==
  \A c, t \in Comp : Outstanding(c, t) = IF wait[c] = t THEN 1 ELSE 0

Entries(d, ops) == {i \in DOMAIN results : results[i].of = d /\ results[i].op \in ops}

\* What agent_mgr has been told of a delegation is what became of it: one
\* report at most, and an exit after it, or without it only when the worker
\* died or its report was dropped.
ToldInOrder ==
  \A d \in Delegation :
    /\ Cardinality(Entries(d, {"completed", "failed"})) <= 1
    /\ \A i \in Entries(d, {"exited"}) :
         \/ d \in died \/ Event("completed", d) \in lost \/ Event("failed", d) \in lost
         \/ \E j \in Entries(d, {"completed", "failed"}) : j < i

\* Every handler ends: a circle of components that wait for each other
\* (agent_mgr for the agent, the agent for console_metrics, console_metrics
\* for agent_mgr) is broken by its time-outs.
HandlersEnd == \A c \in Comp : job[c] # Idle ~> job[c] = Idle

\* What became of a delegated task is never forgotten: agent_mgr learns of its
\* result, or of its worker's end, unless a full queue dropped the event.  A
\* worker that never got its task (unasked) has neither, as long as it lives.
DelegationTold ==
  \A d \in Delegation :
    /\ worker[d] = "reported" ~>
         \/ Entries(d, {"completed", "failed"}) # {}
         \/ Event("completed", d) \in lost \/ Event("failed", d) \in lost
    /\ d \in died ~> Entries(d, {"exited"}) # {} \/ Event("exited", d) \in lost
=============================================================================
