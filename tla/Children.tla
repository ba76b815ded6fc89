------------------------------ MODULE Children ------------------------------
(***************************************************************************)
(* The children inside one runner: ChildSpawner (child_spawner.rs), the    *)
(* calls a script reaches it by (child_context.rs), and LuaChild           *)
(* (orcs-lua/child.rs).  One mutex guards the table of children and one    *)
(* each child, std mutexes both, which a thread cannot take twice.  The    *)
(* runner's loop takes them in its signal handler, scripts take them from  *)
(* whatever thread they run on, and a child's script runs with its own     *)
(* mutex held.                                                             *)
(*                                                                         *)
(* A thread is a stack of the calls it is in.  Scripts are external: they  *)
(* make the calls named in Calls, in any order, and return: none panics,   *)
(* which would leave the mutex of its child poisoned and the child passed  *)
(* over by every later signal and abort (child_spawner.rs, "if let Ok").   *)
(* A runner that ends for another reason than a signal leaves its children *)
(* alone.                                                                  *)
(***************************************************************************)
EXTENDS Naturals, FiniteSets, SequencesExt

CONSTANTS
  Child,         \* identifiers of children
  Owner,         \* the runner's component, whose script is not a child's
  Calls,         \* <<script, operation, child>>: what the scripts may do
  MaxChildren,   \* DEFAULT_MAX_CHILDREN, 64
  MaxCalls,      \* bound: calls made altogether
  MaxTasks,      \* bound: background threads
  MaxRequests,   \* bound: requests to the component
  MaxSignals     \* bound: signals to the runner

Script == Child \cup {Owner}
Operation == {"spawn", "send", "async", "batch"}

ASSUME ChildrenAssumption ==
  /\ IsFiniteSet(Child) /\ Owner \notin Child
  /\ Calls \subseteq Script \X Operation \X Child
  /\ MaxChildren \in Nat /\ MaxCalls \in Nat /\ MaxTasks \in Nat
  /\ MaxRequests \in Nat /\ MaxSignals \in Nat

Loop == 0                    \* the runner's own task
Thread == 0..MaxTasks
Free == MaxTasks + 1         \* the holder of a mutex nobody holds

VARIABLES
  children,    \* ChildSpawner.children: its keys
  spawner,     \* who holds the mutex of the table
  lock,        \* who holds the mutex of each child
  status,      \* LuaChild.status
  stack,       \* of each thread: the calls it is in, innermost first
  tasks,       \* background threads started so far
  ended,       \* the runner has left its loop
  calls, requests, signals,  \* counters for the bounds
  served,      \* history: background threads whose script was run
  asked,       \* history: the children there were when the stop arrived
  aborted      \* history: children whose abort() was called

mutexes == <<spawner, lock>>
counters == <<calls, requests, signals>>
history == <<served, asked, aborted>>
vars == <<children, mutexes, status, stack, tasks, ended, counters, history>>

\* A call: what it does next, to which child, and the children or threads that
\* are left to do.
Frame(at, c, rest) == [at |-> at, child |-> c, rest |-> rest]

Init ==
  /\ children = {} /\ spawner = Free /\ lock = [c \in Child |-> Free]
  /\ status = [c \in Child |-> "Idle"]
  /\ stack = [t \in Thread |-> <<>>] /\ tasks = 0 /\ ended = FALSE
  /\ calls = 0 /\ requests = 0 /\ signals = 0
  /\ served = {} /\ asked = {} /\ aborted = {}

In(t, at) == stack[t] # <<>> /\ Head(stack[t]).at = at
Top(t) == Head(stack[t])
Below(t) == Tail(stack[t])

Becomes(t, frames) == stack' = [stack EXCEPT ![t] = frames]
Replaces(t, frame) == Becomes(t, <<frame>> \o Below(t))

-----------------------------------------------------------------------------
(* Scripts.                                                                *)

\* on_request of the component.
Request ==
  /\ stack[Loop] = <<>> /\ ~ended /\ requests < MaxRequests
  /\ requests' = requests + 1
  /\ Becomes(Loop, <<Frame("script", Owner, {})>>)
  /\ UNCHANGED <<children, mutexes, status, tasks, ended, calls, signals, history>>

\* The children a script would send a batch to.
BatchOf(s) == {c \in Child : <<s, "batch", c>> \in Calls}

Call(t) ==
  /\ In(t, "script") /\ calls < MaxCalls
  /\ \E c \in Child, op \in Operation :
       /\ <<Top(t).child, op, c>> \in Calls
       /\ op = "async" => tasks < MaxTasks
       /\ op = "batch" => /\ c = CHOOSE d \in BatchOf(Top(t).child) : TRUE
                         /\ tasks + Cardinality(BatchOf(Top(t).child)) <= MaxTasks
       /\ Becomes(t, <<Frame(op, c, IF op = "batch" THEN BatchOf(Top(t).child) ELSE {})>> \o stack[t])
  /\ calls' = calls + 1
  /\ UNCHANGED <<children, mutexes, status, tasks, ended, requests, signals, history>>

\* The component's script returns.
OwnerReturns(t) ==
  /\ In(t, "script") /\ Top(t).child = Owner
  /\ Becomes(t, Below(t))
  /\ UNCHANGED <<children, mutexes, status, tasks, ended, counters, history>>

\* A child's script returns, with success or with an error; its guard is dropped,
\* and the guard of the table if the call was a send_to_child.
ChildReturns(t) ==
  /\ In(t, "script") /\ Top(t).child # Owner
  /\ \E s \in {"Idle", "Error"} : status' = [status EXCEPT ![Top(t).child] = s]
  /\ lock' = [lock EXCEPT ![Top(t).child] = Free]
  /\ spawner' = IF Head(Below(t)).at = "sending" THEN Free ELSE spawner
  /\ Becomes(t, Tail(Below(t)))
  /\ UNCHANGED <<children, tasks, ended, counters, history>>

\* RunnableChild::run under the child's mutex, on top of the call that asked.
Runs(t, c) ==
  /\ lock[c] = Free /\ lock' = [lock EXCEPT ![c] = t]
  /\ status' = [status EXCEPT ![c] = "Running"]
  /\ Becomes(t, <<Frame("script", c, {})>> \o stack[t])

-----------------------------------------------------------------------------
(* The calls.                                                              *)

\* spawn_child: refused when the table is full or has the identifier.
Spawn(t) ==
  /\ In(t, "spawn") /\ spawner = Free
  /\ children' = IF Cardinality(children) >= MaxChildren THEN children ELSE children \cup {Top(t).child}
  /\ Becomes(t, Below(t))
  /\ UNCHANGED <<mutexes, status, tasks, ended, counters, history>>

\* send_to_child takes the table and keeps it while the child runs.
SendLocks(t) ==
  /\ In(t, "send") /\ spawner = Free
  /\ IF Top(t).child \in children
     THEN spawner' = t /\ Replaces(t, Frame("sending", Top(t).child, {}))
     ELSE Becomes(t, Below(t)) /\ UNCHANGED spawner
  /\ UNCHANGED <<children, lock, status, tasks, ended, counters, history>>

SendRuns(t) ==
  /\ In(t, "sending")
  /\ Runs(t, Top(t).child)
  /\ UNCHANGED <<children, spawner, tasks, ended, counters, history>>

\* send_to_child_async starts a thread with the child's Arc.
Async(t) ==
  /\ In(t, "async") /\ spawner = Free
  /\ IF Top(t).child \in children
     THEN /\ tasks < MaxTasks /\ tasks' = tasks + 1
          /\ stack' = [stack EXCEPT ![t] = Below(t), ![tasks + 1] = <<Frame("run", Top(t).child, {})>>]
     ELSE Becomes(t, Below(t)) /\ UNCHANGED tasks
  /\ UNCHANGED <<children, mutexes, status, ended, counters, history>>

\* The threads of a batch: one for each child that was found, and the wait for
\* them.
BatchStacks(t) ==
  LET found == SetToSeq(Top(t).rest \cap children)
      new == tasks + 1 .. tasks + Len(found)
  IN  [k \in Thread |-> IF k \in new THEN <<Frame("run", found[k - tasks], {})>>
                        ELSE IF k = t THEN <<Frame("join", Top(t).child, new)>> \o Below(t)
                        ELSE stack[k]]

\* Mutant of Batch: the table stays locked until the batch is done.
BatchLocked(t) ==
  /\ In(t, "batch") /\ spawner = Free
  /\ tasks' = tasks + Cardinality(Top(t).rest \cap children) /\ tasks' <= MaxTasks
  /\ stack' = BatchStacks(t)
  /\ spawner' = t
  /\ UNCHANGED <<children, lock, status, ended, counters, history>>

\* send_to_children_batch: "the spawner lock is held only briefly".
Batch(t) ==
  /\ In(t, "batch") /\ spawner = Free
  /\ tasks' = tasks + Cardinality(Top(t).rest \cap children) /\ tasks' <= MaxTasks
  /\ stack' = BatchStacks(t)
  /\ UNCHANGED <<children, mutexes, status, ended, counters, history>>

\* The end of the scope joins every thread.
Join(t) ==
  /\ In(t, "join") /\ \A k \in Top(t).rest : stack[k] = <<>>
  /\ Becomes(t, Below(t))
  /\ UNCHANGED <<children, mutexes, status, tasks, ended, counters, history>>

\* Mutant of TaskRuns: a busy child is not waited for.
TaskTries(t) ==
  /\ In(t, "run")
  /\ IF lock[Top(t).child] = Free
     THEN Runs(t, Top(t).child) /\ served' = served \cup {t}
     ELSE Becomes(t, <<>>) /\ UNCHANGED <<lock, status, served>>
  /\ UNCHANGED <<children, spawner, tasks, ended, counters, asked, aborted>>

\* A background thread takes the child's mutex.
TaskRuns(t) ==
  /\ In(t, "run")
  /\ Runs(t, Top(t).child)
  /\ served' = served \cup {t}
  /\ UNCHANGED <<children, spawner, tasks, ended, counters, asked, aborted>>

-----------------------------------------------------------------------------
(* Signals.                                                                *)

\* handle_signal: propagate_signal comes before anything else, and abort_all
\* follows if the component or the kind of signal stops the runner.
Signal ==
  /\ stack[Loop] = <<>> /\ ~ended /\ signals < MaxSignals
  /\ signals' = signals + 1
  /\ \E then \in {"abort", "go on"} :
       /\ Becomes(Loop, <<Frame("tell", Owner, {})>> \o
                        (IF then = "abort" THEN <<Frame("abort", Owner, {})>> ELSE <<>>))
       /\ asked' = IF then = "abort" THEN children ELSE asked
  /\ UNCHANGED <<children, mutexes, status, tasks, ended, calls, requests, served, aborted>>

\* propagate_signal and abort_all hold the table, and visit one child at a time.
Visiting == stack[Loop] # <<>> /\ Top(Loop).at \in {"tell", "abort"}

VisitLocks ==
  /\ Visiting /\ spawner = Free
  /\ spawner' = Loop
  /\ Replaces(Loop, Frame(Top(Loop).at, Owner, children))
  /\ UNCHANGED <<children, lock, status, tasks, ended, counters, history>>

VisitNext ==
  /\ Visiting /\ spawner = Loop /\ Top(Loop).child = Owner
  /\ \E c \in Top(Loop).rest : Replaces(Loop, Frame(Top(Loop).at, c, Top(Loop).rest \ {c}))
  /\ UNCHANGED <<children, mutexes, status, tasks, ended, counters, history>>

\* Mutant of Tell: an idle child is waited for, and one that failed never is.
TellIdle ==
  /\ In(Loop, "tell") /\ spawner = Loop
  /\ LET c == Top(Loop).child IN
     /\ c # Owner /\ status[c] = "Idle"
     /\ \E s \in {status[c], "Aborted"} : status' = [status EXCEPT ![c] = s]
  /\ Replaces(Loop, Frame("tell", Owner, Top(Loop).rest))
  /\ UNCHANGED <<children, mutexes, tasks, ended, counters, history>>

\* on_signal of a child, which may abort itself.
Tell ==
  /\ In(Loop, "tell") /\ spawner = Loop
  /\ LET c == Top(Loop).child IN
     /\ c # Owner /\ lock[c] = Free
     /\ \E s \in {status[c], "Aborted"} : status' = [status EXCEPT ![c] = s]
  /\ Replaces(Loop, Frame("tell", Owner, Top(Loop).rest))
  /\ UNCHANGED <<children, mutexes, tasks, ended, counters, history>>

\* Mutant of Abort: a busy child is passed over.
AbortTries ==
  /\ In(Loop, "abort") /\ spawner = Loop
  /\ LET c == Top(Loop).child IN
     /\ c # Owner
     /\ status' = IF lock[c] = Free THEN [status EXCEPT ![c] = "Aborted"] ELSE status
     /\ aborted' = IF lock[c] = Free THEN aborted \cup {c} ELSE aborted
  /\ Replaces(Loop, Frame("abort", Owner, Top(Loop).rest))
  /\ UNCHANGED <<children, mutexes, tasks, ended, counters, served, asked>>

\* abort() of a child.
Abort ==
  /\ In(Loop, "abort") /\ spawner = Loop
  /\ LET c == Top(Loop).child IN
     /\ c # Owner /\ lock[c] = Free
     /\ status' = [status EXCEPT ![c] = "Aborted"]
     /\ aborted' = aborted \cup {c}
  /\ Replaces(Loop, Frame("abort", Owner, Top(Loop).rest))
  /\ UNCHANGED <<children, mutexes, tasks, ended, counters, served, asked>>

\* All children are visited; after abort_all the runner leaves its loop.
VisitDone ==
  /\ Visiting /\ spawner = Loop /\ Top(Loop).child = Owner /\ Top(Loop).rest = {}
  /\ spawner' = Free
  /\ ended' = (Top(Loop).at = "abort")
  /\ Becomes(Loop, Below(Loop))
  /\ UNCHANGED <<children, lock, status, tasks, counters, history>>

-----------------------------------------------------------------------------
ScriptStep(t) == Call(t) \/ OwnerReturns(t) \/ ChildReturns(t)

CallStep(t) ==
  Spawn(t) \/ SendLocks(t) \/ SendRuns(t) \/ Async(t) \/ Batch(t) \/ Join(t) \/ TaskRuns(t)

SignalStep == VisitLocks \/ VisitNext \/ Tell \/ Abort \/ VisitDone

Next ==
  \/ Request \/ Signal \/ SignalStep
  \/ \E t \in Thread : ScriptStep(t) \/ CallStep(t)

\* Threads are scheduled, scripts return, and a mutex that is free again and
\* again is given to everyone who waits.
Fairness ==
  /\ WF_vars(SignalStep)
  /\ \A t \in Thread : WF_vars(ScriptStep(t) \/ CallStep(t))

Spec == Init /\ [][Next]_vars /\ Fairness

-----------------------------------------------------------------------------
(* Properties.                                                             *)

\* The script of c runs on t.
RunsOn(c, t) == \E i \in DOMAIN stack[t] : stack[t][i] = Frame("script", c, {})

\* The state is well-formed; the table keeps its limit; a child is Running
\* exactly while some thread that holds its mutex runs its script.
TypeOK ==
  /\ children \subseteq Child /\ Cardinality(children) <= MaxChildren
  /\ spawner \in Thread \cup {Free} /\ lock \in [Child -> Thread \cup {Free}]
  /\ status \in [Child -> {"Idle", "Running", "Error", "Aborted"}]
  /\ \A c \in Child : status[c] = "Running" <=> lock[c] # Free
  /\ \A c \in Child, t \in Thread : RunsOn(c, t) <=> lock[c] = t
  /\ tasks \in 0..MaxTasks /\ \A t \in Thread : t > tasks => stack[t] = <<>>
  /\ ended \in BOOLEAN /\ calls \in 0..MaxCalls
  /\ served \subseteq 1..tasks /\ asked \subseteq Child /\ aborted \subseteq Child

\* The threads that t cannot go on without.
WaitsFor(t) ==
  IF stack[t] = <<>> THEN {} ELSE
  LET f == Top(t) IN
  CASE f.at \in {"spawn", "send", "async", "batch"} -> {spawner}
    [] f.at \in {"sending", "run"} -> {lock[f.child]}
    [] f.at = "join" -> {k \in f.rest : stack[k] # <<>>}
    [] f.at \in {"tell", "abort"} ->
         IF spawner # t THEN {spawner} ELSE IF f.child = Owner THEN {} ELSE {lock[f.child]}
    [] OTHER -> {}

Circle(S) == S # {} /\ \A t \in S : WaitsFor(t) \cap S # {}

\* A child whose script makes calls.
CallsBack(c) == \E op \in Operation, d \in Child : <<c, op, d>> \in Calls

\* One of these to which something else than a batch of the component is sent.
Nested(c) ==
  /\ CallsBack(c)
  /\ \E s \in Script, op \in Operation \ {"spawn"} :
       <<s, op, c>> \in Calls /\ ~ (s = Owner /\ op = "batch")

\* No thread waits for itself, or in a circle with others, unless one of them
\* runs a child that is Nested.  send_to_child keeps the table while such a child
\* runs, which then waits for itself, and the loop keeps it while it waits for
\* one to tell it of a signal, though signals "must reach everything"
\* (orcs-component/src/child.rs).
NoDeadlock ==
  \A S \in SUBSET Thread : Circle(S) => \E t \in S, c \in Child : Nested(c) /\ RunsOn(c, t)

Deadlock == \E S \in SUBSET Thread : Circle(S)

\* base.rs, "abort all children before stopping": when the runner has left its
\* loop, every child there was when the signal came has been aborted.
AllAborted == ended => asked \subseteq aborted

\* A signal comes through the children, however many of them are busy, and the
\* runner goes on or ends, unless there is a circle of the kind NoDeadlock allows.
SignalHandled == Visiting ~> stack[Loop] = <<>> \/ Deadlock

\* What was sent to a child in the background or in a batch is run, even if the
\* child is busy at the time, unless there is such a circle.
SentIsRun == \A k \in Thread \ {Loop} : k <= tasks ~> k \in served \/ Deadlock
=============================================================================
