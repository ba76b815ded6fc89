--------------------------- MODULE RequestProofs ---------------------------
(***************************************************************************)
(* A request to a component, seen from both sides, for any bounds: the     *)
(* caller (Agents), who waits for one answer and for nothing nobody will   *)
(* send, and the callee (Interrupt), whose running request an interrupt    *)
(* reaches, and no later one.  The two modules share no variable: each     *)
(* theorem is about the specification it names.                            *)
(***************************************************************************)
EXTENDS Agents, Interrupt, SequenceTheorems, FiniteSetTheorems, TLAPS

-----------------------------------------------------------------------------
(* What the components hold.                                               *)

Asks == {"list_agents", "list_active", "get_all", "process", "delegate", "invoke_agent"}
Reports == {"completed", "failed"}
Heard == {"plain", "at", "task", "exited"} \cup Reports
Question == [from : Comp, op : Asks, live : BOOLEAN]
Message == [op : Heard, of : Nat]
JobType == [op : Heard \cup Asks \cup {"idle"}, from : Comp \cup {NoComp}, live : BOOLEAN,
            of : Nat, calls : Seq(Asks), asks : Nat]

Typed ==
  /\ inbox \in [Comp -> Seq(Question)]
  /\ events \in [Listeners -> Seq(Message)]
  /\ job \in [Comp -> JobType]
  /\ \A c \in Comp : job[c].live => job[c].from \in Comp
  /\ wait \in [Comp -> Comp \cup {NoComp}]
  /\ worker \in [Delegation -> {"none", "spawned", "unasked", "running", "reported", "exiting", "gone"}]
  /\ delegated \in 0..MaxDelegations
  /\ results \in Seq(Message)

\* A request of c that can still be answered.
Holds(r, c) == r.from = c /\ r.live
Asked(c, t) == {i \in DOMAIN inbox[t] : Holds(inbox[t][i], c)}

LEMMA ScriptTyped == ASSUME NEW op PROVE Script(op) \in Seq(Asks)
<1>1. /\ <<"list_agents", "list_active">> \in Seq(Asks) /\ <<"get_all">> \in Seq(Asks)
      /\ <<"process">> \in Seq(Asks) /\ <<>> \in Seq(Asks)
  BY DEF Asks
<1>2. CASE op = "get_all"
  BY <1>1, <1>2 DEF Script
<1>3. CASE op \in {"task", "process"}
  BY <1>1, <1>3 DEF Script
<1>4. CASE op \in {"at", "invoke_agent"}
  BY <1>1, <1>4 DEF Script
<1>5. CASE op \notin {"get_all", "task", "process", "at", "invoke_agent"}
  BY <1>1, <1>5 DEF Script
<1> QED BY <1>2, <1>3, <1>4, <1>5

LEMMA JobTyped ==
  ASSUME NEW op \in Heard \cup Asks, NEW from \in Comp \cup {NoComp}, NEW live \in BOOLEAN,
         NEW of \in Nat
  PROVE  /\ Job(op, from, live, of) \in JobType
         /\ Job(op, from, live, of).op = op /\ Job(op, from, live, of).from = from
         /\ Job(op, from, live, of).live = live /\ Job(op, from, live, of).of = of
<1>1. (IF op \in {"task", "process"} THEN MaxAsks ELSE 0) \in Nat
  BY AgentsAssumption
<1> QED BY <1>1, ScriptTyped DEF Job, JobType

LEMMA IdleTyped ==
  /\ Idle \in JobType /\ Idle.op = "idle" /\ Idle.from = NoComp /\ Idle.live = FALSE
  /\ Idle.of = 0 /\ Idle.calls = <<>>
<1>1. <<>> \in Seq(Asks)
  OBVIOUS
<1> QED BY <1>1 DEF Idle, JobType

LEMMA Components ==
  /\ "agent_mgr" \in Comp /\ "agent" \in Comp /\ "concierge" \in Comp
  /\ "console_metrics" \in Comp /\ NoComp \notin Comp
  /\ Listeners \subseteq Comp /\ "agent_mgr" \in Listeners /\ "concierge" \in Listeners
  BY DEF Comp, NoComp, Listeners

LEMMA TargetTyped == ASSUME NEW op PROVE Target(op) \in Comp
<1>1. CASE op = "get_all"
  BY <1>1, Components DEF Target
<1>2. CASE op = "process"
  BY <1>2, Components DEF Target
<1>3. CASE op # "get_all" /\ op # "process"
  BY <1>3, Components DEF Target
<1> QED BY <1>1, <1>2, <1>3

\* Abandoning takes the receiver of a's requests away and nothing else.
LEMMA AbandonedRequest ==
  ASSUME NEW a, NEW r \in Question
  PROVE  Abandon(a, r) \in Question /\ \A c : Holds(Abandon(a, r), c) <=> Holds(r, c) /\ c # a
<1>1. CASE r.from = a
  BY <1>1 DEF Abandon, Question, Holds
<1>2. CASE r.from # a
  BY <1>2 DEF Abandon, Question, Holds
<1> QED BY <1>1, <1>2

LEMMA AbandonedJob ==
  ASSUME NEW a, NEW j \in JobType
  PROVE  /\ Abandon(a, j) \in JobType
         /\ \A c : Holds(Abandon(a, j), c) <=> Holds(j, c) /\ c # a
         /\ Abandon(a, j).op = j.op /\ Abandon(a, j).of = j.of /\ Abandon(a, j).calls = j.calls
         /\ Abandon(a, j).from = j.from /\ (Abandon(a, j).live => j.live)
<1>1. CASE j.from = a
  BY <1>1 DEF Abandon, JobType, Holds
<1>2. CASE j.from # a
  BY <1>2 DEF Abandon, Holds
<1> QED BY <1>1, <1>2

LEMMA AbandonedInbox ==
  ASSUME NEW a, NEW q \in Seq(Question)
  PROVE  /\ [i \in DOMAIN q |-> Abandon(a, q[i])] \in Seq(Question)
         /\ DOMAIN [i \in DOMAIN q |-> Abandon(a, q[i])] = DOMAIN q
<1>1. \A i \in 1..Len(q) : Abandon(a, q[i]) \in Question
  BY AbandonedRequest
<1>2. DOMAIN q = 1..Len(q) /\ Len(q) \in Nat
  OBVIOUS
<1>3. [i \in 1..Len(q) |-> Abandon(a, q[i])] \in Seq(Question)
  BY <1>1, <1>2, IsASeq
<1> QED BY <1>2, <1>3

\* An event is queued at the end, or dropped.
LEMMA Injected ==
  ASSUME Typed, NEW c \in Listeners, NEW e \in Message, Inject(c, e)
  PROVE  /\ events' \in [Listeners -> Seq(Message)]
         /\ \/ events' = [events EXCEPT ![c] = Append(events[c], e)] /\ lost' = lost
            \/ events' = events /\ lost' = lost \cup {e}
<1>1. Append(events[c], e) \in Seq(Message)
  BY DEF Typed
<1> QED BY <1>1 DEF Inject, Typed

LEMMA Finished ==
  ASSUME Typed, NEW c \in Comp, Done(c)
  PROVE  /\ job' = [job EXCEPT ![c] = Idle] /\ inbox' = inbox
         /\ job' \in [Comp -> JobType]
         /\ \A x \in Comp : job'[x].live => job'[x].from \in Comp
         /\ wait' \in [Comp -> Comp \cup {NoComp}]
  BY IdleTyped DEF Done, Typed

LEMMA TypedInit == Init => Typed
<1> SUFFICES ASSUME Init PROVE Typed
  OBVIOUS
<1>1. <<>> \in Seq(Question) /\ <<>> \in Seq(Message)
  OBVIOUS
<1>2. delegated \in 0..MaxDelegations
  BY AgentsAssumption DEF Init
<1> QED BY <1>1, <1>2, IdleTyped DEF Init, Typed

\* The jobs after c has taken one up.
LEMMA TakenUp ==
  ASSUME Typed, NEW c \in Comp, NEW j \in JobType, j.live => j.from \in Comp,
         job' = [job EXCEPT ![c] = j]
  PROVE  job' \in [Comp -> JobType] /\ \A x \in Comp : job'[x].live => job'[x].from \in Comp
  BY DEF Typed

LEMMA TypedServe == ASSUME Typed, NEW c \in Comp, Serve(c) PROVE Typed'
<1> USE DEF Typed
<1>1. CASE Take(c)
  <2> DEFINE r == Head(inbox[c])
  <2>1. /\ inbox[c] \in Seq(Question) /\ inbox[c] # <<>>
        /\ r \in Question /\ Tail(inbox[c]) \in Seq(Question)
    BY <1>1, HeadTailProperties DEF Take
  <2>2. inbox' = [inbox EXCEPT ![c] = Tail(inbox[c])] /\ job' = [job EXCEPT ![c] = Job(r.op, r.from, r.live, 0)]
    BY <1>1 DEF Take
  <2> HIDE DEF r
  <2>3. r.op \in Asks /\ r.from \in Comp /\ r.live \in BOOLEAN
    BY <2>1 DEF Question
  <2>4. /\ Job(r.op, r.from, r.live, 0) \in JobType
        /\ Job(r.op, r.from, r.live, 0).from \in Comp
    BY <2>3, JobTyped
  <2>5. job' \in [Comp -> JobType] /\ \A x \in Comp : job'[x].live => job'[x].from \in Comp
    BY <2>2, <2>4, TakenUp
  <2>6. inbox' \in [Comp -> Seq(Question)]
    BY <2>1, <2>2
  <2> QED BY <1>1, <2>5, <2>6 DEF Take, working
<1>2. CASE Ask(c)
  <2>1. PICK op \in Intents(c) : job' = [job EXCEPT ![c].calls = <<op>>, ![c].asks = @ - 1]
    BY <1>2 DEF Ask
  <2>2. op \in Asks
    BY <2>1 DEF Intents, Asks
  <2>3. job[c] \in JobType /\ job[c].asks - 1 \in Nat /\ <<op>> \in Seq(Asks)
    BY <1>2, <2>2 DEF Ask, JobType
  <2> DEFINE j == [job[c] EXCEPT !.calls = <<op>>, !.asks = job[c].asks - 1]
  <2>4. j \in JobType /\ j.live = job[c].live /\ j.from = job[c].from
    BY <2>3 DEF JobType
  <2>5. job' = [job EXCEPT ![c] = j]
    BY <2>1, <2>3 DEF JobType
  <2> HIDE DEF j
  <2>6. job' \in [Comp -> JobType] /\ \A x \in Comp : job'[x].live => job'[x].from \in Comp
    BY <2>4, <2>5, TakenUp
  <2> QED BY <1>2, <2>6 DEF Ask, working
<1>3. CASE Call(c)
  <2> DEFINE op == Head(job[c].calls)
             t == Target(op)
             r == [from |-> c, op |-> op, live |-> TRUE]
  <2>1. job[c] \in JobType /\ job[c].calls \in Seq(Asks) /\ job[c].calls # <<>>
    BY <1>3 DEF Call, JobType
  <2>2. op \in Asks /\ Tail(job[c].calls) \in Seq(Asks)
    BY <2>1, HeadTailProperties
  <2>3. t \in Comp /\ r \in Question
    BY <2>2, TargetTyped DEF Question
  <2>4. /\ \/ UNCHANGED <<inbox, wait>>
           \/ inbox' = [inbox EXCEPT ![t] = Append(inbox[t], r)] /\ wait' = [wait EXCEPT ![c] = t]
        /\ job' = [job EXCEPT ![c].calls = Tail(job[c].calls)]
    BY <1>3 DEF Call
  <2>5. [job[c] EXCEPT !.calls = Tail(job[c].calls)] \in JobType
    BY <2>1, <2>2 DEF JobType
  <2> HIDE DEF op, t, r
  <2>6. job' \in [Comp -> JobType] /\ \A x \in Comp : job'[x].live => job'[x].from \in Comp
    <3> DEFINE j == [job[c] EXCEPT !.calls = Tail(job[c].calls)]
    <3>1. j.live = job[c].live /\ j.from = job[c].from /\ job' = [job EXCEPT ![c] = j]
      BY <2>1, <2>4 DEF JobType
    <3>2. j \in JobType
      BY <2>5
    <3> HIDE DEF j
    <3> QED BY <3>1, <3>2, TakenUp
  <2>7. Append(inbox[t], r) \in Seq(Question)
    BY <2>3
  <2>8. inbox' \in [Comp -> Seq(Question)] /\ wait' \in [Comp -> Comp \cup {NoComp}]
    <3>1. CASE UNCHANGED <<inbox, wait>>
      BY <3>1
    <3>2. CASE /\ inbox' = [inbox EXCEPT ![t] = Append(inbox[t], r)]
               /\ wait' = [wait EXCEPT ![c] = t]
      <4>1. inbox' \in [Comp -> Seq(Question)]
        BY <2>7, <3>2
      <4>2. wait' \in [Comp -> Comp \cup {NoComp}]
        BY <2>3, <3>2
      <4> QED BY <4>1, <4>2
    <3> QED BY <2>4, <3>1, <3>2
  <2> QED BY <1>3, <2>6, <2>8 DEF Call, working
<1>4. CASE Return(c)
  <2>1. /\ job' \in [Comp -> JobType] /\ inbox' = inbox
        /\ \A x \in Comp : job'[x].live => job'[x].from \in Comp
        /\ wait' \in [Comp -> Comp \cup {NoComp}]
    BY <1>4, Finished DEF Return
  <2> QED BY <1>4, <2>1 DEF Return, working
<1> QED BY <1>1, <1>2, <1>3, <1>4 DEF Serve

LEMMA TypedTimeOut == ASSUME Typed, NEW c \in Comp, TimeOut(c) PROVE Typed'
<1> DEFINE t == wait[c]
           q == [i \in DOMAIN inbox[t] |-> Abandon(c, inbox[t][i])]
<1>1. t \in Comp
  BY DEF TimeOut, Typed
<1>2. /\ inbox' = [inbox EXCEPT ![t] = q] /\ job' = [job EXCEPT ![t] = Abandon(c, job[t])]
      /\ wait' = [wait EXCEPT ![c] = NoComp]
      /\ UNCHANGED <<events, worker, delegated, results>>
  BY DEF TimeOut, working
<1>3. inbox[t] \in Seq(Question) /\ job[t] \in JobType
  BY <1>1 DEF Typed
<1>4. q \in Seq(Question)
  BY <1>3, AbandonedInbox
<1>5. /\ Abandon(c, job[t]) \in JobType
      /\ Abandon(c, job[t]).live => Abandon(c, job[t]).from \in Comp
  BY <1>1, <1>3, AbandonedJob DEF Typed
<1> HIDE DEF t, q
<1>6. job' \in [Comp -> JobType] /\ \A x \in Comp : job'[x].live => job'[x].from \in Comp
  BY <1>1, <1>2, <1>5, TakenUp
<1> QED BY <1>1, <1>2, <1>4, <1>6 DEF Typed

LEMMA TypedTakeEvent == ASSUME Typed, NEW c \in Listeners, TakeEvent(c) PROVE Typed'
<1> DEFINE e == Head(events[c])
<1>1. /\ events[c] \in Seq(Message) /\ events[c] # <<>>
      /\ e \in Message /\ Tail(events[c]) \in Seq(Message)
  BY HeadTailProperties DEF TakeEvent, Typed
<1>2. /\ events' = [events EXCEPT ![c] = Tail(events[c])]
      /\ job' = [job EXCEPT ![c] = Job(e.op, NoComp, FALSE, e.of)]
      /\ UNCHANGED <<inbox, wait, worker, delegated, results>>
  BY DEF TakeEvent, working
<1> HIDE DEF e
<1>3. e.op \in Heard /\ e.of \in Nat /\ c \in Comp
  BY <1>1, Components DEF Message
<1>4. /\ Job(e.op, NoComp, FALSE, e.of) \in JobType
      /\ Job(e.op, NoComp, FALSE, e.of).live = FALSE
  <2>1. /\ e.op \in Heard \cup Asks /\ NoComp \in Comp \cup {NoComp} /\ FALSE \in BOOLEAN
        /\ e.of \in Nat
    BY <1>3
  <2>2. Job(e.op, NoComp, FALSE, e.of) \in JobType
    BY ONLY <2>1, JobTyped
  <2> QED BY <2>2 DEF Job
<1>5. job' \in [Comp -> JobType] /\ \A x \in Comp : job'[x].live => job'[x].from \in Comp
  BY <1>2, <1>3, <1>4, TakenUp
<1> QED BY <1>1, <1>2, <1>5 DEF Typed

LEMMA TypedAgentDies == ASSUME Typed, AgentDies PROVE Typed'
<1>1. inbox' \in [Comp -> Seq(Question)]
  <2>1. ASSUME NEW c \in Comp
        PROVE  [i \in DOMAIN inbox[c] |-> Abandon("agent", inbox[c][i])] \in Seq(Question)
    BY AbandonedInbox DEF Typed
  <2>2. <<>> \in Seq(Question)
    OBVIOUS
  <2> QED BY <2>1, <2>2 DEF AgentDies
<1>2. job' \in [Comp -> JobType] /\ \A x \in Comp : job'[x].live => job'[x].from \in Comp
  <2>1. ASSUME NEW c \in Comp
        PROVE  /\ Abandon("agent", job[c]) \in JobType
               /\ Abandon("agent", job[c]).live => Abandon("agent", job[c]).from \in Comp
    BY AbandonedJob DEF Typed
  <2>2. job' = [c \in Comp |-> IF c = "agent" THEN Idle ELSE Abandon("agent", job[c])]
    BY DEF AgentDies
  <2> QED BY <2>1, <2>2, IdleTyped
<1>3. wait' \in [Comp -> Comp \cup {NoComp}]
  BY DEF AgentDies, Typed
<1>4. UNCHANGED <<events, worker, delegated, results>>
  BY DEF AgentDies, working
<1> QED BY <1>1, <1>2, <1>3, <1>4 DEF Typed

LEMMA TypedManage == ASSUME Typed, Manage PROVE Typed'
<1>m. "agent_mgr" \in Comp /\ "concierge" \in Listeners
  BY Components
<1>1. /\ job' \in [Comp -> JobType] /\ inbox' = inbox
      /\ \A x \in Comp : job'[x].live => job'[x].from \in Comp
      /\ wait' \in [Comp -> Comp \cup {NoComp}]
  BY <1>m, Finished DEF Manage, Plain, Delegate, Completed, RunnerExited
<1>o. job["agent_mgr"] \in JobType /\ job["agent_mgr"].of \in Nat
  BY <1>m DEF Typed, JobType
<1>2. CASE Plain
  <2>1. Event("task", 0) \in Message
    BY DEF Event, Message, Heard
  <2>2. events' \in [Listeners -> Seq(Message)]
    BY <1>m, <1>2, <2>1, Injected DEF Plain
  <2> QED BY <1>1, <1>2, <2>2 DEF Plain, Typed, working
<1>3. CASE Delegate
  <2>1. delegated' \in 0..MaxDelegations
    BY <1>3, AgentsAssumption DEF Delegate, Typed
  <2>2. worker' \in [Delegation -> {"none", "spawned", "unasked", "running", "reported", "exiting", "gone"}]
    BY <1>3 DEF Delegate, Typed
  <2> QED BY <1>1, <1>3, <2>1, <2>2 DEF Delegate, Typed
<1>4. CASE Completed
  <2>1. Event("task", job["agent_mgr"].of) \in Message
    BY <1>o DEF Event, Message, Heard
  <2>2. events' \in [Listeners -> Seq(Message)]
    BY <1>m, <1>4, <2>1, Injected DEF Completed
  <2>3. Event(job["agent_mgr"].op, job["agent_mgr"].of) \in Message
    BY <1>o, <1>4 DEF Completed, Ready, Event, Message, Heard, Reports
  <2>4. results' \in Seq(Message)
    BY <1>4, <2>3 DEF Completed, Typed
  <2> QED BY <1>1, <1>4, <2>2, <2>4 DEF Completed, Typed, working
<1>5. CASE RunnerExited
  <2>1. Event("exited", job["agent_mgr"].of) \in Message
    BY <1>o DEF Event, Message, Heard
  <2>2. results' \in Seq(Message)
    BY <1>5, <2>1 DEF RunnerExited, Typed
  <2> QED BY <1>1, <1>5, <2>2 DEF RunnerExited, Typed, working
<1> QED BY <1>2, <1>3, <1>4, <1>5 DEF Manage

LEMMA TypedWorkers ==
  ASSUME Typed, NEW d \in Delegation, Work(d) \/ SelfStop(d) \/ WorkerDies(d)
  PROVE  Typed'
<1>1. UNCHANGED <<inbox, job, wait, delegated, results>>
  BY DEF Work, Start, Report, Exited, SelfStop, WorkerDies, serving
<1>2. worker' \in [Delegation -> {"none", "spawned", "unasked", "running", "reported", "exiting", "gone"}]
  BY DEF Work, Start, Report, Exited, SelfStop, WorkerDies, Typed
<1>3. events' \in [Listeners -> Seq(Message)]
  <2>1. d \in Nat /\ "agent_mgr" \in Listeners
    BY AgentsAssumption, Components DEF Delegation
  <2>2. CASE Report(d)
    <3>1. PICK op \in {"completed", "failed"} : Inject("agent_mgr", Event(op, d))
      BY <2>2 DEF Report
    <3>2. Event(op, d) \in Message
      BY <2>1, <3>1 DEF Event, Message, Heard, Reports
    <3> QED BY <2>1, <3>1, <3>2, Injected
  <2>3. CASE Exited(d)
    <3>1. Event("exited", d) \in Message
      BY <2>1 DEF Event, Message, Heard
    <3> QED BY <2>1, <2>3, <3>1, Injected DEF Exited
  <2>4. CASE Start(d) \/ SelfStop(d) \/ WorkerDies(d)
    BY <2>4 DEF Start, SelfStop, WorkerDies, Typed
  <2> QED BY <2>2, <2>3, <2>4 DEF Work
<1> QED BY <1>1, <1>2, <1>3 DEF Typed

LEMMA TypedNext == Typed /\ [Next]_vars => Typed'
<1> SUFFICES ASSUME Typed, [Next]_vars PROVE Typed'
  OBVIOUS
<1>1. ASSUME NEW op \in {"plain", "at"}, Input(op) PROVE Typed'
  <2>1. Event(op, 0) \in Message
    BY <1>1 DEF Event, Message, Heard
  <2>2. events' \in [Listeners -> Seq(Message)]
    BY <1>1, <2>1, Injected, Components DEF Input
  <2> QED BY <1>1, <2>2 DEF Input, Typed, serving, working
<1>2. CASE UNCHANGED vars
  BY <1>2 DEF vars, Typed
<1> QED BY <1>1, <1>2, TypedServe, TypedTimeOut, TypedTakeEvent, TypedAgentDies, TypedManage,
           TypedWorkers DEF Next

-----------------------------------------------------------------------------
(* Who waits is served.                                                    *)

\* Who waits for t has one request with it, queued or in hand; who does not has
\* none that could still be answered.
Fits(c, t) ==
  /\ wait[c] # t => Asked(c, t) = {} /\ ~Holds(job[t], c)
  /\ wait[c] = t /\ Holds(job[t], c) => Asked(c, t) = {}
  /\ wait[c] = t /\ ~Holds(job[t], c) => \E i : Asked(c, t) = {i}

Served == \A c, t \in Comp : Fits(c, t)

LEMMA SameFit ==
  ASSUME NEW c, NEW t, Fits(c, t), inbox'[t] = inbox[t], Holds(job[t], c)' <=> Holds(job[t], c),
         wait'[c] = t <=> wait[c] = t
  PROVE  Fits(c, t)'
<1>1. Asked(c, t)' = Asked(c, t)
  BY DEF Asked, Holds
<1> QED BY <1>1 DEF Fits

LEMMA ServedInit == Init => Served
<1> SUFFICES ASSUME Init, NEW c \in Comp, NEW t \in Comp PROVE Fits(c, t)
  BY DEF Served
<1>1. inbox[t] = <<>> /\ job[t] = Idle /\ wait[c] = NoComp
  BY DEF Init
<1>2. Asked(c, t) = {}
  BY <1>1 DEF Asked
<1>3. ~Holds(job[t], c)
  BY <1>1, IdleTyped DEF Holds
<1> QED BY <1>1, <1>2, <1>3, Components DEF Fits

LEMMA ServedTake == ASSUME Typed, Served, NEW c \in Comp, Take(c) PROVE Served'
<1> SUFFICES ASSUME NEW x \in Comp, NEW t \in Comp PROVE Fits(x, t)'
  BY DEF Served
<1> DEFINE r == Head(inbox[c])
<1>1. /\ inbox[c] \in Seq(Question) /\ inbox[c] # <<>> /\ job[c] = Idle /\ wait' = wait
      /\ inbox' = [inbox EXCEPT ![c] = Tail(inbox[c])]
      /\ job' = [job EXCEPT ![c] = Job(r.op, r.from, r.live, 0)]
  BY DEF Take, Typed
<1>2. CASE t # c
  <2>1. inbox'[t] = inbox[t] /\ job'[t] = job[t]
    BY <1>1, <1>2
  <2> QED BY <1>1, <2>1, SameFit DEF Served, Holds
<1>3. CASE t = c
  <2>1. inbox'[c] = Tail(inbox[c]) /\ job'[c] = Job(r.op, r.from, r.live, 0)
    BY <1>1 DEF Typed
  <2>2. ~Holds(job[c], x)
    BY <1>1, IdleTyped DEF Holds
  <2>3. Holds(job[c], x)' <=> 1 \in Asked(x, c)
    <3>1. r = inbox[c][1] /\ 1 \in DOMAIN inbox[c]
      BY <1>1
    <3>2. job'[c].from = r.from /\ job'[c].live = r.live
      BY <2>1 DEF Job
    <3> QED BY <3>1, <3>2 DEF Holds, Asked
  <2>4. \A j : j \in Asked(x, c)' <=> j \in Nat \ {0} /\ j + 1 \in Asked(x, c)
    <3> DEFINE q == inbox[c]
    <3>1. /\ Tail(q) \in Seq(Question) /\ Len(Tail(q)) = Len(q) - 1 /\ Len(q) \in Nat
          /\ \A j \in 1..Len(Tail(q)) : Tail(q)[j] = q[j + 1]
      BY <1>1, HeadTailProperties
    <3>2. DOMAIN q = 1..Len(q) /\ DOMAIN Tail(q) = 1..(Len(q) - 1)
      BY <1>1, <3>1
    <3> HIDE DEF q
    <3>3. Asked(x, c)' = {j \in 1..(Len(q) - 1) : Holds(q[j + 1], x)}
      BY <2>1, <3>1, <3>2 DEF Asked, q, Holds
    <3>4. Asked(x, c) = {j \in 1..Len(q) : Holds(q[j], x)}
      BY <3>2 DEF Asked, q
    <3> QED BY <3>1, <3>3, <3>4
  <2>5. Asked(x, c) \subseteq Nat \ {0}
    BY <1>1 DEF Asked
  <2>6. CASE wait[x] # c
    <3>1. Asked(x, c) = {}
      BY <2>6 DEF Served, Fits
    <3>2. ~Holds(job[c], x)' /\ Asked(x, c)' = {}
      BY <2>3, <2>4, <3>1
    <3> QED BY <1>1, <1>3, <2>6, <3>2 DEF Fits
  <2>7. CASE wait[x] = c
    <3>1. PICK i : Asked(x, c) = {i}
      BY <2>2, <2>7 DEF Served, Fits
    <3>2. CASE i = 1
      <4>1. Holds(job[c], x)' /\ Asked(x, c)' = {}
        BY <2>3, <2>4, <3>1, <3>2
      <4> QED BY <1>1, <1>3, <2>7, <4>1 DEF Fits
    <3>3. CASE i # 1
      <4>1. i \in Nat \ {0}
        BY <2>5, <3>1
      <4>2. ~Holds(job[c], x)' /\ Asked(x, c)' = {i - 1}
        BY <2>3, <2>4, <3>1, <3>3, <4>1
      <4> QED BY <1>1, <1>3, <2>7, <4>2 DEF Fits
    <3> QED BY <3>2, <3>3
  <2> QED BY <2>6, <2>7
<1> QED BY <1>2, <1>3

LEMMA ServedCall == ASSUME Typed, Served, NEW c \in Comp, Call(c) PROVE Served'
<1>o. PICK op \in Asks : op = Head(job[c].calls)
  BY HeadTailProperties DEF Call, Typed, JobType
<1>t. PICK t \in Comp : t = Target(op)
  BY TargetTyped
<1>r. PICK r \in Question : r = [from |-> c, op |-> op, live |-> TRUE]
  BY DEF Question
<1>1. /\ \/ UNCHANGED <<inbox, wait>>
         \/ inbox' = [inbox EXCEPT ![t] = Append(inbox[t], r)] /\ wait' = [wait EXCEPT ![c] = t]
      /\ job' = [job EXCEPT ![c].calls = Tail(job[c].calls)] /\ wait[c] = NoComp
  BY <1>o, <1>t, <1>r DEF Call
<1>2. t \in Comp
  BY <1>t
<1>3. \A x, u \in Comp : Holds(job[u], x)' <=> Holds(job[u], x)
  <2> SUFFICES ASSUME NEW u \in Comp PROVE job'[u].from = job[u].from /\ job'[u].live = job[u].live
    BY DEF Holds
  <2>1. job[c] \in JobType /\ job \in [Comp -> JobType]
    BY DEF Typed
  <2> QED BY <1>1, <2>1 DEF JobType
<1>5. r \in Question /\ r.from = c /\ r.live
  BY <1>r
<1>6. CASE UNCHANGED <<inbox, wait>>
  BY <1>3, <1>6, SameFit DEF Served
<1>7. CASE inbox' = [inbox EXCEPT ![t] = Append(inbox[t], r)] /\ wait' = [wait EXCEPT ![c] = t]
  <2> SUFFICES ASSUME NEW x \in Comp, NEW u \in Comp PROVE Fits(x, u)'
    BY DEF Served
  <2>1. Fits(x, u)
    BY DEF Served
  <2>2. CASE u # t
    <3>1. inbox'[u] = inbox[u] /\ (wait'[x] = u <=> wait[x] = u)
      BY <1>1, <1>2, <1>7, <2>2, Components DEF Typed
    <3> QED BY <1>3, <2>1, <3>1, SameFit
  <2>3. CASE u = t
    <3> DEFINE q == inbox[t]
    <3>1. q \in Seq(Question) /\ inbox'[t] = Append(q, r)
      BY <1>2, <1>7 DEF Typed
    <3>2. /\ DOMAIN Append(q, r) = 1..(Len(q) + 1) /\ Append(q, r)[Len(q) + 1] = r
          /\ \A i \in 1..Len(q) : Append(q, r)[i] = q[i]
          /\ DOMAIN q = 1..Len(q) /\ Len(q) \in Nat
      BY <1>5, <3>1
    <3> HIDE DEF q
    <3>3. Asked(x, t) = {i \in 1..Len(q) : Holds(q[i], x)}
      BY <3>2 DEF Asked, q
    <3>4. Asked(x, t)' = Asked(x, t) \cup (IF x = c THEN {Len(q) + 1} ELSE {})
      <4>1. Asked(x, t)' = {i \in 1..(Len(q) + 1) : Holds(Append(q, r)[i], x)}
        BY <3>1, <3>2 DEF Asked, Holds
      <4>2. Holds(r, x) <=> x = c
        BY <1>5 DEF Holds
      <4>3. ASSUME NEW i PROVE i \in Asked(x, t)' <=> i \in Asked(x, t) \/ (x = c /\ i = Len(q) + 1)
        <5>1. i \in 1..(Len(q) + 1) <=> i \in 1..Len(q) \/ i = Len(q) + 1
          BY <3>2
        <5>2. i \in 1..Len(q) => Append(q, r)[i] = q[i]
          BY <3>2
        <5>3. i \in 1..Len(q) => i # Len(q) + 1
          BY <3>2
        <5>4. Append(q, r)[Len(q) + 1] = r
          BY <3>2
        <5> QED BY <3>3, <4>1, <4>2, <5>1, <5>2, <5>3, <5>4
      <4> QED BY <4>3
    <3>5. CASE x = c
      <4>1. wait[c] # t
        BY <1>1, <1>2, Components
      <4>2. Asked(x, t) = {} /\ ~Holds(job[t], x)
        BY <2>1, <2>3, <3>5, <4>1 DEF Fits
      <4>3. Asked(x, t)' = {Len(q) + 1} /\ ~Holds(job[t], x)'
        BY <1>2, <1>3, <3>4, <3>5, <4>2
      <4>4. wait'[x] = t
        BY <1>7, <3>5 DEF Typed
      <4> QED BY <2>3, <4>3, <4>4 DEF Fits
    <3>6. CASE x # c
      <4>1. wait'[x] = wait[x] /\ Asked(x, t)' = Asked(x, t)
        BY <1>7, <3>4, <3>6 DEF Typed
      <4> QED BY <1>2, <1>3, <2>1, <2>3, <4>1 DEF Fits
    <3> QED BY <3>5, <3>6
  <2> QED BY <2>2, <2>3
<1> QED BY <1>1, <1>6, <1>7

\* The end of a handler answers whoever waits for it.
LEMMA ServedDone == ASSUME Typed, Served, NEW c \in Comp, Done(c) PROVE Served'
<1>1. /\ job' = [job EXCEPT ![c] = Idle] /\ inbox' = inbox
      /\ wait' = IF job[c].live THEN [wait EXCEPT ![job[c].from] = NoComp] ELSE wait
  BY DEF Done
<1>2. /\ \A u \in Comp \ {c} : job'[u] = job[u]
      /\ \A x : ~Holds(job[c], x)'
  BY <1>1, IdleTyped DEF Typed, Holds
<1> SUFFICES ASSUME NEW x \in Comp, NEW u \in Comp PROVE Fits(x, u)'
  BY DEF Served
<1>3. Fits(x, u) /\ Fits(x, c)
  BY DEF Served
<1>4. Asked(x, u)' = Asked(x, u)
  BY <1>1 DEF Asked, Holds
<1>5. CASE Holds(job[c], x)
  <2>1. job[c].live /\ job[c].from = x
    BY <1>5 DEF Holds
  <2>2. wait[x] = c /\ Asked(x, c) = {}
    BY <1>3, <1>5 DEF Fits
  <2>3. wait'[x] = NoComp
    BY <1>1, <2>1 DEF Typed
  <2>4. Asked(x, u) = {} /\ ~Holds(job[u], x)'
    <3>1. CASE u = c
      BY <1>2, <2>2, <3>1
    <3>2. CASE u # c
      BY <1>2, <1>3, <2>2, <3>2 DEF Fits, Holds
    <3> QED BY <3>1, <3>2
  <2>5. NoComp # u
    BY Components
  <2> QED BY <1>4, <2>3, <2>4, <2>5 DEF Fits
<1>6. CASE ~Holds(job[c], x)
  <2>1. wait'[x] = wait[x]
    BY <1>1, <1>6 DEF Typed, Holds
  <2>2. Holds(job[u], x)' <=> Holds(job[u], x)
    BY <1>2, <1>6 DEF Holds
  <2> QED BY <1>3, <1>4, <2>1, <2>2 DEF Fits
<1> QED BY <1>5, <1>6

LEMMA ServedTimeOut == ASSUME Typed, Served, NEW c \in Comp, TimeOut(c) PROVE Served'
<1>1. PICK t \in Comp : t = wait[c]
  BY DEF TimeOut, Typed
<1> DEFINE q == [i \in DOMAIN inbox[t] |-> Abandon(c, inbox[t][i])]
<1>2. /\ inbox' = [inbox EXCEPT ![t] = q] /\ job' = [job EXCEPT ![t] = Abandon(c, job[t])]
      /\ wait' = [wait EXCEPT ![c] = NoComp]
  BY <1>1 DEF TimeOut
<1> SUFFICES ASSUME NEW x \in Comp, NEW u \in Comp PROVE Fits(x, u)'
  BY DEF Served
<1>3. Fits(x, u)
  BY DEF Served
<1>4. wait'[x] = IF x = c THEN NoComp ELSE wait[x]
  BY <1>2 DEF Typed
<1>5. CASE u # t
  <2>1. inbox'[u] = inbox[u] /\ job'[u] = job[u]
    BY <1>2, <1>5 DEF Typed
  <2>2. wait'[x] = u <=> wait[x] = u
    BY <1>1, <1>4, <1>5, Components
  <2> QED BY <1>3, <2>1, <2>2, SameFit DEF Holds
<1>6. CASE u = t
  <2>1. inbox'[t] = q /\ job'[t] = Abandon(c, job[t]) /\ inbox[t] \in Seq(Question) /\ job[t] \in JobType
    BY <1>1, <1>2 DEF Typed
  <2>2. DOMAIN q = DOMAIN inbox[t] /\ \A i \in DOMAIN inbox[t] : q[i] = Abandon(c, inbox[t][i])
    OBVIOUS
  <2>3. \A i \in DOMAIN inbox[t] : inbox[t][i] \in Question
    BY <2>1
  <2> HIDE DEF q
  <2>4. Asked(x, t)' = IF x = c THEN {} ELSE Asked(x, t)
    <3>1. Asked(x, t)' = {i \in DOMAIN inbox[t] : Holds(q[i], x)}
      BY <2>1, <2>2 DEF Asked, Holds
    <3>2. \A i \in DOMAIN inbox[t] : Holds(q[i], x) <=> Holds(inbox[t][i], x) /\ x # c
      BY <2>2, <2>3, AbandonedRequest
    <3> QED BY <3>1, <3>2 DEF Asked
  <2>5. Holds(job[t], x)' <=> Holds(job[t], x) /\ x # c
    BY <2>1, AbandonedJob DEF Holds
  <2>6. CASE x = c
    BY <1>1, <1>4, <1>6, <2>4, <2>5, <2>6, Components DEF Fits
  <2>7. CASE x # c
    BY <1>3, <1>4, <1>6, <2>4, <2>5, <2>7 DEF Fits
  <2> QED BY <2>6, <2>7
<1> QED BY <1>5, <1>6

LEMMA ServedAgentDies == ASSUME Typed, Served, AgentDies PROVE Served'
<1> SUFFICES ASSUME NEW x \in Comp, NEW u \in Comp PROVE Fits(x, u)'
  BY DEF Served
<1>1. Fits(x, u)
  BY DEF Served
<1>2. wait'[x] = IF x = "agent" \/ wait[x] = "agent" THEN NoComp ELSE wait[x]
  BY DEF AgentDies
<1>3. CASE u = "agent"
  <2>1. inbox'[u] = <<>> /\ job'[u] = Idle
    BY <1>3 DEF AgentDies
  <2>2. Asked(x, u)' = {}
    BY <2>1 DEF Asked
  <2>3. ~Holds(job[u], x)'
    BY <2>1, IdleTyped DEF Holds
  <2> QED BY <1>2, <1>3, <2>2, <2>3, Components DEF Fits
<1>4. CASE u # "agent"
  <2> DEFINE q == [i \in DOMAIN inbox[u] |-> Abandon("agent", inbox[u][i])]
  <2>1. inbox'[u] = q /\ job'[u] = Abandon("agent", job[u])
    BY <1>4 DEF AgentDies
  <2>2. DOMAIN q = DOMAIN inbox[u] /\ \A i \in DOMAIN inbox[u] : q[i] = Abandon("agent", inbox[u][i])
    OBVIOUS
  <2>3. job[u] \in JobType /\ \A i \in DOMAIN inbox[u] : inbox[u][i] \in Question
    BY DEF Typed
  <2> HIDE DEF q
  <2>4. Asked(x, u)' = IF x = "agent" THEN {} ELSE Asked(x, u)
    <3>1. Asked(x, u)' = {i \in DOMAIN inbox[u] : Holds(q[i], x)}
      BY <2>1, <2>2 DEF Asked, Holds
    <3>2. \A i \in DOMAIN inbox[u] : Holds(q[i], x) <=> Holds(inbox[u][i], x) /\ x # "agent"
      BY <2>2, <2>3, AbandonedRequest
    <3> QED BY <3>1, <3>2 DEF Asked
  <2>5. Holds(job[u], x)' <=> Holds(job[u], x) /\ x # "agent"
    BY <2>1, <2>3, AbandonedJob DEF Holds
  <2>6. CASE x = "agent"
    BY <1>2, <2>4, <2>5, <2>6, Components DEF Fits
  <2>7. CASE x # "agent"
    <3>1. wait'[x] = u <=> wait[x] = u
      BY <1>2, <1>4, <2>7, Components
    <3> QED BY <1>1, <2>4, <2>5, <2>7, <3>1 DEF Fits
  <2> QED BY <2>6, <2>7
<1> QED BY <1>3, <1>4

LEMMA ServedNext == Typed /\ Served /\ [Next]_vars => Served'
<1> SUFFICES ASSUME Typed, Served, [Next]_vars PROVE Served'
  OBVIOUS
<1>0. ASSUME UNCHANGED <<inbox, job, wait>> PROVE Served'
  BY <1>0, SameFit DEF Served, Holds
<1>1. ASSUME NEW op \in {"plain", "at"}, Input(op) PROVE Served'
  BY <1>0, <1>1 DEF Input, serving
<1>2. ASSUME NEW c \in Comp, Serve(c) PROVE Served'
  <2>1. CASE Ask(c)
    <3>1. UNCHANGED <<inbox, wait>>
      BY <2>1 DEF Ask
    <3>2. ASSUME NEW u \in Comp PROVE job'[u].from = job[u].from /\ job'[u].live = job[u].live
      BY <2>1 DEF Ask, Typed, JobType
    <3> QED BY <3>1, <3>2, SameFit DEF Served, Holds
  <2> QED BY <1>2, <2>1, ServedTake, ServedCall, ServedDone DEF Serve, Return
<1>3. ASSUME NEW c \in Listeners, TakeEvent(c) PROVE Served'
  <2>1. UNCHANGED <<inbox, wait>> /\ c \in Comp
    BY <1>3, Components DEF TakeEvent
  <2>2. job[c].live = FALSE /\ job'[c].live = FALSE /\ \A u \in Comp \ {c} : job'[u] = job[u]
    BY <1>3, <2>1, IdleTyped DEF TakeEvent, Job, Typed
  <2> QED BY <2>1, <2>2, SameFit DEF Served, Holds
<1>4. CASE Manage
  BY <1>4, ServedDone, Components DEF Manage, Plain, Delegate, Completed, RunnerExited
<1>5. ASSUME NEW d \in Delegation, Work(d) \/ SelfStop(d) \/ WorkerDies(d) PROVE Served'
  BY <1>0, <1>5 DEF Work, Start, Report, Exited, SelfStop, WorkerDies, serving
<1>6. CASE UNCHANGED vars
  BY <1>0, <1>6 DEF vars
<1> QED BY <1>1, <1>2, <1>3, <1>4, <1>5, <1>6, ServedTimeOut, ServedAgentDies DEF Next

LEMMA ServedCounts == Typed /\ Served => WaitersServed
<1> SUFFICES ASSUME Typed, Served, NEW c \in Comp, NEW t \in Comp
             PROVE  Outstanding(c, t) = IF wait[c] = t THEN 1 ELSE 0
  BY DEF WaitersServed
<1>1. Fits(c, t)
  BY DEF Served
<1>2. /\ Outstanding(c, t) = Cardinality(Asked(c, t)) + (IF Holds(job[t], c) THEN 1 ELSE 0)
  BY DEF Outstanding, Asked, Holds
<1>3. Cardinality({}) = 0 /\ \A i : Cardinality({i}) = 1
  BY FS_EmptySet, FS_Singleton
<1>4. CASE wait[c] # t
  BY <1>1, <1>2, <1>3, <1>4 DEF Fits
<1>5. CASE wait[c] = t /\ Holds(job[t], c)
  BY <1>1, <1>2, <1>3, <1>5 DEF Fits
<1>6. CASE wait[c] = t /\ ~Holds(job[t], c)
  <2>1. PICK i : Asked(c, t) = {i}
    BY <1>1, <1>6 DEF Fits
  <2>2. Cardinality(Asked(c, t)) = 1
    BY <2>1, FS_Singleton
  <2> QED BY <1>2, <1>6, <2>2
<1> QED BY <1>4, <1>5, <1>6

-----------------------------------------------------------------------------
(* What agent_mgr is told.                                                 *)

\* On its way to agent_mgr, in its hands, or in what it keeps.
Queued(d, ops) ==
  {i \in DOMAIN events["agent_mgr"] :
     events["agent_mgr"][i].of = d /\ events["agent_mgr"][i].op \in ops}
InHand(d, ops) == job["agent_mgr"].of = d /\ job["agent_mgr"].op \in ops
Told(d, ops) == Entries(d, ops) # {} \/ InHand(d, ops) \/ Queued(d, ops) # {}

\* No report needs to come before the exit.
Excused(d) == d \in died \/ Event("completed", d) \in lost \/ Event("failed", d) \in lost

\* A worker is spoken of once it has done what is said of it.
Course(d) ==
  /\ d > delegated => worker[d] = "none"
  /\ worker[d] \in {"none", "spawned", "unasked", "running"} => ~Told(d, Reports)
  /\ worker[d] # "gone" => ~Told(d, {"exited"})
  /\ worker[d] \in {"reported", "exiting", "gone"} => Excused(d) \/ Told(d, Reports)
  /\ worker[d] = "gone" => Event("exited", d) \in lost \/ Told(d, {"exited"})
  /\ d \in died => worker[d] \in {"exiting", "gone"}

\* One report, in one place.
Once(d) ==
  /\ \A i, j \in Entries(d, Reports) : i = j
  /\ \A i, j \in Queued(d, Reports) : i = j
  /\ Entries(d, Reports) # {} => ~InHand(d, Reports) /\ Queued(d, Reports) = {}
  /\ InHand(d, Reports) => Queued(d, Reports) = {}

\* The report is ahead of the exit.
Ahead(d) ==
  /\ \A i \in Entries(d, {"exited"}) : \E j \in Entries(d, Reports) : j < i
  /\ InHand(d, {"exited"}) => Entries(d, Reports) # {}
  /\ \A i \in Queued(d, {"exited"}) :
       Entries(d, Reports) # {} \/ InHand(d, Reports) \/ \E j \in Queued(d, Reports) : j < i

Follows(d) == Course(d) /\ Once(d) /\ (Excused(d) \/ Ahead(d))
InOrder == \A d \in Delegation : Follows(d)

Kinds == {Reports, {"exited"}}

LEMMA Delegations == \A d \in Delegation : d \in Nat /\ d # 0
  BY AgentsAssumption DEF Delegation

LEMMA FollowsInit == Init => InOrder
<1> SUFFICES ASSUME Init, NEW d \in Delegation PROVE Follows(d)
  BY DEF InOrder
<1>1. ASSUME NEW ops PROVE Entries(d, ops) = {} /\ Queued(d, ops) = {} /\ ~InHand(d, ops)
  <2>1. events["agent_mgr"] = <<>> /\ results = <<>> /\ job["agent_mgr"] = Idle
    BY Components DEF Init
  <2> QED BY <2>1, IdleTyped, Delegations DEF Entries, Queued, InHand
<1>2. worker[d] = "none" /\ died = {}
  BY DEF Init
<1> QED BY <1>1, <1>2 DEF Follows, Course, Once, Ahead, Told

\* A step that says nothing of d to agent_mgr.
LEMMA Unheard ==
  ASSUME Typed, NEW d \in Delegation, Follows(d),
         \A ops \in Kinds : /\ Queued(d, ops)' = Queued(d, ops)
                            /\ InHand(d, ops)' <=> InHand(d, ops)
                            /\ Entries(d, ops)' = Entries(d, ops),
         died \subseteq died', lost \subseteq lost', delegated' \in Nat, delegated <= delegated',
         d \in died' => d \in died \/ worker'[d] = "exiting",
         \/ worker'[d] = worker[d]
         \/ worker[d] = "none" /\ worker'[d] \in {"spawned", "unasked"} /\ d <= delegated'
         \/ worker[d] = "spawned" /\ worker'[d] = "running"
         \/ worker[d] = "reported" /\ worker'[d] = "exiting"
         \/ worker[d] \in {"spawned", "unasked", "running"} /\ worker'[d] = "exiting" /\ d \in died'
  PROVE  Follows(d)'
<1>1. /\ Queued(d, Reports)' = Queued(d, Reports)
      /\ Queued(d, {"exited"})' = Queued(d, {"exited"})
      /\ InHand(d, Reports)' <=> InHand(d, Reports)
      /\ InHand(d, {"exited"})' <=> InHand(d, {"exited"})
  BY DEF Kinds
<1>2. /\ Entries(d, Reports)' = Entries(d, Reports)
      /\ Entries(d, {"exited"})' = Entries(d, {"exited"})
  BY DEF Kinds
<1>3. /\ Told(d, Reports)' <=> Told(d, Reports)
      /\ Told(d, {"exited"})' <=> Told(d, {"exited"})
  BY <1>1, <1>2 DEF Told
<1>4. Excused(d) => Excused(d)'
  BY DEF Excused
<1>5. Course(d)'
  <2>1. Course(d)
    BY DEF Follows
  <2>2. d \in died' => Excused(d)'
    BY DEF Excused
  <2>3. d \in Nat /\ delegated \in Nat
    BY Delegations DEF Typed
  <2>4. d > delegated' => worker'[d] = "none"
    BY <2>1, <2>3 DEF Course
  <2> HIDE DEF Told, Excused
  <2>5. worker'[d] \in {"none", "spawned", "unasked", "running"} => worker[d] \in {"none", "spawned", "unasked", "running"}
    OBVIOUS
  <2>6. worker'[d] # "gone" => worker[d] # "gone"
    OBVIOUS
  <2>7. /\ worker'[d] \in {"none", "spawned", "unasked", "running"} => ~Told(d, Reports)'
        /\ worker'[d] # "gone" => ~Told(d, {"exited"})'
    BY <1>3, <2>1, <2>5, <2>6 DEF Course
  <2>8. worker'[d] \in {"reported", "exiting", "gone"} => Excused(d)' \/ Told(d, Reports)'
    BY <1>3, <1>4, <2>1, <2>2 DEF Course
  <2>9. worker'[d] = "gone" => Event("exited", d) \in lost' \/ Told(d, {"exited"})'
    BY <1>3, <2>1 DEF Course
  <2>10. d \in died' => worker'[d] \in {"exiting", "gone"}
    BY <2>1 DEF Course
  <2> QED BY <2>4, <2>7, <2>8, <2>9, <2>10 DEF Course
<1>6. Once(d)'
  BY <1>1, <1>2 DEF Follows, Once
<1>7. Ahead(d) => Ahead(d)'
  BY <1>1, <1>2 DEF Ahead
<1> QED BY <1>4, <1>5, <1>6, <1>7 DEF Follows

\* Places in the queue when an event is taken from it, or put at its end.
LEMMA QueuedTail ==
  ASSUME Typed, events["agent_mgr"] # <<>>, events'["agent_mgr"] = Tail(events["agent_mgr"]),
         NEW d, NEW ops
  PROVE  /\ \A j : j \in Queued(d, ops)' <=> j \in Nat \ {0} /\ j + 1 \in Queued(d, ops)
         /\ Queued(d, ops) \subseteq Nat \ {0}
<1> DEFINE q == events["agent_mgr"]
<1>0. q \in Seq(Message) /\ q # <<>>
  BY Components DEF Typed
<1>1. /\ Tail(q) \in Seq(Message) /\ Len(Tail(q)) = Len(q) - 1 /\ Len(q) \in Nat
      /\ \A j \in 1..Len(Tail(q)) : Tail(q)[j] = q[j + 1]
  BY <1>0, HeadTailProperties
<1>2. DOMAIN q = 1..Len(q) /\ DOMAIN Tail(q) = 1..(Len(q) - 1)
  BY <1>0, <1>1
<1> HIDE DEF q
<1>3. Queued(d, ops)' = {j \in 1..(Len(q) - 1) : q[j + 1].of = d /\ q[j + 1].op \in ops}
  BY <1>1, <1>2 DEF Queued, q
<1>4. Queued(d, ops) = {j \in 1..Len(q) : q[j].of = d /\ q[j].op \in ops}
  BY <1>2 DEF Queued, q
<1> QED BY <1>1, <1>3, <1>4

LEMMA QueuedAppend ==
  ASSUME Typed, NEW e \in Message, events'["agent_mgr"] = Append(events["agent_mgr"], e),
         NEW d, NEW ops
  PROVE  /\ Queued(d, ops)' = Queued(d, ops) \cup
              (IF e.of = d /\ e.op \in ops THEN {Len(events["agent_mgr"]) + 1} ELSE {})
         /\ \A i \in Queued(d, ops) : i \in Nat /\ i < Len(events["agent_mgr"]) + 1
<1> DEFINE q == events["agent_mgr"]
<1>1. q \in Seq(Message)
  BY Components DEF Typed
<1>2. /\ DOMAIN Append(q, e) = 1..(Len(q) + 1) /\ Append(q, e)[Len(q) + 1] = e
      /\ \A i \in 1..Len(q) : Append(q, e)[i] = q[i]
      /\ DOMAIN q = 1..Len(q) /\ Len(q) \in Nat
  BY <1>1
<1> HIDE DEF q
<1>3. Queued(d, ops) = {i \in 1..Len(q) : q[i].of = d /\ q[i].op \in ops}
  BY <1>2 DEF Queued, q
<1>4. Queued(d, ops)' = {i \in 1..(Len(q) + 1) :
                           Append(q, e)[i].of = d /\ Append(q, e)[i].op \in ops}
  BY <1>2 DEF Queued, q
<1>5. ASSUME NEW i
      PROVE  i \in Queued(d, ops)' <=>
               i \in Queued(d, ops) \/ (e.of = d /\ e.op \in ops /\ i = Len(q) + 1)
  <2>1. i \in 1..(Len(q) + 1) <=> i \in 1..Len(q) \/ i = Len(q) + 1
    BY <1>2
  <2>2. i \in 1..Len(q) => Append(q, e)[i] = q[i] /\ i # Len(q) + 1
    BY <1>2
  <2> QED BY <1>2, <1>3, <1>4, <2>1, <2>2
<1>6. Queued(d, ops)' = Queued(d, ops) \cup (IF e.of = d /\ e.op \in ops THEN {Len(q) + 1} ELSE {})
  BY <1>5
<1>7. \A i \in Queued(d, ops) : i \in Nat /\ i < Len(q) + 1
  BY <1>2, <1>3
<1> QED BY <1>6, <1>7 DEF q

\* An event of another delegation is queued, or dropped.
LEMMA QueuedOther ==
  ASSUME Typed, NEW e \in Message, NEW d, NEW ops, e.of # d,
         \/ events'["agent_mgr"] = Append(events["agent_mgr"], e)
         \/ events'["agent_mgr"] = events["agent_mgr"]
  PROVE  Queued(d, ops)' = Queued(d, ops)
<1>1. CASE events'["agent_mgr"] = Append(events["agent_mgr"], e)
  <2>1. Queued(d, ops)' = Queued(d, ops) \cup
          (IF e.of = d /\ e.op \in ops THEN {Len(events["agent_mgr"]) + 1} ELSE {})
    BY <1>1, QueuedAppend
  <2> QED BY <2>1
<1>2. CASE events'["agent_mgr"] = events["agent_mgr"]
  BY <1>2 DEF Queued
<1> QED BY <1>1, <1>2

\* An entry is kept at the end.
LEMMA EntriesAppend ==
  ASSUME Typed, NEW e \in Message, results' = Append(results, e), NEW d, NEW ops
  PROVE  /\ Entries(d, ops)' = Entries(d, ops) \cup
              (IF e.of = d /\ e.op \in ops THEN {Len(results) + 1} ELSE {})
         /\ \A i \in Entries(d, ops) : i \in Nat /\ i < Len(results) + 1
<1> DEFINE q == results
<1>1. q \in Seq(Message)
  BY DEF Typed
<1>2. /\ DOMAIN Append(q, e) = 1..(Len(q) + 1) /\ Append(q, e)[Len(q) + 1] = e
      /\ \A i \in 1..Len(q) : Append(q, e)[i] = q[i]
      /\ DOMAIN q = 1..Len(q) /\ Len(q) \in Nat
  BY <1>1
<1> HIDE DEF q
<1>3. Entries(d, ops) = {i \in 1..Len(q) : q[i].of = d /\ q[i].op \in ops}
  BY <1>2 DEF Entries, q
<1>4. Entries(d, ops)' = {i \in 1..(Len(q) + 1) :
                           Append(q, e)[i].of = d /\ Append(q, e)[i].op \in ops}
  BY <1>2 DEF Entries, q
<1>5. ASSUME NEW i
      PROVE  i \in Entries(d, ops)' <=>
               i \in Entries(d, ops) \/ (e.of = d /\ e.op \in ops /\ i = Len(q) + 1)
  <2>1. i \in 1..(Len(q) + 1) <=> i \in 1..Len(q) \/ i = Len(q) + 1
    BY <1>2
  <2>2. i \in 1..Len(q) => Append(q, e)[i] = q[i] /\ i # Len(q) + 1
    BY <1>2
  <2> QED BY <1>2, <1>3, <1>4, <2>1, <2>2
<1>6. Entries(d, ops)' = Entries(d, ops) \cup (IF e.of = d /\ e.op \in ops THEN {Len(q) + 1} ELSE {})
  BY <1>5
<1>7. \A i \in Entries(d, ops) : i \in Nat /\ i < Len(q) + 1
  BY <1>2, <1>3
<1> QED BY <1>6, <1>7 DEF q

\* Work of agent_mgr that is about no delegation.
Mute(j) == j.of = 0 \/ j.op \notin Reports \cup {"exited"}

LEMMA MuteHand ==
  ASSUME NEW d \in Delegation, Mute(job["agent_mgr"]), NEW ops \in Kinds
  PROVE  ~InHand(d, ops)
  BY Delegations DEF Mute, InHand, Kinds, Reports

LEMMA HandKept ==
  ASSUME NEW d \in Delegation, NEW ops \in Kinds,
         \/ /\ job'["agent_mgr"].of = job["agent_mgr"].of
            /\ job'["agent_mgr"].op = job["agent_mgr"].op
         \/ Mute(job["agent_mgr"]) /\ Mute(job["agent_mgr"])'
  PROVE  InHand(d, ops)' <=> InHand(d, ops)
<1>1. CASE /\ job'["agent_mgr"].of = job["agent_mgr"].of
           /\ job'["agent_mgr"].op = job["agent_mgr"].op
  BY <1>1 DEF InHand
<1>2. CASE Mute(job["agent_mgr"]) /\ Mute(job["agent_mgr"])'
  BY <1>2, Delegations DEF Mute, InHand, Kinds, Reports
<1> QED BY <1>1, <1>2

LEMMA SilentStep ==
  ASSUME Typed, InOrder, UNCHANGED <<results, died, worker, delegated>>, lost \subseteq lost',
         \A d \in Delegation : \A ops \in Kinds : Queued(d, ops)' = Queued(d, ops),
         \/ /\ job'["agent_mgr"].of = job["agent_mgr"].of
            /\ job'["agent_mgr"].op = job["agent_mgr"].op
         \/ Mute(job["agent_mgr"]) /\ Mute(job["agent_mgr"])'
  PROVE  InOrder'
<1> SUFFICES ASSUME NEW d \in Delegation PROVE Follows(d)'
  BY DEF InOrder
<1>1. \A ops \in Kinds : /\ Queued(d, ops)' = Queued(d, ops)
                         /\ InHand(d, ops)' <=> InHand(d, ops)
                         /\ Entries(d, ops)' = Entries(d, ops)
  BY HandKept DEF Entries
<1>2. Follows(d) /\ died \subseteq died' /\ delegated' \in Nat /\ delegated <= delegated'
  BY DEF InOrder, Typed
<1> QED BY <1>1, <1>2, Unheard

LEMMA SameQueue ==
  ASSUME events'["agent_mgr"] = events["agent_mgr"]
  PROVE  \A d, ops : Queued(d, ops)' = Queued(d, ops)
  BY DEF Queued

LEMMA IdleMute == Mute(Idle)
  BY IdleTyped DEF Mute

LEMMA FollowsServe == ASSUME Typed, InOrder, NEW c \in Comp, Serve(c) PROVE InOrder'
<1>1. UNCHANGED <<events, results, died, worker, delegated, lost>>
  BY DEF Serve, Take, Ask, Call, Return, working
<1>m. /\ "agent_mgr" \in Comp /\ job \in [Comp -> JobType]
      /\ job["agent_mgr"] \in JobType
  BY Components DEF Typed
<1>2. \/ /\ job'["agent_mgr"].of = job["agent_mgr"].of
         /\ job'["agent_mgr"].op = job["agent_mgr"].op
      \/ Mute(job["agent_mgr"]) /\ Mute(job["agent_mgr"])'
  <2>1. CASE c # "agent_mgr"
    BY <1>m, <2>1 DEF Serve, Take, Ask, Call, Return, Done
  <2>2. CASE c = "agent_mgr" /\ Take(c)
    <3>1. job["agent_mgr"] = Idle /\ job'["agent_mgr"].of = 0
      BY <1>m, <2>2 DEF Take, Job
    <3> QED BY <3>1, IdleMute DEF Mute
  <2>3. CASE c = "agent_mgr" /\ (Ask(c) \/ Call(c))
    <3>1. Ask(c) => FALSE
      BY <2>3 DEF Ask, Intents
    <3> QED BY <1>m, <2>3, <3>1 DEF Call, JobType
  <2>4. CASE c = "agent_mgr" /\ Return(c)
    <3>1. job'["agent_mgr"] = Idle /\ job["agent_mgr"].op \notin Reports \cup {"exited"}
      BY <1>m, <2>4 DEF Return, Ready, Done, Reports
    <3> QED BY <3>1, IdleMute DEF Mute
  <2> QED BY <2>1, <2>2, <2>3, <2>4 DEF Serve
<1> QED BY <1>1, <1>2, SilentStep, SameQueue

LEMMA FollowsAbandoned == ASSUME Typed, InOrder, (\E c \in Comp : TimeOut(c)) \/ AgentDies PROVE InOrder'
<1>m. "agent_mgr" \in Comp /\ job["agent_mgr"] \in JobType /\ job \in [Comp -> JobType]
  BY Components DEF Typed
<1>1. UNCHANGED <<events, results, died, worker, delegated, lost>>
  BY DEF TimeOut, AgentDies, working
<1>2. job'["agent_mgr"].of = job["agent_mgr"].of /\ job'["agent_mgr"].op = job["agent_mgr"].op
  <2>1. \E a : job'["agent_mgr"] \in {job["agent_mgr"], Abandon(a, job["agent_mgr"])}
    <3>1. CASE AgentDies
      BY <1>m, <3>1 DEF AgentDies
    <3>2. ASSUME NEW c \in Comp, TimeOut(c) PROVE \E a : job'["agent_mgr"] \in {job["agent_mgr"], Abandon(a, job["agent_mgr"])}
      BY <1>m, <3>2 DEF TimeOut
    <3> QED BY <3>1, <3>2
  <2> QED BY <1>m, <2>1, AbandonedJob
<1> QED BY <1>1, <1>2, SilentStep, SameQueue

\* agent_mgr takes up the next event.
LEMMA FollowsTakeEvent ==
  ASSUME Typed, InOrder, NEW c \in Listeners, TakeEvent(c) PROVE InOrder'
<1>m. /\ "agent_mgr" \in Comp /\ "agent_mgr" \in Listeners /\ job \in [Comp -> JobType]
      /\ events \in [Listeners -> Seq(Message)] /\ delegated \in Nat
  BY Components DEF Typed
<1>1. UNCHANGED <<results, died, worker, delegated, lost>>
  BY DEF TakeEvent, working
<1>2. CASE c # "agent_mgr"
  <2>1. events'["agent_mgr"] = events["agent_mgr"] /\ job'["agent_mgr"] = job["agent_mgr"]
    BY <1>m, <1>2 DEF TakeEvent
  <2> QED BY <1>1, <2>1, SilentStep, SameQueue
<1>3. CASE c = "agent_mgr"
  <2> SUFFICES ASSUME NEW d \in Delegation PROVE Follows(d)'
    BY DEF InOrder
  <2>1. Follows(d)
    BY DEF InOrder
  <2> DEFINE q == events["agent_mgr"]
  <2>2. /\ q \in Seq(Message) /\ q # <<>> /\ job["agent_mgr"] = Idle
        /\ events'["agent_mgr"] = Tail(q)
        /\ job'["agent_mgr"] = Job(Head(q).op, NoComp, FALSE, Head(q).of)
    BY <1>m, <1>3 DEF TakeEvent
  <2>3. ASSUME NEW ops \in Kinds
        PROVE  /\ ~InHand(d, ops)
               /\ InHand(d, ops)' <=> 1 \in Queued(d, ops)
               /\ \A j : j \in Queued(d, ops)' <=> j \in Nat \ {0} /\ j + 1 \in Queued(d, ops)
               /\ Queued(d, ops) \subseteq Nat \ {0}
               /\ Entries(d, ops)' = Entries(d, ops)
    <3>1. ~InHand(d, ops)
      BY <2>2, IdleMute, MuteHand
    <3>2. InHand(d, ops)' <=> 1 \in Queued(d, ops)
      <4>1. Head(q) = q[1] /\ 1 \in DOMAIN q
        BY <2>2
      <4>2. job'["agent_mgr"].of = q[1].of /\ job'["agent_mgr"].op = q[1].op
        BY <2>2, <4>1 DEF Job
      <4> QED BY <4>1, <4>2 DEF InHand, Queued
    <3>3. Entries(d, ops)' = Entries(d, ops)
      BY <1>1 DEF Entries
    <3> QED BY <2>2, <3>1, <3>2, <3>3, QueuedTail
  <2>4. Reports \in Kinds /\ {"exited"} \in Kinds
    BY DEF Kinds
  <2>5. ASSUME NEW ops \in Kinds PROVE Told(d, ops)' <=> Told(d, ops)
    <3>1. InHand(d, ops)' \/ Queued(d, ops)' # {} <=> Queued(d, ops) # {}
      <4>1. ASSUME NEW i \in Queued(d, ops) PROVE InHand(d, ops)' \/ Queued(d, ops)' # {}
        <5>1. CASE i = 1
          BY <2>3, <5>1
        <5>2. CASE i # 1
          <6>1. i \in Nat \ {0} /\ i - 1 \in Nat \ {0} /\ (i - 1) + 1 = i
            BY <2>3, <5>2
          <6> QED BY <2>3, <6>1
        <5> QED BY <5>1, <5>2
      <4> QED BY <2>3, <4>1
    <3> QED BY <2>3, <3>1 DEF Told
  <2>6. Excused(d)' <=> Excused(d)
    BY <1>1 DEF Excused
  <2>7. Course(d)'
    <3>1. (Told(d, Reports)' <=> Told(d, Reports)) /\ (Told(d, {"exited"})' <=> Told(d, {"exited"}))
      BY <2>4, <2>5
    <3> QED BY <1>1, <2>1, <2>6, <3>1 DEF Follows, Course
  <2>8. Once(d)'
    <3>1. \A i, j \in Queued(d, Reports)' : i = j
      <4> SUFFICES ASSUME NEW i \in Queued(d, Reports)', NEW j \in Queued(d, Reports)' PROVE i = j
        OBVIOUS
      <4>1. i \in Nat /\ j \in Nat /\ i + 1 \in Queued(d, Reports) /\ j + 1 \in Queued(d, Reports)
        BY <2>3, <2>4
      <4>2. i + 1 = j + 1
        BY <2>1, <4>1 DEF Follows, Once
      <4> QED BY <4>1, <4>2
    <3>2. InHand(d, Reports)' => Queued(d, Reports)' = {}
      <4> SUFFICES ASSUME InHand(d, Reports)', NEW i \in Queued(d, Reports)' PROVE FALSE
        OBVIOUS
      <4>1. 1 \in Queued(d, Reports) /\ i + 1 \in Queued(d, Reports) /\ i \in Nat \ {0}
        BY <2>3, <2>4
      <4>2. i + 1 = 1
        BY <2>1, <4>1 DEF Follows, Once
      <4> QED BY <4>1, <4>2
    <3>3. Entries(d, Reports)' # {} => ~InHand(d, Reports)' /\ Queued(d, Reports)' = {}
      <4>1. Entries(d, Reports)' = Entries(d, Reports)
        BY <2>3, <2>4
      <4>2. Entries(d, Reports) # {} => Queued(d, Reports) = {}
        BY <2>1 DEF Follows, Once
      <4>3. Queued(d, Reports) = {} => ~InHand(d, Reports)' /\ Queued(d, Reports)' = {}
        BY <2>3, <2>4
      <4> QED BY <4>1, <4>2, <4>3
    <3>4. \A i, j \in Entries(d, Reports)' : i = j
      BY <2>1, <2>3, <2>4 DEF Follows, Once
    <3> QED BY <3>1, <3>2, <3>3, <3>4 DEF Once
  <2>9. Excused(d)' \/ Ahead(d)'
    <3> SUFFICES ASSUME Ahead(d) PROVE Ahead(d)'
      BY <2>1, <2>6 DEF Follows
    <3>1. Entries(d, {"exited"})' = Entries(d, {"exited"}) /\ Entries(d, Reports)' = Entries(d, Reports)
      BY <2>3, <2>4
    <3>2. \A i \in Queued(d, {"exited"}) :
            Entries(d, Reports) # {} \/ \E j \in Queued(d, Reports) : j < i
      BY <2>3, <2>4 DEF Ahead
    <3>3. InHand(d, {"exited"})' => Entries(d, Reports)' # {}
      <4>1. ~\E j \in Queued(d, Reports) : j < 1
        BY <2>3, <2>4
      <4>2. InHand(d, {"exited"})' => 1 \in Queued(d, {"exited"})
        BY <2>3, <2>4
      <4> QED BY <3>1, <3>2, <4>1, <4>2
    <3>4. ASSUME NEW i \in Queued(d, {"exited"})'
          PROVE  Entries(d, Reports)' # {} \/ InHand(d, Reports)' \/ \E j \in Queued(d, Reports)' : j < i
      <4>1. i \in Nat /\ i + 1 \in Queued(d, {"exited"})
        BY <2>3, <2>4
      <4>2. CASE Entries(d, Reports) # {}
        BY <3>1, <4>2
      <4>3. ASSUME NEW j \in Queued(d, Reports), j < i + 1
            PROVE  InHand(d, Reports)' \/ \E k \in Queued(d, Reports)' : k < i
        <5>1. CASE j = 1
          BY <2>3, <2>4, <5>1
        <5>2. CASE j # 1
          <6>1. j \in Nat \ {0} /\ j - 1 \in Nat \ {0} /\ (j - 1) + 1 = j /\ j - 1 < i
            BY <2>3, <2>4, <4>1, <4>3, <5>2
          <6>2. j - 1 \in Queued(d, Reports)'
            BY <2>3, <2>4, <6>1
          <6> QED BY <6>1, <6>2
        <5> QED BY <5>1, <5>2
      <4> QED BY <3>2, <4>1, <4>2, <4>3
    <3>5. \A i \in Entries(d, {"exited"})' : \E j \in Entries(d, Reports)' : j < i
      BY <3>1 DEF Ahead
    <3> QED BY <3>3, <3>4, <3>5 DEF Ahead
  <2> QED BY <2>7, <2>8, <2>9 DEF Follows
<1> QED BY <1>2, <1>3

\* What agent_mgr has heard of a delegation becomes an entry.
LEMMA FollowsKept ==
  ASSUME Typed, InOrder, Completed \/ RunnerExited PROVE InOrder'
<1> DEFINE m == job["agent_mgr"]
<1>m. /\ "agent_mgr" \in Comp /\ job \in [Comp -> JobType] /\ m \in JobType /\ delegated \in Nat
      /\ "concierge" \in Listeners /\ "agent_mgr" \in Listeners
  BY Components DEF Typed
<1>1. PICK e \in Message : e = Event(m.op, m.of)
  <2>1. m.op \in Heard /\ m.of \in Nat
    BY <1>m DEF Completed, RunnerExited, Ready, JobType, Heard, Reports
  <2> QED BY <2>1 DEF Event, Message
<1>2. /\ results' = Append(results, e) /\ job'["agent_mgr"] = Idle
      /\ e.op = m.op /\ e.of = m.of /\ m.op \in Reports \cup {"exited"}
      /\ UNCHANGED <<died, worker, delegated>>
  BY <1>m, <1>1 DEF Completed, RunnerExited, Ready, Done, Event, Reports, working
<1>3. events'["agent_mgr"] = events["agent_mgr"] /\ lost \subseteq lost'
  <2>1. CASE Completed
    <3>1. Event("task", m.of) \in Message
      BY <1>m DEF Event, Message, Heard, JobType
    <3> QED BY <1>m, <2>1, <3>1, Injected DEF Completed
  <2>2. CASE RunnerExited
    BY <2>2 DEF RunnerExited
  <2> QED BY <2>1, <2>2
<1> SUFFICES ASSUME NEW d \in Delegation PROVE Follows(d)'
  BY DEF InOrder
<1>4. Follows(d)
  BY DEF InOrder
<1>5. Reports \in Kinds /\ {"exited"} \in Kinds /\ "exited" \notin Reports
  BY DEF Kinds, Reports
<1>6. ASSUME NEW ops \in Kinds
      PROVE  /\ Queued(d, ops)' = Queued(d, ops) /\ ~InHand(d, ops)'
             /\ InHand(d, ops) <=> e.of = d /\ e.op \in ops
             /\ Entries(d, ops)' =
                  Entries(d, ops) \cup (IF e.of = d /\ e.op \in ops THEN {Len(results) + 1} ELSE {})
             /\ \A i \in Entries(d, ops) : i \in Nat /\ i < Len(results) + 1
  <2>1. ~InHand(d, ops)'
    BY <1>2, IdleTyped, Delegations DEF InHand
  <2>2. InHand(d, ops) <=> e.of = d /\ e.op \in ops
    BY <1>2 DEF InHand
  <2> QED BY <1>2, <1>3, <2>1, <2>2, SameQueue, EntriesAppend
<1> HIDE DEF m
<1>7. CASE e.of # d
  <2>1. \A ops \in Kinds : /\ Queued(d, ops)' = Queued(d, ops)
                           /\ InHand(d, ops)' <=> InHand(d, ops)
                           /\ Entries(d, ops)' = Entries(d, ops)
    BY <1>6, <1>7
  <2>2. died' = died /\ worker'[d] = worker[d] /\ delegated' \in Nat /\ delegated <= delegated'
    BY <1>m, <1>2
  <2> QED BY <1>3, <1>4, <2>1, <2>2, Unheard
<1>8. CASE e.of = d
  <2>1. ASSUME NEW ops \in Kinds PROVE Told(d, ops)' <=> Told(d, ops)
    <3>1. Entries(d, ops)' # {} <=> Entries(d, ops) # {} \/ InHand(d, ops)
      BY <1>6, <1>8
    <3> QED BY <1>6, <3>1 DEF Told
  <2>2. Excused(d) => Excused(d)'
    BY <1>2, <1>3 DEF Excused
  <2>3. Course(d)'
    <3>1. (Told(d, Reports)' <=> Told(d, Reports)) /\ (Told(d, {"exited"})' <=> Told(d, {"exited"}))
      BY <1>5, <2>1
    <3> QED BY <1>2, <1>3, <1>4, <2>2, <3>1 DEF Follows, Course
  <2>4. Once(d)'
    <3>1. /\ Queued(d, Reports)' = Queued(d, Reports) /\ ~InHand(d, Reports)'
          /\ InHand(d, Reports) <=> e.op \in Reports
          /\ Entries(d, Reports)' =
               Entries(d, Reports) \cup (IF e.op \in Reports THEN {Len(results) + 1} ELSE {})
      BY <1>5, <1>6, <1>8
    <3> QED BY <1>4, <3>1 DEF Follows, Once
  <2>5. Ahead(d) => Ahead(d)'
    <3> SUFFICES ASSUME Ahead(d) PROVE Ahead(d)'
      OBVIOUS
    <3>1. Entries(d, Reports) \subseteq Entries(d, Reports)'
      BY <1>5, <1>6
    <3>2. InHand(d, Reports) => Entries(d, Reports)' # {}
      BY <1>5, <1>6
    <3>3. ASSUME NEW i \in Entries(d, {"exited"})' PROVE \E j \in Entries(d, Reports)' : j < i
      <4>1. CASE i \in Entries(d, {"exited"})
        BY <3>1, <4>1 DEF Ahead
      <4>2. CASE i \notin Entries(d, {"exited"})
        <5>1. i = Len(results) + 1 /\ InHand(d, {"exited"})
          BY <1>5, <1>6, <4>2
        <5>2. PICK j : j \in Entries(d, Reports)
          BY <5>1 DEF Ahead
        <5>3. j < i
          BY <1>5, <1>6, <5>1, <5>2
        <5> QED BY <3>1, <5>2, <5>3
      <4> QED BY <4>1, <4>2
    <3>4. \A i \in Queued(d, {"exited"})' :
            Entries(d, Reports)' # {} \/ \E j \in Queued(d, Reports)' : j < i
      BY <1>5, <1>6, <3>1, <3>2 DEF Ahead
    <3>5. ~InHand(d, {"exited"})'
      BY <1>5, <1>6
    <3> QED BY <3>3, <3>4, <3>5 DEF Ahead
  <2> QED BY <1>4, <2>2, <2>3, <2>4, <2>5 DEF Follows
<1> QED BY <1>7, <1>8

LEMMA FollowsPlain == ASSUME Typed, InOrder, Plain PROVE InOrder'
<1>1. Event("task", 0) \in Message /\ "concierge" \in Listeners
  BY Components DEF Event, Message, Heard
<1>2. events'["agent_mgr"] = events["agent_mgr"] /\ lost \subseteq lost'
  <2>1. Inject("concierge", Event("task", 0))
    BY DEF Plain
  <2>2. \/ events' = [events EXCEPT !["concierge"] = Append(events["concierge"], Event("task", 0))]
           /\ lost' = lost
        \/ events' = events /\ lost' = lost \cup {Event("task", 0)}
    BY <1>1, <2>1, Injected
  <2> QED BY <1>1, <2>2, Components DEF Typed
<1>3. job'["agent_mgr"] = Idle /\ job["agent_mgr"].op = "plain"
  BY Components DEF Plain, Ready, Done, Typed
<1>4. Mute(job["agent_mgr"]) /\ Mute(job["agent_mgr"])'
  BY <1>3, IdleMute DEF Mute, Reports
<1>5. UNCHANGED <<results, died, worker, delegated>>
  BY DEF Plain, working
<1> QED BY <1>2, <1>4, <1>5, SilentStep, SameQueue

LEMMA FollowsDelegate == ASSUME Typed, InOrder, Delegate PROVE InOrder'
<1>1. job'["agent_mgr"] = Idle /\ job["agent_mgr"].op = "delegate"
  BY Components DEF Delegate, Ready, Done, Typed
<1>2. Mute(job["agent_mgr"]) /\ Mute(job["agent_mgr"])'
  BY <1>1, IdleMute DEF Mute, Reports
<1>3. UNCHANGED <<events, results, died, lost>> /\ delegated \in Nat
  BY DEF Delegate, Typed
<1>4. CASE UNCHANGED <<delegated, worker>>
  BY <1>2, <1>3, <1>4, SilentStep, SameQueue
<1>5. ASSUME NEW w \in {"none", "spawned", "unasked"}, delegated' = delegated + 1,
             worker' = [worker EXCEPT ![delegated + 1] = w]
      PROVE  InOrder'
  <2> SUFFICES ASSUME NEW d \in Delegation PROVE Follows(d)'
    BY DEF InOrder
  <2>1. Follows(d) /\ d \in Nat
    BY Delegations DEF InOrder
  <2>2. \A ops \in Kinds : /\ Queued(d, ops)' = Queued(d, ops)
                           /\ InHand(d, ops)' <=> InHand(d, ops)
                           /\ Entries(d, ops)' = Entries(d, ops)
    BY <1>2, <1>3, HandKept, SameQueue DEF Entries
  <2>3. \/ worker'[d] = worker[d]
        \/ worker[d] = "none" /\ worker'[d] \in {"spawned", "unasked"} /\ d <= delegated'
    <3>1. CASE d = delegated + 1
      BY <1>3, <1>5, <2>1, <3>1 DEF Typed, Follows, Course
    <3>2. CASE d # delegated + 1
      BY <1>5, <3>2 DEF Typed
    <3> QED BY <3>1, <3>2
  <2> QED BY <1>3, <1>5, <2>1, <2>2, <2>3, Unheard
<1> QED BY <1>4, <1>5 DEF Delegate

\* A step of worker d, which may be heard of.
LEMMA FollowsWorkers ==
  ASSUME Typed, InOrder, NEW d \in Delegation, Work(d) \/ SelfStop(d) \/ WorkerDies(d)
  PROVE  InOrder'
<1>1. UNCHANGED <<job, results, delegated>> /\ delegated \in Nat /\ died \subseteq died'
  BY DEF Work, Start, Report, Exited, SelfStop, WorkerDies, serving, Typed
<1>2. \A ops, x : /\ Entries(x, ops)' = Entries(x, ops)
                  /\ InHand(x, ops)' <=> InHand(x, ops)
  BY <1>1 DEF Entries, InHand
<1>3. \A x \in Delegation : Follows(x)
  BY DEF InOrder
<1>k. Reports \in Kinds /\ {"exited"} \in Kinds /\ "exited" \notin Reports
  BY DEF Kinds, Reports
<1>4. CASE Start(d) \/ SelfStop(d) \/ WorkerDies(d)
  <2> SUFFICES ASSUME NEW x \in Delegation PROVE Follows(x)'
    BY DEF InOrder
  <2>1. events' = events /\ lost' = lost
    BY <1>4 DEF Start, SelfStop, WorkerDies
  <2>2. \A ops \in Kinds : Queued(x, ops)' = Queued(x, ops)
    BY <2>1, SameQueue
  <2>4. x \in died' => x \in died \/ worker'[x] = "exiting"
    BY <1>4 DEF Start, SelfStop, WorkerDies, Typed
  <2>3. \/ worker'[x] = worker[x]
        \/ worker[x] = "spawned" /\ worker'[x] = "running"
        \/ worker[x] = "reported" /\ worker'[x] = "exiting"
        \/ worker[x] \in {"spawned", "unasked", "running"} /\ worker'[x] = "exiting" /\ x \in died'
    BY <1>4 DEF Start, SelfStop, WorkerDies, Typed
  <2> QED BY <1>1, <1>2, <1>3, <2>1, <2>2, <2>3, <2>4, Unheard
<1>5. ASSUME NEW e \in Message, e.of = d, Inject("agent_mgr", e), died' = died,
             \/ /\ worker[d] = "running" /\ worker' = [worker EXCEPT ![d] = "reported"]
                /\ e = Event(e.op, d) /\ e.op \in Reports
             \/ /\ worker[d] = "exiting" /\ worker' = [worker EXCEPT ![d] = "gone"]
                /\ e = Event("exited", d) /\ e.op = "exited"
      PROVE  InOrder'
  <2> SUFFICES ASSUME NEW x \in Delegation PROVE Follows(x)'
    BY DEF InOrder
  <2> DEFINE n == Len(events["agent_mgr"]) + 1
  <2>1. \/ events'["agent_mgr"] = Append(events["agent_mgr"], e) /\ lost' = lost
        \/ events'["agent_mgr"] = events["agent_mgr"] /\ lost' = lost \cup {e}
    BY <1>5, Injected, Components DEF Typed
  <2>2. CASE x # d
    <3>1. \A ops \in Kinds : Queued(x, ops)' = Queued(x, ops)
      BY <1>5, <2>1, <2>2, QueuedOther
    <3>2. worker'[x] = worker[x] /\ lost \subseteq lost'
      BY <1>5, <2>1, <2>2 DEF Typed
    <3> QED BY <1>1, <1>2, <1>3, <1>5, <3>1, <3>2, Unheard
  <2>3. ASSUME x = d, events'["agent_mgr"] = Append(events["agent_mgr"], e), lost' = lost
        PROVE  Follows(d)'
    <3>1. PICK k \in Nat : k = n
      BY Components DEF Typed
    <3>2. ASSUME NEW ops \in Kinds
          PROVE  /\ Queued(d, ops)' = Queued(d, ops) \cup (IF e.op \in ops THEN {k} ELSE {})
                 /\ \A i \in Queued(d, ops) : i \in Nat /\ i < k
      BY <1>5, <2>3, <3>1, QueuedAppend
    <3> HIDE DEF n
    <3>3. Excused(d) => Excused(d)'
      BY <1>1, <2>3 DEF Excused
    <3>4. CASE worker[d] = "running" /\ worker'[d] = "reported" /\ e.op \in Reports
      <4>1. ~Told(d, Reports) /\ ~Told(d, {"exited"})
        BY <1>3, <3>4 DEF Follows, Course
      <4>2. /\ Queued(d, Reports) = {} /\ Entries(d, Reports) = {} /\ ~InHand(d, Reports)
            /\ Queued(d, {"exited"}) = {} /\ Entries(d, {"exited"}) = {} /\ ~InHand(d, {"exited"})
        BY <4>1 DEF Told
      <4>3. /\ Queued(d, Reports)' = {k} /\ Entries(d, Reports)' = {} /\ ~InHand(d, Reports)'
            /\ Queued(d, {"exited"})' = {} /\ Entries(d, {"exited"})' = {} /\ ~InHand(d, {"exited"})'
        BY <1>2, <1>k, <3>2, <3>4, <4>2
      <4>4. Told(d, Reports)' /\ ~Told(d, {"exited"})'
        BY <4>3 DEF Told
      <4>5. Course(d)'
        <5>1. d > delegated' => FALSE
          BY <1>1, <1>3, <3>4 DEF Follows, Course
        <5> QED BY <1>3, <1>5, <3>4, <4>4, <5>1 DEF Follows, Course
      <4>6. Once(d)' /\ Ahead(d)'
        BY <4>3 DEF Once, Ahead
      <4> QED BY <4>5, <4>6 DEF Follows
    <3>5. CASE worker[d] = "exiting" /\ worker'[d] = "gone" /\ e.op = "exited"
      <4>1. ~Told(d, {"exited"}) /\ (Excused(d) \/ Told(d, Reports))
        BY <1>3, <3>5 DEF Follows, Course
      <4>2. Queued(d, {"exited"}) = {} /\ Entries(d, {"exited"}) = {} /\ ~InHand(d, {"exited"})
        BY <4>1 DEF Told
      <4>3. /\ Queued(d, Reports)' = Queued(d, Reports) /\ Entries(d, Reports)' = Entries(d, Reports)
            /\ InHand(d, Reports)' <=> InHand(d, Reports)
            /\ Queued(d, {"exited"})' = {k} /\ Entries(d, {"exited"})' = {} /\ ~InHand(d, {"exited"})'
        BY <1>2, <1>k, <3>2, <3>5, <4>2
      <4>4. Told(d, Reports)' <=> Told(d, Reports)
        BY <4>3 DEF Told
      <4>5. Course(d)'
        <5>1. d > delegated' => FALSE
          BY <1>1, <1>3, <3>5 DEF Follows, Course
        <5>2. Told(d, {"exited"})'
          BY <4>3 DEF Told
        <5> QED BY <3>3, <3>5, <4>1, <4>4, <5>1, <5>2 DEF Course
      <4>6. Once(d)'
        BY <1>3, <4>3 DEF Follows, Once
      <4>7. Excused(d)' \/ Ahead(d)'
        <5>1. CASE Excused(d)
          BY <3>3, <5>1
        <5>2. CASE Told(d, Reports)
          <6>1. \A j \in Queued(d, Reports) : j < k
            BY <1>k, <3>2
          <6>2. Entries(d, Reports)' # {} \/ InHand(d, Reports)' \/ \E j \in Queued(d, Reports)' : j < k
            BY <4>3, <5>2, <6>1 DEF Told
          <6> QED BY <4>3, <6>2 DEF Ahead
        <5> QED BY <4>1, <5>1, <5>2
      <4> QED BY <4>5, <4>6, <4>7 DEF Follows
    <3> QED BY <1>5, <3>4, <3>5 DEF Typed
  <2>4. ASSUME x = d, events'["agent_mgr"] = events["agent_mgr"], lost' = lost \cup {e}
        PROVE  Follows(d)'
    <3>1. \A ops : /\ Queued(d, ops)' = Queued(d, ops) /\ Entries(d, ops)' = Entries(d, ops)
                   /\ InHand(d, ops)' <=> InHand(d, ops)
      BY <1>2, <2>4, SameQueue
    <3>2. \A ops : Told(d, ops)' <=> Told(d, ops)
      BY <3>1 DEF Told
    <3>3. Excused(d) => Excused(d)'
      BY <1>1, <2>4 DEF Excused
    <3>4. Once(d)' /\ (Ahead(d) => Ahead(d)')
      BY <1>3, <3>1 DEF Follows, Once, Ahead
    <3>5. ~(d > delegated')
      BY <1>1, <1>3, <1>5 DEF Follows, Course
    <3>6. CASE worker[d] = "running" /\ worker'[d] = "reported" /\ e = Event(e.op, d) /\ e.op \in Reports
      <4>1. Excused(d)'
        BY <2>4, <3>6 DEF Excused, Reports
      <4>2. ~Told(d, {"exited"})
        BY <1>3, <3>6 DEF Follows, Course
      <4>3. Course(d)'
        BY <1>3, <1>5, <3>2, <3>5, <3>6, <4>1, <4>2 DEF Follows, Course
      <4> QED BY <3>4, <4>1, <4>3 DEF Follows
    <3>7. CASE worker[d] = "exiting" /\ worker'[d] = "gone" /\ e = Event("exited", d)
      <4>1. Excused(d) \/ Told(d, Reports)
        BY <1>3, <3>7 DEF Follows, Course
      <4>2. Course(d)'
        BY <2>4, <3>2, <3>3, <3>5, <3>7, <4>1 DEF Course
      <4> QED BY <1>3, <3>3, <3>4, <4>2 DEF Follows
    <3> QED BY <1>5, <3>6, <3>7 DEF Typed
  <2> QED BY <2>1, <2>2, <2>3, <2>4
<1>6. d \in Nat
  BY Delegations
<1>7. CASE Report(d)
  <2>1. PICK op \in Reports : Inject("agent_mgr", Event(op, d))
    BY <1>7 DEF Report, Reports
  <2>2. Event(op, d) \in Message /\ Event(op, d).op = op /\ Event(op, d).of = d
    BY <1>6, <2>1 DEF Event, Message, Heard
  <2> QED BY <1>5, <1>7, <2>1, <2>2 DEF Report
<1>8. CASE Exited(d)
  <2>1. /\ Event("exited", d) \in Message /\ Event("exited", d).op = "exited"
        /\ Event("exited", d).of = d
    BY <1>6 DEF Event, Message, Heard
  <2> QED BY <1>5, <1>8, <2>1 DEF Exited
<1> QED BY <1>4, <1>7, <1>8 DEF Work

LEMMA FollowsNext == Typed /\ InOrder /\ [Next]_vars => InOrder'
<1> SUFFICES ASSUME Typed, InOrder, [Next]_vars PROVE InOrder'
  OBVIOUS
<1>1. ASSUME NEW op \in {"plain", "at"}, Input(op) PROVE InOrder'
  <2>1. /\ Event(op, 0) \in Message /\ Event(op, 0).of = 0
        /\ "agent_mgr" \in Listeners /\ events \in [Listeners -> Seq(Message)]
    BY <1>1, Components DEF Event, Message, Heard, Typed
  <2>2. /\ \/ events'["agent_mgr"] = Append(events["agent_mgr"], Event(op, 0))
           \/ events'["agent_mgr"] = events["agent_mgr"]
        /\ lost \subseteq lost'
    BY <1>1, <2>1, Injected DEF Input
  <2>3. \A d \in Delegation : \A ops \in Kinds : Queued(d, ops)' = Queued(d, ops)
    <3> SUFFICES ASSUME NEW d \in Delegation, NEW ops \in Kinds PROVE Queued(d, ops)' = Queued(d, ops)
      OBVIOUS
    <3>1. Event(op, 0).of # d
      BY <2>1, Delegations
    <3> QED BY <2>1, <2>2, <3>1, QueuedOther
  <2>4. UNCHANGED <<job, results, died, worker, delegated>>
    BY <1>1 DEF Input, serving, working
  <2> QED BY <2>2, <2>3, <2>4, SilentStep
<1>2. CASE UNCHANGED vars
  <2>1. UNCHANGED <<events, job, results, died, worker, delegated, lost>>
    BY <1>2 DEF vars
  <2> QED BY <2>1, SilentStep, SameQueue
<1>3. CASE Manage
  BY <1>3, FollowsPlain, FollowsDelegate, FollowsKept DEF Manage
<1> QED BY <1>1, <1>2, <1>3, FollowsServe, FollowsAbandoned, FollowsTakeEvent, FollowsWorkers DEF Next

LEMMA FollowsOrder == InOrder => ToldInOrder
<1> SUFFICES ASSUME InOrder, NEW d \in Delegation
             PROVE  /\ Cardinality(Entries(d, Reports)) <= 1
                    /\ \A i \in Entries(d, {"exited"}) :
                         Excused(d) \/ \E j \in Entries(d, Reports) : j < i
  BY DEF ToldInOrder, Reports, Excused
<1>1. Follows(d)
  BY DEF InOrder
<1>2. Cardinality(Entries(d, Reports)) <= 1
  <2>1. Entries(d, Reports) = {} \/ \E i : Entries(d, Reports) = {i}
    <3>1. \A i, j \in Entries(d, Reports) : i = j
      BY <1>1 DEF Follows, Once
    <3> QED BY <3>1
  <2>2. Cardinality(Entries(d, Reports)) \in {0, 1}
    BY <2>1, FS_EmptySet, FS_Singleton
  <2> QED BY <2>2
<1>3. \A i \in Entries(d, {"exited"}) : Excused(d) \/ \E j \in Entries(d, Reports) : j < i
  BY <1>1 DEF Follows, Ahead
<1> QED BY <1>2, <1>3

\* A delegation that ended is accounted for: its report and the end of its
\* worker are with agent_mgr or on the way there, but for events a full queue
\* dropped; a worker that died has an exit to come.
DelegationsAccounted ==
  \A d \in Delegation :
    /\ worker[d] = "reported" =>
         \/ Told(d, Reports)
         \/ Event("completed", d) \in lost \/ Event("failed", d) \in lost
    /\ worker[d] = "gone" => Event("exited", d) \in lost \/ Told(d, {"exited"})
    /\ d \in died => worker[d] \in {"exiting", "gone"}

\* Whoever waits for another component is owed one answer, by that component
\* and by nobody else, whatever queues, time-outs and the agent's end do
\* (rpc.rs).
THEOREM SpecWaitersServed == Spec => []WaitersServed
<1>1. Init => Typed /\ Served
  BY TypedInit, ServedInit
<1>2. Typed /\ Served /\ [Next]_vars => (Typed /\ Served)'
  BY TypedNext, ServedNext
<1>3. Typed /\ Served => WaitersServed
  BY ServedCounts
<1> QED BY <1>1, <1>2, <1>3, PTL DEF Spec

\* agent_mgr keeps one report of a delegation at most, and hears of a worker's
\* exit after it, for any number of delegations and any size of its queue
\* (agent_mgr.lua, engine.rs).
THEOREM SpecToldInOrder == Spec => []ToldInOrder
<1>1. Init => Typed /\ InOrder
  BY TypedInit, FollowsInit
<1>2. Typed /\ InOrder /\ [Next]_vars => (Typed /\ InOrder)'
  BY TypedNext, FollowsNext
<1>3. InOrder => ToldInOrder
  BY FollowsOrder
<1> QED BY <1>1, <1>2, <1>3, PTL DEF Spec

\* The end of a delegation is not forgotten, for any number of workers and
\* inputs, and any size of the queues (delegate_worker.lua, agent_mgr.lua).
\* This is the safety half of DelegationTold.
THEOREM SpecDelegationsAccounted == Spec => []DelegationsAccounted
<1>1. Init => Typed /\ InOrder
  BY TypedInit, FollowsInit
<1>2. Typed /\ InOrder /\ [Next]_vars => (Typed /\ InOrder)'
  BY TypedNext, FollowsNext
<1>3. InOrder => DelegationsAccounted
  BY DEF InOrder, Follows, Course, Excused, DelegationsAccounted
<1> QED BY <1>1, <1>2, <1>3, PTL DEF Spec

-----------------------------------------------------------------------------
(* The interrupt of a running request.                                     *)

BridgeStates == {"none", "spawned", "checking", "arming", "waiting",
                 "interrupted", "cancelling", "done", "dropped"}

\* Between the reset of the flag and the spawn of the bridge, and from then on,
\* a flag that is up was stored for the request at hand or a later one.
FlagIsCurrent ==
  /\ pc = "spawning" /\ flag => storedIn = request
  /\ \A r \in Requests : bridge[r] # "none" /\ flag => storedIn >= r

\* One bridge at most is not told to abort: the one of the request at hand.
OneBridge ==
  /\ \A r \in Requests : bridge[r] # "none" /\ r \notin guardAborted
                           => r = request /\ pc \in {"running", "returned"}
  /\ pc \in {"taken", "resetting", "spawning"} =>
       request \in Requests /\ bridge[request] = "none" /\ request \notin guardAborted
  /\ pc \in {"running", "returned"} =>
       request \in Requests /\ request \notin guardAborted /\ bridge[request] \notin {"none", "dropped"}

\* No wake-up is lost between the flag and the permit, and a bridge that is done
\* has fired its token.
Awake ==
  /\ \A r \in Requests : flag /\ r \notin guardAborted /\ bridge[r] \in {"arming", "waiting"}
                           => permit \/ watcher = "notifying"
  /\ \A r \in Requests : bridge[r] = "done" => r \in cancelled

\* An interrupt that finds its request running is on its way to it: its bridge
\* has still to look at the flag, or is past it, or a permit is there to wake
\* it or about to be; or the request's cancel token has been fired.
InterruptPursued ==
  flag /\ pc = "running" =>
    \/ bridge[request] \in {"spawned", "checking", "interrupted", "cancelling"}
    \/ bridge[request] \in {"arming", "waiting"} /\ (permit \/ watcher = "notifying")
    \/ request \in cancelled

InterruptInv == TypeOK /\ FlagIsCurrent /\ NoLeftoverInterrupt /\ OneBridge /\ Awake

LEMMA RequestsAreNumbers == MaxRequests \in Nat /\ \A r : r \in Requests <=> r \in Nat /\ 1 <= r /\ r <= MaxRequests
  BY InterruptAssumption DEF Requests

LEMMA InterruptInvInit == InterruptInit => InterruptInv
<1> SUFFICES ASSUME InterruptInit PROVE InterruptInv
  OBVIOUS
<1>1. /\ bridge = [r \in Requests |-> "none"] /\ request = 0 /\ storedIn = 0 /\ pc = "select"
      /\ token = 0 /\ sent = 0 /\ watcher = "watching" /\ flag = FALSE /\ permit = FALSE
      /\ kill = FALSE /\ guardAborted = {} /\ cancelled = {} /\ killed = {}
      /\ loopQueue = <<>> /\ watchQueue = <<>>
  BY DEF InterruptInit
<1>2. /\ bridge \in [Requests -> BridgeStates]
      /\ \A r \in Requests : bridge[r] = "none"
  BY <1>1 DEF BridgeStates
<1>3. <<>> \in Seq({"Veto", "Shutdown"})
  OBVIOUS
<1>4. TypeOK
  <2>1. {flag, permit, kill} \subseteq BOOLEAN
    BY <1>1
  <2>2. sent \in 0..MaxSignals /\ request \in 0..MaxRequests /\ token \in 0..request
    BY <1>1, InterruptAssumption
  <2>3. watcher \notin {"interrupting", "notifying"}
    BY <1>1
  <2> QED BY <1>1, <1>2, <1>3, <2>1, <2>2, <2>3 DEF TypeOK, BridgeStates
<1> QED BY <1>1, <1>2, <1>4
        DEF InterruptInv, FlagIsCurrent, NoLeftoverInterrupt, OneBridge, Awake

\* The parts of TypeOK, by what writes them.
QueuesOK ==
  /\ loopQueue \in Seq({"Veto", "Shutdown"}) /\ watchQueue \in Seq({"Veto", "Shutdown"})
  /\ sent \in 0..MaxSignals
  /\ watcher \in {"watching", "interrupting", "notifying", "exited"}
  /\ (watcher \in {"interrupting", "notifying"} => watchQueue # <<>>)
LoopOK ==
  /\ request \in 0..MaxRequests /\ token \in 0..request
  /\ pc \in {"select", "taken", "resetting", "spawning", "running", "returned",
             "on_signal", "shutdown", "snapshotted", "handler", "done"}
  /\ {flag, permit, kill} \subseteq BOOLEAN
  /\ storedIn \in 0..request /\ killed \subseteq 1..request
BridgesOK ==
  /\ bridge \in [Requests -> BridgeStates]
  /\ \A r \in Requests : bridge[r] # "none" => r <= request
  /\ guardAborted \subseteq 1..request /\ cancelled \subseteq 1..request

LEMMA TypeParts == TypeOK <=> QueuesOK /\ LoopOK /\ BridgesOK
  BY DEF TypeOK, QueuesOK, LoopOK, BridgesOK, BridgeStates

LEMMA QueuesNext == QueuesOK /\ [InterruptNext]_interruptVars => QueuesOK'
<1> SUFFICES ASSUME QueuesOK, [InterruptNext]_interruptVars PROVE QueuesOK'
  OBVIOUS
<1>0. ASSUME UNCHANGED <<loopQueue, watchQueue, sent, watcher>> PROVE QueuesOK'
  BY <1>0 DEF QueuesOK
<1>1. ASSUME NEW kind \in SignalKinds, SendSignal(kind) PROVE QueuesOK'
  <2>1. kind \in {"Veto", "Shutdown"} /\ MaxSignals \in Nat
    BY InterruptAssumption
  <2>2. /\ Append(loopQueue, kind) \in Seq({"Veto", "Shutdown"})
        /\ Append(watchQueue, kind) \in Seq({"Veto", "Shutdown"})
        /\ Append(watchQueue, kind) # <<>>
    BY <2>1, AppendProperties DEF QueuesOK
  <2> QED BY <1>1, <2>1, <2>2 DEF SendSignal, QueuesOK
<1>2. CASE WatcherRecv \/ StoreFlag
  BY <1>2 DEF WatcherRecv, StoreFlag, QueuesOK, queues
<1>3. CASE Notify
  <2>1. Tail(watchQueue) \in Seq({"Veto", "Shutdown"})
    BY <1>3, HeadTailProperties DEF Notify, QueuesOK
  <2> QED BY <1>3, <2>1 DEF Notify, WatcherNext, QueuesOK
<1>4. ASSUME NEW r \in Requests, BridgeStep(r) PROVE QueuesOK'
  BY <1>0, <1>4 DEF BridgeStep, BridgeStarts, BridgeChecks, BridgeArms, BridgeWakes, BridgeKills,
                    BridgeCancels, BridgeDropped, BridgeMoves, queues
<1>5. CASE TakeVeto \/ TakeShutdown
  <2>1. Tail(loopQueue) \in Seq({"Veto", "Shutdown"})
    BY <1>5, HeadTailProperties DEF TakeVeto, TakeShutdown, QueuesOK
  <2> QED BY <1>5, <2>1 DEF TakeVeto, TakeShutdown, LoopMoves, QueuesOK
<1>6. CASE Exit
  <2>1. <<>> \in Seq({"Veto", "Shutdown"})
    OBVIOUS
  <2> QED BY <1>6, <2>1 DEF Exit, QueuesOK
<1>7. CASE \/ TakeRequest \/ ResetKill \/ ResetFlag \/ SpawnBridge \/ LuaReturns \/ LuaInterrupted
           \/ AbortBridge \/ HandlerReturns \/ SnapshotReturns \/ SnapshotKilled \/ LuaShutdown
  BY <1>0, <1>7 DEF TakeRequest, ResetKill, ResetFlag, SpawnBridge, LuaReturns, LuaInterrupted,
       AbortBridge, HandlerReturns, SnapshotReturns, SnapshotKilled, LuaShutdown, LoopMoves
<1>8. CASE UNCHANGED interruptVars
  BY <1>0, <1>8 DEF interruptVars, queues
<1> QED BY <1>1, <1>2, <1>3, <1>4, <1>5, <1>6, <1>7, <1>8
        DEF InterruptNext, WatcherStep, LoopStep

LEMMA LoopNext ==
  ASSUME LoopOK, BridgesOK, OneBridge, [InterruptNext]_interruptVars PROVE LoopOK'
<1>0. ASSUME UNCHANGED <<request, token, pc, flag, permit, storedIn, killed>>,
             kill' \in BOOLEAN
      PROVE  LoopOK'
  BY <1>0 DEF LoopOK
<1>1. ASSUME NEW kind \in SignalKinds, SendSignal(kind) PROVE LoopOK'
  BY <1>0, <1>1 DEF SendSignal, channel, lua, history, LoopOK
<1>2. CASE WatcherStep
  <2>1. {flag', permit', kill'} \subseteq BOOLEAN
    BY <1>2 DEF WatcherStep, WatcherRecv, StoreFlag, Notify, channel, lua, LoopOK
  <2>2. UNCHANGED <<request, token, pc, killed>> /\ storedIn' \in {storedIn, request}
    BY <1>2 DEF WatcherStep, WatcherRecv, StoreFlag, Notify, lua, history
  <2> QED BY <2>1, <2>2 DEF LoopOK
<1>4. ASSUME NEW r \in Requests, BridgeStep(r) PROVE LoopOK'
  <2>1. UNCHANGED <<request, token, pc, storedIn, killed>>
    BY <1>4 DEF BridgeStep, BridgeStarts, BridgeChecks, BridgeArms, BridgeWakes, BridgeKills,
                BridgeCancels, BridgeDropped, BridgeMoves, history
  <2>2. {flag', permit', kill'} \subseteq BOOLEAN
    BY <1>4 DEF BridgeStep, BridgeStarts, BridgeChecks, BridgeArms, BridgeWakes, BridgeKills,
                BridgeCancels, BridgeDropped, channel, LoopOK
  <2> QED BY <2>1, <2>2 DEF LoopOK
<1>5. CASE TakeRequest
  BY <1>5, InterruptAssumption DEF TakeRequest, LoopMoves, lua, history, LoopOK
<1>6. CASE ResetKill \/ ResetFlag \/ SpawnBridge \/ LuaReturns \/ AbortBridge
  <2>1. {flag', permit', kill'} \subseteq BOOLEAN
    BY <1>6 DEF ResetKill, ResetFlag, SpawnBridge, LuaReturns, AbortBridge, LoopMoves, lua, LoopOK
  <2>2. /\ UNCHANGED <<request, storedIn, killed>> /\ token' \in {token, request}
        /\ pc' \in {"resetting", "spawning", "running", "returned", "select"}
    BY <1>6 DEF ResetKill, ResetFlag, SpawnBridge, LuaReturns, AbortBridge, LoopMoves, lua, history
  <2> QED BY <2>1, <2>2 DEF LoopOK
<1>7. CASE LuaInterrupted
  <2>1. request \in 1..request
    BY <1>7, RequestsAreNumbers DEF LuaInterrupted, LoopMoves, OneBridge
  <2> QED BY <1>7, <2>1 DEF LuaInterrupted, LoopMoves, LoopOK
<1>8. CASE TakeVeto \/ HandlerReturns \/ TakeShutdown
  BY <1>8 DEF TakeVeto, HandlerReturns, TakeShutdown, LoopMoves, lua, history, LoopOK
<1>9. CASE SnapshotReturns \/ SnapshotKilled \/ LuaShutdown \/ Exit
  BY <1>9 DEF SnapshotReturns, SnapshotKilled, LuaShutdown, Exit, LoopMoves, lua, history, channel,
              LoopOK
<1>10. CASE UNCHANGED interruptVars
  BY <1>0, <1>10 DEF interruptVars, channel, lua, history, LoopOK
<1> QED BY <1>1, <1>2, <1>4, <1>5, <1>6, <1>7, <1>8, <1>9, <1>10 DEF InterruptNext, LoopStep

\* What a step of a bridge does.
LEMMA BridgeEffect ==
  ASSUME BridgesOK, NEW r \in Requests, BridgeStep(r)
  PROVE  /\ bridge[r] # "none" /\ UNCHANGED <<pc, request, watcher, flag, storedIn, guardAborted>>
         /\ bridge' \in [Requests -> BridgeStates]
         /\ \A q \in Requests \ {r} : bridge'[q] = bridge[q]
         /\ bridge'[r] \in {"checking", "arming", "waiting", "interrupted", "cancelling", "done",
                            "dropped"}
         /\ bridge'[r] = "interrupted" => flag
         /\ bridge'[r] \in {"cancelling", "done"} => bridge[r] \in {"interrupted", "cancelling"}
         /\ bridge'[r] = "dropped" => r \in guardAborted
         /\ bridge'[r] = "arming" => ~flag
         /\ bridge'[r] = "waiting" => bridge[r] = "arming"
         /\ permit' = permit \/ (bridge'[r] = "checking" /\ r \notin guardAborted)
         /\ cancelled' = cancelled \/ cancelled' = cancelled \cup {r}
         /\ bridge'[r] = "done" => r \in cancelled'
<1>1. bridge \in [Requests -> BridgeStates]
  BY DEF BridgesOK
<1>2. UNCHANGED <<pc, request, watcher, flag, storedIn, guardAborted>>
  BY DEF BridgeStep, BridgeStarts, BridgeChecks, BridgeArms, BridgeWakes, BridgeKills,
         BridgeCancels, BridgeDropped, BridgeMoves, channel, history
<1>3. CASE BridgeStarts(r) \/ BridgeArms(r) \/ BridgeWakes(r)
  BY <1>1, <1>2, <1>3 DEF BridgeStarts, BridgeArms, BridgeWakes, BridgeMoves, channel, BridgeStates
<1>4. CASE BridgeChecks(r)
  BY <1>1, <1>2, <1>4 DEF BridgeChecks, BridgeMoves, channel, BridgeStates
<1>5. CASE BridgeKills(r) \/ BridgeCancels(r)
  BY <1>1, <1>2, <1>5 DEF BridgeKills, BridgeCancels, BridgeMoves, channel, BridgeStates
<1>6. CASE BridgeDropped(r)
  BY <1>1, <1>2, <1>6 DEF BridgeDropped, BridgeMoves, channel, BridgeStates
<1> QED BY <1>3, <1>4, <1>5, <1>6 DEF BridgeStep

LEMMA BridgesNext ==
  ASSUME LoopOK, BridgesOK, OneBridge, [InterruptNext]_interruptVars PROVE BridgesOK'
<1>n. request \in Nat /\ \A r \in Requests : r \in Nat /\ r >= 1
  BY InterruptAssumption DEF LoopOK, Requests
<1>0. ASSUME UNCHANGED <<bridge, guardAborted, cancelled, request>> PROVE BridgesOK'
  BY <1>0 DEF BridgesOK
<1>1. CASE (\E kind \in SignalKinds : SendSignal(kind)) \/ WatcherStep
  BY <1>0, <1>1 DEF SendSignal, WatcherStep, WatcherRecv, StoreFlag, Notify, bridges, lua
<1>2. ASSUME NEW r \in Requests, BridgeStep(r) PROVE BridgesOK'
  <2>1. r <= request /\ request' = request
    BY <1>2, BridgeEffect DEF BridgesOK
  <2>2. cancelled' \subseteq 1..request
    <3>1. cancelled' = cancelled \/ cancelled' = cancelled \cup {r}
      BY <1>2, BridgeEffect
    <3>2. r \in 1..request /\ cancelled \subseteq 1..request
      BY <1>n, <2>1 DEF BridgesOK
    <3> QED BY <3>1, <3>2
  <2> QED BY <1>2, <2>1, <2>2, BridgeEffect DEF BridgesOK
<1>3. CASE TakeRequest
  BY <1>3, <1>n DEF TakeRequest, LoopMoves, bridges, lua, BridgesOK
<1>4. CASE SpawnBridge
  BY <1>4, <1>n DEF SpawnBridge, LoopMoves, lua, BridgesOK, OneBridge, BridgeStates
<1>5. CASE AbortBridge
  BY <1>5, <1>n DEF AbortBridge, LoopMoves, lua, BridgesOK, OneBridge
<1>6. CASE TakeShutdown
  <2>1. {token} \ {0} \subseteq 1..request
    BY <1>n DEF LoopOK
  <2> QED BY <1>6, <2>1 DEF TakeShutdown, LoopMoves, bridges, BridgesOK
<1>7. CASE \/ ResetKill \/ ResetFlag \/ LuaReturns \/ LuaInterrupted \/ TakeVeto \/ HandlerReturns
           \/ SnapshotReturns \/ SnapshotKilled \/ LuaShutdown \/ Exit
  BY <1>0, <1>7 DEF ResetKill, ResetFlag, LuaReturns, LuaInterrupted, TakeVeto, HandlerReturns,
       SnapshotReturns, SnapshotKilled, LuaShutdown, Exit, LoopMoves, bridges, lua
<1>8. CASE UNCHANGED interruptVars
  BY <1>0, <1>8 DEF interruptVars, bridges, lua
<1> QED BY <1>1, <1>2, <1>3, <1>4, <1>5, <1>6, <1>7, <1>8 DEF InterruptNext, LoopStep

\* A step that leaves the flag, the bridges and the request alone.
LEMMA Elsewhere ==
  ASSUME InterruptInv, UNCHANGED <<request, flag, bridge, storedIn, guardAborted>>,
         cancelled \subseteq cancelled', permit => permit', watcher = "notifying" => watcher' = "notifying" \/ permit',
         \/ pc' = pc
         \/ {pc, pc'} \subseteq {"taken", "resetting"}
         \/ {pc, pc'} \subseteq {"running", "returned"}
         \/ {pc, pc'} \cap {"taken", "resetting", "spawning", "running", "returned"} = {}
  PROVE  FlagIsCurrent' /\ NoLeftoverInterrupt' /\ OneBridge' /\ Awake'
<1>1. FlagIsCurrent' /\ NoLeftoverInterrupt'
  BY DEF InterruptInv, FlagIsCurrent, NoLeftoverInterrupt
<1>2. OneBridge'
  BY DEF InterruptInv, OneBridge
<1>3. Awake'
  BY DEF InterruptInv, Awake
<1> QED BY <1>1, <1>2, <1>3

LEMMA FlagsNext ==
  ASSUME InterruptInv, [InterruptNext]_interruptVars
  PROVE  FlagIsCurrent' /\ NoLeftoverInterrupt' /\ OneBridge' /\ Awake'
<1>n. /\ request \in Nat /\ request <= MaxRequests /\ storedIn \in Nat /\ storedIn <= request
      /\ \A r \in Requests : r \in Nat /\ r >= 1
      /\ \A r \in Requests : bridge[r] # "none" => r <= request
      /\ guardAborted \subseteq 1..request /\ MaxRequests \in Nat
      /\ bridge \in [Requests -> BridgeStates]
  BY InterruptAssumption DEF InterruptInv, TypeOK, Requests, BridgeStates
<1>0. CASE UNCHANGED interruptVars
  BY <1>0, Elsewhere DEF interruptVars, channel, bridges, lua, history
<1>1. CASE \E kind \in SignalKinds : SendSignal(kind)
  BY <1>1, Elsewhere DEF SendSignal, channel, bridges, lua, history
<1>2. CASE WatcherRecv \/ Notify
  BY <1>2, Elsewhere DEF WatcherRecv, Notify, channel, bridges, lua, history
<1>3. CASE StoreFlag
  <2>1. /\ flag' = TRUE /\ storedIn' = request /\ watcher' = "notifying"
        /\ UNCHANGED <<pc, request, bridge, guardAborted, cancelled>>
    BY <1>3 DEF StoreFlag, bridges, lua
  <2>2. FlagIsCurrent' /\ NoLeftoverInterrupt'
    BY <1>n, <2>1 DEF InterruptInv, FlagIsCurrent, NoLeftoverInterrupt
  <2> QED BY <2>1, <2>2 DEF InterruptInv, OneBridge, Awake
<1>4. ASSUME NEW r \in Requests, BridgeStep(r)
      PROVE  FlagIsCurrent' /\ NoLeftoverInterrupt' /\ OneBridge' /\ Awake'
  <2>0. BridgesOK
    BY TypeParts DEF InterruptInv
  <2>1. FlagIsCurrent' /\ NoLeftoverInterrupt'
    BY <1>4, <2>0, BridgeEffect DEF InterruptInv, FlagIsCurrent, NoLeftoverInterrupt
  <2>2. OneBridge'
    BY <1>4, <2>0, BridgeEffect DEF InterruptInv, OneBridge
  <2>3. Awake'
    <3>1. \A q \in Requests : bridge'[q] = "done" => q \in cancelled'
      BY <1>4, <2>0, BridgeEffect DEF InterruptInv, Awake
    <3>2. ASSUME NEW q \in Requests, flag', q \notin guardAborted',
                 bridge'[q] \in {"arming", "waiting"}
          PROVE  permit' \/ watcher' = "notifying"
      <4>1. CASE q = r
        <5>1. bridge[r] = "arming" /\ permit' = permit /\ watcher' = watcher
          BY <1>4, <2>0, <3>2, <4>1, BridgeEffect
        <5> QED BY <1>4, <2>0, <3>2, <4>1, <5>1, BridgeEffect DEF InterruptInv, Awake
      <4>2. CASE q # r
        <5>1. bridge[q] = bridge'[q] /\ q \notin guardAborted /\ flag
          BY <1>4, <2>0, <3>2, <4>2, BridgeEffect
        <5>2. q = request
          BY <3>2, <5>1 DEF InterruptInv, OneBridge
        <5>3. r \in guardAborted
          BY <1>4, <2>0, <4>2, <5>2, BridgeEffect DEF InterruptInv, OneBridge
        <5>4. permit' = permit /\ watcher' = watcher
          BY <1>4, <2>0, <5>3, BridgeEffect
        <5> QED BY <3>2, <5>1, <5>4 DEF InterruptInv, Awake
      <4> QED BY <4>1, <4>2
    <3> QED BY <3>1, <3>2 DEF Awake
  <2> QED BY <2>1, <2>2, <2>3
<1>5. CASE TakeRequest
  <2>1. /\ request' = request + 1 /\ pc = "select" /\ pc' = "taken"
        /\ UNCHANGED <<flag, bridge, storedIn, guardAborted, cancelled, permit, watcher>>
        /\ request < MaxRequests
    BY <1>5 DEF TakeRequest, LoopMoves, bridges, lua, history
  <2>2. FlagIsCurrent' /\ NoLeftoverInterrupt' /\ Awake'
    BY <1>n, <2>1 DEF InterruptInv, FlagIsCurrent, NoLeftoverInterrupt, Awake
  <2>3. request + 1 \in Requests /\ bridge[request + 1] = "none" /\ request + 1 \notin guardAborted
    <3>1. request + 1 \in Requests
      BY <1>n, <2>1 DEF Requests
    <3> QED BY <1>n, <3>1
  <2>4. OneBridge'
    BY <2>1, <2>3 DEF InterruptInv, OneBridge
  <2> QED BY <2>2, <2>4
<1>6. CASE ResetFlag
  <2>1. /\ flag' = FALSE /\ UNCHANGED <<request, bridge, storedIn, guardAborted, cancelled>>
        /\ pc = "resetting" /\ pc' = "spawning"
    BY <1>6 DEF ResetFlag, LoopMoves, bridges, lua, history
  <2> QED BY <2>1 DEF InterruptInv, FlagIsCurrent, NoLeftoverInterrupt, OneBridge, Awake
<1>7. CASE SpawnBridge
  <2>1. /\ pc = "spawning" /\ pc' = "running"
        /\ UNCHANGED <<request, flag, storedIn, guardAborted, cancelled, permit, watcher>>
        /\ bridge' = [bridge EXCEPT ![request] = "spawned"]
    BY <1>7 DEF SpawnBridge, LoopMoves, lua, history
  <2>2. \A r \in Requests : bridge'[r] = IF r = request THEN "spawned" ELSE bridge[r]
    BY <1>n, <2>1
  <2>3. FlagIsCurrent' /\ NoLeftoverInterrupt'
    BY <1>n, <2>1, <2>2 DEF InterruptInv, FlagIsCurrent, NoLeftoverInterrupt
  <2>4. OneBridge'
    BY <2>1, <2>2 DEF InterruptInv, OneBridge
  <2>5. Awake'
    BY <2>1, <2>2 DEF InterruptInv, Awake
  <2> QED BY <2>3, <2>4, <2>5
<1>8. CASE AbortBridge
  <2>1. /\ pc = "returned" /\ pc' = "select" /\ guardAborted' = guardAborted \cup {request}
        /\ UNCHANGED <<request, bridge, flag, storedIn, cancelled, permit, watcher>>
    BY <1>8 DEF AbortBridge, LoopMoves, lua, history
  <2>2. FlagIsCurrent' /\ NoLeftoverInterrupt' /\ Awake'
    BY <2>1 DEF InterruptInv, FlagIsCurrent, NoLeftoverInterrupt, Awake
  <2>3. OneBridge'
    BY <2>1 DEF InterruptInv, OneBridge
  <2> QED BY <2>2, <2>3
<1>9. CASE ResetKill \/ LuaReturns \/ LuaInterrupted
  BY <1>9, Elsewhere DEF ResetKill, LuaReturns, LuaInterrupted, LoopMoves, bridges, lua, history
<1>10. CASE TakeVeto \/ HandlerReturns \/ TakeShutdown
  BY <1>10, Elsewhere DEF TakeVeto, HandlerReturns, TakeShutdown, LoopMoves, bridges, lua, history
<1>11. CASE SnapshotReturns \/ SnapshotKilled \/ LuaShutdown
  BY <1>11, Elsewhere DEF SnapshotReturns, SnapshotKilled, LuaShutdown, LoopMoves, bridges, lua,
       history
<1>12. CASE Exit
  <2>1. /\ pc = "handler" /\ pc' = "done"
        /\ UNCHANGED <<request, flag, permit, bridge, guardAborted, cancelled, storedIn>>
    BY <1>12 DEF Exit, channel, bridges, lua, history
  <2>2. \A r \in Requests : bridge[r] # "none" => r \in guardAborted
    BY <2>1 DEF InterruptInv, OneBridge
  <2>3. Awake'
    BY <2>1, <2>2 DEF InterruptInv, Awake
  <2> QED BY <2>1, <2>3 DEF InterruptInv, FlagIsCurrent, NoLeftoverInterrupt, OneBridge
<1> QED BY <1>0, <1>1, <1>2, <1>3, <1>4, <1>5, <1>6, <1>7, <1>8, <1>9, <1>10, <1>11, <1>12
        DEF InterruptNext, WatcherStep, LoopStep

LEMMA InterruptInvNext == InterruptInv /\ [InterruptNext]_interruptVars => InterruptInv'
<1> SUFFICES ASSUME InterruptInv, [InterruptNext]_interruptVars PROVE InterruptInv'
  OBVIOUS
<1>1. QueuesOK /\ LoopOK /\ BridgesOK /\ OneBridge
  BY TypeParts DEF InterruptInv
<1>2. QueuesOK' /\ LoopOK' /\ BridgesOK'
  BY <1>1, QueuesNext, LoopNext, BridgesNext
<1>3. TypeOK'
  BY <1>2 DEF TypeOK, QueuesOK, LoopOK, BridgesOK, BridgeStates
<1> QED BY <1>3, FlagsNext DEF InterruptInv

LEMMA PursuedFromInv == InterruptInv => InterruptPursued
<1> SUFFICES ASSUME InterruptInv, flag, pc = "running"
             PROVE  \/ bridge[request] \in {"spawned", "checking", "interrupted", "cancelling"}
                    \/ bridge[request] \in {"arming", "waiting"} /\ (permit \/ watcher = "notifying")
                    \/ request \in cancelled
  BY DEF InterruptPursued
<1>1. /\ request \in Requests /\ request \notin guardAborted
      /\ bridge[request] \in BridgeStates \ {"none", "dropped"}
  BY DEF InterruptInv, OneBridge, TypeOK, BridgeStates
<1> QED BY <1>1 DEF InterruptInv, Awake, BridgeStates

\* Types, for any number of requests and signals (base.rs, component.rs).
THEOREM SpecInterruptTypeOK == InterruptSpec => []TypeOK
<1>1. InterruptInv => TypeOK
  BY DEF InterruptInv
<1> QED BY <1>1, InterruptInvInit, InterruptInvNext, PTL DEF InterruptSpec

\* A bridge raises the kill flag only for an interrupt that was issued while its
\* own request, or a later one, was at hand, for any number of requests and
\* signals and whatever the tasks interleave (component.rs, interrupt.rs).
THEOREM SpecNoLeftoverInterrupt == InterruptSpec => []NoLeftoverInterrupt
<1>1. InterruptInv => NoLeftoverInterrupt
  BY DEF InterruptInv
<1> QED BY <1>1, InterruptInvInit, InterruptInvNext, PTL DEF InterruptSpec

\* An interrupt that finds its request running is never stranded: between the
\* flag and the permit of interrupt.rs no wake-up of the bridge is lost.  This is
\* the safety half of InterruptLands.
THEOREM SpecInterruptPursued == InterruptSpec => []InterruptPursued
  BY PursuedFromInv, InterruptInvInit, InterruptInvNext, PTL DEF InterruptSpec
=============================================================================
