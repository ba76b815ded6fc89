--------------------------- MODULE ToolLoopProofs ---------------------------
(***************************************************************************)
(* What a request of the tool loop can rely on, for every number of        *)
(* requests, turns, retries and tools, whichever of them overlap and come  *)
(* by RPC.  Three invariants in turn: the turns used are carried over      *)
(* suspensions (Inv); what is kept of a conversation is closed, so what is *)
(* sent is answered (ConvInv); and what is sent speaks for the request at  *)
(* hand (SpeakInv).                                                        *)
(***************************************************************************)
EXTENDS ToolLoop, FiniteSetTheorems, TLAPS

-----------------------------------------------------------------------------
(* The turns and the budget.                                               *)

\* Whose session is saved: a request with hil_intents that runs finds none.
Kept ==
  /\ savedBy \in Task \cup {NoTask} /\ robbed \subseteq mixed
  /\ savedBy = NoTask <=> savedSession = 0
  /\ savedBy # NoTask => outcome[savedBy] # "new"
  /\ phase \in Running /\ opts[task].hil => savedBy = NoTask

Inv == TurnsCarried /\ BudgetKept /\ Kept

\* What a step needs from the invariant when it leaves the counters alone.
LEMMA UnchangedInv ==
  Inv /\ UNCHANGED vars => Inv'
  BY DEF Inv, TurnsCarried, TypeOK, BudgetKept, Kept, vars, store, call, runner, past, marks

LEMMA InitInv == Init => Inv
  <1> SUFFICES ASSUME Init PROVE Inv
    OBVIOUS
  <1>1. MaxTurns \in Nat
    BY ToolLoopAssumption
  <1>2. /\ asked = [t \in Task |-> 0] /\ outcome = [t \in Task |-> "new"]
        /\ pending = NoPending /\ phase = "idle"
    BY DEF Init
  <1>3. opts \in [Task -> [hil : BOOLEAN, rpc : BOOLEAN, named : Nat]]
    BY DEF Init
  <1>4. TypeOK
    <2>1. asked \in [Task -> Nat]
      BY <1>2
    <2>2. outcome \in [Task -> {"new", "running", "ok", "error", "killed"}]
      BY <1>2
    <2>3. 0 \in 0..MaxTurns
      BY <1>1
    <2>4. phase \in Running \cup {"idle", "stopped"} /\ pending \in {NoPending}
      BY <1>2
    <2>5. /\ turn = 0 /\ savedTurns = 0 /\ savedSession = 0 /\ made = 0 /\ replies = 0
          /\ task = NoTask /\ killed = FALSE
      BY DEF Init
    <2> QED BY <2>1, <2>2, <2>3, <2>4, <2>5, <1>3 DEF TypeOK
  <1>5. \A t \in Task : asked[t] = 0 /\ outcome[t] = "new"
    BY <1>2
  <1>6. TurnsCarried
    BY <1>2, <1>4, <1>5 DEF TurnsCarried, Running
  <1>7. BudgetKept
    BY <1>1, <1>5 DEF BudgetKept
  <1>8. Kept
    BY DEF Init, Kept, Running
  <1> QED BY <1>6, <1>7, <1>8 DEF Inv

\* A call that starts takes over the turns the accumulator holds.
LEMMA EnterTurn ==
  ASSUME TypeOK, NEW t \in Task, NEW o \in [hil : BOOLEAN, rpc : BOOLEAN, named : Nat], Enter(t, o)
  PROVE  /\ phase' = "checking" /\ task' = t /\ session' \in Session
         /\ turn' = (IF o.hil THEN savedTurns ELSE 0)
         /\ savedTurns' = (IF o.hil THEN 0 ELSE savedTurns)
         /\ savedSession' = (IF o.hil THEN 0 ELSE savedSession)
         /\ savedTurns' \in 0..MaxTurns /\ turn' \in 0..MaxTurns
         /\ savedSession' \in Nat /\ made' \in Nat
  BY ToolLoopAssumption DEF Enter, EnterIn, TypeOK, Session

\* What it takes from another request is noted.
LEMMA EnterMeets ==
  ASSUME NEW t \in Task, NEW o, Enter(t, o)
  PROVE  /\ savedBy' = (IF o.hil THEN NoTask ELSE savedBy)
         /\ robbed \subseteq robbed' /\ mixed \subseteq mixed'
         /\ o.hil /\ savedBy \notin {t, NoTask} => savedBy \in robbed' /\ {t, savedBy} \subseteq mixed'
         /\ ~o.hil /\ session' = savedSession => savedBy \in mixed'
         /\ robbed \subseteq mixed => robbed' \subseteq mixed'
  BY DEF Enter, EnterIn, Meets

LEMMA BeginInv ==
  ASSUME Inv, NEW t \in Task, Begin(t)
  PROVE  Inv'
  <1>1. PICK o \in [hil : BOOLEAN, rpc : BOOLEAN, named : 0..made] :
          opts' = [opts EXCEPT ![t] = o] /\ Enter(t, o)
    BY DEF Begin
  <1>2. o \in [hil : BOOLEAN, rpc : BOOLEAN, named : Nat]
    BY DEF Inv, TurnsCarried, TypeOK
  <1>3. /\ phase' = "checking" /\ task' = t /\ session' \in Session /\ turn' \in 0..MaxTurns
        /\ savedTurns' = (IF o.hil THEN 0 ELSE savedTurns)
        /\ savedSession' = (IF o.hil THEN 0 ELSE savedSession)
        /\ savedTurns' \in 0..MaxTurns /\ savedSession' \in Nat /\ made' \in Nat
    BY <1>1, <1>2, EnterTurn DEF Inv, TurnsCarried
  <1>4. TypeOK'
    BY <1>1, <1>2, <1>3 DEF Inv, TurnsCarried, TypeOK, Begin, Running
  <1>5. /\ asked[t] = 0 /\ outcome[t] = "new" /\ opts'[t] = o /\ savedBy # t
        /\ outcome' = [outcome EXCEPT ![t] = "running"]
        /\ UNCHANGED <<pending, asked>> /\ outcome \in [Task -> {"new", "running", "ok", "error", "killed"}]
        /\ opts \in [Task -> [hil : BOOLEAN, rpc : BOOLEAN, named : Nat]]
        /\ NoTask \notin Task
    BY <1>1, ToolLoopAssumption DEF Begin, Inv, TurnsCarried, TypeOK, Kept
  <1>6. /\ savedBy' = (IF o.hil THEN NoTask ELSE savedBy)
        /\ robbed \subseteq robbed' /\ robbed' \subseteq mixed'
        /\ o.hil /\ savedBy # NoTask => savedBy \in robbed'
    BY <1>1, <1>5, EnterMeets DEF Inv, Kept
  <1>7. ASSUME pending' # NoPending
        PROVE  /\ opts'[pending'.task].hil /\ outcome'[pending'.task] # "new" /\ task' # pending'.task
               /\ pending'.task \notin robbed' =>
                    /\ savedBy' = pending'.task /\ savedSession' # 0
                    /\ asked'[pending'.task] <= savedTurns'
    <2>1. /\ pending.task \in Task /\ pending.task # t /\ opts[pending.task].hil
          /\ outcome[pending.task] # "new"
          /\ pending.task \notin robbed =>
               /\ savedBy = pending.task /\ savedSession # 0 /\ asked[pending.task] <= savedTurns
      BY <1>5, <1>7 DEF Inv, TurnsCarried, TypeOK
    <2>2. opts'[pending.task] = opts[pending.task] /\ outcome'[pending.task] = outcome[pending.task]
      BY <1>1, <1>5, <2>1
    <2> QED BY <1>3, <1>5, <1>6, <2>1, <2>2
  <1>8. \A u \in Task : outcome'[u] = "new" => outcome[u] = "new"
    BY <1>5
  <1>9. outcome'[t] = "running"
    BY <1>5
  <1>10. asked'[t] <= turn'
    BY <1>3, <1>5
  <1>11. TurnsCarried'
    BY <1>3, <1>4, <1>5, <1>7, <1>8, <1>9, <1>10 DEF Inv, TurnsCarried, Running
  <1>12. BudgetKept'
    BY <1>5, <1>6 DEF Inv, BudgetKept
  <1>13. Kept'
    <2>1. \A u \in Task : outcome[u] # "new" => outcome'[u] # "new"
      BY <1>5
    <2> QED BY <1>3, <1>5, <1>6, <2>1 DEF Inv, Kept
  <1> QED BY <1>11, <1>12, <1>13 DEF Inv

LEMMA ApproveInv ==
  ASSUME Inv, Approve
  PROVE  Inv'
  <1>1. pending \in [task : Task, pattern : Pattern]
    BY DEF Approve, Inv, TurnsCarried, TypeOK
  <1> DEFINE t == pending.task
  <1>2. /\ t \in Task /\ opts[t] \in [hil : BOOLEAN, rpc : BOOLEAN, named : Nat]
        /\ opts[t].hil /\ outcome[t] # "new" /\ NoTask \notin Task
        /\ t \notin robbed => savedBy = t /\ asked[t] <= savedTurns
    BY <1>1, ToolLoopAssumption DEF Approve, Inv, TurnsCarried, TypeOK
  <1>3. /\ phase' = "checking" /\ task' = t /\ session' \in Session /\ turn' = savedTurns
        /\ turn' \in 0..MaxTurns /\ savedSession' = 0
        /\ savedTurns' \in 0..MaxTurns /\ savedSession' \in Nat /\ made' \in Nat
    BY <1>2, EnterTurn DEF Approve, Inv, TurnsCarried
  <1>4. savedBy' = NoTask /\ robbed \subseteq robbed' /\ robbed' \subseteq mixed'
    BY <1>2, EnterMeets DEF Approve, Inv, Kept
  <1>5. TypeOK'
    BY <1>2, <1>3 DEF Inv, TurnsCarried, TypeOK, Approve, Running, past
  <1>6. TurnsCarried'
    BY <1>2, <1>3, <1>4, <1>5 DEF Approve, Inv, TurnsCarried, TypeOK, Running, past, NoPending
  <1>7. BudgetKept'
    BY <1>4 DEF Approve, Inv, BudgetKept, past
  <1>8. Kept'
    BY <1>3, <1>4 DEF Kept
  <1> QED BY <1>6, <1>7, <1>8 DEF Inv

\* The steps of a call that is running.
LEMMA StepInv ==
  ASSUME Inv, Step
  PROVE  Inv'
  <1> USE ToolLoopAssumption DEF Inv, Running, Kept, marks
  <1>1. CASE Killed
    BY <1>1 DEF Killed, Returns, TurnsCarried, TypeOK, BudgetKept, store, runner
  <1>2. CASE OverallTimeout
    BY <1>2 DEF OverallTimeout, Ends, Returns, TurnsCarried, TypeOK, BudgetKept, store, runner
  <1>3. CASE Build
    BY <1>3 DEF Build, TurnsCarried, TypeOK, BudgetKept, store, runner, past
  <1>4. CASE Retry
    BY <1>4 DEF Retry, TurnsCarried, TypeOK, BudgetKept, store, runner, past
  <1>5. CASE SendFails
    BY <1>5 DEF SendFails, Ends, Returns, TurnsCarried, TypeOK, BudgetKept, store, runner
  <1>6. CASE Reply
    <2>1. /\ task \in Task /\ asked[task] \in Nat /\ turn \in 0..MaxTurns /\ session \in Session
          /\ task \notin robbed => asked[task] <= turn
          /\ asked' = [asked EXCEPT ![task] = @ + 1] /\ phase' = "replied"
          /\ UNCHANGED <<task, session, turn, savedTurns, savedSession, opts, pending, outcome, marks>>
      BY <1>6 DEF Reply, TurnsCarried, TypeOK, store, runner
    <2>2. \A t \in Task : asked'[t] = IF t = task THEN asked[t] + 1 ELSE asked[t]
      BY <2>1 DEF TurnsCarried, TypeOK
    <2>3. outcome[task] # "new" /\ (pending # NoPending => pending.task \in Task \ {task})
      BY <1>6 DEF Reply, TurnsCarried, TypeOK
    <2>4. TypeOK'
      BY <1>6, <2>1 DEF Reply, TurnsCarried, TypeOK, store, runner
    <2>5. \A t \in Task : outcome'[t] = "new" => asked'[t] = 0
      BY <2>1, <2>2, <2>3 DEF TurnsCarried
    <2>6. task \notin robbed => asked'[task] <= turn + 1
      BY <2>1, <2>2
    <2>7. pending # NoPending => asked'[pending.task] = asked[pending.task]
      BY <2>2, <2>3
    <2>8. TurnsCarried'
      BY <1>6, <2>1, <2>3, <2>4, <2>5, <2>6, <2>7 DEF TurnsCarried
    <2>9. BudgetKept'
      BY <2>1, <2>2 DEF BudgetKept, TurnsCarried, TypeOK
    <2>10. Kept'
      BY <1>6, <2>1 DEF Reply
    <2> QED BY <2>8, <2>9, <2>10
  <1>7. CASE Resolve
    BY <1>7 DEF Resolve, Resolves, Says, TurnsCarried, TypeOK, BudgetKept, runner
  <1>8. CASE GoOn
    BY <1>8 DEF GoOn, Says, TurnsCarried, TypeOK, BudgetKept, runner, past
  <1>9. CASE Final
    BY <1>9 DEF Final, Ends, Returns, TurnsCarried, TypeOK, BudgetKept, runner
  <1>10. CASE Dispatch
    BY <1>10 DEF Dispatch, TurnsCarried, TypeOK, BudgetKept, store, runner, past
  <1>11. CASE Suspend
    <2>1. /\ task \in Task /\ turn < MaxTurns /\ turn \in 0..MaxTurns /\ MaxTurns \in Nat
          /\ task \notin robbed => asked[task] <= turn + 1
          /\ outcome[task] # "new" /\ opts[task].hil /\ savedBy = NoTask
          /\ NoTask \notin Task /\ asked \in [Task -> Nat]
      BY <1>11 DEF Suspend, TurnsCarried, TypeOK
    <2>2. PICK pattern \in Lacks(reply.uses[at]) : Awaits(pattern)
      BY <1>11 DEF Suspend
    <2>3. pattern \in Pattern
      BY <2>2 DEF Lacks, Pattern
    <2>4. session \in Nat \ {0}
      BY <1>11 DEF Suspend, TurnsCarried, TypeOK, Session
    <2>5. /\ phase' = "idle" /\ task' = NoTask /\ turn' = 0
          /\ savedTurns' = turn + 1 /\ savedSession' = session /\ savedBy' = task
          /\ UNCHANGED <<made, opts, killed, replies, asked, robbed, mixed>>
      BY <1>11 DEF Suspend, Returns
    <2>6. pending # NoPending => pending.task \in robbed
      BY <2>1 DEF TurnsCarried, TypeOK
    <2>7. /\ pending' \in {NoPending} \cup [task : Task, pattern : Pattern]
          /\ pending' # NoPending =>
               /\ opts[pending'.task].hil /\ outcome'[pending'.task] # "new"
               /\ pending'.task = task \/ pending'.task \in robbed
          /\ outcome' \in [Task -> {"new", "running", "ok", "error", "killed"}]
          /\ \A t \in Task : outcome'[t] = "new" <=> outcome[t] = "new"
      <3>1. CASE opts[task].rpc
        <4>1. /\ outcome' = [outcome EXCEPT ![task] = "error"] /\ pending' = pending
              /\ outcome \in [Task -> {"new", "running", "ok", "error", "killed"}]
          BY <2>2, <3>1 DEF Awaits, TurnsCarried, TypeOK
        <4>2. \A t \in Task : outcome'[t] = "new" <=> outcome[t] = "new"
          BY <2>1, <4>1
        <4>3. outcome' \in [Task -> {"new", "running", "ok", "error", "killed"}]
          BY <4>1
        <4> QED BY <2>6, <4>1, <4>2, <4>3 DEF TurnsCarried, TypeOK
      <3>2. CASE ~opts[task].rpc
        <4>1. outcome' = outcome /\ pending' = [task |-> task, pattern |-> pattern]
          BY <2>2, <3>2 DEF Awaits
        <4> QED BY <2>1, <2>3, <4>1 DEF TurnsCarried, TypeOK
      <3> QED BY <3>1, <3>2
    <2>8. TypeOK'
      BY <2>1, <2>4, <2>5, <2>7 DEF TurnsCarried, TypeOK
    <2>9. TurnsCarried'
      BY <2>1, <2>4, <2>5, <2>7, <2>8 DEF TurnsCarried
    <2>10. BudgetKept'
      BY <2>5 DEF BudgetKept
    <2>11. Kept'
      BY <2>1, <2>4, <2>5, <2>7
    <2> QED
      BY <2>9, <2>10, <2>11
  <1>12. CASE Answer
    BY <1>12 DEF Answer, Says, TurnsCarried, TypeOK, BudgetKept, runner, past
  <1>13. CASE Stop
    BY <1>13 DEF Stop, TurnsCarried, TypeOK, BudgetKept, store, call, runner, past
  <1>14. CASE DispatchFails
    BY <1>14 DEF DispatchFails, Ends, Returns, TurnsCarried, TypeOK, BudgetKept, runner
  <1> QED
    BY <1>1, <1>2, <1>3, <1>4, <1>5, <1>6, <1>7, <1>8, <1>9, <1>10, <1>11, <1>12, <1>13, <1>14 DEF Step

LEMMA NextInv ==
  ASSUME Inv, [Next]_vars
  PROVE  Inv'
  <1>1. ASSUME NEW t \in Task, Begin(t) PROVE Inv'
    BY <1>1, BeginInv
  <1>2. CASE Approve
    BY <1>2, ApproveInv
  <1>3. CASE Reject
    BY <1>3, ToolLoopAssumption
    DEF Reject, Inv, TurnsCarried, TypeOK, BudgetKept, Kept, Running, NoPending, store, call, past, marks
  <1>4. CASE Veto
    BY <1>4 DEF Veto, Inv, TurnsCarried, TypeOK, BudgetKept, Kept, Running, store, call, past, marks
  <1>5. CASE Step
    BY <1>5, StepInv
  <1>6. CASE UNCHANGED vars
    BY <1>6, UnchangedInv
  <1> QED BY <1>1, <1>2, <1>3, <1>4, <1>5, <1>6 DEF Next

\* The turns a task has used are carried over every suspension and resumption,
\* unless another request ran with hil_intents while it waited.
THEOREM SpecTurnsCarried == Spec => []TurnsCarried
  <1>1. Inv /\ [Next]_vars => Inv'
    BY NextInv
  <1> QED BY <1>1, InitInv, PTL DEF Spec, Inv

\* However often it is suspended, a request asks the provider at most
\* MaxTurns + 1 times, unless another one took the turns it had left.
THEOREM SpecBudgetKept == Spec => []BudgetKept
  <1>1. Inv /\ [Next]_vars => Inv'
    BY NextInv
  <1> QED BY <1>1, InitInv, PTL DEF Spec, Inv

-----------------------------------------------------------------------------
(* The conversation: every tool use is answered before it is sent.         *)

Message ==
  [by : {"user", "assistant"},
   kind : {"prompt", "approved", "text", "uses", "results", "suspended", "go_on"},
   of : Task \cup Nat]
Messages == Seq(Message)

AnsweredAt(s, i) ==
  /\ i + 1 \in DOMAIN s
  /\ s[i + 1].kind \in {"results", "suspended"} /\ s[i + 1].of = s[i].of

Answered(s) == \A i \in DOMAIN s : s[i].kind = "uses" => AnsweredAt(s, i)

\* The tool uses of reply r may still be without results at the end of s.
Asking(s, r) ==
  \A i \in DOMAIN s : s[i].kind = "uses" => AnsweredAt(s, i) \/ (i = Len(s) /\ s[i].of = r)

ConvType ==
  /\ history \in [Session -> Messages] /\ messages \in Messages
  /\ phase \in Running \cup {"idle", "stopped"} /\ replies \in Nat
  /\ phase \in Running => task \in Task /\ session \in Session
  /\ pending # NoPending => pending.task \in Task

\* Only the conversation of the batch that is dispatched is open, or the one a
\* kill left behind, and a stopped runner sends nothing more.
Closed ==
  /\ phase \in {"checking", "sending", "replied"} => Answered(messages)
  /\ phase = "dispatching" => Asking(messages, replies) /\ Asking(history[session], replies)
  /\ phase # "stopped" =>
       \A s \in Session : ~(phase = "dispatching" /\ s = session) => Answered(history[s])

ConvInv == ConvType /\ Closed

LEMMA MessageType ==
  ASSUME NEW of \in Task \cup Nat,
         NEW kind \in {"prompt", "approved", "text", "uses", "results", "suspended", "go_on"}
  PROVE  User(kind, of) \in Message /\ Assistant(kind, of) \in Message
  BY DEF User, Assistant, Message

\* What is said is appended one message after the other.
LEMMA Said ==
  ASSUME NEW S, NEW s \in Seq(S), NEW m \in S, NEW n \in S
  PROVE  s \o <<m>> = Append(s, m) /\ s \o <<m, n>> = Append(Append(s, m), n)
  OBVIOUS

LEMMA Appended ==
  ASSUME NEW S, NEW s \in Seq(S), NEW m \in S
  PROVE  /\ Append(s, m) \in Seq(S) /\ Len(Append(s, m)) = Len(s) + 1 /\ Len(s) \in Nat
         /\ DOMAIN s = 1..Len(s) /\ DOMAIN Append(s, m) = 1..Len(s) + 1
         /\ \A i \in 1..Len(s) : Append(s, m)[i] = s[i]
         /\ Append(s, m)[Len(s) + 1] = m
  OBVIOUS

LEMMA AppendAnswered ==
  ASSUME NEW s \in Messages, NEW m \in Message, Answered(s), m.kind # "uses"
  PROVE  Answered(Append(s, m))
  BY Appended DEF Messages, Answered, AnsweredAt

LEMMA AppendAsking ==
  ASSUME NEW s \in Messages, NEW m \in Message, Answered(s)
  PROVE  Asking(Append(s, m), m.of)
  BY Appended DEF Messages, Answered, Asking, AnsweredAt

LEMMA AnswerAsking ==
  ASSUME NEW s \in Messages, NEW m \in Message, NEW r, Asking(s, r),
         m.kind \in {"results", "suspended"}, m.of = r
  PROVE  Answered(Append(s, m))
  BY Appended DEF Messages, Answered, Asking, AnsweredAt

LEMMA ConvInit == Init => ConvInv
  <1> SUFFICES ASSUME Init PROVE ConvInv
    OBVIOUS
  <1>1. <<>> \in Messages /\ Answered(<<>>)
    BY DEF Messages, Answered
  <1>2. history = [s \in Session |-> <<>>] /\ messages = <<>> /\ phase = "idle"
        /\ replies = 0 /\ pending = NoPending
    BY DEF Init
  <1>3. history \in [Session -> Messages] /\ \A s \in Session : Answered(history[s])
    BY <1>1, <1>2
  <1>4. ConvType
    BY <1>1, <1>2, <1>3 DEF ConvType, Running
  <1>5. Closed
    BY <1>2, <1>3 DEF Closed
  <1> QED BY <1>4, <1>5 DEF ConvInv

\* A call starts from a conversation that is closed.
LEMMA EnterClosed ==
  ASSUME ConvInv, phase = "idle", NEW t \in Task, NEW o, Enter(t, o), replies' = replies,
         pending' # NoPending => pending'.task \in Task
  PROVE  ConvInv'
  <1>1. PICK s \in Session, resumed \in BOOLEAN : EnterIn(t, s, resumed, o.hil)
    <2>1. (o.hil /\ savedSession # 0) \in BOOLEAN
      OBVIOUS
    <2> QED BY <2>1 DEF Enter
  <1> DEFINE m == IF resumed THEN User("approved", 0) ELSE User("prompt", t)
  <1>2. m \in Message /\ m.kind # "uses" /\ User("prompt", t) \in Message
    <2>1. User("approved", 0) \in Message /\ User("prompt", t) \in Message
      BY MessageType
    <2> QED BY <2>1 DEF User
  <1> HIDE DEF m
  <1>3. history \in [Session -> Messages] /\ history[s] \in Messages /\ Answered(history[s])
    BY DEF ConvInv, ConvType, Closed
  <1>4. /\ messages' = Append(history[s], m) /\ phase' = "checking" /\ task' = t /\ session' = s
        /\ history' = IF ~resumed /\ history[s] = <<>>
                      THEN [history EXCEPT ![s] = <<User("prompt", t)>>] ELSE history
    BY <1>1 DEF EnterIn, m
  <1>5. messages' \in Messages /\ Answered(messages')
    BY <1>2, <1>3, <1>4, AppendAnswered, Appended DEF Messages
  <1>6. <<User("prompt", t)>> \in Messages /\ Answered(<<User("prompt", t)>>)
    BY <1>2 DEF Messages, Answered, User
  <1>7. history' \in [Session -> Messages]
    BY <1>3, <1>4, <1>6
  <1>8. \A x \in Session : Answered(history[x])
    BY DEF ConvInv, Closed
  <1>9. \A x \in Session : Answered(history'[x])
    <2>1. CASE ~resumed /\ history[s] = <<>>
      BY <1>3, <1>4, <1>6, <1>8, <2>1
    <2>2. CASE ~(~resumed /\ history[s] = <<>>)
      BY <1>4, <1>8, <2>2
    <2> QED BY <2>1, <2>2
  <1>10. ConvType'
    BY <1>4, <1>5, <1>7 DEF ConvInv, ConvType, Running
  <1>11. Closed'
    BY <1>4, <1>5, <1>9 DEF Closed
  <1> QED BY <1>10, <1>11 DEF ConvInv

\* A step that says nothing keeps the conversations as they are.
LEMMA SilentClosed ==
  ASSUME ConvInv, UNCHANGED <<history, replies>>,
         messages' \in {messages, <<>>},
         \/ phase' = phase /\ UNCHANGED <<messages, task, session>>
         \/ phase' \in {"idle", "stopped"} /\ phase # "dispatching" /\ phase # "stopped"
         \/ phase = "checking" /\ phase' = "sending" /\ UNCHANGED <<messages, task, session>>,
         pending' # NoPending => pending'.task \in Task
  PROVE  ConvInv'
  <1>1. <<>> \in Messages
    BY DEF Messages
  <1>2. ConvType'
    BY <1>1 DEF ConvInv, ConvType, Running
  <1>3. Closed'
    BY DEF ConvInv, Closed
  <1> QED BY <1>2, <1>3 DEF ConvInv

LEMMA ResolveClosed ==
  ASSUME ConvInv, Resolve
  PROVE  ConvInv'
  <1> DEFINE m == Assistant("uses", replies)
  <1>1. m \in Message /\ m.of = replies
    BY MessageType DEF Assistant, ConvInv, ConvType
  <1>2. /\ messages \in Messages /\ Answered(messages) /\ session \in Session
        /\ history \in [Session -> Messages] /\ history[session] \in Messages
        /\ \A s \in Session : Answered(history[s])
    BY DEF Resolve, ConvInv, ConvType, Closed, Running
  <1> HIDE DEF m
  <1>3. messages' = messages \o <<m>> /\ history' = [history EXCEPT ![session] = @ \o <<m>>]
    BY DEF Resolve, Says, m
  <1>4. /\ messages' = Append(messages, m)
        /\ history' = [history EXCEPT ![session] = Append(history[session], m)]
    BY <1>1, <1>2, <1>3, Said DEF Messages
  <1>5. /\ messages' \in Messages /\ Append(history[session], m) \in Messages
        /\ Asking(messages', replies) /\ Asking(Append(history[session], m), replies)
    BY <1>1, <1>2, <1>4, Appended, AppendAsking DEF Messages
  <1>6. history' \in [Session -> Messages]
    BY <1>2, <1>4, <1>5
  <1>7. /\ phase' \in {"dispatching", "stopped"}
        /\ UNCHANGED <<task, session, replies, pending>>
    BY DEF Resolve, runner
  <1>8. ConvType'
    BY <1>5, <1>6, <1>7 DEF Resolve, ConvInv, ConvType, Running
  <1>9. \A s \in Session \ {session} : history'[s] = history[s]
    BY <1>2, <1>4
  <1>10. history'[session] = Append(history[session], m)
    BY <1>2, <1>4
  <1>11. Closed'
    BY <1>2, <1>5, <1>7, <1>9, <1>10 DEF Closed
  <1> QED BY <1>8, <1>11 DEF ConvInv

LEMMA GoOnClosed ==
  ASSUME ConvInv, GoOn
  PROVE  ConvInv'
  <1> DEFINE m == Assistant("text", replies)
             n == User("go_on", replies)
  <1>1. m \in Message /\ n \in Message /\ m.kind # "uses" /\ n.kind # "uses"
    BY MessageType DEF Assistant, User, ConvInv, ConvType
  <1>2. /\ messages \in Messages /\ Answered(messages) /\ session \in Session
        /\ history \in [Session -> Messages] /\ history[session] \in Messages
        /\ \A s \in Session : Answered(history[s])
    BY DEF GoOn, ConvInv, ConvType, Closed, Running
  <1> DEFINE Added(s) == Append(Append(s, m), n)
  <1>3. ASSUME NEW s \in Messages, Answered(s)
        PROVE  s \o <<m, n>> = Added(s) /\ Added(s) \in Messages /\ Answered(Added(s))
    <2> HIDE DEF m, n
    <2>1. Append(s, m) \in Messages /\ Answered(Append(s, m))
      BY <1>1, <1>3, AppendAnswered, Appended DEF Messages
    <2>2. Append(Append(s, m), n) \in Messages /\ Answered(Append(Append(s, m), n))
      BY <1>1, <2>1, AppendAnswered, Appended DEF Messages
    <2>3. s \o <<m, n>> = Added(s)
      BY <1>1, Said DEF Messages
    <2> QED BY <2>2, <2>3
  <1>4. messages' = messages \o <<m, n>> /\ history' = [history EXCEPT ![session] = @ \o <<m, n>>]
    BY DEF GoOn, Says
  <1> HIDE DEF Added, m, n
  <1>5. messages' = Added(messages) /\ history' = [history EXCEPT ![session] = Added(history[session])]
    BY <1>2, <1>3, <1>4
  <1>6. /\ messages' \in Messages /\ Answered(messages')
        /\ Added(history[session]) \in Messages /\ Answered(Added(history[session]))
    BY <1>2, <1>3, <1>5
  <1>7. history' \in [Session -> Messages] /\ \A s \in Session : Answered(history'[s])
    BY <1>2, <1>5, <1>6
  <1>8. phase' = "checking" /\ UNCHANGED <<task, session, replies, pending>>
    BY DEF GoOn, runner, past
  <1>9. ConvType'
    BY <1>6, <1>7, <1>8 DEF GoOn, ConvInv, ConvType, Running
  <1>10. Closed'
    BY <1>6, <1>7, <1>8 DEF Closed
  <1> QED BY <1>9, <1>10 DEF ConvInv

LEMMA FinalClosed ==
  ASSUME ConvInv, Final
  PROVE  ConvInv'
  <1> DEFINE m == User("prompt", task)
             n == Assistant("text", replies)
  <1>1. /\ task \in Task /\ session \in Session /\ phase = "replied"
        /\ history \in [Session -> Messages] /\ history[session] \in Messages
        /\ \A s \in Session : Answered(history[s])
    BY DEF Final, ConvInv, ConvType, Closed, Running
  <1>2. m \in Message /\ n \in Message /\ m.kind # "uses" /\ n.kind # "uses"
    BY <1>1, MessageType DEF Assistant, User, ConvInv, ConvType
  <1>3. history' = [history EXCEPT ![session] = @ \o <<m, n>>]
    BY DEF Final
  <1> HIDE DEF m, n
  <1> DEFINE a == Append(Append(history[session], m), n)
  <1>4. history' = [history EXCEPT ![session] = a]
    <2>1. history[session] \o <<m, n>> = a
      BY <1>1, <1>2, Said DEF Messages
    <2> QED BY <1>3, <2>1
  <1>5. Append(history[session], m) \in Messages /\ Answered(Append(history[session], m))
    BY <1>1, <1>2, AppendAnswered, Appended DEF Messages
  <1>6. a \in Messages /\ Answered(a)
    BY <1>2, <1>5, AppendAnswered, Appended DEF Messages
  <1> HIDE DEF a
  <1>7. history' \in [Session -> Messages] /\ \A s \in Session : Answered(history'[s])
    BY <1>1, <1>4, <1>6
  <1>8. phase' = "idle" /\ messages' = <<>> /\ UNCHANGED <<replies, pending>>
    BY DEF Final, Ends, Returns, runner
  <1>9. ConvType'
    BY <1>7, <1>8 DEF ConvInv, ConvType, Running, Messages
  <1>10. Closed'
    BY <1>7, <1>8 DEF Closed
  <1> QED BY <1>9, <1>10 DEF ConvInv

LEMMA SuspendClosed ==
  ASSUME ConvInv, Suspend
  PROVE  ConvInv'
  <1> DEFINE m == User("suspended", replies)
  <1>1. m \in Message /\ m.of = replies /\ m.kind = "suspended"
    BY MessageType DEF User, ConvInv, ConvType
  <1>2. /\ task \in Task /\ session \in Session
        /\ history \in [Session -> Messages] /\ history[session] \in Messages
        /\ Asking(history[session], replies)
        /\ \A s \in Session \ {session} : Answered(history[s])
    BY DEF Suspend, ConvInv, ConvType, Closed, Running
  <1>3. history' = [history EXCEPT ![session] = Append(@, m)]
    BY DEF Suspend
  <1> HIDE DEF m
  <1>4. Append(history[session], m) \in Messages /\ Answered(Append(history[session], m))
    BY <1>1, <1>2, AnswerAsking, Appended DEF Messages
  <1>5. history' \in [Session -> Messages] /\ \A s \in Session : Answered(history'[s])
    BY <1>2, <1>3, <1>4
  <1>6. phase' = "idle" /\ messages' = <<>> /\ UNCHANGED replies
    BY DEF Suspend, Returns
  <1>7. pending' # NoPending => pending'.task \in Task
    BY <1>2 DEF Suspend, Awaits, ConvInv, ConvType, NoPending
  <1>8. ConvType'
    BY <1>5, <1>6, <1>7 DEF ConvInv, ConvType, Running, Messages
  <1>9. Closed'
    BY <1>5, <1>6 DEF Closed
  <1> QED BY <1>8, <1>9 DEF ConvInv

LEMMA FailsClosed ==
  ASSUME ConvInv, DispatchFails
  PROVE  ConvInv'
  <1> DEFINE m == User("results", replies)
  <1>1. m \in Message /\ m.of = replies /\ m.kind = "results"
    BY MessageType DEF User, ConvInv, ConvType
  <1>2. /\ session \in Session
        /\ history \in [Session -> Messages] /\ history[session] \in Messages
        /\ Asking(history[session], replies)
        /\ \A s \in Session \ {session} : Answered(history[s])
    BY DEF DispatchFails, ConvInv, ConvType, Closed, Running
  <1>3. history' = [history EXCEPT ![session] = Append(@, m)]
    BY DEF DispatchFails
  <1> HIDE DEF m
  <1>4. Append(history[session], m) \in Messages /\ Answered(Append(history[session], m))
    BY <1>1, <1>2, AnswerAsking, Appended DEF Messages
  <1>5. history' \in [Session -> Messages] /\ \A s \in Session : Answered(history'[s])
    BY <1>2, <1>3, <1>4
  <1>6. phase' = "idle" /\ messages' = <<>> /\ UNCHANGED <<replies, pending>>
    BY DEF DispatchFails, Ends, Returns, runner
  <1>7. ConvType'
    BY <1>5, <1>6 DEF ConvInv, ConvType, Running, Messages
  <1>8. Closed'
    BY <1>5, <1>6 DEF Closed
  <1> QED BY <1>7, <1>8 DEF ConvInv

LEMMA AnswerClosed ==
  ASSUME ConvInv, Answer
  PROVE  ConvInv'
  <1> DEFINE m == User("results", replies)
  <1>1. m \in Message /\ m.of = replies /\ m.kind = "results"
    BY MessageType DEF User, ConvInv, ConvType
  <1>2. /\ session \in Session /\ messages \in Messages /\ Asking(messages, replies)
        /\ history \in [Session -> Messages] /\ history[session] \in Messages
        /\ Asking(history[session], replies)
        /\ \A s \in Session \ {session} : Answered(history[s])
    BY DEF Answer, ConvInv, ConvType, Closed, Running
  <1>3. messages' = messages \o <<m>> /\ history' = [history EXCEPT ![session] = @ \o <<m>>]
    BY DEF Answer, Says
  <1> HIDE DEF m
  <1>4. /\ messages' = Append(messages, m)
        /\ history' = [history EXCEPT ![session] = Append(history[session], m)]
    BY <1>1, <1>2, <1>3, Said DEF Messages
  <1>5. /\ messages' \in Messages /\ Answered(messages')
        /\ Append(history[session], m) \in Messages /\ Answered(Append(history[session], m))
    BY <1>1, <1>2, <1>4, AnswerAsking, Appended DEF Messages
  <1>6. history' \in [Session -> Messages] /\ \A s \in Session : Answered(history'[s])
    BY <1>2, <1>4, <1>5
  <1>7. phase' = "checking" /\ UNCHANGED <<task, session, replies, pending>>
    BY DEF Answer, runner, past
  <1>8. ConvType'
    BY <1>5, <1>6, <1>7 DEF Answer, ConvInv, ConvType, Running
  <1>9. Closed'
    BY <1>5, <1>6, <1>7 DEF Closed
  <1> QED BY <1>8, <1>9 DEF ConvInv

LEMMA ReplyClosed ==
  ASSUME ConvInv, Reply
  PROVE  ConvInv'
  <1>1. /\ phase = "sending" /\ phase' = "replied" /\ replies' = replies + 1
        /\ UNCHANGED <<history, messages, task, session, pending>>
    BY DEF Reply, store, runner
  <1>2. ConvType'
    BY <1>1 DEF ConvInv, ConvType, Running
  <1>3. Closed'
    BY <1>1 DEF ConvInv, Closed
  <1> QED BY <1>2, <1>3 DEF ConvInv

LEMMA NextClosed == ConvInv /\ [Next]_vars => ConvInv'
  <1> SUFFICES ASSUME ConvInv, [Next]_vars PROVE ConvInv'
    OBVIOUS
  <1> USE DEF NoPending
  <1>0. pending # NoPending => pending.task \in Task
    BY DEF ConvInv, ConvType
  <1>1. ASSUME NEW t \in Task, Begin(t) PROVE ConvInv'
    <2>1. PICK o : Enter(t, o)
      BY <1>1 DEF Begin
    <2> QED BY <1>0, <1>1, <2>1, EnterClosed DEF Begin
  <1>2. CASE Approve
    BY <1>0, <1>2, EnterClosed DEF Approve, past
  <1>3. CASE Reject
    BY <1>3, SilentClosed DEF Reject, store, call, past
  <1>4. CASE Veto
    BY <1>0, <1>4, SilentClosed DEF Veto, store, call, past
  <1>5. CASE Killed
    BY <1>0, <1>5, SilentClosed DEF Killed, Returns, store, runner
  <1>6. CASE OverallTimeout
    BY <1>0, <1>6, SilentClosed DEF OverallTimeout, Ends, Returns, store, runner
  <1>7. CASE Build
    BY <1>0, <1>7, SilentClosed DEF Build, store, runner, past
  <1>8. CASE Retry
    BY <1>0, <1>8, SilentClosed DEF Retry, store, runner, past
  <1>9. CASE SendFails
    BY <1>0, <1>9, SilentClosed DEF SendFails, Ends, Returns, store, runner
  <1>10. CASE Dispatch
    BY <1>0, <1>10, SilentClosed DEF Dispatch, store, runner, past
  <1>11. CASE Stop
    BY <1>0, <1>11, SilentClosed DEF Stop, store, call, runner, past
  <1>13. CASE DispatchFails
    BY <1>13, FailsClosed
  <1>12. CASE UNCHANGED vars
    BY <1>0, <1>12, SilentClosed DEF vars, store, call, runner, past
  <1> QED
    BY <1>1, <1>2, <1>3, <1>4, <1>5, <1>6, <1>7, <1>8, <1>9, <1>10, <1>11, <1>12,
       <1>13, ReplyClosed, ResolveClosed, GoOnClosed, FinalClosed, SuspendClosed, AnswerClosed
    DEF Next, Step

\* Whatever was suspended, truncated, killed or run again, and even if requests
\* overlap, the provider is only sent tool uses that are answered.
THEOREM SpecUsesAnswered == Spec => []UsesAnswered
  <1>1. ConvInv => UsesAnswered
    <2> SUFFICES ASSUME ConvInv PROVE UsesAnswered
      OBVIOUS
    <2>1. CASE phase = "sending"
      BY <2>1 DEF ConvInv, Closed, UsesAnswered, Sent, Answered, AnsweredAt
    <2>2. CASE phase # "sending"
      BY <2>2 DEF UsesAnswered, Sent
    <2> QED BY <2>1, <2>2
  <1> QED BY <1>1, ConvInit, NextClosed, PTL DEF Spec

-----------------------------------------------------------------------------
(* The conversation is that of the request at hand.                        *)

Prompted(s, t) ==
  \E i \in DOMAIN s : s[i] = User("prompt", t) /\ \A j \in i + 1..Len(s) : s[j].kind # "prompt"
Approved(s) == \E i \in DOMAIN s : s[i].kind = "approved"
Replies(s) == {i \in DOMAIN s : s[i].by = "assistant"}

\* The reply at hand is in no conversation before it is looked at.
Unheard == IF phase = "replied" THEN 1 ELSE 0

\* What is sent for the request at hand, and what is kept of it, speak for it,
\* unless its conversation was mixed with another's.
Own ==
  phase \in Running =>
    /\ session <= made
    /\ task \notin mixed =>
         /\ Prompted(messages, task) \/ (opts[task].named # 0 /\ Approved(messages))
         /\ opts[task].named = 0 => Prompted(history[session], task)
         /\ asked[task] <= Cardinality(Replies(messages)) + Unheard
         /\ asked[task] <= Cardinality(Replies(history[session])) + Unheard

\* So does the session that waits for an approval, in which nobody speaks.
Left ==
  pending # NoPending /\ pending.task \notin mixed =>
    /\ savedSession \in Session
    /\ phase \in Running => session # savedSession
    /\ opts[pending.task].named = 0 => Prompted(history[savedSession], pending.task)
    /\ asked[pending.task] <= Cardinality(Replies(history[savedSession]))

SpeakInv ==
  /\ \A s \in Session : s > made => history[s] = <<>>
  /\ Own /\ Left

\* What an appended message adds to a conversation, and what stays.
LEMMA AppendSpeaks ==
  ASSUME NEW s \in Messages, NEW m \in Message, NEW t
  PROVE  /\ Prompted(s, t) /\ m.kind # "prompt" => Prompted(Append(s, m), t)
         /\ m = User("prompt", t) => Prompted(Append(s, m), t)
         /\ Approved(s) \/ m.kind = "approved" => Approved(Append(s, m))
  <1>1. /\ Len(Append(s, m)) = Len(s) + 1 /\ Len(s) \in Nat
        /\ DOMAIN s = 1..Len(s) /\ DOMAIN Append(s, m) = 1..Len(s) + 1
        /\ \A i \in 1..Len(s) : Append(s, m)[i] = s[i]
        /\ Append(s, m)[Len(s) + 1] = m
    BY Appended DEF Messages
  <1> DEFINE a == Append(s, m)
  <1> HIDE DEF a
  <1>2. /\ Len(a) = Len(s) + 1 /\ Len(s) \in Nat
        /\ DOMAIN s = 1..Len(s) /\ DOMAIN a = 1..Len(s) + 1
        /\ \A i \in 1..Len(s) : a[i] = s[i]
        /\ a[Len(s) + 1] = m
    BY <1>1 DEF a
  <1>3. Prompted(s, t) /\ m.kind # "prompt" => Prompted(a, t)
    BY <1>2 DEF Prompted
  <1>4. m = User("prompt", t) => Prompted(a, t)
    BY <1>2 DEF Prompted
  <1>5. Approved(s) \/ m.kind = "approved" => Approved(a)
    BY <1>2 DEF Approved
  <1> QED BY <1>3, <1>4, <1>5 DEF a

LEMMA AppendReplies ==
  ASSUME NEW s \in Messages, NEW m \in Message
  PROVE  /\ Cardinality(Replies(s)) \in Nat /\ Cardinality(Replies(Append(s, m))) \in Nat
         /\ Cardinality(Replies(s)) <= Cardinality(Replies(Append(s, m)))
         /\ m.by = "assistant" =>
              Cardinality(Replies(s)) + 1 <= Cardinality(Replies(Append(s, m)))
  <1>1. /\ Len(s) \in Nat /\ DOMAIN s = 1..Len(s) /\ DOMAIN Append(s, m) = 1..Len(s) + 1
        /\ \A i \in 1..Len(s) : Append(s, m)[i] = s[i]
        /\ Append(s, m)[Len(s) + 1] = m
    BY Appended DEF Messages
  <1>2. /\ IsFiniteSet(Replies(s)) /\ Cardinality(Replies(s)) \in Nat
        /\ Replies(s) \subseteq 1..Len(s)
    <2>1. Replies(s) \subseteq 1..Len(s)
      BY <1>1 DEF Replies
    <2>2. IsFiniteSet(1..Len(s))
      BY <1>1, FS_Interval
    <2> HIDE DEF Replies
    <2>3. IsFiniteSet(Replies(s))
      BY <2>1, <2>2, FS_Subset
    <2> QED BY <2>1, <2>3, FS_CardinalityType
  <1>3. Replies(Append(s, m)) = IF m.by = "assistant" THEN Replies(s) \cup {Len(s) + 1} ELSE Replies(s)
    BY <1>1 DEF Replies
  <1>4. Len(s) + 1 \notin Replies(s)
    BY <1>1, <1>2
  <1> HIDE DEF Replies
  <1>5. Cardinality(Replies(s) \cup {Len(s) + 1}) = Cardinality(Replies(s)) + 1
    BY <1>2, <1>4, FS_AddElement
  <1> QED BY <1>2, <1>3, <1>5

\* A message that is no prompt keeps what a conversation says for a request.
LEMMA SaySpeaks ==
  ASSUME NEW s \in Messages, NEW m \in Message, m.kind # "prompt", NEW t, NEW n \in Nat, NEW d \in Nat
  PROVE  /\ Prompted(s, t) => Prompted(Append(s, m), t)
         /\ Approved(s) => Approved(Append(s, m))
         /\ n <= Cardinality(Replies(s)) + d => n <= Cardinality(Replies(Append(s, m))) + d
         /\ n <= Cardinality(Replies(s)) + 1 /\ m.by = "assistant" =>
              n <= Cardinality(Replies(Append(s, m)))
  BY AppendSpeaks, AppendReplies

LEMMA SpeakInit == Init => SpeakInv
  <1> SUFFICES ASSUME Init PROVE SpeakInv
    OBVIOUS
  <1>1. /\ history = [s \in Session |-> <<>>] /\ savedSession = 0 /\ phase = "idle"
        /\ pending = NoPending
    BY DEF Init
  <1> QED BY <1>1 DEF SpeakInv, Own, Left, Running

\* What the steps of the proof use of the other invariants.
LEMMA SpeakTypes ==
  ASSUME Inv, ConvInv
  PROVE  /\ history \in [Session -> Messages] /\ messages \in Messages
         /\ made \in Nat /\ savedSession \in Nat /\ replies \in Nat /\ Session \subseteq Nat \ {0}
         /\ asked \in [Task -> Nat] /\ opts \in [Task -> [hil : BOOLEAN, rpc : BOOLEAN, named : Nat]]
         /\ phase \in Running \cup {"idle", "stopped"}
         /\ phase \in Running => /\ task \in Task /\ session \in Session
                                 /\ history[session] \in Messages
                                 /\ pending # NoPending => pending.task # task
         /\ pending # NoPending => pending.task \in Task
  BY DEF Inv, TurnsCarried, TypeOK, ConvInv, ConvType, Session

\* A step that says and hears nothing.
LEMMA SilentSpeaks ==
  ASSUME Inv, ConvInv, SpeakInv, UNCHANGED <<history, made, savedSession, opts, asked, mixed>>,
         pending' = pending \/ (pending' = NoPending /\ phase' = "stopped"),
         \/ phase' \in {"idle", "stopped"} /\ phase # "stopped"
         \/ phase' = phase /\ UNCHANGED <<messages, task, session>>
         \/ phase = "checking" /\ phase' = "sending" /\ UNCHANGED <<messages, task, session>>
  PROVE  SpeakInv'
  <1>1. Own'
    BY DEF SpeakInv, Own, Running, Unheard
  <1>2. Left'
    BY DEF SpeakInv, Left, Running
  <1> QED BY <1>1, <1>2 DEF SpeakInv

LEMMA ReplySpeaks ==
  ASSUME Inv, ConvInv, SpeakInv, Reply
  PROVE  SpeakInv'
  <1>1. /\ phase = "sending" /\ phase' = "replied" /\ asked' = [asked EXCEPT ![task] = @ + 1]
        /\ UNCHANGED <<history, made, savedSession, messages, task, session, opts, pending, mixed>>
    BY DEF Reply, store, runner, marks
  <1>2. /\ task \in Task /\ asked'[task] = asked[task] + 1 /\ asked[task] \in Nat
        /\ pending # NoPending => asked'[pending.task] = asked[pending.task]
    BY <1>1, SpeakTypes DEF Running
  <1>3. Cardinality(Replies(messages)) \in Nat /\ Cardinality(Replies(history[session])) \in Nat
    <2>1. User("prompt", task) \in Message
      BY <1>2, MessageType
    <2> QED BY <1>1, <2>1, SpeakTypes, AppendReplies DEF Running
  <1>4. Own'
    BY <1>1, <1>2, <1>3 DEF SpeakInv, Own, Running, Unheard
  <1>5. Left'
    BY <1>1, <1>2 DEF SpeakInv, Left, Running
  <1> QED BY <1>1, <1>4, <1>5 DEF SpeakInv

\* Own after messages were appended to a conversation in which the request spoke.
LEMMA Resaid ==
  ASSUME Inv, ConvInv, SpeakInv, phase \in Running, phase' \in Running \cup {"stopped"},
         phase' # "replied",
         UNCHANGED <<made, savedSession, opts, pending, asked, task, session, mixed>>,
         NEW a \in Messages, NEW b \in Messages,
         messages' = a, history' = [history EXCEPT ![session] = b],
         Prompted(messages, task) => Prompted(a, task), Approved(messages) => Approved(a),
         Prompted(history[session], task) => Prompted(b, task),
         asked[task] <= Cardinality(Replies(messages)) + Unheard => asked[task] <= Cardinality(Replies(a)),
         asked[task] <= Cardinality(Replies(history[session])) + Unheard =>
           asked[task] <= Cardinality(Replies(b))
  PROVE  SpeakInv'
  <1>1. /\ history \in [Session -> Messages] /\ session \in Session /\ made \in Nat
        /\ Session \subseteq Nat
    BY SpeakTypes
  <1>2. history'[session] = b /\ session <= made
        /\ \A s \in Session \ {session} : history'[s] = history[s]
    BY <1>1 DEF SpeakInv, Own
  <1>3. \A s \in Session : s > made' => history'[s] = <<>>
    BY <1>1, <1>2 DEF SpeakInv
  <1>4. Cardinality(Replies(a)) \in Nat /\ Cardinality(Replies(b)) \in Nat
    <2>1. User("prompt", 0) \in Message
      BY MessageType
    <2> QED BY <2>1, AppendReplies
  <1>5. Own'
    <2>1. Unheard' = 0
      BY DEF Unheard
    <2>0. CASE task \in mixed
      BY <1>2, <2>0 DEF Own
    <2> SUFFICES ASSUME task \notin mixed PROVE Own'
      BY <2>0
    <2>2. /\ asked[task] <= Cardinality(Replies(messages)) + Unheard
          /\ asked[task] <= Cardinality(Replies(history[session])) + Unheard
          /\ Prompted(messages, task) \/ (opts[task].named # 0 /\ Approved(messages))
          /\ opts[task].named = 0 => Prompted(history[session], task)
      BY DEF SpeakInv, Own
    <2>3. /\ asked[task] <= Cardinality(Replies(a)) /\ asked[task] <= Cardinality(Replies(b))
      BY <2>2
    <2>4. asked[task] \in Nat
      BY SpeakTypes
    <2>5. /\ asked[task] <= Cardinality(Replies(a)) + 0 /\ asked[task] <= Cardinality(Replies(b)) + 0
      BY <1>4, <2>3, <2>4
    <2> HIDE DEF Unheard
    <2> QED BY <1>2, <2>1, <2>2, <2>5 DEF Own
  <1>6. Left'
    BY <1>1, <1>2 DEF SpeakInv, Left
  <1> QED BY <1>3, <1>5, <1>6 DEF SpeakInv

LEMMA ResolveSpeaks ==
  ASSUME Inv, ConvInv, SpeakInv, Resolve
  PROVE  SpeakInv'
  <1> DEFINE m == Assistant("uses", replies)
  <1>1. /\ phase = "replied" /\ phase' \in {"dispatching", "stopped"}
        /\ UNCHANGED <<made, savedSession, opts, pending, asked, task, session, mixed>>
        /\ messages' = messages \o <<m>> /\ history' = [history EXCEPT ![session] = @ \o <<m>>]
    BY DEF Resolve, Says, runner, marks
  <1>2. /\ messages \in Messages /\ history[session] \in Messages /\ task \in Task
        /\ asked[task] \in Nat /\ replies \in Nat
    BY <1>1, SpeakTypes DEF Running
  <1>3. m \in Message /\ m.kind # "prompt" /\ m.by = "assistant"
    BY <1>2, MessageType DEF Assistant
  <1> HIDE DEF m
  <1>4. /\ messages' = Append(messages, m)
        /\ history' = [history EXCEPT ![session] = Append(history[session], m)]
    BY <1>1, <1>2, <1>3, Said DEF Messages
  <1>5. Append(messages, m) \in Messages /\ Append(history[session], m) \in Messages
    BY <1>2, <1>3, Appended DEF Messages
  <1>6. Unheard = 1
    BY <1>1 DEF Unheard
  <1> QED BY <1>1, <1>2, <1>3, <1>4, <1>5, <1>6, SaySpeaks, Resaid DEF Running

LEMMA GoOnSpeaks ==
  ASSUME Inv, ConvInv, SpeakInv, GoOn
  PROVE  SpeakInv'
  <1> DEFINE m == Assistant("text", replies)
             n == User("go_on", replies)
  <1>1. /\ phase = "replied" /\ phase' = "checking"
        /\ UNCHANGED <<made, savedSession, opts, pending, asked, task, session, mixed>>
        /\ messages' = messages \o <<m, n>> /\ history' = [history EXCEPT ![session] = @ \o <<m, n>>]
    BY DEF GoOn, Says, runner, past, marks
  <1>2. /\ messages \in Messages /\ history[session] \in Messages /\ task \in Task
        /\ asked[task] \in Nat /\ replies \in Nat
    BY <1>1, SpeakTypes DEF Running
  <1>3. /\ m \in Message /\ m.kind # "prompt" /\ m.by = "assistant"
        /\ n \in Message /\ n.kind # "prompt"
    BY <1>2, MessageType DEF Assistant, User
  <1> HIDE DEF m, n
  <1> DEFINE Added(s) == Append(Append(s, m), n)
  <1>4. ASSUME NEW s \in Messages
        PROVE  /\ s \o <<m, n>> = Added(s) /\ Added(s) \in Messages
               /\ Prompted(s, task) => Prompted(Added(s), task)
               /\ Approved(s) => Approved(Added(s))
               /\ asked[task] <= Cardinality(Replies(s)) + 1 =>
                    asked[task] <= Cardinality(Replies(Added(s)))
    <2>1. Append(s, m) \in Messages /\ Added(s) \in Messages
      BY <1>3, Appended DEF Messages
    <2>2. s \o <<m, n>> = Added(s)
      BY <1>3, Said DEF Messages
    <2>3. /\ Prompted(s, task) => Prompted(Append(s, m), task)
          /\ Approved(s) => Approved(Append(s, m))
          /\ asked[task] <= Cardinality(Replies(s)) + 1 =>
               asked[task] <= Cardinality(Replies(Append(s, m)))
      BY <1>2, <1>3, SaySpeaks
    <2>4. /\ Prompted(Append(s, m), task) => Prompted(Added(s), task)
          /\ Approved(Append(s, m)) => Approved(Added(s))
          /\ Cardinality(Replies(Append(s, m))) <= Cardinality(Replies(Added(s)))
          /\ Cardinality(Replies(Append(s, m))) \in Nat /\ Cardinality(Replies(Added(s))) \in Nat
      BY <1>3, <2>1, AppendSpeaks, AppendReplies
    <2> QED BY <1>2, <2>1, <2>2, <2>3, <2>4
  <1> HIDE DEF Added
  <1>5. messages' = Added(messages) /\ history' = [history EXCEPT ![session] = Added(history[session])]
    BY <1>1, <1>2, <1>4
  <1>6. Unheard = 1
    BY <1>1 DEF Unheard
  <1> QED BY <1>1, <1>2, <1>4, <1>5, <1>6, Resaid DEF Running

LEMMA AnswerSpeaks ==
  ASSUME Inv, ConvInv, SpeakInv, Answer
  PROVE  SpeakInv'
  <1> DEFINE m == User("results", replies)
  <1>1. /\ phase = "dispatching" /\ phase' = "checking"
        /\ UNCHANGED <<made, savedSession, opts, pending, asked, task, session, mixed>>
        /\ messages' = messages \o <<m>> /\ history' = [history EXCEPT ![session] = @ \o <<m>>]
    BY DEF Answer, Says, runner, past, marks
  <1>2. /\ messages \in Messages /\ history[session] \in Messages /\ task \in Task
        /\ asked[task] \in Nat /\ replies \in Nat
    BY <1>1, SpeakTypes DEF Running
  <1>3. m \in Message /\ m.kind # "prompt"
    BY <1>2, MessageType DEF User
  <1> HIDE DEF m
  <1>4. /\ messages' = Append(messages, m)
        /\ history' = [history EXCEPT ![session] = Append(history[session], m)]
    BY <1>1, <1>2, <1>3, Said DEF Messages
  <1>5. Append(messages, m) \in Messages /\ Append(history[session], m) \in Messages
    BY <1>2, <1>3, Appended DEF Messages
  <1>6. Unheard = 0
    BY <1>1 DEF Unheard
  <1>7. \A s \in Messages :
          /\ Prompted(s, task) => Prompted(Append(s, m), task)
          /\ Approved(s) => Approved(Append(s, m))
          /\ asked[task] <= Cardinality(Replies(s)) + 0 => asked[task] <= Cardinality(Replies(Append(s, m)))
    BY <1>2, <1>3, AppendSpeaks, AppendReplies
  <1> QED BY <1>1, <1>2, <1>4, <1>5, <1>6, <1>7, Resaid DEF Running

\* A call that ends: what it last kept disturbs no session that waits.
LEMMA EndSpeaks ==
  ASSUME Inv, ConvInv, SpeakInv, Final \/ DispatchFails
  PROVE  SpeakInv'
  <1>1. /\ phase \in Running /\ phase' = "idle"
        /\ UNCHANGED <<made, savedSession, pending, opts, asked, mixed>>
        /\ \E b : history' = [history EXCEPT ![session] = b]
    BY DEF Final, DispatchFails, Ends, runner, marks, Running
  <1>2. /\ session <= made /\ session \in Nat /\ made \in Nat
        /\ history \in [Session -> Messages] /\ Session \subseteq Nat
    BY <1>1, SpeakTypes DEF SpeakInv, Own
  <1>3. \A s \in Session \ {session} : history'[s] = history[s]
    BY <1>1, <1>2
  <1>4. \A s \in Session : s > made' => history'[s] = <<>>
    BY <1>1, <1>2, <1>3 DEF SpeakInv
  <1>5. Own'
    BY <1>1 DEF Own, Running
  <1>6. Left'
    BY <1>1, <1>3 DEF SpeakInv, Left, Running
  <1> QED BY <1>4, <1>5, <1>6 DEF SpeakInv

\* The session a suspended request leaves speaks for it; to a request by RPC
\* nobody returns.
LEMMA SuspendSpeaks ==
  ASSUME Inv, ConvInv, SpeakInv, Suspend
  PROVE  SpeakInv'
  <1> DEFINE m == User("suspended", replies)
  <1>1. /\ phase = "dispatching" /\ phase' = "idle" /\ UNCHANGED <<made, opts, asked, mixed>>
        /\ savedSession' = session /\ history' = [history EXCEPT ![session] = Append(@, m)]
    BY DEF Suspend
  <1>2. pending' # NoPending /\ pending'.task \notin mixed => pending'.task = task
    <2>1. pending # NoPending => pending.task \in mixed
      BY <1>1, ToolLoopAssumption DEF Suspend, Inv, TurnsCarried, TypeOK, Kept, Running
    <2> QED BY <2>1 DEF Suspend, Awaits
  <1>3. /\ history[session] \in Messages /\ task \in Task /\ session \in Session
        /\ session <= made /\ made \in Nat /\ asked[task] \in Nat /\ replies \in Nat
        /\ history \in [Session -> Messages] /\ Session \subseteq Nat
    BY <1>1, SpeakTypes DEF SpeakInv, Own, Running
  <1>4. m \in Message /\ m.kind # "prompt"
    BY <1>3, MessageType DEF User
  <1> HIDE DEF m
  <1>5. /\ history'[session] = Append(history[session], m)
        /\ \A s \in Session \ {session} : history'[s] = history[s]
    BY <1>1, <1>3
  <1>6. task \notin mixed =>
        /\ opts[task].named = 0 => Prompted(Append(history[session], m), task)
        /\ asked[task] <= Cardinality(Replies(Append(history[session], m)))
    <2> SUFFICES ASSUME task \notin mixed
                 PROVE  /\ opts[task].named = 0 => Prompted(Append(history[session], m), task)
                        /\ asked[task] <= Cardinality(Replies(Append(history[session], m)))
      OBVIOUS
    <2>1. /\ opts[task].named = 0 => Prompted(history[session], task)
          /\ asked[task] <= Cardinality(Replies(history[session])) + 0
      BY <1>1 DEF SpeakInv, Own, Running, Unheard
    <2> QED BY <1>3, <1>4, <2>1, AppendSpeaks, AppendReplies
  <1>7. Left'
    BY <1>1, <1>2, <1>3, <1>5, <1>6 DEF Left, Running
  <1>8. Own'
    BY <1>1 DEF Own, Running
  <1>9. \A s \in Session : s > made' => history'[s] = <<>>
    BY <1>1, <1>3, <1>5 DEF SpeakInv
  <1> QED BY <1>7, <1>8, <1>9 DEF SpeakInv

\* A request that begins starts a session or goes on with the one it names, and
\* leaves a session that waits alone; or it is mixed with the one that left it.
LEMMA BeginSpeaks ==
  ASSUME Inv, ConvInv, SpeakInv, NEW t \in Task, Begin(t)
  PROVE  SpeakInv'
  <1>1. phase = "idle" /\ outcome[t] = "new" /\ UNCHANGED <<asked, pending>>
    BY DEF Begin
  <1>2. PICK o \in [hil : BOOLEAN, rpc : BOOLEAN, named : 0..made] :
          opts' = [opts EXCEPT ![t] = o] /\ Enter(t, o)
    BY DEF Begin
  <1>3. /\ history \in [Session -> Messages] /\ Session \subseteq Nat \ {0} /\ made \in Nat
        /\ opts \in [Task -> [hil : BOOLEAN, rpc : BOOLEAN, named : Nat]] /\ asked[t] = 0
    BY <1>1, SpeakTypes DEF Inv, TurnsCarried
  <1> DEFINE resumed == o.hil /\ savedSession # 0
             s == IF resumed THEN savedSession ELSE IF o.named # 0 THEN o.named ELSE made + 1
             m == User("prompt", t)
  <1>4. /\ s \in Session /\ made' = (IF s > made THEN s ELSE made) /\ EnterIn(t, s, resumed, o.hil)
    BY <1>2 DEF Enter
  <1>5. /\ task' = t /\ session' = s /\ phase' = "checking"
        /\ savedSession' = (IF o.hil THEN 0 ELSE savedSession)
        /\ ~resumed => /\ messages' = Append(history[s], m)
                       /\ history' = IF history[s] = <<>> THEN [history EXCEPT ![s] = <<m>>] ELSE history
        /\ resumed => history' = history
    BY <1>4 DEF EnterIn
  <1>6. /\ savedBy' = (IF o.hil THEN NoTask ELSE savedBy) /\ mixed \subseteq mixed'
        /\ resumed => {t, savedBy} \subseteq mixed'
        /\ ~o.hil /\ s = savedSession => savedBy \in mixed'
    <2>1. savedBy # t /\ (savedBy = NoTask <=> savedSession = 0)
      BY <1>1, ToolLoopAssumption DEF Inv, Kept
    <2> QED BY <1>2, <1>5, <2>1, EnterMeets
  <1>7. /\ opts'[t] = o /\ s <= made' /\ made <= made' /\ made' \in Nat /\ o.named \in 0..made
    <2>1. s \in Nat /\ made' = (IF s > made THEN s ELSE made)
      BY <1>3, <1>4
    <2> HIDE DEF s
    <2> QED BY <1>2, <1>3, <2>1
  <1>8. \A x \in Session \ {s} : history'[x] = history[x]
    BY <1>3, <1>4, <1>5
  <1>9. \A x \in Session : x > made' => history'[x] = <<>>
    BY <1>3, <1>4, <1>7, <1>8 DEF SpeakInv
  <1>10. Left'
    <2> SUFFICES ASSUME pending # NoPending, pending.task \notin mixed' PROVE Left'
      BY <1>1 DEF Left
    <2>1. savedBy = pending.task /\ savedSession # 0 /\ savedSession \in Session
      BY <1>6 DEF Inv, TurnsCarried, Kept, SpeakInv, Left
    <2>2. ~o.hil /\ s # savedSession
      BY <1>6, <2>1
    <2>3. history'[savedSession] = history[savedSession]
      BY <1>8, <2>1, <2>2
    <2>4. pending.task # t /\ pending.task \in Task /\ pending.task \notin mixed
      BY <1>1, <1>6 DEF Inv, TurnsCarried, TypeOK
    <2>5. opts'[pending.task] = opts[pending.task]
      BY <1>2, <1>3, <2>4
    <2> HIDE DEF s
    <2> QED BY <1>1, <1>5, <2>1, <2>2, <2>3, <2>4, <2>5 DEF SpeakInv, Left
  <1>11. Own'
    <2>0. CASE t \in mixed'
      <3> HIDE DEF s
      <3> QED BY <1>5, <1>7, <2>0 DEF Own
    <2> SUFFICES ASSUME t \notin mixed' PROVE Own'
      BY <2>0
    <2>1. ~resumed
      BY <1>6
    <2>2. m \in Message /\ <<m>> \in Messages /\ history[s] \in Messages /\ <<>> \in Messages
      <3>1. m \in Message
        BY MessageType
      <3> HIDE DEF m, s
      <3> QED BY <1>3, <1>4, <3>1 DEF Messages
    <2>3. Prompted(messages', t) /\ Prompted(<<m>>, t)
      <3>1. Append(<<>>, m) = <<m>>
        OBVIOUS
      <3>2. Prompted(Append(history[s], m), t) /\ Prompted(Append(<<>>, m), t)
        BY <2>2, AppendSpeaks
      <3> QED BY <1>5, <2>1, <3>1, <3>2
    <2>4. o.named = 0 => history'[s] = <<m>>
      <3>1. CASE o.named = 0
        <4>1. s > made
          BY <1>3, <2>1, <3>1
        <4>2. history[s] = <<>>
          BY <1>4, <4>1 DEF SpeakInv
        <4> QED BY <1>3, <1>4, <1>5, <2>1, <4>2
      <3> QED BY <3>1
    <2>5. messages' = Append(history[s], m) /\ history'[s] \in {history[s], <<m>>}
      BY <1>3, <1>4, <1>5, <2>1
    <2> HIDE DEF s, m
    <2>6. Cardinality(Replies(messages')) \in Nat /\ Cardinality(Replies(history'[s])) \in Nat
      <3>1. messages' \in Messages /\ history'[s] \in Messages
        BY <2>2, <2>5, Appended DEF Messages
      <3> QED BY <2>2, <3>1, AppendReplies
    <2>7. Unheard' = 0
      BY <1>5 DEF Unheard
    <2>8. session' <= made' /\ Prompted(messages', task')
      BY <1>5, <1>7, <2>3
    <2>9. opts'[task'].named = 0 => Prompted(history'[session'], task')
      BY <1>5, <1>7, <2>3, <2>4
    <2>10. asked'[task'] = 0
      BY <1>1, <1>3, <1>5
    <2> QED BY <1>5, <2>6, <2>7, <2>8, <2>9, <2>10 DEF Own
  <1> QED BY <1>9, <1>10, <1>11 DEF SpeakInv

\* An approved request goes on in the session it left.
LEMMA ApproveSpeaks ==
  ASSUME Inv, ConvInv, SpeakInv, Approve
  PROVE  SpeakInv'
  <1> DEFINE t == pending.task
             resumed == savedSession # 0
             s == IF resumed THEN savedSession ELSE IF opts[t].named # 0 THEN opts[t].named ELSE made + 1
             m == User("approved", 0)
  <1>1. /\ pending # NoPending /\ pending' = NoPending /\ UNCHANGED <<opts, asked>>
        /\ Enter(t, opts[t])
    BY DEF Approve, past
  <1>2. /\ t \in Task /\ opts[t].hil /\ asked[t] \in Nat /\ opts[t].named \in Nat
        /\ history \in [Session -> Messages] /\ Session \subseteq Nat \ {0} /\ made \in Nat
    BY <1>1, SpeakTypes DEF Inv, TurnsCarried
  <1>3. /\ s \in Session /\ made' = (IF s > made THEN s ELSE made) /\ EnterIn(t, s, resumed, TRUE)
    BY <1>1, <1>2 DEF Enter
  <1>4. /\ task' = t /\ session' = s /\ phase' = "checking"
        /\ resumed => messages' = Append(history[s], m) /\ history' = history
        /\ history' = history \/ history' = [history EXCEPT ![s] = <<User("prompt", t)>>]
        /\ mixed \subseteq mixed'
    <2>1. mixed \subseteq mixed'
      BY <1>1, <1>2, EnterMeets
    <2> HIDE DEF s, resumed
    <2> QED BY <1>3, <2>1 DEF EnterIn
  <1>5. s <= made' /\ made <= made'
    <2>1. s \in Nat /\ made' = (IF s > made THEN s ELSE made)
      BY <1>2, <1>3
    <2> HIDE DEF s
    <2> QED BY <1>2, <2>1
  <1>6. \A x \in Session : x > made' => history'[x] = <<>>
    <2> HIDE DEF s
    <2>1. \A x \in Session \ {s} : history'[x] = history[x]
      BY <1>2, <1>4
    <2>2. s \in Nat /\ made' \in Nat
      BY <1>2, <1>3
    <2>3. ASSUME NEW x \in Session, x > made' PROVE x # s /\ x > made
      BY <1>2, <1>5, <2>2, <2>3
    <2> QED BY <2>1, <2>3 DEF SpeakInv
  <1>7. Own'
    <2>0. CASE t \in mixed'
      <3> HIDE DEF s
      <3> QED BY <1>4, <1>5, <2>0 DEF Own
    <2> SUFFICES ASSUME t \notin mixed' PROVE Own'
      BY <2>0
    <2>1. /\ resumed /\ s = savedSession /\ t \notin mixed
          /\ opts[t].named = 0 => Prompted(history[s], t)
          /\ asked[t] <= Cardinality(Replies(history[s]))
      BY <1>1, <1>4 DEF SpeakInv, Left, Inv, TurnsCarried, Kept
    <2>2. m \in Message /\ m.kind = "approved" /\ history[s] \in Messages
      <3>1. m \in Message /\ m.kind = "approved"
        BY MessageType DEF User
      <3> QED BY <1>2, <1>3, <3>1
    <2>3. messages' = Append(history[s], m) /\ history' = history
      BY <1>4, <2>1
    <2> HIDE DEF s, m
    <2>4. opts[t].named = 0 => Prompted(messages', t)
      BY <2>1, <2>2, <2>3, AppendSpeaks
    <2>5. Approved(messages')
      BY <2>2, <2>3, AppendSpeaks
    <2>6. /\ Cardinality(Replies(history[s])) \in Nat /\ Cardinality(Replies(messages')) \in Nat
          /\ Cardinality(Replies(history[s])) <= Cardinality(Replies(messages'))
      BY <2>2, <2>3, AppendReplies
    <2>7. asked[t] <= Cardinality(Replies(messages')) + 0 /\ asked[t] <= Cardinality(Replies(history[s])) + 0
      BY <1>2, <2>1, <2>6
    <2>8. Unheard' = 0
      BY <1>4 DEF Unheard
    <2>9. Prompted(messages', task') \/ (opts'[task'].named # 0 /\ Approved(messages'))
      BY <1>1, <1>2, <1>4, <2>4, <2>5
    <2> QED BY <1>1, <1>4, <1>5, <2>1, <2>3, <2>7, <2>8, <2>9 DEF Own
  <1>8. Left'
    BY <1>1 DEF Left
  <1> QED BY <1>6, <1>7, <1>8 DEF SpeakInv

LEMMA NextSpeaks ==
  ASSUME Inv, ConvInv, SpeakInv, [Next]_vars
  PROVE  SpeakInv'
  <1>1. ASSUME NEW t \in Task, Begin(t) PROVE SpeakInv'
    BY <1>1, BeginSpeaks
  <1>3. CASE Reject
    BY <1>3, SilentSpeaks DEF Reject, store, call, past, marks
  <1>4. CASE Veto
    BY <1>4, SilentSpeaks DEF Veto, store, call, past, marks
  <1>5. CASE Killed
    BY <1>5, SilentSpeaks DEF Killed, store, runner, marks
  <1>6. CASE OverallTimeout
    BY <1>6, SilentSpeaks DEF OverallTimeout, Ends, store, runner, marks
  <1>7. CASE Build
    BY <1>7, SilentSpeaks DEF Build, store, runner, past, marks
  <1>8. CASE Retry
    BY <1>8, SilentSpeaks DEF Retry, store, runner, past, marks
  <1>9. CASE SendFails
    BY <1>9, SilentSpeaks DEF SendFails, Ends, store, runner, marks
  <1>10. CASE Dispatch
    BY <1>10, SilentSpeaks DEF Dispatch, store, runner, past, marks
  <1>11. CASE Stop
    BY <1>11, SilentSpeaks DEF Stop, store, call, runner, past, marks
  <1>12. CASE UNCHANGED vars
    BY <1>12, SilentSpeaks DEF vars, store, call, runner, past, marks
  <1> QED
    BY <1>1, <1>3, <1>4, <1>5, <1>6, <1>7, <1>8, <1>9, <1>10, <1>11, <1>12, ApproveSpeaks,
       ReplySpeaks, ResolveSpeaks, GoOnSpeaks, EndSpeaks, SuspendSpeaks, AnswerSpeaks
    DEF Next, Step

\* A request that was suspended any number of times goes on in its own
\* conversation, with every reply it had, unless another took it over or spoke in
\* it meanwhile.
THEOREM SpecSpeaksForTask == Spec => []SpeaksForTask
  <1>1. SpeakInv /\ ConvInv /\ Inv => SpeaksForTask
    <2> SUFFICES ASSUME SpeakInv, ConvInv, Inv, phase = "sending", task \notin mixed
                 PROVE  SpeaksForTask
      BY DEF SpeaksForTask, Sent
    <2>1. Sent = messages /\ Unheard = 0
      BY DEF Sent, Unheard
    <2>2. /\ Prompted(messages, task) \/ (opts[task].named # 0 /\ Approved(messages))
          /\ asked[task] <= Cardinality(Replies(messages)) + 0
      BY <2>1 DEF SpeakInv, Own, Running
    <2>3. Cardinality(Replies(messages)) \in Nat /\ asked[task] \in Nat
      <3>1. User("prompt", 0) \in Message
        BY MessageType
      <3> QED BY <3>1, SpeakTypes, AppendReplies DEF Running
    <2>4. Cardinality({i \in DOMAIN Sent : Sent[i].by = "assistant"}) >= asked[task]
      BY <2>1, <2>2, <2>3 DEF Replies
    <2>5. \/ \E i \in DOMAIN Sent : /\ Sent[i] = User("prompt", task)
                                    /\ \A j \in i + 1..Len(Sent) : Sent[j].kind # "prompt"
          \/ opts[task].named # 0 /\ \E i \in DOMAIN Sent : Sent[i].kind = "approved"
      BY <2>1, <2>2 DEF Prompted, Approved
    <2> QED BY <2>4, <2>5 DEF SpeaksForTask
  <1>2. Inv /\ [Next]_vars => Inv'
    BY NextInv
  <1>3. Inv /\ ConvInv /\ SpeakInv /\ [Next]_vars => SpeakInv'
    BY NextSpeaks
  <1> QED BY <1>1, <1>2, <1>3, InitInv, ConvInit, NextClosed, SpeakInit, PTL DEF Spec
=============================================================================
