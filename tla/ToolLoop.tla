------------------------------ MODULE ToolLoop ------------------------------
(***************************************************************************)
(* orcs.llm with resolve = true (orcs-lua/src/llm_command): one call sends *)
(* a conversation to a provider, runs the tools the reply asks for, sends  *)
(* the results back, and so on until a reply asks for nothing more or the  *)
(* turns are used up.  A tool that needs the user's leave ends the call    *)
(* with Suspended; the runner grants what was asked once the user approves *)
(* and runs the whole request again, which finds the conversation it left  *)
(* in two variables of its Lua state (HilSessionId, HilTurnAccumulator).   *)
(* There is one pair of them, whoever left it, and the runner takes events *)
(* and RPC requests while an approval is awaited: the request that runs    *)
(* next takes the pair, so a waiting one can lose its own.                 *)
(*                                                                         *)
(* A message of a conversation is [by, kind, of]: "prompt" of a task,      *)
(* "approved" (the prompt of a resumed call), and, of the reply with that  *)
(* number, "text", "uses" (its tool_use blocks), "results" (a tool_result  *)
(* for each of them), "suspended" (the same, made up for a call that was   *)
(* suspended) or "go_on" (asks for the rest of a truncated reply).         *)
(***************************************************************************)
EXTENDS Naturals, Sequences, FiniteSets

CONSTANTS
  Task,        \* requests to the component; each makes one call
  NoTask,
  Tool,        \* intents a reply can ask for
  Mutating,    \* those that need a grant: write, remove, mv, mkdir and exec
  Outside,     \* those on a path outside the sandbox
  MaxTurns,    \* max_tool_turns, 10 in the code
  MaxRetries,  \* max_retries, 2 in the code
  MaxBatch, MaxSessions, MaxReplies   \* bounds of the model

ASSUME ToolLoopAssumption ==
  /\ NoTask \notin Task
  /\ Mutating \subseteq Tool /\ Outside \subseteq Tool
  /\ {MaxTurns, MaxRetries, MaxBatch, MaxSessions, MaxReplies} \subseteq Nat

Session == 1..MaxSessions
Batches == UNION {[1..k -> Tool] : k \in 0..MaxBatch}
Stops == {"end_turn", "tool_use", "max_tokens"}
Pattern == {"intent", "sandbox"} \X Tool

VARIABLES
  \* the Lua state of the component
  history,        \* SessionStore
  made,           \* sessions made so far
  savedSession,   \* HilSessionId, 0 for none
  savedTurns,     \* HilTurnAccumulator, 0 for none
  \* the call that is running
  phase, task, session, messages, turn, attempt,
  reply,          \* [stop, uses] of the last reply
  at,             \* the intent of it that is dispatched next
  \* the runner
  opts,           \* of each request: hil_intents, whether it came by RPC, its session
  pending,        \* pending_approval: the request and the pattern it lacks
  granted,        \* grants and allowed_extra_paths
  killed,         \* the kill flag
  \* history
  replies,        \* replies so far
  outcome,        \* how each task ended
  asked,          \* replies to each task
  savedBy,        \* whose session and turns are saved
  robbed,         \* whose saved session and turns another request took
  mixed           \* those in whose conversation another request spoke

store == <<history, made, savedSession, savedTurns>>
call == <<task, session, messages, turn, attempt, reply, at>>
runner == <<opts, pending, granted, killed>>
past == <<replies, outcome, asked>>
marks == <<savedBy, robbed, mixed>>
vars == <<store, phase, call, runner, past, marks>>

NoPending == [task |-> NoTask]
NoReply == [stop |-> "none", uses |-> <<>>]

Init ==
  /\ history = [s \in Session |-> <<>>] /\ made = 0
  /\ savedSession = 0 /\ savedTurns = 0
  /\ phase = "idle" /\ task = NoTask /\ session = 0 /\ messages = <<>>
  /\ turn = 0 /\ attempt = 0 /\ reply = NoReply /\ at = 0
  /\ opts = [t \in Task |-> [hil |-> TRUE, rpc |-> FALSE, named |-> 0]]
  /\ pending = NoPending /\ granted = {} /\ killed = FALSE
  /\ replies = 0 /\ outcome = [t \in Task |-> "new"] /\ asked = [t \in Task |-> 0]
  /\ savedBy = NoTask /\ robbed = {} /\ mixed = {}

User(kind, of) == [by |-> "user", kind |-> kind, of |-> of]
Assistant(kind, of) == [by |-> "assistant", kind |-> kind, of |-> of]

-----------------------------------------------------------------------------
(* llm_request_impl up to the loop: which conversation, from which turn.   *)

\* History: request t takes what another one saved, or names the session in
\* which another one is suspended.
Meets(t, s, hil) ==
  /\ savedBy' = (IF hil THEN NoTask ELSE savedBy)
  /\ robbed' = robbed \cup IF hil THEN {savedBy} \ {t, NoTask} ELSE {}
  /\ mixed' = mixed \cup
       IF hil /\ savedBy \notin {t, NoTask} THEN {t, savedBy}
       ELSE IF ~hil /\ s = savedSession THEN {savedBy} ELSE {}

\* The first prompt of a session is kept at once; later ones at the end.
EnterIn(t, s, resumed, hil) ==
  /\ task' = t /\ session' = s /\ phase' = "checking"
  /\ messages' = Append(history[s], IF resumed THEN User("approved", 0) ELSE User("prompt", t))
  /\ history' = IF ~resumed /\ history[s] = <<>>
                THEN [history EXCEPT ![s] = <<User("prompt", t)>>] ELSE history
  /\ turn' = (IF hil THEN savedTurns ELSE 0) /\ attempt' = 0
  /\ savedTurns' = (IF hil THEN 0 ELSE savedTurns)
  /\ savedSession' = (IF hil THEN 0 ELSE savedSession)
  /\ Meets(t, s, hil)
  /\ UNCHANGED <<reply, at>>

\* Mutant of Enter: the saved session is not looked for.
EnterBlank(t, o) ==
  LET s == IF o.named # 0 THEN o.named ELSE made + 1
  IN  /\ s \in Session
      /\ made' = (IF s > made THEN s ELSE made)
      /\ EnterIn(t, s, FALSE, o.hil)

\* A call with hil_intents takes over the session a suspended call left.
Enter(t, o) ==
  LET resumed == o.hil /\ savedSession # 0
      s == IF resumed THEN savedSession ELSE IF o.named # 0 THEN o.named ELSE made + 1
  IN  /\ s \in Session
      /\ made' = (IF s > made THEN s ELSE made)
      /\ EnterIn(t, s, resumed, o.hil)

\* A request reaches on_request, by an event or by RPC, whether another waits
\* for approval or not; the script chooses the other options.
Begin(t) ==
  /\ phase = "idle" /\ outcome[t] = "new" /\ ~killed
  /\ \E o \in [hil : BOOLEAN, rpc : BOOLEAN, named : 0..made] :
       /\ opts' = [opts EXCEPT ![t] = o]
       /\ Enter(t, o)
  /\ outcome' = [outcome EXCEPT ![t] = "running"]
  /\ UNCHANGED <<pending, granted, killed, replies, asked>>

-----------------------------------------------------------------------------
(* The user: handle_approval_resolved, Reject and Veto.                    *)

Approve ==
  /\ phase = "idle" /\ pending # NoPending /\ ~killed
  /\ granted' = granted \cup {pending.pattern}
  /\ pending' = NoPending
  /\ Enter(pending.task, opts[pending.task])
  /\ UNCHANGED <<opts, killed, past>>

\* The channel is aborted, and the runner leaves.
Reject ==
  /\ phase = "idle" /\ pending # NoPending /\ ~killed
  /\ phase' = "stopped" /\ pending' = NoPending
  /\ UNCHANGED <<store, call, opts, granted, killed, past, marks>>

Veto ==
  /\ ~killed /\ phase # "stopped" /\ killed' = TRUE
  /\ UNCHANGED <<store, phase, call, opts, pending, granted, past, marks>>

\* Between two requests the runner handles the Veto itself.
Stop ==
  /\ killed /\ phase = "idle" /\ phase' = "stopped"
  /\ UNCHANGED <<store, call, runner, past, marks>>

-----------------------------------------------------------------------------
(* The loop: one turn sends the conversation and gets a reply.             *)

\* What is left of a call when it returns.
Returns ==
  /\ task' = NoTask /\ session' = 0 /\ messages' = <<>>
  /\ turn' = 0 /\ attempt' = 0 /\ reply' = NoReply /\ at' = 0

Ends(how) ==
  /\ phase' = "idle" /\ outcome' = [outcome EXCEPT ![task] = how]
  /\ Returns
  /\ UNCHANGED <<runner, replies, asked, marks>>

\* "killed by veto": the script ends, and the runner after it.
Killed ==
  /\ killed /\ phase = "checking"
  /\ phase' = "stopped" /\ outcome' = [outcome EXCEPT ![task] = "killed"]
  /\ Returns
  /\ UNCHANGED <<store, runner, replies, asked, marks>>

OverallTimeout == phase = "checking" /\ ~killed /\ Ends("error") /\ UNCHANGED store

Build ==
  /\ phase = "checking" /\ ~killed
  /\ phase' = "sending" /\ attempt' = 0
  /\ UNCHANGED <<store, task, session, messages, turn, reply, at, runner, past, marks>>

\* 429, a 5xx or a failed transport, tried again after a pause.
Retry ==
  /\ phase = "sending" /\ attempt < MaxRetries
  /\ attempt' = attempt + 1
  /\ UNCHANGED <<store, phase, task, session, messages, turn, reply, at, runner, past, marks>>

\* Refused, unreadable, or cancelled by the Veto's token.
SendFails == phase = "sending" /\ Ends("error") /\ UNCHANGED store

Reply ==
  /\ phase = "sending" /\ replies < MaxReplies
  /\ replies' = replies + 1 /\ asked' = [asked EXCEPT ![task] = @ + 1]
  /\ \E stop \in Stops, uses \in Batches :
       reply' = [stop |-> stop, uses |-> uses]
  /\ phase' = "replied" /\ attempt' = 0
  /\ UNCHANGED <<store, task, session, messages, turn, at, runner, outcome, marks>>

\* append_message, in the session and in what is sent next.
Says(msgs) ==
  /\ messages' = messages \o msgs
  /\ history' = [history EXCEPT ![session] = @ \o msgs]
  /\ UNCHANGED <<made, savedSession, savedTurns>>

\* Mutant of Resolves: the turn that uses up the budget is dispatched too.
ResolvesOneMore ==
  /\ reply.uses # <<>> /\ turn <= MaxTurns
  /\ reply.stop \in {"tool_use", "max_tokens"}

\* The reply's tools are run: asked for, or whole in a truncated reply.
Resolves ==
  /\ reply.uses # <<>> /\ turn < MaxTurns
  /\ reply.stop \in {"tool_use", "max_tokens"}

\* The kill flag is looked at before tools are run, not in a truncated reply.
Resolve ==
  /\ phase = "replied" /\ Resolves
  /\ Says(<<Assistant("uses", replies)>>)
  /\ IF killed /\ reply.stop = "tool_use"
     THEN /\ phase' = "stopped" /\ outcome' = [outcome EXCEPT ![task] = "killed"]
          /\ UNCHANGED at
     ELSE /\ phase' = "dispatching" /\ at' = 1
          /\ UNCHANGED outcome
  /\ UNCHANGED <<task, session, turn, attempt, reply, runner, replies, asked, marks>>

\* Mutant of GoOn: a truncated reply costs no turn.
GoOnFree ==
  /\ phase = "replied" /\ reply.stop = "max_tokens" /\ reply.uses = <<>> /\ turn < MaxTurns
  /\ Says(<<Assistant("text", replies), User("go_on", replies)>>)
  /\ phase' = "checking" /\ reply' = NoReply
  /\ UNCHANGED <<turn, task, session, attempt, at, runner, past, marks>>

\* A truncated reply without tools: ask for the rest.
GoOn ==
  /\ phase = "replied" /\ reply.stop = "max_tokens" /\ reply.uses = <<>> /\ turn < MaxTurns
  /\ Says(<<Assistant("text", replies), User("go_on", replies)>>)
  /\ phase' = "checking" /\ turn' = turn + 1 /\ reply' = NoReply
  /\ UNCHANGED <<task, session, attempt, at, runner, past, marks>>

\* update_session; tools that are still asked for are left to the caller.
Final ==
  /\ phase = "replied" /\ ~Resolves
  /\ ~(reply.stop = "max_tokens" /\ turn < MaxTurns)
  /\ history' = [history EXCEPT ![session] = @ \o <<User("prompt", task), Assistant("text", replies)>>]
  /\ UNCHANGED <<made, savedSession, savedTurns>>
  /\ Ends("ok")

-----------------------------------------------------------------------------
(* dispatch_intents_to_results: one intent after the other.                *)

\* What a tool lacks, in the order it is looked for.
Lacks(tool) ==
  IF tool \in Mutating /\ <<"intent", tool>> \notin granted THEN {<<"intent", tool>>}
  ELSE IF tool \in Outside /\ <<"sandbox", tool>> \notin granted THEN {<<"sandbox", tool>>}
  ELSE {}

\* It ran, failed, or (without hil_intents) was refused: a tool_result all the same.
Dispatch ==
  /\ phase = "dispatching" /\ at <= Len(reply.uses)
  /\ Lacks(reply.uses[at]) = {} \/ ~opts[task].hil
  /\ at' = at + 1
  /\ UNCHANGED <<store, phase, task, session, messages, turn, attempt, reply, runner, past, marks>>

\* The dispatch itself fails: every use gets an error for its result, which is
\* kept in the session, and the call ends with the error.
DispatchFails ==
  /\ phase = "dispatching" /\ at <= Len(reply.uses)
  /\ history' = [history EXCEPT ![session] = Append(@, User("results", replies))]
  /\ UNCHANGED <<made, savedSession, savedTurns>>
  /\ Ends("error")

\* What the runner does with Suspended: an event's request is kept and the
\* user asked; handle_rpc_request answers the caller with the error.
Awaits(pattern) ==
  IF opts[task].rpc
  THEN /\ outcome' = [outcome EXCEPT ![task] = "error"]
       /\ UNCHANGED pending
  ELSE /\ pending' = [task |-> task, pattern |-> pattern]
       /\ UNCHANGED outcome

\* Mutant of Suspend: the session keeps the tool uses without results.
SuspendBare ==
  /\ phase = "dispatching" /\ at <= Len(reply.uses) /\ opts[task].hil
  /\ \E pattern \in Lacks(reply.uses[at]) : Awaits(pattern)
  /\ savedTurns' = turn + 1 /\ savedSession' = session /\ savedBy' = task
  /\ phase' = "idle" /\ Returns
  /\ UNCHANGED <<history, made, opts, granted, killed, replies, asked, robbed, mixed>>

Suspend ==
  /\ phase = "dispatching" /\ at <= Len(reply.uses) /\ opts[task].hil
  /\ \E pattern \in Lacks(reply.uses[at]) : Awaits(pattern)
  /\ history' = [history EXCEPT ![session] = Append(@, User("suspended", replies))]
  /\ savedTurns' = turn + 1 /\ savedSession' = session /\ savedBy' = task
  /\ phase' = "idle" /\ Returns
  /\ UNCHANGED <<made, opts, granted, killed, replies, asked, robbed, mixed>>

Answer ==
  /\ phase = "dispatching" /\ at > Len(reply.uses)
  /\ Says(<<User("results", replies)>>)
  /\ phase' = "checking" /\ turn' = turn + 1 /\ reply' = NoReply /\ at' = 0
  /\ UNCHANGED <<task, session, attempt, runner, past, marks>>

Step ==  \* the script, and the runner it returns to
  \/ Killed \/ OverallTimeout \/ Build \/ Retry \/ SendFails \/ Reply
  \/ Resolve \/ GoOn \/ Final \/ Dispatch \/ DispatchFails \/ Suspend \/ Answer \/ Stop

Next ==
  \/ \E t \in Task : Begin(t)
  \/ Approve \/ Reject \/ Veto
  \/ Step

Spec == Init /\ [][Next]_vars
-----------------------------------------------------------------------------
(* Properties.                                                             *)

\* What the provider is sent.
Sent == IF phase = "sending" THEN messages ELSE <<>>

Running == {"checking", "sending", "replied", "dispatching"}

TypeOK ==
  /\ phase \in Running \cup {"idle", "stopped"}
  /\ task \in Task \cup {NoTask}
  /\ turn \in 0..MaxTurns /\ savedTurns \in 0..MaxTurns
  /\ savedSession \in Nat /\ made \in Nat /\ replies \in Nat /\ asked \in [Task -> Nat]
  /\ outcome \in [Task -> {"new", "running", "ok", "error", "killed"}]
  /\ opts \in [Task -> [hil : BOOLEAN, rpc : BOOLEAN, named : Nat]]
  /\ pending \in {NoPending} \cup [task : Task, pattern : Pattern]
  /\ killed \in BOOLEAN

\* The turn at hand, or the one a suspended call left for its next run,
\* counts every reply its task has had, unless another request took what the
\* suspended one left (robbed): the next run with hil_intents takes it, whoever
\* left it.  So the loop's own bound is never what ends it, and the error
\* "tool_loop_limit" after it is never returned.
TurnsCarried ==
  /\ TypeOK
  /\ phase \in Running => task \in Task /\ session \in Session /\ outcome[task] # "new"
  /\ phase \in Running /\ task \notin robbed =>
       asked[task] <= IF phase \in {"checking", "sending"} THEN turn ELSE turn + 1
  /\ phase = "dispatching" => turn < MaxTurns
  /\ \A t \in Task : outcome[t] = "new" => asked[t] = 0
  /\ pending # NoPending =>
       /\ opts[pending.task].hil /\ outcome[pending.task] # "new"
       /\ phase \in Running => task # pending.task
       /\ pending.task \notin robbed =>
            /\ savedBy = pending.task /\ savedSession # 0
            /\ asked[pending.task] <= savedTurns

\* Every tool_use a provider is shown is answered by the message after it,
\* in a conversation that went through suspensions, truncated replies and
\* earlier calls (the API refuses a conversation that is not).
UsesAnswered ==
  \A i \in DOMAIN Sent : Sent[i].kind = "uses" =>
    /\ i + 1 \in DOMAIN Sent
    /\ Sent[i + 1].kind \in {"results", "suspended"} /\ Sent[i + 1].of = Sent[i].of

\* However often a request is suspended and run again, it asks the provider
\* no more often than one call with its budget may: the turns it used are
\* carried over by the accumulator.  Only a request that another one robbed of
\* its turns, by running while it waited, starts again with a budget not its own.
BudgetKept == \A t \in Task \ robbed : asked[t] <= MaxTurns + 1

\* The provider is shown the conversation of the request at hand: the last
\* prompt is the request's own, and every reply the request has had is there,
\* so an approved call goes on where it was suspended.  (A request that named
\* its session has its prompt stored only when it ends, so after an approval
\* the provider is not shown it.)  Not so for the requests whose conversations
\* were mixed: one that took over the session another was suspended in, the
\* one that was, and one in whose session another, which named it, spoke
\* meanwhile.
SpeaksForTask ==
  Sent # <<>> /\ task \notin mixed =>
    /\ \/ \E i \in DOMAIN Sent : /\ Sent[i] = User("prompt", task)
                                 /\ \A j \in i + 1..Len(Sent) : Sent[j].kind # "prompt"
       \/ /\ opts[task].named # 0
          /\ \E i \in DOMAIN Sent : Sent[i].kind = "approved"
    /\ Cardinality({i \in DOMAIN Sent : Sent[i].by = "assistant"}) >= asked[task]
=============================================================================
