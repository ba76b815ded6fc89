----------------------------- MODULE Approvals -----------------------------
(* The way of a permission through the whole program: a component's        *)
(* request meets a gate (an intent that changes files, a shell command, a  *)
(* path outside the sandbox), is suspended, and the request for approval   *)
(* goes through the ClientRunner and the IO port to the application, which *)
(* shows it.  The user's y or n goes back as a signal to every runner; the *)
(* one it is for grants the pattern, opens the path and runs the request   *)
(* again.  Builtin components that are elevated share one grant store,     *)
(* which a saved session carries over to the next run; the others have     *)
(* their own.  One runner alone, with all its signals, is ChannelRunner.   *)
EXTENDS Naturals, Sequences, FiniteSets

CONSTANTS
  Component,
  Elevated,      \* the components whose RuntimeHints say elevated
  Op, Does,      \* operations, and Does[c]: those component c is asked for
  Gates,         \* Gates[op]: the gates on its way, in the order they are met
  Missing,       \* paths still to be created: canonicalize fails on them
  Within,        \* <<p, q>>: command q begins with p, or path q is below p
  OutMax,        \* EVENT_BUFFER_SIZE of the ClientRunner, 64 in the code
  ScreenMax,     \* the IO port's buffer, 64
  MaxRequests, MaxAsks, MaxBare, MaxRuns   \* bounds of the model

Gate == [kind : {"intent", "command", "path"}, on : STRING, mode : {"any", "read", "write"}]

ASSUME ApprovalsAssumption ==
  /\ Elevated \subseteq Component /\ Does \in [Component -> SUBSET Op]
  /\ Gates \in [Op -> Seq(Gate)]
  /\ Within \subseteq STRING \X STRING
  /\ {OutMax, ScreenMax} \subseteq Nat \ {0}
  /\ {MaxRequests, MaxAsks, MaxBare, MaxRuns} \subseteq Nat

VARIABLES
  \* the runners
  state,       \* state[c]: 0 Running, an id AwaitingApproval, or Gone
  pending,     \* pending_approval
  inbox,       \* signals each runner has not read
  \* what a permission is kept in
  grants,      \* grants[s]: the persistent patterns of a store
  allowed,     \* allowed_extra_paths of the sandbox all components share
  saved,       \* the grants in the session file
  \* the way to the user and back
  outbox,      \* the ClientRunner's event queue
  screen,      \* the IO port's output
  latest,      \* the application's pending_approval
  typed,       \* lines read by the readline thread
  \* history of the present run of the program
  asked,       \* asked[id]: who was suspended, on which gate, in which request
  shown,       \* requests displayed
  answered,    \* explicit answers typed
  consent,     \* gates the user said yes to, with the store they are for
  dropped,     \* requests a full queue swallowed
  overtaken,   \* requests suspended while their component waited for another
  ran,         \* operations carried out
  requests, bare, runs

runners == <<state, pending, inbox>>
permits == <<grants, allowed, saved>>
terminal == <<latest, typed, shown, answered, bare>>
vars == <<runners, permits, outbox, screen, terminal, asked, consent, dropped, overtaken,
          ran, requests, runs>>

Gone == MaxAsks + 1
NoPending == [id |-> 0]
Text == [kind |-> "text"]
shared == "shared"
Store == {shared} \cup (Component \ Elevated)

StoreOf(c) == IF c \in Elevated THEN shared ELSE c
Waiting(c) == state[c] \notin {0, Gone}
Alive(c) == state[c] # Gone

Fresh ==
  /\ state' = [c \in Component |-> 0]
  /\ pending' = [c \in Component |-> NoPending]
  /\ inbox' = [c \in Component |-> <<>>]
  /\ allowed' = {} /\ outbox' = <<>> /\ screen' = <<>>
  /\ latest' = 0 /\ typed' = <<>> /\ asked' = <<>> /\ shown' = {} /\ answered' = {}
  /\ dropped' = {} /\ ran' = {}

Init ==
  /\ state = [c \in Component |-> 0]
  /\ pending = [c \in Component |-> NoPending]
  /\ inbox = [c \in Component |-> <<>>]
  /\ grants = [s \in Store |-> {}] /\ allowed = {} /\ saved = {}
  /\ outbox = <<>> /\ screen = <<>>
  /\ latest = 0 /\ typed = <<>> /\ asked = <<>> /\ shown = {} /\ answered = {}
  /\ consent = {} /\ dropped = {} /\ overtaken = {} /\ ran = {}
  /\ requests = 0 /\ bare = 0 /\ runs = 1

-----------------------------------------------------------------------------
(* Gates.                                                                  *)

\* A pattern covers every command that begins with it, an allowed directory
\* everything below it.
Covers(p, q) == p = q \/ <<p, q>> \in Within
Matches(p, g) == p.kind = g.kind /\ Covers(p.on, g.on)

\* Mutant of Passes: an elevated session is enough for an intent as well.
PassesElevated(c, g, gr, al) ==
  \/ g.kind # "path" /\ (c \in Elevated \/ \E p \in gr[StoreOf(c)] : Matches(p, g))
  \/ g.kind = "path" /\ \E p \in al : Covers(p, g.on)
\* Intents look at the grants alone, elevation or not; commands at the
\* grants, then at the session; paths at the sandbox and never at the grants.
Passes(c, g, gr, al) ==
  \/ g.kind # "path" /\ \E p \in gr[StoreOf(c)] : Matches(p, g)
  \/ g.kind = "command" /\ c \in Elevated
  \/ g.kind = "path" /\ \E p \in al : Covers(p, g.on)

Barred(c, op, gr, al) == {i \in DOMAIN Gates[op] : ~Passes(c, Gates[op][i], gr, al)}

\* OutputSender::try_send_direct of several events: what does not fit is gone.
Emitted(out) == SubSeq(outbox \o out, 1, IF Len(outbox \o out) < OutMax THEN Len(outbox \o out) ELSE OutMax)
Lost(out) == {out[i].id : i \in {j \in DOMAIN out : out[j].kind = "ask" /\ Len(outbox) + j > OutMax}}

\* on_request: carried out, or suspended at the first gate that is closed.  A
\* channel that is waiting already keeps the identifier it waits for.
Serve(c, op, req, out, gr, al) ==
  LET closed == Barred(c, op, gr, al)
      id == Len(asked) + 1
      gate == Gates[op][CHOOSE i \in closed : \A j \in closed : i <= j]
      all == Append(out, [kind |-> "ask", id |-> id])
  IN \/ /\ closed = {}
        /\ ran' = ran \cup {[by |-> c, op |-> op]}
        /\ outbox' = Emitted(out) /\ UNCHANGED dropped
        /\ pending' = [pending EXCEPT ![c] = IF out = <<>> THEN @ ELSE NoPending]
        /\ state' = [state EXCEPT ![c] = IF out = <<>> THEN @ ELSE 0]
        /\ UNCHANGED <<asked, overtaken>>
     \/ /\ closed # {} /\ Len(asked) < MaxAsks
        /\ asked' = Append(asked, [by |-> c, gate |-> gate, req |-> req])
        /\ pending' = [pending EXCEPT ![c] = [id |-> id, gate |-> gate, op |-> op, req |-> req]]
        /\ state' = [state EXCEPT ![c] = IF @ = 0 \/ out # <<>> THEN id ELSE @]
        /\ overtaken' = IF state[c] = 0 \/ out # <<>> THEN overtaken
                         ELSE overtaken \cup {[run |-> runs, id |-> id, store |-> StoreOf(c), gate |-> gate]}
        /\ outbox' = Emitted(all) /\ dropped' = dropped \cup Lost(all)
        /\ UNCHANGED ran

\* The runner takes an event once it has no signal to read, also while its
\* channel waits for an answer.
Dispatch(c, op) ==
  /\ Alive(c) /\ inbox[c] = <<>> /\ requests < MaxRequests
  /\ requests' = requests + 1
  /\ Serve(c, op, requests + 1, <<>>, grants, allowed)
  /\ UNCHANGED <<inbox, permits, screen, terminal, consent, runs>>

-----------------------------------------------------------------------------
(* Signals.                                                                *)

NextSignal(c) == inbox[c] # <<>> /\ inbox' = [inbox EXCEPT ![c] = Tail(@)]

\* Mutant of IsFor: the World does not compare the identifiers.
IsForAny(c, s) == IF s.yes THEN Waiting(c) ELSE pending[c].id = s.id
\* An Approve is compared with the state of the channel, a Reject with
\* pending_approval.
IsFor(c, s) == IF s.yes THEN state[c] = s.id ELSE pending[c].id = s.id

\* A signal that is for somebody else, or comes too late.
IgnoreSignal(c) ==
  /\ Alive(c) /\ NextSignal(c)
  /\ ~IsFor(c, Head(inbox[c]))
  /\ UNCHANGED <<state, pending, permits, outbox, screen, terminal, asked, consent, dropped, overtaken, ran, requests, runs>>

\* Mutant of Opened: the path is granted in the store only.
OpenedNever(g) == allowed
\* allow_path.  A path that does not exist cannot be canonicalized, so it is
\* not opened; the failure is logged.
Opened(g) == IF g.kind = "path" /\ g.on \notin Missing THEN allowed \cup {g.on} ELSE allowed

\* handle_approval_resolved: grant, open the path, tell, run again.
Approved(c) ==
  /\ Alive(c) /\ NextSignal(c)
  /\ Head(inbox[c]).yes /\ IsFor(c, Head(inbox[c]))
  /\ LET p == pending[c]
         gr == [grants EXCEPT ![StoreOf(c)] = @ \cup {p.gate}]
     IN /\ grants' = gr /\ allowed' = Opened(p.gate)
        /\ Serve(c, p.op, p.req, <<Text>>, gr, Opened(p.gate))
  /\ UNCHANGED <<saved, screen, terminal, consent, requests, runs>>

\* Reject aborts the channel: the runner finds it inactive and leaves.
Rejected(c) ==
  /\ Alive(c) /\ NextSignal(c)
  /\ ~Head(inbox[c]).yes /\ IsFor(c, Head(inbox[c]))
  /\ state' = [state EXCEPT ![c] = Gone]
  /\ pending' = [pending EXCEPT ![c] = NoPending]
  /\ outbox' = Emitted(<<Text>>)
  /\ UNCHANGED <<permits, screen, terminal, asked, consent, dropped, overtaken, ran, requests, runs>>

\* The ClientRunner hands on what it is sent, waiting for room on the port.
\* (It also reads the signals; to Approve it adds a line of text, whoever the
\* Approve was for, and to Reject nothing.  That line is left out.)
Client ==
  /\ outbox # <<>> /\ Len(screen) < ScreenMax
  /\ screen' = Append(screen, Head(outbox)) /\ outbox' = Tail(outbox)
  /\ UNCHANGED <<runners, permits, terminal, asked, consent, dropped, overtaken, ran, requests, runs>>

-----------------------------------------------------------------------------
(* The application and the user.                                           *)

\* handle_io_output: the request shown last is the one a bare y is for.
Display ==
  /\ screen # <<>> /\ screen' = Tail(screen)
  /\ IF Head(screen).kind = "ask"
     THEN latest' = Head(screen).id /\ shown' = shown \cup {Head(screen).id}
     ELSE UNCHANGED <<latest, shown>>
  /\ UNCHANGED <<runners, permits, outbox, typed, answered, bare, asked, consent, dropped, overtaken, ran, requests, runs>>

\* The user answers a request by its identifier, once.
AnswerById(id, yes) ==
  /\ id \in shown \ answered
  /\ answered' = answered \cup {id}
  /\ typed' = Append(typed, [id |-> id, yes |-> yes])
  /\ UNCHANGED <<runners, permits, outbox, screen, latest, shown, bare, asked, consent, dropped, overtaken, ran, requests, runs>>

AnswerBare(yes) ==
  /\ bare < MaxBare /\ bare' = bare + 1 /\ shown # {}
  /\ typed' = Append(typed, [id |-> 0, yes |-> yes])
  /\ UNCHANGED <<runners, permits, outbox, screen, latest, shown, answered, asked, consent, dropped, overtaken, ran, requests, runs>>

\* Mutant of Target: the request on the screen takes any answer.
TargetLatest(l) == IF latest # 0 THEN latest ELSE l.id
\* Which request a line is for: the one it names, or the one shown last.
Target(l) == IF l.id # 0 THEN l.id ELSE latest

\* handle_input, with handle_approve_via_io and handle_reject_via_io.  Output
\* goes first, and a bare answer is given its request only now.
HandleLine ==
  /\ screen = <<>> /\ typed # <<>> /\ typed' = Tail(typed)
  /\ LET l == Head(typed)
         id == Target(l)
     IN IF id = 0
        THEN UNCHANGED <<inbox, latest, consent>>
        ELSE /\ inbox' = [c \in Component |-> Append(inbox[c], [id |-> id, yes |-> l.yes])]
             /\ latest' = IF latest = id THEN 0 ELSE latest
             /\ consent' = IF l.yes
                           THEN consent \cup {[store |-> StoreOf(asked[id].by), gate |-> asked[id].gate]}
                           ELSE consent
  /\ UNCHANGED <<state, pending, permits, outbox, screen, shown, answered, bare, asked, dropped, overtaken, ran, requests, runs>>

\* Mutant of Restored: the session is loaded without its grants.
RestoredNone(file) == {}
\* restore_grants, into a store that is empty.
Restored(file) == file

\* The program ends, by p with the session saved or by q without, and is
\* started again on the session: the shared store gets the saved grants, the
\* other stores and the sandbox start empty.
Restart(save) ==
  /\ runs < MaxRuns /\ runs' = runs + 1
  /\ screen = <<>> /\ typed = <<>>
  /\ saved' = IF save THEN grants[shared] ELSE saved
  /\ grants' = [s \in Store |-> IF s = shared THEN Restored(saved') ELSE {}]
  /\ consent' = {x \in consent : x.store = shared}
  /\ overtaken' = {x \in overtaken : x.store = shared}
  /\ Fresh
  /\ UNCHANGED <<requests, bare>>

-----------------------------------------------------------------------------
Runner(c) == IgnoreSignal(c) \/ Approved(c) \/ Rejected(c)
App == Display \/ HandleLine
Answer == \E id \in 1..MaxAsks, yes \in BOOLEAN : AnswerById(id, yes)

Next ==
  \/ \E c \in Component : Runner(c) \/ \E op \in Does[c] : Dispatch(c, op)
  \/ Client \/ App
  \/ Answer \/ \E yes \in BOOLEAN : AnswerBare(yes)
  \/ \E save \in BOOLEAN : Restart(save)

\* Every task of the program goes on while it has something to do (its loop
\* picks the step), and the user is one who in the end answers, by its
\* identifier, every request that is displayed.
Fairness ==
  /\ \A c \in Component : WF_vars(Runner(c))
  /\ WF_vars(Client) /\ WF_vars(App) /\ WF_vars(Answer)

Spec == Init /\ [][Next]_vars /\ Fairness

-----------------------------------------------------------------------------
(* Properties.                                                             *)

\* Request id of this run took the place of another one as pending_approval.
Overtook(id) == \E x \in overtaken : x.run = runs /\ x.id = id

\* Whatever a component carries out, the user has said yes to every gate on
\* its way, for a component of the same store: only elevated components run
\* commands unasked.  A path that was opened is open for all of them, to read
\* and to write.  The exception is a gate asked for by a request that was
\* suspended while its component waited for another one: the yes to the other
\* grants it.  (handle_approval_resolved, check_mutation_approval,
\* check_command, the application's routing of y and n)
RunOnlyApproved ==
  \A r \in ran : \A i \in DOMAIN Gates[r.op] :
    LET g == Gates[r.op][i]
    IN \/ g.kind = "command" /\ r.by \in Elevated
       \/ \E x \in consent \cup overtaken :
            Matches(x.gate, g) /\ (g.kind = "path" \/ x.store = StoreOf(r.by))

\* A request that runs again after an approval does not ask for the same
\* permission a second time, but for a path that is still to be created: it
\* cannot be opened, and the request asks for it after every yes.  (base.rs: "so
\* that the re-dispatched request passes validate_read/validate_write")
AskedOnce ==
  \A i, j \in DOMAIN asked :
    /\ asked[i].req = asked[j].req /\ asked[i].gate = asked[j].gate
    /\ ~(asked[i].gate.kind = "path" /\ asked[i].gate.on \in Missing)
    => i = j

\* After a resume no elevated component asks again for an intent or command
\* that the saved session grants.  (save_session, restore_grants)
GrantsResumed ==
  \A i \in DOMAIN asked :
    asked[i].by \in Elevated /\ asked[i].gate.kind # "path"
      => \A p \in saved : ~Matches(p, asked[i].gate)

\* A component stops waiting only because its own request was answered, or
\* because the program ended; an n to the request that took the place of its
\* own also ends it, a y to that one does not.  (ResolveApproval's comparison,
\* Reject's with pending_approval, one broadcast for all)
OwnAnswerOnly ==
  [][\A c \in Component :
       Waiting(c) /\ state'[c] # state[c] /\ runs' = runs =>
         /\ inbox[c] # <<>> /\ Head(inbox[c]).id \in shown
         /\ LET s == Head(inbox[c])
            IN s.id = state[c] \/ (~s.yes /\ s.id = pending[c].id /\ Overtook(s.id))]_vars

\* With a user who answers what is displayed, no component waits for ever,
\* unless a full queue swallowed its request on the way, or another request of
\* the component took its place (the n to it is then ignored).  A path still to
\* be created is asked for as often as it is approved, so the model's bound on
\* requests for approval ends the matter too.  (the whole way there and back;
\* latest is overwritten by other requests meanwhile)
NoneForgotten ==
  \A c \in Component :
    Waiting(c) ~> \/ ~Waiting(c) \/ state[c] \in dropped \/ Overtook(pending[c].id)
                  \/ Len(asked) = MaxAsks
=============================================================================
