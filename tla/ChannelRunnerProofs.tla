------------------------ MODULE ChannelRunnerProofs ------------------------
(***************************************************************************)
(* The event loop of a channel, for any requests, patterns, signals and    *)
(* buffer sizes.  The World shows here only as the state of the runner's   *)
(* channel (Life) and the approval it awaits; a channel that is Over stays *)
(* so, whatever the order of kills, late aborts and the runner's own       *)
(* transitions.                                                            *)
(***************************************************************************)
EXTENDS ChannelRunner, TLAPS

-----------------------------------------------------------------------------
(* The inductive invariant.                                                *)

\* What the World says of the runner's channel.
Life == IF Self \in DOMAIN channels THEN channels[Self].state ELSE "gone"
Awaited == IF Self \in DOMAIN channels THEN channels[Self].request_id ELSE 0
Over == {"Completed", "Aborted", "gone"}

WorldOK ==
  /\ DOMAIN channels \subseteq {Self}
  /\ channels \in [DOMAIN channels -> W!Channel]

Queued == [n : Nat, r : Request, wanted : BOOLEAN]
Queue == Seq(Queued)
Ring == Seq(Signal)
Order == Seq(Nat)
Places == {"select", "component", "transition", "process", "abort", "check", "stopping", "done"}

Typed ==
  /\ WorldOK /\ up \in BOOLEAN /\ late \in BOOLEAN
  /\ signals \in Ring
  /\ events \in Queue /\ paused \in Queue /\ batch \in Queue
  /\ log \in Order /\ sentEvents \in Nat
  /\ pc \in Places
  /\ asked \in W!Transitions \cup {NoTransition}
  /\ pc = "transition" => asked # NoTransition
  /\ filed \in Seq(Pattern)
  /\ shown \subseteq DOMAIN filed /\ approved \subseteq shown /\ overtaken \subseteq DOMAIN filed
  /\ pc = "transition" /\ asked.kind = "AwaitApproval" => asked.approval_id \in DOMAIN filed

\* An abort the runner no longer waits for is all that keeps a stopped channel
\* from its end.
Stopped == exit = "Signal" /\ up /\ ~late => Life \in Over

\* Events are being processed only inside the handler that took them, with nothing
\* held back meanwhile, and not on a paused channel; they are held back only there.
Draining ==
  /\ pc = "process" => batch # <<>>
  /\ batch # <<>> =>
       /\ pc \in {"process", "component"} \/ (pc = "transition" /\ asked.kind = "AwaitApproval")
       /\ Life \notin Over => paused = <<>>
       /\ up => Life # "Paused"
  /\ paused # <<>> => Life \in Over \cup {"Paused"}

Rising(q) == \A i, j \in DOMAIN q : i < j => q[i].n < q[j].n
Before(p, q) == \A i \in DOMAIN p, j \in DOMAIN q : p[i].n < q[j].n
Sent(q, n) == \A i \in DOMAIN q : q[i].n <= n

\* The events logged in l, drained from b, held back in p and buffered in e are
\* in the order they were sent in, up to the n-th.
Logged(l, q) == \A i \in DOMAIN l, j \in DOMAIN q : l[i] < q[j].n
Lined(l, b, p, e, n) ==
  /\ \A i, j \in DOMAIN l : i < j => l[i] < l[j]
  /\ \A i \in DOMAIN l : l[i] <= n
  /\ Rising(b) /\ Rising(p) /\ Rising(e)
  /\ Logged(l, b) /\ Logged(l, p) /\ Logged(l, e)
  /\ Before(b, e) /\ Before(p, e)
  /\ Sent(b, n) /\ Sent(p, n) /\ Sent(e, n)

InOrder == Life \notin Over => Lined(log, batch, paused, events, sentEvents)

Inv == Typed /\ Stopped /\ Draining /\ InOrder

\* What the World awaits is what the runner holds, or what took its place, once no
\* abort can come in between; what is resolved was approved.
Routed ==
  /\ grants \subseteq {filed[a] : a \in approved \cup overtaken}
  /\ \A i \in DOMAIN signals : signals[i].kind = "Approve" => signals[i].id \in approved
  /\ pc = "transition" /\ asked.kind = "ResolveApproval" => asked.approval_id \in approved
  /\ pending # NoPending => pending.id \in DOMAIN filed /\ pending.pattern = filed[pending.id]
  /\ pc = "transition" /\ asked.kind = "AwaitApproval" =>
       pending # NoPending /\ pending.id = asked.approval_id
  /\ up /\ ~late /\ Life = "AwaitingApproval" =>
       /\ pending # NoPending
       /\ pending.id = Awaited \/ (pending.id > Awaited /\ pending.id \in overtaken)

-----------------------------------------------------------------------------
(* The World as the runner sees it.                                        *)

LEMMA LifeType ==
  ASSUME WorldOK
  PROVE  /\ Life \in {"Running", "Paused", "AwaitingApproval"} \cup Over
         /\ Awaited \in ApprovalId \cup {0}
         /\ Life = "gone" <=> Self \notin DOMAIN channels
         /\ IsActive <=> Life \notin Over
         /\ IsPaused <=> Life = "Paused"
         /\ \A a : AwaitsApproval(a) <=> Life = "AwaitingApproval" /\ Awaited = a
  <1>1. Self \in DOMAIN channels => channels[Self] \in W!Channel
    BY DEF WorldOK
  <1>2. Self \in DOMAIN channels => /\ channels[Self].state \in W!ChannelState
                                   /\ channels[Self].request_id \in ApprovalId \cup {0}
    BY <1>1 DEF W!Channel
  <1> QED
    BY <1>2 DEF Life, Awaited, Over, IsActive, IsPaused, AwaitsApproval, W!IsTerminal, W!Terminal,
               W!ChannelState

LEMMA AcceptsLife ==
  ASSUME WorldOK, NEW t \in W!Transitions
  PROVE  /\ t.kind \in {"Complete", "Pause", "AwaitApproval"} =>
              (W!Accepts(channels, Self, t) <=> Life = "Running")
         /\ t.kind = "Resume" => (W!Accepts(channels, Self, t) <=> Life = "Paused")
         /\ t.kind = "ResolveApproval" =>
              (W!Accepts(channels, Self, t) <=> Life = "AwaitingApproval" /\ Awaited = t.approval_id)
         /\ t.kind = "Abort" => (W!Accepts(channels, Self, t) <=> Life \notin Over)
         /\ t.kind \in {"Complete", "Pause", "AwaitApproval", "Resume", "ResolveApproval", "Abort"}
  BY LifeType DEF W!Transitions, W!Accepts, Life, Awaited, Over, W!IsTerminal, W!Terminal

\* A transition the World accepts leaves what it is for, and no other changes it.
LEMMA TransitionLife ==
  ASSUME WorldOK, NEW t \in W!Transitions, channels' = W!TransitionOf(channels, Self, t)
  PROVE  /\ WorldOK'
         /\ W!Accepts(channels, Self, t) =>
              /\ Life' = W!Target(t)
              /\ Awaited' = IF t.kind = "AwaitApproval" THEN t.approval_id ELSE 0
         /\ ~W!Accepts(channels, Self, t) => Life' = Life /\ Awaited' = Awaited
  <1> DEFINE id == IF t.kind = "AwaitApproval" THEN t.approval_id ELSE 0
  <1>1. CASE W!Accepts(channels, Self, t)
    <2>1. Self \in DOMAIN channels /\ channels[Self] \in W!Channel
      BY <1>1 DEF WorldOK, W!Accepts
    <2>2. W!Target(t) \in W!ChannelState /\ id \in ApprovalId \cup {0}
      BY DEF W!Transitions, W!Target, W!ChannelState
    <2>3. channels' = [channels EXCEPT ![Self].state = W!Target(t), ![Self].request_id = id]
      BY <1>1 DEF W!TransitionOf
    <2> HIDE DEF id
    <2>4. /\ DOMAIN channels' = DOMAIN channels
          /\ channels'[Self] = [channels[Self] EXCEPT !.state = W!Target(t), !.request_id = id]
          /\ \A c \in DOMAIN channels : c = Self
      BY <2>1, <2>3 DEF WorldOK
    <2>5. channels'[Self] \in W!Channel /\ channels'[Self].state = W!Target(t)
          /\ channels'[Self].request_id = id
      BY <2>1, <2>2, <2>4 DEF W!Channel
    <2>6. channels' = [c \in DOMAIN channels' |-> channels'[c]]
      BY <2>3
    <2>7. WorldOK'
      BY <2>1, <2>4, <2>5, <2>6 DEF WorldOK
    <2> QED BY <1>1, <2>1, <2>4, <2>5, <2>7 DEF Life, Awaited, id
  <1>2. CASE ~W!Accepts(channels, Self, t)
    <2>1. channels' = channels
      BY <1>2 DEF W!TransitionOf
    <2> QED BY <1>2, <2>1 DEF Life, Awaited, WorldOK
  <1> QED BY <1>1, <1>2

LEMMA AbortLife ==
  ASSUME WorldOK, channels' = W!TransitionOf(channels, Self, [kind |-> "Abort"])
  PROVE  WorldOK' /\ Life' \in Over
  <1> DEFINE t == [kind |-> "Abort"]
  <1>1. t \in W!Transitions /\ t.kind = "Abort" /\ W!Target(t) = "Aborted"
    BY DEF W!Transitions, W!Target
  <1> HIDE DEF t
  <1>2. channels' = W!TransitionOf(channels, Self, t)
    BY DEF t
  <1> QED BY <1>1, <1>2, TransitionLife, AcceptsLife DEF Over

LEMMA KillLife ==
  ASSUME WorldOK, channels' = W!KillOf(channels, Self)
  PROVE  WorldOK' /\ Life' = "gone"
  <1>1. Self \in W!KillSet(channels, Self)
    BY DEF W!KillSet
  <1>2. DOMAIN channels' = DOMAIN channels \ W!KillSet(channels, Self)
    BY DEF W!KillOf
  <1>3. DOMAIN channels' = {}
    BY <1>1, <1>2 DEF WorldOK
  <1>4. channels' = [c \in DOMAIN channels' |-> channels'[c]]
    BY DEF W!KillOf
  <1> QED BY <1>3, <1>4 DEF WorldOK, Life

LEMMA SameLife ==
  ASSUME UNCHANGED channels
  PROVE  Life' = Life /\ Awaited' = Awaited /\ (WorldOK => WorldOK')
  BY DEF Life, Awaited, WorldOK

\* The answer to a transition the runner asked for.
LEMMA RepliedLife ==
  ASSUME Typed, Replied
  PROVE  /\ WorldOK' /\ asked \in W!Transitions
         /\ Accepted =>
              /\ up /\ Life' = W!Target(asked)
              /\ Awaited' = IF asked.kind = "AwaitApproval" THEN asked.approval_id ELSE 0
         /\ ~Accepted => Life' = Life /\ Awaited' = Awaited
         /\ up => (Accepted <=> W!Accepts(channels, Self, asked))
  <1>1. asked \in W!Transitions
    BY DEF Typed, Replied
  <1>2. CASE Accepted
    BY <1>1, <1>2, TransitionLife DEF Typed, Replied, Accepted
  <1>3. CASE ~Accepted
    BY <1>1, <1>3, SameLife DEF Typed, Replied, Accepted
  <1> QED BY <1>1, <1>2, <1>3 DEF Accepted

-----------------------------------------------------------------------------
(* Sequences.                                                              *)

LEMMA Appended ==
  ASSUME NEW S, NEW s \in Seq(S), NEW x \in S
  PROVE  /\ Append(s, x) \in Seq(S) /\ Len(s) \in Nat
         /\ DOMAIN s = 1..Len(s) /\ DOMAIN Append(s, x) = 1..Len(s) + 1
         /\ \A i \in 1..Len(s) : Append(s, x)[i] = s[i]
         /\ Append(s, x)[Len(s) + 1] = x
         /\ Append(s, x) # <<>>
  OBVIOUS

LEMMA Tailed ==
  ASSUME NEW S, NEW s \in Seq(S), s # <<>>
  PROVE  /\ Tail(s) \in Seq(S) /\ Head(s) \in S /\ Head(s) = s[1] /\ Len(s) \in Nat \ {0}
         /\ DOMAIN s = 1..Len(s) /\ DOMAIN Tail(s) = 1..Len(s) - 1
         /\ \A i \in 1..Len(s) - 1 : Tail(s)[i] = s[i + 1]
  OBVIOUS

LEMMA Empty ==
  ASSUME NEW S
  PROVE  <<>> \in Seq(S) /\ DOMAIN <<>> = {}
  OBVIOUS

\* What the first event of a queue and the rest of it keep.
LEMMA TailKeeps ==
  ASSUME NEW q \in Queue, q # <<>>, NEW p \in Queue, NEW l \in Order, NEW n \in Nat
  PROVE  /\ Rising(q) => Rising(Tail(q)) /\ \A j \in DOMAIN Tail(q) : Head(q).n < Tail(q)[j].n
         /\ Logged(l, q) => Logged(l, Tail(q)) /\ \A i \in DOMAIN l : l[i] < Head(q).n
         /\ Sent(q, n) => Sent(Tail(q), n) /\ Head(q).n <= n
         /\ Before(q, p) => Before(Tail(q), p) /\ \A j \in DOMAIN p : Head(q).n < p[j].n
         /\ Before(p, q) => Before(p, Tail(q)) /\ \A j \in DOMAIN p : p[j].n < Head(q).n
  <1>1. /\ Head(q) = q[1] /\ Len(q) \in Nat \ {0}
        /\ DOMAIN q = 1..Len(q) /\ DOMAIN Tail(q) = 1..Len(q) - 1
        /\ \A i \in 1..Len(q) - 1 : Tail(q)[i] = q[i + 1]
    BY Tailed DEF Queue
  <1>2. 1 \in DOMAIN q /\ \A i \in DOMAIN Tail(q) : i + 1 \in DOMAIN q /\ 1 < i + 1
    BY <1>1
  <1>3. \A i, j \in DOMAIN Tail(q) : i < j => i + 1 < j + 1
    BY <1>1
  <1>4. \A i \in DOMAIN Tail(q) : Tail(q)[i] = q[i + 1]
    BY <1>1
  <1> QED BY <1>1, <1>2, <1>3, <1>4 DEF Rising, Logged, Sent, Before

\* An event put at the end of the log.
LEMMA LogAppend ==
  ASSUME NEW l \in Order, NEW m \in Nat, NEW n \in Nat, NEW q \in Queue,
         \A i, j \in DOMAIN l : i < j => l[i] < l[j], \A i \in DOMAIN l : l[i] < m, m <= n
  PROVE  /\ Append(l, m) \in Order
         /\ \A i, j \in DOMAIN Append(l, m) : i < j => Append(l, m)[i] < Append(l, m)[j]
         /\ (\A i \in DOMAIN l : l[i] <= n) => \A i \in DOMAIN Append(l, m) : Append(l, m)[i] <= n
         /\ Logged(l, q) /\ (\A j \in DOMAIN q : m < q[j].n) => Logged(Append(l, m), q)
  <1>1. /\ Append(l, m) \in Order /\ Len(l) \in Nat
        /\ DOMAIN l = 1..Len(l) /\ DOMAIN Append(l, m) = 1..Len(l) + 1
        /\ \A i \in 1..Len(l) : Append(l, m)[i] = l[i]
        /\ Append(l, m)[Len(l) + 1] = m
    BY Appended DEF Order
  <1>2. \A i \in DOMAIN Append(l, m) : i \in DOMAIN l \/ i = Len(l) + 1
    BY <1>1
  <1> DEFINE a == Append(l, m)
  <1> HIDE DEF a
  <1>3. \A i \in DOMAIN a : (i \in DOMAIN l /\ a[i] = l[i]) \/ (i = Len(l) + 1 /\ a[i] = m)
    BY <1>1, <1>2 DEF a
  <1>4. \A i, j \in DOMAIN a : i < j => a[i] < a[j]
    BY <1>1, <1>3
  <1>5. (\A i \in DOMAIN l : l[i] <= n) => \A i \in DOMAIN a : a[i] <= n
    BY <1>3
  <1>6. Logged(l, q) /\ (\A j \in DOMAIN q : m < q[j].n) => Logged(a, q)
    BY <1>3 DEF Logged
  <1> QED BY <1>1, <1>4, <1>5, <1>6 DEF a

\* An event put at the end of a queue.
LEMMA QueueAppend ==
  ASSUME NEW q \in Queue, NEW x \in Queued, NEW p \in Queue, NEW l \in Order, NEW n \in Nat
  PROVE  /\ Append(q, x) \in Queue
         /\ Rising(q) /\ (\A i \in DOMAIN q : q[i].n < x.n) => Rising(Append(q, x))
         /\ Logged(l, q) /\ (\A i \in DOMAIN l : l[i] < x.n) => Logged(l, Append(q, x))
         /\ Sent(q, n) /\ x.n <= n => Sent(Append(q, x), n)
         /\ Before(q, p) /\ (\A j \in DOMAIN p : x.n < p[j].n) => Before(Append(q, x), p)
         /\ Before(p, q) /\ (\A j \in DOMAIN p : p[j].n < x.n) => Before(p, Append(q, x))
  <1>1. /\ Append(q, x) \in Queue /\ Len(q) \in Nat
        /\ DOMAIN q = 1..Len(q) /\ DOMAIN Append(q, x) = 1..Len(q) + 1
        /\ \A i \in 1..Len(q) : Append(q, x)[i] = q[i]
        /\ Append(q, x)[Len(q) + 1] = x
    BY Appended DEF Queue
  <1> DEFINE a == Append(q, x)
  <1> HIDE DEF a
  <1>2. \A i \in DOMAIN a : (i \in DOMAIN q /\ a[i] = q[i]) \/ (i = Len(q) + 1 /\ a[i] = x)
    BY <1>1 DEF a
  <1>3. Rising(q) /\ (\A i \in DOMAIN q : q[i].n < x.n) => Rising(a)
    BY <1>1, <1>2 DEF Rising
  <1>4. Logged(l, q) /\ (\A i \in DOMAIN l : l[i] < x.n) => Logged(l, a)
    BY <1>2 DEF Logged
  <1>5. Sent(q, n) /\ x.n <= n => Sent(a, n)
    BY <1>2 DEF Sent
  <1>6. Before(q, p) /\ (\A j \in DOMAIN p : x.n < p[j].n) => Before(a, p)
    BY <1>2 DEF Before
  <1>7. Before(p, q) /\ (\A j \in DOMAIN p : p[j].n < x.n) => Before(p, a)
    BY <1>2 DEF Before
  <1> QED BY <1>1, <1>3, <1>4, <1>5, <1>6, <1>7 DEF a

LEMMA EmptyQueue ==
  /\ <<>> \in Queue /\ Rising(<<>>)
  /\ \A q : Before(<<>>, q) /\ Before(q, <<>>) /\ Logged(q, <<>>) /\ Logged(<<>>, q) /\ Sent(<<>>, q)
  BY DEF Queue, Rising, Before, Logged, Sent

-----------------------------------------------------------------------------
(* What each step does to the line of events.                              *)

LEMMA SentMore ==
  ASSUME NEW q \in Queue, NEW n \in Nat, Sent(q, n)
  PROVE  Sent(q, n + 1) /\ \A i \in DOMAIN q : q[i].n < n + 1
  <1>1. ASSUME NEW i \in DOMAIN q PROVE q[i].n <= n + 1 /\ q[i].n < n + 1
    <2>1. q[i] \in Queued
      BY DEF Queue
    <2>2. q[i].n \in Nat /\ q[i].n <= n
      BY <2>1 DEF Queued, Sent
    <2> QED BY <2>2
  <1> QED BY <1>1 DEF Sent

LEMMA SentLined ==
  ASSUME NEW l \in Order, NEW b \in Queue, NEW p \in Queue, NEW e \in Queue, NEW n \in Nat,
         NEW x \in Queued, x.n = n + 1, Lined(l, b, p, e, n)
  PROVE  Lined(l, b, p, Append(e, x), n + 1)
  <1>1. /\ Sent(b, n + 1) /\ \A i \in DOMAIN b : b[i].n < n + 1
        /\ Sent(p, n + 1) /\ \A i \in DOMAIN p : p[i].n < n + 1
        /\ Sent(e, n + 1) /\ \A i \in DOMAIN e : e[i].n < n + 1
    BY SentMore DEF Lined
  <1>2. \A i \in DOMAIN l : l[i] < n + 1 /\ l[i] <= n + 1
    <2>1. \A i \in DOMAIN l : l[i] \in Nat /\ l[i] <= n
      BY DEF Order, Lined
    <2> QED BY <2>1
  <1>3. /\ Rising(Append(e, x)) /\ Logged(l, Append(e, x))
        /\ Before(b, Append(e, x)) /\ Before(p, Append(e, x))
    BY <1>1, <1>2, QueueAppend DEF Lined
  <1>4. Sent(Append(e, x), n + 1)
    <2>1. x.n <= n + 1 /\ n + 1 \in Nat
      OBVIOUS
    <2> QED BY <1>1, <2>1, QueueAppend
  <1> QED BY <1>1, <1>2, <1>3, <1>4 DEF Lined

LEMMA TakenLined ==
  ASSUME NEW l \in Order, NEW b \in Queue, NEW p \in Queue, NEW e \in Queue, NEW n \in Nat,
         e # <<>>, Lined(l, b, p, e, n)
  PROVE  Lined(l, b, p, Tail(e), n)
  BY TailKeeps DEF Lined

LEMMA HeldLined ==
  ASSUME NEW l \in Order, NEW p \in Queue, NEW e \in Queue, NEW n \in Nat,
         e # <<>>, Lined(l, <<>>, p, e, n)
  PROVE  Lined(l, <<>>, Append(p, Head(e)), Tail(e), n)
  <1>1. Head(e) \in Queued /\ Tail(e) \in Queue
    BY Tailed DEF Queue
  <1>2. /\ Rising(Tail(e)) /\ Logged(l, Tail(e)) /\ Sent(Tail(e), n) /\ Head(e).n <= n
        /\ \A i \in DOMAIN l : l[i] < Head(e).n
        /\ \A j \in DOMAIN Tail(e) : Head(e).n < Tail(e)[j].n
        /\ Before(p, Tail(e)) /\ \A j \in DOMAIN p : p[j].n < Head(e).n
    BY TailKeeps DEF Lined
  <1>3. /\ Rising(Append(p, Head(e))) /\ Logged(l, Append(p, Head(e))) /\ Sent(Append(p, Head(e)), n)
        /\ Before(Append(p, Head(e)), Tail(e))
    BY <1>1, <1>2, QueueAppend DEF Lined
  <1> QED BY <1>2, <1>3, EmptyQueue DEF Lined

LEMMA ResumedLined ==
  ASSUME NEW l, NEW p, NEW e, NEW n, Lined(l, <<>>, p, e, n)
  PROVE  Lined(l, p, <<>>, e, n)
  BY EmptyQueue DEF Lined

\* The event just taken is a batch of one.
LEMMA SingleLined ==
  ASSUME NEW l \in Order, NEW e \in Queue, NEW n \in Nat,
         e # <<>>, Lined(l, <<>>, <<>>, e, n)
  PROVE  Lined(l, <<Head(e)>>, <<>>, Tail(e), n)
  <1>1. Lined(l, <<>>, Append(<<>>, Head(e)), Tail(e), n)
    BY HeldLined, EmptyQueue
  <1>2. Append(<<>>, Head(e)) = <<Head(e)>>
    OBVIOUS
  <1> QED BY <1>1, <1>2, ResumedLined

LEMMA DrainedLined ==
  ASSUME NEW l \in Order, NEW b \in Queue, NEW e \in Queue, NEW n \in Nat,
         b # <<>>, Lined(l, b, <<>>, e, n)
  PROVE  /\ Lined(Append(l, Head(b).n), Tail(b), <<>>, e, n)
         /\ Lined(l, Tail(b), <<>>, e, n)
  <1>1. Head(b).n \in Nat /\ Tail(b) \in Queue
    <2>1. Head(b) \in Queued /\ Tail(b) \in Queue
      BY Tailed DEF Queue
    <2> QED BY <2>1 DEF Queued
  <1>2. /\ Rising(Tail(b)) /\ Logged(l, Tail(b)) /\ Sent(Tail(b), n) /\ Head(b).n <= n
        /\ \A i \in DOMAIN l : l[i] < Head(b).n
        /\ \A j \in DOMAIN Tail(b) : Head(b).n < Tail(b)[j].n
        /\ Before(Tail(b), e) /\ \A j \in DOMAIN e : Head(b).n < e[j].n
    <2>1. Rising(b) /\ Logged(l, b) /\ Sent(b, n) /\ Before(b, e)
      BY DEF Lined
    <2> QED BY <2>1, TailKeeps
  <1>3. /\ Logged(Append(l, Head(b).n), Tail(b)) /\ Logged(Append(l, Head(b).n), e)
        /\ \A i, j \in DOMAIN Append(l, Head(b).n) :
             i < j => Append(l, Head(b).n)[i] < Append(l, Head(b).n)[j]
        /\ \A i \in DOMAIN Append(l, Head(b).n) : Append(l, Head(b).n)[i] <= n
    BY <1>1, <1>2, LogAppend DEF Lined
  <1> QED BY <1>2, <1>3, EmptyQueue DEF Lined

-----------------------------------------------------------------------------
(* Types.                                                                  *)

LEMMA InitTyped == Init => Typed
  <1> SUFFICES ASSUME Init PROVE Typed
    OBVIOUS
  <1>1. channels = W!CreateOf(<<>>, Self, W!default, "System")
    BY DEF Init
  <1>2. W!NewChannel(None, W!default, "System", <<>>) \in W!Channel
    BY DEF W!NewChannel, W!default, W!Channel, W!Config, W!MaxPrivilege, W!Standard, W!Elevated,
           W!ChannelState, None
  <1>3. channels = [c \in {Self} |-> W!NewChannel(None, W!default, "System", <<>>)]
    BY <1>1 DEF W!CreateOf, W!Insert
  <1>4. WorldOK
    BY <1>2, <1>3 DEF WorldOK
  <1>5. <<>> \in Ring /\ <<>> \in Queue /\ <<>> \in Order /\ <<>> \in Seq(Pattern)
    BY DEF Ring, Queue, Order
  <1> QED BY <1>4, <1>5 DEF Init, Typed, Places

LEMMA EnvironmentTyped ==
  ASSUME Typed, Environment \/ LateAbort
  PROVE  Typed'
  <1> USE DEF world, inbox, loop, user, asks, history
  <1>1. ASSUME NEW s \in Signal, SendSignal(s) PROVE Typed'
    <2>1. signals' \in Ring
      <3>1. CASE Len(signals) < SignalMax
        BY <1>1, <3>1, Appended DEF SendSignal, Typed, Ring
      <3>2. CASE ~(Len(signals) < SignalMax)
        <4>1. signals # <<>>
          BY <3>2, RunnerAssumption
        <4>2. Tail(signals) \in Ring
          BY <4>1, Tailed DEF Typed, Ring
        <4> QED BY <1>1, <3>2, <4>2, Appended DEF SendSignal, Ring
      <3> QED BY <3>1, <3>2
    <2>2. approved' \subseteq shown
      BY <1>1 DEF SendSignal, Typed
    <2> QED BY <1>1, <2>1, <2>2, SameLife DEF SendSignal, Typed
  <1>2. ASSUME NEW r \in Request, NEW wanted \in BOOLEAN, SendEvent(r, wanted) PROVE Typed'
    <2>1. [n |-> sentEvents + 1, r |-> r, wanted |-> wanted] \in Queued
      BY DEF Queued, Typed
    <2>2. events' \in Queue
      BY <1>2, <2>1, Appended DEF SendEvent, Typed, Queue
    <2> QED BY <1>2, <2>2, SameLife DEF SendEvent, Typed
  <1>3. ASSUME NEW r \in Request, SendRpc(r) PROVE Typed'
    BY <1>3, SameLife DEF SendRpc, Typed
  <1>4. ASSUME NEW which \in {"signals", "events"}, CloseSender(which) PROVE Typed'
    BY <1>4, SameLife DEF CloseSender, Typed
  <1>5. CASE Kill
    BY <1>5, KillLife DEF Kill, Typed
  <1>6. CASE ManagerStops
    BY <1>6, SameLife DEF ManagerStops, Typed
  <1>7. CASE LateAbort
    BY <1>7, AbortLife DEF LateAbort, Typed
  <1> QED BY <1>1, <1>2, <1>3, <1>4, <1>5, <1>6, <1>7 DEF Environment

LEMMA ReceiveTyped ==
  ASSUME Typed, RecvLagged \/ RecvClosed \/ RecvRpc \/ RecvEvent \/ \E s \in Signal : Handle(s)
  PROVE  Typed'
  <1> USE DEF world, inbox, loop, user, asks, history, Places
  <1>1. CASE RecvLagged
    BY <1>1, SameLife DEF RecvLagged, Typed
  <1>2. CASE RecvClosed
    BY <1>2, SameLife DEF RecvClosed, Typed
  <1>3. CASE RecvRpc
    BY <1>3, SameLife DEF RecvRpc, Typed
  <1>4. CASE RecvEvent
    <2>1. Head(events) \in Queued /\ events' \in Queue
      BY <1>4, Tailed DEF RecvEvent, Typed, Queue
    <2>2. Enqueued(Head(events)) \in Queue
      BY <2>1, Appended DEF Enqueued, Typed, Queue
    <2>3. <<Head(events)>> \in Queue
      BY <2>1 DEF Queue
    <2>4. paused' \in Queue /\ batch' \in Queue /\ pc' \in {"check", "process"}
      BY <1>4, <2>2, <2>3 DEF RecvEvent, Typed
    <2> QED BY <1>4, <2>1, <2>4, SameLife DEF RecvEvent, Typed
  <1>5. ASSUME NEW s \in Signal, Take(s) PROVE signals' \in Ring
    BY <1>5, Tailed DEF Take, Typed, Ring
  <1>6. ASSUME NEW s \in Signal, HandleNoop(s) PROVE Typed'
    BY <1>5, <1>6, SameLife DEF HandleNoop, Take, Typed
  <1>7. ASSUME NEW s \in Signal, HandleStop(s) PROVE Typed'
    BY <1>5, <1>7, SameLife DEF HandleStop, Take, Typed
  <1>8. ASSUME NEW s \in Signal, HandleReject(s) PROVE Typed'
    BY <1>5, <1>8, SameLife DEF HandleReject, Take, Typed
  <1>9. ASSUME NEW s \in Signal, HandleTransition(s) PROVE Typed'
    <2>1. /\ TransitionFor(s) \in W!Transitions /\ TransitionFor(s) # NoTransition
          /\ TransitionFor(s).kind # "AwaitApproval"
      BY <1>9 DEF HandleTransition, TransitionFor, Signal, Kind, W!Transitions, NoTransition
    <2> QED BY <1>5, <1>9, <2>1, SameLife DEF HandleTransition, Take, Typed
  <1> QED BY <1>1, <1>2, <1>3, <1>4, <1>6, <1>7, <1>8, <1>9 DEF Handle

LEMMA RestTyped ==
  ASSUME Typed,
         \/ ProcessEvent \/ Return \/ StopSelf \/ \E p \in Pattern : Suspend(p)
         \/ PauseReplied \/ ResumeReplied \/ ApproveReplied \/ AwaitReplied
         \/ AbortEnds \/ Check \/ Shutdown,
         pc = "process" => batch # <<>>
  PROVE  Typed'
  <1> USE DEF world, inbox, loop, user, asks, history, Places, AfterRequest
  <1>0. <<>> \in Queue
    BY EmptyQueue
  <1>1. CASE ProcessEvent
    <2>1. Head(batch) \in Queued /\ Tail(batch) \in Queue
      BY <1>1, Tailed DEF ProcessEvent, Typed, Queue
    <2>2. Head(batch).n \in Nat
      BY <2>1 DEF Queued
    <2>3. Append(log, Head(batch).n) \in Order
      BY <2>2, Appended DEF Typed, Order
    <2>4. log' \in Order /\ pc' \in {"check", "component", "process"}
      BY <1>1, <2>3 DEF ProcessEvent, Typed
    <2> QED BY <1>1, <2>1, <2>4, SameLife DEF ProcessEvent, Typed
  <1>2. CASE Return
    BY <1>2, SameLife DEF Return, Typed
  <1>3. CASE StopSelf
    <2>1. WorldOK'
      BY <1>3, AbortLife, SameLife DEF StopSelf, Typed
    <2> QED BY <1>3, <2>1 DEF StopSelf, Typed
  <1>4. ASSUME NEW p \in Pattern, Suspend(p) PROVE Typed'
    <2>1. Len(filed) \in Nat /\ MaxApprovals \in Nat
      BY RunnerAssumption DEF Typed
    <2>2. /\ asked' = [kind |-> "AwaitApproval", approval_id |-> Len(filed) + 1]
          /\ Len(filed) + 1 \in ApprovalId
      BY <1>4, <2>1 DEF Suspend, ApprovalId
    <2>3. asked' \in W!Transitions /\ asked' # NoTransition
      BY <2>2 DEF W!Transitions, NoTransition
    <2>4. /\ filed' \in Seq(Pattern) /\ DOMAIN filed \subseteq DOMAIN filed'
          /\ Len(filed) + 1 \in DOMAIN filed'
      BY <1>4, Appended DEF Suspend, Typed
    <2>5. overtaken' \subseteq DOMAIN filed'
      BY <1>4, <2>4 DEF Suspend, Typed
    <2> QED BY <1>4, <2>2, <2>3, <2>4, <2>5, SameLife DEF Suspend, Typed
  <1>5. ASSUME Replied PROVE /\ WorldOK' /\ asked' = NoTransition
                             /\ UNCHANGED <<up, late, inbox, approved, log, sentEvents>>
    BY <1>5, RepliedLife DEF Replied
  <1>6. CASE PauseReplied
    BY <1>5, <1>6 DEF PauseReplied, Typed
  <1>7. CASE ResumeReplied
    BY <1>0, <1>5, <1>7 DEF ResumeReplied, Typed
  <1>8. CASE ApproveReplied
    BY <1>5, <1>8 DEF ApproveReplied, Typed
  <1>9. CASE AwaitReplied
    <2>1. asked.approval_id \in DOMAIN filed
      BY <1>9 DEF AwaitReplied, Replied, Typed
    <2>2. shown \subseteq shown' /\ shown' \subseteq DOMAIN filed
      BY <1>9, <2>1 DEF AwaitReplied, Typed
    <2> QED BY <1>5, <1>9, <2>2 DEF AwaitReplied, Typed
  <1>10. CASE AbortEnds
    <2>1. WorldOK'
      BY <1>10, AbortLife, SameLife DEF AbortEnds, Typed
    <2> QED BY <1>10, <2>1 DEF AbortEnds, Typed
  <1>11. CASE Check
    BY <1>11, SameLife DEF Check, Typed
  <1>12. CASE Shutdown
    BY <1>12, SameLife DEF Shutdown, Typed
  <1> QED BY <1>1, <1>2, <1>3, <1>4, <1>6, <1>7, <1>8, <1>9, <1>10, <1>11, <1>12

-----------------------------------------------------------------------------
(* How a channel lives and ends.                                           *)

\* What the runner does between two messages to the World.
Quiet ==
  \/ RecvLagged \/ RecvClosed \/ RecvRpc \/ RecvEvent \/ (\E s \in Signal : Handle(s))
  \/ ProcessEvent \/ Return \/ (\E p \in Pattern : Suspend(p)) \/ Check \/ Shutdown

Answered == PauseReplied \/ ResumeReplied \/ ApproveReplied \/ AwaitReplied

LEMMA StepCases ==
  Step <=> Quiet \/ StopSelf \/ Answered \/ AbortEnds
  BY DEF Step, Quiet, Answered

LEMMA QuietWorld == Quiet => UNCHANGED world /\ UNCHANGED <<approved, shown, grants>>
  BY DEF Quiet, RecvLagged, RecvClosed, RecvRpc, RecvEvent, Handle, HandleNoop, HandleStop,
         HandleReject, HandleTransition, Take, ProcessEvent, Return, Suspend, Check, Shutdown,
         world, user, history

LEMMA AnsweredReplied ==
  Answered => Replied /\ asked.kind \in {"Pause", "Resume", "ResolveApproval", "AwaitApproval"}
  BY DEF Answered, PauseReplied, ResumeReplied, ApproveReplied, AwaitReplied

\* A step leaves the channel as it is, ends it, or is a transition the runner
\* asked for and the World accepted.
LEMMA StepLife ==
  ASSUME Typed, [Next]_vars
  PROVE  \/ Life' = Life /\ Awaited' = Awaited
         \/ Life' \in Over
         \/ Answered /\ Accepted /\ Life' = W!Target(asked) /\ Life \notin Over
  <1>0. WorldOK
    BY DEF Typed
  <1>1. CASE Environment
    BY <1>0, <1>1, SameLife, KillLife
    DEF Environment, SendSignal, SendEvent, SendRpc, CloseSender, Kill, ManagerStops, world, Over
  <1>2. CASE LateAbort
    BY <1>0, <1>2, AbortLife DEF LateAbort
  <1>3. CASE Quiet
    BY <1>3, QuietWorld, SameLife DEF world
  <1>4. CASE StopSelf
    BY <1>0, <1>4, AbortLife, SameLife DEF StopSelf
  <1>5. CASE AbortEnds
    BY <1>0, <1>5, AbortLife, SameLife DEF AbortEnds
  <1>6. CASE Answered
    <2>1. Replied /\ asked.kind \in {"Pause", "Resume", "ResolveApproval", "AwaitApproval"}
      BY <1>6, AnsweredReplied
    <2>2. CASE Accepted
      <3>1. /\ asked \in W!Transitions /\ Life' = W!Target(asked)
            /\ W!Accepts(channels, Self, asked)
        BY <2>1, <2>2, RepliedLife
      <3>2. Life \in {"Running", "Paused", "AwaitingApproval"}
        BY <1>0, <2>1, <3>1, AcceptsLife
      <3> QED BY <1>6, <2>2, <3>1, <3>2 DEF Over
    <2>3. CASE ~Accepted
      BY <2>1, <2>3, RepliedLife
    <2> QED BY <2>2, <2>3
  <1>7. CASE UNCHANGED vars
    BY <1>7, SameLife DEF vars, world
  <1> QED BY <1>1, <1>2, <1>3, <1>4, <1>5, <1>6, <1>7, StepCases DEF Next

\* A channel that is over stays so.
LEMMA OverStays ==
  ASSUME Typed, [Next]_vars, Life \in Over
  PROVE  Life' \in Over
  BY StepLife

LEMMA NextStopped ==
  ASSUME Typed, Stopped, [Next]_vars
  PROVE  Stopped'
  <1>0. WorldOK
    BY DEF Typed
  <1>1. CASE AbortEnds
    <2>1. CASE up /\ ~late /\ channels' = W!TransitionOf(channels, Self, [kind |-> "Abort"])
      BY <1>0, <2>1, AbortLife DEF Stopped
    <2>2. CASE late' = TRUE \/ ~up
      BY <1>1, <2>2 DEF AbortEnds, Stopped
    <2> QED BY <1>1, <2>1, <2>2 DEF AbortEnds
  <1>2. CASE LateAbort
    BY <1>0, <1>2, AbortLife DEF LateAbort, Stopped
  <1>3. CASE ManagerStops
    BY <1>3 DEF ManagerStops, Stopped
  <1>4. CASE StopSelf
    <2>1. exit' = exit /\ up' = up /\ (late' = late \/ late' = TRUE)
      BY <1>4 DEF StopSelf, loop
    <2> QED BY <2>1, OverStays DEF Stopped
  <1>5. CASE Quiet
    <2>1. UNCHANGED world
      BY <1>5, QuietWorld
    <2>2. exit' = exit \/ exit' # "Signal"
      BY <1>5
      DEF Quiet, RecvLagged, RecvClosed, RecvRpc, RecvEvent, Handle, HandleNoop, HandleStop,
          HandleReject, HandleTransition, ProcessEvent, Return, Suspend, Check, Shutdown
    <2> QED BY <2>1, <2>2, SameLife DEF Stopped, world
  <1>6. CASE Answered
    <2>1. UNCHANGED <<exit, up, late>>
      BY <1>6, AnsweredReplied DEF Replied
    <2> QED BY <2>1, OverStays DEF Stopped
  <1>7. CASE Environment
    <2>1. exit' = exit /\ (UNCHANGED <<up, late>> \/ ManagerStops)
      BY <1>7 DEF Environment, SendSignal, SendEvent, SendRpc, CloseSender, Kill, ManagerStops, loop, world
    <2> QED BY <1>3, <2>1, OverStays DEF Stopped
  <1>8. CASE UNCHANGED vars
    BY <1>8, OverStays DEF vars, world, loop, Stopped
  <1> QED BY <1>1, <1>2, <1>4, <1>5, <1>6, <1>7, <1>8, StepCases DEF Next

-----------------------------------------------------------------------------
(* The order of events, and the pause.                                     *)

\* A step that moves no event.
LEMMA Still ==
  ASSUME Typed, Draining, InOrder, UNCHANGED <<batch, paused, log, events, sentEvents>>,
         \/ Life' = Life
         \/ Life' \in Over
         \/ paused = <<>> /\ Life \notin Over /\ (batch = <<>> \/ Life' # "Paused"),
         up' => up,
         pc' = "process" => batch # <<>>,
         batch # <<>> =>
           pc' \in {"process", "component"} \/ (pc' = "transition" /\ asked'.kind = "AwaitApproval")
  PROVE  Draining' /\ InOrder'
  <1>1. Draining'
    BY DEF Draining, Over
  <1>2. InOrder'
    BY DEF InOrder
  <1> QED BY <1>1, <1>2

LEMMA EnvironmentDraining ==
  ASSUME Typed, Draining, InOrder, Environment \/ LateAbort \/ UNCHANGED vars
  PROVE  Draining' /\ InOrder'
  <1> USE DEF world, inbox, loop, user, asks, history
  <1>0. [Next]_vars
    BY DEF Next
  <1>1. ASSUME NEW r \in Request, NEW wanted \in BOOLEAN, SendEvent(r, wanted)
        PROVE  Draining' /\ InOrder'
    <2> DEFINE x == [n |-> sentEvents + 1, r |-> r, wanted |-> wanted]
    <2>1. x \in Queued /\ x.n = sentEvents + 1
      BY DEF Queued, Typed
    <2> HIDE DEF x
    <2>2. /\ events' = Append(events, x) /\ sentEvents' = sentEvents + 1
          /\ UNCHANGED <<channels, up, batch, paused, log, pc, asked>>
      BY <1>1 DEF SendEvent, x
    <2>3. Life' = Life
      BY <2>2, SameLife
    <2>4. InOrder'
      BY <2>1, <2>2, <2>3, SentLined DEF InOrder, Typed
    <2>5. Draining'
      BY <2>2, <2>3 DEF Draining
    <2> QED BY <2>4, <2>5
  <1>2. ASSUME UNCHANGED <<batch, paused, log, events, sentEvents, pc, asked>>, up' => up,
               Life' = Life \/ Life' \in Over
        PROVE  Draining' /\ InOrder'
    BY <1>2, Still DEF Draining
  <1>3. CASE \E s \in Signal : SendSignal(s)
    BY <1>2, <1>3, SameLife DEF SendSignal
  <1>4. CASE \E r \in Request : SendRpc(r)
    BY <1>2, <1>4, SameLife DEF SendRpc
  <1>5. CASE \E which \in {"signals", "events"} : CloseSender(which)
    BY <1>2, <1>5, SameLife DEF CloseSender
  <1>6. CASE Kill
    BY <1>2, <1>6, KillLife DEF Kill, Typed, Over
  <1>7. CASE ManagerStops
    BY <1>2, <1>7, SameLife DEF ManagerStops
  <1>8. CASE LateAbort
    BY <1>2, <1>8, AbortLife DEF LateAbort, Typed
  <1>9. CASE UNCHANGED vars
    BY <1>2, <1>9, SameLife DEF vars
  <1> QED BY <1>1, <1>3, <1>4, <1>5, <1>6, <1>7, <1>8, <1>9 DEF Environment

LEMMA QuietLife == ASSUME Quiet PROVE UNCHANGED <<channels, up, late>> /\ Life' = Life /\ Awaited' = Awaited
  BY QuietWorld, SameLife DEF world

LEMMA RecvEventDraining ==
  ASSUME Typed, Draining, InOrder, RecvEvent
  PROVE  Draining' /\ InOrder'
  <1> USE DEF inbox, history
  <1>0. /\ WorldOK /\ up' = up /\ Life' = Life
        /\ log \in Order /\ paused \in Queue /\ events \in Queue /\ sentEvents \in Nat
    BY QuietLife DEF Quiet, Typed
  <1>1. /\ batch = <<>> /\ log' = log
        /\ events # <<>> /\ events' = Tail(events) /\ sentEvents' = sentEvents
    BY DEF RecvEvent, Draining
  <1>2. Life \notin Over => Lined(log, <<>>, paused, events, sentEvents)
    BY <1>1 DEF InOrder
  <1>3. Life \notin Over => Lined(log, <<>>, paused, Tail(events), sentEvents)
    BY <1>0, <1>1, <1>2, TakenLined, EmptyQueue
  <1>4. CASE UNCHANGED <<batch, paused>> /\ pc' = "check"
    <2>1. InOrder'
      BY <1>0, <1>1, <1>3, <1>4 DEF InOrder
    <2>2. Draining'
      BY <1>0, <1>1, <1>4 DEF Draining
    <2> QED BY <2>1, <2>2
  <1>5. CASE IsPaused /\ paused' = Append(paused, Head(events)) /\ pc' = "check" /\ batch' = batch
    <2>1. Life = "Paused"
      BY <1>0, <1>5, LifeType
    <2>2. Life \notin Over => Lined(log, <<>>, Append(paused, Head(events)), Tail(events), sentEvents)
      BY <1>0, <1>1, <1>2, HeldLined
    <2>3. InOrder'
      BY <1>0, <1>1, <1>5, <2>2 DEF InOrder
    <2>4. Draining'
      BY <1>0, <1>1, <1>5, <2>1 DEF Draining
    <2> QED BY <2>3, <2>4
  <1>6. CASE ~IsPaused /\ paused' = paused /\ pc' = "process" /\ batch' = <<Head(events)>>
    <2>1. Life # "Paused"
      BY <1>0, <1>6, LifeType
    <2>2. Life \notin Over => paused = <<>>
      BY <2>1 DEF Draining
    <2>3. Life \notin Over => Lined(log, <<Head(events)>>, <<>>, Tail(events), sentEvents)
      BY <1>0, <1>1, <1>2, <2>2, SingleLined
    <2>4. InOrder'
      BY <1>0, <1>1, <1>6, <2>2, <2>3 DEF InOrder
    <2>5. Draining'
      BY <1>0, <1>1, <1>6, <2>1, <2>2 DEF Draining
    <2> QED BY <2>4, <2>5
  <1> QED BY <1>4, <1>5, <1>6 DEF RecvEvent, Enqueued

LEMMA ProcessEventDraining ==
  ASSUME Typed, Draining, InOrder, ProcessEvent
  PROVE  Draining' /\ InOrder'
  <1> USE DEF inbox, history
  <1>0. /\ up' = up /\ Life' = Life
        /\ log \in Order /\ batch \in Queue /\ events \in Queue /\ sentEvents \in Nat
    BY QuietLife DEF Quiet, Typed
  <1>1. /\ batch # <<>> /\ (Life \notin Over => paused = <<>>) /\ (up => Life # "Paused")
        /\ batch' = Tail(batch) /\ UNCHANGED <<paused, events, sentEvents>>
        /\ log' = log \/ log' = Append(log, Head(batch).n)
        /\ pc' = "component" \/ pc' = AfterRequest(Tail(batch))
    BY DEF ProcessEvent, Draining
  <1>2. Life \notin Over => Lined(log, batch, <<>>, events, sentEvents)
    BY <1>1 DEF InOrder
  <1>3. Life \notin Over => /\ Lined(Append(log, Head(batch).n), Tail(batch), <<>>, events, sentEvents)
                            /\ Lined(log, Tail(batch), <<>>, events, sentEvents)
    BY <1>0, <1>1, <1>2, DrainedLined
  <1>4. InOrder'
    BY <1>0, <1>1, <1>3 DEF InOrder
  <1>5. Draining'
    BY <1>0, <1>1 DEF Draining, AfterRequest
  <1> QED BY <1>4, <1>5

LEMMA QuietDraining ==
  ASSUME Typed, Draining, InOrder, Quiet
  PROVE  Draining' /\ InOrder'
  <1> USE DEF inbox, history
  <1>0. up' = up /\ Life' = Life
    BY QuietLife
  <1>1. ASSUME UNCHANGED <<batch, paused, log, events, sentEvents>>, batch = <<>>, pc' # "process"
        PROVE  Draining' /\ InOrder'
    BY <1>0, <1>1, Still
  <1>2. CASE RecvLagged \/ RecvClosed \/ RecvRpc \/ Check \/ Shutdown
    BY <1>1, <1>2 DEF RecvLagged, RecvClosed, RecvRpc, Check, Shutdown, Draining
  <1>3. CASE \E s \in Signal : Handle(s)
    BY <1>1, <1>3 DEF Handle, HandleNoop, HandleStop, HandleReject, HandleTransition, Take, Draining
  <1>4. CASE Return
    <2>1. UNCHANGED <<batch, paused, log, events, sentEvents>> /\ pc' = AfterRequest(batch)
      BY <1>4 DEF Return
    <2> QED BY <1>0, <2>1, Still DEF AfterRequest
  <1>5. CASE \E p \in Pattern : Suspend(p)
    <2>1. /\ UNCHANGED <<batch, paused, log, events, sentEvents>>
          /\ pc' = "transition" /\ asked'.kind = "AwaitApproval"
      BY <1>5 DEF Suspend
    <2> QED BY <1>0, <2>1, Still
  <1> QED BY <1>2, <1>3, <1>4, <1>5, RecvEventDraining, ProcessEventDraining DEF Quiet

LEMMA ResumeDraining ==
  ASSUME Typed, Draining, InOrder, ResumeReplied
  PROVE  Draining' /\ InOrder'
  <1> USE DEF inbox, history
  <1>0. WorldOK /\ Replied /\ asked.kind = "Resume"
    BY DEF Typed, ResumeReplied
  <1>1. /\ asked \in W!Transitions
        /\ Accepted => Life' = W!Target(asked)
        /\ ~Accepted => Life' = Life
        /\ up => (Accepted <=> W!Accepts(channels, Self, asked))
    BY <1>0, RepliedLife
  <1>2. W!Accepts(channels, Self, asked) <=> Life = "Paused"
    BY <1>0, <1>1, AcceptsLife
  <1>3. W!Target(asked) = "Running"
    BY <1>0 DEF W!Target
  <1>4. /\ batch = <<>> /\ batch' = paused /\ paused' = <<>> /\ pc' = AfterRequest(paused)
        /\ UNCHANGED <<log, events, sentEvents, up>>
    BY <1>0 DEF ResumeReplied, Replied, Draining
  <1>5. up => Life' # "Paused"
    BY <1>1, <1>2, <1>3
  <1>6. Life' \notin Over => Life \notin Over
    BY <1>1, <1>2 DEF Over, Accepted
  <1>7. InOrder'
    BY <1>4, <1>6, ResumedLined DEF InOrder
  <1>8. Draining'
    BY <1>4, <1>5 DEF Draining, AfterRequest
  <1> QED BY <1>7, <1>8

LEMMA AnsweredDraining ==
  ASSUME Typed, Draining, InOrder, Answered, ~ResumeReplied
  PROVE  Draining' /\ InOrder'
  <1> USE DEF inbox, history
  <1>0. /\ WorldOK /\ Replied /\ asked.kind \in {"Pause", "ResolveApproval", "AwaitApproval"}
        /\ up' = up /\ pc = "transition"
    BY DEF Typed, Answered, PauseReplied, ApproveReplied, AwaitReplied, Replied
  <1>1. /\ asked \in W!Transitions
        /\ Accepted => up /\ Life' = W!Target(asked)
        /\ ~Accepted => Life' = Life
        /\ up => (Accepted <=> W!Accepts(channels, Self, asked))
    BY <1>0, RepliedLife
  <1>2. Accepted => Life \in {"Running", "AwaitingApproval"}
    BY <1>0, <1>1, AcceptsLife DEF Accepted
  <1>3. Accepted => paused = <<>> /\ Life \notin Over
    BY <1>2 DEF Draining, Over
  <1>4. asked.kind # "AwaitApproval" => batch = <<>>
    BY <1>0 DEF Draining
  <1>5. asked.kind = "AwaitApproval" => W!Target(asked) # "Paused"
    BY DEF W!Target
  <1>6. /\ UNCHANGED <<batch, paused, log, events, sentEvents>>
        /\ (pc' \in {"check", "component"} /\ asked.kind # "AwaitApproval") \/ pc' = AfterRequest(batch)
    BY <1>0 DEF Answered, PauseReplied, ApproveReplied, AwaitReplied, Replied
  <1>7. \/ Life' = Life
        \/ paused = <<>> /\ Life \notin Over /\ (batch = <<>> \/ Life' # "Paused")
    BY <1>1, <1>3, <1>4, <1>5
  <1>8. /\ pc' = "process" => batch # <<>>
        /\ batch # <<>> => pc' \in {"process", "component"}
    BY <1>4, <1>6 DEF AfterRequest
  <1> QED BY <1>0, <1>6, <1>7, <1>8, Still

LEMMA NextDraining ==
  ASSUME Typed, Draining, InOrder, [Next]_vars
  PROVE  Draining' /\ InOrder'
  <1> USE DEF inbox, history
  <1>0. WorldOK
    BY DEF Typed
  <1>1. CASE StopSelf
    <2>1. UNCHANGED <<batch, paused, log, events, sentEvents, pc, asked, up>>
      BY <1>1 DEF StopSelf, loop
    <2>2. Life' = Life \/ Life' \in Over
      BY <1>0, <1>1, AbortLife, SameLife DEF StopSelf
    <2> QED BY <2>1, <2>2, Still DEF Draining
  <1>2. CASE AbortEnds
    <2>1. /\ UNCHANGED <<batch, paused, log, events, sentEvents, up>>
          /\ batch = <<>> /\ pc' \in {"stopping", "check"}
      BY <1>2 DEF AbortEnds, Draining
    <2>2. Life' = Life \/ Life' \in Over
      BY <1>0, <1>2, AbortLife, SameLife DEF AbortEnds
    <2> QED BY <2>1, <2>2, Still
  <1> QED BY <1>1, <1>2, QuietDraining, ResumeDraining, AnsweredDraining, EnvironmentDraining, StepCases
      DEF Next, Answered

-----------------------------------------------------------------------------
(* The invariant of every behaviour.                                       *)

LEMMA NextTyped ==
  ASSUME Typed, Draining, [Next]_vars
  PROVE  Typed'
  <1>1. CASE UNCHANGED vars
    BY <1>1, SameLife DEF vars, world, inbox, loop, user, asks, history, Typed
  <1> QED BY <1>1, EnvironmentTyped, ReceiveTyped, RestTyped DEF Next, Step, Draining

LEMMA InitInv == Init => Inv
  <1> SUFFICES ASSUME Init PROVE Inv
    OBVIOUS
  <1>1. Stopped /\ Draining
    BY DEF Init, Stopped, Draining, None
  <1>2. InOrder
    BY EmptyQueue DEF Init, InOrder, Lined, Order
  <1> QED BY <1>1, <1>2, InitTyped DEF Inv

LEMMA NextInv == Inv /\ [Next]_vars => Inv'
  <1> SUFFICES ASSUME Inv, [Next]_vars PROVE Inv'
    OBVIOUS
  <1>1. Typed /\ Stopped /\ Draining /\ InOrder
    BY DEF Inv
  <1> QED BY <1>1, NextTyped, NextStopped, NextDraining DEF Inv

LEMMA SpecInv == Spec => []Inv
  BY InitInv, NextInv, PTL DEF Spec

\* A runner that a signal stopped does not leave a live channel behind, whatever
\* was queued at the WorldManager when its abort timed out.
THEOREM SpecStopLeavesTerminal == Spec => []StopLeavesTerminal
  <1>1. Inv => StopLeavesTerminal
    BY LifeType DEF Inv, Typed, Stopped, StopLeavesTerminal
  <1> QED BY <1>1, SpecInv, PTL

\* The component of a live channel sees its events in the order they were sent,
\* through any number of pauses, overflows of the paused queue and drains that a
\* suspension interrupts.
THEOREM SpecDeliveryInOrder == Spec => []DeliveryInOrder
  <1>1. Inv => DeliveryInOrder
    BY LifeType DEF Inv, Typed, InOrder, Lined, DeliveryInOrder
  <1> QED BY <1>1, SpecInv, PTL

\* As long as the WorldManager answers, no event reaches the component of a channel
\* that the World has paused, from the buffer or from a drain.
THEOREM SpecPauseHolds == Spec => PauseHolds
  <1> DEFINE Held == log' # log /\ Self \in DOMAIN channels /\ channels[Self].state = "Paused" => ~up
  <1>1. Inv /\ [Next]_vars => [Held]_vars
    <2> SUFFICES ASSUME Inv, Next, log' # log, Life = "Paused" PROVE ~up
      BY DEF Held, Life
    <2>1. ProcessEvent
      BY DEF Next, Step, RecvLagged, RecvClosed, RecvRpc, RecvEvent, Handle, HandleNoop, HandleStop,
             HandleReject, HandleTransition, Take, Return, StopSelf, Suspend,
             PauseReplied, ResumeReplied, ApproveReplied, AwaitReplied, Replied, AbortEnds, Check,
             Shutdown, LateAbort, Environment, SendSignal, SendEvent, SendRpc, CloseSender, Kill,
             ManagerStops, history
    <2> QED BY <2>1 DEF ProcessEvent, Inv, Draining
  <1> QED BY <1>1, SpecInv, PTL DEF Spec, PauseHolds

-----------------------------------------------------------------------------
(* Approvals.                                                              *)

LEMMA InitRouted == Init => Routed
  <1> SUFFICES ASSUME Init PROVE Routed
    OBVIOUS
  <1>1. Life # "AwaitingApproval"
    BY DEF Init, Life, W!CreateOf, W!Insert, W!NewChannel
  <1>2. \A i \in DOMAIN signals : signals[i].kind = "Approve" => signals[i].id \in approved
    BY Empty DEF Init
  <1> QED BY <1>1, <1>2 DEF Init, Routed

LEMMA EnvironmentRouted ==
  ASSUME Typed, Routed, Environment \/ LateAbort
  PROVE  Routed'
  <1> USE DEF world, inbox, loop, user, asks, history
  <1>1. ASSUME NEW s \in Signal, SendSignal(s) PROVE Routed'
    <2> DEFINE Sane(q, a) == \A i \in DOMAIN q : q[i].kind = "Approve" => q[i].id \in a
    <2>1. /\ approved \subseteq approved'
          /\ s.kind = "Approve" => s.id \in approved'
          /\ UNCHANGED <<channels, up, late, pc, asked, pending, grants, asks>>
      BY <1>1 DEF SendSignal
    <2>2. \A q \in Ring : Sane(q, approved) => Sane(Append(q, s), approved')
      <3> SUFFICES ASSUME NEW q \in Ring, Sane(q, approved) PROVE Sane(Append(q, s), approved')
        OBVIOUS
      <3>1. /\ DOMAIN q = 1..Len(q) /\ DOMAIN Append(q, s) = 1..Len(q) + 1 /\ Len(q) \in Nat
            /\ \A i \in 1..Len(q) : Append(q, s)[i] = q[i]
            /\ Append(q, s)[Len(q) + 1] = s
        BY Appended DEF Ring
      <3>2. \A i \in DOMAIN Append(q, s) : i \in DOMAIN q \/ i = Len(q) + 1
        BY <3>1
      <3> QED BY <2>1, <3>1, <3>2
    <2>3. signals # <<>> /\ Sane(signals, approved) => Tail(signals) \in Ring /\ Sane(Tail(signals), approved)
      <3> SUFFICES ASSUME signals # <<>>, Sane(signals, approved)
                   PROVE  Tail(signals) \in Ring /\ Sane(Tail(signals), approved)
        OBVIOUS
      <3>1. /\ Tail(signals) \in Ring /\ Len(signals) \in Nat \ {0}
            /\ DOMAIN signals = 1..Len(signals) /\ DOMAIN Tail(signals) = 1..Len(signals) - 1
            /\ \A i \in 1..Len(signals) - 1 : Tail(signals)[i] = signals[i + 1]
        BY Tailed DEF Typed, Ring
      <3> QED BY <3>1
    <2>4. ~(Len(signals) < SignalMax) => signals # <<>>
      BY RunnerAssumption
    <2>5. Sane(signals, approved)
      BY DEF Routed
    <2>6. signals' = Append(signals, s)
          \/ (~(Len(signals) < SignalMax) /\ signals' = Append(Tail(signals), s))
      BY <1>1 DEF SendSignal
    <2>7. Sane(signals', approved')
      BY <2>2, <2>3, <2>4, <2>5, <2>6 DEF Typed
    <2>8. Life' = Life /\ Awaited' = Awaited
      BY <2>1, SameLife
    <2>9. grants' \subseteq {filed'[a] : a \in approved' \cup overtaken'}
      BY <2>1 DEF Routed, asks
    <2>10. pc = "transition" /\ asked.kind = "ResolveApproval" => asked.approval_id \in approved'
      BY <2>1 DEF Routed
    <2> QED BY <2>1, <2>7, <2>8, <2>9, <2>10 DEF Routed, asks
  <1>2. ASSUME UNCHANGED <<signals, pc, asked, pending, grants, asks, approved>>,
               \/ UNCHANGED <<channels, up, late>>
               \/ ~up' \/ Life' \in Over
        PROVE  Routed'
    BY <1>2, SameLife DEF Routed, Over, asks
  <1>3. CASE \E r \in Request, wanted \in BOOLEAN : SendEvent(r, wanted)
    BY <1>2, <1>3 DEF SendEvent
  <1>4. CASE \E r \in Request : SendRpc(r)
    BY <1>2, <1>4 DEF SendRpc
  <1>5. CASE \E which \in {"signals", "events"} : CloseSender(which)
    BY <1>2, <1>5 DEF CloseSender
  <1>6. CASE Kill
    BY <1>2, <1>6, KillLife DEF Kill, Typed, Over
  <1>7. CASE ManagerStops
    BY <1>2, <1>7 DEF ManagerStops
  <1>8. CASE LateAbort
    BY <1>2, <1>8, AbortLife DEF LateAbort, Typed
  <1> QED BY <1>1, <1>3, <1>4, <1>5, <1>6, <1>7, <1>8 DEF Environment

LEMMA QuietRouted ==
  ASSUME Typed, Routed, Quiet
  PROVE  Routed'
  <1> USE DEF inbox, user, history
  <1>0. UNCHANGED <<channels, up, late, approved, grants>> /\ Life' = Life /\ Awaited' = Awaited
    BY QuietLife, QuietWorld
  <1>1. ASSUME UNCHANGED <<signals, pending, asks>>, pc' # "transition" \/ UNCHANGED <<pc, asked>>
        PROVE  Routed'
    BY <1>0, <1>1 DEF Routed, asks
  <1>2. CASE RecvLagged \/ RecvClosed \/ RecvRpc \/ RecvEvent \/ ProcessEvent \/ Return \/ Check \/ Shutdown
    BY <1>1, <1>2
    DEF RecvLagged, RecvClosed, RecvRpc, RecvEvent, ProcessEvent, Return, AfterRequest, Check, Shutdown
  <1>3. ASSUME NEW s \in Signal, Take(s)
        PROVE  /\ \A i \in DOMAIN signals' : signals'[i].kind = "Approve" => signals'[i].id \in approved'
               /\ s.kind = "Approve" => s.id \in approved'
    <2>1. /\ s = signals[1] /\ signals' = Tail(signals) /\ Len(signals) \in Nat \ {0}
          /\ DOMAIN signals = 1..Len(signals) /\ DOMAIN Tail(signals) = 1..Len(signals) - 1
          /\ \A i \in 1..Len(signals) - 1 : Tail(signals)[i] = signals[i + 1]
      BY <1>3, Tailed DEF Take, Typed, Ring
    <2> QED BY <1>0, <2>1 DEF Routed
  <1>4. CASE \E s \in Signal : HandleNoop(s) \/ HandleStop(s) \/ HandleReject(s)
    <2>1. UNCHANGED <<pending, asks>> /\ pc' # "transition"
      BY <1>4 DEF HandleNoop, HandleStop, HandleReject, Take
    <2>2. \A i \in DOMAIN signals' : signals'[i].kind = "Approve" => signals'[i].id \in approved'
      BY <1>3, <1>4 DEF HandleNoop, HandleStop, HandleReject
    <2> QED BY <1>0, <2>1, <2>2 DEF Routed, asks
  <1>5. ASSUME NEW s \in Signal, HandleTransition(s) PROVE Routed'
    <2>1. UNCHANGED <<pending, asks>> /\ asked' = TransitionFor(s) /\ s.kind \in {"Pause", "Resume", "Approve"}
      BY <1>5 DEF HandleTransition, Take
    <2>2. /\ asked'.kind # "AwaitApproval"
          /\ asked'.kind = "ResolveApproval" => s.kind = "Approve" /\ asked'.approval_id = s.id
      BY <2>1 DEF TransitionFor
    <2>3. /\ \A i \in DOMAIN signals' : signals'[i].kind = "Approve" => signals'[i].id \in approved'
          /\ s.kind = "Approve" => s.id \in approved'
      BY <1>3, <1>5 DEF HandleTransition
    <2> QED BY <1>0, <2>1, <2>2, <2>3 DEF Routed, asks
  <1>6. ASSUME NEW p \in Pattern, Suspend(p) PROVE Routed'
    <2>1. /\ Len(filed) \in Nat /\ DOMAIN filed = 1..Len(filed) /\ DOMAIN filed' = 1..Len(filed) + 1
          /\ \A a \in 1..Len(filed) : filed'[a] = filed[a]
          /\ filed'[Len(filed) + 1] = p
      BY <1>6, Appended DEF Suspend, Typed
    <2>2. /\ pending' = [id |-> Len(filed) + 1, pattern |-> p, request |-> current]
          /\ asked' = [kind |-> "AwaitApproval", approval_id |-> Len(filed) + 1]
          /\ overtaken' = IF pending = NoPending THEN overtaken ELSE overtaken \cup {Len(filed) + 1}
          /\ UNCHANGED signals
      BY <1>6 DEF Suspend
    <2>3. /\ pending' # NoPending /\ pending'.id = Len(filed) + 1 /\ pending'.pattern = p
          /\ asked'.kind = "AwaitApproval" /\ asked'.approval_id = Len(filed) + 1
      BY <2>1, <2>2 DEF NoPending
    <2>4. approved \cup overtaken \subseteq DOMAIN filed /\ WorldOK
      BY DEF Typed
    <2>5. grants' \subseteq {filed'[a] : a \in approved' \cup overtaken'}
      BY <1>0, <2>1, <2>2, <2>4 DEF Routed
    <2>6. up /\ ~late /\ Life = "AwaitingApproval" =>
            pending'.id > Awaited /\ pending'.id \in overtaken'
      <3> SUFFICES ASSUME up, ~late, Life = "AwaitingApproval"
                   PROVE  pending'.id > Awaited /\ pending'.id \in overtaken'
        OBVIOUS
      <3>1. pending # NoPending /\ (pending.id = Awaited \/ pending.id > Awaited)
            /\ pending.id \in 1..Len(filed)
        BY <2>1 DEF Routed
      <3>2. Awaited \in Nat
        BY <2>4, LifeType DEF ApprovalId
      <3> QED BY <2>1, <2>2, <2>3, <3>1, <3>2
    <2>7. pending'.id \in DOMAIN filed' /\ pending'.pattern = filed'[pending'.id]
      BY <2>1, <2>3
    <2> QED BY <1>0, <2>2, <2>3, <2>5, <2>6, <2>7 DEF Routed
  <1> QED BY <1>2, <1>4, <1>5, <1>6 DEF Quiet, Handle

LEMMA AnsweredRouted ==
  ASSUME Typed, Routed, Answered
  PROVE  Routed'
  <1> USE DEF inbox, history
  <1>0. /\ Replied /\ asked.kind \in {"Pause", "Resume", "ResolveApproval", "AwaitApproval"}
        /\ WorldOK
    BY AnsweredReplied DEF Typed
  <1>1. /\ UNCHANGED <<up, late, signals, approved>> /\ ~late /\ pc = "transition"
        /\ asked' = NoTransition /\ asked'.kind = "none"
    BY <1>0 DEF Replied, NoTransition
  <1>2. /\ asked \in W!Transitions
        /\ Accepted => /\ up /\ Life' = W!Target(asked)
                       /\ Awaited' = IF asked.kind = "AwaitApproval" THEN asked.approval_id ELSE 0
        /\ ~Accepted => Life' = Life /\ Awaited' = Awaited
        /\ up => (Accepted <=> W!Accepts(channels, Self, asked))
    BY <1>0, RepliedLife
  <1>3. /\ asked.kind = "AwaitApproval" => W!Target(asked) = "AwaitingApproval"
        /\ asked.kind # "AwaitApproval" => W!Target(asked) # "AwaitingApproval"
    BY <1>0 DEF W!Target
  <1>4. CASE PauseReplied \/ ResumeReplied
    <2>1. UNCHANGED <<pending, grants, asks>> /\ asked.kind # "AwaitApproval"
      BY <1>4 DEF PauseReplied, ResumeReplied, user
    <2> QED BY <1>1, <1>2, <1>3, <2>1 DEF Routed, asks
  <1>5. CASE ApproveReplied
    <2>1. asked.kind = "ResolveApproval" /\ UNCHANGED asks
      BY <1>5 DEF ApproveReplied
    <2>2. Accepted => /\ pending # NoPending /\ pending.id \in approved \cup overtaken
                      /\ pending.pattern = filed[pending.id]
      <3>1. Accepted => up /\ Life = "AwaitingApproval" /\ Awaited = asked.approval_id
        BY <1>0, <1>2, <2>1, AcceptsLife
      <3>2. asked.approval_id \in approved
        BY <1>1, <2>1 DEF Routed
      <3>3. Accepted => pending # NoPending /\ (pending.id = Awaited \/ pending.id \in overtaken)
        BY <1>1, <3>1 DEF Routed
      <3> QED BY <3>1, <3>2, <3>3 DEF Routed
    <2>3. CASE Accepted
      <3>1. grants' = grants \cup {pending.pattern} /\ pending' = NoPending
        BY <1>5, <2>2, <2>3 DEF ApproveReplied
      <3>2. grants' \subseteq {filed'[a] : a \in approved' \cup overtaken'}
        BY <1>1, <2>1, <2>2, <2>3, <3>1 DEF Routed, asks
      <3> QED BY <1>1, <1>2, <1>3, <2>1, <2>3, <3>1, <3>2 DEF Routed, asks
    <2>4. CASE ~Accepted
      <3>1. UNCHANGED <<grants, pending>>
        BY <1>5, <2>4 DEF ApproveReplied
      <3> QED BY <1>1, <1>2, <2>1, <2>4, <3>1 DEF Routed, asks
    <2> QED BY <2>3, <2>4
  <1>6. CASE AwaitReplied
    <2>1. /\ UNCHANGED <<pending, grants, asks>> /\ asked.kind = "AwaitApproval"
      BY <1>6 DEF AwaitReplied
    <2>2. pending # NoPending /\ pending.id = asked.approval_id
      BY <1>1, <2>1 DEF Routed
    <2>3. Accepted => Awaited' = pending.id
      BY <1>2, <2>1, <2>2
    <2> QED BY <1>1, <1>2, <2>1, <2>2, <2>3 DEF Routed, asks
  <1> QED BY <1>4, <1>5, <1>6 DEF Answered

LEMMA NextRouted == Inv /\ Routed /\ [Next]_vars => Routed'
  <1> SUFFICES ASSUME Typed, Routed, [Next]_vars PROVE Routed'
    BY DEF Inv
  <1> USE DEF inbox, loop, user, asks, history
  <1>0. WorldOK
    BY DEF Typed
  <1>1. CASE UNCHANGED vars
    BY <1>1, SameLife DEF vars, world, Routed, asks
  <1>2. CASE StopSelf
    <2>1. UNCHANGED <<signals, pc, asked, pending, grants, asks, approved, up>>
      BY <1>2 DEF StopSelf
    <2>2. late' = TRUE \/ ~up \/ Life' \in Over
      BY <1>0, <1>2, AbortLife DEF StopSelf
    <2> QED BY <2>1, <2>2 DEF Routed, Over, asks
  <1>3. CASE AbortEnds
    <2>1. /\ UNCHANGED <<signals, grants, asks, approved, up>> /\ pc' \in {"stopping", "check"}
          /\ pending' \in {pending, NoPending}
      BY <1>3 DEF AbortEnds
    <2>2. late' = TRUE \/ ~up \/ Life' \in Over
      BY <1>0, <1>3, AbortLife DEF AbortEnds
    <2> QED BY <2>1, <2>2 DEF Routed, Over, asks
  <1>4. CASE Quiet
    BY <1>4, QuietRouted
  <1> QED BY <1>1, <1>2, <1>3, <1>4, EnvironmentRouted, AnsweredRouted, StepCases DEF Next

LEMMA SpecRouted == Spec => []Routed
  <1>1. Init => Routed
    BY InitRouted
  <1>2. Inv /\ Routed /\ [Next]_vars => Routed'
    BY NextRouted
  <1> QED BY <1>1, <1>2, SpecInv, PTL DEF Spec

\* A permission is granted only when the user, who had been shown the request for
\* it, approved that request, or when the request was suspended while another one
\* waited.
THEOREM SpecGrantsApproved == Spec => []GrantsApproved
  <1>1. Inv /\ Routed => GrantsApproved
    BY DEF Inv, Typed, Routed, GrantsApproved
  <1> QED BY <1>1, SpecInv, SpecRouted, PTL

\* While the World waits for an approval, the runner at its select holds the
\* request that approval is for, or one that was suspended after it and took its
\* place.
THEOREM SpecApprovalRoutes == Spec => []ApprovalRoutes
  <1>1. Inv /\ Routed => ApprovalRoutes
    BY LifeType DEF Inv, Typed, Routed, ApprovalRoutes
  <1> QED BY <1>1, SpecInv, SpecRouted, PTL
=============================================================================
