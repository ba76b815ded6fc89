---------------------------- MODULE ChildrenProofs ----------------------------
(***************************************************************************)
(* The children of a runner, for any number of children, threads, calls    *)
(* and signals.  The stacks of the threads obey a grammar (Chain), which   *)
(* says what may call what; TableHeld and LocksHeld tie the mutexes to the *)
(* frames on the stacks; Pending follows the children there were when the  *)
(* stop came through the visits of abort_all.  For the absence of          *)
(* deadlock, Rooted and Joined follow who waits for the threads of a       *)
(* batch.  Unserved keeps count of the scripts that were sent for.         *)
(***************************************************************************)
EXTENDS Children, FiniteSetTheorems, SequenceTheorems, TLAPS

Has(s, F) == \E i \in DOMAIN s : s[i] \in F
One(s, F) == \A i, j \in DOMAIN s : s[i] \in F /\ s[j] \in F => i = j

CallAt == {"spawn", "send", "async", "batch", "sending", "join"}

FrameSet ==
  [at : CallAt \cup {"script", "run", "tell", "abort"},
   child : Script, rest : SUBSET (Child \cup Thread)]

Sending == {f \in FrameSet : f.at = "sending"}
ScriptOf(c) == {Frame("script", c, {})}

\* The operation a frame is part of.
OpOf(at) == IF at = "sending" THEN "send" ELSE IF at = "join" THEN "batch" ELSE at

\* f may lie on top of g: a call on the script that makes it, a child's script
\* on what runs it, propagate_signal on the abort_all that follows.
OnTop(f, g) ==
  \/ /\ g.at = "script" /\ f.at \in CallAt
     /\ <<g.child, OpOf(f.at), f.child>> \in Calls
     /\ f.at = "batch" => f.rest = BatchOf(g.child)
  \/ g.at \in {"sending", "run"} /\ g.child \in Child /\ f = Frame("script", g.child, {})
  \/ g.at = "abort" /\ f.at = "tell" /\ f.rest \subseteq Child

\* What the first call of a thread may be.
Bottom(t, f) ==
  IF t = Loop THEN \/ f = Frame("script", Owner, {})
                   \/ f.at \in {"tell", "abort"} /\ f.rest \subseteq Child
              ELSE f.at = "run" /\ f.child \in Child

Chain(t, s) ==
  /\ s \in Seq(FrameSet)
  /\ s # <<>> => Bottom(t, s[Len(s)])
  /\ \A i \in 1..Len(s) : i + 1 <= Len(s) => OnTop(s[i], s[i + 1])

-----------------------------------------------------------------------------
(* Stacks.                                                                 *)

\* n is s with f on top.
Pushed(n, f, s) ==
  /\ n \in Seq(FrameSet) /\ s \in Seq(FrameSet) /\ f \in FrameSet
  /\ Len(n) = Len(s) + 1 /\ n[1] = f
  /\ \A i \in 1..Len(s) : n[i + 1] = s[i]

LEMMA PushIs ==
  ASSUME NEW f \in FrameSet, NEW s \in Seq(FrameSet)
  PROVE  Pushed(<<f>> \o s, f, s)
  BY DEF Pushed

LEMMA PushOneIs ==
  ASSUME NEW f \in FrameSet
  PROVE  Pushed(<<f>>, f, <<>>)
  BY DEF Pushed

LEMMA PopIs ==
  ASSUME NEW s \in Seq(FrameSet), s # <<>>
  PROVE  Pushed(s, Head(s), Tail(s))
  BY DEF Pushed

\* What a frame on top changes.
LEMMA PushedFacts ==
  ASSUME NEW n, NEW f, NEW s, Pushed(n, f, s)
  PROVE  /\ n # <<>> /\ Head(n) = f /\ Tail(n) = s
         /\ \A F : Has(n, F) <=> f \in F \/ Has(s, F)
         /\ \A F : One(n, F) <=> One(s, F) /\ ~(f \in F /\ Has(s, F))
         /\ s # <<>> => n[Len(n)] = s[Len(s)]
         /\ s = <<>> => n[Len(n)] = f
         /\ s # <<>> => Head(s) = s[1]
  <1> USE DEF Pushed
  <1>1. Len(s) \in Nat /\ Len(n) \in Nat /\ DOMAIN s = 1..Len(s) /\ DOMAIN n = 1..(Len(s) + 1)
    OBVIOUS
  <1>2. n # <<>> /\ Head(n) = f
    OBVIOUS
  <1>3. Tail(n) = s
    <2>1. /\ Tail(n) \in Seq(FrameSet) /\ Len(Tail(n)) = Len(s)
          /\ \A i \in 1..Len(s) : Tail(n)[i] = n[i + 1]
      BY <1>1, <1>2, HeadTailProperties
    <2> QED BY <2>1, SeqEqual
  <1>4. \A F : Has(n, F) <=> f \in F \/ Has(s, F)
    <2> TAKE F
    <2>1. ASSUME NEW i \in DOMAIN n, n[i] \in F PROVE f \in F \/ Has(s, F)
      <3>1. CASE i = 1
        BY <2>1, <3>1
      <3>2. CASE i # 1
        <4>1. i - 1 \in 1..Len(s) /\ (i - 1) + 1 = i
          BY <1>1, <3>2
        <4>2. s[i - 1] = n[i]
          BY <4>1
        <4> QED BY <1>1, <2>1, <4>1, <4>2 DEF Has
      <3> QED BY <3>1, <3>2
    <2>2. ASSUME f \in F PROVE Has(n, F)
      BY <1>1, <2>2 DEF Has
    <2>3. ASSUME NEW i \in DOMAIN s, s[i] \in F PROVE Has(n, F)
      <3>1. i + 1 \in DOMAIN n /\ n[i + 1] = s[i]
        BY <1>1
      <3> QED BY <2>3, <3>1 DEF Has
    <2> QED BY <2>1, <2>2, <2>3 DEF Has
  <1>5. \A F : One(n, F) <=> One(s, F) /\ ~(f \in F /\ Has(s, F))
    <2> TAKE F
    <2>1. ASSUME One(n, F) PROVE One(s, F)
      <3> SUFFICES ASSUME NEW i \in DOMAIN s, NEW j \in DOMAIN s, s[i] \in F, s[j] \in F PROVE i = j
        BY DEF One
      <3>1. /\ i + 1 \in DOMAIN n /\ n[i + 1] = s[i]
            /\ j + 1 \in DOMAIN n /\ n[j + 1] = s[j]
        BY <1>1
      <3>2. i + 1 = j + 1
        BY <2>1, <3>1 DEF One
      <3> QED BY <1>1, <3>2
    <2>2. ASSUME One(n, F), f \in F, NEW i \in DOMAIN s, s[i] \in F PROVE FALSE
      <3>1. i + 1 \in DOMAIN n /\ n[i + 1] = s[i] /\ 1 \in DOMAIN n
        BY <1>1
      <3>2. i + 1 = 1
        BY <2>2, <3>1 DEF One
      <3> QED BY <1>1, <3>2
    <2>3. ASSUME One(s, F), ~(f \in F /\ Has(s, F)) PROVE One(n, F)
      <3> SUFFICES ASSUME NEW i \in DOMAIN n, NEW j \in DOMAIN n, n[i] \in F, n[j] \in F PROVE i = j
        BY DEF One
      <3>1. ASSUME NEW k \in DOMAIN n, k # 1 PROVE k - 1 \in DOMAIN s /\ s[k - 1] = n[k]
        <4>1. k - 1 \in 1..Len(s) /\ (k - 1) + 1 = k
          BY <1>1, <3>1
        <4> QED BY <1>1, <4>1
      <3>2. CASE i # 1 /\ j # 1
        <4>1. i - 1 = j - 1
          BY <2>3, <3>1, <3>2 DEF One
        <4> QED BY <1>1, <4>1
      <3>3. CASE i = 1 /\ j # 1
        BY <2>3, <3>1, <3>3 DEF Has
      <3>4. CASE i # 1 /\ j = 1
        BY <2>3, <3>1, <3>4 DEF Has
      <3> QED BY <3>2, <3>3, <3>4
    <2> QED BY <2>1, <2>2, <2>3 DEF Has
  <1>6. s # <<>> => Len(s) \in 1..Len(s) /\ Head(s) = s[1]
    OBVIOUS
  <1>7. s = <<>> => Len(s) = 0
    OBVIOUS
  <1> QED BY <1>2, <1>3, <1>4, <1>5, <1>6, <1>7

LEMMA PushedChain ==
  ASSUME NEW t, NEW n, NEW f, NEW s, Pushed(n, f, s)
  PROVE  Chain(t, n) <=> /\ Chain(t, s)
                         /\ s = <<>> => Bottom(t, f)
                         /\ s # <<>> => OnTop(f, Head(s))
  <1>1. /\ Len(s) \in Nat /\ Len(n) = Len(s) + 1 /\ n[1] = f
        /\ n \in Seq(FrameSet) /\ s \in Seq(FrameSet)
        /\ \A i \in 1..Len(s) : n[i + 1] = s[i]
        /\ s = <<>> <=> Len(s) = 0
    BY DEF Pushed
  <1>2. /\ n # <<>> /\ s # <<>> => Head(s) = s[1]
        /\ s # <<>> => n[Len(n)] = s[Len(s)]
        /\ s = <<>> => n[Len(n)] = f
    BY PushedFacts
  <1>3. ASSUME Chain(t, n) PROVE /\ Chain(t, s)
                                 /\ s = <<>> => Bottom(t, f)
                                 /\ s # <<>> => OnTop(f, Head(s))
    <2>1. ASSUME NEW i \in 1..Len(s), i + 1 <= Len(s) PROVE OnTop(s[i], s[i + 1])
      <3>1. /\ i + 1 \in 1..Len(n) /\ (i + 1) + 1 <= Len(n) /\ i + 1 \in 1..Len(s)
        BY <1>1, <2>1
      <3>2. OnTop(n[i + 1], n[(i + 1) + 1])
        BY <1>3, <3>1 DEF Chain
      <3> QED BY <1>1, <3>1, <3>2
    <2>2. s # <<>> => OnTop(f, Head(s))
      <3> HAVE s # <<>>
      <3>1. 1 \in 1..Len(n) /\ 1 + 1 <= Len(n) /\ 1 \in 1..Len(s)
        BY <1>1
      <3>2. OnTop(n[1], n[1 + 1])
        BY <1>3, <3>1 DEF Chain
      <3> QED BY <1>1, <1>2, <3>1, <3>2
    <2> QED BY <1>1, <1>2, <1>3, <2>1, <2>2 DEF Chain
  <1>4. ASSUME Chain(t, s), s = <<>> => Bottom(t, f), s # <<>> => OnTop(f, Head(s))
        PROVE  Chain(t, n)
    <2>1. ASSUME NEW i \in 1..Len(n), i + 1 <= Len(n) PROVE OnTop(n[i], n[i + 1])
      <3>1. CASE i = 1
        <4>1. 1 \in 1..Len(s) /\ s # <<>>
          BY <1>1, <2>1, <3>1
        <4>2. n[i] = f /\ n[i + 1] = Head(s)
          BY <1>1, <1>2, <3>1, <4>1
        <4> QED BY <1>4, <4>1, <4>2
      <3>2. CASE i # 1
        <4>1. /\ i - 1 \in 1..Len(s) /\ (i - 1) + 1 = i /\ (i - 1) + 1 <= Len(s)
              /\ i \in 1..Len(s)
          BY <1>1, <2>1, <3>2
        <4>2. n[i] = s[i - 1] /\ n[i + 1] = s[i]
          BY <1>1, <4>1
        <4>3. OnTop(s[i - 1], s[(i - 1) + 1])
          BY <1>4, <4>1 DEF Chain
        <4> QED BY <4>1, <4>2, <4>3
      <3> QED BY <3>1, <3>2
    <2> QED BY <1>1, <1>2, <1>4, <2>1 DEF Chain
  <1> QED BY <1>3, <1>4

LEMMA FrameFields ==
  \A a, c, r : Frame(a, c, r).at = a /\ Frame(a, c, r).child = c /\ Frame(a, c, r).rest = r
  BY DEF Frame

\* A script's frame has its own fields; whose script it is can be read off.
LEMMA ScriptFrames ==
  /\ \A c : \A f \in FrameSet : f \in ScriptOf(c) => f.at = "script" /\ f.child = c
  /\ \A c \in Script : Frame("script", c, {}) \in FrameSet
  /\ \A c, d : Frame("script", c, {}) \in ScriptOf(d) <=> c = d
  /\ \A f \in FrameSet : f \in Sending <=> f.at = "sending"
  /\ \A c : ~ Frame("script", c, {}) \in Sending
  <1>1. \A f, c : f \in ScriptOf(c) => f.at = "script" /\ f.child = c
    BY FrameFields DEF ScriptOf
  <1>2. \A c \in Script : Frame("script", c, {}) \in FrameSet
    BY DEF FrameSet, Frame
  <1>3. \A c, d : Frame("script", c, {}) \in ScriptOf(d) <=> c = d
    BY <1>1, FrameFields DEF ScriptOf
  <1>4. \A f \in FrameSet : f \in Sending <=> f.at = "sending"
    BY DEF Sending
  <1>5. \A c : ~ Frame("script", c, {}) \in Sending
    BY FrameFields DEF Sending
  <1> QED BY <1>1, <1>2, <1>3, <1>4, <1>5

LEMMA FrameTypes ==
  /\ \A f \in FrameSet : /\ f.at \in CallAt \cup {"script", "run", "tell", "abort"}
                         /\ f.child \in Script /\ f.rest \subseteq Child \cup Thread
  /\ \A a \in CallAt \cup {"script", "run", "tell", "abort"}, c \in Script,
        r \in SUBSET (Child \cup Thread) : Frame(a, c, r) \in FrameSet
  /\ \A s : BatchOf(s) \subseteq Child
  /\ \A s, op, c : <<s, op, c>> \in Calls => s \in Script /\ op \in Operation /\ c \in Child
  /\ Child \subseteq Script /\ Owner \in Script /\ Owner \notin Child
  BY ChildrenAssumption DEF FrameSet, Frame, BatchOf, Script

LEMMA Threads ==
  /\ Loop \in Thread /\ Free \notin Thread /\ Loop = 0
  /\ \A t \in Thread : t \in 0..MaxTasks
  BY ChildrenAssumption DEF Loop, Free, Thread

LEMMA HasNone == \A F : ~ Has(<<>>, F) /\ One(<<>>, F)
  BY DEF Has, One

-----------------------------------------------------------------------------
(* The invariant.                                                          *)

Typed ==
  /\ children \subseteq Child /\ Cardinality(children) <= MaxChildren
  /\ spawner \in Thread \cup {Free} /\ lock \in [Child -> Thread \cup {Free}]
  /\ status \in [Child -> {"Idle", "Running", "Error", "Aborted"}]
  /\ tasks \in 0..MaxTasks /\ ended \in BOOLEAN /\ calls \in 0..MaxCalls
  /\ served \subseteq 1..tasks /\ asked \subseteq Child /\ aborted \subseteq Child

Stacked ==
  /\ stack \in [Thread -> Seq(FrameSet)]
  /\ \A t \in Thread : Chain(t, stack[t])
  /\ \A t \in Thread : t > tasks => stack[t] = <<>>

\* The table is held by the call of send_to_child that is running a child, or
\* by the visit of a signal, and there is one of these at most.
TableHeld ==
  \A t \in Thread :
    /\ Has(stack[t], Sending) => spawner = t
    /\ One(stack[t], Sending)
    /\ spawner = t => Has(stack[t], Sending) \/ (t = Loop /\ Visiting)

\* The mutex of a child is held by the thread that runs its script.
LocksHeld ==
  \A c \in Child :
    /\ status[c] = "Running" <=> lock[c] # Free
    /\ \A t \in Thread : /\ Has(stack[t], ScriptOf(c)) <=> lock[c] = t
                         /\ One(stack[t], ScriptOf(c))

\* Those there were at the stop are aborted, about to be, or still to be
\* visited.
Pending ==
  /\ asked \subseteq children
  /\ ended => stack[Loop] = <<>>
  /\ In(Loop, "abort") /\ spawner = Loop =>
       asked \subseteq aborted \cup Top(Loop).rest \cup {Top(Loop).child}

Inv == Typed /\ Stacked /\ TableHeld /\ LocksHeld /\ Pending /\ AllAborted

-----------------------------------------------------------------------------
(* What the grammar says of the top of a stack.                            *)

LEMMA TopFacts ==
  ASSUME Stacked, NEW t \in Thread, stack[t] # <<>>
  PROVE  /\ Pushed(stack[t], Top(t), Below(t))
         /\ Top(t) \in FrameSet /\ Below(t) \in Seq(FrameSet) /\ Chain(t, Below(t))
         /\ Below(t) = <<>> => Bottom(t, Top(t))
         /\ Below(t) # <<>> => OnTop(Top(t), Head(Below(t))) /\ Head(Below(t)) \in FrameSet
  <1>1. stack[t] \in Seq(FrameSet) /\ Chain(t, stack[t])
    BY DEF Stacked
  <1>2. Pushed(stack[t], Top(t), Below(t))
    BY <1>1, PopIs DEF Top, Below
  <1>3. Top(t) \in FrameSet /\ Below(t) \in Seq(FrameSet)
    BY <1>2 DEF Pushed
  <1>4. Below(t) # <<>> => Head(Below(t)) \in FrameSet
    BY <1>3
  <1> QED BY <1>1, <1>2, <1>3, <1>4, PushedChain

LEMMA TopKinds ==
  ASSUME Stacked, NEW t \in Thread, stack[t] # <<>>
  PROVE  /\ Top(t).at = "script" /\ Top(t).child # Owner =>
              /\ Below(t) # <<>> /\ Head(Below(t)).at \in {"sending", "run"}
              /\ Head(Below(t)).child = Top(t).child /\ Top(t).child \in Child
              /\ Top(t) = Frame("script", Top(t).child, {})
         /\ Top(t).at = "script" /\ Top(t).child = Owner =>
              t = Loop /\ Below(t) = <<>>
         /\ Top(t).at \in CallAt =>
              /\ Below(t) # <<>> /\ Head(Below(t)).at = "script"
              /\ <<Head(Below(t)).child, OpOf(Top(t).at), Top(t).child>> \in Calls
              /\ Top(t).child \in Child
              /\ Top(t).at = "batch" => Top(t).rest = BatchOf(Head(Below(t)).child)
         /\ Top(t).at = "run" => t # Loop /\ Below(t) = <<>> /\ Top(t).child \in Child
         /\ Top(t).at \in {"tell", "abort"} =>
              /\ t = Loop /\ Top(t).rest \subseteq Child
              /\ Below(t) # <<>> => Head(Below(t)).at = "abort" /\ Top(t).at = "tell"
  <1> DEFINE f == Top(t)
             g == Head(Below(t))
  <1>1. /\ f \in FrameSet
        /\ Below(t) = <<>> => Bottom(t, f)
        /\ Below(t) # <<>> => OnTop(f, g) /\ g \in FrameSet
    BY TopFacts
  <1>2. ASSUME Below(t) = <<>>
        PROVE  /\ t = Loop => \/ f = Frame("script", Owner, {})
                              \/ f.at \in {"tell", "abort"} /\ f.rest \subseteq Child
               /\ t # Loop => f.at = "run" /\ f.child \in Child
    BY <1>1, <1>2 DEF Bottom
  <1>3. ASSUME Below(t) # <<>>
        PROVE  \/ /\ g.at = "script" /\ f.at \in CallAt
                  /\ <<g.child, OpOf(f.at), f.child>> \in Calls
                  /\ f.at = "batch" => f.rest = BatchOf(g.child)
               \/ g.at \in {"sending", "run"} /\ g.child \in Child /\ f = Frame("script", g.child, {})
               \/ g.at = "abort" /\ f.at = "tell" /\ f.rest \subseteq Child
    BY <1>1, <1>3 DEF OnTop
  <1>4. \A a \in CallAt : a \notin {"script", "run", "tell", "abort"}
    BY DEF CallAt
  <1>5. ASSUME f.at \in {"tell", "abort"}, Below(t) # <<>>
        PROVE  t = Loop
    <2>1. g.at = "abort" /\ f.at = "tell"
      BY <1>3, <1>4, <1>5, FrameFields
    <2>2. stack[t] \in Seq(FrameSet) /\ Chain(t, Below(t)) /\ Below(t) \in Seq(FrameSet)
      BY TopFacts DEF Stacked
    <2>3. Pushed(Below(t), g, Tail(Below(t)))
      BY <1>5, <2>2, PopIs
    <2>4. /\ Tail(Below(t)) = <<>> => Bottom(t, g)
          /\ Tail(Below(t)) # <<>> => OnTop(g, Head(Tail(Below(t))))
      BY <2>2, <2>3, PushedChain
    <2>5. ~ OnTop(g, Head(Tail(Below(t))))
      BY <2>1, <1>4, FrameFields DEF OnTop
    <2> HIDE DEF g
    <2> QED BY <2>1, <2>4, <2>5 DEF Bottom
  <1> HIDE DEF f, g
  <1>6. f.at = "script" /\ f.child # Owner =>
              /\ Below(t) # <<>> /\ g.at \in {"sending", "run"}
              /\ g.child = f.child /\ f.child \in Child
              /\ f = Frame("script", f.child, {})
    BY <1>2, <1>3, <1>4, FrameFields
  <1>7. f.at = "script" /\ f.child = Owner => t = Loop /\ Below(t) = <<>>
    BY <1>2, <1>3, <1>4, FrameFields, FrameTypes
  <1>8. f.at \in CallAt =>
              /\ Below(t) # <<>> /\ g.at = "script"
              /\ <<g.child, OpOf(f.at), f.child>> \in Calls
              /\ f.child \in Child
              /\ f.at = "batch" => f.rest = BatchOf(g.child)
    BY <1>2, <1>3, <1>4, FrameFields, FrameTypes
  <1>9. f.at = "run" => t # Loop /\ Below(t) = <<>> /\ f.child \in Child
    BY <1>2, <1>3, <1>4, FrameFields
  <1>10. f.at \in {"tell", "abort"} =>
              /\ t = Loop /\ f.rest \subseteq Child
              /\ Below(t) # <<>> => g.at = "abort" /\ f.at = "tell"
    BY <1>2, <1>3, <1>4, <1>5, FrameFields
  <1> QED BY <1>6, <1>7, <1>8, <1>9, <1>10 DEF f, g

\* While the loop visits the children it is in no call.
LEMMA VisitingAlone ==
  ASSUME Stacked, Visiting
  PROVE  /\ ~ Has(stack[Loop], Sending)
         /\ \A c : ~ Has(stack[Loop], ScriptOf(c))
         /\ stack[Loop] # <<>>
  <1>1. stack[Loop] # <<>> /\ Top(Loop).at \in {"tell", "abort"} /\ Loop \in Thread
    BY Threads DEF Visiting
  <1>2. /\ Pushed(stack[Loop], Top(Loop), Below(Loop)) /\ Top(Loop) \in FrameSet
        /\ Below(Loop) \in Seq(FrameSet) /\ Chain(Loop, Below(Loop))
    BY <1>1, TopFacts
  <1>3. Below(Loop) # <<>> => Head(Below(Loop)).at = "abort"
    BY <1>1, TopKinds
  <1>4. ASSUME NEW F, \A f \in F : f.at \notin {"tell", "abort"} PROVE ~ Has(stack[Loop], F)
    <2>1. Has(stack[Loop], F) => Has(Below(Loop), F)
      BY <1>1, <1>2, <1>4, PushedFacts
    <2>2. CASE Below(Loop) # <<>>
      <3>1. Pushed(Below(Loop), Head(Below(Loop)), Tail(Below(Loop)))
        BY <1>2, <2>2, PopIs
      <3>2. Tail(Below(Loop)) # <<>> => OnTop(Head(Below(Loop)), Head(Tail(Below(Loop))))
        BY <1>2, <3>1, PushedChain
      <3>3. Tail(Below(Loop)) = <<>>
        BY <1>3, <2>2, <3>2, FrameFields DEF OnTop, CallAt
      <3> QED BY <1>3, <1>4, <2>1, <2>2, <3>1, <3>3, PushedFacts, HasNone
    <2> QED BY <2>1, <2>2, HasNone
  <1>5. \A f \in Sending : f.at \notin {"tell", "abort"}
    BY DEF Sending
  <1>6. \A c : \A f \in ScriptOf(c) : f.at \notin {"tell", "abort"}
    BY FrameFields DEF ScriptOf
  <1> QED BY <1>1, <1>4, <1>5, <1>6

-----------------------------------------------------------------------------
(* Steps of the scripts and their calls.                                   *)

\* A thread goes on, and starts the threads K at most, with no mutex taken or
\* freed.
LEMMA StackGoesOn ==
  ASSUME Stacked, tasks \in Nat, tasks' \in Nat, tasks <= tasks',
         NEW t \in Thread, stack[t] # <<>> \/ t = Loop,
         NEW K \in SUBSET Thread, t \notin K,
         \A k \in K : /\ k > tasks /\ k <= tasks'
                      /\ \E c \in Child : stack'[k] = <<Frame("run", c, {})>>,
         NEW n, Chain(t, n), stack'[t] = n, DOMAIN stack' = Thread,
         stack' = [u \in Thread |-> stack'[u]],
         \A u \in Thread \ (K \cup {t}) : stack'[u] = stack[u]
  PROVE  /\ Stacked'
         /\ \A k \in K : /\ stack[k] = <<>> /\ k # Loop
                         /\ ~ Has(stack'[k], Sending) /\ One(stack'[k], Sending)
                         /\ \A c : ~ Has(stack'[k], ScriptOf(c)) /\ One(stack'[k], ScriptOf(c))
  <1>1. ASSUME NEW k \in K
        PROVE  /\ stack[k] = <<>> /\ k # Loop /\ Chain(k, stack'[k])
               /\ ~ Has(stack'[k], Sending) /\ One(stack'[k], Sending)
               /\ \A c : ~ Has(stack'[k], ScriptOf(c)) /\ One(stack'[k], ScriptOf(c))
    <2>1. k \in Thread /\ k > tasks
      OBVIOUS
    <2>2. PICK c \in Child : stack'[k] = <<Frame("run", c, {})>>
      OBVIOUS
    <2>3. Frame("run", c, {}) \in FrameSet
      BY FrameTypes
    <2>4. Pushed(stack'[k], Frame("run", c, {}), <<>>)
      BY <2>2, <2>3, PushOneIs
    <2>5. k # Loop
      BY <2>1, Threads
    <2>6. Chain(k, <<>>)
      BY DEF Chain
    <2>7. Bottom(k, Frame("run", c, {}))
      BY <2>5, FrameFields DEF Bottom
    <2>8. Chain(k, stack'[k])
      BY <2>4, <2>6, <2>7, PushedChain
    <2>9. /\ Frame("run", c, {}) \notin Sending
          /\ \A d : Frame("run", c, {}) \notin ScriptOf(d)
      BY <2>3, FrameFields, ScriptFrames
    <2> QED BY <2>1, <2>4, <2>5, <2>8, <2>9, PushedFacts, HasNone DEF Stacked
  <1>2. \A u \in Thread : Chain(u, stack'[u])
    BY <1>1 DEF Stacked
  <1>3. stack' \in [Thread -> Seq(FrameSet)]
    BY <1>2 DEF Chain
  <1>4. ASSUME NEW u \in Thread, u > tasks' PROVE stack'[u] = <<>>
    <2>1. u > tasks /\ u \notin K
      BY <1>4, Threads
    <2>2. u # t
      BY <2>1, Threads DEF Stacked
    <2> QED BY <2>1, <2>2 DEF Stacked
  <1> QED BY <1>1, <1>2, <1>3, <1>4 DEF Stacked

LEMMA LoopKept ==
  ASSUME stack'[Loop] = stack[Loop]
  PROVE  /\ Visiting' <=> Visiting
         /\ In(Loop, "abort")' <=> In(Loop, "abort")
         /\ Top(Loop)' = Top(Loop)
  BY DEF Visiting, In, Top, Loop

LEMMA GoesOn ==
  ASSUME Inv, tasks' \in 0..MaxTasks, tasks <= tasks',
         NEW t \in Thread, stack[t] # <<>> \/ t = Loop,
         NEW K \in SUBSET Thread, t \notin K,
         \A k \in K : /\ k > tasks /\ k <= tasks'
                      /\ \E c \in Child : stack'[k] = <<Frame("run", c, {})>>,
         NEW n, Chain(t, n), stack'[t] = n, DOMAIN stack' = Thread,
         stack' = [u \in Thread |-> stack'[u]],
         \A u \in Thread \ (K \cup {t}) : stack'[u] = stack[u],
         t = Loop => ~ ended /\ ~ Visiting,
         n # <<>> => Head(n).at \notin {"tell", "abort"},
         Has(n, Sending) <=> Has(stack[t], Sending), One(n, Sending),
         \A c \in Child : (Has(n, ScriptOf(c)) <=> Has(stack[t], ScriptOf(c)))
                          /\ One(n, ScriptOf(c)),
         UNCHANGED <<spawner, lock, status, ended, history>>,
         children \subseteq children'
  PROVE  Stacked' /\ TableHeld' /\ LocksHeld' /\ Pending' /\ AllAborted'
  <1>1. tasks \in Nat /\ tasks' \in Nat /\ Stacked
    BY DEF Inv, Typed
  <1>2. /\ Stacked'
        /\ \A k \in K : /\ stack[k] = <<>> /\ k # Loop
                        /\ ~ Has(stack'[k], Sending) /\ One(stack'[k], Sending)
                        /\ \A c : ~ Has(stack'[k], ScriptOf(c)) /\ One(stack'[k], ScriptOf(c))
    BY <1>1, StackGoesOn
  <1>3. \A u \in Thread : /\ Has(stack'[u], Sending) <=> Has(stack[u], Sending)
                          /\ One(stack'[u], Sending)
    BY <1>2, HasNone DEF Inv, TableHeld
  <1>4. \A u \in Thread, c \in Child : /\ Has(stack'[u], ScriptOf(c)) <=> Has(stack[u], ScriptOf(c))
                                       /\ One(stack'[u], ScriptOf(c))
    BY <1>2, HasNone DEF Inv, LocksHeld
  <1>5. t # Loop => stack'[Loop] = stack[Loop]
    BY <1>2, Threads
  <1>6. Visiting => Visiting'
    BY <1>5, LoopKept
  <1>7. TableHeld'
    BY <1>3, <1>6 DEF Inv, TableHeld
  <1>8. LocksHeld'
    BY <1>4 DEF Inv, LocksHeld
  <1>9. Pending'
    <2>1. CASE t = Loop
      <3>1. ~ In(Loop, "abort")'
        BY <2>1 DEF In, Loop
      <3> QED BY <2>1, <3>1 DEF Inv, Pending, history
    <2>2. CASE t # Loop
      BY <1>5, <2>2, LoopKept DEF Inv, Pending, history
    <2> QED BY <2>1, <2>2
  <1>10. AllAborted'
    BY DEF Inv, AllAborted, history
  <1> QED BY <1>2, <1>7, <1>8, <1>9, <1>10

\* The same, for a thread that starts no other.
LEMMA GoesOnAlone ==
  ASSUME Inv, NEW t \in Thread, stack[t] # <<>> \/ t = Loop,
         NEW n, Chain(t, n), stack' = [stack EXCEPT ![t] = n],
         t = Loop => ~ ended /\ ~ Visiting,
         n # <<>> => Head(n).at \notin {"tell", "abort"},
         Has(n, Sending) <=> Has(stack[t], Sending), One(n, Sending),
         \A c \in Child : (Has(n, ScriptOf(c)) <=> Has(stack[t], ScriptOf(c)))
                          /\ One(n, ScriptOf(c)),
         UNCHANGED <<spawner, lock, status, tasks, ended, history>>,
         children \subseteq children'
  PROVE  Stacked' /\ TableHeld' /\ LocksHeld' /\ Pending' /\ AllAborted'
  <1>1. /\ tasks' \in 0..MaxTasks /\ tasks <= tasks'
        /\ stack \in [Thread -> Seq(FrameSet)]
    BY DEF Inv, Typed, Stacked
  <1> PICK K \in SUBSET Thread : K = {}
    OBVIOUS
  <1>2. /\ stack'[t] = n /\ DOMAIN stack' = Thread
        /\ stack' = [u \in Thread |-> stack'[u]]
        /\ \A u \in Thread \ (K \cup {t}) : stack'[u] = stack[u]
    BY <1>1
  <1>3. /\ t \notin K
        /\ \A k \in K : /\ k > tasks /\ k <= tasks'
                        /\ \E c \in Child : stack'[k] = <<Frame("run", c, {})>>
    OBVIOUS
  <1>4. UNCHANGED <<spawner, lock, status, ended, history>>
    OBVIOUS
  <1> QED BY <1>1, <1>2, <1>3, <1>4, GoesOn

\* A call that lies on a script returns.
LEMMA Popped ==
  ASSUME Inv, NEW t \in Thread, stack[t] # <<>>, Top(t).at \in CallAt \ {"sending"},
         Becomes(t, Below(t)),
         UNCHANGED <<spawner, lock, status, tasks, ended, history>>,
         children \subseteq children'
  PROVE  Stacked' /\ TableHeld' /\ LocksHeld' /\ Pending' /\ AllAborted'
  <1>1. Stacked /\ TableHeld /\ LocksHeld
    BY DEF Inv
  <1>2. /\ Pushed(stack[t], Top(t), Below(t)) /\ Top(t) \in FrameSet /\ Chain(t, Below(t))
    BY <1>1, TopFacts
  <1>3. Below(t) # <<>> /\ Head(Below(t)).at = "script"
    BY <1>1, TopKinds
  <1>4. Top(t) \notin Sending /\ \A c : Top(t) \notin ScriptOf(c)
    BY <1>2, ScriptFrames DEF CallAt
  <1>5. /\ Has(Below(t), Sending) <=> Has(stack[t], Sending)
        /\ One(Below(t), Sending)
        /\ \A c \in Child : (Has(Below(t), ScriptOf(c)) <=> Has(stack[t], ScriptOf(c)))
                            /\ One(Below(t), ScriptOf(c))
    BY <1>1, <1>2, <1>4, PushedFacts DEF TableHeld, LocksHeld
  <1>6. t = Loop => ~ ended /\ ~ Visiting
    BY DEF Inv, Pending, Visiting, CallAt, Top, Loop
  <1> HIDE DEF Inv
  <1> QED BY <1>2, <1>3, <1>5, <1>6, GoesOnAlone DEF Becomes

\* A script makes a call.
LEMMA Called ==
  ASSUME Inv, NEW t \in Thread, In(t, "script"), NEW f \in FrameSet,
         f.at \in CallAt \ {"sending"}, OnTop(f, Top(t)),
         Becomes(t, <<f>> \o stack[t]),
         UNCHANGED <<children, spawner, lock, status, tasks, ended, history>>
  PROVE  Stacked' /\ TableHeld' /\ LocksHeld' /\ Pending' /\ AllAborted'
  <1>1. Stacked /\ TableHeld /\ LocksHeld /\ stack[t] # <<>> /\ stack[t] \in Seq(FrameSet)
    BY DEF Inv, Stacked, In
  <1> DEFINE n == <<f>> \o stack[t]
  <1>2. Pushed(n, f, stack[t])
    BY <1>1, PushIs
  <1> HIDE DEF n
  <1>3. Chain(t, n) /\ n # <<>> /\ Head(n) = f
    BY <1>1, <1>2, PushedChain, PushedFacts DEF Stacked, Top
  <1>4. f \notin Sending /\ \A c : f \notin ScriptOf(c)
    BY ScriptFrames DEF CallAt
  <1>5. /\ Has(n, Sending) <=> Has(stack[t], Sending)
        /\ One(n, Sending)
        /\ \A c \in Child : (Has(n, ScriptOf(c)) <=> Has(stack[t], ScriptOf(c)))
                            /\ One(n, ScriptOf(c))
    BY <1>1, <1>2, <1>4, PushedFacts DEF TableHeld, LocksHeld
  <1>6. t = Loop => ~ ended /\ ~ Visiting
    BY DEF Inv, Pending, Visiting, Top, Loop, In
  <1>7. f.at \notin {"tell", "abort"}
    BY DEF CallAt
  <1>8. stack' = [stack EXCEPT ![t] = n]
    BY DEF Becomes, n
  <1> HIDE DEF Inv
  <1> QED BY <1>1, <1>3, <1>5, <1>6, <1>7, <1>8, GoesOnAlone

\* A thread's stack changes and no other.
LEMMA StackAlone ==
  ASSUME Inv, NEW t \in Thread, stack[t] # <<>> \/ t = Loop,
         NEW n, Chain(t, n), stack' = [stack EXCEPT ![t] = n], UNCHANGED tasks
  PROVE  /\ Stacked' /\ stack'[t] = n
         /\ \A u \in Thread \ {t} : stack'[u] = stack[u]
         /\ t # Loop => stack'[Loop] = stack[Loop]
  <1>1. /\ Stacked /\ tasks \in Nat /\ tasks' \in Nat /\ tasks <= tasks'
        /\ stack \in [Thread -> Seq(FrameSet)]
    BY DEF Inv, Typed, Stacked
  <1> PICK K \in SUBSET Thread : K = {}
    OBVIOUS
  <1>2. /\ stack'[t] = n /\ DOMAIN stack' = Thread
        /\ stack' = [u \in Thread |-> stack'[u]]
        /\ \A u \in Thread \ (K \cup {t}) : stack'[u] = stack[u]
    BY <1>1
  <1>3. /\ t \notin K
        /\ \A k \in K : /\ k > tasks /\ k <= tasks'
                        /\ \E c \in Child : stack'[k] = <<Frame("run", c, {})>>
    OBVIOUS
  <1>4. Stacked'
    BY <1>1, <1>2, <1>3, StackGoesOn
  <1> QED BY <1>2, <1>4, Threads

LEMMA RunsKeeps ==
  ASSUME Inv, NEW t \in Thread, stack[t] # <<>>, Top(t).at \in {"sending", "run"},
         Runs(t, Top(t).child),
         UNCHANGED <<children, spawner, tasks, ended, asked, aborted>>
  PROVE  Stacked' /\ TableHeld' /\ LocksHeld' /\ Pending' /\ AllAborted'
  <1> DEFINE c == Top(t).child
             f == Frame("script", c, {})
             n == <<f>> \o stack[t]
  <1>1. Stacked /\ TableHeld /\ LocksHeld /\ stack[t] \in Seq(FrameSet) /\ Chain(t, stack[t])
    BY DEF Inv, Stacked
  <1>2. c \in Child /\ c \in Script
    BY <1>1, TopKinds, FrameTypes DEF CallAt
  <1>3. /\ lock[c] = Free /\ lock' = [lock EXCEPT ![c] = t]
        /\ status' = [status EXCEPT ![c] = "Running"]
        /\ stack' = [stack EXCEPT ![t] = n]
    BY DEF Runs, Becomes
  <1>4. f \in FrameSet /\ f \notin Sending /\ \A d : f \in ScriptOf(d) <=> d = c
    BY <1>2, ScriptFrames
  <1>5. OnTop(f, Top(t))
    BY <1>2 DEF OnTop
  <1>6. Pushed(n, f, stack[t])
    BY <1>1, <1>4, PushIs
  <1>7. f.at = "script"
    BY FrameFields
  <1> HIDE DEF c, f, n
  <1>8. Chain(t, n) /\ n # <<>> /\ Head(n) = f
    BY <1>1, <1>5, <1>6, PushedChain, PushedFacts DEF Top
  <1>9. /\ Stacked' /\ stack'[t] = n
        /\ \A u \in Thread \ {t} : stack'[u] = stack[u]
        /\ t # Loop => stack'[Loop] = stack[Loop]
    BY <1>3, <1>8, StackAlone
  <1>10. /\ Has(n, Sending) <=> Has(stack[t], Sending)
         /\ One(n, Sending)
    BY <1>1, <1>4, <1>6, PushedFacts DEF TableHeld
  <1>11. Visiting => t # Loop
    BY DEF Visiting, Top, Loop
  <1>12. TableHeld'
    BY <1>1, <1>9, <1>10, <1>11, LoopKept DEF TableHeld
  <1>13. ASSUME NEW d \in Child
         PROVE  (/\ status[d] = "Running" <=> lock[d] # Free
                 /\ \A u \in Thread : /\ Has(stack[u], ScriptOf(d)) <=> lock[d] = u
                                      /\ One(stack[u], ScriptOf(d)))'
    <2>1. /\ status[d] = "Running" <=> lock[d] # Free
          /\ \A u \in Thread : /\ Has(stack[u], ScriptOf(d)) <=> lock[d] = u
                               /\ One(stack[u], ScriptOf(d))
      BY <1>1 DEF LocksHeld
    <2>2. CASE d = c
      <3>1. \A u \in Thread : ~ Has(stack[u], ScriptOf(c)) /\ One(stack[u], ScriptOf(c))
        BY <1>3, <2>1, <2>2, Threads
      <3>2. Has(n, ScriptOf(c)) /\ One(n, ScriptOf(c))
        BY <1>4, <1>6, <3>1, PushedFacts
      <3>3. lock'[c] = t /\ status'[c] = "Running" /\ t # Free
        BY <1>2, <1>3, Threads DEF Inv, Typed
      <3> QED BY <1>9, <2>2, <3>1, <3>2, <3>3
    <2>3. CASE d # c
      <3>1. Has(n, ScriptOf(d)) <=> Has(stack[t], ScriptOf(d))
        BY <1>4, <1>6, <2>3, PushedFacts
      <3>2. One(n, ScriptOf(d))
        BY <1>4, <1>6, <2>1, <2>3, PushedFacts
      <3>3. lock'[d] = lock[d] /\ status'[d] = status[d]
        BY <1>3, <2>3 DEF Inv, Typed
      <3> QED BY <1>9, <2>1, <3>1, <3>2, <3>3
    <2> QED BY <2>2, <2>3
  <1>14. LocksHeld'
    BY <1>13 DEF LocksHeld
  <1>15. Pending'
    <2>1. CASE t = Loop
      <3>1. ~ In(Loop, "abort")'
        BY <1>7, <1>8, <1>9, <2>1 DEF In, Loop
      <3>2. ~ ended
        BY <2>1 DEF Inv, Pending
      <3> QED BY <3>1, <3>2 DEF Inv, Pending
    <2>2. CASE t # Loop
      BY <1>9, <2>2, LoopKept DEF Inv, Pending
    <2> QED BY <2>1, <2>2
  <1>16. AllAborted'
    BY DEF Inv, AllAborted
  <1> QED BY <1>9, <1>12, <1>14, <1>15, <1>16

LEMMA ChildReturnsKeeps ==
  ASSUME Inv, NEW t \in Thread, ChildReturns(t)
  PROVE  Stacked' /\ TableHeld' /\ LocksHeld' /\ Pending' /\ AllAborted'
  <1> DEFINE c == Top(t).child
             g == Head(Below(t))
             n == Tail(Below(t))
  <1>1. /\ Stacked /\ TableHeld /\ LocksHeld /\ stack[t] # <<>> /\ Top(t).at = "script"
        /\ c # Owner
    BY DEF Inv, ChildReturns, In, Top
  <1>2. /\ Pushed(stack[t], Top(t), Below(t)) /\ Top(t) \in FrameSet
        /\ Below(t) \in Seq(FrameSet) /\ Chain(t, Below(t))
    BY <1>1, TopFacts
  <1>3. /\ Below(t) # <<>> /\ g.at \in {"sending", "run"} /\ c \in Child
        /\ Top(t) = Frame("script", c, {})
    BY <1>1, TopKinds
  <1>4. Pushed(Below(t), g, n) /\ g \in FrameSet
    BY <1>2, <1>3, PopIs
  <1>5. /\ lock' = [lock EXCEPT ![c] = Free]
        /\ status' \in [Child -> {"Idle", "Running", "Error", "Aborted"}]
        /\ status'[c] # "Running" /\ \A d \in Child \ {c} : status'[d] = status[d]
        /\ spawner' = IF g.at = "sending" THEN Free ELSE spawner
        /\ stack' = [stack EXCEPT ![t] = n]
        /\ UNCHANGED <<children, tasks, ended, counters, history>>
    BY <1>3 DEF ChildReturns, Inv, Typed, Becomes
  <1> HIDE DEF c, g, n
  <1>6. Chain(t, n) /\ (n # <<>> => OnTop(g, Head(n)))
    BY <1>2, <1>4, PushedChain
  <1>7. n # <<>> => Head(n).at = "script"
    BY <1>3, <1>6, FrameFields DEF OnTop, CallAt
  <1>8. /\ Stacked' /\ stack'[t] = n
        /\ \A u \in Thread \ {t} : stack'[u] = stack[u]
        /\ t # Loop => stack'[Loop] = stack[Loop]
    BY <1>1, <1>5, <1>6, StackAlone
  <1>9. /\ Top(t) \notin Sending /\ \A d : Top(t) \in ScriptOf(d) <=> d = c
        /\ g \in Sending <=> g.at = "sending"
        /\ \A d : g \notin ScriptOf(d)
    BY <1>3, <1>4, ScriptFrames
  <1>10. /\ Has(stack[t], Sending) <=> g \in Sending \/ Has(n, Sending)
         /\ One(n, Sending) /\ ~ (g \in Sending /\ Has(n, Sending))
         /\ \A d \in Child : /\ Has(stack[t], ScriptOf(d)) <=> d = c \/ Has(n, ScriptOf(d))
                             /\ One(n, ScriptOf(d)) /\ ~ (d = c /\ Has(n, ScriptOf(d)))
    <2>1. ASSUME NEW F, One(stack[t], F)
          PROVE  /\ Has(stack[t], F) <=> Top(t) \in F \/ g \in F \/ Has(n, F)
                 /\ One(n, F) /\ ~ (g \in F /\ Has(n, F)) /\ ~ (Top(t) \in F /\ Has(n, F))
      <3>1. /\ Has(stack[t], F) <=> Top(t) \in F \/ Has(Below(t), F)
            /\ One(Below(t), F) /\ ~ (Top(t) \in F /\ Has(Below(t), F))
        BY <1>2, <2>1, PushedFacts
      <3>2. /\ Has(Below(t), F) <=> g \in F \/ Has(n, F)
            /\ One(n, F) /\ ~ (g \in F /\ Has(n, F))
        BY <1>4, <3>1, PushedFacts
      <3> QED BY <3>1, <3>2
    <2>2. One(stack[t], Sending) /\ \A d \in Child : One(stack[t], ScriptOf(d))
      BY <1>1 DEF TableHeld, LocksHeld
    <2> QED BY <1>9, <2>1, <2>2
  <1>11. Visiting => t # Loop
    BY <1>1 DEF Visiting, Top, Loop
  <1>12. TableHeld'
    <2>1. CASE g.at = "sending"
      <3>1. spawner = t /\ spawner' = Free
        BY <1>1, <1>5, <1>9, <1>10, <2>1 DEF TableHeld
      <3>2. \A u \in Thread : ~ Has(stack'[u], Sending) /\ One(stack'[u], Sending)
        BY <1>1, <1>8, <1>9, <1>10, <2>1, <3>1 DEF TableHeld
      <3> QED BY <3>1, <3>2, Threads DEF TableHeld
    <2>2. CASE g.at # "sending"
      <3>1. spawner' = spawner
        BY <1>5, <2>2
      <3>2. \A u \in Thread : /\ Has(stack'[u], Sending) <=> Has(stack[u], Sending)
                              /\ One(stack'[u], Sending)
        BY <1>1, <1>8, <1>9, <1>10, <2>2 DEF TableHeld
      <3>3. Visiting => Visiting'
        BY <1>8, <1>11, LoopKept
      <3> QED BY <1>1, <3>1, <3>2, <3>3 DEF TableHeld
    <2> QED BY <2>1, <2>2
  <1>13. ASSUME NEW d \in Child
         PROVE  (/\ status[d] = "Running" <=> lock[d] # Free
                 /\ \A u \in Thread : /\ Has(stack[u], ScriptOf(d)) <=> lock[d] = u
                                      /\ One(stack[u], ScriptOf(d)))'
    <2>1. /\ status[d] = "Running" <=> lock[d] # Free
          /\ \A u \in Thread : /\ Has(stack[u], ScriptOf(d)) <=> lock[d] = u
                               /\ One(stack[u], ScriptOf(d))
      BY <1>1 DEF LocksHeld
    <2>2. CASE d = c
      <3>1. lock[c] = t
        BY <1>10, <2>1, <2>2
      <3>2. \A u \in Thread : ~ Has(stack'[u], ScriptOf(c)) /\ One(stack'[u], ScriptOf(c))
        BY <1>8, <1>10, <2>1, <2>2, <3>1
      <3>3. lock'[c] = Free /\ status'[c] # "Running"
        BY <1>3, <1>5 DEF Inv, Typed
      <3> QED BY <2>2, <3>2, <3>3, Threads
    <2>3. CASE d # c
      <3>1. lock'[d] = lock[d] /\ status'[d] = status[d]
        BY <1>5, <2>3 DEF Inv, Typed
      <3> QED BY <1>8, <1>10, <2>1, <2>3, <3>1
    <2> QED BY <2>2, <2>3
  <1>14. LocksHeld'
    BY <1>13 DEF LocksHeld
  <1>15. Pending'
    <2>1. CASE t = Loop
      <3>1. ~ In(Loop, "abort")'
        BY <1>7, <1>8, <2>1 DEF In, Loop
      <3>2. ~ ended
        BY <1>1, <2>1 DEF Inv, Pending
      <3> QED BY <1>5, <3>1, <3>2 DEF Inv, Pending, history
    <2>2. CASE t # Loop
      <3>1. spawner' = Loop => spawner = Loop
        BY <1>5, Threads
      <3> QED BY <1>5, <1>8, <2>2, <3>1, LoopKept DEF Inv, Pending, history
    <2> QED BY <2>1, <2>2
  <1>16. AllAborted'
    BY <1>5 DEF Inv, AllAborted, history
  <1> QED BY <1>8, <1>12, <1>14, <1>15, <1>16

LEMMA SendLocksKeeps ==
  ASSUME Inv, NEW t \in Thread, SendLocks(t)
  PROVE  Stacked' /\ TableHeld' /\ LocksHeld' /\ Pending' /\ AllAborted'
  <1>1. /\ Stacked /\ TableHeld /\ LocksHeld /\ stack[t] # <<>> /\ Top(t).at = "send"
        /\ spawner = Free
        /\ UNCHANGED <<children, lock, status, tasks, ended, counters, history>>
    BY DEF Inv, SendLocks, In, Top
  <1>2. CASE Top(t).child \notin children
    <2>1. Becomes(t, Below(t)) /\ UNCHANGED spawner
      BY <1>2 DEF SendLocks
    <2>2. Top(t).at \in CallAt \ {"sending"}
      BY <1>1 DEF CallAt
    <2>3. UNCHANGED <<spawner, lock, status, tasks, ended, history>> /\ children \subseteq children'
      BY <1>1, <2>1
    <2> QED BY <1>1, <2>1, <2>2, <2>3, Popped
  <1>3. CASE Top(t).child \in children
    <2> DEFINE f == Frame("sending", Top(t).child, {})
               n == <<f>> \o Below(t)
    <2>1. spawner' = t /\ stack' = [stack EXCEPT ![t] = n]
      BY <1>3 DEF SendLocks, Replaces, Becomes
    <2>2. /\ Pushed(stack[t], Top(t), Below(t)) /\ Top(t) \in FrameSet
          /\ Below(t) \in Seq(FrameSet) /\ Chain(t, Below(t))
      BY <1>1, TopFacts
    <2>3. /\ Below(t) # <<>> /\ Head(Below(t)).at = "script"
          /\ <<Head(Below(t)).child, "send", Top(t).child>> \in Calls
      BY <1>1, TopKinds DEF CallAt, OpOf
    <2>4. f \in FrameSet
      BY <2>2, FrameTypes DEF CallAt
    <2>5. f.at = "sending" /\ f.child = Top(t).child
      BY FrameFields
    <2>6. OnTop(f, Head(Below(t)))
      BY <2>3, <2>5 DEF OnTop, OpOf, CallAt
    <2>7. Pushed(n, f, Below(t))
      BY <2>2, <2>4, PushIs
    <2>8. /\ f \in Sending /\ \A d : f \notin ScriptOf(d)
          /\ Top(t) \notin Sending /\ \A d : Top(t) \notin ScriptOf(d)
      BY <1>1, <2>2, <2>4, <2>5, ScriptFrames
    <2> HIDE DEF f, n
    <2>9. Chain(t, n) /\ n # <<>> /\ Head(n) = f
      BY <2>2, <2>3, <2>6, <2>7, PushedChain, PushedFacts
    <2>10. /\ Stacked' /\ stack'[t] = n
           /\ \A u \in Thread \ {t} : stack'[u] = stack[u]
           /\ t # Loop => stack'[Loop] = stack[Loop]
      BY <1>1, <2>1, <2>9, StackAlone
    <2>11. \A u \in Thread : ~ Has(stack[u], Sending) /\ One(stack[u], Sending)
      BY <1>1, Threads DEF TableHeld
    <2>12. Has(n, Sending) /\ One(n, Sending)
      BY <2>2, <2>7, <2>8, <2>11, PushedFacts
    <2>13. TableHeld'
      <3>1. ASSUME NEW u \in Thread
            PROVE  (Has(stack'[u], Sending) <=> u = t) /\ One(stack'[u], Sending)
        BY <2>10, <2>11, <2>12
      <3> QED BY <2>1, <3>1 DEF TableHeld
    <2>14. ASSUME NEW d \in Child
           PROVE  (Has(n, ScriptOf(d)) <=> Has(stack[t], ScriptOf(d))) /\ One(n, ScriptOf(d))
      <3>1. One(stack[t], ScriptOf(d))
        BY <1>1 DEF LocksHeld
      <3> QED BY <2>2, <2>7, <2>8, <3>1, PushedFacts
    <2>15. LocksHeld'
      BY <1>1, <2>10, <2>14 DEF LocksHeld
    <2>16. Pending'
      <3>1. CASE t = Loop
        <4>1. ~ In(Loop, "abort")'
          BY <2>5, <2>9, <2>10, <3>1 DEF In, Loop
        <4>2. ~ ended
          BY <1>1, <3>1 DEF Inv, Pending
        <4> QED BY <1>1, <4>1, <4>2 DEF Inv, Pending, history
      <3>2. CASE t # Loop
        <4>1. ~ spawner' = Loop
          BY <2>1, <3>2
        <4> QED BY <1>1, <2>10, <3>2, <4>1, LoopKept DEF Inv, Pending, history
      <3> QED BY <3>1, <3>2
    <2>17. AllAborted'
      BY <1>1 DEF Inv, AllAborted, history
    <2> QED BY <2>10, <2>13, <2>15, <2>16, <2>17
  <1> QED BY <1>2, <1>3

-----------------------------------------------------------------------------
(* The other actions of Next.                                              *)

LEMMA RequestKeeps ==
  ASSUME Inv, Request
  PROVE  Stacked' /\ TableHeld' /\ LocksHeld' /\ Pending' /\ AllAborted'
  <1> DEFINE f == Frame("script", Owner, {})
             n == <<f>>
  <1>1. /\ stack[Loop] = <<>> /\ ~ ended /\ stack' = [stack EXCEPT ![Loop] = n]
        /\ UNCHANGED <<children, spawner, lock, status, tasks, ended, history>>
    BY DEF Request, Becomes, mutexes
  <1>2. /\ f \in FrameSet /\ f \notin Sending /\ \A c \in Child : f \notin ScriptOf(c)
        /\ f.at = "script"
    BY ScriptFrames, FrameTypes, FrameFields
  <1>3. Pushed(n, f, <<>>)
    BY <1>2, PushOneIs
  <1>4. Bottom(Loop, f) /\ Chain(Loop, <<>>)
    BY DEF Bottom, Chain
  <1> HIDE DEF f, n
  <1>5. /\ Chain(Loop, n) /\ n # <<>> /\ Head(n) = f
        /\ ~ Has(n, Sending) /\ One(n, Sending)
        /\ \A c \in Child : ~ Has(n, ScriptOf(c)) /\ One(n, ScriptOf(c))
    BY <1>2, <1>3, <1>4, PushedChain, PushedFacts, HasNone
  <1>6. \A F : ~ Has(stack[Loop], F)
    BY <1>1, HasNone
  <1>7. ~ Visiting /\ Loop \in Thread
    BY <1>1, Threads DEF Visiting
  <1>8. UNCHANGED <<spawner, lock, status, tasks, ended, history>> /\ children \subseteq children'
    BY <1>1
  <1> QED BY <1>1, <1>2, <1>5, <1>6, <1>7, <1>8, GoesOnAlone

LEMMA CallKeeps ==
  ASSUME Inv, NEW t \in Thread, Call(t)
  PROVE  Stacked' /\ TableHeld' /\ LocksHeld' /\ Pending' /\ AllAborted'
  <1>1. PICK c \in Child, op \in Operation :
          /\ <<Top(t).child, op, c>> \in Calls
          /\ Becomes(t, <<Frame(op, c, IF op = "batch" THEN BatchOf(Top(t).child) ELSE {})>> \o stack[t])
    BY DEF Call
  <1> DEFINE f == Frame(op, c, IF op = "batch" THEN BatchOf(Top(t).child) ELSE {})
  <1>2. /\ In(t, "script") /\ stack[t] # <<>> /\ Top(t).at = "script"
        /\ UNCHANGED <<children, spawner, lock, status, tasks, ended, history>>
    BY DEF Call, In, Top, mutexes
  <1>3. op \in {"spawn", "send", "async", "batch"}
    BY DEF Operation
  <1>4. f \in FrameSet
    BY <1>3, FrameTypes DEF CallAt
  <1>5. /\ f.at = op /\ f.child = c
        /\ f.rest = IF op = "batch" THEN BatchOf(Top(t).child) ELSE {}
    BY FrameFields
  <1>6. OnTop(f, Top(t)) /\ f.at \in CallAt \ {"sending"}
    BY <1>1, <1>2, <1>3, <1>5 DEF OnTop, OpOf, CallAt
  <1>7. Becomes(t, <<f>> \o stack[t])
    BY <1>1
  <1> HIDE DEF f
  <1> QED BY <1>2, <1>4, <1>6, <1>7, Called

LEMMA OwnerReturnsKeeps ==
  ASSUME Inv, NEW t \in Thread, OwnerReturns(t)
  PROVE  Stacked' /\ TableHeld' /\ LocksHeld' /\ Pending' /\ AllAborted'
  <1>1. /\ stack[t] # <<>> /\ Top(t).at = "script" /\ Top(t).child = Owner
        /\ stack' = [stack EXCEPT ![t] = Below(t)] /\ Stacked
        /\ UNCHANGED <<children, spawner, lock, status, tasks, ended, history>>
    BY DEF OwnerReturns, In, Top, mutexes, counters, Becomes, Inv
  <1>2. t = Loop /\ Below(t) = <<>>
    BY <1>1, TopKinds
  <1>3. /\ Pushed(stack[t], Top(t), Below(t)) /\ Top(t) \in FrameSet /\ Chain(t, Below(t))
    BY <1>1, TopFacts
  <1>4. /\ Top(t) \notin Sending /\ \A c \in Child : Top(t) \notin ScriptOf(c)
    BY <1>1, <1>3, ScriptFrames, FrameTypes
  <1>5. \A F : ~ Has(Below(t), F) /\ One(Below(t), F)
    BY <1>2, HasNone
  <1>6. ~ Has(stack[t], Sending) /\ \A c \in Child : ~ Has(stack[t], ScriptOf(c))
    BY <1>3, <1>4, <1>5, PushedFacts
  <1>7. ~ ended /\ ~ Visiting
    BY <1>1, <1>2 DEF Inv, Pending, Visiting
  <1>8. UNCHANGED <<spawner, lock, status, tasks, ended, history>> /\ children \subseteq children'
    BY <1>1
  <1> QED BY <1>1, <1>2, <1>3, <1>5, <1>6, <1>7, <1>8, GoesOnAlone

LEMMA SpawnJoinKeep ==
  ASSUME Inv, NEW t \in Thread, Spawn(t) \/ Join(t)
  PROVE  Stacked' /\ TableHeld' /\ LocksHeld' /\ Pending' /\ AllAborted'
  <1>1. /\ stack[t] # <<>> /\ Top(t).at \in CallAt \ {"sending"} /\ Becomes(t, Below(t))
        /\ UNCHANGED <<spawner, lock, status, tasks, ended, history>>
        /\ children \subseteq children'
    BY DEF Spawn, Join, In, Top, mutexes, CallAt
  <1> QED BY <1>1, Popped

LEMMA AsyncKeeps ==
  ASSUME Inv, NEW t \in Thread, Async(t)
  PROVE  Stacked' /\ TableHeld' /\ LocksHeld' /\ Pending' /\ AllAborted'
  <1>1. /\ stack[t] # <<>> /\ Top(t).at = "async" /\ Stacked /\ TableHeld /\ LocksHeld
        /\ UNCHANGED <<children, spawner, lock, status, ended, history>>
    BY DEF Async, In, Top, mutexes, Inv
  <1>2. Top(t).at \in CallAt \ {"sending"}
    BY <1>1 DEF CallAt
  <1>3. CASE Top(t).child \notin children
    <2>1. /\ Becomes(t, Below(t)) /\ UNCHANGED <<spawner, lock, status, tasks, ended, history>>
          /\ children \subseteq children'
      BY <1>1, <1>3 DEF Async
    <2> QED BY <1>1, <1>2, <2>1, Popped
  <1>4. CASE Top(t).child \in children
    <2> DEFINE k == tasks + 1
               run == <<Frame("run", Top(t).child, {})>>
               n == Below(t)
    <2>1. /\ tasks < MaxTasks /\ tasks' = k
          /\ stack' = [stack EXCEPT ![t] = n, ![k] = run]
      BY <1>4 DEF Async
    <2>2. /\ tasks \in 0..MaxTasks /\ MaxTasks \in Nat
      BY ChildrenAssumption DEF Inv, Typed
    <2>3. /\ k \in Thread /\ k > tasks /\ k <= tasks' /\ tasks' \in 0..MaxTasks /\ tasks <= tasks'
      BY <2>1, <2>2 DEF Thread
    <2>4. t # k
      BY <1>1, <2>3 DEF Stacked
    <2>5. Top(t).child \in Child
      BY <1>1, <1>2, TopKinds
    <2> HIDE DEF k, run, n
    <2>6. /\ DOMAIN stack' = Thread /\ stack' = [u \in Thread |-> stack'[u]]
          /\ stack'[t] = n /\ stack'[k] = run
          /\ \A u \in Thread \ {k, t} : stack'[u] = stack[u]
      BY <1>1, <2>1, <2>3, <2>4 DEF Stacked
    <2> DEFINE K == {k}
    <2>7. /\ t \notin K
          /\ \A u \in K : /\ u > tasks /\ u <= tasks'
                          /\ \E c \in Child : stack'[u] = <<Frame("run", c, {})>>
          /\ \A u \in Thread \ (K \cup {t}) : stack'[u] = stack[u]
      BY <2>3, <2>4, <2>5, <2>6 DEF run
    <2>18. K \in SUBSET Thread
      BY <2>3
    <2> HIDE DEF K
    <2>8. /\ Pushed(stack[t], Top(t), n) /\ Top(t) \in FrameSet /\ Chain(t, n)
      BY <1>1, TopFacts DEF n
    <2>9. n # <<>> /\ Head(n).at = "script"
      BY <1>1, <1>2, TopKinds DEF n
    <2>10. Top(t) \notin Sending /\ \A c : Top(t) \notin ScriptOf(c)
      BY <1>1, <2>8, ScriptFrames
    <2>11. /\ Has(n, Sending) <=> Has(stack[t], Sending)
           /\ One(n, Sending)
           /\ \A c \in Child : (Has(n, ScriptOf(c)) <=> Has(stack[t], ScriptOf(c)))
                               /\ One(n, ScriptOf(c))
      BY <1>1, <2>8, <2>10, PushedFacts DEF TableHeld, LocksHeld
    <2>12. t = Loop => ~ ended /\ ~ Visiting
      BY <1>1 DEF Inv, Pending, Visiting, Top, Loop
    <2>13. UNCHANGED <<spawner, lock, status, ended, history>> /\ children \subseteq children'
      BY <1>1
    <2>14. n # <<>> => Head(n).at \notin {"tell", "abort"}
      BY <2>9
    <2>15. stack[t] # <<>> \/ t = Loop
      BY <1>1
    <2>16. tasks' \in 0..MaxTasks /\ tasks <= tasks' /\ Chain(t, n)
      BY <2>3, <2>8
    <2>17. stack'[t] = n /\ DOMAIN stack' = Thread /\ stack' = [u \in Thread |-> stack'[u]]
      BY <2>6
    <2> QED BY <2>7, <2>11, <2>12, <2>13, <2>14, <2>15, <2>16, <2>17, <2>18, GoesOn
  <1> QED BY <1>3, <1>4

\* SetToSeq lists the elements of a finite set.
LEMMA SetToSeqIs ==
  ASSUME NEW S, IsFiniteSet(S)
  PROVE  /\ SetToSeq(S) \in [1..Cardinality(S) -> S]
         /\ Cardinality(S) \in Nat /\ Len(SetToSeq(S)) = Cardinality(S)
  <1>1. PICK m \in Nat : ExistsBijection(1..m, S)
    BY FS_NatBijection
  <1>2. Cardinality(S) = m
    BY <1>1, FS_CountingElements
  <1>3. \E g \in [1..Cardinality(S) -> S] : IsInjective(g)
    BY <1>1, <1>2 DEF ExistsBijection, Bijection, Injection, IsInjective
  <1>4. SetToSeq(S) \in [1..Cardinality(S) -> S]
    BY <1>3 DEF SetToSeq
  <1>5. Len(SetToSeq(S)) = Cardinality(S)
    BY <1>2, <1>4
  <1> QED BY <1>2, <1>4, <1>5

\* The threads of a batch and the wait for them.
LEMMA BatchFacts ==
  ASSUME Inv, NEW t \in Thread, Batch(t)
  PROVE  LET new == tasks + 1 .. tasks'
             f == Frame("join", Top(t).child, new)
             n == <<f>> \o Below(t)
         IN  /\ stack[t] # <<>> /\ Top(t).at = "batch"
             /\ tasks' \in 0..MaxTasks /\ tasks <= tasks' /\ new \in SUBSET Thread /\ t \notin new
             /\ \A k \in new : /\ k > tasks /\ k <= tasks'
                               /\ \E c \in Top(t).rest \cap children : stack'[k] = <<Frame("run", c, {})>>
             /\ stack'[t] = n /\ DOMAIN stack' = Thread
             /\ stack' = [u \in Thread |-> stack'[u]]
             /\ \A u \in Thread \ (new \cup {t}) : stack'[u] = stack[u]
             /\ Pushed(n, f, Below(t)) /\ Chain(t, n) /\ f.at = "join" /\ f.rest = new
  <1> DEFINE S == Top(t).rest \cap children
             found == SetToSeq(S)
             new == tasks + 1 .. tasks'
             f == Frame("join", Top(t).child, new)
             n == <<f>> \o Below(t)
  <1>1. /\ stack[t] # <<>> /\ Top(t).at = "batch" /\ Stacked
        /\ tasks \in 0..MaxTasks /\ MaxTasks \in Nat /\ children \subseteq Child
        /\ tasks' = tasks + Cardinality(S) /\ tasks' <= MaxTasks
    BY ChildrenAssumption DEF Batch, In, Top, Inv, Typed
  <1>2. IsFiniteSet(S)
    BY <1>1, ChildrenAssumption, FS_Subset
  <1>3. /\ found \in [1..Cardinality(S) -> S]
        /\ Cardinality(S) \in Nat /\ Len(found) = Cardinality(S)
    BY <1>2, SetToSeqIs
  <1>4. stack' = [k \in Thread |-> IF k \in new THEN <<Frame("run", found[k - tasks], {})>>
                                   ELSE IF k = t THEN n ELSE stack[k]]
    <2>1. tasks + Len(found) = tasks'
      BY <1>1, <1>3
    <2> QED BY <2>1 DEF Batch, BatchStacks
  <1> HIDE DEF S, found
  <1>5. tasks' \in 0..MaxTasks /\ tasks <= tasks'
    BY <1>1, <1>3
  <1>6. \A k \in new : k > tasks /\ k <= tasks' /\ k \in Thread /\ k - tasks \in 1..Cardinality(S)
    BY <1>1, <1>3, <1>5 DEF Thread
  <1>7. t \notin new
    BY <1>1, <1>6 DEF Stacked
  <1>8. \A k \in new : \E c \in S : stack'[k] = <<Frame("run", c, {})>>
    BY <1>3, <1>4, <1>6
  <1>9. /\ stack'[t] = n /\ DOMAIN stack' = Thread
        /\ stack' = [u \in Thread |-> stack'[u]]
        /\ \A u \in Thread \ (new \cup {t}) : stack'[u] = stack[u]
    BY <1>4, <1>7
  <1>10. /\ Pushed(stack[t], Top(t), Below(t)) /\ Top(t) \in FrameSet
         /\ Below(t) \in Seq(FrameSet) /\ Chain(t, Below(t))
    BY <1>1, TopFacts
  <1>11. /\ Below(t) # <<>> /\ Head(Below(t)).at = "script"
         /\ <<Head(Below(t)).child, "batch", Top(t).child>> \in Calls
    BY <1>1, TopKinds DEF CallAt, OpOf
  <1>12. new \in SUBSET Thread
    BY <1>6
  <1>13. f \in FrameSet
    BY <1>10, <1>12, FrameTypes DEF CallAt
  <1>14. f.at = "join" /\ f.child = Top(t).child /\ f.rest = new
    BY FrameFields
  <1>15. OnTop(f, Head(Below(t)))
    BY <1>11, <1>14 DEF OnTop, OpOf, CallAt
  <1>16. Pushed(n, f, Below(t))
    BY <1>10, <1>13, PushIs
  <1> HIDE DEF f, n, new
  <1>17. Chain(t, n)
    BY <1>10, <1>11, <1>15, <1>16, PushedChain
  <1> QED BY <1>1, <1>5, <1>6, <1>7, <1>8, <1>9, <1>12, <1>14, <1>16, <1>17 DEF S, f, n, new

LEMMA BatchKeeps ==
  ASSUME Inv, NEW t \in Thread, Batch(t)
  PROVE  Stacked' /\ TableHeld' /\ LocksHeld' /\ Pending' /\ AllAborted'
  <1> DEFINE K == tasks + 1 .. tasks'
             f == Frame("join", Top(t).child, K)
             n == <<f>> \o Below(t)
  <1>1. /\ Stacked /\ TableHeld /\ LocksHeld /\ children \subseteq Child
        /\ UNCHANGED <<children, spawner, lock, status, ended, history>>
    BY DEF Batch, mutexes, Inv, Typed
  <1>2. /\ stack[t] # <<>> /\ Top(t).at = "batch"
        /\ tasks' \in 0..MaxTasks /\ tasks <= tasks' /\ K \in SUBSET Thread /\ t \notin K
        /\ \A k \in K : /\ k > tasks /\ k <= tasks'
                        /\ \E c \in Top(t).rest \cap children : stack'[k] = <<Frame("run", c, {})>>
        /\ stack'[t] = n /\ DOMAIN stack' = Thread
        /\ stack' = [u \in Thread |-> stack'[u]]
        /\ \A u \in Thread \ (K \cup {t}) : stack'[u] = stack[u]
        /\ Pushed(n, f, Below(t)) /\ Chain(t, n) /\ f.at = "join"
    BY BatchFacts
  <1> HIDE DEF K, f, n
  <1>3. /\ \A k \in K : /\ k > tasks /\ k <= tasks'
                        /\ \E c \in Child : stack'[k] = <<Frame("run", c, {})>>
    BY <1>1, <1>2
  <1>4. /\ Pushed(stack[t], Top(t), Below(t)) /\ Top(t) \in FrameSet /\ f \in FrameSet
    BY <1>1, <1>2, TopFacts DEF Pushed
  <1>5. /\ Top(t) \notin Sending /\ \A c : Top(t) \notin ScriptOf(c)
        /\ f \notin Sending /\ \A c : f \notin ScriptOf(c)
    BY <1>2, <1>4, ScriptFrames
  <1>6. ASSUME NEW F, Top(t) \notin F, f \notin F, One(stack[t], F)
        PROVE  (Has(n, F) <=> Has(stack[t], F)) /\ One(n, F)
    BY <1>2, <1>4, <1>6, PushedFacts
  <1>7. /\ (Has(n, Sending) <=> Has(stack[t], Sending)) /\ One(n, Sending)
        /\ \A c \in Child : (Has(n, ScriptOf(c)) <=> Has(stack[t], ScriptOf(c)))
                            /\ One(n, ScriptOf(c))
    BY <1>1, <1>5, <1>6 DEF TableHeld, LocksHeld
  <1>8. n # <<>> => Head(n).at \notin {"tell", "abort"}
    BY <1>2, PushedFacts
  <1>9. t = Loop => ~ ended /\ ~ Visiting
    BY <1>2 DEF Inv, Pending, Visiting, Top, Loop
  <1>10. UNCHANGED <<spawner, lock, status, ended, history>> /\ children \subseteq children'
    BY <1>1
  <1>11. stack[t] # <<>> \/ t = Loop
    BY <1>2
  <1> QED BY <1>2, <1>3, <1>7, <1>8, <1>9, <1>10, <1>11, GoesOn

-----------------------------------------------------------------------------
(* Signals.                                                                *)

LEMMA VisitFrames ==
  \A a \in {"tell", "abort"}, c \in Script, r \in SUBSET Child :
    /\ Frame(a, c, r) \in FrameSet
    /\ Frame(a, c, r).at = a /\ Frame(a, c, r).child = c /\ Frame(a, c, r).rest = r
  BY DEF FrameSet, Frame

LEMMA BothFrames ==
  ASSUME NEW f \in FrameSet, NEW g \in FrameSet, f.at = "tell", g.at = "abort",
         f.rest \subseteq Child, g.rest \subseteq Child
  PROVE  Bottom(Loop, f) /\ Bottom(Loop, g) /\ OnTop(f, g) /\ Chain(Loop, <<>>)
  <1>1. Bottom(Loop, f) /\ Bottom(Loop, g)
    BY DEF Bottom
  <1>2. OnTop(f, g)
    BY DEF OnTop
  <1>3. Chain(Loop, <<>>)
    BY DEF Chain
  <1> QED BY <1>1, <1>2, <1>3

LEMMA SignalKeeps ==
  ASSUME Inv, Signal
  PROVE  Stacked' /\ TableHeld' /\ LocksHeld' /\ Pending' /\ AllAborted'
  <1>1. PICK then \in {"abort", "go on"} :
          /\ Becomes(Loop, <<Frame("tell", Owner, {})>> \o
                           (IF then = "abort" THEN <<Frame("abort", Owner, {})>> ELSE <<>>))
          /\ asked' = IF then = "abort" THEN children ELSE asked
    BY DEF Signal
  <1> DEFINE f == Frame("tell", Owner, {})
             g == Frame("abort", Owner, {})
             s == IF then = "abort" THEN <<g>> ELSE <<>>
             n == <<f>> \o s
  <1>2. /\ stack[Loop] = <<>> /\ ~ ended /\ stack' = [stack EXCEPT ![Loop] = n]
        /\ UNCHANGED <<children, spawner, lock, status, tasks, ended, aborted>>
        /\ Stacked /\ TableHeld /\ LocksHeld /\ Loop \in Thread
    BY <1>1, Threads DEF Signal, Becomes, mutexes, Inv
  <1>3. /\ f \in FrameSet /\ g \in FrameSet /\ f.at = "tell" /\ g.at = "abort"
        /\ f.rest \subseteq Child /\ g.rest \subseteq Child
    <2>1. Owner \in Script /\ {} \in SUBSET Child
      BY DEF Script
    <2>2. f \in FrameSet /\ f.at = "tell" /\ f.rest = {}
      BY <2>1 DEF FrameSet, Frame
    <2>3. g \in FrameSet /\ g.at = "abort" /\ g.rest = {}
      BY <2>1 DEF FrameSet, Frame
    <2> HIDE DEF f, g
    <2> QED BY <2>2, <2>3
  <1>4. /\ f \notin Sending /\ \A c : f \notin ScriptOf(c)
        /\ g \notin Sending /\ \A c : g \notin ScriptOf(c)
    BY <1>3, ScriptFrames
  <1>5. Bottom(Loop, f) /\ Bottom(Loop, g) /\ OnTop(f, g) /\ Chain(Loop, <<>>)
    BY <1>3, BothFrames
  <1>6. Pushed(<<g>>, g, <<>>)
    BY <1>3, PushOneIs
  <1>7. s = <<>> \/ (s = <<g>> /\ s # <<>>)
    OBVIOUS
  <1> HIDE DEF f, g, s
  <1>8. s \in Seq(FrameSet)
    BY <1>6, <1>7 DEF Pushed
  <1>9. Pushed(n, f, s)
    BY <1>3, <1>8, PushIs
  <1> HIDE DEF n
  <1>10. /\ Chain(Loop, <<g>>) /\ Head(<<g>>) = g /\ <<g>> # <<>>
         /\ ~ Has(<<g>>, Sending) /\ One(<<g>>, Sending)
         /\ \A c : ~ Has(<<g>>, ScriptOf(c)) /\ One(<<g>>, ScriptOf(c))
    BY <1>4, <1>5, <1>6, PushedChain, PushedFacts, HasNone
  <1>11. Chain(Loop, n)
    <2>1. (s = <<>> => Bottom(Loop, f)) /\ (s # <<>> => OnTop(f, Head(s)))
      BY <1>5, <1>7, <1>10
    <2>2. Chain(Loop, s)
      BY <1>5, <1>7, <1>10
    <2> QED BY <1>9, <2>1, <2>2, PushedChain
  <1>12. /\ n # <<>> /\ Head(n) = f
         /\ ~ Has(n, Sending) /\ One(n, Sending)
         /\ \A c : ~ Has(n, ScriptOf(c)) /\ One(n, ScriptOf(c))
    <2>1. ~ Has(s, Sending) /\ One(s, Sending)
      BY <1>7, <1>10, HasNone
    <2>2. \A c : ~ Has(s, ScriptOf(c)) /\ One(s, ScriptOf(c))
      BY <1>7, <1>10, HasNone
    <2> QED BY <1>4, <1>9, <2>1, <2>2, PushedFacts
  <1>13. /\ Stacked' /\ stack'[Loop] = n
         /\ \A u \in Thread \ {Loop} : stack'[u] = stack[u]
    BY <1>2, <1>11, StackAlone
  <1>14. ~ Visiting /\ \A F : ~ Has(stack[Loop], F)
    BY <1>2, HasNone DEF Visiting
  <1>15. TableHeld'
    <2>1. spawner # Loop
      BY <1>2, <1>14 DEF TableHeld
    <2>2. \A u \in Thread : /\ Has(stack'[u], Sending) <=> Has(stack[u], Sending)
                            /\ One(stack'[u], Sending)
      BY <1>2, <1>12, <1>13, <1>14 DEF TableHeld
    <2> QED BY <1>2, <1>14, <2>1, <2>2 DEF TableHeld
  <1>16. LocksHeld'
    <2>1. ASSUME NEW u \in Thread, NEW c \in Child
          PROVE  /\ Has(stack'[u], ScriptOf(c)) <=> Has(stack[u], ScriptOf(c))
                 /\ One(stack'[u], ScriptOf(c))
      <3>1. CASE u = Loop
        BY <1>12, <1>13, <1>14, <3>1
      <3>2. CASE u # Loop
        BY <1>2, <1>13, <3>2 DEF LocksHeld
      <3> QED BY <3>1, <3>2
    <2> QED BY <1>2, <2>1 DEF LocksHeld
  <1>17. Pending'
    <2>1. ~ In(Loop, "abort")'
      BY <1>3, <1>12, <1>13 DEF In, Loop
    <2>2. asked' \subseteq children'
      BY <1>1, <1>2 DEF Inv, Pending
    <2> QED BY <1>2, <2>1, <2>2 DEF Pending
  <1>18. AllAborted'
    BY <1>2 DEF AllAborted
  <1> QED BY <1>13, <1>15, <1>16, <1>17, <1>18

\* A visit goes on: the loop has the table, and changes its own frame.
LEMMA VisitGoesOn ==
  ASSUME Inv, Visiting, NEW f \in FrameSet, f.at = Top(Loop).at, f.rest \subseteq Child,
         Replaces(Loop, f), spawner \in {Free, Loop}, spawner' = Loop,
         \A c \in Child : status'[c] = "Running" <=> status[c] = "Running",
         UNCHANGED <<lock, tasks, ended>>
  PROVE  /\ Stacked' /\ TableHeld' /\ LocksHeld'
         /\ ~ ended /\ In(Loop, f.at)' /\ Top(Loop)' = f
  <1> DEFINE n == <<f>> \o Below(Loop)
  <1>1. /\ Stacked /\ TableHeld /\ LocksHeld /\ Loop \in Thread
        /\ stack[Loop] # <<>> /\ Top(Loop).at \in {"tell", "abort"}
        /\ stack' = [stack EXCEPT ![Loop] = n]
    BY Threads DEF Inv, Visiting, Replaces, Becomes
  <1>2. /\ ~ Has(stack[Loop], Sending)
        /\ \A c : ~ Has(stack[Loop], ScriptOf(c))
    BY <1>1, VisitingAlone
  <1>3. /\ Pushed(stack[Loop], Top(Loop), Below(Loop)) /\ Top(Loop) \in FrameSet
        /\ Below(Loop) \in Seq(FrameSet) /\ Chain(Loop, Below(Loop))
    BY <1>1, TopFacts
  <1>4. Below(Loop) # <<>> => Head(Below(Loop)).at = "abort" /\ Top(Loop).at = "tell"
    BY <1>1, TopKinds
  <1>5. Bottom(Loop, f) /\ (Below(Loop) # <<>> => OnTop(f, Head(Below(Loop))))
    BY <1>1, <1>4 DEF Bottom, OnTop
  <1>6. Pushed(n, f, Below(Loop))
    BY <1>3, PushIs
  <1>7. f \notin Sending /\ \A c : f \notin ScriptOf(c)
    BY <1>1, ScriptFrames
  <1> HIDE DEF n
  <1>8. Chain(Loop, n) /\ n # <<>> /\ Head(n) = f
    BY <1>3, <1>5, <1>6, PushedChain, PushedFacts
  <1>9. /\ Stacked' /\ stack'[Loop] = n
        /\ \A u \in Thread \ {Loop} : stack'[u] = stack[u]
    BY <1>1, <1>8, StackAlone
  <1>10. ASSUME NEW F, f \notin F, ~ Has(stack[Loop], F), One(stack[Loop], F)
         PROVE  ~ Has(n, F) /\ One(n, F)
    BY <1>3, <1>6, <1>10, PushedFacts
  <1>11. ~ Has(n, Sending) /\ One(n, Sending)
    BY <1>1, <1>2, <1>7, <1>10 DEF TableHeld
  <1>12. \A c \in Child : ~ Has(n, ScriptOf(c)) /\ One(n, ScriptOf(c))
    BY <1>1, <1>2, <1>7, <1>10 DEF LocksHeld
  <1>13. In(Loop, f.at)' /\ Top(Loop)' = f
    BY <1>8, <1>9 DEF In, Top, Loop
  <1>14. Visiting'
    BY <1>1, <1>13 DEF Visiting, In
  <1>15. TableHeld'
    <2>1. \A u \in Thread : ~ Has(stack[u], Sending) /\ One(stack[u], Sending)
      BY <1>1, <1>2, Threads DEF TableHeld
    <2>2. \A u \in Thread : ~ Has(stack'[u], Sending) /\ One(stack'[u], Sending)
      BY <1>9, <1>11, <2>1
    <2> QED BY <1>14, <2>2 DEF TableHeld
  <1>16. LocksHeld'
    <2>1. \A u \in Thread, c \in Child : /\ Has(stack'[u], ScriptOf(c)) <=> Has(stack[u], ScriptOf(c))
                                         /\ One(stack'[u], ScriptOf(c))
      BY <1>1, <1>2, <1>9, <1>12 DEF LocksHeld
    <2> QED BY <1>1, <2>1 DEF LocksHeld
  <1>17. ~ ended
    BY <1>1 DEF Inv, Pending
  <1> QED BY <1>9, <1>13, <1>15, <1>16, <1>17

\* What Pending needs of such a step.
LEMMA VisitKeeps ==
  ASSUME Inv, VisitLocks \/ VisitNext \/ Tell \/ Abort
  PROVE  Stacked' /\ TableHeld' /\ LocksHeld' /\ Pending' /\ AllAborted'
  <1>1. /\ Loop \in Thread /\ children \subseteq Child /\ asked \subseteq children
        /\ aborted \subseteq Child /\ Stacked
        /\ status \in [Child -> {"Idle", "Running", "Error", "Aborted"}]
        /\ \A c \in Child : status[c] = "Running" <=> lock[c] # Free
    BY Threads DEF Inv, Typed, Pending, LocksHeld
  <1>2. Visiting
    BY DEF VisitLocks, VisitNext, Tell, Abort, Visiting, In, Top
  <1>3. /\ stack[Loop] # <<>> /\ Top(Loop).at \in {"tell", "abort"}
    BY <1>2 DEF Visiting
  <1>4. /\ Top(Loop) \in FrameSet /\ Top(Loop).child \in Script
        /\ Top(Loop).rest \subseteq Child
    BY <1>1, <1>3, TopFacts, TopKinds, FrameTypes
  <1>5. UNCHANGED <<children, lock, tasks, ended, asked>>
    BY DEF VisitLocks, VisitNext, Tell, Abort, mutexes, history
  <1>6. ASSUME NEW f \in FrameSet, f.at = Top(Loop).at, f.rest \subseteq Child,
               Replaces(Loop, f), spawner \in {Free, Loop}, spawner' = Loop,
               \A c \in Child : status'[c] = "Running" <=> status[c] = "Running",
               f.at = "abort" => asked \subseteq aborted' \cup f.rest \cup {f.child}
        PROVE  Stacked' /\ TableHeld' /\ LocksHeld' /\ Pending' /\ AllAborted'
    <2>1. UNCHANGED <<lock, tasks, ended>>
      BY <1>5
    <2>2. /\ Stacked' /\ TableHeld' /\ LocksHeld'
          /\ ~ ended /\ In(Loop, f.at)' /\ Top(Loop)' = f
      BY ONLY <1>2, <1>6, <2>1, VisitGoesOn, Inv
    <2>3. In(Loop, "abort")' => f.at = "abort"
      BY <2>2 DEF In, Top
    <2>4. Pending'
      BY <1>1, <1>5, <1>6, <2>2, <2>3 DEF Pending
    <2>5. AllAborted'
      BY <1>5, <2>2 DEF AllAborted
    <2> QED BY <2>2, <2>4, <2>5
  <1>7. CASE VisitLocks
    <2> DEFINE f == Frame(Top(Loop).at, Owner, children)
    <2>1. /\ f \in FrameSet
          /\ f.at = Top(Loop).at /\ f.rest = children
      BY <1>1, <1>3, VisitFrames, FrameTypes
    <2>2. /\ Replaces(Loop, f) /\ spawner \in {Free, Loop} /\ spawner' = Loop
          /\ UNCHANGED <<status, aborted>>
      BY <1>7 DEF VisitLocks, history
    <2> HIDE DEF f
    <2> QED BY <1>1, <1>6, <2>1, <2>2
  <1>8. CASE VisitNext
    <2>1. PICK c \in Top(Loop).rest : Replaces(Loop, Frame(Top(Loop).at, c, Top(Loop).rest \ {c}))
      BY <1>8 DEF VisitNext
    <2> DEFINE f == Frame(Top(Loop).at, c, Top(Loop).rest \ {c})
    <2>2. /\ f \in FrameSet
          /\ f.at = Top(Loop).at /\ f.child = c /\ f.rest = Top(Loop).rest \ {c}
      BY <1>3, <1>4, VisitFrames, FrameTypes
    <2>3. /\ Replaces(Loop, f) /\ spawner = Loop /\ spawner' = Loop
          /\ Top(Loop).child = Owner /\ UNCHANGED <<status, aborted>>
      BY <1>8, <2>1 DEF VisitNext, history, mutexes
    <2>4. f.at = "abort" => asked \subseteq aborted' \cup f.rest \cup {f.child}
      <3> HAVE f.at = "abort"
      <3>1. asked \subseteq aborted \cup Top(Loop).rest \cup {Owner}
        BY <1>3, <2>2, <2>3 DEF Inv, Pending, In, Top
      <3> QED BY <1>1, <2>2, <2>3, <3>1, FrameTypes
    <2> HIDE DEF f
    <2> QED BY <1>4, <1>6, <2>2, <2>3, <2>4
  <1>9. CASE Tell
    <2> DEFINE f == Frame("tell", Owner, Top(Loop).rest)
    <2>1. /\ Replaces(Loop, f) /\ spawner = Loop /\ spawner' = Loop /\ Top(Loop).at = "tell"
      BY <1>9 DEF Tell, In, Top, mutexes
    <2>2. /\ f \in FrameSet
          /\ f.at = Top(Loop).at /\ f.child = Owner /\ f.rest = Top(Loop).rest
      BY <1>4, <2>1, VisitFrames, FrameTypes
    <2>3. \A c \in Child : status'[c] = "Running" <=> status[c] = "Running"
      BY <1>1, <1>9 DEF Tell
    <2> HIDE DEF f
    <2> QED BY <1>4, <1>6, <2>1, <2>2, <2>3
  <1>10. CASE Abort
    <2> DEFINE f == Frame("abort", Owner, Top(Loop).rest)
    <2>1. /\ Replaces(Loop, f) /\ spawner = Loop /\ spawner' = Loop /\ Top(Loop).at = "abort"
          /\ aborted' = aborted \cup {Top(Loop).child}
      BY <1>10 DEF Abort, In, Top, mutexes
    <2>2. /\ f \in FrameSet
          /\ f.at = Top(Loop).at /\ f.child = Owner /\ f.rest = Top(Loop).rest
      BY <1>4, <2>1, VisitFrames, FrameTypes
    <2>3. \A c \in Child : status'[c] = "Running" <=> status[c] = "Running"
      BY <1>1, <1>10 DEF Abort
    <2>4. asked \subseteq aborted' \cup f.rest \cup {f.child}
      <3>1. asked \subseteq aborted \cup Top(Loop).rest \cup {Top(Loop).child}
        BY <1>3, <2>1 DEF Inv, Pending, In, Top
      <3> QED BY <2>1, <2>2, <3>1
    <2> HIDE DEF f
    <2> QED BY <1>4, <1>6, <2>1, <2>2, <2>3, <2>4
  <1> QED BY <1>7, <1>8, <1>9, <1>10

LEMMA VisitDoneKeeps ==
  ASSUME Inv, VisitDone
  PROVE  Stacked' /\ TableHeld' /\ LocksHeld' /\ Pending' /\ AllAborted'
  <1>1. /\ Loop \in Thread /\ asked \subseteq children /\ asked \subseteq Child
        /\ Stacked /\ TableHeld /\ LocksHeld
    BY Threads DEF Inv, Typed, Pending
  <1>2. /\ Visiting /\ stack[Loop] # <<>> /\ Top(Loop).at \in {"tell", "abort"}
        /\ spawner = Loop /\ Top(Loop).child = Owner /\ Top(Loop).rest = {}
        /\ spawner' = Free /\ ended' = (Top(Loop).at = "abort")
        /\ stack' = [stack EXCEPT ![Loop] = Below(Loop)]
        /\ UNCHANGED <<children, lock, status, tasks, asked, aborted>>
    BY DEF VisitDone, Visiting, Becomes, history
  <1>3. /\ ~ Has(stack[Loop], Sending)
        /\ \A c : ~ Has(stack[Loop], ScriptOf(c))
    BY <1>1, <1>2, VisitingAlone
  <1>4. /\ Pushed(stack[Loop], Top(Loop), Below(Loop)) /\ Chain(Loop, Below(Loop))
    BY <1>1, <1>2, TopFacts
  <1>5. Top(Loop).at = "abort" => Below(Loop) = <<>>
    BY <1>1, <1>2, TopKinds
  <1>6. /\ Stacked' /\ stack'[Loop] = Below(Loop)
        /\ \A u \in Thread \ {Loop} : stack'[u] = stack[u]
    BY <1>1, <1>2, <1>4, StackAlone
  <1>7. ASSUME NEW F, ~ Has(stack[Loop], F), One(stack[Loop], F)
        PROVE  ~ Has(Below(Loop), F) /\ One(Below(Loop), F)
    BY <1>4, <1>7, PushedFacts
  <1>8. TableHeld'
    <2>1. \A u \in Thread : ~ Has(stack[u], Sending) /\ One(stack[u], Sending)
      BY <1>1, <1>2, <1>3, Threads DEF TableHeld
    <2>2. \A u \in Thread : ~ Has(stack'[u], Sending) /\ One(stack'[u], Sending)
      BY <1>1, <1>6, <1>7, <2>1
    <2> QED BY <1>2, <2>2, Threads DEF TableHeld
  <1>9. LocksHeld'
    <2>1. \A c \in Child : ~ Has(Below(Loop), ScriptOf(c)) /\ One(Below(Loop), ScriptOf(c))
      BY <1>1, <1>3, <1>7 DEF LocksHeld
    <2>2. \A u \in Thread, c \in Child : /\ Has(stack'[u], ScriptOf(c)) <=> Has(stack[u], ScriptOf(c))
                                         /\ One(stack'[u], ScriptOf(c))
      BY <1>1, <1>3, <1>6, <2>1 DEF LocksHeld
    <2> QED BY <1>1, <1>2, <2>2 DEF LocksHeld
  <1>10. Pending'
    <2>1. spawner' # Loop
      BY <1>1, <1>2, Threads
    <2> QED BY <1>1, <1>2, <1>5, <1>6, <2>1 DEF Pending
  <1>11. AllAborted'
    <2>1. CASE Top(Loop).at = "abort"
      <3>1. asked \subseteq aborted \cup {Owner}
        BY <1>2, <2>1 DEF Inv, Pending, In, Top
      <3> QED BY <1>1, <1>2, <3>1, FrameTypes DEF AllAborted
    <2>2. CASE Top(Loop).at # "abort"
      BY <1>2, <2>2 DEF AllAborted
    <2> QED BY <2>1, <2>2
  <1> QED BY <1>6, <1>8, <1>9, <1>10, <1>11

-----------------------------------------------------------------------------
(* The types of the variables.                                             *)

LEMMA SpawnTyped ==
  ASSUME Inv, NEW t \in Thread, Spawn(t)
  PROVE  Typed'
  <1>1. /\ Typed /\ stack[t] # <<>> /\ Top(t).at \in CallAt
        /\ children \subseteq Child /\ Cardinality(children) <= MaxChildren
        /\ IsFiniteSet(Child) /\ MaxChildren \in Nat
    BY ChildrenAssumption DEF Inv, Typed, Spawn, In, Top, CallAt
  <1>2. Top(t).child \in Child
    BY <1>1, TopKinds DEF Inv
  <1>3. IsFiniteSet(children) /\ Cardinality(children) \in Nat
    BY <1>1, FS_Subset, FS_CardinalityType
  <1>4. /\ children' = IF Cardinality(children) >= MaxChildren THEN children
                       ELSE children \cup {Top(t).child}
        /\ UNCHANGED <<spawner, lock, status, tasks, ended, calls, served, asked, aborted>>
    BY DEF Spawn, mutexes, counters, history
  <1>5. \/ Cardinality(children \cup {Top(t).child}) = Cardinality(children)
        \/ Cardinality(children \cup {Top(t).child}) = Cardinality(children) + 1
    BY <1>3, FS_AddElement
  <1>6. Cardinality(children') <= MaxChildren
    <2>1. CASE Cardinality(children) >= MaxChildren
      BY <1>1, <1>4, <2>1
    <2>2. CASE ~ (Cardinality(children) >= MaxChildren)
      <3>1. Cardinality(children) < MaxChildren
        BY <1>1, <1>3, <2>2
      <3>2. children' = children \cup {Top(t).child}
        BY <1>4, <2>2
      <3> QED BY <1>1, <1>3, <1>5, <3>1, <3>2
    <2> QED BY <2>1, <2>2
  <1>7. children' \subseteq Child
    BY <1>1, <1>2, <1>4
  <1> QED BY <1>1, <1>4, <1>6, <1>7 DEF Typed

LEMMA ScriptTyped ==
  ASSUME Inv, NEW t \in Thread, ScriptStep(t) \/ SendLocks(t) \/ SendRuns(t) \/ Join(t)
  PROVE  Typed'
  <1>1. Typed /\ Stacked /\ MaxCalls \in Nat
    BY ChildrenAssumption DEF Inv
  <1>2. CASE Call(t)
    BY <1>1, <1>2 DEF Typed, Call, mutexes, history
  <1>3. CASE OwnerReturns(t)
    BY <1>1, <1>3 DEF Typed, OwnerReturns, mutexes, history, counters
  <1>4. CASE ChildReturns(t)
    BY <1>1, <1>4 DEF Typed, ChildReturns, history, counters
  <1>5. CASE SendLocks(t)
    BY <1>1, <1>5 DEF Typed, SendLocks, history, counters
  <1>6. CASE SendRuns(t)
    BY <1>1, <1>6 DEF Typed, SendRuns, Runs, history, counters
  <1>7. CASE Join(t)
    BY <1>1, <1>7 DEF Typed, Join, mutexes, history, counters
  <1> QED BY <1>2, <1>3, <1>4, <1>5, <1>6, <1>7 DEF ScriptStep

LEMMA ThreadTyped ==
  ASSUME Inv, NEW t \in Thread, Async(t) \/ Batch(t) \/ TaskRuns(t)
  PROVE  Typed'
  <1>1. Typed /\ Stacked /\ MaxTasks \in Nat
    BY ChildrenAssumption DEF Inv
  <1>2. CASE Async(t)
    <2>1. /\ tasks' \in 0..MaxTasks /\ tasks <= tasks'
          /\ UNCHANGED <<children, spawner, lock, status, ended, calls, served, asked, aborted>>
      BY <1>1, <1>2 DEF Typed, Async, mutexes, history, counters
    <2>2. served \subseteq 1..tasks'
      BY <1>1, <2>1 DEF Typed
    <2> QED BY <1>1, <2>1, <2>2 DEF Typed
  <1>3. CASE Batch(t)
    <2>1. tasks' \in 0..MaxTasks /\ tasks <= tasks'
      BY <1>3, BatchFacts
    <2>2. UNCHANGED <<children, spawner, lock, status, ended, calls, served, asked, aborted>>
      BY <1>3 DEF Batch, mutexes, history, counters
    <2>3. served \subseteq 1..tasks'
      BY <1>1, <2>1 DEF Typed
    <2> QED BY <1>1, <2>1, <2>2, <2>3 DEF Typed
  <1>4. CASE TaskRuns(t)
    <2>1. /\ stack[t] # <<>> /\ Top(t).at = "run"
          /\ lock' = [lock EXCEPT ![Top(t).child] = t]
          /\ status' = [status EXCEPT ![Top(t).child] = "Running"]
          /\ served' = served \cup {t}
          /\ UNCHANGED <<children, spawner, tasks, ended, calls, asked, aborted>>
      BY <1>4 DEF TaskRuns, Runs, In, Top, counters
    <2>2. t \in 1..tasks
      <3>1. t # Loop
        BY <1>1, <2>1, TopKinds
      <3>2. ~ (t > tasks)
        BY <1>1, <2>1 DEF Stacked
      <3>3. t \in 0..MaxTasks /\ Loop = 0 /\ tasks \in 0..MaxTasks
        BY <1>1, Threads DEF Typed
      <3> QED BY <1>1, <3>1, <3>2, <3>3
    <2> QED BY <1>1, <2>1, <2>2 DEF Typed
  <1> QED BY <1>2, <1>3, <1>4

LEMMA LoopTyped ==
  ASSUME Inv, Request \/ Signal \/ SignalStep
  PROVE  Typed'
  <1>1. Typed /\ Loop \in Thread
    BY Threads DEF Inv
  <1>2. CASE Request
    BY <1>1, <1>2 DEF Typed, Request, mutexes, history
  <1>3. CASE Signal
    BY <1>1, <1>3 DEF Typed, Signal, mutexes
  <1>4. CASE VisitLocks
    BY <1>1, <1>4 DEF Typed, VisitLocks, history, counters
  <1>5. CASE VisitNext
    BY <1>1, <1>5 DEF Typed, VisitNext, mutexes, history, counters
  <1>6. CASE Tell
    <2>1. status' \in [Child -> {"Idle", "Running", "Error", "Aborted"}]
      <3>1. PICK s \in {status[Top(Loop).child], "Aborted"} :
              status' = [status EXCEPT ![Top(Loop).child] = s]
        BY <1>6 DEF Tell
      <3>2. CASE Top(Loop).child \in Child
        BY <1>1, <3>1, <3>2 DEF Typed
      <3>3. CASE Top(Loop).child \notin Child
        BY <1>1, <3>1, <3>3 DEF Typed
      <3> QED BY <3>2, <3>3
    <2> QED BY <1>1, <1>6, <2>1 DEF Typed, Tell, mutexes, history, counters
  <1>7. CASE Abort
    <2>1. Top(Loop).child \in Child
      <3>1. stack[Loop] # <<>> /\ Top(Loop).child # Owner /\ Stacked
        BY <1>7 DEF Abort, In, Inv
      <3> QED BY <1>1, <3>1, TopFacts, FrameTypes DEF Script
    <2> QED BY <1>1, <1>7, <2>1 DEF Typed, Abort, mutexes, counters
  <1>8. CASE VisitDone
    BY <1>1, <1>8 DEF Typed, VisitDone, history, counters
  <1> QED BY <1>2, <1>3, <1>4, <1>5, <1>6, <1>7, <1>8 DEF SignalStep

-----------------------------------------------------------------------------
(* The invariant holds.                                                    *)

LEMMA InvInit == Init => Inv
  <1> SUFFICES ASSUME Init PROVE Inv
    OBVIOUS
  <1>1. /\ children = {} /\ spawner = Free /\ lock = [c \in Child |-> Free]
        /\ status = [c \in Child |-> "Idle"] /\ stack = [t \in Thread |-> <<>>]
        /\ tasks = 0 /\ ended = FALSE /\ calls = 0
        /\ served = {} /\ asked = {} /\ aborted = {}
    BY DEF Init
  <1>2. Typed
    <2>1. Cardinality(children) <= MaxChildren
      <3>1. Cardinality({}) = 0
        BY FS_EmptySet
      <3>2. Cardinality(children) = 0
        BY <1>1, <3>1, Zenon
      <3>3. 0 <= MaxChildren
        BY ChildrenAssumption
      <3> QED BY <3>2, <3>3
    <2>2. MaxTasks \in Nat /\ MaxCalls \in Nat
      BY ChildrenAssumption
    <2>3. tasks \in 0..MaxTasks /\ calls \in 0..MaxCalls
      BY <1>1, <2>2
    <2>4. /\ lock \in [Child -> Thread \cup {Free}]
          /\ status \in [Child -> {"Idle", "Running", "Error", "Aborted"}]
      BY <1>1
    <2>5. /\ children \subseteq Child /\ served \subseteq 1..tasks
          /\ asked \subseteq Child /\ aborted \subseteq Child
          /\ spawner \in Thread \cup {Free} /\ ended \in BOOLEAN
      BY <1>1
    <2> QED BY <2>1, <2>3, <2>4, <2>5 DEF Typed
  <1>3. Stacked
    BY <1>1 DEF Stacked, Chain
  <1>4. \A t \in Thread : stack[t] = <<>>
    BY <1>1
  <1>5. TableHeld
    BY <1>1, <1>4, HasNone, Threads DEF TableHeld
  <1>6. LocksHeld
    BY <1>1, <1>4, HasNone, Threads DEF LocksHeld
  <1>7. Pending /\ AllAborted
    BY <1>1, Threads DEF Pending, AllAborted
  <1> QED BY <1>2, <1>3, <1>5, <1>6, <1>7 DEF Inv

LEMMA StutterKeeps ==
  ASSUME Inv, UNCHANGED vars
  PROVE  Inv'
  <1>1. UNCHANGED <<children, spawner, lock, status, stack, tasks, ended, calls, served, asked, aborted>>
    BY DEF vars, mutexes, counters, history
  <1>2. UNCHANGED Typed
    BY <1>1 DEF Typed
  <1>3. UNCHANGED Stacked
    BY <1>1 DEF Stacked
  <1>4. UNCHANGED TableHeld
    BY <1>1 DEF TableHeld, Visiting, Top
  <1>5. UNCHANGED LocksHeld
    BY <1>1 DEF LocksHeld
  <1>6. UNCHANGED Pending
    BY <1>1 DEF Pending, In, Top
  <1>7. UNCHANGED AllAborted
    BY <1>1 DEF AllAborted
  <1> QED BY <1>2, <1>3, <1>4, <1>5, <1>6, <1>7 DEF Inv

LEMMA InvNext ==
  ASSUME Inv, [Next]_vars
  PROVE  Inv'
  <1>1. CASE Request
    BY <1>1, RequestKeeps, LoopTyped DEF Inv
  <1>2. CASE Signal
    BY <1>2, SignalKeeps, LoopTyped DEF Inv
  <1>3. CASE SignalStep
    <2>1. CASE VisitDone
      BY <1>3, <2>1, VisitDoneKeeps, LoopTyped DEF Inv
    <2>2. CASE VisitLocks \/ VisitNext \/ Tell \/ Abort
      BY <1>3, <2>2, VisitKeeps, LoopTyped DEF Inv
    <2> QED BY <1>3, <2>1, <2>2 DEF SignalStep
  <1>4. ASSUME NEW t \in Thread, ScriptStep(t) PROVE Inv'
    <2>1. Typed'
      BY <1>4, ScriptTyped
    <2>2. CASE Call(t)
      BY <2>1, <2>2, CallKeeps DEF Inv
    <2>3. CASE OwnerReturns(t)
      BY <2>1, <2>3, OwnerReturnsKeeps DEF Inv
    <2>4. CASE ChildReturns(t)
      BY <2>1, <2>4, ChildReturnsKeeps DEF Inv
    <2> QED BY <1>4, <2>2, <2>3, <2>4 DEF ScriptStep
  <1>5. ASSUME NEW t \in Thread, CallStep(t) PROVE Inv'
    <2>1. CASE Spawn(t)
      BY <2>1, SpawnTyped, SpawnJoinKeep DEF Inv
    <2>2. CASE SendLocks(t)
      BY <2>2, ScriptTyped, SendLocksKeeps DEF Inv
    <2>3. CASE SendRuns(t)
      <3>1. /\ stack[t] # <<>> /\ Top(t).at \in {"sending", "run"} /\ Runs(t, Top(t).child)
            /\ UNCHANGED <<children, spawner, tasks, ended, asked, aborted>>
        BY <2>3 DEF SendRuns, In, Top, history
      <3> QED BY <2>3, <3>1, ScriptTyped, RunsKeeps DEF Inv
    <2>4. CASE Async(t)
      BY <2>4, ThreadTyped, AsyncKeeps DEF Inv
    <2>5. CASE Batch(t)
      BY <2>5, ThreadTyped, BatchKeeps DEF Inv
    <2>6. CASE Join(t)
      BY <2>6, ScriptTyped, SpawnJoinKeep DEF Inv
    <2>7. CASE TaskRuns(t)
      <3>1. /\ stack[t] # <<>> /\ Top(t).at \in {"sending", "run"} /\ Runs(t, Top(t).child)
            /\ UNCHANGED <<children, spawner, tasks, ended, asked, aborted>>
        BY <2>7 DEF TaskRuns, In, Top
      <3> QED BY <2>7, <3>1, ThreadTyped, RunsKeeps DEF Inv
    <2> QED BY <1>5, <2>1, <2>2, <2>3, <2>4, <2>5, <2>6, <2>7 DEF CallStep
  <1>6. CASE UNCHANGED vars
    BY <1>6, StutterKeeps
  <1> QED BY <1>1, <1>2, <1>3, <1>4, <1>5, <1>6 DEF Next

LEMMA SpecInv == Spec => []Inv
  BY InvInit, InvNext, PTL DEF Spec

\* The state is well-formed, whatever the scripts call: the table keeps its
\* limit, and a child is Running exactly while the one thread that holds its
\* mutex runs its script.
THEOREM SpecTypeOK == Spec => []TypeOK
  <1>1. ASSUME Inv PROVE TypeOK
    <2>1. \A c \in Child, t \in Thread : RunsOn(c, t) <=> Has(stack[t], ScriptOf(c))
      BY DEF RunsOn, Has, ScriptOf
    <2> QED BY <1>1, <2>1 DEF Inv, Typed, Stacked, LocksHeld, TypeOK
  <1> QED BY <1>1, SpecInv, PTL

\* abort_all: when the runner has left its loop, every child there was when
\* the stop came has been aborted, however many scripts were running or waiting
\* in the meantime.
THEOREM SpecAllAborted == Spec => []AllAborted
  <1>1. Inv => AllAborted
    BY DEF Inv
  <1> QED BY <1>1, SpecInv, PTL

-----------------------------------------------------------------------------
(* The absence of deadlock.  A thread that runs a child that calls back and *)
(* is not Nested is one of a batch the loop waits for.                     *)

Batched(c) == CallsBack(c) /\ ~ Nested(c)

RootOf(s) == s[Len(s)].child

Rooted ==
  \A k \in Thread \ {Loop} :
    stack[k] # <<>> /\ Batched(RootOf(stack[k])) => In(Loop, "join") /\ k \in Top(Loop).rest

Joined ==
  \A t \in Thread : In(t, "join") =>
    /\ Top(t).rest \subseteq 1..tasks
    /\ t # Loop => \A k \in Top(t).rest : stack[k] # <<>> => ~ Batched(RootOf(stack[k]))

\* What a step of t may do to the stacks: it starts the threads K, and waits for
\* them if they are a batch.
Moves(t, K) ==
  /\ tasks \in 0..MaxTasks /\ tasks' \in 0..MaxTasks /\ tasks <= tasks'
  /\ \A u \in Thread \ (K \cup {t}) : stack'[u] = stack[u]
  /\ \A k \in K : /\ k > tasks /\ k <= tasks'
                  /\ \E c \in Child : /\ stack'[k] = <<Frame("run", c, {})>>
                                      /\ Batched(c) => t = Loop /\ In(t, "join")'
  /\ t # Loop => stack[t] # <<>>
  /\ t # Loop /\ stack'[t] # <<>> => RootOf(stack'[t]) = RootOf(stack[t])
  /\ In(t, "join") => \A k \in Top(t).rest : stack[k] = <<>>
  /\ In(t, "join")' => Top(t)'.rest = K

LEMMA MovesKeep ==
  ASSUME Rooted, Joined, NEW t \in Thread, NEW K \in SUBSET Thread, t \notin K, Moves(t, K)
  PROVE  Rooted' /\ Joined'
  <1>1. Loop = 0 /\ Loop \in Thread /\ \A k \in Thread : k \in Nat
    BY Threads
  <1>2. /\ tasks \in 0..MaxTasks /\ tasks' \in 0..MaxTasks /\ tasks <= tasks'
        /\ \A u \in Thread \ (K \cup {t}) : stack'[u] = stack[u]
        /\ t # Loop => stack[t] # <<>>
        /\ t # Loop /\ stack'[t] # <<>> => RootOf(stack'[t]) = RootOf(stack[t])
        /\ In(t, "join") => \A k \in Top(t).rest : stack[k] = <<>>
        /\ In(t, "join")' => Top(t)'.rest = K
    BY DEF Moves
  <1>3. ASSUME NEW k \in K
        PROVE  /\ k > tasks /\ k <= tasks' /\ k # Loop /\ ~ In(k, "join")'
               /\ Batched(RootOf(stack'[k])) => t = Loop /\ In(t, "join")'
    <2>1. PICK c \in Child : /\ stack'[k] = <<Frame("run", c, {})>>
                             /\ Batched(c) => t = Loop /\ In(t, "join")'
      BY DEF Moves
    <2>2. Head(stack'[k]) = Frame("run", c, {}) /\ RootOf(stack'[k]) = Frame("run", c, {}).child
      BY <2>1 DEF RootOf
    <2>3. RootOf(stack'[k]) = c /\ Head(stack'[k]).at = "run"
      BY <2>2, FrameFields
    <2>4. ~ In(k, "join")'
      BY <2>3 DEF In
    <2>5. k > tasks /\ k <= tasks'
      BY DEF Moves
    <2> QED BY <1>1, <1>2, <2>1, <2>3, <2>4, <2>5
  <1>4. ASSUME NEW k \in Thread \ K, k # Loop, stack'[k] # <<>>
        PROVE  stack[k] # <<>> /\ RootOf(stack'[k]) = RootOf(stack[k])
    BY <1>2, <1>4
  <1>5. ASSUME NEW u \in Thread \ (K \cup {t})
        PROVE  (In(u, "join")' <=> In(u, "join")) /\ Top(u)' = Top(u)
    BY <1>2 DEF In, Top
  <1>6. Rooted'
    <2> SUFFICES ASSUME NEW k \in Thread \ {Loop}, stack'[k] # <<>>, Batched(RootOf(stack'[k]))
                 PROVE  In(Loop, "join")' /\ k \in Top(Loop)'.rest
      BY DEF Rooted, Loop
    <2>1. CASE k \in K
      BY <1>2, <1>3, <2>1
    <2>2. CASE k \notin K
      <3>1. In(Loop, "join") /\ k \in Top(Loop).rest /\ stack[k] # <<>>
        BY <1>4, <2>2 DEF Rooted
      <3>2. t # Loop
        BY <1>2, <3>1
      <3>3. Loop \notin K
        BY <1>3
      <3> QED BY <1>1, <1>5, <3>1, <3>2, <3>3
    <2> QED BY <2>1, <2>2
  <1>7. Joined'
    <2> SUFFICES ASSUME NEW u \in Thread, In(u, "join")'
                 PROVE  /\ Top(u)'.rest \subseteq 1..tasks'
                        /\ u # Loop => \A k \in Top(u)'.rest :
                             stack'[k] # <<>> => ~ Batched(RootOf(stack'[k]))
      BY DEF Joined, Loop
    <2>1. CASE u = t
      <3>1. Top(u)'.rest = K
        BY <1>2, <2>1
      <3>2. \A k \in K : k \in 1..tasks'
        BY <1>1, <1>2, <1>3
      <3> QED BY <1>3, <2>1, <3>1, <3>2
    <2>2. CASE u \in K
      BY <1>3, <2>2
    <2>3. CASE u # t /\ u \notin K
      <3>1. /\ Top(u)'.rest = Top(u).rest /\ Top(u).rest \subseteq 1..tasks
            /\ u # Loop => \A k \in Top(u).rest : stack[k] # <<>> => ~ Batched(RootOf(stack[k]))
        BY <1>5, <2>3 DEF Joined
      <3>2. ASSUME NEW k \in Top(u).rest, stack'[k] # <<>>, u # Loop
            PROVE  ~ Batched(RootOf(stack'[k]))
        <4>1. k \in 1..tasks
          BY <3>1
        <4>2. k \notin K /\ k # Loop
          BY <1>1, <1>2, <1>3, <4>1
        <4>3. k \in Thread
          <5>1. tasks \in 0..MaxTasks /\ MaxTasks \in Nat
            BY <1>2, ChildrenAssumption
          <5> QED BY <4>1, <5>1 DEF Thread
        <4> QED BY <1>4, <3>1, <3>2, <4>2, <4>3
      <3>3. \A k \in 1..tasks : k \in 1..tasks'
        BY <1>2
      <3> QED BY <3>1, <3>2, <3>3
    <2> QED BY <2>1, <2>2, <2>3
  <1> QED BY <1>6, <1>7

\* What lies below a frame.
LEMMA BelowFacts ==
  ASSUME Stacked, NEW t \in Thread, stack[t] # <<>>, Below(t) # <<>>
  PROVE  /\ RootOf(Below(t)) = RootOf(stack[t])
         /\ Head(Below(t)).at \in {"script", "sending", "run", "abort"}
         /\ Head(Below(t)).at = "script" /\ t # Loop => Head(Below(t)).child # Owner
         /\ Tail(Below(t)) # <<>> =>
              /\ RootOf(Tail(Below(t))) = RootOf(stack[t])
              /\ Head(Tail(Below(t))).at \in {"script", "sending", "run", "abort"}
  <1> DEFINE g == Head(Below(t))
             r == Tail(Below(t))
  <1>1. /\ Pushed(stack[t], Top(t), Below(t)) /\ Below(t) \in Seq(FrameSet)
        /\ Chain(t, Below(t)) /\ OnTop(Top(t), g) /\ g \in FrameSet
    BY TopFacts
  <1>2. Pushed(Below(t), g, r)
    BY <1>1, PopIs
  <1>3. /\ r = <<>> => Bottom(t, g)
        /\ r # <<>> => OnTop(g, Head(r))
    BY <1>1, <1>2, PushedChain
  <1> HIDE DEF g, r
  <1>4. RootOf(Below(t)) = RootOf(stack[t])
    BY <1>1, PushedFacts DEF RootOf
  <1>5. r # <<>> => RootOf(r) = RootOf(stack[t])
    BY <1>2, <1>4, PushedFacts DEF RootOf
  <1>6. \A e, h : OnTop(e, h) => h.at \in {"script", "sending", "run", "abort"}
    BY DEF OnTop
  <1>7. g.at = "script" /\ t # Loop => g.child # Owner
    <2> HAVE g.at = "script" /\ t # Loop
    <2>1. r # <<>>
      BY <1>3 DEF Bottom
    <2>2. PICK c \in Child : g = Frame("script", c, {})
      BY <1>3, <2>1 DEF OnTop, CallAt
    <2> QED BY <2>2, FrameFields, FrameTypes
  <1> QED BY <1>1, <1>3, <1>4, <1>5, <1>6, <1>7 DEF g, r

\* A step of t that starts no thread.
LEMMA MovesAlone ==
  ASSUME Inv, NEW t \in Thread, NEW n, stack' = [stack EXCEPT ![t] = n], UNCHANGED tasks,
         t # Loop => stack[t] # <<>> /\ (n # <<>> => RootOf(n) = RootOf(stack[t])),
         n # <<>> => Head(n).at # "join",
         In(t, "join") => \A k \in Top(t).rest : stack[k] = <<>>
  PROVE  \E K \in SUBSET Thread : t \notin K /\ Moves(t, K)
  <1>1. /\ tasks \in 0..MaxTasks /\ tasks' \in 0..MaxTasks /\ tasks <= tasks'
        /\ stack \in [Thread -> Seq(FrameSet)]
    BY DEF Inv, Typed, Stacked
  <1>2. stack'[t] = n /\ \A u \in Thread \ {t} : stack'[u] = stack[u]
    BY <1>1
  <1>3. ~ In(t, "join")'
    BY <1>2 DEF In
  <1>4. Moves(t, {})
    BY <1>1, <1>2, <1>3 DEF Moves
  <1> QED BY <1>4

LEMMA PopMoves ==
  ASSUME Inv, NEW t \in Thread, stack[t] # <<>>, stack' = [stack EXCEPT ![t] = Below(t)],
         UNCHANGED tasks, In(t, "join") => \A k \in Top(t).rest : stack[k] = <<>>
  PROVE  \E K \in SUBSET Thread : t \notin K /\ Moves(t, K)
  <1>1. Below(t) # <<>> => RootOf(Below(t)) = RootOf(stack[t]) /\ Head(Below(t)).at # "join"
    BY BelowFacts DEF Inv
  <1> QED BY <1>1, MovesAlone

LEMMA PushMoves ==
  ASSUME Inv, NEW t \in Thread, stack[t] # <<>>, NEW f \in FrameSet, f.at # "join",
         stack' = [stack EXCEPT ![t] = <<f>> \o stack[t]], UNCHANGED tasks, ~ In(t, "join")
  PROVE  \E K \in SUBSET Thread : t \notin K /\ Moves(t, K)
  <1>1. Pushed(<<f>> \o stack[t], f, stack[t])
    BY PushIs DEF Inv, Stacked
  <1> DEFINE n == <<f>> \o stack[t]
  <1>2. stack' = [stack EXCEPT ![t] = n] /\ Pushed(n, f, stack[t])
    BY <1>1
  <1> HIDE DEF n
  <1>3. n # <<>> /\ Head(n) = f /\ RootOf(n) = RootOf(stack[t])
    BY <1>2, PushedFacts DEF RootOf
  <1> QED BY <1>2, <1>3, MovesAlone

LEMMA ReplaceMoves ==
  ASSUME Inv, NEW t \in Thread, stack[t] # <<>>, t = Loop \/ Below(t) # <<>>,
         NEW f \in FrameSet, f.at # "join", Replaces(t, f), UNCHANGED tasks, ~ In(t, "join")
  PROVE  \E K \in SUBSET Thread : t \notin K /\ Moves(t, K)
  <1>1. Below(t) \in Seq(FrameSet)
    BY TopFacts DEF Inv
  <1> DEFINE n == <<f>> \o Below(t)
  <1>2. stack' = [stack EXCEPT ![t] = n] /\ Pushed(n, f, Below(t))
    BY <1>1, PushIs DEF Replaces, Becomes
  <1> HIDE DEF n
  <1>3. n # <<>> /\ Head(n) = f
    BY <1>2, PushedFacts
  <1>4. t # Loop => RootOf(n) = RootOf(stack[t])
    <2> HAVE t # Loop
    <2>1. RootOf(Below(t)) = RootOf(stack[t])
      BY BelowFacts DEF Inv
    <2> QED BY <1>2, <2>1, PushedFacts DEF RootOf
  <1> QED BY <1>2, <1>3, <1>4, MovesAlone

\* A child that is sent to, or run in the background, does not call back or is
\* Nested.
LEMMA SentTo ==
  ASSUME NEW s, NEW c, NEW op \in {"send", "async"}, <<s, op, c>> \in Calls
  PROVE  s \in Script /\ c \in Child /\ ~ Batched(c)
  <1>1. s \in Script /\ op \in Operation /\ c \in Child
    BY FrameTypes
  <1>2. op \in Operation \ {"spawn"} /\ op # "batch"
    BY <1>1
  <1>3. CallsBack(c) => Nested(c)
    BY <1>1, <1>2 DEF Nested
  <1> QED BY <1>1, <1>3 DEF Batched

LEMMA AsyncMoves ==
  ASSUME Inv, NEW t \in Thread, Async(t)
  PROVE  \E K \in SUBSET Thread : t \notin K /\ Moves(t, K)
  <1>1. stack[t] # <<>> /\ Top(t).at = "async" /\ ~ In(t, "join") /\ Stacked
    BY DEF Async, In, Top, Inv
  <1>2. CASE Top(t).child \notin children
    BY <1>1, <1>2, PopMoves DEF Async, Becomes
  <1>3. CASE Top(t).child \in children
    <2> DEFINE k == tasks + 1
               run == <<Frame("run", Top(t).child, {})>>
    <2>1. tasks < MaxTasks /\ tasks' = k /\ stack' = [stack EXCEPT ![t] = Below(t), ![k] = run]
      BY <1>3 DEF Async
    <2>2. tasks \in 0..MaxTasks /\ MaxTasks \in Nat /\ stack \in [Thread -> Seq(FrameSet)]
      BY ChildrenAssumption DEF Inv, Typed, Stacked
    <2>3. k \in Thread /\ k > tasks /\ k <= tasks' /\ tasks' \in 0..MaxTasks /\ tasks <= tasks'
      BY <2>1, <2>2 DEF Thread
    <2>4. t # k
      BY <1>1, <2>3 DEF Stacked
    <2>5. /\ Below(t) # <<>> /\ Top(t).child \in Child
          /\ <<Head(Below(t)).child, "async", Top(t).child>> \in Calls
      BY <1>1, TopKinds DEF CallAt, OpOf
    <2>6. ~ Batched(Top(t).child)
      BY <2>5, SentTo
    <2> HIDE DEF k
    <2>7. /\ stack'[t] = Below(t) /\ stack'[k] = run
          /\ \A u \in Thread \ {k, t} : stack'[u] = stack[u]
      BY <2>1, <2>2, <2>3, <2>4
    <2>8. RootOf(Below(t)) = RootOf(stack[t]) /\ Head(Below(t)).at # "join"
      BY <1>1, <2>5, BelowFacts
    <2>9. ~ In(t, "join")'
      BY <2>7, <2>8 DEF In
    <2>10. Moves(t, {k})
      BY <1>1, <2>2, <2>3, <2>5, <2>6, <2>7, <2>8, <2>9 DEF Moves
    <2> QED BY <2>3, <2>4, <2>10
  <1> QED BY <1>2, <1>3

LEMMA BatchMoves ==
  ASSUME Inv, NEW t \in Thread, Batch(t)
  PROVE  \E K \in SUBSET Thread : t \notin K /\ Moves(t, K)
  <1> DEFINE K == tasks + 1 .. tasks'
             f == Frame("join", Top(t).child, K)
             n == <<f>> \o Below(t)
  <1>1. /\ stack[t] # <<>> /\ Top(t).at = "batch"
        /\ tasks' \in 0..MaxTasks /\ tasks <= tasks' /\ K \in SUBSET Thread /\ t \notin K
        /\ \A k \in K : /\ k > tasks /\ k <= tasks'
                        /\ \E c \in Top(t).rest \cap children : stack'[k] = <<Frame("run", c, {})>>
        /\ stack'[t] = n
        /\ \A u \in Thread \ (K \cup {t}) : stack'[u] = stack[u]
        /\ Pushed(n, f, Below(t)) /\ f.at = "join" /\ f.rest = K
    BY BatchFacts
  <1> HIDE DEF K, f, n
  <1>2. Stacked /\ children \subseteq Child /\ tasks \in 0..MaxTasks
    BY DEF Inv, Typed
  <1>3. /\ Below(t) # <<>> /\ Head(Below(t)).at = "script"
        /\ Top(t).rest = BatchOf(Head(Below(t)).child)
    BY <1>1, <1>2, TopKinds DEF CallAt
  <1>4. RootOf(Below(t)) = RootOf(stack[t]) /\ (t # Loop => Head(Below(t)).child # Owner)
    BY <1>1, <1>2, <1>3, BelowFacts
  <1>5. n # <<>> /\ Head(n) = f /\ RootOf(n) = RootOf(stack[t])
    BY <1>1, <1>3, <1>4, PushedFacts DEF RootOf
  <1>6. In(t, "join")' /\ Top(t)' = f
    <2>1. stack'[t] # <<>> /\ Head(stack'[t]) = f
      BY <1>1, <1>5
    <2> QED BY <1>1, <2>1 DEF In, Top
  <1>7. ASSUME NEW c \in BatchOf(Head(Below(t)).child), Batched(c) PROVE t = Loop
    <2>1. <<Head(Below(t)).child, "batch", c>> \in Calls
      BY DEF BatchOf
    <2>2. Head(Below(t)).child = Owner
      BY <1>7, <2>1, FrameTypes DEF Batched, Nested, Operation
    <2> QED BY <1>4, <2>2
  <1>8. ASSUME NEW k \in K
        PROVE  \E c \in Child : /\ stack'[k] = <<Frame("run", c, {})>>
                                /\ Batched(c) => t = Loop /\ In(t, "join")'
    BY <1>1, <1>2, <1>3, <1>6, <1>7
  <1>9. ~ In(t, "join")
    BY <1>1 DEF In, Top
  <1>10. Moves(t, K)
    BY <1>1, <1>2, <1>5, <1>6, <1>8, <1>9 DEF Moves
  <1> QED BY <1>1, <1>10

LEMMA SomeMoves ==
  ASSUME Inv, Next
  PROVE  \E t \in Thread : \E K \in SUBSET Thread : t \notin K /\ Moves(t, K)
  <1>1. Loop \in Thread /\ Stacked
    BY Threads DEF Inv
  <1>2. CASE Request
    <2> DEFINE n == <<Frame("script", Owner, {})>>
    <2>1. stack[Loop] = <<>> /\ stack' = [stack EXCEPT ![Loop] = n] /\ UNCHANGED tasks
      BY <1>2 DEF Request, Becomes
    <2>2. Head(n).at # "join"
      BY FrameFields
    <2>3. ~ In(Loop, "join")
      BY <2>1 DEF In
    <2> HIDE DEF n
    <2> QED BY <1>1, <2>1, <2>2, <2>3, MovesAlone
  <1>3. CASE Signal
    <2>1. PICK then \in {"abort", "go on"} :
            Becomes(Loop, <<Frame("tell", Owner, {})>> \o
                          (IF then = "abort" THEN <<Frame("abort", Owner, {})>> ELSE <<>>))
      BY <1>3 DEF Signal
    <2> DEFINE s == IF then = "abort" THEN <<Frame("abort", Owner, {})>> ELSE <<>>
               n == <<Frame("tell", Owner, {})>> \o s
    <2>2. stack[Loop] = <<>> /\ stack' = [stack EXCEPT ![Loop] = n] /\ UNCHANGED tasks
      BY <1>3, <2>1 DEF Signal, Becomes
    <2>3. s \in Seq(FrameSet) /\ Frame("tell", Owner, {}) \in FrameSet
      <3>1. Frame("tell", Owner, {}) \in FrameSet /\ Frame("abort", Owner, {}) \in FrameSet
        BY DEF FrameSet, Frame, Script
      <3>2. Pushed(<<Frame("abort", Owner, {})>>, Frame("abort", Owner, {}), <<>>)
        BY <3>1, PushOneIs
      <3>3. s = <<>> \/ s = <<Frame("abort", Owner, {})>>
        OBVIOUS
      <3> HIDE DEF s
      <3> QED BY <3>1, <3>2, <3>3 DEF Pushed
    <2> HIDE DEF s
    <2>4. Pushed(n, Frame("tell", Owner, {}), s)
      BY <2>3, PushIs
    <2> HIDE DEF n
    <2>5. Head(n).at # "join"
      <3>1. Head(n) = Frame("tell", Owner, {})
        BY <2>4, PushedFacts
      <3>2. Frame("tell", Owner, {}).at = "tell"
        BY FrameFields
      <3> QED BY <3>1, <3>2
    <2>6. ~ In(Loop, "join")
      BY <2>2 DEF In
    <2> QED BY <1>1, <2>2, <2>5, <2>6, MovesAlone
  <1>4. CASE SignalStep
    <2>1. /\ Visiting /\ stack[Loop] # <<>> /\ Top(Loop).at \in {"tell", "abort"}
          /\ ~ In(Loop, "join") /\ UNCHANGED tasks
      BY <1>4 DEF SignalStep, VisitLocks, VisitNext, Tell, Abort, VisitDone, Visiting, In, Top
    <2>2. Top(Loop).rest \subseteq Child /\ children \subseteq Child
      BY <1>1, <2>1, TopKinds DEF Inv, Typed
    <2>3. ASSUME NEW c \in Script, NEW r \in SUBSET Child, NEW a \in {"tell", "abort"},
                 Replaces(Loop, Frame(a, c, r))
          PROVE  \E K \in SUBSET Thread : Loop \notin K /\ Moves(Loop, K)
      <3>1. Frame(a, c, r) \in FrameSet /\ Frame(a, c, r).at = a
        BY VisitFrames
      <3>2. Frame(a, c, r).at # "join"
        BY <3>1
      <3> QED BY <1>1, <2>1, <2>3, <3>1, <3>2, ReplaceMoves
    <2>4. CASE VisitLocks
      BY <1>1, <2>1, <2>2, <2>3, <2>4, FrameTypes DEF VisitLocks
    <2>5. CASE VisitNext
      <3>1. PICK c \in Top(Loop).rest : Replaces(Loop, Frame(Top(Loop).at, c, Top(Loop).rest \ {c}))
        BY <2>5 DEF VisitNext
      <3>2. c \in Script /\ Top(Loop).rest \ {c} \in SUBSET Child
        BY <2>2, FrameTypes
      <3> QED BY <1>1, <2>1, <2>3, <3>1, <3>2
    <2>6. CASE Tell
      BY <1>1, <2>2, <2>3, <2>6, FrameTypes DEF Tell
    <2>7. CASE Abort
      BY <1>1, <2>2, <2>3, <2>7, FrameTypes DEF Abort
    <2>8. CASE VisitDone
      BY <1>1, <2>1, <2>8, PopMoves DEF VisitDone, Becomes
    <2> QED BY <1>4, <2>4, <2>5, <2>6, <2>7, <2>8 DEF SignalStep
  <1>5. ASSUME NEW t \in Thread, ScriptStep(t) \/ CallStep(t)
        PROVE  \E K \in SUBSET Thread : t \notin K /\ Moves(t, K)
    <2>1. CASE Call(t)
      <3>1. PICK c \in Child, op \in Operation :
              /\ <<Top(t).child, op, c>> \in Calls
              /\ Becomes(t, <<Frame(op, c, IF op = "batch" THEN BatchOf(Top(t).child) ELSE {})>> \o stack[t])
        BY <2>1 DEF Call
      <3> DEFINE f == Frame(op, c, IF op = "batch" THEN BatchOf(Top(t).child) ELSE {})
      <3>2. op \in {"spawn", "send", "async", "batch"}
        BY DEF Operation
      <3>3. f \in FrameSet
        BY <3>2, FrameTypes DEF CallAt
      <3>4. f.at = op
        BY FrameFields
      <3>5. stack[t] # <<>> /\ ~ In(t, "join") /\ UNCHANGED tasks
        BY <2>1 DEF Call, In, Top
      <3>6. stack' = [stack EXCEPT ![t] = <<f>> \o stack[t]]
        BY <3>1 DEF Becomes
      <3> HIDE DEF f
      <3> QED BY <3>2, <3>3, <3>4, <3>5, <3>6, PushMoves
    <2>2. CASE OwnerReturns(t)
      BY <2>2, PopMoves DEF OwnerReturns, Becomes, In, Top
    <2>3. CASE ChildReturns(t)
      <3>1. /\ stack[t] # <<>> /\ Top(t).at = "script" /\ Top(t).child # Owner
            /\ stack' = [stack EXCEPT ![t] = Tail(Below(t))] /\ UNCHANGED tasks
            /\ ~ In(t, "join")
        BY <2>3 DEF ChildReturns, Becomes, In, Top
      <3>2. Below(t) # <<>>
        BY <1>1, <3>1, TopKinds
      <3>3. Tail(Below(t)) # <<>> => /\ RootOf(Tail(Below(t))) = RootOf(stack[t])
                                     /\ Head(Tail(Below(t))).at # "join"
        BY <1>1, <3>1, <3>2, BelowFacts
      <3> QED BY <3>1, <3>3, MovesAlone
    <2>4. CASE Spawn(t)
      BY <2>4, PopMoves DEF Spawn, Becomes, In, Top
    <2>5. CASE SendLocks(t)
      <3>1. stack[t] # <<>> /\ Top(t).at = "send" /\ ~ In(t, "join") /\ UNCHANGED tasks
        BY <2>5 DEF SendLocks, In, Top
      <3>2. CASE Top(t).child \notin children
        BY <2>5, <3>1, <3>2, PopMoves DEF SendLocks, Becomes
      <3>3. CASE Top(t).child \in children
        <4>1. Top(t).child \in Script /\ Below(t) # <<>>
          BY <1>1, <3>1, TopKinds, FrameTypes DEF CallAt
        <4>2. Frame("sending", Top(t).child, {}) \in FrameSet
          BY <4>1, FrameTypes DEF CallAt
        <4>3. Frame("sending", Top(t).child, {}).at = "sending"
          BY FrameFields
        <4>4. Replaces(t, Frame("sending", Top(t).child, {}))
          BY <2>5, <3>3 DEF SendLocks
        <4> QED BY <3>1, <4>1, <4>2, <4>3, <4>4, ReplaceMoves
      <3> QED BY <3>2, <3>3
    <2>6. CASE SendRuns(t) \/ TaskRuns(t)
      <3>1. /\ stack[t] # <<>> /\ Top(t).at \in {"sending", "run"} /\ ~ In(t, "join")
            /\ Runs(t, Top(t).child) /\ UNCHANGED tasks
        BY <2>6 DEF SendRuns, TaskRuns, In, Top
      <3>2. Top(t).child \in Script
        BY <1>1, <3>1, TopKinds, FrameTypes DEF CallAt
      <3>3. Frame("script", Top(t).child, {}) \in FrameSet
        BY <3>2, ScriptFrames
      <3>4. Frame("script", Top(t).child, {}).at = "script"
        BY FrameFields
      <3> QED BY <3>1, <3>3, <3>4, PushMoves DEF Runs, Becomes
    <2>7. CASE Async(t)
      BY <2>7, AsyncMoves
    <2>8. CASE Batch(t)
      BY <2>8, BatchMoves
    <2>9. CASE Join(t)
      BY <2>9, PopMoves DEF Join, Becomes, In, Top
    <2> QED BY <1>5, <2>1, <2>2, <2>3, <2>4, <2>5, <2>6, <2>7, <2>8, <2>9 DEF ScriptStep, CallStep
  <1> QED BY <1>1, <1>2, <1>3, <1>4, <1>5 DEF Next

LEMMA RootedInit == Init => Rooted /\ Joined
  BY DEF Init, Rooted, Joined, In

LEMMA RootedNext ==
  ASSUME Inv, Rooted, Joined, [Next]_vars
  PROVE  Rooted' /\ Joined'
  <1>1. CASE Next
    <2>1. PICK t \in Thread : \E K \in SUBSET Thread : t \notin K /\ Moves(t, K)
      BY <1>1, SomeMoves
    <2>2. PICK K \in SUBSET Thread : t \notin K /\ Moves(t, K)
      BY <2>1
    <2> QED BY <2>2, MovesKeep
  <1>2. CASE UNCHANGED vars
    BY <1>2 DEF vars, Rooted, Joined, In, Top
  <1> QED BY <1>1, <1>2

\* What is next to a frame, by the grammar.
LEMMA Neighbours ==
  ASSUME Stacked, NEW t \in Thread, NEW i \in DOMAIN stack[t]
  PROVE  /\ stack[t] # <<>> /\ Len(stack[t]) \in Nat /\ i \in 1..Len(stack[t])
         /\ stack[t][i] \in FrameSet
         /\ i = 1 => stack[t][i] = Top(t)
         /\ i # 1 => i - 1 \in DOMAIN stack[t] /\ OnTop(stack[t][i - 1], stack[t][i])
         /\ i = Len(stack[t]) => Bottom(t, stack[t][i])
         /\ i # Len(stack[t]) => i + 1 \in DOMAIN stack[t] /\ OnTop(stack[t][i], stack[t][i + 1])
  <1>1. stack[t] \in Seq(FrameSet) /\ Chain(t, stack[t])
    BY DEF Stacked
  <1>2. /\ stack[t] # <<>> /\ Len(stack[t]) \in Nat /\ i \in 1..Len(stack[t])
        /\ DOMAIN stack[t] = 1..Len(stack[t]) /\ stack[t][i] \in FrameSet
        /\ Top(t) = stack[t][1]
    BY <1>1 DEF Top
  <1>3. i # 1 => i - 1 \in 1..Len(stack[t]) /\ (i - 1) + 1 <= Len(stack[t]) /\ (i - 1) + 1 = i
    BY <1>2
  <1>4. i # Len(stack[t]) => i + 1 \in 1..Len(stack[t]) /\ i + 1 <= Len(stack[t])
    BY <1>2
  <1>5. i # 1 => OnTop(stack[t][i - 1], stack[t][(i - 1) + 1])
    BY <1>1, <1>3 DEF Chain
  <1> QED BY <1>1, <1>2, <1>3, <1>4, <1>5 DEF Chain

\* The script of a child that does not call back is on top.
LEMMA LeafOnTop ==
  ASSUME Stacked, NEW t \in Thread, NEW c \in Child, ~ CallsBack(c), Has(stack[t], ScriptOf(c))
  PROVE  stack[t] # <<>> /\ Top(t).at = "script"
  <1>1. PICK i \in DOMAIN stack[t] : stack[t][i] \in ScriptOf(c)
    BY DEF Has
  <1>2. stack[t][i].at = "script" /\ stack[t][i].child = c
    BY <1>1, FrameFields DEF ScriptOf
  <1>3. i = 1
    <2> SUFFICES ASSUME i # 1 PROVE FALSE
      OBVIOUS
    <2>1. OnTop(stack[t][i - 1], stack[t][i])
      BY Neighbours
    <2>2. <<c, OpOf(stack[t][i - 1].at), stack[t][i - 1].child>> \in Calls
      BY <1>2, <2>1 DEF OnTop
    <2> QED BY <2>2, FrameTypes DEF CallsBack
  <1> QED BY <1>2, <1>3, Neighbours

\* What send_to_child runs does not call back, or is Nested.
LEMMA SentIsLeaf ==
  ASSUME Stacked, NEW t \in Thread, NEW i \in DOMAIN stack[t],
         stack[t][i].at = "sending"
  PROVE  stack[t][i].child \in Child /\ ~ Batched(stack[t][i].child)
  <1>1. i # Len(stack[t])
    BY Neighbours, FrameFields DEF Bottom
  <1>2. OnTop(stack[t][i], stack[t][i + 1])
    BY <1>1, Neighbours
  <1>3. <<stack[t][i + 1].child, "send", stack[t][i].child>> \in Calls
    BY <1>2, FrameFields DEF OnTop, OpOf
  <1> QED BY <1>3, SentTo

\* A child that calls back and is not Nested runs on a thread of its own.
LEMMA CallerOnThread ==
  ASSUME Stacked, NEW t \in Thread, NEW c \in Child, Batched(c),
         Has(stack[t], ScriptOf(c))
  PROVE  t # Loop /\ stack[t] # <<>> /\ RootOf(stack[t]) = c /\ Top(t).at # "run"
  <1>1. PICK i \in DOMAIN stack[t] : stack[t][i] \in ScriptOf(c)
    BY DEF Has
  <1>2. stack[t][i].at = "script" /\ stack[t][i].child = c
    BY <1>1, FrameFields DEF ScriptOf
  <1>3. i # Len(stack[t])
    <2>1. c # Owner
      BY FrameTypes
    <2> QED BY <1>2, <2>1, Neighbours, FrameFields DEF Bottom
  <1>4. i + 1 \in DOMAIN stack[t] /\ OnTop(stack[t][i], stack[t][i + 1])
    BY <1>3, Neighbours
  <1> DEFINE g == stack[t][i + 1]
  <1>5. g.at \in {"sending", "run"} /\ g.child = c
    BY <1>2, <1>4, FrameFields DEF OnTop, CallAt
  <1>6. g.at = "run"
    BY <1>4, <1>5, SentIsLeaf
  <1>7. i + 1 = Len(stack[t])
    <2> SUFFICES ASSUME i + 1 # Len(stack[t]) PROVE FALSE
      OBVIOUS
    <2>1. OnTop(g, stack[t][(i + 1) + 1])
      BY <1>4, Neighbours
    <2> QED BY <1>6, <2>1, FrameFields DEF OnTop, CallAt
  <1>8. Bottom(t, g)
    BY <1>4, <1>7, Neighbours
  <1>9. t # Loop
    BY <1>6, <1>8, FrameFields DEF Bottom
  <1>10. Top(t).at # "run"
    <2>1. ASSUME Top(t).at = "run" PROVE FALSE
      <3>1. stack[t] # <<>>
        BY Neighbours
      <3>2. Below(t) = <<>>
        BY <2>1, <3>1, TopKinds
      <3>3. Pushed(stack[t], Top(t), Below(t))
        BY <3>1, TopFacts
      <3>4. Len(stack[t]) = 1
        BY <3>2, <3>3 DEF Pushed
      <3>5. i \in 1..Len(stack[t])
        BY Neighbours
      <3> QED BY <1>3, <3>4, <3>5
    <2> QED BY <2>1
  <1> QED BY <1>5, <1>7, <1>9, <1>10, Neighbours DEF RootOf

\* A thread that was started runs the child it was started for, or is about to.
LEMMA RootRuns ==
  ASSUME Stacked, NEW k \in Thread, k # Loop, stack[k] # <<>>
  PROVE  RootOf(stack[k]) \in Child /\ (Top(k).at = "run" \/ Has(stack[k], ScriptOf(RootOf(stack[k]))))
  <1> DEFINE m == Len(stack[k])
  <1>1. stack[k] \in Seq(FrameSet) /\ m \in Nat /\ m \in DOMAIN stack[k] /\ m # 0
    BY DEF Stacked
  <1>2. Bottom(k, stack[k][m])
    BY <1>1, Neighbours
  <1>3. stack[k][m].at = "run" /\ stack[k][m].child = RootOf(stack[k]) /\ RootOf(stack[k]) \in Child
    BY <1>2 DEF Bottom, RootOf
  <1> HIDE DEF m
  <1>4. CASE m = 1
    BY <1>1, <1>3, <1>4, Neighbours
  <1>5. CASE m # 1
    <2>1. m - 1 \in DOMAIN stack[k] /\ OnTop(stack[k][m - 1], stack[k][m])
      BY <1>1, <1>5, Neighbours
    <2>2. stack[k][m - 1] = Frame("script", RootOf(stack[k]), {})
      BY <1>3, <2>1, FrameFields DEF OnTop
    <2> QED BY <1>3, <2>1, <2>2 DEF Has, ScriptOf
  <1> QED BY <1>4, <1>5

\* A script that runs on a thread is one of its frames.
LEMMA RunsIsHas ==
  ASSUME NEW t \in Thread, NEW c \in Child
  PROVE  RunsOn(c, t) <=> Has(stack[t], ScriptOf(c))
  BY DEF RunsOn, Has, ScriptOf

\* No threads wait in a circle none of which runs a Nested child: whoever has the
\* table or runs a child that does not call back can go on, and so the others can.
LEMMA NoCircle ==
  ASSUME Inv, Rooted, Joined,
         NEW S \in SUBSET Thread, \A t \in S : WaitsFor(t) \cap S # {},
         \A t \in S, c \in Child : Nested(c) => ~ RunsOn(c, t)
  PROVE  S = {}
  <1>1. Stacked /\ TableHeld /\ LocksHeld /\ Loop \in Thread /\ Free \notin Thread
    BY Threads DEF Inv
  <1>2. ASSUME NEW t \in S PROVE stack[t] # <<>> /\ Top(t).at # "script" /\ t \in Thread
    <2>1. WaitsFor(t) # {}
      OBVIOUS
    <2> QED BY <2>1 DEF WaitsFor
  \* The holder of a child's mutex in S runs a child that calls back.
  <1>3. ASSUME NEW c \in Child, lock[c] \in S
        PROVE  /\ Batched(c) /\ Has(stack[lock[c]], ScriptOf(c)) /\ lock[c] # Loop
               /\ RootOf(stack[lock[c]]) = c /\ Top(lock[c]).at # "run"
    <2>1. Has(stack[lock[c]], ScriptOf(c)) /\ lock[c] \in Thread
      BY <1>1, <1>3 DEF LocksHeld
    <2>2. Batched(c)
      BY <1>1, <1>2, <1>3, <2>1, LeafOnTop, RunsIsHas DEF Batched
    <2> QED BY <1>1, <2>1, <2>2, CallerOnThread
  \* It is one of the threads the loop has joined.
  <1>4. ASSUME NEW c \in Child, lock[c] \in S
        PROVE  In(Loop, "join")
    <2>1. Batched(c) /\ RootOf(stack[lock[c]]) = c /\ lock[c] # Loop
      BY <1>3, <1>4
    <2>2. stack[lock[c]] # <<>> /\ lock[c] \in Thread
      BY <1>2, <1>4
    <2> QED BY <2>1, <2>2 DEF Rooted
  <1>5. ASSUME NEW t \in S, Top(t).at = "sending" PROVE FALSE
    <2>1. t \in Thread /\ stack[t] # <<>>
      BY <1>2
    <2>2. WaitsFor(t) = {lock[Top(t).child]}
      BY <1>5, <2>1 DEF WaitsFor
    <2>3. lock[Top(t).child] \in S
      BY <2>2
    <2>4. 1 \in DOMAIN stack[t] /\ stack[t][1] = Top(t)
      BY <1>1, <2>1 DEF Stacked, Top
    <2>5. Top(t).child \in Child /\ ~ Batched(Top(t).child)
      BY <1>1, <1>5, <2>1, <2>4, SentIsLeaf
    <2> QED BY <1>3, <2>3, <2>5
  <1>6. spawner \notin S
    <2> SUFFICES ASSUME spawner \in S PROVE FALSE
      OBVIOUS
    <2>1. /\ spawner \in Thread /\ stack[spawner] # <<>> /\ Top(spawner).at # "script"
          /\ Has(stack[spawner], Sending) \/ (spawner = Loop /\ Visiting)
      BY <1>1, <1>2 DEF TableHeld
    <2>2. CASE Has(stack[spawner], Sending)
      <3>1. PICK i \in DOMAIN stack[spawner] : stack[spawner][i].at = "sending"
        BY <2>2 DEF Has, Sending
      <3>2. i # 1
        BY <1>1, <1>5, <2>1, <3>1, Neighbours
      <3>3. i - 1 \in DOMAIN stack[spawner] /\ OnTop(stack[spawner][i - 1], stack[spawner][i])
        BY <1>1, <2>1, <3>2, Neighbours
      <3> DEFINE d == stack[spawner][i].child
      <3>4. d \in Child /\ ~ Batched(d)
        BY <1>1, <2>1, <3>1, SentIsLeaf
      <3>5. stack[spawner][i - 1] = Frame("script", d, {})
        BY <3>1, <3>3 DEF OnTop
      <3>6. Has(stack[spawner], ScriptOf(d))
        BY <3>3, <3>5 DEF Has, ScriptOf
      <3> HIDE DEF d
      <3>7. ~ CallsBack(d)
        BY <2>1, <3>4, <3>6, RunsIsHas DEF Batched
      <3> QED BY <1>1, <2>1, <3>4, <3>6, <3>7, LeafOnTop
    <2>3. CASE spawner = Loop /\ Visiting
      <3>1. Top(Loop).at \in {"tell", "abort"} /\ stack[Loop] # <<>>
        BY <2>3 DEF Visiting
      <3>2. ~ In(Loop, "join")
        BY <3>1 DEF In, Top
      <3>3. WaitsFor(Loop) = IF Top(Loop).child = Owner THEN {} ELSE {lock[Top(Loop).child]}
        BY <2>3, <3>1 DEF WaitsFor
      <3>4. Top(Loop).child # Owner /\ lock[Top(Loop).child] \in S
        BY <2>3, <3>3
      <3>5. Top(Loop).child \in Child
        BY <1>1, <3>1, <3>4, TopFacts, FrameTypes DEF Script
      <3> QED BY <1>4, <3>2, <3>4, <3>5
    <2> QED BY <2>1, <2>2, <2>3
  <1>7. ASSUME NEW t \in S PROVE Top(t).at \in {"run", "join"}
    <2>1. t \in Thread /\ stack[t] # <<>> /\ Top(t).at # "script" /\ Top(t).at # "sending"
      BY <1>2, <1>5
    <2>2. Top(t).at \in CallAt \cup {"script", "run", "tell", "abort"} /\ Top(t).child \in Script
      BY <1>1, <2>1, TopFacts, FrameTypes
    <2>3. ASSUME Top(t).at \in {"spawn", "send", "async", "batch"} PROVE FALSE
      <3>1. WaitsFor(t) = {spawner}
        BY <2>1, <2>3 DEF WaitsFor
      <3> QED BY <1>6, <3>1
    <2>4. ASSUME Top(t).at \in {"tell", "abort"} PROVE FALSE
      <3>1. t = Loop /\ ~ In(Loop, "join")
        BY <1>1, <2>1, <2>4, TopKinds DEF In, Top
      <3>2. WaitsFor(t) = IF spawner # t THEN {spawner}
                          ELSE IF Top(t).child = Owner THEN {} ELSE {lock[Top(t).child]}
        BY <2>1, <2>4 DEF WaitsFor
      <3>3. Top(t).child # Owner /\ lock[Top(t).child] \in S
        BY <1>6, <3>2
      <3> QED BY <1>4, <2>2, <3>1, <3>3 DEF Script
    <2> QED BY <2>1, <2>2, <2>3, <2>4 DEF CallAt
  <1>8. ASSUME NEW t \in S, Top(t).at = "run"
        PROVE  /\ Top(t).child \in Child /\ lock[Top(t).child] \in S
               /\ RootOf(stack[t]) = Top(t).child
    <2>1. t \in Thread /\ stack[t] # <<>>
      BY <1>2
    <2>2. Top(t).child \in Child /\ Below(t) = <<>>
      BY <1>1, <1>8, <2>1, TopKinds
    <2>3. WaitsFor(t) = {lock[Top(t).child]}
      BY <1>8, <2>1 DEF WaitsFor
    <2>4. lock[Top(t).child] \in S
      BY <2>3
    <2>5. Pushed(stack[t], Top(t), Below(t))
      BY <1>1, <2>1, TopFacts
    <2>6. stack[t][Len(stack[t])] = Top(t)
      BY <2>2, <2>5, PushedFacts
    <2> QED BY <2>2, <2>4, <2>6 DEF RootOf
  <1>9. ASSUME NEW t \in S, Top(t).at = "join"
        PROVE  \E k \in S : /\ k \in Top(t).rest /\ k # Loop /\ stack[k] # <<>>
                            /\ t # Loop => ~ Batched(RootOf(stack[k]))
    <2>1. t \in Thread /\ stack[t] # <<>> /\ In(t, "join")
      BY <1>2, <1>9 DEF In, Top
    <2>2. WaitsFor(t) = {k \in Top(t).rest : stack[k] # <<>>}
      BY <1>9, <2>1 DEF WaitsFor
    <2>3. PICK k \in S : k \in Top(t).rest /\ stack[k] # <<>>
      BY <2>2
    <2>4. /\ Top(t).rest \subseteq 1..tasks
          /\ t # Loop => ~ Batched(RootOf(stack[k]))
      BY <2>1, <2>3 DEF Joined
    <2>5. k # Loop
      BY <2>3, <2>4, Threads DEF Inv, Typed
    <2> QED BY <2>3, <2>4, <2>5
  <1>10. ASSUME NEW t \in S, Top(t).at = "join" PROVE t = Loop
    <2> SUFFICES ASSUME t # Loop PROVE FALSE
      OBVIOUS
    <2>1. PICK k \in S : k # Loop /\ stack[k] # <<>> /\ ~ Batched(RootOf(stack[k]))
      BY <1>9, <1>10
    <2>2. k \in Thread /\ Top(k).at # "script"
      BY <1>2
    <2>3. CASE Top(k).at = "run"
      BY <1>3, <1>8, <2>1, <2>3
    <2>4. CASE Has(stack[k], ScriptOf(RootOf(stack[k])))
      <3>1. RootOf(stack[k]) \in Child /\ RunsOn(RootOf(stack[k]), k)
        BY <1>1, <2>1, <2>2, <2>4, RootRuns, RunsIsHas
      <3>2. ~ CallsBack(RootOf(stack[k]))
        BY <2>1, <3>1 DEF Batched
      <3> QED BY <1>1, <2>2, <2>4, <3>1, <3>2, LeafOnTop
    <2> QED BY <1>1, <2>1, <2>2, <2>3, <2>4, RootRuns
  <1>11. ASSUME NEW t \in S PROVE Top(t).at # "run"
    <2> SUFFICES ASSUME Top(t).at = "run" PROVE FALSE
      OBVIOUS
    <2>1. Top(t).child \in Child /\ lock[Top(t).child] \in S
      BY <1>8
    <2>2. lock[Top(t).child] # Loop /\ Top(lock[Top(t).child]).at # "run"
      BY <1>3, <2>1
    <2> QED BY <1>7, <1>10, <2>1, <2>2
  <1>12. ASSUME NEW t \in S PROVE FALSE
    <2>1. Top(t).at = "join"
      BY <1>7, <1>11
    <2>2. PICK k \in S : k # Loop
      BY <1>9, <2>1
    <2> QED BY <1>7, <1>10, <1>11, <2>2
  <1> QED BY <1>12

\* ChildSpawner: no thread waits for itself or in a circle with others, whatever
\* calls the scripts make, but in a circle where one runs a child that calls back
\* and that something else than a batch of the component is sent to.
THEOREM SpecNoDeadlock == Spec => []NoDeadlock
  <1>1. Init => Inv /\ Rooted /\ Joined
    BY InvInit, RootedInit
  <1>2. (Inv /\ Rooted /\ Joined) /\ [Next]_vars => (Inv /\ Rooted /\ Joined)'
    BY InvNext, RootedNext
  <1>3. Inv /\ Rooted /\ Joined => NoDeadlock
    BY NoCircle DEF NoDeadlock, Circle
  <1> QED BY <1>1, <1>2, <1>3, PTL DEF Spec

-----------------------------------------------------------------------------
(***************************************************************************)
(* What was sent to a child.                                               *)
(***************************************************************************)

NotYet(k) == \E c \in Child : stack[k] = <<Frame("run", c, {})>>
Unserved == \A k \in 1..tasks : k \in served \/ NotYet(k)
Rests == \A t \in Thread : In(t, "join") => Top(t).rest \subseteq 1..tasks

\* A thread that was started has run its script or waits for the child, and a
\* batch whose threads have all ended has run every script it was sent for.
SentAccounted ==
  /\ Unserved
  /\ \A t \in Thread : In(t, "join") /\ (\A k \in Top(t).rest : stack[k] = <<>>) =>
       Top(t).rest \subseteq served

LEMMA NotYetRuns == ASSUME NEW k, NotYet(k) PROVE In(k, "run")
  <1>1. PICK c \in Child : stack[k] = <<Frame("run", c, {})>>
    BY DEF NotYet
  <1>2. stack[k] # <<>> /\ Head(stack[k]) = Frame("run", c, {})
    BY <1>1
  <1> QED BY <1>2, FrameFields DEF In

\* A thread goes on and starts none.
LEMMA ServedAlone ==
  ASSUME Unserved, NEW t \in Thread, UNCHANGED tasks, served \subseteq served',
         \A u \in Thread \ {t} : stack'[u] = stack[u],
         In(t, "run") => t \in served', tasks \in 0..MaxTasks
  PROVE  Unserved'
  <1> SUFFICES ASSUME NEW k \in 1..tasks, k \notin served' PROVE NotYet(k)'
    BY DEF Unserved, NotYet
  <1>1. k \in Thread
    BY ChildrenAssumption DEF Thread
  <1>2. NotYet(k)
    BY DEF Unserved
  <1>3. k # t
    BY <1>2, NotYetRuns
  <1> QED BY <1>1, <1>2, <1>3 DEF NotYet

\* A thread goes on and starts those after the last.
LEMMA ServedMore ==
  ASSUME Unserved, NEW t \in Thread, UNCHANGED served, ~ In(t, "run"),
         tasks \in 0..MaxTasks, tasks' \in 0..MaxTasks, tasks <= tasks',
         \A k \in tasks + 1 .. tasks' : \E c \in Child : stack'[k] = <<Frame("run", c, {})>>,
         \A u \in Thread \ ((tasks + 1 .. tasks') \cup {t}) : stack'[u] = stack[u]
  PROVE  Unserved'
  <1>m. MaxTasks \in Nat
    BY ChildrenAssumption
  <1> SUFFICES ASSUME NEW k \in 1..tasks', k \notin served' PROVE NotYet(k)'
    BY DEF Unserved, NotYet
  <1>1. CASE k \in tasks + 1 .. tasks'
    BY <1>1 DEF NotYet
  <1>2. CASE k \notin tasks + 1 .. tasks'
    <2>1. k \in 1..tasks /\ k \in Thread
      BY <1>m, <1>2 DEF Thread
    <2>2. NotYet(k)
      BY <2>1 DEF Unserved
    <2>3. k # t
      BY <2>2, NotYetRuns
    <2>4. stack'[k] = stack[k]
      BY <1>2, <2>1, <2>3
    <2> QED BY <2>2, <2>4 DEF NotYet
  <1> QED BY <1>1, <1>2

LEMMA ServedNext == ASSUME Inv, Unserved, [Next]_vars PROVE Unserved'
  <1>1. /\ tasks \in 0..MaxTasks /\ MaxTasks \in Nat /\ Loop \in Thread
        /\ stack \in [Thread -> Seq(FrameSet)] /\ Stacked
    BY Threads, ChildrenAssumption DEF Inv, Typed, Stacked
  <1>2. ASSUME NEW t \in Thread, NEW n, Becomes(t, n), UNCHANGED <<tasks, served>>, ~ In(t, "run")
        PROVE  Unserved'
    <2>1. \A u \in Thread \ {t} : stack'[u] = stack[u]
      BY <1>1, <1>2 DEF Becomes
    <2> QED BY <1>1, <1>2, <2>1, ServedAlone
  <1>3. CASE Request
    <2>1. ~ In(Loop, "run")
      BY <1>3 DEF Request, In
    <2> QED BY <1>1, <1>2, <1>3, <2>1 DEF Request, history
  <1>4. CASE Signal
    <2>1. ~ In(Loop, "run")
      BY <1>4 DEF Signal, In
    <2>2. UNCHANGED <<tasks, served>> /\ \E n : Becomes(Loop, n)
      BY <1>4 DEF Signal
    <2> QED BY <1>1, <1>2, <2>1, <2>2
  <1>5. CASE SignalStep
    <2>1. ~ In(Loop, "run") /\ UNCHANGED <<tasks, served>>
      BY <1>5 DEF SignalStep, VisitLocks, VisitNext, Tell, Abort, VisitDone, Visiting, In, Top, history
    <2>2. \E n : Becomes(Loop, n)
      BY <1>5 DEF SignalStep, VisitLocks, VisitNext, Tell, Abort, VisitDone, Replaces
    <2> QED BY <1>1, <1>2, <2>1, <2>2
  <1>6. ASSUME NEW t \in Thread, ScriptStep(t) \/ CallStep(t) PROVE Unserved'
    <2>1. CASE ScriptStep(t) \/ Spawn(t) \/ SendLocks(t) \/ SendRuns(t) \/ Join(t)
      <3>1. ~ In(t, "run") /\ UNCHANGED <<tasks, served>>
        BY <2>1 DEF ScriptStep, Call, OwnerReturns, ChildReturns, Spawn, SendLocks, SendRuns, Join, In, history
      <3>2. \E n : Becomes(t, n)
        BY <2>1 DEF ScriptStep, Call, OwnerReturns, ChildReturns, Spawn, SendLocks, SendRuns, Join,
                    Replaces, Runs
      <3> QED BY <1>2, <3>1, <3>2
    <2>2. CASE TaskRuns(t)
      <3>1. UNCHANGED tasks /\ served' = served \cup {t}
        BY <2>2 DEF TaskRuns
      <3>2. \A u \in Thread \ {t} : stack'[u] = stack[u]
        BY <1>1, <2>2 DEF TaskRuns, Runs, Becomes
      <3> QED BY <1>1, <3>1, <3>2, ServedAlone
    <2>3. CASE Async(t)
      <3>1. ~ In(t, "run") /\ UNCHANGED served
        BY <2>3 DEF Async, In, history
      <3>2. CASE Top(t).child \notin children
        BY <1>2, <2>3, <3>1, <3>2 DEF Async
      <3>3. CASE Top(t).child \in children
        <4>1. /\ tasks < MaxTasks /\ tasks' = tasks + 1
              /\ stack' = [stack EXCEPT ![t] = Below(t), ![tasks + 1] = <<Frame("run", Top(t).child, {})>>]
          BY <2>3, <3>3 DEF Async
        <4>2. /\ tasks' \in 0..MaxTasks /\ tasks <= tasks' /\ tasks + 1 \in Thread
              /\ tasks + 1 .. tasks' = {tasks + 1}
          BY <1>1, <4>1 DEF Thread
        <4>3. Top(t).child \in Child
          BY <3>3 DEF Inv, Typed
        <4>4. stack'[tasks + 1] = <<Frame("run", Top(t).child, {})>>
          BY <1>1, <4>1, <4>2
        <4>5. \A u \in Thread \ ({tasks + 1} \cup {t}) : stack'[u] = stack[u]
          BY <1>1, <4>1
        <4> QED BY <1>1, <3>1, <4>2, <4>3, <4>4, <4>5, ServedMore
      <3> QED BY <3>2, <3>3
    <2>4. CASE Batch(t)
      <3>1. ~ In(t, "run") /\ UNCHANGED served
        BY <2>4 DEF Batch, In, history
      <3>2. /\ tasks' \in 0..MaxTasks /\ tasks <= tasks'
            /\ \A k \in tasks + 1 .. tasks' :
                 \E c \in Top(t).rest \cap children : stack'[k] = <<Frame("run", c, {})>>
            /\ \A u \in Thread \ ((tasks + 1 .. tasks') \cup {t}) : stack'[u] = stack[u]
        BY <2>4, BatchFacts
      <3>3. \A k \in tasks + 1 .. tasks' : \E c \in Child : stack'[k] = <<Frame("run", c, {})>>
        BY <3>2 DEF Inv, Typed
      <3> QED BY <1>1, <3>1, <3>2, <3>3, ServedMore
    <2> QED BY <1>6, <2>1, <2>2, <2>3, <2>4 DEF CallStep
  <1>7. CASE UNCHANGED vars
    BY <1>7 DEF vars, history, Unserved, NotYet
  <1> QED BY <1>3, <1>4, <1>5, <1>6, <1>7 DEF Next

LEMMA RestsNext == ASSUME Inv, Rests, [Next]_vars PROVE Rests'
  <1>1. CASE Next
    <2>1. PICK t \in Thread : \E K \in SUBSET Thread : t \notin K /\ Moves(t, K)
      BY <1>1, SomeMoves
    <2>2. PICK K \in SUBSET Thread : t \notin K /\ Moves(t, K)
      BY <2>1
    <2>3. /\ tasks \in 0..MaxTasks /\ tasks' \in 0..MaxTasks /\ tasks <= tasks'
          /\ \A u \in Thread \ (K \cup {t}) : stack'[u] = stack[u]
          /\ In(t, "join")' => Top(t)'.rest = K
      BY <2>2 DEF Moves
    <2>4. ASSUME NEW k \in K PROVE k \in 1..tasks' /\ ~ In(k, "join")'
      <3>1. PICK c \in Child : stack'[k] = <<Frame("run", c, {})>>
        BY <2>2 DEF Moves
      <3>2. Head(stack'[k]) = Frame("run", c, {}) /\ k > tasks /\ k <= tasks' /\ k \in Nat
        BY <2>2, <3>1, Threads DEF Moves
      <3>3. ~ In(k, "join")'
        BY <3>2, FrameFields DEF In
      <3> QED BY <2>3, <3>2, <3>3
    <2>5. ASSUME NEW u \in Thread, In(u, "join")' PROVE Top(u)'.rest \subseteq 1..tasks'
      <3>1. CASE u = t
        BY <2>3, <2>4, <2>5, <3>1
      <3>2. CASE u # t
        <4>1. u \notin K /\ stack'[u] = stack[u]
          BY <2>3, <2>4, <2>5, <3>2
        <4>2. Top(u)' = Top(u) /\ In(u, "join")
          BY <2>5, <4>1 DEF In, Top
        <4>3. \A k \in 1..tasks : k \in 1..tasks'
          BY <2>3
        <4> QED BY <4>2, <4>3 DEF Rests
      <3> QED BY <3>1, <3>2
    <2> QED BY <2>5 DEF Rests
  <1>2. CASE UNCHANGED vars
    BY <1>2 DEF vars, Rests, In, Top
  <1> QED BY <1>1, <1>2

\* The half of SentIsRun that needs no fairness: whatever children the
\* scripts call, a thread started by send_to_child_async or by a batch goes away
\* only after its script was run, be the child busy or its own caller; and
\* send_to_children_batch returns with every script run
\* (channel/runner/child_spawner.rs).
THEOREM SpecSentAccounted == Spec => []SentAccounted
  <1>1. Init => Unserved /\ Rests
    <2>1. Init => tasks = 0 /\ stack = [t \in Thread |-> <<>>]
      BY DEF Init
    <2>2. Init => Unserved
      BY <2>1 DEF Unserved
    <2>3. Init => Rests
      BY <2>1 DEF Rests, In
    <2> QED BY <2>2, <2>3
  <1>2. Inv /\ (Unserved /\ Rests) /\ [Next]_vars => (Unserved /\ Rests)'
    BY ServedNext, RestsNext
  <1>3. Unserved /\ Rests => SentAccounted
    <2> SUFFICES ASSUME Unserved, Rests, NEW t \in Thread, In(t, "join"),
                        \A k \in Top(t).rest : stack[k] = <<>>, NEW k \in Top(t).rest
                 PROVE  k \in served
      BY DEF SentAccounted
    <2>1. k \in 1..tasks /\ stack[k] = <<>>
      BY DEF Rests
    <2>2. ~ NotYet(k)
      BY <2>1, NotYetRuns DEF In
    <2> QED BY <2>1, <2>2 DEF Unserved
  <1> QED BY <1>1, <1>2, <1>3, SpecInv, PTL DEF Spec
=============================================================================
