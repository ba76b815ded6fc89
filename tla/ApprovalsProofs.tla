---------------------------- MODULE ApprovalsProofs ----------------------------
(***************************************************************************)
(* The way of a permission, for any components, operations, gates, paths   *)
(* still to be created and prefixes.  What a runner waits for, what its    *)
(* signals say and what the stores hold are tied to the requests that were *)
(* asked and to what the user said yes to; a component that is sent a      *)
(* request while it waits has the one it remembers in overtaken.  Way says *)
(* where the request of a component that waits is.                         *)
(***************************************************************************)
EXTENDS Approvals, SequenceTheorems, WellFoundedInduction, TLAPS

-----------------------------------------------------------------------------
(* The least-number principle in first-order form.                         *)

\* A well-founded relation on Nat that contains the strict order.
LEMMA LessThanRelation ==
  \E R : /\ IsWellFoundedOn(R, Nat)
         /\ \A x, y \in Nat : x < y => <<x, y>> \in R
  <1> DEFINE R == OpToRel(<, Nat)
  <1>1. IsWellFoundedOn(R, Nat)
    BY NatLessThanWellFounded
  <1>2. \A x, y \in Nat : x < y => <<x, y>> \in R
    BY DEF R, OpToRel
  <1> HIDE DEF R
  <1> QED BY <1>1, <1>2

\* Every nonempty set of naturals has a least element.
LEMMA LeastNat ==
  ASSUME NEW T, T \subseteq Nat, T # {}
  PROVE  \E m \in T : \A k \in T : m <= k
  <1>1. PICK R : /\ IsWellFoundedOn(R, Nat)
                 /\ \A x, y \in Nat : x < y => <<x, y>> \in R
    BY LessThanRelation
  <1>2. IsWellFoundedOn(R, Nat)
    BY <1>1
  <1>3. \E m \in T : \A k \in T : ~ (<<k, m>> \in R)
    BY ONLY <1>2, T \subseteq Nat, T # {}, WFMin, ZenonT(30)
  <1>4. PICK m \in T : \A k \in T : ~ (<<k, m>> \in R)
    BY <1>3
  <1>5. ASSUME NEW k \in T PROVE m <= k
    <2>1. ~ (k < m)
      BY <1>1, <1>4
    <2> QED BY <2>1
  <1> QED BY <1>5

-----------------------------------------------------------------------------
(* The invariant.                                                          *)

Ids == 1..Len(asked)
Askings == [by : Component, gate : Gate, req : Nat]
Events == {Text} \cup [kind : {"ask"}, id : Ids]
Signals == [id : shown, yes : BOOLEAN]

\* Identifiers on their way are those of requests, and the user only names
\* those that were shown.
Typed ==
  /\ asked \in Seq(Askings) /\ Len(asked) <= MaxAsks
  /\ state \in [Component -> {0, Gone} \cup Ids]
  /\ pending = [c \in Component |-> pending[c]]
  /\ inbox \in [Component -> Seq(Signals)]
  /\ typed \in Seq([id : shown \cup {0}, yes : BOOLEAN])
  /\ outbox \in Seq(Events) /\ screen \in Seq(Events)
  /\ shown \subseteq Ids /\ latest \in shown \cup {0}
  /\ requests \in Nat
  /\ grants = [s \in Store |-> grants[s]]

\* The request c remembers took the place of the one it waits for.
Overtaken(c) ==
  [run |-> runs, id |-> pending[c].id, store |-> StoreOf(c), gate |-> pending[c].gate] \in overtaken

\* A component waits for the request it remembers as pending, or that one has
\* taken the place of the request it waits for.
Waits ==
  \A c \in Component : Waiting(c) =>
    /\ pending[c].id = state[c] \/ Overtaken(c)
    /\ pending[c].id \in Ids /\ pending[c].op \in Op
    /\ asked[pending[c].id] = [by |-> c, gate |-> pending[c].gate, req |-> pending[c].req]

Said(s, g) == [store |-> s, gate |-> g] \in consent
Yes(s, g) == \E x \in consent \cup overtaken : x.store = s /\ x.gate = g

\* Every yes on its way is the user's; so is every permission kept, unless its
\* request took the place of another.
Consented ==
  /\ \A c \in Component : \A i \in DOMAIN inbox[c] :
       LET a == asked[inbox[c][i].id] IN inbox[c][i].yes => Said(StoreOf(a.by), a.gate)
  /\ \A s \in Store : \A g \in grants[s] : Yes(s, g)
  /\ \A p \in allowed : \E x \in consent \cup overtaken : x.gate.kind = "path" /\ x.gate.on = p
  /\ \A g \in saved : Yes(shared, g)

SavedGranted == saved \subseteq grants[shared]

Inv == Typed /\ Waits /\ Consented /\ RunOnlyApproved /\ SavedGranted /\ GrantsResumed

ToCreate(g) == g.kind = "path" /\ g.on \in Missing

\* The gates a request has asked for before are open to it when it asks again,
\* but for the paths still to be created.
AskedBefore ==
  /\ \A i \in Ids : asked[i].req <= requests
  /\ \A i, j \in Ids : asked[i].req = asked[j].req => asked[i].by = asked[j].by
  /\ \A c \in Component : Waiting(c) =>
       \A i \in Ids : asked[i].req = pending[c].req =>
         \/ i = pending[c].id \/ ToCreate(asked[i].gate)
         \/ Passes(c, asked[i].gate, grants, allowed)

OnceInv == AskedBefore /\ AskedOnce

-----------------------------------------------------------------------------
(* Sequences and gates.                                                    *)

LEMMA Wider ==
  ASSUME NEW S, NEW T, S \subseteq T, NEW s \in Seq(S) PROVE s \in Seq(T)
  OBVIOUS

LEMMA TextSequence ==
  ASSUME NEW E, Text \in E, NEW out \in {<<>>, <<Text>>} PROVE out \in Seq(E)
<1>1. <<>> \in Seq(E) /\ <<Text>> \in Seq(E)
  OBVIOUS
<1> QED BY <1>1

LEMMA EmittedTyped ==
  ASSUME NEW E, outbox \in Seq(E), NEW out \in Seq(E) PROVE Emitted(out) \in Seq(E)
<1> DEFINE all == outbox \o out
           n == IF Len(all) < OutMax THEN Len(all) ELSE OutMax
<1>1. all \in Seq(E) /\ Len(all) \in Nat
  OBVIOUS
<1>2. n \in Nat /\ n <= Len(all)
  BY <1>1, ApprovalsAssumption
<1> HIDE DEF all, n
<1>3. SubSeq(all, 1, n) \in Seq(E)
  BY <1>1, <1>2
<1>4. Emitted(out) = SubSeq(all, 1, n)
  BY DEF Emitted, all, n
<1> QED BY <1>3, <1>4

\* The gate a request is suspended at is closed to it.
LEMMA FirstBarred ==
  ASSUME NEW c, NEW op \in Op, NEW gr, NEW al, Barred(c, op, gr, al) # {}
  PROVE  LET closed == Barred(c, op, gr, al)
             gate == Gates[op][CHOOSE i \in closed : \A j \in closed : i <= j]
         IN  gate \in Gate /\ ~Passes(c, gate, gr, al)
<1> DEFINE closed == Barred(c, op, gr, al)
           first == CHOOSE i \in closed : \A j \in closed : i <= j
<1>1. /\ Gates[op] \in Seq(Gate)
      /\ \A i \in closed : /\ i \in DOMAIN Gates[op] /\ i \in Nat /\ Gates[op][i] \in Gate
                           /\ ~Passes(c, Gates[op][i], gr, al)
  <2>1. Gates[op] \in Seq(Gate)
    BY ApprovalsAssumption
  <2>2. \A i \in DOMAIN Gates[op] : i \in Nat /\ Gates[op][i] \in Gate
    BY <2>1
  <2> QED BY <2>1, <2>2 DEF Barred
<1> HIDE DEF closed
<1>2. \E i \in closed : \A j \in closed : i <= j
  <2>1. closed # {} /\ closed \subseteq Nat
    BY <1>1 DEF closed
  <2> QED BY <2>1, LeastNat
<1>3. first \in closed
  BY <1>2
<1> HIDE DEF first
<1> QED BY <1>1, <1>3 DEF closed, first

\* Nobody asks about nothing, and no request has the identifier of the gone.
LEMMA Identifiers ==
  ASSUME Typed
  PROVE  /\ MaxAsks \in Nat /\ Len(asked) \in Nat /\ 0 \notin Ids /\ Gone \notin Ids /\ Gone # 0
         /\ DOMAIN asked = Ids
         /\ \A i \in Ids : i \in Nat /\ asked[i] \in Askings
         /\ \A c \in Component : Waiting(c) <=> state[c] \in Ids
<1>1. MaxAsks \in Nat
  BY ApprovalsAssumption
<1>2. /\ asked \in Seq(Askings) /\ Len(asked) <= MaxAsks
      /\ state \in [Component -> {0, Gone} \cup Ids]
  BY DEF Typed
<1>3. /\ Len(asked) \in Nat /\ DOMAIN asked = Ids
      /\ \A i \in Ids : i \in Nat /\ asked[i] \in Askings
  BY <1>2 DEF Ids
<1>4. 0 \notin Ids /\ Gone \notin Ids /\ Gone # 0
  BY <1>1, <1>2, <1>3 DEF Ids, Gone
<1> QED BY <1>1, <1>2, <1>3, <1>4 DEF Waiting

\* More requests and more of them shown: what was well-typed still is.
LEMMA Wide ==
  ASSUME Typed, shown \subseteq shown', Len(asked') \in Nat, Len(asked) <= Len(asked')
  PROVE  /\ Ids \subseteq Ids' /\ Events \subseteq Events'
         /\ \A s \in Seq(Events) : s \in Seq(Events')
         /\ \A s \in Seq(Signals) : s \in Seq(Signals')
         /\ \A s \in Seq([id : shown \cup {0}, yes : BOOLEAN]) :
              s \in Seq([id : shown' \cup {0}, yes : BOOLEAN])
<1>1. Ids \subseteq Ids'
  BY Identifiers DEF Ids
<1>2. Events \subseteq Events' /\ Signals \subseteq Signals'
  BY <1>1 DEF Events, Signals
<1>3. [id : shown \cup {0}, yes : BOOLEAN] \subseteq [id : shown' \cup {0}, yes : BOOLEAN]
  OBVIOUS
<1> QED BY <1>1, <1>2, <1>3, Wider

-----------------------------------------------------------------------------
(* A request is carried out or suspended.                                  *)

\* A request that starts anew leaves its component as it is, one that runs again
\* frees it.
Carried(c, op, out, gr, al) ==
  /\ \A i \in DOMAIN Gates[op] : Passes(c, Gates[op][i], gr, al)
  /\ ran' = ran \cup {[by |-> c, op |-> op]}
  /\ UNCHANGED <<asked, overtaken>>
  /\ state' = [state EXCEPT ![c] = IF out = <<>> THEN @ ELSE 0]
  /\ pending' = [d \in Component |-> pending'[d]]
  /\ \A d \in Component : d # c \/ out = <<>> => pending'[d] = pending[d]

Suspended(c, op, req, out, gate, gr, al) ==
  /\ gate \in Gate /\ ~Passes(c, gate, gr, al)
  /\ ran' = ran
  /\ Len(asked) < MaxAsks
  /\ asked' = Append(asked, [by |-> c, gate |-> gate, req |-> req])
  /\ state' = [state EXCEPT ![c] = IF @ = 0 \/ out # <<>> THEN Len(asked) + 1 ELSE @]
  /\ overtaken \subseteq overtaken'
  /\ state[c] = 0 \/ out # <<>> \/
       [run |-> runs, id |-> Len(asked) + 1, store |-> StoreOf(c), gate |-> gate] \in overtaken'
  /\ pending' = [pending EXCEPT ![c] = [id |-> Len(asked) + 1, gate |-> gate, op |-> op, req |-> req]]

LEMMA Served ==
  ASSUME Typed, NEW c \in Component, NEW op \in Op, NEW req \in Nat,
         NEW out \in {<<>>, <<Text>>}, NEW gr, NEW al,
         Serve(c, op, req, out, gr, al)
  PROVE  \/ Carried(c, op, out, gr, al) /\ outbox' = Emitted(out)
         \/ \E gate : /\ Suspended(c, op, req, out, gate, gr, al)
                      /\ outbox' = Emitted(Append(out, [kind |-> "ask", id |-> Len(asked) + 1]))
<1>1. /\ state \in [Component -> {0, Gone} \cup Ids]
      /\ pending = [d \in Component |-> pending[d]]
  BY DEF Typed
<1>3. CASE Barred(c, op, gr, al) = {}
  <2>1. /\ ran' = ran \cup {[by |-> c, op |-> op]}
        /\ outbox' = Emitted(out) /\ UNCHANGED <<asked, overtaken>>
        /\ pending' = [pending EXCEPT ![c] = IF out = <<>> THEN @ ELSE NoPending]
        /\ state' = [state EXCEPT ![c] = IF out = <<>> THEN @ ELSE 0]
    BY <1>3 DEF Serve
  <2>3. /\ pending' = [d \in Component |-> pending'[d]]
        /\ \A d \in Component : d # c \/ out = <<>> => pending'[d] = pending[d]
    BY <1>1, <2>1
  <2>4. \A i \in DOMAIN Gates[op] : Passes(c, Gates[op][i], gr, al)
    BY <1>3 DEF Barred
  <2> QED BY <2>1, <2>3, <2>4 DEF Carried
<1>4. CASE Barred(c, op, gr, al) # {}
  <2> DEFINE closed == Barred(c, op, gr, al)
             gate == Gates[op][CHOOSE i \in closed : \A j \in closed : i <= j]
  <2>1. gate \in Gate /\ ~Passes(c, gate, gr, al)
    BY <1>4, FirstBarred
  <2>2. /\ Len(asked) < MaxAsks
        /\ asked' = Append(asked, [by |-> c, gate |-> gate, req |-> req])
        /\ pending' = [pending EXCEPT ![c] = [id |-> Len(asked) + 1, gate |-> gate, op |-> op, req |-> req]]
        /\ state' = [state EXCEPT ![c] = IF @ = 0 \/ out # <<>> THEN Len(asked) + 1 ELSE @]
        /\ outbox' = Emitted(Append(out, [kind |-> "ask", id |-> Len(asked) + 1]))
        /\ ran' = ran
        /\ overtaken' = IF state[c] = 0 \/ out # <<>> THEN overtaken
                         ELSE overtaken \cup {[run |-> runs, id |-> Len(asked) + 1,
                                               store |-> StoreOf(c), gate |-> gate]}
    BY <1>4 DEF Serve
  <2> HIDE DEF gate
  <2> QED BY <2>1, <2>2 DEF Suspended
<1> QED BY <1>3, <1>4

\* What Serve keeps of the invariant when the permissions only grow, and only
\* by what the user said yes to.
LEMMA ServeKeeps ==
  ASSUME Inv, NEW c \in Component, NEW op \in Op, NEW req \in Nat,
         NEW out \in {<<>>, <<Text>>},
         Serve(c, op, req, out, grants', allowed'),
         inbox' \in [Component -> Seq(Signals)],
         \A d \in Component : \A i \in DOMAIN inbox'[d] :
           \E j \in DOMAIN inbox[d] : inbox'[d][i] = inbox[d][j],
         grants' = [s \in Store |-> grants'[s]],
         \A s \in Store : grants[s] \subseteq grants'[s] /\ \A g \in grants'[s] : Yes(s, g),
         \A p \in allowed' : \E x \in consent \cup overtaken : x.gate.kind = "path" /\ x.gate.on = p,
         UNCHANGED <<saved, screen, terminal, consent, runs>>, requests' \in Nat
  PROVE  Inv'
<1>1. Typed
  BY DEF Inv
<1>2. \/ Carried(c, op, out, grants', allowed') /\ outbox' = Emitted(out)
      \/ \E gate : /\ Suspended(c, op, req, out, gate, grants', allowed')
                   /\ outbox' = Emitted(Append(out, [kind |-> "ask", id |-> Len(asked) + 1]))
  <2>1. /\ Typed /\ c \in Component /\ op \in Op /\ req \in Nat /\ out \in {<<>>, <<Text>>}
        /\ Serve(c, op, req, out, grants', allowed')
    BY <1>1
  <2> QED BY ONLY <2>1, Served
<1>3. UNCHANGED <<latest, typed, shown, answered, bare, saved, screen, consent, runs>>
  BY DEF terminal
<1>4. /\ Len(asked) \in Nat /\ DOMAIN asked = Ids /\ 0 \notin Ids /\ Gone \notin Ids /\ Gone # 0
      /\ \A d \in Component : Waiting(d) <=> state[d] \in Ids
      /\ \A i \in Ids : i \in Nat /\ asked[i] \in Askings
  BY <1>1, Identifiers
<1>5. \A d \in Component : StoreOf(d) \in Store
  BY DEF StoreOf, Store
<1>6. shared \in Store
  BY DEF Store
<1>7. SavedGranted'
  BY <1>3, <1>6 DEF Inv, SavedGranted
<1>8. ASSUME Carried(c, op, out, grants', allowed'), outbox' = Emitted(out) PROVE Inv'
  <2>1. UNCHANGED <<asked, shown, overtaken>> /\ Ids' = Ids /\ Events' = Events /\ Signals' = Signals
    BY <1>3, <1>8 DEF Carried, Ids, Events, Signals
  <2>2. Typed'
    <3>1. outbox' \in Seq(Events)
      <4>1. Text \in Events
        BY DEF Events
      <4>2. out \in Seq(Events)
        BY <4>1, TextSequence
      <4> QED BY <1>1, <1>8, <4>2, EmittedTyped DEF Typed
    <3>2. state' \in [Component -> {0, Gone} \cup Ids]
      BY <1>1, <1>8 DEF Carried, Typed
    <3>3. pending' = [d \in Component |-> pending'[d]]
      BY <1>8 DEF Carried
    <3> QED BY <1>1, <1>3, <2>1, <3>1, <3>2, <3>3 DEF Typed
  <2>3. Waits'
    <3> SUFFICES ASSUME NEW d \in Component, Waiting(d)'
                 PROVE  /\ pending'[d].id = state'[d] \/ Overtaken(d)'
                        /\ pending'[d].id \in Ids' /\ pending'[d].op \in Op
                        /\ asked'[pending'[d].id] =
                             [by |-> d, gate |-> pending'[d].gate, req |-> pending'[d].req]
      BY DEF Waits
    <3>1. state'[d] = state[d] /\ Waiting(d) /\ pending'[d] = pending[d]
      BY <1>1, <1>8 DEF Carried, Typed, Waiting
    <3> QED BY <1>3, <2>1, <3>1 DEF Inv, Waits, Overtaken
  <2>4. Consented'
    <3>1. \A d \in Component : \A i \in DOMAIN inbox'[d] :
            inbox'[d][i].yes =>
              Said(StoreOf(asked[inbox'[d][i].id].by), asked[inbox'[d][i].id].gate)
      <4>1. ASSUME NEW d \in Component, NEW i \in DOMAIN inbox'[d], inbox'[d][i].yes
            PROVE  Said(StoreOf(asked[inbox'[d][i].id].by), asked[inbox'[d][i].id].gate)
        <5>1. PICK j \in DOMAIN inbox[d] : inbox'[d][i] = inbox[d][j]
          OBVIOUS
        <5> QED BY <4>1, <5>1 DEF Inv, Consented
      <4> QED BY <4>1
    <3>2. \A g \in saved : Yes(shared, g)
      BY DEF Inv, Consented
    <3> QED BY <1>3, <2>1, <3>1, <3>2 DEF Consented, Yes, Said
  <2>5. RunOnlyApproved'
    <3> DEFINE Cleared(by, g) ==
                 \/ g.kind = "command" /\ by \in Elevated
                 \/ \E x \in consent \cup overtaken :
                      Matches(x.gate, g) /\ (g.kind = "path" \/ x.store = StoreOf(by))
    <3>1. ASSUME NEW g, Passes(c, g, grants', allowed') PROVE Cleared(c, g)
      <4>2. CASE g.kind # "path" /\ \E p \in grants'[StoreOf(c)] : Matches(p, g)
        <5>1. PICK p \in grants'[StoreOf(c)] : Matches(p, g)
          BY <4>2
        <5>2. PICK x \in consent \cup overtaken : x.store = StoreOf(c) /\ x.gate = p
          BY <1>5, <5>1 DEF Yes
        <5> QED BY <4>2, <5>1, <5>2
      <4>3. CASE g.kind = "command" /\ c \in Elevated
        BY <4>3
      <4>4. CASE g.kind = "path" /\ \E p \in allowed' : Covers(p, g.on)
        <5>1. PICK p \in allowed' : Covers(p, g.on)
          BY <4>4
        <5>2. PICK x \in consent \cup overtaken : x.gate.kind = "path" /\ x.gate.on = p
          BY <5>1
        <5>3. Matches(x.gate, g)
          BY <4>4, <5>1, <5>2 DEF Matches
        <5> QED BY <4>4, <5>3
      <4> QED BY <3>1, <4>2, <4>3, <4>4 DEF Passes
    <3>2. ran' = ran \cup {[by |-> c, op |-> op]}
      BY <1>8 DEF Carried
    <3>3. ASSUME NEW x \in ran', NEW i \in DOMAIN Gates[x.op] PROVE Cleared(x.by, Gates[x.op][i])
      <4>1. CASE x \in ran
        BY <4>1 DEF Inv, RunOnlyApproved
      <4>2. CASE x = [by |-> c, op |-> op]
        BY <1>8, <3>1, <4>2 DEF Carried
      <4> QED BY <3>2, <4>1, <4>2
    <3> QED BY <1>3, <2>1, <3>3 DEF RunOnlyApproved
  <2>6. GrantsResumed'
    BY <1>3, <2>1 DEF Inv, GrantsResumed
  <2> QED BY <1>7, <2>2, <2>3, <2>4, <2>5, <2>6 DEF Inv
<1>9. ASSUME NEW gate, Suspended(c, op, req, out, gate, grants', allowed'),
             outbox' = Emitted(Append(out, [kind |-> "ask", id |-> Len(asked) + 1]))
      PROVE  Inv'
  <2> DEFINE a == [by |-> c, gate |-> gate, req |-> req]
  <2>1. a \in Askings /\ a.by = c /\ a.gate = gate /\ a.req = req
    BY <1>9 DEF Suspended, Askings
  <2>2. /\ asked' = Append(asked, a) /\ Len(asked) < MaxAsks /\ ~Passes(c, gate, grants', allowed')
        /\ ran' = ran /\ overtaken \subseteq overtaken'
    BY <1>9 DEF Suspended
  <2> HIDE DEF a
  <2>3. /\ asked' \in Seq(Askings)
        /\ Len(asked') = Len(asked) + 1 /\ Ids' = Ids \cup {Len(asked) + 1}
        /\ DOMAIN asked' = Ids'
        /\ asked'[Len(asked) + 1] = a /\ \A i \in Ids : asked'[i] = asked[i]
    BY <1>1, <1>4, <2>1, <2>2 DEF Typed, Ids
  <2>4. /\ Ids \subseteq Ids' /\ Events \subseteq Events' /\ Signals' = Signals
        /\ \A s \in Seq(Events) : s \in Seq(Events')
    BY <1>1, <1>3, <1>4, <2>3, Wide DEF Signals
  <2>5. Typed'
    <3>1. outbox' \in Seq(Events')
      <4>1. Text \in Events' /\ [kind |-> "ask", id |-> Len(asked) + 1] \in Events'
        BY <2>3 DEF Events
      <4>2. Append(out, [kind |-> "ask", id |-> Len(asked) + 1]) \in Seq(Events')
        <5>1. out \in Seq(Events')
          BY <4>1, TextSequence
        <5> HIDE DEF Events
        <5> QED BY <4>1, <5>1
      <4>3. outbox \in Seq(Events')
        BY <1>1, <2>4 DEF Typed
      <4> QED BY <1>9, <4>2, <4>3, EmittedTyped
    <3>2. state' \in [Component -> {0, Gone} \cup Ids']
      BY <1>1, <1>9, <2>3 DEF Suspended, Typed
    <3>3. pending' = [d \in Component |-> pending'[d]]
      BY <1>1, <1>9 DEF Suspended, Typed
    <3>4. Len(asked') <= MaxAsks
      BY <1>4, <2>2, <2>3, ApprovalsAssumption
    <3>5. screen' \in Seq(Events') /\ shown' \subseteq Ids'
      BY <1>1, <1>3, <2>4 DEF Typed
    <3> QED BY <1>1, <1>3, <2>3, <2>4, <3>1, <3>2, <3>3, <3>4, <3>5 DEF Typed
  <2>6. Waits'
    <3> SUFFICES ASSUME NEW d \in Component, Waiting(d)'
                 PROVE  /\ pending'[d].id = state'[d] \/ Overtaken(d)'
                        /\ pending'[d].id \in Ids' /\ pending'[d].op \in Op
                        /\ asked'[pending'[d].id] =
                             [by |-> d, gate |-> pending'[d].gate, req |-> pending'[d].req]
      BY DEF Waits
    <3>1. CASE d = c
      <4>1. /\ state[c] = 0 \/ out # <<>> => state'[c] = Len(asked) + 1
            /\ pending'[c] = [id |-> Len(asked) + 1, gate |-> gate, op |-> op, req |-> req]
            /\ state[c] = 0 \/ out # <<>> \/
                 [run |-> runs, id |-> Len(asked) + 1, store |-> StoreOf(c), gate |-> gate] \in overtaken'
        BY <1>1, <1>9 DEF Suspended, Typed
      <4>2. pending'[c].id = state'[c] \/ Overtaken(c)'
        BY <1>3, <4>1 DEF Overtaken
      <4> QED BY <2>3, <3>1, <4>1, <4>2 DEF a
    <3>2. CASE d # c
      <4>1. state'[d] = state[d] /\ Waiting(d) /\ pending'[d] = pending[d]
        BY <1>1, <1>9, <3>2 DEF Suspended, Typed, Waiting
      <4>2. pending[d].id \in Ids /\ asked'[pending[d].id] = asked[pending[d].id]
        BY <1>4, <2>3, <4>1 DEF Inv, Waits
      <4>3. Overtaken(d) => Overtaken(d)'
        BY <1>3, <2>2, <4>1 DEF Overtaken
      <4> QED BY <2>4, <4>1, <4>2, <4>3 DEF Inv, Waits
    <3> QED BY <3>1, <3>2
  <2>7. Consented'
    <3>1. \A d \in Component : \A i \in DOMAIN inbox[d] : inbox[d][i].id \in Ids
      <4>1. inbox \in [Component -> Seq(Signals)] /\ shown \subseteq Ids
        BY <1>1 DEF Typed
      <4>2. \A x \in Signals : x.id \in shown
        BY DEF Signals
      <4>3. \A s \in Seq(Signals) : \A i \in DOMAIN s : s[i] \in Signals
        OBVIOUS
      <4> QED BY <4>1, <4>2, <4>3
    <3>2. \A d \in Component : \A i \in DOMAIN inbox'[d] :
            inbox'[d][i].yes =>
              Said(StoreOf(asked'[inbox'[d][i].id].by), asked'[inbox'[d][i].id].gate)
      <4>1. ASSUME NEW d \in Component, NEW i \in DOMAIN inbox'[d], inbox'[d][i].yes
            PROVE  Said(StoreOf(asked'[inbox'[d][i].id].by), asked'[inbox'[d][i].id].gate)
        <5>1. PICK j \in DOMAIN inbox[d] : inbox'[d][i] = inbox[d][j]
          OBVIOUS
        <5>2. asked'[inbox[d][j].id] = asked[inbox[d][j].id]
          BY <2>3, <3>1
        <5> QED BY <4>1, <5>1, <5>2 DEF Inv, Consented
      <4> QED BY <4>1
    <3>3. \A g \in saved : Yes(shared, g)
      BY DEF Inv, Consented
    <3>4. \A s, g : Yes(s, g) => Yes(s, g)'
      BY <1>3, <2>2 DEF Yes
    <3>5. \A p \in allowed' : \E x \in consent' \cup overtaken' : x.gate.kind = "path" /\ x.gate.on = p
      BY <1>3, <2>2
    <3> HIDE DEF Yes
    <3> QED BY <1>3, <3>2, <3>3, <3>4, <3>5 DEF Consented, Said
  <2>8. RunOnlyApproved'
    <3>1. RunOnlyApproved /\ consent \cup overtaken \subseteq (consent \cup overtaken)'
      BY <1>3, <2>2 DEF Inv
    <3> QED BY <1>3, <2>2, <3>1 DEF RunOnlyApproved
  <2>9. GrantsResumed'
    <3>1. c \in Elevated /\ gate.kind # "path" => \A p \in saved : ~Matches(p, gate)
      BY <1>6, <2>2 DEF Inv, SavedGranted, Passes, StoreOf
    <3> QED BY <1>3, <1>4, <2>1, <2>3, <3>1 DEF Inv, GrantsResumed
  <2> QED BY <1>7, <2>5, <2>6, <2>7, <2>8, <2>9 DEF Inv
<1> QED BY <1>2, <1>8, <1>9

-----------------------------------------------------------------------------
(* The other steps.                                                        *)

LEMMA InvInit == Init => Inv
<1> SUFFICES ASSUME Init PROVE Inv
  OBVIOUS
<1>1. /\ asked = <<>> /\ outbox = <<>> /\ screen = <<>> /\ typed = <<>> /\ shown = {} /\ latest = 0
      /\ requests = 0 /\ allowed = {} /\ saved = {} /\ ran = {}
      /\ state = [c \in Component |-> 0] /\ pending = [c \in Component |-> NoPending]
      /\ inbox = [c \in Component |-> <<>>] /\ grants = [s \in Store |-> {}]
  BY DEF Init
<1>2. asked \in Seq(Askings) /\ Len(asked) = 0
  BY <1>1
<1>3. Typed
  <2>1. /\ state \in [Component -> {0, Gone} \cup Ids]
        /\ inbox \in [Component -> Seq(Signals)]
    BY <1>1
  <2>2. /\ pending = [c \in Component |-> pending[c]] /\ grants = [s \in Store |-> grants[s]]
    BY <1>1
  <2>3. /\ typed \in Seq([id : shown \cup {0}, yes : BOOLEAN])
        /\ outbox \in Seq(Events) /\ screen \in Seq(Events)
    BY <1>1
  <2> QED BY <1>1, <1>2, <2>1, <2>2, <2>3, ApprovalsAssumption DEF Typed
<1>4. Waits
  BY <1>1 DEF Waits, Waiting
<1>5. Consented /\ RunOnlyApproved /\ SavedGranted /\ GrantsResumed
  <2>1. \A c \in Component : DOMAIN inbox[c] = {}
    BY <1>1
  <2>2. DOMAIN asked = {}
    BY <1>1
  <2> QED BY <1>1, <2>1, <2>2 DEF Consented, RunOnlyApproved, SavedGranted, GrantsResumed
<1> QED BY <1>3, <1>4, <1>5 DEF Inv

\* Steps that move signals and lines without adding to the permissions: signals
\* are read, or come in with the consent they carry.
LEMMA Quiet ==
  ASSUME Inv, Typed', Waits', UNCHANGED <<asked, grants, allowed, saved, ran>>,
         consent \subseteq consent', overtaken \subseteq overtaken',
         \A c \in Component : \A i \in DOMAIN inbox'[c] :
           LET a == asked[inbox'[c][i].id]
           IN  inbox'[c][i].yes => [store |-> StoreOf(a.by), gate |-> a.gate] \in consent'
  PROVE  Inv'
<1>1. Consented'
  <2>1. \A s, g : Yes(s, g) => Yes(s, g)'
    BY DEF Yes
  <2>2. \A p \in allowed : \E x \in consent' \cup overtaken' : x.gate.kind = "path" /\ x.gate.on = p
    BY DEF Inv, Consented
  <2> HIDE DEF Yes
  <2> QED BY <2>1, <2>2 DEF Inv, Consented, Said
<1>2. RunOnlyApproved'
  BY DEF Inv, RunOnlyApproved
<1>3. SavedGranted' /\ GrantsResumed'
  BY DEF Inv, SavedGranted, GrantsResumed
<1> QED BY <1>1, <1>2, <1>3 DEF Inv

\* The rest of an inbox.
LEMMA Read ==
  ASSUME Typed, NEW c \in Component, NextSignal(c)
  PROVE  /\ inbox' \in [Component -> Seq(Signals)]
         /\ \A d \in Component : \A i \in DOMAIN inbox'[d] :
              \E j \in DOMAIN inbox[d] : inbox'[d][i] = inbox[d][j]
         /\ Head(inbox[c]) \in Signals /\ 1 \in DOMAIN inbox[c] /\ Head(inbox[c]) = inbox[c][1]
<1>1. /\ inbox[c] # <<>> /\ inbox' = [inbox EXCEPT ![c] = Tail(@)]
      /\ inbox \in [Component -> Seq(Signals)]
  BY DEF NextSignal, Typed
<1>2. \A s \in Seq(Signals) : s # <<>> =>
        /\ Tail(s) \in Seq(Signals) /\ Head(s) \in Signals /\ 1 \in DOMAIN s /\ Head(s) = s[1]
        /\ \A i \in DOMAIN Tail(s) : i + 1 \in DOMAIN s /\ Tail(s)[i] = s[i + 1]
  OBVIOUS
<1>3. inbox[c] \in Seq(Signals)
  BY <1>1
<1>4. inbox' \in [Component -> Seq(Signals)]
  BY <1>1, <1>2
<1>5. ASSUME NEW d \in Component, NEW i \in DOMAIN inbox'[d]
      PROVE  \E j \in DOMAIN inbox[d] : inbox'[d][i] = inbox[d][j]
  <2>1. CASE d = c
    <3>1. inbox'[d] = Tail(inbox[c])
      BY <1>1, <2>1
    <3> QED BY <1>1, <1>2, <1>3, <1>5, <2>1, <3>1
  <2>2. CASE d # c
    BY <1>1, <1>5, <2>2
  <2> QED BY <2>1, <2>2
<1> QED BY <1>1, <1>2, <1>3, <1>4, <1>5

\* What a signal in an inbox says holds for as long as it is there.
LEMMA InboxConsent ==
  ASSUME Inv, \A d \in Component : \A i \in DOMAIN inbox'[d] :
                \E j \in DOMAIN inbox[d] : inbox'[d][i] = inbox[d][j]
  PROVE  \A d \in Component : \A i \in DOMAIN inbox'[d] :
           LET a == asked[inbox'[d][i].id]
           IN  inbox'[d][i].yes => [store |-> StoreOf(a.by), gate |-> a.gate] \in consent
<1> SUFFICES ASSUME NEW d \in Component, NEW i \in DOMAIN inbox'[d], inbox'[d][i].yes
             PROVE  LET a == asked[inbox'[d][i].id]
                    IN  [store |-> StoreOf(a.by), gate |-> a.gate] \in consent
  OBVIOUS
<1>1. PICK j \in DOMAIN inbox[d] : inbox'[d][i] = inbox[d][j]
  OBVIOUS
<1> QED BY <1>1 DEF Inv, Consented, Said

LEMMA DispatchKeeps ==
  ASSUME Inv, NEW c \in Component, NEW op \in Does[c], Dispatch(c, op)
  PROVE  Inv'
<1>1. /\ Serve(c, op, requests + 1, <<>>, grants, allowed)
      /\ UNCHANGED <<grants, allowed, saved, inbox, screen, terminal, consent, runs>>
      /\ requests' = requests + 1
  BY DEF Dispatch, permits
<1>2. op \in Op /\ requests + 1 \in Nat
  BY ApprovalsAssumption DEF Inv, Typed
<1>3. Serve(c, op, requests + 1, <<>>, grants', allowed')
  BY <1>1
<1>4. /\ inbox' \in [Component -> Seq(Signals)]
      /\ grants' = [s \in Store |-> grants'[s]]
      /\ \A s \in Store : grants[s] \subseteq grants'[s] /\ \A g \in grants'[s] : Yes(s, g)
      /\ \A p \in allowed' : \E x \in consent \cup overtaken : x.gate.kind = "path" /\ x.gate.on = p
  BY <1>1 DEF Inv, Typed, Consented
<1>5. \A d \in Component : \A i \in DOMAIN inbox'[d] :
        \E j \in DOMAIN inbox[d] : inbox'[d][i] = inbox[d][j]
  BY <1>1
<1>6. <<>> \in {<<>>, <<Text>>} /\ requests' \in Nat
  BY <1>1, <1>2
<1> HIDE DEF Yes
<1> QED BY <1>1, <1>2, <1>3, <1>4, <1>5, <1>6, ServeKeeps

\* What an approval finds.
LEMMA ApprovedFinds ==
  ASSUME Inv, NEW c \in Component, Approved(c)
  PROVE  /\ Waiting(c) /\ state[c] \in Ids /\ Head(inbox[c]).id = state[c] /\ state[c] \in shown
         /\ pending[c].op \in Op /\ pending[c].gate \in Gate /\ pending[c].req \in Nat
         /\ pending[c].id \in Ids
         /\ asked[pending[c].id] = [by |-> c, gate |-> pending[c].gate, req |-> pending[c].req]
         /\ Yes(StoreOf(c), pending[c].gate)
<1>1. /\ NextSignal(c) /\ Head(inbox[c]).yes /\ state[c] = Head(inbox[c]).id
  BY DEF Approved, IsFor
<1>2. Head(inbox[c]) \in Signals /\ 1 \in DOMAIN inbox[c] /\ Head(inbox[c]) = inbox[c][1]
  BY <1>1, Read DEF Inv
<1>3. state[c] \in shown /\ state[c] \in Ids
  BY <1>1, <1>2 DEF Signals, Inv, Typed
<1>4. Waiting(c)
  BY <1>3, Identifiers DEF Inv
<1>5. /\ pending[c].op \in Op /\ pending[c].id \in Ids /\ asked[pending[c].id] \in Askings
      /\ asked[pending[c].id] = [by |-> c, gate |-> pending[c].gate, req |-> pending[c].req]
      /\ pending[c].id = state[c] \/ Overtaken(c)
  BY <1>4, Identifiers DEF Inv, Waits
<1>6. pending[c].gate \in Gate /\ pending[c].req \in Nat
  BY <1>5 DEF Askings
<1>7. ASSUME pending[c].id = state[c] PROVE Yes(StoreOf(c), pending[c].gate)
  <2>1. Said(StoreOf(asked[state[c]].by), asked[state[c]].gate)
    BY <1>1, <1>2 DEF Inv, Consented
  <2> QED BY <1>5, <1>7, <2>1 DEF Said, Yes
<1>8. ASSUME Overtaken(c) PROVE Yes(StoreOf(c), pending[c].gate)
  BY <1>8 DEF Overtaken, Yes
<1> QED BY <1>1, <1>3, <1>4, <1>5, <1>6, <1>7, <1>8

LEMMA ApprovedKeeps ==
  ASSUME Inv, NEW c \in Component, Approved(c) PROVE Inv'
<1> DEFINE p == pending[c]
<1>1. /\ NextSignal(c) /\ grants' = [grants EXCEPT ![StoreOf(c)] = @ \cup {p.gate}]
      /\ allowed' = Opened(p.gate)
      /\ Serve(c, p.op, p.req, <<Text>>, grants', allowed')
      /\ UNCHANGED <<saved, screen, terminal, consent, requests, runs>>
  BY DEF Approved
<1>2. p.op \in Op /\ p.gate \in Gate /\ p.req \in Nat /\ Yes(StoreOf(c), p.gate)
  BY ApprovedFinds
<1> HIDE DEF p
<1>3. /\ inbox' \in [Component -> Seq(Signals)]
      /\ \A d \in Component : \A i \in DOMAIN inbox'[d] :
           \E j \in DOMAIN inbox[d] : inbox'[d][i] = inbox[d][j]
  BY <1>1, Read DEF Inv
<1>4. /\ grants' = [s \in Store |-> grants'[s]]
      /\ \A s \in Store : grants[s] \subseteq grants'[s] /\ \A g \in grants'[s] : Yes(s, g)
  <2>1. grants = [s \in Store |-> grants[s]] /\ \A s \in Store : \A g \in grants[s] : Yes(s, g)
    BY DEF Inv, Typed, Consented
  <2>2. grants' = [s \in Store |-> IF s = StoreOf(c) THEN grants[s] \cup {p.gate} ELSE grants[s]]
    BY <1>1, <2>1
  <2> HIDE DEF Yes
  <2> QED BY <1>2, <2>1, <2>2
<1>5. \A q \in allowed' : \E x \in consent \cup overtaken : x.gate.kind = "path" /\ x.gate.on = q
  <2>1. \A q \in allowed' : q \in allowed \/ (p.gate.kind = "path" /\ p.gate.on = q)
    BY <1>1 DEF Opened
  <2>2. \E x \in consent \cup overtaken : x.gate = p.gate
    BY <1>2 DEF Yes
  <2> QED BY <2>1, <2>2 DEF Inv, Consented
<1>6. <<Text>> \in {<<>>, <<Text>>} /\ requests' \in Nat
  BY <1>1 DEF Inv, Typed
<1> HIDE DEF Yes
<1> QED BY <1>1, <1>2, <1>3, <1>4, <1>5, <1>6, ServeKeeps

LEMMA RejectedKeeps ==
  ASSUME Inv, NEW c \in Component, Rejected(c)
  PROVE  /\ Inv'
         /\ inbox[c] # <<>> /\ Head(inbox[c]).id \in shown /\ ~Head(inbox[c]).yes
         /\ Head(inbox[c]).id = pending[c].id
<1>1. /\ NextSignal(c) /\ pending[c].id = Head(inbox[c]).id
      /\ state' = [state EXCEPT ![c] = Gone] /\ pending' = [pending EXCEPT ![c] = NoPending]
      /\ outbox' = Emitted(<<Text>>)
      /\ UNCHANGED <<grants, allowed, saved, screen, latest, typed, shown, asked, consent, overtaken,
                     ran, requests, runs>>
  BY DEF Rejected, IsFor, permits, terminal
<1>2. /\ inbox' \in [Component -> Seq(Signals)]
      /\ \A d \in Component : \A i \in DOMAIN inbox'[d] :
           \E j \in DOMAIN inbox[d] : inbox'[d][i] = inbox[d][j]
      /\ Head(inbox[c]) \in Signals
  BY <1>1, Read DEF Inv
<1>3. Ids' = Ids /\ Events' = Events /\ Signals' = Signals
  BY <1>1 DEF Ids, Events, Signals
<1>4. Typed'
  <2>1. outbox' \in Seq(Events)
    <3>1. Text \in Events
      BY DEF Events
    <3>2. <<Text>> \in Seq(Events)
      BY <3>1, TextSequence
    <3> QED BY <1>1, <3>2, EmittedTyped DEF Inv, Typed
  <2>2. state' \in [Component -> {0, Gone} \cup Ids]
    BY <1>1 DEF Inv, Typed
  <2>3. pending' = [d \in Component |-> pending'[d]]
    BY <1>1 DEF Inv, Typed
  <2> QED BY <1>1, <1>2, <1>3, <2>1, <2>2, <2>3 DEF Inv, Typed
<1>5. Waits'
  BY <1>1, <1>3 DEF Inv, Typed, Waits, Waiting, Overtaken
<1>6. Inv'
  BY <1>1, <1>2, <1>4, <1>5, InboxConsent, Quiet DEF Said
<1>7. Head(inbox[c]).id \in shown
  BY <1>2 DEF Signals
<1> QED BY <1>1, <1>6, <1>7 DEF Rejected, NextSignal

\* A line is handled: its answer goes to every runner, with the consent it is.
LEMMA HandleLineKeeps == Inv /\ HandleLine => Inv'
<1> SUFFICES ASSUME Inv, HandleLine PROVE Inv'
  OBVIOUS
<1> DEFINE l == Head(typed)
           id == Target(l)
<1>1. /\ typed # <<>> /\ typed' = Tail(typed)
      /\ UNCHANGED <<state, pending, grants, allowed, saved, outbox, screen, shown, asked, overtaken,
                     ran, requests, runs>>
      /\ id = 0 => UNCHANGED <<inbox, latest, consent>>
      /\ id # 0 => /\ inbox' = [c \in Component |-> Append(inbox[c], [id |-> id, yes |-> l.yes])]
                   /\ latest' = IF latest = id THEN 0 ELSE latest
                   /\ consent' = IF l.yes
                                 THEN consent \cup {[store |-> StoreOf(asked[id].by), gate |-> asked[id].gate]}
                                 ELSE consent
  BY DEF HandleLine, permits
<1>2. /\ typed \in Seq([id : shown \cup {0}, yes : BOOLEAN]) /\ latest \in shown \cup {0}
      /\ inbox \in [Component -> Seq(Signals)]
  BY DEF Inv, Typed
<1>3. l \in [id : shown \cup {0}, yes : BOOLEAN] /\ typed' \in Seq([id : shown \cup {0}, yes : BOOLEAN])
  <2> DEFINE L == [id : shown \cup {0}, yes : BOOLEAN]
  <2>1. typed \in Seq(L)
    BY <1>2
  <2> HIDE DEF L
  <2>2. Head(typed) \in L /\ Tail(typed) \in Seq(L)
    BY <1>1, <2>1
  <2> QED BY <1>1, <2>2 DEF L
<1>4. id \in shown \cup {0}
  BY <1>2, <1>3 DEF Target
<1>5. l.yes \in BOOLEAN
  BY <1>3
<1> HIDE DEF l, id
<1>6. Ids' = Ids /\ Events' = Events /\ Signals' = Signals
  BY <1>1 DEF Ids, Events, Signals
<1>7. ASSUME id # 0
      PROVE  /\ [id |-> id, yes |-> l.yes] \in Signals
             /\ inbox' \in [Component -> Seq(Signals)]
             /\ \A c \in Component : \A i \in DOMAIN inbox'[c] :
                  \/ \E j \in DOMAIN inbox[c] : inbox'[c][i] = inbox[c][j]
                  \/ inbox'[c][i] = [id |-> id, yes |-> l.yes]
  <2> DEFINE s == [id |-> id, yes |-> l.yes]
  <2>1. s \in Signals
    BY <1>4, <1>5, <1>7 DEF Signals
  <2>2. inbox' = [c \in Component |-> Append(inbox[c], s)]
    BY <1>1, <1>7
  <2> HIDE DEF s
  <2>3. \A q \in Seq(Signals) : /\ Append(q, s) \in Seq(Signals)
                                /\ \A i \in DOMAIN Append(q, s) :
                                     (i \in DOMAIN q /\ Append(q, s)[i] = q[i]) \/ Append(q, s)[i] = s
    BY <2>1
  <2>4. inbox' \in [Component -> Seq(Signals)]
    BY <1>2, <2>2, <2>3
  <2>5. ASSUME NEW c \in Component, NEW i \in DOMAIN inbox'[c]
        PROVE  (\E j \in DOMAIN inbox[c] : inbox'[c][i] = inbox[c][j]) \/ inbox'[c][i] = s
    <3>1. inbox[c] \in Seq(Signals) /\ inbox'[c] = Append(inbox[c], s)
      BY <1>2, <2>2
    <3> QED BY <2>3, <2>5, <3>1
  <2> QED BY <2>1, <2>4, <2>5 DEF s
<1>8. Typed'
  <2>1. latest' \in shown \cup {0} /\ inbox' \in [Component -> Seq(Signals)]
    BY <1>1, <1>2, <1>7
  <2> QED BY <1>1, <1>3, <1>6, <2>1 DEF Inv, Typed
<1>9. Waits'
  BY <1>1, <1>6 DEF Inv, Waits, Waiting, Overtaken
<1>10. consent \subseteq consent'
  BY <1>1
<1>11. ASSUME NEW c \in Component, NEW i \in DOMAIN inbox'[c], inbox'[c][i].yes
       PROVE  [store |-> StoreOf(asked[inbox'[c][i].id].by), gate |-> asked[inbox'[c][i].id].gate] \in consent'
  <2>1. CASE \E j \in DOMAIN inbox[c] : inbox'[c][i] = inbox[c][j]
    <3>1. PICK j \in DOMAIN inbox[c] : inbox'[c][i] = inbox[c][j]
      BY <2>1
    <3> QED BY <1>10, <1>11, <3>1 DEF Inv, Consented, Said
  <2>2. CASE id # 0 /\ inbox'[c][i] = [id |-> id, yes |-> l.yes]
    BY <1>1, <1>11, <2>2
  <2>3. CASE id = 0
    BY <1>1, <1>11, <2>3 DEF Inv, Consented, Said
  <2> QED BY <1>7, <1>11, <2>1, <2>2, <2>3
<1> QED BY <1>1, <1>8, <1>9, <1>10, <1>11, Quiet

\* A restart keeps what was saved and consented for the shared store.
LEMMA RestartKeeps ==
  ASSUME Inv, NEW save \in BOOLEAN, Restart(save) PROVE Inv'
<1>1. /\ saved' = (IF save THEN grants[shared] ELSE saved)
      /\ grants' = [s \in Store |-> IF s = shared THEN saved' ELSE {}]
      /\ consent' = {x \in consent : x.store = shared}
      /\ overtaken' = {x \in overtaken : x.store = shared}
      /\ requests' = requests
      /\ state' = [c \in Component |-> 0] /\ pending' = [c \in Component |-> NoPending]
      /\ inbox' = [c \in Component |-> <<>>] /\ typed' = <<>> /\ screen' = <<>> /\ outbox' = <<>>
      /\ allowed' = {} /\ latest' = 0 /\ asked' = <<>> /\ shown' = {} /\ ran' = {}
  BY DEF Restart, Fresh, Restored
<1>2. shared \in Store
  BY DEF Store
<1>3. Typed'
  <2>1. asked' \in Seq(Askings) /\ Len(asked') = 0 /\ Len(asked') <= MaxAsks
    BY <1>1, ApprovalsAssumption
  <2>2. /\ state' \in [Component -> {0, Gone} \cup Ids'] /\ inbox' \in [Component -> Seq(Signals')]
        /\ pending' = [c \in Component |-> pending'[c]] /\ grants' = [s \in Store |-> grants'[s]]
    BY <1>1
  <2>3. /\ typed' \in Seq([id : shown' \cup {0}, yes : BOOLEAN])
        /\ outbox' \in Seq(Events') /\ screen' \in Seq(Events')
    BY <1>1
  <2> QED BY <1>1, <2>1, <2>2, <2>3 DEF Inv, Typed
<1>4. Waits'
  BY <1>1 DEF Waits, Waiting
<1>5. \A g \in saved' : Yes(shared, g)'
  <2>1. \A g \in saved' : Yes(shared, g)
    <3> HIDE DEF Yes
    <3> QED BY <1>1, <1>2 DEF Inv, Consented
  <2>2. \A g : Yes(shared, g) => Yes(shared, g)'
    BY <1>1 DEF Yes
  <2> HIDE DEF Yes
  <2> QED BY <2>1, <2>2
<1>6. Consented'
  <2>1. \A c \in Component : DOMAIN inbox'[c] = {}
    BY <1>1
  <2>2. \A s \in Store : \A g \in grants'[s] : Yes(s, g)'
    <3> HIDE DEF Yes
    <3> QED BY <1>1, <1>5
  <2> HIDE DEF Yes
  <2> QED BY <1>1, <1>5, <2>1, <2>2 DEF Consented
<1>7. RunOnlyApproved' /\ SavedGranted' /\ GrantsResumed'
  <2>1. DOMAIN asked' = {} /\ grants'[shared] = saved'
    BY <1>1, <1>2
  <2> QED BY <1>1, <2>1 DEF RunOnlyApproved, SavedGranted, GrantsResumed
<1> QED BY <1>3, <1>4, <1>6, <1>7 DEF Inv

\* Output on its way to the user, and answers on their way to the application.
LEMMA TerminalKeeps ==
  ASSUME Inv,
         \/ Client \/ Display \/ Answer \/ (\E yes \in BOOLEAN : AnswerBare(yes))
  PROVE  Inv'
<1>1. UNCHANGED <<state, pending, inbox, grants, allowed, saved, asked, consent, overtaken,
                  ran, requests, runs>>
  BY DEF Client, Display, Answer, AnswerById, AnswerBare, runners, permits
<1>2. /\ shown \subseteq shown' /\ shown' \subseteq Ids /\ latest' \in shown' \cup {0}
      /\ screen' \in Seq(Events) /\ outbox' \in Seq(Events)
      /\ typed' \in Seq([id : shown' \cup {0}, yes : BOOLEAN])
  <2>1. /\ shown \subseteq Ids /\ latest \in shown \cup {0}
        /\ screen \in Seq(Events) /\ outbox \in Seq(Events)
        /\ typed \in Seq([id : shown \cup {0}, yes : BOOLEAN])
    BY DEF Inv, Typed
  <2>2. CASE Client
    <3>1. /\ outbox # <<>> /\ screen' = Append(screen, Head(outbox)) /\ outbox' = Tail(outbox)
          /\ UNCHANGED <<latest, typed, shown>>
      BY <2>2 DEF Client, terminal
    <3>2. screen' \in Seq(Events) /\ outbox' \in Seq(Events)
      BY <2>1, <3>1
    <3> QED BY <2>1, <3>1, <3>2
  <2>3. CASE Display
    <3>1. /\ screen # <<>> /\ screen' = Tail(screen) /\ UNCHANGED <<outbox, typed>>
          /\ IF Head(screen).kind = "ask"
             THEN latest' = Head(screen).id /\ shown' = shown \cup {Head(screen).id}
             ELSE UNCHANGED <<latest, shown>>
      BY <2>3 DEF Display
    <3>2. screen' \in Seq(Events) /\ Head(screen) \in Events
      BY <2>1, <3>1
    <3>3. Head(screen).kind = "ask" => Head(screen).id \in Ids
      BY <3>2 DEF Events, Text
    <3>4. shown \subseteq shown' /\ shown' \subseteq Ids /\ latest' \in shown' \cup {0}
      BY <2>1, <3>1, <3>3
    <3>5. [id : shown \cup {0}, yes : BOOLEAN] \subseteq [id : shown' \cup {0}, yes : BOOLEAN]
      BY <3>4
    <3>6. typed \in Seq([id : shown' \cup {0}, yes : BOOLEAN])
      BY <2>1, <3>5, Wider
    <3> QED BY <2>1, <3>1, <3>2, <3>4, <3>6
  <2>4. CASE Answer \/ \E yes \in BOOLEAN : AnswerBare(yes)
    <3>1. PICK x \in [id : shown \cup {0}, yes : BOOLEAN] :
            typed' = Append(typed, x) /\ UNCHANGED <<outbox, screen, latest, shown>>
      BY <2>4 DEF Answer, AnswerById, AnswerBare
    <3>2. typed' \in Seq([id : shown \cup {0}, yes : BOOLEAN])
      BY <2>1, <3>1
    <3> QED BY <2>1, <3>1, <3>2
  <2> QED BY <2>2, <2>3, <2>4
<1>3. Ids' = Ids /\ Events' = Events
  BY <1>1 DEF Ids, Events
<1>4. inbox' \in [Component -> Seq(Signals')]
  <2>1. inbox \in [Component -> Seq(Signals)] /\ Signals \subseteq Signals'
    BY <1>2 DEF Inv, Typed, Signals
  <2>2. \A s \in Seq(Signals) : s \in Seq(Signals')
    BY <2>1, Wider
  <2> QED BY <1>1, <2>1, <2>2
<1>5. Typed'
  BY <1>1, <1>2, <1>3, <1>4 DEF Inv, Typed
<1>6. Waits'
  BY <1>1, <1>3 DEF Inv, Waits, Waiting, Overtaken
<1>7. \A c \in Component : \A i \in DOMAIN inbox'[c] :
        \E j \in DOMAIN inbox[c] : inbox'[c][i] = inbox[c][j]
  BY <1>1
<1> QED BY <1>1, <1>5, <1>6, <1>7, InboxConsent, Quiet

LEMMA IgnoreKeeps ==
  ASSUME Inv, NEW c \in Component, IgnoreSignal(c) PROVE Inv'
<1>1. /\ NextSignal(c)
      /\ UNCHANGED <<state, pending, grants, allowed, saved, outbox, screen, latest, typed, shown,
                     asked, consent, overtaken, ran, requests, runs>>
  BY DEF IgnoreSignal, permits, terminal
<1>2. /\ inbox' \in [Component -> Seq(Signals)]
      /\ \A d \in Component : \A i \in DOMAIN inbox'[d] :
           \E j \in DOMAIN inbox[d] : inbox'[d][i] = inbox[d][j]
  BY <1>1, Read DEF Inv
<1>3. Ids' = Ids /\ Events' = Events /\ Signals' = Signals
  BY <1>1 DEF Ids, Events, Signals
<1>4. Typed' /\ Waits'
  BY <1>1, <1>2, <1>3 DEF Inv, Typed, Waits, Waiting, Overtaken
<1> QED BY <1>1, <1>2, <1>4, InboxConsent, Quiet

LEMMA InvNext == Inv /\ [Next]_vars => Inv'
<1> SUFFICES ASSUME Inv, [Next]_vars PROVE Inv'
  OBVIOUS
<1>1. CASE UNCHANGED vars
  <2>1. /\ UNCHANGED <<state, pending, inbox, grants, allowed, saved, outbox, screen, latest, typed, shown,
                       asked, consent, overtaken, ran, requests, runs>>
    BY <1>1 DEF vars, runners, permits, terminal
  <2>2. Ids' = Ids /\ Events' = Events /\ Signals' = Signals
    BY <2>1 DEF Ids, Events, Signals
  <2>3. Typed' /\ Waits'
    BY <2>1, <2>2 DEF Inv, Typed, Waits, Waiting, Overtaken
  <2> QED BY <2>1, <2>3, InboxConsent, Quiet
<1>2. CASE \E c \in Component : Runner(c)
  BY <1>2, IgnoreKeeps, ApprovedKeeps, RejectedKeeps DEF Runner
<1>3. CASE \E c \in Component : \E op \in Does[c] : Dispatch(c, op)
  BY <1>3, DispatchKeeps
<1>4. CASE Client \/ App \/ Answer \/ \E yes \in BOOLEAN : AnswerBare(yes)
  BY <1>4, TerminalKeeps, HandleLineKeeps DEF App
<1>5. CASE \E save \in BOOLEAN : Restart(save)
  BY <1>5, RestartKeeps
<1> QED BY <1>1, <1>2, <1>3, <1>4, <1>5 DEF Next

-----------------------------------------------------------------------------
\* Nothing is carried out that the user has not said yes to at every gate, for
\* a component of the same store, whatever components, operations, gates and
\* prefixes there are and however signals, answers, further requests and
\* restarts fall; the gates of a request that took the place of one its
\* component waited for, which the yes to that one grants, are named as such.
THEOREM SpecRunOnlyApproved == Spec => []RunOnlyApproved
<1>1. Inv /\ [Next]_vars => Inv'
  BY InvNext
<1> QED BY <1>1, InvInit, PTL DEF Spec, Inv

\* No elevated component asks again for an intent or a command that the session
\* it was resumed from had saved.
THEOREM SpecGrantsResumed == Spec => []GrantsResumed
<1>1. Inv /\ [Next]_vars => Inv'
  BY InvNext
<1> QED BY <1>1, InvInit, PTL DEF Spec, Inv

\* A component stops waiting only at an answer the user was shown the request
\* of: to its own request, or an n to the one that took its place; or with the
\* program.
THEOREM SpecOwnAnswerOnly == Spec => OwnAnswerOnly
<1> DEFINE Own == \A c \in Component :
              Waiting(c) /\ state'[c] # state[c] /\ runs' = runs =>
                /\ inbox[c] # <<>> /\ Head(inbox[c]).id \in shown
                /\ LET s == Head(inbox[c])
                   IN s.id = state[c] \/ (~s.yes /\ s.id = pending[c].id /\ Overtook(s.id))
<1>1. Inv /\ [Next]_vars => Inv'
  BY InvNext
<1>n. Spec => [](runs \in Nat)
  <2>1. Init => runs \in Nat
    BY DEF Init
  <2>2. ASSUME NEW c \in Component, Runner(c) \/ \E op \in Does[c] : Dispatch(c, op)
        PROVE  runs' = runs
    BY <2>2 DEF Runner, Dispatch, IgnoreSignal, Approved, Rejected
  <2>3. Client \/ App \/ Answer \/ (\E yes \in BOOLEAN : AnswerBare(yes)) => runs' = runs
    BY DEF App, Answer, Client, Display, HandleLine, AnswerById, AnswerBare
  <2>4. runs \in Nat /\ (\E save \in BOOLEAN : Restart(save)) => runs' \in Nat
    BY DEF Restart
  <2>5. runs \in Nat /\ [Next]_vars => (runs \in Nat)'
    BY <2>2, <2>3, <2>4 DEF Next, vars
  <2> QED BY <2>1, <2>5, PTL DEF Spec
<1>2. ASSUME Inv, runs \in Nat, Next PROVE Own
  <2> SUFFICES ASSUME NEW c \in Component, Waiting(c), state'[c] # state[c], runs' = runs
               PROVE  /\ inbox[c] # <<>> /\ Head(inbox[c]).id \in shown
                      /\ LET s == Head(inbox[c])
                         IN s.id = state[c] \/ (~s.yes /\ s.id = pending[c].id /\ Overtook(s.id))
    OBVIOUS
  <2>1. CASE Approved(c)
    BY <1>2, <2>1, ApprovedFinds DEF Approved, NextSignal
  <2>2. CASE Rejected(c)
    <3>1. pending[c].id = state[c] \/ Overtaken(c)
      BY <1>2 DEF Inv, Waits
    <3>2. Overtaken(c) => Overtook(pending[c].id)
      BY DEF Overtaken, Overtook
    <3> QED BY <1>2, <2>2, <3>1, <3>2, RejectedKeeps
  <2>3. ASSUME NEW d \in Component, d # c, Approved(d) \/ Rejected(d) PROVE FALSE
    <3>1. Rejected(d) => state'[c] = state[c]
      BY <2>3 DEF Rejected
    <3>2. ASSUME Approved(d) PROVE state'[c] = state[c]
      <4>1. \E v : state' = [state EXCEPT ![d] = v]
        BY <3>2 DEF Approved, Serve
      <4> QED BY <1>2, <2>3, <4>1 DEF Inv, Typed
    <3> QED BY <2>3, <3>1, <3>2
  <2>4. ASSUME NEW d \in Component, NEW op \in Does[d], Dispatch(d, op) PROVE FALSE
    <3>1. CASE d # c
      <4>1. \E v : state' = [state EXCEPT ![d] = v]
        BY <2>4 DEF Dispatch, Serve
      <4> QED BY <1>2, <3>1, <4>1 DEF Inv, Typed
    <3>2. CASE d = c
      <4>1. Serve(c, op, requests + 1, <<>>, grants, allowed)
        BY <2>4, <3>2 DEF Dispatch
      <4>2. op \in Op /\ requests + 1 \in Nat /\ <<>> \in {<<>>, <<Text>>} /\ Typed
        BY <1>2, <3>2, ApprovalsAssumption DEF Inv, Typed
      <4>3. \/ Carried(c, op, <<>>, grants, allowed)
            \/ \E gate : Suspended(c, op, requests + 1, <<>>, gate, grants, allowed)
        BY <4>1, <4>2, Served
      <4>4. state[c] # 0
        BY DEF Waiting
      <4>5. state' = [state EXCEPT ![c] = @]
        BY <4>3, <4>4 DEF Carried, Suspended
      <4> QED BY <4>2, <4>5 DEF Typed
    <3> QED BY <3>1, <3>2
  <2>5. ASSUME \/ Client \/ App \/ Answer \/ (\E yes \in BOOLEAN : AnswerBare(yes))
               \/ \E d \in Component : IgnoreSignal(d)
        PROVE  FALSE
    BY <2>5 DEF Client, App, Display, HandleLine, Answer, AnswerById, AnswerBare, IgnoreSignal, runners
  <2>6. ASSUME NEW save \in BOOLEAN, Restart(save) PROVE FALSE
    BY <1>2, <2>6 DEF Restart
  <2> QED BY <1>2, <2>1, <2>2, <2>3, <2>4, <2>5, <2>6 DEF Next, Runner
<1>3. Inv /\ runs \in Nat /\ [Next]_vars => [Own]_vars
  BY <1>2
<1> HIDE DEF Own
<1>4. Spec => [][Own]_vars
  BY <1>1, <1>n, <1>3, InvInit, PTL DEF Spec
<1> QED BY <1>4 DEF OwnAnswerOnly, Own

-----------------------------------------------------------------------------
(* A request asks once for a permission, but for a path to be created.     *)

LEMMA PassesGrow ==
  ASSUME NEW c \in Component, NEW g, Passes(c, g, grants, allowed),
         \A s \in Store : grants[s] \subseteq grants'[s], allowed \subseteq allowed'
  PROVE  Passes(c, g, grants', allowed')
<1>1. StoreOf(c) \in Store
  BY DEF StoreOf, Store
<1> QED BY <1>1 DEF Passes

LEMMA ServeOnce ==
  ASSUME Inv, OnceInv, NEW c \in Component, NEW op \in Op, NEW req \in Nat,
         NEW out \in {<<>>, <<Text>>},
         Serve(c, op, req, out, grants', allowed'),
         \A s \in Store : grants[s] \subseteq grants'[s], allowed \subseteq allowed',
         requests' \in Nat, requests <= requests', req <= requests',
         \A i \in Ids : asked[i].req = req =>
           /\ asked[i].by = c
           /\ ToCreate(asked[i].gate) \/ Passes(c, asked[i].gate, grants', allowed')
  PROVE  OnceInv'
<1>1. Typed
  BY DEF Inv
<1>2. \/ Carried(c, op, out, grants', allowed')
      \/ \E gate : Suspended(c, op, req, out, gate, grants', allowed')
  BY <1>1, Served
<1>3. /\ Len(asked) \in Nat /\ DOMAIN asked = Ids /\ 0 \notin Ids
      /\ \A d \in Component : Waiting(d) <=> state[d] \in Ids
      /\ \A i \in Ids : i \in Nat /\ asked[i] \in Askings
  BY <1>1, Identifiers
<1>4. ASSUME NEW d \in Component, Waiting(d), NEW i \in Ids, asked[i].req = pending[d].req
      PROVE  i = pending[d].id \/ ToCreate(asked[i].gate) \/ Passes(d, asked[i].gate, grants', allowed')
  BY <1>4, PassesGrow DEF OnceInv, AskedBefore
<1>5. ASSUME NEW d \in Component, Waiting(d)
      PROVE  /\ pending[d].id \in Ids /\ asked[pending[d].id].by = d
             /\ asked[pending[d].id].req = pending[d].req
  <2>1. /\ pending[d].id \in Ids
        /\ asked[pending[d].id] = [by |-> d, gate |-> pending[d].gate, req |-> pending[d].req]
    BY <1>5 DEF Inv, Waits
  <2> QED BY <2>1
<1>6. \A i \in Ids : asked[i].req \in Nat /\ asked[i].req <= requests /\ asked[i].req <= requests'
  <2>1. \A i \in Ids : asked[i].req \in Nat /\ asked[i].req <= requests
    BY <1>3 DEF Askings, OnceInv, AskedBefore
  <2>2. requests \in Nat
    BY <1>1 DEF Typed
  <2> QED BY <2>1, <2>2
<1>7. ASSUME Carried(c, op, out, grants', allowed') PROVE OnceInv'
  <2>1. asked' = asked /\ Ids' = Ids
    BY <1>7 DEF Carried, Ids
  <2>2. ASSUME NEW d \in Component, Waiting(d)'
        PROVE  Waiting(d) /\ state'[d] = state[d] /\ pending'[d] = pending[d]
    BY <1>1, <1>7, <2>2 DEF Carried, Typed, Waiting
  <2>3. AskedBefore'
    <3>1. \A i \in Ids' : asked'[i].req <= requests'
      BY <1>6, <2>1
    <3>2. \A i, j \in Ids' : asked'[i].req = asked'[j].req => asked'[i].by = asked'[j].by
      BY <2>1 DEF OnceInv, AskedBefore
    <3>3. ASSUME NEW d \in Component, Waiting(d)', NEW i \in Ids', asked'[i].req = pending'[d].req
          PROVE  \/ i = pending'[d].id \/ ToCreate(asked'[i].gate)
                 \/ Passes(d, asked'[i].gate, grants', allowed')
      BY <1>4, <2>1, <2>2, <3>3
    <3> QED BY <3>1, <3>2, <3>3 DEF AskedBefore, Passes, ToCreate
  <2> QED BY <2>1, <2>3 DEF OnceInv, AskedOnce
<1>8. ASSUME NEW gate, Suspended(c, op, req, out, gate, grants', allowed') PROVE OnceInv'
  <2> DEFINE a == [by |-> c, gate |-> gate, req |-> req]
             new == Len(asked) + 1
  <2>1. /\ a \in Askings /\ a.by = c /\ a.gate = gate /\ a.req = req
        /\ asked' = Append(asked, a) /\ ~Passes(c, gate, grants', allowed')
    BY <1>8 DEF Suspended, Askings
  <2>2. /\ pending'[c].id = new /\ pending'[c].req = req
        /\ \A d \in Component \ {c} : state'[d] = state[d] /\ pending'[d] = pending[d]
    BY <1>1, <1>8 DEF Suspended, Typed
  <2> HIDE DEF a
  <2>3. /\ Ids' = Ids \cup {new} /\ new \notin Ids /\ DOMAIN asked' = Ids'
        /\ asked'[new] = a /\ \A i \in Ids : asked'[i] = asked[i]
    BY <1>1, <1>3, <2>1 DEF Typed, Ids
  <2> HIDE DEF new
  <2>4. AskedBefore'
    <3>1. \A i \in Ids' : asked'[i].req <= requests'
      BY <1>6, <2>1, <2>3
    <3>2. \A i, j \in Ids' : asked'[i].req = asked'[j].req => asked'[i].by = asked'[j].by
      BY <2>1, <2>3 DEF OnceInv, AskedBefore
    <3>3. ASSUME NEW d \in Component, Waiting(d)', NEW i \in Ids', asked'[i].req = pending'[d].req
          PROVE  \/ i = pending'[d].id \/ ToCreate(asked'[i].gate)
                 \/ Passes(d, asked'[i].gate, grants', allowed')
      <4>1. CASE d = c
        BY <2>1, <2>2, <2>3, <3>3, <4>1
      <4>2. CASE d # c
        <5>1. Waiting(d) /\ state'[d] = state[d] /\ pending'[d] = pending[d]
          BY <2>2, <3>3, <4>2 DEF Waiting
        <5>2. i # new
          BY <1>5, <2>1, <2>3, <3>3, <4>2, <5>1
        <5> QED BY <1>4, <2>3, <3>3, <5>1, <5>2
      <4> QED BY <4>1, <4>2
    <3> QED BY <3>1, <3>2, <3>3 DEF AskedBefore, Passes, ToCreate
  <2>5. AskedOnce'
    <3>1. \A i \in Ids : ~(asked[i].req = req /\ asked[i].gate = gate) \/ ToCreate(gate)
      BY <2>1
    <3> QED BY <1>3, <2>1, <2>3, <3>1 DEF OnceInv, AskedOnce, ToCreate
  <2> QED BY <2>4, <2>5 DEF OnceInv
<1> QED BY <1>2, <1>7, <1>8

\* Steps that neither ask nor grant.
LEMMA OnceQuiet ==
  ASSUME OnceInv, UNCHANGED <<asked, grants, allowed, requests>>,
         \A c \in Component : Waiting(c)' =>
           Waiting(c) /\ state'[c] = state[c] /\ pending'[c] = pending[c]
  PROVE  OnceInv'
<1>1. Ids' = Ids
  BY DEF Ids
<1> QED BY <1>1 DEF OnceInv, AskedBefore, AskedOnce, ToCreate

LEMMA OnceNext == Inv /\ OnceInv /\ [Next]_vars => OnceInv'
<1> SUFFICES ASSUME Inv, OnceInv, [Next]_vars PROVE OnceInv'
  OBVIOUS
<1>1. ASSUME NEW c \in Component, NEW op \in Does[c], Dispatch(c, op) PROVE OnceInv'
  <2>1. /\ Serve(c, op, requests + 1, <<>>, grants, allowed)
        /\ UNCHANGED <<grants, allowed>> /\ requests' = requests + 1
    BY <1>1 DEF Dispatch, permits
  <2>3. op \in Op /\ requests \in Nat
    BY ApprovalsAssumption DEF Inv, Typed
  <2>4. Serve(c, op, requests + 1, <<>>, grants', allowed')
    BY <2>1
  <2>5. \A i \in Ids : asked[i].req # requests + 1
    <3>1. \A i \in Ids : asked[i].req \in Nat /\ asked[i].req <= requests
      BY Identifiers DEF Inv, OnceInv, AskedBefore, Askings
    <3> QED BY <2>3, <3>1
  <2>6. /\ requests + 1 \in Nat /\ requests' \in Nat /\ requests <= requests' /\ requests + 1 <= requests'
        /\ <<>> \in {<<>>, <<Text>>}
        /\ (\A s \in Store : grants[s] \subseteq grants'[s]) /\ allowed \subseteq allowed'
    BY <2>1, <2>3
  <2> QED BY <2>3, <2>4, <2>5, <2>6, ServeOnce
<1>2. ASSUME NEW c \in Component, Approved(c) PROVE OnceInv'
  <2> DEFINE p == pending[c]
  <2>1. /\ grants' = [grants EXCEPT ![StoreOf(c)] = @ \cup {p.gate}]
        /\ allowed' = Opened(p.gate)
        /\ Serve(c, p.op, p.req, <<Text>>, grants', allowed')
        /\ UNCHANGED requests
    BY <1>2 DEF Approved
  <2>2. /\ Waiting(c) /\ p.id \in Ids /\ p.op \in Op /\ p.req \in Nat /\ p.gate \in Gate
        /\ asked[p.id] = [by |-> c, gate |-> p.gate, req |-> p.req]
    BY <1>2, ApprovedFinds
  <2> HIDE DEF p
  <2>3. StoreOf(c) \in Store /\ grants = [s \in Store |-> grants[s]] /\ requests \in Nat
    BY DEF StoreOf, Store, Inv, Typed
  <2>4. /\ \A s \in Store : grants[s] \subseteq grants'[s]
        /\ allowed \subseteq allowed'
        /\ ToCreate(p.gate) \/ Passes(c, p.gate, grants', allowed')
    <3>1. grants' = [s \in Store |-> IF s = StoreOf(c) THEN grants[s] \cup {p.gate} ELSE grants[s]]
      BY <2>1, <2>3
    <3>2. /\ allowed \subseteq allowed'
          /\ p.gate.kind = "path" /\ ~ToCreate(p.gate) => p.gate.on \in allowed'
      BY <2>1 DEF Opened, ToCreate
    <3>3. p.gate \in grants'[StoreOf(c)]
      BY <2>3, <3>1
    <3> QED BY <3>1, <3>2, <3>3 DEF Passes, Matches, Covers
  <2>5. ASSUME NEW i \in Ids, asked[i].req = p.req
        PROVE  /\ asked[i].by = c
               /\ ToCreate(asked[i].gate) \/ Passes(c, asked[i].gate, grants', allowed')
    <3>1. asked[i].by = c
      <4>1. asked[p.id].req = p.req /\ asked[p.id].by = c
        BY <2>2
      <4> QED BY <2>2, <2>5, <4>1 DEF OnceInv, AskedBefore
    <3>2. CASE i = p.id
      <4>1. asked[i].gate = p.gate
        BY <2>2, <3>2
      <4> QED BY <2>4, <3>1, <4>1
    <3>3. CASE i # p.id
      <4>1. ToCreate(asked[i].gate) \/ Passes(c, asked[i].gate, grants, allowed)
        BY <2>2, <2>5, <3>3 DEF OnceInv, AskedBefore, p
      <4> QED BY <2>4, <3>1, <4>1, PassesGrow
    <3> QED BY <3>2, <3>3
  <2>6. /\ requests' \in Nat /\ requests <= requests' /\ p.req <= requests'
        /\ <<Text>> \in {<<>>, <<Text>>}
    <3>1. asked[p.id].req = p.req /\ asked[p.id].req <= requests
      BY <2>2 DEF OnceInv, AskedBefore
    <3> QED BY <2>1, <2>3, <3>1
  <2> QED BY <2>1, <2>2, <2>4, <2>5, <2>6, ServeOnce
<1>3. ASSUME NEW c \in Component, Rejected(c) PROVE OnceInv'
  <2>1. /\ UNCHANGED <<asked, grants, allowed, requests>>
        /\ state' = [state EXCEPT ![c] = Gone] /\ pending' = [pending EXCEPT ![c] = NoPending]
    BY <1>3 DEF Rejected, permits
  <2>2. ASSUME NEW d \in Component, Waiting(d)'
        PROVE  Waiting(d) /\ state'[d] = state[d] /\ pending'[d] = pending[d]
    BY <2>1, <2>2 DEF Inv, Typed, Waiting
  <2> QED BY <2>1, <2>2, OnceQuiet
<1>4. ASSUME NEW c \in Component, IgnoreSignal(c) PROVE OnceInv'
  <2>1. UNCHANGED <<asked, grants, allowed, requests, state, pending>>
    BY <1>4 DEF IgnoreSignal, permits
  <2> QED BY <2>1, OnceQuiet DEF Waiting
<1>5. CASE Client \/ App \/ Answer \/ (\E yes \in BOOLEAN : AnswerBare(yes)) \/ UNCHANGED vars
  <2>1. UNCHANGED <<asked, grants, allowed, requests, state, pending>>
    BY <1>5 DEF Client, App, Display, HandleLine, Answer, AnswerById, AnswerBare, runners, permits, vars
  <2> QED BY <2>1, OnceQuiet DEF Waiting
<1>6. ASSUME NEW save \in BOOLEAN, Restart(save) PROVE OnceInv'
  <2>1. asked' = <<>> /\ state' = [c \in Component |-> 0]
    BY <1>6 DEF Restart, Fresh
  <2>2. DOMAIN asked' = {} /\ Ids' = {} /\ \A c \in Component : ~Waiting(c)'
    BY <2>1 DEF Ids, Waiting
  <2> QED BY <2>2 DEF OnceInv, AskedBefore, AskedOnce
<1> QED BY <1>1, <1>2, <1>3, <1>4, <1>5, <1>6 DEF Next, Runner

\* A request that runs again after an approval does not ask for the same
\* permission again, however many gates it meets, but for the paths that are
\* still to be created.
THEOREM SpecAskedOnce == Spec => []AskedOnce
<1>1. Init => OnceInv
  <2> SUFFICES ASSUME Init PROVE OnceInv
    OBVIOUS
  <2>1. asked = <<>> /\ \A c \in Component : ~Waiting(c)
    BY DEF Init, Waiting
  <2>2. DOMAIN asked = {} /\ Ids = {}
    BY <2>1 DEF Ids
  <2> QED BY <2>1, <2>2 DEF OnceInv, AskedBefore, AskedOnce
<1>2. Inv /\ OnceInv /\ [Next]_vars => Inv' /\ OnceInv'
  BY InvNext, OnceNext
<1>3. OnceInv => AskedOnce
  BY DEF OnceInv
<1> QED BY <1>1, <1>2, <1>3, InvInit, PTL DEF Spec

-----------------------------------------------------------------------------
(***************************************************************************)
(* Where the request of a component that waits is.                         *)
(***************************************************************************)

AskOf(id) == [kind |-> "ask", id |-> id]
Has(q, e) == \E i \in DOMAIN q : q[i] = e
Names(q, id) == \E i \in DOMAIN q : q[i].id = id

\* A request that is not shown yet is on its way there, and an answer the user
\* gave to it is on its way back, unless another took its place.
Shown ==
  \A c \in Component : Waiting(c) =>
    state[c] \in shown \cup dropped \/ Has(outbox, AskOf(state[c])) \/ Has(screen, AskOf(state[c]))
Returned ==
  \A c \in Component : Waiting(c) /\ state[c] \in answered =>
    Names(typed, state[c]) \/ Names(inbox[c], state[c]) \/ Overtook(pending[c].id)

Way == Len(outbox) <= OutMax /\ answered \subseteq shown /\ Shown /\ Returned

\* A request some component waits for is on its way to the user, shown and
\* to be answered, or answered and on its way back, unless a full queue
\* swallowed it or another request of the component took its place.
NoneLost ==
  \A c \in Component : Waiting(c) =>
    \/ state[c] \in dropped
    \/ Has(outbox, AskOf(state[c])) \/ Has(screen, AskOf(state[c]))
    \/ state[c] \in shown \ answered
    \/ Names(typed, state[c]) \/ Names(inbox[c], state[c])
    \/ Overtook(pending[c].id)

\* What is in a queue stays in it, or is what is at its other end.
LEMMA EmittedKeeps ==
  ASSUME NEW E, outbox \in Seq(E), Len(outbox) <= OutMax, NEW out \in Seq(E)
  PROVE  /\ Len(Emitted(out)) <= OutMax
         /\ \A i \in DOMAIN outbox : i \in DOMAIN Emitted(out) /\ Emitted(out)[i] = outbox[i]
         /\ \A j \in DOMAIN out : Len(outbox) + j <= OutMax =>
              Len(outbox) + j \in DOMAIN Emitted(out) /\ Emitted(out)[Len(outbox) + j] = out[j]
<1> DEFINE all == outbox \o out
           n == IF Len(all) < OutMax THEN Len(all) ELSE OutMax
<1>1. /\ all \in Seq(E) /\ Len(outbox) \in Nat /\ Len(out) \in Nat /\ Len(all) = Len(outbox) + Len(out)
      /\ DOMAIN outbox = 1..Len(outbox) /\ DOMAIN out = 1..Len(out)
      /\ \A i \in 1..Len(outbox) : all[i] = outbox[i]
      /\ \A j \in 1..Len(out) : all[Len(outbox) + j] = out[j]
  OBVIOUS
<1>2. n \in Nat /\ n <= Len(all) /\ n <= OutMax /\ Len(outbox) <= n
  BY <1>1, ApprovalsAssumption
<1>3. \A j \in 1..Len(out) : Len(outbox) + j <= OutMax => Len(outbox) + j <= n
  BY <1>1, ApprovalsAssumption
<1> HIDE DEF all, n
<1>4. /\ Len(SubSeq(all, 1, n)) = n /\ DOMAIN SubSeq(all, 1, n) = 1..n
      /\ \A i \in 1..n : SubSeq(all, 1, n)[i] = all[i]
  BY <1>1, <1>2
<1>5. Emitted(out) = SubSeq(all, 1, n)
  BY DEF Emitted, all, n
<1>6. \A i \in DOMAIN outbox : i \in 1..n /\ all[i] = outbox[i]
  BY <1>1, <1>2
<1>7. \A j \in DOMAIN out : Len(outbox) + j <= OutMax =>
        Len(outbox) + j \in 1..n /\ all[Len(outbox) + j] = out[j]
  BY <1>1, <1>3
<1> QED BY <1>2, <1>4, <1>5, <1>6, <1>7

\* A component that is suspended now has its request in the queue or among
\* those the queue had no room for.
LEMMA ServeAsks ==
  ASSUME Typed, Len(outbox) <= OutMax, NEW c \in Component, NEW op \in Op, NEW req \in Nat,
         NEW out \in {<<>>, <<Text>>}, NEW gr, NEW al, Serve(c, op, req, out, gr, al)
  PROVE  /\ Len(outbox') <= OutMax /\ dropped \subseteq dropped'
         /\ \A i \in DOMAIN outbox : i \in DOMAIN outbox' /\ outbox'[i] = outbox[i]
         /\ \A d \in Component \ {c} : state'[d] = state[d]
         /\ \/ state'[c] = 0
            \/ out = <<>> /\ state'[c] = state[c]
            \/ /\ state'[c] = Len(asked) + 1
               /\ state'[c] \in dropped' \/ Has(outbox', AskOf(state'[c]))
<1> DEFINE id == Len(asked) + 1
           all == Append(out, AskOf(id))
           E == {Text, AskOf(id)} \cup Events
<1>1. /\ state \in [Component -> {0, Gone} \cup Ids] /\ outbox \in Seq(E)
  <2>1. outbox \in Seq(Events) /\ Events \subseteq E
    BY DEF Typed
  <2> QED BY <2>1, Wider DEF Typed
<1>2. /\ out \in Seq(E) /\ all \in Seq(E) /\ Len(all) \in DOMAIN all /\ all[Len(all)] = AskOf(id)
      /\ Len(out) \in Nat
  <2>1. Text \in E /\ AskOf(id) \in E
    OBVIOUS
  <2> HIDE DEF E
  <2>2. out \in Seq(E)
    BY <2>1, TextSequence
  <2> HIDE DEF id
  <2> QED BY <2>1, <2>2
<1>3. CASE Barred(c, op, gr, al) = {}
  <2>1. /\ outbox' = Emitted(out) /\ dropped' = dropped
        /\ state' = [state EXCEPT ![c] = IF out = <<>> THEN @ ELSE 0]
    BY <1>3 DEF Serve
  <2>2. /\ state'[c] = 0 \/ (out = <<>> /\ state'[c] = state[c])
        /\ \A d \in Component \ {c} : state'[d] = state[d]
    BY <1>1, <2>1
  <2> HIDE DEF E, id
  <2> QED BY <1>1, <1>2, <2>1, <2>2, EmittedKeeps
<1>4. CASE Barred(c, op, gr, al) # {}
  <2>1. /\ state' = [state EXCEPT ![c] = IF @ = 0 \/ out # <<>> THEN id ELSE @]
        /\ outbox' = Emitted(all) /\ dropped' = dropped \cup Lost(all)
    BY <1>4 DEF Serve, AskOf
  <2>2. /\ state'[c] = id \/ (out = <<>> /\ state'[c] = state[c])
        /\ \A d \in Component \ {c} : state'[d] = state[d]
    BY <1>1, <2>1
  <2> HIDE DEF E, id, all
  <2>3. CASE Len(outbox) + Len(all) <= OutMax
    <3>1. Len(outbox) + Len(all) \in DOMAIN outbox' /\ outbox'[Len(outbox) + Len(all)] = AskOf(id)
      BY <1>1, <1>2, <2>1, <2>3, EmittedKeeps
    <3>2. Has(outbox', AskOf(id))
      BY <3>1 DEF Has
    <3> QED BY <1>1, <1>2, <2>1, <2>2, <3>2, EmittedKeeps DEF id
  <2>4. CASE ~(Len(outbox) + Len(all) <= OutMax)
    <3>1. Len(outbox) \in Nat /\ Len(all) \in Nat /\ OutMax \in Nat
      BY <1>1, <1>2, ApprovalsAssumption
    <3>2. Len(outbox) + Len(all) > OutMax
      BY <2>4, <3>1
    <3>3. all[Len(all)].kind = "ask" /\ all[Len(all)].id = id
      BY <1>2 DEF AskOf
    <3>4. id \in Lost(all)
      BY <1>2, <3>2, <3>3 DEF Lost
    <3> QED BY <1>1, <1>2, <2>1, <2>2, <3>4, EmittedKeeps DEF id
  <2> QED BY <2>3, <2>4
<1> QED BY <1>3, <1>4

LEMMA WayInit == Init => Way
<1> SUFFICES ASSUME Init PROVE Way
  OBVIOUS
<1>1. /\ outbox = <<>> /\ answered = {} /\ shown = {} /\ state = [c \in Component |-> 0]
  BY DEF Init
<1>2. \A c \in Component : ~Waiting(c)
  BY <1>1 DEF Waiting
<1>3. Len(outbox) <= OutMax
  BY <1>1, ApprovalsAssumption
<1> QED BY <1>1, <1>2, <1>3 DEF Way, Shown, Returned

\* Serving an event or an approval of c: the others keep what they had.
LEMMA WayServe ==
  ASSUME Inv, Way, NEW c \in Component, NEW op \in Op, NEW req \in Nat,
         NEW out \in {<<>>, <<Text>>}, NEW gr, NEW al,
         Serve(c, op, req, out, gr, al),
         \A d \in Component : d # c \/ out = <<>> => inbox'[d] = inbox[d],
         UNCHANGED <<screen, typed, shown, answered, runs>>
  PROVE  Way'
<1>1. /\ Len(outbox') <= OutMax /\ dropped \subseteq dropped'
      /\ \A i \in DOMAIN outbox : i \in DOMAIN outbox' /\ outbox'[i] = outbox[i]
      /\ \A d \in Component \ {c} : state'[d] = state[d]
      /\ \/ state'[c] = 0
         \/ out = <<>> /\ state'[c] = state[c]
         \/ /\ state'[c] = Len(asked) + 1
            /\ state'[c] \in dropped' \/ Has(outbox', AskOf(state'[c]))
  BY ServeAsks DEF Inv, Way
<1>4. ASSUME NEW d \in Component, Waiting(d), d # c \/ out = <<>>, Overtook(pending[d].id)
      PROVE  Overtook(pending[d].id)'
  <2>1. \/ Carried(c, op, out, gr, al)
        \/ \E gate : Suspended(c, op, req, out, gate, gr, al)
    BY Served DEF Inv
  <2>2. CASE Carried(c, op, out, gr, al)
    <3>1. pending'[d] = pending[d] /\ overtaken' = overtaken
      BY <1>4, <2>2 DEF Carried
    <3> QED BY <1>4, <3>1 DEF Overtook
  <2>3. ASSUME NEW gate, Suspended(c, op, req, out, gate, gr, al)
        PROVE  Overtook(pending[d].id)'
    <3>1. CASE d # c
      <4>1. pending'[d] = pending[d] /\ overtaken \subseteq overtaken'
        BY <2>3, <3>1 DEF Suspended, Inv, Typed
      <4> QED BY <1>4, <4>1 DEF Overtook
    <3>2. CASE d = c
      <4>1. /\ pending'[c].id = Len(asked) + 1 /\ state[c] # 0
            /\ [run |-> runs, id |-> Len(asked) + 1, store |-> StoreOf(c), gate |-> gate] \in overtaken'
        BY <1>4, <2>3, <3>2 DEF Suspended, Inv, Typed, Waiting
      <4> QED BY <3>2, <4>1 DEF Overtook
    <3> QED BY <3>1, <3>2
  <2> QED BY <2>1, <2>2, <2>3
<1>5. ASSUME NEW d \in Component, Waiting(d), d # c \/ out = <<>>, state'[d] = state[d],
             state[d] \in answered
      PROVE  Names(typed', state[d]) \/ Names(inbox'[d], state[d]) \/ Overtook(pending[d].id)'
  <2>1. inbox'[d] = inbox[d] /\ typed' = typed
    BY <1>5
  <2>2. Names(typed, state[d]) \/ Names(inbox[d], state[d]) \/ Overtook(pending[d].id)
    BY <1>5 DEF Way, Returned
  <2> HIDE DEF Names
  <2> QED BY <1>4, <1>5, <2>1, <2>2
<1>2. ASSUME NEW d \in Component, Waiting(d)'
      PROVE  /\ state'[d] \in shown' \cup dropped' \/ Has(outbox', AskOf(state'[d]))
                \/ Has(screen', AskOf(state'[d]))
             /\ state'[d] \in answered' =>
                  Names(typed', state'[d]) \/ Names(inbox'[d], state'[d]) \/ Overtook(pending[d].id)'
  <2>1. CASE state'[d] = Len(asked) + 1 /\ d = c /\ (state'[d] \in dropped' \/ Has(outbox', AskOf(state'[d])))
    <3>1. /\ state'[d] = Len(asked) + 1
          /\ state'[d] \in dropped' \/ Has(outbox', AskOf(state'[d]))
      BY <2>1
    <3>2. Len(asked) + 1 \notin answered'
      <4>1. answered' \subseteq 1..Len(asked) /\ Len(asked) \in Nat
        BY Identifiers DEF Inv, Typed, Way, Ids
      <4> QED BY <4>1
    <3> QED BY <3>1, <3>2
  <2>2. CASE (d # c \/ out = <<>>) /\ state'[d] = state[d]
    <3>1. state'[d] = state[d] /\ Waiting(d)
      BY <1>2, <2>2 DEF Waiting
    <3>2. \A e : Has(outbox, e) => Has(outbox', e)
      BY <1>1 DEF Has
    <3>3. state[d] \in shown \cup dropped \/ Has(outbox, AskOf(state[d])) \/ Has(screen, AskOf(state[d]))
      BY <3>1 DEF Way, Shown
    <3> HIDE DEF Has, Names, AskOf
    <3>4. /\ state'[d] \in shown' \cup dropped' \/ Has(outbox', AskOf(state[d]))
             \/ Has(screen', AskOf(state[d]))
      BY <1>1, <3>1, <3>2, <3>3
    <3>5. state'[d] \in answered' =>
            Names(typed', state'[d]) \/ Names(inbox'[d], state'[d]) \/ Overtook(pending[d].id)'
      BY <1>5, <2>2, <3>1
    <3> QED BY <3>1, <3>4, <3>5
  <2>3. CASE state'[d] = 0
    BY <1>2, <2>3 DEF Waiting
  <2> QED BY <1>1, <2>1, <2>2, <2>3
<1>3. answered' \subseteq shown'
  BY DEF Way
<1> HIDE DEF Has, Names, AskOf, Overtook
<1> QED BY <1>1, <1>2, <1>3 DEF Way, Shown, Returned, Waiting

\* A signal that is not for c, or that ends c, and steps that show and type:
\* nobody waits for more than before.
LEMMA WayMoves ==
  ASSUME Way, Len(outbox') <= OutMax, answered' \subseteq shown', shown \subseteq shown',
         UNCHANGED <<dropped, overtaken, runs>>,
         \A c \in Component : Waiting(c)' =>
           /\ Waiting(c) /\ state'[c] = state[c] /\ pending'[c] = pending[c]
           /\ Has(outbox, AskOf(state[c])) \/ Has(screen, AskOf(state[c])) =>
                state[c] \in shown' \/ Has(outbox', AskOf(state[c])) \/ Has(screen', AskOf(state[c]))
           /\ state[c] \in answered' =>
                \/ Names(typed', state[c]) \/ Names(inbox'[c], state[c])
                \/ state[c] \in answered /\ ~Names(typed, state[c]) /\ ~Names(inbox[c], state[c])
                \/ Overtook(pending[c].id)
  PROVE  Way'
<1>1. Shown'
  <2>1. ASSUME NEW c \in Component, Waiting(c)'
        PROVE  \/ state[c] \in shown' \cup dropped' \/ Has(outbox', AskOf(state[c]))
               \/ Has(screen', AskOf(state[c]))
    BY <2>1 DEF Way, Shown
  <2> QED BY <2>1 DEF Shown, Has, AskOf, Waiting
<1>2. Returned'
  <2>1. ASSUME NEW c \in Component, Waiting(c)', state[c] \in answered'
        PROVE  Names(typed', state[c]) \/ Names(inbox'[c], state[c]) \/ Overtook(pending[c].id)
    BY <2>1 DEF Way, Returned
  <2>2. \A c \in Component : Waiting(c)' => (Overtook(pending[c].id) => Overtook(pending[c].id)')
    BY DEF Overtook
  <2> QED BY <2>1, <2>2 DEF Returned, Names, Waiting
<1> QED BY <1>1, <1>2 DEF Way

LEMMA WayIgnored ==
  ASSUME Inv, Way, NEW c \in Component, IgnoreSignal(c) PROVE Way'
<1>1. /\ inbox[c] # <<>> /\ inbox' = [inbox EXCEPT ![c] = Tail(@)] /\ ~IsFor(c, Head(inbox[c]))
      /\ UNCHANGED <<state, pending, outbox, screen, typed, shown, answered, dropped, overtaken, runs>>
  BY DEF IgnoreSignal, NextSignal, terminal
<1>2. inbox \in [Component -> Seq(Signals)]
  BY DEF Inv, Typed
<1>3. ASSUME Waiting(c), Names(inbox[c], state[c]), ~Overtook(pending[c].id)
      PROVE  Names(inbox'[c], state[c])
  <2>1. Head(inbox[c]).id # state[c]
    <3>1. pending[c].id = state[c]
      BY <1>3 DEF Inv, Waits, Overtaken, Overtook
    <3> QED BY <1>1, <3>1 DEF IsFor
  <2>2. PICK i \in DOMAIN inbox[c] : inbox[c][i].id = state[c]
    BY <1>3 DEF Names
  <2>3. inbox[c] \in Seq(Signals) /\ inbox'[c] = Tail(inbox[c])
    BY <1>1, <1>2
  <2>4. \A s \in Seq(Signals) : s # <<>> =>
          /\ Head(s) = s[1]
          /\ \A j \in DOMAIN s : j # 1 => j - 1 \in DOMAIN Tail(s) /\ Tail(s)[j - 1] = s[j]
    OBVIOUS
  <2>5. i # 1
    BY <1>1, <2>1, <2>2, <2>3, <2>4
  <2>6. i - 1 \in DOMAIN inbox'[c] /\ inbox'[c][i - 1] = inbox[c][i]
    BY <1>1, <2>2, <2>3, <2>4, <2>5
  <2> QED BY <2>2, <2>6 DEF Names
<1>4. \A d \in Component \ {c} : inbox'[d] = inbox[d]
  BY <1>1, <1>2
<1>5. ASSUME NEW d \in Component, Waiting(d)'
      PROVE  /\ Waiting(d) /\ state'[d] = state[d] /\ pending'[d] = pending[d]
             /\ Names(inbox[d], state[d]) => Names(inbox'[d], state[d]) \/ Overtook(pending[d].id)
  <2>1. Waiting(d)
    BY <1>1, <1>5 DEF Waiting
  <2> QED BY <1>1, <1>3, <1>4, <2>1
<1>6. Len(outbox') <= OutMax /\ answered' \subseteq shown'
  BY <1>1 DEF Way
<1> HIDE DEF Names, Has, Waiting, AskOf, Overtook
<1> QED BY <1>1, <1>5, <1>6, WayMoves

LEMMA WayRejected ==
  ASSUME Inv, Way, NEW c \in Component, Rejected(c) PROVE Way'
<1>1. /\ inbox' = [inbox EXCEPT ![c] = Tail(@)] /\ state' = [state EXCEPT ![c] = Gone]
      /\ outbox' = Emitted(<<Text>>) /\ pending' = [pending EXCEPT ![c] = NoPending]
      /\ UNCHANGED <<screen, typed, shown, answered, dropped, overtaken, runs>>
  BY DEF Rejected, NextSignal, terminal
<1>2. /\ state \in [Component -> {0, Gone} \cup Ids] /\ inbox \in [Component -> Seq(Signals)]
      /\ outbox \in Seq(Events)
  BY DEF Inv, Typed
<1>3. /\ Len(outbox') <= OutMax
      /\ \A i \in DOMAIN outbox : i \in DOMAIN outbox' /\ outbox'[i] = outbox[i]
  <2>1. Text \in Events
    BY DEF Events
  <2>2. <<Text>> \in Seq(Events)
    BY <2>1, TextSequence
  <2> QED BY <1>1, <1>2, <2>2, EmittedKeeps DEF Way
<1>4. \A e : Has(outbox, e) => Has(outbox', e)
  BY <1>3 DEF Has
<1>5. ASSUME NEW d \in Component, Waiting(d)'
      PROVE  Waiting(d) /\ state'[d] = state[d] /\ inbox'[d] = inbox[d] /\ pending'[d] = pending[d]
  BY <1>1, <1>2, <1>5 DEF Waiting, Inv, Typed
<1>6. answered' \subseteq shown'
  BY <1>1 DEF Way
<1> HIDE DEF Names, Has, Waiting, AskOf, Overtook
<1> QED BY <1>1, <1>3, <1>4, <1>5, <1>6, WayMoves

LEMMA WayRestarted ==
  ASSUME NEW save \in BOOLEAN, Restart(save) PROVE Way'
<1>1. /\ outbox' = <<>> /\ answered' = {} /\ shown' = {} /\ state' = [c \in Component |-> 0]
  BY DEF Restart, Fresh
<1>2. \A c \in Component : ~Waiting(c)'
  BY <1>1 DEF Waiting
<1>3. Len(outbox') <= OutMax
  BY <1>1, ApprovalsAssumption
<1> QED BY <1>1, <1>2, <1>3 DEF Way, Shown, Returned, Waiting

\* From the queue to the screen, and from there to the user.
LEMMA WayOut == ASSUME Inv, Way, Client \/ Display PROVE Way'
<1>1. /\ outbox \in Seq(Events) /\ screen \in Seq(Events)
      /\ UNCHANGED <<state, pending, inbox, typed, answered, dropped, overtaken, runs>>
  BY DEF Inv, Typed, Client, Display, runners, terminal
<1>2. \A s \in Seq(Events) : s # <<>> =>
        /\ Len(s) \in Nat /\ Head(s) = s[1] /\ Len(Tail(s)) = Len(s) - 1 /\ DOMAIN s = 1..Len(s)
        /\ \A i \in DOMAIN s : i # 1 => i - 1 \in DOMAIN Tail(s) /\ Tail(s)[i - 1] = s[i]
  OBVIOUS
<1>3. ASSUME NEW s \in Seq(Events), s # <<>>, NEW e, Has(s, e)
      PROVE  Head(s) = e \/ Has(Tail(s), e)
  <2>1. PICK i \in DOMAIN s : s[i] = e
    BY <1>3 DEF Has
  <2> QED BY <1>2, <1>3, <2>1 DEF Has
<1>4. CASE Client
  <2>1. /\ outbox # <<>> /\ screen' = Append(screen, Head(outbox)) /\ outbox' = Tail(outbox)
        /\ UNCHANGED shown
    BY <1>4 DEF Client, terminal
  <2>2. /\ \A i \in DOMAIN screen : i \in DOMAIN screen' /\ screen'[i] = screen[i]
        /\ Len(screen) + 1 \in DOMAIN screen' /\ screen'[Len(screen) + 1] = Head(outbox)
    <3>1. Head(outbox) \in Events
      BY <1>1, <2>1
    <3> QED BY <1>1, <2>1, <3>1
  <2>3. \A e : Has(screen, e) => Has(screen', e)
    BY <2>2 DEF Has
  <2>4. Has(screen', Head(outbox))
    BY <2>2 DEF Has
  <2>5. \A e : Has(outbox, e) => Has(outbox', e) \/ Has(screen', e)
    BY <1>1, <1>3, <2>1, <2>4
  <2>6. Len(outbox') <= OutMax /\ answered' \subseteq shown'
    <3>1. Len(outbox') = Len(outbox) - 1 /\ Len(outbox) \in Nat /\ Len(outbox) <= OutMax /\ OutMax \in Nat
      BY <1>1, <1>2, <2>1, ApprovalsAssumption DEF Way
    <3> QED BY <1>1, <2>1, <3>1 DEF Way
  <2>7. \A c \in Component : Waiting(c)' => Waiting(c)
    BY <1>1 DEF Waiting
  <2> HIDE DEF Names, Has, Waiting, AskOf, Overtook
  <2> QED BY <1>1, <2>1, <2>3, <2>5, <2>6, <2>7, WayMoves
<1>5. CASE Display
  <2>1. /\ screen # <<>> /\ screen' = Tail(screen) /\ UNCHANGED outbox
        /\ IF Head(screen).kind = "ask" THEN shown' = shown \cup {Head(screen).id} ELSE UNCHANGED shown
    BY <1>5 DEF Display
  <2>2. ASSUME NEW id, Has(screen, AskOf(id)) PROVE id \in shown' \/ Has(screen', AskOf(id))
    <3>1. CASE Head(screen) = AskOf(id)
      BY <2>1, <3>1 DEF AskOf
    <3> QED BY <1>1, <1>3, <2>1, <2>2, <3>1
  <2>3. shown \subseteq shown' /\ Len(outbox') <= OutMax /\ answered' \subseteq shown'
    BY <1>1, <2>1 DEF Way
  <2>4. \A c \in Component : Waiting(c)' => Waiting(c)
    BY <1>1 DEF Waiting
  <2> HIDE DEF Names, Has, Waiting, AskOf, Overtook
  <2> QED BY <1>1, <2>1, <2>2, <2>3, <2>4, WayMoves
<1> QED BY <1>4, <1>5

\* From the user to the application, and from there to every runner.
LEMMA WayBack ==
  ASSUME Inv, Way, Answer \/ (\E yes \in BOOLEAN : AnswerBare(yes)) \/ HandleLine PROVE Way'
<1> DEFINE Line == [id : shown \cup {0}, yes : BOOLEAN]
<1>1. /\ typed \in Seq(Line) /\ inbox \in [Component -> Seq(Signals)] /\ 0 \notin shown
      /\ UNCHANGED <<state, pending, outbox, screen, shown, dropped, overtaken, runs>>
  BY Identifiers DEF Inv, Typed, Answer, AnswerById, AnswerBare, HandleLine, runners
<1>2. \A c \in Component : Waiting(c)' => Waiting(c) /\ state'[c] = state[c] /\ pending'[c] = pending[c]
  BY <1>1 DEF Waiting
<1>3. Len(outbox') <= OutMax
  BY <1>1 DEF Way
<1>4. CASE Answer \/ \E yes \in BOOLEAN : AnswerBare(yes)
  <2>1. PICK id \in shown \cup {0}, yes \in BOOLEAN :
          /\ typed' = Append(typed, [id |-> id, yes |-> yes]) /\ inbox' = inbox
          /\ \/ id \in shown /\ answered' = answered \cup {id}
             \/ answered' = answered
    BY <1>4 DEF Answer, AnswerById, AnswerBare, runners
  <2>2. /\ \A i \in DOMAIN typed : i \in DOMAIN typed' /\ typed'[i] = typed[i]
        /\ Len(typed) + 1 \in DOMAIN typed' /\ typed'[Len(typed) + 1] = [id |-> id, yes |-> yes]
    <3>1. [id |-> id, yes |-> yes] \in Line
      OBVIOUS
    <3> HIDE DEF Line
    <3> QED BY <1>1, <2>1, <3>1
  <2>3. Names(typed', id) /\ \A k : Names(typed, k) => Names(typed', k)
    BY <2>2 DEF Names
  <2>4. answered' \subseteq shown'
    BY <1>1, <2>1 DEF Way
  <2> HIDE DEF Names, Has, Waiting, AskOf, Overtook
  <2> QED BY <1>1, <1>2, <1>3, <2>1, <2>3, <2>4, WayMoves
<1>5. CASE HandleLine
  <2> DEFINE l == Head(typed)
             s == [id |-> Target(l), yes |-> l.yes]
  <2>1. /\ typed # <<>> /\ typed' = Tail(typed) /\ answered' = answered
        /\ Target(l) = 0 => inbox' = inbox
        /\ Target(l) # 0 => inbox' = [c \in Component |-> Append(inbox[c], s)]
    BY <1>5 DEF HandleLine
  <2>2. l \in Line
    <3> HIDE DEF Line
    <3> QED BY <1>1, <2>1
  <2>3. l.id # 0 => Target(l) = l.id /\ s \in Signals /\ s.id = l.id
    BY <2>2 DEF Target, Signals
  <2>4. Target(l) # 0 => s \in Signals
    BY <1>1, <2>2 DEF Target, Signals, Inv, Typed
  <2>5. ASSUME NEW k \in shown, Names(typed, k)
        PROVE  Names(typed', k) \/ \A c \in Component : Names(inbox'[c], k)
    <3>1. PICK i \in DOMAIN typed : typed[i].id = k
      BY <2>5 DEF Names
    <3>2. CASE i = 1
      <4>1. l.id = k
        <5> HIDE DEF Line
        <5> QED BY <1>1, <2>1, <3>1, <3>2
      <4>2. k # 0
        BY <1>1
      <4>3. inbox' = [c \in Component |-> Append(inbox[c], s)] /\ s.id = k
        BY <2>1, <2>3, <4>1, <4>2
      <4> HIDE DEF s
      <4>4. ASSUME NEW c \in Component PROVE Names(inbox'[c], k)
        <5>1. inbox[c] \in Seq(Signals) /\ inbox'[c] = Append(inbox[c], s)
          BY <1>1, <4>3
        <5>2. Len(inbox[c]) + 1 \in DOMAIN inbox'[c] /\ inbox'[c][Len(inbox[c]) + 1] = s
          BY <5>1
        <5> QED BY <4>3, <5>2 DEF Names
      <4> QED BY <4>4
    <3>3. CASE i # 1
      <4>1. i - 1 \in DOMAIN typed' /\ typed'[i - 1] = typed[i]
        <5> HIDE DEF Line
        <5> QED BY <1>1, <2>1, <3>1, <3>3
      <4> QED BY <3>1, <4>1 DEF Names
    <3> QED BY <3>2, <3>3
  <2>6. ASSUME NEW c \in Component, NEW k, Names(inbox[c], k) PROVE Names(inbox'[c], k)
    <3>1. CASE Target(l) = 0
      BY <2>1, <2>6, <3>1
    <3>2. CASE Target(l) # 0
      <4>1. inbox[c] \in Seq(Signals) /\ inbox'[c] = Append(inbox[c], s)
        BY <1>1, <2>1, <3>2
      <4> HIDE DEF s
      <4>2. \A i \in DOMAIN inbox[c] : i \in DOMAIN inbox'[c] /\ inbox'[c][i] = inbox[c][i]
        BY <4>1
      <4> QED BY <2>6, <4>2 DEF Names
    <3> QED BY <3>1, <3>2
  <2>7. answered' \subseteq shown'
    BY <1>1, <2>1 DEF Way
  <2>8. \A c \in Component : state[c] \in answered => state[c] \in shown
    BY DEF Way
  <2> HIDE DEF Names, Has, Waiting, AskOf, Overtook, s, l
  <2> QED BY <1>1, <1>2, <1>3, <2>1, <2>5, <2>6, <2>7, <2>8, WayMoves
<1> QED BY <1>4, <1>5

LEMMA WayNext == Inv /\ Way /\ [Next]_vars => Way'
<1> SUFFICES ASSUME Inv, Way, [Next]_vars PROVE Way'
  OBVIOUS
<1>1. CASE UNCHANGED vars
  <2>1. UNCHANGED <<state, pending, inbox, outbox, screen, typed, shown, answered, dropped, overtaken, runs>>
    BY <1>1 DEF vars, runners, terminal
  <2> QED BY <2>1 DEF Way, Shown, Returned, Waiting, Has, Names, AskOf, Overtook
<1>2. ASSUME NEW c \in Component, Approved(c) PROVE Way'
  <2> DEFINE p == pending[c]
             gr == [grants EXCEPT ![StoreOf(c)] = @ \cup {p.gate}]
  <2>1. /\ inbox' = [inbox EXCEPT ![c] = Tail(@)]
        /\ Serve(c, p.op, p.req, <<Text>>, gr, Opened(p.gate))
        /\ UNCHANGED <<screen, typed, shown, answered, runs>>
    BY <1>2 DEF Approved, NextSignal, terminal
  <2>2. p.op \in Op /\ p.req \in Nat
    BY <1>2, ApprovedFinds
  <2> HIDE DEF p, gr
  <2>3. <<Text>> # <<>>
    <3>1. Len(<<Text>>) # Len(<<>>)
      OBVIOUS
    <3> QED BY <3>1
  <2>4. \A d \in Component : d # c \/ <<Text>> = <<>> => inbox'[d] = inbox[d]
    BY <2>1, <2>3 DEF Inv, Typed
  <2>5. <<Text>> \in {<<>>, <<Text>>}
    OBVIOUS
  <2> QED BY <2>1, <2>2, <2>4, <2>5, WayServe
<1>3. ASSUME NEW c \in Component, NEW op \in Does[c], Dispatch(c, op) PROVE Way'
  <2>1. /\ Serve(c, op, requests + 1, <<>>, grants, allowed)
        /\ UNCHANGED <<inbox, screen, typed, shown, answered, runs>>
    BY <1>3 DEF Dispatch, terminal
  <2>2. op \in Op /\ requests + 1 \in Nat
    BY ApprovalsAssumption DEF Inv, Typed
  <2>3. /\ <<>> \in {<<>>, <<Text>>}
        /\ \A d \in Component : d # c \/ <<>> = <<>> => inbox'[d] = inbox[d]
    BY <2>1
  <2> QED BY <2>1, <2>2, <2>3, WayServe
<1>4. CASE \E c \in Component : IgnoreSignal(c) \/ Rejected(c)
  BY <1>4, WayIgnored, WayRejected
<1>5. CASE Client \/ Display
  BY <1>5, WayOut
<1>6. CASE Answer \/ (\E yes \in BOOLEAN : AnswerBare(yes)) \/ HandleLine
  BY <1>6, WayBack
<1>7. CASE \E save \in BOOLEAN : Restart(save)
  BY <1>7, WayRestarted
<1> QED BY <1>1, <1>2, <1>3, <1>4, <1>5, <1>6, <1>7 DEF Next, Runner, App

\* The half of NoneForgotten that needs no fairness: for any components, gates
\* and queues, nothing between the runner and the user (the client runner's
\* queue, the port, the display that remembers one request, the lines typed, the
\* signals that meet the wrong state) loses the request of a component that
\* waits, except the queue that is full when it is sent and a further request of
\* the component that takes its place.
THEOREM SpecNoneLost == Spec => []NoneLost
<1>1. Inv /\ [Next]_vars => Inv'
  BY InvNext
<1>2. Inv /\ Way /\ [Next]_vars => Way'
  BY WayNext
<1>3. Way => NoneLost
  BY DEF Way, Shown, Returned, NoneLost
<1> QED BY <1>1, <1>2, <1>3, InvInit, WayInit, PTL DEF Spec
=============================================================================
