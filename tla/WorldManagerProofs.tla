------------------------- MODULE WorldManagerProofs -------------------------
(***************************************************************************)
(* The World, and the manager in front of it.                              *)
(*                                                                         *)
(* The first part proves the invariants of the tree for every set of       *)
(* channels, approvals and principals.  TreeInv is inductive: the links    *)
(* between parents and children, the shape of the cached ancestor paths,   *)
(* and the cap on privilege.                                               *)
(*                                                                         *)
(* The second part proves that the manager behind its queue is a World,    *)
(* for any clients, channels and capacity.  A spawn reaches the tree long  *)
(* after its identifier was drawn and must find it unused: Fresh follows   *)
(* an identifier from the client that draws it through the queue.  Ordered *)
(* follows a kill and the spawns behind it to their answers, and Held a    *)
(* client that waits to the one entry that owes it a reply.                *)
(***************************************************************************)
EXTENDS WorldManager, SequenceTheorems, WellFoundedInduction, TLAPS

-----------------------------------------------------------------------------
(* The least-number principle in first-order form.                         *)

\* A well-founded relation on Nat that contains the strict order.
LEMMA LessThanRelation ==
  \E R : /\ IsWellFoundedOn(R, Nat)
         /\ \A x, y \in Nat : x < y => <<x, y>> \in R
  <1> DEFINE R == OpToRel(<, Nat)
  <1>1. IsWellFoundedOn(R, Nat)
    BY NatLessThanWellFounded
  <1>2. \A x, y \in Nat : x < y => <<x, y>> \in R
    BY DEF R, OpToRel
  <1> HIDE DEF R
  <1> QED BY <1>1, <1>2

\* Every nonempty set of naturals has a least element.
LEMMA LeastNat ==
  ASSUME NEW T, T \subseteq Nat, T # {}
  PROVE  \E m \in T : \A k \in T : m <= k
  <1>1. PICK R : /\ IsWellFoundedOn(R, Nat)
                 /\ \A x, y \in Nat : x < y => <<x, y>> \in R
    BY LessThanRelation
  <1>2. IsWellFoundedOn(R, Nat)
    BY <1>1
  <1>3. \E m \in T : \A k \in T : ~ (<<k, m>> \in R)
    BY ONLY <1>2, T \subseteq Nat, T # {}, WFMin, ZenonT(30)
  <1>4. PICK m \in T : \A k \in T : ~ (<<k, m>> \in R)
    BY <1>3
  <1>5. ASSUME NEW k \in T PROVE m <= k
    <2>1. ~ (k < m)
      BY <1>1, <1>4
    <2> QED BY <2>1
  <1> QED BY <1>5

-----------------------------------------------------------------------------
(***************************************************************************)
(* The inductive invariant, stated of a tree value so that each command    *)
(* can be shown to preserve it as a function.                              *)
(***************************************************************************)

TypedTree(chs) ==
  /\ DOMAIN chs \subseteq ChannelId
  /\ chs \in [DOMAIN chs -> Channel]

Linked(chs) ==
  \A c \in DOMAIN chs :
    /\ chs[c].parent # NoChannel =>
         /\ chs[c].parent \in DOMAIN chs
         /\ c \in chs[chs[c].parent].children
    /\ \A d \in chs[c].children : d \in DOMAIN chs /\ chs[d].parent = c

Pathed(chs) ==
  \A c \in DOMAIN chs :
    /\ chs[c].parent = NoChannel => chs[c].ancestor_path = <<>>
    /\ chs[c].parent # NoChannel =>
         chs[c].ancestor_path = <<chs[c].parent>> \o chs[chs[c].parent].ancestor_path

\* Every ancestor is live and nearer to the root.
Ranked(chs) ==
  \A c \in DOMAIN chs : \A a \in Ancestors(chs, c) :
    /\ a \in DOMAIN chs
    /\ Len(chs[a].ancestor_path) < Len(chs[c].ancestor_path)

Capped(chs) ==
  \A c \in DOMAIN chs : \A a \in Ancestors(chs, c) :
    /\ chs[c].config.max_privilege <= chs[a].config.max_privilege
    /\ chs[c].principal = chs[a].principal

Good(chs) == TypedTree(chs) /\ Linked(chs) /\ Pathed(chs) /\ Ranked(chs) /\ Capped(chs)

TreeInv == /\ allocated \subseteq ChannelId
       /\ DOMAIN channels \subseteq allocated
       /\ Good(channels)

-----------------------------------------------------------------------------
(***************************************************************************)
(* Ancestor paths.                                                         *)
(***************************************************************************)

\* The path of a child: its parent, then the parent's path.
LEMMA ConsPath ==
  ASSUME NEW p \in ChannelId, NEW s \in Seq(ChannelId), NEW t, t = <<p>> \o s
  PROVE  /\ t \in Seq(ChannelId)
         /\ Len(t) = Len(s) + 1
         /\ Range(t) = {p} \cup Range(s)
  <1>1. /\ <<p>> \in Seq(ChannelId)
        /\ Len(<<p>>) = 1
        /\ <<p>>[1] = p
    OBVIOUS
  <1>2. /\ t \in Seq(ChannelId)
        /\ Len(t) = 1 + Len(s)
        /\ \A i \in 1 .. (1 + Len(s)) : t[i] = IF i <= 1 THEN <<p>>[i] ELSE s[i - 1]
    BY <1>1, ConcatProperties
  <1>3. /\ Len(s) \in Nat
        /\ DOMAIN s = 1 .. Len(s)
        /\ DOMAIN t = 1 .. (1 + Len(s))
    BY <1>2, LenProperties
  <1>4. t[1] = p
    BY <1>1, <1>2, <1>3
  <1>5. \A i \in 1 .. Len(s) : t[i + 1] = s[i]
    BY <1>2, <1>3
  <1>6. Range(t) \subseteq {p} \cup Range(s)
    <2> SUFFICES ASSUME NEW i \in DOMAIN t
                 PROVE  t[i] \in {p} \cup Range(s)
      BY DEF Range
    <2>1. CASE i = 1
      BY <2>1, <1>4
    <2>2. CASE i # 1
      <3>1. i - 1 \in 1 .. Len(s) /\ (i - 1) + 1 = i
        BY <2>2, <1>3
      <3>2. t[i] = s[i - 1]
        BY <3>1, <1>5
      <3> QED BY <3>1, <3>2, <1>3 DEF Range
    <2> QED BY <2>1, <2>2
  <1>7. {p} \cup Range(s) \subseteq Range(t)
    <2>1. p \in Range(t)
      BY <1>3, <1>4 DEF Range
    <2>2. ASSUME NEW i \in DOMAIN s PROVE s[i] \in Range(t)
      <3>1. i + 1 \in DOMAIN t /\ t[i + 1] = s[i]
        BY <1>3, <1>5
      <3> QED BY <3>1 DEF Range
    <2> QED BY <2>1, <2>2 DEF Range
  <1> QED BY <1>2, <1>3, <1>6, <1>7

\* What a live channel's path holds, by its parent.
LEMMA AncestorsOfChild ==
  ASSUME NEW chs, TypedTree(chs), Linked(chs), Pathed(chs), NEW c \in DOMAIN chs
  PROVE  /\ chs[c].ancestor_path \in Seq(ChannelId)
         /\ Len(chs[c].ancestor_path) \in Nat
         /\ chs[c].parent = NoChannel => Ancestors(chs, c) = {}
         /\ chs[c].parent # NoChannel =>
              /\ chs[c].parent \in DOMAIN chs
              /\ chs[c].parent \in ChannelId
              /\ Ancestors(chs, c) = {chs[c].parent} \cup Ancestors(chs, chs[c].parent)
              /\ Len(chs[c].ancestor_path) = Len(chs[chs[c].parent].ancestor_path) + 1
  <1>1. /\ chs[c] \in Channel
        /\ chs[c].ancestor_path \in Seq(ChannelId)
        /\ Len(chs[c].ancestor_path) \in Nat
    <2>1. chs[c] \in Channel
      BY DEF TypedTree
    <2>2. chs[c].ancestor_path \in Seq(ChannelId)
      BY <2>1 DEF Channel
    <2> QED BY <2>1, <2>2, LenProperties
  <1>2. CASE chs[c].parent = NoChannel
    <2>1. chs[c].ancestor_path = <<>>
      BY <1>2 DEF Pathed
    <2>2. Ancestors(chs, c) = {}
      BY <2>1 DEF Ancestors, Range
    <2> QED BY <1>1, <1>2, <2>2
  <1>3. CASE chs[c].parent # NoChannel
    <2> DEFINE p == chs[c].parent
    <2>1. p \in DOMAIN chs /\ p \in ChannelId
      BY <1>3 DEF Linked, TypedTree
    <2>2. chs[p].ancestor_path \in Seq(ChannelId)
      BY <2>1 DEF TypedTree, Channel
    <2>3. chs[c].ancestor_path = <<p>> \o chs[p].ancestor_path
      BY <1>3 DEF Pathed
    <2> HIDE DEF p
    <2>4. /\ Len(chs[c].ancestor_path) = Len(chs[p].ancestor_path) + 1
          /\ Range(chs[c].ancestor_path) = {p} \cup Range(chs[p].ancestor_path)
      BY <2>1, <2>2, <2>3, ConsPath
    <2> QED BY <1>1, <1>3, <2>1, <2>4 DEF p, Ancestors
  <1> QED BY <1>2, <1>3

-----------------------------------------------------------------------------
(***************************************************************************)
(* Subtrees: what is closed under children holds, with a channel, all its  *)
(* descendants, and kill visits exactly the channel and its descendants.   *)
(***************************************************************************)

ClosedUnderChildren(chs, S) ==
  \A p \in S \cap DOMAIN chs : chs[p].children \subseteq S

LEMMA DescendantsFollow ==
  ASSUME NEW chs, TypedTree(chs), Linked(chs), Pathed(chs),
         NEW S, ClosedUnderChildren(chs, S),
         NEW c \in DOMAIN chs, NEW a \in Ancestors(chs, c), a \in S
  PROVE  c \in S
  <1> DEFINE Stray == {d \in DOMAIN chs : d \notin S /\ Ancestors(chs, d) \cap S # {}}
             Depths == {Len(chs[d].ancestor_path) : d \in Stray}
  <1> SUFFICES ASSUME c \notin S PROVE FALSE
    OBVIOUS
  <1>1. Depths \subseteq Nat /\ Depths # {}
    <2>1. c \in Stray
      OBVIOUS
    <2>2. \A d \in Stray : Len(chs[d].ancestor_path) \in Nat
      BY AncestorsOfChild
    <2> QED BY <2>1, <2>2
  <1>2. PICK m \in Depths : \A k \in Depths : m <= k
    <2> HIDE DEF Depths
    <2> QED BY <1>1, LeastNat
  <1>3. PICK d \in Stray : Len(chs[d].ancestor_path) = m
    OBVIOUS
  <1>4. d \in DOMAIN chs /\ d \notin S /\ Ancestors(chs, d) \cap S # {}
    OBVIOUS
  <1> DEFINE p == chs[d].parent
  <1>5. /\ p # NoChannel
        /\ p \in DOMAIN chs
        /\ Ancestors(chs, d) = {p} \cup Ancestors(chs, p)
        /\ Len(chs[d].ancestor_path) = Len(chs[p].ancestor_path) + 1
        /\ Len(chs[p].ancestor_path) \in Nat
    <2>1. p # NoChannel
      BY <1>4, AncestorsOfChild
    <2> QED BY <1>4, <2>1, AncestorsOfChild
  <1>6. p \notin S
    <2>1. d \in chs[p].children
      BY <1>4, <1>5 DEF Linked
    <2> QED BY <1>4, <1>5, <2>1 DEF ClosedUnderChildren
  <1>7. p \in Stray
    BY <1>4, <1>5, <1>6
  <1>8. m <= Len(chs[p].ancestor_path)
    BY <1>2, <1>7
  <1> QED BY <1>3, <1>5, <1>8

LEMMA KillSetFacts ==
  ASSUME NEW chs, TypedTree(chs), Linked(chs), Pathed(chs), NEW id \in ChannelId
  PROVE  /\ id \in KillSet(chs, id)
         /\ ClosedUnderChildren(chs, KillSet(chs, id))
         /\ \A c \in DOMAIN chs :
              c \in KillSet(chs, id) <=> c = id \/ id \in Ancestors(chs, c)
  <1> DEFINE K == KillSet(chs, id)
  <1>1. id \in K
    BY DEF KillSet
  <1>2. ClosedUnderChildren(chs, K)
    <2> SUFFICES ASSUME NEW p \in K \cap DOMAIN chs, NEW d \in chs[p].children,
                        NEW S \in SUBSET ChannelId, id \in S,
                        \A q \in S \cap DOMAIN chs : chs[q].children \subseteq S
                 PROVE  d \in S /\ d \in ChannelId
      BY DEF KillSet, ClosedUnderChildren, Linked, TypedTree
    <2>1. p \in S
      BY DEF KillSet
    <2> QED BY <2>1
  <1>3. ASSUME NEW c \in DOMAIN chs, id \in Ancestors(chs, c)
        PROVE  c \in K
    <2> HIDE DEF K
    <2> QED BY <1>1, <1>2, <1>3, DescendantsFollow
  <1>4. ASSUME NEW c \in DOMAIN chs, c \in K
        PROVE  c = id \/ id \in Ancestors(chs, c)
    <2> DEFINE S == {d \in ChannelId : d = id \/ (d \in DOMAIN chs /\ id \in Ancestors(chs, d))}
    <2>1. ASSUME NEW p \in S \cap DOMAIN chs, NEW d \in chs[p].children
          PROVE  d \in S
      <3>1. d \in DOMAIN chs /\ chs[d].parent = p /\ d \in ChannelId /\ p # NoChannel
        BY ChannelIdAssumption DEF Linked, TypedTree
      <3>2. Ancestors(chs, d) = {p} \cup Ancestors(chs, p)
        BY <3>1, AncestorsOfChild
      <3> QED BY <3>1, <3>2
    <2>2. S \in SUBSET ChannelId /\ id \in S
      OBVIOUS
    <2>3. c \in S
      BY <1>4, <2>1, <2>2 DEF KillSet
    <2> QED BY <2>3
  <1> QED BY <1>1, <1>2, <1>3, <1>4

-----------------------------------------------------------------------------
(***************************************************************************)
(* Each command preserves the invariant.                                   *)
(***************************************************************************)

LEMMA CreatePreserves ==
  ASSUME NEW chs, Good(chs), NEW id \in ChannelId, id \notin DOMAIN chs,
         NEW config \in Config, NEW principal \in Principal
  PROVE  Good(CreateOf(chs, id, config, principal))
  <1> DEFINE new == CreateOf(chs, id, config, principal)
             root == NewChannel(NoChannel, config, principal, <<>>)
  <1>1. /\ DOMAIN new = DOMAIN chs \cup {id}
        /\ new[id] = root
        /\ \A c \in DOMAIN chs : new[c] = chs[c]
    BY DEF CreateOf, Insert
  <1>2. /\ root \in Channel
        /\ root.parent = NoChannel
        /\ root.children = {}
        /\ root.ancestor_path = <<>>
    BY DEF NewChannel, Channel, ChannelState
  <1>3. Ancestors(new, id) = {}
    BY <1>1, <1>2 DEF Ancestors, Range
  <1>4. \A c \in DOMAIN chs : Ancestors(new, c) = Ancestors(chs, c)
    BY <1>1 DEF Ancestors
  <1>5. new = [c \in DOMAIN new |-> new[c]]
    BY <1>1 DEF CreateOf, Insert
  <1> HIDE DEF new, root
  <1>6. TypedTree(new)
    BY <1>1, <1>2, <1>5 DEF TypedTree, Good
  <1>7. Linked(new)
    BY <1>1, <1>2 DEF Linked, Good
  <1>8. Pathed(new)
    BY <1>1, <1>2 DEF Pathed, Linked, Good
  <1>9. Ranked(new)
    BY <1>1, <1>3, <1>4 DEF Ranked, Good
  <1>10. Capped(new)
    BY <1>1, <1>3, <1>4 DEF Capped, Ranked, Good
  <1> QED BY <1>6, <1>7, <1>8, <1>9, <1>10 DEF Good, new

LEMMA TransitionPreserves ==
  ASSUME NEW chs, Good(chs), NEW id, NEW t \in Transitions
  PROVE  /\ Good(TransitionOf(chs, id, t))
         /\ DOMAIN TransitionOf(chs, id, t) = DOMAIN chs
  <1>1. CASE ~ Accepts(chs, id, t)
    BY <1>1 DEF TransitionOf
  <1>2. CASE Accepts(chs, id, t)
    <2> DEFINE new == TransitionOf(chs, id, t)
               r == IF t.kind = "AwaitApproval" THEN t.approval_id ELSE NoApproval
    <2>1. id \in DOMAIN chs /\ Target(t) \in ChannelState /\ r \in ApprovalId \cup {NoApproval}
      BY <1>2 DEF Accepts, Target, ChannelState, Transitions
    <2>2. chs \in [DOMAIN chs -> Channel]
      BY DEF Good, TypedTree
    <2>3. /\ DOMAIN new = DOMAIN chs
          /\ new = [c \in DOMAIN chs |-> new[c]]
          /\ \A c \in DOMAIN chs :
               /\ new[c] \in Channel
               /\ new[c].parent = chs[c].parent
               /\ new[c].children = chs[c].children
               /\ new[c].config = chs[c].config
               /\ new[c].principal = chs[c].principal
               /\ new[c].ancestor_path = chs[c].ancestor_path
      BY <1>2, <2>1, <2>2 DEF TransitionOf, Channel
    <2> HIDE DEF new
    <2>4. \A c \in DOMAIN chs : Ancestors(new, c) = Ancestors(chs, c)
      BY <2>3 DEF Ancestors
    <2>5. TypedTree(new)
      BY <2>3 DEF TypedTree, Good
    <2>6. Linked(new)
      BY <2>3 DEF Linked, Good
    <2>7. Pathed(new)
      <3> SUFFICES ASSUME NEW c \in DOMAIN chs
                   PROVE  /\ chs[c].parent = NoChannel => chs[c].ancestor_path = <<>>
                          /\ chs[c].parent # NoChannel =>
                               chs[c].ancestor_path =
                                 <<chs[c].parent>> \o new[chs[c].parent].ancestor_path
        BY <2>3 DEF Pathed
      <3>1. chs[c].parent # NoChannel =>
              new[chs[c].parent].ancestor_path = chs[chs[c].parent].ancestor_path
        BY <2>3 DEF Good, Linked
      <3> QED BY <3>1 DEF Pathed, Good
    <2>8. Ranked(new)
      BY <2>3, <2>4 DEF Ranked, Good
    <2>9. Capped(new)
      BY <2>3, <2>4 DEF Capped, Ranked, Good
    <2> QED BY <2>3, <2>5, <2>6, <2>7, <2>8, <2>9 DEF Good, new
  <1> QED BY <1>1, <1>2

LEMMA SpawnPreserves ==
  ASSUME NEW chs, Good(chs), NEW parent \in DOMAIN chs,
         NEW id \in ChannelId, id \notin DOMAIN chs, NEW config \in Config
  PROVE  /\ Good(SpawnOf(chs, parent, id, config))
         /\ DOMAIN SpawnOf(chs, parent, id, config) = DOMAIN chs \cup {id}
  <1> DEFINE new == SpawnOf(chs, parent, id, config)
             p == chs[parent]
             path == <<parent>> \o p.ancestor_path
             child == NewChannel(parent, InheritFrom(config, p.config), p.principal, path)
  <1>1. /\ parent \in ChannelId
        /\ parent # NoChannel
        /\ parent # id
        /\ p \in Channel
        /\ p.ancestor_path \in Seq(ChannelId)
        /\ p.config \in Config
        /\ p.principal \in Principal
    BY ChannelIdAssumption DEF Good, TypedTree, Channel
  <1>2. /\ path \in Seq(ChannelId)
        /\ Len(path) = Len(p.ancestor_path) + 1
        /\ Range(path) = {parent} \cup Ancestors(chs, parent)
        /\ Len(p.ancestor_path) \in Nat
    <2> HIDE DEF path
    <2>1. path = <<parent>> \o p.ancestor_path
      BY DEF path
    <2> QED BY <1>1, <2>1, ConsPath, LenProperties DEF Ancestors
  <1>3. /\ InheritFrom(config, p.config) \in Config
        /\ InheritFrom(config, p.config).max_privilege <= p.config.max_privilege
    BY <1>1 DEF InheritFrom, Config, MaxPrivilege, Standard, Elevated
  <1>4. /\ child \in Channel
        /\ child.parent = parent
        /\ child.children = {}
        /\ child.config = InheritFrom(config, p.config)
        /\ child.principal = p.principal
        /\ child.ancestor_path = path
    <2> HIDE DEF path
    <2> QED BY <1>1, <1>2, <1>3 DEF NewChannel, Channel, ChannelState
  <1>5. /\ DOMAIN new = DOMAIN chs \cup {id}
        /\ new = [c \in DOMAIN new |-> new[c]]
        /\ new[id] = child
        /\ new[parent] = [p EXCEPT !.children = @ \cup {id}]
        /\ \A c \in DOMAIN chs \ {parent} : new[c] = chs[c]
    <2> HIDE DEF child
    <2>1. new = [Insert(chs, id, child) EXCEPT ![parent].children = @ \cup {id}]
      BY DEF SpawnOf, SpawnWithPath, child
    <2> QED BY <1>1, <2>1 DEF Insert
  <1> HIDE DEF new, child, path
  <1>6. \A c \in DOMAIN chs :
          /\ new[c] \in Channel
          /\ new[c].parent = chs[c].parent
          /\ new[c].config = chs[c].config
          /\ new[c].principal = chs[c].principal
          /\ new[c].ancestor_path = chs[c].ancestor_path
          /\ new[c].children = chs[c].children \cup (IF c = parent THEN {id} ELSE {})
    <2>1. \A c \in DOMAIN chs : chs[c] \in Channel
      BY DEF Good, TypedTree
    <2>2. [p EXCEPT !.children = @ \cup {id}] \in Channel
      BY <1>1 DEF Channel
    <2> QED BY <1>1, <1>5, <2>1, <2>2 DEF Channel
  <1>7. \A c \in DOMAIN chs : Ancestors(new, c) = Ancestors(chs, c)
    BY <1>6 DEF Ancestors
  <1>8. Ancestors(new, id) = {parent} \cup Ancestors(chs, parent)
    BY <1>2, <1>4, <1>5 DEF Ancestors
  <1>9. TypedTree(new)
    BY <1>4, <1>5, <1>6 DEF TypedTree, Good
  <1>10. Linked(new)
    <2>1. ASSUME NEW c \in DOMAIN chs
          PROVE  /\ new[c].parent # NoChannel =>
                      /\ new[c].parent \in DOMAIN new
                      /\ c \in new[new[c].parent].children
                 /\ \A d \in new[c].children : d \in DOMAIN new /\ new[d].parent = c
      BY <1>4, <1>5, <1>6 DEF Linked, Good
    <2>2. /\ new[id].parent \in DOMAIN new
          /\ id \in new[new[id].parent].children
          /\ new[id].children = {}
      BY <1>4, <1>5, <1>6
    <2> QED BY <1>5, <2>1, <2>2 DEF Linked
  <1>11. Pathed(new)
    <2>1. ASSUME NEW c \in DOMAIN chs
          PROVE  /\ new[c].parent = NoChannel => new[c].ancestor_path = <<>>
                 /\ new[c].parent # NoChannel =>
                      new[c].ancestor_path =
                        <<new[c].parent>> \o new[new[c].parent].ancestor_path
      <3>1. chs[c].parent # NoChannel =>
              new[chs[c].parent].ancestor_path = chs[chs[c].parent].ancestor_path
        BY <1>6 DEF Good, Linked
      <3>2. /\ new[c].parent = chs[c].parent
            /\ new[c].ancestor_path = chs[c].ancestor_path
        BY <1>6
      <3>3. /\ chs[c].parent = NoChannel => chs[c].ancestor_path = <<>>
            /\ chs[c].parent # NoChannel =>
                 chs[c].ancestor_path = <<chs[c].parent>> \o chs[chs[c].parent].ancestor_path
        BY DEF Pathed, Good
      <3> QED BY ONLY <3>1, <3>2, <3>3
    <2>2. new[id].ancestor_path = <<parent>> \o new[parent].ancestor_path
      BY <1>4, <1>5, <1>6 DEF path
    <2> QED BY <1>1, <1>4, <1>5, <2>1, <2>2 DEF Pathed
  <1>12. Ranked(new)
    <2>1. ASSUME NEW c \in DOMAIN chs, NEW a \in Ancestors(new, c)
          PROVE  /\ a \in DOMAIN new
                 /\ Len(new[a].ancestor_path) < Len(new[c].ancestor_path)
      BY <1>5, <1>6, <1>7 DEF Ranked, Good
    <2>2. ASSUME NEW a \in Ancestors(new, id)
          PROVE  /\ a \in DOMAIN new
                 /\ Len(new[a].ancestor_path) < Len(new[id].ancestor_path)
      <3>1. Len(new[id].ancestor_path) = Len(p.ancestor_path) + 1
        BY <1>2, <1>4, <1>5
      <3>2. CASE a = parent
        BY <1>2, <1>5, <1>6, <3>1, <3>2
      <3>3. CASE a \in Ancestors(chs, parent)
        <4>1. /\ a \in DOMAIN chs
              /\ Len(chs[a].ancestor_path) < Len(p.ancestor_path)
          BY <3>3 DEF Ranked, Good
        <4>2. Len(chs[a].ancestor_path) \in Nat
          BY <4>1, AncestorsOfChild DEF Good
        <4> QED BY <1>2, <1>5, <1>6, <3>1, <4>1, <4>2
      <3> QED BY <1>8, <3>2, <3>3
    <2> QED BY <1>5, <2>1, <2>2 DEF Ranked
  <1>13. Capped(new)
    <2>1. ASSUME NEW c \in DOMAIN chs, NEW a \in Ancestors(new, c)
          PROVE  /\ new[c].config.max_privilege <= new[a].config.max_privilege
                 /\ new[c].principal = new[a].principal
      BY <1>6, <1>7 DEF Capped, Ranked, Good
    <2>2. ASSUME NEW a \in Ancestors(new, id)
          PROVE  /\ new[id].config.max_privilege <= new[a].config.max_privilege
                 /\ new[id].principal = new[a].principal
      <3>1. CASE a = parent
        BY <1>3, <1>4, <1>5, <1>6, <3>1
      <3>2. CASE a \in Ancestors(chs, parent)
        <4>1. /\ a \in DOMAIN chs
              /\ p.config.max_privilege <= chs[a].config.max_privilege
              /\ p.principal = chs[a].principal
          BY <3>2 DEF Capped, Ranked, Good
        <4>2. {chs[a].config.max_privilege, p.config.max_privilege,
               InheritFrom(config, p.config).max_privilege} \subseteq Nat
          BY <1>1, <1>3, <4>1
          DEF Good, TypedTree, Channel, Config, MaxPrivilege, Standard, Elevated
        <4> QED BY <1>3, <1>4, <1>5, <1>6, <4>1, <4>2
      <3> QED BY <1>8, <3>1, <3>2
    <2> QED BY <1>5, <2>1, <2>2 DEF Capped
  <1> QED BY <1>5, <1>9, <1>10, <1>11, <1>12, <1>13 DEF Good, new

LEMMA KillPreserves ==
  ASSUME NEW chs, Good(chs), NEW id \in DOMAIN chs
  PROVE  /\ Good(KillOf(chs, id))
         /\ DOMAIN KillOf(chs, id) =
              {c \in DOMAIN chs : c # id /\ ~ IsDescendantOf(chs, c, id)}
  <1> DEFINE new == KillOf(chs, id)
             K == KillSet(chs, id)
  <1>1. /\ id \in ChannelId
        /\ TypedTree(chs) /\ Linked(chs) /\ Pathed(chs)
    BY DEF Good, TypedTree
  <1>2. /\ id \in K
        /\ ClosedUnderChildren(chs, K)
        /\ \A c \in DOMAIN chs : c \in K <=> c = id \/ id \in Ancestors(chs, c)
    BY <1>1, KillSetFacts
  <1>3. /\ DOMAIN new = DOMAIN chs \ K
        /\ new = [c \in DOMAIN new |-> new[c]]
        /\ \A c \in DOMAIN new : new[c] =
             [chs[c] EXCEPT !.children = {d \in @ : ~(d \in K \cap DOMAIN chs /\ chs[d].parent = c)}]
    BY DEF KillOf
  <1> HIDE DEF new, K
  <1>4. \A c \in DOMAIN new :
          /\ c \in DOMAIN chs /\ c \notin K
          /\ new[c] \in Channel
          /\ new[c].parent = chs[c].parent
          /\ new[c].config = chs[c].config
          /\ new[c].principal = chs[c].principal
          /\ new[c].ancestor_path = chs[c].ancestor_path
          /\ new[c].children = chs[c].children \ K
    <2> SUFFICES ASSUME NEW c \in DOMAIN new
                 PROVE  /\ new[c] \in Channel
                        /\ new[c].parent = chs[c].parent
                        /\ new[c].config = chs[c].config
                        /\ new[c].principal = chs[c].principal
                        /\ new[c].ancestor_path = chs[c].ancestor_path
                        /\ new[c].children = chs[c].children \ K
      BY <1>3
    <2>1. c \in DOMAIN chs /\ chs[c] \in Channel
      BY <1>1, <1>3 DEF TypedTree
    <2>2. \A d \in chs[c].children : d \in DOMAIN chs /\ chs[d].parent = c
      BY <1>1, <2>1 DEF Linked
    <2>3. {d \in chs[c].children : ~(d \in K \cap DOMAIN chs /\ chs[d].parent = c)}
            = chs[c].children \ K
      BY <2>2
    <2>4. new[c] = [chs[c] EXCEPT !.children = chs[c].children \ K]
      BY <1>3, <2>3
    <2> QED BY <2>1, <2>4 DEF Channel
  <1>5. \A c \in DOMAIN new : Ancestors(new, c) = Ancestors(chs, c)
    BY <1>4 DEF Ancestors
  <1>6. \A c \in DOMAIN new : \A a \in Ancestors(chs, c) : a \in DOMAIN new
    <2> SUFFICES ASSUME NEW c \in DOMAIN new, NEW a \in Ancestors(chs, c)
                 PROVE  a \in DOMAIN new
      OBVIOUS
    <2>1. c \in DOMAIN chs /\ c \notin K
      BY <1>4
    <2>2. a \in DOMAIN chs
      BY <2>1 DEF Good, Ranked
    <2>3. a \notin K
      BY <1>1, <1>2, <2>1, DescendantsFollow
    <2> QED BY <1>3, <2>2, <2>3
  <1>7. \A c \in DOMAIN new : chs[c].parent # NoChannel => chs[c].parent \in DOMAIN new
    <2> SUFFICES ASSUME NEW c \in DOMAIN new, chs[c].parent # NoChannel
                 PROVE  chs[c].parent \in DOMAIN new
      OBVIOUS
    <2>1. c \in DOMAIN chs /\ c \notin K
      BY <1>4
    <2>2. chs[c].parent \in DOMAIN chs /\ c \in chs[chs[c].parent].children
      BY <1>1, <2>1 DEF Linked
    <2> QED BY <1>2, <1>3, <2>1, <2>2 DEF ClosedUnderChildren
  <1>8. TypedTree(new)
    BY <1>1, <1>3, <1>4 DEF TypedTree
  <1>9. Linked(new)
    <2> SUFFICES ASSUME NEW c \in DOMAIN new
                 PROVE  /\ new[c].parent # NoChannel =>
                             /\ new[c].parent \in DOMAIN new
                             /\ c \in new[new[c].parent].children
                        /\ \A d \in new[c].children : d \in DOMAIN new /\ new[d].parent = c
      BY DEF Linked
    <2>1. c \in DOMAIN chs /\ c \notin K
      BY <1>4
    <2>2. /\ chs[c].parent # NoChannel => c \in chs[chs[c].parent].children
          /\ \A d \in chs[c].children : d \in DOMAIN chs /\ chs[d].parent = c
      BY <1>1, <2>1 DEF Linked
    <2>3. ASSUME new[c].parent # NoChannel
          PROVE  /\ new[c].parent \in DOMAIN new
                 /\ c \in new[new[c].parent].children
      BY <1>4, <1>7, <2>1, <2>2, <2>3
    <2>4. ASSUME NEW d \in new[c].children
          PROVE  d \in DOMAIN new /\ new[d].parent = c
      BY <1>3, <1>4, <2>2
    <2> QED BY <2>3, <2>4
  <1>10. Pathed(new)
    <2> SUFFICES ASSUME NEW c \in DOMAIN new
                 PROVE  /\ new[c].parent = NoChannel => new[c].ancestor_path = <<>>
                        /\ new[c].parent # NoChannel =>
                             new[c].ancestor_path =
                               <<new[c].parent>> \o new[new[c].parent].ancestor_path
      BY DEF Pathed
    <2>1. /\ new[c].parent = chs[c].parent
          /\ new[c].ancestor_path = chs[c].ancestor_path
          /\ c \in DOMAIN chs
      BY <1>4
    <2>2. chs[c].parent # NoChannel =>
            new[chs[c].parent].ancestor_path = chs[chs[c].parent].ancestor_path
      BY <1>4, <1>7
    <2>3. /\ chs[c].parent = NoChannel => chs[c].ancestor_path = <<>>
          /\ chs[c].parent # NoChannel =>
               chs[c].ancestor_path = <<chs[c].parent>> \o chs[chs[c].parent].ancestor_path
      BY <1>1, <2>1 DEF Pathed
    <2> QED BY ONLY <2>1, <2>2, <2>3
  <1>11. Ranked(new)
    BY <1>4, <1>5, <1>6 DEF Good, Ranked
  <1>12. Capped(new)
    BY <1>4, <1>5, <1>6 DEF Good, Capped
  <1>13. DOMAIN new = {c \in DOMAIN chs : c # id /\ ~ IsDescendantOf(chs, c, id)}
    BY <1>2, <1>3 DEF IsDescendantOf
  <1> QED BY <1>8, <1>9, <1>10, <1>11, <1>12, <1>13 DEF Good, new

-----------------------------------------------------------------------------
(***************************************************************************)
(* The theorems.                                                           *)
(***************************************************************************)

LEMMA TreeInitInv == TreeInit => TreeInv
  <1> SUFFICES ASSUME TreeInit PROVE TreeInv
    OBVIOUS
  <1>1. DOMAIN channels = {} /\ channels = [c \in DOMAIN channels |-> channels[c]]
    BY DEF TreeInit
  <1> QED BY <1>1 DEF TreeInit, TreeInv, Good, TypedTree, Linked, Pathed, Ranked, Capped

LEMMA PresetsAreConfigs == Presets \subseteq Config
  BY DEF Presets, interactive, background, tool, default, Config, MaxPrivilege, Standard, Elevated

LEMMA TreeNextInv == TreeInv /\ [TreeNext]_treeVars => TreeInv'
  <1> SUFFICES ASSUME TreeInv, [TreeNext]_treeVars PROVE TreeInv'
    OBVIOUS
  <1>1. ASSUME NEW id \in ChannelId, NEW config \in Presets, NEW principal \in Principal,
               Create(id, config, principal)
        PROVE  TreeInv'
    <2>1. Good(CreateOf(channels, id, config, principal))
      BY <1>1, CreatePreserves, PresetsAreConfigs DEF TreeInv, Create
    <2>2. DOMAIN CreateOf(channels, id, config, principal) = DOMAIN channels \cup {id}
      BY DEF CreateOf, Insert
    <2> QED BY <1>1, <2>1, <2>2 DEF TreeInv, Create
  <1>2. ASSUME NEW parent \in ChannelId, NEW id \in ChannelId, NEW config \in Presets,
               Spawn(parent, id, config)
        PROVE  TreeInv'
    <2>1. CASE parent \in DOMAIN channels
      <3>1. /\ Good(SpawnOf(channels, parent, id, config))
            /\ DOMAIN SpawnOf(channels, parent, id, config) = DOMAIN channels \cup {id}
        BY <1>2, <2>1, SpawnPreserves, PresetsAreConfigs DEF TreeInv, Spawn
      <3> QED BY <1>2, <3>1 DEF TreeInv, Spawn
    <2>2. CASE parent \notin DOMAIN channels
      BY <1>2, <2>2 DEF TreeInv, Spawn, SpawnOf
    <2> QED BY <2>1, <2>2
  <1>3. ASSUME NEW id \in ChannelId, Kill(id)
        PROVE  TreeInv'
    <2>1. /\ Good(KillOf(channels, id))
          /\ DOMAIN KillOf(channels, id) \subseteq DOMAIN channels
      BY <1>3, KillPreserves DEF TreeInv, Kill
    <2> QED BY <1>3, <2>1 DEF TreeInv, Kill
  <1>4. ASSUME NEW id \in ChannelId, NEW t \in Transitions, Transition(id, t)
        PROVE  TreeInv'
    <2>1. /\ Good(TransitionOf(channels, id, t))
          /\ DOMAIN TransitionOf(channels, id, t) = DOMAIN channels
      BY TransitionPreserves DEF TreeInv
    <2> QED BY <1>4, <2>1 DEF TreeInv, Transition
  <1>5. CASE UNCHANGED treeVars
    BY <1>5 DEF TreeInv, treeVars, Good, TypedTree, Linked, Pathed, Ranked, Capped, Ancestors
  <1> QED BY <1>1, <1>2, <1>3, <1>4, <1>5 DEF TreeNext

\* The tree invariant holds in every reachable state.
THEOREM TreeSpecInv == TreeSpec => []TreeInv
  BY TreeInitInv, TreeNextInv, PTL DEF TreeSpec

\* Channels are well-formed and carry identifiers that were handed out.
THEOREM SpecTypeOK == TreeSpec => []TreeTypeOK
  <1>1. TreeInv => TreeTypeOK
    BY DEF TreeInv, Good, TypedTree, TreeTypeOK
  <1> QED BY <1>1, TreeSpecInv, PTL

\* Parent and children links agree, whatever sequence of commands is applied.
THEOREM SpecLinksAgree == TreeSpec => []LinksAgree
  <1>1. TreeInv => LinksAgree
    BY DEF TreeInv, Good, Linked, LinksAgree
  <1> QED BY <1>1, TreeSpecInv, PTL

\* The cached ancestor paths are the chains of parents, and are acyclic.
THEOREM SpecPathsAgree == TreeSpec => []PathsAgree
  <1>1. TreeInv => PathsAgree
    <2> SUFFICES ASSUME TreeInv, NEW c \in DOMAIN channels
                 PROVE  Ancestors(channels, c) \subseteq DOMAIN channels \ {c}
      BY DEF TreeInv, Good, Pathed, PathsAgree
    <2>1. \A a \in Ancestors(channels, c) :
            /\ a \in DOMAIN channels
            /\ Len(channels[a].ancestor_path) < Len(channels[c].ancestor_path)
      BY DEF TreeInv, Good, Ranked
    <2>2. Len(channels[c].ancestor_path) \in Nat
      BY AncestorsOfChild DEF TreeInv, Good
    <2> QED BY <2>1, <2>2
  <1> QED BY <1>1, TreeSpecInv, PTL

\* Privilege never grows down the tree, and a tree has one principal.
THEOREM SpecPrivilegeCapped == TreeSpec => []PrivilegeCapped
  <1>1. TreeInv => PrivilegeCapped
    BY DEF TreeInv, Good, Ranked, Capped, PrivilegeCapped
  <1> QED BY <1>1, TreeSpecInv, PTL

\* kill removes the channel and its descendants, and nothing else.
THEOREM SpecKillIsExact == TreeSpec => KillIsExact
  <1>1. TreeInv => \A id \in ChannelId :
                 Kill(id) => DOMAIN channels' = {c \in DOMAIN channels :
                                c # id /\ ~ IsDescendantOf(channels, c, id)}
    BY KillPreserves DEF TreeInv, Kill
  <1> QED BY <1>1, TreeSpecInv, PTL DEF KillIsExact

\* A terminal channel stays as it is, and a removed one never comes back.
THEOREM SpecTerminalIsFinal == TreeSpec => TerminalIsFinal
  <1> DEFINE Kept == /\ \A c \in DOMAIN channels \cap DOMAIN channels' :
                           IsTerminal(channels, c) => channels'[c].state = channels[c].state
                     /\ \A c \in allocated \ DOMAIN channels : c \notin DOMAIN channels'
  <1>1. TreeInv /\ [TreeNext]_treeVars => [Kept]_treeVars
    <2> SUFFICES ASSUME TreeInv, TreeNext PROVE Kept
      OBVIOUS
    <2>1. ASSUME NEW id \in ChannelId, NEW config \in Presets, NEW principal \in Principal,
                 Create(id, config, principal)
          PROVE  Kept
      BY <2>1 DEF TreeInv, Create, CreateOf, Insert
    <2>2. ASSUME NEW parent \in ChannelId, NEW id \in ChannelId, NEW config \in Presets,
                 Spawn(parent, id, config)
          PROVE  Kept
      <3>1. CASE parent \notin DOMAIN channels
        BY <2>2, <3>1 DEF Spawn, SpawnOf, SpawnWithPath
      <3>2. CASE parent \in DOMAIN channels
        <4>1. \A child : LET new == [Insert(channels, id, child) EXCEPT
                                      ![parent].children = @ \cup {id}]
                         IN  /\ DOMAIN new = DOMAIN channels \cup {id}
                             /\ \A c \in DOMAIN channels \ {id, parent} : new[c] = channels[c]
                             /\ new[parent] = [channels[parent] EXCEPT !.children = @ \cup {id}]
          BY <2>2, <3>2 DEF Insert, TreeInv, Spawn
        <4>2. channels[parent] \in Channel
          BY <3>2 DEF TreeInv, Good, TypedTree
        <4> QED BY <2>2, <3>2, <4>1, <4>2 DEF Spawn, SpawnOf, SpawnWithPath, TreeInv, Channel
      <3> QED BY <3>1, <3>2
    <2>3. ASSUME NEW id \in ChannelId, Kill(id)
          PROVE  Kept
      BY <2>3 DEF Kill, KillOf, TreeInv, Good, TypedTree, Channel
    <2>4. ASSUME NEW id \in ChannelId, NEW t \in Transitions, Transition(id, t)
          PROVE  Kept
      BY <2>4 DEF Transition, TransitionOf, Accepts, IsTerminal, Terminal, Transitions
    <2> QED BY <2>1, <2>2, <2>3, <2>4 DEF TreeNext
  <1> QED BY <1>1, TreeSpecInv, PTL DEF TerminalIsFinal, TreeSpec

-----------------------------------------------------------------------------
(* The manager.                                                            *)

Spawning(cmd) == cmd.kind = "Spawn"
Sends(c) == pc[c] = "sending" /\ Spawning(command[c])

Typed ==
  /\ queue \in Seq(Entry)
  /\ pc \in [Client -> {"idle", "sending", "waiting", "gone"}]
  /\ command \in [Client -> Command \cup {Idle}]
  /\ \A c \in Client : pc[c] \in {"sending", "waiting"} => command[c] \in Command
  /\ allocated \subseteq drawn /\ drawn \subseteq ChannelId

\* Identifiers of spawns in the queue are drawn, unused, and differ.
QueuedFresh ==
  /\ \A i \in DOMAIN queue :
       Spawning(queue[i].cmd) => queue[i].cmd.id \in drawn \ allocated
  /\ \A i, j \in DOMAIN queue :
       /\ Spawning(queue[i].cmd) /\ Spawning(queue[j].cmd)
       /\ queue[i].cmd.id = queue[j].cmd.id
       => i = j

\* So are those of spawns that wait for room in it.
SentFresh ==
  \A c \in Client : Sends(c) =>
    /\ command[c].id \in drawn \ allocated
    /\ \A i \in DOMAIN queue : Spawning(queue[i].cmd) => queue[i].cmd.id # command[c].id
    /\ \A d \in Client : Sends(d) /\ command[d].id = command[c].id => d = c

Fresh == Typed /\ QueuedFresh /\ SentFresh

-----------------------------------------------------------------------------
\* The fields of a command that the proofs look at.
LEMMA CommandFields ==
  /\ \A cmd \in Command : cmd.kind \in {"Spawn", "Kill", "GetState", "Update", "Shutdown"}
  /\ \A cmd \in Command : Spawning(cmd) =>
       cmd.parent \in ChannelId /\ cmd.id \in ChannelId /\ cmd.config \in Configs
  /\ \A cmd \in Command : cmd.kind \in {"Kill", "GetState", "Update"} => cmd.id \in ChannelId
  /\ \A cmd \in Command : cmd.kind = "Update" => cmd.t \in Offered
  /\ Idle.kind = "Idle"
  BY DEF Command, Spawning, Idle

LEMMA FreshInit == Init => Fresh
<1> SUFFICES ASSUME Init PROVE Fresh
  OBVIOUS
<1>1. queue \in Seq(Entry) /\ DOMAIN queue = {}
  BY DEF Init
<1>2. pc \in [Client -> {"idle", "sending", "waiting", "gone"}]
  BY DEF Init
<1>3. command \in [Client -> Command \cup {Idle}]
  BY DEF Init
<1>4. /\ \A c \in Client : pc[c] = "idle"
      /\ allocated = {} /\ drawn = {}
  BY DEF Init, TreeInit
<1> QED BY <1>1, <1>2, <1>3, <1>4 DEF Fresh, Typed, QueuedFresh, SentFresh, Sends

\* What an entry at the back of the queue, and taking the one at its head, do to
\* the rest.
LEMMA Behind ==
  ASSUME NEW e \in Entry, queue \in Seq(Entry), queue' = Append(queue, e)
  PROVE  /\ queue' \in Seq(Entry)
         /\ Len(queue') = Len(queue) + 1
         /\ DOMAIN queue' = 1..(Len(queue) + 1) /\ DOMAIN queue = 1..Len(queue)
         /\ \A i \in 1..Len(queue) : queue'[i] = queue[i]
         /\ queue'[Len(queue) + 1] = e
  OBVIOUS

LEMMA Taken ==
  ASSUME queue \in Seq(Entry), queue # <<>>, queue' = Tail(queue)
  PROVE  /\ queue' \in Seq(Entry) /\ Head(queue) = queue[1] /\ Head(queue) \in Entry
         /\ Len(queue) \in Nat /\ 1 \in DOMAIN queue
         /\ DOMAIN queue' = 1..(Len(queue) - 1) /\ DOMAIN queue = 1..Len(queue)
         /\ \A i \in 1..(Len(queue) - 1) : queue'[i] = queue[i + 1]
  OBVIOUS

LEMMA FreshNext == Fresh /\ [Next]_vars => Fresh'
<1> SUFFICES ASSUME Fresh, [Next]_vars PROVE Fresh'
  OBVIOUS
<1> USE CommandFields
<1>0. CASE UNCHANGED vars
  BY <1>0 DEF vars, Fresh, Typed, QueuedFresh, SentFresh, Sends
<1>1. ASSUME NEW id \in ChannelId, NEW config \in Configs, CreateRoot(id, config) PROVE Fresh'
  <2>1. Typed'
    BY <1>1 DEF Fresh, Typed, CreateRoot, Create, treeVars
  <2>2. QueuedFresh'
    BY <1>1 DEF Fresh, QueuedFresh, CreateRoot, Create, treeVars
  <2>3. SentFresh'
    BY <1>1 DEF Fresh, Typed, QueuedFresh, SentFresh, Sends, Spawning, CreateRoot, Create, treeVars
  <2> QED BY <2>1, <2>2, <2>3 DEF Fresh
<1>2. CASE Run
  <2>1. Typed'
    BY <1>2 DEF Fresh, Typed, Run, treeVars
  <2>2. QueuedFresh'
    BY <1>2 DEF Fresh, QueuedFresh, Run, treeVars
  <2>3. SentFresh'
    BY <1>2 DEF Fresh, Typed, QueuedFresh, SentFresh, Sends, Spawning, Run, treeVars
  <2> QED BY <2>1, <2>2, <2>3 DEF Fresh
<1>3. ASSUME NEW c \in Client, NEW cmd \in Command, Issue(c, cmd) PROVE Fresh'
  <2>1. Typed'
    <3>1. /\ pc' = [pc EXCEPT ![c] = "sending"] /\ command' = [command EXCEPT ![c] = cmd]
          /\ queue' = queue /\ allocated' = allocated
      BY <1>3 DEF Issue, treeVars
    <3>2. drawn \subseteq drawn' /\ drawn' \subseteq ChannelId
      BY <1>3 DEF Issue, Fresh, Typed, Spawning
    <3>3. \A d \in Client : pc'[d] \in {"sending", "waiting"} => command'[d] \in Command
      BY <3>1 DEF Fresh, Typed
    <3> QED BY <3>1, <3>2, <3>3 DEF Fresh, Typed
  <2>2. QueuedFresh'
    BY <1>3 DEF Fresh, QueuedFresh, Issue, treeVars
  <2>3. SentFresh'
    BY <1>3 DEF Fresh, Typed, QueuedFresh, SentFresh, Sends, Spawning, Issue, treeVars
  <2> QED BY <2>1, <2>2, <2>3 DEF Fresh
<1>4. ASSUME NEW c \in Client, Enqueue(c) PROVE Fresh'
  <2> DEFINE e == EntryOf(c)
  <2>1. /\ e \in Entry /\ e.cmd = command[c] /\ queue \in Seq(Entry)
        /\ queue' = Append(queue, e)
    BY <1>4 DEF Fresh, Typed, Entry, EntryOf, HasReply, Enqueue, EnqueueInto
  <2> HIDE DEF e
  <2>2. /\ queue' \in Seq(Entry) /\ Len(queue) \in Nat
        /\ DOMAIN queue' = 1..(Len(queue) + 1) /\ DOMAIN queue = 1..Len(queue)
        /\ \A i \in 1..Len(queue) : queue'[i] = queue[i]
        /\ queue'[Len(queue) + 1] = e
    BY <2>1, Behind
  <2>3. /\ pc[c] = "sending" /\ ~Sends(c)'
        /\ \A d \in Client \ {c} : pc'[d] = pc[d] /\ command'[d] = command[d]
        /\ UNCHANGED <<allocated, drawn>>
    BY <1>4 DEF Fresh, Typed, Enqueue, EnqueueInto, Sends, treeVars
  <2>4. Typed'
    <3>1. pc' \in [Client -> {"idle", "sending", "waiting", "gone"}]
      BY <1>4 DEF Fresh, Typed, Enqueue, EnqueueInto
    <3>2. command' \in [Client -> Command \cup {Idle}]
      BY <1>4 DEF Fresh, Typed, Enqueue, EnqueueInto
    <3>3. \A d \in Client : pc'[d] \in {"sending", "waiting"} => command'[d] \in Command
      BY <1>4 DEF Fresh, Typed, Enqueue, EnqueueInto
    <3> QED BY <2>2, <2>3, <3>1, <3>2, <3>3 DEF Fresh, Typed
  <2>5. Spawning(e.cmd) =>
          /\ e.cmd.id \in drawn \ allocated
          /\ \A i \in DOMAIN queue : Spawning(queue[i].cmd) => queue[i].cmd.id # e.cmd.id
    BY <2>1, <2>3 DEF Fresh, SentFresh, Sends
  <2>6. QueuedFresh'
    <3>1. \A i \in DOMAIN queue' :
            Spawning(queue'[i].cmd) => queue'[i].cmd.id \in drawn' \ allocated'
      BY <2>2, <2>3, <2>5 DEF Fresh, QueuedFresh
    <3>2. ASSUME NEW i \in DOMAIN queue', NEW j \in DOMAIN queue',
                 Spawning(queue'[i].cmd), Spawning(queue'[j].cmd),
                 queue'[i].cmd.id = queue'[j].cmd.id
          PROVE  i = j
      BY <2>2, <2>5, <3>2 DEF Fresh, QueuedFresh
    <3> QED BY <3>1, <3>2 DEF QueuedFresh, Spawning
  <2>7. SentFresh'
    <3> SUFFICES ASSUME NEW d \in Client, Sends(d)'
                 PROVE  /\ command'[d].id \in drawn' \ allocated'
                        /\ \A i \in DOMAIN queue' :
                             Spawning(queue'[i].cmd) => queue'[i].cmd.id # command'[d].id
                        /\ \A b \in Client :
                             Sends(b)' /\ command'[b].id = command'[d].id => b = d
      BY DEF SentFresh, Spawning
    <3>1. d # c /\ Sends(d) /\ command'[d] = command[d]
      BY <2>3 DEF Sends
    <3>2. Spawning(e.cmd) => e.cmd.id # command[d].id
      BY <2>1, <2>3, <3>1 DEF Fresh, SentFresh, Sends
    <3>3. \A i \in DOMAIN queue' :
            Spawning(queue'[i].cmd) => queue'[i].cmd.id # command[d].id
      BY <2>2, <3>1, <3>2 DEF Fresh, SentFresh
    <3>4. ASSUME NEW b \in Client, Sends(b)', command'[b].id = command'[d].id PROVE b = d
      <4>1. b # c /\ Sends(b) /\ command'[b] = command[b]
        BY <2>3, <3>4 DEF Sends
      <4> QED BY <3>1, <3>4, <4>1 DEF Fresh, SentFresh
    <3> QED BY <2>3, <3>1, <3>3, <3>4 DEF Fresh, SentFresh
  <2> QED BY <2>4, <2>6, <2>7 DEF Fresh
<1>5. ASSUME NEW c \in Client, SendFails(c) PROVE Fresh'
  <2>1. Typed'
    BY <1>5 DEF Fresh, Typed, SendFails, treeVars
  <2>2. QueuedFresh'
    BY <1>5 DEF Fresh, QueuedFresh, SendFails, treeVars
  <2>3. SentFresh'
    BY <1>5 DEF Fresh, Typed, QueuedFresh, SentFresh, Sends, Spawning, SendFails, treeVars
  <2> QED BY <2>1, <2>2, <2>3 DEF Fresh
<1>6. CASE Process
  <2> DEFINE h == Head(queue)
  <2>1. /\ queue' \in Seq(Entry) /\ h = queue[1] /\ h \in Entry
        /\ Len(queue) \in Nat /\ 1 \in DOMAIN queue
        /\ DOMAIN queue' = 1..(Len(queue) - 1) /\ DOMAIN queue = 1..Len(queue)
        /\ \A i \in 1..(Len(queue) - 1) : queue'[i] = queue[i + 1]
    BY <1>6, Taken DEF Process, Fresh, Typed
  <2>2. /\ drawn' = drawn
        /\ allocated' = IF Spawning(h.cmd) THEN allocated \cup {h.cmd.id} ELSE allocated
    BY <1>6 DEF Process, Spawning
  <2>3. \A d \in Client : Sends(d)' => Sends(d) /\ command'[d] = command[d]
    BY <1>6 DEF Process, Fresh, Typed, Sends
  <2>4. Typed'
    <3>1. /\ pc' \in [Client -> {"idle", "sending", "waiting", "gone"}]
          /\ command' \in [Client -> Command \cup {Idle}]
      BY <1>6 DEF Process, Fresh, Typed
    <3>2. \A d \in Client : pc'[d] \in {"sending", "waiting"} => command'[d] \in Command
      BY <1>6 DEF Process, Fresh, Typed
    <3>3. allocated' \subseteq drawn' /\ drawn' \subseteq ChannelId
      BY <2>1, <2>2 DEF Fresh, Typed, QueuedFresh
    <3> QED BY <2>1, <3>1, <3>2, <3>3 DEF Typed
  <2> HIDE DEF h
  <2>5. QueuedFresh'
    <3>1. \A i \in DOMAIN queue' : i + 1 \in DOMAIN queue /\ queue'[i] = queue[i + 1]
                                /\ i \in Nat /\ i + 1 # 1
      BY <2>1
    <3>2. ASSUME NEW i \in DOMAIN queue', Spawning(queue'[i].cmd)
          PROVE  queue'[i].cmd.id \in drawn' \ allocated'
      <4>1. queue[i + 1].cmd.id \in drawn \ allocated
        BY <3>1, <3>2 DEF Fresh, QueuedFresh
      <4>2. Spawning(h.cmd) => h.cmd.id # queue[i + 1].cmd.id
        BY <2>1, <3>1, <3>2 DEF Fresh, QueuedFresh
      <4> QED BY <2>2, <3>1, <4>1, <4>2
    <3>3. ASSUME NEW i \in DOMAIN queue', NEW j \in DOMAIN queue',
                 Spawning(queue'[i].cmd), Spawning(queue'[j].cmd),
                 queue'[i].cmd.id = queue'[j].cmd.id
          PROVE  i = j
      <4>1. i + 1 = j + 1
        BY <3>1, <3>3 DEF Fresh, QueuedFresh
      <4> QED BY <3>1, <4>1
    <3> QED BY <3>2, <3>3 DEF QueuedFresh, Spawning
  <2>6. SentFresh'
    <3> SUFFICES ASSUME NEW d \in Client, Sends(d)'
                 PROVE  /\ command'[d].id \in drawn' \ allocated'
                        /\ \A i \in DOMAIN queue' :
                             Spawning(queue'[i].cmd) => queue'[i].cmd.id # command'[d].id
                        /\ \A b \in Client :
                             Sends(b)' /\ command'[b].id = command'[d].id => b = d
      BY DEF SentFresh, Spawning
    <3>1. Sends(d) /\ command'[d] = command[d]
      BY <2>3
    <3>2. Spawning(h.cmd) => h.cmd.id # command[d].id
      BY <2>1, <3>1 DEF Fresh, SentFresh
    <3>3. command'[d].id \in drawn' \ allocated'
      BY <2>2, <3>1, <3>2 DEF Fresh, SentFresh
    <3>4. \A i \in DOMAIN queue' :
            Spawning(queue'[i].cmd) => queue'[i].cmd.id # command'[d].id
      BY <2>1, <3>1 DEF Fresh, SentFresh
    <3>5. \A b \in Client : Sends(b)' /\ command'[b].id = command'[d].id => b = d
      BY <2>3, <3>1 DEF Fresh, SentFresh
    <3> QED BY <3>3, <3>4, <3>5
  <2> QED BY <2>4, <2>5, <2>6 DEF Fresh
<1>7. CASE Stop
  <2>1. Typed'
    BY <1>7 DEF Fresh, Typed, Stop, StopReleasing, treeVars
  <2>2. QueuedFresh'
    BY <1>7 DEF Fresh, QueuedFresh, Stop, StopReleasing, treeVars
  <2>3. SentFresh'
    BY <1>7 DEF Fresh, Typed, QueuedFresh, SentFresh, Sends, Spawning, Stop, StopReleasing, treeVars
  <2> QED BY <2>1, <2>2, <2>3 DEF Fresh
<1>8. CASE AllGone
  <2>1. Typed'
    BY <1>8 DEF Fresh, Typed, AllGone, treeVars
  <2>2. QueuedFresh'
    BY <1>8 DEF Fresh, QueuedFresh, AllGone, treeVars
  <2>3. SentFresh'
    BY <1>8 DEF Fresh, Typed, QueuedFresh, SentFresh, Sends, Spawning, AllGone, treeVars
  <2> QED BY <2>1, <2>2, <2>3 DEF Fresh
<1>9. ASSUME NEW c \in Client, GiveUp(c) PROVE Fresh'
  <2>1. /\ queue \in Seq(Entry) /\ DOMAIN queue' = DOMAIN queue
        /\ \A i \in DOMAIN queue : queue'[i] \in Entry /\ queue'[i].cmd = queue[i].cmd
    <3>1. queue \in Seq(Entry) /\ \A i \in DOMAIN queue : queue[i] \in Entry
      BY DEF Fresh, Typed
    <3>2. \A e \in Entry : LET f == [e EXCEPT !.live = FALSE] IN f \in Entry /\ f.cmd = e.cmd
      BY DEF Entry
    <3>3. /\ DOMAIN queue' = DOMAIN queue
          /\ \A i \in DOMAIN queue :
               queue'[i] = queue[i] \/ queue'[i] = [queue[i] EXCEPT !.live = FALSE]
      BY <1>9 DEF GiveUp
    <3> QED BY <3>1, <3>2, <3>3
  <2>2. queue' \in Seq(Entry)
    <3>1. queue' = [i \in 1..Len(queue) |-> queue'[i]] /\ Len(queue) \in Nat
      BY <1>9, <2>1 DEF GiveUp
    <3> QED BY <2>1, <3>1
  <2>3. \A d \in Client : Sends(d)' => Sends(d) /\ command'[d] = command[d]
    BY <1>9 DEF GiveUp, Fresh, Typed, Sends
  <2>4. Typed'
    BY <1>9, <2>2 DEF GiveUp, Fresh, Typed, treeVars
  <2>5. UNCHANGED <<allocated, drawn>>
    BY <1>9 DEF GiveUp, treeVars
  <2>6. QueuedFresh' /\ SentFresh'
    BY <2>1, <2>3, <2>5 DEF Fresh, QueuedFresh, SentFresh
  <2> QED BY <2>4, <2>6 DEF Fresh
<1>10. ASSUME NEW c \in Client, DropSender(c) PROVE Fresh'
  <2>1. Typed'
    BY <1>10 DEF Fresh, Typed, DropSender, treeVars
  <2>2. QueuedFresh'
    BY <1>10 DEF Fresh, QueuedFresh, DropSender, treeVars
  <2>3. SentFresh'
    BY <1>10 DEF Fresh, Typed, QueuedFresh, SentFresh, Sends, Spawning, DropSender, treeVars
  <2> QED BY <2>1, <2>2, <2>3 DEF Fresh
<1> QED BY <1>0, <1>1, <1>2, <1>3, <1>4, <1>5, <1>6, <1>7, <1>8, <1>9, <1>10 DEF Next

\* What a step of the manager is to the World.
LEMMA NextRefines == Fresh /\ [Next]_vars => [TreeNext]_treeVars
<1> SUFFICES ASSUME Fresh, [Next]_vars PROVE TreeNext \/ UNCHANGED <<channels, allocated>>
  BY DEF treeVars
<1>1. ASSUME NEW id \in ChannelId, NEW config \in Configs, CreateRoot(id, config) PROVE TreeNext
  <2>1. config \in Presets /\ "System" \in Principal
    BY ConfigsAssumption, PrincipalAssumption
  <2>2. Create(id, config, "System")
    BY <1>1 DEF CreateRoot
  <2> QED BY <2>1, <2>2 DEF TreeNext
<1>2. CASE Process
  <2> DEFINE cmd == Head(queue).cmd
  <2>1. /\ cmd \in Command /\ 1 \in DOMAIN queue /\ cmd = queue[1].cmd
        /\ cmd.kind # "Shutdown"
    BY <1>2, Taken DEF Process, Fresh, Typed, Entry
  <2>2. /\ channels' = Applied(cmd)
        /\ allocated' = IF cmd.kind = "Spawn" THEN allocated \cup {cmd.id} ELSE allocated
    BY <1>2 DEF Process
  <2> HIDE DEF cmd
  <2>3. CASE cmd.kind = "Spawn"
    <3>1. /\ cmd.parent \in ChannelId /\ cmd.id \in ChannelId /\ cmd.config \in Presets
      BY <2>1, <2>3, CommandFields, ConfigsAssumption DEF Spawning
    <3>2. cmd.id \notin allocated
      BY <2>1, <2>3 DEF Fresh, QueuedFresh, Spawning
    <3>3. Spawn(cmd.parent, cmd.id, cmd.config)
      BY <2>2, <2>3, <3>2 DEF Spawn, Applied
    <3> QED BY <3>1, <3>3 DEF TreeNext
  <2>4. CASE cmd.kind = "Kill"
    <3>1. CASE cmd.id \in DOMAIN channels
      <4>1. Kill(cmd.id)
        BY <2>2, <2>4, <3>1 DEF Kill, Applied
      <4> QED BY <2>1, <2>4, <4>1, CommandFields DEF TreeNext
    <3>2. CASE cmd.id \notin DOMAIN channels
      BY <2>2, <2>4, <3>2 DEF Applied
    <3> QED BY <3>1, <3>2
  <2>5. CASE cmd.kind = "Update"
    <3>1. cmd.id \in ChannelId /\ cmd.t \in Transitions
      BY <2>1, <2>5, CommandFields, ConfigsAssumption
    <3>2. CASE Accepts(channels, cmd.id, cmd.t)
      <4>1. Transition(cmd.id, cmd.t)
        BY <2>2, <2>5, <3>2 DEF Transition, Applied
      <4> QED BY <3>1, <4>1 DEF TreeNext
    <3>3. CASE ~Accepts(channels, cmd.id, cmd.t)
      BY <2>2, <2>5, <3>3 DEF Applied, TransitionOf
    <3> QED BY <3>2, <3>3
  <2>6. CASE cmd.kind = "GetState"
    BY <2>2, <2>6 DEF Applied
  <2> QED BY <2>1, <2>3, <2>4, <2>5, <2>6, CommandFields
<1>3. CASE UNCHANGED vars \/ Run \/ Stop \/ AllGone
  BY <1>3 DEF vars, Run, Stop, StopReleasing, AllGone, treeVars
<1>4. ASSUME NEW c \in Client,
             \/ \E cmd \in Command : Issue(c, cmd)
             \/ Enqueue(c) \/ SendFails(c) \/ GiveUp(c) \/ DropSender(c)
      PROVE  UNCHANGED <<channels, allocated>>
  BY <1>4 DEF Issue, Enqueue, EnqueueInto, SendFails, GiveUp, DropSender, treeVars
<1> QED BY <1>1, <1>2, <1>3, <1>4 DEF Next

\* A World behind its queue is a World: whatever the clients send, however long
\* their commands wait and whenever they give up, the tree changes only by a
\* command of World, and no identifier is created twice (channel/manager.rs).
THEOREM SpecImplementsWorld == Spec => ImplementsWorld
<1>1. Init => TreeInit
  BY DEF Init
<1>2. Spec => []Fresh
  BY FreshInit, FreshNext, PTL DEF Spec
<1>3. QED BY <1>1, <1>2, NextRefines, PTL DEF Spec, ImplementsWorld, TreeSpec

\* So what is proved of the tree holds of the one the manager serves: readers
\* under the read lock find links, paths and privileges that agree, at any
\* moment of any race of clients (channel/manager.rs, channel/world.rs).
THEOREM SpecReadersAgree == Spec => [](LinksAgree /\ PathsAgree /\ PrivilegeCapped)
  BY SpecImplementsWorld, SpecLinksAgree, SpecPathsAgree, SpecPrivilegeCapped, PTL
     DEF ImplementsWorld

\* ... and no command that was still queued revives a channel that is over, or
\* brings back one that was removed.
THEOREM SpecOverIsFinal == Spec => TerminalIsFinal
  BY SpecImplementsWorld, SpecTerminalIsFinal, PTL DEF ImplementsWorld

-----------------------------------------------------------------------------
(***************************************************************************)
(* A kill and the spawns behind it.                                        *)
(***************************************************************************)

Dead(k) == k \in allocated /\ k \notin DOMAIN channels

\* k is dead already, or the queue kills it before position n and creates it
\* before that.
Covered(k, n) ==
  \/ Dead(k)
  \/ \E j \in DOMAIN queue :
       /\ j < n
       /\ queue[j].cmd.kind = "Kill" /\ queue[j].cmd.id = k
       /\ \/ k \in allocated
          \/ \E i \in DOMAIN queue :
               i < j /\ Spawning(queue[i].cmd) /\ queue[i].cmd.id = k

\* An entry with a reply channel belongs to a client that waits, and to no
\* other entry.
Owed ==
  /\ \A i \in DOMAIN queue : queue[i].live => pc[queue[i].client] = "waiting"
  /\ \A i, j \in DOMAIN queue :
       queue[i].live /\ queue[j].live /\ queue[i].client = queue[j].client => i = j

KillsCover == manager # "stopped" => \A k \in killSent : Covered(k, Len(queue) + 1)

\* A doomed spawn is still behind the kill of its parent.
DoomedBehind ==
  \A i \in DOMAIN queue :
    queue[i].live /\ doomed[queue[i].client] =>
      Spawning(queue[i].cmd) /\ Covered(queue[i].cmd.parent, i)

Told ==
  /\ doomed \in [Client -> BOOLEAN] /\ reply = [c \in Client |-> reply[c]]
  /\ DOMAIN channels \subseteq allocated
  /\ manager = "stopped" => queue = <<>>

Ordered == Told /\ Owed /\ KillsCover /\ DoomedBehind /\ KillOrdersSpawn

\* What a command does to the set of live channels.
LEMMA AppliedDomain ==
  ASSUME NEW cmd \in Command, cmd.kind # "Shutdown"
  PROVE  /\ DOMAIN Applied(cmd) \subseteq
              DOMAIN channels \cup IF Spawning(cmd) THEN {cmd.id} ELSE {}
         /\ cmd.kind = "Kill" => cmd.id \notin DOMAIN Applied(cmd)
<1> USE CommandFields
<1>1. CASE cmd.kind = "Spawn"
  <2>1. Applied(cmd) = SpawnOf(channels, cmd.parent, cmd.id, cmd.config)
    BY <1>1 DEF Applied
  <2>2. DOMAIN SpawnOf(channels, cmd.parent, cmd.id, cmd.config) \subseteq DOMAIN channels \cup {cmd.id}
    BY DEF SpawnOf, SpawnWithPath, Insert
  <2> QED BY <1>1, <2>1, <2>2 DEF Spawning
<1>2. CASE cmd.kind = "Kill"
  <2>1. cmd.id \in DOMAIN channels => Applied(cmd) = KillOf(channels, cmd.id)
    BY <1>2 DEF Applied
  <2>2. cmd.id \notin DOMAIN channels => Applied(cmd) = channels
    BY <1>2 DEF Applied
  <2>3. cmd.id \in KillSet(channels, cmd.id)
    BY <1>2 DEF KillSet
  <2>4. DOMAIN KillOf(channels, cmd.id) = DOMAIN channels \ KillSet(channels, cmd.id)
    BY DEF KillOf
  <2> QED BY <1>2, <2>1, <2>2, <2>3, <2>4 DEF Spawning
<1>3. CASE cmd.kind = "Update"
  <2>1. Applied(cmd) = TransitionOf(channels, cmd.id, cmd.t)
    BY <1>3 DEF Applied
  <2>2. DOMAIN TransitionOf(channels, cmd.id, cmd.t) = DOMAIN channels
    BY DEF TransitionOf
  <2> QED BY <1>3, <2>1, <2>2 DEF Spawning
<1>4. CASE cmd.kind = "GetState"
  BY <1>4 DEF Applied, Spawning
<1> QED BY <1>1, <1>2, <1>3, <1>4

\* Covered outlives every step; the turn of the manager brings it one nearer.
LEMMA CoveredKept ==
  ASSUME NEW k, NEW n \in Nat, Covered(k, n), queue \in Seq(Entry),
         UNCHANGED <<channels, allocated>>,
         DOMAIN queue \subseteq DOMAIN queue',
         \A i \in DOMAIN queue : queue'[i].cmd = queue[i].cmd
  PROVE  Covered(k, n)'
  BY DEF Covered, Dead, Spawning

LEMMA CoveredTaken ==
  ASSUME Fresh, Process, NEW k, NEW n \in Nat, Covered(k, n)
  PROVE  Covered(k, n - 1)'
<1> DEFINE h == Head(queue)
<1>1. /\ h = queue[1] /\ h.cmd \in Command /\ h.cmd.kind # "Shutdown"
      /\ Len(queue) \in Nat /\ 1 \in DOMAIN queue
      /\ DOMAIN queue' = 1..(Len(queue) - 1) /\ DOMAIN queue = 1..Len(queue)
      /\ \A i \in 1..(Len(queue) - 1) : queue'[i] = queue[i + 1]
  BY Taken DEF Process, Fresh, Typed, Entry
<1>2. /\ allocated' = IF Spawning(h.cmd) THEN allocated \cup {h.cmd.id} ELSE allocated
      /\ channels' = Applied(h.cmd)
  BY DEF Process, Spawning
<1> HIDE DEF h
<1>3. /\ DOMAIN channels' \subseteq DOMAIN channels \cup IF Spawning(h.cmd) THEN {h.cmd.id} ELSE {}
      /\ h.cmd.kind = "Kill" => h.cmd.id \notin DOMAIN channels'
  BY <1>1, <1>2, AppliedDomain
<1>4. Spawning(h.cmd) => h.cmd.id \notin allocated
  BY <1>1 DEF Fresh, QueuedFresh
<1>5. Dead(k) => Dead(k)'
  BY <1>2, <1>3, <1>4 DEF Dead
<1>6. ASSUME NEW j \in DOMAIN queue, j < n,
             queue[j].cmd.kind = "Kill", queue[j].cmd.id = k,
             \/ k \in allocated
             \/ \E i \in DOMAIN queue : i < j /\ Spawning(queue[i].cmd) /\ queue[i].cmd.id = k
      PROVE  Covered(k, n - 1)'
  <2>1. CASE j = 1
    <3>1. k \in allocated
      BY <1>1, <1>6, <2>1
    <3>2. Dead(k)'
      BY <1>1, <1>2, <1>3, <1>6, <2>1, <3>1 DEF Dead
    <3> QED BY <3>2 DEF Covered
  <2>2. CASE j # 1
    <3>1. /\ j - 1 \in DOMAIN queue' /\ queue'[j - 1] = queue[j] /\ j - 1 < n - 1
      BY <1>1, <1>6, <2>2
    <3>2. k \in allocated' \/ \E i \in DOMAIN queue' :
            i < j - 1 /\ Spawning(queue'[i].cmd) /\ queue'[i].cmd.id = k
      <4>1. CASE k \in allocated
        BY <1>2, <4>1
      <4>2. ASSUME NEW i \in DOMAIN queue, i < j, Spawning(queue[i].cmd), queue[i].cmd.id = k
            PROVE  k \in allocated' \/ \E m \in DOMAIN queue' :
                     m < j - 1 /\ Spawning(queue'[m].cmd) /\ queue'[m].cmd.id = k
        <5>1. CASE i = 1
          BY <1>1, <1>2, <4>2, <5>1
        <5>2. CASE i # 1
          <6>1. i - 1 \in DOMAIN queue' /\ queue'[i - 1] = queue[i] /\ i - 1 < j - 1
            BY <1>1, <4>2, <5>2
          <6> QED BY <4>2, <6>1
        <5> QED BY <5>1, <5>2
      <4> QED BY <1>6, <4>1, <4>2
    <3> QED BY <1>6, <3>1, <3>2 DEF Covered, Spawning
  <2> QED BY <2>1, <2>2
<1>7. CASE Dead(k)
  BY <1>5, <1>7 DEF Covered
<1> QED BY <1>6, <1>7 DEF Covered

LEMMA OrderedInit == Init => Ordered
<1> SUFFICES ASSUME Init PROVE Ordered
  OBVIOUS
<1>1. queue = <<>> /\ DOMAIN queue = {} /\ killSent = {} /\ DOMAIN channels = {}
  BY DEF Init, TreeInit
<1>2. doomed = [c \in Client |-> FALSE] /\ reply = [c \in Client |-> "none"]
  BY DEF Init
<1>3. reply = [c \in Client |-> reply[c]]
  BY <1>2
<1>4. doomed \in [Client -> BOOLEAN] /\ \A c \in Client : ~doomed[c]
  BY <1>2
<1> QED BY <1>1, <1>3, <1>4 DEF Ordered, Told, Owed, KillsCover, DoomedBehind, KillOrdersSpawn

LEMMA OrderedNext == Fresh /\ Ordered /\ [Next]_vars => Ordered'
<1> SUFFICES ASSUME Fresh, Ordered, [Next]_vars PROVE Ordered'
  OBVIOUS
<1>q. queue \in Seq(Entry) /\ Len(queue) \in Nat /\ DOMAIN queue = 1..Len(queue)
      /\ \A i \in DOMAIN queue : i \in Nat /\ queue[i] \in Entry /\ queue[i].client \in Client
  <2>1. queue \in Seq(Entry) /\ \A e \in Entry : e.client \in Client
    BY DEF Fresh, Typed, Entry
  <2>2. /\ Len(queue) \in Nat /\ DOMAIN queue = 1..Len(queue)
        /\ \A i \in DOMAIN queue : i \in Nat /\ queue[i] \in Entry
    BY <2>1
  <2> QED BY <2>1, <2>2
<1>0. CASE UNCHANGED vars
  <2>1. /\ queue' = queue /\ killSent' = killSent /\ doomed' = doomed
        /\ UNCHANGED <<channels, allocated>> /\ (manager = "stopped" => manager' = "stopped")
    BY <1>0 DEF vars
  <2>2. Told'
    BY <1>0, <2>1 DEF Ordered, Told, vars
  <2>3. Owed'
    BY <1>0, <2>1 DEF Ordered, Owed, Fresh, Typed, vars
  <2>4. KillsCover'
    BY <2>1 DEF Ordered, KillsCover, Covered, Dead, Spawning
  <2>5. DoomedBehind'
    BY <2>1 DEF Ordered, DoomedBehind, Covered, Dead, Spawning
  <2>6. KillOrdersSpawn'
    BY <1>0, <2>1 DEF Ordered, Told, KillOrdersSpawn, Fresh, Typed, vars
  <2> QED BY <2>2, <2>3, <2>4, <2>5, <2>6 DEF Ordered
<1>1. ASSUME NEW id \in ChannelId, NEW config \in Configs, CreateRoot(id, config) PROVE Ordered'
  <2>1. /\ UNCHANGED <<queue, manager, pc, reply, killSent, doomed>>
        /\ id \notin allocated /\ allocated' = allocated \cup {id}
        /\ DOMAIN channels' = DOMAIN channels \cup {id}
    BY <1>1 DEF CreateRoot, Create, CreateOf, Insert
  <2>2. Told' /\ Owed' /\ KillOrdersSpawn'
    BY <2>1 DEF Ordered, Told, Owed, KillOrdersSpawn
  <2>3. ASSUME NEW k, NEW n \in Nat, Covered(k, n) PROVE Covered(k, n)'
    BY <2>1, <2>3 DEF Covered, Dead, Spawning
  <2>4. KillsCover' /\ DoomedBehind'
    BY <1>q, <2>1, <2>3 DEF Ordered, KillsCover, DoomedBehind, Spawning
  <2> QED BY <2>2, <2>4 DEF Ordered
<1>2. CASE Run
  <2>1. /\ queue' = queue /\ killSent' = killSent /\ doomed' = doomed
        /\ UNCHANGED <<channels, allocated>> /\ (manager = "stopped" => manager' = "stopped")
    BY <1>2 DEF Run, treeVars
  <2>2. Told'
    BY <1>2, <2>1 DEF Ordered, Told, Run, treeVars
  <2>3. Owed'
    BY <1>2, <2>1 DEF Ordered, Owed, Fresh, Typed, Run, treeVars
  <2>4. KillsCover'
    BY <2>1 DEF Ordered, KillsCover, Covered, Dead, Spawning
  <2>5. DoomedBehind'
    BY <2>1 DEF Ordered, DoomedBehind, Covered, Dead, Spawning
  <2>6. KillOrdersSpawn'
    BY <1>2, <2>1 DEF Ordered, Told, KillOrdersSpawn, Fresh, Typed, Run, treeVars
  <2> QED BY <2>2, <2>3, <2>4, <2>5, <2>6 DEF Ordered
<1>3. ASSUME NEW c \in Client, NEW cmd \in Command, Issue(c, cmd) PROVE Ordered'
  <2>1. /\ queue' = queue /\ killSent' = killSent /\ doomed' = doomed
        /\ UNCHANGED <<channels, allocated>> /\ (manager = "stopped" => manager' = "stopped")
    BY <1>3 DEF Issue, treeVars
  <2>2. Told'
    BY <1>3, <2>1 DEF Ordered, Told, Issue, treeVars
  <2>3. Owed'
    BY <1>3, <2>1 DEF Ordered, Owed, Fresh, Typed, Issue, treeVars
  <2>4. KillsCover'
    BY <2>1 DEF Ordered, KillsCover, Covered, Dead, Spawning
  <2>5. DoomedBehind'
    BY <2>1 DEF Ordered, DoomedBehind, Covered, Dead, Spawning
  <2>6. KillOrdersSpawn'
    BY <1>3, <2>1 DEF Ordered, Told, KillOrdersSpawn, Fresh, Typed, Issue, treeVars
  <2> QED BY <2>2, <2>3, <2>4, <2>5, <2>6 DEF Ordered
<1>4. ASSUME NEW c \in Client, Enqueue(c) PROVE Ordered'
  <2> DEFINE e == EntryOf(c)
  <2>1. /\ e \in Entry /\ e.cmd = command[c] /\ e.client = c /\ (e.live <=> HasReply(e.cmd))
        /\ queue' = Append(queue, e) /\ pc[c] = "sending" /\ manager = "running"
    BY <1>4 DEF Fresh, Typed, Entry, EntryOf, HasReply, Enqueue, EnqueueInto
  <2>2. /\ UNCHANGED <<channels, allocated, manager, reply>>
        /\ pc' = [pc EXCEPT ![c] = IF HasReply(e.cmd) THEN "waiting" ELSE "idle"]
        /\ killSent' = IF e.cmd.kind = "Kill" /\ e.cmd.id \in Created THEN killSent \cup {e.cmd.id} ELSE killSent
        /\ doomed' = [doomed EXCEPT ![c] = Spawning(e.cmd) /\ e.cmd.parent \in killSent]
    BY <1>4, <2>1 DEF Enqueue, EnqueueInto, treeVars, Spawning
  <2> HIDE DEF e
  <2>3. /\ queue' \in Seq(Entry) /\ Len(queue') = Len(queue) + 1
        /\ DOMAIN queue' = 1..(Len(queue) + 1)
        /\ \A i \in 1..Len(queue) : queue'[i] = queue[i]
        /\ queue'[Len(queue) + 1] = e
    BY <2>1, <1>q, Behind
  <2>4. \A i \in DOMAIN queue : queue[i].live => queue[i].client # c
    BY <2>1 DEF Ordered, Owed
  <2>5. doomed' \in [Client -> BOOLEAN] /\ \A d \in Client \ {c} : doomed'[d] = doomed[d]
    BY <2>2 DEF Ordered, Told
  <2>6. Told'
    BY <2>1, <2>2, <2>5 DEF Ordered, Told
  <2>7. /\ \A d \in Client \ {c} : pc'[d] = pc[d]
        /\ pc'[c] = IF HasReply(e.cmd) THEN "waiting" ELSE "idle"
    BY <2>2 DEF Fresh, Typed
  <2>8. Owed'
    <3>1. \A i \in DOMAIN queue' : queue'[i].live => pc'[queue'[i].client] = "waiting"
      BY <1>q, <2>1, <2>3, <2>4, <2>7 DEF Ordered, Owed
    <3>2. \A i, j \in DOMAIN queue' :
            queue'[i].live /\ queue'[j].live /\ queue'[i].client = queue'[j].client => i = j
      BY <1>q, <2>1, <2>3, <2>4 DEF Ordered, Owed
    <3> QED BY <3>1, <3>2 DEF Owed
  <2>9. ASSUME NEW k, NEW n \in Nat, Covered(k, n) PROVE Covered(k, n)'
    BY <1>q, <2>2, <2>3, <2>9, CoveredKept
  <2>10. PICK n \in Nat : n = Len(queue) + 1
    BY <1>q
  <2>11. KillsCover'
    <3>1. ASSUME NEW k \in killSent PROVE Covered(k, n + 1)'
      <4>1. Covered(k, n)
        BY <2>1, <2>10 DEF Ordered, KillsCover
      <4>2. Covered(k, n)'
        BY <2>9, <4>1
      <4>3. \A j \in DOMAIN queue' : j < n => j < n + 1
        BY <1>q, <2>3, <2>10
      <4> QED BY <4>2, <4>3 DEF Covered
    <3>2. ASSUME NEW k, k = e.cmd.id, e.cmd.kind = "Kill", k \in Created PROVE Covered(k, n + 1)'
      <4>1. \/ k \in allocated'
            \/ \E i \in DOMAIN queue' :
                 i < n /\ Spawning(queue'[i].cmd) /\ queue'[i].cmd.id = k
        <5>1. k \in allocated \/ \E i \in DOMAIN queue : Spawning(queue[i].cmd) /\ queue[i].cmd.id = k
          BY <3>2 DEF Created, Spawning
        <5>2. \A i \in DOMAIN queue : i \in DOMAIN queue' /\ i < n /\ queue'[i] = queue[i]
          BY <1>q, <2>3, <2>10
        <5> QED BY <2>2, <5>1, <5>2 DEF Spawning
      <4>2. n \in DOMAIN queue' /\ n < n + 1 /\ queue'[n] = e
        BY <1>q, <2>3, <2>10
      <4> QED BY <3>2, <4>1, <4>2 DEF Covered, Spawning
    <3>3. Len(queue') + 1 = n + 1
      BY <1>q, <2>3, <2>10
    <3>4. \A k \in killSent' : Covered(k, n + 1)'
      BY <2>2, <3>1, <3>2
    <3> QED BY <3>3, <3>4 DEF KillsCover, Covered, Dead, Spawning
  <2>12. DoomedBehind'
    <3>1. ASSUME NEW i \in DOMAIN queue', queue'[i].live, doomed'[queue'[i].client],
                 NEW p, p = queue'[i].cmd.parent
          PROVE  Spawning(queue'[i].cmd) /\ Covered(p, i)'
      <4>1. CASE i = n
        <5>1. Spawning(e.cmd) /\ e.cmd.parent \in killSent /\ queue'[i] = e
          BY <1>q, <2>1, <2>2, <2>3, <2>10, <3>1, <4>1 DEF Ordered, Told
        <5>2. Covered(p, n)
          BY <2>1, <2>10, <3>1, <5>1 DEF Ordered, KillsCover
        <5>3. Covered(p, n)'
          BY <2>9, <5>2
        <5> QED BY <4>1, <5>1, <5>3
      <4>2. CASE i # n
        <5>1. i \in DOMAIN queue /\ queue'[i] = queue[i] /\ i \in Nat
          BY <1>q, <2>3, <2>10, <4>2
        <5>2. doomed[queue[i].client] /\ queue[i].live
          BY <1>q, <2>4, <2>5, <3>1, <5>1
        <5>3. Spawning(queue[i].cmd) /\ Covered(p, i)
          BY <3>1, <5>1, <5>2 DEF Ordered, DoomedBehind
        <5> QED BY <2>9, <5>1, <5>3
      <4> QED BY <4>1, <4>2
    <3> QED BY <3>1 DEF DoomedBehind, Covered, Dead, Spawning
  <2>13. KillOrdersSpawn'
    <3>1. doomed'[c] => pc'[c] = "waiting"
      BY <2>2, <2>7 DEF Ordered, Told, Spawning, HasReply
    <3> QED BY <2>2, <2>5, <2>7, <3>1 DEF Ordered, KillOrdersSpawn
  <2> QED BY <2>6, <2>8, <2>11, <2>12, <2>13 DEF Ordered
<1>5. ASSUME NEW c \in Client, SendFails(c) PROVE Ordered'
  <2>1. /\ queue' = queue /\ killSent' = killSent /\ doomed' = doomed
        /\ UNCHANGED <<channels, allocated>> /\ (manager = "stopped" => manager' = "stopped")
    BY <1>5 DEF SendFails, treeVars
  <2>2. Told'
    BY <1>5, <2>1 DEF Ordered, Told, SendFails, treeVars
  <2>3. Owed'
    BY <1>5, <2>1 DEF Ordered, Owed, Fresh, Typed, SendFails, treeVars
  <2>4. KillsCover'
    BY <2>1 DEF Ordered, KillsCover, Covered, Dead, Spawning
  <2>5. DoomedBehind'
    BY <2>1 DEF Ordered, DoomedBehind, Covered, Dead, Spawning
  <2>6. KillOrdersSpawn'
    BY <1>5, <2>1 DEF Ordered, Told, KillOrdersSpawn, Fresh, Typed, SendFails, treeVars
  <2> QED BY <2>2, <2>3, <2>4, <2>5, <2>6 DEF Ordered
<1>6. CASE Process
  <2> DEFINE h == Head(queue)
  <2>1. /\ queue' \in Seq(Entry) /\ h = queue[1] /\ h \in Entry /\ 1 \in DOMAIN queue
        /\ DOMAIN queue' = 1..(Len(queue) - 1)
        /\ \A i \in 1..(Len(queue) - 1) : queue'[i] = queue[i + 1]
    BY <1>6, <1>q, Taken DEF Process
  <2>2. /\ manager = "running" /\ UNCHANGED <<manager, killSent, doomed>> /\ h.cmd.kind # "Shutdown"
        /\ channels' = Applied(h.cmd)
        /\ allocated' = IF Spawning(h.cmd) THEN allocated \cup {h.cmd.id} ELSE allocated
        /\ h.live => /\ pc' = [pc EXCEPT ![h.client] = "idle"]
                     /\ reply' = [reply EXCEPT ![h.client] = Answer(h.cmd)]
        /\ ~h.live => UNCHANGED <<pc, reply>>
    BY <1>6 DEF Process, Spawning
  <2>3. h.cmd \in Command /\ h.client \in Client /\ h.live \in BOOLEAN
    BY <2>1 DEF Entry
  <2>4. \A i \in DOMAIN queue' : /\ i + 1 \in DOMAIN queue /\ queue'[i] = queue[i + 1]
                                 /\ i \in Nat /\ i + 1 # 1 /\ (i + 1) - 1 = i
    BY <1>q, <2>1
  <2> HIDE DEF h
  <2>5. Told'
    <3>1. reply' = [d \in Client |-> reply'[d]]
      BY <2>2, <2>3 DEF Ordered, Told
    <3>2. DOMAIN channels' \subseteq allocated'
      BY <2>2, <2>3, AppliedDomain DEF Ordered, Told
    <3> QED BY <2>2, <3>1, <3>2 DEF Ordered, Told
  <2>6. Owed'
    <3>1. ASSUME NEW i \in DOMAIN queue', queue'[i].live PROVE pc'[queue'[i].client] = "waiting"
      <4>1. queue[i + 1].live /\ pc[queue[i + 1].client] = "waiting"
        BY <2>4, <3>1 DEF Ordered, Owed
      <4>2. h.live => queue[i + 1].client # h.client
        BY <2>1, <2>4, <4>1 DEF Ordered, Owed
      <4>3. queue'[i] = queue[i + 1] /\ queue[i + 1].client \in Client
        BY <1>q, <2>4
      <4>4. CASE h.live
        BY <2>2, <4>1, <4>2, <4>3, <4>4 DEF Fresh, Typed
      <4>5. CASE ~h.live
        BY <2>2, <4>1, <4>3, <4>5
      <4> QED BY <4>4, <4>5
    <3>2. ASSUME NEW i \in DOMAIN queue', NEW j \in DOMAIN queue', queue'[i].live, queue'[j].live,
                 queue'[i].client = queue'[j].client
          PROVE  i = j
      <4>1. i + 1 = j + 1
        BY <2>4, <3>2 DEF Ordered, Owed
      <4> QED BY <2>4, <4>1
    <3> QED BY <3>1, <3>2 DEF Owed
  <2>7. ASSUME NEW k, NEW n \in Nat, Covered(k, n) PROVE Covered(k, n - 1)'
    BY <1>6, <2>7, CoveredTaken
  <2>8. KillsCover'
    <3>1. PICK n \in Nat : n = Len(queue) + 1
      BY <1>q
    <3>2. Len(queue') + 1 = n - 1
      <4>1. queue' = Tail(queue) /\ queue # <<>>
        BY <1>6 DEF Process
      <4> QED BY <1>q, <3>1, <4>1
    <3>3. \A k \in killSent : Covered(k, n)
      BY <2>2, <3>1 DEF Ordered, KillsCover
    <3>4. ASSUME NEW k \in killSent PROVE Covered(k, n - 1)'
      BY <2>7, <3>3
    <3> QED BY <2>2, <3>2, <3>4 DEF KillsCover, Covered, Dead, Spawning
  <2>9. DoomedBehind'
    <3>1. ASSUME NEW i \in DOMAIN queue', queue'[i].live, doomed'[queue'[i].client],
                 NEW p, p = queue'[i].cmd.parent
          PROVE  Spawning(queue'[i].cmd) /\ Covered(p, i)'
      <4>1. PICK n \in Nat : n = i + 1
        BY <2>4
      <4>2. Spawning(queue[n].cmd) /\ Covered(p, n) /\ queue'[i] = queue[n]
        BY <2>2, <2>4, <3>1, <4>1 DEF Ordered, DoomedBehind
      <4>3. Covered(p, n - 1)'
        BY <2>7, <4>2
      <4>4. n - 1 = i
        BY <2>4, <4>1
      <4> QED BY <4>2, <4>3, <4>4
    <3> QED BY <3>1 DEF DoomedBehind, Covered, Dead, Spawning
  <2>10. KillOrdersSpawn'
    <3>1. ASSUME h.live, doomed[h.client] PROVE Answer(h.cmd) # "accepted"
      <4>1. Spawning(h.cmd) /\ Covered(h.cmd.parent, 1)
        BY <2>1, <3>1 DEF Ordered, DoomedBehind
      <4>2. h.cmd.parent \notin DOMAIN channels
        BY <1>q, <4>1 DEF Covered, Dead
      <4> QED BY <4>1, <4>2 DEF Answer, Spawning
    <3>2. ASSUME NEW c \in Client, doomed'[c], pc'[c] # "waiting" PROVE reply'[c] # "accepted"
      <4>1. CASE h.live /\ c = h.client
        BY <2>2, <2>3, <3>1, <3>2, <4>1 DEF Ordered, Told
      <4>2. CASE ~(h.live /\ c = h.client)
        <5>1. pc'[c] = pc[c] /\ reply'[c] = reply[c]
          BY <2>2, <2>3, <4>2 DEF Fresh, Typed, Ordered, Told
        <5> QED BY <2>2, <3>2, <5>1 DEF Ordered, KillOrdersSpawn
      <4> QED BY <4>1, <4>2
    <3> QED BY <3>2 DEF KillOrdersSpawn
  <2> QED BY <2>5, <2>6, <2>8, <2>9, <2>10 DEF Ordered
<1>7. CASE Stop
  <2>1. /\ queue' = <<>> /\ DOMAIN queue' = {} /\ manager' = "stopped"
        /\ UNCHANGED <<channels, allocated, killSent, doomed>>
    BY <1>7 DEF Stop, StopReleasing, treeVars
  <2>2. PICK orphans : /\ pc' = [c \in Client |-> IF c \in orphans THEN "idle" ELSE pc[c]]
                       /\ reply' = [c \in Client |-> IF c \in orphans THEN "dropped" ELSE reply[c]]
    BY <1>7 DEF Stop, StopReleasing
  <2>3. reply' = [c \in Client |-> reply'[c]]
    BY <2>2
  <2>4. Told' /\ Owed' /\ KillsCover' /\ DoomedBehind'
    BY <2>1, <2>3 DEF Ordered, Told, Owed, KillsCover, DoomedBehind
  <2>5. KillOrdersSpawn'
    BY <2>1, <2>2 DEF Ordered, KillOrdersSpawn
  <2> QED BY <2>4, <2>5 DEF Ordered
<1>8. CASE AllGone
  <2>1. /\ queue' = queue /\ killSent' = killSent /\ doomed' = doomed
        /\ UNCHANGED <<channels, allocated>> /\ (manager = "stopped" => manager' = "stopped")
    BY <1>8 DEF AllGone, treeVars
  <2>2. Told'
    BY <1>8, <2>1 DEF Ordered, Told, AllGone, treeVars
  <2>3. Owed'
    BY <1>8, <2>1 DEF Ordered, Owed, Fresh, Typed, AllGone, treeVars
  <2>4. KillsCover'
    BY <2>1 DEF Ordered, KillsCover, Covered, Dead, Spawning
  <2>5. DoomedBehind'
    BY <2>1 DEF Ordered, DoomedBehind, Covered, Dead, Spawning
  <2>6. KillOrdersSpawn'
    BY <1>8, <2>1 DEF Ordered, Told, KillOrdersSpawn, Fresh, Typed, AllGone, treeVars
  <2> QED BY <2>2, <2>3, <2>4, <2>5, <2>6 DEF Ordered
<1>9. ASSUME NEW c \in Client, GiveUp(c) PROVE Ordered'
  <2>1. /\ DOMAIN queue' = DOMAIN queue /\ Len(queue') = Len(queue)
        /\ \A i \in DOMAIN queue :
             /\ queue'[i].cmd = queue[i].cmd /\ queue'[i].client = queue[i].client
             /\ queue'[i].live => queue[i].live /\ queue[i].client # c
    <3>1. \A e \in Entry : LET f == [e EXCEPT !.live = FALSE]
                           IN  f.cmd = e.cmd /\ f.client = e.client /\ ~f.live
      BY DEF Entry
    <3>2. /\ DOMAIN queue' = DOMAIN queue
          /\ \A i \in DOMAIN queue :
               queue'[i] = IF queue[i].client = c THEN [queue[i] EXCEPT !.live = FALSE] ELSE queue[i]
      BY <1>9 DEF GiveUp
    <3>3. \A i \in DOMAIN queue :
            /\ queue'[i].cmd = queue[i].cmd /\ queue'[i].client = queue[i].client
            /\ queue'[i].live => queue[i].live /\ queue[i].client # c
      BY <1>q, <3>1, <3>2
    <3>4. Len(queue') = Len(queue)
      <4>1. queue' = [i \in 1..Len(queue) |-> queue'[i]]
        BY <1>9, <1>q DEF GiveUp
      <4> QED BY <1>q, <4>1
    <3> QED BY <3>2, <3>3, <3>4
  <2>2. /\ UNCHANGED <<channels, allocated, manager, killSent, doomed>>
        /\ pc' = [pc EXCEPT ![c] = "idle"] /\ reply' = [reply EXCEPT ![c] = "timeout"]
    BY <1>9 DEF GiveUp, treeVars
  <2>3. Told'
    <3>1. reply' = [d \in Client |-> reply'[d]]
      BY <2>2 DEF Ordered, Told
    <3>2. manager' = "stopped" => queue' = <<>>
      BY <1>9, <2>2 DEF Ordered, Told, GiveUp
    <3> QED BY <2>2, <3>1, <3>2 DEF Ordered, Told
  <2>4. Owed'
    BY <1>q, <2>1, <2>2 DEF Ordered, Owed, Fresh, Typed
  <2>5. ASSUME NEW k, NEW n \in Nat, Covered(k, n) PROVE Covered(k, n)'
    BY <1>q, <2>1, <2>2, <2>5, CoveredKept
  <2>6. KillsCover'
    <3>1. Len(queue) + 1 \in Nat
      BY <1>q
    <3> QED BY <2>1, <2>2, <2>5, <3>1 DEF Ordered, KillsCover
  <2>7. DoomedBehind'
    BY <1>q, <2>1, <2>2, <2>5 DEF Ordered, DoomedBehind, Spawning
  <2>8. KillOrdersSpawn'
    BY <2>2 DEF Ordered, Told, KillOrdersSpawn, Fresh, Typed
  <2> QED BY <2>3, <2>4, <2>6, <2>7, <2>8 DEF Ordered
<1>10. ASSUME NEW c \in Client, DropSender(c) PROVE Ordered'
  <2>1. /\ queue' = queue /\ killSent' = killSent /\ doomed' = doomed
        /\ UNCHANGED <<channels, allocated>> /\ (manager = "stopped" => manager' = "stopped")
    BY <1>10 DEF DropSender, treeVars
  <2>2. Told'
    BY <1>10, <2>1 DEF Ordered, Told, DropSender, treeVars
  <2>3. Owed'
    BY <1>10, <2>1 DEF Ordered, Owed, Fresh, Typed, DropSender, treeVars
  <2>4. KillsCover'
    BY <2>1 DEF Ordered, KillsCover, Covered, Dead, Spawning
  <2>5. DoomedBehind'
    BY <2>1 DEF Ordered, DoomedBehind, Covered, Dead, Spawning
  <2>6. KillOrdersSpawn'
    BY <1>10, <2>1 DEF Ordered, Told, KillOrdersSpawn, Fresh, Typed, DropSender, treeVars
  <2> QED BY <2>2, <2>3, <2>4, <2>5, <2>6 DEF Ordered
<1> QED BY <1>0, <1>1, <1>2, <1>3, <1>4, <1>5, <1>6, <1>7, <1>8, <1>9, <1>10 DEF Next

\* A spawn queued behind the kill of its parent is never accepted, for any
\* clients and capacity: Kill carries no reply, and no client has to wait for it
\* before it may rely on it (channel/manager.rs).
THEOREM SpecKillOrdersSpawn == Spec => []KillOrdersSpawn
<1>1. Spec => []Fresh
  BY FreshInit, FreshNext, PTL DEF Spec
<1>2. Ordered => KillOrdersSpawn
  BY DEF Ordered
<1>3. QED BY <1>1, <1>2, OrderedInit, OrderedNext, PTL DEF Spec

-----------------------------------------------------------------------------
(***************************************************************************)
(* Whoever waits is owed an answer.                                        *)
(***************************************************************************)

\* Entry i is the one client c waits for.
Owes(i, c) == queue[i].live /\ queue[i].client = c /\ queue[i].cmd = command[c]

Held ==
  /\ manager # "running" => queue = <<>>
  /\ \A c \in Client : pc[c] = "sending" => manager # "setup"
  /\ \A c \in Client : pc[c] = "waiting" => \E i \in DOMAIN queue : Owes(i, c)

\* A client that waits has one entry that can answer it, in the queue of a
\* manager that runs, and it is the command the client sent last; an entry that
\* can answer is nobody else's.
AnswersOwed ==
  /\ \A c \in Client : pc[c] = "sending" => manager # "setup"
  /\ \A c \in Client : pc[c] = "waiting" =>
       /\ manager = "running"
       /\ \E i \in DOMAIN queue :
            /\ Owes(i, c)
            /\ \A j \in DOMAIN queue : queue[j].live /\ queue[j].client = c => j = i
  /\ \A i \in DOMAIN queue : queue[i].live => pc[queue[i].client] = "waiting"

LEMMA HeldInit == Init => Held
  BY DEF Init, Held

\* Steps that leave the queue, the manager and every wait alone.
LEMMA HeldQuiet ==
  ASSUME Held, UNCHANGED <<queue, manager>>,
         \A c \in Client : pc'[c] = "waiting" => pc[c] = "waiting" /\ command'[c] = command[c],
         \A c \in Client : pc'[c] = "sending" => manager # "setup"
  PROVE  Held'
  BY DEF Held, Owes

LEMMA HeldNext == Fresh /\ Held /\ [Next]_vars => Held'
<1> SUFFICES ASSUME Fresh, Held, [Next]_vars PROVE Held'
  OBVIOUS
<1>q. /\ queue \in Seq(Entry) /\ Len(queue) \in Nat /\ DOMAIN queue = 1..Len(queue)
      /\ pc \in [Client -> {"idle", "sending", "waiting", "gone"}]
      /\ command \in [Client -> Command \cup {Idle}]
  BY DEF Fresh, Typed
<1>0. CASE UNCHANGED vars
  BY <1>0, HeldQuiet DEF vars, Held
<1>1. ASSUME NEW id \in ChannelId, NEW config \in Configs, CreateRoot(id, config) PROVE Held'
  BY <1>1, HeldQuiet DEF CreateRoot, Held
<1>2. CASE Run
  <2>1. queue = <<>>
    BY <1>2 DEF Run, Held
  <2> QED BY <1>2, <2>1 DEF Run, Held, Owes
<1>3. ASSUME NEW c \in Client, NEW cmd \in Command, Issue(c, cmd) PROVE Held'
  <2>1. /\ UNCHANGED <<queue, manager>> /\ manager # "setup"
        /\ pc' = [pc EXCEPT ![c] = "sending"] /\ command' = [command EXCEPT ![c] = cmd]
    BY <1>3 DEF Issue
  <2> QED BY <1>q, <2>1, HeldQuiet
<1>4. ASSUME NEW c \in Client, Enqueue(c) PROVE Held'
  <2> DEFINE e == EntryOf(c)
  <2>1. /\ e \in Entry /\ e.cmd = command[c] /\ e.client = c /\ (e.live <=> HasReply(command[c]))
        /\ queue' = Append(queue, e) /\ pc[c] = "sending" /\ manager = "running" /\ manager' = manager
    BY <1>4 DEF Fresh, Typed, Entry, EntryOf, HasReply, Enqueue, EnqueueInto
  <2>2. /\ pc' = [pc EXCEPT ![c] = IF HasReply(command[c]) THEN "waiting" ELSE "idle"]
        /\ command' = [command EXCEPT ![c] = IF HasReply(command[c]) THEN command[c] ELSE Idle]
    BY <1>4 DEF Enqueue, EnqueueInto
  <2> HIDE DEF e
  <2>3. /\ DOMAIN queue' = 1..(Len(queue) + 1)
        /\ \A i \in DOMAIN queue : i \in DOMAIN queue' /\ queue'[i] = queue[i]
        /\ Len(queue) + 1 \in DOMAIN queue' /\ queue'[Len(queue) + 1] = e
    BY <2>1, <1>q, Behind
  <2>4. ASSUME NEW d \in Client, pc'[d] = "waiting" PROVE \E i \in DOMAIN queue' : Owes(i, d)'
    <3>1. CASE d = c
      <4>1. HasReply(command[c]) /\ command'[c] = command[c]
        BY <1>q, <2>2, <2>4, <3>1
      <4> QED BY <2>1, <2>3, <3>1, <4>1 DEF Owes
    <3>2. CASE d # c
      <4>1. pc[d] = "waiting" /\ command'[d] = command[d]
        BY <1>q, <2>2, <2>4, <3>2
      <4>2. PICK i \in DOMAIN queue : Owes(i, d)
        BY <4>1 DEF Held
      <4> QED BY <2>3, <4>1, <4>2 DEF Owes
    <3> QED BY <3>1, <3>2
  <2>5. \A d \in Client : pc'[d] = "sending" => manager' # "setup"
    BY <2>1
  <2> QED BY <2>1, <2>4, <2>5 DEF Held
<1>5. ASSUME NEW c \in Client, SendFails(c) PROVE Held'
  <2>1. /\ UNCHANGED <<queue, manager>> /\ manager = "stopped"
        /\ pc' = [pc EXCEPT ![c] = "idle"] /\ command' = [command EXCEPT ![c] = Idle]
    BY <1>5 DEF SendFails
  <2> QED BY <1>q, <2>1, HeldQuiet
<1>6. CASE Process
  <2> DEFINE h == Head(queue)
  <2>1. /\ h = queue[1] /\ h \in Entry /\ h.client \in Client
        /\ DOMAIN queue' = 1..(Len(queue) - 1)
        /\ \A i \in 1..(Len(queue) - 1) : queue'[i] = queue[i + 1]
    <3>1. \A e \in Entry : e.client \in Client
      BY DEF Entry
    <3> QED BY <1>6, <1>q, <3>1, Taken DEF Process
  <2>2. /\ manager = "running" /\ manager' = manager
        /\ h.live => /\ pc' = [pc EXCEPT ![h.client] = "idle"]
                     /\ command' = [command EXCEPT ![h.client] = Idle]
        /\ ~h.live => UNCHANGED <<pc, command>>
    BY <1>6 DEF Process
  <2> HIDE DEF h
  <2>3. ASSUME NEW d \in Client, pc'[d] = "waiting" PROVE \E i \in DOMAIN queue' : Owes(i, d)'
    <3>1. pc[d] = "waiting" /\ command'[d] = command[d] /\ (h.live => h.client # d)
      BY <1>q, <2>1, <2>2, <2>3
    <3>2. PICK i \in DOMAIN queue : Owes(i, d)
      BY <3>1 DEF Held
    <3>3. i # 1
      BY <2>1, <3>1, <3>2 DEF Owes
    <3>4. PICK n \in 1..(Len(queue) - 1) : n + 1 = i
      <4>1. i - 1 \in 1..(Len(queue) - 1) /\ (i - 1) + 1 = i
        BY <1>q, <3>3
      <4> QED BY <4>1
    <3>5. n \in DOMAIN queue' /\ queue'[n] = queue[i]
      BY <2>1, <3>4
    <3> QED BY <3>1, <3>2, <3>5 DEF Owes
  <2>4. \A d \in Client : pc'[d] = "sending" => manager' # "setup"
    BY <2>2
  <2> QED BY <2>2, <2>3, <2>4 DEF Held
<1>7. CASE Stop
  <2> DEFINE orphans == {queue[i].client : i \in {j \in DOMAIN queue : queue[j].live}}
  <2>1. /\ manager = "running" /\ manager' = "stopped" /\ queue' = <<>>
        /\ pc' = [c \in Client |-> IF c \in orphans THEN "idle" ELSE pc[c]]
    BY <1>7 DEF Stop, StopReleasing
  <2>2. ASSUME NEW c \in Client PROVE pc'[c] # "waiting"
    <3>1. pc[c] = "waiting" => c \in orphans
      BY DEF Held, Owes
    <3> QED BY <2>1, <3>1
  <2> QED BY <2>1, <2>2 DEF Held
<1>8. CASE AllGone
  <2>1. /\ queue = <<>> /\ queue' = <<>> /\ manager' = "stopped" /\ UNCHANGED <<pc, command>>
    BY <1>8 DEF AllGone
  <2> QED BY <2>1 DEF Held, Owes
<1>9. ASSUME NEW c \in Client, GiveUp(c) PROVE Held'
  <2>1. /\ manager' = manager
        /\ pc' = [pc EXCEPT ![c] = "idle"] /\ command' = [command EXCEPT ![c] = Idle]
        /\ DOMAIN queue' = DOMAIN queue
        /\ \A i \in DOMAIN queue : queue[i].client # c => queue'[i] = queue[i]
    BY <1>9 DEF GiveUp
  <2>2. ASSUME NEW d \in Client, pc'[d] = "waiting" PROVE \E i \in DOMAIN queue' : Owes(i, d)'
    <3>1. d # c /\ pc[d] = "waiting" /\ command'[d] = command[d]
      BY <1>q, <2>1, <2>2
    <3>2. PICK i \in DOMAIN queue : Owes(i, d)
      BY <3>1 DEF Held
    <3> QED BY <2>1, <3>1, <3>2 DEF Owes
  <2>3. manager' # "running" => queue' = <<>>
    <3>1. manager # "running" => queue = <<>>
      BY DEF Held
    <3>2. queue = <<>> => pc[c] # "waiting"
      BY DEF Held
    <3> QED BY <1>9, <2>1, <3>1, <3>2 DEF GiveUp
  <2>4. \A d \in Client : pc'[d] = "sending" => manager' # "setup"
    BY <1>q, <2>1 DEF Held
  <2> QED BY <2>2, <2>3, <2>4 DEF Held
<1>10. ASSUME NEW c \in Client, DropSender(c) PROVE Held'
  <2>1. UNCHANGED <<queue, manager, command>> /\ pc' = [pc EXCEPT ![c] = "gone"]
    BY <1>10 DEF DropSender
  <2>2. \A d \in Client : pc'[d] = "sending" => manager # "setup"
    BY <1>q, <2>1 DEF Held
  <2> QED BY <1>q, <2>1, <2>2, HeldQuiet
<1> QED BY <1>0, <1>1, <1>2, <1>3, <1>4, <1>5, <1>6, <1>7, <1>8, <1>9, <1>10 DEF Next

\* Nobody is left waiting, which is the half of Released that needs no fairness:
\* for any clients and capacity, a client that awaits a reply has one entry in
\* the queue that will give it, through time-outs and up to the stop, and a
\* client that sends finds a manager that runs or has stopped
\* (channel/manager.rs).
THEOREM SpecAnswersOwed == Spec => []AnswersOwed
<1>1. Spec => []Fresh
  BY FreshInit, FreshNext, PTL DEF Spec
<1>2. Spec => []Ordered
  BY <1>1, OrderedInit, OrderedNext, PTL DEF Spec
<1>3. Spec => []Held
  BY <1>1, HeldInit, HeldNext, PTL DEF Spec
<1>4. Ordered /\ Held => AnswersOwed
  <2> SUFFICES ASSUME Ordered, Held PROVE AnswersOwed
    OBVIOUS
  <2>1. ASSUME NEW c \in Client, pc[c] = "waiting"
        PROVE  /\ manager = "running"
               /\ \E i \in DOMAIN queue :
                    /\ Owes(i, c)
                    /\ \A j \in DOMAIN queue : queue[j].live /\ queue[j].client = c => j = i
    <3>1. PICK i \in DOMAIN queue : Owes(i, c)
      BY <2>1 DEF Held
    <3>2. manager = "running"
      BY <3>1 DEF Held
    <3>3. \A j \in DOMAIN queue : queue[j].live /\ queue[j].client = c => j = i
      BY <3>1 DEF Owes, Ordered, Owed
    <3> QED BY <3>1, <3>2, <3>3
  <2> QED BY <2>1 DEF AnswersOwed, Held, Ordered, Owed
<1>5. QED BY <1>2, <1>3, <1>4, PTL
=============================================================================
