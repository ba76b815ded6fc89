---------------------------- MODULE EngineProofs ----------------------------
(***************************************************************************)
(* The registries of the engine, for any components, any number of         *)
(* restarts and any size of the supervisor's inbox.  Who may still remove  *)
(* an entry is told by the stage a channel has reached, and no channel     *)
(* goes back; that the numbers the model gives to channels never run out   *)
(* is a counting argument over components and restarts.  ExitsKept follows *)
(* the end of a runner through the monitor to the supervisor's inbox.      *)
(***************************************************************************)
EXTENDS Engine, FiniteSetTheorems, TLAPS

-----------------------------------------------------------------------------
(* The inductive invariant.                                                *)

Phase == {"setup", "running", "stopping", "awaiting", "unlisting", "done"}
Before == {"setup", "running", "stopping"}

Typed ==
  /\ phase \in Phase /\ drawn \in Nat
  /\ name \in [Channel -> Name] /\ stage \in [Channel -> Stage]
  /\ \A c \in Channel : stage[c] = "free" <=> c > drawn
  /\ map \in [Name -> Channel \cup {Nobody}] /\ snapshots \in [Name -> Channel \cup {Nobody}]
  /\ notices \in Seq(Channel) /\ (monitor \in {"handle", "name"} => dead \in Channel)
  /\ tracked \subseteq Supervised /\ restarts \in [Supervised -> Nat]

\* A place for every runner there can be: its component, and which restart it is.
Slot == (Boot \X {0}) \cup (Supervised \X (0..MaxRestarts))
Apart(f) == \A c, d \in DOMAIN f : f[c] = f[d] => c = d
Places(f) == \A c \in DOMAIN f :
  f[c][1] = name[c] /\ (name[c] \in Supervised => f[c][2] <= restarts[name[c]])
Numbered == \E f \in [1..drawn -> Slot] : Apart(f) /\ Places(f)

\* The runners of the engine are one of a name, and have no clean-up of their own.
Own ==
  /\ engineOwn \subseteq Channel
  /\ \A c \in engineOwn : stage[c] \in {"running", "spawning", "returned", "gone", "panicked", "aborted"}
  /\ \A c, d \in engineOwn : name[c] = name[d] => c = d

\* What shutdown is done with has ended or was given up, and what ended was kept.
Awaited ==
  /\ tasks \subseteq engineOwn /\ timedOut \subseteq engineOwn /\ tasks \cap timedOut = {}
  /\ phase \in Before => timedOut = {} /\ \A n \in Name : snapshots[n] = Nobody
  /\ phase \in {"unlisting", "done"} => tasks = {}
  /\ \A c \in engineOwn : snapshots[name[c]] = c => stage[c] = "gone" /\ c \notin tasks \cup timedOut
  /\ phase \notin Before => \A c \in engineOwn \ (tasks \cup timedOut) :
       /\ stage[c] \in {"gone", "panicked"}
       /\ stage[c] = "gone" /\ name[c] # Client => snapshots[name[c]] = c

\* The monitor only hears of runners that left their loop.
Left == {"noticed", "unlisted", "gone"}
Noticed ==
  /\ \A i \in DOMAIN notices : stage[notices[i]] \in Left
  /\ monitor \in {"handle", "name"} => stage[dead] \in Left

\* Two of a name that both registered, and did not both end, are overlapped.
Entered == {"running", "spawning", "returned", "noticed", "unlisted"}
Overlaps ==
  \A c, d \in Channel :
    c # d /\ name[c] = name[d] /\ stage[c] \in Entered /\ stage[d] \in Entered => c \in overlapped

Listed == \A c \in Channel : stage[c] = "listed" => c \in handles

Inv ==
  Typed /\ Numbered /\ Own /\ Awaited /\ Noticed /\ Overlaps /\ Listed /\ FoundUnlessOverlapped

-----------------------------------------------------------------------------
(* Numbers for channels do not run out.                                    *)

LEMMA SlotCount == IsFiniteSet(Slot) /\ Cardinality(Slot) = MaxRunners /\ MaxRunners \in Nat
  <1> DEFINE A == Boot \X {0}
             B == Supervised \X (0..MaxRestarts)
  <1>0. IsFiniteSet(Boot) /\ IsFiniteSet(Supervised) /\ MaxRestarts \in Nat
    BY FS_Subset, EngineAssumption DEF Name
  <1>1. IsFiniteSet({0}) /\ Cardinality({0}) = 1
    BY FS_Singleton
  <1>2. IsFiniteSet(0..MaxRestarts) /\ Cardinality(0..MaxRestarts) = MaxRestarts + 1
    BY <1>0, FS_Interval
  <1>3. /\ Cardinality(Boot) \in Nat /\ Cardinality(Supervised) \in Nat
    BY <1>0, FS_CardinalityType
  <1>4. IsFiniteSet(A) /\ Cardinality(A) = Cardinality(Boot) * 1
    BY <1>0, <1>1, FS_Product
  <1>5. IsFiniteSet(B) /\ Cardinality(B) = Cardinality(Supervised) * (MaxRestarts + 1)
    BY <1>0, <1>2, FS_Product
  <1>6. A \cap B = {}
    BY EngineAssumption
  <1> HIDE DEF A, B
  <1>7. IsFiniteSet(A \cup B) /\ Cardinality(A \cup B) = Cardinality(A) + Cardinality(B) - Cardinality({})
    BY <1>4, <1>5, <1>6, FS_Union
  <1>8. Cardinality({}) = 0
    BY FS_EmptySet
  <1>9. Cardinality(A \cup B) = Cardinality(Boot) + (MaxRestarts + 1) * Cardinality(Supervised)
    BY <1>0, <1>3, <1>4, <1>5, <1>7, <1>8
  <1>10. Cardinality(Boot) + (MaxRestarts + 1) * Cardinality(Supervised) \in Nat
    BY <1>0, <1>3
  <1> QED BY <1>7, <1>9, <1>10 DEF Slot, A, B, MaxRunners

\* One more runner takes a place that is free, so there was one.
LEMMA OneMore ==
  ASSUME NEW d \in Nat, NEW f \in [1..d -> Slot], Apart(f), NEW s \in Slot, \A c \in 1..d : f[c] # s
  PROVE  /\ d + 1 \in Channel
         /\ \E g \in [1..d + 1 -> Slot] :
              Apart(g) /\ g[d + 1] = s /\ \A c \in 1..d : g[c] = f[c]
  <1> DEFINE g == [c \in 1..d + 1 |-> IF c = d + 1 THEN s ELSE f[c]]
  <1>1. \A c \in 1..d + 1 : c = d + 1 \/ (c \in 1..d /\ c # d + 1)
    OBVIOUS
  <1>2. g \in [1..d + 1 -> Slot] /\ DOMAIN g = 1..d + 1
    BY <1>1
  <1>3. g[d + 1] = s /\ \A c \in 1..d : g[c] = f[c]
    OBVIOUS
  <1> HIDE DEF g
  <1>4. Apart(g)
    BY <1>1, <1>2, <1>3 DEF Apart
  <1>5. IsFiniteSet(1..d + 1) /\ Cardinality(1..d + 1) = d + 1
    BY FS_Interval
  <1>6. ~(Cardinality(Slot) < Cardinality(1..d + 1))
    BY <1>2, <1>4, <1>5, SlotCount, FS_PigeonHole DEF Apart
  <1>7. d + 1 \in Channel
    BY <1>5, <1>6, SlotCount DEF Channel
  <1> QED BY <1>2, <1>3, <1>4, <1>7

\* A component that has no runner yet.
LEMMA FirstOf ==
  ASSUME Typed, Numbered, NEW n \in Name, \A d \in 1..drawn : name[d] # n
  PROVE  /\ drawn + 1 \in Channel
         /\ drawn' = drawn + 1 /\ name' = [name EXCEPT ![drawn + 1] = n] /\ UNCHANGED restarts => Numbered'
  <1> PICK f \in [1..drawn -> Slot] : Apart(f) /\ Places(f)
    BY DEF Numbered
  <1>0. drawn \in Nat /\ name \in [Channel -> Name] /\ restarts \in [Supervised -> Nat]
    BY DEF Typed
  <1> DEFINE s == <<n, 0>>
  <1>1. s \in Slot
    BY EngineAssumption DEF Slot, Name
  <1>2. \A c \in 1..drawn : f[c] # s
    BY DEF Places
  <1>3. s[1] = n /\ s[2] = 0
    OBVIOUS
  <1> HIDE DEF s
  <1>4. drawn + 1 \in Channel
    BY <1>0, <1>1, <1>2, OneMore
  <1>5. PICK g \in [1..drawn + 1 -> Slot] : Apart(g) /\ g[drawn + 1] = s /\ \A c \in 1..drawn : g[c] = f[c]
    BY <1>0, <1>1, <1>2, OneMore
  <1>6. ASSUME drawn' = drawn + 1, name' = [name EXCEPT ![drawn + 1] = n], UNCHANGED restarts
        PROVE  Numbered'
    <2>1. name'[drawn + 1] = n /\ \A c \in 1..drawn : name'[c] = name[c]
      BY <1>0, <1>4, <1>6 DEF Channel
    <2>2. \A c \in 1..drawn + 1 : c = drawn + 1 \/ c \in 1..drawn
      BY <1>0
    <2>3. n \in Supervised => g[drawn + 1][2] <= restarts[n]
      BY <1>0, <1>3, <1>5
    <2>4. Places(g)'
      BY <1>3, <1>5, <1>6, <2>1, <2>2, <2>3 DEF Places
    <2> QED BY <1>5, <1>6, <2>4 DEF Numbered, Apart
  <1> QED BY <1>4, <1>6

\* A component that is restarted.
LEMMA OneAfter ==
  ASSUME Typed, Numbered, NEW n \in Supervised, restarts[n] < MaxRestarts
  PROVE  /\ drawn + 1 \in Channel
         /\ drawn' = drawn + 1 /\ name' = [name EXCEPT ![drawn + 1] = n]
            /\ restarts' = [restarts EXCEPT ![n] = @ + 1] => Numbered'
  <1> PICK f \in [1..drawn -> Slot] : Apart(f) /\ Places(f)
    BY DEF Numbered
  <1>0. /\ drawn \in Nat /\ name \in [Channel -> Name] /\ restarts \in [Supervised -> Nat]
        /\ MaxRestarts \in Nat
    BY EngineAssumption DEF Typed
  <1> DEFINE s == <<n, restarts[n] + 1>>
  <1>1. s \in Slot
    BY <1>0 DEF Slot
  <1>2. \A c \in 1..drawn : f[c] # s
    BY <1>0 DEF Places
  <1>3. s[1] = n /\ s[2] = restarts[n] + 1
    OBVIOUS
  <1> HIDE DEF s
  <1>4. drawn + 1 \in Channel
    BY <1>0, <1>1, <1>2, OneMore
  <1>5. PICK g \in [1..drawn + 1 -> Slot] : Apart(g) /\ g[drawn + 1] = s /\ \A c \in 1..drawn : g[c] = f[c]
    BY <1>0, <1>1, <1>2, OneMore
  <1>6. ASSUME drawn' = drawn + 1, name' = [name EXCEPT ![drawn + 1] = n],
               restarts' = [restarts EXCEPT ![n] = @ + 1]
        PROVE  Numbered'
    <2>1. name'[drawn + 1] = n /\ \A c \in 1..drawn : name'[c] = name[c]
      BY <1>0, <1>4, <1>6 DEF Channel
    <2>2. \A c \in 1..drawn + 1 : c = drawn + 1 \/ c \in 1..drawn
      BY <1>0
    <2>3. restarts'[n] = restarts[n] + 1 /\ \A m \in Supervised \ {n} : restarts'[m] = restarts[m]
      BY <1>0, <1>6
    <2>4. ASSUME NEW c \in 1..drawn, name[c] \in Supervised PROVE f[c][2] <= restarts'[name[c]]
      <3>1. f[c][2] <= restarts[name[c]] /\ f[c] \in Slot /\ f[c][1] = name[c]
        BY <2>4 DEF Places
      <3>2. f[c] \in Supervised \X (0..MaxRestarts)
        BY <2>4, <3>1, EngineAssumption DEF Slot
      <3>3. f[c][2] \in Nat /\ restarts[name[c]] \in Nat
        BY <1>0, <2>4, <3>2
      <3>4. restarts'[name[c]] = restarts[name[c]] \/ restarts'[name[c]] = restarts[name[c]] + 1
        BY <2>3, <2>4
      <3> QED BY <3>1, <3>3, <3>4
    <2>5. g[drawn + 1][2] <= restarts'[n]
      BY <1>0, <1>3, <1>5, <2>3
    <2>6. Places(g)'
      BY <1>3, <1>5, <1>6, <2>1, <2>2, <2>4, <2>5 DEF Places
    <2> QED BY <1>5, <1>6, <2>6 DEF Numbered, Apart
  <1> QED BY <1>4, <1>6

-----------------------------------------------------------------------------
(* The kinds of step, by what they do to the stages of channels.           *)

Spawning == \E p \in Channel : (\E n \in Supervised : SpawnFirst(p, n)) \/ Restart(p)

Moving(c) ==
  \/ Registered(c) \/ ListHandle(c) \/ ListName(c) \/ Resumes(c) \/ Exit(c) \/ Panic(c)
  \/ SendNotice(c) \/ UnlistHandle(c) \/ UnlistName(c) \/ AbortLands(c)

\* The steps that leave every channel where it is.
Staying ==
  \/ Start \/ Stop \/ BeginShutdown \/ StopManager \/ Unregister
  \/ (\E c \in Channel : Collect(c) \/ TimeOut(c) \/ Forget(c))
  \/ Monitor \/ SendOther \/ UNCHANGED vars

LEMMA NextCases ==
  [Next]_vars => (\E n \in Boot : SpawnBoot(n)) \/ Spawning \/ (\E c \in Channel : Moving(c)) \/ Staying
  BY DEF Next, EngineStep, Wrapper, Supervise, Spawning, Moving, Staying

LEMMA StayingStages == Staying => UNCHANGED <<drawn, name, stage, engineOwn>>
  BY DEF Staying, Start, Stop, BeginShutdown, StopManager, Unregister, Collect, TimeOut, Forget, Monitor,
         MonitorRecv, MonitorUnlistHandle, MonitorUnlistName, SendOther, vars, runners

\* One channel goes on, in the order of its stages.
LEMMA MovingStages ==
  ASSUME Typed, NEW c \in Channel, Moving(c)
  PROVE  /\ UNCHANGED <<drawn, name, engineOwn, tracked, restarts>>
         /\ \A d \in Channel \ {c} : stage'[d] = stage[d]
         /\ stage' \in [Channel -> Stage]
         /\ \/ stage[c] = "registering" /\ stage'[c] \in {"building", "failed"}
            \/ stage[c] = "building" /\ stage'[c] = "listed" /\ ListHandle(c)
            \/ stage[c] = "listed" /\ stage'[c] = "running" /\ ListName(c)
            \/ stage[c] = "spawning" /\ stage'[c] = "running" /\ Resumes(c)
            \/ stage[c] = "running" /\ stage'[c] \in {"returned", "panicked"}
            \/ stage[c] = "running" /\ stage'[c] = "aborted" /\ c \in timedOut
            \/ stage[c] = "returned" /\ stage'[c] = "gone" /\ c \in engineOwn
            \/ stage[c] = "returned" /\ stage'[c] = "noticed" /\ c \notin engineOwn
            \/ stage[c] = "noticed" /\ stage'[c] = "unlisted" /\ UnlistHandle(c)
            \/ stage[c] = "unlisted" /\ stage'[c] = "gone" /\ UnlistName(c)
  <1> USE DEF engine, runners, registry, monitoring, supervision, history
  <1>1. UNCHANGED <<drawn, name, engineOwn, tracked, restarts>>
    BY DEF Moving, Registered, ListHandle, ListName, Resumes, Exit, Panic, SendNotice, UnlistHandle,
           UnlistName, AbortLands
  <1>2. \E from, to \in Stage : Moves(c, from, to)
    BY DEF Moving, Registered, ListHandle, ListName, Resumes, Exit, Panic, SendNotice, UnlistHandle,
           UnlistName, AbortLands, Stage
  <1>3. /\ \A d \in Channel \ {c} : stage'[d] = stage[d]
        /\ stage' \in [Channel -> Stage]
        /\ \A from, to : Moves(c, from, to) => stage[c] = from /\ stage'[c] = to
    BY <1>2 DEF Moves, Typed
  <1>4. Registered(c) => stage[c] = "registering" /\ stage'[c] \in {"building", "failed"}
    BY <1>3 DEF Registered
  <1>5. /\ ListHandle(c) => stage[c] = "building" /\ stage'[c] = "listed"
        /\ ListName(c) => stage[c] = "listed" /\ stage'[c] = "running"
        /\ Resumes(c) => stage[c] = "spawning" /\ stage'[c] = "running"
    BY <1>3 DEF ListHandle, ListName, Resumes
  <1>6. /\ Exit(c) \/ Panic(c) => stage[c] = "running" /\ stage'[c] \in {"returned", "panicked"}
        /\ AbortLands(c) => stage[c] = "running" /\ stage'[c] = "aborted" /\ c \in timedOut
    BY <1>3 DEF Exit, Panic, AbortLands
  <1>7. SendNotice(c) => /\ stage[c] = "returned"
                         /\ c \in engineOwn => stage'[c] = "gone"
                         /\ c \notin engineOwn => stage'[c] = "noticed"
    BY <1>3 DEF SendNotice
  <1>8. /\ UnlistHandle(c) => stage[c] = "noticed" /\ stage'[c] = "unlisted"
        /\ UnlistName(c) => stage[c] = "unlisted" /\ stage'[c] = "gone"
    BY <1>3 DEF UnlistHandle, UnlistName
  <1> QED BY <1>1, <1>3, <1>4, <1>5, <1>6, <1>7, <1>8 DEF Moving

\* A runner is drawn for n, and the one that asked for it waits.
LEMMA SpawningStages ==
  ASSUME Typed, Numbered, Spawning
  PROVE  \E p \in Channel, c \in Channel, n \in Supervised :
           /\ c = drawn + 1 /\ drawn' = c /\ name' = [name EXCEPT ![c] = n]
           /\ stage[c] = "free" /\ stage[p] = "running"
           /\ stage' = [stage EXCEPT ![c] = "registering", ![p] = "spawning"]
           /\ UNCHANGED <<engine, engineOwn, registry, monitoring, history>>
           /\ Numbered' /\ restarts' \in [Supervised -> Nat] /\ tracked' \subseteq Supervised
  <1>0. drawn \in Nat /\ restarts \in [Supervised -> Nat] /\ tracked \subseteq Supervised
    BY DEF Typed
  <1>1. ASSUME NEW p \in Channel, NEW n \in Supervised, SpawnFirst(p, n)
        PROVE  /\ drawn + 1 \in Channel /\ Numbered'
               /\ restarts' \in [Supervised -> Nat] /\ tracked' \subseteq Supervised
    BY <1>0, <1>1, FirstOf DEF SpawnFirst, SpawnRunner, Name
  <1>2. ASSUME NEW p \in Channel, Restart(p)
        PROVE  /\ Head(inbox) \in Supervised /\ drawn + 1 \in Channel /\ Numbered'
               /\ restarts' \in [Supervised -> Nat] /\ tracked' \subseteq Supervised
    <2> DEFINE n == Head(inbox)
    <2>1. /\ n \in Supervised /\ restarts[n] < MaxRestarts
          /\ restarts' = [restarts EXCEPT ![n] = @ + 1] /\ tracked' = tracked
          /\ drawn' = drawn + 1 /\ name' = [name EXCEPT ![drawn + 1] = n]
      BY <1>0, <1>2 DEF Restart, SpawnRunner
    <2> HIDE DEF n
    <2>2. drawn + 1 \in Channel /\ Numbered'
      BY <2>1, OneAfter
    <2>3. restarts' \in [Supervised -> Nat]
      BY <1>0, <2>1
    <2> QED BY <1>0, <2>1, <2>2, <2>3 DEF n
  <1>3. drawn + 1 \in Channel => stage[drawn + 1] = "free"
    BY <1>0 DEF Typed
  <1> QED BY <1>1, <1>2, <1>3 DEF Spawning, SpawnFirst, Restart, SpawnRunner

LEMMA BootStages ==
  ASSUME Typed, Numbered, NEW n \in Boot, SpawnBoot(n)
  PROVE  \E c \in Channel :
           /\ c = drawn + 1 /\ drawn' = c /\ name' = [name EXCEPT ![c] = n]
           /\ stage[c] = "free" /\ stage' = [stage EXCEPT ![c] = "running"]
           /\ \A d \in Channel : stage[d] # "free" => name[d] # n
           /\ engineOwn' = engineOwn \cup {c} /\ handles' = handles \cup {c}
           /\ map' = IF n = Client THEN map ELSE [map EXCEPT ![n] = c]
           /\ phase = "setup" /\ UNCHANGED <<engine, monitoring, supervision, history>>
           /\ Numbered'
  <1>0. drawn \in Nat
    BY DEF Typed
  <1>1. drawn + 1 \in Channel /\ Numbered'
    BY FirstOf DEF SpawnBoot, supervision, Name
  <1>2. stage[drawn + 1] = "free"
    BY <1>0, <1>1 DEF Typed
  <1>3. \A d \in Channel : stage[d] # "free" => d \in 1..drawn
    BY <1>0 DEF Typed, Channel
  <1> QED BY <1>1, <1>2, <1>3 DEF SpawnBoot

-----------------------------------------------------------------------------
(* The conjuncts of the invariant, one by one.                             *)

LEMMA ChannelNumbers == \A c \in Channel : c \in Nat /\ c # Nobody
  BY SlotCount DEF Channel, Nobody

LEMMA NextTyped ==
  ASSUME Typed, Numbered, Own, Noticed, [Next]_vars
  PROVE  Typed' /\ Numbered'
  <1> USE DEF engine, runners, registry, monitoring, supervision, history
  <1>1. ASSUME NEW n \in Boot, SpawnBoot(n) PROVE Typed' /\ Numbered'
    <2> PICK c \in Channel :
          /\ c = drawn + 1 /\ drawn' = c /\ name' = [name EXCEPT ![c] = n]
          /\ stage[c] = "free" /\ stage' = [stage EXCEPT ![c] = "running"]
          /\ map' = IF n = Client THEN map ELSE [map EXCEPT ![n] = c]
          /\ UNCHANGED <<engine, monitoring, supervision, history>>
          /\ Numbered'
      BY <1>1, BootStages
    <2>1. \A d \in Channel : stage'[d] = "free" <=> d > drawn'
      BY ChannelNumbers DEF Typed
    <2>2. drawn' \in Nat /\ name' \in [Channel -> Name] /\ stage' \in [Channel -> Stage]
      BY ChannelNumbers DEF Typed, Name, Stage
    <2>3. map' \in [Name -> Channel \cup {Nobody}]
      BY DEF Typed, Name
    <2> QED BY <2>1, <2>2, <2>3 DEF Typed
  <1>2. CASE Spawning
    <2> PICK p \in Channel, c \in Channel, n \in Supervised :
          /\ c = drawn + 1 /\ drawn' = c /\ name' = [name EXCEPT ![c] = n]
          /\ stage[c] = "free" /\ stage[p] = "running"
          /\ stage' = [stage EXCEPT ![c] = "registering", ![p] = "spawning"]
          /\ UNCHANGED <<engine, engineOwn, registry, monitoring, history>>
          /\ Numbered' /\ restarts' \in [Supervised -> Nat] /\ tracked' \subseteq Supervised
      BY <1>2, SpawningStages
    <2>1. \A d \in Channel : stage'[d] = "free" <=> d > drawn'
      BY ChannelNumbers DEF Typed
    <2>2. drawn' \in Nat /\ name' \in [Channel -> Name] /\ stage' \in [Channel -> Stage]
      BY ChannelNumbers DEF Typed, Name, Stage
    <2> QED BY <2>1, <2>2 DEF Typed
  <1>3. ASSUME NEW c \in Channel, Moving(c) PROVE Typed' /\ Numbered'
    <2>1. /\ UNCHANGED <<drawn, name, tracked, restarts>> /\ stage' \in [Channel -> Stage]
          /\ \A d \in Channel \ {c} : stage'[d] = stage[d]
          /\ stage[c] # "free" /\ stage'[c] # "free"
      BY <1>3, MovingStages
    <2>2. UNCHANGED <<phase, snapshots, monitor, dead>>
      BY <1>3
      DEF Moving, Registered, ListHandle, ListName, Resumes, Exit, Panic, SendNotice, UnlistHandle,
          UnlistName, AbortLands
    <2>3. map' = map \/ map' = [map EXCEPT ![name[c]] = c] \/ map' = [map EXCEPT ![name[c]] = Nobody]
      BY <1>3
      DEF Moving, Registered, ListHandle, ListName, Resumes, Exit, Panic, SendNotice, UnlistHandle,
          UnlistName, AbortLands
    <2>4. notices' = notices \/ notices' = Append(notices, c)
      BY <1>3
      DEF Moving, Registered, ListHandle, ListName, Resumes, Exit, Panic, SendNotice, UnlistHandle,
          UnlistName, AbortLands
    <2>5. map' \in [Name -> Channel \cup {Nobody}]
      BY <2>3 DEF Typed
    <2>6. notices' \in Seq(Channel)
      BY <2>4 DEF Typed
    <2>7. \A d \in Channel : stage'[d] = "free" <=> d > drawn'
      BY <2>1 DEF Typed
    <2> QED BY <2>1, <2>2, <2>5, <2>6, <2>7 DEF Typed, Numbered, Places
  <1>4. CASE Staying
    <2>1. UNCHANGED <<drawn, name, stage>>
      BY <1>4, StayingStages
    <2>2. phase' \in Phase
      BY <1>4
      DEF Staying, Start, Stop, BeginShutdown, StopManager, Unregister, Collect, TimeOut, Forget, Monitor,
          MonitorRecv, MonitorUnlistHandle, MonitorUnlistName, SendOther, vars, Typed, Phase
    <2>3. UNCHANGED restarts /\ tracked' \subseteq tracked
      BY <1>4
      DEF Staying, Start, Stop, BeginShutdown, StopManager, Unregister, Collect, TimeOut, Forget, Monitor,
          MonitorRecv, MonitorUnlistHandle, MonitorUnlistName, SendOther, vars
    <2>4. \/ map' = map \/ map' = Retained(dead)
          \/ map' = [n \in Name |-> IF map[n] \in engineOwn THEN Nobody ELSE map[n]]
      BY <1>4
      DEF Staying, Start, Stop, BeginShutdown, StopManager, Unregister, Collect, TimeOut, Forget, Monitor,
          MonitorRecv, MonitorUnlistHandle, MonitorUnlistName, SendOther, vars
    <2>5. map' \in [Name -> Channel \cup {Nobody}]
      BY <2>4 DEF Retained, Typed
    <2>6. snapshots' = snapshots \/ \E c \in Channel : snapshots' = [snapshots EXCEPT ![name[c]] = c]
      BY <1>4
      DEF Staying, Start, Stop, BeginShutdown, StopManager, Unregister, Collect, TimeOut, Forget, Monitor,
          MonitorRecv, MonitorUnlistHandle, MonitorUnlistName, SendOther, vars
    <2>7. snapshots' \in [Name -> Channel \cup {Nobody}]
      BY <2>6 DEF Typed
    <2>8. \/ MonitorRecv
          \/ UNCHANGED notices /\ (monitor' \in {"handle", "name"} => monitor \in {"handle", "name"} /\ dead' = dead)
      BY <1>4
      DEF Staying, Start, Stop, BeginShutdown, StopManager, Unregister, Collect, TimeOut, Forget, Monitor,
          MonitorUnlistHandle, MonitorUnlistName, SendOther, vars
    <2>9. MonitorRecv => notices' \in Seq(Channel) /\ dead' \in Channel
      BY DEF MonitorRecv, Typed
    <2>10. notices' \in Seq(Channel) /\ (monitor' \in {"handle", "name"} => dead' \in Channel)
      BY <2>8, <2>9 DEF Typed
    <2> QED BY <2>1, <2>2, <2>3, <2>5, <2>7, <2>10 DEF Typed, Numbered, Places
  <1> QED BY <1>1, <1>2, <1>3, <1>4, NextCases

LEMMA NextOwn ==
  ASSUME Typed, Numbered, Own, [Next]_vars
  PROVE  Own'
  <1>1. ASSUME NEW n \in Boot, SpawnBoot(n) PROVE Own'
    <2> PICK c \in Channel :
          /\ name' = [name EXCEPT ![c] = n]
          /\ stage[c] = "free" /\ stage' = [stage EXCEPT ![c] = "running"]
          /\ \A d \in Channel : stage[d] # "free" => name[d] # n
          /\ engineOwn' = engineOwn \cup {c}
      BY <1>1, BootStages
    <2>1. c \notin engineOwn /\ \A d \in engineOwn : name[d] # n
      BY DEF Own
    <2> QED BY <2>1 DEF Own, Typed
  <1>2. CASE Spawning
    <2> PICK p \in Channel, c \in Channel, n \in Supervised :
          /\ name' = [name EXCEPT ![c] = n] /\ stage[c] = "free" /\ stage[p] = "running"
          /\ stage' = [stage EXCEPT ![c] = "registering", ![p] = "spawning"]
          /\ UNCHANGED engineOwn
      BY <1>2, SpawningStages
    <2>1. c \notin engineOwn
      BY DEF Own
    <2> QED BY <2>1 DEF Own, Typed
  <1>3. ASSUME NEW c \in Channel, Moving(c) PROVE Own'
    <2>1. c \in engineOwn => stage'[c] \in {"running", "spawning", "returned", "gone", "panicked", "aborted"}
      BY <1>3, MovingStages DEF Own
    <2> QED BY <1>3, <2>1, MovingStages DEF Own
  <1>4. CASE Staying
    BY <1>4, StayingStages DEF Own
  <1> QED BY <1>1, <1>2, <1>3, <1>4, NextCases

LEMMA NextNoticed ==
  ASSUME Typed, Numbered, Noticed, Own, [Next]_vars
  PROVE  Noticed'
  <1> USE DEF engine, runners, registry, monitoring, supervision, history
  <1>0. \A i \in DOMAIN notices : notices[i] \in Channel
    BY DEF Typed
  <1>1. ASSUME UNCHANGED <<notices, monitor, dead>>,
               \A d \in Channel : stage[d] \in Left => stage'[d] \in Left
        PROVE  Noticed'
    BY <1>0, <1>1 DEF Noticed, Typed
  <1>2. ASSUME NEW n \in Boot, SpawnBoot(n) PROVE Noticed'
    BY <1>1, <1>2, BootStages DEF Left, Typed
  <1>3. CASE Spawning
    <2>1. UNCHANGED <<notices, monitor, dead>> /\ \A d \in Channel : stage[d] \in Left => stage'[d] \in Left
      BY <1>3, SpawningStages DEF Left, Typed
    <2> QED BY <1>1, <2>1
  <1>4. ASSUME NEW c \in Channel, Moving(c) PROVE Noticed'
    <2>1. \A d \in Channel : stage[d] \in Left => stage'[d] \in Left
      BY <1>4, MovingStages DEF Left
    <2>2. CASE SendNotice(c)
      <3>1. UNCHANGED <<monitor, dead>> /\ (notices' = notices \/ notices' = Append(notices, c))
        BY <2>2 DEF SendNotice
      <3>2. stage'[c] \in Left
        BY <2>2 DEF SendNotice, Moves, Left, Typed
      <3>3. \A i \in DOMAIN Append(notices, c) :
              Append(notices, c)[i] = c \/ (i \in DOMAIN notices /\ Append(notices, c)[i] = notices[i])
        BY DEF Typed
      <3>4. \A i \in DOMAIN notices' : notices'[i] = c \/ (i \in DOMAIN notices /\ notices'[i] = notices[i])
        BY <3>1, <3>3
      <3>5. \A i \in DOMAIN notices' : stage'[notices'[i]] \in Left
        BY <1>0, <2>1, <3>2, <3>4 DEF Noticed
      <3> QED BY <2>1, <3>1, <3>5 DEF Noticed, Typed
    <2>3. CASE ~SendNotice(c)
      <3>1. UNCHANGED <<notices, monitor, dead>>
        BY <1>4, <2>3
        DEF Moving, Registered, ListHandle, ListName, Resumes, Exit, Panic, UnlistHandle, UnlistName, AbortLands
      <3> QED BY <1>1, <2>1, <3>1
    <2> QED BY <2>2, <2>3
  <1>5. CASE Staying
    <2>1. UNCHANGED stage
      BY <1>5, StayingStages
    <2>2. CASE MonitorRecv
      <3>1. notices # <<>> /\ dead' = Head(notices) /\ notices' = Tail(notices)
        BY <2>2 DEF MonitorRecv
      <3>2. \A i \in DOMAIN Tail(notices) : i + 1 \in DOMAIN notices /\ Tail(notices)[i] = notices[i + 1]
        BY <3>1 DEF Typed
      <3>3. 1 \in DOMAIN notices /\ Head(notices) = notices[1]
        BY <3>1 DEF Typed
      <3> QED BY <2>1, <3>1, <3>2, <3>3 DEF Noticed
    <2>3. CASE ~MonitorRecv
      <3>1. /\ UNCHANGED notices
            /\ monitor' \in {"handle", "name"} => monitor \in {"handle", "name"} /\ dead' = dead
        BY <1>5, <2>3
        DEF Staying, Start, Stop, BeginShutdown, StopManager, Unregister, Collect, TimeOut, Forget, Monitor,
            MonitorUnlistHandle, MonitorUnlistName, SendOther, vars
      <3> QED BY <2>1, <3>1 DEF Noticed
    <2> QED BY <2>2, <2>3
  <1> QED BY <1>2, <1>3, <1>4, <1>5, NextCases

LEMMA NextAwaited ==
  ASSUME Typed, Numbered, Own, Awaited, [Next]_vars
  PROVE  Awaited'
  <1> USE DEF engine, runners, registry, monitoring, supervision, history
  <1>0. \A c \in engineOwn : c \in Channel /\ c # Nobody /\ name[c] \in Name /\ stage[c] # "free"
    BY ChannelNumbers DEF Own, Typed
  <1>1. ASSUME NEW n \in Boot, SpawnBoot(n) PROVE Awaited'
    <2> PICK c \in Channel :
          /\ name' = [name EXCEPT ![c] = n] /\ engineOwn' = engineOwn \cup {c}
          /\ phase = "setup" /\ UNCHANGED engine
      BY <1>1, BootStages
    <2>1. \A m \in Name : snapshots[m] = Nobody
      BY DEF Awaited, Before
    <2>2. \A d \in engineOwn' : name'[d] \in Name /\ d # Nobody
      BY <1>0, ChannelNumbers DEF Typed, Name
    <2> QED BY <2>1, <2>2 DEF Awaited, Before
  <1>2. ASSUME UNCHANGED <<engine, engineOwn>>,
               \A c \in engineOwn : name'[c] = name[c],
               \A c \in engineOwn : stage[c] \in {"gone", "panicked"} => stage'[c] = stage[c]
        PROVE  Awaited'
    BY <1>2 DEF Awaited
  <1>3. CASE Spawning
    <2> PICK p \in Channel, c \in Channel, n \in Supervised :
          /\ name' = [name EXCEPT ![c] = n] /\ stage[c] = "free" /\ stage[p] = "running"
          /\ stage' = [stage EXCEPT ![c] = "registering", ![p] = "spawning"]
          /\ UNCHANGED <<engine, engineOwn>>
      BY <1>3, SpawningStages
    <2>1. \A d \in engineOwn : d # c
      BY <1>0
    <2>2. \A d \in engineOwn : name'[d] = name[d]
      BY <1>0, <2>1 DEF Typed
    <2>3. \A d \in engineOwn : stage[d] \in {"gone", "panicked"} => stage'[d] = stage[d]
      BY <1>0, <2>1 DEF Typed
    <2> QED BY <1>2, <2>2, <2>3
  <1>4. ASSUME NEW c \in Channel, Moving(c) PROVE Awaited'
    <2>1. UNCHANGED engine
      BY <1>4
      DEF Moving, Registered, ListHandle, ListName, Resumes, Exit, Panic, SendNotice, UnlistHandle,
          UnlistName, AbortLands
    <2>2. UNCHANGED <<name, engineOwn>> /\ stage[c] \notin {"gone", "panicked"}
          /\ \A d \in Channel \ {c} : stage'[d] = stage[d]
      BY <1>4, MovingStages
    <2> QED BY <1>0, <1>2, <2>1, <2>2
  <1>5. ASSUME NEW c \in Channel, Collect(c) PROVE Awaited'
    <2>1. /\ phase = "awaiting" /\ c \in tasks /\ stage[c] \in {"gone", "panicked"}
          /\ tasks' = tasks \ {c} /\ UNCHANGED <<phase, timedOut, name, stage, engineOwn>>
          /\ c \in engineOwn /\ c \notin timedOut
      BY <1>5 DEF Collect, Awaited
    <2>2. \A d \in engineOwn : d # c => name[d] # name[c]
      BY <2>1 DEF Own
    <2>3. /\ \A d \in engineOwn \ {c} : snapshots'[name[d]] = snapshots[name[d]]
          /\ snapshots'[name[c]] = IF stage[c] = "gone" /\ name[c] # Client THEN c ELSE snapshots[name[c]]
      BY <1>0, <1>5, <2>1, <2>2 DEF Collect, Typed
    <2>4. snapshots[name[c]] # c
      BY <2>1 DEF Awaited
    <2>5. \A d \in engineOwn : snapshots'[name[d]] = d => stage[d] = "gone" /\ d \notin tasks' \cup timedOut
      BY <2>1, <2>3, <2>4 DEF Awaited
    <2>6. \A d \in engineOwn \ (tasks' \cup timedOut) :
            /\ stage[d] \in {"gone", "panicked"}
            /\ stage[d] = "gone" /\ name[d] # Client => snapshots'[name[d]] = d
      BY <2>1, <2>3 DEF Awaited, Before
    <2> QED BY <2>1, <2>5, <2>6 DEF Awaited, Before
  <1>6. ASSUME NEW c \in Channel, TimeOut(c) PROVE Awaited'
    <2>1. UNCHANGED <<name, stage, engineOwn>>
      BY <1>6 DEF TimeOut
    <2> QED BY <1>6, <2>1 DEF TimeOut, Awaited, Before
  <1>7. CASE Start \/ Stop
    BY <1>7 DEF Start, Stop, Awaited, Before
  <1>8. CASE BeginShutdown
    BY <1>0, <1>8 DEF BeginShutdown, Drained, Awaited, Before
  <1>9. CASE StopManager \/ Unregister
    BY <1>9 DEF StopManager, Unregister, Awaited, Before
  <1>10. CASE (\E c \in Channel : Forget(c)) \/ Monitor \/ SendOther \/ UNCHANGED vars
    <2>1. UNCHANGED <<engine, engineOwn, name, stage>>
      BY <1>10 DEF Forget, Monitor, MonitorRecv, MonitorUnlistHandle, MonitorUnlistName, SendOther, vars
    <2> QED BY <1>2, <2>1
  <1> QED BY <1>1, <1>3, <1>4, <1>5, <1>6, <1>7, <1>8, <1>9, <1>10, NextCases DEF Staying

LEMMA HistoryGrows == ASSUME [Next]_vars PROVE overlapped \subseteq overlapped' /\ timedOut \subseteq timedOut'
  <1> USE DEF engine, runners, registry, monitoring, supervision, history
  <1>1. ASSUME NEW n \in Boot, SpawnBoot(n) PROVE UNCHANGED <<overlapped, timedOut>>
    BY <1>1 DEF SpawnBoot
  <1>2. Spawning => UNCHANGED <<overlapped, timedOut>>
    BY DEF Spawning, SpawnFirst, Restart, SpawnRunner
  <1>3. ASSUME NEW c \in Channel, Moving(c) PROVE overlapped \subseteq overlapped' /\ UNCHANGED timedOut
    BY <1>3
    DEF Moving, Registered, ListHandle, ListName, Resumes, Exit, Panic, SendNotice, UnlistHandle,
        UnlistName, AbortLands
  <1>4. Staying => overlapped' = overlapped /\ timedOut \subseteq timedOut'
    BY DEF Staying, Start, Stop, BeginShutdown, StopManager, Unregister, Collect, TimeOut, Forget, Monitor,
           MonitorRecv, MonitorUnlistHandle, MonitorUnlistName, SendOther, vars
  <1> QED BY <1>1, <1>2, <1>3, <1>4, NextCases

LEMMA NextOverlaps ==
  ASSUME Typed, Numbered, Overlaps, [Next]_vars
  PROVE  Overlaps'
  <1>0. overlapped \subseteq overlapped'
    BY HistoryGrows
  <1>1. ASSUME NEW n \in Boot, SpawnBoot(n) PROVE Overlaps'
    <2> PICK c \in Channel :
          /\ name' = [name EXCEPT ![c] = n] /\ stage' = [stage EXCEPT ![c] = "running"]
          /\ \A d \in Channel : stage[d] # "free" => name[d] # n
      BY <1>1, BootStages
    <2>1. \A d \in Channel \ {c} : name'[d] = name[d] /\ stage'[d] = stage[d]
      BY DEF Typed
    <2>2. name'[c] = n
      BY DEF Typed
    <2>3. \A d \in Channel \ {c} : stage'[d] \in Entered => name'[d] # n
      BY <2>1 DEF Entered
    <2> QED BY <1>0, <2>1, <2>2, <2>3 DEF Overlaps
  <1>2. CASE Spawning
    <2> PICK p \in Channel, c \in Channel, n \in Supervised :
          /\ name' = [name EXCEPT ![c] = n] /\ stage[c] = "free" /\ stage[p] = "running"
          /\ stage' = [stage EXCEPT ![c] = "registering", ![p] = "spawning"]
      BY <1>2, SpawningStages
    <2>1. stage'[c] \notin Entered
      BY DEF Entered, Typed
    <2>2. \A d \in Channel \ {c} : name'[d] = name[d] /\ (stage'[d] \in Entered => stage[d] \in Entered)
      BY DEF Entered, Typed
    <2> QED BY <1>0, <2>1, <2>2 DEF Overlaps
  <1>3. ASSUME NEW c \in Channel, Moving(c) PROVE Overlaps'
    <2>1. UNCHANGED name /\ \A d \in Channel \ {c} : stage'[d] = stage[d]
      BY <1>3, MovingStages
    <2>2. CASE ListName(c)
      <3>1. \A d \in Channel \ {c} : name[d] = name[c] /\ stage[d] \in Entered =>
              c \in overlapped' /\ d \in overlapped'
        BY <2>2 DEF ListName, Unfinished, Entered
      <3> QED BY <1>0, <2>1, <3>1 DEF Overlaps
    <2>3. CASE ~ListName(c)
      <3>1. stage'[c] \in Entered => stage[c] \in Entered
        BY <1>3, <2>3, MovingStages DEF Entered
      <3> QED BY <1>0, <2>1, <3>1 DEF Overlaps
    <2> QED BY <2>2, <2>3
  <1>4. CASE Staying
    BY <1>0, <1>4, StayingStages DEF Overlaps
  <1> QED BY <1>1, <1>2, <1>3, <1>4, NextCases

\* What a step may take out of the table of handles and out of the map of names.
LEMMA Removed ==
  ASSUME Typed, Numbered, [Next]_vars
  PROVE  /\ \A c \in handles \ handles' :
              \/ \E d \in Channel : UnlistHandle(d) /\ c = d
              \/ MonitorUnlistHandle /\ c = dead
              \/ Unregister /\ c \in engineOwn
         /\ \A n \in Name : map'[n] # map[n] =>
              \/ SpawnBoot(n)
              \/ \E d \in Channel : (ListName(d) \/ UnlistName(d)) /\ n = name[d]
              \/ MonitorUnlistName /\ map[n] = dead
              \/ Unregister /\ map[n] \in engineOwn
  <1> USE DEF engine, runners, registry, monitoring, supervision, history
  <1>1. CASE \E n \in Boot : SpawnBoot(n)
    BY <1>1 DEF SpawnBoot, Typed
  <1>2. CASE Spawning
    BY <1>2 DEF Spawning, SpawnFirst, Restart, SpawnRunner
  <1>3. ASSUME NEW c \in Channel, ListName(c) \/ UnlistName(c) \/ UnlistHandle(c)
        PROVE  /\ handles \ handles' \subseteq {c} /\ (handles' # handles => UnlistHandle(c))
               /\ \A n \in Name : map'[n] # map[n] => n = name[c] /\ (ListName(c) \/ UnlistName(c))
    BY <1>3 DEF ListName, UnlistName, UnlistHandle, Typed
  <1>4. ASSUME NEW c \in Channel,
               Registered(c) \/ ListHandle(c) \/ Resumes(c) \/ Exit(c) \/ Panic(c) \/ SendNotice(c) \/ AbortLands(c)
        PROVE  handles \subseteq handles' /\ map' = map
    BY <1>4 DEF Registered, ListHandle, Resumes, Exit, Panic, SendNotice, AbortLands
  <1>5. CASE MonitorUnlistHandle \/ MonitorUnlistName \/ Unregister
    BY <1>5 DEF MonitorUnlistHandle, MonitorUnlistName, Unregister, Retained
  <1>6. ASSUME Staying PROVE UNCHANGED registry \/ MonitorUnlistHandle \/ MonitorUnlistName \/ Unregister
    BY <1>6
    DEF Staying, Start, Stop, BeginShutdown, StopManager, Collect, TimeOut, Forget, Monitor,
        MonitorRecv, SendOther, vars
  <1> QED BY <1>1, <1>2, <1>3, <1>4, <1>5, <1>6, NextCases DEF Moving

\* The clean-up of a runner finds its stage past the loop, and shutdown unlists
\* what it is done with.
LEMMA RemovedAreDone ==
  ASSUME Typed, Numbered, Own, Awaited, Noticed, [Next]_vars
  PROVE  /\ \A c \in Channel \cap (handles \ handles') :
              stage[c] \in Left \cup {"panicked"} \/ c \in timedOut
         /\ \A c \in Channel : MonitorUnlistName /\ c = dead => stage[c] \in Left
         /\ \A c \in Channel : Unregister /\ c \in engineOwn =>
              stage[c] \in {"gone", "panicked"} \/ c \in timedOut
  <1>1. \A c \in Channel : MonitorUnlistHandle /\ c = dead => stage[c] \in Left
    BY DEF MonitorUnlistHandle, Noticed
  <1>2. \A c \in Channel : MonitorUnlistName /\ c = dead => stage[c] \in Left
    BY DEF MonitorUnlistName, Noticed
  <1>3. \A c \in Channel : Unregister /\ c \in engineOwn =>
          stage[c] \in {"gone", "panicked"} \/ c \in timedOut
    BY DEF Unregister, Awaited, Before
  <1>4. \A c \in Channel : UnlistHandle(c) => stage[c] \in Left
    BY DEF UnlistHandle, Moves, Left
  <1> QED BY <1>1, <1>2, <1>3, <1>4, Removed DEF Left

LEMMA NextListed ==
  ASSUME Typed, Numbered, Own, Awaited, Noticed, Listed, [Next]_vars
  PROVE  Listed'
  <1> SUFFICES ASSUME NEW c \in Channel, stage'[c] = "listed" PROVE c \in handles'
    BY DEF Listed
  <1>1. CASE ListHandle(c)
    BY <1>1 DEF ListHandle
  <1>2. CASE stage[c] = "listed"
    <2>1. c \notin timedOut
      BY <1>2 DEF Own, Awaited
    <2> QED BY <1>2, <2>1, RemovedAreDone DEF Listed, Left
  <1>3. ListHandle(c) \/ stage[c] = "listed"
    <2>1. ASSUME NEW d \in Channel, Moving(d) PROVE ListHandle(c) \/ stage[c] = "listed"
      BY <2>1, MovingStages
    <2>2. Staying => stage[c] = "listed"
      BY StayingStages
    <2>3. Spawning => stage[c] = "listed"
      BY SpawningStages DEF Typed
    <2>4. (\E n \in Boot : SpawnBoot(n)) => stage[c] = "listed"
      BY BootStages DEF Typed
    <2> QED BY <2>1, <2>2, <2>3, <2>4, NextCases
  <1> QED BY <1>1, <1>2, <1>3

\* A runner that is in its loop after a step, and how it came there.
LEMMA AliveBefore ==
  ASSUME Typed, Numbered, [Next]_vars, NEW c \in Channel, Alive(c)'
  PROVE  \/ Alive(c) /\ name'[c] = name[c]
         \/ ListName(c) /\ name'[c] = name[c] /\ stage[c] = "listed"
         \/ SpawnBoot(name'[c]) /\ name'[c] \in Boot /\ c \in handles'
            /\ (name'[c] # Client => map'[name'[c]] = c)
  <1>1. ASSUME NEW n \in Boot, SpawnBoot(n)
        PROVE  \/ Alive(c) /\ name'[c] = name[c]
               \/ name'[c] = n /\ c \in handles' /\ (n # Client => map'[n] = c)
    <2> PICK d \in Channel :
          /\ name' = [name EXCEPT ![d] = n] /\ stage' = [stage EXCEPT ![d] = "running"]
          /\ handles' = handles \cup {d} /\ map' = IF n = Client THEN map ELSE [map EXCEPT ![n] = d]
      BY <1>1, BootStages
    <2> QED BY DEF Alive, Typed, Name
  <1>2. ASSUME Spawning PROVE Alive(c) /\ name'[c] = name[c]
    <2> PICK p \in Channel, d \in Channel, n \in Supervised :
          /\ name' = [name EXCEPT ![d] = n] /\ stage[d] = "free" /\ stage[p] = "running"
          /\ stage' = [stage EXCEPT ![d] = "registering", ![p] = "spawning"]
      BY <1>2, SpawningStages
    <2> QED BY DEF Alive, Typed
  <1>3. ASSUME NEW d \in Channel, Moving(d)
        PROVE  name'[c] = name[c] /\ (Alive(c) \/ (ListName(c) /\ stage[c] = "listed"))
    BY <1>3, MovingStages DEF Alive
  <1>4. Staying => Alive(c) /\ name'[c] = name[c]
    BY StayingStages DEF Alive
  <1> QED BY <1>1, <1>2, <1>3, <1>4, NextCases

LEMMA NextFound ==
  ASSUME Typed, Numbered, Own, Awaited, Noticed, Overlaps, Listed, FoundUnlessOverlapped, [Next]_vars
  PROVE  FoundUnlessOverlapped'
  <1> SUFFICES ASSUME NEW c \in Channel, Alive(c)', name'[c] # Client, c \notin overlapped', c \notin timedOut'
               PROVE  Found(c)'
    BY DEF FoundUnlessOverlapped
  <1>0. c \notin overlapped /\ c \notin timedOut
    BY HistoryGrows
  <1>1. CASE ListName(c) /\ name'[c] = name[c] /\ stage[c] = "listed"
    <2>1. c \in handles /\ map'[name[c]] = c /\ handles' = handles
      BY <1>1 DEF ListName, Listed, Typed
    <2> QED BY <1>1, <2>1 DEF Found
  <1>2. CASE Alive(c) /\ name'[c] = name[c]
    <2>1. c \in handles /\ map[name[c]] = c /\ name[c] \in Name /\ stage[c] \in {"running", "spawning"}
      BY <1>0, <1>2 DEF FoundUnlessOverlapped, Found, Alive, Typed
    <2>2. c \in handles'
      BY <1>0, <2>1, RemovedAreDone DEF Left
    <2>3. ~SpawnBoot(name[c])
      <3>1. name[c] \in Boot /\ SpawnBoot(name[c]) => \A d \in Channel : stage[d] # "free" => name[d] # name[c]
        BY BootStages
      <3>2. SpawnBoot(name[c]) => name[c] \in Boot
        BY DEF SpawnBoot
      <3> QED BY <2>1, <3>1, <3>2
    <2>4. ASSUME NEW d \in Channel, ListName(d), name[c] = name[d] PROVE map'[name[c]] = c
      <3>1. c # d
        BY <2>1, <2>4 DEF ListName, Moves
      <3>2. c \in overlapped'
        BY <2>1, <2>4, <3>1 DEF ListName, Unfinished
      <3> QED BY <3>2
    <2>5. ASSUME NEW d \in Channel, UnlistName(d) PROVE name[c] # name[d]
      <3>1. stage[d] = "unlisted" /\ c # d
        BY <2>1, <2>5 DEF UnlistName, Moves
      <3> QED BY <1>0, <2>1, <3>1 DEF Overlaps, Entered
    <2>6. ~(MonitorUnlistName /\ map[name[c]] = dead)
      BY <2>1, RemovedAreDone DEF Left
    <2>7. ~(Unregister /\ map[name[c]] \in engineOwn)
      BY <1>0, <2>1, RemovedAreDone
    <2>8. map'[name[c]] = c
      BY <2>1, <2>3, <2>4, <2>5, <2>6, <2>7, Removed
    <2> QED BY <1>2, <2>2, <2>8 DEF Found
  <1>3. CASE c \in handles' /\ (name'[c] # Client => map'[name'[c]] = c)
    BY <1>3 DEF Found
  <1> QED BY <1>1, <1>2, <1>3, AliveBefore

-----------------------------------------------------------------------------
(* The theorems.                                                           *)

LEMMA InitInv == Init => Inv
  <1> SUFFICES ASSUME Init PROVE Inv
    OBVIOUS
  <1>1. Client \in Name /\ <<>> \in Seq(Channel) /\ MaxRestarts \in Nat
    BY EngineAssumption DEF Name
  <1>2. Typed
    BY <1>1, ChannelNumbers DEF Init, Typed, Phase, Stage
  <1>3. Numbered
    <2>1. <<>> \in [1..0 -> Slot] /\ Apart(<<>>) /\ Places(<<>>)
      BY DEF Apart, Places
    <2> QED BY <2>1 DEF Init, Numbered
  <1>4. Own /\ Awaited /\ Noticed
    BY DEF Init, Own, Awaited, Noticed, Before
  <1>5. Overlaps /\ Listed /\ FoundUnlessOverlapped
    BY DEF Init, Overlaps, Listed, FoundUnlessOverlapped, Entered, Alive
  <1> QED BY <1>2, <1>3, <1>4, <1>5 DEF Inv

LEMMA NextInv == Inv /\ [Next]_vars => Inv'
  <1> SUFFICES ASSUME Inv, [Next]_vars PROVE Inv'
    OBVIOUS
  <1> USE DEF Inv
  <1>1. Typed' /\ Numbered'
    BY NextTyped
  <1>2. Own' /\ Awaited' /\ Noticed'
    BY NextOwn, NextAwaited, NextNoticed
  <1>3. Overlaps' /\ Listed' /\ FoundUnlessOverlapped'
    BY NextOverlaps, NextListed, NextFound
  <1> QED BY <1>1, <1>2, <1>3

LEMMA SpecInv == Spec => []Inv
  BY InitInv, NextInv, PTL DEF Spec

\* A component is found under its name, in both registries, for as long as its runner
\* is in the loop: neither the clean-up of an earlier runner, nor a late notice,
\* nor a shutdown takes its entries, unless the wrappers of the two overlapped.
THEOREM SpecFoundUnlessOverlapped == Spec => []FoundUnlessOverlapped
  <1>1. Inv => FoundUnlessOverlapped
    BY DEF Inv
  <1> QED BY <1>1, SpecInv, PTL

\* When the engine has shut down it holds the snapshot of every runner of its own that
\* ended in time, however the ends, the time-outs and the panics were ordered.
THEOREM SpecSnapshotsKept == Spec => []SnapshotsKept
  <1>1. Inv => SnapshotsKept
    BY DEF Inv, Awaited, SnapshotsKept, Before
  <1> QED BY <1>1, SpecInv, PTL

\* Every runner has a number of the model: there are never more than one of each
\* component and MaxRestarts more of each supervised one.
THEOREM SpecRunnersBounded == Spec => [](drawn <= MaxRunners)
  <1>1. Inv => drawn <= MaxRunners
    <2> SUFFICES ASSUME Typed, Numbered PROVE drawn <= MaxRunners
      BY DEF Inv
    <2> PICK f \in [1..drawn -> Slot] : Apart(f)
      BY DEF Numbered
    <2>1. IsFiniteSet(1..drawn) /\ Cardinality(1..drawn) = drawn
      BY FS_Interval DEF Typed
    <2>2. ~(Cardinality(Slot) < Cardinality(1..drawn))
      BY <2>1, SlotCount, FS_PigeonHole DEF Apart
    <2> QED BY <2>1, <2>2, SlotCount DEF Typed
  <1> QED BY <1>1, SpecInv, PTL
-----------------------------------------------------------------------------
(* The exits the supervisor has still to hear of.                          *)

\* While the engine has not begun to shut down, the supervisor is there and can
\* be reached.
Attended ==
  /\ inbox \in Seq(Name) /\ Len(inbox) <= InboxMax
  /\ phase = "setup" => monitor = "off"
  /\ phase # "setup" => \E p \in engineOwn : name[p] = Supervisor
  /\ phase \in Before => \A p \in engineOwn : Alive(p) => p \in handles

Within(s, x) == \E i \in DOMAIN s : s[i] = x
Manned == \A p \in engineOwn : name[p] = Supervisor => Alive(p)

\* The newest runner of a tracked component that has ended is on its way to the
\* supervisor, as a notice to the monitor or as an event in the inbox, unless
\* the supervisor ended, an event was dropped or the engine shuts down.
ExitsKept ==
  phase \in Before /\ ~missed /\ Manned =>
    \A c \in Channel :
      /\ stage[c] \in Left /\ name[c] \in tracked
      /\ \A d \in 1..drawn : d > c => name[d] # name[c]
      => Within(notices, c) \/ Within(inbox, name[c])

LEMMA AppendWithin ==
  ASSUME NEW E, NEW s \in Seq(E), NEW e \in E
  PROVE  Within(Append(s, e), e) /\ \A x : Within(s, x) => Within(Append(s, e), x)
  <1>1. /\ DOMAIN Append(s, e) = 1..Len(s) + 1 /\ DOMAIN s = 1..Len(s) /\ Len(s) \in Nat
        /\ Append(s, e)[Len(s) + 1] = e /\ \A i \in 1..Len(s) : Append(s, e)[i] = s[i]
    OBVIOUS
  <1>2. Len(s) + 1 \in 1..Len(s) + 1 /\ 1..Len(s) \subseteq 1..Len(s) + 1
    BY <1>1
  <1> QED BY <1>1, <1>2 DEF Within

LEMMA TailWithin ==
  ASSUME NEW E, NEW s \in Seq(E), s # <<>>, NEW x, Within(s, x), x # Head(s)
  PROVE  Within(Tail(s), x)
  <1>1. PICK i \in DOMAIN s : s[i] = x
    BY DEF Within
  <1>2. /\ DOMAIN s = 1..Len(s) /\ Len(s) \in Nat /\ Head(s) = s[1]
        /\ DOMAIN Tail(s) = 1..Len(s) - 1 /\ \A j \in 1..Len(s) - 1 : Tail(s)[j] = s[j + 1]
    OBVIOUS
  <1>3. i - 1 \in 1..Len(s) - 1 /\ (i - 1) + 1 = i
    BY <1>1, <1>2
  <1> QED BY <1>1, <1>2, <1>3 DEF Within

LEMMA NextAttended ==
  ASSUME Inv, Attended, [Next]_vars
  PROVE  Attended'
  <1> USE DEF engine, runners, registry, monitoring, supervision, history, Inv
  <1>0. /\ InboxMax \in Nat /\ Supervisor \in Boot /\ Client \in Name /\ Supervisor # Client
        /\ Len(inbox) \in Nat
    BY EngineAssumption DEF Name, Attended
  <1>1. inbox' \in Seq(Name) /\ Len(inbox') <= InboxMax
    <2>1. UNCHANGED inbox \/ (inbox # <<>> /\ inbox' = Tail(inbox))
            \/ (Len(inbox) < InboxMax /\ \E n \in Name : inbox' = Append(inbox, n))
      <3>1. CASE MonitorRecv
        <4>1. Head(notices) \in Channel /\ name \in [Channel -> Name]
          BY <3>1 DEF MonitorRecv, Typed
        <4> QED BY <3>1, <4>1 DEF MonitorRecv, Broadcast
      <3>2. CASE SendOther
        BY <3>2, <1>0 DEF SendOther
      <3>3. ASSUME NEW p \in Channel, Restart(p) \/ Forget(p)
            PROVE  inbox # <<>> /\ inbox' = Tail(inbox)
        BY <3>3 DEF Restart, Forget
      <3>4. ASSUME NEW n \in Boot, SpawnBoot(n) PROVE UNCHANGED inbox
        BY <3>4 DEF SpawnBoot
      <3>5. ASSUME NEW c \in Channel, Moving(c) PROVE UNCHANGED inbox
        BY <3>5 DEF Moving, Registered, ListHandle, ListName, Resumes, Exit, Panic, SendNotice,
                    UnlistHandle, UnlistName, AbortLands
      <3>6. ASSUME NEW c \in Channel, NEW n \in Supervised, SpawnFirst(c, n) PROVE UNCHANGED inbox
        BY <3>6 DEF SpawnFirst
      <3>7. ASSUME Staying, ~MonitorRecv, ~SendOther, \A p \in Channel : ~Forget(p)
            PROVE  UNCHANGED inbox
        BY <3>7 DEF Staying, Start, Stop, BeginShutdown, StopManager, Unregister, Collect, TimeOut,
                    Monitor, MonitorUnlistHandle, MonitorUnlistName, vars
      <3> QED BY <3>1, <3>2, <3>3, <3>4, <3>5, <3>6, <3>7, NextCases DEF Spawning
    <2> QED BY <2>1, <1>0 DEF Attended
  <1>2. /\ \A p \in engineOwn : p \in engineOwn' /\ name'[p] = name[p]
        /\ phase' = "setup" => phase = "setup" /\ monitor' = monitor
        /\ phase' \in Before => phase \in Before
        /\ phase = "setup" /\ phase' # "setup" => Start
    <2>1. ASSUME NEW n \in Boot, SpawnBoot(n) PROVE <1>2!1 /\ UNCHANGED <<phase, monitor>>
      <3> PICK c \in Channel :
            /\ name' = [name EXCEPT ![c] = n] /\ stage[c] = "free"
            /\ engineOwn' = engineOwn \cup {c} /\ UNCHANGED <<engine, monitoring>>
        BY <2>1, BootStages
      <3> QED BY DEF Own, Typed
    <2>2. CASE Spawning
      <3> PICK c \in Channel, n \in Supervised :
            /\ name' = [name EXCEPT ![c] = n] /\ stage[c] = "free"
            /\ UNCHANGED <<engine, engineOwn, monitoring>>
        BY <2>2, SpawningStages
      <3> QED BY DEF Own, Typed
    <2>3. ASSUME NEW c \in Channel, Moving(c) PROVE <1>2!1 /\ UNCHANGED <<phase, monitor>>
      <3>1. UNCHANGED <<phase, monitor>>
        BY <2>3 DEF Moving, Registered, ListHandle, ListName, Resumes, Exit, Panic, SendNotice,
                    UnlistHandle, UnlistName, AbortLands
      <3> QED BY <2>3, <3>1, MovingStages
    <2>4. CASE Staying
      <3>1. <1>2!1
        BY <2>4, StayingStages
      <3>2. /\ phase' = "setup" => phase = "setup" /\ monitor' = monitor
            /\ phase' \in Before => phase \in Before
            /\ phase = "setup" /\ phase' # "setup" => Start
        BY <2>4 DEF Staying, Start, Stop, BeginShutdown, StopManager, Unregister, Collect, TimeOut,
                    Forget, Monitor, MonitorRecv, MonitorUnlistHandle, MonitorUnlistName, SendOther,
                    vars, Before, Attended
      <3> QED BY <3>1, <3>2
    <2> QED BY <2>1, <2>2, <2>3, <2>4, NextCases
  <1>3. phase' # "setup" => \E p \in engineOwn' : name'[p] = Supervisor
    <2>1. Start => \E p \in engineOwn : name[p] = Supervisor
      BY <1>0 DEF Start
    <2> QED BY <1>2, <2>1 DEF Attended
  <1>4. ASSUME phase' \in Before, NEW p \in engineOwn', Alive(p)' PROVE p \in handles'
    <2>1. p \in Channel
      <3>1. Own'
        BY NextOwn
      <3> QED BY <3>1 DEF Own
    <2>2. CASE p \in engineOwn
      <3>1. Alive(p) \/ p \in handles'
        BY <1>4, <2>1, <2>2, AliveBefore DEF Own
      <3>2. phase \in Before /\ timedOut = {}
        BY <1>2, <1>4 DEF Awaited
      <3>3. Alive(p) => p \in handles /\ stage[p] \notin Left \cup {"panicked"}
        BY <2>2, <3>2 DEF Attended, Alive, Left
      <3> QED BY <2>1, <3>1, <3>2, <3>3, RemovedAreDone
    <2>3. CASE p \notin engineOwn
      <3>1. \E n \in Boot : SpawnBoot(n)
        <4>1. Spawning => UNCHANGED engineOwn
          BY SpawningStages
        <4>2. ASSUME NEW c \in Channel, Moving(c) PROVE UNCHANGED engineOwn
          BY <4>2, MovingStages
        <4> QED BY <2>3, <4>1, <4>2, StayingStages, NextCases
      <3>2. PICK n \in Boot : SpawnBoot(n)
        BY <3>1
      <3> QED BY <2>3, <3>2, BootStages
    <2> QED BY <2>2, <2>3
  <1>5. phase' = "setup" => monitor' = "off"
    BY <1>2 DEF Attended
  <1> QED BY <1>1, <1>3, <1>4, <1>5 DEF Attended

\* Who excuses the supervisor before a step excuses it after the step.
LEMMA ExcusesStay ==
  ASSUME Inv, [Next]_vars, phase' \in Before, ~missed', Manned'
  PROVE  phase \in Before /\ ~missed /\ Manned
  <1> USE DEF engine, runners, registry, monitoring, supervision, history, Inv
  <1>1. phase \in Before /\ ~missed
    <2>1. ASSUME NEW n \in Boot, SpawnBoot(n) PROVE UNCHANGED <<phase, missed>>
      BY <2>1 DEF SpawnBoot
    <2>2. Spawning => UNCHANGED <<phase, missed>>
      BY DEF Spawning, SpawnFirst, Restart, SpawnRunner
    <2>3. ASSUME NEW c \in Channel, Moving(c) PROVE UNCHANGED <<phase, missed>>
      BY <2>3 DEF Moving, Registered, ListHandle, ListName, Resumes, Exit, Panic, SendNotice,
                  UnlistHandle, UnlistName, AbortLands
    <2>4. MonitorRecv => phase' = phase /\ (missed => missed')
      BY Zenon DEF MonitorRecv, Broadcast
    <2>5. Staying /\ ~MonitorRecv => phase \in Before /\ UNCHANGED missed
      BY DEF Staying, Start, Stop, BeginShutdown, StopManager, Unregister, Collect, TimeOut, Forget,
             Monitor, MonitorUnlistHandle, MonitorUnlistName, SendOther, vars, Before
    <2> QED BY <2>1, <2>2, <2>3, <2>4, <2>5, NextCases
  <1>2. ASSUME NEW p \in engineOwn, name[p] = Supervisor PROVE Alive(p)
    <2>1. p \in Channel /\ stage[p] \notin {"free", "listed"} /\ p \notin timedOut
      BY <1>1 DEF Own, Awaited
    <2>2. p \in engineOwn' /\ name'[p] = name[p]
      <3>1. ASSUME NEW n \in Boot, SpawnBoot(n) PROVE p \in engineOwn' /\ name'[p] = name[p]
        <4> PICK c \in Channel :
              name' = [name EXCEPT ![c] = n] /\ stage[c] = "free" /\ engineOwn' = engineOwn \cup {c}
          BY <3>1, BootStages
        <4> QED BY <2>1 DEF Typed
      <3>2. CASE Spawning
        <4> PICK c \in Channel, n \in Supervised :
              name' = [name EXCEPT ![c] = n] /\ stage[c] = "free" /\ UNCHANGED engineOwn
          BY <3>2, SpawningStages
        <4> QED BY <2>1 DEF Typed
      <3>3. ASSUME NEW c \in Channel, Moving(c) PROVE p \in engineOwn' /\ name'[p] = name[p]
        BY <3>3, MovingStages
      <3> QED BY <3>1, <3>2, <3>3, StayingStages, NextCases
    <2>3. Alive(p)'
      BY <1>2, <2>2 DEF Manned
    <2>4. name[p] \in Boot => ~SpawnBoot(name[p])
      BY <2>1, BootStages
    <2> QED BY <2>1, <2>2, <2>3, <2>4, AliveBefore
  <1> QED BY <1>1, <1>2 DEF Manned

LEMMA NextExits ==
  ASSUME Inv, Attended, ExitsKept, [Next]_vars
  PROVE  ExitsKept'
  <1> USE DEF engine, runners, registry, monitoring, supervision, history, Inv
  <1> SUFFICES ASSUME phase' \in Before, ~missed', Manned', NEW c \in Channel,
                      stage'[c] \in Left, name'[c] \in tracked',
                      \A d \in 1..drawn' : d > c => name'[d] # name'[c]
               PROVE  Within(notices', c) \/ Within(inbox', name'[c])
    BY DEF ExitsKept
  <1>0. phase \in Before /\ ~missed /\ Manned
    BY ExcusesStay
  <1>1. /\ notices \in Seq(Channel) /\ inbox \in Seq(Name) /\ name \in [Channel -> Name]
        /\ drawn \in Nat /\ c \in Nat /\ Client \in Name
    BY ChannelNumbers, EngineAssumption DEF Typed, Attended, Name
  <1>2. ASSUME name'[c] = name[c], stage[c] \in Left, name[c] \in tracked,
               \A d \in 1..drawn : d > c => name[d] # name[c]
        PROVE  Within(notices, c) \/ Within(inbox, name[c])
    BY <1>0, <1>2 DEF ExitsKept
  <1>3. ASSUME NEW n \in Boot, SpawnBoot(n) PROVE Within(notices', c) \/ Within(inbox', name'[c])
    <2> PICK b \in Channel :
          /\ b = drawn + 1 /\ drawn' = b /\ name' = [name EXCEPT ![b] = n]
          /\ stage' = [stage EXCEPT ![b] = "running"] /\ UNCHANGED <<monitoring, supervision>>
      BY <1>3, BootStages
    <2>1. c # b /\ stage[c] \in Left /\ name'[c] = name[c]
      BY <1>1 DEF Typed, Left
    <2>2. ASSUME NEW d \in 1..drawn, d > c PROVE name[d] # name[c]
      <3>1. d \in 1..drawn' /\ d # b
        BY <1>1
      <3> QED BY <1>1, <2>1, <2>2, <3>1
    <2> QED BY <1>2, <2>1, <2>2
  <1>4. CASE Spawning
    <2>1. PICK p \in Channel, b \in Channel, n \in Supervised :
            /\ b = drawn + 1 /\ drawn' = b /\ name' = [name EXCEPT ![b] = n]
            /\ stage[b] = "free" /\ stage[p] = "running"
            /\ stage' = [stage EXCEPT ![b] = "registering", ![p] = "spawning"]
            /\ UNCHANGED <<monitoring, history>>
      BY <1>4, SpawningStages
    <2>2. c # b /\ c # p /\ stage[c] \in Left /\ name'[c] = name[c] /\ name'[b] = n
      BY <1>1, <2>1 DEF Typed, Left
    <2>3. c \in 1..drawn
      BY <1>1, <2>2, SlotCount DEF Typed, Left, Channel
    <2>4. name[c] # n
      BY <1>1, <2>1, <2>2, <2>3
    <2>5. ASSUME NEW d \in 1..drawn, d > c PROVE name[d] # name[c]
      <3>1. d \in 1..drawn' /\ d # b
        BY <1>1, <2>1
      <3> QED BY <1>1, <2>1, <2>2, <2>5, <3>1
    <2>6. ASSUME NEW q \in Channel, NEW m \in Supervised, SpawnFirst(q, m)
          PROVE  inbox' = inbox /\ name[c] \in tracked
      <3>1. /\ inbox' = inbox /\ tracked' = tracked \cup {m} /\ drawn' = drawn + 1
            /\ name' = [name EXCEPT ![drawn + 1] = m]
        BY <2>6 DEF SpawnFirst, SpawnRunner
      <3>2. m = n
        BY <1>1, <2>1, <3>1
      <3> QED BY <2>2, <2>4, <3>1, <3>2
    <2>7. ASSUME NEW q \in Channel, Restart(q)
          PROVE  inbox # <<>> /\ inbox' = Tail(inbox) /\ Head(inbox) = n /\ name[c] \in tracked
      <3>1. /\ inbox # <<>> /\ inbox' = Tail(inbox) /\ tracked' = tracked
            /\ name' = [name EXCEPT ![drawn + 1] = Head(inbox)]
        BY <2>7 DEF Restart, SpawnRunner
      <3> QED BY <1>1, <2>1, <2>2, <3>1
    <2>8. name[c] \in tracked
      BY <1>4, <2>6, <2>7 DEF Spawning
    <2>9. Within(notices, c) \/ Within(inbox, name[c])
      BY <1>2, <2>2, <2>5, <2>8
    <2>10. CASE inbox' = inbox
      BY <2>1, <2>2, <2>9, <2>10
    <2>11. CASE inbox # <<>> /\ inbox' = Tail(inbox) /\ Head(inbox) = n
      BY <1>1, <2>1, <2>2, <2>4, <2>9, <2>11, TailWithin
    <2> QED BY <1>4, <2>6, <2>7, <2>10, <2>11 DEF Spawning
  <1>5. ASSUME NEW d \in Channel, Moving(d) PROVE Within(notices', c) \/ Within(inbox', name'[c])
    <2>1. UNCHANGED <<drawn, name, tracked>>
      BY <1>5, MovingStages
    <2>2. UNCHANGED inbox /\ (notices' = notices \/ notices' = Append(notices, d))
      BY <1>5 DEF Moving, Registered, ListHandle, ListName, Resumes, Exit, Panic, SendNotice,
                  UnlistHandle, UnlistName, AbortLands
    <2>3. CASE stage[c] \in Left
      <3>1. Within(notices, c) \/ Within(inbox, name[c])
        BY <1>2, <2>1, <2>3
      <3>2. Within(notices, c) => Within(Append(notices, d), c)
        BY <1>1, AppendWithin
      <3> QED BY <2>1, <2>2, <3>1, <3>2
    <2>4. CASE stage[c] \notin Left
      <3>1. d = c /\ stage[c] = "returned"
        BY <1>5, <2>4, MovingStages DEF Left
      <3>2. SendNotice(c)
        BY <1>5, <3>1 DEF Moving, Registered, ListHandle, ListName, Resumes, Exit, Panic, Moves,
                          UnlistHandle, UnlistName, AbortLands
      <3>3. name[c] # Client /\ ReceiverAlive
        BY <1>0, <2>1, EngineAssumption DEF Typed, ReceiverAlive, Before
      <3>4. notices' = Append(notices, c)
        BY <3>2, <3>3 DEF SendNotice
      <3> QED BY <1>1, <3>4, AppendWithin
    <2> QED BY <2>3, <2>4
  <1>6. CASE Staying
    <2>1. UNCHANGED <<drawn, name, stage, engineOwn>>
      BY <1>6, StayingStages
    <2>2. name[c] \in tracked => Within(notices, c) \/ Within(inbox, name[c])
      BY <1>2, <2>1
    <2>3. CASE MonitorRecv
      <3>1. /\ monitor = "idle" /\ notices # <<>> /\ dead' = Head(notices) /\ notices' = Tail(notices)
            /\ Broadcast(name[dead']) /\ tracked' = tracked
        BY <2>3 DEF MonitorRecv
      <3>2. Supervisors # {}
        <4>1. PICK p \in engineOwn : name[p] = Supervisor
          BY <3>1 DEF Attended
        <4>2. Alive(p) /\ p \in handles
          BY <1>0, <4>1 DEF Manned, Attended
        <4> QED BY <4>1, <4>2 DEF Supervisors
      <3>3. name[Head(notices)] \in Name
        <4>1. Head(notices) \in Channel
          BY <1>1, <3>1
        <4> QED BY <1>1, <4>1
      <3>4. Len(inbox) < InboxMax
        <4>1. Len(inbox) # InboxMax
          BY <3>1 DEF Broadcast
        <4>2. Len(inbox) \in Nat /\ InboxMax \in Nat /\ Len(inbox) <= InboxMax
          BY <1>1, EngineAssumption DEF Attended
        <4> QED BY <4>1, <4>2
      <3>5. inbox' = Append(inbox, name[Head(notices)])
        BY <3>1, <3>2, <3>4 DEF Broadcast
      <3>6. CASE c = Head(notices)
        BY <1>1, <2>1, <3>3, <3>5, <3>6, AppendWithin
      <3>7. CASE c # Head(notices)
        <4>1. Within(notices, c) => Within(notices', c)
          BY <1>1, <3>1, <3>7, TailWithin
        <4>2. Within(inbox, name[c]) => Within(inbox', name[c])
          BY <1>1, <3>3, <3>5, AppendWithin
        <4> QED BY <2>1, <2>2, <3>1, <4>1, <4>2
      <3> QED BY <3>6, <3>7
    <2>4. ASSUME NEW p \in Channel, Forget(p) PROVE Within(notices', c) \/ Within(inbox', name'[c])
      <3>1. /\ inbox # <<>> /\ inbox' = Tail(inbox) /\ tracked' = tracked \ {Head(inbox)}
            /\ UNCHANGED notices
        BY <2>4 DEF Forget
      <3> QED BY <1>1, <2>1, <2>2, <3>1, TailWithin
    <2>5. CASE SendOther
      <3>1. inbox' = Append(inbox, Client) /\ UNCHANGED <<notices, tracked>>
        BY <2>5 DEF SendOther
      <3> QED BY <1>1, <2>1, <2>2, <3>1, AppendWithin
    <2>6. ASSUME ~MonitorRecv, ~SendOther, \A p \in Channel : ~Forget(p)
          PROVE  UNCHANGED <<inbox, notices, tracked>>
      BY <1>6, <2>6 DEF Staying, Start, Stop, BeginShutdown, StopManager, Unregister, Collect, TimeOut,
                        Monitor, MonitorUnlistHandle, MonitorUnlistName, vars
    <2> QED BY <2>1, <2>2, <2>3, <2>4, <2>5, <2>6
  <1> QED BY <1>3, <1>4, <1>5, <1>6, NextCases

\* The half of Restarted that needs no fairness: for any components, restarts
\* and inbox, a component that has ended and was not replaced is announced to
\* the supervisor by a notice or an event still to be taken, through exits in
\* any order, late clean-ups and other events (engine.rs, agent_mgr.lua).
THEOREM SpecExitsKept == Spec => []ExitsKept
  <1>1. Init => Inv /\ Attended /\ ExitsKept
    <2>1. ASSUME Init PROVE Attended /\ ExitsKept
      <3>1. <<>> \in Seq(Name) /\ Len(<<>>) = 0 /\ InboxMax \in Nat
        BY EngineAssumption
      <3>2. Attended
        BY <2>1, <3>1 DEF Init, Attended
      <3>3. ExitsKept
        BY <2>1 DEF Init, ExitsKept, Left
      <3> QED BY <3>2, <3>3
    <2> QED BY <2>1, InitInv
  <1>2. Inv /\ Attended /\ ExitsKept /\ [Next]_vars => (Inv /\ Attended /\ ExitsKept)'
    BY NextInv, NextAttended, NextExits
  <1> QED BY <1>1, <1>2, PTL DEF Spec
=============================================================================
