------------------------------- MODULE World -------------------------------
(***************************************************************************)
(* The channel tree of orcs-runtime (channel/world.rs, channel/channel.rs, *)
(* channel/config.rs).  A World owns every channel: create_channel makes a *)
(* root, spawn hangs a child under a live parent, kill removes a channel   *)
(* with its subtree, complete and the five state transitions move a        *)
(* channel through its lifecycle.  Each command is a single step: the      *)
(* WorldManager applies it under the write lock (see WorldManager.tla).    *)
(*                                                                         *)
(* The operators named ...Of are the commands as functions from one tree   *)
(* to the next, so that WorldManager and ChannelRunner use the same text.  *)
(***************************************************************************)
EXTENDS Naturals, Sequences, Functions

CONSTANTS
  ChannelId,    \* identifiers; ChannelId::new draws a fresh UUID
  ApprovalId,   \* identifiers of approval requests
  Principal,    \* principals a root channel may be created for
  NoChannel,    \* Option::None for a parent
  NoApproval    \* no approval request pending

ASSUME ChannelIdAssumption == NoChannel \notin ChannelId
ASSUME ApprovalIdAssumption == NoApproval \notin ApprovalId

VARIABLES
  channels,     \* World.channels: the live channels, a function
  allocated     \* every identifier handed out so far; UUIDs never repeat

treeVars == <<channels, allocated>>

-----------------------------------------------------------------------------
(* Channel values.                                                         *)

\* MaxPrivilege derives Ord: Standard < Elevated.
Standard == 0
Elevated == 1
MaxPrivilege == {Standard, Elevated}

Config == [can_spawn : BOOLEAN, max_privilege : MaxPrivilege]

\* The four presets of ChannelConfig, less their scheduling priority.
interactive == [can_spawn |-> TRUE,  max_privilege |-> Elevated]
background  == [can_spawn |-> FALSE, max_privilege |-> Standard]
tool        == [can_spawn |-> TRUE,  max_privilege |-> Elevated]
default     == [can_spawn |-> TRUE,  max_privilege |-> Standard]
Presets == {interactive, background, tool, default}

ChannelState == {"Running", "Paused", "AwaitingApproval", "Completed", "Aborted"}
Terminal == {"Completed", "Aborted"}

Channel == [state : ChannelState,
            request_id : ApprovalId \cup {NoApproval},
            parent : ChannelId \cup {NoChannel},
            children : SUBSET ChannelId,
            config : Config,
            principal : Principal,
            ancestor_path : Seq(ChannelId)]

NewChannel(parent, config, principal, path) ==
  [state |-> "Running", request_id |-> NoApproval, parent |-> parent,
   children |-> {}, config |-> config, principal |-> principal,
   ancestor_path |-> path]

\* Mutant of InheritFrom: the child keeps the privilege it asked for.
InheritFromUncapped(config, parent) == config

\* ChannelConfig::inherit_from: the child's max_privilege is capped.
InheritFrom(config, parent) ==
  [config EXCEPT !.max_privilege =
     IF @ <= parent.max_privilege THEN @ ELSE parent.max_privilege]

Ancestors(chs, c) == Range(chs[c].ancestor_path)

IsDescendantOf(chs, child, ancestor) ==
  /\ child # ancestor
  /\ child \in DOMAIN chs
  /\ ancestor \in Ancestors(chs, child)

IsTerminal(chs, c) == chs[c].state \in Terminal

-----------------------------------------------------------------------------
(* Commands as functions on the tree.                                      *)

Insert(chs, id, channel) ==
  [c \in DOMAIN chs \cup {id} |-> IF c = id THEN channel ELSE chs[c]]

CreateOf(chs, id, config, principal) ==
  Insert(chs, id, NewChannel(NoChannel, config, principal, <<>>))

SpawnWithPath(chs, parent, id, config, path) ==
  LET p == chs[parent]
      child == NewChannel(parent, InheritFrom(config, p.config), p.principal, path)
  IN  [Insert(chs, id, child) EXCEPT ![parent].children = @ \cup {id}]

\* Mutant of SpawnOf: the path omits the grandparents.
SpawnOfShortPath(chs, parent, id, config) ==
  IF parent \notin DOMAIN chs THEN chs ELSE SpawnWithPath(chs, parent, id, config, <<parent>>)

\* spawn_with_id: only the parent's existence is tested, neither its state
\* nor its can_spawn.
SpawnOf(chs, parent, id, config) ==
  IF parent \notin DOMAIN chs
  THEN chs
  ELSE SpawnWithPath(chs, parent, id, config, <<parent>> \o chs[parent].ancestor_path)

\* Mutant of KillSet: kill stops at the children.
KillSetShallow(chs, id) == {id} \cup (IF id \in DOMAIN chs THEN chs[id].children ELSE {})

\* The channels the recursion of kill visits: the least set that holds id and,
\* with a live channel, its children.
KillSet(chs, id) ==
  {c \in ChannelId :
     \A S \in SUBSET ChannelId :
       (/\ id \in S
        /\ \A p \in S \cap DOMAIN chs : chs[p].children \subseteq S)
       => c \in S}

\* Mutant of KillOf: the parent keeps the link to the removed child.
KillOfKeepingLinks(chs, id) == [c \in DOMAIN chs \ KillSet(chs, id) |-> chs[c]]

\* Every channel visited is taken out of its parent's children and removed.
KillOf(chs, id) ==
  LET killed == KillSet(chs, id)
  IN  [c \in DOMAIN chs \ killed |->
        [chs[c] EXCEPT !.children =
           {d \in @ : ~(d \in killed \cap DOMAIN chs /\ chs[d].parent = c)}]]

\* The lifecycle methods of ChannelMut: the states each accepts, with the
\* state and the request identifier it leaves.
Transitions ==
  [kind : {"Complete", "Pause", "Resume", "Abort"}]
    \cup [kind : {"AwaitApproval", "ResolveApproval"}, approval_id : ApprovalId]

Accepts(chs, c, t) ==
  /\ c \in DOMAIN chs
  /\ CASE t.kind \in {"Complete", "Pause", "AwaitApproval"} -> chs[c].state = "Running"
       [] t.kind = "Resume" -> chs[c].state = "Paused"
       [] t.kind = "ResolveApproval" -> /\ chs[c].state = "AwaitingApproval"
                                        /\ chs[c].request_id = t.approval_id
       [] t.kind = "Abort" -> ~IsTerminal(chs, c)

Target(t) ==
  CASE t.kind = "Complete" -> "Completed"
    [] t.kind = "Pause" -> "Paused"
    [] t.kind \in {"Resume", "ResolveApproval"} -> "Running"
    [] t.kind = "AwaitApproval" -> "AwaitingApproval"
    [] t.kind = "Abort" -> "Aborted"

TransitionOf(chs, c, t) ==
  IF Accepts(chs, c, t)
  THEN [chs EXCEPT ![c].state = Target(t),
                   ![c].request_id = IF t.kind = "AwaitApproval"
                                     THEN t.approval_id ELSE NoApproval]
  ELSE chs

-----------------------------------------------------------------------------
TreeInit ==
  /\ channels = [c \in {} |-> NoChannel]
  /\ allocated = {}

Create(id, config, principal) ==
  /\ id \notin allocated
  /\ allocated' = allocated \cup {id}
  /\ channels' = CreateOf(channels, id, config, principal)

\* The identifier is drawn by the caller or by spawn_with; it is used up even
\* when the parent is gone and nothing is inserted.
Spawn(parent, id, config) ==
  /\ id \notin allocated
  /\ allocated' = allocated \cup {id}
  /\ channels' = SpawnOf(channels, parent, id, config)

Kill(id) ==
  /\ id \in DOMAIN channels
  /\ channels' = KillOf(channels, id)
  /\ UNCHANGED allocated

Transition(id, t) ==
  /\ Accepts(channels, id, t)
  /\ channels' = TransitionOf(channels, id, t)
  /\ UNCHANGED allocated

TreeNext ==
  \/ \E id \in ChannelId, config \in Presets, principal \in Principal :
       Create(id, config, principal)
  \/ \E parent, id \in ChannelId, config \in Presets : Spawn(parent, id, config)
  \/ \E id \in ChannelId : Kill(id)
  \/ \E id \in ChannelId, t \in Transitions : Transition(id, t)

TreeSpec == TreeInit /\ [][TreeNext]_treeVars

-----------------------------------------------------------------------------
(* Properties.                                                             *)

\* Channels are well-formed and hold identifiers that were handed out.
TreeTypeOK ==
  /\ allocated \subseteq ChannelId
  /\ DOMAIN channels \subseteq allocated
  /\ channels \in [DOMAIN channels -> Channel]

\* Parent and children links agree in both directions, and no link leads to a
\* channel that is no longer in the World (world.rs keeps both by hand).
LinksAgree ==
  \A c \in DOMAIN channels :
    /\ channels[c].parent # NoChannel =>
         /\ channels[c].parent \in DOMAIN channels
         /\ c \in channels[channels[c].parent].children
    /\ \A d \in channels[c].children :
         d \in DOMAIN channels /\ channels[d].parent = c

\* The cached ancestor path is what following parent links would find, and a
\* channel is never its own ancestor: is_descendant_of answers from the cache.
PathsAgree ==
  \A c \in DOMAIN channels :
    /\ channels[c].parent = NoChannel => channels[c].ancestor_path = <<>>
    /\ channels[c].parent # NoChannel =>
         channels[c].ancestor_path =
           <<channels[c].parent>> \o channels[channels[c].parent].ancestor_path
    /\ Ancestors(channels, c) \subseteq DOMAIN channels \ {c}

\* No channel holds more privilege than any of its ancestors, and all channels
\* of a tree act for the principal of its root.
PrivilegeCapped ==
  \A c \in DOMAIN channels : \A a \in Ancestors(channels, c) :
    /\ a \in DOMAIN channels
    /\ channels[c].config.max_privilege <= channels[a].config.max_privilege
    /\ channels[c].principal = channels[a].principal

\* kill removes the channel and its descendants and nothing else: what its
\* recursion over the children finds is what is_descendant_of answers.
KillIsExact ==
  [][\A id \in ChannelId :
       Kill(id) => DOMAIN channels' = {c \in DOMAIN channels :
                                         c # id /\ ~IsDescendantOf(channels, c, id)}]_treeVars

\* A Completed or Aborted channel is never revived, in place or by reusing the
\* identifier of one that was removed.
TerminalIsFinal ==
  [][/\ \A c \in DOMAIN channels \cap DOMAIN channels' :
          IsTerminal(channels, c) => channels'[c].state = channels[c].state
     /\ \A c \in allocated \ DOMAIN channels : c \notin DOMAIN channels']_treeVars
=============================================================================
