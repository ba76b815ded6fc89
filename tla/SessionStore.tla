---------------------------- MODULE SessionStore ----------------------------
(* What the trait SessionStore promises (session/store.rs): each call takes *)
(* effect at one instant between its start and its answer, or not at all    *)
(* when the process crashes or the call fails; a load answers with a session *)
(* exactly as it was saved, never with a part of one.  The exception is a   *)
(* session that several processes save at once: until the last of these     *)
(* saves has ended anything may become of it, and of no other session.      *)
CONSTANTS Process, Session, Asset

VARIABLES
  stored,     \* stored[id]: the asset under an identifier, or NoAsset
  call,       \* call[p]: the call process p is in, or NoCall
  answer,     \* answer[p]: what the call will answer, or Open
  clashed     \* the sessions several saves of which have overlapped, until all end

NoAsset == [is |-> "nothing"]
Garbled == [is |-> "garbled"]
NoCall == [op |-> "none"]
Open == [is |-> "open"]
Done == [is |-> "done"]
Failed == [is |-> "failed"]
Found(a) == [is |-> "found", asset |-> a]

svars == <<stored, call, answer, clashed>>

Calls ==
  [op : {"save"}, id : Session, asset : Asset] \cup [op : {"load", "delete"}, id : Session]

Init ==
  /\ stored = [id \in Session |-> NoAsset]
  /\ call = [p \in Process |-> NoCall] /\ answer = [p \in Process |-> Open]
  /\ clashed = {}

Saves(p, id) == call[p] # NoCall /\ call[p].op = "save" /\ call[p].id = id

Begin(p, c) ==
  /\ call[p] = NoCall /\ call' = [call EXCEPT ![p] = c]
  /\ clashed' = IF c.op = "save" /\ \E q \in Process : Saves(q, c.id)
                THEN clashed \cup {c.id} ELSE clashed
  /\ UNCHANGED <<stored, answer>>

Answer(p, a) ==
  /\ call[p] # NoCall /\ answer[p] = Open
  /\ answer' = [answer EXCEPT ![p] = a]
  /\ UNCHANGED <<call, clashed>>

Save(p) ==
  /\ call[p].op = "save" /\ Answer(p, Done)
  /\ stored' = [stored EXCEPT ![call[p].id] = Found(call[p].asset)]

Load(p) ==
  /\ call[p].op = "load" /\ stored[call[p].id] # Garbled
  /\ Answer(p, stored[call[p].id])
  /\ UNCHANGED stored

Delete(p) ==
  /\ call[p].op = "delete"
  /\ IF stored[call[p].id] = NoAsset
     THEN Answer(p, NoAsset) /\ UNCHANGED stored
     ELSE Answer(p, Done) /\ stored' = [stored EXCEPT ![call[p].id] = NoAsset]

\* A save may fail; the others only when there is nothing, or nothing whole.
Fail(p) ==
  /\ Answer(p, Failed)
  /\ call[p].op = "save" \/ stored[call[p].id] \in {NoAsset, Garbled}
  /\ UNCHANGED stored

\* A session that saves of which overlap: what is stored and the calls on it.
\* A load still answers with all of some session, or fails.
Muddle(id) ==
  /\ stored'[id] \in {NoAsset, Garbled} \cup {Found(a) : a \in Asset}
  /\ stored' = [stored EXCEPT ![id] = stored'[id]]
  /\ answer' = [q \in Process |-> answer'[q]]
  /\ \A q \in Process :
       \/ answer'[q] = answer[q]
       \/ /\ call[q] # NoCall /\ call[q].id = id
          /\ answer'[q] \in {Done, Failed, NoAsset} \cup {Found(a) : a \in Asset}
  /\ UNCHANGED <<call, clashed>>

\* Sessions some process but p saves.
SavedBeside(p) == {id \in Session : \E q \in Process \ {p} : Saves(q, id)}

Crash(p) ==
  /\ call' = [call EXCEPT ![p] = NoCall] /\ answer' = [answer EXCEPT ![p] = Open]
  /\ clashed' = clashed \cap SavedBeside(p)
  /\ UNCHANGED stored

End(p) == answer[p] # Open /\ Crash(p)

Next ==
  \/ \E p \in Process :
       \/ \E c \in Calls : Begin(p, c)
       \/ Save(p) \/ Load(p) \/ Delete(p) \/ Fail(p) \/ End(p) \/ Crash(p)
  \/ \E id \in clashed : Muddle(id)

Spec == Init /\ [][Next]_svars
=============================================================================
