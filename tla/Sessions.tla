------------------------------ MODULE Sessions ------------------------------
(* Pausing and resuming (app/mod.rs, app/builder.rs) over the store of files.*)
(* A session is what each component last left of its state in a snapshot,   *)
(* counted as the changes it holds (0: none, or no snapshot).  Nothing keeps *)
(* two processes from being in one session.                                 *)
EXTENDS Naturals, LocalFileStore

CONSTANTS
  Component,
  Reloads,    \* components whose init() overwrites what restore() set
  MaxWork     \* bound: changes a component's state can hold

None == [is |-> "no session"]

ASSUME SessionsAssumption ==
  /\ Reloads \subseteq Component /\ MaxWork \in Nat /\ None \notin Session
  /\ Asset = [Component -> 0..MaxWork]

VARIABLES
  app,        \* app[p]: what process p is at
  session,    \* session[p]: its session
  memory,     \* memory[p]: the SessionAsset it has in memory
  work,       \* work[p][c]: the changes c's state holds
  promised,   \* promised[id][c]: the changes the user was told are saved
  \* history
  behind,     \* processes whose session another one has saved since they came
  contested   \* sessions saved by one that was behind, or by two at once, or
              \* removed during a save

avars == <<app, session, memory, work, promised, behind, contested>>
vars == <<fvars, avars>>

Empty == [c \in Component |-> 0]

Init ==
  /\ FileInit
  /\ app = [p \in Process |-> "off"] /\ session = [p \in Process |-> None]
  /\ memory = [p \in Process |-> Empty] /\ work = memory
  /\ behind = {} /\ contested = {}
  /\ promised = [id \in Session |-> Empty]

InUse(id) == \E p \in Process : session[p] = id

\* Process p goes on at `to`, with asset a, its components at w.
Becomes(p, to, id, a, w) ==
  /\ app' = [app EXCEPT ![p] = to]
  /\ session' = [session EXCEPT ![p] = id]
  /\ memory' = [memory EXCEPT ![p] = a] /\ work' = [work EXCEPT ![p] = w]

Ends(p) == Becomes(p, "off", None, Empty, Empty)

Others(p, id) == {q \in Process \ {p} : session[q] = id}

-----------------------------------------------------------------------------
\* A new session has a fresh identifier.
New(p, id) ==
  /\ app[p] = "off"
  /\ ~InUse(id) /\ file[id] = NoInode /\ temp[id] = NoInode
  /\ Becomes(p, "running", id, Empty, Empty)
  /\ UNCHANGED <<fvars, promised, behind, contested>>

\* Whatever session is named is loaded, also one another process is in.
Resume(p, id) ==
  /\ app[p] = "off"
  /\ BeginLoad(p, id)
  /\ Becomes(p, "loading", id, Empty, Empty)
  /\ UNCHANGED <<promised, behind, contested>>

\* Each runner restores its component's snapshot, then calls init().
Started(a) == [c \in Component |-> IF c \in Reloads THEN 0 ELSE a[c]]

\* The build goes on with what was found, or ends with the error.
Loaded(p) ==
  /\ app[p] = "loading" /\ Return(p)
  /\ IF answer[p].is = "found"
     THEN /\ Becomes(p, "running", session[p], answer[p].asset, Started(answer[p].asset))
          /\ UNCHANGED behind
     ELSE Ends(p) /\ behind' = behind \ {p}
  /\ UNCHANGED <<promised, contested>>

Work(p, c) ==
  /\ app[p] = "running" /\ work[p][c] < MaxWork
  /\ work' = [work EXCEPT ![p][c] = @ + 1]
  /\ UNCHANGED <<fvars, app, session, memory, promised, behind, contested>>

\* Mutant of Merged: the snapshots of this run take the place of all.
MergedOver(a, w, collected) == [c \in Component |-> IF c \in collected THEN w[c] ELSE 0]
\* Those collected are inserted over the ones the session was loaded with.
Merged(a, w, collected) == [c \in Component |-> IF c \in collected THEN w[c] ELSE a[c]]

\* Pause: the runners are shut down; a snapshot that was killed, or came too
\* late, is not among those collected.
Pause(p) ==
  /\ app[p] = "running"
  /\ \E collected \in SUBSET Component :
       LET a == Merged(memory[p], work[p], collected)
       IN /\ BeginSave(p, session[p], a)
          /\ Becomes(p, "saving", session[p], a, Empty)
  /\ contested' = IF p \in behind \/ \E q \in Others(p, session[p]) : app[q] \in {"saving", "removing"}
                  THEN contested \cup {session[p]} ELSE contested
  /\ UNCHANGED <<promised, behind>>

\* "Session saved", or the error; the process ends.
Saved(p) ==
  /\ app[p] = "saving" /\ Return(p) /\ Ends(p)
  /\ IF answer[p] = Store!Done
     THEN /\ promised' = [promised EXCEPT ![session[p]] = memory[p]]
          /\ behind' = (behind \ {p}) \cup Others(p, session[p])
     ELSE UNCHANGED promised /\ behind' = behind \ {p}
  /\ UNCHANGED contested

\* 'q' and the end of input save nothing.
Quit(p) ==
  /\ app[p] = "running" /\ Ends(p) /\ behind' = behind \ {p}
  /\ UNCHANGED <<fvars, promised, contested>>

Crash(p) ==
  /\ app[p] # "off" /\ CrashStore(p) /\ Ends(p) /\ behind' = behind \ {p}
  /\ UNCHANGED <<promised, contested>>

-----------------------------------------------------------------------------
Remove(p, id) ==
  /\ app[p] = "off"
  /\ BeginDelete(p, id)
  /\ Becomes(p, "removing", id, Empty, Empty)
  /\ promised' = [promised EXCEPT ![id] = Empty]
  /\ contested' = IF \E q \in Others(p, id) : app[q] = "saving" THEN contested \cup {id} ELSE contested
  /\ UNCHANGED behind

Finish(p) ==
  /\ app[p] = "removing" /\ Return(p) /\ Ends(p) /\ behind' = behind \ {p}
  /\ UNCHANGED <<promised, contested>>

Disk(p) == StoreStep(p) /\ UNCHANGED avars

Next ==
  \E p \in Process :
    \/ \E id \in Session : New(p, id) \/ Resume(p, id) \/ Remove(p, id)
    \/ \E c \in Component : Work(p, c)
    \/ Loaded(p) \/ Pause(p) \/ Saved(p) \/ Quit(p) \/ Crash(p) \/ Finish(p) \/ Disk(p)

Spec == Init /\ [][Next]_vars

-----------------------------------------------------------------------------
\* What the user was told is saved stays in the file, through later runs whose
\* snapshots are not all collected, saves that fail and crashes at any point,
\* for the components that keep what restore() gives them.  The exception is a
\* session that two processes were in: where one paused that had come before the
\* other's save, or while the other saved or removed the session, one of the two
\* is lost, for no line of the code keeps a session to one process.  (builder.rs
\* loads what is named, save_session overwrites what is there)
Remembered ==
  \A id \in Session \ contested, c \in Component \ Reloads :
    promised[id][c] > 0 => /\ file[id] # NoInode /\ IsWhole(data[file[id]])
                           /\ data[file[id]].asset[c] >= promised[id][c]
=============================================================================
