--------------------------- MODULE LocalFileStore ---------------------------
(* The store of sessions in files (session/local.rs), as the processes that *)
(* use one directory see it.  A session is <id>.json; a save writes          *)
(* .<id>.json.tmp and renames it.  Names lead to inodes, and a file that is  *)
(* open stays what it was when its name is given to another.  A process may  *)
(* crash between any two steps.  (The operating system does not: nothing is  *)
(* synced.)                                                                  *)
CONSTANTS
  Process, Session, Asset,
  Inode       \* enough inodes: a new file takes one that nothing refers to

VARIABLES
  file, temp,   \* file[id], temp[id]: the inode under a name, or NoInode
  data,         \* data[i]: an asset in full, Empty or Torn
  call,         \* call[p]: the call process p is in, or NoCall
  pc,           \* where in the call it is
  handle,       \* the inode it has open, or NoInode
  answer,       \* what it will answer
  clashed       \* history: sessions saves of which have overlapped, until all end

names == <<file, temp>>
fvars == <<file, temp, data, call, pc, handle, answer, clashed>>

NoInode == [is |-> "no inode"]

ASSUME LocalFileStoreAssumption == NoInode \notin Inode

Blank == [is |-> "blank"]
Torn == [is |-> "torn"]
IsWhole(d) == d \notin {Blank, Torn}

Mapped(f) ==
  [id \in Session |-> IF f[id] = NoInode THEN [is |-> "nothing"]
                      ELSE IF IsWhole(data[f[id]]) THEN data[f[id]] ELSE [is |-> "garbled"]]

\* read_to_string and from_json, which refuses a part of a session.
Parsed(d) == IF IsWhole(d) THEN d ELSE [is |-> "failed"]

\* The promise, with the answer of a load fixed when it opens the file.
Foretold == [p \in Process |-> IF pc[p] = "read" THEN Parsed(data[handle[p]]) ELSE answer[p]]
Store == INSTANCE SessionStore WITH stored <- Mapped(file), answer <- Foretold

NoCall == Store!NoCall
Pending == Store!Open

FileInit ==
  /\ file = [id \in Session |-> NoInode] /\ temp = file
  /\ data = [i \in Inode |-> Blank] /\ clashed = {}
  /\ call = [p \in Process |-> NoCall] /\ pc = [p \in Process |-> "idle"]
  /\ handle = [p \in Process |-> NoInode] /\ answer = [p \in Process |-> Pending]

At(p, points) == pc[p] \in points

\* Process p goes from one point of its call to the next.
Step(p, from, to) ==
  /\ pc[p] = from /\ pc' = [pc EXCEPT ![p] = to]
  /\ UNCHANGED <<call, clashed>>

Answers(p, from, a) ==
  /\ Step(p, from, "answer")
  /\ answer' = [answer EXCEPT ![p] = a]

-----------------------------------------------------------------------------
(* save.                                                                   *)

BeginSave(p, id, a) ==
  /\ pc[p] = "idle" /\ pc' = [pc EXCEPT ![p] = "create"]
  /\ call' = [call EXCEPT ![p] = [op |-> "save", id |-> id, asset |-> a]]
  /\ clashed' = IF \E q \in Process : Store!Saves(q, id) THEN clashed \cup {id} ELSE clashed
  /\ UNCHANGED <<names, data, handle, answer>>

\* fs::write opens the temporary name: what is there is emptied, else a file
\* is made.
Free(i) == \A id \in Session : file[id] # i /\ temp[id] # i
\* Mutant of TempOf: the session's own file is written in place.
TempOfInPlace(id) == file[id]
TempOf(id) == temp[id]

Create(p) ==
  LET id == call[p].id
  IN /\ Step(p, "create", "write")
     /\ \E i \in Inode :
          /\ IF TempOf(id) # NoInode
             THEN i = TempOf(id)
             ELSE Free(i) /\ \A q \in Process : handle[q] # i
          /\ temp' = [temp EXCEPT ![id] = i]
          /\ data' = [data EXCEPT ![i] = Blank]
          /\ handle' = [handle EXCEPT ![p] = i]
     /\ UNCHANGED <<file, answer>>

\* What another process has written to the file since it was emptied may stick
\* out at the end.
Write(p) ==
  /\ Step(p, "write", "rename")
  /\ \E d \in {Store!Found(call[p].asset)} \cup (IF data[handle[p]] = Blank THEN {} ELSE {Torn}) :
       data' = [data EXCEPT ![handle[p]] = d]
  /\ handle' = [handle EXCEPT ![p] = NoInode]
  /\ UNCHANGED <<names, answer>>

\* The disk is full, or the directory gone: what was written stays behind.  Or
\* another process has renamed the file already.
WriteFails(p) ==
  /\ At(p, {"create", "write", "rename"}) /\ Answers(p, pc[p], Store!Failed)
  /\ handle' = [handle EXCEPT ![p] = NoInode]
  /\ UNCHANGED <<names, data>>

Rename(p) ==
  LET id == call[p].id
  IN /\ Answers(p, "rename", Store!Done)
     /\ temp[id] # NoInode
     /\ file' = [file EXCEPT ![id] = temp[id]]
     /\ temp' = [temp EXCEPT ![id] = NoInode]
     /\ UNCHANGED <<data, handle>>

-----------------------------------------------------------------------------
(* load and delete.                                                        *)

Begins(p, op, id, to) ==
  /\ pc[p] = "idle" /\ pc' = [pc EXCEPT ![p] = to]
  /\ call' = [call EXCEPT ![p] = [op |-> op, id |-> id]]
  /\ UNCHANGED <<names, data, handle, answer, clashed>>

BeginLoad(p, id) == Begins(p, "load", id, "look")
BeginDelete(p, id) == Begins(p, "delete", id, "find")

\* path.exists() says no.
Missing(p) ==
  /\ At(p, {"look", "find"}) /\ file[call[p].id] = NoInode
  /\ Answers(p, pc[p], Store!NoAsset)
  /\ UNCHANGED <<names, data, handle>>

\* It says yes, and the file may be gone when it is used.
Exists(p) ==
  /\ At(p, {"look", "find"}) /\ file[call[p].id] # NoInode
  /\ Step(p, "look", "open") \/ Step(p, "find", "unlink")
  /\ UNCHANGED <<names, data, handle, answer>>

Vanished(p) ==
  /\ At(p, {"open", "unlink"}) /\ file[call[p].id] = NoInode
  /\ Answers(p, pc[p], Store!Failed)
  /\ UNCHANGED <<names, data, handle>>

OpenFile(p) ==
  /\ Step(p, "open", "read")
  /\ file[call[p].id] # NoInode
  /\ handle' = [handle EXCEPT ![p] = file[call[p].id]]
  /\ UNCHANGED <<names, data, answer>>

Read(p) ==
  /\ Answers(p, "read", Parsed(data[handle[p]]))
  /\ handle' = [handle EXCEPT ![p] = NoInode]
  /\ UNCHANGED <<names, data>>

Unlink(p) ==
  /\ Answers(p, "unlink", Store!Done)
  /\ file[call[p].id] # NoInode
  /\ file' = [file EXCEPT ![call[p].id] = NoInode]
  /\ UNCHANGED <<temp, data, handle>>

-----------------------------------------------------------------------------
Forget(p) ==
  /\ pc' = [pc EXCEPT ![p] = "idle"] /\ call' = [call EXCEPT ![p] = NoCall]
  /\ handle' = [handle EXCEPT ![p] = NoInode]
  /\ answer' = [answer EXCEPT ![p] = Pending]
  /\ clashed' = clashed \cap Store!SavedBeside(p)
  /\ UNCHANGED <<names, data>>

Return(p) == pc[p] = "answer" /\ Forget(p)

\* The process is gone, and its open file; the directory stays.
CrashStore(p) == Forget(p)

StoreStep(p) ==
  \/ Create(p) \/ Write(p) \/ WriteFails(p) \/ Rename(p)
  \/ Missing(p) \/ Exists(p) \/ Vanished(p) \/ OpenFile(p) \/ Read(p) \/ Unlink(p)

FileNext ==
  \E p \in Process :
    \/ \E id \in Session, a \in Asset : BeginSave(p, id, a)
    \/ \E id \in Session : BeginLoad(p, id) \/ BeginDelete(p, id)
    \/ StoreStep(p) \/ Return(p) \/ CrashStore(p)

FileSpec == FileInit /\ [][FileNext]_fvars

\* A save is seen whole or not at all, by loads at any time, whatever crashes:
\* "Atomic writes (write to temp, then rename)".  The exception is a session
\* that several processes save at once, until the last of them is done: their
\* temporary file is one.
StoreIsAtomic == Store!Spec
=============================================================================
