---------------------------- MODULE SessionsProofs ----------------------------
(***************************************************************************)
(* What the user was told is saved is not lost unless two processes contend *)
(* for the session, for any processes, sessions, components and assets.    *)
(* The proof stands on the promise of SessionStore and not on its files:   *)
(* the first part shows that the store of files keeps it, for any          *)
(* processes, sessions and assets; the second that every step of the       *)
(* application is a step of the files, and by the invariant AppInv where an *)
(* asset that holds at least what was promised is, at each point of a run. *)
(***************************************************************************)
EXTENDS Sessions, TLAPS

-----------------------------------------------------------------------------
(* The store of files.                                                     *)

Whole == {Store!Found(a) : a \in Asset}
NodeOrNone == Inode \cup {NoInode}
Saving == {"create", "write", "rename"}
Loading == {"look", "open", "read"}
Deleting == {"find", "unlink"}
Points == Saving \cup Loading \cup Deleting \cup {"idle", "answer"}

FileType ==
  /\ file \in [Session -> NodeOrNone] /\ temp \in [Session -> NodeOrNone]
  /\ data \in [Inode -> Whole \cup {Blank, Torn}]
  /\ call = [p \in Process |-> call[p]] /\ answer = [p \in Process |-> answer[p]]
  /\ pc \in [Process -> Points]
  /\ handle \in [Process -> NodeOrNone]

\* A process is where its call leads, and has answered when it says so.
InPhase(p) ==
  /\ pc[p] = "idle" <=> call[p] = NoCall
  /\ pc[p] # "idle" => call[p].id \in Session
  /\ pc[p] \in Saving => call[p].op = "save" /\ call[p].asset \in Asset
  /\ pc[p] \in Loading => call[p].op = "load"
  /\ pc[p] \in Deleting => call[p].op = "delete"
  /\ answer[p] = Pending <=> pc[p] # "answer"
  /\ handle[p] # NoInode <=> pc[p] \in {"write", "read"}

\* No file has two names.
Apart ==
  /\ \A id, id2 \in Session : file[id] = file[id2] /\ file[id] # NoInode => id = id2
  /\ \A id, id2 \in Session : temp[id] = temp[id2] /\ temp[id] # NoInode => id = id2
  /\ \A id, id2 \in Session : file[id] = temp[id2] => file[id] = NoInode

\* An open file is one of the session its caller named.
Opened ==
  /\ \A p \in Process, id \in Session :
       handle[p] # NoInode /\ (handle[p] = file[id] \/ handle[p] = temp[id]) => call[p].id = id
  /\ \A p, q \in Process : handle[p] # NoInode /\ handle[p] = handle[q] => call[p].id = call[q].id

\* A process that is alone in saving a session writes to its temporary file,
\* which is complete when it is renamed.
Writes(p) ==
  call[p].id \notin clashed =>
    /\ pc[p] = "write" => handle[p] = temp[call[p].id] /\ data[handle[p]] = Blank
    /\ pc[p] = "rename" => /\ temp[call[p].id] # NoInode
                           /\ data[temp[call[p].id]] = Store!Found(call[p].asset)

\* What a process reads is no temporary file.
Reads(p) == pc[p] = "read" => \A id \in Session : temp[id] # handle[p]

SaversApart ==
  \A id \in Session \ clashed, p, q \in Process : Store!Saves(p, id) /\ Store!Saves(q, id) => p = q

FileInv ==
  /\ FileType /\ Apart /\ Opened /\ SaversApart
  /\ \A p \in Process : InPhase(p) /\ Writes(p) /\ Reads(p)

-----------------------------------------------------------------------------
\* The kinds of answers differ from each other, and what is whole from all else.
LEMMA Kinds ==
  /\ \A d \in Whole : d # Blank /\ d # Torn /\ d # Store!NoAsset /\ d # Store!Garbled /\ d # Pending
  /\ Torn # Pending /\ Store!NoAsset # Pending /\ Store!Done # Pending
  /\ Store!Failed # Pending /\ NoCall.op = "none" /\ Torn # Blank
  /\ Store!NoAsset # Store!Garbled
  /\ \A a \in Asset : Store!Found(a) \in Whole
<1>1. \A a \in Asset : Store!Found(a).is = "found"
  BY DEF Store!Found
<1>2. /\ Torn.is = "torn" /\ Store!NoAsset.is = "nothing" /\ Pending.is = "open"
      /\ Store!Done.is = "done" /\ Store!Failed.is = "failed"
      /\ Blank.is = "blank" /\ Store!Garbled.is = "garbled"
  BY DEF Torn, Blank, Store!NoAsset, Pending, Store!Open, Store!Done, Store!Failed, Store!Garbled
<1>3. NoCall.op = "none"
  BY DEF NoCall, Store!NoCall
<1> QED BY <1>1, <1>2, <1>3 DEF Whole

\* What is read of a file.
LEMMA WhatIsRead ==
  \A d \in Whole \cup {Blank, Torn} :
    /\ IsWhole(d) <=> d \in Whole
    /\ Parsed(d) = IF d \in Whole THEN d ELSE Store!Failed
  BY Kinds DEF IsWhole, Parsed, Store!Failed

LEMMA InvInit == FileInit => FileInv
<1> SUFFICES ASSUME FileInit PROVE FileInv
  OBVIOUS
<1>1. FileType
  BY DEF FileInit, FileType, NodeOrNone, Points
<1>2. Apart /\ Opened
  BY DEF FileInit, Apart, Opened
<1>3. SaversApart
  BY DEF FileInit, SaversApart, Store!Saves, NoCall
<1>4. ASSUME NEW p \in Process PROVE InPhase(p) /\ Writes(p) /\ Reads(p)
  BY <1>4 DEF FileInit, InPhase, Writes, Reads, Saving, Loading, Deleting
<1> QED BY <1>1, <1>2, <1>3, <1>4 DEF FileInv

LEMMA InvNext == FileInv /\ [FileNext]_fvars => FileInv'
<1> SUFFICES ASSUME FileInv, [FileNext]_fvars PROVE FileInv'
  OBVIOUS
<1> USE Kinds, LocalFileStoreAssumption
<1>0. CASE UNCHANGED fvars
  <2>1. FileType' /\ Apart' /\ Opened' /\ SaversApart'
    BY <1>0 DEF fvars, names, FileInv, FileType, Apart, Opened, SaversApart, Store!Saves
  <2>2. \A p \in Process : (InPhase(p) /\ Writes(p) /\ Reads(p))'
    BY <1>0 DEF fvars, names, FileInv, InPhase, Writes, Reads
  <2> QED BY <2>1, <2>2 DEF FileInv
<1>1. ASSUME NEW p \in Process, NEW id \in Session, NEW a \in Asset, BeginSave(p, id, a) PROVE FileInv'
  <2>1. FileType'
    BY <1>1 DEF FileInv, FileType, NodeOrNone, InPhase, Points, Saving, Loading, Deleting, BeginSave, names
  <2>2. Apart' /\ Opened'
    BY <1>1 DEF FileInv, FileType, NodeOrNone, Apart, Opened, InPhase, Points, Saving, Loading, Deleting, Reads, BeginSave, names
  <2>3. SaversApart'
    BY <1>1 DEF FileInv, FileType, SaversApart, Store!Saves, NoCall, Store!SavedBeside, BeginSave, names
  <2>4. ASSUME NEW q \in Process PROVE (InPhase(q) /\ Writes(q) /\ Reads(q))'
    <3>1. InPhase(q)'
      BY <1>1 DEF FileInv, FileType, NodeOrNone, InPhase, Points, Saving, Loading, Deleting, BeginSave, names
    <3>2. Writes(q)'
      BY <1>1 DEF FileInv, FileType, NodeOrNone, InPhase, Points, Saving, Loading, Deleting, Writes, Apart, Opened, SaversApart, Store!Saves, NoCall, Store!SavedBeside, BeginSave, names
    <3>3. Reads(q)'
      BY <1>1 DEF FileInv, FileType, NodeOrNone, InPhase, Points, Saving, Loading, Deleting, Reads, Apart, Opened, BeginSave, names
    <3> QED BY <3>1, <3>2, <3>3
  <2> QED BY <2>1, <2>2, <2>3, <2>4 DEF FileInv
<1>2. ASSUME NEW p \in Process, NEW id \in Session, BeginLoad(p, id) PROVE FileInv'
  <2>1. FileType'
    BY <1>2 DEF FileInv, FileType, NodeOrNone, InPhase, Points, Saving, Loading, Deleting, BeginLoad, Begins, names
  <2>2. Apart' /\ Opened'
    BY <1>2 DEF FileInv, FileType, NodeOrNone, Apart, Opened, InPhase, Points, Saving, Loading, Deleting, Reads, BeginLoad, Begins, names
  <2>3. SaversApart'
    BY <1>2 DEF FileInv, FileType, SaversApart, Store!Saves, NoCall, Store!SavedBeside, BeginLoad, Begins, names
  <2>4. ASSUME NEW q \in Process PROVE (InPhase(q) /\ Writes(q) /\ Reads(q))'
    <3>1. InPhase(q)'
      BY <1>2 DEF FileInv, FileType, NodeOrNone, InPhase, Points, Saving, Loading, Deleting, BeginLoad, Begins, names
    <3>2. Writes(q)'
      BY <1>2 DEF FileInv, FileType, NodeOrNone, InPhase, Points, Saving, Loading, Deleting, Writes, Apart, Opened, SaversApart, Store!Saves, NoCall, Store!SavedBeside, BeginLoad, Begins, names
    <3>3. Reads(q)'
      BY <1>2 DEF FileInv, FileType, NodeOrNone, InPhase, Points, Saving, Loading, Deleting, Reads, Apart, Opened, BeginLoad, Begins, names
    <3> QED BY <3>1, <3>2, <3>3
  <2> QED BY <2>1, <2>2, <2>3, <2>4 DEF FileInv
<1>3. ASSUME NEW p \in Process, NEW id \in Session, BeginDelete(p, id) PROVE FileInv'
  <2>1. FileType'
    BY <1>3 DEF FileInv, FileType, NodeOrNone, InPhase, Points, Saving, Loading, Deleting, BeginDelete, Begins, names
  <2>2. Apart' /\ Opened'
    BY <1>3 DEF FileInv, FileType, NodeOrNone, Apart, Opened, InPhase, Points, Saving, Loading, Deleting, Reads, BeginDelete, Begins, names
  <2>3. SaversApart'
    BY <1>3 DEF FileInv, FileType, SaversApart, Store!Saves, NoCall, Store!SavedBeside, BeginDelete, Begins, names
  <2>4. ASSUME NEW q \in Process PROVE (InPhase(q) /\ Writes(q) /\ Reads(q))'
    <3>1. InPhase(q)'
      BY <1>3 DEF FileInv, FileType, NodeOrNone, InPhase, Points, Saving, Loading, Deleting, BeginDelete, Begins, names
    <3>2. Writes(q)'
      BY <1>3 DEF FileInv, FileType, NodeOrNone, InPhase, Points, Saving, Loading, Deleting, Writes, Apart, Opened, SaversApart, Store!Saves, NoCall, Store!SavedBeside, BeginDelete, Begins, names
    <3>3. Reads(q)'
      BY <1>3 DEF FileInv, FileType, NodeOrNone, InPhase, Points, Saving, Loading, Deleting, Reads, Apart, Opened, BeginDelete, Begins, names
    <3> QED BY <3>1, <3>2, <3>3
  <2> QED BY <2>1, <2>2, <2>3, <2>4 DEF FileInv
<1>4. ASSUME NEW p \in Process, Create(p) PROVE FileInv'
  <2>1. FileType'
    BY <1>4 DEF FileInv, FileType, NodeOrNone, InPhase, Points, Saving, Loading, Deleting, Create, Step, TempOf, Free, names
  <2>2. Apart' /\ Opened'
    BY <1>4 DEF FileInv, FileType, NodeOrNone, Apart, Opened, InPhase, Points, Saving, Loading, Deleting, Reads, Create, Step, TempOf, Free, names
  <2>3. SaversApart'
    BY <1>4 DEF FileInv, FileType, SaversApart, Store!Saves, NoCall, Store!SavedBeside, Create, Step, TempOf, Free, names
  <2>4. ASSUME NEW q \in Process PROVE (InPhase(q) /\ Writes(q) /\ Reads(q))'
    <3>1. InPhase(q)'
      BY <1>4 DEF FileInv, FileType, NodeOrNone, InPhase, Points, Saving, Loading, Deleting, Create, Step, TempOf, Free, names
    <3>2. Writes(q)'
      BY <1>4 DEF FileInv, FileType, NodeOrNone, InPhase, Points, Saving, Loading, Deleting, Writes, Apart, Opened, SaversApart, Store!Saves, NoCall, Store!SavedBeside, Create, Step, TempOf, Free, names
    <3>3. Reads(q)'
      BY <1>4 DEF FileInv, FileType, NodeOrNone, InPhase, Points, Saving, Loading, Deleting, Reads, Apart, Opened, Create, Step, TempOf, Free, names
    <3> QED BY <3>1, <3>2, <3>3
  <2> QED BY <2>1, <2>2, <2>3, <2>4 DEF FileInv
<1>5. ASSUME NEW p \in Process, Write(p) PROVE FileInv'
  <2>1. FileType'
    BY <1>5 DEF FileInv, FileType, NodeOrNone, InPhase, Points, Saving, Loading, Deleting, Write, Step, names
  <2>2. Apart' /\ Opened'
    BY <1>5 DEF FileInv, FileType, NodeOrNone, Apart, Opened, InPhase, Points, Saving, Loading, Deleting, Reads, Write, Step, names
  <2>3. SaversApart'
    BY <1>5 DEF FileInv, FileType, SaversApart, Store!Saves, NoCall, Store!SavedBeside, Write, Step, names
  <2>4. ASSUME NEW q \in Process PROVE (InPhase(q) /\ Writes(q) /\ Reads(q))'
    <3>1. InPhase(q)'
      BY <1>5 DEF FileInv, FileType, NodeOrNone, InPhase, Points, Saving, Loading, Deleting, Write, Step, names
    <3>2. Writes(q)'
      BY <1>5 DEF FileInv, FileType, NodeOrNone, InPhase, Points, Saving, Loading, Deleting, Writes, Apart, Opened, SaversApart, Store!Saves, NoCall, Store!SavedBeside, Write, Step, names
    <3>3. Reads(q)'
      BY <1>5 DEF FileInv, FileType, NodeOrNone, InPhase, Points, Saving, Loading, Deleting, Reads, Apart, Opened, Write, Step, names
    <3> QED BY <3>1, <3>2, <3>3
  <2> QED BY <2>1, <2>2, <2>3, <2>4 DEF FileInv
<1>6. ASSUME NEW p \in Process, WriteFails(p) PROVE FileInv'
  <2>1. FileType'
    BY <1>6 DEF FileInv, FileType, NodeOrNone, InPhase, Points, Saving, Loading, Deleting, WriteFails, Answers, Step, At, names
  <2>2. Apart' /\ Opened'
    BY <1>6 DEF FileInv, FileType, NodeOrNone, Apart, Opened, InPhase, Points, Saving, Loading, Deleting, Reads, WriteFails, Answers, Step, At, names
  <2>3. SaversApart'
    BY <1>6 DEF FileInv, FileType, SaversApart, Store!Saves, NoCall, Store!SavedBeside, WriteFails, Answers, Step, At, names
  <2>4. ASSUME NEW q \in Process PROVE (InPhase(q) /\ Writes(q) /\ Reads(q))'
    <3>1. InPhase(q)'
      BY <1>6 DEF FileInv, FileType, NodeOrNone, InPhase, Points, Saving, Loading, Deleting, WriteFails, Answers, Step, At, names
    <3>2. Writes(q)'
      BY <1>6 DEF FileInv, FileType, NodeOrNone, InPhase, Points, Saving, Loading, Deleting, Writes, Apart, Opened, SaversApart, Store!Saves, NoCall, Store!SavedBeside, WriteFails, Answers, Step, At, names
    <3>3. Reads(q)'
      BY <1>6 DEF FileInv, FileType, NodeOrNone, InPhase, Points, Saving, Loading, Deleting, Reads, Apart, Opened, WriteFails, Answers, Step, At, names
    <3> QED BY <3>1, <3>2, <3>3
  <2> QED BY <2>1, <2>2, <2>3, <2>4 DEF FileInv
<1>7. ASSUME NEW p \in Process, Rename(p) PROVE FileInv'
  <2>1. FileType'
    BY <1>7 DEF FileInv, FileType, NodeOrNone, InPhase, Points, Saving, Loading, Deleting, Rename, Answers, Step, names
  <2>2. Apart' /\ Opened'
    BY <1>7 DEF FileInv, FileType, NodeOrNone, Apart, Opened, InPhase, Points, Saving, Loading, Deleting, Reads, Rename, Answers, Step, names
  <2>3. SaversApart'
    BY <1>7 DEF FileInv, FileType, SaversApart, Store!Saves, NoCall, Store!SavedBeside, Rename, Answers, Step, names
  <2>4. ASSUME NEW q \in Process PROVE (InPhase(q) /\ Writes(q) /\ Reads(q))'
    <3>1. InPhase(q)'
      BY <1>7 DEF FileInv, FileType, NodeOrNone, InPhase, Points, Saving, Loading, Deleting, Rename, Answers, Step, names
    <3>2. Writes(q)'
      BY <1>7 DEF FileInv, FileType, NodeOrNone, InPhase, Points, Saving, Loading, Deleting, Writes, Apart, Opened, SaversApart, Store!Saves, NoCall, Store!SavedBeside, Rename, Answers, Step, names
    <3>3. Reads(q)'
      BY <1>7 DEF FileInv, FileType, NodeOrNone, InPhase, Points, Saving, Loading, Deleting, Reads, Apart, Opened, Rename, Answers, Step, names
    <3> QED BY <3>1, <3>2, <3>3
  <2> QED BY <2>1, <2>2, <2>3, <2>4 DEF FileInv
<1>8. ASSUME NEW p \in Process, Missing(p) PROVE FileInv'
  <2>1. FileType'
    BY <1>8 DEF FileInv, FileType, NodeOrNone, InPhase, Points, Saving, Loading, Deleting, Missing, Answers, Step, At, names
  <2>2. Apart' /\ Opened'
    BY <1>8 DEF FileInv, FileType, NodeOrNone, Apart, Opened, InPhase, Points, Saving, Loading, Deleting, Reads, Missing, Answers, Step, At, names
  <2>3. SaversApart'
    BY <1>8 DEF FileInv, FileType, SaversApart, Store!Saves, NoCall, Store!SavedBeside, Missing, Answers, Step, At, names
  <2>4. ASSUME NEW q \in Process PROVE (InPhase(q) /\ Writes(q) /\ Reads(q))'
    <3>1. InPhase(q)'
      BY <1>8 DEF FileInv, FileType, NodeOrNone, InPhase, Points, Saving, Loading, Deleting, Missing, Answers, Step, At, names
    <3>2. Writes(q)'
      BY <1>8 DEF FileInv, FileType, NodeOrNone, InPhase, Points, Saving, Loading, Deleting, Writes, Apart, Opened, SaversApart, Store!Saves, NoCall, Store!SavedBeside, Missing, Answers, Step, At, names
    <3>3. Reads(q)'
      BY <1>8 DEF FileInv, FileType, NodeOrNone, InPhase, Points, Saving, Loading, Deleting, Reads, Apart, Opened, Missing, Answers, Step, At, names
    <3> QED BY <3>1, <3>2, <3>3
  <2> QED BY <2>1, <2>2, <2>3, <2>4 DEF FileInv
<1>9. ASSUME NEW p \in Process, Exists(p) PROVE FileInv'
  <2>1. FileType'
    BY <1>9 DEF FileInv, FileType, NodeOrNone, InPhase, Points, Saving, Loading, Deleting, Exists, Step, At, names
  <2>2. Apart' /\ Opened'
    BY <1>9 DEF FileInv, FileType, NodeOrNone, Apart, Opened, InPhase, Points, Saving, Loading, Deleting, Reads, Exists, Step, At, names
  <2>3. SaversApart'
    BY <1>9 DEF FileInv, FileType, SaversApart, Store!Saves, NoCall, Store!SavedBeside, Exists, Step, At, names
  <2>4. ASSUME NEW q \in Process PROVE (InPhase(q) /\ Writes(q) /\ Reads(q))'
    <3>1. InPhase(q)'
      BY <1>9 DEF FileInv, FileType, NodeOrNone, InPhase, Points, Saving, Loading, Deleting, Exists, Step, At, names
    <3>2. Writes(q)'
      BY <1>9 DEF FileInv, FileType, NodeOrNone, InPhase, Points, Saving, Loading, Deleting, Writes, Apart, Opened, SaversApart, Store!Saves, NoCall, Store!SavedBeside, Exists, Step, At, names
    <3>3. Reads(q)'
      BY <1>9 DEF FileInv, FileType, NodeOrNone, InPhase, Points, Saving, Loading, Deleting, Reads, Apart, Opened, Exists, Step, At, names
    <3> QED BY <3>1, <3>2, <3>3
  <2> QED BY <2>1, <2>2, <2>3, <2>4 DEF FileInv
<1>10. ASSUME NEW p \in Process, Vanished(p) PROVE FileInv'
  <2>1. FileType'
    BY <1>10 DEF FileInv, FileType, NodeOrNone, InPhase, Points, Saving, Loading, Deleting, Vanished, Answers, Step, At, names
  <2>2. Apart' /\ Opened'
    BY <1>10 DEF FileInv, FileType, NodeOrNone, Apart, Opened, InPhase, Points, Saving, Loading, Deleting, Reads, Vanished, Answers, Step, At, names
  <2>3. SaversApart'
    BY <1>10 DEF FileInv, FileType, SaversApart, Store!Saves, NoCall, Store!SavedBeside, Vanished, Answers, Step, At, names
  <2>4. ASSUME NEW q \in Process PROVE (InPhase(q) /\ Writes(q) /\ Reads(q))'
    <3>1. InPhase(q)'
      BY <1>10 DEF FileInv, FileType, NodeOrNone, InPhase, Points, Saving, Loading, Deleting, Vanished, Answers, Step, At, names
    <3>2. Writes(q)'
      BY <1>10 DEF FileInv, FileType, NodeOrNone, InPhase, Points, Saving, Loading, Deleting, Writes, Apart, Opened, SaversApart, Store!Saves, NoCall, Store!SavedBeside, Vanished, Answers, Step, At, names
    <3>3. Reads(q)'
      BY <1>10 DEF FileInv, FileType, NodeOrNone, InPhase, Points, Saving, Loading, Deleting, Reads, Apart, Opened, Vanished, Answers, Step, At, names
    <3> QED BY <3>1, <3>2, <3>3
  <2> QED BY <2>1, <2>2, <2>3, <2>4 DEF FileInv
<1>11. ASSUME NEW p \in Process, OpenFile(p) PROVE FileInv'
  <2>1. FileType'
    BY <1>11 DEF FileInv, FileType, NodeOrNone, InPhase, Points, Saving, Loading, Deleting, OpenFile, Step, names
  <2>2. Apart' /\ Opened'
    BY <1>11 DEF FileInv, FileType, NodeOrNone, Apart, Opened, InPhase, Points, Saving, Loading, Deleting, Reads, OpenFile, Step, names
  <2>3. SaversApart'
    BY <1>11 DEF FileInv, FileType, SaversApart, Store!Saves, NoCall, Store!SavedBeside, OpenFile, Step, names
  <2>4. ASSUME NEW q \in Process PROVE (InPhase(q) /\ Writes(q) /\ Reads(q))'
    <3>1. InPhase(q)'
      BY <1>11 DEF FileInv, FileType, NodeOrNone, InPhase, Points, Saving, Loading, Deleting, OpenFile, Step, names
    <3>2. Writes(q)'
      BY <1>11 DEF FileInv, FileType, NodeOrNone, InPhase, Points, Saving, Loading, Deleting, Writes, Apart, Opened, SaversApart, Store!Saves, NoCall, Store!SavedBeside, OpenFile, Step, names
    <3>3. Reads(q)'
      BY <1>11 DEF FileInv, FileType, NodeOrNone, InPhase, Points, Saving, Loading, Deleting, Reads, Apart, Opened, OpenFile, Step, names
    <3> QED BY <3>1, <3>2, <3>3
  <2> QED BY <2>1, <2>2, <2>3, <2>4 DEF FileInv
<1>12. ASSUME NEW p \in Process, Read(p) PROVE FileInv'
  <2>1. FileType'
    BY <1>12 DEF FileInv, FileType, NodeOrNone, InPhase, Points, Saving, Loading, Deleting, Read, Answers, Step, names
  <2>2. Apart' /\ Opened'
    BY <1>12 DEF FileInv, FileType, NodeOrNone, Apart, Opened, InPhase, Points, Saving, Loading, Deleting, Reads, Read, Answers, Step, names
  <2>3. SaversApart'
    BY <1>12 DEF FileInv, FileType, SaversApart, Store!Saves, NoCall, Store!SavedBeside, Read, Answers, Step, names
  <2>4. ASSUME NEW q \in Process PROVE (InPhase(q) /\ Writes(q) /\ Reads(q))'
    <3>1. InPhase(q)'
      BY <1>12, WhatIsRead DEF FileInv, FileType, NodeOrNone, InPhase, Points, Saving, Loading, Deleting, Read, Answers, Step, names
    <3>2. Writes(q)'
      BY <1>12, WhatIsRead DEF FileInv, FileType, NodeOrNone, InPhase, Points, Saving, Loading, Deleting, Writes, Apart, Opened, SaversApart, Store!Saves, NoCall, Store!SavedBeside, Read, Answers, Step, names
    <3>3. Reads(q)'
      BY <1>12, WhatIsRead DEF FileInv, FileType, NodeOrNone, InPhase, Points, Saving, Loading, Deleting, Reads, Apart, Opened, Read, Answers, Step, names
    <3> QED BY <3>1, <3>2, <3>3
  <2> QED BY <2>1, <2>2, <2>3, <2>4 DEF FileInv
<1>13. ASSUME NEW p \in Process, Unlink(p) PROVE FileInv'
  <2>1. FileType'
    BY <1>13 DEF FileInv, FileType, NodeOrNone, InPhase, Points, Saving, Loading, Deleting, Unlink, Answers, Step, names
  <2>2. Apart' /\ Opened'
    BY <1>13 DEF FileInv, FileType, NodeOrNone, Apart, Opened, InPhase, Points, Saving, Loading, Deleting, Reads, Unlink, Answers, Step, names
  <2>3. SaversApart'
    BY <1>13 DEF FileInv, FileType, SaversApart, Store!Saves, NoCall, Store!SavedBeside, Unlink, Answers, Step, names
  <2>4. ASSUME NEW q \in Process PROVE (InPhase(q) /\ Writes(q) /\ Reads(q))'
    <3>1. InPhase(q)'
      BY <1>13 DEF FileInv, FileType, NodeOrNone, InPhase, Points, Saving, Loading, Deleting, Unlink, Answers, Step, names
    <3>2. Writes(q)'
      BY <1>13 DEF FileInv, FileType, NodeOrNone, InPhase, Points, Saving, Loading, Deleting, Writes, Apart, Opened, SaversApart, Store!Saves, NoCall, Store!SavedBeside, Unlink, Answers, Step, names
    <3>3. Reads(q)'
      BY <1>13 DEF FileInv, FileType, NodeOrNone, InPhase, Points, Saving, Loading, Deleting, Reads, Apart, Opened, Unlink, Answers, Step, names
    <3> QED BY <3>1, <3>2, <3>3
  <2> QED BY <2>1, <2>2, <2>3, <2>4 DEF FileInv
<1>14. ASSUME NEW p \in Process, Forget(p) PROVE FileInv'
  <2>1. FileType'
    BY <1>14 DEF FileInv, FileType, NodeOrNone, InPhase, Points, Saving, Loading, Deleting, Forget, names
  <2>2. Apart' /\ Opened'
    BY <1>14 DEF FileInv, FileType, NodeOrNone, Apart, Opened, InPhase, Points, Saving, Loading, Deleting, Reads, Forget, names
  <2>3. SaversApart'
    BY <1>14 DEF FileInv, FileType, SaversApart, Store!Saves, NoCall, Store!SavedBeside, Forget, names
  <2>4. ASSUME NEW q \in Process PROVE (InPhase(q) /\ Writes(q) /\ Reads(q))'
    <3>1. InPhase(q)'
      BY <1>14 DEF FileInv, FileType, NodeOrNone, InPhase, Points, Saving, Loading, Deleting, Forget, names
    <3>2. Writes(q)'
      BY <1>14 DEF FileInv, FileType, NodeOrNone, InPhase, Points, Saving, Loading, Deleting, Writes, Apart, Opened, SaversApart, Store!Saves, NoCall, Store!SavedBeside, Forget, names
    <3>3. Reads(q)'
      BY <1>14 DEF FileInv, FileType, NodeOrNone, InPhase, Points, Saving, Loading, Deleting, Reads, Apart, Opened, Forget, names
    <3> QED BY <3>1, <3>2, <3>3
  <2> QED BY <2>1, <2>2, <2>3, <2>4 DEF FileInv
<1> QED BY <1>0, <1>1, <1>2, <1>3, <1>4, <1>5, <1>6, <1>7, <1>8, <1>9, <1>10, <1>11, <1>12, <1>13, <1>14 DEF FileNext, StoreStep, Return, CrashStore

-----------------------------------------------------------------------------
\* Each step of the files is a step of the promise, or none of its steps.
LEMMA InitRefines == FileInit => Store!Init
<1> SUFFICES ASSUME FileInit PROVE Store!Init
  OBVIOUS
<1>1. Mapped(file) = [id \in Session |-> Store!NoAsset]
  BY DEF FileInit, Mapped, Store!NoAsset
<1>2. Foretold = [p \in Process |-> Pending]
  BY DEF FileInit, Foretold
<1> QED BY <1>1, <1>2 DEF FileInit, Store!Init, NoCall, Pending

\* What is stored of a session, and what a call will answer.
LEMMA StoredTyped ==
  ASSUME FileInv
  PROVE  /\ Mapped(file) \in [Session -> Whole \cup {Store!NoAsset, Store!Garbled}]
         /\ \A id \in Session :
              /\ Mapped(file)[id] = Store!NoAsset <=> file[id] = NoInode
              /\ Mapped(file)[id] \in Whole => data[file[id]] = Mapped(file)[id]
              /\ file[id] # NoInode =>
                   Parsed(data[file[id]]) = IF Mapped(file)[id] = Store!Garbled THEN Store!Failed
                                            ELSE Mapped(file)[id]
         /\ Foretold = [p \in Process |-> Foretold[p]]
<1>1. ASSUME NEW id \in Session
      PROVE  /\ Mapped(file)[id] = IF file[id] = NoInode THEN Store!NoAsset
                                   ELSE IF IsWhole(data[file[id]]) THEN data[file[id]] ELSE Store!Garbled
             /\ file[id] # NoInode => data[file[id]] \in Whole \cup {Blank, Torn}
  BY DEF Mapped, FileInv, FileType, NodeOrNone, Store!NoAsset, Store!Garbled
<1>2. Mapped(file) = [id \in Session |-> Mapped(file)[id]]
  BY DEF Mapped
<1>3. ASSUME NEW id \in Session
      PROVE  /\ Mapped(file)[id] \in Whole \cup {Store!NoAsset, Store!Garbled}
             /\ Mapped(file)[id] = Store!NoAsset <=> file[id] = NoInode
             /\ Mapped(file)[id] \in Whole => data[file[id]] = Mapped(file)[id]
             /\ file[id] # NoInode =>
                  Parsed(data[file[id]]) = IF Mapped(file)[id] = Store!Garbled THEN Store!Failed
                                           ELSE Mapped(file)[id]
  BY <1>1, Kinds, WhatIsRead
<1> QED BY <1>2, <1>3 DEF Foretold

\* A step on a session several processes save changes nothing but what is
\* stored of it, and what the calls on it will answer.
LEMMA Muddles ==
  ASSUME FileInv, FileInv', NEW p \in Process, call[p].id \in clashed, call[p].id \in Session,
         UNCHANGED <<call, clashed>>,
         \A id \in Session \ {call[p].id} : Mapped(file)'[id] = Mapped(file)[id],
         \A q \in Process :
           \/ Foretold'[q] = Foretold[q]
           \/ /\ call[q] # NoCall /\ call[q].id = call[p].id
              /\ Foretold'[q] \in Whole \cup {Store!Done, Store!Failed, Store!NoAsset}
  PROVE  Store!Next
<1> DEFINE id == call[p].id
<1>1. Mapped(file)' = [Mapped(file) EXCEPT ![id] = Mapped(file)'[id]]
  BY DEF Mapped
<1>2. Mapped(file)'[id] \in {Store!NoAsset, Store!Garbled} \cup Whole
  BY Kinds DEF Mapped, FileInv, FileType, NodeOrNone, IsWhole, Store!NoAsset, Store!Garbled
<1>3. Foretold' = [q \in Process |-> Foretold'[q]]
  BY DEF Foretold
<1>4. Store!Muddle(id)
  BY <1>1, <1>2, <1>3 DEF Store!Muddle, Whole, NoCall
<1> QED BY <1>4 DEF Store!Next

LEMMA NextRefines ==
  FileInv /\ FileInv' /\ [FileNext]_fvars => [Store!Next]_(Store!svars)
<1> SUFFICES ASSUME FileInv, FileInv', [FileNext]_fvars
             PROVE Store!Next \/ UNCHANGED <<Mapped(file), call, Foretold, clashed>>
  BY DEF Store!svars
<1> USE Kinds, LocalFileStoreAssumption
<1>0. CASE UNCHANGED fvars
  BY <1>0 DEF fvars, names, Mapped, Foretold
<1>1. ASSUME NEW p \in Process, NEW id \in Session, NEW a \in Asset, BeginSave(p, id, a)
      PROVE Store!Next
  <2>1. Mapped(file)' = Mapped(file)
    BY <1>1 DEF FileInv, FileType, NodeOrNone, InPhase, Points, Saving, Loading, Deleting, Apart, Opened, Writes, Mapped, Store!NoAsset, BeginSave, names
  <2>2. Foretold' = Foretold
    BY <1>1 DEF FileInv, FileType, NodeOrNone, InPhase, Points, Saving, Loading, Deleting, Apart, Opened, Writes, Reads, Foretold, BeginSave, names
  <2>3. [op |-> "save", id |-> id, asset |-> a] \in Store!Calls
    BY <1>1 DEF Store!Calls
  <2>4. Store!Begin(p, [op |-> "save", id |-> id, asset |-> a])
    BY <1>1, <2>1, <2>2 DEF FileInv, FileType, NodeOrNone, InPhase, Points, Saving, Loading, Deleting, Store!Begin, NoCall, BeginSave
  <2> QED BY <2>3, <2>4 DEF Store!Next
<1>2. ASSUME NEW p \in Process, NEW id \in Session, BeginLoad(p, id)
      PROVE Store!Next
  <2>1. Mapped(file)' = Mapped(file)
    BY <1>2 DEF FileInv, FileType, NodeOrNone, InPhase, Points, Saving, Loading, Deleting, Apart, Opened, Writes, Mapped, Store!NoAsset, BeginLoad, Begins, names
  <2>2. Foretold' = Foretold
    BY <1>2 DEF FileInv, FileType, NodeOrNone, InPhase, Points, Saving, Loading, Deleting, Apart, Opened, Writes, Reads, Foretold, BeginLoad, Begins, names
  <2>3. [op |-> "load", id |-> id] \in Store!Calls
    BY <1>2 DEF Store!Calls
  <2>4. Store!Begin(p, [op |-> "load", id |-> id])
    BY <1>2, <2>1, <2>2 DEF FileInv, FileType, NodeOrNone, InPhase, Points, Saving, Loading, Deleting, Store!Begin, NoCall, BeginLoad, Begins
  <2> QED BY <2>3, <2>4 DEF Store!Next
<1>3. ASSUME NEW p \in Process, NEW id \in Session, BeginDelete(p, id)
      PROVE Store!Next
  <2>1. Mapped(file)' = Mapped(file)
    BY <1>3 DEF FileInv, FileType, NodeOrNone, InPhase, Points, Saving, Loading, Deleting, Apart, Opened, Writes, Mapped, Store!NoAsset, BeginDelete, Begins, names
  <2>2. Foretold' = Foretold
    BY <1>3 DEF FileInv, FileType, NodeOrNone, InPhase, Points, Saving, Loading, Deleting, Apart, Opened, Writes, Reads, Foretold, BeginDelete, Begins, names
  <2>3. [op |-> "delete", id |-> id] \in Store!Calls
    BY <1>3 DEF Store!Calls
  <2>4. Store!Begin(p, [op |-> "delete", id |-> id])
    BY <1>3, <2>1, <2>2 DEF FileInv, FileType, NodeOrNone, InPhase, Points, Saving, Loading, Deleting, Store!Begin, NoCall, BeginDelete, Begins
  <2> QED BY <2>3, <2>4 DEF Store!Next
<1>4. ASSUME NEW p \in Process, Create(p)
      PROVE UNCHANGED <<Mapped(file), call, Foretold, clashed>>
  <2>1. Mapped(file)' = Mapped(file)
    BY <1>4 DEF FileInv, FileType, NodeOrNone, InPhase, Points, Saving, Loading, Deleting, Apart, Opened, Writes, Mapped, Store!NoAsset, Create, Step, TempOf, Free, names
  <2>2. Foretold' = Foretold
    BY <1>4 DEF FileInv, FileType, NodeOrNone, InPhase, Points, Saving, Loading, Deleting, Apart, Opened, Writes, Reads, Foretold, Create, Step, TempOf, Free, names
  <2> QED BY <1>4, <2>1, <2>2 DEF Create, Step, TempOf, Free
<1>5. ASSUME NEW p \in Process, Write(p)
      PROVE Store!Next \/ UNCHANGED <<Mapped(file), call, Foretold, clashed>>
  <2>0. /\ UNCHANGED <<names, call, clashed, answer>> /\ call[p].id \in Session /\ handle[p] # NoInode
        /\ pc[p] = "write" /\ pc' = [pc EXCEPT ![p] = "rename"]
        /\ \A i \in Inode : i # handle[p] => data'[i] = data[i]
        /\ handle' = [handle EXCEPT ![p] = NoInode]
    BY <1>5 DEF FileInv, FileType, NodeOrNone, InPhase, Points, Saving, Loading, Deleting, Write, Step
  <2>1. CASE call[p].id \in clashed
    <3>1. ASSUME NEW id \in Session \ {call[p].id} PROVE Mapped(file)'[id] = Mapped(file)[id]
      <4>1. file[id] # handle[p]
        BY <2>0 DEF FileInv, Opened
      <4> QED BY <2>0, <4>1 DEF Mapped, names, FileInv, FileType, NodeOrNone
    <3>2. ASSUME NEW q \in Process, Foretold'[q] # Foretold[q]
          PROVE  /\ call[q] # NoCall /\ call[q].id = call[p].id
                 /\ Foretold'[q] \in Whole \cup {Store!Done, Store!Failed, Store!NoAsset}
      <4>1. pc[q] = "read" /\ q # p /\ pc'[q] = "read" /\ handle'[q] = handle[q]
        BY <2>0, <3>2 DEF Foretold, FileInv, FileType
      <4>2. handle[q] = handle[p] /\ handle[q] \in Inode
        BY <2>0, <3>2, <4>1 DEF Foretold, FileInv, FileType, NodeOrNone, InPhase, Points, Saving, Loading, Deleting
      <4>3. call[q].id = call[p].id /\ call[q] # NoCall
        BY <2>0, <4>1, <4>2 DEF FileInv, Opened, InPhase
      <4>4. Foretold'[q] = Parsed(data'[handle[q]]) /\ data'[handle[q]] \in Whole \cup {Blank, Torn}
        BY <4>1, <4>2 DEF Foretold, FileInv, FileType
      <4> QED BY <4>3, <4>4, WhatIsRead
    <3> QED BY <2>0, <2>1, <3>1, <3>2, Muddles
  <2>2. CASE call[p].id \notin clashed
    <3>1. /\ handle[p] = temp[call[p].id]
          /\ \A id \in Session : file[id] # handle[p]
          /\ \A q \in Process : pc[q] = "read" => handle[q] # handle[p]
      BY <2>0, <2>2 DEF FileInv, Writes, Reads, Apart
    <3>2. Mapped(file)' = Mapped(file)
      BY <2>0, <3>1 DEF Mapped, names, FileInv, FileType, NodeOrNone
    <3>3. Foretold' = Foretold
      BY <2>0, <3>1 DEF Foretold, FileInv, FileType, NodeOrNone, InPhase, Points, Saving, Loading, Deleting
    <3> QED BY <2>0, <3>2, <3>3
  <2> QED BY <2>1, <2>2
<1>6. ASSUME NEW p \in Process, WriteFails(p)
      PROVE Store!Fail(p)
  <2>1. Mapped(file)' = Mapped(file)
    BY <1>6 DEF FileInv, FileType, NodeOrNone, InPhase, Points, Saving, Loading, Deleting, Apart, Opened, Writes, Mapped, Store!NoAsset, WriteFails, Answers, Step, At, names
  <2>2. Foretold' = [Foretold EXCEPT ![p] = Store!Failed]
    BY <1>6 DEF FileInv, FileType, NodeOrNone, InPhase, Points, Saving, Loading, Deleting, Apart, Opened, Writes, Reads, Foretold, WriteFails, Answers, Step, At, names
  <2>3. call[p] # Store!NoCall /\ Foretold[p] = Store!Open
    BY <1>6 DEF FileInv, FileType, NodeOrNone, InPhase, Points, Saving, Loading, Deleting, Foretold, NoCall, Pending, WriteFails, Answers, Step, At
  <2> QED BY <1>6, <2>1, <2>2, <2>3 DEF FileInv, FileType, NodeOrNone, InPhase, Points, Saving, Loading, Deleting, Store!Fail, Store!Answer, WriteFails, Answers, Step, At, names
<1>7. ASSUME NEW p \in Process, Rename(p)
      PROVE Store!Next
  <2>1. Foretold' = [Foretold EXCEPT ![p] = Store!Done]
    BY <1>7 DEF FileInv, FileType, NodeOrNone, InPhase, Points, Saving, Loading, Deleting, Foretold, Rename, Answers, Step
  <2>2. /\ call[p] # Store!NoCall /\ Foretold[p] = Store!Open /\ call[p].op = "save"
        /\ call[p].id \in Session /\ UNCHANGED <<call, clashed>>
    BY <1>7 DEF FileInv, FileType, NodeOrNone, InPhase, Points, Saving, Loading, Deleting, Foretold, NoCall, Pending, Rename, Answers, Step
  <2>3. CASE call[p].id \in clashed
    <3>1. \A id \in Session \ {call[p].id} : Mapped(file)'[id] = Mapped(file)[id]
      BY <1>7 DEF Mapped, FileInv, FileType, Rename, Answers, Step
    <3>2. \A q \in Process : Foretold'[q] = IF q = p THEN Store!Done ELSE Foretold[q]
      BY <2>1, StoredTyped
    <3> QED BY <2>2, <2>3, <3>1, <3>2, Muddles DEF NoCall
  <2>4. CASE call[p].id \notin clashed
    <3>1. temp[call[p].id] # NoInode /\ data[temp[call[p].id]] = Store!Found(call[p].asset)
      BY <1>7, <2>4 DEF FileInv, Writes, Rename, Answers, Step
    <3>2. Store!Found(call[p].asset) \in Whole /\ IsWhole(Store!Found(call[p].asset))
      BY <1>7, WhatIsRead DEF FileInv, FileType, NodeOrNone, InPhase, Points, Saving, Loading, Deleting, Rename, Answers, Step
    <3>3. Mapped(file)' = [Mapped(file) EXCEPT ![call[p].id] = Store!Found(call[p].asset)]
      BY <1>7, <3>1, <3>2 DEF Mapped, FileInv, FileType, Rename, Answers, Step
    <3>4. Store!Save(p)
      BY <2>1, <2>2, <3>3 DEF Store!Save, Store!Answer
    <3> QED BY <3>4 DEF Store!Next
  <2> QED BY <2>3, <2>4
<1>8. ASSUME NEW p \in Process, Missing(p)
      PROVE Store!Load(p) \/ Store!Delete(p)
  <2>1. Mapped(file)' = Mapped(file)
    BY <1>8 DEF FileInv, FileType, NodeOrNone, InPhase, Points, Saving, Loading, Deleting, Apart, Opened, Writes, Mapped, Store!NoAsset, Missing, Answers, Step, At, names
  <2>2. Foretold' = [Foretold EXCEPT ![p] = Store!NoAsset]
    BY <1>8 DEF FileInv, FileType, NodeOrNone, InPhase, Points, Saving, Loading, Deleting, Apart, Opened, Writes, Reads, Foretold, Missing, Answers, Step, At, names
  <2>3. call[p] # Store!NoCall /\ Foretold[p] = Store!Open
    BY <1>8 DEF FileInv, FileType, NodeOrNone, InPhase, Points, Saving, Loading, Deleting, Foretold, NoCall, Pending, Missing, Answers, Step, At
  <2>4. Mapped(file)[call[p].id] = Store!NoAsset /\ call[p].id \in Session
    BY <1>8, StoredTyped DEF FileInv, FileType, NodeOrNone, InPhase, Points, Saving, Loading, Deleting, Missing, Answers, Step, At
  <2> QED BY <1>8, <2>1, <2>2, <2>3, <2>4 DEF FileInv, FileType, NodeOrNone, InPhase, Points, Saving, Loading, Deleting, Store!Load, Store!Delete, Store!Answer, Missing, Answers, Step, At, names
<1>9. ASSUME NEW p \in Process, Exists(p)
      PROVE UNCHANGED <<Mapped(file), call, Foretold, clashed>>
  <2>1. Mapped(file)' = Mapped(file)
    BY <1>9 DEF FileInv, FileType, NodeOrNone, InPhase, Points, Saving, Loading, Deleting, Apart, Opened, Writes, Mapped, Store!NoAsset, Exists, Step, At, names
  <2>2. Foretold' = Foretold
    BY <1>9 DEF FileInv, FileType, NodeOrNone, InPhase, Points, Saving, Loading, Deleting, Apart, Opened, Writes, Reads, Foretold, Exists, Step, At, names
  <2> QED BY <1>9, <2>1, <2>2 DEF Exists, Step, At
<1>10. ASSUME NEW p \in Process, Vanished(p)
      PROVE Store!Fail(p)
  <2>1. Mapped(file)' = Mapped(file)
    BY <1>10 DEF FileInv, FileType, NodeOrNone, InPhase, Points, Saving, Loading, Deleting, Apart, Opened, Writes, Mapped, Store!NoAsset, Vanished, Answers, Step, At, names
  <2>2. Foretold' = [Foretold EXCEPT ![p] = Store!Failed]
    BY <1>10 DEF FileInv, FileType, NodeOrNone, InPhase, Points, Saving, Loading, Deleting, Apart, Opened, Writes, Reads, Foretold, Vanished, Answers, Step, At, names
  <2>3. call[p] # Store!NoCall /\ Foretold[p] = Store!Open
    BY <1>10 DEF FileInv, FileType, NodeOrNone, InPhase, Points, Saving, Loading, Deleting, Foretold, NoCall, Pending, Vanished, Answers, Step, At
  <2>4. Mapped(file)[call[p].id] = Store!NoAsset /\ call[p].id \in Session
    BY <1>10, StoredTyped DEF FileInv, FileType, NodeOrNone, InPhase, Points, Saving, Loading, Deleting, Vanished, Answers, Step, At
  <2> QED BY <1>10, <2>1, <2>2, <2>3, <2>4 DEF FileInv, FileType, NodeOrNone, InPhase, Points, Saving, Loading, Deleting, Store!Fail, Store!Answer, Vanished, Answers, Step, At, names
<1>11. ASSUME NEW p \in Process, OpenFile(p)
      PROVE Store!Load(p) \/ Store!Fail(p)
  <2>1. Mapped(file)' = Mapped(file)
    BY <1>11 DEF FileInv, FileType, NodeOrNone, InPhase, Points, Saving, Loading, Deleting, Apart, Opened, Writes, Mapped, Store!NoAsset, OpenFile, Step, names
  <2>2. Foretold' = [Foretold EXCEPT ![p] = Parsed(data[file[call[p].id]])]
    BY <1>11 DEF FileInv, FileType, NodeOrNone, InPhase, Points, Saving, Loading, Deleting, Apart, Opened, Writes, Reads, Foretold, OpenFile, Step, names
  <2>3. call[p] # Store!NoCall /\ Foretold[p] = Store!Open
    BY <1>11 DEF FileInv, FileType, NodeOrNone, InPhase, Points, Saving, Loading, Deleting, Foretold, NoCall, Pending, OpenFile, Step
  <2>4. /\ call[p].op = "load" /\ UNCHANGED <<call, clashed>>
        /\ Parsed(data[file[call[p].id]]) =
             IF Mapped(file)[call[p].id] = Store!Garbled THEN Store!Failed ELSE Mapped(file)[call[p].id]
    BY <1>11, StoredTyped DEF FileInv, FileType, NodeOrNone, InPhase, Points, Saving, Loading, Deleting, OpenFile, Step
  <2> QED BY <2>1, <2>2, <2>3, <2>4 DEF Store!Load, Store!Fail, Store!Answer
<1>12. ASSUME NEW p \in Process, Read(p)
      PROVE UNCHANGED <<Mapped(file), call, Foretold, clashed>>
  <2>1. Mapped(file)' = Mapped(file)
    BY <1>12 DEF FileInv, FileType, NodeOrNone, InPhase, Points, Saving, Loading, Deleting, Apart, Opened, Writes, Mapped, Store!NoAsset, Read, Answers, Step, names
  <2>2. Foretold' = Foretold
    BY <1>12, WhatIsRead DEF FileInv, FileType, NodeOrNone, InPhase, Points, Saving, Loading, Deleting, Apart, Opened, Writes, Reads, Foretold, Read, Answers, Step, names
  <2> QED BY <1>12, <2>1, <2>2 DEF Read, Answers, Step
<1>13. ASSUME NEW p \in Process, Unlink(p)
      PROVE Store!Delete(p)
  <2>1. Mapped(file)' = [Mapped(file) EXCEPT ![call[p].id] = Store!NoAsset]
    BY <1>13 DEF FileInv, FileType, NodeOrNone, InPhase, Points, Saving, Loading, Deleting, Apart, Opened, Writes, Mapped, Store!NoAsset, Unlink, Answers, Step, names
  <2>2. Foretold' = [Foretold EXCEPT ![p] = Store!Done]
    BY <1>13 DEF FileInv, FileType, NodeOrNone, InPhase, Points, Saving, Loading, Deleting, Apart, Opened, Writes, Reads, Foretold, Unlink, Answers, Step, names
  <2>3. call[p] # Store!NoCall /\ Foretold[p] = Store!Open
    BY <1>13 DEF FileInv, FileType, NodeOrNone, InPhase, Points, Saving, Loading, Deleting, Foretold, NoCall, Pending, Unlink, Answers, Step
  <2>4. Mapped(file)[call[p].id] # Store!NoAsset /\ call[p].id \in Session
    BY <1>13, StoredTyped DEF FileInv, FileType, NodeOrNone, InPhase, Points, Saving, Loading, Deleting, Unlink, Answers, Step
  <2> QED BY <1>13, <2>1, <2>2, <2>3, <2>4 DEF FileInv, FileType, NodeOrNone, InPhase, Points, Saving, Loading, Deleting, Store!Delete, Store!Answer, Unlink, Answers, Step, names
<1>14. ASSUME NEW p \in Process, Forget(p)
      PROVE Store!Crash(p)
  <2>1. Mapped(file)' = Mapped(file)
    BY <1>14 DEF FileInv, FileType, NodeOrNone, InPhase, Points, Saving, Loading, Deleting, Apart, Opened, Writes, Mapped, Store!NoAsset, Forget, names
  <2>2. Foretold' = [Foretold EXCEPT ![p] = Pending]
    BY <1>14 DEF FileInv, FileType, NodeOrNone, InPhase, Points, Saving, Loading, Deleting, Apart, Opened, Writes, Reads, Foretold, Forget, names
  <2> QED BY <1>14, <2>1, <2>2 DEF Store!Crash, Pending, NoCall, Forget
<1> QED
  BY <1>0, <1>1, <1>2, <1>3, <1>4, <1>5, <1>6, <1>7, <1>8, <1>9, <1>10, <1>11, <1>12, <1>13, <1>14 DEF FileNext, StoreStep, Return, CrashStore, Store!Next

\* A load answers with a session exactly as some save wrote it, and a save takes
\* effect at one instant or not at all, for any number of processes, sessions
\* and crashes.  What becomes of a session during saves that overlap, of their
\* one temporary file, stays with that session and ends with these saves.
THEOREM SpecStoreIsAtomic == FileSpec => StoreIsAtomic
<1>1. FileInit => FileInv
  BY InvInit
<1>2. FileInv /\ [FileNext]_fvars => FileInv'
  BY InvNext
<1>3. FileInit => Store!Init
  BY InitRefines
<1>4. FileInv /\ FileInv' /\ [FileNext]_fvars => [Store!Next]_(Store!svars)
  BY NextRefines
<1> QED BY <1>1, <1>2, <1>3, <1>4, PTL DEF FileSpec, Store!Spec, StoreIsAtomic

-----------------------------------------------------------------------------
(* The application.                                                        *)

Stored == Mapped(file)
InSession == {"running", "loading", "saving", "removing"}

AppType ==
  /\ app \in [Process -> InSession \cup {"off"}]
  /\ session \in [Process -> Session \cup {None}]
  /\ memory \in [Process -> Asset] /\ work \in [Process -> Asset]
  /\ promised \in [Session -> Asset]
  /\ \A p \in Process : app[p] = "off" <=> session[p] = None

\* Each process is in the call its point says.
Placed(p) ==
  /\ app[p] \in {"off", "running"} => call[p] = NoCall
  /\ app[p] = "loading" =>
       /\ call[p] = [op |-> "load", id |-> session[p]]
       /\ Foretold[p] \in Whole \cup {Pending, Store!NoAsset, Store!Failed, Store!Done}
  /\ app[p] = "saving" => call[p] = [op |-> "save", id |-> session[p], asset |-> memory[p]]
  /\ app[p] = "removing" => call[p] = [op |-> "delete", id |-> session[p]]

\* Asset a has what was promised of session id.
Holds(id, a) == \A c \in Component \ Reloads : promised[id][c] <= a[c]

KeptIn(id) == Holds(id, Empty) \/ (Stored[id] \in Whole /\ Holds(id, Stored[id].asset))
Kept == \A id \in Session \ contested : KeptIn(id)

\* Nobody else writes to the session process p is in, or removes it.
Alone(p) == \A q \in Process \ {p} : session[q] = session[p] => app[q] \notin {"saving", "removing"}

\* In a session nobody contends for, a process passes on what was promised:
\* from the file to memory, from there to the components, and back.
Carried(p) ==
  session[p] \notin contested =>
    /\ app[p] = "running" /\ p \notin behind =>
         Holds(session[p], memory[p]) /\ Holds(session[p], work[p])
    /\ app[p] = "loading" /\ p \notin behind /\ Foretold[p] \in Whole =>
         Holds(session[p], Foretold[p].asset)
    /\ app[p] = "saving" =>
         /\ p \notin behind /\ Alone(p) /\ Holds(session[p], memory[p])
         /\ Foretold[p] = Store!Done => Stored[session[p]] = Store!Found(memory[p])
    /\ app[p] = "removing" => Holds(session[p], Empty)

\* Saves overlap in sessions that are contended for only.
Watched == \A id \in clashed : id \in Session /\ id \in contested

AppInv == AppType /\ Watched /\ Kept /\ \A p \in Process : Placed(p) /\ Carried(p)
Inv == FileInv /\ AppInv

-----------------------------------------------------------------------------
(* What the calls do to the promise of the store.                          *)

\* A call that begins changes neither what is stored nor any answer.
LEMMA BeginsQuietly ==
  ASSUME FileInv, NEW p \in Process, NEW id \in Session,
         (\E a \in Asset : BeginSave(p, id, a)) \/ BeginLoad(p, id) \/ BeginDelete(p, id)
  PROVE  Stored' = Stored /\ Foretold' = Foretold /\ Foretold[p] = Pending
<1>1. /\ pc[p] = "idle" /\ pc' = [pc EXCEPT ![p] = pc'[p]] /\ pc'[p] # "read"
      /\ UNCHANGED <<names, data, handle, answer>>
  BY DEF BeginSave, BeginLoad, BeginDelete, Begins, FileInv, FileType
<1>2. Foretold' = Foretold
  BY <1>1 DEF Foretold, FileInv, FileType
<1> QED BY <1>1, <1>2 DEF Stored, Mapped, names, Foretold, FileInv, InPhase

\* A call that ends, or whose process crashes, leaves what is stored.
LEMMA Forgotten ==
  ASSUME FileInv, NEW p \in Process, Forget(p)
  PROVE  /\ Stored' = Stored /\ call'[p] = NoCall
         /\ \A q \in Process \ {p} : call'[q] = call[q] /\ Foretold'[q] = Foretold[q]
         /\ \A id \in clashed' : id \in clashed
<1>1. Foretold' = [Foretold EXCEPT ![p] = Pending]
  BY DEF Forget, Foretold, FileInv, FileType, names
<1>2. /\ Stored' = Stored /\ call' = [call EXCEPT ![p] = NoCall]
      /\ \A id \in clashed' : id \in clashed
  BY DEF Forget, Stored, Mapped, names
<1> QED BY <1>1, <1>2, StoredTyped DEF FileInv, FileType

\* A call that returns has said its answer.
LEMMA ReturnsForetold ==
  ASSUME FileInv, NEW p \in Process, Return(p)
  PROVE  Foretold[p] = answer[p]
  BY DEF Return, Foretold

\* A step of the files answers one call and does what its answer says, or is on
\* a session saves of which overlap.
Served(p) == Store!Save(p) \/ Store!Load(p) \/ Store!Delete(p) \/ Store!Fail(p)

LEMMA DiskServes ==
  ASSUME FileInv, FileInv', NEW p \in Process, Disk(p)
  PROVE  \/ \E q \in Process : Served(q)
         \/ \E id \in clashed : Store!Muddle(id)
         \/ UNCHANGED <<Stored, call, Foretold, clashed>>
<1>1. StoreStep(p)
  BY DEF Disk
<1>2. [FileNext]_fvars
  BY <1>1 DEF FileNext
<1>3. [Store!Next]_(Store!svars)
  BY <1>2, NextRefines
<1>4. call' = call /\ clashed' = clashed
  BY <1>1 DEF StoreStep, Create, Write, WriteFails, Rename, Missing, Exists, Vanished,
              OpenFile, Read, Unlink, Answers, Step
<1>5. CASE UNCHANGED Store!svars
  BY <1>5 DEF Store!svars, Stored
<1>6. ASSUME NEW q \in Process, NEW c \in Store!Calls, Store!Begin(q, c) PROVE FALSE
  <2>1. c.op \in {"save", "load", "delete"}
    BY DEF Store!Calls
  <2>2. call[q] = Store!NoCall /\ call' = [call EXCEPT ![q] = c]
    BY <1>6 DEF Store!Begin
  <2>3. call'[q] = c
    BY <2>2 DEF FileInv, FileType
  <2> QED BY <1>4, <2>1, <2>2, <2>3 DEF Store!NoCall
<1>7. ASSUME NEW q \in Process, Store!End(q) \/ Store!Crash(q)
      PROVE  UNCHANGED <<Stored, call, Foretold, clashed>>
  <2>1. /\ call' = [call EXCEPT ![q] = Store!NoCall]
        /\ Foretold' = [Foretold EXCEPT ![q] = Store!Open] /\ Stored' = Stored
    BY <1>7 DEF Store!End, Store!Crash, Stored
  <2>2. call[q] = NoCall
    BY <1>4, <2>1 DEF FileInv, FileType, NoCall
  <2>3. Foretold[q] = Pending
    BY <2>2 DEF FileInv, InPhase, Foretold
  <2>4. Foretold' = Foretold
    BY <2>1, <2>3, StoredTyped DEF Pending
  <2> QED BY <1>4, <2>1, <2>4
<1> QED BY <1>3, <1>5, <1>6, <1>7 DEF Store!Next, Served

-----------------------------------------------------------------------------
(* The application's steps.                                                *)

LEMMA Assets ==
  /\ Empty \in Asset
  /\ \A a \in Asset : Started(a) \in Asset
  /\ \A a, w \in Asset, collected \in SUBSET Component : Merged(a, w, collected) \in Asset
  /\ \A d \in Whole : d.asset \in Asset /\ d = Store!Found(d.asset)
  BY SessionsAssumption DEF Empty, Started, Merged, Whole, Store!Found

\* Every asset has what is promised of a session of which nothing is.
LEMMA EmptyHolds ==
  ASSUME AppType, NEW id \in Session, Holds(id, Empty), NEW a \in Asset
  PROVE  Holds(id, a)
  BY SessionsAssumption DEF AppType, Holds, Empty

\* A process that takes no part in a step carries what it did, if it is behind
\* now or no more is promised than was, and nobody writes beside it.
LEMMA Bystander ==
  ASSUME NEW q \in Process, AppType, Placed(q), Carried(q),
         app'[q] = app[q], session'[q] = session[q], memory'[q] = memory[q],
         work'[q] = work[q], call'[q] = call[q],
         Foretold'[q] = Foretold[q],
         session[q] # None /\ session[q] \notin contested' =>
           /\ session[q] \notin contested
           /\ q \notin behind' => q \notin behind
           /\ \/ q \in behind' /\ app[q] \in {"running", "loading"}
              \/ \A a \in Asset : Holds(session[q], a) => Holds(session[q], a)'
           /\ app[q] = "saving" =>
                Alone(q)' /\ q \notin behind' /\ Stored'[session[q]] = Stored[session[q]]
  PROVE  (Placed(q) /\ Carried(q))'
<1>1. Placed(q)'
  BY DEF Placed
<1>2. CASE session[q] = None
  <2>1. app'[q] = "off"
    BY <1>2 DEF AppType
  <2> QED BY <1>1, <2>1 DEF Carried
<1>3. CASE session[q] # None /\ session[q] \in contested'
  BY <1>1, <1>3 DEF Carried
<1>4. CASE session[q] # None /\ session[q] \notin contested'
  <2>1. /\ memory[q] \in Asset /\ work[q] \in Asset /\ Empty \in Asset
        /\ Foretold[q] \in Whole => Foretold[q].asset \in Asset
    BY Assets DEF AppType
  <2>2. \A a : Holds(session[q], a)' <=> \A c \in Component \ Reloads : promised'[session[q]][c] <= a[c]
    BY DEF Holds
  <2> QED BY <1>1, <1>4, <2>1, <2>2 DEF Carried, Holds
<1> QED BY <1>2, <1>3, <1>4

LEMMA Frame ==
  ASSUME AppType, NEW p \in Process, NEW to \in InSession \cup {"off"},
         NEW id \in Session \cup {None}, NEW a \in Asset, NEW w \in Asset,
         Becomes(p, to, id, a, w), to = "off" <=> id = None,
         promised' \in [Session -> Asset]
  PROVE  /\ AppType'
         /\ app'[p] = to /\ session'[p] = id /\ memory'[p] = a /\ work'[p] = w
         /\ \A q \in Process \ {p} :
              /\ app'[q] = app[q] /\ session'[q] = session[q]
              /\ memory'[q] = memory[q] /\ work'[q] = work[q]
<1>1. /\ app'[p] = to /\ session'[p] = id /\ memory'[p] = a /\ work'[p] = w
      /\ \A q \in Process \ {p} :
           /\ app'[q] = app[q] /\ session'[q] = session[q]
           /\ memory'[q] = memory[q] /\ work'[q] = work[q]
  BY DEF AppType, Becomes
<1>2. AppType'
  BY <1>1 DEF AppType, Becomes
<1> QED BY <1>1, <1>2

\* Nothing stored or promised changes, and process p goes on.
LEMMA GoesOn ==
  ASSUME AppInv, NEW p \in Process, AppType', Watched',
         Stored' = Stored, promised' = promised,
         \A id \in contested : id \in contested',
         \A q \in Process \ {p} :
           /\ app'[q] = app[q] /\ session'[q] = session[q]
           /\ memory'[q] = memory[q] /\ work'[q] = work[q]
           /\ call'[q] = call[q] /\ Foretold'[q] = Foretold[q]
           /\ q \in behind' <=> q \in behind
           /\ app[q] = "saving" /\ session'[p] = session[q] =>
                app'[p] \notin {"saving", "removing"} \/ session[q] \in contested',
         Placed(p)', Carried(p)'
  PROVE  AppInv'
<1>1. Kept'
  BY DEF AppInv, Kept, KeptIn, Holds
<1>2. ASSUME NEW q \in Process \ {p} PROVE (Placed(q) /\ Carried(q))'
  <2>1. \A a : Holds(session[q], a)' <=> Holds(session[q], a)
    BY DEF Holds
  <2>2. ASSUME app[q] = "saving", session[q] \notin contested' PROVE Alone(q)' /\ q \notin behind'
    <3>1. Alone(q) /\ q \notin behind
      BY <2>2 DEF AppInv, Carried
    <3> QED BY <2>2, <3>1 DEF Alone
  <2> QED BY <2>1, <2>2, Bystander DEF AppInv
<1> QED BY <1>1, <1>2 DEF AppInv

LEMMA AppInit == Init => AppInv
<1> SUFFICES ASSUME Init PROVE AppInv
  OBVIOUS
<1>1. AppType
  BY Assets, SessionsAssumption DEF Init, AppType
<1>2. Watched
  BY DEF Init, FileInit, Watched
<1>3. Kept
  BY SessionsAssumption DEF Init, Kept, KeptIn, Holds, Empty
<1>4. \A p \in Process : Placed(p) /\ Carried(p)
  BY DEF Init, FileInit, Placed, Carried
<1> QED BY <1>1, <1>2, <1>3, <1>4 DEF AppInv

\* What does not change when no call does.
LEMMA FilesStill ==
  ASSUME AppInv, UNCHANGED fvars, UNCHANGED contested
  PROVE  Stored' = Stored /\ Foretold' = Foretold /\ call' = call /\ Watched'
  BY DEF AppInv, fvars, names, Stored, Mapped, Foretold, Watched

LEMMA NewKeeps ==
  ASSUME Inv, NEW p \in Process, NEW id \in Session, New(p, id)
  PROVE  AppInv'
<1>1. /\ app[p] = "off" /\ Becomes(p, "running", id, Empty, Empty) /\ file[id] = NoInode
      /\ UNCHANGED <<fvars, promised, behind, contested>>
  BY DEF New
<1>2. Stored' = Stored /\ Foretold' = Foretold /\ call' = call /\ Watched'
  BY <1>1, FilesStill DEF Inv
<1>3. /\ AppType'
      /\ app'[p] = "running" /\ session'[p] = id /\ memory'[p] = Empty /\ work'[p] = Empty
      /\ \A q \in Process \ {p} :
           /\ app'[q] = app[q] /\ session'[q] = session[q]
           /\ memory'[q] = memory[q] /\ work'[q] = work[q]
  BY <1>1, Frame, Assets, SessionsAssumption DEF Inv, AppInv, AppType, InSession
<1>4. id \notin contested => Holds(id, Empty)
  BY <1>1, StoredTyped, Kinds DEF Inv, AppInv, Kept, KeptIn, Stored
<1>5. Placed(p)' /\ Carried(p)'
  BY <1>1, <1>2, <1>3, <1>4 DEF Inv, AppInv, Placed, Carried, Holds
<1> QED BY <1>1, <1>2, <1>3, <1>5, GoesOn DEF Inv

LEMMA ResumeKeeps ==
  ASSUME Inv, NEW p \in Process, NEW id \in Session, Resume(p, id)
  PROVE  AppInv'
<1>1. /\ app[p] = "off" /\ Becomes(p, "loading", id, Empty, Empty)
      /\ UNCHANGED <<promised, behind, contested>> /\ BeginLoad(p, id)
  BY DEF Resume
<1>2. Stored' = Stored /\ Foretold' = Foretold /\ Foretold[p] = Pending
  BY <1>1, BeginsQuietly DEF Inv
<1>3. call' = [call EXCEPT ![p] = [op |-> "load", id |-> id]] /\ clashed' = clashed
  BY <1>1 DEF BeginLoad, Begins
<1>4. /\ AppType'
      /\ app'[p] = "loading" /\ session'[p] = id /\ memory'[p] = Empty /\ work'[p] = Empty
      /\ \A q \in Process \ {p} :
           /\ app'[q] = app[q] /\ session'[q] = session[q]
           /\ memory'[q] = memory[q] /\ work'[q] = work[q]
  BY <1>1, Frame, Assets, SessionsAssumption DEF Inv, AppInv, AppType, InSession
<1>5. /\ call'[p] = [op |-> "load", id |-> id]
      /\ \A q \in Process \ {p} : call'[q] = call[q]
  BY <1>3 DEF Inv, FileInv, FileType
<1>6. Placed(p)' /\ Carried(p)'
  BY <1>2, <1>4, <1>5, Kinds DEF Placed, Carried
<1>7. Watched'
  BY <1>1, <1>3 DEF Inv, AppInv, Watched
<1> QED BY <1>1, <1>2, <1>4, <1>5, <1>6, <1>7, GoesOn DEF Inv

LEMMA WorkKeeps ==
  ASSUME Inv, NEW p \in Process, NEW c \in Component, Work(p, c)
  PROVE  AppInv'
<1>1. /\ app[p] = "running" /\ work[p][c] < MaxWork
      /\ work' = [work EXCEPT ![p][c] = @ + 1]
      /\ UNCHANGED <<fvars, app, session, memory, promised, behind, contested>>
  BY DEF Work
<1>2. Stored' = Stored /\ Foretold' = Foretold /\ call' = call /\ Watched'
  BY <1>1, FilesStill DEF Inv
<1>3. work[p] \in [Component -> 0..MaxWork]
  BY SessionsAssumption DEF Inv, AppInv, AppType
<1>4. work' = [work EXCEPT ![p] = [work[p] EXCEPT ![c] = work[p][c] + 1]]
  BY <1>1
<1>5. [work[p] EXCEPT ![c] = work[p][c] + 1] \in Asset
  BY <1>1, <1>3, SessionsAssumption
<1>6. AppType'
  BY <1>1, <1>4, <1>5 DEF Inv, AppInv, AppType
<1>7. /\ work'[p] = [work[p] EXCEPT ![c] = work[p][c] + 1]
      /\ \A q \in Process \ {p} : work'[q] = work[q]
  BY <1>4 DEF Inv, AppInv, AppType
<1>8. session[p] \in Session
  BY <1>1 DEF Inv, AppInv, AppType
<1>9. session[p] \notin contested /\ p \notin behind =>
        Holds(session[p], work[p]) /\ Holds(session[p], memory[p])
  BY <1>1 DEF Inv, AppInv, Carried
<1>10. \A d \in Component : promised[session[p]][d] \in Nat
  BY <1>8, SessionsAssumption DEF Inv, AppInv, AppType
<1>11. Holds(session[p], work[p]) => Holds(session[p], work'[p])
  BY <1>3, <1>7, <1>10 DEF Holds
<1>12. Placed(p)' /\ Carried(p)'
  BY <1>1, <1>2, <1>9, <1>11 DEF Inv, AppInv, Placed, Carried, Holds
<1> QED BY <1>1, <1>2, <1>6, <1>7, <1>12, GoesOn DEF Inv

\* A process that is gone carries nothing.
LEMMA Gone ==
  ASSUME AppType, NEW p \in Process, Ends(p), promised' \in [Session -> Asset]
  PROVE  /\ AppType' /\ app'[p] = "off" /\ session'[p] = None
         /\ \A q \in Process \ {p} :
              /\ app'[q] = app[q] /\ session'[q] = session[q]
              /\ memory'[q] = memory[q] /\ work'[q] = work[q]
<1>1. Becomes(p, "off", None, Empty, Empty) /\ Empty \in Asset
  BY Assets DEF Ends
<1>2. "off" \in InSession \cup {"off"} /\ None \in Session \cup {None}
  OBVIOUS
<1> QED BY <1>1, <1>2, Frame

LEMMA EndsKeeps ==
  ASSUME Inv, NEW p \in Process, Ends(p), Forget(p), promised' = promised,
         contested' = contested, behind' = behind \ {p}
  PROVE  AppInv'
<1>1. /\ AppType' /\ app'[p] = "off" /\ session'[p] = None
      /\ \A q \in Process \ {p} :
           /\ app'[q] = app[q] /\ session'[q] = session[q]
           /\ memory'[q] = memory[q] /\ work'[q] = work[q]
  BY Gone DEF Inv, AppInv, AppType
<1>2. /\ Stored' = Stored /\ call'[p] = NoCall
      /\ \A q \in Process \ {p} : call'[q] = call[q] /\ Foretold'[q] = Foretold[q]
      /\ \A id \in clashed' : id \in clashed
  BY Forgotten DEF Inv
<1>3. Placed(p)' /\ Carried(p)'
  BY <1>1, <1>2 DEF Placed, Carried
<1>4. Watched'
  BY <1>2 DEF Inv, AppInv, Watched
<1> QED BY <1>1, <1>2, <1>3, <1>4, GoesOn DEF Inv

LEMMA QuitKeeps ==
  ASSUME Inv, NEW p \in Process, Quit(p)
  PROVE  AppInv'
<1>1. /\ app[p] = "running" /\ Ends(p) /\ UNCHANGED <<fvars, promised, contested>>
      /\ behind' = behind \ {p}
  BY DEF Quit
<1>2. Stored' = Stored /\ Foretold' = Foretold /\ call' = call /\ Watched'
  BY <1>1, FilesStill DEF Inv
<1>3. /\ AppType' /\ app'[p] = "off" /\ session'[p] = None
      /\ \A q \in Process \ {p} :
           /\ app'[q] = app[q] /\ session'[q] = session[q]
           /\ memory'[q] = memory[q] /\ work'[q] = work[q]
  BY <1>1, Gone DEF Inv, AppInv, AppType
<1>4. Placed(p)' /\ Carried(p)'
  BY <1>1, <1>2, <1>3 DEF Inv, AppInv, Placed, Carried
<1> QED BY <1>1, <1>2, <1>3, <1>4, GoesOn DEF Inv

LEMMA LoadedKeeps ==
  ASSUME Inv, NEW p \in Process, Loaded(p)
  PROVE  AppInv'
<1> DEFINE id == session[p]
<1>1. /\ app[p] = "loading" /\ Return(p) /\ Forget(p) /\ promised' = promised
      /\ contested' = contested
  BY DEF Loaded, Return
<1>2. CASE answer[p].is # "found"
  BY <1>1, <1>2, EndsKeeps DEF Loaded
<1>3. CASE answer[p].is = "found"
  <2> DEFINE a == answer[p].asset
  <2>1. Becomes(p, "running", id, a, Started(a)) /\ behind' = behind
    BY <1>3 DEF Loaded
  <2>2. /\ Foretold[p] = answer[p]
        /\ id \notin contested /\ p \notin behind /\ Foretold[p] \in Whole =>
             Holds(id, Foretold[p].asset)
    BY <1>1, ReturnsForetold DEF Inv, AppInv, Carried
  <2>3. id \in Session /\ id # None
    BY <1>1, SessionsAssumption DEF Inv, AppInv, AppType
  <2>4. answer[p] \in Whole
    <3>1. Foretold[p] \in Whole \cup {Pending, Store!NoAsset, Store!Failed, Store!Done}
      BY <1>1 DEF Inv, AppInv, Placed
    <3> QED BY <1>3, <2>2, <3>1 DEF Pending, Store!Open, Store!NoAsset, Store!Failed, Store!Done
  <2>5. a \in Asset /\ Started(a) \in Asset
    BY <2>4, Assets
  <2>6. /\ AppType'
        /\ app'[p] = "running" /\ session'[p] = id /\ memory'[p] = a /\ work'[p] = Started(a)
        /\ \A q \in Process \ {p} :
             /\ app'[q] = app[q] /\ session'[q] = session[q]
             /\ memory'[q] = memory[q] /\ work'[q] = work[q]
    BY <1>1, <2>1, <2>3, <2>5, Frame DEF Inv, AppInv, AppType, InSession
  <2>7. id \notin contested /\ p \notin behind => Holds(id, a) /\ Holds(id, Started(a))
    BY <2>2, <2>4 DEF Holds, Started
  <2>8. /\ Stored' = Stored /\ call'[p] = NoCall
        /\ \A q \in Process \ {p} : call'[q] = call[q] /\ Foretold'[q] = Foretold[q]
        /\ \A id2 \in clashed' : id2 \in clashed
    BY <1>1, Forgotten DEF Inv
  <2>9. Placed(p)' /\ Carried(p)'
    BY <1>1, <2>1, <2>6, <2>7, <2>8 DEF Placed, Carried, Holds
  <2>10. Watched'
    BY <1>1, <2>8 DEF Inv, AppInv, Watched
  <2> QED BY <1>1, <2>1, <2>6, <2>8, <2>9, <2>10, GoesOn DEF Inv
<1> QED BY <1>2, <1>3

\* Who is in the middle of a save says so.
LEMMA Callers ==
  ASSUME Inv, NEW q \in Process, call[q] # NoCall
  PROVE  /\ session[q] \in Session /\ call[q].id = session[q]
         /\ call[q].op = "load" => app[q] = "loading"
         /\ call[q].op = "save" => app[q] = "saving" /\ call[q].asset = memory[q]
         /\ call[q].op = "delete" => app[q] = "removing"
<1>1. app[q] \in {"loading", "saving", "removing"}
  BY DEF Inv, AppInv, AppType, Placed, InSession
<1>2. session[q] \in Session
  BY <1>1 DEF Inv, AppInv, AppType
<1>3. CASE app[q] = "loading"
  <2>1. call[q] = [op |-> "load", id |-> session[q]]
    BY <1>3 DEF Inv, AppInv, Placed
  <2> QED BY <1>2, <1>3, <2>1
<1>4. CASE app[q] = "saving"
  <2>1. call[q] = [op |-> "save", id |-> session[q], asset |-> memory[q]]
    BY <1>4 DEF Inv, AppInv, Placed
  <2> QED BY <1>2, <1>4, <2>1
<1>5. CASE app[q] = "removing"
  <2>1. call[q] = [op |-> "delete", id |-> session[q]]
    BY <1>5 DEF Inv, AppInv, Placed
  <2> QED BY <1>2, <1>5, <2>1
<1> QED BY <1>1, <1>3, <1>4, <1>5

LEMMA PauseKeeps ==
  ASSUME Inv, NEW p \in Process, Pause(p)
  PROVE  AppInv' /\ \E a \in Asset : BeginSave(p, session[p], a)
<1> DEFINE id == session[p]
<1>1. app[p] = "running" /\ promised' = promised /\ behind' = behind
  BY DEF Pause
<1>2. PICK collected \in SUBSET Component :
        LET a == Merged(memory[p], work[p], collected)
        IN BeginSave(p, id, a) /\ Becomes(p, "saving", id, a, Empty)
  BY DEF Pause
<1> DEFINE a == Merged(memory[p], work[p], collected)
<1>3. id \in Session /\ id # None
  BY <1>1, SessionsAssumption DEF Inv, AppInv, AppType
<1>4. memory[p] \in Asset /\ work[p] \in Asset /\ a \in Asset
  BY Assets DEF Inv, AppInv, AppType
<1>5. id \notin contested /\ p \notin behind => Holds(id, a)
  BY <1>1 DEF Inv, AppInv, Carried, Holds, Merged
<1>6. BeginSave(p, id, a) /\ Becomes(p, "saving", id, a, Empty)
  BY <1>2
<1> HIDE DEF a
<1>7. /\ \A id2 \in contested : id2 \in contested'
      /\ id \notin contested' =>
           /\ id \notin contested /\ p \notin behind
           /\ \A q \in Process \ {p} : session[q] = id => app[q] \notin {"saving", "removing"}
  BY DEF Pause, Others
<1>8. Stored' = Stored /\ Foretold' = Foretold /\ Foretold[p] = Pending
  BY <1>3, <1>4, <1>6, BeginsQuietly DEF Inv
<1>9. /\ call'[p] = [op |-> "save", id |-> id, asset |-> a]
      /\ \A q \in Process \ {p} : call'[q] = call[q]
  BY <1>6 DEF BeginSave, Inv, FileInv, FileType
<1>10. /\ AppType'
       /\ app'[p] = "saving" /\ session'[p] = id /\ memory'[p] = a
       /\ \A q \in Process \ {p} :
            /\ app'[q] = app[q] /\ session'[q] = session[q]
            /\ memory'[q] = memory[q] /\ work'[q] = work[q]
  BY <1>1, <1>3, <1>4, <1>6, Assets, Frame DEF Inv, AppInv, AppType, InSession
<1>11. Placed(p)' /\ Carried(p)'
  BY <1>1, <1>5, <1>7, <1>8, <1>9, <1>10, Kinds DEF Placed, Carried, Holds, Alone
<1>12. Watched'
  <2> SUFFICES ASSUME NEW id2 \in clashed' PROVE id2 \in Session /\ id2 \in contested'
    BY DEF Watched
  <2>1. CASE id2 \in clashed
    BY <1>7, <2>1 DEF Inv, AppInv, Watched
  <2>2. CASE id2 \notin clashed
    <3>1. id2 = id
      BY <1>6, <2>2 DEF BeginSave
    <3>2. PICK q \in Process : Store!Saves(q, id)
      BY <1>6, <2>2 DEF BeginSave
    <3>3. app[q] = "saving" /\ session[q] = id
      BY <3>2, Callers DEF Store!Saves, NoCall
    <3> QED BY <1>1, <1>3, <1>7, <3>1, <3>3
  <2> QED BY <2>1, <2>2
<1>13. \A q \in Process \ {p} :
         app[q] = "saving" /\ session'[p] = session[q] => session[q] \in contested'
  BY <1>7, <1>10
<1> QED BY <1>1, <1>4, <1>6, <1>7, <1>8, <1>9, <1>10, <1>11, <1>12, <1>13, GoesOn DEF Inv

LEMMA SavedKeeps ==
  ASSUME Inv, NEW p \in Process, Saved(p)
  PROVE  AppInv'
<1> DEFINE id == session[p]
<1>1. app[p] = "saving" /\ Return(p) /\ Forget(p) /\ Ends(p) /\ contested' = contested
  BY DEF Saved, Return
<1>2. CASE answer[p] # Store!Done
  BY <1>1, <1>2, EndsKeeps DEF Saved
<1>3. CASE answer[p] = Store!Done
  <2>1. /\ promised' = [promised EXCEPT ![id] = memory[p]]
        /\ behind' = (behind \ {p}) \cup Others(p, id)
    BY <1>3 DEF Saved
  <2>2. id \in Session /\ id # None
    BY <1>1, SessionsAssumption DEF Inv, AppInv, AppType
  <2>3. /\ promised' \in [Session -> Asset] /\ promised'[id] = memory[p]
        /\ \A id2 \in Session \ {id} : promised'[id2] = promised[id2]
    BY <2>1, <2>2 DEF Inv, AppInv, AppType
  <2>4. /\ AppType' /\ app'[p] = "off" /\ session'[p] = None
        /\ \A q \in Process \ {p} :
             /\ app'[q] = app[q] /\ session'[q] = session[q]
             /\ memory'[q] = memory[q] /\ work'[q] = work[q]
    BY <1>1, <2>3, Gone DEF Inv, AppInv
  <2>5. /\ Stored' = Stored /\ call'[p] = NoCall
        /\ \A q \in Process \ {p} : call'[q] = call[q] /\ Foretold'[q] = Foretold[q]
        /\ \A id2 \in clashed' : id2 \in clashed
    BY <1>1, Forgotten DEF Inv
  <2>6. id \notin contested => Alone(p) /\ Stored[id] = Store!Found(memory[p])
    BY <1>1, <1>3, ReturnsForetold DEF Inv, AppInv, Carried
  <2>7. memory[p] \in [Component -> 0..MaxWork] /\ memory[p] \in Asset
    BY SessionsAssumption DEF Inv, AppInv, AppType
  <2>8. id \notin contested => Stored[id] \in Whole /\ Stored[id].asset = memory[p]
    BY <2>6, <2>7, Kinds DEF Store!Found
  <2>9. \A c \in Component : promised'[id][c] <= memory[p][c]
    BY <2>3, <2>7
  <2>10. Kept'
    <3> SUFFICES ASSUME NEW id2 \in Session \ contested PROVE KeptIn(id2)'
      BY <1>1 DEF Kept
    <3>1. CASE id2 = id
      BY <2>5, <2>8, <2>9, <3>1 DEF KeptIn, Holds
    <3>2. CASE id2 # id
      BY <2>3, <2>5, <3>2 DEF Inv, AppInv, Kept, KeptIn, Holds
    <3> QED BY <3>1, <3>2
  <2>11. Placed(p)' /\ Carried(p)' /\ Watched'
    BY <1>1, <2>4, <2>5 DEF Inv, AppInv, Watched, Placed, Carried
  <2>12. ASSUME NEW q \in Process \ {p} PROVE (Placed(q) /\ Carried(q))'
    <3>1. ASSUME session[q] = id, id \notin contested
          PROVE  q \in behind' /\ app[q] \in {"running", "loading"}
      BY <2>1, <2>2, <2>6, <3>1 DEF Others, Alone, Inv, AppInv, AppType, InSession
    <3>2. ASSUME session[q] \in Session, session[q] # id
          PROVE  \A a \in Asset : Holds(session[q], a) => Holds(session[q], a)'
      BY <2>3, <2>4, <3>2 DEF Holds
    <3>3. session[q] # id => (q \in behind' <=> q \in behind)
      BY <2>1 DEF Others
    <3>4. ASSUME app[q] = "saving", session[q] \notin contested, session[q] # id
          PROVE  Alone(q)' /\ q \notin behind'
      <4>1. Alone(q) /\ q \notin behind
        BY <3>4 DEF Inv, AppInv, Carried
      <4>2. session[q] # None
        BY <3>4 DEF Inv, AppInv, AppType
      <4> QED BY <2>4, <3>3, <3>4, <4>1, <4>2 DEF Alone
    <3>5. session[q] = None \/ session[q] \in Session
      BY DEF Inv, AppInv, AppType
    <3>6. q \notin behind' => q \notin behind
      BY <2>1
    <3> QED BY <1>1, <2>2, <2>4, <2>5, <3>1, <3>2, <3>4, <3>5, <3>6, Bystander DEF Inv, AppInv
  <2> QED BY <2>4, <2>10, <2>11, <2>12 DEF AppInv
<1> QED BY <1>2, <1>3

LEMMA RemoveKeeps ==
  ASSUME Inv, NEW p \in Process, NEW id \in Session, Remove(p, id)
  PROVE  AppInv'
<1>1. /\ app[p] = "off" /\ Becomes(p, "removing", id, Empty, Empty) /\ behind' = behind
      /\ promised' = [promised EXCEPT ![id] = Empty] /\ BeginDelete(p, id)
  BY DEF Remove
<1>2. Stored' = Stored /\ Foretold' = Foretold
  BY <1>1, BeginsQuietly DEF Inv
<1>3. /\ call'[p] = [op |-> "delete", id |-> id] /\ clashed' = clashed
      /\ \A q \in Process \ {p} : call'[q] = call[q]
  BY <1>1 DEF BeginDelete, Begins, Inv, FileInv, FileType
<1>4. /\ promised' \in [Session -> Asset] /\ promised'[id] = Empty
      /\ \A id2 \in Session \ {id} : promised'[id2] = promised[id2]
  BY <1>1, Assets DEF Inv, AppInv, AppType
<1>5. /\ AppType'
      /\ app'[p] = "removing" /\ session'[p] = id
      /\ \A q \in Process \ {p} :
           /\ app'[q] = app[q] /\ session'[q] = session[q]
           /\ memory'[q] = memory[q] /\ work'[q] = work[q]
  BY <1>1, <1>4, Frame, Assets, SessionsAssumption DEF Inv, AppInv, InSession
<1>6. Holds(id, Empty)'
  BY <1>4 DEF Holds, Empty
<1>7. /\ \A id2 \in contested : id2 \in contested'
      /\ id \notin contested' => \A q \in Process \ {p} : session[q] = id => app[q] # "saving"
  BY DEF Remove, Others
<1>8. Kept'
  <2> SUFFICES ASSUME NEW id2 \in Session \ contested' PROVE KeptIn(id2)'
    BY DEF Kept
  <2> QED BY <1>2, <1>4, <1>6, <1>7 DEF Inv, AppInv, Kept, KeptIn, Holds
<1>9. Placed(p)' /\ Carried(p)' /\ Watched'
  BY <1>3, <1>5, <1>6, <1>7 DEF Inv, AppInv, Watched, Placed, Carried, Holds
<1>10. ASSUME NEW q \in Process \ {p} PROVE (Placed(q) /\ Carried(q))'
  <2>1. ASSUME session[q] \in Session, NEW a \in Asset, Holds(session[q], a)
        PROVE  Holds(session[q], a)'
    <3>1. CASE session[q] = id
      <4>1. \A c \in Component : promised'[id][c] = 0 /\ a[c] \in Nat
        BY <1>4, SessionsAssumption DEF Empty
      <4> QED BY <1>5, <2>1, <3>1, <4>1, SessionsAssumption DEF Holds
    <3>2. CASE session[q] # id
      BY <1>4, <1>5, <2>1, <3>2 DEF Holds
    <3> QED BY <3>1, <3>2
  <2>2. ASSUME app[q] = "saving", session[q] \notin contested' PROVE Alone(q)' /\ q \notin behind'
    <3>1. Alone(q) /\ q \notin behind
      BY <1>7, <2>2 DEF Inv, AppInv, Carried
    <3> QED BY <1>1, <1>5, <1>7, <2>2, <3>1 DEF Alone
  <2>3. session[q] = None \/ session[q] \in Session
    BY DEF Inv, AppInv, AppType
  <2> QED BY <1>1, <1>2, <1>3, <1>5, <1>7, <2>1, <2>2, <2>3, Bystander DEF Inv, AppInv
<1> QED BY <1>5, <1>8, <1>9, <1>10 DEF AppInv

-----------------------------------------------------------------------------
(* The store's steps, while the application waits.                         *)

\* Only what is stored of session id changes, and the answers to calls on it.
LEMMA OneSessionChanges ==
  ASSUME Inv, NEW id \in Session, avars' = avars, call' = call, clashed' = clashed,
         \A id2 \in Session \ {id} : Stored'[id2] = Stored[id2],
         id \notin contested => KeptIn(id)',
         \A q \in Process : Placed(q)',
         \A q \in Process : session[q] # id => Foretold'[q] = Foretold[q],
         \A q \in Process : session[q] = id => Carried(q)'
  PROVE  AppInv'
<1>1. UNCHANGED <<app, session, memory, work, promised, behind, contested>>
  BY DEF avars
<1>2. AppType' /\ Watched'
  BY <1>1 DEF Inv, AppInv, AppType, Watched
<1>3. Kept'
  BY <1>1 DEF Inv, AppInv, Kept, KeptIn, Holds
<1>4. ASSUME NEW q \in Process, session[q] # id PROVE Carried(q)'
  <2>1. \A a \in Asset : Holds(session[q], a) => Holds(session[q], a)'
    BY <1>1 DEF Holds
  <2>2. session[q] = None \/ Stored'[session[q]] = Stored[session[q]]
    BY <1>4 DEF Inv, AppInv, AppType
  <2>3. ASSUME app[q] = "saving", session[q] \notin contested PROVE Alone(q)' /\ q \notin behind
    BY <1>1, <2>3 DEF Inv, AppInv, Carried, Alone
  <2> QED BY <1>1, <1>4, <2>1, <2>2, <2>3, Bystander DEF Inv, AppInv
<1> QED BY <1>2, <1>3, <1>4 DEF AppInv

\* One answer is said: what is stored changes for the caller's session only.
LEMMA ServedKeeps ==
  ASSUME Inv, NEW q \in Process, Served(q), avars' = avars
  PROVE  AppInv'
<1> DEFINE id == session[q]
<1>1. /\ call[q] # NoCall /\ call' = call /\ clashed' = clashed /\ Foretold[q] = Pending
      /\ Foretold' = [Foretold EXCEPT ![q] = Foretold'[q]]
  <2>1. \E a : Store!Answer(q, a)
    BY DEF Served, Store!Save, Store!Load, Store!Delete, Store!Fail
  <2>2. PICK a : Store!Answer(q, a)
    BY <2>1
  <2>3. Foretold' = [Foretold EXCEPT ![q] = a]
    BY <2>2 DEF Store!Answer
  <2>4. Foretold'[q] = a
    BY <2>3, StoredTyped DEF Inv
  <2> QED BY <2>2, <2>3, <2>4 DEF Store!Answer, NoCall, Pending
<1>2. /\ UNCHANGED <<app, session, memory, work, promised, behind, contested>>
      /\ \A r \in Process \ {q} : Foretold'[r] = Foretold[r]
      /\ id \in Session /\ call[q].id = id
  BY <1>1, StoredTyped, Callers DEF Inv, avars
<1>3. \A r \in Process \ {q} : Placed(r)'
  BY <1>1, <1>2 DEF Inv, AppInv, Placed
<1>4. ASSUME \A id2 \in Session \ {id} : Stored'[id2] = Stored[id2],
             Stored'[id] # Stored[id] => app[q] \in {"saving", "removing"},
             id \notin contested => KeptIn(id)',
             Placed(q)', Carried(q)'
      PROVE  AppInv'
  <2>1. ASSUME NEW r \in Process, session[r] = id, r # q PROVE Carried(r)'
    <3>1. ASSUME app[r] = "saving", id \notin contested
          PROVE  Alone(r)' /\ r \notin behind /\ Stored'[id] = Stored[id]
      <4>1. Alone(r) /\ r \notin behind
        BY <2>1, <3>1 DEF Inv, AppInv, Carried
      <4>2. app[q] \notin {"saving", "removing"}
        BY <2>1, <4>1 DEF Alone
      <4> QED BY <1>2, <1>4, <4>1, <4>2 DEF Alone
    <3>2. \A a \in Asset : Holds(session[r], a) => Holds(session[r], a)'
      BY <1>2 DEF Holds
    <3> QED BY <1>1, <1>2, <2>1, <3>1, <3>2, Bystander DEF Inv, AppInv
  <2>2. \A r \in Process : (session[r] # id => Foretold'[r] = Foretold[r]) /\ Placed(r)'
    BY <1>2, <1>3, <1>4
  <2>3. \A r \in Process : session[r] = id => Carried(r)'
    BY <1>4, <2>1
  <2> QED BY <1>1, <1>2, <1>4, <2>2, <2>3, OneSessionChanges
<1>5. Stored' = Stored /\ id \notin contested => KeptIn(id)'
  BY <1>2 DEF Inv, AppInv, Kept, KeptIn, Holds
<1>6. CASE Store!Save(q)
  <2>1. /\ app[q] = "saving"
        /\ call[q] = [op |-> "save", id |-> id, asset |-> memory[q]] /\ memory[q] \in Asset
        /\ id \notin contested => Holds(id, memory[q]) /\ Alone(q) /\ q \notin behind
    BY <1>1, <1>6, Callers DEF Store!Save, Inv, AppInv, AppType, Placed, Carried
  <2>2. Stored' = [Stored EXCEPT ![id] = Store!Found(memory[q])]
    BY <1>6, <2>1 DEF Store!Save, Stored
  <2>3. /\ Stored'[id] = Store!Found(memory[q])
        /\ \A id2 \in Session \ {id} : Stored'[id2] = Stored[id2]
    BY <1>2, <2>2, StoredTyped DEF Inv, Stored
  <2>4. Stored'[id] \in Whole /\ Stored'[id].asset = memory[q]
    BY <2>1, <2>3, Kinds DEF Store!Found
  <2>5. id \notin contested => KeptIn(id)'
    BY <1>2, <2>1, <2>4 DEF KeptIn, Holds
  <2>6. Placed(q)' /\ Carried(q)'
    BY <1>1, <1>2, <2>1, <2>3 DEF Placed, Carried, Holds, Alone
  <2> QED BY <1>4, <2>1, <2>3, <2>5, <2>6
<1>7. CASE Store!Load(q)
  <2>1. Stored' = Stored /\ Foretold'[q] = Stored[id] /\ app[q] = "loading" /\ Stored[id] # Store!Garbled
    <3>1. Foretold' = [Foretold EXCEPT ![q] = Stored[id]]
      BY <1>2, <1>7 DEF Store!Load, Store!Answer, Stored
    <3> QED BY <1>1, <1>2, <1>7, <3>1, StoredTyped, Callers DEF Store!Load, Stored, Inv
  <2>2. Stored[id] \in Whole \cup {Store!NoAsset}
    BY <1>2, <2>1, StoredTyped DEF Inv, Stored
  <2>3. id \notin contested /\ Stored[id] \in Whole => Holds(id, Stored[id].asset)
    BY <1>2, Assets, EmptyHolds DEF Inv, AppInv, Kept, KeptIn
  <2>4. Placed(q)'
    BY <1>1, <1>2, <2>1, <2>2 DEF Inv, AppInv, Placed
  <2>5. Carried(q)'
    BY <1>1, <1>2, <2>1, <2>2, <2>3 DEF Carried, Holds
  <2> QED BY <1>4, <1>5, <2>1, <2>4, <2>5
<1>8. CASE Store!Delete(q)
  <2>1. app[q] = "removing" /\ (id \notin contested => Holds(id, Empty))
    BY <1>1, <1>8, Callers DEF Store!Delete, Inv, AppInv, Carried
  <2>2. Stored' = Stored \/ Stored' = [Stored EXCEPT ![id] = Store!NoAsset]
    BY <1>2, <1>8 DEF Store!Delete, Stored
  <2>3. \A id2 \in Session \ {id} : Stored'[id2] = Stored[id2]
    BY <1>2, <2>2, StoredTyped DEF Inv, Stored
  <2>4. Placed(q)' /\ Carried(q)'
    BY <1>1, <1>2, <2>1 DEF Inv, AppInv, Placed, Carried, Holds
  <2>5. id \notin contested => KeptIn(id)'
    BY <1>2, <2>1 DEF KeptIn, Holds
  <2> QED BY <1>4, <2>1, <2>3, <2>4, <2>5
<1>9. CASE Store!Fail(q)
  <2>1. Stored' = Stored /\ Foretold'[q] = Store!Failed
    <3>1. Foretold' = [Foretold EXCEPT ![q] = Store!Failed]
      BY <1>9 DEF Store!Fail, Store!Answer
    <3> QED BY <1>9, <3>1, StoredTyped DEF Store!Fail, Stored, Inv
  <2>2. Store!Failed \notin Whole /\ Store!Failed # Store!Done
    BY DEF Whole, Store!Failed, Store!Done, Store!Found
  <2>3. Placed(q)'
    BY <1>1, <1>2, <2>1 DEF Inv, AppInv, Placed
  <2>4. Carried(q)'
    BY <1>1, <1>2, <2>1, <2>2 DEF Inv, AppInv, Carried, Holds, Alone
  <2> QED BY <1>4, <1>5, <2>1, <2>3, <2>4
<1> QED BY <1>6, <1>7, <1>8, <1>9 DEF Served

\* Saves overlap in contested sessions only, of which nothing is claimed.
LEMMA MuddleKeeps ==
  ASSUME Inv, NEW id \in clashed, Store!Muddle(id), avars' = avars
  PROVE  AppInv'
<1>1. /\ UNCHANGED <<app, session, memory, work, promised, behind, contested>>
      /\ id \in Session /\ id \in contested /\ call' = call /\ clashed' = clashed
  BY DEF avars, Inv, AppInv, Watched, Store!Muddle
<1>2. ASSUME NEW id2 \in Session, id2 # id PROVE Stored'[id2] = Stored[id2]
  <2>1. Stored' = [Stored EXCEPT ![id] = Stored'[id]]
    BY DEF Store!Muddle, Stored
  <2> QED BY <1>2, <2>1, StoredTyped DEF Inv, Stored
<1>3. ASSUME NEW q \in Process
      PROVE  \/ Foretold'[q] = Foretold[q]
             \/ /\ session[q] = id
                /\ Foretold'[q] \in Whole \cup {Store!Done, Store!Failed, Store!NoAsset}
  <2>1. \/ Foretold'[q] = Foretold[q]
        \/ /\ call[q] # NoCall /\ call[q].id = id
           /\ Foretold'[q] \in Whole \cup {Store!Done, Store!Failed, Store!NoAsset}
    BY DEF Store!Muddle, Whole, NoCall
  <2> QED BY <2>1, Callers
<1>4. \A q \in Process : Placed(q)'
  BY <1>1, <1>3 DEF Inv, AppInv, Placed
<1>5. \A q \in Process : session[q] = id => Carried(q)'
  BY <1>1 DEF Carried
<1> QED BY <1>1, <1>2, <1>3, <1>4, <1>5, OneSessionChanges

LEMMA DiskKeeps ==
  ASSUME Inv, FileInv', NEW p \in Process, Disk(p)
  PROVE  AppInv'
<1>1. avars' = avars
  BY DEF Disk
<1>2. CASE \E q \in Process : Served(q)
  BY <1>1, <1>2, ServedKeeps
<1>3. CASE \E id \in clashed : Store!Muddle(id)
  BY <1>1, <1>3, MuddleKeeps
<1>4. CASE UNCHANGED <<Stored, call, Foretold, clashed>>
  <2>1. UNCHANGED <<app, session, memory, work, promised, behind, contested,
                    Stored, call, Foretold, clashed>>
    BY <1>1, <1>4 DEF avars
  <2> QED BY <2>1 DEF Inv, AppInv, AppType, Watched, Kept, KeptIn, Placed, Carried, Holds, Alone
<1> QED BY <1>2, <1>3, <1>4, DiskServes DEF Inv

-----------------------------------------------------------------------------
\* Each step of a process is a step of the files, or leaves them alone.
LEMMA StepsOfFiles == Inv /\ [Next]_vars => [FileNext]_fvars
<1> SUFFICES ASSUME Inv, [Next]_vars PROVE [FileNext]_fvars
  OBVIOUS
<1>1. ASSUME NEW p \in Process, Pause(p) PROVE FileNext
  <2>1. app[p] = "running"
    BY <1>1 DEF Pause
  <2>2. session[p] \in Session
    BY <2>1 DEF Inv, AppInv, AppType
  <2> QED BY <1>1, <2>2, PauseKeeps DEF FileNext
<1> QED BY <1>1 DEF Next, vars, New, Resume, Remove, Work, Loaded, Saved, Quit,
                    Crash, Finish, Disk, FileNext

LEMMA AppNext == Inv /\ FileInv' /\ [Next]_vars => AppInv'
<1> SUFFICES ASSUME Inv, FileInv', [Next]_vars PROVE AppInv'
  OBVIOUS
<1>1. CASE UNCHANGED vars
  <2>1. Stored' = Stored /\ Foretold' = Foretold
    BY <1>1 DEF vars, fvars, names, Stored, Mapped, Foretold
  <2>2. UNCHANGED <<call, clashed, app, session, memory, work, promised, behind, contested>>
    BY <1>1 DEF vars, fvars, avars
  <2> QED BY <2>1, <2>2 DEF Inv, AppInv, AppType, Watched, Kept, KeptIn, Placed, Carried, Holds, Alone
<1>2. ASSUME NEW p \in Process, Crash(p) \/ Finish(p) PROVE AppInv'
  BY <1>2, EndsKeeps DEF Crash, CrashStore, Finish, Return
<1> QED BY <1>1, <1>2, NewKeeps, ResumeKeeps, RemoveKeeps, WorkKeeps, LoadedKeeps,
           PauseKeeps, SavedKeeps, QuitKeeps, DiskKeeps DEF Next

LEMMA InvRemembers == Inv => Remembered
<1> SUFFICES ASSUME Inv, NEW id \in Session \ contested, NEW c \in Component \ Reloads,
                    promised[id][c] > 0
             PROVE  /\ file[id] # NoInode /\ IsWhole(data[file[id]])
                    /\ data[file[id]].asset[c] >= promised[id][c]
  BY DEF Remembered
<1>1. promised[id][c] \in Nat
  BY SessionsAssumption DEF Inv, AppInv, AppType
<1>2. ~Holds(id, Empty)
  BY <1>1 DEF Holds, Empty
<1>3. Stored[id] \in Whole /\ Holds(id, Stored[id].asset)
  BY <1>2 DEF Inv, AppInv, Kept, KeptIn
<1>4. file[id] # NoInode /\ data[file[id]] = Stored[id] /\ IsWhole(Stored[id])
  BY <1>3, StoredTyped, Kinds, WhatIsRead DEF Inv, Stored
<1>5. Stored[id].asset \in [Component -> 0..MaxWork]
  BY <1>3, Assets, SessionsAssumption
<1>6. promised[id][c] <= Stored[id].asset[c] /\ Stored[id].asset[c] \in Nat
  BY <1>3, <1>5, SessionsAssumption DEF Holds
<1> QED BY <1>1, <1>4, <1>6

LEMMA InvSteps == Inv /\ [Next]_vars => Inv'
  BY StepsOfFiles, AppNext, InvNext DEF Inv

\* What the user was told is saved stays in the file, through crashes, failed
\* saves and pauses that collect some of the snapshots, for any number of
\* processes, sessions and components, in every session processes did not
\* contend for: where one paused after another had saved, or while another saved
\* or removed it.  (save_session, LocalFileStore)
THEOREM SpecRemembered == Spec => []Remembered
<1>1. Init => Inv
  BY InvInit, AppInit DEF Init, Inv
<1> QED BY <1>1, InvSteps, InvRemembers, PTL DEF Spec

\* The processes that begin, pause and resume sessions only use the store by
\* the calls SpecStoreIsAtomic is about: it keeps its promise to them.
THEOREM SpecSessionsStoreIsAtomic == Spec => StoreIsAtomic
<1>1. Init => Inv
  BY InvInit, AppInit DEF Init, Inv
<1>2. Inv /\ [Next]_vars => [FileNext]_fvars
  BY StepsOfFiles
<1>3. Spec => FileSpec
  BY <1>1, InvSteps, <1>2, PTL DEF Spec, FileSpec, Init
<1> QED BY <1>3, SpecStoreIsAtomic
===============================================================================
