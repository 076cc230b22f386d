------------------------ MODULE VirtualFsCrash_proofs ------------------------
(***************************************************************************)
(* Theorems about VirtualFsCrash, for every value of its constants: what a *)
(* server that is killed at any time finds when it is started again.       *)
(***************************************************************************)
EXTENDS VirtualFsCrash, VirtualFs_proofs, WellFoundedInduction

Files == [Ids -> Nat \cup {None}]

-----------------------------------------------------------------------------
(* What a crash does to the table and the files.                           *)

\* The kill takes no file away, and leaves the length of those nobody receives.
LEMMA KilledFiles ==
    ASSUME NEW d \in Files, Killed(d)
    PROVE  /\ disk' \in Files
           /\ \A i \in Ids : disk'[i] = None <=> d[i] = None
           /\ \A i \in Ids : ~Received(i) => disk'[i] = d[i]
  <1> DEFINE D == {i \in Ids : d[i] # None /\ \E s \in Sessions : Receives(s, i)}
  <1>1. PICK kept \in [D -> 0..MaxLen] :
           disk' = [i \in Ids |-> IF i \in D /\ kept[i] < d[i] THEN kept[i] ELSE d[i]]
    BY DEF Killed
  <1>2. \A i \in D : kept[i] \in Nat
    BY BoundsAssumption
  <1>3. \A i \in Ids : i \in D => ~(disk'[i] = None) /\ disk'[i] \in Nat /\ d[i] # None
    <2>1. \A i \in D : d[i] # None /\ d[i] \in Nat
      BY DEF Files
    <2>2. \A i \in Ids : i \in D => disk'[i] \in Nat
      BY <1>1, <1>2, <2>1
    <2>3. QED
      BY <2>1, <2>2, NoneAssumption
  <1>4. \A i \in Ids : i \notin D => disk'[i] = d[i]
    BY <1>1
  <1>5. disk' \in Files
    BY <1>1, <1>2 DEF Files
  <1>6. \A i \in Ids : disk'[i] = None <=> d[i] = None
    BY <1>3, <1>4
  <1>7. \A i \in Ids : ~Received(i) => disk'[i] = d[i]
    BY <1>4 DEF Received, Receives
  <1>8. QED
    BY <1>5, <1>6, <1>7

LEMMA KilledTable ==
    ASSUME TableInv, NEW d \in Files, Killed(d), rows' \subseteq Row, UniqueIds',
           NEW objects, Cut(objects), leaked' \subseteq Ids
    PROVE  TableInv'
  <1>1. disk' \in Files
    BY KilledFiles
  <1>2. /\ wd' = [s \in Sessions |-> Root]
        /\ reading' = [s \in Sessions |-> TRUE]
        /\ pendingWrite' = [s \in Sessions |-> None]
        /\ accepting' = [s \in Sessions |-> FALSE]
        /\ receiving' = [s \in Sessions |-> None]
    BY DEF Killed
  <1>3. Root \in Paths
    BY EmptySeq DEF Root, Paths
  <1>4. damaged' \subseteq Ids
    BY DEF Cut
  <1>5. user' \in [Sessions -> Users] /\ \A s \in Sessions : user'[s] \in Accounts[s]
    BY DEF Killed
  <1>6. TypeOK'
    BY <1>1, <1>2, <1>3, <1>4, <1>5 DEF TypeOK, Files
  <1>7. UploadOwnsId' /\ UploadPhases'
    BY <1>2 DEF UploadOwnsId, UploadPhases
  <1>8. QED
    BY <1>6, <1>7 DEF TableInv

\* The files a crash leaves are those of before, but for what it is said to be
\* about; a row that goes has lost its file, unless that could not be removed, and
\* a row that comes is among them.
CrashFiles(d, objects) ==
    /\ d \in Files
    /\ Killed(d)
    /\ Cut(objects)
    /\ \A i \in Ids : d[i] = None \/ d[i] = disk[i]
    /\ \A i \in Ids : (\A r \in objects : r.id # i) => d[i] = disk[i]
    /\ leaked \subseteq leaked' /\ leaked' \subseteq Ids
    /\ \A r \in rows : r \in rows' \/ d[r.id] = None \/ r.id \in leaked'
    /\ \A q \in rows' : q \in rows \/ q \in objects

LEMMA DiskWithoutFiles ==
    ASSUME TypeOK, NEW objects, NEW kept
    PROVE  /\ DiskWithout(objects, kept) \in Files
           /\ \A i \in Ids :
                 /\ \/ DiskWithout(objects, kept)[i] = None
                    \/ DiskWithout(objects, kept)[i] = disk[i]
                 /\ (\E r \in objects : r.id = i) =>
                       DiskWithout(objects, kept)[i] = None \/ i \in kept
                 /\ (\A r \in objects : r.id # i) =>
                       DiskWithout(objects, kept)[i] = disk[i]
  BY DEF TypeOK, DiskWithout, Files, IdsOf

LEMMA KeptFiles ==
    ASSUME TypeOK, NEW objects, objects \subseteq rows, NEW kept \in MayBeKept(objects)
    PROVE  kept \subseteq Ids
  <1>1. \A i \in IdsOf(objects) : i \in Ids
    BY DEF TypeOK, Row, IdsOf
  <1>2. CASE DiskErrors
    BY <1>1, <1>2 DEF MayBeKept
  <1>3. CASE ~DiskErrors
    BY <1>3 DEF MayBeKept
  <1>4. QED
    BY <1>2, <1>3

LEMMA CrashShape ==
    ASSUME TableInv, CrashStep
    PROVE  TableInv' /\ \E d, objects : CrashFiles(d, objects)
  <1>0. disk \in Files /\ rows \subseteq Row /\ leaked \subseteq Ids
    BY DEF TableInv, TypeOK, Files
  <1>1. CASE Crash
    <2>1. CrashFiles(disk, {})
      BY <1>0, <1>1 DEF CrashFiles, Crash
    <2>2. rows' \subseteq Row /\ UniqueIds'
      BY <1>0, <1>1 DEF Crash, TableInv, UniqueIds
    <2>3. TableInv'
      BY <2>1, <2>2, KilledTable DEF CrashFiles
    <2>4. QED
      BY <2>1, <2>3
  <1>2. ASSUME NEW s \in Sessions, CrashInReceiveFile(s)
        PROVE  TableInv' /\ \E d, objects : CrashFiles(d, objects)
    <2> DEFINE p == pendingWrite[s]
    <2>1. p \in ObjectPaths
      BY <1>2 DEF CrashInReceiveFile, TableInv, TypeOK, UploadPhases
    <2>2. Target(p)
      BY <2>1, TargetOfArgument
    <2>3. PICK i \in Ids : Fresh(i) /\ Insert(i, User(s), p, FALSE)
      BY <1>2 DEF CrashInReceiveFile
    <2>4. Killed(disk) /\ Cut(rows' \ rows) /\ leaked' = leaked
      BY <1>2 DEF CrashInReceiveFile
    <2> HIDE DEF p
    <2>5. rows' \subseteq Row /\ UniqueIds' /\ rows \subseteq rows'
      <3>1. User(s) \in Users
        BY UserType DEF TableInv
      <3>2. QED
        BY <1>0, <2>2, <2>3, <3>1, InsertAdds DEF TableInv
    <2>6. CrashFiles(disk, rows' \ rows)
      BY <1>0, <2>4, <2>5 DEF CrashFiles
    <2>7. TableInv'
      BY <1>0, <2>4, <2>5, KilledTable
    <2>8. QED
      BY <2>6, <2>7
  <1>3. ASSUME NEW u, NEW p, CrashInRemoval(u, p)
        PROVE  TableInv' /\ \E d, objects : CrashFiles(d, objects)
    <2>1. PICK o \in GetObject(u, p) :
             LET inside == RemovedWith(u, p, o) \ {o} IN
             /\ \/ /\ rows' = rows
                   /\ \E freed \in SUBSET inside : Killed(DiskWithout(freed, {}))
                   /\ UNCHANGED leaked
                \/ \E kept \in MayBeKept(inside) :
                     /\ rows' = rows \ inside
                     /\ \E freed \in {inside, inside \cup {o}} :
                          Killed(DiskWithout(freed, kept))
                     /\ leaked' = leaked \cup kept
             /\ Cut(inside \cup {o})
      BY <1>3 DEF CrashInRemoval
    <2> DEFINE inside == RemovedWith(u, p, o) \ {o}
               Left(freed, kept) ==
                   /\ freed \subseteq inside \cup {o}
                   /\ Killed(DiskWithout(freed, kept))
                   /\ leaked' = leaked \cup kept /\ kept \subseteq Ids
                   /\ rows' = rows \/ (rows' = rows \ inside /\ inside \subseteq freed)
    <2>2. \E freed, kept : Left(freed, kept)
      <3>1. ASSUME rows' = rows, NEW freed \in SUBSET inside,
                   Killed(DiskWithout(freed, {})), UNCHANGED leaked
            PROVE  Left(freed, {})
        BY <3>1
      <3>2. ASSUME NEW kept \in MayBeKept(inside), rows' = rows \ inside,
                   NEW freed \in {inside, inside \cup {o}},
                   Killed(DiskWithout(freed, kept)), leaked' = leaked \cup kept
            PROVE  Left(freed, kept)
        <4>1. inside \subseteq rows
          BY DEF RemovedWith, GetObject
        <4>2. kept \subseteq Ids
          BY <4>1, KeptFiles DEF TableInv
        <4>3. QED
          BY <3>2, <4>2
      <3> HIDE DEF Left
      <3>3. QED
        BY <2>1, <3>1, <3>2
    <2>3. PICK freed, kept : Left(freed, kept)
      BY <2>2
    <2>4. Cut(inside \cup {o})
      BY <2>1
    <2> DEFINE d == DiskWithout(freed, kept)
    <2>5. /\ d \in Files
          /\ \A i \in Ids : /\ d[i] = None \/ d[i] = disk[i]
                            /\ (\E r \in freed : r.id = i) => d[i] = None \/ i \in kept
                            /\ (\A r \in freed : r.id # i) => d[i] = disk[i]
      BY DiskWithoutFiles DEF TableInv
    <2>6. /\ Killed(d)
          /\ freed \subseteq inside \cup {o}
          /\ leaked' = leaked \cup kept /\ kept \subseteq Ids
          /\ rows' \subseteq rows /\ \A r \in rows : r \in rows' \/ r \in freed
      BY <2>3
    <2> HIDE DEF inside, d, Left
    <2>7. CrashFiles(d, inside \cup {o})
      BY <1>0, <2>4, <2>5, <2>6 DEF CrashFiles, Row
    <2>8. UniqueIds' /\ rows' \subseteq Row
      BY <1>0, <2>6 DEF TableInv, UniqueIds
    <2>9. TableInv'
      BY <2>4, <2>5, <2>6, <2>7, <2>8, KilledTable DEF CrashFiles
    <2>10. QED
      BY <2>7, <2>9
  <1>4. QED
    BY <1>1, <1>2, <1>3 DEF CrashStep

\* The table stays typed and its ids unique, and the files stay its users'.
LEMMA CrashTable == CrashSpec => []TableInv
  <1>1. Init => TableInv
    BY TableInit
  <1>2. TableInv /\ [Next \/ CrashStep]_vars => TableInv'
    BY TableNext, CrashShape
  <1>3. QED
    BY <1>1, <1>2, PTL DEF CrashSpec

-----------------------------------------------------------------------------
(* The data files that no row owns.                                        *)

OneUser == \A u, v \in Users : u = v

\* The only step that makes a data file is the one that opens it.
LEMMA StepOpens ==
    ASSUME TableInv, NEW s \in Sessions, Step(s), ~ReceiveFile(s)
    PROVE  /\ \A i \in Ids : disk[i] = None => disk'[i] = None
           /\ \A t \in Sessions : receiving'[t] # None =>
                 receiving[t] # None /\ receiving'[t].id = receiving[t].id
  <1>1. CASE ReceiveChunk(s)
    <2>1. /\ receiving[s] \in Upload /\ receiving[s] # None
          /\ disk[receiving[s].id] = None => disk'[receiving[s].id] = None
          /\ \A i \in Ids : i # receiving[s].id => disk'[i] = disk[i]
      BY <1>1 DEF ReceiveChunk, TableInv, TypeOK, Upload
    <2>2. receiving'[s].id = receiving[s].id
      BY <1>1, <2>1 DEF ReceiveChunk, TableInv, TypeOK, Upload
    <2>3. \A t \in Sessions : t # s => receiving'[t] = receiving[t]
      BY <1>1 DEF ReceiveChunk, TableInv, TypeOK
    <2>4. QED
      BY <2>1, <2>2, <2>3
  <1>2. CASE ReceiveEnd(s) \/ WriteFails(s)
    <2>1. PICK n \in Nat : Ends(s, n)
      BY <1>2, EndsUpload DEF TableInv
    <2>2. \A i \in Ids : disk'[i] = None <=> disk[i] = None
      BY <2>1, ClosedFile DEF Ends, TableInv
    <2>3. receiving' = [receiving EXCEPT ![s] = None]
      BY <2>1 DEF Ends, Recorded
    <2>4. QED
      BY <2>2, <2>3 DEF TableInv, TypeOK
  <1>3. CASE \E p : RemoveObject(User(s), p) /\ UNCHANGED upload
    BY <1>3 DEF RemoveObject, DiskWithout, upload
  <1>4. CASE \/ CDUP(s) \/ CWDRoot(s) \/ Leave(s) \/ Return(s) \/ RETR(s)
             \/ \E u \in Users : USER(s, u)
             \/ \E abs \in BOOLEAN, segs \in Segments :
                   CWD(s, abs, segs) \/ MKD(s, abs, segs) \/ STOR(s, abs, segs)
    BY <1>4 DEF CDUP, CWDRoot, Leave, Return, RETR, USER, CWD, MKD, STOR, table, upload
  <1>5. QED
    BY <1>1, <1>2, <1>3, <1>4 DEF Step, RMD, DELE

\* The file that an upload opens is there, and it has a row, unless another user's
\* row has taken the place of the new one.
LEMMA ReceiveFileOpens ==
    ASSUME TableInv, NEW s \in Sessions, ReceiveFile(s)
    PROVE  /\ \A t \in Sessions : receiving'[t] # None =>
                 \/ receiving[t] # None /\ receiving'[t].id = receiving[t].id
                 \/ disk'[receiving'[t].id] # None
           /\ OneUser => \A i \in Ids : disk[i] = None /\ disk'[i] # None =>
                             \E q \in rows' : q.id = i
  <1> DEFINE p == pendingWrite[s]
             Opens == \A t \in Sessions : receiving'[t] # None =>
                         \/ receiving[t] # None /\ receiving'[t].id = receiving[t].id
                         \/ disk'[receiving'[t].id] # None
             Owned == OneUser => \A i \in Ids : disk[i] = None /\ disk'[i] # None =>
                                     \E q \in rows' : q.id = i
  <1>1. ASSUME NEW i \in Ids, NEW n, NEW append, Opened(s, i, n, append)
        PROVE  Opens /\ \A j \in Ids : disk[j] = None /\ disk'[j] # None => j = i
    <2> DEFINE new == [id |-> i, owner |-> User(s), file |-> p, size |-> n, off |-> 0,
                       append |-> append]
    <2>1. /\ receiving' = [receiving EXCEPT ![s] = new] /\ new.id = i
          /\ disk' = [disk EXCEPT ![i] = 0]
      BY <1>1 DEF Opened
    <2> HIDE DEF new
    <2>2. disk'[i] # None
      BY <2>1, NoneAssumption DEF TableInv, TypeOK
    <2>3. QED
      BY <2>1, <2>2 DEF TableInv, TypeOK
  <1>2. ASSUME UNCHANGED <<disk, receiving>>
        PROVE  Opens /\ Owned
    BY <1>2
  <1>3. ASSUME NEW o \in GetObject(User(s), p), UNCHANGED rows,
               Opened(s, o.id, o.size, FALSE)
        PROVE  Opens /\ Owned
    <2>1. o \in rows' /\ o.id \in Ids
      BY <1>3 DEF GetObject, TableInv, TypeOK, Row
    <2>2. QED
      BY <1>1, <1>3, <2>1
  <1>4. ASSUME NEW i \in Ids, ~CannotCreate(User(s), p), Insert(i, User(s), p, FALSE),
               Opened(s, i, 0, TRUE)
        PROVE  Opens /\ Owned
    <2>1. ASSUME OneUser
          PROVE  \E q \in rows' : q.id = i
      <3>1. \A r \in rows : r.user = User(s)
        <4>1. User(s) \in Users
          BY UserType DEF TableInv
        <4>2. QED
          BY <2>1, <4>1 DEF OneUser, TableInv, TypeOK, Row
      <3>2. ~\E r \in rows : r.name = Last(p) /\ r.path = Parent(p)
        BY <1>4, <3>1 DEF CannotCreate, Exists, GetObject
      <3> DEFINE new == [id |-> i, user |-> User(s), path |-> Parent(p),
                         name |-> Last(p), dir |-> FALSE, size |-> 0]
      <3>3. new \in rows' /\ new.id = i
        BY <1>4, <3>2 DEF Insert
      <3>4. QED
        BY <3>3
    <2>2. QED
      BY <1>1, <1>4, <2>1
  <1> HIDE DEF Opens, Owned
  <1>5. Opens /\ Owned
    BY <1>2, <1>3, <1>4 DEF ReceiveFile, NotOpened
  <1>6. QED
    BY <1>5 DEF Opens, Owned

LEMMA LeakedStays ==
    ASSUME NEW s \in Sessions, Step(s)
    PROVE  leaked \subseteq leaked'
  <1>1. CASE \E p : RemoveObject(User(s), p)
    BY <1>1 DEF RemoveObject
  <1>2. CASE \/ CDUP(s) \/ CWDRoot(s) \/ Leave(s) \/ Return(s) \/ RETR(s)
             \/ \E u \in Users : USER(s, u)
             \/ \E abs \in BOOLEAN, segs \in Segments :
                   CWD(s, abs, segs) \/ MKD(s, abs, segs) \/ STOR(s, abs, segs)
             \/ ReceiveFile(s) \/ ReceiveChunk(s) \/ ReceiveEnd(s) \/ WriteFails(s)
    BY <1>2 DEF CDUP, CWDRoot, Leave, Return, RETR, USER, CWD, MKD, STOR, ReceiveFile,
                ReceiveChunk, ReceiveEnd, WriteFails, Recorded, table
  <1>3. QED
    BY <1>1, <1>2 DEF Step, RMD, DELE

LEMMA OwnedStep ==
    ASSUME OneUser, TableInv, RowForDataFile, NEW s \in Sessions, Step(s)
    PROVE  RowForDataFile'
  <1>0. leaked \subseteq leaked'
    BY LeakedStays
  <1>1. ASSUME NEW i \in Ids, disk'[i] # None, disk[i] # None, i \notin leaked'
        PROVE  \E q \in rows' : q.id = i
    <2>1. PICK r \in rows : r.id = i
      BY <1>0, <1>1 DEF RowForDataFile
    <2>2. CASE \E p : RemoveObject(User(s), p)
      <3>1. PICK objects, kept : /\ rows' = rows \ objects
                                 /\ disk' = DiskWithout(objects, kept)
                                 /\ leaked' = leaked \cup kept
        BY <2>2 DEF RemoveObject
      <3>2. r \notin objects
        BY <1>1, <2>1, <3>1 DEF DiskWithout, IdsOf
      <3>3. QED
        BY <2>1, <3>1, <3>2
    <2>3. CASE ~Loses(r)
      BY <2>1, <2>3 DEF Loses
    <2>4. QED
      BY <2>2, <2>3, StepLoses
  <1>2. \A i \in Ids : disk'[i] # None /\ disk[i] = None => \E q \in rows' : q.id = i
    BY StepOpens, ReceiveFileOpens
  <1>3. QED
    BY <1>1, <1>2 DEF RowForDataFile

\* Removing an object is what frees the disk, so a data file that has no row is
\* never freed: with one user there is none but those that the disk refused to
\* remove, even if the server is killed in the middle of removals and uploads (the
\* order of the statements in
\* remove_fs_object and data_receive_file).
THEOREM DataFilesAreOwned == OneUser => (CrashSpec => []RowForDataFile)
  <1> SUFFICES ASSUME OneUser PROVE CrashSpec => []RowForDataFile
    OBVIOUS
  <1>1. Init => RowForDataFile
    BY DEF Init, RowForDataFile
  <1>2. TableInv /\ RowForDataFile /\ [Next \/ CrashStep]_vars => RowForDataFile'
    <2> SUFFICES ASSUME TableInv, RowForDataFile, [Next \/ CrashStep]_vars
                 PROVE  RowForDataFile'
      OBVIOUS
    <2>1. CASE Next
      BY <2>1, OwnedStep DEF Next
    <2>2. CASE CrashStep
      <3>1. PICK d, objects : CrashFiles(d, objects)
        BY <2>2, CrashShape
      <3>2. ASSUME NEW i \in Ids, disk'[i] # None, i \notin leaked'
            PROVE  \E q \in rows' : q.id = i
        <4>1. d[i] # None /\ disk[i] # None
          BY <3>1, <3>2, KilledFiles DEF CrashFiles
        <4>2. PICK r \in rows : r.id = i
          BY <3>1, <3>2, <4>1 DEF RowForDataFile, CrashFiles
        <4>3. QED
          BY <3>1, <3>2, <4>1, <4>2 DEF CrashFiles
      <3>3. QED
        BY <3>2 DEF RowForDataFile
    <2>3. CASE UNCHANGED vars
      BY <2>3 DEF vars, table, RowForDataFile
    <2>4. QED
      BY <2>1, <2>2, <2>3
  <1>3. QED
    BY <1>1, <1>2, CrashTable, PTL DEF CrashSpec

-----------------------------------------------------------------------------
(* The damage a crash does.                                                *)

CrashInv == UploadInv /\ IntactUnlessCut

LEMMA CrashUploads ==
    ASSUME UploadInv, CrashStep
    PROVE  UploadInv' /\ \A i : ~Received(i)'
  <1>1. TableInv'
    BY CrashShape DEF UploadInv
  <1>2. /\ pendingWrite' = [s \in Sessions |-> None]
        /\ accepting' = [s \in Sessions |-> FALSE]
        /\ receiving' = [s \in Sessions |-> None]
    BY CrashShape DEF UploadInv, CrashFiles, Killed
  <1>3. UniquePlaces'
    <2>1. rows' \subseteq rows => UniquePlaces'
      BY DEF UploadInv, UniquePlaces
    <2>2. ASSUME NEW i, NEW u, NEW p, Insert(i, u, p, FALSE) PROVE UniquePlaces'
      BY <2>2, InsertKeepsPlaces DEF UploadInv
    <2>3. ASSUME NEW u, NEW p, CrashInRemoval(u, p) PROVE rows' \subseteq rows
      BY <2>3 DEF CrashInRemoval
    <2>4. ASSUME NEW s \in Sessions, CrashInReceiveFile(s) PROVE UniquePlaces'
      BY <2>2, <2>4 DEF CrashInReceiveFile
    <2>5. CASE Crash
      BY <2>1, <2>5 DEF Crash
    <2>6. QED
      BY <2>1, <2>3, <2>4, <2>5 DEF CrashStep
  <1>4. /\ OnlyUploaders' /\ StillOwner' /\ OpensEmpty' /\ CountsWritten' /\ OwnFile'
        /\ NamesItsFile'
    BY <1>2 DEF OnlyUploaders, StillOwner, OpensEmpty, CountsWritten, OwnFile, NamesItsFile
  <1>5. QED
    BY <1>1, <1>2, <1>3, <1>4 DEF UploadInv, Received

LEMMA IntactCrash ==
    ASSUME CrashInv, CrashStep
    PROVE  CrashInv'
  <1>1. UploadInv' /\ \A i : ~Received(i)'
    BY CrashUploads DEF CrashInv
  <1>2. TableInv'
    BY <1>1 DEF UploadInv
  <1>3. PICK d, objects : CrashFiles(d, objects)
    BY CrashShape DEF CrashInv, UploadInv
  <1>4. ASSUME NEW q \in rows', ~q.dir, q.id \notin damaged'
        PROVE  disk'[q.id] # None /\ disk'[q.id] = q.size
    <2>1. q.id \in Ids
      BY <1>2 DEF TableInv, TypeOK, Row
    <2>2. /\ q.id \notin damaged
          /\ \A r \in objects : r.id # q.id
          /\ ~Received(q.id)
      BY <1>3, <1>4, <2>1 DEF CrashFiles, Cut, IdsOf, Received, Receives
    <2>3. q \in rows
      BY <1>3, <2>2 DEF CrashFiles
    <2>4. disk'[q.id] = disk[q.id]
      BY <1>3, <2>1, <2>2, KilledFiles DEF CrashFiles
    <2>5. QED
      BY <1>4, <2>2, <2>3, <2>4 DEF CrashInv, IntactUnlessCut, Received, Receives
  <1>5. IntactUnlessCut'
    BY <1>4 DEF IntactUnlessCut
  <1>6. QED
    BY <1>1, <1>5 DEF CrashInv

LEMMA IntactWhole ==
    ASSUME OneUploader, ~Overwrite, CrashInv, Next
    PROVE  CrashInv'
  <1>1. PICK s \in Sessions : Step(s)
    BY DEF Next
  <1>2. UploadInv' /\ SizesKept /\ KeepsFiles
    BY <1>1, UploadStep, TableStep DEF CrashInv, UploadInv
  <1>3. ASSUME NEW q \in rows', ~q.dir, q.id \notin damaged'
        PROVE  disk'[q.id] # None /\ (~Received(q.id)' => disk'[q.id] = q.size)
    <2>1. disk'[q.id] # None
      BY <1>2, <1>3 DEF KeepsFiles, CrashInv, IntactUnlessCut
    <2>2. ASSUME ~Received(q.id)' PROVE disk'[q.id] = q.size
      BY <1>2, <1>3, <2>1, <2>2 DEF SizesKept, CrashInv, IntactUnlessCut, Received, Receives
    <2>3. QED
      BY <2>1, <2>2
  <1>4. IntactUnlessCut'
    BY <1>3 DEF IntactUnlessCut, Received, Receives
  <1>5. QED
    BY <1>2, <1>4 DEF CrashInv

\* Whenever the server is killed, and whatever the disk refuses, the files whose
\* upload or removal goes through keep their data and the table their sizes, and an
\* upload that is repeated repairs its file, if STOR names no object that has a
\* size, no user uploads by two sessions, and a session that uploads keeps its user
\* (data_receive_file, data_async_receive_end, remove_fs_object).
THEOREM CrashDamagesOnlyCut ==
    OneUploader /\ ~Overwrite => (CrashSpec => []IntactUnlessCut)
  <1> SUFFICES ASSUME OneUploader, ~Overwrite PROVE CrashSpec => []IntactUnlessCut
    OBVIOUS
  <1>1. Init => CrashInv
    BY UploadInit DEF Init, CrashInv, IntactUnlessCut
  <1>2. CrashInv /\ [Next \/ CrashStep]_vars => CrashInv'
    <2>1. CrashInv /\ UNCHANGED vars => CrashInv'
      <3> SUFFICES ASSUME CrashInv, UNCHANGED vars PROVE CrashInv'
        OBVIOUS
      <3>1. UploadInv'
        BY UploadStutter DEF CrashInv
      <3>2. UNCHANGED <<rows, disk, damaged, receiving>>
        BY DEF vars, table, upload
      <3>3. QED
        BY <3>1, <3>2 DEF CrashInv, IntactUnlessCut, Receives
    <2>2. QED
      BY <2>1, IntactWhole, IntactCrash
  <1>3. CrashInv => IntactUnlessCut
    BY DEF CrashInv
  <1>4. QED
    BY <1>1, <1>2, <1>3, PTL DEF CrashSpec

-----------------------------------------------------------------------------
(* The tree after a crash.                                                 *)

\* What a step does to the rows: it adds one, removes an object with what is
\* inside it, or changes nothing but sizes.
Adds(u, p) ==
    /\ TargetPath(p)
    /\ AbsoluteMkd \/ p \in ObjectPaths
    /\ \/ Len(p) <= MaxDepth
       \/ \E s \in Sessions : p = pendingWrite[s] /\ pendingWrite[s] # None
    /\ ~CannotCreate(u, p)
    /\ \E i \in Ids, isDir \in BOOLEAN : Insert(i, u, p, isDir)

LEMMA StepRows ==
    ASSUME TableInv, NEW s \in Sessions, Step(s)
    PROVE  \/ \E p : Adds(User(s), p)
           \/ \E p : TargetPath(p) /\ RemoveObject(User(s), p)
           \/ \E target \in SUBSET rows, n \in Nat : rows' = {Resize(target, n, r) : r \in rows}
  <1>1. CASE rows' = rows
    <2>1. rows' = {Resize({}, 0, r) : r \in rows}
      BY <1>1 DEF Resize
    <2>2. QED
      BY <2>1
  <1>2. CASE ReceiveEnd(s) \/ WriteFails(s)
    <2>0. PICK n \in Nat : Ends(s, n)
      BY <1>2, EndsUpload DEF TableInv
    <2>1. rows' = {Resize(GetObject(User(s), receiving[s].file), n, r) : r \in rows}
      BY <2>0 DEF Ends, Recorded, Resize
    <2>2. GetObject(User(s), receiving[s].file) \in SUBSET rows
      BY DEF GetObject
    <2>3. QED
      BY <2>1, <2>2
  <1>3. CASE ReceiveFile(s)
    <2> DEFINE p == pendingWrite[s]
    <2>1. p \in ObjectPaths /\ p # None
      BY <1>3 DEF ReceiveFile, TableInv, TypeOK, UploadPhases
    <2>2. \/ rows' = rows
          \/ /\ ~CannotCreate(User(s), p)
             /\ \E i \in Ids : Insert(i, User(s), p, FALSE)
      BY <1>3 DEF ReceiveFile, table
    <2>3. rows' = rows \/ Adds(User(s), p)
      BY <2>1, <2>2 DEF Adds, TargetPath
    <2>4. QED
      BY <1>1, <2>3
  <1>4. ASSUME NEW abs \in BOOLEAN, NEW segs \in Segments,
               MKD(s, abs, segs) \/ RMD(s, abs, segs) \/ DELE(s, abs, segs)
        PROVE  (\E p : Adds(User(s), p)) \/ \E p : TargetPath(p) /\ RemoveObject(User(s), p)
    <2>1. wd[s] \in Paths
      BY DEF TableInv, TypeOK
    <2>2. /\ TargetPath(RmdTarget(wd[s], abs, segs))
          /\ \/ MkdTarget(wd[s], abs, segs) \in ObjectPaths
             \/ /\ abs /\ Len(segs) > 1
                /\ PrefixedPath(MkdTarget(wd[s], abs, segs))
      BY <2>1, ResolvedArgument DEF TargetPath
    <2>3. CASE MKD(s, abs, segs)
      BY <2>2, <2>3 DEF MKD, Adds, TargetPath
    <2>4. CASE RMD(s, abs, segs) \/ DELE(s, abs, segs)
      BY <2>2, <2>4 DEF RMD, DELE, TargetPath
    <2>5. QED
      BY <1>4, <2>3, <2>4
  <1>5. CASE \/ CDUP(s) \/ CWDRoot(s) \/ Leave(s) \/ Return(s) \/ RETR(s) \/ ReceiveChunk(s)
             \/ \E u \in Users : USER(s, u)
             \/ \E abs \in BOOLEAN, segs \in Segments : CWD(s, abs, segs) \/ STOR(s, abs, segs)
    <2>1. rows' = rows
      BY <1>5 DEF CDUP, CWDRoot, Leave, Return, RETR, USER, ReceiveChunk, CWD, STOR, table
    <2>2. QED
      BY <1>1, <2>1
  <1>6. QED
    BY <1>2, <1>3, <1>4, <1>5 DEF Step

LEMMA CrashRows ==
    ASSUME TableInv, CrashStep
    PROVE  \/ rows' = rows
           \/ \E s \in Sessions : \E p : Adds(User(s), p)
           \/ \E u, p : /\ TargetPath(p)
                        /\ \E o \in GetObject(u, p) :
                              rows' = rows \ (RemovedWith(u, p, o) \ {o})
  <1>1. ASSUME NEW s \in Sessions, CrashInReceiveFile(s)
        PROVE  \E p : Adds(User(s), p)
    <2> DEFINE p == pendingWrite[s]
    <2>1. p \in ObjectPaths /\ p # None
      BY <1>1 DEF CrashInReceiveFile, TableInv, TypeOK, UploadPhases
    <2>2. /\ ~CannotCreate(User(s), p)
          /\ \E i \in Ids : Insert(i, User(s), p, FALSE)
      BY <1>1 DEF CrashInReceiveFile
    <2>3. Adds(User(s), p)
      BY <2>1, <2>2 DEF Adds, TargetPath
    <2>4. QED
      BY <2>3
  <1>2. ASSUME NEW s \in Sessions, NEW abs \in BOOLEAN, NEW segs \in Segments,
               NEW p \in {RmdTarget(wd[s], abs, segs), MkdTarget(wd[s], abs, segs)},
               CrashInRemoval(User(s), p)
        PROVE  /\ TargetPath(p)
               /\ \/ rows' = rows
                  \/ \E o \in GetObject(User(s), p) :
                        rows' = rows \ (RemovedWith(User(s), p, o) \ {o})
    <2>1. wd[s] \in Paths
      BY DEF TableInv, TypeOK
    <2>2. TargetPath(p)
      BY <1>2, <2>1, ResolvedArgument DEF TargetPath
    <2>3. QED
      BY <1>2, <2>2 DEF CrashInRemoval
  <1>3. CASE Crash
    BY <1>3 DEF Crash
  <1>4. QED
    BY <1>1, <1>2, <1>3 DEF CrashStep

LEMMA CrashTreeStep ==
    ASSUME ~AbsoluteMkd, TreeInv, CrashStep
    PROVE  TreeInv'
  <1>1. TableInv'
    BY CrashShape DEF TreeInv
  <1>2. CASE rows' = rows
    <2>1. RealPaths' /\ ParentExists'
      BY <1>2 DEF TreeInv, RealPaths, ParentExists, WholePath
    <2>2. QED
      BY <1>1, <2>1 DEF TreeInv
  <1>3. ASSUME NEW u, NEW p, Adds(u, p)
        PROVE  RealPaths' /\ ParentExists'
    BY <1>3, InsertKeepsTree DEF Adds
  <1>4. ASSUME NEW u, NEW p, TargetPath(p), NEW o \in GetObject(u, p),
               rows' = rows \ (RemovedWith(u, p, o) \ {o})
        PROVE  RealPaths' /\ ParentExists'
    BY <1>4, RemoveKeepsTree
  <1>5. QED
    BY <1>1, <1>2, <1>3, <1>4, CrashRows DEF TreeInv

LEMMA CrashTree == ~AbsoluteMkd => (CrashSpec => []TreeInv)
  <1> SUFFICES ASSUME ~AbsoluteMkd PROVE CrashSpec => []TreeInv
    OBVIOUS
  <1>1. Init => TreeInv
    BY TableInit DEF Init, TreeInv, RealPaths, ParentExists
  <1>2. TreeInv /\ [Next \/ CrashStep]_vars => TreeInv'
    <2> SUFFICES ASSUME TreeInv, [Next \/ CrashStep]_vars PROVE TreeInv'
      OBVIOUS
    <2>1. CASE Next
      BY <2>1, TreeStep DEF Next
    <2>2. CASE CrashStep
      BY <2>2, CrashTreeStep
    <2>3. CASE UNCHANGED vars
      <3>1. TableInv'
        BY <2>3, TableNext DEF TreeInv
      <3>2. UNCHANGED rows
        BY <2>3 DEF vars, table
      <3>3. QED
        BY <3>1, <3>2 DEF TreeInv, RealPaths, ParentExists
    <2>4. QED
      BY <2>1, <2>2, <2>3
  <1>3. QED
    BY <1>1, <1>2, PTL DEF CrashSpec

\* Killed at any point of remove_fs_object or data_receive_file, the server finds
\* no orphan when it is started again: what is inside a directory goes before the
\* directory, and a directory is there before what is put into it, unless MKD is
\* given an absolute path of several segments.
THEOREM NoOrphansAfterCrash == ~AbsoluteMkd => (CrashSpec => []ParentExists)
  <1>1. TreeInv => ParentExists
    BY DEF TreeInv
  <1>2. QED
    BY <1>1, CrashTree, PTL

-----------------------------------------------------------------------------
(* What a removal takes, even one that is cut short.                       *)

Inside(lost) ==
    lost = {} \/ \E o \in rows : \A r \in lost :
                     r = o \/ (o.dir /\ IsPrefix(WholePath(o), r.path))

LEMMA LossesInside ==
    ASSUME TypeOK, ExactLike, NEW u, NEW p, TargetPath(p), NEW o \in GetObject(u, p),
           NEW lost, lost \subseteq RemovedWith(u, p, o)
    PROVE  Inside(lost)
  <1>1. o \in rows
    BY DEF GetObject
  <1>2. \A r \in lost : r = o \/ (o.dir /\ IsPrefix(WholePath(o), r.path))
    BY RemovedInside
  <1>3. QED
    BY <1>1, <1>2 DEF Inside

LEMMA CrashLosses ==
    ASSUME TableInv, ExactLike, CrashStep, NEW lost, lost = {r \in rows : Loses(r)}
    PROVE  Inside(lost)
  <1>1. ASSUME rows \subseteq rows', Killed(disk) PROVE Inside(lost)
    <2>1. \A i \in Ids : disk[i] # None => disk'[i] # None
      BY <1>1, KilledFiles DEF TableInv, TypeOK, Files
    <2>2. lost = {}
      BY <1>1, <2>1 DEF Loses, TableInv, TypeOK, Row
    <2>3. QED
      BY <2>2 DEF Inside
  <1>2. CASE Crash
    BY <1>1, <1>2 DEF Crash
  <1>3. ASSUME NEW s \in Sessions, CrashInReceiveFile(s) PROVE Inside(lost)
    <2>1. rows \subseteq rows' /\ Killed(disk)
      BY <1>3, InsertLoses DEF CrashInReceiveFile
    <2>2. QED
      BY <1>1, <2>1
  <1>4. ASSUME NEW s \in Sessions, NEW abs \in BOOLEAN, NEW segs \in Segments,
               NEW p \in {RmdTarget(wd[s], abs, segs), MkdTarget(wd[s], abs, segs)},
               CrashInRemoval(User(s), p)
        PROVE  Inside(lost)
    <2> DEFINE u == User(s)
    <2>1. TargetPath(p)
      <3>1. wd[s] \in Paths
        BY DEF TableInv, TypeOK
      <3>2. QED
        BY <1>4, <3>1, ResolvedArgument DEF TargetPath
    <2> DEFINE Freed(o, freed, kept) ==
                   /\ freed \subseteq RemovedWith(u, p, o)
                   /\ Killed(DiskWithout(freed, kept))
                   /\ rows' = rows \/ rows' = rows \ (RemovedWith(u, p, o) \ {o})
    <2>2. PICK o \in GetObject(u, p) : \E freed, kept : Freed(o, freed, kept)
      <3>1. \A o \in GetObject(u, p) : o \in RemovedWith(u, p, o)
        BY DEF RemovedWith
      <3>2. QED
        BY <1>4, <3>1 DEF CrashInRemoval
    <2>3. PICK freed, kept : Freed(o, freed, kept)
      BY <2>2
    <2>4. ASSUME NEW r \in lost PROVE r \in RemovedWith(u, p, o)
      <3>1. r \in rows /\ r.id \in Ids
        BY <2>4 DEF TableInv, TypeOK, Row
      <3>2. CASE \A q \in rows' : q.id # r.id
        BY <2>3, <3>1, <3>2
      <3>3. CASE disk[r.id] # None /\ disk'[r.id] = None
        <4>1. DiskWithout(freed, kept)[r.id] = None
          BY <2>3, <3>1, <3>3, KilledFiles, DiskWithoutFiles DEF TableInv
        <4>2. PICK q \in freed : q.id = r.id
          BY <3>1, <3>3, <4>1, DiskWithoutFiles DEF TableInv
        <4>3. q \in rows
          BY <2>3, <4>2 DEF RemovedWith, GetObject
        <4>4. QED
          BY <2>3, <3>1, <4>2, <4>3 DEF TableInv, UniqueIds
      <3>4. QED
        BY <3>2, <3>3 DEF Loses
    <2>5. QED
      BY <2>1, <2>4, LossesInside DEF TableInv
  <1>5. QED
    BY <1>2, <1>3, <1>4 DEF CrashStep

LEMMA StepLosses ==
    ASSUME TableInv, ExactLike, NEW s \in Sessions, Step(s),
           NEW lost, lost = {r \in rows : Loses(r)}
    PROVE  Inside(lost)
  <1>1. CASE \A r \in rows : ~Loses(r)
    BY <1>1 DEF Inside
  <1>2. ASSUME NEW p, TargetPath(p), NEW o \in GetObject(User(s), p),
               rows' = rows \ RemovedWith(User(s), p, o),
               NEW kept, disk' = DiskWithout(RemovedWith(User(s), p, o), kept)
        PROVE  Inside(lost)
    <2>1. ASSUME NEW r \in lost PROVE r \in RemovedWith(User(s), p, o)
      <3>1. r \in rows /\ r.id \in Ids
        BY <2>1 DEF TableInv, TypeOK, Row
      <3>2. CASE \A q \in rows' : q.id # r.id
        BY <1>2, <3>1, <3>2
      <3>3. CASE disk[r.id] # None /\ disk'[r.id] = None
        <4>1. PICK q \in RemovedWith(User(s), p, o) : q.id = r.id
          BY <1>2, <3>1, <3>3 DEF DiskWithout, IdsOf
        <4>2. q \in rows
          BY <4>1 DEF RemovedWith, GetObject
        <4>3. QED
          BY <3>1, <4>1, <4>2 DEF TableInv, UniqueIds
      <3>4. QED
        BY <2>1, <3>2, <3>3 DEF Loses
    <2>2. QED
      BY <1>2, <2>1, LossesInside DEF TableInv
  <1>3. QED
    BY <1>1, <1>2, StepLoses DEF RemoveObject

\* No step loses a row or a data file beside the object that a client removes
\* and what is inside it, not even one that the kill cuts short, if no name is
\* matched by LIKE with another name in front of the % (remove_fs_object).
THEOREM CrashRemovesInsideOnly == ExactLike => (CrashSpec => RemovesInsideOnly)
  <1> SUFFICES ASSUME ExactLike PROVE CrashSpec => RemovesInsideOnly
    OBVIOUS
  <1> DEFINE gone == {r \in rows : \/ \A q \in rows' : q.id # r.id
                                   \/ disk[r.id] # None /\ disk'[r.id] = None}
             Within == gone = {} \/ \E o \in rows : \A r \in gone :
                          r = o \/ (o.dir /\ IsPrefix(WholePath(o), r.path))
  <1>1. TableInv /\ [Next \/ CrashStep]_vars => [Within]_vars
    <2> SUFFICES ASSUME TableInv, Next \/ CrashStep PROVE Within
      OBVIOUS
    <2>1. gone = {r \in rows : Loses(r)}
      BY DEF Loses
    <2>2. Inside(gone)
      BY <2>1, StepLosses, CrashLosses DEF Next
    <2>3. QED
      BY <2>2 DEF Inside
  <1>2. QED
    BY <1>1, CrashTable, PTL DEF CrashSpec, RemovesInsideOnly

-----------------------------------------------------------------------------
(* The table is a tree for each user.                                      *)

ShortWrites ==
    \A s \in Sessions : pendingWrite[s] # None => Len(pendingWrite[s]) <= MaxDepth

UserTreeInv == TreeInv /\ UniquePlaces /\ ShortWrites

LEMMA LeastLength ==
    ASSUME NEW L, L \subseteq Nat, L # {}
    PROVE  \E m \in L : \A n \in L : ~(n < m)
  <1> DEFINE Less == {ss \in Nat \X Nat : ss[1] < ss[2]}
  <1>1. IsWellFoundedOn(Less, Nat)
    BY NatLessThanWellFounded DEF OpToRel
  <1> HIDE DEF Less
  <1>2. PICK m \in L : \A n \in Nat : <<n, m>> \in Less => n \notin L
    BY <1>1, WFMin
  <1>3. \A n \in L : ~(n < m)
    BY <1>2 DEF Less
  <1>4. QED
    BY <1>3

\* One place, one object.
LEMMA SamePlace ==
    ASSUME TreeInv, UniquePlaces, NEW r \in rows, NEW q \in rows, WholePath(r) = WholePath(q)
    PROVE  r = q
  <1>1. /\ r.path \in Seq(Names) /\ r.name \in Names
        /\ q.path \in Seq(Names) /\ q.name \in Names
    BY DEF TreeInv, RealPaths, TableInv, TypeOK, Row, Paths
  <1>2. r.path = q.path /\ r.name = q.name
    <2>1. \A s, t \in Seq(Names), e, f \in Names :
             Append(s, e) = Append(t, f) => s = t /\ e = f
      BY AppendInjective
    <2>2. Append(r.path, r.name) = Append(q.path, q.name)
      BY DEF WholePath
    <2>3. QED
      BY <1>1, <2>1, <2>2, SMTT(30)
  <1>3. QED
    BY <1>2 DEF UniquePlaces

LEMMA PrefixOfAppend ==
    ASSUME NEW S, NEW p \in Seq(S), NEW d \in Seq(S), NEW n \in S
    PROVE  IsPrefix(p, Append(d, n)) <=> IsPrefix(p, d) \/ p = Append(d, n)
  <1> DEFINE e == Append(d, n)
  <1>1. /\ e \in Seq(S)
        /\ Len(e) = Len(d) + 1
        /\ \A i \in 1..Len(d) : e[i] = d[i]
    BY AppendProperties
  <1>2. Len(p) \in Nat /\ Len(d) \in Nat
    BY LenProperties
  <1> HIDE DEF e
  <1>3. /\ IsPrefix(p, e) <=> Len(p) <= Len(e) /\ \A i \in 1..Len(p) : p[i] = e[i]
        /\ IsPrefix(p, d) <=> Len(p) <= Len(d) /\ \A i \in 1..Len(p) : p[i] = d[i]
    BY <1>1, PrefixPoints, SMTT(60)
  <1>4. ASSUME IsPrefix(p, d) PROVE IsPrefix(p, e)
    BY <1>1, <1>2, <1>3, <1>4
  <1>5. p = e => IsPrefix(p, e)
    BY <1>1, <1>2, <1>3
  <1>6. ASSUME IsPrefix(p, e), Len(p) <= Len(d) PROVE IsPrefix(p, d)
    BY <1>1, <1>2, <1>3, <1>6
  <1>7. ASSUME IsPrefix(p, e), ~(Len(p) <= Len(d)) PROVE p = e
    <2>1. Len(p) = Len(e) /\ \A i \in 1..Len(p) : p[i] = e[i]
      BY <1>1, <1>2, <1>3, <1>7
    <2>2. QED
      BY <1>1, <2>1, SeqEqual
  <1>8. QED
    BY <1>4, <1>5, <1>6, <1>7 DEF e

\* Nothing is inside a file: of the objects inside an object, one with a shortest
\* path has that object for its parent.
LEMMA NothingInFiles ==
    ASSUME TreeInv, UniquePlaces, NEW p \in ObjectPaths, NEW o \in rows, WholePath(o) = p,
           NEW r \in rows, r.user = o.user, IsPrefix(p, r.path)
    PROVE  o.dir
  <1> DEFINE Under(x) == x \in rows /\ x.user = o.user /\ IsPrefix(p, x.path)
             L == {n \in Nat : \E x \in rows : Under(x) /\ Len(x.path) = n}
  <1>1. \A x \in rows : x.path \in Seq(Names) /\ x.name \in Names /\ Len(x.path) \in Nat
    BY LenProperties DEF TreeInv, RealPaths, TableInv, TypeOK, Row, Paths
  <1>2. p \in Seq(Names) /\ p # <<>> /\ Len(p) \in Nat \ {0}
    BY EmptySeq, LenProperties DEF ObjectPaths, Paths, Root
  <1>3. L \subseteq Nat /\ L # {}
    BY <1>1
  <1>4. PICK m \in L : \A n \in L : ~(n < m)
    BY <1>3, LeastLength
  <1>5. PICK x \in rows : Under(x) /\ Len(x.path) = m
    BY <1>4
  <1>6. x.path # Root
    <2>1. Len(x.path) >= Len(p)
      BY <1>1, <1>2, <1>5, PrefixPoints
    <2>2. QED
      BY <1>2, <2>1, EmptySeq DEF Root
  <1>7. PICK d \in rows : d.dir /\ d.user = o.user /\ WholePath(d) = x.path
    BY <1>5, <1>6 DEF TreeInv, ParentExists
  <1>8. IsPrefix(p, d.path) \/ p = WholePath(d)
    <2>1. d.path \in Seq(Names) /\ d.name \in Names /\ p \in Seq(Names)
      BY <1>1, <1>2
    <2>2. IsPrefix(p, Append(d.path, d.name)) <=> IsPrefix(p, d.path) \/ p = Append(d.path, d.name)
      BY <2>1, PrefixOfAppend, ZenonT(60)
    <2>3. IsPrefix(p, Append(d.path, d.name))
      BY <1>5, <1>7 DEF WholePath
    <2>4. QED
      BY <2>2, <2>3 DEF WholePath
  <1>9. ~IsPrefix(p, d.path)
    <2>1. Len(d.path) < m
      BY <1>1, <1>5, <1>7, AppendProperties DEF WholePath
    <2>2. Len(d.path) \notin L
      BY <1>4, <2>1
    <2>3. QED
      BY <1>1, <1>7, <2>2
  <1>10. d = o
    BY <1>8, <1>9, SamePlace
  <1>11. QED
    BY <1>7, <1>10

\* Removed is the object and everything inside it, and nothing else.
LEMMA RemovedExactly ==
    ASSUME TreeInv, UniquePlaces, ExactLike, NEW u, NEW p \in ObjectPaths,
           NEW o \in GetObject(u, p), NEW r \in rows
    PROVE  r \in RemovedWith(u, p, o) <=> r.user = u /\ IsPrefix(p, WholePath(r))
  <1>1. o \in rows /\ o.user = u /\ WholePath(o) = p
    BY FoundObject
  <1>2. \A x \in rows : x.path \in Seq(Names) /\ x.name \in Names
    BY DEF TreeInv, RealPaths, TableInv, TypeOK, Row, Paths
  <1>3. p \in Seq(Names) /\ p # <<>>
    BY DEF ObjectPaths, Paths, Root
  <1>4. /\ IsPrefix(p, WholePath(r)) <=> IsPrefix(p, r.path) \/ p = WholePath(r)
        /\ IsPrefix(p, WholePath(o)) <=> IsPrefix(p, o.path) \/ p = WholePath(o)
    BY <1>2, <1>3, <1>1, PrefixOfAppend DEF WholePath
  <1>5. UnderPrefix(r.path, p) <=> IsPrefix(p, r.path)
    BY <1>2, <1>3, UnderExactly
  <1>6. p = WholePath(r) => r = o
    BY <1>1, SamePlace
  <1>7. r.user = u /\ IsPrefix(p, r.path) => o.dir
    BY <1>1, NothingInFiles
  <1>8. QED
    BY <1>1, <1>4, <1>5, <1>6, <1>7 DEF RemovedWith

Obj(r) == [owner |-> r.user, path |-> WholePath(r), dir |-> r.dir]

TreeObjects == {[owner |-> r.user, path |-> WholePath(r), dir |-> r.dir] : r \in rows}

\* A removal drops the object from its owner's tree; one that is cut short clears it.
LEMMA RemovalIsDrop ==
    ASSUME UserTreeInv, ExactLike, NEW u, NEW p \in ObjectPaths, NEW o \in GetObject(u, p)
    PROVE  /\ Obj(o) \in TreeObjects
           /\ rows' = rows \ RemovedWith(u, p, o) => Tree!Drop(Obj(o))
           /\ rows' = rows \ (RemovedWith(u, p, o) \ {o}) => Tree!Clear(Obj(o))
  <1>1. o \in rows /\ o.user = u /\ WholePath(o) = p
    BY FoundObject
  <1>2. Obj(o) \in TreeObjects /\ Obj(o).owner = u /\ Obj(o).path = p
    BY <1>1 DEF Obj, TreeObjects
  <1>3. \A r \in rows : r \in RemovedWith(u, p, o) <=> r.user = u /\ IsPrefix(p, WholePath(r))
    BY RemovedExactly DEF UserTreeInv
  <1>4. \A r \in rows : /\ Obj(r).owner = r.user /\ Obj(r).path = WholePath(r)
                        /\ Obj(r) = Obj(o) => r = o
    <2>1. \A r \in rows : WholePath(r) = WholePath(o) => r = o
      BY <1>1, SamePlace DEF UserTreeInv
    <2>2. \A r : Obj(r).owner = r.user /\ Obj(r).path = WholePath(r)
      BY DEF Obj
    <2>3. QED
      BY <2>1, <2>2
  <1>5. /\ TreeObjects = {Obj(r) : r \in rows}
        /\ TreeObjects' = {Obj(r) : r \in rows'}
    BY DEF TreeObjects, Obj, WholePath
  <1>6. \A q : Tree!IsPrefix(p, q) <=> IsPrefix(p, q)
    BY DEF Tree!IsPrefix, IsPrefix
  <1>7. ASSUME rows' = rows \ RemovedWith(u, p, o)
        PROVE  Tree!Drop(Obj(o))
    <2>1. TreeObjects' = {x \in TreeObjects : x.owner = u => ~IsPrefix(p, x.path)}
      BY <1>3, <1>4, <1>5, <1>7
    <2>2. QED
      BY <1>2, <1>6, <2>1 DEF Tree!Drop, TreeObjects
  <1>8. ASSUME rows' = rows \ (RemovedWith(u, p, o) \ {o})
        PROVE  Tree!Clear(Obj(o))
    <2>1. TreeObjects' = {x \in TreeObjects : x = Obj(o) \/ (x.owner = u => ~IsPrefix(p, x.path))}
      BY <1>1, <1>3, <1>4, <1>5, <1>8
    <2>2. QED
      BY <1>2, <1>6, <2>1 DEF Tree!Clear, TreeObjects
  <1>9. QED
    BY <1>2, <1>7, <1>8

\* A new row is a new object in its owner's tree.
LEMMA InsertionIsAdd ==
    ASSUME UserTreeInv, NEW u \in Users, NEW p \in ObjectPaths, Len(p) <= MaxDepth,
           ~CannotCreate(u, p), NEW i, NEW isDir \in BOOLEAN, Insert(i, u, p, isDir)
    PROVE  UNCHANGED rows \/ \E o \in Tree!Object : Tree!Add(o)
  <1> DEFINE new == [id |-> i, user |-> u, path |-> Parent(p),
                     name |-> Last(p), dir |-> isDir, size |-> 0]
  <1>1. rows' = rows \/ rows' = rows \cup {new}
    BY DEF Insert
  <1>2. Parent(p) = Front(p) /\ Parent(p) \in Paths /\ Append(Front(p), Last(p)) = p
    BY ParentOfPath, FrontLast DEF ObjectPaths, Paths, Root
  <1>3. new.user = u /\ new.dir = isDir /\ WholePath(new) = p
    BY <1>2 DEF WholePath
  <1> HIDE DEF new
  <1>4. /\ Obj(new).owner = u /\ Obj(new).path = p /\ Obj(new).dir = isDir
        /\ Obj(new) \in Tree!Object
    <2>1. p \in Seq(Names) /\ p # <<>>
      BY DEF ObjectPaths, Paths, Root
    <2>2. Len(p) \in 1..MaxDepth /\ p \in [1..Len(p) -> Names]
      BY <2>1, EmptySeq, LenProperties, BoundsAssumption
    <2>3. p \in UNION {[1..n -> Names] : n \in 1..MaxDepth}
      BY <2>2
    <2>4. QED
      BY <1>3, <2>3 DEF Obj, Tree!Object
  <1>5. rows' = rows \cup {new} => TreeObjects' = TreeObjects \cup {Obj(new)}
    BY DEF TreeObjects, Obj, WholePath
  <1>6. \A x \in TreeObjects : x.owner = u => x.path # p
    <2>1. ASSUME NEW r \in rows, r.user = u, WholePath(r) = p PROVE FALSE
      <3>1. /\ r.path \in Seq(Names) /\ r.name \in Names
            /\ Front(p) \in Seq(Names) /\ Last(p) \in Names
        BY <1>2, FrontLast DEF TreeInv, UserTreeInv, RealPaths, TableInv, TypeOK, Row, Paths,
                               ObjectPaths, Root
      <3>2. \A s, t \in Seq(Names), e, f \in Names :
               Append(s, e) = Append(t, f) => s = t /\ e = f
        BY AppendInjective
      <3>3. Append(r.path, r.name) = Append(Front(p), Last(p))
        BY <1>2, <2>1 DEF WholePath
      <3>4. r.path = Front(p) /\ r.name = Last(p)
        BY <3>1, <3>2, <3>3
      <3>5. QED
        BY <1>2, <2>1, <3>4 DEF CannotCreate, Exists, GetObject
    <2>2. QED
      BY <2>1 DEF TreeObjects
  <1>7. \/ Front(p) = <<>>
        \/ [owner |-> u, path |-> Front(p), dir |-> TRUE] \in TreeObjects
    <2>1. ASSUME Front(p) # <<>>
          PROVE  [owner |-> u, path |-> Front(p), dir |-> TRUE] \in TreeObjects
      <3>1. PICK d \in GetObject(u, Parent(p)) : d.dir
        BY <1>2, <2>1 DEF CannotCreate, Root
      <3>2. Parent(p) \in ObjectPaths
        BY <1>2, <2>1 DEF ObjectPaths, Root
      <3>3. d \in rows /\ d.user = u /\ WholePath(d) = Front(p)
        BY <1>2, <3>1, <3>2, FoundObject
      <3>4. d.dir = TRUE
        BY <3>1, <3>3 DEF UserTreeInv, TreeInv, TableInv, TypeOK, Row
      <3>5. QED
        BY <3>3, <3>4 DEF TreeObjects
    <2>2. QED
      BY <2>1
  <1>8. Tree!Front(p) = Front(p)
    BY DEF Tree!Front, Front
  <1>9. rows' = rows \cup {new} => Tree!Add(Obj(new))
    BY <1>4, <1>5, <1>6, <1>7, <1>8 DEF Tree!Add, TreeObjects
  <1>10. QED
    BY <1>1, <1>4, <1>9

LEMMA PlacesStep ==
    ASSUME TableInv, UniquePlaces,
           \/ \E u, p : Adds(u, p)
           \/ rows' \subseteq rows
           \/ \E target \in SUBSET rows, n \in Nat : rows' = {Resize(target, n, r) : r \in rows}
    PROVE  UniquePlaces'
  <1>1. ASSUME NEW u, NEW p, Adds(u, p) PROVE UniquePlaces'
    BY <1>1, InsertKeepsPlaces DEF Adds
  <1>2. CASE rows' \subseteq rows
    BY <1>2 DEF UniquePlaces
  <1>3. ASSUME NEW target \in SUBSET rows, NEW n \in Nat,
               rows' = {Resize(target, n, r) : r \in rows}
        PROVE  UniquePlaces'
    <2>1. \A q \in rows' : \E r \in rows :
             q = Resize(target, n, r) /\ q.name = r.name /\ q.path = r.path
      BY <1>3, Resized DEF TableInv, TypeOK
    <2>2. QED
      BY <2>1 DEF UniquePlaces
  <1>4. QED
    BY <1>1, <1>2, <1>3

LEMMA ShortWritesStep ==
    ASSUME TableInv, ShortWrites, NEW s \in Sessions, Step(s)
    PROVE  ShortWrites'
  <1>1. CASE \E abs \in BOOLEAN, segs \in Segments : STOR(s, abs, segs)
    BY <1>1 DEF STOR, upload, TableInv, TypeOK, ShortWrites
  <1>2. CASE ReceiveEnd(s) \/ WriteFails(s) \/ Return(s)
    BY <1>2 DEF ReceiveEnd, WriteFails, Recorded, Return, TableInv, TypeOK, ShortWrites
  <1>3. CASE \/ CDUP(s) \/ CWDRoot(s) \/ Leave(s) \/ RETR(s) \/ ReceiveFile(s)
             \/ ReceiveChunk(s) \/ \E u \in Users : USER(s, u)
             \/ \E abs \in BOOLEAN, segs \in Segments :
                   CWD(s, abs, segs) \/ MKD(s, abs, segs) \/ RMD(s, abs, segs) \/ DELE(s, abs, segs)
    <2>1. pendingWrite' = pendingWrite
      BY <1>3 DEF CDUP, CWDRoot, Leave, RETR, USER, ReceiveFile, ReceiveChunk, CWD, MKD, RMD,
                  DELE, upload
    <2>2. QED
      BY <2>1 DEF ShortWrites
  <1>4. QED
    BY <1>1, <1>2, <1>3 DEF Step

TreeStepOf == Tree!Next \/ \E o \in TreeObjects : Tree!Clear(o)

LEMMA SameRows == rows' = rows => TreeObjects' = TreeObjects
  BY DEF TreeObjects, WholePath

LEMMA AddIsTreeStep ==
    ASSUME UserTreeInv, ~AbsoluteMkd, NEW s \in Sessions, NEW p, Adds(User(s), p)
    PROVE  TreeStepOf \/ TreeObjects' = TreeObjects
  <1>1. p \in ObjectPaths /\ Len(p) <= MaxDepth
    BY DEF Adds, UserTreeInv, ShortWrites
  <1>2. rows' = rows \/ \E o \in Tree!Object : Tree!Add(o)
    <2>1. User(s) \in Users
      BY UserType DEF UserTreeInv, TreeInv, TableInv
    <2>2. QED
      BY <1>1, <2>1, InsertionIsAdd DEF Adds
  <1>3. QED
    BY <1>2, SameRows DEF TreeStepOf, Tree!Next

LEMMA RemovalIsTreeStep ==
    ASSUME UserTreeInv, ExactLike, NEW u, NEW p, TargetPath(p), NEW o \in GetObject(u, p),
           \/ rows' = rows \ RemovedWith(u, p, o)
           \/ rows' = rows \ (RemovedWith(u, p, o) \ {o})
    PROVE  TreeStepOf
  <1>1. p \in ObjectPaths
    BY PrefixedNotFound DEF UserTreeInv, TreeInv, TargetPath
  <1>2. Obj(o) \in TreeObjects /\ (Tree!Drop(Obj(o)) \/ Tree!Clear(Obj(o)))
    BY <1>1, RemovalIsDrop
  <1>3. QED
    BY <1>2 DEF TreeStepOf, Tree!Next, TreeObjects

LEMMA UserTreeStep ==
    ASSUME UserTreeInv, ~AbsoluteMkd, ExactLike, NEW s \in Sessions, Step(s)
    PROVE  UserTreeInv' /\ (TreeStepOf \/ TreeObjects' = TreeObjects)
  <1>0. TableInv
    BY DEF UserTreeInv, TreeInv
  <1>1. TreeInv' /\ ShortWrites'
    BY <1>0, TreeStep, ShortWritesStep DEF UserTreeInv
  <1>2. CASE \E p : Adds(User(s), p)
    BY <1>0, <1>1, <1>2, AddIsTreeStep, PlacesStep DEF UserTreeInv
  <1>3. CASE \E p : TargetPath(p) /\ RemoveObject(User(s), p)
    <2>0. PICK p : TargetPath(p) /\ RemoveObject(User(s), p)
      BY <1>3
    <2>1. PICK o \in GetObject(User(s), p) : rows' = rows \ RemovedWith(User(s), p, o)
      BY <2>0 DEF RemoveObject
    <2>2. rows' \subseteq rows
      BY <2>1
    <2>3. UniquePlaces'
      BY <1>0, <2>2, PlacesStep DEF UserTreeInv
    <2>4. TreeStepOf
      BY <2>0, <2>1, RemovalIsTreeStep
    <2>5. QED
      BY <1>1, <2>3, <2>4 DEF UserTreeInv
  <1>4. ASSUME NEW target \in SUBSET rows, NEW n \in Nat,
               rows' = {Resize(target, n, r) : r \in rows}
        PROVE  UserTreeInv' /\ TreeObjects' = TreeObjects
    <2>1. UniquePlaces'
      BY <1>0, <1>4, PlacesStep DEF UserTreeInv
    <2>2. \A r \in rows : Obj(Resize(target, n, r)) = Obj(r)
      BY <1>0, Resized, ZenonT(60) DEF TableInv, TypeOK, Obj, WholePath
    <2>3. TreeObjects = {Obj(r) : r \in rows} /\ TreeObjects' = {Obj(r) : r \in rows'}
      BY DEF TreeObjects, Obj, WholePath
    <2>4. TreeObjects' = TreeObjects
      BY <1>4, <2>2, <2>3
    <2>5. QED
      BY <1>1, <2>1, <2>4 DEF UserTreeInv
  <1>5. QED
    BY <1>0, <1>2, <1>3, <1>4, StepRows

LEMMA UserTreeCrash ==
    ASSUME UserTreeInv, ~AbsoluteMkd, ExactLike, CrashStep
    PROVE  UserTreeInv' /\ (TreeStepOf \/ TreeObjects' = TreeObjects)
  <1>0. TableInv
    BY DEF UserTreeInv, TreeInv
  <1>1. TreeInv'
    BY CrashTreeStep DEF UserTreeInv
  <1>2. ShortWrites'
    BY <1>0, CrashShape DEF CrashFiles, Killed, ShortWrites
  <1>3. CASE rows' = rows
    <2>1. UniquePlaces'
      BY <1>3 DEF UserTreeInv, UniquePlaces
    <2>2. QED
      BY <1>1, <1>2, <1>3, <2>1, SameRows DEF UserTreeInv
  <1>4. CASE \E s \in Sessions : \E p : Adds(User(s), p)
    BY <1>0, <1>1, <1>2, <1>4, AddIsTreeStep, PlacesStep DEF UserTreeInv
  <1>5. ASSUME NEW u, NEW p, TargetPath(p), NEW o \in GetObject(u, p),
               rows' = rows \ (RemovedWith(u, p, o) \ {o})
        PROVE  UserTreeInv' /\ TreeStepOf
    <2>1. rows' \subseteq rows
      BY <1>5
    <2>2. UniquePlaces'
      BY <1>0, <2>1, PlacesStep DEF UserTreeInv
    <2>3. TreeStepOf
      BY <1>5, RemovalIsTreeStep
    <2>4. QED
      BY <1>1, <1>2, <2>2, <2>3 DEF UserTreeInv
  <1>6. QED
    BY <1>0, <1>3, <1>4, <1>5, CrashRows

\* The table with its data files implements the promise of UserTree to each user,
\* over any number of crashes: an object is added under a directory of its owner,
\* is removed with everything inside it and nothing else, and stays at most alone
\* when the kill cuts its removal short.  It takes that MKD is given no absolute
\* path of several segments, and that LIKE matches whole names only.
THEOREM ImplementsUserTree ==
    ~AbsoluteMkd /\ ExactLike => (CrashSpec => SurvivesAsUserTree)
  <1> SUFFICES ASSUME ~AbsoluteMkd, ExactLike PROVE CrashSpec => SurvivesAsUserTree
    OBVIOUS
  <1>1. Init => UserTreeInv
    BY TableInit DEF Init, UserTreeInv, TreeInv, RealPaths, ParentExists,
                     UniquePlaces, ShortWrites
  <1>2. UserTreeInv /\ [Next \/ CrashStep]_vars
           => UserTreeInv' /\ [TreeStepOf]_TreeObjects
    <2> SUFFICES ASSUME UserTreeInv, [Next \/ CrashStep]_vars
                 PROVE  UserTreeInv' /\ [TreeStepOf]_TreeObjects
      OBVIOUS
    <2>1. CASE Next
      BY <2>1, UserTreeStep DEF Next
    <2>2. CASE CrashStep
      BY <2>2, UserTreeCrash
    <2>3. CASE UNCHANGED vars
      <3>1. UNCHANGED rows /\ UNCHANGED pendingWrite
        BY <2>3 DEF vars, table, upload
      <3>2. TableInv'
        BY <2>3, TableNext DEF UserTreeInv, TreeInv
      <3>3. UserTreeInv'
        BY <3>1, <3>2 DEF UserTreeInv, TreeInv, RealPaths, ParentExists, UniquePlaces, ShortWrites
      <3>4. QED
        BY <3>1, <3>3, SameRows
    <2>4. QED
      BY <2>1, <2>2, <2>3
  <1>3. Init => Tree!Init
    BY DEF Init, Tree!Init
  <1>4. QED
    BY <1>1, <1>2, <1>3, PTL DEF CrashSpec, SurvivesAsUserTree, Tree!CrashSpec, TreeStepOf,
                                 TreeObjects

=============================================================================
