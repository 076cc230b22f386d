------------------------------ MODULE VirtualFs ------------------------------
(***************************************************************************)
(* The virtual file system: the fs_objects table, the data files, and the  *)
(* commands of several sessions that read and change them.                 *)
(*                                                                         *)
(* A path is the sequence of its segments, the root the empty sequence.    *)
(* A path that begins with two slashes, which MKD and DELE make of an      *)
(* absolute argument, begins with the segment Empty.  Every handler is one *)
(* step (one thread, SQLite statements that commit at once); an upload is  *)
(* three kinds of steps, between which any session may run any command.    *)
(* A data file is modelled by its length.  Opening, writing and removing   *)
(* one may fail if DiskErrors.                                             *)
(***************************************************************************)
EXTENDS PathAlgebra

CONSTANTS
    Users,          \* ids in the users table
    Sessions,       \* the sessions of one run
    Accounts,       \* the users each session's client names with USER
    Names,          \* segments that clients use
    LikePrefix,     \* <<m, n>> such that n matches the LIKE pattern m%
    None,           \* an empty m_pending_write_file; no upload; no data file
    Uploaders,      \* the sessions whose clients send STOR
    AbsoluteMkd,    \* may MKD be given an absolute path of several segments?
    Overwrite,      \* may STOR name an object that has a size already?
    DiskErrors,     \* may opening, writing or removing a data file fail?
    Ids,            \* object ids (their number bounds the objects at a time)
    MaxArg,         \* segments of an argument (a bound)
    MaxDepth,       \* segments of the path of an object; a working directory
                    \* has fewer, so that objects fit in it (a bound)
    MaxLen          \* chunks that the size of a file counts (a bound)

ASSUME UsersAssumption == Accounts \in [Sessions -> SUBSET Users \ {{}}]
ASSUME NamesAssumption == Empty \notin Names
ASSUME LikeAssumption == /\ LikePrefix \subseteq Names \X Names
                         /\ \A n \in Names : <<n, n>> \in LikePrefix
ASSUME BoundsAssumption == MaxArg \in Nat /\ MaxDepth \in Nat /\ MaxLen \in Nat
ASSUME ClientAssumption == /\ Uploaders \subseteq Sessions
                           /\ AbsoluteMkd \in BOOLEAN /\ Overwrite \in BOOLEAN
ASSUME DiskAssumption == DiskErrors \in BOOLEAN

VARIABLES
    rows,           \* the fs_objects table
    disk,           \* length of data/<id>, or None
    damaged,        \* auxiliary: ids of the files that an error of the disk, or
                    \* the end of the process, has cut short
    leaked,         \* auxiliary: ids of the files that could not be removed
    user,           \* m_userid
    wd,             \* m_working_directory
    reading,        \* does the session read its commands?
    pendingWrite,   \* m_pending_write_file
    accepting,      \* is the upload waiting for its data connection?
    receiving       \* m_receive_file_stream, _name, _path, m_received_file_size

table == <<rows, disk, damaged, leaked>>
session == <<user, wd, reading>>
upload == <<pendingWrite, accepting, receiving>>
vars == <<table, session, upload>>

-----------------------------------------------------------------------------
(* Paths and arguments: see PathAlgebra.                                   *)

Paths == Seq(Names)
ObjectPaths == Paths \ {Root}

\* Arguments without empty segments, which a client sends by ending an argument
\* with a slash.
Segments == UNION {[1..n -> Names] : n \in 1..MaxArg}

-----------------------------------------------------------------------------
(* The fs_objects table.                                                   *)

Row == [id : Ids, user : Users, path : Seq(Names \cup {Empty}), name : Names,
        dir : BOOLEAN, size : Nat]

\* An upload under way; its owner (auxiliary) is m_userid when it began.
Upload == [id : Ids, owner : Users, file : ObjectPaths, size : Nat, off : Nat,
           append : BOOLEAN]

ASSUME NoneAssumption == None \notin Nat \cup ObjectPaths \cup Upload

\* get_object: by user, name and path; p is the whole path of the object.
GetObject(u, p) ==
    {r \in rows : r.user = u /\ r.name = Last(p) /\ r.path = Parent(p)}

Exists(u, p) == GetObject(u, p) # {}

\* create_object returns no id: the path is no directory, or the object exists.
CannotCreate(u, p) ==
    \/ Parent(p) # Root /\ \A d \in GetObject(u, Parent(p)) : ~d.dir
    \/ Exists(u, p)

\* generate_uuid_string: an id that nothing refers to.  (Its generator starts from
\* the time in seconds: two starts within one second would repeat their ids.)
Fresh(i) ==
    /\ disk[i] = None
    /\ \A r \in rows : r.id # i
    /\ \A s \in Sessions : receiving[s] # None => receiving[s].id # i

\* Mutant: UNIQUE (name, path) ON CONFLICT REPLACE.
InsertReplaces(i, u, p, isDir) ==
    rows' = {r \in rows : r.name # Last(p) \/ r.path # Parent(p)}
              \cup {[id |-> i, user |-> u, path |-> Parent(p), name |-> Last(p),
                     dir |-> isDir, size |-> 0]}

\* CREATE_OBJECT_QUERY: UNIQUE (name, path) ON CONFLICT IGNORE spans the users.
Insert(i, u, p, isDir) ==
    rows' = IF \E r \in rows : r.name = Last(p) /\ r.path = Parent(p)
            THEN rows
            ELSE rows \cup {[id |-> i, user |-> u, path |-> Parent(p),
                             name |-> Last(p), dir |-> isDir, size |-> 0]}

\* path LIKE 'q%', where q is the whole path of a directory
UnderPrefix(path, q) ==
    /\ Len(q) <= Len(path)
    /\ \A i \in 1..(Len(q) - 1) : path[i] = q[i]
    /\ \/ <<q[Len(q)], path[Len(q)]>> \in LikePrefix
       \/ q[Len(q)] = path[Len(q)]

\* Mutants: the statement that removes what is inside a directory is given the
\* directory's own path column; is missing.
RemovedWithSiblings(u, p, o) ==
    {o} \cup {r \in rows : o.dir /\ r.user = u /\ IsPrefix(o.path, r.path)}

RemovedAlone(u, p, o) == {o}

\* remove_fs_object: what is removed with object o, itself included
RemovedWith(u, p, o) ==
    {o} \cup {r \in rows : o.dir /\ r.user = u /\ UnderPrefix(r.path, p)}

IdsOf(objects) == {r.id : r \in objects}

\* remove_file of the objects' data files, of which some (kept) are not removed;
\* a directory has none.
DiskWithout(objects, kept) ==
    [i \in Ids |-> IF i \in IdsOf(objects) \ kept THEN None ELSE disk[i]]

\* The files that remove_file may fail to remove, which its callers do not ask.
MayBeKept(objects) ==
    IF DiskErrors THEN SUBSET {i \in IdsOf(objects) : disk[i] # None} ELSE {{}}

\* Mutant: all files are freed but one row removed.
RemoveObjectLeavesRows(u, p) ==
    \E o \in GetObject(u, p) :
        /\ rows' = rows \ {o}
        /\ disk' = DiskWithout(RemovedWith(u, p, o), {})
        /\ UNCHANGED <<damaged, leaked>>

\* Files first, then rows.  Of what does not exist nothing is removed; the reply
\* is "250 Deleted." all the same.
RemoveObject(u, p) ==
    \E o \in GetObject(u, p) :
        LET gone == RemovedWith(u, p, o) IN
        \E kept \in MayBeKept(gone) :
            /\ rows' = rows \ gone
            /\ disk' = DiskWithout(gone, kept)
            /\ leaked' = leaked \cup kept
            /\ damaged' = damaged \ IdsOf(gone)

-----------------------------------------------------------------------------
(* The commands.  Those that only read the table change nothing here.      *)

User(s) == user[s]

\* USER, which a session that has logged in takes too: the session's user is
\* another from then on, its working directory and its upload are what they were.
USER(s, u) ==
    /\ reading[s] /\ u \in Accounts[s]
    /\ user' = [user EXCEPT ![s] = u]
    /\ UNCHANGED <<table, wd, reading, upload>>

\* CDUP and CWD ".."
CDUP(s) ==
    /\ reading[s]
    /\ wd' = [wd EXCEPT ![s] = Parent(wd[s])]
    /\ UNCHANGED <<table, user, reading, upload>>

\* Every object on the way must exist; that it is a directory is not asked.
CWD(s, abs, segs) ==
    LET base == IF abs THEN Root ELSE wd[s] IN
    /\ reading[s]
    /\ Len(base) + Len(segs) < MaxDepth
    /\ \A i \in 1..Len(segs) : Exists(User(s), base \o SubSeq(segs, 1, i))
    /\ wd' = [wd EXCEPT ![s] = base \o segs]
    /\ UNCHANGED <<table, user, reading, upload>>

CWDRoot(s) ==
    /\ reading[s]
    /\ wd' = [wd EXCEPT ![s] = Root]
    /\ UNCHANGED <<table, user, reading, upload>>

\* "250 Directory created."
MKD(s, abs, segs) ==
    LET p == MkdTarget(wd[s], abs, segs) IN
    /\ reading[s]
    /\ abs /\ Len(segs) > 1 => AbsoluteMkd
    /\ Len(p) <= MaxDepth
    /\ ~CannotCreate(User(s), p)
    /\ \E i \in Ids : Fresh(i) /\ Insert(i, User(s), p, TRUE)
    /\ damaged' = damaged \ IdsOf(rows' \ rows)
    /\ UNCHANGED <<disk, leaked, session, upload>>

RMD(s, abs, segs) ==
    /\ reading[s]
    /\ RemoveObject(User(s), RmdTarget(wd[s], abs, segs))
    /\ UNCHANGED <<session, upload>>

DELE(s, abs, segs) ==
    /\ reading[s]
    /\ RemoveObject(User(s), MkdTarget(wd[s], abs, segs))
    /\ UNCHANGED <<session, upload>>

\* run_STOR.  Refused, it leaves the session without a control read.
STOR(s, abs, segs) ==
    LET p == Resolve(wd[s], abs, segs) IN
    /\ s \in Uploaders /\ reading[s]
    /\ Len(p) <= MaxDepth
    /\ Overwrite \/ \A o \in GetObject(User(s), p) : o.size = 0
    /\ \/ /\ pendingWrite[s] # None
          /\ reading' = [reading EXCEPT ![s] = FALSE]
          /\ UNCHANGED upload
       \/ /\ pendingWrite[s] = None
          /\ pendingWrite' = [pendingWrite EXCEPT ![s] = p]
          /\ IF Parent(p) # Root /\ ~Exists(User(s), Parent(p))
             THEN /\ reading' = [reading EXCEPT ![s] = FALSE]
                  /\ UNCHANGED accepting
             ELSE /\ accepting' = [accepting EXCEPT ![s] = TRUE]
                  /\ UNCHANGED reading
          /\ UNCHANGED receiving
    /\ UNCHANGED <<table, user, wd>>

\* RETR, as far as it changes anything here: while a file is pending that could
\* not be opened, the data connection that RETR waits for receives that file.
RETR(s) ==
    /\ reading[s]
    /\ pendingWrite[s] # None /\ ~accepting[s] /\ receiving[s] = None
    /\ accepting' = [accepting EXCEPT ![s] = TRUE]
    /\ UNCHANGED <<table, session, pendingWrite, receiving>>

-----------------------------------------------------------------------------
(* The upload: data_receive_file, the receive callback and its end.        *)

\* Mutant: m_pending_write_file is cleared before its name is taken.
OpenedUnnamed(s, i, old, append) ==
    /\ receiving' = [receiving EXCEPT ![s] =
          [id |-> i, owner |-> User(s), file |-> None, size |-> old, off |-> 0,
           append |-> append]]
    /\ disk' = [disk EXCEPT ![i] = 0]
    /\ damaged' = damaged \ {i}

\* The ofstream opens data/<i>.
Opened(s, i, old, append) ==
    /\ receiving' = [receiving EXCEPT ![s] =
          [id |-> i, owner |-> User(s), file |-> pendingWrite[s], size |-> old,
           off |-> 0, append |-> append]]
    /\ disk' = [disk EXCEPT ![i] = 0]
    /\ damaged' = damaged \ {i}

\* It does not: what has been created stays a row without a data file.
NotOpened(created) ==
    /\ DiskErrors
    /\ damaged' = damaged \cup IdsOf(created)
    /\ UNCHANGED <<disk, receiving>>

\* A new file is opened for appending; an existing one is truncated, though
\* the count of received bytes starts at its old size.
ReceiveFile(s) ==
    LET u == User(s)
        p == pendingWrite[s]
    IN
    /\ accepting[s]
    /\ accepting' = [accepting EXCEPT ![s] = FALSE]
    /\ \/ /\ Exists(u, p)                         \* open data/<id>
          /\ rows' = rows
          /\ \E o \in GetObject(u, p) :
               Opened(s, o.id, o.size, FALSE) \/ NotOpened({})
       \/ /\ ~CannotCreate(u, p)                  \* create the row, open
          /\ \E i \in Ids :
               /\ Fresh(i) /\ Insert(i, u, p, FALSE)
               /\ Opened(s, i, 0, TRUE) \/ NotOpened(rows' \ rows)
       \/ /\ ~Exists(u, p) /\ CannotCreate(u, p)  \* opening "data/" fails
          /\ UNCHANGED <<rows, disk, damaged, receiving>>
    /\ UNCHANGED <<leaked, session, pendingWrite>>

\* One chunk is received and written; a file removed meanwhile is gone.
ReceiveChunk(s) ==
    /\ receiving[s] # None
    /\ receiving[s].size < MaxLen
    /\ receiving' = [receiving EXCEPT ![s].size = @ + 1, ![s].off = @ + 1]
    /\ disk' = [disk EXCEPT ![receiving[s].id] =
                  IF @ = None THEN None
                  ELSE IF receiving[s].append THEN @ + 1
                  ELSE IF @ > receiving[s].off THEN @ ELSE receiving[s].off + 1]
    /\ UNCHANGED <<rows, damaged, leaked, session, pendingWrite, accepting>>

\* data_async_receive_end: update_object_size looks the object up again, by name
\* and path, among the objects of the user the session has by now.
Recorded(s, n) ==
    LET target == GetObject(User(s), receiving[s].file) IN
    /\ rows' = {IF r \in target THEN [r EXCEPT !.size = n] ELSE r : r \in rows}
    /\ receiving' = [receiving EXCEPT ![s] = None]
    /\ pendingWrite' = [pendingWrite EXCEPT ![s] = None]
    /\ UNCHANGED <<leaked, session, accepting>>

\* The disk does not take what the stream has buffered.
LosesBuffer(i) ==
    /\ DiskErrors
    /\ IF disk[i] = None THEN UNCHANGED <<disk, damaged>>
       ELSE /\ \E n \in 0..disk[i] : disk' = [disk EXCEPT ![i] = n]
            /\ damaged' = damaged \cup {i}

\* The connection is at its end, or broken: close() writes the buffer, and whether
\* it could is not asked.
ReceiveEnd(s) ==
    /\ receiving[s] # None
    /\ UNCHANGED <<disk, damaged>> \/ LosesBuffer(receiving[s].id)
    /\ Recorded(s, receiving[s].size)

\* The chunk that the stream fails to write has been counted.
WriteFails(s) ==
    /\ receiving[s] # None
    /\ receiving[s].size < MaxLen
    /\ LosesBuffer(receiving[s].id)
    /\ Recorded(s, receiving[s].size + 1)

\* QUIT, or the control connection is lost: an upload goes on.  No command will
\* use the working directory any more, so it is forgotten.
Leave(s) ==
    /\ reading[s]
    /\ reading' = [reading EXCEPT ![s] = FALSE]
    /\ wd' = [wd EXCEPT ![s] = Root]
    /\ UNCHANGED <<table, user, upload>>

\* The client comes back to a new session object and logs in.
Return(s) ==
    /\ ~reading[s] /\ ~accepting[s] /\ receiving[s] = None
    /\ reading' = [reading EXCEPT ![s] = TRUE]
    /\ wd' = [wd EXCEPT ![s] = Root]
    /\ pendingWrite' = [pendingWrite EXCEPT ![s] = None]
    /\ \E u \in Accounts[s] : user' = [user EXCEPT ![s] = u]
    /\ UNCHANGED <<table, accepting, receiving>>

-----------------------------------------------------------------------------
Init ==
    /\ rows = {}
    /\ disk = [i \in Ids |-> None]
    /\ damaged = {} /\ leaked = {}
    /\ user \in [Sessions -> Users] /\ \A s \in Sessions : user[s] \in Accounts[s]
    /\ wd = [s \in Sessions |-> Root]
    /\ reading = [s \in Sessions |-> TRUE]
    /\ pendingWrite = [s \in Sessions |-> None]
    /\ accepting = [s \in Sessions |-> FALSE]
    /\ receiving = [s \in Sessions |-> None]

Step(s) ==
    \/ CDUP(s) \/ CWDRoot(s) \/ RETR(s)
    \/ \E u \in Users : USER(s, u)
    \/ \E abs \in BOOLEAN, segs \in Segments :
         \/ CWD(s, abs, segs) \/ MKD(s, abs, segs) \/ RMD(s, abs, segs)
         \/ DELE(s, abs, segs) \/ STOR(s, abs, segs)
    \/ ReceiveFile(s) \/ ReceiveChunk(s) \/ ReceiveEnd(s) \/ WriteFails(s)
    \/ Leave(s) \/ Return(s)

Next == \E s \in Sessions : Step(s)

Spec == Init /\ [][Next]_vars

-----------------------------------------------------------------------------
(* Properties.                                                             *)

TypeOK ==
    /\ rows \subseteq Row
    /\ disk \in [Ids -> Nat \cup {None}]
    /\ damaged \subseteq Ids /\ leaked \subseteq Ids
    /\ user \in [Sessions -> Users] /\ \A s \in Sessions : user[s] \in Accounts[s]
    /\ wd \in [Sessions -> Paths]
    /\ reading \in [Sessions -> BOOLEAN]
    /\ pendingWrite \in [Sessions -> ObjectPaths \cup {None}]
    /\ accepting \in [Sessions -> BOOLEAN]
    /\ receiving \in [Sessions -> Upload \cup {None}]

WholePath(r) == Append(r.path, r.name)

\* Every object is inside a directory that exists and is its owner's, whatever
\* the order in which sessions create, upload and remove: there are no orphans
\* that no CWD and LIST would reach and no RMD would remove (create_object,
\* remove_fs_object).
ParentExists ==
    \A r \in rows : r.path # Root =>
        \E d \in rows : d.dir /\ d.user = r.user /\ WholePath(d) = r.path

\* A row of a file whose operations all went through has its data file, even when
\* sessions remove what others are uploading (data_receive_file,
\* remove_fs_object).
DataFileForRow == \A r \in rows : ~r.dir /\ r.id \notin damaged => disk[r.id] # None

\* A data file has the row that owns it, unless the disk refused to remove it:
\* removing the object is what frees the disk, so a file without a row is never
\* freed (create_object, remove_fs_object).
RowForDataFile ==
    \A i \in Ids : disk[i] # None => i \in leaked \/ \E r \in rows : r.id = i

\* Once no upload to a file is under way, the size in its row, which LIST and
\* SIZE tell the client, is the size of its data file, unless the disk failed.
SizeAgrees ==
    \A r \in rows :
        /\ ~r.dir /\ r.id \notin damaged
        /\ \A s \in Sessions : receiving[s] # None => receiving[s].id # r.id
        => disk[r.id] = r.size

\* A step leaves the rows and the data files of every user alone but the one its
\* session has, and the one for whom its upload was opened, though the rows share
\* a table, a UNIQUE constraint and a directory.  (Which user a session has is the
\* last USER's doing: a session that has logged in is not asked for a password.)
UserIsolation ==
    [][\A s \in Sessions :
         \/ ~Step(s)
         \/ \A r \in rows :
              \/ r.user = User(s)
              \/ receiving[s] # None /\ receiving[s].owner = r.user
              \/ r \in rows' /\ disk'[r.id] = disk[r.id]]_vars

\* What one step removes is an object and what is inside it (the comment in
\* remove_fs_object), nothing beside it.
RemovesSubtreeOnly ==
    [][LET gone == {r \in rows : \A q \in rows' : q.id # r.id} IN
       gone = {} \/ \E o \in gone : \A r \in gone :
                        r = o \/ (o.dir /\ IsPrefix(WholePath(o), r.path))]_vars

\* The table as a tree for each user (VirtualFsCrash checks that it is one).
Tree == INSTANCE UserTree WITH
    Paths <- UNION {[1..n -> Names] : n \in 1..MaxDepth},
    objects <- {[owner |-> r.user, path |-> WholePath(r), dir |-> r.dir] : r \in rows}

=============================================================================
