--------------------------- MODULE VirtualFsCrash ---------------------------
(***************************************************************************)
(* The virtual file system of a server that is killed and started again.   *)
(* The server has no orderly stop: whoever ends it kills the process, which *)
(* may be inside a handler of VirtualFs.  The table and the data files     *)
(* persist; the sessions do not.  A killed process loses what its file     *)
(* streams have buffered, and no statement that SQLite has committed.      *)
(***************************************************************************)
EXTENDS VirtualFs

Receives(s, i) == receiving[s] # None /\ receiving[s].id = i

\* The process dies with the data files d, an uncertain part of each upload
\* still buffered; every client comes back to a new session.
Killed(d) ==
    /\ \E kept \in [{i \in Ids : d[i] # None /\ \E s \in Sessions : Receives(s, i)}
                      -> 0..MaxLen] :
         disk' = [i \in Ids |-> IF i \in DOMAIN kept /\ kept[i] < d[i]
                               THEN kept[i] ELSE d[i]]
    /\ user' \in [Sessions -> Users] /\ \A s \in Sessions : user'[s] \in Accounts[s]
    /\ wd' = [s \in Sessions |-> Root]
    /\ reading' = [s \in Sessions |-> TRUE]
    /\ pendingWrite' = [s \in Sessions |-> None]
    /\ accepting' = [s \in Sessions |-> FALSE]
    /\ receiving' = [s \in Sessions |-> None]

\* Damaged are from now on the objects whose handler, or whose upload, the crash
\* cuts short.
Cut(objects) ==
    damaged' = {i \in Ids : \/ i \in damaged \cup IdsOf(objects) /\ i \in IdsOf(rows')
                            \/ \E s \in Sessions : Receives(s, i)}

\* Mutant: the size is recorded before the file is closed.
CrashBeforeClose ==
    /\ rows' = {IF \E s \in Sessions : Receives(s, r.id)
                THEN [r EXCEPT !.size = MaxLen] ELSE r : r \in rows}
    /\ Killed(disk)
    /\ UNCHANGED <<damaged, leaked>>

\* Killed between two handlers.
Crash ==
    /\ rows' = rows
    /\ Killed(disk)
    /\ Cut({})
    /\ UNCHANGED leaked

\* Mutants: the rows go before the files; the object's own row goes before what
\* is inside it.
CrashInRemovalRowsFirst(u, p) ==
    \E o \in GetObject(u, p) :
        LET inside == RemovedWith(u, p, o) \ {o} IN
        /\ rows' = rows \ inside
        /\ \E freed \in SUBSET inside : Killed(DiskWithout(freed, {}))
        /\ Cut(inside \cup {o})
        /\ UNCHANGED leaked

CrashInRemovalTopFirst(u, p) ==
    \E o \in GetObject(u, p) :
        /\ rows' = rows \ {o}
        /\ Killed(DiskWithout({o}, {}))
        /\ Cut(RemovedWith(u, p, o))
        /\ UNCHANGED leaked

\* Killed inside remove_fs_object: some files of what is inside the object are
\* gone and no row yet; or all of them, but those that could not be removed, and
\* their rows, but not the row of the object itself.
CrashInRemoval(u, p) ==
    \E o \in GetObject(u, p) :
        LET inside == RemovedWith(u, p, o) \ {o} IN
        /\ \/ /\ rows' = rows
              /\ \E freed \in SUBSET inside : Killed(DiskWithout(freed, {}))
              /\ UNCHANGED leaked
           \/ \E kept \in MayBeKept(inside) :
                /\ rows' = rows \ inside
                /\ \E freed \in {inside, inside \cup {o}} :
                     Killed(DiskWithout(freed, kept))
                /\ leaked' = leaked \cup kept
        /\ Cut(inside \cup {o})

\* Killed inside data_receive_file: the row is there, the file is not yet.
CrashInReceiveFile(s) ==
    LET p == pendingWrite[s] IN
    /\ accepting[s]
    /\ ~CannotCreate(User(s), p)
    /\ \E i \in Ids : Fresh(i) /\ Insert(i, User(s), p, FALSE)
    /\ Killed(disk)
    /\ Cut(rows' \ rows)
    /\ UNCHANGED leaked

CrashStep ==
    \/ Crash
    \/ \E s \in Sessions :
         \/ CrashInReceiveFile(s)
         \/ /\ reading[s]
            /\ \E p \in UNION {{RmdTarget(wd[s], abs, segs), MkdTarget(wd[s], abs, segs)}
                              : abs \in BOOLEAN, segs \in Segments} :
                 CrashInRemoval(User(s), p)

CrashSpec == Init /\ [][Next \/ CrashStep]_vars

-----------------------------------------------------------------------------
(* Properties of the server that is killed at any time.                    *)

\* Damaged are only the objects whose operation a crash or an error of the disk
\* cuts short: the row of any other file has its data file, and, once no upload to
\* it is under way, the file's size.  An upload that is repeated repairs its file
\* (data_receive_file, data_async_receive_end, remove_fs_object).
IntactUnlessCut ==
    \A r \in rows : ~r.dir /\ r.id \notin damaged =>
        /\ disk[r.id] # None
        /\ (\A s \in Sessions : ~Receives(s, r.id)) => disk[r.id] = r.size

\* What loses its row or its data file in one step, even one that a crash cuts
\* short, is an object with what is inside it, or what is inside an object that
\* stays (the comment in remove_fs_object).
RemovesInsideOnly ==
    [][LET gone == {r \in rows : \/ \A q \in rows' : q.id # r.id
                                 \/ disk[r.id] # None /\ disk'[r.id] = None} IN
       gone = {} \/ \E o \in rows : \A r \in gone :
                        r = o \/ (o.dir /\ IsPrefix(WholePath(o), r.path))]_vars

\* The table that outlives crashes is still a tree for each user.
SurvivesAsUserTree == Tree!CrashSpec

=============================================================================
