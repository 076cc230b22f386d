--------------------------- MODULE VirtualFs_proofs ---------------------------
(***************************************************************************)
(* Theorems about VirtualFs, for every value of its constants.             *)
(***************************************************************************)
EXTENDS VirtualFs, SequenceTheorems, TLAPS

-----------------------------------------------------------------------------
(* Paths.                                                                  *)

\* A path is the path of its parent and its last segment.
LEMMA FrontLast ==
    ASSUME NEW S, NEW p \in Seq(S), p # <<>>
    PROVE  /\ Front(p) \in Seq(S)
           /\ Len(p) \in Nat \ {0}
           /\ Len(Front(p)) = Len(p) - 1
           /\ Last(p) \in S
           /\ \A i \in 1..(Len(p) - 1) : Front(p)[i] = p[i]
           /\ Append(Front(p), Last(p)) = p
  <1>1. Len(p) \in Nat \ {0}
    BY EmptySeq
  <1>2. \A i \in 1..Len(p) : p[i] \in S
    BY ElementOfSeq
  <1>3. Last(p) \in S
    BY <1>1, <1>2 DEF Last
  <1>4. /\ Front(p) \in Seq(S)
        /\ Len(Front(p)) = Len(p) - 1
        /\ \A i \in 1..(Len(p) - 1) : Front(p)[i] = p[i]
    <2>1. \A i \in 1..(Len(p) - 1) : p[i] \in S
      BY <1>1, <1>2
    <2> DEFINE m == Len(p) - 1
    <2>2. m \in Nat
      BY <1>1
    <2>3. /\ SubSeq(p, 1, m) \in Seq(S)
          /\ Len(SubSeq(p, 1, m)) = IF 1 <= m THEN m - 1 + 1 ELSE 0
          /\ \A i \in 1..(m - 1 + 1) : SubSeq(p, 1, m)[i] = p[1 + i - 1]
      BY <2>1, <2>2, SubSeqProperties
    <2>4. m - 1 + 1 = m /\ \A i \in 1..m : 1 + i - 1 = i
      BY <2>2
    <2>5. QED
      BY <2>2, <2>3, <2>4 DEF Front
  <1>5. Append(Front(p), Last(p)) = p
    <2>1. /\ Append(Front(p), Last(p)) \in Seq(S)
          /\ Len(Append(Front(p), Last(p))) = Len(Front(p)) + 1
          /\ \A i \in 1..Len(Front(p)) : Append(Front(p), Last(p))[i] = Front(p)[i]
          /\ Append(Front(p), Last(p))[Len(Front(p)) + 1] = Last(p)
      BY <1>3, <1>4, AppendProperties
    <2>2. \A i \in 1..Len(p) : Append(Front(p), Last(p))[i] = p[i]
      BY <1>1, <1>4, <2>1 DEF Last
    <2>3. QED
      BY <1>1, <1>4, <2>1, <2>2, SeqEqual
  <1>6. QED
    BY <1>1, <1>3, <1>4, <1>5

\* The parent of a path of real names is the path without its last segment.
LEMMA ParentOfPath ==
    ASSUME NEW p \in ObjectPaths
    PROVE  Parent(p) = Front(p) /\ Parent(p) \in Paths
  <1>1. Front(p) \in Seq(Names)
    BY FrontLast DEF ObjectPaths, Paths, Root
  <1>2. Front(p) # <<Empty>>
    <2>1. Front(p) # <<>> => Front(p)[1] \in Names
      BY <1>1, EmptySeq, ElementOfSeq
    <2>2. <<Empty>> # <<>> /\ <<Empty>>[1] \notin Names
      BY NamesAssumption
    <2>3. QED
      BY <2>1, <2>2
  <1>3. QED
    BY <1>1, <1>2 DEF Parent, Paths

LEMMA ParentInPaths == \A p \in Paths : Parent(p) \in Paths
  <1>1. Parent(<<>>) \in Paths
    <2>1. Front(<<>>) = <<>>
      <3>1. Len(<<>>) = 0
        BY EmptySeq
      <3>2. Len(<<>>) - 1 < 1 /\ Len(<<>>) - 1 \in Int
        BY <3>1
      <3>3. QED
        BY <3>2, SubSeqEmpty DEF Front
    <2>2. QED
      BY <2>1, EmptySeq DEF Parent, Paths, Root
  <1>2. QED
    BY <1>1, ParentOfPath DEF ObjectPaths, Root

\* The argument of a command is at least one segment, each a real name.
LEMMA SegmentsArePaths == Segments \subseteq ObjectPaths
  <1> SUFFICES ASSUME NEW n \in 1..MaxArg, NEW p \in [1..n -> Names]
               PROVE  p \in ObjectPaths
    BY DEF Segments
  <1>1. n \in Nat /\ n > 0
    BY BoundsAssumption
  <1>2. p \in Seq(Names)
    BY <1>1
  <1>3. 1 \in DOMAIN p
    BY <1>1
  <1>4. DOMAIN <<>> = {}
    OBVIOUS
  <1>5. QED
    BY <1>2, <1>3, <1>4 DEF ObjectPaths, Paths, Root

\* Where a command puts its argument: a path of real names, whatever the
\* command, unless MKD or DELE prefix an absolute path of several segments.
PrefixedPath(p) == \E q \in ObjectPaths : Len(q) > 1 /\ p = <<Empty>> \o q

TargetPath(p) == p \in ObjectPaths \/ PrefixedPath(p)

LEMMA ResolvedArgument ==
    ASSUME NEW d \in Paths, NEW segs \in Segments, NEW abs \in BOOLEAN
    PROVE  /\ Resolve(d, abs, segs) \in ObjectPaths
           /\ RmdTarget(d, abs, segs) \in ObjectPaths
           /\ \/ MkdTarget(d, abs, segs) \in ObjectPaths
              \/ abs /\ Len(segs) > 1 /\ PrefixedPath(MkdTarget(d, abs, segs))
  <1>1. segs \in ObjectPaths
    BY SegmentsArePaths
  <1>2. d \o segs \in ObjectPaths
    BY <1>1, ConcatProperties, ConcatEqualIffEmpty DEF ObjectPaths, Paths, Root
  <1>3. Len(segs) = 1 => Append(d, segs[1]) \in ObjectPaths
    BY <1>1, ElementOfSeq, AppendProperties DEF ObjectPaths, Paths, Root
  <1>4. Resolve(d, abs, segs) \in ObjectPaths
    BY <1>1, <1>2 DEF Resolve
  <1>5. RmdTarget(d, abs, segs) \in ObjectPaths
    BY <1>1, <1>3 DEF RmdTarget
  <1>6. \/ MkdTarget(d, abs, segs) \in ObjectPaths
        \/ abs /\ Len(segs) > 1 /\ PrefixedPath(MkdTarget(d, abs, segs))
    BY <1>1, <1>3 DEF MkdTarget, PrefixedPath
  <1>7. QED
    BY <1>4, <1>5, <1>6

\* Every such path has a row's parent path and a row's name.
Target(p) == Last(p) \in Names /\ Parent(p) \in Seq(Names \cup {Empty})

LEMMA TargetOfArgument ==
    ASSUME NEW p, p \in ObjectPaths \/ PrefixedPath(p)
    PROVE  Target(p)
  <1>1. CASE p \in ObjectPaths
    <2>1. Last(p) \in Names
      BY <1>1, FrontLast DEF ObjectPaths, Paths, Root
    <2>2. Parent(p) \in Seq(Names)
      BY <1>1, ParentOfPath DEF Paths
    <2>3. QED
      BY <2>1, <2>2, SeqMonotonic DEF Target
  <1>2. CASE PrefixedPath(p)
    <2>1. PICK q \in ObjectPaths : Len(q) > 1 /\ p = <<Empty>> \o q
      BY <1>2 DEF PrefixedPath
    <2> DEFINE T == Names \cup {Empty}
    <2>2. <<Empty>> \in Seq(T) /\ Len(<<Empty>>) = 1
      OBVIOUS
    <2>3. q \in Seq(T) /\ q \in Seq(Names) /\ q # <<>>
      BY SeqMonotonic DEF ObjectPaths, Paths, Root
    <2>4. /\ p \in Seq(T)
          /\ Len(p) = 1 + Len(q)
          /\ \A i \in 1..(1 + Len(q)) : p[i] = IF i <= 1 THEN <<Empty>>[i] ELSE q[i - 1]
      BY <2>1, <2>2, <2>3, ConcatProperties
    <2>5. Len(q) \in Nat
      BY <2>3, EmptySeq
    <2>6. p # <<>>
      BY <2>4, <2>5, EmptySeq
    <2>7. Last(p) \in Names
      <3>1. Last(p) = q[Len(q)]
        BY <2>1, <2>4, <2>5 DEF Last
      <3>2. q[Len(q)] \in Names
        BY <2>1, <2>3, <2>5, ElementOfSeq
      <3>3. QED
        BY <3>1, <3>2
    <2>8. Front(p) \in Seq(T)
      BY <2>4, <2>6, FrontLast
    <2>9. Parent(p) \in Seq(T)
      <3>1. <<>> \in Seq(T)
        BY EmptySeq
      <3>2. QED
        BY <2>8, <3>1 DEF Parent, Root
    <2>10. QED
      BY <2>7, <2>9 DEF Target
  <1>3. QED
    BY <1>1, <1>2

-----------------------------------------------------------------------------
(* The table and the uploads, whatever the sessions do.                    *)

UniqueIds == \A r, q \in rows : r.id = q.id => r = q

\* The file an upload writes is nobody's, or belongs to the user it was opened for.
UploadOwnsId ==
    \A s \in Sessions : receiving[s] # None =>
        \A r \in rows : r.id = receiving[s].id => r.user = receiving[s].owner

UploadPhases ==
    \A s \in Sessions :
        /\ accepting[s] \/ receiving[s] # None => pendingWrite[s] # None
        /\ accepting[s] => receiving[s] = None

TableInv ==
    /\ TypeOK
    /\ UniqueIds
    /\ UploadOwnsId
    /\ UploadPhases

LEMMA UserType ==
    ASSUME TypeOK
    PROVE  \A s \in Sessions : User(s) \in Users
  BY DEF User, TypeOK

\* The session's user may change, to one of its client's.
Accountable(w) == w \in [Sessions -> Users] /\ \A s \in Sessions : w[s] \in Accounts[s]

LEMMA AccountableExcept ==
    ASSUME NEW w, NEW s \in Sessions, Accountable(w), NEW u \in Accounts[s]
    PROVE  Accountable([w EXCEPT ![s] = u])
  BY UsersAssumption DEF Accountable

\* Insert adds at most one row, with a new id.
LEMMA InsertAdds ==
    ASSUME rows \subseteq Row, UniqueIds, NEW u \in Users, NEW p, Target(p), NEW i \in Ids,
           Fresh(i), NEW isDir \in BOOLEAN, Insert(i, u, p, isDir)
    PROVE  /\ rows' \subseteq Row
           /\ rows \subseteq rows'
           /\ \A r \in rows' : r \in rows \/ (r.id = i /\ r.user = u /\ r.dir = isDir)
           /\ UniqueIds'
  <1> DEFINE new == [id |-> i, user |-> u, path |-> Parent(p),
                     name |-> Last(p), dir |-> isDir, size |-> 0]
  <1>1. new \in Row
    BY DEF Row, Target
  <1>2. rows' = rows \/ rows' = rows \cup {new}
    BY DEF Insert
  <1>3. \A r \in rows : r.id # i
    BY DEF Fresh
  <1>4. new.id = i /\ new.user = u /\ new.dir = isDir
    OBVIOUS
  <1> HIDE DEF new
  <1>5. QED
    BY <1>1, <1>2, <1>3, <1>4 DEF UniqueIds

\* RemoveObject takes rows of the user alone, and leaves the data file of every
\* row that stays.
LEMMA RemoveTakes ==
    ASSUME TypeOK, UniqueIds, NEW u \in Users, NEW p, RemoveObject(u, p)
    PROVE  /\ rows' \subseteq rows
           /\ disk' \in [Ids -> Nat \cup {None}]
           /\ damaged' \subseteq Ids /\ leaked' \subseteq Ids
           /\ \A r \in rows : r.user # u => r \in rows'
           /\ \A r \in rows' : /\ disk'[r.id] = disk[r.id]
                               /\ (r.id \in damaged' <=> r.id \in damaged)
  <1>0. PICK o \in GetObject(u, p) :
           \E kept \in MayBeKept(RemovedWith(u, p, o)) :
              /\ rows' = rows \ RemovedWith(u, p, o)
              /\ disk' = DiskWithout(RemovedWith(u, p, o), kept)
              /\ leaked' = leaked \cup kept
              /\ damaged' = damaged \ IdsOf(RemovedWith(u, p, o))
    BY DEF RemoveObject
  <1> DEFINE gone == RemovedWith(u, p, o)
  <1>1. PICK kept \in MayBeKept(gone) :
           /\ rows' = rows \ gone
           /\ disk' = DiskWithout(gone, kept)
           /\ leaked' = leaked \cup kept
           /\ damaged' = damaged \ IdsOf(gone)
    BY <1>0
  <1>2. \A r \in gone : r \in rows /\ r.user = u
    BY DEF RemovedWith, GetObject
  <1> HIDE DEF gone
  <1>3. \A r \in rows : r.id \in Ids
    BY DEF TypeOK, Row
  <1>4. disk' \in [Ids -> Nat \cup {None}]
    BY <1>1 DEF TypeOK, DiskWithout
  <1>5. \A r \in rows' : r.id \notin IdsOf(gone)
    BY <1>1, <1>2 DEF UniqueIds, IdsOf
  <1>6. \A r \in rows' : disk'[r.id] = disk[r.id]
    BY <1>1, <1>3, <1>5 DEF DiskWithout
  <1>7. kept \subseteq Ids
    <2>1. \A i \in IdsOf(gone) : i \in Ids
      BY <1>2, <1>3 DEF IdsOf
    <2>2. CASE DiskErrors
      BY <2>1, <2>2 DEF MayBeKept
    <2>3. CASE ~DiskErrors
      BY <2>3 DEF MayBeKept
    <2>4. QED
      BY <2>2, <2>3
  <1>8. damaged' \subseteq Ids /\ leaked' \subseteq Ids
    BY <1>1, <1>7 DEF TypeOK
  <1>9. QED
    BY <1>1, <1>2, <1>4, <1>5, <1>6, <1>8

LEMMA TableInit == Init => TableInv
  <1> SUFFICES ASSUME Init PROVE TableInv
    OBVIOUS
  <1>1. Root \in Paths
    BY EmptySeq DEF Root, Paths
  <1>2. TypeOK
    BY <1>1 DEF Init, TypeOK
  <1>3. QED
    BY <1>2 DEF Init, TableInv, UniqueIds, UploadOwnsId, UploadPhases

\* The steps, one by one: what each does to the invariant, that it leaves the
\* rows and data files of other users alone, and that it takes no row's file.
Isolated(s) ==
    \A r \in rows :
        \/ r.user = User(s)
        \/ receiving[s] # None /\ receiving[s].owner = r.user
        \/ r \in rows' /\ disk'[r.id] = disk[r.id]

KeepsFiles ==
    \A q \in rows' : ~q.dir /\ q.id \notin damaged' /\ disk'[q.id] = None =>
        \E r \in rows :
            ~r.dir /\ r.id = q.id /\ r.id \notin damaged /\ disk[r.id] = None

LEMMA UnchangedTable ==
    ASSUME TableInv, NEW s \in Sessions, UNCHANGED <<table, receiving>>, TypeOK',
           UploadPhases'
    PROVE  TableInv' /\ Isolated(s) /\ KeepsFiles
  <1>1. UNCHANGED <<rows, disk, damaged, receiving>>
    BY DEF table
  <1>2. UniqueIds' /\ KeepsFiles
    BY <1>1 DEF TableInv, UniqueIds, KeepsFiles
  <1>3. UploadOwnsId'
    BY <1>1 DEF TableInv, UploadOwnsId
  <1>4. QED
    BY <1>1, <1>2, <1>3 DEF TableInv, Isolated

LEMMA ConcatPaths ==
    ASSUME NEW d \in Paths, NEW e \in Paths
    PROVE  d \o e \in Paths
  BY ConcatProperties DEF Paths

LEMMA MovesStep ==
    ASSUME TableInv, NEW s \in Sessions,
           \/ CDUP(s) \/ CWDRoot(s) \/ Leave(s)
           \/ \E abs \in BOOLEAN, segs \in Segments : CWD(s, abs, segs)
    PROVE  TableInv' /\ Isolated(s) /\ KeepsFiles
  <1>1. PICK p \in Paths : wd' = [wd EXCEPT ![s] = p]
    <2>1. wd[s] \in Paths /\ Root \in Paths
      BY EmptySeq DEF TableInv, TypeOK, Root, Paths
    <2>2. Parent(wd[s]) \in Paths
      BY <2>1, ParentInPaths
    <2>3. ASSUME NEW abs \in BOOLEAN, NEW segs \in Segments, CWD(s, abs, segs)
          PROVE  \E p \in Paths : wd' = [wd EXCEPT ![s] = p]
      <3>1. segs \in Paths
        BY SegmentsArePaths DEF ObjectPaths
      <3>2. (IF abs THEN Root ELSE wd[s]) \o segs \in Paths
        BY <2>1, <3>1, ConcatPaths
      <3>3. QED
        BY <2>3, <3>2 DEF CWD
    <2>4. QED
      BY <2>1, <2>2, <2>3 DEF CDUP, CWDRoot, Leave
  <1>2. UNCHANGED <<table, user, upload>>
    BY DEF CDUP, CWDRoot, Leave, CWD
  <1>3. reading' \in [Sessions -> BOOLEAN]
    BY DEF TableInv, TypeOK, CDUP, CWDRoot, Leave, CWD
  <1>4. TypeOK'
    BY <1>1, <1>2, <1>3 DEF TableInv, TypeOK, table, upload
  <1>5. UploadPhases' /\ UNCHANGED receiving
    BY <1>2 DEF TableInv, UploadPhases, upload
  <1>6. QED
    BY <1>2, <1>4, <1>5, UnchangedTable

LEMMA USERStep ==
    ASSUME TableInv, NEW s \in Sessions, NEW u, USER(s, u)
    PROVE  TableInv' /\ Isolated(s) /\ KeepsFiles
  <1>1. UNCHANGED <<rows, disk, damaged, leaked, wd, reading, pendingWrite, accepting,
                    receiving>>
    BY DEF USER, table, upload
  <1>2. Accountable(user')
    BY AccountableExcept DEF USER, TableInv, TypeOK, Accountable
  <1>3. TypeOK'
    BY <1>1, <1>2 DEF TableInv, TypeOK, Accountable
  <1>4. UploadPhases'
    BY <1>1 DEF TableInv, UploadPhases
  <1>5. QED
    BY <1>1, <1>3, <1>4, UnchangedTable DEF table

LEMMA ReturnStep ==
    ASSUME TableInv, NEW s \in Sessions, Return(s)
    PROVE  TableInv' /\ Isolated(s) /\ KeepsFiles
  <1>1. UNCHANGED <<rows, disk, damaged, leaked, accepting, receiving>>
    BY DEF Return, table
  <1>2. Root \in Paths
    BY EmptySeq DEF Root, Paths
  <1>3. Accountable(user')
    BY AccountableExcept DEF Return, TableInv, TypeOK, Accountable
  <1>4. TypeOK'
    BY <1>1, <1>2, <1>3 DEF TableInv, TypeOK, Return, Accountable
  <1>5. UploadPhases'
    BY <1>1 DEF TableInv, TypeOK, UploadPhases, Return
  <1>6. QED
    BY <1>1, <1>4, <1>5, UnchangedTable DEF table

LEMMA RETRStep ==
    ASSUME TableInv, NEW s \in Sessions, RETR(s)
    PROVE  TableInv' /\ Isolated(s) /\ KeepsFiles
  <1>1. /\ UNCHANGED <<rows, disk, damaged, leaked, user, wd, reading, pendingWrite,
                       receiving>>
        /\ accepting' = [accepting EXCEPT ![s] = TRUE]
    BY DEF RETR, table, session
  <1>2. TypeOK'
    BY <1>1 DEF TableInv, TypeOK
  <1>3. UploadPhases'
    BY <1>1 DEF RETR, TableInv, TypeOK, UploadPhases
  <1>4. QED
    BY <1>1, <1>2, <1>3, UnchangedTable DEF table

LEMMA MKDStep ==
    ASSUME TableInv, NEW s \in Sessions, NEW abs \in BOOLEAN, NEW segs \in Segments,
           MKD(s, abs, segs)
    PROVE  TableInv' /\ Isolated(s) /\ KeepsFiles
  <1> DEFINE p == MkdTarget(wd[s], abs, segs)
  <1>1. Target(p)
    <2>1. wd[s] \in Paths
      BY DEF TableInv, TypeOK
    <2>2. QED
      BY <2>1, ResolvedArgument, TargetOfArgument
  <1> HIDE DEF p
  <1>2. PICK i \in Ids : Fresh(i) /\ Insert(i, User(s), p, TRUE)
    BY DEF MKD, p
  <1>3. /\ UNCHANGED <<disk, leaked, user, wd, reading, pendingWrite, accepting, receiving>>
        /\ damaged' = damaged \ IdsOf(rows' \ rows)
    BY DEF MKD, session, upload
  <1>4. User(s) \in Users /\ rows \subseteq Row /\ UniqueIds
    BY UserType DEF TableInv, TypeOK
  <1>5. /\ rows' \subseteq Row
        /\ rows \subseteq rows'
        /\ \A r \in rows' : r \in rows \/ (r.id = i /\ r.user = User(s) /\ r.dir = TRUE)
        /\ UniqueIds'
    BY <1>1, <1>2, <1>4, InsertAdds
  <1>6. TypeOK'
    BY <1>3, <1>5 DEF TableInv, TypeOK
  <1>7. UploadOwnsId'
    BY <1>2, <1>3, <1>5 DEF TableInv, UploadOwnsId, Fresh
  <1>8. UploadPhases'
    BY <1>3 DEF TableInv, UploadPhases
  <1>9. KeepsFiles
    <2>1. \A r \in rows : r.id # i
      BY <1>2 DEF Fresh
    <2>2. \A r \in rows : r.id \notin damaged' => r.id \notin damaged
      BY <1>3, <1>5, <2>1 DEF IdsOf
    <2>3. QED
      BY <1>3, <1>5, <2>2 DEF KeepsFiles
  <1>10. QED
    BY <1>3, <1>5, <1>6, <1>7, <1>8, <1>9 DEF TableInv, Isolated

LEMMA RemoveStep ==
    ASSUME TableInv, NEW s \in Sessions, NEW p, RemoveObject(User(s), p),
           UNCHANGED <<session, upload>>
    PROVE  TableInv' /\ Isolated(s) /\ KeepsFiles
  <1>1. UNCHANGED <<user, wd, reading, pendingWrite, accepting, receiving>>
    BY DEF session, upload
  <1>2. /\ rows' \subseteq rows
        /\ disk' \in [Ids -> Nat \cup {None}]
        /\ damaged' \subseteq Ids /\ leaked' \subseteq Ids
        /\ \A r \in rows : r.user # User(s) => r \in rows'
        /\ \A r \in rows' : /\ disk'[r.id] = disk[r.id]
                            /\ (r.id \in damaged' <=> r.id \in damaged)
    <2>1. User(s) \in Users
      BY UserType DEF TableInv
    <2>2. QED
      BY <2>1, RemoveTakes DEF TableInv
  <1>3. TypeOK'
    BY <1>1, <1>2 DEF TableInv, TypeOK
  <1>4. UniqueIds' /\ UploadOwnsId' /\ UploadPhases' /\ KeepsFiles
    <2>1. UniqueIds'
      BY <1>2 DEF TableInv, UniqueIds
    <2>2. UploadOwnsId'
      BY <1>1, <1>2 DEF TableInv, UploadOwnsId
    <2>3. UploadPhases'
      BY <1>1 DEF TableInv, UploadPhases
    <2>4. ASSUME NEW q \in rows', ~q.dir, q.id \notin damaged', disk'[q.id] = None
          PROVE  q \in rows /\ q.id \notin damaged /\ disk[q.id] = None
      BY <1>2, <2>4
    <2>5. KeepsFiles
      BY <2>4 DEF KeepsFiles
    <2>6. QED
      BY <2>1, <2>2, <2>3, <2>5
  <1>5. ASSUME NEW r \in rows, r.user # User(s)
        PROVE  r \in rows' /\ disk'[r.id] = disk[r.id]
    BY <1>2, <1>5
  <1>6. Isolated(s)
    BY <1>5 DEF Isolated
  <1>7. QED
    BY <1>3, <1>4, <1>6 DEF TableInv

LEMMA STORStep ==
    ASSUME TableInv, NEW s \in Sessions, NEW abs \in BOOLEAN, NEW segs \in Segments,
           STOR(s, abs, segs)
    PROVE  TableInv' /\ Isolated(s) /\ KeepsFiles
  <1> DEFINE p == Resolve(wd[s], abs, segs)
  <1>1. p \in ObjectPaths
    <2>1. wd[s] \in Paths
      BY DEF TableInv, TypeOK
    <2>2. QED
      BY <2>1, ResolvedArgument
  <1> HIDE DEF p
  <1>2. p # None
    BY <1>1, NoneAssumption
  <1>3. UNCHANGED <<rows, disk, damaged, leaked, user, wd, receiving>>
    BY DEF STOR, table, upload
  <1>4. \/ UNCHANGED <<pendingWrite, accepting>>
        \/ /\ pendingWrite[s] = None
           /\ pendingWrite' = [pendingWrite EXCEPT ![s] = p]
           /\ \/ UNCHANGED accepting
              \/ accepting' = [accepting EXCEPT ![s] = TRUE]
    BY DEF STOR, p, upload
  <1>5. TypeOK'
    <2>1. reading' \in [Sessions -> BOOLEAN]
      BY DEF STOR, TableInv, TypeOK
    <2>2. QED
      BY <1>1, <1>3, <1>4, <2>1 DEF TableInv, TypeOK
  <1>6. UploadPhases'
    BY <1>2, <1>3, <1>4 DEF TableInv, TypeOK, UploadPhases
  <1>7. QED
    BY <1>3, <1>5, <1>6, UnchangedTable DEF table

\* An upload begins on a file that is its user's or nobody's.
LEMMA OpensInv ==
    ASSUME TableInv, NEW s \in Sessions, accepting[s],
           accepting' = [accepting EXCEPT ![s] = FALSE],
           UNCHANGED <<leaked, user, wd, reading, pendingWrite>>,
           rows' \subseteq Row, rows \subseteq rows', UniqueIds',
           NEW i \in Ids,
           \A r \in rows' : r.id = i => r.user = User(s),
           \A r \in rows' : r \in rows \/ r.id = i,
           \A r \in rows : r.user # User(s) => r.id # i,
           \A r \in rows', t \in Sessions :
              receiving[t] # None /\ r.id = receiving[t].id => r \in rows,
           NEW n \in Nat, NEW append \in BOOLEAN, Opened(s, i, n, append)
    PROVE  TableInv' /\ Isolated(s) /\ KeepsFiles
  <1> DEFINE new == [id |-> i, owner |-> User(s), file |-> pendingWrite[s], size |-> n,
                     off |-> 0, append |-> append]
  <1>1. new \in Upload
    <2>1. pendingWrite[s] \in ObjectPaths /\ User(s) \in Users
      BY UserType DEF TableInv, TypeOK, UploadPhases
    <2>2. QED
      BY <2>1 DEF Upload
  <1>2. new # None /\ new.id = i /\ new.owner = User(s)
    BY <1>1, NoneAssumption
  <1>3. /\ receiving' = [receiving EXCEPT ![s] = new]
        /\ disk' = [disk EXCEPT ![i] = 0]
        /\ damaged' = damaged \ {i}
    BY DEF Opened
  <1> HIDE DEF new
  <1>4. TypeOK'
    BY <1>1, <1>3 DEF TableInv, TypeOK
  <1>5. UploadOwnsId'
    <2>1. ASSUME NEW t \in Sessions, receiving'[t] # None,
                 NEW r \in rows', r.id = receiving'[t].id
          PROVE  r.user = receiving'[t].owner
      <3>1. CASE t = s
        BY <1>2, <1>3, <2>1, <3>1 DEF TableInv, TypeOK
      <3>2. CASE t # s
        BY <1>3, <2>1, <3>2 DEF TableInv, TypeOK, UploadOwnsId
      <3>3. QED
        BY <3>1, <3>2
    <2>2. QED
      BY <2>1 DEF UploadOwnsId
  <1>6. UploadPhases'
    BY <1>3 DEF TableInv, TypeOK, UploadPhases
  <1>7. KeepsFiles
    <2>1. ASSUME NEW q \in rows', ~q.dir, q.id \notin damaged', disk'[q.id] = None
          PROVE  q \in rows /\ disk[q.id] = None /\ q.id \notin damaged
      <3>1. q.id \in Ids
        BY DEF Row
      <3>2. q.id # i
        BY <1>3, <2>1, <3>1, NoneAssumption DEF TableInv, TypeOK
      <3>3. QED
        BY <1>3, <2>1, <3>1, <3>2 DEF TableInv, TypeOK
    <2>2. QED
      BY <2>1 DEF KeepsFiles
  <1>8. Isolated(s)
    BY <1>3 DEF Isolated, TableInv, TypeOK, Row
  <1>9. QED
    BY <1>4, <1>5, <1>6, <1>7, <1>8 DEF TableInv

\* The file of a row that has just been created cannot be opened.
LEMMA NotOpenedInv ==
    ASSUME TableInv, NEW s \in Sessions, accepting[s],
           accepting' = [accepting EXCEPT ![s] = FALSE],
           UNCHANGED <<leaked, user, wd, reading, pendingWrite, disk, receiving>>,
           rows' \subseteq Row, rows \subseteq rows', UniqueIds',
           damaged' = damaged \cup IdsOf(rows' \ rows),
           \A r \in rows', t \in Sessions :
              receiving[t] # None /\ r.id = receiving[t].id => r \in rows
    PROVE  TableInv' /\ Isolated(s) /\ KeepsFiles
  <1>1. TypeOK'
    <2>1. \A i \in IdsOf(rows' \ rows) : i \in Ids
      BY DEF IdsOf, Row
    <2>2. QED
      BY <2>1 DEF TableInv, TypeOK
  <1>2. UploadOwnsId'
    BY DEF TableInv, UploadOwnsId
  <1>3. UploadPhases'
    BY DEF TableInv, TypeOK, UploadPhases
  <1>4. KeepsFiles
    BY DEF KeepsFiles, IdsOf
  <1>5. Isolated(s)
    BY DEF Isolated
  <1>6. QED
    BY <1>1, <1>2, <1>3, <1>4, <1>5 DEF TableInv

LEMMA ReceiveFileStep ==
    ASSUME TableInv, NEW s \in Sessions, ReceiveFile(s)
    PROVE  TableInv' /\ Isolated(s) /\ KeepsFiles
  <1> DEFINE u == User(s)
             p == pendingWrite[s]
  <1>1. p \in ObjectPaths /\ Target(p)
    <2>1. p \in ObjectPaths
      BY DEF ReceiveFile, TableInv, TypeOK, UploadPhases
    <2>2. QED
      BY <2>1, TargetOfArgument
  <1>2. /\ accepting[s] /\ accepting' = [accepting EXCEPT ![s] = FALSE]
        /\ UNCHANGED <<leaked, user, wd, reading, pendingWrite>>
    BY DEF ReceiveFile, session
  <1>3. ASSUME NEW o \in GetObject(u, p), rows' = rows, Opened(s, o.id, o.size, FALSE)
        PROVE  TableInv' /\ Isolated(s) /\ KeepsFiles
    <2>1. o \in rows /\ o.user = User(s) /\ o.id \in Ids /\ o.size \in Nat
      BY DEF GetObject, TableInv, TypeOK, Row
    <2>2. \A r \in rows : r.id = o.id => r = o
      BY <2>1 DEF TableInv, UniqueIds
    <2>3. rows \subseteq Row /\ UniqueIds'
      BY <1>3 DEF TableInv, TypeOK, UniqueIds
    <2>4. QED
      BY <1>2, <1>3, <2>1, <2>2, <2>3, OpensInv
  <1>4. ASSUME NEW i \in Ids, Fresh(i), Insert(i, u, p, FALSE),
               Opened(s, i, 0, TRUE) \/ NotOpened(rows' \ rows)
        PROVE  TableInv' /\ Isolated(s) /\ KeepsFiles
    <2>1. /\ rows' \subseteq Row
          /\ rows \subseteq rows'
          /\ \A r \in rows' : r \in rows \/ (r.id = i /\ r.user = u /\ r.dir = FALSE)
          /\ UniqueIds'
      <3>1. u \in Users /\ rows \subseteq Row /\ UniqueIds
        BY UserType DEF TableInv, TypeOK
      <3>2. QED
        BY <1>1, <1>4, <3>1, InsertAdds
    <2>2. \A r \in rows : r.id # i
      BY <1>4 DEF Fresh
    <2>3. \A r \in rows', t \in Sessions :
             receiving[t] # None /\ r.id = receiving[t].id => r \in rows
      BY <1>4, <2>1 DEF Fresh
    <2>4. CASE Opened(s, i, 0, TRUE)
      BY <1>2, <2>1, <2>2, <2>3, <2>4, OpensInv
    <2>5. CASE NotOpened(rows' \ rows)
      BY <1>2, <2>1, <2>3, <2>5, NotOpenedInv DEF NotOpened
    <2>6. QED
      BY <1>4, <2>4, <2>5
  <1>5. ASSUME UNCHANGED <<rows, disk, damaged, receiving>>
        PROVE  TableInv' /\ Isolated(s) /\ KeepsFiles
    <2>1. TypeOK'
      BY <1>2, <1>5 DEF TableInv, TypeOK
    <2>2. UploadPhases'
      BY <1>2, <1>5 DEF TableInv, TypeOK, UploadPhases
    <2>3. UNCHANGED <<table, receiving>>
      BY <1>2, <1>5 DEF table
    <2>4. QED
      BY <2>1, <2>2, <2>3, UnchangedTable
  <1>6. ASSUME rows' = rows, NotOpened({})
        PROVE  UNCHANGED <<rows, disk, damaged, receiving>>
    BY <1>6 DEF NotOpened, IdsOf
  <1>7. QED
    BY <1>3, <1>4, <1>5, <1>6 DEF ReceiveFile

LEMMA UploadExcept ==
    ASSUME NEW up \in Upload, NEW n \in Nat, NEW m \in Nat
    PROVE  /\ [up EXCEPT !.size = n, !.off = m] \in Upload
           /\ [up EXCEPT !.size = n, !.off = m].id = up.id
           /\ [up EXCEPT !.size = n, !.off = m].owner = up.owner
  <1> DEFINE mid == [up EXCEPT !.size = n]
  <1>1. mid \in Upload /\ mid.id = up.id /\ mid.owner = up.owner
    BY DEF Upload
  <1> HIDE DEF mid
  <1>2. /\ [mid EXCEPT !.off = m] \in Upload
        /\ [mid EXCEPT !.off = m].id = mid.id
        /\ [mid EXCEPT !.off = m].owner = mid.owner
    BY <1>1 DEF Upload
  <1>3. [up EXCEPT !.size = n, !.off = m] = [mid EXCEPT !.off = m]
    BY DEF mid
  <1>4. QED
    BY <1>1, <1>2, <1>3

LEMMA ReceiveChunkStep ==
    ASSUME TableInv, NEW s \in Sessions, ReceiveChunk(s)
    PROVE  TableInv' /\ Isolated(s) /\ KeepsFiles
  <1> DEFINE old == receiving[s]
             new == [old EXCEPT !.size = @ + 1, !.off = @ + 1]
             i == old.id
  <1>1. old \in Upload /\ old # None /\ i \in Ids
    BY DEF ReceiveChunk, TableInv, TypeOK, Upload
  <1>2. new \in Upload /\ new.id = i /\ new.owner = old.owner
    <2>1. old.size \in Nat /\ old.off \in Nat
      BY <1>1 DEF Upload
    <2>2. old.size + 1 \in Nat /\ old.off + 1 \in Nat
      BY <2>1
    <2>3. QED
      BY <1>1, <2>2, UploadExcept
  <1>3. new # None
    BY <1>2, NoneAssumption
  <1>4. receiving' = [receiving EXCEPT ![s] = new]
    BY DEF ReceiveChunk, TableInv, TypeOK
  <1>5. \E v : disk' = [disk EXCEPT ![i] = v] /\ v \in Nat \cup {None}
                /\ (v = None <=> disk[i] = None)
    <2> DEFINE v == IF disk[i] = None THEN None
                    ELSE IF old.append THEN disk[i] + 1
                    ELSE IF disk[i] > old.off THEN disk[i] ELSE old.off + 1
    <2>1. disk' = [disk EXCEPT ![i] = v]
      BY <1>1 DEF ReceiveChunk, TableInv, TypeOK
    <2>2. disk[i] \in Nat \cup {None} /\ old.off \in Nat
      BY <1>1 DEF TableInv, TypeOK, Upload
    <2>3. disk[i] # None => v \in Nat
      BY <2>2
    <2>4. v \in Nat \cup {None} /\ (v = None <=> disk[i] = None)
      BY <2>3, NoneAssumption
    <2> HIDE DEF v
    <2>5. QED
      BY <2>1, <2>4
  <1>6. UNCHANGED <<rows, damaged, leaked, user, wd, reading, pendingWrite, accepting>>
    BY DEF ReceiveChunk, session
  <1> HIDE DEF new
  <1>7. TypeOK'
    BY <1>1, <1>2, <1>4, <1>5, <1>6 DEF TableInv, TypeOK
  <1>8. UniqueIds'
    BY <1>6 DEF TableInv, UniqueIds
  <1>9. UploadOwnsId'
    <2>1. \A t \in Sessions : receiving'[t] # None =>
             /\ receiving[t] # None
             /\ receiving'[t].id = receiving[t].id
             /\ receiving'[t].owner = receiving[t].owner
      BY <1>1, <1>2, <1>3, <1>4 DEF TableInv, TypeOK
    <2>2. QED
      BY <1>6, <2>1 DEF TableInv, UploadOwnsId
  <1>10. UploadPhases'
    BY <1>1, <1>4, <1>6 DEF TableInv, TypeOK, UploadPhases
  <1>11. KeepsFiles
    BY <1>1, <1>5, <1>6 DEF TableInv, TypeOK, KeepsFiles, Row
  <1>12. Isolated(s)
    <2>1. \A r \in rows : r.id = i => r.user = old.owner
      BY <1>1 DEF TableInv, UploadOwnsId
    <2>2. QED
      BY <1>1, <1>5, <1>6, <2>1 DEF TableInv, TypeOK, Isolated, Row
  <1>13. QED
    BY <1>7, <1>8, <1>9, <1>10, <1>11, <1>12 DEF TableInv

\* The end of an upload changes nothing but sizes.
Resize(target, n, r) == IF r \in target THEN [r EXCEPT !.size = n] ELSE r

LEMMA Resized ==
    ASSUME rows \subseteq Row, NEW target, NEW n \in Nat
    PROVE  \A r \in rows :
              /\ Resize(target, n, r) \in Row
              /\ Resize(target, n, r).id = r.id
              /\ Resize(target, n, r).user = r.user
              /\ Resize(target, n, r).dir = r.dir
              /\ Resize(target, n, r).name = r.name
              /\ Resize(target, n, r).path = r.path
              /\ r \notin target => Resize(target, n, r) = r
  <1> SUFFICES ASSUME NEW r \in rows
               PROVE  /\ Resize(target, n, r) \in Row
                      /\ Resize(target, n, r).id = r.id
                      /\ Resize(target, n, r).user = r.user
                      /\ Resize(target, n, r).dir = r.dir
                      /\ Resize(target, n, r).name = r.name
                      /\ Resize(target, n, r).path = r.path
                      /\ r \notin target => Resize(target, n, r) = r
    OBVIOUS
  <1>1. r \in Row
    OBVIOUS
  <1>2. QED
    BY <1>1 DEF Row, Resize

\* What closing the file leaves of it, for the upload of session s.
Closed(s) ==
    \/ UNCHANGED <<disk, damaged>>
    \/ LosesBuffer(receiving[s].id)

\* Either way the file is still there, if it was.
LEMMA ClosedFile ==
    ASSUME TypeOK, NEW s \in Sessions, receiving[s] # None, Closed(s)
    PROVE  /\ disk' \in [Ids -> Nat \cup {None}]
           /\ damaged \subseteq damaged' /\ damaged' \subseteq damaged \cup {receiving[s].id}
           /\ \A i \in Ids : disk'[i] = None <=> disk[i] = None
           /\ \A i \in Ids : i # receiving[s].id => disk'[i] = disk[i]
           /\ UNCHANGED <<disk, damaged>> \/ receiving[s].id \in damaged'
  <1> DEFINE i == receiving[s].id
  <1>1. i \in Ids
    BY DEF TypeOK, Upload
  <1>2. CASE UNCHANGED <<disk, damaged>>
    BY <1>2 DEF TypeOK
  <1>3. CASE LosesBuffer(i)
    <2>1. CASE disk[i] = None
      BY <1>3, <2>1 DEF TypeOK, LosesBuffer
    <2>2. CASE disk[i] # None
      <3>1. PICK n \in 0..disk[i] : disk' = [disk EXCEPT ![i] = n]
        BY <1>3, <2>2 DEF LosesBuffer
      <3>2. damaged' = damaged \cup {i}
        BY <1>3, <2>2 DEF LosesBuffer
      <3>3. n \in Nat /\ n # None
        BY NoneAssumption
      <3>4. QED
        BY <1>1, <2>2, <3>1, <3>2, <3>3 DEF TypeOK
    <2>3. QED
      BY <2>1, <2>2
  <1>4. QED
    BY <1>2, <1>3 DEF Closed

\* An upload ends with n bytes counted: ReceiveEnd, or WriteFails.  What is counted
\* is what was received before, unless the disk fails.
Ends(s, n) == receiving[s] # None /\ Closed(s) /\ Recorded(s, n)

CountIsRight(s, n) ==
    \/ n = receiving[s].size /\ UNCHANGED <<disk, damaged>>
    \/ receiving[s].id \in damaged'
    \/ disk'[receiving[s].id] = None

LEMMA EndsUpload ==
    ASSUME TypeOK, NEW s \in Sessions, ReceiveEnd(s) \/ WriteFails(s)
    PROVE  \E n \in Nat : Ends(s, n) /\ CountIsRight(s, n)
  <1>1. receiving[s] # None /\ receiving[s].size \in Nat
    BY DEF ReceiveEnd, WriteFails, TypeOK, Upload
  <1>2. \A n \in Nat : LosesBuffer(receiving[s].id) => CountIsRight(s, n)
    BY DEF LosesBuffer, CountIsRight
  <1>3. CASE ReceiveEnd(s)
    <2>1. Ends(s, receiving[s].size)
      BY <1>3 DEF ReceiveEnd, Ends, Closed
    <2>2. CountIsRight(s, receiving[s].size)
      BY <1>1, <1>2, <1>3 DEF ReceiveEnd, CountIsRight
    <2>3. QED
      BY <1>1, <2>1, <2>2
  <1>4. CASE WriteFails(s)
    <2>1. receiving[s].size + 1 \in Nat
      BY <1>1
    <2>2. Ends(s, receiving[s].size + 1)
      BY <1>4 DEF WriteFails, Ends, Closed
    <2>3. CountIsRight(s, receiving[s].size + 1)
      BY <1>2, <1>4, <2>1 DEF WriteFails
    <2>4. QED
      BY <2>1, <2>2, <2>3
  <1>5. QED
    BY <1>3, <1>4

LEMMA EndsStep ==
    ASSUME TableInv, NEW s \in Sessions, NEW n \in Nat, Ends(s, n)
    PROVE  TableInv' /\ Isolated(s) /\ KeepsFiles
  <1> DEFINE target == GetObject(User(s), receiving[s].file)
             i == receiving[s].id
  <1>1. receiving[s] # None /\ i \in Ids
    BY DEF Ends, TableInv, TypeOK, Upload
  <1>2. target \in SUBSET rows /\ \A r \in target : r.user = User(s)
    BY DEF GetObject
  <1>3. rows' = {Resize(target, n, r) : r \in rows}
    BY DEF Ends, Recorded, Resize
  <1>4. rows \subseteq Row
    BY DEF TableInv, TypeOK
  <1>5. /\ disk' \in [Ids -> Nat \cup {None}]
        /\ damaged \subseteq damaged' /\ damaged' \subseteq damaged \cup {i}
        /\ \A j \in Ids : disk'[j] = None <=> disk[j] = None
        /\ \A j \in Ids : j # i => disk'[j] = disk[j]
    BY ClosedFile DEF Ends, TableInv
  <1> HIDE DEF target
  <1>6. /\ rows' \subseteq Row
        /\ \A r \in rows : r \notin target => r \in rows'
        /\ \A q \in rows' : \E r \in rows :
              /\ q.id = r.id /\ q.user = r.user /\ q.dir = r.dir
              /\ q = Resize(target, n, r)
    BY <1>3, <1>4, Resized
  <1>7. /\ UNCHANGED <<leaked, user, wd, reading, accepting>>
        /\ receiving' = [receiving EXCEPT ![s] = None]
        /\ pendingWrite' = [pendingWrite EXCEPT ![s] = None]
    BY DEF Ends, Recorded, session
  <1>8. TypeOK'
    BY <1>1, <1>5, <1>6, <1>7 DEF TableInv, TypeOK
  <1>9. UniqueIds'
    BY <1>6 DEF TableInv, UniqueIds
  <1>10. UploadOwnsId'
    BY <1>6, <1>7 DEF TableInv, TypeOK, UploadOwnsId
  <1>11. UploadPhases'
    <2>1. ~accepting[s]
      BY <1>1 DEF TableInv, TypeOK, UploadPhases
    <2>2. QED
      BY <1>7, <2>1 DEF TableInv, TypeOK, UploadPhases
  <1>12. KeepsFiles
    <2>1. \A r \in rows : r.id \in Ids
      BY <1>4 DEF Row
    <2>2. QED
      BY <1>5, <1>6, <2>1 DEF KeepsFiles
  <1>13. Isolated(s)
    <2>1. \A r \in rows : r.id = i => r.user = receiving[s].owner
      BY <1>1 DEF TableInv, UploadOwnsId
    <2>2. \A r \in rows : r.id \in Ids
      BY <1>4 DEF Row
    <2>3. QED
      BY <1>1, <1>2, <1>5, <1>6, <2>1, <2>2 DEF Isolated
  <1>14. QED
    BY <1>8, <1>9, <1>10, <1>11, <1>12, <1>13 DEF TableInv

LEMMA TableStep ==
    ASSUME TableInv, NEW s \in Sessions, Step(s)
    PROVE  TableInv' /\ Isolated(s) /\ KeepsFiles
  <1>1. CASE \/ CDUP(s) \/ CWDRoot(s) \/ Leave(s)
             \/ \E abs \in BOOLEAN, segs \in Segments : CWD(s, abs, segs)
    BY <1>1, MovesStep
  <1>2. CASE \E abs \in BOOLEAN, segs \in Segments :
                MKD(s, abs, segs) \/ STOR(s, abs, segs)
    BY <1>2, MKDStep, STORStep
  <1>3. CASE \E abs \in BOOLEAN, segs \in Segments :
                RMD(s, abs, segs) \/ DELE(s, abs, segs)
    BY <1>3, RemoveStep DEF RMD, DELE
  <1>4. CASE ReceiveFile(s) \/ ReceiveChunk(s) \/ Return(s) \/ RETR(s)
    BY <1>4, ReceiveFileStep, ReceiveChunkStep, ReturnStep, RETRStep
  <1>5. CASE ReceiveEnd(s) \/ WriteFails(s)
    BY <1>5, EndsUpload, EndsStep DEF TableInv
  <1>6. CASE \E u \in Users : USER(s, u)
    BY <1>6, USERStep
  <1>7. QED
    BY <1>1, <1>2, <1>3, <1>4, <1>5, <1>6 DEF Step

LEMMA TableNext == TableInv /\ [Next]_vars => TableInv'
  <1> SUFFICES ASSUME TableInv, [Next]_vars PROVE TableInv'
    OBVIOUS
  <1>1. CASE Next
    BY <1>1, TableStep DEF Next
  <1>2. CASE UNCHANGED vars
    <2>1. UNCHANGED <<rows, disk, damaged, leaked, user, wd, reading, pendingWrite,
                      accepting, receiving>>
      BY <1>2 DEF vars, table, session, upload
    <2>2. TypeOK'
      BY <2>1 DEF TableInv, TypeOK
    <2>3. QED
      BY <2>1, <2>2 DEF TableInv, UniqueIds, UploadOwnsId, UploadPhases
  <1>3. QED
    BY <1>1, <1>2

\* Whatever the users, the sessions, the names and what LIKE matches: a row of a
\* file that no error of the disk has touched always has its data file, though
\* sessions remove, overwrite and upload in any order and change their user
\* meanwhile (data_receive_file, remove_fs_object).
THEOREM TableSafe == Spec => [](TypeOK /\ DataFileForRow)
  <1>1. Init => DataFileForRow
    BY DEF Init, DataFileForRow
  <1>2. TableInv /\ DataFileForRow /\ [Next]_vars => DataFileForRow'
    <2> SUFFICES ASSUME TableInv, DataFileForRow, [Next]_vars PROVE DataFileForRow'
      OBVIOUS
    <2>1. KeepsFiles => DataFileForRow'
      BY DEF KeepsFiles, DataFileForRow
    <2>2. UNCHANGED vars => DataFileForRow'
      BY DEF vars, table, DataFileForRow
    <2>3. QED
      BY <2>1, <2>2, TableStep DEF Next
  <1>3. TableInv => TypeOK
    BY DEF TableInv
  <1>4. QED
    BY <1>1, <1>2, <1>3, TableInit, TableNext, PTL DEF Spec

\* A step changes or removes no row and no data file but those of the user its
\* session has, and of the user its upload was opened for, though the users share
\* the table, its UNIQUE constraint and data/, and though USER gives a session
\* another user at any time.
THEOREM UsersAreIsolated == Spec => UserIsolation
  <1>1. TableInv /\ [Next]_vars =>
           [\A s \in Sessions :
               \/ ~Step(s)
               \/ \A r \in rows :
                    \/ r.user = User(s)
                    \/ receiving[s] # None /\ receiving[s].owner = r.user
                    \/ r \in rows' /\ disk'[r.id] = disk[r.id]]_vars
    BY TableStep DEF Isolated
  <1>2. QED
    BY <1>1, TableInit, TableNext, PTL DEF Spec, UserIsolation

-----------------------------------------------------------------------------
(* The tree, as long as no command names an absolute path of several       *)
(* segments to MKD: then no object has a path that begins with two slashes. *)

RealPaths == \A r \in rows : r.path \in Paths

TreeInv == TableInv /\ RealPaths /\ ParentExists

\* What get_object finds for p is the object whose whole path is p.
LEMMA FoundObject ==
    ASSUME NEW u, NEW p \in ObjectPaths, NEW o \in GetObject(u, p)
    PROVE  o \in rows /\ o.user = u /\ WholePath(o) = p
  <1>1. o.path = Front(p) /\ o.name = Last(p)
    BY ParentOfPath DEF GetObject
  <1>2. Append(Front(p), Last(p)) = p
    BY FrontLast DEF ObjectPaths, Paths, Root
  <1>3. QED
    BY <1>1, <1>2 DEF GetObject, WholePath

\* A path with two slashes in front is no path of real names, nor is its parent.
LEMMA PrefixedParent ==
    ASSUME NEW p, PrefixedPath(p)
    PROVE  /\ p \in Seq(Names \cup {Empty}) /\ p # <<>>
           /\ Parent(p) = Front(p) /\ Parent(p) \notin Paths
  <1>1. PICK q \in ObjectPaths : Len(q) > 1 /\ p = <<Empty>> \o q
    BY DEF PrefixedPath
  <1> DEFINE T == Names \cup {Empty}
  <1>2. <<Empty>> \in Seq(T) /\ Len(<<Empty>>) = 1 /\ <<Empty>>[1] = Empty
    OBVIOUS
  <1>3. q \in Seq(T) /\ Len(q) \in Nat
    BY SeqMonotonic, LenProperties DEF ObjectPaths, Paths
  <1>4. p \in Seq(T) /\ Len(p) = 1 + Len(q) /\ p[1] = Empty
    <2>1. /\ p \in Seq(T)
          /\ Len(p) = 1 + Len(q)
          /\ \A i \in 1..(1 + Len(q)) : p[i] = IF i <= 1 THEN <<Empty>>[i] ELSE q[i - 1]
      BY <1>1, <1>2, <1>3, ConcatProperties
    <2>2. 1 \in 1..(1 + Len(q))
      BY <1>3
    <2>3. QED
      BY <1>2, <2>1, <2>2
  <1>5. Front(p) \in Seq(T) /\ Len(Front(p)) >= 2 /\ Front(p)[1] = Empty
    <2>1. p # <<>>
      BY <1>3, <1>4, EmptySeq
    <2>2. /\ Front(p) \in Seq(T)
          /\ Len(Front(p)) = Len(p) - 1
          /\ \A i \in 1..(Len(p) - 1) : Front(p)[i] = p[i]
      BY <1>4, <2>1, FrontLast
    <2>3. Len(Front(p)) >= 2 /\ 1 \in 1..(Len(p) - 1)
      BY <1>1, <1>3, <1>4, <2>2
    <2>4. QED
      BY <1>4, <2>2, <2>3
  <1>6. Front(p) # <<Empty>>
    BY <1>2, <1>5
  <1>7. Front(p) \notin Paths
    <2>1. SUFFICES ASSUME Front(p) \in Paths PROVE FALSE
      OBVIOUS
    <2>2. 1 \in 1..Len(Front(p))
      BY <1>5, LenProperties
    <2>3. Front(p)[1] \in Names
      BY <2>1, <2>2, ElementOfSeq DEF Paths
    <2>4. QED
      BY <1>5, <2>3, NamesAssumption
  <1>8. p # <<>>
    BY <1>3, <1>4, EmptySeq
  <1>9. QED
    BY <1>4, <1>6, <1>7, <1>8 DEF Parent

\* Such a path finds nothing then.
LEMMA PrefixedNotFound ==
    ASSUME RealPaths, NEW u, NEW p, PrefixedPath(p)
    PROVE  GetObject(u, p) = {}
  BY PrefixedParent DEF GetObject, RealPaths

\* create_object gives the new object a parent.
LEMMA InsertKeepsTree ==
    ASSUME TreeInv, NEW u, NEW p \in ObjectPaths, NEW i, NEW isDir,
           ~CannotCreate(u, p), Insert(i, u, p, isDir)
    PROVE  RealPaths' /\ ParentExists'
  <1> DEFINE new == [id |-> i, user |-> u, path |-> Parent(p),
                     name |-> Last(p), dir |-> isDir, size |-> 0]
  <1>1. rows' = rows \/ rows' = rows \cup {new}
    BY DEF Insert
  <1>2. Parent(p) \in Paths
    BY ParentOfPath
  <1>3. Parent(p) # Root =>
           \E d \in rows : d.dir /\ d.user = u /\ WholePath(d) = Parent(p)
    <2>1. ASSUME Parent(p) # Root
          PROVE  \E d \in rows : d.dir /\ d.user = u /\ WholePath(d) = Parent(p)
      <3>1. PICK d \in GetObject(u, Parent(p)) : d.dir
        BY <2>1 DEF CannotCreate
      <3>2. Parent(p) \in ObjectPaths
        BY <1>2, <2>1 DEF ObjectPaths
      <3>3. QED
        BY <3>1, <3>2, FoundObject
    <2>2. QED
      BY <2>1
  <1>4. new.user = u /\ new.path = Parent(p)
    OBVIOUS
  <1> HIDE DEF new
  <1>5. RealPaths'
    BY <1>1, <1>2, <1>4 DEF TreeInv, RealPaths
  <1>6. ParentExists'
    BY <1>1, <1>3, <1>4 DEF TreeInv, ParentExists, WholePath
  <1>7. QED
    BY <1>5, <1>6

\* What is under a directory has the directory's path for a prefix, and so has
\* what is under an object with such a path.
LEMMA PrefixOfChild ==
    ASSUME NEW p \in ObjectPaths, NEW d \in Paths, NEW n \in Names
    PROVE  /\ UnderPrefix(p, p)
           /\ UnderPrefix(d, p) => UnderPrefix(Append(d, n), p)
  <1>1. Len(p) \in Nat \ {0} /\ Len(d) \in Nat
    BY EmptySeq, LenProperties DEF ObjectPaths, Paths, Root
  <1>2. UnderPrefix(p, p)
    BY <1>1 DEF UnderPrefix
  <1>3. /\ Len(Append(d, n)) = Len(d) + 1
        /\ \A i \in 1..Len(d) : Append(d, n)[i] = d[i]
    BY AppendProperties DEF Paths
  <1>4. ASSUME UnderPrefix(d, p) PROVE UnderPrefix(Append(d, n), p)
    <2> DEFINE e == Append(d, n)
               m == Len(p)
    <2>1. /\ m \in Nat \ {0} /\ Len(d) \in Nat /\ Len(e) = Len(d) + 1
          /\ \A i \in 1..Len(d) : e[i] = d[i]
      BY <1>1, <1>3
    <2>2. /\ m <= Len(d)
          /\ \A i \in 1..(m - 1) : d[i] = p[i]
          /\ <<p[m], d[m]>> \in LikePrefix \/ p[m] = d[m]
      BY <1>4 DEF UnderPrefix
    <2> HIDE DEF e
    <2>3. UnderPrefix(e, p)
      <3> HIDE DEF m
      <3>1. m <= Len(e) /\ e[m] = d[m] /\ \A i \in 1..(m - 1) : e[i] = d[i]
        BY <2>1, <2>2
      <3>2. /\ m <= Len(e)
            /\ \A i \in 1..(m - 1) : e[i] = p[i]
            /\ <<p[m], e[m]>> \in LikePrefix \/ p[m] = e[m]
        BY <2>2, <3>1
      <3>3. QED
        BY <3>2 DEF UnderPrefix, m
    <2>4. QED
      BY <2>3 DEF e
  <1>5. QED
    BY <1>2, <1>4

\* With an object goes what it is the parent of, which is never the object that
\* was named.
LEMMA ChildRemoved ==
    ASSUME TreeInv, NEW u, NEW p \in ObjectPaths, NEW o \in GetObject(u, p),
           NEW d \in RemovedWith(u, p, o), d.dir,
           NEW r \in rows, d.user = r.user, WholePath(d) = r.path
    PROVE  r \in RemovedWith(u, p, o) /\ r # o
  <1>1. o \in rows /\ o.user = u /\ WholePath(o) = p
    BY FoundObject
  <1>2. \A x \in rows : x.path \in Paths /\ x.name \in Names
    BY DEF TreeInv, RealPaths, TableInv, TypeOK, Row
  <1>3. o.dir /\ r.user = u /\ UnderPrefix(r.path, p)
    <2>1. CASE d = o
      <3>1. r.path = p
        BY <1>1, <2>1
      <3>2. UnderPrefix(p, p)
        BY <1>1, <1>2, PrefixOfChild
      <3>3. QED
        BY <1>1, <2>1, <3>1, <3>2
    <2>2. CASE d \in rows /\ o.dir /\ d.user = u /\ UnderPrefix(d.path, p)
      <3>1. r.path = Append(d.path, d.name)
        BY DEF WholePath
      <3>2. UnderPrefix(Append(d.path, d.name), p)
        BY <1>2, <2>2, PrefixOfChild
      <3>3. QED
        BY <2>2, <3>1, <3>2
    <2>3. QED
      BY <2>1, <2>2 DEF RemovedWith
  <1>4. ~UnderPrefix(o.path, p)
    <2>1. Len(p) = Len(o.path) + 1 /\ Len(o.path) \in Nat
      BY <1>1, <1>2, AppendProperties, LenProperties DEF WholePath, Paths
    <2>2. QED
      BY <2>1 DEF UnderPrefix
  <1>5. QED
    BY <1>3, <1>4 DEF RemovedWith

\* remove_fs_object leaves no orphan, even if it does not come to the row of the
\* object itself.
LEMMA RemoveKeepsTree ==
    ASSUME TreeInv, NEW u, NEW p, TargetPath(p), NEW o \in GetObject(u, p),
           \/ rows' = rows \ RemovedWith(u, p, o)
           \/ rows' = rows \ (RemovedWith(u, p, o) \ {o})
    PROVE  RealPaths' /\ ParentExists'
  <1>1. p \in ObjectPaths
    BY PrefixedNotFound DEF TreeInv, TargetPath
  <1>2. ASSUME NEW r \in rows', r.path # Root
        PROVE  \E d \in rows' : d.dir /\ d.user = r.user /\ WholePath(d) = r.path
    <2>1. r \in rows
      BY <1>2
    <2>2. PICK d \in rows : d.dir /\ d.user = r.user /\ WholePath(d) = r.path
      BY <1>2, <2>1 DEF TreeInv, ParentExists
    <2>3. d \in RemovedWith(u, p, o) => r \in RemovedWith(u, p, o) /\ r # o
      BY <1>1, <2>1, <2>2, ChildRemoved
    <2>4. d \in rows'
      BY <2>1, <2>2, <2>3
    <2>5. QED
      BY <2>2, <2>4
  <1>3. ParentExists'
    BY <1>2 DEF ParentExists, WholePath
  <1>4. RealPaths'
    BY DEF TreeInv, RealPaths
  <1>5. QED
    BY <1>3, <1>4

LEMMA ReceiveEndKeepsTree ==
    ASSUME TreeInv, NEW s \in Sessions, NEW n \in Nat, Ends(s, n)
    PROVE  RealPaths' /\ ParentExists'
  <1> DEFINE target == GetObject(User(s), receiving[s].file)
  <1>2. rows' = {Resize(target, n, r) : r \in rows}
    BY DEF Ends, Recorded, Resize
  <1>3. rows \subseteq Row
    BY DEF TreeInv, TableInv, TypeOK
  <1> HIDE DEF target
  <1>4. \A r \in rows : /\ Resize(target, n, r) \in rows'
                        /\ Resize(target, n, r).user = r.user
                        /\ Resize(target, n, r).dir = r.dir
                        /\ Resize(target, n, r).path = r.path
                        /\ WholePath(Resize(target, n, r)) = WholePath(r)
    BY <1>2, <1>3, Resized DEF WholePath
  <1>5. \A q \in rows' : \E r \in rows : q = Resize(target, n, r)
    BY <1>2
  <1>6. RealPaths'
    BY <1>4, <1>5 DEF TreeInv, RealPaths
  <1>7. ParentExists'
    <2>1. ASSUME NEW q \in rows', q.path # Root
          PROVE  \E d \in rows' : d.dir /\ d.user = q.user /\ WholePath(d) = q.path
      <3>1. PICK r \in rows : q = Resize(target, n, r)
        BY <1>5
      <3>2. q.path = r.path /\ q.user = r.user
        BY <1>4, <3>1
      <3>3. PICK d \in rows : d.dir /\ d.user = r.user /\ WholePath(d) = r.path
        BY <2>1, <3>2 DEF TreeInv, ParentExists
      <3>4. QED
        BY <1>4, <3>2, <3>3
    <2>2. QED
      BY <2>1 DEF ParentExists, WholePath
  <1>8. QED
    BY <1>6, <1>7

LEMMA TreeStep ==
    ASSUME ~AbsoluteMkd, TreeInv, NEW s \in Sessions, Step(s)
    PROVE  TreeInv'
  <1>1. TableInv'
    BY TableStep DEF TreeInv
  <1>2. RealPaths' /\ ParentExists'
    <2>1. rows' = rows => RealPaths' /\ ParentExists'
      BY DEF TreeInv, RealPaths, ParentExists, WholePath
    <2>2. ASSUME NEW abs \in BOOLEAN, NEW segs \in Segments,
                 \/ MKD(s, abs, segs) \/ RMD(s, abs, segs) \/ DELE(s, abs, segs)
          PROVE  RealPaths' /\ ParentExists'
      <3>1. wd[s] \in Paths
        BY DEF TreeInv, TableInv, TypeOK
      <3>2. /\ RmdTarget(wd[s], abs, segs) \in ObjectPaths
            /\ \/ MkdTarget(wd[s], abs, segs) \in ObjectPaths
               \/ abs /\ Len(segs) > 1 /\ PrefixedPath(MkdTarget(wd[s], abs, segs))
        BY <3>1, ResolvedArgument
      <3>3. CASE MKD(s, abs, segs)
        <4>1. MkdTarget(wd[s], abs, segs) \in ObjectPaths
          BY <3>2, <3>3 DEF MKD
        <4>2. QED
          BY <3>3, <4>1, InsertKeepsTree DEF MKD
      <3>4. CASE RMD(s, abs, segs)
        BY <3>2, <3>4, RemoveKeepsTree DEF RMD, RemoveObject, TargetPath
      <3>5. CASE DELE(s, abs, segs)
        BY <3>2, <3>5, RemoveKeepsTree DEF DELE, RemoveObject, TargetPath
      <3>6. QED
        BY <2>2, <3>3, <3>4, <3>5
    <2>3. CASE ReceiveFile(s)
      <3>1. pendingWrite[s] \in ObjectPaths
        BY <2>3 DEF ReceiveFile, TreeInv, TableInv, TypeOK, UploadPhases
      <3>2. \/ rows' = rows
            \/ \E i \in Ids : /\ ~CannotCreate(User(s), pendingWrite[s])
                              /\ Insert(i, User(s), pendingWrite[s], FALSE)
        BY <2>3 DEF ReceiveFile
      <3>3. QED
        BY <2>1, <3>1, <3>2, InsertKeepsTree
    <2>4. CASE ReceiveEnd(s) \/ WriteFails(s)
      BY <2>4, EndsUpload, ReceiveEndKeepsTree DEF TreeInv, TableInv
    <2>5. CASE \/ CDUP(s) \/ CWDRoot(s) \/ Leave(s) \/ Return(s) \/ ReceiveChunk(s)
               \/ RETR(s) \/ \E u \in Users : USER(s, u)
               \/ \E abs \in BOOLEAN, segs \in Segments : CWD(s, abs, segs) \/ STOR(s, abs, segs)
      BY <2>1, <2>5 DEF CDUP, CWDRoot, Leave, Return, ReceiveChunk, RETR, USER, CWD, STOR, table
    <2>6. QED
      BY <2>2, <2>3, <2>4, <2>5 DEF Step
  <1>3. QED
    BY <1>1, <1>2 DEF TreeInv

\* Whatever the sessions do, every object is inside a directory of its owner:
\* create_object never makes an orphan and remove_fs_object never leaves one,
\* as long as MKD is not given an absolute path of several segments.
THEOREM NoOrphans == ~AbsoluteMkd => (Spec => []ParentExists)
  <1> SUFFICES ASSUME ~AbsoluteMkd PROVE Spec => []ParentExists
    OBVIOUS
  <1>1. Init => TreeInv
    BY TableInit DEF Init, TreeInv, RealPaths, ParentExists
  <1>2. TreeInv /\ [Next]_vars => TreeInv'
    <2> SUFFICES ASSUME TreeInv, [Next]_vars PROVE TreeInv'
      OBVIOUS
    <2>1. CASE Next
      BY <2>1, TreeStep DEF Next
    <2>2. CASE UNCHANGED vars
      <3>1. TableInv'
        BY <2>2, TableNext DEF TreeInv
      <3>2. UNCHANGED rows
        BY <2>2 DEF vars, table
      <3>3. QED
        BY <3>1, <3>2 DEF TreeInv, RealPaths, ParentExists
    <2>3. QED
      BY <2>1, <2>2
  <1>3. TreeInv => ParentExists
    BY DEF TreeInv
  <1>4. QED
    BY <1>1, <1>2, <1>3, PTL DEF Spec

-----------------------------------------------------------------------------
(* The sizes, as long as STOR names no object that has a size already, one  *)
(* session of a user uploads, and it has no other user: then the table      *)
(* tells the size of a file.                                               *)

OneUploader ==
    \A s, t \in Uploaders : \A u \in Accounts[s], w \in Accounts[t] : s = t <=> u = w

\* That means that an uploader's user never changes, and is nobody else's.
OneEach == \A s, t \in Uploaders : User(s) = User(t) => s = t

UploadersStay == \A s \in Uploaders : user'[s] = user[s]

LEMMA UploadersApart ==
    ASSUME OneUploader, TypeOK, TypeOK'
    PROVE  OneEach /\ UploadersStay
  BY ClientAssumption DEF OneUploader, OneEach, UploadersStay, TypeOK, User

UniquePlaces == \A r, q \in rows : r.name = q.name /\ r.path = q.path => r = q

OnlyUploaders == \A s \in Sessions : pendingWrite[s] # None => s \in Uploaders

StillOwner == \A s \in Sessions : receiving[s] # None => receiving[s].owner = User(s)

OpensEmpty ==
    \A s \in Sessions : pendingWrite[s] # None =>
        \A o \in rows : o \in GetObject(User(s), pendingWrite[s]) => o.size = 0

\* What an upload has counted is what it has written, unless its file is gone.
CountsWritten ==
    \A s \in Sessions : receiving[s] # None =>
        /\ receiving[s].size = receiving[s].off
        /\ disk[receiving[s].id] = None \/ disk[receiving[s].id] = receiving[s].size

OwnFile ==
    \A s, t \in Sessions :
        receiving[s] # None /\ receiving[t] # None /\ receiving[s].id = receiving[t].id
            => s = t

\* The name that the end of an upload looks up is that of the file it writes.
NamesItsFile ==
    \A s \in Sessions : receiving[s] # None =>
        \A r \in rows : ~r.dir =>
            (r.id = receiving[s].id <=> r \in GetObject(User(s), receiving[s].file))

UploadInv ==
    /\ TableInv /\ UniquePlaces
    /\ OnlyUploaders /\ StillOwner /\ OpensEmpty /\ CountsWritten /\ OwnFile /\ NamesItsFile

Received(i) == \E t \in Sessions : receiving[t] # None /\ receiving[t].id = i

\* A step leaves the file and the size of a row that nobody receives alone, or
\* makes them equal, or damages the file.
SizesKept ==
    \A q \in rows' : ~q.dir /\ q.id \notin damaged' /\ ~Received(q.id)' =>
        \E r \in rows : /\ ~r.dir /\ r.id = q.id
                        /\ \/ disk'[q.id] = q.size \/ disk'[q.id] = None
                           \/ /\ r.id \notin damaged /\ ~Received(r.id)
                              /\ disk'[q.id] = disk[r.id] /\ q.size = r.size

\* A step that changes neither the table nor what uploads are under way.
LEMMA UploadsUnchanged ==
    ASSUME UploadInv, TableInv', UNCHANGED <<rows, disk, damaged, receiving>>, UploadersStay,
           \A s \in Sessions : pendingWrite'[s] # None =>
              /\ s \in Uploaders
              /\ \/ pendingWrite'[s] = pendingWrite[s]
                 \/ \A o \in GetObject(User(s), pendingWrite'[s]) : o.size = 0
    PROVE  UploadInv' /\ SizesKept
  <1>1. UniquePlaces' /\ CountsWritten' /\ OwnFile'
    BY DEF UploadInv, UniquePlaces, CountsWritten, OwnFile
  <1>2. OnlyUploaders'
    BY DEF UploadInv, OnlyUploaders
  <1>3. \A s \in Sessions : receiving[s] # None => user'[s] = user[s]
    BY DEF UploadInv, OnlyUploaders, TableInv, UploadPhases, UploadersStay
  <1>4. OpensEmpty'
    <2>1. ASSUME NEW s \in Sessions, pendingWrite'[s] # None, NEW o \in rows',
                 o \in GetObject(User(s), pendingWrite[s])'
          PROVE  o.size = 0
      <3>1. user'[s] = user[s] /\ o \in GetObject(User(s), pendingWrite'[s])
        BY <2>1 DEF GetObject, User, UploadersStay
      <3>2. QED
        BY <2>1, <3>1 DEF UploadInv, OpensEmpty
    <2>2. QED
      BY <2>1 DEF OpensEmpty, User
  <1>5. NamesItsFile' /\ StillOwner'
    BY <1>3 DEF UploadInv, NamesItsFile, StillOwner, GetObject, User
  <1>6. SizesKept
    BY DEF SizesKept, Received
  <1>7. QED
    BY <1>1, <1>2, <1>4, <1>5, <1>6 DEF UploadInv

\* A step that adds and removes rows, and may free files of what it removes.
LEMMA RowsChanged ==
    ASSUME UploadInv, TableInv', UniquePlaces',
           UNCHANGED <<user, pendingWrite, accepting, receiving>>,
           \A q \in rows' : q \in rows \/ (q.dir /\ q.size = 0),
           \A r \in rows' : disk'[r.id] = disk[r.id],
           \A r \in rows : r \in rows' /\ r.id \in damaged => r.id \in damaged',
           \A i \in Ids : disk'[i] = None \/ disk'[i] = disk[i]
    PROVE  UploadInv' /\ SizesKept
  <1>1. OnlyUploaders' /\ StillOwner' /\ OwnFile'
    BY DEF UploadInv, OnlyUploaders, StillOwner, OwnFile, User
  <1>2. OpensEmpty'
    BY DEF UploadInv, OpensEmpty, GetObject, User
  <1>3. CountsWritten'
    BY DEF UploadInv, CountsWritten, TableInv, TypeOK, Upload
  <1>4. NamesItsFile'
    BY DEF UploadInv, NamesItsFile, GetObject, User
  <1>5. SizesKept
    BY DEF SizesKept, Received
  <1>6. QED
    BY <1>1, <1>2, <1>3, <1>4, <1>5 DEF UploadInv

LEMMA InsertKeepsPlaces ==
    ASSUME UniquePlaces, NEW i, NEW u, NEW p, NEW isDir \in BOOLEAN,
           Insert(i, u, p, isDir)
    PROVE  /\ UniquePlaces'
           /\ \A q \in rows' : q \in rows \/
                 /\ q.id = i /\ q.user = u /\ q.dir = isDir /\ q.size = 0
                 /\ q.path = Parent(p) /\ q.name = Last(p)
  <1> DEFINE new == [id |-> i, user |-> u, path |-> Parent(p),
                     name |-> Last(p), dir |-> isDir, size |-> 0]
  <1>1. \/ rows' = rows
        \/ /\ rows' = rows \cup {new}
           /\ ~\E r \in rows : r.name = Last(p) /\ r.path = Parent(p)
    BY DEF Insert
  <1>2. /\ new.id = i /\ new.user = u /\ new.dir = isDir /\ new.size = 0
        /\ new.path = Parent(p) /\ new.name = Last(p)
    OBVIOUS
  <1> HIDE DEF new
  <1>3. QED
    BY <1>1, <1>2 DEF UniquePlaces

LEMMA STORSizes ==
    ASSUME UploadInv, ~Overwrite, TableInv', NEW s \in Sessions,
           NEW abs \in BOOLEAN, NEW segs \in Segments, STOR(s, abs, segs)
    PROVE  UploadInv' /\ SizesKept
  <1> DEFINE p == Resolve(wd[s], abs, segs)
  <1>1. /\ UNCHANGED <<rows, disk, damaged, user, receiving>>
        /\ s \in Uploaders
        /\ \A o \in GetObject(User(s), p) : o.size = 0
        /\ UNCHANGED pendingWrite \/ pendingWrite' = [pendingWrite EXCEPT ![s] = p]
    BY DEF STOR, table, upload
  <1> HIDE DEF p
  <1>2. \A t \in Sessions : pendingWrite'[t] # None =>
           /\ t \in Uploaders
           /\ \/ pendingWrite'[t] = pendingWrite[t]
              \/ \A o \in GetObject(User(t), pendingWrite'[t]) : o.size = 0
    BY <1>1 DEF UploadInv, OnlyUploaders, TableInv, TypeOK
  <1>3. QED
    BY <1>1, <1>2, UploadsUnchanged DEF UploadersStay

\* An upload that begins: its file is empty and no other upload writes it.
LEMMA OpensSizes ==
    ASSUME UploadInv, OneEach, TableInv', UniquePlaces', NEW s \in Sessions, accepting[s],
           accepting' = [accepting EXCEPT ![s] = FALSE], UNCHANGED <<user, pendingWrite>>,
           NEW i \in Ids, NEW append \in BOOLEAN, Opened(s, i, 0, append),
           \A t \in Sessions : receiving[t] # None /\ receiving[t].id = i => User(t) = User(s),
           \A q \in rows' : q \in rows \/ (q.id = i /\ q.size = 0),
           \A q \in rows' : q.id = i <=> q \in GetObject(User(s), pendingWrite[s])'
    PROVE  UploadInv' /\ SizesKept
  <1> DEFINE new == [id |-> i, owner |-> User(s), file |-> pendingWrite[s], size |-> 0,
                     off |-> 0, append |-> append]
  <1>1. /\ new.id = i /\ new.file = pendingWrite[s] /\ new.size = 0 /\ new.off = 0
        /\ new.owner = User(s)
        /\ receiving' = [receiving EXCEPT ![s] = new]
        /\ disk' = [disk EXCEPT ![i] = 0] /\ damaged' = damaged \ {i}
    BY DEF Opened
  <1>0. new # None
    <2>1. pendingWrite[s] \in ObjectPaths /\ User(s) \in Users
      BY UserType DEF UploadInv, TableInv, TypeOK, UploadPhases
    <2>2. new \in Upload
      BY <2>1 DEF Upload
    <2>3. QED
      BY <2>2, NoneAssumption
  <1> HIDE DEF new
  <1>2. s \in Uploaders /\ receiving[s] = None /\ pendingWrite[s] # None
    BY DEF UploadInv, OnlyUploaders, TableInv, UploadPhases
  <1>3. \A t \in Sessions : t # s => receiving'[t] = receiving[t] /\ accepting'[t] = accepting[t]
    BY <1>1 DEF UploadInv, TableInv, TypeOK
  <1>4. receiving'[s] = new /\ ~accepting'[s]
    BY <1>1 DEF UploadInv, TableInv, TypeOK
  <1>5. \A t \in Sessions : t # s /\ receiving[t] # None => receiving[t].id # i /\ User(t) # User(s)
    BY <1>2 DEF UploadInv, OnlyUploaders, OneEach, TableInv, UploadPhases
  <1>6. OnlyUploaders' /\ StillOwner' /\ OwnFile'
    <2>1. OnlyUploaders' /\ StillOwner'
      BY <1>1, <1>3, <1>4 DEF UploadInv, OnlyUploaders, StillOwner, User
    <2>2. OwnFile'
      BY <1>1, <1>3, <1>4, <1>5 DEF UploadInv, OwnFile
    <2>3. QED
      BY <2>1, <2>2
  <1>7. OpensEmpty'
    <2>1. ASSUME NEW t \in Sessions, pendingWrite'[t] # None, NEW o \in rows',
                 o \in GetObject(User(t), pendingWrite[t])'
          PROVE  o.size = 0
      <3>1. o \in GetObject(User(t), pendingWrite[t]) \/ o \notin rows
        BY <2>1 DEF GetObject, User
      <3>2. QED
        BY <2>1, <3>1 DEF UploadInv, OpensEmpty
    <2>2. QED
      BY <2>1 DEF OpensEmpty, User
  <1>8. CountsWritten'
    <2>1. disk'[i] = 0
      BY <1>1 DEF UploadInv, TableInv, TypeOK
    <2>2. \A t \in Sessions : t # s /\ receiving[t] # None =>
             disk'[receiving[t].id] = disk[receiving[t].id]
      BY <1>1, <1>5 DEF UploadInv, TableInv, TypeOK, Upload
    <2>3. QED
      BY <1>1, <1>3, <1>4, <2>1, <2>2 DEF UploadInv, CountsWritten
  <1>9. NamesItsFile'
    <2>1. ASSUME NEW t \in Sessions, receiving'[t] # None, NEW r \in rows', ~r.dir
          PROVE  r.id = receiving'[t].id <=> r \in GetObject(User(t), receiving[t].file)'
      <3>1. CASE t = s
        <4>1. receiving'[t].id = i /\ receiving'[t].file = pendingWrite'[s]
          BY <1>1, <1>4, <3>1
        <4>2. r.id = i <=> r \in GetObject(User(s), pendingWrite[s])'
          OBVIOUS
        <4>3. QED
          BY <3>1, <4>1, <4>2 DEF GetObject, User
      <3>2. CASE t # s
        <4>1. receiving'[t] = receiving[t] /\ receiving[t] # None
          BY <1>3, <2>1, <3>2
        <4>2. CASE r.id = i
          <5>1. r.user = User(s)
            BY <4>2 DEF GetObject, User
          <5>2. User(t) # User(s) /\ receiving[t].id # i
            BY <1>5, <3>2, <4>1
          <5>3. QED
            BY <4>1, <4>2, <5>1, <5>2 DEF GetObject, User
        <4>3. CASE r.id # i
          <5>1. r \in rows
            BY <4>3
          <5>2. QED
            BY <2>1, <4>1, <5>1 DEF UploadInv, NamesItsFile, GetObject, User
        <4>4. QED
          BY <4>2, <4>3
      <3>3. QED
        BY <3>1, <3>2
    <2>2. QED
      BY <2>1 DEF NamesItsFile, GetObject, User
  <1>10. SizesKept
    <2>1. ASSUME NEW q \in rows', ~q.dir, q.id \notin damaged', ~Received(q.id)'
          PROVE  /\ q \in rows /\ q.id \notin damaged /\ ~Received(q.id)
                 /\ disk'[q.id] = disk[q.id]
      <3>1. q.id # i
        BY <1>0, <1>1, <1>4, <2>1 DEF Received
      <3>2. q \in rows
        BY <3>1
      <3>3. ~Received(q.id)
        BY <1>2, <1>3, <2>1 DEF Received
      <3>4. disk'[q.id] = disk[q.id] /\ q.id \notin damaged
        BY <1>1, <2>1, <3>1, <3>2 DEF UploadInv, TableInv, TypeOK, Row
      <3>5. QED
        BY <3>2, <3>3, <3>4
    <2>2. QED
      BY <2>1 DEF SizesKept
  <1>11. QED
    BY <1>6, <1>7, <1>8, <1>9, <1>10 DEF UploadInv

\* A new file that cannot be opened: a row of size 0 without a data file.
LEMMA NotOpenedSizes ==
    ASSUME UploadInv, OneEach, TableInv', UniquePlaces', NEW s \in Sessions, accepting[s],
           UNCHANGED <<disk, user, pendingWrite, receiving>>,
           damaged' = damaged \cup IdsOf(rows' \ rows), NEW i \in Ids,
           \A t \in Sessions : receiving[t] # None => receiving[t].id # i,
           \A q \in rows' : q \in rows \/ (q.id = i /\ q.size = 0 /\ q.user = User(s))
    PROVE  UploadInv' /\ SizesKept
  <1>1. OnlyUploaders' /\ StillOwner' /\ CountsWritten' /\ OwnFile'
    BY DEF UploadInv, OnlyUploaders, StillOwner, CountsWritten, OwnFile, User
  <1>2. OpensEmpty'
    BY DEF UploadInv, OpensEmpty, GetObject, User
  <1>3. \A t \in Sessions : receiving[t] # None => User(t) # User(s)
    BY DEF UploadInv, OnlyUploaders, TableInv, UploadPhases, OneEach
  <1>4. NamesItsFile'
    <2>1. ASSUME NEW t \in Sessions, receiving'[t] # None, NEW r \in rows', ~r.dir
          PROVE  r.id = receiving'[t].id <=> r \in GetObject(User(t), receiving[t].file)'
      <3>1. CASE r \in rows
        BY <2>1, <3>1 DEF UploadInv, NamesItsFile, GetObject, User
      <3>2. CASE r \notin rows
        <4>1. r.id = i /\ r.user = User(s)
          BY <3>2
        <4>2. r.id # receiving'[t].id /\ User(t) # User(s)
          BY <1>3, <2>1, <4>1
        <4>3. QED
          BY <4>1, <4>2 DEF GetObject, User
      <3>3. QED
        BY <3>1, <3>2
    <2>2. QED
      BY <2>1 DEF NamesItsFile, GetObject, User
  <1>5. SizesKept
    <2>1. ASSUME NEW q \in rows', ~q.dir, q.id \notin damaged', ~Received(q.id)'
          PROVE  q \in rows /\ q.id \notin damaged /\ ~Received(q.id)
      BY <2>1 DEF Received, IdsOf
    <2>2. QED
      BY <2>1 DEF SizesKept
  <1>6. QED
    BY <1>1, <1>2, <1>4, <1>5 DEF UploadInv

LEMMA ReceiveFileSizes ==
    ASSUME UploadInv, OneEach, TableInv', NEW s \in Sessions, ReceiveFile(s)
    PROVE  UploadInv' /\ SizesKept
  <1> DEFINE u == User(s)
             p == pendingWrite[s]
  <1>1. /\ accepting[s] /\ accepting' = [accepting EXCEPT ![s] = FALSE]
        /\ UNCHANGED <<user, pendingWrite>>
    BY DEF ReceiveFile, session
  <1>2. ASSUME NEW o \in GetObject(u, p), rows' = rows, Opened(s, o.id, o.size, FALSE)
        PROVE  UploadInv' /\ SizesKept
    <2>1. o \in rows /\ o.id \in Ids /\ o.user = u
      BY DEF GetObject, UploadInv, TableInv, TypeOK, Row
    <2>2. o.size = 0
      BY <1>1, <2>1 DEF UploadInv, OpensEmpty, TableInv, UploadPhases
    <2>3. UniquePlaces'
      BY <1>2 DEF UploadInv, UniquePlaces
    <2>4. \A t \in Sessions : receiving[t] # None /\ receiving[t].id = o.id => User(t) = u
      BY <2>1 DEF UploadInv, TableInv, UploadOwnsId, StillOwner
    <2>5. \A q \in rows' : q.id = o.id <=> q \in GetObject(User(s), pendingWrite[s])'
      <3>1. \A q \in rows : q.id = o.id <=> q = o
        BY <2>1 DEF UploadInv, TableInv, UniqueIds
      <3>2. \A q \in rows : q \in GetObject(u, p) <=> q = o
        BY <2>1 DEF UploadInv, UniquePlaces, GetObject
      <3>3. QED
        BY <1>1, <1>2, <3>1, <3>2 DEF GetObject, User
    <2>6. QED
      BY <1>1, <1>2, <2>1, <2>2, <2>3, <2>4, <2>5, OpensSizes
  <1>3. ASSUME NEW i \in Ids, ~CannotCreate(u, p), Fresh(i), Insert(i, u, p, FALSE),
               Opened(s, i, 0, TRUE) \/ NotOpened(rows' \ rows)
        PROVE  UploadInv' /\ SizesKept
    <2>1. /\ UniquePlaces'
          /\ \A q \in rows' : q \in rows \/
                /\ q.id = i /\ q.user = u /\ q.size = 0
                /\ q.path = Parent(p) /\ q.name = Last(p)
      <3>1. UniquePlaces /\ Insert(i, u, p, FALSE)
        BY <1>3 DEF UploadInv
      <3> HIDE DEF u, p
      <3>2. /\ UniquePlaces'
            /\ \A q \in rows' : q \in rows \/
                  /\ q.id = i /\ q.user = u /\ q.dir = FALSE /\ q.size = 0
                  /\ q.path = Parent(p) /\ q.name = Last(p)
        BY <3>1, InsertKeepsPlaces
      <3>3. QED
        BY <3>2
    <2>2. \A t \in Sessions : receiving[t] # None => receiving[t].id # i
      BY <1>3 DEF Fresh
    <2>3. \A q \in rows' : q.id = i <=> q \in GetObject(User(s), pendingWrite[s])'
      <3>1. \A q \in rows : q.id # i
        BY <1>3 DEF Fresh
      <3>2. \A q \in rows : ~(q.user = u /\ q.path = Parent(p) /\ q.name = Last(p))
        BY <1>3 DEF CannotCreate, Exists, GetObject
      <3>3. \A q \in rows' : q \in GetObject(User(s), pendingWrite[s])' <=>
                                q.user = u /\ q.path = Parent(p) /\ q.name = Last(p)
        BY <1>1 DEF GetObject, User
      <3>4. QED
        BY <2>1, <3>1, <3>2, <3>3
    <2>4. CASE Opened(s, i, 0, TRUE)
      BY <1>1, <1>3, <2>1, <2>2, <2>3, <2>4, OpensSizes, ZenonT(60)
    <2>5. CASE NotOpened(rows' \ rows)
      <3>1. /\ UNCHANGED <<disk, receiving>>
            /\ damaged' = damaged \cup IdsOf(rows' \ rows)
        BY <2>5 DEF NotOpened
      <3>2. QED
        BY <1>1, <2>1, <2>2, <3>1, NotOpenedSizes
    <2>6. QED
      BY <1>3, <2>4, <2>5
  <1>4. ASSUME UNCHANGED <<rows, disk, damaged, receiving>>
        PROVE  UploadInv' /\ SizesKept
    BY <1>1, <1>4, UploadsUnchanged DEF UploadInv, OnlyUploaders, UploadersStay
  <1>5. ASSUME rows' = rows, NotOpened({})
        PROVE  UNCHANGED <<rows, disk, damaged, receiving>>
    BY <1>5 DEF NotOpened, IdsOf
  <1>6. QED
    BY <1>2, <1>3, <1>4, <1>5 DEF ReceiveFile

LEMMA ReceiveChunkSizes ==
    ASSUME UploadInv, TableInv', NEW s \in Sessions, ReceiveChunk(s)
    PROVE  UploadInv' /\ SizesKept
  <1> DEFINE old == receiving[s]
             new == [old EXCEPT !.size = @ + 1, !.off = @ + 1]
             i == old.id
  <1>1. /\ old \in Upload /\ old # None /\ i \in Ids
        /\ old.size \in Nat /\ old.off \in Nat
    BY DEF ReceiveChunk, UploadInv, TableInv, TypeOK, Upload
  <1>2. /\ new.id = old.id /\ new.file = old.file /\ new.owner = old.owner
        /\ new.size = old.size + 1 /\ new.off = old.off + 1
    BY <1>1 DEF Upload
  <1>0. new # None
    <2>1. old.size + 1 \in Nat /\ old.off + 1 \in Nat
      BY <1>1
    <2>2. new \in Upload
      BY <1>1, <2>1, UploadExcept
    <2>3. QED
      BY <2>2, NoneAssumption
  <1>3. receiving' = [receiving EXCEPT ![s] = new]
    BY DEF ReceiveChunk, UploadInv, TableInv, TypeOK
  <1>4. UNCHANGED <<rows, damaged, user, pendingWrite, accepting>>
    BY DEF ReceiveChunk, session
  <1>5. /\ old.size = old.off
        /\ disk[i] = None \/ disk[i] = old.size
    BY <1>1 DEF UploadInv, CountsWritten
  <1>6. disk'[i] = None \/ disk'[i] = new.size
    <2>1. disk'[i] = IF disk[i] = None THEN None
                     ELSE IF old.append THEN disk[i] + 1
                     ELSE IF disk[i] > old.off THEN disk[i] ELSE old.off + 1
      BY <1>1 DEF ReceiveChunk, UploadInv, TableInv, TypeOK
    <2>2. CASE disk[i] = None
      BY <2>1, <2>2
    <2>3. CASE disk[i] # None
      <3>1. disk[i] = old.size /\ disk[i] = old.off
        BY <1>5, <2>3
      <3>2. disk'[i] = old.size + 1
        BY <1>1, <2>1, <2>3, <3>1
      <3>3. QED
        BY <1>2, <3>2
    <2>4. QED
      BY <2>2, <2>3
  <1>7. \A j \in Ids : j # i => disk'[j] = disk[j]
    BY DEF ReceiveChunk, UploadInv, TableInv, TypeOK
  <1> HIDE DEF new
  <1>8. /\ receiving'[s] = new
        /\ \A t \in Sessions : t # s => receiving'[t] = receiving[t]
    BY <1>3 DEF UploadInv, TableInv, TypeOK
  <1>9. \A t \in Sessions : receiving'[t] # None =>
           /\ receiving[t] # None
           /\ receiving'[t].id = receiving[t].id /\ receiving'[t].file = receiving[t].file
           /\ receiving'[t].owner = receiving[t].owner
    BY <1>1, <1>2, <1>8
  <1>10. OnlyUploaders' /\ StillOwner' /\ OwnFile'
    BY <1>4, <1>9 DEF UploadInv, OnlyUploaders, StillOwner, OwnFile, User
  <1>11. OpensEmpty' /\ UniquePlaces'
    BY <1>4 DEF UploadInv, OpensEmpty, UniquePlaces, GetObject, User
  <1>12. CountsWritten'
    <2>1. ASSUME NEW t \in Sessions, receiving'[t] # None
          PROVE  /\ receiving'[t].size = receiving'[t].off
                 /\ \/ disk'[receiving'[t].id] = None
                    \/ disk'[receiving'[t].id] = receiving'[t].size
      <3>1. CASE t = s
        <4>1. new.size = new.off
          BY <1>2, <1>5
        <4>2. QED
          BY <1>2, <1>6, <1>8, <3>1, <4>1
      <3>2. CASE t # s
        <4>1. receiving'[t] = receiving[t] /\ receiving[t].id # i /\ receiving[t].id \in Ids
          BY <1>1, <1>8, <2>1, <3>2 DEF UploadInv, OwnFile, TableInv, TypeOK, Upload
        <4>2. QED
          BY <1>7, <2>1, <4>1 DEF UploadInv, CountsWritten
      <3>3. QED
        BY <3>1, <3>2
    <2>2. QED
      BY <2>1 DEF CountsWritten
  <1>13. NamesItsFile'
    BY <1>4, <1>9 DEF UploadInv, NamesItsFile, GetObject, User
  <1>14. SizesKept
    <2>2. \A j : Received(j) => Received(j)'
      BY <1>0, <1>1, <1>2, <1>8 DEF Received
    <2>3. \A r \in rows : ~Received(r.id) => disk'[r.id] = disk[r.id]
      BY <1>1, <1>7 DEF Received, UploadInv, TableInv, TypeOK, Row
    <2>4. QED
      BY <1>4, <2>2, <2>3 DEF SizesKept
  <1>15. QED
    BY <1>10, <1>11, <1>12, <1>13, <1>14 DEF UploadInv

LEMMA ReceiveEndSizes ==
    ASSUME UploadInv, OneEach, TableInv', NEW s \in Sessions, NEW n \in Nat,
           Ends(s, n), CountIsRight(s, n)
    PROVE  UploadInv' /\ SizesKept
  <1> DEFINE target == GetObject(User(s), receiving[s].file)
             i == receiving[s].id
  <1>1. receiving[s] # None /\ s \in Uploaders /\ i \in Ids
    BY DEF Ends, UploadInv, OnlyUploaders, TableInv, UploadPhases, TypeOK, Upload
  <1>2. rows' = {Resize(target, n, r) : r \in rows}
    BY DEF Ends, Recorded, Resize
  <1>3. \A r \in rows : r \in target => r.user = User(s)
    BY DEF GetObject
  <1>4. \A r \in rows : ~r.dir => (r.id = i <=> r \in target)
    BY <1>1 DEF UploadInv, NamesItsFile
  <1>5. i \in damaged' \/ disk'[i] = None \/ disk'[i] = n
    BY <1>1 DEF UploadInv, CountsWritten, CountIsRight
  <1>14. /\ damaged \subseteq damaged'
         /\ \A j \in Ids : j # i => disk'[j] = disk[j]
    BY <1>1, ClosedFile DEF Ends, UploadInv, TableInv
  <1>15. \A r \in rows : r.id \in Ids
    BY DEF UploadInv, TableInv, TypeOK, Row
  <1> HIDE DEF target
  <1>6. \A q \in rows' : \E r \in rows :
           /\ q = Resize(target, n, r)
           /\ q.id = r.id /\ q.user = r.user /\ q.dir = r.dir
           /\ q.name = r.name /\ q.path = r.path
           /\ r \notin target => q = r
           /\ r \in target => q.size = n
    <2>1. rows \subseteq Row
      BY DEF UploadInv, TableInv, TypeOK
    <2>2. \A r \in rows : r \in target => Resize(target, n, r).size = n
      BY <2>1 DEF Resize, Row
    <2>3. QED
      BY <1>1, <1>2, <2>1, <2>2, Resized
  <1>7. /\ UNCHANGED <<user, accepting>>
        /\ pendingWrite'[s] = None
        /\ receiving'[s] = None
        /\ \A t \in Sessions : t # s => /\ receiving'[t] = receiving[t]
                                        /\ pendingWrite'[t] = pendingWrite[t]
    BY DEF Ends, Recorded, session, UploadInv, TableInv, TypeOK
  <1>8. UniquePlaces'
    BY <1>6 DEF UploadInv, UniquePlaces
  <1>9. OnlyUploaders' /\ StillOwner' /\ OwnFile' /\ CountsWritten'
    <2>1. OnlyUploaders' /\ StillOwner' /\ OwnFile'
      BY <1>7 DEF UploadInv, OnlyUploaders, StillOwner, OwnFile, User
    <2>2. ASSUME NEW t \in Sessions, receiving'[t] # None
          PROVE  /\ receiving'[t].size = receiving'[t].off
                 /\ \/ disk'[receiving'[t].id] = None
                    \/ disk'[receiving'[t].id] = receiving'[t].size
      <3>1. t # s /\ receiving'[t] = receiving[t]
        BY <1>7, <2>2
      <3>2. receiving[t].id # i /\ receiving[t].id \in Ids
        BY <1>1, <2>2, <3>1 DEF UploadInv, OwnFile, TableInv, TypeOK, Upload
      <3>3. QED
        BY <1>14, <2>2, <3>1, <3>2 DEF UploadInv, CountsWritten
    <2>3. QED
      BY <2>1, <2>2 DEF CountsWritten
  <1>10. OpensEmpty'
    <2>1. ASSUME NEW t \in Sessions, pendingWrite'[t] # None, NEW o \in rows',
                 o \in GetObject(User(t), pendingWrite[t])'
          PROVE  o.size = 0
      <3>1. t # s /\ pendingWrite[t] # None /\ t \in Uploaders
        BY <1>7, <2>1 DEF UploadInv, OnlyUploaders
      <3>2. User(t) # User(s)
        BY <1>1, <3>1 DEF OneEach
      <3>3. PICK r \in rows : /\ o.user = r.user /\ o.name = r.name /\ o.path = r.path
                              /\ r \notin target => o = r
        BY <1>6
      <3>4. r.user = User(t)
        BY <1>7, <2>1, <3>3 DEF GetObject, User
      <3>5. o = r
        BY <1>3, <3>2, <3>3, <3>4
      <3>6. o \in GetObject(User(t), pendingWrite[t])
        BY <1>7, <2>1, <3>1, <3>5 DEF GetObject, User
      <3>7. QED
        BY <3>1, <3>5, <3>6 DEF UploadInv, OpensEmpty
    <2>2. QED
      BY <2>1 DEF OpensEmpty, User
  <1>11. NamesItsFile'
    <2>1. ASSUME NEW t \in Sessions, receiving'[t] # None, NEW q \in rows', ~q.dir
          PROVE  q.id = receiving'[t].id <=> q \in GetObject(User(t), receiving[t].file)'
      <3>1. receiving'[t] = receiving[t]
        BY <1>7, <2>1
      <3>2. PICK r \in rows : /\ q.id = r.id /\ q.user = r.user /\ q.dir = r.dir
                              /\ q.name = r.name /\ q.path = r.path
        BY <1>6
      <3>3. q \in GetObject(User(t), receiving[t].file)'
               <=> r \in GetObject(User(t), receiving[t].file)
        BY <1>7, <3>1, <3>2 DEF GetObject, User
      <3>4. QED
        BY <2>1, <3>1, <3>2, <3>3 DEF UploadInv, NamesItsFile
    <2>2. QED
      BY <2>1 DEF NamesItsFile, GetObject, User
  <1>12. SizesKept
    <2>1. ASSUME NEW q \in rows', ~q.dir, q.id \notin damaged', ~Received(q.id)'
          PROVE  \E r \in rows : /\ ~r.dir /\ r.id = q.id
                                 /\ \/ disk'[q.id] = q.size \/ disk'[q.id] = None
                                    \/ /\ r.id \notin damaged /\ ~Received(r.id)
                                       /\ disk'[q.id] = disk[r.id] /\ q.size = r.size
      <3>1. PICK r \in rows : /\ q.id = r.id /\ q.dir = r.dir
                              /\ r \notin target => q = r
                              /\ r \in target => q.size = n
        BY <1>6
      <3>2. CASE r \in target
        BY <1>4, <1>5, <2>1, <3>1, <3>2
      <3>3. CASE r \notin target
        <4>1. ~Received(r.id)
          BY <1>4, <1>7, <2>1, <3>1, <3>3 DEF Received
        <4>2. QED
          BY <1>4, <1>14, <1>15, <2>1, <3>1, <3>3, <4>1
      <3>4. QED
        BY <3>2, <3>3
    <2>2. QED
      BY <2>1 DEF SizesKept
  <1>13. QED
    BY <1>8, <1>9, <1>10, <1>11, <1>12 DEF UploadInv

LEMMA UploadStep ==
    ASSUME UploadInv, ~Overwrite, OneUploader, NEW s \in Sessions, Step(s)
    PROVE  UploadInv' /\ SizesKept
  <1>1. TableInv'
    BY TableStep DEF UploadInv
  <1>2. OneEach /\ UploadersStay
    BY <1>1, UploadersApart DEF UploadInv, TableInv
  <1>3. CASE \/ CDUP(s) \/ CWDRoot(s) \/ Leave(s) \/ RETR(s) \/ \E u \in Users : USER(s, u)
             \/ \E abs \in BOOLEAN, segs \in Segments : CWD(s, abs, segs)
    <2>1. UNCHANGED <<rows, disk, damaged, receiving, pendingWrite>>
      BY <1>3 DEF CDUP, CWDRoot, Leave, RETR, USER, CWD, table, upload
    <2>2. QED
      BY <1>1, <1>2, <2>1, UploadsUnchanged DEF UploadInv, OnlyUploaders
  <1>4. CASE Return(s)
    <2>1. /\ UNCHANGED <<rows, disk, damaged, receiving>>
          /\ pendingWrite' = [pendingWrite EXCEPT ![s] = None]
      BY <1>4 DEF Return, table
    <2>2. \A t \in Sessions : pendingWrite'[t] # None => pendingWrite'[t] = pendingWrite[t]
      BY <2>1 DEF UploadInv, TableInv, TypeOK
    <2>3. QED
      BY <1>1, <1>2, <2>1, <2>2, UploadsUnchanged DEF UploadInv, OnlyUploaders
  <1>5. ASSUME NEW abs \in BOOLEAN, NEW segs \in Segments, MKD(s, abs, segs)
        PROVE  UploadInv' /\ SizesKept
    <2> DEFINE p == MkdTarget(wd[s], abs, segs)
    <2>1. PICK i \in Ids : Fresh(i) /\ Insert(i, User(s), p, TRUE)
      BY <1>5 DEF MKD
    <2>2. /\ UNCHANGED <<disk, user, pendingWrite, accepting, receiving>>
          /\ damaged' = damaged \ IdsOf(rows' \ rows)
      BY <1>5 DEF MKD, session, upload
    <2> HIDE DEF p
    <2>3. /\ UniquePlaces'
          /\ \A q \in rows' : q \in rows \/ (q.id = i /\ q.dir /\ q.size = 0)
      BY <2>1, InsertKeepsPlaces DEF UploadInv
    <2>4. \A r \in rows : r \in rows' /\ r.id \in damaged => r.id \in damaged'
      BY <2>1, <2>2, <2>3 DEF Fresh, IdsOf
    <2>5. QED
      BY <1>1, <2>2, <2>3, <2>4, RowsChanged
  <1>6. ASSUME NEW p, RemoveObject(User(s), p), UNCHANGED <<session, upload>>
        PROVE  UploadInv' /\ SizesKept
    <2>1. /\ rows' \subseteq rows
          /\ \A r \in rows' : /\ disk'[r.id] = disk[r.id]
                             /\ (r.id \in damaged' <=> r.id \in damaged)
      <3>1. User(s) \in Users
        BY UserType DEF UploadInv, TableInv
      <3>2. QED
        BY <1>6, <3>1, RemoveTakes DEF UploadInv, TableInv
    <2>2. \A i \in Ids : disk'[i] = None \/ disk'[i] = disk[i]
      BY <1>6 DEF RemoveObject, DiskWithout
    <2>3. UniquePlaces'
      BY <2>1 DEF UploadInv, UniquePlaces
    <2>4. UNCHANGED <<user, pendingWrite, accepting, receiving>>
      BY <1>6 DEF session, upload
    <2>5. QED
      BY <1>1, <2>1, <2>2, <2>3, <2>4, RowsChanged
  <1>7. CASE \E abs \in BOOLEAN, segs \in Segments : STOR(s, abs, segs)
    BY <1>1, <1>7, STORSizes
  <1>8. CASE ReceiveFile(s) \/ ReceiveChunk(s)
    BY <1>1, <1>2, <1>8, ReceiveFileSizes, ReceiveChunkSizes
  <1>9. CASE ReceiveEnd(s) \/ WriteFails(s)
    BY <1>1, <1>2, <1>9, EndsUpload, ReceiveEndSizes DEF UploadInv, TableInv
  <1>10. QED
    BY <1>3, <1>4, <1>5, <1>6, <1>7, <1>8, <1>9 DEF Step, RMD, DELE

LEMMA UploadInit == Init => UploadInv
  BY TableInit DEF Init, UploadInv, UniquePlaces, OnlyUploaders, StillOwner, OpensEmpty,
                   CountsWritten, OwnFile, NamesItsFile

LEMMA UploadStutter == UploadInv /\ UNCHANGED vars => UploadInv'
  <1> SUFFICES ASSUME UploadInv, UNCHANGED vars PROVE UploadInv'
    OBVIOUS
  <1>1. UNCHANGED <<rows, disk, damaged, user, pendingWrite, accepting, receiving>>
    BY DEF vars, table, session, upload
  <1>2. TableInv'
    BY TableNext DEF UploadInv
  <1>3. QED
    BY <1>1, <1>2, UploadsUnchanged DEF UploadInv, OnlyUploaders, UploadersStay

\* The size that LIST and SIZE tell is that of the data file whenever no upload
\* to it is under way, unless the disk failed on it, if STOR names no object that
\* has a size, no user uploads by two sessions, and a session that uploads keeps
\* its user (data_receive_file, data_async_receive_end).
THEOREM SizesAgree == OneUploader /\ ~Overwrite => (Spec => []SizeAgrees)
  <1> SUFFICES ASSUME OneUploader, ~Overwrite PROVE Spec => []SizeAgrees
    OBVIOUS
  <1> DEFINE I == UploadInv /\ DataFileForRow /\ SizeAgrees
  <1>1. Init => I
    BY UploadInit DEF Init, DataFileForRow, SizeAgrees
  <1>2. I /\ [Next]_vars => I'
    <2> SUFFICES ASSUME I, [Next]_vars PROVE I'
      OBVIOUS
    <2>1. ASSUME NEW s \in Sessions, Step(s) PROVE I'
      <3>1. UploadInv' /\ SizesKept /\ KeepsFiles
        BY <2>1, UploadStep, TableStep DEF UploadInv
      <3>2. DataFileForRow'
        BY <3>1 DEF KeepsFiles, DataFileForRow
      <3>3. SizeAgrees'
        <4>1. \A q \in rows' : ~q.dir /\ q.id \notin damaged' /\ ~Received(q.id)' =>
                                disk'[q.id] = q.size
          BY <3>1, <3>2 DEF SizesKept, DataFileForRow, SizeAgrees, Received
        <4>2. QED
          BY <4>1 DEF SizeAgrees, Received
      <3>4. QED
        BY <3>1, <3>2, <3>3
    <2>2. CASE UNCHANGED vars
      <3>1. UploadInv'
        BY <2>2, UploadStutter
      <3>2. UNCHANGED <<rows, disk, damaged, receiving>>
        BY <2>2 DEF vars, table, upload
      <3>3. QED
        BY <3>1, <3>2 DEF DataFileForRow, SizeAgrees
    <2>3. QED
      BY <2>1, <2>2 DEF Next
  <1>3. I => SizeAgrees
    OBVIOUS
  <1>4. QED
    BY <1>1, <1>2, <1>3, PTL DEF Spec

-----------------------------------------------------------------------------
(* Removal, as long as LIKE 'q%' matches no name that only begins like q.   *)

ExactLike == \A e \in LikePrefix : e[1] = e[2]

LEMMA PrefixPoints ==
    ASSUME NEW S, NEW p \in Seq(S), NEW q \in Seq(S)
    PROVE  IsPrefix(p, q) <=> Len(p) <= Len(q) /\ \A i \in 1..Len(p) : p[i] = q[i]
  <1> DEFINE n == Len(p)
  <1>1. n \in Nat /\ Len(q) \in Nat
    BY LenProperties
  <1>2. \A i \in 1..n : p[i] \in S
    BY ElementOfSeq
  <1>3. n <= Len(q) => \A i \in 1..n : q[i] \in S
    BY <1>1, ElementOfSeq
  <1>4. (IF 1 <= n THEN n - 1 + 1 ELSE 0) = n /\ n - 1 + 1 = n /\ \A i \in 1..n : 1 + i - 1 = i
    BY <1>1
  <1>5. /\ SubSeq(p, 1, n) \in Seq(S)
        /\ Len(SubSeq(p, 1, n)) = n
        /\ \A i \in 1..n : SubSeq(p, 1, n)[i] = p[i]
    <2>1. /\ SubSeq(p, 1, n) \in Seq(S)
          /\ Len(SubSeq(p, 1, n)) = IF 1 <= n THEN n - 1 + 1 ELSE 0
          /\ \A i \in 1..(n - 1 + 1) : SubSeq(p, 1, n)[i] = p[1 + i - 1]
      BY <1>1, <1>2, SubSeqProperties
    <2>2. QED
      BY <1>4, <2>1
  <1>6. n <= Len(q) => /\ SubSeq(q, 1, n) \in Seq(S)
                       /\ Len(SubSeq(q, 1, n)) = n
                       /\ \A i \in 1..n : SubSeq(q, 1, n)[i] = q[i]
    <2>1. ASSUME n <= Len(q)
          PROVE  /\ SubSeq(q, 1, n) \in Seq(S)
                 /\ Len(SubSeq(q, 1, n)) = IF 1 <= n THEN n - 1 + 1 ELSE 0
                 /\ \A i \in 1..(n - 1 + 1) : SubSeq(q, 1, n)[i] = q[1 + i - 1]
      BY <1>1, <1>3, <2>1, SubSeqProperties
    <2>2. QED
      BY <1>4, <2>1
  <1> HIDE DEF n
  <1>7. n <= Len(q) => (SubSeq(p, 1, n) = SubSeq(q, 1, n) <=> \A i \in 1..n : p[i] = q[i])
    BY <1>5, <1>6, SeqEqual
  <1>8. QED
    BY <1>7 DEF IsPrefix, n

LEMMA UnderExactly ==
    ASSUME ExactLike, NEW S, NEW p \in Seq(S), p # <<>>, NEW q \in Seq(S)
    PROVE  UnderPrefix(q, p) <=> IsPrefix(p, q)
  <1>1. Len(p) \in Nat \ {0} /\ Len(q) \in Nat
    BY EmptySeq, LenProperties
  <1>2. <<p[Len(p)], q[Len(p)]>> \in LikePrefix => p[Len(p)] = q[Len(p)]
    BY DEF ExactLike
  <1>3. (\A i \in 1..Len(p) : p[i] = q[i])
           <=> (\A i \in 1..(Len(p) - 1) : q[i] = p[i]) /\ p[Len(p)] = q[Len(p)]
    BY <1>1
  <1>4. QED
    BY <1>1, <1>2, <1>3, PrefixPoints DEF UnderPrefix

\* get_object finds the object whose whole path the command was given.
LEMMA WholeOfTarget ==
    ASSUME NEW u, NEW p, TargetPath(p), NEW o \in GetObject(u, p)
    PROVE  /\ WholePath(o) = p
           /\ p \in Seq(Names \cup {Empty}) /\ p # <<>>
  <1>1. CASE p \in ObjectPaths
    BY <1>1, FoundObject, SeqMonotonic DEF ObjectPaths, Paths, Root
  <1>2. CASE PrefixedPath(p)
    <2>1. /\ p \in Seq(Names \cup {Empty}) /\ p # <<>> /\ Parent(p) = Front(p)
      BY <1>2, PrefixedParent
    <2>2. QED
      BY <2>1, FrontLast DEF GetObject, WholePath
  <1>3. QED
    BY <1>1, <1>2 DEF TargetPath

LEMMA RemovedInside ==
    ASSUME TypeOK, ExactLike, NEW u, NEW p, TargetPath(p), NEW o \in GetObject(u, p),
           NEW r \in RemovedWith(u, p, o)
    PROVE  r = o \/ (o.dir /\ IsPrefix(WholePath(o), r.path))
  <1>1. /\ WholePath(o) = p
        /\ p \in Seq(Names \cup {Empty}) /\ p # <<>>
    BY WholeOfTarget
  <1>2. r # o => o.dir /\ r \in rows /\ UnderPrefix(r.path, p)
    BY DEF RemovedWith
  <1>3. r \in rows => r.path \in Seq(Names \cup {Empty})
    BY DEF TypeOK, Row
  <1>4. QED
    BY <1>1, <1>2, <1>3, UnderExactly

\* No other command than RMD and DELE loses a row or a data file.
Loses(r) == (\A q \in rows' : q.id # r.id) \/ (disk[r.id] # None /\ disk'[r.id] = None)

LEMMA InsertLoses ==
    ASSUME NEW i, NEW u, NEW p, NEW isDir, Insert(i, u, p, isDir)
    PROVE  rows \subseteq rows'
  BY DEF Insert

LEMMA StepLoses ==
    ASSUME TableInv, NEW s \in Sessions, Step(s)
    PROVE  \/ \A r \in rows : ~Loses(r)
           \/ \E p : TargetPath(p) /\ RemoveObject(User(s), p)
  <1>1. CASE \E abs \in BOOLEAN, segs \in Segments :
                RMD(s, abs, segs) \/ DELE(s, abs, segs)
    <2>1. PICK abs \in BOOLEAN, segs \in Segments : RMD(s, abs, segs) \/ DELE(s, abs, segs)
      BY <1>1
    <2>2. wd[s] \in Paths
      BY DEF TableInv, TypeOK
    <2>3. TargetPath(RmdTarget(wd[s], abs, segs)) /\ TargetPath(MkdTarget(wd[s], abs, segs))
      BY <2>2, ResolvedArgument DEF TargetPath
    <2>4. QED
      BY <2>1, <2>3 DEF RMD, DELE
  <1>2. CASE \/ CDUP(s) \/ CWDRoot(s) \/ Leave(s) \/ Return(s) \/ RETR(s)
             \/ \E u \in Users : USER(s, u)
             \/ \E abs \in BOOLEAN, segs \in Segments :
                   CWD(s, abs, segs) \/ STOR(s, abs, segs)
    <2>1. UNCHANGED <<rows, disk>>
      BY <1>2 DEF CDUP, CWDRoot, Leave, Return, RETR, USER, CWD, STOR, table
    <2>2. QED
      BY <2>1 DEF Loses
  <1>3. CASE \E abs \in BOOLEAN, segs \in Segments : MKD(s, abs, segs)
    <2>1. rows \subseteq rows' /\ UNCHANGED disk
      BY <1>3, InsertLoses DEF MKD
    <2>2. QED
      BY <2>1 DEF Loses
  <1>4. CASE ReceiveFile(s)
    <2>1. rows \subseteq rows'
      BY <1>4, InsertLoses DEF ReceiveFile
    <2>2. UNCHANGED disk \/ \E i \in Ids : disk' = [disk EXCEPT ![i] = 0]
      BY <1>4 DEF ReceiveFile, Opened, NotOpened, GetObject, TableInv, TypeOK, Row
    <2>3. \A i \in Ids : disk[i] # None => disk'[i] # None
      BY <2>2, NoneAssumption DEF TableInv, TypeOK
    <2>4. QED
      BY <2>1, <2>3 DEF Loses, TableInv, TypeOK, Row
  <1>5. CASE ReceiveChunk(s)
    <2>1. /\ rows' = rows
          /\ receiving[s].id \in Ids /\ receiving[s].off \in Nat
          /\ \A i \in Ids : disk[i] \in Nat \cup {None}
      BY <1>5 DEF ReceiveChunk, TableInv, TypeOK, Upload
    <2>2. \A i \in Ids : disk[i] # None => disk'[i] # None
      <3>1. \A i \in Ids : i # receiving[s].id => disk'[i] = disk[i]
        BY <1>5 DEF ReceiveChunk, TableInv, TypeOK
      <3>2. disk'[receiving[s].id] =
              IF disk[receiving[s].id] = None THEN None
              ELSE IF receiving[s].append THEN disk[receiving[s].id] + 1
              ELSE IF disk[receiving[s].id] > receiving[s].off THEN disk[receiving[s].id]
              ELSE receiving[s].off + 1
        BY <1>5, <2>1 DEF ReceiveChunk, TableInv, TypeOK
      <3>3. disk[receiving[s].id] # None => disk'[receiving[s].id] \in Nat
        BY <2>1, <3>2
      <3>4. QED
        BY <3>1, <3>3, NoneAssumption
    <2>3. QED
      BY <2>1, <2>2 DEF Loses, TableInv, TypeOK, Row
  <1>6. CASE ReceiveEnd(s) \/ WriteFails(s)
    <2>1. PICK n \in Nat : Ends(s, n)
      BY <1>6, EndsUpload DEF TableInv
    <2>2. \A i \in Ids : disk'[i] = None <=> disk[i] = None
      BY <2>1, ClosedFile DEF Ends, TableInv
    <2>3. \A r \in rows : \E q \in rows' : q.id = r.id
      <3>1. rows' = {Resize(GetObject(User(s), receiving[s].file), n, r) : r \in rows}
        BY <2>1 DEF Ends, Recorded, Resize
      <3>2. rows \subseteq Row
        BY DEF TableInv, TypeOK
      <3>3. QED
        BY <3>1, <3>2, Resized
    <2>4. QED
      BY <2>2, <2>3 DEF Loses, TableInv, TypeOK, Row
  <1>7. QED
    BY <1>1, <1>2, <1>3, <1>4, <1>5, <1>6 DEF Step

\* What one command removes is an object and what is inside it, nothing beside
\* it, if no name in the table is matched by LIKE with another name in front of
\* the % (remove_fs_object): the pattern is the only cause of the violation that
\* the run VirtualFs_prefix shows.
THEOREM RemovesOnlySubtrees == ExactLike => (Spec => RemovesSubtreeOnly)
  <1> SUFFICES ASSUME ExactLike PROVE Spec => RemovesSubtreeOnly
    OBVIOUS
  <1> DEFINE gone == {r \in rows : \A q \in rows' : q.id # r.id}
             Subtree == gone = {} \/ \E o \in gone : \A r \in gone :
                           r = o \/ (o.dir /\ IsPrefix(WholePath(o), r.path))
  <1>1. TableInv /\ [Next]_vars => [Subtree]_vars
    <2> SUFFICES ASSUME TableInv, NEW s \in Sessions, Step(s) PROVE Subtree
      BY DEF Next
    <2>1. CASE \A r \in rows : ~Loses(r)
      BY <2>1 DEF Loses
    <2>2. ASSUME NEW p, TargetPath(p), RemoveObject(User(s), p)
          PROVE  Subtree
      <3>1. PICK o \in GetObject(User(s), p) : rows' = rows \ RemovedWith(User(s), p, o)
        BY <2>2 DEF RemoveObject
      <3>2. o \in rows /\ o \in RemovedWith(User(s), p, o)
        BY DEF GetObject, RemovedWith
      <3>3. o \in gone
        BY <3>1, <3>2 DEF TableInv, UniqueIds
      <3>4. \A r \in gone : r \in RemovedWith(User(s), p, o)
        BY <3>1
      <3>5. \A r \in gone : r = o \/ (o.dir /\ IsPrefix(WholePath(o), r.path))
        BY <2>2, <3>4, RemovedInside DEF TableInv
      <3>6. QED
        BY <3>3, <3>5
    <2>3. QED
      BY <2>1, <2>2, StepLoses
  <1>2. QED
    BY <1>1, TableInit, TableNext, PTL DEF Spec, RemovesSubtreeOnly

=============================================================================
