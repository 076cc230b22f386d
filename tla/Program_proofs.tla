--------------------------- MODULE Program_proofs ---------------------------
(***************************************************************************)
(* Theorems about Program, and with it about Startup and Server, for every *)
(* value of their constants.                                               *)
(***************************************************************************)
EXTENDS Program, FiniteSetTheorems, NaturalsInduction, TLAPS

-----------------------------------------------------------------------------
(* The server: ports and descriptors.                                      *)

\* A client is accepted only while descriptors for a session are left, so that
\* fewer ports are in use than Ports has.
ServerInv ==
    /\ ServerTypeOK
    /\ Cardinality(lingering) <= MaxLinger

\* What the bounds say, without the interval of FirstPort.
LEMMA ServerBounds ==
    /\ MaxFds \in Nat /\ DbFds \in Nat /\ DbFds > 0 /\ MaxWaiting \in Nat /\ MaxWaiting > 0
    /\ MaxLinger \in Nat /\ FirstPort \in Nat /\ FirstPort > 0
  BY ServerBoundsAssumption, SMTT(60)

LEMMA Quotient ==
    ASSUME NEW m \in Nat, NEW d \in Nat \ {0}, NEW n \in Nat, d * n <= m
    PROVE  n <= m \div d
  BY SMTT(30)

LEMMA SessionFdsPositive == SessionFds \in Nat \ {0}
  BY ServerBounds DEF SessionFds

LEMMA PortsFinite ==
    /\ IsFiniteSet(Ports)
    /\ Cardinality(Ports) = MaxFds \div SessionFds + MaxLinger
    /\ Ports \subseteq Nat
    /\ \A p \in Ports : FirstPort..p \subseteq Ports
  <1> DEFINE n == MaxFds \div SessionFds
  <1>1. n \in Nat /\ FirstPort \in Int /\ MaxLinger \in Nat
    BY ServerBounds, SessionFdsPositive
  <1>2. Ports = FirstPort..(FirstPort + n + MaxLinger - 1)
    BY DEF Ports
  <1> HIDE DEF n
  <1>3. FirstPort + n + MaxLinger - 1 \in Int
    BY <1>1
  <1>4. /\ IsFiniteSet(Ports)
        /\ Cardinality(Ports) = IF FirstPort > FirstPort + n + MaxLinger - 1 THEN 0
                                ELSE FirstPort + n + MaxLinger - 1 - FirstPort + 1
    BY <1>1, <1>2, <1>3, FS_Interval
  <1>5. Cardinality(Ports) = n + MaxLinger
    BY <1>1, <1>4
  <1>6. Ports \subseteq Nat /\ \A p \in Ports : FirstPort..p \subseteq Ports
    BY <1>1, <1>2, ServerBounds
  <1>7. QED
    BY <1>4, <1>5, <1>6 DEF n

LEMMA PortsFit == Ports \subseteq AllPorts
  <1> SUFFICES ASSUME NEW p \in Ports PROVE p \in AllPorts
    OBVIOUS
  <1>1. p <= 65535
    BY PortsAssumption
  <1>2. p \in Nat /\ p >= FirstPort
    BY PortsFinite, ServerBounds DEF Ports
  <1>3. QED
    BY <1>1, <1>2 DEF AllPorts

LEMMA LessThanWellFounded ==
    IsWellFoundedOn({ss \in Nat \X Nat : ss[1] < ss[2]}, Nat)
  BY NatLessThanWellFounded DEF OpToRel

\* Every set of ports leaves out all of them or has a least one it leaves out.
LEMMA LeastFree ==
    ASSUME NEW used, ~(Ports \subseteq used)
    PROVE  \E p \in Ports : p \notin used /\ \A q \in FirstPort..(p - 1) : q \in used
  <1> DEFINE free == {p \in Ports : p \notin used}
             Less == {ss \in Nat \X Nat : ss[1] < ss[2]}
  <1>1. Ports \subseteq Nat
    BY PortsFinite
  <1>2. free # {} /\ free \subseteq Nat
    BY <1>1
  <1> HIDE DEF free, Less
  <1>3. IsWellFoundedOn(Less, Nat)
    BY LessThanWellFounded DEF Less
  <1>4. PICK p \in free : \A q \in free : <<q, p>> \notin Less
    BY <1>2, <1>3, WFMin
  <1>5. \A q \in free : ~(q < p)
    BY <1>2, <1>4 DEF Less
  <1>6. \A q \in FirstPort..(p - 1) : q \in Ports
    <2>1. p \in Nat /\ FirstPort..p \subseteq Ports
      BY <1>1, PortsFinite DEF free
    <2>2. FirstPort..(p - 1) \subseteq FirstPort..p
      BY <2>1, ServerBounds
    <2>3. QED
      BY <2>1, <2>2
  <1>7. QED
    BY <1>1, <1>5, <1>6, ServerBounds DEF free

\* The descriptors of all transfers.
Held == Cardinality(Holding(1)) + Cardinality(Holding(2)) + Cardinality(Holding(3))

LEMMA ServerSets ==
    ASSUME ServerTypeOK
    PROVE  /\ IsFiniteSet(DOMAIN sessions) /\ IsFiniteSet(lingering)
           /\ Cardinality(DOMAIN sessions) \in Nat
           /\ Cardinality(lingering) \in Nat
           /\ \A k \in 1..3 : IsFiniteSet(Holding(k)) /\ Cardinality(Holding(k)) \in Nat
           /\ Held \in Nat
           /\ Free = MaxFds - SessionFds * Cardinality(DOMAIN sessions) - Held
  <1>1. IsFiniteSet(DOMAIN sessions) /\ IsFiniteSet(lingering)
    BY PortsFinite, FS_Subset DEF ServerTypeOK
  <1>2. \A k \in 1..3 : IsFiniteSet(Holding(k)) /\ Cardinality(Holding(k)) \in Nat
    BY <1>1, FS_Subset, FS_CardinalityType DEF Holding
  <1>3. Cardinality(DOMAIN sessions) \in Nat /\ Cardinality(lingering) \in Nat
    BY <1>1, FS_CardinalityType
  <1>4. SessionFds * Cardinality(DOMAIN sessions) \in Int /\ MaxFds \in Nat
    BY <1>3, SessionFdsPositive, ServerBounds
  <1>5. /\ Cardinality(Holding(1)) \in Nat /\ Cardinality(Holding(2)) \in Nat
        /\ Cardinality(Holding(3)) \in Nat
    BY <1>2
  <1>6. Held \in Nat
    BY <1>5 DEF Held
  <1>7. Free = MaxFds - SessionFds * Cardinality(DOMAIN sessions) - Held
    BY <1>4, <1>5 DEF Free, Held
  <1>8. QED
    BY <1>1, <1>2, <1>3, <1>6, <1>7

\* When a session is made its data port is one of Ports that was free.
LEMMA DataPortIsFree ==
    ASSUME ServerInv, Free >= SessionFds
    PROVE  DataPort \in Ports /\ DataPort \notin DOMAIN sessions \cup lingering
  <1> DEFINE used == DOMAIN sessions \cup lingering
             n == Cardinality(DOMAIN sessions)
             l == Cardinality(lingering)
  <1>1. IsFiniteSet(used) /\ Cardinality(used) <= n + l /\ Cardinality(used) \in Nat
    <2>1. /\ IsFiniteSet(used)
          /\ Cardinality(used) = n + l - Cardinality(DOMAIN sessions \cap lingering)
      BY ServerSets, FS_Union DEF ServerInv
    <2>2. Cardinality(DOMAIN sessions \cap lingering) \in Nat
      BY ServerSets, FS_Intersection, FS_CardinalityType DEF ServerInv
    <2>3. QED
      BY <2>1, <2>2, ServerSets, FS_CardinalityType DEF ServerInv
  <1>2. n + 1 <= MaxFds \div SessionFds
    <2>1. n \in Nat /\ SessionFds * n + SessionFds <= MaxFds
      BY ServerSets, SessionFdsPositive, ServerBounds DEF ServerInv
    <2>2. SessionFds * (n + 1) = SessionFds * n + SessionFds
      BY <2>1, SessionFdsPositive
    <2>3. QED
      BY <2>1, <2>2, Quotient, SessionFdsPositive, ServerBounds
  <1>3. ~(Ports \subseteq used)
    <2> SUFFICES ASSUME Ports \subseteq used PROVE FALSE
      OBVIOUS
    <2>1. Cardinality(Ports) <= Cardinality(used)
      BY <1>1, FS_Subset
    <2>2. l <= MaxLinger /\ n \in Nat /\ l \in Nat
      BY ServerSets DEF ServerInv
    <2>3. MaxFds \div SessionFds \in Nat /\ MaxLinger \in Nat
      BY SessionFdsPositive, ServerBounds
    <2>4. QED
      BY <1>1, <1>2, <2>1, <2>2, <2>3, PortsFinite
  <1> HIDE DEF used
  <1>4. PICK p \in Ports : p \notin used /\ \A q \in FirstPort..(p - 1) : q \in used
    BY <1>3, LeastFree
  <1>5. p \in AllPorts
    BY PortsFit
  <1>6. /\ DataPort \in AllPorts /\ DataPort \notin used
        /\ \A q \in FirstPort..(DataPort - 1) : q \in used
    BY <1>4, <1>5 DEF DataPort, used
  <1>7. DataPort \in FirstPort..p
    BY <1>4, <1>5, <1>6, ServerBounds DEF AllPorts
  <1>8. QED
    BY <1>4, <1>6, <1>7, PortsFinite DEF used

LEMMA OffInv ==
    ASSUME accepting \in BOOLEAN, waiting = 0, sessions = <<>>, stranded = {},
           spinning = FALSE,
           lingering \subseteq Ports, Cardinality(lingering) <= MaxLinger
    PROVE  ServerInv
  <1>1. DOMAIN sessions = {} /\ Holding(1) = {} /\ Holding(2) = {} /\ Holding(3) = {}
    BY DEF Holding
  <1>2. Free = MaxFds - SessionFds * 0 - 0 - 0 - 0
    BY <1>1, FS_EmptySet DEF Free
  <1>3. Free >= 0
    BY <1>2, SessionFdsPositive, ServerBounds
  <1>4. waiting \in 0..MaxWaiting
    BY ServerBounds
  <1>5. QED
    BY <1>1, <1>3, <1>4 DEF ServerInv, ServerTypeOK

\* One session more takes the descriptors of one session.
LEMMA AcceptInv ==
    ASSUME ServerInv, Accept
    PROVE  ServerInv'
  <1> DEFINE n == Cardinality(DOMAIN sessions)
  <1>1. Free >= SessionFds /\ SessionFds \in Nat \ {0} /\ MaxFds \in Nat
    BY SessionFdsPositive, ServerBounds DEF Accept
  <1>2. DataPort \in Ports /\ DataPort \notin DOMAIN sessions
    BY <1>1, DataPortIsFree
  <1>3. /\ DOMAIN sessions' = DOMAIN sessions \cup {DataPort}
        /\ \A p \in DOMAIN sessions' : sessions'[p] \in TransferFds
    BY <1>2 DEF Accept, ServerInv, ServerTypeOK, TransferFds
  <1>4. Holding(1)' = Holding(1) /\ Holding(2)' = Holding(2) /\ Holding(3)' = Holding(3)
    BY <1>2, <1>3 DEF Accept, Holding
  <1>5. /\ n \in Nat /\ Held \in Nat
        /\ Cardinality(DOMAIN sessions') = n + 1
        /\ Free = MaxFds - SessionFds * n - Held
    BY <1>2, <1>3, ServerSets, FS_AddElement DEF ServerInv
  <1>6. Held' = Held
    BY <1>4 DEF Held
  <1>7. Free' >= 0
    <2>1. Free' = MaxFds - SessionFds * (n + 1) - Cardinality(Holding(1))
                         - Cardinality(Holding(2)) - Cardinality(Holding(3))
      BY <1>4, <1>5 DEF Free
    <2> HIDE DEF n
    <2>2. SessionFds * (n + 1) = SessionFds * n + SessionFds /\ SessionFds * n \in Int
      BY <1>1, <1>5
    <2>3. /\ Cardinality(Holding(1)) \in Nat /\ Cardinality(Holding(2)) \in Nat
          /\ Cardinality(Holding(3)) \in Nat
      BY ServerSets DEF ServerInv
    <2>4. QED
      BY <1>1, <1>5, <2>1, <2>2, <2>3 DEF Held
  <1>8. waiting' \in 0..MaxWaiting
    BY ServerBounds DEF Accept, Ready, ServerInv, ServerTypeOK
  <1>9. QED
    BY <1>2, <1>3, <1>7, <1>8 DEF Accept, ServerInv, ServerTypeOK

\* How the sessions holding at least k descriptors change with those of one.
LEMMA HoldingChanges ==
    ASSUME ServerInv, NEW p \in DOMAIN sessions, NEW n \in TransferFds,
           sessions' = [sessions EXCEPT ![p] = n], NEW k \in 1..3
    PROVE  Cardinality(Holding(k)') =
             Cardinality(Holding(k)) + (IF n >= k THEN 1 ELSE 0)
                                     - (IF sessions[p] >= k THEN 1 ELSE 0)
  <1>1. IsFiniteSet(Holding(k)) /\ Cardinality(Holding(k)) \in Nat
    BY ServerSets DEF ServerInv
  <1>2. Holding(k)' = IF n >= k THEN Holding(k) \cup {p} ELSE Holding(k) \ {p}
    BY DEF Holding
  <1>3. p \in Holding(k) <=> sessions[p] >= k
    BY DEF Holding
  <1>4. CASE n >= k
    <2>1. Cardinality(Holding(k) \cup {p}) =
            IF p \in Holding(k) THEN Cardinality(Holding(k)) ELSE Cardinality(Holding(k)) + 1
      BY <1>1, FS_AddElement
    <2>2. QED
      BY <1>1, <1>2, <1>3, <1>4, <2>1
  <1>5. CASE ~(n >= k)
    <2>1. Cardinality(Holding(k) \ {p}) =
            IF p \in Holding(k) THEN Cardinality(Holding(k)) - 1 ELSE Cardinality(Holding(k))
      BY <1>1, FS_RemoveElement
    <2>2. QED
      BY <1>1, <1>2, <1>3, <1>5, <2>1
  <1>6. QED
    BY <1>4, <1>5

LEMMA TransferInv ==
    ASSUME ServerInv, Transfer
    PROVE  ServerInv'
  <1>1. PICK p \in DOMAIN sessions, n \in TransferFds :
           n - sessions[p] <= Free /\ sessions' = [sessions EXCEPT ![p] = n]
    BY DEF Transfer
  <1>2. /\ DOMAIN sessions' = DOMAIN sessions
        /\ \A q \in DOMAIN sessions' : sessions'[q] \in TransferFds
    BY <1>1 DEF ServerInv, ServerTypeOK
  <1>3. /\ n \in 0..3 /\ sessions[p] \in 0..3
        /\ Free \in Int /\ Free = MaxFds - SessionFds * Cardinality(DOMAIN sessions) - Held
    <2>1. Cardinality(DOMAIN sessions) \in Nat /\ Held \in Nat
      BY ServerSets DEF ServerInv
    <2>2. SessionFds * Cardinality(DOMAIN sessions) \in Int /\ MaxFds \in Nat
      BY <2>1, SessionFdsPositive, ServerBounds
    <2>3. QED
      BY <2>1, <2>2, ServerSets DEF ServerInv, ServerTypeOK, TransferFds
  <1>4. /\ Cardinality(Holding(1)) \in Nat /\ Cardinality(Holding(2)) \in Nat
        /\ Cardinality(Holding(3)) \in Nat
    BY ServerSets DEF ServerInv
  <1>5. /\ Cardinality(Holding(1)') = Cardinality(Holding(1)) + (IF n >= 1 THEN 1 ELSE 0)
                                      - (IF sessions[p] >= 1 THEN 1 ELSE 0)
        /\ Cardinality(Holding(2)') = Cardinality(Holding(2)) + (IF n >= 2 THEN 1 ELSE 0)
                                      - (IF sessions[p] >= 2 THEN 1 ELSE 0)
        /\ Cardinality(Holding(3)') = Cardinality(Holding(3)) + (IF n >= 3 THEN 1 ELSE 0)
                                      - (IF sessions[p] >= 3 THEN 1 ELSE 0)
    <2>1. \A k \in 1..3 : Cardinality(Holding(k)') =
             Cardinality(Holding(k)) + (IF n >= k THEN 1 ELSE 0)
                                     - (IF sessions[p] >= k THEN 1 ELSE 0)
      BY <1>1, HoldingChanges
    <2>2. QED
      BY <2>1
  <1>6. Held' = Held + n - sessions[p] /\ Held \in Nat
    BY <1>3, <1>4, <1>5 DEF Held
  <1>7. Free' = MaxFds - SessionFds * Cardinality(DOMAIN sessions) - Held'
    <2>1. /\ Cardinality(DOMAIN sessions) \in Nat /\ SessionFds \in Nat /\ MaxFds \in Nat
      BY ServerSets, SessionFdsPositive, ServerBounds DEF ServerInv
    <2>2. SessionFds * Cardinality(DOMAIN sessions) \in Int
      BY <2>1
    <2>3. QED
      BY <1>2, <1>3, <1>4, <1>5, <2>1, <2>2 DEF Free, Held
  <1>8. Free' >= 0
    <2>1. SessionFds * Cardinality(DOMAIN sessions) \in Int /\ MaxFds \in Nat
      BY ServerSets, SessionFdsPositive, ServerBounds DEF ServerInv
    <2>2. QED
      BY <1>1, <1>3, <1>6, <1>7, <2>1
  <1>9. QED
    BY <1>2, <1>8 DEF Transfer, ServerInv, ServerTypeOK

LEMMA SessionEndsInv ==
    ASSUME ServerInv, SessionEnds
    PROVE  ServerInv'
  <1>1. PICK p \in DOMAIN sessions :
           /\ sessions' = Restrict(sessions, DOMAIN sessions \ {p})
           /\ stranded' = stranded \ {p}
           /\ UNCHANGED <<accepting, waiting, spinning>>
           /\ \/ UNCHANGED lingering
              \/ /\ Cardinality(lingering) < MaxLinger
                 /\ lingering' = lingering \cup {p}
    BY DEF SessionEnds, Released
  <1> DEFINE n == Cardinality(DOMAIN sessions)
  <1>2. /\ DOMAIN sessions' = DOMAIN sessions \ {p}
        /\ \A q \in DOMAIN sessions' : sessions'[q] = sessions[q]
        /\ \A q \in DOMAIN sessions' : sessions'[q] \in TransferFds
        /\ stranded' \subseteq DOMAIN sessions'
    BY <1>1 DEF Restrict, ServerInv, ServerTypeOK
  <1>3. /\ n \in Nat /\ Held \in Nat /\ n >= 1
        /\ Cardinality(DOMAIN sessions') = n - 1
    <2>1. n \in Nat /\ Held \in Nat /\ Cardinality(DOMAIN sessions') = n - 1
      BY <1>1, <1>2, ServerSets, FS_RemoveElement DEF ServerInv
    <2>2. Cardinality(DOMAIN sessions') \in Nat
      BY <1>2, ServerSets, FS_RemoveElement, FS_CardinalityType DEF ServerInv
    <2>3. QED
      BY <2>1, <2>2
  <1>4. \A k \in 1..3 : /\ Cardinality(Holding(k)) \in Nat
                        /\ Cardinality(Holding(k)') \in Nat
                        /\ Cardinality(Holding(k)') <= Cardinality(Holding(k))
    <2>1. \A k \in 1..3 : IsFiniteSet(Holding(k)) /\ Cardinality(Holding(k)) \in Nat
      BY ServerSets DEF ServerInv
    <2>2. \A k \in 1..3 : Holding(k)' \subseteq Holding(k)
      BY <1>2 DEF Holding
    <2>3. QED
      BY <2>1, <2>2, FS_Subset, FS_CardinalityType
  <1>5. /\ Free = MaxFds - SessionFds * n - Held
        /\ Free' = MaxFds - SessionFds * (n - 1) - Cardinality(Holding(1)')
                          - Cardinality(Holding(2)') - Cardinality(Holding(3)')
    BY <1>3, ServerSets DEF ServerInv, Free
  <1> HIDE DEF n
  <1>6. /\ SessionFds * (n - 1) = SessionFds * n - SessionFds
        /\ SessionFds * n \in Int /\ MaxFds \in Nat /\ SessionFds \in Nat
    BY <1>3, SessionFdsPositive, ServerBounds
  <1>7. Free' >= 0
    <2>1. Free >= 0
      BY DEF ServerInv, ServerTypeOK
    <2>2. /\ Cardinality(Holding(1)) \in Nat /\ Cardinality(Holding(1)') \in Nat
          /\ Cardinality(Holding(2)) \in Nat /\ Cardinality(Holding(2)') \in Nat
          /\ Cardinality(Holding(3)) \in Nat /\ Cardinality(Holding(3)') \in Nat
          /\ Cardinality(Holding(1)') <= Cardinality(Holding(1))
          /\ Cardinality(Holding(2)') <= Cardinality(Holding(2))
          /\ Cardinality(Holding(3)') <= Cardinality(Holding(3))
      BY <1>4
    <2>3. QED
      BY <1>5, <1>6, <2>1, <2>2 DEF Held
  <1>8. lingering' \subseteq Ports /\ Cardinality(lingering') <= MaxLinger
    <2>1. /\ lingering \subseteq Ports /\ Cardinality(lingering) <= MaxLinger
          /\ DOMAIN sessions \subseteq Ports
      BY DEF ServerInv, ServerTypeOK
    <2>2. IsFiniteSet(lingering) /\ Cardinality(lingering) \in Nat /\ MaxLinger \in Nat
      BY ServerSets, ServerBounds DEF ServerInv
    <2>3. Cardinality(lingering \cup {p}) \in {Cardinality(lingering), Cardinality(lingering) + 1}
      BY <2>2, FS_AddElement
    <2>4. CASE UNCHANGED lingering
      BY <2>1, <2>4
    <2>5. CASE Cardinality(lingering) < MaxLinger /\ lingering' = lingering \cup {p}
      <3>1. Cardinality(lingering') <= MaxLinger
        BY <2>2, <2>3, <2>5
      <3>2. QED
        BY <2>1, <2>5, <3>1
    <2>6. QED
      BY <1>1, <2>4, <2>5
  <1>9. QED
    BY <1>1, <1>2, <1>7, <1>8 DEF ServerInv, ServerTypeOK

\* What Free counts is neither sessions nor ports that linger, but descriptors.
LEMMA FreeFrame ==
    ASSUME ServerInv, UNCHANGED sessions, stranded' \subseteq DOMAIN sessions,
           accepting' \in BOOLEAN, spinning' \in BOOLEAN, waiting' \in 0..MaxWaiting,
           lingering' \subseteq lingering, IsFiniteSet(lingering)
    PROVE  ServerInv'
  <1>1. Cardinality(lingering') <= MaxLinger
    BY ServerSets, FS_Subset, FS_CardinalityType, ServerBounds DEF ServerInv
  <1>2. Free' = Free
    BY DEF Free, Holding
  <1>3. QED
    BY <1>1, <1>2 DEF ServerInv, ServerTypeOK

LEMMA ServerNextInv ==
    ASSUME ServerInv,
           \/ Listen \/ Arrive \/ Accept \/ AcceptFails \/ PortSearch
           \/ Transfer \/ Strand \/ SessionEnds \/ SwitchedOff \/ LingerEnds
           \/ UNCHANGED serverVars
    PROVE  ServerInv'
  <1>1. IsFiniteSet(lingering)
    BY ServerSets DEF ServerInv
  <1>2. waiting \in Int /\ MaxWaiting \in Int
    BY ServerBounds DEF ServerInv, ServerTypeOK
  <1>3. CASE Listen \/ Arrive \/ AcceptFails \/ PortSearch \/ Strand \/ UNCHANGED serverVars
    <2>1. /\ accepting' \in BOOLEAN /\ spinning' \in BOOLEAN
          /\ UNCHANGED <<sessions, lingering>> /\ stranded' \subseteq DOMAIN sessions
      BY <1>3 DEF Listen, Arrive, AcceptFails, PortSearch, Strand, serverVars, ServerInv, ServerTypeOK
    <2>2. waiting' \in 0..MaxWaiting
      BY <1>2, <1>3 DEF Listen, Arrive, AcceptFails, PortSearch, Strand, Ready, serverVars,
                        ServerInv, ServerTypeOK
    <2>3. QED
      BY <1>1, <2>1, <2>2, FreeFrame
  <1>4. CASE LingerEnds
    BY <1>1, <1>4, FreeFrame DEF LingerEnds, ServerInv, ServerTypeOK
  <1>5. CASE SwitchedOff
    <2>1. (/\ accepting \in BOOLEAN /\ waiting = 0 /\ sessions = <<>> /\ stranded = {}
           /\ spinning = FALSE
           /\ lingering \subseteq Ports /\ Cardinality(lingering) <= MaxLinger
           => ServerInv)'
      BY OffInv, PTL
    <2>2. QED
      BY <1>5, <2>1 DEF SwitchedOff, ServerInv, ServerTypeOK
  <1>6. QED
    BY <1>3, <1>4, <1>5, AcceptInv, TransferInv, SessionEndsInv

-----------------------------------------------------------------------------
(* The start: what is known at each step of main.                          *)

\* No user of the database is missing from the configuration, or differs.
Agree(db, conf) == \A n \in Names : db[n] # None => conf[n] = db[n]

\* Once it is read, the configuration is the file's; nobody edits it meanwhile.
ConfigRead ==
    /\ pc = "default" => file = Bad /\ cfg = DefaultConfig
    /\ pc \in Steps \ {"config", "default"} => file \in Config /\ cfg = file

\* What of the database is there.
Opened ==
    /\ pc \in {"users", "recreate"} => storage # NoDir
    /\ pc \in {"compare", "backup", "create", "objects", "server", "up"} =>
         storage \in Database /\ "users" \in storage.tables
    /\ pc \in {"server", "up"} => "fs_objects" \in storage.tables

\* How far the users are those of the configuration.
UsersDone ==
    /\ pc = "backup" => ~Agree(storage.users, cfg.users)
    /\ pc = "recreate" =>
         storage = NoFile \/ stale \/ Agree(storage.users, cfg.users)
    /\ pc = "create" =>
         /\ stale \/ Agree(storage.users, cfg.users)
         /\ \A n \in Names \ todo : cfg.users[n] # None => storage.users[n] # None
    /\ pc \in {"objects", "server", "up"} => stale \/ storage.users = cfg.users

\* Each edit of the configuration leads to at most one backup: the backups are
\* numbered without a gap, and when there are as many as edits the database
\* agrees with the configuration as it is.
Settled ==
    storage \in Database =>
      \A n \in Names : storage.users[n] # None =>
                         file \in Config /\ file.users[n] = storage.users[n]

BackupsNumbered ==
    \E b \in 0..edits : DOMAIN backups = 1..b /\ (b < edits \/ Settled)

StartupInv ==
    /\ TypeOK
    /\ ConfigRead /\ Opened /\ UsersDone
    /\ BackupsNumbered
    /\ NothingLost

LEMMA EmptyDbType ==
    /\ NoUsers \in Users /\ EmptyDb \in Database
    /\ DefaultConfig \in Config
    /\ \A n \in Names : EmptyDb.users[n] = None
    /\ EmptyDb.rows = {}
  BY NamesAssumption
  DEF NoUsers, Users, EmptyDb, Database, DefaultConfig, Config

LEMMA AgreeIs ==
    ASSUME NEW db, NEW conf
    PROVE  AnyUsersChanged(db, conf) <=> ~Agree(db, conf)
  BY DEF AnyUsersChanged, Agree

\* connect and check_table_exists keep users and rows.
LEMMA WithTableKeeps ==
    ASSUME TypeOK, storage # NoDir, NEW name \in {"users", "fs_objects"}
    PROVE  /\ Connected \in Database /\ WithTable(name) \in Database
           /\ WithTable(name).tables = Connected.tables \cup {name}
           /\ WithTable(name).users = Connected.users
           /\ Rows(WithTable(name)) = Rows(storage)
           /\ storage \in Database => Connected = storage
           /\ storage = NoFile => Connected = EmptyDb
  <1>1. /\ Connected \in Database
        /\ storage \in Database => Connected = storage
        /\ storage = NoFile => Connected = EmptyDb
    BY EmptyDbType, NoDatabaseAssumption DEF TypeOK, Connected
  <1>2. /\ WithTable(name).tables = Connected.tables \cup {name}
        /\ WithTable(name).users = Connected.users
        /\ WithTable(name).rows = Connected.rows
        /\ WithTable(name) \in Database
    BY <1>1 DEF WithTable, Database
  <1>3. WithTable(name) \notin {NoDir, NoFile} /\ Rows(WithTable(name)) = Connected.rows
    BY <1>2, NoDatabaseAssumption DEF Rows
  <1>4. storage = NoFile => Rows(storage) = Connected.rows
    BY <1>1, EmptyDbType DEF Rows
  <1>5. storage \in Database => Rows(storage) = Connected.rows
    BY <1>1, NoDatabaseAssumption DEF Rows
  <1>6. QED
    BY <1>1, <1>2, <1>3, <1>4, <1>5 DEF TypeOK

LEMMA BackupsFrame ==
    ASSUME BackupsNumbered, UNCHANGED <<backups, edits>>, Settled => Settled'
    PROVE  BackupsNumbered'
  BY DEF BackupsNumbered

LEMMA NothingLostFrame ==
    ASSUME NothingLost, UNCHANGED <<backups, uploads>>, Rows(storage) \subseteq Rows(storage')
    PROVE  NothingLost'
  BY DEF NothingLost

\* A step that leaves the configuration, the databases and the clients alone.
LEMMA DiskFrame ==
    ASSUME StartupInv, UNCHANGED <<file, storage, backups, uploads, edits>>
    PROVE  BackupsNumbered' /\ NothingLost'
  <1>1. Settled => Settled'
    BY DEF Settled
  <1>2. QED
    BY <1>1, BackupsFrame, NothingLostFrame DEF StartupInv

LEMMA StartupInvInit == Init => StartupInv
  <1> SUFFICES ASSUME Init PROVE StartupInv
    OBVIOUS
  <1>1. TypeOK
    <2>1. DOMAIN backups = {}
      BY DEF Init
    <2>2. uploads \in 0..MaxUploads /\ edits \in 0..MaxEdits /\ crashes \in 0..MaxCrashes
      BY BoundsAssumption DEF Init
    <2>3. QED
      BY <2>1, <2>2, EmptyDbType DEF Init, TypeOK
  <1>2. BackupsNumbered
    <2>1. DOMAIN backups = 1..0 /\ Settled
      BY NoDatabaseAssumption DEF Init, Settled
    <2>2. QED
      BY <2>1, BoundsAssumption DEF Init, BackupsNumbered
  <1>3. NothingLost
    BY DEF Init, NothingLost
  <1>4. QED
    BY <1>1, <1>2, <1>3 DEF Init, StartupInv, ConfigRead, Opened, UsersDone, Steps

LEMMA ProcessStepsInv ==
    ASSUME StartupInv,
           \/ Start \/ StartServer \/ Compare \/ Ended \/ Killed \/ PlaceKeys \/ TakePort
           \/ UNCHANGED vars
    PROVE  StartupInv'
  <1> USE DEF At, volatile, disk, world, counters, vars
  <1>1. BackupsNumbered' /\ NothingLost'
    BY DiskFrame DEF Start, StartServer, Compare, Ended, Killed, PlaceKeys, TakePort
  <1>2. TypeOK'
    <2>1. pc' \in Steps \cup {"down"} /\ stale' \in BOOLEAN
      BY DEF StartupInv, TypeOK, Start, StartServer, Compare, Ended, Killed, PlaceKeys,
          TakePort, Steps
    <2>2. /\ keys' \in {"none", "empty", "wrong", "complete"}
          /\ taken' \in BOOLEAN
          /\ crashes' \in 0..MaxCrashes
      <3>1. CASE StartServer
        BY <3>1 DEF StartupInv, TypeOK, StartServer
      <3>2. CASE Killed
        BY <3>2, BoundsAssumption DEF StartupInv, TypeOK, Killed
      <3>3. CASE PlaceKeys
        BY <3>3 DEF StartupInv, TypeOK, PlaceKeys
      <3>4. CASE TakePort
        BY <3>4 DEF StartupInv, TypeOK, TakePort
      <3>5. CASE Start \/ Compare \/ Ended \/ UNCHANGED vars
        BY <3>5 DEF StartupInv, TypeOK, Start, Compare, Ended
      <3>6. QED
        BY <3>1, <3>2, <3>3, <3>4, <3>5
    <2>3. UNCHANGED <<cfg, todo, file, storage, backups, uploads, edits>>
      BY DEF Start, StartServer, Compare, Ended, Killed, PlaceKeys, TakePort
    <2>4. QED
      BY <2>1, <2>2, <2>3 DEF StartupInv, TypeOK
  <1>3. ConfigRead' /\ Opened' /\ UsersDone'
    <2>1. CASE Compare
      <3>1. pc = "compare" /\ UNCHANGED <<cfg, file, storage, stale>>
        BY <2>1 DEF Compare
      <3>2. pc' = IF Agree(storage.users, cfg.users) THEN "recreate" ELSE "backup"
        BY <2>1, AgreeIs DEF Compare
      <3>3. ConfigRead' /\ Opened'
        BY <3>1, <3>2, NoDatabaseAssumption DEF StartupInv, ConfigRead, Opened, Steps
      <3>4. UsersDone'
        BY <3>1, <3>2 DEF UsersDone, Agree
      <3>5. QED
        BY <3>3, <3>4
    <2>2. CASE StartServer
      BY <2>2 DEF StartServer, StartupInv, ConfigRead, Opened, UsersDone, Steps
    <2>3. CASE Start \/ Ended \/ Killed
      BY <2>3 DEF Start, Ended, Killed, ConfigRead, Opened, UsersDone, Steps
    <2>4. CASE PlaceKeys \/ TakePort \/ UNCHANGED vars
      BY <2>4 DEF PlaceKeys, TakePort, StartupInv, ConfigRead, Opened, UsersDone, Agree
    <2>5. QED
      BY <2>1, <2>2, <2>3, <2>4
  <1>4. QED
    BY <1>1, <1>2, <1>3 DEF StartupInv

\* The configuration is written only where nothing has been read from it: a
\* database that agrees with no file has no users.
LEMMA ConfigStepsInv ==
    ASSUME StartupInv, ReadConfig \/ WriteDefaultConfig
    PROVE  StartupInv'
  <1> USE DEF At, counters
  <1>1. UNCHANGED <<todo, stale, storage, backups, keys, taken, counters>>
    BY DEF ReadConfig, WriteDefaultConfig
  <1>2. TypeOK'
    BY <1>1, EmptyDbType
    DEF StartupInv, TypeOK, ReadConfig, WriteDefaultConfig, Steps
  <1>3. ConfigRead' /\ Opened' /\ UsersDone'
    BY <1>1, EmptyDbType
    DEF StartupInv, ReadConfig, WriteDefaultConfig, ConfigRead, Opened, UsersDone, Steps
  <1>4. Settled => Settled'
    <2>1. CASE file \in Config /\ UNCHANGED file
      BY <1>1, <2>1 DEF Settled
    <2>2. CASE file \notin Config
      BY <1>1, <2>2 DEF Settled
    <2>3. file \in Config => UNCHANGED file
      BY ConfigsAssumption DEF ReadConfig, WriteDefaultConfig, StartupInv, ConfigRead
    <2>4. QED
      BY <2>1, <2>2, <2>3
  <1>5. BackupsNumbered' /\ NothingLost'
    BY <1>1, <1>4, BackupsFrame, NothingLostFrame DEF StartupInv
  <1>6. QED
    BY <1>2, <1>3, <1>5 DEF StartupInv

\* A table is created, if need be with the database around it.
LEMMA WithTableInv ==
    ASSUME StartupInv, NEW name \in {"users", "fs_objects"}, storage # NoDir,
           storage' = WithTable(name), UNCHANGED <<file, backups, uploads, edits>>
    PROVE  BackupsNumbered' /\ NothingLost'
  <1>1. TypeOK
    BY DEF StartupInv
  <1>2. Rows(storage) \subseteq Rows(storage')
    BY <1>1, WithTableKeeps
  <1>3. ASSUME Settled, NEW n \in Names, storage'.users[n] # None
        PROVE  file \in Config /\ file.users[n] = storage'.users[n]
    <2>1. storage'.users = Connected.users
      BY <1>1, WithTableKeeps
    <2>2. storage # NoFile
      BY <1>1, <1>3, <2>1, WithTableKeeps, EmptyDbType
    <2>3. storage \in Database /\ storage'.users = storage.users
      BY <1>1, <2>1, <2>2, WithTableKeeps DEF TypeOK
    <2>4. QED
      BY <1>3, <2>3 DEF Settled
  <1>4. Settled => Settled'
    BY <1>3 DEF Settled
  <1>5. QED
    BY <1>2, <1>4, BackupsFrame, NothingLostFrame DEF StartupInv

LEMMA InitUsersTableInv ==
    ASSUME StartupInv, InitUsersTable
    PROVE  StartupInv'
  <1>1. /\ pc \in {"users", "recreate"} /\ storage # NoDir
        /\ storage' = WithTable("users")
        /\ UNCHANGED <<cfg, stale, file, backups, keys, taken, uploads, edits, crashes>>
    BY DEF InitUsersTable, At, StartupInv, Opened, counters
  <1>2. /\ storage' \in Database /\ "users" \in storage'.tables
        /\ storage'.users = Connected.users
        /\ storage \in Database => Connected = storage
        /\ storage = NoFile => Connected = EmptyDb
    BY <1>1, WithTableKeeps DEF StartupInv
  <1>3. BackupsNumbered' /\ NothingLost'
    BY <1>1, WithTableInv
  <1>4. TypeOK'
    BY <1>1, <1>2 DEF StartupInv, TypeOK, InitUsersTable, At, Steps
  <1>5. ConfigRead' /\ Opened'
    BY <1>1, <1>2, NoDatabaseAssumption
    DEF StartupInv, InitUsersTable, At, ConfigRead, Opened, Steps
  <1>6. UsersDone'
    <2>1. CASE pc = "users"
      BY <2>1 DEF InitUsersTable, At, UsersDone
    <2>2. CASE pc = "recreate"
      <3>1. pc' = "create" /\ todo' = {n \in Names : cfg.users[n] # None}
        BY <2>2 DEF InitUsersTable, At
      <3>2. stale \/ Agree(storage'.users, cfg.users)
        <4>1. CASE storage = NoFile
          BY <1>2, <4>1, EmptyDbType DEF Agree
        <4>2. CASE storage # NoFile
          <5>1. storage \in Database /\ storage'.users = storage.users
            BY <1>1, <1>2, <4>2 DEF StartupInv, TypeOK
          <5>2. QED
            BY <2>2, <4>2, <5>1 DEF StartupInv, UsersDone
        <4>3. QED
          BY <4>1, <4>2
      <3>3. QED
        BY <1>1, <3>1, <3>2 DEF UsersDone, Agree
    <2>3. QED
      BY <1>1, <2>1, <2>2
  <1>7. QED
    BY <1>3, <1>4, <1>5, <1>6 DEF StartupInv

LEMMA InitDbInv ==
    ASSUME StartupInv, InitDb
    PROVE  StartupInv'
  <1>1. /\ pc = "database" /\ pc' = "users"
        /\ storage' = IF storage = NoDir THEN NoFile ELSE storage
        /\ UNCHANGED <<cfg, todo, stale, file, backups, keys, taken, uploads, edits, crashes>>
    BY DEF InitDb, At, counters
  <1>2. Rows(storage) = Rows(storage')
    BY <1>1 DEF Rows
  <1>3. Settled => Settled'
    BY <1>1, NoDatabaseAssumption DEF Settled
  <1>4. BackupsNumbered' /\ NothingLost'
    BY <1>1, <1>2, <1>3, BackupsFrame, NothingLostFrame DEF StartupInv
  <1>5. TypeOK'
    BY <1>1 DEF StartupInv, TypeOK, Steps
  <1>6. ConfigRead' /\ Opened' /\ UsersDone'
    BY <1>1, NoDatabaseAssumption
    DEF StartupInv, ConfigRead, Opened, UsersDone, Steps
  <1>7. QED
    BY <1>4, <1>5, <1>6 DEF StartupInv

\* When no name is left to create, every configured user has a row, and every
\* row is a configured user's unless a rename failed.
LEMMA InitObjectsTableInv ==
    ASSUME StartupInv, InitObjectsTable
    PROVE  StartupInv'
  <1>1. CASE todo = {} /\ At("create", "objects") /\ UNCHANGED storage
    <2>1. UNCHANGED <<cfg, todo, stale, file, storage, backups, keys, taken, uploads, edits, crashes>>
      BY <1>1 DEF InitObjectsTable, counters
    <2>2. BackupsNumbered' /\ NothingLost'
      BY <2>1, DiskFrame
    <2>3. TypeOK'
      BY <1>1, <2>1 DEF StartupInv, TypeOK, At, Steps
    <2>4. ConfigRead' /\ Opened'
      BY <1>1, <2>1, NoDatabaseAssumption DEF StartupInv, ConfigRead, Opened, At, Steps
    <2>5. Agree(storage.users, cfg.users) => storage.users = cfg.users
      <3>1. storage.users \in Users /\ cfg.users \in Users
        BY <1>1 DEF StartupInv, TypeOK, Opened, At, Database, Config
      <3>2. \A n \in Names : cfg.users[n] # None => storage.users[n] # None
        BY <1>1 DEF StartupInv, UsersDone, At
      <3>3. QED
        BY <3>1, <3>2 DEF Agree, Users
    <2>6. UsersDone'
      BY <1>1, <2>1, <2>5 DEF StartupInv, UsersDone, At
    <2>7. QED
      BY <2>2, <2>3, <2>4, <2>6 DEF StartupInv
  <1>2. CASE At("objects", "server") /\ storage' = WithTable("fs_objects")
    <2>1. UNCHANGED <<cfg, todo, stale, file, backups, keys, taken, uploads, edits, crashes>>
      BY <1>2 DEF InitObjectsTable, counters
    <2>2. storage \in Database /\ storage # NoDir /\ "users" \in storage.tables
      BY <1>2, NoDatabaseAssumption DEF StartupInv, Opened, At
    <2>3. /\ storage' \in Database /\ storage'.tables = storage.tables \cup {"fs_objects"}
          /\ storage'.users = storage.users
      BY <1>2, <2>2, WithTableKeeps DEF StartupInv
    <2>4. BackupsNumbered' /\ NothingLost'
      BY <1>2, <2>1, <2>2, WithTableInv
    <2>5. TypeOK'
      BY <1>2, <2>1, <2>3 DEF StartupInv, TypeOK, At, Steps
    <2>6. ConfigRead' /\ Opened' /\ UsersDone'
      BY <1>2, <2>1, <2>2, <2>3, NoDatabaseAssumption
      DEF StartupInv, ConfigRead, Opened, UsersDone, At, Steps
    <2>7. QED
      BY <2>4, <2>5, <2>6 DEF StartupInv
  <1>3. QED
    BY <1>1, <1>2 DEF InitObjectsTable

\* A database is backed up only when it disagrees with the configuration, that
\* is after an edit that had no backup yet; so there is a free number, and the
\* first one follows the numbers in use.
LEMMA NextBackupIsFree ==
    ASSUME StartupInv, pc = "backup"
    PROVE  \E b \in Nat : /\ DOMAIN backups = 1..b /\ b < edits
                          /\ NextBackup = b + 1 /\ NextBackup \in Backup
  <1>1. PICK b \in 0..edits : DOMAIN backups = 1..b /\ (b < edits \/ Settled)
    BY DEF StartupInv, BackupsNumbered
  <1>2. edits \in Nat /\ MaxEdits \in Nat /\ edits <= MaxEdits /\ b \in Nat
    BY <1>1, BoundsAssumption DEF StartupInv, TypeOK
  <1>3. ~Settled
    <2>1. storage \in Database /\ cfg = file
      BY DEF StartupInv, ConfigRead, Opened, Steps
    <2>2. ~Agree(storage.users, file.users)
      BY <2>1 DEF StartupInv, UsersDone
    <2>3. QED
      BY <2>1, <2>2 DEF Settled, Agree
  <1>4. b < edits
    BY <1>1, <1>3
  <1>5. b + 1 \in Backup
    BY <1>2, <1>4 DEF Backup
  <1>6. /\ b + 1 \notin DOMAIN backups
        /\ \A j \in 1..(b + 1 - 1) : j \in DOMAIN backups
    BY <1>1, <1>2
  <1>7. /\ NextBackup \in Backup /\ NextBackup \notin DOMAIN backups
        /\ \A j \in 1..(NextBackup - 1) : j \in DOMAIN backups
    BY <1>5, <1>6 DEF NextBackup
  <1>8. NextBackup = b + 1
    <2> DEFINE k == NextBackup
    <2>1. k \in Nat /\ k >= 1 /\ ~(k <= b)
      BY <1>1, <1>2, <1>7 DEF Backup
    <2>2. ~(b + 1 <= k - 1)
      BY <1>2, <1>6, <1>7, <2>1
    <2> HIDE DEF k
    <2>3. k = b + 1
      BY <1>2, <2>1, <2>2
    <2>4. QED
      BY <2>3 DEF k
  <1>9. QED
    BY <1>1, <1>2, <1>4, <1>5, <1>8

\* The database moves to the backup's file as it is.
LEMMA BackUpInv ==
    ASSUME StartupInv, BackUp
    PROVE  StartupInv'
  <1>1. /\ pc = "backup" /\ pc' = "recreate"
        /\ UNCHANGED <<cfg, todo, file, keys, taken, uploads, edits, crashes>>
    BY DEF BackUp, At, counters
  <1>2. storage \in Database
    BY <1>1 DEF StartupInv, Opened
  <1>3. CASE stale' = TRUE /\ UNCHANGED <<backups, storage>>
    <2>1. BackupsNumbered' /\ NothingLost'
      BY <1>1, <1>3, DiskFrame
    <2>2. TypeOK'
      BY <1>1, <1>3 DEF StartupInv, TypeOK, Steps
    <2>3. ConfigRead' /\ Opened' /\ UsersDone'
      BY <1>1, <1>2, <1>3, NoDatabaseAssumption
      DEF StartupInv, ConfigRead, Opened, UsersDone, Steps
    <2>4. QED
      BY <2>1, <2>2, <2>3 DEF StartupInv
  <1>4. CASE /\ backups' = [i \in DOMAIN backups \cup {NextBackup} |->
                               IF i = NextBackup THEN storage ELSE backups[i]]
             /\ storage' = NoFile
             /\ UNCHANGED stale
    <2>1. PICK b \in Nat : /\ DOMAIN backups = 1..b /\ b < edits
                           /\ NextBackup = b + 1 /\ NextBackup \in Backup
      BY <1>1, NextBackupIsFree
    <2>2. DOMAIN backups' = DOMAIN backups \cup {NextBackup}
      BY <1>4
    <2>3. TypeOK'
      <3>1. /\ DOMAIN backups' \subseteq Backup
            /\ \A i \in DOMAIN backups' : backups'[i] \in Database
        BY <1>2, <1>4, <2>1, <2>2 DEF StartupInv, TypeOK
      <3>2. QED
        BY <1>1, <1>4, <3>1 DEF StartupInv, TypeOK, Steps
    <2>4. ConfigRead' /\ Opened' /\ UsersDone'
      BY <1>1, <1>4, NoDatabaseAssumption
      DEF StartupInv, ConfigRead, Opened, UsersDone, Steps
    <2>5. BackupsNumbered'
      <3>1. edits \in Nat
        BY BoundsAssumption DEF StartupInv, TypeOK
      <3>2. DOMAIN backups' = 1..(b + 1) /\ b + 1 \in 0..edits'
        BY <1>1, <2>1, <2>2, <3>1
      <3>3. Settled'
        BY <1>4, NoDatabaseAssumption DEF Settled
      <3>4. QED
        BY <3>2, <3>3 DEF BackupsNumbered
    <2>6. NothingLost'
      <3>1. \A i \in DOMAIN backups : i \in DOMAIN backups' /\ backups'[i] = backups[i]
        BY <1>4, <2>1, <2>2
      <3>2. backups'[NextBackup] = storage /\ NextBackup \in DOMAIN backups'
        BY <1>4, <2>2
      <3>3. Rows(storage) = storage.rows
        BY <1>2, NoDatabaseAssumption DEF Rows
      <3>4. QED
        BY <1>1, <3>1, <3>2, <3>3 DEF StartupInv, NothingLost
    <2>7. QED
      BY <2>3, <2>4, <2>5, <2>6 DEF StartupInv
  <1>5. QED
    BY <1>3, <1>4 DEF BackUp

LEMMA CreateUserInv ==
    ASSUME StartupInv, CreateUser
    PROVE  StartupInv'
  <1>1. PICK n \in todo :
           /\ pc = "create" /\ pc' = "create"
           /\ todo' = todo \ {n}
           /\ storage' = [storage EXCEPT !.users[n] = IF @ = None THEN cfg.users[n] ELSE @]
    BY DEF CreateUser, At
  <1>2. UNCHANGED <<cfg, stale, file, backups, keys, taken, uploads, edits, crashes>>
    BY DEF CreateUser, counters
  <1>3. /\ n \in Names /\ storage \in Database /\ "users" \in storage.tables
        /\ cfg = file /\ file \in Config
    BY <1>1 DEF StartupInv, TypeOK, ConfigRead, Opened, Steps
  <1>4. /\ storage' \in Database
        /\ storage'.tables = storage.tables /\ storage'.rows = storage.rows
        /\ storage'.users = [storage.users EXCEPT
                               ![n] = IF storage.users[n] = None THEN cfg.users[n]
                                      ELSE storage.users[n]]
    BY <1>1, <1>3 DEF Database, Config, Users
  <1>5. \A m \in Names : storage'.users[m] =
           IF m = n /\ storage.users[n] = None THEN cfg.users[n] ELSE storage.users[m]
    BY <1>3, <1>4 DEF Database, Users
  <1>6. Settled => Settled'
    BY <1>2, <1>3, <1>5 DEF Settled
  <1>7. Rows(storage') = Rows(storage)
    BY <1>3, <1>4, NoDatabaseAssumption DEF Rows
  <1>8. BackupsNumbered' /\ NothingLost'
    BY <1>2, <1>6, <1>7, BackupsFrame, NothingLostFrame DEF StartupInv
  <1>9. TypeOK'
    BY <1>1, <1>2, <1>4 DEF StartupInv, TypeOK
  <1>10. ConfigRead' /\ Opened'
    BY <1>1, <1>2, <1>4 DEF StartupInv, ConfigRead, Opened
  <1>11. UsersDone'
    BY <1>1, <1>2, <1>3, <1>5 DEF StartupInv, UsersDone, Agree
  <1>12. QED
    BY <1>8, <1>9, <1>10, <1>11 DEF StartupInv

LEMMA UploadInv ==
    ASSUME StartupInv, Upload
    PROVE  StartupInv'
  <1>1. /\ pc = "up" /\ uploads < MaxUploads
        /\ uploads' = uploads + 1
        /\ storage' = [storage EXCEPT !.rows = @ \cup {uploads + 1}]
        /\ UNCHANGED <<pc, cfg, todo, stale, file, backups, keys, taken, edits, crashes>>
    BY DEF Upload, volatile
  <1>2. uploads \in Nat /\ MaxUploads \in Nat /\ storage \in Database
    BY <1>1, BoundsAssumption DEF StartupInv, TypeOK, Opened
  <1>3. /\ storage' \in Database
        /\ storage'.tables = storage.tables /\ storage'.users = storage.users
        /\ storage'.rows = storage.rows \cup {uploads + 1}
    BY <1>1, <1>2 DEF Database
  <1>4. BackupsNumbered'
    BY <1>1, <1>2, <1>3, BackupsFrame DEF StartupInv, Settled
  <1>5. NothingLost'
    <2>1. Rows(storage') = Rows(storage) \cup {uploads + 1}
      BY <1>2, <1>3, NoDatabaseAssumption DEF Rows
    <2>2. 1..uploads' = 1..uploads \cup {uploads + 1}
      BY <1>1, <1>2
    <2>3. QED
      BY <1>1, <2>1, <2>2 DEF StartupInv, NothingLost
  <1>6. TypeOK'
    BY <1>1, <1>2, <1>3 DEF StartupInv, TypeOK
  <1>7. ConfigRead' /\ Opened' /\ UsersDone'
    BY <1>1, <1>3 DEF StartupInv, ConfigRead, Opened, UsersDone
  <1>8. QED
    BY <1>4, <1>5, <1>6, <1>7 DEF StartupInv

LEMMA EditConfigInv ==
    ASSUME StartupInv, EditConfig
    PROVE  StartupInv'
  <1>1. /\ pc = "down" /\ pc' = "down" /\ edits < MaxEdits
        /\ edits' = edits + 1 /\ file' \in {Bad} \cup Config
        /\ UNCHANGED <<cfg, todo, stale, storage, backups, keys, taken, uploads, crashes>>
    BY ConfigsAssumption DEF EditConfig, volatile
  <1>2. edits \in Nat /\ MaxEdits \in Nat
    BY BoundsAssumption DEF StartupInv, TypeOK
  <1>3. BackupsNumbered'
    <2>1. PICK b \in 0..edits : DOMAIN backups = 1..b
      BY DEF StartupInv, BackupsNumbered
    <2>2. b \in 0..edits' /\ b < edits'
      BY <1>1, <1>2, <2>1
    <2>3. QED
      BY <1>1, <2>1, <2>2 DEF BackupsNumbered
  <1>4. NothingLost'
    BY <1>1, NothingLostFrame DEF StartupInv
  <1>5. TypeOK'
    BY <1>1, <1>2 DEF StartupInv, TypeOK
  <1>6. ConfigRead' /\ Opened' /\ UsersDone'
    BY <1>1 DEF ConfigRead, Opened, UsersDone, Steps
  <1>7. QED
    BY <1>3, <1>4, <1>5, <1>6 DEF StartupInv

-----------------------------------------------------------------------------
(* The whole process.                                                      *)

ProgramInv ==
    /\ StartupInv
    /\ ServerInv
    /\ pc # "up" => Off

LEMMA ProgramInvInit == ProgramInit => ProgramInv
  <1> SUFFICES ASSUME ProgramInit PROVE ProgramInv
    OBVIOUS
  <1>1. Cardinality(lingering) <= MaxLinger /\ lingering \subseteq Ports
    BY FS_EmptySet, ServerBounds DEF ProgramInit, ServerInit
  <1>2. ServerInv
    BY <1>1, OffInv DEF ProgramInit, ServerInit, Off
  <1>3. QED
    BY <1>2, StartupInvInit DEF ProgramInit, ServerInit, ProgramInv

LEMMA StartupStepInv ==
    ASSUME StartupInv, StartupStep
    PROVE  StartupInv' /\ pc # "up" /\ pc' # "up"
  <1>1. StartupInv'
    BY ProcessStepsInv, ConfigStepsInv, InitDbInv, InitUsersTableInv, BackUpInv,
       CreateUserInv, InitObjectsTableInv
    DEF StartupStep
  <1>2. pc # "up" /\ pc' # "up"
    BY DEF StartupStep, ReadConfig, WriteDefaultConfig, InitDb, InitUsersTable, Compare,
           BackUp, CreateUser, InitObjectsTable, At
  <1>3. QED
    BY <1>1, <1>2

LEMMA ProgramInvNext == ProgramInv /\ [ProgramNext]_programVars => ProgramInv'
  <1> SUFFICES ASSUME ProgramInv, [ProgramNext]_programVars PROVE ProgramInv'
    OBVIOUS
  <1> USE DEF ProgramInv
  <1>1. ASSUME UNCHANGED serverVars, pc' = "up" => pc = "up", pc = "up" => pc' = "up",
               StartupInv'
        PROVE  ProgramInv'
    BY <1>1, ServerNextInv DEF Off, serverVars
  <1>2. CASE Start /\ UNCHANGED serverVars
    BY <1>1, <1>2, ProcessStepsInv DEF Start, At
  <1>3. CASE StartupStep /\ UNCHANGED serverVars
    BY <1>1, <1>3, StartupStepInv
  <1>4. CASE ServerStarts
    <2>1. StartupInv' /\ pc # "up"
      BY <1>4, ProcessStepsInv DEF ServerStarts, StartServer, At
    <2>2. ServerInv'
      BY <1>4, ServerNextInv DEF ServerStarts
    <2>3. pc' # "up" => Off'
      BY <1>4, <2>1 DEF ServerStarts, Off, serverVars
    <2>4. QED
      BY <2>1, <2>2, <2>3
  <1>5. CASE ServerStep
    <2>1. StartupInv' /\ pc' = "up"
      BY <1>5, ProcessStepsInv DEF ServerStep, vars, volatile
    <2>2. ServerInv'
      BY <1>5, ServerNextInv DEF ServerStep
    <2>3. QED
      BY <2>1, <2>2
  <1>6. CASE ServerEnds \/ (Killed /\ SwitchedOff)
    <2>1. StartupInv' /\ SwitchedOff
      BY <1>6, ProcessStepsInv DEF ServerEnds, AcceptThrows, DataAcceptThrows, RunReturns
    <2>2. ServerInv' /\ Off'
      BY <2>1, ServerNextInv DEF SwitchedOff, Off
    <2>3. QED
      BY <2>1, <2>2
  <1>7. CASE Upload /\ ~spinning /\ sessions # <<>> /\ UNCHANGED serverVars
    <2>1. pc' = pc
      BY <1>7 DEF Upload, volatile
    <2>2. QED
      BY <1>1, <1>7, <2>1, UploadInv
  <1>8. CASE (EditConfig \/ PlaceKeys \/ TakePort) /\ UNCHANGED serverVars
    <2>1. pc' = pc
      BY <1>8 DEF EditConfig, PlaceKeys, TakePort, volatile
    <2>2. QED
      BY <1>1, <1>8, <2>1, EditConfigInv, ProcessStepsInv
  <1>9. CASE LingerEnds /\ UNCHANGED vars
    <2>1. StartupInv' /\ ServerInv' /\ pc' = pc
      BY <1>9, ProcessStepsInv, ServerNextInv DEF vars, volatile
    <2>2. QED
      BY <1>9, <2>1 DEF LingerEnds, Off
  <1>10. CASE UNCHANGED programVars
    <2>1. UNCHANGED vars /\ UNCHANGED serverVars /\ pc' = pc
      BY <1>10 DEF programVars, vars, volatile
    <2>2. QED
      BY <1>1, <2>1, ProcessStepsInv
  <1>11. QED
    BY <1>2, <1>3, <1>4, <1>5, <1>6, <1>7, <1>8, <1>9, <1>10 DEF ProgramNext

LEMMA ProgramInvariant == ProgramSpec => []ProgramInv
  BY ProgramInvInit, ProgramInvNext, PTL DEF ProgramSpec

\* The state keeps its types: in particular a free number is found for every
\* backup, a free port for every session that is accepted, and no session is
\* made without descriptors for it; nothing of a server is left without one.
THEOREM ProgramTypes == ProgramSpec => []ProgramTypeOK
  <1>1. ProgramInv => ProgramTypeOK
    BY DEF ProgramInv, StartupInv, ServerInv, ProgramTypeOK
  <1>2. QED
    BY <1>1, ProgramInvariant, PTL

\* A server that is up has both tables, and exactly the users of the
\* configuration it read, however often starts were cut short on the way there;
\* the exception is a start in which the rename failed.
THEOREM ServerHasConfiguredUsers == ProgramSpec => []ServesConfiguredUsers
  <1>1. ProgramInv => ServesConfiguredUsers
    <2> SUFFICES ASSUME ProgramInv, pc = "up" PROVE ServesConfiguredUsers
      BY DEF ServesConfiguredUsers
    <2>1. storage.tables = {"users", "fs_objects"}
      BY DEF ProgramInv, StartupInv, Opened, Database
    <2>2. QED
      BY <2>1 DEF ProgramInv, StartupInv, UsersDone, ServesConfiguredUsers
  <1>2. QED
    BY <1>1, ProgramInvariant, PTL

\* Every upload's row is in the database or in a backup, whatever is edited and
\* whenever the process is killed: no backup overwrites another.
THEOREM UploadsAreKept == ProgramSpec => []NothingLost
  <1>1. ProgramInv => NothingLost
    BY DEF ProgramInv, StartupInv
  <1>2. QED
    BY <1>1, ProgramInvariant, PTL

\* Rows leave the database in no step that finds the users of the configuration
\* in it: only in a backup made because they differ.
THEOREM StorageIsKept == ProgramSpec => KeepsStorage
  <1> DEFINE Keeps == \/ Rows(storage) \subseteq Rows(storage')
                      \/ storage.users # cfg.users
  <1>1. ASSUME StartupInv, InitDb PROVE Keeps
    BY <1>1 DEF InitDb, Rows
  <1>2. ASSUME StartupInv, InitUsersTable \/ InitObjectsTable PROVE Keeps
    <2>1. CASE storage' = storage
      BY <2>1
    <2>2. CASE \E name \in {"users", "fs_objects"} : storage' = WithTable(name)
      <3>1. storage # NoDir
        BY <1>2, NoDatabaseAssumption
        DEF InitUsersTable, InitObjectsTable, At, StartupInv, Opened
      <3>2. QED
        BY <1>2, <2>2, <3>1, WithTableKeeps DEF StartupInv
    <2>3. QED
      BY <1>2, <2>1, <2>2 DEF InitUsersTable, InitObjectsTable
  <1>3. ASSUME StartupInv, BackUp PROVE Keeps
    BY <1>3 DEF BackUp, At, StartupInv, UsersDone, Agree
  <1>4. ASSUME StartupInv, CreateUser PROVE Keeps
    <2>1. storage \in Database /\ storage' \in Database
      <3>1. StartupInv' /\ pc = "create" /\ pc' = "create"
        BY <1>4, CreateUserInv DEF CreateUser, At
      <3>2. QED
        BY <1>4, <3>1 DEF StartupInv, Opened
    <2>2. storage'.rows = storage.rows
      BY <1>4, <2>1 DEF CreateUser, Database
    <2>3. QED
      BY <2>1, <2>2, NoDatabaseAssumption DEF Rows
  <1>5. ASSUME StartupInv, Upload PROVE Keeps
    <2>1. /\ storage \in Database /\ storage' \notin {NoDir, NoFile}
          /\ storage'.rows = storage.rows \cup {uploads + 1}
      <3>1. storage \in Database /\ uploads \in Nat /\ uploads < MaxUploads /\ MaxUploads \in Nat
        BY <1>5, BoundsAssumption DEF Upload, StartupInv, Opened, TypeOK
      <3>2. storage' \in Database /\ storage'.rows = storage.rows \cup {uploads + 1}
        BY <1>5, <3>1 DEF Upload, Database
      <3>3. QED
        BY <3>1, <3>2, NoDatabaseAssumption
    <2>2. QED
      BY <2>1, NoDatabaseAssumption DEF Rows
  <1>6. ASSUME UNCHANGED storage PROVE Keeps
    BY <1>6
  <1> HIDE DEF Keeps
  <1>7. ProgramInv /\ [ProgramNext]_programVars => [Keeps]_vars
    <2> SUFFICES ASSUME ProgramInv, [ProgramNext]_programVars PROVE Keeps
      OBVIOUS
    <2>1. CASE StartupStep
      BY <1>1, <1>2, <1>3, <1>4, <1>6, <2>1
      DEF StartupStep, ReadConfig, WriteDefaultConfig, Compare, ProgramInv, world, disk
    <2>2. CASE Upload
      BY <1>5, <2>2 DEF ProgramInv
    <2>3. CASE Start \/ StartServer \/ Ended \/ Killed \/ EditConfig \/ PlaceKeys
               \/ TakePort \/ UNCHANGED vars
      BY <1>6, <2>3 DEF Start, StartServer, Ended, Killed, EditConfig, PlaceKeys, TakePort, vars,
                        world, disk
    <2>4. QED
      BY <2>1, <2>2, <2>3
      DEF ProgramNext, ServerStarts, ServerStep, ServerEnds, programVars
  <1>8. ProgramSpec => [][Keeps]_vars
    BY <1>7, ProgramInvariant, PTL DEF ProgramSpec
  <1>9. QED
    BY <1>8, PTL DEF Keeps, KeepsStorage

=============================================================================
