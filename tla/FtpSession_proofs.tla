-------------------------- MODULE FtpSession_proofs --------------------------
(***************************************************************************)
(* Theorems about FtpSession, for every value of its constants.            *)
(***************************************************************************)
EXTENDS FtpSession, SequenceTheorems, TLAPS

-----------------------------------------------------------------------------
(* Type correctness and the invariants of every environment.               *)

\* Every outstanding accept was started by a command of its own.
AnyInv ==
    /\ TypeOK
    /\ accepts <= issued
    /\ NoDataBeforeLogin
    /\ OpenStreamHasName

LEMMA IssueType ==
    ASSUME TypeOK, NEW kind \in Transfers \cup {"EMPTY"},
           NEW sock \in Numbers, NEW x \in Numbers,
           Issue(kind, sock, x)
    PROVE  ops' \in [Slots -> Op \cup {NoOp}]
  BY DEF TypeOK, Issue, Op

LEMMA DataOperationType ==
    ASSUME TypeOK, NEW k \in Transfers, NEW x \in Numbers, NEW conn \in Numbers,
           DataOperation(k, x, conn)
    PROVE  /\ stream' \in [{"STOR", "RETR"} -> {"null", "open", "bad"}]
           /\ dsock' \in Numbers
           /\ ops' \in [Slots -> Op \cup {NoOp}]
  <1>1. 0 \in Numbers
    BY BoundsAssumption DEF Numbers
  <1>2. CASE k = "LIST" /\ DirectoryListing(x, conn)
    BY <1>2, IssueType DEF DirectoryListing, TypeOK, Transfers
  <1>3. CASE k = "STOR" /\ DataReceiveFile(x, conn)
    BY <1>1, <1>3, IssueType DEF DataReceiveFile, TypeOK, Transfers, NoConn
  <1>4. CASE k = "RETR" /\ DataSendFile(x, conn)
    BY <1>1, <1>4, IssueType DEF DataSendFile, TypeOK, Transfers, NoConn
  <1>5. QED
    BY <1>2, <1>3, <1>4 DEF DataOperation

\* An upload or download stream that is open after the start of an operation
\* was open before, or is the stream of that operation, which has a name.
LEMMA DataOperationOpens ==
    ASSUME TypeOK, NEW k \in Transfers, NEW x \in Numbers, NEW conn \in Numbers,
           DataOperation(k, x, conn), k = "STOR" => x # 0,
           NEW j \in {"STOR", "RETR"}, stream'[j] = "open"
    PROVE  stream[j] = "open" \/ (j = k /\ x # 0)
  BY DEF DataOperation, DirectoryListing, DataReceiveFile, DataSendFile, TypeOK

LEMMA LaunchType ==
    ASSUME TypeOK, accepts <= issued, NEW k \in Transfers, NEW x \in Numbers,
           issued < MaxXfers, Launch(k, x)
    PROVE  /\ accepts' \in Numbers /\ accepts' <= issued + 1
           /\ stream' \in [{"STOR", "RETR"} -> {"null", "open", "bad"}]
           /\ dsock' \in Numbers
           /\ ops' \in [Slots -> Op \cup {NoOp}]
  <1>1. CASE DataOperation(k, x, dsock) /\ UNCHANGED accepts
    BY <1>1, DataOperationType, BoundsAssumption DEF TypeOK, Numbers
  <1>2. CASE accepts' = accepts + 1 /\ UNCHANGED <<stream, dsock, ops>>
    BY <1>2, BoundsAssumption DEF TypeOK, Numbers
  <1>3. QED
    BY <1>1, <1>2 DEF Launch

LEMMA LaunchOpens ==
    ASSUME TypeOK, NEW k \in Transfers, NEW x \in Numbers,
           Launch(k, x), k = "STOR" => x # 0,
           NEW j \in {"STOR", "RETR"}, stream'[j] = "open"
    PROVE  stream[j] = "open" \/ (j = k /\ x # 0)
  <1>1. CASE DataOperation(k, x, dsock)
    <2>1. dsock \in Numbers
      BY DEF TypeOK
    <2>2. QED
      BY <1>1, <2>1, DataOperationOpens
  <1>2. CASE UNCHANGED stream
    BY <1>2
  <1>3. QED
    BY <1>1, <1>2 DEF Launch

LEMMA AnyInvInit == Init => AnyInv
  <1> SUFFICES ASSUME Init PROVE AnyInv
    OBVIOUS
  <1>1. 0 \in Numbers /\ 1 \in 0..MaxReads
    BY BoundsAssumption DEF Numbers
  <1>2. TypeOK
    <2>1. backlog \in Seq(Numbers)
      BY DEF Init
    <2>2. ops \in [Slots -> Op \cup {NoOp}]
      BY DEF Init
    <2>3. pending \in [Transfers -> Numbers]
      BY <1>1 DEF Init
    <2>4. stream \in [{"STOR", "RETR"} -> {"null", "open", "bad"}]
      BY DEF Init
    <2>5. QED
      BY <1>1, <2>1, <2>2, <2>3, <2>4 DEF Init, TypeOK, NoConn
  <1>3. NoDataBeforeLogin
    BY DEF Init, NoDataBeforeLogin, Outstanding
  <1>4. QED
    BY <1>1, <1>2, <1>3 DEF Init, AnyInv, OpenStreamHasName, Numbers

\* A transfer command keeps the invariant: it needs a logged-in client, and
\* what it launches has the name of that command or of the unfinished one.
LEMMA AskInv ==
    ASSUME AnyInv, NEW a \in {0, issued + 1}, NEW n \in {0, 1, 2}, Ask(a), Command(n),
           accepts' \in Numbers, accepts' <= issued + 1,
           pending' \in [Transfers -> Numbers],
           stream' \in [{"STOR", "RETR"} -> {"null", "open", "bad"}],
           dsock' \in Numbers, ops' \in [Slots -> Op \cup {NoOp}],
           OpenStreamHasName'
    PROVE  AnyInv'
  <1>1. TypeOK'
    <2>1. issued' \in Numbers /\ awaiting' \in Numbers
      BY BoundsAssumption DEF AnyInv, TypeOK, Ask, Numbers
    <2>2. reads' \in 0..MaxReads
      BY BoundsAssumption DEF AnyInv, TypeOK, Command
    <2>3. QED
      BY <2>1, <2>2 DEF AnyInv, TypeOK, Ask, Command, login
  <1>2. NoDataBeforeLogin'
    BY DEF AnyInv, NoDataBeforeLogin, Ask, login
  <1>3. accepts' <= issued'
    BY DEF Ask
  <1>4. QED
    BY <1>1, <1>2, <1>3 DEF AnyInv

LEMMA UnfinishedInv ==
    ASSUME AnyInv, NEW k \in Transfers, Unfinished(k)
    PROVE  AnyInv'
  <1>1. accepts' \in Numbers /\ accepts' <= issued + 1
    BY BoundsAssumption DEF AnyInv, TypeOK, Unfinished, Numbers
  <1>2. OpenStreamHasName'
    BY DEF AnyInv, OpenStreamHasName, Unfinished
  <1>3. QED
    BY <1>1, <1>2, AskInv DEF AnyInv, TypeOK, Unfinished

\* A command that records its number under its kind and launches.
LEMMA LaunchInv ==
    ASSUME AnyInv, NEW k \in Transfers, NEW x \in Numbers, NEW n \in {0, 1, 2},
           NEW a \in {0, issued + 1}, Ask(a), Command(n),
           \/ x = pending[k] /\ UNCHANGED pending /\ k = "RETR"
           \/ x # 0 /\ pending' = [pending EXCEPT ![k] = x],
           Launch(k, x)
    PROVE  AnyInv'
  <1>1. issued < MaxXfers
    BY DEF Ask
  <1>2. /\ accepts' \in Numbers /\ accepts' <= issued + 1
        /\ stream' \in [{"STOR", "RETR"} -> {"null", "open", "bad"}]
        /\ dsock' \in Numbers
        /\ ops' \in [Slots -> Op \cup {NoOp}]
    BY <1>1, LaunchType DEF AnyInv
  <1>3. pending' \in [Transfers -> Numbers]
    BY DEF AnyInv, TypeOK
  <1>4. OpenStreamHasName'
    <2> SUFFICES ASSUME NEW j \in {"STOR", "RETR"}, stream'[j] = "open"
                 PROVE  pending'[j] # 0
      BY DEF OpenStreamHasName
    <2>1. stream[j] = "open" \/ (j = k /\ x # 0)
      BY LaunchOpens DEF AnyInv
    <2>2. QED
      BY <2>1 DEF AnyInv, OpenStreamHasName, TypeOK, Transfers
  <1>5. QED
    BY <1>2, <1>3, <1>4, AskInv

LEMMA TransferCommandsInv ==
    ASSUME AnyInv, RunLIST \/ RunSTOR \/ RunRETR
    PROVE  AnyInv'
  <1>1. 0 \in Numbers /\ pending["RETR"] \in Numbers
    BY BoundsAssumption DEF AnyInv, TypeOK, Numbers, Transfers
  <1>n. ASSUME Ask(issued + 1)
        PROVE  issued + 1 \in Numbers /\ issued + 1 # 0
    BY <1>n, BoundsAssumption DEF AnyInv, TypeOK, Numbers, Ask
  <1>2. CASE RunLIST
    BY <1>n, <1>2, UnfinishedInv, LaunchInv DEF RunLIST, Transfers
  <1>3. CASE RunSTOR
    <2>1. ASSUME Ask(0), Command(1),
                 UNCHANGED <<accepts, pending, stream, dsock, ops>>
          PROVE  AnyInv'
      <3>1. accepts' <= issued + 1
        BY <2>1 DEF AnyInv, TypeOK, Numbers
      <3>2. OpenStreamHasName'
        BY <2>1 DEF AnyInv, OpenStreamHasName
      <3>3. QED
        BY <2>1, <3>1, <3>2, AskInv DEF AnyInv, TypeOK
    <2>2. ASSUME Ask(issued + 1), Command(0),
                 pending' = [pending EXCEPT !["STOR"] = issued + 1],
                 UNCHANGED <<accepts, stream, dsock, ops>>
          PROVE  AnyInv'
      <3>1. accepts' <= issued + 1 /\ pending' \in [Transfers -> Numbers]
        <4>1. accepts' <= issued + 1
          BY <2>2 DEF AnyInv, TypeOK, Numbers
        <4>2. pending' \in [Transfers -> Numbers]
          BY <1>n, <2>2 DEF AnyInv, TypeOK
        <4>3. QED
          BY <4>1, <4>2
      <3>2. OpenStreamHasName'
        BY <1>n, <2>2 DEF AnyInv, OpenStreamHasName, TypeOK, Transfers
      <3>3. QED
        BY <2>2, <3>1, <3>2, AskInv DEF AnyInv, TypeOK
    <2>3. ASSUME Ask(issued + 1), Command(1), Launch("STOR", issued + 1),
                 pending' = [pending EXCEPT !["STOR"] = issued + 1]
          PROVE  AnyInv'
      <3>1. issued + 1 \in Numbers /\ issued + 1 # 0
        BY <1>n, <2>3
      <3>2. QED
        BY <2>3, <3>1, LaunchInv DEF Transfers
    <2>4. QED
      BY <1>3, <2>1, <2>2, <2>3, UnfinishedInv DEF RunSTOR, Transfers
  <1>4. CASE RunRETR
    <2>1. ASSUME NEW n \in {0, 1, 2}, NEW a \in {0, issued + 1}, Ask(a), Command(n),
                 UNCHANGED pending, Launch("RETR", pending["RETR"])
          PROVE  AnyInv'
      BY <1>1, <2>1, LaunchInv DEF Transfers
    <2>2. ASSUME Ask(issued + 1), Command(1), Launch("RETR", issued + 1),
                 pending' = [pending EXCEPT !["RETR"] = issued + 1]
          PROVE  AnyInv'
      <3>1. issued + 1 \in Numbers /\ issued + 1 # 0
        BY <1>n, <2>2
      <3>2. QED
        BY <2>2, <3>1, LaunchInv DEF Transfers
    <2>3. QED
      BY <1>4, <2>1, <2>2 DEF RunRETR
  <1>5. QED
    BY <1>2, <1>3, <1>4

\* While the client is not logged in nothing is outstanding, so a handler of
\* the data channel only runs in a logged-in session.
LEMMA AcceptDoneInv ==
    ASSUME AnyInv, AcceptDone
    PROVE  AnyInv'
  <1>1. Head(backlog) \in Numbers /\ Tail(backlog) \in Seq(Numbers)
    <2>1. backlog \in Seq(Numbers) /\ backlog # <<>>
      BY DEF AnyInv, TypeOK, AcceptDone
    <2>2. Head(backlog) \in Numbers
      BY <2>1, HeadTailProperties
    <2>3. Tail(backlog) \in Seq(Numbers)
      BY <2>1, HeadTailProperties
    <2>4. QED
      BY <2>2, <2>3
  <1>2. accepts' \in Numbers /\ accepts' <= issued
    <2>1. accepts \in Numbers /\ accepts > 0 /\ accepts <= issued /\ issued \in Numbers
      BY DEF AnyInv, TypeOK, AcceptDone
    <2>2. accepts' = accepts - 1
      BY DEF AcceptDone
    <2>3. QED
      BY <2>1, <2>2, BoundsAssumption DEF Numbers
  <1>3. /\ stream' \in [{"STOR", "RETR"} -> {"null", "open", "bad"}]
        /\ dsock' \in Numbers
        /\ ops' \in [Slots -> Op \cup {NoOp}]
    <2>1. ASSUME NEW k \in Transfers, DataOperation(k, pending[k], Head(backlog))
          PROVE  <1>3!:
      <3>1. pending[k] \in Numbers
        BY DEF AnyInv, TypeOK
      <3>2. QED
        BY <1>1, <2>1, <3>1, DataOperationType DEF AnyInv
    <2>2. QED
      BY <1>1, <2>1 DEF AcceptDone, AnyInv, TypeOK
  <1>4. TypeOK'
    BY <1>1, <1>2, <1>3 DEF AnyInv, TypeOK, AcceptDone, login, control
  <1>5. NoDataBeforeLogin'
    BY DEF AnyInv, TypeOK, NoDataBeforeLogin, AcceptDone, login
  <1>6. OpenStreamHasName'
    <2> SUFFICES ASSUME NEW j \in {"STOR", "RETR"}, stream'[j] = "open"
                 PROVE  pending'[j] # 0
      BY DEF OpenStreamHasName
    <2>1. ASSUME NEW k \in Transfers, Chosen(k),
                 DataOperation(k, pending[k], Head(backlog))
          PROVE  stream[j] = "open" \/ pending[j] # 0
      <3>1. pending[k] \in Numbers /\ pending[k] # 0
        BY <2>1 DEF AnyInv, TypeOK, Chosen
      <3>2. QED
        BY <1>1, <2>1, <3>1, DataOperationOpens DEF AnyInv
    <2>2. QED
      BY <2>1 DEF AcceptDone, AnyInv, OpenStreamHasName
  <1>7. QED
    BY <1>2, <1>4, <1>5, <1>6 DEF AnyInv, AcceptDone

LEMMA DataHandlerInv ==
    ASSUME AnyInv, NEW s \in Slots, DataHandler(s)
    PROVE  AnyInv'
  <1>1. /\ 0 \in Numbers
        /\ pending["RETR"] \in Numbers /\ pending["STOR"] \in Numbers
    BY BoundsAssumption DEF AnyInv, TypeOK, Numbers, Transfers
  <1>2. /\ ops[s] # NoOp
        /\ UNCHANGED <<login, control, accepts, issued, connected, backlog>>
    BY DEF DataHandler, ListDone, ListError, RecvMore, RecvEnd, SendMore, SendEnd,
           NullStream, Completes
  <1>3. stage = "LOGGED_IN"
    BY <1>2 DEF AnyInv, NoDataBeforeLogin, Outstanding
  <1>4. ASSUME NEW k \in Transfers, Retire(s), Finish(k),
               \/ k = "LIST" /\ UNCHANGED stream
               \/ k # "LIST" /\ stream' = [stream EXCEPT ![k] = "null"]
        PROVE  TypeOK' /\ OpenStreamHasName'
    <2>1. TypeOK'
      BY <1>1, <1>2, <1>4
      DEF AnyInv, TypeOK, Retire, Finish, login, control, NoConn, Transfers
    <2>2. OpenStreamHasName'
      BY <1>4 DEF AnyInv, TypeOK, OpenStreamHasName, Finish, Transfers
    <2>3. QED
      BY <2>1, <2>2
  <1>5. ASSUME NEW kind \in {"STOR", "RETR", "EMPTY"}, Continue(s, kind)
        PROVE  TypeOK' /\ OpenStreamHasName'
    <2>1. ops' \in [Slots -> Op \cup {NoOp}]
      BY <1>1, <1>5 DEF AnyInv, TypeOK, Continue, Op, Transfers, NoConn
    <2>2. QED
      BY <1>2, <1>5, <2>1
      DEF AnyInv, TypeOK, OpenStreamHasName, Continue, login, control
  <1>6. ASSUME Retire(s), crashed' \in BOOLEAN,
               UNCHANGED <<pending, awaiting, stream, dsock>>
        PROVE  TypeOK' /\ OpenStreamHasName'
    BY <1>2, <1>6 DEF AnyInv, TypeOK, OpenStreamHasName, Retire, login, control
  <1>7. TypeOK' /\ OpenStreamHasName'
    <2>1. CASE ListDone(s)
      BY <2>1, <1>4 DEF ListDone, Transfers
    <2>2. CASE ListError(s)
      BY <2>2, <1>6 DEF ListError, AnyInv, TypeOK
    <2>3. CASE RecvMore(s)
      BY <2>3, <1>5 DEF RecvMore
    <2>4. CASE RecvEnd(s)
      BY <2>4, <1>4 DEF RecvEnd, Transfers
    <2>5. CASE SendMore(s)
      BY <2>5, <1>5 DEF SendMore
    <2>6. CASE SendEnd(s)
      BY <2>6, <1>4 DEF SendEnd, Transfers
    <2>7. CASE NullStream(s)
      BY <2>7, <1>6 DEF NullStream
    <2>8. QED
      BY <2>1, <2>2, <2>3, <2>4, <2>5, <2>6, <2>7 DEF DataHandler
  <1>8. QED
    BY <1>2, <1>3, <1>7 DEF AnyInv, NoDataBeforeLogin, login

LEMMA AnyInvNext == AnyInv /\ [Next]_vars => AnyInv'
  <1> SUFFICES ASSUME AnyInv, [Next]_vars PROVE AnyInv'
    OBVIOUS
  <1> USE DEF AnyInv, TypeOK, NoDataBeforeLogin, OpenStreamHasName, Outstanding,
              login, control, data, client
  <1>1. CASE USER
    BY <1>1, NoUserAssumption, BoundsAssumption DEF USER, Command
  <1>2. CASE PASS
    BY <1>2, BoundsAssumption DEF PASS, Command
  <1>3. CASE QUIT
    BY <1>3, BoundsAssumption DEF QUIT
  <1>4. CASE SIZE
    BY <1>4, BoundsAssumption DEF SIZE, Command
  <1>5. CASE ShortMessage
    BY <1>5, BoundsAssumption DEF ShortMessage, Command
  <1>6. CASE ControlLost
    BY <1>6 DEF ControlLost
  <1>7. CASE ReadFails
    BY <1>7, BoundsAssumption DEF ReadFails
  <1>8. CASE RunLIST \/ RunSTOR \/ RunRETR
    BY <1>8, TransferCommandsInv
  <1>9. CASE AcceptDone
    BY <1>9, AcceptDoneInv
  <1>10. CASE AcceptError
    BY <1>10, BoundsAssumption DEF AcceptError, Numbers
  <1>11. CASE \E s \in Slots : DataHandler(s)
    BY <1>11, DataHandlerInv
  <1>12. CASE \E k \in Numbers : Connect(k)
    BY <1>12 DEF Connect
  <1>13. CASE UNCHANGED vars
    BY <1>13 DEF vars
  <1>14. QED
    BY <1>1, <1>2, <1>3, <1>4, <1>5, <1>6, <1>7, <1>8, <1>9, <1>10, <1>11,
       <1>12, <1>13
    DEF Next

\* Whatever the client, the network and the disk do, the session's state stays
\* in its types, the data channel is untouched until the client has logged in,
\* and every open file stream has its name recorded.
THEOREM SessionInvariants == Spec => [](TypeOK /\ NoDataBeforeLogin /\ OpenStreamHasName)
  <1>1. Spec => []AnyInv
    BY AnyInvInit, AnyInvNext, PTL DEF Spec
  <1>2. AnyInv => TypeOK /\ NoDataBeforeLogin /\ OpenStreamHasName
    BY DEF AnyInv
  <1>3. QED
    BY <1>1, <1>2, PTL

-----------------------------------------------------------------------------
(* A client that waits for final replies: the four phases.                 *)

LEMMA LockStepInit == Init => LockStepInv
  BY DEF Init, LockStepInv, Idle, NoneOutstanding, NoStream, Queue, ReadsCommands

LEMMA NoneOutstandingMeans ==
    NoneOutstanding => \A s \in Slots : ops[s] = NoOp
  BY DEF NoneOutstanding

\* A transfer command finds the session idle, and leaves it waiting for the
\* data connection or, if the upload's parent is missing, failed.
LEMMA TransferCommandLockStep ==
    ASSUME LockStep, AnyInv, LockStepInv, RunLIST \/ RunSTOR \/ RunRETR
    PROVE  /\ LockStepInv' /\ Idle
           /\ issued < MaxXfers /\ issued' = issued + 1 /\ issued' > 0
           /\ stage = "LOGGED_IN" /\ UNCHANGED <<dsock, stage>>
           /\ Waiting' \/ (Failed' /\ "noparent" \in Unusual)
  <1>1. MaySend /\ issued \in Nat /\ accepts \in Nat
    BY BoundsAssumption
    DEF RunLIST, RunSTOR, RunRETR, Unfinished, Ask, AnyInv, TypeOK, Numbers
  <1>2. Idle
    BY <1>1 DEF LockStepInv, LockStep, MaySend, Waiting, Running, Failed
  <1>3. PICK k \in Transfers, n \in {0, 1} :
           /\ Ask(issued + 1)
           /\ Command(n)
           /\ pending' = [pending EXCEPT ![k] = issued + 1]
           /\ \/ n = 1 /\ Launch(k, issued + 1)
              \/ "noparent" \in Unusual /\ UNCHANGED <<accepts, stream, dsock, ops>>
    <2>1. CASE RunLIST
      BY <1>2, <2>1 DEF RunLIST, Unfinished, Idle, Transfers
    <2>2. CASE RunSTOR
      BY <1>2, <2>2 DEF RunSTOR, Unfinished, Idle, Transfers, LockStep
    <2>3. CASE RunRETR
      BY <1>2, <2>3 DEF RunRETR, Idle, Transfers, LockStep
    <2>4. QED
      BY <2>1, <2>2, <2>3
  <1>4. /\ issued' = issued + 1 /\ awaiting' = issued' /\ issued < MaxXfers
        /\ UNCHANGED <<connected, backlog, crashed>>
        /\ stage = "LOGGED_IN" /\ UNCHANGED stage
    BY <1>3 DEF Ask, login
  <1>5. Unusual = {} => ReadsCommands'
    BY <1>3 DEF Command, ReadsCommands, LockStepInv
  <1>6. CASE Launch(k, issued + 1)
    <2>1. accepts' = 1 /\ UNCHANGED <<stream, dsock, ops>>
      BY <1>2, <1>6 DEF Launch, Idle
    <2>2. pending' = [j \in Transfers |-> IF j = k THEN issued' ELSE 0]
      BY <1>2, <1>3, <1>4 DEF Idle
    <2>3. Waiting'
      BY <1>1, <1>2, <1>4, <2>1, <2>2
      DEF Idle, Waiting, PendingOnly, Queue, NoneOutstanding, NoStream, NoConn
    <2>4. QED
      BY <1>1, <1>2, <1>4, <1>5, <2>1, <2>3 DEF LockStepInv
  <1>7. CASE "noparent" \in Unusual /\ UNCHANGED <<accepts, stream, dsock, ops>>
    <2>1. Failed'
      BY <1>2, <1>4, <1>7 DEF Idle, Failed, NoneOutstanding
    <2>2. QED
      BY <1>1, <1>2, <1>4, <1>5, <1>7, <2>1 DEF LockStepInv
  <1>8. QED
    BY <1>3, <1>6, <1>7

\* The connection accepted is the one opened for the pending command; the
\* transfer runs on it, unless its file cannot be opened.
LEMMA AcceptDoneLockStep ==
    ASSUME LockStep, AnyInv, LockStepInv, AcceptDone
    PROVE  /\ LockStepInv' /\ Waiting /\ issued > 0
           /\ UNCHANGED <<issued, stage>>
           /\ Running' \/ (Failed' /\ dsock' = NoConn /\ IoErrors)
  <1>1. issued \in Nat
    BY BoundsAssumption DEF AnyInv, TypeOK, Numbers
  <1>2. Waiting /\ issued > 0
    BY DEF LockStepInv, AcceptDone, Idle, Running, Failed
  <1>3. PICK k \in Transfers : PendingOnly(k)
    BY <1>2 DEF Waiting
  <1>4. /\ connected = issued /\ Head(backlog) = issued
        /\ backlog' = <<>> /\ accepts' = 0
        /\ UNCHANGED <<control, pending, crashed, issued, awaiting, connected>>
    BY <1>1, <1>2 DEF Waiting, Queue, AcceptDone
  <1>5. DataOperation(k, issued, issued)
    <2>1. pending[k] = issued
      BY <1>3 DEF PendingOnly
    <2>2. ASSUME NEW j \in Transfers, Chosen(j) PROVE j = k
      BY <1>3, <2>2 DEF PendingOnly, Chosen
    <2>3. ~ \A j \in Transfers : pending[j] = 0
      BY <1>2, <2>1
    <2>4. QED
      BY <1>4, <2>1, <2>2, <2>3 DEF AcceptDone
  <1>6. PendingOnly(k)'
    BY <1>3, <1>4 DEF PendingOnly
  <1>7. ASSUME dsock' = issued, Issue(k, issued, issued),
               \/ k = "LIST" /\ UNCHANGED stream
               \/ k # "LIST" /\ stream' = [stream EXCEPT ![k] = "open"]
        PROVE  Running'
    <2>1. PICK s \in Slots :
             ops' = [ops EXCEPT ![s] = [kind |-> k, sock |-> issued, xfer |-> issued]]
      BY <1>7 DEF Issue
    <2>2. ops' = [t \in Slots |-> IF t = s
                    THEN [kind |-> k, sock |-> issued, xfer |-> issued] ELSE NoOp]
      BY <1>2, <2>1 DEF Waiting, NoneOutstanding
    <2>3. stream' = [j \in {"STOR", "RETR"} |-> IF j = k THEN "open" ELSE "null"]
      BY <1>2, <1>7 DEF Waiting, NoStream, Transfers
    <2>4. QED
      BY <1>2, <1>4, <1>6, <1>7, <2>2, <2>3 DEF Waiting, Running
  <1>8. ASSUME UNCHANGED ops PROVE Failed'
    BY <1>2, <1>4, <1>8 DEF Waiting, Failed, NoneOutstanding
  <1>9. Running' \/ (Failed' /\ dsock' = NoConn /\ IoErrors)
    BY <1>2, <1>5, <1>7, <1>8
    DEF DataOperation, DirectoryListing, DataReceiveFile, DataSendFile, Transfers
  <1>10. UNCHANGED stage
    BY DEF AcceptDone, login
  <1>11. QED
    BY <1>2, <1>4, <1>9, <1>10 DEF LockStepInv, control, ReadsCommands

\* The one outstanding operation continues, ends the transfer, or fails.
LEMMA DataHandlerLockStep ==
    ASSUME LockStep, AnyInv, LockStepInv, NEW s \in Slots, DataHandler(s)
    PROVE  /\ LockStepInv' /\ Running /\ issued > 0
           /\ UNCHANGED <<issued, stage>>
           /\ Idle' \/ Running' \/ (Failed' /\ UNCHANGED dsock /\ IoErrors)
  <1>1. /\ ops[s] # NoOp
        /\ UNCHANGED <<login, control, accepts, issued, connected, backlog>>
    BY DEF DataHandler, ListDone, ListError, RecvMore, RecvEnd, SendMore, SendEnd,
           NullStream, Completes
  <1>2. Running /\ issued > 0
    BY <1>1, NoneOutstandingMeans DEF LockStepInv, Idle, Waiting, Failed
  <1>3. PICK k \in Transfers, t \in Slots :
           /\ PendingOnly(k)
           /\ ops = [r \in Slots |-> IF r = t
                       THEN [kind |-> k, sock |-> issued, xfer |-> issued] ELSE NoOp]
           /\ stream = [j \in {"STOR", "RETR"} |-> IF j = k THEN "open" ELSE "null"]
    BY <1>2 DEF Running
  <1>4. s = t /\ ops[s] = [kind |-> k, sock |-> issued, xfer |-> issued]
    BY <1>1, <1>3
  <1>5. ops[s].kind = k
    BY <1>4
  <1>6. ASSUME Retire(s) PROVE NoneOutstanding'
    BY <1>3, <1>4, <1>6 DEF Retire, NoneOutstanding
  <1>7. ASSUME Retire(s), Finish(k), ~crashed,
               \/ k = "LIST" /\ UNCHANGED stream
               \/ k # "LIST" /\ stream' = [stream EXCEPT ![k] = "null"]
        PROVE  Idle' /\ ~crashed'
    <2>1. pending' = [j \in Transfers |-> 0]
      BY <1>3, <1>7 DEF Finish, PendingOnly
    <2>2. NoStream'
      BY <1>3, <1>7 DEF NoStream, Transfers
    <2>3. Queue(issued)'
      BY <1>1, <1>2, BoundsAssumption DEF Running, Queue, AnyInv, TypeOK, Numbers
    <2>4. QED
      BY <1>1, <1>2, <1>6, <1>7, <2>1, <2>2, <2>3 DEF Idle, Finish, Running
  <1>8. ASSUME Continue(s, k), ~crashed PROVE Running' /\ ~crashed'
    <2>1. k # "EMPTY" /\ pending[k] = issued /\ dsock = issued
      BY <1>2, <1>3 DEF PendingOnly, Running, Transfers
    <2>2. ops' = [ops EXCEPT ![s] = [kind |-> k, sock |-> issued, xfer |-> issued]]
      BY <1>8, <2>1 DEF Continue
    <2>3. ops' = ops
      <3>1. ops \in [Slots -> Op \cup {NoOp}]
        BY DEF AnyInv, TypeOK
      <3>2. ops' = [ops EXCEPT ![s] = ops[s]]
        BY <1>4, <2>2
      <3>3. QED
        BY <3>1, <3>2
    <2>4. UNCHANGED <<awaiting, accepts, dsock, connected, backlog, pending,
                      issued, ops, stream, crashed>>
      BY <1>1, <1>8, <2>3 DEF Continue
    <2>5. Running'
      BY <1>2, <2>4 DEF Running, PendingOnly
    <2>6. QED
      BY <1>8, <2>4, <2>5
  <1>9. ~crashed
    BY DEF LockStepInv
  <1>10. ~crashed' /\ (Idle' \/ Running' \/ (Failed' /\ UNCHANGED dsock /\ IoErrors))
    <2>1. CASE ListDone(s)
      BY <1>5, <1>7, <1>9, <2>1 DEF ListDone, Completes
    <2>2. CASE ListError(s)
      <3>1. ops[s].sock = dsock /\ dsock # NoConn
        BY <1>2, <1>4 DEF Running, NoConn
      <3>2. IoErrors
        BY <2>2, <3>1 DEF ListError, Aborted
      <3>3. QED
        BY <1>1, <1>2, <1>6, <1>9, <2>2, <3>2 DEF ListError, Failed, Running
    <2>3. CASE RecvMore(s)
      BY <1>5, <1>8, <1>9, <2>3 DEF RecvMore, Completes
    <2>4. CASE RecvEnd(s)
      BY <1>5, <1>7, <1>9, <2>4 DEF RecvEnd, Completes
    <2>5. CASE SendMore(s)
      <3>1. k = "RETR" /\ stream["RETR"] = "open"
        BY <1>3, <1>5, <2>5 DEF SendMore, Completes, Transfers
      <3>2. QED
        BY <1>8, <1>9, <2>5, <3>1 DEF SendMore
    <2>6. CASE SendEnd(s)
      <3>1. k = "RETR"
        BY <1>5, <2>6 DEF SendEnd, Completes, Transfers
      <3>2. QED
        BY <1>7, <1>9, <2>6, <3>1 DEF SendEnd
    <2>7. CASE NullStream(s)
      BY <1>3, <1>5, <2>7 DEF NullStream, Completes, Transfers
    <2>8. QED
      BY <2>1, <2>2, <2>3, <2>4, <2>5, <2>6, <2>7 DEF DataHandler
  <1>11. QED
    BY <1>1, <1>2, <1>10 DEF LockStepInv, login, control, ReadsCommands

LEMMA ConnectLockStep ==
    ASSUME LockStep, AnyInv, LockStepInv, NEW k \in Numbers, Connect(k)
    PROVE  LockStepInv'
  <1>1. issued \in Nat /\ connected \in Nat /\ k \in Nat
    BY BoundsAssumption DEF AnyInv, TypeOK, Numbers
  <1>2. /\ connected' = k /\ backlog' = Append(backlog, k)
        /\ UNCHANGED <<login, control, data, issued, awaiting>>
        /\ connected < k
    BY DEF Connect
  <1>3. CASE Idle
    <2>1. k = issued + 1 /\ connected <= issued /\ backlog = <<>>
      BY <1>1, <1>3 DEF Connect, Idle, Queue, LockStep
    <2>2. Queue(issued)'
      BY <1>2, <2>1 DEF Queue
    <2>3. QED
      BY <1>2, <1>3, <2>2
      DEF LockStepInv, Idle, NoneOutstanding, NoStream, data, control, ReadsCommands
  <1>4. CASE issued > 0 /\ Waiting
    <2>1. k = issued
      BY <1>4 DEF Connect, Waiting, MaySend, LockStep
    <2>2. backlog = <<>>
      BY <1>1, <1>2, <1>4, <2>1 DEF Waiting, Queue
    <2>3. Queue(issued - 1)'
      BY <1>1, <1>2, <2>1, <2>2 DEF Queue
    <2>4. QED
      BY <1>2, <1>4, <2>3
      DEF LockStepInv, Waiting, NoneOutstanding, NoStream, PendingOnly, data,
          control, ReadsCommands
  <1>5. CASE issued > 0 /\ Running
    BY <1>1, <1>2, <1>5 DEF Connect, Running, MaySend, LockStep
  <1>6. CASE issued > 0 /\ Failed
    BY <1>2, <1>6 DEF LockStepInv, Failed, NoneOutstanding, data, control, ReadsCommands
  <1>7. QED
    BY <1>3, <1>4, <1>5, <1>6 DEF LockStepInv

\* The steps that leave the data channel and the client's requests alone.
LEMMA FrameLockStep ==
    ASSUME LockStepInv, UNCHANGED <<data, client>>,
           Unusual = {} => ReadsCommands'
    PROVE  LockStepInv'
  BY DEF LockStepInv, Idle, Waiting, Running, Failed, NoneOutstanding, NoStream,
         PendingOnly, Queue, data, client

LEMMA LockStepNext ==
    ASSUME LockStep, AnyInv, LockStepInv, [Next]_vars
    PROVE  LockStepInv'
  <1>1. CASE USER \/ PASS \/ QUIT \/ SIZE \/ ShortMessage \/ ControlLost \/ ReadFails
    <2>1. UNCHANGED <<data, client>>
      BY <1>1 DEF USER, PASS, QUIT, SIZE, ShortMessage, ControlLost, ReadFails
    <2>2. Unusual = {} => ReadsCommands'
      BY <1>1 DEF USER, PASS, QUIT, SIZE, ShortMessage, ControlLost, ReadFails,
                  Command, LockStepInv, ReadsCommands
    <2>3. QED
      BY <2>1, <2>2, FrameLockStep
  <1>2. CASE RunLIST \/ RunSTOR \/ RunRETR
    BY <1>2, TransferCommandLockStep
  <1>3. CASE AcceptDone
    BY <1>3, AcceptDoneLockStep
  <1>4. CASE AcceptError
    <2>1. Waiting /\ issued > 0
      BY <1>4 DEF AcceptError, LockStepInv, Idle, Running, Failed
    <2>2. Failed'
      BY <1>4, <2>1 DEF AcceptError, Waiting, Failed, NoneOutstanding, client
    <2>3. QED
      BY <1>4, <2>1, <2>2
      DEF AcceptError, LockStepInv, control, client, ReadsCommands
  <1>5. CASE \E s \in Slots : DataHandler(s)
    BY <1>5, DataHandlerLockStep
  <1>6. CASE \E k \in Numbers : Connect(k)
    BY <1>6, ConnectLockStep
  <1>7. CASE UNCHANGED vars
    BY <1>7, FrameLockStep DEF vars, control, LockStepInv, ReadsCommands
  <1>8. QED
    BY <1>1, <1>2, <1>3, <1>4, <1>5, <1>6, <1>7 DEF Next

\* The four phases give every property of the waiting client.
LEMMA LockStepImplies ==
    ASSUME AnyInv, LockStepInv
    PROVE  /\ QuiescentBetweenTransfers /\ NoNullStream
           /\ OwnConnection /\ OneOperation
           /\ Unusual = {} => ReadsCommands
  <1>1. QuiescentBetweenTransfers
    BY DEF LockStepInv, QuiescentBetweenTransfers, Idle, Waiting, Running, Failed,
           Outstanding, NoneOutstanding, NoStream
  <1>2. \A s, t \in Outstanding : s = t /\ ops[s].sock = ops[s].xfer
    <2>1. CASE NoneOutstanding
      BY <2>1 DEF NoneOutstanding, Outstanding
    <2>2. CASE Running
      BY <2>2 DEF Running, Outstanding
    <2>3. QED
      BY <2>1, <2>2 DEF LockStepInv, Idle, Waiting, Failed
  <1>3. OwnConnection /\ OneOperation
    BY <1>2 DEF OwnConnection, OneOperation
  <1>4. QED
    BY <1>1, <1>3 DEF LockStepInv, NoNullStream

\* A client that waits for the final reply of each transfer, and asks for no
\* transfer the server refuses, gets each transfer on its own connection, one
\* at a time, leaving nothing behind, and never meets a reset file stream,
\* whatever fails; if it also sends no SIZE, short message or upload to a
\* missing directory, the session never stops reading its commands.
THEOREM WaitingClientIsServed ==
    LockStep => (Spec => []( /\ QuiescentBetweenTransfers
                             /\ NoNullStream
                             /\ OwnConnection
                             /\ OneOperation
                             /\ LockStepInv
                             /\ Unusual = {} => ReadsCommands ))
  <1> SUFFICES ASSUME LockStep
               PROVE  Spec => []( /\ QuiescentBetweenTransfers
                                  /\ NoNullStream
                                  /\ OwnConnection
                                  /\ OneOperation
                                  /\ LockStepInv
                                  /\ Unusual = {} => ReadsCommands )
    OBVIOUS
  <1>1. AnyInv /\ LockStepInv /\ [Next]_vars => (AnyInv /\ LockStepInv)'
    BY AnyInvNext, LockStepNext
  <1>2. Spec => [](AnyInv /\ LockStepInv)
    BY AnyInvInit, LockStepInit, <1>1, PTL DEF Spec
  <1>3. QED
    BY LockStepImplies, <1>2, PTL

\* Each phase is the phase of the same name that the service sees.
LEMMA PhaseIs ==
    issued \in Numbers =>
      /\ Idle => Phase = "idle" /\ dsock = 0
      /\ issued > 0 /\ Waiting => Phase = "waiting" /\ dsock = 0
      /\ issued > 0 /\ Running => Phase = "running" /\ dsock = issued
      /\ issued > 0 /\ Failed => Phase = "failed"
  <1> SUFFICES ASSUME issued \in Numbers
               PROVE  /\ Idle => Phase = "idle" /\ dsock = 0
                      /\ issued > 0 /\ Waiting => Phase = "waiting" /\ dsock = 0
                      /\ issued > 0 /\ Running => Phase = "running" /\ dsock = issued
                      /\ issued > 0 /\ Failed => Phase = "failed"
    OBVIOUS
  <1>1. NoneOutstanding => Outstanding = {}
    BY DEF NoneOutstanding, Outstanding
  <1>2. Running => Outstanding # {}
    <2> SUFFICES ASSUME Running PROVE Outstanding # {}
      OBVIOUS
    <2>1. PICK k \in Transfers, s \in Slots :
             ops = [t \in Slots |-> IF t = s
                      THEN [kind |-> k, sock |-> issued, xfer |-> issued] ELSE NoOp]
      BY DEF Running
    <2>2. [kind |-> k, sock |-> issued, xfer |-> issued] \in Op
      BY DEF Op
    <2>3. ops[s] # NoOp
      BY <2>1, <2>2, NoOpAssumption
    <2>4. QED
      BY <2>3 DEF Outstanding
  <1>3. QED
    BY <1>1, <1>2 DEF Phase, Idle, Waiting, Running, Failed, NoConn

\* Unless something fails the client is never left without an answer: if accepts,
\* files and data connections do not fail and no upload's parent is missing, the
\* awaited reply always has an outstanding operation that will send it.
AnsweringInv == Idle \/ (issued > 0 /\ (Waiting \/ Running))

LEMMA AnsweringNext ==
    ASSUME LockStep, ~IoErrors, "noparent" \notin Unusual,
           AnyInv, LockStepInv, AnsweringInv, [Next]_vars
    PROVE  AnsweringInv'
  <1>1. ASSUME UNCHANGED <<data, client>> PROVE AnsweringInv'
    BY <1>1 DEF AnsweringInv, Idle, Waiting, Running, NoneOutstanding, NoStream,
                PendingOnly, Queue, data, client
  <1>2. CASE USER \/ PASS \/ QUIT \/ SIZE \/ ShortMessage \/ ControlLost \/ ReadFails
    BY <1>1, <1>2 DEF USER, PASS, QUIT, SIZE, ShortMessage, ControlLost, ReadFails
  <1>3. CASE RunLIST \/ RunSTOR \/ RunRETR
    BY <1>3, TransferCommandLockStep DEF AnsweringInv
  <1>4. CASE AcceptDone
    BY <1>4, AcceptDoneLockStep DEF AnsweringInv
  <1>5. CASE AcceptError
    BY <1>5 DEF AcceptError
  <1>6. CASE \E s \in Slots : DataHandler(s)
    BY <1>6, DataHandlerLockStep DEF AnsweringInv
  <1>7. CASE \E k \in Numbers : Connect(k)
    <2>1. LockStepInv'
      BY <1>7, ConnectLockStep
    <2>2. ~(issued > 0 /\ Failed)'
      <3>1. UNCHANGED <<data, issued, awaiting>>
        BY <1>7 DEF Connect
      <3>2. ~(issued > 0 /\ Failed)
        <4>1. issued \in Numbers
          BY DEF AnyInv, TypeOK
        <4>2. QED
          BY <4>1, PhaseIs DEF AnsweringInv, Idle, Failed
      <3>3. QED
        BY <3>1, <3>2 DEF Failed, NoneOutstanding, data
    <2>3. QED
      BY <2>1, <2>2 DEF LockStepInv, AnsweringInv
  <1>8. CASE UNCHANGED vars
    BY <1>1, <1>8 DEF vars
  <1>9. QED
    BY <1>2, <1>3, <1>4, <1>5, <1>6, <1>7, <1>8 DEF Next

\* A waiting client of a session whose accepts, files and connections do not
\* fail always has an accept or an operation outstanding that can answer it.
THEOREM WaitingClientIsAnswered ==
    LockStep /\ ~IoErrors /\ "noparent" \notin Unusual => (Spec => []Answerable)
  <1> SUFFICES ASSUME LockStep, ~IoErrors, "noparent" \notin Unusual
               PROVE  Spec => []Answerable
    OBVIOUS
  <1> DEFINE Inv == AnyInv /\ LockStepInv /\ AnsweringInv
  <1>1. Init => Inv
    BY AnyInvInit, LockStepInit
    DEF Init, AnsweringInv, Idle, NoneOutstanding, NoStream, Queue
  <1>2. Inv /\ [Next]_vars => Inv'
    BY AnyInvNext, LockStepNext, AnsweringNext
  <1>3. Inv => Answerable
    <2> SUFFICES ASSUME Inv PROVE Answerable
      OBVIOUS
    <2>1. issued \in Numbers
      BY DEF AnyInv, TypeOK
    <2>2. CASE Idle
      BY <2>2 DEF Idle, Answerable
    <2>3. CASE issued > 0 /\ Waiting
      BY <2>3 DEF Waiting, Answerable
    <2>4. CASE issued > 0 /\ Running
      <3>1. Phase = "running"
        BY <2>1, <2>4, PhaseIs
      <3>2. QED
        BY <3>1 DEF Phase, Answerable
    <2>5. QED
      BY <2>2, <2>3, <2>4 DEF AnsweringInv
  <1>4. QED
    BY <1>1, <1>2, <1>3, PTL DEF Spec

-----------------------------------------------------------------------------
(* Refinement.                                                             *)

LEMMA ServiceInit == Init => Service!Init
  BY DEF Init, Service!Init, Phase, NoConn

\* Every step of the session is a step of the service or changes nothing of it.
LEMMA ServiceNext ==
    ASSUME LockStep, AnyInv, LockStepInv, [Next]_vars
    PROVE  [Service!Next]_Service!vars
  <1>1. issued \in Numbers /\ issued' \in Numbers
    BY AnyInvNext DEF AnyInv, TypeOK
  <1>2. /\ Idle' => Phase' = "idle" /\ dsock' = 0
        /\ issued' > 0 /\ Waiting' => Phase' = "waiting" /\ dsock' = 0
        /\ issued' > 0 /\ Running' => Phase' = "running" /\ dsock' = issued'
        /\ issued' > 0 /\ Failed' => Phase' = "failed"
    <2>1. (issued \in Numbers =>
             /\ Idle => Phase = "idle" /\ dsock = 0
             /\ issued > 0 /\ Waiting => Phase = "waiting" /\ dsock = 0
             /\ issued > 0 /\ Running => Phase = "running" /\ dsock = issued
             /\ issued > 0 /\ Failed => Phase = "failed")'
      BY PhaseIs, PTL
    <2>2. QED
      BY <1>1, <2>1
  <1>3. CASE USER \/ QUIT \/ SIZE \/ ShortMessage \/ ControlLost \/ ReadFails
    BY <1>3 DEF USER, QUIT, SIZE, ShortMessage, ControlLost, ReadFails, data, client,
                login, Service!vars, Phase, Outstanding
  <1>4. CASE PASS
    BY <1>4 DEF PASS, data, client, Service!Login, Service!Next, Phase, Outstanding
  <1>5. CASE RunLIST \/ RunSTOR \/ RunRETR
    <2>1. Service!Request
      BY <1>1, <1>2, <1>5, PhaseIs, TransferCommandLockStep DEF Service!Request
    <2>2. QED
      BY <2>1 DEF Service!Next
  <1>6. CASE AcceptDone
    <2>1. Service!Start \/ Service!Fail
      BY <1>1, <1>2, <1>6, PhaseIs, AcceptDoneLockStep
      DEF Service!Start, Service!Fail, NoConn
    <2>2. QED
      BY <2>1 DEF Service!Next
  <1>7. CASE AcceptError
    <2>1. Waiting /\ issued > 0
      BY <1>7 DEF AcceptError, LockStepInv, Idle, Running, Failed
    <2>2. Failed' /\ UNCHANGED <<stage, issued, dsock>>
      BY <1>7, <2>1 DEF AcceptError, Waiting, Failed, NoneOutstanding, client, login
    <2>3. Service!Fail
      BY <1>1, <1>2, <2>1, <2>2, PhaseIs DEF Service!Fail
    <2>4. QED
      BY <2>3 DEF Service!Next
  <1>8. CASE \E s \in Slots : DataHandler(s)
    <2>1. Service!Finish \/ Service!Fail \/ UNCHANGED Service!vars
      BY <1>1, <1>2, <1>8, PhaseIs, DataHandlerLockStep
      DEF Service!Finish, Service!Fail, Service!vars
    <2>2. QED
      BY <2>1 DEF Service!Next
  <1>9. CASE \E k \in Numbers : Connect(k)
    BY <1>9 DEF Connect, data, login, Service!vars, Phase, Outstanding
  <1>10. CASE UNCHANGED vars
    BY <1>10 DEF vars, data, login, client, Service!vars, Phase, Outstanding
  <1>11. QED
    BY <1>3, <1>4, <1>5, <1>6, <1>7, <1>8, <1>9, <1>10 DEF Next

\* For a client that waits for final replies, the session implements the
\* service: one transfer at a time, in order, each on its own connection, and
\* the connection given up with the final reply.
THEOREM SessionImplementsService == LockStep => (Spec => ImplementsService)
  <1> SUFFICES ASSUME LockStep PROVE Spec => ImplementsService
    OBVIOUS
  <1>1. AnyInv /\ LockStepInv /\ [Next]_vars => (AnyInv /\ LockStepInv)'
    BY AnyInvNext, LockStepNext
  <1>2. AnyInv /\ LockStepInv /\ [Next]_vars => [Service!Next]_Service!vars
    BY ServiceNext
  <1>3. QED
    BY AnyInvInit, LockStepInit, ServiceInit, <1>1, <1>2, PTL
    DEF Spec, ImplementsService, Service!Spec

=============================================================================
