------------------------ MODULE SecureSession_proofs ------------------------
(***************************************************************************)
(* Theorems about SecureSession, for every value of its constants.         *)
(***************************************************************************)
EXTENDS SecureSession, SequenceTheorems, TLAPS

-----------------------------------------------------------------------------
(* Type correctness, the start, and that one thing at a time is under way,  *)
(* for every client.                                                       *)

\* How far the client has been welcomed, and that AUTH is a message.
StartInv ==
    /\ phase = "waiting" => welcomes = 0 /\ tries = 0 /\ reads = 0
    /\ phase = "explicit" => welcomes = 1
    /\ phase = "handshake" => reads = 0 /\ welcomes = IF tries = 0 THEN 0 ELSE 1
    /\ phase = "secure" => welcomes = 1
    /\ welcomes <= 1
    /\ inbox = "AUTH" => phase = "explicit" /\ tries > 0

OneThing ==
    /\ \A o, q \in DataOps : o = q
    /\ accepts > 0 => DataOps = {}
    /\ awaiting = 0 => accepts = 0 /\ DataOps = {}

AnyInv == TypeOK /\ StartInv /\ OneThing

LEMMA ZeroIsNumber == 0 \in Numbers /\ NoConn \in Numbers
  BY BoundsAssumption DEF Numbers, NoConn

LEMMA AnyInit == Init => AnyInv
  <1> SUFFICES ASSUME Init PROVE AnyInv
    OBVIOUS
  <1>1. TypeOK
    <2>1. backlog \in Seq(Numbers)
      BY EmptySeq DEF Init
    <2>2. /\ pending \in [Transfers -> Numbers]
          /\ stream \in [{"STOR", "RETR"} -> {"null", "open", "bad"}]
          /\ gaveUp \in [xfer : Numbers, conn : Numbers]
      BY ZeroIsNumber DEF Init
    <2>3. welcomes \in 0..2 /\ tries \in 0..MaxTries /\ reads \in 0..1 /\ accepts \in 0..1
      BY BoundsAssumption DEF Init
    <2>4. QED
      BY <2>1, <2>2, <2>3, ZeroIsNumber DEF Init, TypeOK
  <1>2. StartInv
    BY DEF Init, StartInv
  <1>3. OneThing
    BY DEF Init, OneThing, DataOps
  <1>4. QED
    BY <1>1, <1>2, <1>3 DEF AnyInv

\* The steps of the start touch nothing of the data channel.
LEMMA StartSteps ==
    ASSUME AnyInv, \/ TimePasses \/ Poll \/ ProbeMessage \/ HandshakeDone \/ HandshakeFails
                   \/ ClientHello \/ ClientMessage
    PROVE  AnyInv' /\ UNCHANGED <<loggedIn, channel, client>>
  <1>1. UNCHANGED <<loggedIn, accepts, pending, stream, dsock, tls, ops,
                    issued, awaiting, connected, backlog, gaveUp>>
    BY DEF TimePasses, Poll, ProbeMessage, HandshakeDone, HandshakeFails, ClientHello,
           ClientMessage, control, channel, client
  <1>2. /\ phase' \in {"waiting", "explicit", "handshake", "secure", "failed"}
        /\ late' \in BOOLEAN
        /\ inbox' \in {"none", "AUTH", "other", "part", "hello"}
        /\ ctl' = ctl
    BY DEF AnyInv, TypeOK, TimePasses, Poll, ProbeMessage, HandshakeDone, HandshakeFails,
           ClientHello, ClientMessage, control
  <1>3. reads' \in 0..1 /\ welcomes' \in 0..2
    BY DEF AnyInv, TypeOK, StartInv, TimePasses, Poll, ProbeMessage, HandshakeDone,
           HandshakeFails, ClientHello, ClientMessage, control
  <1>4. tries' \in 0..MaxTries
    BY BoundsAssumption DEF AnyInv, TypeOK, TimePasses, Poll, ProbeMessage, HandshakeDone,
           HandshakeFails, ClientHello, ClientMessage
  <1>5. TypeOK'
    BY <1>1, <1>2, <1>3, <1>4 DEF AnyInv, TypeOK
  <1>6. StartInv'
    <2>1. tries \in Nat /\ welcomes \in Nat
      BY BoundsAssumption DEF AnyInv, TypeOK
    <2>2. CASE TimePasses \/ HandshakeFails \/ ClientHello
      BY <2>1, <2>2 DEF AnyInv, TypeOK, StartInv, TimePasses, HandshakeFails, ClientHello, control
    <2>3. CASE Poll
      BY <2>1, <2>3 DEF AnyInv, TypeOK, StartInv, Poll
    <2>4. CASE ProbeMessage
      BY <2>1, <2>4 DEF AnyInv, TypeOK, StartInv, ProbeMessage
    <2>5. CASE HandshakeDone
      BY <2>1, <2>5 DEF AnyInv, TypeOK, StartInv, HandshakeDone
    <2>6. CASE ClientMessage
      BY <2>1, <2>6 DEF AnyInv, TypeOK, StartInv, ClientMessage, control
    <2>7. QED
      BY <2>2, <2>3, <2>4, <2>5, <2>6
  <1>7. OneThing'
    BY <1>1 DEF AnyInv, OneThing, DataOps
  <1>8. QED
    BY <1>1, <1>5, <1>6, <1>7 DEF AnyInv, channel, client

\* The steps of the control channel that ask for no transfer.
LEMMA ControlSteps ==
    ASSUME AnyInv, Login \/ QUIT \/ ControlLost \/ ReadFails
    PROVE  AnyInv'
  <1>1. UNCHANGED <<start, channel, client>>
    BY DEF Login, QUIT, ControlLost, ReadFails
  <1>2. /\ ctl' \in {"open", "quit", "lost"} /\ loggedIn' \in BOOLEAN
        /\ reads' = reads \/ reads' = 0
    BY DEF AnyInv, TypeOK, Login, QUIT, ControlLost, ReadFails
  <1>3. reads' \in 0..1
    BY <1>2 DEF AnyInv, TypeOK
  <1>4. TypeOK'
    BY <1>1, <1>2, <1>3 DEF AnyInv, TypeOK, start, channel, client
  <1>5. StartInv'
    BY <1>1, <1>2 DEF AnyInv, StartInv, start
  <1>6. OneThing'
    BY <1>1 DEF AnyInv, OneThing, DataOps, channel, client
  <1>7. QED
    BY <1>4, <1>5, <1>6 DEF AnyInv

LEMMA NewOp ==
    ASSUME NEW kind \in Transfers \cup {"handshake", "shutdown"},
           NEW x \in Numbers, NEW conn \in Numbers
    PROVE  /\ New(kind, x, conn) \in Op
           /\ New(kind, x, conn).kind = kind
           /\ New(kind, x, conn).sock = conn /\ New(kind, x, conn).xfer = x
  BY DEF New, Op

\* What remains of the operations after one of them is done.
LEMMA DataCloseType ==
    ASSUME TypeOK, NEW done, NEW x \in Numbers, DataClose(done, x)
    PROVE  /\ dsock' = dsock /\ tls' \in {"closed", "new", "up", "closing"}
           /\ ops' \subseteq Op
           /\ \A o \in DataOps' : o \in DataOps /\ o \notin done
  <1>1. dsock \in Numbers
    BY DEF TypeOK
  <1>2. New("shutdown", x, dsock) \in Op /\ New("shutdown", x, dsock).kind = "shutdown"
    BY <1>1, NewOp
  <1>3. QED
    BY <1>2 DEF DataClose, TypeOK, DataOps

LEMMA DataOperationType ==
    ASSUME TypeOK, NEW k \in Transfers, NEW done, NEW t \in {"closed", "new", "up", "closing"},
           pending' \in [Transfers -> Numbers], DataOperation(k, done, t)
    PROVE  /\ stream' \in [{"STOR", "RETR"} -> {"null", "open", "bad"}]
           /\ dsock' \in Numbers /\ tls' \in {"closed", "new", "up", "closing"}
           /\ ops' \subseteq Op
           /\ \A o \in DataOps' : \/ o \in DataOps /\ o \notin done
                                  \/ o = New(k, pending'[k], dsock)
  <1> DEFINE Typed == /\ stream' \in [{"STOR", "RETR"} -> {"null", "open", "bad"}]
                      /\ dsock' \in Numbers /\ tls' \in {"closed", "new", "up", "closing"}
                      /\ ops' \subseteq Op
                      /\ \A o \in DataOps' : \/ o \in DataOps /\ o \notin done
                                             \/ o = New(k, pending'[k], dsock)
  <1>1. dsock \in Numbers /\ pending'[k] \in Numbers
    BY DEF TypeOK
  <1>2. New(k, pending'[k], dsock) \in Op
    BY <1>1, NewOp
  <1>3. ASSUME ops' = (ops \ done) \cup {New(k, pending'[k], dsock)},
               stream' = IF k = "LIST" THEN stream ELSE [stream EXCEPT ![k] = "open"],
               UNCHANGED dsock, tls' = t
        PROVE  Typed
    BY <1>1, <1>2, <1>3 DEF TypeOK, DataOps, Transfers
  <1>4. ASSUME k # "LIST", stream' = [stream EXCEPT ![k] = "bad"], DataClose(done, pending'[k])
        PROVE  Typed
    BY <1>1, <1>4, DataCloseType DEF TypeOK, Transfers
  <1> HIDE DEF Typed
  <1>5. Typed
    BY <1>3, <1>4 DEF DataOperation
  <1>6. QED
    BY <1>5 DEF Typed

\* What a client that asks for a transfer finds: nothing of another under way.
LEMMA AskFacts ==
    ASSUME AnyInv, Ask
    PROVE  /\ issued' = issued + 1 /\ awaiting' = issued + 1
           /\ issued + 1 \in Numbers /\ issued + 1 # 0
           /\ awaiting = 0 /\ accepts = 0 /\ DataOps = {}
           /\ UNCHANGED <<start, ctl, loggedIn, connected, backlog, gaveUp>>
  <1>1. issued \in Nat /\ issued < MaxXfers
    BY BoundsAssumption DEF AnyInv, TypeOK, Numbers, Ask
  <1>2. issued + 1 \in Numbers /\ issued + 1 # 0
    BY <1>1, BoundsAssumption DEF Numbers
  <1>3. QED
    BY <1>2 DEF Ask, MaySend, AnyInv, OneThing

LEMMA LaunchType ==
    ASSUME TypeOK, accepts = 0, DataOps = {}, NEW k \in Transfers,
           pending' \in [Transfers -> Numbers], Launch(k)
    PROVE  /\ accepts' \in 0..1
           /\ stream' \in [{"STOR", "RETR"} -> {"null", "open", "bad"}]
           /\ dsock' \in Numbers /\ tls' \in {"closed", "new", "up", "closing"}
           /\ ops' \subseteq Op
           /\ \A o, q \in DataOps' : o = q
           /\ accepts' > 0 => DataOps' = {}
  <1>1. CASE DataOperation(k, NoOp, tls) /\ UNCHANGED accepts
    BY <1>1, DataOperationType DEF TypeOK
  <1>2. CASE accepts' = accepts + 1 /\ UNCHANGED <<stream, dsock, tls, ops>>
    BY <1>2 DEF TypeOK, DataOps
  <1>3. QED
    BY <1>1, <1>2 DEF Launch

\* A transfer command begins an accept or an operation, whatever it finds.
LEMMA TransferSteps ==
    ASSUME AnyInv, \/ RunLISTorSTOR("LIST") \/ RunLISTorSTOR("STOR") \/ RunRETR
    PROVE  AnyInv'
  <1>1. /\ issued' = issued + 1 /\ awaiting' = issued + 1
        /\ issued + 1 \in Numbers /\ issued + 1 # 0
        /\ awaiting = 0 /\ accepts = 0 /\ DataOps = {}
        /\ UNCHANGED <<start, ctl, loggedIn, connected, backlog, gaveUp>>
    BY AskFacts DEF RunLISTorSTOR, RunRETR
  <1>2. \/ /\ pending' \in [Transfers -> Numbers]
           /\ \E k \in Transfers : Launch(k)
        \/ UNCHANGED channel
    <2>1. CASE RunRETR
      BY <2>1, <1>1 DEF RunRETR, AnyInv, TypeOK, Transfers
    <2>2. ASSUME NEW k \in {"LIST", "STOR"}, RunLISTorSTOR(k)
          PROVE  \/ /\ pending' \in [Transfers -> Numbers]
                    /\ Launch(k)
                 \/ UNCHANGED channel
      BY <2>2, <1>1 DEF RunLISTorSTOR, AnyInv, TypeOK, Transfers
    <2>3. "LIST" \in Transfers /\ "STOR" \in Transfers
      BY DEF Transfers
    <2>4. CASE RunLISTorSTOR("LIST") \/ RunLISTorSTOR("STOR")
      BY <2>2, <2>3, <2>4
    <2>5. QED
      BY <2>1, <2>4
  <1>3. /\ pending' \in [Transfers -> Numbers]
        /\ accepts' \in 0..1
        /\ stream' \in [{"STOR", "RETR"} -> {"null", "open", "bad"}]
        /\ dsock' \in Numbers /\ tls' \in {"closed", "new", "up", "closing"}
        /\ ops' \subseteq Op
        /\ \A o, q \in DataOps' : o = q
        /\ accepts' > 0 => DataOps' = {}
    <2>1. CASE UNCHANGED channel
      BY <1>1, <2>1 DEF AnyInv, OneThing, TypeOK, channel, DataOps
    <2>2. CASE pending' \in [Transfers -> Numbers] /\ \E k \in Transfers : Launch(k)
      BY <1>1, <2>2, LaunchType DEF AnyInv
    <2>3. QED
      BY <1>2, <2>1, <2>2
  <1>4. reads' \in 0..1
    BY DEF AnyInv, TypeOK, RunLISTorSTOR, RunRETR
  <1>5. TypeOK'
    BY <1>1, <1>3, <1>4 DEF AnyInv, TypeOK, start
  <1>6. StartInv'
    <2>1. phase = "secure"
      BY DEF RunLISTorSTOR, RunRETR, Ask, MaySend
    <2>2. QED
      BY <1>1, <2>1 DEF AnyInv, StartInv, start
  <1>7. OneThing'
    BY <1>1, <1>3 DEF OneThing
  <1>8. QED
    BY <1>5, <1>6, <1>7 DEF AnyInv

LEMMA AcceptSteps ==
    ASSUME AnyInv, AcceptDone \/ AcceptError
    PROVE  AnyInv'
  <1>1. UNCHANGED <<start, control, pending, stream, issued, awaiting, connected, gaveUp>>
    BY DEF AcceptDone, AcceptError, client
  <1>2. accepts = 1 /\ accepts' = 0 /\ DataOps = {} /\ awaiting # 0
    BY DEF AcceptDone, AcceptError, AnyInv, TypeOK, OneThing
  <1>3. CASE AcceptDone
    <2>1. Head(backlog) \in Numbers /\ Tail(backlog) \in Seq(Numbers)
      BY <1>3, HeadTailProperties DEF AcceptDone, AnyInv, TypeOK
    <2>2. /\ New("handshake", 0, Head(backlog)) \in Op
          /\ New("handshake", 0, Head(backlog)).kind = "handshake"
      BY <2>1, NewOp, ZeroIsNumber
    <2>3. TypeOK'
      BY <1>1, <1>2, <1>3, <2>1, <2>2 DEF AcceptDone, AnyInv, TypeOK, start, control
    <2>4. DataOps' = {New("handshake", 0, Head(backlog))}
      BY <1>2, <1>3, <2>2 DEF AcceptDone, DataOps
    <2>5. OneThing'
      BY <1>1, <1>2, <2>4 DEF OneThing
    <2>6. QED
      BY <1>1, <2>3, <2>5 DEF AnyInv, StartInv, start, control
  <1>4. CASE AcceptError
    BY <1>1, <1>2, <1>4 DEF AcceptError, AnyInv, TypeOK, StartInv, OneThing, DataOps,
                            start, control, client
  <1>5. QED
    BY <1>3, <1>4

\* The handlers of the data socket but for the closure's.
DataHandler(o) ==
    \/ DataHandshakeDone(o) \/ DataHandshakeError(o)
    \/ ListDone(o) \/ ListError(o) \/ FileEnd(o)

LEMMA HandlerKind ==
    ASSUME NEW o \in ops, DataHandler(o)
    PROVE  /\ o \in DataOps
           /\ UNCHANGED <<start, control, accepts, issued, connected, backlog, gaveUp>>
  BY DEF DataHandler, DataHandshakeDone, DataHandshakeError, ListDone, ListError, FileEnd,
         Handler, DataOps

LEMMA FinishType ==
    ASSUME TypeOK, NEW k \in Transfers, NEW o \in ops, Finish(k, o)
    PROVE  /\ pending' \in [Transfers -> Numbers] /\ awaiting' = 0
           /\ dsock' = dsock /\ tls' \in {"closed", "new", "up", "closing"}
           /\ ops' \subseteq Op
           /\ \A q \in DataOps' : q \in DataOps /\ q # o
  <1>1. o.xfer \in Numbers
    BY DEF TypeOK, Op
  <1>2. QED
    BY <1>1, DataCloseType, ZeroIsNumber DEF Finish, TypeOK

\* What a handler leaves of the data channel.
LEMMA HandlerType ==
    ASSUME TypeOK, NEW o \in ops, DataHandler(o)
    PROVE  /\ pending' \in [Transfers -> Numbers]
           /\ awaiting' = awaiting \/ (awaiting' = 0 /\ DataOps' \subseteq DataOps \ {o})
           /\ stream' \in [{"STOR", "RETR"} -> {"null", "open", "bad"}]
           /\ dsock' \in Numbers /\ tls' \in {"closed", "new", "up", "closing"}
           /\ ops' \subseteq Op
           /\ \E n : DataOps' \subseteq (DataOps \ {o}) \cup {n}
  <1> DEFINE Kept == /\ pending' \in [Transfers -> Numbers]
                     /\ awaiting' = awaiting \/ (awaiting' = 0 /\ DataOps' \subseteq DataOps \ {o})
                     /\ stream' \in [{"STOR", "RETR"} -> {"null", "open", "bad"}]
                     /\ dsock' \in Numbers /\ tls' \in {"closed", "new", "up", "closing"}
                     /\ ops' \subseteq Op
                     /\ \E n : DataOps' \subseteq (DataOps \ {o}) \cup {n}
  <1>1. ASSUME DataHandshakeDone(o)
        PROVE  Kept
    <2>1. pending' \in [Transfers -> Numbers] /\ awaiting' = awaiting
      BY <1>1 DEF DataHandshakeDone, TypeOK
    <2>2. PICK k \in Transfers : DataOperation(k, {o}, "up")
      BY <1>1 DEF DataHandshakeDone
    <2>3. /\ stream' \in [{"STOR", "RETR"} -> {"null", "open", "bad"}]
          /\ dsock' \in Numbers /\ tls' \in {"closed", "new", "up", "closing"}
          /\ ops' \subseteq Op
          /\ \A q \in DataOps' : \/ q \in DataOps /\ q \notin {o}
                                 \/ q = New(k, pending'[k], dsock)
      BY <2>1, <2>2, DataOperationType
    <2>4. DataOps' \subseteq (DataOps \ {o}) \cup {New(k, pending'[k], dsock)}
      BY <2>3
    <2>5. QED
      BY <2>1, <2>3, <2>4
  <1>2. ASSUME DataHandshakeError(o) \/ ListError(o)
        PROVE  Kept
    BY <1>2 DEF DataHandshakeError, ListError, TypeOK, DataOps
  <1>3. ASSUME ListDone(o)
        PROVE  Kept
    <2>1. "LIST" \in Transfers
      BY DEF Transfers
    <2>2. Finish("LIST", o) /\ stream' = stream
      BY <1>3 DEF ListDone
    <2>3. QED
      BY <2>1, <2>2, FinishType DEF TypeOK
  <1>4. ASSUME FileEnd(o)
        PROVE  Kept
    <2>1. PICK k \in {"STOR", "RETR"} :
             stream' = [stream EXCEPT ![k] = "null"] /\ Finish(k, o)
      BY <1>4 DEF FileEnd
    <2>2. stream' \in [{"STOR", "RETR"} -> {"null", "open", "bad"}]
      BY <2>1 DEF TypeOK
    <2>3. k \in Transfers
      BY DEF Transfers
    <2>4. QED
      BY <2>1, <2>2, <2>3, FinishType DEF TypeOK
  <1> HIDE DEF Kept
  <1>5. Kept
    BY <1>1, <1>2, <1>3, <1>4 DEF DataHandler
  <1>6. QED
    BY <1>5 DEF Kept

LEMMA HandlerSteps ==
    ASSUME AnyInv, NEW o \in ops, DataHandler(o)
    PROVE  AnyInv'
  <1>1. /\ o \in DataOps
        /\ UNCHANGED <<start, control, accepts, issued, connected, backlog, gaveUp>>
    BY HandlerKind
  <1>2. accepts = 0 /\ awaiting # 0 /\ DataOps \ {o} = {}
    BY <1>1 DEF AnyInv, OneThing, TypeOK
  <1>3. TypeOK'
    <2>1. awaiting' \in Numbers
      BY HandlerType, ZeroIsNumber DEF AnyInv, TypeOK
    <2>2. QED
      BY <1>1, <2>1, HandlerType DEF AnyInv, TypeOK, start, control
  <1>4. OneThing'
    BY <1>1, <1>2, HandlerType DEF AnyInv, OneThing
  <1>5. StartInv'
    BY <1>1 DEF AnyInv, StartInv, start, control
  <1>6. QED
    BY <1>3, <1>4, <1>5 DEF AnyInv

LEMMA ShutdownSteps ==
    ASSUME AnyInv, NEW o \in ops, ShutdownDone(o)
    PROVE  AnyInv'
  <1>1. UNCHANGED <<start, control, accepts, issued, connected, backlog, gaveUp,
                    pending, awaiting, stream>>
    BY DEF ShutdownDone, Handler
  <1>2. ops' \subseteq ops /\ dsock' \in Numbers /\ tls' = "closed"
    BY ZeroIsNumber DEF ShutdownDone
  <1>3. DataOps' = DataOps
    BY DEF ShutdownDone, Handler, DataOps
  <1>4. TypeOK'
    BY <1>1, <1>2 DEF AnyInv, TypeOK, start, control
  <1>5. QED
    BY <1>1, <1>3, <1>4 DEF AnyInv, OneThing, StartInv, start, control

\* The steps of the client alone.
LEMMA ClientSteps ==
    ASSUME AnyInv, GiveUp \/ \E k \in Numbers : Connect(k)
    PROVE  AnyInv'
  <1>1. UNCHANGED <<start, control, channel, issued>>
    BY DEF GiveUp, Connect
  <1>2. DataOps' = DataOps /\ accepts' = accepts
    BY <1>1 DEF channel, DataOps
  <1>3. CASE GiveUp
    <2>1. awaiting' \in Numbers /\ accepts = 0 /\ DataOps = {}
      BY <1>3, ZeroIsNumber DEF GiveUp, Failed
    <2>2. gaveUp' \in [xfer : Numbers, conn : Numbers]
      BY <1>3, ZeroIsNumber DEF GiveUp, AnyInv, TypeOK
    <2>3. TypeOK'
      BY <1>1, <1>3, <2>1, <2>2 DEF GiveUp, AnyInv, TypeOK, start, control, channel
    <2>4. QED
      BY <1>1, <1>2, <2>1, <2>3 DEF AnyInv, OneThing, StartInv, start, control
  <1>4. ASSUME NEW k \in Numbers, Connect(k)
        PROVE  AnyInv'
    <2>1. connected' \in Numbers /\ backlog' \in Seq(Numbers)
          /\ UNCHANGED <<awaiting, gaveUp>>
      BY <1>4, AppendProperties DEF Connect, AnyInv, TypeOK
    <2>2. TypeOK'
      BY <1>1, <2>1 DEF AnyInv, TypeOK, start, control, channel
    <2>3. QED
      BY <1>1, <1>2, <2>1, <2>2 DEF AnyInv, OneThing, StartInv, start, control
  <1>5. QED
    BY <1>3, <1>4

LEMMA AnyNext ==
    ASSUME AnyInv, [Next]_vars
    PROVE  AnyInv'
  <1>1. CASE UNCHANGED vars
    <2>1. UNCHANGED <<start, control, channel, client>>
      BY <1>1 DEF vars
    <2>2. QED
      BY <2>1 DEF AnyInv, TypeOK, StartInv, OneThing, DataOps, start, control, channel, client
  <1>2. CASE Next
    <2>1. ASSUME NEW o \in ops, DataHandler(o) \/ ShutdownDone(o)
          PROVE  AnyInv'
      BY <2>1, HandlerSteps, ShutdownSteps
    <2>2. QED
      BY <1>2, <2>1, StartSteps, ControlSteps, TransferSteps, AcceptSteps, ClientSteps
      DEF Next, DataHandler
  <1>3. QED
    BY <1>1, <1>2

\* Whatever the client does, fails or interrupts, it is welcomed once before its
\* first secure command, and never twice (wait_for_implicit, start_secure).
THEOREM WelcomedExactlyOnce == Spec => [](TypeOK /\ WelcomedOnce)
  <1>1. AnyInv => TypeOK /\ WelcomedOnce
    BY DEF AnyInv, StartInv, WelcomedOnce
  <1>2. QED
    BY <1>1, AnyInit, AnyNext, PTL DEF Spec

-----------------------------------------------------------------------------
(* A client that finishes every closure before its next command: until the  *)
(* first transfer it gives up, the session goes from idle through the        *)
(* accept and the handshake to the transfer, and back, or fails.            *)

Free == [k \in Transfers |-> 0]
Unused == [k \in {"STOR", "RETR"} |-> "null"]

\* Transfer k is the one that is pending.
Only(k) == pending = [Free EXCEPT ![k] = issued]

\* The client may be early by one data connection, in the backlog.
IdleState ==
    /\ awaiting = 0 /\ accepts = 0 /\ pending = Free /\ stream = Unused
    /\ \/ dsock = NoConn /\ tls = "closed" /\ ops = {}
       \/ /\ dsock # NoConn /\ tls = "closing"
          /\ \E x \in Numbers : ops = {New("shutdown", x, dsock)}
    /\ \/ connected = issued /\ backlog = <<>>
       \/ connected = issued + 1 /\ backlog = <<issued + 1>>

AcceptState ==
    /\ awaiting = issued /\ issued # 0 /\ accepts = 1
    /\ dsock = NoConn /\ tls = "closed" /\ ops = {} /\ stream = Unused
    /\ \E k \in Transfers : Only(k)
    /\ \/ connected < issued /\ backlog = <<>>
       \/ connected = issued /\ backlog = <<issued>>

HandshakeState ==
    /\ awaiting = issued /\ issued # 0 /\ accepts = 0
    /\ dsock = issued /\ tls = "new" /\ ops = {New("handshake", 0, issued)}
    /\ stream = Unused
    /\ \E k \in Transfers : Only(k)
    /\ connected = issued /\ backlog = <<>>

RunState ==
    /\ awaiting = issued /\ issued # 0 /\ accepts = 0
    /\ dsock = issued /\ tls = "up"
    /\ \E k \in Transfers :
          /\ Only(k) /\ ops = {New(k, issued, issued)}
          /\ stream = IF k = "LIST" THEN Unused ELSE [Unused EXCEPT ![k] = "open"]
    /\ connected = issued /\ backlog = <<>>

FailState ==
    /\ awaiting = issued /\ issued # 0 /\ accepts = 0 /\ DataOps = {}
    /\ tls = "up" => ops = {} /\ dsock = issued

InOrder == \/ IdleState \/ AcceptState \/ HandshakeState \/ RunState \/ FailState

PromptInv == AnyInv /\ (NothingGivenUp => InOrder)

\* What TransferService sees of each state.
Seen ==
    NothingGivenUp =>
        /\ IdleState => Phase = "idle" /\ Conn = 0
        /\ AcceptState => Phase = "waiting" /\ Conn = 0
        /\ HandshakeState => Phase = "waiting" /\ Conn = 0
        /\ RunState => Phase = "running" /\ Conn = issued
        /\ FailState => Phase = "failed" /\ Conn = IF tls = "up" THEN issued ELSE 0

LEMMA SeenNow == Seen
  <1> SUFFICES ASSUME NothingGivenUp
               PROVE  /\ IdleState => Phase = "idle" /\ Conn = 0
                      /\ AcceptState => Phase = "waiting" /\ Conn = 0
                      /\ HandshakeState => Phase = "waiting" /\ Conn = 0
                      /\ RunState => Phase = "running" /\ Conn = issued
                      /\ FailState => Phase = "failed" /\ Conn = IF tls = "up" THEN issued ELSE 0
    BY DEF Seen
  <1>1. IdleState => Phase = "idle" /\ Conn = 0
    BY DEF NothingGivenUp, IdleState, Phase, Conn, NoConn
  <1>2. AcceptState => Phase = "waiting" /\ Conn = 0
    BY DEF NothingGivenUp, AcceptState, Phase, Conn, NoConn, DataOps
  <1>3. ASSUME HandshakeState
        PROVE  Phase = "waiting" /\ Conn = 0
    <2>1. New("handshake", 0, issued) \in DataOps
      BY <1>3 DEF HandshakeState, DataOps, New
    <2>2. QED
      BY <1>3, <2>1 DEF NothingGivenUp, HandshakeState, Phase, Conn, NoConn
  <1>4. ASSUME RunState
        PROVE  Phase = "running" /\ Conn = issued
    <2>1. PICK k \in Transfers : ops = {New(k, issued, issued)}
      BY <1>4 DEF RunState
    <2>2. New(k, issued, issued) \in DataOps
      BY <2>1 DEF DataOps, New, Transfers
    <2>3. QED
      BY <1>4, <2>2 DEF NothingGivenUp, RunState, Phase, Conn
  <1>5. FailState => Phase = "failed" /\ Conn = IF tls = "up" THEN issued ELSE 0
    BY DEF NothingGivenUp, FailState, Phase, Conn, NoConn
  <1>6. QED
    BY <1>1, <1>2, <1>3, <1>4, <1>5

LEMMA SeenNext == Seen /\ Seen'
  BY SeenNow, PTL

\* The operations of a state name its handlers.
LEMMA HandlersOfState ==
    ASSUME NothingGivenUp, NEW o \in ops
    PROVE  /\ IdleState => o.kind = "shutdown"
           /\ ~AcceptState
           /\ HandshakeState => o = New("handshake", 0, issued) /\ o.kind = "handshake"
           /\ RunState => \E k \in Transfers : o = New(k, issued, issued) /\ o.kind = k
           /\ FailState => o.kind = "shutdown"
  <1>1. \A k, x, c : New(k, x, c).kind = k
    BY DEF New
  <1>2. QED
    BY <1>1 DEF IdleState, AcceptState, HandshakeState, RunState, FailState, DataOps

LEMMA Undisturbed ==
    ASSUME NothingGivenUp, InOrder, UNCHANGED <<channel, client>>
    PROVE  InOrder' /\ NothingGivenUp' /\ UNCHANGED <<Phase, Conn, gaveUp, issued>>
  <1>1. UNCHANGED <<accepts, pending, stream, dsock, tls, ops,
                    issued, awaiting, connected, backlog, gaveUp>>
    BY DEF channel, client
  <1>2. UNCHANGED DataOps
    BY <1>1 DEF DataOps
  <1>3. /\ IdleState => IdleState'
        /\ AcceptState => AcceptState'
        /\ HandshakeState => HandshakeState'
        /\ FailState => FailState'
    BY <1>1, <1>2 DEF IdleState, AcceptState, HandshakeState, FailState, Only
  <1>4. RunState => RunState'
    BY <1>1 DEF RunState, Only
  <1>5. UNCHANGED <<Phase, Conn>>
    BY <1>1, <1>2 DEF Phase, Conn
  <1>6. QED
    BY <1>1, <1>3, <1>4, <1>5 DEF InOrder, NothingGivenUp

\* A prompt client's command finds an idle session whose socket is closed.
LEMMA Requested ==
    ASSUME Prompt, AnyInv, NothingGivenUp, InOrder,
           \/ RunLISTorSTOR("LIST") \/ RunLISTorSTOR("STOR") \/ RunRETR
    PROVE  /\ IdleState /\ AcceptState'
           /\ loggedIn /\ issued < MaxXfers /\ issued' = issued + 1
           /\ UNCHANGED <<loggedIn, gaveUp>>
  <1>1. Ask
    BY DEF RunLISTorSTOR, RunRETR
  <1>2. /\ issued' = issued + 1 /\ awaiting' = issued + 1
        /\ issued + 1 \in Numbers /\ issued + 1 # 0
        /\ UNCHANGED <<start, ctl, loggedIn, connected, backlog, gaveUp>>
    BY <1>1, AskFacts
  <1>3. IdleState
    BY <1>1 DEF Ask, MaySend, InOrder, AcceptState, HandshakeState, RunState, FailState
  <1>4. dsock = NoConn /\ tls = "closed" /\ ops = {}
    <2>1. \A x \in Numbers : New("shutdown", x, dsock).kind = "shutdown"
      BY DEF New
    <2>2. QED
      BY <1>1, <1>3, <2>1 DEF Ask, MaySend, IdleState
  <1>5. \E k \in Transfers : pending' = [Free EXCEPT ![k] = issued + 1] /\ Launch(k)
    <2>1. /\ pending = Free /\ Free["LIST"] = 0 /\ Free["STOR"] = 0 /\ Free["RETR"] = 0
          /\ "LIST" \in Transfers /\ "STOR" \in Transfers /\ "RETR" \in Transfers
      BY <1>3 DEF IdleState, Free, Transfers
    <2>2. CASE RunRETR
      BY <2>1, <2>2 DEF RunRETR
    <2>3. CASE RunLISTorSTOR("LIST") \/ RunLISTorSTOR("STOR")
      BY <2>1, <2>3 DEF RunLISTorSTOR
    <2>4. QED
      BY <2>2, <2>3
  <1>6. accepts' = 1 /\ UNCHANGED <<stream, dsock, tls, ops>>
    BY <1>3, <1>4, <1>5 DEF Launch, IdleState
  <1>7. \/ connected' < issued' /\ backlog' = <<>>
        \/ connected' = issued' /\ backlog' = <<issued'>>
    BY <1>2, <1>3, BoundsAssumption DEF IdleState, AnyInv, TypeOK, Numbers
  <1>8. AcceptState'
    BY <1>2, <1>3, <1>4, <1>5, <1>6, <1>7 DEF AcceptState, IdleState, Only
  <1>9. QED
    BY <1>1, <1>2, <1>3, <1>8 DEF Ask

LEMMA Accepted ==
    ASSUME AnyInv, NothingGivenUp, InOrder, AcceptDone
    PROVE  /\ AcceptState /\ HandshakeState'
           /\ UNCHANGED <<loggedIn, issued, gaveUp>>
  <1>1. AcceptState
    BY DEF AcceptDone, InOrder, IdleState, HandshakeState, RunState, FailState
  <1>2. UNCHANGED <<start, control, pending, stream, issued, awaiting, connected, gaveUp>>
    BY DEF AcceptDone
  <1>3. backlog = <<issued>> /\ connected = issued
    BY <1>1 DEF AcceptDone, AcceptState
  <1>4. Head(backlog) = issued /\ Tail(backlog) = <<>>
    BY <1>3
  <1>5. /\ accepts' = 0 /\ backlog' = <<>> /\ dsock' = issued /\ tls' = "new"
        /\ ops' = {New("handshake", 0, issued)}
    BY <1>1, <1>4 DEF AcceptDone, AcceptState
  <1>6. HandshakeState'
    BY <1>1, <1>2, <1>3, <1>5 DEF AcceptState, HandshakeState, Only
  <1>7. QED
    BY <1>1, <1>2, <1>6 DEF control

LEMMA NotAccepted ==
    ASSUME AnyInv, NothingGivenUp, InOrder, AcceptError
    PROVE  /\ AcceptState /\ FailState' /\ tls' # "up"
           /\ UNCHANGED <<loggedIn, issued, gaveUp>>
  <1>1. AcceptState
    BY DEF AcceptError, InOrder, IdleState, HandshakeState, RunState, FailState
  <1>2. QED
    BY <1>1 DEF AcceptError, AcceptState, FailState, DataOps, control, client

\* With one transfer pending, it is the one that is chosen.
LEMMA ChosenIsPending ==
    ASSUME NEW j \in Transfers, NEW k \in Transfers, Only(j), Chosen(k)
    PROVE  k = j
  BY DEF Only, Chosen, Free

LEMMA HandshakeEnds ==
    ASSUME AnyInv, NothingGivenUp, InOrder, NEW o \in ops, DataHandshakeDone(o)
    PROVE  /\ HandshakeState
           /\ RunState' \/ (FailState' /\ tls' # "up")
           /\ UNCHANGED <<loggedIn, issued, gaveUp>>
  <1>1. o.kind = "handshake"
    BY DEF DataHandshakeDone, Handler
  <1>2. HandshakeState /\ ops = {o}
    BY <1>1, HandlersOfState DEF InOrder, Transfers, HandshakeState
  <1>3. UNCHANGED <<start, control, accepts, issued, connected, backlog, gaveUp, pending, awaiting>>
    BY DEF DataHandshakeDone, Handler
  <1>4. PICK k \in Transfers : Only(k) /\ DataOperation(k, {o}, "up")
    BY <1>2, ChosenIsPending DEF DataHandshakeDone, HandshakeState
  <1>5. pending'[k] = issued
    BY <1>3, <1>4 DEF Only, Free
  <1>6. ASSUME ops' = (ops \ {o}) \cup {New(k, pending'[k], dsock)},
               stream' = IF k = "LIST" THEN stream ELSE [stream EXCEPT ![k] = "open"],
               dsock' = dsock, tls' = "up"
        PROVE  RunState'
    <2>1. ops' = {New(k, issued, issued)} /\ stream = Unused /\ dsock = issued
      BY <1>2, <1>5, <1>6 DEF HandshakeState
    <2>2. QED
      BY <1>2, <1>3, <1>4, <1>6, <2>1 DEF HandshakeState, RunState, Only
  <1>7. ASSUME DataClose({o}, pending'[k])
        PROVE  FailState' /\ tls' # "up"
    <2>1. dsock # NoConn
      BY <1>2 DEF HandshakeState, NoConn
    <2>2. ops' = {New("shutdown", issued, dsock)} /\ tls' = "closing"
      BY <1>2, <1>5, <1>7, <2>1 DEF DataClose
    <2>3. DataOps' = {}
      BY <2>2 DEF DataOps, New
    <2>4. QED
      BY <1>2, <1>3, <2>2, <2>3 DEF HandshakeState, FailState
  <1>8. QED
    BY <1>2, <1>3, <1>4, <1>6, <1>7 DEF DataOperation, control

LEMMA HandshakeBreaks ==
    ASSUME AnyInv, NothingGivenUp, InOrder, NEW o \in ops, DataHandshakeError(o)
    PROVE  /\ HandshakeState /\ FailState' /\ tls' # "up"
           /\ UNCHANGED <<loggedIn, issued, gaveUp>>
  <1>1. o.kind = "handshake"
    BY DEF DataHandshakeError, Handler
  <1>2. HandshakeState /\ ops = {o}
    BY <1>1, HandlersOfState DEF InOrder, Transfers, HandshakeState
  <1>3. QED
    BY <1>2 DEF HandshakeState, FailState, DataHandshakeError, Handler, DataOps, control

\* A transfer ends and its closure begins: the session is idle but for that.
LEMMA Closing ==
    ASSUME AnyInv, RunState, NEW k \in Transfers, NEW o \in ops, o.xfer \in Numbers,
           Only(k), Finish(k, o), ops = {o},
           UNCHANGED <<accepts, issued, connected, backlog>>,
           stream' = Unused
    PROVE  IdleState'
  <1>1. dsock # NoConn
    BY DEF RunState, NoConn
  <1>2. dsock' = dsock /\ tls' = "closing" /\ ops' = {New("shutdown", o.xfer, dsock)}
    BY <1>1 DEF Finish, DataClose
  <1>3. pending' = Free
    BY DEF Finish, Only, Free
  <1>4. QED
    BY <1>1, <1>2, <1>3 DEF RunState, IdleState, Finish

LEMMA Finished ==
    ASSUME AnyInv, NothingGivenUp, InOrder, NEW o \in ops, ListDone(o) \/ FileEnd(o)
    PROVE  /\ RunState /\ IdleState'
           /\ UNCHANGED <<loggedIn, issued, gaveUp>>
  <1>1. o.kind \in Transfers
    BY DEF ListDone, FileEnd, Handler, Transfers
  <1>2. RunState
    BY <1>1, HandlersOfState DEF InOrder, Transfers
  <1>3. PICK k \in Transfers :
           /\ Only(k) /\ ops = {New(k, issued, issued)}
           /\ stream = IF k = "LIST" THEN Unused ELSE [Unused EXCEPT ![k] = "open"]
    BY <1>2 DEF RunState
  <1>4. o = New(k, issued, issued) /\ ops = {o} /\ o.kind = k /\ o.xfer \in Numbers
    BY <1>3 DEF New, AnyInv, TypeOK
  <1>5. UNCHANGED <<start, control, accepts, issued, connected, backlog, gaveUp>>
    BY DEF ListDone, FileEnd, Handler
  <1>6. Finish(k, o) /\ stream' = Unused
    <2>1. CASE ListDone(o)
      BY <1>3, <1>4, <2>1 DEF ListDone, Handler
    <2>2. CASE FileEnd(o)
      <3>1. k \in {"STOR", "RETR"} /\ stream' = [stream EXCEPT ![k] = "null"] /\ Finish(k, o)
        BY <1>4, <2>2 DEF FileEnd, Handler
      <3>2. QED
        BY <1>3, <3>1 DEF Unused
    <2>3. QED
      BY <2>1, <2>2
  <1>7. IdleState'
    BY <1>2, <1>3, <1>4, <1>5, <1>6, Closing
  <1>8. QED
    BY <1>2, <1>5, <1>7 DEF control

LEMMA ListBreaks ==
    ASSUME AnyInv, NothingGivenUp, InOrder, NEW o \in ops, ListError(o)
    PROVE  /\ RunState /\ FailState' /\ tls' = "up"
           /\ UNCHANGED <<loggedIn, issued, gaveUp>>
  <1>1. o.kind \in Transfers
    BY DEF ListError, Handler, Transfers
  <1>2. RunState /\ ops = {o}
    BY <1>1, HandlersOfState DEF InOrder, Transfers, RunState
  <1>3. QED
    BY <1>2 DEF RunState, FailState, ListError, Handler, DataOps, control

LEMMA Closed ==
    ASSUME AnyInv, NothingGivenUp, InOrder, NEW o \in ops, ShutdownDone(o)
    PROVE  /\ (IdleState /\ IdleState') \/ (FailState /\ tls # "up" /\ FailState' /\ tls' # "up")
           /\ UNCHANGED <<loggedIn, issued, gaveUp>>
  <1>1. o.kind = "shutdown"
    BY DEF ShutdownDone, Handler
  <1>2. IdleState \/ FailState
    BY <1>1, HandlersOfState DEF InOrder, Transfers
  <1>3. UNCHANGED <<start, control, accepts, issued, connected, backlog, gaveUp,
                    pending, awaiting, stream>>
    BY DEF ShutdownDone, Handler
  <1>4. dsock' = NoConn /\ tls' = "closed" /\ ops' = ops \ {o}
    BY DEF ShutdownDone
  <1>5. ASSUME IdleState
        PROVE  IdleState'
    <2>1. ops' = {}
      BY <1>4, <1>5 DEF IdleState
    <2>2. QED
      BY <1>3, <1>4, <1>5, <2>1 DEF IdleState
  <1>6. ASSUME FailState
        PROVE  FailState' /\ tls # "up"
    BY <1>3, <1>4, <1>6 DEF FailState, DataOps
  <1>7. QED
    BY <1>2, <1>3, <1>4, <1>5, <1>6 DEF control

\* The client is early by one connection at most.
LEMMA Connected ==
    ASSUME AnyInv, NothingGivenUp, InOrder, NEW k \in Numbers, Connect(k)
    PROVE  /\ InOrder' /\ NothingGivenUp'
           /\ UNCHANGED <<loggedIn, issued, gaveUp, Phase, Conn>>
  <1>1. UNCHANGED <<start, control, accepts, pending, stream, dsock, tls, ops,
                    issued, awaiting, gaveUp>>
    BY DEF Connect, channel
  <1>2. UNCHANGED DataOps
    BY <1>1 DEF DataOps
  <1>3. UNCHANGED <<Phase, Conn>>
    BY <1>1, <1>2 DEF Phase, Conn
  <1>4. /\ issued \in Nat /\ connected \in Nat /\ k \in Nat
        /\ connected < k /\ connected' = k /\ backlog' = Append(backlog, k)
        /\ (k = issued /\ awaiting = k) \/ (k = issued + 1 /\ awaiting = 0)
    BY DEF Connect, MaySend, AnyInv, TypeOK, Numbers
  <1>5. Append(<<>>, k) = <<k>>
    OBVIOUS
  <1>6. ASSUME IdleState
        PROVE  IdleState'
    <2>1. k = issued + 1 /\ connected = issued /\ backlog = <<>>
      BY <1>4, <1>6 DEF IdleState
    <2>2. connected' = issued' + 1 /\ backlog' = <<issued' + 1>>
      BY <1>1, <1>4, <1>5, <2>1
    <2>3. QED
      BY <1>1, <1>6, <2>2 DEF IdleState
  <1>7. ASSUME AcceptState
        PROVE  AcceptState'
    <2>1. k = issued /\ backlog = <<>>
      BY <1>4, <1>7 DEF AcceptState
    <2>2. connected' = issued' /\ backlog' = <<issued'>>
      BY <1>1, <1>4, <1>5, <2>1
    <2>3. QED
      BY <1>1, <1>7, <2>2 DEF AcceptState, Only
  <1>8. ~HandshakeState /\ ~RunState
    BY <1>4 DEF HandshakeState, RunState
  <1>9. FailState => FailState'
    BY <1>1, <1>2 DEF FailState
  <1>10. QED
    BY <1>1, <1>3, <1>6, <1>7, <1>8, <1>9 DEF InOrder, NothingGivenUp, control

LEMMA GivesUp ==
    ASSUME AnyInv, NothingGivenUp, InOrder, GiveUp
    PROVE  /\ gaveUp'.xfer = issued /\ issued # 0
           /\ UNCHANGED <<loggedIn, Phase, Conn>>
  <1>1. FailState
    <2>1. \A k \in Transfers \cup {"handshake"} : \A x, c : New(k, x, c).kind # "shutdown"
      BY DEF New, Transfers
    <2>2. awaiting # 0 /\ accepts = 0 /\ ops \cap {o \in ops : o.kind # "shutdown"} = {}
      BY DEF GiveUp, Failed, DataOps
    <2>3. ~RunState
      BY <2>1, <2>2 DEF RunState
    <2>4. ~HandshakeState
      BY <2>1, <2>2 DEF HandshakeState
    <2>5. QED
      BY <2>2, <2>3, <2>4 DEF InOrder, IdleState, AcceptState
  <1>2. gaveUp' = [xfer |-> issued, conn |-> IF tls = "up" THEN dsock ELSE NoConn]
    BY DEF GiveUp, NothingGivenUp
  <1>3. gaveUp'.xfer = issued /\ gaveUp'.conn = IF tls = "up" THEN dsock ELSE NoConn
    BY <1>2
  <1>4. Phase = "failed" /\ Conn = IF tls = "up" THEN issued ELSE 0
    BY <1>1, SeenNext DEF Seen
  <1>5. issued # 0 /\ (tls = "up" => dsock = issued)
    BY <1>1 DEF FailState
  <1>6. Phase' = "failed" /\ Conn' = Conn
    BY <1>3, <1>4, <1>5 DEF Phase, Conn, NoConn
  <1>7. QED
    BY <1>3, <1>4, <1>5, <1>6 DEF GiveUp, control

\* After the first transfer given up nothing is promised but that it is remembered.
LEMMA AfterGivingUp ==
    ASSUME ~NothingGivenUp, [Next]_vars
    PROVE  /\ ~NothingGivenUp' /\ gaveUp' = gaveUp
           /\ loggedIn' = loggedIn \/ loggedIn' = TRUE
  <1>1. ASSUME NEW o \in ops, DataHandler(o) \/ ShutdownDone(o)
        PROVE  gaveUp' = gaveUp /\ loggedIn' = loggedIn
    BY <1>1, HandlerKind DEF ShutdownDone, Handler, control
  <1>2. CASE TimePasses \/ Poll \/ ProbeMessage \/ HandshakeDone \/ HandshakeFails
             \/ ClientHello \/ ClientMessage \/ AcceptDone \/ AcceptError \/ UNCHANGED vars
    BY <1>2 DEF NothingGivenUp, TimePasses, Poll, ProbeMessage, HandshakeDone, HandshakeFails,
                ClientHello, ClientMessage, AcceptDone, AcceptError, control, client, vars
  <1>3. CASE Login \/ QUIT \/ ControlLost \/ ReadFails \/ GiveUp \/ \E k \in Numbers : Connect(k)
    BY <1>3 DEF NothingGivenUp, Login, QUIT, ControlLost, ReadFails, GiveUp, Connect, control, client
  <1>4. CASE RunLISTorSTOR("LIST") \/ RunLISTorSTOR("STOR") \/ RunRETR
    BY <1>4 DEF NothingGivenUp, RunLISTorSTOR, RunRETR, Ask
  <1>5. CASE \E o \in ops : DataHandler(o) \/ ShutdownDone(o)
    BY <1>1, <1>5 DEF NothingGivenUp
  <1>6. QED
    BY <1>2, <1>3, <1>4, <1>5 DEF Next, DataHandler

LEMMA PromptInit == Init => PromptInv /\ Service!Init
  <1> SUFFICES ASSUME Init PROVE PromptInv /\ Service!Init
    OBVIOUS
  <1>1. IdleState /\ gaveUp.xfer = 0
    BY DEF Init, IdleState, Free, Unused
  <1>2. NothingGivenUp
    BY <1>1 DEF NothingGivenUp
  <1>3. Phase = "idle" /\ Conn = 0
    BY <1>1, <1>2, SeenNow DEF Seen
  <1>4. QED
    BY <1>1, <1>3, AnyInit DEF Init, PromptInv, InOrder, Service!Init

\* Every step keeps the order of the states, and is a step of the service or none.
LEMMA PromptNext ==
    ASSUME Prompt, PromptInv, [Next]_vars
    PROVE  PromptInv' /\ [Service!Next]_Service!vars
  <1>1. AnyInv /\ AnyInv'
    BY AnyNext DEF PromptInv
  <1>2. CASE ~NothingGivenUp
    <2>1. /\ ~NothingGivenUp' /\ gaveUp' = gaveUp
          /\ loggedIn' = loggedIn \/ loggedIn' = TRUE
      BY <1>2, AfterGivingUp
    <2>2. Phase' = Phase /\ Conn' = Conn
      BY <1>2, <2>1 DEF Phase, Conn, NothingGivenUp
    <2>3. [Service!Next]_Service!vars
      BY <1>2, <2>1, <2>2 DEF NothingGivenUp, Service!Next, Service!Login, Service!vars
    <2>4. QED
      BY <1>1, <2>1, <2>3 DEF PromptInv
  <1>3. CASE NothingGivenUp
    <2> USE <1>1, <1>3
    <2>1. InOrder
      BY DEF PromptInv
    <2> USE <2>1
    <2> DEFINE Goal == (NothingGivenUp' => InOrder') /\ [Service!Next]_Service!vars
    <2>2. ASSUME InOrder', NothingGivenUp', UNCHANGED <<Phase, Conn, gaveUp, issued>>,
                 loggedIn' = loggedIn \/ loggedIn' = TRUE
          PROVE  Goal
      BY <2>2 DEF NothingGivenUp, Service!Next, Service!Login, Service!vars
    <2>3. ASSUME \/ TimePasses \/ Poll \/ ProbeMessage \/ HandshakeDone \/ HandshakeFails
                 \/ ClientHello \/ ClientMessage
          PROVE  Goal
      BY <2>2, <2>3, StartSteps, Undisturbed
    <2>4. ASSUME Login \/ QUIT \/ ControlLost \/ ReadFails \/ UNCHANGED vars
          PROVE  Goal
      <3>1. UNCHANGED <<channel, client>> /\ (loggedIn' = loggedIn \/ loggedIn' = TRUE)
        BY <2>4 DEF Login, QUIT, ControlLost, ReadFails, vars, control
      <3>2. QED
        BY <2>2, <3>1, Undisturbed
    <2>5. ASSUME RunLISTorSTOR("LIST") \/ RunLISTorSTOR("STOR") \/ RunRETR
          PROVE  Goal
      <3>1. /\ IdleState /\ AcceptState'
            /\ loggedIn /\ issued < MaxXfers /\ issued' = issued + 1
            /\ UNCHANGED <<loggedIn, gaveUp>>
        BY <2>5, Requested DEF PromptInv
      <3>2. /\ Phase = "idle" /\ Conn = 0 /\ NothingGivenUp'
            /\ Phase' = "waiting" /\ Conn' = 0
        BY <3>1, SeenNext DEF Seen, NothingGivenUp
      <3>3. Service!Request
        BY <3>1, <3>2 DEF NothingGivenUp, Service!Request
      <3>4. QED
        BY <3>1, <3>3 DEF InOrder, Service!Next
    <2>6. ASSUME AcceptDone
          PROVE  Goal
      <3>1. AcceptState /\ HandshakeState' /\ UNCHANGED <<loggedIn, issued, gaveUp>>
        BY <2>6, Accepted
      <3>2. NothingGivenUp' /\ UNCHANGED <<Phase, Conn>>
        BY <3>1, SeenNext DEF Seen, NothingGivenUp
      <3>3. QED
        BY <2>2, <3>1, <3>2 DEF InOrder
    <2>7. ASSUME /\ AcceptState \/ HandshakeState
                 /\ FailState' /\ tls' # "up" /\ UNCHANGED <<loggedIn, issued, gaveUp>>
          PROVE  Goal
      <3>1. /\ Phase = "waiting" /\ Conn = 0 /\ NothingGivenUp'
            /\ Phase' = "failed" /\ Conn' = 0
        BY <2>7, SeenNext DEF Seen, NothingGivenUp
      <3>2. Service!Fail
        BY <2>7, <3>1 DEF NothingGivenUp, Service!Fail
      <3>3. QED
        BY <2>7, <3>2 DEF InOrder, Service!Next
    <2>8. ASSUME AcceptError
          PROVE  Goal
      BY <2>7, <2>8, NotAccepted
    <2>9. ASSUME NEW o \in ops, DataHandshakeDone(o)
          PROVE  Goal
      <3>1. /\ HandshakeState
            /\ RunState' \/ (FailState' /\ tls' # "up")
            /\ UNCHANGED <<loggedIn, issued, gaveUp>>
        BY <2>9, HandshakeEnds
      <3>2. ASSUME RunState'
            PROVE  Goal
        <4>1. /\ Phase = "waiting" /\ Conn = 0 /\ NothingGivenUp'
              /\ Phase' = "running" /\ Conn' = issued
          BY <3>1, <3>2, SeenNext DEF Seen, NothingGivenUp
        <4>2. Service!Start
          BY <3>1, <4>1 DEF NothingGivenUp, Service!Start
        <4>3. QED
          BY <3>2, <4>2 DEF InOrder, Service!Next
      <3>3. QED
        BY <2>7, <3>1, <3>2
    <2>10. ASSUME NEW o \in ops, DataHandshakeError(o)
           PROVE  Goal
      BY <2>7, <2>10, HandshakeBreaks
    <2>11. ASSUME NEW o \in ops, ListDone(o) \/ FileEnd(o)
           PROVE  Goal
      <3>1. RunState /\ IdleState' /\ UNCHANGED <<loggedIn, issued, gaveUp>>
        BY <2>11, Finished
      <3>2. Phase = "running" /\ NothingGivenUp' /\ Phase' = "idle" /\ Conn' = 0
        BY <3>1, SeenNext DEF Seen, NothingGivenUp
      <3>3. Service!Finish
        BY <3>1, <3>2 DEF NothingGivenUp, Service!Finish
      <3>4. QED
        BY <3>1, <3>3 DEF InOrder, Service!Next
    <2>12. ASSUME NEW o \in ops, ListError(o)
           PROVE  Goal
      <3>1. RunState /\ FailState' /\ tls' = "up" /\ UNCHANGED <<loggedIn, issued, gaveUp>>
        BY <2>12, ListBreaks
      <3>2. /\ Phase = "running" /\ Conn = issued /\ NothingGivenUp'
            /\ Phase' = "failed" /\ Conn' = issued
        BY <3>1, SeenNext DEF Seen, NothingGivenUp
      <3>3. Service!Fail
        BY <3>1, <3>2 DEF NothingGivenUp, Service!Fail
      <3>4. QED
        BY <3>1, <3>3 DEF InOrder, Service!Next
    <2>13. ASSUME NEW o \in ops, ShutdownDone(o)
           PROVE  Goal
      <3>1. /\ (IdleState /\ IdleState') \/ (FailState /\ tls # "up" /\ FailState' /\ tls' # "up")
            /\ UNCHANGED <<loggedIn, issued, gaveUp>>
        BY <2>13, Closed
      <3>2. NothingGivenUp' /\ UNCHANGED <<Phase, Conn>>
        BY <3>1, SeenNext DEF Seen, NothingGivenUp
      <3>3. QED
        BY <2>2, <3>1, <3>2 DEF InOrder
    <2>14. ASSUME NEW k \in Numbers, Connect(k)
           PROVE  Goal
      BY <2>2, <2>14, Connected
    <2>15. ASSUME GiveUp
           PROVE  Goal
      <3>1. /\ gaveUp'.xfer = issued /\ issued # 0
            /\ UNCHANGED <<loggedIn, Phase, Conn>>
        BY <2>15, GivesUp
      <3>2. QED
        BY <3>1 DEF NothingGivenUp, Service!vars
    <2> HIDE DEF Goal
    <2>16. Goal
      BY <2>3, <2>4, <2>5, <2>6, <2>8, <2>9, <2>10, <2>11, <2>12, <2>13, <2>14, <2>15 DEF Next
    <2>17. QED
      BY <2>16 DEF Goal, PromptInv
  <1>4. QED
    BY <1>2, <1>3

LEMMA PromptSafe ==
    ASSUME PromptInv
    PROVE  EncryptedTransfer /\ OwnConnection /\ QuiescentBetweenTransfers
  <1> SUFFICES ASSUME NothingGivenUp
               PROVE  EncryptedTransfer /\ OwnConnection /\ QuiescentBetweenTransfers
    BY DEF EncryptedTransfer, OwnConnection, QuiescentBetweenTransfers
  <1>1. InOrder
    BY DEF PromptInv
  <1>2. ASSUME NEW o \in DataOps, o.kind \in Transfers
        PROVE  tls = "up" /\ o.sock = o.xfer
    <2>1. o \in ops
      BY DEF DataOps
    <2>2. RunState
      BY <1>1, <1>2, <2>1, HandlersOfState DEF InOrder, Transfers
    <2>3. PICK k \in Transfers : o = New(k, issued, issued)
      BY <2>1, <2>2, HandlersOfState
    <2>4. QED
      BY <2>2, <2>3 DEF RunState, New
  <1>3. ASSUME awaiting = 0, \A o \in ops : o.kind # "shutdown"
        PROVE  /\ accepts = 0 /\ dsock = NoConn /\ ops = {}
               /\ pending = Free /\ stream = Unused
    <2>1. IdleState
      BY <1>1, <1>3 DEF InOrder, AcceptState, HandshakeState, RunState, FailState
    <2>2. \A x \in Numbers : New("shutdown", x, dsock).kind = "shutdown"
      BY DEF New
    <2>3. QED
      BY <1>3, <2>1, <2>2 DEF IdleState
  <1>4. EncryptedTransfer /\ OwnConnection
    BY <1>2 DEF EncryptedTransfer, OwnConnection
  <1>5. QuiescentBetweenTransfers
    BY <1>3 DEF QuiescentBetweenTransfers, Free, Unused
  <1>6. QED
    BY <1>4, <1>5

\* For a client that finishes every closure first, and until the first transfer
\* it gives up: no file or listing byte passes on a connection without a
\* finished handshake, every transfer is on the connection opened for it, and
\* nothing of one is left when the next may begin (run_LIST, run_STOR, run_RETR).
THEOREM PromptClientIsServed ==
    Prompt => (Spec => [](EncryptedTransfer /\ OwnConnection /\ QuiescentBetweenTransfers))
  <1> SUFFICES ASSUME Prompt
               PROVE  Spec => [](EncryptedTransfer /\ OwnConnection /\ QuiescentBetweenTransfers)
    OBVIOUS
  <1>1. Init => PromptInv
    BY PromptInit
  <1>2. PromptInv /\ [Next]_vars => PromptInv'
    BY PromptNext
  <1>3. QED
    BY <1>1, <1>2, PromptSafe, PTL DEF Spec

\* For the same client the secure session keeps the promise of the plain one:
\* transfers one at a time, in order, until the first that fails.
THEOREM SecureSessionImplementsService == Prompt => (Spec => ImplementsService)
  <1> SUFFICES ASSUME Prompt PROVE Spec => ImplementsService
    OBVIOUS
  <1>1. Init => PromptInv /\ Service!Init
    BY PromptInit
  <1>2. PromptInv /\ [Next]_vars => PromptInv' /\ [Service!Next]_Service!vars
    BY PromptNext
  <1>3. QED
    BY <1>1, <1>2, PTL DEF Spec, ImplementsService, Service!Spec

=============================================================================
