---------------------------- MODULE SecureSession ----------------------------
(***************************************************************************)
(* One FTPS session: base_session with secure_session.cpp.                 *)
(*                                                                         *)
(* The start of the session is new: for a while it waits for a client that *)
(* begins TLS by itself (implicit), then greets in plain text and waits    *)
(* for AUTH (explicit).  In the data channel every accepted connection has *)
(* a TLS handshake before its transfer, and data_close is asynchronous:    *)
(* m_data_socket stays open until the peer has answered the closure.       *)
(*                                                                         *)
(* The client waits for the reply to what it sends, as in the lock-step    *)
(* runs of FtpSession, and sends only transfers that are not refused: the  *)
(* dispatch of commands is that of FtpSession.  It may give up a transfer  *)
(* that has failed and go on with the next.                                *)
(***************************************************************************)
EXTENDS Integers, Sequences

CONSTANTS
    MaxXfers,   \* transfer commands the client sends (a bound)
    MaxTries,   \* messages an explicit client sends before its handshake (a bound)
    Prompt,     \* does the client finish the closure before its next command?
    IoErrors    \* may handshakes, accepts, files and connections fail?

ASSUME BoundsAssumption == MaxXfers \in Nat /\ MaxTries \in Nat
ASSUME ClientAssumption == Prompt \in BOOLEAN /\ IoErrors \in BOOLEAN

VARIABLES
    phase,      \* waiting, explicit, handshake, secure; or failed
    late,       \* has m_stopwatch passed IMPLICIT_TIMEOUT_MS?
    inbox,      \* what the client has sent on the control socket, unread
    welcomes,   \* how often FTP_WELCOMEMESSAGE was sent
    ctl,        \* the control socket: open, closed by QUIT, or lost
    reads,      \* outstanding reads of the control socket
    loggedIn,   \* m_connection_stage
    accepts,    \* outstanding async_accept on m_data_socket_acceptor
    pending,    \* m_pending_directory_list, m_pending_write_file and
                \* m_sendable_file_id: 0, or the number of the command
    stream,     \* m_receive_file_stream and m_send_file_stream
    dsock,      \* m_data_socket: 0 when closed, otherwise its connection
    tls,        \* its TLS layer: closed, new (no handshake yet), up, closing
    ops,        \* outstanding operations on the data socket
    tries,      \* client: messages sent before the handshake
    issued,     \* client: number of the last transfer command
    awaiting,   \* client: the command it awaits the final reply of, or 0
    connected,  \* client: last command it opened a data connection for
    backlog,    \* connections the kernel holds for the data acceptor
    gaveUp      \* auxiliary: the first transfer given up and its connection

start == <<phase, late, inbox, welcomes, tries>>
control == <<ctl, reads, loggedIn>>
channel == <<accepts, pending, stream, dsock, tls, ops>>
client == <<issued, awaiting, connected, backlog, gaveUp>>
vars == <<start, control, channel, client>>

Transfers == {"LIST", "STOR", "RETR"}
Numbers == 0..MaxXfers
NoConn == 0

\* An operation names its connection and the transfer it belongs to.
Op == [kind : Transfers \cup {"handshake", "shutdown"}, sock : Numbers, xfer : Numbers]

TypeOK ==
    /\ phase \in {"waiting", "explicit", "handshake", "secure", "failed"}
    /\ late \in BOOLEAN /\ loggedIn \in BOOLEAN
    /\ inbox \in {"none", "AUTH", "other", "part", "hello"}
    /\ welcomes \in 0..2 /\ tries \in 0..MaxTries
    /\ ctl \in {"open", "quit", "lost"} /\ reads \in 0..1
    /\ accepts \in 0..1
    /\ pending \in [Transfers -> Numbers]
    /\ stream \in [{"STOR", "RETR"} -> {"null", "open", "bad"}]
    /\ dsock \in Numbers /\ tls \in {"closed", "new", "up", "closing"}
    /\ ops \subseteq Op
    /\ issued \in Numbers /\ awaiting \in Numbers /\ connected \in Numbers
    /\ backlog \in Seq(Numbers)
    /\ gaveUp \in [xfer : Numbers, conn : Numbers]

Init ==
    /\ phase = "waiting" /\ late = FALSE /\ inbox = "none"
    /\ welcomes = 0 /\ tries = 0
    /\ ctl = "open" /\ reads = 0 /\ loggedIn = FALSE
    /\ accepts = 0 /\ pending = [k \in Transfers |-> 0]
    /\ stream = [k \in {"STOR", "RETR"} |-> "null"]
    /\ dsock = NoConn /\ tls = "closed" /\ ops = {}
    /\ issued = 0 /\ awaiting = 0 /\ connected = 0 /\ backlog = <<>>
    /\ gaveUp = [xfer |-> 0, conn |-> NoConn]

\* The timer, the outstanding reads, handshakes, accepts and operations hold
\* the shared_ptrs that keep the session.
Alive == phase \in {"waiting", "handshake"} \/ reads > 0 \/ accepts > 0 \/ ops # {}

-----------------------------------------------------------------------------
(* The start: wait_for_implicit, handle_auth and start_secure.             *)

TimePasses ==
    /\ phase = "waiting"
    /\ late' = TRUE
    /\ UNCHANGED <<phase, inbox, welcomes, tries, control, channel, client>>

\* Mutant: only the hello is looked for, never the time.
PollForImplicit ==
    /\ phase = "waiting" /\ inbox = "hello"
    /\ phase' = "handshake"
    /\ UNCHANGED <<late, inbox, welcomes, tries, control, channel, client>>

\* wait_for_implicit: the time comes first, even if a hello has arrived.  With
\* neither, the timer is armed again and nothing changes.
Poll ==
    /\ phase = "waiting"
    /\ \/ /\ late
          /\ phase' = "explicit"
          /\ welcomes' = welcomes + 1
          /\ reads' = reads + 1
       \/ /\ ~late /\ inbox = "hello"             \* more than 100 bytes
          /\ phase' = "handshake"
          /\ UNCHANGED <<welcomes, reads>>
    /\ UNCHANGED <<late, inbox, tries, ctl, loggedIn, channel, client>>

\* Mutants: the read goes on after 234; it does not go on after 503.
ProbeMessageReadsOn ==
    /\ phase = "explicit" /\ reads > 0
    /\ inbox # "none"
    /\ phase' = IF inbox = "AUTH" THEN "handshake" ELSE "explicit"
    /\ inbox' = "none"
    /\ UNCHANGED <<late, welcomes, tries, control, channel, client>>

ProbeMessageStopsReading ==
    /\ phase = "explicit" /\ reads > 0
    /\ inbox # "none"
    /\ inbox' = "none"
    /\ reads' = 0
    /\ phase' = IF inbox = "AUTH" THEN "handshake" ELSE "explicit"
    /\ UNCHANGED <<late, welcomes, tries, ctl, loggedIn, channel, client>>

\* probe_receive and handle_auth: whatever is not AUTH is answered, and the
\* next message read; so is the hello of an implicit client that was too slow.
ProbeMessage ==
    /\ phase = "explicit" /\ reads > 0
    /\ inbox # "none"
    /\ inbox' = "none"
    /\ IF inbox = "AUTH"
       THEN phase' = "handshake" /\ reads' = 0
       ELSE UNCHANGED <<phase, reads>>
    /\ UNCHANGED <<late, welcomes, tries, ctl, loggedIn, channel, client>>

\* Mutant: the welcome is sent after either kind of handshake.
HandshakeDoneWelcomes ==
    /\ phase = "handshake" /\ ctl = "open" /\ inbox = "hello"
    /\ phase' = "secure" /\ inbox' = "none" /\ reads' = reads + 1
    /\ welcomes' = welcomes + 1
    /\ UNCHANGED <<late, tries, ctl, loggedIn, channel, client>>

\* start_secure's handler: a client in implicit mode is welcomed now.
HandshakeDone ==
    /\ phase = "handshake" /\ ctl = "open" /\ inbox = "hello"
    /\ phase' = "secure" /\ inbox' = "none" /\ reads' = reads + 1
    /\ welcomes' = IF tries = 0 THEN welcomes + 1 ELSE welcomes
    /\ UNCHANGED <<late, tries, ctl, loggedIn, channel, client>>

HandshakeFails ==
    /\ phase = "handshake"
    /\ ctl # "open" \/ (IoErrors /\ inbox = "hello")
    /\ phase' = "failed" /\ inbox' = "none"
    /\ UNCHANGED <<late, welcomes, tries, control, channel, client>>

\* The client.  An implicit one sends its ClientHello at once, perhaps in two
\* parts; an explicit one waits for the welcome, then for each reply.
ClientHello ==
    /\ ctl = "open"
    /\ \/ phase = "waiting" /\ welcomes = 0 /\ inbox = "none" /\ inbox' \in {"part", "hello"}
       \/ inbox = "part" /\ inbox' = "hello"
       \/ phase = "handshake" /\ inbox = "none" /\ inbox' = "hello"
    /\ UNCHANGED <<phase, late, welcomes, tries, control, channel, client>>

ClientMessage ==
    /\ ctl = "open"
    /\ phase = "explicit" /\ inbox = "none"
    /\ tries < MaxTries
    /\ tries' = tries + 1
    /\ inbox' \in {"AUTH", "other"}
    /\ UNCHANGED <<phase, late, welcomes, control, channel, client>>

-----------------------------------------------------------------------------
(* The control channel once it is secure.                                  *)

MaySend ==
    /\ phase = "secure" /\ ctl = "open" /\ reads > 0
    /\ awaiting = 0
    /\ Prompt => \A o \in ops : o.kind # "shutdown"

Login ==
    /\ MaySend
    /\ loggedIn' = TRUE
    /\ UNCHANGED <<start, ctl, reads, channel, client>>

QUIT ==
    /\ MaySend
    /\ ctl' = "quit" /\ reads' = 0
    /\ UNCHANGED <<start, loggedIn, channel, client>>

ControlLost ==
    /\ ctl = "open"
    /\ ctl' = "lost"
    /\ UNCHANGED <<start, reads, loggedIn, channel, client>>

\* Mutant: the secure control channel answers its own error, as the probe does.
ReadFailsRetries ==
    /\ phase = "secure" /\ ctl # "open" /\ reads > 0
    /\ UNCHANGED vars

\* The error yields the empty command.  In the explicit phase handle_auth
\* answers it and reads again, so there the read stays outstanding for good.
ReadFails ==
    /\ phase = "secure" /\ ctl # "open" /\ reads > 0
    /\ reads' = 0
    /\ UNCHANGED <<start, ctl, loggedIn, channel, client>>

-----------------------------------------------------------------------------
(* The data channel.  Each helper says what becomes of dsock, tls, ops and  *)
(* stream, with op the operation that has just completed.                  *)

NoOp == {}
New(kind, x, conn) == [kind |-> kind, sock |-> conn, xfer |-> x]

\* data_close: async_shutdown; a socket that is not open is left alone.
DataClose(done, x) ==
    /\ dsock' = dsock
    /\ IF dsock = NoConn
       THEN ops' = ops \ done /\ tls' = tls
       ELSE /\ ops' = (ops \ done) \cup {New("shutdown", x, dsock)}
            /\ tls' = "closing"

\* data_directory_listing, data_receive_file and data_send_file
DataOperation(k, done, t) ==
    \/ /\ ops' = (ops \ done) \cup {New(k, pending'[k], dsock)}
       /\ stream' = IF k = "LIST" THEN stream ELSE [stream EXCEPT ![k] = "open"]
       /\ UNCHANGED dsock
       /\ tls' = t
    \/ /\ IoErrors /\ k # "LIST"                  \* the file does not open
       /\ stream' = [stream EXCEPT ![k] = "bad"]
       /\ DataClose(done, pending'[k])

Ask ==
    /\ MaySend /\ loggedIn /\ issued < MaxXfers
    /\ issued' = issued + 1 /\ awaiting' = issued + 1
    /\ UNCHANGED <<start, ctl, loggedIn, connected, backlog, gaveUp>>

\* A command is late if m_data_socket is open; otherwise accept a connection.
Launch(k) ==
    \/ /\ dsock # NoConn
       /\ DataOperation(k, NoOp, tls)
       /\ UNCHANGED accepts
    \/ /\ dsock = NoConn
       /\ accepts' = accepts + 1
       /\ UNCHANGED <<stream, dsock, tls, ops>>

\* run_LIST and run_STOR
RunLISTorSTOR(k) ==
    /\ Ask
    /\ \/ /\ pending[k] # 0                       \* no reply, no further read
          /\ reads' = 0
          /\ UNCHANGED channel
       \/ /\ pending[k] = 0
          /\ pending' = [pending EXCEPT ![k] = issued + 1]
          /\ Launch(k)
          /\ UNCHANGED reads

\* parse_RETR_argument and run_RETR: a file that is pending stays the pending one.
RunRETR ==
    /\ Ask
    /\ pending' = [pending EXCEPT !["RETR"] = IF @ = 0 THEN issued + 1 ELSE @]
    /\ Launch("RETR")
    /\ UNCHANGED reads

\* Mutant: the acceptor accepts on, as the server's does.
AcceptDoneAcceptsOn ==
    /\ accepts > 0 /\ backlog # <<>>
    /\ backlog' = Tail(backlog)
    /\ dsock' = Head(backlog) /\ tls' = "new"
    /\ ops' = ops \cup {New("handshake", 0, Head(backlog))}
    /\ UNCHANGED <<start, control, accepts, pending, stream, issued, awaiting, connected, gaveUp>>

\* The accepted socket replaces m_data_socket, and its handshake begins.
AcceptDone ==
    /\ accepts > 0 /\ backlog # <<>>
    /\ accepts' = accepts - 1
    /\ backlog' = Tail(backlog)
    /\ dsock' = Head(backlog) /\ tls' = "new"
    /\ ops' = ops \cup {New("handshake", 0, Head(backlog))}
    /\ UNCHANGED <<start, control, pending, stream, issued, awaiting, connected, gaveUp>>

AcceptError ==
    /\ IoErrors /\ accepts > 0
    /\ accepts' = accepts - 1
    /\ UNCHANGED <<start, control, pending, stream, dsock, tls, ops, client>>

\* LIST before STOR before RETR
Chosen(k) ==
    /\ pending[k] # 0
    /\ k = "STOR" => pending["LIST"] = 0
    /\ k = "RETR" => pending["LIST"] = 0 /\ pending["STOR"] = 0

Handler(o, kind) ==
    /\ o.kind = kind
    /\ UNCHANGED <<start, control, accepts, issued, connected, backlog, gaveUp>>

\* Bytes pass only on the current socket, between its handshake and closure.
Usable(o) == o.sock = dsock /\ tls = "up"

\* Mutant: the operation is chosen without a handshake having succeeded.
DataHandshakeUnchecked(o) ==
    /\ Handler(o, "handshake")
    /\ UNCHANGED <<pending, awaiting>>
    /\ \E k \in Transfers : Chosen(k) /\ DataOperation(k, {o}, tls)

\* Some flag is set here: the command that began the accept has set it, and
\* only the end of its transfer clears it.
DataHandshakeDone(o) ==
    /\ Handler(o, "handshake")
    /\ o.sock = dsock
    /\ UNCHANGED <<pending, awaiting>>
    /\ \E k \in Transfers : Chosen(k) /\ DataOperation(k, {o}, "up")

DataHandshakeError(o) ==
    /\ Handler(o, "handshake")
    /\ IoErrors \/ o.sock # dsock
    /\ ops' = ops \ {o}
    /\ UNCHANGED <<pending, awaiting, stream, dsock, tls>>

\* Mutants: the final reply is not sent; the flag is not cleared.
FinishSilently(k, o) ==
    /\ pending' = [pending EXCEPT ![k] = 0]
    /\ UNCHANGED awaiting
    /\ DataClose({o}, o.xfer)

FinishKeepsPending(k, o) ==
    /\ awaiting' = 0
    /\ UNCHANGED pending
    /\ DataClose({o}, o.xfer)

\* 226 and data_close
Finish(k, o) ==
    /\ pending' = [pending EXCEPT ![k] = 0]
    /\ awaiting' = 0
    /\ DataClose({o}, o.xfer)

ListDone(o) ==
    /\ Handler(o, "LIST")
    /\ Usable(o)
    /\ Finish("LIST", o)
    /\ UNCHANGED stream

ListError(o) ==
    /\ Handler(o, "LIST")
    /\ IoErrors \/ ~Usable(o)
    /\ ops' = ops \ {o}
    /\ UNCHANGED <<pending, awaiting, stream, dsock, tls>>

\* More bytes of a file change nothing here: the next operation is like this
\* one.  Both kinds end at the end of the file or on any error.
FileEnd(o) ==
    \E k \in {"STOR", "RETR"} :
        /\ Handler(o, k)
        /\ stream' = [stream EXCEPT ![k] = "null"]
        /\ Finish(k, o)

\* Mutant: an error of the closure leaves the socket open.
ShutdownErrorKeepsSocket(o) ==
    /\ Handler(o, "shutdown")
    /\ ops' = ops \ {o}
    /\ UNCHANGED <<pending, awaiting, stream, dsock, tls>>

\* The peer has answered the closure, or has gone: m_data_socket is closed,
\* whatever it is by now.
ShutdownDone(o) ==
    /\ Handler(o, "shutdown")
    /\ ops' = ops \ {o}
    /\ dsock' = NoConn /\ tls' = "closed"
    /\ UNCHANGED <<pending, awaiting, stream>>

-----------------------------------------------------------------------------
(* The client's data connections, and its patience.                        *)

Connect(k) ==
    /\ Alive /\ ctl = "open" /\ loggedIn
    /\ connected < k /\ k <= MaxXfers
    /\ \/ k = issued /\ awaiting = k
       \/ k = issued + 1 /\ MaySend
    /\ connected' = k
    /\ backlog' = Append(backlog, k)
    /\ UNCHANGED <<start, control, channel, issued, awaiting, gaveUp>>

DataOps == {o \in ops : o.kind # "shutdown"}

\* With neither an accept nor an operation outstanding, no reply can come.
Failed == awaiting # 0 /\ accepts = 0 /\ DataOps = {}

GiveUp ==
    /\ Failed
    /\ awaiting' = 0
    /\ gaveUp' = IF gaveUp.xfer # 0 THEN gaveUp
                 ELSE [xfer |-> issued, conn |-> IF tls = "up" THEN dsock ELSE NoConn]
    /\ UNCHANGED <<start, control, channel, issued, connected, backlog>>

Next ==
    \/ TimePasses \/ Poll \/ ProbeMessage \/ HandshakeDone \/ HandshakeFails
    \/ ClientHello \/ ClientMessage
    \/ Login \/ QUIT \/ ControlLost \/ ReadFails
    \/ RunLISTorSTOR("LIST") \/ RunLISTorSTOR("STOR") \/ RunRETR
    \/ AcceptDone \/ AcceptError
    \/ \E o \in ops : \/ DataHandshakeDone(o) \/ DataHandshakeError(o)
                      \/ ListDone(o) \/ ListError(o) \/ FileEnd(o) \/ ShutdownDone(o)
    \/ \E k \in Numbers : Connect(k)
    \/ GiveUp

\* io_context::run calls every handler whose event occurred.  On the client it
\* is assumed that it answers a closure or goes, opens the data connection it
\* asked for, and sends its hello once it may.
Fairness ==
    /\ WF_vars(TimePasses) /\ WF_vars(Poll)
    /\ WF_vars(ProbeMessage) /\ WF_vars(HandshakeDone \/ HandshakeFails)
    /\ WF_vars(ClientHello)
    /\ WF_vars(ReadFails) /\ WF_vars(AcceptDone)
    /\ WF_vars(\E o \in ops : DataHandshakeDone(o) \/ DataHandshakeError(o))
    /\ WF_vars(\E o \in ops : ListDone(o) \/ ListError(o) \/ FileEnd(o))
    /\ WF_vars(\E o \in ops : ShutdownDone(o))
    /\ WF_vars(\E k \in Numbers : k = issued /\ Connect(k))

Spec == Init /\ [][Next]_vars
FairSpec == Spec /\ Fairness

-----------------------------------------------------------------------------
(* Correctness.                                                            *)

\* Every client is welcomed once before its first secure command: an explicit
\* one in plain text, an implicit one after its handshake (start_secure).
WelcomedOnce ==
    /\ welcomes <= 1
    /\ phase = "secure" => welcomes = 1

NothingGivenUp == gaveUp.xfer = 0

\* While no transfer has failed, file and listing bytes start only on a
\* connection whose TLS handshake has succeeded.
EncryptedTransfer ==
    NothingGivenUp => \A o \in DataOps : o.kind \in Transfers => tls # "new"

\* While no transfer has failed, each is on the connection opened for it: a
\* command that finds m_data_socket open is late, as the comments in run_LIST,
\* run_STOR and run_RETR say, and the socket is its own.
OwnConnection ==
    NothingGivenUp => \A o \in DataOps : o.kind \in Transfers => o.sock = o.xfer

\* When the last transfer has its final reply and its closure is answered,
\* nothing of it is left, neither socket, flag, file stream nor operation.
QuiescentBetweenTransfers ==
    NothingGivenUp /\ awaiting = 0 /\ (\A o \in ops : o.kind # "shutdown")
        => /\ accepts = 0 /\ dsock = NoConn /\ ops = {}
           /\ pending = [k \in Transfers |-> 0]
           /\ stream = [k \in {"STOR", "RETR"} |-> "null"]

\* The service of TransferService: a transfer waits from its command until the
\* handshake has succeeded, and is over when the closure begins.
Phase == IF gaveUp.xfer # 0 THEN "failed"
         ELSE IF awaiting = 0 THEN "idle"
         ELSE IF DataOps = {} THEN IF accepts > 0 THEN "waiting" ELSE "failed"
         ELSE IF tls = "up" THEN "running" ELSE "waiting"

Conn == IF gaveUp.xfer # 0 THEN gaveUp.conn
        ELSE IF awaiting # 0 /\ tls = "up" THEN dsock ELSE NoConn

Service == INSTANCE TransferService WITH
    last <- IF gaveUp.xfer # 0 THEN gaveUp.xfer ELSE issued,
    conn <- Conn,
    phase <- Phase

\* The secure session keeps the promise of the plain one until the first
\* transfer that fails.
ImplementsService == Service!Spec

\* wait_for_implicit decides, whatever the client sends or leaves out.
StartDecided == phase = "waiting" ~> phase # "waiting"

\* AUTH leads to a handshake that ends, however many other messages came first.
ExplicitSecured ==
    phase = "explicit" /\ inbox = "AUTH"
        ~> phase \in {"secure", "failed"} \/ ctl # "open"

\* Every transfer gets its final reply or fails; none is waited for in vain
\* while something of it is outstanding.
TransferEnds ==
    \A k \in 1..MaxXfers : awaiting = k ~> awaiting # k \/ Failed \/ ctl # "open"

\* A secure session whose control connection is gone, and that awaits no data
\* connection, is destroyed.
SessionReleased ==
    phase = "secure" /\ ctl # "open" /\ accepts = 0 ~> ~Alive

=============================================================================
