----------------------------- MODULE FtpSession -----------------------------
(***************************************************************************)
(* One plain-text FTP session: base_session with insecure_session.cpp.     *)
(*                                                                         *)
(* The server runs every handler of every session on the one thread that   *)
(* calls io_context::run, so a handler is one atomic step; what interleaves *)
(* are the handlers: the control read, the data acceptor, and the reads    *)
(* and writes of the data socket.  Nothing but these outstanding           *)
(* operations keeps the session object alive (they capture                 *)
(* shared_from_this), so "no operation outstanding" is "session destroyed".*)
(*                                                                         *)
(* A transfer is numbered by the command that asked for it, and a data     *)
(* connection by the command the client opened it for.  File contents,     *)
(* names and replies other than final replies are abstracted away, and so  *)
(* are the commands that only reply and read the next command: in this     *)
(* module's state they are stuttering steps.                               *)
(***************************************************************************)
EXTENDS Integers, Sequences

CONSTANTS
    Users,      \* ids in the users table
    NoUser,     \* m_userid is the empty string
    Slots,      \* identities of outstanding data-socket operations (a bound)
    NoOp,       \* a slot with no operation in it
    MaxXfers,   \* transfer commands the client sends (a bound)
    MaxReads,   \* control reads outstanding at once (a bound)
    Pipelined,  \* may the client send a command before the final reply?
    IoErrors,   \* may accepts, files and data connections fail?
    Unusual     \* which unusual inputs the client sends

UnusualInputs == {"short", "size", "noarg", "noparent", "nofile"}

ASSUME NoUserAssumption == NoUser \notin Users
ASSUME BoundsAssumption == MaxXfers \in Nat /\ MaxReads \in Nat \ {0}
ASSUME ClientAssumption == /\ Pipelined \in BOOLEAN
                           /\ IoErrors \in BOOLEAN
                           /\ Unusual \subseteq UnusualInputs

VARIABLES
    stage,      \* m_connection_stage
    uid,        \* m_userid
    ctl,        \* the control socket: open, closed by QUIT, or lost
    reads,      \* outstanding async_read_some on the control socket
    accepts,    \* outstanding async_accept on m_data_socket_acceptor
    pending,    \* m_pending_directory_list, m_pending_write_file and
                \* m_sendable_file_id: 0 for the empty string, otherwise the
                \* number of the command that set it
    stream,     \* m_receive_file_stream and m_send_file_stream
    dsock,      \* m_data_socket: 0 when closed, otherwise its connection
    ops,        \* outstanding operations on the data socket
    crashed,    \* a handler used a null file stream
    issued,     \* client: number of the last transfer command
    awaiting,   \* client: the command it awaits the final reply of, or 0
    connected,  \* client: last command it opened a data connection for
    backlog     \* connections the kernel holds for the data acceptor

client == <<issued, awaiting, connected, backlog>>
login == <<stage, uid>>
control == <<ctl, reads>>
data == <<accepts, pending, stream, dsock, ops, crashed>>
vars == <<login, control, data, client>>

Transfers == {"LIST", "STOR", "RETR"}
Numbers == 0..MaxXfers
NoConn == 0

\* An operation names the connection it was started on and the transfer whose
\* bytes it carries.  EMPTY is a write of no bytes, which always succeeds.
Op == [kind : Transfers \cup {"EMPTY"}, sock : Numbers, xfer : Numbers]

ASSUME NoOpAssumption == NoOp \notin Op

TypeOK ==
    /\ stage \in {"UNAUTHENTICATED", "LOGGED_IN"}
    /\ uid \in Users \cup {NoUser}
    /\ ctl \in {"open", "quit", "lost"}
    /\ reads \in 0..MaxReads
    /\ accepts \in Numbers
    /\ pending \in [Transfers -> Numbers]
    /\ stream \in [{"STOR", "RETR"} -> {"null", "open", "bad"}]
    /\ dsock \in Numbers
    /\ ops \in [Slots -> Op \cup {NoOp}]
    /\ crashed \in BOOLEAN
    /\ issued \in Numbers /\ awaiting \in Numbers /\ connected \in Numbers
    /\ backlog \in Seq(Numbers)

Init ==
    /\ stage = "UNAUTHENTICATED"
    /\ uid = NoUser
    /\ ctl = "open" /\ reads = 1
    /\ accepts = 0
    /\ pending = [k \in Transfers |-> 0]
    /\ stream = [k \in {"STOR", "RETR"} |-> "null"]
    /\ dsock = NoConn
    /\ ops = [s \in Slots |-> NoOp]
    /\ crashed = FALSE
    /\ issued = 0 /\ awaiting = 0 /\ connected = 0
    /\ backlog = <<>>

Outstanding == {s \in Slots : ops[s] # NoOp}

\* The handlers' shared_ptrs are all that keeps the session.
Alive == ~crashed /\ (reads > 0 \/ accepts > 0 \/ Outstanding # {})

-----------------------------------------------------------------------------
(* The control channel.                                                    *)

\* Mutant: the control read re-arms itself besides.
CommandRearmed(n) ==
    /\ ~crashed
    /\ ctl = "open"
    /\ reads > 0
    /\ reads - 1 + n <= MaxReads
    /\ reads' = reads + n
    /\ UNCHANGED ctl

\* A command arrives at one of the outstanding reads; the handler calls
\* control_receive n times.
Command(n) ==
    /\ ~crashed
    /\ ctl = "open"
    /\ reads > 0
    /\ reads - 1 + n <= MaxReads
    /\ reads' = reads - 1 + n
    /\ UNCHANGED ctl

\* A client that does not pipeline waits for the reply of a transfer.
MaySend == Pipelined \/ awaiting = 0

USER == \E u \in Users :
    /\ MaySend
    /\ Command(1)
    /\ uid' = u
    /\ UNCHANGED <<stage, data, client>>

PASS ==
    /\ MaySend
    /\ Command(1)
    /\ uid # NoUser
    /\ stage' = "LOGGED_IN"
    /\ UNCHANGED <<uid, data, client>>

\* control_close: the session goes on as long as operations are outstanding.
QUIT ==
    /\ MaySend
    /\ ~crashed /\ ctl = "open" /\ reads > 0
    /\ ctl' = "quit"
    /\ reads' = reads - 1
    /\ UNCHANGED <<login, data, client>>

\* SIZE replies and reads no further command.
SIZE ==
    /\ "size" \in Unusual
    /\ MaySend
    /\ stage = "LOGGED_IN"
    /\ Command(0)
    /\ UNCHANGED <<login, data, client>>

\* Two bytes or fewer are taken for the empty command.
ShortMessage ==
    /\ "short" \in Unusual
    /\ MaySend
    /\ Command(0)
    /\ UNCHANGED <<login, data, client>>

ControlLost ==
    /\ ctl = "open"
    /\ ctl' = "lost"
    /\ UNCHANGED <<login, reads, data, client>>

\* Mutant: the handler reads again after an error.
ReadFailsRetries ==
    /\ ~crashed
    /\ ctl # "open" /\ reads > 0
    /\ UNCHANGED vars

\* An outstanding read of a closed control connection completes with an
\* error, which also yields the empty command.
ReadFails ==
    /\ ~crashed
    /\ ctl # "open" /\ reads > 0
    /\ reads' = reads - 1
    /\ UNCHANGED <<login, ctl, data, client>>

-----------------------------------------------------------------------------
(* The data channel: operations.                                           *)

Issue(kind, sock, x) == \E s \in Slots :
    /\ ops[s] = NoOp
    /\ ops' = [ops EXCEPT ![s] = [kind |-> kind, sock |-> sock, xfer |-> x]]

\* data_directory_listing and data_send on connection conn
DirectoryListing(x, conn) ==
    /\ dsock' = conn
    /\ Issue("LIST", conn, x)
    /\ UNCHANGED stream

\* data_receive_file: on failure to open, the name stays pending.
DataReceiveFile(x, conn) ==
    \/ /\ stream' = [stream EXCEPT !["STOR"] = "open"]
       /\ dsock' = conn
       /\ Issue("STOR", conn, x)
    \/ /\ IoErrors
       /\ stream' = [stream EXCEPT !["STOR"] = "bad"]
       /\ dsock' = NoConn
       /\ UNCHANGED ops

\* data_send_file.  With no file id it opens the directory "data/" itself: the
\* stream is open, reads nothing and never reaches its end.
DataSendFile(x, conn) ==
    \/ /\ x # 0
       /\ stream' = [stream EXCEPT !["RETR"] = "open"]
       /\ dsock' = conn
       /\ Issue("RETR", conn, x)
    \/ /\ x = 0
       /\ stream' = [stream EXCEPT !["RETR"] = "bad"]
       /\ dsock' = conn
       /\ Issue("EMPTY", NoConn, 0)
    \/ /\ x # 0 /\ IoErrors
       /\ stream' = [stream EXCEPT !["RETR"] = "bad"]
       /\ dsock' = NoConn
       /\ UNCHANGED ops

DataOperation(k, x, conn) ==
    \/ k = "LIST" /\ DirectoryListing(x, conn)
    \/ k = "STOR" /\ DataReceiveFile(x, conn)
    \/ k = "RETR" /\ DataSendFile(x, conn)

-----------------------------------------------------------------------------
(* The transfer commands.                                                  *)

\* Mutant: the check of m_connection_stage is missing.
AskBeforeLogin(a) ==
    /\ MaySend
    /\ issued < MaxXfers
    /\ issued' = issued + 1
    /\ awaiting' = a
    /\ UNCHANGED <<login, connected, backlog, crashed>>

\* The client sends its next transfer command.  It then awaits the final reply
\* of command a: this one, or none (0) when the handler itself replies.
Ask(a) ==
    /\ MaySend
    /\ stage = "LOGGED_IN"
    /\ issued < MaxXfers
    /\ issued' = issued + 1
    /\ awaiting' = a
    /\ UNCHANGED <<login, connected, backlog, crashed>>

\* Mutant: no data_acceptor_start_accept.
LaunchWithoutAccept(k, x) ==
    /\ dsock # NoConn => DataOperation(k, x, dsock)
    /\ dsock = NoConn => UNCHANGED <<stream, dsock, ops>>
    /\ UNCHANGED accepts

\* The tail of run_LIST, run_STOR and run_RETR: if m_data_socket is open the
\* command is "late" and uses that connection; otherwise accept one.
Launch(k, x) ==
    \/ /\ dsock # NoConn
       /\ DataOperation(k, x, dsock)
       /\ UNCHANGED accepts
    \/ /\ dsock = NoConn
       /\ accepts' = accepts + 1
       /\ UNCHANGED <<stream, dsock, ops>>

\* run_LIST and run_STOR while the previous one is unfinished: no reply, and
\* no further control read.
Unfinished(k) ==
    /\ pending[k] # 0
    /\ Ask(issued + 1)
    /\ Command(0)
    /\ UNCHANGED <<accepts, pending, stream, dsock, ops>>

RunLIST ==
    \/ Unfinished("LIST")
    \/ /\ pending["LIST"] = 0
       /\ Ask(issued + 1)
       /\ Command(1)
       /\ pending' = [pending EXCEPT !["LIST"] = issued + 1]
       /\ Launch("LIST", issued + 1)

RunSTOR ==
    \/ /\ "noarg" \in Unusual
       /\ Ask(0)
       /\ Command(1)
       /\ UNCHANGED <<accepts, pending, stream, dsock, ops>>
    \/ Unfinished("STOR")
    \/ /\ pending["STOR"] = 0                     \* the parent is missing
       /\ "noparent" \in Unusual
       /\ Ask(issued + 1)
       /\ Command(0)
       /\ pending' = [pending EXCEPT !["STOR"] = issued + 1]
       /\ UNCHANGED <<accepts, stream, dsock, ops>>
    \/ /\ pending["STOR"] = 0
       /\ Ask(issued + 1)
       /\ Command(1)
       /\ pending' = [pending EXCEPT !["STOR"] = issued + 1]
       /\ Launch("STOR", issued + 1)

\* parse_RETR_argument, then run_RETR whatever the former found.
RunRETR ==
    \/ /\ "noarg" \in Unusual                     \* 501, and a second read
       /\ Ask(0)
       /\ Command(2)
       /\ UNCHANGED pending
       /\ Launch("RETR", pending["RETR"])
    \/ /\ pending["RETR"] # 0                     \* previous one unfinished
       /\ Ask(issued + 1)
       /\ Command(1)
       /\ UNCHANGED pending
       /\ Launch("RETR", pending["RETR"])
    \/ /\ pending["RETR"] = 0                     \* 550
       /\ "nofile" \in Unusual
       /\ Ask(0)
       /\ Command(1)
       /\ UNCHANGED pending
       /\ Launch("RETR", 0)
    \/ /\ pending["RETR"] = 0
       /\ Ask(issued + 1)
       /\ Command(1)
       /\ pending' = [pending EXCEPT !["RETR"] = issued + 1]
       /\ Launch("RETR", issued + 1)

-----------------------------------------------------------------------------
(* The handlers of the data channel.                                       *)

\* What an accepted connection is used for: LIST before STOR before RETR.
Chosen(k) ==
    /\ pending[k] # 0
    /\ k = "STOR" => pending["LIST"] = 0
    /\ k = "RETR" => pending["LIST"] = 0 /\ pending["STOR"] = 0

\* The accepted socket replaces m_data_socket, which closes the old one.
AcceptDone ==
    /\ ~crashed
    /\ accepts > 0 /\ backlog # <<>>
    /\ accepts' = accepts - 1
    /\ backlog' = Tail(backlog)
    /\ \/ \E k \in Transfers : /\ Chosen(k)
                               /\ DataOperation(k, pending[k], Head(backlog))
       \/ /\ \A k \in Transfers : pending[k] = 0  \* "nothing done"
          /\ dsock' = Head(backlog)
          /\ UNCHANGED <<stream, ops>>
    /\ UNCHANGED <<login, control, pending, crashed, issued, awaiting, connected>>

AcceptError ==
    /\ ~crashed
    /\ IoErrors /\ accepts > 0
    /\ accepts' = accepts - 1
    /\ UNCHANGED <<login, control, pending, stream, dsock, ops, crashed, client>>

\* An operation whose socket was closed or replaced is aborted; but one that
\* completed before that still delivers its success.
Aborted(s) == ops[s].kind # "EMPTY" /\ (ops[s].sock = NoConn \/ ops[s].sock # dsock)

Completes(s, kinds) ==
    /\ ~crashed
    /\ ops[s] # NoOp
    /\ ops[s].kind \in kinds
    /\ UNCHANGED <<login, control, accepts, issued, connected, backlog>>

\* Mutant: a return is missing, and the next read or write starts after all.
RetireAndRearm(s) == UNCHANGED ops

Retire(s) == ops' = [ops EXCEPT ![s] = NoOp]

\* Mutants: no data_close; the flag not cleared; no 226.
FinishWithoutClose(k) ==
    /\ pending' = [pending EXCEPT ![k] = 0]
    /\ awaiting' = 0
    /\ UNCHANGED <<dsock, crashed>>

FinishKeepsPending(k) ==
    /\ awaiting' = 0
    /\ dsock' = NoConn
    /\ UNCHANGED <<pending, crashed>>

FinishSilently(k) ==
    /\ pending' = [pending EXCEPT ![k] = 0]
    /\ dsock' = NoConn
    /\ UNCHANGED <<awaiting, crashed>>

\* 226 and data_close, which closes whatever m_data_socket now is.
Finish(k) ==
    /\ pending' = [pending EXCEPT ![k] = 0]
    /\ awaiting' = 0
    /\ dsock' = NoConn
    /\ UNCHANGED crashed

ListDone(s) ==
    /\ Completes(s, {"LIST"})
    /\ Retire(s)
    /\ Finish("LIST")
    /\ UNCHANGED stream

\* An error leaves the flag set, the socket open and the client unanswered.
ListError(s) ==
    /\ Completes(s, {"LIST"})
    /\ IoErrors \/ Aborted(s)
    /\ Retire(s)
    /\ UNCHANGED <<pending, awaiting, stream, dsock, crashed>>

\* data_async_receive or data_async_send again, on the current m_data_socket
Continue(s, kind) ==
    /\ ops' = [ops EXCEPT ![s] = [kind |-> kind,
                                  sock |-> IF kind = "EMPTY" THEN NoConn ELSE dsock,
                                  xfer |-> IF kind = "EMPTY" THEN 0 ELSE pending[kind]]]
    /\ UNCHANGED <<pending, awaiting, stream, dsock, crashed>>

RecvMore(s) ==
    /\ Completes(s, {"STOR"})
    /\ stream["STOR"] = "open"
    /\ Continue(s, "STOR")

\* Mutant: the file stream is not reset.
RecvEndKeepsStream(s) ==
    /\ Completes(s, {"STOR"})
    /\ stream["STOR"] # "null"
    /\ Retire(s)
    /\ Finish("STOR")
    /\ UNCHANGED stream

\* end of file, a failed write, or any error of the connection
RecvEnd(s) ==
    /\ Completes(s, {"STOR"})
    /\ stream["STOR"] # "null"
    /\ Retire(s)
    /\ stream' = [stream EXCEPT !["STOR"] = "null"]
    /\ Finish("STOR")

\* A stream that delivers nothing keeps the loop of empty writes going.
SendMore(s) ==
    /\ Completes(s, {"RETR", "EMPTY"})
    /\ \/ stream["RETR"] = "open" /\ Continue(s, "RETR")
       \/ stream["RETR"] = "bad" /\ Continue(s, "EMPTY")

\* end of file, or any error of the connection
SendEnd(s) ==
    /\ Completes(s, {"RETR", "EMPTY"})
    /\ \/ stream["RETR"] = "open"
       \/ stream["RETR"] = "bad" /\ ops[s].kind = "RETR" /\ (IoErrors \/ Aborted(s))
    /\ Retire(s)
    /\ stream' = [stream EXCEPT !["RETR"] = "null"]
    /\ Finish("RETR")

\* The callback of a file operation dereferences a stream that the end of
\* another operation has reset.
NullStream(s) ==
    /\ \/ Completes(s, {"STOR"}) /\ stream["STOR"] = "null"
       \/ Completes(s, {"RETR", "EMPTY"}) /\ stream["RETR"] = "null"
    /\ crashed' = TRUE
    /\ Retire(s)
    /\ UNCHANGED <<pending, awaiting, stream, dsock>>

DataHandler(s) ==
    \/ ListDone(s) \/ ListError(s)
    \/ RecvMore(s) \/ RecvEnd(s)
    \/ SendMore(s) \/ SendEnd(s)
    \/ NullStream(s)

-----------------------------------------------------------------------------
(* The client's data connections: opened before or after the command.      *)

Connect(k) ==
    /\ Alive
    /\ ctl = "open"
    /\ stage = "LOGGED_IN"                        \* PASV told it the port
    /\ connected < k /\ k <= MaxXfers
    /\ \/ k = issued /\ (Pipelined \/ awaiting = k)
       \/ k = issued + 1 /\ MaySend
    /\ connected' = k
    /\ backlog' = Append(backlog, k)
    /\ UNCHANGED <<login, control, data, issued, awaiting>>

Next ==
    \/ USER \/ PASS \/ QUIT \/ SIZE \/ ShortMessage
    \/ ControlLost \/ ReadFails
    \/ RunLIST \/ RunSTOR \/ RunRETR
    \/ AcceptDone \/ AcceptError
    \/ \E s \in Slots : DataHandler(s)
    \/ \E k \in Numbers : Connect(k)

Spec == Init /\ [][Next]_vars

-----------------------------------------------------------------------------
(* Correctness whatever the client and the system around the session do.   *)

\* Until PASS succeeds the session touches no data connection: nothing is
\* accepted, pending, open or outstanding, and it is logged in only as some
\* user (the checks at the head of handle_command).
NoDataBeforeLogin ==
    IF stage = "LOGGED_IN"
    THEN uid # NoUser
    ELSE /\ accepts = 0 /\ dsock = NoConn /\ Outstanding = {}
         /\ \A k \in Transfers : pending[k] = 0

\* An open file stream has its file's name or id recorded, so that the end of
\* the transfer knows which row to update and a second command of the kind can
\* see that the first one is unfinished (m_pending_write_file and
\* m_sendable_file_id).
OpenStreamHasName ==
    \A k \in {"STOR", "RETR"} : stream[k] = "open" => pending[k] # 0

-----------------------------------------------------------------------------
(* Correctness for a client that waits for each final reply and sends no   *)
(* transfer command that the server refuses, though connections, accepts   *)
(* and files may fail.                                                     *)

LockStep == ~Pipelined /\ Unusual \cap {"noarg", "nofile"} = {}

\* When the last command of the client has its final reply, nothing of the
\* transfer is left: no accept, no operation, no open socket or file, no flag
\* that would refuse the next command.
QuiescentBetweenTransfers ==
    awaiting = 0 => /\ accepts = 0 /\ dsock = NoConn /\ Outstanding = {}
                    /\ \A k \in Transfers : pending[k] = 0
                    /\ \A k \in {"STOR", "RETR"} : stream[k] = "null"

\* No data callback finds its file stream already reset.
NoNullStream == ~crashed

\* The bytes of a transfer go over the connection the client opened for that
\* transfer: accepted sockets are matched to commands by order alone.
OwnConnection ==
    \A s \in Outstanding : ops[s].kind # "EMPTY" /\ ~Aborted(s)
                               => ops[s].sock = ops[s].xfer

\* At most one read or write is outstanding on the data socket; the buffers
\* m_receive_buffer, m_send_buffer and m_directory_list are shared by all.
OneOperation == \A s, t \in Outstanding : s = t

\* While the control connection is open, exactly one read of it is
\* outstanding: the next command will be read, and its bytes go to a buffer no
\* other read is using.
ReadsCommands == ctl = "open" => reads = 1

\* The client awaits a final reply only while something is outstanding whose
\* handler may send it.
Answerable == awaiting # 0 => accepts > 0 \/ Outstanding # {}

\* The session implements the one-transfer-at-a-time service.
Phase == IF awaiting = 0 THEN "idle"
         ELSE IF Outstanding # {} THEN "running"
         ELSE IF accepts > 0 THEN "waiting" ELSE "failed"

Service == INSTANCE TransferService WITH
    loggedIn <- stage = "LOGGED_IN",
    last <- issued,
    conn <- dsock,
    phase <- Phase

ImplementsService == Service!Spec

-----------------------------------------------------------------------------
(* Liveness.  io_context::run calls every handler whose event occurred; that *)
(* the event of an operation occurs is an assumption on the peer and on the *)
(* files: a connection makes progress or breaks, and files are finite.      *)

HandlerFairness ==
    /\ WF_vars(ReadFails)
    /\ WF_vars(AcceptDone)
    /\ \A s \in Slots : /\ WF_vars(ListDone(s) \/ ListError(s))
                        /\ WF_vars(RecvEnd(s))
                        /\ WF_vars(SendEnd(s))
                        /\ WF_vars(NullStream(s))

\* The client opens the data connection of the command it sent.
ClientFairness == WF_vars(\E k \in Numbers : k = issued /\ Connect(k))

FairSpec == Spec /\ HandlerFairness
ClientFairSpec == FairSpec /\ ClientFairness

\* Every transfer gets its final reply while the client stays.
TransferCompletes ==
    \A k \in 1..MaxXfers : awaiting = k ~> awaiting # k \/ ctl # "open"

\* A session that reads no further command, or whose control connection is
\* gone, and that awaits no data connection, is destroyed.
SessionReleased ==
    (ctl # "open" \/ reads = 0) /\ accepts = 0 ~> ~Alive

-----------------------------------------------------------------------------
(* Why it works for a client that waits for final replies: the session is  *)
(* always in one of four phases.                                           *)

NoneOutstanding == ops = [s \in Slots |-> NoOp]
NoStream == stream = [k \in {"STOR", "RETR"} |-> "null"]
PendingOnly(k) == pending = [j \in Transfers |-> IF j = k THEN issued ELSE 0]

\* The connections up to number n are used up; the next may be waiting.
Queue(n) == \/ connected <= n /\ backlog = <<>>
            \/ connected = n + 1 /\ backlog = <<n + 1>>

Idle ==
    /\ awaiting = 0 /\ accepts = 0 /\ dsock = NoConn
    /\ NoneOutstanding /\ NoStream
    /\ pending = [k \in Transfers |-> 0]
    /\ Queue(issued)

Waiting ==
    /\ awaiting = issued /\ accepts = 1 /\ dsock = NoConn
    /\ NoneOutstanding /\ NoStream
    /\ \E k \in Transfers : PendingOnly(k)
    /\ Queue(issued - 1)

Running ==
    /\ awaiting = issued /\ accepts = 0 /\ dsock = issued
    /\ connected = issued /\ backlog = <<>>
    /\ \E k \in Transfers, s \in Slots :
         /\ PendingOnly(k)
         /\ ops = [t \in Slots |-> IF t = s
                     THEN [kind |-> k, sock |-> issued, xfer |-> issued] ELSE NoOp]
         /\ stream = [j \in {"STOR", "RETR"} |-> IF j = k THEN "open" ELSE "null"]

\* A failed transfer leaves the client without an answer, and the session
\* without anything that could give it.
Failed == awaiting = issued /\ accepts = 0 /\ NoneOutstanding

LockStepInv ==
    /\ ~crashed
    /\ \/ Idle
       \/ issued > 0 /\ (Waiting \/ Running \/ Failed)
    /\ Unusual = {} => ReadsCommands

=============================================================================
