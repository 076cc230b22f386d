------------------------------- MODULE Server -------------------------------
(***************************************************************************)
(* The accept loop of server.cpp, the data port every session binds, and    *)
(* the descriptors sessions hold.                                          *)
(*                                                                         *)
(* A session is named by its data port.  It holds the control socket, the  *)
(* descriptors of its two database connections and the data acceptor, and  *)
(* for transfers up to three more: the data socket and the file streams of  *)
(* an upload and of a download.                                            *)
(***************************************************************************)
EXTENDS Integers, FiniteSets, Functions

CONSTANTS
    MaxFds,     \* descriptors left for sessions
    DbFds,      \* descriptors of the two database connections
    FirstPort,  \* DATA_CHANNEL_BEGIN_PORT
    MaxWaiting, \* connections in the kernel's queue (a bound)
    MaxLinger   \* ports that closed connections keep bound (a bound)

ASSUME ServerBoundsAssumption ==
    /\ MaxFds \in Nat /\ DbFds \in Nat \ {0} /\ MaxWaiting \in Nat \ {0}
    /\ MaxLinger \in Nat
    /\ FirstPort \in 1..65535

VARIABLES
    accepting,  \* is an async_accept outstanding on m_acceptor?
    waiting,    \* connections the kernel holds for it
    sessions,   \* port -> descriptors its transfers hold
    stranded,   \* the sessions that nothing need ever end
    lingering,  \* ports of ended sessions whose connections TCP keeps a while
    spinning    \* a session's constructor searches a port without end

serverVars == <<accepting, waiting, sessions, stranded, lingering, spinning>>

SessionFds == 1 + DbFds + 1
TransferFds == 0..3

\* The sessions whose transfers hold at least k descriptors.
Holding(k) == {p \in DOMAIN sessions : sessions[p] >= k}

Free == MaxFds - SessionFds * Cardinality(DOMAIN sessions)
               - Cardinality(Holding(1)) - Cardinality(Holding(2)) - Cardinality(Holding(3))

\* The ports of ended sessions are found again: as many are ever in use as there
\* can be sessions at once, and ports that linger.
Ports == FirstPort..(FirstPort + MaxFds \div SessionFds + MaxLinger - 1)

\* A port has 16 bits.
ASSUME PortsAssumption == \A p \in Ports : p <= 65535

ServerTypeOK ==
    /\ accepting \in BOOLEAN /\ spinning \in BOOLEAN
    /\ waiting \in 0..MaxWaiting
    /\ DOMAIN sessions \subseteq Ports
    /\ \A p \in DOMAIN sessions : sessions[p] \in TransferFds
    /\ stranded \subseteq DOMAIN sessions
    /\ lingering \subseteq Ports
    /\ Free >= 0

Off ==
    /\ accepting = FALSE /\ waiting = 0 /\ spinning = FALSE
    /\ sessions = <<>> /\ stranded = {}

ServerInit == Off /\ lingering = {}

\* The end of the process takes its sockets with it.
SwitchedOff ==
    /\ accepting' = FALSE /\ waiting' = 0 /\ spinning' = FALSE
    /\ sessions' = <<>> /\ stranded' = {}
    /\ UNCHANGED lingering

Listen ==
    /\ accepting' = TRUE
    /\ UNCHANGED <<waiting, sessions, stranded, lingering, spinning>>

Arrive ==
    /\ waiting < MaxWaiting
    /\ waiting' = waiting + 1
    /\ UNCHANGED <<accepting, sessions, stranded, lingering, spinning>>

\* The thread is free for handlers.
Ready == ~spinning /\ accepting /\ waiting > 0

AllPorts == FirstPort..65535

\* Mutant: the search goes on where the last one ended.
DataPortAfterLast == CHOOSE p \in AllPorts :
    \A q \in Ports : q \in DOMAIN sessions \cup lingering => q < p

\* The first port that can be bound (the acceptor does not set reuse_address).
DataPort == CHOOSE p \in AllPorts :
    /\ p \notin DOMAIN sessions \cup lingering
    /\ \A q \in FirstPort..(p - 1) : q \in DOMAIN sessions \cup lingering

\* The handler makes a session and accepts again.
Accept ==
    /\ Ready
    /\ Free >= SessionFds
    /\ waiting' = waiting - 1
    /\ sessions' = [p \in DOMAIN sessions \cup {DataPort} |->
                        IF p = DataPort THEN 0 ELSE sessions[p]]
    /\ UNCHANGED <<accepting, stranded, lingering, spinning>>

\* async_accept fails without a descriptor, and the handler does not call
\* start_accepting again; the client stays in the queue.
AcceptFails ==
    /\ Ready
    /\ Free = 0
    /\ accepting' = FALSE
    /\ UNCHANGED <<waiting, sessions, stranded, lingering, spinning>>

\* set_option, or remote_endpoint in the session's constructor, throws if the
\* client has gone; so does a database that cannot be opened.  io_context::run
\* passes the exception on.
AcceptThrows ==
    /\ Ready
    /\ Free > 0
    /\ SwitchedOff

\* The databases took the last descriptors, and the acceptor has none: every
\* bind fails, and the constructor tries the next port for ever.  The handler it
\* runs in has not accepted again.
PortSearch ==
    /\ Ready
    /\ Free = 1 + DbFds
    /\ spinning' = TRUE /\ accepting' = FALSE /\ waiting' = waiting - 1
    /\ UNCHANGED <<sessions, stranded, lingering>>

\* The transfers of a session open descriptors or close them.
Transfer == \E p \in DOMAIN sessions, n \in TransferFds :
    /\ ~spinning
    /\ n # sessions[p] /\ n - sessions[p] <= Free
    /\ sessions' = [sessions EXCEPT ![p] = n]
    /\ UNCHANGED <<accepting, waiting, stranded, lingering, spinning>>

\* set_option throws for a data connection whose client has gone.
DataAcceptThrows ==
    /\ ~spinning /\ sessions # <<>> /\ Free > 0
    /\ SwitchedOff

\* The client has left an accept that it will not connect to, and that nothing
\* cancels; or it is lost in the probe phase, whose read is repeated on errors.
Strand == \E p \in DOMAIN sessions \ stranded :
    /\ ~spinning
    /\ stranded' = stranded \cup {p}
    /\ UNCHANGED <<accepting, waiting, sessions, lingering, spinning>>

\* Mutant: a session that is cut off in a transfer is never released.
ReleasedIdle(p) ==
    /\ ~spinning /\ sessions[p] = 0
    /\ sessions' = Restrict(sessions, DOMAIN sessions \ {p})
    /\ stranded' = stranded \ {p}
    /\ UNCHANGED <<accepting, waiting, lingering, spinning>>

\* The last operation of a session has ended, and its destructor has run.
Released(p) ==
    /\ ~spinning
    /\ sessions' = Restrict(sessions, DOMAIN sessions \ {p})
    /\ stranded' = stranded \ {p}
    /\ \/ UNCHANGED lingering
       \/ /\ Cardinality(lingering) < MaxLinger
          /\ lingering' = lingering \cup {p}
    /\ UNCHANGED <<accepting, waiting, spinning>>

SessionEnds == \E p \in DOMAIN sessions : Released(p)

\* The end of a session whose client's leaving ends its last operation.
LiveSessionEnds == \E p \in DOMAIN sessions \ stranded : Released(p)

LingerEnds ==
    /\ lingering' \in {lingering \ {p} : p \in lingering}
    /\ UNCHANGED <<accepting, waiting, sessions, stranded, spinning>>

\* Without an accept and without sessions io_context::run returns, and main.
RunReturns ==
    /\ ~accepting /\ sessions = <<>>
    /\ SwitchedOff

=============================================================================
