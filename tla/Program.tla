------------------------------- MODULE Program -------------------------------
(***************************************************************************)
(* The whole process: Startup until the server listens, then Server, until *)
(* it ends or is killed and somebody starts it again.                      *)
(***************************************************************************)
EXTENDS Startup, Server

programVars == <<vars, serverVars>>

ProgramTypeOK ==
    /\ TypeOK /\ ServerTypeOK
    /\ pc # "up" => Off

ProgramInit == Init /\ ServerInit

ServerStarts ==
    /\ StartServer
    /\ IF pc' = "up" THEN Listen ELSE UNCHANGED serverVars

ServerStep ==
    /\ pc = "up"
    /\ UNCHANGED vars
    /\ Arrive \/ Accept \/ AcceptFails \/ PortSearch \/ Transfer \/ Strand
       \/ SessionEnds

ServerEnds == Ended /\ (AcceptThrows \/ DataAcceptThrows \/ RunReturns)

ProgramNext ==
    \/ Start /\ UNCHANGED serverVars
    \/ StartupStep /\ UNCHANGED serverVars
    \/ ServerStarts
    \/ ServerStep
    \/ ServerEnds
    \/ Upload /\ ~spinning /\ sessions # <<>> /\ UNCHANGED serverVars
    \/ Killed /\ SwitchedOff
    \/ (EditConfig \/ PlaceKeys \/ TakePort) /\ UNCHANGED serverVars
    \/ LingerEnds /\ UNCHANGED vars

\* main's own steps are taken, somebody starts the program whenever it is down,
\* and the sessions that their clients' leaving ends do end: the clients of a
\* server go at last.  Nothing is assumed of a session that is stranded.
Fairness ==
    /\ WF_programVars(Start /\ UNCHANGED serverVars)
    /\ WF_programVars(StartupStep /\ UNCHANGED serverVars)
    /\ WF_programVars(ServerStarts)
    /\ WF_programVars(Ended /\ RunReturns)
    /\ WF_programVars(pc = "up" /\ LiveSessionEnds /\ UNCHANGED vars)

ProgramSpec == ProgramInit /\ [][ProgramNext]_programVars /\ Fairness

-----------------------------------------------------------------------------

\* From every state that crashes and edits can lead to, the program comes up
\* again, as often as it ends, once nothing stands in the way of the start that
\* the program does not make itself: the configuration can be read (or there is
\* none yet), its port can be bound, and if it asks for TLS the keys are there
\* and right.  The default configuration asks for none.
CanStart ==
    /\ file # Bad /\ ~taken
    /\ file \in Config => (file.secure => keys = "complete")

ComesUp == <>[]CanStart => []<>(pc = "up")

\* An accept loop that an error has ended is there again some time: when the
\* last session has gone the process ends, and can be started.  There are two
\* states without a way out: the port search that never ends, in the middle of
\* which no accept is outstanding, and sessions all of which are stranded.
LoopComesBack ==
    pc = "up" /\ ~accepting ~>
        pc # "up" \/ spinning \/ (stranded # {} /\ stranded = DOMAIN sessions)

=============================================================================
