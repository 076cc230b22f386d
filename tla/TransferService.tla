--------------------------- MODULE TransferService ---------------------------
(***************************************************************************)
(* What a session promises a client that waits for its replies: transfers  *)
(* are served one at a time and in the order they were asked for, each on  *)
(* the connection opened for it; a transfer ends with a final reply and    *)
(* nothing left of it, or fails, and then the session serves no other.     *)
(***************************************************************************)
EXTENDS Integers

CONSTANT MaxXfers

VARIABLES
    loggedIn,   \* has the client logged in?
    last,       \* number of the last transfer asked for
    phase,      \* of that transfer
    conn        \* the data connection in use, 0 if none

vars == <<loggedIn, last, phase, conn>>

Init == loggedIn = FALSE /\ last = 0 /\ phase = "idle" /\ conn = 0

Login ==
    /\ loggedIn' = TRUE
    /\ UNCHANGED <<last, phase, conn>>

Request ==
    /\ loggedIn
    /\ phase = "idle"
    /\ last < MaxXfers
    /\ last' = last + 1
    /\ phase' \in {"waiting", "failed"}
    /\ UNCHANGED <<loggedIn, conn>>

Start ==
    /\ phase = "waiting"
    /\ phase' = "running"
    /\ conn' = last
    /\ UNCHANGED <<loggedIn, last>>

Finish ==
    /\ phase = "running"
    /\ phase' = "idle"
    /\ conn' = 0
    /\ UNCHANGED <<loggedIn, last>>

Fail ==
    /\ phase \in {"waiting", "running"}
    /\ phase' = "failed"
    /\ UNCHANGED <<loggedIn, last, conn>>

Next == Login \/ Request \/ Start \/ Finish \/ Fail

Spec == Init /\ [][Next]_vars

=============================================================================
