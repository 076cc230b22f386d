----------------------------- MODULE MCProgram -----------------------------
(* A small instance of Program for TLC: two users, and configurations that  *)
(* remove a user, change a password, add a user, keep all and drop all.     *)
EXTENDS Program

CONSTANTS guest, other, old, new

Only(n, p) == [NoUsers EXCEPT ![n] = p]

MCConfigs == {[users |-> Only(guest, old), secure |-> TRUE],
              [users |-> Only(guest, new), secure |-> FALSE],
              [users |-> [Only(guest, old) EXCEPT ![other] = old], secure |-> FALSE],
              [users |-> NoUsers, secure |-> FALSE]}

=============================================================================
