------------------------------ MODULE UserTree ------------------------------
(***************************************************************************)
(* What the virtual file system promises each user: a tree of directories  *)
(* and files of their own.  An object is added under a directory that      *)
(* exists, and removed with everything inside it and nothing else.  If the  *)
(* server is killed during a removal, the object itself may stay.          *)
(***************************************************************************)
EXTENDS SequencesExt

CONSTANTS Users, Paths

VARIABLE objects

Object == [owner : Users, path : Paths, dir : BOOLEAN]

Init == objects = {}

Add(o) ==
    /\ \/ Front(o.path) = <<>>
       \/ [owner |-> o.owner, path |-> Front(o.path), dir |-> TRUE] \in objects
    /\ \A x \in objects : x.owner = o.owner => x.path # o.path
    /\ objects' = objects \cup {o}

Drop(o) ==
    objects' = {x \in objects : x.owner = o.owner => ~IsPrefix(o.path, x.path)}

Next == \/ \E o \in objects : Drop(o)
        \/ \E o \in Object : Add(o)

Spec == Init /\ [][Next]_objects

\* An interrupted removal: what is inside the object is gone, the object stays.
Clear(o) ==
    objects' = {x \in objects : x = o \/ (x.owner = o.owner
                                            => ~IsPrefix(o.path, x.path))}

CrashSpec == Init /\ [][Next \/ \E o \in objects : Clear(o)]_objects

=============================================================================
