------------------------------ MODULE PathAlgebra ------------------------------
(***************************************************************************)
(* Paths as sequences of segments, and what the commands make of their      *)
(* arguments.  Paths shows that helpers.cpp does the same to strings.       *)
(***************************************************************************)
EXTENDS Integers, SequencesExt

CONSTANT Empty      \* the empty segment

Root == <<>>

\* get_parent_path of a path: a lone leading slash is the root.
Parent(p) == IF Front(p) = <<Empty>> THEN Root ELSE Front(p)

\* An argument in absolute form for STOR, RMD and CWD: absolute as it is,
\* relative under directory d.
Resolve(d, abs, segs) == IF abs THEN segs ELSE d \o segs

\* The object MKD and DELE make of their argument: one segment names an object
\* of the working directory; anything else gets a slash put before it, even if
\* it has one.
MkdTarget(d, abs, segs) ==
    IF Len(segs) = 1 /\ ~abs THEN Append(d, segs[1])
    ELSE IF abs /\ Len(segs) > 1 THEN <<Empty>> \o segs ELSE segs

\* RMD takes an absolute path for what it is.
RmdTarget(d, abs, segs) ==
    IF Len(segs) = 1 /\ ~abs THEN Append(d, segs[1]) ELSE segs

=============================================================================
