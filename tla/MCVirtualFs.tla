---------------------------- MODULE MCVirtualFs ----------------------------
(* Small instances of VirtualFs for TLC.                                   *)
EXTENDS VirtualFs, TLC

CONSTANTS u1, u2, s1, s2, a, ab, i1, i2, i3

OneAccount == s1 :> {u1} @@ s2 :> {u1}
TwoAccounts == s1 :> {u1, u2} @@ s2 :> {u1}

\* Names of which none begins another, and names of which one does.
Apart == {<<n, n>> : n \in Names}
Prefixed == Apart \cup {<<a, ab>>}

\* Ids are only compared for equality, and so are names if none begins another.
IdSymmetry == Permutations(Ids)
Symmetry == Permutations(Ids) \cup Permutations(Names)

=============================================================================
