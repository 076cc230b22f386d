---------------------------- MODULE MCFtpSession ----------------------------
(* Small instances of FtpSession for TLC.                                   *)
EXTENDS FtpSession, TLC

CONSTANTS u1, u2, s1, s2, s3

\* Users and slots are only compared for equality.
SessionSymmetry == Permutations(Users) \cup Permutations(Slots)

=============================================================================
