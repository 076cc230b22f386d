-------------------------- MODULE MCVirtualFsCrash --------------------------
(* The small instances of MCVirtualFs, for VirtualFsCrash.                 *)
EXTENDS MCVirtualFs, VirtualFsCrash

=============================================================================
