-------------------------------- MODULE MCBadge ---------------------------------
(***************************************************************************)
(* A small instance of Badges: u1 reads, on d1 and elsewhere; u2 writes.    *)
(***************************************************************************)
EXTENDS Badges

CONSTANTS u1, u2, d1, i1, i2, none

MCOwner == [d \in Device |-> u1]
===============================================================================
