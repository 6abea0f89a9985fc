--------------------------------- MODULE MCChat ---------------------------------
(***************************************************************************)
(* A small instance of Chat: u1 reads and writes on d1, u2 writes.         *)
(***************************************************************************)
EXTENDS Chat, TLC

CONSTANTS u1, u2, d1, i1, i2, t1, none

MCOwner == [d \in Device |-> u1]
MCAuthor == [t \in Text |-> d1]
\* The instances play the same part.
MCSymmetry == Permutations(Instance)

MCEvent == [to : SUBSET User, row : Row]
===============================================================================
