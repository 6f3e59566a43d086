--------------------------------- MODULE MCDesk ---------------------------------
(* A small instance of Desk for TLC. *)
EXTENDS Desk

CONSTANTS A, B, i1, i2

\* One account trades a listed instrument and one that came later, the other only
\* has cash.
SomeHeld == {<<A, i1>>, <<A, i2>>}

================================================================================
