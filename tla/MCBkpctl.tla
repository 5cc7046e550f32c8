------------------------------ MODULE MCBkpctl ------------------------------
(***************************************************************************)
(* Instances of Bkpctl, and with it of CarefulUse, for TLC.  The stack     *)
(* holds a value that makes the next number 1, and one that does not.      *)
(***************************************************************************)
EXTENDS Bkpctl
CONSTANT word
NoFaults == {}
SmallStack == {-3, 0, 2}
NoRequests == {}
OneWord == {word}
=============================================================================
