--------------------------- MODULE MCBackupStore ---------------------------
(***************************************************************************)
(* Instances of BackupStore for TLC: values the cfg files give CONSTANTS,  *)
(* and the view, which leaves out the reply of the last call (no action    *)
(* reads it; the properties read only reply').                             *)
(***************************************************************************)
EXTENDS DocumentedClaims

EveryFault == FaultKinds
SpliceFault == {"splice"}

\* The stack: a value that makes the next number 1.
NegativeStack == {-2}

TwoRequests == {1, 2}

MCView == <<disk, cache>>
=============================================================================
