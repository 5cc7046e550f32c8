---------------------------- MODULE MCOpenFiles ----------------------------
(***************************************************************************)
(* Instances of OpenFiles for TLC.  The file and the directory share no    *)
(* state and no action: TLC explores one while the other is as it began.   *)
(***************************************************************************)
EXTENDS OpenFiles
CONSTANTS f, g
TwoFiles == {f, g}
SmallCounts == {1, 2}
OneAtATime ==
  \/ dpos = 0 /\ dlow = 0 /\ said = [call |-> "read", answer |-> 0]
  \/ low = 0 /\ up = 0 /\ answer = 0 /\ \A h \in Files : pos[h] = Nil
=============================================================================
