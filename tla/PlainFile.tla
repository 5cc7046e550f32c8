----------------------------- MODULE PlainFile -----------------------------
(***************************************************************************)
(* What a program expects of a regular file it has opened several times:   *)
(* one size, one position for each opening, calls that happen at once.     *)
(* OpenFiles shows that bkpfs, which keeps size and position in two        *)
(* layers, is such a file while calls do not overlap.                      *)
(***************************************************************************)
EXTENDS Integers

CONSTANTS
  Files,    \* openings of the file
  Counts,   \* numbers of bytes read or written
  MaxSize,  \* largest size of a file
  Nil       \* position of an opening that is closed

VARIABLES size, pos, append, answer

vars == <<size, pos, append, answer>>

Sizes == 0..MaxSize
Failed == -1

Init ==
  /\ size \in Sizes
  /\ pos = [f \in Files |-> Nil]
  /\ append = [f \in Files |-> FALSE]
  /\ answer = 0

Says(f, p, result) ==
  pos' = [pos EXCEPT ![f] = p] /\ answer' = result

Open(f) ==
  /\ pos[f] = Nil /\ Says(f, 0, 0)
  /\ \E a \in BOOLEAN : append' = [append EXCEPT ![f] = a]
  /\ UNCHANGED size

Close(f) ==
  /\ pos[f] # Nil /\ Says(f, Nil, 0)
  /\ UNCHANGED <<size, append>>

Read(f) ==
  /\ pos[f] # Nil
  /\ \E n \in Counts \cup {0} :
       /\ n = 0 => pos[f] >= size
       /\ n > 0 => pos[f] + n <= size
       /\ Says(f, pos[f] + n, n)
  /\ UNCHANGED <<size, append>>

Write(f) ==
  /\ pos[f] # Nil
  /\ \E n \in Counts :
       LET end == (IF append[f] THEN size ELSE pos[f]) + n
       IN /\ Says(f, end, n)
          /\ end <= MaxSize
          /\ size' = IF end > size THEN end ELSE size
  /\ UNCHANGED append

\* The base of a seek is the start, the position or the end.
Seek(f) ==
  /\ pos[f] # Nil
  /\ \E to \in Sizes : Says(f, to, to)
  /\ UNCHANGED <<size, append>>

SeekEnd(f) ==
  /\ pos[f] # Nil /\ Says(f, size, size)
  /\ UNCHANGED <<size, append>>

Stat ==
  /\ answer' = size
  /\ UNCHANGED <<size, pos, append>>

Truncate ==
  /\ size' \in Sizes /\ answer' = 0
  /\ UNCHANGED <<pos, append>>

\* A link to the file, and a call that fails.
Elsewhere ==
  /\ answer' \in {0, Failed}
  /\ UNCHANGED <<size, pos, append>>

Next ==
  \/ Stat \/ Truncate \/ Elsewhere
  \/ \E f \in Files : Open(f) \/ Close(f) \/ Read(f) \/ Write(f)
                      \/ Seek(f) \/ SeekEnd(f)

Spec == Init /\ [][Next]_vars
=============================================================================
