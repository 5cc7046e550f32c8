--------------------------- MODULE VersionHistory ---------------------------
(***************************************************************************)
(* What bkpfs promises the owner of a file, with no numbers, attributes,   *)
(* directory entries or caches: the file, the contents it had before its   *)
(* last N writes, and the file a restore makes.  past[N] is what the       *)
(* latest write replaced; a version that was deleted leaves a hole, except *)
(* the latest, whose place the one before it takes.                        *)
(***************************************************************************)
EXTENDS Integers

CONSTANTS N,   \* versions kept, a positive number
          Nil  \* no contents, not a number

VARIABLES current, past, restored

hvars == <<current, past, restored>>

Empty == [k \in 1..N |-> Nil]

Init == current = Nil /\ past = Empty /\ restored = Nil

\* New contents: newer than any the file had.
Renew == current' \in Nat /\ (current # Nil => current < current')

\* The file appears, by being created, only when it has no past.
Begin == /\ current = Nil /\ past = Empty /\ Renew
         /\ UNCHANGED <<past, restored>>

\* It is removed, and has no past to leave behind.
End == /\ current # Nil /\ past = Empty /\ current' = Nil
       /\ UNCHANGED <<past, restored>>

\* A write that keeps what it replaces, and forgets what is N writes old.
Save == /\ current # Nil /\ Renew
        /\ past' = [k \in 1..N |-> IF k = N THEN current ELSE past[k + 1]]
        /\ UNCHANGED restored

\* A change that keeps nothing (truncate, writev, mmap).
Amend == current # Nil /\ Renew /\ UNCHANGED <<past, restored>>

Drop(k) ==
  /\ past[k] # Nil
  /\ past' = IF k = N
             THEN [j \in 1..N |-> IF j = 1 THEN Nil ELSE past[j - 1]]
             ELSE [past EXCEPT ![k] = Nil]
  /\ UNCHANGED <<current, restored>>

DropAll == past' = Empty /\ UNCHANGED <<current, restored>>

\* The version is delivered, the file and every version are gone.
Restore(k) == /\ past[k] # Nil /\ restored = Nil
              /\ restored' = past[k]
              /\ past' = Empty /\ current' = Nil

Collect == restored' = Nil /\ UNCHANGED <<current, past>>

Next == \/ Begin \/ End \/ Save \/ Amend \/ DropAll \/ Collect
        \/ \E k \in 1..N : Drop(k) \/ Restore(k)

Spec == Init /\ [][Next]_hvars
=============================================================================
