----------------------------- MODULE CarefulUse -----------------------------
(***************************************************************************)
(* The calls of BackupStore made the way the README shows: versions are    *)
(* asked for only if they exist, delete-all only if there is one, a        *)
(* restored file is collected before the next restore, a file is not used  *)
(* after restore has deleted it, and not unlinked while it has backups;    *)
(* after a reboot the backups are looked at before the file is used again. *)
(* The lower file system does not fail.  Under these conditions the file   *)
(* and its backups implement VersionHistory.                               *)
(***************************************************************************)
EXTENDS BackupStore

ASSUME CarefulAssumption ==
  /\ Faults = {}
  \* no int of the numbering reaches its limit
  /\ MaxTicks <= IntMax
  /\ \A g \in StackInts : g + MaxTicks <= IntMax

\* Every backup has a dentry, so that d_lookup finds it.
Warmed == DOMAIN saved \subseteq warm

CarefulNext ==
  \/ Create \/ Open \/ Forget \/ Reboot \/ Collect \/ List
  \/ file = "listed" /\ (WriteIter \/ Truncate \/ MmapStore)
  \/ file = "listed" /\ DOMAIN saved = {} /\ Unlink
  \/ file = "listed" /\ Warmed /\ Write
  \/ DOMAIN saved # {} /\ Warmed /\ DeleteAll
  \/ \E v \in DOMAIN saved :
       \/ Touch(v) \/ View(v)
       \/ Warmed /\ Delete(v)
       \/ Warmed /\ restored = Nil /\ Restore(v)

CarefulSpec == Init /\ [][CarefulNext]_vars

-----------------------------------------------------------------------------
(* The numbers of the backups lie in the window of the N numbers up to       *)
(* user.revision, in the order of what they hold.  (The bound on rev keeps   *)
(* it from wrapping; only a numbered backup needs rev and young to agree.)   *)
Numbered ==
  /\ DOMAIN saved # {} => rev \in Nat /\ young = rev
  /\ rev # Nil => rev >= -1 /\ rev + (MaxTicks - tick) <= IntMax
  /\ tick <= MaxTicks

InWindow == \A n \in DOMAIN saved : 0 < n /\ rev - N < n /\ n <= rev

\* "Smallest version number means it is oldest": README, line 11.
Ordered ==
  /\ \A n \in DOMAIN saved : saved[n] # Broken /\ saved[n] < text
  /\ \A m, n \in DOMAIN saved : m < n => saved[m] < saved[n]

\* Nothing missing is cached as missing, and only a file in the directory has
\* backups: restore has purged them all.
Tidy == negative = {} /\ (file # "listed" => DOMAIN saved = {})

WindowInv == TypeOK /\ Numbered /\ InWindow /\ Ordered /\ Tidy

\* "value of maximum number of files is N": README, line 9.
RetentionBound == Cardinality(DOMAIN saved) <= N

\* No call is refused: a number to be taken is always free and a backup to be
\* deleted always found.
NeverRefused == [][reply'.err = "ok"]_vars

-----------------------------------------------------------------------------
\* The refinement mapping: the window below user.revision, shifted to 1..N.
Window == [k \in 1..N |-> IF rev # Nil /\ rev - N + k \in DOMAIN saved
                          THEN saved[rev - N + k] ELSE Nil]

History == INSTANCE VersionHistory WITH
             current <- IF file = "listed" THEN text ELSE Nil,
             past <- Window

\* Used carefully, numbers, attributes, directory and dentries do together what
\* VersionHistory says, call by call.
ImplementsHistory == History!Spec
=============================================================================
