-------------------------- MODULE DocumentedClaims --------------------------
(***************************************************************************)
(* What the README of the CSE-506 directory and the comments of the source *)
(* say of the calls of BackupStore and the code does not do.  TLC refutes  *)
(* each without any failure of the lower file system; the README of this   *)
(* directory tells the stories.                                            *)
(***************************************************************************)
EXTENDS BackupStore

\* README:9, "value of maximum number of files is N": the dentry cache is lost
\* in a reboot, and retention's d_lookup no longer finds what it should delete.
RetentionKeepsN == Cardinality(DOMAIN saved) <= N

\* README:11, "Smallest version number means it is oldest": a file created anew
\* starts its numbers anew, among the backups of its predecessor.
SmallestIsOldest ==
  \A m, n \in DOMAIN saved : m < n => saved[m] < saved[n]

\* README:45, a lookup "to see if it has lower dentry ( which it will not )":
\* the name may be taken, and the write is then refused with EEXIST.
NameIsFree == [][reply'.op = "write" => reply'.err # "EEXIST"]_vars

\* README:49, "then we delete the X - N backup file": if that name was looked up
\* while missing, d_lookup returns its negative dentry and the write is refused.
RetentionNeverRefuses == [][reply'.op = "write" => reply'.err # "ENOENT"]_vars

\* README:7, "A backup file is created just before a write operation is
\* performed on any file": not by writev, truncate and mmap.
EveryChangeIsBackedUp ==
  [][file # "none" /\ text' # text =>
       \E n \in DOMAIN saved' : saved'[n] = text]_vars

\* README:57, delete-all deletes "all back up version files": those without a
\* cached dentry stay, and the call succeeds.
DeleteAllDeletesAll ==
  [][reply'.op = "deleteall" /\ reply'.err = "ok" => DOMAIN saved' = {}]_vars

\* README:25 and 104, restore deletes "all the backup versions".
RestoreDeletesAll ==
  [][reply'.op = "restore" /\ reply'.err = "ok" => DOMAIN saved' = {}]_vars

\* README:122, list displays "the existing versions": with exactly the N latest
\* there, the oldest is computed from a variable that was never set.
ListsExistingVersions ==
  [][/\ reply'.op = "list"
     /\ rev # Nil /\ DOMAIN saved = (rev - N + 1)..rev
     => \A i \in DOMAIN reply'.out : reply'.out[i] \in DOMAIN saved]_vars

\* file.c:617, "don't open unhashed/deleted files": bkpfs looks at its own
\* dentry, which stays hashed when restore deletes the lower file.
DeletedIsNotOpened == [][reply'.op = "open" => file = "listed"]_vars
=============================================================================
