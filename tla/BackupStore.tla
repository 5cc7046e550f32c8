---------------------------- MODULE BackupStore ----------------------------
(***************************************************************************)
(* One regular file of a bkpfs mount and the backups bkpfs keeps of it:    *)
(* bkpfs_write, the ioctls 1000..1003 and the helpers create and delete of *)
(* file.c, with the parts of inode.c, lookup.c and dentry.c that decide    *)
(* which inode a call reaches.  Each action is a whole call, run alone;    *)
(* BackupTasks takes the same calls apart.                                 *)
(*                                                                         *)
(* A backup is a regular file of the lower directory named                 *)
(* "<number> <name>"; the number is taken from the extended attributes     *)
(* user.revision and user.youngest of the file's inode.  Contents are      *)
(* abstracted to the number of the modification that produced them.        *)
(*                                                                         *)
(* Some operators come with a variant before them (NextVersionStale before *)
(* NextVersion): a mistake the code could have made at that place, used to *)
(* see that a property notices it.  No definition uses a variant.          *)
(***************************************************************************)
EXTENDS Integers, Sequences, FiniteSets

CONSTANTS
  N,          \* how many backups retention keeps (#define N 10)
  IntMax,     \* largest value of a C int
  StackInts,  \* what an int on the kernel stack may hold before it is set
  Faults,     \* calls into the lower file system that may fail
  Requests,   \* version numbers users pass to the ioctls
  MaxTicks,   \* bound: number of modifications of the file's contents
  Nil         \* attribute not set, file not there

FaultKinds == {"getxattr", "setxattr", "unlink", "alloc", "lookup",
               "create", "open", "splice", "write"}

ASSUME StoreAssumption ==
  /\ N \in Nat \ {0}
  /\ IntMax \in Nat /\ N <= IntMax
  /\ StackInts \subseteq (-IntMax - 1)..IntMax
  /\ StackInts # {}
  /\ Faults \subseteq FaultKinds
  /\ Requests \subseteq (-IntMax - 1)..IntMax
  /\ MaxTicks \in Nat
  /\ Nil \notin Int

VARIABLES
  file,      \* the inode: "none", "listed" in the lower directory, or
             \* "orphan": unlinked there, still reached by bkpfs's dentry
  text,      \* contents of the inode
  tick,      \* modifications so far, names the next contents
  rev,       \* user.revision of the inode
  young,     \* user.youngest of the inode
  saved,     \* backups in the lower directory: number -> contents
  warm,      \* numbers whose lower dentry is hashed and positive
  negative,  \* numbers whose lower dentry is hashed and negative
  restored,  \* contents of "restored_<name>"
  reply      \* operation that returned last, its error and its result

disk  == <<file, text, tick, rev, young, saved, restored>>
cache == <<warm, negative>>
vars  == <<file, text, tick, rev, young, saved, warm, negative, restored, reply>>

CInt   == (-IntMax - 1)..IntMax
Broken == -1   \* contents of a file created but not, or only partly, filled
Texts  == Nat \cup {Broken}

Ops  == {"other", "create", "open", "write", "modify", "delete", "deleteall",
         "restore", "view", "list", "unlink"}
Errs == {"ok", "EEXIST", "ENOENT", "ENOTTY", "ENOMEM", "EIO", "OOPS"}

TypeOK ==
  /\ file \in {"none", "listed", "orphan"}
  /\ text \in Nat /\ tick \in Nat /\ text <= tick
  /\ rev \in CInt \cup {Nil} /\ young \in CInt \cup {Nil}
  /\ DOMAIN saved \subseteq CInt /\ saved \in [DOMAIN saved -> Texts]
  /\ warm \subseteq DOMAIN saved
  /\ negative \subseteq CInt \ DOMAIN saved
  /\ restored \in Texts \cup {Nil}
  /\ reply \in [op : Ops, err : Errs, out : Seq(Int)]

-----------------------------------------------------------------------------
\* The int arithmetic of the module: it wraps, the kernel being built with
\* -fno-strict-overflow.
Wrap(x) == IF x > IntMax THEN x - 2 * (IntMax + 1)
           ELSE IF x < -IntMax - 1 THEN x + 2 * (IntMax + 1) ELSE x

\* A call into the lower file system may fail only if Faults has it.
Fails(call) == call \in Faults

\* What vfs_getxattr leaves in its buffer: the attribute, or, when that is not
\* set or cannot be read, whatever the stack held (the error is not looked at).
Fetched(attribute) ==
  {x \in {attribute} : x # Nil}
    \cup {x \in StackInts : attribute = Nil \/ Fails("getxattr")}

\* vfs_setxattr, whose error is not looked at either.
Stored(old, new) == {new} \cup {x \in {old} : Fails("setxattr")}

\* The two vfs_setxattr calls of a write, and of a delete of the youngest.
RenumberRevisionOnly(v) == rev' \in Stored(rev, v) /\ UNCHANGED young
Renumber(v) == rev' \in Stored(rev, v) /\ young' \in Stored(young, v)

\* The number the next backup gets.
NextVersionStale(v) == IF v < 0 THEN 1 ELSE v
NextVersion(v) == IF v < 0 THEN 1 ELSE Wrap(v + 1)

Put(f, n, c) == [k \in DOMAIN f \cup {n} |-> IF k = n THEN c ELSE f[k]]
Without(f, gone) == [k \in DOMAIN f \ gone |-> f[k]]

\* What do_splice_direct makes of a copy of c; its error ends the loop only.
Copies(c) == {c} \cup {x \in {Broken} : Fails("splice")}

Answer(op, err, out) == reply' = [op |-> op, err |-> err, out |-> out]
Done(op) == Answer(op, "ok", <<>>)

\* delete() of the backups in gone: unlinked, and their dentries, which the
\* caller and delete() both hold, are unhashed.
DeleteCached(gone) == saved' = Without(saved, gone) /\ UNCHANGED warm
Delete_(gone) == /\ saved' = Without(saved, gone)
                 /\ warm' = warm \ gone

\* A name walk by vfs_path_lookup caches what it finds, or that it is missing.
CacheLookup(v) ==
  IF v \in DOMAIN saved THEN warm' = warm \cup {v} /\ UNCHANGED negative
                        ELSE negative' = negative \cup {v} /\ UNCHANGED warm

Init ==
  /\ file = "none" /\ text = 0 /\ tick = 0
  /\ rev = Nil /\ young = Nil
  /\ saved = [n \in {} |-> 0]
  /\ warm = {} /\ negative = {}
  /\ restored = Nil
  /\ reply = [op |-> "other", err |-> "ok", out |-> <<>>]

-----------------------------------------------------------------------------
\* bkpfs_create: a new inode under the file's name, with no attributes.
Create ==
  /\ file = "none" /\ tick < MaxTicks
  /\ file' = "listed"
  /\ tick' = tick + 1 /\ text' = tick'
  /\ rev' = Nil /\ young' = Nil
  /\ Done("create")
  /\ UNCHANGED <<saved, cache, restored>>

\* bkpfs_open: succeeds if bkpfs's own dentry is hashed, which it still is when
\* restore has unlinked the lower file behind it.
Open ==
  /\ file # "none"
  /\ Done("open")
  /\ UNCHANGED <<disk, cache>>

\* bkpfs_unlink: of a file that restore has unlinked already it fails.
Unlink ==
  \/ /\ file = "listed"
     /\ file' = "none" /\ rev' = Nil /\ young' = Nil
     /\ Done("unlink")
     /\ UNCHANGED <<text, tick, saved, cache, restored>>
  \/ /\ file = "orphan"
     /\ Answer("unlink", "ENOENT", <<>>)
     /\ UNCHANGED <<disk, cache>>

\* The dentry of an unlinked file is released with its inode.
Forget ==
  /\ file = "orphan"
  /\ file' = "none" /\ rev' = Nil /\ young' = Nil
  /\ Done("other")
  /\ UNCHANGED <<text, tick, saved, cache, restored>>

\* The lower dentry cache starts empty after a reboot.
Reboot ==
  /\ warm' = {} /\ negative' = {}
  /\ IF file = "orphan" THEN file' = "none" /\ rev' = Nil /\ young' = Nil
                        ELSE UNCHANGED <<file, rev, young>>
  /\ Done("other")
  /\ UNCHANGED <<text, tick, saved, restored>>

\* A user looks at a backup by name (ls, cat) in the mount.
Touch(v) ==
  /\ CacheLookup(v)
  /\ Done("other")
  /\ UNCHANGED disk

\* A user moves the restored file out of the way.
Collect ==
  /\ restored # Nil /\ restored' = Nil
  /\ Done("other")
  /\ UNCHANGED <<file, text, tick, rev, young, saved, cache>>

-----------------------------------------------------------------------------
(* bkpfs_write.  val is the number it takes; both attributes are set to it   *)
(* before the backup exists, whatever becomes of the rest.                   *)

\* The lower write, or its failure; the contents saved are those before it.
LowerWriteNothing(val) ==
  UNCHANGED <<tick, text>> /\ Answer("write", "ok", <<val>>)
LowerWrite(val) ==
  \/ /\ tick' = tick + 1 /\ text' = tick'
     /\ Answer("write", "ok", <<val>>)
  \/ /\ Fails("write") /\ UNCHANGED <<tick, text>>
     /\ Answer("write", "EIO", <<val>>)

\* The backup retention looks for, if it looks for one.
OutdatedEarly(val) == {n \in {val - N + 1} : val > N - 1}
OutdatedLate(val)  == {n \in {val - N - 1} : val > N + 1}
Outdated(val) == {n \in {val - N} : val > N}

\* d_lookup finds only what is cached, a missing name included.
RetentionFailsUnseen(val) ==
  /\ Outdated(val) \cap negative # {}
  /\ LowerWrite(val)
  /\ UNCHANGED <<file, saved, cache, restored>>
RetentionFails(val) ==
  /\ \/ Outdated(val) \cap negative # {} /\ Answer("write", "ENOENT", <<val>>)
     \/ Outdated(val) \cap warm # {} /\ Fails("unlink")
                                     /\ Answer("write", "EIO", <<val>>)
  /\ UNCHANGED <<file, text, tick, saved, cache, restored>>

Expired(val) == Outdated(val) \cap warm

\* The backup's name is taken if a file has it.
TakenIgnored(val) == FALSE
Taken(val) == val \in DOMAIN saved

BackupFails(val) ==
  /\ Outdated(val) \cap negative = {}
  /\ saved' = Without(saved, Expired(val))
  /\ \/ /\ Fails("alloc") /\ Answer("write", "ENOMEM", <<val>>)
        /\ warm' = warm \ Expired(val) /\ UNCHANGED negative
     \/ /\ Fails("lookup") /\ Answer("write", "OOPS", <<val>>)
        /\ warm' = warm \ Expired(val) /\ UNCHANGED negative
     \/ /\ Taken(val) /\ Answer("write", "EEXIST", <<val>>)
        /\ warm' = (warm \ Expired(val)) \cup {val} /\ UNCHANGED negative
     \/ /\ ~Taken(val) /\ Fails("create") /\ Answer("write", "EIO", <<val>>)
        /\ warm' = warm \ Expired(val) /\ negative' = negative \cup {val}
  /\ UNCHANGED <<file, text, tick, restored>>

BackupMade(val) ==
  /\ Outdated(val) \cap negative = {} /\ ~Taken(val)
  /\ warm' = (warm \ Expired(val)) \cup {val}
  /\ negative' = negative \ {val}
  /\ \/ /\ Fails("open") /\ Answer("write", "EIO", <<val>>)
        /\ saved' = Put(Without(saved, Expired(val)), val, Broken)
        /\ UNCHANGED <<tick, text>>
     \/ /\ \E c \in Copies(text) :
             saved' = Put(Without(saved, Expired(val)), val, c)
        /\ LowerWrite(val)
  /\ UNCHANGED <<file, restored>>

WriteNumbered(val) ==
  /\ Renumber(val)
  /\ RetentionFails(val) \/ BackupFails(val) \/ BackupMade(val)

Write ==
  /\ file # "none" /\ tick < MaxTicks
  /\ \E v \in Fetched(rev) : WriteNumbered(NextVersion(v))

-----------------------------------------------------------------------------
(* The ways to change the contents that make no backup: bkpfs_write_iter     *)
(* (writev, aio, splice), bkpfs_setattr with ATTR_SIZE (truncate, O_TRUNC)   *)
(* and stores to a shared bkpfs_mmap.                                        *)
InPlace ==
  /\ file # "none" /\ tick < MaxTicks
  /\ tick' = tick + 1 /\ text' = tick'
  /\ Done("modify")
  /\ UNCHANGED <<file, rev, young, saved, cache, restored>>

WriteIter == InPlace
Truncate  == InPlace
MmapStore == InPlace

-----------------------------------------------------------------------------
\* ioctl 1000, one version.
DeletesAny(v, y) == TRUE
DeletesYoungest(v, y) == v = y

Delete(v) ==
  /\ file # "none" /\ v # 0
  /\ \/ /\ v \in warm
        /\ Delete_({v}) /\ UNCHANGED negative
        /\ \E y \in Fetched(young) :
             IF DeletesYoungest(v, y)
             THEN Renumber(Wrap(y - 1))
             ELSE UNCHANGED <<rev, young>>
        /\ Answer("delete", "ok", <<v>>)
     \/ /\ v \in warm /\ Fails("unlink") /\ Answer("delete", "EIO", <<v>>)
        /\ UNCHANGED <<rev, young, saved, cache>>
     \/ /\ v \in negative /\ Answer("delete", "ENOENT", <<v>>)
        /\ UNCHANGED <<rev, young, saved, cache>>
     \/ /\ v \notin warm \cup negative /\ Answer("delete", "ENOTTY", <<v>>)
        /\ UNCHANGED <<rev, young, saved, cache>>
  /\ UNCHANGED <<file, text, tick, restored>>

(* The loop of delete-all and restore, from val down to 1.  It ends at 0, or *)
(* at the first number for which delete() fails: one cached as missing, or   *)
(* one the lower file system will not unlink.                                *)
LoopEnds(val, hashed) ==
  {s \in {0} \cup 1..val :
     /\ s = 0 \/ s \in negative \/ (s \in hashed /\ Fails("unlink"))
     /\ \A i \in (s + 1)..val : i \notin negative}

PurgedShort(val, s, hashed) == {i \in hashed : s < i /\ i < val}
Purged(val, s, hashed) == {i \in hashed : s < i /\ i <= val}

LoopErr(s) == IF s \in negative THEN "ENOENT" ELSE "EIO"

\* ioctl 1000 with version 0.  err is still -ENOTTY if nothing was deleted.
DeleteAll ==
  /\ file # "none"
  /\ \E val \in Fetched(rev) : \E s \in LoopEnds(val, warm) :
       /\ Delete_(Purged(val, s, warm))
       /\ IF s = 0
          THEN /\ rev' \in Stored(rev, -1)
               /\ Answer("deleteall",
                         IF Purged(val, 0, warm) = {} THEN "ENOTTY" ELSE "ok", <<>>)
          ELSE /\ UNCHANGED rev
               /\ Answer("deleteall", LoopErr(s), <<>>)
  /\ UNCHANGED <<file, text, tick, young, negative, restored>>

-----------------------------------------------------------------------------
(* ioctl 1001.  The current file goes first; whatever fails later, it is gone. *)
Removed == IF file = "listed" THEN "orphan" ELSE file

\* restored_<name> cannot be created.
RestoreRefused(v) ==
  /\ \/ Fails("alloc") /\ Answer("restore", "ENOMEM", <<v>>)
     \/ Fails("lookup") /\ Answer("restore", "OOPS", <<v>>)
     \/ restored # Nil /\ Answer("restore", "EEXIST", <<v>>)
     \/ restored = Nil /\ Fails("create") /\ Answer("restore", "EIO", <<v>>)
  /\ UNCHANGED <<saved, cache, restored>>

\* It is created, and stays empty: the version is missing or cannot be opened.
RestoreEmptyGoesOn(v) ==
  /\ restored = Nil /\ restored' = Broken
  /\ v \notin DOMAIN saved /\ Answer("restore", "ok", <<v>>)
  /\ saved' = Without(saved, warm) /\ warm' = {}
  /\ negative' = negative \cup {v}
RestoreEmpty(v) ==
  /\ restored = Nil /\ restored' = Broken
  /\ \/ /\ Fails("lookup") /\ Answer("restore", "EIO", <<v>>)
        /\ UNCHANGED cache
     \/ /\ v \notin DOMAIN saved /\ Answer("restore", "ENOENT", <<v>>)
        /\ CacheLookup(v)
     \/ /\ v \in DOMAIN saved /\ Fails("open")
        /\ Answer("restore", "EIO", <<v>>)
        /\ CacheLookup(v)
  /\ UNCHANGED saved

\* It is filled, as far as do_splice_direct goes, and the backups are purged, v
\* with them, whether that failed or not; the numbering is not reset.  The lookup
\* of version v has just cached its dentry.
RestoreFills(v) ==
  /\ restored = Nil /\ v \in DOMAIN saved
  /\ restored' \in Copies(saved[v])
  /\ \E val \in Fetched(rev) : \E s \in LoopEnds(val, warm \cup {v}) :
       LET gone == Purged(val, s, warm \cup {v})
       IN /\ saved' = Without(saved, gone)
          /\ warm' = (warm \cup {v}) \ gone
          /\ Answer("restore", IF s = 0 THEN "ok" ELSE LoopErr(s), <<v>>)
  /\ UNCHANGED negative

Restore(v) ==
  /\ file # "none"
  /\ \/ /\ file = "listed" /\ Fails("unlink")
        /\ Answer("restore", "EIO", <<v>>)
        /\ UNCHANGED <<disk, cache>>
     \/ /\ file' = Removed
        /\ RestoreRefused(v) \/ RestoreEmpty(v) \/ RestoreFills(v)
        /\ UNCHANGED <<text, tick, rev, young>>

-----------------------------------------------------------------------------
\* ioctl 1002.  The buffer is neither cleared nor terminated: what the heap held
\* may follow the contents (1) or not (0).
View(v) ==
  /\ file # "none"
  /\ \/ Fails("lookup") /\ Answer("view", "EIO", <<v>>) /\ UNCHANGED cache
     \/ /\ v \notin DOMAIN saved /\ Answer("view", "ENOENT", <<v>>)
        /\ CacheLookup(v)
     \/ /\ v \in DOMAIN saved /\ Fails("open") /\ Answer("view", "EIO", <<v>>)
        /\ CacheLookup(v)
     \/ /\ v \in DOMAIN saved
        /\ \E rest \in {0, 1} : Answer("view", "ok", <<v, saved[v], rest>>)
        /\ CacheLookup(v)
  /\ UNCHANGED disk

\* ioctl 1003 answers youngest and oldest.  Above N the oldest is computed from
\* val1, which no path has set.
Oldest(val, val1) == IF val <= N THEN 1 ELSE Wrap(val1 - N)

List ==
  /\ file # "none"
  /\ \E val \in Fetched(rev), val1 \in StackInts :
       Answer("list", "ok", <<val, Oldest(val, val1)>>)
  /\ UNCHANGED <<disk, cache>>

-----------------------------------------------------------------------------
Next ==
  \/ Create \/ Open \/ Unlink \/ Forget \/ Reboot \/ Collect
  \/ Write \/ WriteIter \/ Truncate \/ MmapStore
  \/ DeleteAll \/ List
  \/ \E v \in Requests : Touch(v) \/ Delete(v) \/ Restore(v) \/ View(v)

Spec == Init /\ [][Next]_vars

-----------------------------------------------------------------------------
(* Properties.  reply' names the call that a step was.                       *)

\* What a backup holds never changes while it exists: create() asks for an
\* exclusive creation and only a file it has just created is filled.
BackupImmutable ==
  [][\A n \in DOMAIN saved \cap DOMAIN saved' : saved'[n] = saved[n]]_vars

\* A bkpfs_write that succeeds has first put the contents it replaced in a
\* backup that was not there before (or a backup that a failed, ignored splice
\* left incomplete); one that fails has left the contents alone.
WriteBacksUp ==
  [][reply'.op = "write" =>
       IF reply'.err = "ok"
       THEN \E n \in DOMAIN saved' \ DOMAIN saved : saved'[n] \in Copies(text)
       ELSE text' = text]_vars

\* A backup disappears only when a write takes the number N above its own, when
\* it is the version a successful delete named, or in delete-all or restore.
RemovedOnlyWhenDue ==
  [][\A n \in DOMAIN saved \ DOMAIN saved' :
       \/ reply'.op = "write" /\ reply'.out = <<n + N>>
       \/ reply'.op = "delete" /\ reply'.out = <<n>> /\ reply'.err = "ok"
       \/ reply'.op \in {"deleteall", "restore"}]_vars

\* Restore purges backups only after it has opened the version asked for and
\* copied it to a new restored_<name>; it never overwrites an older one.  The copy
\* is incomplete if, and only if, do_splice_direct failed: its error ends the copy
\* loop of restore and not the call, and the purge then takes the version too.
RestoreDeliversFirst ==
  [][reply'.op = "restore" /\ (reply'.err = "ok" \/ DOMAIN saved' # DOMAIN saved)
       => /\ restored = Nil
          /\ \E v \in DOMAIN saved :
               /\ reply'.out = <<v>>
               /\ \/ restored' = saved[v]
                  \/ Fails("splice") /\ restored' = Broken]_vars

\* What the README of the CSE-506 directory says of it (62: "we copy the content to
\* restored file by using the version number given to us", 64: "we then remove all
\* the back up version file names"): no backup goes unless the restored file holds
\* the version asked for.  It takes do_splice_direct not to fail.
RestoreIsWhole ==
  [][reply'.op = "restore" /\ (reply'.err = "ok" \/ DOMAIN saved' # DOMAIN saved)
       => \E v \in DOMAIN saved : reply'.out = <<v>> /\ restored' = saved[v]]_vars

\* While nothing fails, no contents are kept twice, and a backup is older than
\* the current contents: every backup of bkpfs_write is followed by its write.
NoDuplicates ==
  Faults = {} =>
    /\ \A m, n \in DOMAIN saved : saved[m] = saved[n] => m = n
    /\ \A n \in DOMAIN saved : saved[n] # Broken /\ saved[n] < text

\* While nothing fails, user.revision, which write and list read, and
\* user.youngest, which delete compares with, agree, except that delete-all
\* resets the first only.
AttributesAgree == Faults = {} => rev = young \/ rev = -1

=============================================================================
