# bkpfs: a verification development

bkpfs is a stackable Linux file system, derived from wrapfs, that keeps backups:
before a `write(2)` it copies the file into `<number> <name>` in the same lower
directory, keeps the last N = 10 of them, and offers ioctls to delete, restore,
view and list versions. The code is in `src/bkpfs`, the user's tool `bkpctl`, its
README and the test scripts in `src/CSE-506`. "README:9" below is line 9 of
`src/CSE-506/README`; file names without a directory are in `src/bkpfs`.

This directory holds TLA+ modules that model the code, TLC runs that check them
on small instances, and TLAPS proofs. It has five parts:

* **the backup store** – what one call after another does to a file and its backups,
  and the tool bkpctl on top of it;
* **the tasks** – the same calls taken apart, run by several tasks with crashes;
* **the stack** – how a mount, its dentries, inodes and open files hold on to the
  file system below;
* **the open files** – sizes and positions, which both layers keep;
* **the redirections** – mappings and requests that reach the lower file by a changed
  pointer.

Modules, configurations and the lines each definition stands for are listed in
`PROJECT.json`.

## 1. The system

### Components

| component | state | operations |
|---|---|---|
| write and versions (`file.c` 14-64, 83-210) | the attributes `user.revision` and `user.youngest` of the inode; files `<number> <name>` in the lower directory; the lower dentry cache, which decides what `d_lookup` finds | `bkpfs_write`: take a number, set both attributes, delete the backup N below (if cached), create the new one, copy, write below |
| version ioctls (`file.c` 227-532) | the same | 1000 delete one or all, 1001 restore, 1002 view, 1003 list |
| namespace (`inode.c`) | none of its own; lower directory, mirrored attributes | create, link, unlink, symlink, mkdir, rmdir, mknod, rename, setattr, getattr, xattrs |
| lookup and interposition (`lookup.c`, `dentry.c`) | dentry private data (the lower path), inode private data (the lower inode) | lookup, iget, interpose, revalidate, release |
| superblock and mount (`main.c`, `super.c`) | reference to the lower superblock, the root dentry, two slab caches | read_super, put_super, evict_inode, module init and exit |
| open files (`file.c` 611-792) | the lower file, two file positions | open, release, flush, fsync, fasync, llseek, read, read_iter, write_iter |
| mappings (`mmap.c`, `file.c` 554-609) | the saved lower `vm_ops` | mmap, fault, page_mkwrite |
| bkpctl (`src/CSE-506`) | none | parses its arguments, opens the file, makes one ioctl, prints |

Calls go down: VFS → bkpfs → the VFS functions on the lower file system. The
components share the lower directory, the attributes of the lower inode, and the
dentry caches of both layers. bkpfs has no lock around a write or an ioctl; the
only locks are those the VFS takes for each single lower call, and the parent
directory locks that `create`, `delete` and the namespace operations take.

### What is hard

* *State that outlives its owner.* Backups belong to a name, the numbering to an
  inode. Unlink and create part the two.
* *A cache used as truth.* Retention and deletion look backups up with `d_lookup`:
  a backup that is there but not cached is skipped, one that is not there but
  cached as missing makes the call fail.
* *Failure half way.* A write has up to a dozen lower calls. Some of their errors
  are returned, some ignored; nothing is undone.
* *Interleaving.* Number, attributes, creation, copy and write are separate steps.
* *Crashes* between those steps, and reboots, which empty the dentry cache.
* *References* on every error path, most of all in mount and lookup.
* *Two copies.* Size, link count and positions exist above and below, and are copied
  from one to the other after the fact, most of them under no lock.
* *Borrowed pointers.* Faults and requests put the lower file where the upper was, and
  back, while others may look.

### What would make it correct

* Store: a backup never changes; a write that succeeds has backed up what it
  replaced and one that fails has changed nothing; backups go only when retention,
  a delete or a restore is entitled to them; a restore has delivered before it
  purges (which it does only if the copy does not fail). Used as the README shows: at most N backups, ordered by number, no call
  refused.
* Tasks: two writers never own the same backup; a backup is filled once, by the
  task that created it; a write does not lose contents; calls end.
* Stack: each reference below is owned by something that is still there; after the
  unmount, or a mount that failed, nothing is held; a name means what it means below;
  a file that has names never counts as going away.
* Open files: what the user sees of size and positions is one plain file.
* Redirections: nobody meets a pointer another has changed; both files last as long
  as someone uses them.
* bkpctl: the list shows every backup; a run that succeeds has done what was asked.

The `hazards` of `PROJECT.json` list, line by line, where these could go wrong and
which property would notice.

## 2. Modules

| module | what it is |
|---|---|
| `BackupStore` | one file and its backups; each action is a whole call |
| `BackupStoreProofs` | its theorems |
| `VersionHistory` | abstract specification: a file, its last N contents, the restored file |
| `CarefulUse` | `BackupStore` under the documented way of use; the inductive invariant, the refinement of `VersionHistory` |
| `CarefulUseProofs` | its theorems |
| `Bkpctl` | the tool on top of `CarefulUse`: its four commands, what it prints, its exit status |
| `BkpctlProofs` | its theorems |
| `DocumentedClaims` | sentences of the documentation, and of comments, as properties of `BackupStore` that it does not have; `MCBackupStore` extends it |
| `BackupTasks` | write, delete, restore and view, step by step, several tasks, crashes |
| `BackupTasksProofs` | its theorems |
| `SerialTasks` | the tasks with calls that do not overlap; the refinement of `BackupStore` |
| `SerialTasksProofs` | its theorems |
| `StackRefs` | mount, lookup, namespace operations, open and release with the references they take and put, and the link counts |
| `StackRefsProofs` | its theorems |
| `PlainFile` | abstract specification: a file with one size, and openings with one position each |
| `OpenFiles` | the same with the two sizes and positions of bkpfs; the refinement of `PlainFile` |
| `OpenFilesProofs` | its theorems |
| `Redirected` | mmap and faults, read_iter and write_iter, the references to both files |
| `RedirectedProofs` | its theorems |
| `MC…` | instances of the above for TLC |

### BackupStore

State: `file` (no inode; in the lower directory; or an *orphan*, which restore has
unlinked below while bkpfs's own dentry still reaches it), `text` (its contents, as
the number of the modification that made them), `rev` and `young` (the two
attributes), `saved` (number ↦ contents of the backups), `warm` and `negative` (the
numbers whose lower dentry is cached, positive and negative), `restored`
(`restored_<name>`), and `reply`, the last call with its error and result, which
only the properties read.

Each action is one call with all it does. `Write` is `bkpfs_write`: `Fetched` is
`vfs_getxattr` into an int that nobody has initialised, so an unset attribute gives
any of `StackInts`; `NextVersion` the `val < 0` test with the wrap of the int;
`Renumber` the two `vfs_setxattr`s, whose errors nobody looks at; `RetentionFails`
and `Expired` the retention, `BackupFails` and `BackupMade` creation and copy,
`LowerWrite` the write itself. `Delete`, `DeleteAll`, `Restore`, `View` and `List`
are the ioctls; their loops from `val` down to 1 are the set of numbers they delete
(`Purged`) and the number they stop at (`LoopEnds`). `WriteIter`, `Truncate` and
`MmapStore` change the contents without a backup. `Touch` is a user looking at a
backup by name, which fills the dentry cache; `Reboot` empties it. `Forget` is the
eviction of an orphan.

Failures: `Faults` names the lower calls that may fail. They fail independently, at
every place where the code makes them. A copy may stop part-way (`Broken`), as the
error of `do_splice_direct` is ignored: in a write, which then goes on with an incomplete
backup, and in a restore, which then purges all backups. `RestoreDeliversFirst` allows for
it and says that nothing else has that effect; `RestoreIsWhole` does not, and is proved for
a `do_splice_direct` that does not fail and refuted for one that does (`claim_restore`).

Abstractions: files are shorter than 1024 bytes, as README:5 demands, so a copy that
does not fail is of the whole file. References that the code leaks keep lower dentries
in memory, so the cache loses entries only by a reboot or an unlink; a cache that
loses them earlier shows what a reboot shows. Backups are not written to or removed
by hand, the file has one name, and descriptors of a file that was unlinked by its
user are not used any more.

### CarefulUse and VersionHistory

`VersionHistory` is what the README promises: `past` is the last N contents in
order; `Save` shifts them, `Drop` removes one, `Restore` delivers one and ends the
file. It has no numbers, no attributes and no caches.

`CarefulNext` restricts *when* the calls of `BackupStore` are made and adds nothing
to what they do: versions that are asked for exist; after a reboot the backups are
looked at (`ls`) before a write or an ioctl that deletes; a file with backups is not
unlinked; after a restore the file is no longer used and the restored file is moved
away before the next one; nothing below fails. The properties of `DocumentedClaims` show
that these conditions are needed. `CarefulAssumption` keeps the int of the
numbering, stack garbage included, from reaching its limit within the bounded number
of modifications.

### Bkpctl

A run of the tool is one action: it parses its arguments, opens the file, makes one
ioctl and prints. `Atoi` turns what is not a number into 0, which for `d` means all
versions. Tool and module declare `struct query` with `oldest` and `youngest` the
other way round, so `QueryOldest` reads the module's youngest; the loop then prints N
numbers from there *down* (`Listed`), which is why all backups are listed all the same:
`ListShowsAll` holds, and making the two structs agree would break it. `Exits` is the
exit status, which `CtlNoFile` leaves 0. `Otherwise` is what the user does without the
tool, carefully: writes, unlinks, reboots, looks at backups.

### BackupTasks

The steps of a call are those between which another task can run: each attribute
call, each `d_lookup`, each creation and unlink (under the directory's lock), the
copy and the write (under the lower inode's lock). `pc[t]` is the step task `t` is
to take, `val[t]` its `val` or `i`, `ask[t]` the version it restores, `on[t]` and
`dent[t]` the lower dentry it holds *by reference*: an unlink by another task turns it
into `"unlinked"`, a creation turns a negative one into `"there"`. That is what decides
whether a later step succeeds, and into which file a copy goes. `file` is as in
`BackupStore`; a restore makes it an orphan, on which other tasks' calls go on, and
`Forget` evicts it with its attributes when no call uses it. A crash keeps `disk`
and loses the rest.

Delete-all and restore share the loop (`CountVersions`, `FindNext`, `PurgeNext`). In
a restore, finding, opening and copying the version are one step (`FillRestored`):
only a task that fills that very version meanwhile could tell them apart, and what it
would see, a version delivered empty, happens with one step too. A copy is one chunk,
numbers do not wrap (the runs take few), and nothing fails except by what the
other task did. A crash keeps each completed lower step: it assumes the lower file
system commits them in order.

### SerialTasks

The same steps, with calls that begin only when no other is at work, as one lock around
`bkpfs_write` and the ioctls would have it; the code has no such lock, and what follows
is what it would be worth. It says that `BackupStore` is right to make a whole call one
action. Three variables are added that no step of `BackupTasks` reads: `shown` is the
store of `BackupStore`, which is brought up to date when a call returns; `asked` is the
call that is made and the numbers its reply will name; `late` says that a crash has
still to be shown.

A crash within a call has no counterpart in `BackupStore`, whose calls are whole. What is
on the disk after it, though, is what a call leaves behind in which one *lower* call has
failed, and then a reboot. `Cut` names, for each step, the error of that lower call; a
crash before anything was changed shows nothing at all (`Traceless`); a crash in the
loop of delete-all or restore looks as if the next backup found in the cache could not
be deleted (`Stop`). `Recover` is the reboot, and comes before anything else. Hence
`ImplementsStore` is of a `BackupStore` whose `Faults` are the seven lower calls of
`CutCalls` when there are crashes, and none when there are not. `SerialAssumption` keeps
numbers off the end of the int within the calls that are made, since `BackupTasks`
has unbounded integers and `BackupStore` wraps.

### StackRefs

`dent` are the upper dentries of one directory, the root of the mount; `icount` the
references to the upper inode over each lower inode; `lower`, `paths` and `active`
count what bkpfs holds of the layer below: lower inodes, lower paths and the
superblock; `nlink` are the link counts of the upper inodes. `Mount…` is
`bkpfs_read_super` with each of its failures, `Lookup`, `Create`, `Symlink`, `Mknod`,
`Mkdir`, `Link`, `Unlink`, `Rmdir`, `Rename…` and `Shrink` are lookup, the namespace
operations and the VFS's reclaim, with failures below and allocation failures in
`bkpfs_iget`; `Open` and `Release` are open files, which keep an unlinked dentry alive.
`Make` is what the four creations share, `Remove` what unlink and rmdir share. `Loses`
is what `bkpfs_write` and the ioctls take and never put; `lost` counts it, so that the
invariant can be exact about everybody else. `Restore` unlinks a lower file behind the
upper dentry's back. A negative upper dentry lives only inside a lookup or creation,
because `__bkpfs_lookup` does not hash it. `Copied` copies the link counts of the
inodes an operation names, as the code does after it has changed them below; which
inodes these are differs from operation to operation (mkdir copies the parent's, create
does not, rename over a file does not copy that file's). Subdirectories stay empty.

`Restore` leaves an *orphan*: a hashed dentry whose name is free below. It is opened,
linked under another name if its inode has links left, and renamed over like any other,
since nothing in bkpfs looks at the lower dentry; only unlink and rename of it fail, in the
lower file system. `below` is the link count that file system keeps. What is assumed of
it: it looks a name up in its own directory, so that unlinking or moving a name that is
not there is `ENOENT`, while a rename over a victim takes a link from the victim's inode
unasked; a count does not go below 0; an inode that has a name is not given out again, but
one that counts no links may be gone when it is looked up. A rename over an orphan thus takes a second link
from an inode that has one name less already; with another hard link of it there, that
name is of an inode counted too low (`NamedIsCounted`, below). `LinksKept` says that
bkpfs's copies of the counts are good where the lower ones are.

### OpenFiles and PlainFile

`low` and `up` are the two sizes, `pos[f]` the upper position of opening `f`, `dpos` and
`dlow` the two positions of a directory. A read or write hands the upper position down;
`bkpfs_write` and `bkpfs_write_iter` then copy the size up, a read (`GetSize`) and a
write (`PutSize`) that others may come between; `bkpfs_setattr` sets the upper size,
then the lower (`StartTruncate`, `TruncateLower`, or `TruncateRefused`, after which the
upper size stays); `bkpfs_link` saves the upper size and writes it back. A directory's llseek (`SeekDir`) is
made twice, on the upper and on the lower file, each with its own position and its own
size: `Targets` is `generic_file_llseek` with all its whences, for any sizes, since the
upper one is what was last copied, and not always from the right inode. `lappend[f]` is
the flag of the lower file, set once at open; `SetFlags`, fcntl, changes the upper one
only. Bytes are not modelled: two layers that agree on position and size read and write
the same bytes.

`Spec` lets all calls overlap; `SerialSpec` has one call at a time, no refused
truncation and no change of flags, and implements `PlainFile`, where a file has one size
and an opening one position. The abstract size is the upper one, except within a
truncation. The claims of section 3 show that the conditions are needed.

### Redirected

`uref` and `lref` count the references to an open file and to its lower file, `vma` are
the mappings. The steps of `bkpfs_mmap` are the lower mmap, which is made only to get
its `vm_ops`, and the installation of bkpfs's own; a fault is in progress between
`StartFault` and `EndFault`, and others of the same mapping may be too. `StartIter`,
`Submit`, `RestoreFilp`, `PutLowerFile` and `EndIter` are `bkpfs_read_iter` and
`bkpfs_write_iter`, between which a queued request may `Complete`, which puts the file
that `ki_filp` then names. Descriptors are closed, mappings forked and unmapped at any
time the VFS allows it. `LateSpec` keeps the completion until the submitting call has
returned.

## 3. Runs

All passing runs explore their instance completely; `open_files` (and `claim_seek`) by a
constraint that leaves the directory as it was while the file is used and the other way
round, which loses nothing: the two share no variable and no action.

| run | shows | instance |
|---|---|---|
| `store_faults` | `TypeOK`, `BackupImmutable`, `WriteBacksUp`, `RestoreDeliversFirst`, `RemovedOnlyWhenDue` when every lower call may fail, and the int wraps | N = 1, ints −3..2, 3 modifications |
| `careful_use` | `WindowInv`, `RetentionBound`, `NeverRefused`, `ImplementsHistory`, `ListShowsAll`, `DoesAsAsked`, `NoDuplicates`, `AttributesAgree` | N = 2, 7 modifications, three kinds of stack garbage, bkpctl with numbers and a word |
| `two_tasks` | `TypeOK`, `UniqueNumbers`, `FilledOnce`, `OnlyCrashLeavesEmpty`, `CallsGetShorter`, `EveryCallReturns` | 2 tasks, 5 calls, N = 1, crashes anywhere |
| `serial_tasks` | `BackedUpFirst`, `NumbersSettled`, `RestoreLosesNothing`, `ImplementsStore` for calls that do not overlap | 2 tasks, 5 calls, 2 kinds of stack garbage, N = 1, crashes anywhere |
| `stack_holds` | `TypeOK`, `PathsAccounted`, `InodesAccounted`, `NamesAgree`, `LinksKept`, `DownHoldsNothing` | 4 dentries, 3 names, a file, a special file and a directory, 2 open files, 2 lost paths |
| `open_files` | `SerialInv`, `DirHonest`, `ImplementsPlainFile` | 2 openings, sizes 0..3, ints −2..1; directory offsets 0..4 |
| `redirected` | `TypeOK`, `RefsAccounted`, `NoBug` | 2 files, 2 mappings, 3 tasks, any number of calls |

*Bounds.* Retention acts on the number N below the new one; with N = 1 or 2 and
three or more writes it deletes, skips and fails, and the numbers run through the
window, the reset of delete-all and the reuse after an unlink. The small `IntMax`
lets the counter wrap in `store_faults`, and the result of a directory's seek turn
negative in `open_files`, or, at the offset 4, which stands for 2^32, into a wrong position. Two tasks suffice for the interleavings of the store, since
each step depends on one dentry and two attributes; five calls let one task create, a
second delete and a third take the number again. Two names of one inode and one free
name are enough for links and renames over each other; four dentries add an unlinked
one that is still open; a third mount and a second lost path show nothing the first did
not. Two openings and two counts let one write overtake the other on either side of a
truncation. Three tasks on two mappings let two faults meet an mmap or a request.

*Symmetry and views.* Dentries, files, names, mappings and tasks are interchangeable in
`stack_holds` and `redirected`, which check invariants only; the views of the store's
runs leave out the reply of the last call, which no action reads. The runs with a
liveness property use neither.

*Fairness.* `BackupTasks` assumes weak fairness of `Advance(t)` for each task: the
scheduler runs a task that is inside a call, and none of the steps waits for
another task (the locks are held within a step); `SerialSpec` of `SerialTasks` does the
same for its `SerialAdvance(t)`. Calls are not forced to begin
and nothing is assumed of crashes. There is no other fairness: what else is modelled is
either one action per call or has safety properties only.

*Deadlock* is checked, except where the system may really stop: `two_tasks` and the
claim about tasks (no more calls are made), and the run of `StackRefs` (the kernel
has stopped inside bkpfs, or the unmount left dentries in use).

### What the code does not do

Five runs check one sentence each, of the documentation or of a comment, and TLC refutes
it; only `claim_restore` needs a failure of the lower file system. They are listed as
findings.

| run | sentence | what happens |
|---|---|---|
| `claim_restore` (`RestoreIsWhole`) | the version is copied, then all are removed (README:62, 64) | `do_splice_direct` fails: the restored file is incomplete, all versions and the file itself are gone, and the call succeeds |
| `claim_two_writers` (`BackedUpFirst`) | a backup before each write (README:7) | both copy, then both write: the contents in between are lost |
| `claim_seek` (`DirPositionsAgree`) | both offsets are set consistently (`file.c` 715) | an absolute offset with bit 31 set looks like an error: the upper position has moved, the lower stays (a seek relative to the end parts them too, if the two sizes differ) |
| `claim_size` (`SizesAgreeAtRest`) | the size is updated after a lower write (`file.c` 200) | nothing but writes (`WritersSpec`): one reads the lower size, the other writes, copies the size and returns, the first stores the old size; both have returned, and the upper size is too small |
| `claim_aio` (`LowerHeld`) | the lower file is not released (`file.c` 750) | a request completes before `ki_filp` is set back, and puts the lower file |

More sentences are stated as properties, in `DocumentedClaims` (DC), `BackupTasks` (BT),
`StackRefs`, `OpenFiles` and `Bkpctl`, that TLC refutes in the same way when they
replace the properties of `ClaimRestore.cfg` (for DC; with `IntMax = 6`, `Faults = {}`,
`MaxTicks = 5` and without its view), `TwoTasks.cfg` (with `Crashes = FALSE`),
`StackHolds.cfg`, `ClaimSize.cfg` (with `SPECIFICATION Spec`) and `CarefulUse.cfg`; they
need little search or have a cause in common with others, so they have no run of their
own.

| property | sentence | what happens |
|---|---|---|
| DC `RetentionKeepsN` | at most N files (README:9) | write, reboot, write with N = 1: the outdated backup is not cached and is never looked for again |
| DC `NameIsFree` | the new backup has no lower dentry yet (README:45) | write, unlink, create, write: `EEXIST`, and the user's write is refused |
| DC `SmallestIsOldest` | the smallest version is the oldest (README:11) | write twice, unlink, create, delete 1, write: the new number 1 is younger than the old 2 |
| DC `RetentionNeverRefuses` | retention deletes X − N (README:49) | a deleted backup is looked at by name; later its negative dentry makes retention fail, and the write with it |
| DC `EveryChangeIsBackedUp` | a backup before each write (README:7) | writev, truncate, mappings |
| DC `DeleteAllDeletesAll` | all versions are deleted (README:57) | those not cached stay, and the count is reset |
| DC `RestoreDeletesAll` | restore deletes all versions (README:25, 104) | the loop starts from the present inode's revision; older backups stay |
| DC `ListsExistingVersions` | list shows the existing versions (README:122) | above N the oldest comes from an unset variable (`file.c` 509) |
| `Bkpctl` `ListedExist` | "Available versions are" (`bkpctl.c` 158) | the numbers of deleted backups are listed too |
| DC `DeletedIsNotOpened` | deleted files are not opened (`file.c` 617) | after a restore bkpfs's dentry is hashed still |
| BT `AttributesAgreeAtRest` | the attributes are carefully updated (README:49) | two writers' pairs of calls interleave and leave them different; `SerialAgree` proves it for calls that do not overlap |
| BT `RetentionAtRest` | at most N files (README:9) | a writer that was overtaken creates a backup that retention has passed |
| BT `RestoreLosesNothing` | restore delivers the version (README:25) | with two tasks: a writer has created that version and not filled it; it is delivered empty, filled, and purged |
| `StackRefs` `FailedMountDropsRefs` | a failed mount drops its references (`main.c` 112) | the root inode is put twice, or the root dentry released without private data |
| `StackRefs` `CallersPutPaths` | the caller puts the lower path (`bkpfs.h` 151) | write and ioctls do not; they are held after the unmount |
| `StackRefs` `NamedIsCounted` | the VFS, and the lower file system, count the links of a name | a, b name one inode; restore of a, then a rename over a: b is left with a count of 0 |
| `OpenFiles` `RefusedChangesNothing` | the VFS updates the upper size (`inode.c` 442) | the lower file system refuses a truncation, and the upper size has it |

## 4. Proofs

TLAPS proves the following for every N, every range of the int, every content of the
stack, every combination of faults and every bound, with the assumptions
`StoreAssumption` (and `CarefulAssumption`), which say what the constants are.

`BackupStoreProofs`, about `Spec` of `BackupStore`:

* `TypeCorrect`: `[]TypeOK`. The inductive part is that `warm` lies inside the
  directory and `negative` outside, across all calls and their failures; the int
  arithmetic stays in range because `Wrap` of a sum or difference of one is in it.
* `Immutable`: `BackupImmutable`. Every change of `saved` is `Put` of a number that
  is not there, or `Without`.
* `BacksUp`, `RemovedDue`, `RestoreDelivers`: one step lemma per call that changes
  `saved`, by cases on the outcomes of the call.
* `RestoresWhole`: `RestoreIsWhole`, from `"splice" \notin Faults`: whatever else fails, no
  version is purged by a restore unless the restored file has all of the one asked for.
* `Distinct`: `NoDuplicates`. It is inductive with `TypeOK`: a copy is followed by its
  write in the same call, so backups are all older than the text; new text is younger
  than all.
* `Agree`: `AttributesAgree`; `rev = young \/ rev = -1` is preserved by every call when
  nothing fails.

`CarefulUseProofs`, about `CarefulSpec`:

* `WindowCorrect`: `[]WindowInv`, the inductive invariant. That at most N backups are
  kept is not inductive by itself. What is: all numbers lie in the N numbers up to
  `rev` (`InWindow`), `rev` is the latest number taken and agrees with `young`
  (`Numbered`), number order is age order (`Ordered`), and no number is cached as
  missing while an orphan or absent file has no backups (`Tidy`). A write then finds the
  one backup that leaves the window cached, and the name of the new one free.
* `RetentionBounded`: at most N backups, from `InWindow` and the cardinality of an interval.
* `NoneRefused`: no call fails, since the number to take is above the window and those
  to delete are in it.
* `Refinement`: `CarefulSpec => History!Spec`, with the window shifted to 1..N as the
  refinement mapping; one step lemma per call. The mapping is why the window must move
  with `rev`: a write shifts it by one and drops its first place, deleting the youngest
  shifts it back.

`BkpctlProofs`, about `CtlSpec`:

* `ToolIsCareful`: every run of the tool is a step of `CarefulNext`, so that the
  theorems above hold for a user with bkpctl.
* `ListComplete`: `ListShowsAll`. Every backup is in the window, which ends at the
  attribute that the tool happens to count down from.
* `ToolDoesAsAsked`: `DoesAsAsked`, from the window too: delete-all and restore run from
  the last number down to 1, and no backup is outside.

`BackupTasksProofs`, about `Spec` of `BackupTasks`, for any set of tasks, any N and any
number of calls, from `TasksAssumption`:

* `Invariance`: the inductive invariant. `TypeOK` says that a dentry a task holds agrees
  with the directory; to it come what each step knows of the task's own variables (the
  number it works on is the one whose dentry it holds, its step fits the call), that
  a task about to copy or write created the backup of its number, and that an empty
  backup has such a task. An unlink turns the dentry of all who hold it at once, which
  is what keeps two tasks from owning one backup.
* `TasksTyped`, `NumbersUnique`, `EmptyBackupsFilled`, `BackupsFilledOnce`: its parts.
* `EmptyAfterCrashOnly`: `OnlyCrashLeavesEmpty`, the same with crashes, as a property of steps.
* `CallsShorten`: `CallsGetShorter`. Every step lowers the measure (place in the call,
  rounds of the loop), and no other task touches the step or the number of a call. The
  only invariant it needs is that the loop purges positive numbers. What is left of
  `EveryCallReturns` is that a task in a call is run, which is the fairness.
* `AloneBackedUp`, `AloneSettles`, `AloneDelivers`: for one task, with crashes, the
  attributes, the copy and the restored contents are still those it left behind
  itself.

`SerialTasksProofs`, about `SerialSpec` of `SerialTasks`, for any set of tasks, any N, any
stack garbage, any number of calls, and crashes between any two steps, from
`TasksAssumption` and `SerialAssumption`:

* `SerialInvariance`: `[]SerialInv`, the invariant of `BackupTasksProofs` together with
  what each step knows of the store as it was when its call began (`InCall`): a writer has
  taken its number from the attribute as it was; retention has removed exactly
  `Expired`; the loop has removed the cached numbers above the one it looks at; at rest
  the store is the one shown; after a crash it is that without its cache.
* `SerialImplementsStore`: `SerialSpec => Store!Spec`. A step within a call is a stutter; the
  step that returns is the whole call, by cases on where it returned; a crash is the
  call with the failure `Cut` names, or a stutter. For the loops this needs the last
  cached number below a given one (`Largest`), which is found by well-founded induction on
  the naturals in its form for sets, the one form of induction the provers can use.
* `CutCallsAreSafe`: the theorems of `BackupStoreProofs` therefore hold of calls taken
  apart: whatever a crash leaves behind, `BackupImmutable`, `WriteBacksUp`,
  `RemovedOnlyWhenDue` and `RestoreIsWhole` say what it may be. (A failing
  `do_splice_direct` is not among `CutCalls`; of it the last would not hold.)
* `SerialAgree`: `AttributesAgreeAtRest` when there are no crashes, from `Agree` of
  `BackupStoreProofs`.
* `SerialBackedUp`, `SerialSettles`, `SerialDelivers`: what is proved of a task alone holds of any
  number of tasks whose calls do not overlap.

The attempt at this refinement found a mistake in the model, since corrected: `View` could
never cache a name that was not cached before, so that a later call did not find the
backup the user had looked at.

`OpenFilesProofs`, about `SerialSpec` of `OpenFiles`, from `FilesAssumption`:

* `SizesMirrored`: `[]SerialInv`. At most one opening is in a call; a write has moved the
  lower size by what it wrote, a truncation the upper one, and neither more.
* `DirectoryHonest`: `DirHonest`, about `Spec`. The targets of an absolute seek are the same
  for both files; those of the others need not be, and what is answered is the lower one's.
* `PlainRefinement`: `SerialSpec => Plain!Spec`; the size of the plain file is the upper
  size, but the lower one within a truncation, which takes effect when it returns.

`RedirectedProofs`, about `Redirected`, for any files, mappings and tasks, from
`RedirectedAssumption`. Of `Spec`, where a request may complete at any time:

* `AnyInductive`: its inductive invariant. It says what each step knows of its call
  (`CallsKnown`: it is in a mapping of its file), that an mmap has its mapping for itself
  until it is installed, with `vm_ops` from below or saved (`MapsFit`), and that an
  installed mapping finds them (`VmasFit`). `bkpfs_open` clears the saved `vm_ops`; that
  no mapping of the file is left then follows from `UpperHeld`: a request that completes
  early puts the lower file instead of the upper one, so the count of the upper may be too
  large, but is never smaller than the number of its users. The lower count has no such
  bound (`claim_aio`), and is not in this invariant.
* `FaultsAlwaysFindOps`, `UpperAlwaysHeld`: its parts. `UpperHeld` is in no run: under
  `LateSpec` it follows from `RefsAccounted`, and an early completion leaves references
  over, so `Spec` has unboundedly many states.

Of `LateSpec`, where requests complete late:

* `Inductive`: to the first invariant come `RefsAccounted` and `CallsFit`, that an iocb
  points down from submit to restore only. Whoever puts a file is in the set whose size
  its count is, so the count is positive and the last put is the only one that releases.
* `RedirectedTyped`, `ReferencesAccounted`: its parts.
* `LateLowerHeld`: `LowerHeld`, which `claim_aio` refutes for `Spec`. What makes the
  difference is only whether a request may complete before its iocb is restored.

`StackRefsProofs`, about `Spec` of `StackRefs`, for any names, inodes, dentries, files and
faults, from `StackAssumption`:

* `RefInvariance`: the inductive invariant. To `PathsAccounted` and `InodesAccounted` comes
  `HeldByMount`: an open file has its dentry, the root inode and the superblock reference
  are the mount's, and without a mount nothing is open or cached. The counts are
  cardinalities, so there is one lemma for each way a step moves them: a dentry is added,
  one goes, all are kept, paths are lost; the operations are combinations of these.
* `StackTyped`, `PathsHeld`, `InodesHeld`, `DownIsClean`: its parts and a consequence.
* `NamesHold`: `NamesAgree`, inductive once the references are accounted for: whoever enters
  a name below finds no hashed dentry of it, or, in a rename, takes its place.
* `LinksHold`: `LinksKept`, inductive with both. An inode that gets a name has no upper
  inode yet, or its count is copied, or it had a name already; and the root loses a
  subdirectory only in a step that copies the root's count.

Only model-checked: `EveryCallReturns`, for liveness and `ENABLED` are out of the prover's
reach, and the refuted claims.

## 5. Not modelled

Bytes, times, owners and modes; files in subdirectories; readlink and get_link; NFS
handles; module load and unload; remount, statfs and permissions; the formatting of
names and the buffers they are formatted into; the pages of a mapping, which are the
lower file system's. `wrapfs.h` repeats `bkpfs.h`; `bkpfs.mod.c` is generated.

Seen on the way, and in no property, because it concerns what is left out:

* `file.c` 112: the int of an attribute is read and set with a size of 20 bytes;
* `file.c` 269: the buffer every ioctl allocates is never freed;
* `file.c` 287: `q->name + 11` is the length of `/mnt/bkpfs/`, so files in
  subdirectories, or under another mount point, get other names;
* `file.c` 492: the buffer of a version of 1024 bytes is not terminated;
* `file.c` 784: a queued request's size is copied before the request has changed it;
* `inode.c` 83: `bkpfs_link` gives the directory's upper inode the size and times of the file;
* `super.c` 33: `put_super` drops `s_active` by `atomic_dec`, and deactivates nothing;
* `super.c` 179: the reference `ilookup` takes is never put, its NULL not looked at, and the
  dentry made for the handle has no private data;
* `main.c` 136: `generic_shutdown_super` does not free the anonymous device of `mount_nodev`;
* `main.c` 164: the caches are destroyed before the file system is unregistered;
* `bkpctl.c` 63, 110: a word is taken for version 0, all of them; a file that cannot be
  opened gives exit status 0.

## 6. Plan

What is left, in this order:

1. Two names in the store: rename and hard links with their backups.
2. NFS handles and files in subdirectories in `StackRefs`; then module load and unload.
3. Failures of lower calls in `BackupTasks`.
