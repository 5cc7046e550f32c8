----------------------------- MODULE StackRefs -----------------------------
(***************************************************************************)
(* How a bkpfs mount holds on to the file system below it: mounting and    *)
(* unmounting (main.c, super.c), dentries and inodes (lookup.c, dentry.c,  *)
(* inode.c) and open files (file.c), for one directory, the root of the    *)
(* mount, with files, empty directories, symlinks and device nodes in it.  *)
(* Each action is one operation of the VFS, which locks the directory for  *)
(* it; allocations and lower calls fail at the places where the code       *)
(* handles it.                                                             *)
(*                                                                         *)
(* An upper dentry holds a lower path, an open file another, and the upper *)
(* inode, shared by all dentries of a hard-linked file, holds the lower    *)
(* inode and has a copy of its link count.  bkpfs never hashes a negative  *)
(* dentry: one that lookup leaves negative is used by the creation that    *)
(* asked for it, or released, so it lasts no longer than an action.        *)
(*                                                                         *)
(* A variant before an operator is a mistake the code could have made      *)
(* there, used to see that a property notices it.                          *)
(***************************************************************************)
EXTENDS Integers, FiniteSets

CONSTANTS
  Names,     \* names in the directory
  Inos,      \* lower inodes
  Subdirs,   \* those that are of directories
  Special,   \* those that are of symlinks and device nodes
  Root,      \* lower inode of the directory
  Dents,     \* bound: upper dentries
  Files,     \* bound: open files
  Faults,    \* what may fail
  MaxLost,   \* bound: lower paths that are never put
  Nil

FaultKinds == {"alloc", "iget", "make_root", "create", "unlink", "open"}

ASSUME StackAssumption ==
  /\ IsFiniteSet(Names) /\ IsFiniteSet(Dents) /\ IsFiniteSet(Files)
  /\ Subdirs \subseteq Inos /\ Special \subseteq Inos \ Subdirs
  /\ Root \notin Inos /\ Nil \notin Names \cup Inos \cup {Root} \cup Dents
  /\ Faults \subseteq FaultKinds
  /\ MaxLost \in Nat

VARIABLES
  mount,   \* "down", "up", "busy": unmounted with dentries in use,
           \* or "dead": the kernel has stopped in bkpfs
  dir,     \* the lower directory: name -> lower inode
  below,   \* i_nlink of the lower inodes in it
  dent,    \* the upper dentries
  files,   \* files[f]: the dentry open file f was opened by
  icount,  \* references to the upper inode over a lower inode
  lower,   \* references of bkpfs to a lower inode
  paths,   \* references of bkpfs to lower paths
  active,  \* references of bkpfs to the lower superblock
  nlink,   \* i_nlink of the upper inode over a lower inode, 0 if there is none
  lost,    \* of paths: those that calls of file.c have not put
  pinned   \* whether such a call has left the root dentry in use

refs == <<icount, lower, paths, active>>
leak == <<lost, pinned>>
vars == <<mount, dir, below, dent, files, refs, nlink, leak>>

Regular == Inos \ (Subdirs \cup Special)
AllInos == Inos \cup {Root}

Free == [state |-> "free", name |-> Nil, ino |-> Nil]

\* An orphan is hashed; its lower file has been unlinked by restore, which leaves
\* the lower dentry unhashed, but positive.
Dentry == {Free} \cup
  [state : {"hashed", "orphan", "unhashed"}, name : Names, ino : Inos]

TypeOK ==
  /\ mount \in {"down", "up", "busy", "dead"}
  /\ dir \in [Names -> Inos \cup {Nil}] /\ below \in [Inos -> Nat]
  /\ dent \in [Dents -> Dentry]
  /\ files \in [Files -> Dents \cup {Nil}]
  /\ icount \in [AllInos -> Int]
  /\ lower \in [AllInos -> Nat]
  /\ paths \in Nat /\ active \in Nat
  /\ nlink \in [AllInos -> Nat]
  /\ lost \in Nat /\ pinned \in BOOLEAN

NamesOf(S, dr) == {n \in Names : dr[n] \in S}

Init ==
  /\ mount = "down"
  /\ dir \in [Names -> Inos \cup {Nil}]
  /\ \A i \in Subdirs : Cardinality(NamesOf({i}, dir)) <= 1
  /\ below = [i \in Inos |-> LET k == Cardinality(NamesOf({i}, dir))
                             IN IF i \in Subdirs THEN 2 * k ELSE k]
  /\ dent = [d \in Dents |-> Free]
  /\ files = [f \in Files |-> Nil]
  /\ icount = [i \in AllInos |-> 0]
  /\ lower = [i \in AllInos |-> 0]
  /\ nlink = [i \in AllInos |-> 0]
  /\ paths = 0 /\ active = 0 /\ lost = 0 /\ pinned = FALSE

Fails(what) == what \in Faults
Live == {d \in Dents : dent[d] # Free}
Users(i) == {d \in Live : dent[d].ino = i}
Hashed(d) == dent[d].state \in {"hashed", "orphan"}
Unknown(n) == \A d \in Live : Hashed(d) => dent[d].name # n
OpenFiles == {f \in Files : files[f] # Nil}
OpenedBy(d) == {f \in Files : files[f] = d}

-----------------------------------------------------------------------------
\* The lower file system counts the links of an inode it enters under a name, or
\* takes a name from; no count goes below 0.
Linked(i) == below' = [below EXCEPT ![i] = IF i \in Subdirs THEN 2 ELSE @ + 1]
Unlinked(i) ==
  below' = [below EXCEPT ![i] = IF i \in Subdirs \/ @ = 0 THEN 0 ELSE @ - 1]

LinksBelow(i) ==
  IF i = Root THEN 2 + Cardinality(NamesOf(Subdirs, dir)) ELSE below[i]

\* fsstack_copy_attr_all and set_nlink of the inodes in S; bkpfs_iget copies the
\* count too, to the inodes that are new.
Copied(S) ==
  nlink' = [i \in AllInos |->
              IF icount'[i] <= 0 THEN 0
              ELSE IF i \in S \/ icount[i] <= 0 THEN LinksBelow(i)' ELSE nlink[i]]
CopiedToNew == Copied({})

\* bkpfs_iget: a new upper inode keeps the lower reference, a cached one not.
IgetKeepsLower(i) ==
  /\ icount' = [icount EXCEPT ![i] = @ + 1]
  /\ lower' = [lower EXCEPT ![i] = @ + 1]
Iget(i) ==
  /\ icount' = [icount EXCEPT ![i] = @ + 1]
  /\ lower' = IF icount[i] = 0 THEN [lower EXCEPT ![i] = @ + 1] ELSE lower

\* iput; the last one evicts the inode, with its lower reference.
Iput(i) ==
  /\ icount' = [icount EXCEPT ![i] = @ - 1]
  /\ lower' = IF icount[i] = 1 THEN [lower EXCEPT ![i] = @ - 1] ELSE lower

\* A free dentry becomes that of name n; the lower path it is given is held.
Interpose(n, i) ==
  /\ \E d \in Dents \ Live :
       dent' = [dent EXCEPT ![d] = [state |-> "hashed", name |-> n, ino |-> i]]
  /\ Iget(i) /\ paths' = paths + 1

\* bkpfs_put_reset_lower_path, after lookup has set the path and got no inode.
NotInterposedPathKept == paths' = paths + 1 /\ UNCHANGED <<dent, icount, lower>>
NotInterposed == UNCHANGED <<dent, icount, lower, paths>>

\* bkpfs_d_release, when nobody uses the dentry any more.
Dispose(d) ==
  /\ dent' = [dent EXCEPT ![d] = Free]
  /\ Iput(dent[d].ino) /\ paths' = paths - 1

\* d_drop: the dentry is unhashed, and goes unless a file is open by it.
\* (Were it made negative, a file could be open without an inode.)
DropNegative(d) ==
  IF OpenedBy(d) # {}
  THEN /\ dent' = [dent EXCEPT ![d].state = "unhashed", ![d].ino = Nil]
       /\ Iput(dent[d].ino) /\ UNCHANGED paths
  ELSE Dispose(d)
DropIfOpen(d) ==
  IF OpenedBy(d) # {} THEN UNCHANGED <<dent, icount, lower, paths>> ELSE Dispose(d)
Drop(d) ==
  IF OpenedBy(d) # {}
  THEN /\ dent' = [dent EXCEPT ![d].state = "unhashed"]
       /\ UNCHANGED <<icount, lower, paths>>
  ELSE Dispose(d)

-----------------------------------------------------------------------------
(* bkpfs_read_super.                                                         *)
Mount ==
  /\ mount = "down" /\ mount' = "up"
  /\ paths' = paths + 1 /\ active' = active + 1 /\ Iget(Root)
  /\ UNCHANGED <<dir, below, dent, files, leak>> /\ CopiedToNew

\* The labels out_free and out_sput, for what was taken before the failure.
PathPut(p) == p - 1
SuperPut(a) == a - 1

MountRefused ==
  /\ mount = "down"
  /\ \/ /\ Fails("alloc")
        /\ paths' = PathPut(paths + 1) /\ UNCHANGED active
     \/ /\ Fails("iget")
        /\ paths' = PathPut(paths + 1) /\ active' = SuperPut(active + 1)
  /\ UNCHANGED <<mount, dir, below, dent, files, icount, lower, nlink, leak>>

\* d_make_root puts the inode when it fails, and bkpfs_read_super does again.
MountNoRoot ==
  /\ mount = "down" /\ Fails("make_root")
  /\ mount' = "dead"
  /\ icount' = [icount EXCEPT ![Root] = -1]
  /\ paths' = paths + 1 /\ active' = active + 1
  /\ UNCHANGED <<dir, below, dent, files, lower, nlink, leak>>

\* Without private data the root dentry cannot be released: d_release takes
\* the lock in it.
MountNoPrivateData ==
  /\ mount = "down" /\ Fails("alloc")
  /\ mount' = "dead"
  /\ paths' = paths + 1 /\ active' = active + 1 /\ Iget(Root)
  /\ UNCHANGED <<dir, below, dent, files, leak>> /\ CopiedToNew

\* generic_shutdown_super releases every dentry that nobody uses, the root
\* last, and calls bkpfs_put_super.
PutSuperKeeps == UNCHANGED active
PutSuper == active' = active - 1

Unmount ==
  /\ mount = "up" /\ OpenFiles = {}
  /\ mount' = IF pinned THEN "busy" ELSE "down"
  /\ dent' = [d \in Dents |-> Free]
  /\ icount' = [i \in AllInos |->
                  IF i = Root /\ ~pinned THEN icount[i] - 1
                  ELSE icount[i] - Cardinality(Users(i))]
  /\ lower' = [i \in AllInos |->
                 IF icount[i] > 0 /\ icount'[i] = 0 THEN lower[i] - 1 ELSE lower[i]]
  /\ paths' = paths - Cardinality(Live) - (IF pinned THEN 0 ELSE 1)
  /\ PutSuper
  /\ UNCHANGED <<dir, below, files, leak>> /\ CopiedToNew

-----------------------------------------------------------------------------
\* bkpfs_lookup of a name that is there.  If its inode has no links left, the lower
\* file system may have freed it (ESTALE).
Lookup(n) ==
  /\ mount = "up" /\ Unknown(n) /\ dir[n] # Nil
  /\ \/ Interpose(n, dir[n])
     \/ (Fails("iget") \/ below[dir[n]] = 0) /\ NotInterposed
  /\ UNCHANGED <<mount, dir, below, files, active, leak>> /\ CopiedToNew

\* What makes a lower inode, after a lookup that found nothing.  Without an upper
\* inode the call fails; the lower file stays.  If all is well, the parent gets
\* the lower one's times and size, and its count in mkdir only.
ParentOf(i) == IF i \in Subdirs THEN {Root} ELSE {}

Make(n, i) ==
  /\ mount = "up" /\ Unknown(n) /\ dir[n] = Nil
  /\ lower[i] = 0 /\ \A m \in Names : dir[m] # i
  /\ \/ Fails("create") /\ UNCHANGED <<dir, below>> /\ NotInterposed /\ CopiedToNew
     \/ /\ dir' = [dir EXCEPT ![n] = i] /\ Linked(i)
        /\ \/ Interpose(n, i) /\ Copied(ParentOf(i))
           \/ Fails("iget") /\ NotInterposed /\ CopiedToNew
  /\ UNCHANGED <<mount, files, active, leak>>

Create(n, i) == i \in Regular /\ Make(n, i)
Symlink(n, i) == i \in Special /\ Make(n, i)
Mknod(n, i) == i \in Special /\ Make(n, i)
Mkdir(n, i) == i \in Subdirs /\ Make(n, i)

\* bkpfs_link of dentry d, which may be an orphan, under the name n.  vfs_link of
\* either layer refuses an inode that it counts no links of.
Linkable(i) == nlink[i] > 0 /\ below[i] > 0

Link(d, n) ==
  /\ mount = "up" /\ Hashed(d) /\ Unknown(n) /\ dir[n] = Nil
  /\ dent[d].ino \notin Subdirs
  /\ \/ /\ Fails("create") \/ ~Linkable(dent[d].ino)
        /\ UNCHANGED <<dir, below>> /\ NotInterposed /\ CopiedToNew
     \/ /\ Linkable(dent[d].ino)
        /\ dir' = [dir EXCEPT ![n] = dent[d].ino] /\ Linked(dent[d].ino)
        /\ \/ Interpose(n, dent[d].ino) /\ Copied({dent[d].ino})
           \/ Fails("iget") /\ NotInterposed /\ CopiedToNew
  /\ UNCHANGED <<mount, files, active, leak>>

\* bkpfs_unlink sets the count of the inode; bkpfs_rmdir clears it, and sets
\* that of the parent.  Of an orphan the lower unlink fails.
CountsCleared(d) ==
  nlink' = [nlink EXCEPT ![dent[d].ino] = 0, ![Root] = LinksBelow(Root)']
CountsAfter(d) == Copied({dent[d].ino} \cup ParentOf(dent[d].ino))

Remove(d) ==
  /\ mount = "up" /\ Hashed(d)
  /\ \/ /\ dent[d].state = "hashed"
        /\ dir' = [dir EXCEPT ![dent[d].name] = Nil] /\ Unlinked(dent[d].ino)
        /\ Drop(d) /\ CountsAfter(d)
     \/ /\ dent[d].state = "orphan" \/ Fails("unlink")
        /\ UNCHANGED <<dir, below, dent, icount, lower, paths, nlink>>
  /\ UNCHANGED <<mount, files, active, leak>>

Unlink(d) == dent[d].ino \notin Subdirs /\ Remove(d)
Rmdir(d) == dent[d].ino \in Subdirs /\ Remove(d)

\* bkpfs_rename of d to a name that is free, and the d_move of the VFS.  An orphan
\* cannot be moved: the lower directory does not have it.
Rename(d, n) ==
  /\ mount = "up" /\ dent[d].state = "hashed" /\ Unknown(n) /\ dir[n] = Nil
  /\ dir' = [dir EXCEPT ![n] = dent[d].ino, ![dent[d].name] = Nil]
  /\ dent' = [dent EXCEPT ![d].name = n]
  /\ UNCHANGED <<mount, below, files, refs, leak>> /\ Copied({Root})

\* bkpfs_rename of d over the file of dentry e, whose count it leaves.  Nothing in
\* it looks whether e is an orphan: the lower file system enters d under the name,
\* and takes a link from the inode of e, whose name was gone already.
RenameOver(d, e) ==
  /\ mount = "up" /\ dent[d].state = "hashed" /\ Hashed(e)
  /\ dent[d].ino # dent[e].ino
  /\ dent[d].ino \in Subdirs <=> dent[e].ino \in Subdirs
  /\ dir' = [dir EXCEPT ![dent[e].name] = dent[d].ino, ![dent[d].name] = Nil]
  /\ Unlinked(dent[e].ino)
  /\ IF OpenedBy(e) # {}
     THEN /\ dent' = [dent EXCEPT ![d].name = dent[e].name, ![e].state = "unhashed"]
          /\ UNCHANGED <<icount, lower, paths>>
     ELSE /\ dent' = [dent EXCEPT ![d].name = dent[e].name, ![e] = Free]
          /\ Iput(dent[e].ino) /\ paths' = paths - 1
  /\ UNCHANGED <<mount, files, active, leak>> /\ Copied({Root})

\* bkpfs_getattr, setattr, setxattr and removexattr copy the attributes.
CopyAttributes(d) ==
  /\ mount = "up" /\ dent[d] # Free
  /\ UNCHANGED <<mount, dir, below, dent, files, refs, leak>> /\ Copied({dent[d].ino})

\* The kernel reclaims a dentry that is not in use.
Shrink(d) ==
  /\ mount = "up" /\ Hashed(d) /\ OpenedBy(d) = {}
  /\ Dispose(d)
  /\ UNCHANGED <<mount, dir, below, files, active, leak>> /\ CopiedToNew

-----------------------------------------------------------------------------
\* bkpfs_open: dentry_open holds the lower path for as long as the file.  Device
\* nodes have other operations, and symlinks are followed.
Open(f, d) ==
  /\ mount = "up" /\ files[f] = Nil /\ Hashed(d) /\ dent[d].ino \notin Special
  /\ UNCHANGED <<mount, dir, below, dent, icount, lower, active, leak>>
  /\ \/ /\ files' = [files EXCEPT ![f] = d] /\ paths' = paths + 1
        /\ Copied({dent[d].ino})
     \/ (Fails("open") \/ Fails("alloc")) /\ UNCHANGED <<files, paths, nlink>>

\* bkpfs_file_release, and the end of the dentry if it is unlinked.
Release(f) ==
  /\ files[f] # Nil /\ mount = "up"
  /\ files' = [files EXCEPT ![f] = Nil]
  /\ LET d == files[f]
     IN IF dent[d].state = "unhashed" /\ OpenedBy(d) = {f}
        THEN /\ dent' = [dent EXCEPT ![d] = Free]
             /\ Iput(dent[d].ino) /\ paths' = paths - 2
        ELSE /\ paths' = paths - 1 /\ UNCHANGED <<dent, icount, lower>>
  /\ UNCHANGED <<mount, dir, below, active, leak>> /\ CopiedToNew

\* What bkpfs_write and the ioctls take and do not put: they call dget_parent,
\* and none of their bkpfs_get_lower_path, dentry_open and d_alloc is undone.
Loses(k) ==
  /\ lost + k <= MaxLost
  /\ lost' = lost + k /\ paths' = paths + k /\ pinned' = TRUE

\* bkpfs_write: the new dentry, the two paths and two files of the copy, and the
\* parent's path for retention, or as many of them as it gets to.  The backups
\* themselves are not among Names.  It sets attributes, and so copies them.
Write(f) ==
  /\ mount = "up" /\ files[f] # Nil /\ dent[files[f]].ino \in Regular
  /\ \E k \in 0..6 : Loses(k)
  /\ UNCHANGED <<mount, dir, below, dent, files, icount, lower, active>>
  /\ CopiedToNew \/ Copied({dent[files[f]].ino})

\* ioctl 1000 and 1002, and 1001 failing at once: a parent's path at least.
Ioctl(f) ==
  /\ mount = "up" /\ files[f] # Nil
  /\ \E k \in 1..MaxLost : Loses(k)
  /\ UNCHANGED <<mount, dir, below, dent, files, icount, lower, active>>
  /\ CopiedToNew \/ Copied({dent[files[f]].ino})

\* ioctl 1001 unlinks the lower file that has the name, and leaves the upper
\* dentry of that name hashed.
Restore(f) ==
  /\ mount = "up" /\ files[f] # Nil
  /\ LET n == dent[files[f]].name
     IN /\ dir[n] \in Inos \ Subdirs /\ dir' = [dir EXCEPT ![n] = Nil]
        /\ Unlinked(dir[n])
        /\ dent' = [d \in Dents |->
                      IF dent[d].state = "hashed" /\ dent[d].name = n
                      THEN [dent[d] EXCEPT !.state = "orphan"] ELSE dent[d]]
  /\ \E k \in 1..MaxLost : Loses(k)
  /\ UNCHANGED <<mount, files, icount, lower, active, nlink>>

-----------------------------------------------------------------------------
Next ==
  \/ Mount \/ MountRefused \/ MountNoRoot \/ MountNoPrivateData \/ Unmount
  \/ \E n \in Names : \/ Lookup(n)
                      \/ \E i \in Inos : \/ Create(n, i) \/ Symlink(n, i)
                                        \/ Mknod(n, i) \/ Mkdir(n, i)
  \/ \E d \in Dents : \/ Unlink(d) \/ Rmdir(d) \/ Shrink(d) \/ CopyAttributes(d)
                      \/ \E n \in Names : Link(d, n) \/ Rename(d, n)
                      \/ \E e \in Dents : RenameOver(d, e)
  \/ \E f \in Files : \/ Release(f) \/ Write(f) \/ Ioctl(f) \/ Restore(f)
                      \/ \E d \in Dents : Open(f, d)

Spec == Init /\ [][Next]_vars

-----------------------------------------------------------------------------
(* Properties.                                                               *)

\* Every lower path bkpfs holds is that of a dentry, of an open file or of the
\* root, or has been lost by a call of file.c: no other operation, finished or
\* failed half way, keeps one or puts one that is still in use.
PathsAccounted ==
  mount # "dead" =>
    paths = Cardinality(Live) + Cardinality(OpenFiles)
              + (IF mount \in {"up", "busy"} THEN 1 ELSE 0) + lost

\* There is an upper inode for as long as a dentry needs it, however many hard
\* links of it come and go, and it holds one reference to its lower inode.
InodesAccounted ==
  mount # "dead" => \A i \in Inos :
    /\ icount[i] = Cardinality(Users(i))
    /\ lower[i] = IF icount[i] > 0 THEN 1 ELSE 0

\* A name is hashed once.  It stands for the lower inode that the lower directory
\* has under it, or, if restore has unlinked that, for nothing: the dentry that
\* restore leaves hashed never hides another file that took its name, by creation,
\* link or rename.
NamesAgree ==
  \A d \in Live : Hashed(d) =>
    /\ dir[dent[d].name] = IF dent[d].state = "hashed" THEN dent[d].ino ELSE Nil
    /\ \A e \in Live : Hashed(e) /\ dent[e].name = dent[d].name => e = d

\* A file system whose mount was refused before it had a root dentry, or that has
\* been unmounted with no dentry left in use by file.c, holds nothing of the one
\* below it.
DownHoldsNothing ==
  mount = "down" => /\ paths = 0 /\ active = 0
                    /\ \A i \in AllInos : lower[i] = 0

\* An inode that the lower directory has under a name, and counts links of, is never
\* taken above for one that is going away (the VFS refuses to link to a count of 0),
\* and the directory never claims subdirectories that are not there, whichever call
\* failed half way.  That the lower layer counts no links of a named inode is what a
\* rename over a restored file leads to: NamedIsCounted.
LinksKept ==
  mount = "up" =>
    /\ \A n \in Names :
         dir[n] # Nil /\ icount[dir[n]] > 0 /\ below[dir[n]] > 0 => nlink[dir[n]] > 0
    /\ 2 <= nlink[Root] /\ nlink[Root] <= LinksBelow(Root)

\* What bkpfs should keep of the lower layer, and does not: restore unlinks one of
\* the hard links of a file, a rename over the dentry it leaves hashed takes a second
\* link from the count, and the other name is that of an inode with too few links.
NamedIsCounted == \A n \in Names : dir[n] # Nil => below[dir[n]] > 0

\* main.c:112, "drop refs we took earlier": whatever a mount fails of, it leaves
\* the references as they were.
FailedMountDropsRefs ==
  [][mount = "down" /\ mount' # "up" => UNCHANGED refs]_vars

\* bkpfs.h:151, "Caller must path_put it": after the unmount no path is held.
CallersPutPaths == mount \in {"down", "busy"} => paths = 0
=============================================================================
