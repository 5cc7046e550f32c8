----------------------------- MODULE OpenFiles -----------------------------
(***************************************************************************)
(* Reads, writes, seeks and truncations of a regular file by several       *)
(* openings of it, and the position of an open directory (file.c, and      *)
(* bkpfs_setattr and bkpfs_link of inode.c).  bkpfs keeps what the layer   *)
(* below keeps too: the upper inode has the size, for fstat and SEEK_END,  *)
(* and the upper file the position, which read and write hand down; a      *)
(* directory is read from the lower position.                              *)
(*                                                                         *)
(* A call of an opening excludes another of the same (the VFS locks its    *)
(* position), not those of other openings: its steps are those between     *)
(* which they may run.  The backups a write makes are in BackupStore.      *)
(*                                                                         *)
(* A variant before an operator is a mistake the code could have made      *)
(* there, used to see that a property notices it.                          *)
(***************************************************************************)
EXTENDS Integers

CONSTANTS
  Files,    \* openings of the file
  Counts,   \* numbers of bytes read or written
  MaxSize,  \* bound: largest size and offset of the file
  MaxOffset,\* largest offset of the directory (s_maxbytes)
  IntMax,   \* largest value of a C int
  Nil       \* position of an opening that is closed

ASSUME FilesAssumption ==
  /\ Counts \subseteq Nat \ {0}
  /\ MaxSize \in Nat /\ MaxOffset \in Nat /\ IntMax \in Nat
  /\ Nil \notin Int

VARIABLES
  low,      \* size of the lower inode
  up,       \* size of the upper inode
  pos,      \* pos[f]: the position of the upper file
  append,   \* append[f]: O_APPEND of the upper file
  lappend,  \* lappend[f]: O_APPEND of the lower file
  pc,       \* pc[f]: the step the call made through f is to take
  count,    \* count[f]: bytes that call has written
  to,       \* to[f]: the position it has come to
  size,     \* size[f]: the size it has read, or is to set
  answer,   \* what the last call returned
  dpos,     \* position of the open directory
  dlow,     \* position of its lower file
  said      \* its last call, and what that, if it was an llseek, answered

inode  == <<low, up>>
flags  == <<append, lappend>>
locals == <<pc, count, to, size>>
dirs   == <<dpos, dlow, said>>
vars   == <<inode, pos, flags, locals, answer, dirs>>

Sizes == 0..MaxSize
Offsets == 0..MaxOffset
Whences == {"set", "cur", "end", "data", "hole"}
Failed == -1

\* A long long assigned to an int.
Int32(x) == ((x + IntMax + 1) % (2 * (IntMax + 1))) - (IntMax + 1)

TypeOK ==
  /\ low \in Sizes /\ up \in Sizes
  /\ pos \in [Files -> Sizes \cup {Nil}]
  /\ append \in [Files -> BOOLEAN] /\ lappend \in [Files -> BOOLEAN]
  /\ pc \in [Files -> {"idle", "getsize", "putsize", "notify", "link"}]
  /\ count \in [Files -> Counts \cup {0}]
  /\ to \in [Files -> Sizes] /\ size \in [Files -> Sizes]
  /\ answer \in Sizes \cup Counts \cup {Failed}
  /\ dpos \in Offsets /\ dlow \in Offsets
  /\ said \in [call : Whences \cup {"read"}, answer : Int]

Init ==
  /\ low \in Sizes /\ up = low
  /\ pos = [f \in Files |-> Nil]
  /\ append = [f \in Files |-> FALSE] /\ lappend = [f \in Files |-> FALSE]
  /\ pc = [f \in Files |-> "idle"]
  /\ count = [f \in Files |-> 0]
  /\ to = [f \in Files |-> 0] /\ size = [f \in Files |-> 0]
  /\ answer = 0
  /\ dpos = 0 /\ dlow = 0 /\ said = [call |-> "read", answer |-> 0]

-----------------------------------------------------------------------------
Idle(f) == pos[f] # Nil /\ pc[f] = "idle"
Go(f, step) == pc' = [pc EXCEPT ![f] = step]
Return(f, result) == /\ pc' = [pc EXCEPT ![f] = "idle"]
                     /\ count' = [count EXCEPT ![f] = 0]
                     /\ to' = [to EXCEPT ![f] = 0]
                     /\ size' = [size EXCEPT ![f] = 0]
                     /\ answer' = result
Set(f, p) == pos' = [pos EXCEPT ![f] = p]

\* The VFS locks the upper inode around setattr and link.
InodeLocked == \E f \in Files : pc[f] \in {"notify", "link"}

\* bkpfs_open gives the lower file the flags of the upper.
Open(f) ==
  /\ pos[f] = Nil /\ Set(f, 0) /\ answer' = 0
  /\ \E a \in BOOLEAN : /\ append' = [append EXCEPT ![f] = a]
                        /\ lappend' = [lappend EXCEPT ![f] = a]
  /\ UNCHANGED <<inode, locals, dirs>>

Close(f) ==
  /\ Idle(f) /\ Set(f, Nil) /\ answer' = 0
  /\ UNCHANGED <<inode, flags, locals, dirs>>

\* fcntl(F_SETFL) reaches the upper file only.
SetFlags(f) ==
  /\ Idle(f) /\ answer' = 0
  /\ append' = [append EXCEPT ![f] = ~@]
  /\ UNCHANGED <<inode, pos, lappend, locals, dirs>>

\* The inode is forgotten while nobody has it open; bkpfs_iget copies the size.
Iget ==
  /\ \A f \in Files : pos[f] = Nil
  /\ up' = low
  /\ UNCHANGED <<low, pos, flags, locals, answer, dirs>>

-----------------------------------------------------------------------------
\* vfs_read of the lower file from the upper position, up to the lower size.
ReadAt(f) ==
  /\ Idle(f)
  /\ \E n \in Counts \cup {0} :
       /\ n = 0 => pos[f] >= low
       /\ n > 0 => pos[f] + n <= low
       /\ Set(f, pos[f] + n) /\ answer' = n
  /\ UNCHANGED <<inode, flags, locals, dirs>>

Read(f) == ReadAt(f)
ReadIter(f) == ReadAt(f)

\* The lower file system writes n bytes at the position it is given, or, for
\* O_APPEND, at its own end; it may refuse, at the largest size and otherwise.
WriteLower(f, appends) ==
  /\ Idle(f)
  /\ \/ \E n \in Counts :
          LET end == (IF appends THEN low ELSE pos[f]) + n
          IN /\ end <= MaxSize
             /\ low' = IF end > low THEN end ELSE low
             /\ to' = [to EXCEPT ![f] = end]
             /\ count' = [count EXCEPT ![f] = n]
             /\ Go(f, "getsize")
             /\ UNCHANGED <<size, answer>>
     \/ answer' = Failed /\ UNCHANGED <<low, locals>>
  /\ UNCHANGED <<up, pos, flags, dirs>>

\* vfs_write looks at the flags of the lower file, the iocb has the upper's.
Write(f) == WriteLower(f, lappend[f])
WriteIter(f) == WriteLower(f, append[f])

\* fsstack_copy_inode_size: a read and a write, under no lock.
GetSizeBlind(f) ==
  /\ pc[f] = "getsize" /\ Go(f, "putsize")
  /\ size' = [size EXCEPT ![f] = to[f]]
  /\ UNCHANGED <<inode, pos, flags, count, to, answer, dirs>>
GetSize(f) ==
  /\ pc[f] = "getsize" /\ Go(f, "putsize")
  /\ size' = [size EXCEPT ![f] = low]
  /\ UNCHANGED <<inode, pos, flags, count, to, answer, dirs>>

PutSize(f) ==
  /\ pc[f] = "putsize"
  /\ up' = size[f]
  /\ Set(f, to[f]) /\ Return(f, count[f])
  /\ UNCHANGED <<low, flags, dirs>>

\* generic_file_llseek: the end is that of the upper inode.
Seek(f) ==
  /\ Idle(f)
  /\ \/ \E p \in Sizes : Set(f, p) /\ answer' = p
     \/ answer' = Failed /\ UNCHANGED pos
  /\ UNCHANGED <<inode, flags, locals, dirs>>

SeekEnd(f) ==
  /\ Idle(f) /\ Set(f, up) /\ answer' = up
  /\ UNCHANGED <<inode, flags, locals, dirs>>

\* bkpfs_getattr: generic_fillattr of the upper inode.
Stat ==
  /\ answer' = up
  /\ UNCHANGED <<inode, pos, flags, locals, dirs>>

-----------------------------------------------------------------------------
\* bkpfs_setattr: the upper size first, then the lower.
StartTruncate(f) ==
  /\ Idle(f) /\ ~InodeLocked
  /\ \E s \in Sizes : up' = s /\ size' = [size EXCEPT ![f] = s]
  /\ Go(f, "notify")
  /\ UNCHANGED <<low, pos, flags, count, to, answer, dirs>>

TruncateLowerNot(f) ==
  /\ pc[f] = "notify"
  /\ Return(f, 0)
  /\ UNCHANGED <<inode, pos, flags, dirs>>
TruncateLower(f) ==
  /\ pc[f] = "notify"
  /\ low' = size[f] /\ Return(f, 0)
  /\ UNCHANGED <<up, pos, flags, dirs>>

\* The lower file system refuses; the upper size stays as it was set.
TruncateRefused(f) ==
  /\ pc[f] = "notify" /\ Return(f, Failed)
  /\ UNCHANGED <<inode, pos, flags, dirs>>

\* bkpfs_link saves the upper size, and writes it back in the end.
StartLink(f) ==
  /\ Idle(f) /\ ~InodeLocked
  /\ size' = [size EXCEPT ![f] = up] /\ Go(f, "link")
  /\ UNCHANGED <<inode, pos, flags, count, to, answer, dirs>>

EndLink(f) ==
  /\ pc[f] = "link"
  /\ up' = size[f] /\ Return(f, 0)
  /\ UNCHANGED <<low, pos, flags, dirs>>

-----------------------------------------------------------------------------
(* The directory.  Its upper inode has a size, too, copied from the lower    *)
(* inode when that was last looked at: the two may differ as they like.      *)

\* Where generic_file_llseek may go from position p, by the size of the directory.
Targets(whence, o, p) ==
  LET Aims == CASE whence = "set"  -> {o}
                [] whence = "cur"  -> {p + o}
                [] whence = "end"  -> {e + o : e \in Offsets}
                [] whence = "data" -> {o, Failed}
                [] whence = "hole" -> {e \in Offsets : o < e} \cup {Failed}
  IN {IF t \in Offsets THEN t ELSE Failed : t \in Aims}

Moved(p, t) == IF t = Failed THEN p ELSE t
Result(t) == IF t = Failed THEN Failed ELSE Int32(t)

\* bkpfs_file_llseek: the upper file goes first; the result, an int, decides
\* whether the lower follows, from its own position and size.
SeekDir(whence, o) ==
  /\ \E t \in Targets(whence, o, dpos) :
       /\ dpos' = Moved(dpos, t)
       /\ \/ /\ Result(t) < 0
             /\ dlow' = dlow /\ said' = [call |-> whence, answer |-> Result(t)]
          \/ /\ Result(t) >= 0
             /\ \E lt \in Targets(whence, o, dlow) :
                  /\ dlow' = Moved(dlow, lt)
                  /\ said' = [call |-> whence, answer |-> Result(lt)]
  /\ UNCHANGED <<inode, pos, flags, locals, answer>>

\* bkpfs_readdir reads from the lower position and copies it up.
CopiesNot(p) == dpos
CopiesUp(p) == p

ReadDir ==
  /\ dlow' \in dlow..MaxOffset /\ dpos' = CopiesUp(dlow')
  /\ said' = [call |-> "read", answer |-> 0]
  /\ UNCHANGED <<inode, pos, flags, locals, answer>>

-----------------------------------------------------------------------------
Start(f) ==
  \/ Open(f) \/ Close(f) \/ Read(f) \/ ReadIter(f) \/ Write(f) \/ WriteIter(f)
  \/ Seek(f) \/ SeekEnd(f) \/ StartTruncate(f) \/ StartLink(f)

Advance(f) == GetSize(f) \/ PutSize(f) \/ TruncateLower(f) \/ EndLink(f)

InDirectory ==
  ReadDir \/ \E whence \in Whences, o \in -MaxOffset..MaxOffset : SeekDir(whence, o)

\* Calls overlap as they like.
Next ==
  \/ Stat \/ Iget \/ InDirectory
  \/ \E f \in Files : Start(f) \/ Advance(f) \/ TruncateRefused(f) \/ SetFlags(f)

Spec == Init /\ [][Next]_vars

\* One call at a time, no refused truncation, flags as they were opened with.
AtRest == \A f \in Files : pc[f] = "idle"

SerialNext ==
  \/ AtRest /\ (Stat \/ Iget \/ \E f \in Files : Start(f))
  \/ InDirectory
  \/ \E f \in Files : Advance(f)

SerialSpec == Init /\ [][SerialNext]_vars

\* Nothing but writes, which overlap.
WritersNext == \E f \in Files : Open(f) \/ Write(f) \/ GetSize(f) \/ PutSize(f)
WritersSpec == Init /\ [][WritersNext]_vars

-----------------------------------------------------------------------------
(* Properties.                                                               *)

\* What holds between the steps of calls that do not overlap: at rest the upper
\* size is the lower; a write has set the lower from the upper, a truncation the
\* upper.
SerialInv ==
  /\ TypeOK
  /\ append = lappend
  /\ \A f, g \in Files : pc[f] # "idle" /\ pc[g] # "idle" => f = g
  /\ AtRest => up = low
  /\ \A f \in Files :
       /\ pc[f] # "idle" => pos[f] # Nil
       /\ pc[f] \in {"getsize", "putsize"} =>
            /\ count[f] \in Counts
            /\ to[f] = (IF append[f] THEN up ELSE pos[f]) + count[f]
            /\ low = IF to[f] > up THEN to[f] ELSE up
       /\ pc[f] = "putsize" => size[f] = low
       /\ pc[f] = "notify" => size[f] = up
       /\ pc[f] = "link" => size[f] = up /\ up = low

\* The size the user is shown and seeks by is that of the call that has returned
\* last: a truncation has set the upper size only, a write the lower.
Plain == INSTANCE PlainFile WITH
           size <- IF \E f \in Files : pc[f] = "notify" THEN low ELSE up

\* One call at a time, the two sizes and the positions handed down behave as the
\* one size and the one position of a plain file.
ImplementsPlainFile == Plain!Spec

\* What is left of the consistency file.c:716 speaks of.  A readdir, and a seekdir
\* or rewinddir answered with a position, put the two positions together, however
\* far SEEK_END, or an offset with bit 31 set, had moved them apart; and a position
\* answered, whatever the seek started from, is the lower one, from which the next
\* readdir reads, as far as an int can name it.
DirHonest ==
  /\ said.call \in {"read", "set"} /\ said.answer >= 0 => dpos = dlow
  /\ said.call # "read" /\ said.answer >= 0 => said.answer = Int32(dlow)

\* file.c:716, "to set both the upper and lower file offsets consistently": not
\* even by a seek to an absolute offset, if its bit 31 is set, as it may be in the
\* directories of ext4.
DirPositionsAgree == said.call = "set" => dpos = dlow

\* file.c:200, "update our inode times+sizes upon a successful lower write": when
\* every call has returned, the upper size is the lower.  With calls that overlap it
\* is not: a copy of the size may be overtaken by that of a later write, and an old
\* size stays.
SizesAgreeAtRest == AtRest => up = low

\* inode.c:442, a truncation need not copy the lower size, as "VFS should update
\* our inode size": one that the lower file system refuses has set it all the same.
RefusedChangesNothing ==
  [][answer' = Failed => low' = low /\ (AtRest' => up' = low')]_vars
=============================================================================
