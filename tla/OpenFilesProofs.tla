-------------------------- MODULE OpenFilesProofs --------------------------
(***************************************************************************)
(* Theorems of OpenFiles.  SerialInv is inductive: it says, for the call   *)
(* that is on its way, which of the two sizes is ahead, and by what.  With *)
(* it each last step of a call maps to that call of PlainFile, and each    *)
(* earlier step to none.                                                   *)
(***************************************************************************)
EXTENDS OpenFiles, TLAPS

LEMMA InvInit == Init => SerialInv
<1>1. Init => 0 \in Offsets /\ said \in [call : Whences \cup {"read"}, answer : Int]
  BY FilesAssumption DEF Init, Offsets
<1> QED BY <1>1, FilesAssumption DEF Init, SerialInv, TypeOK, Sizes, AtRest

-----------------------------------------------------------------------------
(* The directory.                                                            *)

\* A seek goes to an offset of the directory, or fails.
LEMMA TargetsAre ==
  ASSUME NEW whence, NEW o, NEW p, NEW t \in Targets(whence, o, p)
  PROVE  t \in Offsets \cup {Failed}
BY DEF Targets

LEMMA SetTarget ==
  ASSUME NEW o, NEW p, NEW t \in Targets("set", o, p)
  PROVE  t = IF o \in Offsets THEN o ELSE Failed
BY DEF Targets

LEMMA ResultIs ==
  ASSUME NEW t \in Offsets \cup {Failed} PROVE Result(t) \in Int
<1>1. t \in Int
  BY FilesAssumption DEF Offsets, Failed
<1>2. 2 * (IntMax + 1) \in Nat \ {0} /\ t + IntMax + 1 \in Int
  BY <1>1, FilesAssumption
<1>3. (t + IntMax + 1) % (2 * (IntMax + 1)) \in Int
  BY <1>2
<1>4. Int32(t) \in Int
  BY <1>3, FilesAssumption DEF Int32
<1> QED BY <1>4 DEF Result, Failed

\* Where a successful seek leaves a position, and what it answers.
LEMMA MovedIs ==
  ASSUME NEW p \in Offsets, NEW t \in Offsets \cup {Failed}
  PROVE  /\ Moved(p, t) \in Offsets
         /\ Result(t) >= 0 => Moved(p, t) = t /\ Result(t) = Int32(t)
BY FilesAssumption DEF Moved, Result, Failed, Offsets

LEMMA SeekTyped ==
  ASSUME dpos \in Offsets, dlow \in Offsets,
         NEW whence \in Whences, NEW o, SeekDir(whence, o)
  PROVE  /\ dpos' \in Offsets /\ dlow' \in Offsets
         /\ said' \in [call : Whences \cup {"read"}, answer : Int]
         /\ said'.call = whence
<1>1. PICK t \in Targets(whence, o, dpos) :
        /\ dpos' = Moved(dpos, t)
        /\ \/ dlow' = dlow /\ said' = [call |-> whence, answer |-> Result(t)]
           \/ \E lt \in Targets(whence, o, dlow) :
                 dlow' = Moved(dlow, lt) /\ said' = [call |-> whence, answer |-> Result(lt)]
  BY DEF SeekDir
<1>2. CASE dlow' = dlow /\ said' = [call |-> whence, answer |-> Result(t)]
  BY <1>1, <1>2, TargetsAre, ResultIs, MovedIs
<1>3. CASE \E lt \in Targets(whence, o, dlow) :
             dlow' = Moved(dlow, lt) /\ said' = [call |-> whence, answer |-> Result(lt)]
  <2>1. PICK lt \in Targets(whence, o, dlow) :
          dlow' = Moved(dlow, lt) /\ said' = [call |-> whence, answer |-> Result(lt)]
    BY <1>3
  <2> QED BY <1>1, <2>1, TargetsAre, ResultIs, MovedIs
<1> QED BY <1>1, <1>2, <1>3

LEMMA SeekHonest ==
  ASSUME dpos \in Offsets, dlow \in Offsets,
         NEW whence \in Whences, NEW o, SeekDir(whence, o)
  PROVE  DirHonest'
<1>1. PICK t \in Targets(whence, o, dpos) :
        /\ dpos' = Moved(dpos, t)
        /\ \/ /\ Result(t) < 0 /\ dlow' = dlow
              /\ said' = [call |-> whence, answer |-> Result(t)]
           \/ /\ Result(t) >= 0
              /\ \E lt \in Targets(whence, o, dlow) :
                   /\ dlow' = Moved(dlow, lt)
                   /\ said' = [call |-> whence, answer |-> Result(lt)]
  BY DEF SeekDir
<1>2. t \in Offsets \cup {Failed} /\ Result(t) \in Int
  BY TargetsAre, ResultIs
<1>3. CASE Result(t) < 0
  BY <1>1, <1>2, <1>3 DEF DirHonest
<1>4. CASE Result(t) >= 0
  <2>1. PICK lt \in Targets(whence, o, dlow) :
          dlow' = Moved(dlow, lt) /\ said' = [call |-> whence, answer |-> Result(lt)]
    BY <1>1, <1>2, <1>4
  <2>2. lt \in Offsets \cup {Failed} /\ said'.answer = Result(lt) /\ said'.call = whence
    BY <2>1, TargetsAre
  <2>3. Result(lt) >= 0 => dlow' = lt /\ said'.answer = Int32(dlow')
    BY <2>1, <2>2, MovedIs
  <2>4. dpos' = t
    BY <1>1, <1>2, <1>4, MovedIs
  <2>5. whence = "set" => t = lt
    BY SetTarget
  <2>6. whence # "read"
    BY DEF Whences
  <2> QED BY <2>2, <2>3, <2>4, <2>5, <2>6 DEF DirHonest
<1> QED BY <1>2, <1>3, <1>4

LEMMA DirectoryStep ==
  ASSUME dpos \in Offsets, dlow \in Offsets,
         said \in [call : Whences \cup {"read"}, answer : Int], InDirectory
  PROVE  /\ dpos' \in Offsets /\ dlow' \in Offsets
         /\ said' \in [call : Whences \cup {"read"}, answer : Int]
         /\ DirHonest'
<1>1. CASE ReadDir
  BY <1>1, FilesAssumption DEF ReadDir, CopiesUp, DirHonest, Offsets
<1>2. CASE \E whence \in Whences, o \in -MaxOffset..MaxOffset : SeekDir(whence, o)
  BY <1>2, SeekTyped, SeekHonest
<1> QED BY <1>1, <1>2 DEF InDirectory

-----------------------------------------------------------------------------
(* Calls of one step, and first steps, from rest.                            *)

LEMMA InvOpen ==
  ASSUME SerialInv, NEW f \in Files, AtRest, Open(f) PROVE SerialInv'
BY FilesAssumption
   DEF Open, Set, SerialInv, TypeOK, AtRest, Sizes, inode, locals, dirs

LEMMA InvClose ==
  ASSUME SerialInv, NEW f \in Files, AtRest, Close(f) PROVE SerialInv'
BY FilesAssumption
   DEF Close, Set, SerialInv, TypeOK, AtRest, Sizes, inode, flags, locals, dirs

LEMMA InvRead ==
  ASSUME SerialInv, NEW f \in Files, AtRest, ReadAt(f) PROVE SerialInv'
<1>1. PICK n \in Counts \cup {0} :
        /\ n = 0 => pos[f] >= low
        /\ n > 0 => pos[f] + n <= low
        /\ pos' = [pos EXCEPT ![f] = pos[f] + n] /\ answer' = n
  BY DEF ReadAt, Set
<1>2. n \in Nat /\ pos[f] \in Sizes /\ pos[f] + n \in Sizes
  BY <1>1, FilesAssumption DEF ReadAt, Idle, SerialInv, TypeOK, Sizes
<1>3. pos' \in [Files -> Sizes \cup {Nil}] /\ answer' \in Sizes \cup Counts \cup {Failed}
  BY <1>1, <1>2, FilesAssumption DEF SerialInv, TypeOK, Sizes
<1> QED
  BY <1>3 DEF ReadAt, SerialInv, TypeOK, AtRest, inode, flags, locals, dirs

LEMMA InvSeek ==
  ASSUME SerialInv, NEW f \in Files, AtRest, Seek(f) \/ SeekEnd(f)
  PROVE  SerialInv'
<1>1. pos' \in [Files -> Sizes \cup {Nil}] /\ answer' \in Sizes \cup Counts \cup {Failed}
  BY DEF Seek, SeekEnd, Set, SerialInv, TypeOK
<1> QED
  BY <1>1 DEF Seek, SeekEnd, SerialInv, TypeOK, AtRest, inode, flags, locals, dirs

LEMMA InvWrite ==
  ASSUME SerialInv, NEW f \in Files, AtRest, WriteLower(f, append[f])
  PROVE  SerialInv'
<1>1. CASE answer' = Failed /\ UNCHANGED <<low, locals>>
  BY <1>1 DEF WriteLower, SerialInv, TypeOK, AtRest, flags, locals, dirs
<1>2. CASE ~(answer' = Failed /\ UNCHANGED <<low, locals>>)
  <2>1. PICK n \in Counts :
          LET end == (IF append[f] THEN low ELSE pos[f]) + n
          IN /\ end <= MaxSize
             /\ low' = IF end > low THEN end ELSE low
             /\ to' = [to EXCEPT ![f] = end]
             /\ count' = [count EXCEPT ![f] = n]
             /\ pc' = [pc EXCEPT ![f] = "getsize"]
             /\ UNCHANGED <<size, answer>>
    BY <1>2 DEF WriteLower, Go
  <2> DEFINE base == IF append[f] THEN low ELSE pos[f]
             end == base + n
  <2>2. n \in Nat \ {0} /\ base \in Sizes /\ low \in Sizes
    BY <2>1, FilesAssumption DEF WriteLower, Idle, SerialInv, TypeOK
  <2>3. end \in Sizes /\ low' \in Sizes
    BY <2>1, <2>2, FilesAssumption DEF Sizes
  <2>4. TypeOK'
    BY <2>1, <2>3, FilesAssumption
       DEF WriteLower, SerialInv, TypeOK, flags, dirs
  <2>5. /\ pc'[f] = "getsize" /\ count'[f] = n /\ to'[f] = end
        /\ \A g \in Files \ {f} : pc'[g] = "idle"
        /\ up = low /\ UNCHANGED <<up, pos, append, lappend>>
    BY <2>1 DEF WriteLower, SerialInv, TypeOK, AtRest, flags
  <2>6. low' = IF to'[f] > up THEN to'[f] ELSE up
    BY <2>1, <2>5
  <2> QED BY <2>4, <2>5, <2>6 DEF WriteLower, Idle, SerialInv, AtRest
<1> QED BY <1>1, <1>2

LEMMA InvStarts ==
  ASSUME SerialInv, NEW f \in Files, AtRest, StartTruncate(f) \/ StartLink(f)
  PROVE  SerialInv'
BY DEF StartTruncate, StartLink, Go, Idle, SerialInv, TypeOK, AtRest, inode,
       flags, dirs

LEMMA InvStart ==
  ASSUME SerialInv, NEW f \in Files, AtRest, Start(f) PROVE SerialInv'
<1>1. lappend = append
  BY DEF SerialInv
<1> QED
  BY <1>1, InvOpen, InvClose, InvRead, InvSeek, InvWrite, InvStarts
     DEF Start, Read, ReadIter, Write, WriteIter

LEMMA InvElse ==
  ASSUME SerialInv, (AtRest /\ (Stat \/ Iget)) \/ InDirectory PROVE SerialInv'
<1>1. CASE AtRest /\ (Stat \/ Iget)
  BY <1>1 DEF Stat, Iget, SerialInv, TypeOK, AtRest, inode, flags, locals, dirs
<1>2. CASE InDirectory
  <2>1. /\ dpos' \in Offsets /\ dlow' \in Offsets
        /\ said' \in [call : Whences \cup {"read"}, answer : Int]
    BY <1>2, DirectoryStep DEF SerialInv, TypeOK
  <2> QED
    BY <1>2, <2>1
       DEF InDirectory, ReadDir, SeekDir, SerialInv, TypeOK, AtRest, inode, flags,
           locals
<1> QED BY <1>1, <1>2

-----------------------------------------------------------------------------
(* The later steps.                                                          *)

\* When the one call on its way returns, all are at rest.
LEMMA OthersIdle ==
  ASSUME SerialInv, NEW f \in Files, pc[f] # "idle"
  PROVE  \A g \in Files \ {f} : pc[g] = "idle"
BY DEF SerialInv

LEMMA Returned ==
  ASSUME SerialInv, NEW f \in Files, pc[f] # "idle", NEW r, Return(f, r)
  PROVE  /\ \A g \in Files : pc'[g] = "idle"
         /\ pc' \in [Files -> {"idle", "getsize", "putsize", "notify", "link"}]
         /\ count' \in [Files -> Counts \cup {0}]
         /\ to' \in [Files -> Sizes] /\ size' \in [Files -> Sizes]
<1>1. 0 \in Sizes
  BY FilesAssumption DEF Sizes
<1> QED BY <1>1, OthersIdle DEF Return, SerialInv, TypeOK

LEMMA InvGetSize ==
  ASSUME SerialInv, NEW f \in Files, GetSize(f) PROVE SerialInv'
<1>1. /\ TypeOK' /\ pc'[f] = "putsize" /\ size'[f] = low
      /\ \A g \in Files \ {f} : pc'[g] = "idle"
  BY OthersIdle
     DEF GetSize, Go, SerialInv, TypeOK, inode, flags, dirs
<1> QED
  BY <1>1 DEF GetSize, SerialInv, AtRest, inode, flags

LEMMA InvReturns ==
  ASSUME SerialInv, NEW f \in Files, PutSize(f) \/ TruncateLower(f) \/ EndLink(f)
  PROVE  SerialInv'
<1>1. pc[f] # "idle" /\ \E r : Return(f, r)
  BY DEF PutSize, TruncateLower, EndLink
<1>2. /\ \A g \in Files : pc'[g] = "idle"
      /\ pc' \in [Files -> {"idle", "getsize", "putsize", "notify", "link"}]
      /\ count' \in [Files -> Counts \cup {0}]
      /\ to' \in [Files -> Sizes] /\ size' \in [Files -> Sizes]
  BY <1>1, Returned
<1>3. up' = low' /\ low' \in Sizes
  BY DEF PutSize, TruncateLower, EndLink, SerialInv, TypeOK
<1>4. answer' \in Sizes \cup Counts \cup {Failed}
  BY FilesAssumption
     DEF PutSize, TruncateLower, EndLink, Return, SerialInv, TypeOK, Sizes
<1>5. pos' \in [Files -> Sizes \cup {Nil}]
  BY DEF PutSize, TruncateLower, EndLink, Set, SerialInv, TypeOK
<1> QED
  BY <1>2, <1>3, <1>4, <1>5
     DEF PutSize, TruncateLower, EndLink, SerialInv, TypeOK, AtRest, flags, dirs

LEMMA InvStep == SerialInv /\ [SerialNext]_vars => SerialInv'
<1> SUFFICES ASSUME SerialInv, [SerialNext]_vars PROVE SerialInv'
  OBVIOUS
<1>1. CASE UNCHANGED vars
  BY <1>1
     DEF vars, inode, flags, locals, dirs, SerialInv, TypeOK, AtRest
<1>2. CASE SerialNext
  BY <1>2, InvElse, InvStart, InvGetSize, InvReturns DEF SerialNext, Advance
<1> QED BY <1>1, <1>2

\* One call at a time, the two sizes agree whenever no call is on its way.
THEOREM SizesMirrored == SerialSpec => []SerialInv
BY InvInit, InvStep, PTL DEF SerialSpec

-----------------------------------------------------------------------------
\* Whatever the offsets and the two sizes, and whatever else overlaps: a readdir or
\* an absolute seek answered with a position puts the positions together, and a
\* position answered is the lower one.
THEOREM DirectoryHonest == Spec => []DirHonest
<1> DEFINE Typed == /\ dpos \in Offsets /\ dlow \in Offsets
                    /\ said \in [call : Whences \cup {"read"}, answer : Int]
<1>1. Init => Typed /\ DirHonest
  BY FilesAssumption DEF Init, DirHonest, Offsets
<1>2. Typed /\ DirHonest /\ [Next]_vars => Typed' /\ DirHonest'
  <2> SUFFICES ASSUME Typed, DirHonest, [Next]_vars PROVE Typed' /\ DirHonest'
    OBVIOUS
  <2>1. CASE InDirectory
    BY <2>1, DirectoryStep
  <2>2. CASE UNCHANGED dirs
    BY <2>2 DEF dirs, DirHonest
  <2>3. Next /\ ~InDirectory => UNCHANGED dirs
    BY DEF Next, Start, Advance, Stat, Iget, Open, Close, SetFlags, Read, ReadIter,
           ReadAt, Write, WriteIter, WriteLower, Seek, SeekEnd, StartTruncate,
           StartLink, GetSize, PutSize, TruncateLower, TruncateRefused, EndLink
  <2>4. UNCHANGED vars => UNCHANGED dirs
    BY DEF vars
  <2> QED BY <2>1, <2>2, <2>3, <2>4
<1> QED BY <1>1, <1>2, PTL DEF Spec

-----------------------------------------------------------------------------
(* The refinement: which step of a call is the call of PlainFile.            *)
Shown == IF \E f \in Files : pc[f] = "notify" THEN low ELSE up

LEMMA PlainInit == Init => Plain!Init
BY DEF Init, Plain!Init, Plain!Sizes, Sizes

LEMMA ShownAtRest == ASSUME SerialInv, AtRest PROVE Shown = low /\ Shown = up
BY DEF Shown, SerialInv, AtRest

LEMMA PlainStart ==
  ASSUME SerialInv, NEW f \in Files, AtRest, Start(f)
  PROVE  Plain!Next \/ UNCHANGED <<Shown, pos, append, answer>>
<1>1. Shown = low /\ Shown = up /\ lappend = append
  BY ShownAtRest DEF SerialInv
<1>2. CASE Open(f)
  <2>1. Shown' = Shown
    BY <1>2 DEF Open, Shown, inode, locals
  <2> QED BY <1>2, <2>1 DEF Open, Set, Plain!Next, Plain!Open, Plain!Says, Shown
<1>3. CASE Close(f)
  <2>1. Shown' = Shown
    BY <1>3 DEF Close, Shown, inode, locals
  <2> QED
    BY <1>3, <2>1 DEF Close, Set, Idle, flags, Plain!Next, Plain!Close, Plain!Says, Shown
<1>4. CASE ReadAt(f)
  <2>1. Shown' = Shown
    BY <1>4 DEF ReadAt, Shown, inode, locals
  <2> QED
    BY <1>1, <1>4, <2>1
       DEF ReadAt, Set, Idle, flags, Plain!Next, Plain!Read, Plain!Says, Shown
<1>5. CASE Seek(f) \/ SeekEnd(f)
  <2>1. Shown' = Shown
    BY <1>5 DEF Seek, SeekEnd, Shown, inode, locals
  <2> QED
    BY <1>1, <1>5, <2>1
       DEF Seek, SeekEnd, Set, Idle, flags, Failed, Sizes, Plain!Next, Plain!Seek,
           Plain!SeekEnd, Plain!Elsewhere, Plain!Failed, Plain!Says, Plain!Sizes,
           Shown
<1>6. CASE WriteLower(f, append[f])
  <2>1. pc' \in {pc, [pc EXCEPT ![f] = "getsize"]} /\ up' = up
    BY <1>6 DEF WriteLower, Go, locals
  <2>2. \A g \in Files : pc'[g] # "notify"
    BY <2>1 DEF SerialInv, TypeOK, AtRest
  <2>3. Shown' = Shown
    BY <1>1, <2>1, <2>2 DEF Shown
  <2> QED
    BY <1>6, <2>3
       DEF WriteLower, flags, Failed, Plain!Next, Plain!Elsewhere, Plain!Failed, Shown
<1>7. CASE StartTruncate(f)
  <2>1. pc'[f] = "notify" /\ low' = low
    BY <1>7 DEF StartTruncate, Go, SerialInv, TypeOK
  <2> QED BY <1>1, <1>7, <2>1 DEF StartTruncate, flags, Shown
<1>8. CASE StartLink(f)
  <2>1. \A g \in Files : pc'[g] # "notify"
    BY <1>8 DEF StartLink, Go, SerialInv, TypeOK, AtRest
  <2> QED BY <1>1, <1>8, <2>1 DEF StartLink, inode, flags, Shown
<1> QED
  BY <1>1, <1>2, <1>3, <1>4, <1>5, <1>6, <1>7, <1>8
     DEF Start, Read, ReadIter, Write, WriteIter

LEMMA PlainElse ==
  ASSUME SerialInv, (AtRest /\ (Stat \/ Iget)) \/ InDirectory
  PROVE  Plain!Next \/ UNCHANGED <<Shown, pos, append, answer>>
<1>1. CASE AtRest /\ Stat
  BY <1>1, ShownAtRest
     DEF Stat, inode, flags, locals, Shown, Plain!Next, Plain!Stat
<1>2. CASE AtRest /\ Iget
  BY <1>2, ShownAtRest DEF Iget, flags, locals, Shown, SerialInv
<1>3. CASE InDirectory
  BY <1>3 DEF InDirectory, ReadDir, SeekDir, inode, flags, locals, Shown
<1> QED BY <1>1, <1>2, <1>3

LEMMA PlainAdvance ==
  ASSUME SerialInv, NEW f \in Files, Advance(f)
  PROVE  Plain!Next \/ UNCHANGED <<Shown, pos, append, answer>>
<1>1. CASE GetSize(f)
  <2>1. \A g \in Files : pc[g] # "notify" /\ pc'[g] # "notify"
    BY <1>1, OthersIdle DEF GetSize, Go, SerialInv, TypeOK
  <2> QED BY <1>1, <2>1 DEF GetSize, inode, flags, Shown
<1>2. CASE PutSize(f)
  <2>1. \A g \in Files : pc[g] # "notify" /\ pc'[g] # "notify"
    BY <1>2, OthersIdle DEF PutSize, Return, SerialInv, TypeOK
  <2>2. Shown = up /\ Shown' = up'
    BY <2>1 DEF Shown
  <2>3. /\ count[f] \in Counts /\ pos[f] # Nil
        /\ to[f] = (IF append[f] THEN up ELSE pos[f]) + count[f]
        /\ up' = IF to[f] > up THEN to[f] ELSE up
        /\ to[f] <= MaxSize
    BY <1>2, FilesAssumption DEF PutSize, SerialInv, TypeOK, Sizes
  <2>4. /\ pos' = [pos EXCEPT ![f] = to[f]] /\ answer' = count[f]
        /\ append' = append
    BY <1>2 DEF PutSize, Set, Return, flags
  <2>5. Plain!Write(f)
    BY <2>2, <2>3, <2>4 DEF Plain!Write, Plain!Says, Shown
  <2> QED BY <2>5 DEF Plain!Next
<1>3. CASE TruncateLower(f)
  <2>1. \A g \in Files : pc'[g] # "notify"
    BY <1>3, OthersIdle DEF TruncateLower, Return, SerialInv, TypeOK
  <2>2. Shown' \in Sizes /\ answer' = 0 /\ UNCHANGED <<pos, append>>
    BY <1>3, <2>1 DEF TruncateLower, Return, flags, Shown, SerialInv, TypeOK
  <2> QED
    BY <2>2 DEF Plain!Next, Plain!Truncate, Plain!Sizes, Sizes, Shown
<1>4. CASE EndLink(f)
  <2>1. \A g \in Files : pc[g] # "notify" /\ pc'[g] # "notify"
    BY <1>4, OthersIdle DEF EndLink, Return, SerialInv, TypeOK
  <2>2. UNCHANGED <<Shown, pos, append>> /\ answer' = 0
    BY <1>4, <2>1 DEF EndLink, Return, flags, Shown, SerialInv
  <2> QED
    BY <2>2 DEF Plain!Next, Plain!Elsewhere, Shown
<1> QED BY <1>1, <1>2, <1>3, <1>4 DEF Advance

LEMMA PlainStep ==
  SerialInv /\ [SerialNext]_vars => [Plain!Next]_(Plain!vars)
<1> SUFFICES ASSUME SerialInv, [SerialNext]_vars
             PROVE  Plain!Next \/ UNCHANGED <<Shown, pos, append, answer>>
  BY DEF Plain!vars, Shown
<1>1. CASE UNCHANGED vars
  BY <1>1 DEF vars, inode, flags, locals, Shown
<1>2. CASE SerialNext
  BY <1>2, PlainStart, PlainElse, PlainAdvance DEF SerialNext
<1> QED BY <1>1, <1>2

\* One call at a time, a file of bkpfs is a plain file: what reads and writes
\* reach, where they leave the position, and the size the user is shown.
THEOREM PlainRefinement == SerialSpec => ImplementsPlainFile
BY PlainInit, PlainStep, SizesMirrored, PTL
   DEF SerialSpec, ImplementsPlainFile, Plain!Spec
=============================================================================
