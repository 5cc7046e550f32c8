-------------------------- MODULE StackRefsProofs --------------------------
(***************************************************************************)
(* Proofs about StackRefs, for any names, inodes, dentries and open files, *)
(* and any faults: what a mount holds of the layer below is exactly what   *)
(* it uses and what calls of file.c have lost; the dentries agree with the *)
(* lower directory, or, once restore has unlinked their file, with an      *)
(* empty place in it; and no inode in use that has a name, and links in    *)
(* the lower file system, has a link count of 0.                           *)
(***************************************************************************)
EXTENDS StackRefs, FiniteSetTheorems, TLAPS

\* An open file has its dentry, and nothing is open or cached but in a mount that
\* is up.  The root inode, its lower reference and the superblock's are the mount's.
HeldByMount ==
  /\ \A f \in Files : files[f] # Nil => files[f] \in Live
  /\ mount # "up" => Live = {} /\ \A f \in Files : files[f] = Nil
  /\ ~pinned => lost = 0
  /\ mount = "down" => ~pinned /\ icount[Root] = 0 /\ lower[Root] = 0
  /\ mount = "up" => icount[Root] = 1 /\ lower[Root] = 1 /\ active = 1
  /\ mount \in {"down", "busy"} => active = 0

\* The inductive invariant of the references.
RefInv == TypeOK /\ PathsAccounted /\ InodesAccounted /\ HeldByMount

-----------------------------------------------------------------------------
(* The sets that are counted.                                                *)

LEMMA Finite ==
  /\ IsFiniteSet(Live) /\ IsFiniteSet(OpenFiles)
  /\ \A i : IsFiniteSet(Users(i))
  /\ Cardinality(Live) \in Nat /\ Cardinality(OpenFiles) \in Nat
  /\ \A i : Cardinality(Users(i)) \in Nat
<1>1. Live \subseteq Dents /\ OpenFiles \subseteq Files
  BY DEF Live, OpenFiles
<1>2. \A i : Users(i) \subseteq Dents
  BY DEF Users, Live
<1>3. IsFiniteSet(Live) /\ IsFiniteSet(OpenFiles) /\ \A i : IsFiniteSet(Users(i))
  BY <1>1, <1>2, StackAssumption, FS_Subset
<1> QED BY <1>3, FS_CardinalityType

LEMMA OneMore ==
  ASSUME NEW S, IsFiniteSet(S), NEW x, x \notin S
  PROVE  Cardinality(S \cup {x}) = Cardinality(S) + 1
BY FS_AddElement

LEMMA OneLess ==
  ASSUME NEW S, IsFiniteSet(S), NEW x \in S
  PROVE  Cardinality(S \ {x}) = Cardinality(S) - 1 /\ Cardinality(S) >= 1
<1>1. Cardinality(S \ {x}) = Cardinality(S) - 1
  BY FS_RemoveElement
<1>2. S # {} /\ Cardinality(S) \in Nat
  BY FS_CardinalityType
<1> QED BY <1>1, <1>2, FS_EmptySet

LEMMA SubdirsCounted ==
  ASSUME NEW dr
  PROVE  Cardinality(NamesOf(Subdirs, dr)) \in Nat
<1>1. IsFiniteSet(NamesOf(Subdirs, dr))
  BY StackAssumption, FS_Subset DEF NamesOf
<1> QED BY <1>1, FS_CardinalityType

\* What the lower file system makes of its counts.
LEMMA BelowLinked ==
  ASSUME TypeOK, NEW i \in Inos, Linked(i)
  PROVE  /\ below' \in [Inos -> Nat] /\ below'[i] > 0
         /\ \A j \in Inos \ {i} : below'[j] = below[j]
BY DEF Linked, TypeOK

LEMMA BelowUnlinked ==
  ASSUME TypeOK, NEW i \in Inos, Unlinked(i)
  PROVE  /\ below' \in [Inos -> Nat]
         /\ \A j \in Inos : below'[j] > 0 => below[j] > 0
<1>1. CASE i \in Subdirs \/ below[i] = 0
  BY <1>1 DEF Unlinked, TypeOK
<1>2. CASE ~(i \in Subdirs \/ below[i] = 0)
  BY <1>2 DEF Unlinked, TypeOK
<1> QED BY <1>1, <1>2

\* A dentry is added, taken away, or changed in its state and name only.
LEMMA DentryAdded ==
  ASSUME TypeOK, NEW d \in Dents \ Live, NEW n \in Names, NEW i \in Inos,
         dent' = [dent EXCEPT ![d] = [state |-> "hashed", name |-> n, ino |-> i]]
  PROVE  /\ dent' \in [Dents -> Dentry] /\ Live' = Live \cup {d}
         /\ Cardinality(Live') = Cardinality(Live) + 1
         /\ Cardinality(Users(i)') = Cardinality(Users(i)) + 1
         /\ \A j \in Inos \ {i} : Users(j)' = Users(j)
<1> DEFINE r == [state |-> "hashed", name |-> n, ino |-> i]
<1>1. r \in Dentry /\ r # Free /\ r.ino = i
  <2>1. r.state # Free.state
    BY DEF Free
  <2> QED BY <2>1 DEF Dentry
<1> HIDE DEF r
<1>2. dent' = [dent EXCEPT ![d] = r]
  BY DEF r
<1>3. /\ dent' \in [Dents -> Dentry] /\ dent'[d] = r
      /\ \A e \in Dents \ {d} : dent'[e] = dent[e]
  BY <1>1, <1>2 DEF TypeOK
<1>4. Live' = Live \cup {d}
  BY <1>1, <1>3 DEF Live
<1>5. /\ Users(i)' = Users(i) \cup {d} /\ d \notin Users(i)
      /\ \A j \in Inos \ {i} : Users(j)' = Users(j)
  BY <1>1, <1>3, <1>4 DEF Users, Live
<1> QED BY <1>3, <1>4, <1>5, Finite, OneMore

LEMMA DentryGone ==
  ASSUME TypeOK, NEW d \in Live, dent' \in [Dents -> Dentry], dent'[d] = Free,
         \A e \in Dents \ {d} : dent'[e] # Free <=> dent[e] # Free,
         \A e \in Live \ {d} : dent'[e].ino = dent[e].ino
  PROVE  /\ Live' = Live \ {d}
         /\ dent[d].ino \in Inos
         /\ Cardinality(Live') = Cardinality(Live) - 1 /\ Cardinality(Live) >= 1
         /\ \A i \in Inos :
              /\ i = dent[d].ino => /\ Cardinality(Users(i)') = Cardinality(Users(i)) - 1
                                    /\ Cardinality(Users(i)) >= 1
              /\ i # dent[d].ino => Users(i)' = Users(i)
<1>1. d \in Dents /\ dent[d] # Free
  BY DEF Live
<1>2. dent[d].ino \in Inos
  BY <1>1 DEF TypeOK, Dentry
<1>3. Live' = Live \ {d}
  BY DEF Live
<1>4. \A i \in Inos :
        /\ i = dent[d].ino => Users(i)' = Users(i) \ {d} /\ d \in Users(i)
        /\ i # dent[d].ino => Users(i)' = Users(i)
  BY <1>1, <1>3 DEF Users
<1> QED BY <1>2, <1>3, <1>4, Finite, OneLess

LEMMA DentriesKept ==
  ASSUME dent' \in [Dents -> Dentry],
         \A d \in Dents : dent'[d] # Free <=> dent[d] # Free,
         \A d \in Live : dent'[d].ino = dent[d].ino
  PROVE  Live' = Live /\ \A i : Users(i)' = Users(i)
<1>1. Live' = Live
  BY DEF Live
<1> QED BY <1>1 DEF Users

LEMMA NlinkTyped ==
  ASSUME TypeOK, below' \in [Inos -> Nat], NEW S, Copied(S)
  PROVE  nlink' \in [AllInos -> Nat]
<1>1. \A i \in AllInos : LinksBelow(i)' \in Nat
  <2>1. 2 + Cardinality(NamesOf(Subdirs, dir')) \in Nat
    BY SubdirsCounted
  <2> QED BY <2>1 DEF LinksBelow, AllInos
<1> QED BY <1>1 DEF Copied, TypeOK

-----------------------------------------------------------------------------
(* The moves of the references, and the account after each.                  *)

LEMMA IgetCounts ==
  ASSUME TypeOK, NEW i \in AllInos, Iget(i), icount[i] \in Nat,
         lower[i] = (IF icount[i] > 0 THEN 1 ELSE 0)
  PROVE  /\ icount' \in [AllInos -> Int] /\ lower' \in [AllInos -> Nat]
         /\ icount'[i] = icount[i] + 1 /\ lower'[i] = 1
         /\ \A j \in AllInos \ {i} : icount'[j] = icount[j] /\ lower'[j] = lower[j]
BY DEF Iget, TypeOK

LEMMA IputCounts ==
  ASSUME TypeOK, NEW i \in AllInos, Iput(i), icount[i] \in Nat, icount[i] >= 1,
         lower[i] = 1
  PROVE  /\ icount' \in [AllInos -> Int] /\ lower' \in [AllInos -> Nat]
         /\ icount'[i] = icount[i] - 1
         /\ lower'[i] = (IF icount'[i] > 0 THEN 1 ELSE 0)
         /\ \A j \in AllInos \ {i} : icount'[j] = icount[j] /\ lower'[j] = lower[j]
<1>1. CASE icount[i] = 1
  BY <1>1 DEF Iput, TypeOK
<1>2. CASE icount[i] # 1
  BY <1>2 DEF Iput, TypeOK
<1> QED BY <1>1, <1>2

\* What every step has to say of the variables that are not counted.
Typed == /\ dir' \in [Names -> Inos \cup {Nil}] /\ below' \in [Inos -> Nat]
         /\ nlink' \in [AllInos -> Nat]

LEMMA Interposed ==
  ASSUME RefInv, mount = "up", NEW n \in Names, NEW i \in Inos, Interpose(n, i),
         UNCHANGED <<mount, files, active, leak>>, Typed
  PROVE  RefInv'
<1>1. PICK d \in Dents \ Live :
        dent' = [dent EXCEPT ![d] = [state |-> "hashed", name |-> n, ino |-> i]]
  BY DEF Interpose
<1>2. /\ dent' \in [Dents -> Dentry] /\ Live' = Live \cup {d}
      /\ Cardinality(Live') = Cardinality(Live) + 1
      /\ Cardinality(Users(i)') = Cardinality(Users(i)) + 1
      /\ \A j \in Inos \ {i} : Users(j)' = Users(j)
  BY <1>1, DentryAdded DEF RefInv
<1>3. /\ icount[i] = Cardinality(Users(i)) /\ icount[i] \in Nat
      /\ lower[i] = (IF icount[i] > 0 THEN 1 ELSE 0) /\ i \in AllInos /\ i # Root
  BY Finite, StackAssumption DEF RefInv, InodesAccounted, AllInos
<1>4. /\ icount' \in [AllInos -> Int] /\ lower' \in [AllInos -> Nat]
      /\ icount'[i] = icount[i] + 1 /\ lower'[i] = 1
      /\ \A j \in AllInos \ {i} : icount'[j] = icount[j] /\ lower'[j] = lower[j]
  BY <1>3, IgetCounts DEF RefInv, Interpose
<1>5. PathsAccounted' /\ paths' \in Nat
  <2>1. OpenFiles' = OpenFiles
    BY DEF OpenFiles
  <2>2. /\ paths' = paths + 1 /\ lost' = lost /\ paths \in Nat
        /\ paths = Cardinality(Live) + Cardinality(OpenFiles) + 1 + lost
    BY DEF Interpose, RefInv, TypeOK, PathsAccounted, leak
  <2> QED BY <1>2, <2>1, <2>2, Finite DEF PathsAccounted, RefInv, TypeOK
<1>6. InodesAccounted'
  <2>1. icount'[i] = Cardinality(Users(i)') /\ icount'[i] > 0 /\ lower'[i] = 1
    BY <1>2, <1>3, <1>4
  <2>2. \A j \in Inos \ {i} : /\ icount'[j] = Cardinality(Users(j)')
                              /\ lower'[j] = IF icount'[j] > 0 THEN 1 ELSE 0
    BY <1>2, <1>4 DEF RefInv, InodesAccounted, AllInos
  <2> QED BY <2>1, <2>2 DEF InodesAccounted
<1>7. HeldByMount'
  BY <1>2, <1>3, <1>4 DEF RefInv, HeldByMount, AllInos, leak
<1>8. TypeOK'
  BY <1>2, <1>4, <1>5 DEF RefInv, TypeOK, Typed, leak
<1> QED BY <1>5, <1>6, <1>7, <1>8 DEF RefInv

\* A dentry that goes, and k open files by it with it (one, or none).
LEMMA DentryPut ==
  ASSUME RefInv, mount = "up", NEW d \in Live,
         dent' \in [Dents -> Dentry], dent'[d] = Free,
         \A e \in Dents \ {d} : dent'[e] # Free <=> dent[e] # Free,
         \A e \in Live \ {d} : dent'[e].ino = dent[e].ino,
         Iput(dent[d].ino), NEW k \in {0, 1}, paths' = paths - (1 + k),
         files' \in [Files -> Dents \cup {Nil}],
         \A f \in Files : files'[f] # Nil => files'[f] = files[f] /\ files[f] # d,
         Cardinality(OpenFiles') = Cardinality(OpenFiles) - k,
         Cardinality(OpenFiles) >= k,
         UNCHANGED <<mount, active, leak>>, Typed
  PROVE  RefInv'
<1>1. /\ Live' = Live \ {d} /\ dent[d].ino \in Inos
      /\ Cardinality(Live') = Cardinality(Live) - 1 /\ Cardinality(Live) >= 1
      /\ \A i \in Inos :
           /\ i = dent[d].ino => /\ Cardinality(Users(i)') = Cardinality(Users(i)) - 1
                                 /\ Cardinality(Users(i)) >= 1
           /\ i # dent[d].ino => Users(i)' = Users(i)
  BY DentryGone DEF RefInv
<1>2. PICK i \in Inos : i = dent[d].ino
  BY <1>1
<1>3. /\ icount[i] = Cardinality(Users(i)) /\ icount[i] \in Nat /\ icount[i] >= 1
      /\ lower[i] = 1 /\ i \in AllInos /\ i # Root
  BY <1>1, <1>2, Finite, StackAssumption DEF RefInv, InodesAccounted, AllInos
<1>4. /\ icount' \in [AllInos -> Int] /\ lower' \in [AllInos -> Nat]
      /\ icount'[i] = icount[i] - 1 /\ lower'[i] = (IF icount'[i] > 0 THEN 1 ELSE 0)
      /\ \A j \in AllInos \ {i} : icount'[j] = icount[j] /\ lower'[j] = lower[j]
  BY <1>2, <1>3, IputCounts DEF RefInv
<1>5. PathsAccounted' /\ paths' \in Nat
  <2>1. /\ lost' = lost /\ lost \in Nat /\ paths \in Nat
        /\ paths = Cardinality(Live) + Cardinality(OpenFiles) + 1 + lost
    BY DEF RefInv, TypeOK, PathsAccounted, leak
  <2>2. paths' = Cardinality(Live') + Cardinality(OpenFiles') + 1 + lost'
    BY <1>1, <2>1, Finite
  <2>3. paths' \in Nat
    BY <1>1, <2>1, Finite
  <2> QED BY <2>2, <2>3 DEF PathsAccounted
<1>6. InodesAccounted'
  <2>1. /\ icount'[i] = Cardinality(Users(i)')
        /\ lower'[i] = (IF icount'[i] > 0 THEN 1 ELSE 0)
    BY <1>1, <1>2, <1>3, <1>4
  <2>2. \A j \in Inos \ {i} : /\ icount'[j] = Cardinality(Users(j)')
                              /\ lower'[j] = IF icount'[j] > 0 THEN 1 ELSE 0
    BY <1>1, <1>2, <1>4 DEF RefInv, InodesAccounted, AllInos
  <2> QED BY <2>1, <2>2 DEF InodesAccounted
<1>7. HeldByMount'
  BY <1>1, <1>3, <1>4 DEF RefInv, HeldByMount, AllInos, leak
<1>8. TypeOK'
  BY <1>4, <1>5 DEF RefInv, TypeOK, Typed, leak
<1> QED BY <1>5, <1>6, <1>7, <1>8 DEF RefInv

\* Nothing taken and nothing put: a dentry may be renamed or unhashed.
LEMMA NothingPut ==
  ASSUME RefInv, dent' \in [Dents -> Dentry],
         \A e \in Dents : dent'[e] # Free <=> dent[e] # Free,
         \A e \in Live : dent'[e].ino = dent[e].ino,
         UNCHANGED <<mount, files, refs, leak>>, Typed
  PROVE  RefInv'
<1>1. Live' = Live /\ (\A i : Users(i)' = Users(i)) /\ OpenFiles' = OpenFiles
  BY DentriesKept DEF OpenFiles
<1>2. PathsAccounted' /\ InodesAccounted'
  BY <1>1 DEF RefInv, PathsAccounted, InodesAccounted, refs, leak
<1>3. HeldByMount'
  BY <1>1 DEF RefInv, HeldByMount, refs, leak
<1>4. TypeOK'
  BY DEF RefInv, TypeOK, Typed, refs, leak
<1> QED BY <1>2, <1>3, <1>4 DEF RefInv

LEMMA LiveFields ==
  ASSUME TypeOK, NEW d \in Live
  PROVE  /\ d \in Dents /\ dent[d] \in Dentry \ {Free}
         /\ dent[d].state \in {"hashed", "orphan", "unhashed"}
         /\ dent[d].name \in Names /\ dent[d].ino \in Inos
BY DEF TypeOK, Live, Dentry

LEMMA StateLive ==
  ASSUME TypeOK, NEW d \in Dents, dent[d].state \in {"hashed", "orphan", "unhashed"}
  PROVE  d \in Live
<1>1. dent[d] # Free
  BY DEF Free
<1> QED BY <1>1 DEF Live

\* A dentry with another state or name.
LEMMA RecordState ==
  ASSUME NEW r \in Dentry \ {Free}, NEW s \in {"hashed", "orphan", "unhashed"}
  PROVE  LET q == [r EXCEPT !.state = s]
         IN  q \in Dentry /\ q # Free /\ q.state = s /\ q.name = r.name /\ q.ino = r.ino
<1>1. r \in [state : {"hashed", "orphan", "unhashed"}, name : Names, ino : Inos]
  BY DEF Dentry
<1> DEFINE q == [r EXCEPT !.state = s]
<1>2. /\ q \in [state : {"hashed", "orphan", "unhashed"}, name : Names, ino : Inos]
      /\ q.state = s /\ q.name = r.name /\ q.ino = r.ino
  BY <1>1
<1> HIDE DEF q
<1>3. q # Free
  BY <1>2 DEF Free
<1>4. q \in Dentry
  BY <1>2 DEF Dentry
<1> QED BY <1>2, <1>3, <1>4 DEF q

LEMMA RecordName ==
  ASSUME NEW r \in Dentry \ {Free}, NEW n \in Names
  PROVE  LET q == [r EXCEPT !.name = n]
         IN  q \in Dentry /\ q # Free /\ q.name = n /\ q.state = r.state /\ q.ino = r.ino
<1>1. r \in [state : {"hashed", "orphan", "unhashed"}, name : Names, ino : Inos]
  BY DEF Dentry
<1> DEFINE q == [r EXCEPT !.name = n]
<1>2. /\ q \in [state : {"hashed", "orphan", "unhashed"}, name : Names, ino : Inos]
      /\ q.name = n /\ q.state = r.state /\ q.ino = r.ino
  BY <1>1
<1> HIDE DEF q
<1>3. q # Free
  BY <1>1, <1>2 DEF Free
<1>4. q \in Dentry
  BY <1>2 DEF Dentry
<1> QED BY <1>2, <1>3, <1>4 DEF q

\* The dentries when d has been given a state, or a name.
LEMMA SetState ==
  ASSUME TypeOK, NEW d \in Live, NEW s \in {"hashed", "orphan", "unhashed"},
         dent' = [dent EXCEPT ![d].state = s]
  PROVE  /\ dent' \in [Dents -> Dentry] /\ dent'[d] # Free
         /\ dent'[d].state = s /\ dent'[d].name = dent[d].name
         /\ dent'[d].ino = dent[d].ino
         /\ \A e \in Dents \ {d} : dent'[e] = dent[e]
<1> DEFINE q == [dent[d] EXCEPT !.state = s]
<1>1. d \in Dents /\ dent[d] \in Dentry \ {Free}
  BY LiveFields
<1>2. q \in Dentry /\ q # Free /\ q.state = s /\ q.name = dent[d].name
      /\ q.ino = dent[d].ino
  BY <1>1, RecordState
<1>3. dent' = [dent EXCEPT ![d] = q]
  OBVIOUS
<1> HIDE DEF q
<1> QED BY <1>1, <1>2, <1>3 DEF TypeOK

LEMMA SetName ==
  ASSUME TypeOK, NEW d \in Live, NEW n \in Names, dent' = [dent EXCEPT ![d].name = n]
  PROVE  /\ dent' \in [Dents -> Dentry] /\ dent'[d] # Free
         /\ dent'[d].state = dent[d].state /\ dent'[d].name = n
         /\ dent'[d].ino = dent[d].ino
         /\ \A e \in Dents \ {d} : dent'[e] = dent[e]
<1> DEFINE q == [dent[d] EXCEPT !.name = n]
<1>1. d \in Dents /\ dent[d] \in Dentry \ {Free}
  BY LiveFields
<1>2. q \in Dentry /\ q # Free /\ q.state = dent[d].state /\ q.name = n
      /\ q.ino = dent[d].ino
  BY <1>1, RecordName
<1>3. dent' = [dent EXCEPT ![d] = q]
  OBVIOUS
<1> HIDE DEF q
<1> QED BY <1>1, <1>2, <1>3 DEF TypeOK

LEMMA Disposed ==
  ASSUME RefInv, mount = "up", NEW d \in Live, OpenedBy(d) = {}, Dispose(d),
         UNCHANGED <<mount, files, active, leak>>, Typed
  PROVE  RefInv'
<1>1. d \in Dents /\ Free \in Dentry
  BY DEF Live, Dentry
<1>2. dent' \in [Dents -> Dentry] /\ dent'[d] = Free
      /\ \A e \in Dents \ {d} : dent'[e] = dent[e]
  BY <1>1 DEF Dispose, RefInv, TypeOK
<1>3. \A f \in Files : files'[f] # Nil => files'[f] = files[f] /\ files[f] # d
  BY DEF OpenedBy
<1>4. OpenFiles' = OpenFiles
  BY DEF OpenFiles
<1>5. Iput(dent[d].ino) /\ paths' = paths - (1 + 0) /\ paths \in Nat
  BY DEF Dispose, RefInv, TypeOK
<1>6. files' \in [Files -> Dents \cup {Nil}]
  BY DEF RefInv, TypeOK
<1>7. Cardinality(OpenFiles') = Cardinality(OpenFiles) - 0 /\ Cardinality(OpenFiles) >= 0
  BY <1>4, Finite
<1>8. \A e \in Live : e \in Dents
  BY DEF Live
<1> QED BY <1>2, <1>3, <1>5, <1>6, <1>7, <1>8, DentryPut

LEMMA Dropped ==
  ASSUME RefInv, mount = "up", NEW d \in Live, Drop(d),
         UNCHANGED <<mount, files, active, leak>>, Typed
  PROVE  RefInv'
<1>1. CASE OpenedBy(d) = {}
  BY <1>1, Disposed DEF Drop
<1>2. CASE OpenedBy(d) # {}
  <2>1. /\ dent' = [dent EXCEPT ![d].state = "unhashed"]
        /\ UNCHANGED refs
    BY <1>2 DEF Drop, refs
  <2>2. /\ dent' \in [Dents -> Dentry] /\ dent'[d] # Free
        /\ dent'[d].ino = dent[d].ino
        /\ \A e \in Dents \ {d} : dent'[e] = dent[e]
    BY <2>1, SetState DEF RefInv
  <2>3. d \in Dents /\ dent[d] # Free /\ \A e \in Live : e \in Dents
    BY DEF Live
  <2> QED BY <2>1, <2>2, <2>3, NothingPut
<1> QED BY <1>1, <1>2

LEMMA Same ==
  ASSUME RefInv, UNCHANGED <<mount, dent, files, refs, leak>>, Typed
  PROVE  RefInv'
BY NothingPut DEF RefInv, TypeOK

-----------------------------------------------------------------------------
(* The steps keep the references accounted.                                  *)

LEMMA RefMount ==
  ASSUME RefInv, Mount PROVE RefInv'
<1>1. /\ mount = "down" /\ mount' = "up" /\ paths' = paths + 1 /\ active' = active + 1
      /\ Iget(Root) /\ CopiedToNew
      /\ UNCHANGED <<dir, below, dent, files, lost, pinned>>
  BY DEF Mount, leak
<1>2. /\ icount[Root] = 0 /\ lower[Root] = 0 /\ active = 0 /\ Root \in AllInos
      /\ Root \notin Inos
  BY <1>1, StackAssumption DEF RefInv, HeldByMount, AllInos
<1>3. /\ icount' \in [AllInos -> Int] /\ lower' \in [AllInos -> Nat]
      /\ icount'[Root] = 1 /\ lower'[Root] = 1
      /\ \A j \in Inos : icount'[j] = icount[j] /\ lower'[j] = lower[j]
  <2>1. icount[Root] \in Nat /\ lower[Root] = (IF icount[Root] > 0 THEN 1 ELSE 0)
    BY <1>2
  <2>2. /\ icount' \in [AllInos -> Int] /\ lower' \in [AllInos -> Nat]
        /\ icount'[Root] = icount[Root] + 1 /\ lower'[Root] = 1
        /\ \A j \in AllInos \ {Root} : icount'[j] = icount[j] /\ lower'[j] = lower[j]
    BY <1>1, <1>2, <2>1, IgetCounts DEF RefInv
  <2> QED BY <1>2, <2>2 DEF AllInos
<1>4. Live' = Live /\ (\A i : Users(i)' = Users(i)) /\ OpenFiles' = OpenFiles
  BY <1>1 DEF Live, Users, OpenFiles
<1>5. PathsAccounted'
  BY <1>1, <1>4, Finite DEF RefInv, PathsAccounted, TypeOK
<1>6. InodesAccounted'
  BY <1>1, <1>3, <1>4 DEF RefInv, InodesAccounted
<1>7. HeldByMount'
  BY <1>1, <1>2, <1>3, <1>4 DEF RefInv, HeldByMount
<1>8. nlink' \in [AllInos -> Nat]
  BY <1>1, NlinkTyped DEF CopiedToNew, RefInv, TypeOK
<1>9. TypeOK'
  BY <1>1, <1>3, <1>8 DEF RefInv, TypeOK
<1> QED BY <1>5, <1>6, <1>7, <1>9 DEF RefInv

LEMMA RefMountRefused ==
  ASSUME RefInv, MountRefused PROVE RefInv'
<1>1. UNCHANGED <<mount, dir, below, dent, files, icount, lower, nlink, lost, pinned>>
  BY DEF MountRefused, leak
<1>2. UNCHANGED <<paths, active>>
  BY DEF MountRefused, PathPut, SuperPut, RefInv, TypeOK
<1>3. Typed
  BY <1>1 DEF Typed, RefInv, TypeOK
<1> QED BY <1>1, <1>2, <1>3, Same DEF refs, leak

LEMMA RefMountDies ==
  ASSUME RefInv, MountNoRoot \/ MountNoPrivateData PROVE RefInv'
<1>1. /\ mount = "down" /\ mount' = "dead" /\ paths' = paths + 1 /\ active' = active + 1
      /\ UNCHANGED <<dir, below, dent, files, lost, pinned>>
  BY DEF MountNoRoot, MountNoPrivateData, leak
<1>2. Root \in AllInos /\ icount[Root] = 0 /\ lower[Root] = 0
  BY <1>1 DEF AllInos, RefInv, HeldByMount
<1>3. /\ icount' \in [AllInos -> Int] /\ lower' \in [AllInos -> Nat]
      /\ nlink' \in [AllInos -> Nat]
  <2>1. CASE MountNoRoot
    BY <1>2, <2>1 DEF MountNoRoot, RefInv, TypeOK
  <2>2. CASE MountNoPrivateData
    <3>1. below' \in [Inos -> Nat] /\ Copied({}) /\ Iget(Root) /\ TypeOK
      BY <1>1, <2>2 DEF MountNoPrivateData, CopiedToNew, RefInv, TypeOK
    <3> QED BY <1>2, <3>1, IgetCounts, NlinkTyped
  <2> QED BY <2>1, <2>2
<1>4. Live' = Live
  BY <1>1 DEF Live
<1>5. TypeOK'
  BY <1>1, <1>3 DEF RefInv, TypeOK
<1>6. HeldByMount'
  BY <1>1, <1>4 DEF RefInv, HeldByMount
<1>7. PathsAccounted' /\ InodesAccounted'
  BY <1>1 DEF PathsAccounted, InodesAccounted
<1> QED BY <1>5, <1>6, <1>7 DEF RefInv

LEMMA RefUnmount ==
  ASSUME RefInv, Unmount PROVE RefInv'
<1> DEFINE fewer(i) == IF i = Root /\ ~pinned THEN icount[i] - 1
                       ELSE icount[i] - Cardinality(Users(i))
<1>1. /\ mount = "up" /\ mount' = (IF pinned THEN "busy" ELSE "down")
      /\ OpenFiles = {}
      /\ dent' = [d \in Dents |-> Free]
      /\ icount' = [i \in AllInos |-> fewer(i)]
      /\ lower' = [i \in AllInos |->
                     IF icount[i] > 0 /\ icount'[i] = 0 THEN lower[i] - 1 ELSE lower[i]]
      /\ paths' = paths - Cardinality(Live) - (IF pinned THEN 0 ELSE 1)
      /\ active' = active - 1 /\ CopiedToNew
      /\ UNCHANGED <<dir, below, files, lost, pinned>>
  BY DEF Unmount, PutSuper, leak
<1>2. /\ icount[Root] = 1 /\ lower[Root] = 1 /\ active = 1 /\ Root \in AllInos
      /\ Root \notin Inos /\ \A i \in Inos : i \in AllInos /\ i # Root
      /\ \A i \in Inos : /\ icount[i] = Cardinality(Users(i)) /\ icount[i] \in Nat
                          /\ lower[i] = IF icount[i] > 0 THEN 1 ELSE 0
  BY <1>1, Finite, StackAssumption DEF RefInv, HeldByMount, InodesAccounted, AllInos
<1>3. Users(Root) = {}
  BY <1>2, LiveFields DEF Users, RefInv
<1>4. /\ Cardinality(Users(Root)) = 0 /\ Cardinality({}) = 0
  BY <1>3, FS_EmptySet
<1>5. Live' = {} /\ \A i : Users(i)' = {}
  BY <1>1 DEF Live, Users
<1>6. \A i \in Inos : icount'[i] = 0 /\ lower'[i] = 0
  <2> SUFFICES ASSUME NEW i \in Inos PROVE icount'[i] = 0 /\ lower'[i] = 0
    OBVIOUS
  <2>1. icount'[i] = 0
    BY <1>1, <1>2
  <2>2. lower'[i] = IF icount[i] > 0 THEN lower[i] - 1 ELSE lower[i]
    BY <1>1, <1>2, <2>1
  <2> QED BY <1>2, <2>1, <2>2
<1>7. /\ icount'[Root] = IF pinned THEN 1 ELSE 0
      /\ lower'[Root] = IF pinned THEN 1 ELSE 0
  <2>1. icount'[Root] = fewer(Root)
    BY <1>1, <1>2
  <2>2. icount'[Root] = IF pinned THEN 1 ELSE 0
    BY <1>2, <1>4, <2>1
  <2>3. lower'[Root] = IF icount'[Root] = 0 THEN 0 ELSE 1
    BY <1>1, <1>2
  <2> QED BY <2>2, <2>3
<1>8. /\ icount' \in [AllInos -> Int] /\ lower' \in [AllInos -> Nat]
  <2>1. \A i \in AllInos : icount'[i] \in Int /\ lower'[i] \in Nat
    BY <1>6, <1>7 DEF AllInos
  <2>2. icount' = [i \in AllInos |-> icount'[i]] /\ lower' = [i \in AllInos |-> lower'[i]]
    BY <1>1
  <2> QED BY <2>1, <2>2
<1>9. nlink' \in [AllInos -> Nat]
  BY <1>1, NlinkTyped DEF CopiedToNew, RefInv, TypeOK
<1>10. PathsAccounted' /\ paths' \in Nat
  <2>1. /\ paths = Cardinality(Live) + Cardinality(OpenFiles) + 1 + lost
        /\ lost \in Nat /\ Cardinality(OpenFiles) = 0
    BY <1>1, <1>4 DEF RefInv, PathsAccounted, TypeOK
  <2>2. Cardinality(Live') = 0 /\ Cardinality(OpenFiles') = 0
    <3>1. OpenFiles' = OpenFiles
      BY <1>1 DEF OpenFiles
    <3> QED BY <1>1, <1>4, <1>5, <3>1
  <2>3. paths' = (IF pinned THEN 1 ELSE 0) + lost
    BY <1>1, <2>1, Finite
  <2> QED BY <1>1, <2>1, <2>2, <2>3 DEF PathsAccounted
<1>11. InodesAccounted'
  BY <1>4, <1>5, <1>6 DEF InodesAccounted
<1>12. HeldByMount'
  <2>1. \A f \in Files : files'[f] = Nil
    BY <1>1 DEF OpenFiles
  <2>2. pinned \in BOOLEAN /\ (~pinned => lost = 0)
    BY DEF RefInv, TypeOK, HeldByMount
  <2> QED BY <1>1, <1>2, <1>5, <1>7, <2>1, <2>2 DEF HeldByMount
<1>13. TypeOK'
  <2>1. dent' \in [Dents -> Dentry]
    BY <1>1 DEF Dentry
  <2> QED BY <1>1, <1>2, <1>8, <1>9, <1>10, <2>1 DEF RefInv, TypeOK
<1> QED BY <1>10, <1>11, <1>12, <1>13 DEF RefInv

LEMMA RefLookup ==
  ASSUME RefInv, NEW n \in Names, Lookup(n) PROVE RefInv'
<1>1. /\ mount = "up" /\ dir[n] \in Inos /\ CopiedToNew
      /\ UNCHANGED <<mount, dir, below, files, active, leak>>
  BY DEF Lookup, RefInv, TypeOK
<1>2. Typed
  BY <1>1, NlinkTyped DEF Typed, CopiedToNew, RefInv, TypeOK
<1>3. CASE Interpose(n, dir[n])
  BY <1>1, <1>2, <1>3, Interposed
<1>4. CASE NotInterposed
  BY <1>1, <1>2, <1>4, Same DEF NotInterposed, refs
<1> QED BY <1>3, <1>4 DEF Lookup

LEMMA RefMake ==
  ASSUME RefInv, NEW n \in Names, NEW i \in Inos, Make(n, i) PROVE RefInv'
<1>1. /\ mount = "up" /\ UNCHANGED <<mount, files, active, leak>>
      /\ dir' = dir \/ dir' = [dir EXCEPT ![n] = i]
      /\ below' = below \/ Linked(i)
      /\ \E S : Copied(S)
  BY DEF Make, CopiedToNew
<1>2. Typed
  <2>1. below' \in [Inos -> Nat]
    BY <1>1, BelowLinked DEF RefInv, TypeOK
  <2> QED BY <1>1, <2>1, NlinkTyped DEF Typed, RefInv, TypeOK
<1>3. CASE Interpose(n, i)
  BY <1>1, <1>2, <1>3, Interposed
<1>4. CASE NotInterposed
  BY <1>1, <1>2, <1>4, Same DEF NotInterposed, refs
<1> QED BY <1>3, <1>4 DEF Make

LEMMA RefLink ==
  ASSUME RefInv, NEW d \in Dents, NEW n \in Names, Link(d, n) PROVE RefInv'
<1>1. PICK i \in Inos : i = dent[d].ino
  BY StateLive, LiveFields DEF Link, Hashed, RefInv
<1>2. /\ mount = "up" /\ UNCHANGED <<mount, files, active, leak>>
      /\ dir' = dir \/ dir' = [dir EXCEPT ![n] = i]
      /\ below' = below \/ Linked(i)
      /\ \E S : Copied(S)
  BY <1>1 DEF Link, CopiedToNew
<1>3. Typed
  <2>1. below' \in [Inos -> Nat]
    BY <1>2, BelowLinked DEF RefInv, TypeOK
  <2> QED BY <1>2, <2>1, NlinkTyped DEF Typed, RefInv, TypeOK
<1>4. CASE Interpose(n, i)
  BY <1>2, <1>3, <1>4, Interposed
<1>5. CASE NotInterposed
  BY <1>2, <1>3, <1>5, Same DEF NotInterposed, refs
<1> QED BY <1>1, <1>4, <1>5 DEF Link

LEMMA RefRemove ==
  ASSUME RefInv, NEW d \in Dents, Remove(d) PROVE RefInv'
<1>1. /\ mount = "up" /\ d \in Live /\ dent[d].name \in Names /\ dent[d].ino \in Inos
      /\ UNCHANGED <<mount, files, active, leak>>
  BY StateLive, LiveFields DEF Remove, Hashed, RefInv
<1>2. CASE /\ Drop(d) /\ dir' = [dir EXCEPT ![dent[d].name] = Nil]
           /\ Unlinked(dent[d].ino) /\ CountsAfter(d)
  <2>1. Typed
    <3>1. below' \in [Inos -> Nat]
      BY <1>1, <1>2, BelowUnlinked DEF RefInv
    <3> QED BY <1>2, <3>1, NlinkTyped DEF CountsAfter, Typed, RefInv, TypeOK
  <2> QED BY <1>1, <1>2, <2>1, Dropped
<1>3. CASE UNCHANGED <<dir, below, dent, icount, lower, paths, nlink>>
  <2>1. Typed
    BY <1>3 DEF Typed, RefInv, TypeOK
  <2> QED BY <1>1, <1>3, <2>1, Same DEF refs
<1> QED BY <1>2, <1>3 DEF Remove

LEMMA RefRename ==
  ASSUME RefInv, NEW d \in Dents, NEW n \in Names, Rename(d, n) PROVE RefInv'
<1>1. d \in Live /\ dent[d].name \in Names /\ dent[d].ino \in Inos /\ dent[d] # Free
  BY StateLive, LiveFields DEF Rename, RefInv
<1>2. /\ dir' = [dir EXCEPT ![n] = dent[d].ino, ![dent[d].name] = Nil]
      /\ dent' = [dent EXCEPT ![d].name = n] /\ Copied({Root})
      /\ UNCHANGED <<mount, below, files, refs, leak>>
  BY DEF Rename
<1>3. Typed
  BY <1>1, <1>2, NlinkTyped DEF Typed, RefInv, TypeOK
<1>4. /\ dent' \in [Dents -> Dentry] /\ dent'[d] # Free /\ dent'[d].ino = dent[d].ino
      /\ \A e \in Dents \ {d} : dent'[e] = dent[e]
  BY <1>1, <1>2, SetName DEF RefInv
<1>5. \A e \in Live : e \in Dents
  BY DEF Live
<1> QED BY <1>1, <1>2, <1>3, <1>4, <1>5, NothingPut

\* The dentries after a rename of d over e.
LEMMA RenamedOver ==
  ASSUME TypeOK, NEW d \in Live, NEW e \in Live, d # e, NEW n \in Names
  PROVE  /\ dent' = [dent EXCEPT ![d].name = n, ![e].state = "unhashed"] =>
              /\ dent' \in [Dents -> Dentry] /\ dent'[e] # Free
              /\ dent'[e].state = "unhashed" /\ dent'[e].ino = dent[e].ino
              /\ dent'[d].state = dent[d].state /\ dent'[d].name = n
              /\ dent'[d].ino = dent[d].ino /\ dent'[d] # Free
              /\ \A x \in Dents \ {d, e} : dent'[x] = dent[x]
         /\ dent' = [dent EXCEPT ![d].name = n, ![e] = Free] =>
              /\ dent' \in [Dents -> Dentry] /\ dent'[e] = Free
              /\ dent'[d].state = dent[d].state /\ dent'[d].name = n
              /\ dent'[d].ino = dent[d].ino /\ dent'[d] # Free
              /\ \A x \in Dents \ {d, e} : dent'[x] = dent[x]
<1> DEFINE q == [dent[d] EXCEPT !.name = n]
           r == [dent[e] EXCEPT !.state = "unhashed"]
<1>1. /\ d \in Dents /\ dent[d] \in Dentry \ {Free}
      /\ e \in Dents /\ dent[e] \in Dentry \ {Free} /\ Free \in Dentry
  BY LiveFields DEF Dentry
<1>2. q \in Dentry /\ q # Free /\ q.state = dent[d].state /\ q.name = n
      /\ q.ino = dent[d].ino
  BY <1>1, RecordName
<1>3. r \in Dentry /\ r # Free /\ r.state = "unhashed" /\ r.ino = dent[e].ino
  BY <1>1, RecordState
<1>4. dent' = [dent EXCEPT ![d].name = n, ![e].state = "unhashed"]
        => dent' = [dent EXCEPT ![d] = q, ![e] = r]
  BY <1>1 DEF TypeOK
<1>5. dent' = [dent EXCEPT ![d].name = n, ![e] = Free]
        => dent' = [dent EXCEPT ![d] = q, ![e] = Free]
  OBVIOUS
<1> HIDE DEF q, r
<1> QED BY <1>1, <1>2, <1>3, <1>4, <1>5 DEF TypeOK

LEMMA RefRenameOver ==
  ASSUME RefInv, NEW d \in Dents, NEW e \in Dents, RenameOver(d, e) PROVE RefInv'
<1>1. /\ d \in Live /\ e \in Live /\ d # e /\ dent[e] # Free /\ dent[d] # Free
      /\ dent[d].name \in Names /\ dent[d].ino \in Inos /\ dent[e].name \in Names
      /\ dent[e].ino \in Inos
  BY StateLive, LiveFields DEF RenameOver, Hashed, RefInv
<1>2. /\ mount = "up" /\ Copied({Root}) /\ Unlinked(dent[e].ino)
      /\ dir' = [dir EXCEPT ![dent[e].name] = dent[d].ino, ![dent[d].name] = Nil]
      /\ UNCHANGED <<mount, files, active, leak>>
  BY DEF RenameOver
<1>3. Typed
  <2>1. below' \in [Inos -> Nat]
    BY <1>1, <1>2, BelowUnlinked DEF RefInv
  <2> QED BY <1>1, <1>2, <2>1, NlinkTyped DEF Typed, RefInv, TypeOK
<1>4. \A x \in Live : x \in Dents /\ dent[x] # Free
  BY DEF Live
<1>5. CASE OpenedBy(e) # {}
  <2>1. /\ dent' = [dent EXCEPT ![d].name = dent[e].name, ![e].state = "unhashed"]
        /\ UNCHANGED refs
    BY <1>2, <1>5 DEF RenameOver, refs
  <2>2. /\ dent' \in [Dents -> Dentry] /\ dent'[e] # Free
        /\ dent'[e].ino = dent[e].ino
        /\ dent'[d].ino = dent[d].ino /\ dent'[d] # Free
        /\ \A x \in Dents \ {d, e} : dent'[x] = dent[x]
    BY <1>1, <2>1, RenamedOver DEF RefInv
  <2> QED BY <1>1, <1>2, <1>3, <1>4, <2>1, <2>2, NothingPut
<1>6. CASE OpenedBy(e) = {}
  <2>1. /\ dent' = [dent EXCEPT ![d].name = dent[e].name, ![e] = Free]
        /\ Iput(dent[e].ino) /\ paths' = paths - (1 + 0)
    BY <1>6 DEF RenameOver, RefInv, TypeOK
  <2>2. /\ dent' \in [Dents -> Dentry] /\ dent'[e] = Free
        /\ dent'[d].ino = dent[d].ino /\ dent'[d] # Free
        /\ \A x \in Dents \ {d, e} : dent'[x] = dent[x]
    BY <1>1, <2>1, RenamedOver DEF RefInv
  <2>3. \A f \in Files : files'[f] # Nil => files'[f] = files[f] /\ files[f] # e
    BY <1>2, <1>6 DEF OpenedBy
  <2>4. Cardinality(OpenFiles') = Cardinality(OpenFiles) - 0 /\ Cardinality(OpenFiles) >= 0
    <3>1. OpenFiles' = OpenFiles
      BY <1>2 DEF OpenFiles
    <3> QED BY <3>1, Finite
  <2>5. files' \in [Files -> Dents \cup {Nil}]
    BY <1>2 DEF RefInv, TypeOK
  <2>6. /\ \A x \in Dents \ {e} : dent'[x] # Free <=> dent[x] # Free
        /\ \A x \in Live \ {e} : dent'[x].ino = dent[x].ino
    BY <1>1, <1>4, <2>2
  <2> QED BY <1>1, <1>2, <1>3, <2>1, <2>2, <2>3, <2>4, <2>5, <2>6, DentryPut
<1> QED BY <1>5, <1>6

LEMMA RefCopyAttributes ==
  ASSUME RefInv, NEW d \in Dents, CopyAttributes(d) PROVE RefInv'
<1>1. UNCHANGED <<mount, dir, below, dent, files, refs, leak>> /\ Copied({dent[d].ino})
  BY DEF CopyAttributes
<1>2. Typed
  BY <1>1, NlinkTyped DEF Typed, RefInv, TypeOK
<1> QED BY <1>1, <1>2, Same

LEMMA RefShrink ==
  ASSUME RefInv, NEW d \in Dents, Shrink(d) PROVE RefInv'
<1>1. /\ mount = "up" /\ d \in Live /\ OpenedBy(d) = {} /\ Dispose(d) /\ Copied({})
      /\ UNCHANGED <<mount, dir, below, files, active, leak>>
  BY StateLive DEF Shrink, Hashed, RefInv, CopiedToNew
<1>2. Typed
  BY <1>1, NlinkTyped DEF Typed, RefInv, TypeOK
<1> QED BY <1>1, <1>2, Disposed

LEMMA RefOpen ==
  ASSUME RefInv, NEW f \in Files, NEW d \in Dents, Open(f, d) PROVE RefInv'
<1>1. /\ mount = "up" /\ files[f] = Nil /\ d \in Live
      /\ UNCHANGED <<mount, dir, below, dent, icount, lower, active, lost, pinned>>
  BY StateLive DEF Open, Hashed, RefInv, leak
<1>2. CASE files' = [files EXCEPT ![f] = d] /\ paths' = paths + 1 /\ Copied({dent[d].ino})
  <2>1. nlink' \in [AllInos -> Nat]
    BY <1>1, <1>2, NlinkTyped DEF RefInv, TypeOK
  <2>2. /\ files' \in [Files -> Dents \cup {Nil}] /\ files'[f] = d
        /\ \A g \in Files \ {f} : files'[g] = files[g]
    BY <1>2 DEF RefInv, TypeOK
  <2>3. OpenFiles' = OpenFiles \cup {f} /\ f \notin OpenFiles
    BY <1>1, <2>2, StackAssumption DEF OpenFiles
  <2>4. Cardinality(OpenFiles') = Cardinality(OpenFiles) + 1
    BY <2>3, Finite, OneMore
  <2>5. Live' = Live /\ \A i : Users(i)' = Users(i)
    BY <1>1 DEF Live, Users
  <2>6. PathsAccounted'
    <3>1. /\ paths = Cardinality(Live) + Cardinality(OpenFiles) + 1 + lost
          /\ lost \in Nat
      BY <1>1 DEF RefInv, PathsAccounted, TypeOK
    <3> QED BY <1>1, <1>2, <2>4, <2>5, <3>1, Finite DEF PathsAccounted
  <2>7. InodesAccounted'
    BY <1>1, <2>5 DEF RefInv, InodesAccounted
  <2>8. HeldByMount'
    BY <1>1, <2>2, <2>5 DEF RefInv, HeldByMount
  <2>9. TypeOK'
    BY <1>1, <1>2, <2>1, <2>2 DEF RefInv, TypeOK
  <2> QED BY <2>6, <2>7, <2>8, <2>9 DEF RefInv
<1>3. CASE UNCHANGED <<files, paths, nlink>>
  <2>1. Typed
    BY <1>1, <1>3 DEF Typed, RefInv, TypeOK
  <2> QED BY <1>1, <1>3, <2>1, Same DEF refs, leak
<1> QED BY <1>2, <1>3 DEF Open

LEMMA RefRelease ==
  ASSUME RefInv, NEW f \in Files, Release(f) PROVE RefInv'
<1>1. PICK d \in Live :
      /\ mount = "up" /\ files[f] = d
      /\ files' = [files EXCEPT ![f] = Nil] /\ Copied({})
      /\ UNCHANGED <<mount, dir, below, active, lost, pinned>>
  BY DEF Release, RefInv, HeldByMount, CopiedToNew, leak
<1>2. Typed
  BY <1>1, NlinkTyped DEF Typed, RefInv, TypeOK
<1>3. d \in Dents /\ d # Nil /\ \A x \in Live : x \in Dents
  BY StackAssumption DEF Live
<1>4. /\ files' \in [Files -> Dents \cup {Nil}] /\ files'[f] = Nil
      /\ \A g \in Files \ {f} : files'[g] = files[g]
  BY <1>1 DEF RefInv, TypeOK
<1>5. OpenFiles' = OpenFiles \ {f} /\ f \in OpenFiles
  BY <1>1, <1>3, <1>4 DEF OpenFiles
<1>6. Cardinality(OpenFiles') = Cardinality(OpenFiles) - 1 /\ Cardinality(OpenFiles) >= 1
  BY <1>5, Finite, OneLess
<1>7. CASE dent[d].state = "unhashed" /\ OpenedBy(d) = {f}
  <2>1. /\ dent' = [dent EXCEPT ![d] = Free] /\ Iput(dent[d].ino)
        /\ paths' = paths - (1 + 1)
    BY <1>1, <1>7 DEF Release, RefInv, TypeOK
  <2>2. /\ dent' \in [Dents -> Dentry] /\ dent'[d] = Free
        /\ \A e \in Dents \ {d} : dent'[e] = dent[e]
    BY <1>3, <2>1 DEF RefInv, TypeOK, Dentry
  <2>3. \A g \in Files : files'[g] # Nil => files'[g] = files[g] /\ files[g] # d
    BY <1>4, <1>7 DEF OpenedBy
  <2> QED BY <1>1, <1>2, <1>3, <1>4, <1>6, <2>1, <2>2, <2>3, DentryPut DEF leak
<1>8. CASE ~(dent[d].state = "unhashed" /\ OpenedBy(d) = {f})
  <2>1. paths' = paths - 1 /\ UNCHANGED <<dent, icount, lower>>
    BY <1>1, <1>8 DEF Release
  <2>2. Live' = Live /\ \A i : Users(i)' = Users(i)
    BY <2>1 DEF Live, Users
  <2>3. PathsAccounted' /\ paths' \in Nat
    <3>1. /\ paths = Cardinality(Live) + Cardinality(OpenFiles) + 1 + lost
          /\ lost \in Nat
      BY <1>1 DEF RefInv, PathsAccounted, TypeOK
    <3>2. paths' = Cardinality(Live') + Cardinality(OpenFiles') + 1 + lost'
      BY <1>1, <1>6, <2>1, <2>2, <3>1, Finite
    <3>3. paths' \in Nat
      BY <1>6, <2>1, <3>1, Finite
    <3> QED BY <1>1, <3>2, <3>3 DEF PathsAccounted
  <2>4. InodesAccounted'
    BY <1>1, <2>1, <2>2 DEF RefInv, InodesAccounted
  <2>5. HeldByMount'
    BY <1>1, <1>4, <2>1, <2>2 DEF RefInv, HeldByMount
  <2>6. TypeOK'
    BY <1>1, <1>2, <1>4, <2>1, <2>3 DEF RefInv, TypeOK, Typed
  <2> QED BY <2>3, <2>4, <2>5, <2>6 DEF RefInv
<1> QED BY <1>7, <1>8

LEMMA PathsLost ==
  ASSUME RefInv, mount = "up", NEW k \in Nat, Loses(k),
         dent' \in [Dents -> Dentry],
         \A e \in Dents : dent'[e] # Free <=> dent[e] # Free,
         \A e \in Live : dent'[e].ino = dent[e].ino,
         UNCHANGED <<mount, files, icount, lower, active>>, Typed
  PROVE  RefInv'
<1>1. Live' = Live /\ (\A i : Users(i)' = Users(i)) /\ OpenFiles' = OpenFiles
  BY DentriesKept DEF OpenFiles
<1>2. lost' = lost + k /\ paths' = paths + k /\ pinned' = TRUE
  BY DEF Loses
<1>3. PathsAccounted'
  <2>1. /\ paths = Cardinality(Live) + Cardinality(OpenFiles) + 1 + lost
        /\ lost \in Nat /\ lost' = lost + k /\ paths' = paths + k
    BY <1>2 DEF RefInv, PathsAccounted, TypeOK
  <2>2. paths' = Cardinality(Live') + Cardinality(OpenFiles') + 1 + lost'
    BY <1>1, <2>1, Finite
  <2> QED BY <2>2 DEF PathsAccounted
<1>4. InodesAccounted'
  BY <1>1 DEF RefInv, InodesAccounted
<1>5. HeldByMount'
  BY <1>1, <1>2 DEF RefInv, HeldByMount
<1>6. TypeOK'
  BY <1>2 DEF RefInv, TypeOK, Typed
<1> QED BY <1>3, <1>4, <1>5, <1>6 DEF RefInv

LEMMA RefLeak ==
  ASSUME RefInv, NEW f \in Files, Write(f) \/ Ioctl(f) PROVE RefInv'
<1>1. PICK k \in Nat : Loses(k)
  BY StackAssumption DEF Write, Ioctl
<1>2. /\ mount = "up" /\ UNCHANGED <<mount, dir, below, dent, files, icount, lower, active>>
      /\ \E S : Copied(S)
  BY DEF Write, Ioctl, CopiedToNew
<1>3. Typed /\ dent' \in [Dents -> Dentry]
  BY <1>2, NlinkTyped DEF Typed, RefInv, TypeOK
<1> QED BY <1>1, <1>2, <1>3, PathsLost

\* What restore makes of the dentries.
LEMMA Orphaned ==
  ASSUME TypeOK, NEW n,
         dent' = [d \in Dents |->
                    IF dent[d].state = "hashed" /\ dent[d].name = n
                    THEN [dent[d] EXCEPT !.state = "orphan"] ELSE dent[d]]
  PROVE  /\ dent' \in [Dents -> Dentry]
         /\ \A d \in Dents :
              /\ dent'[d] # Free <=> dent[d] # Free
              /\ dent'[d].ino = dent[d].ino /\ dent'[d].name = dent[d].name
              /\ dent'[d].state = IF dent[d].state = "hashed" /\ dent[d].name = n
                                  THEN "orphan" ELSE dent[d].state
<1>1. ASSUME NEW d \in Dents
      PROVE  /\ dent'[d] \in Dentry
             /\ dent'[d] # Free <=> dent[d] # Free
             /\ dent'[d].ino = dent[d].ino /\ dent'[d].name = dent[d].name
             /\ dent'[d].state = IF dent[d].state = "hashed" /\ dent[d].name = n
                                 THEN "orphan" ELSE dent[d].state
  <2>1. CASE dent[d].state = "hashed" /\ dent[d].name = n
    <3> DEFINE q == [dent[d] EXCEPT !.state = "orphan"]
    <3>1. dent[d] \in Dentry \ {Free}
      BY <2>1, StateLive, LiveFields
    <3>2. /\ q \in Dentry /\ q # Free /\ q.state = "orphan"
          /\ q.name = dent[d].name /\ q.ino = dent[d].ino
      BY <3>1, RecordState
    <3>3. dent'[d] = q
      BY <2>1
    <3> HIDE DEF q
    <3> QED BY <2>1, <3>1, <3>2, <3>3
  <2>2. CASE ~(dent[d].state = "hashed" /\ dent[d].name = n)
    <3>1. dent'[d] = dent[d]
      BY <2>2
    <3> QED BY <2>2, <3>1 DEF TypeOK
  <2> QED BY <2>1, <2>2
<1>2. dent' = [d \in Dents |-> dent'[d]]
  OBVIOUS
<1> QED BY <1>1, <1>2

LEMMA RefRestore ==
  ASSUME RefInv, NEW f \in Files, Restore(f) PROVE RefInv'
<1>0. PICK n : n = dent[files[f]].name
  OBVIOUS
<1>1. PICK k \in Nat : Loses(k)
  BY StackAssumption DEF Restore
<1>2. /\ mount = "up" /\ UNCHANGED <<mount, files, icount, lower, active, nlink>>
      /\ dir[n] \in Inos /\ dir' = [dir EXCEPT ![n] = Nil] /\ Unlinked(dir[n])
      /\ dent' = [d \in Dents |->
                    IF dent[d].state = "hashed" /\ dent[d].name = n
                    THEN [dent[d] EXCEPT !.state = "orphan"] ELSE dent[d]]
  BY <1>0 DEF Restore
<1>3. Typed
  <2>1. below' \in [Inos -> Nat]
    BY <1>2, BelowUnlinked DEF RefInv
  <2> QED BY <1>2, <2>1 DEF Typed, RefInv, TypeOK
<1>4. /\ dent' \in [Dents -> Dentry]
      /\ \A d \in Dents : /\ dent'[d] # Free <=> dent[d] # Free
                           /\ dent'[d].ino = dent[d].ino
  <2>1. TypeOK
    BY DEF RefInv
  <2>2. dent' = [d \in Dents |->
                   IF dent[d].state = "hashed" /\ dent[d].name = n
                   THEN [dent[d] EXCEPT !.state = "orphan"] ELSE dent[d]]
    BY <1>2
  <2>3. /\ dent' \in [Dents -> Dentry]
        /\ \A d \in Dents :
             /\ dent'[d] # Free <=> dent[d] # Free
             /\ dent'[d].ino = dent[d].ino /\ dent'[d].name = dent[d].name
             /\ dent'[d].state = IF dent[d].state = "hashed" /\ dent[d].name = n
                                 THEN "orphan" ELSE dent[d].state
    BY <2>1, <2>2, Orphaned
  <2> QED BY <2>3
<1>5. \A e \in Live : e \in Dents
  BY DEF Live
<1> QED BY <1>1, <1>2, <1>3, <1>4, <1>5, PathsLost

LEMMA RefInit ==
  ASSUME Init PROVE RefInv
<1>1. Live = {} /\ OpenFiles = {} /\ \A i : Users(i) = {}
  BY DEF Init, Live, OpenFiles, Users
<1>2. Cardinality({}) = 0
  BY FS_EmptySet
<1>3. TypeOK
  <2>1. Free \in Dentry
    BY DEF Dentry
  <2>2. /\ dent \in [Dents -> Dentry] /\ files \in [Files -> Dents \cup {Nil}]
    BY <2>1 DEF Init
  <2>3. /\ icount \in [AllInos -> Int] /\ lower \in [AllInos -> Nat]
        /\ nlink \in [AllInos -> Nat] /\ paths \in Nat /\ active \in Nat /\ lost \in Nat
    BY DEF Init
  <2>4. mount = "down" /\ dir \in [Names -> Inos \cup {Nil}] /\ pinned = FALSE
    BY DEF Init
  <2>5. below \in [Inos -> Nat]
    <3>1. \A i : IsFiniteSet(NamesOf({i}, dir))
      BY StackAssumption, FS_Subset DEF NamesOf
    <3>2. \A i : Cardinality(NamesOf({i}, dir)) \in Nat
      BY <3>1, FS_CardinalityType
    <3>3. below = [i \in Inos |-> IF i \in Subdirs THEN 2 * Cardinality(NamesOf({i}, dir))
                                   ELSE Cardinality(NamesOf({i}, dir))]
      BY DEF Init
    <3> DEFINE count(i) == Cardinality(NamesOf({i}, dir))
    <3>4. \A i : count(i) \in Nat
      BY <3>2
    <3>5. below = [i \in Inos |-> IF i \in Subdirs THEN 2 * count(i) ELSE count(i)]
      BY <3>3
    <3> HIDE DEF count
    <3> QED BY <3>4, <3>5
  <2> QED BY <2>2, <2>3, <2>4, <2>5 DEF TypeOK
<1>4. PathsAccounted
  BY <1>1, <1>2 DEF Init, PathsAccounted
<1>5. InodesAccounted
  BY <1>1, <1>2 DEF Init, InodesAccounted, AllInos
<1>6. HeldByMount
  BY <1>1 DEF Init, HeldByMount, AllInos
<1> QED BY <1>3, <1>4, <1>5, <1>6 DEF RefInv

LEMMA RefStep ==
  ASSUME RefInv, [Next]_vars PROVE RefInv'
<1>1. CASE Mount \/ MountRefused \/ MountNoRoot \/ MountNoPrivateData \/ Unmount
  BY <1>1, RefMount, RefMountRefused, RefMountDies, RefUnmount
<1>2. ASSUME NEW n \in Names, Lookup(n) PROVE RefInv'
  BY <1>2, RefLookup
<1>3. ASSUME NEW n \in Names, NEW i \in Inos,
             Create(n, i) \/ Symlink(n, i) \/ Mknod(n, i) \/ Mkdir(n, i)
      PROVE  RefInv'
  BY <1>3, RefMake DEF Create, Symlink, Mknod, Mkdir
<1>4. ASSUME NEW d \in Dents, Unlink(d) \/ Rmdir(d) \/ Shrink(d) \/ CopyAttributes(d)
      PROVE  RefInv'
  BY <1>4, RefRemove, RefShrink, RefCopyAttributes DEF Unlink, Rmdir
<1>5. ASSUME NEW d \in Dents, NEW n \in Names, Link(d, n) \/ Rename(d, n) PROVE RefInv'
  BY <1>5, RefLink, RefRename
<1>6. ASSUME NEW d \in Dents, NEW e \in Dents, RenameOver(d, e) PROVE RefInv'
  BY <1>6, RefRenameOver
<1>7. ASSUME NEW f \in Files, Release(f) \/ Write(f) \/ Ioctl(f) \/ Restore(f)
      PROVE  RefInv'
  BY <1>7, RefRelease, RefLeak, RefRestore
<1>8. ASSUME NEW f \in Files, NEW d \in Dents, Open(f, d) PROVE RefInv'
  BY <1>8, RefOpen
<1>9. CASE UNCHANGED vars
  <2>1. Typed
    BY <1>9 DEF vars, Typed, RefInv, TypeOK
  <2> QED BY <1>9, <2>1, Same DEF vars
<1> QED BY <1>1, <1>2, <1>3, <1>4, <1>5, <1>6, <1>7, <1>8, <1>9 DEF Next

\* References are accounted for in every behaviour.
THEOREM RefInvariance == Spec => []RefInv
<1>1. Init => RefInv
  BY RefInit
<1>2. RefInv /\ [Next]_vars => RefInv'
  BY RefStep
<1> QED BY <1>1, <1>2, PTL DEF Spec

-----------------------------------------------------------------------------
(* The names.                                                                *)

\* Dentries that stay hashed keep their name, and the directory what it has there,
\* but for the name that restore takes from it.
LEMMA NamesKept ==
  ASSUME NamesAgree,
         \A e \in Live' : Hashed(e)' =>
           /\ e \in Live /\ Hashed(e)
           /\ dent'[e].name = dent[e].name /\ dent'[e].ino = dent[e].ino
           /\ \/ dent'[e].state = dent[e].state /\ dir'[dent[e].name] = dir[dent[e].name]
              \/ dent'[e].state # "hashed" /\ dir'[dent[e].name] = Nil
  PROVE  NamesAgree'
BY DEF NamesAgree

LEMMA SameNames ==
  ASSUME NamesAgree, UNCHANGED <<dent, dir>> PROVE NamesAgree'
BY DEF NamesAgree, Live, Hashed

\* A dentry is taken away, or unhashed.
LEMMA NamesFewer ==
  ASSUME RefInv, NamesAgree, NEW d \in Live,
         dent' = [dent EXCEPT ![d] = Free] \/ dent' = [dent EXCEPT ![d].state = "unhashed"],
         \/ dir' = dir
         \/ dent[d].state = "hashed" /\ dir' = [dir EXCEPT ![dent[d].name] = Nil]
  PROVE  NamesAgree'
<1>1. d \in Dents /\ Free.state = "free" /\ \A e \in Live : e \in Dents
  BY DEF Live, Free
<1>2. /\ \A e \in Dents \ {d} : dent'[e] = dent[e]
      /\ dent'[d].state \in {"free", "unhashed"}
  <2>1. CASE dent' = [dent EXCEPT ![d] = Free]
    BY <1>1, <2>1 DEF RefInv, TypeOK
  <2>2. CASE dent' = [dent EXCEPT ![d].state = "unhashed"]
    BY <2>2, SetState DEF RefInv
  <2> QED BY <2>1, <2>2
<1>3. \A e \in Live' : Hashed(e)' =>
        /\ e # d /\ e \in Live /\ Hashed(e) /\ dent'[e] = dent[e]
  BY <1>2 DEF Live, Hashed
<1>4. ASSUME NEW e \in Live, Hashed(e), e # d
      PROVE  dir'[dent[e].name] = dir[dent[e].name]
  <2>1. CASE dir' = dir
    BY <2>1
  <2>2. CASE dent[d].state = "hashed" /\ dir' = [dir EXCEPT ![dent[d].name] = Nil]
    <3>1. dent[e].name # dent[d].name
      BY <1>4, <2>2 DEF NamesAgree, Hashed
    <3>2. dent[e].name \in Names
      BY LiveFields DEF RefInv
    <3> QED BY <2>2, <3>1, <3>2 DEF RefInv, TypeOK
  <2> QED BY <2>1, <2>2
<1> QED BY <1>3, <1>4, NamesKept

LEMMA NamesMore ==
  ASSUME RefInv, NamesAgree, NEW n \in Names, NEW i \in Inos, Interpose(n, i), Unknown(n),
         dir' \in [Names -> Inos \cup {Nil}], dir'[n] = i,
         \A m \in Names \ {n} : dir'[m] = dir[m]
  PROVE  NamesAgree'
<1>1. PICK d \in Dents \ Live :
        dent' = [dent EXCEPT ![d] = [state |-> "hashed", name |-> n, ino |-> i]]
  BY DEF Interpose
<1>2. /\ dent'[d].name = n /\ dent'[d].ino = i
      /\ \A e \in Dents \ {d} : dent'[e] = dent[e]
  BY <1>1 DEF RefInv, TypeOK
<1>3. Live' = Live \cup {d}
  BY <1>1, DentryAdded DEF RefInv
<1>4. \A e \in Live : /\ e # d /\ dent'[e] = dent[e] /\ Hashed(e)' = Hashed(e)
                      /\ dent[e].name \in Names
                      /\ Hashed(e) => dent[e].name # n
  BY <1>1, <1>2, LiveFields DEF Unknown, Hashed, RefInv
<1> SUFFICES ASSUME NEW e \in Live', Hashed(e)'
             PROVE  /\ dir'[dent'[e].name] = IF dent'[e].state = "hashed" THEN dent'[e].ino ELSE Nil
                    /\ \A x \in Live' : Hashed(x)' /\ dent'[x].name = dent'[e].name => x = e
  BY DEF NamesAgree
<1>5. CASE e = d
  <2>1. dent'[d].state = "hashed"
    BY <1>1 DEF RefInv, TypeOK
  <2> QED BY <1>2, <1>3, <1>4, <1>5, <2>1
<1>6. CASE e # d
  <2>1. e \in Live /\ Hashed(e) /\ dent[e].name # n /\ dent'[e] = dent[e]
        /\ dent[e].name \in Names
    BY <1>3, <1>4, <1>6
  <2>2. dir'[dent'[e].name] = IF dent'[e].state = "hashed" THEN dent'[e].ino ELSE Nil
    BY <2>1 DEF NamesAgree
  <2>3. ASSUME NEW x \in Live', Hashed(x)', dent'[x].name = dent'[e].name PROVE x = e
    <3>1. x # d
      BY <1>2, <2>1, <2>3
    <3>2. x \in Live /\ Hashed(x) /\ dent[x].name = dent[e].name
      BY <1>3, <1>4, <2>1, <2>3, <3>1
    <3> QED BY <2>1, <3>2 DEF NamesAgree
  <2> QED BY <2>2, <2>3
<1> QED BY <1>5, <1>6

LEMMA NamesLookup ==
  ASSUME RefInv, NamesAgree, NEW n \in Names, Lookup(n) PROVE NamesAgree'
<1>1. dir[n] \in Inos /\ Unknown(n) /\ dir' = dir /\ dir \in [Names -> Inos \cup {Nil}]
  BY DEF Lookup, RefInv, TypeOK
<1>2. CASE Interpose(n, dir[n])
  BY <1>1, <1>2, NamesMore
<1>3. CASE NotInterposed
  BY <1>1, <1>3, SameNames DEF NotInterposed
<1> QED BY <1>2, <1>3 DEF Lookup

\* The directory has one name more, which no dentry has, or has had, with or
\* without a dentry for it.
LEMMA NamesEntered ==
  ASSUME RefInv, NamesAgree, NEW n \in Names, NEW i \in Inos, Unknown(n),
         \/ Interpose(n, i) /\ dir' = [dir EXCEPT ![n] = i]
         \/ NotInterposed /\ (dir' = dir \/ dir' = [dir EXCEPT ![n] = i])
  PROVE  NamesAgree'
<1>1. dir' \in [Names -> Inos \cup {Nil}] /\ \A m \in Names \ {n} : dir'[m] = dir[m]
  BY DEF RefInv, TypeOK
<1>2. CASE Interpose(n, i) /\ dir' = [dir EXCEPT ![n] = i]
  <2>1. dir'[n] = i
    BY <1>2 DEF RefInv, TypeOK
  <2> QED BY <1>1, <1>2, <2>1, NamesMore
<1>3. CASE NotInterposed
  <2>1. \A e \in Live' : Hashed(e)' => e \in Live /\ Hashed(e) /\ dent' = dent
    BY <1>3 DEF NotInterposed, Live, Hashed
  <2>2. \A e \in Live : Hashed(e) => dent[e].name \in Names \ {n}
    BY LiveFields DEF Unknown, RefInv
  <2> QED BY <1>1, <2>1, <2>2, NamesKept
<1> QED BY <1>2, <1>3

\* A dentry moves to a name that no other hashed dentry has any more.
LEMMA NamesMoved ==
  ASSUME RefInv, NamesAgree, NEW d \in Live, NEW n \in Names, dent[d].state = "hashed",
         dir' = [dir EXCEPT ![n] = dent[d].ino, ![dent[d].name] = Nil],
         n # dent[d].name,
         dent'[d].state = "hashed", dent'[d].name = n, dent'[d].ino = dent[d].ino,
         \A e \in Live' : e \in Live,
         \A e \in Live' : Hashed(e)' /\ e # d =>
           dent'[e] = dent[e] /\ dent[e].name # n
  PROVE  NamesAgree'
<1>1. dent[d].name \in Names /\ dent[d].ino \in Inos
  BY LiveFields DEF RefInv
<1>2. /\ dir'[n] = dent[d].ino
      /\ \A m \in Names \ {n, dent[d].name} : dir'[m] = dir[m]
  BY <1>1 DEF RefInv, TypeOK
<1>3. ASSUME NEW e \in Live', Hashed(e)', e # d
      PROVE  /\ e \in Live /\ Hashed(e) /\ dent'[e] = dent[e]
             /\ dent[e].name \in Names \ {n, dent[d].name}
  <2>1. e \in Live /\ Hashed(e) /\ dent'[e] = dent[e] /\ dent[e].name # n
    BY <1>3 DEF Hashed
  <2>2. dent[e].name \in Names
    BY <2>1, LiveFields DEF RefInv
  <2>3. dent[e].name # dent[d].name
    BY <1>3, <2>1 DEF NamesAgree, Hashed
  <2> QED BY <2>1, <2>2, <2>3
<1> SUFFICES ASSUME NEW e \in Live', Hashed(e)'
             PROVE  /\ dir'[dent'[e].name] = IF dent'[e].state = "hashed" THEN dent'[e].ino ELSE Nil
                    /\ \A x \in Live' : Hashed(x)' /\ dent'[x].name = dent'[e].name => x = e
  BY DEF NamesAgree
<1>4. CASE e = d
  BY <1>2, <1>3, <1>4
<1>5. CASE e # d
  <2>1. dir'[dent'[e].name] = IF dent'[e].state = "hashed" THEN dent'[e].ino ELSE Nil
    <3>1. /\ e \in Live /\ Hashed(e) /\ dent'[e] = dent[e]
          /\ dent[e].name \in Names \ {n, dent[d].name}
      BY <1>3, <1>5
    <3>2. dir[dent[e].name] = IF dent[e].state = "hashed" THEN dent[e].ino ELSE Nil
      BY <3>1 DEF NamesAgree
    <3> QED BY <1>2, <3>1, <3>2
  <2>2. ASSUME NEW x \in Live', Hashed(x)', dent'[x].name = dent'[e].name PROVE x = e
    <3>1. x # d
      BY <1>3, <1>5, <2>2
    <3> QED BY <1>3, <1>5, <2>2, <3>1 DEF NamesAgree
  <2> QED BY <2>1, <2>2
<1> QED BY <1>4, <1>5

LEMMA NamesRename ==
  ASSUME RefInv, NamesAgree, NEW d \in Dents, NEW n \in Names, Rename(d, n)
  PROVE  NamesAgree'
<1>1. d \in Live /\ dent[d].state = "hashed" /\ Unknown(n)
  BY StateLive DEF Rename, RefInv
<1>2. /\ dir' = [dir EXCEPT ![n] = dent[d].ino, ![dent[d].name] = Nil]
      /\ dent' = [dent EXCEPT ![d].name = n]
  BY DEF Rename
<1>3. /\ dent'[d].state = "hashed" /\ dent'[d].name = n /\ dent'[d].ino = dent[d].ino
      /\ \A e \in Dents \ {d} : dent'[e] = dent[e]
  BY <1>1, <1>2, SetName DEF RefInv
<1>4. n # dent[d].name
  BY <1>1 DEF Unknown, Hashed
<1>5. \A e \in Live' : e \in Dents /\ (e # d => e \in Live /\ dent'[e] = dent[e])
  BY <1>3 DEF Live
<1>6. \A e \in Live' : Hashed(e)' /\ e # d => dent'[e] = dent[e] /\ dent[e].name # n
  BY <1>1, <1>5 DEF Unknown, Hashed
<1> QED BY <1>1, <1>2, <1>3, <1>4, <1>5, <1>6, NamesMoved

LEMMA NamesRenameOver ==
  ASSUME RefInv, NamesAgree, NEW d \in Dents, NEW e \in Dents, RenameOver(d, e)
  PROVE  NamesAgree'
<1>0. PICK n \in Names : n = dent[e].name
  BY StateLive, LiveFields DEF RenameOver, Hashed, RefInv
<1>1. /\ d \in Live /\ e \in Live /\ d # e
      /\ dent[d].state = "hashed" /\ Hashed(e)
  BY StateLive DEF RenameOver, Hashed, RefInv
<1>2. n # dent[d].name
  BY <1>0, <1>1 DEF NamesAgree, Hashed
<1>3. dir' = [dir EXCEPT ![n] = dent[d].ino, ![dent[d].name] = Nil]
  BY <1>0 DEF RenameOver
<1>4. \/ dent' = [dent EXCEPT ![d].name = n, ![e].state = "unhashed"]
      \/ dent' = [dent EXCEPT ![d].name = n, ![e] = Free]
  BY <1>0 DEF RenameOver
<1>5. /\ dent'[d].state = "hashed" /\ dent'[d].name = n /\ dent'[d].ino = dent[d].ino
      /\ dent'[e].state \in {"free", "unhashed"}
      /\ \A x \in Dents \ {d, e} : dent'[x] = dent[x]
  <2>1. Free.state = "free"
    BY DEF Free
  <2>2. CASE dent' = [dent EXCEPT ![d].name = n, ![e].state = "unhashed"]
    <3>1. TypeOK
      BY DEF RefInv
    <3>2. /\ dent' \in [Dents -> Dentry] /\ dent'[e] # Free
          /\ dent'[e].state = "unhashed" /\ dent'[e].ino = dent[e].ino
          /\ dent'[d].state = dent[d].state /\ dent'[d].name = n
          /\ dent'[d].ino = dent[d].ino /\ dent'[d] # Free
          /\ \A x \in Dents \ {d, e} : dent'[x] = dent[x]
      BY <1>1, <2>2, <3>1, RenamedOver
    <3> QED BY <1>1, <3>2
  <2>3. CASE dent' = [dent EXCEPT ![d].name = n, ![e] = Free]
    <3>1. TypeOK
      BY DEF RefInv
    <3>0. d \in Live /\ e \in Live /\ d # e
      BY <1>1
    <3>2. /\ dent' \in [Dents -> Dentry] /\ dent'[e] = Free
          /\ dent'[d].state = dent[d].state /\ dent'[d].name = n
          /\ dent'[d].ino = dent[d].ino /\ dent'[d] # Free
          /\ \A x \in Dents \ {d, e} : dent'[x] = dent[x]
      BY <2>3, <3>0, <3>1, RenamedOver
    <3> QED BY <1>1, <2>1, <3>2
  <2> QED BY <1>4, <2>2, <2>3
<1>6. \A x \in Live' : x \in Live
  BY <1>1, <1>5 DEF Live
<1>7. \A x \in Live' : Hashed(x)' /\ x # d => x # e /\ dent'[x] = dent[x]
  BY <1>5 DEF Hashed, Live
<1>8. \A x \in Live' : Hashed(x)' /\ x # d => dent[x].name # n
  BY <1>0, <1>1, <1>6, <1>7 DEF NamesAgree, Hashed
<1> QED BY <1>1, <1>2, <1>3, <1>5, <1>6, <1>7, <1>8, NamesMoved

LEMMA NamesRestore ==
  ASSUME RefInv, NamesAgree, NEW f \in Files, Restore(f) PROVE NamesAgree'
<1>0. PICK n : n = dent[files[f]].name
  OBVIOUS
<1>1. /\ dir' = [dir EXCEPT ![n] = Nil]
      /\ dent' = [d \in Dents |->
                    IF dent[d].state = "hashed" /\ dent[d].name = n
                    THEN [dent[d] EXCEPT !.state = "orphan"] ELSE dent[d]]
  BY <1>0 DEF Restore
<1>2. /\ dent' \in [Dents -> Dentry]
      /\ \A d \in Dents :
           /\ dent'[d] # Free <=> dent[d] # Free
           /\ dent'[d].ino = dent[d].ino /\ dent'[d].name = dent[d].name
           /\ dent'[d].state = IF dent[d].state = "hashed" /\ dent[d].name = n
                               THEN "orphan" ELSE dent[d].state
  <2>1. TypeOK
    BY DEF RefInv
  <2> QED BY <1>1, <2>1, Orphaned
<1>3. Live' = Live /\ \A e \in Live : e \in Dents /\ dent[e].name \in Names
  BY <1>2, LiveFields DEF Live, RefInv
<1>4. ASSUME NEW e \in Live
      PROVE  \/ dent'[e].state = dent[e].state /\ dir'[dent[e].name] = dir[dent[e].name]
             \/ dent'[e].state # "hashed" /\ dir'[dent[e].name] = Nil
  <2>1. CASE dent[e].name = n
    BY <1>1, <1>2, <1>3, <2>1 DEF RefInv, TypeOK
  <2>2. CASE dent[e].name # n
    BY <1>1, <1>2, <1>3, <2>2 DEF RefInv, TypeOK
  <2> QED BY <2>1, <2>2
<1>5. \A e \in Live : Hashed(e)' => Hashed(e)
  BY <1>2, <1>3 DEF Hashed
<1> QED BY <1>2, <1>3, <1>4, <1>5, NamesKept

LEMMA NamesStep ==
  ASSUME RefInv, NamesAgree, [Next]_vars PROVE NamesAgree'
<1>1. CASE Mount \/ MountRefused \/ MountNoRoot \/ MountNoPrivateData
  BY <1>1, SameNames DEF Mount, MountRefused, MountNoRoot, MountNoPrivateData
<1>2. CASE Unmount
  BY <1>2 DEF Unmount, NamesAgree, Live
<1>3. ASSUME NEW n \in Names, Lookup(n) PROVE NamesAgree'
  BY <1>3, NamesLookup
<1>4. ASSUME NEW n \in Names, NEW i \in Inos,
             Create(n, i) \/ Symlink(n, i) \/ Mknod(n, i) \/ Mkdir(n, i)
      PROVE  NamesAgree'
  <2>1. Make(n, i)
    BY <1>4 DEF Create, Symlink, Mknod, Mkdir
  <2> QED BY <2>1, NamesEntered DEF Make
<1>5. ASSUME NEW d \in Dents, Unlink(d) \/ Rmdir(d) PROVE NamesAgree'
  <2>1. Remove(d) /\ d \in Live
    BY <1>5, StateLive DEF Unlink, Rmdir, Remove, Hashed, RefInv
  <2>2. CASE UNCHANGED <<dir, dent>>
    BY <2>2, SameNames
  <2>3. CASE /\ dent[d].state = "hashed" /\ Drop(d)
             /\ dir' = [dir EXCEPT ![dent[d].name] = Nil]
    BY <2>1, <2>3, NamesFewer DEF Drop, Dispose
  <2> QED BY <2>1, <2>2, <2>3 DEF Remove
<1>6. ASSUME NEW d \in Dents, Shrink(d) PROVE NamesAgree'
  <2>1. d \in Live /\ dir' = dir /\ dent' = [dent EXCEPT ![d] = Free]
    BY <1>6, StateLive DEF Shrink, Dispose, Hashed, RefInv
  <2> QED BY <2>1, NamesFewer
<1>7. ASSUME NEW d \in Dents, NEW n \in Names, Link(d, n) PROVE NamesAgree'
  <2>1. PICK i \in Inos : i = dent[d].ino
    BY <1>7, StateLive, LiveFields DEF Link, Hashed, RefInv
  <2> QED BY <1>7, <2>1, NamesEntered DEF Link
<1>8. ASSUME NEW d \in Dents, NEW n \in Names, Rename(d, n) PROVE NamesAgree'
  BY <1>8, NamesRename
<1>9. ASSUME NEW d \in Dents, NEW e \in Dents, RenameOver(d, e) PROVE NamesAgree'
  BY <1>9, NamesRenameOver
<1>10. ASSUME NEW d \in Dents, CopyAttributes(d) PROVE NamesAgree'
  BY <1>10, SameNames DEF CopyAttributes
<1>11. ASSUME NEW f \in Files, Release(f) PROVE NamesAgree'
  <2>1. files[f] \in Live /\ dir' = dir
    BY <1>11 DEF Release, RefInv, HeldByMount
  <2>2. dent' = dent \/ dent' = [dent EXCEPT ![files[f]] = Free]
    BY <1>11 DEF Release
  <2> QED BY <2>1, <2>2, NamesFewer, SameNames
<1>12. ASSUME NEW f \in Files, Write(f) \/ Ioctl(f) PROVE NamesAgree'
  BY <1>12, SameNames DEF Write, Ioctl
<1>13. ASSUME NEW f \in Files, Restore(f) PROVE NamesAgree'
  BY <1>13, NamesRestore
<1>14. ASSUME NEW f \in Files, NEW d \in Dents, Open(f, d) PROVE NamesAgree'
  BY <1>14, SameNames DEF Open
<1>15. CASE UNCHANGED vars
  BY <1>15, SameNames DEF vars
<1> QED BY <1>1, <1>2, <1>3, <1>4, <1>5, <1>6, <1>7, <1>8, <1>9, <1>10, <1>11, <1>12,
           <1>13, <1>14, <1>15 DEF Next

-----------------------------------------------------------------------------
(* The link counts.                                                          *)

LEMMA RootLinks ==
  ASSUME NEW dr, NEW dr2, NamesOf(Subdirs, dr) \subseteq NamesOf(Subdirs, dr2)
  PROVE  /\ Cardinality(NamesOf(Subdirs, dr)) <= Cardinality(NamesOf(Subdirs, dr2))
         /\ Cardinality(NamesOf(Subdirs, dr)) \in Nat
         /\ Cardinality(NamesOf(Subdirs, dr2)) \in Nat
<1>1. IsFiniteSet(NamesOf(Subdirs, dr)) /\ IsFiniteSet(NamesOf(Subdirs, dr2))
  BY StackAssumption, FS_Subset DEF NamesOf
<1> QED BY <1>1, FS_Subset, FS_CardinalityType

\* A step that copies the counts of S: what the directory newly names and still has
\* links is in S, had no upper inode or a positive count, and the directory loses a
\* subdirectory only if the root is in S.
LEMMA LinksCopied ==
  ASSUME RefInv, RefInv', mount' = "up", NEW S, Copied(S),
         \A n \in Names : dir'[n] # Nil =>
           \/ dir'[n] \in S \/ icount[dir'[n]] <= 0
           \/ nlink[dir'[n]] > 0
           \/ /\ mount = "up"
              /\ \E m \in Names : /\ dir[m] = dir'[n]
                                  /\ below'[dir'[n]] > 0 => below[dir'[n]] > 0,
         \/ Root \in S \/ icount[Root] <= 0
         \/ mount = "up" /\ NamesOf(Subdirs, dir) \subseteq NamesOf(Subdirs, dir'),
         LinksKept
  PROVE  LinksKept'
<1>1. dir' \in [Names -> Inos \cup {Nil}] /\ dir \in [Names -> Inos \cup {Nil}]
  BY DEF RefInv, TypeOK
<1>2. ASSUME NEW n \in Names, dir'[n] # Nil, icount'[dir'[n]] > 0, below'[dir'[n]] > 0
      PROVE  nlink'[dir'[n]] > 0
  <2>1. dir'[n] \in Inos /\ dir'[n] \in AllInos /\ dir'[n] # Root
    BY <1>1, <1>2, StackAssumption DEF AllInos
  <2>2. nlink'[dir'[n]] = IF dir'[n] \in S \/ icount[dir'[n]] <= 0
                          THEN below'[dir'[n]] ELSE nlink[dir'[n]]
    <3>1. icount' \in [AllInos -> Int]
      BY DEF RefInv, TypeOK
    <3>2. ~(icount'[dir'[n]] <= 0)
      BY <1>2, <2>1, <3>1
    <3> QED BY <2>1, <3>2 DEF Copied, LinksBelow
  <2>3. CASE dir'[n] \in S \/ icount[dir'[n]] <= 0
    BY <1>2, <2>2, <2>3
  <2>4. CASE ~(dir'[n] \in S \/ icount[dir'[n]] <= 0)
    <3>1. icount[dir'[n]] > 0
      BY <2>1, <2>4 DEF RefInv, TypeOK
    <3>2. nlink[dir'[n]] > 0
      BY <1>2, <2>4, <3>1 DEF LinksKept
    <3> QED BY <2>2, <2>4, <3>2
  <2> QED BY <2>3, <2>4
<1>3. 2 <= nlink'[Root] /\ nlink'[Root] <= LinksBelow(Root)'
  <2> DEFINE was == Cardinality(NamesOf(Subdirs, dir))
             now == Cardinality(NamesOf(Subdirs, dir'))
  <2>1. Root \in AllInos /\ icount'[Root] = 1
    BY DEF AllInos, RefInv, HeldByMount
  <2>2. LinksBelow(Root) = 2 + was /\ LinksBelow(Root)' = 2 + now
    BY DEF LinksBelow
  <2>3. nlink'[Root] = IF Root \in S \/ icount[Root] <= 0
                       THEN LinksBelow(Root)' ELSE nlink[Root]
    BY <2>1 DEF Copied
  <2>4. now \in Nat
    BY SubdirsCounted
  <2>5. CASE Root \in S \/ icount[Root] <= 0
    BY <2>2, <2>3, <2>4, <2>5
  <2>6. CASE ~(Root \in S \/ icount[Root] <= 0)
    <3>1. 2 <= nlink[Root] /\ nlink[Root] <= 2 + was /\ nlink[Root] \in Nat
      BY <2>1, <2>2, <2>6 DEF LinksKept, RefInv, TypeOK
    <3>2. was <= now /\ was \in Nat
      BY <2>6, RootLinks
    <3> HIDE DEF was, now
    <3> QED BY <2>2, <2>3, <2>4, <2>6, <3>1, <3>2
  <2> QED BY <2>5, <2>6
<1> QED BY <1>2, <1>3 DEF LinksKept

\* A step that copies none, and names nothing new.
LEMMA LinksUncopied ==
  ASSUME RefInv, RefInv', LinksKept, UNCHANGED <<mount, icount, nlink>>,
         \A n \in Names : dir'[n] # Nil => dir'[n] = dir[n],
         \A i \in Inos : below'[i] > 0 => below[i] > 0,
         NamesOf(Subdirs, dir) \subseteq NamesOf(Subdirs, dir')
  PROVE  LinksKept'
<1>1. CASE mount = "up"
  <2> DEFINE was == Cardinality(NamesOf(Subdirs, dir))
             now == Cardinality(NamesOf(Subdirs, dir'))
  <2>1. LinksBelow(Root) = 2 + was /\ LinksBelow(Root)' = 2 + now
    BY DEF LinksBelow
  <2>2. 2 <= nlink[Root] /\ nlink[Root] <= 2 + was /\ nlink[Root] \in Nat
    BY <1>1, <2>1 DEF LinksKept, RefInv, TypeOK, AllInos
  <2>3. was <= now /\ was \in Nat /\ now \in Nat
    BY RootLinks
  <2> HIDE DEF was, now
  <2>4. 2 <= nlink'[Root] /\ nlink'[Root] <= LinksBelow(Root)'
    BY <2>1, <2>2, <2>3
  <2>5. ASSUME NEW n \in Names, dir'[n] # Nil, icount'[dir'[n]] > 0, below'[dir'[n]] > 0
        PROVE  nlink'[dir'[n]] > 0
    <3>1. dir'[n] = dir[n] /\ dir[n] # Nil /\ dir[n] \in Inos
      BY <2>5 DEF RefInv, TypeOK
    <3>2. icount[dir[n]] > 0 /\ below[dir[n]] > 0
      BY <2>5, <3>1
    <3> QED BY <1>1, <3>1, <3>2 DEF LinksKept
  <2> QED BY <2>4, <2>5 DEF LinksKept
<1>2. CASE mount # "up"
  BY <1>2 DEF LinksKept
<1> QED BY <1>1, <1>2

LEMMA LinksSameDir ==
  ASSUME RefInv, RefInv', LinksKept, mount = "up", mount' = "up", dir' = dir, below' = below,
         NEW S, Copied(S)
  PROVE  LinksKept'
<1>1. NamesOf(Subdirs, dir) \subseteq NamesOf(Subdirs, dir')
  BY DEF NamesOf
<1> QED BY <1>1, LinksCopied

LEMMA LinksSame ==
  ASSUME RefInv, RefInv', LinksKept, UNCHANGED <<mount, dir, below, icount, nlink>>
  PROVE  LinksKept'
<1>1. NamesOf(Subdirs, dir) \subseteq NamesOf(Subdirs, dir')
  BY DEF NamesOf
<1> QED BY <1>1, LinksUncopied

LEMMA LinksMount ==
  ASSUME RefInv, RefInv', LinksKept, Mount PROVE LinksKept'
<1>1. mount = "down" /\ mount' = "up" /\ Copied({}) /\ icount[Root] = 0
  BY DEF Mount, CopiedToNew, RefInv, HeldByMount
<1>2. \A i \in Inos : icount[i] = 0
  <2>1. Live = {} /\ Cardinality({}) = 0
    BY <1>1, FS_EmptySet DEF RefInv, HeldByMount
  <2>2. \A i : Users(i) = {}
    BY <2>1 DEF Users
  <2> QED BY <1>1, <2>1, <2>2 DEF RefInv, InodesAccounted
<1>3. \A n \in Names : dir'[n] # Nil => icount[dir'[n]] <= 0
  BY <1>2 DEF RefInv, TypeOK
<1> QED BY <1>1, <1>3, LinksCopied

LEMMA LinksMake ==
  ASSUME RefInv, RefInv', LinksKept, NEW n \in Names, NEW i \in Inos, Make(n, i)
  PROVE  LinksKept'
<1>1. mount = "up" /\ mount' = "up" /\ dir[n] = Nil /\ lower[i] = 0
  BY DEF Make
<1>2. PICK S : Copied(S)
  BY DEF Make, CopiedToNew
<1>3. CASE UNCHANGED <<dir, below>>
  BY <1>1, <1>2, <1>3, LinksSameDir
<1>4. CASE dir' = [dir EXCEPT ![n] = i] /\ Linked(i)
  <2>1. icount[i] <= 0
    <3>1. icount[i] \in Int /\ ~(icount[i] > 0)
      BY <1>1 DEF RefInv, InodesAccounted, TypeOK, AllInos
    <3> QED BY <3>1
  <2>2. dir'[n] = i /\ \A m \in Names \ {n} : dir'[m] = dir[m]
    BY <1>4 DEF RefInv, TypeOK
  <2>3. NamesOf(Subdirs, dir) \subseteq NamesOf(Subdirs, dir')
    BY <1>1, <2>2, StackAssumption DEF NamesOf
  <2>4. \A m \in Names : dir'[m] # Nil =>
          \/ icount[dir'[m]] <= 0
          \/ \E x \in Names : dir[x] = dir'[m] /\ below'[dir'[m]] = below[dir'[m]]
    <3>1. \A m \in Names : dir'[m] # Nil /\ dir'[m] # i => dir'[m] \in Inos \ {i}
      BY DEF RefInv, TypeOK
    <3>2. \A j \in Inos \ {i} : below'[j] = below[j]
      BY <1>4, BelowLinked DEF RefInv
    <3> QED BY <2>1, <2>2, <3>1, <3>2
  <2> QED BY <1>1, <1>2, <2>3, <2>4, LinksCopied
<1> QED BY <1>3, <1>4 DEF Make

LEMMA LinksLink ==
  ASSUME RefInv, RefInv', NamesAgree, LinksKept, NEW d \in Dents, NEW n \in Names,
         Link(d, n)
  PROVE  LinksKept'
<1>1. /\ mount = "up" /\ mount' = "up" /\ dir[n] = Nil
      /\ dent[d].ino \in Inos \ Subdirs
  BY StateLive, LiveFields DEF Link, Hashed, RefInv
<1>2. PICK S : Copied(S)
  BY DEF Link, CopiedToNew
<1>3. CASE UNCHANGED <<dir, below>>
  BY <1>1, <1>2, <1>3, LinksSameDir
<1>4. CASE /\ Linkable(dent[d].ino) /\ Linked(dent[d].ino)
           /\ dir' = [dir EXCEPT ![n] = dent[d].ino]
  <2>1. dir'[n] = dent[d].ino /\ \A m \in Names \ {n} : dir'[m] = dir[m]
    BY <1>1, <1>4 DEF RefInv, TypeOK
  <2>2. NamesOf(Subdirs, dir) \subseteq NamesOf(Subdirs, dir')
    BY <1>1, <2>1, StackAssumption DEF NamesOf
  <2>3. \A m \in Names : dir'[m] # Nil =>
          \/ nlink[dir'[m]] > 0
          \/ \E x \in Names : dir[x] = dir'[m] /\ below'[dir'[m]] = below[dir'[m]]
    <3>1. nlink[dir'[n]] > 0
      BY <1>4, <2>1 DEF Linkable
    <3>2. \A m \in Names : dir'[m] # Nil /\ dir'[m] # dent[d].ino
                             => dir'[m] \in Inos \ {dent[d].ino}
      BY DEF RefInv, TypeOK
    <3>3. \A j \in Inos \ {dent[d].ino} : below'[j] = below[j]
      BY <1>1, <1>4, BelowLinked DEF RefInv
    <3> QED BY <2>1, <3>1, <3>2, <3>3
  <2> QED BY <1>1, <1>2, <2>2, <2>3, LinksCopied
<1> QED BY <1>3, <1>4 DEF Link

LEMMA LinksRemove ==
  ASSUME RefInv, RefInv', NamesAgree, LinksKept, NEW d \in Dents, Remove(d)
  PROVE  LinksKept'
<1>1. /\ mount = "up" /\ mount' = "up" /\ d \in Live
      /\ dent[d].name \in Names /\ dent[d].ino \in Inos
  BY StateLive, LiveFields DEF Remove, Hashed, RefInv
<1>2. CASE UNCHANGED <<dir, below, dent, icount, lower, paths, nlink>>
  BY <1>1, <1>2, LinksSame
<1>3. CASE /\ dent[d].state = "hashed" /\ CountsAfter(d)
           /\ dir' = [dir EXCEPT ![dent[d].name] = Nil] /\ Unlinked(dent[d].ino)
  <2> DEFINE S == {dent[d].ino} \cup ParentOf(dent[d].ino)
  <2>1. dir[dent[d].name] = dent[d].ino
    BY <1>1, <1>3 DEF NamesAgree, Hashed
  <2>2. /\ dir'[dent[d].name] = Nil
        /\ \A m \in Names \ {dent[d].name} : dir'[m] = dir[m]
    BY <1>1, <1>3 DEF RefInv, TypeOK
  <2>3. Root \in S \/ NamesOf(Subdirs, dir) \subseteq NamesOf(Subdirs, dir')
    BY <2>1, <2>2 DEF NamesOf, ParentOf
  <2>4. Copied(S)
    BY <1>3 DEF CountsAfter
  <2>5. \A m \in Names : dir'[m] # Nil =>
          \E x \in Names : dir[x] = dir'[m] /\ (below'[dir'[m]] > 0 => below[dir'[m]] > 0)
    <3>1. \A m \in Names : dir'[m] # Nil => dir'[m] \in Inos
      BY DEF RefInv, TypeOK
    <3>2. \A j \in Inos : below'[j] > 0 => below[j] > 0
      BY <1>1, <1>3, BelowUnlinked DEF RefInv
    <3> QED BY <2>2, <3>1, <3>2
  <2> HIDE DEF S
  <2> QED BY <1>1, <2>3, <2>4, <2>5, LinksCopied
<1> QED BY <1>2, <1>3 DEF Remove

\* rename: the directory names nothing that it did not name.
LEMMA LinksRename ==
  ASSUME RefInv, RefInv', NamesAgree, LinksKept, NEW d \in Dents, NEW n \in Names,
         mount = "up", mount' = "up", dent[d].state = "hashed",
         dir' = [dir EXCEPT ![n] = dent[d].ino, ![dent[d].name] = Nil], Copied({Root}),
         \A j \in Inos : below'[j] > 0 => below[j] > 0
  PROVE  LinksKept'
<1>1. d \in Live /\ dent[d].name \in Names /\ dir[dent[d].name] = dent[d].ino
  BY StateLive, LiveFields DEF RefInv, NamesAgree, Hashed
<1>2. \A m \in Names : dir'[m] \in {Nil, dent[d].ino, dir[m]}
  BY DEF RefInv, TypeOK
<1>3. \A m \in Names : dir'[m] # Nil =>
        \E x \in Names : dir[x] = dir'[m] /\ (below'[dir'[m]] > 0 => below[dir'[m]] > 0)
  <2>1. \A m \in Names : dir'[m] # Nil => dir'[m] \in Inos
    BY DEF RefInv, TypeOK
  <2> QED BY <1>1, <1>2, <2>1
<1> QED BY <1>3, LinksCopied

LEMMA LinksRestore ==
  ASSUME RefInv, RefInv', LinksKept, NEW f \in Files, Restore(f) PROVE LinksKept'
<1>1. PICK n : n = dent[files[f]].name
  OBVIOUS
<1>2. /\ dir[n] \in Inos \ Subdirs /\ dir' = [dir EXCEPT ![n] = Nil]
      /\ Unlinked(dir[n]) /\ UNCHANGED <<mount, icount, nlink>>
  BY <1>1 DEF Restore
<1>3. \A m \in Names : dir'[m] = IF m = n THEN Nil ELSE dir[m]
  BY <1>2 DEF RefInv, TypeOK
<1>4. NamesOf(Subdirs, dir) \subseteq NamesOf(Subdirs, dir')
  BY <1>2, <1>3 DEF NamesOf
<1>5. \A j \in Inos : below'[j] > 0 => below[j] > 0
  BY <1>2, BelowUnlinked DEF RefInv
<1> QED BY <1>2, <1>3, <1>4, <1>5, LinksUncopied

LEMMA LinksStep ==
  ASSUME RefInv, RefInv', NamesAgree, LinksKept, [Next]_vars PROVE LinksKept'
<1>1. CASE Mount
  BY <1>1, LinksMount
<1>2. CASE MountRefused \/ MountNoRoot \/ MountNoPrivateData \/ Unmount
  <2>1. mount' # "up"
    BY <1>2 DEF MountRefused, MountNoRoot, MountNoPrivateData, Unmount
  <2> QED BY <2>1 DEF LinksKept
<1>3. ASSUME NEW n \in Names, Lookup(n) PROVE LinksKept'
  BY <1>3, LinksSameDir DEF Lookup, CopiedToNew
<1>4. ASSUME NEW n \in Names, NEW i \in Inos,
             Create(n, i) \/ Symlink(n, i) \/ Mknod(n, i) \/ Mkdir(n, i)
      PROVE  LinksKept'
  BY <1>4, LinksMake DEF Create, Symlink, Mknod, Mkdir
<1>5. ASSUME NEW d \in Dents, Unlink(d) \/ Rmdir(d) PROVE LinksKept'
  BY <1>5, LinksRemove DEF Unlink, Rmdir
<1>6. ASSUME NEW d \in Dents, Shrink(d) \/ CopyAttributes(d) PROVE LinksKept'
  BY <1>6, LinksSameDir DEF Shrink, CopyAttributes, CopiedToNew
<1>7. ASSUME NEW d \in Dents, NEW n \in Names, Link(d, n) PROVE LinksKept'
  BY <1>7, LinksLink
<1>8. ASSUME NEW d \in Dents, NEW n \in Names, Rename(d, n) PROVE LinksKept'
  <2>1. below' = below /\ \A j \in Inos : below'[j] > 0 => below[j] > 0
    BY <1>8 DEF Rename
  <2> QED BY <1>8, <2>1, LinksRename DEF Rename
<1>9. ASSUME NEW d \in Dents, NEW e \in Dents, RenameOver(d, e) PROVE LinksKept'
  <2>1. PICK n \in Names : n = dent[e].name
    BY <1>9, StateLive, LiveFields DEF RenameOver, Hashed, RefInv
  <2>2. /\ mount = "up" /\ mount' = "up" /\ dent[d].state = "hashed" /\ Copied({Root})
        /\ dir' = [dir EXCEPT ![n] = dent[d].ino, ![dent[d].name] = Nil]
    BY <1>9, <2>1 DEF RenameOver
  <2>3. \A j \in Inos : below'[j] > 0 => below[j] > 0
    <3>1. dent[e].ino \in Inos /\ Unlinked(dent[e].ino)
      BY <1>9, StateLive, LiveFields DEF RenameOver, Hashed, RefInv
    <3> QED BY <3>1, BelowUnlinked DEF RefInv
  <2> QED BY <2>2, <2>3, LinksRename
<1>10. ASSUME NEW f \in Files, Release(f) PROVE LinksKept'
  BY <1>10, LinksSameDir DEF Release, CopiedToNew
<1>11. ASSUME NEW f \in Files, Write(f) \/ Ioctl(f) PROVE LinksKept'
  BY <1>11, LinksSameDir DEF Write, Ioctl, CopiedToNew
<1>12. ASSUME NEW f \in Files, Restore(f) PROVE LinksKept'
  BY <1>12, LinksRestore
<1>13. ASSUME NEW f \in Files, NEW d \in Dents, Open(f, d) PROVE LinksKept'
  BY <1>13, LinksSameDir, LinksSame DEF Open
<1>14. CASE UNCHANGED vars
  BY <1>14, LinksSame DEF vars, refs
<1> QED BY <1>1, <1>2, <1>3, <1>4, <1>5, <1>6, <1>7, <1>8, <1>9, <1>10, <1>11, <1>12,
           <1>13, <1>14 DEF Next

-----------------------------------------------------------------------------
(* The theorems.                                                             *)

\* Reference counts are never negative, and what the mount keeps has its shape.
THEOREM StackTyped == Spec => []TypeOK
<1>1. RefInv => TypeOK
  BY DEF RefInv
<1> QED BY <1>1, RefInvariance, PTL

\* bkpfs_get_lower_path and path_put balance, in every operation and on every error
\* path, but for the calls of file.c that lose references.
THEOREM PathsHeld == Spec => []PathsAccounted
<1>1. RefInv => PathsAccounted
  BY DEF RefInv
<1> QED BY <1>1, RefInvariance, PTL

\* bkpfs_iget and bkpfs_evict_inode balance: one upper inode, with one reference to
\* the lower, for all dentries of a hard-linked file.
THEOREM InodesHeld == Spec => []InodesAccounted
<1>1. RefInv => InodesAccounted
  BY DEF RefInv
<1> QED BY <1>1, RefInvariance, PTL

\* bkpfs_put_super and the failures of bkpfs_read_super leave nothing held.
THEOREM DownIsClean == Spec => []DownHoldsNothing
<1>1. RefInv => DownHoldsNothing
  <2> SUFFICES ASSUME RefInv, mount = "down"
               PROVE  paths = 0 /\ active = 0 /\ \A i \in AllInos : lower[i] = 0
    BY DEF DownHoldsNothing
  <2>1. Live = {} /\ OpenFiles = {} /\ lost = 0 /\ active = 0 /\ lower[Root] = 0
    BY DEF RefInv, HeldByMount, OpenFiles
  <2>2. Cardinality({}) = 0 /\ \A i : Users(i) = {}
    BY <2>1, FS_EmptySet DEF Users
  <2>3. paths = 0
    <3>1. Cardinality(Live) = 0 /\ Cardinality(OpenFiles) = 0
      BY <2>1, <2>2
    <3> QED BY <2>1, <3>1 DEF RefInv, PathsAccounted
  <2>4. \A i \in Inos : lower[i] = 0
    <3>1. \A i \in Inos : Cardinality(Users(i)) = 0
      BY <2>2
    <3>2. \A i \in Inos : icount[i] = 0
      BY <3>1 DEF RefInv, InodesAccounted
    <3> QED BY <3>2 DEF RefInv, InodesAccounted
  <2> QED BY <2>1, <2>3, <2>4 DEF AllInos
<1> QED BY <1>1, RefInvariance, PTL

\* The dentries that lookup, creation, link, unlink and rename leave hashed are
\* those of the lower directory, and one that restore leaves hashed hides no file:
\* also when such a dentry is linked, or renamed over.
THEOREM NamesHold == Spec => []NamesAgree
<1>1. Init => NamesAgree
  BY DEF Init, NamesAgree, Live
<1>2. RefInv /\ NamesAgree /\ [Next]_vars => NamesAgree'
  BY NamesStep
<1> QED BY <1>1, <1>2, RefInvariance, PTL DEF Spec

\* set_nlink and fsstack_copy_attr_all, placed where inode.c has them, never leave a
\* count of 0 above where the lower inode has a name and a count that is not, nor a
\* directory with too many or too few.  The lower counts need not be right: a rename
\* over a restored file makes them too small.
THEOREM LinksHold == Spec => []LinksKept
<1>1. Init => LinksKept
  BY DEF Init, LinksKept
<1>2. RefInv /\ RefInv' /\ NamesAgree /\ LinksKept /\ [Next]_vars => LinksKept'
  BY LinksStep
<1> QED BY <1>1, <1>2, RefInvariance, NamesHold, PTL DEF Spec

=============================================================================
