-------------------------- MODULE RedirectedProofs --------------------------
(***************************************************************************)
(* Proofs about Redirected, for any files, mappings and tasks.  Whenever   *)
(* requests complete (Spec), no fault meets what another has redirected,   *)
(* and the upper file is held for all that use it.  While none completes   *)
(* before the call that submitted it has returned (LateSpec), both files   *)
(* are held exactly by those that use them.                                *)
(***************************************************************************)
EXTENDS Redirected, FiniteSetTheorems, TLAPS

\* What a task knows of its call: the mapping it is in, the file it is on, and
\* where its iocb points.
CallsFit ==
  \A t \in Tasks :
    /\ at[t] # Nil <=> pc[t] \in {"lowermmap", "install", "fault"}
    /\ at[t] # Nil => vma[at[t]].file = file[t] /\ flight[t] = "no"
    /\ file[t] = Nil <=> pc[t] = "idle" /\ flight[t] = "no"
    /\ flight[t] # "landed"
    /\ pc[t] = "submit" => flight[t] = "no"
    /\ filp[t] = "lower" <=> pc[t] \in {"submit", "restore"}

\* An mmap has its mapping for itself until it has installed it, with vm_ops from
\* below; faults share one that is ready.
MapsFit ==
  \A t \in Tasks :
    /\ pc[t] \in {"lowermmap", "install"} =>
         ~vma[at[t]].ready /\ \A u \in Tasks : at[u] = at[t] => u = t
    /\ pc[t] = "install" => saved[t] \/ ops[file[t]]
    /\ pc[t] = "fault" => vma[at[t]].ready

VmasFit ==
  \A v \in Vmas : /\ vma[v].is = "upper"
                  /\ vma[v].ready => vma[v].file # Nil /\ ops[vma[v].file]

\* TypeOK without the references to the lower files.
Typed ==
  /\ fd \in [Files -> BOOLEAN] /\ uref \in [Files -> Nat]
  /\ ops \in [Files -> BOOLEAN]
  /\ vma \in [Vmas -> Vma]
  /\ pc \in [Tasks -> {"idle", "lowermmap", "install", "fault",
                       "submit", "restore", "putlower", "copyattr"}]
  /\ file \in [Tasks -> Files \cup {Nil}]
  /\ at \in [Tasks -> Vmas \cup {Nil}]
  /\ saved \in [Tasks -> BOOLEAN]
  /\ filp \in [Tasks -> {"upper", "lower"}]
  /\ flight \in [Tasks -> {"no", "flying", "landed"}]
  /\ bug \in BOOLEAN

\* CallsFit for a request that may complete before its call has returned.
CallsKnown ==
  \A t \in Tasks :
    /\ at[t] # Nil <=> pc[t] \in {"lowermmap", "install", "fault"}
    /\ at[t] # Nil => vma[at[t]].file = file[t] /\ flight[t] = "no"
    /\ file[t] = Nil <=> pc[t] = "idle" /\ flight[t] = "no"
    /\ flight[t] = "landed" => pc[t] \in {"restore", "putlower", "copyattr"}
    /\ pc[t] = "submit" => flight[t] = "no"

\* The inductive invariant, for requests that complete at any time.  The lower
\* file is not in it: one that completes early puts it once too often.
AnyOrder == Typed /\ CallsKnown /\ MapsFit /\ VmasFit /\ UpperHeld /\ NoBug

\* The inductive invariant, for requests that complete late.
IInv == TypeOK /\ CallsFit /\ MapsFit /\ VmasFit /\ RefsAccounted /\ NoBug

-----------------------------------------------------------------------------
(* The sets of those that hold a file.                                       *)

LEMMA Finite ==
  ASSUME NEW f
  PROVE  /\ IsFiniteSet(Mappings(f)) /\ IsFiniteSet(Iocbs(f)) /\ IsFiniteSet(Holding(f))
         /\ IsFiniteSet(Pending(f))
         /\ Cardinality(Mappings(f)) \in Nat
         /\ Cardinality(Iocbs(f)) \in Nat
         /\ Cardinality(Holding(f)) \in Nat
         /\ Cardinality(Pending(f)) \in Nat
<1>1. /\ Mappings(f) \subseteq Vmas /\ Iocbs(f) \subseteq Tasks
      /\ Holding(f) \subseteq Tasks /\ Pending(f) \subseteq Tasks
  BY DEF Mappings, Iocbs, Holding, Pending
<1>2. /\ IsFiniteSet(Mappings(f)) /\ IsFiniteSet(Iocbs(f))
      /\ IsFiniteSet(Holding(f)) /\ IsFiniteSet(Pending(f))
  BY <1>1, RedirectedAssumption, FS_Subset
<1> QED BY <1>2, FS_CardinalityType

LEMMA FiniteNext ==
  ASSUME NEW f
  PROVE  Cardinality(Mappings(f)') \in Nat /\ Cardinality(Pending(f)') \in Nat
<1>1. Mappings(f)' \subseteq Vmas /\ Pending(f)' \subseteq Tasks
  BY DEF Mappings, Iocbs, Pending
<1>2. IsFiniteSet(Mappings(f)') /\ IsFiniteSet(Pending(f)')
  BY <1>1, RedirectedAssumption, FS_Subset
<1> QED BY <1>2, FS_CardinalityType

LEMMA OneMore ==
  ASSUME NEW S, IsFiniteSet(S), NEW x, x \notin S
  PROVE  Cardinality(S \cup {x}) = Cardinality(S) + 1
BY FS_AddElement

LEMMA OneLess ==
  ASSUME NEW S, IsFiniteSet(S), NEW x \in S
  PROVE  Cardinality(S \ {x}) = Cardinality(S) - 1 /\ Cardinality(S) >= 1
<1>1. Cardinality(S \ {x}) = Cardinality(S) - 1
  BY FS_RemoveElement
<1>2. S # {} /\ Cardinality(S) \in Nat
  BY FS_CardinalityType
<1> QED BY <1>1, <1>2, FS_EmptySet

LEMMA None ==
  ASSUME NEW S, IsFiniteSet(S), Cardinality(S) = 0 PROVE S = {}
BY FS_EmptySet

\* How the references move when the last step has put the upper file.
LEMMA PutUpperMoves ==
  ASSUME TypeOK, RefsAccounted, NEW f \in Files, uref[f] >= 1, PutUpper(f)
  PROVE  /\ uref' \in [Files -> Nat] /\ lref' \in [Files -> Nat]
         /\ info' \in [Files -> BOOLEAN]
         /\ uref'[f] = uref[f] - 1
         /\ \A g \in Files \ {f} : uref'[g] = uref[g]
         /\ \A g \in Files : /\ info'[g] <=> uref'[g] > 0
                             /\ lref'[g] - One(info'[g]) = lref[g] - One(info[g])
<1>1. info[f] /\ lref[f] >= 1 /\ lref[f] \in Nat /\ uref[f] \in Nat
  BY Finite DEF RefsAccounted, TypeOK, One
<1>2. /\ uref \in [Files -> Nat] /\ lref \in [Files -> Nat]
      /\ info \in [Files -> BOOLEAN]
      /\ \A g \in Files : info[g] <=> uref[g] > 0
  BY DEF TypeOK, RefsAccounted
<1>3. uref' = [uref EXCEPT ![f] = @ - 1] /\ uref[f] - 1 \in Nat
  BY <1>1, <1>2 DEF PutUpper
<1>4. CASE uref[f] = 1
  <2>1. lref' = [lref EXCEPT ![f] = @ - 1] /\ info' = [info EXCEPT ![f] = FALSE]
    BY <1>4 DEF PutUpper, Release, PutLower
  <2>2. /\ uref'[f] = 0 /\ info'[f] = FALSE /\ info[f] = TRUE
        /\ lref'[f] = lref[f] - 1 /\ lref' \in [Files -> Nat]
    BY <1>1, <1>2, <1>3, <1>4, <2>1
  <2>3. \A g \in Files \ {f} : /\ uref'[g] = uref[g] /\ info'[g] = info[g]
                               /\ lref'[g] = lref[g]
    BY <1>2, <1>3, <2>1
  <2>4. lref'[f] - One(info'[f]) = lref[f] - One(info[f])
    BY <1>1, <2>2 DEF One
  <2>5. info' \in [Files -> BOOLEAN] /\ uref' \in [Files -> Nat]
    BY <1>2, <1>3, <2>1
  <2>6. \A g \in Files : lref'[g] - One(info'[g]) = lref[g] - One(info[g])
    BY <2>3, <2>4
  <2>7. \A g \in Files : info'[g] <=> uref'[g] > 0
    BY <1>2, <2>2, <2>3
  <2> QED BY <1>2, <1>3, <2>2, <2>3, <2>5, <2>6, <2>7
<1>5. CASE uref[f] # 1
  <2>1. lref' = lref /\ info' = info
    BY <1>5 DEF PutUpper
  <2> QED BY <1>1, <1>2, <1>3, <1>5, <2>1
<1> QED BY <1>4, <1>5

\* The account when the last step has put the upper file f, of which there is one
\* holder less.
LEMMA PutAccounted ==
  ASSUME TypeOK, RefsAccounted, NEW f \in Files, PutUpper(f), UNCHANGED fd,
         Cardinality(Mappings(f)') + Cardinality(Iocbs(f)')
           = Cardinality(Mappings(f)) + Cardinality(Iocbs(f)) - 1,
         \A g \in Files \ {f} : Mappings(g)' = Mappings(g) /\ Iocbs(g)' = Iocbs(g),
         \A g \in Files : Holding(g)' = Holding(g),
         Cardinality(Mappings(f)) + Cardinality(Iocbs(f)) >= 1
  PROVE  /\ RefsAccounted'
         /\ uref' \in [Files -> Nat] /\ lref' \in [Files -> Nat]
         /\ info' \in [Files -> BOOLEAN]
<1>1. /\ uref[f] = One(fd[f]) + Cardinality(Mappings(f)) + Cardinality(Iocbs(f))
      /\ One(fd[f]) \in Nat /\ uref[f] >= 1
  BY Finite DEF RefsAccounted, One
<1>2. /\ uref' \in [Files -> Nat] /\ lref' \in [Files -> Nat]
      /\ info' \in [Files -> BOOLEAN]
      /\ uref'[f] = uref[f] - 1
      /\ \A g \in Files \ {f} : uref'[g] = uref[g]
      /\ \A g \in Files : /\ info'[g] <=> uref'[g] > 0
                          /\ lref'[g] - One(info'[g]) = lref[g] - One(info[g])
  BY <1>1, PutUpperMoves
<1>3. uref'[f] = One(fd'[f]) + Cardinality(Mappings(f)') + Cardinality(Iocbs(f)')
  <2>1. /\ Cardinality(Mappings(f)) \in Nat /\ Cardinality(Iocbs(f)) \in Nat
        /\ IsFiniteSet(Mappings(f)') /\ IsFiniteSet(Iocbs(f)')
    <3>1. Mappings(f)' \subseteq Vmas /\ Iocbs(f)' \subseteq Tasks
      BY DEF Mappings, Iocbs
    <3> QED BY <3>1, Finite, RedirectedAssumption, FS_Subset
  <2>2. Cardinality(Mappings(f)') \in Nat /\ Cardinality(Iocbs(f)') \in Nat
    BY <2>1, FS_CardinalityType
  <2> QED BY <1>1, <1>2, <2>1, <2>2
<1>4. \A g \in Files \ {f} :
        uref'[g] = One(fd'[g]) + Cardinality(Mappings(g)') + Cardinality(Iocbs(g)')
  BY <1>2 DEF RefsAccounted
<1>5. \A g \in Files : lref'[g] = One(info'[g]) + Cardinality(Holding(g)')
  <2> SUFFICES ASSUME NEW g \in Files
               PROVE  lref'[g] = One(info'[g]) + Cardinality(Holding(g)')
    OBVIOUS
  <2>1. /\ lref[g] = One(info[g]) + Cardinality(Holding(g))
        /\ lref'[g] - One(info'[g]) = lref[g] - One(info[g])
        /\ One(info[g]) \in Nat /\ One(info'[g]) \in Nat
        /\ lref[g] \in Nat /\ lref'[g] \in Nat
        /\ Cardinality(Holding(g)) \in Nat
    BY <1>2, Finite DEF RefsAccounted, One, TypeOK
  <2> QED BY <2>1
<1> QED BY <1>2, <1>3, <1>4, <1>5 DEF RefsAccounted

\* The account when the last step has taken the upper file f for one more mapping.
LEMMA GotUpper ==
  ASSUME TypeOK, RefsAccounted, NEW f \in Files, uref' = [uref EXCEPT ![f] = @ + 1],
         UNCHANGED <<fd, lref, info>>,
         Cardinality(Mappings(f)') = Cardinality(Mappings(f)) + 1,
         One(fd[f]) + Cardinality(Mappings(f)) >= 1,
         \A g \in Files \ {f} : Mappings(g)' = Mappings(g),
         \A g \in Files : Iocbs(g)' = Iocbs(g) /\ Holding(g)' = Holding(g)
  PROVE  RefsAccounted'
<1>1. uref'[f] = uref[f] + 1 /\ \A g \in Files \ {f} : uref'[g] = uref[g]
  BY DEF TypeOK
<1>2. uref[f] > 0 /\ uref[f] \in Nat /\ One(fd[f]) \in Nat
  BY Finite DEF RefsAccounted, One, TypeOK
<1>3. /\ uref'[f] = One(fd'[f]) + Cardinality(Mappings(f)') + Cardinality(Iocbs(f)')
      /\ uref'[f] > 0 /\ info[f]
  BY <1>1, <1>2, Finite DEF RefsAccounted
<1>4. \A g \in Files : lref'[g] = One(info'[g]) + Cardinality(Holding(g)')
  BY DEF RefsAccounted
<1>5. \A g \in Files \ {f} :
        /\ uref'[g] = One(fd'[g]) + Cardinality(Mappings(g)') + Cardinality(Iocbs(g)')
        /\ info'[g] <=> uref'[g] > 0
  BY <1>1 DEF RefsAccounted
<1>6. info'[f] <=> uref'[f] > 0
  BY <1>3
<1> QED BY <1>3, <1>4, <1>5, <1>6 DEF RefsAccounted

\* A mapping that is changed.
LEMMA SetVma ==
  ASSUME vma \in [Vmas -> Vma], NEW v \in Vmas, NEW r \in Vma,
         vma' = [vma EXCEPT ![v] = r]
  PROVE  /\ vma' \in [Vmas -> Vma] /\ vma'[v] = r
         /\ \A w \in Vmas \ {v} : vma'[w] = vma[w]
OBVIOUS

-----------------------------------------------------------------------------
(* Requests that complete at any time.                                       *)

\* A state of the late requests is one of any.
LEMMA LateIsAny ==
  ASSUME IInv PROVE AnyOrder
<1>1. Typed /\ CallsKnown
  BY DEF IInv, TypeOK, Typed, CallsFit, CallsKnown
<1>2. \A f \in Files : Pending(f) = Iocbs(f)
  BY DEF IInv, CallsFit, Pending, Iocbs
<1>3. UpperHeld
  BY <1>2, Finite DEF IInv, RefsAccounted, UpperHeld, One, TypeOK
<1> QED BY <1>1, <1>3 DEF IInv, AnyOrder

\* The upper files are held as long as their users stay as they are, or go.
LEMMA HeldKept ==
  ASSUME Typed, UpperHeld, UNCHANGED <<fd, uref>>,
         \A f \in Files : /\ Cardinality(Mappings(f)') <= Cardinality(Mappings(f))
                          /\ Cardinality(Pending(f)') <= Cardinality(Pending(f))
  PROVE  UpperHeld'
<1> SUFFICES ASSUME NEW f \in Files
             PROVE  uref'[f] >= One(fd'[f]) + Cardinality(Mappings(f)')
                                  + Cardinality(Pending(f)')
  BY DEF UpperHeld
<1>1. /\ uref[f] \in Nat /\ One(fd[f]) \in Nat
      /\ Cardinality(Mappings(f)) \in Nat /\ Cardinality(Pending(f)) \in Nat
      /\ uref[f] >= One(fd[f]) + Cardinality(Mappings(f)) + Cardinality(Pending(f))
  BY Finite DEF Typed, One, UpperHeld
<1>2. Cardinality(Mappings(f)') \in Nat /\ Cardinality(Pending(f)') \in Nat
  BY FiniteNext
<1> QED BY <1>1, <1>2

\* One user of f goes, and puts it.
LEMMA HeldPut ==
  ASSUME Typed, UpperHeld, NEW f \in Files, PutUpper(f), UNCHANGED fd,
         Cardinality(Mappings(f)) + Cardinality(Pending(f)) >= 1,
         Cardinality(Mappings(f)') + Cardinality(Pending(f)')
           = Cardinality(Mappings(f)) + Cardinality(Pending(f)) - 1,
         \A g \in Files \ {f} : Mappings(g)' = Mappings(g) /\ Pending(g)' = Pending(g)
  PROVE  UpperHeld' /\ uref' \in [Files -> Nat]
<1>1. /\ uref[f] \in Nat /\ One(fd[f]) \in Nat
      /\ Cardinality(Mappings(f)) \in Nat /\ Cardinality(Pending(f)) \in Nat
      /\ uref[f] >= One(fd[f]) + Cardinality(Mappings(f)) + Cardinality(Pending(f))
  BY Finite DEF Typed, One, UpperHeld
<1>2. uref' = [uref EXCEPT ![f] = @ - 1]
  BY DEF PutUpper
<1>3. /\ uref' \in [Files -> Nat] /\ uref'[f] = uref[f] - 1
      /\ \A g \in Files \ {f} : uref'[g] = uref[g]
  BY <1>1, <1>2 DEF Typed
<1>4. Cardinality(Mappings(f)') \in Nat /\ Cardinality(Pending(f)') \in Nat
  BY FiniteNext
<1>5. uref'[f] >= One(fd'[f]) + Cardinality(Mappings(f)') + Cardinality(Pending(f)')
  BY <1>1, <1>3, <1>4
<1> QED BY <1>3, <1>5 DEF UpperHeld

\* One more takes it.
LEMMA HeldGot ==
  ASSUME Typed, UpperHeld, NEW f \in Files, uref' = [uref EXCEPT ![f] = @ + 1],
         UNCHANGED fd,
         Cardinality(Mappings(f)') + Cardinality(Pending(f)')
           = Cardinality(Mappings(f)) + Cardinality(Pending(f)) + 1,
         \A g \in Files \ {f} : Mappings(g)' = Mappings(g) /\ Pending(g)' = Pending(g)
  PROVE  UpperHeld' /\ uref' \in [Files -> Nat]
<1>1. /\ uref[f] \in Nat /\ One(fd[f]) \in Nat
      /\ Cardinality(Mappings(f)) \in Nat /\ Cardinality(Pending(f)) \in Nat
      /\ uref[f] >= One(fd[f]) + Cardinality(Mappings(f)) + Cardinality(Pending(f))
  BY Finite DEF Typed, One, UpperHeld
<1>2. /\ uref' \in [Files -> Nat] /\ uref'[f] = uref[f] + 1
      /\ \A g \in Files \ {f} : uref'[g] = uref[g]
  BY <1>1 DEF Typed
<1>3. Cardinality(Mappings(f)') \in Nat /\ Cardinality(Pending(f)') \in Nat
  BY FiniteNext
<1>4. uref'[f] >= One(fd'[f]) + Cardinality(Mappings(f)') + Cardinality(Pending(f)')
  BY <1>1, <1>2, <1>3
<1> QED BY <1>2, <1>4 DEF UpperHeld

LEMMA AnyOpen ==
  ASSUME AnyOrder, NEW f \in Files, Open(f) PROVE AnyOrder'
<1> USE DEF AnyOrder
<1>1. /\ uref[f] = 0 /\ fd' = [fd EXCEPT ![f] = TRUE]
      /\ uref' = [uref EXCEPT ![f] = @ + 1] /\ ops' = [ops EXCEPT ![f] = FALSE]
      /\ UNCHANGED <<vma, pc, file, at, saved, filp, flight, bug>>
  BY DEF Open, GetUpper, locals, iocb
<1>2. ~fd[f] /\ Mappings(f) = {} /\ Pending(f) = {}
  <2>1. /\ Cardinality(Mappings(f)) = 0 /\ Cardinality(Pending(f)) = 0
        /\ ~fd[f]
    BY <1>1, Finite DEF UpperHeld, One, Typed
  <2> QED BY <2>1, Finite, None
<1>3. Typed' /\ CallsKnown' /\ NoBug'
  BY <1>1 DEF Typed, CallsKnown, NoBug
<1>4. MapsFit'
  <2>1. \A t \in Tasks : pc[t] = "install" => file[t] # f
    BY <1>2 DEF CallsKnown, Mappings, Typed
  <2> QED BY <1>1, <2>1 DEF MapsFit, Typed
<1>5. VmasFit'
  BY <1>1, <1>2 DEF VmasFit, Mappings, Typed
<1>6. UpperHeld'
  <2>1. \A g \in Files : Mappings(g)' = Mappings(g) /\ Pending(g)' = Pending(g)
    BY <1>1 DEF Mappings, Pending, Iocbs
  <2>2. \A g \in Files \ {f} : fd'[g] = fd[g] /\ uref'[g] = uref[g]
    BY <1>1 DEF Typed
  <2>3. fd'[f] = TRUE /\ uref'[f] = 1
    BY <1>1 DEF Typed
  <2>4. Cardinality(Mappings(f)) = 0 /\ Cardinality(Pending(f)) = 0
    BY <1>2, FS_EmptySet
  <2> QED BY <2>1, <2>2, <2>3, <2>4 DEF UpperHeld, One
<1> QED BY <1>3, <1>4, <1>5, <1>6

LEMMA AnyClose ==
  ASSUME AnyOrder, NEW f \in Files, Close(f) PROVE AnyOrder'
<1> USE DEF AnyOrder
<1>1. /\ fd[f] /\ fd' = [fd EXCEPT ![f] = FALSE] /\ uref' = [uref EXCEPT ![f] = @ - 1]
      /\ UNCHANGED <<ops, vma, pc, file, at, saved, filp, flight, bug>>
  BY DEF Close, PutUpper, locals, iocb
<1>2. /\ uref[f] \in Nat /\ uref[f] >= 1
      /\ Cardinality(Mappings(f)) \in Nat /\ Cardinality(Pending(f)) \in Nat
      /\ uref[f] - 1 >= Cardinality(Mappings(f)) + Cardinality(Pending(f))
  BY <1>1, Finite DEF UpperHeld, One, Typed
<1>3. /\ uref' \in [Files -> Nat] /\ uref'[f] = uref[f] - 1 /\ fd'[f] = FALSE
      /\ \A g \in Files \ {f} : uref'[g] = uref[g] /\ fd'[g] = fd[g]
  BY <1>1, <1>2 DEF Typed
<1>4. Typed' /\ CallsKnown' /\ MapsFit' /\ VmasFit' /\ NoBug'
  BY <1>1, <1>3 DEF Typed, CallsKnown, MapsFit, VmasFit, NoBug
<1>5. UpperHeld'
  <2>1. \A g \in Files : Mappings(g)' = Mappings(g) /\ Pending(g)' = Pending(g)
    BY <1>1 DEF Mappings, Pending, Iocbs
  <2>2. uref'[f] >= One(fd'[f]) + Cardinality(Mappings(f)') + Cardinality(Pending(f)')
    BY <1>2, <1>3, <2>1 DEF One
  <2> QED BY <1>3, <2>1, <2>2 DEF UpperHeld
<1> QED BY <1>4, <1>5

LEMMA AnyMap ==
  ASSUME AnyOrder, NEW t \in Tasks, NEW f \in Files, NEW v \in Vmas, Map(t, f, v)
  PROVE  AnyOrder'
<1> USE DEF AnyOrder
<1>1. /\ vma[v] = Free /\ vma' = [vma EXCEPT ![v].file = f]
      /\ pc' = [pc EXCEPT ![t] = "lowermmap"]
      /\ file' = [file EXCEPT ![t] = f] /\ at' = [at EXCEPT ![t] = v]
      /\ saved' = [saved EXCEPT ![t] = FALSE]
      /\ uref' = [uref EXCEPT ![f] = @ + 1]
      /\ pc[t] = "idle" /\ flight[t] = "no" /\ fd[f]
      /\ \A u \in Tasks : at[u] # v
      /\ UNCHANGED <<fd, ops, filp, flight, bug>>
  BY DEF Map, Call, Ready, Go, Unused, GetUpper, iocb
<1>2. file[t] = Nil /\ at[t] = Nil /\ f # Nil /\ v # Nil
  BY <1>1, RedirectedAssumption DEF CallsKnown
<1>3. /\ vma'[v].file = f /\ vma'[v].is = "upper" /\ ~vma'[v].ready
      /\ \A w \in Vmas \ {v} : vma'[w] = vma[w]
      /\ vma' \in [Vmas -> Vma]
  <2> DEFINE r == [vma[v] EXCEPT !.file = f]
  <2>1. vma[v] \in Vma
    BY DEF Typed
  <2>2. vma[v].is = "upper" /\ ~vma[v].ready
    <3>1. vma[v] = Free
      BY <1>1
    <3> QED BY <3>1 DEF Free
  <2>3. r \in Vma /\ r.file = f /\ r.is = "upper" /\ ~r.ready
    BY <2>1, <2>2 DEF Vma
  <2>4. vma' = [vma EXCEPT ![v] = r]
    BY <1>1
  <2> HIDE DEF r
  <2> QED BY <2>3, <2>4, SetVma DEF Typed
<1>4. /\ pc'[t] = "lowermmap" /\ file'[t] = f /\ at'[t] = v
      /\ \A u \in Tasks \ {t} : /\ pc'[u] = pc[u] /\ file'[u] = file[u]
                               /\ at'[u] = at[u] /\ saved'[u] = saved[u]
  BY <1>1 DEF Typed
<1>5. UpperHeld' /\ uref' \in [Files -> Nat]
  <2>1. /\ Mappings(f)' = Mappings(f) \cup {v} /\ v \notin Mappings(f)
        /\ \A g \in Files \ {f} : Mappings(g)' = Mappings(g)
    <3>1. vma[v].file = Nil
      <4>1. vma[v] = Free
        BY <1>1
      <4> QED BY <4>1 DEF Free
    <3> QED BY <1>3, <3>1, RedirectedAssumption DEF Mappings
  <2>2. \A g \in Files : Pending(g)' = Pending(g)
    BY <1>1, <1>2, <1>4, RedirectedAssumption DEF Iocbs, Pending
  <2>3. Cardinality(Mappings(f)') = Cardinality(Mappings(f)) + 1
    BY <2>1, Finite, OneMore
  <2>4. Cardinality(Mappings(f)') + Cardinality(Pending(f)')
          = Cardinality(Mappings(f)) + Cardinality(Pending(f)) + 1
    BY <2>2, <2>3, Finite
  <2> QED BY <1>1, <2>1, <2>2, <2>4, HeldGot
<1>6. Typed'
  BY <1>1, <1>3, <1>5 DEF Typed
<1>7. CallsKnown'
  BY <1>1, <1>2, <1>3, <1>4 DEF CallsKnown, Typed
<1>8. MapsFit'
  BY <1>1, <1>3, <1>4 DEF MapsFit, CallsKnown, Typed
<1>9. VmasFit' /\ NoBug'
  BY <1>1, <1>3 DEF VmasFit, NoBug
<1> QED BY <1>5, <1>6, <1>7, <1>8, <1>9

LEMMA AnyLowerMmap ==
  ASSUME AnyOrder, NEW t \in Tasks, LowerMmap(t) PROVE AnyOrder'
<1> USE DEF AnyOrder
<1>1. /\ pc[t] = "lowermmap" /\ pc' = [pc EXCEPT ![t] = "install"]
      /\ saved' = [saved EXCEPT ![t] = ~ops[file[t]]]
      /\ UNCHANGED <<fd, uref, ops, vma, file, at, filp, flight, bug>>
  BY DEF LowerMmap, Go, refs, iocb
<1>2. file[t] \in Files
  BY <1>1 DEF CallsKnown, Typed
<1>3. Typed'
  BY <1>1, <1>2 DEF Typed
<1>4. CallsKnown' /\ MapsFit' /\ VmasFit' /\ NoBug'
  BY <1>1, <1>2 DEF CallsKnown, MapsFit, VmasFit, NoBug, Typed
<1>5. UpperHeld'
  <2>1. \A g \in Files : Mappings(g)' = Mappings(g) /\ Pending(g)' = Pending(g)
    BY <1>1 DEF Mappings, Iocbs, Pending
  <2> QED BY <1>1, <2>1 DEF UpperHeld
<1> QED BY <1>3, <1>4, <1>5

LEMMA AnyInstall ==
  ASSUME AnyOrder, NEW t \in Tasks, Install(t) PROVE AnyOrder'
<1> USE DEF AnyOrder
<1> DEFINE f == file[t]
           v == at[t]
<1>1. /\ pc[t] = "install" /\ f \in Files /\ v \in Vmas /\ vma[v].file = f
      /\ flight[t] = "no" /\ ~vma[v].ready /\ (saved[t] \/ ops[f])
      /\ \A u \in Tasks : at[u] = v => u = t
  BY RedirectedAssumption DEF Install, CallsKnown, MapsFit, Typed
<1>2. /\ pc' = [pc EXCEPT ![t] = "idle"] /\ file' = [file EXCEPT ![t] = Nil]
      /\ at' = [at EXCEPT ![t] = Nil]
      /\ vma' = [vma EXCEPT ![v].ready = TRUE]
      /\ UNCHANGED <<fd, uref, saved, filp, flight, bug>>
  BY DEF Install, Done, Go, refs, iocb
<1>3. ops' \in [Files -> BOOLEAN] /\ ops'[f] /\ \A g \in Files : ops[g] => ops'[g]
  BY <1>1 DEF Install, Saves, Typed
<1>4. /\ vma'[v].ready /\ vma'[v].file = f /\ vma'[v].is = vma[v].is
      /\ \A w \in Vmas \ {v} : vma'[w] = vma[w]
      /\ \A w \in Vmas : vma'[w].file = vma[w].file
      /\ vma' \in [Vmas -> Vma]
  <2> DEFINE r == [vma[v] EXCEPT !.ready = TRUE]
  <2>1. vma[v] \in Vma
    BY <1>1 DEF Typed
  <2>2. r \in Vma /\ r.ready /\ r.file = vma[v].file /\ r.is = vma[v].is
    BY <2>1 DEF Vma
  <2>3. vma' = [vma EXCEPT ![v] = r]
    BY <1>2
  <2> HIDE DEF r
  <2>4. /\ vma' \in [Vmas -> Vma] /\ vma'[v] = r
        /\ \A w \in Vmas \ {v} : vma'[w] = vma[w]
    BY <1>1, <2>2, <2>3, SetVma DEF Typed
  <2> QED BY <1>1, <2>2, <2>4
<1>5. /\ pc'[t] = "idle" /\ file'[t] = Nil /\ at'[t] = Nil
      /\ \A u \in Tasks \ {t} : /\ pc'[u] = pc[u] /\ file'[u] = file[u]
                               /\ at'[u] = at[u] /\ at[u] # v
  BY <1>1, <1>2 DEF Typed
<1>6. Typed'
  BY <1>2, <1>3, <1>4 DEF Typed
<1>7. CallsKnown'
  BY <1>1, <1>2, <1>4, <1>5 DEF CallsKnown, Typed
<1>8. MapsFit'
  <2> SUFFICES ASSUME NEW u \in Tasks, u # t
               PROVE  /\ pc[u] \in {"lowermmap", "install"} =>
                           /\ ~vma'[at[u]].ready
                           /\ \A w \in Tasks : at'[w] = at[u] => w = u
                      /\ pc[u] = "install" => saved'[u] \/ ops'[file[u]]
                      /\ pc[u] = "fault" => vma'[at[u]].ready
    BY <1>5 DEF MapsFit
  <2>1. at[u] # Nil => at[u] \in Vmas \ {v}
    BY <1>5 DEF Typed
  <2> QED
    BY <1>2, <1>3, <1>4, <1>5, <2>1 DEF MapsFit, CallsKnown, Typed
<1>9. VmasFit'
  <2>1. /\ vma'[v].is = "upper" /\ vma'[v].file # Nil /\ ops'[vma'[v].file]
    BY <1>1, <1>3, <1>4, RedirectedAssumption DEF VmasFit
  <2>2. ASSUME NEW w \in Vmas, w # v
        PROVE  /\ vma'[w].is = "upper"
               /\ vma'[w].ready => vma'[w].file # Nil /\ ops'[vma'[w].file]
    <3>1. vma'[w] = vma[w] /\ vma[w].file \in Files \cup {Nil}
      BY <1>4, <2>2 DEF Typed, Vma
    <3> QED BY <1>3, <3>1 DEF VmasFit
  <2> QED BY <2>1, <2>2 DEF VmasFit
<1>10. UpperHeld'
  <2>1. \A g \in Files : Mappings(g)' = Mappings(g)
    BY <1>4 DEF Mappings
  <2>2. \A g \in Files : Pending(g)' = Pending(g)
    BY <1>1, <1>2, <1>5, RedirectedAssumption DEF Iocbs, Pending
  <2> QED BY <1>2, <2>1, <2>2 DEF UpperHeld
<1>11. NoBug'
  BY <1>2 DEF NoBug
<1> QED BY <1>6, <1>7, <1>8, <1>9, <1>10, <1>11

\* A mapping that goes: what the others have of it, and of its file.
LEMMA FreesVma ==
  ASSUME Typed, VmasFit, NEW v \in Vmas, NEW f \in Files, vma[v].file = f,
         vma' = [vma EXCEPT ![v] = Free]
  PROVE  /\ vma' \in [Vmas -> Vma] /\ vma'[v] = Free
         /\ \A w \in Vmas \ {v} : vma'[w] = vma[w]
         /\ Cardinality(Mappings(f)') = Cardinality(Mappings(f)) - 1
         /\ Cardinality(Mappings(f)) >= 1
         /\ \A g \in Files \ {f} : Mappings(g)' = Mappings(g)
         /\ UNCHANGED ops => VmasFit'
<1>1. Free \in Vma /\ Free.file = Nil /\ Free.is = "upper" /\ ~Free.ready
  BY DEF Free, Vma
<1>2. /\ vma' \in [Vmas -> Vma] /\ vma'[v] = Free
      /\ \A w \in Vmas \ {v} : vma'[w] = vma[w]
  BY <1>1, SetVma DEF Typed
<1>3. Nil \notin Files
  BY RedirectedAssumption
<1>4. /\ Mappings(f)' = Mappings(f) \ {v} /\ v \in Mappings(f)
      /\ \A g \in Files \ {f} : Mappings(g)' = Mappings(g)
  <2>1. \A w \in Vmas \ {v} : vma'[w].file = vma[w].file
    BY <1>2
  <2>2. vma'[v].file = Nil
    BY <1>1, <1>2
  <2> QED BY <1>3, <2>1, <2>2 DEF Mappings
<1>5. Cardinality(Mappings(f)') = Cardinality(Mappings(f)) - 1
      /\ Cardinality(Mappings(f)) >= 1
  BY <1>4, Finite, OneLess
<1>6. ASSUME UNCHANGED ops PROVE VmasFit'
  BY <1>1, <1>2, <1>6 DEF VmasFit
<1> QED BY <1>2, <1>4, <1>5, <1>6

LEMMA AnyMapFails ==
  ASSUME AnyOrder, NEW t \in Tasks, MapFails(t) PROVE AnyOrder'
<1> USE DEF AnyOrder
<1>1. PICK f \in Files, v \in Vmas :
        /\ pc[t] = "lowermmap" /\ file[t] = f /\ at[t] = v /\ vma[v].file = f
        /\ flight[t] = "no" /\ ~vma[v].ready
        /\ \A u \in Tasks : at[u] = v => u = t
  BY RedirectedAssumption DEF MapFails, CallsKnown, MapsFit, Typed
<1>2. /\ pc' = [pc EXCEPT ![t] = "idle"] /\ file' = [file EXCEPT ![t] = Nil]
      /\ at' = [at EXCEPT ![t] = Nil]
      /\ vma' = [vma EXCEPT ![v] = Free] /\ PutUpper(f)
      /\ UNCHANGED <<fd, ops, saved, filp, flight, bug>>
  BY <1>1 DEF MapFails, Done, Go, iocb
<1>3. /\ pc'[t] = "idle" /\ file'[t] = Nil /\ at'[t] = Nil
      /\ \A u \in Tasks \ {t} : /\ pc'[u] = pc[u] /\ file'[u] = file[u]
                               /\ at'[u] = at[u] /\ at[u] # v
  BY <1>1, <1>2 DEF Typed
<1>4. /\ vma' \in [Vmas -> Vma]
      /\ \A w \in Vmas \ {v} : vma'[w] = vma[w]
      /\ Cardinality(Mappings(f)') = Cardinality(Mappings(f)) - 1
      /\ Cardinality(Mappings(f)) >= 1
      /\ \A g \in Files \ {f} : Mappings(g)' = Mappings(g)
      /\ VmasFit'
  BY <1>1, <1>2, FreesVma
<1>5. UpperHeld' /\ uref' \in [Files -> Nat]
  <2>1. \A g \in Files : Pending(g)' = Pending(g)
    BY <1>1, <1>2, <1>3, RedirectedAssumption DEF Iocbs, Pending
  <2> QED BY <1>2, <1>4, <2>1, Finite, HeldPut
<1>6. Typed'
  BY <1>2, <1>4, <1>5 DEF Typed
<1>7. CallsKnown'
  BY <1>1, <1>2, <1>3, <1>4 DEF CallsKnown, Typed
<1>8. MapsFit'
  <2>1. \A u \in Tasks \ {t} : at[u] # Nil => vma'[at[u]] = vma[at[u]]
    BY <1>3, <1>4 DEF Typed
  <2> QED BY <1>2, <1>3, <2>1 DEF MapsFit, CallsKnown
<1>9. NoBug'
  BY <1>2 DEF NoBug
<1> QED BY <1>4, <1>5, <1>6, <1>7, <1>8, <1>9

LEMMA AnyUnmap ==
  ASSUME AnyOrder, NEW v \in Vmas, Unmap(v) PROVE AnyOrder'
<1> USE DEF AnyOrder
<1>1. PICK f \in Files :
      /\ vma[v].ready /\ vma[v].file = f /\ \A t \in Tasks : at[t] # v
      /\ vma' = [vma EXCEPT ![v] = Free] /\ PutUpper(f)
      /\ UNCHANGED <<fd, ops, pc, file, at, saved, filp, flight, bug>>
  BY DEF Unmap, Unused, VmasFit, Typed, Vma, locals, iocb
<1>2. /\ vma' \in [Vmas -> Vma]
      /\ \A w \in Vmas \ {v} : vma'[w] = vma[w]
      /\ Cardinality(Mappings(f)') = Cardinality(Mappings(f)) - 1
      /\ Cardinality(Mappings(f)) >= 1
      /\ \A g \in Files \ {f} : Mappings(g)' = Mappings(g)
      /\ VmasFit'
  BY <1>1, FreesVma
<1>3. UpperHeld' /\ uref' \in [Files -> Nat]
  <2>1. \A g \in Files : Pending(g)' = Pending(g)
    BY <1>1 DEF Iocbs, Pending
  <2> QED BY <1>1, <1>2, <2>1, Finite, HeldPut
<1>4. Typed'
  BY <1>1, <1>2, <1>3 DEF Typed
<1>5. \A t \in Tasks : at[t] # Nil => vma'[at[t]] = vma[at[t]]
  BY <1>1, <1>2 DEF Typed
<1>6. CallsKnown' /\ MapsFit' /\ NoBug'
  BY <1>1, <1>5 DEF CallsKnown, MapsFit, NoBug
<1> QED BY <1>2, <1>3, <1>4, <1>6

\* A mapping that fork copies as r has the file once more.
LEMMA ForksVma ==
  ASSUME Typed, NEW v \in Vmas, NEW w \in Vmas, NEW f \in Files, NEW r,
         vma[v] = r, r.file = f, vma[w] = Free, vma' = [vma EXCEPT ![w] = r]
  PROVE  /\ vma' \in [Vmas -> Vma] /\ vma'[w] = r
         /\ \A x \in Vmas \ {w} : vma'[x] = vma[x]
         /\ Cardinality(Mappings(f)') = Cardinality(Mappings(f)) + 1
         /\ Cardinality(Mappings(f)) >= 1
         /\ \A g \in Files \ {f} : Mappings(g)' = Mappings(g)
<1>1. r \in Vma
  BY DEF Typed
<1>2. /\ vma' \in [Vmas -> Vma] /\ vma'[w] = r
      /\ \A x \in Vmas \ {w} : vma'[x] = vma[x]
  BY <1>1, SetVma DEF Typed
<1>3. /\ Mappings(f)' = Mappings(f) \cup {w} /\ w \notin Mappings(f)
      /\ \A g \in Files \ {f} : Mappings(g)' = Mappings(g)
  <2>1. vma[w].file = Nil /\ Nil \notin Files
    BY RedirectedAssumption DEF Free
  <2>2. vma'[w].file = f /\ \A x \in Vmas \ {w} : vma'[x].file = vma[x].file
    BY <1>2
  <2> QED BY <2>1, <2>2 DEF Mappings
<1>4. v \in Mappings(f)
  BY DEF Mappings
<1> QED BY <1>2, <1>3, <1>4, Finite, OneMore, OneLess

LEMMA AnyFork ==
  ASSUME AnyOrder, NEW v \in Vmas, NEW w \in Vmas, Fork(v, w) PROVE AnyOrder'
<1> USE DEF AnyOrder
<1>1. PICK f \in Files :
      /\ vma[v].ready /\ vma[v].file = f /\ vma[w] = Free
      /\ \A t \in Tasks : at[t] # w
      /\ vma' = [vma EXCEPT ![w] = vma[v]] /\ uref' = [uref EXCEPT ![f] = @ + 1]
      /\ UNCHANGED <<fd, ops, pc, file, at, saved, filp, flight, bug>>
  BY DEF Fork, Unused, GetUpper, VmasFit, Typed, Vma, locals, iocb
<1>2. /\ vma' \in [Vmas -> Vma] /\ vma'[w] = vma[v]
      /\ \A x \in Vmas \ {w} : vma'[x] = vma[x]
      /\ Cardinality(Mappings(f)') = Cardinality(Mappings(f)) + 1
      /\ \A g \in Files \ {f} : Mappings(g)' = Mappings(g)
  <2>1. Typed
    OBVIOUS
  <2> DEFINE r == vma[v]
  <2>2. vma[v] = r /\ r.file = f /\ vma[w] = Free /\ vma' = [vma EXCEPT ![w] = r]
    BY <1>1
  <2> HIDE DEF AnyOrder, IInv, r
  <2> QED BY <2>1, <2>2, ForksVma
<1>3. UpperHeld' /\ uref' \in [Files -> Nat]
  <2>1. \A g \in Files : Pending(g)' = Pending(g)
    BY <1>1 DEF Iocbs, Pending
  <2>2. Cardinality(Mappings(f)') + Cardinality(Pending(f)')
          = Cardinality(Mappings(f)) + Cardinality(Pending(f)) + 1
    BY <1>2, <2>1, Finite
  <2> QED BY <1>1, <1>2, <2>1, <2>2, HeldGot
<1>4. Typed'
  BY <1>1, <1>2, <1>3 DEF Typed
<1>5. \A t \in Tasks : at[t] # Nil => vma'[at[t]] = vma[at[t]]
  BY <1>1, <1>2 DEF Typed
<1>6. CallsKnown' /\ MapsFit' /\ NoBug'
  BY <1>1, <1>5 DEF CallsKnown, MapsFit, NoBug
<1>7. VmasFit'
  BY <1>1, <1>2 DEF VmasFit
<1> QED BY <1>3, <1>4, <1>6, <1>7

LEMMA AnyStartFault ==
  ASSUME AnyOrder, NEW t \in Tasks, NEW v \in Vmas, StartFault(t, v) PROVE AnyOrder'
<1> USE DEF AnyOrder
<1>1. PICK f \in Files : /\ vma[v].ready /\ vma[v].file = f /\ vma[v].is = "upper"
                         /\ ops[f]
  BY DEF StartFault, VmasFit, Typed, Vma
<1>2. /\ pc[t] = "idle" /\ flight[t] = "no"
      /\ pc' = [pc EXCEPT ![t] = "fault"] /\ file' = [file EXCEPT ![t] = f]
      /\ at' = [at EXCEPT ![t] = v]
      /\ \A u \in Tasks : at[u] = v => pc[u] = "fault"
      /\ UNCHANGED <<fd, uref, ops, vma, saved, filp, flight, bug>>
  BY <1>1 DEF StartFault, Call, Ready, Go, Redirects, refs, iocb
<1>3. file[t] = Nil /\ at[t] = Nil /\ f # Nil /\ v # Nil
  BY <1>2, RedirectedAssumption DEF CallsKnown
<1>4. /\ pc'[t] = "fault" /\ file'[t] = f /\ at'[t] = v
      /\ \A u \in Tasks \ {t} : /\ pc'[u] = pc[u] /\ file'[u] = file[u]
                               /\ at'[u] = at[u]
  BY <1>2 DEF Typed
<1>5. Typed'
  BY <1>2 DEF Typed
<1>6. CallsKnown'
  BY <1>1, <1>2, <1>3, <1>4 DEF CallsKnown
<1>7. MapsFit'
  <2> SUFFICES ASSUME NEW u \in Tasks, u # t
               PROVE  /\ pc[u] \in {"lowermmap", "install"} =>
                           /\ ~vma[at[u]].ready
                           /\ \A w \in Tasks : at'[w] = at[u] => w = u
                      /\ pc[u] = "install" => saved[u] \/ ops[file[u]]
                      /\ pc[u] = "fault" => vma[at[u]].ready
    BY <1>1, <1>2, <1>4 DEF MapsFit
  <2>1. pc[u] \in {"lowermmap", "install"} => at[u] # v
    BY <1>2 DEF CallsKnown
  <2> QED BY <1>4, <2>1 DEF MapsFit
<1>8. VmasFit' /\ NoBug'
  BY <1>2 DEF VmasFit, NoBug
<1>9. UpperHeld'
  <2>1. \A g \in Files : Pending(g)' = Pending(g)
    BY <1>2, <1>3, <1>4, RedirectedAssumption DEF Iocbs, Pending
  <2>2. \A g \in Files : Mappings(g)' = Mappings(g)
    BY <1>2 DEF Mappings
  <2> QED BY <1>2, <2>1, <2>2 DEF UpperHeld
<1> QED BY <1>5, <1>6, <1>7, <1>8, <1>9

LEMMA AnyEndFault ==
  ASSUME AnyOrder, NEW t \in Tasks, EndFault(t) PROVE AnyOrder'
<1> USE DEF AnyOrder
<1>1. /\ pc[t] = "fault" /\ at[t] # Nil /\ flight[t] = "no"
      /\ pc' = [pc EXCEPT ![t] = "idle"] /\ file' = [file EXCEPT ![t] = Nil]
      /\ at' = [at EXCEPT ![t] = Nil]
      /\ UNCHANGED <<fd, uref, ops, vma, saved, filp, flight, bug>>
  BY DEF EndFault, Done, Go, Redirects, refs, iocb, CallsKnown
<1>2. /\ pc'[t] = "idle" /\ file'[t] = Nil /\ at'[t] = Nil
      /\ \A u \in Tasks \ {t} : /\ pc'[u] = pc[u] /\ file'[u] = file[u]
                               /\ at'[u] = at[u]
  BY <1>1 DEF Typed
<1>3. Typed'
  BY <1>1 DEF Typed
<1>4. CallsKnown'
  BY <1>1, <1>2 DEF CallsKnown
<1>5. MapsFit'
  BY <1>1, <1>2 DEF MapsFit, CallsKnown
<1>6. VmasFit' /\ NoBug'
  BY <1>1 DEF VmasFit, NoBug
<1>7. UpperHeld'
  <2>1. \A g \in Files : Pending(g)' = Pending(g)
    BY <1>1, <1>2, RedirectedAssumption DEF Iocbs, Pending
  <2>2. \A g \in Files : Mappings(g)' = Mappings(g)
    BY <1>1 DEF Mappings
  <2> QED BY <1>1, <2>1, <2>2 DEF UpperHeld
<1> QED BY <1>3, <1>4, <1>5, <1>6, <1>7

LEMMA AnyStartIter ==
  ASSUME AnyOrder, NEW t \in Tasks, NEW f \in Files, StartIter(t, f) PROVE AnyOrder'
<1> USE DEF AnyOrder
<1>1. /\ fd[f] /\ pc[t] = "idle" /\ flight[t] = "no"
      /\ pc' = [pc EXCEPT ![t] = "submit"] /\ file' = [file EXCEPT ![t] = f]
      /\ at' = [at EXCEPT ![t] = Nil] /\ filp' = [filp EXCEPT ![t] = "lower"]
      /\ uref' = [uref EXCEPT ![f] = @ + 1]
      /\ UNCHANGED <<fd, ops, vma, saved, flight, bug>>
  BY DEF StartIter, Call, Ready, Go, GetUpper
<1>2. file[t] = Nil /\ at[t] = Nil /\ f # Nil
  BY <1>1, RedirectedAssumption DEF CallsKnown
<1>3. /\ pc'[t] = "submit" /\ file'[t] = f /\ at'[t] = Nil
      /\ \A u \in Tasks \ {t} : /\ pc'[u] = pc[u] /\ file'[u] = file[u]
                               /\ at'[u] = at[u]
  BY <1>1 DEF Typed
<1>4. UpperHeld' /\ uref' \in [Files -> Nat]
  <2>1. /\ Pending(f)' = Pending(f) \cup {t} /\ t \notin Pending(f)
        /\ \A g \in Files \ {f} : Pending(g)' = Pending(g)
    BY <1>1, <1>2, <1>3, RedirectedAssumption DEF Iocbs, Pending
  <2>2. \A g \in Files : Mappings(g)' = Mappings(g)
    BY <1>1 DEF Mappings
  <2>3. Cardinality(Pending(f)') = Cardinality(Pending(f)) + 1
    BY <2>1, Finite, OneMore
  <2>4. Cardinality(Mappings(f)') + Cardinality(Pending(f)')
          = Cardinality(Mappings(f)) + Cardinality(Pending(f)) + 1
    BY <2>2, <2>3, Finite
  <2> QED BY <1>1, <2>1, <2>2, <2>4, HeldGot
<1>5. Typed'
  BY <1>1, <1>4 DEF Typed
<1>6. CallsKnown'
  BY <1>1, <1>2, <1>3 DEF CallsKnown
<1>7. MapsFit'
  BY <1>1, <1>3 DEF MapsFit, CallsKnown
<1>8. VmasFit' /\ NoBug'
  BY <1>1 DEF VmasFit, NoBug
<1> QED BY <1>4, <1>5, <1>6, <1>7, <1>8

LEMMA AnySubmit ==
  ASSUME AnyOrder, NEW t \in Tasks, Submit(t) PROVE AnyOrder'
<1> USE DEF AnyOrder
<1>1. PICK queued \in {"no", "flying"} :
      /\ pc[t] = "submit" /\ flight[t] = "no" /\ pc' = [pc EXCEPT ![t] = "restore"]
      /\ flight' = [flight EXCEPT ![t] = queued]
      /\ UNCHANGED <<fd, uref, ops, vma, file, at, saved, filp, bug>>
  BY DEF Submit, Go, refs, CallsKnown
<1>2. /\ pc'[t] = "restore" /\ flight'[t] = queued
      /\ \A u \in Tasks \ {t} : pc'[u] = pc[u] /\ flight'[u] = flight[u]
  BY <1>1 DEF Typed
<1>3. Typed'
  BY <1>1 DEF Typed
<1>4. CallsKnown'
  BY <1>1, <1>2 DEF CallsKnown
<1>5. MapsFit'
  BY <1>1, <1>2 DEF MapsFit
<1>6. VmasFit' /\ NoBug'
  BY <1>1 DEF VmasFit, NoBug
<1>7. UpperHeld'
  <2>1. \A g \in Files : Pending(g)' = Pending(g)
    BY <1>1, <1>2 DEF Iocbs, Pending
  <2>2. \A g \in Files : Mappings(g)' = Mappings(g)
    BY <1>1 DEF Mappings
  <2> QED BY <1>1, <2>1, <2>2 DEF UpperHeld
<1> QED BY <1>3, <1>4, <1>5, <1>6, <1>7

\* The two steps on the way back from the lower file.
LEMMA AnyReturn ==
  ASSUME AnyOrder, NEW t \in Tasks, RestoreFilp(t) \/ PutLowerFile(t) PROVE AnyOrder'
<1> USE DEF AnyOrder
<1>1. /\ \/ pc[t] = "restore" /\ pc' = [pc EXCEPT ![t] = "putlower"]
         \/ pc[t] = "putlower" /\ pc' = [pc EXCEPT ![t] = "copyattr"]
      /\ filp' \in {filp, [filp EXCEPT ![t] = "upper"]}
      /\ UNCHANGED <<fd, uref, ops, vma, file, at, saved, flight, bug>>
  BY DEF RestoreFilp, PutLowerFile, Go, refs, iocb
<1>2. /\ pc'[t] \in {"putlower", "copyattr"}
      /\ \A u \in Tasks \ {t} : pc'[u] = pc[u]
  BY <1>1 DEF Typed
<1>3. Typed'
  <2>1. filp' \in [Tasks -> {"upper", "lower"}]
    BY <1>1 DEF Typed
  <2> QED BY <1>1, <2>1 DEF Typed
<1>4. CallsKnown'
  BY <1>1, <1>2 DEF CallsKnown
<1>5. MapsFit'
  BY <1>1, <1>2 DEF MapsFit
<1>6. VmasFit' /\ NoBug'
  BY <1>1 DEF VmasFit, NoBug
<1>7. UpperHeld'
  <2>1. \A g \in Files : Pending(g)' = Pending(g) /\ Mappings(g)' = Mappings(g)
    BY <1>1 DEF Iocbs, Pending, Mappings
  <2> QED BY <1>1, <2>1 DEF UpperHeld
<1> QED BY <1>3, <1>4, <1>5, <1>6, <1>7

LEMMA AnyEndIter ==
  ASSUME AnyOrder, NEW t \in Tasks, EndIter(t) PROVE AnyOrder'
<1> USE DEF AnyOrder
<1>1. PICK f \in Files :
      /\ pc[t] = "copyattr" /\ file[t] = f /\ at[t] = Nil
      /\ pc' = [pc EXCEPT ![t] = "idle"]
      /\ UNCHANGED <<fd, ops, vma, at, saved, filp, bug>>
  BY DEF EndIter, Go, CallsKnown, Typed
<1>2. pc'[t] = "idle" /\ \A u \in Tasks \ {t} : pc'[u] = pc[u]
  BY <1>1 DEF Typed
<1>3. \A g \in Files : Mappings(g)' = Mappings(g)
  BY <1>1 DEF Mappings
<1>4. VmasFit' /\ NoBug'
  BY <1>1 DEF VmasFit, NoBug
<1>5. CASE flight[t] = "flying"
  <2>1. UNCHANGED <<file, flight, uref>>
    BY <1>5 DEF EndIter, refs
  <2>2. Typed' /\ CallsKnown' /\ MapsFit'
    BY <1>1, <1>2, <1>5, <2>1 DEF Typed, CallsKnown, MapsFit
  <2>3. \A g \in Files : Pending(g)' = Pending(g)
    BY <1>1, <2>1 DEF Iocbs, Pending
  <2>4. UpperHeld'
    BY <1>1, <1>3, <2>1, <2>3 DEF UpperHeld
  <2> QED BY <1>4, <2>2, <2>4
<1>6. CASE flight[t] # "flying"
  <2>1. /\ file' = [file EXCEPT ![t] = Nil] /\ flight' = [flight EXCEPT ![t] = "no"]
        /\ flight[t] \in {"no", "landed"}
    BY <1>6 DEF EndIter, Typed
  <2>2. /\ file'[t] = Nil /\ flight'[t] = "no"
        /\ \A u \in Tasks \ {t} : file'[u] = file[u] /\ flight'[u] = flight[u]
    BY <2>1 DEF Typed
  <2>3. UpperHeld' /\ uref' \in [Files -> Nat]
    <3>1. \A g \in Files \ {f} : Pending(g)' = Pending(g)
      BY <1>1, <2>2, RedirectedAssumption DEF Iocbs, Pending
    <3>2. CASE flight[t] = "no"
      <4>1. Pending(f)' = Pending(f) \ {t} /\ t \in Pending(f)
        BY <1>1, <2>2, <3>2, RedirectedAssumption DEF Iocbs, Pending
      <4>2. /\ Cardinality(Pending(f)') = Cardinality(Pending(f)) - 1
            /\ Cardinality(Pending(f)) >= 1
        BY <4>1, Finite, OneLess
      <4>3. /\ Cardinality(Mappings(f)) + Cardinality(Pending(f)) >= 1
            /\ Cardinality(Mappings(f)') + Cardinality(Pending(f)')
                 = Cardinality(Mappings(f)) + Cardinality(Pending(f)) - 1
        BY <1>3, <4>2, Finite
      <4>4. PutUpper(f)
        BY <1>1, <3>2 DEF EndIter
      <4> QED BY <1>1, <1>3, <3>1, <4>3, <4>4, HeldPut
    <3>3. CASE flight[t] = "landed"
      <4>1. Pending(f)' = Pending(f)
        BY <1>1, <2>2, <3>3, RedirectedAssumption DEF Iocbs, Pending
      <4>2. UNCHANGED uref
        BY <3>3 DEF EndIter, refs
      <4> QED BY <1>1, <1>3, <3>1, <4>1, <4>2 DEF UpperHeld, Typed
    <3> QED BY <2>1, <3>2, <3>3
  <2>4. Typed'
    BY <1>1, <2>1, <2>3 DEF Typed
  <2>5. CallsKnown' /\ MapsFit'
    BY <1>1, <1>2, <2>2 DEF CallsKnown, MapsFit
  <2> QED BY <1>4, <2>3, <2>4, <2>5
<1> QED BY <1>5, <1>6

LEMMA AnyComplete ==
  ASSUME AnyOrder, NEW t \in Tasks, Complete(t) PROVE AnyOrder'
<1> USE DEF AnyOrder
<1>1. PICK f \in Files :
      /\ flight[t] = "flying" /\ file[t] = f /\ at[t] = Nil
      /\ pc[t] \in {"idle", "restore", "putlower", "copyattr"}
      /\ UNCHANGED <<fd, ops, vma, pc, at, saved, filp, bug>>
  BY DEF Complete, CallsKnown, Typed
<1>2. /\ IF pc[t] = "idle" THEN file'[t] = Nil /\ flight'[t] = "no"
                           ELSE file'[t] = f /\ flight'[t] = "landed"
      /\ \A u \in Tasks \ {t} : file'[u] = file[u] /\ flight'[u] = flight[u]
      /\ file' \in [Tasks -> Files \cup {Nil}]
      /\ flight' \in [Tasks -> {"no", "flying", "landed"}]
  BY <1>1 DEF Complete, Typed
<1>3. \A g \in Files : Mappings(g)' = Mappings(g)
  BY <1>1 DEF Mappings
<1>4. /\ Pending(f)' = Pending(f) \ {t} /\ t \in Pending(f)
      /\ \A g \in Files \ {f} : Pending(g)' = Pending(g)
  BY <1>1, <1>2, RedirectedAssumption DEF Iocbs, Pending
<1>5. /\ Cardinality(Pending(f)') = Cardinality(Pending(f)) - 1
      /\ Cardinality(Pending(f)) >= 1
  BY <1>4, Finite, OneLess
<1>6. UpperHeld' /\ uref' \in [Files -> Nat]
  <2>1. CASE filp[t] = "upper"
    <3>1. PutUpper(f)
      BY <1>1, <2>1 DEF Complete
    <3>2. /\ Cardinality(Mappings(f)) + Cardinality(Pending(f)) >= 1
          /\ Cardinality(Mappings(f)') + Cardinality(Pending(f)')
               = Cardinality(Mappings(f)) + Cardinality(Pending(f)) - 1
      BY <1>3, <1>5, Finite
    <3> QED BY <1>1, <1>3, <1>4, <3>1, <3>2, HeldPut
  <2>2. CASE filp[t] # "upper"
    <3>1. UNCHANGED uref
      BY <2>2 DEF Complete
    <3>2. \A g \in Files : /\ Cardinality(Mappings(g)') <= Cardinality(Mappings(g))
                           /\ Cardinality(Pending(g)') <= Cardinality(Pending(g))
      BY <1>3, <1>4, <1>5, Finite
    <3> QED BY <1>1, <3>1, <3>2, HeldKept DEF Typed
  <2> QED BY <2>1, <2>2
<1>7. Typed'
  BY <1>1, <1>2, <1>6 DEF Typed
<1>8. CallsKnown' /\ MapsFit'
  BY <1>1, <1>2, RedirectedAssumption DEF CallsKnown, MapsFit
<1>9. VmasFit' /\ NoBug'
  BY <1>1 DEF VmasFit, NoBug
<1> QED BY <1>6, <1>7, <1>8, <1>9

-----------------------------------------------------------------------------
(* Requests that complete late.                                              *)

LEMMA InvOpen ==
  ASSUME IInv, NEW f \in Files, Open(f) PROVE IInv'
<1> USE DEF IInv
<1>1. TypeOK'
  BY DEF Open, GetUpper, GetLower, TypeOK, locals, iocb
<1>2. CallsFit'
  BY DEF Open, CallsFit, locals, iocb
<1>3. ~fd[f] /\ Mappings(f) = {} /\ Iocbs(f) = {} /\ Holding(f) = {} /\ ~info[f]
  <2>1. /\ One(fd[f]) + Cardinality(Mappings(f)) + Cardinality(Iocbs(f)) = 0
        /\ One(info[f]) + Cardinality(Holding(f)) = 0
    BY DEF Open, RefsAccounted
  <2>2. /\ Cardinality(Mappings(f)) = 0 /\ Cardinality(Iocbs(f)) = 0
        /\ Cardinality(Holding(f)) = 0 /\ ~fd[f] /\ ~info[f]
    BY <2>1, Finite DEF One, TypeOK
  <2> QED BY <2>2, Finite, None
<1>4. MapsFit' /\ VmasFit' /\ NoBug'
  BY LateIsAny, AnyOpen DEF AnyOrder
<1>6. RefsAccounted'
  <2>1. \A g \in Files : /\ Mappings(g)' = Mappings(g) /\ Iocbs(g)' = Iocbs(g)
                         /\ Holding(g)' = Holding(g)
    BY DEF Open, Mappings, Iocbs, Holding, locals
  <2>2. \A g \in Files \ {f} : /\ fd'[g] = fd[g] /\ uref'[g] = uref[g]
                               /\ lref'[g] = lref[g] /\ info'[g] = info[g]
    BY DEF Open, GetUpper, GetLower, TypeOK
  <2>3. fd'[f] = TRUE /\ uref'[f] = 1 /\ lref'[f] = 1 /\ info'[f] = TRUE
    BY DEF Open, GetUpper, GetLower, TypeOK
  <2>4. Cardinality(Mappings(f)) = 0 /\ Cardinality(Iocbs(f)) = 0
        /\ Cardinality(Holding(f)) = 0
    BY <1>3, FS_EmptySet
  <2> QED BY <2>1, <2>2, <2>3, <2>4 DEF RefsAccounted, One
<1> QED BY <1>1, <1>2, <1>4, <1>6

LEMMA InvClose ==
  ASSUME IInv, NEW f \in Files, Close(f) PROVE IInv'
<1> USE DEF IInv
<1>1. uref[f] >= 1
  BY Finite DEF Close, RefsAccounted, One
<1>2. PutUpper(f)
  BY DEF Close
<1>3. TypeOK'
  BY <1>1, <1>2, PutUpperMoves DEF Close, TypeOK, locals, iocb
<1>4. CallsFit' /\ MapsFit' /\ VmasFit' /\ NoBug'
  <2>1. CallsFit'
    BY DEF Close, CallsFit, locals, iocb
  <2> QED BY <2>1, LateIsAny, AnyClose DEF AnyOrder
<1>5. RefsAccounted'
  <2>1. \A g \in Files : /\ Mappings(g)' = Mappings(g) /\ Iocbs(g)' = Iocbs(g)
                         /\ Holding(g)' = Holding(g)
    BY DEF Close, Mappings, Iocbs, Holding, locals
  <2>2. /\ fd'[f] = FALSE /\ fd[f] = TRUE
        /\ \A g \in Files \ {f} : fd'[g] = fd[g]
    BY DEF Close, TypeOK
  <2> QED BY <1>1, <1>2, <2>1, <2>2, PutUpperMoves, Finite
          DEF RefsAccounted, One, TypeOK
<1> QED BY <1>3, <1>4, <1>5

LEMMA InvMap ==
  ASSUME IInv, NEW t \in Tasks, NEW f \in Files, NEW v \in Vmas, Map(t, f, v)
  PROVE  IInv'
<1> USE DEF IInv
<1>1. /\ vma[v] = Free /\ vma' = [vma EXCEPT ![v].file = f]
      /\ pc' = [pc EXCEPT ![t] = "lowermmap"]
      /\ file' = [file EXCEPT ![t] = f] /\ at' = [at EXCEPT ![t] = v]
      /\ saved' = [saved EXCEPT ![t] = FALSE]
      /\ uref' = [uref EXCEPT ![f] = @ + 1]
      /\ pc[t] = "idle" /\ flight[t] = "no" /\ fd[f]
      /\ \A u \in Tasks : at[u] # v
      /\ UNCHANGED <<fd, lref, info, ops, filp, flight, bug>>
  BY DEF Map, Call, Ready, Go, Unused, GetUpper, iocb
<1>2. file[t] = Nil /\ at[t] = Nil /\ f # Nil /\ v # Nil
  BY <1>1, RedirectedAssumption DEF CallsFit
<1>3. /\ vma'[v].file = f /\ vma'[v].is = "upper" /\ ~vma'[v].ready
      /\ \A w \in Vmas \ {v} : vma'[w] = vma[w]
      /\ vma' \in [Vmas -> Vma]
  <2> DEFINE r == [vma[v] EXCEPT !.file = f]
  <2>1. vma[v] \in Vma
    BY DEF TypeOK
  <2>2. vma[v].is = "upper" /\ ~vma[v].ready
    <3>1. vma[v] = Free
      BY <1>1
    <3> QED BY <3>1 DEF Free
  <2>3. r \in Vma /\ r.file = f /\ r.is = "upper" /\ ~r.ready
    BY <2>1, <2>2 DEF Vma
  <2>4. vma' = [vma EXCEPT ![v] = r]
    BY <1>1
  <2> HIDE DEF r
  <2> QED BY <2>3, <2>4, SetVma DEF TypeOK
<1>4. /\ pc'[t] = "lowermmap" /\ file'[t] = f /\ at'[t] = v
      /\ \A u \in Tasks \ {t} : /\ pc'[u] = pc[u] /\ file'[u] = file[u]
                               /\ at'[u] = at[u] /\ saved'[u] = saved[u]
  BY <1>1 DEF TypeOK
<1>5. TypeOK'
  BY <1>1, <1>3 DEF TypeOK
<1>6. CallsFit'
  BY <1>1, <1>2, <1>3, <1>4 DEF CallsFit, TypeOK
<1>7. MapsFit' /\ VmasFit' /\ NoBug'
  BY LateIsAny, AnyMap DEF AnyOrder
<1>9. RefsAccounted'
  <2>1. /\ Mappings(f)' = Mappings(f) \cup {v} /\ v \notin Mappings(f)
        /\ \A g \in Files \ {f} : Mappings(g)' = Mappings(g)
    BY <1>1, <1>2, <1>3, RedirectedAssumption DEF Mappings, Free
  <2>2. \A g \in Files : Iocbs(g)' = Iocbs(g) /\ Holding(g)' = Holding(g)
    BY <1>2, <1>4, RedirectedAssumption DEF Iocbs, Holding
  <2>3. Cardinality(Mappings(f)') = Cardinality(Mappings(f)) + 1
    BY <2>1, Finite, OneMore
  <2>4. One(fd[f]) + Cardinality(Mappings(f)) >= 1
    BY <1>1, Finite DEF One
  <2> QED BY <1>1, <2>1, <2>2, <2>3, <2>4, GotUpper
<1> QED BY <1>5, <1>6, <1>7, <1>9

LEMMA InvLowerMmap ==
  ASSUME IInv, NEW t \in Tasks, LowerMmap(t) PROVE IInv'
<1> USE DEF IInv
<1>1. /\ pc[t] = "lowermmap" /\ pc' = [pc EXCEPT ![t] = "install"]
      /\ saved' = [saved EXCEPT ![t] = ~ops[file[t]]]
      /\ UNCHANGED <<fd, uref, lref, info, ops, vma, file, at, filp, flight, bug>>
  BY DEF LowerMmap, Go, refs, iocb
<1>2. file[t] \in Files
  BY <1>1 DEF CallsFit, TypeOK
<1>3. TypeOK'
  BY <1>1, <1>2 DEF TypeOK
<1>4. CallsFit' /\ MapsFit' /\ VmasFit' /\ NoBug'
  <2>1. CallsFit'
    BY <1>1 DEF CallsFit, TypeOK
  <2> QED BY <2>1, LateIsAny, AnyLowerMmap DEF AnyOrder
<1>5. RefsAccounted'
  <2>1. \A g \in Files : /\ Mappings(g)' = Mappings(g) /\ Iocbs(g)' = Iocbs(g)
                         /\ Holding(g)' = Holding(g)
    BY <1>1 DEF Mappings, Iocbs, Holding, TypeOK
  <2> QED BY <1>1, <2>1 DEF RefsAccounted
<1> QED BY <1>3, <1>4, <1>5

LEMMA InvInstall ==
  ASSUME IInv, NEW t \in Tasks, Install(t) PROVE IInv'
<1> USE DEF IInv
<1> DEFINE f == file[t]
           v == at[t]
<1>1. /\ pc[t] = "install" /\ f \in Files /\ v \in Vmas /\ vma[v].file = f
      /\ flight[t] = "no" /\ ~vma[v].ready /\ (saved[t] \/ ops[f])
      /\ \A u \in Tasks : at[u] = v => u = t
  BY RedirectedAssumption DEF Install, CallsFit, MapsFit, TypeOK
<1>2. /\ pc' = [pc EXCEPT ![t] = "idle"] /\ file' = [file EXCEPT ![t] = Nil]
      /\ at' = [at EXCEPT ![t] = Nil]
      /\ vma' = [vma EXCEPT ![v].ready = TRUE]
      /\ UNCHANGED <<fd, uref, lref, info, saved, filp, flight, bug>>
  BY DEF Install, Done, Go, refs, iocb
<1>3. ops' \in [Files -> BOOLEAN]
  BY <1>1 DEF Install, Saves, TypeOK
<1>4. /\ vma'[v].ready /\ vma'[v].file = f /\ vma'[v].is = vma[v].is
      /\ \A w \in Vmas \ {v} : vma'[w] = vma[w]
      /\ \A w \in Vmas : vma'[w].file = vma[w].file
      /\ vma' \in [Vmas -> Vma]
  <2> DEFINE r == [vma[v] EXCEPT !.ready = TRUE]
  <2>1. vma[v] \in Vma
    BY <1>1 DEF TypeOK
  <2>2. r \in Vma /\ r.ready /\ r.file = vma[v].file /\ r.is = vma[v].is
    BY <2>1 DEF Vma
  <2>3. vma' = [vma EXCEPT ![v] = r]
    BY <1>2
  <2> HIDE DEF r
  <2>4. /\ vma' \in [Vmas -> Vma] /\ vma'[v] = r
        /\ \A w \in Vmas \ {v} : vma'[w] = vma[w]
    BY <1>1, <2>2, <2>3, SetVma DEF TypeOK
  <2> QED BY <1>1, <2>2, <2>4
<1>5. /\ pc'[t] = "idle" /\ file'[t] = Nil /\ at'[t] = Nil
      /\ \A u \in Tasks \ {t} : /\ pc'[u] = pc[u] /\ file'[u] = file[u]
                               /\ at'[u] = at[u] /\ at[u] # v
  BY <1>1, <1>2 DEF TypeOK
<1>6. TypeOK'
  BY <1>2, <1>3, <1>4 DEF TypeOK
<1>7. CallsFit'
  BY <1>1, <1>2, <1>4, <1>5 DEF CallsFit, TypeOK
<1>8. MapsFit' /\ VmasFit' /\ NoBug'
  BY LateIsAny, AnyInstall DEF AnyOrder
<1>10. RefsAccounted'
  <2>1. \A g \in Files : Mappings(g)' = Mappings(g)
    BY <1>4 DEF Mappings
  <2>2. \A g \in Files : Iocbs(g)' = Iocbs(g) /\ Holding(g)' = Holding(g)
    BY <1>1, <1>5, RedirectedAssumption DEF Iocbs, Holding
  <2> QED BY <1>2, <2>1, <2>2 DEF RefsAccounted
<1> QED BY <1>6, <1>7, <1>8, <1>10

LEMMA InvMapFails ==
  ASSUME IInv, NEW t \in Tasks, MapFails(t) PROVE IInv'
<1> USE DEF IInv
<1>1. PICK f \in Files, v \in Vmas :
        /\ pc[t] = "lowermmap" /\ file[t] = f /\ at[t] = v /\ vma[v].file = f
        /\ flight[t] = "no" /\ ~vma[v].ready
        /\ \A u \in Tasks : at[u] = v => u = t
  BY RedirectedAssumption DEF MapFails, CallsFit, MapsFit, TypeOK
<1>2. /\ pc' = [pc EXCEPT ![t] = "idle"] /\ file' = [file EXCEPT ![t] = Nil]
      /\ at' = [at EXCEPT ![t] = Nil]
      /\ vma' = [vma EXCEPT ![v] = Free] /\ PutUpper(f)
      /\ UNCHANGED <<fd, ops, saved, filp, flight, bug>>
  BY <1>1 DEF MapFails, Done, Go, iocb
<1>3. /\ pc'[t] = "idle" /\ file'[t] = Nil /\ at'[t] = Nil
      /\ \A u \in Tasks \ {t} : /\ pc'[u] = pc[u] /\ file'[u] = file[u]
                               /\ at'[u] = at[u] /\ at[u] # v
  BY <1>1, <1>2 DEF TypeOK
<1>4. /\ vma' \in [Vmas -> Vma]
      /\ \A w \in Vmas \ {v} : vma'[w] = vma[w]
      /\ Cardinality(Mappings(f)') = Cardinality(Mappings(f)) - 1
      /\ Cardinality(Mappings(f)) >= 1
      /\ \A g \in Files \ {f} : Mappings(g)' = Mappings(g)
  BY <1>1, <1>2, LateIsAny, FreesVma DEF AnyOrder
<1>5. \A g \in Files : Iocbs(g)' = Iocbs(g) /\ Holding(g)' = Holding(g)
  BY <1>1, <1>3, RedirectedAssumption DEF Iocbs, Holding
<1>6. /\ RefsAccounted'
      /\ uref' \in [Files -> Nat] /\ lref' \in [Files -> Nat]
      /\ info' \in [Files -> BOOLEAN]
  BY <1>1, <1>2, <1>4, <1>5, Finite, PutAccounted
<1>7. TypeOK'
  BY <1>2, <1>4, <1>6 DEF TypeOK
<1>8. CallsFit'
  BY <1>1, <1>2, <1>3, <1>4 DEF CallsFit, TypeOK
<1>9. MapsFit' /\ VmasFit' /\ NoBug'
  BY LateIsAny, AnyMapFails DEF AnyOrder
<1> QED BY <1>6, <1>7, <1>8, <1>9

LEMMA InvUnmap ==
  ASSUME IInv, NEW v \in Vmas, Unmap(v) PROVE IInv'
<1> USE DEF IInv
<1>1. PICK f \in Files :
      /\ vma[v].ready /\ vma[v].file = f /\ \A t \in Tasks : at[t] # v
      /\ vma' = [vma EXCEPT ![v] = Free] /\ PutUpper(f)
      /\ UNCHANGED <<fd, ops, pc, file, at, saved, filp, flight, bug>>
  BY DEF Unmap, Unused, VmasFit, TypeOK, Vma, locals, iocb
<1>2. /\ vma' \in [Vmas -> Vma]
      /\ \A w \in Vmas \ {v} : vma'[w] = vma[w]
      /\ Cardinality(Mappings(f)') = Cardinality(Mappings(f)) - 1
      /\ Cardinality(Mappings(f)) >= 1
      /\ \A g \in Files \ {f} : Mappings(g)' = Mappings(g)
  BY <1>1, LateIsAny, FreesVma DEF AnyOrder
<1>3. \A g \in Files : Iocbs(g)' = Iocbs(g) /\ Holding(g)' = Holding(g)
  BY <1>1 DEF Iocbs, Holding
<1>4. /\ RefsAccounted'
      /\ uref' \in [Files -> Nat] /\ lref' \in [Files -> Nat]
      /\ info' \in [Files -> BOOLEAN]
  BY <1>1, <1>2, <1>3, Finite, PutAccounted
<1>5. TypeOK'
  BY <1>1, <1>2, <1>4 DEF TypeOK
<1>6. \A t \in Tasks : at[t] # Nil => vma'[at[t]] = vma[at[t]]
  BY <1>1, <1>2 DEF TypeOK
<1>7. CallsFit'
  BY <1>1, <1>6 DEF CallsFit
<1>8. MapsFit' /\ VmasFit' /\ NoBug'
  BY LateIsAny, AnyUnmap DEF AnyOrder
<1> QED BY <1>4, <1>5, <1>7, <1>8

LEMMA InvFork ==
  ASSUME IInv, NEW v \in Vmas, NEW w \in Vmas, Fork(v, w) PROVE IInv'
<1> USE DEF IInv
<1>1. PICK f \in Files :
      /\ vma[v].ready /\ vma[v].file = f /\ vma[w] = Free
      /\ \A t \in Tasks : at[t] # w
      /\ vma' = [vma EXCEPT ![w] = vma[v]] /\ uref' = [uref EXCEPT ![f] = @ + 1]
      /\ UNCHANGED <<fd, lref, info, ops, pc, file, at, saved, filp, flight, bug>>
  BY DEF Fork, Unused, GetUpper, VmasFit, TypeOK, Vma, locals, iocb
<1>2. /\ vma' \in [Vmas -> Vma]
      /\ \A x \in Vmas \ {w} : vma'[x] = vma[x]
      /\ Cardinality(Mappings(f)') = Cardinality(Mappings(f)) + 1
      /\ Cardinality(Mappings(f)) >= 1
      /\ \A g \in Files \ {f} : Mappings(g)' = Mappings(g)
  <2>1. Typed
    BY LateIsAny DEF AnyOrder
  <2> DEFINE r == vma[v]
  <2>2. vma[v] = r /\ r.file = f /\ vma[w] = Free /\ vma' = [vma EXCEPT ![w] = r]
    BY <1>1
  <2> HIDE DEF AnyOrder, IInv, r
  <2> QED BY <2>1, <2>2, ForksVma
<1>3. \A g \in Files : Iocbs(g)' = Iocbs(g) /\ Holding(g)' = Holding(g)
  BY <1>1 DEF Iocbs, Holding
<1>4. TypeOK'
  BY <1>1, <1>2 DEF TypeOK
<1>5. \A t \in Tasks : at[t] # Nil => vma'[at[t]] = vma[at[t]]
  BY <1>1, <1>2 DEF TypeOK
<1>6. CallsFit'
  BY <1>1, <1>5 DEF CallsFit
<1>7. MapsFit' /\ VmasFit' /\ NoBug'
  BY LateIsAny, AnyFork DEF AnyOrder
<1>8. RefsAccounted'
  <2>1. One(fd[f]) + Cardinality(Mappings(f)) >= 1
    BY <1>2, Finite DEF One
  <2> QED BY <1>1, <1>2, <1>3, <2>1, GotUpper
<1> QED BY <1>4, <1>6, <1>7, <1>8

LEMMA InvStartFault ==
  ASSUME IInv, NEW t \in Tasks, NEW v \in Vmas, StartFault(t, v) PROVE IInv'
<1> USE DEF IInv
<1>1. PICK f \in Files : /\ vma[v].ready /\ vma[v].file = f /\ vma[v].is = "upper"
                         /\ ops[f]
  BY DEF StartFault, VmasFit, TypeOK, Vma
<1>2. /\ pc[t] = "idle" /\ flight[t] = "no"
      /\ pc' = [pc EXCEPT ![t] = "fault"] /\ file' = [file EXCEPT ![t] = f]
      /\ at' = [at EXCEPT ![t] = v]
      /\ \A u \in Tasks : at[u] = v => pc[u] = "fault"
      /\ UNCHANGED <<fd, uref, lref, info, ops, vma, saved, filp, flight, bug>>
  BY <1>1 DEF StartFault, Call, Ready, Go, Redirects, refs, iocb
<1>3. file[t] = Nil /\ at[t] = Nil /\ f # Nil /\ v # Nil
  BY <1>2, RedirectedAssumption DEF CallsFit
<1>4. /\ pc'[t] = "fault" /\ file'[t] = f /\ at'[t] = v
      /\ \A u \in Tasks \ {t} : /\ pc'[u] = pc[u] /\ file'[u] = file[u]
                               /\ at'[u] = at[u]
  BY <1>2 DEF TypeOK
<1>5. TypeOK'
  BY <1>2 DEF TypeOK
<1>6. CallsFit'
  BY <1>1, <1>2, <1>3, <1>4 DEF CallsFit
<1>7. MapsFit' /\ VmasFit' /\ NoBug'
  BY LateIsAny, AnyStartFault DEF AnyOrder
<1>9. RefsAccounted'
  <2>1. \A g \in Files : Iocbs(g)' = Iocbs(g) /\ Holding(g)' = Holding(g)
    BY <1>3, <1>4, RedirectedAssumption DEF Iocbs, Holding
  <2>2. \A g \in Files : Mappings(g)' = Mappings(g)
    BY <1>2 DEF Mappings
  <2> QED BY <1>2, <2>1, <2>2 DEF RefsAccounted
<1> QED BY <1>5, <1>6, <1>7, <1>9

LEMMA InvEndFault ==
  ASSUME IInv, NEW t \in Tasks, EndFault(t) PROVE IInv'
<1> USE DEF IInv
<1>1. /\ pc[t] = "fault" /\ at[t] # Nil /\ flight[t] = "no"
      /\ pc' = [pc EXCEPT ![t] = "idle"] /\ file' = [file EXCEPT ![t] = Nil]
      /\ at' = [at EXCEPT ![t] = Nil]
      /\ UNCHANGED <<fd, uref, lref, info, ops, vma, saved, filp, flight, bug>>
  BY DEF EndFault, Done, Go, Redirects, refs, iocb, CallsFit
<1>2. /\ pc'[t] = "idle" /\ file'[t] = Nil /\ at'[t] = Nil
      /\ \A u \in Tasks \ {t} : /\ pc'[u] = pc[u] /\ file'[u] = file[u]
                               /\ at'[u] = at[u]
  BY <1>1 DEF TypeOK
<1>3. TypeOK'
  BY <1>1 DEF TypeOK
<1>4. CallsFit'
  BY <1>1, <1>2 DEF CallsFit
<1>5. MapsFit' /\ VmasFit' /\ NoBug'
  BY LateIsAny, AnyEndFault DEF AnyOrder
<1>7. RefsAccounted'
  <2>1. \A g \in Files : Iocbs(g)' = Iocbs(g) /\ Holding(g)' = Holding(g)
    BY <1>1, <1>2, RedirectedAssumption DEF Iocbs, Holding
  <2>2. \A g \in Files : Mappings(g)' = Mappings(g)
    BY <1>1 DEF Mappings
  <2> QED BY <1>1, <2>1, <2>2 DEF RefsAccounted
<1> QED BY <1>3, <1>4, <1>5, <1>7

LEMMA InvStartIter ==
  ASSUME IInv, NEW t \in Tasks, NEW f \in Files, StartIter(t, f) PROVE IInv'
<1> USE DEF IInv
<1>1. /\ fd[f] /\ pc[t] = "idle" /\ flight[t] = "no"
      /\ pc' = [pc EXCEPT ![t] = "submit"] /\ file' = [file EXCEPT ![t] = f]
      /\ at' = [at EXCEPT ![t] = Nil] /\ filp' = [filp EXCEPT ![t] = "lower"]
      /\ uref' = [uref EXCEPT ![f] = @ + 1] /\ lref' = [lref EXCEPT ![f] = @ + 1]
      /\ UNCHANGED <<fd, info, ops, vma, saved, flight, bug>>
  BY DEF StartIter, Call, Ready, Go, GetUpper, Held, GetLower
<1>2. file[t] = Nil /\ at[t] = Nil /\ f # Nil
  BY <1>1, RedirectedAssumption DEF CallsFit
<1>3. /\ pc'[t] = "submit" /\ file'[t] = f /\ at'[t] = Nil /\ filp'[t] = "lower"
      /\ \A u \in Tasks \ {t} : /\ pc'[u] = pc[u] /\ file'[u] = file[u]
                               /\ at'[u] = at[u] /\ filp'[u] = filp[u]
  BY <1>1 DEF TypeOK
<1>4. TypeOK'
  BY <1>1 DEF TypeOK
<1>5. CallsFit'
  BY <1>1, <1>2, <1>3 DEF CallsFit
<1>6. MapsFit' /\ VmasFit' /\ NoBug'
  BY LateIsAny, AnyStartIter DEF AnyOrder
<1>8. RefsAccounted'
  <2>1. /\ Iocbs(f)' = Iocbs(f) \cup {t} /\ t \notin Iocbs(f)
        /\ Holding(f)' = Holding(f) \cup {t} /\ t \notin Holding(f)
        /\ \A g \in Files \ {f} : Iocbs(g)' = Iocbs(g) /\ Holding(g)' = Holding(g)
    BY <1>2, <1>3, RedirectedAssumption DEF Iocbs, Holding
  <2>2. \A g \in Files : Mappings(g)' = Mappings(g)
    BY <1>1 DEF Mappings
  <2>3. /\ Cardinality(Iocbs(f)') = Cardinality(Iocbs(f)) + 1
        /\ Cardinality(Holding(f)') = Cardinality(Holding(f)) + 1
    BY <2>1, Finite, OneMore
  <2>4. /\ uref'[f] = uref[f] + 1 /\ lref'[f] = lref[f] + 1
        /\ \A g \in Files \ {f} : uref'[g] = uref[g] /\ lref'[g] = lref[g]
    BY <1>1 DEF TypeOK
  <2>5. /\ uref'[f] = One(fd'[f]) + Cardinality(Mappings(f)') + Cardinality(Iocbs(f)')
        /\ lref'[f] = One(info'[f]) + Cardinality(Holding(f)')
    BY <1>1, <2>2, <2>3, <2>4, Finite DEF RefsAccounted, One
  <2>6. info'[f] /\ uref'[f] > 0
    <3>1. uref[f] > 0 /\ uref[f] \in Nat
      BY <1>1, Finite DEF RefsAccounted, One, TypeOK
    <3> QED BY <1>1, <2>4, <3>1 DEF RefsAccounted
  <2>7. \A g \in Files \ {f} :
          /\ uref'[g] = One(fd'[g]) + Cardinality(Mappings(g)') + Cardinality(Iocbs(g)')
          /\ lref'[g] = One(info'[g]) + Cardinality(Holding(g)')
          /\ info'[g] <=> uref'[g] > 0
    BY <1>1, <2>1, <2>2, <2>4 DEF RefsAccounted
  <2> QED BY <2>5, <2>6, <2>7 DEF RefsAccounted
<1> QED BY <1>4, <1>5, <1>6, <1>8

LEMMA InvSubmit ==
  ASSUME IInv, NEW t \in Tasks, Submit(t) PROVE IInv'
<1> USE DEF IInv
<1>1. PICK queued \in {"no", "flying"} :
      /\ pc[t] = "submit" /\ pc' = [pc EXCEPT ![t] = "restore"]
      /\ flight' = [flight EXCEPT ![t] = queued]
      /\ UNCHANGED <<fd, uref, lref, info, ops, vma, file, at, saved, filp, bug>>
  BY DEF Submit, Go, refs
<1>2. /\ pc'[t] = "restore" /\ flight'[t] = queued
      /\ \A u \in Tasks \ {t} : pc'[u] = pc[u] /\ flight'[u] = flight[u]
  BY <1>1 DEF TypeOK
<1>3. TypeOK'
  BY <1>1 DEF TypeOK
<1>4. CallsFit'
  BY <1>1, <1>2 DEF CallsFit
<1>5. MapsFit' /\ VmasFit' /\ NoBug'
  BY LateIsAny, AnySubmit DEF AnyOrder
<1>7. RefsAccounted'
  <2>1. \A g \in Files : Iocbs(g)' = Iocbs(g) /\ Holding(g)' = Holding(g)
    BY <1>1, <1>2 DEF Iocbs, Holding
  <2>2. \A g \in Files : Mappings(g)' = Mappings(g)
    BY <1>1 DEF Mappings
  <2> QED BY <1>1, <2>1, <2>2 DEF RefsAccounted
<1> QED BY <1>3, <1>4, <1>5, <1>7

LEMMA InvRestoreFilp ==
  ASSUME IInv, NEW t \in Tasks, RestoreFilp(t) PROVE IInv'
<1> USE DEF IInv
<1>1. /\ pc[t] = "restore" /\ pc' = [pc EXCEPT ![t] = "putlower"]
      /\ filp' = [filp EXCEPT ![t] = "upper"]
      /\ UNCHANGED <<fd, uref, lref, info, ops, vma, file, at, saved, flight, bug>>
  BY DEF RestoreFilp, Go, refs
<1>2. /\ pc'[t] = "putlower" /\ filp'[t] = "upper"
      /\ \A u \in Tasks \ {t} : pc'[u] = pc[u] /\ filp'[u] = filp[u]
  BY <1>1 DEF TypeOK
<1>3. TypeOK'
  BY <1>1 DEF TypeOK
<1>4. CallsFit'
  BY <1>1, <1>2 DEF CallsFit
<1>5. MapsFit' /\ VmasFit' /\ NoBug'
  BY LateIsAny, AnyReturn DEF AnyOrder
<1>7. RefsAccounted'
  <2>1. \A g \in Files : Iocbs(g)' = Iocbs(g) /\ Holding(g)' = Holding(g)
    BY <1>1, <1>2 DEF Iocbs, Holding
  <2>2. \A g \in Files : Mappings(g)' = Mappings(g)
    BY <1>1 DEF Mappings
  <2> QED BY <1>1, <2>1, <2>2 DEF RefsAccounted
<1> QED BY <1>3, <1>4, <1>5, <1>7

LEMMA InvPutLowerFile ==
  ASSUME IInv, NEW t \in Tasks, PutLowerFile(t) PROVE IInv'
<1> USE DEF IInv
<1>0. pc[t] = "putlower" /\ at[t] = Nil /\ file[t] \in Files
  BY DEF PutLowerFile, CallsFit, TypeOK
<1>1. PICK f \in Files :
      /\ pc[t] = "putlower" /\ file[t] = f /\ at[t] = Nil
      /\ pc' = [pc EXCEPT ![t] = "copyattr"] /\ lref' = [lref EXCEPT ![f] = @ - 1]
      /\ UNCHANGED <<fd, uref, info, ops, vma, file, at, saved, filp, flight, bug>>
  BY <1>0 DEF PutLowerFile, Go, PutLower, iocb
<1>2. /\ pc'[t] = "copyattr"
      /\ \A u \in Tasks \ {t} : pc'[u] = pc[u]
  BY <1>1 DEF TypeOK
<1>3. /\ Holding(f)' = Holding(f) \ {t} /\ t \in Holding(f)
      /\ \A g \in Files \ {f} : Holding(g)' = Holding(g)
  BY <1>1, <1>2 DEF Iocbs, Holding
<1>4. /\ Cardinality(Holding(f)') = Cardinality(Holding(f)) - 1
      /\ Cardinality(Holding(f)) >= 1
  BY <1>3, Finite, OneLess
<1>5. lref[f] >= 1
  BY <1>4, Finite DEF RefsAccounted, One
<1>6. lref' \in [Files -> Nat] /\ lref'[f] = lref[f] - 1
      /\ \A g \in Files \ {f} : lref'[g] = lref[g]
  BY <1>1, <1>5 DEF TypeOK
<1>7. TypeOK'
  BY <1>1, <1>6 DEF TypeOK
<1>8. CallsFit'
  BY <1>1, <1>2 DEF CallsFit
<1>9. MapsFit' /\ VmasFit' /\ NoBug'
  BY LateIsAny, AnyReturn DEF AnyOrder
<1>11. RefsAccounted'
  <2>1. \A g \in Files : Iocbs(g)' = Iocbs(g) /\ Mappings(g)' = Mappings(g)
    BY <1>1 DEF Iocbs, Mappings
  <2>2. lref'[f] = One(info'[f]) + Cardinality(Holding(f)')
    BY <1>1, <1>4, <1>6, Finite DEF RefsAccounted, One
  <2>3. \A g \in Files \ {f} : lref'[g] = One(info'[g]) + Cardinality(Holding(g)')
    BY <1>1, <1>3, <1>6 DEF RefsAccounted
  <2> QED BY <1>1, <2>1, <2>2, <2>3 DEF RefsAccounted
<1> QED BY <1>7, <1>8, <1>9, <1>11

\* A request that is over: its task and its file have one iocb less.
LEMMA IocbGone ==
  ASSUME IInv, NEW t \in Tasks, NEW f \in Files, file[t] = f, at[t] = Nil,
         pc[t] \in {"idle", "copyattr"}, pc'[t] = "idle", UNCHANGED at,
         \A u \in Tasks \ {t} : pc'[u] = pc[u] /\ file'[u] = file[u],
         file'[t] = Nil
  PROVE  /\ Cardinality(Iocbs(f)') = Cardinality(Iocbs(f)) - 1
         /\ Cardinality(Iocbs(f)) >= 1
         /\ \A g \in Files \ {f} : Iocbs(g)' = Iocbs(g)
         /\ \A g \in Files : Holding(g)' = Holding(g)
<1>1. /\ Iocbs(f)' = Iocbs(f) \ {t} /\ t \in Iocbs(f)
      /\ \A g \in Files \ {f} : Iocbs(g)' = Iocbs(g)
  BY RedirectedAssumption DEF Iocbs
<1>2. \A g \in Files : Holding(g)' = Holding(g)
  BY RedirectedAssumption DEF Iocbs, Holding
<1> QED BY <1>1, <1>2, Finite, OneLess

LEMMA InvEndIter ==
  ASSUME IInv, NEW t \in Tasks, EndIter(t) PROVE IInv'
<1> USE DEF IInv
<1>1. PICK f \in Files :
      /\ pc[t] = "copyattr" /\ file[t] = f /\ at[t] = Nil
      /\ flight[t] \in {"no", "flying"} /\ filp[t] = "upper"
      /\ pc' = [pc EXCEPT ![t] = "idle"]
      /\ UNCHANGED <<fd, ops, vma, at, saved, filp, flight, bug>>
  BY DEF EndIter, Go, CallsFit, TypeOK
<1>2. pc'[t] = "idle" /\ \A u \in Tasks \ {t} : pc'[u] = pc[u]
  BY <1>1 DEF TypeOK
<1>3. \A g \in Files : Mappings(g)' = Mappings(g)
  BY <1>1 DEF Mappings
<1>4. MapsFit' /\ VmasFit' /\ NoBug'
  BY LateIsAny, AnyEndIter DEF AnyOrder
<1>5. CASE flight[t] = "flying"
  <2>1. UNCHANGED <<file, uref, lref, info>>
    BY <1>5 DEF EndIter, refs
  <2>2. TypeOK'
    BY <1>1, <2>1 DEF TypeOK
  <2>3. CallsFit'
    BY <1>1, <1>2, <1>5, <2>1 DEF CallsFit
  <2>4. RefsAccounted'
    <3>1. \A g \in Files : Iocbs(g)' = Iocbs(g) /\ Holding(g)' = Holding(g)
      BY <1>1, <1>2, <2>1 DEF Iocbs, Holding
    <3> QED BY <1>1, <1>3, <2>1, <3>1 DEF RefsAccounted
  <2> QED BY <1>4, <2>2, <2>3, <2>4
<1>6. CASE flight[t] = "no"
  <2>1. PutUpper(f) /\ file' = [file EXCEPT ![t] = Nil]
    BY <1>1, <1>6 DEF EndIter
  <2>2. file'[t] = Nil /\ \A u \in Tasks \ {t} : file'[u] = file[u]
    BY <2>1 DEF TypeOK
  <2>3. /\ Cardinality(Iocbs(f)') = Cardinality(Iocbs(f)) - 1
        /\ Cardinality(Iocbs(f)) >= 1
        /\ \A g \in Files \ {f} : Iocbs(g)' = Iocbs(g)
        /\ \A g \in Files : Holding(g)' = Holding(g)
    BY <1>1, <1>2, <2>2, IocbGone
  <2>4. /\ RefsAccounted'
        /\ uref' \in [Files -> Nat] /\ lref' \in [Files -> Nat]
        /\ info' \in [Files -> BOOLEAN]
    BY <1>1, <1>3, <2>1, <2>3, Finite, PutAccounted
  <2>5. TypeOK'
    BY <1>1, <2>1, <2>4 DEF TypeOK
  <2>6. CallsFit'
    BY <1>1, <1>2, <1>6, <2>2 DEF CallsFit
  <2> QED BY <1>4, <2>4, <2>5, <2>6
<1> QED BY <1>1, <1>5, <1>6

LEMMA InvComplete ==
  ASSUME IInv, NEW t \in Tasks, pc[t] = "idle", Complete(t) PROVE IInv'
<1> USE DEF IInv
<1>1. PICK f \in Files :
      /\ file[t] = f /\ at[t] = Nil /\ flight[t] = "flying" /\ PutUpper(f)
      /\ file' = [file EXCEPT ![t] = Nil] /\ flight' = [flight EXCEPT ![t] = "no"]
      /\ UNCHANGED <<fd, ops, vma, pc, at, saved, filp, bug>>
  BY DEF Complete, CallsFit, TypeOK
<1>2. /\ file'[t] = Nil /\ flight'[t] = "no"
      /\ \A u \in Tasks \ {t} : file'[u] = file[u] /\ flight'[u] = flight[u]
  BY <1>1 DEF TypeOK
<1>3. \A g \in Files : Mappings(g)' = Mappings(g)
  BY <1>1 DEF Mappings
<1>4. /\ Cardinality(Iocbs(f)') = Cardinality(Iocbs(f)) - 1
      /\ Cardinality(Iocbs(f)) >= 1
      /\ \A g \in Files \ {f} : Iocbs(g)' = Iocbs(g)
      /\ \A g \in Files : Holding(g)' = Holding(g)
  BY <1>1, <1>2, IocbGone
<1>5. /\ RefsAccounted'
      /\ uref' \in [Files -> Nat] /\ lref' \in [Files -> Nat]
      /\ info' \in [Files -> BOOLEAN]
  BY <1>1, <1>3, <1>4, Finite, PutAccounted
<1>6. TypeOK'
  BY <1>1, <1>5 DEF TypeOK
<1>7. CallsFit'
  BY <1>1, <1>2 DEF CallsFit
<1>8. MapsFit' /\ VmasFit' /\ NoBug'
  BY LateIsAny, AnyComplete DEF AnyOrder
<1> QED BY <1>5, <1>6, <1>7, <1>8

-----------------------------------------------------------------------------
(* The specification.                                                        *)

LEMMA InitInv ==
  ASSUME Init PROVE IInv
<1> USE DEF Init
<1>1. TypeOK
  BY DEF TypeOK, Vma, Free
<1>2. CallsFit /\ MapsFit /\ VmasFit /\ NoBug
  BY DEF CallsFit, MapsFit, VmasFit, NoBug, Free
<1>3. RefsAccounted
  <2>1. \A f \in Files : Mappings(f) = {} /\ Iocbs(f) = {} /\ Holding(f) = {}
    BY RedirectedAssumption DEF Mappings, Iocbs, Holding, Free
  <2>2. Cardinality({}) = 0
    BY FS_EmptySet
  <2>3. \A f \in Files : /\ fd[f] = FALSE /\ info[f] = FALSE
                         /\ uref[f] = 0 /\ lref[f] = 0
    OBVIOUS
  <2> HIDE DEF Init
  <2> QED BY <2>1, <2>2, <2>3 DEF RefsAccounted, One
<1> QED BY <1>1, <1>2, <1>3 DEF IInv

LEMMA StutterInv ==
  ASSUME IInv, UNCHANGED vars PROVE IInv'
<1> USE DEF vars, refs, iocb, locals
<1>1. TypeOK' /\ CallsFit' /\ MapsFit' /\ VmasFit' /\ NoBug'
  BY DEF IInv, TypeOK, CallsFit, MapsFit, VmasFit, NoBug
<1>2. \A f \in Files : /\ Mappings(f)' = Mappings(f) /\ Iocbs(f)' = Iocbs(f)
                       /\ Holding(f)' = Holding(f)
  BY DEF Mappings, Iocbs, Holding
<1>3. RefsAccounted'
  BY <1>2 DEF IInv, RefsAccounted
<1> QED BY <1>1, <1>3 DEF IInv

LEMMA StepInv ==
  ASSUME IInv, [LateNext]_vars PROVE IInv'
<1>1. ASSUME NEW f \in Files, Open(f) PROVE IInv'
  BY <1>1, InvOpen
<1>2. ASSUME NEW f \in Files, Close(f) PROVE IInv'
  BY <1>2, InvClose
<1>3. ASSUME NEW t \in Tasks, NEW f \in Files, StartIter(t, f) PROVE IInv'
  BY <1>3, InvStartIter
<1>4. ASSUME NEW t \in Tasks, NEW f \in Files, NEW v \in Vmas, Map(t, f, v)
      PROVE  IInv'
  BY <1>4, InvMap
<1>5. ASSUME NEW v \in Vmas, Unmap(v) PROVE IInv'
  BY <1>5, InvUnmap
<1>6. ASSUME NEW v \in Vmas, NEW w \in Vmas, Fork(v, w) PROVE IInv'
  BY <1>6, InvFork
<1>7. ASSUME NEW t \in Tasks, NEW v \in Vmas, StartFault(t, v) PROVE IInv'
  BY <1>7, InvStartFault
<1>8. ASSUME NEW t \in Tasks, Mapping(t) PROVE IInv'
  BY <1>8, InvLowerMmap, InvMapFails, InvInstall, InvEndFault DEF Mapping
<1>9. ASSUME NEW t \in Tasks, Iter(t) PROVE IInv'
  BY <1>9, InvSubmit, InvRestoreFilp, InvPutLowerFile, InvEndIter DEF Iter
<1>10. ASSUME NEW t \in Tasks, pc[t] = "idle", Complete(t) PROVE IInv'
  BY <1>10, InvComplete
<1>11. CASE UNCHANGED vars
  BY <1>11, StutterInv
<1> QED
  BY <1>1, <1>2, <1>3, <1>4, <1>5, <1>6, <1>7, <1>8, <1>9, <1>10, <1>11
  DEF LateNext, Others

LEMMA AnyStep ==
  ASSUME AnyOrder, [Next]_vars PROVE AnyOrder'
<1>1. ASSUME NEW f \in Files, Open(f) PROVE AnyOrder'
  BY <1>1, AnyOpen
<1>2. ASSUME NEW f \in Files, Close(f) PROVE AnyOrder'
  BY <1>2, AnyClose
<1>3. ASSUME NEW t \in Tasks, NEW f \in Files, StartIter(t, f) PROVE AnyOrder'
  BY <1>3, AnyStartIter
<1>4. ASSUME NEW t \in Tasks, NEW f \in Files, NEW v \in Vmas, Map(t, f, v)
      PROVE  AnyOrder'
  BY <1>4, AnyMap
<1>5. ASSUME NEW v \in Vmas, Unmap(v) PROVE AnyOrder'
  BY <1>5, AnyUnmap
<1>6. ASSUME NEW v \in Vmas, NEW w \in Vmas, Fork(v, w) PROVE AnyOrder'
  BY <1>6, AnyFork
<1>7. ASSUME NEW t \in Tasks, NEW v \in Vmas, StartFault(t, v) PROVE AnyOrder'
  BY <1>7, AnyStartFault
<1>8. ASSUME NEW t \in Tasks, Mapping(t) PROVE AnyOrder'
  BY <1>8, AnyLowerMmap, AnyMapFails, AnyInstall, AnyEndFault DEF Mapping
<1>9. ASSUME NEW t \in Tasks, Iter(t) PROVE AnyOrder'
  BY <1>9, AnySubmit, AnyReturn, AnyEndIter DEF Iter
<1>10. ASSUME NEW t \in Tasks, Complete(t) PROVE AnyOrder'
  BY <1>10, AnyComplete
<1>11. CASE UNCHANGED vars
  <2>1. UNCHANGED <<fd, uref, ops, vma, pc, file, at, saved, filp, flight, bug>>
    BY <1>11 DEF vars, refs, iocb, locals
  <2>2. Typed' /\ CallsKnown' /\ MapsFit' /\ VmasFit' /\ NoBug'
    BY <2>1 DEF AnyOrder, Typed, CallsKnown, MapsFit, VmasFit, NoBug
  <2>3. \A f \in Files : Mappings(f)' = Mappings(f) /\ Pending(f)' = Pending(f)
    BY <2>1 DEF Mappings, Pending, Iocbs
  <2>4. UpperHeld'
    BY <2>1, <2>3 DEF AnyOrder, UpperHeld
  <2> QED BY <2>2, <2>4 DEF AnyOrder
<1> QED
  BY <1>1, <1>2, <1>3, <1>4, <1>5, <1>6, <1>7, <1>8, <1>9, <1>10, <1>11
  DEF Next, Others

\* The inductive invariant holds of every behaviour, whenever requests complete.
THEOREM AnyInductive == Spec => []AnyOrder
<1>1. Init => AnyOrder
  BY InitInv, LateIsAny
<1>2. AnyOrder /\ [Next]_vars => AnyOrder'
  BY AnyStep
<1> QED BY <1>1, <1>2, PTL DEF Spec

\* Even where a request completes before its call has returned, bkpfs_fault and
\* bkpfs_page_mkwrite find a vma of bkpfs with lower_vm_ops: a file still mapped
\* is not opened anew under its mappings.
THEOREM FaultsAlwaysFindOps == Spec => []NoBug
<1>1. AnyOrder => NoBug
  BY DEF AnyOrder
<1> QED BY <1>1, AnyInductive, PTL

\* The fget and fput of the upper file never leave a descriptor, a mapping or a
\* request that has not completed without its reference, however early the
\* others complete.
THEOREM UpperAlwaysHeld == Spec => []UpperHeld
<1>1. AnyOrder => UpperHeld
  BY DEF AnyOrder
<1> QED BY <1>1, AnyInductive, PTL

\* And this one of those in which they complete late.
THEOREM Inductive == LateSpec => []IInv
<1>1. Init => IInv
  BY InitInv
<1>2. IInv /\ [LateNext]_vars => IInv'
  BY StepInv
<1> QED BY <1>1, <1>2, PTL DEF LateSpec

\* The state of files, mappings and redirected calls keeps its shape.
THEOREM RedirectedTyped == LateSpec => []TypeOK
<1>1. IInv => TypeOK
  BY DEF IInv
<1> QED BY <1>1, Inductive, PTL

\* fget and fput balance: bkpfs_open, mmap, fork, munmap and the iocbs hold the
\* upper file, its private data and the calls in the lower file hold the lower,
\* so that bkpfs_file_release comes with the last of them and never before.
THEOREM ReferencesAccounted == LateSpec => []RefsAccounted
<1>1. IInv => RefsAccounted
  BY DEF IInv
<1> QED BY <1>1, Inductive, PTL

\* The lower file is there while the upper refers to it and while a read or write
\* is at work in it, if no request completes before its ki_filp is restored.
THEOREM LateLowerHeld == LateSpec => []LowerHeld
<1>1. ASSUME IInv PROVE LowerHeld
  <2>1. \A f \in Files : info[f] => lref[f] > 0
    BY <1>1, Finite DEF IInv, RefsAccounted, One
  <2>2. ASSUME NEW t \in Tasks,
               pc[t] \in {"submit", "restore", "putlower", "copyattr"}
        PROVE  lref[file[t]] > 0
    <3>1. file[t] \in Files /\ at[t] = Nil
      BY <1>1, <2>2 DEF IInv, CallsFit, TypeOK
    <3>2. t \in Iocbs(file[t])
      BY <3>1 DEF Iocbs
    <3>3. Cardinality(Iocbs(file[t])) >= 1
      BY <3>2, Finite, OneLess
    <3>4. uref[file[t]] > 0
      BY <1>1, <3>1, <3>3, Finite DEF IInv, RefsAccounted, One
    <3> QED BY <1>1, <2>1, <3>1, <3>4 DEF IInv, RefsAccounted
  <2> QED BY <2>1, <2>2 DEF LowerHeld
<1> QED BY <1>1, Inductive, PTL

=============================================================================
