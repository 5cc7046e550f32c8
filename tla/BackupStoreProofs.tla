------------------------- MODULE BackupStoreProofs -------------------------
(***************************************************************************)
(* Theorems of BackupStore, for every retention N, every width of int,     *)
(* every stack and every set of calls that may fail.                       *)
(***************************************************************************)
EXTENDS BackupStore, TLAPS

USE DEF CInt

LEMMA WrapType ==
  ASSUME NEW x \in CInt, NEW d \in Int, -1 - IntMax <= d, d <= IntMax + 1
  PROVE  Wrap(x + d) \in CInt
BY StoreAssumption DEF Wrap

LEMMA FetchedType ==
  ASSUME NEW a \in CInt \cup {Nil}, NEW v \in Fetched(a)
  PROVE  v \in CInt
BY StoreAssumption DEF Fetched

LEMMA NextVersionType ==
  ASSUME NEW v \in CInt
  PROVE  NextVersion(v) \in CInt
BY StoreAssumption, WrapType DEF NextVersion

LEMMA StoredType ==
  ASSUME NEW S, NEW old \in S, NEW new \in S, NEW x \in Stored(old, new)
  PROVE  x \in S
BY DEF Stored

LEMMA PutProperty ==
  ASSUME NEW f, f \in [DOMAIN f -> Texts], NEW n, NEW c \in Texts
  PROVE  /\ DOMAIN Put(f, n, c) = DOMAIN f \cup {n}
         /\ Put(f, n, c) \in [DOMAIN Put(f, n, c) -> Texts]
         /\ Put(f, n, c)[n] = c
         /\ \A k \in DOMAIN f : k # n => Put(f, n, c)[k] = f[k]
BY DEF Put

LEMMA WithoutProperty ==
  ASSUME NEW f, f \in [DOMAIN f -> Texts], NEW gone
  PROVE  /\ DOMAIN Without(f, gone) = DOMAIN f \ gone
         /\ Without(f, gone) \in [DOMAIN Without(f, gone) -> Texts]
         /\ \A k \in DOMAIN f \ gone : Without(f, gone)[k] = f[k]
BY DEF Without

LEMMA CopiesType ==
  ASSUME NEW c \in Texts, NEW x \in Copies(c)
  PROVE  x \in Texts
BY DEF Copies, Texts

LEMMA AnswerType ==
  ASSUME NEW op \in Ops, NEW err \in Errs, NEW out \in Seq(Int),
         Answer(op, err, out)
  PROVE  reply' \in [op : Ops, err : Errs, out : Seq(Int)]
BY DEF Answer

LEMMA TupleTypes ==
  /\ <<>> \in Seq(Int)
  /\ \A v \in Int : <<v>> \in Seq(Int)
  /\ \A v, w \in Int : <<v, w>> \in Seq(Int)
OBVIOUS

-----------------------------------------------------------------------------
(* Type correctness, one call at a time.                                     *)

LEMMA TypeCacheLookup ==
  ASSUME TypeOK, NEW v \in CInt, CacheLookup(v), UNCHANGED saved
  PROVE  /\ warm' \subseteq DOMAIN saved'
         /\ negative' \subseteq CInt \ DOMAIN saved'
BY DEF TypeOK, CacheLookup

LEMMA TypeWriteNumbered ==
  ASSUME TypeOK, NEW val \in CInt, WriteNumbered(val), UNCHANGED <<file, restored>>
  PROVE  TypeOK'
<1> DEFINE kept == Without(saved, Expired(val))
<1>1. /\ rev' \in CInt \cup {Nil} /\ young' \in CInt \cup {Nil}
      /\ file' \in {"none", "listed", "orphan"} /\ restored' \in Texts \cup {Nil}
  BY StoredType DEF TypeOK, WriteNumbered, Renumber
<1>2. /\ DOMAIN kept = DOMAIN saved \ Expired(val)
      /\ kept \in [DOMAIN kept -> Texts]
  BY WithoutProperty DEF TypeOK
<1> HIDE DEF kept
<1>3. /\ <<val>> \in Seq(Int)
      /\ "write" \in Ops /\ {"ok", "EEXIST", "ENOENT", "ENOMEM", "EIO", "OOPS"} \subseteq Errs
  BY TupleTypes, StoreAssumption DEF Ops, Errs
<1>4. CASE RetentionFails(val)
  <2>1. reply' \in [op : Ops, err : Errs, out : Seq(Int)]
    BY <1>3, <1>4, AnswerType DEF RetentionFails
  <2> QED BY <1>1, <1>4, <2>1 DEF RetentionFails, TypeOK, cache
<1>5. CASE BackupFails(val)
  <2>1. reply' \in [op : Ops, err : Errs, out : Seq(Int)]
    BY <1>3, <1>5, AnswerType DEF BackupFails
  <2>2. saved' = kept
    BY <1>5 DEF BackupFails, kept
  <2>3. warm' \subseteq DOMAIN saved'
    BY <1>2, <1>5, <2>2, StoreAssumption
    DEF BackupFails, TypeOK, Taken, Expired, Outdated
  <2>4. negative' \subseteq CInt \ DOMAIN saved'
    BY <1>2, <1>5, <2>2 DEF BackupFails, TypeOK, Taken
  <2> QED BY <1>1, <1>2, <1>5, <2>1, <2>2, <2>3, <2>4 DEF BackupFails, TypeOK
<1>6. CASE BackupMade(val)
  <2>1. reply' \in [op : Ops, err : Errs, out : Seq(Int)]
    BY <1>3, <1>6, AnswerType DEF BackupMade, LowerWrite
  <2>2. PICK c \in Texts : saved' = Put(kept, val, c)
    BY <1>6, CopiesType DEF BackupMade, TypeOK, Texts, kept
  <2>3. /\ DOMAIN saved' = (DOMAIN saved \ Expired(val)) \cup {val}
        /\ saved' \in [DOMAIN saved' -> Texts]
    BY <1>2, <2>2, PutProperty
  <2>4. warm' \subseteq DOMAIN saved' /\ negative' \subseteq CInt \ DOMAIN saved'
    BY <1>6, <2>3 DEF BackupMade, TypeOK
  <2>5. text' \in Nat /\ tick' \in Nat /\ text' <= tick'
    BY <1>6 DEF BackupMade, LowerWrite, TypeOK
  <2> QED BY <1>1, <2>1, <2>3, <2>4, <2>5 DEF TypeOK
<1> QED BY <1>4, <1>5, <1>6 DEF WriteNumbered

LEMMA TypeWrite ==
  ASSUME TypeOK, Write
  PROVE  TypeOK'
<1>1. PICK v \in Fetched(rev) : WriteNumbered(NextVersion(v))
  BY DEF Write
<1>2. NextVersion(v) \in CInt
  BY FetchedType, NextVersionType DEF TypeOK
<1>3. UNCHANGED <<file, restored>>
  BY <1>1 DEF WriteNumbered, RetentionFails, BackupFails, BackupMade
<1> QED BY <1>1, <1>2, <1>3, TypeWriteNumbered

LEMMA TypeDelete ==
  ASSUME TypeOK, NEW v \in CInt, Delete(v)
  PROVE  TypeOK'
<1>1. /\ DOMAIN Without(saved, {v}) = DOMAIN saved \ {v}
      /\ Without(saved, {v}) \in [DOMAIN Without(saved, {v}) -> Texts]
  BY WithoutProperty DEF TypeOK
<1>2. /\ DOMAIN saved' \subseteq CInt /\ saved' \in [DOMAIN saved' -> Texts]
      /\ warm' \subseteq DOMAIN saved'
      /\ negative' \subseteq CInt \ DOMAIN saved'
  BY <1>1 DEF Delete, Delete_, TypeOK, cache
<1>3. rev' \in CInt \cup {Nil} /\ young' \in CInt \cup {Nil}
  <2>1. CASE UNCHANGED <<rev, young>>
    BY <2>1 DEF TypeOK
  <2>2. ASSUME NEW y \in Fetched(young), rev' \in Stored(rev, Wrap(y - 1)),
               young' \in Stored(young, Wrap(y - 1))
        PROVE  rev' \in CInt \cup {Nil} /\ young' \in CInt \cup {Nil}
    <3>1. young \in CInt \cup {Nil}
      BY DEF TypeOK
    <3>2. y \in CInt
      BY <2>2, <3>1, FetchedType
    <3>3. Wrap(y - 1) \in CInt
      BY <3>2, StoreAssumption DEF Wrap
    <3> QED BY <2>2, <3>3 DEF TypeOK, Stored
  <2> QED BY <2>1, <2>2 DEF Delete, Renumber
<1>4. reply' \in [op : Ops, err : Errs, out : Seq(Int)]
  <2>1. <<v>> \in Seq(Int)
    BY TupleTypes, StoreAssumption
  <2>2. PICK e \in Errs : Answer("delete", e, <<v>>)
    BY DEF Delete, Errs
  <2> QED BY <2>1, <2>2, AnswerType DEF Ops
<1> QED BY <1>2, <1>3, <1>4 DEF Delete, TypeOK

LEMMA TypeDeleteAll ==
  ASSUME TypeOK, DeleteAll
  PROVE  TypeOK'
<1>1. PICK gone : Delete_(gone)
  BY DEF DeleteAll
<1>2. /\ DOMAIN saved' \subseteq CInt /\ saved' \in [DOMAIN saved' -> Texts]
      /\ warm' \subseteq DOMAIN saved'
      /\ negative' \subseteq CInt \ DOMAIN saved'
  <2>1. saved' = Without(saved, gone) /\ warm' = warm \ gone
    BY <1>1 DEF Delete_
  <2>2. /\ DOMAIN saved' = DOMAIN saved \ gone
        /\ saved' \in [DOMAIN saved' -> Texts]
    BY <2>1, WithoutProperty DEF TypeOK
  <2> QED BY <2>1, <2>2 DEF DeleteAll, TypeOK
<1>3. rev' \in CInt \cup {Nil}
  <2>1. -1 \in CInt
    BY StoreAssumption
  <2> QED BY <2>1 DEF DeleteAll, TypeOK, Stored
<1>4. reply' \in [op : Ops, err : Errs, out : Seq(Int)]
  <2>1. PICK e \in Errs : Answer("deleteall", e, <<>>)
    BY DEF DeleteAll, LoopErr, Errs
  <2> QED BY <2>1, TupleTypes, AnswerType DEF Ops
<1> QED BY <1>2, <1>3, <1>4 DEF DeleteAll, TypeOK

LEMMA TypeRestore ==
  ASSUME TypeOK, NEW v \in CInt, Restore(v)
  PROVE  TypeOK'
<1>1. PICK e \in Errs : Answer("restore", e, <<v>>)
  BY DEF Restore, RestoreRefused, RestoreEmpty, RestoreFills, LoopErr, Errs
<1>2. reply' \in [op : Ops, err : Errs, out : Seq(Int)]
  <2>1. <<v>> \in Seq(Int)
    BY TupleTypes, StoreAssumption
  <2> QED BY <1>1, <2>1, AnswerType DEF Ops
<1>3. CASE UNCHANGED <<disk, cache>>
  BY <1>2, <1>3 DEF TypeOK, disk, cache
<1>4. CASE /\ file' = Removed /\ UNCHANGED <<text, tick, rev, young>>
           /\ RestoreRefused(v) \/ RestoreEmpty(v)
  <2>1. /\ warm' \subseteq DOMAIN saved'
        /\ negative' \subseteq CInt \ DOMAIN saved'
    BY <1>4 DEF RestoreRefused, RestoreEmpty, CacheLookup, TypeOK, cache
  <2>2. restored' \in Texts \cup {Nil} /\ UNCHANGED saved
    BY <1>4 DEF RestoreRefused, RestoreEmpty, TypeOK, Texts
  <2> QED BY <1>2, <1>4, <2>1, <2>2 DEF TypeOK, Removed
<1>5. CASE /\ file' = Removed /\ UNCHANGED <<text, tick, rev, young>>
           /\ RestoreFills(v)
  <2>1. restored' \in Texts
    BY <1>5, CopiesType DEF RestoreFills, TypeOK
  <2>2. PICK gone : /\ saved' = Without(saved, gone)
                    /\ warm' = (warm \cup {v}) \ gone
    BY <1>5 DEF RestoreFills
  <2>3. /\ DOMAIN saved' = DOMAIN saved \ gone
        /\ saved' \in [DOMAIN saved' -> Texts]
    BY <2>2, WithoutProperty DEF TypeOK
  <2>4. v \in DOMAIN saved /\ UNCHANGED negative
    BY <1>5 DEF RestoreFills
  <2> QED BY <1>2, <1>5, <2>1, <2>2, <2>3, <2>4 DEF TypeOK, Removed
<1> QED BY <1>3, <1>4, <1>5 DEF Restore

LEMMA TypeLooks ==
  ASSUME TypeOK, NEW v \in CInt, Touch(v) \/ View(v)
  PROVE  TypeOK'
<1>1. reply' \in [op : Ops, err : Errs, out : Seq(Int)]
  <2>1. <<v>> \in Seq(Int) /\ <<>> \in Seq(Int)
    BY TupleTypes, StoreAssumption
  <2>2. CASE \E e \in Errs : Answer("view", e, <<v>>)
    BY <2>1, <2>2, AnswerType DEF Ops
  <2>3. CASE Answer("other", "ok", <<>>)
    BY <2>1, <2>3, AnswerType DEF Ops, Errs
  <2>4. CASE /\ v \in DOMAIN saved
             /\ \E rest \in {0, 1} : Answer("view", "ok", <<v, saved[v], rest>>)
    <3>1. PICK rest \in {0, 1} : Answer("view", "ok", <<v, saved[v], rest>>)
      BY <2>4
    <3>2. <<v, saved[v], rest>> \in Seq(Int)
      <4>1. v \in Int /\ saved[v] \in Int /\ rest \in Int
        BY <2>4, StoreAssumption DEF TypeOK, Texts, Broken, CInt
      <4> QED BY <4>1
    <3> QED BY <3>1, <3>2, AnswerType DEF Ops, Errs
  <2> QED BY <2>2, <2>3, <2>4 DEF Touch, View, Done, Errs
<1>2. CacheLookup(v) \/ UNCHANGED cache
  BY DEF Touch, View
<1>3. UNCHANGED disk
  BY DEF Touch, View
<1> QED BY <1>1, <1>2, <1>3, TypeCacheLookup DEF TypeOK, disk, cache

\* The calls that change neither backups nor attributes by more than resetting.
LEMMA TypeOthers ==
  ASSUME TypeOK, \/ Create \/ Open \/ Unlink \/ Forget \/ Reboot \/ Collect
                 \/ InPlace \/ List
  PROVE  TypeOK'
<1>1. reply' \in [op : Ops, err : Errs, out : Seq(Int)]
  <2>1. CASE List
    <3>1. PICK val \in Fetched(rev), val1 \in StackInts :
            Answer("list", "ok", <<val, Oldest(val, val1)>>)
      BY <2>1 DEF List
    <3>2. val \in Int /\ Oldest(val, val1) \in Int
      <4>1. val \in CInt
        BY FetchedType DEF TypeOK
      <4> QED BY <4>1, StoreAssumption DEF Oldest, Wrap
    <3> QED BY <3>1, <3>2, TupleTypes, AnswerType DEF Ops, Errs
  <2>2. CASE ~List
    <3>1. PICK o \in Ops, e \in Errs : Answer(o, e, <<>>)
      BY <2>2 DEF Create, Open, Unlink, Forget, Reboot, Collect, InPlace, Done,
                  Ops, Errs
    <3> QED BY <3>1, TupleTypes, AnswerType
  <2> QED BY <2>1, <2>2
<1>2. /\ saved' = saved
      /\ warm' \subseteq warm /\ negative' \subseteq negative
  BY DEF Create, Open, Unlink, Forget, Reboot, Collect, InPlace, List, disk, cache
<1>3. /\ file' \in {"none", "listed", "orphan"}
      /\ text' \in Nat /\ tick' \in Nat /\ text' <= tick'
      /\ rev' \in CInt \cup {Nil} /\ young' \in CInt \cup {Nil}
      /\ restored' \in Texts \cup {Nil}
  BY DEF TypeOK, Create, Open, Unlink, Forget, Reboot, Collect, InPlace, List,
         disk, cache
<1> QED BY <1>1, <1>2, <1>3 DEF TypeOK

LEMMA TypeInit == Init => TypeOK
<1> SUFFICES ASSUME Init PROVE TypeOK
  OBVIOUS
<1>1. reply \in [op : Ops, err : Errs, out : Seq(Int)]
  BY TupleTypes DEF Init, Ops, Errs
<1> QED BY <1>1 DEF Init, TypeOK

LEMMA TypeStep == TypeOK /\ [Next]_vars => TypeOK'
<1> SUFFICES ASSUME TypeOK, [Next]_vars PROVE TypeOK'
  OBVIOUS
<1>1. Requests \subseteq CInt
  BY StoreAssumption
<1>2. CASE UNCHANGED vars
  BY <1>2 DEF vars, TypeOK
<1>3. CASE Write
  BY <1>3, TypeWrite
<1>4. CASE DeleteAll
  BY <1>4, TypeDeleteAll
<1>5. ASSUME NEW v \in Requests, Delete(v) PROVE TypeOK'
  BY <1>1, <1>5, TypeDelete
<1>6. ASSUME NEW v \in Requests, Restore(v) PROVE TypeOK'
  BY <1>1, <1>6, TypeRestore
<1>7. ASSUME NEW v \in Requests, Touch(v) \/ View(v) PROVE TypeOK'
  BY <1>1, <1>7, TypeLooks
<1>8. CASE \/ Create \/ Open \/ Unlink \/ Forget \/ Reboot \/ Collect
           \/ InPlace \/ List
  BY <1>8, TypeOthers
<1> QED BY <1>2, <1>3, <1>4, <1>5, <1>6, <1>7, <1>8
        DEF Next, WriteIter, Truncate, MmapStore

\* Type correctness: the numbers stay ints, and the dentry cache agrees with the
\* lower directory, a number never being cached both as there and as missing.
THEOREM TypeCorrect == Spec => []TypeOK
BY TypeInit, TypeStep, PTL DEF Spec

-----------------------------------------------------------------------------
(* What a step does to the backups: it leaves them alone, removes some, or   *)
(* removes some and adds one under a number that is free.                    *)

Trimmed == \E gone : saved' = Without(saved, gone)
Extended == \E gone, c : \E n \in CInt \ DOMAIN saved :
              saved' = Put(Without(saved, gone), n, c)

LEMMA BackupsStep ==
  ASSUME TypeOK, [Next]_vars
  PROVE  UNCHANGED saved \/ Trimmed \/ Extended
<1>1. CASE Write
  <2>1. PICK v \in Fetched(rev) : WriteNumbered(NextVersion(v))
    BY <1>1 DEF Write
  <2>2. NextVersion(v) \in CInt
    BY FetchedType, NextVersionType DEF TypeOK
  <2>3. CASE RetentionFails(NextVersion(v))
    BY <2>3 DEF RetentionFails
  <2>4. CASE BackupFails(NextVersion(v))
    BY <2>4 DEF BackupFails, Trimmed
  <2>5. CASE BackupMade(NextVersion(v))
    BY <2>2, <2>5 DEF BackupMade, Taken, Extended
  <2> QED BY <2>1, <2>3, <2>4, <2>5 DEF WriteNumbered
<1>2. CASE DeleteAll \/ \E v \in Requests : Delete(v)
  BY <1>2 DEF DeleteAll, Delete, Delete_, Trimmed
<1>3. CASE \E v \in Requests : Restore(v)
  BY <1>3 DEF Restore, RestoreRefused, RestoreEmpty, RestoreFills, Trimmed, disk
<1>4. CASE \/ UNCHANGED vars \/ \E v \in Requests : Touch(v) \/ View(v)
           \/ Create \/ Open \/ Unlink \/ Forget \/ Reboot \/ Collect
           \/ InPlace \/ List
  BY <1>4 DEF vars, Touch, View, Create, Open, Unlink, Forget, Reboot, Collect,
              InPlace, List, disk
<1> QED BY <1>1, <1>2, <1>3, <1>4 DEF Next, WriteIter, Truncate, MmapStore

\* What a backup holds never changes while it exists.
THEOREM Immutable == Spec => BackupImmutable
<1>1. ASSUME TypeOK, [Next]_vars
      PROVE  \A n \in DOMAIN saved \cap DOMAIN saved' : saved'[n] = saved[n]
  <2>1. CASE UNCHANGED saved
    BY <2>1
  <2>2. CASE Trimmed
    BY <2>2 DEF Trimmed, Without
  <2>3. CASE Extended
    <3>1. PICK gone, c, m : /\ m \in CInt \ DOMAIN saved
                            /\ saved' = Put(Without(saved, gone), m, c)
      BY <2>3 DEF Extended
    <3> QED BY <3>1 DEF Put, Without
  <2> QED BY <1>1, <2>1, <2>2, <2>3, BackupsStep
<1> QED BY <1>1, TypeCorrect, PTL DEF Spec, BackupImmutable

-----------------------------------------------------------------------------
\* Which call a reply belongs to.
LEMMA ReplyOfStep ==
  ASSUME Next
  PROVE  /\ reply'.op = "write" => Write
         /\ reply'.op = "delete" => \E v \in Requests : Delete(v)
         /\ reply'.op = "restore" => \E v \in Requests : Restore(v)
         /\ Write => reply'.op = "write"
         /\ \A v \in Requests : Delete(v) => reply'.op = "delete"
         /\ \A v \in Requests : Restore(v) => reply'.op = "restore"
         /\ DeleteAll => reply'.op = "deleteall"
<1>1. Write => reply'.op = "write"
  BY DEF Write, WriteNumbered, RetentionFails, BackupFails, BackupMade,
         LowerWrite, Answer
<1>2. \A v \in Requests : Delete(v) => reply'.op = "delete"
  BY DEF Delete, Answer
<1>3. \A v \in Requests : Restore(v) => reply'.op = "restore"
  BY DEF Restore, RestoreRefused, RestoreEmpty, RestoreFills, Answer
<1>4. DeleteAll => reply'.op = "deleteall"
  BY DEF DeleteAll, Answer
<1>5. (\/ Create \/ Open \/ Unlink \/ Forget \/ Reboot \/ Collect
       \/ InPlace \/ List \/ \E v \in Requests : Touch(v) \/ View(v))
      => reply'.op \notin {"write", "delete", "restore"}
  BY DEF Touch, View, Create, Open, Unlink, Forget, Reboot, Collect, InPlace,
         List, Done, Answer
<1> QED BY <1>1, <1>2, <1>3, <1>4, <1>5 DEF Next, WriteIter, Truncate, MmapStore

\* A successful write has backed up what it replaced; another leaves it alone.
THEOREM BacksUp == Spec => WriteBacksUp
<1>1. ASSUME TypeOK, Next, reply'.op = "write"
      PROVE  IF reply'.err = "ok"
             THEN \E n \in DOMAIN saved' \ DOMAIN saved : saved'[n] \in Copies(text)
             ELSE text' = text
  <2>1. PICK v \in Fetched(rev) : WriteNumbered(NextVersion(v))
    BY <1>1, ReplyOfStep DEF Write
  <2>2. CASE RetentionFails(NextVersion(v)) \/ BackupFails(NextVersion(v))
    BY <2>2 DEF RetentionFails, BackupFails, Answer
  <2>3. CASE BackupMade(NextVersion(v))
    <3>1. CASE reply'.err = "ok"
      <4>1. PICK c \in Copies(text) :
              saved' = Put(Without(saved, Expired(NextVersion(v))), NextVersion(v), c)
        BY <2>3, <3>1 DEF BackupMade, Answer
      <4>2. NextVersion(v) \in DOMAIN saved' /\ saved'[NextVersion(v)] = c
        BY <4>1 DEF Put
      <4> QED BY <2>3, <3>1, <4>2 DEF BackupMade, Taken
    <3>2. CASE reply'.err # "ok"
      BY <2>3, <3>2 DEF BackupMade, LowerWrite, Answer
    <3> QED BY <3>1, <3>2
  <2> QED BY <2>1, <2>2, <2>3 DEF WriteNumbered
<1>2. ASSUME TypeOK, [Next]_vars
      PROVE  [reply'.op = "write" =>
                IF reply'.err = "ok"
                THEN \E n \in DOMAIN saved' \ DOMAIN saved : saved'[n] \in Copies(text)
                ELSE text' = text]_vars
  BY <1>1, <1>2
<1> QED BY <1>2, TypeCorrect, PTL DEF Spec, WriteBacksUp

\* Nothing but its time, or a call that asks for it, removes a backup.
THEOREM RemovedDue == Spec => RemovedOnlyWhenDue
<1> DEFINE Due(n) == \/ reply'.op = "write" /\ reply'.out = <<n + N>>
                     \/ reply'.op = "delete" /\ reply'.out = <<n>> /\ reply'.err = "ok"
                     \/ reply'.op \in {"deleteall", "restore"}
<1>1. ASSUME TypeOK, Next, NEW n \in DOMAIN saved \ DOMAIN saved'
      PROVE  Due(n)
  <2>1. CASE Write
    <3>1. PICK v \in Fetched(rev) : WriteNumbered(NextVersion(v))
      BY <2>1 DEF Write
    <3>2. n \in Expired(NextVersion(v))
      BY <1>1, <3>1 DEF WriteNumbered, RetentionFails, BackupFails, BackupMade,
                        Put, Without
    <3>3. n + N = NextVersion(v)
      <4>1. NextVersion(v) \in CInt
        BY FetchedType, NextVersionType, <1>1 DEF TypeOK
      <4> QED BY <3>2, <4>1, StoreAssumption DEF Expired, Outdated
    <3>4. reply'.op = "write" /\ reply'.out = <<NextVersion(v)>>
      BY <3>1 DEF WriteNumbered, RetentionFails, BackupFails, BackupMade,
                  LowerWrite, Answer
    <3> QED BY <3>3, <3>4
  <2>2. ASSUME NEW v \in Requests, Delete(v)
        PROVE  Due(n)
    BY <1>1, <2>2 DEF Delete, Delete_, Without, Answer
  <2>3. CASE DeleteAll \/ \E v \in Requests : Restore(v)
    BY <1>1, <2>3, ReplyOfStep
  <2>4. CASE \/ Create \/ Open \/ Unlink \/ Forget \/ Reboot \/ Collect
             \/ InPlace \/ List \/ \E v \in Requests : Touch(v) \/ View(v)
    BY <1>1, <2>4 DEF Touch, View, Create, Open, Unlink, Forget, Reboot, Collect,
                      InPlace, List, disk
  <2> QED BY <1>1, <2>1, <2>2, <2>3, <2>4
          DEF Next, WriteIter, Truncate, MmapStore
<1>2. ASSUME TypeOK, [Next]_vars
      PROVE  [\A n \in DOMAIN saved \ DOMAIN saved' : Due(n)]_vars
  BY <1>1, <1>2
<1> QED BY <1>2, TypeCorrect, PTL DEF Spec, RemovedOnlyWhenDue

\* A restore that succeeds, or purges anything, has filled a new restored file from
\* the version asked for.
LEMMA RestoreStep ==
  ASSUME Next, reply'.op = "restore",
         reply'.err = "ok" \/ DOMAIN saved' # DOMAIN saved
  PROVE  /\ restored = Nil
         /\ \E v \in DOMAIN saved : reply'.out = <<v>> /\ restored' \in Copies(saved[v])
<1>1. PICK v \in Requests : Restore(v)
  BY ReplyOfStep
<1>2. RestoreFills(v)
  BY <1>1 DEF Restore, RestoreRefused, RestoreEmpty, Answer, disk
<1> QED BY <1>2 DEF RestoreFills, Answer

\* Restore copies the version asked for before it removes any; only a failure of
\* do_splice_direct leaves the copy incomplete.
THEOREM RestoreDelivers == Spec => RestoreDeliversFirst
<1> DEFINE Asked == reply'.op = "restore"
                      /\ (reply'.err = "ok" \/ DOMAIN saved' # DOMAIN saved)
           Delivered == /\ restored = Nil
                        /\ \E v \in DOMAIN saved :
                             /\ reply'.out = <<v>>
                             /\ \/ restored' = saved[v]
                                \/ Fails("splice") /\ restored' = Broken
<1>1. ASSUME Next, Asked PROVE Delivered
  BY <1>1, RestoreStep DEF Copies
<1>2. ASSUME [Next]_vars PROVE [Asked => Delivered]_vars
  BY <1>1, <1>2
<1> QED BY <1>2, PTL DEF Spec, RestoreDeliversFirst

\* If do_splice_direct does not fail, whatever else does, no backup is purged by a
\* restore unless the restored file holds the version asked for.
THEOREM RestoresWhole == "splice" \notin Faults => (Spec => RestoreIsWhole)
<1> SUFFICES ASSUME "splice" \notin Faults PROVE Spec => RestoreIsWhole
  OBVIOUS
<1> DEFINE Asked == reply'.op = "restore"
                      /\ (reply'.err = "ok" \/ DOMAIN saved' # DOMAIN saved)
           Whole == \E v \in DOMAIN saved : reply'.out = <<v>> /\ restored' = saved[v]
<1>1. ASSUME Next, Asked PROVE Whole
  BY <1>1, RestoreStep DEF Copies, Fails
<1>2. ASSUME [Next]_vars PROVE [Asked => Whole]_vars
  BY <1>1, <1>2
<1> QED BY <1>2, PTL DEF Spec, RestoreIsWhole

-----------------------------------------------------------------------------
\* While nothing fails, no contents are kept twice: a backup made by a write is
\* of contents older than those the write leaves, and of no later backup.
THEOREM Distinct == Spec => []NoDuplicates
<1>1. Init => NoDuplicates
  BY DEF Init, NoDuplicates
<1>2. ASSUME TypeOK, NoDuplicates, [Next]_vars
      PROVE  NoDuplicates'
  <2> SUFFICES ASSUME Faults = {} PROVE NoDuplicates'
    BY DEF NoDuplicates
  <2>1. text' \in Nat /\ text <= text'
    <3>1. CASE Write
      <4>1. PICK v \in Fetched(rev) : WriteNumbered(NextVersion(v))
        BY <3>1 DEF Write
      <4>2. text' = text \/ (tick' = tick + 1 /\ text' = tick')
        BY <4>1 DEF WriteNumbered, RetentionFails, BackupFails, BackupMade, LowerWrite
      <4> QED BY <1>2, <4>2 DEF TypeOK
    <3>2. CASE Create \/ InPlace
      BY <1>2, <3>2 DEF TypeOK, Create, InPlace
    <3>3. CASE DeleteAll \/ \E v \in Requests : Delete(v) \/ Restore(v)
      <4>1. text' = text
        BY <3>3 DEF DeleteAll, Delete, Restore, disk
      <4> QED BY <1>2, <4>1 DEF TypeOK
    <3>4. CASE \/ Open \/ Unlink \/ Forget \/ Reboot \/ Collect \/ List
               \/ UNCHANGED vars \/ \E v \in Requests : Touch(v) \/ View(v)
      <4>1. text' = text
        BY <3>4 DEF Open, Unlink, Forget, Reboot, Collect, List, vars, Touch,
                    View, disk
      <4> QED BY <1>2, <4>1 DEF TypeOK
    <3> QED BY <1>2, <3>1, <3>2, <3>3, <3>4
            DEF Next, WriteIter, Truncate, MmapStore
  <2>2. CASE UNCHANGED saved \/ Trimmed
    <3>1. /\ DOMAIN saved' \subseteq DOMAIN saved
          /\ \A n \in DOMAIN saved' : saved'[n] = saved[n]
      BY <2>2 DEF Trimmed, Without
    <3>2. \A n \in DOMAIN saved : saved[n] # Broken /\ saved[n] < text
      BY <1>2 DEF NoDuplicates
    <3>3. \A n \in DOMAIN saved : saved[n] < text'
      <4>1. text \in Nat /\ \A n \in DOMAIN saved : saved[n] \in Int
        BY <1>2 DEF TypeOK, Texts, Broken
      <4> QED BY <2>1, <3>2, <4>1
    <3> QED BY <1>2, <3>1, <3>2, <3>3 DEF NoDuplicates
  <2>3. CASE ~(UNCHANGED saved \/ Trimmed)
    <3>1. PICK v \in Fetched(rev) : BackupMade(NextVersion(v))
      BY <1>2, <2>3 DEF Next, vars, disk, Create, Open, Unlink, Forget, Reboot,
         Touch, Collect, Write, WriteNumbered, RetentionFails, BackupFails,
         WriteIter, Truncate, MmapStore, InPlace, Delete, Delete_, DeleteAll,
         Restore, RestoreRefused, RestoreEmpty, RestoreFills, View, List, Trimmed
    <3> DEFINE val == NextVersion(v)
               kept == Without(saved, Expired(val))
    <3>2. /\ saved' = Put(kept, val, text)
          /\ text' = tick + 1
      BY <2>3, <3>1 DEF BackupMade, LowerWrite, Copies, Fails
    <3>3. /\ DOMAIN kept \subseteq DOMAIN saved
          /\ \A n \in DOMAIN kept : kept[n] = saved[n]
      BY DEF Without
    <3> HIDE DEF val, kept
    <3>4. /\ DOMAIN saved' \subseteq DOMAIN saved \cup {val}
          /\ saved'[val] = text
          /\ \A n \in DOMAIN saved' : n # val => n \in DOMAIN saved /\ saved'[n] = saved[n]
      BY <3>2, <3>3 DEF Put
    <3>5. text < text' /\ text # Broken
      BY <1>2, <3>2 DEF TypeOK, Broken
    <3>6. \A n \in DOMAIN saved : saved[n] \in Texts /\ saved[n] # Broken /\ saved[n] < text
      BY <1>2 DEF NoDuplicates, TypeOK
    <3>7. \A n \in DOMAIN saved : saved[n] < text' /\ saved[n] # text
      BY <1>2, <3>5, <3>6, <2>1 DEF TypeOK, Texts, Broken
    <3>8. ASSUME NEW m \in DOMAIN saved', NEW n \in DOMAIN saved', saved'[m] = saved'[n]
          PROVE  m = n
      BY <1>2, <3>4, <3>7, <3>8 DEF NoDuplicates
    <3> QED BY <3>4, <3>5, <3>6, <3>7, <3>8 DEF NoDuplicates
  <2> QED BY <2>2, <2>3
<1> QED BY <1>1, <1>2, TypeCorrect, PTL DEF Spec

\* While nothing fails, the two attributes agree whenever delete-all has not just
\* reset the first.
THEOREM Agree == Spec => []AttributesAgree
<1>1. Init => AttributesAgree
  BY DEF Init, AttributesAgree
<1>2. ASSUME AttributesAgree, [Next]_vars
      PROVE  AttributesAgree'
  <2> SUFFICES ASSUME Faults = {} PROVE rev' = young' \/ rev' = -1
    BY DEF AttributesAgree
  <2>1. rev = young \/ rev = -1
    BY <1>2 DEF AttributesAgree
  <2>2. CASE Write
    BY <2>2 DEF Write, WriteNumbered, Renumber, Stored, Fails
  <2>3. CASE DeleteAll
    BY <2>1, <2>3 DEF DeleteAll, Stored, Fails
  <2>4. CASE \E v \in Requests : Delete(v)
    BY <2>1, <2>4 DEF Delete, Renumber, Stored, Fails
  <2>5. CASE \/ Create \/ Open \/ Unlink \/ Forget \/ Reboot \/ Collect
             \/ InPlace \/ List \/ UNCHANGED vars
             \/ \E v \in Requests : Touch(v) \/ View(v) \/ Restore(v)
    BY <2>1, <2>5 DEF vars, Create, Open, Unlink, Forget, Reboot, Collect,
       InPlace, List, Touch, View, Restore, disk
  <2> QED BY <1>2, <2>2, <2>3, <2>4, <2>5
          DEF Next, WriteIter, Truncate, MmapStore
<1> QED BY <1>1, <1>2, PTL DEF Spec
=============================================================================
