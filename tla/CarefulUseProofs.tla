-------------------------- MODULE CarefulUseProofs --------------------------
(***************************************************************************)
(* Theorems of CarefulUse: the window of numbers is an invariant, at most  *)
(* N backups are kept, no call is refused, and the calls implement         *)
(* VersionHistory.  First comes what each call does in a state of the      *)
(* window, where the dentry cache, the stack and the failures no longer    *)
(* show; both the invariant and the refinement follow from that.           *)
(***************************************************************************)
EXTENDS CarefulUse, BackupStoreProofs, FiniteSetTheorems

USE DEF CInt

LEMMA NothingFails == \A call : ~Fails(call)
BY CarefulAssumption DEF Fails

LEMMA FetchedCareful ==
  /\ \A a : a # Nil => Fetched(a) = {a}
  /\ Fetched(Nil) = StackInts
BY NothingFails DEF Fetched

LEMMA StoredCareful == \A old, new : Stored(old, new) = {new}
BY NothingFails DEF Stored

LEMMA CopiesCareful == \A c : Copies(c) = {c}
BY NothingFails DEF Copies

-----------------------------------------------------------------------------
(* A write takes the number after rev, or, when there is no backup, any      *)
(* positive one; it drops the backup N below and keeps all others.           *)
Wrote(val) ==
  /\ val \in Nat \ {0} /\ val \notin DOMAIN saved
  /\ DOMAIN saved # {} => val = rev + 1
  /\ rev' = val /\ young' = val
  /\ tick < MaxTicks /\ tick' = tick + 1 /\ text' = tick + 1
  /\ val + (MaxTicks - tick') <= IntMax
  /\ DOMAIN saved' = (DOMAIN saved \ {val - N}) \cup {val}
  /\ saved'[val] = text
  /\ \A n \in DOMAIN saved \ {val - N} : saved'[n] = saved[n]
  /\ UNCHANGED <<file, restored>> /\ negative' = {}
  /\ reply'.err = "ok"

LEMMA WriteEffect ==
  ASSUME WindowInv, file = "listed", Warmed, Write
  PROVE  \E val : Wrote(val)
<1>1. PICK v \in Fetched(rev) : WriteNumbered(NextVersion(v))
  BY DEF Write
<1> DEFINE val == NextVersion(v)
<1>2. /\ val \in Nat \ {0}
      /\ val + (MaxTicks - tick) <= IntMax + 1
      /\ DOMAIN saved # {} => val = rev + 1
  <2>1. tick \in Nat /\ tick < MaxTicks /\ MaxTicks \in Nat /\ IntMax \in Nat
    BY StoreAssumption DEF Write, WindowInv, TypeOK
  <2>2. CASE rev = Nil
    <3>1. v \in StackInts
      BY <2>2, FetchedCareful
    <3>2. v \in Int /\ v + MaxTicks <= IntMax
      BY <3>1, CarefulAssumption, StoreAssumption
    <3>3. DOMAIN saved = {}
      <4>1. rev \notin Nat
        BY <2>2, StoreAssumption
      <4> QED BY <4>1 DEF WindowInv, Numbered
    <3>4. MaxTicks <= IntMax
      BY CarefulAssumption
    <3>5. val = IF v < 0 THEN 1 ELSE v + 1
      BY <2>1, <3>2 DEF NextVersion, Wrap
    <3> HIDE DEF val
    <3> QED BY <2>1, <3>2, <3>3, <3>4, <3>5
  <2>3. CASE rev # Nil
    <3>1. v = rev /\ rev \in Int /\ rev >= -1 /\ rev + (MaxTicks - tick) <= IntMax
      BY <2>3, FetchedCareful DEF WindowInv, Numbered, TypeOK
    <3>2. DOMAIN saved # {} => rev >= 0
      BY DEF WindowInv, Numbered
    <3>3. MaxTicks <= IntMax
      BY CarefulAssumption
    <3>4. val = IF v < 0 THEN 1 ELSE v + 1
      BY <2>1, <3>1 DEF NextVersion, Wrap
    <3> HIDE DEF val
    <3> QED BY <2>1, <3>1, <3>2, <3>3, <3>4
  <2> QED BY <2>2, <2>3
<1>3. val \notin DOMAIN saved
  <2>1. \A n \in DOMAIN saved : n <= rev /\ rev \in Nat
    BY DEF WindowInv, InWindow, Numbered
  <2> QED BY <1>2, <2>1
<1>4. Expired(val) = DOMAIN saved \cap {val - N}
  <2>1. warm = DOMAIN saved
    BY DEF Warmed, WindowInv, TypeOK
  <2>2. \A n \in DOMAIN saved : 0 < n
    BY DEF WindowInv, InWindow
  <2> HIDE DEF val
  <2> QED BY <1>2, <2>1, <2>2, StoreAssumption DEF Expired, Outdated
<1> HIDE DEF val
<1>5. BackupMade(val)
  <2>1. negative = {}
    BY DEF WindowInv, Tidy
  <2>2. ~RetentionFails(val) /\ ~BackupFails(val)
    BY <1>3, <2>1, NothingFails DEF RetentionFails, BackupFails, Taken
  <2> QED BY <1>1, <2>2 DEF WriteNumbered, val
<1>6. /\ saved' = Put(Without(saved, Expired(val)), val, text)
      /\ tick' = tick + 1 /\ text' = tick + 1
      /\ UNCHANGED <<file, restored>> /\ negative' = {}
      /\ reply'.err = "ok"
  BY <1>5, NothingFails, CopiesCareful
  DEF BackupMade, LowerWrite, Answer, WindowInv, Tidy
<1>7. rev' = val /\ young' = val
  BY <1>1, StoredCareful DEF WriteNumbered, Renumber, val
<1>8. /\ DOMAIN saved' = (DOMAIN saved \ {val - N}) \cup {val}
      /\ saved'[val] = text
      /\ \A n \in DOMAIN saved \ {val - N} : saved'[n] = saved[n]
  BY <1>3, <1>4, <1>6 DEF Put, Without
<1>9. tick < MaxTicks /\ val + (MaxTicks - tick') <= IntMax
  BY <1>2, <1>6, StoreAssumption DEF Write, WindowInv, TypeOK
<1> QED BY <1>2, <1>3, <1>6, <1>7, <1>8, <1>9 DEF Wrote

\* Deleting the youngest backup gives its number back.
LEMMA DeleteEffect ==
  ASSUME WindowInv, NEW v \in DOMAIN saved, Warmed, Delete(v)
  PROVE  /\ DOMAIN saved' = DOMAIN saved \ {v}
         /\ \A n \in DOMAIN saved' : saved'[n] = saved[n]
         /\ rev' = (IF v = rev THEN rev - 1 ELSE rev) /\ young' = rev'
         /\ UNCHANGED <<file, text, tick, negative, restored>>
         /\ reply'.err = "ok"
<1>1. v \in warm
  BY DEF Warmed
<1>2. rev \in Nat /\ young = rev /\ rev \in CInt
  BY StoreAssumption DEF WindowInv, Numbered, TypeOK
<1>3. Fetched(young) = {rev}
  BY <1>2, FetchedCareful, StoreAssumption
<1>4. v \notin negative
  BY DEF WindowInv, Tidy
<1>5. /\ Delete_({v}) /\ Answer("delete", "ok", <<v>>)
      /\ IF v = rev THEN rev' = Wrap(rev - 1) /\ young' = Wrap(rev - 1)
                    ELSE UNCHANGED <<rev, young>>
      /\ UNCHANGED <<file, text, tick, negative, restored>>
  BY <1>1, <1>3, <1>4, NothingFails, StoredCareful DEF Delete, DeletesYoungest, Renumber
<1>6. Wrap(rev - 1) = rev - 1
  BY <1>2, StoreAssumption DEF Wrap
<1> QED BY <1>2, <1>5, <1>6 DEF Delete_, Without, Answer

\* The purge loop, started at rev, goes down to 1 and finds every backup.
LEMMA PurgeCareful ==
  ASSUME WindowInv, DOMAIN saved # {}
  PROVE  /\ Fetched(rev) = {rev}
         /\ \A hashed : LoopEnds(rev, hashed) = {0}
         /\ Purged(rev, 0, DOMAIN saved) = DOMAIN saved
<1>1. rev \in Nat /\ rev # Nil
  BY StoreAssumption DEF WindowInv, Numbered
<1>2. negative = {}
  BY DEF WindowInv, Tidy
<1>3. \A n \in DOMAIN saved : 0 < n /\ n <= rev
  BY DEF WindowInv, InWindow
<1>4. \A hashed : LoopEnds(rev, hashed) = {0}
  BY <1>1, <1>2, NothingFails DEF LoopEnds
<1> QED BY <1>1, <1>3, <1>4, FetchedCareful DEF Purged

LEMMA DeleteAllEffect ==
  ASSUME WindowInv, DOMAIN saved # {}, Warmed, DeleteAll
  PROVE  /\ DOMAIN saved' = {} /\ rev' = -1
         /\ UNCHANGED <<file, text, tick, negative, restored>>
         /\ reply'.err = "ok"
<1>1. warm = DOMAIN saved
  BY DEF Warmed, WindowInv, TypeOK
<1>2. /\ Delete_(DOMAIN saved) /\ rev' \in Stored(rev, -1)
      /\ Answer("deleteall", "ok", <<>>)
      /\ UNCHANGED <<file, text, tick, negative, restored>>
  BY <1>1, PurgeCareful DEF DeleteAll
<1> QED BY <1>2, StoredCareful DEF Delete_, Without, Answer

LEMMA RestoreEffect ==
  ASSUME WindowInv, NEW v \in DOMAIN saved, Warmed, restored = Nil, Restore(v)
  PROVE  /\ DOMAIN saved' = {} /\ restored' = saved[v]
         /\ file = "listed" /\ file' = "orphan"
         /\ UNCHANGED <<text, tick, rev, young, negative>>
         /\ reply'.err = "ok"
<1>1. file = "listed" /\ warm = DOMAIN saved
  BY DEF Warmed, WindowInv, TypeOK, Tidy
<1>2. /\ file' = "orphan" /\ UNCHANGED <<text, tick, rev, young>>
      /\ RestoreFills(v)
  BY <1>1, NothingFails
  DEF Restore, RestoreRefused, RestoreEmpty, Removed
<1>3. warm \cup {v} = DOMAIN saved
  BY <1>1
<1>4. /\ saved' = Without(saved, DOMAIN saved)
      /\ Answer("restore", "ok", <<v>>)
  BY <1>2, <1>3, PurgeCareful DEF RestoreFills
<1>5. restored' = saved[v] /\ UNCHANGED negative
  BY <1>2, CopiesCareful DEF RestoreFills
<1> QED BY <1>1, <1>2, <1>4, <1>5 DEF Without, Answer

\* The calls that only look leave everything that is stored as it is.
Looks == \/ Open \/ List \/ \E v \in DOMAIN saved : Touch(v) \/ View(v)

LEMMA LooksEffect ==
  ASSUME WindowInv, Looks
  PROVE  UNCHANGED disk /\ negative' = {} /\ reply'.err = "ok"
BY NothingFails DEF Looks, Open, List, Touch, View, CacheLookup, Done, Answer,
                    cache, WindowInv, Tidy

\* The calls that change the file and not its backups.
LEMMA FileEffect ==
  ASSUME WindowInv,
         \/ Create \/ Forget \/ Reboot \/ Collect
         \/ file = "listed" /\ InPlace
         \/ file = "listed" /\ DOMAIN saved = {} /\ Unlink
  PROVE  /\ UNCHANGED saved /\ negative' = {} /\ reply'.err = "ok"
         /\ \/ /\ UNCHANGED <<file, rev, young>>
            \/ DOMAIN saved = {} /\ rev' = Nil
         /\ \/ UNCHANGED <<text, tick>>
            \/ tick < MaxTicks /\ tick' = tick + 1 /\ text' = tick + 1
         /\ file' # "listed" => DOMAIN saved = {}
BY DEF WindowInv, Tidy, Create, Forget, Reboot, Collect, InPlace, Unlink, Done,
       Answer, cache

\* A careful step is one of six kinds.
LEMMA CarefulCases ==
  ASSUME CarefulNext
  PROVE  \/ file = "listed" /\ Warmed /\ Write
         \/ \E v \in DOMAIN saved : Warmed /\ Delete(v)
         \/ DOMAIN saved # {} /\ Warmed /\ DeleteAll
         \/ \E v \in DOMAIN saved : Warmed /\ restored = Nil /\ Restore(v)
         \/ Looks
         \/ \/ Create \/ Forget \/ Reboot \/ Collect
            \/ file = "listed" /\ InPlace
            \/ file = "listed" /\ DOMAIN saved = {} /\ Unlink
BY DEF CarefulNext, Looks, WriteIter, Truncate, MmapStore

LEMMA CarefulType ==
  ASSUME TypeOK, [CarefulNext]_vars
  PROVE  TypeOK'
<1>1. CASE UNCHANGED vars
  BY <1>1 DEF vars, TypeOK
<1>2. CASE Write
  BY <1>2, TypeWrite
<1>3. CASE DeleteAll
  BY <1>3, TypeDeleteAll
<1>4. ASSUME NEW v \in DOMAIN saved, Delete(v) \/ Restore(v) \/ Touch(v) \/ View(v)
      PROVE  TypeOK'
  <2>1. v \in CInt
    BY DEF TypeOK
  <2> QED BY <1>4, <2>1, TypeDelete, TypeRestore, TypeLooks
<1>5. CASE \/ Create \/ Open \/ Unlink \/ Forget \/ Reboot \/ Collect
           \/ InPlace \/ List
  BY <1>5, TypeOthers
<1> QED BY <1>1, <1>2, <1>3, <1>4, <1>5, CarefulCases DEF Looks

LEMMA WindowInit == Init => WindowInv
<1> SUFFICES ASSUME Init PROVE WindowInv
  OBVIOUS
<1>1. TypeOK
  BY TypeInit
<1>2. DOMAIN saved = {} /\ rev = Nil /\ tick = 0 /\ negative = {}
  BY DEF Init
<1> QED BY <1>1, <1>2, StoreAssumption
        DEF WindowInv, Numbered, InWindow, Ordered, Tidy

LEMMA WindowWrite ==
  ASSUME WindowInv, file = "listed", NEW val, Wrote(val)
  PROVE  (Numbered /\ InWindow /\ Ordered /\ Tidy)'
<1>1. /\ tick \in Nat /\ MaxTicks \in Nat /\ N \in Nat \ {0}
      /\ text \in Nat /\ text <= tick
  BY StoreAssumption DEF WindowInv, TypeOK
<1>2. val \in Nat \ {0} /\ val \in Int /\ val # Nil
  BY StoreAssumption DEF Wrote
<1>3. Numbered'
  BY <1>1, <1>2 DEF Numbered, Wrote
<1>4. Tidy'
  BY DEF Tidy, Wrote
<1>5. \A n \in DOMAIN saved' :
        n # val => n \in DOMAIN saved \ {val - N} /\ saved'[n] = saved[n]
  BY DEF Wrote
<1>6. \A n \in DOMAIN saved :
        /\ n \in Int /\ rev \in Nat /\ val = rev + 1
        /\ 0 < n /\ rev - N < n /\ n <= rev
  BY StoreAssumption DEF WindowInv, TypeOK, Numbered, InWindow, Wrote
<1>7. InWindow'
  <2> SUFFICES ASSUME NEW n \in DOMAIN saved'
               PROVE  0 < n /\ rev' - N < n /\ n <= rev'
    BY DEF InWindow
  <2>1. rev' = val
    BY DEF Wrote
  <2>2. CASE n = val
    BY <1>1, <1>2, <2>1, <2>2
  <2>3. CASE n # val
    BY <1>1, <1>2, <1>5, <1>6, <2>1, <2>3
  <2> QED BY <2>2, <2>3
<1>8. text' = tick + 1 /\ saved'[val] = text
  BY DEF Wrote
<1>9. \A n \in DOMAIN saved : saved[n] \in Int /\ saved[n] # Broken /\ saved[n] < text
  BY DEF WindowInv, TypeOK, Ordered, Texts, Broken
<1>10. \A n \in DOMAIN saved' : saved'[n] # Broken /\ saved'[n] < text'
  BY <1>1, <1>5, <1>8, <1>9 DEF Broken
<1>11. ASSUME NEW m \in DOMAIN saved', NEW n \in DOMAIN saved', m < n
       PROVE  saved'[m] < saved'[n]
  <2>1. CASE m # val /\ n # val
    BY <1>5, <1>11, <2>1 DEF WindowInv, Ordered
  <2>2. CASE n = val
    BY <1>2, <1>5, <1>8, <1>9, <1>11, <2>2
  <2>3. CASE m = val /\ n # val
    BY <1>2, <1>5, <1>6, <1>11, <2>3
  <2> QED BY <2>1, <2>2, <2>3
<1> QED BY <1>3, <1>4, <1>7, <1>10, <1>11 DEF Ordered

LEMMA WindowStep ==
  ASSUME WindowInv, [CarefulNext]_vars
  PROVE  WindowInv'
<1>1. TypeOK'
  BY CarefulType DEF WindowInv
<1> SUFFICES (Numbered /\ InWindow /\ Ordered /\ Tidy)'
  BY <1>1 DEF WindowInv
<1>2. /\ tick \in Nat /\ MaxTicks \in Nat /\ N \in Nat \ {0} /\ IntMax \in Nat
      /\ text \in Nat /\ text <= tick
  BY StoreAssumption DEF WindowInv, TypeOK
<1>3. CASE UNCHANGED vars
  BY <1>3 DEF vars, WindowInv, Numbered, InWindow, Ordered, Tidy
<1>4. CASE file = "listed" /\ Warmed /\ Write
  BY <1>4, WriteEffect, WindowWrite
<1>5. ASSUME NEW v \in DOMAIN saved, Warmed, Delete(v)
      PROVE  (Numbered /\ InWindow /\ Ordered /\ Tidy)'
  <2>1. /\ rev \in Nat /\ young = rev /\ v <= rev /\ v \in Int
        /\ rev + (MaxTicks - tick) <= IntMax /\ tick <= MaxTicks /\ 0 < v
    BY StoreAssumption DEF WindowInv, TypeOK, Numbered, InWindow
  <2>2. /\ DOMAIN saved' = DOMAIN saved \ {v}
        /\ \A n \in DOMAIN saved' : saved'[n] = saved[n]
        /\ rev' = (IF v = rev THEN rev - 1 ELSE rev) /\ young' = rev'
        /\ UNCHANGED <<file, text, tick, negative, restored>>
    BY <1>5, DeleteEffect
  <2>3. rev' \in Nat /\ rev' # Nil /\ rev' <= rev
    BY <2>1, <2>2, StoreAssumption
  <2>4. Numbered'
    BY <1>2, <2>1, <2>2, <2>3 DEF Numbered
  <2>5. InWindow'
    BY <1>2, <2>1, <2>2, <2>3 DEF InWindow, WindowInv, TypeOK
  <2>6. Ordered' /\ Tidy'
    BY <2>2 DEF Ordered, Tidy, WindowInv
  <2> QED BY <2>4, <2>5, <2>6
<1>6. CASE DOMAIN saved # {} /\ Warmed /\ DeleteAll
  <2>1. DOMAIN saved' = {} /\ rev' = -1 /\ UNCHANGED <<file, text, tick, negative>>
    BY <1>6, DeleteAllEffect
  <2>2. tick <= MaxTicks
    BY DEF WindowInv, Numbered
  <2> QED BY <1>2, <2>1, <2>2, CarefulAssumption
          DEF WindowInv, Numbered, InWindow, Ordered, Tidy
<1>7. ASSUME NEW v \in DOMAIN saved, Warmed, restored = Nil, Restore(v)
      PROVE  (Numbered /\ InWindow /\ Ordered /\ Tidy)'
  <2>1. DOMAIN saved' = {} /\ UNCHANGED <<text, tick, rev, young, negative>>
    BY <1>7, RestoreEffect
  <2> QED BY <2>1 DEF WindowInv, Numbered, InWindow, Ordered, Tidy
<1>8. CASE Looks
  BY <1>8, LooksEffect
  DEF disk, WindowInv, Numbered, InWindow, Ordered, Tidy
<1>9. CASE \/ Create \/ Forget \/ Reboot \/ Collect
           \/ file = "listed" /\ InPlace
           \/ file = "listed" /\ DOMAIN saved = {} /\ Unlink
  <2>1. /\ UNCHANGED saved /\ negative' = {}
        /\ \/ UNCHANGED <<rev, young>>
           \/ DOMAIN saved = {} /\ rev' = Nil
        /\ \/ UNCHANGED <<text, tick>>
           \/ tick < MaxTicks /\ tick' = tick + 1 /\ text' = tick + 1
        /\ file' # "listed" => DOMAIN saved = {}
    BY <1>9, FileEffect, Zenon
  <2>2. Tidy'
    BY <2>1 DEF Tidy
  <2>3. text <= text' /\ text' \in Nat /\ tick <= tick' /\ tick' <= MaxTicks /\ tick' \in Nat
    BY <1>2, <2>1 DEF WindowInv, Numbered
  <2>4. Numbered'
    <3>1. CASE UNCHANGED <<rev, young>>
      <4>1. rev \in Int \/ rev = Nil
        BY DEF WindowInv, TypeOK
      <4> QED BY <1>2, <2>1, <2>3, <3>1, <4>1 DEF WindowInv, Numbered
    <3>2. CASE DOMAIN saved = {} /\ rev' = Nil
      BY <2>1, <2>3, <3>2 DEF Numbered
    <3> QED BY <2>1, <3>1, <3>2
  <2>5. InWindow'
    BY <2>1 DEF WindowInv, InWindow
  <2>6. Ordered'
    <3>1. \A n \in DOMAIN saved : saved[n] \in Int
      BY DEF WindowInv, TypeOK, Texts, Broken
    <3> QED BY <1>2, <2>1, <2>3, <3>1 DEF WindowInv, Ordered
  <2> QED BY <2>2, <2>4, <2>5, <2>6
<1> QED BY <1>3, <1>4, <1>5, <1>6, <1>7, <1>8, <1>9, CarefulCases

\* The backups are the window of the last N numbers, in the order of their ages.
THEOREM WindowCorrect == CarefulSpec => []WindowInv
BY WindowInit, WindowStep, PTL DEF CarefulSpec

\* Retention keeps at most N backups, whatever their numbers.
THEOREM RetentionBounded == CarefulSpec => []RetentionBound
<1>1. ASSUME WindowInv
      PROVE  RetentionBound
  <2>0. N \in Nat \ {0}
    BY StoreAssumption
  <2>1. CASE DOMAIN saved = {}
    BY <2>0, <2>1, FS_EmptySet DEF RetentionBound
  <2>2. CASE DOMAIN saved # {}
    <3>1. rev \in Nat
      BY <1>1, <2>2 DEF WindowInv, Numbered
    <3>2. DOMAIN saved \subseteq (rev - N + 1)..rev
      BY <1>1, <2>0, <3>1, StoreAssumption DEF WindowInv, InWindow, TypeOK
    <3>3. /\ IsFiniteSet((rev - N + 1)..rev)
          /\ Cardinality((rev - N + 1)..rev) = N
      <4>1. rev - N + 1 \in Int /\ rev \in Int /\ ~(rev - N + 1 > rev)
        BY <2>0, <3>1
      <4>2. rev - (rev - N + 1) + 1 = N
        BY <2>0, <3>1
      <4> HIDE <2>0
      <4> QED BY <4>1, <4>2, FS_Interval
    <3> QED BY <3>2, <3>3, FS_Subset DEF RetentionBound
  <2> QED BY <2>1, <2>2
<1> QED BY <1>1, WindowCorrect, PTL

\* No call fails: the number a write takes is free, retention and delete find
\* the backup they look for, and restore its version.
THEOREM NoneRefused == CarefulSpec => NeverRefused
<1>1. ASSUME WindowInv, CarefulNext
      PROVE  reply'.err = "ok"
  <2>1. CASE file = "listed" /\ Warmed /\ Write
    BY <1>1, <2>1, WriteEffect DEF Wrote
  <2>2. CASE \E v \in DOMAIN saved : Warmed /\ Delete(v)
    BY <1>1, <2>2, DeleteEffect
  <2>3. CASE DOMAIN saved # {} /\ Warmed /\ DeleteAll
    BY <1>1, <2>3, DeleteAllEffect
  <2>4. CASE \E v \in DOMAIN saved : Warmed /\ restored = Nil /\ Restore(v)
    BY <1>1, <2>4, RestoreEffect
  <2>5. CASE Looks
    BY <1>1, <2>5, LooksEffect
  <2>6. CASE \/ Create \/ Forget \/ Reboot \/ Collect
             \/ file = "listed" /\ InPlace
             \/ file = "listed" /\ DOMAIN saved = {} /\ Unlink
    BY <1>1, <2>6, FileEffect
  <2> QED BY <1>1, <2>1, <2>2, <2>3, <2>4, <2>5, <2>6, CarefulCases
<1>2. ASSUME WindowInv, [CarefulNext]_vars
      PROVE  [reply'.err = "ok"]_vars
  BY <1>1, <1>2
<1> QED BY <1>2, WindowCorrect, PTL DEF CarefulSpec, NeverRefused

-----------------------------------------------------------------------------
(* Refinement.  What each place of the window holds, for rev in Nat.         *)
LEMMA WindowAt ==
  ASSUME NEW k \in 1..N
  PROVE  Window[k] = IF rev # Nil /\ rev - N + k \in DOMAIN saved
                     THEN saved[rev - N + k] ELSE Nil
BY DEF Window

LEMMA WindowEmpty ==
  ASSUME DOMAIN saved = {}
  PROVE  Window = History!Empty
BY DEF Window, History!Empty

LEMMA HistoryInit == Init => History!Init
BY StoreAssumption, WindowEmpty DEF Init, History!Init

LEMMA HistoryWrite ==
  ASSUME WindowInv, file = "listed", NEW val, Wrote(val)
  PROVE  History!Save
<1>1. /\ N \in Nat \ {0} /\ val \in Nat /\ val \in Int /\ val # Nil /\ rev' = val
      /\ DOMAIN saved' = (DOMAIN saved \ {val - N}) \cup {val}
      /\ saved'[val] = text
      /\ \A n \in DOMAIN saved \ {val - N} : saved'[n] = saved[n]
  BY StoreAssumption DEF Wrote
<1>2. Window' = [k \in 1..N |-> IF k = N THEN text ELSE Window[k + 1]]
  <2> DEFINE Old(k) == IF rev # Nil /\ rev - N + k \in DOMAIN saved
                       THEN saved[rev - N + k] ELSE Nil
             New(k) == IF val - N + k \in DOMAIN saved'
                       THEN saved'[val - N + k] ELSE Nil
  <2>1. ASSUME NEW k \in 1..N
        PROVE  New(k) = IF k = N THEN text ELSE Old(k + 1)
    <3>1. CASE k = N
      <4>1. val - N + N = val
        BY <1>1
      <4> QED BY <1>1, <3>1, <4>1
    <3>2. CASE k # N /\ DOMAIN saved = {}
      <4>1. val - N + k # val
        BY <1>1, <3>2
      <4> QED BY <1>1, <3>2, <4>1
    <3>3. CASE k # N /\ DOMAIN saved # {}
      <4>1. val = rev + 1 /\ rev \in Nat /\ rev # Nil
        BY <3>3, StoreAssumption DEF Wrote, WindowInv, Numbered
      <4>2. /\ val - N + k = rev - N + (k + 1)
            /\ val - N + k # val /\ val - N + k # val - N
        BY <1>1, <3>3, <4>1
      <4> QED BY <1>1, <3>3, <4>1, <4>2
    <3> QED BY <3>1, <3>2, <3>3
  <2>2. Window' = [k \in 1..N |-> New(k)]
    BY <1>1 DEF Window
  <2>3. \A k \in 1..N : k # N => Window[k + 1] = Old(k + 1)
    BY <1>1, WindowAt
  <2> HIDE DEF Old, New
  <2> QED BY <2>1, <2>2, <2>3
<1>3. /\ text' \in Nat /\ text < text' /\ text # Nil
      /\ file' = file /\ restored' = restored
  BY StoreAssumption DEF Wrote, WindowInv, TypeOK
<1> QED BY <1>2, <1>3 DEF History!Save, History!Renew

LEMMA HistoryDelete ==
  ASSUME WindowInv, NEW v \in DOMAIN saved, Warmed, Delete(v)
  PROVE  \E k \in 1..N : History!Drop(k)
<1>1. /\ N \in Nat \ {0} /\ rev \in Nat /\ rev # Nil /\ v \in Int
      /\ rev - N < v /\ v <= rev /\ saved[v] # Nil
      /\ \A n \in DOMAIN saved : n \in Int /\ rev - N < n
  BY StoreAssumption DEF WindowInv, TypeOK, Numbered, InWindow, Texts, Broken
<1>2. /\ DOMAIN saved' = DOMAIN saved \ {v}
      /\ \A n \in DOMAIN saved' : saved'[n] = saved[n]
      /\ rev' = (IF v = rev THEN rev - 1 ELSE rev)
      /\ UNCHANGED <<file, text, restored>>
  BY DeleteEffect
<1>3. PICK k \in 1..N : rev - N + k = v
  <2>1. v - rev + N \in 1..N /\ rev - N + (v - rev + N) = v
    BY <1>1
  <2> QED BY <2>1
<1>4. Window[k] = saved[v] /\ Window[k] # Nil
  BY <1>1, <1>3, WindowAt
<1>5. k = N <=> v = rev
  BY <1>1, <1>3
<1>6. CASE v = rev
  <2>1. rev' = rev - 1 /\ rev' # Nil
    BY <1>1, <1>2, <1>6, StoreAssumption
  <2>2. ASSUME NEW j \in 1..N
        PROVE  Window'[j] = IF j = 1 THEN Nil ELSE Window[j - 1]
    <3>1. Window'[j] = IF rev - 1 - N + j \in DOMAIN saved'
                       THEN saved'[rev - 1 - N + j] ELSE Nil
      BY <2>1 DEF Window
    <3>2. CASE j = 1
      <4>1. rev - 1 - N + j = rev - N /\ rev - N \notin DOMAIN saved
        BY <1>1, <3>2
      <4> QED BY <1>2, <3>1, <3>2, <4>1
    <3>3. CASE j # 1
      <4>1. rev - 1 - N + j = rev - N + (j - 1) /\ rev - N + (j - 1) # v /\ j - 1 \in 1..N
        BY <1>1, <1>6, <3>3
      <4>2. Window[j - 1] = IF rev - N + (j - 1) \in DOMAIN saved
                            THEN saved[rev - N + (j - 1)] ELSE Nil
        BY <1>1, <4>1, WindowAt
      <4> QED BY <1>2, <3>1, <3>3, <4>1, <4>2
    <3> QED BY <3>2, <3>3
  <2>3. Window' = [j \in 1..N |-> IF j = 1 THEN Nil ELSE Window[j - 1]]
    BY <2>2 DEF Window
  <2> QED BY <1>2, <1>4, <1>5, <1>6, <2>3 DEF History!Drop
<1>7. CASE v # rev
  <2>1. ASSUME NEW j \in 1..N
        PROVE  Window'[j] = IF j = k THEN Nil ELSE Window[j]
    <3>1. Window'[j] = IF rev - N + j \in DOMAIN saved'
                       THEN saved'[rev - N + j] ELSE Nil
      BY <1>1, <1>2, <1>7 DEF Window
    <3>2. rev - N + j = v <=> j = k
      BY <1>1, <1>3
    <3> QED BY <1>1, <1>2, <3>1, <3>2, WindowAt
  <2>2. Window' = [Window EXCEPT ![k] = Nil]
    BY <2>1 DEF Window
  <2> QED BY <1>2, <1>4, <1>5, <1>7, <2>2 DEF History!Drop
<1> QED BY <1>6, <1>7

LEMMA HistoryStep ==
  ASSUME WindowInv, [CarefulNext]_vars
  PROVE  [History!Next]_(History!hvars)
<1>1. CASE UNCHANGED vars
  BY <1>1 DEF vars, History!hvars, Window
<1>2. CASE file = "listed" /\ Warmed /\ Write
  BY <1>2, WriteEffect, HistoryWrite DEF History!Next
<1>3. ASSUME NEW v \in DOMAIN saved, Warmed, Delete(v)
      PROVE  History!Next
  BY <1>3, HistoryDelete DEF History!Next
<1>4. CASE DOMAIN saved # {} /\ Warmed /\ DeleteAll
  <2>1. DOMAIN saved' = {} /\ UNCHANGED <<file, text, restored>>
    BY <1>4, DeleteAllEffect
  <2>2. Window' = History!Empty
    BY <2>1 DEF Window, History!Empty
  <2> QED BY <2>1, <2>2 DEF History!Next, History!DropAll
<1>5. ASSUME NEW v \in DOMAIN saved, Warmed, restored = Nil, Restore(v)
      PROVE  History!Next
  <2>1. /\ DOMAIN saved' = {} /\ restored' = saved[v]
        /\ file' = "orphan"
    BY <1>5, RestoreEffect
  <2>2. Window' = History!Empty
    BY <2>1 DEF Window, History!Empty
  <2>3. PICK k \in 1..N : rev - N + k = v /\ rev # Nil
    <3>1. /\ N \in Nat \ {0} /\ rev \in Nat /\ rev # Nil /\ v \in Int
          /\ rev - N < v /\ v <= rev
      BY StoreAssumption DEF WindowInv, TypeOK, Numbered, InWindow
    <3>2. v - rev + N \in 1..N /\ rev - N + (v - rev + N) = v
      BY <3>1
    <3> QED BY <3>1, <3>2
  <2>4. Window[k] = saved[v]
    BY <2>3, WindowAt
  <2>5. saved[v] # Nil
    BY StoreAssumption DEF WindowInv, TypeOK, Texts, Broken
  <2> QED BY <1>5, <2>1, <2>2, <2>4, <2>5 DEF History!Next, History!Restore
<1>6. CASE Looks
  BY <1>6, LooksEffect DEF disk, History!hvars, Window
<1>7. CASE Create
  <2>1. /\ file = "none" /\ file' = "listed" /\ text' \in Nat /\ UNCHANGED <<saved, restored>>
        /\ rev' = Nil
    BY <1>7 DEF Create, WindowInv, TypeOK
  <2>2. DOMAIN saved = {}
    BY <2>1 DEF WindowInv, Tidy
  <2>3. Window = History!Empty /\ Window' = History!Empty
    BY <2>1, <2>2 DEF Window, History!Empty
  <2> QED BY <2>1, <2>3 DEF History!Next, History!Begin, History!Renew
<1>8. CASE Forget \/ Reboot
  <2>1. /\ file = "listed" <=> file' = "listed"
        /\ UNCHANGED <<text, saved, restored>>
        /\ UNCHANGED rev \/ DOMAIN saved = {}
    BY <1>8 DEF Forget, Reboot, WindowInv, Tidy
  <2>2. Window' = Window
    BY <2>1 DEF Window
  <2> QED BY <2>1, <2>2 DEF History!hvars
<1>9. CASE Collect
  <2>1. Window' = Window
    BY <1>9 DEF Collect, Window
  <2> QED BY <1>9, <2>1 DEF Collect, History!Next, History!Collect
<1>10. CASE file = "listed" /\ InPlace
  <2>1. /\ text' \in Nat /\ text < text' /\ text # Nil
        /\ UNCHANGED <<file, saved, rev, restored>>
    BY <1>10, StoreAssumption DEF InPlace, WindowInv, TypeOK
  <2>2. Window' = Window
    BY <2>1 DEF Window
  <2> QED BY <1>10, <2>1, <2>2 DEF History!Next, History!Amend, History!Renew
<1>11. CASE file = "listed" /\ DOMAIN saved = {} /\ Unlink
  <2>1. file' = "none" /\ UNCHANGED <<saved, restored>> /\ text # Nil
    BY <1>11, StoreAssumption DEF Unlink, WindowInv, TypeOK
  <2>2. Window = History!Empty /\ Window' = History!Empty
    BY <1>11, <2>1 DEF Window, History!Empty
  <2> QED BY <1>11, <2>1, <2>2 DEF History!Next, History!End
<1> QED BY <1>1, <1>2, <1>3, <1>4, <1>5, <1>6, <1>7, <1>8, <1>9, <1>10, <1>11,
           CarefulCases

\* Used carefully, bkpfs implements the history of versions it promises.
THEOREM Refinement == CarefulSpec => ImplementsHistory
<1>1. Init => History!Init
  BY HistoryInit
<1> QED BY <1>1, HistoryStep, WindowCorrect, PTL
        DEF CarefulSpec, ImplementsHistory, History!Spec
=============================================================================
