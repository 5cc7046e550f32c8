-------------------------- MODULE SerialTasksProofs --------------------------
(***************************************************************************)
(* The proof that calls which do not overlap are the atomic calls of       *)
(* BackupStore, wherever the machine crashes, for any tasks, any N and any *)
(* number of calls.                                                        *)
(***************************************************************************)
EXTENDS SerialTasks, BackupTasksProofs, WellFoundedInduction

-----------------------------------------------------------------------------
(* The inductive invariant: what each step knows of the store as it was when   *)
(* the call began.                                                             *)

\* What bkpfs_write works on before its lower write has changed nothing else.
Kept == file = shown.file /\ text = shown.text /\ restored = shown.restored
SameAttrs == rev = shown.rev /\ young = shown.young
SameStore == saved = shown.saved /\ warm = shown.warm /\ negative = shown.negative

\* The store without the backup that retention has taken, and its cache.
Rest(v) == Store!Without(shown.saved, Store!Expired(v))
RestWarm(v) == shown.warm \ Store!Expired(v)

\* The number comes from the attribute as it was, and does not wrap.
Taken(t) ==
  /\ asked.out = <<val[t]>>
  /\ \E v \in Fetched(shown.rev) : v < IntMax /\ val[t] = NextVersion(v)

WriteAt(t) ==
  pc[t] \in Numbering \cup {"number"} =>
    /\ asked.op = "write" /\ Kept
    /\ pc[t] \in Numbering => Taken(t)
    /\ pc[t] \in {"number", "setrev"} => SameAttrs
    /\ pc[t] = "setyoung" => rev = val[t] /\ young = shown.young
    /\ pc[t] \in Numbering \ {"setrev", "setyoung"} => rev = val[t] /\ young = val[t]
    /\ pc[t] \in {"number", "setrev", "setyoung", "outdated", "expire"} => SameStore
    /\ pc[t] = "outdated" => val[t] > N
    /\ pc[t] = "expire" => /\ val[t] > N /\ on[t] = val[t] - N
                           /\ dent[t] \in {"there", "missing"}
    /\ pc[t] \in {"lookup", "create", "copy", "write"} =>
         Store!Outdated(val[t]) \cap shown.negative = {}
    /\ pc[t] \in {"lookup", "create"} => saved = Rest(val[t])
    /\ pc[t] = "lookup" => warm = RestWarm(val[t]) /\ negative = shown.negative
    /\ pc[t] = "create" =>
         \/ /\ val[t] \in DOMAIN shown.saved /\ dent[t] = "there"
            /\ warm = RestWarm(val[t]) \cup {val[t]} /\ negative = shown.negative
         \/ /\ val[t] \notin DOMAIN shown.saved /\ dent[t] = "missing"
            /\ warm = RestWarm(val[t]) /\ negative = shown.negative \cup {val[t]}
    /\ pc[t] \in {"copy", "write"} =>
         /\ val[t] \notin DOMAIN shown.saved /\ dent[t] = "there"
         /\ warm = RestWarm(val[t]) \cup {val[t]}
         /\ negative = shown.negative \ {val[t]}
    /\ pc[t] = "copy" => saved = Store!Put(Rest(val[t]), val[t], Broken)
    /\ pc[t] = "write" => saved = Store!Put(Rest(val[t]), val[t], text)

Deleting == {"find", "unlink", "compare", "lowerrev", "loweryoung"}

DeleteAt(t) ==
  pc[t] \in Deleting =>
    /\ asked = [op |-> "delete", out |-> <<val[t]>>]
    /\ val[t] \in Requests /\ Kept /\ young = shown.young
    /\ pc[t] # "loweryoung" => rev = shown.rev
    /\ pc[t] \in {"find", "unlink"} => SameStore
    /\ pc[t] = "unlink" => on[t] = val[t] /\ dent[t] \in {"there", "missing"}
    /\ pc[t] \in {"compare", "lowerrev", "loweryoung"} =>
         /\ val[t] \in shown.warm
         /\ saved = Store!Without(shown.saved, {val[t]})
         /\ warm = shown.warm \ {val[t]} /\ negative = shown.negative
    /\ pc[t] \in {"lowerrev", "loweryoung"} => val[t] \in Fetched(shown.young)
    /\ pc[t] = "loweryoung" => rev = val[t] - 1

Delivering == {"findfile", "unlinkfile", "restored", "fill"}

RestoreAt(t) ==
  pc[t] \in Delivering =>
    /\ asked = [op |-> "restore", out |-> <<ask[t]>>] /\ ask[t] \in Requests
    /\ text = shown.text /\ SameAttrs /\ SameStore /\ dent[t] = "none"
    /\ pc[t] \in {"findfile", "unlinkfile"} => file = shown.file
    /\ pc[t] = "unlinkfile" => file = "listed"
    /\ pc[t] \in {"restored", "fill"} => file = Store!Removed
    /\ pc[t] = "fill" => shown.restored = Nil /\ restored = Broken
    /\ pc[t] # "fill" => restored = shown.restored

\* What the loop of delete-all or restore finds cached, and what it has deleted
\* when it started at v and is about to look at i.
Looping == {"count", "loop", "purge", "reset"}
First(t) == shown.warm \cup (IF ask[t] = Nil THEN {} ELSE {ask[t]})
Gone(t, v) == Store!Purged(v, val[t], First(t))

Purging(t, v) ==
  /\ val[t] <= v /\ (v > 0 => val[t] >= 0)
  /\ \A j \in (val[t] + 1)..v : j \notin shown.negative
  /\ saved = Store!Without(shown.saved, Gone(t, v))
  /\ warm = First(t) \ Gone(t, v)
  /\ pc[t] \in {"loop", "reset"} => (dent[t] = "unlinked" <=> Gone(t, v) # {})

LoopAt(t) ==
  pc[t] \in Looping =>
    /\ text = shown.text /\ SameAttrs /\ negative = shown.negative
    /\ ask[t] = Nil => /\ asked = [op |-> "deleteall", out |-> <<>>]
                       /\ file = shown.file /\ restored = shown.restored
    /\ ask[t] # Nil => /\ asked = [op |-> "restore", out |-> <<ask[t]>>]
                       /\ ask[t] \in Requests /\ file = Store!Removed
                       /\ shown.restored = Nil /\ ask[t] \in DOMAIN shown.saved
                       /\ restored = shown.saved[ask[t]]
                       /\ pc[t] # "reset"
    /\ pc[t] = "count" => saved = shown.saved /\ warm = First(t) /\ dent[t] = "none"
    /\ pc[t] # "count" => \E v \in Fetched(shown.rev) : Purging(t, v)
    /\ pc[t] = "purge" => /\ val[t] > 0 /\ on[t] = val[t]
                          /\ dent[t] \in {"there", "missing"}
    /\ pc[t] = "reset" => val[t] <= 0

InCall(t) == WriteAt(t) /\ DeleteAt(t) /\ RestoreAt(t) /\ LoopAt(t)

Alone ==
  /\ \A t, u \in Tasks : pc[t] # "idle" /\ pc[u] # "idle" => t = u
  /\ \A t \in Tasks : IF pc[t] = "idle" THEN ask[t] = Nil /\ dent[t] = "none"
                      ELSE ~late /\ file # "none" /\ shown.file # "none"

\* Between calls the store is as it is shown, but for the reboot after a crash.
Shown ==
  /\ AtRest /\ ~late => Kept /\ SameAttrs /\ SameStore
  /\ late => /\ Crashes /\ text = shown.text /\ restored = shown.restored
             /\ saved = shown.saved /\ warm = {} /\ negative = {}
             /\ IF shown.file = "orphan" THEN file = "none" /\ rev = Nil /\ young = Nil
                                         ELSE file = shown.file /\ SameAttrs

\* Each write is a call, and moves the numbers up by one at most.
Highest == IntMax - MaxCalls + calls
Bounded ==
  /\ text <= calls
  /\ rev # Nil => rev <= Highest
  /\ young # Nil => young <= Highest
  /\ \A t \in Tasks :
       /\ pc[t] \in Numbering \cup {"number"} => text < calls
       /\ pc[t] = "number" /\ rev # Nil => rev < Highest
       /\ pc[t] \in Numbering => val[t] <= Highest

\* Its types, as TypeOK has them.
ShownTyped ==
  /\ DOMAIN shown.saved \subseteq Nat \ {0}
  /\ shown.saved \in [DOMAIN shown.saved -> Nat \cup {Broken}]
  /\ shown.warm \subseteq DOMAIN shown.saved
  /\ shown.negative \cap DOMAIN shown.saved = {}
  /\ shown.rev \in Int \cup {Nil} /\ shown.young \in Int \cup {Nil}

\* A file that is gone has no attributes.
Bare == file = "none" => rev = Nil /\ young = Nil

SInv == Alone /\ Shown /\ ShownTyped /\ Bare /\ Bounded /\ \A t \in Tasks : InCall(t)

-----------------------------------------------------------------------------
(* A step of the task that is in a call.                                       *)

\* What SerialAdvance adds to a step.
Follows(t) ==
  /\ UNCHANGED late
  /\ asked' = IF pc[t] = "number" THEN [asked EXCEPT !.out = <<val'[t]>>] ELSE asked
  /\ IF pc'[t] = "idle" THEN Shows(Reply(asked.op, result'[t], asked.out))
                        ELSE UNCHANGED shown

\* Of a task that is not in a call there is nothing to say.
LEMMA IdleIsFree ==
  ASSUME NEW t \in Tasks, pc'[t] = "idle"
  PROVE  InCall(t)'
BY DEF InCall, WriteAt, DeleteAt, RestoreAt, LoopAt, Numbering, Deleting, Delivering,
       Looping

LEMMA InWrite ==
  ASSUME NEW t \in Tasks, pc'[t] \in Numbering \cup {"number"}, WriteAt(t)'
  PROVE  InCall(t)'
BY DEF InCall, DeleteAt, RestoreAt, LoopAt, Numbering, Deleting, Delivering, Looping

LEMMA InDelete ==
  ASSUME NEW t \in Tasks, pc'[t] \in Deleting, DeleteAt(t)'
  PROVE  InCall(t)'
BY DEF InCall, WriteAt, RestoreAt, LoopAt, Numbering, Deleting, Delivering, Looping

LEMMA InRestore ==
  ASSUME NEW t \in Tasks, pc'[t] \in Delivering, RestoreAt(t)'
  PROVE  InCall(t)'
BY DEF InCall, WriteAt, DeleteAt, LoopAt, Numbering, Deleting, Delivering, Looping

LEMMA InLoop ==
  ASSUME NEW t \in Tasks, pc'[t] \in Looping, LoopAt(t)'
  PROVE  InCall(t)'
BY DEF InCall, WriteAt, DeleteAt, RestoreAt, Numbering, Deleting, Delivering, Looping

\* A step of t leaves the others where they are, and nothing behind when it returns.
LEMMA AdvanceFrame ==
  ASSUME NEW t \in Tasks, TypeOK, Alone, Advance(t)
  PROVE  /\ pc[t] # "idle" /\ calls' = calls
         /\ pc'[t] = "idle" => ask'[t] = Nil /\ dent'[t] = "none"
         /\ \A u \in Tasks \ {t} :
              pc'[u] = "idle" /\ pc[u] = "idle" /\ ask'[u] = Nil /\ dent'[u] = "none"
<1> DEFINE Framed ==
             /\ pc[t] # "idle" /\ calls' = calls
             /\ pc'[t] = "idle" => ask'[t] = Nil /\ dent'[t] = "none"
             /\ \A u \in Tasks \ {t} : pc'[u] = pc[u] /\ ask'[u] = ask[u]
                                       /\ (dent[u] = "none" => dent'[u] = "none")
<1> USE DEF disk, cache, attrs, locals, Go, TypeOK
<1>1. ASSUME NotUnlinked(t), pc[t] # "idle" PROVE Framed
  BY <1>1 DEF NotUnlinked, Return, Forgotten
<1>2. ASSUME NEW step \in Steps \ {"idle"}, Unlinked(t, step), pc[t] # "idle" PROVE Framed
  BY <1>2 DEF Unlinked, Turn
<1>3. ASSUME TakeNumber(t) PROVE Framed
  BY <1>3 DEF TakeNumber
<1>4. ASSUME SetRevision(t) PROVE Framed
  BY <1>4 DEF SetRevision
<1>5. ASSUME SetYoungest(t) PROVE Framed
  BY <1>5 DEF SetYoungest, SetsYoungest
<1>6. ASSUME FindOutdated(t) PROVE Framed
  BY <1>6 DEF FindOutdated, Hold
<1>7. ASSUME LookupNew(t) PROVE Framed
  BY <1>7 DEF LookupNew, Hold
<1>8. ASSUME CreateNew(t) PROVE Framed
  BY <1>8 DEF CreateNew, StillNegative, Refused, Turn, Return, Forgotten
<1>9. ASSUME Copy(t) PROVE Framed
  BY <1>9 DEF Copy
<1>10. ASSUME LowerWrite(t) PROVE Framed
  BY <1>10 DEF LowerWrite, Return, Forgotten
<1>11. ASSUME FindVersion(t) PROVE Framed
  BY <1>11 DEF FindVersion, Return, Forgotten, Hold
<1>12. ASSUME CompareYoungest(t) PROVE Framed
  BY <1>12 DEF CompareYoungest, Return, Forgotten
<1>13. ASSUME LowerRevision(t) PROVE Framed
  BY <1>13 DEF LowerRevision
<1>14. ASSUME LowerYoungest(t) PROVE Framed
  BY <1>14 DEF LowerYoungest, Return, Forgotten
<1>15. ASSUME CountVersions(t) PROVE Framed
  BY <1>15 DEF CountVersions
<1>16. ASSUME FindNext(t) PROVE Framed
  BY <1>16 DEF FindNext, Return, Forgotten, Hold
<1>17. ASSUME ResetRevision(t) PROVE Framed
  BY <1>17 DEF ResetRevision, Return, Forgotten
<1>18. ASSUME FindFile(t) PROVE Framed
  BY <1>18 DEF FindFile
<1>19. ASSUME UnlinkFile(t) PROVE Framed
  BY <1>19 DEF UnlinkFile, Return, Forgotten
<1>20. ASSUME CreateRestored(t) PROVE Framed
  BY <1>20 DEF CreateRestored, Return, Forgotten
<1>21. ASSUME FillRestored(t) PROVE Framed
  BY <1>21 DEF FillRestored, Return, Forgotten
<1>22. ASSUME Expire(t) PROVE Framed
  BY <1>22, <1>1, <1>2 DEF Expire, Steps
<1>23. ASSUME UnlinkVersion(t) PROVE Framed
  BY <1>23, <1>1, <1>2 DEF UnlinkVersion, Steps
<1>24. ASSUME PurgeNext(t) PROVE Framed
  BY <1>24, <1>1, <1>2 DEF PurgeNext, Steps
<1>25. Framed
  BY <1>3, <1>4, <1>5, <1>6, <1>7, <1>8, <1>9, <1>10, <1>11, <1>12, <1>13, <1>14, <1>15, <1>16, <1>17, <1>18, <1>19, <1>20, <1>21, <1>22, <1>23, <1>24
     DEF Advance
<1>26. \A u \in Tasks \ {t} : pc[u] = "idle" /\ ask[u] = Nil /\ dent[u] = "none"
  BY <1>25 DEF Alone
<1> QED BY <1>25, <1>26

\* No call takes the inode away.
LEMMA FileStays ==
  ASSUME NEW t \in Tasks, Advance(t), file # "none"
  PROVE  file' # "none"
<1> USE DEF disk, attrs
<1>1. CASE \/ TakeNumber(t) \/ SetRevision(t) \/ SetYoungest(t)
           \/ FindOutdated(t) \/ LookupNew(t) \/ Copy(t) \/ LowerWrite(t)
           \/ CompareYoungest(t) \/ LowerRevision(t) \/ LowerYoungest(t)
           \/ CountVersions(t) \/ FindNext(t) \/ ResetRevision(t)
           \/ FindFile(t) \/ CreateRestored(t) \/ FillRestored(t)
           \/ FindVersion(t) \/ CreateNew(t) \/ UnlinkFile(t)
  BY <1>1 DEF TakeNumber, SetRevision, SetYoungest, FindOutdated, LookupNew, Copy,
              LowerWrite, CompareYoungest, LowerRevision, LowerYoungest,
              CountVersions, FindNext, ResetRevision, FindFile, CreateRestored,
              FillRestored, FindVersion, CreateNew, UnlinkFile
<1>2. CASE Expire(t) \/ UnlinkVersion(t) \/ PurgeNext(t)
  BY <1>2 DEF Expire, UnlinkVersion, PurgeNext, Unlinked, NotUnlinked
<1> QED BY <1>1, <1>2 DEF Advance

\* So it is enough to look at t.
LEMMA AdvanceKeeps ==
  ASSUME NEW t \in Tasks, TypeOK, TypeOK', SInv, Advance(t), Follows(t),
         pc'[t] # "idle" => file' # "none" /\ InCall(t)',
         Bounded'
  PROVE  SInv'
<1> USE AdvanceFrame DEF SInv
<1>1. \A u \in Tasks \ {t} : pc'[u] = "idle" /\ pc[u] = "idle"
  OBVIOUS
<1>2. \A u \in Tasks : InCall(u)'
  BY <1>1, IdleIsFree
<1>3. ~late /\ ~late' /\ shown.file # "none"
  BY DEF Alone, Follows
<1>4. Alone'
  BY <1>1, <1>3 DEF Alone, Follows
<1>5. Shown'
  <2>1. CASE pc'[t] = "idle"
    BY <2>1, <1>3 DEF Follows, Shows, Shown, Kept, SameAttrs, SameStore
  <2>2. CASE pc'[t] # "idle"
    BY <2>2, <1>3 DEF Shown, AtRest
  <2> QED BY <2>1, <2>2
<1>6. ShownTyped'
  <2>1. CASE pc'[t] = "idle"
    BY <2>1 DEF Follows, Shows, ShownTyped, TypeOK
  <2>2. CASE pc'[t] # "idle"
    BY <2>2 DEF Follows, ShownTyped
  <2> QED BY <2>1, <2>2
<1>7. Bare'
  BY FileStays DEF Alone, Bare
<1> QED BY <1>2, <1>4, <1>5, <1>6, <1>7

-----------------------------------------------------------------------------
(* The steps of a write.                                                       *)

\* What a step of t has to show.
Fits(t) == (pc'[t] # "idle" => file' # "none" /\ InCall(t)') /\ Bounded'

\* The bounds, when only t moves.
LEMMA BoundedByStep ==
  ASSUME NEW t \in Tasks, TypeOK, TypeOK', SInv, Advance(t), text' <= calls,
         rev' # Nil => rev' <= Highest, young' # Nil => young' <= Highest,
         pc'[t] \in Numbering => pc[t] \in Numbering \cup {"number"}
                                /\ text' = text /\ val'[t] <= Highest,
         pc'[t] # "number"
  PROVE  Bounded'
<1>1. calls' = calls /\ Highest' = Highest
  BY AdvanceFrame DEF SInv, Highest
<1>2. \A u \in Tasks \ {t} : pc'[u] = "idle"
  BY AdvanceFrame DEF SInv
<1>3. pc'[t] \in Numbering => text' < calls
  BY DEF SInv, Bounded
<1> QED BY <1>1, <1>2, <1>3 DEF Bounded, Numbering

\* Where nothing is outdated, retention takes nothing.
LEMMA NothingExpired ==
  ASSUME NEW v, Store!Expired(v) = {}, shown.saved \in [DOMAIN shown.saved -> Int]
  PROVE  Rest(v) = shown.saved /\ RestWarm(v) = shown.warm
BY DEF Rest, RestWarm, Store!Without

LEMMA TakeNumberFits ==
  ASSUME NEW t \in Tasks, IInv, TypeOK', SInv, Follows(t), TakeNumber(t)
  PROVE  Fits(t)
<1> USE TasksAssumption, SerialAssumption DEF disk, cache, attrs, locals, Go
<1>1. pc[t] = "number" /\ pc'[t] = "setrev" /\ Advance(t)
  BY DEF TakeNumber, Advance, IInv, TypeOK
<1>2. WriteAt(t)
  BY DEF SInv, InCall
<1>3. PICK v \in Fetched(rev) : val' = [val EXCEPT ![t] = NextVersion(v)]
  BY DEF TakeNumber
<1>4. val'[t] = NextVersion(v) /\ v \in Int /\ v < IntMax /\ NextVersion(v) <= Highest
  <2>1. CASE rev = Nil
    <3>1. v \in StackInts
      BY <1>3, <2>1 DEF Fetched
    <3> QED BY <1>1, <1>3, <3>1 DEF IInv, TypeOK, NextVersion, Highest, SInv, Bounded
  <2>2. CASE rev # Nil
    <3>1. v = rev /\ v < Highest
      BY <1>1, <1>3, <2>2 DEF Fetched, SInv, Bounded
    <3> QED BY <1>3, <3>1, <2>2 DEF IInv, TypeOK, NextVersion, Highest
  <2> QED BY <2>1, <2>2
<1>5. Taken(t)'
  <2>1. asked'.out = <<val'[t]>> /\ shown' = shown
    BY <1>1, <1>2 DEF WriteAt, Follows
  <2>2. v \in Fetched(shown.rev)
    BY <1>1, <1>2, <1>3 DEF WriteAt, SameAttrs
  <2> QED BY <1>4, <2>1, <2>2 DEF Taken, Fetched
<1>6. WriteAt(t)'
  BY <1>1, <1>2, <1>5 DEF TakeNumber, WriteAt, Follows, Kept, SameAttrs, SameStore, Numbering
<1>7. Bounded'
  BY <1>1, <1>4, BoundedByStep DEF TakeNumber, SInv, Bounded, IInv, Numbering
<1> QED BY <1>1, <1>6, <1>7, InWrite DEF Fits, SInv, Alone, TakeNumber, Numbering

LEMMA SetRevisionFits ==
  ASSUME NEW t \in Tasks, IInv, TypeOK', SInv, Follows(t), SetRevision(t)
  PROVE  Fits(t)
<1> USE TasksAssumption, SerialAssumption DEF disk, cache, attrs, locals, Go
<1>1. pc[t] = "setrev" /\ pc'[t] = "setyoung" /\ Advance(t)
  BY DEF SetRevision, Advance, IInv, TypeOK
<1>2. WriteAt(t) /\ val[t] \in Nat \ {0} /\ val[t] <= Highest
  BY <1>1 DEF SInv, InCall, Bounded, IInv, Numbered, Numbering
<1>3. /\ shown' = shown /\ asked' = asked /\ val' = val /\ text' = text
      /\ file' = file /\ restored' = restored
  BY <1>1 DEF SetRevision, Follows
<1>4. /\ asked'.op = "write" /\ Kept' /\ Taken(t)'
      /\ \A v : Rest(v)' = Rest(v) /\ RestWarm(v)' = RestWarm(v)
  BY <1>1, <1>2, <1>3 DEF WriteAt, Kept, Taken, Fetched, Rest, RestWarm, Numbering,
     Store!Without, Store!Expired, Store!Outdated
<1>5. rev' = val[t] /\ young' = young /\ young = shown.young /\ SameStore
  BY <1>1, <1>2 DEF SetRevision, WriteAt, SameAttrs, Numbering
<1>6. SameStore'
  BY <1>3, <1>5 DEF SetRevision, SameStore
<1>8. WriteAt(t)'
  BY <1>1, <1>2, <1>3, <1>4, <1>5, <1>6 DEF WriteAt, Numbering
<1>9. Bounded'
  BY <1>1, <1>2, <1>3, BoundedByStep DEF SetRevision, SInv, Bounded, IInv, Numbering
<1> QED BY <1>1, <1>3, <1>8, <1>9, InWrite DEF Fits, SInv, Alone, Numbering

LEMMA SetYoungestFits ==
  ASSUME NEW t \in Tasks, IInv, TypeOK', SInv, Follows(t), SetYoungest(t)
  PROVE  Fits(t)
<1> USE TasksAssumption, SerialAssumption DEF disk, cache, attrs, locals, Go
<1>1. pc[t] = "setyoung" /\ pc'[t] \in {"outdated", "lookup"} /\ Advance(t)
  BY DEF SetYoungest, Advance, IInv, TypeOK, SetsYoungest
<1>2. WriteAt(t) /\ val[t] \in Nat \ {0} /\ val[t] <= Highest
  BY <1>1 DEF SInv, InCall, Bounded, IInv, Numbered, Numbering
<1>3. /\ shown' = shown /\ asked' = asked /\ val' = val /\ text' = text
      /\ file' = file /\ restored' = restored
  BY <1>1 DEF SetYoungest, Follows, SetsYoungest
<1>4. /\ asked'.op = "write" /\ Kept' /\ Taken(t)'
      /\ \A v : Rest(v)' = Rest(v) /\ RestWarm(v)' = RestWarm(v)
  BY <1>1, <1>2, <1>3 DEF WriteAt, Kept, Taken, Fetched, Rest, RestWarm, Numbering,
     Store!Without, Store!Expired, Store!Outdated
<1>5. /\ rev' = val[t] /\ young' = val[t] /\ SameStore /\ SameStore'
      /\ saved' = saved /\ warm' = warm /\ negative' = negative
  BY <1>1, <1>2, <1>3 DEF SetYoungest, SetsYoungest, WriteAt, SameStore, Numbering
<1>6. pc'[t] = "outdated" => val[t] > N
  BY <1>1 DEF SetYoungest, IInv, TypeOK
<1>7. pc'[t] = "lookup" => /\ Store!Outdated(val[t]) = {}
                           /\ Rest(val[t]) = saved /\ RestWarm(val[t]) = warm
  <2>1. pc'[t] = "lookup" => ~(val[t] > N)
    BY <1>1 DEF SetYoungest, IInv, TypeOK
  <2>2. ~(val[t] > N) => Store!Outdated(val[t]) = {}
    BY DEF Store!Outdated
  <2>3. Store!Outdated(val[t]) = {} => Rest(val[t]) = saved /\ RestWarm(val[t]) = warm
    BY <1>5, NothingExpired DEF SameStore, IInv, TypeOK, Broken, Store!Expired
  <2> QED BY <2>1, <2>2, <2>3
<1>8. WriteAt(t)'
  BY <1>1, <1>2, <1>3, <1>4, <1>5, <1>6, <1>7 DEF WriteAt, Numbering, SameStore, Store!Outdated
<1>9. Bounded'
  BY <1>1, <1>2, <1>3, BoundedByStep DEF SetYoungest, SInv, Bounded, IInv, Numbering, SetsYoungest
<1> QED BY <1>1, <1>3, <1>8, <1>9, InWrite DEF Fits, SInv, Alone, Numbering

LEMMA FindOutdatedFits ==
  ASSUME NEW t \in Tasks, IInv, TypeOK', SInv, Follows(t), FindOutdated(t)
  PROVE  Fits(t)
<1> USE TasksAssumption, SerialAssumption DEF disk, cache, attrs, locals, Go
<1>1. pc[t] = "outdated" /\ pc'[t] \in {"expire", "lookup"} /\ Advance(t)
  BY DEF FindOutdated, Advance, IInv, TypeOK, Hold, Cached
<1>2. WriteAt(t) /\ val[t] \in Nat \ {0} /\ val[t] <= Highest
  BY <1>1 DEF SInv, InCall, Bounded, IInv, Numbered, Numbering
<1>3. /\ shown' = shown /\ asked' = asked /\ val' = val /\ text' = text
      /\ file' = file /\ restored' = restored
  BY <1>1 DEF FindOutdated, Follows, Hold, Cached
<1>4. /\ asked'.op = "write" /\ Kept' /\ Taken(t)'
      /\ \A v : Rest(v)' = Rest(v) /\ RestWarm(v)' = RestWarm(v)
  BY <1>1, <1>2, <1>3 DEF WriteAt, Kept, Taken, Fetched, Rest, RestWarm, Numbering,
     Store!Without, Store!Expired, Store!Outdated
<1>5. /\ rev' = rev /\ young' = young /\ rev = val[t] /\ young = val[t]
      /\ SameStore /\ SameStore' /\ val[t] > N
      /\ saved' = saved /\ warm' = warm /\ negative' = negative
  BY <1>1, <1>2, <1>3 DEF FindOutdated, WriteAt, SameStore, Numbering
<1>6. pc'[t] = "expire" => on'[t] = val[t] - N /\ dent'[t] \in {"there", "missing"}
  BY <1>1 DEF FindOutdated, Hold, Cached, IInv, TypeOK
<1>7. pc'[t] = "lookup" => /\ Store!Outdated(val[t]) \cap shown.negative = {}
                           /\ Rest(val[t]) = saved /\ RestWarm(val[t]) = warm
  <2>1. pc'[t] = "lookup" => val[t] - N \notin warm \cup negative
    BY <1>1 DEF FindOutdated, Cached, IInv, TypeOK
  <2>2. Store!Outdated(val[t]) = {val[t] - N}
    BY <1>5 DEF Store!Outdated
  <2>3. Store!Outdated(val[t]) \cap shown.warm = {} => Rest(val[t]) = saved /\ RestWarm(val[t]) = warm
    BY <1>5, NothingExpired DEF SameStore, IInv, TypeOK, Broken, Store!Expired
  <2> QED BY <1>5, <2>1, <2>2, <2>3 DEF SameStore
<1>8. WriteAt(t)'
  BY <1>1, <1>2, <1>3, <1>4, <1>5, <1>6, <1>7 DEF WriteAt, Numbering, SameStore, Store!Outdated
<1>9. Bounded'
  BY <1>1, <1>2, <1>3, BoundedByStep DEF FindOutdated, SInv, Bounded, IInv, Numbering, Hold, Cached
<1> QED BY <1>1, <1>3, <1>8, <1>9, InWrite DEF Fits, SInv, Alone, Numbering

LEMMA LookupNewFits ==
  ASSUME NEW t \in Tasks, IInv, TypeOK', SInv, Follows(t), LookupNew(t)
  PROVE  Fits(t)
<1> USE TasksAssumption, SerialAssumption DEF disk, cache, attrs, locals, Go
<1>1. pc[t] = "lookup" /\ pc'[t] = "create" /\ Advance(t)
  BY DEF LookupNew, Advance, IInv, TypeOK, Hold
<1>2. WriteAt(t) /\ val[t] \in Nat \ {0} /\ val[t] <= Highest
  BY <1>1 DEF SInv, InCall, Bounded, IInv, Numbered, Numbering
<1>3. /\ shown' = shown /\ asked' = asked /\ val' = val /\ text' = text
      /\ file' = file /\ restored' = restored
  BY <1>1 DEF LookupNew, Follows, Hold
<1>4. /\ asked'.op = "write" /\ Kept' /\ Taken(t)'
      /\ \A v : Rest(v)' = Rest(v) /\ RestWarm(v)' = RestWarm(v)
  BY <1>1, <1>2, <1>3 DEF WriteAt, Kept, Taken, Fetched, Rest, RestWarm, Numbering,
     Store!Without, Store!Expired, Store!Outdated
<1>5. /\ rev' = rev /\ young' = young /\ rev = val[t] /\ young = val[t]
      /\ saved' = saved /\ saved = Rest(val[t]) /\ warm = RestWarm(val[t])
      /\ negative = shown.negative
      /\ Store!Outdated(val[t]) \cap shown.negative = {}
  BY <1>1, <1>2, <1>3 DEF LookupNew, WriteAt, Numbering
<1>6. val[t] \in DOMAIN saved <=> val[t] \in DOMAIN shown.saved
  BY <1>2, <1>5 DEF Rest, Store!Without, Store!Expired, Store!Outdated
<1>7. IF val[t] \in DOMAIN shown.saved
      THEN warm' = warm \cup {val[t]} /\ negative' = negative /\ dent'[t] = "there"
      ELSE negative' = negative \cup {val[t]} /\ warm' = warm /\ dent'[t] = "missing"
  BY <1>6 DEF LookupNew, Hold, IInv, TypeOK
<1>8. WriteAt(t)'
  BY <1>1, <1>2, <1>3, <1>4, <1>5, <1>6, <1>7 DEF WriteAt, Numbering, Store!Outdated
<1>9. Bounded'
  BY <1>1, <1>2, <1>3, BoundedByStep DEF LookupNew, SInv, Bounded, IInv, Numbering, Hold
<1> QED BY <1>1, <1>3, <1>8, <1>9, InWrite DEF Fits, SInv, Alone, Numbering

LEMMA CopyFits ==
  ASSUME NEW t \in Tasks, IInv, TypeOK', SInv, Follows(t), Copy(t)
  PROVE  Fits(t)
<1> USE TasksAssumption, SerialAssumption DEF disk, cache, attrs, locals, Go
<1>1. pc[t] = "copy" /\ pc'[t] = "write" /\ Advance(t)
  BY DEF Copy, Advance, IInv, TypeOK, Fills
<1>2. WriteAt(t) /\ val[t] \in Nat \ {0} /\ val[t] <= Highest
  BY <1>1 DEF SInv, InCall, Bounded, IInv, Numbered, Numbering
<1>3. /\ shown' = shown /\ asked' = asked /\ val' = val /\ text' = text
      /\ file' = file /\ restored' = restored
  BY <1>1 DEF Copy, Follows, Fills
<1>4. /\ asked'.op = "write" /\ Kept' /\ Taken(t)'
      /\ \A v : Rest(v)' = Rest(v) /\ RestWarm(v)' = RestWarm(v)
  BY <1>1, <1>2, <1>3 DEF WriteAt, Kept, Taken, Fetched, Rest, RestWarm, Numbering,
     Store!Without, Store!Expired, Store!Outdated
<1>5. /\ rev' = rev /\ young' = young /\ rev = val[t] /\ young = val[t]
      /\ warm' = warm /\ negative' = negative /\ dent' = dent /\ dent[t] = "there"
      /\ val[t] \notin DOMAIN shown.saved
      /\ warm = RestWarm(val[t]) \cup {val[t]} /\ negative = shown.negative \ {val[t]}
      /\ Store!Outdated(val[t]) \cap shown.negative = {}
      /\ saved = Store!Put(Rest(val[t]), val[t], Broken)
      /\ saved' = [saved EXCEPT ![val[t]] = text]
  BY <1>1, <1>2, <1>3 DEF Copy, Fills, WriteAt, Numbering
<1>6. saved' = Store!Put(Rest(val[t]), val[t], text)
  BY <1>5 DEF Store!Put
<1>8. WriteAt(t)'
  BY <1>1, <1>2, <1>3, <1>4, <1>5, <1>6 DEF WriteAt, Numbering, Store!Outdated
<1>9. Bounded'
  BY <1>1, <1>2, <1>3, BoundedByStep DEF Copy, SInv, Bounded, IInv, Numbering, Fills
<1> QED BY <1>1, <1>3, <1>8, <1>9, InWrite DEF Fits, SInv, Alone, Numbering

\* A step that unlinks the dentry of t.
LEMMA UnlinkedDoes ==
  ASSUME NEW t \in Tasks, NEW step, TypeOK, Unlinked(t, step)
  PROVE  /\ on[t] \in warm /\ on[t] \in DOMAIN saved /\ on[t] \notin negative
         /\ saved' = Store!Without(saved, {on[t]}) /\ warm' = warm \ {on[t]}
         /\ negative' = negative
         /\ pc'[t] = step /\ dent'[t] = "unlinked" /\ on' = on /\ ask' = ask
         /\ file' = file /\ text' = text /\ restored' = restored
         /\ rev' = rev /\ young' = young /\ calls' = calls
BY DEF Unlinked, Turn, Go, TypeOK, attrs, Store!Without

LEMMA NotUnlinkedDoes ==
  ASSUME NEW t \in Tasks, TypeOK, NotUnlinked(t)
  PROVE  /\ pc'[t] = "idle" /\ result'[t] = "ENOENT" /\ dent[t] # "there"
         /\ UNCHANGED <<disk, cache, calls>>
BY DEF NotUnlinked, Return, Go, TypeOK

\* A step that returns has the bounds to keep only.
LEMMA ReturnFits ==
  ASSUME NEW t \in Tasks, IInv, TypeOK', SInv, Advance(t), pc'[t] = "idle",
         text' <= calls,
         rev' = rev \/ rev' <= Highest, young' = young \/ young' <= Highest
  PROVE  Fits(t)
<1>1. /\ rev' # Nil => rev' <= Highest
      /\ young' # Nil => young' <= Highest
  BY DEF SInv, Bounded
<1>2. Bounded'
  BY <1>1, BoundedByStep DEF IInv, Numbering
<1> QED BY <1>2 DEF Fits

\* The text is behind the calls.
LEMMA TextBounded ==
  ASSUME SInv, text' = text
  PROVE  text' <= calls
BY DEF SInv, Bounded

LEMMA ExpireFits ==
  ASSUME NEW t \in Tasks, IInv, TypeOK', SInv, Follows(t), Expire(t)
  PROVE  Fits(t)
<1> USE TasksAssumption, SerialAssumption
<1>1. pc[t] = "expire" /\ Advance(t) /\ TypeOK
  BY DEF Expire, Advance, IInv
<1>2. CASE NotUnlinked(t)
  BY <1>1, <1>2, NotUnlinkedDoes, ReturnFits, TextBounded DEF disk, attrs
<1>3. CASE Unlinked(t, "lookup") /\ UNCHANGED val
  <2>1. WriteAt(t) /\ val[t] \in Nat \ {0} /\ val[t] <= Highest
    BY <1>1 DEF SInv, InCall, Bounded, IInv, Numbered, Numbering
  <2>2. /\ on[t] \in warm /\ on[t] \in DOMAIN saved /\ on[t] \notin negative
        /\ saved' = Store!Without(saved, {on[t]}) /\ warm' = warm \ {on[t]}
        /\ negative' = negative /\ pc'[t] = "lookup"
        /\ file' = file /\ text' = text /\ restored' = restored
        /\ rev' = rev /\ young' = young /\ calls' = calls /\ val' = val
    BY <1>1, <1>3, UnlinkedDoes
  <2>3. shown' = shown /\ asked' = asked
    BY <1>1, <2>2 DEF Follows
  <2>4. /\ asked.op = "write" /\ Kept /\ Taken(t) /\ SameStore
        /\ rev = val[t] /\ young = val[t] /\ val[t] > N /\ on[t] = val[t] - N
    BY <1>1, <2>1 DEF WriteAt, Numbering
  <2>5. Store!Outdated(val[t]) = {on[t]} /\ Store!Expired(val[t]) = {on[t]}
    BY <2>2, <2>4 DEF Store!Outdated, Store!Expired, SameStore
  <2>6. saved' = Rest(val[t]) /\ warm' = RestWarm(val[t])
    BY <2>2, <2>4, <2>5 DEF Rest, RestWarm, SameStore
  <2>7. /\ asked'.op = "write" /\ Kept' /\ Taken(t)'
        /\ Rest(val[t])' = Rest(val[t]) /\ RestWarm(val[t])' = RestWarm(val[t])
    BY <2>2, <2>3, <2>4 DEF Kept, Taken, Fetched, Rest, RestWarm,
       Store!Without, Store!Expired, Store!Outdated
  <2>8. Store!Outdated(val[t]) \cap shown.negative = {}
    BY <2>2, <2>4, <2>5 DEF SameStore
  <2>9. WriteAt(t)'
    BY <2>2, <2>3, <2>4, <2>6, <2>7, <2>8
       DEF WriteAt, SameStore, Numbering, Store!Outdated
  <2>10. Bounded'
    BY <1>1, <2>1, <2>2, BoundedByStep DEF SInv, Bounded, IInv, Numbering
  <2> QED BY <1>1, <2>2, <2>9, <2>10, InWrite DEF Fits, SInv, Alone, Numbering
<1> QED BY <1>2, <1>3 DEF Expire

LEMMA CreateNewFits ==
  ASSUME NEW t \in Tasks, IInv, TypeOK', SInv, Follows(t), CreateNew(t)
  PROVE  Fits(t)
<1> USE TasksAssumption, SerialAssumption
<1>1. pc[t] = "create" /\ Advance(t) /\ TypeOK
  BY DEF CreateNew, Advance, IInv
<1>2. CASE ~StillNegative(t)
  <2>1. pc'[t] = "idle" /\ UNCHANGED <<disk, cache, calls>>
    BY <1>1, <1>2 DEF CreateNew, Refused, Return, Go, TypeOK
  <2> QED BY <1>1, <2>1, ReturnFits, TextBounded DEF disk, attrs
<1>3. CASE StillNegative(t)
  <2>1. WriteAt(t) /\ val[t] \in Nat \ {0} /\ val[t] <= Highest /\ on[t] = val[t]
    BY <1>1 DEF SInv, InCall, Bounded, IInv, Numbered, Numbering, Writers, HoldsNew
  <2>2. /\ dent[t] = "missing" /\ saved' = Store!Put(saved, val[t], Broken)
        /\ warm' = warm \cup {val[t]} /\ negative' = negative \ {val[t]}
        /\ pc'[t] = "copy"
        /\ file' = file /\ text' = text /\ restored' = restored
        /\ rev' = rev /\ young' = young /\ calls' = calls /\ val' = val
    BY <1>1, <1>3 DEF CreateNew, StillNegative, Go, TypeOK, attrs, Store!Put
  <2>3. shown' = shown /\ asked' = asked
    BY <1>1, <2>2 DEF Follows
  <2>4. dent'[t] = "there"
    BY <1>1, <1>3, <2>1 DEF CreateNew, StillNegative, Turn
  <2>5. /\ asked.op = "write" /\ Kept /\ Taken(t)
        /\ rev = val[t] /\ young = val[t] /\ saved = Rest(val[t])
        /\ val[t] \notin DOMAIN shown.saved
        /\ warm = RestWarm(val[t]) /\ negative = shown.negative \cup {val[t]}
        /\ Store!Outdated(val[t]) \cap shown.negative = {}
    BY <1>1, <2>1, <2>2 DEF WriteAt, Numbering
  <2>6. /\ asked'.op = "write" /\ Kept' /\ Taken(t)'
        /\ Rest(val[t])' = Rest(val[t]) /\ RestWarm(val[t])' = RestWarm(val[t])
    BY <2>2, <2>3, <2>5 DEF Kept, Taken, Fetched, Rest, RestWarm,
       Store!Without, Store!Expired, Store!Outdated
  <2>7. val[t] \notin shown.negative => negative' = shown.negative \ {val[t]}
    BY <2>2, <2>5
  <2>8. negative' = shown.negative \ {val[t]}
    BY <2>2, <2>5
  <2>9. WriteAt(t)'
    BY <2>2, <2>3, <2>4, <2>5, <2>6, <2>8 DEF WriteAt, Numbering, Store!Outdated
  <2>10. Bounded'
    BY <1>1, <2>1, <2>2, BoundedByStep DEF SInv, Bounded, IInv, Numbering
  <2> QED BY <1>1, <2>2, <2>9, <2>10, InWrite DEF Fits, SInv, Alone, Numbering
<1> QED BY <1>2, <1>3

LEMMA LowerWriteFits ==
  ASSUME NEW t \in Tasks, IInv, TypeOK', SInv, Follows(t), LowerWrite(t)
  PROVE  Fits(t)
<1>1. pc[t] = "write" /\ pc'[t] = "idle" /\ Advance(t)
  BY DEF LowerWrite, Return, Go, Advance, IInv, TypeOK
<1>2. text' <= calls
  BY <1>1 DEF LowerWrite, SInv, Bounded, Numbering, IInv, TypeOK
<1> QED BY <1>1, <1>2, ReturnFits DEF LowerWrite, attrs

-----------------------------------------------------------------------------
(* The steps of a delete.                                                      *)
LEMMA FindVersionFits ==
  ASSUME NEW t \in Tasks, IInv, TypeOK', SInv, Follows(t), FindVersion(t)
  PROVE  Fits(t)
<1>1. /\ pc[t] = "find" /\ Advance(t) /\ TypeOK
      /\ UNCHANGED <<disk, cache, calls>>
  BY DEF FindVersion, Advance, IInv
<1>2. CASE Cached(val[t]) = "none"
  <2>1. pc'[t] = "idle"
    BY <1>1, <1>2 DEF FindVersion, Return, Go, TypeOK
  <2> QED BY <1>1, <2>1, ReturnFits, TextBounded DEF disk, attrs
<1>3. CASE Cached(val[t]) # "none"
  <2>1. /\ pc'[t] = "unlink" /\ on'[t] = val[t] /\ val' = val
        /\ dent'[t] \in {"there", "missing"}
    BY <1>1, <1>3 DEF FindVersion, Go, TypeOK, Hold, Cached
  <2>2. shown' = shown /\ asked' = asked
    BY <1>1, <2>1 DEF Follows
  <2>3. DeleteAt(t)
    BY DEF SInv, InCall
  <2>4. DeleteAt(t)'
    BY <1>1, <2>1, <2>2, <2>3
       DEF DeleteAt, Deleting, Kept, SameStore, disk, attrs, cache
  <2>5. Bounded'
    BY <1>1, <2>1, TextBounded, BoundedByStep DEF SInv, Bounded, IInv, Numbering, disk, attrs
  <2> QED BY <1>1, <2>1, <2>4, <2>5, InDelete DEF Fits, SInv, Alone, Deleting, disk
<1> QED BY <1>2, <1>3

LEMMA UnlinkVersionFits ==
  ASSUME NEW t \in Tasks, IInv, TypeOK', SInv, Follows(t), UnlinkVersion(t)
  PROVE  Fits(t)
<1>1. pc[t] = "unlink" /\ Advance(t) /\ TypeOK
  BY DEF UnlinkVersion, Advance, IInv
<1>2. CASE NotUnlinked(t)
  BY <1>1, <1>2, NotUnlinkedDoes, ReturnFits, TextBounded DEF disk, attrs
<1>3. CASE Unlinked(t, "compare") /\ UNCHANGED val
  <2>1. /\ on[t] \in warm
        /\ saved' = Store!Without(saved, {on[t]}) /\ warm' = warm \ {on[t]}
        /\ negative' = negative /\ pc'[t] = "compare"
        /\ file' = file /\ text' = text /\ restored' = restored
        /\ rev' = rev /\ young' = young /\ calls' = calls /\ val' = val
    BY <1>1, <1>3, UnlinkedDoes
  <2>2. shown' = shown /\ asked' = asked
    BY <1>1, <2>1 DEF Follows
  <2>3. DeleteAt(t)
    BY DEF SInv, InCall
  <2>4. /\ asked = [op |-> "delete", out |-> <<val[t]>>]
        /\ val[t] \in Requests /\ Kept /\ young = shown.young /\ rev = shown.rev
        /\ SameStore /\ on[t] = val[t]
    BY <1>1, <2>3 DEF DeleteAt, Deleting
  <2>5. /\ val[t] \in shown.warm /\ warm' = shown.warm \ {val[t]}
        /\ saved' = Store!Without(shown.saved, {val[t]})
        /\ negative' = shown.negative
    BY <2>1, <2>4 DEF SameStore
  <2>6. Kept'
    BY <2>1, <2>2, <2>4 DEF Kept
  <2>7. Store!Without(shown.saved, {val[t]})' = Store!Without(shown.saved, {val[t]})
    BY <2>1, <2>2 DEF Store!Without
  <2>8. DeleteAt(t)'
    BY <2>1, <2>2, <2>4, <2>5, <2>6, <2>7 DEF DeleteAt, Deleting
  <2>9. Bounded'
    BY <1>1, <2>1, TextBounded, BoundedByStep DEF SInv, Bounded, IInv, Numbering
  <2> QED BY <1>1, <2>1, <2>8, <2>9, InDelete DEF Fits, SInv, Alone, Deleting
<1> QED BY <1>2, <1>3 DEF UnlinkVersion


LEMMA CompareYoungestFits ==
  ASSUME NEW t \in Tasks, IInv, TypeOK', SInv, Follows(t), CompareYoungest(t)
  PROVE  Fits(t)
<1>1. /\ pc[t] = "compare" /\ Advance(t) /\ TypeOK
      /\ UNCHANGED <<disk, cache, calls>>
  BY DEF CompareYoungest, Advance, IInv
<1>2. CASE pc'[t] = "idle"
  BY <1>1, <1>2, ReturnFits, TextBounded DEF disk, attrs
<1>3. CASE pc'[t] # "idle"
  <2>1. /\ pc'[t] = "lowerrev" /\ val' = val /\ val[t] \in Fetched(young)
    BY <1>1, <1>3 DEF CompareYoungest, Return, Go, TypeOK
  <2>2. shown' = shown /\ asked' = asked
    BY <1>1, <2>1 DEF Follows
  <2>3. DeleteAt(t)
    BY DEF SInv, InCall
  <2>4. DeleteAt(t)'
    BY <1>1, <2>1, <2>2, <2>3
       DEF DeleteAt, Deleting, Kept, Fetched, disk, attrs, cache, Store!Without
  <2>5. Bounded'
    BY <1>1, <2>1, TextBounded, BoundedByStep DEF SInv, Bounded, IInv, Numbering, disk, attrs
  <2> QED BY <1>1, <2>1, <2>4, <2>5, InDelete DEF Fits, SInv, Alone, Deleting, disk
<1> QED BY <1>2, <1>3

\* What is fetched is in the bounds.
LEMMA FetchedBounded ==
  ASSUME IInv, SInv, NEW v \in Fetched(young)
  PROVE  v \in Int /\ v - 1 <= Highest
<1> USE TasksAssumption, SerialAssumption DEF IInv, TypeOK, Highest
<1>1. CASE young = Nil
  BY <1>1 DEF Fetched
<1>2. CASE young # Nil
  BY <1>2 DEF Fetched, SInv, Bounded
<1> QED BY <1>1, <1>2

LEMMA LowerRevisionFits ==
  ASSUME NEW t \in Tasks, IInv, TypeOK', SInv, Follows(t), LowerRevision(t)
  PROVE  Fits(t)
<1>1. pc[t] = "lowerrev" /\ pc'[t] = "loweryoung" /\ Advance(t) /\ TypeOK
  BY DEF LowerRevision, Go, Advance, IInv, TypeOK
<1>2. /\ rev' = val[t] - 1 /\ young' = young /\ val' = val /\ text' = text
      /\ file' = file /\ restored' = restored /\ saved' = saved
      /\ warm' = warm /\ negative' = negative
  BY DEF LowerRevision, cache
<1>3. shown' = shown /\ asked' = asked
  BY <1>1 DEF Follows
<1>4. DeleteAt(t)
  BY DEF SInv, InCall
<1>5. val[t] \in Fetched(young)
  BY <1>1, <1>4 DEF DeleteAt, Deleting
<1>6. DeleteAt(t)'
  BY <1>1, <1>2, <1>3, <1>4
     DEF DeleteAt, Deleting, Kept, Fetched, Store!Without
<1>7. Bounded'
  BY <1>1, <1>2, <1>5, FetchedBounded, TextBounded, BoundedByStep
     DEF SInv, Bounded, IInv, Numbering
<1> QED BY <1>1, <1>2, <1>6, <1>7, InDelete DEF Fits, SInv, Alone, Deleting

LEMMA LowerYoungestFits ==
  ASSUME NEW t \in Tasks, IInv, TypeOK', SInv, Follows(t), LowerYoungest(t)
  PROVE  Fits(t)
<1>1. /\ pc[t] = "loweryoung" /\ pc'[t] = "idle" /\ Advance(t)
      /\ rev' = rev /\ young' = val[t] - 1 /\ text' = text
  BY DEF LowerYoungest, Return, Go, Advance, IInv, TypeOK
<1>2. DeleteAt(t)
  BY DEF SInv, InCall
<1>3. val[t] \in Fetched(young)
  BY <1>1, <1>2 DEF DeleteAt, Deleting
<1> QED BY <1>1, <1>3, FetchedBounded, ReturnFits, TextBounded

-----------------------------------------------------------------------------
(* The loop of delete-all and restore.                                         *)

\* What is removed one after the other.
LEMMA WithoutBoth ==
  ASSUME NEW f, NEW a, NEW b
  PROVE  Store!Without(Store!Without(f, a), b) = Store!Without(f, a \cup b)
BY DEF Store!Without

LEMMA WithoutNone ==
  ASSUME NEW D, NEW R, NEW f \in [D -> R]
  PROVE  Store!Without(f, {}) = f
BY DEF Store!Without

\* A step of the loop from i down to i - 1.
LEMMA GoneGrows ==
  ASSUME NEW S, S \subseteq Int, NEW v \in Int, NEW i \in Int, i <= v
  PROVE  Store!Purged(v, i - 1, S) = Store!Purged(v, i, S) \cup ({i} \cap S)
<1>1. ASSUME NEW j
      PROVE  j \in Store!Purged(v, i - 1, S) <=> j \in Store!Purged(v, i, S) \cup ({i} \cap S)
  <2>1. CASE j \in S
    BY <2>1 DEF Store!Purged
  <2>2. CASE j \notin S
    BY <2>2 DEF Store!Purged
  <2> QED BY <2>1, <2>2
<1> QED BY <1>1

\* What LoopAt says besides where the loop is.
LoopFrame(t) ==
  /\ text = shown.text /\ SameAttrs /\ negative = shown.negative
  /\ ask[t] = Nil => /\ asked = [op |-> "deleteall", out |-> <<>>]
                     /\ file = shown.file /\ restored = shown.restored
  /\ ask[t] # Nil => /\ asked = [op |-> "restore", out |-> <<ask[t]>>]
                     /\ ask[t] \in Requests /\ file = Store!Removed
                     /\ shown.restored = Nil /\ ask[t] \in DOMAIN shown.saved
                     /\ restored = shown.saved[ask[t]]

LEMMA FrameKept ==
  ASSUME NEW t \in Tasks, LoopFrame(t), shown' = shown, asked' = asked,
         text' = text, rev' = rev, young' = young, negative' = negative,
         file' = file, restored' = restored, ask'[t] = ask[t]
  PROVE  LoopFrame(t)' /\ First(t)' = First(t)
BY DEF LoopFrame, First, SameAttrs, Store!Removed


\* What is said of t in the loop, put together again.
LEMMA InLoopAgain ==
  ASSUME NEW t \in Tasks, pc'[t] \in Looping, LoopFrame(t)',
         pc'[t] = "reset" => ask'[t] = Nil /\ val'[t] <= 0,
         pc'[t] = "purge" => /\ val'[t] > 0 /\ on'[t] = val'[t]
                             /\ dent'[t] \in {"there", "missing"},
         pc'[t] = "count" => saved' = shown'.saved /\ warm' = First(t)'
                             /\ dent'[t] = "none",
         pc'[t] # "count" => (\E v \in Fetched(shown.rev) : Purging(t, v))'
  PROVE  InCall(t)'
<1>1. LoopAt(t)'
  BY DEF LoopAt, LoopFrame
<1> QED BY <1>1, InLoop

LEMMA CountVersionsFits ==
  ASSUME NEW t \in Tasks, IInv, TypeOK', SInv, Follows(t), CountVersions(t)
  PROVE  Fits(t)
<1>1. /\ pc[t] = "count" /\ pc'[t] = "loop" /\ Advance(t) /\ TypeOK
      /\ UNCHANGED <<disk, cache, calls>> /\ ask' = ask /\ dent' = dent
  BY DEF CountVersions, Go, Advance, IInv, TypeOK
<1>2. PICK v \in Fetched(rev) : val' = [val EXCEPT ![t] = v]
  BY DEF CountVersions
<1>3. val'[t] = v /\ v \in Int
  BY <1>1, <1>2, TasksAssumption DEF Fetched, TypeOK
<1>4. shown' = shown /\ asked' = asked
  BY <1>1 DEF Follows
<1>5. LoopAt(t) /\ ShownTyped
  BY DEF SInv, InCall
<1>6. LoopFrame(t) /\ saved = shown.saved /\ warm = First(t) /\ dent[t] = "none"
  BY <1>1, <1>5 DEF LoopAt, LoopFrame, Looping
<1>7. LoopFrame(t)' /\ First(t)' = First(t)
  BY <1>1, <1>4, <1>6, FrameKept DEF disk, attrs, cache
<1>8. v \in Fetched(shown'.rev)
  BY <1>2, <1>4, <1>6 DEF LoopFrame, SameAttrs
<1>9. Store!Purged(v, v, First(t)) = {}
  BY <1>1, <1>3, <1>6 DEF Store!Purged, TypeOK
<1>10. Gone(t, v)' = {}
  BY <1>3, <1>7, <1>9 DEF Gone, Store!Purged
<1>11. saved' = Store!Without(shown.saved, {})
  BY <1>1, <1>5, <1>6, WithoutNone DEF ShownTyped, disk
<1>12. Store!Without(shown.saved, {})' = Store!Without(shown.saved, {})
  BY <1>4 DEF Store!Without
<1>13. Purging(t, v)'
  BY <1>1, <1>3, <1>6, <1>7, <1>10, <1>11, <1>12 DEF Purging, cache
<1>14. InCall(t)'
  BY <1>1, <1>7, <1>8, <1>13, InLoopAgain DEF Looping, Fetched
<1>15. Bounded'
  BY <1>1, TextBounded, BoundedByStep DEF SInv, Bounded, IInv, Numbering, disk, attrs
<1> QED BY <1>1, <1>14, <1>15 DEF Fits, SInv, Alone, disk

LEMMA FindNextFits ==
  ASSUME NEW t \in Tasks, IInv, TypeOK', SInv, Follows(t), FindNext(t)
  PROVE  Fits(t)
<1> USE TasksAssumption
<1>1. /\ pc[t] = "loop" /\ Advance(t) /\ TypeOK /\ val[t] \in Int
      /\ UNCHANGED <<disk, cache, calls>>
  BY DEF FindNext, Advance, IInv, TypeOK
<1>2. CASE pc'[t] = "idle"
  BY <1>1, <1>2, ReturnFits, TextBounded DEF disk, attrs
<1>3. CASE pc'[t] # "idle"
  <2>1. shown' = shown /\ asked' = asked
    BY <1>1, <1>3 DEF Follows
  <2>2. LoopAt(t) /\ ShownTyped
    BY DEF SInv, InCall
  <2>3. LoopFrame(t)
    BY <1>1, <2>2 DEF LoopAt, LoopFrame, Looping
  <2>4. PICK v \in Fetched(shown.rev) : Purging(t, v)
    BY <1>1, <2>2 DEF LoopAt, Looping
  <2>5. ask'[t] = ask[t] /\ v \in Int
    BY <1>1, <1>3, <2>2, <2>4 DEF FindNext, Return, Go, Hold, TypeOK, Fetched, ShownTyped
  <2>6. LoopFrame(t)' /\ First(t)' = First(t)
    BY <1>1, <2>1, <2>3, <2>5, FrameKept DEF disk, attrs, cache
  <2>7. First(t) \subseteq Int
    BY <2>2, <2>3 DEF First, ShownTyped, LoopFrame
  <2>9. ASSUME val' = val, pc'[t] = "reset", dent' = dent, val[t] <= 0, ask[t] = Nil
        PROVE  InCall(t)'
    <3>1. Gone(t, v)' = Gone(t, v)
      BY <2>6, <2>9 DEF Gone, Store!Purged
    <3>2. Purging(t, v)'
      BY <1>1, <2>1, <2>4, <2>6, <2>9, <3>1
         DEF Purging, Store!Without, disk, cache
    <3> QED BY <2>1, <2>4, <2>5, <2>6, <2>9, <3>2, InLoopAgain DEF Looping, Fetched
  <2>10. ASSUME pc'[t] = "purge", val' = val, val[t] > 0, on'[t] = val[t],
                dent'[t] \in {"there", "missing"}
         PROVE  InCall(t)'
    <3>1. Gone(t, v)' = Gone(t, v)
      BY <2>6, <2>10 DEF Gone, Store!Purged
    <3>2. Purging(t, v)'
      BY <1>1, <2>1, <2>4, <2>6, <2>10, <3>1
         DEF Purging, Store!Without, disk, cache
    <3> QED BY <2>1, <2>4, <2>5, <2>6, <2>10, <3>2, InLoopAgain DEF Looping, Fetched
  <2>11. ASSUME pc'[t] = "loop", val'[t] = val[t] - 1, val[t] > 0,
                dent' = dent, val[t] \notin warm \cup negative
         PROVE  InCall(t)'
    <3>1. val[t] <= v /\ warm = First(t) \ Gone(t, v)
      BY <2>4 DEF Purging
    <3>2. val[t] \notin First(t)
      BY <1>1, <2>5, <2>7, <2>11, <3>1 DEF Gone, Store!Purged
    <3>3. Store!Purged(v, val[t] - 1, First(t)) = Store!Purged(v, val[t], First(t))
      <4>1. Store!Purged(v, val[t] - 1, First(t))
              = Store!Purged(v, val[t], First(t)) \cup ({val[t]} \cap First(t))
        BY <1>1, <2>5, <2>7, <3>1, GoneGrows
      <4>2. {val[t]} \cap First(t) = {}
        BY <3>2
      <4> QED BY <4>1, <4>2
    <3>4. Gone(t, v)' = Gone(t, v)
      BY <2>6, <2>11, <3>3 DEF Gone, Store!Purged
    <3>5. \A j \in val[t]..v : j \notin shown.negative
      BY <1>1, <2>3, <2>4, <2>5, <2>11 DEF Purging, LoopFrame
    <3>6. val'[t] <= v /\ (v > 0 => val'[t] >= 0) /\ val'[t] + 1 = val[t]
      BY <1>1, <2>5, <2>11, <3>1
    <3>7. /\ saved' = Store!Without(shown.saved, Gone(t, v)) /\ shown' = shown
          /\ warm' = First(t) \ Gone(t, v)
          /\ dent'[t] = "unlinked" <=> Gone(t, v) # {}
      BY <1>1, <2>1, <2>4, <2>11 DEF Purging, disk, cache
    <3>8. Purging(t, v)'
      BY <2>6, <3>4, <3>5, <3>6, <3>7 DEF Purging, Store!Without
    <3> QED BY <2>1, <2>4, <2>5, <2>6, <2>11, <3>8, InLoopAgain DEF Looping, Fetched
  <2>12. InCall(t)'
    BY <1>1, <1>3, <2>9, <2>10, <2>11
       DEF FindNext, Before, Return, Go, Hold, Cached, TypeOK
  <2>13. Bounded'
    BY <1>1, TextBounded, BoundedByStep DEF SInv, Bounded, IInv, Numbering, disk, attrs,
       FindNext, Go, Return, TypeOK
  <2> QED BY <1>1, <2>12, <2>13 DEF Fits, SInv, Alone, disk
<1> QED BY <1>2, <1>3

LEMMA PurgeNextFits ==
  ASSUME NEW t \in Tasks, IInv, TypeOK', SInv, Follows(t), PurgeNext(t)
  PROVE  Fits(t)
<1> USE TasksAssumption
<1>1. pc[t] = "purge" /\ Advance(t) /\ TypeOK /\ val[t] \in Int
  BY DEF PurgeNext, Advance, IInv, TypeOK
<1>2. CASE NotUnlinked(t)
  BY <1>1, <1>2, NotUnlinkedDoes, ReturnFits, TextBounded DEF disk, attrs
<1>3. CASE Unlinked(t, "loop") /\ val' = [val EXCEPT ![t] = Before(val[t])]
  <2>1. /\ on[t] \in warm /\ on[t] \notin negative
        /\ saved' = Store!Without(saved, {on[t]}) /\ warm' = warm \ {on[t]}
        /\ negative' = negative /\ pc'[t] = "loop" /\ dent'[t] = "unlinked"
        /\ ask' = ask /\ file' = file /\ text' = text /\ restored' = restored
        /\ rev' = rev /\ young' = young /\ calls' = calls
    BY <1>1, <1>3, UnlinkedDoes
  <2> val'[t] = val[t] - 1
    BY <1>1, <1>3 DEF Before, TypeOK
  <2>2. shown' = shown /\ asked' = asked
    BY <1>1, <2>1 DEF Follows
  <2>3. LoopAt(t) /\ ShownTyped
    BY DEF SInv, InCall
  <2>4. LoopFrame(t) /\ on[t] = val[t] /\ val[t] > 0
    BY <1>1, <2>3 DEF LoopAt, LoopFrame, Looping
  <2>5. PICK v \in Fetched(shown.rev) : Purging(t, v)
    BY <1>1, <2>3 DEF LoopAt, Looping
  <2>6. v \in Int
    BY <2>3 DEF Fetched, ShownTyped
  <2>7. LoopFrame(t)' /\ First(t)' = First(t)
    BY <2>1, <2>2, <2>4, FrameKept
  <2>8. First(t) \subseteq Int
    BY <2>3, <2>4 DEF First, ShownTyped, LoopFrame
  <2>9. /\ val[t] <= v /\ warm = First(t) \ Gone(t, v)
        /\ saved = Store!Without(shown.saved, Gone(t, v))
    BY <2>5 DEF Purging
  <2>10. val[t] \in First(t)
    BY <2>1, <2>4, <2>9
  <2>11. Store!Purged(v, val[t] - 1, First(t)) = Gone(t, v) \cup {val[t]}
    BY <1>1, <2>6, <2>8, <2>9, <2>10, GoneGrows DEF Gone
  <2>12. Gone(t, v)' = Gone(t, v) \cup {val[t]}
    BY <2>1, <2>7, <2>11 DEF Gone, Store!Purged
  <2>13. /\ saved' = Store!Without(shown.saved, Gone(t, v)')
         /\ warm' = First(t) \ Gone(t, v)'
    BY <2>1, <2>4, <2>9, <2>12, WithoutBoth
  <2>14. \A j \in val[t]..v : j \notin shown.negative
    BY <1>1, <2>1, <2>4, <2>5, <2>6 DEF Purging, LoopFrame
  <2>15. Purging(t, v)'
    BY <1>1, <2>1, <2>2, <2>4, <2>6, <2>7, <2>9, <2>12, <2>13, <2>14
       DEF Purging, Store!Without
  <2>16. InCall(t)'
    BY <2>1, <2>2, <2>5, <2>7, <2>15, InLoopAgain DEF Looping, Fetched
  <2>17. Bounded'
    BY <1>1, <2>1, TextBounded, BoundedByStep DEF SInv, Bounded, IInv, Numbering
  <2> QED BY <1>1, <2>1, <2>16, <2>17 DEF Fits, SInv, Alone
<1> QED BY <1>2, <1>3 DEF PurgeNext

LEMMA ResetRevisionFits ==
  ASSUME NEW t \in Tasks, IInv, TypeOK', SInv, Follows(t), ResetRevision(t)
  PROVE  Fits(t)
<1>1. /\ pc[t] = "reset" /\ pc'[t] = "idle" /\ Advance(t)
      /\ rev' = -1 /\ young' = young /\ text' = text
  BY DEF ResetRevision, Return, Go, Advance, IInv, TypeOK
<1>2. -1 <= Highest
  BY TasksAssumption, SerialAssumption DEF Highest, IInv, TypeOK
<1> QED BY <1>1, <1>2, ReturnFits, TextBounded

-----------------------------------------------------------------------------
(* The steps of a restore before the loop.                                     *)


LEMMA FindFileFits ==
  ASSUME NEW t \in Tasks, IInv, TypeOK', SInv, Follows(t), FindFile(t)
  PROVE  Fits(t)
<1>1. /\ pc[t] = "findfile" /\ Advance(t) /\ TypeOK /\ pc'[t] # "idle"
      /\ pc'[t] = IF file = "listed" THEN "unlinkfile" ELSE "restored"
      /\ UNCHANGED <<disk, cache, calls, ask, dent>>
  BY DEF FindFile, Go, Advance, IInv, TypeOK
<1>2. shown' = shown /\ asked' = asked
  BY <1>1 DEF Follows
<1>3. RestoreAt(t)
  BY DEF SInv, InCall
<1>4. RestoreAt(t)'
  BY <1>1, <1>2, <1>3
     DEF RestoreAt, Delivering, SameAttrs, SameStore, Store!Removed, disk, attrs, cache
<1>5. Bounded'
  BY <1>1, TextBounded, BoundedByStep DEF SInv, Bounded, IInv, Numbering, disk, attrs
<1> QED BY <1>1, <1>4, <1>5, InRestore DEF Fits, SInv, Alone, Delivering, disk

LEMMA UnlinkFileFits ==
  ASSUME NEW t \in Tasks, IInv, TypeOK', SInv, Follows(t), UnlinkFile(t)
  PROVE  Fits(t)
<1>1. /\ pc[t] = "unlinkfile" /\ Advance(t) /\ TypeOK
      /\ UNCHANGED <<text, attrs, saved, restored, cache, calls>>
  BY DEF UnlinkFile, Advance, IInv
<1>2. CASE file # "listed"
  <2>1. pc'[t] = "idle"
    BY <1>1, <1>2 DEF UnlinkFile, Return, Go, TypeOK
  <2> QED BY <1>1, <2>1, ReturnFits, TextBounded DEF attrs
<1>3. CASE file = "listed"
  <2>1. pc'[t] = "restored" /\ file' = "orphan" /\ ask' = ask /\ dent' = dent
    BY <1>1, <1>3 DEF UnlinkFile, Go, TypeOK
  <2>2. shown' = shown /\ asked' = asked
    BY <1>1, <2>1 DEF Follows
  <2>3. RestoreAt(t)
    BY DEF SInv, InCall
  <2>4. RestoreAt(t)'
    BY <1>1, <1>3, <2>1, <2>2, <2>3
       DEF RestoreAt, Delivering, SameAttrs, SameStore, Store!Removed, attrs, cache
  <2>5. Bounded'
    BY <1>1, <2>1, TextBounded, BoundedByStep DEF SInv, Bounded, IInv, Numbering, attrs
  <2> QED BY <2>1, <2>4, <2>5, InRestore DEF Fits, Delivering
<1> QED BY <1>2, <1>3

LEMMA CreateRestoredFits ==
  ASSUME NEW t \in Tasks, IInv, TypeOK', SInv, Follows(t), CreateRestored(t)
  PROVE  Fits(t)
<1>1. /\ pc[t] = "restored" /\ Advance(t) /\ TypeOK
      /\ UNCHANGED <<file, text, attrs, saved, cache, calls>>
  BY DEF CreateRestored, Advance, IInv
<1>2. CASE restored # Nil
  <2>1. pc'[t] = "idle"
    BY <1>1, <1>2 DEF CreateRestored, Return, Go, TypeOK
  <2> QED BY <1>1, <2>1, ReturnFits, TextBounded DEF attrs
<1>3. CASE restored = Nil
  <2>1. pc'[t] = "fill" /\ restored' = Broken /\ ask' = ask /\ dent' = dent
    BY <1>1, <1>3 DEF CreateRestored, Go, TypeOK
  <2>2. shown' = shown /\ asked' = asked
    BY <1>1, <2>1 DEF Follows
  <2>3. RestoreAt(t)
    BY DEF SInv, InCall
  <2>4. RestoreAt(t)'
    BY <1>1, <1>3, <2>1, <2>2, <2>3
       DEF RestoreAt, Delivering, SameAttrs, SameStore, Store!Removed, attrs, cache
  <2>5. Bounded'
    BY <1>1, <2>1, TextBounded, BoundedByStep DEF SInv, Bounded, IInv, Numbering, attrs
  <2> QED BY <1>1, <2>1, <2>4, <2>5, InRestore DEF Fits, SInv, Alone, Delivering
<1> QED BY <1>2, <1>3

LEMMA FillRestoredFits ==
  ASSUME NEW t \in Tasks, IInv, TypeOK', SInv, Follows(t), FillRestored(t)
  PROVE  Fits(t)
<1> USE TasksAssumption
<1>1. /\ pc[t] = "fill" /\ Advance(t) /\ TypeOK /\ CacheLookup(ask[t])
      /\ UNCHANGED <<file, text, attrs, saved, calls>>
  BY DEF FillRestored, Advance, IInv
<1>2. CASE ask[t] \notin DOMAIN saved
  <2>1. pc'[t] = "idle"
    BY <1>1, <1>2 DEF FillRestored, Return, Go, TypeOK
  <2> QED BY <1>1, <2>1, ReturnFits, TextBounded DEF attrs
<1>3. CASE ask[t] \in DOMAIN saved
  <2>1. /\ pc'[t] = "count" /\ restored' = saved[ask[t]] /\ ask' = ask /\ dent' = dent
        /\ warm' = warm \cup {ask[t]} /\ negative' = negative
    BY <1>1, <1>3 DEF FillRestored, Delivers, Go, TypeOK, CacheLookup
  <2>2. shown' = shown /\ asked' = asked
    BY <1>1, <2>1 DEF Follows
  <2>3. RestoreAt(t)
    BY DEF SInv, InCall
  <2>4. /\ asked = [op |-> "restore", out |-> <<ask[t]>>] /\ ask[t] \in Requests
        /\ text = shown.text /\ SameAttrs /\ SameStore /\ dent[t] = "none"
        /\ file = Store!Removed /\ shown.restored = Nil
    BY <1>1, <2>3 DEF RestoreAt, Delivering
  <2> ask[t] # Nil
    <3>1. ask[t] \in Requests
      BY <2>4
    <3>2. \A r \in Requests : r # Nil
      OBVIOUS
    <3> QED BY <3>1, <3>2
  <2>5. LoopFrame(t)'
    BY <1>1, <1>3, <2>1, <2>2, <2>4
       DEF LoopFrame, SameAttrs, SameStore, Store!Removed, attrs
  <2>6. saved' = shown'.saved /\ warm' = First(t)'
    BY <1>1, <2>1, <2>2, <2>4 DEF First, SameStore
  <2>7. InCall(t)'
    BY <2>1, <2>4, <2>5, <2>6, InLoopAgain DEF Looping
  <2>8. Bounded'
    BY <1>1, <2>1, TextBounded, BoundedByStep DEF SInv, Bounded, IInv, Numbering, attrs
  <2> QED BY <1>1, <2>7, <2>8 DEF Fits, SInv, Alone
<1> QED BY <1>2, <1>3

LEMMA AdvanceFits ==
  ASSUME NEW t \in Tasks, IInv, TypeOK', SInv, Follows(t), Advance(t)
  PROVE  Fits(t)
BY TakeNumberFits, SetRevisionFits, SetYoungestFits, FindOutdatedFits, ExpireFits,
   LookupNewFits, CreateNewFits, CopyFits, LowerWriteFits, FindVersionFits,
   UnlinkVersionFits, CompareYoungestFits, LowerRevisionFits, LowerYoungestFits,
   CountVersionsFits, FindNextFits, PurgeNextFits, ResetRevisionFits, FindFileFits,
   UnlinkFileFits, CreateRestoredFits, FillRestoredFits
DEF Advance

-----------------------------------------------------------------------------
(* The invariant.                                                              *)
LEMMA SerialAdvanceKeeps ==
  ASSUME NEW t \in Tasks, IInv, TypeOK', SInv, SerialAdvance(t)
  PROVE  SInv'
<1>1. Follows(t) /\ Advance(t)
  BY DEF SerialAdvance, Follows
<1>2. Fits(t)
  BY <1>1, AdvanceFits
<1> QED BY <1>1, <1>2, AdvanceKeeps DEF Fits, IInv

\* A step after which no task is in a call and the store is as it is shown.
LEMMA RestKeeps ==
  ASSUME IInv, TypeOK', SInv, NEW r, Shows(r), ~late',
         AtRest', \A t \in Tasks : ask'[t] = Nil /\ dent'[t] = "none",
         text' <= calls', Bare',
         rev' # Nil => rev' <= Highest', young' # Nil => young' <= Highest'
  PROVE  SInv'
<1>1. \A t \in Tasks : InCall(t)'
  BY IdleIsFree DEF AtRest
<1>2. Alone'
  BY DEF Alone, AtRest
<1>3. Shown'
  BY DEF Shows, Shown, Kept, SameAttrs, SameStore
<1>4. ShownTyped'
  BY DEF Shows, ShownTyped, TypeOK
<1>5. Bounded'
  BY DEF Bounded, AtRest, Numbering
<1> QED BY <1>1, <1>2, <1>3, <1>4, <1>5 DEF SInv

\* The bounds when a call is added.
LEMMA CallBounded ==
  ASSUME IInv, SInv, calls' = calls + 1
  PROVE  /\ Highest' = Highest + 1 /\ text < calls' /\ text + 1 <= calls'
         /\ rev # Nil => rev < Highest'
         /\ young # Nil => young <= Highest'
BY TasksAssumption, SerialAssumption DEF IInv, TypeOK, SInv, Bounded, Highest

\* A call begins.
LEMMA StartKeeps ==
  ASSUME NEW t \in Tasks, IInv, TypeOK', SInv, NEW call, NEW step \in Steps \ {"idle"},
         AtRest, ~late, Start(t, call, step), UNCHANGED <<shown, late>>,
         ask' = ask \/ step \in Delivering, \A u \in Tasks \ {t} : ask'[u] = ask[u],
         step \notin Numbering, InCall(t)'
  PROVE  SInv'
<1>1. /\ calls' = calls + 1 /\ pc' = [pc EXCEPT ![t] = step] /\ file # "none"
      /\ UNCHANGED <<disk, dent>>
  BY DEF Start, Go
<1>2. /\ pc'[t] = step
      /\ \A u \in Tasks \ {t} : pc'[u] = "idle" /\ ask'[u] = Nil /\ dent'[u] = "none"
  BY <1>1 DEF IInv, TypeOK, AtRest, SInv, Alone
<1>3. \A u \in Tasks : InCall(u)'
  BY <1>2, IdleIsFree
<1>4. ~late' /\ Kept /\ shown.file # "none" /\ file' # "none"
  BY <1>1 DEF SInv, Shown, Kept, disk
<1>5. Alone'
  BY <1>1, <1>2, <1>4 DEF Alone
<1>6. Shown'
  BY <1>2, <1>4 DEF Shown, AtRest
<1>7. ShownTyped' /\ Bare'
  BY <1>4 DEF SInv, ShownTyped, Bare
<1>8. Bounded'
  <2>1. /\ text' < calls' /\ text' <= calls'
        /\ rev' # Nil => rev' < Highest' /\ rev' <= Highest'
        /\ young' # Nil => young' <= Highest'
    BY <1>1, CallBounded, TypeOK', TasksAssumption, SerialAssumption
       DEF disk, attrs, TypeOK, Highest
  <2>2. \A u \in Tasks : pc'[u] \notin Numbering
    BY <1>2 DEF Numbering
  <2> QED BY <2>1, <2>2 DEF Bounded
<1> QED BY <1>3, <1>5, <1>6, <1>7, <1>8 DEF SInv

LEMMA SerialBeginKeeps ==
  ASSUME NEW t \in Tasks, IInv, TypeOK', SInv, SerialBegin(t)
  PROVE  SInv'
<1> USE TasksAssumption
<1>1. /\ AtRest /\ ~late /\ TypeOK /\ Kept /\ SameAttrs /\ SameStore
      /\ pc[t] = "idle" /\ ask[t] = Nil /\ dent[t] = "none"
  BY DEF SerialBegin, SInv, Shown, IInv, AtRest, Alone
<1>2. ASSUME StartWrite(t), Asks("write", <<>>) PROVE SInv'
  <2>1. /\ Start(t, "write", "number") /\ ask' = ask /\ pc'[t] = "number"
        /\ UNCHANGED <<disk, cache>> /\ shown' = shown /\ late' = late
        /\ asked'.op = "write"
    BY <1>1, <1>2 DEF StartWrite, Start, Go, TypeOK, Asks
  <2>2. WriteAt(t)'
    BY <1>1, <2>1 DEF WriteAt, Kept, SameAttrs, SameStore, Numbering, disk, attrs, cache
  <2>3. InCall(t)'
    BY <2>1, <2>2, InWrite
  <2> QED BY <1>1, <2>1, <2>3, StartKeeps DEF Steps, Numbering
<1>3. ASSUME StartDeleteAll(t), Asks("deleteall", <<>>) PROVE SInv'
  <2>1. /\ Start(t, "deleteall", "count") /\ ask' = ask /\ pc'[t] = "count"
        /\ UNCHANGED <<disk, cache, dent>> /\ shown' = shown /\ late' = late
        /\ asked' = [op |-> "deleteall", out |-> <<>>]
    BY <1>1, <1>3 DEF StartDeleteAll, Start, Go, TypeOK, Asks
  <2>2. LoopFrame(t)' /\ saved' = shown'.saved /\ warm' = First(t)' /\ dent'[t] = "none"
    BY <1>1, <2>1
       DEF LoopFrame, First, Kept, SameAttrs, SameStore, disk, attrs, cache
  <2>3. InCall(t)'
    BY <2>1, <2>2, InLoopAgain DEF Looping
  <2> QED BY <1>1, <2>1, <2>3, StartKeeps DEF Steps, Numbering
<1>4. ASSUME NEW v \in Requests, StartDelete(t, v), Asks("delete", <<v>>) PROVE SInv'
  <2>1. /\ Start(t, "delete", "find") /\ ask' = ask /\ pc'[t] = "find" /\ val'[t] = v
        /\ UNCHANGED <<disk, cache>> /\ shown' = shown /\ late' = late
        /\ asked' = [op |-> "delete", out |-> <<v>>]
    BY <1>1, <1>4 DEF StartDelete, Start, Go, TypeOK, Asks
  <2>2. DeleteAt(t)'
    BY <1>1, <2>1 DEF DeleteAt, Deleting, Kept, SameAttrs, SameStore, disk, attrs, cache
  <2>3. InCall(t)'
    BY <2>1, <2>2, InDelete DEF Deleting
  <2> QED BY <1>1, <2>1, <2>3, StartKeeps DEF Steps, Numbering
<1>5. ASSUME NEW v \in Requests, StartRestore(t, v), Asks("restore", <<v>>) PROVE SInv'
  <2>1. /\ Start(t, "restore", "findfile") /\ pc'[t] = "findfile" /\ ask'[t] = v
        /\ \A u \in Tasks \ {t} : ask'[u] = ask[u]
        /\ UNCHANGED <<disk, cache, dent>> /\ shown' = shown /\ late' = late
        /\ asked' = [op |-> "restore", out |-> <<v>>]
    BY <1>1, <1>5 DEF StartRestore, Start, Go, TypeOK, Asks
  <2>2. RestoreAt(t)'
    BY <1>1, <2>1 DEF RestoreAt, Delivering, Kept, SameAttrs, SameStore, disk, attrs, cache
  <2>3. InCall(t)'
    BY <2>1, <2>2, InRestore DEF Delivering
  <2> QED BY <1>1, <2>1, <2>3, StartKeeps DEF Steps, Numbering, Delivering
<1>6. ASSUME NEW v \in Requests, View(t, v), Shows(Viewed(v)), UNCHANGED late PROVE SInv'
  <2>1. /\ calls' = calls + 1 /\ pc' = pc /\ ask' = ask
        /\ UNCHANGED <<disk, dent>>
    BY <1>1, <1>6 DEF View, Start, Go, TypeOK
  <2>2. AtRest' /\ \A u \in Tasks : ask'[u] = Nil /\ dent'[u] = "none"
    BY <1>1, <2>1 DEF AtRest, SInv, Alone
  <2>3. Bare' /\ text' <= calls'
    BY <2>1, CallBounded DEF SInv, Bare, disk, attrs, IInv, TypeOK
  <2>4. /\ rev' # Nil => rev' <= Highest'
        /\ young' # Nil => young' <= Highest'
    BY <1>1, <2>1, TypeOK', CallBounded, SerialAssumption DEF disk, attrs, TypeOK, Highest
  <2> QED BY <1>1, <1>6, <2>1, <2>2, <2>3, <2>4, RestKeeps DEF disk, attrs
<1> QED BY <1>2, <1>3, <1>4, <1>5, <1>6 DEF SerialBegin

LEMMA SerialOtherKeeps == ASSUME IInv, TypeOK', SInv, SerialOther PROVE SInv'
<1> USE TasksAssumption
<1>1. AtRest /\ UNCHANGED locals
  BY DEF SerialOther, Forget, Collect, Create, AtRest, SInv, Alone
<1>2. /\ AtRest' /\ ~late'
      /\ \A u \in Tasks : ask'[u] = Nil /\ dent'[u] = "none"
  BY <1>1 DEF SerialOther, AtRest, SInv, Alone, locals
<1>3. PICK r : Shows(r)
  BY DEF SerialOther
<1>4. CASE Forget
  BY <1>2, <1>3, <1>4, RestKeeps DEF Forget, SInv, Bounded, Bare
<1>5. CASE Collect
  <2>1. Highest' = Highest /\ calls' = calls
    BY <1>5 DEF Collect, Highest
  <2> QED BY <1>2, <1>3, <1>5, <2>1, RestKeeps DEF Collect, SInv, Bounded, Bare, attrs
<1>6. CASE Create
  <2>1. text' <= calls' /\ Bare'
    BY <1>6, CallBounded DEF Create, Bare, IInv, TypeOK
  <2>2. rev' = Nil /\ young' = Nil
    BY <1>6 DEF Create, SInv, Bare, attrs
  <2> QED BY <1>2, <1>3, <2>1, <2>2, RestKeeps
<1> QED BY <1>4, <1>5, <1>6 DEF SerialOther

\* What a crash in a call leaves the store with, where it leaves a trace or not.
LEMMA TracelessKept ==
  ASSUME NEW t \in Tasks, IInv, SInv, pc[t] # "idle", Traceless(t)
  PROVE  /\ file = shown.file /\ text = shown.text /\ restored = shown.restored
         /\ SameAttrs /\ saved = shown.saved
<1>1. WriteAt(t) /\ DeleteAt(t) /\ RestoreAt(t) /\ LoopAt(t)
  BY DEF SInv, InCall
<1>2. CASE pc[t] \in {"number", "setrev"}
  BY <1>1, <1>2 DEF WriteAt, Kept, SameStore, Numbering
<1>3. CASE pc[t] \in {"find", "unlink"}
  BY <1>1, <1>3 DEF DeleteAt, Kept, SameStore, SameAttrs, Deleting
<1>4. CASE pc[t] \in {"findfile", "unlinkfile"}
  BY <1>1, <1>4 DEF RestoreAt, SameStore, Delivering
<1>5. CASE pc[t] = "count" /\ ask[t] = Nil
  BY <1>1, <1>5 DEF LoopAt, Looping
<1> QED BY <1>2, <1>3, <1>4, <1>5 DEF Traceless

LEMMA SerialCrashKeeps == ASSUME IInv, TypeOK', SInv, SerialCrash PROVE SInv'
<1>1. /\ ~late /\ Crash /\ AtRest' /\ text' = text /\ calls' = calls /\ Highest' = Highest
      /\ \A u \in Tasks : ask'[u] = Nil /\ dent'[u] = "none"
  BY DEF SerialCrash, Crash, AtRest, Highest
<1>2. /\ Bare' /\ text' <= calls'
      /\ rev' # Nil => rev' <= Highest'
      /\ young' # Nil => young' <= Highest'
  BY <1>1 DEF Crash, Bare, SInv, Bounded, attrs
<1>3. CASE AtRest /\ Shows(Other) /\ UNCHANGED late
  BY <1>1, <1>2, <1>3, RestKeeps
<1>4. CASE ~AtRest /\ CrashInCall
  <2>1. PICK t \in Tasks : /\ pc[t] # "idle"
                           /\ shown' = IF Traceless(t) THEN shown
                                       ELSE Now(Reply(asked.op, Cut(t), asked.out))
    BY <1>4 DEF CrashInCall
  <2>2. late' /\ Crashes /\ warm' = {} /\ negative' = {} /\ saved' = saved
        /\ restored' = restored
    BY <1>1, <1>4 DEF CrashInCall, Crash
  <2>3. /\ shown'.file = file /\ shown'.text = text /\ shown'.restored = restored
        /\ shown'.rev = rev /\ shown'.young = young /\ shown'.saved = saved
    BY <2>1, TracelessKept DEF Now, SameAttrs
  <2>4. Shown'
    BY <1>1, <2>2, <2>3 DEF Shown, Crash, SameAttrs, attrs
  <2>5. ShownTyped'
    BY <2>1 DEF Now, SInv, ShownTyped, IInv, TypeOK
  <2>6. Alone'
    BY <1>1 DEF Alone, AtRest
  <2>7. \A u \in Tasks : InCall(u)'
    BY <1>1, IdleIsFree DEF AtRest
  <2>8. Bounded'
    BY <1>1, <1>2 DEF Bounded, AtRest, Numbering
  <2> QED BY <1>2, <2>4, <2>5, <2>6, <2>7, <2>8 DEF SInv
<1> QED BY <1>3, <1>4 DEF SerialCrash

LEMMA RecoverKeeps == ASSUME IInv, TypeOK', SInv, Recover PROVE SInv'
<1>1. Shows(Other) /\ ~late' /\ UNCHANGED vars /\ late
  BY DEF Recover, Now, Shows, vars, disk, cache, attrs
<1>2. AtRest' /\ \A u \in Tasks : ask'[u] = Nil /\ dent'[u] = "none"
  BY <1>1 DEF SInv, Alone, AtRest, vars, locals
<1>3. /\ Bare' /\ text' <= calls'
      /\ rev' # Nil => rev' <= Highest'
      /\ young' # Nil => young' <= Highest'
  BY <1>1 DEF SInv, Bare, Bounded, Highest, vars, disk, attrs
<1> QED BY <1>1, <1>2, <1>3, RestKeeps

LEMMA SerialStutterKeeps == ASSUME SInv, UNCHANGED serialVars PROVE SInv'
<1> USE DEF serialVars, ghosts, vars, disk, cache, attrs, locals
<1>1. Alone' /\ ShownTyped' /\ Bare'
  BY DEF SInv, Alone, ShownTyped, Bare
<1>2. Shown'
  BY DEF SInv, Shown, AtRest, Kept, SameAttrs, SameStore
<1>3. Bounded'
  BY DEF SInv, Bounded, Highest
<1>4. ASSUME NEW t \in Tasks PROVE InCall(t)'
  <2>0. /\ \A v : Rest(v)' = Rest(v) /\ RestWarm(v)' = RestWarm(v)
        /\ \A v : Gone(t, v)' = Gone(t, v) /\ First(t)' = First(t)
        /\ Taken(t)' = Taken(t) /\ Kept' = Kept
        /\ SameAttrs' = SameAttrs /\ SameStore' = SameStore
    BY DEF Rest, RestWarm, Gone, First, Taken, Kept, SameAttrs, SameStore, Fetched,
           Store!Without, Store!Expired, Store!Outdated, Store!Purged
  <2>1. WriteAt(t)'
    <3>1. WriteAt(t)
      BY DEF SInv, InCall
    <3>2. CASE pc[t] = "copy"
      BY <2>0, <3>1, <3>2 DEF WriteAt, Numbering, Store!Outdated, Store!Put
    <3>3. CASE pc[t] = "write"
      BY <2>0, <3>1, <3>3 DEF WriteAt, Numbering, Store!Outdated, Store!Put
    <3>4. CASE pc[t] \notin {"copy", "write"}
      BY <2>0, <3>1, <3>4 DEF WriteAt, Numbering, Store!Outdated
    <3> QED BY <3>2, <3>3, <3>4
  <2>2. DeleteAt(t)'
    BY DEF SInv, InCall, DeleteAt, Kept, SameStore, Fetched, Store!Without
  <2>3. RestoreAt(t)'
    BY DEF SInv, InCall, RestoreAt, SameAttrs, SameStore, Store!Removed
  <2>4. LoopAt(t)'
    <3>1. \A v : Purging(t, v)' = Purging(t, v)
      BY <2>0 DEF Purging, Store!Without
    <3> QED BY <2>0, <3>1 DEF SInv, InCall, LoopAt, Fetched, Store!Removed
  <2> QED BY <2>1, <2>2, <2>3, <2>4 DEF InCall
<1> QED BY <1>1, <1>2, <1>3, <1>4 DEF SInv

\* Each step of SerialTasks is one of BackupTasks.
LEMMA SerialIsNext == [SerialNext]_serialVars => [Next]_vars
<1> SUFFICES ASSUME [SerialNext]_serialVars PROVE [Next]_vars
  OBVIOUS
<1>1. CASE SerialOther \/ SerialCrash
  BY <1>1 DEF SerialOther, SerialCrash, Next
<1>2. CASE Recover
  BY <1>2 DEF Recover
<1>3. ASSUME NEW t \in Tasks, SerialBegin(t) PROVE Next
  BY <1>3 DEF SerialBegin, Next, Begin
<1>4. ASSUME NEW t \in Tasks, SerialAdvance(t) PROVE Next
  BY <1>4 DEF SerialAdvance, Next
<1>5. CASE UNCHANGED serialVars
  BY <1>5 DEF serialVars
<1> QED BY <1>1, <1>2, <1>3, <1>4, <1>5 DEF SerialNext

SerialInv == IInv /\ SInv

LEMMA SerialKeeps == SerialInv /\ [SerialNext]_serialVars => SerialInv'
<1> SUFFICES ASSUME SerialInv, [SerialNext]_serialVars PROVE SerialInv'
  OBVIOUS
<1>1. IInv' /\ TypeOK' /\ IInv /\ SInv
  BY SerialIsNext, StepKeeps DEF IInv, SerialInv
<1>2. SInv'
  BY <1>1, SerialBeginKeeps, SerialAdvanceKeeps, SerialOtherKeeps, SerialCrashKeeps,
     RecoverKeeps, SerialStutterKeeps
  DEF SerialNext
<1> QED BY <1>1, <1>2 DEF SerialInv

LEMMA SerialStarts == SerialInit => SerialInv
<1> SUFFICES ASSUME SerialInit PROVE SerialInv
  OBVIOUS
<1> USE TasksAssumption, SerialAssumption DEF SerialInit, Init
<1>1. IInv
  BY InitIInv
<1>2. Alone /\ Bare
  BY DEF Alone, Bare
<1>3. Shown /\ ShownTyped
  BY <1>1 DEF Shown, ShownTyped, Now, Kept, SameAttrs, SameStore, IInv, TypeOK
<1>4. Bounded
  BY DEF Bounded, Numbering
<1>5. \A t \in Tasks : InCall(t)
  BY DEF InCall, WriteAt, DeleteAt, RestoreAt, LoopAt, Numbering, Deleting,
         Delivering, Looping
<1> QED BY <1>1, <1>2, <1>3, <1>4, <1>5 DEF SInv, SerialInv

THEOREM SerialInvariance == SerialSpec => []SerialInv
BY SerialStarts, SerialKeeps, PTL DEF SerialSpec

-----------------------------------------------------------------------------
(* The refinement: the calls that return.                                      *)

\* What is shown when a call returns.
LEMMA ShowsDoes ==
  ASSUME NEW r, Shows(r)
  PROVE  /\ shown'.file = file' /\ shown'.text = text' /\ shown'.rev = rev'
         /\ shown'.young = young' /\ shown'.saved = saved' /\ shown'.warm = warm'
         /\ shown'.negative = negative' /\ shown'.restored = restored'
         /\ shown'.reply = r
BY DEF Shows

\* The reply to the call of t.
LEMMA ReturnShows ==
  ASSUME NEW t \in Tasks, Follows(t), pc[t] # "number", pc'[t] = "idle"
  PROVE  Shows(Reply(asked.op, result'[t], asked.out))
BY DEF Follows

\* What one fetches, the other may.
LEMMA FetchedInStore ==
  ASSUME NEW a, a # Nil => a \in Int, NEW v \in Fetched(a)
  PROVE  v \in Store!Fetched(a)
BY DEF Fetched, Store!Fetched

\* A write that got past its numbers.
LEMMA IsWrite ==
  ASSUME NEW t \in Tasks, IInv, SInv, pc[t] \in Numbering,
         Store!Renumber(val[t]),
         Store!RetentionFails(val[t]) \/ Store!BackupFails(val[t])
           \/ Store!BackupMade(val[t])
  PROVE  Store!Next
<1> USE TasksAssumption, SerialAssumption
<1>1. Taken(t) /\ ShownTyped /\ shown.file # "none"
  BY DEF SInv, InCall, WriteAt, Alone, Numbering
<1>2. PICK v \in Fetched(shown.rev) : v < IntMax /\ val[t] = NextVersion(v)
  BY <1>1 DEF Taken
<1>3. v \in Int
  BY <1>1 DEF Fetched, ShownTyped
<1>4. val[t] = Store!NextVersion(v)
  BY <1>2, <1>3 DEF NextVersion, Store!NextVersion, Store!Wrap
<1>5. shown.text < MaxCalls
  BY DEF SInv, InCall, WriteAt, Kept, Bounded, IInv, TypeOK, Numbering
<1>6. v \in Store!Fetched(shown.rev)
  BY <1>1, FetchedInStore DEF ShownTyped
<1>7. Store!WriteNumbered(val[t])
  BY DEF Store!WriteNumbered
<1> QED BY <1>1, <1>4, <1>5, <1>6, <1>7 DEF Store!Write, Store!Next

LEMMA ExpireReturns ==
  ASSUME NEW t \in Tasks, IInv, SInv, Follows(t), Expire(t), pc'[t] = "idle"
  PROVE  Store!Next
<1>1. pc[t] = "expire" /\ TypeOK /\ WriteAt(t)
  BY DEF Expire, IInv, SInv, InCall
<1>2. ASSUME Unlinked(t, "lookup") PROVE FALSE
  <2>1. pc'[t] = "lookup"
    BY <1>1, <1>2, UnlinkedDoes
  <2> QED BY <2>1
<1>3. /\ result'[t] = "ENOENT" /\ dent[t] # "there" /\ UNCHANGED <<disk, cache, calls>>
  BY <1>1, <1>2, NotUnlinkedDoes DEF Expire
<1>4. Shows(Reply("write", "ENOENT", <<val[t]>>))
  BY <1>1, <1>3, ReturnShows DEF WriteAt, Taken, Numbering
<1>5. /\ Kept /\ SameStore /\ rev = val[t] /\ young = val[t] /\ val[t] > N
      /\ on[t] = val[t] - N /\ dent[t] = "missing"
  BY <1>1, <1>3 DEF WriteAt, Numbering
<1>6. val[t] - N \in Store!Outdated(val[t]) \cap shown.negative
  BY <1>1, <1>5 DEF TypeOK, SameStore, Store!Outdated
<1>7. Store!RetentionFails(val[t])
  BY <1>3, <1>4, <1>5, <1>6, ShowsDoes
     DEF Store!RetentionFails, Store!Answer, Reply, Kept, SameStore, Store!cache, disk, cache
<1>8. Store!Renumber(val[t])
  BY <1>3, <1>4, <1>5, ShowsDoes DEF Store!Renumber, Store!Stored, disk, attrs
<1> QED BY <1>1, <1>7, <1>8, IsWrite DEF Numbering

LEMMA CreateNewReturns ==
  ASSUME NEW t \in Tasks, IInv, SInv, Follows(t), CreateNew(t), pc'[t] = "idle"
  PROVE  Store!Next
<1>1. pc[t] = "create" /\ TypeOK /\ WriteAt(t)
  BY DEF CreateNew, IInv, SInv, InCall
<1>2. ~StillNegative(t) /\ Refused(t) /\ UNCHANGED <<disk, cache, calls>>
  BY <1>1 DEF CreateNew, Go, TypeOK
<1>3. result'[t] = "EEXIST"
  BY <1>1, <1>2 DEF Refused, Return, TypeOK
<1>4. Shows(Reply("write", "EEXIST", <<val[t]>>))
  BY <1>1, <1>3, ReturnShows DEF WriteAt, Taken, Numbering
<1>5. /\ Kept /\ rev = val[t] /\ young = val[t] /\ val[t] \in DOMAIN shown.saved
      /\ saved = Rest(val[t]) /\ warm = RestWarm(val[t]) \cup {val[t]}
      /\ negative = shown.negative
      /\ Store!Outdated(val[t]) \cap shown.negative = {}
  BY <1>1, <1>2 DEF WriteAt, Numbering, StillNegative
<1>6. Store!BackupFails(val[t])
  BY <1>2, <1>4, <1>5, ShowsDoes
     DEF Store!BackupFails, Store!Answer, Reply, Kept, Rest, RestWarm, Store!Taken,
         disk, cache
<1>7. Store!Renumber(val[t])
  BY <1>2, <1>4, <1>5, ShowsDoes DEF Store!Renumber, Store!Stored, disk, attrs
<1> QED BY <1>1, <1>6, <1>7, IsWrite DEF Numbering

LEMMA LowerWriteReturns ==
  ASSUME NEW t \in Tasks, IInv, SInv, Follows(t), LowerWrite(t)
  PROVE  Store!Next
<1>1. /\ pc[t] = "write" /\ pc'[t] = "idle" /\ TypeOK /\ WriteAt(t) /\ result'[t] = "ok"
      /\ text' = text + 1 /\ UNCHANGED <<file, attrs, saved, restored, cache, calls>>
  BY DEF LowerWrite, Return, Go, IInv, TypeOK, SInv, InCall
<1>2. Shows(Reply("write", "ok", <<val[t]>>))
  BY <1>1, ReturnShows DEF WriteAt, Taken, Numbering
<1>3. /\ Kept /\ rev = val[t] /\ young = val[t] /\ val[t] \notin DOMAIN shown.saved
      /\ saved = Store!Put(Rest(val[t]), val[t], text)
      /\ warm = RestWarm(val[t]) \cup {val[t]}
      /\ negative = shown.negative \ {val[t]}
      /\ Store!Outdated(val[t]) \cap shown.negative = {}
  BY <1>1 DEF WriteAt, Numbering
<1>4. Store!LowerWrite(val[t])
  BY <1>1, <1>2, <1>3, ShowsDoes DEF Store!LowerWrite, Store!Answer, Reply, Kept
<1>5. shown.text \in Store!Copies(shown.text)
  BY DEF Store!Copies
<1>6. Store!BackupMade(val[t])
  BY <1>1, <1>2, <1>3, <1>4, <1>5, ShowsDoes
     DEF Store!BackupMade, Kept, Rest, RestWarm, Store!Taken, cache
<1>7. Store!Renumber(val[t])
  BY <1>1, <1>2, <1>3, ShowsDoes DEF Store!Renumber, Store!Stored, attrs
<1> QED BY <1>1, <1>6, <1>7, IsWrite DEF Numbering

\* A delete of one version.
LEMMA IsDelete ==
  ASSUME NEW v \in Requests, Store!Delete(v)
  PROVE  Store!Next
BY DEF Store!Next

LEMMA FindVersionReturns ==
  ASSUME NEW t \in Tasks, IInv, SInv, Follows(t), FindVersion(t), pc'[t] = "idle"
  PROVE  Store!Next
<1>1. /\ pc[t] = "find" /\ TypeOK /\ DeleteAt(t) /\ UNCHANGED <<disk, cache, calls>>
      /\ shown.file # "none"
  BY DEF FindVersion, IInv, SInv, InCall, Alone
<1>2. Cached(val[t]) = "none" /\ result'[t] = "ENOTTY"
  BY <1>1 DEF FindVersion, Return, Go, TypeOK
<1>3. val[t] \notin warm \cup negative
  BY <1>2 DEF Cached
<1>4. Shows(Reply("delete", "ENOTTY", <<val[t]>>))
  BY <1>1, <1>2, ReturnShows DEF DeleteAt, Deleting
<1>5. /\ val[t] \in Requests /\ Kept /\ young = shown.young /\ rev = shown.rev /\ SameStore
  BY <1>1 DEF DeleteAt, Deleting
<1>6. val[t] # 0
  BY <1>5, TasksAssumption
<1>7. Store!Delete(val[t])
  BY <1>1, <1>3, <1>4, <1>5, <1>6, ShowsDoes
     DEF Store!Delete, Store!Answer, Reply, Kept, SameStore, Store!cache, disk, cache, attrs
<1> QED BY <1>5, <1>7, IsDelete

LEMMA UnlinkVersionReturns ==
  ASSUME NEW t \in Tasks, IInv, SInv, Follows(t), UnlinkVersion(t), pc'[t] = "idle"
  PROVE  Store!Next
<1>1. pc[t] = "unlink" /\ TypeOK /\ DeleteAt(t) /\ shown.file # "none"
  BY DEF UnlinkVersion, IInv, SInv, InCall, Alone
<1>2. ASSUME Unlinked(t, "compare") PROVE FALSE
  <2>1. pc'[t] = "compare"
    BY <1>1, <1>2, UnlinkedDoes
  <2> QED BY <2>1
<1>3. /\ result'[t] = "ENOENT" /\ dent[t] # "there" /\ UNCHANGED <<disk, cache, calls>>
  BY <1>1, <1>2, NotUnlinkedDoes DEF UnlinkVersion
<1>4. Shows(Reply("delete", "ENOENT", <<val[t]>>))
  BY <1>1, <1>3, ReturnShows DEF DeleteAt, Deleting
<1>5. /\ val[t] \in Requests /\ Kept /\ young = shown.young /\ rev = shown.rev /\ SameStore
      /\ on[t] = val[t] /\ dent[t] = "missing"
  BY <1>1, <1>3 DEF DeleteAt, Deleting
<1>6. val[t] # 0 /\ val[t] \in negative
  BY <1>1, <1>5, TasksAssumption DEF TypeOK
<1>7. Store!Delete(val[t])
  BY <1>1, <1>3, <1>4, <1>5, <1>6, ShowsDoes
     DEF Store!Delete, Store!Answer, Reply, Kept, SameStore, Store!cache, disk, cache, attrs
<1> QED BY <1>5, <1>7, IsDelete

\* A delete that has unlinked its version, and what it makes of the attributes.
LEMMA IsDeleted ==
  ASSUME NEW t \in Tasks, IInv, SInv,
         pc[t] \in {"compare", "lowerrev", "loweryoung"},
         shown'.file = file, shown'.text = text, shown'.restored = restored,
         shown'.saved = saved, shown'.warm = warm, shown'.negative = negative,
         shown'.reply = Reply("delete", "ok", <<val[t]>>),
         NEW y \in Fetched(shown.young),
         IF val[t] = y THEN Store!Renumber(val[t] - 1)
                       ELSE shown'.rev = shown.rev /\ shown'.young = shown.young
  PROVE  Store!Next
<1> USE TasksAssumption, SerialAssumption
<1>1. DeleteAt(t) /\ shown.file # "none" /\ ShownTyped
  BY DEF SInv, InCall, Alone
<1>2. /\ val[t] \in Requests /\ Kept /\ val[t] \in shown.warm
      /\ saved = Store!Without(shown.saved, {val[t]})
      /\ warm = shown.warm \ {val[t]} /\ negative = shown.negative
  BY <1>1 DEF DeleteAt, Deleting
<1>3. y \in Store!Fetched(shown.young)
  BY <1>1, FetchedInStore DEF ShownTyped
<1>4. val[t] \in Nat \ {0} /\ Store!Wrap(val[t] - 1) = val[t] - 1
  <2>1. \A r \in Requests : r \in Nat \ {0} /\ r <= IntMax
    OBVIOUS
  <2>2. val[t] \in Nat \ {0} /\ val[t] <= IntMax
    BY <1>2, <2>1
  <2> QED BY <2>2 DEF Store!Wrap
<1>5. IF Store!DeletesYoungest(val[t], y)
      THEN Store!Renumber(Store!Wrap(y - 1))
      ELSE shown'.rev = shown.rev /\ shown'.young = shown.young
  BY <1>4 DEF Store!DeletesYoungest
<1>6. Store!Delete(val[t])
  BY <1>1, <1>2, <1>3, <1>4, <1>5
     DEF Store!Delete, Store!Delete_, Store!Answer, Reply, Kept
<1> QED BY <1>2, <1>6, IsDelete

LEMMA CompareYoungestReturns ==
  ASSUME NEW t \in Tasks, IInv, SInv, Follows(t), CompareYoungest(t), pc'[t] = "idle"
  PROVE  Store!Next
<1>1. /\ pc[t] = "compare" /\ TypeOK /\ DeleteAt(t) /\ UNCHANGED <<disk, cache, calls>>
  BY DEF CompareYoungest, IInv, SInv, InCall
<1>2. PICK y \in Fetched(young) : val[t] # y /\ Return(t, "ok")
  BY <1>1 DEF CompareYoungest, Go, TypeOK
<1>3. result'[t] = "ok"
  BY <1>1, <1>2 DEF Return, TypeOK
<1>4. Shows(Reply("delete", "ok", <<val[t]>>))
  BY <1>1, <1>3, ReturnShows DEF DeleteAt, Deleting
<1>5. rev = shown.rev /\ young = shown.young
  BY <1>1 DEF DeleteAt, Deleting
<1>6. /\ shown'.file = file /\ shown'.text = text /\ shown'.restored = restored
      /\ shown'.saved = saved /\ shown'.warm = warm /\ shown'.negative = negative
      /\ shown'.reply = Reply("delete", "ok", <<val[t]>>)
      /\ shown'.rev = shown.rev /\ shown'.young = shown.young
  BY <1>1, <1>4, <1>5, ShowsDoes DEF disk, cache, attrs
<1>7. y \in Fetched(shown.young)
  BY <1>2, <1>5
<1> QED BY <1>1, <1>2, <1>6, <1>7, IsDeleted

LEMMA LowerYoungestReturns ==
  ASSUME NEW t \in Tasks, IInv, SInv, Follows(t), LowerYoungest(t)
  PROVE  Store!Next
<1>1. /\ pc[t] = "loweryoung" /\ pc'[t] = "idle" /\ TypeOK /\ DeleteAt(t)
      /\ result'[t] = "ok" /\ young' = val[t] - 1
      /\ UNCHANGED <<file, text, rev, saved, restored, cache, calls>>
  BY DEF LowerYoungest, Return, Go, IInv, TypeOK, SInv, InCall
<1>2. Shows(Reply("delete", "ok", <<val[t]>>))
  BY <1>1, ReturnShows DEF DeleteAt, Deleting
<1>3. rev = val[t] - 1 /\ val[t] \in Fetched(shown.young)
  BY <1>1 DEF DeleteAt, Deleting
<1>4. /\ shown'.file = file /\ shown'.text = text /\ shown'.restored = restored
      /\ shown'.saved = saved /\ shown'.warm = warm /\ shown'.negative = negative
      /\ shown'.reply = Reply("delete", "ok", <<val[t]>>)
      /\ shown'.rev = val[t] - 1 /\ shown'.young = val[t] - 1
  BY <1>1, <1>2, <1>3, ShowsDoes DEF cache
<1>5. Store!Renumber(val[t] - 1)
  BY <1>4 DEF Store!Renumber, Store!Stored
<1> QED BY <1>1, <1>3, <1>4, <1>5, IsDeleted

\* A loop from v down to s, and what it answers there.
LEMMA IsLoop ==
  ASSUME NEW t \in Tasks, IInv, SInv, pc[t] \in Looping,
         shown'.file = file, shown'.text = text, shown'.restored = restored,
         shown'.saved = saved, shown'.warm = warm, shown'.negative = negative,
         shown'.young = young,
         NEW v \in Fetched(shown.rev), NEW s, s = 0 \/ s \in 1..v,
         s = 0 \/ s \in negative \/ (s \in First(t) /\ Store!Fails("unlink")),
         \A i \in (s + 1)..v : i \notin negative,
         saved = Store!Without(shown.saved, Store!Purged(v, s, First(t))),
         warm = First(t) \ Store!Purged(v, s, First(t)),
         NEW err, shown'.reply = Reply(asked.op, err, asked.out),
         s # 0 => err = Store!LoopErr(s) /\ shown'.rev = shown.rev,
         s = 0 => IF ask[t] = Nil
                  THEN /\ shown'.rev \in Store!Stored(shown.rev, -1)
                       /\ err = IF Store!Purged(v, 0, First(t)) = {} THEN "ENOTTY"
                                                                     ELSE "ok"
                  ELSE err = "ok" /\ shown'.rev = shown.rev
  PROVE  Store!Next
<1>1. LoopFrame(t) /\ shown.file # "none" /\ ShownTyped
  BY DEF SInv, InCall, LoopAt, LoopFrame, Alone, Looping
<1>2. v \in Store!Fetched(shown.rev)
  BY <1>1, FetchedInStore DEF ShownTyped
<1>3. s \in Store!LoopEnds(v, First(t))
  BY <1>1 DEF Store!LoopEnds, LoopFrame
<1>4. CASE ask[t] = Nil
  <2>1. First(t) = shown.warm
    BY <1>4 DEF First
  <2>2. Store!Delete_(Store!Purged(v, s, shown.warm))
    BY <2>1 DEF Store!Delete_
  <2>3. Store!DeleteAll
    BY <1>1, <1>2, <1>3, <1>4, <2>1, <2>2
       DEF Store!DeleteAll, Store!Answer, Reply, LoopFrame, SameAttrs
  <2> QED BY <2>3 DEF Store!Next
<1>5. CASE ask[t] # Nil
  <2>1. First(t) = shown.warm \cup {ask[t]}
    BY <1>5 DEF First
  <2>2. shown.saved[ask[t]] \in Store!Copies(shown.saved[ask[t]])
    BY DEF Store!Copies
  <2>3. Store!RestoreFills(ask[t])
    <3>1. shown'.reply = [op |-> "restore",
                          err |-> IF s = 0 THEN "ok" ELSE Store!LoopErr(s),
                          out |-> <<ask[t]>>]
      BY <1>1, <1>5 DEF Reply, LoopFrame
    <3>2. /\ s \in Store!LoopEnds(v, shown.warm \cup {ask[t]})
          /\ shown'.saved = Store!Without(shown.saved,
                                Store!Purged(v, s, shown.warm \cup {ask[t]}))
          /\ shown'.warm = (shown.warm \cup {ask[t]})
                               \ Store!Purged(v, s, shown.warm \cup {ask[t]})
      BY <1>3, <2>1
    <3>3. /\ shown.restored = Nil /\ ask[t] \in DOMAIN shown.saved
          /\ shown'.restored \in Store!Copies(shown.saved[ask[t]])
          /\ shown'.negative = shown.negative
      BY <1>1, <1>5, <2>2 DEF LoopFrame
    <3> QED BY <1>2, <3>1, <3>2, <3>3 DEF Store!RestoreFills, Store!Answer
  <2>4. Store!Restore(ask[t]) /\ ask[t] \in Requests
    BY <1>1, <1>5, <2>3 DEF Store!Restore, LoopFrame, SameAttrs
  <2> QED BY <2>4 DEF Store!Next
<1> QED BY <1>4, <1>5

\* What a task in the loop knows of where it is.
LEMMA LoopStands ==
  ASSUME NEW t \in Tasks, IInv, SInv, pc[t] \in Looping \ {"count"}
  PROVE  \E v \in Fetched(shown.rev) :
           /\ Purging(t, v) /\ v \in Int /\ val[t] \in Int
           /\ First(t) \subseteq Nat \ {0} /\ negative = shown.negative
           /\ rev = shown.rev /\ young = shown.young
           /\ val[t] <= 0 => /\ Store!Purged(v, 0, First(t)) = Gone(t, v)
                             /\ \A i \in 1..v : i \notin negative
<1> USE TasksAssumption
<1>1. LoopFrame(t) /\ ShownTyped
  BY DEF SInv, InCall, LoopAt, LoopFrame, Looping
<1>2. PICK v \in Fetched(shown.rev) : Purging(t, v)
  BY DEF SInv, InCall, LoopAt, Looping
<1>3. v \in Int /\ val[t] \in Int
  BY <1>1 DEF Fetched, ShownTyped, IInv, TypeOK
<1>4. First(t) \subseteq Nat \ {0} /\ negative = shown.negative
  BY <1>1 DEF First, ShownTyped, LoopFrame
<1>5. ASSUME val[t] <= 0 PROVE \A i \in 1..v : i \notin negative
  <2>1. \A i \in 1..v : i \in (val[t] + 1)..v
    BY <1>3, <1>5
  <2> QED BY <1>2, <1>4, <2>1 DEF Purging
<1>6. ASSUME val[t] <= 0 PROVE Store!Purged(v, 0, First(t)) = Gone(t, v)
  <2>1. \A i \in First(t) : 0 < i /\ val[t] < i
    BY <1>3, <1>4, <1>6
  <2> QED BY <2>1 DEF Gone, Store!Purged
<1> QED BY <1>1, <1>2, <1>3, <1>4, <1>5, <1>6 DEF LoopFrame, SameAttrs

LEMMA ResetRevisionReturns ==
  ASSUME NEW t \in Tasks, IInv, SInv, Follows(t), ResetRevision(t)
  PROVE  Store!Next
<1> USE TasksAssumption
<1>1. /\ pc[t] = "reset" /\ pc'[t] = "idle" /\ TypeOK /\ LoopAt(t) /\ rev' = -1
      /\ result'[t] = IF dent[t] = "unlinked" THEN "ok" ELSE "ENOTTY"
      /\ UNCHANGED <<file, text, young, saved, restored, cache, calls>>
  BY DEF ResetRevision, Return, Go, IInv, TypeOK, SInv, InCall
<1>2. Shows(Reply(asked.op, result'[t], asked.out))
  BY <1>1, ReturnShows
<1>3. ask[t] = Nil /\ val[t] <= 0
  BY <1>1 DEF LoopAt, Looping
<1>4. PICK v \in Fetched(shown.rev) :
         /\ Purging(t, v)
         /\ Store!Purged(v, 0, First(t)) = Gone(t, v)
         /\ \A i \in 1..v : i \notin negative
  BY <1>1, <1>3, LoopStands DEF Looping
<1>5. result'[t] = IF Store!Purged(v, 0, First(t)) = {} THEN "ENOTTY" ELSE "ok"
  BY <1>1, <1>4 DEF Purging
<1>6. /\ saved = Store!Without(shown.saved, Store!Purged(v, 0, First(t)))
      /\ warm = First(t) \ Store!Purged(v, 0, First(t))
  BY <1>4 DEF Purging
<1>7. shown'.rev \in Store!Stored(shown.rev, -1)
  BY <1>1, <1>2, ShowsDoes DEF Store!Stored
<1>8. /\ shown'.file = file /\ shown'.text = text /\ shown'.restored = restored
      /\ shown'.saved = saved /\ shown'.warm = warm /\ shown'.negative = negative
      /\ shown'.young = young
      /\ shown'.reply = Reply(asked.op, result'[t], asked.out)
  BY <1>1, <1>2, ShowsDoes DEF cache
<1>9. \A i \in (0 + 1)..v : i \notin negative
  BY <1>4
<1> QED BY <1>1, <1>3, <1>5, <1>6, <1>7, <1>8, <1>9, IsLoop DEF Looping

LEMMA FindNextReturns ==
  ASSUME NEW t \in Tasks, IInv, SInv, Follows(t), FindNext(t), pc'[t] = "idle"
  PROVE  Store!Next
<1> USE TasksAssumption
<1>1. /\ pc[t] = "loop" /\ TypeOK /\ UNCHANGED <<disk, cache, calls>>
  BY DEF FindNext, IInv
<1>2. val[t] <= 0 /\ ask[t] # Nil /\ result'[t] = "ok"
  BY <1>1 DEF FindNext, Return, Go, TypeOK
<1>3. Shows(Reply(asked.op, "ok", asked.out))
  BY <1>1, <1>2, ReturnShows
<1>4. PICK v \in Fetched(shown.rev) :
         /\ Purging(t, v) /\ rev = shown.rev
         /\ Store!Purged(v, 0, First(t)) = Gone(t, v)
         /\ \A i \in 1..v : i \notin negative
  BY <1>1, <1>2, LoopStands DEF Looping
<1>5. /\ saved = Store!Without(shown.saved, Store!Purged(v, 0, First(t)))
      /\ warm = First(t) \ Store!Purged(v, 0, First(t))
  BY <1>4 DEF Purging
<1>6. /\ shown'.file = file /\ shown'.text = text /\ shown'.restored = restored
      /\ shown'.saved = saved /\ shown'.warm = warm /\ shown'.negative = negative
      /\ shown'.young = young /\ shown'.rev = shown.rev
      /\ shown'.reply = Reply(asked.op, "ok", asked.out)
  BY <1>1, <1>3, <1>4, ShowsDoes DEF disk, attrs, cache
<1>7. \A i \in (0 + 1)..v : i \notin negative
  BY <1>4
<1> QED BY <1>1, <1>2, <1>5, <1>6, <1>7, IsLoop DEF Looping

LEMMA PurgeNextReturns ==
  ASSUME NEW t \in Tasks, IInv, SInv, Follows(t), PurgeNext(t), pc'[t] = "idle"
  PROVE  Store!Next
<1> USE TasksAssumption
<1>1. pc[t] = "purge" /\ TypeOK /\ LoopAt(t)
  BY DEF PurgeNext, IInv, SInv, InCall
<1>2. ASSUME Unlinked(t, "loop") PROVE FALSE
  <2>1. pc'[t] = "loop"
    BY <1>1, <1>2, UnlinkedDoes
  <2> QED BY <2>1
<1>3. /\ result'[t] = "ENOENT" /\ dent[t] # "there" /\ UNCHANGED <<disk, cache, calls>>
  BY <1>1, <1>2, NotUnlinkedDoes DEF PurgeNext
<1>4. Shows(Reply(asked.op, "ENOENT", asked.out))
  BY <1>1, <1>3, ReturnShows
<1>5. val[t] > 0 /\ val[t] \in negative
  BY <1>1, <1>3 DEF LoopAt, Looping, TypeOK
<1>6. PICK v \in Fetched(shown.rev) :
         /\ Purging(t, v) /\ rev = shown.rev /\ v \in Int /\ val[t] \in Int
         /\ negative = shown.negative
  BY <1>1, LoopStands DEF Looping
<1>7. /\ saved = Store!Without(shown.saved, Store!Purged(v, val[t], First(t)))
      /\ warm = First(t) \ Store!Purged(v, val[t], First(t))
      /\ val[t] <= v /\ \A i \in (val[t] + 1)..v : i \notin negative
  BY <1>6 DEF Purging, Gone
<1>8. /\ shown'.file = file /\ shown'.text = text /\ shown'.restored = restored
      /\ shown'.saved = saved /\ shown'.warm = warm /\ shown'.negative = negative
      /\ shown'.young = young /\ shown'.rev = shown.rev
      /\ shown'.reply = Reply(asked.op, "ENOENT", asked.out)
  BY <1>3, <1>4, <1>6, ShowsDoes DEF disk, attrs, cache
<1>9. "ENOENT" = Store!LoopErr(val[t])
  BY <1>5, <1>6 DEF Store!LoopErr
<1>10. val[t] \in 1..v /\ val[t] # 0
  BY <1>5, <1>6, <1>7
<1> QED BY <1>1, <1>5, <1>7, <1>8, <1>9, <1>10, IsLoop DEF Looping

\* A restore that does not get as far as the loop.
LEMMA IsRestore ==
  ASSUME NEW t \in Tasks, IInv, SInv, pc[t] \in {"restored", "fill"},
         shown'.file = file, shown'.text = text, shown'.rev = rev,
         shown'.young = young,
         Store!RestoreRefused(ask[t]) \/ Store!RestoreEmpty(ask[t])
  PROVE  Store!Next
<1>1. /\ ask[t] \in Requests /\ text = shown.text /\ SameAttrs
      /\ file = Store!Removed /\ shown.file # "none"
  BY DEF SInv, InCall, RestoreAt, Delivering, Alone
<1>2. Store!Restore(ask[t])
  BY <1>1 DEF Store!Restore, SameAttrs
<1> QED BY <1>1, <1>2 DEF Store!Next

LEMMA UnlinkFileReturns ==
  ASSUME NEW t \in Tasks, IInv, SInv, UnlinkFile(t)
  PROVE  pc'[t] # "idle"
BY DEF UnlinkFile, SInv, InCall, RestoreAt, Delivering, Go, IInv, TypeOK

LEMMA CreateRestoredReturns ==
  ASSUME NEW t \in Tasks, IInv, SInv, Follows(t), CreateRestored(t), pc'[t] = "idle"
  PROVE  Store!Next
<1>1. /\ pc[t] = "restored" /\ TypeOK /\ RestoreAt(t)
      /\ UNCHANGED <<file, text, attrs, saved, cache, calls>>
  BY DEF CreateRestored, IInv, SInv, InCall
<1>2. restored # Nil /\ restored' = restored /\ result'[t] = "EEXIST"
  BY <1>1 DEF CreateRestored, Return, Go, TypeOK
<1>3. Shows(Reply("restore", "EEXIST", <<ask[t]>>))
  BY <1>1, <1>2, ReturnShows DEF RestoreAt, Delivering
<1>4. SameStore /\ restored = shown.restored
  BY <1>1 DEF RestoreAt, Delivering
<1>5. Store!RestoreRefused(ask[t])
  BY <1>1, <1>2, <1>3, <1>4, ShowsDoes
     DEF Store!RestoreRefused, Store!Answer, Reply, SameStore, Store!cache, cache
<1> QED BY <1>1, <1>3, <1>5, ShowsDoes, IsRestore DEF attrs

LEMMA FillRestoredReturns ==
  ASSUME NEW t \in Tasks, IInv, SInv, Follows(t), FillRestored(t), pc'[t] = "idle"
  PROVE  Store!Next
<1>1. /\ pc[t] = "fill" /\ TypeOK /\ RestoreAt(t) /\ CacheLookup(ask[t])
      /\ UNCHANGED <<file, text, attrs, saved, calls>>
  BY DEF FillRestored, IInv, SInv, InCall
<1>2. ask[t] \notin DOMAIN saved /\ restored' = restored /\ result'[t] = "ENOENT"
  BY <1>1 DEF FillRestored, Return, Go, TypeOK
<1>3. Shows(Reply("restore", "ENOENT", <<ask[t]>>))
  BY <1>1, <1>2, ReturnShows DEF RestoreAt, Delivering
<1>4. SameStore /\ restored = Broken /\ shown.restored = Nil
  BY <1>1 DEF RestoreAt, Delivering
<1>5. Store!CacheLookup(ask[t])
  BY <1>1, <1>3, <1>4, ShowsDoes DEF CacheLookup, Store!CacheLookup, SameStore
<1>6. Store!RestoreEmpty(ask[t])
  BY <1>1, <1>2, <1>3, <1>4, <1>5, ShowsDoes
     DEF Store!RestoreEmpty, Store!Answer, Reply, SameStore, Broken, Store!Broken
<1> QED BY <1>1, <1>3, <1>6, ShowsDoes, IsRestore DEF attrs

\* The steps that never return.
LEMMA OthersGoOn ==
  ASSUME NEW t \in Tasks, IInv, SInv, pc'[t] = "idle",
         \/ TakeNumber(t) \/ SetRevision(t) \/ SetYoungest(t) \/ FindOutdated(t)
         \/ LookupNew(t) \/ Copy(t) \/ LowerRevision(t) \/ CountVersions(t)
         \/ FindFile(t) \/ UnlinkFile(t)
  PROVE  FALSE
BY UnlinkFileReturns
DEF TakeNumber, SetRevision, SetYoungest, FindOutdated, LookupNew, Copy,
    LowerRevision, CountVersions, FindFile, Go, IInv, TypeOK

LEMMA AdvanceImplements ==
  ASSUME NEW t \in Tasks, IInv, SInv, SerialAdvance(t)
  PROVE  Store!Next \/ shown' = shown
<1>1. Follows(t) /\ Advance(t)
  BY DEF SerialAdvance, Follows
<1>2. CASE pc'[t] # "idle"
  BY <1>1, <1>2 DEF Follows
<1>3. CASE pc'[t] = "idle"
  BY <1>1, <1>3, OthersGoOn, ExpireReturns, CreateNewReturns, LowerWriteReturns,
     FindVersionReturns, UnlinkVersionReturns, CompareYoungestReturns,
     LowerYoungestReturns, ResetRevisionReturns, FindNextReturns, PurgeNextReturns,
     CreateRestoredReturns, FillRestoredReturns
  DEF Advance
<1> QED BY <1>2, <1>3

-----------------------------------------------------------------------------
(* The refinement: what is not a step of a call.                               *)
LEMMA BeginImplements ==
  ASSUME NEW t \in Tasks, IInv, SInv, SerialBegin(t)
  PROVE  Store!Next \/ shown' = shown
<1>1. CASE shown' = shown
  BY <1>1
<1>2. ASSUME NEW v \in Requests, View(t, v), Shows(Viewed(v)) PROVE Store!Next
  <2>1. Kept /\ SameAttrs /\ SameStore
    BY DEF SerialBegin, SInv, Shown
  <2>2. file # "none" /\ CacheLookup(v) /\ UNCHANGED disk
    BY <1>2 DEF View, Start, CacheLookup, disk, attrs, cache
  <2>3. Store!CacheLookup(v)
    BY <1>2, <2>1, <2>2, ShowsDoes DEF CacheLookup, Store!CacheLookup, SameStore
  <2>4. Store!View(v)
    BY <1>2, <2>1, <2>2, <2>3, ShowsDoes
       DEF Viewed, Reply, Store!View, Store!Answer, Store!disk, Kept, SameAttrs, SameStore,
           disk, attrs
  <2> QED BY <2>4 DEF Store!Next
<1> QED BY <1>1, <1>2 DEF SerialBegin, Asks

LEMMA OtherImplements ==
  ASSUME IInv, SInv, SerialOther
  PROVE  Store!Next
<1> USE DEF Store!Answer, Store!Done, Reply, Other, Store!cache, cache, attrs
<1>1. Kept /\ SameAttrs /\ SameStore
  BY DEF SerialOther, Forget, Collect, Create, SInv, Shown, Alone, AtRest
<1>2. CASE Forget /\ Shows(Other)
  BY <1>1, <1>2, ShowsDoes DEF Forget, Store!Forget, Store!Next, Kept, SameAttrs, SameStore
<1>3. CASE Collect /\ Shows(Other)
  BY <1>1, <1>3, ShowsDoes DEF Collect, Store!Collect, Store!Next, Kept, SameAttrs, SameStore
<1>4. CASE Create /\ Shows(Reply("create", "ok", <<>>))
  <2>1. rev = Nil /\ young = Nil
    BY <1>4 DEF Create, SInv, Bare
  <2>2. text < MaxCalls
    BY <1>4, TasksAssumption DEF Create, SInv, Bounded, IInv, TypeOK
  <2>3. Store!Create
    BY <1>1, <1>4, <2>1, <2>2, ShowsDoes
       DEF Create, Store!Create, Kept, SameAttrs, SameStore
  <2> QED BY <2>3 DEF Store!Next
<1> QED BY <1>2, <1>3, <1>4 DEF SerialOther

\* A reboot, at rest or as the end of a crash.
LEMMA RecoverImplements ==
  ASSUME IInv, SInv, Recover
  PROVE  Store!Next
<1>1. Store!Reboot
  BY DEF Recover, Now, Other, Reply, SInv, Shown, SameAttrs, Store!Reboot, Store!Done,
         Store!Answer
<1> QED BY <1>1 DEF Store!Next

LEMMA RebootImplements ==
  ASSUME IInv, SInv, Crash, ~late, AtRest, Shows(Other)
  PROVE  Store!Next
<1>1. Kept /\ SameAttrs /\ SameStore
  BY DEF SInv, Shown
<1>2. Store!Reboot
  BY <1>1, ShowsDoes
     DEF Crash, Other, Reply, Kept, SameAttrs, SameStore, attrs, Store!Reboot,
         Store!Done, Store!Answer
<1> QED BY <1>2 DEF Store!Next

-----------------------------------------------------------------------------
(* The refinement: a crash in a call.                                          *)

\* What is shown of a crash in the call of t.
CutShown(t) ==
  /\ shown'.file = file /\ shown'.text = text /\ shown'.rev = rev
  /\ shown'.young = young /\ shown'.saved = saved /\ shown'.warm = warm
  /\ shown'.negative = negative /\ shown'.restored = restored
  /\ shown'.reply = Reply(asked.op, Cut(t), asked.out)

\* The failures a crash looks like are among those of the store.
LEMMA CutFails ==
  ASSUME Crashes, NEW c \in CutCalls
  PROVE  Store!Fails(c)
BY DEF Store!Fails

\* A crash before the outdated backup is unlinked.
LEMMA CutBeforeExpiry ==
  ASSUME NEW t \in Tasks, IInv, SInv, Crashes, CutShown(t),
         pc[t] \in {"setyoung", "outdated", "expire"}
  PROVE  Store!Next
<1> USE TasksAssumption
<1>1. /\ Kept /\ SameStore /\ rev = val[t] /\ young \in {val[t], shown.young}
      /\ asked.op = "write" /\ asked.out = <<val[t]>> /\ val[t] \in Int /\ ShownTyped
  BY DEF SInv, InCall, WriteAt, Taken, Numbering, IInv, TypeOK
<1>2. shown'.reply = [op |-> "write", err |-> RetentionCut(t), out |-> <<val[t]>>]
  BY <1>1 DEF CutShown, Reply, Cut
<1>3. Store!Fails("setxattr") /\ Store!Fails("unlink") /\ Store!Fails("alloc")
  BY CutFails DEF CutCalls
<1>4. Store!Renumber(val[t])
  BY <1>1, <1>3 DEF CutShown, Store!Renumber, Store!Stored
<1>5. CASE Store!Outdated(val[t]) \cap negative # {}
  <2>1. RetentionCut(t) = "ENOENT"
    BY <1>1, <1>5 DEF RetentionCut, Store!Outdated
  <2>2. Store!RetentionFails(val[t])
    BY <1>1, <1>2, <1>5, <2>1
       DEF CutShown, Kept, SameStore, Store!RetentionFails, Store!Answer, Store!cache
  <2> QED BY <1>4, <2>2, IsWrite DEF Numbering
<1>6. CASE /\ Store!Outdated(val[t]) \cap negative = {}
           /\ Store!Outdated(val[t]) \cap warm # {}
  <2>1. RetentionCut(t) = "EIO"
    BY <1>1, <1>6 DEF RetentionCut, Store!Outdated
  <2>2. Store!RetentionFails(val[t])
    BY <1>1, <1>2, <1>3, <1>6, <2>1
       DEF CutShown, Kept, SameStore, Store!RetentionFails, Store!Answer, Store!cache
  <2> QED BY <1>4, <2>2, IsWrite DEF Numbering
<1>7. CASE /\ Store!Outdated(val[t]) \cap negative = {}
           /\ Store!Outdated(val[t]) \cap warm = {}
  <2>1. RetentionCut(t) = "ENOMEM"
    BY <1>1, <1>7 DEF RetentionCut, Store!Outdated
  <2>2. Store!Expired(val[t]) = {}
    BY <1>1, <1>7 DEF Store!Expired, SameStore
  <2>3. Rest(val[t]) = shown.saved /\ RestWarm(val[t]) = shown.warm
    BY <1>1, <2>2, NothingExpired DEF ShownTyped, Broken
  <2>4. Store!BackupFails(val[t])
    BY <1>1, <1>2, <1>3, <1>7, <2>1, <2>3
       DEF CutShown, Kept, SameStore, Store!BackupFails, Store!Answer, Rest, RestWarm
  <2> QED BY <1>4, <2>4, IsWrite DEF Numbering
<1> QED BY <1>5, <1>6, <1>7

\* A crash after that, before the lower write.
LEMMA CutBeforeWrite ==
  ASSUME NEW t \in Tasks, IInv, SInv, Crashes, CutShown(t),
         pc[t] \in {"lookup", "create", "copy", "write"}
  PROVE  Store!Next
<1>1. /\ Kept /\ rev = val[t] /\ young = val[t]
      /\ asked.op = "write" /\ asked.out = <<val[t]>> /\ WriteAt(t)
      /\ Store!Outdated(val[t]) \cap shown.negative = {}
  BY DEF SInv, InCall, WriteAt, Taken, Numbering
<1>2. shown'.reply = [op |-> "write", err |-> Cut(t), out |-> <<val[t]>>]
  BY <1>1 DEF CutShown, Reply
<1>3. /\ Store!Fails("alloc") /\ Store!Fails("create") /\ Store!Fails("open")
      /\ Store!Fails("write")
  BY CutFails DEF CutCalls
<1>4. Store!Renumber(val[t])
  BY <1>1 DEF CutShown, Store!Renumber, Store!Stored
<1>5. CASE pc[t] = "lookup"
  <2>1. /\ Cut(t) = "ENOMEM" /\ saved = Rest(val[t]) /\ warm = RestWarm(val[t])
        /\ negative = shown.negative
    BY <1>1, <1>5 DEF Cut, WriteAt, Numbering
  <2>2. Store!BackupFails(val[t])
    BY <1>1, <1>2, <1>3, <2>1
       DEF CutShown, Kept, Rest, RestWarm, Store!BackupFails, Store!Answer
  <2> QED BY <1>4, <2>2, IsWrite DEF Numbering
<1>6. CASE pc[t] = "create"
  <2>1. /\ Cut(t) = IF dent[t] = "there" THEN "EEXIST" ELSE "EIO"
        /\ saved = Rest(val[t])
        /\ \/ /\ val[t] \in DOMAIN shown.saved /\ dent[t] = "there"
              /\ warm = RestWarm(val[t]) \cup {val[t]} /\ negative = shown.negative
           \/ /\ val[t] \notin DOMAIN shown.saved /\ dent[t] = "missing"
              /\ warm = RestWarm(val[t]) /\ negative = shown.negative \cup {val[t]}
    BY <1>1, <1>6 DEF Cut, WriteAt, Numbering
  <2>2. Store!BackupFails(val[t])
    BY <1>1, <1>2, <1>3, <2>1
       DEF CutShown, Kept, Rest, RestWarm, Store!BackupFails, Store!Answer, Store!Taken
  <2> QED BY <1>4, <2>2, IsWrite DEF Numbering
<1>7. CASE pc[t] \in {"copy", "write"}
  <2>1. /\ Cut(t) = "EIO" /\ val[t] \notin DOMAIN shown.saved
        /\ warm = RestWarm(val[t]) \cup {val[t]}
        /\ negative = shown.negative \ {val[t]}
        /\ pc[t] = "copy" => saved = Store!Put(Rest(val[t]), val[t], Broken)
        /\ pc[t] = "write" => saved = Store!Put(Rest(val[t]), val[t], shown.text)
    BY <1>1, <1>7 DEF Cut, WriteAt, Numbering, Kept
  <2>2. shown.text \in Store!Copies(shown.text)
    BY DEF Store!Copies
  <2>3. Store!BackupMade(val[t])
    BY <1>1, <1>2, <1>3, <1>7, <2>1, <2>2
       DEF CutShown, Kept, Rest, RestWarm, Store!BackupMade, Store!Answer, Store!Taken,
           Store!LowerWrite, Broken, Store!Broken
  <2> QED BY <1>4, <1>7, <2>3, IsWrite DEF Numbering
<1> QED BY <1>5, <1>6, <1>7

\* A crash in a delete that has unlinked its version.
LEMMA CutAfterUnlink ==
  ASSUME NEW t \in Tasks, IInv, SInv, Crashes, CutShown(t),
         pc[t] \in {"compare", "lowerrev", "loweryoung"}
  PROVE  Store!Next
<1>1. /\ asked = [op |-> "delete", out |-> <<val[t]>>] /\ young = shown.young
      /\ pc[t] # "loweryoung" => rev = shown.rev
      /\ pc[t] = "loweryoung" => rev = val[t] - 1 /\ val[t] \in Fetched(shown.young)
  BY DEF SInv, InCall, DeleteAt, Deleting
<1>2. shown'.reply = Reply("delete", "ok", <<val[t]>>)
  BY <1>1 DEF CutShown, Cut
<1>3. Store!Fails("setxattr")
  BY CutFails DEF CutCalls
<1>4. CASE pc[t] = "loweryoung"
  <2>1. Store!Renumber(val[t] - 1)
    BY <1>1, <1>3, <1>4 DEF CutShown, Store!Renumber, Store!Stored
  <2> QED BY <1>1, <1>2, <1>4, <2>1, IsDeleted DEF CutShown
<1>5. CASE pc[t] # "loweryoung"
  <2>1. PICK y \in Fetched(shown.young) : TRUE
    BY TasksAssumption DEF Fetched
  <2>2. Store!Renumber(val[t] - 1) /\ shown'.rev = shown.rev /\ shown'.young = shown.young
    BY <1>1, <1>3, <1>5 DEF CutShown, Store!Renumber, Store!Stored
  <2> QED BY <1>2, <2>1, <2>2, IsDeleted DEF CutShown
<1> QED BY <1>4, <1>5

\* A crash in a restore before the loop.
LEMMA CutBeforeLoop ==
  ASSUME NEW t \in Tasks, IInv, SInv, Crashes, CutShown(t), pc[t] \in {"restored", "fill"}
  PROVE  Store!Next
<1>1. /\ asked = [op |-> "restore", out |-> <<ask[t]>>] /\ SameStore
      /\ pc[t] = "fill" => shown.restored = Nil /\ restored = Broken
      /\ pc[t] # "fill" => restored = shown.restored
  BY DEF SInv, InCall, RestoreAt, Delivering
<1>2. shown'.reply = [op |-> "restore", err |-> Cut(t), out |-> <<ask[t]>>]
  BY <1>1 DEF CutShown, Reply
<1>3. Store!Fails("alloc") /\ Store!Fails("lookup")
  BY CutFails DEF CutCalls
<1>4. CASE pc[t] = "restored"
  <2>1. Cut(t) = "ENOMEM"
    BY <1>4 DEF Cut
  <2>2. Store!RestoreRefused(ask[t])
    BY <1>1, <1>2, <1>3, <1>4, <2>1
       DEF CutShown, SameStore, Store!RestoreRefused, Store!Answer, Store!cache
  <2> QED BY <1>4, <2>2, IsRestore DEF CutShown
<1>5. CASE pc[t] = "fill"
  <2>1. Cut(t) = "EIO"
    BY <1>5 DEF Cut
  <2>2. Store!RestoreEmpty(ask[t])
    BY <1>1, <1>2, <1>3, <1>5, <2>1
       DEF CutShown, SameStore, Store!RestoreEmpty, Store!Answer, Store!cache, Broken,
           Store!Broken
  <2> QED BY <1>5, <2>2, IsRestore DEF CutShown
<1> QED BY <1>4, <1>5

\* There is always a place where the loop stops: the largest number that is cached
\* among 1..i, or 0.
Less == {ss \in Nat \X Nat : ss[1] < ss[2]}

LEMMA LessWellFounded == IsWellFoundedOn(Less, Nat)
BY NatLessThanWellFounded, Zenon DEF OpToRel, Less

LEMMA Largest ==
  ASSUME NEW i \in Nat, NEW T
  PROVE  \E s \in 0..i : /\ s = 0 \/ s \in T
                         /\ \A j \in (s + 1)..i : j \notin T
<1> DEFINE S == {s \in 0..i : s = 0 \/ s \in T}
           D == {d \in 0..i : i - d \in S}
<1>1. D \subseteq Nat /\ i \in D
  OBVIOUS
<1>2. PICK d \in D : \A e \in D : ~(<<e, d>> \in Less)
  BY <1>1, LessWellFounded, WFMin
<1>3. \A e \in D : ~(e < d)
  BY <1>1, <1>2 DEF Less
<1>4. i - d \in S /\ d \in 0..i
  OBVIOUS
<1>5. ASSUME NEW j \in (i - d + 1)..i PROVE j \notin T
  <2>1. i - j \in 0..i /\ i - j < d /\ i - (i - j) = j /\ j \in 0..i
    BY <1>4
  <2> QED BY <2>1, <1>3
<1> QED BY <1>4, <1>5

LEMMA StopIs ==
  ASSUME NEW i \in Int
  PROVE  /\ Stop(i) = 0 \/ (Stop(i) \in 1..i /\ Hashed(Stop(i)))
         /\ \A j \in (Stop(i) + 1)..i : ~Hashed(j)
<1>1. CASE i <= 0
  BY <1>1 DEF Stop
<1>2. CASE i > 0
  <2> DEFINE Ends(s) == (s = 0 \/ Hashed(s)) /\ \A j \in (s + 1)..i : ~Hashed(j)
  <2>1. \E s \in 0..i : Ends(s)
    <3> DEFINE T == warm \cup negative
    <3>1. \E s \in 0..i : (s = 0 \/ s \in T) /\ \A j \in (s + 1)..i : j \notin T
      <4>1. i \in Nat
        BY <1>2
      <4> HIDE DEF T
      <4> QED BY <4>1, Largest
    <3> QED BY <3>1 DEF Hashed
  <2>2. Stop(i) = CHOOSE s \in 0..i : Ends(s)
    BY <1>2 DEF Stop
  <2>3. Stop(i) \in 0..i /\ Ends(Stop(i))
    BY <2>1, <2>2
  <2> QED BY <2>3
<1> QED BY <1>1, <1>2

\* A loop that was to go on from i, where the backups cached above i are gone, goes
\* no further down than Stop(i) without a failure, and deletes nothing before.
LEMMA StopsThere ==
  ASSUME NEW t \in Tasks, NEW v \in Int, NEW i \in Int, NEW gone, i <= v,
         v > 0 => i >= 0,
         First(t) \subseteq Nat \ {0},
         gone = Store!Purged(v, i, First(t)), warm = First(t) \ gone,
         \A j \in (i + 1)..v : j \notin negative
  PROVE  /\ Stop(i) = 0 \/ Stop(i) \in 1..v
         /\ Stop(i) = 0 \/ Stop(i) \in negative \/ Stop(i) \in First(t)
         /\ \A j \in (Stop(i) + 1)..v : j \notin negative
         /\ Store!Purged(v, Stop(i), First(t)) = gone
<1>1. /\ Stop(i) = 0 \/ (Stop(i) \in 1..i /\ Hashed(Stop(i)))
      /\ \A j \in (Stop(i) + 1)..i : ~Hashed(j)
  BY StopIs
<1>2. ASSUME NEW j \in (Stop(i) + 1)..v PROVE j \notin negative
  <2>1. CASE j <= i
    BY <1>1, <2>1 DEF Hashed
  <2>2. CASE j > i
    BY <1>1, <2>2
  <2> QED BY <1>1, <2>1, <2>2
<1>3. ASSUME NEW j \in First(t), Stop(i) < j, j <= i PROVE FALSE
  <2>1. j \notin gone
    BY <1>3 DEF Store!Purged
  <2>2. j \in warm /\ j \in (Stop(i) + 1)..i
    BY <1>1, <1>3, <2>1
  <2> QED BY <1>1, <2>2 DEF Hashed
<1>4. ASSUME NEW j \in First(t) PROVE (Stop(i) < j /\ j <= v) <=> (i < j /\ j <= v)
  <2>1. i < j => Stop(i) < j
    BY <1>1, <1>4
  <2>2. Stop(i) < j => i < j
    BY <1>1, <1>3, <1>4
  <2> QED BY <2>1, <2>2
<1>5. Store!Purged(v, Stop(i), First(t)) = gone
  BY <1>4 DEF Store!Purged
<1> QED BY <1>1, <1>2, <1>5 DEF Hashed

\* Where the crash finds the loop: it began at v, and was to look at Begins(t).
LEMMA LoopBegins ==
  ASSUME NEW t \in Tasks, IInv, SInv, pc[t] \in Looping
  PROVE  \E v \in Fetched(shown.rev) :
           LET i == Begins(t) IN
           /\ v \in Int /\ i \in Int /\ i <= v /\ (v > 0 => i >= 0)
           /\ First(t) \subseteq Nat \ {0}
           /\ saved = Store!Without(shown.saved, Store!Purged(v, i, First(t)))
           /\ warm = First(t) \ Store!Purged(v, i, First(t))
           /\ \A j \in (i + 1)..v : j \notin negative
           /\ dent[t] = "unlinked" =>
                pc[t] # "purge" /\ Store!Purged(v, i, First(t)) # {}
           /\ pc[t] # "purge" /\ Store!Purged(v, i, First(t)) # {} => dent[t] = "unlinked"
           /\ pc[t] = "purge" => i > 0 /\ Hashed(i)
<1> USE TasksAssumption
<1>1. CASE pc[t] = "count"
  <2>1. LoopFrame(t) /\ ShownTyped /\ saved = shown.saved /\ warm = First(t)
        /\ dent[t] = "none"
    BY <1>1 DEF SInv, InCall, LoopAt, LoopFrame, Looping
  <2>2. Begins(t) \in Fetched(shown.rev)
    <3>1. \E v \in Fetched(rev) : TRUE
      BY DEF Fetched
    <3> QED BY <1>1, <2>1, <3>1 DEF Begins, LoopFrame, SameAttrs
  <2>3. Begins(t) \in Int
    BY <2>1, <2>2 DEF Fetched, ShownTyped
  <2>4. First(t) \subseteq Nat \ {0}
    BY <2>1 DEF First, ShownTyped, LoopFrame
  <2>5. Store!Purged(Begins(t), Begins(t), First(t)) = {}
    BY <2>3, <2>4 DEF Store!Purged
  <2>6. saved = Store!Without(shown.saved, {})
    BY <2>1, WithoutNone DEF ShownTyped
  <2> QED BY <1>1, <2>1, <2>2, <2>3, <2>4, <2>5, <2>6
<1>2. CASE pc[t] # "count"
  <2>1. Begins(t) = val[t]
    BY <1>2 DEF Begins
  <2>2. PICK v \in Fetched(shown.rev) :
           /\ Purging(t, v) /\ v \in Int /\ val[t] \in Int
           /\ First(t) \subseteq Nat \ {0} /\ negative = shown.negative
    BY <1>2, LoopStands
  <2>3. pc[t] = "purge" => /\ val[t] > 0 /\ on[t] = val[t]
                           /\ dent[t] \in {"there", "missing"} /\ Hashed(val[t])
    BY DEF SInv, InCall, LoopAt, Looping, IInv, TypeOK, Hashed
  <2> QED BY <1>2, <2>1, <2>2, <2>3 DEF Purging, Gone, Looping
<1> QED BY <1>1, <1>2

\* A crash in the loop.
LEMMA CutInLoop ==
  ASSUME NEW t \in Tasks, IInv, SInv, Crashes, CutShown(t), pc[t] \in Looping
  PROVE  Store!Next
<1> DEFINE i == Begins(t)
           s == Stop(Begins(t))
<1>1. PICK v \in Fetched(shown.rev) :
         /\ v \in Int /\ i \in Int /\ i <= v /\ (v > 0 => i >= 0)
         /\ First(t) \subseteq Nat \ {0}
         /\ saved = Store!Without(shown.saved, Store!Purged(v, i, First(t)))
         /\ warm = First(t) \ Store!Purged(v, i, First(t))
         /\ \A j \in (i + 1)..v : j \notin negative
         /\ dent[t] = "unlinked" =>
              pc[t] # "purge" /\ Store!Purged(v, i, First(t)) # {}
         /\ pc[t] # "purge" /\ Store!Purged(v, i, First(t)) # {} => dent[t] = "unlinked"
         /\ pc[t] = "purge" => i > 0 /\ Hashed(i)
  BY LoopBegins
<1>2. LoopFrame(t)
  BY DEF SInv, InCall, LoopAt, LoopFrame, Looping
<1>3. /\ s = 0 \/ s \in 1..v
      /\ s = 0 \/ s \in negative \/ s \in First(t)
      /\ \A j \in (s + 1)..v : j \notin negative
      /\ Store!Purged(v, s, First(t)) = Store!Purged(v, i, First(t))
  BY <1>1, StopsThere
<1>4. Cut(t) = LoopCut(t, s)
  BY DEF Cut, Looping
<1>5. Store!Fails("unlink") /\ Store!Fails("setxattr")
  BY CutFails DEF CutCalls
<1>6. s # 0 => Cut(t) = Store!LoopErr(s)
  BY <1>2, <1>4 DEF LoopCut, Store!LoopErr, LoopFrame
<1>7. s = 0 => pc[t] # "purge"
  <2>1. ASSUME pc[t] = "purge", s = 0 PROVE FALSE
    <3>1. i \in (s + 1)..i
      BY <1>1, <2>1
    <3> QED BY <1>1, <2>1, <3>1, StopIs
  <2> QED BY <2>1
<1>8. s = 0 => IF ask[t] = Nil
               THEN Cut(t) = IF Store!Purged(v, 0, First(t)) = {} THEN "ENOTTY" ELSE "ok"
               ELSE Cut(t) = "ok"
  BY <1>1, <1>3, <1>4, <1>7 DEF LoopCut
<1>9. shown'.rev = shown.rev /\ shown'.rev \in Store!Stored(shown.rev, -1)
  BY <1>2, <1>5 DEF CutShown, LoopFrame, SameAttrs, Store!Stored
<1>10. /\ saved = Store!Without(shown.saved, Store!Purged(v, s, First(t)))
       /\ warm = First(t) \ Store!Purged(v, s, First(t))
  BY <1>1, <1>3
<1>11. /\ shown'.file = file /\ shown'.text = text /\ shown'.restored = restored
       /\ shown'.saved = saved /\ shown'.warm = warm /\ shown'.negative = negative
       /\ shown'.young = young
       /\ shown'.reply = Reply(asked.op, Cut(t), asked.out)
  BY DEF CutShown
<1> HIDE DEF i, s
<1> QED BY <1>3, <1>5, <1>6, <1>8, <1>9, <1>10, <1>11, IsLoop

LEMMA CrashImplements ==
  ASSUME IInv, SInv, SerialCrash
  PROVE  Store!Next \/ shown' = shown
<1>1. CASE AtRest /\ Shows(Other)
  BY <1>1, RebootImplements DEF SerialCrash
<1>2. CASE CrashInCall
  <2>1. PICK t \in Tasks : /\ pc[t] # "idle"
                           /\ shown' = IF Traceless(t) THEN shown
                                       ELSE Now(Reply(asked.op, Cut(t), asked.out))
    BY <1>2 DEF CrashInCall
  <2>2. CASE Traceless(t)
    BY <2>1, <2>2
  <2>3. CASE ~Traceless(t)
    <3>1. CutShown(t) /\ Crashes
      BY <2>1, <2>3 DEF CutShown, Now, SerialCrash, Crash
    <3>2. pc[t] \in {"setyoung", "outdated", "expire"}
            \cup {"lookup", "create", "copy", "write"}
            \cup {"compare", "lowerrev", "loweryoung"}
            \cup {"restored", "fill"} \cup Looping
      BY <2>1, <2>3 DEF Traceless, Steps, IInv, TypeOK, Looping
    <3> QED BY <3>1, <3>2, CutBeforeExpiry, CutBeforeWrite, CutAfterUnlink,
               CutBeforeLoop, CutInLoop
  <2> QED BY <2>2, <2>3
<1> QED BY <1>1, <1>2 DEF SerialCrash

-----------------------------------------------------------------------------
LEMMA StepImplements ==
  SerialInv /\ [SerialNext]_serialVars => [Store!Next]_(Store!vars)
<1> SUFFICES ASSUME SerialInv, [SerialNext]_serialVars
             PROVE  Store!Next \/ UNCHANGED Store!vars
  OBVIOUS
<1>1. ASSUME shown' = shown PROVE UNCHANGED Store!vars
  BY <1>1 DEF Store!vars
<1>2. CASE UNCHANGED serialVars
  BY <1>1, <1>2 DEF serialVars, ghosts
<1>3. CASE SerialNext
  BY <1>1, <1>3, BeginImplements, AdvanceImplements, OtherImplements, CrashImplements,
     RecoverImplements
  DEF SerialNext, SerialInv
<1> QED BY <1>2, <1>3

LEMMA InitImplements == SerialInit => Store!Init
BY DEF SerialInit, Init, Now, Other, Reply, Store!Init

\* Calls that do not overlap are the atomic calls of BackupStore, whatever crashes
\* come between their steps.
THEOREM SerialImplementsStore == SerialSpec => ImplementsStore
BY SerialInvariance, StepImplements, InitImplements, PTL
DEF SerialSpec, ImplementsStore, Store!Spec

-----------------------------------------------------------------------------
(* What calls that do not overlap are worth, in the terms of BackupTasks.      *)
LEMMA SerialInformed == SerialInv => Informed
<1> SUFFICES ASSUME SerialInv PROVE Informed
  OBVIOUS
<1> IInv /\ SInv
  BY DEF SerialInv
<1>1. \A t, u \in Tasks : pc[t] # "idle" /\ pc[u] # "idle" => t = u
  BY DEF SInv, Alone
<1>2. ASSUME NEW t \in Tasks, pc[t] = "create" PROVE rev = val[t] /\ young = val[t]
  BY <1>2 DEF SInv, InCall, WriteAt, Numbering
<1>3. ASSUME NEW t \in Tasks, pc[t] = "write" PROVE dent[t] = "there" /\ saved[on[t]] = text
  <2>1. /\ dent[t] = "there" /\ saved = Store!Put(Rest(val[t]), val[t], text)
        /\ on[t] = val[t]
    BY <1>3 DEF SInv, InCall, WriteAt, Numbering, IInv, Writers, HoldsNew
  <2> QED BY <2>1 DEF Store!Put
<1>4. ASSUME NEW t \in Tasks, pc[t] = "purge", ask[t] \in DOMAIN saved
      PROVE  restored = saved[ask[t]]
  <2>1. ask[t] # Nil
    BY <1>4, TasksAssumption DEF IInv, TypeOK
  <2>2. PICK v : saved = Store!Without(shown.saved, Gone(t, v))
    BY <1>4 DEF SInv, InCall, LoopAt, Looping, Purging
  <2>3. restored = shown.saved[ask[t]]
    BY <1>4, <2>1 DEF SInv, InCall, LoopAt, Looping
  <2> QED BY <1>4, <2>2, <2>3 DEF Store!Without
<1> QED BY <1>1, <1>2, <1>3, <1>4 DEF Informed

LEMMA SerialAlways == SerialSpec => [][AloneDoes]_vars
<1>1. SerialInv /\ [SerialNext]_serialVars => [AloneDoes]_vars
  BY SerialIsNext, SerialInformed, InformedStep DEF SerialInv
<1> QED BY <1>1, SerialInvariance, PTL DEF SerialSpec

\* However many tasks there are, when their calls do not overlap a write replaces
\* only contents that are in a backup, wherever the machine has crashed before.
THEOREM SerialBackedUp == SerialSpec => BackedUpFirst
<1>1. [AloneDoes]_vars =>
        [file # "none" /\ text' # text => \E n \in DOMAIN saved : saved[n] = text]_vars
  BY DEF AloneDoes
<1> QED BY <1>1, SerialAlways, PTL DEF BackedUpFirst

\* A backup is created under the number that both attributes have.
THEOREM SerialSettles == SerialSpec => NumbersSettled
<1>1. [AloneDoes]_vars =>
        [\A n \in DOMAIN saved' \ DOMAIN saved : rev = n /\ young = n]_vars
  BY DEF AloneDoes
<1> QED BY <1>1, SerialAlways, PTL DEF NumbersSettled

\* Restore purges the version it was asked for only when it has been delivered.
THEOREM SerialDelivers == SerialSpec => RestoreLosesNothing
<1>1. [AloneDoes]_vars =>
        [\A t \in Tasks : pc[t] = "purge" /\ ask[t] = on[t] /\ saved' # saved
           => restored = saved[on[t]]]_vars
  BY DEF AloneDoes
<1> QED BY <1>1, SerialAlways, PTL DEF RestoreLosesNothing

-----------------------------------------------------------------------------
(* What the theorems about the whole calls of BackupStore say of their steps.  *)

Facts == INSTANCE BackupStoreProofs WITH
  file <- shown.file, text <- shown.text, tick <- shown.text,
  rev <- shown.rev, young <- shown.young, saved <- shown.saved,
  warm <- shown.warm, negative <- shown.negative,
  restored <- shown.restored, reply <- shown.reply,
  Faults <- (IF Crashes THEN CutCalls ELSE {}), MaxTicks <- MaxCalls

LEMMA FactsAssumption == Facts!StoreAssumption
BY TasksAssumption, SerialAssumption DEF CutCalls, Facts!StoreAssumption, Facts!FaultKinds

\* BackupStoreProofs and SerialTasks speak of the same store.
LEMMA SameCalls == Store!Next => Facts!Next
<1> USE DEF Store!Answer, Facts!Answer, Store!Done, Facts!Done, Store!Fails, Facts!Fails,
            Store!cache, Facts!cache, Store!disk, Facts!disk
<1>1. /\ Store!Create = Facts!Create /\ Store!Open = Facts!Open
      /\ Store!Unlink = Facts!Unlink /\ Store!Forget = Facts!Forget
      /\ Store!Reboot = Facts!Reboot /\ Store!Collect = Facts!Collect
  BY DEF Store!Create, Facts!Create, Store!Open, Facts!Open, Store!Unlink, Facts!Unlink,
         Store!Forget, Facts!Forget, Store!Reboot, Facts!Reboot,
         Store!Collect, Facts!Collect
<1>2. /\ Store!WriteIter = Facts!WriteIter /\ Store!Truncate = Facts!Truncate
      /\ Store!MmapStore = Facts!MmapStore
  BY DEF Store!InPlace, Facts!InPlace, Store!WriteIter, Facts!WriteIter,
         Store!Truncate, Facts!Truncate, Store!MmapStore, Facts!MmapStore
<1>3. Store!Write = Facts!Write
  BY DEF Store!Fetched, Facts!Fetched, Store!WriteNumbered, Facts!WriteNumbered,
         Store!Renumber, Facts!Renumber, Store!Stored, Facts!Stored,
         Store!RetentionFails, Facts!RetentionFails, Store!Outdated, Facts!Outdated,
         Store!BackupFails, Facts!BackupFails, Store!Without, Facts!Without,
         Store!Expired, Facts!Expired, Store!Taken, Facts!Taken,
         Store!BackupMade, Facts!BackupMade, Store!Put, Facts!Put,
         Store!Broken, Facts!Broken, Store!Copies, Facts!Copies,
         Store!LowerWrite, Facts!LowerWrite, Store!NextVersion, Facts!NextVersion,
         Store!Wrap, Facts!Wrap, Store!Write, Facts!Write
<1>4. Store!DeleteAll = Facts!DeleteAll
  BY DEF Store!Fetched, Facts!Fetched, Store!LoopEnds, Facts!LoopEnds,
         Store!Delete_, Facts!Delete_, Store!Without, Facts!Without,
         Store!Purged, Facts!Purged, Store!Stored, Facts!Stored,
         Store!LoopErr, Facts!LoopErr, Store!DeleteAll, Facts!DeleteAll
<1>5. Store!List = Facts!List
  BY DEF Store!Fetched, Facts!Fetched, Store!Oldest, Facts!Oldest,
         Store!Wrap, Facts!Wrap, Store!List, Facts!List
<1>6. \A v : Store!Touch(v) = Facts!Touch(v) /\ Store!View(v) = Facts!View(v)
  BY DEF Store!CacheLookup, Facts!CacheLookup, Store!Touch, Facts!Touch,
         Store!View, Facts!View
<1>7. \A v : Store!Delete(v) = Facts!Delete(v)
  BY DEF Store!Delete_, Facts!Delete_, Store!Without, Facts!Without,
         Store!Fetched, Facts!Fetched, Store!DeletesYoungest, Facts!DeletesYoungest,
         Store!Renumber, Facts!Renumber, Store!Stored, Facts!Stored,
         Store!Wrap, Facts!Wrap, Store!Delete, Facts!Delete
<1>8. \A v : Store!Restore(v) = Facts!Restore(v)
  BY DEF Store!Removed, Facts!Removed, Store!RestoreRefused, Facts!RestoreRefused,
         Store!RestoreEmpty, Facts!RestoreEmpty, Store!Broken, Facts!Broken,
         Store!CacheLookup, Facts!CacheLookup, Store!RestoreFills, Facts!RestoreFills,
         Store!Copies, Facts!Copies, Store!Fetched, Facts!Fetched,
         Store!LoopEnds, Facts!LoopEnds, Store!Purged, Facts!Purged,
         Store!Without, Facts!Without, Store!LoopErr, Facts!LoopErr,
         Store!Delete_, Facts!Delete_, Store!Restore, Facts!Restore
<1> QED BY <1>1, <1>2, <1>3, <1>4, <1>5, <1>6, <1>7, <1>8 DEF Store!Next, Facts!Next

LEMMA StoreFacts == SerialSpec => Facts!Spec
<1>1. Store!Init => Facts!Init
  BY DEF Store!Init, Facts!Init
<1>2. [Store!Next]_(Store!vars) => [Facts!Next]_(Facts!vars)
  BY SameCalls DEF Store!vars, Facts!vars
<1> QED BY SerialImplementsStore, <1>1, <1>2, PTL DEF ImplementsStore, Store!Spec, Facts!Spec

\* However a call is cut short by a crash: a write that returns has put what it
\* replaced in a new backup, and one that is cut short, or fails, has left the
\* contents alone; no call changes a backup; a backup goes only when a call is
\* entitled to it; and a restore that has purged a backup has delivered the whole of
\* the version before.  (SerialTasks has no failure of do_splice_direct.)
THEOREM CutCallsAreSafe ==
  SerialSpec => /\ Facts!WriteBacksUp /\ Facts!BackupImmutable
                /\ Facts!RemovedOnlyWhenDue /\ Facts!RestoreIsWhole
<1>1. Facts!Spec => Facts!WriteBacksUp
  BY Facts!BacksUp, FactsAssumption
<1>2. Facts!Spec => Facts!BackupImmutable
  BY Facts!Immutable, FactsAssumption
<1>3. Facts!Spec => Facts!RemovedOnlyWhenDue
  BY Facts!RemovedDue, FactsAssumption
<1>4. Facts!Spec => Facts!RestoreIsWhole
  BY Facts!RestoresWhole, FactsAssumption DEF CutCalls
<1> QED BY StoreFacts, <1>1, <1>2, <1>3, <1>4

\* Without crashes the two attributes agree between calls that do not overlap,
\* which two writers that do overlap refute.
THEOREM SerialAgree == SerialSpec => []AttributesAgreeAtRest
<1>1. Facts!Spec => []Facts!AttributesAgree
  BY Facts!Agree, FactsAssumption
<1>2. SerialInv /\ Facts!AttributesAgree => AttributesAgreeAtRest
  BY DEF SerialInv, SInv, Shown, SameAttrs, Facts!AttributesAgree, AttributesAgreeAtRest
<1> QED BY StoreFacts, SerialInvariance, <1>1, <1>2, PTL
=============================================================================
