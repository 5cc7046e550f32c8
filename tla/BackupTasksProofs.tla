------------------------- MODULE BackupTasksProofs -------------------------
(***************************************************************************)
(* Proofs about BackupTasks, for any number of tasks, calls and requests,  *)
(* any N and with or without crashes: its types, and what the exclusive    *)
(* creation of a backup makes true of the tasks that race for its number.  *)
(***************************************************************************)
EXTENDS BackupTasks, TLAPS

\* Steps at which val is the number of a new backup, from 1 up.
Numbering == {"setrev", "setyoung", "outdated", "expire", "lookup", "create",
              "copy", "write"}

Numbered == \A t \in Tasks : pc[t] \in Numbering => val[t] \in Nat \ {0}

\* From the lookup on a writer holds the dentry of its number; after the creation
\* it is positive, or has been unlinked.
HoldsNew ==
  \A t \in Tasks :
    /\ pc[t] \in {"create", "copy", "write"} => on[t] = val[t]
    /\ pc[t] \in {"copy", "write"} => dent[t] \in {"there", "unlinked"}

\* The backup a task is about to fill is empty.
EmptyUntilFilled ==
  \A t \in Tasks : pc[t] = "copy" /\ dent[t] = "there" => saved[on[t]] = Broken

\* What writers are sure of.
Writers == HoldsNew /\ EmptyUntilFilled /\ UniqueNumbers /\ NoneLeftEmpty

\* The inductive invariant.
IInv == TypeOK /\ Numbered /\ Writers

\* What a step of t changes of what the tasks know: nothing of the others.
OnlyOf(t) ==
  \A u \in Tasks \ {t} : /\ pc'[u] = pc[u] /\ val'[u] = val[u]
                         /\ on'[u] = on[u] /\ dent'[u] = dent[u]

-----------------------------------------------------------------------------
\* A step of t that leaves the backups alone, and after which t is not about to
\* create or fill one.
LEMMA Quiet ==
  ASSUME NEW t \in Tasks, Writers, OnlyOf(t), saved' = saved,
         pc[t] # "copy", pc'[t] \notin {"create", "copy", "write"}
  PROVE  Writers'
<1>1. HoldsNew'
  BY DEF Writers, HoldsNew, OnlyOf
<1>2. EmptyUntilFilled'
  BY DEF Writers, EmptyUntilFilled, OnlyOf
<1>3. UniqueNumbers'
  BY DEF Writers, UniqueNumbers, OnlyOf
<1>4. NoneLeftEmpty'
  <2> SUFFICES ASSUME ~Crashes, NEW n \in DOMAIN saved, saved[n] = Broken
               PROVE  \E u \in Tasks : pc'[u] = "copy" /\ on'[u] = n
                                       /\ dent'[u] = "there"
    BY DEF NoneLeftEmpty, Filler
  <2>1. PICK u \in Tasks : pc[u] = "copy" /\ on[u] = n /\ dent[u] = "there"
    BY DEF Writers, NoneLeftEmpty, Filler
  <2> QED BY <2>1 DEF OnlyOf
<1> QED BY <1>1, <1>2, <1>3, <1>4 DEF Writers

\* Nothing that the writers' invariants speak of changes.
LEMMA Unconcerned ==
  ASSUME Writers, UNCHANGED <<saved, locals>>
  PROVE  Writers'
BY DEF Writers, HoldsNew, EmptyUntilFilled, UniqueNumbers, NoneLeftEmpty, Filler, locals

\* The dentry of a number is unlinked for all who hold it.
LEMMA UnlinkedKeeps ==
  ASSUME NEW t \in Tasks, NEW step, IInv, Unlinked(t, step),
         step \notin {"create", "copy", "write"},
         pc[t] \notin {"create", "copy", "write"},
         \A u \in Tasks \ {t} : val'[u] = val[u]
  PROVE  Writers'
<1> DEFINE gone == on[t]
<1>1. /\ saved' = [n \in DOMAIN saved \ {gone} |-> saved[n]]
      /\ DOMAIN saved' = DOMAIN saved \ {gone}
      /\ on' = on
      /\ pc' = [pc EXCEPT ![t] = step]
      /\ dent' = [u \in Tasks |-> IF on[u] = gone /\ dent[u] = "there"
                                  THEN "unlinked" ELSE dent[u]]
  BY DEF Unlinked, Go, Turn
<1>2. /\ pc'[t] = step
      /\ \A u \in Tasks \ {t} : pc'[u] = pc[u]
  BY <1>1 DEF IInv, TypeOK
<1>3. HoldsNew'
  BY <1>1, <1>2 DEF IInv, Writers, HoldsNew
<1>4. EmptyUntilFilled'
  <2> SUFFICES ASSUME NEW u \in Tasks, pc'[u] = "copy", dent'[u] = "there"
               PROVE  saved'[on'[u]] = Broken
    BY DEF EmptyUntilFilled
  <2>1. u # t /\ pc[u] = "copy" /\ dent[u] = "there" /\ on[u] # gone
    BY <1>1, <1>2
  <2>2. saved[on[u]] = Broken /\ on[u] \in DOMAIN saved
    BY <2>1 DEF IInv, Writers, EmptyUntilFilled, TypeOK
  <2> QED BY <1>1, <2>1, <2>2
<1>5. UniqueNumbers'
  BY <1>1, <1>2 DEF IInv, Writers, UniqueNumbers
<1>6. NoneLeftEmpty'
  <2> SUFFICES ASSUME ~Crashes, NEW n \in DOMAIN saved', saved'[n] = Broken
               PROVE  \E u \in Tasks : pc'[u] = "copy" /\ on'[u] = n
                                       /\ dent'[u] = "there"
    BY DEF NoneLeftEmpty, Filler
  <2>1. n \in DOMAIN saved /\ n # gone /\ saved[n] = Broken
    BY <1>1
  <2>2. PICK u \in Tasks : pc[u] = "copy" /\ on[u] = n /\ dent[u] = "there"
    BY <2>1 DEF IInv, Writers, NoneLeftEmpty, Filler
  <2>3. u # t
    BY <2>2
  <2> QED BY <1>1, <1>2, <2>1, <2>2, <2>3
<1> QED BY <1>3, <1>4, <1>5, <1>6 DEF Writers

\* The types that an unlinking changes.
LEMMA UnlinkedTypes ==
  ASSUME NEW t \in Tasks, NEW step \in Steps, IInv, Unlinked(t, step),
         val' \in [Tasks -> Int]
  PROVE  TypeOK'
<1>1. /\ DOMAIN saved' = DOMAIN saved \ {on[t]}
      /\ \A n \in DOMAIN saved' : saved'[n] = saved[n]
      /\ saved' = [n \in DOMAIN saved' |-> saved'[n]]
  BY DEF Unlinked
<1>2. saved' \in [DOMAIN saved' -> Nat \cup {Broken}]
  BY <1>1 DEF IInv, TypeOK
<1>3. /\ warm' \subseteq DOMAIN saved' /\ negative' \cap DOMAIN saved' = {}
      /\ DOMAIN saved' \subseteq Nat \ {0}
  BY <1>1 DEF IInv, TypeOK, Unlinked
<1>4. /\ dent' \in [Tasks -> {"none", "missing", "there", "unlinked"}]
      /\ \A u \in Tasks : /\ dent'[u] = "there" => on'[u] \in warm'
                          /\ dent'[u] = "missing" => on'[u] \in negative'
  BY DEF IInv, TypeOK, Unlinked, Turn
<1>5. pc' \in [Tasks -> Steps]
  BY DEF IInv, TypeOK, Unlinked, Go
<1> QED BY <1>2, <1>3, <1>4, <1>5 DEF IInv, TypeOK, Unlinked, attrs

\* A lookup that caches a name leaves the cache as honest as it was.
LEMMA CacheHonest ==
  ASSUME NEW n \in Nat \ {0}, TypeOK, CacheLookup(n)
  PROVE  /\ warm \subseteq warm' /\ negative \subseteq negative'
         /\ warm' \subseteq DOMAIN saved
         /\ negative' \cap DOMAIN saved = {}
BY DEF TypeOK, CacheLookup

-----------------------------------------------------------------------------
LEMMA StepKeeps == IInv /\ [Next]_vars => IInv'
<1> SUFFICES ASSUME IInv, [Next]_vars PROVE IInv'
  OBVIOUS
<1> USE TasksAssumption DEF disk, cache, attrs, locals, Go
<1>1. ASSUME NEW t \in Tasks, StartWrite(t) PROVE IInv'
  <2>1. TypeOK'
    BY <1>1 DEF IInv, TypeOK, Steps, StartWrite, Start
  <2>2. Numbered'
    BY <1>1 DEF IInv, TypeOK, Numbered, Numbering, StartWrite, Start
  <2>3. OnlyOf(t) /\ saved' = saved /\ pc[t] # "copy"
        /\ pc'[t] \notin {"create", "copy", "write"}
    BY <1>1 DEF IInv, TypeOK, OnlyOf, StartWrite, Start
  <2> QED BY <2>1, <2>2, <2>3, Quiet DEF IInv
<1>2. ASSUME NEW t \in Tasks, TakeNumber(t) PROVE IInv'
  <2>1. TypeOK'
    BY <1>2 DEF IInv, TypeOK, Steps, TakeNumber, Fetched, NextVersion
  <2>2. Numbered'
    BY <1>2 DEF IInv, TypeOK, Numbered, Numbering, TakeNumber, Fetched, NextVersion
  <2>3. OnlyOf(t) /\ saved' = saved /\ pc[t] # "copy"
        /\ pc'[t] \notin {"create", "copy", "write"}
    BY <1>2 DEF IInv, TypeOK, OnlyOf, TakeNumber, Fetched, NextVersion
  <2> QED BY <2>1, <2>2, <2>3, Quiet DEF IInv
<1>3. ASSUME NEW t \in Tasks, SetRevision(t) PROVE IInv'
  <2>1. TypeOK'
    BY <1>3 DEF IInv, TypeOK, Steps, SetRevision
  <2>2. Numbered'
    BY <1>3 DEF IInv, TypeOK, Numbered, Numbering, SetRevision
  <2>3. OnlyOf(t) /\ saved' = saved /\ pc[t] # "copy"
        /\ pc'[t] \notin {"create", "copy", "write"}
    BY <1>3 DEF IInv, TypeOK, OnlyOf, SetRevision
  <2> QED BY <2>1, <2>2, <2>3, Quiet DEF IInv
<1>4. ASSUME NEW t \in Tasks, SetYoungest(t) PROVE IInv'
  <2>1. TypeOK'
    BY <1>4 DEF IInv, TypeOK, Steps, SetYoungest, SetsYoungest
  <2>2. Numbered'
    BY <1>4 DEF IInv, TypeOK, Numbered, Numbering, SetYoungest, SetsYoungest
  <2>3. OnlyOf(t) /\ saved' = saved /\ pc[t] # "copy"
        /\ pc'[t] \notin {"create", "copy", "write"}
    BY <1>4 DEF IInv, TypeOK, OnlyOf, SetYoungest, SetsYoungest
  <2> QED BY <2>1, <2>2, <2>3, Quiet DEF IInv
<1>5. ASSUME NEW t \in Tasks, FindOutdated(t) PROVE IInv'
  <2>1. TypeOK'
    BY <1>5 DEF IInv, TypeOK, Steps, FindOutdated, Hold, Cached
  <2>2. Numbered'
    BY <1>5 DEF IInv, TypeOK, Numbered, Numbering, FindOutdated, Hold, Cached
  <2>3. OnlyOf(t) /\ saved' = saved /\ pc[t] # "copy"
        /\ pc'[t] \notin {"create", "copy", "write"}
    BY <1>5 DEF IInv, TypeOK, OnlyOf, FindOutdated, Hold, Cached
  <2> QED BY <2>1, <2>2, <2>3, Quiet DEF IInv
<1>6. ASSUME NEW t \in Tasks, LowerWrite(t) PROVE IInv'
  <2>1. TypeOK'
    BY <1>6 DEF IInv, TypeOK, Steps, LowerWrite, Return, Forgotten
  <2>2. Numbered'
    BY <1>6 DEF IInv, TypeOK, Numbered, Numbering, LowerWrite, Return, Forgotten
  <2>3. OnlyOf(t) /\ saved' = saved /\ pc[t] # "copy"
        /\ pc'[t] \notin {"create", "copy", "write"}
    BY <1>6 DEF IInv, TypeOK, OnlyOf, LowerWrite, Return, Forgotten
  <2> QED BY <2>1, <2>2, <2>3, Quiet DEF IInv
<1>7. ASSUME NEW t \in Tasks, FindVersion(t) PROVE IInv'
  <2>1. TypeOK'
    BY <1>7 DEF IInv, TypeOK, Steps, FindVersion, Return, Forgotten, Hold, Cached
  <2>2. Numbered'
    BY <1>7 DEF IInv, TypeOK, Numbered, Numbering, FindVersion, Return, Forgotten,
                Hold, Cached
  <2>3. OnlyOf(t) /\ saved' = saved /\ pc[t] # "copy"
        /\ pc'[t] \notin {"create", "copy", "write"}
    BY <1>7 DEF IInv, TypeOK, OnlyOf, FindVersion, Return, Forgotten, Hold, Cached
  <2> QED BY <2>1, <2>2, <2>3, Quiet DEF IInv
<1>8. ASSUME NEW t \in Tasks, CompareYoungest(t) PROVE IInv'
  <2>1. TypeOK'
    BY <1>8 DEF IInv, TypeOK, Steps, CompareYoungest, Return, Forgotten, Fetched
  <2>2. Numbered'
    BY <1>8 DEF IInv, TypeOK, Numbered, Numbering, CompareYoungest, Return, Forgotten,
                Fetched
  <2>3. OnlyOf(t) /\ saved' = saved /\ pc[t] # "copy"
        /\ pc'[t] \notin {"create", "copy", "write"}
    BY <1>8 DEF IInv, TypeOK, OnlyOf, CompareYoungest, Return, Forgotten, Fetched
  <2> QED BY <2>1, <2>2, <2>3, Quiet DEF IInv
<1>9. ASSUME NEW t \in Tasks, LowerRevision(t) PROVE IInv'
  <2>1. TypeOK'
    BY <1>9 DEF IInv, TypeOK, Steps, LowerRevision
  <2>2. Numbered'
    BY <1>9 DEF IInv, TypeOK, Numbered, Numbering, LowerRevision
  <2>3. OnlyOf(t) /\ saved' = saved /\ pc[t] # "copy"
        /\ pc'[t] \notin {"create", "copy", "write"}
    BY <1>9 DEF IInv, TypeOK, OnlyOf, LowerRevision
  <2> QED BY <2>1, <2>2, <2>3, Quiet DEF IInv
<1>10. ASSUME NEW t \in Tasks, LowerYoungest(t) PROVE IInv'
  <2>1. TypeOK'
    BY <1>10 DEF IInv, TypeOK, Steps, LowerYoungest, Return, Forgotten
  <2>2. Numbered'
    BY <1>10 DEF IInv, TypeOK, Numbered, Numbering, LowerYoungest, Return, Forgotten
  <2>3. OnlyOf(t) /\ saved' = saved /\ pc[t] # "copy"
        /\ pc'[t] \notin {"create", "copy", "write"}
    BY <1>10 DEF IInv, TypeOK, OnlyOf, LowerYoungest, Return, Forgotten
  <2> QED BY <2>1, <2>2, <2>3, Quiet DEF IInv
<1>11. ASSUME NEW t \in Tasks, StartDeleteAll(t) PROVE IInv'
  <2>1. TypeOK'
    BY <1>11 DEF IInv, TypeOK, Steps, StartDeleteAll, Start
  <2>2. Numbered'
    BY <1>11 DEF IInv, TypeOK, Numbered, Numbering, StartDeleteAll, Start
  <2>3. OnlyOf(t) /\ saved' = saved /\ pc[t] # "copy"
        /\ pc'[t] \notin {"create", "copy", "write"}
    BY <1>11 DEF IInv, TypeOK, OnlyOf, StartDeleteAll, Start
  <2> QED BY <2>1, <2>2, <2>3, Quiet DEF IInv
<1>12. ASSUME NEW t \in Tasks, CountVersions(t) PROVE IInv'
  <2>1. TypeOK'
    BY <1>12 DEF IInv, TypeOK, Steps, CountVersions, Fetched
  <2>2. Numbered'
    BY <1>12 DEF IInv, TypeOK, Numbered, Numbering, CountVersions, Fetched
  <2>3. OnlyOf(t) /\ saved' = saved /\ pc[t] # "copy"
        /\ pc'[t] \notin {"create", "copy", "write"}
    BY <1>12 DEF IInv, TypeOK, OnlyOf, CountVersions, Fetched
  <2> QED BY <2>1, <2>2, <2>3, Quiet DEF IInv
<1>13. ASSUME NEW t \in Tasks, FindNext(t) PROVE IInv'
  <2>1. TypeOK'
    BY <1>13 DEF IInv, TypeOK, Steps, FindNext, Return, Forgotten, Hold, Cached,
                 Before
  <2>2. Numbered'
    BY <1>13 DEF IInv, TypeOK, Numbered, Numbering, FindNext, Return, Forgotten, Hold,
                 Cached, Before
  <2>3. OnlyOf(t) /\ saved' = saved /\ pc[t] # "copy"
        /\ pc'[t] \notin {"create", "copy", "write"}
    BY <1>13 DEF IInv, TypeOK, OnlyOf, FindNext, Return, Forgotten, Hold, Cached,
                 Before
  <2> QED BY <2>1, <2>2, <2>3, Quiet DEF IInv
<1>14. ASSUME NEW t \in Tasks, ResetRevision(t) PROVE IInv'
  <2>1. TypeOK'
    BY <1>14 DEF IInv, TypeOK, Steps, ResetRevision, Return, Forgotten
  <2>2. Numbered'
    BY <1>14 DEF IInv, TypeOK, Numbered, Numbering, ResetRevision, Return, Forgotten
  <2>3. OnlyOf(t) /\ saved' = saved /\ pc[t] # "copy"
        /\ pc'[t] \notin {"create", "copy", "write"}
    BY <1>14 DEF IInv, TypeOK, OnlyOf, ResetRevision, Return, Forgotten
  <2> QED BY <2>1, <2>2, <2>3, Quiet DEF IInv
<1>15. ASSUME NEW t \in Tasks, FindFile(t) PROVE IInv'
  <2>1. TypeOK'
    BY <1>15 DEF IInv, TypeOK, Steps, FindFile
  <2>2. Numbered'
    BY <1>15 DEF IInv, TypeOK, Numbered, Numbering, FindFile
  <2>3. OnlyOf(t) /\ saved' = saved /\ pc[t] # "copy"
        /\ pc'[t] \notin {"create", "copy", "write"}
    BY <1>15 DEF IInv, TypeOK, OnlyOf, FindFile
  <2> QED BY <2>1, <2>2, <2>3, Quiet DEF IInv
<1>16. ASSUME NEW t \in Tasks, UnlinkFile(t) PROVE IInv'
  <2>1. TypeOK'
    BY <1>16 DEF IInv, TypeOK, Steps, UnlinkFile, Return, Forgotten
  <2>2. Numbered'
    BY <1>16 DEF IInv, TypeOK, Numbered, Numbering, UnlinkFile, Return, Forgotten
  <2>3. OnlyOf(t) /\ saved' = saved /\ pc[t] # "copy"
        /\ pc'[t] \notin {"create", "copy", "write"}
    BY <1>16 DEF IInv, TypeOK, OnlyOf, UnlinkFile, Return, Forgotten
  <2> QED BY <2>1, <2>2, <2>3, Quiet DEF IInv
<1>17. ASSUME NEW t \in Tasks, CreateRestored(t) PROVE IInv'
  <2>1. TypeOK'
    BY <1>17 DEF IInv, TypeOK, Steps, CreateRestored, Return, Forgotten
  <2>2. Numbered'
    BY <1>17 DEF IInv, TypeOK, Numbered, Numbering, CreateRestored, Return, Forgotten
  <2>3. OnlyOf(t) /\ saved' = saved /\ pc[t] # "copy"
        /\ pc'[t] \notin {"create", "copy", "write"}
    BY <1>17 DEF IInv, TypeOK, OnlyOf, CreateRestored, Return, Forgotten
  <2> QED BY <2>1, <2>2, <2>3, Quiet DEF IInv
<1>18. ASSUME NEW t \in Tasks, NEW v \in Requests, StartDelete(t, v) PROVE IInv'
  <2>1. TypeOK'
    BY <1>18 DEF IInv, TypeOK, Steps, StartDelete, Start
  <2>2. Numbered'
    BY <1>18 DEF IInv, TypeOK, Numbered, Numbering, StartDelete, Start
  <2>3. OnlyOf(t) /\ saved' = saved /\ pc[t] # "copy"
        /\ pc'[t] \notin {"create", "copy", "write"}
    BY <1>18 DEF IInv, TypeOK, OnlyOf, StartDelete, Start
  <2> QED BY <2>1, <2>2, <2>3, Quiet DEF IInv
<1>19. ASSUME NEW t \in Tasks, NEW v \in Requests, StartRestore(t, v) PROVE IInv'
  <2>1. TypeOK'
    BY <1>19 DEF IInv, TypeOK, Steps, StartRestore, Start
  <2>2. Numbered'
    BY <1>19 DEF IInv, TypeOK, Numbered, Numbering, StartRestore, Start
  <2>3. OnlyOf(t) /\ saved' = saved /\ pc[t] # "copy"
        /\ pc'[t] \notin {"create", "copy", "write"}
    BY <1>19 DEF IInv, TypeOK, OnlyOf, StartRestore, Start
  <2> QED BY <2>1, <2>2, <2>3, Quiet DEF IInv
<1>20. ASSUME NEW t \in Tasks, NEW v \in Requests, View(t, v) PROVE IInv'
  <2>1. TypeOK'
    BY <1>20 DEF IInv, TypeOK, Steps, View, Start, CacheLookup
  <2>2. Numbered'
    BY <1>20 DEF IInv, TypeOK, Numbered, Numbering, View, Start, CacheLookup
  <2>3. OnlyOf(t) /\ saved' = saved /\ pc[t] # "copy"
        /\ pc'[t] \notin {"create", "copy", "write"}
    BY <1>20 DEF IInv, TypeOK, OnlyOf, View, Start, CacheLookup
  <2> QED BY <2>1, <2>2, <2>3, Quiet DEF IInv
<1>21. ASSUME NEW t \in Tasks, FillRestored(t) PROVE IInv'
  <2>1. TypeOK'
    BY <1>21 DEF IInv, TypeOK, Steps, FillRestored, Return, Forgotten, CacheLookup,
                 Delivers
  <2>2. Numbered'
    BY <1>21 DEF IInv, TypeOK, Numbered, Numbering, FillRestored, Return, Forgotten,
                 CacheLookup, Delivers
  <2>3. OnlyOf(t) /\ saved' = saved /\ pc[t] # "copy"
        /\ pc'[t] \notin {"create", "copy", "write"}
    BY <1>21 DEF IInv, TypeOK, OnlyOf, FillRestored, Return, Forgotten, CacheLookup,
                 Delivers
  <2> QED BY <2>1, <2>2, <2>3, Quiet DEF IInv
<1>22. ASSUME NEW t \in Tasks, Expire(t) PROVE IInv'
  <2>1. CASE Unlinked(t, "lookup")
    <3>1. /\ val' \in [Tasks -> Int] /\ \A u \in Tasks \ {t} : val'[u] = val[u]
          /\ pc[t] = "expire"
      BY <1>22, <2>1 DEF Expire, Unlinked, NotUnlinked, Before, IInv, TypeOK
    <3>2. TypeOK' /\ Writers'
      BY <2>1, <3>1, UnlinkedTypes, UnlinkedKeeps DEF Steps
    <3>3. Numbered'
      BY <1>22, <2>1 DEF Expire, Unlinked, NotUnlinked, Go, IInv, TypeOK, Numbered,
         Numbering
    <3> QED BY <3>2, <3>3 DEF IInv
  <2>2. CASE NotUnlinked(t) /\ pc[t] \in {"expire", "unlink", "purge"}
    <3>1. TypeOK' /\ Numbered'
      BY <2>2 DEF IInv, TypeOK, Steps, Numbered, Numbering, NotUnlinked, Return,
                  Forgotten
    <3>2. OnlyOf(t) /\ saved' = saved /\ pc[t] # "copy"
          /\ pc'[t] \notin {"create", "copy", "write"}
      BY <2>2 DEF IInv, TypeOK, OnlyOf, NotUnlinked, Return, Forgotten
    <3> QED BY <3>1, <3>2, Quiet DEF IInv
  <2> QED BY <1>22, <2>1, <2>2 DEF Expire
<1>23. ASSUME NEW t \in Tasks, UnlinkVersion(t) PROVE IInv'
  <2>1. CASE Unlinked(t, "compare")
    <3>1. /\ val' \in [Tasks -> Int] /\ \A u \in Tasks \ {t} : val'[u] = val[u]
          /\ pc[t] = "unlink"
      BY <1>23, <2>1 DEF UnlinkVersion, Unlinked, NotUnlinked, Before, IInv, TypeOK
    <3>2. TypeOK' /\ Writers'
      BY <2>1, <3>1, UnlinkedTypes, UnlinkedKeeps DEF Steps
    <3>3. Numbered'
      BY <1>23, <2>1 DEF UnlinkVersion, Unlinked, NotUnlinked, Go, IInv, TypeOK,
         Numbered, Numbering
    <3> QED BY <3>2, <3>3 DEF IInv
  <2>2. CASE NotUnlinked(t) /\ pc[t] \in {"expire", "unlink", "purge"}
    <3>1. TypeOK' /\ Numbered'
      BY <2>2 DEF IInv, TypeOK, Steps, Numbered, Numbering, NotUnlinked, Return,
                  Forgotten
    <3>2. OnlyOf(t) /\ saved' = saved /\ pc[t] # "copy"
          /\ pc'[t] \notin {"create", "copy", "write"}
      BY <2>2 DEF IInv, TypeOK, OnlyOf, NotUnlinked, Return, Forgotten
    <3> QED BY <3>1, <3>2, Quiet DEF IInv
  <2> QED BY <1>23, <2>1, <2>2 DEF UnlinkVersion
<1>24. ASSUME NEW t \in Tasks, PurgeNext(t) PROVE IInv'
  <2>1. CASE Unlinked(t, "loop")
    <3>1. /\ val' \in [Tasks -> Int] /\ \A u \in Tasks \ {t} : val'[u] = val[u]
          /\ pc[t] = "purge"
      BY <1>24, <2>1 DEF PurgeNext, Unlinked, NotUnlinked, Before, IInv, TypeOK
    <3>2. TypeOK' /\ Writers'
      BY <2>1, <3>1, UnlinkedTypes, UnlinkedKeeps DEF Steps
    <3>3. Numbered'
      BY <1>24, <2>1 DEF PurgeNext, Unlinked, NotUnlinked, Go, IInv, TypeOK, Numbered,
         Numbering
    <3> QED BY <3>2, <3>3 DEF IInv
  <2>2. CASE NotUnlinked(t) /\ pc[t] \in {"expire", "unlink", "purge"}
    <3>1. TypeOK' /\ Numbered'
      BY <2>2 DEF IInv, TypeOK, Steps, Numbered, Numbering, NotUnlinked, Return,
                  Forgotten
    <3>2. OnlyOf(t) /\ saved' = saved /\ pc[t] # "copy"
          /\ pc'[t] \notin {"create", "copy", "write"}
      BY <2>2 DEF IInv, TypeOK, OnlyOf, NotUnlinked, Return, Forgotten
    <3> QED BY <3>1, <3>2, Quiet DEF IInv
  <2> QED BY <1>24, <2>1, <2>2 DEF PurgeNext
<1>25. ASSUME NEW t \in Tasks, LookupNew(t) PROVE IInv'
  <2>1. val[t] \in Nat \ {0}
    BY <1>25 DEF IInv, Numbered, Numbering, LookupNew
  <2>2. TypeOK' /\ Numbered'
    BY <1>25, <2>1 DEF IInv, TypeOK, Steps, Numbered, Numbering, LookupNew, Hold
  <2>3. /\ OnlyOf(t) /\ saved' = saved /\ pc[t] = "lookup" /\ pc'[t] = "create"
        /\ val' = val /\ on'[t] = val[t]
    BY <1>25 DEF IInv, TypeOK, OnlyOf, LookupNew, Hold
  <2>4. HoldsNew'
    BY <2>3 DEF IInv, Writers, HoldsNew, OnlyOf
  <2>5. EmptyUntilFilled'
    BY <2>3 DEF IInv, Writers, EmptyUntilFilled, OnlyOf
  <2>6. UniqueNumbers'
    BY <2>3 DEF IInv, Writers, UniqueNumbers, OnlyOf
  <2>7. NoneLeftEmpty'
    <3> SUFFICES ASSUME ~Crashes, NEW n \in DOMAIN saved, saved[n] = Broken
                 PROVE  \E u \in Tasks : pc'[u] = "copy" /\ on'[u] = n
                                         /\ dent'[u] = "there"
      BY <2>3 DEF NoneLeftEmpty, Filler
    <3>1. PICK u \in Tasks : pc[u] = "copy" /\ on[u] = n /\ dent[u] = "there"
      BY DEF IInv, Writers, NoneLeftEmpty, Filler
    <3> QED BY <2>3, <3>1 DEF OnlyOf
  <2> QED BY <2>2, <2>4, <2>5, <2>6, <2>7 DEF IInv, Writers
<1>26. ASSUME NEW t \in Tasks, CreateNew(t) PROVE IInv'
  <2> DEFINE new == val[t]
  <2>1. CASE StillNegative(t)
    <3>1. /\ DOMAIN saved' = DOMAIN saved \cup {new}
          /\ \A n \in DOMAIN saved' : saved'[n] = IF n = new THEN Broken ELSE saved[n]
          /\ saved' = [n \in DOMAIN saved' |-> saved'[n]]
          /\ warm' = warm \cup {new} /\ negative' = negative \ {new}
          /\ dent' = [u \in Tasks |-> IF on[u] = new /\ dent[u] = "missing"
                                      THEN "there" ELSE dent[u]]
          /\ pc[t] = "create" /\ pc' = [pc EXCEPT ![t] = "copy"]
          /\ UNCHANGED <<file, text, attrs, restored, calls, ask, val, on, result>>
      BY <1>26, <2>1 DEF CreateNew, Go, Turn
    <3>2. new \in Nat \ {0} /\ on[t] = new /\ dent[t] = "missing"
      BY <2>1, <3>1 DEF IInv, Numbered, Numbering, Writers, HoldsNew, StillNegative
    <3>3. new \in negative /\ new \notin DOMAIN saved /\ new \notin warm
      BY <3>2 DEF IInv, TypeOK
    <3>4. /\ pc'[t] = "copy" /\ dent'[t] = "there"
          /\ \A u \in Tasks \ {t} : pc'[u] = pc[u]
      BY <3>1, <3>2 DEF IInv, TypeOK
    <3>5. TypeOK'
      <4>1. saved' \in [DOMAIN saved' -> Nat \cup {Broken}]
        BY <3>1 DEF IInv, TypeOK
      <4>2. /\ warm' \subseteq DOMAIN saved' /\ negative' \cap DOMAIN saved' = {}
            /\ DOMAIN saved' \subseteq Nat \ {0}
        BY <3>1, <3>2 DEF IInv, TypeOK
      <4>3. /\ dent' \in [Tasks -> {"none", "missing", "there", "unlinked"}]
            /\ \A u \in Tasks : /\ dent'[u] = "there" => on'[u] \in warm'
                                /\ dent'[u] = "missing" => on'[u] \in negative'
        BY <3>1 DEF IInv, TypeOK
      <4>4. pc' \in [Tasks -> Steps]
        BY <3>1 DEF IInv, TypeOK, Steps
      <4> QED BY <3>1, <4>1, <4>2, <4>3, <4>4 DEF IInv, TypeOK, attrs
    <3>6. Numbered'
      BY <3>1, <3>2, <3>4 DEF IInv, Numbered, Numbering
    <3>7. HoldsNew'
      BY <3>1, <3>2, <3>4 DEF IInv, Writers, HoldsNew
    <3>8. EmptyUntilFilled'
      <4> SUFFICES ASSUME NEW u \in Tasks, pc'[u] = "copy", dent'[u] = "there"
                   PROVE  saved'[on'[u]] = Broken
        BY DEF EmptyUntilFilled
      <4>1. CASE u = t
        BY <3>1, <3>2, <4>1
      <4>2. CASE u # t
        <5>1. pc[u] = "copy" /\ dent[u] = "there"
          BY <3>1, <3>4, <4>2 DEF IInv, Writers, HoldsNew
        <5>2. saved[on[u]] = Broken /\ on[u] \in DOMAIN saved
          BY <5>1 DEF IInv, Writers, EmptyUntilFilled, TypeOK
        <5> QED BY <3>1, <3>3, <5>2
      <4> QED BY <4>1, <4>2
    <3>9. UniqueNumbers'
      <4> SUFFICES ASSUME NEW u \in Tasks, NEW w \in Tasks, u # w, val'[u] = val'[w],
                          {pc'[u], pc'[w]} \subseteq {"copy", "write"}
                   PROVE  dent'[u] = "unlinked" \/ dent'[w] = "unlinked"
        BY DEF UniqueNumbers
      <4>1. ASSUME NEW x \in Tasks, x # t, val[x] = new, pc[x] \in {"copy", "write"}
            PROVE  dent'[x] = "unlinked"
        <5>1. on[x] = new /\ dent[x] \in {"there", "unlinked"}
          BY <4>1 DEF IInv, Writers, HoldsNew
        <5>2. dent[x] # "there"
          BY <3>3, <5>1 DEF IInv, TypeOK
        <5> QED BY <3>1, <5>1, <5>2
      <4>2. CASE u = t \/ w = t
        BY <3>1, <3>4, <4>1, <4>2
      <4>3. CASE u # t /\ w # t
        <5>1. dent[u] = "unlinked" \/ dent[w] = "unlinked"
          BY <3>1, <3>4, <4>3 DEF IInv, Writers, UniqueNumbers
        <5> QED BY <3>1, <5>1
      <4> QED BY <4>2, <4>3
    <3>10. NoneLeftEmpty'
      <4> SUFFICES ASSUME ~Crashes, NEW n \in DOMAIN saved', saved'[n] = Broken
                   PROVE  \E u \in Tasks : pc'[u] = "copy" /\ on'[u] = n
                                           /\ dent'[u] = "there"
        BY DEF NoneLeftEmpty, Filler
      <4>1. CASE n = new
        BY <3>1, <3>2, <3>4, <4>1
      <4>2. CASE n # new
        <5>1. n \in DOMAIN saved /\ saved[n] = Broken
          BY <3>1, <4>2
        <5>2. PICK u \in Tasks : pc[u] = "copy" /\ on[u] = n /\ dent[u] = "there"
          BY <5>1 DEF IInv, Writers, NoneLeftEmpty, Filler
        <5>3. u # t
          BY <3>1, <5>2
        <5> QED BY <3>1, <3>4, <5>2, <5>3
      <4> QED BY <4>1, <4>2
    <3> QED BY <3>5, <3>6, <3>7, <3>8, <3>9, <3>10 DEF IInv, Writers
  <2>2. CASE ~StillNegative(t)
    <3>1. TypeOK' /\ Numbered'
      BY <1>26, <2>2 DEF IInv, TypeOK, Steps, Numbered, Numbering, CreateNew, Refused,
                         Return, Forgotten
    <3>2. OnlyOf(t) /\ saved' = saved /\ pc[t] # "copy"
          /\ pc'[t] \notin {"create", "copy", "write"}
      BY <1>26, <2>2 DEF IInv, TypeOK, OnlyOf, CreateNew, Refused, Return, Forgotten
    <3> QED BY <3>1, <3>2, Quiet DEF IInv
  <2> QED BY <2>1, <2>2
<1>27. ASSUME NEW t \in Tasks, Copy(t) PROVE IInv'
  <2>1. /\ pc[t] = "copy" /\ pc' = [pc EXCEPT ![t] = "write"]
        /\ UNCHANGED <<file, text, attrs, restored, cache, calls, ask, val, on, dent,
                       result>>
        /\ saved' = IF dent[t] = "there" THEN [saved EXCEPT ![val[t]] = text] ELSE saved
    BY <1>27 DEF Copy, Go, Fills
  <2>2. /\ pc'[t] = "write" /\ \A u \in Tasks \ {t} : pc'[u] = pc[u]
        /\ on[t] = val[t]
    BY <2>1 DEF IInv, TypeOK, Writers, HoldsNew
  <2>3. /\ DOMAIN saved' = DOMAIN saved
        /\ \A n \in DOMAIN saved : n # val[t] => saved'[n] = saved[n]
        /\ dent[t] = "there" => saved'[val[t]] = text /\ val[t] \in DOMAIN saved
        /\ dent[t] # "there" => saved' = saved
    BY <2>1, <2>2 DEF IInv, TypeOK
  <2>4. TypeOK'
    <3>1. saved' \in [DOMAIN saved' -> Nat \cup {Broken}]
      BY <2>1, <2>3 DEF IInv, TypeOK
    <3>2. pc' \in [Tasks -> Steps]
      BY <2>1 DEF IInv, TypeOK, Steps
    <3> QED BY <2>1, <2>3, <3>1, <3>2 DEF IInv, TypeOK, cache, attrs
  <2>5. Numbered'
    BY <2>1, <2>2 DEF IInv, Numbered, Numbering
  <2>6. HoldsNew'
    BY <2>1, <2>2 DEF IInv, Writers, HoldsNew
  <2>7. EmptyUntilFilled'
    <3> SUFFICES ASSUME NEW u \in Tasks, pc'[u] = "copy", dent'[u] = "there"
                 PROVE  saved'[on'[u]] = Broken
      BY DEF EmptyUntilFilled
    <3>1. u # t /\ pc[u] = "copy" /\ dent[u] = "there" /\ on[u] = val[u]
      BY <2>1, <2>2 DEF IInv, Writers, HoldsNew
    <3>2. saved[on[u]] = Broken /\ on[u] \in DOMAIN saved
      BY <3>1 DEF IInv, Writers, EmptyUntilFilled, TypeOK
    <3>3. dent[t] = "there" => val[u] # val[t]
      BY <2>1, <3>1 DEF IInv, Writers, UniqueNumbers
    <3> QED BY <2>1, <2>3, <3>1, <3>2, <3>3
  <2>8. UniqueNumbers'
    BY <2>1, <2>2 DEF IInv, Writers, UniqueNumbers
  <2>9. NoneLeftEmpty'
    <3> SUFFICES ASSUME ~Crashes, NEW n \in DOMAIN saved, saved'[n] = Broken
                 PROVE  \E u \in Tasks : pc'[u] = "copy" /\ on'[u] = n
                                         /\ dent'[u] = "there"
      BY <2>3 DEF NoneLeftEmpty, Filler
    <3>1. ~(n = val[t] /\ dent[t] = "there")
      BY <2>3 DEF IInv, TypeOK, Broken
    <3>2. saved[n] = Broken
      BY <2>3, <3>1
    <3>3. PICK u \in Tasks : pc[u] = "copy" /\ on[u] = n /\ dent[u] = "there"
      BY <3>2 DEF IInv, Writers, NoneLeftEmpty, Filler
    <3>4. u # t
      BY <2>2, <3>1, <3>3
    <3> QED BY <2>1, <2>2, <3>3, <3>4
  <2> QED BY <2>4, <2>5, <2>6, <2>7, <2>8, <2>9 DEF IInv, Writers
<1>28. ASSUME Crash PROVE IInv'
  <2>1. TypeOK' /\ Numbered'
    BY <1>28 DEF IInv, TypeOK, Steps, Numbered, Numbering, Crash, attrs
  <2>2. Writers'
    BY <1>28 DEF Writers, HoldsNew, EmptyUntilFilled, UniqueNumbers, NoneLeftEmpty, Filler,
       Crash
  <2> QED BY <2>1, <2>2 DEF IInv
<1>29. ASSUME Forget \/ Create \/ Collect \/ UNCHANGED vars PROVE IInv'
  <2>1. UNCHANGED <<saved, locals>>
    BY <1>29 DEF Forget, Create, Collect, vars, disk
  <2>2. TypeOK' /\ Numbered'
    BY <1>29 DEF IInv, TypeOK, Numbered, Forget, Create, Collect, vars, disk, cache,
                  attrs, locals
  <2>3. Writers'
    BY <2>1, Unconcerned DEF IInv
  <2> QED BY <2>2, <2>3 DEF IInv
<1> QED
  BY <1>1, <1>2, <1>3, <1>4, <1>5, <1>6, <1>7, <1>8, <1>9, <1>10, <1>11, <1>12, <1>13,
     <1>14, <1>15, <1>16, <1>17, <1>18, <1>19, <1>20, <1>21, <1>22, <1>23, <1>24,
     <1>25, <1>26, <1>27, <1>28, <1>29
  DEF Next, Begin, Advance

-----------------------------------------------------------------------------
LEMMA InitIInv == Init => IInv
<1> SUFFICES ASSUME Init PROVE IInv
  OBVIOUS
<1>1. TypeOK /\ Numbered
  BY TasksAssumption DEF Init, TypeOK, Steps, Numbered, Numbering
<1>2. Writers
  BY DEF Init, Writers, HoldsNew, EmptyUntilFilled, UniqueNumbers, NoneLeftEmpty, Filler
<1> QED BY <1>1, <1>2 DEF IInv

THEOREM Invariance == Spec => []IInv
BY InitIInv, StepKeeps, PTL DEF Spec

\* What each task holds is what the directory and the dentry cache have.
THEOREM TasksTyped == Spec => []TypeOK
BY Invariance, PTL DEF IInv

\* However many writers take the same number, the exclusive creation leaves one of
\* them with a backup in the directory.
THEOREM NumbersUnique == Spec => []UniqueNumbers
BY Invariance, PTL DEF IInv, Writers

\* Without a crash an empty backup is one that a task is about to fill.
THEOREM EmptyBackupsFilled == Spec => []NoneLeftEmpty
BY Invariance, PTL DEF IInv, Writers

-----------------------------------------------------------------------------
\* A step that leaves the backups and the other tasks alone, and is no copy, takes
\* no empty backup from the task that is to fill it.
LEMMA QuietKeepsFillers ==
  ASSUME NEW t \in Tasks, OnlyOf(t), saved' = saved, pc[t] # "copy",
         NEW n \in DOMAIN saved', saved'[n] = Broken
  PROVE  Filler(n)' \/ (n \in DOMAIN saved /\ saved[n] = Broken /\ ~Filler(n))
BY DEF OnlyOf, Filler

\* Only a crash takes an empty backup from the task that is to fill it.
THEOREM EmptyAfterCrashOnly == Spec => OnlyCrashLeavesEmpty
<1> DEFINE Kept(n) == \/ Filler(n)'
                      \/ n \in DOMAIN saved /\ saved[n] = Broken /\ ~Filler(n)
           All == \A n \in DOMAIN saved' : saved'[n] = Broken =>
                     \/ Filler(n)' \/ Crash
                     \/ n \in DOMAIN saved /\ saved[n] = Broken /\ ~Filler(n)
<1> USE DEF disk, cache, attrs, Go
<1>1. ASSUME IInv, NEW t \in Tasks, Expire(t) \/ UnlinkVersion(t) \/ PurgeNext(t),
             NEW n \in DOMAIN saved', saved'[n] = Broken
      PROVE  Kept(n)
  <2>1. CASE dent[t] = "there"
    <3>1. /\ saved' = [k \in DOMAIN saved \ {on[t]} |-> saved[k]]
          /\ Turn(on[t], "there", "unlinked")
          /\ on' = on /\ \A u \in Tasks \ {t} : pc'[u] = pc[u]
          /\ pc[t] # "copy"
      BY <1>1, <2>1 DEF Expire, UnlinkVersion, PurgeNext, Unlinked, NotUnlinked, IInv, TypeOK
    <3>2. n \in DOMAIN saved /\ n # on[t] /\ saved[n] = Broken
      BY <1>1, <3>1
    <3>3. ASSUME NEW u \in Tasks, pc[u] = "copy", on[u] = n, dent[u] = "there"
          PROVE  Filler(n)'
      BY <3>1, <3>2, <3>3 DEF Turn, Filler
    <3> QED BY <3>2, <3>3 DEF Filler
  <2>2. CASE dent[t] # "there"
    <3>1. OnlyOf(t) /\ saved' = saved /\ pc[t] # "copy"
      BY <1>1, <2>2 DEF Expire, UnlinkVersion, PurgeNext, Unlinked, NotUnlinked,
                        Return, Forgotten, OnlyOf, IInv, TypeOK
    <3> QED BY <1>1, <3>1, QuietKeepsFillers
  <2> QED BY <2>1, <2>2
<1>2. ASSUME IInv, NEW t \in Tasks, CreateNew(t), NEW n \in DOMAIN saved', saved'[n] = Broken
      PROVE  Kept(n)
  <2>1. CASE StillNegative(t)
    <3>1. /\ saved' = [k \in DOMAIN saved \cup {val[t]} |->
                         IF k = val[t] THEN Broken ELSE saved[k]]
          /\ Turn(val[t], "missing", "there")
          /\ on' = on /\ pc[t] = "create" /\ pc' = [pc EXCEPT ![t] = "copy"]
      BY <1>2, <2>1 DEF CreateNew
    <3>2. pc \in [Tasks -> Steps] /\ on[t] = val[t] /\ dent[t] = "missing"
      BY <1>2, <2>1, <3>1 DEF IInv, TypeOK, Writers, HoldsNew, StillNegative
    <3>3. CASE n = val[t]
      BY <3>1, <3>2, <3>3 DEF Turn, Filler
    <3>4. CASE n # val[t]
      <4>1. n \in DOMAIN saved /\ saved[n] = Broken
        BY <1>2, <3>1, <3>4
      <4>2. ASSUME NEW u \in Tasks, pc[u] = "copy", on[u] = n, dent[u] = "there"
            PROVE  Filler(n)'
        BY <3>1, <3>2, <4>2 DEF Turn, Filler
      <4> QED BY <4>1, <4>2 DEF Filler
    <3> QED BY <3>3, <3>4
  <2>2. CASE ~StillNegative(t)
    <3>1. OnlyOf(t) /\ saved' = saved /\ pc[t] # "copy"
      BY <1>2, <2>2 DEF CreateNew, Refused, Return, Forgotten, OnlyOf, IInv, TypeOK
    <3> QED BY <1>2, <3>1, QuietKeepsFillers
  <2> QED BY <2>1, <2>2
<1>3. ASSUME IInv, NEW t \in Tasks, Copy(t), NEW n \in DOMAIN saved', saved'[n] = Broken
      PROVE  Kept(n)
  <2>1. /\ pc[t] = "copy" /\ on[t] = val[t] /\ pc' = [pc EXCEPT ![t] = "write"]
        /\ on' = on /\ dent' = dent /\ pc \in [Tasks -> Steps]
        /\ text # Broken
        /\ saved' = IF Fills(t) THEN [saved EXCEPT ![val[t]] = text] ELSE saved
    BY <1>3 DEF Copy, IInv, TypeOK, Writers, HoldsNew, Broken
  <2>2. n \in DOMAIN saved /\ saved[n] = Broken /\ (n = on[t] => dent[t] # "there")
    BY <1>3, <2>1 DEF Fills
  <2>3. ASSUME NEW u \in Tasks, pc[u] = "copy", on[u] = n, dent[u] = "there"
        PROVE  Filler(n)'
    BY <2>1, <2>2, <2>3 DEF Filler
  <2> QED BY <2>2, <2>3 DEF Filler
<1>4. ASSUME IInv, NEW t \in Tasks, Begin(t) PROVE OnlyOf(t) /\ saved' = saved /\ pc[t] # "copy"
  BY <1>4 DEF Begin, StartWrite, StartDelete, StartDeleteAll, StartRestore, View,
              Start, OnlyOf, IInv, TypeOK
<1>5. ASSUME IInv, NEW t \in Tasks,
             \/ TakeNumber(t) \/ SetRevision(t) \/ SetYoungest(t)
             \/ FindOutdated(t) \/ LookupNew(t) \/ LowerWrite(t) \/ FindVersion(t)
             \/ CompareYoungest(t) \/ LowerRevision(t) \/ LowerYoungest(t)
      PROVE  OnlyOf(t) /\ saved' = saved /\ pc[t] # "copy"
  BY <1>5 DEF TakeNumber, SetRevision, SetYoungest, FindOutdated, LookupNew,
              LowerWrite, FindVersion, CompareYoungest, LowerRevision, LowerYoungest,
              Hold, Return, Forgotten, OnlyOf, IInv, TypeOK
<1>6. ASSUME IInv, NEW t \in Tasks,
             \/ CountVersions(t) \/ FindNext(t) \/ ResetRevision(t)
             \/ FindFile(t) \/ UnlinkFile(t) \/ CreateRestored(t) \/ FillRestored(t)
      PROVE  OnlyOf(t) /\ saved' = saved /\ pc[t] # "copy"
  BY <1>6 DEF CountVersions, FindNext, ResetRevision, FindFile, UnlinkFile,
              CreateRestored, FillRestored, Hold, Return, Forgotten, OnlyOf, IInv, TypeOK
<1>7. ASSUME Forget \/ Create \/ Collect PROVE UNCHANGED <<saved, locals>>
  BY <1>7 DEF Forget, Create, Collect
<1>8. ASSUME UNCHANGED <<saved, locals>>, NEW n \in DOMAIN saved', saved'[n] = Broken
      PROVE  Kept(n)
  BY <1>8 DEF Filler, locals
<1>9. IInv /\ [Next]_vars => [All]_vars
  <2> SUFFICES ASSUME IInv, Next, NEW n \in DOMAIN saved', saved'[n] = Broken, ~Crash
               PROVE  Kept(n)
    OBVIOUS
  <2> HIDE DEF Kept
  <2>1. ASSUME NEW t \in Tasks, Begin(t) \/ Advance(t) PROVE Kept(n)
    <3>1. CASE OnlyOf(t) /\ saved' = saved /\ pc[t] # "copy"
      BY <3>1, QuietKeepsFillers DEF Kept
    <3> QED BY <2>1, <3>1, <1>1, <1>2, <1>3, <1>4, <1>5, <1>6 DEF Advance
  <2> QED BY <2>1, <1>7, <1>8 DEF Next
<1> QED BY <1>9, Invariance, PTL DEF Spec, OnlyCrashLeavesEmpty

-----------------------------------------------------------------------------
\* A backup is filled by the task that created it, and never again.
THEOREM BackupsFilledOnce == Spec => FilledOnce
<1> DEFINE Once == \A n \in DOMAIN saved \cap DOMAIN saved' :
                     saved'[n] # saved[n] => saved[n] = Broken
<1>1. IInv /\ [Next]_vars => [Once]_vars
  <2> SUFFICES ASSUME IInv, Next PROVE Once
    OBVIOUS
  <2>1. ASSUME NEW t \in Tasks, Copy(t) PROVE Once
    <3>1. CASE dent[t] = "there"
      <4>1. saved[val[t]] = Broken
        BY <2>1, <3>1 DEF Copy, IInv, Writers, EmptyUntilFilled, HoldsNew
      <4>2. saved' = [saved EXCEPT ![val[t]] = text]
        BY <2>1, <3>1 DEF Copy, Fills
      <4> QED BY <4>1, <4>2
    <3>2. CASE dent[t] # "there"
      BY <2>1, <3>2 DEF Copy, Fills
    <3> QED BY <3>1, <3>2
  <2>2. ASSUME NEW t \in Tasks, CreateNew(t) PROVE Once
    <3>1. CASE StillNegative(t)
      <4>1. val[t] \notin DOMAIN saved
        BY <2>2, <3>1 DEF CreateNew, StillNegative, IInv, TypeOK, Writers, HoldsNew
      <4> QED BY <2>2, <3>1, <4>1 DEF CreateNew
    <3>2. CASE ~StillNegative(t)
      BY <2>2, <3>2 DEF CreateNew, disk
    <3> QED BY <3>1, <3>2
  <2>3. ASSUME NEW t \in Tasks, Expire(t) \/ UnlinkVersion(t) \/ PurgeNext(t) PROVE Once
    BY <2>3 DEF Expire, UnlinkVersion, PurgeNext, Unlinked, NotUnlinked, disk
  <2>4. ASSUME saved' = saved PROVE Once
    BY <2>4
  <2>5. ASSUME Crash \/ Forget \/ Create \/ Collect PROVE saved' = saved
    BY <2>5 DEF Crash, Forget, Create, Collect
  <2>6. ASSUME NEW t \in Tasks, Begin(t) PROVE saved' = saved
    BY <2>6 DEF Begin, StartWrite, StartDelete, StartDeleteAll, StartRestore, View,
                Start, disk
  <2>7. ASSUME NEW t \in Tasks,
               \/ TakeNumber(t) \/ SetRevision(t) \/ SetYoungest(t)
               \/ FindOutdated(t) \/ LookupNew(t) \/ LowerWrite(t) \/ FindVersion(t)
               \/ CompareYoungest(t) \/ LowerRevision(t) \/ LowerYoungest(t)
               \/ CountVersions(t) \/ FindNext(t) \/ ResetRevision(t)
               \/ FindFile(t) \/ UnlinkFile(t) \/ CreateRestored(t) \/ FillRestored(t)
        PROVE  saved' = saved
    BY <2>7 DEF TakeNumber, SetRevision, SetYoungest, FindOutdated, LookupNew,
                LowerWrite, FindVersion, CompareYoungest, LowerRevision, LowerYoungest,
                CountVersions, FindNext, ResetRevision, FindFile, UnlinkFile,
                CreateRestored, FillRestored, disk
  <2> QED BY <2>1, <2>2, <2>3, <2>4, <2>5, <2>6, <2>7 DEF Next, Advance
<1> QED BY <1>1, Invariance, PTL DEF Spec, FilledOnce

-----------------------------------------------------------------------------
(* A task that works alone, with crashes.  What it has read and written stays  *)
(* as it was for as long as it needs it.                                       *)
Restoring == {"findfile", "unlinkfile", "restored", "fill", "count", "loop",
              "purge"}

Settled ==
  \A t \in Tasks :
    /\ file = "none" => pc[t] = "idle"
    /\ ask[t] # Nil => pc[t] \in Restoring
    /\ pc[t] = "setyoung" => rev = val[t]
    /\ pc[t] \in {"outdated", "expire", "lookup", "create"} =>
         rev = val[t] /\ young = val[t]
    /\ pc[t] \in {"copy", "write"} => dent[t] = "there"
    /\ pc[t] = "write" => saved[on[t]] = text
    /\ pc[t] \in {"count", "loop", "purge"} /\ ask[t] \in DOMAIN saved =>
         restored = saved[ask[t]]

LEMMA AloneSettled ==
  ASSUME NEW me, Tasks = {me}
  PROVE  IInv /\ Settled /\ [Next]_vars => Settled'
<1> SUFFICES ASSUME IInv, Settled, [Next]_vars PROVE Settled'
  OBVIOUS
<1> USE TasksAssumption DEF disk, cache, attrs, locals, Go, Restoring
<1>1. ASSUME NEW t \in Tasks, StartWrite(t) PROVE Settled'
    BY <1>1 DEF Settled, IInv, TypeOK, Writers, HoldsNew, StartWrite, Start
<1>2. ASSUME NEW t \in Tasks, StartDeleteAll(t) PROVE Settled'
    BY <1>2 DEF Settled, IInv, TypeOK, Writers, HoldsNew, StartDeleteAll, Start
<1>3. ASSUME NEW t \in Tasks, TakeNumber(t) PROVE Settled'
    BY <1>3 DEF Settled, IInv, TypeOK, Writers, HoldsNew, TakeNumber, Fetched,
         NextVersion
<1>4. ASSUME NEW t \in Tasks, SetRevision(t) PROVE Settled'
    BY <1>4 DEF Settled, IInv, TypeOK, Writers, HoldsNew, SetRevision
<1>5. ASSUME NEW t \in Tasks, SetYoungest(t) PROVE Settled'
    BY <1>5 DEF Settled, IInv, TypeOK, Writers, HoldsNew, SetYoungest, SetsYoungest
<1>6. ASSUME NEW t \in Tasks, FindOutdated(t) PROVE Settled'
    BY <1>6 DEF Settled, IInv, TypeOK, Writers, HoldsNew, FindOutdated, Hold, Cached
<1>7. ASSUME NEW t \in Tasks, Expire(t) PROVE Settled'
    BY <1>7 DEF Settled, IInv, TypeOK, Writers, HoldsNew, Expire, Unlinked,
         NotUnlinked, Turn, Return, Forgotten
<1>8. ASSUME NEW t \in Tasks, LookupNew(t) PROVE Settled'
    BY <1>8 DEF Settled, IInv, TypeOK, Writers, HoldsNew, LookupNew, Hold
<1>9. ASSUME NEW t \in Tasks, CreateNew(t) PROVE Settled'
    BY <1>9 DEF Settled, IInv, TypeOK, Writers, HoldsNew, CreateNew, StillNegative,
         Refused, Turn, Return, Forgotten
<1>10. ASSUME NEW t \in Tasks, Copy(t) PROVE Settled'
    BY <1>10 DEF Settled, IInv, TypeOK, Writers, HoldsNew, Copy, Fills
<1>11. ASSUME NEW t \in Tasks, LowerWrite(t) PROVE Settled'
    BY <1>11 DEF Settled, IInv, TypeOK, Writers, HoldsNew, LowerWrite, Return,
         Forgotten
<1>12. ASSUME NEW t \in Tasks, FindVersion(t) PROVE Settled'
    BY <1>12 DEF Settled, IInv, TypeOK, Writers, HoldsNew, FindVersion, Return,
         Forgotten, Hold, Cached
<1>13. ASSUME NEW t \in Tasks, UnlinkVersion(t) PROVE Settled'
    BY <1>13 DEF Settled, IInv, TypeOK, Writers, HoldsNew, UnlinkVersion, Unlinked,
         NotUnlinked, Turn, Return, Forgotten
<1>14. ASSUME NEW t \in Tasks, CompareYoungest(t) PROVE Settled'
    BY <1>14 DEF Settled, IInv, TypeOK, Writers, HoldsNew, CompareYoungest, Return,
         Forgotten, Fetched
<1>15. ASSUME NEW t \in Tasks, LowerRevision(t) PROVE Settled'
    BY <1>15 DEF Settled, IInv, TypeOK, Writers, HoldsNew, LowerRevision
<1>16. ASSUME NEW t \in Tasks, LowerYoungest(t) PROVE Settled'
    BY <1>16 DEF Settled, IInv, TypeOK, Writers, HoldsNew, LowerYoungest, Return,
         Forgotten
<1>17. ASSUME NEW t \in Tasks, CountVersions(t) PROVE Settled'
    BY <1>17 DEF Settled, IInv, TypeOK, Writers, HoldsNew, CountVersions, Fetched
<1>18. ASSUME NEW t \in Tasks, FindNext(t) PROVE Settled'
    BY <1>18 DEF Settled, IInv, TypeOK, Writers, HoldsNew, FindNext, Return,
         Forgotten, Hold, Cached, Before
<1>19. ASSUME NEW t \in Tasks, PurgeNext(t) PROVE Settled'
    BY <1>19 DEF Settled, IInv, TypeOK, Writers, HoldsNew, PurgeNext, Before,
         Unlinked, NotUnlinked, Turn, Return, Forgotten
<1>20. ASSUME NEW t \in Tasks, ResetRevision(t) PROVE Settled'
    BY <1>20 DEF Settled, IInv, TypeOK, Writers, HoldsNew, ResetRevision, Return,
         Forgotten
<1>21. ASSUME NEW t \in Tasks, FindFile(t) PROVE Settled'
    BY <1>21 DEF Settled, IInv, TypeOK, Writers, HoldsNew, FindFile
<1>22. ASSUME NEW t \in Tasks, UnlinkFile(t) PROVE Settled'
    BY <1>22 DEF Settled, IInv, TypeOK, Writers, HoldsNew, UnlinkFile, Return,
         Forgotten
<1>23. ASSUME NEW t \in Tasks, CreateRestored(t) PROVE Settled'
    BY <1>23 DEF Settled, IInv, TypeOK, Writers, HoldsNew, CreateRestored, Return,
         Forgotten
<1>24. ASSUME NEW t \in Tasks, FillRestored(t) PROVE Settled'
    BY <1>24 DEF Settled, IInv, TypeOK, Writers, HoldsNew, FillRestored, Return,
         Forgotten, CacheLookup, Delivers
<1>25. ASSUME NEW t \in Tasks, NEW v \in Requests, StartDelete(t, v) PROVE Settled'
  BY <1>25 DEF Settled, IInv, TypeOK, StartDelete, Start
<1>26. ASSUME NEW t \in Tasks, NEW v \in Requests, StartRestore(t, v) PROVE Settled'
  BY <1>26 DEF Settled, IInv, TypeOK, StartRestore, Start
<1>27. ASSUME NEW t \in Tasks, NEW v \in Requests, View(t, v) PROVE Settled'
  BY <1>27 DEF Settled, IInv, TypeOK, View, Start, CacheLookup
<1>28. ASSUME Crash PROVE Settled'
  BY <1>28 DEF Settled, Crash
<1>29. ASSUME Forget \/ Create \/ Collect \/ UNCHANGED vars PROVE Settled'
  BY <1>29 DEF Settled, IInv, TypeOK, Forget, Create, Collect, vars
<1> QED
    BY <1>1, <1>2, <1>3, <1>4, <1>5, <1>6, <1>7, <1>8, <1>9, <1>10, <1>11, <1>12,
     <1>13, <1>14, <1>15, <1>16, <1>17, <1>18, <1>19, <1>20, <1>21, <1>22, <1>23,
     <1>24, <1>25, <1>26, <1>27, <1>28, <1>29 DEF Next, Begin, Advance

LEMMA AloneInvariance ==
  ASSUME NEW me, Tasks = {me}
  PROVE  Spec => [](IInv /\ Settled)
<1>1. Init => Settled
  BY DEF Init, Settled
<1>2. IInv /\ Settled /\ [Next]_vars => (IInv /\ Settled)'
  BY StepKeeps, AloneSettled
<1> QED BY <1>1, <1>2, InitIInv, PTL DEF Spec

\* What a task that is at work alone is sure of when it creates a backup, writes, or
\* purges.
Informed ==
  /\ \A t, u \in Tasks : pc[t] # "idle" /\ pc[u] # "idle" => t = u
  /\ \A t \in Tasks :
       /\ pc[t] = "create" => rev = val[t] /\ young = val[t]
       /\ pc[t] = "write" => dent[t] = "there" /\ saved[on[t]] = text
       /\ pc[t] = "purge" /\ ask[t] \in DOMAIN saved => restored = saved[ask[t]]

\* What a step of such a task does.
AloneDoes ==
  /\ file # "none" /\ text' # text => \E n \in DOMAIN saved : saved[n] = text
  /\ \A n \in DOMAIN saved' \ DOMAIN saved : rev = n /\ young = n
  /\ \A t \in Tasks : pc[t] = "purge" /\ ask[t] = on[t] /\ saved' # saved
                        => restored = saved[on[t]]

LEMMA InformedStep ==
  ASSUME IInv, Informed, [Next]_vars
  PROVE  AloneDoes
<1> USE TasksAssumption DEF disk, cache, attrs, locals, Go, AloneDoes
<1>1. ASSUME NEW t \in Tasks, LowerWrite(t) PROVE AloneDoes
  BY <1>1 DEF LowerWrite, Informed, IInv, TypeOK
<1>2. ASSUME NEW t \in Tasks, CreateNew(t) PROVE AloneDoes
  BY <1>2 DEF CreateNew, Refused, Informed, IInv, TypeOK
<1>3. ASSUME NEW t \in Tasks, PurgeNext(t) PROVE AloneDoes
  BY <1>3 DEF PurgeNext, Unlinked, NotUnlinked, Informed, IInv, TypeOK
<1>4. ASSUME NEW t \in Tasks, Expire(t) \/ UnlinkVersion(t) \/ Copy(t) PROVE AloneDoes
  BY <1>4 DEF Expire, UnlinkVersion, Unlinked, NotUnlinked, Copy, Informed, IInv, TypeOK
<1>5. ASSUME saved' = saved, file = "none" \/ text' = text PROVE AloneDoes
  BY <1>5
<1>6. ASSUME Crash \/ Forget \/ Create \/ Collect \/ UNCHANGED vars PROVE AloneDoes
  BY <1>5, <1>6 DEF Crash, Forget, Create, Collect, vars
<1>7. ASSUME NEW t \in Tasks, Begin(t) PROVE AloneDoes
  BY <1>5, <1>7 DEF Begin, StartWrite, StartDelete, StartDeleteAll, StartRestore,
                    View, Start
<1>8. ASSUME NEW t \in Tasks,
             \/ TakeNumber(t) \/ SetRevision(t) \/ SetYoungest(t)
             \/ FindOutdated(t) \/ LookupNew(t) \/ FindVersion(t)
             \/ CompareYoungest(t) \/ LowerRevision(t) \/ LowerYoungest(t)
             \/ CountVersions(t) \/ FindNext(t) \/ ResetRevision(t)
             \/ FindFile(t) \/ UnlinkFile(t) \/ CreateRestored(t) \/ FillRestored(t)
      PROVE  AloneDoes
  BY <1>5, <1>8 DEF TakeNumber, SetRevision, SetYoungest, FindOutdated, LookupNew,
              FindVersion, CompareYoungest, LowerRevision, LowerYoungest,
              CountVersions, FindNext, ResetRevision, FindFile, UnlinkFile,
              CreateRestored, FillRestored
<1> QED BY <1>1, <1>2, <1>3, <1>4, <1>6, <1>7, <1>8 DEF Next, Advance

LEMMA AloneAlways ==
  ASSUME NEW me, Tasks = {me}
  PROVE  Spec => [][AloneDoes]_vars
<1>1. Settled => Informed
  BY DEF Settled, Informed
<1>2. IInv /\ Settled /\ [Next]_vars => [AloneDoes]_vars
  BY <1>1, InformedStep
<1> QED BY <1>2, AloneInvariance, PTL DEF Spec

\* Alone, a write replaces only contents that are in a backup, crashes or not.
THEOREM AloneBackedUp == ASSUME NEW me, Tasks = {me} PROVE Spec => BackedUpFirst
<1>1. [AloneDoes]_vars =>
        [file # "none" /\ text' # text => \E n \in DOMAIN saved : saved[n] = text]_vars
  BY DEF AloneDoes
<1> QED BY <1>1, AloneAlways, PTL DEF BackedUpFirst

\* Alone, a write creates its backup under the number that both attributes have,
\* wherever a crash has left them.
THEOREM AloneSettles == ASSUME NEW me, Tasks = {me} PROVE Spec => NumbersSettled
<1>1. [AloneDoes]_vars =>
        [\A n \in DOMAIN saved' \ DOMAIN saved : rev = n /\ young = n]_vars
  BY DEF AloneDoes
<1> QED BY <1>1, AloneAlways, PTL DEF NumbersSettled

\* Alone, restore purges the version asked for only when it has been delivered.
THEOREM AloneDelivers == ASSUME NEW me, Tasks = {me} PROVE Spec => RestoreLosesNothing
<1>1. [AloneDoes]_vars =>
        [\A t \in Tasks : pc[t] = "purge" /\ ask[t] = on[t] /\ saved' # saved
           => restored = saved[on[t]]]_vars
  BY DEF AloneDoes
<1> QED BY <1>1, AloneAlways, PTL DEF RestoreLosesNothing

-----------------------------------------------------------------------------
(* What brings a call to its end, whatever the others do.                      *)

\* The loop purges positive numbers only.
Counting == \A t \in Tasks : pc[t] = "purge" => val[t] > 0

\* Other tasks change neither the step a task is at nor the number it works on.
LEMMA OwnSteps ==
  ASSUME TypeOK, NEW t \in Tasks, NEW u \in Tasks \ {t}, Begin(u) \/ Advance(u)
  PROVE  pc'[t] = pc[t] /\ val'[t] = val[t]
<1> USE DEF TypeOK, Go, Return, Forgotten, Unlinked, NotUnlinked, disk, cache, attrs
<1>1. ASSUME Begin(u) PROVE pc'[t] = pc[t] /\ val'[t] = val[t]
  BY <1>1 DEF Begin, StartWrite, StartDelete, StartDeleteAll, StartRestore, View, Start
<1>2. ASSUME \/ TakeNumber(u) \/ SetRevision(u) \/ SetYoungest(u) \/ FindOutdated(u)
             \/ Expire(u) \/ LookupNew(u) \/ CreateNew(u) \/ Copy(u) \/ LowerWrite(u)
      PROVE  pc'[t] = pc[t] /\ val'[t] = val[t]
  BY <1>2 DEF TakeNumber, SetRevision, SetYoungest, FindOutdated, Expire, LookupNew,
              CreateNew, Refused, Copy, LowerWrite
<1>3. ASSUME \/ FindVersion(u) \/ UnlinkVersion(u) \/ CompareYoungest(u)
             \/ LowerRevision(u) \/ LowerYoungest(u) \/ CountVersions(u)
             \/ FindNext(u) \/ PurgeNext(u) \/ ResetRevision(u)
      PROVE  pc'[t] = pc[t] /\ val'[t] = val[t]
  BY <1>3 DEF FindVersion, UnlinkVersion, CompareYoungest, LowerRevision,
              LowerYoungest, CountVersions, FindNext, PurgeNext, ResetRevision
<1>4. ASSUME FindFile(u) \/ UnlinkFile(u) \/ CreateRestored(u) \/ FillRestored(u)
      PROVE  pc'[t] = pc[t] /\ val'[t] = val[t]
  BY <1>4 DEF FindFile, UnlinkFile, CreateRestored, FillRestored
<1> QED BY <1>1, <1>2, <1>3, <1>4 DEF Advance

LEMMA CallShortens ==
  ASSUME TypeOK, Counting, NEW t \in Tasks, Advance(t)
  PROVE  Shorter(t) /\ (pc'[t] = "purge" => val'[t] > 0)
<1> DEFINE Goal == Shorter(t) /\ (pc'[t] = "purge" => val'[t] > 0)
<1> USE DEF TypeOK, Go, Return, Forgotten, Unlinked, NotUnlinked, Shorter, Place
<1>1. ASSUME \/ TakeNumber(t) \/ SetRevision(t) \/ SetYoungest(t) \/ FindOutdated(t)
      PROVE  Goal
  BY <1>1 DEF TakeNumber, SetRevision, SetYoungest, FindOutdated
<1>2. ASSUME \/ Expire(t) \/ LookupNew(t) \/ CreateNew(t) \/ Copy(t) \/ LowerWrite(t)
      PROVE  Goal
  BY <1>2 DEF Expire, LookupNew, CreateNew, Refused, Copy, LowerWrite
<1>3. ASSUME \/ FindVersion(t) \/ UnlinkVersion(t) \/ CompareYoungest(t)
             \/ LowerRevision(t) \/ LowerYoungest(t) \/ CountVersions(t) \/ ResetRevision(t)
      PROVE  Goal
  BY <1>3 DEF FindVersion, UnlinkVersion, CompareYoungest, LowerRevision,
              LowerYoungest, CountVersions, ResetRevision
<1>4. ASSUME FindFile(t) \/ UnlinkFile(t) \/ CreateRestored(t) \/ FillRestored(t)
      PROVE  Goal
  BY <1>4 DEF FindFile, UnlinkFile, CreateRestored, FillRestored
<1>5. ASSUME FindNext(t) PROVE Goal
  BY <1>5 DEF FindNext, Rounds, Before
<1>6. ASSUME PurgeNext(t) PROVE Goal
  BY <1>6 DEF PurgeNext, Rounds, Before, Counting
<1> QED BY <1>1, <1>2, <1>3, <1>4, <1>5, <1>6 DEF Advance

\* Each step of a call brings it nearer to its end, and no other task takes it
\* back: what is left of termination is that the task is run.
THEOREM CallsShorten == Spec => CallsGetShorter
<1> DEFINE Nearer == \A t \in Tasks : pc[t] # "idle" =>
             Shorter(t) \/ (pc'[t] = pc[t] /\ val'[t] = val[t] /\ ~Advance(t))
<1>1. ASSUME TypeOK, Crash \/ Forget \/ Create \/ Collect, NEW t \in Tasks
      PROVE  pc'[t] = "idle" \/ (pc'[t] = pc[t] /\ val'[t] = val[t])
  BY <1>1 DEF Crash, Forget, Create, Collect, locals
<1>2. ASSUME TypeOK, NEW t \in Tasks, Begin(t) PROVE pc[t] = "idle" /\ pc'[t] # "purge"
  BY <1>2 DEF Begin, StartWrite, StartDelete, StartDeleteAll, StartRestore, View,
              Start, Go, TypeOK
<1>3. ASSUME NEW t \in Tasks, TypeOK, pc[t] # "idle", pc'[t] = "idle" PROVE Shorter(t)
  BY <1>3 DEF TypeOK, Steps, Shorter, Place
<1>4. TypeOK /\ Counting /\ [Next]_vars => Counting'
  <2> SUFFICES ASSUME TypeOK, Counting, [Next]_vars, NEW t \in Tasks, pc'[t] = "purge"
               PROVE  val'[t] > 0
    BY DEF Counting
  <2>1. CASE UNCHANGED vars
    BY <2>1 DEF vars, locals, Counting
  <2>2. CASE Begin(t)
    BY <2>2, <1>2
  <2>3. CASE Advance(t)
    BY <2>3, CallShortens
  <2>4. CASE pc'[t] = pc[t] /\ val'[t] = val[t]
    BY <2>4 DEF Counting
  <2> QED BY <2>1, <2>2, <2>3, <2>4, <1>1, OwnSteps DEF Next
<1>5. TypeOK /\ Counting /\ [Next]_vars => [Nearer]_vars
  <2> SUFFICES ASSUME TypeOK, Counting, Next, NEW t \in Tasks, pc[t] # "idle"
               PROVE  Shorter(t) \/ (pc'[t] = pc[t] /\ val'[t] = val[t] /\ ~Advance(t))
    OBVIOUS
  <2>1. CASE Advance(t)
    BY <2>1, CallShortens
  <2>2. CASE ~Advance(t)
    BY <2>2, <1>1, <1>2, <1>3, OwnSteps DEF Next
  <2> QED BY <2>1, <2>2
<1>6. Init => Counting
  BY DEF Init, Counting
<1> QED BY <1>4, <1>5, <1>6, TasksTyped, PTL DEF Spec, CallsGetShorter
=============================================================================
