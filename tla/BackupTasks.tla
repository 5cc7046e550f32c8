---------------------------- MODULE BackupTasks ----------------------------
(***************************************************************************)
(* bkpfs_write and the ioctls that delete, restore and view, of several    *)
(* tasks on one file, step by step.  None takes a lock of its own: the VFS *)
(* locks the inode for each attribute call, the lower directory for each   *)
(* creation and unlink, and the lower inode for each copy and write, so    *)
(* these are the steps.                                                    *)
(* The machine may crash between any two.  Nothing else fails here: what a *)
(* failing call does is in BackupStore.                                    *)
(*                                                                         *)
(* Between two steps a task holds a lower dentry, by reference.  There is  *)
(* one hashed dentry for a name.  A creation makes it positive for all who *)
(* hold it; an unlink unhashes it, and they keep a dentry that is neither  *)
(* in the directory nor negative.                                          *)
(*                                                                         *)
(* As in BackupStore, a variant before an operator is a mistake the code   *)
(* could have made there, used to see that a property notices it.          *)
(***************************************************************************)
EXTENDS Integers, FiniteSets

CONSTANTS
  Tasks,
  N,          \* how many backups retention keeps (#define N 10)
  StackInts,  \* what an int on the kernel stack may hold before it is set
  Calls,      \* the calls tasks make, of CallKinds
  Requests,   \* version numbers passed to the ioctls
  MaxCalls,   \* bound: number of calls
  Crashes,    \* whether the machine may crash
  Nil

CallKinds == {"write", "delete", "deleteall", "restore", "view"}

ASSUME TasksAssumption ==
  /\ N \in Nat \ {0}
  /\ StackInts \subseteq Int /\ StackInts # {}
  /\ Calls \subseteq CallKinds
  /\ Requests \subseteq Nat \ {0}
  /\ MaxCalls \in Nat
  /\ Crashes \in BOOLEAN
  /\ Nil \notin Int

VARIABLES
  file,      \* "listed" in the lower directory, "orphan" or "none"
  text,      \* contents of the file, the number of the write that made them
  rev,       \* user.revision
  young,     \* user.youngest
  saved,     \* backups in the lower directory: number -> contents
  restored,  \* contents of "restored_<name>", or Nil
  warm,      \* numbers whose lower dentry is hashed and positive
  negative,  \* numbers whose lower dentry is hashed and negative
  calls,     \* calls made so far
  pc,        \* pc[t]: the step task t is to take
  ask,       \* ask[t]: the version t restores, Nil if it does not restore
  val,       \* val[t]: val or i of the call
  on,        \* on[t]: the number whose dentry t holds
  dent,      \* dent[t]: what that dentry is
  result     \* result[t]: what the last call of t returned

attrs  == <<rev, young>>
disk   == <<file, text, attrs, saved, restored>>
cache  == <<warm, negative>>
locals == <<pc, ask, val, on, dent>>
vars   == <<disk, cache, calls, locals, result>>

Broken == -1   \* contents of a backup that is created and not yet filled

Steps == {"idle", "number", "setrev", "setyoung", "outdated", "expire",
          "lookup", "create", "copy", "write",
          "find", "unlink", "compare", "lowerrev", "loweryoung",
          "count", "loop", "purge", "reset",
          "findfile", "unlinkfile", "restored", "fill"}

TypeOK ==
  /\ file \in {"listed", "orphan", "none"}
  /\ text \in Nat /\ rev \in Int \cup {Nil} /\ young \in Int \cup {Nil}
  /\ DOMAIN saved \subseteq Nat \ {0}
  /\ saved \in [DOMAIN saved -> Nat \cup {Broken}]
  /\ restored \in Nat \cup {Broken, Nil}
  /\ warm \subseteq DOMAIN saved
  /\ negative \cap DOMAIN saved = {}
  /\ calls \in 0..MaxCalls
  /\ pc \in [Tasks -> Steps]
  /\ ask \in [Tasks -> Requests \cup {Nil}]
  /\ val \in [Tasks -> Int] /\ on \in [Tasks -> Int]
  /\ dent \in [Tasks -> {"none", "missing", "there", "unlinked"}]
  /\ result \in [Tasks -> {"none", "ok", "EEXIST", "ENOENT", "ENOTTY"}]
  \* what a dentry is held for is what the directory says
  /\ \A t \in Tasks : /\ dent[t] = "there" => on[t] \in warm
                      /\ dent[t] = "missing" => on[t] \in negative

Init ==
  /\ file = "none" /\ text = 0 /\ restored = Nil /\ rev = Nil /\ young = Nil
  /\ saved = [n \in {} |-> 0]
  /\ warm = {} /\ negative = {} /\ calls = 0
  /\ pc = [t \in Tasks |-> "idle"]
  /\ ask = [t \in Tasks |-> Nil]
  /\ val = [t \in Tasks |-> 0] /\ on = [t \in Tasks |-> 0]
  /\ dent = [t \in Tasks |-> "none"]
  /\ result = [t \in Tasks |-> "none"]

-----------------------------------------------------------------------------
Fetched(attribute) == IF attribute = Nil THEN StackInts ELSE {attribute}
NextVersion(v) == IF v < 0 THEN 1 ELSE v + 1

Go(t, step) == pc' = [pc EXCEPT ![t] = step]
Forgotten(t) == /\ ask' = [ask EXCEPT ![t] = Nil]
                /\ val' = [val EXCEPT ![t] = 0] /\ on' = [on EXCEPT ![t] = 0]

\* The call of t returns; it holds no dentry that matters any more.
Return(t, err) ==
  /\ Go(t, "idle") /\ Forgotten(t)
  /\ dent' = [dent EXCEPT ![t] = "none"]
  /\ result' = [result EXCEPT ![t] = err]

Hold(t, n, d) == on' = [on EXCEPT ![t] = n] /\ dent' = [dent EXCEPT ![t] = d]

\* d_lookup of n in the lower dentry cache.
CachedOrMissing(n) == IF n \in warm THEN "there" ELSE "missing"
Cached(n) == IF n \in warm THEN "there"
             ELSE IF n \in negative THEN "missing" ELSE "none"

\* All who hold the dentry d of n hold it as e from now on.
Turn(n, d, e) ==
  dent' = [t \in Tasks |-> IF on[t] = n /\ dent[t] = d THEN e ELSE dent[t]]

\* delete() of the dentry t holds, and the step after it.
Unlinked(t, step) ==
  /\ dent[t] = "there"
  /\ saved' = [n \in DOMAIN saved \ {on[t]} |-> saved[n]]
  /\ warm' = warm \ {on[t]}
  /\ Turn(on[t], "there", "unlinked")
  /\ Go(t, step)
  /\ UNCHANGED <<file, text, attrs, restored, negative, calls, ask, on, result>>

\* It fails if the dentry is negative, or of a file unlinked meanwhile.
NotUnlinked(t) ==
  /\ dent[t] # "there"
  /\ Return(t, "ENOENT")
  /\ UNCHANGED <<disk, cache, calls>>

Start(t, call, step) ==
  /\ call \in Calls /\ calls < MaxCalls /\ pc[t] = "idle" /\ file # "none"
  /\ calls' = calls + 1
  /\ Go(t, step)
  /\ UNCHANGED <<disk, dent, result>>

-----------------------------------------------------------------------------
(* bkpfs_write.                                                              *)
StartWrite(t) ==
  Start(t, "write", "number") /\ UNCHANGED <<cache, ask, val, on>>

TakeNumber(t) ==
  /\ pc[t] = "number" /\ Go(t, "setrev")
  /\ \E v \in Fetched(rev) : val' = [val EXCEPT ![t] = NextVersion(v)]
  /\ UNCHANGED <<disk, cache, calls, ask, on, dent, result>>

SetRevision(t) ==
  /\ pc[t] = "setrev" /\ Go(t, "setyoung")
  /\ rev' = val[t]
  /\ UNCHANGED <<file, text, young, saved, restored, cache, calls, ask, val, on,
                 dent, result>>

\* The second attribute only if the first was not set.
SetsYoungestOnce(t) == young' = IF young = Nil THEN val[t] ELSE young
SetsYoungest(t) == young' = val[t]

SetYoungest(t) ==
  /\ pc[t] = "setyoung" /\ Go(t, IF val[t] > N THEN "outdated" ELSE "lookup")
  /\ SetsYoungest(t)
  /\ UNCHANGED <<file, text, rev, saved, restored, cache, calls, ask, val, on,
                 dent, result>>

FindOutdated(t) ==
  /\ pc[t] = "outdated"
  /\ Go(t, IF Cached(val[t] - N) = "none" THEN "lookup" ELSE "expire")
  /\ Hold(t, val[t] - N, Cached(val[t] - N))
  /\ UNCHANGED <<disk, cache, calls, ask, val, result>>

Expire(t) ==
  /\ pc[t] = "expire"
  /\ (Unlinked(t, "lookup") /\ UNCHANGED val) \/ NotUnlinked(t)

\* bkpfs_lookup of the new name leaves a dentry, found or negative.
LookupNew(t) ==
  /\ pc[t] = "lookup" /\ Go(t, "create")
  /\ IF val[t] \in DOMAIN saved
     THEN /\ warm' = warm \cup {val[t]} /\ UNCHANGED negative
          /\ Hold(t, val[t], "there")
     ELSE /\ negative' = negative \cup {val[t]} /\ UNCHANGED warm
          /\ Hold(t, val[t], "missing")
  /\ UNCHANGED <<disk, calls, ask, val, result>>

\* create() is exclusive: the dentry must still be negative.
StillNegativeAssumed(t) == TRUE
StillNegative(t) == dent[t] = "missing"

RefusedUnseen(t) == Go(t, "write") /\ UNCHANGED <<ask, val, on, dent, result>>
Refused(t) == Return(t, "EEXIST")

CreateNew(t) ==
  /\ pc[t] = "create"
  /\ \/ /\ StillNegative(t)
        /\ saved' = [n \in DOMAIN saved \cup {val[t]} |->
                       IF n = val[t] THEN Broken ELSE saved[n]]
        /\ warm' = warm \cup {val[t]} /\ negative' = negative \ {val[t]}
        /\ Turn(val[t], "missing", "there")
        /\ Go(t, "copy")
        /\ UNCHANGED <<file, text, attrs, restored, calls, ask, val, on, result>>
     \/ /\ ~StillNegative(t)
        /\ Refused(t)
        /\ UNCHANGED <<disk, cache, calls>>

\* The copy goes into the file t created, in the directory or not any more.
FillsByName(t) == val[t] \in DOMAIN saved
FillsIfCurrent(t) == dent[t] = "there" /\ rev = val[t]
Fills(t) == dent[t] = "there"

Copy(t) ==
  /\ pc[t] = "copy" /\ Go(t, "write")
  /\ saved' = IF Fills(t) THEN [saved EXCEPT ![val[t]] = text] ELSE saved
  /\ UNCHANGED <<file, text, attrs, restored, cache, calls, ask, val, on, dent,
                 result>>

LowerWrite(t) ==
  /\ pc[t] = "write"
  /\ text' = text + 1
  /\ Return(t, "ok")
  /\ UNCHANGED <<file, attrs, saved, restored, cache, calls>>

-----------------------------------------------------------------------------
(* ioctl 1000, one version.                                                  *)
StartDelete(t, v) ==
  /\ Start(t, "delete", "find")
  /\ val' = [val EXCEPT ![t] = v] /\ UNCHANGED <<cache, ask, on>>

FindVersion(t) ==
  /\ pc[t] = "find"
  /\ \/ /\ Cached(val[t]) = "none" /\ Return(t, "ENOTTY")
     \/ /\ Cached(val[t]) # "none" /\ Go(t, "unlink")
        /\ Hold(t, val[t], Cached(val[t])) /\ UNCHANGED <<ask, val, result>>
  /\ UNCHANGED <<disk, cache, calls>>

UnlinkVersion(t) ==
  /\ pc[t] = "unlink"
  /\ (Unlinked(t, "compare") /\ UNCHANGED val) \/ NotUnlinked(t)

CompareYoungest(t) ==
  /\ pc[t] = "compare"
  /\ \E y \in Fetched(young) :
       \/ val[t] = y /\ Go(t, "lowerrev")
                    /\ UNCHANGED <<ask, val, on, dent, result>>
       \/ val[t] # y /\ Return(t, "ok")
  /\ UNCHANGED <<disk, cache, calls>>

LowerRevision(t) ==
  /\ pc[t] = "lowerrev" /\ Go(t, "loweryoung")
  /\ rev' = val[t] - 1
  /\ UNCHANGED <<file, text, young, saved, restored, cache, calls, ask, val, on,
                 dent, result>>

LowerYoungest(t) ==
  /\ pc[t] = "loweryoung"
  /\ young' = val[t] - 1
  /\ Return(t, "ok")
  /\ UNCHANGED <<file, text, rev, saved, restored, cache, calls>>

-----------------------------------------------------------------------------
(* ioctl 1000, all versions, from user.revision down; restore has the same   *)
(* loop, without the reset.                                                  *)
StartDeleteAll(t) ==
  Start(t, "deleteall", "count") /\ UNCHANGED <<cache, ask, val, on>>

CountVersions(t) ==
  /\ pc[t] = "count" /\ Go(t, "loop")
  /\ \E v \in Fetched(rev) : val' = [val EXCEPT ![t] = v]
  /\ UNCHANGED <<disk, cache, calls, ask, on, dent, result>>

Same(i) == i
Before(i) == i - 1

FindNext(t) ==
  /\ pc[t] = "loop"
  /\ \/ /\ val[t] <= 0
        /\ \/ ask[t] = Nil /\ Go(t, "reset")
              /\ UNCHANGED <<ask, val, on, dent, result>>
           \/ ask[t] # Nil /\ Return(t, "ok")
     \/ /\ val[t] > 0 /\ Cached(val[t]) = "none"
        /\ val' = [val EXCEPT ![t] = Before(val[t])]
        /\ UNCHANGED <<pc, ask, on, dent, result>>
     \/ /\ val[t] > 0 /\ Cached(val[t]) # "none" /\ Go(t, "purge")
        /\ Hold(t, val[t], Cached(val[t])) /\ UNCHANGED <<ask, val, result>>
  /\ UNCHANGED <<disk, cache, calls>>

PurgeNext(t) ==
  /\ pc[t] = "purge"
  /\ \/ /\ Unlinked(t, "loop")
        /\ val' = [val EXCEPT ![t] = Before(val[t])]
     \/ NotUnlinked(t)

\* err is still -ENOTTY if the loop has deleted nothing.
ResetRevision(t) ==
  /\ pc[t] = "reset"
  /\ rev' = -1
  /\ Return(t, IF dent[t] = "unlinked" THEN "ok" ELSE "ENOTTY")
  /\ UNCHANGED <<file, text, young, saved, restored, cache, calls>>

-----------------------------------------------------------------------------
(* ioctl 1001.                                                               *)
StartRestore(t, v) ==
  /\ Start(t, "restore", "findfile")
  /\ ask' = [ask EXCEPT ![t] = v] /\ UNCHANGED <<cache, val, on>>

\* The lower dentry of a file that is listed is in use, so d_lookup finds it.
FindFile(t) ==
  /\ pc[t] = "findfile"
  /\ Go(t, IF file = "listed" THEN "unlinkfile" ELSE "restored")
  /\ UNCHANGED <<disk, cache, calls, ask, val, on, dent, result>>

UnlinkFile(t) ==
  /\ pc[t] = "unlinkfile"
  /\ \/ /\ file = "listed" /\ file' = "orphan" /\ Go(t, "restored")
        /\ UNCHANGED <<ask, val, on, dent, result>>
     \/ /\ file # "listed" /\ Return(t, "ENOENT") /\ UNCHANGED file
  /\ UNCHANGED <<text, attrs, saved, restored, cache, calls>>

CreateRestored(t) ==
  /\ pc[t] = "restored"
  /\ \/ /\ restored = Nil /\ restored' = Broken /\ Go(t, "fill")
        /\ UNCHANGED <<ask, val, on, dent, result>>
     \/ /\ restored # Nil /\ Return(t, "EEXIST") /\ UNCHANGED restored
  /\ UNCHANGED <<file, text, attrs, saved, cache, calls>>

\* vfs_path_lookup caches what it finds, or that the name is missing.
CacheLookup(n) ==
  IF n \in DOMAIN saved THEN warm' = warm \cup {n} /\ UNCHANGED negative
                        ELSE negative' = negative \cup {n} /\ UNCHANGED warm

\* The version is looked up, opened and copied: a step, as only a task that
\* fills that version meanwhile could tell the three apart.
DeliversNothing(n) == UNCHANGED restored
Delivers(n) == restored' = saved[n]

FillRestored(t) ==
  /\ pc[t] = "fill" /\ CacheLookup(ask[t])
  /\ \/ /\ ask[t] \in DOMAIN saved /\ Delivers(ask[t]) /\ Go(t, "count")
        /\ UNCHANGED <<ask, val, on, dent, result>>
     \/ /\ ask[t] \notin DOMAIN saved /\ Return(t, "ENOENT") /\ UNCHANGED restored
  /\ UNCHANGED <<file, text, attrs, saved, calls>>

\* ioctl 1002: it reads, and caches the name.
View(t, v) ==
  /\ Start(t, "view", "idle") /\ CacheLookup(v)
  /\ UNCHANGED <<ask, val, on>>

-----------------------------------------------------------------------------
\* The dentry of an orphan goes, with its inode, when nobody uses the file.
Forget ==
  /\ file = "orphan" /\ \A t \in Tasks : pc[t] = "idle"
  /\ file' = "none" /\ rev' = Nil /\ young' = Nil
  /\ UNCHANGED <<text, saved, restored, cache, calls, locals, result>>

\* bkpfs_create: a new file under the name.
Create ==
  /\ file = "none" /\ calls < MaxCalls
  /\ file' = "listed" /\ text' = text + 1 /\ calls' = calls + 1
  /\ UNCHANGED <<attrs, saved, restored, cache, locals, result>>

\* A user moves the restored file out of the way.
Collect ==
  /\ restored # Nil /\ \A t \in Tasks : pc[t] = "idle"
  /\ restored' = Nil
  /\ UNCHANGED <<file, text, attrs, saved, cache, calls, locals, result>>

\* What was done is on disk, and nothing else is left.
Crash ==
  /\ Crashes
  /\ warm' = {} /\ negative' = {}
  /\ IF file = "orphan" THEN file' = "none" /\ rev' = Nil /\ young' = Nil
                        ELSE UNCHANGED <<file, attrs>>
  /\ pc' = [t \in Tasks |-> "idle"]
  /\ ask' = [t \in Tasks |-> Nil]
  /\ val' = [t \in Tasks |-> 0] /\ on' = [t \in Tasks |-> 0]
  /\ dent' = [t \in Tasks |-> "none"]
  /\ result' = [t \in Tasks |-> "none"]
  /\ UNCHANGED <<text, saved, restored, calls>>

Begin(t) == \/ StartWrite(t) \/ StartDeleteAll(t)
            \/ \E v \in Requests : \/ StartDelete(t, v) \/ StartRestore(t, v)
                                   \/ View(t, v)

Advance(t) ==
  \/ TakeNumber(t) \/ SetRevision(t) \/ SetYoungest(t)
  \/ FindOutdated(t) \/ Expire(t)
  \/ LookupNew(t) \/ CreateNew(t) \/ Copy(t) \/ LowerWrite(t)
  \/ FindVersion(t) \/ UnlinkVersion(t)
  \/ CompareYoungest(t) \/ LowerRevision(t) \/ LowerYoungest(t)
  \/ CountVersions(t) \/ FindNext(t) \/ PurgeNext(t) \/ ResetRevision(t)
  \/ FindFile(t) \/ UnlinkFile(t) \/ CreateRestored(t) \/ FillRestored(t)

Next ==
  Crash \/ Forget \/ Create \/ Collect \/ \E t \in Tasks : Begin(t) \/ Advance(t)

\* The scheduler runs every task that is in a call; no step waits for another.
Spec == Init /\ [][Next]_vars /\ \A t \in Tasks : WF_vars(Advance(t))

-----------------------------------------------------------------------------
(* Properties.                                                               *)
AtRest == \A t \in Tasks : pc[t] = "idle"

\* Only the task that created a backup fills it, once: not the backup that
\* another has put under the same number after the first was deleted.
FilledOnce ==
  [][\A n \in DOMAIN saved \cap DOMAIN saved' :
       saved'[n] # saved[n] => saved[n] = Broken]_vars

\* Of two tasks that took the same number, one at most has its backup in the
\* directory: the other has been refused, or its backup has been deleted.
UniqueNumbers ==
  \A t, u \in Tasks :
    /\ t # u /\ val[t] = val[u]
    /\ {pc[t], pc[u]} \subseteq {"copy", "write"}
    => dent[t] = "unlinked" \/ dent[u] = "unlinked"

\* A task is about to fill the backup n.
Filler(n) == \E t \in Tasks : pc[t] = "copy" /\ on[t] = n /\ dent[t] = "there"

\* Without crashes a backup that is not filled yet has a task that will fill it.
NoneLeftEmpty ==
  ~Crashes => \A n \in DOMAIN saved : saved[n] = Broken => Filler(n)

\* Only a crash takes an empty backup from the task that is to fill it, and no
\* step but the creation by that task makes one: what is found empty later is
\* what a crash has left.
OnlyCrashLeavesEmpty ==
  [][\A n \in DOMAIN saved' : saved'[n] = Broken =>
       \/ Filler(n)' \/ Crash
       \/ n \in DOMAIN saved /\ saved[n] = Broken /\ ~Filler(n)]_vars

\* A write replaces only contents that are in a backup: "A backup file is created
\* just before a write operation" (README:7).  It holds for a task alone,
\* whatever crashes happened before, and not for two writers.
BackedUpFirst ==
  [][file # "none" /\ text' # text => \E n \in DOMAIN saved : saved[n] = text]_vars

\* A task that works alone creates a backup only when both attributes have its
\* number: where a crash has left them apart, the next write sets both.
NumbersSettled ==
  [][\A n \in DOMAIN saved' \ DOMAIN saved : rev = n /\ young = n]_vars

\* Restore, alone, purges the version it was asked for only when restored_<name>
\* has its contents.  A writer that fills that version meanwhile breaks this.
RestoreLosesNothing ==
  [][\A t \in Tasks : pc[t] = "purge" /\ ask[t] = on[t] /\ saved' # saved
       => restored = saved[on[t]]]_vars

\* Every call comes to an end.
EveryCallReturns == \A t \in Tasks : pc[t] # "idle" ~> pc[t] = "idle"

\* How far a step is from the end of its call; a loop stays where it is and
\* counts down.
Place == [idle |-> 0,
          number |-> 9, setrev |-> 8, setyoung |-> 7, outdated |-> 6, expire |-> 5,
          lookup |-> 4, create |-> 3, copy |-> 2, write |-> 1,
          find |-> 5, unlink |-> 4, compare |-> 3, lowerrev |-> 2, loweryoung |-> 1,
          findfile |-> 7, unlinkfile |-> 6, restored |-> 5, fill |-> 4,
          count |-> 3, loop |-> 2, purge |-> 2, reset |-> 1]
Rounds(t) == CASE pc[t] = "loop" -> 2 * val[t] [] pc[t] = "purge" -> 2 * val[t] - 1
               [] OTHER -> 0
Shorter(t) == \/ Place[pc'[t]] < Place[pc[t]]
              \/ Place[pc'[t]] = Place[pc[t]] /\ 0 <= Rounds(t)' /\ Rounds(t)' < Rounds(t)

\* Each step of a call brings it nearer to its end, by a measure that no step of
\* another task, whatever it deletes, creates or numbers meanwhile, sets back.
CallsGetShorter ==
  [][\A t \in Tasks : pc[t] # "idle" =>
       Shorter(t) \/ (pc'[t] = pc[t] /\ val'[t] = val[t] /\ ~Advance(t))]_vars

\* README:49, "we carefully update the current oldest and youngest version names
\* using vfs_setxattr": between calls the two attributes agree, but that
\* delete-all resets the first only.  Two writers interleave their two calls of
\* vfs_setxattr, and leave them different.
AttributesAgreeAtRest == ~Crashes /\ AtRest => rev = young \/ rev = -1

\* README:9, "value of maximum number of files is N": a writer that is overtaken
\* by N others creates a backup whose time retention has passed over.
RetentionAtRest == AtRest => Cardinality(DOMAIN saved) <= N
=============================================================================
