---------------------------- MODULE SerialTasks ----------------------------
(***************************************************************************)
(* The tasks of BackupTasks, one call at a time, as a lock around          *)
(* bkpfs_write and the ioctls would have them, and what that is worth:     *)
(* they implement BackupStore, whose actions are whole calls.  A crash in  *)
(* the middle of a call is, to BackupStore, a lower call that fails at     *)
(* that place and then a reboot.                                           *)
(*                                                                         *)
(* Three variables are added that no step of BackupTasks reads: the store  *)
(* as it was when the last call returned, the call that is made, and       *)
(* whether a crash has still to be shown as a reboot.                      *)
(***************************************************************************)
EXTENDS BackupTasks

CONSTANT IntMax   \* largest value of a C int

\* No number reaches the end of the int within the calls that are made.
ASSUME SerialAssumption ==
  /\ IntMax \in Nat /\ N <= IntMax /\ MaxCalls < IntMax
  /\ \A x \in StackInts : -IntMax - 1 <= x /\ x + MaxCalls <= IntMax
  /\ \A v \in Requests : v <= IntMax

VARIABLES
  shown,  \* the state of BackupStore
  asked,  \* the call that is made, and the numbers its reply names
  late    \* the machine has crashed in a call, and shown has not rebooted

ghosts     == <<shown, asked, late>>
serialVars == <<vars, ghosts>>

\* The lower calls whose failures a crash looks like.
CutCalls == {"setxattr", "unlink", "alloc", "lookup", "create", "open", "write"}

Store == INSTANCE BackupStore WITH
  file <- shown.file, text <- shown.text, tick <- shown.text,
  rev <- shown.rev, young <- shown.young, saved <- shown.saved,
  warm <- shown.warm, negative <- shown.negative,
  restored <- shown.restored, reply <- shown.reply,
  Faults <- (IF Crashes THEN CutCalls ELSE {}), MaxTicks <- MaxCalls

-----------------------------------------------------------------------------
Reply(op, err, out) == [op |-> op, err |-> err, out |-> out]
Other == Reply("other", "ok", <<>>)

\* The store as it is now, after a call that was answered by r.
Now(r) ==
  [file |-> file, text |-> text, rev |-> rev, young |-> young, saved |-> saved,
   warm |-> warm, negative |-> negative, restored |-> restored, reply |-> r]

\* The call returns with the state it leads to.
Shows(r) ==
  shown' = [file |-> file', text |-> text', rev |-> rev', young |-> young',
            saved |-> saved', warm |-> warm', negative |-> negative',
            restored |-> restored', reply |-> r]

SerialInit ==
  /\ Init
  /\ shown = Now(Other) /\ asked = [op |-> "other", out |-> <<>>] /\ late = FALSE

Asks(op, out) == asked' = [op |-> op, out |-> out] /\ UNCHANGED <<shown, late>>

Viewed(v) == IF v \in DOMAIN saved THEN Reply("view", "ok", <<v, saved[v], 0>>)
                                   ELSE Reply("view", "ENOENT", <<v>>)

\* A call begins when no other is at work.
SerialBegin(t) ==
  /\ AtRest /\ ~late
  /\ \/ StartWrite(t) /\ Asks("write", <<>>)
     \/ StartDeleteAll(t) /\ Asks("deleteall", <<>>)
     \/ \E v \in Requests :
          \/ StartDelete(t, v) /\ Asks("delete", <<v>>)
          \/ StartRestore(t, v) /\ Asks("restore", <<v>>)
          \/ View(t, v) /\ Shows(Viewed(v)) /\ UNCHANGED <<asked, late>>

\* The reply of a write names the number it took.
SerialAdvance(t) ==
  /\ Advance(t) /\ UNCHANGED late
  /\ asked' = IF pc[t] = "number" THEN [asked EXCEPT !.out = <<val'[t]>>] ELSE asked
  /\ IF pc'[t] = "idle" THEN Shows(Reply(asked.op, result'[t], asked.out))
                        ELSE UNCHANGED shown

SerialOther ==
  /\ ~late
  /\ \/ (Forget \/ Collect) /\ Shows(Other)
     \/ Create /\ Shows(Reply("create", "ok", <<>>))
  /\ UNCHANGED <<asked, late>>

-----------------------------------------------------------------------------
(* A crash in a call of t: which lower call the reader of the disk would think *)
(* has failed, before the machine went down.                                   *)

\* Where the loop of delete-all or restore, about to look at i, would have found
\* the next backup that it could not delete: 0 if there is none.
Hashed(i) == i \in warm \cup negative
Stop(i) ==
  IF i <= 0 THEN 0
  ELSE CHOOSE s \in 0..i : (s = 0 \/ Hashed(s)) /\ \A j \in (s + 1)..i : ~Hashed(j)

LoopCut(t, s) ==
  IF s = 0 THEN IF ask[t] # Nil \/ dent[t] = "unlinked" THEN "ok" ELSE "ENOTTY"
           ELSE IF s \in negative THEN "ENOENT" ELSE "EIO"

\* The loop begins at the attribute, or at what the stack has instead.
Begins(t) == IF pc[t] = "count" THEN CHOOSE v \in Fetched(rev) : TRUE ELSE val[t]

\* Retention has not unlinked what it is to unlink.
RetentionCut(t) ==
  IF val[t] > N /\ val[t] - N \in negative THEN "ENOENT"
  ELSE IF val[t] > N /\ val[t] - N \in warm THEN "EIO" ELSE "ENOMEM"

Cut(t) ==
  CASE pc[t] \in {"setyoung", "outdated", "expire"} -> RetentionCut(t)
    [] pc[t] \in {"lookup", "restored"} -> "ENOMEM"
    [] pc[t] = "create" -> IF dent[t] = "there" THEN "EEXIST" ELSE "EIO"
    [] pc[t] \in {"copy", "write", "fill"} -> "EIO"
    [] pc[t] \in {"compare", "lowerrev", "loweryoung"} -> "ok"
    [] OTHER -> LoopCut(t, Stop(Begins(t)))

\* Calls that have changed nothing yet leave no trace.
Traceless(t) ==
  \/ pc[t] \in {"number", "setrev", "find", "unlink", "findfile", "unlinkfile"}
  \/ pc[t] = "count" /\ ask[t] = Nil

CrashInCall ==
  /\ late' = TRUE
  /\ \E t \in Tasks :
       /\ pc[t] # "idle"
       /\ shown' = IF Traceless(t) THEN shown
                   ELSE Now(Reply(asked.op, Cut(t), asked.out))

SerialCrash ==
  /\ ~late /\ Crash
  /\ \/ AtRest /\ Shows(Other) /\ UNCHANGED late
     \/ ~AtRest /\ CrashInCall
  /\ UNCHANGED asked

\* The reboot that BackupStore sees after that.
Recover ==
  /\ late /\ late' = FALSE
  /\ shown' = Now(Other)
  /\ UNCHANGED <<vars, asked>>

SerialNext == SerialOther \/ SerialCrash \/ Recover
                \/ \E t \in Tasks : SerialBegin(t) \/ SerialAdvance(t)

\* As in BackupTasks, a task that is in a call is run.
SerialSpec == SerialInit /\ [][SerialNext]_serialVars
                /\ \A t \in Tasks : WF_serialVars(SerialAdvance(t))

-----------------------------------------------------------------------------
(* Properties.                                                               *)

\* Whatever steps and crashes come between, calls that do not overlap are the
\* atomic calls of BackupStore, and a crash is a failure of one lower call that
\* BackupStore knows of: its theorems, for any failures, hold of them.
ImplementsStore == Store!Spec
=============================================================================
