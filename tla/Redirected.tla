----------------------------- MODULE Redirected -----------------------------
(***************************************************************************)
(* Calls that bkpfs redirects to the lower file by changing a pointer:     *)
(* memory mappings (bkpfs_mmap of file.c and mmap.c), where the copy of    *)
(* the vma gets the lower file, and read_iter and write_iter (file.c),     *)
(* where the iocb gets it; and the references to both files that have to   *)
(* outlast them.                                                           *)
(*                                                                         *)
(* The steps of a call are those between which another task, a page fault  *)
(* in the same mapping, or the completion of the request may come.  A      *)
(* mapping is used by several threads; mmap and munmap exclude its faults. *)
(*                                                                         *)
(* A variant before an operator is a mistake the code could have made      *)
(* there, used to see that a property notices it.                          *)
(***************************************************************************)
EXTENDS Integers, FiniteSets

CONSTANTS
  Files,  \* open files
  Vmas,   \* mappings
  Tasks,
  Nil

ASSUME RedirectedAssumption ==
  /\ IsFiniteSet(Vmas) /\ IsFiniteSet(Tasks)
  /\ Nil \notin Files \cup Vmas

VARIABLES
  fd,     \* fd[f]: whether a descriptor refers to f
  uref,   \* uref[f]: references to the upper file
  lref,   \* lref[f]: references to its lower file
  info,   \* info[f]: whether its private data, with the lower file, is there
  ops,    \* ops[f]: whether lower_vm_ops is saved
  vma,    \* vma[v]: what v maps, and which file its vm_file is
  pc,     \* pc[t]: the step the call of task t is to take
  file,   \* file[t]: the file of the call, or of the request it has submitted
  at,     \* at[t]: the mapping of the call
  saved,  \* saved[t]: whether bkpfs_mmap has got vm_ops from below
  filp,   \* filp[t]: ki_filp of the iocb of t
  flight, \* flight[t]: whether it is queued, and has completed ("landed")
  bug     \* whether a fault has found no lower_vm_ops, or no file of bkpfs

refs   == <<uref, lref, info>>
iocb   == <<filp, flight>>
locals == <<pc, file, at, saved>>
vars   == <<fd, refs, ops, vma, locals, iocb, bug>>

Vma == [file : Files \cup {Nil}, is : {"upper", "lower"}, ready : BOOLEAN]
Free == [file |-> Nil, is |-> "upper", ready |-> FALSE]

TypeOK ==
  /\ fd \in [Files -> BOOLEAN] /\ info \in [Files -> BOOLEAN]
  /\ uref \in [Files -> Nat] /\ lref \in [Files -> Nat]
  /\ ops \in [Files -> BOOLEAN]
  /\ vma \in [Vmas -> Vma]
  /\ pc \in [Tasks -> {"idle", "lowermmap", "install", "fault",
                       "submit", "restore", "putlower", "copyattr"}]
  /\ file \in [Tasks -> Files \cup {Nil}]
  /\ at \in [Tasks -> Vmas \cup {Nil}]
  /\ saved \in [Tasks -> BOOLEAN]
  /\ filp \in [Tasks -> {"upper", "lower"}]
  /\ flight \in [Tasks -> {"no", "flying", "landed"}]
  /\ bug \in BOOLEAN

Init ==
  /\ fd = [f \in Files |-> FALSE] /\ info = [f \in Files |-> FALSE]
  /\ uref = [f \in Files |-> 0] /\ lref = [f \in Files |-> 0]
  /\ ops = [f \in Files |-> FALSE]
  /\ vma = [v \in Vmas |-> Free]
  /\ pc = [t \in Tasks |-> "idle"]
  /\ file = [t \in Tasks |-> Nil] /\ at = [t \in Tasks |-> Nil]
  /\ saved = [t \in Tasks |-> FALSE]
  /\ filp = [t \in Tasks |-> "upper"]
  /\ flight = [t \in Tasks |-> "no"]
  /\ bug = FALSE

-----------------------------------------------------------------------------
GetUpper(f) == uref' = [uref EXCEPT ![f] = @ + 1]
GetLower(f) == lref' = [lref EXCEPT ![f] = @ + 1]
PutLower(f) == lref' = [lref EXCEPT ![f] = @ - 1]

\* fput of the upper file; the last one calls bkpfs_file_release.
ReleaseKeeps(f) == UNCHANGED lref /\ info' = [info EXCEPT ![f] = FALSE]
Release(f) == PutLower(f) /\ info' = [info EXCEPT ![f] = FALSE]

PutUpper(f) ==
  /\ uref' = [uref EXCEPT ![f] = @ - 1]
  /\ IF uref[f] = 1 THEN Release(f) ELSE UNCHANGED <<lref, info>>

Go(t, step) == pc' = [pc EXCEPT ![t] = step]

\* Task t makes a call on f, or on the mapping v; Done ends it.
Ready(t) == pc[t] = "idle" /\ flight[t] = "no"
Call(t, f, v, step) ==
  /\ Ready(t) /\ Go(t, step)
  /\ file' = [file EXCEPT ![t] = f] /\ at' = [at EXCEPT ![t] = v]
Done(t) ==
  /\ Go(t, "idle")
  /\ file' = [file EXCEPT ![t] = Nil] /\ at' = [at EXCEPT ![t] = Nil]

\* mmap_sem: no call is at work in the mapping v.
Unused(v) == \A t \in Tasks : at[t] # v

-----------------------------------------------------------------------------
\* bkpfs_open, with its private data cleared.
Open(f) ==
  /\ uref[f] = 0 /\ lref[f] = 0
  /\ fd' = [fd EXCEPT ![f] = TRUE]
  /\ GetUpper(f) /\ GetLower(f)
  /\ info' = [info EXCEPT ![f] = TRUE]
  /\ ops' = [ops EXCEPT ![f] = FALSE]
  /\ UNCHANGED <<vma, locals, iocb, bug>>

Close(f) ==
  /\ fd[f]
  /\ fd' = [fd EXCEPT ![f] = FALSE]
  /\ PutUpper(f)
  /\ UNCHANGED <<ops, vma, locals, iocb, bug>>

-----------------------------------------------------------------------------
(* bkpfs_mmap.  The VFS takes a reference for the mapping first.             *)
Map(t, f, v) ==
  /\ fd[f] /\ vma[v] = Free /\ Unused(v)
  /\ Call(t, f, v, "lowermmap")
  /\ saved' = [saved EXCEPT ![t] = FALSE]
  /\ GetUpper(f)
  /\ vma' = [vma EXCEPT ![v].file = f]
  /\ UNCHANGED <<fd, lref, info, ops, iocb, bug>>

\* The lower file is mapped only to get its vm_ops, if they are not saved yet.
LowerMmap(t) ==
  /\ pc[t] = "lowermmap" /\ Go(t, "install")
  /\ saved' = [saved EXCEPT ![t] = ~ops[file[t]]]
  /\ UNCHANGED <<fd, refs, ops, vma, file, at, iocb, bug>>

\* The lower file system refuses, or has no writepage for a shared mapping.
MapFails(t) ==
  /\ pc[t] = "lowermmap" /\ Done(t)
  /\ vma' = [vma EXCEPT ![at[t]] = Free]
  /\ PutUpper(file[t])
  /\ UNCHANGED <<fd, ops, saved, iocb, bug>>

\* What came from below is kept if another mmap has not saved it meanwhile.
Saves(t) == ops' = IF ops[file[t]] THEN ops ELSE [ops EXCEPT ![file[t]] = saved[t]]

Install(t) ==
  /\ pc[t] = "install" /\ Done(t)
  /\ vma' = [vma EXCEPT ![at[t]].ready = TRUE]
  /\ Saves(t)
  /\ UNCHANGED <<fd, refs, saved, iocb, bug>>

\* fork: the child has the mapping too.
Fork(v, w) ==
  /\ vma[v].ready /\ vma[w] = Free /\ Unused(v) /\ Unused(w)
  /\ vma' = [vma EXCEPT ![w] = vma[v]]
  /\ GetUpper(vma[v].file)
  /\ UNCHANGED <<fd, lref, info, ops, locals, iocb, bug>>

Unmap(v) ==
  /\ vma[v].ready /\ Unused(v)
  /\ vma' = [vma EXCEPT ![v] = Free]
  /\ PutUpper(vma[v].file)
  /\ UNCHANGED <<fd, ops, locals, iocb, bug>>

\* bkpfs_fault and bkpfs_page_mkwrite hand down a copy of the vma.
RedirectsInPlace(v, which) == vma' = [vma EXCEPT ![v].is = which]
Redirects(v, which) == UNCHANGED vma

StartFault(t, v) ==
  /\ vma[v].ready
  /\ \A u \in Tasks : at[u] = v => pc[u] = "fault"
  /\ IF vma[v].is = "upper" /\ ops[vma[v].file]
     THEN Call(t, vma[v].file, v, "fault") /\ Redirects(v, "lower") /\ UNCHANGED bug
     ELSE Ready(t) /\ bug' = TRUE /\ UNCHANGED <<pc, file, at, vma>>
  /\ UNCHANGED <<fd, refs, ops, saved, iocb>>

EndFault(t) ==
  /\ pc[t] = "fault" /\ Done(t) /\ Redirects(at[t], "upper")
  /\ UNCHANGED <<fd, refs, ops, saved, iocb, bug>>

-----------------------------------------------------------------------------
(* bkpfs_read_iter and bkpfs_write_iter.  The caller, or the asynchronous    *)
(* request, holds the upper file by its iocb.                                *)
HeldByUpperOnly(f) == UNCHANGED lref
Held(f) == GetLower(f)

StartIter(t, f) ==
  /\ fd[f] /\ Call(t, f, Nil, "submit")
  /\ GetUpper(f) /\ Held(f)
  /\ filp' = [filp EXCEPT ![t] = "lower"]
  /\ UNCHANGED <<fd, info, ops, vma, saved, flight, bug>>

\* The lower call returns a result, or EIOCBQUEUED.
Submit(t) ==
  /\ pc[t] = "submit" /\ Go(t, "restore")
  /\ \E queued \in {"no", "flying"} : flight' = [flight EXCEPT ![t] = queued]
  /\ UNCHANGED <<fd, refs, ops, vma, file, at, saved, filp, bug>>

RestoreFilp(t) ==
  /\ pc[t] = "restore" /\ Go(t, "putlower")
  /\ filp' = [filp EXCEPT ![t] = "upper"]
  /\ UNCHANGED <<fd, refs, ops, vma, file, at, saved, flight, bug>>

PutLowerFile(t) ==
  /\ pc[t] = "putlower" /\ Go(t, "copyattr")
  /\ PutLower(file[t])
  /\ UNCHANGED <<fd, uref, info, ops, vma, file, at, saved, iocb, bug>>

\* The attributes are copied from file to file, and the call returns.  Its caller
\* puts the file, unless the request is queued.
EndIter(t) ==
  /\ pc[t] = "copyattr" /\ Go(t, "idle")
  /\ IF flight[t] = "no" THEN PutUpper(file[t]) ELSE UNCHANGED refs
  /\ file' = IF flight[t] = "flying" THEN file ELSE [file EXCEPT ![t] = Nil]
  /\ flight' = IF flight[t] = "flying" THEN flight ELSE [flight EXCEPT ![t] = "no"]
  /\ UNCHANGED <<fd, ops, vma, at, saved, filp, bug>>

\* The request completes, and puts the file that its iocb has.
Complete(t) ==
  /\ flight[t] = "flying"
  /\ flight' = [flight EXCEPT ![t] = IF pc[t] = "idle" THEN "no" ELSE "landed"]
  /\ file' = IF pc[t] = "idle" THEN [file EXCEPT ![t] = Nil] ELSE file
  /\ IF filp[t] = "upper" THEN PutUpper(file[t])
                          ELSE PutLower(file[t]) /\ UNCHANGED <<uref, info>>
  /\ UNCHANGED <<fd, ops, vma, pc, at, saved, filp, bug>>

-----------------------------------------------------------------------------
Mapping(t) == LowerMmap(t) \/ MapFails(t) \/ Install(t) \/ EndFault(t)
Iter(t) == Submit(t) \/ RestoreFilp(t) \/ PutLowerFile(t) \/ EndIter(t)

Others ==
  \/ \E f \in Files : \/ Open(f) \/ Close(f)
                      \/ \E t \in Tasks : \/ StartIter(t, f)
                                          \/ \E v \in Vmas : Map(t, f, v)
  \/ \E v \in Vmas : \/ Unmap(v)
                     \/ \E w \in Vmas : Fork(v, w)
                     \/ \E t \in Tasks : StartFault(t, v)
  \/ \E t \in Tasks : Mapping(t) \/ Iter(t)

\* A request completes at any time after its submission.
Next == Others \/ \E t \in Tasks : Complete(t)

Spec == Init /\ [][Next]_vars

\* None completes before the call that has submitted it has returned.
LateNext == Others \/ \E t \in Tasks : pc[t] = "idle" /\ Complete(t)

LateSpec == Init /\ [][LateNext]_vars

-----------------------------------------------------------------------------
(* Properties.                                                               *)
Mappings(f) == {v \in Vmas : vma[v].file = f}
Iocbs(f) == {t \in Tasks : file[t] = f /\ at[t] = Nil}
Holding(f) == {t \in Iocbs(f) : pc[t] \in {"submit", "restore", "putlower"}}
One(b) == IF b THEN 1 ELSE 0

\* The upper file is held by its descriptor, its mappings and its requests, the
\* lower by the upper and by the calls on their way into it; neither is put too
\* early, or kept, by an mmap that fails, a fork, or a close in the middle.
RefsAccounted ==
  \A f \in Files :
    /\ uref[f] = One(fd[f]) + Cardinality(Mappings(f)) + Cardinality(Iocbs(f))
    /\ lref[f] = One(info[f]) + Cardinality(Holding(f))
    /\ info[f] <=> uref[f] > 0

\* No fault finds the file of its mapping replaced by another's redirection, or
\* lower_vm_ops missing (the BUG_ON of mmap.c 25 and 56), however mmaps overlap.
NoBug == ~bug

\* The upper file outlasts its descriptor, its mappings and its requests even if
\* a request completes early: then a reference to it is left over, never short.
Pending(f) == {t \in Iocbs(f) : flight[t] # "landed"}
UpperHeld ==
  \A f \in Files : uref[f] >= One(fd[f]) + Cardinality(Mappings(f))
                                + Cardinality(Pending(f))

\* file.c:750, "prevent lower_file from being released": the lower file is there
\* while the upper refers to it and while a call is at work in it.  A request that
\* completes before its iocb is restored puts the lower file instead of the upper.
LowerHeld ==
  /\ \A f \in Files : info[f] => lref[f] > 0
  /\ \A t \in Tasks : pc[t] \in {"submit", "restore", "putlower", "copyattr"} =>
                        lref[file[t]] > 0
=============================================================================
