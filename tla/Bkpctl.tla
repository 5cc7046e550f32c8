------------------------------- MODULE Bkpctl -------------------------------
(***************************************************************************)
(* The tool bkpctl (src/CSE-506/bkpctl.c) on top of the store: a process   *)
(* reads its arguments, opens the file, makes one ioctl and prints.  The   *)
(* user takes the versions asked for from the mount point, as the README   *)
(* tells him, and is careful otherwise (CarefulUse).                       *)
(*                                                                         *)
(* Tool and module disagree on struct query: the user's field oldest lies  *)
(* where the module puts youngest (bkpctl.c:20, bkpctl.h:8).               *)
(***************************************************************************)
EXTENDS CarefulUse

CONSTANT Words  \* what users may type for a version that is not a number

ASSUME WordsAssumption == Words \cap Int = {}

VARIABLES
  asked,   \* the command of the last run of the tool: name and version
  printed, \* the versions it listed, the text it showed
  status   \* its exit status

cvars == <<vars, asked, printed, status>>

Nothing == [versions |-> {}, text |-> Nil]

CtlInit == Init /\ asked = <<"none", 0>> /\ printed = Nothing /\ status = 0

-----------------------------------------------------------------------------
\* atoi.
Atoi(w) == IF w \in Int THEN w ELSE 0

\* What the tool's field oldest has of the module's answer: its youngest.
QueryOldestAligned(out) == out[2]
QueryOldest(out) == out[1]

\* The loop prints N numbers from there down, those above 0.
Listed(out) == {i \in (QueryOldest(out) - N + 1)..QueryOldest(out) : i > 0}

\* ioctl() returns -1 for an error, and the process exits with it.
Exits == status' = IF reply'.err = "ok" THEN 0 ELSE 255

\* "Incorrect file name", but exit(0).
CtlNoFile(c) ==
  /\ file = "none"
  /\ asked' = <<c, 0>> /\ printed' = Nothing /\ status' = 0
  /\ UNCHANGED vars

CtlDelete(w) ==
  /\ Warmed
  /\ IF Atoi(w) = 0 THEN DOMAIN saved # {} /\ DeleteAll
                    ELSE Atoi(w) \in DOMAIN saved /\ Delete(Atoi(w))
  /\ asked' = <<"d", Atoi(w)>> /\ printed' = Nothing /\ Exits

CtlRestore(w) ==
  /\ Warmed /\ restored = Nil /\ Atoi(w) \in DOMAIN saved
  /\ Restore(Atoi(w))
  /\ asked' = <<"r", Atoi(w)>> /\ printed' = Nothing /\ Exits

CtlView(w) ==
  /\ Atoi(w) \in DOMAIN saved
  /\ View(Atoi(w))
  /\ asked' = <<"v", Atoi(w)>>
  /\ printed' = [Nothing EXCEPT !.text = reply'.out[2]] /\ Exits

CtlList ==
  /\ List
  /\ asked' = <<"l", 0>>
  /\ printed' = [Nothing EXCEPT !.versions = Listed(reply'.out)] /\ Exits

\* What the user does without the tool.
Otherwise ==
  /\ \/ Create \/ Open \/ Forget \/ Reboot \/ Collect
     \/ file = "listed" /\ (WriteIter \/ Truncate \/ MmapStore)
     \/ file = "listed" /\ DOMAIN saved = {} /\ Unlink
     \/ file = "listed" /\ Warmed /\ Write
     \/ \E v \in DOMAIN saved : Touch(v)
  /\ asked' = <<"none", 0>> /\ printed' = Nothing /\ status' = 0

CtlNext ==
  \/ Otherwise \/ CtlList
  \/ \E c \in {"d", "r", "v", "l"} : CtlNoFile(c)
  \/ \E w \in Words \cup {0} \cup DOMAIN saved :
       CtlDelete(w) \/ CtlRestore(w) \/ CtlView(w)

CtlSpec == CtlInit /\ [][CtlNext]_cvars

-----------------------------------------------------------------------------
(* Properties.                                                               *)

\* Every backup is on the list, and the list is never longer than N: the user
\* overlooks none, though tool and module read the answer differently.
ListShowsAll ==
  asked[1] = "l" /\ file # "none" =>
    DOMAIN saved \subseteq printed.versions /\ Cardinality(printed.versions) <= N

\* bkpctl.c:158, "Available versions are": also numbers of deleted backups are.
ListedExist == printed.versions \subseteq DOMAIN saved

\* A run that succeeds on a file has done what it was asked for and nothing else:
\* the version, or all of them, is gone; the restored file or the screen has the
\* contents of the version asked for.
DoesAsAsked ==
  [][LET v == asked'[2]
     IN file # "none" /\ status' = 0 =>
          CASE asked'[1] = "d" -> DOMAIN saved' = {n \in DOMAIN saved : v # 0 /\ n # v}
            [] asked'[1] = "r" -> restored' = saved[v] /\ DOMAIN saved' = {}
            [] asked'[1] = "v" -> printed'.text = saved[v]
            [] OTHER -> TRUE]_cvars

\* The user's runs of the tool are careful use of the store.
StaysCareful == CarefulSpec
=============================================================================
