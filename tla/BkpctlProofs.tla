---------------------------- MODULE BkpctlProofs ----------------------------
(***************************************************************************)
(* Theorems of Bkpctl.  The runs of the tool are careful use of the store, *)
(* so the theorems of CarefulUse hold of them: what the store is then      *)
(* known to hold decides what the tool does and shows.                     *)
(***************************************************************************)
EXTENDS Bkpctl, CarefulUseProofs

LEMMA CtlCareful == [CtlNext]_cvars => [CarefulNext]_vars
<1> SUFFICES ASSUME [CtlNext]_cvars PROVE CarefulNext \/ UNCHANGED vars
  OBVIOUS
<1>1. CASE UNCHANGED cvars
  BY <1>1 DEF cvars
<1>2. CASE Otherwise
  BY <1>2 DEF Otherwise, CarefulNext
<1>3. CASE CtlList \/ \E c \in {"d", "r", "v", "l"} : CtlNoFile(c)
  BY <1>3 DEF CtlList, CtlNoFile, CarefulNext
<1>4. ASSUME NEW w, CtlDelete(w) \/ CtlRestore(w) \/ CtlView(w)
      PROVE  CarefulNext
  BY <1>4 DEF CtlDelete, CtlRestore, CtlView, CarefulNext
<1> QED BY <1>1, <1>2, <1>3, <1>4 DEF CtlNext

\* A user who takes the versions from the mount point, and types words for
\* nothing but "all" while there are some, is careful.
THEOREM ToolIsCareful == CtlSpec => StaysCareful
<1>1. CtlInit => Init
  BY DEF CtlInit
<1> QED BY <1>1, CtlCareful, PTL DEF CtlSpec, CarefulSpec, StaysCareful

LEMMA CtlWindow == CtlSpec => []WindowInv
BY ToolIsCareful, WindowCorrect DEF StaysCareful

-----------------------------------------------------------------------------
LEMMA ListedAll ==
  ASSUME WindowInv, CtlList
  PROVE  /\ DOMAIN saved' \subseteq printed'.versions
         /\ Cardinality(printed'.versions) <= N
<1>1. PICK val \in Fetched(rev), val1 \in StackInts :
        Answer("list", "ok", <<val, Oldest(val, val1)>>)
  BY DEF CtlList, List
<1>2. reply'.out[1] = val
  BY <1>1 DEF Answer
<1>3. val \in Int /\ N \in Nat \ {0}
  BY StoreAssumption DEF Fetched, WindowInv, TypeOK, CInt
<1>4. printed'.versions = {i \in (val - N + 1)..val : i > 0}
  BY <1>2 DEF CtlList, Nothing, Listed, QueryOldest
<1>5. saved' = saved
  BY DEF CtlList, List, disk
<1>6. DOMAIN saved \subseteq printed'.versions
  <2> SUFFICES ASSUME NEW n \in DOMAIN saved PROVE n \in printed'.versions
    OBVIOUS
  <2>1. rev \in Nat /\ n \in Int /\ 0 < n /\ rev - N < n /\ n <= rev
    BY StoreAssumption DEF WindowInv, TypeOK, Numbered, InWindow, CInt
  <2>2. rev # Nil
    BY <2>1, StoreAssumption
  <2>3. val = rev
    BY <2>2, FetchedCareful
  <2> QED BY <1>3, <1>4, <2>1, <2>3
<1>7. Cardinality(printed'.versions) <= N
  <2>1. /\ IsFiniteSet((val - N + 1)..val)
        /\ Cardinality((val - N + 1)..val) = N
    BY <1>3, FS_Interval
  <2>2. printed'.versions \subseteq (val - N + 1)..val
    BY <1>4
  <2>3. /\ IsFiniteSet(printed'.versions)
        /\ Cardinality(printed'.versions) <= Cardinality((val - N + 1)..val)
    BY <2>1, <2>2, FS_Subset
  <2> QED BY <2>1, <2>3
<1> QED BY <1>5, <1>6, <1>7

\* No backup is overlooked, and the list has at most N lines.
THEOREM ListComplete == CtlSpec => []ListShowsAll
<1>1. CtlInit => ListShowsAll
  BY DEF CtlInit, ListShowsAll
<1>2. WindowInv /\ ListShowsAll /\ [CtlNext]_cvars => ListShowsAll'
  <2> SUFFICES ASSUME WindowInv, ListShowsAll, [CtlNext]_cvars PROVE ListShowsAll'
    OBVIOUS
  <2>1. CASE UNCHANGED cvars
    BY <2>1 DEF cvars, vars, ListShowsAll
  <2>2. CASE CtlList
    BY <2>2, ListedAll DEF ListShowsAll
  <2>3. CASE \E c \in {"d", "r", "v", "l"} : CtlNoFile(c)
    BY <2>3 DEF CtlNoFile, vars, ListShowsAll
  <2>4. CASE Otherwise
    BY <2>4 DEF Otherwise, ListShowsAll
  <2>5. ASSUME NEW w, CtlDelete(w) \/ CtlRestore(w) \/ CtlView(w)
        PROVE  ListShowsAll'
    BY <2>5 DEF CtlDelete, CtlRestore, CtlView, ListShowsAll
  <2> QED BY <2>1, <2>2, <2>3, <2>4, <2>5 DEF CtlNext
<1> QED BY <1>1, <1>2, CtlWindow, PTL DEF CtlSpec

-----------------------------------------------------------------------------
Asked(v) ==
  CASE asked'[1] = "d" -> DOMAIN saved' = {n \in DOMAIN saved : v # 0 /\ n # v}
    [] asked'[1] = "r" -> restored' = saved[v] /\ DOMAIN saved' = {}
    [] asked'[1] = "v" -> printed'.text = saved[v]
    [] OTHER -> TRUE

LEMMA AskedStep ==
  ASSUME WindowInv, CtlNext, file # "none"
  PROVE  Asked(asked'[2])
<1>1. CASE Otherwise \/ CtlList
  BY <1>1 DEF Otherwise, CtlList, Asked
<1>2. ASSUME NEW c, CtlNoFile(c) PROVE FALSE
  BY <1>2 DEF CtlNoFile
<1>3. ASSUME NEW w, CtlDelete(w) PROVE Asked(asked'[2])
  <2>1. asked'[1] = "d" /\ asked'[2] = Atoi(w)
    BY <1>3 DEF CtlDelete
  <2>2. DOMAIN saved' = {n \in DOMAIN saved : Atoi(w) # 0 /\ n # Atoi(w)}
    BY <1>3, DeleteAllEffect, DeleteEffect DEF CtlDelete
  <2> QED BY <2>1, <2>2 DEF Asked
<1>4. ASSUME NEW w, CtlRestore(w) PROVE Asked(asked'[2])
  <2>1. asked'[1] = "r" /\ asked'[2] = Atoi(w)
    BY <1>4 DEF CtlRestore
  <2>2. restored' = saved[Atoi(w)] /\ DOMAIN saved' = {}
    BY <1>4, RestoreEffect DEF CtlRestore
  <2> QED BY <2>1, <2>2 DEF Asked
<1>5. ASSUME NEW w, CtlView(w) PROVE Asked(asked'[2])
  <2>1. asked'[1] = "v" /\ asked'[2] = Atoi(w)
    BY <1>5 DEF CtlView
  <2>2. PICK rest : Answer("view", "ok", <<Atoi(w), saved[Atoi(w)], rest>>)
    BY <1>5, NothingFails DEF CtlView, View
  <2>3. printed'.text = saved[Atoi(w)]
    BY <1>5, <2>2 DEF CtlView, Answer, Nothing
  <2> QED BY <2>1, <2>3 DEF Asked
<1> QED BY <1>1, <1>2, <1>3, <1>4, <1>5 DEF CtlNext

\* What the tool reports as done is done, and nothing besides.
THEOREM ToolDoesAsAsked == CtlSpec => DoesAsAsked
<1>1. WindowInv /\ [CtlNext]_cvars =>
        [file # "none" /\ status' = 0 => Asked(asked'[2])]_cvars
  BY AskedStep DEF cvars
<1> QED BY <1>1, CtlWindow, PTL DEF CtlSpec, DoesAsAsked, Asked
=============================================================================
