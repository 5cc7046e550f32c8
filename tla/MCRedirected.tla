---------------------------- MODULE MCRedirected ----------------------------
(***************************************************************************)
(* Instances of Redirected for TLC: files, mappings and tasks are          *)
(* interchangeable.                                                        *)
(***************************************************************************)
EXTENDS Redirected, TLC
CONSTANTS f1, f2, v1, v2, t1, t2, t3
TwoFiles == {f1, f2}
TwoVmas == {v1, v2}
ThreeTasks == {t1, t2, t3}
RedirectedSymmetry == Permutations(TwoFiles) \cup Permutations(TwoVmas)
                        \cup Permutations(ThreeTasks)
=============================================================================
