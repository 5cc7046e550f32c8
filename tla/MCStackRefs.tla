---------------------------- MODULE MCStackRefs ----------------------------
(***************************************************************************)
(* Instances of StackRefs for TLC: dentries, files and names are           *)
(* interchangeable, and so are inodes of the same kind.                    *)
(***************************************************************************)
EXTENDS StackRefs, TLC
CONSTANTS d1, d2, d3, d4, f1, f2, a, b, c, i1, i2, i3
FourDents == {d1, d2, d3, d4}
TwoFiles == {f1, f2}
ThreeNames == {a, b, c}
ThreeInos == {i1, i2, i3}
OneSubdir == {i3}
OneSpecial == {i2}
AllFaults == {"alloc", "iget", "make_root", "create", "unlink", "open"}
StackSymmetry == Permutations(FourDents) \cup Permutations(TwoFiles)
                   \cup Permutations(ThreeNames)
=============================================================================
