---------------------------- MODULE MCVersionInfo ----------------------------
(***************************************************************************)
(* Two goroutines making the first calls of GetVersionInfo, for every     *)
(* Version of up to six characters over "v", "1", "2" and ".": version    *)
(* strings with and without the "v", with missing, empty, doubled and     *)
(* trailing components, and non-digits in each position.                  *)
(***************************************************************************)
EXTENDS VersionInfo, TLC

CONSTANTS g1, g2

MCGoroutines == {g1, g2}

MCVersions == BoundedSeq({"v", "1", "2", "."}, 6)

Symmetry == Permutations(MCGoroutines)
=============================================================================
