--------------------------- MODULE MCFiduciaLock ----------------------------
(* Instances of FiduciaLock for TLC; the builds of one image are alike. *)
EXTENDS FiduciaLock, TLC

CONSTANTS b1, b2, b3

BuildSymmetry == Permutations(Builds)
=============================================================================
