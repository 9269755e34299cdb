--------------------------- MODULE MCSecondFactor ---------------------------
(* The instance of SecondFactor that TLC explores. *)
EXTENDS SecondFactor, TLC

Symmetry == Permutations(Jtis) \cup Permutations(Attempts) \cup Permutations(BackupCodes)
=============================================================================
