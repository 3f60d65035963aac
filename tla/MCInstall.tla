------------------------------ MODULE MCInstall ------------------------------
(* Install with interchangeable programs.                     *)
EXTENDS Install, TLC

Symmetry == Permutations(Copies) \cup Permutations(Others)
=============================================================================
