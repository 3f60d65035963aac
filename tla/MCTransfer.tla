----------------------------- MODULE MCTransfer -----------------------------
(* Transfer on small words: 2^16 and 2^32 become 4 and 6, so that positions*)
(* and counts wrap within a few steps.                                     *)
EXTENDS Transfer, TLC

Symmetry == Permutations(Sfts)
=============================================================================
