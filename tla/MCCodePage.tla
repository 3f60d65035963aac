------------------------------ MODULE MCCodePage ------------------------------
(* CodePage with interchangeable programs and code pages. *)
EXTENDS CodePage, TLC

Symmetry ==
    Permutations(Copies) \cup Permutations(Others) \cup Permutations(Pages)
=============================================================================
