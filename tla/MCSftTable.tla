----------------------------- MODULE MCSftTable -----------------------------
(* SftTable on a small instance: see the README for the bounds.            *)
EXTENDS SftTable, TLC

\* Files and host handles are interchangeable; SFT entries are too, since
\* DOS may pick any free one.
Symmetry ==
    Permutations(Files) \cup Permutations(Handles) \cup Permutations(Sfts)
=============================================================================
