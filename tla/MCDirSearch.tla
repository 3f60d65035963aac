---------------------------- MODULE MCDirSearch -----------------------------
(* DirSearch with three files, one of them read-only, a mask that matches  *)
(* two of them and a name without wildcards.                               *)
EXTENDS DirSearch, TLC

CONSTANTS a, b, c

MCNames == {a, b, c}
MCReadOnly == {b}
MCMasks == {[match |-> {a, b}, wild |-> TRUE],
            [match |-> {a}, wild |-> FALSE]}

\* REN a c, and a pattern that leaves b and c as they are.
MCMoves == {[n \in MCNames |-> IF n = a THEN c ELSE n]}

Symmetry == Permutations(Dtas) \cup Permutations(Handles)
=============================================================================
