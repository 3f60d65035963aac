---------------------------- MODULE HandleTable ----------------------------
(***************************************************************************)
(* What a program that works on the shared drive is promised: each of its  *)
(* file handles denotes the file it was opened on until the program closes *)
(* that handle or ends, and whatever is done with one handle leaves the    *)
(* others alone.  Processes nest: only the deepest one runs (DOS EXEC).    *)
(***************************************************************************)
EXTENDS Naturals

CONSTANTS
    Slots,      \* the indices of a process's job file table (JFT)
    Files,      \* the files of the shared folder
    NoFile,     \* "this handle is not open on the shared drive"
    MaxDepth    \* how deep EXEC may nest

VARIABLES
    depth,      \* the running process
    open        \* open[p][i]: the file that handle i of process p denotes

vars == <<depth, open>>

Closed == [i \in Slots |-> NoFile]

Init ==
    /\ depth = 1
    /\ open = [p \in 1..MaxDepth |-> Closed]

\* A handle becomes usable on the file it was opened on.
Open(i, f) ==
    /\ open[depth][i] = NoFile
    /\ open' = [open EXCEPT ![depth][i] = f]
    /\ UNCHANGED depth

Close(i) ==
    /\ open[depth][i] # NoFile
    /\ open' = [open EXCEPT ![depth][i] = NoFile]
    /\ UNCHANGED depth

\* Duplicating a handle gives a second, independent name for the file.
Dup(i, j) ==
    /\ open[depth][i] # NoFile
    /\ open[depth][j] = NoFile
    /\ open' = [open EXCEPT ![depth][j] = open[depth][i]]
    /\ UNCHANGED depth

\* A child starts with the handles of its parent.
Exec ==
    /\ depth < MaxDepth
    /\ depth' = depth + 1
    /\ open' = [open EXCEPT ![depth + 1] = open[depth]]

\* A process that ends has had all its handles closed.
Exit ==
    /\ depth > 1
    /\ open[depth] = Closed
    /\ depth' = depth - 1
    /\ UNCHANGED open

Next ==
    \/ \E i \in Slots : Close(i) \/ \E f \in Files : Open(i, f)
    \/ \E i, j \in Slots : Dup(i, j)
    \/ Exec
    \/ Exit

Spec == Init /\ [][Next]_vars
=============================================================================
