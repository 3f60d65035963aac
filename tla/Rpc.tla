--------------------------------- MODULE Rpc ---------------------------------
(***************************************************************************)
(* What the rest of the redirector expects of ExecuteRpc (vmshf.c): a      *)
(* request is carried out by the host at most once, while its call lasts,  *)
(* and a call that succeeds hands over the answer to its own request.  A   *)
(* call that fails says nothing about what the host has done.              *)
(***************************************************************************)
EXTENDS Naturals

CONSTANTS
    MaxCalls,   \* bound: the numbers of calls, which are reused
    NoAnswer    \* the result of a call that failed

VARIABLES
    call,       \* the number of the current or last call
    active,     \* that call is in progress
    done,       \* the requests the host has carried out
    result      \* what the last call handed over

vars == <<call, active, done, result>>

Answer(n) == [what |-> "answer", of |-> n]

Init == call = 0 /\ active = FALSE /\ done = {} /\ result = NoAnswer

Call ==
    /\ ~active
    /\ call' = (call % MaxCalls) + 1
    /\ active' = TRUE
    /\ done' = done \ {call'}
    /\ UNCHANGED result

\* The host carries out the request; the call may be over for the guest in
\* the same step.
Execute ==
    /\ active /\ call \notin done
    /\ done' = done \cup {call}
    /\ \/ UNCHANGED <<active, result>>
       \/ active' = FALSE /\ result' = NoAnswer
    /\ UNCHANGED call

Return ==
    /\ active
    /\ active' = FALSE
    /\ \/ result' = NoAnswer
       \/ call \in done /\ result' = Answer(call)
    /\ UNCHANGED <<call, done>>

Next == Call \/ Execute \/ Return

Spec == Init /\ [][Next]_vars
=============================================================================
