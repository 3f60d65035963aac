------------------------------- MODULE Resident -------------------------------
(***************************************************************************)
(* The two users of the backdoor in the resident part: the redirector on   *)
(* the RPCI channel (Backdoor) and the tools daemon on the TCLO channel    *)
(* (Toolsd).  They share the connection to the host.  The daemon runs on a *)
(* timer tick, and a tick comes between two RPCs but not within one: DOS   *)
(* calls the redirector with interrupts off, and only the nested calls for *)
(* the clock may turn them on.  That is why the register block in vmtool.c,*)
(* which both use within an RPC, is left out.                              *)
(***************************************************************************)
EXTENDS Naturals

CONSTANTS MaxCalls, NoAnswer, Interval, None, MaxFail

ASSUME ResidentAssumption ==
    MaxCalls \in Nat \ {0} /\ Interval \in Nat /\ MaxFail \in Nat

VARIABLES
    enhanced, pc, call, buffer, chan, done, result, offered, clean,  \* RPCI
    msg, ticks, host, wrong, lost,                                   \* TCLO
    fails                                                            \* both

B == INSTANCE Backdoor
T == INSTANCE Toolsd

rpci == <<enhanced, pc, call, buffer, chan, done, result, offered, clean>>
tclo == <<msg, ticks, host, wrong, lost>>
vars == <<rpci, tclo, fails>>

TypeOK == B!TypeOK /\ T!TypeOK

Init == B!Init /\ T!Init

Redirector == B!Next /\ UNCHANGED tclo

Tick == pc = "idle" /\ T!Int1cToolsd /\ UNCHANGED rpci

Host == (T!HostIssues \/ T!HostGivesUp) /\ UNCHANGED rpci

Next == Redirector \/ Tick \/ Host

Spec == Init /\ [][Next]_vars

\* The timer goes on ticking, and a call goes on when it has begun.
LiveSpec ==
    /\ Spec
    /\ SF_vars(Tick)
    /\ WF_vars(pc # "idle" /\ Redirector)

-----------------------------------------------------------------------------
(* Properties, with those of Backdoor and Toolsd.                          *)

AnswersOwnRequest == B!AnswersOwnRequest
AnswerGetsThrough == B!AnswerGetsThrough
WrongBound == T!WrongBound
NoWaitInVain == T!NoWaitInVain
Answered == T!Answered
=============================================================================
