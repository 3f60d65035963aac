------------------------------- MODULE Backdoor -------------------------------
(***************************************************************************)
(* ExecuteRpc (vmshf.c) over VMRpcSend, VMRpcRecvLen and VMRpcRecvDat      *)
(* (vmtool.c), on the RPCI channel.  A step is one backdoor instruction,   *)
(* or the loop of them that moves a block.  The machine stands still in    *)
(* the meantime: the redirector runs with interrupts off.                  *)
(*                                                                         *)
(* The host is known only by how the code uses it.  A call starts with     *)
(* SENDLEN whatever became of the one before, and every request has id 0,  *)
(* so the code counts on SENDLEN dropping an answer nobody fetched.        *)
(***************************************************************************)
EXTENDS Naturals

CONSTANTS
    MaxCalls,   \* bound: the numbers of calls, which are reused
    MaxFail,    \* bound: instructions that fail in the channel
    NoAnswer    \* the result of a call that failed

VARIABLES
    enhanced,   \* the channel has cookies: the enhanced protocol is used
    pc,         \* the next instruction, or "idle"
    call,       \* the number of the current or last request
    buffer,     \* the shared buffer: what it holds and of which request
    chan,       \* the host's side of the channel: what it has to deliver
    done,       \* history: the requests the host has carried out lately
    result,     \* history: what the last call handed over
    offered,    \* history: what the host answered to the last request
    clean,      \* history: the current or last call saw no failure
    fails       \* history: instructions that failed

bvars == <<enhanced, pc, call, buffer, chan, done, result, offered,
           clean>>
vars == <<bvars, fails>>

\* What the host sends: an answer, something that does not start with "1 "
\* or has no room for a header, or more than the shared buffer can hold.
Forms == {"answer", "bad", "long"}

Nothing == [what |-> "nothing", of |-> 0]

\* What may be in the buffer: never an answer that does not fit.
Contents == [what : {"nothing", "request", "answer", "bad", "garbled"},
             of : 0..MaxCalls]

TypeOK ==
    /\ enhanced \in BOOLEAN
    /\ pc \in {"idle", "sendlen", "senddat", "recvlen", "recvdat", "recvend",
               "check"}
    /\ call \in 0..MaxCalls
    /\ buffer \in Contents
    /\ chan \in [what : Forms \cup {"nothing"}, of : 0..MaxCalls]
    /\ done \subseteq 1..MaxCalls
    /\ result \in {NoAnswer} \cup Contents
    /\ offered \in Forms \cup {"nothing"}
    /\ clean \in BOOLEAN
    /\ fails \in 0..MaxFail

Init ==
    /\ enhanced \in BOOLEAN
    /\ pc = "idle"
    /\ call = 0
    /\ buffer = Nothing
    /\ chan = Nothing
    /\ done = {}
    /\ result = NoAnswer
    /\ offered = "nothing"
    /\ clean = TRUE
    /\ fails = 0

-----------------------------------------------------------------------------
\* ExecuteRpc returns without an answer.
GiveUp == pc' = "idle" /\ result' = NoAnswer

\* An instruction fails and the call with it.
Fails ==
    /\ fails < MaxFail
    /\ fails' = fails + 1
    /\ clean' = FALSE
    /\ GiveUp

GoOn(next) == pc' = next /\ UNCHANGED <<result, clean, fails>>

\* A handler builds its request in the shared buffer and calls ExecuteRpc.
ExecuteRpc ==
    /\ pc = "idle"
    /\ call' = (call % MaxCalls) + 1
    /\ buffer' = [what |-> "request", of |-> call']
    /\ done' = done \ {call'}
    /\ pc' = "sendlen"
    /\ offered' = "nothing"
    /\ clean' = TRUE
    /\ UNCHANGED <<enhanced, chan, result, fails>>

\* VMRpcSend: the length of the request.  The host starts over.
SendLen ==
    /\ pc = "sendlen"
    /\ \/ chan' = Nothing /\ GoOn("senddat")
       \/ chan' \in {chan, Nothing} /\ Fails
    /\ UNCHANGED <<enhanced, call, buffer, done, offered>>

\* VMRpcSend: the request.  Once it is complete the host carries it out and
\* has something to deliver.
SendDat ==
    /\ pc = "senddat"
    /\ \/ /\ chan' \in [what : Forms, of : {buffer.of}]
          /\ offered' = chan'.what
          /\ done' = done \cup {buffer.of}
          /\ GoOn("recvlen") \/ Fails
       \/ Fails /\ UNCHANGED <<chan, done, offered>>
    /\ UNCHANGED <<enhanced, call, buffer>>

\* Fault: the length is not compared with the size of the buffer.
FaultTooLong == FALSE

\* An answer longer than the shared buffer is left where it is.
TooLong == chan.what = "long"

\* VMRpcRecvLen, and the check of the length.
RecvLen ==
    /\ pc = "recvlen"
    /\ \/ TooLong /\ GiveUp /\ UNCHANGED <<clean, fails>>
       \/ ~TooLong /\ GoOn("recvdat")
       \/ Fails
    /\ UNCHANGED <<enhanced, call, buffer, chan, done, offered>>

Garbled == [what |-> "garbled", of |-> chan.of]

\* Fault: the two protocols are taken for each other.
FaultReceived == IF enhanced THEN Garbled ELSE chan

\* What VMRpcRecvDat leaves in the buffer.  The conventional protocol brings
\* four bytes at a time, of which the code stores one.
Received == IF enhanced THEN chan ELSE Garbled

\* VMRpcRecvDat: the answer, all of it or some.
RecvDat ==
    /\ pc = "recvdat"
    /\ \/ buffer' = Received /\ GoOn("recvend")
       \/ buffer' \in {buffer, Garbled} /\ Fails
    /\ UNCHANGED <<enhanced, call, chan, done, offered>>

\* VMRpcRecvDat: the end of the transfer.
RecvEnd ==
    /\ pc = "recvend"
    /\ \/ chan' = Nothing /\ GoOn("check")
       \/ chan' \in {chan, Nothing} /\ Fails
    /\ UNCHANGED <<enhanced, call, buffer, done, offered>>

\* Fault: the start of the answer is not looked at.
FaultAccepted == TRUE

\* The buffer starts with "1 " and has room for a header.  In a garbled one
\* the second byte comes from the id of the request, which is 0.
Accepted == buffer.what = "answer"

Check ==
    /\ pc = "check"
    /\ \/ Accepted /\ pc' = "idle" /\ result' = buffer
       \/ ~Accepted /\ GiveUp
    /\ UNCHANGED <<enhanced, call, buffer, chan, done, offered, clean, fails>>

Next == ExecuteRpc \/ SendLen \/ SendDat \/ RecvLen \/ RecvDat \/ RecvEnd
        \/ Check

Spec == Init /\ [][Next]_vars

-----------------------------------------------------------------------------
(* Properties.                                                             *)

\* ExecuteRpc is what its callers take it for, whatever fails between two of
\* its instructions and whatever is left over from earlier calls: carried out
\* at most once, and answered with the answer to this request or not at all.
RpcInstance == INSTANCE Rpc WITH active <- pc # "idle"

AnswersOwnRequest == RpcInstance!Spec

\* A call ends that met no failure, and to which the host gave an answer.
ReturnsClean ==
    pc # "idle" /\ pc' = "idle" /\ clean' /\ offered = "answer"

\* An answer gets through: nothing left over from earlier calls, and no check
\* on the way, makes a call fail that should succeed.  With the conventional
\* protocol none gets through, see Received.
AnswerGetsThrough ==
    [][ReturnsClean /\ enhanced => result' # NoAnswer]_vars
=============================================================================
