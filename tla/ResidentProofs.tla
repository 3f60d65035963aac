--------------------------- MODULE ResidentProofs ---------------------------
(***************************************************************************)
(* The two users of the backdoor side by side: ExecuteRpc (vmshf.c) keeps  *)
(* the promises of Rpc and lets an answer through, and the tools daemon    *)
(* (toolsd.c) makes no wrong reply of its own and owes none, for any       *)
(* number of calls and failures and any heartbeat interval.                *)
(***************************************************************************)
EXTENDS Resident, TLAPS

\* What a step is to the redirector.
LEMMA RedirectorSteps ==
    ASSUME [Next]_vars
    PROVE  B!Next \/ UNCHANGED rpci
  BY DEF Next, vars, Redirector, Tick, Host, rpci

\* What a step is to the daemon and its host.
LEMMA DaemonSteps ==
    ASSUME [Next]_vars
    PROVE  \/ T!Next
           \/ B!Next /\ UNCHANGED tclo
           \/ UNCHANGED <<tclo, fails>>
  BY DEF Next, vars, Redirector, Tick, Host, tclo, T!Next

\* An RPC of the redirector counts its failures, as one of the daemon does.
LEMMA FailsCount ==
    ASSUME B!Next
    PROVE  \/ UNCHANGED fails
           \/ fails < MaxFail /\ fails' = fails + 1
  BY DEF B!Next, B!ExecuteRpc, B!SendLen, B!SendDat, B!RecvLen, B!RecvDat,
         B!RecvEnd, B!Check, B!GoOn, B!Fails

-----------------------------------------------------------------------------
\* Until it is sent the request of this call is in the buffer, and the host
\* has not carried it out.
Unsent ==
    pc \in {"sendlen", "senddat"} => /\ buffer.of = call
                                     /\ call \notin done

\* From then on what the host has to deliver belongs to this call.
Delivers ==
    pc \in {"recvlen", "recvdat"} =>
        /\ call \in done
        /\ chan = [what |-> chan.what, of |-> call]

\* What looks like an answer is the one to this call.
Fetched ==
    pc \in {"recvend", "check"} =>
        /\ call \in done
        /\ buffer.what = "answer" =>
             buffer = [what |-> "answer", of |-> call]

OwnInv == Unsent /\ Delivers /\ Fetched

LEMMA OwnInit == Init => OwnInv
  BY DEF Init, B!Init, OwnInv, Unsent, Delivers, Fetched

LEMMA OwnStep == OwnInv /\ [Next]_vars => OwnInv'
<1> SUFFICES ASSUME OwnInv, [Next]_vars PROVE OwnInv'
  OBVIOUS
<1> USE DEF OwnInv, Unsent, Delivers, Fetched, B!GiveUp, B!Fails, B!GoOn
<1>1. CASE B!ExecuteRpc
  BY <1>1 DEF B!ExecuteRpc
<1>2. CASE B!SendLen
  BY <1>2 DEF B!SendLen
<1>3. CASE B!SendDat
  BY <1>3 DEF B!SendDat
<1>4. CASE B!RecvLen
  BY <1>4 DEF B!RecvLen
<1>5. CASE B!RecvDat
  BY <1>5 DEF B!RecvDat, B!Received, B!Garbled
<1>6. CASE B!RecvEnd
  BY <1>6 DEF B!RecvEnd
<1>7. CASE B!Check
  BY <1>7 DEF B!Check
<1>8. CASE UNCHANGED rpci
  BY <1>8 DEF rpci
<1>9. QED
  BY <1>1, <1>2, <1>3, <1>4, <1>5, <1>6, <1>7, <1>8, RedirectorSteps
     DEF B!Next

\* A step of ExecuteRpc is a step of Rpc or none.
LEMMA RpcStep ==
    OwnInv /\ [Next]_vars => [B!RpcInstance!Next]_(B!RpcInstance!vars)
<1> SUFFICES ASSUME OwnInv, [Next]_vars
             PROVE  B!RpcInstance!Next \/ UNCHANGED B!RpcInstance!vars
  BY DEF B!RpcInstance!vars
<1> USE DEF B!GiveUp, B!Fails, B!GoOn, B!RpcInstance!vars
<1>1. CASE B!ExecuteRpc
  BY <1>1 DEF B!ExecuteRpc, B!RpcInstance!Next, B!RpcInstance!Call
<1>2. CASE B!SendLen
  BY <1>2 DEF B!SendLen, B!RpcInstance!Next, B!RpcInstance!Return
<1>3. CASE B!SendDat
  <2>1. call \notin done /\ buffer.of = call
    BY <1>3 DEF OwnInv, Unsent, B!SendDat
  <2>2. QED
    BY <1>3, <2>1 DEF B!SendDat, B!RpcInstance!Next, B!RpcInstance!Execute,
                      B!RpcInstance!Return
<1>4. CASE B!RecvLen
  BY <1>4 DEF B!RecvLen, B!RpcInstance!Next, B!RpcInstance!Return
<1>5. CASE B!RecvDat
  BY <1>5 DEF B!RecvDat, B!RpcInstance!Next, B!RpcInstance!Return
<1>6. CASE B!RecvEnd
  BY <1>6 DEF B!RecvEnd, B!RpcInstance!Next, B!RpcInstance!Return
<1>7. CASE B!Check
  <2>1. B!Accepted => call \in done /\ buffer = B!RpcInstance!Answer(call)
    BY <1>7 DEF B!Check, B!Accepted, OwnInv, Fetched, B!RpcInstance!Answer
  <2>2. QED
    BY <1>7, <2>1 DEF B!Check, B!RpcInstance!Next, B!RpcInstance!Return
<1>8. CASE UNCHANGED rpci
  BY <1>8 DEF rpci
<1>9. QED
  BY <1>1, <1>2, <1>3, <1>4, <1>5, <1>6, <1>7, <1>8, RedirectorSteps
     DEF B!Next

\* ExecuteRpc (vmshf.c:64) implements Rpc: whatever fails, a request is carried
\* out at most once, and answered with its own answer or not at all.
THEOREM OwnAnswer == Spec => AnswersOwnRequest
<1>1. Init => B!RpcInstance!Init
  BY DEF Init, B!Init, B!RpcInstance!Init
<1>2. Spec => []OwnInv
  BY OwnInit, OwnStep, PTL DEF Spec
<1>3. QED
  BY <1>1, <1>2, RpcStep, PTL DEF Spec, AnswersOwnRequest,
     B!AnswersOwnRequest, B!RpcInstance!Spec

-----------------------------------------------------------------------------
\* A call without a failure, to which the host gave an answer, has it within
\* reach.
Waiting == pc \in {"recvlen", "recvdat"} /\ clean => chan.what = offered

Arrived ==
    pc \in {"recvend", "check"} /\ clean /\ enhanced => buffer.what = offered

ThroughInv == Waiting /\ Arrived

LEMMA ThroughStep == ThroughInv /\ [Next]_vars => ThroughInv'
<1> SUFFICES ASSUME ThroughInv, [Next]_vars PROVE ThroughInv'
  OBVIOUS
<1> USE DEF ThroughInv, Waiting, Arrived, B!GiveUp, B!Fails, B!GoOn
<1>1. CASE B!ExecuteRpc
  BY <1>1 DEF B!ExecuteRpc
<1>2. CASE B!SendLen
  BY <1>2 DEF B!SendLen
<1>3. CASE B!SendDat
  BY <1>3 DEF B!SendDat
<1>4. CASE B!RecvLen
  BY <1>4 DEF B!RecvLen
<1>5. CASE B!RecvDat
  BY <1>5 DEF B!RecvDat, B!Received
<1>6. CASE B!RecvEnd
  BY <1>6 DEF B!RecvEnd
<1>7. CASE B!Check
  BY <1>7 DEF B!Check
<1>8. CASE UNCHANGED rpci
  BY <1>8 DEF rpci
<1>9. QED
  BY <1>1, <1>2, <1>3, <1>4, <1>5, <1>6, <1>7, <1>8, RedirectorSteps
     DEF B!Next

\* The answer of the host gets through (vmshf.c:83-98): with the enhanced
\* protocol a call fails only when an instruction failed or the host gave no
\* answer.
THEOREM AnswersComeThrough ==
    ASSUME \A n : NoAnswer # [what |-> "answer", of |-> n]
    PROVE  Spec => AnswerGetsThrough
<1>1. Init => ThroughInv
  BY DEF Init, B!Init, ThroughInv, Waiting, Arrived
<1>2. OwnInv /\ ThroughInv /\ [Next]_vars =>
        [B!ReturnsClean /\ enhanced => result' # NoAnswer]_(B!vars)
  <2> SUFFICES ASSUME OwnInv, ThroughInv, [Next]_vars,
                      B!ReturnsClean, enhanced
               PROVE  result' # NoAnswer
    OBVIOUS
  <2> USE DEF B!ReturnsClean
  <2>0. B!Next
    BY RedirectorSteps DEF rpci
  <2>1. CASE B!RecvLen
    BY <2>1 DEF B!RecvLen, ThroughInv, Waiting, B!TooLong, B!GoOn, B!GiveUp,
                B!Fails
  <2>2. CASE B!Check
    <3>1. B!Accepted
      BY <2>2 DEF B!Check, ThroughInv, Arrived, B!Accepted
    <3>2. buffer = [what |-> "answer", of |-> call]
      BY <2>2, <3>1 DEF B!Check, OwnInv, Fetched, B!Accepted
    <3>3. QED
      BY <2>2, <3>1, <3>2 DEF B!Check
  <2>3. QED
    BY <2>0, <2>1, <2>2 DEF B!Next, B!ExecuteRpc, B!SendLen, B!SendDat,
                            B!RecvDat, B!RecvEnd, B!Fails, B!GoOn
<1>3. Spec => [](OwnInv /\ ThroughInv)
  BY <1>1, OwnInit, OwnStep, ThroughStep, PTL DEF Spec
<1>4. QED
  BY <1>2, <1>3, PTL DEF Spec, AnswerGetsThrough, B!AnswerGetsThrough
-----------------------------------------------------------------------------
\* The type invariant of the daemon and its host.
LEMMA DaemonTypes == Spec => []T!TypeOK
<1> USE ResidentAssumption
<1>1. Init => T!TypeOK
  <2>1. "other" \in T!Commands
    BY DEF T!Commands, T!Reply
  <2> SUFFICES ASSUME Init PROVE T!TypeOK
    OBVIOUS
  <2>2. msg \in [text : T!Texts, len : T!Texts]
    BY DEF Init, T!Init, T!Texts
  <2>3. host \in [state : {"none", "ready", "told", "waiting"},
                  cmd : T!Commands]
    BY <2>1 DEF Init, T!Init
  <2>4. ticks \in 0..Interval /\ wrong \in Nat /\ fails \in 0..MaxFail
    BY DEF Init, T!Init
  <2>5. lost \in BOOLEAN
    BY Zenon DEF Init, T!Init
  <2>6. QED
    BY <2>2, <2>3, <2>4, <2>5 DEF T!TypeOK
<1>2. T!TypeOK /\ [Next]_vars => T!TypeOK'
  <2> SUFFICES ASSUME T!TypeOK, [Next]_vars PROVE T!TypeOK'
    OBVIOUS
  <2> USE DEF T!TypeOK, T!Texts
  <2>1. CASE T!Wait
    BY <2>1 DEF T!Wait, T!Due
  <2>2. CASE T!Call
    <3>0. ticks' = 0 /\ 0 \in 0..Interval
      BY <2>2 DEF T!Call
    <3>1. T!Told \in [state : {"none", "ready", "told", "waiting"},
                    cmd : T!Commands]
      BY DEF T!Told
    <3>2. ASSUME T!Sent PROVE wrong' \in Nat
      BY <3>2 DEF T!Sent
    <3>3. ASSUME T!LoseRpc PROVE fails' \in 0..MaxFail
      BY <3>3 DEF T!LoseRpc
    <3>4. CASE T!SendFails
      BY <3>0, <3>1, <3>2, <3>3, <3>4 DEF T!SendFails
    <3>5. CASE T!NoCommand
      BY <3>0, <3>1, <3>2, <3>3, <3>5 DEF T!NoCommand
    <3>6. CASE T!Command
      BY <3>0, <3>1, <3>2, <3>6 DEF T!Command, T!Prepared
    <3>7. CASE T!CommandFails
      BY <3>0, <3>1, <3>2, <3>3, <3>7 DEF T!CommandFails
    <3>8. QED
      BY <2>2, <3>4, <3>5, <3>6, <3>7 DEF T!Call
  <2>3. CASE T!HostIssues
    BY <2>3 DEF T!HostIssues
  <2>4. CASE T!HostGivesUp
    BY <2>4 DEF T!HostGivesUp
  <2>5. CASE UNCHANGED tclo /\ B!Next
    BY <2>5, FailsCount DEF tclo
  <2>6. CASE UNCHANGED <<tclo, fails>>
    BY <2>6 DEF tclo
  <2>7. QED
    BY <2>1, <2>2, <2>3, <2>4, <2>5, <2>6, DaemonSteps
       DEF T!Next, T!Int1cToolsd
<1>3. QED
  BY <1>1, <1>2, PTL DEF Spec

-----------------------------------------------------------------------------
\* A reply that will be wrong if it gets through has its failed RPC.
Pending ==
    host.state = "waiting" /\ msg.len # None /\ ~T!Answers => wrong < fails

WrongInv == T!WrongBound /\ Pending

LEMMA WrongStep ==
    ASSUME T!TypeOK, WrongInv, [Next]_vars
    PROVE  WrongInv'
<1> USE DEF WrongInv, T!WrongBound, Pending
<1>0. wrong \in Nat /\ fails \in Nat
  BY ResidentAssumption DEF T!TypeOK
<1>1. CASE T!Wait
  BY <1>1 DEF T!Wait, T!Answers
<1>2. CASE T!Call
  <2>1. T!Told.cmd = host.cmd /\ (T!Told = host \/ T!Told.state = "none")
    BY DEF T!Told, T!TypeOK
  <2>2. ASSUME T!Sent PROVE wrong' \in Nat /\ wrong' <= fails
    BY <1>0, <2>2 DEF T!Sent, T!Told
  <2>3. T!Told.state = "waiting" => msg.len = None
    BY DEF T!Told, T!TypeOK
  <2>4. ASSUME T!LoseRpc PROVE fails' = fails + 1
    BY <2>4 DEF T!LoseRpc
  <2>5. CASE T!SendFails
    <3>1. msg'.len = None
      BY <2>5 DEF T!SendFails, T!TypeOK
    <3>2. QED
      BY <1>0, <2>2, <2>4, <2>5, <3>1 DEF T!SendFails
  <2>6. CASE T!NoCommand
    <3>1. msg'.len = None
      BY <2>6 DEF T!NoCommand, T!TypeOK
    <3>2. QED
      BY <1>0, <2>2, <2>4, <2>6, <3>1 DEF T!NoCommand
  <2>7. CASE T!Command
    <3>1. host'.cmd = T!Told.cmd
      BY <2>7 DEF T!Command, T!Told, T!TypeOK
    <3>2. T!Answers'
      BY <2>7, <3>1 DEF T!Command, T!Prepared, T!Answers
    <3>3. QED
      BY <2>2, <2>7, <3>2 DEF T!Command
  <2>8. CASE T!CommandFails
    BY <1>0, <2>2, <2>4, <2>8 DEF T!CommandFails
  <2>9. QED
    BY <1>2, <2>5, <2>6, <2>7, <2>8 DEF T!Call
<1>3. CASE T!HostIssues
  BY <1>3 DEF T!HostIssues
<1>4. CASE T!HostGivesUp
  BY <1>4 DEF T!HostGivesUp, T!TypeOK
<1>5. CASE UNCHANGED tclo /\ B!Next
  BY <1>0, <1>5, FailsCount DEF tclo, T!Answers
<1>6. CASE UNCHANGED <<tclo, fails>>
  BY <1>6 DEF tclo, T!Answers
<1>7. QED
  BY <1>1, <1>2, <1>3, <1>4, <1>5, <1>6, DaemonSteps
     DEF T!Next, T!Int1cToolsd

\* Each failed RPC of the daemon (toolsd.c:107-125) makes one wrong reply at
\* most, although a length that belongs to no reply stays behind.
THEOREM WrongRepliesBounded == Spec => []WrongBound
<1>1. Init => WrongInv
  BY DEF Init, T!Init, WrongInv, T!WrongBound, Pending
<1>2. T!TypeOK /\ WrongInv /\ [Next]_vars => WrongInv'
  BY WrongStep
<1>3. WrongInv => WrongBound
  BY DEF WrongInv, WrongBound
<1>4. QED
  BY <1>1, <1>2, <1>3, DaemonTypes, PTL DEF Spec

-----------------------------------------------------------------------------
\* The host waits only for a reply that is in the buffer or was lost
\* (toolsd.c:103-157): the daemon replies to each command it has received.
THEOREM ReplyAtHand ==
    ASSUME \A c \in T!Commands : c # None /\ T!Reply[c] # None
    PROVE  Spec => []NoWaitInVain
<1>1. Init => T!NoWaitInVain
  BY DEF Init, T!Init, T!NoWaitInVain
<1>2. T!TypeOK /\ T!NoWaitInVain /\ [Next]_vars => T!NoWaitInVain'
  <2> SUFFICES ASSUME T!TypeOK, T!NoWaitInVain, [Next]_vars
               PROVE  T!NoWaitInVain'
    OBVIOUS
  <2> USE DEF T!NoWaitInVain
  <2>1. CASE T!Wait
    BY <2>1 DEF T!Wait
  <2>2. CASE T!Call
    <3>1. T!Told.cmd \in T!Commands
      BY DEF T!Told, T!TypeOK
    <3>2. T!Told.state = "waiting" => T!Told = host /\ msg.len = None
      BY DEF T!Told, T!TypeOK
    <3>3. CASE T!SendFails
      <4>1. msg'.len = None
        BY <3>3 DEF T!SendFails, T!TypeOK
      <4>2. CASE host' = T!Told /\ UNCHANGED lost
        BY <3>2, <4>2
      <4>3. CASE lost' = (lost \/ T!Told # host) /\ UNCHANGED host
        <5> SUFFICES ASSUME host.state = "waiting", ~lost' PROVE FALSE
          BY <4>3
        <5>1. ~lost /\ T!Told = host
          BY <4>3
        <5>2. QED
          BY <3>2, <5>1
      <4>4. QED
        BY <3>3, <4>2, <4>3 DEF T!SendFails
    <3>4. CASE T!NoCommand
      BY <3>2, <3>4 DEF T!NoCommand
    <3>5. CASE T!Command
      BY <3>1, <3>5 DEF T!Command, T!Prepared
    <3>6. CASE T!CommandFails
      BY <3>1, <3>6 DEF T!CommandFails
    <3>7. QED
      BY <2>2, <3>3, <3>4, <3>5, <3>6 DEF T!Call
  <2>3. CASE T!HostIssues
    BY <2>3 DEF T!HostIssues
  <2>4. CASE T!HostGivesUp
    BY <2>4 DEF T!HostGivesUp, T!TypeOK
  <2>5. CASE UNCHANGED tclo /\ B!Next
    BY <2>5, FailsCount DEF tclo
  <2>6. CASE UNCHANGED <<tclo, fails>>
    BY <2>6 DEF tclo
  <2>7. QED
    BY <2>1, <2>2, <2>3, <2>4, <2>5, <2>6, DaemonSteps
       DEF T!Next, T!Int1cToolsd
<1>3. QED
  BY <1>1, <1>2, DaemonTypes, PTL DEF Spec, NoWaitInVain

-----------------------------------------------------------------------------
\* The type invariant of the redirector's side, in parts: the flags, and what
\* is neither a flag nor the count of failures.
Flags == enhanced \in BOOLEAN /\ clean \in BOOLEAN

Shapes ==
    /\ pc \in {"idle", "sendlen", "senddat", "recvlen", "recvdat", "recvend",
               "check"}
    /\ call \in 0..MaxCalls
    /\ buffer \in B!Contents
    /\ chan \in [what : B!Forms \cup {"nothing"}, of : 0..MaxCalls]
    /\ done \subseteq 1..MaxCalls
    /\ result \in {NoAnswer} \cup B!Contents
    /\ offered \in B!Forms \cup {"nothing"}

\* What is about to be fetched fits in the buffer, and what is about to be
\* sent has a number.
Short == /\ pc = "recvdat" => chan.what # "long"
         /\ pc \in {"sendlen", "senddat"} => buffer.of \in 1..MaxCalls

LEMMA FlagsStep == ASSUME Flags, [Next]_vars PROVE Flags'
<1> USE DEF Flags, B!GiveUp, B!Fails, B!GoOn
<1>1. CASE B!ExecuteRpc
  BY <1>1, Zenon DEF B!ExecuteRpc
<1>2. CASE B!SendLen
  BY <1>2, Zenon DEF B!SendLen
<1>3. CASE B!SendDat
  BY <1>3, Zenon DEF B!SendDat
<1>4. CASE B!RecvLen
  BY <1>4, Zenon DEF B!RecvLen
<1>5. CASE B!RecvDat
  BY <1>5, Zenon DEF B!RecvDat
<1>6. CASE B!RecvEnd
  BY <1>6, Zenon DEF B!RecvEnd
<1>7. CASE B!Check
  BY <1>7, Zenon DEF B!Check
<1>8. CASE UNCHANGED rpci
  BY <1>8, Zenon DEF rpci
<1>9. QED
  BY <1>1, <1>2, <1>3, <1>4, <1>5, <1>6, <1>7, <1>8, RedirectorSteps
     DEF B!Next

LEMMA ShapesStep ==
    ASSUME Shapes, Short, [Next]_vars
    PROVE  Shapes' /\ Short'
<1> USE ResidentAssumption
<1> USE DEF Shapes, Short, B!GiveUp, B!Fails, B!GoOn, B!Contents, B!Forms
<1>1. CASE B!ExecuteRpc
  <2>1. call' \in 1..MaxCalls
    BY <1>1 DEF B!ExecuteRpc
  <2>2. buffer' = [what |-> "request", of |-> call']
    BY <1>1 DEF B!ExecuteRpc
  <2>3. buffer' \in B!Contents /\ buffer'.of \in 1..MaxCalls
    BY <2>1, <2>2
  <2>4. /\ done' \subseteq 1..MaxCalls
        /\ pc' = "sendlen" /\ offered' = "nothing"
        /\ UNCHANGED <<chan, result>>
    BY <1>1 DEF B!ExecuteRpc
  <2>5. call' \in 0..MaxCalls
    BY <2>1
  <2>6. QED
    BY <2>3, <2>4, <2>5
<1>2. CASE B!SendLen
  BY <1>2 DEF B!SendLen, B!Nothing
<1>3. CASE B!SendDat
  BY <1>3 DEF B!SendDat
<1>4. CASE B!RecvLen
  BY <1>4 DEF B!RecvLen, B!TooLong
<1>5. CASE B!RecvDat
  BY <1>5 DEF B!RecvDat, B!Received, B!Garbled
<1>6. CASE B!RecvEnd
  BY <1>6 DEF B!RecvEnd, B!Nothing
<1>7. CASE B!Check
  BY <1>7 DEF B!Check
<1>8. CASE UNCHANGED rpci
  BY <1>8 DEF rpci
<1>9. QED
  BY <1>1, <1>2, <1>3, <1>4, <1>5, <1>6, <1>7, <1>8, RedirectorSteps
     DEF B!Next

\* The type invariant: an answer that does not fit (vmshf.c:83) never gets
\* into the shared buffer.
THEOREM TypeCorrect == Spec => []TypeOK
<1>1. Init => Flags
  BY Zenon DEF Init, B!Init, Flags
<1>2. Init => Shapes /\ Short
  <2>1. B!Nothing \in B!Contents
        /\ B!Nothing \in [what : B!Forms \cup {"nothing"}, of : 0..MaxCalls]
    BY ResidentAssumption DEF B!Nothing, B!Contents
  <2>2. QED
    BY <2>1, ResidentAssumption DEF Init, B!Init, Shapes, Short
<1>3. Flags /\ [Next]_vars => Flags'
  BY FlagsStep
<1>4. Shapes /\ Short /\ [Next]_vars => Shapes' /\ Short'
  BY ShapesStep
<1>5. Flags /\ Shapes /\ T!TypeOK => TypeOK
  BY DEF TypeOK, B!TypeOK, T!TypeOK, Flags, Shapes
<1>6. QED
  BY <1>1, <1>2, <1>3, <1>4, <1>5, DaemonTypes, PTL DEF Spec
=============================================================================
