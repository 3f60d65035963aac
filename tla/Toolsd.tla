-------------------------------- MODULE Toolsd --------------------------------
(***************************************************************************)
(* The tools daemon (toolsd.c) on the TCLO channel.  It has no process: a  *)
(* timer tick runs Int1cToolsd, which sends the reply that is waiting,     *)
(* asks for a command and prepares the reply to it, all in one go and with *)
(* interrupts off.                                                         *)
(*                                                                         *)
(* The command that comes and the reply that goes share one buffer, and    *)
(* their lengths one word.  Texts are told apart by name; a length is      *)
(* named by the text it is the length of, with None for zero.              *)
(*                                                                         *)
(* The host gives the same command again until its delivery is complete,   *)
(* waits for the reply, takes what comes, and may lose its patience.       *)
(***************************************************************************)
EXTENDS Naturals

CONSTANTS
    Interval,   \* HEARTBEAT_INTERVAL: the most ticks without a reply to send
    None,       \* no text, of length zero
    MaxFail     \* bound: RPCs that fail in the channel

VARIABLES
    msg,        \* the shared buffer: its text, and the length in it
    ticks,      \* timer ticks since the host was last asked
    host,       \* the command the host is at, and how far it has come
    wrong,      \* history: replies that do not answer the command
    lost,       \* history: the last reply or its command went amiss
    fails       \* history: RPCs that failed in the channel

tvars == <<msg, ticks, host, wrong, lost>>
vars == <<tvars, fails>>

\* The reply to a command, by the first prefix that fits.
Reply == [reset |-> "OK ATR toolbox", ping |-> "OK ", mount |-> "OK 0 0",
          vix |-> "ERROR 6 0", other |-> "ERROR Unknown command"]

Commands == DOMAIN Reply

Texts == Commands \cup {Reply[c] : c \in Commands} \cup {None}

TypeOK ==
    /\ msg \in [text : Texts, len : Texts]
    /\ ticks \in 0..Interval
    /\ host \in [state : {"none", "ready", "told", "waiting"}, cmd : Commands]
    /\ wrong \in Nat
    /\ lost \in BOOLEAN
    /\ fails \in 0..MaxFail

Init ==
    /\ msg = [text |-> None, len |-> None]
    /\ ticks = Interval
    /\ host = [state |-> "none", cmd |-> "other"]
    /\ wrong = 0
    /\ lost = FALSE
    /\ fails = 0

-----------------------------------------------------------------------------
(* Int1cToolsd.                                                            *)

LoseRpc == fails < MaxFail /\ fails' = fails + 1

\* Fault: the count goes one too far.
FaultDueLate == msg.len # None \/ ticks > Interval

\* It is time to call the host.
Due == msg.len # None \/ ticks + 1 > Interval

\* Fault: the ticks are not counted.
FaultWait ==
    /\ ~Due
    /\ UNCHANGED <<msg, ticks, host, wrong, lost, fails>>

Wait ==
    /\ ~Due
    /\ ticks' = ticks + 1
    /\ UNCHANGED <<msg, host, wrong, lost, fails>>

\* The host once VMRpcSend has told it the reply, if there is one.
Told == IF msg.len # None /\ host.state = "waiting"
        THEN [host EXCEPT !.state = "none"]
        ELSE host

Answers == msg.text = Reply[host.cmd] /\ msg.len = Reply[host.cmd]

\* The host gets what VMRpcSend sends.
Sent == wrong' = IF Told = host \/ Answers THEN wrong ELSE wrong + 1

\* VMRpcSend fails, before or after the reply got through.  It is not kept.
SendFails ==
    /\ LoseRpc
    /\ msg' = [msg EXCEPT !.len = None]
    /\ \/ Sent /\ host' = Told /\ UNCHANGED lost
       \/ lost' = (lost \/ Told # host) /\ UNCHANGED <<host, wrong>>

\* VMRpcRecvLen fails, or the host has no command.
NoCommand ==
    /\ Sent
    /\ host' = Told
    /\ msg' = [msg EXCEPT !.len = None]
    /\ \/ LoseRpc
       \/ Told.state \notin {"ready", "told"} /\ UNCHANGED fails
    /\ UNCHANGED lost

\* Fault: the Vix prefix is looked at before the longer one.
FaultPrepared(c) ==
    LET a == IF c = "mount" THEN Reply["vix"] ELSE Reply[c] IN
    [text |-> a, len |-> a]

\* Fault: a command it does not know is not replied to.
FaultPreparedKnown(c) ==
    [text |-> Reply[c], len |-> IF c = "other" THEN None ELSE Reply[c]]

Prepared(c) == [text |-> Reply[c], len |-> Reply[c]]

\* VMRpcRecvDat brings the command, and its reply is made in its place.
Command ==
    /\ Told.state \in {"ready", "told"}
    /\ Sent
    /\ host' = [Told EXCEPT !.state = "waiting"]
    /\ msg' = Prepared(Told.cmd)
    /\ UNCHANGED <<lost, fails>>

\* VMRpcRecvDat fails, before or after the host took it as delivered.  The
\* length of the command stays, as if it were that of a reply.
CommandFails ==
    /\ Told.state \in {"ready", "told"}
    /\ Sent
    /\ host' \in [state : {"told", "waiting"}, cmd : {Told.cmd}]
    /\ msg' \in [text : {msg.text, Told.cmd}, len : {Told.cmd}]
    /\ LoseRpc
    /\ UNCHANGED lost

Call ==
    /\ Due
    /\ ticks' = 0
    /\ SendFails \/ NoCommand \/ Command \/ CommandFails

Int1cToolsd == Wait \/ Call

-----------------------------------------------------------------------------
(* The host.                                                               *)

HostIssues ==
    /\ host.state = "none"
    /\ host' \in [state : {"ready"}, cmd : Commands]
    /\ lost' = FALSE
    /\ UNCHANGED <<msg, ticks, wrong, fails>>

HostGivesUp ==
    /\ host.state # "none"
    /\ host' = [host EXCEPT !.state = "none"]
    /\ UNCHANGED <<msg, ticks, wrong, lost, fails>>

Next == Int1cToolsd \/ HostIssues \/ HostGivesUp

Spec == Init /\ [][Next]_vars

\* The timer goes on ticking.
LiveSpec == Spec /\ WF_vars(Int1cToolsd)

-----------------------------------------------------------------------------
(* Properties.                                                             *)

\* The host gets a wrong reply only when an RPC has failed, and one for each
\* at most: a late reply is not taken for the one to a later command, and
\* what the failed RPC left behind does not come back again.
WrongBound == wrong <= fails

\* The host does not wait for a reply unless one is in the buffer or was
\* lost on the way.
NoWaitInVain == host.state = "waiting" /\ ~lost => msg.len # None

\* Every command comes to its reply, whatever fails before it is delivered,
\* unless the reply itself is lost.
Answered == host.state = "ready" ~> host.state = "none" \/ lost
=============================================================================
