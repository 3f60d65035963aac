------------------------------ MODULE Transfer ------------------------------
(***************************************************************************)
(* ReadFile and WriteFile (redir.c) with VMShfReadFile, VMShfWriteFile and *)
(* the size part of VMShfSetAttr (vmshf.c).  A call moves r->w.cx bytes    *)
(* between the program's buffer and the file, in blocks of at most         *)
(* maxDataSize bytes, one RPC each; the host may move fewer bytes than it  *)
(* was asked to.  Entry, every RPC and exit of a call are steps, since the *)
(* host goes on serving others in between.                                 *)
(*                                                                         *)
(* One file of the shared folder is open through one or more SFT entries.  *)
(* Bytes are not modelled, only which offset of the buffer went to or came *)
(* from which offset of the file.  The machine's 16 and 32 bit words are   *)
(* Word and Dword values wide.                                             *)
(***************************************************************************)
EXTENDS Integers, FiniteSets

CONSTANTS
    Sfts,       \* SFT entries open on the file
    Word,       \* 2^16: r->w.cx is a 16 bit word
    Dword,      \* 2^32: filePos and fileSize are 32 bit words
    MaxData,    \* maxDataSize: the most one RPC carries
    Modes,      \* the open modes used: "r", "w" and "rw"
    MaxSize,    \* bound: the largest size of the file on the host
    MaxFail,    \* bound: RPCs that fail in the channel, unless it breaks
    MaxOther,   \* bound: times others change the size of the file
    MayBreak    \* TRUE: the channel may break for good

ASSUME TransferAssumption ==
    /\ Word \in Nat \ {0} /\ Dword \in Nat \ {0} /\ Word <= Dword
    /\ MaxData \in Nat \ {0}
    /\ Modes \subseteq {"r", "w", "rw"}
    /\ MaxSize \in Nat /\ MaxFail \in Nat /\ MaxOther \in Nat
    /\ MayBreak \in BOOLEAN

VARIABLES
    sft,        \* per entry: openMode, filePos, fileSize
    host,       \* the size of the file on the host
    up,         \* the channel works
    pc,         \* "dos", or what the redirector is doing
    call,       \* the call being served, or the last one
    reg,        \* the registers the program sees: CF, and the CX it gets back
    fails,      \* history: RPCs that failed in the channel so far
    others,     \* history: times others changed the size of the file
    odd         \* history: some call did not go as the caller would expect

vars == <<sft, host, up, pc, call, reg, fails, others, odd>>

TypeOK ==
    /\ sft \in [Sfts -> [mode : Modes, pos : 0..Dword-1, size : 0..Dword-1]]
    /\ host \in 0..MaxSize
    /\ up \in BOOLEAN
    /\ pc \in {"dos", "read", "write"}
    /\ call \in [s : Sfts, op : {"read", "write"}, want : 0..Word-1,
                 start : 0..Dword-1, size : 0..Dword-1, off : Nat,
                 todo : 0..Word-1]
    /\ reg \in [cf : BOOLEAN, cx : 0..Word-1]
    /\ fails \in 0..MaxFail
    /\ others \in 0..MaxOther
    /\ odd \in BOOLEAN

MinOf(a, b) == IF a <= b THEN a ELSE b

\* OpenOrCreateFile: a size that does not fit 32 bits becomes the largest.
Capped(n) == MinOf(n, Dword - 1)

Init ==
    /\ host \in 0..MaxSize
    /\ \E m \in [Sfts -> Modes] :
         sft = [s \in Sfts |->
                  [mode |-> m[s], pos |-> 0, size |-> Capped(host)]]
    /\ up = TRUE
    /\ pc = "dos"
    /\ \E s \in Sfts :
         call = [s |-> s, op |-> "read", want |-> 0, start |-> 0, size |-> 0,
                 off |-> 0, todo |-> 0]
    /\ reg = [cf |-> FALSE, cx |-> 0]
    /\ fails = 0
    /\ others = 0
    /\ odd = FALSE

-----------------------------------------------------------------------------
(* Outcomes of an RPC: see SftTable.  A broken channel loses every request *)
(* and is not counted.                                                     *)

LoseRpc == IF up THEN fails < MaxFail /\ fails' = fails + 1
                 ELSE UNCHANGED fails

\* The host leaves an RPC undone: an error status, or a lost request.
Refused == up /\ UNCHANGED fails

Called(s, op, n) ==
    [s |-> s, op |-> op, want |-> n, off |-> 0, todo |-> n,
     start |-> sft[s].pos, size |-> sft[s].size]

\* The call returns at once with error "access denied".
Denied(s, op, n) ==
    /\ call' = [Called(s, op, n) EXCEPT !.todo = 0]
    /\ reg' = [cf |-> TRUE, cx |-> n]
    /\ UNCHANGED <<sft, pc, host, fails, odd>>

-----------------------------------------------------------------------------
(* ReadFile.                                                               *)

\* Fault: the difference is not cut to 16 bits.
FaultClampSigned(s, n) ==
    IF sft[s].pos + n > sft[s].size THEN sft[s].size - sft[s].pos ELSE n

\* Fault: no clamp.
FaultNoClamp(s, n) == n

\* What is left to read before the end of the file as this entry knows it.
\* The sum wraps at 32 bits and the difference is cut to 16.
ClampToSize(s, n) ==
    IF (sft[s].pos + n) % Dword > sft[s].size
    THEN ((sft[s].size - sft[s].pos) % Dword) % Word
    ELSE n

ReadFile(s, n) ==
    /\ pc = "dos"
    /\ \/ /\ sft[s].mode = "w"
          /\ Denied(s, "read", n)
       \/ /\ sft[s].mode # "w"
          /\ LET cx == ClampToSize(s, n) IN
             /\ reg' = [cf |-> FALSE, cx |-> cx]
             /\ call' = [Called(s, "read", n) EXCEPT !.todo = cx]
             /\ pc' = IF cx = 0 THEN "dos" ELSE "read"
          /\ UNCHANGED <<sft, host, fails, odd>>
    /\ UNCHANGED <<up, others>>

\* The bytes a read RPC can bring: what the file has at this position, at
\* most a block, and possibly less.
Readable(s) ==
    LET most == MinOf(MinOf(call.todo, MaxData),
                      IF host > sft[s].pos THEN host - sft[s].pos ELSE 0)
    IN  IF most = 0 THEN {0} ELSE 1..most

\* Fault: cx stays what it was.
FaultLeaveNoCount(failed) ==
    /\ pc' = "dos"
    /\ reg' = [reg EXCEPT !.cf = reg.cf \/ failed]
    /\ UNCHANGED call

\* Fault: the error status is not reported.
FaultLeaveNoError(failed) ==
    /\ pc' = "dos"
    /\ reg' = [reg EXCEPT !.cx = (reg.cx - call.todo) % Word]
    /\ UNCHANGED call

\* Fault: no break.
FaultLeaveNoBreak(failed) ==
    /\ reg' = [reg EXCEPT !.cf = reg.cf \/ failed]
    /\ UNCHANGED <<pc, call>>

\* The answer is an error status, or brings nothing: the loop is left and cx
\* becomes the number of bytes moved.
Leave(failed) ==
    /\ pc' = "dos"
    /\ reg' = [cf |-> reg.cf \/ failed, cx |-> (reg.cx - call.todo) % Word]
    /\ UNCHANGED call

\* n bytes were moved: go on, or leave when all is done.
Advance(s, n) ==
    /\ sft' = [sft EXCEPT ![s].pos = (sft[s].pos + n) % Dword]
    /\ call' = [call EXCEPT !.off = call.off + n, !.todo = call.todo - n]
    /\ IF n = call.todo THEN pc' = "dos" ELSE UNCHANGED pc

\* The RPC failed: the carry flag is set, and the loop goes round again.
Retry ==
    /\ LoseRpc
    /\ reg' = [reg EXCEPT !.cf = TRUE]
    /\ UNCHANGED <<pc, sft, call>>

ReadLoop ==
    LET s == call.s IN
    /\ pc = "read"
    /\ \/ Retry
       \/ Refused /\ Leave(TRUE) /\ UNCHANGED sft
       \/ \E n \in Readable(s) :
            /\ up
            /\ IF n = 0 THEN Leave(FALSE) /\ UNCHANGED sft
                        ELSE Advance(s, n) /\ UNCHANGED reg
            /\ UNCHANGED fails
    /\ UNCHANGED <<host, up, others, odd>>

-----------------------------------------------------------------------------
(* WriteFile.                                                              *)

\* A write of no bytes sets the size of the file to the current position.
\* If the RPC fails the handler says so, but takes the new size as set.
Truncate(s) ==
    /\ call' = Called(s, "write", 0)
    /\ UNCHANGED pc
    /\ \/ /\ up
          /\ reg' = [cf |-> FALSE, cx |-> 0]
          /\ host' = sft[s].pos
          /\ sft' = [sft EXCEPT ![s].size = sft[s].pos]
          /\ UNCHANGED <<fails, odd>>
       \/ /\ Refused
          /\ reg' = [cf |-> TRUE, cx |-> 0]
          /\ UNCHANGED <<sft, host, odd>>
       \/ /\ LoseRpc
          /\ reg' = [cf |-> TRUE, cx |-> 0]
          /\ host' \in {host} \cup (IF up THEN {sft[s].pos} ELSE {})
          /\ sft' = [sft EXCEPT ![s].size = sft[s].pos]
          /\ odd' = TRUE

WriteFile(s, n) ==
    /\ pc = "dos"
    /\ sft[s].pos + n <= MaxSize
    /\ \/ /\ sft[s].mode = "r"
          /\ Denied(s, "write", n)
       \/ /\ sft[s].mode # "r"
          /\ IF n = 0
             THEN Truncate(s)
             ELSE /\ reg' = [cf |-> FALSE, cx |-> n]
                  /\ call' = Called(s, "write", n)
                  /\ pc' = "write"
                  /\ UNCHANGED <<sft, host, fails, odd>>
    /\ UNCHANGED <<up, others>>

\* The host has stored n bytes at the position of s.
Stored(s, n) == host' = IF n > 0 /\ sft[s].pos + n > host
                        THEN sft[s].pos + n ELSE host

\* At the end of the call the size is the position if that is larger.
Extend(s) ==
    IF pc' = "dos" /\ sft[s].pos > sft[s].size
    THEN sft' = [sft EXCEPT ![s].size = sft[s].pos]
    ELSE UNCHANGED sft

\* Fault: the size does not follow the position.
FaultWriteAllNoSize(s, n) ==
    /\ call' = [call EXCEPT !.off = call.off + n, !.todo = call.todo - n]
    /\ pc' = IF n = call.todo THEN "dos" ELSE "write"
    /\ sft' = [sft EXCEPT ![s].pos = (sft[s].pos + n) % Dword]

WriteAll(s, n) ==
    LET pos == (sft[s].pos + n) % Dword IN
    /\ call' = [call EXCEPT !.off = call.off + n, !.todo = call.todo - n]
    /\ pc' = IF n = call.todo THEN "dos" ELSE "write"
    /\ sft' = [sft EXCEPT
                 ![s].pos = pos,
                 ![s].size = IF pc' = "dos" /\ pos > sft[s].size
                            THEN pos ELSE sft[s].size]

WriteLoop ==
    LET s == call.s
        block == MinOf(call.todo, MaxData)
    IN
    /\ pc = "write"
    /\ \/ /\ Retry
          /\ \/ UNCHANGED host
             \/ up /\ \E n \in 1..block : Stored(s, n)
          /\ UNCHANGED odd
       \/ /\ Refused /\ Leave(TRUE) /\ Extend(s) /\ UNCHANGED host
          /\ odd' = TRUE
       \/ \E n \in 0..block :
            /\ up
            /\ Stored(s, n)
            /\ IF n = 0
               THEN Leave(FALSE) /\ Extend(s) /\ odd' = TRUE
               ELSE /\ WriteAll(s, n) /\ UNCHANGED reg
                    /\ odd' = (odd \/ sft[s].pos + n >= Dword)
            /\ UNCHANGED fails
    /\ UNCHANGED <<up, others>>

-----------------------------------------------------------------------------
(* The environment.                                                        *)

\* LSEEK: DOS sets the position in the SFT, to whatever the program likes.
DosSeek(s, p) ==
    /\ pc = "dos"
    /\ sft' = [sft EXCEPT ![s].pos = p]
    /\ UNCHANGED <<host, up, pc, call, reg, fails, others, odd>>

\* Somebody else on the host appends to the file or cuts it.
HostResize ==
    /\ others < MaxOther
    /\ others' = others + 1
    /\ host' \in 0..MaxSize
    /\ UNCHANGED <<sft, up, pc, call, reg, fails, odd>>

ChannelBreaks ==
    /\ MayBreak /\ up
    /\ up' = FALSE
    /\ UNCHANGED <<sft, host, pc, call, reg, fails, others, odd>>

Next ==
    \/ \E s \in Sfts, n \in 0..Word-1 : ReadFile(s, n) \/ WriteFile(s, n)
    \/ ReadLoop
    \/ WriteLoop
    \/ \E s \in Sfts, p \in 0..Dword-1 : DosSeek(s, p)
    \/ HostResize
    \/ ChannelBreaks

Spec == Init /\ [][Next]_vars

\* The processor goes on with the loop it is in, and a channel that works
\* now and then lets the host answer.
LiveSpec == Spec /\ WF_vars(ReadLoop) /\ WF_vars(WriteLoop)

-----------------------------------------------------------------------------
(* Properties.                                                             *)

Returns(op) == pc = op /\ pc' = "dos"

\* However the host cuts a call into pieces and whichever RPCs fail, the CX a
\* call returns is the number of bytes moved to or from the program's buffer,
\* and the file position has advanced by as much (ReadFile, WriteFile).
ReturnsCount ==
    [][\A op \in {"read", "write"} : Returns(op) =>
         /\ reg'.cx = call'.off
         /\ sft'[call.s].pos = (call.start + call'.off) % Dword]_vars

\* A read that starts inside the file, as its entry knows the file, brings no
\* more than was asked for and nothing beyond that size, even when the file
\* has meanwhile grown on the host (the clamp of ReadFile).
NoOverrun ==
    LET inside == call.start <= call.size /\ call.start + call.want < Dword
    IN  call.op = "read" /\ inside =>
            call.off <= call.want /\ call.start + call.off <= call.size

\* Words keep their width, and reads keep to the program's buffer and to the
\* file, whatever wraps on the way (the sums and differences of ReadFile).
WithinBounds == TypeOK /\ NoOverrun

\* A call that reports success stopped short only because there was nothing
\* more to read, or because the host stored nothing.
SuccessIsComplete ==
    [][/\ Returns("read") /\ ~reg'.cf =>
            call'.todo = 0 \/ host <= sft[call.s].pos
       /\ Returns("write") /\ ~reg'.cf =>
            call'.todo = 0 \/ host' = host]_vars

Alone == Sfts = {call.s} /\ others = 0

\* While nobody else changes the file, the size in the SFT is the size of the
\* file as long as every RPC of a write was carried out; and it never hides
\* data that is in the file as long as no RPC failed.  (If the RPC of a
\* truncating write fails, redir.c:459 takes the new size as set.)
SizeInStep ==
    pc = "dos" /\ Alone =>
        LET size == sft[call.s].size IN
        /\ ~odd => size = Capped(host)
        /\ fails = 0 /\ up /\ MaxSize < Dword => host <= size

\* A call does not go on for ever, unless the channel breaks for good: a
\* failed RPC is repeated without end (redir.c:393, 473).
CallsReturn == pc # "dos" ~> pc = "dos" \/ ~up

\* redir.c:375: "Can't read past the EOF": a read brings no more bytes than
\* the program has room for.  (Not so after a seek beyond the end: the
\* difference wraps, and if the file has grown the buffer is overrun.)
ReadFitsBuffer == call.op = "read" => call.off <= call.want
=============================================================================
