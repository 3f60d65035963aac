------------------------------ MODULE SftTable ------------------------------
(***************************************************************************)
(* The life of an open file (redir.c: OpenOrCreateFile, WriteFile,         *)
(* _CloseFile, CloseFile, CloseAll).  DOS keeps a System File Table (SFT)  *)
(* and, per process, a job file table (JFT) of indices into it; the        *)
(* redirector fills an SFT entry when the host has opened the file and     *)
(* stores the host's handle in it.  DOS is not reentrant and an INT 2Fh    *)
(* runs with interrupts off, so a handler is one action; CloseAll and the  *)
(* loop in which DOS closes the handles of an ending process are walked    *)
(* entry by entry.                                                         *)
(*                                                                         *)
(* Every RPC to the host may be answered, be answered with an error        *)
(* status, or fail in the channel before ("lostreq") or after ("lostrep")  *)
(* the host has carried it out.                                            *)
(***************************************************************************)
EXTENDS Naturals, FiniteSets

CONSTANTS
    Sfts,       \* the entries of the DOS System File Table
    NoSft,      \* an unused JFT slot (0xFF)
    Handles,    \* the file handles the host deals out, again and again
    Files,      \* the files of the shared folder
    NoHandle,   \* the handle of an SFT entry that is not in use
    NoFile,     \* a host handle that is not open
    FirstSlot,  \* the JFT slots are FirstSlot .. JftSize-1: slots below 5
    JftSize,    \*   are the standard handles, which CloseAll skips
    MaxDepth,   \* bound: processes in a chain of EXECs
    MaxOther,   \* bound: handles duplicated or inherited, and entries of
                \*   drives that are not the redirector's
    MaxFail     \* bound: RPCs that fail in the channel

ASSUME SftAssumption ==
    /\ NoSft \notin Sfts
    /\ NoFile \notin Files
    /\ NoHandle \notin Handles
    /\ FirstSlot \in 0..5 /\ JftSize \in Nat
    /\ MaxDepth \in Nat \ {0}
    /\ MaxOther \in Nat /\ MaxFail \in Nat

Slots == FirstSlot .. (JftSize - 1)

\* Where a file's modification time came from: from the host (as found, or
\* after a write), from the DOS clock at close, or from the program, which
\* set it with INT 21h/5701h.
Times == {"host", "clock", "set"}

VARIABLES
    sft,        \* the System File Table
    jft,        \* the JFT of every process in the EXEC chain
    depth,      \* the current PSP
    pc,         \* "dos": a program runs; "closeall", "dosclose": it is ending
    idx,        \* the loop variable of CloseAll and of DOS's closing loop
    fileName1,  \* SDA.fileName1: the path of the last DOS call that had one
    hostOpen,   \* the file each host handle is open on
    mtime,      \* the modification time of each file on the host
    dups,       \* history: handles duplicated or inherited so far
    fails,      \* history: RPCs that failed in the channel so far
    foreign     \* history: CloseAll has closed an SFT of another drive

vars == <<sft, jft, depth, pc, idx, fileName1, hostOpen, mtime,
          dups, fails, foreign>>

\* handleCount; flags & 0x3F = driveNum; fileAttr & _A_RDONLY; SFT_FCLEAN;
\* SFT_FDATE; fileTime; handle.  "file" and "last" are history: the file
\* that was opened and the last thing that decides its time stamp.
SFT == [count : Nat, ours : BOOLEAN, rdonly : BOOLEAN, clean : BOOLEAN,
        fdate : BOOLEAN, time : Times, handle : Handles \cup {NoHandle},
        file : Files \cup {NoFile}, last : {"none", "write", "set"}]

\* Nothing reads an entry whose count is zero, so its fields are not kept.
Unused == [count |-> 0, ours |-> FALSE, rdonly |-> FALSE, clean |-> FALSE,
           fdate |-> FALSE, time |-> "host", handle |-> NoHandle,
           file |-> NoFile, last |-> "none"]

TypeOK ==
    /\ sft \in [Sfts -> SFT]
    /\ jft \in [1..MaxDepth -> [Slots -> Sfts \cup {NoSft}]]
    /\ depth \in 1..MaxDepth
    /\ pc \in {"dos", "closeall", "dosclose"}
    /\ idx \in Nat
    /\ fileName1 \in Files
    /\ hostOpen \in [Handles -> Files \cup {NoFile}]
    /\ mtime \in [Files -> Times]
    /\ dups \in Nat
    /\ fails \in Nat
    /\ foreign \in BOOLEAN

NoSlots == [i \in Slots |-> NoSft]

Init ==
    /\ sft = [s \in Sfts |-> Unused]
    /\ jft = [p \in 1..MaxDepth |-> NoSlots]
    /\ depth = 1
    /\ pc = "dos"
    /\ idx = 0
    /\ fileName1 \in Files
    /\ hostOpen = [h \in Handles |-> NoFile]
    /\ mtime = [f \in Files |-> "host"]
    /\ dups = 0
    /\ fails = 0
    /\ foreign = FALSE

-----------------------------------------------------------------------------
(* RPCs.  ExecuteRpc answers with a status or fails; the caller cannot see *)
(* whether the host carried out an RPC that failed.                        *)

Outcomes == {"ok", "status", "lostreq", "lostrep"}
Failed == {"lostreq", "lostrep"}
Executed == {"ok", "lostrep"}

\* n RPCs of this call fail in the channel.
CountFails(n) ==
    /\ fails + n <= MaxFail
    /\ fails' = fails + n

Lost(o) == IF o \in Failed THEN 1 ELSE 0

-----------------------------------------------------------------------------
(* OpenOrCreateFile, for slot i of the running program, SFT entry s and    *)
(* path f.  DOS picks the free entry and slot, and counts the handle only  *)
(* when the redirector reports success.                                    *)

Truncated(f, trunc) == IF trunc THEN [mtime EXCEPT ![f] = "host"] ELSE mtime

\* The host refuses, or never sees the request.
OpenRefused ==
    /\ \E o \in Outcomes \ Executed : CountFails(Lost(o))
    /\ UNCHANGED <<sft, jft, hostOpen, mtime>>

\* The host opens the file but the answer is lost: nobody knows h.  Or
\* GetAttr by handle then fails in the channel: the handler reports "not
\* ready" and forgets h.
OpenForgotten(f, h, trunc) ==
    /\ CountFails(1)
    /\ hostOpen' = [hostOpen EXCEPT ![h] = f]
    /\ mtime' = Truncated(f, trunc)
    /\ UNCHANGED <<sft, jft>>

\* Fault: h is not closed.
FaultOpenGivenUpNoClose(f, h, trunc) ==
    /\ hostOpen' = [hostOpen EXCEPT ![h] = f]
    /\ mtime' = Truncated(f, trunc)
    /\ UNCHANGED <<sft, jft, fails>>

\* GetAttr has an error status, or says this is a directory: h is closed.
OpenGivenUp(f, h, trunc) ==
    /\ \E o \in Outcomes \ {"status"} :
         /\ CountFails(Lost(o))
         /\ hostOpen' = IF o \in Executed THEN hostOpen
                                          ELSE [hostOpen EXCEPT ![h] = f]
    /\ mtime' = Truncated(f, trunc)
    /\ UNCHANGED <<sft, jft>>

\* Fault: the time is not taken over from the answer to GetAttr.
FaultOpenDoneNoTime(i, s, f, h, trunc) ==
    /\ hostOpen' = [hostOpen EXCEPT ![h] = f]
    /\ mtime' = Truncated(f, trunc)
    /\ \E ro \in BOOLEAN :
         sft' = [sft EXCEPT ![s] =
                   [count |-> 1, ours |-> TRUE, rdonly |-> ro, clean |-> TRUE,
                    fdate |-> FALSE, time |-> "unset", handle |-> h,
                    file |-> f, last |-> "none"]]
    /\ jft' = [jft EXCEPT ![depth][i] = s]
    /\ UNCHANGED fails

\* Fault: the handle is read from the buffer after GetAttr has reused it.
FaultOpenDoneStaleReply(i, s, f, h, trunc) ==
    /\ hostOpen' = [hostOpen EXCEPT ![h] = f]
    /\ mtime' = Truncated(f, trunc)
    /\ \E ro \in BOOLEAN, g \in Handles :
         sft' = [sft EXCEPT ![s] =
                   [count |-> 1, ours |-> TRUE, rdonly |-> ro, clean |-> TRUE,
                    fdate |-> FALSE, time |-> mtime'[f], handle |-> g,
                    file |-> f, last |-> "none"]]
    /\ jft' = [jft EXCEPT ![depth][i] = s]
    /\ UNCHANGED fails

OpenDone(i, s, f, h, trunc) ==
    /\ hostOpen' = [hostOpen EXCEPT ![h] = f]
    /\ mtime' = Truncated(f, trunc)
    /\ \E ro \in BOOLEAN :
         sft' = [sft EXCEPT ![s] =
                   [count |-> 1, ours |-> TRUE, rdonly |-> ro, clean |-> TRUE,
                    fdate |-> FALSE, time |-> mtime'[f], handle |-> h,
                    file |-> f, last |-> "none"]]
    /\ jft' = [jft EXCEPT ![depth][i] = s]
    /\ UNCHANGED fails

OpenOrCreateFile(i, s, f, trunc) ==
    /\ pc = "dos"
    /\ jft[depth][i] = NoSft
    /\ sft[s].count = 0
    /\ fileName1' = f
    /\ \/ OpenRefused
       \/ \E h \in Handles :
            /\ hostOpen[h] = NoFile
            /\ \/ OpenForgotten(f, h, trunc)
               \/ OpenGivenUp(f, h, trunc)
               \/ OpenDone(i, s, f, h, trunc)
    /\ UNCHANGED <<depth, pc, idx, dups, foreign>>

OpenFile(i, s, f) == OpenOrCreateFile(i, s, f, FALSE)

CreateFile(i, s, f) == OpenOrCreateFile(i, s, f, TRUE)

SpecialOpen(i, s, f) ==
    \E trunc \in BOOLEAN : OpenOrCreateFile(i, s, f, trunc)

-----------------------------------------------------------------------------
(* Writing, and setting the time stamp.                                    *)

\* idx_to_sft: an entry whose count is zero is not open.
Counted(s) == s # NoSft /\ sft[s].count > 0

\* Slot i of the running program can be used: DOS rejects it otherwise,
\* before it calls the redirector.
Opened(i) == pc = "dos" /\ Counted(jft[depth][i])

\* Only the effect of a write on the flags and the time stamp matters here;
\* module Transfer has the data and the open mode.  The flags change before
\* the host is asked.
WriteFile(i) ==
    LET s == jft[depth][i] IN
    /\ Opened(i)
    /\ sft[s].ours
    /\ sft' = [sft EXCEPT ![s].clean = FALSE, ![s].fdate = FALSE,
                          ![s].last = "write"]
    /\ \E o \in Outcomes :
         /\ CountFails(Lost(o))
         /\ LET f == hostOpen[sft[s].handle] IN
            mtime' = IF o \in Executed /\ f # NoFile
                     THEN [mtime EXCEPT ![f] = "host"] ELSE mtime
    /\ UNCHANGED <<jft, depth, pc, idx, fileName1, hostOpen, dups, foreign>>

\* DOS sets the date in the SFT without calling the redirector.  MS-DOS also
\* clears the "clean" bit, FreeDOS does not.
DosSetDate(i) ==
    LET s == jft[depth][i] IN
    /\ Opened(i)
    /\ sft[s].ours
    /\ \E c \in {sft[s].clean, FALSE} :
         sft' = [sft EXCEPT ![s].clean = c, ![s].fdate = TRUE,
                            ![s].time = "set", ![s].last = "set"]
    /\ UNCHANGED <<jft, depth, pc, idx, fileName1, hostOpen, mtime, dups,
                   fails, foreign>>

-----------------------------------------------------------------------------
(* Closing.                                                                *)

\* Fault: a date that was set after a write is forgotten.
FaultStampTimeIgnoresFDate(s) ==
    IF ~sft[s].clean THEN "clock" ELSE sft[s].time

\* The stamp that _CloseFile writes: the time from the clock when the file
\* was written to and no date was set since.
StampTime(s) ==
    IF ~sft[s].clean /\ ~sft[s].fdate THEN "clock" ELSE sft[s].time

Stamps(s) == ~sft[s].clean \/ sft[s].fdate

\* The file SetAttr reaches: by handle, or, for a read-only file, by the
\* path that is in the SDA at that moment.
StampTarget(s) ==
    IF sft[s].rdonly THEN fileName1 ELSE hostOpen[sft[s].handle]

\* Fault: the count stays as it is.
FaultReleaseNoCount(s, t) == [sft EXCEPT ![s].time = t]

\* One handle less on the entry, which is then stamped with time t.
Release(s, t) ==
    IF sft[s].count > 1
    THEN [sft EXCEPT ![s].count = sft[s].count - 1, ![s].time = t]
    ELSE [sft EXCEPT ![s] = Unused]

\* Fault: when the stamp cannot be set, the handle is not closed.
Fault_CloseFileGivesUp(s) ==
    /\ \E set, close \in Outcomes :
         /\ ~Stamps(s) => set = "ok"
         /\ close = "status" => hostOpen[sft[s].handle] = NoFile
         /\ CountFails(Lost(set) + Lost(close))
         /\ hostOpen' = IF set = "ok" /\ close \in Executed
                        THEN [hostOpen EXCEPT ![sft[s].handle] = NoFile]
                        ELSE hostOpen
    /\ sft' = Release(s, StampTime(s))
    /\ UNCHANGED mtime

\* _CloseFile: stamp the file if needed, decrement the count, and tell the
\* host to close the handle, whatever the count is now.  The host answers a
\* close with an error status only if the handle is not open.
_CloseFile(s) ==
    /\ \E set, close \in Outcomes :
         /\ ~Stamps(s) => set = "ok"
         /\ close = "status" => hostOpen[sft[s].handle] = NoFile
         /\ CountFails(Lost(set) + Lost(close))
         /\ mtime' = IF /\ Stamps(s) /\ set \in Executed
                        /\ StampTarget(s) # NoFile
                     THEN [mtime EXCEPT ![StampTarget(s)] = StampTime(s)]
                     ELSE mtime
         /\ hostOpen' = IF close \in Executed
                        THEN [hostOpen EXCEPT ![sft[s].handle] = NoFile]
                        ELSE hostOpen
    /\ sft' = Release(s, StampTime(s))

\* The program closes handle i: DOS frees the slot and leaves the count of a
\* network SFT to the redirector.
CloseFile(i) ==
    /\ Opened(i)
    /\ sft[jft[depth][i]].ours
    /\ _CloseFile(jft[depth][i])
    /\ jft' = [jft EXCEPT ![depth][i] = NoSft]
    /\ UNCHANGED <<depth, pc, idx, fileName1, dups, foreign>>

\* CloseAll, the loop body: every entry with a count, from slot 5 on, of
\* whatever drive.
CloseAllStep ==
    LET s == jft[depth][idx] IN
    /\ pc = "closeall"
    /\ idx < JftSize
    /\ idx' = idx + 1
    /\ IF Counted(s)
       THEN /\ _CloseFile(s)
            /\ foreign' = (foreign \/ ~sft[s].ours)
       ELSE UNCHANGED <<sft, hostOpen, mtime, fails, foreign>>
    /\ UNCHANGED <<jft, depth, pc, fileName1, dups>>

CloseAllDone ==
    /\ pc = "closeall"
    /\ idx >= JftSize
    /\ pc' = "dosclose"
    /\ idx' = FirstSlot
    /\ UNCHANGED <<sft, jft, depth, fileName1, hostOpen, mtime, dups, fails,
                   foreign>>

-----------------------------------------------------------------------------
(* What DOS does around the redirector.                                    *)

\* What is duplicated, or open on another drive, or was closed there by
\* CloseAll.
Others ==
    dups + Cardinality({s \in Sfts : sft[s].count > 0 /\ ~sft[s].ours})
         + (IF foreign THEN 1 ELSE 0)

\* An entry of another drive; the bytes the redirector would read as a host
\* handle belong to the local file system and can be anything.
DosLocalOpen(i, s) ==
    /\ pc = "dos"
    /\ jft[depth][i] = NoSft
    /\ sft[s].count = 0
    /\ Others < MaxOther
    /\ \E h \in Handles, c \in BOOLEAN :
         sft' = [sft EXCEPT ![s] =
                   [Unused EXCEPT !.count = 1, !.clean = c, !.handle = h]]
    /\ jft' = [jft EXCEPT ![depth][i] = s]
    /\ UNCHANGED <<depth, pc, idx, fileName1, hostOpen, mtime, dups, fails,
                   foreign>>

DosLocalClose(i) ==
    LET s == jft[depth][i] IN
    /\ Opened(i)
    /\ ~sft[s].ours
    /\ sft' = Release(s, sft[s].time)
    /\ jft' = [jft EXCEPT ![depth][i] = NoSft]
    /\ UNCHANGED <<depth, pc, idx, fileName1, hostOpen, mtime, dups, fails,
                   foreign>>

\* Any other call with a path, on any drive, leaves its path in the SDA.
DosPathCall(f) ==
    /\ pc = "dos"
    /\ fileName1' = f
    /\ UNCHANGED <<sft, jft, depth, pc, idx, hostOpen, mtime, dups, fails,
                   foreign>>

DosDup(i, j) ==
    /\ Opened(i)
    /\ jft[depth][j] = NoSft
    /\ Others < MaxOther
    /\ dups' = dups + 1
    /\ LET s == jft[depth][i] IN
       sft' = [sft EXCEPT ![s].count = sft[s].count + 1]
    /\ jft' = [jft EXCEPT ![depth][j] = jft[depth][i]]
    /\ UNCHANGED <<depth, pc, idx, fileName1, hostOpen, mtime, fails, foreign>>

\* EXEC: the child inherits the slots of its parent.
DosExec ==
    LET uses(s) == {i \in Slots : jft[depth][i] = s}
        inherited == Cardinality({i \in Slots : jft[depth][i] # NoSft})
    IN
    /\ pc = "dos"
    /\ depth < MaxDepth
    /\ Others + inherited <= MaxOther
    /\ dups' = dups + inherited
    /\ depth' = depth + 1
    /\ jft' = [jft EXCEPT ![depth + 1] = jft[depth]]
    /\ sft' = [s \in Sfts |->
                 [sft[s] EXCEPT !.count = sft[s].count + Cardinality(uses(s))]]
    /\ UNCHANGED <<pc, idx, fileName1, hostOpen, mtime, fails, foreign>>

\* A program ends.  "Close all" reaches the redirector only if the current
\* drive is its own (IsCallForUs looks at the current CDS).
DosExit ==
    /\ pc = "dos"
    /\ depth > 1
    /\ \/ pc' = "closeall" /\ idx' = 5
       \/ pc' = "dosclose" /\ idx' = FirstSlot
    /\ UNCHANGED <<sft, jft, depth, fileName1, hostOpen, mtime, dups, fails,
                   foreign>>

\* Then DOS closes the handles one by one; an entry whose count is already
\* zero is an invalid handle to it.
DosCloseStep ==
    LET s == jft[depth][idx] IN
    /\ pc = "dosclose"
    /\ idx < JftSize
    /\ idx' = idx + 1
    /\ \/ /\ ~Counted(s)
          /\ UNCHANGED <<sft, hostOpen, mtime, fails>>
       \/ /\ Counted(s) /\ sft[s].ours
          /\ _CloseFile(s)
       \/ /\ Counted(s) /\ ~sft[s].ours
          /\ sft' = Release(s, sft[s].time)
          /\ UNCHANGED <<hostOpen, mtime, fails>>
    /\ UNCHANGED <<jft, depth, pc, fileName1, dups, foreign>>

DosExitDone ==
    /\ pc = "dosclose"
    /\ idx >= JftSize
    /\ pc' = "dos"
    /\ idx' = 0
    /\ depth' = depth - 1
    /\ jft' = [jft EXCEPT ![depth] = NoSlots]
    /\ UNCHANGED <<sft, fileName1, hostOpen, mtime, dups, fails, foreign>>

-----------------------------------------------------------------------------
Next ==
    \/ \E i \in Slots, s \in Sfts :
         \/ DosLocalOpen(i, s)
         \/ \E f \in Files : \/ OpenFile(i, s, f)
                             \/ CreateFile(i, s, f)
                             \/ SpecialOpen(i, s, f)
    \/ \E i \in Slots : \/ WriteFile(i)
                        \/ DosSetDate(i)
                        \/ CloseFile(i)
                        \/ DosLocalClose(i)
    \/ \E i, j \in Slots : DosDup(i, j)
    \/ \E f \in Files : DosPathCall(f)
    \/ DosExec
    \/ DosExit
    \/ CloseAllStep
    \/ CloseAllDone
    \/ DosCloseStep
    \/ DosExitDone

Spec == Init /\ [][Next]_vars

-----------------------------------------------------------------------------
(* Properties.                                                             *)

\* An entry of the redirector that a handle may name.
Live(s) == sft[s].ours /\ sft[s].count > 0

\* No handle was duplicated or inherited, and CloseAll met no SFT of another
\* drive: then each entry stands for exactly one handle.
Exclusive == dups = 0 /\ ~foreign

\* While entries are not shared, a live entry holds a host handle that is
\* open on the file it was opened on, and no two entries hold the same one,
\* although the host reuses the numbers of closed handles and RPCs fail
\* (OpenOrCreateFile and _CloseFile keep SFT and host in step).
Owned ==
    Exclusive =>
        \A s \in Sfts : Live(s) =>
            /\ hostOpen[sft[s].handle] = sft[s].file
            /\ \A t \in Sfts :
                 Live(t) /\ sft[t].handle = sft[s].handle => t = s

Orphans == {h \in Handles : /\ hostOpen[h] # NoFile
                            /\ \A s \in Sfts : Live(s) => sft[s].handle # h}

\* If no RPC has failed, every handle open on the host is held by a live
\* entry: no path through the handlers forgets to close one, even when
\* entries are shared and a handle is closed more than once.
NoLeak == fails = 0 => Orphans = {}

\* A failing RPC costs the host at most one handle.
LeakBound == Cardinality(Orphans) <= fails

Closing(s) == Live(s) /\ sft'[s].count < sft[s].count

\* Closing an entry that is not shared, of a file that is not read-only,
\* stamps no other file, and that one only with the clock if it was written
\* to since its date was last set, only with the date if that was set since
\* the last write, and not at all if neither was done.  The host may refuse
\* the stamp, or not get to see it.  (_CloseFile, WriteFile)
StampIsLast ==
    [][Exclusive' =>
         \A s \in Sfts : Closing(s) /\ ~sft[s].rdonly =>
            \/ mtime' = mtime
            \/ /\ sft[s].last # "none"
               /\ mtime' = [mtime EXCEPT ![sft[s].file] =
                              IF sft[s].last = "write" THEN "clock" ELSE "set"]
      ]_vars

\* The file that handle i of process p reaches on the host.
Denoted(p, i) ==
    IF p <= depth /\ jft[p][i] # NoSft /\ Live(jft[p][i])
    THEN hostOpen[sft[jft[p][i]].handle]
    ELSE NoFile

HT == INSTANCE HandleTable WITH
        open <- [p \in 1..MaxDepth |-> [i \in Slots |-> Denoted(p, i)]]

\* Up to the first handle that is duplicated or inherited, the handlers give
\* each program the handle table HandleTable promises: through failing RPCs,
\* reused host handles and SFT entries, and programs that end with files
\* open, a handle denotes its own file until closed.
HandlesDenoteFiles ==
    HT!Init /\ [][dups' = 0 => [HT!Next]_(HT!vars)]_vars

\* redir.c:940: an entry with a count is open.  (Not so once a handle is
\* duplicated: _CloseFile closes the host handle at the first close.)
CountedIsOpen ==
    \A s \in Sfts : Live(s) => hostOpen[sft[s].handle] # NoFile

\* redir.c:313: closing a file sets that file's modification time.  (Not so
\* for a read-only file: the path in the SDA may be another file's by then.)
CloseStampsOwnFile ==
    [][\A s \in Sfts : Closing(s) =>
          \A f \in Files : mtime'[f] # mtime[f] => f = sft[s].file]_vars
=============================================================================
