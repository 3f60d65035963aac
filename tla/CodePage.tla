------------------------------ MODULE CodePage ------------------------------
(***************************************************************************)
(* The conversion table of a copy follows the active code page             *)
(* (LoadUnicodeConversionTable of main.c, and vmchcpd.c).  The table is    *)
(* loaded while VMSMOUNT installs; a device driver, VMCHCPD$, is then told *)
(* where it is, and loads it anew when the user changes the page.  The     *)
(* driver stays when the copy goes, and it looks for a copy at the place   *)
(* it was told of before it writes there.                                  *)
(*                                                                         *)
(* The name of a copy stands for the segment the copy is loaded in.        *)
(***************************************************************************)
EXTENDS Install

CONSTANTS
    Pages,      \* the code pages that have a table
    Default,    \* the table VMSMOUNT comes with: code page 437
    Mixed,      \* a table that was read in part
    NoTable     \* there is no copy at this place

VARIABLES
    page,       \* the active code page
    table,      \* per copy: the page of its conversion table
    ptr,        \* the driver: the copy it was told of
    told        \* history: the copies whose user saw the last load fail

tableVars == <<page, table, ptr, told>>

Tables == Pages \cup {Default, Mixed, NoTable}

CodePageTypeOK ==
    /\ TypeOK
    /\ page \in Pages
    /\ table \in [Copies -> Tables]
    /\ ptr \in Copies \cup {NoCopy}
    /\ told \subseteq Copies

TableInit ==
    /\ Init
    /\ page \in Pages
    /\ table = [c \in Copies |-> NoTable]
    /\ ptr = NoCopy
    /\ told = {}

-----------------------------------------------------------------------------
(* main, before the session begins.                                        *)

\* ioctl_write and, in the driver, IOCTLOutput and CmdSetNls: the pointer is
\* stored; or the driver is not there, or the path is too long for it.
SetNls(c) == ptr' = c \/ UNCHANGED ptr

\* The table of the active page, which is then sent; or the file is missing
\* or is no table, and the user is warned.
LoadUnicodeConversionTable(c) ==
    \/ /\ table' = [table EXCEPT ![c] = page]
       /\ told' = told \ {c}
       /\ SetNls(c)
    \/ /\ table' = [table EXCEPT ![c] = Default]
       /\ told' = told \cup {c}
       /\ UNCHANGED ptr

\* main up to VMAuxBeginSession.
Load(c, d) ==
    /\ StartInstall(c, d)
    /\ IF Ours = {} THEN LoadUnicodeConversionTable(c)
       ELSE UNCHANGED <<table, ptr, told>>
    /\ UNCHANGED page

\* The memory of a copy that is gone is not looked at.
Forget ==
    LET here == loaded' \cup {run'.copy, run'.target}
    IN /\ table' = [c \in Copies |-> IF c \in here THEN table[c] ELSE NoTable]
       /\ told' = told \cap here

\* SetBufferAndActualBufferSize or the test of the drive fails (ERR_BUFFER,
\* ERR_BADDRV), or the user interrupts a message.
Refuse ==
    /\ At("rpci") /\ Exit
    /\ prev' = Forgotten(run.copy)
    /\ UNCHANGED <<vec, hooks, loaded, cds, open, torn, left, fails, breaks>>
    /\ Forget /\ UNCHANGED <<page, ptr>>

-----------------------------------------------------------------------------
(* The driver.                                                             *)

\* Fault: any copy will do.
FaultIsVMRedirectorInstalled == Ours # {}

\* Fault: the scan starts one drive late.
FaultScan == Ours # {} /\ Found = ptr /\ cds[FirstAuto].sig = NoCopy

\* The copy that the scan finds is the one the driver was told of.
IsVMRedirectorInstalled == Ours # {} /\ Found = ptr

\* _read, into the table itself.
Read(p) == [table EXCEPT ![ptr] = p]

\* GenericIOCTL: with nobody to write to it is done; with a file that is
\* missing, not a table, or short, it returns an error.
LoadUnicodeTable(p) ==
    IF ptr = NoCopy \/ ~IsVMRedirectorInstalled THEN UNCHANGED <<table, told>>
    ELSE \/ table' = Read(p) /\ told' = told \ {ptr}
         \/ table' \in {table, Read(Mixed)} /\ told' = told \cup {ptr}

\* CHCP: DOS changes the page, and NLSFUNC calls the driver.
ChangePage(p) ==
    /\ Idle /\ p # page
    /\ page' = p
    /\ LoadUnicodeTable(p)
    /\ UNCHANGED <<vars, ptr>>

TableNext ==
    \/ \E c \in Copies : \E d \in Drives \cup {AnyDrive} : Load(c, d)
    \/ Refuse
    \/ Proceeds /\ Forget /\ UNCHANGED <<page, ptr>>
    \/ \E p \in Pages : ChangePage(p)

TableSpec == TableInit /\ [][TableNext]_<<vars, tableVars>>

-----------------------------------------------------------------------------
(* Properties.                                                             *)

\* The driver writes only to a copy that is in memory, though the pointer it
\* keeps outlives the copy, and another program may be where it points.
WritesLive == \A c \in Copies : table[c] # NoTable => c \in Present

\* CHCP is supported (readme.txt:96): the table of a resident copy that the
\* scan finds and the driver knows is that of the active page, unless the
\* user saw the last load fail.
TableFollows ==
    \A c \in Copies :
        /\ Idle /\ Ours # {} /\ Found = c
        /\ ptr = c /\ c \notin told
        => table[c] = page
=============================================================================
