# VMSMOUNT in TLA+

VMSMOUNT is a DOS network redirector: a resident program that hooks INT 2Fh
and makes a VMware shared folder look like a DOS drive.  Every DOS call on that
drive becomes one or more RPCs to the host through the VMware backdoor.  This
directory holds models of its core, what TLC checks about them and what TLAPS
proves about them.  All line numbers are those of the sources in `src/`.

## The system

| Component | Source | State | Operations |
|---|---|---|---|
| Open files | `redir.c` 296-344, 626-721, 907-972, 1141; `vmshf.c` | the SFT entries DOS lends to the redirector (count, flags, attribute, time, host handle), the path in the SDA, the handles open on the host | OpenFile, CreateFile, SpecialOpen, CloseFile, CloseAll, flags in WriteFile |
| Reading and writing | `redir.c` 355-502; `vmshf.c` 178-275, 505 | file position and size in the SFT, `r->w.cx`, carry and error code | ReadFile, WriteFile, truncation |
| Directory searches | `redir.c` 723-903, 1005-1139; `vmshf.c` 285-429 | the SDB in the SDA and in the programs' DTAs, directory handles on the host | FindFirst, FindNext, DeleteFile, RenameFile |
| Calls on a path | `redir.c` 197-294, 518-721, 907-946; `vmshf.c` | the current directory in the CDS | RmDir, MkDir, ChDir, attributes, disk space, the request of an open |
| Long names | `lfn.c` | `longFileName1`, a directory handle on the host | LfnGetTrueLongName, FindRealName, hashing, mangling, matching |
| Dispatcher | `redir.c` 1150-1338 | `r`, the stack, the drive number | IsCallForUs, dispatch table |
| RPC transport | `vmtool.c`, `vmshf.c` 64-101 | the register block `r`, the shared buffer, the open channel | send, receive length, receive data |
| Tools daemon | `toolsd.c` | `msg`, `ticks` | one step per timer tick |
| Installation | `main.c`, `vmaux.c`, `endtext.c` | interrupt vectors, CDS, channels, resident memory | install, uninstall |
| Code page driver | `vmchcpd/` | a pointer into the resident redirector, its conversion table | IOCTL "set NLS", loading a table at CHCP |
| Conversions | `unicode.c`, `vmdos.c` | none | characters, names, times, attributes, error codes |

How they interact.  DOS calls the INT 2Fh handler with its own structures
(SFT, SDA, CDS, DTA) in place; a handler reads and changes them, and sends
requests to the host by filling the shared buffer and calling `ExecuteRpc`.
DOS is not reentrant and an interrupt handler starts with interrupts off, so a
handler is not interrupted by another; the exceptions are the nested DOS calls
for the clock, during which the timer tick runs the tools daemon.  What happens
*between* handlers is up to DOS and the programs: handles are duplicated and
inherited, processes nest and end with files open, several searches go on at
once, other programs and the host change the same files.  And an RPC can fail
before or after the host has carried it out, which the caller cannot tell.

What makes a component correct:

- *Open files*: a live SFT entry holds a host handle of its own, open on the
  file it was opened on; no handle stays open on the host for nobody; closing
  stamps that file, with the right time.
- *Reading and writing*: what is reported is what was moved; nothing is read
  beyond the size; the size follows the writes; a call returns.
- *Searches*: each search reports every matching file once, whatever is done
  between its steps; directory handles are not mixed up and not lost; deleting
  and renaming touch what matches and report what they did.
- *Calls on a path*: the short name of a listing reaches the file that was
  listed, if no other entry has the same; a call says what it did; the current
  directory is one; what the host lists does not grow beyond the buffer, no
  directory stays open.
- *Transport and daemon*: an answer belongs to the last request; a reply is sent
  only for a command that was received.
- *Installation*: uninstalling restores what was there; a second copy is
  refused; channels are not lost.
- *Code page driver*: it writes into a copy that is in memory, or not at all; the
  table is that of the active page, or the user was told.
- *Conversions*: dates are those of the calendar and come back as they went; a
  name that cannot come back is mangled; an open does what its flags mean.

## Modules

| Module | What it is |
|---|---|
| `HandleTable` | abstract specification: the file handles a program is promised |
| `SftTable` | open files, implements `HandleTable` until an entry is shared |
| `Transfer` | reading and writing |
| `DirSearch` | searches, deleting and renaming by pattern |
| `DosTypes` | operators of vmdos.c: attributes, open actions, error codes, times |
| `Names` | operators of unicode.c, lfn.c and vmdos.c: names byte by byte |
| `PathCalls` | calls on a path, and the lookup of its long names before each |
| `Rpc` | abstract specification: what callers take `ExecuteRpc` for |
| `Backdoor` | `ExecuteRpc` on the RPCI channel, implements `Rpc` |
| `Toolsd` | the tools daemon on the TCLO channel |
| `Resident` | `Backdoor` and `Toolsd` side by side, as they are in memory |
| `Install` | installing and uninstalling among other resident programs |
| `CodePage` | extends `Install` with the conversion tables and VMCHCPD.SYS |
| `MCSftTable`, `MCTransfer`, `MCDirSearch`, `MCPathCalls`, `MCInstall`, `MCCodePage` | instances for TLC |
| `SftTableProofs` | theorems about `SftTable`, one of them that it implements `HandleTable` |
| `TransferProofs` | theorems about `Transfer` |
| `DirSearchProofs` | theorems about `DirSearch` |
| `NamesProofs` | theorems about `Names`: names come back |
| `PathCallsProofs` | extends it: theorems about `PathCalls`, and the calendar of `DosTypes` |
| `ResidentProofs` | theorems about `Resident` |
| `CodePageProofs` | theorems about `CodePage`: types, and what the driver writes to |
| `InstallProofs` | extends it: chains, channels, drives and tables |

Operators called `Fault...` stand next to a definition and are that definition
with one mistake in it.  No specification uses them: they serve to see that each
property is able to fail, by putting them in the place of the definition.

### SftTable

`sft` is the System File Table, `jft` the job file tables of the processes in
the EXEC chain (`depth` is the running one), `hostOpen` and `mtime` the host's
side, `fileName1` the path in the SDA.  An entry keeps `handleCount`, whether its
drive is the redirector's, the read-only attribute, the bits `SFT_FCLEAN` and
`SFT_FDATE`, where its time came from, and the host handle; `file` and `last` are
history.  A handler is one action, since nothing can come in between; `CloseAll`
(redir.c:948) and the loop in which DOS closes the handles of an ending process
go entry by entry.  Each RPC of a handler has one of four outcomes: answered,
answered with an error status, request lost, answer lost.

Actions whose names start with `Dos` are DOS: duplicating, EXEC, exit, setting a
date, calls on other drives.  They are modelled from how the redirector depends
on them (it decrements the count at each close, skips slots below 5 in
`CloseAll`, takes an entry with count zero as not open).  What they add to the work
of the redirector, duplicates, entries of another drive and such an entry closed by
`CloseAll`, has one bound (`Others` and `MaxOther`).

### Transfer

One file, open through the entries `Sfts`.  Entry into a call, each RPC and the
return are steps, because the host serves others in between.  `call` is the call
being served, `reg` what the program gets back.  The size in the entry is set at
open, by truncation and at the end of a write, as in the code; words of 16 and 32
bits are `Word` and `Dword` values wide and wrap.  Seeks are done by DOS without
the redirector.  `odd` notes that a call went in a way after which the size need
not be exact (a refused or failed write, a position that wrapped).

### DirSearch

`search` is what the host lists under each directory handle, fixed when the
search is opened (`DeleteFile` counts on this: it goes on with the next number
after deleting an entry).  `dta` is what DOS keeps for a program between two
calls, `sdb` what the redirector sees in the SDA.  The loops over entries are
steps of their own: `_FindNext` and `ReadDir` for redir.c:759, `DeleteOne` and
`RenameOne` for the bodies of the other two loops, `FindDone` for what follows a
`_FindNext` in its callers.  After a failed RPC the code works on a name and
attributes it did not receive; the model lets them match the mask or not.
Programs drop a search at its first error.  Two things are history: `list`, kept
with a search, is what the host listed when it was opened, and `seen` what the
program of a search has been told since.

### DosTypes, Names and PathCalls

`DosTypes` and `Names` are the pure functions.  A name is the sequence of its
bytes, a code page the function `unicodeTbl` is, a hash two words of 16 bits; a
time is a day since 1601 and a second, since the code divides its 64 bits by the
length of those before it does anything else.  The loops over years and months in
FTimeToFatTime (vmdos.c:357) are the year and the month at which they stop
(`YearOf`, `MonthOf`).

`PathCalls` serves one call at a time.  `pc` is where it is: in
LfnGetTrueLongName (lfn.c:179), between or within directories, back from it
without a path (`null`), between the two RPCs of an open, or in DOS.  `LookupOpen`
goes to the next component with a tilde and opens the directory before it;
`LookupRead` is one turn of the loop in FindRealName (lfn.c:149), with every way
out of it; then the handler sends its requests, `SetFileAttrib` two with a lookup
each.  `dest` is `longFileName1`, `rest` what is still to be converted.  `Resolve`
and the `Host...` operators are the host, which matches names regardless of case,
as every request asks it to, but for shares.  An RPC may fail before or after the
host has done its part, or be refused.  `touched` is history: the paths that the
RPCs of a call have changed, so that what the call returns can be compared with all
it did and not only with its last step.

A *world* is a set of options, a tree of shared folders, and the calls programs
make there with the short names of a listing: `want` is the file they mean.  A
world makes one behaviour of the code possible that the others do not: long
names in mixed case, a current directory, a path that fills the buffer to the
last byte, hashes that collide, names that differ in their extensions or in case
only, no LFN, characters of two and three bytes, times east and west of
Greenwich.  `tables` are the conversions of the names of a world, computed once.
`PathCallsAssumption` says what every world has to be: each tree has a root that
is a directory, and what is in it is in a directory (`Tree`); a code page has 128
characters of 16 bits and a hash 2 to 6 digits (`Option`; main.c:1026); and DOS
asks neither to remove a root nor for an open that does nothing (`Asks`).
`NamesAssumption` says what the tables of DOS are: a capital is a byte, and neither
a space nor a dot, and a name has no spaces.  Names on the host are sequences of
bytes from 1 to 255, UTF-8 or not.

`clean` is history: the path means one path on the host (`Distinct`), and since the
call began no RPC of a lookup has failed and the host has not changed.  The path
means one where, on each step of the way, the short name stands for the name on the
host (`Meant`) and for no other entry (`Alone`), and the buffer has room.  A name
that is mangled is looked up (`Looked`) and may be any name.  A name that is not
goes to the host in capitals, and means the entry if that is `Regular`; what is
not `Regular` the code does not cope with, and its reader can see that: shares
with an extension in lower case (vmdos.c:139 does not mangle them, and shares are
not matched regardless of case), names that end in a dot, without LFN names with
letters beyond ASCII in lower case, and bytes that are no UTF-8 or are characters
from U+0800 to U+0FFF, see below.

### Rpc, Backdoor, Toolsd and Resident

`Backdoor` takes `ExecuteRpc` apart: `SendLen` and `SendDat` are VMRpcSend
(vmtool.c:39), `RecvLen` is VMRpcRecvLen and the check of the length
(vmshf.c:83), `RecvDat` and `RecvEnd` are VMRpcRecvDat, `Check` the test for
"1 " (vmshf.c:95).  Each can fail, before or after the host has done its part;
then the call is over and what was under way stays as it is: half a request, an
answer nobody fetched, a transfer without its end.  `buffer` is the one buffer
requests and answers share, `chan` what the host has to deliver.  The other
modules rely on `Rpc`: the outcomes of a call in `SftTable`, `Transfer` and
`DirSearch` (answered, refused, lost before or after it was carried out) are the
ones `Rpc` allows.

`Toolsd` is Int1cToolsd (toolsd.c:83): `Wait` is a tick on which nothing is due,
and the four parts of `Call` are the ways its three RPCs can end.  A command and
its reply share a buffer and a length (`msg`), which matters when a receive fails
after the length is known.  `host` is the host's side: it issues a command,
gives it until its delivery is complete, waits for the reply and may give up.

`Resident` puts the two together.  A tick comes only between two RPCs of the
redirector: DOS calls it with interrupts off, and only nested DOS calls for the
clock, between RPCs, may turn them on.  Both count their failed RPCs in `fails`.

Assumptions about the host, which the code makes and its text does not show:
SENDLEN starts over and drops an answer that was not fetched (every request has
id 0, so nothing else would tell an old answer from a new one); a TCLO command is
given again until RECVEND has come.

### Install

`run` is the copy of VMSMOUNT that is running, the step it is at and the copy it
works on, itself or, with /U, the one it found.  The steps are the ones after
which something outside the program has changed: a channel opened or closed, the
CDS, a vector, the memory kept or freed.  `vec` and `prev` are the chains of
handlers of INT 2Fh and 1Ch; other programs hook them in any order and leave as
VMSMOUNT does, if nobody has come after them.  A timer tick can come between any
two steps, so the properties about chains and channels speak of every state.
`Break` is Ctrl-C, which DOS looks at when VMSMOUNT writes a message (main.c:1133,
652, 1154, 595).  When it comes with the handlers in place, `torn`, the memory
they are in is freed, and the model stops.  What a copy saves in its PSP
(SetSignature) are the values its variables have, so `prev` stands for both.

`FirstAuto` is the first drive that is scanned, 4 in the code.  `LastDrive` is
taken to be above it, see below.

### CodePage

`CodePage` puts the conversion table next to that.  `Load` is main up to the
session: after `StartInstall` it loads the table of the active page and tells the
driver where it is (main.c, `LoadUnicodeConversionTable`); `Refuse` is an error
after that and before the session.  `ptr` is what the driver keeps, and goes on
keeping when the copy is gone: `Forget` takes the tables out of memory, not the
pointer.  `ChangePage` is CHCP: the driver scans for a copy as main does, compares
what it finds with its pointer, and reads the file straight into the table
(vmchcpd.c:199), which a short read leaves half new (`Mixed`).  The name of a copy
stands for the segment it is in, so a copy that is loaded again is at its old
place; of two copies in one segment the second is the one that the pointer means.

## What TLC checks

| Run | Bounds | What it shows |
|---|---|---|
| `OpenFiles` | 2 entries, 2 host handles, 2 files, slots 4-5, 2 processes, 1 failed RPC, and 1 duplicate or 1 entry of another drive (1,338,552 states) | `NoLeak`, `LeakBound`: sharing and closing in any order loses no host handle, and a failed RPC loses one at most; `Owned`, `StampIsLast`; `HandlesDenoteFiles`: `SftTable` implements `HandleTable` until an entry is shared |
| `SftDup` | one duplicate, no failures | violation, see below |
| `SftStamp` | no duplicates, no failures | violation, see below |
| `TransferAll` | counts 0-3, positions 0-5, blocks of 2, host size up to 5, 2 failed RPCs, 1 change by others, a channel that may break | `WithinBounds`, `SizeInStep`, `ReturnsCount`, `SuccessIsComplete`, `CallsReturn` |
| `TransferOverrun` | the same without failures, positions 0-7 | violation, see below |
| `DirFind` | 3 files, one read-only, a pattern for two of them and a plain name, 2 searching programs, 2 directory handles, 1 failed RPC, 1 search left open | order and completeness of searches, ownership and loss of directory handles (`SearchesKept`, `LeakBound`), what deleting and renaming change and report; `CallsAdvance`: the loops go on in the listing, past its end only while RPCs fail |
| `DirDelete` | 1 failed RPC | violation, see below |
| `Resident` | 2 call numbers, a heartbeat of 1 tick, 2 failed RPCs | `AnswersOwnRequest`: `Backdoor` implements `Rpc`; `AnswerGetsThrough`; `WrongBound`, `NoWaitInVain` and `Answered` for the daemon |
| `InstallAll` | 2 copies, 1 other program, 3 drives of which 2 are scanned, 1 channel that fails, 1 interruption, 2 code pages and the default one (709,312 states) | `CodePage`: chains of handlers, drives, channels and tables are in step with what is in memory |
| `InstallSecond` | the same without failures, interruptions and code pages | violation, see below |
| `PathCalls` | 11 worlds, a path of 40 bytes, 1 call (3 in the world of the current directory), 2 failed RPCs, 1 change on the host (24,863 states) | `ReachesListed`, `SaysWhatItDid`, `OpenMeans`, `CwdIsDir`, `LeakBound`, `ListedTime`, `CallsAdvance` |
| `OldDates` | the same | violation, see below |

Why the bounds are enough.  Two entries and two files make it possible to mix up
entries, files and handles; slots 4 and 5 are one that `CloseAll` skips and one
that it does not; two processes give a parent whose handles must survive its
child; the host reuses handles from the first close on.  One thing from outside is
enough to share an entry, or to have one that is not the redirector's among its
own; the two together only add entries that the other one leaves alone.  In `TransferAll` a count
needs up to two blocks, the sum of position and count wraps, and the size passes
both below and above the position.  In `DirFind` a pattern has two matches with
another file before, between or after them, so a search is interrupted between
two results, and the last file can be the one that fails.  Files, host handles,
SFT entries and DTAs are interchangeable in the safety runs; the liveness runs
use no symmetry.

In `Resident` two call numbers tell the current request from any older one, and
two failures let a second one hit what the first left behind; a heartbeat of one
tick has a tick that waits and one that calls.  In `InstallAll` two copies are one
to be found and one that finds it; the other program hooks either vector or both,
before, after or between them; two pages and a default tell a table that was
loaded from one that was not and from an old one.  In `PathCalls` two failures
let an RPC fail after a directory stayed open, and let both RPCs of a call fail; one
change on the host can fall between any two RPCs; three calls are enough to make a
directory current, remove it and ask for the free space in it.  MaxPath is small
so that a path of three components meets its end: the arithmetic with it is that
of the 1024 bytes of the code.

Fairness.  `Transfer!LiveSpec` assumes weak fairness of the loop steps only: the
processor executes the handler it is in.  That RPCs do not fail forever is the
bound `MaxFail`, stated in the property as "unless the channel breaks" (`up`).
`Resident!LiveSpec` assumes that an RPC that has begun goes on, and strong fairness
of the tick: the timer goes on ticking, and a tick that comes during a call of the
redirector stays pending until interrupts are on again.  Nothing is assumed of
DOS, programs or the host.  In `PathCalls` no fairness is needed: `CallsAdvance`
gives a measure that every step of a call makes grow (its `Place`) and a bound on it
that does not count failures, so a call cannot loop even if nothing is fair
(lfn.c:153 leaves its loop on an error).  In `DirSearch` the measure is bounded only
by RPCs that come through: `_FindNext` (redir.c:776) reads on after a failed RPC, also
beyond the last entry, so `CallsAdvance` says there that each step goes on and
that a read which is answered beyond the last entry ends the loop.  That a
channel works again is for the host to see to.

Deadlock is checked in every run but `PathCalls` and `OldDates`, where a behaviour
ends because the number of calls is bounded.

### Where code and claims disagree

- `SftDup` / `CountedIsOpen`: `_CloseFile` closes the host handle at every close
  (redir.c:332), not at the last one, so after closing a duplicated or inherited
  handle the other one denotes nothing.  This is why `Owned` and `StampIsLast` are
  about entries that are not shared and the refinement holds up to the first that is.
- `SftStamp` / `CloseStampsOwnFile`: for a read-only file the time is set by the
  path in the SDA (redir.c:322), which is another file's as soon as another call
  with a path was made.
- `TransferOverrun` / `ReadFitsBuffer`: beyond the end of the file the difference
  in redir.c:376 wraps.  `WithinBounds` holds for reads that start inside the file.
- `DirDelete` / `DeleteSucceeds`: the error of a failed delete is overwritten by
  "no more files" (redir.c:1033, 1044, 1046).
- `InstallSecond` / `SecondRefused`: a copy mounted with /L:C or /L:D is not found
  by the scan of main.c:497, so a second one installs itself and /U does not
  remove the first.  `OneCopyScanned` is what remains true.
- `OldDates` / `OldListedAs1980`: "DOS doesn't support dates before 1980/1/1"
  (vmdos.c:339), but vmdos.c:343 puts the days from 1601 to 1980 in place of those of
  the file instead of none, and they are counted from 1980: year 378, of which the
  seven bits of the date keep 122.  Such a file is listed as of 2102-12-29.
  `ListedTime` is about the times that DOS has.

Seen on the way, without a run of their own.

About files and searches: the error of a repeated RPC sticks although the call
succeeds (redir.c:395); a truncation whose RPC fails sets the size all the same
(redir.c:459), so `SizeInStep` is limited to calls without failed RPCs; a failed
RPC makes a search pass over a file in silence (redir.c:782), so `SearchInOrder`
and `EndMeansAll` are too; a broken channel holds the machine in redir.c:387 with
interrupts off; so does the loop of `_FindNext` (redir.c:776), which reads the next
entry for as long as RPCs fail, unless what an earlier one left in the buffer
matches; the handlers that lose a handle when an RPC fails (redir.c:657) or the
host refuses (redir.c:1039) lose one each, as `LeakBound` says.  `StampIsLast` says
what a stamp is when there is one: the host may refuse it, and nothing is said of a
close without one.

About paths: ChDir copies the path as the current directory although its RPC
failed (redir.c:266), which `CwdIsDir` allows for; GetDiskSpace does not look at
the status, and when LfnGetTrueLongName returns NULL the current directory of DOS
stays cut, and the space is that of the root (lfn.c:218); a directory that cannot
be read during a lookup is taken for one without the name, so that an open that
creates makes a file called, literally, `X~1` (lfn.c:144), which is why
`ReachesListed` speaks of `clean` searches; a short name is compared as far as it
goes, so `A~1` may find `A~12.TXT` first (lfn.c:168); a path that fills the buffer
to the last byte gets its NUL at index VMSHF_MAX_PATH, one byte behind the buffer
(lfn.c:166, 236; unicode.c:127), which `PathFits` allows for; SetFileAttrib tests
the directory bit in cx and sets the word on the stack (redir.c:604); an open that
the host has carried out and then refuses to describe (redir.c:661) returns
DOS_ACCESS although the file is new or empty now, the one error of `SaysWhatItDid`
that is not DOS_NOTREADY and after which the share is not what it was.

About names: a new name with a tilde and a character beyond ASCII, such as `É~1` for
MkDir, is not found by the lookup and goes into the path as it is, in the code page
of DOS and not in UTF-8 (lfn.c:182), so `Meant` asks for `short = name` there.  On a
host that is case sensitive, an extension in lower case is not mangled (vmdos.c:139
does so only for characters from 128 on; readme.txt:41-44 says otherwise):
`READ.me` is listed as `READ.ME`, and with `read.me` beside it the host, which is
asked to ignore case, may find either; `Alone` leaves such pairs out.

About conversions: LocalToUtf8 takes U+0800 to U+0FFF for two-byte characters
(unicode.c:89, where the comment above says they end at U+07FF); code page 874 of
`unitbls/`, Thai, lies there, and its names go to the host in bytes that are no
UTF-8.  From 2100-03-01 on dates are a day off, as the code says itself.

About installing: with LASTDRIVE below E: SetCDS (main.c:660) starts beyond the end
of the CDS array and writes there; the conventional protocol (vmtool.c:155) stores
one byte of each four it receives, so a channel without cookies never brings an
answer that is accepted, and `AnswerGetsThrough` is limited to the enhanced one.
For a copy on C: or D: CHCP reports success and loads nothing, since the driver's
scan starts at E: too (readme.txt:94-96), so `TableFollows` is about a copy that
the scan finds; and a file that ends early leaves a table of two pages.

## What is proved

Each theorem holds for every value of the constants that satisfies the
assumption of its module.  The bounds (`MaxFail`, `MaxOther`, `MaxChange` and so on)
may be any numbers, so a theorem is about any number of failures, duplicates and
calls.  A constant is assumed to be what the code needs, no more: names of
nothing (`NoHandle`, `NoCopy`) are not names of something.

A proof has the same parts everywhere.  Lemmas about the operators come first.
Then an inductive invariant, as a conjunction of named parts, is shown to hold in
the initial states and to survive each step, with one step of the proof for each
action; what an action disturbs is shown part by part.  The theorems follow from
it; temporal steps are at the end, everything before is about one step.

### Open files: `SftTableProofs`

- `TypeCorrect`: `Spec => []TypeOK`.  The loop variable needs `LoopOK` (where in
  which loop it can be) to index the JFT, so `TypeInv` is the two together.
- `LeaksBounded`: `Spec => []LeakBound`.  Host handles that no live entry holds are
  at most as many as failed RPCs.  It is inductive once they are known to be a
  finite set, entries shared or not: each handler adds one at most, and only when
  its RPC fails.
- `NothingLeaked`: `Spec => []NoLeak` is the case without failures.
- `HostOwned`: `Spec => []Owned`.  Not inductive as it stands: while entries are
  not shared, each must also be named by one JFT slot at most, or closing it
  through one slot would disturb another; `OwnedInv` adds that.
- `StampCorrect`: `Spec => StampIsLast`, from `OwnedInv` and `FlagsInv`, which ties
  the two flag bits and the time to the last write or date setting.  It is about
  entries that are neither shared nor read-only, and about the stamps that are set.
- `KeepsHandles`: `Spec => HandlesDenoteFiles`, the refinement of `HandleTable`, up to
  the first duplicated or inherited handle (`dups' = 0`).  That is how far the code
  keeps the promise: `SftDup` shows what one duplicate does.  `SlotsInv` says that only the
  running program has handles (`Rows`), that slots name entries in use and each of
  those is named by one slot (`Single`, `Unique`, `Backed`, `Named`), and what DOS has
  closed of a program that ends (`Walked`); `Apart`, that entries have a host handle
  each.  Each step is then a step of `HandleTable`, or none.  `CloseAll` may close the host
  handle of an entry of another drive by mistake (`Reached`); nobody notices, as
  the program is ending.

### Reading and writing: `TransferProofs`

- `Bounds`: `Spec => []WithinBounds`; `CountReturned`: `Spec => ReturnsCount`;
  `Complete`: `Spec => SuccessIsComplete`.  `CallInv` follows a call through its
  loop (`Underway`): CX is what was moved and what is left, the position is where it
  started and what was moved, modulo the width of a word, and a read inside the
  file has not more left than is there (`RestInside`).  The lemmas before it are
  about remainders: the width of a word is any number.
- `SizeKept`: `Spec => []SizeInStep`, from `SizeFollows`, which says how far the
  size in the entry may be from that of the file in the middle of a write.  It is
  about the size only, between calls, on a file that nobody else has open or
  changes, and as long as every RPC of a write was carried out.

### Searches: `DirSearchProofs`

`DirSearchAssumption`: finitely many names; a mask without wildcards is one name;
and renaming by a second name that was applied already changes nothing, since
its characters are either given or kept.

- `SearchesSafe`: `Spec => []SearchesKept`, from `KeptInv`: a search in a DTA has its
  own handle, or none, and the one in the SDA is apart from all of them.
- `SearchLeaks`: `Spec => []LeakBound`.  `LeakInv` counts a handle that the call
  under way is going to lose for the RPC that has failed (`Due`).
- `SearchesComplete`: `Spec => []SearchInOrder`, and `EndIsEnd`: `Spec => EndMeansAll`.
  `ReportInv` says that what a program was told are the matches among the entries
  up to the one its DTA is at, `WalkInv` that between there and `i` none matches.
- `DeletionsHold`: `Spec => DeletesTheMatches`, and `RenamingsHold`:
  `Spec => RenamesTheMatches`.  `DeleteInv` and `RenameInv` say what has become of
  the entries behind the loop and that those before it are as they were.  What a
  renaming takes away and brings in is that of its own loop also after failed RPCs;
  what it reports is proved without them.
- `CallsEnd`: `Spec => CallsAdvance`: each step of a call goes on in the listing, and
  only a failed RPC takes it past the end: a read that is answered there ends it
  (`Within`).

### Names: `NamesProofs`

From `NamesAssumption`, for any code page, any tables of DOS and names of any length.

- `RegularReturns`: a `Regular` name that is not mangled comes back from its 8.3 form
  as it was, but for the case of ASCII letters below a share.  The lemmas follow it
  there and back: what `Utf8ToLocal` reads is what `LocalToUtf8` writes, character by
  character; a name that is not refused splits at its one dot into a base and an
  extension that fit (`Parts`), without a space; capitals of what is not mangled are
  the characters themselves or ASCII letters.
- `LookedUpFound`: a name that is mangled is found by the short name DOS has of it,
  and any other name that is found has a short name that begins with it (`Begins`).
  The hash may be anything: that two names of a directory do not share one is for
  the caller to ask, and `Alone` does.

The operators walk a name with recursive functions.  What such a function computes
for every name is shown by contradiction: there would be a least place at which it
computes something else (`LeastExists`), and the step before that was right.

### Calls on a path: `PathCallsProofs`

All from `PathCallsAssumption` and `NamesAssumption`, for any worlds and any size of
the path buffer.

- `ListedReached`: `Spec => []ReachesListed`.  The invariant is `ReachInv`, next to
  `CallInv`; TLC checked it before.  As long as the call is `clean`, the lookup is on
  its way (`WayOK`): what is converted leads, on the host, to the part of the path
  that is meant so far and has its length (`Follows`), and what is left are the short names
  of the rest (`Way`).  In the loop of FindRealName none of the entries read so far
  is found by the name that is looked up (`ReadOK`), so that the one that is found
  is the one that is meant, by `LookedUpFound` and `Alone` (`LookedUp`); and a listing that
  ends without one has no entry of that name, which is then a new one.  A component
  that is not looked up leads the same way by `RegularReturns` (`NotLookedUp`).
  `NullOK` says that no `clean` lookup gives up for want of room, since the lengths
  in `Distinct` are those the code compares.  `CwdMeant` and `Seen` say
  the same of the current directory, which GetDiskSpace uses in a later call.

- `CallsKept`: `Spec => []CallInv`, the inductive invariant: the tables are those of the
  world (`NamesOK`), the share is a tree of them (`HostOK`), the current directory has as many
  components as what it stands for (`CwdOK`), the lookup is at one place of its path, and what is
  left of it and what is converted fit together (`LookOK`, `ListOK`, `PlaceOK`),
  `clean` and `ax` say what happened (`FlagsOK`, `CodeOK`), and as many directories
  are open as `DirsOK` says.
- `CallsTyped`: `Spec => []TypeOK`, and `DirsBounded`: `Spec => []LeakBound`.  The
  part about the buffer, `PathFits`, counts the terminator: it is at most one byte
  behind the end.
- `CallsSayWhatTheyDid`: `Spec => SaysWhatItDid`, about all RPCs of a call.  `SaysStep`
  is about its last step; `TouchInv` says what was changed before that: nothing,
  unless an open is about to be described, which changed its own file at most, and
  only if it was to create or replace.
- `CwdKept`: `Spec => CwdIsDir`;
  `OpensMean`: `Spec => OpenMeans`.  A change by others in the same step is left
  out of `OpenMeans` (`changes' = changes`): it is about what the open does.
- `CallsGoOn`: `Spec => CallsAdvance`.  `Place` orders the steps of a call: the
  components converted, the entries read, where the handler is.
- `TimesListed`: `Spec => []ListedTime`.  The lemma `CalendarTime` says that the
  years and months at which the loops of FTimeToFatTime stop are those of the
  Gregorian calendar from 1980 to 2100-02-28, and that FatTimeToFTime comes back to
  the same day and second.  Days before a year as the code counts them are compared with the
  rule for leap years, then days before a month, month by month.

`Size` and `Resolve` walk a path and are recursive functions, defined by a choice
(`[p \in S |-> ...]` that mentions itself).  The lemmas that unfold them rest on
one that shows that such a function exists, by the least length of a path on
which it would not.

### The backdoor: `ResidentProofs`

For every number of calls and failures and every heartbeat interval
(`ResidentAssumption`), about the two users of the backdoor together:

- `TypeCorrect`: `Spec => []TypeOK`.  That an answer that does not fit stays out of
  the buffer needs `Short`: what is about to be fetched was measured.
- `OwnAnswer`: `Spec => AnswersOwnRequest`, the refinement of `Rpc`.  `OwnInv` follows
  the request through the call: unsent it is in the buffer and not carried out,
  then the channel holds an answer to this call and no other, then the buffer
  does; `RpcStep` maps each step to one of `Rpc` or to none.
- `AnswersComeThrough`: `Spec => AnswerGetsThrough`, if `NoAnswer` is not an answer.
- `WrongRepliesBounded`: `Spec => []WrongBound`.  Not inductive: `Pending` says that a
  reply that will be wrong when it gets through has its failed RPC already.
- `ReplyAtHand`: `Spec => []NoWaitInVain`, if `None` is not a text.

### Installation and code pages: `CodePageProofs`, `InstallProofs`

For any number of copies, other programs, drives, pages, failures and
interruptions (`InstallAssumption`):

- `Types`: `TableSpec => []CodePageTypeOK`.  `InstallTypes` needs `HasTarget`: while
  VMSMOUNT runs there is a copy it works on, whose previous handlers
  UninstallDriver takes.
- `OneScanned`: `TableSpec => []OneCopyScanned`.  Not inductive: main scans long
  before it takes a drive, and `Alone` says that until then there is nothing the
  scan would find.  No other step gives a drive away.
- `Writes`: `TableSpec => []WritesLive`.  The driver compares its pointer with what
  the scan finds, and `Served` says that what the scan finds is in memory.  For
  `Served` to survive an uninstallation, `Released` says that when channels are
  closed and memory is freed the drives are gone already, and `TornStops` that
  nothing follows an interruption with the handlers in place.
- `VectorsStayLive`, `OthersKeepHooks`: `TableSpec => []VectorsLive` and
  `TableSpec => []OthersStayHooked`.  `Chain` is the least set that contains a
  vector's handler and what each member passes calls on to (`Reach`), so that
  nothing is assumed of how programs are linked.  `ChainInv` says that the chain of
  a vector is the programs hooked to it and DOS; `TopInv`, that handlers are taken
  away from the front only.
- `ChannelsOpen`: `TableSpec => []ChannelsKept`, and `DrivesAreServed`:
  `TableSpec => []DrivesServed`.  `OpenInv` and `DriveInv` say at which steps of a
  run channels and drives are whose; `OrphanInv` counts the channels left open,
  with those that the run under way still owes, `DeadInv` the copies whose removal
  was interrupted.
- `TablesFollow`: `TableSpec => []TableFollows`.  `PageInv` adds the copy that is
  about to get a drive, which the scan does not find yet.

### What is only model-checked

- Liveness, `CallsReturn` of `Transfer` and `Answered` of `Toolsd`: its proofs
  reason with ENABLED, which the prover does not support.  `CallsAdvance`, of
  `PathCalls` and of `DirSearch`, is about steps and is proved.
- The violations below "Where code and claims disagree" are what TLC found on the
  instances above.

## Not modelled

What is in a file, except for how much of it goes where; the stack switching and
the calling sequence of the interrupt handlers; message catalogues (`kitten.c`),
formatted output (`printf.c`) and debugging (`debug.c`); the tables in `unitbls/`
and `nls/`; the build.  `ProcessEnd`, `CommitFile`, `LockFile` and `UnlockFile` do
nothing.  Opening through an FCB (redir.c:687) is not reachable: no caller passes
the bit it tests.

The options of VMSMOUNT, the time zone, the tables of DOS it reads at the start and
the checks of the machine it runs on are left out of `Install`, the initialisation
of the driver and the packets it refuses out of `CodePage`; so is what becomes of
files and searches that are open when a copy is uninstalled.

DeleteFile and RenameFile look up long names as well; `DirSearch` takes names as
values and leaves the lookup to `PathCalls`, so what a lookup nested in their loops
does to the shared buffer is not modelled.

## Plan

1. Done: the modules above, and the proofs about all of them: each property of a
   passing run but the two about liveness is a theorem.
2. Proofs: lemmas about the operators of `DosTypes` (attributes and error codes).
3. The lookups of `PathCalls` inside the loops of RenameFile and DeleteFile.
4. Files that are open when a copy is uninstalled.
