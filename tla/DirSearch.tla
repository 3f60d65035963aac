----------------------------- MODULE DirSearch ------------------------------
(***************************************************************************)
(* Directory searches (redir.c: _FindFirst, _FindNext) and the two calls   *)
(* that work through one (DeleteFile, RenameFile).  A search is open on    *)
(* the host under a directory handle; its state is the SDB, which DOS      *)
(* keeps in the DTA of the program between two calls and hands to the      *)
(* redirector in the SDA.  Every pass of a loop, with its RPC, is a step.  *)
(*                                                                         *)
(* One directory of the shared folder, short names only (lfn = 0).  The    *)
(* host lists the directory when the search is opened: DeleteFile goes on  *)
(* counting entries while it deletes them.  Programs drop a search at its  *)
(* first error.                                                            *)
(***************************************************************************)
EXTENDS Naturals, Sequences, FiniteSets

CONSTANTS
    Names,      \* file names
    ReadOnly,   \* the files with the read-only attribute
    Masks,      \* search masks: the names they match, and their wildcards
    Moves,      \* RenameFile: where the second name takes each name
    Dtas,       \* the DTAs of programs that search
    Handles,    \* the directory handles the host deals out, again and again
    NoHandle,   \* VMSHF_INVALID_HANDLE
    NoSearch,   \* a directory handle that is not open on the host
    NoName,     \* an FDB that is not filled
    MaxFail,    \* bound: RPCs that fail in the channel
    MaxDrop     \* bound: searches left open

Mask == [match : SUBSET Names, wild : BOOLEAN]

ASSUME DirSearchAssumption ==
    /\ NoHandle \notin Handles /\ NoName \notin Names
    /\ NoSearch \notin Seq(Names)
    /\ IsFiniteSet(Names) /\ ReadOnly \subseteq Names
    /\ Masks \subseteq Mask /\ Moves \subseteq [Names -> Names]
    \* Without wildcards a mask is a name.
    /\ \A m \in Masks : ~m.wild => \E n \in Names : m.match \subseteq {n}
    \* The second name gives some characters of the new name and keeps the
    \* others, so that moving a file again does not move it further.
    /\ \A f \in Moves, n \in Names : f[f[n]] = f[n]
    /\ MaxFail \in Nat /\ MaxDrop \in Nat

VARIABLES
    dir,        \* the files in the directory
    search,     \* what the host lists under each directory handle
    dta,        \* SDB and FDB as DOS keeps them for each program
    sdb,        \* SDB and FDB in the SDA, during a call
    pc,         \* "dos"; "next", "read": in _FindNext; "act": between two
    op,         \* the call being served, or the last one
    who,        \* the DTA of that call, if it is a search
    move,       \* the second name of that call, if it is a rename
    first,      \* _FindNext was called by _FindFirst
    i,          \* the entry last read by _FindNext
    ax,         \* the error code in r->w.ax
    error,      \* DeleteFile: an error that does not stop it
    seen,       \* history: the names each search has reported
    fails,      \* history: RPCs that failed in the channel so far
    drops       \* history: searches left open so far

vars == <<dir, search, dta, sdb, pc, op, who, move, first, i, ax, error,
          seen, fails, drops>>

\* driveNumber & 0x40, searchMask, dirEntryNum + 1, dirHandle; the name in
\* the FDB.  "list" is history: what the host listed for this search.
SDB == [ours : BOOLEAN, mask : Mask, entry : Nat,
        handle : Handles \cup {NoHandle}, name : Names \cup {NoName},
        list : Seq(Names)]

Idle == [ours |-> FALSE, mask |-> [match |-> {}, wild |-> FALSE], entry |-> 0,
         handle |-> NoHandle, name |-> NoName, list |-> <<>>]

Codes == {"ok", "nfiles", "filenotfnd", "notready", "access", "device",
          "status"}

TypeOK ==
    /\ dir \in SUBSET Names
    /\ search \in [Handles -> Seq(Names) \cup {NoSearch}]
    /\ dta \in [Dtas -> SDB] /\ sdb \in SDB
    /\ pc \in {"dos", "next", "read", "act"}
    /\ op \in {"find", "delete", "rename"}
    /\ who \in Dtas /\ move \in Moves
    /\ first \in BOOLEAN
    /\ i \in Nat
    /\ ax \in Codes /\ error \in {"ok", "access"}
    /\ seen \in [Dtas -> Seq(Names)]
    /\ fails \in 0..MaxFail /\ drops \in 0..MaxDrop

Init ==
    /\ dir \in SUBSET Names
    /\ search = [h \in Handles |-> NoSearch]
    /\ dta = [d \in Dtas |-> Idle] /\ sdb = Idle
    /\ pc = "dos" /\ op = "find"
    /\ who \in Dtas /\ move \in Moves
    /\ first = FALSE
    /\ i = 0
    /\ ax = "ok" /\ error = "ok"
    /\ seen = [d \in Dtas |-> <<>>]
    /\ fails = 0 /\ drops = 0

-----------------------------------------------------------------------------
(* RPCs: see SftTable.                                                     *)

Outcomes == {"ok", "status", "lostreq", "lostrep"}
Failed == {"lostreq", "lostrep"}
Executed == {"ok", "lostrep"}

CountFails(n) == fails + n <= MaxFail /\ fails' = fails + n

Lost(o) == IF o \in Failed THEN 1 ELSE 0

\* The orders in which the host may list the directory.
Listings ==
    {l \in [1..Cardinality(dir) -> dir] :
        \A n \in dir : \E k \in DOMAIN l : l[k] = n}

\* VMShfCloseDir: its outcome is ignored.  n RPCs of this step have failed.
CloseDir(h, n) ==
    \E o \in Outcomes \ {"status"} :
        /\ CountFails(n + Lost(o))
        /\ search' = IF o \in Executed THEN [search EXCEPT ![h] = NoSearch]
                                       ELSE search

-----------------------------------------------------------------------------
(* _FindFirst: open the directory and go for the first entry.              *)

_FindFirst(m) ==
    /\ pc = "dos"
    /\ error' = "ok"
    /\ \/ \E h \in Handles, l \in Listings :
            /\ search[h] = NoSearch
            /\ search' = [search EXCEPT ![h] = l]
            /\ \/ /\ pc' = "next" /\ first' = TRUE /\ ax' = "ok"
                  /\ sdb' = [ours |-> TRUE, mask |-> m, entry |-> 0,
                             handle |-> h, name |-> NoName,
                             list |-> l]
                  /\ UNCHANGED fails
               \/ /\ CountFails(1) /\ ax' = "notready"
                  /\ UNCHANGED <<pc, first, sdb>>
       \/ \E o \in {"status", "lostreq"} :
            /\ CountFails(Lost(o))
            /\ ax' = IF o = "status" THEN "status" ELSE "notready"
            /\ UNCHANGED <<search, pc, first, sdb>>
    /\ UNCHANGED <<dir, dta, i, seen, drops>>

FindFirst(d, m) ==
    /\ ~dta[d].ours
    /\ op' = "find" /\ who' = d
    /\ _FindFirst(m)
    /\ UNCHANGED move

\* A search for the volume label alone asks nothing of the host; the bits it
\* leaves in driveNumber keep FindNext away from it (IsCallForUs).
FindVolumeLabel(d) ==
    /\ pc = "dos"
    /\ ~dta[d].ours
    /\ op' = "find" /\ who' = d /\ ax' = "ok"
    /\ UNCHANGED <<dir, search, dta, sdb, pc, move, first, i, error, seen,
                   fails, drops>>

FindNext(d) ==
    /\ pc = "dos"
    /\ dta[d].ours
    /\ op' = "find" /\ who' = d
    /\ pc' = "next" /\ sdb' = dta[d] /\ ax' = "ok"
    /\ UNCHANGED <<dir, search, dta, move, first, i, error, seen, fails,
                   drops>>

DeleteFile(m) ==
    /\ op' = "delete"
    /\ _FindFirst(m)
    /\ UNCHANGED <<who, move>>

\* Both names must be on the same drive.
RenameFile(m, f) ==
    \/ /\ op' = "rename" /\ move' = f
       /\ _FindFirst(m)
       /\ UNCHANGED who
    \/ /\ pc = "dos"
       /\ op' = "rename" /\ ax' = "device"
       /\ UNCHANGED <<dir, search, dta, sdb, pc, who, move, first, i, error,
                      seen, fails, drops>>

-----------------------------------------------------------------------------
(* Returning to DOS with code in r->w.ax; s is what the SDA then holds.    *)

\* DOS copies SDB and FDB to the DTA; after an error the search is dropped.
Answer(s, code) ==
    IF code = "ok"
    THEN /\ dta' = [dta EXCEPT ![who] = s]
         /\ seen' = [seen EXCEPT ![who] = Append(@, s.name)]
    ELSE /\ dta' = [dta EXCEPT ![who] = Idle]
         /\ seen' = [seen EXCEPT ![who] = <<>>]

\* What is left in the SDA and in the handler's variables is not read again.
Return(s, code) ==
    /\ pc' = "dos" /\ ax' = code
    /\ sdb' = Idle /\ i' = 0 /\ error' = "ok" /\ first' = FALSE
    /\ IF op = "find" THEN Answer(s, code) ELSE UNCHANGED <<dta, seen>>

\* Fault: a file that was passed over is forgotten.
FaultLoopDoneNoError(s, code) ==
    Return(s, IF code = "nfiles" THEN "ok" ELSE code)

\* DeleteFile and RenameFile loop while ax is 0.  "No more files" then means
\* success, unless a file was passed over.
LoopDone(s, code) == Return(s, IF code = "nfiles" THEN error ELSE code)

\* The end of _FindNext, and of _FindFirst if that called it.
FindDone(s, code) ==
    LET rc == IF first /\ code = "nfiles" THEN "filenotfnd" ELSE code IN
    \/ op = "find" /\ Return(s, rc)
    \/ op # "find" /\ rc # "ok" /\ LoopDone(s, rc)
    \/ /\ op # "find" /\ rc = "ok"
       /\ pc' = "act" /\ sdb' = s /\ first' = FALSE /\ ax' = rc
       /\ UNCHANGED <<i, error, dta, seen>>

-----------------------------------------------------------------------------
(* _FindNext.                                                              *)

\* Fault: one entry is skipped.
Fault_FindNextSkips ==
    /\ pc = "next"
    /\ IF sdb.handle = NoHandle
       THEN FindDone(sdb, "nfiles")
       ELSE /\ pc' = "read" /\ i' = sdb.entry + 1
            /\ UNCHANGED <<sdb, ax, first, error, dta, seen>>
    /\ UNCHANGED <<dir, search, op, who, move, fails, drops>>

_FindNext ==
    /\ pc = "next"
    /\ IF sdb.handle = NoHandle
       THEN FindDone(sdb, "nfiles")
       ELSE /\ pc' = "read" /\ i' = sdb.entry
            /\ UNCHANGED <<sdb, ax, first, error, dta, seen>>
    /\ UNCHANGED <<dir, search, op, who, move, fails, drops>>

\* Fault: the number of the entry is counted twice.
FaultGoOnSkips == i' = i + 2 /\ UNCHANGED <<pc, sdb, first, error, dta, seen>>

GoOn == i' = i + 1 /\ UNCHANGED <<pc, sdb, first, error, dta, seen>>

\* Fault: the name is not stored in the FDB.
FaultFoundNoName(n, code, failed) ==
    /\ FindDone([sdb EXCEPT !.entry = i + 1], code)
    /\ CountFails(failed) /\ UNCHANGED search

\* Fault: the place is not stored in the SDB.
FaultFoundSameEntry(n, code, failed) ==
    /\ FindDone([sdb EXCEPT !.name = n], code)
    /\ CountFails(failed) /\ UNCHANGED search

\* Fault: the handle is closed but stays in the SDB.
FaultFoundKeepsHandle(n, code, failed) ==
    LET s == [sdb EXCEPT !.name = n, !.entry = i + 1] IN
    /\ FindDone(s, code)
    /\ IF sdb.mask.wild THEN CountFails(failed) /\ UNCHANGED search
                        ELSE CloseDir(sdb.handle, failed)

\* Entry i + 1 matches, under the name n.  Without wildcards in the mask it
\* is the last match and the search is closed.
Found(n, code, failed) ==
    LET s == [sdb EXCEPT !.name = n, !.entry = i + 1] IN
    \/ /\ sdb.mask.wild
       /\ FindDone(s, code)
       /\ CountFails(failed) /\ UNCHANGED search
    \/ /\ ~sdb.mask.wild
       /\ FindDone([s EXCEPT !.handle = NoHandle], code)
       /\ CloseDir(sdb.handle, failed)

\* Fault: the search is not closed.
FaultEndedNoClose(code) ==
    /\ FindDone([sdb EXCEPT !.handle = NoHandle], code)
    /\ UNCHANGED <<search, fails>>

Ended(code) ==
    /\ FindDone([sdb EXCEPT !.handle = NoHandle], code)
    /\ CloseDir(sdb.handle, 0)

\* One pass of the loop.  When the RPC fails, the handler notes the error
\* and goes on with the name and the attributes it has, from an earlier
\* answer or from none at all: they may match the mask or not.
ReadDir ==
    LET l == search[sdb.handle]
        n == l[i + 1]
    IN
    /\ pc = "read"
    /\ \/ Ended("status")
       \/ /\ l = NoSearch \/ i + 1 \notin DOMAIN l
          /\ Ended("nfiles")
       \/ /\ l # NoSearch /\ i + 1 \in DOMAIN l
          /\ \/ n \in sdb.mask.match /\ Found(n, ax, 0)
             \/ /\ n \notin sdb.mask.match /\ GoOn
                /\ UNCHANGED <<ax, search, fails>>
       \/ /\ GoOn
          /\ CountFails(1) /\ ax' = "notready" /\ UNCHANGED search
       \/ \E stale \in sdb.mask.match : Found(stale, "notready", 1)
    /\ UNCHANGED <<dir, op, who, move, drops>>

-----------------------------------------------------------------------------
(* The loops of DeleteFile and RenameFile, between two calls of _FindNext. *)

GoToNext(code) ==
    /\ pc' = "next" /\ ax' = code
    /\ UNCHANGED <<sdb, i, first, dta, seen>>

\* The host refuses: the handler returns at once and leaves the search open.
GiveUp ==
    /\ Return(sdb, "status")
    /\ IF sdb.handle = NoHandle THEN UNCHANGED drops
                                ELSE drops < MaxDrop /\ drops' = drops + 1
    /\ UNCHANGED <<dir, fails>>

\* The RPC was answered, or failed: the error is noted, the loop goes on.
Changed(o, newDir) ==
    /\ CountFails(Lost(o))
    /\ dir' = IF o \in Executed THEN newDir ELSE dir
    /\ GoToNext(IF o \in Failed THEN "notready" ELSE "ok")
    /\ UNCHANGED <<error, drops>>

DeleteOne ==
    /\ pc = "act" /\ op = "delete"
    /\ \/ /\ sdb.name \in ReadOnly
          /\ error' = "access"
          /\ GoToNext("ok")
          /\ UNCHANGED <<dir, fails, drops>>
       \/ /\ sdb.name \notin ReadOnly
          /\ \/ GiveUp
             \/ \E o \in Outcomes \ {"status"} : Changed(o, dir \ {sdb.name})
    /\ UNCHANGED <<search, op, who, move>>

Renamed(n) == IF n \in dir THEN (dir \ {n}) \cup {move[n]} ELSE dir

\* The host may refuse a second name that is taken, or replace that file.
RenameOne ==
    /\ pc = "act" /\ op = "rename"
    /\ \/ GiveUp
       \/ \E o \in Outcomes \ {"status"} :
            Changed(o, Renamed(sdb.name))
    /\ UNCHANGED <<search, op, who, move>>

-----------------------------------------------------------------------------
(* The environment.                                                        *)

\* A file is created, by a program or on the host.
FileAppears(n) ==
    /\ pc = "dos"
    /\ dir' = dir \cup {n}
    /\ UNCHANGED <<search, dta, sdb, pc, op, who, move, first, i, ax, error,
                   seen, fails, drops>>

\* A program has seen enough, or ends.  DOS has no call to close a search.
DosDrop(d) ==
    /\ pc = "dos"
    /\ dta[d].ours
    /\ IF dta[d].handle = NoHandle THEN UNCHANGED drops
                                   ELSE drops < MaxDrop /\ drops' = drops + 1
    /\ dta' = [dta EXCEPT ![d] = Idle]
    /\ seen' = [seen EXCEPT ![d] = <<>>]
    /\ UNCHANGED <<dir, search, sdb, pc, op, who, move, first, i, ax, error,
                   fails>>

Next ==
    \/ \E d \in Dtas : \/ \E m \in Masks : FindFirst(d, m)
                       \/ FindVolumeLabel(d)
                       \/ FindNext(d)
                       \/ DosDrop(d)
    \/ \E m \in Masks : \/ DeleteFile(m)
                        \/ \E f \in Moves : RenameFile(m, f)
    \/ _FindNext
    \/ ReadDir
    \/ DeleteOne
    \/ RenameOne
    \/ \E n \in Names : FileAppears(n)

Spec == Init /\ [][Next]_vars

-----------------------------------------------------------------------------
(* Properties.                                                             *)

Returns(o) == pc # "dos" /\ pc' = "dos" /\ op = o

Elements(q) == {q[k] : k \in DOMAIN q}

\* The sequence q picks names from listing l that match, in the order of the
\* listing, none twice, and leaves out none before the last one picked.
Picks(q, l, match) ==
    /\ Elements(q) \subseteq Elements(l) \cap match
    /\ \A j, k \in DOMAIN q : j < k => q[j] # q[k]
    /\ \A x, y \in DOMAIN l :
          x < y /\ l[x] \in match /\ l[y] \in Elements(q) =>
            \E j, k \in DOMAIN q : j < k /\ q[j] = l[x] /\ q[k] = l[y]

\* Searches of several programs, and deletions and renamings between their
\* steps, do not disturb each other: as long as no RPC fails, each search
\* has reported the matching files in the order of its own listing, none
\* twice and none left out (_FindNext keeps the place in the SDB).
SearchInOrder ==
    fails = 0 => \A d \in Dtas : dta[d].ours =>
                    Picks(seen[d], dta[d].list, dta[d].mask.match)

\* "No more files", or "file not found" for a first call, is answered only
\* when every matching file was reported, as long as no RPC fails.
EndMeansAll ==
    [][Returns("find") /\ ax' \in {"nfiles", "filenotfnd"} /\ fails' = 0 =>
         Elements(seen[who]) = Elements(sdb.list) \cap sdb.mask.match]_vars

Orphans == {h \in Handles : /\ search[h] # NoSearch
                            /\ \A d \in Dtas : dta[d].handle # h
                            /\ sdb.handle # h}

\* The host keeps a search open for nobody only if an RPC failed, a program
\* dropped the search, or the host refused to delete or rename a file; each
\* of these costs one directory handle at most.
LeakBound == Cardinality(Orphans) <= fails + drops

\* Two programs never share a directory handle, and a search that is under
\* way is open on the host, though handles are reused and closing may fail.
SearchesApart ==
    \A d \in Dtas : dta[d].handle # NoHandle =>
        /\ search[dta[d].handle] # NoSearch
        /\ \A e \in Dtas \ {d} : dta[e].handle # dta[d].handle

\* A search keeps what it is made of, and a directory handle of its own.
\* (_FindFirst, _FindNext: what they store in the SDB)
SearchesKept == TypeOK /\ SearchesApart

\* DeleteFile removes only files that match and are not read-only, even when
\* it works on what a failed RPC left behind; and as long as no RPC fails it
\* reports success only if no matching file is left, and "access denied"
\* only if all that is left is read-only.
DeletesTheMatches ==
    [][/\ op = "delete" /\ pc # "dos" =>
            dir \ dir' \subseteq sdb.mask.match \ ReadOnly
       /\ Returns("delete") /\ fails' = 0 =>
            LET left == dir' \cap sdb.mask.match IN
            /\ ax' = "ok" => left = {}
            /\ ax' = "access" => left # {} /\ left \subseteq ReadOnly]_vars

\* RenameFile takes away only names that match and brings in only what the
\* second name makes of them, even when it works on what a failed RPC left
\* behind; and as long as no RPC fails it reports success only if no matching
\* file is left under its old name.
RenamesTheMatches ==
    [][/\ op = "rename" /\ pc # "dos" =>
            /\ dir \ dir' \subseteq sdb.mask.match
            /\ dir' \ dir \subseteq {move[n] : n \in dir \cap sdb.mask.match}
       /\ Returns("rename") /\ fails' = 0 /\ ax' = "ok" =>
            \A n \in dir' \cap sdb.mask.match : move[n] = n]_vars

\* Where in the directory a call is, with three steps to an entry.
Place == CASE pc = "act" -> 3 * sdb.entry
           [] pc = "next" -> 3 * sdb.entry + 1
           [] pc = "read" -> 3 * i + 2
           [] pc = "dos" -> 0

\* A call that walks the directory stays at no entry and goes back to none,
\* whatever it does and whatever fails on the way; and a read that is answered
\* beyond the last entry ends it.  A read that fails need not: the loop can go
\* on while the channel stays broken.  (_FindNext, DeleteFile, RenameFile)
CallsAdvance ==
    [][pc # "dos" /\ pc' # "dos" =>
         /\ Place < Place'
         /\ pc = "read" /\ fails' = fails => i < Len(sdb.list)]_vars

\* dosdefs.h:29: DOS_SUCCESS, "Function was successful".  (Not so: if the
\* RPC that deletes the last matching file fails, the error is overwritten
\* by the "no more files" of the search.)
DeleteSucceeds ==
    [][Returns("delete") /\ ax' = "ok" => dir' \cap sdb.mask.match = {}]_vars
=============================================================================
