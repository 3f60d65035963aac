----------------------------- MODULE PathCalls ------------------------------
(***************************************************************************)
(* The calls on a path (redir.c: RmDir, MkDir, ChDir, GetFileAttrib,       *)
(* SetFileAttrib, GetDiskSpace and the opens) and the search for the long  *)
(* names of that path before each of them (lfn.c: LfnGetTrueLongName).     *)
(* Every RPC is a step.                                                    *)
(*                                                                         *)
(* A path is the sequence of its components.  Programs use the short names *)
(* that a directory listing shows; "want" is what they mean by them on the *)
(* host.  What follows an open is in SftTable, searches of programs are in *)
(* DirSearch.                                                              *)
(***************************************************************************)
EXTENDS Names, DosTypes, SequencesExt

CONSTANTS
    Worlds,     \* options, shared folders, calls and their bound
    MaxPath,    \* VMSHF_MAX_PATH
    MaxFail,    \* bound: RPCs that fail in the channel
    MaxChange   \* bound: changes made on the host

VARIABLES
    world,      \* the world of this behaviour
    tables,     \* the conversions of its names
    host,       \* the shared folders: what is at each path
    cwd,        \* the current directory in DOS's CDS, and what was meant
    pc,         \* "dos"; "lookup", "read": in LfnGetTrueLongName; "null": it
                \* returned NULL; "opened": between the RPCs of an open
    call,       \* the call being served, or the last one
    rest,       \* the components of its path that are not converted yet
    dest,       \* longFileName1: the components that are
    listing,    \* what the host lists under the handle of FindRealName
    i,          \* the entries it has read
    second,     \* SetFileAttrib: the attributes were read
    ax,         \* the error code in r->w.ax
    target,     \* history: where on the host the last RPC went
    clean,      \* history: the host answers this search like a quiet host
    dirs,       \* the directory handles open on the host
    fails,      \* history: RPCs that failed in the channel so far
    calls,      \* history: calls so far
    changes,    \* history: changes on the host so far
    touched     \* history: the paths in the shared folders that the call
                \* being served, or the last one, has changed

search == <<rest, dest, listing, i>>
fixed == <<world, tables>>
history == <<calls, changes, touched>>
vars == <<fixed, host, cwd, pc, call, search, second, ax, target, clean,
          dirs, fails, history>>

W == Worlds[world]

\* The names on the host of a world w.
Given(w) ==
    LET paths == UNION ({DOMAIN h : h \in w.hosts}
                          \cup {w.others, {c.want : c \in w.calls}})
    IN  UNION {{p[k] : k \in DOMAIN p} : p \in paths}

\* Their conversions, and those of names that DOS may make there: of a share
\* (TRUE) and below one.
Tables(w) ==
    LET fcbName(name, isRoot) == FNameToFcbName(w.opt, name, isRoot)
        dos == {DosName(fcbName(name, isRoot)) :
                    name \in Given(w), isRoot \in BOOLEAN}
        utf8 == [name \in dos |-> LocalToUtf8(w.opt.page, name)]
        all == Given(w) \cup dos \cup {utf8[name] : name \in dos}
    IN  [fcbName |-> [isRoot \in BOOLEAN |->
                        [name \in all |-> fcbName(name, isRoot)]],
         utf8 |-> utf8]

Name == Seq(Byte)
Node == [mode : FMode, time : FTime, data : BOOLEAN]

Functions == {"none", "rmdir", "mkdir", "chdir", "getattr", "setattr",
              "space", "open"}

\* "flag": the directory bit in cx (setattr), es:di = currentCDS (space).
Call == [fn : Functions, want : Seq(Name),
         ext : SUBSET {"create", "open", "replace"}, fat : SUBSET FatAttr,
         flag : BOOLEAN]

Front1(path) == SubSeq(path, 1, Len(path) - 1)

\* A shared folder has a root, and what is in it is in a directory.
Tree(h) ==
    /\ IsFiniteSet(DOMAIN h) /\ DOMAIN h \subseteq Seq(Name)
    /\ \A p \in DOMAIN h : h[p] \in Node
    /\ <<>> \in DOMAIN h /\ h[<<>>].mode.dir
    /\ \A p \in DOMAIN h \ {<<>>} :
         Front1(p) \in DOMAIN h /\ h[Front1(p)].mode.dir

\* From MIN_MANGLING_CHARS to MAX_MANGLING_CHARS.
Option(o) ==
    /\ o.page \in [128..255 -> CodePoint]
    /\ o.lfn \in BOOLEAN /\ o.caseSensitive \in BOOLEAN
    /\ o.lfn => o.manglingChars \in 2..6
    /\ o.gmtOffset \in -SECSPERDAY..SECSPERDAY

\* DOS removes no root and knows no open that does nothing.
Asks(c) ==
    /\ c \in Call
    /\ c.fn = "rmdir" => c.want # <<>>
    /\ c.fn = "open" => c.ext # {}

ASSUME PathCallsAssumption ==
    /\ MaxPath \in Nat /\ MaxFail \in Nat /\ MaxChange \in Nat
    /\ \A n \in DOMAIN Worlds :
        LET w == Worlds[n]
        IN  /\ \A h \in w.hosts : Tree(h)
            /\ \A c \in w.calls : Asks(c)
            /\ w.others \subseteq Seq(Name) \ {<<>>}
            /\ Option(w.opt)
            /\ w.now \in FTime /\ w.most \in Nat

\* The tables only spare TLC the work.
FcbName(name, isRoot) ==
    IF name \in DOMAIN tables.fcbName[isRoot] THEN tables.fcbName[isRoot][name]
    ELSE FNameToFcbName(W.opt, name, isRoot)

Utf8Name(name) ==
    IF name \in DOMAIN tables.utf8 THEN tables.utf8[name]
    ELSE LocalToUtf8(W.opt.page, name)

NoCall == [fn |-> "none", want |-> <<>>, ext |-> {}, fat |-> {},
           flag |-> FALSE]

CountFails(n) == fails + n <= MaxFail /\ fails' = fails + n

-----------------------------------------------------------------------------
(* The host.                                                               *)

Kids(path) ==
    {p[Len(p)] : p \in {q \in DOMAIN host : q # <<>> /\ Front1(q) = path}}

Fold(name) ==
    [k \in DOMAIN name |-> IF name[k] < 128 THEN toupper_local(name[k])
                           ELSE name[k]]

\* Every request asks to ignore case; share names are taken as they are.
Child(path, name) ==
    LET same == {c \in Kids(path) : path # <<>> /\ Fold(c) = Fold(name)}
    IN  IF name \in Kids(path) \/ same = {} THEN Append(path, name)
        ELSE Append(path, CHOOSE c \in same : TRUE)

\* Where the host finds a path, or where it would create it.
Resolve(path) ==
    LET At[k \in 0..Len(path)] ==
            IF k = 0 THEN <<>> ELSE Child(At[k - 1], path[k])
    IN  At[Len(path)]

Exists(path) == path \in DOMAIN host
IsDir(path) == Exists(path) /\ host[path].mode.dir

New(dir, fat) == [mode |-> [FatAttrToFMode(fat) EXCEPT !.dir = dir],
                  time |-> W.now, data |-> FALSE]

Status(path, status) == [status |-> status, host |-> host]

HostDeleteDir(path) ==
    IF ~Exists(path) THEN Status(path, "ENOTEXIST")
    ELSE IF ~IsDir(path) THEN Status(path, "ENODIR")
    ELSE IF Kids(path) # {} THEN Status(path, "ENOTEMPTY")
    ELSE [status |-> "SUCCESS",
          host |-> [p \in DOMAIN host \ {path} |-> host[p]]]

Put(path, node) ==
    [status |-> "SUCCESS",
     host |-> [p \in DOMAIN host \cup {path} |->
                  IF p = path THEN node ELSE host[p]]]

HostCreateDir(path) ==
    IF Exists(path) THEN Status(path, "EEXIST")
    ELSE IF ~IsDir(Front1(path)) THEN Status(path, "ENOTEXIST")
    ELSE Put(path, New(TRUE, {}))

HostGetAttr(path) ==
    Status(path, IF Exists(path) THEN "SUCCESS" ELSE "ENOTEXIST")

\* The type of a file does not change.
HostSetAttr(path, mode) ==
    IF ~Exists(path) THEN Status(path, "ENOTEXIST")
    ELSE Put(path, [host[path] EXCEPT
                      !.mode = [mode EXCEPT !.dir = host[path].mode.dir]])

HostOpenFile(path, action, mode) ==
    IF Exists(path)
    THEN IF action = "C_NEW" THEN Status(path, "EEXIST")
         ELSE IF ~IsDir(path) /\ action \in {"O_TRUNC", "C_ALWAYS"}
         THEN Put(path, [host[path] EXCEPT !.data = FALSE])
         ELSE Status(path, "SUCCESS")
    ELSE IF action \in {"O_EXIST", "O_TRUNC"} \/ ~IsDir(Front1(path))
         THEN Status(path, "ENOTEXIST")
         ELSE Put(path, [New(FALSE, {}) EXCEPT
                           !.mode = [mode EXCEPT !.dir = FALSE]])

\* Somebody on the host adds a file, or removes a file or a directory with
\* what is in it.
HostChange ==
    /\ changes < MaxChange /\ changes' = changes + 1
    /\ \E p \in W.others :
         \/ /\ Exists(p)
            /\ host' = [q \in {q \in DOMAIN host : ~IsPrefix(p, q)} |->
                            host[q]]
         \/ /\ ~Exists(p) /\ IsDir(Front1(p))
            /\ host' = Put(p, New(FALSE, {})).host
    /\ clean' = (clean /\ pc = "dos")
    /\ UNCHANGED <<fixed, cwd, pc, call, search, second, ax, target, dirs,
                   fails, calls, touched>>

-----------------------------------------------------------------------------
(* What programs see, and what they call.                                  *)

Listed(path) ==
    [k \in DOMAIN path |-> FcbName(path[k], k = 1)]

DosPath(path) == [k \in DOMAIN path |-> DosName(Listed(path)[k])]

\* The bytes of a path with their separators.
Size(path) ==
    LET Upto[k \in 0..Len(path)] ==
            IF k = 0 THEN 0 ELSE Upto[k - 1] + 1 + Len(path[k])
    IN  Upto[Len(path)]

\* A component with a tilde is looked up.
Looked(name) == W.opt.lfn /\ Tilde \in Bytes(name)

\* The name a program uses stands for a name on the host that comes back:
\* it is written the same, or is that of an entry which is looked up or can
\* be found by its capitals.
Meant(dir, name, short) ==
    \/ Utf8Name(short) = name /\ (Looked(short) => short = name)
    \/ /\ name \in Kids(dir)
       /\ Looked(short) \/ Regular(W.opt, name, dir = <<>>)

\* No other entry has a short name that begins like this one, or, but for an
\* entry that the host is asked for as it is written, differs in case only.
Alone(dir, name, short) ==
    \A c \in Kids(dir) \ {name} :
        /\ ~IsPrefix(short, DosName(FcbName(c, dir = <<>>)))
        /\ dir # <<>> /\ Fold(c) = Fold(name) =>
             /\ name \in Kids(dir)
             /\ Looked(short) \/ Utf8Name(short) = name

\* A path from a listing, but for names that the program makes up itself,
\* which means one path on the host and has room on its way.
Distinct(path) ==
    \A k \in DOMAIN path :
        LET dir == SubSeq(path, 1, k - 1)
            short == DosPath(path)[k]
        IN  /\ Meant(dir, path[k], short)
            /\ Alone(dir, path[k], short)
            /\ Size(dir) + Len(short) + 3 <= MaxPath
            /\ \A c \in Kids(dir) \cup {path[k]} :
                 Size(dir) + Len(c) + 1 <= MaxPath

Start(c, path) ==
    /\ pc = "dos" /\ calls < W.most
    /\ calls' = calls + 1
    /\ call' = c
    /\ rest' = path /\ dest' = <<>>
    /\ second' = FALSE
    /\ clean' = Distinct(c.want)
    /\ touched' = {}
    /\ UNCHANGED <<fixed, host, cwd, listing, i, target, dirs, fails,
                   changes>>

\* A path that the program has from a listing, but for the name to create.
StartCall ==
    \E c \in W.calls :
        /\ c.fn # "space"
        /\ \A k \in DOMAIN c.want : Listed(c.want)[k] # NoName
        /\ Start(c, DosPath(c.want))
        /\ pc' = "lookup" /\ ax' = "SUCCESS"

\* The current directory or, for another drive, no path at all.
StartSpace ==
    \E c \in W.calls :
        /\ c.fn = "space"
        /\ IF c.flag THEN Start([c EXCEPT !.want = cwd.want], cwd.path)
                     ELSE Start([c EXCEPT !.want = <<>>], <<>>)
        /\ pc' = (IF c.flag THEN "lookup" ELSE "null") /\ ax' = "SUCCESS"

-----------------------------------------------------------------------------
(* LfnGetTrueLongName: from the left, each component with a tilde is       *)
(* looked up in the directory before it.                                   *)

Mangled == {k \in DOMAIN rest : Looked(rest[k])}

Encoded(path) == [k \in DOMAIN path |-> Utf8Name(path[k])]

\* Fault: what is in the buffer already does not count.
FaultRoom(path) == MaxPath

\* What is left of the buffer behind the separator.
Room(path) == MaxPath - (Size(path) + 1)

\* The function cuts the path it was given while it works on it, and leaves
\* it cut when it returns NULL: the current directory of DOS, if that was it.
Null(path) ==
    /\ pc' = "null"
    /\ cwd' = IF call.fn = "space"
              THEN [path |-> Take(cwd.path, Len(path)),
                    want |-> Take(cwd.want, Len(path))]
              ELSE cwd
    /\ UNCHANGED <<rest, dest>>

\* The short name is used as it is.
NotFound(path, names) ==
    \/ Len(names[1]) + 2 > Room(path) /\ Null(path)
    \/ /\ Len(names[1]) + 2 <= Room(path)
       /\ dest' = Append(path, names[1]) /\ rest' = Tail(names)
       /\ pc' = "lookup"
       /\ UNCHANGED cwd

\* What becomes of the request, and whether the host opens the directory.
VMShfOpenDir(path) ==
    LET there == IsDir(Resolve(path))
    IN  [ok : {there}, open : {there}, lost : {0}]
        \cup [ok : {FALSE}, open : {FALSE}, lost : {0, 1}]
        \cup [ok : {FALSE}, open : {there}, lost : {1}]

LookupOpen ==
    /\ pc = "lookup" /\ Mangled # {}
    /\ LET k == CHOOSE n \in Mangled : \A m \in Mangled : n <= m
           path == dest \o Encoded(SubSeq(rest, 1, k - 1))
           names == From(rest, k)
           dir == Resolve(path)
       IN  \/ /\ Size(path) >= MaxPath
              /\ Null(path)
              /\ UNCHANGED <<listing, i, clean, dirs, fails>>
           \/ \E r \in VMShfOpenDir(path) :
              /\ Size(path) < MaxPath
              /\ CountFails(r.lost)
              /\ dirs' = dirs + (IF r.open THEN 1 ELSE 0)
              /\ clean' = (clean /\ (r.ok \/ (r.lost = 0 /\ ~IsDir(dir))))
              /\ \/ /\ r.ok
                    /\ listing' \in SetToSeqs(Kids(dir)) /\ i' = 0
                    /\ dest' = path /\ rest' = names
                    /\ pc' = "read"
                    /\ UNCHANGED cwd
                 \/ /\ ~r.ok
                    /\ NotFound(path, names)
                    /\ UNCHANGED <<listing, i>>
    /\ UNCHANGED <<fixed, host, call, second, ax, target, history>>

\* Fault: the directory is not closed.
FaultVMShfCloseFileDir(n) ==
    /\ listing' = <<>> /\ i' = 0
    /\ CountFails(n)
    /\ UNCHANGED dirs

\* Its outcome is ignored.  n RPCs of this step have failed before.
VMShfCloseFileDir(n) ==
    /\ listing' = <<>> /\ i' = 0
    /\ \E lost \in 0..1 :
        /\ CountFails(n + lost)
        /\ dirs' \in IF lost = 0 THEN {dirs - 1} ELSE {dirs - 1, dirs}

\* FNameToFcbName converts the name in the RPC buffer: dest has it before.
Matches(name) ==
    LET fcbName == FcbName(name, dest = <<>>)
    IN  fcbName # NoName /\ MatchFcbNameToFileName(fcbName, rest[1])

FindRealName(name) ==
    \/ /\ Len(name) > Room(dest)
       /\ Null(dest) /\ VMShfCloseFileDir(0)
    \/ /\ Len(name) <= Room(dest) /\ Matches(name)
       /\ dest' = Append(dest, name) /\ rest' = Tail(rest)
       /\ pc' = "lookup"
       /\ VMShfCloseFileDir(0) /\ UNCHANGED cwd
    \/ /\ Len(name) <= Room(dest) /\ ~Matches(name)
       /\ i' = i + 1
       /\ UNCHANGED <<cwd, pc, rest, dest, listing, dirs, fails>>

\* Fault: after an error the next entry is read.
FaultVMShfReadDir ==
    \/ i < Len(listing) /\ FindRealName(listing[i + 1]) /\ UNCHANGED clean
    \/ /\ i = Len(listing)
       /\ NotFound(dest, rest) /\ VMShfCloseFileDir(0) /\ UNCHANGED clean
    \/ /\ i' = i + 1 /\ clean' = FALSE
       /\ CountFails(1)
       /\ UNCHANGED <<cwd, pc, rest, dest, listing, dirs>>

\* An entry, none any more, or an error: the channel's, or the host's.
VMShfReadDir ==
    \/ i < Len(listing) /\ FindRealName(listing[i + 1]) /\ UNCHANGED clean
    \/ /\ i = Len(listing)
       /\ NotFound(dest, rest) /\ VMShfCloseFileDir(0) /\ UNCHANGED clean
    \/ \E lost \in 0..1 :
       /\ NotFound(dest, rest) /\ VMShfCloseFileDir(lost)
       /\ clean' = FALSE

LookupRead ==
    /\ pc = "read"
    /\ VMShfReadDir
    /\ UNCHANGED <<fixed, host, call, second, ax, target, history>>

-----------------------------------------------------------------------------
(* Requests.                                                               *)

Path == dest \o Encoded(rest)

\* DosPathToPortable: there is a path, and it fits.  Without LFN it converts
\* the path itself and leaves out the first separator.
Portable ==
    /\ pc = "lookup"
    /\ Size(Path) <= MaxPath + (IF W.opt.lfn THEN 0 ELSE 1)

Answer(status, then, lost) == [status |-> status, host |-> then, lost |-> lost]

\* The host does it or refuses, or the channel fails before or after that.
ExecuteRpc(does) ==
    {Answer(does.status, does.host, 0), Answer("EACCESS", host, 0),
     Answer("VMTOOLERR", host, 1), Answer("VMTOOLERR", does.host, 1)}

\* EACCESS stands for every refusal; it is what is said of no path as well.
Request(does) ==
    IF Portable THEN ExecuteRpc(does) ELSE {Answer("EACCESS", host, 0)}

VMShfDeleteFileDir == Request(HostDeleteDir(Resolve(Path)))
VMShfCreateDir == Request(HostCreateDir(Resolve(Path)))
VMShfGetAttr == Request(HostGetAttr(Resolve(Path)))
VMShfSetAttr(mode) == Request(HostSetAttr(Resolve(Path), mode))
VMShfOpenFile(action, mode) ==
    Request(HostOpenFile(Resolve(Path), action, mode))

\* No path is the root.
VMShfGetDirSize ==
    IF pc = "null" THEN ExecuteRpc(HostGetAttr(<<>>))
                   ELSE Request(HostGetAttr(Resolve(Path)))

\* The paths at which two states of the shared folders differ.
Differs(h, k) ==
    {p \in DOMAIN h \cup DOMAIN k :
        ~(p \in DOMAIN h /\ p \in DOMAIN k /\ h[p] = k[p])}

Receive(r) ==
    /\ CountFails(r.lost)
    /\ host' = r.host /\ touched' = touched \cup Differs(host, r.host)
    /\ target' = IF Portable THEN Resolve(Path) ELSE <<>>

\* Fault: an RPC that failed is taken for one that did not.
FaultCode(r) ==
    IF r.lost = 1 THEN "SUCCESS" ELSE VmshfStatusToDosError(r.status)

Code(r) ==
    IF r.lost = 1 THEN "NOTREADY" ELSE VmshfStatusToDosError(r.status)

-----------------------------------------------------------------------------
(* The handlers.                                                           *)

Handles(fn) ==
    /\ call.fn = fn
    /\ pc \in {"lookup", "null"}
    /\ pc = "lookup" => Mangled = {}

Return(code) == pc' = "dos" /\ ax' = code

\* Fault: a path that is not there is a file that is not there.
FaultPathCode(code) == code

PathCode(code) == IF code = "FILENOTFND" THEN "PATHNOTFND" ELSE code

RmDir ==
    /\ Handles("rmdir")
    /\ \E r \in VMShfDeleteFileDir : Receive(r) /\ Return(PathCode(Code(r)))
    /\ UNCHANGED <<cwd, rest, dest, second>>

MkDir ==
    /\ Handles("mkdir")
    /\ \E r \in VMShfCreateDir : Receive(r) /\ Return(PathCode(Code(r)))
    /\ UNCHANGED <<cwd, rest, dest, second>>

\* Fault: a file will do.
FaultNoDirectory(path) == FALSE

\* The attributes that come back lack the directory bit.
NoDirectory(path) == "subdir" \notin FModeToFatAttr(host[path].mode)

Copied == cwd' = [path |-> DosPath(call.want), want |-> call.want]

\* After an RPC that failed the path is copied as well.
ChDir ==
    /\ Handles("chdir")
    /\ \/ /\ call.want = <<>>
          /\ Return("SUCCESS") /\ Copied
          /\ target' = <<>>
          /\ UNCHANGED <<host, fails, touched>>
       \/ /\ call.want # <<>>
          /\ \E r \in VMShfGetAttr :
              /\ Receive(r)
              /\ LET code == PathCode(Code(r))
                     file == code = "SUCCESS" /\ NoDirectory(Resolve(Path))
                 IN  /\ Return(IF file THEN "PATHNOTFND" ELSE code)
                     /\ IF code \in {"SUCCESS", "NOTREADY"} /\ ~file
                        THEN Copied ELSE UNCHANGED cwd
    /\ UNCHANGED <<rest, dest, second>>

GetFileAttrib ==
    /\ Handles("getattr")
    /\ \E r \in VMShfGetAttr : Receive(r) /\ Return(Code(r))
    /\ UNCHANGED <<cwd, rest, dest, second>>

\* First the attributes are read.  cx, and not the word on the stack that is
\* set, must not ask for a directory; then the path is looked up again.
SetFileAttribRead ==
    /\ Handles("setattr") /\ ~second
    /\ \E r \in VMShfGetAttr :
        /\ Receive(r)
        /\ LET code == Code(r)
               file == call.flag /\ NoDirectory(Resolve(Path))
           IN  \/ /\ code # "SUCCESS"
                  /\ Return(code) /\ UNCHANGED <<rest, dest, second>>
               \/ /\ code = "SUCCESS" /\ file
                  /\ Return("ACCESS") /\ UNCHANGED <<rest, dest, second>>
               \/ /\ code = "SUCCESS" /\ ~file
                  /\ second' = TRUE /\ pc' = "lookup"
                  /\ rest' = DosPath(call.want) /\ dest' = <<>>
                  /\ UNCHANGED ax
    /\ UNCHANGED cwd

SetFileAttrib ==
    /\ Handles("setattr") /\ second
    /\ \E r \in VMShfSetAttr(FatAttrToFMode(call.fat)) :
        Receive(r) /\ Return(Code(r))
    /\ UNCHANGED <<cwd, rest, dest, second>>

\* A status is not looked at; an RPC that failed is an error without a code.
GetDiskSpace ==
    /\ Handles("space")
    /\ \E r \in VMShfGetDirSize :
        Receive(r) /\ Return(IF r.lost = 1 THEN "none" ELSE "SUCCESS")
    /\ UNCHANGED <<cwd, rest, dest, second>>

\* OpenFile, CreateFile and SpecialOpen: the first two are the extended
\* actions that mean the same.
OpenOrCreateFile ==
    /\ Handles("open")
    /\ \E r \in VMShfOpenFile(DosExtActionToOpenAction(call.ext),
                              FatAttrToFMode(call.fat)) :
        /\ Receive(r)
        /\ IF Code(r) = "SUCCESS" THEN pc' = "opened" /\ UNCHANGED ax
                                  ELSE Return(Code(r))
    /\ UNCHANGED <<cwd, rest, dest, second>>

\* The attributes of what was opened, by its handle: a directory is closed
\* again.
Opened ==
    /\ pc = "opened"
    /\ \E r \in ExecuteRpc(Status(target, "SUCCESS")) :
        /\ CountFails(r.lost)
        /\ Return(IF Code(r) = "SUCCESS" /\ IsDir(target) THEN "ACCESS"
                                                         ELSE Code(r))
    /\ UNCHANGED <<cwd, rest, dest, second, host, target, touched>>

Handler ==
    /\ \/ RmDir \/ MkDir \/ ChDir \/ GetFileAttrib
       \/ SetFileAttribRead \/ SetFileAttrib
       \/ GetDiskSpace \/ OpenOrCreateFile \/ Opened
    /\ UNCHANGED <<fixed, call, listing, i, clean, dirs, calls, changes>>

\* A program closes a file with the date of another one, as COPY does
\* (_CloseFile, when the RPC comes through).
CloseWithDateOf(from, to) ==
    LET gmt == W.opt.gmtOffset
    IN  /\ pc = "dos" /\ calls < W.most
        /\ calls' = calls + 1
        /\ Exists(from) /\ Exists(to) /\ from # to
        /\ host' = [host EXCEPT ![to].time =
                       FatTimeToFTime(FTimeToFatTime(host[from].time, gmt),
                                      gmt)]
        /\ UNCHANGED <<fixed, cwd, pc, call, search, second, ax, target,
                       clean, dirs, fails, changes, touched>>

-----------------------------------------------------------------------------

Init ==
    /\ world \in DOMAIN Worlds /\ tables = Tables(W)
    /\ host \in W.hosts
    /\ cwd = [path |-> <<>>, want |-> <<>>]
    /\ pc = "dos" /\ call = NoCall
    /\ rest = <<>> /\ dest = <<>> /\ listing = <<>> /\ i = 0
    /\ second = FALSE
    /\ ax = "SUCCESS"
    /\ target = <<>>
    /\ clean = TRUE
    /\ dirs = 0 /\ fails = 0
    /\ calls = 0 /\ changes = 0 /\ touched = {}

Next ==
    \/ StartCall \/ StartSpace
    \/ LookupOpen \/ LookupRead \/ Handler
    \/ \E pair \in W.copies : CloseWithDateOf(pair[1], pair[2])
    \/ HostChange

Spec == Init /\ [][Next]_vars

-----------------------------------------------------------------------------
(* Properties.                                                             *)

Codes == {"SUCCESS", "FILENOTFND", "PATHNOTFND", "ACCESS", "NOTREADY",
          "none"}

\* The long path goes beyond the buffer by its terminator at most, whatever
\* the host lists: a path that fills the buffer to the last byte has its NUL
\* at index VMSHF_MAX_PATH, one byte behind the end.
\* (lfn.c:166, 236; unicode.c:127)
PathFits == Size(dest) + 1 <= MaxPath + 1

\* Types; RmDir, MkDir and ChDir never return DOS_FILENOTFND; and of the long
\* path and its terminator at most one byte is behind the buffer.
TypeOK ==
    /\ world \in DOMAIN Worlds
    /\ \A p \in DOMAIN host : host[p] \in Node
    /\ pc \in {"dos", "lookup", "read", "null", "opened"}
    /\ call \in Call
    /\ i \in 0..Len(listing)
    /\ second \in BOOLEAN /\ clean \in BOOLEAN
    /\ ax \in Codes
    /\ call.fn \in {"rmdir", "mkdir", "chdir"} => ax # "FILENOTFND"
    /\ dirs \in Nat
    /\ fails \in 0..MaxFail
    /\ calls \in 0..W.most /\ changes \in 0..MaxChange
    /\ PathFits

\* A call on the short names that a listing shows goes to the file that was
\* listed, and one on a new name to that name, unless another entry on the
\* way has the same short name or one that goes on after it, the name is not
\* one that comes back, a lookup failed, or the host changed meanwhile.
\* (lfn.c: LfnGetTrueLongName; vmdos.c: FNameToFcbName; unicode.c)
ReachesListed ==
    clean /\ pc \in {"dos", "opened"} => target = call.want

\* A lookup leaves no directory open on the host, however it ends, but for
\* the RPCs that failed.  (lfn.c: FindRealName)
LeakBound == dirs <= fails + (IF pc = "read" THEN 1 ELSE 0)

\* The current directory becomes one that the host has, unless an RPC fails;
\* asking for the free space leaves it, or one above it.
\* (redir.c: ChDir, GetDiskSpace; lfn.c: LfnGetTrueLongName)
CwdIsDir ==
    [][cwd' # cwd =>
        \/ call.fn = "chdir" /\ (IsDir(target') \/ fails' > fails)
        \/ call.fn = "space" /\ IsStrictPrefix(cwd'.path, cwd.path)]_vars

\* What a call returns is what became of the share in the whole of the call:
\* success when it was done, all of it and nothing else, an error when nothing
\* was.  There are two ways out: after DOS_NOTREADY it may be either; and an
\* open that the host has carried out and then refuses to describe returns
\* DOS_ACCESS (redir.c:661), with the file created or emptied.
\* (redir.c: RmDir, MkDir, SetFileAttrib, OpenOrCreateFile)
SaysWhatItDid ==
    [][pc # "dos" /\ pc' = "dos" =>
        LET p == target'
            undescribed == /\ pc = "opened" /\ ax' = "ACCESS"
                           /\ call.ext \cap {"create", "replace"} # {}
        IN  /\ touched' \subseteq {p}
            /\ call.fn \in {"chdir", "getattr", "space"} => touched' = {}
            /\ ax' \notin {"SUCCESS", "NOTREADY"} =>
                 touched' = {} \/ undescribed
            /\ ax' = "SUCCESS" =>
                /\ call.fn = "rmdir" =>
                     /\ IsDir(p) /\ Kids(p) = {}
                     /\ DOMAIN host' = DOMAIN host \ {p}
                /\ call.fn = "mkdir" =>
                     /\ ~Exists(p) /\ IsDir(Front1(p))
                     /\ p \in DOMAIN host' /\ host'[p].mode.dir
                /\ call.fn = "setattr" =>
                     FModeToFatAttr(host'[p].mode) \ {"subdir"}
                        = call.fat \ {"subdir"}]_vars

\* An open creates only where the program allows it and does where it asks
\* for it, loses data only where the program wants the file replaced, and
\* opens a file that is there only where it may.
\* (redir.c: SpecialOpen; vmdos.c: DosExtActionToOpenAction)
OpenMeans ==
    [][pc = "lookup" /\ call.fn = "open" /\ changes' = changes =>
        LET p == target'
        IN  /\ pc' = "opened" /\ ~Exists(p) => "create" \in call.ext
            /\ pc' = "opened" /\ Exists(p) =>
                 call.ext \cap {"open", "replace"} # {}
            /\ Exists(p) /\ host'[p].data # host[p].data =>
                 "replace" \in call.ext
            /\ pc' = "opened" /\ "replace" \in call.ext =>
                 ~host'[p].data \/ host'[p].mode.dir
            /\ pc' = "dos" /\ ax' = "FILENOTFND" =>
                 "create" \notin call.ext \/ ~IsDir(Front1(p))]_vars

Before(s, t) == \E k \in DOMAIN s : /\ s[k] < t[k]
                                   /\ \A l \in 1..k - 1 : s[l] = t[l]

Place ==
    LET is(p) == IF p THEN 1 ELSE 0
    IN  <<is(second), is(pc = "null"), is(pc = "opened"), Len(dest),
          is(pc = "read"), i>>

\* Every call returns: each of its steps brings it on, through the entries of
\* a directory, the components of the path and its requests, whatever fails
\* and whatever happens on the host.  (lfn.c: LfnGetTrueLongName)
CallsAdvance ==
    [][pc # "dos" /\ pc' # "dos" /\ changes' = changes =>
        /\ Before(Place, Place')
        /\ pc' = "read" => i' <= Len(listing')
        /\ pc' \in {"lookup", "read"} /\ second' = second =>
             Len(dest') + Len(rest') = Len(dest) + Len(rest)]_vars

\* The Gregorian calendar.
LeapYear(y) == y % 4 = 0 /\ (y % 100 # 0 \/ y % 400 = 0)

DaysIn(y, m) ==
    CASE m = 2 -> IF LeapYear(y) THEN 29 ELSE 28
      [] m \in {4, 6, 9, 11} -> 30
      [] m \in {1, 3, 5, 7, 8, 10, 12} -> 31

DaysSince1601(y, m, d) ==
    LET past == y - 1601
        Months[k \in 0..m - 1] ==
            IF k = 0 THEN 0 ELSE Months[k - 1] + DaysIn(y, k)
    IN  365 * past + (past \div 4) - (past \div 100) + (past \div 400)
        + Months[m - 1] + d - 1

\* 1980-01-01 to 2100-02-28, after which the code has a day too many: it
\* says so itself.  OldListedAs1980 is about the times before.
InRange(t) ==
    Moved(t, W.opt.gmtOffset).day \in
        DaysSince1601(1980, 1, 1)..DaysSince1601(2100, 2, 28)

FatTimeOf(path) == FTimeToFatTime(host[path].time, W.opt.gmtOffset)

\* A listing shows the date of the calendar and the time to two seconds, and
\* a file that is given the time of another one as listed, as COPY does, is
\* listed with that time.  (vmdos.c: FTimeToFatTime, FatTimeToFTime)
ListedTime ==
    \A p \in {q \in DOMAIN host : InRange(host[q].time)} :
        LET f == FatTimeOf(p)
            local == Moved(host[p].time, W.opt.gmtOffset)
        IN  /\ DaysSince1601(1980 + f.year, f.month, f.day) = local.day
            /\ f.day <= DaysIn(1980 + f.year, f.month)
            /\ 3600 * f.hour + 60 * f.min + 2 * f.sec
                 = local.sec - (local.sec % 2)
            /\ FTimeToFatTime(FatTimeToFTime(f, W.opt.gmtOffset),
                              W.opt.gmtOffset) = f

\* "DOS doesn't support dates before 1980/1/1" (vmdos.c:339): a file with an
\* older one is listed as of the first day that DOS knows.  (Not so: the days
\* from 1601 to 1980 are put in place of the days of the file and counted
\* from 1980, which lists it as of 2102-12-29.)
OldListedAs1980 ==
    \A p \in DOMAIN host :
        Moved(host[p].time, W.opt.gmtOffset).day < FILETIME_DELTA =>
            LET f == FatTimeOf(p)
            IN  f.year = 0 /\ f.month = 1 /\ f.day = 1
=============================================================================
