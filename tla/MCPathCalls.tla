---------------------------- MODULE MCPathCalls -----------------------------
(* PathCalls with shared folders that bring out what names can do: shares  *)
(* with lower case, long names, short names that collide, names that only  *)
(* differ in case, characters beyond ASCII, and a path at the limit of a   *)
(* small MaxPath; and times around the edges of the calendar.              *)
EXTENDS PathCalls

Printable == " !_#$%&'_)_+,-./0123456789:;<=>?@"
             \o "ABCDEFGHIJKLMNOPQRSTUVWXYZ[_]^__"
             \o "abcdefghijklmnopqrstuvwxyz{|}~"

\* A string of printable ASCII characters as bytes.
Ascii(s) ==
    LET code(c) == 31 + CHOOSE n \in 1..Len(Printable) :
                            SubSeq(Printable, n, n) = c
    IN  SubSeq([k \in 1..Len(s) |-> code(SubSeq(s, k, k))], 1, Len(s))

\* e acute and E acute as in code page 437, and a line of box drawing, which
\* takes three bytes.
Page == [b \in 128..255 |-> CASE b = 130 -> 233
                              [] b = 144 -> 201
                              [] b = 196 -> 9472
                              [] b \notin {130, 144, 196} -> 57344 + b]

Capitals == [b \in 128..255 |-> IF b = 130 THEN 144 ELSE b]

FileNameChars ==
    [illegal |-> Bytes(Ascii("./[]:|<>+=;,")) \cup {34, 92},
     lowest |-> 0, highest |-> 255, firstX |-> 0, lastX |-> 32]

Options(lfn, chars, cs, gmt) ==
    [page |-> Page, lfn |-> lfn, manglingChars |-> chars,
     caseSensitive |-> cs, gmtOffset |-> gmt]

Noon(day) == [day |-> day, sec |-> 43201]
File(fat, t) == [mode |-> FatAttrToFMode(fat), time |-> t, data |-> TRUE]
Folder == File({"subdir"}, Noon(150000))

\* The root, and what is at the given paths.
Share(folders, files) ==
    [p \in {<<>>} \cup folders \cup files |->
        IF p \in files THEN File({"arch"}, Noon(150001)) ELSE Folder]

Calls(fn, wants, exts, fats, flags) ==
    [fn : {fn}, want : wants, ext : exts, fat : fats, flag : flags]

Plain(fns, wants) == UNION {Calls(fn, wants, {{}}, {{}}, {FALSE}) : fn \in fns}

\* Every call on a path but the opens; the opens.
On(path) ==
    Plain({"rmdir", "mkdir", "chdir", "getattr"}, {path})
        \cup Calls("setattr", {path}, {{}}, {{"rdonly"}, {"arch", "subdir"}},
                   BOOLEAN)

\* DOS refuses other actions itself.
Exts == {{"open"}, {"create"}, {"create", "open"}, {"replace"},
         {"create", "replace"}}

Opens(path) == Calls("open", {path}, Exts, {{"hidden"}}, {FALSE})

FreeSpace(flags) == Calls("space", {<<>>}, {{}}, {{}}, flags)

World(opt, tree, asked, most, others) ==
    [opt |-> opt, hosts |-> {tree}, calls |-> asked, most |-> most,
     others |-> others, copies |-> {}, now |-> Noon(151000)]

In(dir, s) == Append(dir, Ascii(s))

-----------------------------------------------------------------------------

Docs == In(<<>>, "Docs")
Long == In(Docs, "This is a long file.name")
Sub == In(Docs, "sub")
TooLong == In(Docs, "This one does not fit in the buffer")

\* A share in mixed case with a long name, a short one and one to come.
LongNames ==
    World(Options(TRUE, 3, FALSE, 3600),
          Share({Docs, Sub}, {Long}),
          On(Long) \cup On(Sub) \cup On(In(Sub, "NEW"))
            \cup FreeSpace(BOOLEAN)
            \cup Opens(Long) \cup Opens(In(Sub, "NEW")) \cup Opens(Sub),
          1, {Long, Sub})

\* The current directory of DOS, and what becomes of it.
Current ==
    World(Options(TRUE, 3, FALSE, 3600),
          Share({Docs, Sub}, {Long}),
          FreeSpace({TRUE}) \cup Plain({"chdir"}, {<<>>, Sub})
            \cup Plain({"rmdir"}, {Sub}) \cup Plain({"getattr"}, {TooLong}),
          3, {TooLong})

\* Paths that fill the buffer to the last byte, and go on from there.
Limit ==
    LET deep == In(Docs, "A name which leaves 2 bytes free")
        full == In(deep, "B")
    IN  World(Options(TRUE, 3, FALSE, 0), Share({Docs, deep, full}, {}),
              Plain({"getattr", "mkdir"},
                    {full, In(deep, "A~1"), In(full, "A~1")}),
              1, {full})

\* Short names that collide, and one that another one goes on from.
Same1 == In(Docs, "Notes of January")
Same2 == In(Docs, "Notes of eleven")
ATilde == In(Docs, "A~1")
OfTilde == In(Docs, "A~12.TXT")

Collisions ==
    World(Options(TRUE, 2, FALSE, 0),
          Share({Docs}, {Same1, Same2, ATilde}),
          Plain({"getattr"}, {Same1, Same2, ATilde, OfTilde})
            \cup Calls("open", {Same1, ATilde}, {{"create", "replace"}}, {{}},
                       {FALSE}),
          1, {OfTilde, Same2})

\* Short names that differ in their extensions only.
Extensions ==
    LET both == {In(Docs, "B~1.TXT"), In(Docs, "B~1.DOC")}
    IN  World(Options(TRUE, 2, FALSE, 0), Share({Docs}, both),
              Plain({"getattr"}, both), 1, both)

\* Names that differ in case only, on a host that tells them apart.
DATA == In(<<>>, "DATA")
Cases ==
    World(Options(TRUE, 2, TRUE, 0),
          Share({DATA}, {In(DATA, "read.me"), In(DATA, "READ.ME"),
                        In(DATA, "Read.Me")}),
          Plain({"getattr"}, {In(DATA, "read.me"), In(DATA, "READ.ME"),
                            In(DATA, "Read.Me")}),
          1, {In(DATA, "read.me")})

\* Without LFN only short names are there, in any case.
ShortNames ==
    World(Options(FALSE, 3, FALSE, 0),
          Share({DATA, In(DATA, "sub")},
               {In(DATA, "readme.txt"), In(DATA, "too long a name"),
                In(In(DATA, "sub"), "a.b")}),
          On(In(DATA, "readme.txt")) \cup On(In(In(DATA, "sub"), "a.b"))
            \cup Plain({"rmdir"}, {In(DATA, "sub")}),
          1, {In(DATA, "readme.txt")})

\* Names with bytes above 127; without LFN capitals only.
Accents(lfn) ==
    LET name(bytes) == Append(DATA, bytes \o Ascii(".TXT"))
        lower == name(<<195, 169>>)
        upper == name(<<195, 137, 65>>)
        line == name(<<226, 148, 128>>)
    IN  World(Options(lfn, 2, FALSE, 0),
              Share({DATA}, {upper, line} \cup {p \in {lower} : lfn}),
              Plain({"getattr"}, {upper, line} \cup {p \in {lower} : lfn}),
              1, {upper})

\* Dates around the ends of years and of months, and of the calendar of
\* FAT; times around midnight and in odd seconds.
Days == {138425, 138426, 138484, 138485, 138486, 138790, 138791, 138792,
         145731, 145732, 150000, 152642, 152643, 182300, 182301, 182302}

Times(gmtOffset) ==
    LET at(p, t) == [Share({}, {<<<<65>>>>, <<<<66>>>>}) EXCEPT ![p].time = t]
    IN  [World(Options(FALSE, 3, FALSE, gmtOffset), Share({}, {}), {}, 1, {})
           EXCEPT !.hosts = {at(<<<<65>>>>, [day |-> d, sec |-> s]) :
                               d \in Days, s \in {0, 43201, 86399}},
                  !.copies = {<< <<<<65>>>>, <<<<66>>>> >>}]

AllWorlds ==
    [long |-> LongNames, current |-> Current, limit |-> Limit,
     collide |-> Collisions, extensions |-> Extensions, cases |-> Cases,
     short |-> ShortNames, accents |-> Accents(TRUE),
     accentsShort |-> Accents(FALSE), east |-> Times(-7200),
     west |-> Times(18000)]

\* TLC evaluates a definition once, but not one that stands for a constant.
MCFUcase == Capitals
MCFChar == FileNameChars
MCWorlds == AllWorlds
=============================================================================
