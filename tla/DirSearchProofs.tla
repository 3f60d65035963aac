-------------------------- MODULE DirSearchProofs ---------------------------
(***************************************************************************)
(* Proofs about DirSearch, for any number of files, programs, directory    *)
(* handles, masks, failing RPCs and dropped searches.                      *)
(***************************************************************************)
EXTENDS DirSearch, FiniteSetTheorems, TLAPS

-----------------------------------------------------------------------------
(* The inductive invariant.                                                *)

Distinct(l) == \A x, y \in DOMAIN l : l[x] = l[y] => x = y

\* A search lists each name once, and no call goes on beyond the last entry
\* but by RPCs that fail.
Sound(s) ==
    /\ Distinct(s.list)
    /\ Len(s.list) <= Cardinality(Names)
    /\ s.entry <= Cardinality(Names) + fails
    /\ s.ours => s.mask \in Masks

\* What the DTA of a program is between two calls.
DtaInv ==
    \A d \in Dtas :
        /\ ~dta[d].ours => dta[d] = Idle /\ seen[d] = <<>>
        /\ dta[d].handle # NoHandle =>
             /\ search[dta[d].handle] = dta[d].list
             /\ \A e \in Dtas : dta[e].handle = dta[d].handle => e = d

\* What the SDA is, between two calls and during one.
SdaInv ==
    /\ pc = "dos" => sdb = Idle /\ ~first /\ error = "ok"
    /\ pc # "dos" => sdb.ours
    /\ pc # "dos" /\ op = "find" =>
         IF first THEN ~dta[who].ours ELSE dta[who] = sdb
    /\ sdb.handle # NoHandle =>
         /\ search[sdb.handle] = sdb.list
         /\ \A d \in Dtas : dta[d].handle = sdb.handle =>
               op = "find" /\ who = d /\ pc # "dos"
    /\ first \/ pc = "read" => sdb.handle # NoHandle
    /\ pc = "act" =>
         op # "find" /\ ~first /\ sdb.name \in sdb.mask.match \cap Names

SoundInv ==
    /\ Sound(sdb) /\ \A d \in Dtas : Sound(dta[d])
    /\ i <= Cardinality(Names) + fails

KeptInv == TypeOK /\ DtaInv /\ SdaInv /\ SoundInv

\* No matching file comes after the entry last read when the search is closed.
Closed(s) ==
    s.handle = NoHandle =>
        \A x \in DOMAIN s.list : s.list[x] \in s.mask.match => x <= s.entry

\* The sequence q reports what matches among the first e names of l.
Reported(q, l, match, e) ==
    /\ \A k \in DOMAIN q : q[k] \in match /\ \E x \in 1..e : q[k] = l[x]
    /\ \A x \in 1..e : l[x] \in match => \E k \in DOMAIN q : q[k] = l[x]
    /\ \A j, k \in DOMAIN q : j < k =>
         \E x, y \in 1..e : x < y /\ q[j] = l[x] /\ q[k] = l[y]

\* The sequence q is what the search s has come to.
Reports(q, s) ==
    /\ s.entry <= Len(s.list)
    /\ Closed(s)
    /\ Reported(q, s.list, s.mask.match, s.entry)

\* Where a call is while no RPC has failed.
WalkInv ==
    fails = 0 /\ pc # "dos" =>
        /\ ax = "ok"
        /\ sdb.entry <= Len(sdb.list)
        /\ Closed(sdb)
        /\ first => sdb.entry = 0
        /\ pc = "read" =>
             /\ i \in sdb.entry..Len(sdb.list)
             /\ \A x \in DOMAIN sdb.list :
                  x > sdb.entry /\ x <= i => sdb.list[x] \notin sdb.mask.match
        /\ pc = "act" => sdb.entry > 0 /\ sdb.name = sdb.list[sdb.entry]

ReportInv ==
    fails = 0 => \A d \in Dtas : dta[d].ours => Reports(seen[d], dta[d])

\* A deletion has removed what it has read, but for read-only files and the
\* one it is about to delete, and what it has not read is there.
DeleteInv ==
    fails = 0 /\ pc # "dos" /\ op = "delete" =>
        /\ dir \cap sdb.mask.match \subseteq Elements(sdb.list)
        /\ \A x \in DOMAIN sdb.list :
             x > sdb.entry \/ (pc = "act" /\ x = sdb.entry) =>
                sdb.list[x] \in dir
        /\ \A x \in DOMAIN sdb.list :
             /\ x <= sdb.entry /\ ~(pc = "act" /\ x = sdb.entry)
             /\ sdb.list[x] \in sdb.mask.match \cap dir
             => sdb.list[x] \in ReadOnly /\ error = "access"
        /\ error = "access" => dir \cap sdb.mask.match \cap ReadOnly # {}

\* A renaming has moved what it has read, but for the one it is about to.
RenameInv ==
    fails = 0 /\ pc # "dos" /\ op = "rename" =>
        \A n \in dir \cap sdb.mask.match : move[n] # n =>
            \E x \in DOMAIN sdb.list :
                /\ sdb.list[x] = n
                /\ x > sdb.entry \/ (pc = "act" /\ x = sdb.entry)

\* A call that has met a failing RPC may lose its search for it.
Due == IF pc # "dos" /\ ax = "notready" THEN 1 ELSE 0

LeakInv ==
    /\ IsFiniteSet(Orphans)
    /\ Cardinality(Orphans) + Due <= fails + drops
    /\ pc # "dos" => ax \in {"ok", "notready"}

-----------------------------------------------------------------------------
(* Listings and records.                                                   *)

LEMMA Bounds ==
    /\ Cardinality(Names) \in Nat
    /\ \A D \in SUBSET Names : /\ IsFiniteSet(D) /\ Cardinality(D) \in Nat
                              /\ Cardinality(D) <= Cardinality(Names)
<1>1. IsFiniteSet(Names)
  BY DirSearchAssumption
<1> QED
  BY <1>1, FS_Subset, FS_CardinalityType

\* The host lists each file of the directory once.
LEMMA ListingsList ==
    ASSUME dir \in SUBSET Names, NEW l \in Listings
    PROVE  /\ l \in Seq(Names) /\ l # NoSearch
           /\ Len(l) \in Nat /\ Len(l) <= Cardinality(Names)
           /\ DOMAIN l = 1..Len(l)
           /\ Distinct(l)
           /\ Elements(l) = dir
<1> DEFINE n == Cardinality(dir)
<1>1. n \in Nat /\ n <= Cardinality(Names) /\ IsFiniteSet(dir)
  BY Bounds
<1>2. l \in [1..n -> dir] /\ \A f \in dir : \E k \in DOMAIN l : l[k] = f
  BY DEF Listings
<1>3. l \in Seq(Names) /\ Len(l) = n /\ DOMAIN l = 1..n
  <2>1. l \in [1..n -> Names]
    BY <1>2
  <2> QED
    BY <1>1, <2>1
<1>4. l # NoSearch
  BY <1>3, DirSearchAssumption
<1>5. l \in Surjection(1..n, dir)
  BY <1>2, <1>3 DEF Surjection
<1>6. IsFiniteSet(1..n) /\ Cardinality(1..n) = n
  BY <1>1, FS_Interval
<1>7. l \in Injection(1..n, dir)
  BY <1>5, <1>6, FS_Surjection
<1>8. Distinct(l)
  BY <1>3, <1>7 DEF Injection, IsInjective, Distinct
<1>9. Elements(l) = dir
  BY <1>2, <1>3 DEF Elements
<1> QED
  BY <1>1, <1>3, <1>4, <1>8, <1>9

LEMMA IdleType == Idle \in SDB
  BY DEF Idle, SDB, Mask

\* What Found, Ended and Return hand over.
LEMMA Update ==
    ASSUME NEW s \in SDB, NEW n \in Names \cup {NoName}, NEW e \in Nat,
           NEW h \in Handles \cup {NoHandle}
    PROVE  /\ [s EXCEPT !.name = n, !.entry = e] \in SDB
           /\ [[s EXCEPT !.name = n, !.entry = e] EXCEPT !.handle = h] \in SDB
           /\ [s EXCEPT !.handle = h] \in SDB
  BY DEF SDB

\* TypeOK in parts.
DataType ==
    /\ dir \in SUBSET Names
    /\ search \in [Handles -> Seq(Names) \cup {NoSearch}]
    /\ dta \in [Dtas -> SDB] /\ sdb \in SDB
    /\ seen \in [Dtas -> Seq(Names)]

ControlType ==
    /\ pc \in {"dos", "next", "read", "act"}
    /\ op \in {"find", "delete", "rename"}
    /\ who \in Dtas /\ move \in Moves
    /\ first \in BOOLEAN
    /\ i \in Nat
    /\ ax \in Codes /\ error \in {"ok", "access"}
    /\ fails \in 0..MaxFail /\ drops \in 0..MaxDrop

LEMMA TypeParts == TypeOK <=> DataType /\ ControlType
  BY DEF TypeOK, DataType, ControlType

\* The variables that Return assigns keep their types.
ReturnType ==
    /\ dta' \in [Dtas -> SDB] /\ sdb' \in SDB
    /\ seen' \in [Dtas -> Seq(Names)]
    /\ pc' \in {"dos", "next", "read", "act"}
    /\ first' \in BOOLEAN
    /\ i' \in Nat
    /\ ax' \in Codes /\ error' \in {"ok", "access"}

LEMMA ReturnTypes ==
    ASSUME TypeOK, NEW s \in SDB, NEW code \in Codes,
           code = "ok" => s.name \in Names, Return(s, code)
    PROVE  ReturnType
<1>1. sdb' \in SDB
  BY IdleType DEF Return
<1>2. dta' \in [Dtas -> SDB]
  BY IdleType DEF Return, Answer, TypeOK
<1>3. seen' \in [Dtas -> Seq(Names)]
  <2>1. who \in Dtas /\ seen[who] \in Seq(Names)
    BY DEF TypeOK
  <2>2. code = "ok" => Append(seen[who], s.name) \in Seq(Names)
    BY <2>1
  <2>3. <<>> \in Seq(Names)
    OBVIOUS
  <2> QED
    BY <2>1, <2>2, <2>3 DEF Return, Answer, TypeOK
<1> QED
  BY <1>1, <1>2, <1>3 DEF Return, ReturnType

LEMMA FindDoneTypes ==
    ASSUME TypeOK, NEW s \in SDB, NEW code \in Codes,
           code = "ok" => s.name \in Names, FindDone(s, code)
    PROVE  ReturnType
<1> DEFINE rc == IF first /\ code = "nfiles" THEN "filenotfnd" ELSE code
<1>1. rc \in Codes /\ (rc = "ok" => s.name \in Names)
  BY DEF Codes
<1>2. CASE op = "find" /\ Return(s, rc)
  BY <1>1, <1>2, ReturnTypes
<1>3. CASE op # "find" /\ rc # "ok" /\ LoopDone(s, rc)
  <2>1. \E c \in Codes : Return(s, c)
    BY <1>1, <1>3 DEF LoopDone, TypeOK, Codes
  <2>2. op # "find" => ReturnType
    <3>1. ASSUME NEW c \in Codes, Return(s, c), op # "find"
          PROVE  ReturnType
      BY <3>1, IdleType DEF Return, ReturnType, TypeOK
    <3> QED
      BY <2>1, <3>1
  <2> QED
    BY <1>3, <2>2
<1>4. CASE /\ op # "find" /\ rc = "ok"
           /\ pc' = "act" /\ sdb' = s /\ first' = FALSE /\ ax' = rc
           /\ UNCHANGED <<i, error, dta, seen>>
  BY <1>1, <1>4 DEF ReturnType, TypeOK
<1> QED
  BY <1>2, <1>3, <1>4 DEF FindDone

LEMMA CountTypes ==
    ASSUME TypeOK, NEW n \in Nat, CountFails(n)
    PROVE  fails' \in 0..MaxFail /\ fails' = fails + n
  BY DirSearchAssumption DEF CountFails, TypeOK

LEMMA LostType == \A o \in Outcomes : Lost(o) \in {0, 1}
  BY DEF Lost

LEMMA CloseDirTypes ==
    ASSUME TypeOK, NEW h, NEW n \in Nat, CloseDir(h, n)
    PROVE  /\ search' \in [Handles -> Seq(Names) \cup {NoSearch}]
           /\ fails' \in 0..MaxFail
<1>1. PICK o \in Outcomes :
        /\ CountFails(n + Lost(o))
        /\ search' = IF o \in Executed THEN [search EXCEPT ![h] = NoSearch]
                                       ELSE search
  BY DEF CloseDir
<1>2. n + Lost(o) \in Nat
  BY LostType
<1> QED
  BY <1>1, <1>2, CountTypes DEF TypeOK

LEMMA FoundTypes ==
    ASSUME TypeOK, NEW n \in Names, NEW code \in Codes, NEW failed \in Nat,
           Found(n, code, failed)
    PROVE  /\ ReturnType
           /\ search' \in [Handles -> Seq(Names) \cup {NoSearch}]
           /\ fails' \in 0..MaxFail
<1> DEFINE s == [sdb EXCEPT !.name = n, !.entry = i + 1]
<1>1. sdb \in SDB /\ i + 1 \in Nat
  BY DEF TypeOK
<1>2. s \in SDB /\ [s EXCEPT !.handle = NoHandle] \in SDB
  BY <1>1, Update
<1>3. s.name = n /\ [s EXCEPT !.handle = NoHandle].name = n
  BY <1>1 DEF SDB
<1>4. CASE sdb.mask.wild /\ FindDone(s, code) /\ CountFails(failed)
           /\ UNCHANGED search
  <2>1. ReturnType
    BY <1>2, <1>3, <1>4, FindDoneTypes
  <2> QED
    BY <1>4, <2>1, CountTypes DEF TypeOK
<1>5. CASE FindDone([s EXCEPT !.handle = NoHandle], code)
           /\ CloseDir(sdb.handle, failed)
  <2>1. ReturnType
    BY <1>2, <1>3, <1>5, FindDoneTypes
  <2> QED
    BY <1>5, <2>1, CloseDirTypes
<1> QED
  BY <1>4, <1>5 DEF Found

LEMMA FirstTypes ==
    ASSUME TypeOK, NEW m \in Masks, _FindFirst(m), op' \in {"find", "delete",
           "rename"}, who' \in Dtas, move' \in Moves
    PROVE  TypeOK'
<1>1. /\ UNCHANGED <<dir, dta, i, seen, drops>> /\ error' = "ok"
      /\ m \in Mask
  BY DirSearchAssumption DEF _FindFirst
<1>2. ASSUME NEW h \in Handles, NEW l \in Listings, search[h] = NoSearch,
             search' = [search EXCEPT ![h] = l],
             \/ /\ pc' = "next" /\ first' = TRUE /\ ax' = "ok"
                /\ sdb' = [ours |-> TRUE, mask |-> m, entry |-> 0,
                           handle |-> h, name |-> NoName, list |-> l]
                /\ UNCHANGED fails
             \/ /\ CountFails(1) /\ ax' = "notready"
                /\ UNCHANGED <<pc, first, sdb>>
      PROVE  TypeOK'
  <2>1. l \in Seq(Names)
    BY ListingsList DEF TypeOK
  <2>2. search' \in [Handles -> Seq(Names) \cup {NoSearch}]
    BY <1>2, <2>1 DEF TypeOK
  <2>3. [ours |-> TRUE, mask |-> m, entry |-> 0, handle |-> h,
         name |-> NoName, list |-> l] \in SDB
    BY <1>1, <2>1 DEF SDB
  <2>4. sdb' \in SDB
    BY <1>2, <2>3 DEF TypeOK
  <2>5. fails' \in 0..MaxFail
    BY <1>2, CountTypes DEF TypeOK
  <2>6. /\ pc' \in {"dos", "next", "read", "act"}
        /\ first' \in BOOLEAN /\ ax' \in Codes
    BY <1>2 DEF TypeOK, Codes
  <2>7. DataType' /\ ControlType'
    BY <1>1, <2>2, <2>4, <2>5, <2>6 DEF TypeOK, DataType, ControlType
  <2> QED
    BY <2>7 DEF TypeOK, DataType, ControlType
<1>3. ASSUME NEW o \in {"status", "lostreq"}, CountFails(Lost(o)),
             ax' = IF o = "status" THEN "status" ELSE "notready",
             UNCHANGED <<search, pc, first, sdb>>
      PROVE  TypeOK'
  <2>1. fails' \in 0..MaxFail
    <3>1. Lost(o) \in Nat
      BY DEF Lost
    <3> QED
      BY <1>3, <3>1, CountTypes
  <2> QED
    BY <1>1, <1>3, <2>1 DEF TypeOK, Codes
<1> QED
  BY <1>2, <1>3 DEF _FindFirst

LEMMA ReadTypes ==
    ASSUME TypeOK, ReadDir
    PROVE  TypeOK'
<1>1. UNCHANGED <<dir, op, who, move, drops>>
  BY DEF ReadDir
<1>2. ASSUME ReturnType,
             search' \in [Handles -> Seq(Names) \cup {NoSearch}],
             fails' \in 0..MaxFail
      PROVE  TypeOK'
  BY <1>1, <1>2 DEF TypeOK, ReturnType
<1>3. sdb \in SDB /\ sdb.mask.match \subseteq Names /\ ax \in Codes
  BY DEF TypeOK, SDB, Mask
<1>4. ASSUME NEW code \in {"status", "nfiles"}, Ended(code)
      PROVE  TypeOK'
  <2>1. [sdb EXCEPT !.handle = NoHandle] \in SDB
    BY <1>3, Update
  <2>2. ReturnType
    BY <1>4, <2>1, FindDoneTypes DEF Ended, Codes
  <2> QED
    BY <1>2, <1>4, <2>2, CloseDirTypes DEF Ended
<1>5. ASSUME NEW n \in sdb.mask.match, Found(n, ax, 0)
      PROVE  TypeOK'
  <2>1. n \in Names
    BY <1>3
  <2> QED
    BY <1>2, <1>3, <1>5, <2>1, FoundTypes
<1>6. ASSUME NEW n \in sdb.mask.match, Found(n, "notready", 1)
      PROVE  TypeOK'
  <2>1. n \in Names /\ "notready" \in Codes
    BY <1>3 DEF Codes
  <2> QED
    BY <1>2, <1>6, <2>1, FoundTypes
<1>7. CASE GoOn /\ UNCHANGED <<ax, search, fails>>
  BY <1>1, <1>7 DEF GoOn, TypeOK
<1>8. CASE GoOn /\ CountFails(1) /\ ax' = "notready" /\ UNCHANGED search
  BY <1>1, <1>8, CountTypes DEF GoOn, TypeOK, Codes
<1> QED
  BY <1>4, <1>5, <1>6, <1>7, <1>8 DEF ReadDir

LEMMA ActTypes ==
    ASSUME TypeOK, sdb.name \in Names, DeleteOne \/ RenameOne
    PROVE  TypeOK'
<1>1. UNCHANGED <<search, op, who, move>>
  BY DEF DeleteOne, RenameOne
<1>2. CASE GiveUp
  <2>1. sdb \in SDB /\ "status" \in Codes
    BY DEF TypeOK, Codes
  <2>2. ReturnType
    BY <1>2, <2>1, ReturnTypes DEF GiveUp
  <2>3. drops' \in 0..MaxDrop
    BY <1>2, DirSearchAssumption DEF GiveUp, TypeOK
  <2> QED
    BY <1>1, <1>2, <2>2, <2>3 DEF GiveUp, TypeOK, ReturnType
<1>3. ASSUME NEW o \in Outcomes, NEW D \in SUBSET Names, Changed(o, D)
      PROVE  TypeOK'
  <2>1. fails' \in 0..MaxFail
    <3>1. Lost(o) \in Nat
      BY LostType
    <3> QED
      BY <1>3, <3>1, CountTypes DEF Changed
  <2>2. ax' \in Codes /\ dir' \in SUBSET Names
    BY <1>3 DEF Changed, GoToNext, Codes, TypeOK
  <2> QED
    BY <1>1, <1>3, <2>1, <2>2 DEF Changed, GoToNext, TypeOK
<1>4. dir \ {sdb.name} \in SUBSET Names
  BY DEF TypeOK
<1>5. Renamed(sdb.name) \in SUBSET Names
  BY DirSearchAssumption DEF Renamed, TypeOK
<1>6. CASE error' = "access" /\ GoToNext("ok") /\
           UNCHANGED <<dir, fails, drops>>
  BY <1>1, <1>6 DEF GoToNext, TypeOK, Codes
<1> QED
  BY <1>2, <1>3, <1>4, <1>5, <1>6 DEF DeleteOne, RenameOne

LEMMA NextTypes ==
    ASSUME TypeOK, pc = "act" => sdb.name \in Names, [Next]_vars
    PROVE  TypeOK'
<1>1. ASSUME NEW d \in Dtas, NEW m \in Masks, FindFirst(d, m)
      PROVE  TypeOK'
  BY <1>1, FirstTypes DEF FindFirst, TypeOK
<1>2. ASSUME NEW d \in Dtas, FindVolumeLabel(d) \/ FindNext(d)
      PROVE  TypeOK'
  BY <1>2 DEF FindVolumeLabel, FindNext, TypeOK, Codes
<1>3. ASSUME NEW d \in Dtas, DosDrop(d)
      PROVE  TypeOK'
  <2>1. dta' \in [Dtas -> SDB] /\ seen' \in [Dtas -> Seq(Names)]
    BY <1>3, IdleType DEF DosDrop, TypeOK
  <2>2. drops' \in 0..MaxDrop
    BY <1>3, DirSearchAssumption DEF DosDrop, TypeOK
  <2> QED
    BY <1>3, <2>1, <2>2 DEF DosDrop, TypeOK
<1>4. ASSUME NEW m \in Masks, DeleteFile(m)
      PROVE  TypeOK'
  BY <1>4, FirstTypes DEF DeleteFile, TypeOK
<1>5. ASSUME NEW m \in Masks, NEW f \in Moves, RenameFile(m, f)
      PROVE  TypeOK'
  <2>1. CASE op' = "rename" /\ move' = f /\ _FindFirst(m) /\ UNCHANGED who
    BY <2>1, FirstTypes DEF TypeOK
  <2>2. CASE op' = "rename" /\ ax' = "device" /\
             UNCHANGED <<dir, search, dta, sdb, pc, who, move, first, i,
                         error, seen, fails, drops>>
    BY <2>2 DEF TypeOK, Codes
  <2> QED
    BY <1>5, <2>1, <2>2 DEF RenameFile
<1>6. CASE _FindNext
  <2>1. CASE FindDone(sdb, "nfiles")
    <3>1. ReturnType
      BY <2>1, FindDoneTypes DEF TypeOK, Codes
    <3> QED
      BY <1>6, <3>1 DEF _FindNext, TypeOK, ReturnType
  <2>2. CASE pc' = "read" /\ i' = sdb.entry /\
             UNCHANGED <<sdb, ax, first, error, dta, seen>>
    BY <1>6, <2>2 DEF _FindNext, TypeOK, SDB
  <2> QED
    BY <1>6, <2>1, <2>2 DEF _FindNext
<1>7. CASE ReadDir
  BY <1>7, ReadTypes
<1>8. CASE DeleteOne \/ RenameOne
  BY <1>8, ActTypes DEF DeleteOne, RenameOne
<1>9. ASSUME NEW n \in Names, FileAppears(n)
      PROVE  TypeOK'
  BY <1>9 DEF FileAppears, TypeOK
<1>10. CASE UNCHANGED vars
  BY <1>10 DEF vars, TypeOK
<1> QED
  BY <1>1, <1>2, <1>3, <1>4, <1>5, <1>6, <1>7, <1>8, <1>9, <1>10 DEF Next

-----------------------------------------------------------------------------
(* Directory handles.                                                      *)

\* The shape of a record.
LEMMA Fields ==
    ASSUME NEW s \in SDB
    PROVE  /\ s.handle \in Handles \cup {NoHandle} /\ s.list \in Seq(Names)
           /\ s.list # NoSearch /\ s.entry \in Nat
           /\ s.mask.match \subseteq Names
           /\ Len(s.list) \in Nat /\ DOMAIN s.list = 1..Len(s.list)
<1>1. /\ s.handle \in Handles \cup {NoHandle} /\ s.list \in Seq(Names)
      /\ s.entry \in Nat /\ s.mask.match \subseteq Names
  BY DEF SDB, Mask
<1> QED
  BY <1>1, DirSearchAssumption

LEMMA IdleSound == ASSUME fails \in Nat PROVE Sound(Idle)
<1>1. Cardinality(Names) \in Nat
  BY Bounds
<1>2. Distinct(<<>>) /\ Len(<<>>) = 0
  BY DEF Distinct
<1> QED
  BY <1>1, <1>2 DEF Sound, Idle

\* The record that a call works on when it has read an entry or ended: its
\* search is the same, or has been given up.
SameSearch(s) ==
    /\ s \in SDB
    /\ s.ours /\ s.list = sdb.list /\ s.mask = sdb.mask
    /\ s.handle \in {sdb.handle, NoHandle}

\* The host has closed no search but that one.
OthersOpen ==
    \A h \in Handles : h # sdb.handle => search'[h] = search[h]

LEMMA ReturnKeeps ==
    ASSUME TypeOK, DtaInv, SdaInv, pc # "dos", NEW s, SameSearch(s), NEW code,
           Return(s, code), UNCHANGED <<op, who>>, OthersOpen,
           code = "ok" /\ s.handle # NoHandle => search' = search
    PROVE  DtaInv' /\ SdaInv'
<1>1. /\ NoHandle \notin Handles
      /\ \A d \in Dtas : dta[d].handle \in Handles \cup {NoHandle}
  BY Fields, DirSearchAssumption DEF TypeOK
<1>2. SdaInv'
  BY <1>1 DEF Return, SdaInv, Idle
<1>3. \A d \in Dtas : dta[d].handle = sdb.handle /\ sdb.handle # NoHandle =>
         op = "find" /\ who = d
  BY DEF SdaInv
\* The other programs' searches.
<1>4. ASSUME NEW d \in Dtas, dta'[d] = dta[d], seen'[d] = seen[d],
             op # "find" \/ who # d
      PROVE  /\ ~dta'[d].ours => dta'[d] = Idle /\ seen'[d] = <<>>
             /\ dta'[d].handle # NoHandle =>
                  /\ search'[dta'[d].handle] = dta'[d].list
                  /\ dta'[d].handle # sdb.handle
  BY <1>1, <1>3, <1>4 DEF DtaInv, OthersOpen
<1>5. CASE op # "find"
  <2>1. dta' = dta /\ seen' = seen
    BY <1>5 DEF Return
  <2> QED
    BY <1>2, <1>4, <1>5, <2>1 DEF DtaInv
<1>6. CASE op = "find" /\ code # "ok"
  <2>1. /\ dta' = [dta EXCEPT ![who] = Idle]
        /\ seen' = [seen EXCEPT ![who] = <<>>]
    BY <1>6 DEF Return, Answer
  <2>2. /\ dta'[who] = Idle /\ seen'[who] = <<>>
        /\ \A d \in Dtas : d # who => dta'[d] = dta[d] /\ seen'[d] = seen[d]
    BY <2>1 DEF TypeOK
  <2>3. Idle.handle = NoHandle
    BY DEF Idle
  <2> QED
    BY <1>2, <1>4, <2>2, <2>3 DEF DtaInv
<1>7. CASE op = "find" /\ code = "ok"
  <2>1. /\ dta' = [dta EXCEPT ![who] = s]
        /\ \A d \in Dtas : d # who => seen'[d] = seen[d]
    BY <1>7 DEF Return, Answer, TypeOK
  <2>2. /\ dta'[who] = s
        /\ \A d \in Dtas : d # who => dta'[d] = dta[d]
    BY <2>1 DEF TypeOK
  <2>3. /\ s.ours
        /\ s.handle # NoHandle =>
             s.handle = sdb.handle /\ search'[s.handle] = s.list
    BY <1>7 DEF SameSearch, SdaInv
  <2>4. ASSUME NEW d \in Dtas
        PROVE  /\ ~dta'[d].ours => dta'[d] = Idle /\ seen'[d] = <<>>
               /\ dta'[d].handle # NoHandle =>
                    search'[dta'[d].handle] = dta'[d].list
    BY <1>4, <2>1, <2>2, <2>3
  <2>5. ASSUME NEW d \in Dtas, NEW e \in Dtas, dta'[d].handle # NoHandle,
               dta'[e].handle = dta'[d].handle
        PROVE  e = d
    BY <1>4, <2>1, <2>2, <2>3, <2>5 DEF DtaInv
  <2> QED
    BY <1>2, <2>4, <2>5 DEF DtaInv
<1> QED
  BY <1>5, <1>6, <1>7

LEMMA FindDoneKeeps ==
    ASSUME TypeOK, DtaInv, SdaInv, pc # "dos", NEW s, SameSearch(s), NEW code,
           FindDone(s, code), UNCHANGED <<op, who>>, OthersOpen,
           code = "ok" /\ s.handle # NoHandle => search' = search,
           code = "ok" => s.name \in sdb.mask.match
    PROVE  DtaInv' /\ SdaInv'
<1> DEFINE rc == IF first /\ code = "nfiles" THEN "filenotfnd" ELSE code
<1>1. rc = "ok" => code = "ok"
  OBVIOUS
<1>2. CASE op = "find" /\ Return(s, rc)
  BY <1>1, <1>2, ReturnKeeps
<1>3. CASE op # "find" /\ LoopDone(s, rc)
  \* Nothing goes to a DTA, whatever the code is.
  <2>1. PICK c : Return(s, c)
    BY <1>3 DEF LoopDone
  <2>2. /\ pc' = "dos" /\ sdb' = Idle /\ error' = "ok" /\ first' = FALSE
        /\ dta' = dta /\ seen' = seen
    BY <1>3, <2>1 DEF Return
  <2>3. SdaInv'
    BY <2>2, DirSearchAssumption DEF SdaInv, Idle
  <2>4. \A d \in Dtas : dta[d].handle # NoHandle =>
           dta[d].handle \in Handles /\ dta[d].handle # sdb.handle
    BY <1>3, Fields DEF SdaInv, TypeOK
  <2> QED
    BY <2>2, <2>3, <2>4 DEF DtaInv, OthersOpen
<1>4. CASE /\ op # "find" /\ rc = "ok"
           /\ pc' = "act" /\ sdb' = s /\ first' = FALSE /\ ax' = rc
           /\ UNCHANGED <<i, error, dta, seen>>
  <2>1. code = "ok"
    BY <1>4
  <2>2. \A d \in Dtas : dta[d].handle # NoHandle =>
           dta[d].handle \in Handles /\ dta[d].handle # sdb.handle
    BY <1>4, Fields DEF SdaInv, TypeOK
  <2>3. DtaInv'
    BY <1>4, <2>2 DEF DtaInv, OthersOpen
  <2>4. s.handle # NoHandle =>
          /\ s.handle = sdb.handle /\ search'[s.handle] = s.list
          /\ \A d \in Dtas : dta[d].handle # s.handle
    BY <1>4, <2>1 DEF SdaInv, SameSearch
  <2>5. s.name \in s.mask.match \cap Names /\ s.ours
    BY <2>1, Fields DEF SameSearch, TypeOK
  <2> QED
    BY <1>4, <2>3, <2>4, <2>5 DEF SdaInv
<1> QED
  BY <1>2, <1>3, <1>4 DEF FindDone

\* Failures are only counted up.
LEMMA SoundLater ==
    ASSUME fails \in Nat, fails' \in Nat, fails <= fails', NEW s \in SDB,
           Sound(s)
    PROVE  /\ Distinct(s.list)
           /\ Len(s.list) <= Cardinality(Names)
           /\ s.entry <= Cardinality(Names) + fails'
           /\ s.ours => s.mask \in Masks
  BY Bounds, Fields DEF Sound

LEMMA FindDoneSound ==
    ASSUME TypeOK, SoundInv, NEW s, SameSearch(s), NEW code,
           FindDone(s, code), UNCHANGED who, sdb.ours,
           fails' \in Nat, fails <= fails',
           s.entry <= Cardinality(Names) + fails'
    PROVE  SoundInv'
<1>1. fails \in Nat /\ Cardinality(Names) \in Nat
  BY Bounds DEF TypeOK
<1>2. Sound(Idle)'
  <2>1. Distinct(<<>>) /\ Len(<<>>) = 0
    BY DEF Distinct
  <2> QED
    BY <1>1, <2>1 DEF Sound, Idle
<1>3. /\ Distinct(s.list) /\ Len(s.list) <= Cardinality(Names)
      /\ s.ours => s.mask \in Masks
  BY DEF SoundInv, Sound, SameSearch
<1>4. \A d \in Dtas :
         /\ Distinct(dta[d].list) /\ Len(dta[d].list) <= Cardinality(Names)
         /\ dta[d].entry <= Cardinality(Names) + fails'
         /\ dta[d].ours => dta[d].mask \in Masks
  <2> SUFFICES ASSUME NEW d \in Dtas
               PROVE  /\ Distinct(dta[d].list)
                      /\ Len(dta[d].list) <= Cardinality(Names)
                      /\ dta[d].entry <= Cardinality(Names) + fails'
                      /\ dta[d].ours => dta[d].mask \in Masks
    OBVIOUS
  <2>1. dta[d] \in SDB /\ Sound(dta[d])
    BY DEF TypeOK, SoundInv
  <2> QED
    BY <1>1, <2>1, SoundLater
<1>5. \A d \in Dtas : dta'[d] \in {dta[d], Idle, s}
  BY DEF FindDone, LoopDone, Return, Answer, TypeOK
<1>6. sdb' \in {Idle, s} /\ i' <= Cardinality(Names) + fails'
  BY <1>1 DEF FindDone, LoopDone, Return, SoundInv, TypeOK
<1>7. ASSUME NEW d \in Dtas
      PROVE  Sound(dta[d])'
  <2>1. CASE dta'[d] = dta[d]
    BY <1>4, <2>1 DEF Sound
  <2>2. CASE dta'[d] = Idle
    BY <1>2, <2>2 DEF Sound
  <2>3. CASE dta'[d] = s
    BY <1>3, <2>3 DEF Sound
  <2> QED
    BY <1>5, <2>1, <2>2, <2>3
<1>8. Sound(sdb)'
  BY <1>2, <1>3, <1>6 DEF Sound
<1> QED
  BY <1>6, <1>7, <1>8 DEF SoundInv

\* A step that reads no entry and answers no call.
LEMMA SoundStays ==
    ASSUME TypeOK, SoundInv, dta' = dta, sdb' = sdb, fails' \in Nat,
           fails <= fails', i' <= Cardinality(Names) + fails'
    PROVE  SoundInv'
<1>1. fails \in Nat
  BY DEF TypeOK
<1>2. Sound(sdb)'
  BY <1>1, SoundLater DEF SoundInv, Sound, TypeOK
<1>3. \A d \in Dtas : Sound(dta[d])'
  <2> TAKE d \in Dtas
  <2>1. dta[d] \in SDB /\ Sound(dta[d])
    BY DEF SoundInv, TypeOK
  <2> QED
    BY <1>1, <2>1, SoundLater DEF Sound
<1> QED
  BY <1>2, <1>3 DEF SoundInv

LEMMA CloseDirEffect ==
    ASSUME TypeOK, NEW n \in Nat, CloseDir(sdb.handle, n)
    PROVE  /\ OthersOpen
           /\ fails' \in Nat /\ fails + n <= fails' /\ fails <= fails'
<1>1. PICK o \in Outcomes :
        /\ CountFails(n + Lost(o))
        /\ search' = IF o \in Executed
                     THEN [search EXCEPT ![sdb.handle] = NoSearch] ELSE search
  BY DEF CloseDir
<1>2. n + Lost(o) \in Nat /\ n <= n + Lost(o)
  BY LostType
<1>3. fails' = fails + (n + Lost(o)) /\ fails \in Nat
  BY <1>1 DEF CountFails, TypeOK
<1>4. OthersOpen
  BY <1>1 DEF OthersOpen, TypeOK
<1> QED
  BY <1>2, <1>3, <1>4

LEMMA FirstKeeps ==
    ASSUME KeptInv, NEW m \in Masks, _FindFirst(m), who' \in Dtas,
           op' = "find" => ~dta[who'].ours
    PROVE  DtaInv' /\ SdaInv' /\ SoundInv'
<1> USE DEF KeptInv
<1>1. /\ UNCHANGED <<dir, dta, i, seen, drops>> /\ error' = "ok" /\ pc = "dos"
  BY DEF _FindFirst
<1>2. /\ sdb = Idle /\ ~first /\ Idle.handle = NoHandle /\ ~Idle.ours
      /\ NoHandle \notin Handles /\ fails \in Nat
      /\ \A d \in Dtas : /\ dta[d].handle \in Handles \cup {NoHandle}
                         /\ dta[d].list # NoSearch
  BY <1>1, Fields, DirSearchAssumption DEF SdaInv, Idle, TypeOK
<1>3. ASSUME NEW h \in Handles, NEW l \in Listings, search[h] = NoSearch,
             search' = [search EXCEPT ![h] = l],
             pc' = "next", first' = TRUE, UNCHANGED fails,
             sdb' = [ours |-> TRUE, mask |-> m, entry |-> 0,
                     handle |-> h, name |-> NoName, list |-> l]
      PROVE  DtaInv' /\ SdaInv' /\ SoundInv'
  <2>1. \A d \in Dtas : dta[d].handle # h
    BY <1>2, <1>3 DEF DtaInv
  <2>2. search'[h] = l /\ \A g \in Handles : g # h => search'[g] = search[g]
    BY <1>3 DEF TypeOK
  <2>3. DtaInv'
    BY <1>1, <1>2, <2>1, <2>2 DEF DtaInv
  <2>4. /\ sdb'.ours /\ sdb'.handle = h /\ sdb'.list = l /\ sdb'.mask = m
        /\ sdb'.entry = 0
    BY <1>3
  <2>5. SdaInv'
    BY <1>1, <1>2, <1>3, <2>1, <2>2, <2>4 DEF SdaInv
  <2>6. Sound(sdb)'
    BY <1>2, <1>3, <2>4, ListingsList, Bounds DEF Sound, TypeOK
  <2>7. SoundInv'
    BY <1>1, <1>3, <2>6 DEF SoundInv, Sound
  <2> QED
    BY <2>3, <2>5, <2>7
<1>4. ASSUME \A h \in Handles : search[h] # NoSearch => search'[h] = search[h],
             UNCHANGED <<pc, first, sdb>>, fails' \in Nat, fails <= fails'
      PROVE  DtaInv' /\ SdaInv' /\ SoundInv'
  <2>1. DtaInv'
    BY <1>1, <1>2, <1>4 DEF DtaInv
  <2>2. SdaInv'
    BY <1>1, <1>2, <1>4 DEF SdaInv
  <2>3. i' <= Cardinality(Names) + fails'
    BY <1>1, <1>2, <1>4, Bounds DEF SoundInv, TypeOK
  <2>4. SoundInv'
    BY <1>1, <1>4, <2>3, SoundStays
  <2> QED
    BY <2>1, <2>2, <2>4
<1>5. ASSUME NEW h \in Handles, NEW l \in Listings, search[h] = NoSearch,
             search' = [search EXCEPT ![h] = l], CountFails(1),
             UNCHANGED <<pc, first, sdb>>
      PROVE  DtaInv' /\ SdaInv' /\ SoundInv'
  <2>1. \A g \in Handles : search[g] # NoSearch => search'[g] = search[g]
    BY <1>5 DEF TypeOK
  <2>2. fails' \in Nat /\ fails <= fails'
    BY <1>2, <1>5 DEF CountFails
  <2> QED
    BY <1>4, <1>5, <2>1, <2>2
<1>6. ASSUME NEW o \in {"status", "lostreq"}, CountFails(Lost(o)),
             UNCHANGED <<search, pc, first, sdb>>
      PROVE  DtaInv' /\ SdaInv' /\ SoundInv'
  <2>1. fails' \in Nat /\ fails <= fails'
    BY <1>2, <1>6 DEF CountFails, Lost
  <2> QED
    BY <1>4, <1>6, <2>1
<1> QED
  BY <1>3, <1>5, <1>6 DEF _FindFirst

LEMMA FoundKeeps ==
    ASSUME KeptInv, pc = "read", NEW n \in sdb.mask.match, NEW code,
           NEW failed \in Nat, Found(n, code, failed),
           i + 1 <= Cardinality(Names) + fails + failed, UNCHANGED <<op, who>>
    PROVE  DtaInv' /\ SdaInv' /\ SoundInv'
<1> USE DEF KeptInv
<1> DEFINE s == [sdb EXCEPT !.name = n, !.entry = i + 1]
           t == [s EXCEPT !.handle = NoHandle]
<1>1. /\ sdb \in SDB /\ n \in Names /\ i + 1 \in Nat /\ fails \in Nat
      /\ sdb.ours /\ Cardinality(Names) \in Nat
  BY Fields, Bounds DEF TypeOK, SdaInv
<1>2. s \in SDB /\ t \in SDB
  BY <1>1, Update
<1>3. /\ SameSearch(s) /\ s.name = n /\ s.entry = i + 1
      /\ SameSearch(t) /\ t.name = n /\ t.entry = i + 1 /\ t.handle = NoHandle
  BY <1>1, <1>2 DEF SameSearch, SDB
<1>4. ASSUME FindDone(s, code), CountFails(failed), UNCHANGED search
      PROVE  DtaInv' /\ SdaInv' /\ SoundInv'
  <2>1. fails' = fails + failed
    BY <1>4 DEF CountFails
  <2>2. fails' \in Nat /\ fails <= fails'
    BY <1>1, <2>1
  <2>3. s.entry <= Cardinality(Names) + fails'
    BY <1>1, <1>3, <2>1
  <2>4. DtaInv' /\ SdaInv'
    BY <1>3, <1>4, FindDoneKeeps DEF OthersOpen
  <2>5. SoundInv'
    BY <1>1, <1>3, <1>4, <2>2, <2>3, FindDoneSound
  <2> QED
    BY <2>4, <2>5
<1>5. ASSUME FindDone(t, code), CloseDir(sdb.handle, failed)
      PROVE  DtaInv' /\ SdaInv' /\ SoundInv'
  <2>1. /\ OthersOpen
        /\ fails' \in Nat /\ fails + failed <= fails' /\ fails <= fails'
    BY <1>5, CloseDirEffect
  <2>2. t.entry <= Cardinality(Names) + fails'
    BY <1>1, <1>3, <2>1
  <2>3. DtaInv' /\ SdaInv'
    BY <1>3, <1>5, <2>1, FindDoneKeeps
  <2>4. SoundInv'
    BY <1>1, <1>3, <1>5, <2>1, <2>2, FindDoneSound
  <2> QED
    BY <2>3, <2>4
<1> QED
  BY <1>4, <1>5 DEF Found

LEMMA EndedKeeps ==
    ASSUME KeptInv, pc = "read", NEW code \in {"status", "nfiles"},
           Ended(code), UNCHANGED <<op, who>>
    PROVE  DtaInv' /\ SdaInv' /\ SoundInv'
<1> USE DEF KeptInv
<1> DEFINE s == [sdb EXCEPT !.handle = NoHandle]
<1>1. sdb \in SDB /\ sdb.ours /\ fails \in Nat /\ Cardinality(Names) \in Nat
  BY Bounds DEF TypeOK, SdaInv
<1>2. SameSearch(s) /\ s.entry = sdb.entry /\ s.handle = NoHandle
  BY <1>1, Update DEF SameSearch, SDB
<1>3. OthersOpen /\ fails' \in Nat /\ fails <= fails'
  BY CloseDirEffect DEF Ended
<1>4. DtaInv' /\ SdaInv'
  BY <1>2, <1>3, FindDoneKeeps DEF Ended
<1>5. s.entry <= Cardinality(Names) + fails'
  BY <1>1, <1>2, <1>3, Fields DEF SoundInv, Sound
<1>6. SoundInv'
  BY <1>1, <1>2, <1>3, <1>5, FindDoneSound DEF Ended
<1> QED
  BY <1>4, <1>6

\* A step of a call that neither reads nor answers: nothing that the
\* invariant speaks of changes but the place of the call.
LEMMA MoveKeeps ==
    ASSUME KeptInv, UNCHANGED <<search, dta, sdb, seen, op, who, first>>,
           pc # "dos" <=> pc' # "dos", pc' # "act",
           pc' = "dos" => error' = "ok",
           first \/ pc' = "read" => sdb.handle # NoHandle,
           fails' \in Nat, fails <= fails', i' <= Cardinality(Names) + fails'
    PROVE  DtaInv' /\ SdaInv' /\ SoundInv'
<1> USE DEF KeptInv
<1>1. DtaInv'
  BY DEF DtaInv
<1>2. SdaInv'
  BY DEF SdaInv
<1>3. SoundInv'
  BY SoundStays
<1> QED
  BY <1>1, <1>2, <1>3

LEMMA ReadKeeps ==
    ASSUME KeptInv, ReadDir
    PROVE  DtaInv' /\ SdaInv' /\ SoundInv'
<1>1. /\ pc = "read" /\ UNCHANGED <<dir, op, who, move, drops>>
      /\ sdb.handle # NoHandle /\ search[sdb.handle] = sdb.list
  BY DEF ReadDir, KeptInv, SdaInv
<1>2. /\ fails \in Nat /\ i \in Nat /\ Cardinality(Names) \in Nat
      /\ i <= Cardinality(Names) + fails
  BY Bounds DEF KeptInv, TypeOK, SoundInv
<1>3. i + 1 \in DOMAIN sdb.list => i + 1 <= Cardinality(Names)
  BY <1>2, Fields DEF KeptInv, TypeOK, SoundInv, Sound
<1>4. ASSUME NEW code \in {"status", "nfiles"}, Ended(code)
      PROVE  DtaInv' /\ SdaInv' /\ SoundInv'
  BY <1>1, <1>4, EndedKeeps
<1>5. ASSUME i + 1 \in DOMAIN sdb.list, NEW n \in sdb.mask.match,
             Found(n, ax, 0)
      PROVE  DtaInv' /\ SdaInv' /\ SoundInv'
  <2>1. i + 1 <= Cardinality(Names) + fails + 0
    BY <1>2, <1>3, <1>5
  <2> QED
    BY <1>1, <1>5, <2>1, FoundKeeps
<1>6. ASSUME NEW n \in sdb.mask.match, Found(n, "notready", 1)
      PROVE  DtaInv' /\ SdaInv' /\ SoundInv'
  <2>1. i + 1 <= Cardinality(Names) + fails + 1
    BY <1>2
  <2> QED
    BY <1>1, <1>6, <2>1, FoundKeeps
<1>7. ASSUME GoOn, fails' \in Nat, fails <= fails', UNCHANGED search,
             i + 1 <= Cardinality(Names) + fails'
      PROVE  DtaInv' /\ SdaInv' /\ SoundInv'
  BY <1>1, <1>7, MoveKeeps DEF GoOn
<1>8. CASE i + 1 \in DOMAIN sdb.list /\ GoOn /\ UNCHANGED <<ax, search, fails>>
  <2>1. fails' = fails /\ i + 1 <= Cardinality(Names) + fails
    BY <1>2, <1>3, <1>8
  <2> QED
    BY <1>2, <1>7, <1>8, <2>1
<1>9. CASE GoOn /\ CountFails(1) /\ ax' = "notready" /\ UNCHANGED search
  <2>1. fails' = fails + 1
    BY <1>9 DEF CountFails
  <2> QED
    BY <1>2, <1>7, <1>9, <2>1
<1> QED
  BY <1>1, <1>4, <1>5, <1>6, <1>8, <1>9 DEF ReadDir

LEMMA ActKeeps ==
    ASSUME KeptInv, DeleteOne \/ RenameOne
    PROVE  DtaInv' /\ SdaInv' /\ SoundInv'
<1>1. /\ pc = "act" /\ UNCHANGED <<search, op, who, move>>
      /\ op # "find" /\ ~first
  BY DEF DeleteOne, RenameOne, KeptInv, SdaInv
<1>2. /\ fails \in Nat /\ i \in Nat /\ Cardinality(Names) \in Nat
      /\ i <= Cardinality(Names) + fails /\ sdb \in SDB /\ sdb.ours
      /\ TypeOK /\ DtaInv /\ SdaInv /\ SoundInv
  BY <1>1, Bounds DEF KeptInv, TypeOK, SoundInv, SdaInv
<1>3. CASE GiveUp
  <2>1. SameSearch(sdb) /\ OthersOpen /\ fails' = fails
    BY <1>1, <1>2, <1>3 DEF SameSearch, OthersOpen, GiveUp
  <2>2. Return(sdb, "status")
    BY <1>3 DEF GiveUp
  <2>3. DtaInv' /\ SdaInv'
    BY <1>1, <1>2, <2>1, <2>2, ReturnKeeps
  \* Return is how FindDone ends such a call.
  <2>4. FindDone(sdb, "status")
    BY <1>1, <2>2 DEF FindDone, LoopDone
  <2>5. sdb.entry <= Cardinality(Names) + fails'
    BY <1>2, <2>1 DEF SoundInv, Sound
  <2>6. SoundInv'
    BY <1>1, <1>2, <2>1, <2>4, <2>5, FindDoneSound
  <2> QED
    BY <2>3, <2>6
<1>4. ASSUME GoToNext(ax'), fails' \in Nat, fails <= fails'
      PROVE  DtaInv' /\ SdaInv' /\ SoundInv'
  <2>1. i' <= Cardinality(Names) + fails'
    BY <1>2, <1>4 DEF GoToNext
  <2> QED
    BY <1>1, <1>4, <2>1, MoveKeeps DEF GoToNext
<1>5. ASSUME NEW o \in Outcomes, NEW D, Changed(o, D)
      PROVE  DtaInv' /\ SdaInv' /\ SoundInv'
  <2>1. Lost(o) \in Nat /\ fails' = fails + Lost(o)
    BY <1>5, LostType DEF Changed, CountFails
  <2>2. GoToNext(ax')
    BY <1>5 DEF Changed, GoToNext
  <2> QED
    BY <1>2, <1>4, <2>1, <2>2
<1>6. CASE GoToNext("ok") /\ UNCHANGED fails
  BY <1>2, <1>4, <1>6 DEF GoToNext
<1> QED
  BY <1>3, <1>5, <1>6 DEF DeleteOne, RenameOne

LEMMA InitKept == Init => KeptInv
<1> SUFFICES ASSUME Init PROVE KeptInv
  OBVIOUS
<1>1. TypeOK
  <2>1. search \in [Handles -> Seq(Names) \cup {NoSearch}]
    BY DEF Init
  <2>2. dta \in [Dtas -> SDB] /\ sdb \in SDB
    BY IdleType DEF Init
  <2>3. seen \in [Dtas -> Seq(Names)]
    BY DEF Init
  <2>4. fails \in 0..MaxFail /\ drops \in 0..MaxDrop
    BY DirSearchAssumption DEF Init
  <2>5. DataType
    BY <2>1, <2>2, <2>3 DEF Init, DataType
  <2>6. ControlType
    BY <2>4 DEF Init, ControlType, Codes
  <2> QED
    BY <2>5, <2>6, TypeParts
<1>2. \A d \in Dtas : dta[d] = Idle /\ seen[d] = <<>>
  BY DEF Init
<1>3. ~Idle.ours /\ Idle.handle = NoHandle
  BY DEF Idle
<1>4. DtaInv
  BY <1>2, <1>3 DEF DtaInv
<1>5. SdaInv
  BY <1>3 DEF Init, SdaInv
<1>6. fails \in Nat /\ i <= Cardinality(Names) + fails
  BY Bounds DEF Init
<1>7. SoundInv
  BY <1>2, <1>6, IdleSound DEF Init, SoundInv
<1> QED
  BY <1>1, <1>4, <1>5, <1>7 DEF KeptInv

LEMMA NextKept == KeptInv /\ [Next]_vars => KeptInv'
<1> SUFFICES ASSUME KeptInv, [Next]_vars PROVE KeptInv'
  OBVIOUS
<1>1. TypeOK'
  BY NextTypes DEF KeptInv, SdaInv
<1>2. TypeOK /\ DtaInv /\ SdaInv /\ SoundInv /\ fails \in Nat
      /\ i <= Cardinality(Names) + fails
  BY DEF KeptInv, TypeOK, SoundInv
<1>3. ASSUME NEW d \in Dtas, NEW m \in Masks, FindFirst(d, m)
      PROVE  DtaInv' /\ SdaInv' /\ SoundInv'
  BY <1>3, FirstKeeps DEF FindFirst
<1>4. ASSUME NEW m \in Masks, DeleteFile(m)
      PROVE  DtaInv' /\ SdaInv' /\ SoundInv'
  BY <1>2, <1>4, FirstKeeps DEF DeleteFile, TypeOK
<1>5. ASSUME NEW m \in Masks, NEW f \in Moves, RenameFile(m, f)
      PROVE  DtaInv' /\ SdaInv' /\ SoundInv'
  <2>1. CASE op' = "rename" /\ _FindFirst(m) /\ UNCHANGED who
    BY <1>2, <2>1, FirstKeeps DEF TypeOK
  <2>2. CASE /\ pc = "dos"
             /\ UNCHANGED <<dir, search, dta, sdb, pc, who, move, first, i,
                            error, seen, fails, drops>>
    <3>1. DtaInv'
      BY <1>2, <2>2 DEF DtaInv
    <3>2. SdaInv'
      BY <1>2, <2>2 DEF SdaInv, Idle
    <3>3. SoundInv'
      BY <1>2, <2>2, SoundStays
    <3> QED
      BY <3>1, <3>2, <3>3
  <2> QED
    BY <1>5, <2>1, <2>2 DEF RenameFile
<1>6. ASSUME NEW d \in Dtas, FindVolumeLabel(d)
      PROVE  DtaInv' /\ SdaInv' /\ SoundInv'
  <2>1. DtaInv'
    BY <1>2, <1>6 DEF DtaInv, FindVolumeLabel
  <2>2. SdaInv'
    BY <1>2, <1>6 DEF SdaInv, FindVolumeLabel, Idle
  <2>3. SoundInv'
    BY <1>2, <1>6, SoundStays DEF FindVolumeLabel
  <2> QED
    BY <2>1, <2>2, <2>3
<1>7. ASSUME NEW d \in Dtas, FindNext(d)
      PROVE  DtaInv' /\ SdaInv' /\ SoundInv'
  <2>1. /\ pc = "dos" /\ dta[d].ours /\ op' = "find" /\ who' = d
        /\ pc' = "next" /\ sdb' = dta[d]
        /\ UNCHANGED <<search, dta, first, i, seen, fails>>
    BY <1>7 DEF FindNext
  <2>2. DtaInv'
    BY <1>2, <2>1 DEF DtaInv
  <2>3. SdaInv'
    BY <1>2, <2>1 DEF DtaInv, SdaInv
  <2>4. SoundInv'
    BY <1>2, <2>1 DEF SoundInv, Sound
  <2> QED
    BY <2>2, <2>3, <2>4
<1>8. ASSUME NEW d \in Dtas, DosDrop(d)
      PROVE  DtaInv' /\ SdaInv' /\ SoundInv'
  <2>1. /\ pc = "dos" /\ dta'[d] = Idle /\ seen'[d] = <<>>
        /\ \A e \in Dtas : e # d => dta'[e] = dta[e] /\ seen'[e] = seen[e]
        /\ UNCHANGED <<search, sdb, pc, op, who, first, i, error, fails>>
    BY <1>2, <1>8 DEF DosDrop, TypeOK
  <2>2. ~Idle.ours /\ Idle.handle = NoHandle
    BY DEF Idle
  <2>3. DtaInv'
    BY <1>2, <2>1, <2>2 DEF DtaInv
  <2>4. SdaInv'
    BY <1>2, <2>1, <2>2 DEF SdaInv
  <2>5. SoundInv'
    BY <1>2, <2>1, IdleSound DEF SoundInv, Sound
  <2> QED
    BY <2>3, <2>4, <2>5
<1>9. ASSUME _FindNext
      PROVE  DtaInv' /\ SdaInv' /\ SoundInv'
  <2>1. pc = "next" /\ UNCHANGED <<dir, search, op, who, move, fails, drops>>
    BY <1>9 DEF _FindNext
  <2>2. sdb \in SDB /\ sdb.entry <= Cardinality(Names) + fails /\ sdb.ours
    BY <1>2, <2>1 DEF TypeOK, SoundInv, Sound, SdaInv
  <2>3. CASE FindDone(sdb, "nfiles")
    <3>1. SameSearch(sdb) /\ OthersOpen
      BY <2>1, <2>2 DEF SameSearch, OthersOpen
    <3>2. DtaInv' /\ SdaInv'
      BY <1>2, <2>1, <2>3, <3>1, FindDoneKeeps
    <3>3. SoundInv'
      BY <1>2, <2>1, <2>2, <2>3, <3>1, FindDoneSound
    <3> QED
      BY <3>2, <3>3
  <2>4. CASE /\ sdb.handle # NoHandle /\ pc' = "read" /\ i' = sdb.entry
             /\ UNCHANGED <<sdb, ax, first, error, dta, seen>>
    BY <1>2, <2>1, <2>2, <2>4, MoveKeeps
  <2> QED
    BY <1>9, <2>3, <2>4 DEF _FindNext
<1>10. ASSUME ReadDir
       PROVE  DtaInv' /\ SdaInv' /\ SoundInv'
  BY <1>10, ReadKeeps
<1>11. ASSUME DeleteOne \/ RenameOne
       PROVE  DtaInv' /\ SdaInv' /\ SoundInv'
  BY <1>11, ActKeeps
<1>12. ASSUME \/ \E n \in Names : FileAppears(n)
              \/ UNCHANGED vars
       PROVE  DtaInv' /\ SdaInv' /\ SoundInv'
  <2>1. UNCHANGED <<search, dta, sdb, pc, op, who, first, i, error, seen,
                    fails>>
    BY <1>12 DEF FileAppears, vars
  <2>2. DtaInv'
    BY <1>2, <2>1 DEF DtaInv
  <2>3. SdaInv'
    BY <1>2, <2>1 DEF SdaInv
  <2>4. SoundInv'
    BY <1>2, <2>1, SoundStays
  <2> QED
    BY <2>2, <2>3, <2>4
<1>13. DtaInv' /\ SdaInv' /\ SoundInv'
  BY <1>3, <1>4, <1>5, <1>6, <1>7, <1>8, <1>9, <1>10, <1>11, <1>12 DEF Next
<1> QED
  BY <1>1, <1>13 DEF KeptInv

LEMMA KeptAlways == Spec => []KeptInv
  BY InitKept, NextKept, PTL DEF Spec

\* The searches of any number of programs keep their shape and a directory
\* handle of their own that is open on the host, whatever DeleteFile and
\* RenameFile do in between, and whichever RPCs fail (redir.c: _FindFirst,
\* _FindNext, and what they store in the SDB).
THEOREM SearchesSafe == Spec => []SearchesKept
<1>1. KeptInv => SearchesKept
  <2> SUFFICES ASSUME KeptInv, NEW d \in Dtas, dta[d].handle # NoHandle
               PROVE  /\ search[dta[d].handle] # NoSearch
                      /\ \A e \in Dtas \ {d} : dta[e].handle # dta[d].handle
    BY DEF KeptInv, SearchesKept, SearchesApart
  <2> QED
    BY Fields DEF KeptInv, TypeOK, DtaInv
<1> QED
  BY <1>1, KeptAlways, PTL

-----------------------------------------------------------------------------
(* Calls go on, and where they end.                                        *)

\* The steps within a call go forward.
LEMMA Forward ==
    ASSUME KeptInv, Next, pc # "dos", pc' # "dos"
    PROVE  Place < Place'
<1>1. /\ sdb.entry \in Nat /\ i \in Nat /\ sdb \in SDB
  BY Fields DEF KeptInv, TypeOK
<1>2. CASE _FindNext
  <2>1. ~FindDone(sdb, "nfiles")
    BY DEF FindDone, LoopDone, Return
  <2>2. pc = "next" /\ pc' = "read" /\ i' = sdb.entry /\ sdb' = sdb
    BY <1>2, <2>1 DEF _FindNext
  <2> QED
    BY <1>1, <2>2 DEF Place
<1>3. CASE ReadDir
  <2>1. pc = "read"
    BY <1>3 DEF ReadDir
  <2>2. ASSUME NEW n, NEW code, NEW failed, Found(n, code, failed)
        PROVE  pc' = "act" /\ sdb'.entry = i + 1
    <3> DEFINE s == [sdb EXCEPT !.name = n, !.entry = i + 1]
               t == [s EXCEPT !.handle = NoHandle]
    <3>1. s.entry = i + 1 /\ t.entry = i + 1
      BY <1>1 DEF SDB
    <3>2. CASE FindDone(s, code)
      BY <3>1, <3>2 DEF FindDone, LoopDone, Return
    <3>3. CASE FindDone(t, code)
      BY <3>1, <3>3 DEF FindDone, LoopDone, Return
    <3> QED
      BY <2>2, <3>2, <3>3 DEF Found
  <2>3. ASSUME NEW n, NEW code, NEW failed, Found(n, code, failed)
        PROVE  Place < Place'
    BY <1>1, <2>1, <2>2, <2>3 DEF Place
  <2>4. CASE GoOn
    BY <1>1, <2>1, <2>4 DEF GoOn, Place
  <2>5. ASSUME NEW code \in {"status", "nfiles"}, Ended(code)
        PROVE  FALSE
    BY <2>5 DEF Ended, FindDone, LoopDone, Return
  <2> QED
    BY <1>3, <2>3, <2>4, <2>5 DEF ReadDir
<1>4. CASE DeleteOne \/ RenameOne
  <2>1. pc = "act" /\ pc' = "next" /\ sdb' = sdb
    BY <1>4 DEF DeleteOne, RenameOne, GiveUp, Return, Changed, GoToNext
  <2> QED
    BY <1>1, <2>1 DEF Place
<1> QED
  BY <1>2, <1>3, <1>4
  DEF Next, FindFirst, FindVolumeLabel, FindNext, DosDrop, DeleteFile,
      RenameFile, _FindFirst, FileAppears

\* A read that is answered leaves the loop, or finds an entry.
LEMMA Within ==
    ASSUME KeptInv, Next, pc = "read", pc' # "dos", fails' = fails
    PROVE  i < Len(sdb.list)
<1>1. /\ i \in Nat /\ fails \in Nat
      /\ DOMAIN sdb.list = 1..Len(sdb.list) /\ Len(sdb.list) \in Nat
  BY Fields DEF KeptInv, TypeOK
<1>2. ReadDir
  BY DEF Next, FindFirst, FindVolumeLabel, FindNext, DosDrop, DeleteFile,
         RenameFile, _FindFirst, _FindNext, DeleteOne, RenameOne, FileAppears
<1>3. search[sdb.handle] = sdb.list
  BY DEF KeptInv, SdaInv
<1>4. ASSUME NEW code \in {"status", "nfiles"}, Ended(code)
      PROVE  FALSE
  BY <1>4 DEF Ended, FindDone, LoopDone, Return
<1>5. ~CountFails(1)
  BY <1>1 DEF CountFails
<1>6. ASSUME NEW n, Found(n, "notready", 1)
      PROVE  FALSE
  <2>1. CASE CountFails(1)
    BY <1>5, <2>1
  <2>2. CASE CloseDir(sdb.handle, 1)
    <3>1. PICK o \in Outcomes : CountFails(1 + Lost(o))
      BY <2>2 DEF CloseDir
    <3>2. Lost(o) \in Nat
      BY LostType
    <3> QED
      BY <1>1, <3>1, <3>2 DEF CountFails
  <2> QED
    BY <1>6, <2>1, <2>2 DEF Found
<1>7. i + 1 \in DOMAIN sdb.list
  BY <1>2, <1>3, <1>4, <1>5, <1>6 DEF ReadDir
<1> QED
  BY <1>1, <1>7

\* Each step of a call that walks the directory goes forward, and a read
\* beyond the last entry that is answered ends it; one that fails need not
\* (redir.c: _FindNext, DeleteFile, RenameFile).
THEOREM CallsEnd == Spec => CallsAdvance
<1>1. KeptInv /\ [Next]_vars =>
        [pc # "dos" /\ pc' # "dos" =>
           /\ Place < Place'
           /\ pc = "read" /\ fails' = fails => i < Len(sdb.list)]_vars
  BY Forward, Within
<1> QED
  BY <1>1, KeptAlways, PTL DEF Spec, CallsAdvance

-----------------------------------------------------------------------------
(* Searches that nobody can close any more.                                *)

\* The searches that a step leaves to nobody.
Lost1(h) == Orphans' \subseteq Orphans \cup {h}
Lost0 == Orphans' \subseteq Orphans

LEMMA Counted0 ==
    ASSUME IsFiniteSet(Orphans), Lost0
    PROVE  /\ IsFiniteSet(Orphans')
           /\ Cardinality(Orphans') \in Nat /\ Cardinality(Orphans) \in Nat
           /\ Cardinality(Orphans') <= Cardinality(Orphans)
  BY FS_Subset, FS_CardinalityType DEF Lost0

LEMMA Counted1 ==
    ASSUME IsFiniteSet(Orphans), NEW h, Lost1(h)
    PROVE  /\ IsFiniteSet(Orphans')
           /\ Cardinality(Orphans') \in Nat /\ Cardinality(Orphans) \in Nat
           /\ Cardinality(Orphans') <= Cardinality(Orphans) + 1
<1>0. /\ IsFiniteSet(Orphans \cup {h})
      /\ Cardinality(Orphans \cup {h}) \in
           {Cardinality(Orphans), Cardinality(Orphans) + 1}
  BY FS_AddElement
<1>1. /\ IsFiniteSet(Orphans \cup {h})
      /\ Cardinality(Orphans) \in Nat
      /\ Cardinality(Orphans \cup {h}) <= Cardinality(Orphans) + 1
  BY <1>0, FS_CardinalityType
<1>2. /\ IsFiniteSet(Orphans')
      /\ Cardinality(Orphans') <= Cardinality(Orphans \cup {h})
  BY <1>1, FS_Subset DEF Lost1
<1>3. Cardinality(Orphans') \in Nat /\ Cardinality(Orphans \cup {h}) \in Nat
  BY <1>1, <1>2, FS_CardinalityType
<1> QED
  BY <1>1, <1>2, <1>3

\* A call that ends loses its own search at most, and none when it is closed
\* or goes back to the program.
LEMMA ReturnLoses ==
    ASSUME KeptInv, pc # "dos", NEW s, SameSearch(s), NEW code,
           Return(s, code), OthersOpen
    PROVE  /\ Lost1(sdb.handle)
           /\ \/ sdb.handle = NoHandle
              \/ search'[sdb.handle] = NoSearch
              \/ code = "ok" /\ op = "find" /\ s.handle = sdb.handle
              => Lost0
<1>1. ASSUME NEW h \in Orphans', h # sdb.handle
      PROVE  h \in Orphans
  <2>1. h \in Handles /\ search[h] # NoSearch /\ h # NoHandle
    BY <1>1, DirSearchAssumption DEF Orphans, OthersOpen
  <2>2. ASSUME NEW d \in Dtas, dta[d].handle = h
        PROVE  FALSE
    <3>1. CASE op = "find" /\ d = who
      <4>1. dta[d] = Idle \/ dta[d] = sdb
        BY <3>1 DEF KeptInv, DtaInv, SdaInv
      <4> QED
        BY <1>1, <2>1, <2>2, <4>1 DEF Idle
    <3>2. CASE ~(op = "find" /\ d = who)
      <4>1. dta'[d] = dta[d]
        BY <3>2 DEF Return, Answer, KeptInv, TypeOK
      <4> QED
        BY <1>1, <2>2, <4>1 DEF Orphans
    <3> QED
      BY <3>1, <3>2
  <2> QED
    BY <1>1, <2>1, <2>2 DEF Orphans
<1>2. Lost1(sdb.handle)
  BY <1>1 DEF Lost1
<1>3. ASSUME sdb.handle = NoHandle \/ search'[sdb.handle] = NoSearch
      PROVE  Lost0
  <2>1. sdb.handle \notin Orphans'
    BY <1>3, DirSearchAssumption DEF Orphans
  <2> QED
    BY <1>1, <2>1 DEF Lost0
<1>4. ASSUME code = "ok", op = "find", s.handle = sdb.handle
      PROVE  Lost0
  <2>1. dta'[who] = s /\ who \in Dtas
    BY <1>4 DEF Return, Answer, KeptInv, TypeOK
  <2>2. sdb.handle \notin Orphans'
    BY <1>4, <2>1 DEF Orphans
  <2> QED
    BY <1>1, <2>2 DEF Lost0
<1> QED
  BY <1>2, <1>3, <1>4

LEMMA FindDoneLoses ==
    ASSUME KeptInv, pc # "dos", NEW s, SameSearch(s), NEW code,
           FindDone(s, code), OthersOpen
    PROVE  /\ Lost1(sdb.handle)
           /\ \/ sdb.handle = NoHandle
              \/ search'[sdb.handle] = NoSearch
              \/ code = "ok" /\ s.handle = sdb.handle
              => Lost0
           /\ Due' = 0 /\ (pc' # "dos" => ax' = "ok")
<1> DEFINE rc == IF first /\ code = "nfiles" THEN "filenotfnd" ELSE code
<1>1. CASE op = "find" /\ Return(s, rc)
  <2>1. code = "ok" => rc = "ok"
    OBVIOUS
  <2>2. Due' = 0 /\ pc' = "dos"
    BY <1>1 DEF Return, Due
  <2> QED
    BY <1>1, <2>1, <2>2, ReturnLoses
<1>2. CASE op # "find" /\ rc # "ok" /\ LoopDone(s, rc)
  <2>1. PICK c : Return(s, c)
    BY <1>2 DEF LoopDone
  <2>2. Due' = 0 /\ pc' = "dos" /\ code # "ok"
    BY <1>2, <2>1 DEF Return, Due
  <2> QED
    BY <2>1, <2>2, ReturnLoses
<1>3. CASE /\ op # "find" /\ rc = "ok"
           /\ pc' = "act" /\ sdb' = s /\ first' = FALSE /\ ax' = rc
           /\ UNCHANGED <<i, error, dta, seen>>
  <2>1. Due' = 0 /\ ax' = "ok"
    BY <1>3 DEF Due
  <2>2. ASSUME NEW h \in Orphans', h # sdb.handle
        PROVE  h \in Orphans
    BY <1>3, <2>2 DEF Orphans, OthersOpen
  <2>3. ASSUME \/ sdb.handle = NoHandle
               \/ search'[sdb.handle] = NoSearch
               \/ s.handle = sdb.handle
        PROVE  sdb.handle \notin Orphans'
    BY <1>3, <2>3, DirSearchAssumption DEF Orphans
  <2> QED
    BY <2>1, <2>2, <2>3 DEF Lost0, Lost1
<1> QED
  BY <1>1, <1>2, <1>3 DEF FindDone

\* A step that loses a search is paid for: by an RPC that failed, now or
\* before, or by a search that was dropped.
LEMMA Paid ==
    ASSUME KeptInv, LeakInv, KeptInv',
           pc' # "dos" => ax' \in {"ok", "notready"},
           \/ Lost0 /\ fails + drops + Due' <= fails' + drops' + Due
           \/ \E h : /\ Lost1(h)
                    /\ fails + drops + Due' + 1 <= fails' + drops' + Due
    PROVE  LeakInv'
<1>1. /\ fails \in Nat /\ drops \in Nat /\ fails' \in Nat /\ drops' \in Nat
      /\ IsFiniteSet(Orphans) /\ Cardinality(Orphans) + Due <= fails + drops
  BY DEF KeptInv, TypeOK, LeakInv
<1>2. Due \in Nat /\ Due' \in Nat
  BY DEF Due
<1>3. fails + drops \in Nat /\ fails' + drops' \in Nat
  <2>1. \A x, y \in Nat : x + y \in Nat
    OBVIOUS
  <2> QED
    BY <1>1, <2>1
<1>4. CASE Lost0 /\ fails + drops + Due' <= fails' + drops' + Due
  <2>1. /\ IsFiniteSet(Orphans')
        /\ Cardinality(Orphans') \in Nat /\ Cardinality(Orphans) \in Nat
        /\ Cardinality(Orphans') <= Cardinality(Orphans)
    BY <1>1, <1>4, Counted0
  <2>2. Cardinality(Orphans') + Due' <= fails' + drops'
    <3>1. PICK a \in Nat, b \in Nat :
             a = Cardinality(Orphans) /\ b = Cardinality(Orphans')
      BY <2>1
    <3>2. PICK c \in Nat, d \in Nat : c = Due /\ d = Due'
      BY <1>2
    <3>3. PICK f \in Nat, g \in Nat : f = fails + drops /\ g = fails' + drops'
      BY <1>3
    <3>4. a + c <= f /\ b <= a
      BY <1>1, <2>1, <3>1, <3>2, <3>3
    <3>5. f + d <= g + c
      BY <1>4, <3>2, <3>3
    <3>6. b + d <= g
      BY <3>4, <3>5
    <3> QED
      BY <3>1, <3>2, <3>3, <3>6
  <2> QED
    BY <2>1, <2>2 DEF LeakInv
<1>5. ASSUME NEW h, Lost1(h),
             fails + drops + Due' + 1 <= fails' + drops' + Due
      PROVE  LeakInv'
  <2>1. /\ IsFiniteSet(Orphans')
        /\ Cardinality(Orphans') \in Nat /\ Cardinality(Orphans) \in Nat
        /\ Cardinality(Orphans') <= Cardinality(Orphans) + 1
    BY <1>1, <1>5, Counted1
  <2>2. Cardinality(Orphans') + Due' <= fails' + drops'
    <3>1. PICK a \in Nat, b \in Nat :
             a = Cardinality(Orphans) /\ b = Cardinality(Orphans')
      BY <2>1
    <3>2. PICK c \in Nat, d \in Nat : c = Due /\ d = Due'
      BY <1>2
    <3>3. PICK f \in Nat, g \in Nat : f = fails + drops /\ g = fails' + drops'
      BY <1>3
    <3>4. a + c <= f /\ b <= a + 1
      BY <1>1, <2>1, <3>1, <3>2, <3>3
    <3>5. f + d + 1 <= g + c
      BY <1>5, <3>2, <3>3
    <3>6. b + d <= g
      BY <3>4, <3>5
    <3> QED
      BY <3>1, <3>2, <3>3, <3>6
  <2> QED
    BY <2>1, <2>2 DEF LeakInv
<1> QED
  BY <1>4, <1>5

\* Closing the search of a call, or giving it up at the cost of an RPC.
LEMMA CloseLoses ==
    ASSUME KeptInv, LeakInv, KeptInv', pc = "read", NEW s, SameSearch(s),
           NEW code, FindDone(s, code), NEW n \in Nat,
           CloseDir(sdb.handle, n), drops' = drops
    PROVE  LeakInv'
<1>1. PICK o \in Outcomes \ {"status"} :
        /\ CountFails(n + Lost(o))
        /\ search' = IF o \in Executed
                     THEN [search EXCEPT ![sdb.handle] = NoSearch] ELSE search
  BY DEF CloseDir
<1>2. /\ OthersOpen /\ sdb.handle \in Handles /\ fails \in Nat
      /\ drops \in Nat /\ search \in [Handles -> Seq(Names) \cup {NoSearch}]
  BY CloseDirEffect, Fields DEF KeptInv, TypeOK, SdaInv
<1>3. /\ Lost1(sdb.handle)
      /\ search'[sdb.handle] = NoSearch => Lost0
      /\ Due' = 0 /\ (pc' # "dos" => ax' = "ok")
  BY <1>2, FindDoneLoses
<1>4. Due \in Nat
  BY DEF Due
<1>5. CASE o \in Executed
  <2>1. search'[sdb.handle] = NoSearch
    BY <1>1, <1>2, <1>5
  <2>2. fails' = fails + n + Lost(o) /\ Lost(o) \in Nat
    BY <1>1, <1>2, LostType DEF CountFails
  <2>3. fails + drops + Due' <= fails' + drops' + Due
    BY <1>2, <1>3, <1>4, <2>2
  <2> QED
    BY <1>3, <2>1, <2>3, Paid
<1>6. CASE o \notin Executed
  <2>1. Lost(o) = 1
    BY <1>6 DEF Outcomes, Executed, Lost, Failed
  <2>2. fails' = fails + n + 1
    BY <1>1, <1>2, <2>1 DEF CountFails
  <2>3. fails + drops + Due' + 1 <= fails' + drops' + Due
    BY <1>2, <1>3, <1>4, <2>2
  <2> QED
    BY <1>3, <2>3, Paid
<1> QED
  BY <1>5, <1>6

LEMMA FoundLoses ==
    ASSUME KeptInv, LeakInv, KeptInv', pc = "read", NEW n \in sdb.mask.match,
           NEW code, NEW failed \in Nat, Found(n, code, failed),
           \/ code = ax
           \/ failed = 1,
           drops' = drops
    PROVE  LeakInv'
<1> DEFINE s == [sdb EXCEPT !.name = n, !.entry = i + 1]
           t == [s EXCEPT !.handle = NoHandle]
<1>1. /\ sdb \in SDB /\ n \in Names /\ i + 1 \in Nat /\ sdb.ours
      /\ fails \in Nat /\ drops \in Nat
  BY Fields DEF KeptInv, TypeOK, SdaInv
<1>2. s \in SDB /\ t \in SDB
  BY <1>1, Update
<1>3. SameSearch(s) /\ SameSearch(t) /\ s.handle = sdb.handle
  BY <1>1, <1>2 DEF SameSearch, SDB
<1>4. ASSUME FindDone(s, code), CountFails(failed), UNCHANGED search
      PROVE  LeakInv'
  <2>1. OthersOpen /\ fails' = fails + failed
    BY <1>4 DEF OthersOpen, CountFails
  <2>2. /\ Lost1(sdb.handle) /\ (code = "ok" => Lost0)
        /\ Due' = 0 /\ (pc' # "dos" => ax' = "ok")
    BY <1>3, <1>4, <2>1, FindDoneLoses
  <2>3. Due \in Nat
    BY DEF Due
  <2>4. CASE code = "ok"
    <3>1. fails + drops + Due' <= fails' + drops' + Due
      BY <1>1, <2>1, <2>2, <2>3
    <3> QED
      BY <2>2, <2>4, <3>1, Paid
  <2>5. CASE code # "ok"
    <3>1. failed = 1 \/ Due = 1
      BY <2>5 DEF LeakInv, Due
    <3>2. fails + drops + Due' + 1 <= fails' + drops' + Due
      BY <1>1, <2>1, <2>2, <2>3, <3>1
    <3> QED
      BY <2>2, <3>2, Paid
  <2> QED
    BY <2>4, <2>5
<1> QED
  BY <1>3, <1>4, CloseLoses DEF Found

LEMMA ReadLoses ==
    ASSUME KeptInv, LeakInv, KeptInv', ReadDir
    PROVE  LeakInv'
<1>1. /\ pc = "read" /\ drops' = drops /\ fails \in Nat /\ drops \in Nat
      /\ sdb \in SDB /\ sdb.ours
  BY DEF ReadDir, KeptInv, TypeOK, SdaInv
<1>2. ASSUME NEW code \in {"status", "nfiles"}, Ended(code)
      PROVE  LeakInv'
  <2>1. SameSearch([sdb EXCEPT !.handle = NoHandle])
    BY <1>1, Update DEF SameSearch, SDB
  <2> QED
    BY <1>1, <1>2, <2>1, CloseLoses DEF Ended
<1>3. ASSUME NEW n \in sdb.mask.match, Found(n, ax, 0)
      PROVE  LeakInv'
  BY <1>1, <1>3, FoundLoses
<1>4. ASSUME NEW n \in sdb.mask.match, Found(n, "notready", 1)
      PROVE  LeakInv'
  BY <1>1, <1>4, FoundLoses
<1>5. ASSUME GoOn, UNCHANGED search
      PROVE  Lost0 /\ pc' = "read"
  BY <1>1, <1>5 DEF GoOn, Lost0, Orphans
<1>6. CASE GoOn /\ UNCHANGED <<ax, search, fails>>
  <2>1. Lost0 /\ pc' = "read"
    BY <1>5, <1>6
  <2>2. Due' = Due /\ Due \in Nat /\ ax' \in {"ok", "notready"}
    BY <1>1, <1>6, <2>1 DEF Due, LeakInv
  <2>3. fails + drops + Due' <= fails' + drops' + Due
    BY <1>1, <1>6, <2>2
  <2> QED
    BY <2>1, <2>2, <2>3, Paid
<1>7. CASE GoOn /\ CountFails(1) /\ ax' = "notready" /\ UNCHANGED search
  <2>1. Lost0 /\ pc' = "read"
    BY <1>5, <1>7
  <2>2. Due' = 1 /\ Due \in Nat
    BY <1>7, <2>1 DEF Due
  <2>3. fails' = fails + 1
    BY <1>7 DEF CountFails
  <2>4. fails + drops + Due' <= fails' + drops' + Due
    BY <1>1, <2>2, <2>3
  <2> QED
    BY <1>7, <2>1, <2>4, Paid
<1> QED
  BY <1>2, <1>3, <1>4, <1>6, <1>7 DEF ReadDir

LEMMA ActLoses ==
    ASSUME KeptInv, LeakInv, KeptInv', DeleteOne \/ RenameOne
    PROVE  LeakInv'
<1>1. /\ pc = "act" /\ search' = search /\ op' = op /\ who' = who
      /\ fails \in Nat /\ drops \in Nat /\ sdb \in SDB /\ sdb.ours
  BY DEF DeleteOne, RenameOne, KeptInv, TypeOK, SdaInv
<1>2. Due \in Nat
  BY DEF Due
<1>3. CASE GiveUp
  <2>1. /\ SameSearch(sdb) /\ OthersOpen /\ Return(sdb, "status")
        /\ fails' = fails
    BY <1>1, <1>3 DEF SameSearch, OthersOpen, GiveUp
  <2>2. Lost1(sdb.handle) /\ (sdb.handle = NoHandle => Lost0)
    BY <1>1, <2>1, ReturnLoses
  <2>3. pc' = "dos" /\ Due' = 0
    BY <2>1 DEF Return, Due
  <2>4. CASE sdb.handle = NoHandle
    <3>1. drops' = drops
      BY <1>3, <2>4 DEF GiveUp
    <3>2. fails + drops + Due' <= fails' + drops' + Due
      BY <1>1, <1>2, <2>1, <2>3, <3>1
    <3> QED
      BY <2>2, <2>3, <2>4, <3>2, Paid
  <2>5. CASE sdb.handle # NoHandle
    <3>1. drops' = drops + 1
      BY <1>3, <2>5 DEF GiveUp
    <3>2. fails + drops + Due' + 1 <= fails' + drops' + Due
      BY <1>1, <1>2, <2>1, <2>3, <3>1
    <3> QED
      BY <2>2, <2>3, <3>2, Paid
  <2> QED
    BY <2>4, <2>5
<1>4. ASSUME NEW code, GoToNext(code)
      PROVE  Lost0 /\ pc' = "next" /\ ax' = code
  BY <1>1, <1>4 DEF GoToNext, Lost0, Orphans
<1>5. ASSUME NEW o \in Outcomes, NEW D, Changed(o, D)
      PROVE  LeakInv'
  <2>1. GoToNext(IF o \in Failed THEN "notready" ELSE "ok") /\ drops' = drops
        /\ fails' = fails + Lost(o)
    BY <1>5 DEF Changed, CountFails
  <2>2. Lost0 /\ pc' = "next" /\
        ax' = IF o \in Failed THEN "notready" ELSE "ok"
    BY <1>4, <2>1
  <2>3. Due' = Lost(o) /\ Lost(o) \in Nat
    BY <2>2 DEF Due, Lost
  <2>4. fails + drops + Due' <= fails' + drops' + Due
    BY <1>1, <1>2, <2>1, <2>3
  <2> QED
    BY <2>2, <2>4, Paid
<1>6. CASE GoToNext("ok") /\ UNCHANGED <<fails, drops>>
  <2>1. Lost0 /\ ax' = "ok" /\ Due' = 0
    BY <1>4, <1>6 DEF Due
  <2>2. fails + drops + Due' <= fails' + drops' + Due
    BY <1>1, <1>2, <1>6, <2>1
  <2> QED
    BY <2>1, <2>2, Paid
<1> QED
  BY <1>3, <1>5, <1>6 DEF DeleteOne, RenameOne

LEMMA FirstLoses ==
    ASSUME KeptInv, LeakInv, KeptInv', NEW m \in Masks, _FindFirst(m)
    PROVE  LeakInv'
<1>1. /\ pc = "dos" /\ dta' = dta /\ drops' = drops
      /\ sdb = Idle /\ fails \in Nat /\ drops \in Nat /\ Due = 0
      /\ search \in [Handles -> Seq(Names) \cup {NoSearch}]
      /\ \A h \in Handles : sdb.handle # h
  BY DirSearchAssumption DEF _FindFirst, KeptInv, TypeOK, SdaInv, Due, Idle
<1>2. ASSUME NEW h \in Handles, NEW l \in Listings,
             search' = [search EXCEPT ![h] = l], pc' = "next", ax' = "ok",
             sdb'.handle = h, UNCHANGED fails
      PROVE  LeakInv'
  <2>1. \A g \in Handles : g # h => search'[g] = search[g]
    BY <1>1, <1>2
  <2>2. Lost0
    BY <1>1, <1>2, <2>1 DEF Lost0, Orphans
  <2>3. Due' = 0
    BY <1>2 DEF Due
  <2>4. fails + drops + Due' <= fails' + drops' + Due
    BY <1>1, <1>2, <2>3
  <2> QED
    BY <1>2, <2>2, <2>4, Paid
<1>3. ASSUME NEW h \in Handles, NEW l \in Listings,
             search' = [search EXCEPT ![h] = l], CountFails(1),
             UNCHANGED <<pc, sdb>>
      PROVE  LeakInv'
  <2>1. \A g \in Handles : g # h => search'[g] = search[g]
    BY <1>1, <1>3
  <2>2. Lost1(h)
    BY <1>1, <1>3, <2>1 DEF Lost1, Orphans
  <2>3. Due' = 0 /\ pc' = "dos" /\ fails' = fails + 1
    BY <1>1, <1>3 DEF Due, CountFails
  <2>4. fails + drops + Due' + 1 <= fails' + drops' + Due
    BY <1>1, <2>3
  <2> QED
    BY <2>2, <2>3, <2>4, Paid
<1>4. ASSUME NEW o \in {"status", "lostreq"}, CountFails(Lost(o)),
             UNCHANGED <<search, pc, sdb>>
      PROVE  LeakInv'
  <2>1. Lost0
    BY <1>1, <1>4 DEF Lost0, Orphans
  <2>2. Due' = 0 /\ pc' = "dos" /\ fails' = fails + Lost(o) /\ Lost(o) \in Nat
    BY <1>1, <1>4 DEF Due, CountFails, Lost
  <2>3. fails + drops + Due' <= fails' + drops' + Due
    BY <1>1, <2>2
  <2> QED
    BY <2>1, <2>2, <2>3, Paid
<1> QED
  BY <1>2, <1>3, <1>4 DEF _FindFirst

LEMMA NextLeaks == KeptInv /\ LeakInv /\ KeptInv' /\ [Next]_vars => LeakInv'
<1> SUFFICES ASSUME KeptInv, LeakInv, KeptInv', [Next]_vars PROVE LeakInv'
  OBVIOUS
<1>1. /\ fails \in Nat /\ drops \in Nat /\ Due \in Nat
      /\ pc = "dos" => sdb.handle = NoHandle /\ Due = 0
      /\ NoHandle \notin Handles
  BY DirSearchAssumption DEF KeptInv, TypeOK, SdaInv, Due, Idle
<1>2. ASSUME Lost0, fails' = fails, drops' = drops, Due' = 0,
             pc' # "dos" => ax' = "ok"
      PROVE  LeakInv'
  <2>1. fails + drops + Due' <= fails' + drops' + Due
    BY <1>1, <1>2
  <2> QED
    BY <1>2, <2>1, Paid
<1>3. ASSUME NEW m \in Masks, _FindFirst(m)
      PROVE  LeakInv'
  BY <1>3, FirstLoses
\* Nothing happens to the searches between two calls.
<1>4. ASSUME pc = "dos", pc' = "dos",
             UNCHANGED <<search, dta, sdb, fails, drops>>
      PROVE  LeakInv'
  <2>1. Lost0 /\ Due' = 0
    BY <1>4 DEF Lost0, Orphans, Due
  <2> QED
    BY <1>2, <1>4, <2>1
<1>5. ASSUME NEW d \in Dtas, FindNext(d)
      PROVE  LeakInv'
  <2>1. Lost0 /\ Due' = 0
    BY <1>1, <1>5 DEF FindNext, Lost0, Orphans, Due
  <2> QED
    BY <1>2, <1>5, <2>1 DEF FindNext
<1>6. ASSUME NEW d \in Dtas, DosDrop(d)
      PROVE  LeakInv'
  <2>1. /\ pc = "dos" /\ pc' = "dos" /\ search' = search /\ sdb' = sdb
        /\ fails' = fails /\ Due' = 0
        /\ \A e \in Dtas : e # d => dta'[e] = dta[e]
    BY <1>6 DEF DosDrop, Due, KeptInv, TypeOK
  <2>2. CASE dta[d].handle = NoHandle
    <3>1. Lost0 /\ drops' = drops
      BY <1>1, <1>6, <2>1, <2>2 DEF Lost0, Orphans, DosDrop
    <3> QED
      BY <1>2, <2>1, <3>1
  <2>3. CASE dta[d].handle # NoHandle
    <3>1. Lost1(dta[d].handle)
      BY <2>1 DEF Lost1, Orphans
    <3>2. drops' = drops + 1
      BY <1>6, <2>3 DEF DosDrop
    <3>3. fails + drops + Due' + 1 <= fails' + drops' + Due
      BY <1>1, <2>1, <3>2
    <3> QED
      BY <2>1, <3>1, <3>3, Paid
  <2> QED
    BY <2>2, <2>3
<1>7. ASSUME _FindNext
      PROVE  LeakInv'
  <2>1. /\ pc = "next" /\ UNCHANGED <<search, op, who, fails, drops>>
        /\ sdb \in SDB /\ sdb.ours
    BY <1>7 DEF _FindNext, KeptInv, TypeOK, SdaInv
  <2>2. CASE sdb.handle = NoHandle /\ FindDone(sdb, "nfiles")
    <3>1. SameSearch(sdb) /\ OthersOpen
      BY <2>1 DEF SameSearch, OthersOpen
    <3>2. Lost0 /\ Due' = 0 /\ (pc' # "dos" => ax' = "ok")
      BY <2>1, <2>2, <3>1, FindDoneLoses
    <3> QED
      BY <1>2, <2>1, <3>2
  <2>3. CASE pc' = "read" /\ UNCHANGED <<sdb, ax, dta>>
    <3>1. Lost0 /\ Due' = Due /\ ax' \in {"ok", "notready"}
      BY <2>1, <2>3 DEF Lost0, Orphans, Due, LeakInv
    <3>2. fails + drops + Due' <= fails' + drops' + Due
      BY <1>1, <2>1, <3>1
    <3> QED
      BY <3>1, <3>2, Paid
  <2> QED
    BY <1>7, <2>2, <2>3 DEF _FindNext
<1>8. ASSUME UNCHANGED vars
      PROVE  LeakInv'
  BY <1>8 DEF vars, LeakInv, Orphans, Due
<1> QED
  BY <1>3, <1>4, <1>5, <1>6, <1>7, <1>8, ReadLoses, ActLoses
  DEF Next, FindFirst, FindVolumeLabel, DeleteFile, RenameFile, FileAppears

\* The host keeps no more searches open for nobody than RPCs have failed and
\* searches were dropped, in any number of calls (redir.c: _FindNext closes
\* the search at its end and marks the SDB; DeleteFile, RenameFile).
THEOREM SearchLeaks == Spec => []LeakBound
<1>1. Init => LeakInv
  <2> SUFFICES ASSUME Init PROVE LeakInv
    OBVIOUS
  <2>1. Orphans = {}
    BY DEF Init, Orphans
  <2>2. IsFiniteSet(Orphans) /\ Cardinality(Orphans) = 0
    BY <2>1, FS_EmptySet
  <2> QED
    BY <2>2 DEF Init, LeakInv, Due
<1>2. KeptInv /\ LeakInv => LeakBound
  <2> SUFFICES ASSUME KeptInv, LeakInv PROVE LeakBound
    OBVIOUS
  <2>1. PICK a \in Nat, c \in Nat : a = Cardinality(Orphans) /\ c = Due
    BY FS_CardinalityType DEF LeakInv, Due
  <2> QED
    BY <2>1 DEF LeakInv, LeakBound, KeptInv, TypeOK
<1> QED
  BY <1>1, <1>2, NextLeaks, KeptAlways, PTL DEF Spec

-----------------------------------------------------------------------------
(* What the searches report.                                               *)

\* The next entry that matches is reported next.
LEMMA ReportNext ==
    ASSUME NEW l \in Seq(Names), NEW q \in Seq(Names), NEW match,
           NEW e \in Nat, NEW k \in Nat, e <= k, k + 1 <= Len(l), Distinct(l),
           Reported(q, l, match, e),
           \A x \in DOMAIN l : x > e /\ x <= k => l[x] \notin match,
           l[k + 1] \in match
    PROVE  Reported(Append(q, l[k + 1]), l, match, k + 1)
<1> DEFINE n == l[k + 1]
           r == Append(q, n)
<1>1. /\ DOMAIN l = 1..Len(l) /\ Len(l) \in Nat /\ DOMAIN q = 1..Len(q)
      /\ Len(q) \in Nat /\ n \in Names
  OBVIOUS
<1>2. /\ DOMAIN r = 1..Len(q) + 1 /\ r[Len(q) + 1] = n
      /\ \A j \in DOMAIN q : r[j] = q[j]
  BY <1>1
<1>3. \A x \in 1..e : x \in 1..k + 1 /\ x < k + 1
  OBVIOUS
<1>4. \A x \in 1..k + 1 : x \in 1..e \/ x = k + 1 \/ l[x] \notin match
  BY <1>1
<1>5. \A j \in DOMAIN r : j \in DOMAIN q \/ j = Len(q) + 1
  BY <1>1, <1>2
<1>6. \A j \in DOMAIN q : j \in DOMAIN r
  BY <1>1, <1>2
<1>7. Len(q) + 1 \in DOMAIN r /\ k + 1 \in 1..k + 1
  BY <1>1, <1>2
<1> HIDE DEF r, n
<1>8. ASSUME NEW j \in DOMAIN r
      PROVE  r[j] \in match /\ \E x \in 1..k + 1 : r[j] = l[x]
  <2>1. CASE j \in DOMAIN q
    BY <1>2, <1>3, <2>1 DEF Reported
  <2>2. CASE j = Len(q) + 1
    BY <1>2, <1>7, <2>2 DEF n
  <2> QED
    BY <1>5, <2>1, <2>2
<1>9. ASSUME NEW x \in 1..k + 1, l[x] \in match
      PROVE  \E j \in DOMAIN r : r[j] = l[x]
  <2>1. CASE x \in 1..e
    BY <1>2, <1>6, <1>9, <2>1 DEF Reported
  <2>2. CASE x = k + 1
    BY <1>2, <1>7, <2>2 DEF n
  <2> QED
    BY <1>4, <1>9, <2>1, <2>2
<1>10. ASSUME NEW a \in DOMAIN r, NEW b \in DOMAIN r, a < b
       PROVE  \E x, y \in 1..k + 1 : x < y /\ r[a] = l[x] /\ r[b] = l[y]
  <2>1. a \in DOMAIN q
    BY <1>1, <1>2, <1>10
  <2>2. CASE b \in DOMAIN q
    <3>1. PICK x \in 1..e, y \in 1..e : x < y /\ q[a] = l[x] /\ q[b] = l[y]
      BY <1>10, <2>1, <2>2 DEF Reported
    <3> QED
      BY <1>2, <1>3, <2>1, <2>2, <3>1
  <2>3. CASE b = Len(q) + 1
    <3>1. PICK x \in 1..e : q[a] = l[x]
      BY <2>1 DEF Reported
    <3>2. r[a] = l[x] /\ r[b] = l[k + 1]
      BY <1>2, <2>1, <2>3, <3>1 DEF n
    <3>3. x \in 1..k + 1 /\ x < k + 1
      BY <1>3
    <3> QED
      BY <1>7, <3>2, <3>3
  <2> QED
    BY <1>5, <2>2, <2>3
<1> QED
  BY <1>8, <1>9, <1>10 DEF Reported, r, n

\* What has been reported is what a listing has up to a place.
LEMMA ReportPicks ==
    ASSUME NEW l \in Seq(Names), NEW q \in Seq(Names), NEW match,
           NEW e \in Nat, e <= Len(l), Distinct(l), Reported(q, l, match, e)
    PROVE  Picks(q, l, match)
<1>1. DOMAIN l = 1..Len(l) /\ Len(l) \in Nat
  OBVIOUS
<1>2. \A x \in 1..e : x \in DOMAIN l
  BY <1>1
<1>3. Elements(q) \subseteq Elements(l) \cap match
  BY <1>2 DEF Reported, Elements
<1>4. ASSUME NEW j \in DOMAIN q, NEW k \in DOMAIN q, j < k
      PROVE  q[j] # q[k]
  <2>1. PICK x \in 1..e, y \in 1..e : x < y /\ q[j] = l[x] /\ q[k] = l[y]
    BY <1>4 DEF Reported
  <2> QED
    BY <1>2, <2>1 DEF Distinct
<1>5. ASSUME NEW x \in DOMAIN l, NEW y \in DOMAIN l, x < y, l[x] \in match,
             l[y] \in Elements(q)
      PROVE  \E j, k \in DOMAIN q : j < k /\ q[j] = l[x] /\ q[k] = l[y]
  <2>1. PICK k \in DOMAIN q : q[k] = l[y]
    BY <1>5 DEF Elements
  <2>2. y \in 1..e
    BY <1>2, <2>1 DEF Reported, Distinct
  <2>3. x \in 1..e
    BY <1>1, <1>5, <2>2
  <2>4. PICK j \in DOMAIN q : q[j] = l[x]
    BY <1>5, <2>3 DEF Reported
  <2>5. j \in Nat /\ k \in Nat
    OBVIOUS
  <2>6. j # k
    BY <1>5, <2>1, <2>4 DEF Distinct
  <2>7. ~ k < j
    <3> SUFFICES ASSUME k < j PROVE FALSE
      OBVIOUS
    <3>1. PICK u \in 1..e, v \in 1..e : u < v /\ q[k] = l[u] /\ q[j] = l[v]
      BY DEF Reported
    <3>2. u = y /\ v = x
      BY <1>2, <2>1, <2>4, <3>1 DEF Distinct
    <3> QED
      BY <1>5, <3>1, <3>2
  <2> QED
    BY <2>1, <2>4, <2>5, <2>6, <2>7
<1> QED
  BY <1>3, <1>4, <1>5 DEF Picks

\* Nothing has been reported before the first entry was read.
LEMMA ReportNone ==
    ASSUME NEW l, NEW match PROVE Reported(<<>>, l, match, 0)
  BY DEF Reported

\* What the search of a call has reported when the call reads on.
LEMMA CallReports ==
    ASSUME KeptInv, WalkInv, ReportInv, fails = 0, pc # "dos", op = "find"
    PROVE  /\ Reported(seen[who], sdb.list, sdb.mask.match, sdb.entry)
           /\ seen[who] \in Seq(Names) /\ who \in Dtas
<1>1. who \in Dtas /\ seen[who] \in Seq(Names)
  BY DEF KeptInv, TypeOK
<1>2. CASE first
  <2>1. seen[who] = <<>> /\ sdb.entry = 0
    BY <1>1, <1>2 DEF KeptInv, SdaInv, DtaInv, WalkInv
  <2> QED
    BY <1>1, <2>1, ReportNone
<1>3. CASE ~first
  <2>1. dta[who] = sdb /\ dta[who].ours
    BY <1>3 DEF KeptInv, SdaInv
  <2> QED
    BY <1>1, <2>1 DEF ReportInv, Reports
<1> QED
  BY <1>2, <1>3

LEMMA NewReport ==
    ASSUME NEW d, NEW q, NEW s, Reports(q, s), dta'[d] = s, seen'[d] = q
    PROVE  Reports(seen[d], dta[d])'
  BY DEF Reports, Reported, Closed

\* A step that reports nothing.
LEMMA QuietReports ==
    ASSUME ReportInv, fails' = 0 => fails = 0,
           \A d \in Dtas :
             dta'[d].ours => dta'[d] = dta[d] /\ seen'[d] = seen[d]
    PROVE  ReportInv'
<1> SUFFICES ASSUME fails' = 0, NEW d \in Dtas, dta'[d].ours
             PROVE  Reports(seen[d], dta[d])'
  BY DEF ReportInv
<1>1. Reports(seen[d], dta[d]) /\ dta'[d] = dta[d] /\ seen'[d] = seen[d]
  BY DEF ReportInv
<1> QED
  BY <1>1, NewReport

\* A call that ends with an error, and a deletion or renaming in any case.
LEMMA EndReports ==
    ASSUME KeptInv, ReportInv, NEW s, NEW code, FindDone(s, code),
           code # "ok", fails' = 0 => fails = 0
    PROVE  ReportInv' /\ pc' = "dos"
<1>1. ASSUME NEW c, Return(s, c), c # "ok" \/ op # "find"
      PROVE  /\ pc' = "dos"
             /\ \A d \in Dtas :
                  dta'[d].ours => dta'[d] = dta[d] /\ seen'[d] = seen[d]
  <2>1. ~Idle.ours
    BY DEF Idle
  <2>2. CASE op = "find"
    <3>1. /\ dta' = [dta EXCEPT ![who] = Idle]
          /\ seen' = [seen EXCEPT ![who] = <<>>]
      BY <1>1, <2>2 DEF Return, Answer
    <3> QED
      BY <1>1, <2>1, <3>1 DEF Return, KeptInv, TypeOK
  <2>3. CASE op # "find"
    BY <1>1, <2>3 DEF Return
  <2> QED
    BY <2>2, <2>3
<1> DEFINE rc == IF first /\ code = "nfiles" THEN "filenotfnd" ELSE code
<1>2. rc # "ok"
  OBVIOUS
<1>3. CASE op = "find" /\ Return(s, rc)
  BY <1>1, <1>2, <1>3, QuietReports
<1>4. CASE op # "find" /\ LoopDone(s, rc)
  BY <1>1, <1>4, QuietReports DEF LoopDone
<1> QED
  BY <1>2, <1>3, <1>4 DEF FindDone

\* The next entry matches.  Without wildcards nothing else does.
LEMMA FoundReports ==
    ASSUME KeptInv, WalkInv, ReportInv, pc = "read", fails' = 0, fails = 0,
           i + 1 \in DOMAIN sdb.list, sdb.list[i + 1] \in sdb.mask.match,
           Found(sdb.list[i + 1], "ok", 0), who' = who
    PROVE  WalkInv' /\ ReportInv'
<1> DEFINE n == sdb.list[i + 1]
           s == [sdb EXCEPT !.name = n, !.entry = i + 1]
           t == [s EXCEPT !.handle = NoHandle]
           l == sdb.list
           match == sdb.mask.match
<1>1. /\ sdb \in SDB /\ l \in Seq(Names) /\ Distinct(l) /\ sdb.ours
      /\ match \subseteq Names /\ n \in Names /\ sdb.mask \in Masks
      /\ sdb.handle # NoHandle
      /\ DOMAIN l = 1..Len(l) /\ Len(l) \in Nat /\ i \in Nat
  BY Fields DEF KeptInv, TypeOK, SoundInv, Sound, SdaInv
<1>2. /\ sdb.entry \in Nat /\ sdb.entry <= i /\ i + 1 <= Len(l)
      /\ \A x \in DOMAIN l : x > sdb.entry /\ x <= i => l[x] \notin match
  BY <1>1, Fields DEF WalkInv
<1>3. PICK z \in {s, t} : FindDone(z, "ok") /\ (z = t => ~sdb.mask.wild)
  <2>1. CASE sdb.mask.wild /\ FindDone(s, "ok")
    <3>1. s.handle # t.handle
      BY <1>1 DEF SDB
    <3> HIDE DEF s, t
    <3> QED
      BY <2>1, <3>1
  <2>2. CASE ~sdb.mask.wild /\ FindDone(t, "ok")
    <3> HIDE DEF s, t
    <3> QED
      BY <2>2
  <2> QED
    BY <2>1, <2>2 DEF Found
<1>4. /\ z.list = l /\ z.mask = sdb.mask /\ z.entry = i + 1 /\ z.name = n
      /\ z = s => z.handle = sdb.handle
  BY <1>1 DEF SDB
<1>5. Closed(z)
  <2>1. CASE z = s
    BY <1>1, <1>4, <2>1 DEF Closed
  <2>2. CASE z = t
    <3>1. ~sdb.mask.wild
      BY <1>3, <2>2
    <3>2. \E m \in Names : match \subseteq {m}
      BY <1>1, <3>1, DirSearchAssumption
    <3>3. \A x \in DOMAIN l : l[x] \in match => x = i + 1
      BY <3>2, <1>1 DEF Distinct
    <3> QED
      BY <1>1, <1>4, <3>3 DEF Closed
  <2> QED
    BY <1>3, <2>1, <2>2
<1> HIDE DEF s, t
<1>6. CASE op = "find"
  <2>1. Return(z, "ok")
    BY <1>3, <1>6 DEF FindDone
  <2>2. /\ pc' = "dos" /\ dta' = [dta EXCEPT ![who] = z]
        /\ seen' = [seen EXCEPT ![who] = Append(@, z.name)]
    BY <1>6, <2>1 DEF Return, Answer
  <2>3. /\ Reported(seen[who], l, match, sdb.entry)
        /\ seen[who] \in Seq(Names) /\ who \in Dtas
    BY <1>6, CallReports
  <2>4. Reported(Append(seen[who], n), l, match, i + 1)
    BY <1>1, <1>2, <2>3, ReportNext
  <2>5. ASSUME NEW d \in Dtas, dta'[d].ours
        PROVE  Reports(seen[d], dta[d])'
    <3>1. CASE d = who
      <4>1. dta'[d] = z /\ seen'[d] = Append(seen[who], n)
        BY <1>4, <2>2, <2>3, <3>1 DEF KeptInv, TypeOK
      <4>2. Reports(Append(seen[who], n), z)
        BY <1>1, <1>2, <1>4, <1>5, <2>4 DEF Reports
      <4> QED
        BY <4>1, <4>2, NewReport
    <3>2. CASE d # who
      <4>1. dta'[d] = dta[d] /\ seen'[d] = seen[d]
        BY <2>2, <3>2 DEF KeptInv, TypeOK
      <4>2. Reports(seen[d], dta[d])
        BY <2>5, <4>1 DEF ReportInv
      <4> QED
        BY <4>1, <4>2, NewReport
    <3> QED
      BY <3>1, <3>2
  <2> QED
    BY <2>2, <2>5 DEF WalkInv, ReportInv
<1>7. CASE op # "find"
  <2>1. /\ pc' = "act" /\ sdb' = z /\ first' = FALSE /\ ax' = "ok"
        /\ dta' = dta /\ seen' = seen
    BY <1>3, <1>7 DEF FindDone
  <2>2. ReportInv'
    BY <2>1, QuietReports
  <2>3. Closed(sdb)'
    BY <1>5, <2>1 DEF Closed
  <2>4. WalkInv'
    BY <1>1, <1>2, <1>4, <2>1, <2>3 DEF WalkInv
  <2> QED
    BY <2>2, <2>4
<1> QED
  BY <1>6, <1>7

\* What a step of the loop is if no RPC has failed.
LEMMA ReadClean ==
    ASSUME KeptInv, WalkInv, ReadDir, fails' = 0
    PROVE  /\ fails = 0 /\ ax = "ok" /\ pc = "read"
           /\ who' = who /\ op' = op /\ dir' = dir /\ move' = move
           /\ \/ FindDone([sdb EXCEPT !.handle = NoHandle], "status")
              \/ /\ i + 1 \notin DOMAIN sdb.list
                 /\ FindDone([sdb EXCEPT !.handle = NoHandle], "nfiles")
              \/ /\ i + 1 \in DOMAIN sdb.list
                 /\ sdb.list[i + 1] \in sdb.mask.match
                 /\ Found(sdb.list[i + 1], "ok", 0)
              \/ /\ i + 1 \in DOMAIN sdb.list
                 /\ sdb.list[i + 1] \notin sdb.mask.match
                 /\ GoOn /\ UNCHANGED ax
<1>1. /\ pc = "read" /\ fails \in Nat /\ search[sdb.handle] = sdb.list
      /\ sdb.list # NoSearch /\ who' = who /\ op' = op /\ dir' = dir
      /\ move' = move
  BY Fields DEF ReadDir, KeptInv, TypeOK, SdaInv
<1>2. ASSUME NEW k \in Nat, CountFails(k)
      PROVE  fails = 0 /\ k = 0
  BY <1>1, <1>2 DEF CountFails
<1>3. ASSUME NEW h, NEW k \in Nat, CloseDir(h, k)
      PROVE  fails = 0 /\ k = 0
  <2>1. PICK o \in Outcomes : CountFails(k + Lost(o))
    BY <1>3 DEF CloseDir
  <2>2. Lost(o) \in Nat
    BY LostType
  <2>3. k + Lost(o) = 0 /\ fails = 0
    BY <1>2, <2>1, <2>2
  <2> QED
    BY <2>2, <2>3
<1>4. ASSUME NEW n, NEW code, NEW k \in Nat, Found(n, code, k)
      PROVE  fails = 0 /\ k = 0
  BY <1>2, <1>3, <1>4 DEF Found
<1>5. ~CountFails(1) /\ \A n, code : ~Found(n, code, 1)
  BY <1>2, <1>4
<1>6. fails = 0
  BY <1>2, <1>3, <1>4, <1>5 DEF ReadDir, Ended
<1>7. ax = "ok"
  BY <1>1, <1>6 DEF WalkInv
<1> QED
  BY <1>1, <1>5, <1>6, <1>7 DEF ReadDir, Ended

LEMMA ReadReports ==
    ASSUME KeptInv, WalkInv, ReportInv, ReadDir
    PROVE  WalkInv' /\ ReportInv'
<1> SUFFICES ASSUME fails' = 0 PROVE WalkInv' /\ ReportInv'
  BY DEF WalkInv, ReportInv
<1>1. /\ fails = 0 /\ ax = "ok" /\ pc = "read" /\ who' = who
      /\ i \in Nat /\ sdb \in SDB
  BY ReadClean DEF KeptInv, TypeOK
<1>2. ASSUME NEW s, NEW code, FindDone(s, code), code # "ok"
      PROVE  WalkInv' /\ ReportInv'
  BY <1>1, <1>2, EndReports DEF WalkInv
<1>3. CASE /\ i + 1 \in DOMAIN sdb.list
           /\ sdb.list[i + 1] \in sdb.mask.match
           /\ Found(sdb.list[i + 1], "ok", 0)
  BY <1>1, <1>3, FoundReports
<1>4. CASE /\ i + 1 \in DOMAIN sdb.list
           /\ sdb.list[i + 1] \notin sdb.mask.match
           /\ GoOn /\ UNCHANGED ax
  <2>1. /\ UNCHANGED <<pc, sdb, first, dta, seen, ax>> /\ i' = i + 1
    BY <1>4 DEF GoOn
  <2>2. ReportInv'
    BY <1>1, <2>1, QuietReports
  <2>3. Closed(sdb)' <=> Closed(sdb)
    BY <2>1 DEF Closed
  <2>4. /\ sdb.entry \in Nat /\ DOMAIN sdb.list = 1..Len(sdb.list)
        /\ Len(sdb.list) \in Nat
    BY <1>1, Fields
  <2>5. i + 1 \in sdb.entry..Len(sdb.list)
    BY <1>1, <1>4, <2>4 DEF WalkInv
  <2>6. ASSUME NEW x \in DOMAIN sdb.list, x > sdb.entry, x <= i + 1
        PROVE  sdb.list[x] \notin sdb.mask.match
    <3>1. x = i + 1 \/ x <= i
      BY <1>1, <2>4, <2>6
    <3> QED
      BY <1>1, <1>4, <2>6, <3>1 DEF WalkInv
  <2> QED
    BY <1>1, <2>1, <2>2, <2>3, <2>5, <2>6 DEF WalkInv
<1> QED
  BY <1>2, <1>3, <1>4, ReadClean

LEMMA ActReports ==
    ASSUME KeptInv, WalkInv, ReportInv, DeleteOne \/ RenameOne
    PROVE  WalkInv' /\ ReportInv'
<1> SUFFICES ASSUME fails' = 0 PROVE WalkInv' /\ ReportInv'
  BY DEF WalkInv, ReportInv
<1>1. pc = "act" /\ op # "find" /\ fails \in Nat /\ ~first
  BY DEF DeleteOne, RenameOne, KeptInv, TypeOK, SdaInv
<1>2. CASE GiveUp
  <2>1. pc' = "dos" /\ dta' = dta /\ seen' = seen /\ fails' = fails
    BY <1>1, <1>2 DEF GiveUp, Return
  <2> QED
    BY <2>1, QuietReports DEF WalkInv
<1>3. ASSUME GoToNext("ok"), fails = 0
      PROVE  WalkInv' /\ ReportInv'
  <2>1. /\ pc' = "next" /\ ax' = "ok" /\ UNCHANGED <<sdb, first, dta, seen>>
    BY <1>3 DEF GoToNext
  <2>2. ReportInv'
    BY <1>3, <2>1, QuietReports
  <2>3. Closed(sdb)' <=> Closed(sdb)
    BY <2>1 DEF Closed
  <2> QED
    BY <1>1, <1>3, <2>1, <2>2, <2>3 DEF WalkInv
<1>4. ASSUME NEW o \in Outcomes, NEW D, Changed(o, D)
      PROVE  WalkInv' /\ ReportInv'
  <2>1. fails' = fails + Lost(o) /\ Lost(o) \in {0, 1}
    BY <1>4, LostType DEF Changed, CountFails
  <2>2. Lost(o) = 0 /\ fails = 0
    BY <1>1, <2>1
  <2>3. o \notin Failed
    BY <2>2 DEF Lost
  <2> QED
    BY <1>3, <1>4, <2>2, <2>3 DEF Changed
<1> QED
  BY <1>2, <1>3, <1>4 DEF DeleteOne, RenameOne

LEMMA NextReports ==
    KeptInv /\ WalkInv /\ ReportInv /\ [Next]_vars => WalkInv' /\ ReportInv'
<1> SUFFICES ASSUME KeptInv, WalkInv, ReportInv, [Next]_vars
             PROVE  WalkInv' /\ ReportInv'
  OBVIOUS
<1>1. fails \in Nat /\ (pc = "dos" => ~first)
  BY DEF KeptInv, TypeOK, SdaInv
<1>2. ASSUME UNCHANGED <<dta, seen>>, pc' = "dos", fails' = 0 => fails = 0
      PROVE  WalkInv' /\ ReportInv'
  BY <1>2, QuietReports DEF WalkInv
<1>3. ASSUME NEW m \in Masks, _FindFirst(m)
      PROVE  WalkInv' /\ ReportInv'
  <2>1. pc = "dos" /\ UNCHANGED <<dta, seen>>
    BY <1>3 DEF _FindFirst
  <2>2. ASSUME NEW h \in Handles, NEW l \in Listings,
               pc' = "next" /\ first' = TRUE /\ ax' = "ok",
               sdb' = [ours |-> TRUE, mask |-> m, entry |-> 0,
                       handle |-> h, name |-> NoName, list |-> l],
               UNCHANGED fails
        PROVE  WalkInv' /\ ReportInv'
    <3>1. ReportInv'
      BY <2>1, <2>2, QuietReports
    <3>2. sdb'.entry = 0 /\ sdb'.list = l /\ sdb'.handle # NoHandle
      BY <2>2, DirSearchAssumption
    <3>3. Closed(sdb)'
      BY <3>2 DEF Closed
    <3>4. Len(l) \in Nat
      BY ListingsList DEF KeptInv, TypeOK
    <3> QED
      BY <2>2, <3>1, <3>2, <3>3, <3>4 DEF WalkInv
  <2>3. ASSUME UNCHANGED pc, NEW k \in Nat, CountFails(k)
        PROVE  WalkInv' /\ ReportInv'
    BY <1>1, <1>2, <2>1, <2>3 DEF CountFails
  <2>4. \A o \in Outcomes : Lost(o) \in Nat
    BY LostType
  <2>5. {"status", "lostreq"} \subseteq Outcomes /\ 1 \in Nat
    BY DEF Outcomes
  <2> QED
    BY <1>3, <2>2, <2>3, <2>4, <2>5 DEF _FindFirst
<1>4. ASSUME NEW d \in Dtas, FindNext(d)
      PROVE  WalkInv' /\ ReportInv'
  <2>1. /\ pc = "dos" /\ dta[d].ours /\ pc' = "next" /\ sdb' = dta[d]
        /\ ax' = "ok" /\ UNCHANGED <<dta, seen, first, fails>>
    BY <1>4 DEF FindNext
  <2>2. ReportInv'
    BY <2>1, QuietReports
  <2>3. ASSUME fails = 0
        PROVE  sdb'.entry <= Len(sdb'.list) /\ Closed(sdb)'
    BY <2>1, <2>3 DEF ReportInv, Reports, Closed
  <2> QED
    BY <1>1, <2>1, <2>2, <2>3 DEF WalkInv
<1>5. ASSUME NEW d \in Dtas, DosDrop(d)
      PROVE  WalkInv' /\ ReportInv'
  <2>1. /\ pc = "dos" /\ pc' = "dos" /\ fails' = fails
        /\ dta' = [dta EXCEPT ![d] = Idle]
        /\ seen' = [seen EXCEPT ![d] = <<>>]
    BY <1>5 DEF DosDrop
  <2>2. \A e \in Dtas :
           dta'[e].ours => dta'[e] = dta[e] /\ seen'[e] = seen[e]
    BY <2>1 DEF KeptInv, TypeOK, Idle
  <2> QED
    BY <2>1, <2>2, QuietReports DEF WalkInv
<1>6. ASSUME _FindNext
      PROVE  WalkInv' /\ ReportInv'
  <2>1. pc = "next" /\ fails' = fails
    BY <1>6 DEF _FindNext
  <2>2. CASE FindDone(sdb, "nfiles")
    BY <2>1, <2>2, EndReports DEF WalkInv
  <2>3. CASE /\ pc' = "read" /\ i' = sdb.entry
             /\ UNCHANGED <<sdb, ax, first, error, dta, seen>>
    <3>1. ReportInv'
      BY <2>1, <2>3, QuietReports
    <3>2. Closed(sdb)' <=> Closed(sdb)
      BY <2>3 DEF Closed
    <3>3. /\ sdb.entry \in Nat /\ Len(sdb.list) \in Nat
          /\ DOMAIN sdb.list = 1..Len(sdb.list)
      BY Fields DEF KeptInv, TypeOK
    <3> QED
      BY <2>1, <2>3, <3>1, <3>2, <3>3 DEF WalkInv
  <2> QED
    BY <1>6, <2>2, <2>3 DEF _FindNext
<1>7. ASSUME \/ \E d \in Dtas : FindVolumeLabel(d)
             \/ \E m \in Masks, f \in Moves :
                  RenameFile(m, f) /\ ~_FindFirst(m)
             \/ \E n \in Names : FileAppears(n)
      PROVE  WalkInv' /\ ReportInv'
  BY <1>2, <1>7 DEF FindVolumeLabel, RenameFile, FileAppears
<1>8. CASE UNCHANGED vars
  <2>1. UNCHANGED <<pc, dta, seen, sdb, ax, first, i, fails>>
    BY <1>8 DEF vars
  <2>2. ReportInv'
    BY <2>1, QuietReports
  <2> QED
    BY <2>1, <2>2 DEF WalkInv, Closed
<1> QED
  BY <1>3, <1>4, <1>5, <1>6, <1>7, <1>8, ReadReports, ActReports
  DEF Next, FindFirst, DeleteFile

LEMMA ReportsAlways == Spec => [](KeptInv /\ WalkInv /\ ReportInv)
<1>1. Init => WalkInv /\ ReportInv
  BY DEF Init, WalkInv, ReportInv, Idle
<1> QED
  BY <1>1, NextReports, KeptAlways, PTL DEF Spec

\* The searches of any number of programs report the matching files of their
\* listings in order, each once and none left out, with deletions, renamings
\* and other searches between their steps, as long as no RPC fails
\* (redir.c: _FindFirst, _FindNext; the place is kept in the SDB).
THEOREM SearchesComplete == Spec => []SearchInOrder
<1>1. KeptInv /\ ReportInv => SearchInOrder
  <2> SUFFICES ASSUME KeptInv, ReportInv, fails = 0, NEW d \in Dtas,
                      dta[d].ours
               PROVE  Picks(seen[d], dta[d].list, dta[d].mask.match)
    BY DEF SearchInOrder
  <2>1. Reports(seen[d], dta[d])
    BY DEF ReportInv
  <2>2. dta[d] \in SDB /\ seen[d] \in Seq(Names) /\ Distinct(dta[d].list)
    BY DEF KeptInv, TypeOK, SoundInv, Sound
  <2> QED
    BY <2>1, <2>2, Fields, ReportPicks DEF Reports
<1> QED
  BY <1>1, ReportsAlways, PTL

-----------------------------------------------------------------------------
(* What it means that there are no more files.                             *)

\* No entry that matches comes after the place in the SDB.
PastLast ==
    \A x \in DOMAIN sdb.list : sdb.list[x] \in sdb.mask.match => x <= sdb.entry

\* A call that ends when no RPC has failed, other than by an error of the
\* host or with a file that was found, has gone through the whole listing.
LEMMA Ends ==
    ASSUME KeptInv, WalkInv, Next, pc # "dos", pc' = "dos", fails' = 0,
           ax' # "status", op = "find" => ax' # "ok"
    PROVE  /\ fails = 0 /\ pc \in {"next", "read"} /\ dir' = dir
           /\ PastLast
           /\ op # "find" => ax' \in {"filenotfnd", error}
<1>1. ASSUME NEW s, FindDone(s, "nfiles"), op # "find"
      PROVE  ax' \in {"filenotfnd", error}
  BY <1>1 DEF FindDone, LoopDone, Return
<1>2. ASSUME NEW s, FindDone(s, "status") \/ FindDone(s, "ok")
      PROVE  FALSE
  BY <1>2 DEF FindDone, LoopDone, Return
<1>3. CASE _FindNext
  <2>1. pc = "next" /\ fails' = fails /\ dir' = dir
    BY <1>3 DEF _FindNext
  <2>2. sdb.handle = NoHandle /\ FindDone(sdb, "nfiles")
    BY <1>3 DEF _FindNext
  <2>3. PastLast
    BY <2>1, <2>2 DEF PastLast, WalkInv, Closed
  <2> QED
    BY <1>1, <2>1, <2>2, <2>3
<1>4. CASE ReadDir
  <2>1. fails = 0 /\ pc = "read" /\ dir' = dir
    BY <1>4, ReadClean
  <2>2. ~GoOn /\ \A n : ~Found(n, "ok", 0)
    BY <1>2, <2>1 DEF GoOn, Found
  <2>3. /\ i + 1 \notin DOMAIN sdb.list
        /\ FindDone([sdb EXCEPT !.handle = NoHandle], "nfiles")
    BY <1>2, <1>4, <2>2, ReadClean
  <2>4. /\ DOMAIN sdb.list = 1..Len(sdb.list) /\ Len(sdb.list) \in Nat
        /\ i \in Nat /\ sdb.entry \in Nat
    BY Fields DEF KeptInv, TypeOK
  <2>5. PastLast
    BY <2>1, <2>3, <2>4 DEF PastLast, WalkInv
  <2> QED
    BY <1>1, <2>1, <2>3, <2>5
<1>5. CASE DeleteOne \/ RenameOne
  BY <1>5 DEF DeleteOne, RenameOne, GiveUp, Changed, GoToNext, Return
<1> QED
  BY <1>3, <1>4, <1>5
  DEF Next, FindFirst, FindVolumeLabel, FindNext, DosDrop, DeleteFile,
      RenameFile, _FindFirst, FileAppears

\* Whichever calls came before, a program that is told that there are no
\* more files has been shown every file of its listing that matches, as long
\* as no RPC fails (redir.c: _FindNext).
THEOREM EndIsEnd == Spec => EndMeansAll
<1>1. KeptInv /\ WalkInv /\ ReportInv /\ [Next]_vars =>
        [Returns("find") /\ ax' \in {"nfiles", "filenotfnd"} /\ fails' = 0 =>
           Elements(seen[who]) = Elements(sdb.list) \cap sdb.mask.match]_vars
  <2> SUFFICES ASSUME KeptInv, WalkInv, ReportInv, Next, Returns("find"),
                      ax' \in {"nfiles", "filenotfnd"}, fails' = 0
               PROVE  Elements(seen[who]) =
                        Elements(sdb.list) \cap sdb.mask.match
    OBVIOUS
  <2>1. pc # "dos" /\ pc' = "dos" /\ op = "find"
    BY DEF Returns
  <2>2. fails = 0 /\ PastLast
    BY <2>1, Ends
  <2>3. Reported(seen[who], sdb.list, sdb.mask.match, sdb.entry)
    BY <2>1, <2>2, CallReports
  <2>4. /\ DOMAIN sdb.list = 1..Len(sdb.list) /\ Len(sdb.list) \in Nat
        /\ sdb.entry \in Nat /\ sdb.entry <= Len(sdb.list)
    BY <2>1, <2>2, Fields DEF KeptInv, TypeOK, WalkInv
  <2>5. /\ \A x \in 1..sdb.entry : x \in DOMAIN sdb.list
        /\ \A x \in DOMAIN sdb.list :
             sdb.list[x] \in sdb.mask.match => x \in 1..sdb.entry
    BY <2>2, <2>4 DEF PastLast
  <2> QED
    BY <2>3, <2>5 DEF Reported, Elements
<1> QED
  BY <1>1, ReportsAlways, PTL DEF Spec, EndMeansAll

-----------------------------------------------------------------------------
(* What deletions and renamings do.                                        *)

\* A file to delete or rename has been found, as long as no RPC fails.
LEMMA Finds ==
    ASSUME KeptInv, WalkInv, ReadDir, fails' = 0, pc' # "dos"
    PROVE  /\ pc = "read" /\ fails = 0 /\ error' = error
           /\ UNCHANGED <<op, dir, move>>
           /\ sdb'.list = sdb.list /\ sdb'.mask = sdb.mask
           /\ \/ pc' = "read" /\ sdb' = sdb
              \/ pc' = "act" /\ sdb'.entry = i + 1 /\ i + 1 \in DOMAIN sdb.list
<1>1. ASSUME NEW s, NEW code, FindDone(s, code), code # "ok"
      PROVE  FALSE
  BY <1>1 DEF FindDone, LoopDone, Return
<1>2. sdb \in SDB
  BY DEF KeptInv, TypeOK
<1>3. ASSUME NEW n, Found(n, "ok", 0)
      PROVE  /\ pc' = "act" /\ sdb'.entry = i + 1 /\ error' = error
             /\ sdb'.list = sdb.list /\ sdb'.mask = sdb.mask
  <2> DEFINE s == [sdb EXCEPT !.name = n, !.entry = i + 1]
             t == [s EXCEPT !.handle = NoHandle]
  <2>1. /\ s.entry = i + 1 /\ t.entry = i + 1 /\ s.list = sdb.list
        /\ t.list = sdb.list /\ s.mask = sdb.mask /\ t.mask = sdb.mask
    BY <1>2 DEF SDB
  <2>2. FindDone(s, "ok") \/ FindDone(t, "ok")
    BY <1>3 DEF Found
  <2> QED
    BY <2>1, <2>2 DEF FindDone, LoopDone, Return
<1> QED
  BY <1>1, <1>3, ReadClean DEF GoOn

LEMMA NextDeletes ==
    ASSUME KeptInv, WalkInv, DeleteInv, Next
    PROVE  DeleteInv'
<1> SUFFICES ASSUME fails' = 0, pc' # "dos", op' = "delete"
             PROVE  DeleteInv'
  BY DEF DeleteInv
<1> DEFINE l == sdb.list
           Done(x) == x <= sdb.entry /\ ~(pc = "act" /\ x = sdb.entry)
<1>1. /\ fails \in Nat /\ sdb.entry \in Nat /\ i \in Nat /\ Distinct(l)
      /\ DOMAIN l = 1..Len(l) /\ Len(l) \in Nat
      /\ dir \in SUBSET Names
  BY Fields DEF KeptInv, TypeOK, SoundInv, Sound
<1>2. ASSUME NEW m \in Masks, _FindFirst(m)
      PROVE  DeleteInv'
  <2>1. PICK k \in Listings :
          /\ dir' = dir /\ error' = "ok" /\ pc' = "next"
          /\ sdb'.list = k /\ sdb'.entry = 0 /\ sdb'.mask = m
    <3>1. pc = "dos"
      BY <1>2 DEF _FindFirst
    <3> QED
      BY <1>2, <3>1 DEF _FindFirst
  <2>2. Elements(k) = dir /\ DOMAIN k = 1..Len(k) /\ Len(k) \in Nat
    BY <1>1, ListingsList
  <2>3. \A x \in DOMAIN k : k[x] \in dir /\ x > 0
    BY <2>2 DEF Elements
  <2> QED
    BY <2>1, <2>2, <2>3 DEF DeleteInv
<1>3. CASE _FindNext
  <2>1. ~FindDone(sdb, "nfiles")
    BY DEF FindDone, LoopDone, Return
  <2>2. pc = "next" /\ pc' = "read"
        /\ UNCHANGED <<dir, op, fails, sdb, error>>
    BY <1>3, <2>1 DEF _FindNext
  <2> QED
    BY <2>2 DEF DeleteInv
<1>4. CASE ReadDir
  <2>1. /\ pc = "read" /\ fails = 0 /\ error' = error /\ op = "delete"
        /\ dir' = dir /\ sdb'.list = l /\ sdb'.mask = sdb.mask
        /\ \/ pc' = "read" /\ sdb' = sdb
           \/ pc' = "act" /\ sdb'.entry = i + 1 /\ i + 1 \in DOMAIN l
    BY <1>4, Finds
  <2>2. CASE pc' = "read" /\ sdb' = sdb
    BY <2>1, <2>2 DEF DeleteInv
  <2>3. CASE pc' = "act" /\ sdb'.entry = i + 1
    <3>1. /\ sdb.entry <= i
          /\ \A x \in DOMAIN l : x > sdb.entry /\ x <= i =>
                l[x] \notin sdb.mask.match
      BY <1>1, <2>1 DEF WalkInv
    <3>2. \A x \in DOMAIN l : x > i + 1 \/ x = i + 1 => x > sdb.entry
      BY <1>1, <3>1
    <3>3. \A x \in DOMAIN l : x <= i + 1 /\ x # i + 1 =>
             x <= sdb.entry \/ l[x] \notin sdb.mask.match
      BY <1>1, <3>1
    <3> QED
      BY <2>1, <2>3, <3>2, <3>3 DEF DeleteInv
  <2> QED
    BY <2>1, <2>2, <2>3
<1>5. CASE DeleteOne
  <2>1. /\ pc = "act" /\ op = "delete" /\ sdb.name \in sdb.mask.match
        /\ ~GiveUp
    BY <1>5 DEF DeleteOne, GiveUp, Return, KeptInv, SdaInv
  <2>2. CASE /\ sdb.name \in ReadOnly /\ error' = "access" /\ GoToNext("ok")
             /\ UNCHANGED <<dir, fails>>
    <3>1. /\ fails = 0 /\ pc' = "next" /\ sdb' = sdb /\ dir' = dir
          /\ sdb.entry > 0 /\ sdb.name = l[sdb.entry]
      BY <2>1, <2>2 DEF GoToNext, WalkInv
    <3>2. sdb.entry \in DOMAIN l
      BY <1>1, <2>1, <3>1 DEF WalkInv
    <3>3. sdb.name \in dir
      BY <2>1, <3>1, <3>2 DEF DeleteInv
    <3>4. \A x \in DOMAIN l :
             l[x] \in sdb.mask.match \cap dir /\ x <= sdb.entry =>
                l[x] \in ReadOnly
      BY <2>1, <2>2, <3>1 DEF DeleteInv
    <3> QED
      BY <2>1, <2>2, <3>1, <3>3, <3>4 DEF DeleteInv
  <2>3. CASE /\ sdb.name \notin ReadOnly
             /\ \E o \in Outcomes \ {"status"} : Changed(o, dir \ {sdb.name})
    <3>1. PICK o \in Outcomes \ {"status"} : Changed(o, dir \ {sdb.name})
      BY <2>3
    <3>2. fails' = fails + Lost(o) /\ Lost(o) \in {0, 1}
      BY <3>1, LostType DEF Changed, CountFails
    <3>3. fails = 0 /\ Lost(o) = 0
      BY <1>1, <3>2
    <3>4. o = "ok"
      BY <3>3 DEF Lost, Outcomes, Failed
    <3>5. /\ dir' = dir \ {sdb.name} /\ pc' = "next" /\ sdb' = sdb
          /\ error' = error
      BY <3>1, <3>4 DEF Changed, GoToNext, Executed
    <3>6. sdb.entry > 0 /\ sdb.name = l[sdb.entry] /\ sdb.entry \in DOMAIN l
      BY <1>1, <2>1, <3>3 DEF WalkInv
    <3>7. \A x \in DOMAIN l : x > sdb.entry => l[x] # sdb.name
      BY <1>1, <3>6 DEF Distinct
    <3> QED
      BY <2>1, <2>3, <3>3, <3>5, <3>6, <3>7 DEF DeleteInv
  <2> QED
    BY <1>5, <2>1, <2>2, <2>3 DEF DeleteOne
<1>6. ~RenameOne
  BY DEF RenameOne
<1>7. \A d \in Dtas : /\ \A m \in Masks : ~FindFirst(d, m)
                      /\ ~FindVolumeLabel(d) /\ ~FindNext(d) /\ ~DosDrop(d)
  BY DEF FindFirst, FindVolumeLabel, FindNext, DosDrop
<1>8. \A m \in Masks, f \in Moves : ~RenameFile(m, f)
  BY DEF RenameFile
<1>9. \A n \in Names : ~FileAppears(n)
  BY DEF FileAppears
<1> QED
  BY <1>2, <1>3, <1>4, <1>5, <1>6, <1>7, <1>8, <1>9 DEF Next, DeleteFile

\* Programs delete and rename as they like, and calls of the host fail:
\* DeleteFile removes nothing but what it was asked to, and what it answers
\* is what it has done, as long as no RPC fails (redir.c: DeleteFile).
THEOREM DeletionsHold == Spec => DeletesTheMatches
<1>1. Init => DeleteInv
  BY DEF Init, DeleteInv
<1>2. KeptInv /\ WalkInv /\ DeleteInv /\ [Next]_vars => DeleteInv'
  <2>1. ASSUME DeleteInv, UNCHANGED vars
        PROVE  DeleteInv'
    BY <2>1 DEF DeleteInv, vars
  <2> QED
    BY <2>1, NextDeletes
<1>3. KeptInv /\ Next /\ op = "delete" /\ pc # "dos" =>
        dir \ dir' \subseteq sdb.mask.match \ ReadOnly
  <2> SUFFICES ASSUME KeptInv, Next, op = "delete", pc # "dos"
               PROVE  dir \ dir' \subseteq sdb.mask.match \ ReadOnly
    OBVIOUS
  <2>1. CASE DeleteOne
    BY <2>1 DEF DeleteOne, GiveUp, Changed, KeptInv, SdaInv
  <2>2. CASE dir' = dir
    BY <2>2
  <2> QED
    BY <2>1, <2>2
    DEF Next, FindFirst, FindVolumeLabel, FindNext, DosDrop, DeleteFile,
        RenameFile, _FindFirst, FileAppears, _FindNext, ReadDir, RenameOne
<1>4. KeptInv /\ WalkInv /\ DeleteInv /\ Next /\ Returns("delete")
        /\ fails' = 0 =>
        /\ ax' = "ok" => dir' \cap sdb.mask.match = {}
        /\ ax' = "access" => /\ dir' \cap sdb.mask.match # {}
                             /\ dir' \cap sdb.mask.match \subseteq ReadOnly
  <2> SUFFICES ASSUME KeptInv, WalkInv, DeleteInv, Next, Returns("delete"),
                      fails' = 0, ax' \in {"ok", "access"}
               PROVE  /\ ax' = "ok" => dir' \cap sdb.mask.match = {}
                      /\ ax' = "access" =>
                           /\ dir' \cap sdb.mask.match # {}
                           /\ dir' \cap sdb.mask.match \subseteq ReadOnly
    OBVIOUS
  <2>1. pc # "dos" /\ pc' = "dos" /\ op = "delete"
    BY DEF Returns
  <2>2. /\ fails = 0 /\ pc \in {"next", "read"} /\ dir' = dir /\ PastLast
        /\ ax' \in {"filenotfnd", error}
    BY <2>1, Ends
  <2>3. ax' = error
    BY <2>2
  <2>4. ASSUME NEW n \in dir \cap sdb.mask.match
        PROVE  n \in ReadOnly /\ error = "access"
    <3>1. PICK x \in DOMAIN sdb.list : sdb.list[x] = n
      BY <2>1, <2>2 DEF DeleteInv, Elements
    <3> QED
      BY <2>1, <2>2, <3>1 DEF DeleteInv, PastLast
  <2>5. error = "access" => dir \cap sdb.mask.match \cap ReadOnly # {}
    BY <2>1, <2>2 DEF DeleteInv
  <2> QED
    BY <2>2, <2>3, <2>4, <2>5
<1>5. KeptInv /\ WalkInv /\ DeleteInv /\ [Next]_vars =>
        [/\ op = "delete" /\ pc # "dos" =>
              dir \ dir' \subseteq sdb.mask.match \ ReadOnly
         /\ Returns("delete") /\ fails' = 0 =>
              LET left == dir' \cap sdb.mask.match IN
              /\ ax' = "ok" => left = {}
              /\ ax' = "access" => left # {} /\ left \subseteq ReadOnly]_vars
  BY <1>3, <1>4
<1> QED
  BY <1>1, <1>2, <1>5, ReportsAlways, PTL DEF Spec, DeletesTheMatches

LEMMA NextRenames ==
    ASSUME KeptInv, WalkInv, RenameInv, Next
    PROVE  RenameInv'
<1> SUFFICES ASSUME fails' = 0, pc' # "dos", op' = "rename"
             PROVE  RenameInv'
  BY DEF RenameInv
<1> DEFINE l == sdb.list
<1>1. /\ fails \in Nat /\ sdb.entry \in Nat /\ i \in Nat
      /\ DOMAIN l = 1..Len(l) /\ Len(l) \in Nat
      /\ dir \in SUBSET Names /\ move \in Moves
  BY Fields DEF KeptInv, TypeOK
<1>2. ASSUME NEW m \in Masks, _FindFirst(m)
      PROVE  RenameInv'
  <2>1. PICK k \in Listings :
          /\ dir' = dir /\ pc' = "next"
          /\ sdb'.list = k /\ sdb'.entry = 0 /\ sdb'.mask = m
    <3>1. pc = "dos"
      BY <1>2 DEF _FindFirst
    <3> QED
      BY <1>2, <3>1 DEF _FindFirst
  <2>2. Elements(k) = dir /\ DOMAIN k = 1..Len(k) /\ Len(k) \in Nat
    BY <1>1, ListingsList
  <2>3. \A n \in dir : \E x \in DOMAIN k : k[x] = n /\ x > 0
    BY <2>2 DEF Elements
  <2> QED
    BY <2>1, <2>3 DEF RenameInv
<1>3. CASE _FindNext
  <2>1. ~FindDone(sdb, "nfiles")
    BY DEF FindDone, LoopDone, Return
  <2>2. pc = "next" /\ pc' = "read"
        /\ UNCHANGED <<dir, op, move, fails, sdb>>
    BY <1>3, <2>1 DEF _FindNext
  <2> QED
    BY <2>2 DEF RenameInv
<1>4. CASE ReadDir
  <2>1. /\ pc = "read" /\ fails = 0 /\ op = "rename" /\ move' = move
        /\ dir' = dir /\ sdb'.list = l /\ sdb'.mask = sdb.mask
        /\ \/ pc' = "read" /\ sdb' = sdb
           \/ pc' = "act" /\ sdb'.entry = i + 1 /\ i + 1 \in DOMAIN l
    BY <1>4, Finds
  <2>2. CASE pc' = "read" /\ sdb' = sdb
    BY <2>1, <2>2 DEF RenameInv
  <2>3. CASE pc' = "act" /\ sdb'.entry = i + 1
    <3>1. /\ sdb.entry <= i
          /\ \A x \in DOMAIN l : x > sdb.entry /\ x <= i =>
                l[x] \notin sdb.mask.match
      BY <1>1, <2>1 DEF WalkInv
    <3>2. \A x \in DOMAIN l : x > sdb.entry =>
             x > i + 1 \/ x = i + 1 \/ l[x] \notin sdb.mask.match
      BY <1>1, <3>1
    <3> QED
      BY <2>1, <2>3, <3>2 DEF RenameInv
  <2> QED
    BY <2>1, <2>2, <2>3
<1>5. CASE RenameOne
  <2>1. pc = "act" /\ op = "rename" /\ move' = move /\ ~GiveUp
    BY <1>5 DEF RenameOne, GiveUp, Return
  <2> DEFINE newDir == Renamed(sdb.name)
  <2>2. PICK o \in Outcomes \ {"status"} : Changed(o, newDir)
    BY <1>5, <2>1 DEF RenameOne
  <2>3. fails' = fails + Lost(o) /\ Lost(o) \in {0, 1}
    BY <2>2, LostType DEF Changed, CountFails
  <2>4. fails = 0 /\ Lost(o) = 0
    BY <1>1, <2>3
  <2>5. o = "ok"
    BY <2>4 DEF Lost, Outcomes, Failed
  <2>6. dir' = newDir /\ pc' = "next" /\ sdb' = sdb
    BY <2>2, <2>5 DEF Changed, GoToNext, Executed
  <2>7. sdb.name = l[sdb.entry] /\ sdb.name \in Names
    BY <2>1, <2>4 DEF WalkInv, KeptInv, SdaInv
  <2>8. move[move[sdb.name]] = move[sdb.name]
    BY <1>1, <2>7, DirSearchAssumption
  <2>9. ASSUME NEW n \in dir', n \in sdb.mask.match, move[n] # n
        PROVE  \E x \in DOMAIN l : l[x] = n /\ x > sdb.entry
    <3>1. n \in dir /\ n # sdb.name
      BY <2>6, <2>8, <2>9 DEF Renamed
    <3> QED
      BY <2>1, <2>4, <2>7, <2>9, <3>1 DEF RenameInv
  <2> QED
    BY <2>1, <2>6, <2>9 DEF RenameInv
<1>6. ~DeleteOne
  BY DEF DeleteOne
<1>7. \A d \in Dtas : /\ \A m \in Masks : ~FindFirst(d, m)
                      /\ ~FindVolumeLabel(d) /\ ~FindNext(d) /\ ~DosDrop(d)
  BY DEF FindFirst, FindVolumeLabel, FindNext, DosDrop
<1>8. /\ \A m \in Masks : ~DeleteFile(m)
      /\ \A m \in Masks, f \in Moves : RenameFile(m, f) => _FindFirst(m)
  BY DEF DeleteFile, RenameFile
<1>9. \A n \in Names : ~FileAppears(n)
  BY DEF FileAppears
<1> QED
  BY <1>2, <1>3, <1>4, <1>5, <1>6, <1>7, <1>8, <1>9 DEF Next

\* Whatever the programs delete and rename before, a renaming renames only what
\* it was asked to, and one that reports success has left no file that matches
\* under its old name, as long as no RPC fails (redir.c: RenameFile).
THEOREM RenamingsHold == Spec => RenamesTheMatches
<1>1. Init => RenameInv
  BY DEF Init, RenameInv
<1>2. KeptInv /\ WalkInv /\ RenameInv /\ [Next]_vars => RenameInv'
  <2>1. ASSUME RenameInv, UNCHANGED vars
        PROVE  RenameInv'
    BY <2>1 DEF RenameInv, vars
  <2> QED
    BY <2>1, NextRenames
<1>3. KeptInv /\ WalkInv /\ RenameInv /\ [Next]_vars =>
        [Returns("rename") /\ fails' = 0 /\ ax' = "ok" =>
           \A n \in dir' \cap sdb.mask.match : move[n] = n]_vars
  <2> SUFFICES ASSUME KeptInv, WalkInv, RenameInv, Next, Returns("rename"),
                      fails' = 0, ax' = "ok",
                      NEW n \in dir' \cap sdb.mask.match, move[n] # n
               PROVE  FALSE
    OBVIOUS
  <2>1. pc # "dos" /\ pc' = "dos" /\ op = "rename"
    BY DEF Returns
  <2>2. fails = 0 /\ pc \in {"next", "read"} /\ dir' = dir /\ PastLast
    BY <2>1, Ends
  <2>3. PICK x \in DOMAIN sdb.list : sdb.list[x] = n /\ x > sdb.entry
    BY <2>1, <2>2 DEF RenameInv
  <2>4. /\ DOMAIN sdb.list = 1..Len(sdb.list) /\ sdb.entry \in Nat
        /\ Len(sdb.list) \in Nat
    BY Fields DEF KeptInv, TypeOK
  <2> QED
    BY <2>2, <2>3, <2>4 DEF PastLast
<1>4. KeptInv /\ Next /\ op = "rename" /\ pc # "dos" =>
        /\ dir \ dir' \subseteq sdb.mask.match
        /\ dir' \ dir \subseteq {move[n] : n \in dir \cap sdb.mask.match}
  <2> SUFFICES ASSUME KeptInv, Next, op = "rename", pc # "dos"
               PROVE  /\ dir \ dir' \subseteq sdb.mask.match
                      /\ dir' \ dir \subseteq
                           {move[n] : n \in dir \cap sdb.mask.match}
    OBVIOUS
  <2>1. CASE RenameOne
    <3>1. dir' = dir \/ dir' = Renamed(sdb.name)
      BY <2>1 DEF RenameOne, GiveUp, Changed
    <3>2. sdb.name \in sdb.mask.match
      BY <2>1 DEF RenameOne, KeptInv, SdaInv
    <3> QED
      BY <3>1, <3>2 DEF Renamed
  <2>2. CASE dir' = dir
    BY <2>2
  <2> QED
    BY <2>1, <2>2
    DEF Next, FindFirst, FindVolumeLabel, FindNext, DosDrop, DeleteFile,
        RenameFile, _FindFirst, FileAppears, _FindNext, ReadDir, DeleteOne
<1>5. KeptInv /\ WalkInv /\ RenameInv /\ [Next]_vars =>
        [/\ op = "rename" /\ pc # "dos" =>
              /\ dir \ dir' \subseteq sdb.mask.match
              /\ dir' \ dir \subseteq
                   {move[n] : n \in dir \cap sdb.mask.match}
         /\ Returns("rename") /\ fails' = 0 /\ ax' = "ok" =>
              \A n \in dir' \cap sdb.mask.match : move[n] = n]_vars
  BY <1>3, <1>4
<1> QED
  BY <1>1, <1>2, <1>5, ReportsAlways, PTL DEF Spec, RenamesTheMatches
=============================================================================
