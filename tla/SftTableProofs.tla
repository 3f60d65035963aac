--------------------------- MODULE SftTableProofs ---------------------------
(***************************************************************************)
(* Proofs about SftTable, for every value of its constants: its            *)
(* invariants, what a close says of the time, and that it implements       *)
(* HandleTable.                                                            *)
(***************************************************************************)
EXTENDS SftTable, FiniteSetTheorems, TLAPS

\* The loops of CloseAll and of an ending process run only in a child
\* process, over slots of the JFT.
LoopOK ==
    /\ pc = "closeall" => idx >= 5
    /\ pc = "dosclose" => idx >= FirstSlot
    /\ pc # "dos" => depth > 1

TypeInv == TypeOK /\ LoopOK

\* The steps of Next that leave the host and its entries to one operator.
LEMMA SlotsFinite == IsFiniteSet(Slots)
  <1>1. FirstSlot \in Int /\ JftSize - 1 \in Int
    BY SftAssumption
  <1> QED
    BY <1>1, FS_Interval DEF Slots

\* A set of slots has a natural number of elements, and none when it is empty.
LEMMA SlotCount ==
    ASSUME NEW P \in SUBSET Slots
    PROVE  /\ IsFiniteSet(P)
           /\ Cardinality(P) \in Nat
           /\ Cardinality(P) = 0 <=> P = {}
  <1>1. IsFiniteSet(P)
    BY SlotsFinite, FS_Subset
  <1> QED
    BY <1>1, FS_CardinalityType, FS_EmptySet

LEMMA UnusedType == Unused \in SFT
  BY DEF Unused, SFT, Times

\* Releasing an entry keeps the table well typed.
LEMMA ReleaseType ==
    ASSUME TypeOK, NEW s \in Sfts, NEW t \in Times
    PROVE  Release(s, t) \in [Sfts -> SFT]
  <1>1. sft[s] \in SFT
    BY DEF TypeOK
  <1>2. CASE sft[s].count > 1
    <2>1. [sft[s] EXCEPT !.count = sft[s].count - 1, !.time = t] \in SFT
      <3>1. sft[s].count - 1 \in Nat
        BY <1>1, <1>2 DEF SFT
      <3>2. \A n \in Nat : [sft[s] EXCEPT !.count = n, !.time = t] \in SFT
        BY <1>1 DEF SFT
      <3> QED
        BY <3>1, <3>2
    <2>2. Release(s, t) =
            [sft EXCEPT ![s] =
               [sft[s] EXCEPT !.count = sft[s].count - 1, !.time = t]]
      BY <1>1, <1>2 DEF Release, TypeOK, SFT
    <2> QED
      BY <2>1, <2>2 DEF TypeOK
  <1>3. CASE ~(sft[s].count > 1)
    BY <1>3, UnusedType DEF Release, TypeOK
  <1> QED
    BY <1>2, <1>3

\* So does a whole _CloseFile, and it leaves the host well typed too.
LEMMA CloseType ==
    ASSUME TypeOK, NEW s \in Sfts, _CloseFile(s)
    PROVE  /\ sft' \in [Sfts -> SFT]
           /\ hostOpen' \in [Handles -> Files \cup {NoFile}]
           /\ mtime' \in [Files -> Times]
           /\ fails' \in Nat
  <1>1. StampTime(s) \in Times
    BY DEF StampTime, TypeOK, SFT, Times
  <1>2. sft' \in [Sfts -> SFT]
    BY <1>1, ReleaseType DEF _CloseFile
  <1>3. PICK set \in Outcomes, close \in Outcomes :
          /\ CountFails(Lost(set) + Lost(close))
          /\ mtime' = IF /\ Stamps(s) /\ set \in Executed
                         /\ StampTarget(s) # NoFile
                      THEN [mtime EXCEPT ![StampTarget(s)] = StampTime(s)]
                      ELSE mtime
          /\ hostOpen' = IF close \in Executed
                         THEN [hostOpen EXCEPT ![sft[s].handle] = NoFile]
                         ELSE hostOpen
    BY DEF _CloseFile
  <1>4. hostOpen' \in [Handles -> Files \cup {NoFile}]
    BY <1>3 DEF TypeOK
  <1>5. mtime' \in [Files -> Times]
    BY <1>1, <1>3 DEF TypeOK
  <1>6. fails' \in Nat
    BY <1>3 DEF CountFails, Lost, TypeOK
  <1> QED
    BY <1>2, <1>4, <1>5, <1>6

LEMMA OpenType ==
    ASSUME TypeInv, NEW i \in Slots, NEW s \in Sfts, NEW f \in Files,
           NEW trunc \in BOOLEAN, OpenOrCreateFile(i, s, f, trunc)
    PROVE  TypeInv'
  <1> USE DEF TypeInv, LoopOK
  <1>1. Truncated(f, trunc) \in [Files -> Times]
    BY DEF Truncated, TypeOK, Times
  <1>2. \A o \in Outcomes : Lost(o) \in Nat
    BY DEF Lost
  <1>3. CASE OpenRefused
    BY <1>2, <1>3 DEF OpenOrCreateFile, OpenRefused, CountFails, TypeOK
  <1>4. CASE \E h \in Handles : OpenForgotten(f, h, trunc)
    BY <1>1, <1>4 DEF OpenOrCreateFile, OpenForgotten, CountFails, TypeOK
  <1>5. CASE \E h \in Handles : OpenGivenUp(f, h, trunc)
    BY <1>1, <1>2, <1>5
    DEF OpenOrCreateFile, OpenGivenUp, CountFails, TypeOK
  <1>6. CASE \E h \in Handles : OpenDone(i, s, f, h, trunc)
    <2>1. PICK h \in Handles : OpenDone(i, s, f, h, trunc)
      BY <1>6
    <2>2. PICK ro \in BOOLEAN :
            sft' = [sft EXCEPT ![s] =
                   [count |-> 1, ours |-> TRUE, rdonly |-> ro, clean |-> TRUE,
                    fdate |-> FALSE, time |-> mtime'[f], handle |-> h,
                    file |-> f, last |-> "none"]]
      BY <2>1 DEF OpenDone
    <2>3. mtime' \in [Files -> Times]
      BY <1>1, <2>1 DEF OpenDone
    <2>4. sft' \in [Sfts -> SFT]
      BY <2>2, <2>3 DEF TypeOK, SFT
    <2>5. /\ jft' \in [1..MaxDepth -> [Slots -> Sfts \cup {NoSft}]]
          /\ hostOpen' \in [Handles -> Files \cup {NoFile}]
          /\ fails' \in Nat
      BY <2>1 DEF OpenDone, TypeOK
    <2> QED
      BY <2>3, <2>4, <2>5 DEF OpenOrCreateFile, TypeOK
  <1> QED
    BY <1>3, <1>4, <1>5, <1>6 DEF OpenOrCreateFile

LEMMA InitType == Init => TypeInv
  <1> SUFFICES ASSUME Init PROVE TypeInv
    OBVIOUS
  <1>1. sft \in [Sfts -> SFT]
    BY UnusedType DEF Init
  <1>2. jft \in [1..MaxDepth -> [Slots -> Sfts \cup {NoSft}]]
    BY DEF Init, NoSlots
  <1>3. depth \in 1..MaxDepth
    BY SftAssumption DEF Init
  <1>4. /\ hostOpen \in [Handles -> Files \cup {NoFile}]
        /\ mtime \in [Files -> Times]
    BY DEF Init, Times
  <1> QED
    BY <1>1, <1>2, <1>3, <1>4 DEF Init, TypeInv, LoopOK, TypeOK

LEMMA NextType == TypeInv /\ [Next]_vars => TypeInv'
  <1> SUFFICES ASSUME TypeInv, [Next]_vars
               PROVE  TypeInv'
    OBVIOUS
  <1> USE DEF TypeInv, LoopOK
  <1>1. ASSUME NEW i \in Slots, NEW s \in Sfts, DosLocalOpen(i, s)
        PROVE  TypeInv'
    <2>1. PICK h \in Handles, c \in BOOLEAN :
            sft' = [sft EXCEPT ![s] =
                   [Unused EXCEPT !.count = 1, !.clean = c, !.handle = h]]
      BY <1>1 DEF DosLocalOpen
    <2>2. [Unused EXCEPT !.count = 1, !.clean = c, !.handle = h] \in SFT
      BY DEF Unused, SFT, Times
    <2> QED
      BY <1>1, <2>1, <2>2 DEF DosLocalOpen, TypeOK
  <1>2. ASSUME NEW i \in Slots, NEW s \in Sfts, NEW f \in Files,
               OpenFile(i, s, f) \/ CreateFile(i, s, f) \/ SpecialOpen(i, s, f)
        PROVE  TypeInv'
    BY <1>2, OpenType DEF OpenFile, CreateFile, SpecialOpen
  <1>3. ASSUME NEW i \in Slots, WriteFile(i)
        PROVE  TypeInv'
    <2> DEFINE s == jft[depth][i]
    <2>1. s \in Sfts
      BY <1>3 DEF WriteFile, Opened, Counted, TypeOK
    <2>2. sft' \in [Sfts -> SFT]
      <3>1. sft[s] \in SFT
        BY <2>1 DEF TypeOK
      <3>2. [sft[s] EXCEPT !.clean = FALSE, !.fdate = FALSE,
                           !.last = "write"] \in SFT
        BY <3>1 DEF SFT
      <3>3. sft' = [sft EXCEPT ![s] =
                      [sft[s] EXCEPT !.clean = FALSE, !.fdate = FALSE,
                                     !.last = "write"]]
        BY <1>3, <2>1, <3>1 DEF WriteFile, TypeOK, SFT
      <3> QED
        BY <3>2, <3>3 DEF TypeOK
    <2>3. mtime' \in [Files -> Times]
      BY <1>3 DEF WriteFile, TypeOK, Times
    <2>4. fails' \in Nat
      BY <1>3 DEF WriteFile, CountFails, Lost, TypeOK
    <2> QED
      BY <1>3, <2>2, <2>3, <2>4 DEF WriteFile, TypeOK
  <1>4. ASSUME NEW i \in Slots, DosSetDate(i)
        PROVE  TypeInv'
    <2> DEFINE s == jft[depth][i]
    <2>1. s \in Sfts
      BY <1>4 DEF DosSetDate, Opened, Counted, TypeOK
    <2>2. sft' \in [Sfts -> SFT]
      <3>1. sft[s] \in SFT
        BY <2>1 DEF TypeOK
      <3>2. PICK c \in BOOLEAN :
              sft' = [sft EXCEPT ![s].clean = c, ![s].fdate = TRUE,
                                 ![s].time = "set", ![s].last = "set"]
        BY <1>4, <3>1 DEF DosSetDate, SFT
      <3>3. [sft[s] EXCEPT !.clean = c, !.fdate = TRUE, !.time = "set",
                           !.last = "set"] \in SFT
        BY <3>1 DEF SFT, Times
      <3>4. sft' = [sft EXCEPT ![s] =
                      [sft[s] EXCEPT !.clean = c, !.fdate = TRUE,
                                     !.time = "set", !.last = "set"]]
        BY <2>1, <3>1, <3>2 DEF TypeOK, SFT
      <3> QED
        BY <3>3, <3>4 DEF TypeOK
    <2> QED
      BY <1>4, <2>2 DEF DosSetDate, TypeOK
  <1>5. ASSUME NEW i \in Slots, CloseFile(i)
        PROVE  TypeInv'
    <2>1. jft[depth][i] \in Sfts
      BY <1>5 DEF CloseFile, Opened, Counted, TypeOK
    <2> QED
      BY <1>5, <2>1, CloseType DEF CloseFile, TypeOK
  <1>6. ASSUME NEW i \in Slots, DosLocalClose(i)
        PROVE  TypeInv'
    <2>1. jft[depth][i] \in Sfts
      BY <1>6 DEF DosLocalClose, Opened, Counted, TypeOK
    <2>2. sft[jft[depth][i]].time \in Times
      BY <2>1 DEF TypeOK, SFT
    <2> QED
      BY <1>6, <2>1, <2>2, ReleaseType DEF DosLocalClose, TypeOK
  <1>7. ASSUME NEW i \in Slots, NEW j \in Slots, DosDup(i, j)
        PROVE  TypeInv'
    <2>1. jft[depth][i] \in Sfts
      BY <1>7 DEF DosDup, Opened, Counted, TypeOK
    <2>2. sft' \in [Sfts -> SFT]
      <3> DEFINE s == jft[depth][i]
      <3>1. sft[s] \in SFT
        BY <2>1 DEF TypeOK
      <3>2. [sft[s] EXCEPT !.count = sft[s].count + 1] \in SFT
        BY <3>1 DEF SFT
      <3>3. sft' = [sft EXCEPT ![s] =
                      [sft[s] EXCEPT !.count = sft[s].count + 1]]
        BY <1>7, <2>1, <3>1 DEF DosDup, TypeOK, SFT
      <3> QED
        BY <2>1, <3>2, <3>3 DEF TypeOK
    <2> QED
      BY <1>7, <2>1, <2>2 DEF DosDup, TypeOK
  <1>8. ASSUME NEW f \in Files, DosPathCall(f)
        PROVE  TypeInv'
    BY <1>8 DEF DosPathCall, TypeOK
  <1>9. CASE DosExec
    <2> DEFINE uses(s) == {i \in Slots : jft[depth][i] = s}
               inherited == {i \in Slots : jft[depth][i] # NoSft}
    <2>1. \A s \in Sfts : Cardinality(uses(s)) \in Nat
      BY SlotCount
    <2>2. Cardinality(inherited) \in Nat
      BY SlotCount
    <2>3. \A s \in Sfts :
            [sft[s] EXCEPT !.count = sft[s].count + Cardinality(uses(s))]
              \in SFT
      <3> SUFFICES ASSUME NEW s \in Sfts, NEW n \in Nat
                   PROVE  [sft[s] EXCEPT !.count = sft[s].count + n] \in SFT
        BY <2>1
      <3>1. sft[s] \in SFT
        BY DEF TypeOK
      <3> QED
        BY <3>1 DEF SFT
    <2>4. sft' \in [Sfts -> SFT]
      BY <1>9, <2>3 DEF DosExec
    <2>5. jft' \in [1..MaxDepth -> [Slots -> Sfts \cup {NoSft}]]
      BY <1>9 DEF DosExec, TypeOK
    <2>6. depth' \in 1..MaxDepth /\ dups' \in Nat
      BY <1>9, <2>2, SftAssumption DEF DosExec, TypeOK
    <2> QED
      BY <1>9, <2>4, <2>5, <2>6 DEF DosExec, TypeOK
  <1>10. CASE DosExit
    BY <1>10, SftAssumption DEF DosExit, TypeOK
  <1>11. CASE CloseAllStep
    <2> DEFINE s == jft[depth][idx]
    <2>1. idx \in Slots
      BY <1>11, SftAssumption DEF CloseAllStep, TypeOK, Slots
    <2>2. CASE Counted(s)
      <3>1. s \in Sfts
        BY <2>1, <2>2 DEF Counted, TypeOK
      <3> QED
        BY <1>11, <2>2, <3>1, CloseType DEF CloseAllStep, TypeOK, SFT
    <2>3. CASE ~Counted(s)
      BY <1>11, <2>3 DEF CloseAllStep, TypeOK
    <2> QED
      BY <2>2, <2>3
  <1>12. CASE CloseAllDone
    BY <1>12, SftAssumption DEF CloseAllDone, TypeOK
  <1>13. CASE DosCloseStep
    <2> DEFINE s == jft[depth][idx]
    <2>1. idx \in Slots
      BY <1>13, SftAssumption DEF DosCloseStep, TypeOK, Slots
    <2>2. CASE ~Counted(s)
      BY <1>13, <2>2, SftAssumption DEF DosCloseStep, TypeOK
    <2>3. CASE Counted(s)
      <3>1. s \in Sfts /\ sft[s].time \in Times
        BY <2>1, <2>3 DEF Counted, TypeOK, SFT
      <3>2. CASE sft[s].ours
        BY <1>13, <2>3, <3>1, <3>2, CloseType, SftAssumption
        DEF DosCloseStep, TypeOK
      <3>3. CASE ~sft[s].ours
        BY <1>13, <2>3, <3>1, <3>3, ReleaseType, SftAssumption
        DEF DosCloseStep, TypeOK
      <3> QED
        BY <3>2, <3>3
    <2> QED
      BY <2>2, <2>3
  <1>14. CASE DosExitDone
    <2>1. NoSlots \in [Slots -> Sfts \cup {NoSft}]
      BY DEF NoSlots
    <2> QED
      BY <1>14, <2>1, SftAssumption DEF DosExitDone, TypeOK
  <1>15. CASE UNCHANGED vars
    BY <1>15 DEF vars, TypeOK
  <1> QED
    BY <1>1, <1>2, <1>3, <1>4, <1>5, <1>6, <1>7, <1>8, <1>9, <1>10, <1>11,
       <1>12, <1>13, <1>14, <1>15 DEF Next

LEMMA Typing == Spec => []TypeInv
  BY InitType, NextType, PTL DEF Spec

\* Every reachable state is well typed: the SFT entries, the JFTs of the
\* EXEC chain and the host's handle table keep their shape whatever the
\* handlers and DOS do, and whichever RPCs fail.
THEOREM TypeCorrect == Spec => []TypeOK
  BY Typing, PTL DEF TypeInv

-----------------------------------------------------------------------------
(* What a _CloseFile does to the tables, whatever the outcome of its RPCs. *)

LEMMA CloseEffect ==
    ASSUME TypeOK, NEW s \in Sfts, _CloseFile(s)
    PROVE  /\ \A t \in Sfts : t # s => sft'[t] = sft[t]
           /\ \A h \in Handles : h # sft[s].handle =>
                 hostOpen'[h] = hostOpen[h]
           /\ fails' = 0 =>
                 /\ fails = 0
                 /\ sft[s].handle \in Handles =>
                       hostOpen'[sft[s].handle] = NoFile
  <1>1. \A t \in Sfts : t # s => sft'[t] = sft[t]
    BY DEF _CloseFile, Release, TypeOK
  <1>2. PICK set \in Outcomes, close \in Outcomes :
          /\ close = "status" => hostOpen[sft[s].handle] = NoFile
          /\ CountFails(Lost(set) + Lost(close))
          /\ hostOpen' = IF close \in Executed
                         THEN [hostOpen EXCEPT ![sft[s].handle] = NoFile]
                         ELSE hostOpen
    BY DEF _CloseFile
  <1>3. \A h \in Handles : h # sft[s].handle => hostOpen'[h] = hostOpen[h]
    BY <1>2 DEF TypeOK
  <1>4. ASSUME fails' = 0
        PROVE  fails = 0 /\ close \notin Failed
    BY <1>2, <1>4 DEF CountFails, Lost, TypeOK
  <1>5. ASSUME fails' = 0, sft[s].handle \in Handles
        PROVE  hostOpen'[sft[s].handle] = NoFile
    <2>1. close = "ok" \/ close = "status"
      BY <1>4, <1>5 DEF Outcomes, Failed
    <2> QED
      BY <1>2, <1>5, <2>1 DEF Executed, TypeOK
  <1> QED
    BY <1>1, <1>3, <1>4, <1>5

\* The entry of a _CloseFile is free afterwards, or has one handle less.
LEMMA CloseEntry ==
    ASSUME TypeOK, NEW s \in Sfts, _CloseFile(s)
    PROVE  \/ sft'[s] = Unused /\ ~(sft[s].count > 1)
           \/ /\ sft[s].count > 1
              /\ sft'[s] = [sft[s] EXCEPT !.count = sft[s].count - 1,
                                          !.time = StampTime(s)]
  <1>1. sft[s] \in SFT
    BY DEF TypeOK
  <1> QED
    BY <1>1 DEF _CloseFile, Release, TypeOK, SFT

\* The other way an entry loses a handle: DOS closes a file of its own.
LEMMA ReleaseEntry ==
    ASSUME TypeOK, NEW s \in Sfts, sft' = Release(s, sft[s].time)
    PROVE  /\ \A t \in Sfts : t # s => sft'[t] = sft[t]
           /\ \/ sft'[s] = Unused /\ ~(sft[s].count > 1)
              \/ /\ sft[s].count > 1
                 /\ sft'[s] = [sft[s] EXCEPT !.count = sft[s].count - 1]
  <1>1. sft[s] \in SFT
    BY DEF TypeOK
  <1> QED
    BY <1>1 DEF Release, TypeOK, SFT

\* Such an entry was not the redirector's and does not become so.
LEMMA LocalRelease ==
    ASSUME TypeOK, NEW s \in Sfts, ~sft[s].ours,
           sft' = Release(s, sft[s].time)
    PROVE  /\ \A t \in Sfts : t # s => sft'[t] = sft[t]
           /\ ~sft'[s].ours
           /\ ~Live(s)'
  <1>1. CASE sft'[s] = Unused
    <2>1. ~sft'[s].ours /\ ~Live(s)'
      BY <1>1 DEF Unused, Live
    <2> QED
      BY <2>1, ReleaseEntry
  <1>2. CASE sft'[s] = [sft[s] EXCEPT !.count = sft[s].count - 1]
    <2>1. sft[s] \in SFT
      BY DEF TypeOK
    <2>2. sft'[s].ours = sft[s].ours
      BY <1>2, <2>1 DEF SFT
    <2> QED
      BY <2>2, ReleaseEntry DEF Live
  <1> QED
    BY <1>1, <1>2, ReleaseEntry

-----------------------------------------------------------------------------
(* What a failing RPC can cost the host.                                   *)

Held(h) == \E s \in Sfts : Live(s) /\ sft[s].handle = h

\* A step leaves no more handles without an owner than it counts failures.
LosesOne ==
    \/ Orphans' \subseteq Orphans /\ fails <= fails'
    \/ \E h \in Handles : Orphans' \subseteq Orphans \cup {h} /\ fails < fails'

\* If nothing but a non-live entry changes, what was held still is.
LEMMA StillHeld ==
    ASSUME NEW s \in Sfts, ~Live(s),
           \A t \in Sfts : t # s => sft'[t] = sft[t],
           NEW h \in Handles, Held(h)
    PROVE  Held(h)'
  BY DEF Held, Live

\* If no handle is opened and none let go, none is lost.
LEMMA NoneLost ==
    ASSUME TypeOK, fails' = fails \/ fails <= fails',
           \A h \in Handles : hostOpen'[h] # NoFile => hostOpen[h] # NoFile,
           \A h \in Handles : Held(h) => Held(h)'
    PROVE  LosesOne
  <1>1. Orphans' \subseteq Orphans
    BY DEF Orphans, Held
  <1> QED
    BY <1>1 DEF LosesOne, TypeOK

LEMMA CloseLoses ==
    ASSUME TypeOK, NEW s \in Sfts, _CloseFile(s)
    PROVE  LosesOne
  <1>1. PICK set \in Outcomes, close \in Outcomes :
          /\ close = "status" => hostOpen[sft[s].handle] = NoFile
          /\ CountFails(Lost(set) + Lost(close))
          /\ hostOpen' = IF close \in Executed
                         THEN [hostOpen EXCEPT ![sft[s].handle] = NoFile]
                         ELSE hostOpen
    BY DEF _CloseFile
  <1>2. \A h \in Handles : h # sft[s].handle /\ Held(h) => Held(h)'
    BY CloseEffect DEF Held, Live
  <1>3. \A h \in Handles : hostOpen'[h] # NoFile => hostOpen[h] # NoFile
    BY <1>1 DEF TypeOK
  <1>4. CASE close = "lostreq"
    <2>1. fails < fails'
      BY <1>1, <1>4 DEF CountFails, Lost, Failed, TypeOK
    <2>2. \A h \in Orphans' : h \in Orphans \/ h = sft[s].handle
      BY <1>2, <1>3 DEF Orphans, Held
    <2>3. CASE sft[s].handle \in Handles
      BY <2>1, <2>2, <2>3 DEF LosesOne
    <2>4. CASE sft[s].handle \notin Handles
      <3>1. Orphans' \subseteq Orphans
        BY <2>2, <2>4 DEF Orphans
      <3>2. fails <= fails'
        BY <1>1 DEF CountFails, Lost, TypeOK
      <3> QED
        BY <3>1, <3>2 DEF LosesOne
    <2> QED
      BY <2>3, <2>4
  <1>5. CASE close # "lostreq"
    <2>1. fails <= fails'
      BY <1>1 DEF CountFails, Lost, TypeOK
    <2>2. sft[s].handle \in Handles => hostOpen'[sft[s].handle] = NoFile
      BY <1>1, <1>5 DEF Outcomes, Executed, TypeOK
    <2>3. Orphans' \subseteq Orphans
      BY <1>2, <1>3, <2>2 DEF Orphans, Held
    <2> QED
      BY <2>1, <2>3 DEF LosesOne
  <1> QED
    BY <1>4, <1>5

LEMMA OpenLoses ==
    ASSUME TypeOK, NEW i \in Slots, NEW s \in Sfts, NEW f \in Files,
           NEW trunc \in BOOLEAN, OpenOrCreateFile(i, s, f, trunc)
    PROVE  LosesOne
  <1>1. ~Live(s)
    BY DEF OpenOrCreateFile, Live
  \* Every way of failing that opens a handle all the same is a failed RPC.
  <1>2. ASSUME sft' = sft, NEW g \in Handles, fails < fails',
               \A h \in Handles : h # g => hostOpen'[h] = hostOpen[h]
        PROVE  LosesOne
    <2>1. Orphans' \subseteq Orphans \cup {g}
      BY <1>2 DEF Orphans, Live
    <2> QED
      BY <1>2, <2>1 DEF LosesOne
  <1>3. CASE OpenRefused
    <2>1. fails <= fails' /\ sft' = sft /\ hostOpen' = hostOpen
      BY <1>3 DEF OpenRefused, CountFails, Lost, TypeOK
    <2> QED
      BY <2>1, NoneLost DEF Held, Live
  <1>4. ASSUME NEW g \in Handles, OpenForgotten(f, g, trunc)
        PROVE  LosesOne
    <2>1. /\ fails < fails' /\ sft' = sft
          /\ \A h \in Handles : h # g => hostOpen'[h] = hostOpen[h]
      BY <1>4 DEF OpenForgotten, CountFails, TypeOK
    <2> QED
      BY <1>2, <2>1
  <1>5. ASSUME NEW g \in Handles, OpenGivenUp(f, g, trunc)
        PROVE  LosesOne
    <2>1. PICK o \in Outcomes \ {"status"} :
            /\ CountFails(Lost(o))
            /\ hostOpen' = IF o \in Executed THEN hostOpen
                                             ELSE [hostOpen EXCEPT ![g] = f]
      BY <1>5 DEF OpenGivenUp
    <2>2. sft' = sft
      BY <1>5 DEF OpenGivenUp
    <2>3. CASE o \in Executed
      <3>1. fails <= fails'
        BY <2>1 DEF CountFails, Lost, TypeOK
      <3> QED
        BY <2>1, <2>2, <2>3, <3>1, NoneLost DEF Held, Live
    <2>4. CASE o \notin Executed
      <3>1. fails < fails'
        BY <2>1, <2>4
        DEF CountFails, Lost, Outcomes, Failed, Executed, TypeOK
      <3> QED
        BY <1>2, <2>1, <2>2, <2>4, <3>1 DEF TypeOK
    <2> QED
      BY <2>3, <2>4
  <1>6. ASSUME NEW g \in Handles, OpenDone(i, s, f, g, trunc)
        PROVE  LosesOne
    <2>1. PICK ro \in BOOLEAN :
            /\ hostOpen' = [hostOpen EXCEPT ![g] = f]
            /\ fails' = fails
            /\ sft' = [sft EXCEPT ![s] =
                   [count |-> 1, ours |-> TRUE, rdonly |-> ro, clean |-> TRUE,
                    fdate |-> FALSE, time |-> mtime'[f], handle |-> g,
                    file |-> f, last |-> "none"]]
      BY <1>6 DEF OpenDone
    <2>2. Held(g)'
      BY <2>1 DEF Held, Live, TypeOK
    <2>3. \A h \in Handles : Held(h) => Held(h)'
      BY <1>1, <2>1, StillHeld DEF TypeOK
    <2>4. \A h \in Handles : h # g => hostOpen'[h] = hostOpen[h]
      BY <2>1 DEF TypeOK
    <2>5. Orphans' \subseteq Orphans
      BY <2>2, <2>3, <2>4 DEF Orphans, Held
    <2>6. fails <= fails'
      BY <2>1 DEF TypeOK
    <2> QED
      BY <2>5, <2>6 DEF LosesOne
  <1> QED
    BY <1>3, <1>4, <1>5, <1>6 DEF OpenOrCreateFile

LEMMA NextLoses == TypeInv /\ [Next]_vars => LosesOne
  <1> SUFFICES ASSUME TypeInv, [Next]_vars
               PROVE  LosesOne
    OBVIOUS
  <1> USE DEF TypeInv
  <1>1. ASSUME NEW i \in Slots, NEW s \in Sfts, DosLocalOpen(i, s)
        PROVE  LosesOne
    <2>1. ~Live(s) /\ hostOpen' = hostOpen /\ fails' = fails
      BY <1>1 DEF DosLocalOpen, Live
    <2>2. \A t \in Sfts : t # s => sft'[t] = sft[t]
      BY <1>1 DEF DosLocalOpen, TypeOK
    <2> QED
      BY <2>1, <2>2, StillHeld, NoneLost
  <1>2. ASSUME NEW i \in Slots, NEW s \in Sfts, NEW f \in Files,
               OpenFile(i, s, f) \/ CreateFile(i, s, f) \/ SpecialOpen(i, s, f)
        PROVE  LosesOne
    BY <1>2, OpenLoses DEF OpenFile, CreateFile, SpecialOpen
  <1>3. ASSUME NEW i \in Slots, WriteFile(i)
        PROVE  LosesOne
    <2>1. /\ hostOpen' = hostOpen
          /\ fails <= fails'
      BY <1>3 DEF WriteFile, CountFails, Lost, TypeOK
    <2>2. \A t \in Sfts : /\ sft'[t].ours = sft[t].ours
                          /\ sft'[t].count = sft[t].count
                          /\ sft'[t].handle = sft[t].handle
      BY <1>3 DEF WriteFile, TypeOK, SFT
    <2> QED
      BY <2>1, <2>2, NoneLost DEF Held, Live
  <1>4. ASSUME NEW i \in Slots, DosSetDate(i)
        PROVE  LosesOne
    <2>1. \A t \in Sfts : /\ sft'[t].ours = sft[t].ours
                          /\ sft'[t].count = sft[t].count
                          /\ sft'[t].handle = sft[t].handle
      BY <1>4 DEF DosSetDate, TypeOK, SFT
    <2> QED
      <3>1. hostOpen' = hostOpen /\ fails' = fails
        BY <1>4 DEF DosSetDate
      <3> QED
        BY <2>1, <3>1, NoneLost DEF Held, Live
  <1>5. ASSUME NEW i \in Slots, CloseFile(i)
        PROVE  LosesOne
    <2>1. jft[depth][i] \in Sfts
      BY <1>5 DEF CloseFile, Opened, Counted, TypeOK
    <2> QED
      BY <1>5, <2>1, CloseLoses DEF CloseFile
  <1>6. ASSUME NEW i \in Slots, DosLocalClose(i)
        PROVE  LosesOne
    <2> DEFINE s == jft[depth][i]
    <2>1. s \in Sfts /\ ~Live(s) /\ hostOpen' = hostOpen /\ fails' = fails
      BY <1>6 DEF DosLocalClose, Opened, Counted, TypeOK, Live
    <2>2. \A t \in Sfts : t # s => sft'[t] = sft[t]
      BY <1>6, <2>1, ReleaseEntry DEF DosLocalClose
    <2> QED
      BY <2>1, <2>2, StillHeld, NoneLost
  <1>7. ASSUME NEW i \in Slots, NEW j \in Slots, DosDup(i, j)
        PROVE  LosesOne
    <2>1. jft[depth][i] \in Sfts
      BY <1>7 DEF DosDup, Opened, Counted, TypeOK
    <2>2. \A t \in Sfts : /\ sft'[t].ours = sft[t].ours
                          /\ sft'[t].count >= sft[t].count
                          /\ sft'[t].handle = sft[t].handle
      BY <1>7, <2>1 DEF DosDup, TypeOK, SFT
    <2>3. \A t \in Sfts : sft[t].count \in Nat /\ sft'[t].count \in Nat
      BY <1>7, NextType DEF Next, TypeOK, SFT
    <2> QED
      BY <1>7, <2>2, <2>3, NoneLost DEF DosDup, Held, Live
  <1>8. ASSUME NEW f \in Files, DosPathCall(f)
        PROVE  LosesOne
    BY <1>8, NoneLost DEF DosPathCall, TypeOK, Held, Live
  <1>9. CASE DosExec
    <2> DEFINE uses(s) == {i \in Slots : jft[depth][i] = s}
    <2>1. \A s \in Sfts : Cardinality(uses(s)) \in Nat
      BY SlotCount
    <2>2. \A t \in Sfts :
            sft'[t] = [sft[t] EXCEPT !.count =
                         sft[t].count + Cardinality(uses(t))]
      BY <1>9 DEF DosExec
    <2>3. ASSUME NEW t \in Sfts, Live(t)
          PROVE  Live(t)' /\ sft'[t].handle = sft[t].handle
      <3>1. sft[t] \in SFT
        BY DEF TypeOK
      <3>2. PICK n \in Nat :
              sft'[t] = [sft[t] EXCEPT !.count = sft[t].count + n]
        BY <2>1, <2>2
      <3>3. /\ sft'[t].count = sft[t].count + n
            /\ sft'[t].ours = sft[t].ours
            /\ sft'[t].handle = sft[t].handle
        BY <3>1, <3>2 DEF SFT
      <3>4. sft[t].count \in Nat
        BY <3>1 DEF SFT
      <3> QED
        BY <2>3, <3>3, <3>4 DEF Live
    <2>4. hostOpen' = hostOpen /\ fails' = fails
      BY <1>9 DEF DosExec
    <2> QED
      BY <2>3, <2>4, NoneLost DEF TypeOK, Held
  <1>10. CASE DosExit
    BY <1>10, NoneLost DEF DosExit, TypeOK, Held, Live
  <1>11. CASE CloseAllStep
    <2> DEFINE s == jft[depth][idx]
    <2>1. idx \in Slots
      BY <1>11, SftAssumption DEF CloseAllStep, TypeOK, LoopOK, Slots
    <2>2. CASE Counted(s)
      BY <1>11, <2>1, <2>2, CloseLoses DEF CloseAllStep, Counted, TypeOK
    <2>3. CASE ~Counted(s)
      BY <1>11, <2>3, NoneLost DEF CloseAllStep, Held, Live
    <2> QED
      BY <2>2, <2>3
  <1>12. CASE CloseAllDone
    BY <1>12, NoneLost DEF CloseAllDone, TypeOK, Held, Live
  <1>13. CASE DosCloseStep
    <2> DEFINE s == jft[depth][idx]
    <2>1. idx \in Slots
      BY <1>13, SftAssumption DEF DosCloseStep, TypeOK, LoopOK, Slots
    <2>2. CASE ~Counted(s)
      BY <1>13, <2>2, NoneLost DEF DosCloseStep, Held, Live
    <2>3. CASE Counted(s) /\ sft[s].ours
      BY <1>13, <2>1, <2>3, CloseLoses DEF DosCloseStep, Counted, TypeOK
    <2>4. CASE Counted(s) /\ ~sft[s].ours
      <3>1. s \in Sfts /\ ~Live(s) /\ hostOpen' = hostOpen /\ fails' = fails
        BY <1>13, <2>1, <2>4 DEF DosCloseStep, Counted, TypeOK, Live
      <3>2. \A t \in Sfts : t # s => sft'[t] = sft[t]
        BY <1>13, <2>4, <3>1, ReleaseEntry DEF DosCloseStep
      <3> QED
        BY <3>1, <3>2, StillHeld, NoneLost
    <2> QED
      BY <2>2, <2>3, <2>4
  <1>14. CASE DosExitDone
    BY <1>14, NoneLost DEF DosExitDone, TypeOK, Held, Live
  <1>15. CASE UNCHANGED vars
    BY <1>15, NoneLost DEF vars, TypeOK, Held, Live
  <1> QED
    BY <1>1, <1>2, <1>3, <1>4, <1>5, <1>6, <1>7, <1>8, <1>9, <1>10, <1>11,
       <1>12, <1>13, <1>14, <1>15 DEF Next

LEMMA LeakInv == Spec => [](IsFiniteSet(Orphans) /\ LeakBound)
  <1> DEFINE Bounded == IsFiniteSet(Orphans) /\ LeakBound
  <1>1. Init => Bounded
    <2>1. Init => Orphans = {} /\ fails = 0
      BY DEF Init, Orphans
    <2> QED
      BY <2>1, FS_EmptySet DEF LeakBound
  <1>2. TypeInv /\ Bounded /\ [Next]_vars => Bounded'
    <2> SUFFICES ASSUME TypeInv, Bounded, [Next]_vars
                 PROVE  Bounded'
      OBVIOUS
    <2>1. LosesOne /\ fails \in Nat /\ fails' \in Nat
      BY NextLoses, NextType DEF TypeInv, TypeOK
    <2>2. Cardinality(Orphans) \in Nat /\ Cardinality(Orphans) <= fails
      BY FS_CardinalityType DEF LeakBound
    <2>3. ASSUME NEW S, IsFiniteSet(S), Orphans' \subseteq S,
                 Cardinality(S) <= fails'
          PROVE  Bounded'
      <3>1. /\ IsFiniteSet(Orphans') /\ Cardinality(Orphans') <= Cardinality(S)
            /\ Cardinality(Orphans') \in Nat /\ Cardinality(S) \in Nat
        BY <2>3, FS_Subset, FS_CardinalityType
      <3>2. Cardinality(Orphans') <= fails'
        BY <2>1, <2>3, <3>1
      <3> QED
        BY <3>1, <3>2 DEF LeakBound
    <2>4. CASE Orphans' \subseteq Orphans /\ fails <= fails'
      BY <2>1, <2>2, <2>3, <2>4
    <2>5. ASSUME NEW h \in Handles, Orphans' \subseteq Orphans \cup {h},
                 fails < fails'
          PROVE  Bounded'
      <3>1. /\ IsFiniteSet(Orphans \cup {h})
            /\ Cardinality(Orphans \cup {h}) \in
                 {Cardinality(Orphans), Cardinality(Orphans) + 1}
        BY FS_AddElement
      <3>2. Cardinality(Orphans \cup {h}) <= fails'
        BY <2>1, <2>2, <2>5, <3>1
      <3> QED
        BY <2>3, <2>5, <3>1, <3>2
    <2> QED
      BY <2>1, <2>4, <2>5 DEF LosesOne
  <1> QED
    BY <1>1, <1>2, Typing, PTL DEF Spec

\* A failing RPC costs the host at most one handle, whatever became of the
\* request: the lost answers of OpenOrCreateFile, the closes of _CloseFile
\* that never arrive and the entries that are closed more than once.
THEOREM LeaksBounded == Spec => []LeakBound
  BY LeakInv, PTL

\* As long as no RPC has failed in the channel, the host has no handle open
\* that the DOS side has forgotten: every error path of OpenOrCreateFile and
\* every way _CloseFile is reached gives the host its handle back.
THEOREM NothingLeaked == Spec => []NoLeak
  <1>1. IsFiniteSet(Orphans) /\ LeakBound => NoLeak
    <2> SUFFICES ASSUME IsFiniteSet(Orphans), LeakBound, fails = 0
                 PROVE  Orphans = {}
      BY DEF NoLeak
    <2>1. Cardinality(Orphans) \in Nat /\ Cardinality(Orphans) <= 0
      BY FS_CardinalityType DEF LeakBound
    <2> QED
      BY <2>1, FS_EmptySet
  <1> QED
    BY <1>1, LeakInv, PTL

-----------------------------------------------------------------------------
(* The SFT and the host agree while no entry is shared.  Owned is not      *)
(* inductive: that closing a handle releases its entry, so that nobody     *)
(* keeps a closed host handle, needs every count to be one.                *)

EntryOwned(s) ==
    /\ sft[s].count = 1
    /\ sft[s].handle \in Handles
    /\ sft[s].file \in Files
    /\ hostOpen[sft[s].handle] = sft[s].file
    /\ \A t \in Sfts : Live(t) /\ sft[t].handle = sft[s].handle => t = s

OwnedInv == Exclusive => \A s \in Sfts : Live(s) => EntryOwned(s)

\* An entry that starts as unused, or ends so, does not disturb the others
\* as long as it does not touch their handles.
LEMMA OthersOwned ==
    ASSUME OwnedInv, Exclusive, NEW s \in Sfts, ~Live(s)',
           \A t \in Sfts : t # s => sft'[t] = sft[t],
           \A t \in Sfts : Live(t) /\ t # s =>
              hostOpen'[sft[t].handle] = hostOpen[sft[t].handle]
    PROVE  \A t \in Sfts : Live(t)' => EntryOwned(t)'
  <1> SUFFICES ASSUME NEW t \in Sfts, Live(t)'
               PROVE  EntryOwned(t)'
    OBVIOUS
  <1>1. t # s /\ Live(t) /\ sft'[t] = sft[t]
    BY DEF Live
  <1>2. EntryOwned(t)
    BY <1>1 DEF OwnedInv
  <1>3. \A u \in Sfts : Live(u)' => u # s /\ Live(u) /\ sft'[u] = sft[u]
    BY DEF Live
  <1> QED
    BY <1>1, <1>2, <1>3 DEF EntryOwned

LEMMA CloseOwned ==
    ASSUME TypeOK, OwnedInv, NEW s \in Sfts, sft[s].count > 0,
           _CloseFile(s), Exclusive' => Exclusive /\ sft[s].ours
    PROVE  OwnedInv'
  <1> SUFFICES ASSUME Exclusive'
               PROVE  \A t \in Sfts : Live(t)' => EntryOwned(t)'
    BY DEF OwnedInv
  <1>1. Live(s) /\ EntryOwned(s)
    BY DEF Live, OwnedInv
  <1>2. ~Live(s)'
    <2>1. sft[s].count = 1
      BY <1>1 DEF EntryOwned
    <2>2. sft'[s] = Unused
      <3>1. ~(sft[s].count > 1)
        BY <2>1
      <3> QED
        BY <3>1, CloseEntry
    <2> QED
      BY <2>2 DEF Live, Unused
  <1>3. \A t \in Sfts : Live(t) /\ t # s => /\ sft[t].handle \in Handles
                                            /\ sft[t].handle # sft[s].handle
    BY <1>1 DEF OwnedInv, EntryOwned
  <1> QED
    BY <1>2, <1>3, CloseEffect, OthersOwned

LEMMA OpenOwned ==
    ASSUME TypeOK, OwnedInv, NEW i \in Slots, NEW s \in Sfts, NEW f \in Files,
           NEW trunc \in BOOLEAN, OpenOrCreateFile(i, s, f, trunc)
    PROVE  OwnedInv'
  <1> SUFFICES ASSUME Exclusive'
               PROVE  \A t \in Sfts : Live(t)' => EntryOwned(t)'
    BY DEF OwnedInv
  <1>1. ~Live(s) /\ Exclusive
    BY DEF OpenOrCreateFile, Live, Exclusive
  \* Every way of failing leaves the entries and the handles in use alone.
  <1>2. ASSUME sft' = sft, NEW g \in Handles, hostOpen[g] = NoFile,
               \A h \in Handles : h # g => hostOpen'[h] = hostOpen[h]
        PROVE  \A t \in Sfts : Live(t)' => EntryOwned(t)'
    <2>1. \A t \in Sfts : Live(t) =>
            hostOpen'[sft[t].handle] = hostOpen[sft[t].handle]
      BY <1>1, <1>2, SftAssumption DEF OwnedInv, EntryOwned
    <2> QED
      BY <1>1, <1>2, <2>1, OthersOwned DEF Live
  <1>3. CASE OpenRefused
    BY <1>1, <1>3, OthersOwned DEF OpenRefused, Live
  <1>4. ASSUME NEW g \in Handles, hostOpen[g] = NoFile,
               OpenForgotten(f, g, trunc) \/ OpenGivenUp(f, g, trunc)
        PROVE  \A t \in Sfts : Live(t)' => EntryOwned(t)'
    <2>1. /\ sft' = sft
          /\ \A h \in Handles : h # g => hostOpen'[h] = hostOpen[h]
      BY <1>4 DEF OpenForgotten, OpenGivenUp, TypeOK
    <2> QED
      BY <1>2, <1>4, <2>1
  <1>5. ASSUME NEW g \in Handles, hostOpen[g] = NoFile,
               OpenDone(i, s, f, g, trunc)
        PROVE  \A t \in Sfts : Live(t)' => EntryOwned(t)'
    <2>1. PICK ro \in BOOLEAN :
            /\ hostOpen' = [hostOpen EXCEPT ![g] = f]
            /\ sft' = [sft EXCEPT ![s] =
                   [count |-> 1, ours |-> TRUE, rdonly |-> ro, clean |-> TRUE,
                    fdate |-> FALSE, time |-> mtime'[f], handle |-> g,
                    file |-> f, last |-> "none"]]
      BY <1>5 DEF OpenDone
    <2>2. \A t \in Sfts : Live(t) => EntryOwned(t) /\ sft[t].handle # g
      BY <1>1, <1>5, SftAssumption DEF OwnedInv, EntryOwned
    <2>3. \A t \in Sfts : Live(t)' /\ t # s => Live(t) /\ sft'[t] = sft[t]
      BY <2>1 DEF Live, TypeOK
    <2>4. /\ sft'[s].count = 1 /\ sft'[s].handle = g /\ sft'[s].file = f
          /\ hostOpen'[g] = f
      BY <2>1 DEF TypeOK
    <2>5. \A h \in Handles : h # g => hostOpen'[h] = hostOpen[h]
      BY <2>1 DEF TypeOK
    <2>6. ASSUME NEW t \in Sfts, Live(t)', t # s
          PROVE  EntryOwned(t)'
      BY <2>2, <2>3, <2>4, <2>5, <2>6 DEF EntryOwned
    <2>7. EntryOwned(s)'
      BY <2>2, <2>3, <2>4 DEF EntryOwned
    <2> QED
      BY <2>6, <2>7
  <1> QED
    BY <1>3, <1>4, <1>5 DEF OpenOrCreateFile

\* A step that changes neither the handles nor the counts keeps ownership.
LEMMA SameOwned ==
    ASSUME OwnedInv, Exclusive' => Exclusive, hostOpen' = hostOpen,
           \A t \in Sfts : /\ sft'[t].ours = sft[t].ours
                           /\ sft'[t].count = sft[t].count
                           /\ sft'[t].handle = sft[t].handle
                           /\ sft'[t].file = sft[t].file
    PROVE  OwnedInv'
  BY DEF OwnedInv, EntryOwned, Live

LEMMA NextOwned == TypeInv /\ OwnedInv /\ [Next]_vars => OwnedInv'
  <1> SUFFICES ASSUME TypeInv, OwnedInv, [Next]_vars
               PROVE  OwnedInv'
    OBVIOUS
  <1> USE DEF TypeInv
  <1>1. ASSUME NEW i \in Slots, NEW s \in Sfts, DosLocalOpen(i, s)
        PROVE  OwnedInv'
    <2>1. /\ hostOpen' = hostOpen
          /\ Exclusive' => Exclusive
          /\ \A t \in Sfts : t # s => sft'[t] = sft[t]
      BY <1>1 DEF DosLocalOpen, Exclusive, TypeOK
    <2>2. ~Live(s)'
      BY <1>1 DEF DosLocalOpen, Unused, Live, TypeOK
    <2> QED
      BY <2>1, <2>2, OthersOwned DEF OwnedInv
  <1>2. ASSUME NEW i \in Slots, NEW s \in Sfts, NEW f \in Files,
               OpenFile(i, s, f) \/ CreateFile(i, s, f) \/ SpecialOpen(i, s, f)
        PROVE  OwnedInv'
    BY <1>2, OpenOwned DEF OpenFile, CreateFile, SpecialOpen
  <1>3. ASSUME NEW i \in Slots, WriteFile(i)
        PROVE  OwnedInv'
    <2>1. hostOpen' = hostOpen /\ (Exclusive' => Exclusive)
      BY <1>3 DEF WriteFile, Exclusive
    <2>2. \A t \in Sfts : /\ sft'[t].ours = sft[t].ours
                          /\ sft'[t].count = sft[t].count
                          /\ sft'[t].handle = sft[t].handle
                          /\ sft'[t].file = sft[t].file
      BY <1>3 DEF WriteFile, TypeOK, SFT
    <2> QED
      BY <2>1, <2>2, SameOwned
  <1>4. ASSUME NEW i \in Slots, DosSetDate(i)
        PROVE  OwnedInv'
    <2>1. hostOpen' = hostOpen /\ (Exclusive' => Exclusive)
      BY <1>4 DEF DosSetDate, Exclusive
    <2>2. \A t \in Sfts : /\ sft'[t].ours = sft[t].ours
                          /\ sft'[t].count = sft[t].count
                          /\ sft'[t].handle = sft[t].handle
                          /\ sft'[t].file = sft[t].file
      BY <1>4 DEF DosSetDate, TypeOK, SFT
    <2> QED
      BY <2>1, <2>2, SameOwned
  <1>5. ASSUME NEW i \in Slots, CloseFile(i)
        PROVE  OwnedInv'
    <2>1. jft[depth][i] \in Sfts
      BY <1>5 DEF CloseFile, Opened, Counted, TypeOK
    <2> QED
      BY <1>5, <2>1, CloseOwned DEF CloseFile, Opened, Counted, Exclusive
  <1>6. ASSUME NEW i \in Slots, DosLocalClose(i)
        PROVE  OwnedInv'
    <2>1. PICK s \in Sfts : s = jft[depth][i]
      BY <1>6 DEF DosLocalClose, Opened, Counted, TypeOK
    <2>2. /\ sft' = Release(s, sft[s].time)
          /\ ~sft[s].ours
          /\ hostOpen' = hostOpen
          /\ Exclusive' => Exclusive
      BY <1>6, <2>1 DEF DosLocalClose, Exclusive
    <2>3. /\ \A t \in Sfts : t # s => sft'[t] = sft[t]
          /\ ~Live(s)'
      BY <2>2, LocalRelease
    <2> QED
      BY <2>2, <2>3, OthersOwned DEF OwnedInv
  <1>7. ASSUME NEW i \in Slots, NEW j \in Slots, DosDup(i, j)
        PROVE  OwnedInv'
    <2>1. ~Exclusive'
      BY <1>7 DEF DosDup, Exclusive, TypeOK
    <2> QED
      BY <2>1 DEF OwnedInv
  <1>8. ASSUME NEW f \in Files, DosPathCall(f)
        PROVE  OwnedInv'
    BY <1>8 DEF DosPathCall, OwnedInv, Exclusive, EntryOwned, Live
  <1>9. CASE DosExec
    <2> DEFINE uses(s) == {i \in Slots : jft[depth][i] = s}
               inherited == {i \in Slots : jft[depth][i] # NoSft}
    <2> SUFFICES ASSUME Exclusive'
                 PROVE  OwnedInv'
      BY DEF OwnedInv
    <2>1. dups' = dups + Cardinality(inherited) /\ hostOpen' = hostOpen
      BY <1>9 DEF DosExec
    <2>2. Cardinality(inherited) = 0 /\ Exclusive
      <3>1. Cardinality(inherited) \in Nat /\ dups \in Nat /\ dups' = 0
        BY SlotCount DEF TypeOK, Exclusive
      <3>2. foreign' = foreign
        BY <1>9 DEF DosExec
      <3> QED
        BY <2>1, <3>1, <3>2 DEF Exclusive
    <2>3. inherited = {}
      <3> HIDE DEF inherited
      <3>1. inherited \in SUBSET Slots
        BY DEF inherited
      <3> QED
        BY <2>2, <3>1, SlotCount
    <2>4. ASSUME NEW s \in Sfts
          PROVE  Cardinality(uses(s)) = 0
      <3>1. uses(s) = {}
        BY <2>3, SftAssumption
      <3> QED
        BY <3>1, FS_EmptySet
    <2>5. ASSUME NEW s \in Sfts
          PROVE  /\ sft'[s].ours = sft[s].ours
                 /\ sft'[s].count = sft[s].count
                 /\ sft'[s].handle = sft[s].handle
                 /\ sft'[s].file = sft[s].file
      <3>1. sft'[s] = [sft[s] EXCEPT !.count = sft[s].count + 0]
        BY <1>9, <2>4 DEF DosExec
      <3>2. sft[s] \in SFT
        BY DEF TypeOK
      <3> QED
        BY <3>1, <3>2 DEF SFT
    <2> QED
      BY <2>1, <2>2, <2>5, SameOwned
  <1>10. CASE DosExit
    BY <1>10 DEF DosExit, OwnedInv, Exclusive, EntryOwned, Live
  <1>11. CASE CloseAllStep
    <2> DEFINE s == jft[depth][idx]
    <2>1. idx \in Slots
      BY <1>11, SftAssumption DEF CloseAllStep, TypeOK, LoopOK, Slots
    <2>2. CASE Counted(s)
      <3>1. s \in Sfts /\ sft[s].count > 0 /\ _CloseFile(s)
        BY <1>11, <2>1, <2>2 DEF CloseAllStep, Counted, TypeOK
      <3>2. Exclusive' => Exclusive /\ sft[s].ours
        BY <1>11, <2>2, <3>1 DEF CloseAllStep, Exclusive, TypeOK, SFT
      <3> QED
        BY <3>1, <3>2, CloseOwned
    <2>3. CASE ~Counted(s)
      BY <1>11, <2>3
      DEF CloseAllStep, OwnedInv, Exclusive, EntryOwned, Live
    <2> QED
      BY <2>2, <2>3
  <1>12. CASE CloseAllDone
    BY <1>12 DEF CloseAllDone, OwnedInv, Exclusive, EntryOwned, Live
  <1>13. CASE DosCloseStep
    <2> DEFINE s == jft[depth][idx]
    <2>1. idx \in Slots
      BY <1>13, SftAssumption DEF DosCloseStep, TypeOK, LoopOK, Slots
    <2>2. CASE ~Counted(s)
      BY <1>13, <2>2
      DEF DosCloseStep, OwnedInv, Exclusive, EntryOwned, Live
    <2>3. CASE Counted(s) /\ sft[s].ours
      <3>1. s \in Sfts /\ sft[s].count > 0 /\ _CloseFile(s)
        BY <1>13, <2>1, <2>3 DEF DosCloseStep, Counted, TypeOK
      <3>2. Exclusive' => Exclusive
        BY <1>13 DEF DosCloseStep, Exclusive
      <3> QED
        BY <2>3, <3>1, <3>2, CloseOwned
    <2>4. CASE Counted(s) /\ ~sft[s].ours
      <3>1. PICK u \in Sfts : u = s
        BY <2>1, <2>4 DEF Counted, TypeOK
      <3>2. /\ sft' = Release(u, sft[u].time)
            /\ ~sft[u].ours
            /\ hostOpen' = hostOpen
            /\ Exclusive' => Exclusive
        BY <1>13, <2>4, <3>1 DEF DosCloseStep, Exclusive
      <3>3. /\ \A t \in Sfts : t # u => sft'[t] = sft[t]
            /\ ~Live(u)'
        BY <3>2, LocalRelease
      <3> QED
        BY <3>2, <3>3, OthersOwned DEF OwnedInv
    <2> QED
      BY <2>2, <2>3, <2>4
  <1>14. CASE DosExitDone
    BY <1>14 DEF DosExitDone, OwnedInv, Exclusive, EntryOwned, Live
  <1>15. CASE UNCHANGED vars
    BY <1>15 DEF vars, OwnedInv, Exclusive, EntryOwned, Live
  <1> QED
    BY <1>1, <1>2, <1>3, <1>4, <1>5, <1>6, <1>7, <1>8, <1>9, <1>10, <1>11,
       <1>12, <1>13, <1>14, <1>15 DEF Next

LEMMA OwnedAlways == Spec => []OwnedInv
  <1>1. Init => OwnedInv
    BY DEF Init, OwnedInv, Live, Unused
  <1> QED
    BY <1>1, Typing, NextOwned, PTL DEF Spec

\* As long as no entry is shared, a handle that DOS counts as open is open on
\* the host, on the file it was opened on, and is nobody else's: no failing
\* RPC and no reuse of a host handle can make two programs' files meet.
THEOREM HostOwned == Spec => []Owned
  <1>1. OwnedInv => Owned
    BY DEF OwnedInv, Owned, EntryOwned
  <1> QED
    BY <1>1, OwnedAlways, PTL

-----------------------------------------------------------------------------
(* The flag bits of an entry tell what was done to it last, in whatever    *)
(* order the program wrote and set the date, and however often a shared    *)
(* entry was closed.                                                       *)

FlagsOK(s) ==
    /\ sft[s].last = "none" => sft[s].clean /\ ~sft[s].fdate
    /\ sft[s].last = "write" => ~sft[s].clean /\ ~sft[s].fdate
    /\ sft[s].last = "set" => sft[s].fdate /\ sft[s].time = "set"

FlagsInv == \A s \in Sfts : sft[s].ours => FlagsOK(s)

LEMMA CloseFlags ==
    ASSUME TypeOK, FlagsInv, NEW s \in Sfts, _CloseFile(s)
    PROVE  FlagsInv'
  <1>1. \A t \in Sfts : t # s => sft'[t] = sft[t]
    BY CloseEffect
  <1>2. CASE sft'[s] = Unused
    BY <1>1, <1>2 DEF FlagsInv, FlagsOK, Unused
  <1>3. CASE /\ sft[s].count > 1
             /\ sft'[s] = [sft[s] EXCEPT !.count = sft[s].count - 1,
                                         !.time = StampTime(s)]
    <2>1. sft[s] \in SFT
      BY DEF TypeOK
    <2>2. /\ sft'[s].ours = sft[s].ours
          /\ sft'[s].clean = sft[s].clean
          /\ sft'[s].fdate = sft[s].fdate
          /\ sft'[s].last = sft[s].last
          /\ sft'[s].time = StampTime(s)
      BY <1>3, <2>1 DEF SFT
    <2>3. sft[s].fdate => StampTime(s) = sft[s].time
      BY DEF StampTime
    <2> QED
      BY <1>1, <2>2, <2>3 DEF FlagsInv, FlagsOK
  <1> QED
    BY <1>2, <1>3, CloseEntry

LEMMA OpenFlags ==
    ASSUME TypeOK, FlagsInv, NEW i \in Slots, NEW s \in Sfts, NEW f \in Files,
           NEW trunc \in BOOLEAN, OpenOrCreateFile(i, s, f, trunc)
    PROVE  FlagsInv'
  <1>1. CASE sft' = sft
    BY <1>1 DEF FlagsInv, FlagsOK
  <1>2. ASSUME NEW h \in Handles, OpenDone(i, s, f, h, trunc)
        PROVE  FlagsInv'
    <2>1. /\ \A t \in Sfts : t # s => sft'[t] = sft[t]
          /\ sft'[s].last = "none" /\ sft'[s].clean /\ ~sft'[s].fdate
      BY <1>2 DEF OpenDone, TypeOK
    <2> QED
      BY <2>1 DEF FlagsInv, FlagsOK
  <1> QED
    BY <1>1, <1>2
    DEF OpenOrCreateFile, OpenRefused, OpenForgotten, OpenGivenUp

LEMMA NextFlags == TypeInv /\ FlagsInv /\ [Next]_vars => FlagsInv'
  <1> SUFFICES ASSUME TypeInv, FlagsInv, [Next]_vars
               PROVE  FlagsInv'
    OBVIOUS
  <1> USE DEF TypeInv
  <1>0. CASE sft' = sft
    BY <1>0 DEF FlagsInv, FlagsOK
  <1>1. ASSUME NEW i \in Slots, NEW s \in Sfts, DosLocalOpen(i, s)
        PROVE  FlagsInv'
    <2>1. /\ \A t \in Sfts : t # s => sft'[t] = sft[t]
          /\ ~sft'[s].ours
      BY <1>1 DEF DosLocalOpen, Unused, TypeOK
    <2> QED
      BY <2>1 DEF FlagsInv, FlagsOK
  <1>2. ASSUME NEW i \in Slots, NEW s \in Sfts, NEW f \in Files,
               OpenFile(i, s, f) \/ CreateFile(i, s, f) \/ SpecialOpen(i, s, f)
        PROVE  FlagsInv'
    BY <1>2, OpenFlags DEF OpenFile, CreateFile, SpecialOpen
  <1>3. ASSUME NEW i \in Slots, WriteFile(i)
        PROVE  FlagsInv'
    <2>1. PICK s \in Sfts : s = jft[depth][i]
      BY <1>3 DEF WriteFile, Opened, Counted, TypeOK
    <2>2. sft[s] \in SFT /\ sft \in [Sfts -> SFT]
      BY DEF TypeOK
    <2>3. sft' = [sft EXCEPT ![s].clean = FALSE, ![s].fdate = FALSE,
                             ![s].last = "write"]
      BY <1>3, <2>1 DEF WriteFile
    <2>4. /\ \A t \in Sfts : t # s => sft'[t] = sft[t]
          /\ ~sft'[s].clean /\ ~sft'[s].fdate /\ sft'[s].last = "write"
      BY <2>2, <2>3 DEF SFT
    <2> QED
      BY <2>4 DEF FlagsInv, FlagsOK
  <1>4. ASSUME NEW i \in Slots, DosSetDate(i)
        PROVE  FlagsInv'
    <2>1. PICK s \in Sfts : s = jft[depth][i]
      BY <1>4 DEF DosSetDate, Opened, Counted, TypeOK
    <2>2. sft[s] \in SFT /\ sft \in [Sfts -> SFT]
      BY DEF TypeOK
    <2>3. PICK c \in {sft[s].clean, FALSE} :
            sft' = [sft EXCEPT ![s].clean = c, ![s].fdate = TRUE,
                               ![s].time = "set", ![s].last = "set"]
      BY <1>4, <2>1 DEF DosSetDate
    <2>4. /\ \A t \in Sfts : t # s => sft'[t] = sft[t]
          /\ sft'[s].fdate /\ sft'[s].time = "set" /\ sft'[s].last = "set"
      BY <2>2, <2>3 DEF SFT
    <2> QED
      BY <2>4 DEF FlagsInv, FlagsOK
  <1>5. ASSUME NEW i \in Slots, CloseFile(i)
        PROVE  FlagsInv'
    <2>1. jft[depth][i] \in Sfts
      BY <1>5 DEF CloseFile, Opened, Counted, TypeOK
    <2> QED
      BY <1>5, <2>1, CloseFlags DEF CloseFile
  <1>6. ASSUME NEW i \in Slots, DosLocalClose(i)
        PROVE  FlagsInv'
    <2>1. PICK s \in Sfts : s = jft[depth][i]
      BY <1>6 DEF DosLocalClose, Opened, Counted, TypeOK
    <2>2. /\ \A t \in Sfts : t # s => sft'[t] = sft[t]
          /\ ~sft'[s].ours
      BY <1>6, <2>1, LocalRelease DEF DosLocalClose
    <2> QED
      BY <2>2 DEF FlagsInv, FlagsOK
  \* More handles on the entries change nothing else.
  <1>7. ASSUME \A t \in Sfts :
                 \E n \in Nat :
                    sft'[t] = [sft[t] EXCEPT !.count = sft[t].count + n]
        PROVE  FlagsInv'
    <2> SUFFICES ASSUME NEW t \in Sfts, sft'[t].ours
                 PROVE  FlagsOK(t)'
      BY DEF FlagsInv
    <2>1. sft[t] \in SFT
      BY DEF TypeOK
    <2>2. /\ sft'[t].ours = sft[t].ours
          /\ sft'[t].clean = sft[t].clean /\ sft'[t].fdate = sft[t].fdate
          /\ sft'[t].time = sft[t].time /\ sft'[t].last = sft[t].last
      BY <1>7, <2>1 DEF SFT
    <2> QED
      BY <2>2 DEF FlagsInv, FlagsOK
  <1>8. ASSUME NEW i \in Slots, NEW j \in Slots, DosDup(i, j)
        PROVE  FlagsInv'
    <2>1. PICK s \in Sfts : s = jft[depth][i]
      BY <1>8 DEF DosDup, Opened, Counted, TypeOK
    <2>2. sft' = [sft EXCEPT ![s].count = sft[s].count + 1]
      BY <1>8, <2>1 DEF DosDup
    <2>3. ASSUME NEW t \in Sfts
          PROVE  \E n \in Nat :
                    sft'[t] = [sft[t] EXCEPT !.count = sft[t].count + n]
      <3>1. sft[t] \in SFT
        BY DEF TypeOK
      <3>2. CASE t = s
        BY <2>2, <3>2 DEF TypeOK
      <3>3. CASE t # s
        <4>1. sft'[t] = [sft[t] EXCEPT !.count = sft[t].count + 0]
          BY <2>2, <3>1, <3>3 DEF TypeOK, SFT
        <4> QED
          BY <4>1
      <3> QED
        BY <3>2, <3>3
    <2> QED
      BY <1>7, <2>3
  <1>9. CASE DosExec
    <2> DEFINE uses(s) == {i \in Slots : jft[depth][i] = s}
    <2>1. \A s \in Sfts : Cardinality(uses(s)) \in Nat
      BY SlotCount
    <2>2. \A t \in Sfts :
            sft'[t] = [sft[t] EXCEPT !.count =
                         sft[t].count + Cardinality(uses(t))]
      BY <1>9 DEF DosExec
    <2> QED
      BY <1>7, <2>1, <2>2
  <1>10. CASE CloseAllStep
    <2> DEFINE s == jft[depth][idx]
    <2>1. idx \in Slots
      BY <1>10, SftAssumption DEF CloseAllStep, TypeOK, LoopOK, Slots
    <2>2. CASE Counted(s)
      BY <1>10, <2>1, <2>2, CloseFlags DEF CloseAllStep, Counted, TypeOK
    <2>3. CASE ~Counted(s)
      BY <1>0, <1>10, <2>3 DEF CloseAllStep
    <2> QED
      BY <2>2, <2>3
  <1>11. CASE DosCloseStep
    <2> DEFINE s == jft[depth][idx]
    <2>1. idx \in Slots
      BY <1>11, SftAssumption DEF DosCloseStep, TypeOK, LoopOK, Slots
    <2>2. CASE ~Counted(s)
      BY <1>0, <1>11, <2>2 DEF DosCloseStep
    <2>3. CASE Counted(s) /\ sft[s].ours
      BY <1>11, <2>1, <2>3, CloseFlags DEF DosCloseStep, Counted, TypeOK
    <2>4. CASE Counted(s) /\ ~sft[s].ours
      <3>1. PICK u \in Sfts : u = s
        BY <2>1, <2>4 DEF Counted, TypeOK
      <3>2. /\ \A t \in Sfts : t # u => sft'[t] = sft[t]
            /\ ~sft'[u].ours
        BY <1>11, <2>4, <3>1, LocalRelease DEF DosCloseStep
      <3> QED
        BY <3>2 DEF FlagsInv, FlagsOK
    <2> QED
      BY <2>2, <2>3, <2>4
  <1> QED
    BY <1>0, <1>1, <1>2, <1>3, <1>4, <1>5, <1>6, <1>8, <1>9, <1>10, <1>11
    DEF Next, DosPathCall, DosExit, CloseAllDone, DosExitDone, vars

LEMMA FlagsAlways == Spec => []FlagsInv
  <1>1. Init => FlagsInv
    BY DEF Init, FlagsInv, Unused
  <1> QED
    BY <1>1, Typing, NextFlags, PTL DEF Spec

-----------------------------------------------------------------------------
(* What a close does to time stamps.                                       *)

StampOK(s) ==
    \/ mtime' = mtime
    \/ /\ sft[s].last # "none"
       /\ mtime' = [mtime EXCEPT ![sft[s].file] =
                      IF sft[s].last = "write" THEN "clock" ELSE "set"]

LEMMA CloseStamp ==
    ASSUME TypeOK, OwnedInv, FlagsInv, Exclusive,
           NEW s \in Sfts, Live(s), ~sft[s].rdonly, _CloseFile(s)
    PROVE  StampOK(s)
  <1>1. FlagsOK(s) /\ EntryOwned(s)
    BY DEF FlagsInv, OwnedInv, Live
  <1>2. StampTarget(s) = sft[s].file
    BY <1>1 DEF StampTarget, EntryOwned
  <1>3. \/ mtime' = mtime
        \/ /\ Stamps(s)
           /\ mtime' = [mtime EXCEPT ![StampTarget(s)] = StampTime(s)]
    BY DEF _CloseFile
  <1>4. sft[s].last \in {"none", "write", "set"}
    BY DEF TypeOK, SFT
  <1>5. CASE sft[s].last = "none"
    BY <1>1, <1>3, <1>5 DEF FlagsOK, Stamps, StampOK
  <1>6. CASE sft[s].last = "write"
    <2>1. StampTime(s) = "clock"
      BY <1>1, <1>6 DEF FlagsOK, StampTime
    <2> QED
      BY <1>2, <1>3, <1>6, <2>1 DEF StampOK
  <1>7. CASE sft[s].last = "set"
    <2>1. StampTime(s) = "set"
      BY <1>1, <1>7 DEF FlagsOK, StampTime
    <2> QED
      BY <1>2, <1>3, <1>7, <2>1 DEF StampOK
  <1> QED
    BY <1>4, <1>5, <1>6, <1>7

\* Only the entry that a step closes loses a handle.
LEMMA WhoCloses ==
    ASSUME TypeInv, [Next]_vars, NEW s \in Sfts, Closing(s)
    PROVE  _CloseFile(s)
  <1> USE DEF TypeInv
  <1>a. sft[s] \in SFT /\ sft'[s] \in SFT
    BY NextType DEF TypeOK
  <1>b. ~(sft'[s].count >= sft[s].count) /\ sft[s].ours /\ sft[s].count > 0
    BY <1>a DEF Closing, Live, SFT
  <1>0. ASSUME NEW u \in Sfts, \A t \in Sfts : t # u => sft'[t] = sft[t]
        PROVE  u = s
    BY <1>0, <1>a, <1>b DEF SFT
  <1>2. ASSUME NEW i \in Slots, NEW u \in Sfts, DosLocalOpen(i, u)
        PROVE  FALSE
    <2>1. sft[u].count = 0 /\ \A t \in Sfts : t # u => sft'[t] = sft[t]
      BY <1>2 DEF DosLocalOpen, TypeOK
    <2> QED
      BY <1>0, <1>b, <2>1
  <1>3. ASSUME NEW i \in Slots, NEW u \in Sfts, NEW f \in Files,
               NEW trunc \in BOOLEAN, OpenOrCreateFile(i, u, f, trunc)
        PROVE  FALSE
    <2>1. sft[u].count = 0 /\ \A t \in Sfts : t # u => sft'[t] = sft[t]
      BY <1>3 DEF OpenOrCreateFile, OpenRefused, OpenForgotten, OpenGivenUp,
                  OpenDone, TypeOK
    <2> QED
      BY <1>0, <1>b, <2>1
  <1>4. ASSUME NEW i \in Slots, WriteFile(i) \/ DosSetDate(i)
        PROVE  FALSE
    <2>1. CASE WriteFile(i)
      <3>1. sft'[s].count = sft[s].count
        BY <2>1 DEF WriteFile, TypeOK, SFT
      <3> QED
        BY <1>a, <1>b, <3>1 DEF SFT
    <2>2. CASE DosSetDate(i)
      <3>1. sft'[s].count = sft[s].count
        BY <2>2 DEF DosSetDate, TypeOK, SFT
      <3> QED
        BY <1>a, <1>b, <3>1 DEF SFT
    <2> QED
      BY <1>4, <2>1, <2>2
  <1>5. ASSUME NEW i \in Slots, CloseFile(i)
        PROVE  _CloseFile(s)
    <2>1. PICK u \in Sfts : u = jft[depth][i]
      BY <1>5 DEF CloseFile, Opened, Counted, TypeOK
    <2> QED
      BY <1>0, <1>5, <2>1, CloseEffect DEF CloseFile
  <1>6. ASSUME NEW i \in Slots, DosLocalClose(i)
        PROVE  FALSE
    <2>1. PICK u \in Sfts : u = jft[depth][i]
      BY <1>6 DEF DosLocalClose, Opened, Counted, TypeOK
    <2>2. ~sft[u].ours /\ \A t \in Sfts : t # u => sft'[t] = sft[t]
      BY <1>6, <2>1, LocalRelease DEF DosLocalClose
    <2> QED
      BY <1>0, <1>b, <2>2
  <1>7. ASSUME NEW i \in Slots, NEW j \in Slots, DosDup(i, j)
        PROVE  FALSE
    <2>1. PICK u \in Sfts : u = jft[depth][i]
      BY <1>7 DEF DosDup, Opened, Counted, TypeOK
    <2>2. sft' = [sft EXCEPT ![u].count = sft[u].count + 1]
      BY <1>7, <2>1 DEF DosDup
    <2>3. sft[s].count \in Nat
      BY <1>a DEF SFT
    <2>4. sft'[s].count = sft[s].count \/ sft'[s].count = sft[s].count + 1
      BY <2>2 DEF TypeOK, SFT
    <2> QED
      BY <1>b, <2>3, <2>4
  <1>8. CASE DosExec
    <2> DEFINE uses(t) == {i \in Slots : jft[depth][i] = t}
    <2>1. PICK n \in Nat : n = Cardinality(uses(s))
      BY SlotCount
    <2>2. sft'[s] = [sft[s] EXCEPT !.count = sft[s].count + n]
      BY <1>8, <2>1 DEF DosExec
    <2>3. sft'[s].count = sft[s].count + n /\ sft[s].count \in Nat
      BY <1>a, <2>2 DEF SFT
    <2> QED
      BY <1>b, <2>3
  <1>9. CASE CloseAllStep
    <2>1. idx \in Slots
      BY <1>9, SftAssumption DEF CloseAllStep, TypeOK, LoopOK, Slots
    <2>2. CASE Counted(jft[depth][idx])
      <3>1. PICK u \in Sfts : u = jft[depth][idx]
        BY <2>1, <2>2 DEF Counted, TypeOK
      <3> QED
        BY <1>0, <1>9, <2>2, <3>1, CloseEffect DEF CloseAllStep
    <2>3. CASE ~Counted(jft[depth][idx])
      <3>1. sft' = sft
        BY <1>9, <2>3 DEF CloseAllStep
      <3> QED
        BY <1>a, <1>b, <3>1 DEF SFT
    <2> QED
      BY <2>2, <2>3
  <1>10. CASE DosCloseStep
    <2>1. idx \in Slots
      BY <1>10, SftAssumption DEF DosCloseStep, TypeOK, LoopOK, Slots
    <2>2. CASE Counted(jft[depth][idx])
      <3>1. PICK u \in Sfts : u = jft[depth][idx]
        BY <2>1, <2>2 DEF Counted, TypeOK
      <3>2. CASE sft[u].ours
        BY <1>0, <1>10, <2>2, <3>1, <3>2, CloseEffect DEF DosCloseStep
      <3>3. CASE ~sft[u].ours
        <4>1. \A t \in Sfts : t # u => sft'[t] = sft[t]
          BY <1>10, <2>2, <3>1, <3>3, LocalRelease DEF DosCloseStep
        <4> QED
          BY <1>0, <1>b, <3>3, <4>1
      <3> QED
        BY <3>2, <3>3
    <2>3. CASE ~Counted(jft[depth][idx])
      <3>1. sft' = sft
        BY <1>10, <2>3 DEF DosCloseStep
      <3> QED
        BY <1>a, <1>b, <3>1 DEF SFT
    <2> QED
      BY <2>2, <2>3
  <1>11. CASE sft' = sft
    BY <1>a, <1>b, <1>11 DEF SFT
  <1> QED
    BY <1>2, <1>3, <1>4, <1>5, <1>6, <1>7, <1>8, <1>9, <1>10, <1>11
    DEF Next, OpenFile, CreateFile, SpecialOpen, DosPathCall, DosExit,
        CloseAllDone, DosExitDone, vars

\* History only grows: what was shared stays so.
LEMMA Monotone ==
    ASSUME TypeInv, [Next]_vars
    PROVE  (dups' = 0 => dups = 0) /\ (Exclusive' => Exclusive)
  <1> USE DEF TypeInv, Exclusive, TypeOK
  <1>1. CASE DosExec
    <2>1. PICK n \in Nat : dups' = dups + n
      BY <1>1, SlotCount DEF DosExec
    <2> QED
      BY <1>1, <2>1 DEF DosExec
  <1>2. CASE \E i, j \in Slots : DosDup(i, j)
    BY <1>2 DEF DosDup
  <1>3. CASE CloseAllStep
    BY <1>3 DEF CloseAllStep
  <1>4. CASE dups' = dups /\ foreign' = foreign
    BY <1>4
  <1>5. ASSUME NEW i \in Slots, NEW s \in Sfts, NEW f \in Files,
               OpenFile(i, s, f) \/ CreateFile(i, s, f) \/ SpecialOpen(i, s, f)
        PROVE  dups' = dups /\ foreign' = foreign
    BY <1>5 DEF OpenFile, CreateFile, SpecialOpen, OpenOrCreateFile
  <1>6. ASSUME NEW i \in Slots,
               \/ \E s \in Sfts : DosLocalOpen(i, s)
               \/ WriteFile(i) \/ DosSetDate(i)
               \/ CloseFile(i) \/ DosLocalClose(i)
        PROVE  dups' = dups /\ foreign' = foreign
    BY <1>6 DEF DosLocalOpen, WriteFile, DosSetDate, CloseFile, DosLocalClose
  <1>7. ASSUME \/ \E f \in Files : DosPathCall(f)
               \/ DosExit \/ CloseAllDone \/ DosCloseStep \/ DosExitDone
               \/ UNCHANGED vars
        PROVE  dups' = dups /\ foreign' = foreign
    BY <1>7
    DEF DosPathCall, DosExit, CloseAllDone, DosCloseStep, DosExitDone, vars
  <1> HIDE DEF TypeInv, Exclusive, TypeOK
  <1> QED
    BY <1>1, <1>2, <1>3, <1>4, <1>5, <1>6, <1>7 DEF Next

\* While no entry is shared, closing a file that is not read-only stamps no
\* other file, and that one only by the clock or with the date the program
\* set, whichever came last; a file that was only read keeps its time.
THEOREM StampCorrect == Spec => StampIsLast
  <1>1. ASSUME TypeInv, OwnedInv, FlagsInv, [Next]_vars, Exclusive',
               NEW s \in Sfts, Closing(s), ~sft[s].rdonly
        PROVE  StampOK(s)
    <2>1. _CloseFile(s)
      BY <1>1, WhoCloses
    <2>2. Exclusive
      BY <1>1, Monotone
    <2> QED
      BY <1>1, <2>1, <2>2, CloseStamp DEF TypeInv, Closing
  <1>2. TypeInv /\ OwnedInv /\ FlagsInv /\ [Next]_vars =>
          [Exclusive' => \A s \in Sfts : Closing(s) /\ ~sft[s].rdonly =>
              \/ mtime' = mtime
              \/ /\ sft[s].last # "none"
                 /\ mtime' = [mtime EXCEPT ![sft[s].file] =
                      IF sft[s].last = "write" THEN "clock" ELSE "set"]]_vars
    BY <1>1 DEF StampOK
  <1> QED
    BY <1>2, Typing, OwnedAlways, FlagsAlways, PTL DEF Spec, StampIsLast

-----------------------------------------------------------------------------
(* SftTable implements HandleTable as long as no handle is duplicated or   *)
(* inherited: for any number of entries, host handles, files, processes,   *)
(* failing RPCs and files on other drives, which CloseAll closes as well.  *)
(* (Run SftDup shows what goes wrong when a handle is duplicated.)         *)

(* Who holds what while no entry is shared.                                *)

\* Only the running program has handles open.
Rows == \A p \in 1..MaxDepth : p # depth => jft[p] = NoSlots

Single == \A s \in Sfts : sft[s].count \in {0, 1}

\* One slot names an entry that is in use.
Unique ==
    \A k, j \in Slots :
        jft[depth][k] = jft[depth][j] /\ Counted(jft[depth][k]) => k = j

\* While a program runs, its slots name entries in use.
Backed ==
    pc = "dos" =>
        \A k \in Slots : jft[depth][k] # NoSft => Counted(jft[depth][k])

Named ==
    \A s \in Sfts : sft[s].count > 0 => \E k \in Slots : jft[depth][k] = s

\* DOS has closed the slots it has walked over.
Walked ==
    pc = "dosclose" =>
        \A k \in Slots : k < idx => ~Counted(jft[depth][k])

Apart ==
    \A s \in Sfts : Live(s) =>
        /\ sft[s].handle \in Handles
        /\ \A t \in Sfts : Live(t) /\ sft[t].handle = sft[s].handle => t = s

\* While a program runs, its entries hold handles that are open on the host.
\* (CloseAll may close one through an entry of another drive, but then the
\* program is ending and the entry is closed before DOS goes on.)
Reached ==
    pc = "dos" => \A s \in Sfts : Live(s) => hostOpen[sft[s].handle] # NoFile

SlotsInv == Rows /\ Single /\ Unique /\ Backed /\ Named /\ Walked

Private == dups = 0 /\ SlotsInv /\ Apart /\ Reached

\* The parts of TypeInv that the proofs look at.
LEMMA Shapes ==
    ASSUME TypeInv
    PROVE  /\ depth \in 1..MaxDepth
           /\ \A p \in 1..MaxDepth : jft[p] \in [Slots -> Sfts \cup {NoSft}]
           /\ \A k \in Slots : jft[depth][k] \in Sfts \cup {NoSft}
           /\ \A s \in Sfts : sft[s].count \in Nat /\ sft[s].ours \in BOOLEAN
           /\ NoSft \notin Sfts
           /\ \A k \in Slots : k \in Nat
<1>1. /\ depth \in 1..MaxDepth
      /\ \A p \in 1..MaxDepth : jft[p] \in [Slots -> Sfts \cup {NoSft}]
  BY DEF TypeInv, TypeOK
<1>2. \A s \in Sfts : sft[s].count \in Nat /\ sft[s].ours \in BOOLEAN
  BY DEF TypeInv, TypeOK, SFT
<1>3. \A k \in Slots : k \in Nat
  BY SftAssumption DEF Slots
<1> QED
  BY <1>1, <1>2, <1>3, SftAssumption

-----------------------------------------------------------------------------
(* Steps of SftTable as steps of HandleTable.                              *)

Maps == HT!Next \/ UNCHANGED HT!vars

LEMMA MapSame ==
    ASSUME depth' = depth,
           \A p \in 1..MaxDepth, k \in Slots : Denoted(p, k)' = Denoted(p, k)
    PROVE  Maps
  BY DEF Maps, HT!vars

\* One handle of the running program is closed, or none.
LEMMA MapClose ==
    ASSUME depth \in 1..MaxDepth, depth' = depth, NEW i \in Slots,
           Denoted(depth, i)' \in {Denoted(depth, i), NoFile},
           \A p \in 1..MaxDepth, k \in Slots : p # depth \/ k # i =>
              Denoted(p, k)' = Denoted(p, k)
    PROVE  Maps
<1>1. CASE Denoted(depth, i)' = Denoted(depth, i)
  BY <1>1, MapSame
<1>2. CASE Denoted(depth, i)' = NoFile /\ Denoted(depth, i) # NoFile
  <2> DEFINE open == [p \in 1..MaxDepth |-> [k \in Slots |-> Denoted(p, k)]]
             new == [p \in 1..MaxDepth |-> [k \in Slots |-> Denoted(p, k)']]
  <2>1. new = [open EXCEPT ![depth][i] = NoFile]
    BY <1>2
  <2>2. open[depth][i] # NoFile
    BY <1>2
  <2>3. HT!Close(i)
    BY <2>1, <2>2 DEF HT!Close
  <2> QED
    BY <2>3 DEF Maps, HT!Next
<1> QED
  BY <1>1, <1>2

\* A _CloseFile through slot i of the running program closes one handle of
\* the program at most: its own, or, through an entry of another drive, the
\* one that happens to have the host handle found there.
LEMMA CloseMaps ==
    ASSUME TypeInv, Private, NEW i \in Slots, NEW s \in Sfts,
           s = jft[depth][i], sft[s].count > 0, _CloseFile(s),
           depth' = depth,
           jft' = jft \/ jft' = [jft EXCEPT ![depth][i] = NoSft]
    PROVE  Maps
<1> USE DEF Private, SlotsInv
<1>1. /\ sft'[s] = Unused
      /\ \A t \in Sfts : t # s => sft'[t] = sft[t]
      /\ \A h \in Handles : h # sft[s].handle => hostOpen'[h] = hostOpen[h]
  <2>1. ~(sft[s].count > 1)
    BY DEF Single
  <2> QED
    BY <2>1, CloseEntry, CloseEffect DEF TypeInv
<1>2. \A h \in Handles : hostOpen'[h] \in {hostOpen[h], NoFile}
  BY DEF _CloseFile, TypeInv, TypeOK
<1>3. /\ \A p \in 1..MaxDepth, k \in Slots :
           p # depth => jft[p][k] = NoSft /\ jft'[p][k] = NoSft
      /\ \A k \in Slots : k # i => jft'[depth][k] = jft[depth][k]
      /\ jft'[depth][i] \in {s, NoSft}
  <2>1. /\ depth \in 1..MaxDepth
        /\ \A p \in 1..MaxDepth : jft[p] \in [Slots -> Sfts \cup {NoSft}]
        /\ jft \in [1..MaxDepth -> [Slots -> Sfts \cup {NoSft}]]
    BY DEF TypeInv, TypeOK
  <2>2. jft' \in [1..MaxDepth -> [Slots -> Sfts \cup {NoSft}]]
    BY <2>1
  <2>3. \A p \in 1..MaxDepth : p # depth => jft'[p] = jft[p]
    BY <2>1
  <2>4. \A p \in 1..MaxDepth, k \in Slots : p # depth => jft[p][k] = NoSft
    BY DEF Rows, NoSlots
  <2>5. \A k \in Slots : k # i => jft'[depth][k] = jft[depth][k]
    BY <2>1
  <2>6. jft'[depth][i] \in {s, NoSft}
    BY <2>1
  <2> QED
    BY <2>3, <2>4, <2>5, <2>6
<1>4. \A p \in 1..MaxDepth, k \in Slots :
         p # depth => Denoted(p, k) = NoFile /\ Denoted(p, k)' = NoFile
  BY <1>3 DEF Denoted
<1>5. Denoted(depth, i)' = NoFile
  BY <1>1, <1>3 DEF Denoted, Live, Unused
<1>6. \A k \in Slots : k # i => jft[depth][k] # s
  BY SftAssumption DEF Unique, Counted
<1>7. ASSUME NEW k \in Slots, k # i, jft[depth][k] = NoSft \/
                                     ~Live(jft[depth][k])
      PROVE  Denoted(depth, k)' = Denoted(depth, k)
  BY <1>1, <1>3, <1>6, <1>7, Shapes DEF Denoted, Live
<1>8. ASSUME NEW k \in Slots, k # i, jft[depth][k] # NoSft,
             Live(jft[depth][k])
      PROVE  /\ Denoted(depth, k) = hostOpen[sft[jft[depth][k]].handle]
             /\ Denoted(depth, k)' = hostOpen'[sft[jft[depth][k]].handle]
             /\ sft[jft[depth][k]].handle \in Handles
             /\ jft[depth][k] \in Sfts
  <2>1. jft[depth][k] \in Sfts
    BY <1>8, Shapes
  <2>2. jft[depth][k] # s /\ jft'[depth][k] = jft[depth][k]
    BY <1>3, <1>6, <1>8
  <2>3. depth <= depth /\ depth' <= depth'
    BY Shapes
  <2>4. Denoted(depth, k) = hostOpen[sft[jft[depth][k]].handle]
    BY <1>8, <2>3 DEF Denoted
  <2>5. Denoted(depth, k)' = hostOpen'[sft[jft[depth][k]].handle]
    BY <1>1, <1>8, <2>1, <2>2, <2>3 DEF Denoted, Live
  <2> QED
    BY <1>8, <2>1, <2>4, <2>5 DEF Apart
<1>9. CASE Live(s)
  <2>1. ASSUME NEW k \in Slots, k # i
        PROVE  Denoted(depth, k)' = Denoted(depth, k)
    <3>1. CASE jft[depth][k] # NoSft /\ Live(jft[depth][k])
      <4>1. sft[jft[depth][k]].handle # sft[s].handle
        BY <1>6, <1>8, <1>9, <2>1, <3>1 DEF Apart
      <4> QED
        BY <1>1, <1>8, <2>1, <3>1, <4>1
    <3> QED
      BY <1>7, <2>1, <3>1
  <2> QED
    BY <1>4, <1>5, <2>1, MapClose, Shapes
<1>10. CASE ~Live(s)
  <2>1. Denoted(depth, i) = NoFile
    BY <1>10 DEF Denoted
  <2>2. CASE \E j \in Slots : /\ j # i /\ jft[depth][j] # NoSft
                              /\ Live(jft[depth][j])
                              /\ sft[jft[depth][j]].handle = sft[s].handle
    <3>1. PICK j \in Slots : /\ j # i /\ jft[depth][j] # NoSft
                             /\ Live(jft[depth][j])
                             /\ sft[jft[depth][j]].handle = sft[s].handle
      BY <2>2
    <3>2. Denoted(depth, j)' \in {Denoted(depth, j), NoFile}
      BY <1>2, <1>8, <3>1
    <3>3. ASSUME NEW k \in Slots, k # j
          PROVE  Denoted(depth, k)' = Denoted(depth, k)
      <4>1. CASE k = i
        BY <1>5, <2>1, <4>1
      <4>2. CASE k # i /\ jft[depth][k] # NoSft /\ Live(jft[depth][k])
        <5>1. jft[depth][k] # jft[depth][j]
          BY <1>8, <3>1, <3>3, <4>2 DEF Unique, Counted, Live
        <5>2. sft[jft[depth][k]].handle # sft[s].handle
          BY <1>8, <3>1, <4>2, <5>1 DEF Apart
        <5> QED
          BY <1>1, <1>8, <4>2, <5>2
      <4> QED
        BY <1>7, <4>1, <4>2
    <3> QED
      BY <1>4, <3>2, <3>3, MapClose, Shapes
  <2>3. CASE ~\E j \in Slots : /\ j # i /\ jft[depth][j] # NoSft
                               /\ Live(jft[depth][j])
                               /\ sft[jft[depth][j]].handle = sft[s].handle
    <3>1. ASSUME NEW k \in Slots
          PROVE  Denoted(depth, k)' = Denoted(depth, k)
      <4>1. CASE k = i
        BY <1>5, <2>1, <4>1
      <4>2. CASE k # i /\ jft[depth][k] # NoSft /\ Live(jft[depth][k])
        BY <1>1, <1>8, <2>3, <4>2
      <4> QED
        BY <1>7, <4>1, <4>2
    <3> QED
      BY <1>4, <3>1, MapSame
  <2> QED
    BY <2>2, <2>3
<1> QED
  BY <1>9, <1>10

\* A handle of the running program that was closed comes to denote f.
LEMMA MapOpen ==
    ASSUME depth \in 1..MaxDepth, depth' = depth, NEW i \in Slots,
           NEW f \in Files, Denoted(depth, i) = NoFile,
           Denoted(depth, i)' = f,
           \A p \in 1..MaxDepth, k \in Slots : p # depth \/ k # i =>
              Denoted(p, k)' = Denoted(p, k)
    PROVE  Maps
<1> DEFINE open == [p \in 1..MaxDepth |-> [k \in Slots |-> Denoted(p, k)]]
           new == [p \in 1..MaxDepth |-> [k \in Slots |-> Denoted(p, k)']]
<1>1. new = [open EXCEPT ![depth][i] = f]
  OBVIOUS
<1>2. open[depth][i] = NoFile
  OBVIOUS
<1>3. HT!Open(i, f)
  BY <1>1, <1>2 DEF HT!Open
<1> QED
  BY <1>3 DEF Maps, HT!Next

\* The entries that denote something stay as they are, and so do the host's
\* handles that they hold.
LEMMA QuietMaps ==
    ASSUME TypeInv, depth' = depth, jft' = jft,
           \A s \in Sfts : /\ Live(s)' <=> Live(s)
                           /\ sft'[s].handle = sft[s].handle,
           \A s \in Sfts : Live(s) =>
              hostOpen'[sft[s].handle] = hostOpen[sft[s].handle]
    PROVE  Maps
<1> SUFFICES ASSUME NEW p \in 1..MaxDepth, NEW k \in Slots
             PROVE  Denoted(p, k)' = Denoted(p, k)
  BY MapSame
<1>1. jft[p][k] # NoSft => jft[p][k] \in Sfts
  BY Shapes
<1> QED
  BY <1>1 DEF Denoted

\* DOS opens or closes a file of its own: entry s of slot i of the running
\* program denotes nothing, before and after.
LEMMA LocalMaps ==
    ASSUME TypeInv, NEW i \in Slots, NEW s \in Sfts,
           jft[depth][i] \in {s, NoSft}, ~Live(s), ~Live(s)',
           \A t \in Sfts : t # s => sft'[t] = sft[t],
           hostOpen' = hostOpen, depth' = depth,
           \/ jft' = jft
           \/ jft' = [jft EXCEPT ![depth][i] = NoSft]
           \/ jft' = [jft EXCEPT ![depth][i] = s]
    PROVE  Maps
<1> SUFFICES ASSUME NEW p \in 1..MaxDepth, NEW k \in Slots
             PROVE  Denoted(p, k)' = Denoted(p, k)
  BY MapSame
<1>1. jft[p][k] # NoSft => jft[p][k] \in Sfts
  BY Shapes
<1>2. CASE p = depth /\ k = i
  <2>1. jft'[p][k] \in {s, NoSft}
    BY <1>2 DEF TypeInv, TypeOK
  <2> QED
    BY <1>2, <2>1 DEF Denoted
<1>3. CASE p # depth \/ k # i
  <2>1. jft'[p][k] = jft[p][k]
    BY <1>3 DEF TypeInv, TypeOK
  <2>2. CASE jft[p][k] = s
    BY <2>1, <2>2 DEF Denoted
  <2>3. CASE jft[p][k] # s
    BY <1>1, <2>1, <2>3 DEF Denoted, Live
  <2> QED
    BY <2>2, <2>3
<1> QED
  BY <1>2, <1>3

-----------------------------------------------------------------------------
(* What keeps Private.                                                     *)

LEMMA ApartKept ==
    ASSUME Apart,
           \A t \in Sfts : Live(t)' => /\ Live(t)
                                       /\ sft'[t].handle = sft[t].handle
    PROVE  Apart'
  BY DEF Apart, Live

\* The slots and the counts of the entries stay as they are.
LEMMA StaySlots ==
    ASSUME TypeInv, SlotsInv, depth' = depth, jft' = jft,
           \A t \in Sfts : sft'[t].count = sft[t].count,
           pc' = "dos" => pc = "dos",
           pc' = "dosclose" => idx' = FirstSlot
    PROVE  SlotsInv'
<1>1. \A k \in Slots : jft[depth][k] \in Sfts \cup {NoSft}
  BY Shapes
<1>2. Rows' /\ Single' /\ Named'
  BY DEF SlotsInv, Rows, Single, Named
<1>3. Unique' /\ Backed'
  BY <1>1 DEF SlotsInv, Unique, Backed, Counted
<1>4. \A k \in Slots : ~(k < FirstSlot)
  BY SftAssumption DEF Slots
<1>5. Walked'
  BY <1>4 DEF Walked
<1> QED
  BY <1>2, <1>3, <1>5 DEF SlotsInv

\* A free slot and a free entry are joined.
LEMMA NewSlots ==
    ASSUME TypeInv, SlotsInv, NEW i \in Slots, NEW s \in Sfts,
           pc = "dos", pc' = "dos", depth' = depth,
           jft[depth][i] = NoSft, sft[s].count = 0,
           jft' = [jft EXCEPT ![depth][i] = s], sft'[s].count = 1,
           \A t \in Sfts : t # s => sft'[t] = sft[t]
    PROVE  SlotsInv'
<1>1. /\ depth \in 1..MaxDepth /\ NoSft \notin Sfts
      /\ \A k \in Slots : jft[depth][k] \in Sfts \cup {NoSft}
  BY Shapes
<1>2. /\ jft'[depth][i] = s
      /\ \A k \in Slots : k # i => jft'[depth][k] = jft[depth][k]
      /\ \A p \in 1..MaxDepth : p # depth => jft'[p] = jft[p]
  BY <1>1 DEF TypeInv, TypeOK
<1>3. \A k \in Slots : jft[depth][k] # s
  BY <1>1 DEF SlotsInv, Backed, Counted
<1>4. Rows' /\ Single'
  BY <1>2 DEF SlotsInv, Rows, Single
<1>5. Unique'
  BY <1>1, <1>2, <1>3 DEF SlotsInv, Unique, Counted
<1>6. Backed'
  BY <1>1, <1>2, <1>3 DEF SlotsInv, Backed, Counted
<1>7. Named'
  BY <1>1, <1>2 DEF SlotsInv, Named
<1>8. Walked'
  BY DEF Walked
<1> QED
  BY <1>4, <1>5, <1>6, <1>7, <1>8 DEF SlotsInv

\* The entry of slot i is closed: by the program, which frees the slot, or
\* while the program is ending.
LEMMA CloseSlots ==
    ASSUME TypeInv, SlotsInv, NEW i \in Slots, NEW s \in Sfts,
           s = jft[depth][i], sft[s].count > 0, sft'[s].count = 0,
           \A t \in Sfts : t # s => sft'[t] = sft[t], depth' = depth,
           \/ pc' = "dos" /\ pc = "dos"
                          /\ jft' = [jft EXCEPT ![depth][i] = NoSft]
           \/ pc' = "closeall" /\ jft' = jft
           \/ pc' = "dosclose" /\ pc = "dosclose" /\ jft' = jft
                               /\ i = idx /\ idx' = idx + 1
    PROVE  SlotsInv'
<1>1. /\ depth \in 1..MaxDepth /\ NoSft \notin Sfts
      /\ \A k \in Slots : jft[depth][k] \in Sfts \cup {NoSft}
      /\ \A k \in Slots : k \in Nat
  BY Shapes
<1>2. /\ jft'[depth][i] \in {s, NoSft}
      /\ \A k \in Slots : k # i => jft'[depth][k] = jft[depth][k]
      /\ \A p \in 1..MaxDepth : p # depth => jft'[p] = jft[p]
  <2>1. CASE jft' = jft
    BY <2>1
  <2>2. CASE jft' = [jft EXCEPT ![depth][i] = NoSft]
    BY <1>1, <2>2 DEF TypeInv, TypeOK
  <2> QED
    BY <2>1, <2>2
<1>3. \A k \in Slots : k # i => jft[depth][k] # s
  BY <1>1 DEF SlotsInv, Unique, Counted
<1>4. Rows' /\ Single'
  BY <1>2 DEF SlotsInv, Rows, Single
<1>5. Unique'
  BY <1>1, <1>2, <1>3 DEF SlotsInv, Unique, Counted
<1>6. Backed'
  <2>1. CASE pc' = "dos"
    <3>1. pc = "dos" /\ jft' = [jft EXCEPT ![depth][i] = NoSft]
      BY <2>1
    <3>2. jft'[depth][i] = NoSft
      BY <1>1, <3>1 DEF TypeInv, TypeOK
    <3> QED
      BY <1>1, <1>2, <1>3, <3>1, <3>2 DEF SlotsInv, Backed, Counted
  <2> QED
    BY <2>1 DEF Backed
<1>7. Named'
  <2> SUFFICES ASSUME NEW t \in Sfts, sft'[t].count > 0
               PROVE  \E k \in Slots : jft'[depth][k] = t
    BY DEF Named
  <2>1. t # s /\ sft[t].count > 0
    OBVIOUS
  <2>2. PICK k \in Slots : jft[depth][k] = t
    BY <2>1 DEF SlotsInv, Named
  <2> QED
    BY <1>2, <2>1, <2>2
<1>8. Walked'
  <2>1. CASE pc' = "dosclose"
    <3> SUFFICES ASSUME NEW k \in Slots, k < idx'
                 PROVE  ~Counted(jft[depth][k])'
      BY DEF Walked
    <3>1. k = i \/ k < idx
      BY <1>1, <2>1
    <3>2. CASE k = i
      BY <1>2, <3>2 DEF Counted
    <3>3. CASE k # i /\ k < idx
      <4>1. ~Counted(jft[depth][k])
        BY <2>1, <3>3 DEF SlotsInv, Walked
      <4>2. jft'[depth][k] = jft[depth][k] /\ jft[depth][k] # s
        BY <1>2, <1>3, <3>3
      <4> QED
        BY <1>1, <4>1, <4>2 DEF Counted
    <3> QED
      BY <3>1, <3>2, <3>3
  <2> QED
    BY <2>1 DEF Walked
<1> QED
  BY <1>4, <1>5, <1>6, <1>7, <1>8 DEF SlotsInv

-----------------------------------------------------------------------------
(* The steps.                                                              *)

LEMMA OpenStep ==
    ASSUME TypeInv, Private, NEW i \in Slots, NEW s \in Sfts,
           NEW f \in Files, NEW trunc \in BOOLEAN,
           OpenOrCreateFile(i, s, f, trunc)
    PROVE  Private' /\ Maps
<1> USE DEF Private
<1>1. /\ pc = "dos" /\ pc' = "dos" /\ depth' = depth /\ dups' = dups
      /\ jft[depth][i] = NoSft /\ sft[s].count = 0
  BY DEF OpenOrCreateFile
<1>2. \A t \in Sfts : Live(t) => hostOpen[sft[t].handle] # NoFile
  BY <1>1 DEF Reached
\* Nothing is stored, though the host may have opened a handle.
<1>3. ASSUME sft' = sft, jft' = jft,
             \A h \in Handles : hostOpen[h] # NoFile =>
                hostOpen'[h] = hostOpen[h]
      PROVE  Private' /\ Maps
  <2>1. \A t \in Sfts : Live(t) =>
           /\ sft[t].handle \in Handles
           /\ hostOpen'[sft[t].handle] = hostOpen[sft[t].handle]
    BY <1>2, <1>3 DEF Apart
  <2>2. \A t \in Sfts : Live(t)' <=> Live(t)
    BY <1>3 DEF Live
  <2>3. SlotsInv'
    BY <1>1, <1>3, StaySlots
  <2>4. Apart'
    BY <1>3, <2>2, ApartKept
  <2>5. Reached'
    BY <1>2, <1>3, <2>1, <2>2 DEF Reached
  <2>6. Maps
    BY <1>1, <1>3, <2>1, <2>2, QuietMaps
  <2> QED
    BY <1>1, <2>3, <2>4, <2>5, <2>6
<1>4. CASE OpenRefused
  BY <1>3, <1>4 DEF OpenRefused
<1>5. ASSUME NEW h \in Handles, hostOpen[h] = NoFile,
             OpenForgotten(f, h, trunc) \/ OpenGivenUp(f, h, trunc)
      PROVE  Private' /\ Maps
  <2>1. /\ sft' = sft /\ jft' = jft
        /\ hostOpen' = hostOpen \/ hostOpen' = [hostOpen EXCEPT ![h] = f]
    BY <1>5 DEF OpenForgotten, OpenGivenUp
  <2>2. \A g \in Handles : g # h => hostOpen'[g] = hostOpen[g]
    BY <2>1 DEF TypeInv, TypeOK
  <2> QED
    BY <1>3, <1>5, <2>1, <2>2
<1>6. ASSUME NEW h \in Handles, hostOpen[h] = NoFile,
             OpenDone(i, s, f, h, trunc)
      PROVE  Private' /\ Maps
  <2>1. /\ sft'[s].count = 1 /\ sft'[s].ours /\ sft'[s].handle = h
        /\ \A t \in Sfts : t # s => sft'[t] = sft[t]
        /\ jft' = [jft EXCEPT ![depth][i] = s]
    BY <1>6 DEF OpenDone, TypeInv, TypeOK
  <2>2. /\ hostOpen'[h] = f /\ f # NoFile
        /\ \A g \in Handles : g # h => hostOpen'[g] = hostOpen[g]
    BY <1>6, SftAssumption DEF OpenDone, TypeInv, TypeOK
  <2>3. ~Live(s) /\ Live(s)'
    BY <1>1, <2>1 DEF Live
  <2>4. \A t \in Sfts : t # s => (Live(t)' <=> Live(t))
    BY <2>1 DEF Live
  <2>5. \A t \in Sfts : Live(t) =>
           /\ t # s /\ sft[t].handle \in Handles /\ sft[t].handle # h
           /\ hostOpen'[sft[t].handle] = hostOpen[sft[t].handle]
    BY <1>2, <1>6, <2>2, <2>3 DEF Apart
  <2>6. SlotsInv'
    BY <1>1, <2>1, NewSlots
  <2>7. Apart'
    BY <2>1, <2>3, <2>4, <2>5 DEF Apart
  <2>8. Reached'
    BY <1>2, <2>1, <2>2, <2>3, <2>4, <2>5 DEF Reached
  <2>9. /\ depth \in 1..MaxDepth
        /\ \A p \in 1..MaxDepth, k \in Slots :
             jft[p][k] # NoSft => jft[p][k] \in Sfts
    BY Shapes
  <2>10. Denoted(depth, i) = NoFile
    BY <1>1 DEF Denoted
  <2>11. Denoted(depth, i)' = f
    <3>1. jft'[depth][i] = s /\ s # NoSft
      BY <2>1, <2>9, SftAssumption DEF TypeInv, TypeOK
    <3>2. depth' <= depth'
      BY <1>1, <2>9
    <3> QED
      BY <1>1, <2>1, <2>2, <2>3, <3>1, <3>2 DEF Denoted
  <2>12. ASSUME NEW p \in 1..MaxDepth, NEW k \in Slots,
                p # depth \/ k # i
         PROVE  Denoted(p, k)' = Denoted(p, k)
    <3>1. jft'[p][k] = jft[p][k]
      BY <2>1, <2>9, <2>12 DEF TypeInv, TypeOK
    <3>2. jft[p][k] # s
      <4>1. CASE p # depth
        BY <2>9, <4>1, SftAssumption DEF SlotsInv, Rows, NoSlots
      <4>2. CASE p = depth
        BY <1>1, <4>2, SftAssumption DEF SlotsInv, Backed, Counted
      <4> QED
        BY <4>1, <4>2
    <3>3. jft[p][k] # NoSft => sft'[jft[p][k]] = sft[jft[p][k]]
      BY <2>1, <2>9, <3>2
    <3> QED
      BY <1>1, <2>4, <2>5, <2>9, <3>1, <3>2, <3>3 DEF Denoted
  <2> QED
    BY <1>1, <2>6, <2>7, <2>8, <2>9, <2>10, <2>11, <2>12, MapOpen
<1> QED
  BY <1>4, <1>5, <1>6 DEF OpenOrCreateFile

\* A step that leaves slots, counts, host handles and the owner of every
\* entry alone.
LEMMA QuietStep ==
    ASSUME TypeInv, Private, dups' = dups, depth' = depth, jft' = jft,
           hostOpen' = hostOpen,
           \A t \in Sfts : /\ sft'[t].count = sft[t].count
                           /\ sft'[t].ours = sft[t].ours
                           /\ sft'[t].handle = sft[t].handle,
           pc' = "dos" => pc = "dos",
           pc' = "dosclose" => idx' = FirstSlot
    PROVE  Private' /\ Maps
<1>1. \A t \in Sfts : Live(t)' <=> Live(t)
  BY DEF Live
<1>2. SlotsInv'
  BY StaySlots DEF Private
<1>3. Apart'
  BY <1>1, ApartKept DEF Private
<1>4. Reached'
  BY <1>1 DEF Private, Reached
<1>5. Maps
  BY <1>1, QuietMaps
<1> QED
  BY <1>2, <1>3, <1>4, <1>5 DEF Private

\* A _CloseFile for slot i of the running program.
LEMMA CloseStep ==
    ASSUME TypeInv, Private, NEW i \in Slots, NEW s \in Sfts,
           s = jft[depth][i], sft[s].count > 0, _CloseFile(s),
           dups' = dups, depth' = depth,
           \/ pc' = "dos" /\ pc = "dos" /\ sft[s].ours
                          /\ jft' = [jft EXCEPT ![depth][i] = NoSft]
           \/ pc' = "closeall" /\ jft' = jft
           \/ pc' = "dosclose" /\ pc = "dosclose" /\ jft' = jft
                               /\ i = idx /\ idx' = idx + 1
    PROVE  Private' /\ Maps
<1> USE DEF Private
<1>1. /\ sft'[s] = Unused
      /\ \A t \in Sfts : t # s => sft'[t] = sft[t]
      /\ \A h \in Handles : h # sft[s].handle => hostOpen'[h] = hostOpen[h]
  <2>1. ~(sft[s].count > 1)
    BY DEF SlotsInv, Single
  <2> QED
    BY <2>1, CloseEntry, CloseEffect DEF TypeInv
<1>2. sft'[s].count = 0 /\ ~Live(s)'
  BY <1>1 DEF Unused, Live
<1>3. \A t \in Sfts : Live(t)' => t # s /\ Live(t) /\ sft'[t] = sft[t]
  BY <1>1, <1>2 DEF Live
<1>4. SlotsInv'
  BY <1>1, <1>2, CloseSlots
<1>5. Apart'
  BY <1>3, ApartKept
<1>6. Reached'
  <2> SUFFICES ASSUME pc' = "dos", NEW t \in Sfts, Live(t)'
               PROVE  hostOpen'[sft'[t].handle] # NoFile
    BY DEF Reached
  <2>1. pc = "dos" /\ Live(s)
    BY DEF Live
  <2>2. t # s /\ Live(t) /\ sft'[t] = sft[t]
    BY <1>3
  <2>3. sft[t].handle \in Handles /\ sft[t].handle # sft[s].handle
    BY <2>1, <2>2 DEF Apart
  <2>4. hostOpen[sft[t].handle] # NoFile
    BY <2>1, <2>2 DEF Reached
  <2> QED
    BY <1>1, <2>2, <2>3, <2>4
<1>7. Maps
  BY CloseMaps
<1> QED
  BY <1>4, <1>5, <1>6, <1>7

\* DOS closes a file of its own.
LEMMA LocalCloseStep ==
    ASSUME TypeInv, Private, NEW i \in Slots, NEW s \in Sfts,
           s = jft[depth][i], sft[s].count > 0, ~sft[s].ours,
           sft' = Release(s, sft[s].time), hostOpen' = hostOpen,
           dups' = dups, depth' = depth,
           \/ pc' = "dos" /\ pc = "dos"
                          /\ jft' = [jft EXCEPT ![depth][i] = NoSft]
           \/ pc' = "dosclose" /\ pc = "dosclose" /\ jft' = jft
                               /\ i = idx /\ idx' = idx + 1
    PROVE  Private' /\ Maps
<1> USE DEF Private
<1>1. /\ sft'[s] = Unused
      /\ \A t \in Sfts : t # s => sft'[t] = sft[t]
  <2>1. ~(sft[s].count > 1)
    BY DEF SlotsInv, Single
  <2> QED
    BY <2>1, ReleaseEntry DEF TypeInv
<1>2. sft'[s].count = 0 /\ ~Live(s)' /\ ~Live(s)
  BY <1>1 DEF Unused, Live
<1>3. \A t \in Sfts : Live(t)' => t # s /\ Live(t) /\ sft'[t] = sft[t]
  BY <1>1, <1>2 DEF Live
<1>4. SlotsInv'
  BY <1>1, <1>2, CloseSlots
<1>5. Apart'
  BY <1>3, ApartKept
<1>6. Reached'
  BY <1>3 DEF Reached
<1>7. Maps
  BY <1>1, <1>2, LocalMaps
<1> QED
  BY <1>4, <1>5, <1>6, <1>7

LEMMA LocalOpenStep ==
    ASSUME TypeInv, Private, NEW i \in Slots, NEW s \in Sfts,
           DosLocalOpen(i, s)
    PROVE  Private' /\ Maps
<1> USE DEF Private
<1>1. /\ pc = "dos" /\ pc' = "dos" /\ depth' = depth /\ dups' = dups
      /\ jft[depth][i] = NoSft /\ sft[s].count = 0 /\ hostOpen' = hostOpen
      /\ jft' = [jft EXCEPT ![depth][i] = s]
      /\ sft'[s].count = 1 /\ ~sft'[s].ours
      /\ \A t \in Sfts : t # s => sft'[t] = sft[t]
  BY DEF DosLocalOpen, Unused, TypeInv, TypeOK
<1>2. ~Live(s) /\ ~Live(s)'
  BY <1>1 DEF Live
<1>3. \A t \in Sfts : Live(t)' => t # s /\ Live(t) /\ sft'[t] = sft[t]
  BY <1>1, <1>2 DEF Live
<1>4. SlotsInv'
  BY <1>1, NewSlots
<1>5. Apart'
  BY <1>3, ApartKept
<1>6. Reached'
  BY <1>1, <1>3 DEF Reached
<1>7. Maps
  BY <1>1, <1>2, LocalMaps
<1> QED
  BY <1>1, <1>4, <1>5, <1>6, <1>7

\* No entry is in use and no slot is open: what EXEC with no handle to
\* inherit finds, and what the end of a process leaves.
LEMMA Empty ==
    ASSUME dups' = 0, depth' \in 1..MaxDepth,
           \A p \in 1..MaxDepth : jft'[p] = NoSlots,
           \A s \in Sfts : sft'[s].count = 0
    PROVE  /\ Private'
           /\ \A p \in 1..MaxDepth, k \in Slots : Denoted(p, k)' = NoFile
<1>1. \A s \in Sfts : ~Live(s)'
  BY DEF Live
<1>2. \A p \in 1..MaxDepth, k \in Slots : jft'[p][k] = NoSft
  BY DEF NoSlots
<1>3. Rows' /\ Single' /\ Named'
  BY DEF Rows, Single, Named
<1>4. Unique' /\ Backed' /\ Walked'
  BY <1>2 DEF Unique, Backed, Walked, Counted
<1>5. Apart' /\ Reached'
  BY <1>1 DEF Apart, Reached
<1>6. \A p \in 1..MaxDepth, k \in Slots : Denoted(p, k)' = NoFile
  BY <1>2 DEF Denoted
<1> QED
  BY <1>3, <1>4, <1>5, <1>6 DEF Private, SlotsInv

LEMMA ExecStep ==
    ASSUME TypeInv, Private, dups' = 0, DosExec
    PROVE  Private' /\ Maps
<1> USE DEF Private
<1> DEFINE uses(s) == {i \in Slots : jft[depth][i] = s}
           inherited == {i \in Slots : jft[depth][i] # NoSft}
<1>1. inherited = {} /\ dups' = 0
  <2>1. inherited \in SUBSET Slots
    OBVIOUS
  <2>2. Cardinality(inherited) \in Nat /\
        (Cardinality(inherited) = 0 <=> inherited = {})
    BY <2>1, SlotCount
  <2>3. dups = 0 /\ dups' = dups + Cardinality(inherited)
    BY DEF DosExec
  <2> QED
    BY <2>2, <2>3
<1>2. /\ depth \in 1..MaxDepth /\ NoSft \notin Sfts
      /\ \A s \in Sfts : sft[s].count \in Nat
  BY Shapes
<1>3. \A k \in Slots : jft[depth][k] = NoSft
  BY <1>1
<1>4. \A s \in Sfts : sft[s].count = 0
  BY <1>2, <1>3 DEF SlotsInv, Named
<1>5. jft[depth] = NoSlots
  BY <1>2, <1>3 DEF TypeInv, TypeOK, NoSlots
<1>6. depth' = depth + 1 /\ depth < MaxDepth /\ depth' \in 1..MaxDepth
  BY <1>2, SftAssumption DEF DosExec
<1>7. \A p \in 1..MaxDepth : jft[p] = NoSlots /\ jft'[p] = NoSlots
  BY <1>5 DEF SlotsInv, Rows, DosExec, TypeInv, TypeOK
<1>8. \A s \in Sfts : sft'[s].count = 0
  <2> SUFFICES ASSUME NEW s \in Sfts PROVE sft'[s].count = 0
    OBVIOUS
  <2>1. uses(s) = {} /\ Cardinality(uses(s)) = 0
    BY <1>2, <1>3, SlotCount
  <2>2. sft'[s] = [sft[s] EXCEPT !.count = sft[s].count + 0]
    BY <2>1 DEF DosExec
  <2>3. sft[s] \in SFT
    BY DEF TypeInv, TypeOK
  <2> QED
    BY <1>4, <2>2, <2>3 DEF SFT
<1>9. /\ Private'
      /\ \A p \in 1..MaxDepth, k \in Slots : Denoted(p, k)' = NoFile
  BY <1>1, <1>6, <1>7, <1>8, Empty
<1>10. \A p \in 1..MaxDepth, k \in Slots : Denoted(p, k) = NoFile
  BY <1>7 DEF Denoted, NoSlots
<1>11. HT!Exec
  <2> DEFINE open == [p \in 1..MaxDepth |-> [k \in Slots |-> Denoted(p, k)]]
             new == [p \in 1..MaxDepth |-> [k \in Slots |-> Denoted(p, k)']]
  <2>1. new = [open EXCEPT ![depth + 1] = open[depth]]
    BY <1>2, <1>6, <1>9, <1>10
  <2> QED
    BY <1>6, <2>1 DEF HT!Exec
<1> QED
  BY <1>9, <1>11 DEF Maps, HT!Next

\* A process is gone when DOS has walked over all its slots.
LEMMA ExitStep ==
    ASSUME TypeInv, Private, DosExitDone
    PROVE  Private' /\ Maps
<1> USE DEF Private
<1>1. /\ depth \in 1..MaxDepth /\ NoSft \notin Sfts
      /\ \A s \in Sfts : sft[s].count \in Nat
      /\ \A k \in Slots : jft[depth][k] \in Sfts \cup {NoSft} /\ k \in Nat
  BY Shapes
<1>2. /\ depth' = depth - 1 /\ depth > 1 /\ depth' \in 1..MaxDepth
      /\ idx >= JftSize /\ idx \in Nat /\ pc = "dosclose"
  BY <1>1, SftAssumption DEF DosExitDone, TypeInv, LoopOK, TypeOK
<1>3. \A k \in Slots : ~Counted(jft[depth][k])
  <2>1. \A k \in Slots : k < idx
    BY <1>1, <1>2, SftAssumption DEF Slots
  <2> QED
    BY <1>2, <2>1 DEF SlotsInv, Walked
<1>4. \A s \in Sfts : sft'[s].count = 0
  BY <1>1, <1>3 DEF SlotsInv, Named, Counted, DosExitDone
<1>5. \A p \in 1..MaxDepth : jft'[p] = NoSlots
  BY DEF SlotsInv, Rows, DosExitDone, TypeInv, TypeOK
<1>6. /\ Private'
      /\ \A p \in 1..MaxDepth, k \in Slots : Denoted(p, k)' = NoFile
  <2>1. dups' = 0
    BY DEF DosExitDone
  <2> QED
    BY <1>2, <1>4, <1>5, <2>1, Empty
<1>7. \A p \in 1..MaxDepth, k \in Slots : Denoted(p, k) = NoFile
  <2> SUFFICES ASSUME NEW p \in 1..MaxDepth, NEW k \in Slots
               PROVE  Denoted(p, k) = NoFile
    OBVIOUS
  <2>1. CASE p = depth
    BY <1>3, <2>1 DEF Denoted, Counted, Live
  <2>2. CASE p # depth
    BY <2>2 DEF SlotsInv, Rows, NoSlots, Denoted
  <2> QED
    BY <2>1, <2>2
<1>8. HT!Exit
  <2> DEFINE open == [p \in 1..MaxDepth |-> [k \in Slots |-> Denoted(p, k)]]
             new == [p \in 1..MaxDepth |-> [k \in Slots |-> Denoted(p, k)']]
  <2>1. new = open
    BY <1>6, <1>7
  <2>2. open[depth] = HT!Closed
    BY <1>1, <1>7 DEF HT!Closed
  <2> QED
    BY <1>2, <2>1, <2>2 DEF HT!Exit
<1> QED
  BY <1>6, <1>8 DEF Maps, HT!Next

\* An ending process's slot that is not open is passed over.
LEMMA PassStep ==
    ASSUME TypeInv, Private, pc = "dosclose", ~Counted(jft[depth][idx]),
           sft' = sft, hostOpen' = hostOpen, jft' = jft, depth' = depth,
           pc' = pc, idx' = idx + 1, dups' = dups
    PROVE  Private' /\ Maps
<1> USE DEF Private
<1>1. \A s \in Sfts : Live(s)' <=> Live(s)
  BY DEF Live
<1>2. Rows' /\ Single' /\ Unique' /\ Backed' /\ Named'
  BY DEF SlotsInv, Rows, Single, Unique, Backed, Named, Counted
<1>3. Walked'
  <2> SUFFICES ASSUME NEW k \in Slots, k < idx'
               PROVE  ~Counted(jft[depth][k])
    BY DEF Walked, Counted
  <2>1. k = idx \/ k < idx
    BY Shapes DEF TypeInv, TypeOK
  <2> QED
    BY <2>1 DEF SlotsInv, Walked
<1>4. Apart' /\ Reached'
  BY <1>1, ApartKept DEF Reached
<1>5. Maps
  BY <1>1, QuietMaps
<1> QED
  BY <1>2, <1>3, <1>4, <1>5 DEF SlotsInv

LEMMA InitPrivate == Init => Private
<1> SUFFICES ASSUME Init PROVE Private
  OBVIOUS
<1>1. /\ \A s \in Sfts : sft[s].count = 0 /\ ~Live(s)
      /\ \A p \in 1..MaxDepth : jft[p] = NoSlots
      /\ \A k \in Slots : jft[depth][k] = NoSft
      /\ depth \in 1..MaxDepth
  BY SftAssumption DEF Init, Unused, Live, NoSlots
<1>2. SlotsInv
  BY <1>1 DEF SlotsInv, Rows, Single, Unique, Backed, Named, Walked, Counted
<1>3. Apart /\ Reached
  BY <1>1 DEF Apart, Reached
<1> QED
  BY <1>2, <1>3 DEF Private, Init

LEMMA NextPrivate ==
    ASSUME TypeInv, Private, dups' = 0, [Next]_vars
    PROVE  Private' /\ Maps
<1>1. ASSUME NEW i \in Slots, NEW s \in Sfts, DosLocalOpen(i, s)
      PROVE  Private' /\ Maps
  BY <1>1, LocalOpenStep
<1>2. ASSUME NEW i \in Slots, NEW s \in Sfts, NEW f \in Files,
             OpenFile(i, s, f) \/ CreateFile(i, s, f) \/ SpecialOpen(i, s, f)
      PROVE  Private' /\ Maps
  BY <1>2, OpenStep DEF OpenFile, CreateFile, SpecialOpen
<1>3. ASSUME NEW i \in Slots, WriteFile(i)
      PROVE  Private' /\ Maps
  <2>1. PICK s \in Sfts : s = jft[depth][i]
    BY <1>3 DEF WriteFile, Opened, Counted, TypeInv, TypeOK
  <2>2. sft' = [sft EXCEPT ![s].clean = FALSE, ![s].fdate = FALSE,
                           ![s].last = "write"]
    BY <1>3, <2>1 DEF WriteFile
  <2>3. \A t \in Sfts : /\ sft'[t].count = sft[t].count
                        /\ sft'[t].ours = sft[t].ours
                        /\ sft'[t].handle = sft[t].handle
    BY <2>2 DEF TypeInv, TypeOK, SFT
  <2> QED
    BY <1>3, <2>3, QuietStep DEF WriteFile, Opened
<1>4. ASSUME NEW i \in Slots, DosSetDate(i)
      PROVE  Private' /\ Maps
  <2>1. PICK s \in Sfts : s = jft[depth][i]
    BY <1>4 DEF DosSetDate, Opened, Counted, TypeInv, TypeOK
  <2>2. PICK c \in {sft[s].clean, FALSE} :
          sft' = [sft EXCEPT ![s].clean = c, ![s].fdate = TRUE,
                             ![s].time = "set", ![s].last = "set"]
    BY <1>4, <2>1 DEF DosSetDate
  <2>3. \A t \in Sfts : /\ sft'[t].count = sft[t].count
                        /\ sft'[t].ours = sft[t].ours
                        /\ sft'[t].handle = sft[t].handle
    BY <2>2 DEF TypeInv, TypeOK, SFT
  <2> QED
    BY <1>4, <2>3, QuietStep DEF DosSetDate, Opened
<1>5. ASSUME NEW i \in Slots, CloseFile(i)
      PROVE  Private' /\ Maps
  <2>1. PICK s \in Sfts : s = jft[depth][i]
    BY <1>5 DEF CloseFile, Opened, Counted, TypeInv, TypeOK
  <2> QED
    BY <1>5, <2>1, CloseStep DEF CloseFile, Opened, Counted
<1>6. ASSUME NEW i \in Slots, DosLocalClose(i)
      PROVE  Private' /\ Maps
  <2>1. PICK s \in Sfts : s = jft[depth][i]
    BY <1>6 DEF DosLocalClose, Opened, Counted, TypeInv, TypeOK
  <2> QED
    BY <1>6, <2>1, LocalCloseStep DEF DosLocalClose, Opened, Counted
<1>7. ASSUME NEW i \in Slots, NEW j \in Slots, DosDup(i, j)
      PROVE  Private' /\ Maps
  BY <1>7 DEF DosDup, TypeInv, TypeOK
<1>8. ASSUME NEW f \in Files, DosPathCall(f)
      PROVE  Private' /\ Maps
  BY <1>8, QuietStep DEF DosPathCall
<1>9. CASE DosExit
  BY <1>9, QuietStep DEF DosExit
<1>10. CASE CloseAllStep
  <2>1. idx \in Slots
    BY <1>10, SftAssumption
    DEF CloseAllStep, TypeInv, TypeOK, LoopOK, Slots
  <2>2. CASE Counted(jft[depth][idx])
    <3>1. PICK s \in Sfts : s = jft[depth][idx]
      BY <2>1, <2>2 DEF Counted, TypeInv, TypeOK
    <3> QED
      BY <1>10, <2>1, <2>2, <3>1, CloseStep DEF CloseAllStep, Counted
  <2>3. CASE ~Counted(jft[depth][idx])
    BY <1>10, <2>3, QuietStep DEF CloseAllStep
  <2> QED
    BY <2>2, <2>3
<1>11. CASE CloseAllDone
  BY <1>11, QuietStep DEF CloseAllDone
<1>12. CASE DosCloseStep
  <2>1. idx \in Slots
    BY <1>12, SftAssumption
    DEF DosCloseStep, TypeInv, TypeOK, LoopOK, Slots
  <2>2. CASE Counted(jft[depth][idx])
    <3>1. PICK s \in Sfts : s = jft[depth][idx]
      BY <2>1, <2>2 DEF Counted, TypeInv, TypeOK
    <3>2. CASE sft[s].ours
      BY <1>12, <2>1, <2>2, <3>1, <3>2, CloseStep DEF DosCloseStep, Counted
    <3>3. CASE ~sft[s].ours
      BY <1>12, <2>1, <2>2, <3>1, <3>3, LocalCloseStep
      DEF DosCloseStep, Counted
    <3> QED
      BY <3>2, <3>3
  <2>3. CASE ~Counted(jft[depth][idx])
    BY <1>12, <2>3, PassStep DEF DosCloseStep
  <2> QED
    BY <2>2, <2>3
<1>13. CASE UNCHANGED vars
  <2>1. Private'
    BY <1>13 DEF vars, Private, SlotsInv, Rows, Single, Unique, Backed, Named,
                 Walked, Counted, Apart, Reached, Live
  <2>2. Maps
    BY <1>13, QuietMaps DEF vars, Live
  <2> QED
    BY <2>1, <2>2
<1> QED
  BY <1>1, <1>2, <1>3, <1>4, <1>5, <1>6, <1>7, <1>8, <1>9, <1>10, <1>11,
     <1>12, <1>13, ExecStep, ExitStep DEF Next

\* Up to the first handle that is duplicated or inherited, each program has the
\* handle table that HandleTable promises: a handle denotes the file it was
\* opened on until the program closes it or ends, though RPCs fail, the host
\* reuses the numbers of closed handles, SFT entries are reused, other drives
\* have files open, and CloseAll closes entries of any drive (redir.c:
\* OpenOrCreateFile, _CloseFile, CloseFile, CloseAll).  With a duplicated
\* handle the code does not keep this promise: see run SftDup.
THEOREM KeepsHandles == Spec => HandlesDenoteFiles
<1>1. Init => HT!Init
  BY SftAssumption DEF Init, HT!Init, HT!Closed, Denoted, NoSlots
<1>2. Init => (dups = 0 => Private)
  BY InitPrivate
<1>3. TypeInv /\ (dups = 0 => Private) /\ [Next]_vars =>
        (dups = 0 => Private)' /\ [dups' = 0 => [HT!Next]_(HT!vars)]_vars
  BY NextPrivate, Monotone DEF Maps
<1> QED
  BY <1>1, <1>2, <1>3, Typing, PTL DEF Spec, HandlesDenoteFiles
=============================================================================
