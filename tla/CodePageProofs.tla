---------------------------- MODULE CodePageProofs ----------------------------
(***************************************************************************)
(* Installing, uninstalling and the code page driver: no two copies have   *)
(* drives that a scan comes to, a drive that it comes to belongs to a copy *)
(* in memory, and the driver writes to no other place, for any number of   *)
(* copies, drives, other programs, failures and interruptions.             *)
(***************************************************************************)
EXTENDS CodePage, FiniteSetTheorems, WellFoundedInduction, TLAPS

-----------------------------------------------------------------------------
(* The scan.                                                               *)

\* A set of numbers has a least one.
LEMMA LeastExists ==
    ASSUME NEW S \in SUBSET Nat, S # {}
    PROVE  \E d \in S : \A e \in S : d <= e
<1>1. PICK x \in S : \A y \in S : ~(<<y, x>> \in OpToRel(<, Nat))
  BY NatLessThanWellFounded, WFMin, Zenon
<1>2. ASSUME NEW y \in S PROVE x <= y
  <2>1. <<y, x>> \in Nat \X Nat /\ ~(<<y, x>> \in OpToRel(<, Nat))
    BY <1>1
  <2>2. ~(y < x)
    BY <2>1, Zenon DEF OpToRel
  <2> QED
    BY <2>2
<1> QED
  BY <1>2

\* What the scan finds is the copy of a drive that it comes to.
LEMMA FoundServes ==
    ASSUME Ours # {}
    PROVE  \E d \in Ours : Found = cds[d].sig
<1>1. Ours \in SUBSET Nat
  BY InstallAssumption DEF Ours, Drives
<1>2. \E d \in Ours : \A e \in Ours : d <= e
  BY <1>1, LeastExists
<1> QED
  BY <1>2 DEF Found

-----------------------------------------------------------------------------
(* Types.                                                                  *)

LEMMA AfterIs ==
    /\ After["un1c"] = "un2f" /\ After["un2f"] = "uncds"
    /\ After["uncds"] = "closerpci" /\ After["closerpci"] = "closetclo"
    /\ After["closetclo"] = "free"
  BY DEF After

\* TypeOK variable by variable.
Chains == [Vectors -> Programs \cup {Dos}]
Entries == [used : BOOLEAN, sig : Copies \cup {NoCopy}]
Runs == [copy : Copies \cup {NoCopy}, step : Steps,
         target : Copies \cup {NoCopy}, drive : Drives \cup {AnyDrive}]

VecOK == vec \in Chains
PrevOK == prev \in [Programs -> Chains]
HooksOK == hooks \in [Others -> SUBSET Vectors]
LoadedOK == loaded \subseteq Programs
CdsOK == cds \in [Drives -> Entries]
OpenOK == open \in [Copies -> SUBSET Kinds]
RunOK == run \in Runs
CountsOK == left \in Nat /\ fails \in 0..MaxFail /\ breaks \in 0..MaxBreak

LEMMA TypeParts ==
    TypeOK <=> /\ VecOK /\ PrevOK /\ HooksOK /\ LoadedOK /\ CdsOK /\ OpenOK
               /\ RunOK /\ torn \in BOOLEAN /\ CountsOK
<1> USE DEF TypeOK, Chains, Entries, Runs, VecOK, PrevOK, HooksOK, LoadedOK,
            CdsOK, OpenOK, RunOK, CountsOK
<1>1. ASSUME TypeOK
      PROVE  /\ VecOK /\ PrevOK /\ HooksOK /\ LoadedOK /\ CdsOK /\ OpenOK
             /\ RunOK /\ torn \in BOOLEAN /\ CountsOK
  BY <1>1, Zenon
<1>2. ASSUME VecOK, PrevOK, HooksOK, LoadedOK, CdsOK, OpenOK, RunOK,
             torn \in BOOLEAN, CountsOK
      PROVE  TypeOK
  BY <1>2, Zenon
<1> QED
  BY <1>1, <1>2, Zenon

\* A run ends, or goes to another step.
LEMMA Goes ==
    ASSUME RunOK
    PROVE  /\ Nobody \in Runs
           /\ \A step \in Steps : [run EXCEPT !.step = step] \in Runs
<1>1. Nobody \in Runs
  BY DEF Runs, Nobody, Steps
<1>2. ASSUME NEW step \in Steps PROVE [run EXCEPT !.step = step] \in Runs
  BY DEF RunOK, Runs
<1> QED
  BY <1>1, <1>2

\* What a program keeps can be forgotten.
LEMMA Forgets ==
    ASSUME PrevOK, NEW p
    PROVE  Forgotten(p) \in [Programs -> Chains]
  BY DEF PrevOK, Forgotten, Chains

\* What the scan finds, when there is a drive that it comes to.
LEMMA FoundCopy ==
    ASSUME CdsOK, Ours # {}
    PROVE  Found \in Copies /\ Found # NoCopy
<1>1. PICK d \in Ours : Found = cds[d].sig
  BY FoundServes
<1>2. d \in Drives /\ cds[d].sig # NoCopy
  BY DEF Ours
<1>3. cds[d] \in Entries
  BY <1>2 DEF CdsOK
<1>4. cds[d].sig \in Copies \cup {NoCopy}
  BY <1>3, Zenon DEF Entries
<1>5. cds[d].sig \in Copies
  BY <1>2, <1>4, Zenon
<1> QED
  BY <1>1, <1>2, <1>5, Zenon

\* Channels counted.
LEMMA OpenCount ==
    ASSUME OpenOK, NEW c \in Copies
    PROVE  Cardinality(open[c]) \in Nat
<1>1. IsFiniteSet({"rpci"}) /\ {"rpci"} \cup {"tclo"} = Kinds
  BY FS_Singleton DEF Kinds
<1>2. IsFiniteSet(Kinds)
  BY <1>1, FS_AddElement
<1>3. open[c] \in SUBSET Kinds
  BY DEF OpenOK
<1> QED
  BY <1>2, <1>3, FS_Subset, FS_CardinalityType

LEMMA StartTypes ==
    ASSUME VecOK, PrevOK, OpenOK, RunOK, CountsOK,
           NEW c \in Copies, NEW d \in Drives \cup {AnyDrive},
           StartInstall(c, d)
    PROVE  PrevOK' /\ OpenOK' /\ RunOK' /\ CountsOK'
<1>1. PrevOK'
  <2>1. prev' = prev \/ prev' = [prev EXCEPT ![c] = vec]
    BY DEF StartInstall, Saved
  <2> QED
    BY <2>1 DEF PrevOK, VecOK
<1>2. OpenOK'
  <2>1. open' = [open EXCEPT ![c] = {}]
    BY DEF StartInstall
  <2> QED
    BY <2>1 DEF OpenOK
<1>3. RunOK'
  <2>1. \/ run' = run
        \/ run' = [copy |-> c, step |-> "rpci", target |-> c, drive |-> d]
    BY DEF StartInstall
  <2> QED
    BY <2>1 DEF RunOK, Runs, Steps
<1>4. CountsOK'
  <2>1. left' = left + Cardinality(open[c]) /\ UNCHANGED <<fails, breaks>>
    BY DEF StartInstall
  <2> QED
    BY <2>1, OpenCount DEF CountsOK
<1> QED
  BY <1>1, <1>2, <1>3, <1>4

\* A step that changes a vector.
LEMMA VecSet ==
    ASSUME VecOK, NEW v \in Vectors, NEW h \in Programs \cup {Dos},
           vec' = [vec EXCEPT ![v] = h]
    PROVE  VecOK'
  BY DEF VecOK, Chains

\* A channel that fails to open or close.
LEMMA FailsCounted ==
    ASSUME CountsOK, UNCHANGED <<left, breaks>>, Fails \/ UNCHANGED fails
    PROVE  CountsOK'
  BY InstallAssumption DEF CountsOK, Fails

\* A copy that is running works on one: without it the previous handlers
\* that Unhook takes would be nobody's.
HasTarget == run.copy # NoCopy => run.target \in Copies

LEMMA InstallTypes ==
    ASSUME TypeOK, HasTarget, Next \/ Refuse
    PROVE  TypeOK'
<1> DEFINE Parts == /\ VecOK /\ PrevOK /\ HooksOK /\ LoadedOK /\ CdsOK
                    /\ OpenOK /\ RunOK /\ CountsOK
<1>0. Parts /\ torn \in BOOLEAN
  BY TypeParts, Zenon
<1> SUFFICES Parts' /\ torn' \in BOOLEAN
  BY Zenon DEF TypeOK, Chains, Entries, Runs, VecOK, PrevOK, HooksOK, LoadedOK,
               CdsOK, OpenOK, RunOK, CountsOK
<1>1. ASSUME NEW c \in Copies, NEW d \in Drives \cup {AnyDrive},
             StartInstall(c, d)
      PROVE  Parts' /\ torn' \in BOOLEAN
  <2>1. UNCHANGED <<vec, hooks, loaded, cds, torn>>
    BY <1>1 DEF StartInstall
  <2> QED
    BY <1>0, <1>1, <2>1, StartTypes DEF VecOK, HooksOK, LoadedOK, CdsOK
<1>2. ASSUME NEW c \in Copies, StartUninstall(c)
      PROVE  Parts' /\ torn' \in BOOLEAN
  <2>1. run' = [copy |-> c, step |-> "un1c", target |-> Found,
                drive |-> AnyDrive]
    BY <1>2 DEF StartUninstall
  <2>2. Found \in Copies
    BY <1>0, <1>2, FoundCopy DEF StartUninstall
  <2>3. RunOK'
    BY <2>1, <2>2 DEF RunOK, Runs, Steps
  <2> QED
    BY <1>0, <1>2, <2>3 DEF StartUninstall, VecOK, PrevOK, HooksOK, LoadedOK,
                            CdsOK, OpenOK, CountsOK
<1>3. ASSUME BeginSession
      PROVE  Parts' /\ torn' \in BOOLEAN
  <2>1. PICK k \in Kinds, next \in Steps : OpenChannel(k, next)
    BY <1>3 DEF BeginSession, Kinds, Steps
  <2>2. UNCHANGED <<vec, hooks, loaded, cds, torn, left, breaks>>
    BY <2>1 DEF OpenChannel
  <2>3. CountsOK'
    BY <1>0, <2>1, <2>2, FailsCounted DEF OpenChannel
  <2>4. OpenOK'
    <3>1. \/ open' = open
          \/ open' = [open EXCEPT ![run.copy] = open[run.copy] \cup {k}]
      BY <2>1 DEF OpenChannel
    <3>2. run.copy \in Copies
      BY <1>0, <2>1 DEF OpenChannel, At, RunOK, Runs
    <3> QED
      BY <1>0, <3>1, <3>2 DEF OpenOK
  <2>5. PrevOK' /\ RunOK'
    BY <1>0, <2>1, Goes, Forgets DEF OpenChannel, GoTo, Exit, PrevOK, RunOK
  <2> QED
    BY <1>0, <2>2, <2>3, <2>4, <2>5 DEF VecOK, HooksOK, LoadedOK, CdsOK
<1>4. ASSUME SetCDS
      PROVE  Parts' /\ torn' \in BOOLEAN
  <2>1. UNCHANGED <<vec, prev, hooks, loaded, open, torn, left, fails, breaks>>
    BY <1>4 DEF SetCDS
  <2>2. RunOK'
    BY <1>0, <1>4, Goes DEF SetCDS, NoDrive, GoTo, RunOK, Steps
  <2>3. CdsOK'
    <3>1. \/ cds' = cds
          \/ \E d \in Candidates :
               cds' = [cds EXCEPT ![d] = [used |-> TRUE, sig |-> run.copy]]
      BY <1>4 DEF SetCDS
    <3>2. [used |-> TRUE, sig |-> run.copy] \in Entries
      BY <1>0, Zenon DEF Entries, RunOK, Runs
    <3> QED
      BY <1>0, <3>1, <3>2 DEF CdsOK
  <2> QED
    BY <1>0, <2>1, <2>2, <2>3 DEF VecOK, PrevOK, HooksOK, LoadedOK, OpenOK,
                                  CountsOK
<1>5. ASSUME SetHandlers
      PROVE  Parts' /\ torn' \in BOOLEAN
  <2>1. PICK v \in Vectors, step \in Steps, next \in Steps :
            Hook(v, step, next)
    BY <1>5 DEF SetHandlers, Vectors, Steps
  <2>2. UNCHANGED <<prev, hooks, loaded, cds, open, torn, left, fails, breaks>>
    BY <2>1 DEF Hook
  <2>3. run.copy \in Programs /\ RunOK'
    BY <1>0, <2>1, Goes DEF Hook, At, GoTo, RunOK, Runs, Programs
  <2>4. VecOK'
    BY <1>0, <2>1, <2>3, VecSet DEF Hook
  <2> QED
    BY <1>0, <2>2, <2>3, <2>4 DEF PrevOK, HooksOK, LoadedOK, CdsOK, OpenOK,
                                  CountsOK
<1>6. ASSUME Keep
      PROVE  Parts' /\ torn' \in BOOLEAN
  <2>1. RunOK' /\ run.copy \in Programs
    BY <1>0, <1>6, Goes DEF Keep, At, Exit, RunOK, Runs, Programs
  <2> QED
    BY <1>0, <1>6, <2>1 DEF Keep, VecOK, PrevOK, HooksOK, LoadedOK, CdsOK,
                            OpenOK, CountsOK
<1>7. ASSUME UninstallDriver
      PROVE  Parts' /\ torn' \in BOOLEAN
  <2>1. PICK v \in Vectors, step \in {"un1c", "un2f"} : Unhook(v, step)
    BY <1>7 DEF UninstallDriver, Vectors
  <2>2. UNCHANGED <<prev, hooks, loaded, cds, open, torn, left, fails, breaks>>
    BY <2>1 DEF Unhook
  <2>3. RunOK'
    BY <1>0, <2>1, AfterIs, Goes DEF Unhook, GoTo, RunOK, Steps
  <2>4. VecOK'
    <3>1. vec' = [vec EXCEPT ![v] = Unhooked(v)]
      BY <2>1 DEF Unhook
    <3>2. run.target \in Programs
      BY <2>1 DEF Unhook, At, HasTarget, Programs
    <3>3. Unhooked(v) \in Programs \cup {Dos}
      BY <1>0, <3>2 DEF Unhooked, PrevOK, Chains
    <3> QED
      BY <1>0, <3>1, <3>3, VecSet
  <2> QED
    BY <1>0, <2>2, <2>3, <2>4 DEF PrevOK, HooksOK, LoadedOK, CdsOK, OpenOK,
                                  CountsOK
<1>8. ASSUME ClearCDS
      PROVE  Parts' /\ torn' \in BOOLEAN
  <2>1. UNCHANGED <<vec, prev, hooks, loaded, open, torn, left, fails, breaks>>
    BY <1>8 DEF ClearCDS
  <2>2. RunOK'
    BY <1>0, <1>8, AfterIs, Goes DEF ClearCDS, GoTo, RunOK, Steps
  <2>3. CdsOK'
    <3>1. [used |-> FALSE, sig |-> NoCopy] \in Entries
      BY Zenon DEF Entries
    <3>2. cds' = [d \in Drives |->
                    IF cds[d].sig = run.target /\ d >= FirstAuto
                    THEN [used |-> FALSE, sig |-> NoCopy] ELSE cds[d]]
      BY <1>8 DEF ClearCDS, Cleared
    <3> QED
      BY <1>0, <3>1, <3>2 DEF CdsOK
  <2> QED
    BY <1>0, <2>1, <2>2, <2>3 DEF VecOK, PrevOK, HooksOK, LoadedOK, OpenOK,
                                  CountsOK
<1>9. ASSUME EndSession
      PROVE  Parts' /\ torn' \in BOOLEAN
  <2>1. PICK k \in Kinds, step \in {"closerpci", "closetclo"} :
            CloseChannel(k, step)
    BY <1>9 DEF EndSession, Kinds
  <2>2. UNCHANGED <<vec, hooks, loaded, cds, torn, left, breaks>>
    BY <2>1 DEF CloseChannel
  <2>3. CountsOK'
    BY <1>0, <2>1, <2>2, FailsCounted DEF CloseChannel
  <2>4. OpenOK'
    <3>1. \/ open' = open
          \/ open' = [open EXCEPT ![run.target] = open[run.target] \ {k}]
      BY <2>1 DEF CloseChannel
    <3> QED
      BY <1>0, <3>1 DEF OpenOK
  <2>5. PrevOK' /\ RunOK'
    BY <1>0, <1>9, AfterIs, Goes, Forgets
       DEF EndSession, GoTo, Exit, PrevOK, RunOK, Steps
  <2> QED
    BY <1>0, <2>2, <2>3, <2>4, <2>5 DEF VecOK, HooksOK, LoadedOK, CdsOK
<1>10. ASSUME Free
       PROVE  Parts' /\ torn' \in BOOLEAN
  <2>1. PrevOK' /\ RunOK'
    BY <1>0, <1>10, Goes, Forgets DEF Free, Exit, PrevOK, RunOK
  <2> QED
    BY <1>0, <1>10, <2>1 DEF Free, VecOK, HooksOK, LoadedOK, CdsOK, OpenOK,
                             CountsOK
<1>11. ASSUME Break
       PROVE  Parts' /\ torn' \in BOOLEAN
  <2>1. PrevOK' /\ RunOK'
    BY <1>0, <1>11, Goes, Forgets DEF Break, Exit, PrevOK, RunOK
  <2>2. CountsOK'
    BY <1>0, <1>11, InstallAssumption DEF Break, CountsOK
  <2>3. torn' \in BOOLEAN
    BY <1>11, Zenon DEF Break, At
  <2> QED
    BY <1>0, <1>11, <2>1, <2>2, <2>3 DEF Break, VecOK, HooksOK, LoadedOK,
                                         CdsOK, OpenOK
<1>12. ASSUME Down
       PROVE  Parts' /\ torn' \in BOOLEAN
  BY <1>0, <1>12 DEF Down, vars, VecOK, PrevOK, HooksOK, LoadedOK, CdsOK,
                     OpenOK, RunOK, CountsOK
<1>13. ASSUME NEW o \in Others, OtherLeaves(o)
       PROVE  Parts' /\ torn' \in BOOLEAN
  <2>1. UNCHANGED <<cds, open, run, torn, left, fails, breaks>>
    BY <1>13 DEF OtherLeaves
  <2>2. PrevOK' /\ HooksOK' /\ LoadedOK'
    BY <1>0, <1>13, Forgets DEF OtherLeaves, PrevOK, HooksOK, LoadedOK
  <2>3. VecOK'
    <3>1. prev[o] \in Chains
      BY <1>0 DEF PrevOK, Programs
    <3>2. vec' = [v \in Vectors |-> IF v \in hooks[o] THEN prev[o][v]
                                    ELSE vec[v]]
      BY <1>13 DEF OtherLeaves
    <3> QED
      BY <1>0, <3>1, <3>2 DEF VecOK, Chains
  <2> QED
    BY <1>0, <2>1, <2>2, <2>3 DEF CdsOK, OpenOK, RunOK, CountsOK
<1>14. ASSUME NEW o \in Others, NEW vs \in SUBSET Vectors, OtherLoads(o, vs)
       PROVE  Parts' /\ torn' \in BOOLEAN
  <2>1. UNCHANGED <<cds, open, run, torn, left, fails, breaks>>
    BY <1>14 DEF OtherLoads
  <2>2. PrevOK' /\ HooksOK' /\ LoadedOK'
    BY <1>0, <1>14 DEF OtherLoads, PrevOK, HooksOK, LoadedOK, VecOK, Programs
  <2>3. VecOK'
    BY <1>0, <1>14 DEF OtherLoads, VecOK, Chains, Programs
  <2> QED
    BY <1>0, <2>1, <2>2, <2>3 DEF CdsOK, OpenOK, RunOK, CountsOK
<1>15. ASSUME NEW d \in Drives, OtherDrive(d)
       PROVE  Parts' /\ torn' \in BOOLEAN
  <2>1. UNCHANGED <<vec, prev, hooks, loaded, open, run, torn, left, fails,
                    breaks>>
    BY <1>15 DEF OtherDrive
  <2>2. CdsOK'
    <3>1. cds[d] \in Entries
      BY <1>0 DEF CdsOK
    <3>2. [cds[d] EXCEPT !.used = ~cds[d].used] \in Entries
      BY <3>1, Zenon DEF Entries
    <3>3. cds' = [cds EXCEPT ![d] = [cds[d] EXCEPT !.used = ~cds[d].used]]
      BY <1>15 DEF OtherDrive
    <3> QED
      BY <1>0, <3>2, <3>3 DEF CdsOK
  <2> QED
    BY <1>0, <2>1, <2>2 DEF VecOK, PrevOK, HooksOK, LoadedOK, OpenOK, RunOK,
                            CountsOK
<1>16. ASSUME Refuse
       PROVE  Parts' /\ torn' \in BOOLEAN
  <2>1. PrevOK' /\ RunOK'
    BY <1>0, <1>16, Goes, Forgets DEF Refuse, Exit, PrevOK, RunOK
  <2> QED
    BY <1>0, <1>16, <2>1 DEF Refuse, VecOK, HooksOK, LoadedOK, CdsOK, OpenOK,
                             CountsOK
<1> HIDE DEF Parts
<1> QED
  BY <1>1, <1>2, <1>3, <1>4, <1>5, <1>6, <1>7, <1>8, <1>9, <1>10, <1>11,
     <1>12, <1>13, <1>14, <1>15, <1>16 DEF Next, Starts, Proceeds

-----------------------------------------------------------------------------
(* The scan and what it finds.                                             *)

Installing == {"rpci", "tclo", "cds", "hook2f", "hook1c", "keep"}

\* Until it has a drive, a copy that is being installed is the only one.
Alone ==
    run.copy # NoCopy /\ run.step \in {"rpci", "tclo", "cds"} => Ours = {}

\* What is installed is what runs.
OwnTarget == run.step \in Installing => run.target = run.copy

\* A drive that the scan comes to belongs to a copy in memory.
Served == ~torn => \A d \in Ours : cds[d].sig \in loaded \cup {run.target}

\* When channels are closed and memory is freed, the drives are gone.
Released ==
    run.copy # NoCopy /\ run.step \in {"closerpci", "closetclo", "free"} =>
        \A d \in Ours : cds[d].sig # run.target

\* After an interruption with the handlers in place nothing runs any more.
TornStops == torn => run = Nobody

ScanInv ==
    /\ HasTarget /\ Alone /\ OwnTarget /\ Served /\ Released /\ TornStops
    /\ OneCopyScanned

LEMMA OneCopy ==
    OneCopyScanned <=> \A d, e \in Ours : cds[d].sig = cds[e].sig
<1>1. Ours = {d \in Drives \cap FirstAuto..LastDrive : cds[d].sig # NoCopy}
  BY InstallAssumption DEF Ours, Drives
<1> QED
  BY <1>1 DEF OneCopyScanned

\* Nothing of this is about the signatures of drives that stay as they are.
LEMMA SameScan ==
    ASSUME CdsOK, CdsOK',
           \A d \in Drives : cds'[d].sig = cds[d].sig
    PROVE  /\ Ours' = Ours
           /\ \A d \in Ours : cds'[d].sig = cds[d].sig
           /\ OneCopyScanned => OneCopyScanned'
  BY DEF Ours, OneCopyScanned

LEMMA ScanInit == Init => ScanInv
<1> SUFFICES ASSUME Init PROVE ScanInv
  OBVIOUS
<1>1. \A d \in Drives : cds[d].sig = NoCopy
  BY Zenon DEF Init
<1>2. Ours = {}
  BY <1>1 DEF Ours
<1>3. run.copy = NoCopy /\ run.target = NoCopy /\ ~torn
  BY DEF Init, Nobody
<1> QED
  BY <1>1, <1>2, <1>3, OneCopy
     DEF ScanInv, HasTarget, Alone, OwnTarget, Served, Released, TornStops

LEMMA ScanStep ==
    ASSUME TypeOK, TypeOK', ScanInv, Next \/ Refuse
    PROVE  ScanInv'
<1>0. /\ CdsOK /\ CdsOK' /\ RunOK
  BY TypeParts, Zenon DEF TypeOK, CdsOK, Entries
<1> USE DEF ScanInv
<1>1. ASSUME NEW c \in Copies, NEW d \in Drives \cup {AnyDrive},
             StartInstall(c, d)
      PROVE  ScanInv'
  <2>1. UNCHANGED <<cds, loaded, torn>> /\ run = Nobody /\ ~torn
    BY <1>1 DEF StartInstall, Idle
  <2>2. Ours' = Ours /\ OneCopyScanned'
    BY <1>0, <2>1, SameScan
  <2>3. CASE run' = run
    BY <2>1, <2>2, <2>3
       DEF HasTarget, Alone, OwnTarget, Served, Released, TornStops
  <2>4. CASE /\ Ours = {}
             /\ run' = [copy |-> c, step |-> "rpci", target |-> c,
                        drive |-> d]
    BY <2>1, <2>2, <2>4
       DEF HasTarget, Alone, OwnTarget, Served, Released, TornStops
  <2> QED
    BY <1>1, <2>3, <2>4 DEF StartInstall
<1>2. ASSUME NEW c \in Copies, StartUninstall(c)
      PROVE  ScanInv'
  <2>1. UNCHANGED <<cds, loaded, torn>> /\ run = Nobody /\ ~torn
    BY <1>2 DEF StartUninstall, Idle
  <2>2. Ours' = Ours /\ OneCopyScanned' /\ Found \in Copies
    BY <1>0, <1>2, <2>1, SameScan, FoundCopy DEF StartUninstall
  <2>3. run' = [copy |-> c, step |-> "un1c", target |-> Found,
                drive |-> AnyDrive]
    BY <1>2 DEF StartUninstall
  <2>4. \A d \in Ours : cds[d].sig # NoCopy
    BY DEF Ours
  <2>5. Served'
    BY <2>1, <2>2, <2>3, <2>4 DEF Served, Nobody
  <2> QED
    BY <2>1, <2>2, <2>3, <2>5
       DEF HasTarget, Alone, OwnTarget, Released, TornStops, Installing
<1>3. ASSUME BeginSession
      PROVE  ScanInv'
  <2>1. UNCHANGED <<cds, loaded, torn>> /\ run.copy # NoCopy
    BY <1>3 DEF BeginSession, OpenChannel, At
  <2>2. Ours' = Ours /\ OneCopyScanned' /\ ~torn /\ Ours = {}
    BY <1>0, <1>3, <2>1, SameScan
       DEF TornStops, Nobody, Alone, BeginSession, OpenChannel, At
  <2>3. \/ run' = Nobody
        \/ run.step = "rpci" /\ run' = [run EXCEPT !.step = "tclo"]
        \/ run.step = "tclo" /\ run' = [run EXCEPT !.step = "cds"]
    BY <1>3 DEF BeginSession, OpenChannel, GoTo, Exit, At
  <2>4. CASE run' = Nobody
    BY <2>1, <2>2, <2>4 DEF HasTarget, Alone, OwnTarget, Served, Released,
                            TornStops, Nobody, Installing
  <2>5. CASE /\ run.step \in {"rpci", "tclo"}
             /\ \/ run' = [run EXCEPT !.step = "tclo"]
                \/ run' = [run EXCEPT !.step = "cds"]
    <3>1. /\ run'.copy = run.copy /\ run'.target = run.target
          /\ run'.step \in {"tclo", "cds"}
      BY <1>0, <2>5 DEF RunOK, Runs
    <3> QED
      BY <2>1, <2>2, <2>5, <3>1 DEF HasTarget, Alone, OwnTarget, Served,
                                Released, TornStops, Installing
  <2> QED
    BY <2>3, <2>4, <2>5
<1>4. ASSUME SetCDS
      PROVE  ScanInv'
  <2>1. /\ UNCHANGED <<loaded, torn>> /\ run.copy # NoCopy /\ ~torn
        /\ Ours = {} /\ run.target = run.copy
    BY <1>4 DEF SetCDS, At, TornStops, Nobody, Alone, OwnTarget, Installing
  <2>2. CASE UNCHANGED cds /\ NoDrive
    <3>1. Ours' = Ours /\ OneCopyScanned'
      BY <1>0, <2>2, SameScan
    <3>2. /\ run'.copy = run.copy /\ run'.target = run.target
          /\ run'.step = "closerpci"
      BY <1>0, <2>2 DEF RunOK, Runs, NoDrive, GoTo
    <3> QED
      BY <2>1, <3>1, <3>2 DEF HasTarget, Alone, OwnTarget, Served, Released,
                              TornStops, Installing
  <2>3. ASSUME NEW d \in Drives, GoTo("hook2f"),
               cds' = [cds EXCEPT ![d] = [used |-> TRUE, sig |-> run.copy]]
        PROVE  ScanInv'
    <3>1. /\ run'.copy = run.copy /\ run'.target = run.target
          /\ run'.step = "hook2f"
      BY <1>0, <2>3 DEF RunOK, Runs, GoTo
    <3>2. \A e \in Ours' : cds'[e].sig = run.copy
      <4>1. ASSUME NEW e \in Ours' PROVE e = d
        BY <1>0, <2>1, <2>3, <4>1 DEF Ours, CdsOK
      <4> QED
        BY <1>0, <2>3, <4>1 DEF CdsOK, Ours
    <3>3. OneCopyScanned'
      <4>1. (Ours')
              = {e \in Drives \cap FirstAuto..LastDrive : cds'[e].sig # NoCopy}
        BY InstallAssumption DEF Ours, Drives
      <4> QED
        BY <3>2, <4>1 DEF OneCopyScanned
    <3> QED
      BY <2>1, <3>1, <3>2, <3>3 DEF HasTarget, Alone, OwnTarget, Served,
                              Released, TornStops, Installing
  <2> QED
    BY <1>4, <2>2, <2>3 DEF SetCDS, Candidates
<1>5. ASSUME SetHandlers
      PROVE  ScanInv'
  <2>1. /\ UNCHANGED <<cds, loaded, torn>> /\ run.copy # NoCopy
        /\ run.step \in {"hook2f", "hook1c"}
    BY <1>5 DEF SetHandlers, Hook, At
  <2>2. Ours' = Ours /\ OneCopyScanned' /\ ~torn
    BY <1>0, <2>1, SameScan DEF TornStops, Nobody
  <2>3. /\ run'.copy = run.copy /\ run'.target = run.target
        /\ run'.step \in {"hook1c", "keep"}
    BY <1>0, <1>5 DEF SetHandlers, Hook, GoTo, RunOK, Runs
  <2> QED
    BY <2>1, <2>2, <2>3 DEF HasTarget, Alone, OwnTarget, Served, Released,
                            TornStops, Installing
<1>6. ASSUME Keep
      PROVE  ScanInv'
  <2>1. /\ UNCHANGED <<cds, torn>> /\ run.copy # NoCopy /\ run' = Nobody
        /\ loaded' = loaded \cup {run.copy} /\ run.target = run.copy
    BY <1>6 DEF Keep, At, Exit, OwnTarget, Installing
  <2>2. Ours' = Ours /\ OneCopyScanned' /\ ~torn
    BY <1>0, <2>1, SameScan DEF TornStops, Nobody
  <2> QED
    BY <2>1, <2>2 DEF HasTarget, Alone, OwnTarget, Served, Released,
                      TornStops, Installing, Nobody
<1>7. ASSUME UninstallDriver
      PROVE  ScanInv'
  <2>1. /\ UNCHANGED <<cds, loaded, torn>> /\ run.copy # NoCopy
        /\ run.step \in {"un1c", "un2f"}
    BY <1>7 DEF UninstallDriver, Unhook, At
  <2>2. Ours' = Ours /\ OneCopyScanned' /\ ~torn
    BY <1>0, <2>1, SameScan DEF TornStops, Nobody
  <2>3. /\ run'.copy = run.copy /\ run'.target = run.target
        /\ run'.step \in {"un2f", "uncds"}
    BY <1>0, <1>7, AfterIs DEF UninstallDriver, Unhook, GoTo, RunOK, Runs
  <2> QED
    BY <2>1, <2>2, <2>3 DEF HasTarget, Alone, OwnTarget, Served, Released,
                            TornStops, Installing
<1>8. ASSUME ClearCDS
      PROVE  ScanInv'
  <2>1. /\ UNCHANGED <<loaded, torn>> /\ run.copy # NoCopy
        /\ run.step = "uncds" /\ ~torn
    BY <1>8 DEF ClearCDS, At, TornStops, Nobody
  <2>2. /\ run'.copy = run.copy /\ run'.target = run.target
        /\ run'.step = "closerpci"
    BY <1>0, <1>8, AfterIs DEF ClearCDS, GoTo, RunOK, Runs
  <2>3. \A d \in Drives :
            \/ cds[d].sig # run.target /\ cds'[d].sig = cds[d].sig
            \/ cds'[d].sig = NoCopy
            \/ d < FirstAuto
    <3>1. ASSUME NEW d \in Drives, d >= FirstAuto
          PROVE  \/ cds[d].sig # run.target /\ cds'[d].sig = cds[d].sig
                 \/ cds'[d].sig = NoCopy
      BY <1>8, <3>1 DEF ClearCDS, Cleared
    <3> QED
      BY <3>1, InstallAssumption DEF Drives
  <2>4. \A d \in Ours' : /\ d \in Ours /\ cds'[d].sig = cds[d].sig
                         /\ cds[d].sig # run.target
    BY <2>3, InstallAssumption DEF Ours, Drives
  <2>5. OneCopyScanned'
    <3>1. \A d, e \in Ours : cds[d].sig = cds[e].sig
      BY OneCopy
    <3>2. \A d, e \in Ours' : cds'[d].sig = cds'[e].sig
      BY <2>4, <3>1
    <3>3. (Ours')
            = {e \in Drives \cap FirstAuto..LastDrive : cds'[e].sig # NoCopy}
      BY InstallAssumption DEF Ours, Drives
    <3> QED
      BY <3>2, <3>3 DEF OneCopyScanned
  <2> QED
    BY <2>1, <2>2, <2>4, <2>5 DEF HasTarget, Alone, OwnTarget, Served,
                              Released, TornStops, Installing
<1>9. ASSUME EndSession
      PROVE  ScanInv'
  <2>1. /\ UNCHANGED <<cds, loaded, torn>> /\ run.copy # NoCopy
        /\ run.step \in {"closerpci", "closetclo"}
    BY <1>9 DEF EndSession, CloseChannel, At
  <2>2. /\ Ours' = Ours /\ OneCopyScanned' /\ ~torn
        /\ \A d \in Ours : cds'[d].sig = cds[d].sig
        /\ \A d \in Ours : cds[d].sig # run.target
    BY <1>0, <2>1, SameScan DEF TornStops, Nobody, Released
  <2>3. CASE run' = Nobody
    BY <2>1, <2>2, <2>3 DEF HasTarget, Alone, OwnTarget, Served, Released,
                            TornStops, Nobody, Installing
  <2>4. CASE \/ run' = [run EXCEPT !.step = "closetclo"]
             \/ run' = [run EXCEPT !.step = "free"]
    <3>1. /\ run'.copy = run.copy /\ run'.target = run.target
          /\ run'.step \in {"closetclo", "free"}
      BY <1>0, <2>4 DEF RunOK, Runs
    <3> QED
      BY <2>1, <2>2, <3>1 DEF HasTarget, Alone, OwnTarget, Served, Released,
                              TornStops, Installing
  <2> QED
    BY <1>9, <2>3, <2>4, AfterIs DEF EndSession, GoTo, Exit
<1>10. ASSUME Free
       PROVE  ScanInv'
  <2>1. /\ UNCHANGED <<cds, torn>> /\ loaded' = loaded \ {run.target}
        /\ run' = Nobody /\ run.copy # NoCopy /\ run.step = "free"
    BY <1>10 DEF Free, At, Exit
  <2>2. /\ Ours' = Ours /\ OneCopyScanned' /\ ~torn
        /\ \A d \in Ours : cds'[d].sig = cds[d].sig
        /\ \A d \in Ours : cds[d].sig # run.target
    BY <1>0, <2>1, SameScan DEF TornStops, Nobody, Released
  <2> QED
    BY <2>1, <2>2 DEF HasTarget, Alone, OwnTarget, Served, Released,
                      TornStops, Nobody, Installing
<1>11. ASSUME Break
       PROVE  ScanInv'
  <2>1. /\ UNCHANGED <<cds, loaded>> /\ torn' = At("keep") /\ run' = Nobody
        /\ run.copy # NoCopy
        /\ run.step \in {"cds", "keep", "free", "closerpci"}
    BY <1>11 DEF Break, At, Exit
  <2>2. /\ Ours' = Ours /\ OneCopyScanned' /\ ~torn
        /\ \A d \in Ours : cds'[d].sig = cds[d].sig
    BY <1>0, <2>1, SameScan DEF TornStops, Nobody
  <2>3. Served'
    <3>1. CASE run.step = "keep"
      BY <2>1, <3>1 DEF At, Served
    <3>2. CASE run.step = "cds"
      BY <2>1, <2>2, <3>2 DEF Alone, Served
    <3>3. CASE run.step \in {"free", "closerpci"}
      BY <2>1, <2>2, <3>3 DEF Released, Served
    <3> QED
      BY <2>1, <3>1, <3>2, <3>3
  <2> QED
    BY <2>1, <2>2, <2>3 DEF HasTarget, Alone, OwnTarget, Released,
                            TornStops, Nobody, Installing
<1>12. ASSUME Down
       PROVE  ScanInv'
  <2>1. UNCHANGED <<cds, loaded, torn, run>>
    BY <1>12 DEF Down, vars
  <2>2. Ours' = Ours /\ OneCopyScanned'
    BY <1>0, <2>1, SameScan
  <2> QED
    BY <2>1, <2>2 DEF HasTarget, Alone, OwnTarget, Served, Released,
                      TornStops, Nobody, Installing
<1>13. ASSUME NEW o \in Others, \/ OtherLeaves(o)
                                \/ \E vs \in SUBSET Vectors : OtherLoads(o, vs)
       PROVE  ScanInv'
  <2>1. /\ UNCHANGED <<cds, torn, run>> /\ run = Nobody
        /\ loaded' \in {loaded \ {o}, loaded \cup {o}}
    BY <1>13 DEF OtherLeaves, OtherLoads, Idle
  <2>2. /\ Ours' = Ours /\ OneCopyScanned'
        /\ \A d \in Ours : cds'[d].sig = cds[d].sig
    BY <1>0, <2>1, SameScan
  <2>3. \A d \in Ours : cds[d].sig \in Copies
    <3>1. ASSUME NEW d \in Ours PROVE cds[d].sig \in Copies
      <4>1. cds[d] \in Entries /\ cds[d].sig # NoCopy
        BY <1>0 DEF CdsOK, Ours
      <4>2. cds[d].sig \in Copies \cup {NoCopy}
        BY <4>1, Zenon DEF Entries
      <4> QED
        BY <4>1, <4>2
    <3> QED
      BY <3>1
  <2>4. o \notin Copies
    BY InstallAssumption
  <2> QED
    BY <2>1, <2>2, <2>3, <2>4 DEF HasTarget, Alone, OwnTarget, Served,
                              Released, TornStops, Nobody, Installing
<1>14. ASSUME NEW d \in Drives, OtherDrive(d)
       PROVE  ScanInv'
  <2>1. UNCHANGED <<loaded, torn, run>> /\ run = Nobody
    BY <1>14 DEF OtherDrive, Idle
  <2>2. \A e \in Drives : cds'[e].sig = cds[e].sig
    <3>1. cds' = [cds EXCEPT ![d] = [cds[d] EXCEPT !.used = ~cds[d].used]]
      BY <1>14 DEF OtherDrive
    <3>2. ASSUME NEW e \in Drives PROVE cds'[e].sig = cds[e].sig
      <4>1. CASE e # d
        BY <1>0, <3>1, <4>1 DEF CdsOK
      <4>2. CASE e = d
        <5>1. cds'[d] = [cds[d] EXCEPT !.used = ~cds[d].used]
          BY <1>0, <3>1, Zenon DEF CdsOK
        <5>2. cds[d] \in Entries
          BY <1>0 DEF CdsOK
        <5>3. [cds[d] EXCEPT !.used = ~cds[d].used].sig = cds[d].sig
          BY <5>2, Zenon DEF Entries
        <5> QED
          BY <4>2, <5>1, <5>3
      <4> QED
        BY <4>1, <4>2
    <3> QED
      BY <3>2
  <2>3. /\ Ours' = Ours /\ OneCopyScanned'
        /\ \A e \in Ours : cds'[e].sig = cds[e].sig
    BY <1>0, <2>2, SameScan
  <2> QED
    BY <2>1, <2>3 DEF HasTarget, Alone, OwnTarget, Served, Released,
                      TornStops, Nobody, Installing
<1>15. ASSUME Refuse
       PROVE  ScanInv'
  <2>1. /\ UNCHANGED <<cds, loaded, torn>> /\ run' = Nobody
        /\ run.copy # NoCopy /\ run.step = "rpci"
    BY <1>15 DEF Refuse, At, Exit
  <2>2. Ours' = Ours /\ OneCopyScanned' /\ Ours = {}
    BY <1>0, <2>1, SameScan DEF Alone
  <2>3. ~torn
    BY <2>1 DEF TornStops, Nobody
  <2> QED
    BY <2>1, <2>2, <2>3 DEF HasTarget, Alone, OwnTarget, Served, Released,
                            TornStops, Nobody, Installing
<1> QED
  BY <1>1, <1>2, <1>3, <1>4, <1>5, <1>6, <1>7, <1>8, <1>9, <1>10, <1>11,
     <1>12, <1>13, <1>14, <1>15 DEF Next, Starts, Proceeds

-----------------------------------------------------------------------------
(* The code page driver.                                                   *)

TablesOK == /\ page \in Pages /\ table \in [Copies -> Tables]
            /\ ptr \in Copies \cup {NoCopy} /\ told \subseteq Copies

TableInv == CodePageTypeOK /\ ScanInv /\ WritesLive

LEMMA InstallInitTypes == Init => TypeOK
<1> SUFFICES ASSUME Init PROVE TypeOK
  OBVIOUS
<1>1. VecOK /\ PrevOK /\ HooksOK /\ LoadedOK /\ OpenOK
  BY DEF Init, VecOK, PrevOK, HooksOK, LoadedOK, OpenOK, Chains
<1>2. CdsOK
  BY Zenon DEF Init, CdsOK, Entries
<1>3. RunOK
  BY DEF Init, RunOK, Runs, Nobody, Steps
<1>4. CountsOK
  BY InstallAssumption DEF Init, CountsOK
<1>5. torn \in BOOLEAN
  BY Zenon DEF Init
<1> QED
  BY <1>1, <1>2, <1>3, <1>4, <1>5, TypeParts, Zenon

\* A run that goes on has its program and its target as before.
LEMMA RunsOn ==
    ASSUME RunOK, Proceeds \/ Refuse,
           NEW c \in Copies, c \in Present, c = run'.copy
    PROVE  c \in Present'
<1>1. run' # Nobody
  BY InstallAssumption DEF Nobody
<1>2. ASSUME loaded' = loaded, NEW step, run' = [run EXCEPT !.step = step]
      PROVE  c \in Present'
  BY <1>2 DEF RunOK, Runs, Present
<1>3. ASSUME NEW d \in Copies, StartUninstall(d)
      PROVE  c \in Present'
  <2>1. run'.copy = d /\ d \notin loaded /\ run.target = NoCopy
    BY <1>3 DEF StartUninstall, Idle, Nobody
  <2> QED
    BY <2>1, InstallAssumption DEF Present
<1>4. CASE BeginSession
  BY <1>1, <1>2, <1>4 DEF BeginSession, OpenChannel, GoTo, Exit
<1>5. CASE SetCDS
  BY <1>1, <1>2, <1>5 DEF SetCDS, NoDrive, GoTo
<1>6. CASE SetHandlers
  BY <1>1, <1>2, <1>6 DEF SetHandlers, Hook, GoTo
<1>7. CASE UninstallDriver
  BY <1>1, <1>2, <1>7 DEF UninstallDriver, Unhook, GoTo
<1>8. CASE ClearCDS
  BY <1>1, <1>2, <1>8 DEF ClearCDS, GoTo
<1>9. CASE EndSession
  BY <1>1, <1>2, <1>9 DEF EndSession, CloseChannel, GoTo, Exit
<1>10. CASE Keep \/ Free \/ Break \/ Refuse
  BY <1>1, <1>10 DEF Keep, Free, Break, Refuse, Exit
<1>11. CASE Down
  BY <1>11 DEF Down, vars, Present
<1>12. ASSUME NEW o \in Others, \/ OtherLeaves(o)
                                \/ \E vs \in SUBSET Vectors : OtherLoads(o, vs)
       PROVE  c \in Present'
  BY <1>1, <1>12 DEF OtherLeaves, OtherLoads, Idle
<1>13. ASSUME NEW d \in Drives, OtherDrive(d)
       PROVE  c \in Present'
  BY <1>1, <1>13 DEF OtherDrive, Idle
<1> QED
  BY <1>3, <1>4, <1>5, <1>6, <1>7, <1>8, <1>9, <1>10, <1>11, <1>12, <1>13
     DEF Proceeds

\* What Forget leaves of the tables.
LEMMA ForgetKeeps ==
    ASSUME TablesOK, WritesLive, RunOK, Proceeds \/ Refuse, Forget,
           UNCHANGED <<page, ptr>>
    PROVE  TablesOK' /\ WritesLive'
<1>1. TablesOK'
  BY DEF TablesOK, Forget, Tables
<1>2. ASSUME NEW c \in Copies, table'[c] # NoTable
      PROVE  c \in Present'
  <2>1. /\ c \in loaded' \cup {run'.copy, run'.target}
        /\ table[c] # NoTable
    BY <1>2 DEF Forget
  <2>2. c \in Present
    BY <2>1 DEF WritesLive
  <2> QED
    BY <2>1, <2>2, RunsOn DEF Present
<1> QED
  BY <1>1, <1>2 DEF WritesLive

LEMMA TableStep ==
    ASSUME TableInv, [TableNext]_<<vars, tableVars>>
    PROVE  TableInv'
<1>0. /\ TypeOK /\ TablesOK /\ ScanInv /\ WritesLive /\ HasTarget
      /\ RunOK /\ CdsOK
  BY TypeParts, Zenon DEF TableInv, CodePageTypeOK, TablesOK, ScanInv
<1>1. SUFFICES TypeOK' /\ ScanInv' /\ TablesOK' /\ WritesLive'
  BY Zenon DEF TableInv, CodePageTypeOK, TablesOK
<1>2. ASSUME NEW c \in Copies, NEW d \in Drives \cup {AnyDrive}, Load(c, d)
      PROVE  TypeOK' /\ ScanInv' /\ TablesOK' /\ WritesLive'
  <2>1. StartInstall(c, d) /\ Next
    BY <1>2 DEF Load, Next, Starts
  <2>2. TypeOK' /\ ScanInv'
    BY <1>0, <2>1, InstallTypes, ScanStep
  <2>3. TablesOK'
    <3>1. LoadUnicodeConversionTable(c) \/ UNCHANGED <<table, ptr, told>>
      BY <1>2 DEF Load
    <3>2. page' = page
      BY <1>2 DEF Load
    <3> QED
      BY <1>0, <3>1, <3>2 DEF TablesOK, LoadUnicodeConversionTable, SetNls,
                              Tables
  <2>4. ASSUME NEW e \in Copies, table'[e] # NoTable
        PROVE  e \in Present'
    <3>1. loaded' = loaded /\ run = Nobody
      BY <2>1 DEF StartInstall, Idle
    <3>2. CASE e = c /\ Ours = {}
      BY <2>1, <3>2 DEF StartInstall, Present
    <3>3. CASE ~(e = c /\ Ours = {})
      <4>1. table'[e] = table[e]
        BY <1>0, <1>2, <3>3 DEF Load, LoadUnicodeConversionTable, TablesOK
      <4>2. e \in Present
        BY <1>0, <2>4, <4>1 DEF WritesLive
      <4> QED
        BY <3>1, <4>2, InstallAssumption DEF Present, Nobody
    <3> QED
      BY <3>2, <3>3
  <2> QED
    BY <2>2, <2>3, <2>4 DEF WritesLive
<1>3. CASE Refuse \/ (Proceeds /\ Forget /\ UNCHANGED <<page, ptr>>)
  <2>1. Next \/ Refuse
    BY <1>3 DEF Next
  <2>2. TypeOK' /\ ScanInv'
    BY <1>0, <2>1, InstallTypes, ScanStep
  <2>3. /\ Proceeds \/ Refuse
        /\ Forget /\ UNCHANGED <<page, ptr>>
    BY <1>3 DEF Refuse
  <2> QED
    BY <1>0, <2>2, <2>3, ForgetKeeps
<1>4. ASSUME NEW p \in Pages, ChangePage(p)
      PROVE  TypeOK' /\ ScanInv' /\ TablesOK' /\ WritesLive'
  <2>1. UNCHANGED vars /\ ptr' = ptr /\ page' = p
    BY <1>4 DEF ChangePage
  <2>2. TypeOK' /\ ScanInv'
    BY <1>0, <2>1 DEF vars, TypeOK, ScanInv, HasTarget, Alone, OwnTarget,
                      Served, Released, TornStops, OneCopyScanned, Ours
  <2>3. \/ UNCHANGED <<table, told>>
        \/ /\ ptr \in Copies /\ ptr \in Present
           /\ \E q \in Tables : table' \in {table, [table EXCEPT ![ptr] = q]}
           /\ told' \subseteq told \cup {ptr}
    <3>1. CASE UNCHANGED <<table, told>>
      BY <3>1
    <3>2. CASE ~UNCHANGED <<table, told>>
      <4>1. /\ ptr # NoCopy /\ Ours # {} /\ Found = ptr
            /\ \/ table' = Read(p) /\ told' = told \ {ptr}
               \/ table' \in {table, Read(Mixed)} /\ told' = told \cup {ptr}
        BY <1>4, <3>2
           DEF ChangePage, LoadUnicodeTable, IsVMRedirectorInstalled
      <4>2. PICK d \in Ours : Found = cds[d].sig
        BY <4>1, FoundServes
      <4>3. ptr \in loaded
        BY <1>0, <1>4, <4>1, <4>2
           DEF ScanInv, Served, ChangePage, Idle, Nobody
      <4> QED
        BY <1>0, <4>1, <4>3 DEF TablesOK, Read, Tables, Present
    <3> QED
      BY <3>1, <3>2
  <2>4. TablesOK'
    BY <1>0, <2>1, <2>3 DEF TablesOK
  <2>5. ASSUME NEW e \in Copies, table'[e] # NoTable
        PROVE  e \in Present
    <3>1. CASE table'[e] = table[e]
      BY <1>0, <2>5, <3>1 DEF WritesLive
    <3>2. CASE e = ptr /\ ptr \in Present
      BY <3>2
    <3> QED
      BY <1>0, <2>3, <3>1, <3>2 DEF TablesOK
  <2> QED
    BY <2>1, <2>2, <2>4, <2>5 DEF WritesLive, Present, vars
<1>5. CASE UNCHANGED <<vars, tableVars>>
  BY <1>0, <1>5 DEF vars, tableVars, TypeOK, ScanInv, HasTarget, Alone,
                    OwnTarget, Served, Released, TornStops, OneCopyScanned,
                    Ours, TablesOK, WritesLive, Present
<1> QED
  BY <1>2, <1>3, <1>4, <1>5 DEF TableNext

LEMMA TableStart == TableInit => TableInv
<1> SUFFICES ASSUME TableInit PROVE TableInv
  OBVIOUS
<1>1. Init /\ TypeOK /\ ScanInv
  BY InstallInitTypes, ScanInit DEF TableInit
<1>2. TablesOK /\ WritesLive
  BY DEF TableInit, TablesOK, Tables, WritesLive
<1> QED
  BY <1>1, <1>2, Zenon DEF TableInv, CodePageTypeOK, TablesOK

LEMMA TableInvariant == TableSpec => []TableInv
<1>1. TableInv /\ [TableNext]_<<vars, tableVars>> => TableInv'
  BY TableStep
<1> QED
  BY <1>1, TableStart, PTL DEF TableSpec

-----------------------------------------------------------------------------
(* The theorems.                                                           *)

\* Every variable of main, of the driver and of their surroundings stays in
\* its set, whatever is installed, interrupted, uninstalled and loaded.
THEOREM Types == TableSpec => []CodePageTypeOK
<1>1. TableInv => CodePageTypeOK
  BY DEF TableInv
<1> QED
  BY <1>1, TableInvariant, PTL

\* No two copies have drives that the scan of AlreadyInstalled comes to:
\* main scans long before it sets the CDS (SetCDS), but a copy goes through
\* the steps between only when the scan found nothing.
THEOREM OneScanned == TableSpec => []OneCopyScanned
<1>1. TableInv => OneCopyScanned
  BY DEF TableInv, ScanInv
<1> QED
  BY <1>1, TableInvariant, PTL

\* The driver (LoadUnicodeTable) writes to a copy in memory or not at all:
\* a drive that the scan comes to belongs to such a copy, and the pointer,
\* which outlives the copy, is compared with what the scan finds.
THEOREM Writes == TableSpec => []WritesLive
<1>1. TableInv => WritesLive
  BY DEF TableInv
<1> QED
  BY <1>1, TableInvariant, PTL
=============================================================================
