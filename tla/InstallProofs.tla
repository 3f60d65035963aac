---------------------------- MODULE InstallProofs ----------------------------
(***************************************************************************)
(* Installing and uninstalling among other programs: the interrupts, the   *)
(* channels, the drives and the conversion table of every copy, for any    *)
(* number of copies, other programs, drives, failures and interruptions.   *)
(***************************************************************************)
EXTENDS CodePageProofs

-----------------------------------------------------------------------------
(* Chains of handlers.                                                     *)

Successors == [Programs -> Handlers]

\* A call does not leave the set.
Shut(S, next) == \A p \in S \ {Dos} : next[p] \in S

LEMMA ReachShut ==
    ASSUME NEW f \in Successors, NEW x \in Handlers
    PROVE  /\ x \in Reach(x, f) /\ Reach(x, f) \subseteq Handlers
           /\ Shut(Reach(x, f), f)
<1>1. x \in Reach(x, f) /\ Reach(x, f) \subseteq Handlers
  BY DEF Reach
<1>2. ASSUME NEW p \in Reach(x, f) \ {Dos} PROVE f[p] \in Reach(x, f)
  <2>1. f[p] \in Handlers
    BY <1>1, <1>2 DEF Successors, Handlers
  <2>2. ASSUME NEW S \in SUBSET Handlers, x \in S,
               \A q \in S \ {Dos} : f[q] \in S
        PROVE  f[p] \in S
    BY <2>2 DEF Reach
  <2> QED
    BY <2>1, <2>2 DEF Reach
<1> QED
  BY <1>1, <1>2 DEF Shut

LEMMA ReachLeast ==
    ASSUME NEW f, NEW x, NEW S \in SUBSET Handlers, x \in S, Shut(S, f)
    PROVE  Reach(x, f) \subseteq S
  BY DEF Reach, Shut

\* A chain is what it is by the programs on it.
LEMMA ReachSame ==
    ASSUME NEW f \in Successors, NEW g \in Successors, NEW x \in Handlers,
           \A p \in Reach(x, f) \ {Dos} : g[p] = f[p]
    PROVE  Reach(x, g) = Reach(x, f)
<1> DEFINE Old == Reach(x, f)
           New == Reach(x, g)
<1>1. /\ x \in Old /\ Old \subseteq Handlers /\ Shut(Old, f)
      /\ x \in New /\ New \subseteq Handlers /\ Shut(New, g)
  BY ReachShut
<1>2. New \subseteq Old
  BY <1>1, ReachLeast DEF Shut
<1>3. Shut(New \cap Old, f)
  BY <1>1 DEF Shut
<1>4. Old \subseteq New \cap Old
  <2>1. New \cap Old \in SUBSET Handlers /\ x \in New \cap Old
    BY <1>1
  <2> QED
    BY <1>3, <2>1, ReachLeast
<1> QED
  BY <1>2, <1>4

\* A program that was not on the chain comes before the first.
LEMMA ReachPush ==
    ASSUME NEW f \in Successors, NEW g \in Successors, NEW x \in Handlers,
           NEW c \in Programs, c \notin Reach(x, f),
           g[c] = x, \A p \in Programs \ {c} : g[p] = f[p]
    PROVE  Reach(c, g) = {c} \cup Reach(x, f)
<1> DEFINE Old == Reach(x, f)
           New == Reach(c, g)
<1>1. /\ x \in Old /\ Old \subseteq Handlers /\ Shut(Old, f)
      /\ c \in New /\ New \subseteq Handlers /\ Shut(New, g)
  BY ReachShut DEF Handlers
<1>2. c # Dos
  BY InstallAssumption DEF Programs
<1>3. Shut({c} \cup Old, g)
  BY <1>1 DEF Shut, Handlers
<1>4. New \subseteq {c} \cup Old
  <2>1. {c} \cup Old \in SUBSET Handlers /\ c \in {c} \cup Old
    BY <1>1
  <2> QED
    BY <1>3, <2>1, ReachLeast
<1>5. x \in New
  BY <1>1, <1>2 DEF Shut
<1>6. Shut(New \cap Old, f)
  BY <1>1 DEF Shut, Handlers
<1>7. Old \subseteq New \cap Old
  <2>1. New \cap Old \in SUBSET Handlers /\ x \in New \cap Old
    BY <1>1, <1>5
  <2> QED
    BY <1>6, <2>1, ReachLeast
<1> QED
  BY <1>1, <1>4, <1>7

\* The first program of a chain that ends is on it once: without it the chain
\* starts with the handler it passes calls on to.
LEMMA ReachPop ==
    ASSUME NEW f \in Successors, NEW c \in Programs, Dos \in Reach(c, f)
    PROVE  Reach(f[c], f) = Reach(c, f) \ {c}
<1> DEFINE All == Reach(c, f)
           Rest == Reach(f[c], f)
           To == {q \in Handlers : c \in Reach(q, f)}
<1>1. c \in Handlers /\ f[c] \in Handlers /\ c # Dos
  BY InstallAssumption DEF Programs, Handlers, Successors
<1>2. /\ c \in All /\ All \subseteq Handlers /\ Shut(All, f)
      /\ f[c] \in Rest /\ Rest \subseteq Handlers /\ Shut(Rest, f)
  BY <1>1, ReachShut
<1>3. Rest \subseteq All
  BY <1>1, <1>2, ReachLeast DEF Shut
<1>4. All \subseteq {c} \cup Rest
  <2>1. Shut({c} \cup Rest, f) /\ {c} \cup Rest \in SUBSET Handlers
    BY <1>1, <1>2 DEF Shut
  <2> QED
    BY <2>1, ReachLeast
<1>5. c \notin Rest
  <2>1. SUFFICES ASSUME c \in Rest PROVE FALSE
    OBVIOUS
  <2>2. ASSUME NEW q \in To, q # Dos PROVE f[q] \in To
    <3>1. q \in Programs /\ f[q] \in Handlers
      BY <2>2 DEF Handlers, Successors
    <3>2. f[q] \in Reach(f[q], f) /\ Reach(f[q], f) \subseteq Handlers
          /\ Shut(Reach(f[q], f), f)
      BY <3>1, ReachShut
    <3>3. Shut({q} \cup Reach(f[q], f), f)
      BY <3>2 DEF Shut
    <3>4. Reach(q, f) \subseteq {q} \cup Reach(f[q], f)
      BY <3>2, <3>3, ReachLeast
    <3>5. c = q \/ c \in Reach(f[q], f)
      BY <3>4
    <3> QED
      BY <2>1, <3>1, <3>5
  <2>3. Shut(To, f)
    BY <2>2 DEF Shut
  <2>4. All \subseteq To
    BY <1>1, <1>2, <2>3, ReachLeast
  <2>5. c \in Reach(Dos, f)
    BY <2>4
  <2>6. Reach(Dos, f) \subseteq {Dos}
    BY ReachLeast DEF Shut, Handlers
  <2> QED
    BY <1>1, <2>5, <2>6
<1> QED
  BY <1>2, <1>3, <1>4, <1>5

\* The handlers that the programs pass a call of the interrupt on to.
Passes(v) == [p \in Programs |-> prev[p][v]]

LEMMA PassesTo ==
    ASSUME VecOK, PrevOK, NEW v \in Vectors
    PROVE  Passes(v) \in Successors /\ vec[v] \in Handlers
  BY DEF VecOK, PrevOK, Chains, Handlers, Passes, Successors

LEMMA PassesToNew ==
    ASSUME VecOK', PrevOK', NEW v \in Vectors
    PROVE  Passes(v)' \in Successors /\ vec'[v] \in Handlers
  BY DEF VecOK, PrevOK, Chains, Handlers, Passes, Successors

\* A step that is not about the programs on the chain.
LEMMA ChainSame ==
    ASSUME VecOK, PrevOK, VecOK', PrevOK', NEW v \in Vectors,
           vec'[v] = vec[v],
           \A p \in Chain(v) \cap Programs : prev'[p] = prev[p]
    PROVE  Chain(v)' = Chain(v)
<1> DEFINE f == Passes(v)
           g == Passes(v)'
<1>1. f \in Successors /\ g \in Successors /\ vec[v] \in Handlers
  BY PassesTo, PassesToNew
<1>2. Chain(v) = Reach(vec[v], f) /\ Chain(v)' = Reach(vec[v], g)
  BY DEF Chain, Passes
<1>3. Reach(vec[v], f) \subseteq Handlers
  BY <1>1, ReachShut
<1>4. \A p \in Reach(vec[v], f) \ {Dos} : g[p] = f[p]
  BY <1>2, <1>3 DEF Handlers, Passes
<1> HIDE DEF f, g
<1> QED
  BY <1>1, <1>2, <1>4, ReachSame

\* A program puts its handler in front.
LEMMA ChainPush ==
    ASSUME VecOK, PrevOK, VecOK', PrevOK', NEW v \in Vectors,
           NEW c \in Programs, c \notin Chain(v),
           vec'[v] = c, prev'[c][v] = vec[v],
           \A p \in Programs \ {c} : prev'[p] = prev[p]
    PROVE  Chain(v)' = {c} \cup Chain(v)
<1> DEFINE f == Passes(v)
           g == Passes(v)'
<1>1. f \in Successors /\ g \in Successors /\ vec[v] \in Handlers
  BY PassesTo, PassesToNew
<1>2. Chain(v) = Reach(vec[v], f) /\ Chain(v)' = Reach(c, g)
  BY DEF Chain, Passes
<1>3. g[c] = vec[v] /\ \A p \in Programs \ {c} : g[p] = f[p]
  BY DEF Passes
<1> HIDE DEF f, g
<1> QED
  BY <1>1, <1>2, <1>3, ReachPush

\* The first program of the chain restores the handler it passed calls on to.
LEMMA ChainPop ==
    ASSUME VecOK, PrevOK, VecOK', PrevOK', NEW v \in Vectors,
           NEW c \in Programs, Dos \in Chain(v),
           vec[v] = c, vec'[v] = prev[c][v],
           \A p \in Programs \ {c} : prev'[p] = prev[p]
    PROVE  Chain(v)' = Chain(v) \ {c}
<1> DEFINE f == Passes(v)
           g == Passes(v)'
           Rest == Reach(f[c], f)
<1>1. f \in Successors /\ g \in Successors /\ f[c] \in Handlers
  BY PassesTo, PassesToNew DEF Successors
<1>2. /\ Chain(v) = Reach(c, f) /\ Chain(v)' = Reach(f[c], g)
      /\ \A p \in Programs \ {c} : g[p] = f[p]
  BY DEF Chain, Passes
<1> HIDE DEF f, g
<1>3. Rest = Chain(v) \ {c}
  BY <1>1, <1>2, ReachPop
<1>4. Rest \subseteq Handlers
  BY <1>1, ReachShut
<1>5. \A p \in Rest \ {Dos} : g[p] = f[p]
  BY <1>2, <1>3, <1>4 DEF Handlers
<1> QED
  BY <1>1, <1>2, <1>3, <1>5, ReachSame

-----------------------------------------------------------------------------
(* The inductive invariant.                                                *)

Running == run.copy # NoCopy
Coming == Running /\ run.target = run.copy
Going == Running /\ run.target # run.copy

\* The copy has a drive.
Alive(c) == \E d \in Drives : cds[d].sig = c

\* The copy has a handler at the interrupt.
CopyHooked(c, v) ==
    IF c # run.target THEN c \in loaded /\ Alive(c)
    ELSE IF run.target = run.copy
    THEN run.step = "keep" \/ (v = "2F" /\ run.step = "hook1c")
    ELSE run.step = "un1c" \/ (v = "2F" /\ run.step = "un2f")

Hooked(v) ==
    {c \in Copies : CopyHooked(c, v)}
        \cup {o \in Others \cap loaded : v \in hooks[o]}

\* An interrupt comes to all that have a handler there, and to DOS.
ChainInv == ~torn => \A v \in Vectors : Chain(v) = Hooked(v) \cup {Dos}

\* The vectors stay as VMSMOUNT has found them until it sets them.
TopInv ==
    /\ Coming /\ run.step \in {"rpci", "tclo", "cds", "hook2f"} =>
         prev[run.copy] = vec
    /\ Coming /\ run.step = "hook1c" => prev[run.copy]["1C"] = vec["1C"]
    /\ Going /\ run.step = "un1c" => vec["1C"] = run.target
    /\ Going /\ run.step \in {"un1c", "un2f"} => vec["2F"] = run.target

RunInv ==
    /\ ~Running => run = Nobody
    /\ Running => run.copy \in Copies \ loaded
    /\ Going => run.target \in loaded /\ run.step \notin Installing
    /\ Coming => run.step \in Installing \cup {"closerpci", "closetclo"}

\* A drive of a copy is in use; the copy has no other, and has it from SetCDS
\* to UninstallDriver.
DriveInv ==
    /\ \A d \in Drives : cds[d].sig # NoCopy =>
         /\ cds[d].used
         /\ ~torn => cds[d].sig \in loaded \cup {run.target}
         /\ \A e \in Drives : cds[e].sig = cds[d].sig => e = d
    /\ Coming =>
         (Alive(run.copy) <=> run.step \in {"hook2f", "hook1c", "keep"})
    /\ Going => IF run.step \in {"un1c", "un2f", "uncds"}
                THEN \A d \in Drives : cds[d].sig = run.target =>
                        d >= FirstAuto
                ELSE ~Alive(run.target)

\* The channels of the copies in memory, and of the one that comes or goes.
OpenInv ==
    ~torn =>
      /\ \A c \in Copies \cap loaded :
           c # run.target /\ Alive(c) => open[c] = Kinds
      /\ Running /\ run.step = "rpci" => open[run.target] = {}
      /\ Running /\ run.step = "tclo" => open[run.target] = {"rpci"}
      /\ Running /\ run.step \notin {"rpci", "tclo", "closetclo", "free"} =>
           open[run.target] = Kinds

\* Channels open for runs that are over, and those the run will leave.
LeftOpen ==
    {ck \in (Copies \ Present) \X Kinds : ck[2] \in open[ck[1]]}

Owed ==
    IF Running /\ run.step = "closetclo" /\ "rpci" \in open[run.target] THEN 1
    ELSE IF Running /\ run.step = "free" THEN Cardinality(open[run.target])
    ELSE 0

OrphanInv ==
    ~torn => /\ IsFiniteSet(LeftOpen)
             /\ left + Cardinality(LeftOpen) + Owed <= fails + 2 * breaks

\* Copies that were interrupted while they were being freed.
Dead == {c \in Copies \cap loaded : c # run.target /\ ~Alive(c)}

DeadInv == ~torn => IsFiniteSet(Dead) /\ Cardinality(Dead) <= breaks

InstallInv ==
    /\ ChainInv /\ TopInv /\ RunInv /\ DriveInv /\ OpenInv /\ OrphanInv
    /\ DeadInv

-----------------------------------------------------------------------------
(* What the steps have in common.                                          *)

LEMMA OldTypes ==
    ASSUME TypeOK
    PROVE  VecOK /\ PrevOK /\ HooksOK /\ LoadedOK /\ CdsOK /\ OpenOK /\ RunOK
           /\ CountsOK
  BY TypeParts, Zenon

LEMMA NewTypes ==
    ASSUME TypeOK'
    PROVE  VecOK' /\ PrevOK' /\ HooksOK' /\ LoadedOK' /\ CdsOK' /\ OpenOK'
           /\ RunOK' /\ CountsOK'
  BY Zenon DEF TypeOK, Chains, Entries, Runs, VecOK, PrevOK, HooksOK, LoadedOK,
               CdsOK, OpenOK, RunOK, CountsOK

LEMMA NextStep ==
    ASSUME RunOK, NEW step, GoTo(step)
    PROVE  /\ run'.copy = run.copy /\ run'.target = run.target
           /\ run'.step = step
  BY DEF RunOK, Runs, GoTo

LEMMA LastStep ==
    ASSUME Exit
    PROVE  /\ run'.copy = NoCopy /\ run'.target = NoCopy
           /\ run'.step = "keep" /\ run' = Nobody
  BY DEF Exit, Nobody

\* A copy without a handler is on no chain.
LEMMA OffChain ==
    ASSUME ChainInv, ~torn, NEW v \in Vectors, NEW c \in Copies,
           ~CopyHooked(c, v)
    PROVE  c \notin Chain(v)
<1>1. c \notin Others /\ c # Dos
  BY InstallAssumption
<1>2. c \notin Hooked(v)
  BY <1>1 DEF Hooked
<1> QED
  BY <1>1, <1>2 DEF ChainInv

\* A step that leaves the vectors and at most changes what a copy without a
\* handler keeps.
LEMMA ChainsKept ==
    ASSUME TypeOK, TypeOK', ChainInv, ~torn,
           vec' = vec, hooks' = hooks,
           Others \cap loaded' = Others \cap loaded,
           NEW c \in Copies,
           \A p \in Programs \ {c} : prev'[p] = prev[p],
           prev' = prev \/ \A v \in Vectors : ~CopyHooked(c, v),
           \A e \in Copies, v \in Vectors :
               CopyHooked(e, v)' <=> CopyHooked(e, v)
    PROVE  ChainInv'
<1>1. ASSUME NEW v \in Vectors PROVE Chain(v)' = Chain(v)
  <2>1. \A p \in Chain(v) \cap Programs : prev'[p] = prev[p]
    BY OffChain
  <2> QED
    BY <2>1, OldTypes, NewTypes, ChainSame
<1>2. ASSUME NEW v \in Vectors PROVE Hooked(v)' = Hooked(v)
  BY DEF Hooked
<1> QED
  BY <1>1, <1>2 DEF ChainInv

\* Copies whose drives and memory stay.
LEMMA AliveSame ==
    ASSUME NEW c, \A d \in Drives : cds'[d].sig = c <=> cds[d].sig = c
    PROVE  Alive(c)' <=> Alive(c)
  BY DEF Alive

LEMMA KindSets ==
    /\ Cardinality({}) = 0 /\ Cardinality(Kinds) = 2
    /\ \A k \in Kinds : Cardinality({k}) = 1
    /\ \A S \in SUBSET Kinds : /\ IsFiniteSet(S) /\ Cardinality(S) \in Nat
                               /\ Cardinality(S) <= 2
<1>1. /\ IsFiniteSet({}) /\ Cardinality({}) = 0
      /\ \A k \in Kinds : IsFiniteSet({k}) /\ Cardinality({k}) = 1
  BY FS_EmptySet, FS_Singleton
<1>2. {"rpci"} \cup {"tclo"} = Kinds /\ "rpci" # "tclo" /\ "rpci" \in Kinds
  BY DEF Kinds
<1>3. IsFiniteSet(Kinds) /\ Cardinality(Kinds) = 1 + 1
  BY <1>1, <1>2, FS_AddElement
<1> QED
  BY <1>1, <1>3, FS_Subset, FS_CardinalityType

\* A step after which at most some channels of one copy are left over.
LEMMA LeftMore ==
    ASSUME NEW c \in Copies, NEW K \in SUBSET Kinds,
           \A e \in Copies \ Present' :
               \/ e \notin Present /\ open'[e] \subseteq open[e]
               \/ e = c /\ open'[e] \subseteq K
    PROVE  LeftOpen' \subseteq LeftOpen \cup ({c} \X K)
<1>1. ASSUME NEW e \in Copies, NEW k \in Kinds, <<e, k>> \in LeftOpen'
      PROVE  <<e, k>> \in LeftOpen \cup ({c} \X K)
  <2>1. e \notin Present' /\ k \in open'[e]
    BY <1>1 DEF LeftOpen
  <2>2. CASE e \notin Present /\ k \in open[e]
    BY <2>2 DEF LeftOpen
  <2>3. CASE e = c /\ k \in K
    BY <2>3
  <2> QED
    BY <2>1, <2>2, <2>3
<1>2. LeftOpen' \subseteq Copies \X Kinds
  BY DEF LeftOpen
<1> QED
  BY <1>1, <1>2

LEMMA OwedNat ==
    ASSUME OpenOK, RunOK, HasTarget
    PROVE  Owed \in Nat
<1>1. Running => open[run.target] \in SUBSET Kinds
  BY DEF Running, HasTarget, OpenOK
<1> QED
  BY <1>1, KindSets DEF Owed

LEMMA OwedNatNew ==
    ASSUME OpenOK', RunOK', HasTarget'
    PROVE  Owed' \in Nat
<1>1. Running' => open'[run'.target] \in SUBSET Kinds
  BY DEF Running, HasTarget, OpenOK
<1> QED
  BY <1>1, KindSets DEF Owed, Running

\* What is left over and owed grows with what fails and is interrupted.
LEMMA OrphansMore ==
    ASSUME TypeOK, TypeOK', HasTarget, HasTarget', OrphanInv, ~torn,
           left' = left, NEW c \in Copies, NEW K \in SUBSET Kinds,
           LeftOpen' \subseteq LeftOpen \cup ({c} \X K),
           Cardinality(K) + Owed' + fails + 2 * breaks
               <= Owed + fails' + 2 * breaks'
    PROVE  OrphanInv'
<1>1. /\ IsFiniteSet(LeftOpen)
      /\ left + Cardinality(LeftOpen) + Owed <= fails + 2 * breaks
  BY DEF OrphanInv
<1>2. PICK m : m = Cardinality(LeftOpen)
  OBVIOUS
<1>3. PICK k : k = Cardinality(K)
  OBVIOUS
<1>4. m \in Nat /\ k \in Nat /\ IsFiniteSet(K)
  BY <1>1, <1>2, <1>3, KindSets, FS_CardinalityType
<1>5. IsFiniteSet({c} \X K) /\ Cardinality({c} \X K) = k
  <2>1. IsFiniteSet({c}) /\ Cardinality({c}) = 1
    BY FS_Singleton
  <2>2. IsFiniteSet({c} \X K) /\ Cardinality({c} \X K) = 1 * k
    BY <1>3, <1>4, <2>1, FS_Product
  <2> QED
    BY <1>4, <2>2
<1>6. PICK u : u = Cardinality(LeftOpen \cup ({c} \X K))
  OBVIOUS
<1>7. /\ IsFiniteSet(LeftOpen \cup ({c} \X K)) /\ u \in Nat
      /\ u <= m + k
  <2>1. /\ IsFiniteSet(LeftOpen \cup ({c} \X K))
        /\ Cardinality(LeftOpen \cup ({c} \X K)) =
             m + k - Cardinality(LeftOpen \cap ({c} \X K))
    BY <1>1, <1>2, <1>5, FS_Union
  <2>2. Cardinality(LeftOpen \cap ({c} \X K)) \in Nat
    BY <1>1, FS_Intersection, FS_CardinalityType
  <2>3. u \in Nat
    BY <1>6, <2>1, FS_CardinalityType
  <2> QED
    BY <1>4, <1>6, <2>1, <2>2, <2>3
<1>8. PICK n : n = Cardinality(LeftOpen')
  OBVIOUS
<1>9. IsFiniteSet(LeftOpen') /\ n \in Nat /\ n <= u
  BY <1>6, <1>7, <1>8, FS_Subset, FS_CardinalityType
<1>10. PICK o : o = Owed
  OBVIOUS
<1>11. PICK p : p = Owed'
  OBVIOUS
<1>12. o \in Nat /\ p \in Nat
  BY <1>10, <1>11, OldTypes, NewTypes, OwedNat, OwedNatNew
<1>13. /\ left \in Nat /\ fails \in Nat /\ breaks \in Nat
       /\ fails' \in Nat /\ breaks' \in Nat
  BY OldTypes, NewTypes, InstallAssumption DEF CountsOK
<1>14. left + m + o <= fails + 2 * breaks
  BY <1>1, <1>2, <1>10
<1>15. k + p + fails + 2 * breaks <= o + fails' + 2 * breaks'
  BY <1>3, <1>10, <1>11
<1>16. left + n + p <= fails' + 2 * breaks'
  BY <1>4, <1>7, <1>9, <1>12, <1>13, <1>14, <1>15
<1> QED
  BY <1>8, <1>9, <1>11, <1>16 DEF OrphanInv

LEMMA DeadSame ==
    ASSUME DeadInv, ~torn, Dead' \subseteq Dead, breaks' >= breaks,
           breaks \in Nat, breaks' \in Nat
    PROVE  DeadInv'
<1>1. IsFiniteSet(Dead) /\ Cardinality(Dead) <= breaks
  BY DEF DeadInv
<1>2. /\ IsFiniteSet(Dead') /\ Cardinality(Dead') <= Cardinality(Dead)
      /\ Cardinality(Dead) \in Nat /\ Cardinality(Dead') \in Nat
  BY <1>1, FS_Subset, FS_CardinalityType
<1> QED
  BY <1>1, <1>2 DEF DeadInv

-----------------------------------------------------------------------------
(* The steps of main.                                                      *)

Sound == TypeOK /\ ScanInv /\ InstallInv

LEMMA SoundParts ==
    ASSUME Sound
    PROVE  /\ TypeOK /\ VecOK /\ PrevOK /\ HooksOK /\ LoadedOK /\ CdsOK
           /\ OpenOK /\ RunOK /\ CountsOK
           /\ HasTarget /\ Alone /\ OwnTarget /\ Served /\ Released
           /\ TornStops
           /\ ChainInv /\ TopInv /\ RunInv /\ DriveInv /\ OpenInv
           /\ OrphanInv /\ DeadInv
<1>1. TypeOK /\ ScanInv /\ InstallInv
  BY DEF Sound
<1> QED
  BY <1>1, OldTypes DEF ScanInv, InstallInv

\* The channels of an earlier run are given up with the handles of the copy.
LEMMA StartLeaves ==
    ASSUME TypeOK, TypeOK', HasTarget, HasTarget', OrphanInv, ~torn,
           run = Nobody, run'.copy = NoCopy \/ run'.step = "rpci",
           UNCHANGED <<fails, breaks, loaded>>,
           NEW c \in Copies \ loaded, run'.target \in {NoCopy, c},
           left' = left + Cardinality(open[c]),
           open' = [open EXCEPT ![c] = {}]
    PROVE  OrphanInv'
<1>1. /\ IsFiniteSet(LeftOpen)
      /\ left + Cardinality(LeftOpen) + Owed <= fails + 2 * breaks
  BY DEF OrphanInv
<1>2. /\ Owed = 0 /\ Owed' = 0 /\ c # NoCopy
      /\ c \notin Present
  BY InstallAssumption DEF Owed, Running, Nobody, Present
<1>3. PICK k : k = Cardinality(open[c])
  OBVIOUS
<1>4. open[c] \in SUBSET Kinds /\ k \in Nat /\ IsFiniteSet(open[c])
  BY <1>3, OldTypes, KindSets DEF OpenOK
<1>5. IsFiniteSet({c} \X open[c]) /\ Cardinality({c} \X open[c]) = k
  <2>1. IsFiniteSet({c}) /\ Cardinality({c}) = 1
    BY FS_Singleton
  <2>2. IsFiniteSet({c} \X open[c]) /\ Cardinality({c} \X open[c]) = 1 * k
    BY <1>3, <1>4, <2>1, FS_Product
  <2> QED
    BY <1>4, <2>2
<1>6. {c} \X open[c] \subseteq LeftOpen
  BY <1>2, <1>4 DEF LeftOpen
<1>7. LeftOpen' \subseteq LeftOpen \ ({c} \X open[c])
  <2>1. ASSUME NEW e \in Copies, NEW j \in Kinds, <<e, j>> \in LeftOpen'
        PROVE  <<e, j>> \in LeftOpen \ ({c} \X open[c])
    <3>1. e \notin Present' /\ j \in open'[e]
      BY <2>1 DEF LeftOpen
    <3>2. e # c /\ j \in open[e]
      BY <3>1, OldTypes DEF OpenOK
    <3>3. e \notin Present
      BY <3>1, InstallAssumption DEF Present, Nobody
    <3> QED
      BY <3>2, <3>3 DEF LeftOpen
  <2>2. LeftOpen' \subseteq Copies \X Kinds
    BY DEF LeftOpen
  <2> QED
    BY <2>1, <2>2
<1>8. PICK m : m = Cardinality(LeftOpen)
  OBVIOUS
<1>9. PICK n : n = Cardinality(LeftOpen')
  OBVIOUS
<1>10. IsFiniteSet(LeftOpen') /\ m \in Nat /\ n \in Nat /\ n <= m - k
  <2>1. /\ IsFiniteSet(LeftOpen \ ({c} \X open[c]))
        /\ Cardinality(LeftOpen \ ({c} \X open[c])) =
             m - Cardinality(LeftOpen \cap ({c} \X open[c]))
    BY <1>1, <1>8, FS_Difference
  <2>2. LeftOpen \cap ({c} \X open[c]) = {c} \X open[c]
    BY <1>6
  <2> QED
    BY <1>1, <1>5, <1>7, <1>8, <1>9, <2>1, <2>2, FS_Subset,
       FS_CardinalityType
<1>11. left \in Nat /\ fails \in Nat /\ breaks \in Nat /\ left' = left + k
  BY <1>3, OldTypes, InstallAssumption DEF CountsOK
<1>12. left + m <= fails + 2 * breaks
  <2>1. left + m + 0 <= fails + 2 * breaks
    BY <1>1, <1>2, <1>8
  <2> QED
    BY <1>10, <1>11, <2>1
<1>13. left' + n + 0 <= fails' + 2 * breaks'
  BY <1>4, <1>10, <1>11, <1>12
<1> QED
  BY <1>2, <1>9, <1>10, <1>13 DEF OrphanInv

LEMMA StartKeeps ==
    ASSUME Sound, TypeOK', HasTarget',
           NEW c \in Copies, NEW d \in Drives \cup {AnyDrive},
           StartInstall(c, d)
    PROVE  InstallInv'
<1>1. /\ UNCHANGED <<vec, hooks, loaded, cds, torn, fails, breaks>>
      /\ run = Nobody /\ ~torn /\ c \notin loaded
      /\ open' = [open EXCEPT ![c] = {}]
      /\ left' = left + Cardinality(open[c])
  BY DEF StartInstall, Idle
<1>2. \/ run' = run /\ prev' = prev
      \/ /\ Ours = {} /\ prev' = [prev EXCEPT ![c] = vec]
         /\ run' = [copy |-> c, step |-> "rpci", target |-> c, drive |-> d]
  BY DEF StartInstall, Saved
<1>3. run.copy = NoCopy /\ run.target = NoCopy /\ NoCopy \notin Copies
  BY <1>1, InstallAssumption DEF Nobody
<1>4. \/ run'.copy = NoCopy /\ run'.target = NoCopy
      \/ run'.copy = c /\ run'.target = c /\ run'.step = "rpci"
  BY <1>2, <1>3
<1>5. \A e : Alive(e)' <=> Alive(e)
  BY <1>1, AliveSame
<1>6. \A d1 \in Drives : cds[d1].sig # c
  BY <1>1, <1>3, SoundParts DEF DriveInv
<1>7. ~Alive(c)
  BY <1>6 DEF Alive
<1>8. ChainInv'
  <2>1. ASSUME NEW e \in Copies, NEW v \in Vectors
        PROVE  CopyHooked(e, v)' <=> CopyHooked(e, v)
    BY <1>1, <1>3, <1>4, <1>5, <1>7 DEF CopyHooked
  <2>2. \A v \in Vectors : ~CopyHooked(c, v)
    BY <1>3, <1>7 DEF CopyHooked
  <2>3. \A p \in Programs \ {c} : prev'[p] = prev[p]
    BY <1>2, SoundParts DEF PrevOK
  <2> QED
    BY <1>1, <2>1, <2>2, <2>3, SoundParts, ChainsKept
<1>9. TopInv'
  BY <1>1, <1>2, <1>3, <1>4, SoundParts
     DEF TopInv, Coming, Going, Running, PrevOK, Programs
<1>10. RunInv'
  BY <1>1, <1>2, <1>3, <1>4 DEF RunInv, Coming, Going, Running, Installing
<1>11. DriveInv'
  <2>1. \A e \in Drives : cds[e].sig # NoCopy =>
          /\ cds[e].used /\ cds[e].sig \in loaded \cup {run'.target}
          /\ \A b \in Drives : cds[b].sig = cds[e].sig => b = e
    BY <1>1, <1>3, SoundParts DEF DriveInv
  <2> QED
    BY <1>1, <1>4, <1>5, <1>7, <2>1 DEF DriveInv, Coming, Going, Running
<1>12. OpenInv'
  <2>1. \A e \in Copies \cap loaded : Alive(e) => open[e] = Kinds
    BY <1>1, <1>3, SoundParts DEF OpenInv
  <2> QED
    BY <1>1, <1>3, <1>4, <1>5, <2>1, SoundParts DEF OpenInv, Running, OpenOK
<1>13. OrphanInv'
  BY <1>1, <1>4, SoundParts, StartLeaves
<1>14. DeadInv'
  <2>1. Dead' \subseteq Dead
    BY <1>1, <1>3, <1>5 DEF Dead
  <2> QED
    BY <1>1, <2>1, SoundParts, InstallAssumption, DeadSame DEF CountsOK
<1> QED
  BY <1>8, <1>9, <1>10, <1>11, <1>12, <1>13, <1>14 DEF InstallInv

\* Taking a copy out starts with one that the scan has found, on top of all.
LEMMA StartOutKeeps ==
    ASSUME Sound, TypeOK', HasTarget', NEW c \in Copies, StartUninstall(c)
    PROVE  InstallInv'
<1>1. /\ UNCHANGED <<vec, prev, hooks, loaded, cds, open, torn, left, fails,
                     breaks>>
      /\ run = Nobody /\ ~torn /\ c \notin loaded /\ Ours # {}
      /\ OnTop(Found)
  BY DEF StartUninstall, Idle
<1>2. run.copy = NoCopy /\ run.target = NoCopy /\ NoCopy \notin Copies
  BY <1>1, InstallAssumption DEF Nobody
<1>3. run'.copy = c /\ run'.target = Found /\ run'.step = "un1c"
  BY DEF StartUninstall
<1>4. PICK f \in Ours : Found = cds[f].sig
  BY <1>1, FoundServes
<1>5. f \in Drives /\ f >= FirstAuto /\ cds[f].sig # NoCopy
  BY <1>4 DEF Ours
<1>6. Found \in Copies /\ Found \in loaded /\ Found # c /\ Alive(Found)
  <2>1. Found \in Copies
    BY <1>1, SoundParts, FoundCopy
  <2>2. Found \in loaded
    BY <1>1, <1>2, <1>4, <1>5, SoundParts DEF Served
  <2> QED
    BY <1>1, <1>4, <1>5, <2>1, <2>2 DEF Alive
<1>7. \A e : Alive(e)' <=> Alive(e)
  BY <1>1, AliveSame
<1>8. ChainInv'
  <2>1. ASSUME NEW e \in Copies, NEW v \in Vectors
        PROVE  CopyHooked(e, v)' <=> CopyHooked(e, v)
    BY <1>1, <1>2, <1>3, <1>6, <1>7 DEF CopyHooked
  <2>2. \A p \in Programs \ {c} : prev'[p] = prev[p]
    BY <1>1
  <2> QED
    BY <1>1, <2>1, <2>2, SoundParts, ChainsKept
<1>9. TopInv'
  BY <1>1, <1>3, <1>6 DEF TopInv, Coming, Going, OnTop, Vectors
<1>10. RunInv'
  BY <1>1, <1>2, <1>3, <1>6
     DEF RunInv, Coming, Going, Running, Installing
<1>11. DriveInv'
  <2>1. \A e \in Drives : cds[e].sig # NoCopy =>
          /\ cds[e].used /\ cds[e].sig \in loaded
          /\ \A b \in Drives : cds[b].sig = cds[e].sig => b = e
    BY <1>1, <1>2, SoundParts DEF DriveInv
  <2>2. \A e \in Drives : cds[e].sig = Found => e >= FirstAuto
    BY <1>4, <1>5, <2>1
  <2> QED
    BY <1>1, <1>3, <1>6, <2>1, <2>2 DEF DriveInv, Coming, Going, Running
<1>12. OpenInv'
  <2>1. \A e \in Copies \cap loaded : Alive(e) => open[e] = Kinds
    BY <1>1, <1>2, SoundParts DEF OpenInv
  <2> QED
    BY <1>1, <1>3, <1>6, <1>7, <2>1 DEF OpenInv
<1>13. OrphanInv'
  <2>1. Owed = 0 /\ Owed' = 0
    BY <1>2, <1>3 DEF Owed, Running
  <2>2. \A e \in Copies \ Present' :
            e \notin Present /\ open'[e] \subseteq open[e]
    BY <1>1, <1>2 DEF Present
  <2>3. LeftOpen' \subseteq LeftOpen \cup ({c} \X {})
    BY <2>2, LeftMore
  <2> QED
    BY <1>1, <2>1, <2>3, SoundParts, KindSets, OrphansMore,
       InstallAssumption DEF CountsOK
<1>14. DeadInv'
  <2>1. Dead' \subseteq Dead
    BY <1>1, <1>2, <1>7 DEF Dead
  <2> QED
    BY <1>1, <2>1, SoundParts, InstallAssumption, DeadSame DEF CountsOK
<1> QED
  BY <1>8, <1>9, <1>10, <1>11, <1>12, <1>13, <1>14 DEF InstallInv

\* A run that installs ends without handlers and without a drive.
LEMMA RunEnds ==
    ASSUME Sound, TypeOK', HasTarget', Coming,
           run.step \in {"rpci", "tclo", "cds", "closerpci", "closetclo"},
           Exit, prev' = Forgotten(run.copy),
           UNCHANGED <<vec, hooks, loaded, cds, torn, left>>,
           \A e \in Copies \ {run.copy} : open'[e] = open[e],
           NEW K \in SUBSET Kinds, open'[run.copy] \subseteq K,
           breaks' >= breaks,
           Cardinality(K) + fails + 2 * breaks
               <= Owed + fails' + 2 * breaks'
    PROVE  InstallInv'
<1>1. /\ run.copy # NoCopy /\ run.target = run.copy
      /\ run.copy \in Copies /\ run.copy \notin loaded /\ ~torn
  BY SoundParts DEF Coming, Running, RunInv, TornStops, Nobody
<1>2. /\ run'.copy = NoCopy /\ run'.target = NoCopy
      /\ run' = Nobody /\ NoCopy \notin Copies
  BY LastStep, InstallAssumption
<1>3. \A e : Alive(e)' <=> Alive(e)
  BY AliveSame
<1>4. ~Alive(run.copy)
  BY SoundParts DEF DriveInv
<1>5. ChainInv'
  <2>1. ASSUME NEW e \in Copies, NEW v \in Vectors
        PROVE  CopyHooked(e, v)' <=> CopyHooked(e, v)
    BY <1>1, <1>2, <1>3 DEF CopyHooked
  <2>2. \A v \in Vectors : ~CopyHooked(run.copy, v)
    BY <1>1 DEF CopyHooked
  <2>3. \A p \in Programs \ {run.copy} : prev'[p] = prev[p]
    BY SoundParts DEF PrevOK, Forgotten
  <2> QED
    BY <1>1, <2>1, <2>2, <2>3, SoundParts, ChainsKept
<1>6. TopInv' /\ RunInv'
  BY <1>2 DEF TopInv, RunInv, Coming, Going, Running
<1>7. DriveInv'
  <2>1. \A e \in Drives : cds[e].sig # NoCopy =>
          /\ cds[e].used /\ cds[e].sig \in loaded
          /\ \A b \in Drives : cds[b].sig = cds[e].sig => b = e
    BY <1>1, <1>4, SoundParts DEF DriveInv, Alive
  <2> QED
    BY <1>2, <2>1 DEF DriveInv, Coming, Going, Running
<1>8. OpenInv'
  BY <1>1, <1>2, <1>3, SoundParts DEF OpenInv, Running
<1>9. OrphanInv'
  <2>1. Owed' = 0 /\ Owed \in Nat
    BY <1>2, SoundParts, OwedNat DEF Owed, Running
  <2>2. \A e \in Copies \ Present' :
            \/ e \notin Present /\ open'[e] \subseteq open[e]
            \/ e = run.copy /\ open'[e] \subseteq K
    BY <1>1, <1>2 DEF Present
  <2>3. LeftOpen' \subseteq LeftOpen \cup ({run.copy} \X K)
    BY <1>1, <2>2, LeftMore
  <2>4. Cardinality(K) \in Nat
    BY KindSets
  <2>5. Cardinality(K) + Owed' + fails + 2 * breaks
            <= Owed + fails' + 2 * breaks'
    <3>1. PICK k : k = Cardinality(K)
      OBVIOUS
    <3>2. k \in Nat /\ fails \in Nat /\ breaks \in Nat
      BY <2>4, <3>1, SoundParts, InstallAssumption DEF CountsOK
    <3>3. k + 0 + fails + 2 * breaks = k + fails + 2 * breaks
      BY <3>2
    <3> QED
      BY <2>1, <3>1, <3>3
  <2> QED
    BY <1>1, <2>3, <2>5, SoundParts, OrphansMore
<1>10. DeadInv'
  <2>1. Dead' \subseteq Dead
    BY <1>1, <1>2, <1>3 DEF Dead
  <2> QED
    BY <1>1, <2>1, SoundParts, NewTypes, InstallAssumption, DeadSame
       DEF CountsOK
<1> QED
  BY <1>5, <1>6, <1>7, <1>8, <1>9, <1>10 DEF InstallInv

LEMMA RefuseKeeps ==
    ASSUME Sound, TypeOK', HasTarget', Refuse
    PROVE  InstallInv'
<1>1. /\ run.copy # NoCopy /\ run.step = "rpci" /\ ~torn
      /\ UNCHANGED <<vec, hooks, loaded, cds, open, torn, left, fails, breaks>>
      /\ Exit /\ prev' = Forgotten(run.copy)
  BY SoundParts DEF Refuse, At, TornStops, Nobody
<1>2. Coming
  BY <1>1, SoundParts DEF OwnTarget, Installing, Coming, Running
<1>3. open[run.copy] = {}
  BY <1>1, <1>2, SoundParts DEF OpenInv, Coming
<1>4. Cardinality({}) + fails + 2 * breaks <= Owed + fails' + 2 * breaks'
  <2>1. Owed = 0 /\ Cardinality({}) = 0
    BY <1>1, KindSets DEF Owed
  <2>2. fails \in Nat /\ breaks \in Nat
    BY SoundParts, InstallAssumption DEF CountsOK
  <2>3. 0 + fails + 2 * breaks <= 0 + fails' + 2 * breaks'
    BY <1>1, <2>2
  <2> QED
    BY <2>1, <2>3
<1>5. breaks' >= breaks
  BY <1>1, SoundParts, InstallAssumption DEF CountsOK
<1> QED
  BY <1>1, <1>2, <1>3, <1>4, <1>5, RunEnds

\* A channel is opened, or main returns: the second time it leaves the first.
LEMMA OpenKeeps ==
    ASSUME Sound, TypeOK', HasTarget', BeginSession
    PROVE  InstallInv'
<1>1. \/ run.step = "rpci" /\ OpenChannel("rpci", "tclo")
      \/ run.step = "tclo" /\ OpenChannel("tclo", "cds")
  BY DEF BeginSession, OpenChannel, At
<1>2. /\ run.copy # NoCopy
      /\ UNCHANGED <<vec, hooks, loaded, cds, torn, left, breaks>>
      /\ run.step \in {"rpci", "tclo"}
  BY <1>1 DEF OpenChannel, At
<1>3. /\ Coming /\ run.target = run.copy /\ ~torn
      /\ run.copy \in Copies /\ run.copy \notin loaded
  BY <1>2, SoundParts
     DEF OwnTarget, Installing, Coming, Running, TornStops, Nobody, RunInv
<1>4. open[run.copy] \subseteq {"rpci"} /\ {"rpci"} \in SUBSET Kinds
  BY <1>2, <1>3, SoundParts DEF OpenInv, Running, Kinds
<1>5. CASE Exit /\ Fails /\ prev' = Forgotten(run.copy) /\ open' = open
  <2>1. Cardinality({"rpci"}) + fails + 2 * breaks
          <= Owed + fails' + 2 * breaks'
    <3>1. Owed = 0 /\ Cardinality({"rpci"}) = 1
      BY <1>2, KindSets DEF Owed, Kinds
    <3>2. fails \in Nat /\ breaks \in Nat /\ fails' = fails + 1
      BY <1>5, SoundParts, InstallAssumption DEF CountsOK, Fails
    <3>3. 1 + fails + 2 * breaks <= 0 + fails' + 2 * breaks'
      BY <1>2, <3>2
    <3> QED
      BY <3>1, <3>3
  <2>2. breaks' >= breaks
    BY <1>2, SoundParts, InstallAssumption DEF CountsOK
  <2> QED
    BY <1>2, <1>3, <1>4, <1>5, <2>1, <2>2, RunEnds
<1>6. CASE /\ UNCHANGED <<prev, fails>>
           /\ \/ /\ run.step = "rpci" /\ GoTo("tclo")
                 /\ open' = [open EXCEPT ![run.copy] =
                                            open[run.copy] \cup {"rpci"}]
              \/ /\ run.step = "tclo" /\ GoTo("cds")
                 /\ open' = [open EXCEPT ![run.copy] =
                                            open[run.copy] \cup {"tclo"}]
  <2>1. /\ run'.copy = run.copy /\ run'.target = run.copy
        /\ run'.step \in {"tclo", "cds"}
    BY <1>3, <1>6, SoundParts, NextStep
  <2>2. \A e : Alive(e)' <=> Alive(e)
    BY <1>2, AliveSame
  <2>3. ~Alive(run.copy)
    BY <1>2, <1>3, SoundParts DEF DriveInv
  <2>4. /\ run'.step = "tclo" => open'[run.copy] = {"rpci"}
        /\ run'.step = "cds" => open'[run.copy] = Kinds
        /\ \A e \in Copies \ {run.copy} : open'[e] = open[e]
    BY <1>2, <1>3, <1>6, SoundParts, NextStep
       DEF OpenInv, Running, Kinds, OpenOK
  <2>5. ChainInv'
    <3>1. ASSUME NEW e \in Copies, NEW v \in Vectors
          PROVE  CopyHooked(e, v)' <=> CopyHooked(e, v)
      BY <1>2, <1>3, <2>1, <2>2 DEF CopyHooked
    <3> QED
      BY <1>2, <1>3, <1>6, <3>1, SoundParts, ChainsKept
  <2>6. TopInv' /\ RunInv'
    BY <1>2, <1>3, <1>6, <2>1, SoundParts
       DEF TopInv, RunInv, Coming, Going, Running, Installing
  <2>7. DriveInv'
    BY <1>2, <1>3, <2>1, <2>2, <2>3, SoundParts
       DEF DriveInv, Coming, Going, Running
  <2>8. OpenInv'
    BY <1>2, <1>3, <2>1, <2>2, <2>4, SoundParts DEF OpenInv, Running
  <2>9. OrphanInv'
    <3>1. Owed = 0 /\ Owed' = 0 /\ Cardinality({}) = 0
      BY <1>2, <2>1, KindSets DEF Owed
    <3>2. \A e \in Copies \ Present' :
              e \notin Present /\ open'[e] \subseteq open[e]
      BY <1>2, <1>3, <2>1, <2>4 DEF Present
    <3>3. LeftOpen' \subseteq LeftOpen \cup ({run.copy} \X {})
      BY <1>3, <3>2, LeftMore
    <3> QED
      BY <1>2, <1>3, <1>6, <3>1, <3>3, SoundParts, OrphansMore,
         InstallAssumption DEF CountsOK
  <2>10. DeadInv'
    <3>1. Dead' \subseteq Dead
      BY <1>2, <1>3, <2>1, <2>2 DEF Dead
    <3> QED
      BY <1>2, <1>3, <3>1, SoundParts, InstallAssumption, DeadSame
         DEF CountsOK
  <2> QED
    BY <2>5, <2>6, <2>7, <2>8, <2>9, <2>10 DEF InstallInv
<1> QED
  BY <1>1, <1>5, <1>6 DEF OpenChannel

\* A step of a run that is about neither handlers, drives nor channels.
LEMMA StepCounts ==
    ASSUME Sound, TypeOK', HasTarget', ~torn, NEW c \in Copies,
           UNCHANGED <<left, fails, breaks, open>>,
           Copies \ Present' \subseteq Copies \ Present, Owed = 0, Owed' = 0,
           Dead' \subseteq Dead
    PROVE  OrphanInv' /\ DeadInv'
<1>1. LeftOpen' \subseteq LeftOpen \cup ({c} \X {})
  BY LeftMore
<1>2. Cardinality({}) = 0
  BY KindSets
<1> QED
  BY <1>1, <1>2, SoundParts, OrphansMore, DeadSame, InstallAssumption
     DEF CountsOK

\* The copy takes a free drive, or its session is ended.
LEMMA SetCDSKeeps ==
    ASSUME Sound, TypeOK', HasTarget', SetCDS
    PROVE  InstallInv'
<1>1. /\ UNCHANGED <<vec, prev, hooks, loaded, open, torn, left, fails,
                     breaks>>
      /\ run.step = "cds" /\ run.copy # NoCopy
  BY DEF SetCDS, At
<1>2. /\ Coming /\ run.target = run.copy /\ ~torn
      /\ run.copy \in Copies /\ run.copy \notin loaded
  BY <1>1, SoundParts
     DEF OwnTarget, Installing, Coming, Running, TornStops, Nobody, RunInv
<1>3. ~Alive(run.copy)
  BY <1>1, <1>2, SoundParts DEF DriveInv
<1>4. /\ run'.copy = run.copy /\ run'.target = run.copy
      /\ \/ cds' = cds /\ run'.step = "closerpci"
         \/ /\ run'.step = "hook2f"
            /\ \E d \in Candidates :
                 cds' = [cds EXCEPT ![d] = [used |-> TRUE, sig |-> run.copy]]
  BY <1>2, SoundParts, NextStep DEF SetCDS, NoDrive
<1>5. Candidates \subseteq {d \in Drives : ~cds[d].used}
  BY DEF Candidates
\* The drives and copies after the step.
<1>6. /\ \A d \in Drives :
           \/ cds'[d] = cds[d]
           \/ /\ cds[d].sig = NoCopy /\ run'.step = "hook2f"
              /\ cds'[d].used /\ cds'[d].sig = run.copy
              /\ \A e \in Drives \ {d} : cds'[e] = cds[e]
      /\ run'.step = "hook2f" => \E d \in Drives : cds'[d].sig = run.copy
  <2>1. CASE cds' = cds /\ run'.step = "closerpci"
    BY <2>1
  <2>2. ASSUME run'.step = "hook2f", NEW d \in Candidates,
               cds' = [cds EXCEPT ![d] = [used |-> TRUE, sig |-> run.copy]]
        PROVE  /\ cds'[d].used /\ cds'[d].sig = run.copy /\ d \in Drives
               /\ \A e \in Drives \ {d} : cds'[e] = cds[e]
               /\ cds[d].sig = NoCopy
    BY <1>5, <2>2, SoundParts DEF CdsOK, DriveInv
  <2> QED
    BY <1>4, <2>1, <2>2
<1>7. \A e \in Copies \ {run.copy} : Alive(e)' <=> Alive(e)
  BY <1>6, InstallAssumption DEF Alive
<1>8. Alive(run.copy)' <=> run'.step = "hook2f"
  <2>1. run'.step = "hook2f" => Alive(run.copy)'
    BY <1>4, <1>6 DEF Alive
  <2>2. run'.step # "hook2f" => ~Alive(run.copy)'
    BY <1>3, <1>4 DEF Alive
  <2> QED
    BY <2>1, <2>2
<1>9. ChainInv'
  <2>1. ASSUME NEW e \in Copies, NEW v \in Vectors
        PROVE  CopyHooked(e, v)' <=> CopyHooked(e, v)
    BY <1>1, <1>2, <1>4, <1>7 DEF CopyHooked
  <2> QED
    BY <1>1, <1>2, <2>1, SoundParts, ChainsKept
<1>10. TopInv' /\ RunInv'
  BY <1>1, <1>2, <1>4, SoundParts
     DEF TopInv, RunInv, Coming, Going, Running, Installing
<1>11. DriveInv'
  <2>1. ASSUME NEW d \in Drives, cds'[d].sig # NoCopy
        PROVE  /\ cds'[d].used
               /\ cds'[d].sig \in loaded \cup {run.copy}
               /\ \A e \in Drives : cds'[e].sig = cds'[d].sig => e = d
    <3>1. CASE cds'[d] = cds[d]
      BY <1>2, <1>3, <1>6, <2>1, <3>1, SoundParts DEF DriveInv, Alive
    <3>2. CASE cds'[d] # cds[d]
      BY <1>3, <1>6, <3>2 DEF Alive
    <3> QED
      BY <3>1, <3>2
  <2>2. Coming' /\ ~Going'
    BY <1>1, <1>4 DEF Coming, Going, Running
  <2>3. Alive(run.copy)' <=> run'.step \in {"hook2f", "hook1c", "keep"}
    BY <1>4, <1>8
  <2> QED
    BY <1>1, <1>4, <2>1, <2>2, <2>3 DEF DriveInv
<1>12. OpenInv'
  <2>1. open[run.copy] = Kinds
    BY <1>1, <1>2, SoundParts DEF OpenInv, Running
  <2> QED
    BY <1>1, <1>2, <1>4, <1>7, <2>1, SoundParts DEF OpenInv, Running
<1>13. OrphanInv' /\ DeadInv'
  <2>1. Owed = 0 /\ Owed' = 0
    BY <1>1, <1>4 DEF Owed
  <2>2. Present' = Present
    BY <1>1, <1>2, <1>4 DEF Present
  <2>3. Dead' \subseteq Dead
    BY <1>1, <1>2, <1>4, <1>7 DEF Dead
  <2> QED
    BY <1>1, <1>2, <2>1, <2>2, <2>3, StepCounts
<1> QED
  BY <1>9, <1>10, <1>11, <1>12, <1>13 DEF InstallInv

\* The vector is as main has found it, so that the chain goes on from the
\* handler of the copy as it did without it.
LEMMA SetHandlersKeeps ==
    ASSUME Sound, TypeOK', HasTarget', SetHandlers
    PROVE  InstallInv'
<1>1. PICK w \in Vectors :
        \/ w = "2F" /\ Hook(w, "hook2f", "hook1c")
        \/ w = "1C" /\ Hook(w, "hook1c", "keep")
  BY DEF SetHandlers, Vectors
<1>2. /\ UNCHANGED <<prev, hooks, loaded, cds, open, torn, left, fails,
                     breaks>>
      /\ run.copy # NoCopy /\ vec' = [vec EXCEPT ![w] = run.copy]
      /\ \/ w = "2F" /\ run.step = "hook2f" /\ GoTo("hook1c")
         \/ w = "1C" /\ run.step = "hook1c" /\ GoTo("keep")
  BY <1>1 DEF Hook, At
<1>3. /\ Coming /\ run.target = run.copy /\ ~torn
      /\ run.copy \in Copies /\ run.copy \notin loaded
  BY <1>2, SoundParts
     DEF OwnTarget, Installing, Coming, Running, TornStops, Nobody, RunInv
<1>4. /\ run'.copy = run.copy /\ run'.target = run.copy
      /\ \/ w = "2F" /\ run'.step = "hook1c"
         \/ w = "1C" /\ run'.step = "keep"
  BY <1>2, <1>3, SoundParts, NextStep
<1>5. \A e : Alive(e)' <=> Alive(e)
  BY <1>2, AliveSame
<1>6. Alive(run.copy)
  BY <1>2, <1>3, SoundParts DEF DriveInv
<1>7. vec'[w] = run.copy /\ \A v \in Vectors \ {w} : vec'[v] = vec[v]
  BY <1>2, SoundParts DEF VecOK, Chains
<1>8. prev[run.copy][w] = vec[w]
  BY <1>2, <1>3, SoundParts DEF TopInv, Vectors
<1>9. ChainInv'
  <2>1. ASSUME NEW v \in Vectors
        PROVE  Chain(v)' = Hooked(v)' \cup {Dos}
    <3>1. CASE v # w
      <4>1. Chain(v)' = Chain(v)
        BY <1>2, <1>7, <3>1, SoundParts, NewTypes, ChainSame
      <4>2. ASSUME NEW e \in Copies
            PROVE  CopyHooked(e, v)' <=> CopyHooked(e, v)
        BY <1>2, <1>3, <1>4, <1>5, <3>1 DEF CopyHooked, Vectors
      <4>3. Hooked(v)' = Hooked(v)
        BY <1>2, <4>2 DEF Hooked
      <4> QED
        BY <1>3, <4>1, <4>3, SoundParts DEF ChainInv
    <3>2. CASE v = w
      <4>1. ~CopyHooked(run.copy, w)
        BY <1>2, <1>3 DEF CopyHooked
      <4>2. run.copy \notin Chain(w)
        BY <1>3, <4>1, SoundParts, OffChain
      <4>3. Chain(w)' = {run.copy} \cup Chain(w)
        BY <1>2, <1>3, <1>7, <1>8, <4>2, SoundParts, NewTypes, ChainPush
           DEF Programs
      <4>4. ASSUME NEW e \in Copies
            PROVE  CopyHooked(e, w)' <=> (e = run.copy \/ CopyHooked(e, w))
        BY <1>2, <1>3, <1>4, <1>5 DEF CopyHooked
      <4>5. Hooked(w)' = {run.copy} \cup Hooked(w)
        BY <1>2, <1>3, <4>4 DEF Hooked
      <4> QED
        BY <1>3, <3>2, <4>3, <4>5, SoundParts DEF ChainInv
    <3> QED
      BY <3>1, <3>2
  <2> QED
    BY <2>1 DEF ChainInv
<1>10. TopInv'
  <2>1. w = "2F" => prev[run.copy] = vec
    BY <1>2, <1>3, SoundParts DEF TopInv
  <2>2. w = "2F" => vec'["1C"] = vec["1C"]
    BY <1>7 DEF Vectors
  <2>3. Coming' /\ ~Going'
    BY <1>2, <1>4 DEF Coming, Going, Running
  <2> QED
    BY <1>2, <1>4, <2>1, <2>2, <2>3 DEF TopInv
<1>11. RunInv'
  BY <1>2, <1>3, <1>4, SoundParts
     DEF RunInv, Coming, Going, Running, Installing
<1>12. DriveInv'
  BY <1>2, <1>3, <1>4, <1>5, <1>6, SoundParts
     DEF DriveInv, Coming, Going, Running
<1>13. OpenInv'
  BY <1>2, <1>3, <1>4, <1>5, SoundParts DEF OpenInv, Running
<1>14. OrphanInv' /\ DeadInv'
  <2>1. Owed = 0 /\ Owed' = 0
    BY <1>2, <1>4 DEF Owed
  <2>2. Present' = Present
    BY <1>2, <1>3, <1>4 DEF Present
  <2>3. Dead' \subseteq Dead
    BY <1>2, <1>3, <1>4, <1>5 DEF Dead
  <2> QED
    BY <1>2, <1>3, <2>1, <2>2, <2>3, StepCounts
<1> QED
  BY <1>9, <1>10, <1>11, <1>12, <1>13, <1>14 DEF InstallInv

LEMMA KeepKeeps ==
    ASSUME Sound, TypeOK', HasTarget', Keep
    PROVE  InstallInv'
<1>1. /\ UNCHANGED <<vec, prev, hooks, cds, open, torn, left, fails, breaks>>
      /\ run.step = "keep" /\ run.copy # NoCopy
      /\ loaded' = loaded \cup {run.copy}
  BY DEF Keep, At
<1>2. /\ Coming /\ run.target = run.copy /\ ~torn
      /\ run.copy \in Copies /\ run.copy \notin loaded
  BY <1>1, SoundParts
     DEF OwnTarget, Installing, Coming, Running, TornStops, Nobody, RunInv
<1>3. /\ run'.copy = NoCopy /\ run'.target = NoCopy
      /\ run' = Nobody /\ NoCopy \notin Copies
  BY LastStep, InstallAssumption DEF Keep
<1>4. \A e : Alive(e)' <=> Alive(e)
  BY <1>1, AliveSame
<1>5. Alive(run.copy)
  BY <1>1, <1>2, SoundParts DEF DriveInv
<1>6. ChainInv'
  <2>1. ASSUME NEW e \in Copies, NEW v \in Vectors
        PROVE  CopyHooked(e, v)' <=> CopyHooked(e, v)
    BY <1>1, <1>2, <1>3, <1>4, <1>5 DEF CopyHooked
  <2>2. Others \cap loaded' = Others \cap loaded
    BY <1>1, <1>2, InstallAssumption
  <2> QED
    BY <1>1, <1>2, <2>1, <2>2, SoundParts, ChainsKept
<1>7. TopInv' /\ RunInv'
  BY <1>3 DEF TopInv, RunInv, Coming, Going, Running
<1>8. DriveInv'
  BY <1>1, <1>2, <1>3, SoundParts DEF DriveInv, Coming, Going, Running
<1>9. OpenInv'
  <2>1. open[run.copy] = Kinds
    BY <1>1, <1>2, SoundParts DEF OpenInv, Running
  <2> QED
    BY <1>1, <1>2, <1>3, <1>4, <2>1, SoundParts DEF OpenInv, Running
<1>10. OrphanInv' /\ DeadInv'
  <2>1. Owed = 0 /\ Owed' = 0
    BY <1>1, <1>3 DEF Owed, Running
  <2>2. Copies \ Present' \subseteq Copies \ Present
    BY <1>1, <1>2, <1>3 DEF Present
  <2>3. Dead' \subseteq Dead
    BY <1>1, <1>2, <1>3, <1>4, <1>5 DEF Dead
  <2> QED
    BY <1>1, <1>2, <2>1, <2>2, <2>3, StepCounts
<1> QED
  BY <1>6, <1>7, <1>8, <1>9, <1>10 DEF InstallInv

-----------------------------------------------------------------------------
(* The steps of UninstallDriver and VMAuxEndSession.                       *)

\* The copy is in front, so that without its handler the chain is what it was
\* but for the copy.
LEMMA UnhookKeeps ==
    ASSUME Sound, TypeOK', HasTarget', UninstallDriver
    PROVE  InstallInv'
<1>1. PICK w \in Vectors : \/ w = "1C" /\ Unhook(w, "un1c")
                           \/ w = "2F" /\ Unhook(w, "un2f")
  BY DEF UninstallDriver, Vectors
<1>2. /\ UNCHANGED <<prev, hooks, loaded, cds, open, torn, left, fails,
                     breaks>>
      /\ run.copy # NoCopy
      /\ vec' = [vec EXCEPT ![w] = prev[run.target][w]]
      /\ \/ w = "1C" /\ run.step = "un1c" /\ GoTo("un2f")
         \/ w = "2F" /\ run.step = "un2f" /\ GoTo("uncds")
  BY <1>1, AfterIs DEF Unhook, Unhooked, At
<1>3. /\ Going /\ run.target # run.copy /\ ~torn
      /\ run.copy \in Copies /\ run.copy \notin loaded
      /\ run.target \in Copies /\ run.target \in loaded
  BY <1>2, SoundParts DEF Coming, Going, Running, TornStops, Nobody, RunInv,
                          Installing, HasTarget
<1>4. /\ run'.copy = run.copy /\ run'.target = run.target
      /\ \/ w = "1C" /\ run'.step = "un2f"
         \/ w = "2F" /\ run'.step = "uncds"
  BY <1>2, <1>3, SoundParts, NextStep
<1>5. \A e : Alive(e)' <=> Alive(e)
  BY <1>2, AliveSame
<1>6. /\ vec'[w] = prev[run.target][w]
      /\ \A v \in Vectors \ {w} : vec'[v] = vec[v]
  BY <1>2, SoundParts DEF VecOK, Chains
<1>7. vec[w] = run.target
  BY <1>2, <1>3, SoundParts DEF TopInv
<1>8. ChainInv'
  <2>1. ASSUME NEW v \in Vectors
        PROVE  Chain(v)' = Hooked(v)' \cup {Dos}
    <3>1. CASE v # w
      <4>1. Chain(v)' = Chain(v)
        BY <1>2, <1>6, <3>1, SoundParts, NewTypes, ChainSame
      <4>2. ASSUME NEW e \in Copies
            PROVE  CopyHooked(e, v)' <=> CopyHooked(e, v)
        BY <1>2, <1>3, <1>4, <1>5, <3>1 DEF CopyHooked, Vectors
      <4>3. Hooked(v)' = Hooked(v)
        BY <1>2, <4>2 DEF Hooked
      <4> QED
        BY <1>3, <4>1, <4>3, SoundParts DEF ChainInv
    <3>2. CASE v = w
      <4>1. Chain(w) = Hooked(w) \cup {Dos}
        BY <1>3, SoundParts DEF ChainInv
      <4>2. Chain(w)' = Chain(w) \ {run.target}
        BY <1>2, <1>3, <1>6, <1>7, <4>1, SoundParts, NewTypes, ChainPop
           DEF Programs
      <4>3. ASSUME NEW e \in Copies
            PROVE  CopyHooked(e, w)'
                     <=> (e # run.target /\ CopyHooked(e, w))
        BY <1>2, <1>3, <1>4, <1>5 DEF CopyHooked
      <4>4. Hooked(w)' = Hooked(w) \ {run.target}
        BY <1>2, <1>3, <4>3, InstallAssumption DEF Hooked
      <4>5. run.target # Dos
        BY <1>3, InstallAssumption
      <4> QED
        BY <3>2, <4>1, <4>2, <4>4, <4>5
    <3> QED
      BY <3>1, <3>2
  <2> QED
    BY <2>1 DEF ChainInv
<1>9. Going' /\ ~Coming'
  BY <1>2, <1>3, <1>4 DEF Coming, Going, Running
<1>10. TopInv'
  <2>1. w = "1C" => vec'["2F"] = run.target
    BY <1>2, <1>3, <1>6, SoundParts DEF TopInv, Vectors
  <2> QED
    BY <1>4, <1>9, <2>1 DEF TopInv
<1>11. RunInv'
  BY <1>2, <1>3, <1>4, <1>9, SoundParts DEF RunInv, Running, Installing
<1>12. DriveInv'
  BY <1>2, <1>3, <1>4, <1>5, <1>9, SoundParts DEF DriveInv
<1>13. OpenInv'
  BY <1>2, <1>3, <1>4, <1>5, SoundParts DEF OpenInv, Running
<1>14. OrphanInv' /\ DeadInv'
  <2>1. Owed = 0 /\ Owed' = 0
    BY <1>2, <1>4 DEF Owed
  <2>2. Present' = Present
    BY <1>2, <1>3, <1>4 DEF Present
  <2>3. Dead' \subseteq Dead
    BY <1>2, <1>3, <1>4, <1>5 DEF Dead
  <2> QED
    BY <1>2, <1>3, <2>1, <2>2, <2>3, StepCounts
<1> QED
  BY <1>8, <1>10, <1>11, <1>12, <1>13, <1>14 DEF InstallInv

LEMMA ClearCDSKeeps ==
    ASSUME Sound, TypeOK', HasTarget', ClearCDS
    PROVE  InstallInv'
<1>1. /\ UNCHANGED <<vec, prev, hooks, loaded, open, torn, left, fails,
                     breaks>>
      /\ run.copy # NoCopy /\ run.step = "uncds" /\ GoTo("closerpci")
      /\ cds' = [d \in Drives |-> IF cds[d].sig = run.target /\ d >= FirstAuto
                                  THEN [used |-> FALSE, sig |-> NoCopy]
                                  ELSE cds[d]]
  BY AfterIs DEF ClearCDS, Cleared, At
<1>2. /\ Going /\ run.target # run.copy /\ ~torn
      /\ run.copy \in Copies /\ run.copy \notin loaded
      /\ run.target \in Copies /\ run.target \in loaded
  BY <1>1, SoundParts DEF Coming, Going, Running, TornStops, Nobody, RunInv,
                          Installing, HasTarget
<1>3. /\ run'.copy = run.copy /\ run'.target = run.target
      /\ run'.step = "closerpci" /\ NoCopy \notin Copies
  BY <1>1, <1>2, SoundParts, NextStep, InstallAssumption
<1>4. \A d \in Drives :
        IF cds[d].sig = run.target THEN cds'[d].sig = NoCopy
        ELSE cds'[d] = cds[d]
  BY <1>1, <1>2, SoundParts DEF DriveInv
<1>5. \A e \in Copies : IF e = run.target THEN ~Alive(e)'
                        ELSE Alive(e)' <=> Alive(e)
  BY <1>3, <1>4 DEF Alive
<1>6. ~Alive(run.target)'
  BY <1>2, <1>3, <1>4 DEF Alive
<1>7. ChainInv'
  <2>1. ASSUME NEW e \in Copies, NEW v \in Vectors
        PROVE  CopyHooked(e, v)' <=> CopyHooked(e, v)
    BY <1>1, <1>2, <1>3, <1>5 DEF CopyHooked
  <2> QED
    BY <1>1, <1>2, <2>1, SoundParts, ChainsKept
<1>8. Going' /\ ~Coming'
  BY <1>2, <1>3 DEF Coming, Going, Running
<1>9. TopInv' /\ RunInv'
  BY <1>1, <1>2, <1>3, <1>8, SoundParts
     DEF TopInv, RunInv, Running, Installing
<1>10. DriveInv'
  <2>1. ASSUME NEW d \in Drives, cds'[d].sig # NoCopy
        PROVE  /\ cds'[d].used
               /\ cds'[d].sig \in loaded \cup {run.target}
               /\ \A e \in Drives : cds'[e].sig = cds'[d].sig => e = d
    <3>1. cds'[d] = cds[d]
      BY <1>4, <2>1
    <3> QED
      BY <1>2, <1>4, <2>1, <3>1, SoundParts DEF DriveInv
  <2> QED
    BY <1>1, <1>3, <1>6, <1>8, <2>1 DEF DriveInv
<1>11. OpenInv'
  BY <1>1, <1>2, <1>3, <1>5, SoundParts DEF OpenInv, Running
<1>12. OrphanInv' /\ DeadInv'
  <2>1. Owed = 0 /\ Owed' = 0
    BY <1>1, <1>3 DEF Owed
  <2>2. Present' = Present
    BY <1>1, <1>3 DEF Present
  <2>3. Dead' \subseteq Dead
    BY <1>1, <1>2, <1>3, <1>5 DEF Dead
  <2> QED
    BY <1>1, <1>2, <2>1, <2>2, <2>3, StepCounts
<1> QED
  BY <1>7, <1>9, <1>10, <1>11, <1>12 DEF InstallInv

\* What the second close leaves open is what the first did, and what it fails
\* to close itself.
LEMMA CloseLeaves ==
    ASSUME Sound, TypeOK', run.copy # NoCopy, run.step = "closetclo",
           UNCHANGED breaks,
           \/ open' = [open EXCEPT ![run.target] = open[run.target] \ {"tclo"}]
              /\ UNCHANGED fails
           \/ Fails /\ UNCHANGED open
    PROVE  /\ open'[run.target] \in SUBSET Kinds
           /\ \A e \in Copies \ {run.target} : open'[e] = open[e]
           /\ Cardinality(open'[run.target]) + fails + 2 * breaks
                <= Owed + fails' + 2 * breaks'
<1>1. run.target \in Copies
  BY SoundParts DEF HasTarget
<1>2. /\ open'[run.target] \in SUBSET Kinds
      /\ \A e \in Copies \ {run.target} : open'[e] = open[e]
  BY <1>1, SoundParts, NewTypes DEF OpenOK
<1>3. fails \in Nat /\ breaks \in Nat
  BY SoundParts, InstallAssumption DEF CountsOK
<1>4. Owed = IF "rpci" \in open[run.target] THEN 1 ELSE 0
  BY DEF Owed, Running
<1>5. PICK k : k = Cardinality(open'[run.target])
  OBVIOUS
<1>6. k \in Nat /\ k <= 2
  BY <1>2, <1>5, KindSets
<1>7. PICK K : K = open'[run.target]
  OBVIOUS
<1>8. K \in SUBSET Kinds /\ k = Cardinality(K)
  BY <1>2, <1>5, <1>7
<1>9. /\ "rpci" \notin K => k <= 1
      /\ "tclo" \notin K => k <= 1
      /\ K = {} => k = 0
      /\ "rpci" \notin K /\ "tclo" \notin K => k = 0
  <2>1. K = {} \/ K = {"rpci"} \/ K = {"tclo"} \/ K = Kinds
    BY <1>8 DEF Kinds
  <2>2. /\ Cardinality({"rpci"}) = 1 /\ Cardinality({"tclo"}) = 1
        /\ Cardinality({}) = 0
    BY KindSets DEF Kinds
  <2>3. CASE K = {}
    BY <1>8, <2>2, <2>3
  <2>4. CASE K = {"rpci"}
    BY <1>8, <2>2, <2>4
  <2>5. CASE K = {"tclo"}
    BY <1>8, <2>2, <2>5
  <2>6. CASE K = Kinds
    BY <2>6 DEF Kinds
  <2> QED
    BY <2>1, <2>3, <2>4, <2>5, <2>6
<1>10. CASE /\ K = open[run.target] \ {"tclo"} /\ UNCHANGED fails
  <2>1. IF "rpci" \in open[run.target] THEN k <= 1 ELSE k = 0
    BY <1>9, <1>10
  <2>2. k <= Owed
    BY <1>4, <1>6, <2>1
  <2>3. PICK o : o = Owed
    OBVIOUS
  <2>4. o \in Nat
    BY <1>4, <2>3
  <2>5. k + fails + 2 * breaks <= o + fails' + 2 * breaks'
    BY <1>3, <1>6, <1>10, <2>2, <2>3, <2>4
  <2> QED
    BY <1>2, <1>5, <2>3, <2>5
<1>11. CASE K = open[run.target] /\ fails' = fails + 1
  <2>1. k <= Owed + 1
    BY <1>4, <1>6, <1>9, <1>11
  <2>2. PICK o : o = Owed
    OBVIOUS
  <2>3. o \in Nat
    BY <1>4, <2>2
  <2>4. k + fails + 2 * breaks <= o + fails' + 2 * breaks'
    BY <1>3, <1>6, <1>11, <2>1, <2>2, <2>3
  <2> QED
    BY <1>2, <1>5, <2>2, <2>4
<1>12. \/ K = open[run.target] \ {"tclo"} /\ UNCHANGED fails
       \/ K = open[run.target] /\ fails' = fails + 1
  BY <1>1, <1>7, SoundParts DEF OpenOK, Fails
<1> QED
  BY <1>10, <1>11, <1>12

LEMMA EndSessionKeeps ==
    ASSUME Sound, TypeOK', HasTarget', EndSession
    PROVE  InstallInv'
<1>1. /\ UNCHANGED <<vec, hooks, loaded, cds, torn, left, breaks>>
      /\ run.copy # NoCopy /\ ~torn
      /\ run.step \in {"closerpci", "closetclo"}
  BY SoundParts DEF EndSession, CloseChannel, At, TornStops, Nobody
<1>2. /\ run.copy \in Copies /\ run.copy \notin loaded
      /\ run.target \in Copies /\ run.target \in loaded \cup {run.copy}
      /\ NoCopy \notin Copies
  BY <1>1, SoundParts, InstallAssumption
     DEF Coming, Going, Running, RunInv, HasTarget
<1>3. \A e : Alive(e)' <=> Alive(e)
  BY <1>1, AliveSame
<1>4. ~Alive(run.target)
  BY <1>1, SoundParts DEF DriveInv, Coming, Going, Running
\* A step that stays in the run.
<1>5. ASSUME run'.copy = run.copy, run'.target = run.target,
             run'.step = "closetclo" \/ (Going /\ run'.step = "free"),
             prev' = prev, fails' >= fails,
             \A e \in Copies \ {run.target} : open'[e] = open[e],
             Owed' + fails + 2 * breaks <= Owed + fails' + 2 * breaks'
      PROVE  InstallInv'
  <2>1. ChainInv'
    <3>1. ASSUME NEW e \in Copies, NEW v \in Vectors
          PROVE  CopyHooked(e, v)' <=> CopyHooked(e, v)
      BY <1>1, <1>3, <1>5 DEF CopyHooked
    <3> QED
      BY <1>1, <1>2, <1>5, <3>1, SoundParts, ChainsKept
  <2>2. /\ Coming' <=> Coming
        /\ Going' <=> Going
    BY <1>5 DEF Coming, Going, Running
  <2>3. TopInv' /\ RunInv'
    BY <1>1, <1>2, <1>5, <2>2, SoundParts
       DEF TopInv, RunInv, Running, Installing, Coming, Going
  <2>4. DriveInv'
    <3>1. ~Alive(run.target)'
      BY <1>1, <1>4, <1>5 DEF Alive
    <3>2. ~Coming \/ ~Alive(run.copy)'
      BY <1>5, <3>1 DEF Coming, Alive
    <3> QED
      BY <1>1, <1>5, <2>2, <3>1, <3>2, SoundParts DEF DriveInv, Going
  <2>5. OpenInv'
    BY <1>1, <1>3, <1>5, SoundParts DEF OpenInv, Running
  <2>6. OrphanInv'
    <3>1. Present' = Present
      BY <1>1, <1>5 DEF Present
    <3>2. run.target \in Present
      BY DEF Present
    <3>3. \A e \in Copies \ Present' :
              e \notin Present /\ open'[e] \subseteq open[e]
      BY <1>5, <3>1, <3>2
    <3>4. LeftOpen' \subseteq LeftOpen \cup ({run.target} \X {})
      BY <1>2, <3>3, LeftMore
    <3>5. Cardinality({}) + Owed' + fails + 2 * breaks
            <= Owed + fails' + 2 * breaks'
      <4>1. PICK p : p = Owed'
        OBVIOUS
      <4>2. p \in Nat /\ Cardinality({}) = 0
        BY <4>1, SoundParts, NewTypes, OwedNatNew, KindSets
      <4>3. 0 + p = p
        BY <4>2
      <4> QED
        BY <1>5, <4>1, <4>2, <4>3
    <3> QED
      BY <1>1, <1>2, <3>4, <3>5, SoundParts, OrphansMore
  <2>7. DeadInv'
    <3>1. Dead' \subseteq Dead
      BY <1>1, <1>3, <1>5 DEF Dead
    <3> QED
      BY <1>1, <3>1, SoundParts, InstallAssumption, DeadSame DEF CountsOK
  <2> QED
    BY <2>1, <2>3, <2>4, <2>5, <2>6, <2>7 DEF InstallInv
<1>6. CASE /\ run.step = "closerpci" /\ CloseChannel("rpci", "closerpci")
           /\ GoTo("closetclo") /\ UNCHANGED prev
  <2>1. /\ run'.copy = run.copy /\ run'.target = run.target
        /\ run'.step = "closetclo"
    BY <1>6, SoundParts, NextStep
  <2>2. /\ \A e \in Copies \ {run.target} : open'[e] = open[e]
        /\ \/ "rpci" \notin open'[run.target] /\ fails' = fails
           \/ fails' = fails + 1
    BY <1>2, <1>6, SoundParts DEF CloseChannel, OpenOK, Fails
  <2>3. Owed = 0
    BY <1>6 DEF Owed
  <2>4. Owed' = IF "rpci" \in open'[run.target] THEN 1 ELSE 0
    BY <1>1, <2>1 DEF Owed, Running
  <2>5. fails \in Nat /\ breaks \in Nat
    BY SoundParts, InstallAssumption DEF CountsOK
  <2>6. Owed' + fails + 2 * breaks <= Owed + fails' + 2 * breaks'
    <3>1. PICK p : p = Owed'
      OBVIOUS
    <3>2. \/ p = 0 /\ fails' = fails
          \/ p \in {0, 1} /\ fails' = fails + 1
      BY <2>2, <2>4, <3>1
    <3>3. p + fails + 2 * breaks <= 0 + fails' + 2 * breaks'
      BY <1>1, <2>5, <3>2
    <3> QED
      BY <2>3, <3>1, <3>3
  <2>7. fails' >= fails
    BY <2>2, <2>5
  <2> QED
    BY <1>5, <1>6, <2>1, <2>2, <2>6, <2>7
<1>7. CASE run.step = "closetclo" /\ CloseChannel("tclo", "closetclo")
           /\ IF run.target = run.copy THEN Exit /\ prev' = Forgotten(run.copy)
              ELSE GoTo("free") /\ UNCHANGED prev
  <2>1. /\ open'[run.target] \in SUBSET Kinds
        /\ \A e \in Copies \ {run.target} : open'[e] = open[e]
        /\ Cardinality(open'[run.target]) + fails + 2 * breaks
             <= Owed + fails' + 2 * breaks'
    BY <1>1, <1>7, CloseLeaves DEF CloseChannel
  <2>2. CASE run.target = run.copy
    <3>1. Coming
      BY <1>1, <2>2 DEF Coming, Running
    <3>2. breaks' >= breaks
      BY <1>1, SoundParts, InstallAssumption DEF CountsOK
    <3> QED
      BY <1>1, <1>7, <2>1, <2>2, <3>1, <3>2, RunEnds
  <2>3. CASE run.target # run.copy
    <3>1. /\ run'.copy = run.copy /\ run'.target = run.target
          /\ run'.step = "free" /\ prev' = prev
      BY <1>7, <2>3, SoundParts, NextStep
    <3>2. Owed' = Cardinality(open'[run.target])
      BY <1>1, <3>1 DEF Owed, Running
    <3>3. fails' >= fails
      BY <1>7, SoundParts, InstallAssumption
         DEF CloseChannel, Fails, CountsOK
    <3>4. Going
      BY <1>1, <2>3 DEF Going, Running
    <3> QED
      BY <1>5, <2>1, <3>1, <3>2, <3>3, <3>4
  <2> QED
    BY <2>2, <2>3
<1> QED
  BY <1>6, <1>7, AfterIs DEF EndSession, CloseChannel, At

\* Nobody has a handler of the copy behind its own, so that its memory can go.
LEMMA FreeKeeps ==
    ASSUME Sound, TypeOK', HasTarget', Free
    PROVE  InstallInv'
<1>1. /\ UNCHANGED <<vec, hooks, cds, open, torn, left, fails, breaks>>
      /\ run.copy # NoCopy /\ run.step = "free" /\ ~torn
      /\ loaded' = loaded \ {run.target}
      /\ prev' = Forgotten(run.target)
  BY SoundParts DEF Free, At, TornStops, Nobody
<1>2. /\ Going /\ run.target # run.copy
      /\ run.copy \in Copies /\ run.copy \notin loaded
      /\ run.target \in Copies /\ run.target \in loaded
  BY <1>1, SoundParts DEF Coming, Going, Running, RunInv, Installing, HasTarget
<1>3. /\ run'.copy = NoCopy /\ run'.target = NoCopy
      /\ run' = Nobody /\ NoCopy \notin Copies
  BY LastStep, InstallAssumption DEF Free
<1>4. \A e : Alive(e)' <=> Alive(e)
  BY <1>1, AliveSame
<1>5. ~Alive(run.target)
  BY <1>1, <1>2, SoundParts DEF DriveInv
<1>6. ChainInv'
  <2>1. ASSUME NEW e \in Copies, NEW v \in Vectors
        PROVE  CopyHooked(e, v)' <=> CopyHooked(e, v)
    BY <1>1, <1>2, <1>3, <1>4 DEF CopyHooked
  <2>2. Others \cap loaded' = Others \cap loaded
    BY <1>1, <1>2, InstallAssumption
  <2>3. \A v \in Vectors : ~CopyHooked(run.target, v)
    BY <1>1, <1>2 DEF CopyHooked
  <2>4. \A p \in Programs \ {run.target} : prev'[p] = prev[p]
    BY <1>1, SoundParts DEF PrevOK, Forgotten
  <2> QED
    BY <1>1, <1>2, <2>1, <2>2, <2>3, <2>4, SoundParts, ChainsKept
<1>7. TopInv' /\ RunInv'
  BY <1>3 DEF TopInv, RunInv, Coming, Going, Running
<1>8. DriveInv'
  <2>1. \A e \in Drives : cds[e].sig # NoCopy =>
          /\ cds[e].used /\ cds[e].sig \in loaded'
          /\ \A b \in Drives : cds[b].sig = cds[e].sig => b = e
    BY <1>1, <1>2, <1>5, SoundParts DEF DriveInv, Alive
  <2> QED
    BY <1>1, <1>3, <2>1 DEF DriveInv, Coming, Going, Running
<1>9. OpenInv'
  BY <1>1, <1>3, <1>4, SoundParts DEF OpenInv, Running
<1>10. OrphanInv'
  <2>1. open[run.target] \in SUBSET Kinds
    BY <1>2, SoundParts DEF OpenOK
  <2>2. Owed = Cardinality(open[run.target]) /\ Owed' = 0
    BY <1>1, <1>3 DEF Owed, Running
  <2>3. \A e \in Copies \ Present' :
            \/ e \notin Present /\ open'[e] \subseteq open[e]
            \/ e = run.target /\ open'[e] \subseteq open[run.target]
    BY <1>1, <1>2, <1>3 DEF Present
  <2>4. LeftOpen' \subseteq LeftOpen \cup ({run.target} \X open[run.target])
    BY <1>2, <2>1, <2>3, LeftMore
  <2>5. Cardinality(open[run.target]) + Owed' + fails + 2 * breaks
          <= Owed + fails' + 2 * breaks'
    <3>1. PICK k : k = Cardinality(open[run.target])
      OBVIOUS
    <3>2. k \in Nat /\ fails \in Nat /\ breaks \in Nat
      BY <2>1, <3>1, KindSets, SoundParts, InstallAssumption DEF CountsOK
    <3>3. k + 0 + fails + 2 * breaks <= k + fails' + 2 * breaks'
      BY <1>1, <3>2
    <3> QED
      BY <2>2, <3>1, <3>3
  <2> QED
    BY <1>1, <1>2, <2>1, <2>4, <2>5, SoundParts, OrphansMore
<1>11. DeadInv'
  <2>1. Dead' \subseteq Dead
    BY <1>1, <1>2, <1>3, <1>4 DEF Dead
  <2> QED
    BY <1>1, <2>1, SoundParts, InstallAssumption, DeadSame DEF CountsOK
<1> QED
  BY <1>6, <1>7, <1>8, <1>9, <1>10, <1>11 DEF InstallInv

\* An interruption leaves channels, a copy that is never freed, or, with the
\* handlers in place, nothing that could be relied on.
LEMMA BreakKeeps ==
    ASSUME Sound, TypeOK', HasTarget', Break
    PROVE  InstallInv'
<1>1. /\ UNCHANGED <<vec, hooks, loaded, cds, open, left, fails>>
      /\ breaks' = breaks + 1 /\ Exit /\ run.copy # NoCopy /\ ~torn
      /\ torn' = At("keep")
      /\ \/ run.step \in {"cds", "keep", "free"}
         \/ run.step = "closerpci" /\ run.target = run.copy
  BY SoundParts DEF Break, At, TornStops, Nobody
<1>2. /\ run'.copy = NoCopy /\ run'.target = NoCopy
      /\ run' = Nobody /\ NoCopy \notin Copies
  BY <1>1, LastStep, InstallAssumption
<1>3. \A e : Alive(e)' <=> Alive(e)
  BY <1>1, AliveSame
<1>4. fails \in Nat /\ breaks \in Nat /\ breaks' \in Nat /\ breaks' >= breaks
  BY <1>1, SoundParts, InstallAssumption DEF CountsOK
<1>5. CASE run.step = "keep"
  <2>1. torn'
    BY <1>1, <1>5, Zenon DEF At
  <2>2. TopInv' /\ RunInv'
    BY <1>2 DEF TopInv, RunInv, Coming, Going, Running
  <2>3. DriveInv'
    BY <1>1, <1>2, <2>1, SoundParts DEF DriveInv, Coming, Going, Running
  <2> QED
    BY <2>1, <2>2, <2>3
       DEF InstallInv, ChainInv, OpenInv, OrphanInv, DeadInv
<1>6. CASE run.step # "keep"
  <2>1. torn' = FALSE /\ torn = FALSE
    BY <1>1, <1>6, SoundParts, Zenon DEF At, TypeOK
  <2>2. CASE run.step \in {"cds", "closerpci"}
    <3>1. /\ Coming /\ prev' = Forgotten(run.copy)
          /\ run.target = run.copy
      BY <1>1, <2>2, SoundParts
         DEF Break, At, Coming, Running, OwnTarget, Installing
    <3>2. open'[run.copy] \subseteq Kinds
      BY <1>1, SoundParts DEF OpenOK, HasTarget, RunInv, Running
    <3>3. Cardinality(Kinds) + fails + 2 * breaks
            <= Owed + fails' + 2 * breaks'
      <4>1. Owed = 0 /\ Cardinality(Kinds) = 2
        BY <2>2, KindSets DEF Owed
      <4>2. 2 + fails + 2 * breaks <= 0 + fails' + 2 * breaks'
        BY <1>1, <1>4
      <4> QED
        BY <4>1, <4>2
    <3> QED
      BY <1>1, <1>4, <2>1, <2>2, <3>1, <3>2, <3>3, RunEnds
  <2>3. CASE run.step = "free"
    <3>1. /\ Going /\ run.target # run.copy /\ prev' = prev
          /\ run.copy \in Copies /\ run.copy \notin loaded
          /\ run.target \in Copies /\ run.target \in loaded
      BY <1>1, <2>3, SoundParts
         DEF Break, At, Coming, Going, Running, RunInv, Installing, HasTarget
    <3>2. ~Alive(run.target)
      BY <2>3, <3>1, SoundParts DEF DriveInv
    <3>3. ChainInv'
      <4>1. ASSUME NEW e \in Copies, NEW v \in Vectors
            PROVE  CopyHooked(e, v)' <=> CopyHooked(e, v)
        BY <1>1, <1>2, <1>3, <2>3, <3>1, <3>2 DEF CopyHooked
      <4> QED
        BY <1>1, <3>1, <4>1, SoundParts, ChainsKept
    <3>4. TopInv' /\ RunInv'
      BY <1>2 DEF TopInv, RunInv, Coming, Going, Running
    <3>5. DriveInv'
      BY <1>1, <1>2, <3>1, SoundParts DEF DriveInv, Coming, Going, Running
    <3>6. OpenInv'
      BY <1>1, <1>2, <1>3, <3>1, <3>2, SoundParts DEF OpenInv, Running
    <3>7. OrphanInv'
      <4>1. Owed \in Nat /\ Owed' = 0 /\ Cardinality({}) = 0
        BY <1>2, SoundParts, OwedNat, KindSets DEF Owed, Running
      <4>2. \A e \in Copies \ Present' :
                e \notin Present /\ open'[e] \subseteq open[e]
        BY <1>1, <1>2, <3>1 DEF Present
      <4>3. LeftOpen' \subseteq LeftOpen \cup ({run.copy} \X {})
        BY <3>1, <4>2, LeftMore
      <4>4. Cardinality({}) + Owed' + fails + 2 * breaks
              <= Owed + fails' + 2 * breaks'
        <5>1. PICK o : o = Owed
          OBVIOUS
        <5>2. 0 + 0 + fails + 2 * breaks <= o + fails' + 2 * breaks'
          BY <1>1, <1>4, <4>1, <5>1
        <5> QED
          BY <4>1, <5>1, <5>2
      <4> QED
        BY <1>1, <3>1, <4>3, <4>4, SoundParts, OrphansMore
    <3>8. DeadInv'
      <4>1. IsFiniteSet(Dead) /\ Cardinality(Dead) <= breaks
        BY <1>1, SoundParts DEF DeadInv
      <4>2. Dead' \subseteq Dead \cup {run.target}
        BY <1>1, <1>2, <1>3 DEF Dead
      <4>3. /\ IsFiniteSet(Dead \cup {run.target})
            /\ Cardinality(Dead) \in Nat
            /\ Cardinality(Dead \cup {run.target}) = Cardinality(Dead) + 1
        <5>1. run.target \notin Dead
          BY DEF Dead
        <5> QED
          BY <4>1, <5>1, FS_AddElement, FS_CardinalityType
      <4>4. /\ IsFiniteSet(Dead')
            /\ Cardinality(Dead') <= Cardinality(Dead \cup {run.target})
            /\ Cardinality(Dead') \in Nat
            /\ Cardinality(Dead \cup {run.target}) \in Nat
        BY <4>2, <4>3, FS_Subset, FS_CardinalityType
      <4>5. Cardinality(Dead') <= breaks'
        BY <1>1, <1>4, <4>1, <4>3, <4>4
      <4> QED
        BY <4>4, <4>5 DEF DeadInv
    <3> QED
      BY <3>3, <3>4, <3>5, <3>6, <3>7, <3>8 DEF InstallInv
  <2> QED
    BY <1>1, <1>6, <2>2, <2>3
<1> QED
  BY <1>5, <1>6

-----------------------------------------------------------------------------
(* The others.                                                             *)

\* The rest, when nobody runs and the vectors and drives of copies stay.
LEMMA IdleKeeps ==
    ASSUME Sound, TypeOK', HasTarget', Idle, ChainInv',
           UNCHANGED <<open, run, torn, left, fails, breaks>>,
           Copies \cap loaded' = Copies \cap loaded,
           \A d \in Drives : cds'[d].sig = cds[d].sig
                             /\ (cds'[d].sig # NoCopy => cds'[d].used)
    PROVE  InstallInv'
<1>1. /\ run = Nobody /\ run.copy = NoCopy /\ run.target = NoCopy /\ ~torn
      /\ NoCopy \notin Copies
  BY InstallAssumption DEF Idle, Nobody
<1>2. \A e : Alive(e)' <=> Alive(e)
  BY AliveSame
<1>3. TopInv' /\ RunInv'
  BY <1>1 DEF TopInv, RunInv, Coming, Going, Running
<1>4. DriveInv'
  <2>1. ASSUME NEW d \in Drives, cds'[d].sig # NoCopy
        PROVE  /\ cds'[d].used /\ cds'[d].sig \in loaded' \cup {run'.target}
               /\ \A e \in Drives : cds'[e].sig = cds'[d].sig => e = d
    <3>1. cds[d].sig # NoCopy
      BY <2>1
    <3>2. /\ cds[d].sig \in loaded \cup {run.target}
          /\ \A e \in Drives : cds[e].sig = cds[d].sig => e = d
      BY <1>1, <3>1, SoundParts DEF DriveInv
    <3>3. cds[d].sig \in Copies
      <4>1. cds[d] \in Entries
        BY SoundParts DEF CdsOK
      <4>2. cds[d].sig \in Copies \cup {NoCopy}
        BY <4>1, Zenon DEF Entries
      <4> QED
        BY <3>1, <4>2
    <3> QED
      BY <1>1, <2>1, <3>1, <3>2, <3>3
  <2> QED
    BY <1>1, <2>1 DEF DriveInv, Coming, Going, Running
<1>5. OpenInv'
  BY <1>1, <1>2, SoundParts DEF OpenInv, Running
<1>6. ASSUME NEW c \in Copies
      PROVE  OrphanInv' /\ DeadInv'
  <2>1. Owed = 0 /\ Owed' = 0
    BY <1>1 DEF Owed, Running
  <2>2. Copies \ Present' \subseteq Copies \ Present
    BY DEF Present
  <2>3. Dead' \subseteq Dead
    BY <1>2 DEF Dead
  <2> QED
    BY <1>1, <2>1, <2>2, <2>3, StepCounts
\* Without copies there is nothing to count.
<1>7. CASE Copies = {}
  <2>1. LeftOpen = {} /\ LeftOpen' = {} /\ Dead = {} /\ Dead' = {}
    BY <1>7 DEF LeftOpen, Dead
  <2>2. Owed = 0 /\ Owed' = 0
    BY <1>1 DEF Owed, Running
  <2> QED
    BY <1>1, <1>3, <1>4, <1>5, <2>1, <2>2, SoundParts
       DEF InstallInv, OrphanInv, DeadInv
<1> QED
  BY <1>3, <1>4, <1>5, <1>6, <1>7 DEF InstallInv

LEMMA OtherLoadsKeeps ==
    ASSUME Sound, TypeOK', HasTarget', NEW o \in Others,
           NEW vs \in SUBSET Vectors, OtherLoads(o, vs)
    PROVE  InstallInv'
<1>1. /\ UNCHANGED <<cds, open, run, torn, left, fails, breaks>>
      /\ Idle /\ ~torn /\ o \notin loaded
      /\ prev' = [prev EXCEPT ![o] = vec]
      /\ vec' = [v \in Vectors |-> IF v \in vs THEN o ELSE vec[v]]
      /\ hooks' = [hooks EXCEPT ![o] = vs]
      /\ loaded' = loaded \cup {o}
  BY DEF OtherLoads, Idle
<1>2. o \notin Copies /\ o # Dos /\ o \in Programs
  BY InstallAssumption DEF Programs
<1>3. /\ prev'[o] = vec /\ \A p \in Programs \ {o} : prev'[p] = prev[p]
      /\ hooks'[o] = vs /\ \A p \in Others \ {o} : hooks'[p] = hooks[p]
  BY <1>1, <1>2, SoundParts DEF PrevOK, HooksOK
<1>4. \A e : Alive(e)' <=> Alive(e)
  BY <1>1, AliveSame
<1>5. ASSUME NEW v \in Vectors
      PROVE  Chain(v)' = Hooked(v)' \cup {Dos}
  <2>1. Chain(v) = Hooked(v) \cup {Dos}
    BY <1>1, SoundParts DEF ChainInv
  <2>2. o \notin Chain(v)
    BY <1>1, <1>2, <2>1 DEF Hooked
  <2>3. ASSUME NEW e \in Copies
        PROVE  CopyHooked(e, v)' <=> CopyHooked(e, v)
    BY <1>1, <1>2, <1>4 DEF CopyHooked
  <2>4. Hooked(v)' = Hooked(v) \cup {p \in {o} : v \in vs}
    BY <1>1, <1>3, <2>3 DEF Hooked
  <2>5. CASE v \in vs
    <3>1. Chain(v)' = {o} \cup Chain(v)
      <4>1. vec'[v] = o /\ prev'[o][v] = vec[v]
        BY <1>1, <1>3, <2>5
      <4> QED
        BY <1>2, <1>3, <2>2, <4>1, SoundParts, NewTypes, ChainPush
    <3> QED
      BY <2>1, <2>4, <2>5, <3>1
  <2>6. CASE v \notin vs
    <3>1. Chain(v)' = Chain(v)
      <4>1. vec'[v] = vec[v]
        BY <1>1, <2>6
      <4> QED
        BY <1>3, <2>2, <4>1, SoundParts, NewTypes, ChainSame
    <3> QED
      BY <2>1, <2>4, <2>6, <3>1
  <2> QED
    BY <2>5, <2>6
<1>6. ChainInv'
  BY <1>5 DEF ChainInv
<1>7. Copies \cap loaded' = Copies \cap loaded
  BY <1>1, <1>2
<1>8. \A d \in Drives : cds'[d].sig = cds[d].sig
                        /\ (cds'[d].sig # NoCopy => cds'[d].used)
  BY <1>1, SoundParts DEF DriveInv
<1> QED
  BY <1>1, <1>6, <1>7, <1>8, IdleKeeps

\* It leaves only from the front of the chains it is on.
LEMMA OtherLeavesKeeps ==
    ASSUME Sound, TypeOK', HasTarget', NEW o \in Others, OtherLeaves(o)
    PROVE  InstallInv'
<1>1. /\ UNCHANGED <<cds, open, run, torn, left, fails, breaks>>
      /\ Idle /\ ~torn /\ o \in loaded
      /\ \A v \in hooks[o] : vec[v] = o
      /\ prev' = Forgotten(o)
      /\ vec' = [v \in Vectors |-> IF v \in hooks[o] THEN prev[o][v]
                                   ELSE vec[v]]
      /\ hooks' = [hooks EXCEPT ![o] = {}]
      /\ loaded' = loaded \ {o}
  BY DEF OtherLeaves, Idle
<1>2. o \notin Copies /\ o # Dos /\ o \in Programs
  BY InstallAssumption DEF Programs
<1>3. /\ \A p \in Programs \ {o} : prev'[p] = prev[p]
      /\ \A p \in Others \ {o} : hooks'[p] = hooks[p]
  BY <1>1, <1>2, SoundParts DEF PrevOK, HooksOK, Forgotten
<1>4. \A e : Alive(e)' <=> Alive(e)
  BY <1>1, AliveSame
<1>5. ASSUME NEW v \in Vectors
      PROVE  Chain(v)' = Hooked(v)' \cup {Dos}
  <2>1. Chain(v) = Hooked(v) \cup {Dos}
    BY <1>1, SoundParts DEF ChainInv
  <2>2. ASSUME NEW e \in Copies
        PROVE  CopyHooked(e, v)' <=> CopyHooked(e, v)
    BY <1>1, <1>2, <1>4 DEF CopyHooked
  <2>3. Hooked(v)' = Hooked(v) \ {o}
    BY <1>1, <1>2, <1>3, <2>2 DEF Hooked
  <2>4. CASE v \in hooks[o]
    <3>1. Chain(v)' = Chain(v) \ {o}
      <4>1. vec[v] = o /\ vec'[v] = prev[o][v] /\ Dos \in Chain(v)
        BY <1>1, <2>1, <2>4
      <4> QED
        BY <1>2, <1>3, <4>1, SoundParts, NewTypes, ChainPop
    <3> QED
      BY <1>2, <2>1, <2>3, <3>1
  <2>5. CASE v \notin hooks[o]
    <3>1. o \notin Chain(v)
      BY <1>2, <2>1, <2>5 DEF Hooked
    <3>2. Chain(v)' = Chain(v)
      <4>1. vec'[v] = vec[v]
        BY <1>1, <2>5
      <4> QED
        BY <1>3, <3>1, <4>1, SoundParts, NewTypes, ChainSame
    <3> QED
      BY <2>1, <2>3, <3>1, <3>2
  <2> QED
    BY <2>4, <2>5
<1>6. ChainInv'
  BY <1>5 DEF ChainInv
<1>7. Copies \cap loaded' = Copies \cap loaded
  BY <1>1, <1>2
<1>8. \A d \in Drives : cds'[d].sig = cds[d].sig
                        /\ (cds'[d].sig # NoCopy => cds'[d].used)
  BY <1>1, SoundParts DEF DriveInv
<1> QED
  BY <1>1, <1>6, <1>7, <1>8, IdleKeeps

LEMMA OtherDriveKeeps ==
    ASSUME Sound, TypeOK', HasTarget', NEW d \in Drives, OtherDrive(d)
    PROVE  InstallInv'
<1>1. /\ UNCHANGED <<vec, prev, hooks, loaded, open, run, torn, left, fails,
                     breaks>>
      /\ Idle /\ ~torn /\ cds[d].sig = NoCopy
      /\ cds' = [cds EXCEPT ![d] = [cds[d] EXCEPT !.used = ~cds[d].used]]
  BY DEF OtherDrive, Idle
<1>2. \A e \in Drives : cds'[e].sig = cds[e].sig
                        /\ (cds'[e].sig # NoCopy => cds'[e].used)
  <2>1. ASSUME NEW e \in Drives, e # d
        PROVE  cds'[e] = cds[e] /\ (cds[e].sig # NoCopy => cds[e].used)
    BY <1>1, <2>1, SoundParts DEF CdsOK, DriveInv
  <2>2. cds'[d].sig = cds[d].sig
    <3>1. cds'[d] = [cds[d] EXCEPT !.used = ~cds[d].used]
      BY <1>1, SoundParts, Zenon DEF CdsOK
    <3>2. cds[d] \in Entries
      BY SoundParts DEF CdsOK
    <3>3. [cds[d] EXCEPT !.used = ~cds[d].used].sig = cds[d].sig
      BY <3>2, Zenon DEF Entries
    <3> QED
      BY <3>1, <3>3
  <2> QED
    BY <1>1, <2>1, <2>2
<1>3. \A e : Alive(e)' <=> Alive(e)
  BY <1>2, AliveSame
<1>4. ASSUME NEW v \in Vectors
      PROVE  Chain(v)' = Chain(v) /\ Hooked(v)' = Hooked(v)
  <2>1. Chain(v)' = Chain(v)
    BY <1>1, SoundParts, NewTypes, ChainSame
  <2>2. ASSUME NEW e \in Copies
        PROVE  CopyHooked(e, v)' <=> CopyHooked(e, v)
    BY <1>1, <1>3 DEF CopyHooked
  <2> QED
    BY <1>1, <2>1, <2>2 DEF Hooked
<1>5. ChainInv'
  BY <1>1, <1>4, SoundParts DEF ChainInv
<1> QED
  BY <1>1, <1>2, <1>5, IdleKeeps

\* Nothing of this is about what the steps leave alone.
LEMMA StutterKeeps ==
    ASSUME InstallInv, UNCHANGED vars
    PROVE  InstallInv'
  BY DEF vars, InstallInv, ChainInv, TopInv, RunInv, DriveInv, OpenInv,
         OrphanInv, DeadInv, Chain, Hooked, CopyHooked, Alive, Running,
         Coming, Going, LeftOpen, Owed, Dead, Present

LEMMA InstallStep ==
    ASSUME Sound, TypeOK', HasTarget', Next \/ Refuse
    PROVE  InstallInv'
<1>1. CASE Starts
  BY <1>1, StartKeeps DEF Starts
<1>2. CASE Refuse
  BY <1>2, RefuseKeeps
<1>3. CASE \E c \in Copies : StartUninstall(c)
  BY <1>3, StartOutKeeps
<1>4. CASE BeginSession
  BY <1>4, OpenKeeps
<1>5. CASE SetCDS
  BY <1>5, SetCDSKeeps
<1>6. CASE SetHandlers
  BY <1>6, SetHandlersKeeps
<1>7. CASE Keep
  BY <1>7, KeepKeeps
<1>8. CASE UninstallDriver
  BY <1>8, UnhookKeeps
<1>9. CASE ClearCDS
  BY <1>9, ClearCDSKeeps
<1>10. CASE EndSession
  BY <1>10, EndSessionKeeps
<1>11. CASE Free
  BY <1>11, FreeKeeps
<1>12. CASE Break
  BY <1>12, BreakKeeps
<1>13. CASE Down
  BY <1>13, StutterKeeps DEF Down, Sound
<1>14. ASSUME NEW o \in Others, OtherLeaves(o)
       PROVE  InstallInv'
  BY <1>14, OtherLeavesKeeps
<1>15. ASSUME NEW o \in Others, NEW vs \in SUBSET Vectors, OtherLoads(o, vs)
       PROVE  InstallInv'
  BY <1>15, OtherLoadsKeeps
<1>16. ASSUME NEW d \in Drives, OtherDrive(d)
       PROVE  InstallInv'
  BY <1>16, OtherDriveKeeps
<1> QED
  BY <1>1, <1>2, <1>3, <1>4, <1>5, <1>6, <1>7, <1>8, <1>9, <1>10, <1>11,
     <1>12, <1>13, <1>14, <1>15, <1>16 DEF Next, Proceeds

LEMMA InstallStart == Init => InstallInv
<1> SUFFICES ASSUME Init PROVE InstallInv
  OBVIOUS
<1>0. TypeOK /\ run = Nobody /\ ~torn /\ loaded = {} /\ NoCopy \notin Copies
  BY InstallInitTypes, InstallAssumption DEF Init
<1>1. run.copy = NoCopy /\ run.target = NoCopy
  BY <1>0 DEF Nobody
<1>2. \A d \in Drives : cds[d].sig = NoCopy
  BY Zenon DEF Init
<1>3. ASSUME NEW v \in Vectors PROVE Chain(v) = Hooked(v) \cup {Dos}
  <2>1. Hooked(v) = {}
    BY <1>0, <1>1 DEF Hooked, CopyHooked
  <2>2. vec[v] = Dos /\ Dos \in Handlers
    BY DEF Init, Handlers
  <2>3. Reach(Dos, Passes(v)) \subseteq {Dos}
    BY ReachLeast DEF Shut, Handlers
  <2>4. Dos \in Reach(Dos, Passes(v))
    BY <1>0, <2>2, OldTypes, PassesTo, ReachShut
  <2> QED
    BY <2>1, <2>2, <2>3, <2>4 DEF Chain, Passes
<1>4. ChainInv /\ TopInv /\ RunInv /\ DriveInv /\ OpenInv
  BY <1>0, <1>1, <1>2, <1>3
     DEF ChainInv, TopInv, RunInv, DriveInv, OpenInv, Coming, Going, Running
<1>5. LeftOpen = {} /\ Dead = {} /\ Owed = 0
  BY <1>0, <1>1 DEF Init, LeftOpen, Dead, Owed, Running
<1>6. IsFiniteSet({}) /\ Cardinality({}) = 0
  BY FS_EmptySet
<1>7. left = 0 /\ fails = 0 /\ breaks = 0
  BY DEF Init
<1> QED
  BY <1>4, <1>5, <1>6, <1>7 DEF InstallInv, OrphanInv, DeadInv

-----------------------------------------------------------------------------
(* The interrupts after an interruption, and the tables.                   *)

\* The machine is as it was when it was lost.
LEMMA TornStays ==
    ASSUME TypeOK, TornStops, Next \/ Refuse, torn'
    PROVE  UNCHANGED <<vec, prev, hooks, loaded>>
<1>1. torn => ~Idle /\ \A step : ~At(step)
  BY DEF Idle, At, TornStops, Nobody
<1>2. CASE torn
  BY <1>1, <1>2
     DEF Next, Starts, Proceeds, StartInstall, StartUninstall, BeginSession,
         OpenChannel, SetCDS, SetHandlers, Hook, Keep, UninstallDriver, Unhook,
         ClearCDS, EndSession, CloseChannel, Free, Break, Down, vars,
         OtherLeaves, OtherLoads, OtherDrive, Refuse
<1>3. CASE ~torn
  <2>1. Break \/ torn' = torn
    BY DEF Next, Starts, Proceeds, StartInstall, StartUninstall, BeginSession,
           OpenChannel, SetCDS, SetHandlers, Hook, Keep, UninstallDriver,
           Unhook, ClearCDS, EndSession, CloseChannel, Free, Down, vars,
           OtherLeaves, OtherLoads, OtherDrive, Refuse
  <2>2. Break /\ At("keep")
    BY <1>3, <2>1, Zenon DEF Break
  <2>3. ~At("cds") /\ ~At("closerpci")
    BY <2>2 DEF At
  <2> QED
    BY <2>2, <2>3 DEF Break
<1> QED
  BY <1>2, <1>3

LEMMA HookedStep ==
    ASSUME TypeOK, TypeOK', TornStops, ChainInv, ChainInv', OthersStayHooked,
           Next \/ Refuse
    PROVE  OthersStayHooked'
<1>1. CASE torn'
  <2>1. UNCHANGED <<vec, prev, hooks, loaded>>
    BY <1>1, TornStays
  <2> QED
    BY <2>1 DEF OthersStayHooked, Chain
<1>2. CASE ~torn'
  <2>1. ASSUME NEW o \in Others \cap loaded', NEW v \in hooks'[o]
        PROVE  o \in Chain(v)'
    <3>1. v \in Vectors
      BY NewTypes DEF HooksOK
    <3>2. o \in Hooked(v)'
      BY DEF Hooked
    <3> QED
      BY <1>2, <3>1, <3>2 DEF ChainInv
  <2> QED
    BY <2>1 DEF OthersStayHooked
<1> QED
  BY <1>1, <1>2

\* The copies whose table the driver may have to change: the one that the
\* scan comes to, and the one that installs.
Scanned(c) == \E d \in Ours : cds[d].sig = c
Tabled(c) == Scanned(c) \/ (Coming /\ run.copy = c)

\* The table of such a copy is that of the active page, if the driver knows
\* the copy and its user saw no load fail.
PageInv ==
    ~torn => \A c \in Copies :
        Tabled(c) /\ ptr = c /\ c \notin told => table[c] = page

\* A copy is tabled when it starts to install.
LEMMA TabledBefore ==
    ASSUME Sound, Proceeds, NEW c \in Copies, Tabled(c)'
    PROVE  Tabled(c)
<1>0. NoCopy \notin Copies
  BY InstallAssumption
<1>1. ASSUME \A d \in Drives : cds'[d].sig = c => cds[d].sig = c,
             (Coming' /\ run'.copy = c) => (Coming /\ run.copy = c)
      PROVE  Tabled(c)
  BY <1>0, <1>1 DEF Tabled, Scanned, Ours
\* A run that goes on, or is over.
<1>2. ASSUME \A d \in Drives : cds'[d].sig = c => cds[d].sig = c,
             \/ run' = run \/ run' = Nobody
             \/ \E step : GoTo(step)
      PROVE  Tabled(c)
  <2>1. \/ run'.copy = run.copy /\ run'.target = run.target
        \/ run'.copy = NoCopy
    BY <1>2, SoundParts, NextStep DEF Nobody
  <2> QED
    BY <1>0, <1>1, <1>2, <2>1 DEF Coming, Running
<1>3. ASSUME NEW e \in Copies, StartUninstall(e)
      PROVE  Tabled(c)
  <2>1. /\ cds' = cds /\ e \notin loaded /\ Ours # {} /\ run = Nobody /\ ~torn
        /\ run'.copy = e /\ run'.target = Found
    BY <1>3 DEF StartUninstall, Idle
  <2>2. PICK d \in Ours : Found = cds[d].sig
    BY <2>1, FoundServes
  <2>3. Found \in Copies /\ Found \in loaded \cup {run.target}
    BY <2>1, <2>2, SoundParts, FoundCopy DEF Served
  <2>4. run.target = NoCopy
    BY <2>1 DEF Nobody
  <2>5. ~Coming'
    BY <1>0, <2>1, <2>3, <2>4 DEF Coming
  <2> QED
    BY <1>1, <2>1, <2>5
<1>4. CASE BeginSession
  BY <1>2, <1>4 DEF BeginSession, OpenChannel, Exit
<1>5. CASE SetCDS
  <2>1. /\ run.copy # NoCopy /\ run.step = "cds"
        /\ \E step : GoTo(step)
    BY <1>5 DEF SetCDS, At, NoDrive
  <2>2. Coming
    BY <2>1, SoundParts DEF OwnTarget, Installing, Coming, Running
  <2>3. \A d \in Drives : cds'[d].sig \in {cds[d].sig, run.copy}
    <3>1. CASE cds' = cds
      BY <3>1
    <3>2. ASSUME NEW b \in Candidates,
                 cds' = [cds EXCEPT ![b] = [used |-> TRUE, sig |-> run.copy]]
          PROVE  \A d \in Drives : cds'[d].sig \in {cds[d].sig, run.copy}
      BY <3>2, SoundParts DEF CdsOK
    <3> QED
      BY <1>5, <3>1, <3>2 DEF SetCDS
  <2>4. CASE c = run.copy
    BY <2>2, <2>4 DEF Tabled
  <2>5. CASE c # run.copy
    <3>1. \A d \in Drives : cds'[d].sig = c => cds[d].sig = c
      BY <2>3, <2>5
    <3> QED
      BY <1>2, <2>1, <3>1
  <2> QED
    BY <2>4, <2>5
<1>6. CASE SetHandlers \/ UninstallDriver
  BY <1>2, <1>6 DEF SetHandlers, Hook, UninstallDriver, Unhook
<1>7. CASE ClearCDS
  <2>1. \A d \in Drives : cds'[d].sig = c => cds[d].sig = c
    BY <1>0, <1>7 DEF ClearCDS, Cleared
  <2> QED
    BY <1>2, <1>7, <2>1 DEF ClearCDS
<1>8. CASE EndSession
  BY <1>2, <1>8 DEF EndSession, CloseChannel, Exit
<1>9. CASE Keep \/ Free \/ Break
  BY <1>2, <1>9 DEF Keep, Free, Break, Exit
<1>10. CASE Down
  BY <1>2, <1>10 DEF Down, vars
<1>11. ASSUME NEW o \in Others, \/ OtherLeaves(o)
                                \/ \E vs \in SUBSET Vectors : OtherLoads(o, vs)
       PROVE  Tabled(c)
  BY <1>2, <1>11 DEF OtherLeaves, OtherLoads
<1>12. ASSUME NEW d \in Drives, OtherDrive(d)
       PROVE  Tabled(c)
  <2>1. cds[d].sig = NoCopy /\ run' = run
        /\ cds' = [cds EXCEPT ![d] = [cds[d] EXCEPT !.used = ~cds[d].used]]
    BY <1>12 DEF OtherDrive
  <2>2. cds'[d].sig = cds[d].sig
    <3>1. cds'[d] = [cds[d] EXCEPT !.used = ~cds[d].used]
      BY <2>1, SoundParts, Zenon DEF CdsOK
    <3>2. cds[d] \in Entries
      BY SoundParts DEF CdsOK
    <3>3. [cds[d] EXCEPT !.used = ~cds[d].used].sig = cds[d].sig
      BY <3>2, Zenon DEF Entries
    <3> QED
      BY <3>1, <3>3
  <2>3. \A e \in Drives \ {d} : cds'[e] = cds[e]
    BY <2>1, SoundParts DEF CdsOK
  <2> QED
    BY <1>2, <2>1, <2>2, <2>3
<1> QED
  BY <1>3, <1>4, <1>5, <1>6, <1>7, <1>8, <1>9, <1>10, <1>11, <1>12
     DEF Proceeds

\* What Forget leaves alone: it forgets no copy that is tabled.
LEMMA ProceedPages ==
    ASSUME Sound, TablesOK, Served', Proceeds, Forget, PageInv,
           UNCHANGED <<page, ptr>>, Next
    PROVE  PageInv'
<1> SUFFICES ASSUME ~torn', NEW c \in Copies, Tabled(c)', ptr' = c,
                    c \notin told'
             PROVE  table'[c] = page'
  BY DEF PageInv
<1>1. Tabled(c)
  BY TabledBefore
<1>2. c \in loaded' \cup {run'.copy, run'.target}
  <2>1. CASE Scanned(c)'
    BY <2>1 DEF Scanned, Served
  <2>2. CASE run'.copy = c
    BY <2>2
  <2> QED
    BY <2>1, <2>2 DEF Tabled
<1>3. table'[c] = table[c] /\ c \notin told
  BY <1>2 DEF Forget
<1>4. ~torn
  <2>1. torn => ~Idle /\ \A step : ~At(step)
    BY SoundParts DEF Idle, At, TornStops, Nobody
  <2> QED
    BY <2>1
       DEF Proceeds, StartUninstall, BeginSession, OpenChannel, SetCDS,
           SetHandlers, Hook, Keep, UninstallDriver, Unhook, ClearCDS,
           EndSession, CloseChannel, Free, Break, Down, vars, OtherLeaves,
           OtherLoads, OtherDrive
<1> QED
  BY <1>1, <1>3, <1>4 DEF PageInv

LEMMA PageStep ==
    ASSUME Sound, TypeOK', TablesOK, ScanInv', PageInv,
           [TableNext]_<<vars, tableVars>>
    PROVE  PageInv'
<1>0. OneCopyScanned /\ NoCopy \notin Copies
  BY InstallAssumption DEF Sound, ScanInv
<1>1. ASSUME NEW c \in Copies, NEW d \in Drives \cup {AnyDrive}, Load(c, d)
      PROVE  PageInv'
  <2>1. /\ StartInstall(c, d) /\ page' = page /\ cds' = cds /\ run = Nobody
        /\ ~torn /\ torn' = torn
    BY <1>1 DEF Load, StartInstall, Idle
  <2>2. Ours' = Ours
    BY <2>1 DEF Ours
  <2>3. CASE Ours # {}
    <3>1. UNCHANGED <<table, ptr, told, run>>
      BY <1>1, <2>1, <2>3 DEF Load, StartInstall
    <3> QED
      BY <2>1, <2>2, <3>1 DEF PageInv, Tabled, Scanned, Coming, Running
  <2>4. CASE Ours = {}
    <3>1. LoadUnicodeConversionTable(c) /\ run'.copy = c
      BY <1>1, <2>1, <2>4 DEF Load, StartInstall
    <3>2. ASSUME NEW e \in Copies, Tabled(e)' PROVE e = c
      BY <2>2, <2>4, <3>1, <3>2 DEF Tabled, Scanned
    <3>3. table'[c] = page \/ c \in told'
      BY <3>1 DEF LoadUnicodeConversionTable, TablesOK
    <3> QED
      BY <2>1, <3>2, <3>3 DEF PageInv
  <2> QED
    BY <2>3, <2>4
<1>2. CASE Refuse
  <2>1. /\ run.copy # NoCopy /\ run.step = "rpci" /\ cds' = cds
        /\ run' = Nobody
    BY <1>2 DEF Refuse, At, Exit
  <2>2. (Ours') = {} /\ run'.copy = NoCopy
    BY <2>1, SoundParts DEF Alone, Ours, Nobody
  <2> QED
    BY <1>0, <2>2 DEF PageInv, Tabled, Scanned
<1>3. CASE Proceeds /\ Forget /\ UNCHANGED <<page, ptr>>
  BY <1>3, ProceedPages DEF Next, ScanInv
<1>4. ASSUME NEW p \in Pages, ChangePage(p)
      PROVE  PageInv'
  <2>1. UNCHANGED vars /\ ptr' = ptr /\ page' = p /\ Idle
    BY <1>4 DEF ChangePage
  <2>2. ASSUME NEW c \in Copies, Tabled(c)', ptr = c, c \notin told'
        PROVE  table'[c] = p
    <3>1. Scanned(c)
      BY <1>0, <2>1, <2>2 DEF Tabled, Scanned, Ours, vars, Idle, Coming,
                              Running, Nobody
    <3>2. \A d, e \in Ours : cds[d].sig = cds[e].sig
      BY <1>0, OneCopy
    <3>3. Ours # {} /\ Found = c
      BY <3>1, <3>2, FoundServes DEF Scanned
    <3>4. table' = [table EXCEPT ![c] = p]
      BY <1>0, <1>4, <2>2, <3>3
         DEF ChangePage, LoadUnicodeTable, IsVMRedirectorInstalled, Read
    <3> QED
      BY <3>4 DEF TablesOK
  <2> QED
    BY <2>1, <2>2 DEF PageInv
<1>5. CASE UNCHANGED <<vars, tableVars>>
  BY <1>5 DEF PageInv, Tabled, Scanned, Ours, Coming, Running, vars, tableVars
<1> QED
  BY <1>1, <1>2, <1>3, <1>4, <1>5 DEF TableNext

-----------------------------------------------------------------------------
(* The theorems.                                                           *)

PlaceInv == InstallInv /\ OthersStayHooked /\ PageInv

LEMMA PlaceStart == TableInit => PlaceInv
<1> SUFFICES ASSUME TableInit PROVE PlaceInv
  OBVIOUS
<1>1. Init
  BY DEF TableInit
<1>2. InstallInv /\ OthersStayHooked
  BY <1>1, InstallStart DEF Init, OthersStayHooked
<1>3. \A c \in Copies : ~Tabled(c)
  BY <1>1, InstallAssumption, Zenon DEF Init, Tabled, Scanned, Ours, Coming,
                                        Running, Nobody
<1> QED
  BY <1>2, <1>3 DEF PlaceInv, PageInv

LEMMA PlaceStep ==
    ASSUME TableInv, TableInv', PlaceInv, [TableNext]_<<vars, tableVars>>
    PROVE  PlaceInv'
<1>1. Sound /\ TablesOK /\ TornStops
  BY Zenon DEF TableInv, CodePageTypeOK, TablesOK, ScanInv, Sound, PlaceInv
<1>2. /\ TypeOK' /\ ScanInv' /\ HasTarget'
      /\ InstallInv /\ ChainInv /\ OthersStayHooked /\ PageInv
  BY Zenon DEF TableInv, CodePageTypeOK, ScanInv, PlaceInv, InstallInv
<1>3. PageInv'
  BY <1>1, <1>2, PageStep
<1>4. CASE Next \/ Refuse
  <2>1. InstallInv'
    BY <1>1, <1>2, <1>4, InstallStep
  <2>2. OthersStayHooked'
    BY <1>1, <1>2, <1>4, <2>1, HookedStep DEF Sound, InstallInv
  <2> QED
    BY <1>3, <2>1, <2>2 DEF PlaceInv
<1>5. CASE UNCHANGED vars
  <2>1. InstallInv'
    BY <1>2, <1>5, StutterKeeps
  <2>2. OthersStayHooked'
    BY <1>2, <1>5 DEF OthersStayHooked, Chain, vars
  <2> QED
    BY <1>3, <2>1, <2>2 DEF PlaceInv
<1>6. Next \/ Refuse \/ UNCHANGED vars
  BY DEF TableNext, Load, Next, Starts, ChangePage
<1> QED
  BY <1>4, <1>5, <1>6

LEMMA PlaceInvariant == TableSpec => [](TableInv /\ PlaceInv)
<1>1. TableInv /\ PlaceInv /\ TableInv' /\ [TableNext]_<<vars, tableVars>>
        => PlaceInv'
  BY PlaceStep
<1> QED
  BY <1>1, TableInvariant, PlaceStart, PTL DEF TableSpec

\* A timer tick or a call of DOS passes along handlers of programs that are
\* in memory, and comes to DOS, before and after every step of installing
\* and uninstalling (_dos_setvect): the previous handlers are saved before
\* the vectors are set, a copy is taken out of chains only from their front,
\* and its memory is freed only afterwards.
THEOREM VectorsStayLive == TableSpec => []VectorsLive
<1>1. TableInv /\ PlaceInv => VectorsLive
  <2> SUFFICES ASSUME TableInv, PlaceInv, ~torn, NEW v \in Vectors
               PROVE  Dos \in Chain(v) /\ Chain(v) \subseteq Present \cup {Dos}
    BY DEF VectorsLive
  <2>1. Chain(v) = Hooked(v) \cup {Dos}
    BY DEF PlaceInv, InstallInv, ChainInv
  <2>2. Hooked(v) \subseteq Present
    BY DEF Hooked, CopyHooked, Present
  <2> QED
    BY <2>1, <2>2
<1> QED
  BY <1>1, PlaceInvariant, PTL

\* A program that took an interrupt before or after a copy came keeps it,
\* whatever order they leave in (UninstallDriver restores a vector only when
\* it is in front).
THEOREM OthersKeepHooks == TableSpec => []OthersStayHooked
<1>1. PlaceInv => OthersStayHooked
  BY DEF PlaceInv
<1> QED
  BY <1>1, PlaceInvariant, PTL

\* The channels of a copy are open whenever an interrupt can come to it
\* (VMAuxBeginSession before the vectors are set, VMAuxEndSession after they
\* are restored), and those that stay open for nobody are as many as failed,
\* and two for every interruption.
THEOREM ChannelsOpen == TableSpec => []ChannelsKept
<1>1. TableInv /\ PlaceInv => ChannelsKept
  <2> SUFFICES ASSUME TableInv, PlaceInv PROVE ChannelsKept
    OBVIOUS
  <2>1. ChainInv /\ OpenInv /\ RunInv /\ OrphanInv /\ Sound
    BY Zenon DEF PlaceInv, InstallInv, Sound, TableInv, CodePageTypeOK
  <2>2. ChannelsServe
    <3> SUFFICES ASSUME ~torn, NEW c \in Copies, NEW v \in Vectors,
                        c \in Chain(v)
                 PROVE  open[c] = Kinds
      BY DEF ChannelsServe, Vectors, Kinds
    <3>1. c # Dos /\ c \notin Others
      BY InstallAssumption
    <3>2. CopyHooked(c, v)
      BY <2>1, <3>1 DEF ChainInv, Hooked
    <3>3. CASE c # run.target
      BY <2>1, <3>2, <3>3 DEF CopyHooked, OpenInv
    <3>4. CASE c = run.target
      <4>1. run.step \in {"keep", "hook1c", "un1c", "un2f"}
        BY <3>2, <3>4 DEF CopyHooked
      <4>2. Running
        BY <2>1, <3>4, InstallAssumption DEF RunInv, Nobody
      <4> QED
        BY <2>1, <3>4, <4>1, <4>2 DEF OpenInv
    <3> QED
      BY <3>3, <3>4
  <2>3. OrphanBound
    <3> SUFFICES ASSUME ~torn PROVE Orphans <= fails + 2 * breaks
      BY DEF OrphanBound
    <3>1. /\ IsFiniteSet(LeftOpen)
          /\ left + Cardinality(LeftOpen) + Owed <= fails + 2 * breaks
      BY <2>1 DEF OrphanInv
    <3>2. PICK m : m = Cardinality(LeftOpen)
      OBVIOUS
    <3>3. PICK o : o = Owed
      OBVIOUS
    <3>4. m \in Nat /\ o \in Nat
      BY <2>1, <3>1, <3>2, <3>3, SoundParts, OwedNat, FS_CardinalityType
    <3>5. left \in Nat /\ fails \in Nat /\ breaks \in Nat
      BY <2>1, SoundParts, InstallAssumption DEF CountsOK
    <3>6. left + m + o <= fails + 2 * breaks
      BY <3>1, <3>2, <3>3
    <3>7. left + m <= fails + 2 * breaks
      BY <3>4, <3>5, <3>6
    <3>8. Orphans = left + m
      BY <3>2 DEF Orphans, LeftOpen
    <3> QED
      BY <3>7, <3>8
  <2> QED
    BY <2>2, <2>3 DEF ChannelsKept
<1> QED
  BY <1>1, PlaceInvariant, PTL

\* Between two runs a drive of a copy is served through both interrupts, and
\* a copy in memory has a drive, unless it was being freed when the user
\* interrupted (SetCDS, UninstallDriver).
THEOREM DrivesAreServed == TableSpec => []DrivesServed
<1>1. TableInv /\ PlaceInv => DrivesServed
  <2> SUFFICES ASSUME TableInv, PlaceInv, Idle PROVE DrivesServed
    BY DEF DrivesServed
  <2>1. /\ ChainInv /\ DriveInv /\ DeadInv /\ CdsOK
        /\ run.target = NoCopy /\ ~torn /\ NoCopy \notin Copies
    <3>1. Sound
      BY Zenon DEF PlaceInv, Sound, TableInv, CodePageTypeOK
    <3> QED
      BY <3>1, SoundParts, InstallAssumption DEF Idle, Nobody
  <2>2. ASSUME NEW d \in Drives, cds[d].sig # NoCopy
        PROVE  cds[d].used /\ \A v \in Vectors : cds[d].sig \in Chain(v)
    <3>1. cds[d].sig \in Copies
      <4>1. cds[d] \in Entries
        BY <2>1 DEF CdsOK
      <4>2. cds[d].sig \in Copies \cup {NoCopy}
        BY <4>1, Zenon DEF Entries
      <4> QED
        BY <2>2, <4>2
    <3>2. cds[d].used /\ cds[d].sig \in loaded /\ Alive(cds[d].sig)
      BY <2>1, <2>2 DEF DriveInv, Alive
    <3>3. \A v \in Vectors : cds[d].sig \in Hooked(v)
      BY <2>1, <2>2, <3>1, <3>2 DEF Hooked, CopyHooked
    <3> QED
      BY <2>1, <3>2, <3>3 DEF ChainInv
  <2>3. Dead = {c \in Copies \cap loaded : \A d \in Drives : cds[d].sig # c}
    BY <2>1 DEF Dead, Alive
  <2> QED
    BY <2>1, <2>2, <2>3 DEF DrivesServed, DeadInv
<1> QED
  BY <1>1, PlaceInvariant, PTL

\* The table of the copy that the driver finds is that of the active page
\* (LoadUnicodeConversionTable, LoadUnicodeTable), unless the user saw the
\* last load fail: the page changes only while nobody installs, and the
\* driver knows a copy only when its table has been loaded.
THEOREM TablesFollow == TableSpec => []TableFollows
<1>1. PlaceInv => TableFollows
  <2> SUFFICES ASSUME PlaceInv, NEW c \in Copies, Idle, Ours # {}, Found = c,
                      ptr = c, c \notin told
               PROVE  table[c] = page
    BY DEF TableFollows
  <2>1. Tabled(c)
    BY FoundServes DEF Tabled, Scanned
  <2> QED
    BY <2>1 DEF PlaceInv, PageInv, Idle
<1> QED
  BY <1>1, PlaceInvariant, PTL
=============================================================================
