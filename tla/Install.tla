------------------------------- MODULE Install -------------------------------
(***************************************************************************)
(* Installing and uninstalling (main.c, vmaux.c) among other resident      *)
(* programs.  VMSMOUNT is a program that either stays in memory or, run    *)
(* with /U, takes a copy that stayed out of it.  It runs with interrupts   *)
(* on and in several steps; no other program runs in the meantime, but the *)
(* timer ticks and the host opens and closes channels.                     *)
(*                                                                         *)
(* A handler is named by the program it is in.  What a resident copy needs *)
(* to be found and removed, the signature in its PSP, is written once and  *)
(* holds the same values as its variables, so it is not a thing apart.     *)
(***************************************************************************)
EXTENDS Naturals, FiniteSets

CONSTANTS
    Copies,     \* runs of VMSMOUNT that may stay resident
    Others,     \* other resident programs
    Dos,        \* the handlers DOS and the BIOS have
    NoCopy,     \* in a CDS that is not ours; also: nobody is running
    FirstAuto,  \* the drive the search for a free one starts with: 4, or E:
    LastDrive,  \* LASTDRIVE: the number of drives
    MaxFail,    \* bound: channels that fail to open or close
    MaxBreak    \* bound: times the user interrupts VMSMOUNT

ASSUME InstallAssumption ==
    /\ FirstAuto \in Nat /\ LastDrive \in Nat
    /\ MaxFail \in Nat /\ MaxBreak \in Nat
    /\ NoCopy \notin Copies /\ Copies \cap Others = {}
    /\ Dos \notin Copies \cup Others

VARIABLES
    vec,        \* the interrupt vectors 2Fh and 1Ch
    prev,       \* per program and vector: the handler it passes calls on to
    hooks,      \* per other program: the vectors it took
    loaded,     \* the programs resident in memory
    cds,        \* per drive: in use, and the copy it belongs to
    open,       \* per copy: which of its two channels are open on the host
    run,        \* the copy of VMSMOUNT running, its step, and its target
    torn,       \* history: interrupted with its handlers in place
    left,       \* history: channels open for runs that are over
    fails,      \* history: channels that failed to open or close
    breaks      \* history: times the user interrupted VMSMOUNT

vars == <<vec, prev, hooks, loaded, cds, open, run, torn, left, fails, breaks>>

Vectors == {"2F", "1C"}
Kinds == {"rpci", "tclo"}
Programs == Copies \cup Others
Handlers == Programs \cup {Dos}
Drives == 0..LastDrive - 1

\* The drive when the code is to choose one.
AnyDrive == LastDrive

Steps == {"rpci", "tclo", "cds", "hook2f", "hook1c", "keep",
          "un1c", "un2f", "uncds", "closerpci", "closetclo", "free"}

Nobody == [copy |-> NoCopy, step |-> "keep", target |-> NoCopy,
           drive |-> AnyDrive]

TypeOK ==
    /\ vec \in [Vectors -> Programs \cup {Dos}]
    /\ prev \in [Programs -> [Vectors -> Programs \cup {Dos}]]
    /\ hooks \in [Others -> SUBSET Vectors]
    /\ loaded \subseteq Programs
    /\ cds \in [Drives -> [used : BOOLEAN, sig : Copies \cup {NoCopy}]]
    /\ open \in [Copies -> SUBSET Kinds]
    /\ run \in [copy : Copies \cup {NoCopy}, step : Steps,
                target : Copies \cup {NoCopy}, drive : Drives \cup {AnyDrive}]
    /\ torn \in BOOLEAN
    /\ left \in Nat
    /\ fails \in 0..MaxFail
    /\ breaks \in 0..MaxBreak

Init ==
    /\ vec = [v \in Vectors |-> Dos]
    /\ prev = [p \in Programs |-> [v \in Vectors |-> Dos]]
    /\ hooks = [o \in Others |-> {}]
    /\ loaded = {}
    /\ cds \in [Drives -> [used : BOOLEAN, sig : {NoCopy}]]
    /\ open = [c \in Copies |-> {}]
    /\ run = Nobody
    /\ torn = FALSE
    /\ left = 0
    /\ fails = 0
    /\ breaks = 0

Idle == run = Nobody /\ ~torn

At(step) == run.copy # NoCopy /\ run.step = step

GoTo(step) == run' = [run EXCEPT !.step = step]

Exit == run' = Nobody

\* What a program keeps is gone with it.
Forgotten(p) == [prev EXCEPT ![p] = [v \in Vectors |-> Dos]]

-----------------------------------------------------------------------------
(* main: before anything is changed.                                       *)

\* Fault: the scan starts one drive late.
FaultOurs == {d \in Drives : d > FirstAuto /\ cds[d].sig # NoCopy}

\* AlreadyInstalled: the drives of a resident copy that the scan comes to.
Ours == {d \in Drives : d >= FirstAuto /\ cds[d].sig # NoCopy}

\* The resident copy it finds.
Found == LET d == CHOOSE d \in Ours : \A e \in Ours : d <= e IN cds[d].sig

\* Fault: one of the previous handlers is a null pointer.
FaultSaved == [vec EXCEPT !["1C"] = NoCopy]

\* The previous handlers, which SetSignature copies to the PSP.
Saved == vec

\* main reads the vectors, and refuses (ERR_INSTLLD, ERR_BADDRV) or goes on.
StartInstall(c, d) ==
    /\ Idle /\ c \notin loaded
    /\ \/ Ours # {} /\ UNCHANGED <<prev, run>>
       \/ Ours = {} /\ prev' = [prev EXCEPT ![c] = Saved]
                    /\ run' = [copy |-> c, step |-> "rpci", target |-> c,
                                drive |-> d]
    /\ left' = left + Cardinality(open[c])
    /\ open' = [open EXCEPT ![c] = {}]
    /\ UNCHANGED <<vec, hooks, loaded, cds, torn, fails, breaks>>

\* Fault: only one of the vectors is compared.
FaultOnTop(t) == vec["2F"] = t

\* UninstallDriver: nobody has taken a vector after this copy.
OnTop(t) == \A v \in Vectors : vec[v] = t

\* main with /U, which refuses (ERR_NOTINST, ERR_UNINST) or goes on.
StartUninstall(c) ==
    /\ Idle /\ c \notin loaded
    /\ Ours # {} /\ OnTop(Found)
    /\ run' = [copy |-> c, step |-> "un1c", target |-> Found,
                drive |-> AnyDrive]
    /\ UNCHANGED <<vec, prev, hooks, loaded, cds, open, torn, left, fails,
                   breaks>>

-----------------------------------------------------------------------------
(* main: installing.                                                       *)

Fails == fails < MaxFail /\ fails' = fails + 1

\* VMAuxBeginSession opens the two channels.  When one fails main returns,
\* with ERR_NOSHF.
OpenChannel(k, next) ==
    /\ At(k)
    /\ \/ /\ open' = [open EXCEPT ![run.copy] = open[run.copy] \cup {k}]
          /\ GoTo(next) /\ UNCHANGED <<prev, fails>>
       \/ Exit /\ Fails /\ prev' = Forgotten(run.copy) /\ UNCHANGED open
    /\ UNCHANGED <<vec, hooks, loaded, cds, torn, left, breaks>>

BeginSession == OpenChannel("rpci", "tclo") \/ OpenChannel("tclo", "cds")

\* The drives SetCDS can take: the one it is told, or the first free one.
Candidates ==
    IF run.drive # AnyDrive THEN {run.drive} \cap {d \in Drives : ~cds[d].used}
    ELSE {d \in Drives : /\ d >= FirstAuto /\ ~cds[d].used
                         /\ \A e \in FirstAuto..d - 1 : cds[e].used}

\* Fault: main returns when there is no drive.
FaultNoDrive == Exit

\* No drive: the session is ended (ERR_SYSTEM).
NoDrive == GoTo("closerpci")

SetCDS ==
    /\ At("cds")
    /\ \/ \E d \in Candidates :
            /\ cds' = [cds EXCEPT ![d] = [used |-> TRUE, sig |-> run.copy]]
            /\ GoTo("hook2f")
       \/ Candidates = {} /\ NoDrive /\ UNCHANGED cds
    /\ UNCHANGED <<vec, prev, hooks, loaded, open, torn, left, fails, breaks>>

\* _dos_setvect, after SetSignature.
Hook(v, step, next) ==
    /\ At(step)
    /\ vec' = [vec EXCEPT ![v] = run.copy]
    /\ GoTo(next)
    /\ UNCHANGED <<prev, hooks, loaded, cds, open, torn, left, fails, breaks>>

SetHandlers == Hook("2F", "hook2f", "hook1c") \/ Hook("1C", "hook1c", "keep")

Keep ==
    /\ At("keep")
    /\ loaded' = loaded \cup {run.copy}
    /\ Exit
    /\ UNCHANGED <<vec, prev, hooks, cds, open, torn, left, fails, breaks>>

-----------------------------------------------------------------------------
(* UninstallDriver, and VMAuxEndSession, which main uses as well.          *)

\* Fault: the session is ended before the second vector is restored.
FaultAfter == [un1c |-> "closerpci", closerpci |-> "closetclo",
               closetclo |-> "un2f", un2f |-> "uncds", uncds |-> "free"]

\* The order of the steps.
After == [un1c |-> "un2f", un2f |-> "uncds", uncds |-> "closerpci",
          closerpci |-> "closetclo", closetclo |-> "free"]

\* Fault: a handler is left in place.
FaultUnhooked(v) == IF v = "1C" THEN vec[v] ELSE prev[run.target][v]

\* What the vector is set to: the previous handler, from the signature.
Unhooked(v) == prev[run.target][v]

Unhook(v, step) ==
    /\ At(step)
    /\ vec' = [vec EXCEPT ![v] = Unhooked(v)]
    /\ GoTo(After[step])
    /\ UNCHANGED <<prev, hooks, loaded, cds, open, torn, left, fails, breaks>>

\* Fault: the CDS goes on pointing to the signature.
FaultCleared(entry) == [entry EXCEPT !.used = FALSE]

Cleared(entry) == [used |-> FALSE, sig |-> NoCopy]

ClearCDS ==
    /\ At("uncds")
    /\ cds' = [d \in Drives |-> IF cds[d].sig = run.target /\ d >= FirstAuto
                                THEN Cleared(cds[d]) ELSE cds[d]]
    /\ GoTo(After["uncds"])
    /\ UNCHANGED <<vec, prev, hooks, loaded, open, torn, left, fails, breaks>>

\* VMAuxRpcClose.  Nobody looks at its result.
CloseChannel(k, step) ==
    /\ At(step)
    /\ \/ /\ open' = [open EXCEPT ![run.target] = open[run.target] \ {k}]
          /\ UNCHANGED fails
       \/ Fails /\ UNCHANGED open
    /\ UNCHANGED <<vec, hooks, loaded, cds, torn, left, breaks>>

EndSession ==
    \/ /\ CloseChannel("rpci", "closerpci")
       /\ GoTo(After["closerpci"]) /\ UNCHANGED prev
    \/ /\ CloseChannel("tclo", "closetclo")
       /\ IF run.target = run.copy THEN Exit /\ prev' = Forgotten(run.copy)
          ELSE GoTo(After["closetclo"]) /\ UNCHANGED prev

UninstallDriver == Unhook("1C", "un1c") \/ Unhook("2F", "un2f")

\* DOS frees the memory of the copy, as its own last program.
Free ==
    /\ At("free")
    /\ loaded' = loaded \ {run.target}
    /\ prev' = Forgotten(run.target)
    /\ Exit
    /\ UNCHANGED <<vec, hooks, cds, open, torn, left, fails, breaks>>

-----------------------------------------------------------------------------
(* The others.                                                             *)

\* The user interrupts VMSMOUNT while it writes a message: before a drive is
\* chosen, when there is none, when the handlers are in place, or before the
\* memory of the old copy is freed.
Break ==
    /\ \/ At("cds") \/ At("keep") \/ At("free")
       \/ At("closerpci") /\ run.target = run.copy
    /\ breaks < MaxBreak
    /\ breaks' = breaks + 1
    /\ torn' = At("keep")
    /\ prev' = IF At("cds") \/ At("closerpci") THEN Forgotten(run.copy)
               ELSE prev
    /\ Exit
    /\ UNCHANGED <<vec, hooks, loaded, cds, open, left, fails>>

OtherLoads(o, vs) ==
    /\ Idle /\ o \notin loaded
    /\ prev' = [prev EXCEPT ![o] = vec]
    /\ vec' = [v \in Vectors |-> IF v \in vs THEN o ELSE vec[v]]
    /\ hooks' = [hooks EXCEPT ![o] = vs]
    /\ loaded' = loaded \cup {o}
    /\ UNCHANGED <<cds, open, run, torn, left, fails, breaks>>

\* Other programs look before they leave as well.
OtherLeaves(o) ==
    /\ Idle /\ o \in loaded
    /\ \A v \in hooks[o] : vec[v] = o
    /\ vec' = [v \in Vectors |-> IF v \in hooks[o] THEN prev[o][v] ELSE vec[v]]
    /\ hooks' = [hooks EXCEPT ![o] = {}]
    /\ loaded' = loaded \ {o}
    /\ prev' = Forgotten(o)
    /\ UNCHANGED <<cds, open, run, torn, left, fails, breaks>>

\* A drive of another driver comes or goes.
OtherDrive(d) ==
    /\ Idle /\ cds[d].sig = NoCopy
    /\ cds' = [cds EXCEPT ![d].used = ~cds[d].used]
    /\ UNCHANGED <<vec, prev, hooks, loaded, open, run, torn, left, fails,
                   breaks>>

\* The machine is lost.
Down == torn /\ UNCHANGED vars

Starts ==
    \E c \in Copies : \E d \in Drives \cup {AnyDrive} : StartInstall(c, d)

Proceeds ==
    \/ \E c \in Copies : StartUninstall(c)
    \/ BeginSession \/ SetCDS \/ SetHandlers \/ Keep
    \/ UninstallDriver \/ ClearCDS \/ EndSession \/ Free
    \/ Break \/ Down
    \/ \E o \in Others : OtherLeaves(o)
                         \/ \E vs \in SUBSET Vectors \ {{}} : OtherLoads(o, vs)
    \/ \E d \in Drives : OtherDrive(d)

Next == Starts \/ Proceeds

Spec == Init /\ [][Next]_vars

-----------------------------------------------------------------------------
(* Properties.                                                             *)

\* The handlers a call comes to that starts with h, when each program p passes
\* it on to next[p]: what a set that the call does not leave must contain.
Reach(h, next) ==
    {g \in Handlers : \A S \in SUBSET Handlers :
        h \in S /\ (\A p \in S \ {Dos} : next[p] \in S) => g \in S}

\* The handlers a call of the interrupt comes to.
Chain(v) == Reach(vec[v], [p \in Programs |-> prev[p][v]])

\* The copy that is being installed or uninstalled counts as present.
Present == loaded \cup {run.target}

\* An interrupt is passed on along programs that are in memory, down to DOS.
VectorsLive ==
    ~torn => \A v \in Vectors : /\ Dos \in Chain(v)
                                /\ Chain(v) \subseteq Present \cup {Dos}

\* Uninstalling does not cut off a program that came before or after.
OthersStayHooked ==
    \A o \in Others \cap loaded : \A v \in hooks[o] : o \in Chain(v)

\* Whenever a timer tick or a call of DOS comes to a copy, its channels are
\* open, in the middle of installing and uninstalling too.
ChannelsServe ==
    ~torn => \A c \in Copies :
               /\ c \in Chain("1C") => "tclo" \in open[c]
               /\ c \in Chain("2F") => "rpci" \in open[c]

\* Between two runs of VMSMOUNT a drive is ours only if a resident copy
\* serves it, through both interrupts; and every resident copy has a drive,
\* but for those that were interrupted while they were being freed.
DrivesServed ==
    Idle => /\ \A d \in Drives : cds[d].sig # NoCopy =>
                 cds[d].used /\ \A v \in Vectors : cds[d].sig \in Chain(v)
            /\ Cardinality({c \in Copies \cap loaded :
                              \A d \in Drives : cds[d].sig # c}) <= breaks

\* Channels that stay open for nobody come from channels that failed and
\* from interruptions.
Orphans ==
    left + Cardinality({ck \in (Copies \ Present) \X Kinds :
                          ck[2] \in open[ck[1]]})

OrphanBound == ~torn => Orphans <= fails + 2 * breaks

\* The channels of a copy are open as long as it needs them, and no longer.
\* (VMAuxBeginSession, VMAuxEndSession)
ChannelsKept == ChannelsServe /\ OrphanBound

\* No two copies have drives that the scan for a resident copy comes to.
OneCopyScanned ==
    \A d, e \in Drives \cap FirstAuto..LastDrive :
        NoCopy \in {cds[d].sig, cds[e].sig} \/ cds[d].sig = cds[e].sig

\* "Already installed" (readme.txt:90): a copy does not become resident next
\* to another one.
SecondRefused ==
    [][\A c \in Copies :
         c \in loaded' \ loaded => loaded \cap Copies = {}]_vars
=============================================================================
