---------------------------- MODULE TransferProofs ----------------------------
(***************************************************************************)
(* ReadFile and WriteFile: what they count, how far they read and what     *)
(* they take the size of the file to be, for words of any width, blocks of *)
(* any length and any number of entries, failures and other users.         *)
(***************************************************************************)
EXTENDS Transfer, TLAPS

-----------------------------------------------------------------------------
(* Arithmetic of words.                                                    *)

\* A number has one quotient and one remainder.
LEMMA ModUnique ==
    ASSUME NEW w \in Nat \ {0}, NEW q \in Int, NEW p \in Int,
           NEW r \in 0..w-1, NEW t \in 0..w-1, w * q + r = w * p + t
    PROVE  r = t
<1>1. w * (q - p) = t - r
  OBVIOUS
<1>2. CASE q - p >= 1
  <2>1. w * (q - p) >= w
    BY <1>2, SMT
  <2> QED
    BY <2>1, <1>1
<1>3. CASE q - p <= -1
  <2>1. w * (p - q) >= w
    BY <1>3, SMT
  <2> QED
    BY <2>1, <1>1
<1>4. CASE q - p = 0
  BY <1>1, <1>4
<1> QED
  BY <1>2, <1>3, <1>4

LEMMA DivMod ==
    ASSUME NEW w \in Nat \ {0}, NEW a \in Nat
    PROVE  /\ a \div w \in Int
           /\ a % w \in 0..w-1
           /\ a = w * (a \div w) + (a % w)
<1>1. a \div w \in Int
  OBVIOUS
<1>2. a % w \in 0..w-1
  OBVIOUS
<1>3. a = w * (a \div w) + (a % w)
  BY Z3
<1> QED
  BY <1>1, <1>2, <1>3, Zenon

\* Wrapping at every step is wrapping once.
LEMMA ModAdd ==
    ASSUME NEW w \in Nat \ {0}, NEW a \in Nat, NEW n \in Nat
    PROVE  ((a % w) + n) % w = (a + n) % w
<1> DEFINE b == (a % w) + n
           c == b % w
           e == (a + n) % w
           q == (a \div w) + (b \div w)
           p == (a + n) \div w
<1>1. /\ a \div w \in Int /\ a % w \in 0..w-1
      /\ a = w * (a \div w) + (a % w)
  BY DivMod, Zenon
<1>2. b \in Nat /\ a + n \in Nat
  BY <1>1
<1> HIDE DEF b
<1>3. /\ b \div w \in Int /\ b % w \in 0..w-1
      /\ b = w * (b \div w) + (b % w)
  BY <1>2, DivMod, Zenon
<1>4. /\ p \in Int /\ e \in 0..w-1
      /\ a + n = w * p + e
  BY <1>2, DivMod, Zenon
<1>5. w * q + c = w * p + e
  BY <1>1, <1>3, <1>4 DEF b
<1>6. q \in Int /\ c \in 0..w-1
  BY <1>1, <1>3
<1> HIDE DEF c, e, q, p
<1>7. c = e
  BY <1>4, <1>5, <1>6, ModUnique
<1> QED
  BY <1>7 DEF b, c, e

\* A word keeps its width, a number that fits its value.
LEMMA ModFits ==
    ASSUME NEW w \in Nat \ {0}, NEW a \in Int
    PROVE  /\ a % w \in 0..w-1
           /\ a \in 0..w-1 => a % w = a
           /\ a \in Nat => a % w <= a
  OBVIOUS

-----------------------------------------------------------------------------
(* Types.                                                                  *)

\* TypeOK variable by variable.
Entries == [mode : Modes, pos : 0..Dword-1, size : 0..Dword-1]
Calls == [s : Sfts, op : {"read", "write"}, want : 0..Word-1,
          start : 0..Dword-1, size : 0..Dword-1, off : Nat, todo : 0..Word-1]
Regs == [cf : BOOLEAN, cx : 0..Word-1]

SftOK == sft \in [Sfts -> Entries]
CallOK == call \in Calls
RegOK == reg \in Regs
PcOK == pc \in {"dos", "read", "write"}
CountsOK ==
    host \in 0..MaxSize /\ fails \in 0..MaxFail /\ others \in 0..MaxOther
BitsOK == up \in BOOLEAN /\ odd \in BOOLEAN

LEMMA TypeParts ==
    TypeOK <=> SftOK /\ CallOK /\ RegOK /\ PcOK /\ CountsOK /\ BitsOK
<1> USE DEF TypeOK, Entries, Calls, Regs, SftOK, CallOK, RegOK, PcOK, CountsOK,
            BitsOK
<1>1. ASSUME TypeOK
      PROVE  SftOK /\ CallOK /\ RegOK /\ PcOK /\ CountsOK /\ BitsOK
  BY <1>1, Zenon
<1>2. ASSUME SftOK, CallOK, RegOK, PcOK, CountsOK, BitsOK
      PROVE  TypeOK
  BY <1>2, Zenon
<1> QED
  BY <1>1, <1>2, Zenon

\* What the handlers write into an entry of the SFT, into the call and into
\* the registers is of their types.
LEMMA EntryWrites ==
    ASSUME SftOK, NEW s \in Sfts, NEW p \in 0..Dword-1, NEW z \in 0..Dword-1
    PROVE  /\ [sft EXCEPT ![s].pos = p] \in [Sfts -> Entries]
           /\ [sft EXCEPT ![s].size = z] \in [Sfts -> Entries]
           /\ [sft EXCEPT ![s].pos = p, ![s].size = z] \in [Sfts -> Entries]
  BY DEF SftOK, Entries

LEMMA EntryFields ==
    ASSUME SftOK, NEW s \in Sfts
    PROVE  /\ sft[s].pos \in 0..Dword-1
           /\ sft[s].size \in 0..Dword-1
           /\ sft[s].mode \in Modes
  BY DEF SftOK, Entries

LEMMA CallWrites ==
    ASSUME SftOK, CallOK, NEW s \in Sfts, NEW op \in {"read", "write"},
           NEW n \in 0..Word-1, NEW m \in 0..Word-1
    PROVE  /\ Called(s, op, n) \in Calls
           /\ [Called(s, op, n) EXCEPT !.todo = m] \in Calls
  BY DEF SftOK, Entries, Calls, Called

LEMMA CallGoes ==
    ASSUME CallOK, NEW n \in 0..call.todo
    PROVE  [call EXCEPT !.off = call.off + n, !.todo = call.todo - n] \in Calls
<1>1. call \in Calls /\ call.off \in Nat /\ call.todo \in 0..Word-1
  BY DEF CallOK, Calls
<1>2. Word \in Nat
  BY TransferAssumption
<1>3. call.off + n \in Nat /\ call.todo - n \in 0..Word-1
  BY <1>1, <1>2
<1> QED
  BY <1>1, <1>3 DEF Calls

LEMMA RegWrites ==
    ASSUME RegOK, NEW b \in BOOLEAN, NEW n \in 0..Word-1
    PROVE  /\ [cf |-> b, cx |-> n] \in Regs
           /\ [reg EXCEPT !.cf = TRUE] \in Regs
<1>1. [cf |-> b, cx |-> n] \in Regs
  BY Zenon DEF Regs
<1>2. [reg EXCEPT !.cf = TRUE] \in Regs
  BY Zenon DEF RegOK, Regs
<1> QED
  BY <1>1, <1>2, Zenon

-----------------------------------------------------------------------------
(* What a call keeps between its steps: the count it will return is what   *)
(* was moved and what is left, the position is where it started and what   *)
(* was moved, and a write has room on the host for what is left.           *)

Underway ==
    pc # "dos" =>
        /\ reg.cx = call.off + call.todo
        /\ sft[call.s].pos = (call.start + call.off) % Dword
        /\ pc = "write" => sft[call.s].pos + call.todo <= MaxSize

\* NoOverrun with what is left counted as well.
Inside == call.start <= call.size /\ call.start + call.want < Dword

RestInside ==
    call.op = "read" /\ Inside =>
        /\ call.off + call.todo <= call.want
        /\ call.start + call.off + call.todo <= call.size

CallInv ==
    SftOK /\ CallOK /\ RegOK /\ PcOK /\ CountsOK /\ Underway /\ RestInside

\* The fields of a call are numbers.
LEMMA CallFields ==
    ASSUME CallOK
    PROVE  /\ call.s \in Sfts /\ call.op \in {"read", "write"}
           /\ call.want \in 0..Word-1 /\ call.todo \in 0..Word-1
           /\ call.start \in 0..Dword-1 /\ call.size \in 0..Dword-1
           /\ call.off \in Nat
  BY DEF CallOK, Calls

LEMMA RegFields ==
    ASSUME RegOK
    PROVE  reg.cx \in 0..Word-1 /\ reg.cf \in BOOLEAN
<1>1. reg.cx \in 0..Word-1
  BY DEF RegOK, Regs
<1>2. reg.cf \in BOOLEAN
  BY Zenon DEF RegOK, Regs
<1> QED
  BY <1>1, <1>2

\* The loop is left: cx becomes what was moved.
LEMMA LeaveCounts ==
    ASSUME CallInv, pc # "dos", NEW b \in BOOLEAN, Leave(b)
    PROVE  /\ RegOK' /\ CallOK' /\ RestInside'
           /\ pc' = "dos" /\ call' = call
           /\ reg'.cx = call.off
<1>1. call' = call /\ pc' = "dos"
  BY DEF Leave
<1>2. reg'.cx = (reg.cx - call.todo) % Word
  BY DEF Leave
<1>3. reg.cx - call.todo = call.off /\ call.off \in 0..Word-1
  BY CallFields, RegFields, TransferAssumption DEF CallInv, Underway
<1>4. reg'.cx = call.off
  <2>1. call.off \in Int /\ Word \in Nat \ {0}
    BY <1>3, TransferAssumption
  <2>2. call.off % Word = call.off
    BY <1>3, <2>1, ModFits
  <2> QED
    BY <1>2, <1>3, <2>2
<1>5. (reg.cf \/ b) \in BOOLEAN
  BY Zenon
<1>6. reg' = [cf |-> reg.cf \/ b, cx |-> (reg.cx - call.todo) % Word]
  BY DEF Leave
<1>7. (reg.cx - call.todo) % Word \in 0..Word-1
  BY <1>2, <1>3, <1>4
<1>8. RegOK'
  BY <1>5, <1>6, <1>7, RegWrites, Zenon DEF CallInv, RegOK
<1>9. CallOK' /\ RestInside'
  BY <1>1 DEF CallInv, CallOK, RestInside, Inside
<1> QED
  BY <1>1, <1>4, <1>8, <1>9

\* n bytes are moved.
LEMMA AdvanceCounts ==
    ASSUME CallInv, pc # "dos", NEW n \in 1..call.todo,
           call' = [call EXCEPT !.off = call.off + n, !.todo = call.todo - n],
           reg' = reg,
           sft'[call.s].pos = (sft[call.s].pos + n) % Dword,
           pc' = IF n = call.todo THEN "dos" ELSE pc
    PROVE  /\ RegOK' /\ CallOK' /\ RestInside' /\ Underway' /\ PcOK'
           /\ call'.off = call.off + n /\ call'.todo = call.todo - n
           /\ call'.s = call.s /\ call'.start = call.start
           /\ call'.off + call'.todo = reg'.cx
           /\ sft'[call.s].pos = (call.start + call'.off) % Dword
<1> USE DEF CallInv
<1>1. CallOK'
  <2>1. n \in 0..call.todo
    BY CallFields
  <2> QED
    BY <2>1, CallGoes DEF CallOK
<1>2. RegOK' /\ PcOK'
  BY DEF RegOK, PcOK
<1>3. /\ call'.off = call.off + n /\ call'.todo = call.todo - n
      /\ call'.s = call.s /\ call'.start = call.start
      /\ call'.size = call.size /\ call'.want = call.want /\ call'.op = call.op
  BY DEF CallOK, Calls
<1>4. call'.off + call'.todo = reg'.cx
  BY <1>3, CallFields, RegFields DEF Underway
<1>5. sft'[call.s].pos = (call.start + call'.off) % Dword
  <2>1. sft[call.s].pos = (call.start + call.off) % Dword
    BY DEF Underway
  <2>2. call.start + call.off \in Nat /\ n \in Nat
    BY CallFields
  <2>3. (((call.start + call.off) % Dword) + n) % Dword
           = (call.start + call.off + n) % Dword
    BY <2>2, ModAdd, TransferAssumption
  <2>4. call.start + call.off + n = call.start + call'.off
    BY <1>3, <2>2, CallFields
  <2> QED
    BY <2>1, <2>3, <2>4
<1>6. RestInside'
  BY <1>3, CallFields DEF RestInside, Inside
<1>7. ASSUME pc' = "write" PROVE sft'[call.s].pos + call'.todo <= MaxSize
  <2>1. pc = "write" /\ sft[call.s].pos + call.todo <= MaxSize
    BY <1>7 DEF Underway
  <2>2. sft[call.s].pos \in 0..Dword-1
    BY CallFields, EntryFields
  <2>3. sft'[call.s].pos <= sft[call.s].pos + n
    BY <2>2, ModFits, TransferAssumption
  <2>4. sft'[call.s].pos \in Int
    BY <2>2, ModFits, TransferAssumption
  <2> QED
    BY <1>3, <2>1, <2>2, <2>3, <2>4, CallFields, TransferAssumption
<1>8. Underway'
  BY <1>3, <1>4, <1>5, <1>7 DEF Underway
<1> QED
  BY <1>1, <1>2, <1>3, <1>4, <1>5, <1>6, <1>8

\* What ReadFile sets out to read is a word, and if the read starts inside
\* the file it fits the program's buffer and ends inside the file.
LEMMA ClampFits ==
    ASSUME SftOK, NEW s \in Sfts, NEW n \in 0..Word-1
    PROVE  /\ ClampToSize(s, n) \in 0..Word-1
           /\ sft[s].pos <= sft[s].size /\ sft[s].pos + n < Dword =>
                /\ ClampToSize(s, n) <= n
                /\ sft[s].pos + ClampToSize(s, n) <= sft[s].size
<1> DEFINE pos == sft[s].pos
           size == sft[s].size
<1>1. pos \in 0..Dword-1 /\ size \in 0..Dword-1
  BY EntryFields
<1>2. Word \in Nat \ {0} /\ Dword \in Nat \ {0} /\ Word <= Dword
  BY TransferAssumption
<1> HIDE DEF pos, size
<1>3. ((size - pos) % Dword) \in Int
  BY <1>1, <1>2, ModFits
<1>4. ((size - pos) % Dword) % Word \in 0..Word-1
  BY <1>2, <1>3, ModFits
<1>5. ClampToSize(s, n) = IF (pos + n) % Dword > size
                          THEN ((size - pos) % Dword) % Word ELSE n
  BY DEF ClampToSize, pos, size
<1>6. ASSUME pos <= size, pos + n < Dword
      PROVE  ClampToSize(s, n) <= n /\ pos + ClampToSize(s, n) <= size
  <2>1. pos + n \in 0..Dword-1 /\ (pos + n) % Dword = pos + n
    <3>1. pos + n \in 0..Dword-1 /\ pos + n \in Int
      BY <1>1, <1>2, <1>6
    <3> QED
      BY <1>2, <3>1, ModFits
  <2>2. CASE pos + n > size
    <3>1. size - pos \in 0..Dword-1 /\ size - pos \in 0..Word-1
      BY <1>1, <1>2, <1>6, <2>2
    <3>2. size - pos \in Int
      BY <1>1
    <3>3. (size - pos) % Dword = size - pos
      BY <1>2, <3>1, <3>2, ModFits
    <3>4. (size - pos) % Word = size - pos
      BY <1>2, <3>1, <3>2, ModFits
    <3>5. ClampToSize(s, n) = size - pos
      BY <1>5, <2>1, <2>2, <3>3, <3>4
    <3> QED
      BY <1>1, <2>2, <3>5
  <2>3. CASE ~(pos + n > size)
    <3>1. ClampToSize(s, n) = n
      BY <1>5, <2>1, <2>3
    <3> QED
      BY <1>1, <2>3, <3>1
  <2> QED
    BY <2>2, <2>3
<1>7. ClampToSize(s, n) \in 0..Word-1
  BY <1>4, <1>5
<1> QED
  BY <1>6, <1>7 DEF pos, size

LEMMA CallInit == Init => CallInv
<1> SUFFICES ASSUME Init PROVE CallInv
  OBVIOUS
<1> USE DEF Init, CallInv
<1>1. 0 \in 0..Word-1 /\ 0 \in 0..Dword-1 /\ Capped(host) \in 0..Dword-1
  BY TransferAssumption DEF Capped, MinOf
<1>2. SftOK
  BY <1>1 DEF SftOK, Entries
<1>3. CallOK
  BY <1>1 DEF CallOK, Calls
<1>4. RegOK
  BY <1>1, Zenon DEF RegOK, Regs
<1>5. PcOK /\ CountsOK
  BY TransferAssumption DEF PcOK, CountsOK
<1>6. Underway /\ RestInside
  BY DEF Underway, RestInside
<1> QED
  BY <1>2, <1>3, <1>4, <1>5, <1>6

\* A call that starts: its count is what it will try to move.
LEMMA StartCounts ==
    ASSUME CallInv, NEW s \in Sfts, NEW op \in {"read", "write"},
           NEW n \in 0..Word-1, NEW m \in 0..Word-1, NEW b \in BOOLEAN,
           call' = [Called(s, op, n) EXCEPT !.todo = m],
           reg' = [cf |-> b, cx |-> m], sft' = sft,
           op = "read" /\ sft[s].pos <= sft[s].size
              /\ sft[s].pos + n < Dword =>
                /\ m <= n
                /\ sft[s].pos + m <= sft[s].size,
           op = "write" => sft[s].pos + m <= MaxSize,
           pc' \in {"dos", op}
    PROVE  SftOK' /\ CallOK' /\ RegOK' /\ PcOK' /\ Underway' /\ RestInside'
<1> USE DEF CallInv
<1>1. SftOK' /\ PcOK'
  BY DEF SftOK, PcOK
<1>2. CallOK'
  BY CallWrites DEF CallOK
<1>3. RegOK'
  BY RegWrites DEF RegOK
<1>4. /\ call'.s = s /\ call'.op = op /\ call'.want = n /\ call'.off = 0
      /\ call'.todo = m /\ call'.start = sft[s].pos /\ call'.size = sft[s].size
  BY DEF Called
<1>5. sft[s].pos \in 0..Dword-1 /\ sft[s].size \in 0..Dword-1
  BY EntryFields
<1>6. (call'.start + call'.off) % Dword = sft[s].pos
  BY <1>4, <1>5, ModFits, TransferAssumption
<1>7. RestInside'
  BY <1>4, <1>5 DEF RestInside, Inside
<1>8. reg'.cx = m
  OBVIOUS
<1>9. Underway'
  BY <1>4, <1>6, <1>8 DEF Underway
<1> QED
  BY <1>1, <1>2, <1>3, <1>7, <1>9

\* The steps of ReadFile and WriteFile, one lemma for each.
LEMMA ReadFileStep ==
    ASSUME CallInv, NEW s \in Sfts, NEW n \in 0..Word-1, ReadFile(s, n)
    PROVE  CallInv'
<1> USE DEF CallInv
<1>1. CountsOK'
  <2>1. host' = host /\ fails' = fails /\ others' = others
    BY DEF ReadFile, Denied
  <2> QED
    BY <2>1 DEF CountsOK
<1>2. CASE Denied(s, "read", n)
  <2>1. /\ call' = [Called(s, "read", n) EXCEPT !.todo = 0]
        /\ reg' = [cf |-> TRUE, cx |-> n] /\ sft' = sft /\ pc' = pc
    BY <1>2 DEF Denied
  <2>2. pc = "dos"
    BY DEF ReadFile
  <2>3. 0 \in 0..Word-1
    BY TransferAssumption
  <2>4. RegOK'
    BY <2>1, RegWrites DEF RegOK
  <2>5. CallOK'
    BY <2>1, <2>3, CallWrites DEF CallOK
  <2>6. /\ call'.off = 0 /\ call'.todo = 0 /\ call'.start = sft[s].pos
        /\ call'.want = n /\ call'.size = sft[s].size
    BY <2>1 DEF Called
  <2>7. RestInside'
    BY <2>6, EntryFields DEF RestInside, Inside
  <2>8. SftOK' /\ PcOK' /\ Underway'
    BY <2>1, <2>2 DEF SftOK, PcOK, Underway
  <2> QED
    BY <1>1, <2>4, <2>5, <2>7, <2>8
<1>3. CASE ~Denied(s, "read", n)
  <2> DEFINE m == ClampToSize(s, n)
  <2>1. /\ call' = [Called(s, "read", n) EXCEPT !.todo = m]
        /\ reg' = [cf |-> FALSE, cx |-> m] /\ sft' = sft
        /\ pc' \in {"dos", "read"}
    BY <1>3 DEF ReadFile
  <2>2. /\ m \in 0..Word-1
        /\ sft[s].pos <= sft[s].size /\ sft[s].pos + n < Dword =>
             m <= n /\ sft[s].pos + m <= sft[s].size
    BY ClampFits
  <2> HIDE DEF m
  <2>3. SftOK' /\ CallOK' /\ RegOK' /\ PcOK' /\ Underway' /\ RestInside'
    BY <2>1, <2>2, StartCounts
  <2> QED
    BY <1>1, <2>3
<1> QED
  BY <1>2, <1>3

LEMMA WriteFileStep ==
    ASSUME CallInv, NEW s \in Sfts, NEW n \in 0..Word-1, WriteFile(s, n)
    PROVE  CallInv'
<1> USE DEF CallInv
<1>1. /\ pc = "dos" /\ others' = others /\ sft[s].pos + n <= MaxSize
      /\ 0 \in 0..Word-1
  BY TransferAssumption DEF WriteFile
<1>2. CASE Denied(s, "write", n)
  <2>1. /\ call' = [Called(s, "write", n) EXCEPT !.todo = 0]
        /\ reg' = [cf |-> TRUE, cx |-> n] /\ sft' = sft /\ pc' = pc
        /\ host' = host /\ fails' = fails
    BY <1>2 DEF Denied
  <2>2. RegOK'
    BY <2>1, RegWrites DEF RegOK
  <2>3. CallOK'
    BY <1>1, <2>1, CallWrites DEF CallOK
  <2>4. call'.op = "write"
    BY <2>1 DEF Called
  <2>5. SftOK' /\ PcOK' /\ Underway' /\ RestInside' /\ CountsOK'
    BY <1>1, <2>1, <2>4 DEF SftOK, PcOK, Underway, RestInside, CountsOK
  <2> QED
    BY <2>2, <2>3, <2>5
<1>3. CASE n = 0 /\ Truncate(s)
  <2>1. /\ call' = Called(s, "write", 0) /\ pc' = pc
        /\ \E b \in BOOLEAN : reg' = [cf |-> b, cx |-> 0]
        /\ sft' \in {sft, [sft EXCEPT ![s].size = sft[s].pos]}
        /\ host' \in {host, sft[s].pos}
        /\ fails' \in {fails, fails + 1}
        /\ fails' = fails \/ fails < MaxFail
    BY <1>3 DEF Truncate, Refused, LoseRpc
  <2>2. RegOK'
    BY <1>1, <2>1, RegWrites DEF RegOK
  <2>3. CallOK'
    BY <1>1, <2>1, CallWrites DEF CallOK
  <2>4. call'.op = "write"
    BY <2>1 DEF Called
  <2>5. SftOK'
    <3>1. sft[s].pos \in 0..Dword-1
      BY EntryFields
    <3>2. [sft EXCEPT ![s].size = sft[s].pos] \in [Sfts -> Entries]
      BY <3>1, EntryWrites
    <3> QED
      BY <2>1, <3>2 DEF SftOK
  <2>6. CountsOK'
    BY <1>1, <1>3, <2>1, EntryFields, TransferAssumption DEF CountsOK
  <2>7. PcOK' /\ Underway' /\ RestInside'
    BY <1>1, <2>1, <2>4 DEF PcOK, Underway, RestInside
  <2> QED
    BY <2>2, <2>3, <2>5, <2>6, <2>7
<1>4. CASE ~Denied(s, "write", n) /\ ~(n = 0 /\ Truncate(s))
  <2>1. /\ call' = Called(s, "write", n)
        /\ reg' = [cf |-> FALSE, cx |-> n] /\ sft' = sft
        /\ pc' = "write" /\ host' = host /\ fails' = fails
    BY <1>4 DEF WriteFile
  <2>2. call' = [Called(s, "write", n) EXCEPT !.todo = n]
    BY <2>1 DEF Called
  <2>3. SftOK' /\ CallOK' /\ RegOK' /\ PcOK' /\ Underway' /\ RestInside'
    BY <1>1, <2>1, <2>2, StartCounts
  <2>4. CountsOK'
    BY <1>1, <2>1 DEF CountsOK
  <2> QED
    BY <2>3, <2>4
<1> QED
  BY <1>2, <1>3, <1>4

\* What a failed RPC leaves as it was.
LEMMA RetryStep ==
    ASSUME CallInv, Retry
    PROVE  /\ SftOK' /\ CallOK' /\ RegOK' /\ PcOK' /\ Underway' /\ RestInside'
           /\ fails' \in 0..MaxFail /\ pc' = pc
<1> USE DEF CallInv
<1>1. /\ sft' = sft /\ call' = call /\ pc' = pc
      /\ reg' = [reg EXCEPT !.cf = TRUE]
      /\ fails' \in {fails, fails + 1}
      /\ fails' = fails \/ fails < MaxFail
  BY DEF Retry, LoseRpc
<1>2. fails' \in 0..MaxFail
  BY <1>1, TransferAssumption DEF CountsOK
<1>3. RegOK'
  <2>1. 0 \in 0..Word-1 /\ TRUE \in BOOLEAN
    BY TransferAssumption
  <2> QED
    BY <1>1, <2>1, RegWrites DEF RegOK
<1>4. reg'.cx = reg.cx
  BY <1>1 DEF RegOK, Regs
<1>5. SftOK' /\ CallOK' /\ PcOK' /\ Underway' /\ RestInside'
  BY <1>1, <1>4 DEF SftOK, CallOK, PcOK, Underway, RestInside, Inside
<1> QED
  BY <1>1, <1>2, <1>3, <1>5

\* What a call has counted when it returns.
Counted ==
    pc' = "dos" =>
        /\ reg'.cx = call'.off
        /\ sft'[call.s].pos = (call.start + call'.off) % Dword

\* The host moves at most a block, which is at most what is left.
LEMMA BlockFits ==
    ASSUME CallOK
    PROVE  /\ MinOf(call.todo, MaxData) \in Nat
           /\ MinOf(call.todo, MaxData) <= call.todo
           /\ MinOf(call.todo, MaxData) <= MaxData
  BY CallFields, TransferAssumption DEF MinOf

LEMMA ReadableFits ==
    ASSUME CallOK, SftOK, host \in Nat, NEW n \in Readable(call.s)
    PROVE  /\ n # 0 => n \in 1..call.todo
           /\ n = 0 => call.todo = 0 \/ host <= sft[call.s].pos
<1>1. sft[call.s].pos \in 0..Dword-1
  BY CallFields, EntryFields
<1> QED
  BY <1>1, CallFields, TransferAssumption DEF Readable, MinOf

LEMMA ReadLoopStep ==
    ASSUME CallInv, ReadLoop
    PROVE  CallInv' /\ Counted
<1> USE DEF CallInv
<1>1. /\ pc = "read" /\ host' = host /\ others' = others
      /\ call.s \in Sfts /\ host \in Nat
  BY CallFields, TransferAssumption DEF ReadLoop, CountsOK
<1>2. CASE Retry
  BY <1>1, <1>2, RetryStep DEF CountsOK, Counted
<1>3. CASE UNCHANGED <<sft, fails>> /\ \E b \in BOOLEAN : Leave(b)
  <2>1. PICK b \in BOOLEAN : Leave(b)
    BY <1>3
  <2>2. /\ RegOK' /\ CallOK' /\ RestInside' /\ pc' = "dos"
        /\ call' = call /\ reg'.cx = call.off
    BY <1>1, <2>1, LeaveCounts
  <2>3. SftOK' /\ PcOK' /\ CountsOK' /\ Underway'
    BY <1>1, <1>3, <2>2 DEF SftOK, PcOK, CountsOK, Underway
  <2>4. Counted
    BY <1>1, <1>3, <2>2 DEF Counted, Underway
  <2> QED
    BY <2>2, <2>3, <2>4
<1>4. ASSUME NEW n \in Readable(call.s), n # 0, Advance(call.s, n),
             UNCHANGED <<reg, fails>>
      PROVE  CallInv' /\ Counted
  <2>1. n \in 1..call.todo
    BY <1>1, <1>4, ReadableFits
  <2>2. /\ sft' = [sft EXCEPT ![call.s].pos = (sft[call.s].pos + n) % Dword]
        /\ call' = [call EXCEPT !.off = call.off + n, !.todo = call.todo - n]
        /\ pc' = IF n = call.todo THEN "dos" ELSE pc
    BY <1>4 DEF Advance
  <2>3. /\ (sft[call.s].pos + n) % Dword \in 0..Dword-1
        /\ sft[call.s].pos \in 0..Dword-1
    <3>1. sft[call.s].pos \in 0..Dword-1
      BY <1>1, EntryFields
    <3>2. sft[call.s].pos + n \in Int /\ Dword \in Nat \ {0}
      BY <2>1, <3>1, TransferAssumption
    <3> QED
      BY <3>1, <3>2, ModFits
  <2>4. SftOK'
    BY <1>1, <2>2, <2>3, EntryWrites DEF SftOK
  <2>5. sft'[call.s].pos = (sft[call.s].pos + n) % Dword
    BY <1>1, <2>2 DEF SftOK, Entries
  <2>6. /\ RegOK' /\ CallOK' /\ RestInside' /\ Underway' /\ PcOK'
        /\ call'.off + call'.todo = reg'.cx
        /\ call'.todo = call.todo - n
        /\ sft'[call.s].pos = (call.start + call'.off) % Dword
    BY <1>1, <1>4, <2>1, <2>2, <2>5, AdvanceCounts
  <2>7. pc' = "dos" => call'.todo = 0
    BY <1>1, <2>1, <2>2, <2>6, CallFields
  <2>8. call'.off \in Nat
    BY <2>6 DEF CallOK, Calls
  <2>9. Counted
    BY <2>6, <2>7, <2>8 DEF Counted
  <2>10. CountsOK'
    BY <1>1, <1>4 DEF CountsOK
  <2> QED
    BY <2>4, <2>6, <2>9, <2>10
<1>5. \/ Retry
      \/ UNCHANGED <<sft, fails>> /\ \E b \in BOOLEAN : Leave(b)
      \/ \E n \in Readable(call.s) :
           n # 0 /\ Advance(call.s, n) /\ UNCHANGED <<reg, fails>>
  BY DEF ReadLoop, Refused
<1> QED
  BY <1>2, <1>3, <1>4, <1>5

LEMMA StoredFits ==
    ASSUME CallInv, pc = "write", NEW n \in 0..call.todo, Stored(call.s, n)
    PROVE  host' \in 0..MaxSize
<1>1. sft[call.s].pos \in 0..Dword-1
  BY CallFields, EntryFields DEF CallInv
<1> QED
  BY <1>1, CallFields, TransferAssumption
  DEF CallInv, Underway, CountsOK, Stored

LEMMA WriteLoopStep ==
    ASSUME CallInv, WriteLoop
    PROVE  CallInv' /\ Counted
<1> USE DEF CallInv
<1> DEFINE s == call.s
           block == MinOf(call.todo, MaxData)
<1>1. /\ pc = "write" /\ others' = others /\ s \in Sfts
      /\ block \in Nat /\ block <= call.todo /\ call.todo \in Nat
  BY CallFields, BlockFits DEF WriteLoop
<1>2. sft[s].pos \in 0..Dword-1 /\ sft[s].size \in 0..Dword-1
  BY <1>1, EntryFields
<1>3. CASE /\ Retry
           /\ \/ UNCHANGED host
              \/ \E n \in 1..block : Stored(s, n)
  <2>1. host' \in 0..MaxSize
    BY <1>1, <1>3, StoredFits DEF CountsOK
  <2> QED
    BY <1>1, <1>3, <2>1, RetryStep DEF CountsOK, Counted
<1>4. CASE /\ UNCHANGED <<host, fails>> /\ Extend(s)
           /\ \E b \in BOOLEAN : Leave(b)
  <2>1. PICK b \in BOOLEAN : Leave(b)
    BY <1>4
  <2>2. /\ RegOK' /\ CallOK' /\ RestInside' /\ pc' = "dos"
        /\ call' = call /\ reg'.cx = call.off
    BY <1>1, <2>1, LeaveCounts
  <2>3. sft' \in {sft, [sft EXCEPT ![s].size = sft[s].pos]}
    BY <1>4 DEF Extend
  <2>4. SftOK'
    <3>1. [sft EXCEPT ![s].size = sft[s].pos] \in [Sfts -> Entries]
      BY <1>1, <1>2, EntryWrites
    <3> QED
      BY <2>3, <3>1 DEF SftOK
  <2>5. sft'[s].pos = sft[s].pos
    BY <1>1, <2>3 DEF SftOK, Entries
  <2>6. PcOK' /\ CountsOK' /\ Underway'
    BY <1>1, <1>4, <2>2 DEF PcOK, CountsOK, Underway
  <2>7. Counted
    BY <1>1, <2>2, <2>5 DEF Counted, Underway
  <2> QED
    BY <2>2, <2>4, <2>6, <2>7
<1>5. ASSUME NEW n \in 1..block, WriteAll(s, n), Stored(s, n),
             UNCHANGED <<reg, fails>>
      PROVE  CallInv' /\ Counted
  <2> DEFINE pos == (sft[s].pos + n) % Dword
             size == IF pc' = "dos" /\ pos > sft[s].size
                     THEN pos ELSE sft[s].size
  <2>1. n \in 1..call.todo
    BY <1>1
  <2>2. /\ sft' = [sft EXCEPT ![s].pos = pos, ![s].size = size]
        /\ call' = [call EXCEPT !.off = call.off + n, !.todo = call.todo - n]
        /\ pc' = IF n = call.todo THEN "dos" ELSE pc
    BY <1>1, <1>5 DEF WriteAll
  <2>3. pos \in 0..Dword-1
    <3>1. sft[s].pos + n \in Int /\ Dword \in Nat \ {0}
      BY <1>2, <2>1, TransferAssumption
    <3> QED
      BY <3>1, ModFits
  <2>4. size \in 0..Dword-1
    BY <1>2, <2>3
  <2> HIDE DEF size
  <2>5. SftOK'
    BY <1>1, <2>2, <2>3, <2>4, EntryWrites DEF SftOK
  <2>6. sft'[s].pos = pos
    BY <1>1, <2>2 DEF SftOK, Entries
  <2>7. /\ RegOK' /\ CallOK' /\ RestInside' /\ Underway' /\ PcOK'
        /\ call'.off + call'.todo = reg'.cx
        /\ call'.todo = call.todo - n
        /\ sft'[s].pos = (call.start + call'.off) % Dword
    BY <1>1, <1>5, <2>1, <2>2, <2>6, AdvanceCounts
  <2>8. pc' = "dos" => call'.todo = 0
    BY <1>1, <2>1, <2>2, <2>7, CallFields
  <2>9. call'.off \in Nat
    BY <2>7 DEF CallOK, Calls
  <2>10. Counted
    BY <2>7, <2>8, <2>9 DEF Counted
  <2>11. CountsOK'
    BY <1>1, <1>5, <2>1, StoredFits DEF CountsOK
  <2> QED
    BY <2>5, <2>7, <2>10, <2>11
<1>6. \/ /\ Retry
         /\ \/ UNCHANGED host
            \/ \E n \in 1..block : Stored(s, n)
      \/ /\ UNCHANGED <<host, fails>> /\ Extend(s)
         /\ \E b \in BOOLEAN : Leave(b)
      \/ \E n \in 1..block :
           WriteAll(s, n) /\ Stored(s, n) /\ UNCHANGED <<reg, fails>>
  <2>1. ASSUME NEW n \in 0..block, Stored(s, n), n = 0
        PROVE  UNCHANGED host
    BY <2>1 DEF Stored
  <2>2. \A n \in 0..block : n # 0 => n \in 1..block
    BY <1>1
  <2> QED
    BY <2>1, <2>2 DEF WriteLoop, Refused
<1> QED
  BY <1>3, <1>4, <1>5, <1>6

LEMMA CallStep == CallInv /\ [Next]_vars => CallInv'
<1> SUFFICES ASSUME CallInv, [Next]_vars PROVE CallInv'
  OBVIOUS
<1>1. ASSUME NEW s \in Sfts, NEW n \in 0..Word-1, ReadFile(s, n)
      PROVE  CallInv'
  BY <1>1, ReadFileStep
<1>2. ASSUME NEW s \in Sfts, NEW n \in 0..Word-1, WriteFile(s, n)
      PROVE  CallInv'
  BY <1>2, WriteFileStep
<1>3. CASE ReadLoop
  BY <1>3, ReadLoopStep
<1>4. CASE WriteLoop
  BY <1>4, WriteLoopStep
<1> USE DEF CallInv
<1>5. ASSUME NEW s \in Sfts, NEW p \in 0..Dword-1, DosSeek(s, p)
      PROVE  CallInv'
  <2>1. /\ sft' = [sft EXCEPT ![s].pos = p] /\ pc = "dos"
        /\ UNCHANGED <<host, pc, call, reg, fails, others>>
    BY <1>5 DEF DosSeek
  <2>2. SftOK'
    BY <2>1, EntryWrites DEF SftOK
  <2> QED
    BY <2>1, <2>2
    DEF CallOK, RegOK, PcOK, CountsOK, Underway, RestInside, Inside
<1>6. CASE HostResize
  <2>1. /\ others < MaxOther /\ others' = others + 1 /\ host' \in 0..MaxSize
        /\ UNCHANGED <<sft, pc, call, reg, fails>>
    BY <1>6 DEF HostResize
  <2>2. CountsOK'
    BY <2>1, TransferAssumption DEF CountsOK
  <2> QED
    BY <2>1, <2>2
    DEF SftOK, CallOK, RegOK, PcOK, Underway, RestInside, Inside
<1>7. CASE ChannelBreaks \/ UNCHANGED vars
  <2>1. UNCHANGED <<sft, host, pc, call, reg, fails, others>>
    BY <1>7 DEF ChannelBreaks, vars
  <2> QED
    BY <2>1
    DEF SftOK, CallOK, RegOK, PcOK, CountsOK, Underway, RestInside, Inside
<1> QED
  BY <1>1, <1>2, <1>3, <1>4, <1>5, <1>6, <1>7 DEF Next

LEMMA CallAlways == Spec => []CallInv
<1> QED
  BY CallInit, CallStep, PTL DEF Spec

LEMMA BitsAlways == Spec => []BitsOK
<1>1. Init => BitsOK
  BY DEF Init, BitsOK
<1>2. BitsOK /\ [Next]_vars => BitsOK'
  <2> SUFFICES ASSUME BitsOK, [Next]_vars PROVE BitsOK'
    OBVIOUS
  <2>1. up' \in BOOLEAN
    BY Zenon DEF BitsOK, Next, vars, ReadFile, ReadLoop, WriteFile, WriteLoop,
                 DosSeek, HostResize, ChannelBreaks
  <2>2. ASSUME NEW s \in Sfts, NEW n \in 0..Word-1,
               ReadFile(s, n) \/ WriteFile(s, n)
        PROVE  odd' \in BOOLEAN
    BY <2>2, Zenon DEF BitsOK, ReadFile, WriteFile, Denied, Truncate
  <2>3. ASSUME WriteLoop PROVE odd' \in BOOLEAN
    BY <2>3, Zenon DEF BitsOK, WriteLoop
  <2>4. ASSUME odd' = odd PROVE odd' \in BOOLEAN
    BY <2>4, Zenon DEF BitsOK
  <2>5. \/ \E s \in Sfts, n \in 0..Word-1 : ReadFile(s, n) \/ WriteFile(s, n)
        \/ WriteLoop
        \/ odd' = odd
    BY Zenon DEF Next, vars, ReadLoop, DosSeek, HostResize, ChannelBreaks
  <2>6. odd' \in BOOLEAN
    BY <2>2, <2>3, <2>4, <2>5, Zenon
  <2> QED
    BY <2>1, <2>6, Zenon DEF BitsOK
<1> QED
  BY <1>1, <1>2, PTL DEF Spec

\* Words keep their width, and a read that starts inside the file as its
\* entry knows it brings no more than was asked for and nothing from beyond
\* that size, however the sums of ReadFile wrap and the host grows the file.
THEOREM Bounds == Spec => []WithinBounds
<1>1. CallInv /\ BitsOK => WithinBounds
  <2> SUFFICES ASSUME CallInv, BitsOK PROVE WithinBounds
    OBVIOUS
  <2>1. TypeOK
    BY TypeParts DEF CallInv
  <2>2. NoOverrun
    BY CallFields DEF CallInv, RestInside, Inside, NoOverrun
  <2> QED
    BY <2>1, <2>2 DEF WithinBounds
<1> QED
  BY <1>1, CallAlways, BitsAlways, PTL

\* Which steps end a call.
LEMMA WhoReturns ==
    ASSUME [Next]_vars, pc # "dos", pc' = "dos"
    PROVE  \/ pc = "read" /\ ReadLoop
           \/ pc = "write" /\ WriteLoop
<1>1. ASSUME NEW s \in Sfts, NEW n \in 0..Word-1,
             ReadFile(s, n) \/ WriteFile(s, n)
      PROVE  FALSE
  BY <1>1 DEF ReadFile, WriteFile
<1>2. ASSUME NEW s \in Sfts, NEW p \in 0..Dword-1, DosSeek(s, p)
      PROVE  FALSE
  BY <1>2 DEF DosSeek
<1>3. ~HostResize /\ ~ChannelBreaks /\ ~UNCHANGED vars
  BY DEF HostResize, ChannelBreaks, vars
<1>4. ReadLoop \/ WriteLoop
  BY <1>1, <1>2, <1>3, Zenon DEF Next
<1> QED
  BY <1>4, Zenon DEF ReadLoop, WriteLoop

\* The CX a call returns is the number of bytes moved, and the position has
\* advanced by as much, however the host cuts the call and whatever fails.
THEOREM CountReturned == Spec => ReturnsCount
<1> DEFINE Count == \A op \in {"read", "write"} : Returns(op) =>
                      /\ reg'.cx = call'.off
                      /\ sft'[call.s].pos = (call.start + call'.off) % Dword
<1>1. CallInv /\ [Next]_vars => [Count]_vars
  <2> SUFFICES ASSUME CallInv, [Next]_vars,
                      NEW op \in {"read", "write"}, Returns(op)
               PROVE  /\ reg'.cx = call'.off
                      /\ sft'[call.s].pos = (call.start + call'.off) % Dword
    OBVIOUS
  <2>1. pc # "dos" /\ pc' = "dos"
    BY DEF Returns
  <2>2. Counted
    BY <2>1, WhoReturns, ReadLoopStep, WriteLoopStep
  <2> QED
    BY <2>1, <2>2 DEF Counted
<1> QED
  BY <1>1, CallAlways, PTL DEF Spec, ReturnsCount

\* A call that an error status ends reports it.
LEMMA LeaveFails ==
    ASSUME Leave(TRUE)
    PROVE  reg'.cf
<1> DEFINE b == reg.cf \/ TRUE
           n == (reg.cx - call.todo) % Word
<1>1. b = TRUE
  BY Zenon
<1>2. reg' = [cf |-> b, cx |-> n]
  BY Zenon DEF Leave
<1> HIDE DEF b, n
<1>3. reg'.cf = TRUE
  BY <1>1, <1>2
<1> QED
  BY <1>3, Zenon

\* A call that reports success stopped short only because there was nothing
\* more to read, or because the host stored nothing.
THEOREM Complete == Spec => SuccessIsComplete
<1> DEFINE Full ==
      /\ Returns("read") /\ ~reg'.cf =>
           call'.todo = 0 \/ host <= sft[call.s].pos
      /\ Returns("write") /\ ~reg'.cf =>
           call'.todo = 0 \/ host' = host
<1>1. ASSUME CallInv, ReadLoop, pc' = "dos", ~reg'.cf
      PROVE  call'.todo = 0 \/ host <= sft[call.s].pos
  <2> USE DEF CallInv
  <2>1. ~Retry
    BY <1>1 DEF Retry, ReadLoop
  <2>2. ~Leave(TRUE)
    BY <1>1, LeaveFails, Zenon
  <2>3. PICK n \in Readable(call.s) :
          IF n = 0 THEN Leave(FALSE) ELSE Advance(call.s, n)
    BY <1>1, <2>1, <2>2 DEF ReadLoop
  <2>4. CASE n = 0
    <3>1. host \in Nat
      BY <1>1, TransferAssumption DEF CountsOK
    <3>2. call.todo = 0 \/ host <= sft[call.s].pos
      BY <1>1, <2>4, <3>1, ReadableFits
    <3> QED
      BY <2>3, <2>4, <3>2 DEF Leave
  <2>5. CASE n # 0
    <3>1. /\ n = call.todo
          /\ call' = [call EXCEPT !.off = call.off + n, !.todo = call.todo - n]
      BY <1>1, <2>3, <2>5 DEF Advance, ReadLoop
    <3> QED
      BY <1>1, <3>1, CallFields DEF CallOK, Calls
  <2> QED
    BY <2>4, <2>5
<1>2. ASSUME CallInv, WriteLoop, pc' = "dos", ~reg'.cf
      PROVE  call'.todo = 0 \/ host' = host
  <2> USE DEF CallInv
  <2>1. ~Retry
    BY <1>2 DEF Retry, WriteLoop
  <2>2. ~Leave(TRUE)
    BY <1>2, LeaveFails, Zenon
  <2>3. PICK n \in 0..MinOf(call.todo, MaxData) :
          /\ Stored(call.s, n)
          /\ n # 0 => WriteAll(call.s, n)
    BY <1>2, <2>1, <2>2 DEF WriteLoop
  <2>4. CASE n = 0
    BY <2>3, <2>4 DEF Stored
  <2>5. CASE n # 0
    <3>1. /\ n = call.todo
          /\ call' = [call EXCEPT !.off = call.off + n, !.todo = call.todo - n]
      BY <1>2, <2>3, <2>5 DEF WriteAll
    <3> QED
      BY <1>2, <3>1, CallFields DEF CallOK, Calls
  <2> QED
    BY <2>4, <2>5
<1>3. CallInv /\ [Next]_vars => [Full]_vars
  <2> SUFFICES ASSUME CallInv, [Next]_vars PROVE Full
    OBVIOUS
  <2>1. ASSUME Returns("read"), ~reg'.cf
        PROVE  call'.todo = 0 \/ host <= sft[call.s].pos
    BY <1>1, <2>1, WhoReturns DEF Returns
  <2>2. ASSUME Returns("write"), ~reg'.cf
        PROVE  call'.todo = 0 \/ host' = host
    BY <1>2, <2>2, WhoReturns DEF Returns
  <2> QED
    BY <2>1, <2>2, Zenon
<1> QED
  BY <1>3, CallAlways, PTL DEF Spec, SuccessIsComplete

-----------------------------------------------------------------------------
(* The size in the SFT entry of a file that nobody else changes.           *)

\* SizeInStep during calls: while a write is under way the file may have
\* grown as far as that write will go, or as far as it has come.
Tracks(size, pos) ==
    /\ ~odd /\ pc # "write" => size = Capped(host)
    /\ ~odd /\ pc = "write" =>
         /\ size <= host
         /\ host <= size \/ host <= pos + call.todo \/ size = Dword - 1
    /\ fails = 0 /\ up /\ MaxSize < Dword =>
         \/ host <= size
         \/ pc = "write" /\ host <= pos

SizeFollows == Alone => Tracks(sft[call.s].size, sft[call.s].pos)

\* A file alone was alone before.
LEMMA StillAlone ==
    ASSUME CallInv, [Next]_vars, Alone', CallOK'
    PROVE  /\ Alone /\ call'.s = call.s /\ others' = others
           /\ ~HostResize
<1>1. Sfts = {call'.s} /\ others' = 0
  BY DEF Alone
<1>2. call.s \in Sfts
  BY CallFields DEF CallInv
<1>3. others \in Nat
  BY TransferAssumption DEF CallInv, CountsOK
<1>4. ~HostResize
  BY <1>1, <1>3 DEF HostResize
<1>5. others' = others
  BY <1>4, Zenon DEF Next, vars, ReadFile, ReadLoop, WriteFile, WriteLoop,
                     DosSeek, ChannelBreaks
<1> QED
  BY <1>1, <1>2, <1>4, <1>5 DEF Alone

LEMMA SizeInit == Init => SizeFollows
<1> SUFFICES ASSUME Init, Alone
             PROVE  Tracks(sft[call.s].size, sft[call.s].pos)
  BY DEF SizeFollows
<1>1. call.s \in Sfts /\ pc = "dos" /\ host \in 0..MaxSize
  BY DEF Init
<1>2. sft[call.s].size = Capped(host)
  BY <1>1 DEF Init
<1>3. MaxSize < Dword => host <= Capped(host)
  BY <1>1, TransferAssumption DEF Capped, MinOf
<1> QED
  BY <1>1, <1>2, <1>3 DEF Tracks

\* A step that leaves size and file as they are, between calls or in a read.
LEMMA SameSize ==
    ASSUME CallInv, SizeFollows, Alone, pc # "write",
           sft'[call'.s].size = sft[call.s].size,
           host' = host, odd' = odd, up' => up, fails' = 0 => fails = 0
    PROVE  SizeFollows'
<1> DEFINE size == sft[call.s].size
<1>1. size \in 0..Dword-1 /\ host \in Nat
  BY CallFields, EntryFields, TransferAssumption DEF CallInv, CountsOK
<1>2. /\ ~odd => size = Capped(host)
      /\ fails = 0 /\ up /\ MaxSize < Dword => host <= size
  BY DEF SizeFollows, Tracks
<1>3. size = Capped(host) => /\ size <= host
                             /\ host <= size \/ size = Dword - 1
  BY <1>1, TransferAssumption DEF Capped, MinOf
<1>4. ~odd' /\ pc' # "write" => sft'[call'.s].size = Capped(host')
  BY <1>2
<1>5. ~odd' /\ pc' = "write" =>
        /\ sft'[call'.s].size <= host'
        /\ host' <= sft'[call'.s].size \/ sft'[call'.s].size = Dword - 1
  BY <1>2, <1>3
<1>6. fails' = 0 /\ up' /\ MaxSize < Dword => host' <= sft'[call'.s].size
  BY <1>2
<1> QED
  BY <1>4, <1>5, <1>6 DEF SizeFollows, Tracks, Capped

\* A write of no bytes.
LEMMA SizeTruncate ==
    ASSUME CallInv, SizeFollows, Alone, pc = "dos", call'.s = call.s,
           up' = up, Truncate(call.s)
    PROVE  SizeFollows'
<1> DEFINE s == call.s
<1> USE DEF CallInv
<1>1. /\ s \in Sfts /\ sft[s].pos \in 0..Dword-1 /\ fails \in Nat
      /\ Dword \in Nat
  BY CallFields, EntryFields, TransferAssumption DEF CountsOK
<1>2. pc' = "dos"
  BY DEF Truncate
<1>3. CASE UNCHANGED <<sft, host, odd, fails>>
  BY <1>2, <1>3, SameSize
<1>4. ASSUME sft' = [sft EXCEPT ![s].size = sft[s].pos],
             host' = sft[s].pos
      PROVE  SizeFollows'
  <2>1. sft'[s].size = sft[s].pos
    BY <1>1, <1>4 DEF SftOK, Entries
  <2>2. sft'[s].size = Capped(host') /\ host' <= sft'[s].size
    BY <1>1, <1>4, <2>1 DEF Capped, MinOf
  <2> QED
    BY <1>2, <2>2 DEF SizeFollows, Tracks, Capped
<1>5. ASSUME LoseRpc, odd' = TRUE,
             sft' = [sft EXCEPT ![s].size = sft[s].pos],
             host' \in {host} \cup (IF up THEN {sft[s].pos} ELSE {})
      PROVE  SizeFollows'
  <2>1. ~(fails' = 0 /\ up')
    BY <1>1, <1>5 DEF LoseRpc
  <2> QED
    BY <1>2, <1>5, <2>1 DEF SizeFollows, Tracks
<1> QED
  BY <1>3, <1>4, <1>5, Zenon DEF Truncate, Refused

\* A step of the loop of WriteFile.
LEMMA SizeWrite ==
    ASSUME CallInv, SizeFollows, Alone, call'.s = call.s, WriteLoop
    PROVE  SizeFollows'
<1> DEFINE s == call.s
           pos == sft[s].pos
           size == sft[s].size
           todo == call.todo
           block == MinOf(todo, MaxData)
<1> USE DEF CallInv
<1>1. /\ s \in Sfts /\ pos \in 0..Dword-1 /\ size \in 0..Dword-1
      /\ Dword \in Nat \ {0} /\ host \in Nat /\ todo \in Nat /\ fails \in Nat
      /\ block \in Nat /\ block <= todo
  BY CallFields, EntryFields, BlockFits, TransferAssumption DEF CountsOK
<1>2. /\ pc = "write" /\ up' = up /\ pos + todo <= MaxSize
  BY DEF WriteLoop, Underway
<1>3. /\ ~odd => /\ size <= host
                 /\ host <= size \/ host <= pos + todo \/ size = Dword - 1
      /\ fails = 0 /\ up /\ MaxSize < Dword => host <= size \/ host <= pos
  BY <1>2 DEF SizeFollows, Tracks
<1>4. ASSUME Retry, odd' = odd,
             host' = host \/ (up /\ \E n \in 1..block : Stored(s, n))
      PROVE  SizeFollows'
  <2>1. sft' = sft /\ call' = call /\ pc' = pc /\ ~(fails' = 0 /\ up)
    BY <1>1, <1>4 DEF Retry, LoseRpc
  <2>2. /\ host <= host'
        /\ host' = host \/ host' <= pos + todo
    BY <1>1, <1>4 DEF Stored
  <2>3. ~odd => /\ size <= host'
                /\ host' <= size \/ host' <= pos + todo \/ size = Dword - 1
    <3> SUFFICES ASSUME ~odd
                 PROVE  /\ size <= host'
                        /\ \/ host' <= size \/ host' <= pos + todo
                           \/ size = Dword - 1
      OBVIOUS
    <3>1. /\ size <= host
          /\ host <= size \/ host <= pos + todo \/ size = Dword - 1
      BY <1>3
    <3>2. host' \in Int
      BY <1>1, <1>4 DEF Stored
    <3> QED
      BY <1>1, <2>2, <3>1, <3>2
  <2> QED
    BY <1>2, <1>4, <2>1, <2>3 DEF SizeFollows, Tracks
<1>5. ASSUME pc' = "dos", call' = call, Extend(s), odd' = TRUE,
             host' = host, fails' = fails
      PROVE  SizeFollows'
  <2>1. sft'[s].size = IF pos > size THEN pos ELSE size
    BY <1>1, <1>5 DEF Extend, SftOK, Entries
  <2>2. fails' = 0 /\ up' /\ MaxSize < Dword => host' <= sft'[s].size
    BY <1>1, <1>2, <1>3, <1>5, <2>1
  <2> QED
    BY <1>5, <2>2 DEF SizeFollows, Tracks
<1>6. ASSUME NEW n \in 1..block, WriteAll(s, n), Stored(s, n),
             fails' = fails, odd' = (odd \/ pos + n >= Dword)
      PROVE  SizeFollows'
  <2> DEFINE newpos == (pos + n) % Dword
             newsize == IF pc' = "dos" /\ newpos > size THEN newpos ELSE size
  <2>1. /\ sft' = [sft EXCEPT ![s].pos = newpos, ![s].size = newsize]
        /\ call' = [call EXCEPT !.off = call.off + n, !.todo = todo - n]
        /\ pc' = IF n = todo THEN "dos" ELSE "write"
    BY <1>6 DEF WriteAll
  <2> HIDE DEF newpos, newsize
  <2>2. sft'[s].pos = newpos /\ sft'[s].size = newsize
    BY <1>1, <2>1 DEF SftOK, Entries
  <2>3. call'.todo = todo - n
    BY <2>1 DEF CallOK, Calls
  <2>4. n \in Nat /\ n <= todo /\ pos + n \in Nat
    BY <1>1
  <2>5. pos + n < Dword => newpos = pos + n
    <3>1. pos + n < Dword => pos + n \in 0..Dword-1
      BY <1>1, <2>4
    <3>2. pos + n \in Int
      BY <2>4
    <3> QED
      BY <1>1, <3>1, <3>2, ModFits DEF newpos
  <2>6. host' = IF pos + n > host THEN pos + n ELSE host
    BY <1>1, <1>6 DEF Stored
  <2>7. ASSUME ~odd' PROVE ~odd /\ pos + n < Dword
    <3>1. ~odd /\ ~(pos + n >= Dword)
      BY <1>6, <2>7, Zenon
    <3> QED
      BY <1>1, <2>4, <3>1
  <2>8. ASSUME ~odd', pc' # "write" PROVE newsize = Capped(host')
    <3>1. /\ newpos = pos + n /\ n = todo
          /\ newsize = IF newpos > size THEN newpos ELSE size
      BY <2>1, <2>5, <2>7, <2>8 DEF newsize
    <3> QED
      BY <1>1, <1>3, <2>4, <2>6, <2>7, <2>8, <3>1 DEF Capped, MinOf
  <2>9. ASSUME ~odd', pc' = "write"
        PROVE  /\ newsize <= host'
               /\ \/ host' <= newsize
                  \/ host' <= newpos + (todo - n)
                  \/ newsize = Dword - 1
    <3>1. newpos = pos + n /\ newsize = size
      BY <2>5, <2>7, <2>9 DEF newsize
    <3> QED
      BY <1>1, <1>3, <2>4, <2>6, <2>7, <2>9, <3>1
  <2>10. ASSUME fails' = 0, up', MaxSize < Dword
         PROVE  host' <= newsize \/ (pc' = "write" /\ host' <= newpos)
    <3>1. newpos = pos + n
      BY <1>1, <1>2, <2>4, <2>5, <2>10, TransferAssumption
    <3>2. pc' = "write" \/ newsize = IF newpos > size THEN newpos ELSE size
      BY <2>1 DEF newsize
    <3>3. pc' = "write" => newsize = size
      BY DEF newsize
    <3>4. host <= size \/ host <= pos
      BY <1>2, <1>3, <1>6, <2>10
    <3> QED
      BY <1>1, <2>4, <2>6, <3>1, <3>2, <3>3, <3>4
  <2> QED
    BY <2>2, <2>3, <2>8, <2>9, <2>10 DEF SizeFollows, Tracks, Capped
<1>7. \/ /\ Retry /\ odd' = odd
         /\ host' = host \/ (up /\ \E n \in 1..block : Stored(s, n))
      \/ /\ pc' = "dos" /\ call' = call /\ Extend(s) /\ odd' = TRUE
         /\ host' = host /\ fails' = fails
      \/ \E n \in 1..block :
           /\ WriteAll(s, n) /\ Stored(s, n) /\ fails' = fails
           /\ odd' = (odd \/ pos + n >= Dword)
  <2>1. ASSUME NEW n \in 0..block, Stored(s, n), n = 0
        PROVE  host' = host
    BY <2>1 DEF Stored
  <2>2. \A n \in 0..block : n # 0 => n \in 1..block
    BY <1>1
  <2> QED
    BY <2>1, <2>2 DEF WriteLoop, Refused, Leave
<1> QED
  BY <1>4, <1>5, <1>6, <1>7

LEMMA SizeStep ==
    CallInv /\ CallInv' /\ SizeFollows /\ [Next]_vars => SizeFollows'
<1> SUFFICES ASSUME CallInv, CallInv', SizeFollows, [Next]_vars, Alone'
             PROVE  SizeFollows'
  BY DEF SizeFollows
<1>1. Alone /\ call'.s = call.s /\ others' = others /\ ~HostResize
  BY StillAlone DEF CallInv
<1>2. call.s \in Sfts /\ fails \in Nat
  BY CallFields, TransferAssumption DEF CallInv, CountsOK
<1>3. ASSUME NEW s \in Sfts, NEW n \in 0..Word-1, ReadFile(s, n)
      PROVE  SizeFollows'
  <2>1. UNCHANGED <<sft, host, odd, up, fails>> /\ pc = "dos"
    BY <1>3 DEF ReadFile, Denied
  <2> QED
    BY <1>1, <2>1, SameSize
<1>4. ASSUME NEW s \in Sfts, NEW n \in 0..Word-1, WriteFile(s, n)
      PROVE  SizeFollows'
  <2>1. s = call.s
    BY <1>1 DEF Alone
  <2>2. pc = "dos" /\ up' = up
    BY <1>4 DEF WriteFile
  <2>3. CASE Truncate(s)
    BY <1>1, <2>1, <2>2, <2>3, SizeTruncate
  <2>4. CASE ~Truncate(s)
    <3>1. UNCHANGED <<sft, host, odd, fails>>
      BY <1>4, <2>4 DEF WriteFile, Denied
    <3> QED
      BY <1>1, <2>2, <3>1, SameSize
  <2> QED
    BY <2>3, <2>4
<1>5. CASE ReadLoop
  <2>1. pc = "read" /\ UNCHANGED <<host, up, odd>>
    BY <1>5 DEF ReadLoop
  <2>2. fails' = 0 => fails = 0
    <3>1. fails' = fails \/ fails' = fails + 1
      BY <1>5, Zenon DEF ReadLoop, Retry, LoseRpc, Refused
    <3> QED
      BY <1>2, <3>1
  <2>3. \/ sft' = sft
        \/ \E p \in Int : sft' = [sft EXCEPT ![call.s].pos = p]
    <3>1. \/ sft' = sft
          \/ \E n \in Readable(call.s) : n # 0 /\ Advance(call.s, n)
      BY <1>5 DEF ReadLoop, Retry
    <3>2. ASSUME NEW n \in Readable(call.s), n # 0, Advance(call.s, n)
          PROVE  \E p \in Int : sft' = [sft EXCEPT ![call.s].pos = p]
      <4>1. n \in Int
        BY <1>2, <3>2, ReadableFits, CallFields, TransferAssumption
        DEF CallInv, CountsOK
      <4>2. sft[call.s].pos + n \in Int
        BY <1>2, <4>1, EntryFields DEF CallInv
      <4>3. (sft[call.s].pos + n) % Dword \in Int
        <5>1. Dword \in Nat \ {0}
          BY TransferAssumption
        <5> QED
          BY <4>2, <5>1, ModFits
      <4> QED
        BY <3>2, <4>3 DEF Advance
    <3> QED
      BY <3>1, <3>2
  <2>4. sft'[call.s].size = sft[call.s].size
    BY <1>2, <2>3 DEF CallInv, SftOK, Entries
  <2> QED
    BY <1>1, <2>1, <2>2, <2>4, SameSize
<1>6. CASE WriteLoop
  BY <1>1, <1>6, SizeWrite
<1>7. ASSUME NEW s \in Sfts, NEW p \in 0..Dword-1, DosSeek(s, p)
      PROVE  SizeFollows'
  <2>1. /\ sft' = [sft EXCEPT ![s].pos = p] /\ pc = "dos"
        /\ UNCHANGED <<host, up, odd, fails, call>>
    BY <1>7 DEF DosSeek
  <2>2. sft'[call.s].size = sft[call.s].size
    BY <1>2, <2>1 DEF CallInv, SftOK, Entries
  <2> QED
    BY <1>1, <2>1, <2>2, SameSize
<1>8. CASE ChannelBreaks \/ UNCHANGED vars
  <2>1. UNCHANGED <<sft, host, pc, call, fails, odd>> /\ (up' => up)
    BY <1>8 DEF ChannelBreaks, vars
  <2> QED
    BY <1>1, <2>1 DEF SizeFollows, Tracks, Capped
<1> QED
  BY <1>1, <1>3, <1>4, <1>5, <1>6, <1>7, <1>8 DEF Next

\* While nobody else changes the file, the size in the SFT is the size of the
\* file as long as every RPC of a write was carried out, and it never hides
\* data that is in the file as long as no RPC failed, for any sequence of
\* reads, writes, truncations and seeks.
THEOREM SizeKept == Spec => []SizeInStep
<1>1. CallInv /\ SizeFollows => SizeInStep
  BY DEF SizeFollows, Tracks, SizeInStep
<1> QED
  BY <1>1, CallAlways, SizeInit, SizeStep, PTL DEF Spec
=============================================================================
