------------------------------- MODULE Names --------------------------------
(***************************************************************************)
(* Names between DOS and the host (unicode.c, vmdos.c, lfn.c).  A name is  *)
(* the sequence of its bytes: UTF-8 on the host, the active code page in   *)
(* DOS.  A code page is the function from 128..255 to Unicode code points  *)
(* that the code has in unicodeTbl.  A name in an FCB is 11 bytes, padded  *)
(* with spaces; a DOS name has a dot before its extension, if it has one.  *)
(*                                                                         *)
(* How names are mangled is in a record "o" of the options: the code page  *)
(* o.page, o.lfn, o.manglingChars and o.caseSensitive.                     *)
(***************************************************************************)
EXTENDS Integers, Sequences

CONSTANTS
    FUcase,     \* DOS's table of capitals, 128..255
    FChar       \* DOS's characters that names may not have

Space == 32
Dot == 46
Tilde == 126
Underscore == 95

\* What names are made of, and what a code page holds.
Byte == 1..255
CodePoint == 0..65535

Bytes(s) == {s[k] : k \in DOMAIN s}
Take(s, n) == SubSeq(s, 1, IF n < Len(s) THEN n ELSE Len(s))
From(s, n) == SubSeq(s, n, Len(s))
Each(s, Op(_)) == SubSeq([k \in DOMAIN s |-> Op(s[k])], 1, Len(s))

Without(s, drop) ==
    LET Upto[k \in 0..Len(s)] ==
            IF k = 0 THEN <<>>
            ELSE IF s[k] \in drop THEN Upto[k - 1]
                                  ELSE Append(Upto[k - 1], s[k])
    IN  Upto[Len(s)]

\* strchr_local and strrchr_local: where nothing is found they point to the
\* end and to the beginning.
FirstOf(s, c) == CHOOSE k \in 1..Len(s) + 1 :
                    /\ k <= Len(s) => s[k] = c
                    /\ \A l \in 1..k - 1 : s[l] # c
LastOf(s, c) == CHOOSE k \in 1..Len(s) + 1 :
                    /\ k > 1 => k <= Len(s) /\ s[k] = c
                    /\ \A l \in k + 1..Len(s) : s[l] # c

-----------------------------------------------------------------------------
(* Characters.                                                             *)

Utf8(cp) ==
    IF cp < 4096
    THEN <<192 + (cp \div 64), 128 + (cp % 64)>>
    ELSE <<224 + (cp \div 4096), 128 + ((cp \div 64) % 64), 128 + (cp % 64)>>

\* The code page is looked up for bytes with bit 7 set.  The buffer is not
\* here: the result is refused where it is longer than what is left.
LocalToUtf8(page, s) ==
    LET Upto[k \in 0..Len(s)] ==
            IF k = 0 THEN <<>>
            ELSE Upto[k - 1] \o (IF s[k] < 128 THEN <<s[k]>>
                                             ELSE Utf8(page[s[k]]))
    IN  Upto[Len(s)]

\* 0 if the code page does not have the character.
lookupCP(page, cp) ==
    LET at == {c \in 128..255 : page[c] = cp}
    IN  IF at = {} THEN 0 ELSE CHOOSE c \in at : \A d \in at : c <= d

\* The bytes of a character, told from its first one bit by bit.
Width(lead) ==
    LET clear(bit) == (lead \div bit) % 2 = 0
    IN  CASE clear(128) -> 1
          [] ~clear(128) /\ clear(32) -> 2
          [] ~clear(128) /\ ~clear(32) /\ clear(16) -> 3
          [] ~clear(128) /\ ~clear(32) /\ ~clear(16) /\ clear(8) -> 4
          [] OTHER -> 1

\* 0 for a character that DOS cannot have.
LocalChar(page, s, k) ==
    CASE s[k] < 128 -> s[k]
      [] s[k] >= 128 /\ Width(s[k]) = 2 ->
           lookupCP(page, 64 * (s[k] % 32) + (s[k + 1] % 64))
      [] Width(s[k]) = 3 ->
           lookupCP(page, 4096 * (s[k] % 16) + 64 * (s[k + 1] % 64)
                          + (s[k + 2] % 64))
      [] s[k] >= 128 /\ Width(s[k]) \in {1, 4} -> 0

\* The name, and whether DOS has every character of it.
Utf8ToLocal(page, s) ==
    LET Read[k \in 1..Len(s) + 4] ==
            IF k > Len(s) THEN <<>>
            ELSE <<LocalChar(page, s, k)>> \o Read[k + Width(s[k])]
        chars == Read[1]
    IN  [name |-> Each(chars, LAMBDA c : IF c = 0 THEN Underscore ELSE c),
         ok |-> 0 \notin Bytes(chars)]

IllegalChar(c) ==
    \/ c \in FChar.illegal
    \/ c < FChar.lowest \/ c > FChar.highest
    \/ c \in FChar.firstX..FChar.lastX

toupper_local(c) ==
    CASE c \in 97..122 -> c - 32
      [] c \in (0..127) \ (97..122) -> c
      [] c \in 128..255 -> FUcase[c]

\* DOS has no names with spaces, and no capital is a dot.
ASSUME NamesAssumption ==
    /\ FUcase \in [128..255 -> (1..255) \ {Space, Dot}]
    /\ FChar \in [illegal : SUBSET (0..255), lowest : 0..255,
                  highest : 0..255, firstX : 0..255, lastX : 0..255]
    /\ IllegalChar(Space)

-----------------------------------------------------------------------------
(* Names that are 8.3 names as they are.                                   *)

NoName == <<>>

Padded(s, n) == s \o [k \in 1..n - Len(s) |-> Space]

Fcb(base, ext) == Padded(base, 8) \o Padded(ext, 3)

\* Fault: lower case is never mangled.
FaultLowerCase(o, isRoot, c) == FALSE

\* Lower case has to be mangled where case tells names apart: in shares, on
\* hosts that are case sensitive, and for characters the host may not fold.
LowerCase(o, isRoot, c) ==
    /\ o.lfn
    /\ toupper_local(c) # c
    /\ c > 127 \/ o.caseSensitive \/ isRoot

NoMangleFNameToFcbName(o, local, isRoot) ==
    LET dot == FirstOf(local.name, Dot)
        base == SubSeq(local.name, 1, dot - 1)
        ext == From(local.name, dot + 1)
        upper(s) == Each(s, toupper_local)
    IN  IF /\ local.ok
           /\ dot \in 2..9 /\ Len(ext) <= 3
           /\ \A c \in Bytes(base) :
                ~IllegalChar(c) /\ ~LowerCase(o, isRoot, c)
           /\ \A c \in Bytes(ext) :
                /\ ~IllegalChar(c)
                /\ ~(o.lfn /\ toupper_local(c) # c /\ c > 127)
        THEN Fcb(upper(base), upper(ext))
        ELSE NoName

-----------------------------------------------------------------------------
(* Names that are mangled.                                                 *)

Word == 65536

\* hval * 65599 + c, as two words of 16 bits: 65599 = 65536 + 63.
HashStep(c, h) ==
    LET lo == 63 * h[2] + c
    IN  <<(63 * h[1] + h[2] + (lo \div Word)) % Word, lo % Word>>

\* Built with REVERSE_HASH: from the last byte to the first.
HashOf(name) ==
    LET Hash[k \in 1..Len(name) + 1] ==
            IF k > Len(name) THEN <<0, 0>>
            ELSE HashStep(name[k], Hash[k + 1])
    IN  Hash[1]

Nibble(h, k) ==
    LET place(n) == <<1, 16, 256, 4096>>[n + 1]
    IN  CASE k \in 0..3 -> (h[2] \div place(k)) % 16
          [] k \in 4..7 -> (h[1] \div place(k - 4)) % 16
          [] k > 7 -> 0

Xor(a, b) ==
    LET bit(n) == n * (((a \div n) + (b \div n)) % 2)
    IN  bit(1) + bit(2) + bit(4) + bit(8)

\* The hash folded to n hexadecimal digits, the most significant first.
LfnFNameHash(name, n) ==
    LET h == HashOf(name)
    IN  [k \in 1..n |-> Xor(Nibble(h, n - k), Nibble(h, 2 * n - k))]

hexDigit(val) == IF val > 9 THEN val + 55 ELSE val + 48

LfnMangleFNameToFcbName(hash, name) ==
    LET skip == CHOOSE k \in 1..Len(name) + 1 :
                    /\ k <= Len(name) => name[k] \notin {Space, Dot}
                    /\ \A l \in 1..k - 1 : name[l] \in {Space, Dot}
        fName == From(name, skip)
        p == LastOf(fName, Dot)
        stem == IF p = 1 THEN fName ELSE SubSeq(fName, 1, p - 1)
        tail == IF p = 1 THEN <<>> ELSE From(fName, p + 1)
        legal(c) == IF IllegalChar(c) THEN Underscore ELSE toupper_local(c)
        kept(s, drop) == Each(Without(s, drop), legal)
        base == Take(kept(stem, {Space, Dot}), 7 - Len(hash))
    IN  Fcb(base \o <<Tilde>> \o Each(hash, hexDigit),
            Take(kept(tail, {Space}), 3))

\* NoName: a name that DOS does not get to see.
FNameToFcbName(o, fName, isRoot) ==
    LET local == Utf8ToLocal(o.page, fName)
        plain == NoMangleFNameToFcbName(o, local, isRoot)
    IN  CASE fName \in {<<Dot>>, <<Dot, Dot>>} ->
               IF isRoot THEN NoName ELSE Padded(fName, 11)
          [] fName \notin {<<Dot>>, <<Dot, Dot>>}
             /\ (plain # NoName \/ ~o.lfn) -> plain
          [] fName \notin {<<Dot>>, <<Dot, Dot>>}
             /\ plain = NoName /\ o.lfn ->
               LfnMangleFNameToFcbName(
                   LfnFNameHash(fName, o.manglingChars), local.name)

-----------------------------------------------------------------------------
(* Names on their way back.                                                *)

\* Fault: the extension is not compared.
FaultMatchFcbNameToFileName(fcbName, fileName) ==
    LET dot == FirstOf(fileName, Dot)
    IN  \A k \in 1..dot - 1 : fileName[k] = fcbName[k]

\* True as well when the FCB name goes on where the DOS name ends.
MatchFcbNameToFileName(fcbName, fileName) ==
    LET dot == FirstOf(fileName, Dot)
    IN  /\ \A k \in 1..dot - 1 : fileName[k] = fcbName[k]
        /\ dot <= Len(fileName) => dot = 9 \/ fcbName[dot] = Space
        /\ \A k \in dot + 1..Len(fileName) :
             fileName[k] = fcbName[8 + k - dot]

\* What DOS makes of the name in an FCB, and back.
DosName(fcbName) ==
    LET trim(s) == SubSeq(s, 1, FirstOf(s, Space) - 1)
        ext == trim(From(fcbName, 9))
    IN  IF fcbName = NoName THEN NoName
        ELSE trim(SubSeq(fcbName, 1, 8))
                \o (IF ext = <<>> THEN <<>> ELSE <<Dot>> \o ext)

FillFcbName(fileName) ==
    LET dot == FirstOf(fileName, Dot)
    IN  Fcb(SubSeq(fileName, 1, dot - 1), From(fileName, dot + 1))

-----------------------------------------------------------------------------
(* Names that come back without being looked up.                           *)

\* The bytes of a character after its first one.
Following == 128..191

\* UTF-8, but without U+0800 to U+0FFF, whose first byte is 224: LocalToUtf8
\* takes two bytes for them.
WellFormed(s) ==
    /\ s # <<>> => s[1] \notin Following
    /\ \A k \in DOMAIN s : s[k] \notin Following =>
        LET next == k + Width(s[k])
        IN  /\ s[k] \in (1..127) \cup (194..223) \cup (225..244)
            /\ next <= Len(s) + 1
            /\ \A l \in k + 1..next - 1 : s[l] \in Following
            /\ next <= Len(s) => s[next] \notin Following

\* What may stand in a name that is not mangled, and is found again by its
\* capitals: no dot at its end; without LFN no lower case beyond ASCII; and
\* in the name of a share, which is found as it is written, no lower case at
\* all, which with LFN is only left where LowerCase does not see it.
Regular(o, name, isRoot) ==
    LET local == Utf8ToLocal(o.page, name).name
        ext == From(local, FirstOf(local, Dot) + 1)
        capitals(chars) == \A c \in chars : toupper_local(c) = c
    IN  /\ WellFormed(name)
        /\ local[Len(local)] # Dot
        /\ ~o.lfn => capitals(Bytes(local) \ (0..127))
        /\ isRoot => capitals(Bytes(IF o.lfn THEN ext ELSE local))
=============================================================================
