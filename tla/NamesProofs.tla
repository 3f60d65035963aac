----------------------------- MODULE NamesProofs -----------------------------
(***************************************************************************)
(* Theorems about Names: what the conversions return, and that names come  *)
(* back.                                                                   *)
(***************************************************************************)
EXTENDS Names, SequenceTheorems, WellFoundedInduction, TLAPS

-----------------------------------------------------------------------------
(* Numbers.                                                                *)

LEMMA LeastExists ==
    ASSUME NEW S \in SUBSET Nat, S # {}
    PROVE  \E d \in S : \A e \in S : d <= e
<1>1. PICK x \in S : \A y \in S : ~(<<y, x>> \in OpToRel(<, Nat))
  BY NatLessThanWellFounded, WFMin, Zenon
<1>2. ASSUME NEW y \in S PROVE x <= y
  <2>1. <<y, x>> \in Nat \X Nat /\ ~(<<y, x>> \in OpToRel(<, Nat))
    BY <1>1
  <2>2. ~(y < x)
    BY <2>1, Zenon DEF OpToRel
  <2> QED
    BY <2>2
<1> QED
  BY <1>2

\* Induction over a set of numbers.
LEMMA Induct ==
    ASSUME NEW n \in Nat, NEW S, 0 \in S,
           \A k \in 1..n : k - 1 \in S => k \in S
    PROVE  \A k \in 0..n : k \in S
<1> SUFFICES ASSUME NEW m \in 0..n, m \notin S PROVE FALSE
  OBVIOUS
<1> DEFINE Bad == {k \in 0..n : k \notin S}
<1>1. PICK k \in Bad : \A l \in Bad : k <= l
  <2>1. Bad \in SUBSET Nat /\ Bad # {}
    OBVIOUS
  <2> QED
    BY <2>1, LeastExists
<1>2. k # 0 /\ k \in 1..n
  BY <1>1
<1>3. k - 1 \in 0..n /\ ~(k <= k - 1)
  BY <1>2
<1>4. k - 1 \in S
  BY <1>1, <1>3
<1> QED
  BY <1>1, <1>2, <1>4

\* Step by step from x, by F.
Iterates(f, n, x, F) ==
    f[0] = x /\ \A k \in 1..n : f[k] = F[<<k, f[k - 1]>>]

LEMMA Recursion ==
    ASSUME NEW n \in Nat, NEW X, NEW x \in X, NEW F \in [(1..n) \X X -> X]
    PROVE  \E f \in [0..n -> X] : Iterates(f, n, x, F)
<1> DEFINE S == {k \in 0..n : \E f \in [0..k -> X] : Iterates(f, k, x, F)}
<1>1. 0 \in S
  <2> DEFINE f == [k \in 0..0 |-> x]
  <2>1. f \in [0..0 -> X] /\ Iterates(f, 0, x, F)
    BY DEF Iterates
  <2> HIDE DEF f
  <2> QED
    BY <2>1
<1>2. ASSUME NEW k \in 1..n, k - 1 \in S PROVE k \in S
  <2>1. PICK f \in [0..k - 1 -> X] : Iterates(f, k - 1, x, F)
    BY <1>2
  <2> DEFINE g == [l \in 0..k |-> IF l = k THEN F[<<k, f[k - 1]>>] ELSE f[l]]
  <2>2. f[k - 1] \in X
    BY <1>2
  <2>3. F[<<k, f[k - 1]>>] \in X
    BY <2>2
  <2>4. g \in [0..k -> X]
    BY <2>3
  <2>5. g[0] = x
    BY <2>1 DEF Iterates
  <2>6. ASSUME NEW l \in 1..k PROVE g[l] = F[<<l, g[l - 1]>>]
    <3>1. CASE l = k
      <4>1. g[k] = F[<<k, f[k - 1]>>] /\ g[k - 1] = f[k - 1]
        OBVIOUS
      <4> QED
        BY <3>1, <4>1
    <3>2. CASE l # k
      <4>1. l \in 1..k - 1
        BY <3>2
      <4>2. g[l] = f[l] /\ g[l - 1] = f[l - 1]
        BY <4>1
      <4> QED
        BY <2>1, <4>1, <4>2 DEF Iterates
    <3> QED
      BY <3>1, <3>2
  <2>7. Iterates(g, k, x, F)
    BY <2>5, <2>6 DEF Iterates
  <2> HIDE DEF g
  <2> QED
    BY <2>4, <2>7
<1> HIDE DEF S
<1>3. n \in S
  BY <1>1, <1>2, Induct
<1> QED
  BY <1>3 DEF S

\* Each place of a sequence from those behind it: next says from which one.
Recedes(f, n, m, x, F, next) ==
    \A k \in 1..m : f[k] = IF k > n THEN x ELSE F[<<k, f[next[k]]>>]

Onward(next, n) == \A k \in 1..n : k < next[k]

LEMMA Backward ==
    ASSUME NEW n \in Nat, NEW m \in Nat, n <= m, NEW X, NEW x \in X,
           NEW F \in [(1..n) \X X -> X], NEW next \in [1..n -> 1..m],
           Onward(next, n)
    PROVE  \E f \in [1..m -> X] : Recedes(f, n, m, x, F, next)
<1> DEFINE From0(d) == m - d + 1
           Is(f, d) == \A k \in From0(d)..m :
                         f[k] = IF k > n THEN x ELSE F[<<k, f[next[k]]>>]
           S == {d \in 0..m : \E f \in [From0(d)..m -> X] : Is(f, d)}
<1>1. 0 \in S
  <2>1. From0(0)..m = {}
    OBVIOUS
  <2> DEFINE f == [k \in From0(0)..m |-> x]
  <2>2. f \in [From0(0)..m -> X] /\ Is(f, 0)
    BY <2>1
  <2> QED
    BY <2>2
<1>2. ASSUME NEW d \in 1..m, d - 1 \in S PROVE d \in S
  <2> DEFINE j == m - d + 1
  <2>1. /\ j \in 1..m /\ From0(d - 1) = j + 1 /\ From0(d) = j
    OBVIOUS
  <2> HIDE DEF j
  <2>2. PICK f \in [j + 1..m -> X] :
            \A k \in j + 1..m :
                f[k] = IF k > n THEN x ELSE F[<<k, f[next[k]]>>]
    BY <1>2, <2>1
  <2> DEFINE y == IF j > n THEN x ELSE F[<<j, f[next[j]]>>]
             g == [k \in j..m |-> IF k = j THEN y ELSE f[k]]
  <2>3. y \in X
    <3>1. CASE j > n
      BY <3>1
    <3>2. CASE ~(j > n)
      <4>1. j \in 1..n
        BY <2>1, <3>2
      <4>2. next[j] \in j + 1..m
        BY <2>1, <4>1 DEF Onward
      <4>3. f[next[j]] \in X
        BY <4>2
      <4>4. F[<<j, f[next[j]]>>] \in X
        BY <4>1, <4>3
      <4> QED
        BY <3>2, <4>4
    <3> QED
      BY <3>1, <3>2
  <2> HIDE DEF y
  <2>4. g \in [j..m -> X]
    BY <2>1, <2>3
  <2>5. ASSUME NEW k \in j..m
        PROVE  g[k] = IF k > n THEN x ELSE F[<<k, g[next[k]]>>]
    <3>1. CASE k > n
      <4>1. CASE k = j
        BY <3>1, <4>1 DEF y
      <4>2. CASE k # j
        <5>1. k \in j + 1..m /\ g[k] = f[k]
          BY <2>1, <4>2
        <5> QED
          BY <2>2, <3>1, <5>1
      <4> QED
        BY <4>1, <4>2
    <3>2. CASE ~(k > n)
      <4>1. k \in 1..n
        BY <2>1, <3>2
      <4>2. next[k] \in j + 1..m
        BY <2>1, <4>1 DEF Onward
      <4>3. g[next[k]] = f[next[k]]
        BY <2>1, <4>2
      <4>4. CASE k = j
        BY <3>2, <4>3, <4>4 DEF y
      <4>5. CASE k # j
        <5>1. k \in j + 1..m /\ g[k] = f[k]
          BY <2>1, <4>5
        <5> QED
          BY <2>2, <3>2, <4>3, <5>1
      <4> QED
        BY <4>4, <4>5
    <3> QED
      BY <3>1, <3>2
  <2> HIDE DEF g
  <2>6. \E h \in [j..m -> X] : \A k \in j..m :
            h[k] = IF k > n THEN x ELSE F[<<k, h[next[k]]>>]
    BY <2>4, <2>5
  <2>7. \E h \in [From0(d)..m -> X] : Is(h, d)
    BY <2>1, <2>6, Zenon
  <2> HIDE DEF Is, From0
  <2> QED
    BY <2>7
<1> HIDE DEF S
<1>3. \A d \in 0..m : d \in S
  BY <1>1, <1>2, Induct
<1>4. m \in S
  BY <1>3
<1>5. From0(m) = 1
  OBVIOUS
<1> QED
  BY <1>4, <1>5 DEF S, Recedes

-----------------------------------------------------------------------------
(* Sequences.                                                              *)

LEMMA PartIs ==
    ASSUME NEW S, NEW s \in Seq(S), NEW m \in 1..Len(s) + 1,
           NEW n \in Int, m - 1 <= n, n <= Len(s)
    PROVE  /\ SubSeq(s, m, n) \in Seq(S)
           /\ Len(SubSeq(s, m, n)) = n - m + 1
           /\ \A k \in 1..n - m + 1 : SubSeq(s, m, n)[k] = s[m + k - 1]
<1>1. Len(s) \in Nat /\ m \in Int
  BY LenProperties
<1>2. \A k \in m..n : s[k] \in S
  <2>1. \A k \in m..n : k \in 1..Len(s)
    BY <1>1
  <2> QED
    BY <2>1, ElementOfSeq
<1> DEFINE t == SubSeq(s, m, n)
<1>3. /\ t \in Seq(S)
      /\ Len(t) = IF m <= n THEN n - m + 1 ELSE 0
      /\ \A k \in 1..n - m + 1 : t[k] = s[m + k - 1]
  BY <1>1, <1>2, SubSeqProperties
<1> HIDE DEF t
<1>4. Len(t) = n - m + 1
  BY <1>1, <1>3
<1> QED
  BY <1>3, <1>4 DEF t

LEMMA TakenIs ==
    ASSUME NEW S, NEW s \in Seq(S), NEW n \in Nat
    PROVE  /\ Take(s, n) \in Seq(S)
           /\ Len(Take(s, n)) = IF n < Len(s) THEN n ELSE Len(s)
<1> DEFINE m == IF n < Len(s) THEN n ELSE Len(s)
<1>1. Len(s) \in Nat
  BY LenProperties
<1>2. m \in Nat /\ 1 - 1 <= m /\ m <= Len(s) /\ 1 \in 1..Len(s) + 1
  BY <1>1
<1> HIDE DEF m
<1>3. SubSeq(s, 1, m) \in Seq(S) /\ Len(SubSeq(s, 1, m)) = m - 1 + 1
  BY <1>2, PartIs
<1>4. m - 1 + 1 = m
  BY <1>2
<1>5. Take(s, n) = SubSeq(s, 1, m)
  BY DEF Take, m
<1> QED
  BY <1>3, <1>4, <1>5 DEF m

LEMMA FromIs ==
    ASSUME NEW S, NEW s \in Seq(S), NEW m \in 1..Len(s) + 1
    PROVE  /\ From(s, m) \in Seq(S)
           /\ Len(From(s, m)) = Len(s) - m + 1
           /\ \A k \in 1..Len(s) - m + 1 : From(s, m)[k] = s[m + k - 1]
<1>1. Len(s) \in Nat
  BY LenProperties
<1>2. Len(s) \in Int /\ m - 1 <= Len(s) /\ Len(s) <= Len(s)
  BY <1>1
<1> QED
  BY <1>2, PartIs DEF From

\* Each is the function it is made of.
LEMMA EachIs ==
    ASSUME NEW T, NEW n \in Nat, NEW f \in [1..n -> T]
    PROVE  f \in Seq(T) /\ Len(f) = n /\ SubSeq(f, 1, n) = f
<1>1. f \in Seq(T) /\ Len(f) = n
  OBVIOUS
<1> QED
  BY <1>1, SubSeqFull

LEMMA FirstIs ==
    ASSUME NEW S, NEW s \in Seq(S), NEW c
    PROVE  /\ FirstOf(s, c) \in 1..Len(s) + 1
           /\ FirstOf(s, c) <= Len(s) => s[FirstOf(s, c)] = c
           /\ \A l \in 1..FirstOf(s, c) - 1 : s[l] # c
<1> DEFINE n == Len(s)
           T == {k \in 1..n + 1 : k <= n => s[k] = c}
           P(k) == /\ k <= n => s[k] = c
                   /\ \A l \in 1..k - 1 : s[l] # c
<1>1. n \in Nat
  BY LenProperties
<1> HIDE DEF n
<1>2. PICK k \in T : \A l \in T : k <= l
  <2>1. T \in SUBSET Nat /\ n + 1 \in T
    BY <1>1
  <2> HIDE DEF T
  <2> QED
    BY <2>1, LeastExists
<1>3. k \in 1..n + 1 /\ P(k)
  <2>1. ASSUME NEW l \in 1..k - 1, s[l] = c PROVE FALSE
    <3>1. l \in T /\ ~(k <= l)
      BY <1>1, <2>1
    <3> QED
      BY <1>2, <3>1
  <2> QED
    BY <2>1
<1>4. FirstOf(s, c) = CHOOSE j \in 1..n + 1 : P(j)
  BY DEF FirstOf, n
<1> HIDE DEF P
<1>5. FirstOf(s, c) \in 1..n + 1 /\ P(FirstOf(s, c))
  BY <1>3, <1>4
<1> QED
  BY <1>5 DEF P, n

\* It is the only one.
LEMMA FirstAt ==
    ASSUME NEW S, NEW s \in Seq(S), NEW c, NEW k \in 1..Len(s) + 1,
           k <= Len(s) => s[k] = c, \A l \in 1..k - 1 : s[l] # c
    PROVE  FirstOf(s, c) = k
<1> DEFINE j == FirstOf(s, c)
<1>1. Len(s) \in Nat
  BY LenProperties
<1>2. /\ j \in 1..Len(s) + 1 /\ (j <= Len(s) => s[j] = c)
      /\ \A l \in 1..j - 1 : s[l] # c
  BY FirstIs
<1> HIDE DEF j
<1>3. ~(j < k)
  BY <1>1, <1>2
<1>4. ~(k < j)
  BY <1>1, <1>2
<1> QED
  BY <1>1, <1>2, <1>3, <1>4 DEF j

LEMMA LastIs ==
    ASSUME NEW S, NEW s \in Seq(S), NEW c
    PROVE  LastOf(s, c) \in 1..Len(s) + 1
<1> DEFINE n == Len(s)
           P(k) == /\ k > 1 => k <= n /\ s[k] = c
                   /\ \A l \in k + 1..n : s[l] # c
           T == {k \in 1..n + 1 : \A l \in k + 1..n : s[l] # c}
<1>1. n \in Nat
  BY LenProperties
<1> HIDE DEF n
<1>2. PICK k \in T : \A l \in T : k <= l
  <2>1. T \in SUBSET Nat /\ n + 1 \in T
    BY <1>1
  <2> HIDE DEF T
  <2> QED
    BY <2>1, LeastExists
<1>3. k \in 1..n + 1 /\ P(k)
  <2>1. ASSUME k > 1 PROVE k <= n /\ s[k] = c
    <3>1. k - 1 \in 1..n + 1 /\ k - 1 \notin T
      BY <1>1, <1>2, <2>1
    <3>2. PICK l \in (k - 1) + 1..n : s[l] = c
      BY <3>1
    <3>3. l \notin k + 1..n
      BY <1>2, <3>2
    <3> QED
      BY <1>1, <1>2, <3>2, <3>3
  <2> QED
    BY <2>1
<1>4. LastOf(s, c) = CHOOSE j \in 1..n + 1 : P(j)
  BY DEF LastOf, n
<1> HIDE DEF P
<1>5. LastOf(s, c) \in 1..n + 1
  BY <1>3, <1>4
<1> QED
  BY <1>5 DEF n

\* Without drops what it is told to.
LEMMA WithoutIs ==
    ASSUME NEW S, NEW s \in Seq(S), NEW drop
    PROVE  Without(s, drop) \in Seq(S \ drop)
<1> DEFINE n == Len(s)
           X == Seq(S \ drop)
           Add(k, t) == IF s[k] \in drop THEN t ELSE Append(t, s[k])
           F == [p \in (1..n) \X X |-> Add(p[1], p[2])]
           Body(f) == [k \in 0..n |->
                         IF k = 0 THEN <<>> ELSE Add(k, f[k - 1])]
           P(f) == f = Body(f)
           g == CHOOSE f : P(f)
<1>1. n \in Nat /\ \A k \in 1..n : s[k] \in S
  BY LenProperties, ElementOfSeq
<1>2. Without(s, drop) = g[n]
  BY Zenon DEF Without
<1> HIDE DEF n
<1>3. ASSUME NEW k \in 1..n, NEW t \in X PROVE Add(k, t) \in X
  <2>1. CASE s[k] \in drop
    BY <2>1
  <2>2. CASE s[k] \notin drop
    <3>1. s[k] \in S \ drop
      BY <1>1, <2>2
    <3> QED
      BY <2>2, <3>1, AppendProperties
  <2> QED
    BY <2>1, <2>2
<1>4. <<>> \in X
  BY EmptySeq
<1> HIDE DEF X, Add
<1>5. F \in [(1..n) \X X -> X]
  BY <1>3
<1>6. ASSUME NEW k \in 1..n, NEW t \in X PROVE F[<<k, t>>] = Add(k, t)
  OBVIOUS
<1> HIDE DEF F
<1>7. PICK f \in [0..n -> X] : Iterates(f, n, <<>>, F)
  BY <1>1, <1>4, <1>5, Recursion
<1>8. P(f)
  <2>1. ASSUME NEW k \in 0..n
        PROVE  f[k] = IF k = 0 THEN <<>> ELSE Add(k, f[k - 1])
    <3>1. CASE k = 0
      BY <1>7, <3>1 DEF Iterates
    <3>2. CASE k # 0
      <4>1. k \in 1..n /\ k - 1 \in 0..n
        BY <1>1, <3>2
      <4>2. f[k] = F[<<k, f[k - 1]>>] /\ f[k - 1] \in X
        BY <1>7, <4>1 DEF Iterates
      <4> QED
        BY <1>6, <3>2, <4>1, <4>2
    <3> QED
      BY <3>1, <3>2
  <2>2. f = [k \in 0..n |-> f[k]]
    BY <1>7
  <2> QED
    BY <2>1, <2>2
<1>9. P(g)
  <2> HIDE DEF P
  <2> QED
    BY <1>8, Zenon
<1> HIDE DEF g
<1> DEFINE G == {k \in 0..n : g[k] \in X}
<1>10. 0 \in G
  BY <1>1, <1>4, <1>9
<1>11. ASSUME NEW k \in 1..n, k - 1 \in G PROVE k \in G
  <2>1. k \in 0..n /\ k # 0 /\ g[k - 1] \in X
    BY <1>1, <1>11
  <2>2. g[k] = Add(k, g[k - 1])
    <3>1. g[k] = Body(g)[k]
      BY <1>9
    <3>2. Body(g)[k] = Add(k, g[k - 1])
      BY <2>1, Zenon
    <3> QED
      BY <3>1, <3>2
  <2>3. g[k] \in X
    BY <1>3, <2>1, <2>2
  <2> QED
    BY <2>1, <2>3
<1> HIDE DEF G
<1>12. \A k \in 0..n : k \in G
  BY <1>1, <1>10, <1>11, Induct
<1>13. n \in G
  BY <1>1, <1>12
<1> QED
  BY <1>2, <1>13 DEF G, X

-----------------------------------------------------------------------------
(* Characters.                                                             *)

Page(page) == page \in [128..255 -> CodePoint]

LEMMA WidthIs ==
    ASSUME NEW lead \in 0..255
    PROVE  /\ Width(lead) \in 1..4
           /\ lead < 128 => Width(lead) = 1
           /\ lead \in 192..223 => Width(lead) = 2
           /\ lead \in 224..239 => Width(lead) = 3
           /\ lead \in 240..247 => Width(lead) = 4
<1> DEFINE a == (lead \div 128) % 2
           b == (lead \div 32) % 2
           c == (lead \div 16) % 2
           d == (lead \div 8) % 2
           w == Width(lead)
<1>1. /\ lead < 128 => a = 0
      /\ lead \in 192..223 => a = 1 /\ b = 0
      /\ lead \in 224..239 => a = 1 /\ b = 1 /\ c = 0
      /\ lead \in 240..247 => a = 1 /\ b = 1 /\ c = 1 /\ d = 0
  BY Z3
<1>2. Width(lead) = CASE a = 0 -> 1
                      [] ~(a = 0) /\ b = 0 -> 2
                      [] ~(a = 0) /\ ~(b = 0) /\ c = 0 -> 3
                      [] ~(a = 0) /\ ~(b = 0) /\ ~(c = 0) /\ d = 0 -> 4
                      [] OTHER -> 1
  BY Zenon DEF Width
<1> HIDE DEF a, b, c, d
<1>3. /\ a = 0 => w = 1
      /\ ~(a = 0) /\ b = 0 => w = 2
      /\ ~(a = 0) /\ ~(b = 0) /\ c = 0 => w = 3
      /\ ~(a = 0) /\ ~(b = 0) /\ ~(c = 0) /\ d = 0 => w = 4
      /\ ~(a = 0) /\ ~(b = 0) /\ ~(c = 0) /\ ~(d = 0) => w = 1
  BY <1>2, Zenon
<1> HIDE DEF w
<1>4. /\ w \in 1..4 /\ (lead < 128 => w = 1)
      /\ lead \in 192..223 => w = 2
      /\ lead \in 224..239 => w = 3
      /\ lead \in 240..247 => w = 4
  BY <1>1, <1>3
<1> QED
  BY <1>4 DEF w

LEMMA LookupIs ==
    ASSUME NEW page, NEW cp
    PROVE  \/ lookupCP(page, cp) = 0
           \/ /\ lookupCP(page, cp) \in 128..255
              /\ page[lookupCP(page, cp)] = cp
<1> DEFINE at == {c \in 128..255 : page[c] = cp}
           P(c) == \A d \in at : c <= d
<1>1. lookupCP(page, cp) = IF at = {} THEN 0 ELSE CHOOSE c \in at : P(c)
  BY Zenon DEF lookupCP
<1>2. CASE at = {}
  BY <1>1, <1>2
<1>3. CASE at # {}
  <2>1. at \in SUBSET Nat
    OBVIOUS
  <2>2. \E c \in at : P(c)
    <3> HIDE DEF at
    <3> QED
      BY <1>3, <2>1, LeastExists
  <2> HIDE DEF P
  <2>3. lookupCP(page, cp) \in at
    BY <1>1, <1>3, <2>2
  <2> QED
    BY <2>3
<1> QED
  BY <1>2, <1>3

\* The code point that two and three bytes stand for.
Cp2(a, b) == 64 * (a % 32) + (b % 64)
Cp3(a, b, c) == 4096 * (a % 16) + 64 * (b % 64) + (c % 64)

LEMMA LocalCharIs ==
    ASSUME NEW page, NEW s \in Seq(Byte), NEW k \in 1..Len(s)
    PROVE  /\ LocalChar(page, s, k) \in 0..255
           /\ s[k] < 128 => LocalChar(page, s, k) = s[k]
           /\ s[k] \in 192..223 =>
                LocalChar(page, s, k) = lookupCP(page, Cp2(s[k], s[k + 1]))
           /\ s[k] \in 224..239 =>
                LocalChar(page, s, k)
                  = lookupCP(page, Cp3(s[k], s[k + 1], s[k + 2]))
           /\ s[k] \in 240..247 => LocalChar(page, s, k) = 0
<1> DEFINE a == s[k]
           w == Width(a)
           two == lookupCP(page, Cp2(a, s[k + 1]))
           three == lookupCP(page, Cp3(a, s[k + 1], s[k + 2]))
<1>1. a \in 1..255 /\ a \in 0..255
  BY ElementOfSeq DEF Byte
<1> HIDE DEF a
<1>2. /\ w \in 1..4 /\ (a < 128 => w = 1) /\ (a \in 192..223 => w = 2)
      /\ (a \in 224..239 => w = 3) /\ (a \in 240..247 => w = 4)
  BY <1>1, WidthIs
<1>3. two \in 0..255 /\ three \in 0..255
  BY LookupIs
<1> DEFINE lo == a < 128
           hi == a >= 128
           c == LocalChar(page, s, k)
<1>4. c = CASE lo -> a
            [] hi /\ w = 2 -> two
            [] w = 3 -> three
            [] hi /\ w \in {1, 4} -> 0
  BY Zenon DEF LocalChar, Cp2, Cp3, a
<1>5. (lo <=> ~hi) /\ (lo => w = 1) /\ (w = 1 \/ w = 2 \/ w = 3 \/ w = 4)
  BY <1>1, <1>2
<1>6. 1 # 2 /\ 1 # 3 /\ 1 # 4 /\ 2 # 3 /\ 2 # 4 /\ 3 # 4
  OBVIOUS
<1> HIDE DEF lo, hi, w, two, three, c
<1>7. /\ lo => c = a
      /\ hi /\ w = 2 => c = two
      /\ hi /\ w = 3 => c = three
      /\ hi /\ w = 4 => c = 0
      /\ hi /\ w = 1 => c = 0
  <2>1. lo => c = a
    BY <1>4, <1>5, <1>6, Zenon
  <2>2. hi /\ w = 2 => c = two
    BY <1>4, <1>5, <1>6, Zenon
  <2>3. hi /\ w = 3 => c = three
    BY <1>4, <1>5, <1>6, Zenon
  <2>4. hi /\ w = 4 => c = 0
    BY <1>4, <1>5, <1>6, Zenon
  <2>5. hi /\ w = 1 => c = 0
    BY <1>4, <1>5, <1>6, Zenon
  <2> QED
    BY <2>1, <2>2, <2>3, <2>4, <2>5
<1>8. c \in 0..255
  <2>1. 0 \in 0..255
    OBVIOUS
  <2> QED
    BY <1>1, <1>3, <1>5, <1>7, <2>1, Zenon
<1>9. a \in 192..223 \/ a \in 224..239 \/ a \in 240..247 => hi
  BY <1>1 DEF hi
<1>10. /\ a < 128 => c = a
       /\ a \in 192..223 => c = two
       /\ a \in 224..239 => c = three
       /\ a \in 240..247 => c = 0
  BY <1>2, <1>7, <1>9, Zenon DEF lo
<1> QED
  BY <1>8, <1>10, Zenon DEF a, two, three, c

\* The loop that reads a name, character by character.
Reads(page, s, r) ==
    \A k \in 1..Len(s) + 4 :
        r[k] = IF k > Len(s) THEN <<>>
               ELSE <<LocalChar(page, s, k)>> \o r[k + Width(s[k])]

Plain(c) == IF c = 0 THEN Underscore ELSE c

LEMMA Utf8ToLocalIs ==
    ASSUME NEW page, NEW s \in Seq(Byte)
    PROVE  \E r \in [1..Len(s) + 4 -> Seq(0..255)] :
             LET local == Utf8ToLocal(page, s)
             IN  /\ Reads(page, s, r)
                 /\ local.name \in Seq(Byte) /\ Len(local.name) = Len(r[1])
                 /\ \A k \in 1..Len(r[1]) : local.name[k] = Plain(r[1][k])
                 /\ local.ok \in BOOLEAN
                 /\ local.ok => \A k \in 1..Len(r[1]) : r[1][k] # 0
<1> DEFINE n == Len(s)
           X == Seq(0..255)
           ch(k) == LocalChar(page, s, k)
           next == [k \in 1..n |-> k + Width(s[k])]
           F == [p \in (1..n) \X X |-> <<ch(p[1])>> \o p[2]]
           Body(f) == [k \in 1..n + 4 |->
                         IF k > n THEN <<>>
                         ELSE <<ch(k)>> \o f[k + Width(s[k])]]
           P(f) == f = Body(f)
           g == CHOOSE f : P(f)
<1>1. n \in Nat /\ n + 4 \in Nat /\ n <= n + 4
  BY LenProperties
<1>2. Utf8ToLocal(page, s)
        = [name |-> Each(g[1], LAMBDA c : IF c = 0 THEN Underscore ELSE c),
           ok |-> 0 \notin Bytes(g[1])]
  BY Zenon DEF Utf8ToLocal
<1>3. ASSUME NEW k \in 1..n
      PROVE  /\ ch(k) \in 0..255
             /\ k + Width(s[k]) \in 1..n + 4 /\ k < k + Width(s[k])
  <2>1. ch(k) \in 0..255
    BY LocalCharIs
  <2>2. s[k] \in 0..255
    BY ElementOfSeq DEF Byte
  <2>3. Width(s[k]) \in 1..4
    BY <2>2, WidthIs
  <2> HIDE DEF n, ch
  <2> QED
    BY <1>1, <2>1, <2>3
<1> HIDE DEF n, ch
<1>4. /\ next \in [1..n -> 1..n + 4]
      /\ \A k \in 1..n : k < next[k] /\ next[k] = k + Width(s[k])
  BY <1>3
<1> HIDE DEF next
<1>5. <<>> \in X
  BY EmptySeq
<1>6. F \in [(1..n) \X X -> X]
  <2>1. ASSUME NEW k \in 1..n, NEW t \in X PROVE <<ch(k)>> \o t \in X
    <3>1. <<ch(k)>> \in X
      BY <1>3
    <3> QED
      BY <3>1, ConcatProperties
  <2> HIDE DEF X
  <2> QED
    BY <2>1
<1>7. ASSUME NEW k \in 1..n, NEW t \in X
      PROVE  F[<<k, t>>] = <<ch(k)>> \o t
  OBVIOUS
<1> HIDE DEF F, X
<1>8. PICK r \in [1..n + 4 -> X] :
          \A k \in 1..n + 4 :
              r[k] = IF k > n THEN <<>> ELSE F[<<k, r[next[k]]>>]
  <2> DEFINE m == n + 4
             x == <<>>
  <2>1. m \in Nat /\ n <= m /\ next \in [1..n -> 1..m]
    BY <1>1, <1>4
  <2>2. Onward(next, n)
    BY <1>4 DEF Onward
  <2>3. x \in X
    BY <1>5
  <2> HIDE DEF m, x
  <2>4. \E r \in [1..m -> X] : Recedes(r, n, m, x, F, next)
    BY <1>1, <1>6, <2>1, <2>2, <2>3, Backward
  <2> QED
    BY <2>4 DEF m, x, Recedes
<1>9. ASSUME NEW k \in 1..n + 4
      PROVE  r[k] = IF k > n THEN <<>> ELSE <<ch(k)>> \o r[k + Width(s[k])]
  <2>1. CASE k > n
    BY <1>8, <2>1
  <2>2. CASE ~(k > n)
    <3>1. k \in 1..n
      BY <1>1, <2>2
    <3>2. next[k] = k + Width(s[k]) /\ r[next[k]] \in X
      BY <1>4, <1>8, <3>1
    <3> QED
      BY <1>7, <1>8, <2>2, <3>1, <3>2
  <2> QED
    BY <2>1, <2>2
<1>10. P(r)
  <2>1. r = [k \in 1..n + 4 |-> r[k]]
    BY <1>8
  <2> QED
    BY <1>9, <2>1
<1>11. P(g)
  <2> HIDE DEF P
  <2> QED
    BY <1>10, Zenon
<1> HIDE DEF g
<1>12. \A k \in 1..n + 4 :
          g[k] = IF k > n THEN <<>> ELSE <<ch(k)>> \o g[k + Width(s[k])]
  BY <1>11
<1> DEFINE G == {d \in 0..n + 4 : \A k \in n + 5 - d..n + 4 : g[k] = r[k]}
<1>13. 0 \in G
  BY <1>1
<1>14. ASSUME NEW d \in 1..n + 4, d - 1 \in G PROVE d \in G
  <2> DEFINE j == n + 5 - d
  <2>1. /\ j \in 1..n + 4 /\ n + 5 - (d - 1) = j + 1 /\ d \in 0..n + 4
    BY <1>1
  <2>2. \A k \in j + 1..n + 4 : g[k] = r[k]
    BY <1>14, <2>1
  <2>3. g[j] = r[j]
    <3>1. CASE j > n
      BY <1>9, <1>12, <2>1, <3>1
    <3>2. CASE ~(j > n)
      <4>1. j \in 1..n
        BY <1>1, <2>1, <3>2
      <4>2. j + Width(s[j]) \in j + 1..n + 4
        <5>1. j + Width(s[j]) \in 1..n + 4 /\ j < j + Width(s[j])
          BY <1>3, <4>1
        <5> HIDE DEF j
        <5> QED
          BY <1>1, <2>1, <5>1
      <4>3. g[j + Width(s[j])] = r[j + Width(s[j])]
        BY <2>2, <4>2
      <4> HIDE DEF j
      <4> QED
        BY <1>9, <1>12, <2>1, <3>2, <4>3
    <3> QED
      BY <3>1, <3>2
  <2> HIDE DEF j
  <2>4. \A k \in j..n + 4 : g[k] = r[k]
    BY <1>1, <2>1, <2>2, <2>3
  <2> QED
    BY <2>1, <2>4 DEF j
<1> HIDE DEF G
<1>15. \A d \in 0..n + 4 : d \in G
  BY <1>1, <1>13, <1>14, Induct
<1>16. n + 4 \in G
  BY <1>1, <1>15
<1>17. g[1] = r[1]
  <2>1. 1 \in n + 5 - (n + 4)..n + 4
    BY <1>1
  <2> QED
    BY <1>16, <2>1 DEF G
<1> DEFINE chars == r[1]
           m == Len(chars)
           name == Each(chars, LAMBDA c : IF c = 0 THEN Underscore ELSE c)
<1>18. chars \in Seq(0..255)
  BY <1>1, <1>8 DEF X
<1> HIDE DEF chars
<1>19. /\ m \in Nat /\ DOMAIN chars = 1..m
       /\ \A k \in 1..m : chars[k] \in 0..255
  BY <1>18, LenProperties, ElementOfSeq
<1>20. name \in Seq(Byte) /\ Len(name) = m
         /\ \A k \in 1..m : name[k] = Plain(chars[k])
  <2> DEFINE f == [k \in 1..m |-> Plain(chars[k])]
  <2>1. f \in [1..m -> Byte]
    <3>1. ASSUME NEW c \in 0..255 PROVE Plain(c) \in Byte
      BY DEF Plain, Underscore, Byte
    <3> QED
      BY <1>19, <3>1
  <2>2. name = SubSeq(f, 1, m)
    BY <1>19, Zenon DEF Each, Plain
  <2>3. \A k \in 1..m : f[k] = Plain(chars[k])
    OBVIOUS
  <2> HIDE DEF f, m, name
  <2>4. f \in Seq(Byte) /\ Len(f) = m /\ SubSeq(f, 1, m) = f
    BY <1>19, <2>1, EachIs
  <2> QED
    BY <2>2, <2>3, <2>4
<1> HIDE DEF name
<1> DEFINE ok == 0 \notin Bytes(chars)
<1>21. ok \in BOOLEAN /\ (ok => \A k \in 1..m : chars[k] # 0)
  BY <1>19 DEF Bytes
<1>22. Utf8ToLocal(page, s) = [name |-> name, ok |-> ok]
  BY <1>2, <1>17, Zenon DEF name, chars
<1> HIDE DEF ok
<1>23. Utf8ToLocal(page, s).name = name /\ Utf8ToLocal(page, s).ok = ok
  BY <1>22
<1>24. Reads(page, s, r)
  BY <1>9 DEF Reads, n, ch
<1>25. r \in [1..Len(s) + 4 -> Seq(0..255)]
  BY <1>8 DEF n, X
<1> QED
  BY <1>20, <1>21, <1>23, <1>24, <1>25 DEF chars

\* A character in UTF-8, in two bytes or three.
LEMMA SplitTwo ==
    ASSUME NEW cp \in Nat, cp < 4096
    PROVE  /\ cp \div 64 \in Nat /\ cp \div 64 < 64
           /\ cp % 64 \in Nat /\ cp % 64 < 64
BY Z3

LEMMA SplitThree ==
    ASSUME NEW cp \in Nat, cp < 65536
    PROVE  /\ cp \div 4096 \in Nat /\ cp \div 4096 < 16
           /\ (cp \div 64) % 64 \in Nat /\ (cp \div 64) % 64 < 64
           /\ cp % 64 \in Nat /\ cp % 64 < 64
<1>1. cp \div 4096 \in Nat /\ cp \div 4096 < 16
  BY Z3
<1>2. (cp \div 64) % 64 \in Nat /\ (cp \div 64) % 64 < 64
  BY Z3
<1>3. cp % 64 \in Nat /\ cp % 64 < 64
  BY Z3
<1> DEFINE a == cp \div 4096
           b == (cp \div 64) % 64
           c == cp % 64
<1> HIDE DEF a, b, c
<1>4. /\ a \in Nat /\ a < 16 /\ b \in Nat /\ b < 64
      /\ c \in Nat /\ c < 64
  BY <1>1, <1>2, <1>3 DEF a, b, c
<1> QED
  BY <1>4 DEF a, b, c

LEMMA Utf8Two ==
    ASSUME NEW cp, cp < 4096
    PROVE  Utf8(cp) = <<192 + (cp \div 64), 128 + (cp % 64)>>
<1> DEFINE low == cp < 4096
           two == <<192 + (cp \div 64), 128 + (cp % 64)>>
           three == <<224 + (cp \div 4096), 128 + ((cp \div 64) % 64),
                      128 + (cp % 64)>>
<1>1. Utf8(cp) = IF low THEN two ELSE three
  BY DEF Utf8
<1>2. low
  OBVIOUS
<1> HIDE DEF low, two, three
<1>3. Utf8(cp) = two
  BY <1>1, <1>2
<1> QED
  BY <1>3 DEF two

LEMMA Utf8Three ==
    ASSUME NEW cp, ~(cp < 4096)
    PROVE  Utf8(cp) = <<224 + (cp \div 4096), 128 + ((cp \div 64) % 64),
                        128 + (cp % 64)>>
<1> DEFINE low == cp < 4096
           two == <<192 + (cp \div 64), 128 + (cp % 64)>>
           three == <<224 + (cp \div 4096), 128 + ((cp \div 64) % 64),
                      128 + (cp % 64)>>
<1>1. Utf8(cp) = IF low THEN two ELSE three
  BY DEF Utf8
<1>2. ~low
  OBVIOUS
<1> HIDE DEF low, two, three
<1>3. Utf8(cp) = three
  BY <1>1, <1>2
<1> QED
  BY <1>3 DEF three

LEMMA Utf8Is ==
    ASSUME NEW cp \in CodePoint
    PROVE  Utf8(cp) \in Seq(Byte)
<1>1. cp \in Nat /\ cp < 65536
  BY DEF CodePoint
<1>2. CASE cp < 4096
  <2> DEFINE a == cp \div 64
             b == cp % 64
  <2>1. a \in Nat /\ a < 64 /\ b \in Nat /\ b < 64
    BY <1>1, <1>2, SplitTwo
  <2>2. Utf8(cp) = <<192 + a, 128 + b>>
    BY <1>2, Utf8Two
  <2> HIDE DEF a, b
  <2> QED
    BY <2>1, <2>2 DEF Byte
<1>3. CASE ~(cp < 4096)
  <2> DEFINE a == cp \div 4096
             b == (cp \div 64) % 64
             c == cp % 64
  <2>1. /\ a \in Nat /\ a < 16 /\ b \in Nat /\ b < 64
        /\ c \in Nat /\ c < 64
    BY <1>1, SplitThree
  <2>2. Utf8(cp) = <<224 + a, 128 + b, 128 + c>>
    BY <1>3, Utf8Three
  <2> HIDE DEF a, b, c
  <2> QED
    BY <2>1, <2>2 DEF Byte
<1> QED
  BY <1>2, <1>3

\* It is the one that was read.
LEMMA TwoBytes ==
    ASSUME NEW a \in Nat, NEW b \in Nat,
           192 <= a, a <= 223, 128 <= b, b <= 191
    PROVE  Utf8(Cp2(a, b)) = <<a, b>>
<1> DEFINE cp == Cp2(a, b)
<1>1. /\ cp \in Nat /\ cp < 4096
      /\ 192 + (cp \div 64) = a /\ 128 + (cp % 64) = b
  BY Z3 DEF Cp2
<1> HIDE DEF cp
<1> DEFINE x == 192 + (cp \div 64)
           y == 128 + (cp % 64)
<1>2. Utf8(cp) = <<x, y>>
  BY <1>1, Utf8Two
<1>3. x = a /\ y = b
  BY <1>1
<1> HIDE DEF x, y
<1> QED
  BY <1>2, <1>3 DEF cp

LEMMA ThreeBytes ==
    ASSUME NEW a \in Nat, NEW b \in Nat, NEW c \in Nat,
           225 <= a, a <= 239, 128 <= b, b <= 191, 128 <= c, c <= 191
    PROVE  Utf8(Cp3(a, b, c)) = <<a, b, c>>
<1> DEFINE cp == Cp3(a, b, c)
<1>1. /\ cp \in Nat /\ cp >= 4096 /\ 224 + (cp \div 4096) = a
      /\ 128 + ((cp \div 64) % 64) = b /\ 128 + (cp % 64) = c
  BY Z3 DEF Cp3
<1> HIDE DEF cp
<1>2. ~(cp < 4096)
  BY <1>1
<1> DEFINE x == 224 + (cp \div 4096)
           y == 128 + ((cp \div 64) % 64)
           z == 128 + (cp % 64)
<1>3. Utf8(cp) = <<x, y, z>>
  BY <1>2, Utf8Three
<1>4. x = a /\ y = b /\ z = c
  BY <1>1
<1> HIDE DEF x, y, z
<1> QED
  BY <1>3, <1>4 DEF cp

Encode(page, c) == IF c < 128 THEN <<c>> ELSE Utf8(page[c])

LEMMA EncodeIs ==
    ASSUME NEW page, Page(page), NEW c \in Byte
    PROVE  /\ Encode(page, c) \in Seq(Byte)
           /\ c < 128 => Encode(page, c) = <<c>>
           /\ c >= 128 => Encode(page, c) = Utf8(page[c])
<1>1. c \in 1..255
  BY DEF Byte
<1>2. CASE c < 128
  <2>1. Encode(page, c) = <<c>>
    BY <1>2, Zenon DEF Encode
  <2>2. <<c>> \in Seq(Byte)
    OBVIOUS
  <2>3. ~(c >= 128)
    BY <1>1, <1>2
  <2> QED
    BY <1>2, <2>1, <2>2, <2>3, Zenon
<1>3. CASE ~(c < 128)
  <2>1. Encode(page, c) = Utf8(page[c])
    BY <1>3, Zenon DEF Encode
  <2>2. page[c] \in CodePoint
    BY <1>1, <1>3 DEF Page
  <2>3. Utf8(page[c]) \in Seq(Byte)
    BY <2>2, Utf8Is
  <2> QED
    BY <1>3, <2>1, <2>3, Zenon
<1> QED
  BY <1>2, <1>3

\* The loop that writes a name, character by character.
Writes(page, s, f) ==
    f[0] = <<>> /\ \A k \in 1..Len(s) : f[k] = f[k - 1] \o Encode(page, s[k])

LEMMA LocalToUtf8Is ==
    ASSUME NEW page, Page(page), NEW s \in Seq(Byte)
    PROVE  \E f \in [0..Len(s) -> Seq(Byte)] :
               Writes(page, s, f) /\ LocalToUtf8(page, s) = f[Len(s)]
<1> DEFINE n == Len(s)
           X == Seq(Byte)
           Add(k, t) == t \o Encode(page, s[k])
           F == [p \in (1..n) \X X |-> Add(p[1], p[2])]
           Body(f) == [k \in 0..n |->
                         IF k = 0 THEN <<>> ELSE Add(k, f[k - 1])]
           P(f) == f = Body(f)
           g == CHOOSE f : P(f)
<1>1. n \in Nat /\ \A k \in 1..n : s[k] \in Byte
  BY LenProperties, ElementOfSeq
<1>2. LocalToUtf8(page, s) = g[n]
  BY Zenon DEF LocalToUtf8, Encode
<1> HIDE DEF n
<1>3. ASSUME NEW k \in 1..n, NEW t \in X PROVE Add(k, t) \in X
  <2>1. s[k] \in Byte /\ Page(page)
    BY <1>1
  <2>2. Encode(page, s[k]) \in Seq(Byte)
    BY <2>1, EncodeIs
  <2> QED
    BY <2>2, ConcatProperties
<1>4. <<>> \in X
  BY EmptySeq
<1> HIDE DEF X, Add
<1>5. F \in [(1..n) \X X -> X]
  BY <1>3
<1>6. ASSUME NEW k \in 1..n, NEW t \in X PROVE F[<<k, t>>] = Add(k, t)
  OBVIOUS
<1> HIDE DEF F
<1>7. PICK f \in [0..n -> X] : Iterates(f, n, <<>>, F)
  BY <1>1, <1>4, <1>5, Recursion
<1>8. P(f) /\ \A k \in 1..n : f[k] = Add(k, f[k - 1])
  <2>1. ASSUME NEW k \in 1..n PROVE f[k] = Add(k, f[k - 1])
    <3>1. k - 1 \in 0..n
      BY <1>1
    <3>2. f[k] = F[<<k, f[k - 1]>>] /\ f[k - 1] \in X
      BY <1>7, <3>1 DEF Iterates
    <3> QED
      BY <1>6, <3>2
  <2>2. ASSUME NEW k \in 0..n
        PROVE  f[k] = IF k = 0 THEN <<>> ELSE Add(k, f[k - 1])
    <3>1. CASE k = 0
      BY <1>7, <3>1 DEF Iterates
    <3>2. CASE k # 0
      <4>1. k \in 1..n
        BY <1>1, <3>2
      <4> QED
        BY <2>1, <3>2, <4>1
    <3> QED
      BY <3>1, <3>2
  <2>3. f = [k \in 0..n |-> f[k]]
    BY <1>7
  <2> QED
    BY <2>1, <2>2, <2>3
<1>9. P(g)
  <2> HIDE DEF P
  <2> QED
    BY <1>8, Zenon
<1> HIDE DEF g
<1> DEFINE G == {k \in 0..n : g[k] = f[k]}
<1>10. 0 \in G
  <2>1. g[0] = <<>> /\ f[0] = <<>>
    BY <1>1, <1>7, <1>9 DEF Iterates
  <2> QED
    BY <1>1, <2>1
<1>11. ASSUME NEW k \in 1..n, k - 1 \in G PROVE k \in G
  <2>1. k \in 0..n /\ k # 0 /\ g[k - 1] = f[k - 1]
    BY <1>1, <1>11
  <2>2. g[k] = Add(k, g[k - 1])
    <3>1. g[k] = Body(g)[k]
      BY <1>9
    <3>2. Body(g)[k] = Add(k, g[k - 1])
      BY <2>1, Zenon
    <3> QED
      BY <3>1, <3>2
  <2> QED
    BY <1>8, <2>1, <2>2
<1> HIDE DEF G
<1>12. \A k \in 0..n : k \in G
  BY <1>1, <1>10, <1>11, Induct
<1>13. g[n] = f[n]
  <2>1. n \in G
    BY <1>1, <1>12
  <2> QED
    BY <2>1 DEF G
<1>14. Writes(page, s, f)
  <2>1. f[0] = <<>>
    BY <1>7 DEF Iterates
  <2> QED
    BY <1>8, <2>1 DEF Writes, Add, n
<1> QED
  BY <1>2, <1>7, <1>13, <1>14 DEF n, X

\* Names of DOS become names of the host.
LEMMA Utf8Typed ==
    ASSUME NEW page, Page(page), NEW s \in Seq(Byte)
    PROVE  LocalToUtf8(page, s) \in Seq(Byte)
<1>1. PICK f \in [0..Len(s) -> Seq(Byte)] : LocalToUtf8(page, s) = f[Len(s)]
  BY LocalToUtf8Is
<1>2. Len(s) \in 0..Len(s)
  BY LenProperties
<1> QED
  BY <1>1, <1>2

\* Capitals.
LEMMA UpperIs ==
    ASSUME NEW c \in Byte
    PROVE  /\ toupper_local(c) \in Byte
           /\ c # Space => toupper_local(c) # Space
           /\ c # Dot => toupper_local(c) # Dot
           /\ c < 128 => /\ toupper_local(c) < 128
                         /\ toupper_local(toupper_local(c))
                              = toupper_local(c)
           /\ toupper_local(Dot) = Dot /\ toupper_local(Tilde) = Tilde
<1> DEFINE u(x) == toupper_local(x)
           small(x) == x \in 97..122
           plain(x) == x \in (0..127) \ (97..122)
           high(x) == x \in 128..255
           sub(x) == x - 32
<1>0. ASSUME NEW x
      PROVE  u(x) = CASE small(x) -> sub(x)
                      [] plain(x) -> x
                      [] high(x) -> FUcase[x]
  BY Zenon DEF toupper_local
<1> HIDE DEF u
<1>1. ASSUME NEW x \in 97..122 PROVE u(x) = x - 32
  <2>1. small(x) /\ ~plain(x) /\ ~high(x)
    OBVIOUS
  <2> HIDE DEF small, plain, high, sub
  <2>2. u(x) = sub(x)
    BY <1>0, <2>1, Zenon
  <2> QED
    BY <2>2 DEF sub
<1>2. ASSUME NEW x \in (0..127) \ (97..122) PROVE u(x) = x
  <2>1. plain(x) /\ ~small(x) /\ ~high(x)
    OBVIOUS
  <2> HIDE DEF small, plain, high, sub
  <2>2. u(x) = x
    BY <1>0, <2>1, Zenon
  <2> QED
    BY <2>2 DEF sub
<1>3. ASSUME NEW x \in 128..255 PROVE u(x) = FUcase[x]
  <2>1. high(x) /\ ~small(x) /\ ~plain(x)
    OBVIOUS
  <2> HIDE DEF small, plain, high, sub
  <2>2. u(x) = FUcase[x]
    BY <1>0, <2>1, Zenon
  <2> QED
    BY <2>2 DEF sub
<1> HIDE DEF small, plain, high, sub
<1>4. ASSUME NEW x \in 128..255 PROVE FUcase[x] \in (1..255) \ {32, 46}
  <2>1. FUcase \in [128..255 -> (1..255) \ {32, 46}]
    BY NamesAssumption, Zenon DEF NamesAssumption, Space, Dot
  <2> QED
    BY <2>1
<1>5. c \in 1..255
  BY DEF Byte
<1>6. u(46) = 46 /\ u(126) = 126
  <2>1. 46 \in (0..127) \ (97..122) /\ 126 \in (0..127) \ (97..122)
    OBVIOUS
  <2> QED
    BY <1>2, <2>1
<1>7. /\ u(c) \in 1..255 /\ (c # 32 => u(c) # 32)
      /\ (c # 46 => u(c) # 46)
      /\ (c < 128 => u(c) < 128 /\ u(u(c)) = u(c))
  <2>1. CASE c \in 97..122
    <3>1. u(c) = c - 32 /\ c - 32 \in (0..127) \ (97..122)
      BY <1>1, <2>1
    <3>2. u(c - 32) = c - 32
      BY <1>2, <3>1
    <3> QED
      BY <2>1, <3>1, <3>2
  <2>2. CASE c \in (0..127) \ (97..122)
    <3>1. u(c) = c
      BY <1>2, <2>2
    <3> QED
      BY <1>5, <2>2, <3>1
  <2>3. CASE c \in 128..255
    <3>1. u(c) = FUcase[c]
      BY <1>3, <2>3
    <3>2. u(c) \in (1..255) \ {32, 46}
      BY <1>4, <2>3, <3>1
    <3> QED
      BY <2>3, <3>2
  <2> QED
    BY <1>5, <2>1, <2>2, <2>3
<1> QED
  BY <1>6, <1>7, Zenon DEF u, Byte, Space, Dot, Tilde

-----------------------------------------------------------------------------
(* Names in an FCB.                                                        *)

Letter == Byte \ {Space}

\* The two parts of a name.
Parts(b, e) ==
    /\ b \in Seq(Letter) /\ 1 <= Len(b) /\ Len(b) <= 8
    /\ e \in Seq(Letter) /\ Len(e) <= 3

LEMMA PaddedIs ==
    ASSUME NEW s \in Seq(Letter), NEW n \in Nat, Len(s) <= n
    PROVE  /\ Padded(s, n) \in Seq(Byte) /\ Len(Padded(s, n)) = n
           /\ \A k \in 1..n :
                Padded(s, n)[k] = IF k <= Len(s) THEN s[k] ELSE Space
<1> DEFINE m == Len(s)
           f == [k \in 1..n - m |-> Space]
<1>1. m \in Nat /\ n - m \in Nat /\ s \in Seq(Byte)
  <2>1. Letter \subseteq Byte
    BY DEF Letter
  <2> QED
    BY <2>1, LenProperties, SeqMonotonic
<1> HIDE DEF m
<1>2. f \in Seq(Byte) /\ Len(f) = n - m
  BY <1>1 DEF Byte, Space
<1>3. \A k \in 1..n - m : f[k] = Space
  OBVIOUS
<1>4. Padded(s, n) = s \o f
  BY DEF Padded, m
<1> HIDE DEF f
<1>5. /\ s \o f \in Seq(Byte) /\ Len(s \o f) = m + Len(f)
      /\ \A k \in 1..m + Len(f) :
           (s \o f)[k] = IF k <= m THEN s[k] ELSE f[k - m]
  BY <1>1, <1>2, ConcatProperties DEF m
<1>6. ASSUME NEW k \in 1..n
      PROVE  (s \o f)[k] = IF k <= m THEN s[k] ELSE Space
  BY <1>1, <1>2, <1>3, <1>5
<1> QED
  BY <1>1, <1>2, <1>4, <1>5, <1>6 DEF m

\* Without the spaces it is what was padded.
LEMMA TrimIs ==
    ASSUME NEW s \in Seq(Letter), NEW n \in Nat, Len(s) <= n,
           NEW t \in Seq(Byte), Len(t) = n,
           \A k \in 1..n : t[k] = IF k <= Len(s) THEN s[k] ELSE Space
    PROVE  SubSeq(t, 1, FirstOf(t, Space) - 1) = s
<1> DEFINE m == Len(s)
<1>1. m \in Nat /\ s \in Seq(Byte) /\ \A k \in 1..m : s[k] \in Letter
  <2>1. Letter \subseteq Byte
    BY DEF Letter
  <2> QED
    BY <2>1, LenProperties, ElementOfSeq, SeqMonotonic
<1>2. \A k \in 1..m : s[k] # Space
  BY <1>1 DEF Letter
<1> HIDE DEF m
<1>3. m + 1 \in 1..Len(t) + 1 /\ (m + 1 <= Len(t) => t[m + 1] = Space)
  BY <1>1 DEF m
<1>4. \A k \in 1..m : t[k] = s[k]
  BY <1>1 DEF m
<1>5. FirstOf(t, Space) = m + 1
  <2>1. \A l \in 1..(m + 1) - 1 : t[l] # Space
    BY <1>1, <1>2, <1>4
  <2> DEFINE j == m + 1
  <2> HIDE DEF j
  <2>2. j \in 1..Len(t) + 1 /\ (j <= Len(t) => t[j] = Space)
        /\ \A l \in 1..j - 1 : t[l] # Space
    BY <1>3, <2>1 DEF j
  <2>3. FirstOf(t, Space) = j
    BY <2>2, FirstAt
  <2> QED
    BY <2>3 DEF j
<1>6. FirstOf(t, Space) - 1 = m
  BY <1>1, <1>5
<1> DEFINE u == SubSeq(t, 1, m)
<1>7. 1 \in 1..Len(t) + 1 /\ m \in Int /\ 1 - 1 <= m /\ m <= Len(t)
  BY <1>1, <1>3
<1>8. /\ u \in Seq(Byte) /\ Len(u) = m - 1 + 1
      /\ \A k \in 1..m - 1 + 1 : u[k] = t[1 + k - 1]
  BY <1>7, PartIs
<1> HIDE DEF u
<1>9. Len(u) = Len(s) /\ \A k \in 1..Len(u) : u[k] = s[k]
  BY <1>1, <1>4, <1>8 DEF m
<1>10. u = s
  BY <1>1, <1>8, <1>9, SeqEqual
<1> QED
  BY <1>6, <1>10 DEF u

LEMMA PartsAre ==
    ASSUME NEW b, NEW e, Parts(b, e)
    PROVE  /\ b \in Seq(Letter) /\ b \in Seq(Byte)
           /\ Len(b) \in Nat /\ 1 <= Len(b) /\ Len(b) <= 8
           /\ e \in Seq(Letter) /\ e \in Seq(Byte)
           /\ Len(e) \in Nat /\ Len(e) <= 3
<1>1. b \in Seq(Letter) /\ e \in Seq(Letter)
  BY DEF Parts
<1>2. Letter \subseteq Byte
  BY DEF Letter
<1>3. b \in Seq(Byte) /\ e \in Seq(Byte)
  BY <1>1, <1>2, SeqMonotonic
<1>4. Len(b) \in Nat /\ Len(e) \in Nat
  BY <1>1, LenProperties
<1> QED
  BY <1>1, <1>3, <1>4 DEF Parts

LEMMA FcbIs ==
    ASSUME NEW b, NEW e, Parts(b, e)
    PROVE  /\ Fcb(b, e) \in Seq(Byte) /\ Len(Fcb(b, e)) = 11
           /\ \A k \in 1..8 :
                Fcb(b, e)[k] = IF k <= Len(b) THEN b[k] ELSE Space
           /\ \A k \in 1..3 :
                Fcb(b, e)[8 + k] = IF k <= Len(e) THEN e[k] ELSE Space
<1> DEFINE x == Padded(b, 8)
           y == Padded(e, 3)
<1>1. b \in Seq(Letter) /\ e \in Seq(Letter)
  BY PartsAre
<1>2. /\ Len(b) \in Nat /\ Len(b) <= 8
      /\ Len(e) \in Nat /\ Len(e) <= 3
  BY PartsAre
<1>3. /\ x \in Seq(Byte) /\ Len(x) = 8
      /\ \A k \in 1..8 : x[k] = IF k <= Len(b) THEN b[k] ELSE Space
  BY <1>1, <1>2, PaddedIs
<1>4. /\ y \in Seq(Byte) /\ Len(y) = 3
      /\ \A k \in 1..3 : y[k] = IF k <= Len(e) THEN e[k] ELSE Space
  BY <1>1, <1>2, PaddedIs
<1>5. Fcb(b, e) = x \o y
  BY DEF Fcb
<1> HIDE DEF x, y
<1>6. /\ x \o y \in Seq(Byte) /\ Len(x \o y) = 11
      /\ \A k \in 1..11 : (x \o y)[k] = IF k <= 8 THEN x[k] ELSE y[k - 8]
  <2>1. /\ x \o y \in Seq(Byte) /\ Len(x \o y) = Len(x) + Len(y)
        /\ \A k \in 1..Len(x) + Len(y) :
             (x \o y)[k] = IF k <= Len(x) THEN x[k] ELSE y[k - Len(x)]
    BY <1>3, <1>4, ConcatProperties
  <2> QED
    BY <1>3, <1>4, <2>1
<1>7. ASSUME NEW k \in 1..3
      PROVE  (x \o y)[8 + k] = IF k <= Len(e) THEN e[k] ELSE Space
  <2>1. 8 + k \in 1..11 /\ ~(8 + k <= 8) /\ (8 + k) - 8 = k
    OBVIOUS
  <2>2. (x \o y)[8 + k] = y[k]
    BY <1>6, <2>1
  <2> QED
    BY <1>4, <2>2
<1>8. ASSUME NEW k \in 1..8
      PROVE  (x \o y)[k] = IF k <= Len(b) THEN b[k] ELSE Space
  <2>1. k \in 1..11 /\ k <= 8
    OBVIOUS
  <2>2. (x \o y)[k] = x[k]
    BY <1>6, <2>1
  <2> QED
    BY <1>3, <2>2
<1> QED
  BY <1>5, <1>6, <1>7, <1>8

\* The name that DOS makes of it.
Dotted(e) == IF e = <<>> THEN <<>> ELSE <<Dot>> \o e

LEMMA DosNameIs ==
    ASSUME NEW b, NEW e, Parts(b, e)
    PROVE  DosName(Fcb(b, e)) = b \o Dotted(e)
<1> DEFINE f == Fcb(b, e)
           base == SubSeq(f, 1, 8)
           ext == From(f, 9)
<1>1. /\ b \in Seq(Letter) /\ Len(b) <= 8
      /\ e \in Seq(Letter) /\ Len(e) <= 3
  BY PartsAre
<1>2. /\ f \in Seq(Byte) /\ Len(f) = 11
      /\ \A k \in 1..8 : f[k] = IF k <= Len(b) THEN b[k] ELSE Space
      /\ \A k \in 1..3 : f[8 + k] = IF k <= Len(e) THEN e[k] ELSE Space
  BY FcbIs
<1>3. DosName(f) = IF f = <<>> THEN <<>>
                   ELSE SubSeq(base, 1, FirstOf(base, Space) - 1)
                          \o Dotted(SubSeq(ext, 1, FirstOf(ext, Space) - 1))
  BY Zenon DEF DosName, NoName, Dotted
<1> HIDE DEF f
<1>4. f # <<>>
  <2>1. Len(f) # Len(<<>>)
    BY <1>2
  <2> QED
    BY <2>1, Zenon
<1>5. /\ base \in Seq(Byte) /\ Len(base) = 8
      /\ \A k \in 1..8 : base[k] = f[k]
  <2>1. f \in Seq(Byte) /\ 1 \in 1..Len(f) + 1
    BY <1>2
  <2>3. 8 \in Int /\ 1 - 1 <= 8 /\ 8 <= Len(f)
    BY <1>2
  <2>2. /\ base \in Seq(Byte) /\ Len(base) = 8 - 1 + 1
        /\ \A k \in 1..8 - 1 + 1 : base[k] = f[1 + k - 1]
    BY <2>1, <2>3, PartIs
  <2> HIDE DEF base
  <2> QED
    BY <2>2
<1>6. /\ ext \in Seq(Byte) /\ Len(ext) = 3
      /\ \A k \in 1..3 : ext[k] = f[8 + k]
  <2>1. 9 \in 1..Len(f) + 1
    BY <1>2
  <2>2. /\ ext \in Seq(Byte) /\ Len(ext) = Len(f) - 9 + 1
        /\ \A k \in 1..Len(f) - 9 + 1 : ext[k] = f[9 + k - 1]
    BY <1>2, <2>1, FromIs
  <2> HIDE DEF ext
  <2> QED
    BY <1>2, <2>2
<1> HIDE DEF base, ext
<1>7. SubSeq(base, 1, FirstOf(base, Space) - 1) = b
  <2>1. \A k \in 1..8 : base[k] = IF k <= Len(b) THEN b[k] ELSE Space
    BY <1>2, <1>5
  <2> QED
    BY <1>1, <1>5, <2>1, TrimIs
<1>8. SubSeq(ext, 1, FirstOf(ext, Space) - 1) = e
  <2>1. \A k \in 1..3 : ext[k] = IF k <= Len(e) THEN e[k] ELSE Space
    BY <1>2, <1>6
  <2> QED
    BY <1>1, <1>6, <2>1, TrimIs
<1> QED
  BY <1>3, <1>4, <1>7, <1>8 DEF f

LEMMA DottedIs ==
    ASSUME NEW b, NEW e, Parts(b, e)
    PROVE  LET d == b \o Dotted(e)
               n == Len(b) + (IF e = <<>> THEN 0 ELSE Len(e) + 1)
           IN  /\ d \in Seq(Byte) /\ Len(d) = n
               /\ \A k \in 1..Len(b) : d[k] = b[k]
               /\ e # <<>> => /\ d[Len(b) + 1] = Dot
                              /\ \A k \in 1..Len(e) :
                                   d[Len(b) + 1 + k] = e[k]
<1> DEFINE t == Dotted(e)
           d == b \o t
           n == Len(b) + (IF e = <<>> THEN 0 ELSE Len(e) + 1)
<1>1. /\ b \in Seq(Byte) /\ Len(b) \in Nat
      /\ e \in Seq(Byte) /\ Len(e) \in Nat
  BY PartsAre
<1>2. CASE e = <<>>
  <2>1. t = <<>>
    BY <1>2, Zenon DEF Dotted
  <2>2. d = b
    BY <1>1, <2>1, ConcatEmptySeq
  <2>3. n = Len(b)
    BY <1>1, <1>2
  <2> HIDE DEF d, n
  <2>4. d \in Seq(Byte) /\ Len(d) = n /\ \A k \in 1..Len(b) : d[k] = b[k]
    BY <1>1, <2>2, <2>3
  <2> QED
    BY <1>2, <2>4 DEF d, n, t
<1>3. CASE e # <<>>
  <2>1. t = <<Dot>> \o e
    BY <1>3, Zenon DEF Dotted
  <2>2. /\ <<Dot>> \in Seq(Byte) /\ Len(<<Dot>>) = 1 /\ <<Dot>>[1] = Dot
    BY DEF Byte, Dot
  <2>3. /\ t \in Seq(Byte) /\ Len(t) = 1 + Len(e) /\ t[1] = Dot
        /\ \A k \in 1..Len(e) : t[1 + k] = e[k]
    <3> DEFINE o == <<Dot>>
    <3> HIDE DEF o
    <3>1. /\ o \in Seq(Byte) /\ Len(o) = 1 /\ o[1] = Dot /\ t = o \o e
      BY <2>1, <2>2 DEF o
    <3>2. /\ o \o e \in Seq(Byte) /\ Len(o \o e) = Len(o) + Len(e)
          /\ \A k \in 1..Len(o) + Len(e) :
               (o \o e)[k] = IF k <= Len(o) THEN o[k] ELSE e[k - Len(o)]
      BY <1>1, <3>1, ConcatProperties
    <3> HIDE DEF t
    <3> QED
      BY <1>1, <3>1, <3>2
  <2> HIDE DEF t
  <2>9. b \in Seq(Byte) /\ t \in Seq(Byte)
    BY <1>1, <2>3
  <2>4. /\ b \o t \in Seq(Byte) /\ Len(b \o t) = Len(b) + Len(t)
        /\ \A k \in 1..Len(b) + Len(t) :
             (b \o t)[k] = IF k <= Len(b) THEN b[k] ELSE t[k - Len(b)]
    BY <2>9, ConcatProperties
  <2>5. n = Len(b) + Len(t)
    BY <1>1, <1>3, <2>3
  <2> HIDE DEF d, n
  <2>10. \A k \in 1..Len(b) + Len(t) :
             d[k] = IF k <= Len(b) THEN b[k] ELSE t[k - Len(b)]
    BY <2>4 DEF d
  <2>6. \A k \in 1..Len(b) : d[k] = b[k]
    BY <1>1, <2>3, <2>10
  <2>7. d[Len(b) + 1] = Dot
    BY <1>1, <2>3, <2>10
  <2>8. ASSUME NEW k \in 1..Len(e) PROVE d[Len(b) + 1 + k] = e[k]
    <3>1. /\ Len(b) + 1 + k \in 1..Len(b) + Len(t)
          /\ ~(Len(b) + 1 + k <= Len(b))
          /\ (Len(b) + 1 + k) - Len(b) = 1 + k
      BY <1>1, <2>3
    <3>2. d[Len(b) + 1 + k] = t[1 + k]
      BY <2>10, <3>1
    <3> QED
      BY <2>3, <3>2
  <2> QED
    BY <2>4, <2>5, <2>6, <2>7, <2>8 DEF d, n, t
<1> QED
  BY <1>2, <1>3

\* As FromIs, with nothing left behind the end.
LEMMA RestIs ==
    ASSUME NEW S, NEW s \in Seq(S), NEW m \in Nat, 1 <= m
    PROVE  /\ From(s, m) \in Seq(S)
           /\ Len(From(s, m)) = IF m <= Len(s) THEN Len(s) - m + 1 ELSE 0
           /\ \A k \in 1..Len(s) - m + 1 : From(s, m)[k] = s[m + k - 1]
<1>1. Len(s) \in Int /\ m \in Int
  BY LenProperties
<1>2. \A k \in m..Len(s) : s[k] \in S
  <2>1. \A k \in m..Len(s) : k \in 1..Len(s)
    BY <1>1
  <2> QED
    BY <2>1, ElementOfSeq
<1> QED
  BY <1>1, <1>2, SubSeqProperties DEF From

Capitals(S, T) == \A c \in S : toupper_local(c) \in T

LEMMA UpperEach ==
    ASSUME NEW S, NEW T, Capitals(S, T), NEW s \in Seq(S)
    PROVE  /\ Each(s, toupper_local) \in Seq(T)
           /\ Len(Each(s, toupper_local)) = Len(s)
           /\ \A k \in 1..Len(s) :
                Each(s, toupper_local)[k] = toupper_local(s[k])
<1> DEFINE m == Len(s)
           f == [k \in 1..m |-> toupper_local(s[k])]
           e == Each(s, toupper_local)
<1>1. m \in Nat /\ DOMAIN s = 1..m /\ \A k \in 1..m : s[k] \in S
  BY LenProperties, ElementOfSeq
<1> HIDE DEF m
<1>2. f \in [1..m -> T]
  BY <1>1 DEF Capitals
<1>3. e = SubSeq(f, 1, m)
  BY <1>1, Zenon DEF Each, m
<1>4. \A k \in 1..m : f[k] = toupper_local(s[k])
  OBVIOUS
<1> HIDE DEF f, e
<1>5. f \in Seq(T) /\ Len(f) = m /\ SubSeq(f, 1, m) = f
  BY <1>1, <1>2, EachIs
<1>6. e \in Seq(T) /\ Len(e) = m /\ \A k \in 1..m : e[k] = toupper_local(s[k])
  BY <1>3, <1>4, <1>5
<1> QED
  BY <1>6 DEF e, m

-----------------------------------------------------------------------------
(* Names that are mangled.                                                 *)

LEMMA XorIs ==
    ASSUME NEW a \in Int, NEW b \in Int
    PROVE  Xor(a, b) \in 0..15
<1> DEFINE bit(n) == n * (((a \div n) + (b \div n)) % 2)
           w == bit(1)
           x == bit(2)
           y == bit(4)
           z == bit(8)
<1>1. w \in Nat /\ w <= 1
  BY Z3
<1>2. x \in Nat /\ x <= 2
  BY Z3
<1>3. y \in Nat /\ y <= 4
  BY Z3
<1>4. z \in Nat /\ z <= 8
  BY Z3
<1>5. Xor(a, b) = w + x + y + z
  BY DEF Xor
<1> HIDE DEF w, x, y, z
<1> QED
  BY <1>1, <1>2, <1>3, <1>4, <1>5

LEMMA NibbleIs ==
    ASSUME NEW h \in Int \X Int, NEW k \in Nat
    PROVE  Nibble(h, k) \in Int
<1> DEFINE place(n) == <<1, 16, 256, 4096>>[n + 1]
           low == k \in 0..3
           mid == k \in 4..7
           high == k > 7
           x == (h[2] \div place(k)) % 16
           y == (h[1] \div place(k - 4)) % 16
<1>1. Nibble(h, k) = CASE low -> x [] mid -> y [] high -> 0
  BY Zenon DEF Nibble
<1>2. ASSUME NEW a \in Int, NEW p \in Nat, p > 0 PROVE (a \div p) % 16 \in Int
  OBVIOUS
<1>3. ASSUME NEW n \in 0..3 PROVE place(n) \in Nat /\ place(n) > 0
  OBVIOUS
<1>4. h[1] \in Int /\ h[2] \in Int
  OBVIOUS
<1> HIDE DEF place
<1>5. low => x \in Int
  BY <1>2, <1>3, <1>4
<1>6. mid => y \in Int
  <2>1. mid => k - 4 \in 0..3
    OBVIOUS
  <2> QED
    BY <1>2, <1>3, <1>4, <2>1
<1>7. /\ low \/ mid \/ high
      /\ (low => ~mid /\ ~high) /\ (mid => ~low /\ ~high)
      /\ (high => ~low /\ ~mid) /\ 0 \in Int
  OBVIOUS
<1> HIDE DEF low, mid, high, x, y
<1> QED
  BY <1>1, <1>5, <1>6, <1>7, Zenon

LEMMA HashStepIs ==
    ASSUME NEW c \in Int, NEW h \in Int \X Int
    PROVE  HashStep(c, h) \in Int \X Int
<1>1. h[1] \in Int /\ h[2] \in Int
  OBVIOUS
<1>2. Word \in Nat /\ Word > 0
  BY DEF Word
<1> DEFINE lo == 63 * h[2] + c
           x == 63 * h[1] + h[2] + (lo \div Word)
<1>3. HashStep(c, h) = <<x % Word, lo % Word>>
  BY DEF HashStep
<1>4. lo \in Int
  BY <1>1
<1> HIDE DEF lo
<1>5. x \in Int
  BY <1>1, <1>2, <1>4
<1> HIDE DEF x
<1> QED
  BY <1>2, <1>3, <1>4, <1>5

LEMMA HashIs ==
    ASSUME NEW s \in Seq(Byte)
    PROVE  HashOf(s) \in Int \X Int
<1> DEFINE n == Len(s)
           m == n + 1
           X == Int \X Int
           x == <<0, 0>>
           next == [k \in 1..n |-> k + 1]
           F == [p \in (1..n) \X X |-> HashStep(s[p[1]], p[2])]
           Body(f) == [k \in 1..m |-> IF k > n THEN x
                                      ELSE HashStep(s[k], f[k + 1])]
           P(f) == f = Body(f)
           g == CHOOSE f : P(f)
<1>1. n \in Nat /\ m \in Nat /\ n <= m /\ \A k \in 1..n : s[k] \in Int
  <2>1. Byte \subseteq Int
    BY DEF Byte
  <2>2. n \in Nat
    BY LenProperties
  <2>3. ASSUME NEW k \in 1..n PROVE s[k] \in Int
    BY <2>1, ElementOfSeq
  <2> HIDE DEF n
  <2> QED
    BY <2>2, <2>3
<1>2. HashOf(s) = g[1]
  BY Zenon DEF HashOf
<1>3. x \in X
  OBVIOUS
<1>4. ASSUME NEW k \in 1..n, NEW h \in X PROVE HashStep(s[k], h) \in X
  BY <1>1, HashStepIs
<1> HIDE DEF X
<1>5. F \in [(1..n) \X X -> X]
  BY <1>4
<1>6. ASSUME NEW k \in 1..n, NEW h \in X PROVE F[<<k, h>>] = HashStep(s[k], h)
  OBVIOUS
<1>7. /\ next \in [1..n -> 1..m] /\ Onward(next, n)
      /\ \A k \in 1..n : next[k] = k + 1
  BY <1>1 DEF Onward
<1>8. m = n + 1
  OBVIOUS
<1> HIDE DEF n, m, x, next, F
<1>9. PICK r \in [1..m -> X] : Recedes(r, n, m, x, F, next)
  BY <1>1, <1>3, <1>5, <1>7, Backward
<1>10. P(r)
  <2>1. ASSUME NEW k \in 1..m
        PROVE  r[k] = IF k > n THEN x ELSE HashStep(s[k], r[k + 1])
    <3>1. CASE k > n
      BY <1>9, <3>1 DEF Recedes
    <3>2. CASE ~(k > n)
      <4>1. k \in 1..n /\ k + 1 \in 1..m
        BY <1>1, <1>8, <3>2
      <4>2. r[k] = F[<<k, r[k + 1]>>] /\ r[k + 1] \in X
        BY <1>7, <1>9, <3>2, <4>1 DEF Recedes
      <4> QED
        BY <1>6, <3>2, <4>1, <4>2
    <3> QED
      BY <3>1, <3>2
  <2>2. r = [k \in 1..m |-> r[k]]
    BY <1>9
  <2> QED
    BY <2>1, <2>2
<1>11. P(g)
  <2> HIDE DEF P
  <2> QED
    BY <1>10, Zenon
<1> HIDE DEF g
<1>12. \A k \in 1..m : g[k] = IF k > n THEN x ELSE HashStep(s[k], g[k + 1])
  BY <1>11
<1> DEFINE G == {d \in 0..n : g[m - d] \in X}
<1>13. 0 \in G
  <2>1. m \in 1..m /\ m > n /\ m - 0 = m
    BY <1>1, <1>8
  <2> QED
    BY <1>1, <1>3, <1>12, <2>1
<1>14. ASSUME NEW d \in 1..n, d - 1 \in G PROVE d \in G
  <2> DEFINE k == m - d
  <2>1. /\ k \in 1..m /\ ~(k > n) /\ k \in 1..n
        /\ m - (d - 1) = k + 1 /\ d \in 0..n
    BY <1>1, <1>8
  <2>2. g[k + 1] \in X
    BY <1>14, <2>1
  <2> HIDE DEF k
  <2>3. g[k] = HashStep(s[k], g[k + 1])
    BY <1>12, <2>1
  <2>4. g[k] \in X
    BY <1>4, <2>1, <2>2, <2>3
  <2> QED
    BY <2>1, <2>4 DEF k
<1> HIDE DEF G
<1>15. \A d \in 0..n : d \in G
  BY <1>1, <1>13, <1>14, Induct
<1>16. n \in G /\ m - n = 1
  BY <1>1, <1>8, <1>15
<1> QED
  BY <1>2, <1>16 DEF G, X

LEMMA LfnHashIs ==
    ASSUME NEW s \in Seq(Byte), NEW n \in Nat, n >= 1
    PROVE  LfnFNameHash(s, n) \in [1..n -> 0..15]
<1> DEFINE h == HashOf(s)
           x(k) == Xor(Nibble(h, n - k), Nibble(h, 2 * n - k))
<1>1. h \in Int \X Int
  BY HashIs
<1>2. LfnFNameHash(s, n) = [k \in 1..n |-> x(k)]
  BY DEF LfnFNameHash
<1> HIDE DEF h
<1>3. ASSUME NEW k \in 1..n PROVE x(k) \in 0..15
  <2>1. n - k \in Nat /\ 2 * n - k \in Nat
    OBVIOUS
  <2>2. Nibble(h, n - k) \in Int /\ Nibble(h, 2 * n - k) \in Int
    BY <1>1, <2>1, NibbleIs
  <2> QED
    BY <2>2, XorIs
<1> HIDE DEF x
<1> QED
  BY <1>2, <1>3

\* A character of a name that is mangled.
Legal(c) == IF IllegalChar(c) THEN Underscore ELSE toupper_local(c)

Kept(s, drop) ==
    SubSeq([k \in DOMAIN Without(s, drop) |-> Legal(Without(s, drop)[k])],
           1, Len(Without(s, drop)))

Legals(S, T) == \A c \in S : Legal(c) \in T

LEMMA KeptIs ==
    ASSUME NEW s \in Seq(Byte), NEW drop, NEW T, Legals(Byte \ drop, T)
    PROVE  Kept(s, drop) \in Seq(T)
<1> DEFINE w == Without(s, drop)
           m == Len(w)
           f == [k \in 1..m |-> Legal(w[k])]
<1>1. w \in Seq(Byte \ drop)
  BY WithoutIs
<1> HIDE DEF w
<1>2. m \in Nat /\ DOMAIN w = 1..m /\ \A k \in 1..m : w[k] \in Byte \ drop
  BY <1>1, LenProperties, ElementOfSeq
<1> HIDE DEF m
<1>3. f \in [1..m -> T]
  BY <1>2 DEF Legals
<1>4. Kept(s, drop) = SubSeq(f, 1, m)
  BY <1>2, Zenon DEF Kept, w, m
<1> HIDE DEF f
<1> QED
  BY <1>2, <1>3, <1>4, EachIs

LEMMA LegalIs ==
    /\ Legals(Byte \ {Space, Dot}, Letter \ {Dot})
    /\ Legals(Byte \ {Space}, Letter)
<1>1. ASSUME NEW c \in Byte, c # Space
      PROVE  Legal(c) \in Letter /\ (c # Dot => Legal(c) # Dot)
  <2>1. CASE IllegalChar(c)
    <3>1. Legal(c) = Underscore
      BY <2>1, Zenon DEF Legal
    <3> QED
      BY <3>1 DEF Underscore, Letter, Byte, Space, Dot
  <2>2. CASE ~IllegalChar(c)
    <3>1. Legal(c) = toupper_local(c)
      BY <2>2, Zenon DEF Legal
    <3> QED
      BY <1>1, <3>1, UpperIs DEF Letter
  <2> QED
    BY <2>1, <2>2
<1> QED
  BY <1>1 DEF Legals

LEMMA HexIs ==
    ASSUME NEW n \in Nat, NEW hash \in [1..n -> 0..15]
    PROVE  /\ Each(hash, hexDigit) \in Seq(Letter \ {Dot})
           /\ Len(Each(hash, hexDigit)) = n
<1> DEFINE f == [k \in 1..n |-> hexDigit(hash[k])]
<1>1. ASSUME NEW v \in 0..15 PROVE hexDigit(v) \in Letter \ {Dot}
  BY DEF hexDigit, Letter, Byte, Space, Dot
<1>2. f \in [1..n -> Letter \ {Dot}]
  BY <1>1
<1>3. DOMAIN hash = 1..n /\ Len(hash) = n
  BY EachIs
<1>4. Each(hash, hexDigit) = SubSeq(f, 1, n)
  BY <1>3, Zenon DEF Each
<1> HIDE DEF f
<1> QED
  BY <1>2, <1>4, EachIs

\* A name that is mangled has a tilde in it.
LEMMA MangleIs ==
    ASSUME NEW n \in Nat, 2 <= n, n <= 6, NEW hash \in [1..n -> 0..15],
           NEW name \in Seq(Byte)
    PROVE  \E b, e : /\ LfnMangleFNameToFcbName(hash, name) = Fcb(b, e)
                     /\ Parts(b, e)
                     /\ Dot \notin Bytes(b) /\ Tilde \in Bytes(b)
<1> DEFINE P(k) == /\ k <= Len(name) => name[k] \notin {Space, Dot}
                   /\ \A l \in 1..k - 1 : name[l] \in {Space, Dot}
           skip == CHOOSE k \in 1..Len(name) + 1 : P(k)
           fName == From(name, skip)
           p == LastOf(fName, Dot)
           stem == IF p = 1 THEN fName ELSE SubSeq(fName, 1, p - 1)
           tail == IF p = 1 THEN <<>> ELSE From(fName, p + 1)
           base == Take(Kept(stem, {Space, Dot}), 7 - Len(hash))
           hex == Each(hash, hexDigit)
           b == base \o <<Tilde>> \o hex
           e == Take(Kept(tail, {Space}), 3)
           L == Letter \ {Dot}
<1>1. LfnMangleFNameToFcbName(hash, name) = Fcb(b, e)
  BY Zenon DEF LfnMangleFNameToFcbName, Kept, Legal, Each
<1>2. skip \in 1..Len(name) + 1
  <2> DEFINE T == {k \in 1..Len(name) + 1 :
                     k <= Len(name) => name[k] \notin {Space, Dot}}
  <2>1. Len(name) \in Nat
    BY LenProperties
  <2>2. T \in SUBSET Nat /\ Len(name) + 1 \in T
    BY <2>1
  <2>3. PICK k \in T : \A l \in T : k <= l
    <3> HIDE DEF T
    <3> QED
      BY <2>2, LeastExists
  <2>4. \A l \in 1..k - 1 : l \in 1..Len(name) + 1 /\ l \notin T
    BY <2>1, <2>3
  <2>5. k \in 1..Len(name) + 1 /\ P(k)
    BY <2>1, <2>3, <2>4
  <2> HIDE DEF P
  <2> QED
    BY <2>5
<1> HIDE DEF skip
<1>3. fName \in Seq(Byte)
  BY <1>2, FromIs
<1> HIDE DEF fName
<1>4. Len(fName) \in Nat /\ p \in 1..Len(fName) + 1
  BY <1>3, LenProperties, LastIs
<1> HIDE DEF p
<1>5. stem \in Seq(Byte)
  <2>1. /\ 1 \in 1..Len(fName) + 1 /\ p - 1 \in Int
        /\ 1 - 1 <= p - 1 /\ p - 1 <= Len(fName)
    BY <1>4
  <2>2. SubSeq(fName, 1, p - 1) \in Seq(Byte)
    BY <1>3, <2>1, PartIs
  <2> QED
    BY <1>3, <2>2, Zenon
<1>6. tail \in Seq(Byte)
  <2>1. p + 1 \in Nat /\ 1 <= p + 1
    BY <1>4
  <2>2. From(fName, p + 1) \in Seq(Byte)
    BY <1>3, <2>1, RestIs
  <2>3. <<>> \in Seq(Byte)
    BY EmptySeq
  <2> QED
    BY <2>2, <2>3, Zenon
<1> HIDE DEF stem, tail
<1>7. Kept(stem, {Space, Dot}) \in Seq(L)
  BY <1>5, KeptIs, LegalIs
<1>8. Kept(tail, {Space}) \in Seq(Letter)
  BY <1>6, KeptIs, LegalIs
<1>9. Len(hash) = n /\ 7 - n \in Nat
  BY EachIs
<1>10. base \in Seq(L) /\ Len(base) \in Nat /\ Len(base) <= 7 - n
  <2> DEFINE k == Kept(stem, {Space, Dot})
             t == Take(k, 7 - n)
  <2>1. base = t
    BY <1>9
  <2>2. k \in Seq(L) /\ Len(k) \in Nat
    BY <1>7, LenProperties
  <2> HIDE DEF k
  <2>3. t \in Seq(L) /\ Len(t) = IF 7 - n < Len(k) THEN 7 - n ELSE Len(k)
    BY <1>9, <2>2, TakenIs
  <2> HIDE DEF t, base
  <2> QED
    BY <1>9, <2>1, <2>2, <2>3
<1>11. e \in Seq(Letter) /\ Len(e) \in Nat /\ Len(e) <= 3
  <2> DEFINE k == Kept(tail, {Space})
             t == Take(k, 3)
  <2>1. e = t
    OBVIOUS
  <2>2. k \in Seq(Letter) /\ Len(k) \in Nat
    BY <1>8, LenProperties
  <2> HIDE DEF k, e
  <2>3. t \in Seq(Letter) /\ Len(t) = IF 3 < Len(k) THEN 3 ELSE Len(k)
    BY <2>2, TakenIs
  <2> HIDE DEF t
  <2> QED
    BY <2>1, <2>2, <2>3
<1>12. hex \in Seq(L) /\ Len(hex) = n
  BY HexIs
<1>13. b = base \o <<Tilde>> \o hex
  OBVIOUS
<1> DEFINE o == <<Tilde>>
           bo == base \o o
<1>14. o \in Seq(L) /\ Len(o) = 1 /\ o[1] = Tilde
  <2>1. Tilde \in L
    BY DEF Letter, Byte, Tilde, Space, Dot
  <2> HIDE DEF L
  <2> QED
    BY <2>1
<1>15. b = bo \o hex
  BY <1>13
<1> HIDE DEF b, base, hex, o, e, L
<1>16. /\ bo \in Seq(L) /\ Len(bo) = Len(base) + 1
       /\ bo[Len(base) + 1] = Tilde
  <2>1. /\ base \o o \in Seq(L) /\ Len(base \o o) = Len(base) + Len(o)
        /\ \A i \in 1..Len(base) + Len(o) :
             (base \o o)[i] = IF i <= Len(base) THEN base[i]
                              ELSE o[i - Len(base)]
    BY <1>10, <1>14, ConcatProperties
  <2>2. /\ Len(base) + 1 \in 1..Len(base) + Len(o)
        /\ ~(Len(base) + 1 <= Len(base))
        /\ (Len(base) + 1) - Len(base) = 1
    BY <1>10, <1>14
  <2>3. (base \o o)[Len(base) + 1] = o[1]
    BY <2>1, <2>2
  <2> QED
    BY <1>14, <2>1, <2>3 DEF bo
<1> HIDE DEF bo
<1>17. /\ b \in Seq(L) /\ Len(b) = Len(base) + 1 + n
       /\ b[Len(base) + 1] = Tilde
  <2>1. /\ bo \o hex \in Seq(L) /\ Len(bo \o hex) = Len(bo) + Len(hex)
        /\ \A i \in 1..Len(bo) + Len(hex) :
             (bo \o hex)[i] = IF i <= Len(bo) THEN bo[i]
                              ELSE hex[i - Len(bo)]
    BY <1>12, <1>16, ConcatProperties
  <2>2. /\ Len(base) + 1 \in 1..Len(bo) + Len(hex)
        /\ Len(base) + 1 <= Len(bo)
    BY <1>10, <1>12, <1>16
  <2>3. (bo \o hex)[Len(base) + 1] = Tilde
    BY <1>16, <2>1, <2>2
  <2> QED
    BY <1>12, <1>15, <1>16, <2>1, <2>3
<1>18. Len(b) \in Nat /\ 1 <= Len(b) /\ Len(b) <= 8
  BY <1>10, <1>17
<1>19. DOMAIN b = 1..Len(b) /\ \A k \in 1..Len(b) : b[k] \in L
  BY <1>17, LenProperties, ElementOfSeq
<1>20. Dot \notin Bytes(b)
  BY <1>19 DEF Bytes, L
<1>21. Tilde \in Bytes(b)
  <2>1. Len(base) + 1 \in 1..Len(b)
    BY <1>10, <1>17
  <2> QED
    BY <1>17, <1>19, <2>1 DEF Bytes
<1>22. Parts(b, e)
  <2>1. L \subseteq Letter
    BY DEF L
  <2>2. b \in Seq(Letter)
    BY <1>17, <2>1, SeqMonotonic
  <2> QED
    BY <1>11, <1>18, <2>2 DEF Parts
<1>23. LfnMangleFNameToFcbName(hash, name) = Fcb(b, e)
  BY <1>1 DEF b, e, base, hex
<1> QED
  BY <1>20, <1>21, <1>22, <1>23

-----------------------------------------------------------------------------
(* Names that are 8.3 names as they are.                                   *)

\* The parts of a name in capitals.
Raised(name, b, e) ==
    LET dot == FirstOf(name, Dot)
    IN  /\ dot = Len(b) + 1
        /\ \A k \in 1..Len(b) : b[k] = toupper_local(name[k])
        /\ Len(e) = IF dot < Len(name) THEN Len(name) - dot ELSE 0
        /\ \A k \in 1..Len(e) : e[k] = toupper_local(name[dot + k])

\* No lower case in it that would have been mangled.
Unmangled(o, name, isRoot) ==
    LET dot == FirstOf(name, Dot)
    IN  /\ \A k \in 1..dot - 1 : ~LowerCase(o, isRoot, name[k])
        /\ \A k \in dot + 1..Len(name) :
             ~(o.lfn /\ toupper_local(name[k]) # name[k] /\ name[k] > 127)

LEMMA PlainIs ==
    ASSUME NEW o, NEW isRoot, NEW local, local.name \in Seq(Byte),
           NoMangleFNameToFcbName(o, local, isRoot) # NoName
    PROVE  /\ local.ok /\ Unmangled(o, local.name, isRoot)
           /\ \E b, e :
                /\ NoMangleFNameToFcbName(o, local, isRoot) = Fcb(b, e)
                /\ Parts(b, e) /\ Dot \notin Bytes(b)
                /\ Raised(local.name, b, e)
<1> DEFINE s == local.name
           dot == FirstOf(s, Dot)
           base == SubSeq(s, 1, dot - 1)
           ext == From(s, dot + 1)
           b == Each(base, toupper_local)
           e == Each(ext, toupper_local)
           Ok == /\ local.ok
                 /\ dot \in 2..9 /\ Len(ext) <= 3
                 /\ \A c \in Bytes(base) :
                      ~IllegalChar(c) /\ ~LowerCase(o, isRoot, c)
                 /\ \A c \in Bytes(ext) :
                      /\ ~IllegalChar(c)
                      /\ ~(o.lfn /\ toupper_local(c) # c /\ c > 127)
           fcb == NoMangleFNameToFcbName(o, local, isRoot)
<1>1. fcb = IF Ok THEN Fcb(b, e) ELSE NoName
  BY Zenon DEF NoMangleFNameToFcbName
<1>2. Ok /\ fcb = Fcb(b, e)
  <2> HIDE DEF Ok, b, e
  <2> QED
    BY <1>1, Zenon
<1>3. s \in Seq(Byte)
  OBVIOUS
<1> HIDE DEF s
<1>4. /\ Len(s) \in Nat /\ dot \in 1..Len(s) + 1
      /\ dot <= Len(s) => s[dot] = Dot
      /\ \A l \in 1..dot - 1 : s[l] # Dot
  BY <1>3, FirstIs, LenProperties
<1> HIDE DEF dot
<1>5. /\ base \in Seq(Byte) /\ Len(base) = dot - 1
      /\ \A k \in 1..dot - 1 : base[k] = s[k]
  <2>1. /\ 1 \in 1..Len(s) + 1 /\ dot - 1 \in Int
        /\ 1 - 1 <= dot - 1 /\ dot - 1 <= Len(s)
    BY <1>4
  <2>2. /\ base \in Seq(Byte) /\ Len(base) = (dot - 1) - 1 + 1
        /\ \A k \in 1..(dot - 1) - 1 + 1 : base[k] = s[1 + k - 1]
    BY <1>3, <2>1, PartIs
  <2> HIDE DEF base
  <2> QED
    BY <1>4, <2>2
<1>6. /\ ext \in Seq(Byte)
      /\ Len(ext) = IF dot + 1 <= Len(s) THEN Len(s) - (dot + 1) + 1 ELSE 0
      /\ \A k \in 1..Len(s) - (dot + 1) + 1 : ext[k] = s[(dot + 1) + k - 1]
  <2>1. dot + 1 \in Nat /\ 1 <= dot + 1
    BY <1>4
  <2> QED
    BY <1>3, <2>1, RestIs
<1> HIDE DEF base, ext
<1>7. /\ Len(ext) = IF dot < Len(s) THEN Len(s) - dot ELSE 0
      /\ \A k \in 1..Len(ext) : ext[k] = s[dot + k]
  BY <1>4, <1>6
<1>8. DOMAIN base = 1..Len(base) /\ DOMAIN ext = 1..Len(ext)
  BY <1>5, <1>6, LenProperties
<1>9. /\ \A k \in 1..Len(base) : base[k] \in Byte \ {Space, Dot}
      /\ \A k \in 1..Len(ext) : ext[k] \in Letter
  <2>1. ASSUME NEW k \in 1..Len(base)
        PROVE  base[k] \in Byte /\ base[k] # Space /\ base[k] # Dot
    <3>1. base[k] \in Byte
      BY <1>5, ElementOfSeq
    <3>2. ~IllegalChar(base[k])
      BY <1>2, <1>8 DEF Bytes
    <3>3. base[k] # Space
      BY <3>2, NamesAssumption, Zenon DEF NamesAssumption
    <3>4. base[k] # Dot
      BY <1>4, <1>5
    <3> QED
      BY <3>1, <3>3, <3>4
  <2>2. ASSUME NEW k \in 1..Len(ext) PROVE ext[k] \in Byte /\ ext[k] # Space
    <3>1. ext[k] \in Byte
      BY <1>6, ElementOfSeq
    <3>2. ~IllegalChar(ext[k])
      BY <1>2, <1>8 DEF Bytes
    <3>3. ext[k] # Space
      BY <3>2, NamesAssumption, Zenon DEF NamesAssumption
    <3> QED
      BY <3>1, <3>3
  <2> QED
    BY <2>1, <2>2 DEF Letter
<1>10. base \in Seq(Byte \ {Space, Dot}) /\ ext \in Seq(Letter)
  <2>1. base \in [1..Len(base) -> Byte \ {Space, Dot}] /\ Len(base) \in Nat
    BY <1>5, <1>9, LenProperties
  <2>2. ext \in [1..Len(ext) -> Letter] /\ Len(ext) \in Nat
    BY <1>6, <1>9, LenProperties
  <2> QED
    BY <2>1, <2>2, EachIs
<1>11. /\ Capitals(Byte \ {Space, Dot}, Letter \ {Dot})
       /\ Capitals(Letter, Letter)
  BY UpperIs DEF Capitals, Letter
<1>12. /\ b \in Seq(Letter \ {Dot}) /\ Len(b) = Len(base)
       /\ \A k \in 1..Len(base) : b[k] = toupper_local(base[k])
  BY <1>10, <1>11, UpperEach
<1>13. /\ e \in Seq(Letter) /\ Len(e) = Len(ext)
       /\ \A k \in 1..Len(ext) : e[k] = toupper_local(ext[k])
  BY <1>10, <1>11, UpperEach
<1> HIDE DEF b, e
<1>14. Parts(b, e)
  <2>1. Letter \ {Dot} \subseteq Letter
    OBVIOUS
  <2>2. b \in Seq(Letter)
    BY <1>12, <2>1, SeqMonotonic
  <2> QED
    BY <1>2, <1>4, <1>5, <1>12, <1>13, <2>2 DEF Parts
<1>15. Dot \notin Bytes(b)
  <2>1. DOMAIN b = 1..Len(b) /\ \A k \in 1..Len(b) : b[k] \in Letter \ {Dot}
    BY <1>12, LenProperties, ElementOfSeq
  <2> QED
    BY <2>1 DEF Bytes
<1>16. Raised(s, b, e)
  <2>1. dot = Len(b) + 1
    BY <1>4, <1>5, <1>12
  <2>2. \A k \in 1..Len(b) : b[k] = toupper_local(s[k])
    BY <1>5, <1>12
  <2>3. Len(e) = IF dot < Len(s) THEN Len(s) - dot ELSE 0
    BY <1>7, <1>13
  <2>4. \A k \in 1..Len(e) : e[k] = toupper_local(s[dot + k])
    BY <1>7, <1>13
  <2> QED
    BY <2>1, <2>2, <2>3, <2>4, Zenon DEF Raised, dot
<1>17. Unmangled(o, s, isRoot)
  <2>1. ASSUME NEW k \in 1..dot - 1 PROVE ~LowerCase(o, isRoot, s[k])
    <3>1. k \in DOMAIN base /\ base[k] = s[k]
      BY <1>5, <1>8
    <3> QED
      BY <1>2, <3>1 DEF Bytes
  <2>2. ASSUME NEW k \in dot + 1..Len(s)
        PROVE  ~(o.lfn /\ toupper_local(s[k]) # s[k] /\ s[k] > 127)
    <3>1. k - dot \in 1..Len(ext) /\ dot + (k - dot) = k
      BY <1>4, <1>7
    <3>2. ext[k - dot] = s[k] /\ k - dot \in DOMAIN ext
      BY <1>7, <1>8, <3>1
    <3> QED
      BY <1>2, <3>2 DEF Bytes
  <2> QED
    BY <2>1, <2>2, Zenon DEF Unmangled, dot
<1> QED
  BY <1>2, <1>14, <1>15, <1>16, <1>17 DEF s

\* What the conversion of names needs of the options.
Settings(o) == Page(o.page) /\ (o.lfn => o.manglingChars \in 2..6)

\* A name that DOS gets to see: one of the host in capitals, one that is
\* mangled, which has a tilde, or one of the two that every directory has.
Capital(o, name, isRoot, b, e) ==
    LET local == Utf8ToLocal(o.page, name)
    IN  /\ Dot \notin Bytes(b) /\ local.ok
        /\ Raised(local.name, b, e) /\ Unmangled(o, local.name, isRoot)

Mangle(o, b) == o.lfn /\ Dot \notin Bytes(b) /\ Tilde \in Bytes(b)

Dots(name, isRoot, b, e) ==
    ~isRoot /\ name \in {<<Dot>>, <<Dot, Dot>>} /\ b = name /\ e = <<>>

LEMMA FcbNameIs ==
    ASSUME NEW o, Settings(o), NEW name \in Seq(Byte), NEW isRoot,
           FNameToFcbName(o, name, isRoot) # NoName
    PROVE  \E b, e : /\ FNameToFcbName(o, name, isRoot) = Fcb(b, e)
                     /\ Parts(b, e)
                     /\ \/ Capital(o, name, isRoot, b, e)
                        \/ Mangle(o, b)
                        \/ Dots(name, isRoot, b, e)
<1> DEFINE local == Utf8ToLocal(o.page, name)
           plain == NoMangleFNameToFcbName(o, local, isRoot)
           fcb == FNameToFcbName(o, name, isRoot)
           dots == name \in {<<Dot>>, <<Dot, Dot>>}
           ndots == name \notin {<<Dot>>, <<Dot, Dot>>}
           root == IF isRoot THEN NoName ELSE Padded(name, 11)
           some == plain # NoName \/ ~o.lfn
           none == plain = NoName /\ o.lfn
           hash == LfnFNameHash(name, o.manglingChars)
           mangled == LfnMangleFNameToFcbName(hash, local.name)
<1>1. fcb = CASE dots -> root
              [] ndots /\ some -> plain
              [] ndots /\ plain = NoName /\ o.lfn -> mangled
  BY Zenon DEF FNameToFcbName
<1>2. local.name \in Seq(Byte)
  BY Utf8ToLocalIs
<1>3. /\ dots => fcb = root
      /\ ndots /\ some => fcb = plain
      /\ ndots /\ none => fcb = mangled
  <2>1. ndots <=> ~dots
    OBVIOUS
  <2> HIDE DEF dots, ndots, fcb, root, mangled, plain
  <2> QED
    BY <1>1, <2>1, Zenon
<1>4. fcb # NoName
  OBVIOUS
<1>5. CASE dots
  <2>1. ~isRoot /\ fcb = Padded(name, 11)
    BY <1>3, <1>4, <1>5
  <2>2. name \in Seq(Letter) /\ Len(name) \in Nat /\ 1 <= Len(name)
          /\ Len(name) <= 2
    <3>1. Dot \in Letter
      BY DEF Letter, Byte, Dot, Space
    <3>2. CASE name = <<Dot>>
      <4>1. <<Dot>> \in Seq(Letter) /\ Len(<<Dot>>) = 1
        BY <3>1
      <4> QED
        BY <3>2, <4>1
    <3>3. CASE name = <<Dot, Dot>>
      <4>1. <<Dot, Dot>> \in Seq(Letter) /\ Len(<<Dot, Dot>>) = 2
        BY <3>1
      <4> QED
        BY <3>3, <4>1
    <3> QED
      BY <1>5, <3>2, <3>3
  <2> DEFINE b == name
             e == <<>>
  <2>3. Parts(b, e)
    <3>1. e \in Seq(Letter) /\ Len(e) = 0
      BY EmptySeq
    <3> HIDE DEF e
    <3> QED
      BY <2>2, <3>1 DEF Parts
  <2>4. Padded(name, 11) = Fcb(b, e)
    <3> DEFINE x == Padded(name, 11)
               y == Fcb(b, e)
    <3>1. /\ x \in Seq(Byte) /\ Len(x) = 11
          /\ \A k \in 1..11 : x[k] = IF k <= Len(name) THEN name[k] ELSE Space
      <4>1. Len(name) <= 11 /\ 11 \in Nat
        BY <2>2
      <4> QED
        BY <2>2, <4>1, PaddedIs
    <3>2. /\ y \in Seq(Byte) /\ Len(y) = 11
          /\ \A k \in 1..8 : y[k] = IF k <= Len(b) THEN b[k] ELSE Space
          /\ \A k \in 1..3 : y[8 + k] = IF k <= Len(e) THEN e[k] ELSE Space
      BY <2>3, FcbIs
    <3>3. Len(e) = 0
      OBVIOUS
    <3> HIDE DEF x, y, e
    <3>4. ASSUME NEW k \in 1..11 PROVE x[k] = y[k]
      <4>1. CASE k \in 1..8
        BY <3>1, <3>2, <4>1
      <4>2. CASE k \notin 1..8
        <5>1. k - 8 \in 1..3 /\ 8 + (k - 8) = k /\ ~(k <= Len(name))
              /\ ~(k - 8 <= Len(e))
          BY <2>2, <3>3, <4>2
        <5>2. y[8 + (k - 8)] = Space
          BY <3>2, <5>1
        <5> QED
          BY <3>1, <5>1, <5>2
      <4> QED
        BY <4>1, <4>2
    <3>5. x = y
      BY <3>1, <3>2, <3>4, SeqEqual
    <3> QED
      BY <3>5 DEF x, y
  <2>5. Dots(name, isRoot, b, e)
    BY <1>5, <2>1 DEF Dots
  <2> HIDE DEF b, e
  <2> QED
    BY <2>1, <2>3, <2>4, <2>5
<1>6. CASE ndots /\ some
  <2>1. fcb = plain /\ plain # NoName
    BY <1>3, <1>4, <1>6
  <2> HIDE DEF local
  <2>2. /\ local.ok /\ Unmangled(o, local.name, isRoot)
        /\ \E b, e : /\ plain = Fcb(b, e) /\ Parts(b, e)
                     /\ Dot \notin Bytes(b) /\ Raised(local.name, b, e)
    BY <1>2, <2>1, PlainIs
  <2>3. PICK b, e : /\ plain = Fcb(b, e) /\ Parts(b, e)
                    /\ Dot \notin Bytes(b) /\ Raised(local.name, b, e)
    BY <2>2
  <2>4. Capital(o, name, isRoot, b, e)
    BY <2>2, <2>3, Zenon DEF Capital, local
  <2> HIDE DEF plain, fcb
  <2>5. fcb = Fcb(b, e)
    BY <2>1, <2>3
  <2> QED
    BY <2>3, <2>4, <2>5 DEF fcb
<1>7. CASE ndots /\ none
  <2>1. fcb = mangled /\ o.lfn
    BY <1>3, <1>7
  <2>2. /\ o.manglingChars \in Nat
        /\ 2 <= o.manglingChars /\ o.manglingChars <= 6
    BY <2>1 DEF Settings
  <2>3. hash \in [1..o.manglingChars -> 0..15]
    BY <2>2, LfnHashIs
  <2> HIDE DEF hash, local
  <2>4. PICK b, e : /\ mangled = Fcb(b, e) /\ Parts(b, e)
                    /\ Dot \notin Bytes(b) /\ Tilde \in Bytes(b)
    BY <1>2, <2>2, <2>3, MangleIs
  <2>5. Mangle(o, b)
    BY <2>1, <2>4 DEF Mangle
  <2> HIDE DEF mangled, fcb
  <2>6. fcb = Fcb(b, e)
    BY <2>1, <2>4
  <2> QED
    BY <2>4, <2>5, <2>6 DEF fcb
<1> QED
  BY <1>5, <1>6, <1>7

-----------------------------------------------------------------------------
(* What DOS makes of a name, and the search for it.                        *)

LEMMA DosNameTyped ==
    ASSUME NEW o, Settings(o), NEW name \in Seq(Byte), NEW isRoot
    PROVE  DosName(FNameToFcbName(o, name, isRoot)) \in Seq(Byte)
<1> DEFINE fcb == FNameToFcbName(o, name, isRoot)
<1>1. CASE fcb = NoName
  <2>1. DosName(NoName) = NoName
    BY Zenon DEF DosName
  <2>2. NoName \in Seq(Byte)
    BY EmptySeq DEF NoName
  <2> QED
    BY <1>1, <2>1, <2>2
<1>2. CASE fcb # NoName
  <2>1. PICK b, e : fcb = Fcb(b, e) /\ Parts(b, e)
    BY <1>2, FcbNameIs
  <2>2. DosName(fcb) = b \o Dotted(e) /\ b \o Dotted(e) \in Seq(Byte)
    BY <2>1, DosNameIs, DottedIs
  <2> QED
    BY <2>2
<1> QED
  BY <1>1, <1>2

\* The first dot is the one before the extension.
LEMMA DottedDot ==
    ASSUME NEW b, NEW e, Parts(b, e), Dot \notin Bytes(b)
    PROVE  FirstOf(b \o Dotted(e), Dot) = Len(b) + 1
<1> DEFINE d == b \o Dotted(e)
           k == Len(b) + 1
<1>1. /\ d \in Seq(Byte)
      /\ Len(d) = Len(b) + (IF e = <<>> THEN 0 ELSE Len(e) + 1)
      /\ \A l \in 1..Len(b) : d[l] = b[l]
      /\ e # <<>> => d[k] = Dot
  BY DottedIs
<1>2. Len(b) \in Nat /\ Len(e) \in Nat /\ b \in Seq(Letter)
  BY PartsAre
<1>3. \A l \in 1..Len(b) : b[l] # Dot
  BY <1>2, LenProperties DEF Bytes
<1> HIDE DEF d
<1>4. k \in 1..Len(d) + 1 /\ (k <= Len(d) => d[k] = Dot)
  BY <1>1, <1>2
<1>5. \A l \in 1..k - 1 : d[l] # Dot
  BY <1>1, <1>2, <1>3
<1> HIDE DEF k
<1>6. FirstOf(d, Dot) = k
  BY <1>1, <1>4, <1>5, FirstAt
<1> QED
  BY <1>6 DEF d, k

\* A name is found by the name that DOS has of it.
LEMMA MatchItself ==
    ASSUME NEW b, NEW e, Parts(b, e), Dot \notin Bytes(b)
    PROVE  MatchFcbNameToFileName(Fcb(b, e), DosName(Fcb(b, e)))
<1> DEFINE f == Fcb(b, e)
           d == b \o Dotted(e)
           n == Len(b)
<1>1. DosName(f) = d /\ FirstOf(d, Dot) = n + 1
  BY DosNameIs, DottedDot
<1>2. /\ Len(d) = n + (IF e = <<>> THEN 0 ELSE Len(e) + 1)
      /\ \A k \in 1..n : d[k] = b[k]
      /\ e # <<>> => \A k \in 1..Len(e) : d[n + 1 + k] = e[k]
  BY DottedIs
<1>3. /\ \A k \in 1..8 : f[k] = IF k <= n THEN b[k] ELSE Space
      /\ \A k \in 1..3 : f[8 + k] = IF k <= Len(e) THEN e[k] ELSE Space
  BY FcbIs
<1>4. n \in Nat /\ n <= 8 /\ Len(e) \in Nat /\ Len(e) <= 3
  BY PartsAre
<1> HIDE DEF f, d, n
<1>5. ASSUME NEW k \in 1..n PROVE d[k] = f[k]
  <2>1. k \in 1..8 /\ k <= n
    BY <1>4
  <2> QED
    BY <1>2, <1>3, <2>1
<1>6. n + 1 <= Len(d) => n + 1 = 9 \/ f[n + 1] = Space
  BY <1>3, <1>4
<1>7. ASSUME NEW k \in n + 2..Len(d) PROVE d[k] = f[8 + k - (n + 1)]
  <2> DEFINE j == k - (n + 1)
  <2>1. /\ e # <<>> /\ j \in 1..Len(e) /\ j \in 1..3 /\ j <= Len(e)
        /\ n + 1 + j = k
    BY <1>2, <1>4
  <2>4. 8 + j = 8 + k - (n + 1)
    BY <1>4
  <2> HIDE DEF j
  <2>2. d[k] = e[j]
    BY <1>2, <2>1
  <2>3. f[8 + j] = e[j]
    BY <1>3, <2>1
  <2> QED
    BY <2>2, <2>3, <2>4
<1> DEFINE dot == FirstOf(d, Dot)
<1>8. /\ \A k \in 1..dot - 1 : d[k] = f[k]
      /\ dot <= Len(d) => dot = 9 \/ f[dot] = Space
      /\ \A k \in dot + 1..Len(d) : d[k] = f[8 + k - dot]
  <2>1. dot = n + 1
    BY <1>1
  <2>2. dot - 1 = n /\ dot + 1 = n + 2
    BY <1>4, <2>1
  <2> HIDE DEF dot
  <2> QED
    BY <1>5, <1>6, <1>7, <2>1, <2>2
<1> HIDE DEF dot
<1>9. MatchFcbNameToFileName(f, d)
  BY <1>8, Zenon DEF MatchFcbNameToFileName, dot
<1> QED
  BY <1>1, <1>9 DEF f

\* A name that is found goes on from the one that was looked for.
Begins(s, t) == Len(s) <= Len(t) /\ \A k \in 1..Len(s) : s[k] = t[k]

LEMMA MatchBegins ==
    ASSUME NEW b, NEW e, Parts(b, e),
           NEW c, NEW f, Parts(c, f), Dot \notin Bytes(c),
           MatchFcbNameToFileName(Fcb(b, e), DosName(Fcb(c, f)))
    PROVE  Begins(DosName(Fcb(c, f)), DosName(Fcb(b, e)))
<1> DEFINE d == b \o Dotted(e)
           g == c \o Dotted(f)
           x == Fcb(b, e)
           m == Len(b)
           n == Len(c)
<1>1. DosName(x) = d /\ DosName(Fcb(c, f)) = g /\ FirstOf(g, Dot) = n + 1
  BY DosNameIs, DottedDot
<1>2. /\ Len(d) = m + (IF e = <<>> THEN 0 ELSE Len(e) + 1)
      /\ \A k \in 1..m : d[k] = b[k]
      /\ e # <<>> => /\ d[m + 1] = Dot
                     /\ \A k \in 1..Len(e) : d[m + 1 + k] = e[k]
  BY DottedIs
<1>3. /\ Len(g) = n + (IF f = <<>> THEN 0 ELSE Len(f) + 1)
      /\ \A k \in 1..n : g[k] = c[k]
      /\ f # <<>> => /\ g[n + 1] = Dot
                     /\ \A k \in 1..Len(f) : g[n + 1 + k] = f[k]
  BY DottedIs
<1>4. /\ \A k \in 1..8 : x[k] = IF k <= m THEN b[k] ELSE Space
      /\ \A k \in 1..3 : x[8 + k] = IF k <= Len(e) THEN e[k] ELSE Space
  BY FcbIs
<1>5. /\ m \in Nat /\ m <= 8 /\ Len(e) \in Nat /\ Len(e) <= 3
      /\ n \in Nat /\ n <= 8 /\ Len(f) \in Nat /\ Len(f) <= 3
      /\ b \in Seq(Letter) /\ e \in Seq(Letter)
      /\ c \in Seq(Letter) /\ f \in Seq(Letter)
  BY PartsAre
<1>6. /\ \A k \in 1..m : b[k] # Space
      /\ \A k \in 1..n : c[k] # Space
      /\ \A k \in 1..Len(f) : f[k] # Space
  BY <1>5, ElementOfSeq DEF Letter
<1>7. e = <<>> <=> Len(e) = 0
  BY <1>5, EmptySeq
<1>8. f = <<>> <=> Len(f) = 0
  BY <1>5, EmptySeq
<1> DEFINE dot == FirstOf(g, Dot)
<1>9. /\ \A k \in 1..dot - 1 : g[k] = x[k]
      /\ dot <= Len(g) => dot = 9 \/ x[dot] = Space
      /\ \A k \in dot + 1..Len(g) : g[k] = x[8 + k - dot]
  <2>1. MatchFcbNameToFileName(x, g)
    BY <1>1
  <2> HIDE DEF x, g
  <2> QED
    BY <2>1, Zenon DEF MatchFcbNameToFileName
<1> HIDE DEF d, g, x, m, n
<1>10. dot = n + 1 /\ dot - 1 = n
  BY <1>1, <1>5
<1> HIDE DEF dot
<1>11. ASSUME NEW k \in 1..n PROVE k <= m /\ c[k] = b[k]
  <2>1. k \in 1..8 /\ g[k] = x[k] /\ g[k] = c[k] /\ c[k] # Space
    BY <1>3, <1>5, <1>6, <1>9, <1>10
  <2> QED
    BY <1>4, <2>1
<1>12. n <= m
  <2>1. CASE n = 0
    BY <1>5, <2>1
  <2>2. CASE n # 0
    <3>1. n \in 1..n
      BY <1>5, <2>2
    <3> QED
      BY <1>11, <3>1
  <2> QED
    BY <2>1, <2>2
<1>13. CASE f = <<>>
  <2>1. Len(g) = n /\ n <= Len(d)
    BY <1>2, <1>3, <1>5, <1>12, <1>13
  <2>2. \A k \in 1..n : g[k] = d[k]
    BY <1>2, <1>3, <1>5, <1>11, <1>12
  <2>3. Begins(g, d)
    BY <2>1, <2>2 DEF Begins
  <2> QED
    BY <1>1, <2>3 DEF x
<1>14. CASE f # <<>>
  <2>1. Len(g) = n + 1 + Len(f) /\ Len(f) >= 1
    BY <1>3, <1>5, <1>8, <1>14
  <2>2. m <= n
    <3>1. n + 1 = 9 \/ x[n + 1] = Space
      BY <1>5, <1>9, <1>10, <2>1
    <3>2. CASE n + 1 = 9
      BY <1>5, <3>2
    <3>3. CASE n + 1 # 9 /\ x[n + 1] = Space
      <4>1. n + 1 \in 1..8
        BY <1>5, <3>3
      <4>2. ASSUME n + 1 <= m PROVE FALSE
        <5>1. n + 1 \in 1..m
          BY <1>5, <4>2
        <5>2. x[n + 1] = b[n + 1] /\ b[n + 1] # Space
          BY <1>4, <1>6, <4>1, <4>2, <5>1
        <5> QED
          BY <3>3, <5>2
      <4> QED
        BY <1>5, <4>2
    <3> QED
      BY <3>1, <3>2, <3>3
  <2>3. m = n
    BY <1>5, <1>12, <2>2
  <2>4. ASSUME NEW k \in 1..Len(f) PROVE k <= Len(e) /\ f[k] = e[k]
    <3>1. /\ n + 1 + k \in dot + 1..Len(g) /\ 8 + (n + 1 + k) - dot = 8 + k
          /\ k \in 1..3
      BY <1>5, <1>10, <2>1
    <3>2. g[n + 1 + k] = x[8 + k] /\ g[n + 1 + k] = f[k] /\ f[k] # Space
      BY <1>3, <1>6, <1>9, <1>14, <3>1
    <3> QED
      BY <1>4, <3>1, <3>2
  <2>5. Len(f) <= Len(e) /\ e # <<>>
    BY <1>5, <1>7, <2>1, <2>4
  <2>6. Len(g) <= Len(d)
    BY <1>2, <1>5, <2>1, <2>3, <2>5
  <2>7. ASSUME NEW k \in 1..Len(g) PROVE g[k] = d[k]
    <3>1. CASE k <= n
      <4>1. k \in 1..n /\ k \in 1..m
        BY <2>3, <3>1, <1>5
      <4> QED
        BY <1>2, <1>3, <1>11, <4>1
    <3>2. CASE k = n + 1
      BY <1>2, <1>3, <1>14, <2>3, <2>5, <3>2
    <3>3. CASE k > n + 1
      <4>1. /\ k - (n + 1) \in 1..Len(f) /\ k - (n + 1) \in 1..Len(e)
            /\ n + 1 + (k - (n + 1)) = k
        BY <1>5, <2>1, <2>5, <3>3
      <4>2. g[k] = f[k - (n + 1)] /\ d[k] = e[k - (n + 1)]
        BY <1>2, <1>3, <1>14, <2>3, <2>5, <4>1
      <4> QED
        BY <2>4, <4>1, <4>2
    <3> QED
      BY <1>5, <3>1, <3>2, <3>3
  <2>8. Begins(g, d)
    BY <2>6, <2>7 DEF Begins
  <2> QED
    BY <1>1, <2>8 DEF x
<1> QED
  BY <1>13, <1>14

-----------------------------------------------------------------------------
(* Names that come back.                                                   *)

\* A character is read from the bytes that it is written to.
LEMMA CharIs ==
    ASSUME NEW page, Page(page), NEW s \in Seq(Byte), WellFormed(s),
           NEW p \in 1..Len(s), s[p] \notin Following,
           LocalChar(page, s, p) # 0
    PROVE  LET c == LocalChar(page, s, p)
               w == Width(s[p])
           IN  /\ c \in Byte /\ w \in 1..4 /\ p + w <= Len(s) + 1
               /\ p + w <= Len(s) => s[p + w] \notin Following
               /\ c < 128 => c = s[p] /\ w = 1
               /\ c >= 128 =>
                    /\ Len(Encode(page, c)) = w
                    /\ \A l \in 1..w : Encode(page, c)[l] = s[p + l - 1]
<1> DEFINE c == LocalChar(page, s, p)
           a == s[p]
           w == Width(a)
           n == Len(s)
<1>1. n \in Nat /\ a \in Byte /\ p \in DOMAIN s
  BY LenProperties, ElementOfSeq
<1>4. /\ w \in 1..4 /\ (a < 128 => w = 1) /\ (a \in 192..223 => w = 2)
      /\ (a \in 224..239 => w = 3)
  <2>1. a \in 0..255
    BY <1>1 DEF Byte
  <2> QED
    BY <2>1, WidthIs
<1>2. /\ a \in (1..127) \cup (194..223) \cup (225..244)
      /\ p + w <= n + 1
      /\ \A l \in p + 1..p + w - 1 : s[l] \in Following
      /\ p + w <= n => s[p + w] \notin Following
  <2> DEFINE Lead == (1..127) \cup (194..223) \cup (225..244)
  <2> DEFINE next == p + Width(s[p])
  <2>1. s[p] \in Lead
    BY <1>1, Zenon DEF WellFormed
  <2>2. next <= Len(s) + 1
    BY <1>1, Zenon DEF WellFormed
  <2>3. next <= Len(s) => s[next] \notin Following
    BY <1>1, Zenon DEF WellFormed
  <2>4. \A l \in p + 1..next - 1 : s[l] \in Following
    BY <1>1, Zenon DEF WellFormed
  <2> HIDE DEF Lead
  <2>5. a \in Lead /\ next = p + w
    BY <2>1, Zenon
  <2> HIDE DEF next
  <2>6. p + w <= n + 1 /\ (p + w <= n => s[p + w] \notin Following)
    BY <2>2, <2>3, <2>5, Zenon
  <2>7. \A l \in p + 1..p + w - 1 : s[l] \in Following
    <3> HIDE DEF a, w, n
    <3>3. p \in Nat
      OBVIOUS
    <3>4. w \in Nat
      BY <1>4
    <3>5. next = p + w
      BY <2>5, Zenon
    <3>1. w \in Nat /\ p \in Nat /\ next \in Nat
      BY <3>3, <3>4, <3>5
    <3>2. p + w - 1 = next - 1
      BY <2>5, <3>1
    <3> QED
      BY <2>4, <3>1, <3>2
  <2> QED
    BY <2>5, <2>6, <2>7, Zenon DEF Lead
<1> DEFINE Next0 == /\ p + w <= n + 1
                    /\ p + w <= n => s[p + w] \notin Following
<1>10. Next0 /\ \A l \in p + 1..p + w - 1 : s[l] \in 128..191
  BY <1>2 DEF Following
<1>3. /\ c \in 0..255 /\ c # 0
      /\ a < 128 => c = a
      /\ a \in 192..223 => c = lookupCP(page, Cp2(a, s[p + 1]))
      /\ a \in 224..239 => c = lookupCP(page, Cp3(a, s[p + 1], s[p + 2]))
      /\ a \in 240..247 => c = 0
  BY LocalCharIs
<1> HIDE DEF c, a, w, n
<1> DEFINE enc == Encode(page, c)
           Back == /\ Len(enc) = w
                   /\ \A l \in 1..w : enc[l] = s[p + l - 1]
<1>5. c \in Byte
  BY <1>3 DEF Byte
<1> DEFINE Goal == /\ c \in Byte /\ w \in 1..4 /\ Next0
                   /\ c < 128 => c = a /\ w = 1
                   /\ c >= 128 => Back
<1> HIDE DEF Next0
<1>6. ASSUME a \in 1..127 PROVE Goal
  <2>1. a < 128 /\ c < 128 /\ ~(c >= 128)
    BY <1>3, <1>6
  <2>2. c = a /\ w = 1 /\ w \in 1..4
    BY <1>3, <1>4, <2>1
  <2> HIDE DEF Back
  <2> QED
    BY <1>5, <1>10, <2>1, <2>2, Zenon
<1>7. ASSUME a \in 194..223 PROVE Goal
  <2> DEFINE b == s[p + 1]
  <2>1. a \in 192..223 /\ w = 2 /\ p + 1 \in p + 1..p + w - 1
    BY <1>4, <1>7
  <2>2. b \in 128..191
    BY <1>10, <2>1
  <2>11. c = lookupCP(page, Cp2(a, b))
    BY <1>3, <2>1
  <2>12. b = s[p + 1]
    OBVIOUS
  <2> HIDE DEF b
  <2>3. c \in 128..255 /\ page[c] = Cp2(a, b)
    BY <1>3, <2>11, LookupIs
  <2>4. Utf8(Cp2(a, b)) = <<a, b>>
    <3>1. /\ a \in Nat /\ b \in Nat /\ 192 <= a /\ a <= 223
          /\ 128 <= b /\ b <= 191
      BY <2>1, <2>2
    <3> QED
      BY <3>1, TwoBytes
  <2>5. c >= 128 /\ ~(c < 128)
    BY <2>3
  <2>6. enc = <<a, b>>
    BY <1>5, <2>3, <2>4, <2>5, EncodeIs
  <2> HIDE DEF enc
  <2>7. /\ Len(enc) = w
        /\ \A l \in 1..2 : enc[l] = s[p + l - 1]
    <3>1. Len(enc) = 2 /\ enc[1] = a /\ enc[2] = b
      BY <2>6
    <3>2. s[p + 1 - 1] = a /\ s[p + 2 - 1] = b
      BY <2>12 DEF a
    <3>3. ASSUME NEW l \in 1..2 PROVE enc[l] = s[p + l - 1]
      <4>1. CASE l = 1
        BY <3>1, <3>2, <4>1
      <4>2. CASE l = 2
        BY <3>1, <3>2, <4>2
      <4> QED
        BY <4>1, <4>2
    <3> QED
      BY <2>1, <3>1, <3>3
  <2>8. Back
    BY <2>1, <2>7
  <2>9. w \in 1..4
    BY <1>4
  <2> HIDE DEF Back
  <2> QED
    BY <1>5, <1>10, <2>5, <2>8, <2>9, Zenon
<1>8. ASSUME a \in 225..239 PROVE Goal
  <2> DEFINE b == s[p + 1]
             d == s[p + 2]
  <2>1. /\ a \in 224..239 /\ w = 3
        /\ p + 1 \in p + 1..p + w - 1 /\ p + 2 \in p + 1..p + w - 1
    BY <1>4, <1>8
  <2>2. b \in 128..191 /\ d \in 128..191
    BY <1>10, <2>1
  <2>11. c = lookupCP(page, Cp3(a, b, d))
    BY <1>3, <2>1
  <2>12. b = s[p + 1] /\ d = s[p + 2]
    OBVIOUS
  <2> HIDE DEF b, d
  <2>3. c \in 128..255 /\ page[c] = Cp3(a, b, d)
    BY <1>3, <2>11, LookupIs
  <2>4. Utf8(Cp3(a, b, d)) = <<a, b, d>>
    <3>1. /\ a \in Nat /\ b \in Nat /\ d \in Nat /\ 225 <= a /\ a <= 239
          /\ 128 <= b /\ b <= 191 /\ 128 <= d /\ d <= 191
      BY <1>8, <2>2
    <3> QED
      BY <3>1, ThreeBytes
  <2>5. c >= 128 /\ ~(c < 128)
    BY <2>3
  <2>6. enc = <<a, b, d>>
    BY <1>5, <2>3, <2>4, <2>5, EncodeIs
  <2> HIDE DEF enc
  <2>7. /\ Len(enc) = w
        /\ \A l \in 1..3 : enc[l] = s[p + l - 1]
    <3>1. Len(enc) = 3 /\ enc[1] = a /\ enc[2] = b /\ enc[3] = d
      BY <2>6
    <3>2. s[p + 1 - 1] = a /\ s[p + 2 - 1] = b /\ s[p + 3 - 1] = d
      BY <2>12 DEF a
    <3>3. ASSUME NEW l \in 1..3 PROVE enc[l] = s[p + l - 1]
      <4>1. CASE l = 1
        BY <3>1, <3>2, <4>1
      <4>2. CASE l = 2
        BY <3>1, <3>2, <4>2
      <4>3. CASE l = 3
        BY <3>1, <3>2, <4>3
      <4> QED
        BY <4>1, <4>2, <4>3
    <3> QED
      BY <2>1, <3>1, <3>3
  <2>8. Back
    BY <2>1, <2>7
  <2>9. w \in 1..4
    BY <1>4
  <2> HIDE DEF Back
  <2> QED
    BY <1>5, <1>10, <2>5, <2>8, <2>9, Zenon
<1>9. ASSUME a \in 240..244 PROVE Goal
  BY <1>3, <1>9
<1>11. Goal
  <2>1. a \in 1..127 \/ a \in 194..223 \/ a \in 225..239 \/ a \in 240..244
    BY <1>2
  <2> HIDE DEF Goal
  <2> QED
    BY <1>6, <1>7, <1>8, <1>9, <2>1
<1> QED
  BY <1>11, Zenon DEF Next0, c, a, w, n

\* A byte is as it was, or a capital of it if that will do.
Same(exact, x, y) ==
    x = y \/ (~exact /\ x < 128 /\ y < 128 /\ x = toupper_local(y))

\* Only letters of ASCII become capitals, or no letters.
Capitalized(exact, t, d) ==
    /\ Len(d) = Len(t)
    /\ \A k \in 1..Len(t) :
         /\ d[k] = toupper_local(t[k])
         /\ exact \/ t[k] >= 128 => toupper_local(t[k]) = t[k]

Alike(exact, u, s) ==
    Len(u) = Len(s) /\ \A l \in 1..Len(s) : Same(exact, u[l], s[l])

Spells(t, chars) ==
    Len(t) = Len(chars) /\ \A k \in 1..Len(t) : t[k] = chars[k]

LEMMA Returns ==
    ASSUME NEW page, Page(page), NEW s \in Seq(Byte), WellFormed(s),
           NEW r \in [1..Len(s) + 4 -> Seq(0..255)], Reads(page, s, r),
           NEW t \in Seq(Byte), Spells(t, r[1]),
           NEW exact \in BOOLEAN, NEW d \in Seq(Byte),
           Capitalized(exact, t, d)
    PROVE  Alike(exact, LocalToUtf8(page, d), s)
<1> DEFINE n == Len(s)
           m == Len(t)
<1>1. n \in Nat /\ m \in Nat /\ Len(d) = m
  BY LenProperties DEF Capitalized
<1>12. PICK f \in [0..Len(d) -> Seq(Byte)] :
          Writes(page, d, f) /\ LocalToUtf8(page, d) = f[Len(d)]
  BY LocalToUtf8Is
<1>2. /\ f \in [0..m -> Seq(Byte)]
      /\ Writes(page, d, f) /\ LocalToUtf8(page, d) = f[m]
  BY <1>1, <1>12
<1>3. /\ f[0] = <<>>
      /\ \A k \in 1..m : f[k] = f[k - 1] \o Encode(page, d[k])
  BY <1>1, <1>2 DEF Writes
<1>4. \A k \in 1..n + 4 :
        r[k] = IF k > n THEN <<>>
               ELSE <<LocalChar(page, s, k)>> \o r[k + Width(s[k])]
  BY DEF Reads
<1>5. ASSUME NEW k \in 1..m
      PROVE  /\ t[k] \in Byte /\ d[k] = toupper_local(t[k])
             /\ exact \/ t[k] >= 128 => toupper_local(t[k]) = t[k]
  BY ElementOfSeq DEF Capitalized
<1> DEFINE At(j, p) == /\ p <= n => s[p] \notin Following
                       /\ Len(f[j]) = p - 1
                       /\ \A l \in 1..p - 1 : Same(exact, f[j][l], s[l])
                       /\ Len(r[p]) = m - j
                       /\ \A l \in 1..m - j : r[p][l] = t[j + l]
           S == {j \in 0..m : \E p \in 1..n + 1 : At(j, p)}
<1>6. 0 \in S
  <2>1. 1 <= n => s[1] \notin Following
    <3>1. 1 <= n => s # <<>>
      BY EmptySeq
    <3> QED
      BY <3>1 DEF WellFormed
  <2>2. Len(f[0]) = 1 - 1 /\ 1 - 1 = 0
    BY <1>3, EmptySeq
  <2>3. Len(r[1]) = m - 0 /\ \A l \in 1..m - 0 : r[1][l] = t[0 + l]
    BY <1>1 DEF Spells
  <2>4. At(0, 1) /\ 1 \in 1..n + 1
    BY <1>1, <2>1, <2>2, <2>3
  <2> HIDE DEF At, n, m
  <2>5. \E p \in 1..n + 1 : At(0, p)
    BY <2>4
  <2>6. 0 \in 0..m
    BY <1>1
  <2> QED
    BY <2>5, <2>6
<1>7. ASSUME NEW j \in 1..m, j - 1 \in S PROVE j \in S
  <2> DEFINE i == j - 1
  <2>1. PICK p \in 1..n + 1 : At(i, p)
    BY <1>7
  <2>2. i \in 0..m /\ i + 1 = j /\ m - i >= 1 /\ 1 \in 1..m - i
        /\ m - j = (m - i) - 1
    BY <1>1
  <2> HIDE DEF i
  <2>3. /\ p <= n => s[p] \notin Following
        /\ Len(f[i]) = p - 1
        /\ \A l \in 1..p - 1 : Same(exact, f[i][l], s[l])
        /\ Len(r[p]) = m - i
        /\ \A l \in 1..m - i : r[p][l] = t[i + l]
    BY <2>1
  <2> HIDE DEF S, At, n, m
  <2>17. p \in 1..n + 4
    BY <1>1
  <2>4. p \in 1..n
    <3>1. CASE p > n
      <4>1. r[p] = <<>>
        BY <1>4, <2>17, <3>1
      <4>2. Len(r[p]) = 0
        BY <4>1, EmptySeq
      <4> QED
        BY <2>2, <2>3, <4>2
    <3> QED
      BY <1>1, <3>1
  <2> DEFINE c == LocalChar(page, s, p)
             w == Width(s[p])
             q == p + w
             rest == r[q]
             enc == Encode(page, d[j])
  <2>5. r[p] = <<c>> \o rest
    <3>1. ~(p > n)
      BY <1>1, <2>4
    <3> QED
      BY <1>4, <2>17, <3>1
  <2>6. c \in 0..255 /\ w \in 1..4
    <3>1. p \in 1..Len(s)
      BY <2>4 DEF n
    <3>2. s[p] \in 0..255
      BY <3>1, ElementOfSeq DEF Byte
    <3> QED
      BY <3>1, <3>2, LocalCharIs, WidthIs
  <2> HIDE DEF c, w
  <2>7. q \in 1..n + 4 /\ rest \in Seq(0..255)
    <3>1. q \in 1..n + 4
      BY <1>1, <2>4, <2>6
    <3> QED
      BY <3>1 DEF n
  <2> HIDE DEF rest
  <2>8. /\ Len(r[p]) = 1 + Len(rest) /\ r[p][1] = c
        /\ \A l \in 1..Len(rest) : r[p][1 + l] = rest[l]
        /\ Len(rest) \in Nat
    <3> DEFINE o == <<c>>
    <3>1. o \in Seq(0..255) /\ Len(o) = 1 /\ o[1] = c
      BY <2>6
    <3>2. Len(rest) \in Nat /\ r[p] = o \o rest
      BY <2>5, <2>7, LenProperties
    <3> HIDE DEF o
    <3>6. o \in Seq(0..255) /\ rest \in Seq(0..255)
      BY <2>7, <3>1
    <3>3. /\ Len(o \o rest) = Len(o) + Len(rest)
          /\ \A l \in 1..Len(o) + Len(rest) :
               (o \o rest)[l] = IF l <= Len(o) THEN o[l]
                                ELSE rest[l - Len(o)]
      BY <3>6, ConcatProperties
    <3>4. (o \o rest)[1] = c
      BY <3>1, <3>2, <3>3
    <3>5. ASSUME NEW l \in 1..Len(rest) PROVE (o \o rest)[1 + l] = rest[l]
      <4>1. 1 + l \in 1..Len(o) + Len(rest) /\ ~(1 + l <= Len(o))
            /\ (1 + l) - Len(o) = l
        BY <3>1, <3>2
      <4> QED
        BY <3>3, <4>1
    <3> QED
      BY <3>1, <3>2, <3>3, <3>4, <3>5
  <2>9. c = t[j] /\ c \in Byte /\ c # 0
    <3>1. c = t[i + 1]
      BY <2>2, <2>3, <2>8
    <3>2. t[j] \in Byte /\ t[i + 1] = t[j]
      BY <1>5, <2>2
    <3>3. 0 \notin Byte
      BY DEF Byte
    <3> QED
      BY <3>1, <3>2, <3>3, Zenon
  <2>10. /\ q <= n + 1 /\ (q <= n => s[q] \notin Following)
         /\ c < 128 => c = s[p] /\ w = 1
         /\ c >= 128 => /\ Len(Encode(page, c)) = w
                        /\ \A l \in 1..w :
                             Encode(page, c)[l] = s[p + l - 1]
    <3>1. p \in 1..Len(s) /\ s[p] \notin Following
      BY <1>1, <2>3, <2>4 DEF n
    <3>2. LocalChar(page, s, p) # 0
      BY <2>9 DEF c
    <3> QED
      BY <3>1, <3>2, CharIs DEF c, w, n
  <2>11. q \in 1..n + 1
    BY <1>1, <2>4, <2>6, <2>10
  <2>12. /\ Len(rest) = m - j
         /\ \A l \in 1..m - j : rest[l] = t[j + l]
    <3>1. Len(rest) = m - j
      <4> DEFINE x == Len(rest)
      <4>1. 1 + x = m - i /\ x \in Nat
        BY <2>3, <2>8
      <4> HIDE DEF x
      <4>2. x = m - j
        BY <1>1, <2>2, <4>1
      <4> QED
        BY <4>2 DEF x
    <3>2. ASSUME NEW l \in 1..m - j PROVE rest[l] = t[j + l]
      <4>1. 1 + l \in 1..m - i /\ i + (1 + l) = j + l /\ l \in 1..Len(rest)
        BY <1>1, <2>2, <3>1
      <4>2. r[p][1 + l] = t[i + (1 + l)] /\ r[p][1 + l] = rest[l]
        BY <2>3, <2>8, <4>1
      <4> QED
        BY <4>1, <4>2
    <3> QED
      BY <3>1, <3>2
  <2>13. /\ enc \in Seq(Byte) /\ Len(enc) = w
         /\ \A l \in 1..w : Same(exact, enc[l], s[p + l - 1])
    <3>1. d[j] = toupper_local(c) /\ d[j] \in Byte
          /\ (exact \/ c >= 128 => d[j] = c)
      BY <1>5, <2>9, UpperIs
    <3>2. enc \in Seq(Byte)
      BY <3>1, EncodeIs
    <3>3. CASE c < 128
      <4>1. d[j] < 128 /\ c = s[p] /\ w = 1
        BY <2>9, <2>10, <3>1, <3>3, UpperIs
      <4>2. enc = <<d[j]>>
        BY <3>1, <4>1, EncodeIs
      <4> HIDE DEF enc
      <4>3. Len(enc) = w /\ enc[1] = d[j]
        BY <4>1, <4>2
      <4>4. Same(exact, d[j], s[p])
        BY <3>1, <3>3, <4>1 DEF Same
      <4>5. \A l \in 1..w : l = 1 /\ p + l - 1 = p
        BY <4>1
      <4> QED
        BY <3>2, <4>3, <4>4, <4>5
    <3>4. CASE c >= 128
      <4>1. enc = Encode(page, c)
        BY <3>1, <3>4
      <4> HIDE DEF enc
      <4>2. Len(enc) = w /\ \A l \in 1..w : enc[l] = s[p + l - 1]
        BY <2>10, <3>4, <4>1
      <4>3. \A l \in 1..w : Same(exact, enc[l], s[p + l - 1])
        BY <4>2 DEF Same
      <4> QED
        BY <3>2, <4>2, <4>3
    <3>5. c < 128 \/ c >= 128
      BY <2>6
    <3> QED
      BY <3>3, <3>4, <3>5
  <2> DEFINE g == f[i]
  <2>14. f[j] = g \o enc /\ g \in Seq(Byte)
    <3>1. f[j] = f[j - 1] \o enc
      BY <1>3
    <3> QED
      BY <1>2, <2>2, <3>1 DEF i
  <2> HIDE DEF enc, g
  <2>18. g \in Seq(Byte) /\ enc \in Seq(Byte)
    BY <2>13, <2>14
  <2>15. /\ Len(f[j]) = q - 1
         /\ \A l \in 1..q - 1 : Same(exact, f[j][l], s[l])
    <3>1. /\ Len(g \o enc) = Len(g) + Len(enc)
          /\ \A l \in 1..Len(g) + Len(enc) :
               (g \o enc)[l] = IF l <= Len(g) THEN g[l] ELSE enc[l - Len(g)]
      BY <2>18, ConcatProperties
    <3>2. Len(g) = p - 1 /\ Len(g) + Len(enc) = q - 1
      BY <2>3, <2>4, <2>6, <2>13 DEF g
    <3>3. ASSUME NEW l \in 1..q - 1 PROVE Same(exact, f[j][l], s[l])
      <4>1. f[j][l] = IF l <= p - 1 THEN g[l] ELSE enc[l - (p - 1)]
        BY <2>14, <3>1, <3>2
      <4>2. CASE l <= p - 1
        <5>1. f[j][l] = g[l] /\ l \in 1..p - 1
          BY <4>1, <4>2
        <5> QED
          BY <2>3, <5>1 DEF g
      <4>3. CASE ~(l <= p - 1)
        <5> DEFINE k == l - (p - 1)
        <5>1. k \in 1..w /\ p + k - 1 = l
          BY <2>4, <2>6, <4>3
        <5>2. f[j][l] = enc[k]
          BY <4>1, <4>3
        <5> HIDE DEF k
        <5>3. Same(exact, enc[k], s[p + k - 1])
          BY <2>13, <5>1
        <5> QED
          BY <5>1, <5>2, <5>3
      <4> QED
        BY <4>2, <4>3
    <3> QED
      BY <2>14, <3>1, <3>2, <3>3
  <2>16. At(j, q)
    BY <2>10, <2>12, <2>15 DEF At, rest
  <2> HIDE DEF q
  <2> QED
    BY <2>2, <2>11, <2>16 DEF S
<1> HIDE DEF S
<1>8. \A k \in 0..m : k \in S
  BY <1>1, <1>6, <1>7, Induct
<1>9. m \in S
  BY <1>1, <1>8
<1>10. PICK p \in 1..n + 1 : At(m, p)
  BY <1>9 DEF S
<1>11. p = n + 1
  <2>1. Len(r[p]) = 0
    BY <1>1, <1>10
  <2>2. ASSUME p \in 1..n PROVE FALSE
    <3> DEFINE c == LocalChar(page, s, p)
               q == p + Width(s[p])
               rest == r[q]
    <3>1. r[p] = <<c>> \o rest
      BY <1>1, <1>4, <2>2
    <3>2. c \in 0..255 /\ Width(s[p]) \in 1..4
      <4>1. s[p] \in 0..255
        BY <2>2, ElementOfSeq DEF Byte
      <4> QED
        BY <2>2, <4>1, LocalCharIs, WidthIs
    <3>3. rest \in Seq(0..255)
      <4>1. q \in 1..n + 4
        BY <1>1, <2>2, <3>2
      <4> QED
        BY <4>1
    <3> HIDE DEF c, rest
    <3>4. <<c>> \in Seq(0..255) /\ Len(<<c>>) = 1
      BY <3>2
    <3>5. Len(r[p]) = 1 + Len(rest) /\ Len(rest) \in Nat
      BY <3>1, <3>3, <3>4, ConcatProperties, LenProperties
    <3> QED
      BY <2>1, <3>5
  <2> QED
    BY <1>1, <2>2
<1> QED
  BY <1>1, <1>2, <1>10, <1>11 DEF Alike

LEMMA CapitalReturns ==
    ASSUME NEW o, Settings(o), o.lfn \in BOOLEAN,
           NEW name \in Seq(Byte), NEW isRoot \in BOOLEAN,
           Regular(o, name, isRoot),
           NEW b, NEW e, Parts(b, e), Capital(o, name, isRoot, b, e)
    PROVE  Alike(isRoot, LocalToUtf8(o.page, b \o Dotted(e)), name)
<1> DEFINE local == Utf8ToLocal(o.page, name)
           t == local.name
           m == Len(t)
           dot == FirstOf(t, Dot)
           ext == From(t, dot + 1)
           d == b \o Dotted(e)
<1>1. PICK r \in [1..Len(name) + 4 -> Seq(0..255)] :
          /\ Reads(o.page, name, r)
          /\ t \in Seq(Byte) /\ m = Len(r[1])
          /\ \A k \in 1..Len(r[1]) : t[k] = Plain(r[1][k])
          /\ local.ok \in BOOLEAN
          /\ local.ok => \A k \in 1..Len(r[1]) : r[1][k] # 0
  BY Utf8ToLocalIs
<1>2. local.ok /\ Dot \notin Bytes(b)
  BY Zenon DEF Capital
<1>3. dot = Len(b) + 1 /\ Raised(t, b, e) /\ Unmangled(o, t, isRoot)
  BY Zenon DEF Capital, Raised
<1>4. /\ WellFormed(name) /\ t[m] # Dot
      /\ ~o.lfn => \A c \in Bytes(t) \ (0..127) : toupper_local(c) = c
      /\ isRoot => \A c \in Bytes(IF o.lfn THEN ext ELSE t) :
                      toupper_local(c) = c
  BY Zenon DEF Regular
<1>5. \A k \in 1..m : t[k] = r[1][k]
  BY <1>1, <1>2 DEF Plain
<1> HIDE DEF local, t
<1>6. /\ m \in Nat /\ DOMAIN t = 1..m /\ \A k \in 1..m : t[k] \in Byte
  BY <1>1, LenProperties, ElementOfSeq
<1>7. /\ dot \in 1..m + 1 /\ (dot <= m => t[dot] = Dot)
  BY <1>1, FirstIs
<1>8. /\ \A k \in 1..Len(b) : b[k] = toupper_local(t[k])
      /\ Len(e) = IF dot < m THEN m - dot ELSE 0
      /\ \A k \in 1..Len(e) : e[k] = toupper_local(t[dot + k])
  BY <1>3, Zenon DEF Raised
<1>9. /\ \A k \in 1..dot - 1 : ~LowerCase(o, isRoot, t[k])
      /\ \A k \in dot + 1..m : ~(o.lfn /\ toupper_local(t[k]) # t[k]
                                 /\ t[k] > 127)
  BY <1>3, Zenon DEF Unmangled
<1>10. /\ d \in Seq(Byte)
       /\ Len(d) = Len(b) + (IF e = <<>> THEN 0 ELSE Len(e) + 1)
       /\ \A k \in 1..Len(b) : d[k] = b[k]
       /\ e # <<>> => /\ d[Len(b) + 1] = Dot
                      /\ \A k \in 1..Len(e) : d[Len(b) + 1 + k] = e[k]
  BY DottedIs
<1>11. /\ Len(b) \in Nat /\ 1 <= Len(b) /\ Len(e) \in Nat
       /\ e \in Seq(Letter)
  BY PartsAre
<1>12. e = <<>> <=> Len(e) = 0
  BY <1>11, EmptySeq
<1> HIDE DEF d, m, dot
<1>13. dot # m
  <2>1. m >= 1
    BY <1>3, <1>6, <1>7, <1>11
  <2> QED
    BY <1>4, <1>7, <2>1, <1>6
<1>14. ASSUME NEW k \in dot + 1..m PROVE t[k] \in Bytes(ext)
  <2>1. dot + 1 \in Nat /\ 1 <= dot + 1
    BY <1>6, <1>7
  <2>2. /\ ext \in Seq(Byte)
        /\ Len(ext) = IF dot + 1 <= m THEN m - (dot + 1) + 1 ELSE 0
        /\ \A l \in 1..m - (dot + 1) + 1 : ext[l] = t[(dot + 1) + l - 1]
    BY <1>1, <2>1, RestIs DEF m
  <2>3. DOMAIN ext = 1..Len(ext)
    BY <2>2, LenProperties
  <2> HIDE DEF ext
  <2> DEFINE l == k - dot
  <2>4. /\ l \in 1..m - (dot + 1) + 1 /\ l \in 1..Len(ext)
        /\ (dot + 1) + l - 1 = k
    BY <1>6, <1>7, <2>2
  <2> HIDE DEF l
  <2>5. ext[l] = t[k] /\ l \in DOMAIN ext
    BY <2>2, <2>3, <2>4
  <2> QED
    BY <2>5 DEF Bytes
<1>15. toupper_local(Dot) = Dot
  <2>1. Dot \in Byte
    BY DEF Dot, Byte
  <2> QED
    BY <2>1, UpperIs
<1>16. ASSUME NEW k \in 1..m, isRoot \/ t[k] >= 128
       PROVE  toupper_local(t[k]) = t[k]
  <2>1. t[k] \in Bytes(t) /\ t[k] \in 1..255
    BY <1>6 DEF Bytes, Byte
  <2> DEFINE c == t[k]
  <2>5. c \in Bytes(t) /\ c \in 1..255 /\ (isRoot \/ c >= 128)
    BY <1>16, <2>1
  <2> HIDE DEF c
  <2>6. c >= 128 => c > 127 /\ c \notin 0..127
    BY <2>5
  <2>2. isRoot \/ t[k] > 127
    BY <2>5, <2>6, Zenon DEF c
  <2>3. CASE ~o.lfn
    <3>1. CASE isRoot
      BY <1>4, <2>1, <2>3, <3>1
    <3>2. CASE t[k] >= 128
      <4>1. t[k] \in Bytes(t) \ (0..127)
        BY <2>5, <2>6, <3>2 DEF c
      <4> QED
        BY <1>4, <2>3, <4>1
    <3> QED
      BY <1>16, <3>1, <3>2
  <2>4. CASE o.lfn
    <3>1. CASE k < dot
      <4>1. k \in 1..dot - 1
        BY <1>6, <1>7, <3>1
      <4>2. ~LowerCase(o, isRoot, t[k])
        BY <1>9, <4>1
      <4> QED
        BY <2>2, <2>4, <4>2, Zenon DEF LowerCase
    <3>2. CASE k = dot
      <4>1. t[k] = Dot
        BY <1>6, <1>7, <3>2
      <4> QED
        BY <1>15, <4>1
    <3>3. CASE k > dot
      <4>1. k \in dot + 1..m
        BY <1>6, <1>7, <3>3
      <4>2. t[k] \in Bytes(ext)
        BY <1>14, <4>1
      <4>3. CASE isRoot
        BY <1>4, <2>4, <4>2, <4>3
      <4>4. CASE t[k] > 127
        BY <1>9, <2>4, <4>1, <4>4
      <4> QED
        BY <2>2, <4>3, <4>4
    <3> QED
      BY <1>6, <1>7, <3>1, <3>2, <3>3
  <2> QED
    BY <2>3, <2>4
<1>17. Len(d) = m /\ \A k \in 1..m : d[k] = toupper_local(t[k])
  <2>1. CASE dot > m
    <3>1. Len(e) = 0 /\ e = <<>> /\ Len(b) = m
      BY <1>3, <1>6, <1>7, <1>8, <1>11, <1>12, <2>1
    <3> QED
      BY <1>8, <1>10, <1>11, <3>1
  <2>2. CASE dot < m
    <3>1. Len(e) = m - dot /\ Len(b) = dot - 1 /\ e # <<>>
      BY <1>3, <1>6, <1>7, <1>8, <1>11, <1>12, <2>2
    <3>2. Len(d) = m
      BY <1>6, <1>7, <1>10, <3>1
    <3>3. ASSUME NEW k \in 1..m PROVE d[k] = toupper_local(t[k])
      <4>1. CASE k < dot
        <5>1. k \in 1..Len(b)
          BY <1>6, <1>7, <3>1, <4>1
        <5> QED
          BY <1>8, <1>10, <5>1
      <4>2. CASE k = dot
        BY <1>3, <1>6, <1>7, <1>10, <1>15, <2>2, <3>1, <4>2
      <4>3. CASE k > dot
        <5> DEFINE l == k - dot
        <5>1. l \in 1..Len(e) /\ dot + l = k /\ Len(b) + 1 + l = k
          BY <1>6, <1>7, <3>1, <4>3
        <5> HIDE DEF l
        <5>2. d[k] = e[l] /\ e[l] = toupper_local(t[k])
          BY <1>8, <1>10, <3>1, <5>1
        <5> QED
          BY <5>2
      <4> QED
        BY <1>6, <1>7, <4>1, <4>2, <4>3
    <3> QED
      BY <3>2, <3>3
  <2> QED
    BY <1>6, <1>7, <1>13, <2>1, <2>2
<1>18. Capitalized(isRoot, t, d)
  BY <1>16, <1>17 DEF Capitalized, m
<1>19. Page(o.page) /\ Spells(t, r[1])
  BY <1>1, <1>5 DEF Settings, Spells, m
<1>21. /\ WellFormed(name) /\ Reads(o.page, name, r)
       /\ t \in Seq(Byte) /\ d \in Seq(Byte)
  BY <1>1, <1>4, <1>10
<1>20. Alike(isRoot, LocalToUtf8(o.page, d), name)
  BY <1>18, <1>19, <1>21, Returns
<1> QED
  BY <1>20 DEF d

\* The names that every directory has are not looked at.
LEMMA DotsIrregular ==
    ASSUME NEW o, NEW name \in {<<Dot>>, <<Dot, Dot>>}, NEW isRoot
    PROVE  ~Regular(o, name, isRoot)
<1> DEFINE t == Utf8ToLocal(o.page, name).name
           n == Len(name)
           page == o.page
<1>1. name \in Seq(Byte) /\ n \in {1, 2} /\ \A k \in 1..n : name[k] = 46
  <2>1. Dot \in Byte /\ Dot = 46
    BY DEF Dot, Byte
  <2>2. CASE name = <<Dot>>
    <3>1. <<Dot>> \in Seq(Byte) /\ Len(<<Dot>>) = 1 /\ <<Dot>>[1] = 46
      BY <2>1
    <3> QED
      BY <2>2, <3>1
  <2>3. CASE name = <<Dot, Dot>>
    <3>1. /\ <<Dot, Dot>> \in Seq(Byte) /\ Len(<<Dot, Dot>>) = 2
          /\ <<Dot, Dot>>[1] = 46 /\ <<Dot, Dot>>[2] = 46
      BY <2>1
    <3> QED
      BY <2>3, <3>1
  <2> QED
    BY <2>2, <2>3
<1>2. PICK r \in [1..Len(name) + 4 -> Seq(0..255)] :
          /\ Reads(page, name, r)
          /\ t \in Seq(Byte) /\ Len(t) = Len(r[1])
          /\ \A k \in 1..Len(r[1]) : t[k] = Plain(r[1][k])
          /\ Utf8ToLocal(page, name).ok \in BOOLEAN
          /\ Utf8ToLocal(page, name).ok =>
               \A k \in 1..Len(r[1]) : r[1][k] # 0
  BY <1>1, Utf8ToLocalIs
<1> HIDE DEF n, t, page
<1>3. ASSUME NEW k \in 1..n
      PROVE  LocalChar(page, name, k) = 46 /\ Width(name[k]) = 1
  <2>1. k \in 1..Len(name) /\ name[k] = 46
    BY <1>1 DEF n
  <2>2. LocalChar(page, name, k) = 46
    <3>1. name[k] < 128
      BY <2>1
    <3> QED
      BY <1>1, <2>1, <3>1, LocalCharIs
  <2>3. Width(46) = 1
    <3>1. 46 \in 0..255 /\ 46 < 128
      OBVIOUS
    <3> QED
      BY <3>1, WidthIs
  <2> QED
    BY <2>1, <2>2, <2>3
<1>4. \A k \in 1..n : r[k] = <<46>> \o r[k + 1]
  <2>1. ASSUME NEW k \in 1..n PROVE r[k] = <<46>> \o r[k + 1]
    <3>1. k \in 1..n + 4 /\ ~(k > n)
      BY <1>1
    <3>2. r[k] = <<LocalChar(page, name, k)>> \o r[k + Width(name[k])]
      BY <1>2, <3>1 DEF Reads, n
    <3> QED
      BY <1>3, <3>2
  <2> QED
    BY <2>1
<1>5. r[n + 1] = <<>>
  <2>1. n + 1 \in 1..n + 4 /\ n + 1 > n
    BY <1>1
  <2> QED
    BY <1>2, <2>1 DEF Reads, n
<1> DEFINE o1 == <<46>>
           o2 == <<46, 46>>
<1>6. /\ o1 \in Seq(Nat) /\ Len(o1) = 1 /\ o1[1] = 46
      /\ Len(o2) = 2 /\ o2[2] = 46 /\ o1 \o <<>> = o1 /\ o1 \o o1 = o2
  <2>1. o1 \in Seq(Nat) /\ Len(o1) = 1 /\ o1[1] = 46
        /\ o2 \in Seq(Nat) /\ Len(o2) = 2 /\ o2[1] = 46 /\ o2[2] = 46
    OBVIOUS
  <2>2. o1 \o <<>> = o1
    BY <2>1, ConcatEmptySeq
  <2> HIDE DEF o1, o2
  <2>3. o1 \o o1 = o2
    <3>3. o1 \in Seq(Nat)
      BY <2>1
    <3>1. /\ o1 \o o1 \in Seq(Nat) /\ Len(o1 \o o1) = Len(o1) + Len(o1)
          /\ \A k \in 1..Len(o1) + Len(o1) :
               (o1 \o o1)[k] = IF k <= Len(o1) THEN o1[k]
                               ELSE o1[k - Len(o1)]
      BY <3>3, ConcatProperties
    <3>2. Len(o1 \o o1) = Len(o2)
          /\ \A k \in 1..Len(o1 \o o1) : (o1 \o o1)[k] = o2[k]
      BY <2>1, <3>1
    <3> QED
      BY <2>1, <3>1, <3>2, SeqEqual
  <2> QED
    BY <2>1, <2>2, <2>3
<1> HIDE DEF o1, o2
<1>7. Len(r[1]) = n /\ r[1][n] = 46
  <2>1. CASE n = 1
    <3>1. r[1] = o1 \o r[2] /\ r[2] = <<>>
      BY <1>4, <1>5, <2>1 DEF o1
    <3> QED
      BY <1>6, <2>1, <3>1
  <2>2. CASE n = 2
    <3>1. r[1] = o1 \o r[2] /\ r[2] = o1 \o r[3] /\ r[3] = <<>>
      BY <1>4, <1>5, <2>2 DEF o1
    <3> QED
      BY <1>6, <2>2, <3>1
  <2> QED
    BY <1>1, <2>1, <2>2
<1>8. t[Len(t)] = Dot
  <2>1. n \in 1..Len(r[1])
    BY <1>1, <1>7
  <2>2. t[n] = Plain(46)
    BY <1>2, <1>7, <2>1
  <2>3. Plain(46) = 46
    BY DEF Plain
  <2> QED
    BY <1>2, <1>7, <2>2, <2>3 DEF Dot
<1> QED
  BY <1>8, Zenon DEF Regular, t, page

\* A regular name that is not mangled comes back as it was, in a share, or
\* but for the case of ASCII letters, which the host is asked to ignore.
THEOREM RegularReturns ==
    ASSUME NEW o, Settings(o), o.lfn \in BOOLEAN,
           NEW name \in Seq(Byte), NEW isRoot \in BOOLEAN,
           Regular(o, name, isRoot),
           FNameToFcbName(o, name, isRoot) # NoName,
           ~(o.lfn /\ Tilde
                        \in Bytes(DosName(FNameToFcbName(o, name, isRoot))))
    PROVE  Alike(isRoot,
                 LocalToUtf8(o.page,
                             DosName(FNameToFcbName(o, name, isRoot))),
                 name)
<1> DEFINE fcb == FNameToFcbName(o, name, isRoot)
<1>1. PICK b, e : /\ fcb = Fcb(b, e) /\ Parts(b, e)
                  /\ \/ Capital(o, name, isRoot, b, e)
                     \/ Mangle(o, b)
                     \/ Dots(name, isRoot, b, e)
  BY FcbNameIs
<1>2. DosName(fcb) = b \o Dotted(e)
  BY <1>1, DosNameIs
<1> HIDE DEF fcb
<1>3. ~Mangle(o, b)
  <2>1. ASSUME Tilde \in Bytes(b) PROVE Tilde \in Bytes(b \o Dotted(e))
    <3> DEFINE d == b \o Dotted(e)
    <3>1. /\ d \in Seq(Byte) /\ \A k \in 1..Len(b) : d[k] = b[k]
          /\ Len(d) = Len(b) + (IF e = <<>> THEN 0 ELSE Len(e) + 1)
      BY <1>1, DottedIs
    <3>2. Len(b) \in Nat /\ Len(e) \in Nat /\ b \in Seq(Letter)
      BY <1>1, PartsAre
    <3> HIDE DEF d
    <3>3. DOMAIN d = 1..Len(d) /\ DOMAIN b = 1..Len(b)
      BY <3>1, <3>2, LenProperties
    <3>4. PICK k \in 1..Len(b) : b[k] = Tilde
      BY <2>1, <3>3 DEF Bytes
    <3>5. k \in DOMAIN d /\ d[k] = Tilde
      BY <3>1, <3>2, <3>3, <3>4
    <3> QED
      BY <3>5 DEF Bytes, d
  <2> QED
    BY <1>2, <2>1 DEF Mangle, fcb
<1>4. ~Dots(name, isRoot, b, e)
  BY DotsIrregular DEF Dots
<1>5. Capital(o, name, isRoot, b, e)
  BY <1>1, <1>3, <1>4
<1> QED
  BY <1>1, <1>2, <1>5, CapitalReturns DEF fcb

\* A name that is looked up by what DOS makes of it is found by it, and so
\* is no other one but one that goes on from it in DOS.
THEOREM LookedUpFound ==
    ASSUME NEW o, Settings(o), NEW isRoot,
           NEW name \in Seq(Byte), NEW other \in Seq(Byte),
           FNameToFcbName(o, name, isRoot) # NoName,
           FNameToFcbName(o, other, isRoot) # NoName,
           Tilde \in Bytes(DosName(FNameToFcbName(o, name, isRoot)))
    PROVE  LET short(n) == DosName(FNameToFcbName(o, n, isRoot))
               found(n) == MatchFcbNameToFileName(
                               FNameToFcbName(o, n, isRoot), short(name))
           IN  /\ found(name)
               /\ found(other) => Begins(short(name), short(other))
<1> DEFINE fcb == FNameToFcbName(o, name, isRoot)
           gcb == FNameToFcbName(o, other, isRoot)
<1>1. PICK b, e : /\ fcb = Fcb(b, e) /\ Parts(b, e)
                  /\ \/ Capital(o, name, isRoot, b, e)
                     \/ Mangle(o, b)
                     \/ Dots(name, isRoot, b, e)
  BY FcbNameIs
<1>2. PICK c, f : gcb = Fcb(c, f) /\ Parts(c, f)
  BY FcbNameIs
<1>3. DosName(fcb) = b \o Dotted(e)
  BY <1>1, DosNameIs
<1>4. ~Dots(name, isRoot, b, e)
  <2>1. ASSUME Dots(name, isRoot, b, e) PROVE FALSE
    <3>1. /\ name \in {<<Dot>>, <<Dot, Dot>>} /\ b = name
          /\ Dotted(e) = <<>>
      BY <2>1 DEF Dots, Dotted
    <3>2. name \o <<>> = name
      BY ConcatEmptySeq
    <3>3. DosName(fcb) = name
      BY <1>3, <3>1, <3>2
    <3> HIDE DEF fcb
    <3>4. Tilde \notin Bytes(name)
      <4>1. Bytes(<<Dot>>) = {Dot} /\ Bytes(<<Dot, Dot>>) = {Dot}
        BY DEF Bytes
      <4>2. Tilde # Dot
        BY DEF Tilde, Dot
      <4> QED
        BY <3>1, <4>1, <4>2
    <3> QED
      BY <3>3, <3>4 DEF fcb
  <2> QED
    BY <2>1
<1>5. Dot \notin Bytes(b)
  BY <1>1, <1>4 DEF Capital, Mangle
<1> HIDE DEF fcb, gcb
<1>6. MatchFcbNameToFileName(fcb, DosName(fcb))
  BY <1>1, <1>5, MatchItself
<1>7. ASSUME MatchFcbNameToFileName(gcb, DosName(fcb))
      PROVE  Begins(DosName(fcb), DosName(gcb))
  BY <1>1, <1>2, <1>5, <1>7, MatchBegins
<1> QED
  BY <1>6, <1>7 DEF fcb, gcb
=============================================================================
