------------------------- MODULE TextMeaning_proofs -------------------------
(***************************************************************************)
(* Facts about what a text means, for every variant, every text and every  *)
(* sequence of symbols; StreamCodec_proofs needs them to show that decode  *)
(* computes it.  They are about data of any length, so some need           *)
(* induction: it rests on every set of numbers having a least element.     *)
(***************************************************************************)
EXTENDS TextMeaning, WellFoundedInduction, SequenceTheorems, TLAPS

(* A set of natural numbers that is not empty has a least element. *)
LEMMA LeastNumber ==
  ASSUME NEW S, S \subseteq Nat, S # {}
  PROVE  \E n \in S : \A m \in S : n <= m
<1> DEFINE R == {ss \in Nat \X Nat : ss[1] < ss[2]}
<1>1. IsWellFoundedOn(R, Nat)
  BY NatLessThanWellFounded DEF OpToRel
<1>2. ASSUME NEW m \in Nat, NEW n \in Nat, m < n
      PROVE  <<m, n>> \in R
  <2> DEFINE p == <<m, n>>
  <2>1. p \in Nat \X Nat /\ p[1] = m /\ p[2] = n
    OBVIOUS
  <2> HIDE DEF p
  <2>2. p \in R
    BY <2>1, <1>2
  <2> QED
    BY <2>2 DEF p
<1> HIDE DEF R
<1>3. PICK n \in S : \A m \in S : ~ (<<m, n>> \in R)
  BY <1>1, WFMin
<1>4. ASSUME NEW m \in S PROVE n <= m
  <2>1. m \in Nat /\ n \in Nat /\ ~ (m < n)
    BY <1>2, <1>3
  <2> QED
    BY <2>1
<1> QED
  BY <1>4

(* Induction, with a set in place of a predicate. *)
LEMMA SetInduction ==
  ASSUME NEW S, 0 \in S, \A n \in Nat : n \in S => n + 1 \in S
  PROVE  Nat \subseteq S
<1> DEFINE T == Nat \ S
<1> SUFFICES ASSUME T # {} PROVE FALSE
  OBVIOUS
<1>1. PICK n \in T : \A m \in T : n <= m
  BY LeastNumber
<1>2. n # 0 /\ n \in Nat
  OBVIOUS
<1>3. n - 1 \in Nat /\ n - 1 \notin T
  BY <1>1, <1>2
<1> QED
  BY <1>2, <1>3

-----------------------------------------------------------------------------
(* The first element in a set.                                             *)

(* FirstOf is what its name says. *)
LEMMA FirstOfProperties ==
  ASSUME NEW X, NEW t \in Seq(X), NEW S
  PROVE  /\ FirstOf(t, S) \in 1 .. Len(t) + 1
         /\ \A i \in 1 .. FirstOf(t, S) - 1 : t[i] \notin S
         /\ FirstOf(t, S) <= Len(t) => t[FirstOf(t, S)] \in S
<1> DEFINE IsFirst(i) == t[i] \in S /\ \A j \in 1 .. i - 1 : t[j] \notin S
           Places == {i \in DOMAIN t : t[i] \in S}
<1>1. CASE Places = {}
  <2>1. FirstOf(t, S) = Len(t) + 1
    BY <1>1 DEF FirstOf
  <2> QED
    BY <1>1, <2>1
<1>2. CASE Places # {}
  <2>1. \E i \in DOMAIN t : IsFirst(i)
    <3>0. Places \subseteq Nat
      OBVIOUS
    <3>1. PICK n \in Places : \A m \in Places : n <= m
      <4> HIDE DEF Places
      <4> QED
        BY <1>2, <3>0, LeastNumber
    <3>2. \A j \in 1 .. n - 1 : t[j] \notin S
      BY <3>1
    <3> QED
      BY <3>1, <3>2
  <2>2. FirstOf(t, S) = CHOOSE i \in DOMAIN t : IsFirst(i)
    BY <1>2 DEF FirstOf
  <2> HIDE DEF IsFirst
  <2>3. FirstOf(t, S) \in DOMAIN t /\ IsFirst(FirstOf(t, S))
    BY <2>1, <2>2
  <2> QED
    BY <2>3 DEF IsFirst
<1> QED
  BY <1>1, <1>2

(* A place with nothing of S before it, and with S or the end at it. *)
LEMMA FirstOfIs ==
  ASSUME NEW X, NEW t \in Seq(X), NEW S, NEW n \in 1 .. Len(t) + 1,
         \A i \in 1 .. n - 1 : t[i] \notin S,
         n <= Len(t) => t[n] \in S
  PROVE  FirstOf(t, S) = n
<1>1. /\ FirstOf(t, S) \in 1 .. Len(t) + 1
      /\ \A i \in 1 .. FirstOf(t, S) - 1 : t[i] \notin S
      /\ FirstOf(t, S) <= Len(t) => t[FirstOf(t, S)] \in S
  BY FirstOfProperties
<1>2. ~ (FirstOf(t, S) < n)
  BY <1>1
<1>3. ~ (n < FirstOf(t, S))
  BY <1>1
<1> QED
  BY <1>1, <1>2, <1>3

-----------------------------------------------------------------------------
(* The characters that are kept.                                           *)

(* What Kept's recursion says of one value, given the one before. *)
KeptNext(v, t, n, before) ==
  IF n = 0 THEN <<>>
  ELSE IF t[n] \in v.should_ignore THEN before
  ELSE Append(before, t[n])

IsKept(v, t, f, m) == f = [n \in 0 .. m |-> KeptNext(v, t, n, f[n - 1])]

(* The recursion has a solution, however far it goes. *)
LEMMA KeptExists ==
  ASSUME NEW v, NEW t
  PROVE  \A m \in Nat : \E f : IsKept(v, t, f, m)
<1> DEFINE S == {m \in Nat : \E f : IsKept(v, t, f, m)}
<1>1. 0 \in S
  <2> DEFINE f == [n \in 0 .. 0 |-> <<>>]
  <2>1. IsKept(v, t, f, 0)
    BY DEF IsKept, KeptNext
  <2> QED
    BY <2>1
<1>2. ASSUME NEW m \in Nat, m \in S PROVE m + 1 \in S
  <2>1. PICK f : IsKept(v, t, f, m)
    BY <1>2
  <2> DEFINE g == [n \in 0 .. m + 1 |->
                     IF n = m + 1 THEN KeptNext(v, t, n, f[m]) ELSE f[n]]
  <2>2. ASSUME NEW n \in 0 .. m + 1
        PROVE  g[n] = KeptNext(v, t, n, g[n - 1])
    <3>1. CASE n = m + 1
      <4>1. n - 1 = m /\ g[n - 1] = f[m]
        BY <3>1
      <4> QED
        BY <3>1, <4>1
    <3>2. CASE n \in 0 .. m /\ n # 0
      <4>1. g[n] = f[n] /\ g[n - 1] = f[n - 1]
        BY <3>2
      <4>2. f[n] = KeptNext(v, t, n, f[n - 1])
        BY <2>1, <3>2 DEF IsKept
      <4> QED
        BY <4>1, <4>2
    <3>3. CASE n = 0
      <4>1. f[0] = <<>>
        BY <2>1 DEF IsKept, KeptNext
      <4> QED
        BY <3>3, <4>1 DEF KeptNext
    <3> QED
      BY <3>1, <3>2, <3>3
  <2>3. g = [n \in 0 .. m + 1 |-> KeptNext(v, t, n, g[n - 1])]
    BY <2>2
  <2> HIDE DEF g
  <2>4. \E h : IsKept(v, t, h, m + 1)
    BY <2>3 DEF IsKept
  <2> QED
    BY <2>4
<1> HIDE DEF S
<1>3. Nat \subseteq S
  BY <1>1, <1>2, SetInduction
<1> QED
  BY <1>3 DEF S

LEMMA KeptEquation ==
  ASSUME NEW v, NEW t \in Seq(Char)
  PROVE  \A n \in 0 .. Len(t) : Kept(v, t)[n] = KeptNext(v, t, n, Kept(v, t)[n - 1])
<1>1. Kept(v, t) = CHOOSE f : IsKept(v, t, f, Len(t))
  BY DEF Kept, IsKept, KeptNext
<1>2. \E f : IsKept(v, t, f, Len(t))
  <2>1. Len(t) \in Nat
    OBVIOUS
  <2> QED
    BY <2>1, KeptExists
<1>3. IsKept(v, t, Kept(v, t), Len(t))
  BY <1>1, <1>2, Zenon
<1> HIDE DEF Kept
<1> QED
  BY <1>3 DEF IsKept

LEMMA KeptSteps ==
  ASSUME NEW v, NEW t \in Seq(Char)
  PROVE  /\ Kept(v, t)[0] = <<>>
         /\ \A n \in 1 .. Len(t) :
              Kept(v, t)[n] = IF t[n] \in v.should_ignore THEN Kept(v, t)[n - 1]
                              ELSE Append(Kept(v, t)[n - 1], t[n])
<1>1. Len(t) \in Nat
  OBVIOUS
<1> QED
  BY <1>1, KeptEquation DEF KeptNext

LEMMA KeptType ==
  ASSUME NEW v, NEW t \in Seq(Char)
  PROVE  \A n \in 0 .. Len(t) : Kept(v, t)[n] \in Seq(Char)
<1> DEFINE S == {n \in Nat : n <= Len(t) => Kept(v, t)[n] \in Seq(Char)}
<1>1. 0 \in S
  <2>1. Kept(v, t)[0] = <<>> /\ <<>> \in Seq(Char)
    BY KeptSteps, EmptySeq
  <2> QED
    BY <2>1
<1>2. ASSUME NEW n \in Nat, n \in S PROVE n + 1 \in S
  <2> SUFFICES ASSUME n + 1 <= Len(t) PROVE Kept(v, t)[n + 1] \in Seq(Char)
    OBVIOUS
  <2>1. n + 1 \in 1 .. Len(t) /\ (n + 1) - 1 = n /\ n <= Len(t)
    OBVIOUS
  <2>2. Kept(v, t)[n] \in Seq(Char) /\ t[n + 1] \in Char
    BY <1>2, <2>1
  <2>3. \/ Kept(v, t)[n + 1] = Kept(v, t)[n]
        \/ Kept(v, t)[n + 1] = Append(Kept(v, t)[n], t[n + 1])
    BY <2>1, KeptSteps
  <2>4. Append(Kept(v, t)[n], t[n + 1]) \in Seq(Char)
    BY <2>2, AppendProperties
  <2> QED
    BY <2>2, <2>3, <2>4
<1> HIDE DEF S
<1>3. Nat \subseteq S
  BY <1>1, <1>2, SetInduction
<1> QED
  BY <1>3 DEF S

(* s is r, or goes on from it. *)
Extends(s, r) == Len(r) <= Len(s) /\ \A i \in 1 .. Len(r) : s[i] = r[i]

(* More characters never change what was kept of fewer. *)
LEMMA KeptGrows ==
  ASSUME NEW v, NEW t \in Seq(Char), NEW m \in 0 .. Len(t)
  PROVE  \A n \in m .. Len(t) : Extends(Kept(v, t)[n], Kept(v, t)[m])
<1> DEFINE S == {d \in Nat : m + d <= Len(t) =>
                               Extends(Kept(v, t)[m + d], Kept(v, t)[m])}
<1>0. Kept(v, t)[m] \in Seq(Char)
  BY KeptType
<1>1. 0 \in S
  <2>1. m + 0 = m
    OBVIOUS
  <2> QED
    BY <1>0, <2>1 DEF Extends
<1>2. ASSUME NEW d \in Nat, d \in S PROVE d + 1 \in S
  <2> SUFFICES ASSUME m + (d + 1) <= Len(t)
               PROVE  Extends(Kept(v, t)[m + (d + 1)], Kept(v, t)[m])
    OBVIOUS
  <2> DEFINE n == m + d
  <2>1. /\ n \in 0 .. Len(t) /\ n + 1 \in 1 .. Len(t)
        /\ m + (d + 1) = n + 1 /\ (n + 1) - 1 = n
    OBVIOUS
  <2>2. Extends(Kept(v, t)[n], Kept(v, t)[m])
    BY <1>2, <2>1
  <2> HIDE DEF n
  <2>3. Kept(v, t)[n] \in Seq(Char) /\ t[n + 1] \in Char
    BY <2>1, KeptType
  <2>4. \/ Kept(v, t)[n + 1] = Kept(v, t)[n]
        \/ Kept(v, t)[n + 1] = Append(Kept(v, t)[n], t[n + 1])
    BY <2>1, KeptSteps
  <2> DEFINE k == Kept(v, t)[n]
             a == Append(k, t[n + 1])
  <2>5. /\ Len(a) = Len(k) + 1 /\ Len(k) \in Nat
        /\ \A i \in 1 .. Len(k) : a[i] = k[i]
    BY <2>3, AppendProperties
  <2>6. Extends(k, Kept(v, t)[m]) /\ Len(Kept(v, t)[m]) \in Nat
    BY <1>0, <2>2
  <2>7. Extends(a, Kept(v, t)[m])
    <3> HIDE DEF a, k
    <3> QED
      BY <2>5, <2>6 DEF Extends
  <2>8. Extends(Kept(v, t)[n + 1], Kept(v, t)[m])
    BY <2>4, <2>6, <2>7, Zenon
  <2> QED
    BY <2>1, <2>8
<1> HIDE DEF S
<1>3. Nat \subseteq S
  BY <1>1, <1>2, SetInduction
<1>4. ASSUME NEW n \in m .. Len(t)
      PROVE  Extends(Kept(v, t)[n], Kept(v, t)[m])
  <2>1. n - m \in S /\ m + (n - m) = n
    BY <1>3
  <2> QED
    BY <2>1 DEF S
<1> QED
  BY <1>4

(* A text that has nothing to ignore is kept as it is. *)
LEMMA KeptWhole ==
  ASSUME NEW v, NEW t \in Seq(Char),
         \A i \in 1 .. Len(t) : t[i] \notin v.should_ignore
  PROVE  \A n \in 0 .. Len(t) : Kept(v, t)[n] = SubSeq(t, 1, n)
<1> DEFINE S == {n \in Nat : n <= Len(t) => Kept(v, t)[n] = SubSeq(t, 1, n)}
<1>1. 0 \in S
  <2>1. SubSeq(t, 1, 0) = <<>>
    OBVIOUS
  <2> QED
    BY <2>1, KeptSteps
<1>2. ASSUME NEW n \in Nat, n \in S PROVE n + 1 \in S
  <2> SUFFICES ASSUME n + 1 <= Len(t)
               PROVE  Kept(v, t)[n + 1] = SubSeq(t, 1, n + 1)
    OBVIOUS
  <2>1. n + 1 \in 1 .. Len(t) /\ (n + 1) - 1 = n /\ n <= Len(t)
    OBVIOUS
  <2>2. Kept(v, t)[n] = SubSeq(t, 1, n)
    BY <1>2, <2>1
  <2>3. Kept(v, t)[n + 1] = Append(Kept(v, t)[n], t[n + 1])
    BY <2>1, KeptSteps
  <2>4. Append(SubSeq(t, 1, n), t[n + 1]) = SubSeq(t, 1, n + 1)
    BY <2>1
  <2> QED
    BY <2>2, <2>3, <2>4
<1> HIDE DEF S
<1>3. Nat \subseteq S
  BY <1>1, <1>2, SetInduction
<1> QED
  BY <1>3 DEF S

-----------------------------------------------------------------------------
(* What is written, and the symbols it begins with.                        *)

LEMMA SymbolOrNot ==
  ASSUME NEW v \in Variants, NEW c \in Char
  PROVE  c \in NoSymbol(v) <=> ~ (c < alphabet_size(v))
<1>1. alphabet_size(v) \in Nat
  BY DEF alphabet_size, Variants, Variant, base64_rfc4648, base64_url,
         base64_url_unpadded, base32_rfc4648, base32_hex, base32_crockford,
         hex_lower, hex_upper
<1>2. c \in Nat
  BY DEF Char
<1> QED
  BY <1>1, <1>2 DEF NoSymbol

LEMMA WrittenType ==
  ASSUME NEW v \in Variants, NEW t \in Seq(Char)
  PROVE  /\ Written(v, t) \in Seq(Char)
         /\ SymbolCount(v, t) \in 0 .. Len(Written(v, t))
         /\ \A i \in 1 .. SymbolCount(v, t) : Written(v, t)[i] < alphabet_size(v)
         /\ Symbols(v, t) \in Seq(Char)
         /\ Len(Symbols(v, t)) = SymbolCount(v, t)
         /\ \A i \in 1 .. SymbolCount(v, t) : Symbols(v, t)[i] = Written(v, t)[i]
<1> DEFINE w == Written(v, t)
           n == SymbolCount(v, t)
<1>1. w \in Seq(Char)
  <2>1. FirstOf(t, {Nul}) \in 1 .. Len(t) + 1
    BY FirstOfProperties
  <2> QED
    BY <2>1, KeptType DEF Written
<1>2. n \in 0 .. Len(w) /\ \A i \in 1 .. n : w[i] \notin NoSymbol(v)
  <2>1. /\ FirstOf(w, NoSymbol(v)) \in 1 .. Len(w) + 1
        /\ \A i \in 1 .. FirstOf(w, NoSymbol(v)) - 1 : w[i] \notin NoSymbol(v)
    BY <1>1, FirstOfProperties
  <2> QED
    BY <1>1, <2>1 DEF SymbolCount
<1>4. Symbols(v, t) = SubSeq(w, 1, n)
  BY DEF Symbols
<1> HIDE DEF w, n
<1>5. \A i \in 1 .. n : w[i] < alphabet_size(v)
  <2> SUFFICES ASSUME NEW i \in 1 .. n PROVE w[i] < alphabet_size(v)
    OBVIOUS
  <2>1. w[i] \in Char /\ w[i] \notin NoSymbol(v)
    BY <1>1, <1>2
  <2> QED
    BY <2>1, SymbolOrNot
<1>6. /\ SubSeq(w, 1, n) \in Seq(Char) /\ Len(SubSeq(w, 1, n)) = n
      /\ \A i \in 1 .. n : SubSeq(w, 1, n)[i] = w[i]
  BY <1>1, <1>2
<1> QED
  BY <1>1, <1>2, <1>4, <1>5, <1>6 DEF w, n

(* Where what is written goes on after n symbols with another character.   *)
LEMMA SymbolCountIs ==
  ASSUME NEW v \in Variants, NEW t \in Seq(Char), NEW n \in Nat,
         n <= Len(Written(v, t)),
         \A i \in 1 .. n : Written(v, t)[i] < alphabet_size(v),
         n < Len(Written(v, t)) => ~ (Written(v, t)[n + 1] < alphabet_size(v))
  PROVE  SymbolCount(v, t) = n
<1> DEFINE w == Written(v, t)
<1>1. w \in Seq(Char)
  BY WrittenType
<1>3. \A i \in 1 .. n : w[i] \notin NoSymbol(v)
  <2> SUFFICES ASSUME NEW i \in 1 .. n PROVE w[i] \notin NoSymbol(v)
    OBVIOUS
  <2>1. w[i] \in Char /\ w[i] < alphabet_size(v)
    BY <1>1
  <2> QED
    BY <2>1, SymbolOrNot
<1>4. n < Len(w) => w[n + 1] \in NoSymbol(v)
  <2> SUFFICES ASSUME n < Len(w) PROVE w[n + 1] \in NoSymbol(v)
    OBVIOUS
  <2>1. w[n + 1] \in Char /\ ~ (w[n + 1] < alphabet_size(v))
    BY <1>1
  <2> QED
    BY <2>1, SymbolOrNot
<1>5. SymbolCount(v, t) = FirstOf(w, NoSymbol(v)) - 1
  BY DEF SymbolCount
<1>6. /\ n + 1 \in 1 .. Len(w) + 1 /\ (n + 1) - 1 = n
      /\ n + 1 <= Len(w) => n < Len(w)
  BY <1>1
<1> HIDE DEF w
<1>7. FirstOf(w, NoSymbol(v)) = n + 1
  BY <1>1, <1>3, <1>4, <1>6, FirstOfIs
<1> QED
  BY <1>5, <1>7

(* A text without Nul in its first n characters has written what is kept   *)
(* of them, and nothing else if it ends there or with a Nul.               *)
LEMMA WrittenFrom ==
  ASSUME NEW v \in Variants, NEW t \in Seq(Char), NEW n \in 0 .. Len(t),
         \A i \in 1 .. n : t[i] # Nul
  PROVE  /\ Extends(Written(v, t), Kept(v, t)[n])
         /\ n = Len(t) \/ (n < Len(t) /\ t[n + 1] = Nul)
              => Written(v, t) = Kept(v, t)[n]
<1> DEFINE m == FirstOf(t, {Nul})
<1>1. /\ m \in 1 .. Len(t) + 1
      /\ m <= Len(t) => t[m] \in {Nul}
  BY FirstOfProperties
<1>2. Written(v, t) = Kept(v, t)[m - 1]
  BY DEF Written
<1>3. ASSUME n = Len(t) \/ (n < Len(t) /\ t[n + 1] = Nul)
      PROVE  m = n + 1
  <2>1. /\ n + 1 \in 1 .. Len(t) + 1
        /\ \A i \in 1 .. (n + 1) - 1 : t[i] \notin {Nul}
        /\ n + 1 <= Len(t) => t[n + 1] \in {Nul}
    BY <1>3
  <2> QED
    BY <2>1, FirstOfIs
<1> HIDE DEF m
<1>4. m - 1 \in n .. Len(t)
  BY <1>1
<1>5. Extends(Kept(v, t)[m - 1], Kept(v, t)[n])
  BY <1>4, KeptGrows
<1>6. m = n + 1 => m - 1 = n
  OBVIOUS
<1> QED
  BY <1>2, <1>3, <1>5, <1>6

-----------------------------------------------------------------------------
(* Bits.                                                                   *)

Assembled(b7, b6, b5, b4, b3, b2, b1, b0) ==
  128 * b7 + 64 * b6 + 32 * b5 + 16 * b4 + 8 * b3 + 4 * b2 + 2 * b1 + b0

Bit == 0 .. 1
BitOf(x, n) == (x \div Weight(n)) % 2

(* A byte is assembled from eight bits of the text. *)
LEMMA ByteFromBits ==
  ASSUME NEW v, NEW s, NEW i \in Nat, NEW k \in Nat, k = 8 * (i - 1),
         \A n \in 0 .. 7 : TextBit(v, s, k + n) \in Bit
  PROVE  ByteAt(v, s, i) =
           Assembled(TextBit(v, s, k + 0), TextBit(v, s, k + 1),
                     TextBit(v, s, k + 2), TextBit(v, s, k + 3),
                     TextBit(v, s, k + 4), TextBit(v, s, k + 5),
                     TextBit(v, s, k + 6), TextBit(v, s, k + 7))
BY DEF ByteAt, Assembled, Weight, Bit

LEMMA SixBits ==
  ASSUME NEW a \in 0 .. 63
  PROVE  \E a5, a4, a3, a2, a1, a0 \in Bit :
           /\ a = Assembled(0, 0, a5, a4, a3, a2, a1, a0)
           /\ a5 = BitOf(a, 5) /\ a4 = BitOf(a, 4) /\ a3 = BitOf(a, 3)
           /\ a2 = BitOf(a, 2) /\ a1 = BitOf(a, 1) /\ a0 = BitOf(a, 0)
BY DEF Assembled, Bit, BitOf, Weight

(* Symbol j of block q of base64 is x, and bit m of it is where it should be. *)
Base64At(s, q, j, x) == x \in 0 .. 63 /\ s[4 * q + j + 1] = x

Base64Spells(v, s, q, j, m, x) ==
  TextBit(v, s, 24 * q + (6 * j + m)) = BitOf(x, 5 - m)

LEMMA Base64Symbol ==
  ASSUME NEW v, v.family = "base64", NEW s, NEW q \in Nat, NEW j \in 0 .. 3,
         NEW m \in 0 .. 5, NEW x, x = s[4 * q + j + 1]
  PROVE  Base64Spells(v, s, q, j, m, x)
<1>1. BitsPerSymbol(v) = 6
  BY DEF BitsPerSymbol, binary_block_size, encoded_block_size
<1>2. /\ (24 * q + (6 * j + m)) \div 6 = 4 * q + j
      /\ (24 * q + (6 * j + m)) % 6 = m
  OBVIOUS
<1> QED
  BY <1>1, <1>2 DEF TextBit, BitOf, Base64Spells

LEMMA FiveBits ==
  ASSUME NEW a \in 0 .. 31
  PROVE  \E a4, a3, a2, a1, a0 \in Bit :
           /\ a = Assembled(0, 0, 0, a4, a3, a2, a1, a0)
           /\ a4 = BitOf(a, 4) /\ a3 = BitOf(a, 3) /\ a2 = BitOf(a, 2)
           /\ a1 = BitOf(a, 1) /\ a0 = BitOf(a, 0)
BY DEF Assembled, Bit, BitOf, Weight

(* Symbol j of block q of base32 is x, and bit m of it is where it should be. *)
Base32At(s, q, j, x) == x \in 0 .. 31 /\ s[8 * q + j + 1] = x

Base32Spells(v, s, q, j, m, x) ==
  TextBit(v, s, 40 * q + (5 * j + m)) = BitOf(x, 4 - m)

LEMMA Base32Symbol ==
  ASSUME NEW v, v.family = "base32", NEW s, NEW q \in Nat, NEW j \in 0 .. 7,
         NEW m \in 0 .. 4, NEW x, x = s[8 * q + j + 1]
  PROVE  Base32Spells(v, s, q, j, m, x)
<1>1. BitsPerSymbol(v) = 5
  BY DEF BitsPerSymbol, binary_block_size, encoded_block_size
<1>2. /\ (40 * q + (5 * j + m)) \div 5 = 8 * q + j
      /\ (40 * q + (5 * j + m)) % 5 = m
  OBVIOUS
<1> QED
  BY <1>1, <1>2 DEF TextBit, BitOf, Base32Spells

LEMMA FourBits ==
  ASSUME NEW a \in 0 .. 15
  PROVE  \E a3, a2, a1, a0 \in Bit :
           /\ a = Assembled(0, 0, 0, 0, a3, a2, a1, a0)
           /\ a3 = BitOf(a, 3) /\ a2 = BitOf(a, 2) /\ a1 = BitOf(a, 1)
           /\ a0 = BitOf(a, 0)
BY DEF Assembled, Bit, BitOf, Weight

(* Symbol j of block q of hex is x, and bit m of it is where it should be. *)
HexAt(s, q, j, x) == x \in 0 .. 15 /\ s[2 * q + j + 1] = x

HexSpells(v, s, q, j, m, x) ==
  TextBit(v, s, 8 * q + (4 * j + m)) = BitOf(x, 3 - m)

LEMMA HexSymbol ==
  ASSUME NEW v, v.family = "hex", NEW s, NEW q \in Nat, NEW j \in 0 .. 1,
         NEW m \in 0 .. 3, NEW x, x = s[2 * q + j + 1]
  PROVE  HexSpells(v, s, q, j, m, x)
<1>1. BitsPerSymbol(v) = 4
  BY DEF BitsPerSymbol, binary_block_size, encoded_block_size
<1>2. /\ (8 * q + (4 * j + m)) \div 4 = 2 * q + j
      /\ (8 * q + (4 * j + m)) % 4 = m
  OBVIOUS
<1> QED
  BY <1>1, <1>2 DEF TextBit, BitOf, HexSpells

LEMMA Base64First ==
  ASSUME NEW v, v.family = "base64", NEW s, NEW q \in Nat,
         NEW a, NEW b,
         Base64At(s, q, 0, a), Base64At(s, q, 1, b)
  PROVE  /\ ByteAt(v, s, 3 * q + 1) = (a * 4 + b \div 16) % 256
         /\ ByteAt(v, s, 3 * q + 1) = (a * 4 + ((b \div 16) % 4)) % 256
<1> DEFINE k == 24 * q + 0
<1>1. PICK a5, a4, a3, a2, a1, a0 \in Bit :
        /\ a = Assembled(0, 0, a5, a4, a3, a2, a1, a0)
        /\ a5 = BitOf(a, 5) /\ a4 = BitOf(a, 4) /\ a3 = BitOf(a, 3)
        /\ a2 = BitOf(a, 2) /\ a1 = BitOf(a, 1) /\ a0 = BitOf(a, 0)
  BY SixBits DEF Base64At
<1>2. PICK b5, b4, b3, b2, b1, b0 \in Bit :
        /\ b = Assembled(0, 0, b5, b4, b3, b2, b1, b0)
        /\ b5 = BitOf(b, 5) /\ b4 = BitOf(b, 4) /\ b3 = BitOf(b, 3)
        /\ b2 = BitOf(b, 2) /\ b1 = BitOf(b, 1) /\ b0 = BitOf(b, 0)
  BY SixBits DEF Base64At
<1>3. /\ a = Assembled(0, 0, a5, a4, a3, a2, a1, a0)
      /\ b = Assembled(0, 0, b5, b4, b3, b2, b1, b0)
  BY <1>1, <1>2
<1>4. /\ (a * 4 + b \div 16) % 256 = Assembled(a5, a4, a3, a2, a1, a0, b5, b4)
      /\ (a * 4 + ((b \div 16) % 4)) % 256 = Assembled(a5, a4, a3, a2, a1, a0, b5, b4)
  BY <1>3 DEF Base64At, Assembled, Bit
<1>5. /\ Base64Spells(v, s, q, 0, 0, a) /\ Base64Spells(v, s, q, 0, 1, a)
      /\ Base64Spells(v, s, q, 0, 2, a) /\ Base64Spells(v, s, q, 0, 3, a)
      /\ Base64Spells(v, s, q, 0, 4, a) /\ Base64Spells(v, s, q, 0, 5, a)
  <2>1. a = s[4 * q + 0 + 1] /\ 0 \in 0 .. 3
    BY DEF Base64At
  <2> QED
    BY <2>1, Base64Symbol
<1>6. /\ Base64Spells(v, s, q, 1, 0, b) /\ Base64Spells(v, s, q, 1, 1, b)
  <2>1. b = s[4 * q + 1 + 1] /\ 1 \in 0 .. 3
    BY DEF Base64At
  <2> QED
    BY <2>1, Base64Symbol
<1>7. /\ TextBit(v, s, k + 0) = BitOf(a, 5) /\ TextBit(v, s, k + 1) = BitOf(a, 4)
      /\ TextBit(v, s, k + 2) = BitOf(a, 3) /\ TextBit(v, s, k + 3) = BitOf(a, 2)
      /\ TextBit(v, s, k + 4) = BitOf(a, 1) /\ TextBit(v, s, k + 5) = BitOf(a, 0)
      /\ TextBit(v, s, k + 6) = BitOf(b, 5) /\ TextBit(v, s, k + 7) = BitOf(b, 4)
  BY <1>5, <1>6 DEF Base64Spells
<1>8. /\ TextBit(v, s, k + 0) = a5 /\ TextBit(v, s, k + 1) = a4
      /\ TextBit(v, s, k + 2) = a3 /\ TextBit(v, s, k + 3) = a2
      /\ TextBit(v, s, k + 4) = a1 /\ TextBit(v, s, k + 5) = a0
      /\ TextBit(v, s, k + 6) = b5 /\ TextBit(v, s, k + 7) = b4
  BY <1>1, <1>2, <1>7
<1>9. /\ k \in Nat /\ 3 * q + 1 \in Nat
      /\ k = 8 * ((3 * q + 1) - 1)
  OBVIOUS
<1> HIDE DEF k
<1>10. \A n \in 0 .. 7 : TextBit(v, s, k + n) \in Bit
  BY <1>8
<1>11. ByteAt(v, s, 3 * q + 1) = Assembled(a5, a4, a3, a2, a1, a0, b5, b4)
  BY <1>8, <1>9, <1>10, ByteFromBits
<1> QED
  BY <1>4, <1>11

LEMMA Base64Second ==
  ASSUME NEW v, v.family = "base64", NEW s, NEW q \in Nat,
         NEW b, NEW c,
         Base64At(s, q, 1, b), Base64At(s, q, 2, c)
  PROVE  /\ ByteAt(v, s, 3 * q + 2) = (b * 16 + c \div 4) % 256
         /\ ByteAt(v, s, 3 * q + 2) = (b % 16) * 16 + ((c \div 4) % 16)
<1> DEFINE k == 24 * q + 8
<1>1. PICK b5, b4, b3, b2, b1, b0 \in Bit :
        /\ b = Assembled(0, 0, b5, b4, b3, b2, b1, b0)
        /\ b5 = BitOf(b, 5) /\ b4 = BitOf(b, 4) /\ b3 = BitOf(b, 3)
        /\ b2 = BitOf(b, 2) /\ b1 = BitOf(b, 1) /\ b0 = BitOf(b, 0)
  BY SixBits DEF Base64At
<1>2. PICK c5, c4, c3, c2, c1, c0 \in Bit :
        /\ c = Assembled(0, 0, c5, c4, c3, c2, c1, c0)
        /\ c5 = BitOf(c, 5) /\ c4 = BitOf(c, 4) /\ c3 = BitOf(c, 3)
        /\ c2 = BitOf(c, 2) /\ c1 = BitOf(c, 1) /\ c0 = BitOf(c, 0)
  BY SixBits DEF Base64At
<1>3. /\ b = Assembled(0, 0, b5, b4, b3, b2, b1, b0)
      /\ c = Assembled(0, 0, c5, c4, c3, c2, c1, c0)
  BY <1>1, <1>2
<1>4. /\ (b * 16 + c \div 4) % 256 = Assembled(b3, b2, b1, b0, c5, c4, c3, c2)
      /\ (b % 16) * 16 + ((c \div 4) % 16) = Assembled(b3, b2, b1, b0, c5, c4, c3, c2)
  BY <1>3 DEF Base64At, Assembled, Bit
<1>5. /\ Base64Spells(v, s, q, 1, 2, b) /\ Base64Spells(v, s, q, 1, 3, b)
      /\ Base64Spells(v, s, q, 1, 4, b) /\ Base64Spells(v, s, q, 1, 5, b)
  <2>1. b = s[4 * q + 1 + 1] /\ 1 \in 0 .. 3
    BY DEF Base64At
  <2> QED
    BY <2>1, Base64Symbol
<1>6. /\ Base64Spells(v, s, q, 2, 0, c) /\ Base64Spells(v, s, q, 2, 1, c)
      /\ Base64Spells(v, s, q, 2, 2, c) /\ Base64Spells(v, s, q, 2, 3, c)
  <2>1. c = s[4 * q + 2 + 1] /\ 2 \in 0 .. 3
    BY DEF Base64At
  <2> QED
    BY <2>1, Base64Symbol
<1>7. /\ TextBit(v, s, k + 0) = BitOf(b, 3) /\ TextBit(v, s, k + 1) = BitOf(b, 2)
      /\ TextBit(v, s, k + 2) = BitOf(b, 1) /\ TextBit(v, s, k + 3) = BitOf(b, 0)
      /\ TextBit(v, s, k + 4) = BitOf(c, 5) /\ TextBit(v, s, k + 5) = BitOf(c, 4)
      /\ TextBit(v, s, k + 6) = BitOf(c, 3) /\ TextBit(v, s, k + 7) = BitOf(c, 2)
  BY <1>5, <1>6 DEF Base64Spells
<1>8. /\ TextBit(v, s, k + 0) = b3 /\ TextBit(v, s, k + 1) = b2
      /\ TextBit(v, s, k + 2) = b1 /\ TextBit(v, s, k + 3) = b0
      /\ TextBit(v, s, k + 4) = c5 /\ TextBit(v, s, k + 5) = c4
      /\ TextBit(v, s, k + 6) = c3 /\ TextBit(v, s, k + 7) = c2
  BY <1>1, <1>2, <1>7
<1>9. /\ k \in Nat /\ 3 * q + 2 \in Nat
      /\ k = 8 * ((3 * q + 2) - 1)
  OBVIOUS
<1> HIDE DEF k
<1>10. \A n \in 0 .. 7 : TextBit(v, s, k + n) \in Bit
  BY <1>8
<1>11. ByteAt(v, s, 3 * q + 2) = Assembled(b3, b2, b1, b0, c5, c4, c3, c2)
  BY <1>8, <1>9, <1>10, ByteFromBits
<1> QED
  BY <1>4, <1>11

LEMMA Base64Third ==
  ASSUME NEW v, v.family = "base64", NEW s, NEW q \in Nat,
         NEW c, NEW d,
         Base64At(s, q, 2, c), Base64At(s, q, 3, d)
  PROVE  ByteAt(v, s, 3 * q + 3) = (c * 64 + d) % 256
<1> DEFINE k == 24 * q + 16
<1>1. PICK c5, c4, c3, c2, c1, c0 \in Bit :
        /\ c = Assembled(0, 0, c5, c4, c3, c2, c1, c0)
        /\ c5 = BitOf(c, 5) /\ c4 = BitOf(c, 4) /\ c3 = BitOf(c, 3)
        /\ c2 = BitOf(c, 2) /\ c1 = BitOf(c, 1) /\ c0 = BitOf(c, 0)
  BY SixBits DEF Base64At
<1>2. PICK d5, d4, d3, d2, d1, d0 \in Bit :
        /\ d = Assembled(0, 0, d5, d4, d3, d2, d1, d0)
        /\ d5 = BitOf(d, 5) /\ d4 = BitOf(d, 4) /\ d3 = BitOf(d, 3)
        /\ d2 = BitOf(d, 2) /\ d1 = BitOf(d, 1) /\ d0 = BitOf(d, 0)
  BY SixBits DEF Base64At
<1>3. /\ c = Assembled(0, 0, c5, c4, c3, c2, c1, c0)
      /\ d = Assembled(0, 0, d5, d4, d3, d2, d1, d0)
  BY <1>1, <1>2
<1>4. (c * 64 + d) % 256 = Assembled(c1, c0, d5, d4, d3, d2, d1, d0)
  BY <1>3 DEF Base64At, Assembled, Bit
<1>5. /\ Base64Spells(v, s, q, 2, 4, c) /\ Base64Spells(v, s, q, 2, 5, c)
  <2>1. c = s[4 * q + 2 + 1] /\ 2 \in 0 .. 3
    BY DEF Base64At
  <2> QED
    BY <2>1, Base64Symbol
<1>6. /\ Base64Spells(v, s, q, 3, 0, d) /\ Base64Spells(v, s, q, 3, 1, d)
      /\ Base64Spells(v, s, q, 3, 2, d) /\ Base64Spells(v, s, q, 3, 3, d)
      /\ Base64Spells(v, s, q, 3, 4, d) /\ Base64Spells(v, s, q, 3, 5, d)
  <2>1. d = s[4 * q + 3 + 1] /\ 3 \in 0 .. 3
    BY DEF Base64At
  <2> QED
    BY <2>1, Base64Symbol
<1>7. /\ TextBit(v, s, k + 0) = BitOf(c, 1) /\ TextBit(v, s, k + 1) = BitOf(c, 0)
      /\ TextBit(v, s, k + 2) = BitOf(d, 5) /\ TextBit(v, s, k + 3) = BitOf(d, 4)
      /\ TextBit(v, s, k + 4) = BitOf(d, 3) /\ TextBit(v, s, k + 5) = BitOf(d, 2)
      /\ TextBit(v, s, k + 6) = BitOf(d, 1) /\ TextBit(v, s, k + 7) = BitOf(d, 0)
  BY <1>5, <1>6 DEF Base64Spells
<1>8. /\ TextBit(v, s, k + 0) = c1 /\ TextBit(v, s, k + 1) = c0
      /\ TextBit(v, s, k + 2) = d5 /\ TextBit(v, s, k + 3) = d4
      /\ TextBit(v, s, k + 4) = d3 /\ TextBit(v, s, k + 5) = d2
      /\ TextBit(v, s, k + 6) = d1 /\ TextBit(v, s, k + 7) = d0
  BY <1>1, <1>2, <1>7
<1>9. /\ k \in Nat /\ 3 * q + 3 \in Nat
      /\ k = 8 * ((3 * q + 3) - 1)
  OBVIOUS
<1> HIDE DEF k
<1>10. \A n \in 0 .. 7 : TextBit(v, s, k + n) \in Bit
  BY <1>8
<1>11. ByteAt(v, s, 3 * q + 3) = Assembled(c1, c0, d5, d4, d3, d2, d1, d0)
  BY <1>8, <1>9, <1>10, ByteFromBits
<1> QED
  BY <1>4, <1>11

LEMMA Base32First ==
  ASSUME NEW v, v.family = "base32", NEW s, NEW q \in Nat,
         NEW a, NEW b,
         Base32At(s, q, 0, a), Base32At(s, q, 1, b)
  PROVE  ByteAt(v, s, 5 * q + 1) = (a % 32) * 8 + ((b \div 4) % 8)
<1> DEFINE k == 40 * q + 0
<1>1. PICK a4, a3, a2, a1, a0 \in Bit :
        /\ a = Assembled(0, 0, 0, a4, a3, a2, a1, a0)
        /\ a4 = BitOf(a, 4) /\ a3 = BitOf(a, 3) /\ a2 = BitOf(a, 2)
        /\ a1 = BitOf(a, 1) /\ a0 = BitOf(a, 0)
  BY FiveBits DEF Base32At
<1>2. PICK b4, b3, b2, b1, b0 \in Bit :
        /\ b = Assembled(0, 0, 0, b4, b3, b2, b1, b0)
        /\ b4 = BitOf(b, 4) /\ b3 = BitOf(b, 3) /\ b2 = BitOf(b, 2)
        /\ b1 = BitOf(b, 1) /\ b0 = BitOf(b, 0)
  BY FiveBits DEF Base32At
<1>3. /\ a = Assembled(0, 0, 0, a4, a3, a2, a1, a0)
      /\ b = Assembled(0, 0, 0, b4, b3, b2, b1, b0)
  BY <1>1, <1>2
<1>4. (a % 32) * 8 + ((b \div 4) % 8) = Assembled(a4, a3, a2, a1, a0, b4, b3, b2)
  BY <1>3 DEF Base32At, Assembled, Bit
<1>5. /\ Base32Spells(v, s, q, 0, 0, a) /\ Base32Spells(v, s, q, 0, 1, a)
      /\ Base32Spells(v, s, q, 0, 2, a) /\ Base32Spells(v, s, q, 0, 3, a)
      /\ Base32Spells(v, s, q, 0, 4, a)
  <2>1. a = s[8 * q + 0 + 1] /\ 0 \in 0 .. 7
    BY DEF Base32At
  <2> QED
    BY <2>1, Base32Symbol
<1>6. /\ Base32Spells(v, s, q, 1, 0, b) /\ Base32Spells(v, s, q, 1, 1, b)
      /\ Base32Spells(v, s, q, 1, 2, b)
  <2>1. b = s[8 * q + 1 + 1] /\ 1 \in 0 .. 7
    BY DEF Base32At
  <2> QED
    BY <2>1, Base32Symbol
<1>7. /\ TextBit(v, s, k + 0) = BitOf(a, 4) /\ TextBit(v, s, k + 1) = BitOf(a, 3)
      /\ TextBit(v, s, k + 2) = BitOf(a, 2) /\ TextBit(v, s, k + 3) = BitOf(a, 1)
      /\ TextBit(v, s, k + 4) = BitOf(a, 0) /\ TextBit(v, s, k + 5) = BitOf(b, 4)
      /\ TextBit(v, s, k + 6) = BitOf(b, 3) /\ TextBit(v, s, k + 7) = BitOf(b, 2)
  BY <1>5, <1>6 DEF Base32Spells
<1>8. /\ TextBit(v, s, k + 0) = a4 /\ TextBit(v, s, k + 1) = a3
      /\ TextBit(v, s, k + 2) = a2 /\ TextBit(v, s, k + 3) = a1
      /\ TextBit(v, s, k + 4) = a0 /\ TextBit(v, s, k + 5) = b4
      /\ TextBit(v, s, k + 6) = b3 /\ TextBit(v, s, k + 7) = b2
  BY <1>1, <1>2, <1>7
<1>9. /\ k \in Nat /\ 5 * q + 1 \in Nat
      /\ k = 8 * ((5 * q + 1) - 1)
  OBVIOUS
<1> HIDE DEF k
<1>10. \A n \in 0 .. 7 : TextBit(v, s, k + n) \in Bit
  BY <1>8
<1>11. ByteAt(v, s, 5 * q + 1) = Assembled(a4, a3, a2, a1, a0, b4, b3, b2)
  BY <1>8, <1>9, <1>10, ByteFromBits
<1> QED
  BY <1>4, <1>11

LEMMA Base32Second ==
  ASSUME NEW v, v.family = "base32", NEW s, NEW q \in Nat,
         NEW b, NEW c, NEW d,
         Base32At(s, q, 1, b), Base32At(s, q, 2, c), Base32At(s, q, 3, d)
  PROVE  ByteAt(v, s, 5 * q + 2) = (b % 4) * 64 + (c % 32) * 2 + ((d \div 16) % 2)
<1> DEFINE k == 40 * q + 8
<1>1. PICK b4, b3, b2, b1, b0 \in Bit :
        /\ b = Assembled(0, 0, 0, b4, b3, b2, b1, b0)
        /\ b4 = BitOf(b, 4) /\ b3 = BitOf(b, 3) /\ b2 = BitOf(b, 2)
        /\ b1 = BitOf(b, 1) /\ b0 = BitOf(b, 0)
  BY FiveBits DEF Base32At
<1>2. PICK c4, c3, c2, c1, c0 \in Bit :
        /\ c = Assembled(0, 0, 0, c4, c3, c2, c1, c0)
        /\ c4 = BitOf(c, 4) /\ c3 = BitOf(c, 3) /\ c2 = BitOf(c, 2)
        /\ c1 = BitOf(c, 1) /\ c0 = BitOf(c, 0)
  BY FiveBits DEF Base32At
<1>3. PICK d4, d3, d2, d1, d0 \in Bit :
        /\ d = Assembled(0, 0, 0, d4, d3, d2, d1, d0)
        /\ d4 = BitOf(d, 4) /\ d3 = BitOf(d, 3) /\ d2 = BitOf(d, 2)
        /\ d1 = BitOf(d, 1) /\ d0 = BitOf(d, 0)
  BY FiveBits DEF Base32At
<1>4. /\ b = Assembled(0, 0, 0, b4, b3, b2, b1, b0)
      /\ c = Assembled(0, 0, 0, c4, c3, c2, c1, c0)
      /\ d = Assembled(0, 0, 0, d4, d3, d2, d1, d0)
  BY <1>1, <1>2, <1>3
<1>5. (b % 4) * 64 + (c % 32) * 2 + ((d \div 16) % 2) = Assembled(b1, b0, c4, c3, c2, c1, c0, d4)
  BY <1>4 DEF Base32At, Assembled, Bit
<1>6. /\ Base32Spells(v, s, q, 1, 3, b) /\ Base32Spells(v, s, q, 1, 4, b)
  <2>1. b = s[8 * q + 1 + 1] /\ 1 \in 0 .. 7
    BY DEF Base32At
  <2> QED
    BY <2>1, Base32Symbol
<1>7. /\ Base32Spells(v, s, q, 2, 0, c) /\ Base32Spells(v, s, q, 2, 1, c)
      /\ Base32Spells(v, s, q, 2, 2, c) /\ Base32Spells(v, s, q, 2, 3, c)
      /\ Base32Spells(v, s, q, 2, 4, c)
  <2>1. c = s[8 * q + 2 + 1] /\ 2 \in 0 .. 7
    BY DEF Base32At
  <2> QED
    BY <2>1, Base32Symbol
<1>8. /\ Base32Spells(v, s, q, 3, 0, d)
  <2>1. d = s[8 * q + 3 + 1] /\ 3 \in 0 .. 7
    BY DEF Base32At
  <2> QED
    BY <2>1, Base32Symbol
<1>9. /\ TextBit(v, s, k + 0) = BitOf(b, 1) /\ TextBit(v, s, k + 1) = BitOf(b, 0)
      /\ TextBit(v, s, k + 2) = BitOf(c, 4) /\ TextBit(v, s, k + 3) = BitOf(c, 3)
      /\ TextBit(v, s, k + 4) = BitOf(c, 2) /\ TextBit(v, s, k + 5) = BitOf(c, 1)
      /\ TextBit(v, s, k + 6) = BitOf(c, 0) /\ TextBit(v, s, k + 7) = BitOf(d, 4)
  BY <1>6, <1>7, <1>8 DEF Base32Spells
<1>10. /\ TextBit(v, s, k + 0) = b1 /\ TextBit(v, s, k + 1) = b0
      /\ TextBit(v, s, k + 2) = c4 /\ TextBit(v, s, k + 3) = c3
      /\ TextBit(v, s, k + 4) = c2 /\ TextBit(v, s, k + 5) = c1
      /\ TextBit(v, s, k + 6) = c0 /\ TextBit(v, s, k + 7) = d4
  BY <1>1, <1>2, <1>3, <1>9
<1>11. /\ k \in Nat /\ 5 * q + 2 \in Nat
      /\ k = 8 * ((5 * q + 2) - 1)
  OBVIOUS
<1> HIDE DEF k
<1>12. \A n \in 0 .. 7 : TextBit(v, s, k + n) \in Bit
  BY <1>10
<1>13. ByteAt(v, s, 5 * q + 2) = Assembled(b1, b0, c4, c3, c2, c1, c0, d4)
  BY <1>10, <1>11, <1>12, ByteFromBits
<1> QED
  BY <1>5, <1>13

LEMMA Base32Third ==
  ASSUME NEW v, v.family = "base32", NEW s, NEW q \in Nat,
         NEW d, NEW e,
         Base32At(s, q, 3, d), Base32At(s, q, 4, e)
  PROVE  ByteAt(v, s, 5 * q + 3) = (d % 16) * 16 + ((e \div 2) % 16)
<1> DEFINE k == 40 * q + 16
<1>1. PICK d4, d3, d2, d1, d0 \in Bit :
        /\ d = Assembled(0, 0, 0, d4, d3, d2, d1, d0)
        /\ d4 = BitOf(d, 4) /\ d3 = BitOf(d, 3) /\ d2 = BitOf(d, 2)
        /\ d1 = BitOf(d, 1) /\ d0 = BitOf(d, 0)
  BY FiveBits DEF Base32At
<1>2. PICK e4, e3, e2, e1, e0 \in Bit :
        /\ e = Assembled(0, 0, 0, e4, e3, e2, e1, e0)
        /\ e4 = BitOf(e, 4) /\ e3 = BitOf(e, 3) /\ e2 = BitOf(e, 2)
        /\ e1 = BitOf(e, 1) /\ e0 = BitOf(e, 0)
  BY FiveBits DEF Base32At
<1>3. /\ d = Assembled(0, 0, 0, d4, d3, d2, d1, d0)
      /\ e = Assembled(0, 0, 0, e4, e3, e2, e1, e0)
  BY <1>1, <1>2
<1>4. (d % 16) * 16 + ((e \div 2) % 16) = Assembled(d3, d2, d1, d0, e4, e3, e2, e1)
  BY <1>3 DEF Base32At, Assembled, Bit
<1>5. /\ Base32Spells(v, s, q, 3, 1, d) /\ Base32Spells(v, s, q, 3, 2, d)
      /\ Base32Spells(v, s, q, 3, 3, d) /\ Base32Spells(v, s, q, 3, 4, d)
  <2>1. d = s[8 * q + 3 + 1] /\ 3 \in 0 .. 7
    BY DEF Base32At
  <2> QED
    BY <2>1, Base32Symbol
<1>6. /\ Base32Spells(v, s, q, 4, 0, e) /\ Base32Spells(v, s, q, 4, 1, e)
      /\ Base32Spells(v, s, q, 4, 2, e) /\ Base32Spells(v, s, q, 4, 3, e)
  <2>1. e = s[8 * q + 4 + 1] /\ 4 \in 0 .. 7
    BY DEF Base32At
  <2> QED
    BY <2>1, Base32Symbol
<1>7. /\ TextBit(v, s, k + 0) = BitOf(d, 3) /\ TextBit(v, s, k + 1) = BitOf(d, 2)
      /\ TextBit(v, s, k + 2) = BitOf(d, 1) /\ TextBit(v, s, k + 3) = BitOf(d, 0)
      /\ TextBit(v, s, k + 4) = BitOf(e, 4) /\ TextBit(v, s, k + 5) = BitOf(e, 3)
      /\ TextBit(v, s, k + 6) = BitOf(e, 2) /\ TextBit(v, s, k + 7) = BitOf(e, 1)
  BY <1>5, <1>6 DEF Base32Spells
<1>8. /\ TextBit(v, s, k + 0) = d3 /\ TextBit(v, s, k + 1) = d2
      /\ TextBit(v, s, k + 2) = d1 /\ TextBit(v, s, k + 3) = d0
      /\ TextBit(v, s, k + 4) = e4 /\ TextBit(v, s, k + 5) = e3
      /\ TextBit(v, s, k + 6) = e2 /\ TextBit(v, s, k + 7) = e1
  BY <1>1, <1>2, <1>7
<1>9. /\ k \in Nat /\ 5 * q + 3 \in Nat
      /\ k = 8 * ((5 * q + 3) - 1)
  OBVIOUS
<1> HIDE DEF k
<1>10. \A n \in 0 .. 7 : TextBit(v, s, k + n) \in Bit
  BY <1>8
<1>11. ByteAt(v, s, 5 * q + 3) = Assembled(d3, d2, d1, d0, e4, e3, e2, e1)
  BY <1>8, <1>9, <1>10, ByteFromBits
<1> QED
  BY <1>4, <1>11

LEMMA Base32Fourth ==
  ASSUME NEW v, v.family = "base32", NEW s, NEW q \in Nat,
         NEW e, NEW f, NEW g,
         Base32At(s, q, 4, e), Base32At(s, q, 5, f), Base32At(s, q, 6, g)
  PROVE  ByteAt(v, s, 5 * q + 4) = (e % 2) * 128 + (f % 32) * 4 + ((g \div 8) % 4)
<1> DEFINE k == 40 * q + 24
<1>1. PICK e4, e3, e2, e1, e0 \in Bit :
        /\ e = Assembled(0, 0, 0, e4, e3, e2, e1, e0)
        /\ e4 = BitOf(e, 4) /\ e3 = BitOf(e, 3) /\ e2 = BitOf(e, 2)
        /\ e1 = BitOf(e, 1) /\ e0 = BitOf(e, 0)
  BY FiveBits DEF Base32At
<1>2. PICK f4, f3, f2, f1, f0 \in Bit :
        /\ f = Assembled(0, 0, 0, f4, f3, f2, f1, f0)
        /\ f4 = BitOf(f, 4) /\ f3 = BitOf(f, 3) /\ f2 = BitOf(f, 2)
        /\ f1 = BitOf(f, 1) /\ f0 = BitOf(f, 0)
  BY FiveBits DEF Base32At
<1>3. PICK g4, g3, g2, g1, g0 \in Bit :
        /\ g = Assembled(0, 0, 0, g4, g3, g2, g1, g0)
        /\ g4 = BitOf(g, 4) /\ g3 = BitOf(g, 3) /\ g2 = BitOf(g, 2)
        /\ g1 = BitOf(g, 1) /\ g0 = BitOf(g, 0)
  BY FiveBits DEF Base32At
<1>4. /\ e = Assembled(0, 0, 0, e4, e3, e2, e1, e0)
      /\ f = Assembled(0, 0, 0, f4, f3, f2, f1, f0)
      /\ g = Assembled(0, 0, 0, g4, g3, g2, g1, g0)
  BY <1>1, <1>2, <1>3
<1>5. (e % 2) * 128 + (f % 32) * 4 + ((g \div 8) % 4) = Assembled(e0, f4, f3, f2, f1, f0, g4, g3)
  BY <1>4 DEF Base32At, Assembled, Bit
<1>6. /\ Base32Spells(v, s, q, 4, 4, e)
  <2>1. e = s[8 * q + 4 + 1] /\ 4 \in 0 .. 7
    BY DEF Base32At
  <2> QED
    BY <2>1, Base32Symbol
<1>7. /\ Base32Spells(v, s, q, 5, 0, f) /\ Base32Spells(v, s, q, 5, 1, f)
      /\ Base32Spells(v, s, q, 5, 2, f) /\ Base32Spells(v, s, q, 5, 3, f)
      /\ Base32Spells(v, s, q, 5, 4, f)
  <2>1. f = s[8 * q + 5 + 1] /\ 5 \in 0 .. 7
    BY DEF Base32At
  <2> QED
    BY <2>1, Base32Symbol
<1>8. /\ Base32Spells(v, s, q, 6, 0, g) /\ Base32Spells(v, s, q, 6, 1, g)
  <2>1. g = s[8 * q + 6 + 1] /\ 6 \in 0 .. 7
    BY DEF Base32At
  <2> QED
    BY <2>1, Base32Symbol
<1>9. /\ TextBit(v, s, k + 0) = BitOf(e, 0) /\ TextBit(v, s, k + 1) = BitOf(f, 4)
      /\ TextBit(v, s, k + 2) = BitOf(f, 3) /\ TextBit(v, s, k + 3) = BitOf(f, 2)
      /\ TextBit(v, s, k + 4) = BitOf(f, 1) /\ TextBit(v, s, k + 5) = BitOf(f, 0)
      /\ TextBit(v, s, k + 6) = BitOf(g, 4) /\ TextBit(v, s, k + 7) = BitOf(g, 3)
  BY <1>6, <1>7, <1>8 DEF Base32Spells
<1>10. /\ TextBit(v, s, k + 0) = e0 /\ TextBit(v, s, k + 1) = f4
      /\ TextBit(v, s, k + 2) = f3 /\ TextBit(v, s, k + 3) = f2
      /\ TextBit(v, s, k + 4) = f1 /\ TextBit(v, s, k + 5) = f0
      /\ TextBit(v, s, k + 6) = g4 /\ TextBit(v, s, k + 7) = g3
  BY <1>1, <1>2, <1>3, <1>9
<1>11. /\ k \in Nat /\ 5 * q + 4 \in Nat
      /\ k = 8 * ((5 * q + 4) - 1)
  OBVIOUS
<1> HIDE DEF k
<1>12. \A n \in 0 .. 7 : TextBit(v, s, k + n) \in Bit
  BY <1>10
<1>13. ByteAt(v, s, 5 * q + 4) = Assembled(e0, f4, f3, f2, f1, f0, g4, g3)
  BY <1>10, <1>11, <1>12, ByteFromBits
<1> QED
  BY <1>5, <1>13

LEMMA Base32Fifth ==
  ASSUME NEW v, v.family = "base32", NEW s, NEW q \in Nat,
         NEW g, NEW h,
         Base32At(s, q, 6, g), Base32At(s, q, 7, h)
  PROVE  ByteAt(v, s, 5 * q + 5) = (g % 8) * 32 + (h % 32)
<1> DEFINE k == 40 * q + 32
<1>1. PICK g4, g3, g2, g1, g0 \in Bit :
        /\ g = Assembled(0, 0, 0, g4, g3, g2, g1, g0)
        /\ g4 = BitOf(g, 4) /\ g3 = BitOf(g, 3) /\ g2 = BitOf(g, 2)
        /\ g1 = BitOf(g, 1) /\ g0 = BitOf(g, 0)
  BY FiveBits DEF Base32At
<1>2. PICK h4, h3, h2, h1, h0 \in Bit :
        /\ h = Assembled(0, 0, 0, h4, h3, h2, h1, h0)
        /\ h4 = BitOf(h, 4) /\ h3 = BitOf(h, 3) /\ h2 = BitOf(h, 2)
        /\ h1 = BitOf(h, 1) /\ h0 = BitOf(h, 0)
  BY FiveBits DEF Base32At
<1>3. /\ g = Assembled(0, 0, 0, g4, g3, g2, g1, g0)
      /\ h = Assembled(0, 0, 0, h4, h3, h2, h1, h0)
  BY <1>1, <1>2
<1>4. (g % 8) * 32 + (h % 32) = Assembled(g2, g1, g0, h4, h3, h2, h1, h0)
  BY <1>3 DEF Base32At, Assembled, Bit
<1>5. /\ Base32Spells(v, s, q, 6, 2, g) /\ Base32Spells(v, s, q, 6, 3, g)
      /\ Base32Spells(v, s, q, 6, 4, g)
  <2>1. g = s[8 * q + 6 + 1] /\ 6 \in 0 .. 7
    BY DEF Base32At
  <2> QED
    BY <2>1, Base32Symbol
<1>6. /\ Base32Spells(v, s, q, 7, 0, h) /\ Base32Spells(v, s, q, 7, 1, h)
      /\ Base32Spells(v, s, q, 7, 2, h) /\ Base32Spells(v, s, q, 7, 3, h)
      /\ Base32Spells(v, s, q, 7, 4, h)
  <2>1. h = s[8 * q + 7 + 1] /\ 7 \in 0 .. 7
    BY DEF Base32At
  <2> QED
    BY <2>1, Base32Symbol
<1>7. /\ TextBit(v, s, k + 0) = BitOf(g, 2) /\ TextBit(v, s, k + 1) = BitOf(g, 1)
      /\ TextBit(v, s, k + 2) = BitOf(g, 0) /\ TextBit(v, s, k + 3) = BitOf(h, 4)
      /\ TextBit(v, s, k + 4) = BitOf(h, 3) /\ TextBit(v, s, k + 5) = BitOf(h, 2)
      /\ TextBit(v, s, k + 6) = BitOf(h, 1) /\ TextBit(v, s, k + 7) = BitOf(h, 0)
  BY <1>5, <1>6 DEF Base32Spells
<1>8. /\ TextBit(v, s, k + 0) = g2 /\ TextBit(v, s, k + 1) = g1
      /\ TextBit(v, s, k + 2) = g0 /\ TextBit(v, s, k + 3) = h4
      /\ TextBit(v, s, k + 4) = h3 /\ TextBit(v, s, k + 5) = h2
      /\ TextBit(v, s, k + 6) = h1 /\ TextBit(v, s, k + 7) = h0
  BY <1>1, <1>2, <1>7
<1>9. /\ k \in Nat /\ 5 * q + 5 \in Nat
      /\ k = 8 * ((5 * q + 5) - 1)
  OBVIOUS
<1> HIDE DEF k
<1>10. \A n \in 0 .. 7 : TextBit(v, s, k + n) \in Bit
  BY <1>8
<1>11. ByteAt(v, s, 5 * q + 5) = Assembled(g2, g1, g0, h4, h3, h2, h1, h0)
  BY <1>8, <1>9, <1>10, ByteFromBits
<1> QED
  BY <1>4, <1>11

LEMMA HexFirst ==
  ASSUME NEW v, v.family = "hex", NEW s, NEW q \in Nat,
         NEW a, NEW b,
         HexAt(s, q, 0, a), HexAt(s, q, 1, b)
  PROVE  ByteAt(v, s, q + 1) = (a * 16 + b) % 256
<1> DEFINE k == 8 * q + 0
<1>1. PICK a3, a2, a1, a0 \in Bit :
        /\ a = Assembled(0, 0, 0, 0, a3, a2, a1, a0)
        /\ a3 = BitOf(a, 3) /\ a2 = BitOf(a, 2) /\ a1 = BitOf(a, 1)
        /\ a0 = BitOf(a, 0)
  BY FourBits DEF HexAt
<1>2. PICK b3, b2, b1, b0 \in Bit :
        /\ b = Assembled(0, 0, 0, 0, b3, b2, b1, b0)
        /\ b3 = BitOf(b, 3) /\ b2 = BitOf(b, 2) /\ b1 = BitOf(b, 1)
        /\ b0 = BitOf(b, 0)
  BY FourBits DEF HexAt
<1>3. /\ a = Assembled(0, 0, 0, 0, a3, a2, a1, a0)
      /\ b = Assembled(0, 0, 0, 0, b3, b2, b1, b0)
  BY <1>1, <1>2
<1>4. (a * 16 + b) % 256 = Assembled(a3, a2, a1, a0, b3, b2, b1, b0)
  BY <1>3 DEF HexAt, Assembled, Bit
<1>5. /\ HexSpells(v, s, q, 0, 0, a) /\ HexSpells(v, s, q, 0, 1, a)
      /\ HexSpells(v, s, q, 0, 2, a) /\ HexSpells(v, s, q, 0, 3, a)
  <2>1. a = s[2 * q + 0 + 1] /\ 0 \in 0 .. 1
    BY DEF HexAt
  <2> QED
    BY <2>1, HexSymbol
<1>6. /\ HexSpells(v, s, q, 1, 0, b) /\ HexSpells(v, s, q, 1, 1, b)
      /\ HexSpells(v, s, q, 1, 2, b) /\ HexSpells(v, s, q, 1, 3, b)
  <2>1. b = s[2 * q + 1 + 1] /\ 1 \in 0 .. 1
    BY DEF HexAt
  <2> QED
    BY <2>1, HexSymbol
<1>7. /\ TextBit(v, s, k + 0) = BitOf(a, 3) /\ TextBit(v, s, k + 1) = BitOf(a, 2)
      /\ TextBit(v, s, k + 2) = BitOf(a, 1) /\ TextBit(v, s, k + 3) = BitOf(a, 0)
      /\ TextBit(v, s, k + 4) = BitOf(b, 3) /\ TextBit(v, s, k + 5) = BitOf(b, 2)
      /\ TextBit(v, s, k + 6) = BitOf(b, 1) /\ TextBit(v, s, k + 7) = BitOf(b, 0)
  BY <1>5, <1>6 DEF HexSpells
<1>8. /\ TextBit(v, s, k + 0) = a3 /\ TextBit(v, s, k + 1) = a2
      /\ TextBit(v, s, k + 2) = a1 /\ TextBit(v, s, k + 3) = a0
      /\ TextBit(v, s, k + 4) = b3 /\ TextBit(v, s, k + 5) = b2
      /\ TextBit(v, s, k + 6) = b1 /\ TextBit(v, s, k + 7) = b0
  BY <1>1, <1>2, <1>7
<1>9. /\ k \in Nat /\ q + 1 \in Nat
      /\ k = 8 * ((q + 1) - 1)
  OBVIOUS
<1> HIDE DEF k
<1>10. \A n \in 0 .. 7 : TextBit(v, s, k + n) \in Bit
  BY <1>8
<1>11. ByteAt(v, s, q + 1) = Assembled(a3, a2, a1, a0, b3, b2, b1, b0)
  BY <1>8, <1>9, <1>10, ByteFromBits
<1> QED
  BY <1>4, <1>11

-----------------------------------------------------------------------------
(* What decode_block and decode_tail compute.                              *)

LEMMA Families ==
  ASSUME NEW v \in Variants
  PROVE  \/ /\ v.family = "base64" /\ binary_block_size(v) = 3
            /\ encoded_block_size(v) = 4 /\ alphabet_size(v) = 64
            /\ BitsPerSymbol(v) = 6 /\ tail_lengths(v) = {2, 3}
         \/ /\ v.family = "base32" /\ binary_block_size(v) = 5
            /\ encoded_block_size(v) = 8 /\ alphabet_size(v) = 32
            /\ BitsPerSymbol(v) = 5 /\ tail_lengths(v) = {2, 4, 5, 7}
         \/ /\ v.family = "hex" /\ binary_block_size(v) = 1
            /\ encoded_block_size(v) = 2 /\ alphabet_size(v) = 16
            /\ BitsPerSymbol(v) = 4 /\ tail_lengths(v) = {}
<1>1. v.family \in {"base64", "base32", "hex"}
  BY DEF Variants, Variant, base64_rfc4648, base64_url, base64_url_unpadded,
         base32_rfc4648, base32_hex, base32_crockford, hex_lower, hex_upper
<1>2. CASE v.family = "base64"
  BY <1>2 DEF binary_block_size, encoded_block_size, alphabet_size, BitsPerSymbol,
              tail_lengths
<1>3. CASE v.family = "base32"
  BY <1>3 DEF binary_block_size, encoded_block_size, alphabet_size, BitsPerSymbol,
              tail_lengths
<1>4. CASE v.family = "hex"
  BY <1>4 DEF binary_block_size, encoded_block_size, alphabet_size, BitsPerSymbol,
              tail_lengths
<1> QED
  BY <1>1, <1>2, <1>3, <1>4

(* The first n slots hold symbols of block q of s. *)
Holds(v, s, q, idx, n) ==
  \A i \in 0 .. n - 1 :
    /\ idx[i] = s[encoded_block_size(v) * q + i + 1]
    /\ idx[i] \in 0 .. alphabet_size(v) - 1

LEMMA Base64Held ==
  ASSUME NEW v \in Variants, v.family = "base64", NEW s, NEW q \in Nat, NEW idx,
         NEW n \in 2 .. 4, Holds(v, s, q, idx, n)
  PROVE  /\ ByteAt(v, s, 3 * q + 1) = (idx[0] * 4 + idx[1] \div 16) % 256
         /\ ByteAt(v, s, 3 * q + 1) = (idx[0] * 4 + ((idx[1] \div 16) % 4)) % 256
         /\ n >= 3 =>
              /\ ByteAt(v, s, 3 * q + 2) = (idx[1] * 16 + idx[2] \div 4) % 256
              /\ ByteAt(v, s, 3 * q + 2) = (idx[1] % 16) * 16 + ((idx[2] \div 4) % 16)
         /\ n >= 4 => ByteAt(v, s, 3 * q + 3) = (idx[2] * 64 + idx[3]) % 256
<1> DEFINE a == idx[0]
           b == idx[1]
           c == idx[2]
           d == idx[3]
<1>1. \A i \in 0 .. n - 1 : Base64At(s, q, i, idx[i])
  BY Families DEF Holds, Base64At
<1>2. /\ Base64At(s, q, 0, a) /\ Base64At(s, q, 1, b)
      /\ n >= 3 => Base64At(s, q, 2, c)
      /\ n >= 4 => Base64At(s, q, 3, d)
  BY <1>1
<1> HIDE DEF a, b, c, d
<1>3. /\ ByteAt(v, s, 3 * q + 1) = (a * 4 + b \div 16) % 256
      /\ ByteAt(v, s, 3 * q + 1) = (a * 4 + ((b \div 16) % 4)) % 256
  BY <1>2, Base64First
<1>4. ASSUME n >= 3
      PROVE  /\ ByteAt(v, s, 3 * q + 2) = (b * 16 + c \div 4) % 256
             /\ ByteAt(v, s, 3 * q + 2) = (b % 16) * 16 + ((c \div 4) % 16)
  BY <1>2, <1>4, Base64Second
<1>5. ASSUME n >= 4
      PROVE  ByteAt(v, s, 3 * q + 3) = (c * 64 + d) % 256
  <2>1. n >= 3
    BY <1>5
  <2> QED
    BY <1>2, <1>5, <2>1, Base64Third
<1> QED
  BY <1>3, <1>4, <1>5 DEF a, b, c, d

LEMMA Base32Held ==
  ASSUME NEW v \in Variants, v.family = "base32", NEW s, NEW q \in Nat, NEW idx,
         NEW n \in 2 .. 8, Holds(v, s, q, idx, n)
  PROVE  /\ ByteAt(v, s, 5 * q + 1) = base32_byte(idx, 1)
         /\ n >= 4 => ByteAt(v, s, 5 * q + 2) = base32_byte(idx, 2)
         /\ n >= 5 => ByteAt(v, s, 5 * q + 3) = base32_byte(idx, 3)
         /\ n >= 7 => ByteAt(v, s, 5 * q + 4) = base32_byte(idx, 4)
         /\ n >= 8 => ByteAt(v, s, 5 * q + 5) = base32_byte(idx, 5)
<1> DEFINE a == idx[0]
           b == idx[1]
           c == idx[2]
           d == idx[3]
           e == idx[4]
           f == idx[5]
           g == idx[6]
           h == idx[7]
<1>1. \A i \in 0 .. n - 1 : Base32At(s, q, i, idx[i])
  BY Families DEF Holds, Base32At
<1>2. /\ Base32At(s, q, 0, a) /\ Base32At(s, q, 1, b)
      /\ n >= 4 => Base32At(s, q, 2, c) /\ Base32At(s, q, 3, d)
      /\ n >= 5 => Base32At(s, q, 4, e)
      /\ n >= 7 => Base32At(s, q, 5, f) /\ Base32At(s, q, 6, g)
      /\ n >= 8 => Base32At(s, q, 7, h)
  BY <1>1
<1>3. ByteAt(v, s, 5 * q + 1) = base32_byte(idx, 1)
  <2> HIDE DEF a, b
  <2>1. ByteAt(v, s, 5 * q + 1) = (a % 32) * 8 + ((b \div 4) % 8)
    BY <1>2, Base32First
  <2> QED
    BY <2>1 DEF base32_byte, a, b
<1>4. ASSUME n >= 4 PROVE ByteAt(v, s, 5 * q + 2) = base32_byte(idx, 2)
  <2> HIDE DEF b, c, d
  <2>1. ByteAt(v, s, 5 * q + 2) = (b % 4) * 64 + (c % 32) * 2 + ((d \div 16) % 2)
    BY <1>2, <1>4, Base32Second
  <2> QED
    BY <2>1 DEF base32_byte, b, c, d
<1>5. ASSUME n >= 5 PROVE ByteAt(v, s, 5 * q + 3) = base32_byte(idx, 3)
  <2> HIDE DEF d, e
  <2>1. Base32At(s, q, 3, d) /\ Base32At(s, q, 4, e)
    BY <1>2, <1>5
  <2>2. ByteAt(v, s, 5 * q + 3) = (d % 16) * 16 + ((e \div 2) % 16)
    BY <2>1, Base32Third
  <2> QED
    BY <2>2 DEF base32_byte, d, e
<1>6. ASSUME n >= 7 PROVE ByteAt(v, s, 5 * q + 4) = base32_byte(idx, 4)
  <2> HIDE DEF e, f, g
  <2>1. Base32At(s, q, 4, e) /\ Base32At(s, q, 5, f) /\ Base32At(s, q, 6, g)
    BY <1>2, <1>6
  <2>2. ByteAt(v, s, 5 * q + 4) = (e % 2) * 128 + (f % 32) * 4 + ((g \div 8) % 4)
    BY <2>1, Base32Fourth
  <2> QED
    BY <2>2 DEF base32_byte, e, f, g
<1>7. ASSUME n >= 8 PROVE ByteAt(v, s, 5 * q + 5) = base32_byte(idx, 5)
  <2> HIDE DEF g, h
  <2>1. Base32At(s, q, 6, g) /\ Base32At(s, q, 7, h)
    BY <1>2, <1>7
  <2>2. ByteAt(v, s, 5 * q + 5) = (g % 8) * 32 + (h % 32)
    BY <2>1, Base32Fifth
  <2> QED
    BY <2>2 DEF base32_byte, g, h
<1> HIDE DEF a, b, c, d, e, f, g, h
<1> QED
  BY <1>3, <1>4, <1>5, <1>6, <1>7

LEMMA HexHeld ==
  ASSUME NEW v \in Variants, v.family = "hex", NEW s, NEW q \in Nat, NEW idx,
         Holds(v, s, q, idx, 2)
  PROVE  ByteAt(v, s, q + 1) = (idx[0] * 16 + idx[1]) % 256
<1> DEFINE a == idx[0]
           b == idx[1]
<1>1. \A i \in 0 .. 1 : HexAt(s, q, i, idx[i])
  BY Families DEF Holds, HexAt
<1>2. HexAt(s, q, 0, a) /\ HexAt(s, q, 1, b)
  BY <1>1
<1> HIDE DEF a, b
<1>3. ByteAt(v, s, q + 1) = (a * 16 + b) % 256
  BY <1>2, HexFirst
<1> QED
  BY <1>3 DEF a, b

(* A full block decodes to its bytes. *)
LEMMA BlockMeaning ==
  ASSUME NEW v \in Variants, NEW s, NEW q \in Nat, NEW idx,
         Holds(v, s, q, idx, encoded_block_size(v))
  PROVE  /\ Len(decode_block(v, idx)) = binary_block_size(v)
         /\ \A r \in 1 .. binary_block_size(v) :
              decode_block(v, idx)[r] = ByteAt(v, s, binary_block_size(v) * q + r)
<1>1. CASE v.family = "base64"
  <2>1. binary_block_size(v) = 3 /\ encoded_block_size(v) = 4
    BY <1>1, Families
  <2>2. /\ ByteAt(v, s, 3 * q + 1) = (idx[0] * 4 + idx[1] \div 16) % 256
        /\ ByteAt(v, s, 3 * q + 2) = (idx[1] * 16 + idx[2] \div 4) % 256
        /\ ByteAt(v, s, 3 * q + 3) = (idx[2] * 64 + idx[3]) % 256
    BY <1>1, <2>1, Base64Held
  <2>3. decode_block(v, idx) = << ByteAt(v, s, 3 * q + 1), ByteAt(v, s, 3 * q + 2),
                                  ByteAt(v, s, 3 * q + 3) >>
    BY <1>1, <2>2 DEF decode_block, base64_decode_block
  <2> QED
    BY <2>1, <2>3
<1>2. CASE v.family = "base32"
  <2>1. binary_block_size(v) = 5 /\ encoded_block_size(v) = 8
    BY <1>2, Families
  <2>2. \A r \in 1 .. 5 : base32_byte(idx, r) = ByteAt(v, s, 5 * q + r)
    BY <1>2, <2>1, Base32Held
  <2>3. decode_block(v, idx) = [i \in 1 .. 5 |-> base32_byte(idx, i)]
    BY <1>2 DEF decode_block, base32_decode_block
  <2> QED
    BY <2>1, <2>2, <2>3
<1>3. CASE v.family = "hex"
  <2>1. binary_block_size(v) = 1 /\ encoded_block_size(v) = 2
    BY <1>3, Families
  <2>2. ByteAt(v, s, q + 1) = (idx[0] * 16 + idx[1]) % 256
    BY <1>3, <2>1, HexHeld
  <2>3. decode_block(v, idx) = << ByteAt(v, s, q + 1) >>
    BY <1>3, <2>2 DEF decode_block, hex_decode_block
  <2> QED
    BY <2>1, <2>3
<1> QED
  BY <1>1, <1>2, <1>3, Families

(* A tail decodes to the whole bytes in it. *)
LEMMA TailMeaning ==
  ASSUME NEW v \in Variants, NEW s, NEW q \in Nat, NEW idx,
         NEW n \in tail_lengths(v), Holds(v, s, q, idx, n)
  PROVE  /\ Len(decode_tail(v, idx, n)) = ByteCount(v, n)
         /\ \A r \in 1 .. ByteCount(v, n) :
              decode_tail(v, idx, n)[r] = ByteAt(v, s, binary_block_size(v) * q + r)
<1>1. CASE v.family = "base64"
  <2>1. binary_block_size(v) = 3 /\ n \in {2, 3} /\ BitsPerSymbol(v) = 6
    BY <1>1, Families
  <2>2. ByteCount(v, n) = n - 1
    BY <2>1 DEF ByteCount
  <2>3. /\ ByteAt(v, s, 3 * q + 1) = (idx[0] * 4 + ((idx[1] \div 16) % 4)) % 256
        /\ n = 3 => ByteAt(v, s, 3 * q + 2)
                      = (idx[1] % 16) * 16 + ((idx[2] \div 4) % 16)
    BY <1>1, <2>1, Base64Held
  <2>4. CASE n = 2
    <3>1. decode_tail(v, idx, n) = << ByteAt(v, s, 3 * q + 1) >>
      BY <1>1, <2>3, <2>4 DEF decode_tail, base64_decode_tail
    <3> QED
      BY <2>1, <2>2, <2>4, <3>1
  <2>5. CASE n = 3
    <3>1. decode_tail(v, idx, n) = << ByteAt(v, s, 3 * q + 1), ByteAt(v, s, 3 * q + 2) >>
      BY <1>1, <2>3, <2>5 DEF decode_tail, base64_decode_tail
    <3> QED
      BY <2>1, <2>2, <2>5, <3>1
  <2> QED
    BY <2>1, <2>4, <2>5
<1>2. CASE v.family = "base32"
  <2>1. binary_block_size(v) = 5 /\ n \in {2, 4, 5, 7} /\ BitsPerSymbol(v) = 5
    BY <1>2, Families
  <2> DEFINE m == CASE n = 2 -> 1 [] n = 4 -> 2 [] n = 5 -> 3 [] n = 7 -> 4
  <2>2. ByteCount(v, n) = m /\ m \in 1 .. 4
    BY <2>1 DEF ByteCount
  <2>3. \A r \in 1 .. m : base32_byte(idx, r) = ByteAt(v, s, 5 * q + r)
    BY <1>2, <2>1, Base32Held
  <2>4. decode_tail(v, idx, n) = [i \in 1 .. m |-> base32_byte(idx, i)]
    BY <1>2 DEF decode_tail, base32_decode_tail
  <2> HIDE DEF m
  <2> QED
    BY <2>1, <2>2, <2>3, <2>4
<1>3. CASE v.family = "hex"
  BY <1>3, Families
<1> QED
  BY <1>1, <1>2, <1>3, Families

-----------------------------------------------------------------------------
(* How many bytes symbols make, and which symbols each byte is made of.    *)

LEMMA Counts ==
  ASSUME NEW v \in Variants, NEW q \in Nat, NEW m \in 0 .. encoded_block_size(v) - 1
  PROVE  /\ ByteCount(v, encoded_block_size(v) * q + m)
              = binary_block_size(v) * q + ByteCount(v, m)
         /\ ByteCount(v, 0) = 0
         /\ (encoded_block_size(v) * q + m) % encoded_block_size(v) = m
<1>1. CASE v.family = "base64"
  BY <1>1, Families DEF ByteCount
<1>2. CASE v.family = "base32"
  <2>1. binary_block_size(v) = 5 /\ encoded_block_size(v) = 8 /\ BitsPerSymbol(v) = 5
    BY <1>2, Families
  <2>2. ((8 * q + m) * 5) \div 8 = 5 * q + (m * 5) \div 8
    <3>1. (8 * q + m) * 5 = 8 * (5 * q) + m * 5 /\ m * 5 \in Nat /\ 5 * q \in Nat
      BY <2>1
    <3> DEFINE x == m * 5
               y == 5 * q
    <3> HIDE DEF x, y
    <3>2. x \in Nat /\ y \in Nat => (8 * y + x) \div 8 = y + x \div 8
      OBVIOUS
    <3> QED
      BY <3>1, <3>2 DEF x, y
  <2> QED
    BY <2>1, <2>2 DEF ByteCount
<1>3. CASE v.family = "hex"
  <2>1. binary_block_size(v) = 1 /\ encoded_block_size(v) = 2 /\ BitsPerSymbol(v) = 4
    BY <1>3, Families
  <2>2. ((2 * q + m) * 4) \div 8 = 1 * q + (m * 4) \div 8
    BY <2>1
  <2> QED
    BY <2>1, <2>2 DEF ByteCount
<1> QED
  BY <1>1, <1>2, <1>3, Families

(* A byte is made of the symbols that it takes to have that many bytes.    *)
LEMMA ByteAtExtends ==
  ASSUME NEW v \in Variants, NEW s, NEW r, NEW n \in Nat,
         \A j \in 1 .. n : s[j] = r[j],
         NEW i \in 1 .. ByteCount(v, n)
  PROVE  ByteAt(v, s, i) = ByteAt(v, r, i)
<1> DEFINE bits == BitsPerSymbol(v)
           k == 8 * (i - 1)
<1>1. bits \in {4, 5, 6}
  BY Families
<1>2. ByteCount(v, n) = (n * bits) \div 8
  BY DEF ByteCount
<1> HIDE DEF bits
<1>3. i \in Nat /\ 1 <= i /\ 8 * i <= n * bits
  BY <1>1, <1>2
<1>4. ASSUME NEW m \in 0 .. 7 PROVE TextBit(v, s, k + m) = TextBit(v, r, k + m)
  <2>1. k + m \in Nat /\ k + m < n * bits
    BY <1>1, <1>3
  <2> HIDE DEF k
  <2>2. (k + m) \div bits + 1 \in 1 .. n
    BY <1>1, <2>1
  <2> QED
    BY <2>2 DEF TextBit, bits
<1>5. /\ TextBit(v, s, k + 0) = TextBit(v, r, k + 0)
      /\ TextBit(v, s, k + 1) = TextBit(v, r, k + 1)
      /\ TextBit(v, s, k + 2) = TextBit(v, r, k + 2)
      /\ TextBit(v, s, k + 3) = TextBit(v, r, k + 3)
      /\ TextBit(v, s, k + 4) = TextBit(v, r, k + 4)
      /\ TextBit(v, s, k + 5) = TextBit(v, r, k + 5)
      /\ TextBit(v, s, k + 6) = TextBit(v, r, k + 6)
      /\ TextBit(v, s, k + 7) = TextBit(v, r, k + 7)
  <2> DEFINE Same(m) == TextBit(v, s, k + m) = TextBit(v, r, k + m)
  <2>1. \A m \in 0 .. 7 : Same(m)
    BY <1>4
  <2> HIDE DEF Same
  <2>2. Same(0) /\ Same(1) /\ Same(2) /\ Same(3) /\ Same(4) /\ Same(5) /\ Same(6)
        /\ Same(7)
    BY <2>1
  <2> QED
    BY <2>2 DEF Same
<1> QED
  BY <1>5 DEF ByteAt

-----------------------------------------------------------------------------
(* What encode writes is decoded to what it was made of.                   *)

(* A block of n bytes. *)
Bytes(b, n) == \A i \in 0 .. n - 1 : b[i] \in Byte

(* A byte cut in parts. *)
LEMMA Parts ==
  ASSUME NEW x \in Byte
  PROVE  /\ x \div 4 \in 0 .. 63 /\ x % 4 \in 0 .. 3 /\ x = (x \div 4) * 4 + (x % 4)
         /\ x \div 8 \in 0 .. 31 /\ x % 8 \in 0 .. 7 /\ x = (x \div 8) * 8 + (x % 8)
         /\ x \div 16 \in 0 .. 15 /\ x % 16 \in 0 .. 15
         /\ x = (x \div 16) * 16 + (x % 16)
         /\ x \div 32 \in 0 .. 7 /\ x % 32 \in 0 .. 31 /\ x = (x \div 32) * 32 + (x % 32)
         /\ x \div 64 \in 0 .. 3 /\ x % 64 \in 0 .. 63 /\ x = (x \div 64) * 64 + (x % 64)
<1>1. x \div 4 \in 0 .. 63 /\ x % 4 \in 0 .. 3 /\ x = (x \div 4) * 4 + (x % 4)
  BY DEF Byte
<1>2. x \div 8 \in 0 .. 31 /\ x % 8 \in 0 .. 7 /\ x = (x \div 8) * 8 + (x % 8)
  BY DEF Byte
<1>3. x \div 16 \in 0 .. 15 /\ x % 16 \in 0 .. 15 /\ x = (x \div 16) * 16 + (x % 16)
  BY DEF Byte
<1>4. x \div 32 \in 0 .. 7 /\ x % 32 \in 0 .. 31 /\ x = (x \div 32) * 32 + (x % 32)
  BY DEF Byte
<1>5. x \div 64 \in 0 .. 3 /\ x % 64 \in 0 .. 63 /\ x = (x \div 64) * 64 + (x % 64)
  BY DEF Byte
<1> QED
  BY <1>1, <1>2, <1>3, <1>4, <1>5

LEMMA ThreeParts ==
  ASSUME NEW x \in Byte
  PROVE  /\ x \div 64 \in 0 .. 3 /\ (x \div 2) % 32 \in 0 .. 31 /\ x % 2 \in 0 .. 1
         /\ x = (x \div 64) * 64 + ((x \div 2) % 32) * 2 + (x % 2)
         /\ x \div 128 \in 0 .. 1 /\ (x \div 4) % 32 \in 0 .. 31 /\ x % 4 \in 0 .. 3
         /\ x = (x \div 128) * 128 + ((x \div 4) % 32) * 4 + (x % 4)
<1>1. x \div 64 \in 0 .. 3 /\ (x \div 2) % 32 \in 0 .. 31 /\ x % 2 \in 0 .. 1
  BY DEF Byte
<1>2. x = (x \div 64) * 64 + ((x \div 2) % 32) * 2 + (x % 2)
  BY DEF Byte
<1>3. x \div 128 \in 0 .. 1 /\ (x \div 4) % 32 \in 0 .. 31 /\ x % 4 \in 0 .. 3
  BY DEF Byte
<1>4. x = (x \div 128) * 128 + ((x \div 4) % 32) * 4 + (x % 4)
  BY DEF Byte
<1> QED
  BY <1>1, <1>2, <1>3, <1>4

LEMMA Base64Spelled ==
  ASSUME NEW v \in Variants, v.family = "base64", NEW s, NEW q \in Nat, NEW b,
         NEW n \in 1 .. 3, Bytes(b, n), NEW w, NEW x, NEW y, NEW z,
         w = base64_index(0, b),
         x = IF n = 1 THEN base64_index_last(1, b) ELSE base64_index(1, b),
         y = IF n = 2 THEN base64_index_last(2, b) ELSE base64_index(2, b),
         z = base64_index(3, b),
         s[4 * q + 1] = w, s[4 * q + 2] = x,
         n >= 2 => s[4 * q + 3] = y, n >= 3 => s[4 * q + 4] = z
  PROVE  /\ w \in 0 .. 63 /\ x \in 0 .. 63
         /\ n >= 2 => y \in 0 .. 63
         /\ n >= 3 => z \in 0 .. 63
         /\ ByteAt(v, s, 3 * q + 1) = b[0]
         /\ n >= 2 => ByteAt(v, s, 3 * q + 2) = b[1]
         /\ n >= 3 => ByteAt(v, s, 3 * q + 3) = b[2]
<1> DEFINE p1 == IF n = 1 THEN 0 ELSE b[1] \div 16
           p2 == IF n = 2 THEN 0 ELSE b[2] \div 64
           r0 == b[0] % 4
           r1 == b[1] % 16
           r2 == b[2] % 64
<1>1. b[0] \in Byte /\ (n >= 2 => b[1] \in Byte) /\ (n >= 3 => b[2] \in Byte)
  BY DEF Bytes
<1>2. /\ w \in 0 .. 63 /\ r0 \in 0 .. 3 /\ b[0] = w * 4 + r0
  BY <1>1, Parts DEF base64_index
<1>3. x = r0 * 16 + p1 /\ p1 \in 0 .. 15
  <2>1. CASE n = 1
    BY <1>2, <2>1 DEF base64_index_last
  <2>2. CASE n # 1
    BY <1>1, <2>2, Parts DEF base64_index
  <2> QED
    BY <2>1, <2>2
<1>4. n >= 2 => r1 \in 0 .. 15 /\ b[1] = p1 * 16 + r1
  BY <1>1, Parts
<1>5. n >= 2 => y = r1 * 4 + p2 /\ p2 \in 0 .. 3
  <2>1. CASE n = 2
    BY <1>4, <2>1 DEF base64_index_last
  <2>2. CASE n = 3
    BY <1>1, <2>2, Parts DEF base64_index
  <2> QED
    BY <2>1, <2>2
<1>6. n >= 3 => z = r2 /\ r2 \in 0 .. 63 /\ b[2] = p2 * 64 + r2
  BY <1>1, Parts DEF base64_index
<1> HIDE DEF p1, p2, r0, r1, r2
<1>7. Base64At(s, q, 0, w) /\ Base64At(s, q, 1, x) /\ x \in 0 .. 63
  <2>1. r0 * 16 + p1 \in 0 .. 63
    BY <1>2, <1>3
  <2>2. 4 * q + 0 + 1 = 4 * q + 1 /\ 4 * q + 1 + 1 = 4 * q + 2
    OBVIOUS
  <2> QED
    BY <1>2, <1>3, <2>1, <2>2 DEF Base64At
<1>8. ByteAt(v, s, 3 * q + 1) = b[0]
  <2>1. ByteAt(v, s, 3 * q + 1) = (w * 4 + x \div 16) % 256
    BY <1>7, Base64First
  <2>2. (w * 4 + (r0 * 16 + p1) \div 16) % 256 = w * 4 + r0
    BY <1>2, <1>3
  <2> QED
    BY <1>2, <1>3, <2>1, <2>2
<1>9. ASSUME n >= 2
      PROVE  /\ Base64At(s, q, 2, y) /\ y \in 0 .. 63
             /\ ByteAt(v, s, 3 * q + 2) = b[1]
  <2>1. Base64At(s, q, 2, y) /\ y \in 0 .. 63
    BY <1>4, <1>5, <1>9 DEF Base64At
  <2>2. ByteAt(v, s, 3 * q + 2) = (x * 16 + y \div 4) % 256
    BY <1>7, <2>1, Base64Second
  <2>3. r0 \in 0 .. 3 /\ p1 \in 0 .. 15 /\ r1 \in 0 .. 15 /\ p2 \in 0 .. 3
    BY <1>2, <1>3, <1>4, <1>5, <1>9
  <2>4. ((r0 * 16 + p1) * 16 + (r1 * 4 + p2) \div 4) % 256 = p1 * 16 + r1
    BY <2>3
  <2> QED
    BY <1>3, <1>4, <1>5, <1>9, <2>1, <2>2, <2>4
<1>10. ASSUME n >= 3
       PROVE  z \in 0 .. 63 /\ ByteAt(v, s, 3 * q + 3) = b[2]
  <2>1. n >= 2
    BY <1>10
  <2>2. Base64At(s, q, 3, z) /\ z \in 0 .. 63
    BY <1>6, <1>10 DEF Base64At
  <2>3. ByteAt(v, s, 3 * q + 3) = (y * 64 + z) % 256
    BY <1>9, <2>1, <2>2, Base64Third
  <2>4. (y * 64 + z) % 256 = p2 * 64 + r2
    BY <1>4, <1>5, <1>6, <1>10, <2>1
  <2> QED
    BY <1>6, <1>10, <2>2, <2>3, <2>4
<1> QED
  BY <1>2, <1>7, <1>8, <1>9, <1>10

LEMMA HexSpelled ==
  ASSUME NEW v \in Variants, v.family = "hex", NEW s, NEW q \in Nat, NEW b,
         Bytes(b, 1), NEW w, NEW x, w = hex_index(0, b), x = hex_index(1, b),
         s[2 * q + 1] = w, s[2 * q + 2] = x
  PROVE  w \in 0 .. 15 /\ x \in 0 .. 15 /\ ByteAt(v, s, q + 1) = b[0]
<1>1. b[0] \in Byte
  BY DEF Bytes
<1>2. w \in 0 .. 15 /\ x \in 0 .. 15 /\ b[0] = w * 16 + x
  BY <1>1, Parts DEF hex_index
<1>3. HexAt(s, q, 0, w) /\ HexAt(s, q, 1, x)
  BY <1>2 DEF HexAt
<1>4. ByteAt(v, s, q + 1) = (w * 16 + x) % 256
  BY <1>3, HexFirst
<1>5. (w * 16 + x) % 256 = w * 16 + x
  BY <1>2
<1> QED
  BY <1>2, <1>4, <1>5

LEMMA Base32Spelled ==
  ASSUME NEW v \in Variants, v.family = "base32", NEW s, NEW q \in Nat, NEW b,
         NEW n \in 1 .. 5, Bytes(b, n),
         NEW x0, NEW x1, NEW x2, NEW x3, NEW x4, NEW x5, NEW x6, NEW x7,
         x0 = base32_index(0, b),
         x1 = IF n = 1 THEN base32_index_last(1, b) ELSE base32_index(1, b),
         x2 = base32_index(2, b),
         x3 = IF n = 2 THEN base32_index_last(3, b) ELSE base32_index(3, b),
         x4 = IF n = 3 THEN base32_index_last(4, b) ELSE base32_index(4, b),
         x5 = base32_index(5, b),
         x6 = IF n = 4 THEN base32_index_last(6, b) ELSE base32_index(6, b),
         x7 = base32_index(7, b),
         s[8 * q + 1] = x0, s[8 * q + 2] = x1,
         n >= 2 => s[8 * q + 3] = x2 /\ s[8 * q + 4] = x3,
         n >= 3 => s[8 * q + 5] = x4,
         n >= 4 => s[8 * q + 6] = x5 /\ s[8 * q + 7] = x6,
         n >= 5 => s[8 * q + 8] = x7
  PROVE  /\ x0 \in 0 .. 31 /\ x1 \in 0 .. 31
         /\ ByteAt(v, s, 5 * q + 1) = b[0]
         /\ n >= 2 => /\ x2 \in 0 .. 31 /\ x3 \in 0 .. 31
                      /\ ByteAt(v, s, 5 * q + 2) = b[1]
         /\ n >= 3 => x4 \in 0 .. 31 /\ ByteAt(v, s, 5 * q + 3) = b[2]
         /\ n >= 4 => /\ x5 \in 0 .. 31 /\ x6 \in 0 .. 31
                      /\ ByteAt(v, s, 5 * q + 4) = b[3]
         /\ n >= 5 => x7 \in 0 .. 31 /\ ByteAt(v, s, 5 * q + 5) = b[4]
<1> DEFINE p1 == IF n = 1 THEN 0 ELSE b[1] \div 64
           p2 == IF n = 2 THEN 0 ELSE b[2] \div 16
           p3 == IF n = 3 THEN 0 ELSE b[3] \div 128
           p4 == IF n = 4 THEN 0 ELSE b[4] \div 32
           r0 == b[0] % 8
           r1 == b[1] % 2
           r2 == b[2] % 16
           r3 == b[3] % 4
<1>1. /\ b[0] \in Byte /\ (n >= 2 => b[1] \in Byte) /\ (n >= 3 => b[2] \in Byte)
      /\ (n >= 4 => b[3] \in Byte) /\ (n >= 5 => b[4] \in Byte)
  BY DEF Bytes
<1>2. x0 \in 0 .. 31 /\ r0 \in 0 .. 7 /\ b[0] = x0 * 8 + r0
  BY <1>1, Parts DEF base32_index
<1>3. x1 = r0 * 4 + p1 /\ p1 \in 0 .. 3
  <2>1. CASE n = 1
    BY <1>2, <2>1 DEF base32_index_last
  <2>2. CASE n # 1
    BY <1>1, <2>2, Parts DEF base32_index
  <2> QED
    BY <2>1, <2>2
<1>4. n >= 2 => x2 \in 0 .. 31 /\ r1 \in 0 .. 1 /\ b[1] = p1 * 64 + x2 * 2 + r1
  BY <1>1, ThreeParts DEF base32_index
<1>5. n >= 2 => x3 = r1 * 16 + p2 /\ p2 \in 0 .. 15
  <2>1. CASE n = 2
    BY <1>4, <2>1 DEF base32_index_last
  <2>2. CASE n > 2
    BY <1>1, <2>2, Parts DEF base32_index
  <2> QED
    BY <2>1, <2>2
<1>6. n >= 3 => r2 \in 0 .. 15 /\ b[2] = p2 * 16 + r2
  BY <1>1, Parts
<1>7. n >= 3 => x4 = r2 * 2 + p3 /\ p3 \in 0 .. 1
  <2>1. CASE n = 3
    BY <1>6, <2>1 DEF base32_index_last
  <2>2. CASE n > 3
    BY <1>1, <2>2, ThreeParts DEF base32_index
  <2> QED
    BY <2>1, <2>2
<1>8. n >= 4 => x5 \in 0 .. 31 /\ r3 \in 0 .. 3 /\ b[3] = p3 * 128 + x5 * 4 + r3
  BY <1>1, ThreeParts DEF base32_index
<1>9. n >= 4 => x6 = r3 * 8 + p4 /\ p4 \in 0 .. 7
  <2>1. CASE n = 4
    BY <1>8, <2>1 DEF base32_index_last
  <2>2. CASE n > 4
    BY <1>1, <2>2, Parts DEF base32_index
  <2> QED
    BY <2>1, <2>2
<1>10. n >= 5 => x7 \in 0 .. 31 /\ b[4] = p4 * 32 + x7
  BY <1>1, Parts DEF base32_index
<1> HIDE DEF p1, p2, p3, p4, r0, r1, r2, r3
<1>11. /\ Base32At(s, q, 0, x0) /\ Base32At(s, q, 1, x1)
       /\ x1 \in 0 .. 31 /\ ByteAt(v, s, 5 * q + 1) = b[0]
  <2>1. r0 * 4 + p1 \in 0 .. 31
    BY <1>2, <1>3
  <2>2. 8 * q + 0 + 1 = 8 * q + 1 /\ 8 * q + 1 + 1 = 8 * q + 2
    OBVIOUS
  <2>3. Base32At(s, q, 0, x0) /\ Base32At(s, q, 1, x1)
    BY <1>2, <1>3, <2>1, <2>2 DEF Base32At
  <2>4. ByteAt(v, s, 5 * q + 1) = (x0 % 32) * 8 + ((x1 \div 4) % 8)
    BY <2>3, Base32First
  <2>5. (x0 % 32) * 8 + (((r0 * 4 + p1) \div 4) % 8) = x0 * 8 + r0
    <3>1. x0 \in 0 .. 31 /\ r0 \in 0 .. 7 /\ p1 \in 0 .. 3
      BY <1>2, <1>3
    <3>2. (r0 * 4 + p1) \div 4 = r0
      BY <3>1
    <3>3. r0 % 8 = r0 /\ x0 % 32 = x0
      BY <3>1
    <3> QED
      BY <3>1, <3>2, <3>3
  <2> QED
    BY <1>2, <1>3, <2>1, <2>3, <2>4, <2>5
<1>12. ASSUME n >= 2
       PROVE  /\ Base32At(s, q, 2, x2) /\ Base32At(s, q, 3, x3)
              /\ x2 \in 0 .. 31 /\ x3 \in 0 .. 31 /\ ByteAt(v, s, 5 * q + 2) = b[1]
  <2>1. /\ r0 \in 0 .. 7 /\ p1 \in 0 .. 3 /\ x2 \in 0 .. 31 /\ r1 \in 0 .. 1
        /\ p2 \in 0 .. 15 /\ x1 = r0 * 4 + p1 /\ x3 = r1 * 16 + p2
        /\ b[1] = p1 * 64 + x2 * 2 + r1
    BY <1>2, <1>3, <1>4, <1>5, <1>12
  <2>2. r1 * 16 + p2 \in 0 .. 31
    BY <2>1
  <2>3. /\ 8 * q + 2 + 1 = 8 * q + 3 /\ 8 * q + 3 + 1 = 8 * q + 4
    OBVIOUS
  <2>4. Base32At(s, q, 2, x2) /\ Base32At(s, q, 3, x3)
    BY <1>12, <2>1, <2>2, <2>3 DEF Base32At
  <2>5. ByteAt(v, s, 5 * q + 2)
          = (x1 % 4) * 64 + (x2 % 32) * 2 + ((x3 \div 16) % 2)
    BY <1>11, <2>4, Base32Second
  <2>6. ((r0 * 4 + p1) % 4) * 64 + (x2 % 32) * 2 + (((r1 * 16 + p2) \div 16) % 2)
          = p1 * 64 + x2 * 2 + r1
    <3>1. /\ r0 \in 0 .. 7 /\ p1 \in 0 .. 3 /\ x2 \in 0 .. 31 /\ r1 \in 0 .. 1
          /\ p2 \in 0 .. 15
      BY <2>1
    <3>2. (r0 * 4 + p1) % 4 = p1 /\ (r1 * 16 + p2) \div 16 = r1
      BY <3>1
    <3>3. x2 % 32 = x2 /\ r1 % 2 = r1
      BY <3>1
    <3> QED
      BY <3>1, <3>2, <3>3
  <2> QED
    BY <2>1, <2>2, <2>4, <2>5, <2>6
<1>13. ASSUME n >= 3
       PROVE  /\ Base32At(s, q, 4, x4)
              /\ x4 \in 0 .. 31 /\ ByteAt(v, s, 5 * q + 3) = b[2]
  <2>1. /\ n >= 2
        /\ r1 \in 0 .. 1 /\ p2 \in 0 .. 15 /\ r2 \in 0 .. 15 /\ p3 \in 0 .. 1
        /\ x3 = r1 * 16 + p2 /\ x4 = r2 * 2 + p3 /\ b[2] = p2 * 16 + r2
    BY <1>4, <1>5, <1>6, <1>7, <1>13
  <2>2. r2 * 2 + p3 \in 0 .. 31
    BY <2>1
  <2>3. /\ 8 * q + 4 + 1 = 8 * q + 5
    OBVIOUS
  <2>4. Base32At(s, q, 4, x4)
    BY <1>13, <2>1, <2>2, <2>3 DEF Base32At
  <2>5. ByteAt(v, s, 5 * q + 3) = (x3 % 16) * 16 + ((x4 \div 2) % 16)
    BY <1>12, <2>1, <2>4, Base32Third
  <2>6. ((r1 * 16 + p2) % 16) * 16 + (((r2 * 2 + p3) \div 2) % 16) = p2 * 16 + r2
    BY <2>1
  <2> QED
    BY <2>1, <2>2, <2>4, <2>5, <2>6
<1>14. ASSUME n >= 4
       PROVE  /\ Base32At(s, q, 5, x5) /\ Base32At(s, q, 6, x6)
              /\ x5 \in 0 .. 31 /\ x6 \in 0 .. 31 /\ ByteAt(v, s, 5 * q + 4) = b[3]
  <2>1. /\ n >= 3
        /\ r2 \in 0 .. 15 /\ p3 \in 0 .. 1 /\ x5 \in 0 .. 31 /\ r3 \in 0 .. 3
        /\ p4 \in 0 .. 7 /\ x4 = r2 * 2 + p3 /\ x6 = r3 * 8 + p4
        /\ b[3] = p3 * 128 + x5 * 4 + r3
    BY <1>6, <1>7, <1>8, <1>9, <1>14
  <2>2. r3 * 8 + p4 \in 0 .. 31
    BY <2>1
  <2>3. /\ 8 * q + 5 + 1 = 8 * q + 6 /\ 8 * q + 6 + 1 = 8 * q + 7
    OBVIOUS
  <2>4. Base32At(s, q, 5, x5) /\ Base32At(s, q, 6, x6)
    BY <1>14, <2>1, <2>2, <2>3 DEF Base32At
  <2>5. ByteAt(v, s, 5 * q + 4)
          = (x4 % 2) * 128 + (x5 % 32) * 4 + ((x6 \div 8) % 4)
    <3>1. Base32At(s, q, 4, x4)
      BY <1>13, <2>1
    <3> QED
      BY <2>4, <3>1, Base32Fourth
  <2>6. ((r2 * 2 + p3) % 2) * 128 + (x5 % 32) * 4 + (((r3 * 8 + p4) \div 8) % 4)
          = p3 * 128 + x5 * 4 + r3
    <3>1. /\ r2 \in 0 .. 15 /\ p3 \in 0 .. 1 /\ x5 \in 0 .. 31 /\ r3 \in 0 .. 3
          /\ p4 \in 0 .. 7
      BY <2>1
    <3>2. (r2 * 2 + p3) % 2 = p3 /\ (r3 * 8 + p4) \div 8 = r3
      BY <3>1
    <3>3. x5 % 32 = x5 /\ r3 % 4 = r3
      BY <3>1
    <3> QED
      BY <3>1, <3>2, <3>3
  <2> QED
    BY <2>1, <2>2, <2>4, <2>5, <2>6
<1>15. ASSUME n >= 5
       PROVE  x7 \in 0 .. 31 /\ ByteAt(v, s, 5 * q + 5) = b[4]
  <2>1. /\ n >= 4 /\ r3 \in 0 .. 3 /\ p4 \in 0 .. 7 /\ x6 = r3 * 8 + p4
        /\ x7 \in 0 .. 31 /\ b[4] = p4 * 32 + x7
    BY <1>8, <1>9, <1>10, <1>15
  <2>2. Base32At(s, q, 7, x7)
    <3>1. 8 * q + 7 + 1 = 8 * q + 8
      OBVIOUS
    <3> QED
      BY <1>15, <2>1, <3>1 DEF Base32At
  <2>3. ByteAt(v, s, 5 * q + 5) = (x6 % 8) * 32 + (x7 % 32)
    <3>1. Base32At(s, q, 6, x6)
      BY <1>14, <2>1
    <3> QED
      BY <2>2, <3>1, Base32Fifth
  <2>4. ((r3 * 8 + p4) % 8) * 32 + (x7 % 32) = p4 * 32 + x7
    <3>1. r3 \in 0 .. 3 /\ p4 \in 0 .. 7 /\ x7 \in 0 .. 31
      BY <2>1
    <3>2. (r3 * 8 + p4) % 8 = p4
      BY <3>1
    <3>3. x7 % 32 = x7
      BY <3>1
    <3> QED
      BY <3>1, <3>2, <3>3
  <2> QED
    BY <2>1, <2>3, <2>4
<1> QED
  BY <1>2, <1>11, <1>12, <1>13, <1>14, <1>15

(***************************************************************************)
(* What encode makes of n bytes, put as block q of s: the last symbol of a *)
(* tail is another than that of a block, with zeros where the next byte    *)
(* would begin.                                                            *)
(***************************************************************************)
SymbolsOf(v, n) ==
  IF n < binary_block_size(v) THEN num_encoded_tail_symbols(v, n)
  ELSE encoded_block_size(v)

SymbolOf(v, b, n, i) ==
  IF n < binary_block_size(v) /\ i = SymbolsOf(v, n) - 1 THEN index_last(v, i, b)
  ELSE index(v, i, b)

Encodes(v, s, q, b, n) ==
  \A i \in 0 .. SymbolsOf(v, n) - 1 :
    s[encoded_block_size(v) * q + i + 1] = SymbolOf(v, b, n, i)

LEMMA Spelled ==
  ASSUME NEW v \in Variants, NEW s, NEW q \in Nat, NEW b,
         NEW n \in 1 .. binary_block_size(v), Bytes(b, n), Encodes(v, s, q, b, n)
  PROVE  /\ \A i \in 0 .. SymbolsOf(v, n) - 1 :
              SymbolOf(v, b, n, i) \in 0 .. alphabet_size(v) - 1
         /\ \A r \in 1 .. n : ByteAt(v, s, binary_block_size(v) * q + r) = b[r - 1]
         /\ ByteCount(v, SymbolsOf(v, n)) = n
         /\ n < binary_block_size(v) => SymbolsOf(v, n) \in tail_lengths(v)
<1> DEFINE x(i) == SymbolOf(v, b, n, i)
           m == SymbolsOf(v, n)
<1>1. CASE v.family = "base64"
  <2>1. /\ binary_block_size(v) = 3 /\ encoded_block_size(v) = 4
        /\ alphabet_size(v) = 64 /\ BitsPerSymbol(v) = 6 /\ tail_lengths(v) = {2, 3}
    BY <1>1, Families
  <2>2. n \in 1 .. 3 /\ m = n + 1
    BY <1>1, <2>1 DEF SymbolsOf, num_encoded_tail_symbols
  <2>3. /\ x(0) = base64_index(0, b)
        /\ x(1) = IF n = 1 THEN base64_index_last(1, b) ELSE base64_index(1, b)
        /\ x(2) = IF n = 2 THEN base64_index_last(2, b) ELSE base64_index(2, b)
        /\ x(3) = base64_index(3, b)
    BY <1>1, <2>1, <2>2 DEF SymbolOf, index, index_last
  <2>4. \A i \in 0 .. n : s[4 * q + i + 1] = x(i)
    BY <2>1, <2>2 DEF Encodes
  <2> HIDE DEF x, m
  <2>5. /\ s[4 * q + 1] = x(0) /\ s[4 * q + 2] = x(1)
        /\ n >= 2 => s[4 * q + 3] = x(2)
        /\ n >= 3 => s[4 * q + 4] = x(3)
    BY <2>2, <2>4
  <2>6. /\ x(0) \in 0 .. 63 /\ x(1) \in 0 .. 63
        /\ n >= 2 => x(2) \in 0 .. 63
        /\ n >= 3 => x(3) \in 0 .. 63
        /\ ByteAt(v, s, 3 * q + 1) = b[0]
        /\ n >= 2 => ByteAt(v, s, 3 * q + 2) = b[1]
        /\ n >= 3 => ByteAt(v, s, 3 * q + 3) = b[2]
    BY <1>1, <2>2, <2>3, <2>5, Base64Spelled
  <2>7. \A i \in 0 .. m - 1 : x(i) \in 0 .. alphabet_size(v) - 1
    BY <2>1, <2>2, <2>6
  <2>8. \A r \in 1 .. n : ByteAt(v, s, 3 * q + r) = b[r - 1]
    BY <2>2, <2>6
  <2>9. ByteCount(v, m) = n /\ (n < 3 => m \in {2, 3})
    BY <2>1, <2>2 DEF ByteCount
  <2> QED
    BY <2>1, <2>7, <2>8, <2>9 DEF x, m
<1>2. CASE v.family = "base32"
  <2>1. /\ binary_block_size(v) = 5 /\ encoded_block_size(v) = 8
        /\ alphabet_size(v) = 32 /\ BitsPerSymbol(v) = 5
        /\ tail_lengths(v) = {2, 4, 5, 7}
    BY <1>2, Families
  <2>2. /\ n \in 1 .. 5 /\ (n = 1 => m = 2) /\ (n = 2 => m = 4) /\ (n = 3 => m = 5)
        /\ (n = 4 => m = 7) /\ (n = 5 => m = 8)
    BY <1>2, <2>1 DEF SymbolsOf, num_encoded_tail_symbols
  <2>3. /\ x(0) = base32_index(0, b)
        /\ x(1) = IF n = 1 THEN base32_index_last(1, b) ELSE base32_index(1, b)
        /\ x(2) = base32_index(2, b)
        /\ x(3) = IF n = 2 THEN base32_index_last(3, b) ELSE base32_index(3, b)
        /\ x(4) = IF n = 3 THEN base32_index_last(4, b) ELSE base32_index(4, b)
        /\ x(5) = base32_index(5, b)
        /\ x(6) = IF n = 4 THEN base32_index_last(6, b) ELSE base32_index(6, b)
        /\ x(7) = base32_index(7, b)
    BY <1>2, <2>1, <2>2 DEF SymbolOf, index, index_last
  <2>4. \A i \in 0 .. m - 1 : s[8 * q + i + 1] = x(i)
    BY <2>1, <2>2 DEF Encodes
  <2> HIDE DEF x, m
  <2>5. /\ s[8 * q + 1] = x(0) /\ s[8 * q + 2] = x(1)
        /\ n >= 2 => s[8 * q + 3] = x(2) /\ s[8 * q + 4] = x(3)
        /\ n >= 3 => s[8 * q + 5] = x(4)
        /\ n >= 4 => s[8 * q + 6] = x(5) /\ s[8 * q + 7] = x(6)
        /\ n >= 5 => s[8 * q + 8] = x(7)
    BY <2>2, <2>4
  <2>6. /\ x(0) \in 0 .. 31 /\ x(1) \in 0 .. 31
        /\ ByteAt(v, s, 5 * q + 1) = b[0]
        /\ n >= 2 => /\ x(2) \in 0 .. 31 /\ x(3) \in 0 .. 31
                     /\ ByteAt(v, s, 5 * q + 2) = b[1]
        /\ n >= 3 => x(4) \in 0 .. 31 /\ ByteAt(v, s, 5 * q + 3) = b[2]
        /\ n >= 4 => /\ x(5) \in 0 .. 31 /\ x(6) \in 0 .. 31
                     /\ ByteAt(v, s, 5 * q + 4) = b[3]
        /\ n >= 5 => x(7) \in 0 .. 31 /\ ByteAt(v, s, 5 * q + 5) = b[4]
    BY <1>2, <2>2, <2>3, <2>5, Base32Spelled
  <2>7. \A i \in 0 .. m - 1 : x(i) \in 0 .. alphabet_size(v) - 1
    BY <2>1, <2>2, <2>6
  <2>8. \A r \in 1 .. n : ByteAt(v, s, 5 * q + r) = b[r - 1]
    BY <2>2, <2>6
  <2>9. ByteCount(v, m) = n /\ (n < 5 => m \in {2, 4, 5, 7})
    BY <2>1, <2>2 DEF ByteCount
  <2> QED
    BY <2>1, <2>7, <2>8, <2>9 DEF x, m
<1>3. CASE v.family = "hex"
  <2>1. /\ binary_block_size(v) = 1 /\ encoded_block_size(v) = 2
        /\ alphabet_size(v) = 16 /\ BitsPerSymbol(v) = 4
    BY <1>3, Families
  <2>2. n = 1 /\ m = 2
    BY <1>3, <2>1 DEF SymbolsOf
  <2>3. x(0) = hex_index(0, b) /\ x(1) = hex_index(1, b)
    BY <1>3, <2>1, <2>2 DEF SymbolOf, index
  <2>4. \A i \in 0 .. 1 : s[2 * q + i + 1] = x(i)
    BY <2>1, <2>2 DEF Encodes
  <2> HIDE DEF x, m
  <2>5. s[2 * q + 1] = x(0) /\ s[2 * q + 2] = x(1)
    BY <2>4
  <2>6. x(0) \in 0 .. 15 /\ x(1) \in 0 .. 15 /\ ByteAt(v, s, q + 1) = b[0]
    BY <1>3, <2>2, <2>3, <2>5, HexSpelled
  <2>7. \A i \in 0 .. m - 1 : x(i) \in 0 .. alphabet_size(v) - 1
    BY <2>1, <2>2, <2>6
  <2>8. \A r \in 1 .. n : ByteAt(v, s, 1 * q + r) = b[r - 1]
    BY <2>2, <2>6
  <2>9. ByteCount(v, m) = n
    BY <2>1, <2>2 DEF ByteCount
  <2> QED
    BY <2>1, <2>2, <2>7, <2>8, <2>9 DEF x, m
<1> QED
  BY <1>1, <1>2, <1>3, Families
-----------------------------------------------------------------------------
(* Texts as encode makes them.                                             *)

LEMMA Paddings ==
  ASSUME NEW v \in Variants
  PROVE  /\ v.should_ignore \subseteq {Hyphen}
         /\ v.padding_symbol => v.should_ignore = {}
         /\ v.generates_padding => v.padding_symbol
         /\ v.requires_padding => v.generates_padding
<1> USE DEF Variants, Variant, base64_rfc4648, base64_url, base64_url_unpadded,
            base32_rfc4648, base32_hex, base32_crockford, hex_lower, hex_upper
<1>1. v.should_ignore \subseteq {Hyphen}
  OBVIOUS
<1>2. v.padding_symbol => v.should_ignore = {}
  OBVIOUS
<1>3. v.generates_padding => v.padding_symbol
  OBVIOUS
<1>4. v.requires_padding => v.generates_padding
  OBVIOUS
<1> QED
  BY <1>1, <1>2, <1>3, <1>4

LEMMA Alphabet ==
  ASSUME NEW v \in Variants
  PROVE  alphabet_size(v) \in 16 .. 64
BY Families

(* Symbols and then nothing but padding: all of the text is written.       *)
LEMMA PlainText ==
  ASSUME NEW v \in Variants, NEW t \in Seq(Char), NEW n \in 0 .. Len(t),
         \A i \in 1 .. n : t[i] < alphabet_size(v),
         \A i \in n + 1 .. Len(t) : t[i] = Equals /\ v.padding_symbol
  PROVE  /\ Written(v, t) = t /\ SymbolCount(v, t) = n
         /\ Symbols(v, t) = SubSeq(t, 1, n) /\ Pads(v, t) = Len(t) - n
<1>1. \A i \in 1 .. Len(t) : t[i] \notin v.should_ignore /\ t[i] # Nul
  <2> SUFFICES ASSUME NEW i \in 1 .. Len(t)
               PROVE  t[i] \notin v.should_ignore /\ t[i] # Nul
    OBVIOUS
  <2>1. CASE i \in 1 .. n
    <3>1. t[i] < alphabet_size(v) /\ t[i] \in Char /\ alphabet_size(v) \in 16 .. 64
      BY <2>1, Alphabet
    <3> DEFINE c == t[i]
               a == alphabet_size(v)
    <3> HIDE DEF c, a
    <3>2. c \in 0 .. 67 /\ a \in 16 .. 64 /\ c < a => c # 66 /\ c # 65
      OBVIOUS
    <3>3. t[i] # Hyphen /\ t[i] # Nul
      BY <3>1, <3>2 DEF Hyphen, Nul, Char, c, a
    <3> QED
      BY <3>3, Paddings
  <2>2. CASE i \in n + 1 .. Len(t)
    BY <2>2, Paddings DEF Equals, Nul
  <2> QED
    BY <2>1, <2>2
<1>2. Written(v, t) = t
  <2>1. Len(t) \in 0 .. Len(t) /\ SubSeq(t, 1, Len(t)) = t
    OBVIOUS
  <2>2. Written(v, t) = Kept(v, t)[Len(t)]
    BY <1>1, <2>1, WrittenFrom
  <2>3. Kept(v, t)[Len(t)] = SubSeq(t, 1, Len(t))
    BY <1>1, <2>1, KeptWhole
  <2> QED
    BY <2>1, <2>2, <2>3
<1>3. n < Len(t) => ~ (t[n + 1] < alphabet_size(v))
  <2> SUFFICES ASSUME n < Len(t) PROVE ~ (t[n + 1] < alphabet_size(v))
    OBVIOUS
  <2>1. t[n + 1] = Equals
    OBVIOUS
  <2>2. \A a \in 16 .. 64 : ~ (64 < a)
    OBVIOUS
  <2> QED
    BY <2>1, <2>2, Alphabet DEF Equals
<1>4. n \in Nat /\ n <= Len(t)
  OBVIOUS
<1>5. SymbolCount(v, t) = n
  BY <1>2, <1>3, <1>4, SymbolCountIs
<1> QED
  BY <1>2, <1>5 DEF Symbols, Pads

(* A meaning is known by its bytes. *)
LEMMA MeaningIs ==
  ASSUME NEW v \in Variants, NEW t \in Seq(Char), NEW s \in Seq(Byte),
         Len(s) = ByteCount(v, SymbolCount(v, t)),
         \A i \in 1 .. Len(s) : s[i] = ByteAt(v, Symbols(v, t), i)
  PROVE  s = Meaning(v, t)
<1>1. s = [i \in 1 .. Len(s) |-> s[i]]
  OBVIOUS
<1> DEFINE m == ByteCount(v, SymbolCount(v, t))
<1> HIDE DEF m
<1>2. Len(s) = m /\ Meaning(v, t) = [i \in 1 .. m |-> ByteAt(v, Symbols(v, t), i)]
  BY DEF Meaning, m
<1> QED
  BY <1>1, <1>2
=============================================================================
