---------------------------- MODULE TextMeaning ----------------------------
(***************************************************************************)
(* What a text of one of the codecs means, apart from the way stream_codec *)
(* decodes it: which of its characters count, whether it is well formed,   *)
(* and the bytes that its symbols spell, bit by bit.  It is the reference  *)
(* that StreamCodec is checked against.                                    *)
(***************************************************************************)
EXTENDS BlockCodecs

(***************************************************************************)
(* The place of the first of t's elements that is in S, or one past the    *)
(* end if none is.                                                         *)
(***************************************************************************)
FirstOf(t, S) ==
  IF \E i \in DOMAIN t : t[i] \in S
  THEN CHOOSE i \in DOMAIN t : t[i] \in S /\ \A j \in 1 .. i - 1 : t[j] \notin S
  ELSE Len(t) + 1

(***************************************************************************)
(* A text ends with its first Nul.  Kept(v, t)[n] is what is left of its   *)
(* first n characters without those the variant ignores.                   *)
(***************************************************************************)
Kept(v, t) ==
  LET kept[n \in 0 .. Len(t)] ==
        IF n = 0 THEN <<>>
        ELSE IF t[n] \in v.should_ignore THEN kept[n - 1]
        ELSE Append(kept[n - 1], t[n])
  IN  kept

Written(v, t) == Kept(v, t)[FirstOf(t, {Nul}) - 1]

(* The symbols that the text begins with, and how many characters follow.  *)
NoSymbol(v) == Char \ 0 .. alphabet_size(v) - 1

SymbolCount(v, t) == FirstOf(Written(v, t), NoSymbol(v)) - 1
Symbols(v, t) == SubSeq(Written(v, t), 1, SymbolCount(v, t))
Pads(v, t) == Len(Written(v, t)) - SymbolCount(v, t)

(***************************************************************************)
(* Symbols, then nothing but padding; the last block is full, or as long   *)
(* as some number of bytes needs, and padded up to the block's size unless *)
(* the variant lets it be.                                                 *)
(***************************************************************************)
WellFormed(v, t) ==
  LET E == encoded_block_size(v)
      tail == SymbolCount(v, t) % E
  IN  /\ \A i \in SymbolCount(v, t) + 1 .. Len(Written(v, t)) :
           Written(v, t)[i] = Equals /\ v.padding_symbol
      /\ tail = 0 => Pads(v, t) = 0
      /\ tail # 0 =>
           /\ tail \in tail_lengths(v)
           /\ \/ tail + Pads(v, t) = E
              \/ Pads(v, t) = 0 /\ ~v.requires_padding

-----------------------------------------------------------------------------
(***************************************************************************)
(* Bit k, from 0, of the symbols s written one after the other, the bytes  *)
(* those bits make, and the meaning of a text: all the whole bytes.        *)
(***************************************************************************)
BitsPerSymbol(v) == (binary_block_size(v) * 8) \div encoded_block_size(v)

Weight(n) == <<1, 2, 4, 8, 16, 32, 64, 128>>[n + 1]

TextBit(v, s, k) ==
  LET bits == BitsPerSymbol(v)
  IN  (s[k \div bits + 1] \div Weight(bits - 1 - (k % bits))) % 2

ByteAt(v, s, i) ==
  LET bit(n) == TextBit(v, s, 8 * (i - 1) + n) * Weight(7 - n)
  IN  bit(0) + bit(1) + bit(2) + bit(3) + bit(4) + bit(5) + bit(6) + bit(7)

ByteCount(v, n) == (n * BitsPerSymbol(v)) \div 8

Meaning(v, t) ==
  [i \in 1 .. ByteCount(v, SymbolCount(v, t)) |-> ByteAt(v, Symbols(v, t), i)]
=============================================================================
