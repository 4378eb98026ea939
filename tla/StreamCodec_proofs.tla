------------------------- MODULE StreamCodec_proofs -------------------------
(***************************************************************************)
(* Proofs about StreamCodec, for every variant, every binary and every     *)
(* text.  TypeOK is not inductive and says nothing of sizes; IInv adds the *)
(* account that encode and decode never keep: how many bytes stand for how *)
(* many characters at each point of the loops.  MeaningInv, in the second  *)
(* half, adds which bytes those are.                                       *)
(***************************************************************************)
EXTENDS StreamCodec, TextMeaning_proofs, TLAPS

(***************************************************************************)
(* While encoding: whole blocks have been written, E characters for B      *)
(* bytes.                                                                  *)
(***************************************************************************)
Encoding ==
  phase = "encoding" =>
    /\ capacity = encoded_size(codec, Len(binary))
    /\ src <= Len(binary)
    /\ B * Len(text) = E * src
    /\ src % B = 0

(***************************************************************************)
(* While decoding: whole blocks have been written, and each of them, and   *)
(* the symbols in the slots, took as many characters at least.             *)
(***************************************************************************)
Reading ==
  phase = "reading" =>
    /\ src <= Len(text)
    /\ Len(result) % B = 0
    /\ E * Len(result) + B * ptr <= B * src
    /\ last = 0
    /\ \A i \in 0 .. E - 1 : slots[i] # padding_idx

CountingPadding ==
  phase = "padding" =>
    /\ src <= Len(text)
    /\ Len(result) % B = 0
    /\ E * Len(result) + B * last <= B * src
    /\ ptr < last /\ last <= E
    /\ slots[ptr] = padding_idx

Finishing ==
  phase = "closing" =>
    /\ Len(result) % B = 0
    /\ E * Len(result) + B * last <= B * Len(text)
    /\ last <= E
    /\ slots[ptr] # padding_idx => last = ptr

Sized ==
  phase \notin {"encoding", "encoded"} =>
    capacity = decoded_max_size(codec, Len(text))

Ended ==
  phase \in {"decoded"} \union Errors =>
    Len(result) <= capacity /\ last <= E + 1 /\ phase # "aborted"

IInv ==
  /\ TypeOK
  /\ Encoding /\ EncodedSizeIsExact
  /\ phase \in {"encoding", "encoded"} => last = 0
  /\ Reading /\ CountingPadding /\ Finishing /\ Sized /\ Ended

-----------------------------------------------------------------------------
(* The codecs.                                                             *)

(* The three geometries: every variant has one of them. *)
LEMMA Geometry ==
  ASSUME NEW v \in Variants
  PROVE  \/ /\ v.family = "base64"
            /\ binary_block_size(v) = 3 /\ encoded_block_size(v) = 4
            /\ alphabet_size(v) = 64
         \/ /\ v.family = "base32"
            /\ binary_block_size(v) = 5 /\ encoded_block_size(v) = 8
            /\ alphabet_size(v) = 32
         \/ /\ v.family = "hex"
            /\ binary_block_size(v) = 1 /\ encoded_block_size(v) = 2
            /\ alphabet_size(v) = 16
<1>1. v.family \in {"base64", "base32", "hex"}
  BY DEF Variants, Variant, base64_rfc4648, base64_url, base64_url_unpadded,
         base32_rfc4648, base32_hex, base32_crockford, hex_lower, hex_upper
<1> QED
  BY <1>1 DEF binary_block_size, encoded_block_size, alphabet_size

(* A function on 1 .. n is a sequence of length n. *)
LEMMA FunctionIsSequence ==
  ASSUME NEW S, NEW n \in Nat, NEW f \in [1 .. n -> S]
  PROVE  f \in Seq(S) /\ Len(f) = n
OBVIOUS

(* What put() does to the offset. *)
LEMMA PutLength ==
  ASSUME NEW S, NEW s \in Seq(S), NEW t \in Seq(S)
  PROVE  Put(s, t) \in Seq(S) /\ Len(Put(s, t)) = Len(s) + Len(t)
BY DEF Put

LEMMA LookupType ==
  ASSUME NEW v \in Variants, NEW c \in Char
  PROVE  /\ lookup(v, c) \in AlphabetIndex
         /\ ~is_stop_character(lookup(v, c)) =>
              lookup(v, c) \in 0 .. 63 /\ lookup(v, c) # padding_idx
BY Geometry DEF lookup, AlphabetIndex, Char, Nul, Equals, is_stop_character,
                padding_idx, invalid_idx, eof_idx

(* The symbols of a block are characters, given the bytes each one takes. *)
LEMMA Base64Index ==
  ASSUME NEW b, NEW i \in 0 .. 3,
         i \in {0, 1} => b[0] \in Byte,
         i \in {1, 2} => b[1] \in Byte,
         i \in {2, 3} => b[2] \in Byte
  PROVE  base64_index(i, b) \in Char
BY DEF base64_index, Char, Byte

LEMMA Base32Index ==
  ASSUME NEW b, NEW i \in 0 .. 7,
         i \in {0, 1} => b[0] \in Byte,
         i \in {1, 2, 3} => b[1] \in Byte,
         i \in {3, 4} => b[2] \in Byte,
         i \in {4, 5, 6} => b[3] \in Byte,
         i \in {6, 7} => b[4] \in Byte
  PROVE  base32_index(i, b) \in Char
BY DEF base32_index, Char, Byte

LEMMA HexIndex ==
  ASSUME NEW b, NEW i \in 0 .. 1, b[0] \in Byte
  PROVE  hex_index(i, b) \in Char
BY DEF hex_index, Char, Byte

LEMMA Base64IndexLast ==
  ASSUME NEW b, NEW i \in {1, 2}, b[i - 1] \in Byte
  PROVE  base64_index_last(i, b) \in Char
BY DEF base64_index_last, Char, Byte

LEMMA Base32IndexLast ==
  ASSUME NEW b, NEW i \in {1, 3, 4, 6},
         i = 1 => b[0] \in Byte, i = 3 => b[1] \in Byte,
         i = 4 => b[2] \in Byte, i = 6 => b[3] \in Byte
  PROVE  base32_index_last(i, b) \in Char
BY DEF base32_index_last, Char, Byte

LEMMA Base64Bytes ==
  ASSUME NEW a \in Nat, NEW b \in Nat, NEW c \in Nat
  PROVE  /\ (a * 4 + b \div 16) % 256 \in Byte
         /\ (a * 16 + b \div 4) % 256 \in Byte
         /\ (a * 64 + b) % 256 \in Byte
         /\ (a * 4 + ((b \div 16) % 4)) % 256 \in Byte
         /\ (a % 16) * 16 + ((b \div 4) % 16) \in Byte
BY DEF Byte

LEMMA Base32Bytes ==
  ASSUME NEW a \in Nat, NEW b \in Nat, NEW c \in Nat
  PROVE  /\ (a % 32) * 8 + ((b \div 4) % 8) \in Byte
         /\ (a % 4) * 64 + (b % 32) * 2 + ((c \div 16) % 2) \in Byte
         /\ (a % 16) * 16 + ((b \div 2) % 16) \in Byte
         /\ (a % 2) * 128 + (b % 32) * 4 + ((c \div 8) % 4) \in Byte
         /\ (a % 8) * 32 + (b % 32) \in Byte
BY DEF Byte

LEMMA Base32Byte ==
  ASSUME NEW idx, NEW i \in 1 .. 5,
         i = 1 => idx[0] \in Nat,
         i \in {1, 2} => idx[1] \in Nat,
         i = 2 => idx[2] \in Nat,
         i \in {2, 3} => idx[3] \in Nat,
         i \in {3, 4} => idx[4] \in Nat,
         i = 4 => idx[5] \in Nat,
         i \in {4, 5} => idx[6] \in Nat,
         i = 5 => idx[7] \in Nat
  PROVE  base32_byte(idx, i) \in Byte
<1>1. CASE i = 1
  BY <1>1, Base32Bytes DEF base32_byte
<1>2. CASE i = 2
  BY <1>2, Base32Bytes DEF base32_byte
<1>3. CASE i = 3
  BY <1>3, Base32Bytes DEF base32_byte
<1>4. CASE i = 4
  BY <1>4, Base32Bytes DEF base32_byte
<1>5. CASE i = 5
  BY <1>5, Base32Bytes DEF base32_byte
<1> QED
  BY <1>1, <1>2, <1>3, <1>4, <1>5

(* A decoded block has as many bytes as the block size says. *)
LEMMA DecodedBlock ==
  ASSUME NEW v \in Variants, NEW idx,
         \A i \in 0 .. encoded_block_size(v) - 1 : idx[i] \in AlphabetIndex
  PROVE  /\ decode_block(v, idx) \in Seq(Byte)
         /\ Len(decode_block(v, idx)) = binary_block_size(v)
<1>0. \A i \in 0 .. encoded_block_size(v) - 1 : idx[i] \in Nat
  BY DEF AlphabetIndex, padding_idx, invalid_idx, eof_idx
<1>1. CASE v.family = "base64"
  <2>1. idx[0] \in Nat /\ idx[1] \in Nat /\ idx[2] \in Nat /\ idx[3] \in Nat
    BY <1>0, <1>1 DEF encoded_block_size
  <2>2. /\ (idx[0] * 4 + idx[1] \div 16) % 256 \in Byte
        /\ (idx[1] * 16 + idx[2] \div 4) % 256 \in Byte
        /\ (idx[2] * 64 + idx[3]) % 256 \in Byte
    BY <2>1, Base64Bytes
  <2> QED
    BY <1>1, <2>2 DEF decode_block, binary_block_size, base64_decode_block
<1>2. CASE v.family = "base32"
  <2>1. /\ idx[0] \in Nat /\ idx[1] \in Nat /\ idx[2] \in Nat /\ idx[3] \in Nat
        /\ idx[4] \in Nat /\ idx[5] \in Nat /\ idx[6] \in Nat /\ idx[7] \in Nat
    BY <1>0, <1>2 DEF encoded_block_size
  <2>2. \A i \in 1 .. 5 : base32_byte(idx, i) \in Byte
    BY <2>1, Base32Byte
  <2>3. base32_decode_block(idx) \in [1 .. 5 -> Byte]
    BY <2>2 DEF base32_decode_block
  <2> QED
    BY <1>2, <2>3, FunctionIsSequence DEF decode_block, binary_block_size
<1>3. CASE v.family = "hex"
  <2>1. idx[0] \in Nat /\ idx[1] \in Nat
    BY <1>0, <1>3 DEF encoded_block_size
  <2> QED
    BY <1>3, <2>1 DEF decode_block, binary_block_size, hex_decode_block, Byte
<1> QED
  BY <1>1, <1>2, <1>3, Geometry

(***************************************************************************)
(* A tail has no more bytes than its symbols make: B for every E.          *)
(***************************************************************************)
LEMMA DecodedTail ==
  ASSUME NEW v \in Variants, NEW idx, NEW n \in tail_lengths(v),
         \A i \in 0 .. encoded_block_size(v) - 1 : idx[i] \in AlphabetIndex
  PROVE  /\ decode_tail(v, idx, n) \in Seq(Byte)
         /\ encoded_block_size(v) * Len(decode_tail(v, idx, n))
              <= binary_block_size(v) * n
<1>0. \A i \in 0 .. encoded_block_size(v) - 1 : idx[i] \in Nat
  BY DEF AlphabetIndex, padding_idx, invalid_idx, eof_idx
<1>1. CASE v.family = "base64"
  <2>1. idx[0] \in Nat /\ idx[1] \in Nat /\ idx[2] \in Nat /\ n \in {2, 3}
    BY <1>0, <1>1 DEF encoded_block_size, tail_lengths
  <2>2. /\ (idx[0] * 4 + ((idx[1] \div 16) % 4)) % 256 \in Byte
        /\ (idx[1] % 16) * 16 + ((idx[2] \div 4) % 16) \in Byte
    BY <2>1, Base64Bytes
  <2>3. CASE n = 2
    BY <1>1, <2>2, <2>3 DEF decode_tail, base64_decode_tail, encoded_block_size,
                            binary_block_size
  <2>4. CASE n = 3
    BY <1>1, <2>2, <2>4 DEF decode_tail, base64_decode_tail, encoded_block_size,
                            binary_block_size
  <2> QED
    BY <2>1, <2>3, <2>4
<1>2. CASE v.family = "base32"
  <2>1. /\ idx[0] \in Nat /\ idx[1] \in Nat /\ idx[2] \in Nat /\ idx[3] \in Nat
        /\ idx[4] \in Nat /\ idx[5] \in Nat /\ idx[6] \in Nat /\ idx[7] \in Nat
    BY <1>0, <1>2 DEF encoded_block_size
  <2>2. \A i \in 1 .. 5 : base32_byte(idx, i) \in Byte
    BY <2>1, Base32Byte
  <2> DEFINE m == CASE n = 2 -> 1 [] n = 4 -> 2 [] n = 5 -> 3 [] n = 7 -> 4
  <2>3. n \in {2, 4, 5, 7}
    BY <1>2 DEF tail_lengths
  <2>4. m \in 1 .. 4 /\ 8 * m <= 5 * n
    BY <2>3
  <2>5. decode_tail(v, idx, n) \in [1 .. m -> Byte]
    <3>1. decode_tail(v, idx, n) = [i \in 1 .. m |-> base32_byte(idx, i)]
      BY <1>2 DEF decode_tail, base32_decode_tail
    <3> HIDE DEF m
    <3> QED
      BY <3>1, <2>2, <2>4
  <2> HIDE DEF m
  <2>6. decode_tail(v, idx, n) \in Seq(Byte) /\ Len(decode_tail(v, idx, n)) = m
    BY <2>4, <2>5, FunctionIsSequence
  <2>7. encoded_block_size(v) = 8 /\ binary_block_size(v) = 5
    BY <1>2 DEF encoded_block_size, binary_block_size
  <2> QED
    BY <2>3, <2>4, <2>6, <2>7
<1>3. CASE v.family = "hex"
  BY <1>3 DEF tail_lengths
<1> QED
  BY <1>1, <1>2, <1>3, Geometry

(* A whole block is E characters. *)
LEMMA EncodedBlock ==
  ASSUME NEW v \in Variants, NEW b,
         \A k \in 0 .. binary_block_size(v) - 1 : b[k] \in Byte
  PROVE  \A i \in 0 .. encoded_block_size(v) - 1 : index(v, i, b) \in Char
<1>1. CASE v.family = "base64"
  <2>1. b[0] \in Byte /\ b[1] \in Byte /\ b[2] \in Byte
    BY <1>1 DEF binary_block_size
  <2> QED
    BY <1>1, <2>1, Base64Index DEF index, encoded_block_size
<1>2. CASE v.family = "base32"
  <2>1. /\ b[0] \in Byte /\ b[1] \in Byte /\ b[2] \in Byte
        /\ b[3] \in Byte /\ b[4] \in Byte
    BY <1>2 DEF binary_block_size
  <2> QED
    BY <1>2, <2>1, Base32Index DEF index, encoded_block_size
<1>3. CASE v.family = "hex"
  <2>1. b[0] \in Byte
    BY <1>3 DEF binary_block_size
  <2> QED
    BY <1>3, <2>1, HexIndex DEF index, encoded_block_size
<1> QED
  BY <1>1, <1>2, <1>3, Geometry

(* A tail of r bytes is the symbols its bits need, the last one cut short. *)
LEMMA EncodedTail ==
  ASSUME NEW v \in Variants, NEW r \in 1 .. binary_block_size(v) - 1, NEW b,
         \A k \in 0 .. r - 1 : b[k] \in Byte
  PROVE  LET n == num_encoded_tail_symbols(v, r)
         IN  /\ n \in 1 .. encoded_block_size(v) - 1
             /\ n = (r * encoded_block_size(v)) \div binary_block_size(v) + 1
             /\ index_last(v, n - 1, b) \in Char
             /\ \A i \in 0 .. n - 2 : index(v, i, b) \in Char
<1> DEFINE n == num_encoded_tail_symbols(v, r)
<1>1. CASE v.family = "base64"
  <2>1. r \in {1, 2} /\ n = r + 1
    BY <1>1 DEF binary_block_size, num_encoded_tail_symbols
  <2>2. b[0] \in Byte /\ (r = 2 => b[1] \in Byte)
    BY <2>1
  <2>3. \A i \in 0 .. n - 2 : base64_index(i, b) \in Char
    BY <2>1, <2>2, Base64Index
  <2>4. base64_index_last(n - 1, b) \in Char
    BY <2>1, <2>2, Base64IndexLast
  <2> QED
    BY <1>1, <2>1, <2>3, <2>4 DEF index, index_last, encoded_block_size,
                                  binary_block_size
<1>2. CASE v.family = "base32"
  <2>1. \/ r = 1 /\ n = 2
        \/ r = 2 /\ n = 4
        \/ r = 3 /\ n = 5
        \/ r = 4 /\ n = 7
    BY <1>2 DEF binary_block_size, num_encoded_tail_symbols
  <2>2. /\ b[0] \in Byte /\ (r > 1 => b[1] \in Byte)
        /\ (r > 2 => b[2] \in Byte) /\ (r > 3 => b[3] \in Byte)
    BY <2>1
  <2>3. \A i \in 0 .. n - 2 : base32_index(i, b) \in Char
    BY <2>1, <2>2, Base32Index
  <2>4. base32_index_last(n - 1, b) \in Char
    BY <2>1, <2>2, Base32IndexLast
  <2> QED
    BY <1>2, <2>1, <2>3, <2>4 DEF index, index_last, encoded_block_size,
                                  binary_block_size
<1>3. CASE v.family = "hex"
  BY <1>3 DEF binary_block_size
<1> QED
  BY <1>1, <1>2, <1>3, Geometry

-----------------------------------------------------------------------------
(* The arithmetic of blocks, one geometry at a time.                       *)

Blocks(b, e) ==
  \/ b = 3 /\ e = 4
  \/ b = 5 /\ e = 8
  \/ b = 1 /\ e = 2

LEMMA GeometryBlocks ==
  ASSUME NEW v \in Variants
  PROVE  Blocks(binary_block_size(v), encoded_block_size(v))
BY Geometry DEF Blocks

(***************************************************************************)
(* l bytes decoded in whole blocks, with x slots in use, out of n          *)
(* characters: the blocks fit, and one more does when x is a whole block.  *)
(***************************************************************************)
LEMMA WholeBlocksFit ==
  ASSUME NEW b, NEW e, Blocks(b, e), NEW l \in Nat, NEW x \in Nat, NEW n \in Nat,
         l % b = 0, e * l + b * x <= b * n
  PROVE  /\ l <= (n \div e) * b
         /\ x = e => l + b <= (n \div e) * b
<1>1. CASE b = 3 /\ e = 4
  BY <1>1
<1>2. CASE b = 5 /\ e = 8
  BY <1>2
<1>3. CASE b = 1 /\ e = 2
  BY <1>3
<1> QED
  BY <1>1, <1>2, <1>3 DEF Blocks

(* The same, and t bytes made of x symbols of an unpadded tail. *)
LEMMA TailFits ==
  ASSUME NEW b, NEW e, Blocks(b, e), NEW l \in Nat, NEW x \in Nat, NEW n \in Nat,
         l % b = 0, e * l + b * x <= b * n, NEW t \in Nat, e * t <= b * x, x < e
  PROVE  l + t <= (n \div e) * b + ((n % e) * b) \div e
<1>1. CASE b = 3 /\ e = 4
  BY <1>1
<1>2. CASE b = 5 /\ e = 8
  BY <1>2
<1>3. CASE b = 1 /\ e = 2
  BY <1>3
<1> QED
  BY <1>1, <1>2, <1>3 DEF Blocks

(* The account of bytes and characters: more characters, one symbol, one   *)
(* block.                                                                  *)
LEMMA MoreCharacters ==
  ASSUME NEW b, NEW e, Blocks(b, e), NEW l \in Nat, NEW x \in Nat, NEW y \in Nat,
         NEW n \in Nat, e * l + b * x <= b * y, y <= n
  PROVE  e * l + b * x <= b * n
<1>1. CASE b = 3 /\ e = 4
  BY <1>1
<1>2. CASE b = 5 /\ e = 8
  BY <1>2
<1>3. CASE b = 1 /\ e = 2
  BY <1>3
<1> QED
  BY <1>1, <1>2, <1>3 DEF Blocks

LEMMA OneSymbol ==
  ASSUME NEW b, NEW e, Blocks(b, e), NEW l \in Nat, NEW x \in Nat, NEW y \in Nat,
         e * l + b * x <= b * y
  PROVE  e * l + b * (x + 1) <= b * (y + 1)
<1>1. CASE b = 3 /\ e = 4
  BY <1>1
<1>2. CASE b = 5 /\ e = 8
  BY <1>2
<1>3. CASE b = 1 /\ e = 2
  BY <1>3
<1> QED
  BY <1>1, <1>2, <1>3 DEF Blocks

LEMMA OneBlock ==
  ASSUME NEW b, NEW e, Blocks(b, e), NEW l \in Nat, NEW x \in Nat, NEW y \in Nat,
         e * l + b * x <= b * y, l % b = 0, x + 1 = e
  PROVE  (l + b) % b = 0 /\ e * (l + b) + b * 0 <= b * (y + 1)
<1>1. CASE b = 3 /\ e = 4
  BY <1>1
<1>2. CASE b = 5 /\ e = 8
  BY <1>2
<1>3. CASE b = 1 /\ e = 2
  BY <1>3
<1> QED
  BY <1>1, <1>2, <1>3 DEF Blocks

LEMMA WholeBlocksType ==
  ASSUME NEW b, NEW e, Blocks(b, e), NEW n \in Nat
  PROVE  (n \div e) * b \in Nat
<1>1. CASE b = 3 /\ e = 4
  BY <1>1
<1>2. CASE b = 5 /\ e = 8
  BY <1>2
<1>3. CASE b = 1 /\ e = 2
  BY <1>3
<1> QED
  BY <1>1, <1>2, <1>3 DEF Blocks

(* The size of n bytes padded to whole blocks. *)
PaddedLength(b, e, n) ==
  LET up == n + b - 1
  IN  ((up - (up % b)) * e) \div b

(* t characters for n bytes, when those are whole blocks. *)
LEMMA WholeBlocksSize ==
  ASSUME NEW b, NEW e, Blocks(b, e), NEW t \in Nat, NEW n \in Nat,
         n % b = 0, b * t = e * n
  PROVE  /\ t = PaddedLength(b, e, n)
         /\ t = (n * e) \div b
         /\ (n * e) % b = 0
<1>1. CASE b = 3 /\ e = 4
  BY <1>1 DEF PaddedLength
<1>2. CASE b = 5 /\ e = 8
  BY <1>2 DEF PaddedLength
<1>3. CASE b = 1 /\ e = 2
  BY <1>3 DEF PaddedLength
<1> QED
  BY <1>1, <1>2, <1>3 DEF Blocks

(* How the sizes of n bytes, padded and not, are made of t and the rest r. *)
Sizes(b, e, t, n, r) ==
  /\ t + e = PaddedLength(b, e, n)
  /\ (n * e) % b # 0
  /\ t + (r * e) \div b = (n * e) \div b

(* t characters for the whole blocks of n bytes, and r bytes more. *)
LEMMA TailSize ==
  ASSUME NEW b, NEW e, Blocks(b, e), NEW t \in Nat, NEW n \in Nat,
         NEW r \in 1 .. b - 1, r <= n, (n - r) % b = 0, b * t = e * (n - r)
  PROVE  Sizes(b, e, t, n, r)
<1>1. CASE b = 3 /\ e = 4
  BY <1>1 DEF Sizes, PaddedLength
<1>2. CASE b = 5 /\ e = 8
  BY <1>2 DEF Sizes, PaddedLength
<1>3. CASE b = 1 /\ e = 2
  BY <1>3 DEF Sizes, PaddedLength
<1> QED
  BY <1>1, <1>2, <1>3 DEF Blocks

(* Both sizes are sizes. *)
LEMMA EncodedSizeType ==
  ASSUME NEW v \in Variants, NEW n \in Nat
  PROVE  encoded_size(v, n) \in Nat
BY Geometry DEF encoded_size

(* Fewer bytes never need more characters. *)
LEMMA EncodedSizeBound ==
  ASSUME NEW v \in Variants, NEW n \in Nat, NEW s \in Nat, NEW t \in Nat,
         s <= n, binary_block_size(v) * t = encoded_block_size(v) * s
  PROVE  t <= encoded_size(v, n)
BY Geometry DEF encoded_size

LEMMA PaddedSize ==
  ASSUME NEW v \in Variants, NEW n, v.generates_padding
  PROVE  encoded_size(v, n)
           = PaddedLength(binary_block_size(v), encoded_block_size(v), n)
BY Zenon DEF encoded_size, PaddedLength

LEMMA DecodedSizeBounds ==
  ASSUME NEW v \in Variants, NEW n \in Nat
  PROVE  LET b == binary_block_size(v)
             e == encoded_block_size(v)
         IN  /\ (n \div e) * b <= decoded_max_size(v, n)
             /\ ~v.requires_padding =>
                  decoded_max_size(v, n) = (n \div e) * b + ((n % e) * b) \div e
BY Geometry DEF decoded_max_size

LEMMA DecodedSizeType ==
  ASSUME NEW v \in Variants, NEW n \in Nat
  PROVE  decoded_max_size(v, n) \in Nat
BY Geometry DEF decoded_max_size

-----------------------------------------------------------------------------
(* The steps.                                                              *)

(* What StartEncoding and GivenText choose is of the right type. *)
LEMMA InitInvariant == Init => IInv
<1> SUFFICES ASSUME Init PROVE IInv
  OBVIOUS
<1>1. codec \in Variants /\ Blocks(B, E)
  BY GeometryBlocks DEF Init, B, E
<1>2. /\ result = <<>> /\ src = 0 /\ ptr = 0 /\ last = 0
      /\ phase \in {"encoding", "encoded"}
      /\ binary \in Seq(Byte) /\ text \in Seq(Char)
  <2>1. \/ binary \in Binaries /\ text = <<>> /\ phase = "encoding"
        \/ binary = <<>> /\ text \in Texts /\ phase = "encoded"
    BY Zenon DEF Init, StartEncoding, GivenText
  <2>2. result = <<>> /\ src = 0 /\ ptr = 0 /\ last = 0
    BY Zenon DEF Init
  <2>3. Binaries \subseteq Seq(Byte) /\ Texts \subseteq Seq(Char)
    BY InputAssumption DEF InputAssumption
  <2>4. <<>> \in Seq(Byte) /\ <<>> \in Seq(Char)
    OBVIOUS
  <2> QED
    BY Zenon, <2>1, <2>2, <2>3, <2>4
<1>2a. given \in BOOLEAN
  BY Zenon DEF Init, StartEncoding, GivenText
<1>3. capacity \in Nat
  <2>1. CASE StartEncoding
    <3>1. capacity = encoded_size(codec, Len(binary)) /\ Len(binary) \in Nat
      BY <2>1, <1>2 DEF StartEncoding
    <3> QED
      BY <3>1, <1>1, EncodedSizeType
  <2>2. CASE GivenText
    BY <2>2, <1>2 DEF GivenText
  <2> QED
    BY <2>1, <2>2 DEF Init
<1>4. slots \in [0 .. E - 1 -> AlphabetIndex]
  BY <1>1 DEF Init, FreshSlots, AlphabetIndex, E, eof_idx, Blocks
<1>5. TypeOK
  BY <1>1, <1>2, <1>2a, <1>3, <1>4 DEF TypeOK, Blocks, Phases
<1>6. Encoding
  BY <1>1, <1>2 DEF Init, StartEncoding, GivenText, Encoding, Blocks
<1>7. EncodedSizeIsExact
  BY <1>2 DEF Init, StartEncoding, GivenText, EncodedSizeIsExact
<1> QED
  BY <1>2, <1>5, <1>6, <1>7 DEF IInv, Reading, CountingPadding, Finishing, Sized,
                               Ended, Errors

LEMMA EncodeBlockInvariant == IInv /\ EncodeBlock => IInv'
<1> SUFFICES ASSUME IInv, EncodeBlock PROVE IInv'
  OBVIOUS
<1>1. codec \in Variants /\ Blocks(B, E) /\ B \in Nat /\ E \in Nat /\ B > 0 /\ E > 0
  BY GeometryBlocks DEF IInv, TypeOK, B, E, Blocks
<1>2. /\ phase = "encoding" /\ Len(binary) \in Nat /\ src \in Nat
      /\ src + B <= Len(binary) /\ src' = src + B
  BY <1>1 DEF EncodeBlock, IInv, TypeOK, Remaining
<1>3. \A k \in 0 .. B - 1 : Block[k] \in Byte
  BY <1>1, <1>2 DEF Block, Remaining, IInv, TypeOK
<1> DEFINE new == [i \in 1 .. E |-> index(codec, i - 1, Block)]
<1>4. new \in [1 .. E -> Char]
  BY <1>1, <1>3, EncodedBlock DEF B, E
<1>5. new \in Seq(Char) /\ Len(new) = E
  BY <1>1, <1>4, FunctionIsSequence
<1>6. text' = Put(text, new) /\ text \in Seq(Char)
  BY DEF EncodeBlock, IInv, TypeOK
<1> HIDE DEF new
<1>7. text' \in Seq(Char) /\ Len(text') = Len(text) + E
  BY <1>5, <1>6, PutLength
<1>8. UNCHANGED <<inputVars, decoderVars, capacity, phase>>
  BY DEF EncodeBlock
<1>9. TypeOK'
  BY <1>1, <1>2, <1>7, <1>8 DEF IInv, TypeOK, inputVars, decoderVars, B, E
<1>10. Encoding'
  <2>1. /\ capacity = encoded_size(codec, Len(binary))
        /\ B * Len(text) = E * src /\ src % B = 0
    BY <1>2 DEF IInv, Encoding
  <2>2. Len(text) \in Nat
    BY <1>6
  <2>3. B * Len(text') = E * src' /\ src' % B = 0
    BY <1>1, <1>2, <1>7, <2>1, <2>2 DEF Blocks
  <2>4. B' = B /\ E' = E
    BY <1>8 DEF inputVars, B, E
  <2> QED
    BY <1>2, <1>8, <2>1, <2>3, <2>4 DEF Encoding, inputVars
<1>11. phase' = "encoding" /\ last' = last /\ last = 0
  BY <1>2, <1>8 DEF decoderVars, IInv
<1> QED
  BY <1>9, <1>10, <1>11 DEF IInv, EncodedSizeIsExact, Reading, CountingPadding,
                           Finishing, Sized, Ended, Errors

LEMMA EncodeTailInvariant == IInv /\ EncodeTail => IInv'
<1> SUFFICES ASSUME IInv, EncodeTail PROVE IInv'
  OBVIOUS
<1> DEFINE r == Len(binary) - src
           n == num_encoded_tail_symbols(codec, r)
           pads == IF codec.generates_padding THEN E - n ELSE 0
<1>1. codec \in Variants /\ Blocks(B, E) /\ B \in Nat /\ E \in Nat
  BY GeometryBlocks DEF IInv, TypeOK, B, E, Blocks
<1>2. /\ phase = "encoding" /\ src \in Nat /\ Len(binary) = src + r
      /\ r \in 1 .. B - 1 /\ Len(text) \in Nat
  BY <1>1 DEF EncodeTail, IInv, TypeOK, Remaining
<1>3. \A k \in 0 .. r - 1 : Block[k] \in Byte
  BY <1>1, <1>2 DEF Block, Remaining, IInv, TypeOK
<1>4. /\ n \in 1 .. E - 1 /\ n = (r * E) \div B + 1
      /\ index_last(codec, n - 1, Block) \in Char
      /\ \A i \in 0 .. n - 2 : index(codec, i, Block) \in Char
  BY <1>1, <1>2, <1>3, EncodedTail DEF B, E
<1>5. text' = Put(Put(text, TailSymbols(n)), Padding(E - n))
  BY DEF EncodeTail, Remaining
<1> HIDE DEF n, r
<1>6. TailSymbols(n) \in Seq(Char) /\ Len(TailSymbols(n)) = n
  <2>1. TailSymbols(n) \in [1 .. n -> Char]
    BY <1>1, <1>4 DEF TailSymbols
  <2> QED
    BY <1>1, <1>4, <2>1, FunctionIsSequence
<1>7. Padding(E - n) \in Seq(Char) /\ Len(Padding(E - n)) = pads
  <2>1. pads \in Nat /\ Padding(E - n) = [i \in 1 .. pads |-> Equals]
    BY <1>1, <1>4 DEF Padding
  <2> HIDE DEF pads
  <2>2. Padding(E - n) \in [1 .. pads -> Char]
    BY <2>1 DEF Equals, Char
  <2> QED
    BY <2>1, <2>2, FunctionIsSequence
<1>8. text' \in Seq(Char) /\ Len(text') = Len(text) + n + pads
  <2>1. text \in Seq(Char)
    BY DEF IInv, TypeOK
  <2>2. /\ Put(text, TailSymbols(n)) \in Seq(Char)
        /\ Len(Put(text, TailSymbols(n))) = Len(text) + n
    BY <1>6, <2>1, PutLength
  <2>3. pads \in Nat
    BY <1>1, <1>4
  <2> DEFINE mid == Put(text, TailSymbols(n))
  <2> HIDE DEF pads, mid
  <2>4. Put(mid, Padding(E - n)) \in Seq(Char)
    BY <1>7, <2>2, PutLength DEF mid
  <2>5. Len(Put(mid, Padding(E - n))) = Len(mid) + pads
    BY <1>7, <2>2, PutLength DEF mid
  <2>6. text' = Put(mid, Padding(E - n))
    BY <1>5 DEF mid
  <2> QED
    BY <2>2, <2>4, <2>5, <2>6 DEF mid
<1>9. UNCHANGED <<inputVars, decoderVars, capacity, src>> /\ phase' = "encoded"
  BY DEF EncodeTail
<1>10. TypeOK'
  BY <1>8, <1>9 DEF IInv, TypeOK, inputVars, decoderVars, Phases, B, E
<1>11. EncodedSizeIsExact'
  <2>1. /\ capacity = encoded_size(codec, Len(binary))
        /\ B * Len(text) = E * src /\ src % B = 0
    BY <1>2 DEF IInv, Encoding
  <2>2. /\ Len(binary) \in Nat /\ r <= Len(binary)
        /\ (Len(binary) - r) % B = 0
        /\ B * Len(text) = E * (Len(binary) - r)
    <3>1. Len(binary) \in Nat /\ r <= Len(binary) /\ Len(binary) - r = src
      BY <1>1, <1>2
    <3> QED
      BY <2>1, <3>1
  <2>2a. Sizes(B, E, Len(text), Len(binary), r)
    BY <1>1, <1>2, <2>2, TailSize
  <2>3. CASE codec.generates_padding
    <3>1. capacity = PaddedLength(B, E, Len(binary))
      BY <1>1, <2>1, <2>3, PaddedSize DEF B, E
    <3>2. Len(text') = Len(text) + E
      BY <1>1, <1>2, <1>4, <1>8, <2>3
    <3> QED
      BY <1>9, <2>2a, <3>1, <3>2 DEF EncodedSizeIsExact, Sizes
  <2>4. CASE ~codec.generates_padding
    <3>1. capacity = (Len(binary) * E) \div B + 1
      BY <2>1, <2>2a, <2>4 DEF Sizes, encoded_size, B, E
    <3>2. Len(text') = Len(text) + (r * E) \div B + 1
      BY <1>1, <1>2, <1>4, <1>8, <2>4
    <3> QED
      BY <1>9, <2>2a, <3>1, <3>2 DEF EncodedSizeIsExact, Sizes
  <2> QED
    BY <2>3, <2>4
<1>12. last' = 0
  BY <1>2, <1>9 DEF IInv, decoderVars
<1> QED
  BY <1>9, <1>10, <1>11, <1>12 DEF IInv, Encoding, Reading, CountingPadding,
                                   Finishing, Sized, Ended, Errors

LEMMA EncodeEndsInvariant == IInv /\ EncodeEnds => IInv'
<1> SUFFICES ASSUME IInv, EncodeEnds PROVE IInv'
  OBVIOUS
<1>1. codec \in Variants /\ Blocks(B, E)
  BY GeometryBlocks DEF IInv, TypeOK, B, E
<1>2. /\ phase = "encoding" /\ src \in Nat /\ Len(binary) \in Nat
      /\ Len(text) \in Nat /\ Len(binary) = src
  BY DEF EncodeEnds, IInv, TypeOK, Remaining
<1>3. UNCHANGED <<inputVars, decoderVars, text, capacity, src>> /\ phase' = "encoded"
  BY DEF EncodeEnds
<1>4. TypeOK'
  BY <1>3 DEF IInv, TypeOK, inputVars, decoderVars, Phases, B, E
<1>5. EncodedSizeIsExact'
  <2>1. /\ capacity = encoded_size(codec, Len(binary))
        /\ B * Len(text) = E * Len(binary) /\ Len(binary) % B = 0
    BY <1>2 DEF IInv, Encoding
  <2>2. Len(text) = PaddedLength(B, E, Len(binary))
    BY <1>1, <1>2, <2>1, WholeBlocksSize
  <2>2a. Len(text) = (Len(binary) * E) \div B
    BY <1>1, <1>2, <2>1, WholeBlocksSize
  <2>2b. (Len(binary) * E) % B = 0
    BY <1>1, <1>2, <2>1, WholeBlocksSize
  <2>3. capacity = Len(text)
    <3>1. CASE codec.generates_padding
      BY <1>1, <2>1, <2>2, <3>1, PaddedSize DEF B, E
    <3>2. CASE ~codec.generates_padding
      BY <1>2, <2>1, <2>2a, <2>2b, <3>2 DEF encoded_size, B, E
    <3> QED
      BY <3>1, <3>2
  <2> QED
    BY <1>3, <2>3 DEF EncodedSizeIsExact
<1>6. last' = 0
  BY <1>2, <1>3 DEF IInv, decoderVars
<1> QED
  BY <1>3, <1>4, <1>5, <1>6 DEF IInv, Encoding, Reading, CountingPadding,
                                Finishing, Sized, Ended, Errors

LEMMA StartDecodingInvariant == IInv /\ StartDecoding => IInv'
<1> SUFFICES ASSUME IInv, StartDecoding PROVE IInv'
  OBVIOUS
<1>1. codec \in Variants /\ Blocks(B, E)
  BY GeometryBlocks DEF IInv, TypeOK, B, E
<1>2. /\ result' = <<>> /\ src' = 0 /\ slots' = FreshSlots(codec)
      /\ ptr' = 0 /\ last' = 0 /\ phase' = "reading"
      /\ capacity' = decoded_max_size(codec, Len(text))
      /\ UNCHANGED <<inputVars, text>>
  BY DEF StartDecoding
<1>3. Len(text) \in Nat /\ capacity' \in Nat
  BY <1>1, <1>2, DecodedSizeType DEF IInv, TypeOK
<1>4. /\ FreshSlots(codec) \in [0 .. E - 1 -> AlphabetIndex]
      /\ \A i \in 0 .. E - 1 : FreshSlots(codec)[i] # padding_idx
  BY <1>1 DEF FreshSlots, AlphabetIndex, E, eof_idx, padding_idx, Blocks
<1>5. E' = E /\ B' = B /\ codec' = codec
  BY <1>2 DEF inputVars, E, B
<1>6. TypeOK'
  BY <1>1, <1>2, <1>3, <1>4, <1>5 DEF IInv, TypeOK, inputVars, Phases, Blocks
<1>7. Reading'
  BY <1>1, <1>2, <1>3, <1>4, <1>5 DEF Reading, Blocks
<1> QED
  BY <1>2, <1>5, <1>6, <1>7 DEF IInv, Encoding, EncodedSizeIsExact,
       CountingPadding, Finishing, Sized, Ended, Errors

(* What every step of the decoder leaves alone. *)
LEMMA Decoder ==
  ASSUME IInv, phase \notin {"encoding", "encoded"}
  PROVE  /\ codec \in Variants /\ Blocks(B, E) /\ B \in Nat /\ E \in Nat
         /\ Len(text) \in Nat /\ Len(result) \in Nat /\ result \in Seq(Byte)
         /\ src \in Nat /\ ptr \in 0 .. E - 1 /\ last \in Nat
         /\ capacity = decoded_max_size(codec, Len(text))
BY GeometryBlocks DEF IInv, TypeOK, Sized, B, E, Blocks

(* Whole blocks that took enough characters are inside the capacity. *)
LEMMA ResultFits ==
  ASSUME IInv, phase \notin {"encoding", "encoded"}, Len(result) % B = 0,
         NEW x \in Nat, E * Len(result) + B * x <= B * Len(text)
  PROVE  Len(result) <= capacity
<1>1. Len(result) <= (Len(text) \div E) * B
  BY Decoder, WholeBlocksFit
<1>2. (Len(text) \div E) * B <= capacity
  BY Decoder, DecodedSizeBounds DEF B, E
<1>3. (Len(text) \div E) * B \in Nat /\ capacity \in Nat /\ Len(result) \in Nat
  BY Decoder, WholeBlocksType DEF IInv, TypeOK
<1> QED
  BY <1>1, <1>2, <1>3

(* And so is one block more, when that one has all its characters. *)
LEMMA OneMoreFits ==
  ASSUME IInv, phase \notin {"encoding", "encoded"}, Len(result) % B = 0,
         E * Len(result) + B * E <= B * Len(text)
  PROVE  Len(result) + B <= capacity
<1>1. Len(result) + B <= (Len(text) \div E) * B
  BY Decoder, WholeBlocksFit
<1>2. (Len(text) \div E) * B <= capacity
  BY Decoder, DecodedSizeBounds DEF B, E
<1>3. (Len(text) \div E) * B \in Nat
  BY Decoder, WholeBlocksType
<1>4. capacity \in Nat /\ Len(result) + B \in Nat
  BY Decoder DEF IInv, TypeOK
<1> QED
  BY <1>1, <1>2, <1>3, <1>4

LEMMA SkipIgnoredInvariant == IInv /\ SkipIgnored => IInv'
<1> SUFFICES ASSUME IInv, SkipIgnored PROVE IInv'
  OBVIOUS
<1>1. /\ phase = "reading" /\ phase' = phase /\ src' = src + 1 /\ src < Len(text)
      /\ UNCHANGED <<inputVars, decoderVars, text, capacity>>
  BY DEF SkipIgnored, More
<1>2. E' = E /\ B' = B
  BY <1>1 DEF inputVars, E, B
<1>3. TypeOK'
  BY <1>1, <1>2 DEF IInv, TypeOK, inputVars, decoderVars
<1>4. Reading'
  <2>1. /\ Len(result) % B = 0 /\ last = 0
        /\ E * Len(result) + B * ptr <= B * src
        /\ \A i \in 0 .. E - 1 : slots[i] # padding_idx
    BY <1>1 DEF IInv, Reading
  <2>2. E * Len(result) + B * ptr <= B * (src + 1)
    BY <2>1, <1>1, Decoder, MoreCharacters
  <2>3. src + 1 <= Len(text)
    BY <1>1, Decoder
  <2> QED
    BY <1>1, <1>2, <2>1, <2>2, <2>3 DEF Reading, decoderVars
<1> QED
  BY <1>1, <1>3, <1>4 DEF IInv, Encoding, EncodedSizeIsExact, CountingPadding,
       Finishing, Sized, Ended, Errors, inputVars

LEMMA TakeSymbolInvariant == IInv /\ TakeSymbol => IInv'
<1> SUFFICES ASSUME IInv, TakeSymbol PROVE IInv'
  OBVIOUS
<1>1. /\ phase = "reading" /\ phase' = phase /\ src' = src + 1 /\ src < Len(text)
      /\ UNCHANGED <<inputVars, text, capacity, last>>
      /\ slots' = [slots EXCEPT ![ptr] = Looked]
  BY DEF TakeSymbol, More
<1>2. E' = E /\ B' = B /\ codec' = codec
  BY <1>1 DEF inputVars, E, B
<1>3. Looked \in AlphabetIndex /\ Looked # padding_idx
  <2>1. NextChar \in Char /\ codec \in Variants
    BY <1>1, Decoder DEF IInv, TypeOK, NextChar
  <2> QED
    BY <2>1, LookupType DEF TakeSymbol, Looked
<1>4. /\ Len(result) % B = 0 /\ last = 0
      /\ E * Len(result) + B * ptr <= B * src
      /\ \A i \in 0 .. E - 1 : slots[i] # padding_idx
  BY <1>1 DEF IInv, Reading
<1>5. /\ slots' \in [0 .. E - 1 -> AlphabetIndex]
      /\ \A i \in 0 .. E - 1 : slots'[i] # padding_idx
  BY <1>1, <1>3, <1>4 DEF IInv, TypeOK
<1>6. /\ result' \in Seq(Byte) /\ ptr' \in 0 .. E - 1
      /\ Len(result') % B = 0
      /\ E * Len(result') + B * ptr' <= B * (src + 1)
  <2>1. CASE ptr + 1 = E
    <3> DEFINE block == decode_block(codec, slots')
    <3>1. block \in Seq(Byte) /\ Len(block) = B
      BY <1>1, <1>5, Decoder, DecodedBlock DEF E, B
    <3>2. ptr' = 0 /\ result' = Put(result, block)
      BY <2>1 DEF TakeSymbol
    <3> HIDE DEF block
    <3>3. result' \in Seq(Byte) /\ Len(result') = Len(result) + B
      BY <1>1, <3>1, <3>2, Decoder, PutLength
    <3>4. (Len(result) + B) % B = 0 /\ E * (Len(result) + B) + B * 0 <= B * (src + 1)
      BY <1>1, <1>4, <2>1, Decoder, OneBlock
    <3>5. 0 \in 0 .. E - 1
      BY <1>1, Decoder
    <3> QED
      BY <3>2, <3>3, <3>4, <3>5
  <2>2. CASE ptr + 1 # E
    <3>1. ptr' = ptr + 1 /\ result' = result
      BY <2>2 DEF TakeSymbol
    <3>2. E * Len(result) + B * (ptr + 1) <= B * (src + 1)
      BY <1>1, <1>4, Decoder, OneSymbol
    <3>3. ptr + 1 \in 0 .. E - 1 /\ result \in Seq(Byte)
      BY <1>1, <2>2, Decoder
    <3> QED
      BY <1>4, <3>1, <3>2, <3>3
  <2> QED
    BY <2>1, <2>2
<1>7. TypeOK'
  BY <1>1, <1>2, <1>5, <1>6 DEF IInv, TypeOK, inputVars
<1>8. Reading'
  <2>1. src + 1 <= Len(text)
    BY <1>1, Decoder
  <2> QED
    BY <1>1, <1>2, <1>4, <1>5, <1>6, <2>1 DEF Reading
<1> QED
  BY <1>1, <1>2, <1>7, <1>8 DEF IInv, Encoding, EncodedSizeIsExact,
       CountingPadding, Finishing, Sized, Ended, Errors

(***************************************************************************)
(* The two ways out of the loop: what LeaveLoop does when the slot it is   *)
(* given is the one ptr points at.                                         *)
(***************************************************************************)
LEMMA LeaveLoopInvariant ==
  ASSUME IInv, phase = "reading", NEW slot \in AlphabetIndex,
         slots' \in [0 .. E - 1 -> AlphabetIndex], slots'[ptr] = slot,
         UNCHANGED <<inputVars, text, capacity, result, ptr>>,
         LeaveLoop(slot),
         slot = padding_idx => src < Len(text)
  PROVE  IInv'
<1>1. E' = E /\ B' = B /\ codec' = codec
  BY DEF inputVars, E, B
<1>2. /\ src <= Len(text) /\ Len(result) % B = 0 /\ last = 0
      /\ E * Len(result) + B * ptr <= B * src
  BY DEF IInv, Reading
<1>3. Len(result) <= capacity
  <2>1. E * Len(result) + B * ptr <= B * Len(text)
    BY <1>2, Decoder, MoreCharacters
  <2> QED
    BY <1>2, <2>1, Decoder, ResultFits
<1>4. UNCHANGED <<result, ptr, text, capacity>>
  OBVIOUS
<1>5. CASE slot = invalid_idx
  <2>1. phase' = "symbol_error" /\ src' = src /\ last' = last
    BY <1>5 DEF LeaveLoop
  <2>2. TypeOK'
    BY <1>1, <1>4, <2>1 DEF IInv, TypeOK, inputVars, Phases, Errors
  <2>3. Ended' /\ Sized'
    BY <1>1, <1>2, <1>3, <1>4, <2>1, Decoder DEF Ended, Sized, Blocks
  <2> QED
    BY <2>1, <2>2, <2>3 DEF IInv, Encoding, EncodedSizeIsExact, Reading,
         CountingPadding, Finishing
<1>6. CASE slot # invalid_idx /\ slot # padding_idx
  <2>1. phase' = "closing" /\ src' = src + 1 /\ last' = ptr
    BY <1>6 DEF LeaveLoop
  <2>2. TypeOK'
    BY <1>1, <1>4, <2>1, Decoder DEF IInv, TypeOK, inputVars, Phases
  <2>3. Finishing' /\ Sized'
    <3>1. E * Len(result) + B * ptr <= B * Len(text)
      BY <1>2, Decoder, MoreCharacters
    <3>2. ptr <= E
      BY Decoder
    <3> QED
      BY <1>1, <1>2, <1>4, <2>1, <3>1, <3>2, Decoder DEF Finishing, Sized
  <2> QED
    BY <2>1, <2>2, <2>3 DEF IInv, Encoding, EncodedSizeIsExact, Reading,
         CountingPadding, Ended, Errors
<1>7. CASE slot = padding_idx /\ ptr = 0
  <2>1. phase' = "padding_error" /\ src' = src + 1 /\ last' = ptr
    BY <1>7 DEF LeaveLoop, padding_idx, invalid_idx
  <2>2. TypeOK'
    BY <1>1, <1>4, <2>1, Decoder DEF IInv, TypeOK, inputVars, Phases, Errors
  <2>3. Ended' /\ Sized'
    BY <1>1, <1>3, <1>4, <2>1, Decoder DEF Ended, Sized, Blocks
  <2> QED
    BY <2>1, <2>2, <2>3 DEF IInv, Encoding, EncodedSizeIsExact, Reading,
         CountingPadding, Finishing
<1>8. CASE slot = padding_idx /\ ptr # 0
  <2>1. phase' = "padding" /\ src' = src + 1 /\ last' = ptr + 1
    BY <1>8 DEF LeaveLoop, padding_idx, invalid_idx
  <2>2. TypeOK'
    BY <1>1, <1>4, <2>1, Decoder DEF IInv, TypeOK, inputVars, Phases
  <2>3. CountingPadding' /\ Sized'
    <3>1. src + 1 <= Len(text) /\ ptr < ptr + 1 /\ ptr + 1 <= E
      BY <1>8, Decoder
    <3>2. E * Len(result) + B * (ptr + 1) <= B * (src + 1)
      BY <1>2, Decoder, OneSymbol
    <3> QED
      BY <1>1, <1>2, <1>4, <1>8, <2>1, <3>1, <3>2, Decoder DEF CountingPadding, Sized
  <2> QED
    BY <2>1, <2>2, <2>3 DEF IInv, Encoding, EncodedSizeIsExact, Reading,
         Finishing, Ended, Errors
<1> QED
  BY <1>5, <1>6, <1>7, <1>8

LEMMA StopAtCharacterInvariant == IInv /\ StopAtCharacter => IInv'
<1> SUFFICES ASSUME IInv, StopAtCharacter PROVE IInv'
  OBVIOUS
<1>1. /\ phase = "reading" /\ src < Len(text) /\ LeaveLoop(Looked)
      /\ slots' = [slots EXCEPT ![ptr] = Looked]
      /\ UNCHANGED <<inputVars, text, capacity, result, ptr>>
  BY DEF StopAtCharacter, More
<1>2. Looked \in AlphabetIndex
  <2>1. NextChar \in Char /\ codec \in Variants
    BY <1>1, Decoder DEF IInv, TypeOK, NextChar
  <2> QED
    BY <2>1, LookupType DEF Looked
<1>3. slots' \in [0 .. E - 1 -> AlphabetIndex] /\ slots'[ptr] = Looked
  BY <1>1, <1>2, Decoder DEF IInv, TypeOK
<1> QED
  BY <1>1, <1>2, <1>3, LeaveLoopInvariant

LEMMA StopAtEndInvariant == IInv /\ StopAtEnd => IInv'
<1> SUFFICES ASSUME IInv, StopAtEnd PROVE IInv'
  OBVIOUS
<1>1. /\ phase = "reading" /\ LeaveLoop(slots[ptr]) /\ slots' = slots
      /\ UNCHANGED <<inputVars, text, capacity, result, ptr>>
  BY DEF StopAtEnd
<1>2. /\ slots \in [0 .. E - 1 -> AlphabetIndex] /\ ptr \in 0 .. E - 1
      /\ slots[ptr] # padding_idx
  BY <1>1 DEF IInv, TypeOK, Reading
<1> QED
  BY <1>1, <1>2, LeaveLoopInvariant

LEMMA MorePaddingInvariant == IInv /\ MorePadding => IInv'
<1> SUFFICES ASSUME IInv, MorePadding PROVE IInv'
  OBVIOUS
<1>1. /\ phase = "padding" /\ src' = src + 1 /\ src < Len(text)
      /\ slots' = [slots EXCEPT ![ptr] = IF Looked = eof_idx THEN padding_idx
                                                            ELSE Looked]
      /\ UNCHANGED <<inputVars, text, capacity, result, ptr>>
  BY DEF MorePadding, More
<1>2. E' = E /\ B' = B /\ codec' = codec
  BY <1>1 DEF inputVars, E, B
<1>3. Looked \in AlphabetIndex
  <2>1. NextChar \in Char /\ codec \in Variants
    BY <1>1, Decoder DEF IInv, TypeOK, NextChar
  <2> QED
    BY <2>1, LookupType DEF Looked
<1>4. /\ Len(result) % B = 0 /\ last <= E /\ ptr < last
      /\ E * Len(result) + B * last <= B * src
  BY <1>1 DEF IInv, CountingPadding
<1>5. Len(result) <= capacity
  <2>1. E * Len(result) + B * last <= B * Len(text)
    BY <1>1, <1>4, Decoder, MoreCharacters
  <2> QED
    BY <1>1, <1>4, <2>1, Decoder, ResultFits
<1>6. slots' \in [0 .. E - 1 -> AlphabetIndex]
  BY <1>1, <1>3 DEF IInv, TypeOK, AlphabetIndex
<1>7. last' \in Nat
  BY <1>1, Decoder DEF MorePadding
<1>8. phase' \in {"closing", "padding_error", "padding"}
  BY DEF MorePadding
<1>9. TypeOK'
  BY <1>1, <1>2, <1>6, <1>7, <1>8 DEF IInv, TypeOK, inputVars, Phases, Errors
<1>10. Sized'
  BY <1>1, <1>2, Decoder DEF Sized
<1>11. CASE Looked = eof_idx
  <2>1. /\ phase' = "closing" /\ last' = last /\ slots'[ptr] = padding_idx
    BY <1>1, <1>11, Decoder DEF MorePadding, eof_idx, padding_idx, IInv, TypeOK
  <2>2. E * Len(result) + B * last <= B * Len(text)
    BY <1>1, <1>4, Decoder, MoreCharacters
  <2>3. Finishing'
    BY <1>1, <1>2, <1>4, <2>1, <2>2 DEF Finishing
  <2> QED
    BY <1>9, <1>10, <2>1, <2>3 DEF IInv, Encoding, EncodedSizeIsExact, Reading,
         CountingPadding, Ended, Errors
<1>12. CASE Looked = padding_idx /\ last + 1 <= E
  <2>1. last' = last + 1 /\ phase' = "padding" /\ slots'[ptr] = padding_idx
    <3>1. last' = last + 1 /\ Looked # eof_idx
      BY <1>12 DEF MorePadding, eof_idx, padding_idx
    <3>2. ~(last' > E)
      BY <1>1, <1>12, <3>1, Decoder
    <3>3. phase' = "padding"
      BY <1>12, <3>1, <3>2 DEF MorePadding
    <3>4. slots'[ptr] = padding_idx
      BY <1>1, <1>12, <3>1, Decoder DEF IInv, TypeOK
    <3> QED
      BY <3>1, <3>3, <3>4
  <2>2. E * Len(result) + B * (last + 1) <= B * (src + 1)
    BY <1>1, <1>4, Decoder, OneSymbol
  <2>3. src + 1 <= Len(text) /\ ptr < last + 1
    BY <1>1, <1>4, Decoder
  <2>4. CountingPadding'
    BY <1>1, <1>2, <1>4, <1>12, <2>1, <2>2, <2>3 DEF CountingPadding
  <2> QED
    BY <1>9, <1>10, <2>1, <2>4 DEF IInv, Encoding, EncodedSizeIsExact, Reading,
         Finishing, Ended, Errors
<1>13. CASE Looked # eof_idx /\ ~(Looked = padding_idx /\ last + 1 <= E)
  <2>1. phase' = "padding_error" /\ last' <= E + 1
    BY <1>1, <1>4, <1>13, Decoder DEF MorePadding
  <2>2. Ended'
    BY <1>1, <1>2, <1>5, <2>1 DEF Ended
  <2> QED
    BY <1>9, <1>10, <2>1, <2>2 DEF IInv, Encoding, EncodedSizeIsExact, Reading,
         CountingPadding, Finishing
<1> QED
  BY <1>11, <1>12, <1>13

LEMMA PaddingEndsInvariant == IInv /\ PaddingEnds => IInv'
<1> SUFFICES ASSUME IInv, PaddingEnds PROVE IInv'
  OBVIOUS
<1>1. /\ phase = "padding" /\ phase' = "closing"
      /\ UNCHANGED <<inputVars, decoderVars, text, capacity, src>>
  BY DEF PaddingEnds
<1>2. E' = E /\ B' = B
  BY <1>1 DEF inputVars, E, B
<1>3. TypeOK' /\ Sized'
  BY <1>1, <1>2, Decoder DEF IInv, TypeOK, Sized, inputVars, decoderVars, Phases
<1>4. Finishing'
  <2>1. /\ Len(result) % B = 0 /\ last <= E /\ slots[ptr] = padding_idx
        /\ E * Len(result) + B * last <= B * src /\ src <= Len(text)
    BY <1>1 DEF IInv, CountingPadding
  <2>2. E * Len(result) + B * last <= B * Len(text)
    BY <1>1, <2>1, Decoder, MoreCharacters
  <2> QED
    BY <1>1, <1>2, <2>1, <2>2 DEF Finishing, decoderVars
<1> QED
  BY <1>1, <1>3, <1>4 DEF IInv, Encoding, EncodedSizeIsExact, Reading,
       CountingPadding, Ended, Errors

(* What is known where a tail is closed, or found wrong. *)
LEMMA Closing ==
  ASSUME IInv, phase = "closing"
  PROVE  /\ Len(result) % B = 0 /\ last <= E
         /\ E * Len(result) + B * last <= B * Len(text)
         /\ Len(result) <= capacity
<1>1. /\ Len(result) % B = 0 /\ last <= E
      /\ E * Len(result) + B * last <= B * Len(text)
  BY DEF IInv, Finishing
<1>2. Len(result) <= capacity
  BY <1>1, Decoder, ResultFits
<1> QED
  BY <1>1, <1>2

LEMMA CloseWithoutTailInvariant == IInv /\ (CloseWhole \/ CloseWithError) => IInv'
<1> SUFFICES ASSUME IInv, CloseWhole \/ CloseWithError PROVE IInv'
  OBVIOUS
<1>1. /\ phase = "closing"
      /\ UNCHANGED <<inputVars, decoderVars, text, capacity, src>>
  BY DEF CloseWhole, CloseWithError
<1>2. phase' \in {"decoded", "padding_error", "invalid_input_length"}
  BY <1>1, Decoder DEF CloseWhole, CloseWithError
<1>3. E' = E /\ B' = B
  BY <1>1 DEF inputVars, E, B
<1>4. TypeOK' /\ Sized'
  BY <1>1, <1>2, <1>3, Decoder DEF IInv, TypeOK, Sized, inputVars, decoderVars,
                                   Phases, Errors
<1>5. last <= E + 1 /\ Len(result) <= capacity
  BY <1>1, Closing, Decoder
<1>6. Ended'
  BY <1>1, <1>2, <1>3, <1>5 DEF Ended, decoderVars
<1> QED
  BY <1>2, <1>4, <1>6 DEF IInv, Encoding, EncodedSizeIsExact, Reading,
       CountingPadding, Finishing

(***************************************************************************)
(* The tail fits: behind a full account of padding it is less than the     *)
(* block the padding pays for, without padding the variant's capacity has  *)
(* room for it.                                                            *)
(***************************************************************************)
LEMMA CloseTailInvariant == IInv /\ CloseTail => IInv'
<1> SUFFICES ASSUME IInv, CloseTail PROVE IInv'
  OBVIOUS
<1> DEFINE tail == decode_tail(codec, slots, ptr)
<1>1. /\ phase = "closing" /\ phase' = "decoded" /\ result' = Put(result, tail)
      /\ UNCHANGED <<inputVars, text, capacity, src, slots, ptr, last>>
      /\ ptr \in tail_lengths(codec)
  BY DEF CloseTail
<1>2. tail \in Seq(Byte) /\ E * Len(tail) <= B * ptr
  BY <1>1, DecodedTail DEF IInv, TypeOK, E, B
<1> HIDE DEF tail
<1>3. result' \in Seq(Byte) /\ Len(result') = Len(result) + Len(tail)
  BY <1>1, <1>2, Decoder, PutLength
<1>4. E' = E /\ B' = B
  BY <1>1 DEF inputVars, E, B
<1>5. TypeOK' /\ Sized'
  BY <1>1, <1>3, <1>4, Decoder DEF IInv, TypeOK, Sized, inputVars, Phases
<1>6. Len(result) + Len(tail) <= capacity
  <2>1. CASE last = E
    <3>1. E * Len(result) + B * E <= B * Len(text)
      BY <1>1, <2>1, Closing
    <3>2. Len(result) + B <= capacity
      BY <1>1, <3>1, Closing, OneMoreFits
    <3>3. Len(tail) <= B
      BY <1>1, <1>2, Decoder DEF Blocks
    <3> QED
      BY <1>1, <1>2, <3>2, <3>3, Decoder DEF IInv, TypeOK
  <2>2. CASE last # E
    <3>1. ~codec.requires_padding /\ slots[ptr] # padding_idx
      BY <2>2 DEF CloseTail, PaddingMissing
    <3>2. last = ptr
      BY <1>1, <3>1 DEF IInv, Finishing
    <3>3. Len(result) % B = 0 /\ E * Len(result) + B * ptr <= B * Len(text)
      BY <1>1, <3>2, Closing
    <3>4. ptr \in Nat /\ ptr < E /\ Len(tail) \in Nat
      BY <1>1, <1>2, Decoder
    <3>5. Len(result) + Len(tail)
            <= (Len(text) \div E) * B + ((Len(text) % E) * B) \div E
      BY <1>1, <1>2, <3>3, <3>4, Decoder, TailFits
    <3>6. capacity = (Len(text) \div E) * B + ((Len(text) % E) * B) \div E
      BY <1>1, <3>1, Decoder, DecodedSizeBounds DEF B, E
    <3> QED
      BY <3>5, <3>6
  <2> QED
    BY <2>1, <2>2
<1>7. last <= E + 1
  BY <1>1, Closing, Decoder
<1>8. Ended'
  BY <1>1, <1>3, <1>4, <1>6, <1>7 DEF Ended
<1> QED
  BY <1>1, <1>5, <1>8 DEF IInv, Encoding, EncodedSizeIsExact, Reading,
       CountingPadding, Finishing

(* Nothing else happens. *)
LEMMA StutterInvariant == IInv /\ UNCHANGED vars => IInv'
BY DEF vars, IInv, TypeOK, Encoding, EncodedSizeIsExact, Reading, CountingPadding,
       Finishing, Sized, Ended, B, E

(* IInv holds in every state of encode and decode. *)
THEOREM Invariance == Spec => []IInv
<1>1. IInv /\ [Next]_vars => IInv'
  BY EncodeBlockInvariant, EncodeTailInvariant, EncodeEndsInvariant,
     StartDecodingInvariant, SkipIgnoredInvariant, TakeSymbolInvariant,
     StopAtCharacterInvariant, StopAtEndInvariant, MorePaddingInvariant,
     PaddingEndsInvariant, CloseWithoutTailInvariant, CloseTailInvariant,
     StutterInvariant
  DEF Next, Encode, Decode
<1> QED
  BY <1>1, InitInvariant, PTL DEF Spec

(***************************************************************************)
(* The variables keep their types for every variant, binary and text: each *)
(* symbol is a character, each slot an alphabet index, each byte a byte.   *)
(***************************************************************************)
THEOREM TypeCorrect == Spec => []TypeOK
<1>1. IInv => TypeOK
  BY DEF IInv
<1> QED
  BY <1>1, Invariance, PTL

(***************************************************************************)
(* The unchecked writes of encode and decode never pass the size their     *)
(* buffer was given, whatever the text is.                                 *)
(***************************************************************************)
THEOREM NeverOverrun == Spec => []WithinCapacity
<1>1. IInv => WithinCapacity
  <2> SUFFICES ASSUME IInv PROVE WithinCapacity
    OBVIOUS
  <2>1. CASE phase = "encoding"
    <3>1. /\ codec \in Variants /\ Blocks(B, E) /\ Len(text) \in Nat /\ src \in Nat
          /\ Len(binary) \in Nat
      BY GeometryBlocks DEF IInv, TypeOK, B, E
    <3>2. /\ capacity = encoded_size(codec, Len(binary)) /\ src <= Len(binary)
          /\ B * Len(text) = E * src
      BY <2>1 DEF IInv, Encoding
    <3>3. Len(text) <= encoded_size(codec, Len(binary))
      BY <3>1, <3>2, EncodedSizeBound DEF B, E
    <3> QED
      BY <2>1, <3>2, <3>3 DEF WithinCapacity
  <2>2. CASE phase = "encoded"
    BY <2>2 DEF IInv, TypeOK, EncodedSizeIsExact, WithinCapacity
  <2>3. CASE phase = "reading"
    <3>1. /\ Len(result) % B = 0 /\ src <= Len(text)
          /\ E * Len(result) + B * ptr <= B * src
      BY <2>3 DEF IInv, Reading
    <3>2. E * Len(result) + B * ptr <= B * Len(text)
      BY <2>3, <3>1, Decoder, MoreCharacters
    <3>3. Len(result) <= capacity
      BY <2>3, <3>1, <3>2, Decoder, ResultFits
    <3> QED
      BY <2>3, <3>3 DEF WithinCapacity
  <2>4. CASE phase = "padding"
    <3>1. /\ Len(result) % B = 0 /\ src <= Len(text)
          /\ E * Len(result) + B * last <= B * src
      BY <2>4 DEF IInv, CountingPadding
    <3>2. E * Len(result) + B * last <= B * Len(text)
      BY <2>4, <3>1, Decoder, MoreCharacters
    <3>3. Len(result) <= capacity
      BY <2>4, <3>1, <3>2, Decoder, ResultFits
    <3> QED
      BY <2>4, <3>3 DEF WithinCapacity
  <2>5. CASE phase = "closing"
    BY <2>5, Closing DEF WithinCapacity
  <2>6. CASE phase \in {"decoded"} \union Errors
    BY <2>6 DEF IInv, Ended, Errors, WithinCapacity
  <2> QED
    BY <2>1, <2>2, <2>3, <2>4, <2>5, <2>6 DEF IInv, TypeOK, Phases
<1> QED
  BY <1>1, Invariance, PTL

(***************************************************************************)
(* The assertion of codec::encode: the text has exactly the size computed  *)
(* for it, padded or not.                                                  *)
(***************************************************************************)
THEOREM EncodedSizeAlwaysExact == Spec => []EncodedSizeIsExact
<1>1. IInv => EncodedSizeIsExact
  BY DEF IInv
<1> QED
  BY <1>1, Invariance, PTL

(***************************************************************************)
(* The abort() of stream_codec::decode is never reached, and padding is    *)
(* never counted more than one past the block.                             *)
(***************************************************************************)
THEOREM NeverAborts == Spec => []SlotsHold
<1>1. IInv => SlotsHold
  <2> SUFFICES ASSUME IInv PROVE SlotsHold
    OBVIOUS
  <2>1. codec \in Variants /\ E \in Nat /\ Blocks(B, E) /\ last \in Nat
    BY GeometryBlocks DEF IInv, TypeOK, B, E, Blocks
  <2>2. phase # "aborted"
    BY DEF IInv, Ended, Errors
  <2>3. last <= E + 1
    BY <2>1 DEF IInv, TypeOK, Phases, Reading, CountingPadding, Finishing, Ended
  <2> QED
    BY <2>2, <2>3 DEF SlotsHold
<1> QED
  BY <1>1, Invariance, PTL

-----------------------------------------------------------------------------
(***************************************************************************)
(* What is decoded, and not only how much: MeaningInv says at each point   *)
(* of the loops which symbols of the text have been spelt, by the bytes in *)
(* the result and by the slots, and that padding is all that can follow.   *)
(* The meaning of a text is that of TextMeaning, which knows no loop; its  *)
(* recursion, and that of the bits, is dealt with in TextMeaning_proofs.   *)
(***************************************************************************)

(***************************************************************************)
(* What decode has spelt of the symbols s: q blocks of them are in res,    *)
(* byte for byte, and the n that are left are in the slots.                *)
(***************************************************************************)
Spells(v, s, q, res, idx, n) ==
  /\ Len(s) = encoded_block_size(v) * q + n
  /\ Len(res) = binary_block_size(v) * q
  /\ \A j \in 1 .. Len(res) : res[j] = ByteAt(v, s, j)
  /\ Holds(v, s, q, idx, n)

Spelt(s) == \E q \in Nat : Spells(codec, s, q, result, slots, ptr)

(***************************************************************************)
(* While reading: no Nul has been met, and what was kept of the characters *)
(* read is symbols, all of them spelt.  A slot holds no mark of the end,   *)
(* except slot 0, which starts with one.                                   *)
(***************************************************************************)
SymbolsRead ==
  LET read == Kept(codec, text)[src]
  IN  phase = "reading" =>
        /\ \A i \in 1 .. src : text[i] # Nul
        /\ \A i \in 1 .. Len(read) : read[i] < alphabet_size(codec)
        /\ Spelt(read)
        /\ \A i \in 0 .. E - 1 : slots[i] # invalid_idx

(***************************************************************************)
(* While counting padding: n symbols, all of them spelt, and then nothing  *)
(* but padding, as many characters of it as last is ahead of ptr.          *)
(***************************************************************************)
SymbolsThenPadding(n) ==
  /\ src = n + (last - ptr)
  /\ \A i \in 1 .. n : text[i] < alphabet_size(codec)
  /\ \A i \in n + 1 .. src : text[i] = Equals
  /\ Spelt(SubSeq(text, 1, n))

PaddingRead ==
  phase = "padding" =>
    /\ codec.padding_symbol /\ ptr > 0
    /\ \E n \in 0 .. Len(text) : SymbolsThenPadding(n)

(***************************************************************************)
(* Before the tail is dealt with: all the symbols of the text are spelt,   *)
(* and padding is all that follows them.                                   *)
(***************************************************************************)
OnlyPadding ==
  \A i \in SymbolCount(codec, text) + 1 .. Len(Written(codec, text)) :
    Written(codec, text)[i] = Equals /\ codec.padding_symbol

AllRead ==
  phase = "closing" =>
    /\ Spelt(Symbols(codec, text))
    /\ OnlyPadding
    /\ ptr <= last /\ Pads(codec, text) = last - ptr
    /\ ptr < last => ptr > 0 /\ slots[ptr] = padding_idx
    /\ slots[ptr] = padding_idx => ptr < last

(***************************************************************************)
(* While encoding: q blocks of the binary are in the text, and its symbols *)
(* spell them.  The text that results is well formed and means the binary. *)
(***************************************************************************)
BlocksWritten ==
  phase = "encoding" =>
    \E q \in Nat :
      /\ src = B * q /\ Len(text) = E * q
      /\ \A i \in 1 .. Len(text) : text[i] < alphabet_size(codec)
      /\ \A j \in 1 .. src : ByteAt(codec, text, j) = binary[j]

TextMeansBinary ==
  ~given /\ phase # "encoding" =>
    WellFormed(codec, text) /\ Meaning(codec, text) = binary

MeaningInv ==
  /\ SymbolsRead /\ PaddingRead /\ AllRead
  /\ DecodesTheWellFormed
  /\ BlocksWritten /\ TextMeansBinary

-----------------------------------------------------------------------------
(* What Spells says of a block more, and of the end of the symbols.        *)

(* Block q, and the one after it. *)
LEMMA BlockPlaces ==
  ASSUME NEW b, NEW e, Blocks(b, e), NEW q \in Nat
  PROVE  /\ b \in Nat /\ e \in Nat /\ b * q \in Nat /\ e * q \in Nat
         /\ b * (q + 1) = b * q + b /\ e * (q + 1) = e * q + e
<1>1. CASE b = 3 /\ e = 4
  BY <1>1
<1>2. CASE b = 5 /\ e = 8
  BY <1>2
<1>3. CASE b = 1 /\ e = 2
  BY <1>3
<1> QED
  BY <1>1, <1>2, <1>3 DEF Blocks

(* The byte count of q blocks and n symbols. *)
LEMMA SpellsCount ==
  ASSUME NEW v \in Variants, NEW s, NEW q \in Nat, NEW res, NEW idx,
         NEW n \in 0 .. encoded_block_size(v) - 1, Spells(v, s, q, res, idx, n)
  PROVE  /\ ByteCount(v, Len(s)) = Len(res) + ByteCount(v, n)
         /\ ByteCount(v, 0) = 0
         /\ ByteCount(v, n) \in Nat
         /\ Len(s) \in Nat /\ Len(res) \in Nat
         /\ Len(s) % encoded_block_size(v) = n
<1>1. /\ ByteCount(v, encoded_block_size(v) * q + n)
           = binary_block_size(v) * q + ByteCount(v, n)
      /\ ByteCount(v, 0) = 0
      /\ (encoded_block_size(v) * q + n) % encoded_block_size(v) = n
  BY Counts
<1>2. ByteCount(v, n) \in Nat
  BY Families DEF ByteCount
<1>3. encoded_block_size(v) * q + n \in Nat /\ binary_block_size(v) * q \in Nat
  BY Families
<1> QED
  BY <1>1, <1>2, <1>3 DEF Spells

(* More symbols after s leave the bytes of its blocks alone. *)
LEMMA SpeltStays ==
  ASSUME NEW v \in Variants, NEW s \in Seq(Char), NEW q \in Nat, NEW res, NEW idx,
         NEW n \in 0 .. encoded_block_size(v) - 1, Spells(v, s, q, res, idx, n),
         NEW r, \A j \in 1 .. Len(s) : s[j] = r[j]
  PROVE  \A j \in 1 .. Len(res) : res[j] = ByteAt(v, r, j)
<1>1. /\ ByteCount(v, Len(s)) = Len(res) + ByteCount(v, n)
      /\ ByteCount(v, n) \in Nat /\ Len(s) \in Nat /\ Len(res) \in Nat
  BY SpellsCount
<1> SUFFICES ASSUME NEW j \in 1 .. Len(res) PROVE res[j] = ByteAt(v, r, j)
  OBVIOUS
<1>2. j \in 1 .. ByteCount(v, Len(s))
  BY <1>1
<1>3. ByteAt(v, s, j) = ByteAt(v, r, j)
  BY <1>1, <1>2, ByteAtExtends
<1>4. res[j] = ByteAt(v, s, j)
  BY DEF Spells
<1> QED
  BY <1>3, <1>4

(* Bytes put behind those of q blocks, when they are what s spells there. *)
LEMMA BytesPut ==
  ASSUME NEW v \in Variants, NEW s, NEW res \in Seq(Byte), NEW more \in Seq(Byte),
         \A j \in 1 .. Len(res) : res[j] = ByteAt(v, s, j),
         \A r \in 1 .. Len(more) : more[r] = ByteAt(v, s, Len(res) + r)
  PROVE  \A j \in 1 .. Len(Put(res, more)) : Put(res, more)[j] = ByteAt(v, s, j)
<1> SUFFICES ASSUME NEW j \in 1 .. Len(Put(res, more))
             PROVE  Put(res, more)[j] = ByteAt(v, s, j)
  OBVIOUS
<1>1. Len(Put(res, more)) = Len(res) + Len(more)
  BY PutLength
<1>2. CASE j <= Len(res)
  <2>1. Put(res, more)[j] = res[j]
    BY <1>1, <1>2 DEF Put
  <2> QED
    BY <1>2, <2>1
<1>3. CASE j > Len(res)
  <2>1. j - Len(res) \in 1 .. Len(more) /\ Len(res) + (j - Len(res)) = j
    BY <1>1, <1>3
  <2>2. Put(res, more)[j] = more[j - Len(res)]
    BY <1>1, <1>3 DEF Put
  <2>3. more[j - Len(res)] = ByteAt(v, s, Len(res) + (j - Len(res)))
    BY <2>1
  <2> QED
    BY <2>1, <2>2, <2>3
<1> QED
  BY <1>2, <1>3

(***************************************************************************)
(* A symbol more: it is held by its slot, and when that is the last one    *)
(* the block is decoded to the bytes that its symbols spell.               *)
(***************************************************************************)
LEMMA SpellsSymbol ==
  ASSUME NEW v \in Variants, NEW s \in Seq(Char), NEW q \in Nat,
         NEW res \in Seq(Byte), NEW n \in 0 .. encoded_block_size(v) - 1,
         NEW idx, Spells(v, s, q, res, idx, n),
         NEW c \in Char, c \in 0 .. alphabet_size(v) - 1, NEW new, new[n] = c,
         \A i \in 0 .. n - 1 : new[i] = idx[i],
         \A i \in 0 .. encoded_block_size(v) - 1 : new[i] \in AlphabetIndex
  PROVE  /\ n + 1 # encoded_block_size(v)
              => Spells(v, Append(s, c), q, res, new, n + 1)
         /\ n + 1 = encoded_block_size(v)
              => Spells(v, Append(s, c), q + 1, Put(res, decode_block(v, new)), new, 0)
<1> DEFINE e == encoded_block_size(v)
           b == binary_block_size(v)
           t == Append(s, c)
           p == e * q
<1>1. /\ b \in Nat /\ e \in Nat /\ b * q \in Nat /\ p \in Nat
      /\ b * (q + 1) = b * q + b /\ e * (q + 1) = p + e
  BY GeometryBlocks, BlockPlaces
<1>2. Len(s) = p + n /\ Len(res) = b * q /\ Holds(v, s, q, idx, n)
  BY DEF Spells
<1> HIDE DEF p, t
<1>3. n \in Nat
  BY <1>1
<1>4. t \in Seq(Char) /\ Len(t) = p + n + 1 /\ t[p + n + 1] = c
  <2>1. t \in Seq(Char) /\ Len(t) = Len(s) + 1 /\ t[Len(s) + 1] = c
    BY DEF t
  <2> QED
    BY <1>2, <2>1
<1>5. \A j \in 1 .. Len(s) : s[j] = t[j]
  BY DEF t
<1> HIDE DEF e, b
<1>6. \A j \in 1 .. Len(res) : res[j] = ByteAt(v, t, j)
  BY <1>5, SpeltStays
<1>7. Holds(v, t, q, new, n + 1)
  <2>1. ASSUME NEW i \in 0 .. n
        PROVE  new[i] = t[p + i + 1] /\ new[i] \in 0 .. alphabet_size(v) - 1
    <3>1. CASE i = n
      BY <1>3, <1>4, <3>1
    <3>2. CASE i # n
      <4>1. i \in 0 .. n - 1 /\ new[i] = idx[i]
        BY <1>1, <1>3, <3>2 DEF e
      <4>2. idx[i] = s[p + i + 1] /\ idx[i] \in 0 .. alphabet_size(v) - 1
        BY <1>2, <4>1 DEF Holds, p, e
      <4>3. p + i + 1 \in 1 .. Len(s)
        BY <1>1, <1>2, <1>3, <4>1
      <4> QED
        BY <1>5, <4>1, <4>2, <4>3
    <3> QED
      BY <3>1, <3>2
  <2>2. (n + 1) - 1 = n
    BY <1>3
  <2> QED
    BY <2>1, <2>2 DEF Holds, p, e
<1>8. ASSUME n + 1 # e PROVE Spells(v, t, q, res, new, n + 1)
  <2>1. Len(t) = p + (n + 1)
    BY <1>1, <1>3, <1>4
  <2> QED
    BY <1>2, <1>6, <1>7, <2>1 DEF Spells, p, e, b
<1>9. ASSUME n + 1 = e
      PROVE  Spells(v, t, q + 1, Put(res, decode_block(v, new)), new, 0)
  <2> DEFINE block == decode_block(v, new)
  <2>1. Len(block) = b /\ \A r \in 1 .. b : block[r] = ByteAt(v, t, b * q + r)
    <3>1. Holds(v, t, q, new, e)
      BY <1>7, <1>9
    <3>2. Holds(v, t, q, new, encoded_block_size(v))
      BY <3>1 DEF e
    <3> QED
      BY <3>2, BlockMeaning DEF b, block
  <2>2. block \in Seq(Byte)
    BY DecodedBlock
  <2> HIDE DEF block
  <2>3. Len(Put(res, block)) = b * (q + 1)
    <3>1. Len(Put(res, block)) = Len(res) + Len(block)
      BY <2>2, PutLength
    <3> QED
      BY <1>1, <1>2, <2>1, <3>1
  <2>4. \A j \in 1 .. Len(Put(res, block)) : Put(res, block)[j] = ByteAt(v, t, j)
    <3>1. \A r \in 1 .. Len(block) : block[r] = ByteAt(v, t, Len(res) + r)
      BY <1>2, <2>1
    <3> QED
      BY <1>6, <2>2, <3>1, BytesPut
  <2>5. Len(t) = e * (q + 1) + 0
    <3>1. p + n + 1 = p + e
      BY <1>1, <1>3, <1>9
    <3> QED
      BY <1>1, <1>4, <3>1
  <2>6. Holds(v, t, q + 1, new, 0)
    BY DEF Holds
  <2> QED
    BY <2>3, <2>4, <2>5, <2>6 DEF Spells, block, e, b
<1> QED
  BY <1>8, <1>9 DEF t, e

(***************************************************************************)
(* The end of the symbols: nothing is left, or a tail that decode_tail     *)
(* takes, and the bytes are the meaning of the text.                       *)
(***************************************************************************)
LEMMA SpellsWhole ==
  ASSUME NEW v \in Variants, NEW t \in Seq(Char), NEW q \in Nat,
         NEW res \in Seq(Byte), NEW idx, Spells(v, Symbols(v, t), q, res, idx, 0)
  PROVE  res = Meaning(v, t) /\ SymbolCount(v, t) % encoded_block_size(v) = 0
<1>1. Len(Symbols(v, t)) = SymbolCount(v, t)
  BY WrittenType
<1>2. 0 \in 0 .. encoded_block_size(v) - 1
  BY Families
<1>3. /\ ByteCount(v, SymbolCount(v, t)) = Len(res)
      /\ SymbolCount(v, t) % encoded_block_size(v) = 0
  BY <1>1, <1>2, SpellsCount
<1>4. \A i \in 1 .. Len(res) : res[i] = ByteAt(v, Symbols(v, t), i)
  BY DEF Spells
<1> QED
  BY <1>3, <1>4, MeaningIs

LEMMA SpellsTail ==
  ASSUME NEW v \in Variants, NEW t \in Seq(Char), NEW q \in Nat,
         NEW res \in Seq(Byte), NEW n \in tail_lengths(v),
         NEW idx \in [0 .. encoded_block_size(v) - 1 -> AlphabetIndex],
         Spells(v, Symbols(v, t), q, res, idx, n)
  PROVE  Put(res, decode_tail(v, idx, n)) = Meaning(v, t)
<1> DEFINE s == Symbols(v, t)
           tail == decode_tail(v, idx, n)
<1>1. Len(s) = SymbolCount(v, t)
  BY WrittenType
<1>2. n \in 0 .. encoded_block_size(v) - 1
  BY Families
<1>3. ByteCount(v, SymbolCount(v, t)) = Len(res) + ByteCount(v, n)
  BY <1>1, <1>2, SpellsCount
<1>4. /\ Len(res) = binary_block_size(v) * q /\ Holds(v, s, q, idx, n)
      /\ \A j \in 1 .. Len(res) : res[j] = ByteAt(v, s, j)
  BY DEF Spells
<1>5. /\ Len(tail) = ByteCount(v, n)
      /\ \A r \in 1 .. ByteCount(v, n) :
           tail[r] = ByteAt(v, s, binary_block_size(v) * q + r)
  BY <1>4, TailMeaning
<1>6. tail \in Seq(Byte)
  BY DecodedTail
<1> HIDE DEF tail, s
<1>7. Put(res, tail) \in Seq(Byte) /\ Len(Put(res, tail)) = Len(res) + Len(tail)
  BY <1>6, PutLength
<1>8. \A j \in 1 .. Len(Put(res, tail)) : Put(res, tail)[j] = ByteAt(v, s, j)
  <2>1. \A r \in 1 .. Len(tail) : tail[r] = ByteAt(v, s, Len(res) + r)
    BY <1>4, <1>5
  <2> QED
    BY <1>4, <1>6, <2>1, BytesPut
<1> QED
  BY <1>3, <1>5, <1>7, <1>8, MeaningIs DEF s, tail

-----------------------------------------------------------------------------
(* What makes a text well formed, and what does not.                       *)

LEMMA AlphabetSize ==
  ASSUME NEW v \in Variants
  PROVE  alphabet_size(v) \in Nat
BY Alphabet

(* The first n symbols spell their bytes without those that follow. *)
LEMMA ByteAtPrefix ==
  ASSUME NEW v \in Variants, NEW t \in Seq(Char), NEW n \in 0 .. Len(t),
         NEW i \in 1 .. ByteCount(v, n)
  PROVE  ByteAt(v, t, i) = ByteAt(v, SubSeq(t, 1, n), i)
<1> DEFINE s == SubSeq(t, 1, n)
<1>1. \A j \in 1 .. n : t[j] = s[j]
  OBVIOUS
<1>2. n \in Nat
  OBVIOUS
<1> HIDE DEF s
<1>3. ByteAt(v, t, i) = ByteAt(v, s, i)
  BY <1>1, <1>2, ByteAtExtends
<1> QED
  BY <1>3 DEF s

(* n characters of t are symbols, q blocks and m more of them; padding is  *)
(* all that follows, as much of it as the variant asks for.                *)
LaidOut(v, t, q, m, n) ==
  /\ n = encoded_block_size(v) * q + m
  /\ \A i \in 1 .. n : t[i] < alphabet_size(v)
  /\ \A i \in n + 1 .. Len(t) : t[i] = Equals /\ v.padding_symbol
  /\ m = 0 => Len(t) = n
  /\ m # 0 => /\ m \in tail_lengths(v)
              /\ \/ m + (Len(t) - n) = encoded_block_size(v)
                 \/ Len(t) = n /\ ~v.requires_padding

(* Those symbols spell the bytes. *)
Carries(v, t, q, m, bytes) ==
  /\ Len(bytes) = binary_block_size(v) * q + ByteCount(v, m)
  /\ \A j \in 1 .. Len(bytes) : ByteAt(v, t, j) = bytes[j]

(* Such a text is well formed and means the bytes. *)
LEMMA TextOf ==
  ASSUME NEW v \in Variants, NEW t \in Seq(Char), NEW q \in Nat,
         NEW m \in 0 .. encoded_block_size(v) - 1, NEW n \in 0 .. Len(t),
         LaidOut(v, t, q, m, n),
         NEW bytes \in Seq(Byte), Carries(v, t, q, m, bytes)
  PROVE  WellFormed(v, t) /\ Meaning(v, t) = bytes
<1>0. /\ n = encoded_block_size(v) * q + m
      /\ \A i \in 1 .. n : t[i] < alphabet_size(v)
      /\ \A i \in n + 1 .. Len(t) : t[i] = Equals /\ v.padding_symbol
      /\ Len(bytes) = binary_block_size(v) * q + ByteCount(v, m)
      /\ \A j \in 1 .. Len(bytes) : ByteAt(v, t, j) = bytes[j]
  BY DEF LaidOut, Carries
<1>1. /\ Written(v, t) = t /\ SymbolCount(v, t) = n
      /\ Symbols(v, t) = SubSeq(t, 1, n) /\ Pads(v, t) = Len(t) - n
  BY <1>0, PlainText
<1>2. /\ ByteCount(v, n) = Len(bytes)
      /\ n % encoded_block_size(v) = m
  BY <1>0, Counts
<1>3. WellFormed(v, t)
  <2>1. \A i \in SymbolCount(v, t) + 1 .. Len(Written(v, t)) :
          Written(v, t)[i] = Equals /\ v.padding_symbol
    BY <1>0, <1>1
  <2>2. m = 0 => Pads(v, t) = 0
    BY <1>0, <1>1 DEF LaidOut
  <2>3. m # 0 => /\ m \in tail_lengths(v)
                 /\ \/ m + Pads(v, t) = encoded_block_size(v)
                    \/ Pads(v, t) = 0 /\ ~v.requires_padding
    BY <1>0, <1>1 DEF LaidOut
  <2>4. SymbolCount(v, t) % encoded_block_size(v) = m
    BY <1>1, <1>2
  <2> QED
    BY Zenon, <2>1, <2>2, <2>3, <2>4 DEF WellFormed
<1>4. bytes = Meaning(v, t)
  <2>2. \A j \in 1 .. Len(bytes) : ByteAt(v, t, j) = ByteAt(v, SubSeq(t, 1, n), j)
    BY <1>2, ByteAtPrefix
  <2>3. \A j \in 1 .. Len(bytes) : bytes[j] = ByteAt(v, Symbols(v, t), j)
    BY <1>0, <1>1, <2>2
  <2>4. Len(bytes) = ByteCount(v, SymbolCount(v, t))
    BY <1>1, <1>2
  <2> QED
    BY <2>3, <2>4, MeaningIs
<1> QED
  BY <1>3, <1>4

-----------------------------------------------------------------------------
(* The encoder.                                                            *)

LEMMA InitMeaning == Init => MeaningInv
<1> SUFFICES ASSUME Init PROVE MeaningInv
  OBVIOUS
<1>1. codec \in Variants /\ Blocks(B, E)
  BY GeometryBlocks DEF Init, B, E
<1>2. CASE StartEncoding
  <2>1. phase = "encoding" /\ src = 0 /\ text = <<>>
    BY <1>2 DEF Init, StartEncoding
  <2>2. src = B * 0 /\ Len(text) = E * 0
    BY <1>1, <2>1 DEF Blocks
  <2>3. BlocksWritten
    BY <2>1, <2>2 DEF BlocksWritten
  <2> QED
    BY <2>1, <2>3 DEF MeaningInv, SymbolsRead, PaddingRead, AllRead,
       DecodesTheWellFormed, TextMeansBinary, Errors
<1>3. CASE GivenText
  <2>1. phase = "encoded" /\ given = TRUE
    BY <1>3 DEF GivenText
  <2> QED
    BY <2>1 DEF MeaningInv, SymbolsRead, PaddingRead, AllRead,
       DecodesTheWellFormed, TextMeansBinary, Errors, BlocksWritten
<1> QED
  BY <1>2, <1>3 DEF Init

(* What is known where something is encoded. *)
LEMMA Encoder ==
  ASSUME IInv, MeaningInv, phase = "encoding"
  PROVE  /\ codec \in Variants /\ Blocks(B, E) /\ B \in Nat \ {0} /\ E \in Nat \ {0}
         /\ text \in Seq(Char) /\ binary \in Seq(Byte)
         /\ src \in Nat /\ src <= Len(binary) /\ Remaining \in Nat
         /\ \A k \in 0 .. Remaining - 1 : Block[k] = binary[src + k + 1]
         /\ \A k \in 0 .. Remaining - 1 : Block[k] \in Byte
         /\ \E q \in Nat :
              /\ src = B * q /\ Len(text) = E * q
              /\ \A i \in 1 .. Len(text) : text[i] < alphabet_size(codec)
              /\ \A j \in 1 .. src : ByteAt(codec, text, j) = binary[j]
<1>1. /\ codec \in Variants /\ Blocks(B, E) /\ B \in Nat \ {0} /\ E \in Nat \ {0}
      /\ text \in Seq(Char) /\ binary \in Seq(Byte) /\ src \in Nat
  BY GeometryBlocks DEF IInv, TypeOK, B, E, Blocks
<1>2. src <= Len(binary)
  BY DEF IInv, Encoding
<1>3. Remaining \in Nat /\ Remaining = Len(binary) - src
  BY <1>1, <1>2 DEF Remaining
<1>4. \A k \in 0 .. Remaining - 1 : Block[k] = binary[src + k + 1]
  BY DEF Block
<1>5. \A k \in 0 .. Remaining - 1 : binary[src + k + 1] \in Byte
  BY <1>1, <1>3
<1>6. \E q \in Nat :
        /\ src = B * q /\ Len(text) = E * q
        /\ \A i \in 1 .. Len(text) : text[i] < alphabet_size(codec)
        /\ \A j \in 1 .. src : ByteAt(codec, text, j) = binary[j]
  BY DEF MeaningInv, BlocksWritten
<1> QED
  BY <1>1, <1>2, <1>3, <1>4, <1>5, <1>6

(***************************************************************************)
(* n bytes of the block, written behind q blocks as encode writes them:    *)
(* all of s up to there are symbols, and they spell the binary so far.     *)
(***************************************************************************)
LEMMA BlockWritten ==
  ASSUME IInv, MeaningInv, phase = "encoding", NEW q \in Nat,
         src = B * q, Len(text) = E * q,
         \A i \in 1 .. Len(text) : text[i] < alphabet_size(codec),
         \A j \in 1 .. src : ByteAt(codec, text, j) = binary[j],
         NEW n \in 1 .. B, n <= Remaining,
         NEW s, \A i \in 1 .. Len(text) : s[i] = text[i],
         \A i \in 0 .. SymbolsOf(codec, n) - 1 :
           s[Len(text) + i + 1] = SymbolOf(codec, Block, n, i)
  PROVE  /\ \A i \in 1 .. Len(text) + SymbolsOf(codec, n) : s[i] < alphabet_size(codec)
         /\ \A j \in 1 .. src + n : ByteAt(codec, s, j) = binary[j]
         /\ ByteCount(codec, SymbolsOf(codec, n)) = n
         /\ n < B => SymbolsOf(codec, n) \in tail_lengths(codec)
<1>0. /\ codec \in Variants /\ B \in Nat /\ E \in Nat /\ src \in Nat
      /\ Len(text) \in Nat /\ Remaining \in Nat
      /\ \A k \in 0 .. Remaining - 1 : Block[k] = binary[src + k + 1]
  BY Encoder
<1>1. Bytes(Block, n)
  BY Encoder DEF Bytes
<1>2. Encodes(codec, s, q, Block, n)
  BY DEF Encodes, E
<1>3. n \in 1 .. binary_block_size(codec)
  BY DEF B
<1>4. /\ \A i \in 0 .. SymbolsOf(codec, n) - 1 :
           SymbolOf(codec, Block, n, i) \in 0 .. alphabet_size(codec) - 1
      /\ \A r \in 1 .. n : ByteAt(codec, s, B * q + r) = Block[r - 1]
      /\ ByteCount(codec, SymbolsOf(codec, n)) = n
      /\ n < B => SymbolsOf(codec, n) \in tail_lengths(codec)
  BY <1>1, <1>2, <1>3, Encoder, Spelled DEF B
<1>5. SymbolsOf(codec, n) \in Nat
  <2>1. n < B => SymbolsOf(codec, n) \in Nat
    <3>1. tail_lengths(codec) \subseteq Nat
      BY <1>0, Families
    <3> QED
      BY <1>4, <3>1
  <2>2. ~ (n < B) => SymbolsOf(codec, n) \in Nat
    BY Encoder DEF SymbolsOf, B, E
  <2> QED
    BY <2>1, <2>2
<1>6. alphabet_size(codec) \in Nat
  BY Zenon, <1>0, AlphabetSize
<1>7. \A i \in 1 .. Len(text) + SymbolsOf(codec, n) : s[i] < alphabet_size(codec)
  <2> SUFFICES ASSUME NEW i \in 1 .. Len(text) + SymbolsOf(codec, n)
               PROVE  s[i] < alphabet_size(codec)
    OBVIOUS
  <2>1. CASE i <= Len(text)
    BY <2>1
  <2>2. CASE i > Len(text)
    <3> DEFINE k == i - Len(text) - 1
    <3>1. k \in 0 .. SymbolsOf(codec, n) - 1 /\ Len(text) + k + 1 = i
      BY <1>0, <1>5, <2>2
    <3>2. s[i] = SymbolOf(codec, Block, n, k)
      BY <3>1
    <3>3. s[i] \in 0 .. alphabet_size(codec) - 1
      BY <1>4, <3>1, <3>2
    <3> QED
      BY <1>6, <3>3
  <2> QED
    BY <1>0, <2>1, <2>2
<1>8. \A j \in 1 .. src + n : ByteAt(codec, s, j) = binary[j]
  <2> SUFFICES ASSUME NEW j \in 1 .. src + n PROVE ByteAt(codec, s, j) = binary[j]
    OBVIOUS
  <2>1. CASE j <= src
    <3>1. ByteCount(codec, E * q + 0) = B * q + ByteCount(codec, 0)
          /\ ByteCount(codec, 0) = 0
      <4>1. 0 \in 0 .. encoded_block_size(codec) - 1
        BY <1>0, Families
      <4> QED
        BY <1>0, <4>1, Counts DEF E, B
    <3>2. ByteCount(codec, Len(text)) = src /\ Len(text) \in Nat
      BY <1>0, <3>1
    <3>3. j \in 1 .. ByteCount(codec, Len(text))
      BY <2>1, <3>2
    <3>4. ByteAt(codec, s, j) = ByteAt(codec, text, j)
      BY <1>0, <3>2, <3>3, ByteAtExtends
    <3> QED
      BY <2>1, <3>4
  <2>2. CASE j > src
    <3> DEFINE r == j - src
    <3>1. r \in 1 .. n /\ src + r = j /\ r - 1 \in 0 .. Remaining - 1
          /\ src + (r - 1) + 1 = j
      BY <1>0, <2>2
    <3>2. ByteAt(codec, s, src + r) = Block[r - 1]
      BY <1>4, <3>1
    <3>3. Block[r - 1] = binary[src + (r - 1) + 1]
      BY <1>0, <3>1
    <3> QED
      BY <3>1, <3>2, <3>3
  <2> QED
    BY <1>0, <2>1, <2>2
<1> QED
  BY <1>4, <1>7, <1>8

(* What put() writes, and what it leaves. *)
LEMMA PutElements ==
  ASSUME NEW S, NEW s \in Seq(S), NEW t \in Seq(S)
  PROVE  /\ \A i \in 1 .. Len(s) : Put(s, t)[i] = s[i]
         /\ \A i \in 1 .. Len(t) : Put(s, t)[Len(s) + i] = t[i]
BY DEF Put

LEMMA EncodeBlockMeaning == IInv /\ MeaningInv /\ EncodeBlock => MeaningInv'
<1> SUFFICES ASSUME IInv, MeaningInv, EncodeBlock PROVE MeaningInv'
  OBVIOUS
<1>1. phase = "encoding" /\ Remaining >= B
  BY DEF EncodeBlock
<1>2. /\ codec \in Variants /\ Blocks(B, E) /\ B \in Nat \ {0} /\ E \in Nat \ {0}
      /\ text \in Seq(Char) /\ src \in Nat /\ Remaining \in Nat
      /\ \A k \in 0 .. Remaining - 1 : Block[k] \in Byte
  BY <1>1, Encoder
<1>3. PICK q \in Nat : /\ src = B * q /\ Len(text) = E * q
                       /\ \A i \in 1 .. Len(text) : text[i] < alphabet_size(codec)
                       /\ \A j \in 1 .. src : ByteAt(codec, text, j) = binary[j]
  BY <1>1, Encoder
<1> DEFINE new == [i \in 1 .. E |-> index(codec, i - 1, Block)]
<1>4. new \in Seq(Char) /\ Len(new) = E
  <2>1. \A k \in 0 .. B - 1 : Block[k] \in Byte
    BY <1>1, <1>2
  <2>2. \A i \in 0 .. E - 1 : index(codec, i, Block) \in Char
    BY <1>2, <2>1, EncodedBlock DEF B, E
  <2>3. new \in [1 .. E -> Char]
    BY <1>2, <2>2
  <2> HIDE DEF new
  <2> QED
    BY <1>2, <2>3, FunctionIsSequence
<1>5. \A i \in 0 .. E - 1 : new[i + 1] = index(codec, i, Block)
  BY <1>2
<1>6. /\ text' = Put(text, new) /\ src' = src + B
      /\ UNCHANGED <<inputVars, decoderVars, capacity, phase>>
  BY DEF EncodeBlock
<1> HIDE DEF new
<1>7. Len(text') = Len(text) + E
  BY <1>2, <1>4, <1>6, PutLength
<1>8. \A i \in 1 .. Len(text) : text'[i] = text[i]
  BY <1>2, <1>4, <1>6, PutElements
<1>9. SymbolsOf(codec, B) = E /\ \A i : SymbolOf(codec, Block, B, i) = index(codec, i, Block)
  BY <1>2 DEF SymbolsOf, SymbolOf, B, E
<1>10. \A i \in 0 .. E - 1 : text'[Len(text) + i + 1] = index(codec, i, Block)
  <2> SUFFICES ASSUME NEW i \in 0 .. E - 1
               PROVE  text'[Len(text) + i + 1] = index(codec, i, Block)
    OBVIOUS
  <2>1. i + 1 \in 1 .. Len(new) /\ Len(text) + (i + 1) = Len(text) + i + 1
    BY <1>2, <1>4
  <2>2. text'[Len(text) + (i + 1)] = new[i + 1]
    BY <1>2, <1>4, <1>6, <2>1, PutElements
  <2> QED
    BY <1>5, <2>1, <2>2
<1>11. /\ \A i \in 1 .. Len(text) + E : text'[i] < alphabet_size(codec)
       /\ \A j \in 1 .. src + B : ByteAt(codec, text', j) = binary[j]
  <2>1. B \in 1 .. B /\ B <= Remaining
    BY <1>1, <1>2
  <2>2. \A i \in 0 .. SymbolsOf(codec, B) - 1 :
          text'[Len(text) + i + 1] = SymbolOf(codec, Block, B, i)
    BY <1>9, <1>10
  <2>3. /\ \A i \in 1 .. Len(text) + SymbolsOf(codec, B) : text'[i] < alphabet_size(codec)
        /\ \A j \in 1 .. src + B : ByteAt(codec, text', j) = binary[j]
    BY <1>1, <1>3, <1>8, <2>1, <2>2, BlockWritten
  <2> QED
    BY <1>9, <2>3
<1>12. B' = B /\ E' = E /\ codec' = codec /\ binary' = binary /\ phase' = "encoding"
  BY <1>1, <1>6 DEF inputVars, B, E
<1>13. src' = B * (q + 1) /\ Len(text') = E * (q + 1) /\ q + 1 \in Nat
  BY <1>2, <1>3, <1>6, <1>7, BlockPlaces
<1>14. BlocksWritten'
  BY <1>6, <1>7, <1>11, <1>12, <1>13 DEF BlocksWritten
<1> QED
  BY <1>12, <1>14 DEF MeaningInv, SymbolsRead, PaddingRead, AllRead,
     DecodesTheWellFormed, TextMeansBinary, Errors

LEMMA EncodeTailMeaning == IInv /\ MeaningInv /\ EncodeTail => MeaningInv'
<1> SUFFICES ASSUME IInv, MeaningInv, EncodeTail PROVE MeaningInv'
  OBVIOUS
<1> DEFINE r == Remaining
           n == num_encoded_tail_symbols(codec, r)
           new == TailSymbols(n)
           pads == Padding(E - n)
           mid == Put(text, new)
<1>1. phase = "encoding" /\ r > 0 /\ r < B
  BY DEF EncodeTail
<1>2. /\ codec \in Variants /\ Blocks(B, E) /\ B \in Nat \ {0} /\ E \in Nat \ {0}
      /\ text \in Seq(Char) /\ src \in Nat /\ r \in Nat
      /\ binary \in Seq(Byte) /\ src <= Len(binary)
      /\ \A k \in 0 .. r - 1 : Block[k] \in Byte
  BY <1>1, Encoder
<1>3. PICK q \in Nat : /\ src = B * q /\ Len(text) = E * q
                       /\ \A i \in 1 .. Len(text) : text[i] < alphabet_size(codec)
                       /\ \A j \in 1 .. src : ByteAt(codec, text, j) = binary[j]
  BY <1>1, Encoder
<1>4. /\ n \in 1 .. E - 1
      /\ index_last(codec, n - 1, Block) \in Char
      /\ \A i \in 0 .. n - 2 : index(codec, i, Block) \in Char
  <2>1. r \in 1 .. binary_block_size(codec) - 1
    BY <1>1, <1>2 DEF B
  <2> QED
    BY <1>2, <2>1, EncodedTail DEF E
<1>5. SymbolsOf(codec, r) = n
  BY <1>1 DEF SymbolsOf, B
<1>6. /\ text' = Put(mid, pads) /\ phase' = "encoded"
      /\ UNCHANGED <<inputVars, decoderVars, capacity, src>>
  BY DEF EncodeTail
<1> HIDE DEF n, r
<1>7. new \in Seq(Char) /\ Len(new) = n
  <2>1. new \in [1 .. n -> Char]
    BY <1>2, <1>4 DEF TailSymbols
  <2> QED
    BY <1>2, <1>4, <2>1, FunctionIsSequence
<1>8. \A i \in 0 .. n - 1 : new[i + 1] = SymbolOf(codec, Block, r, i)
  <2> SUFFICES ASSUME NEW i \in 0 .. n - 1
               PROVE  new[i + 1] = SymbolOf(codec, Block, r, i)
    OBVIOUS
  <2>1. i + 1 \in 1 .. n /\ (i + 1) - 1 = i
    BY <1>4
  <2>2. CASE i = n - 1
    <3>1. i + 1 = n /\ r < binary_block_size(codec) /\ i = SymbolsOf(codec, r) - 1
      BY <1>1, <1>4, <1>5, <2>2 DEF B
    <3>2. new[i + 1] = index_last(codec, i, Block)
      BY <2>1, <2>2, <3>1 DEF TailSymbols
    <3> QED
      BY <3>1, <3>2 DEF SymbolOf
  <2>3. CASE i # n - 1
    <3>1. i + 1 # n /\ i # SymbolsOf(codec, r) - 1
      BY <1>4, <1>5, <2>3
    <3>2. new[i + 1] = index(codec, i, Block)
      BY <2>1, <3>1 DEF TailSymbols
    <3> QED
      BY <3>1, <3>2 DEF SymbolOf
  <2> QED
    BY <2>2, <2>3
<1>9. /\ pads \in Seq(Char)
      /\ Len(pads) = IF codec.generates_padding THEN E - n ELSE 0
      /\ \A i \in 1 .. Len(pads) : pads[i] = Equals
  <2> DEFINE m == IF codec.generates_padding THEN E - n ELSE 0
  <2>1. m \in Nat /\ pads = [i \in 1 .. m |-> Equals]
    BY <1>2, <1>4 DEF Padding
  <2> HIDE DEF m
  <2>2. pads \in [1 .. m -> Char]
    BY <2>1 DEF Equals, Char
  <2>3. pads \in Seq(Char) /\ Len(pads) = m
    BY <2>1, <2>2, FunctionIsSequence
  <2>4. \A i \in 1 .. m : pads[i] = Equals
    BY <2>1
  <2> QED
    BY <2>3, <2>4 DEF m
<1> HIDE DEF new, pads
<1>10. mid \in Seq(Char) /\ Len(mid) = Len(text) + n
  BY <1>2, <1>7, PutLength
<1>11. /\ \A i \in 1 .. Len(text) : mid[i] = text[i]
       /\ \A i \in 1 .. n : mid[Len(text) + i] = new[i]
  BY <1>2, <1>7, PutElements
<1> HIDE DEF mid
<1>12. text' \in Seq(Char) /\ Len(text') = Len(mid) + Len(pads)
  BY <1>6, <1>9, <1>10, PutLength
<1>13. /\ \A i \in 1 .. Len(mid) : text'[i] = mid[i]
       /\ \A i \in 1 .. Len(pads) : text'[Len(mid) + i] = pads[i]
  <2>1. pads \in Seq(Char) /\ mid \in Seq(Char) /\ text' = Put(mid, pads)
    BY <1>6, <1>9, <1>10
  <2> QED
    BY <2>1, PutElements
<1>14. \A i \in 1 .. Len(text) : text'[i] = text[i]
  BY <1>2, <1>4, <1>10, <1>11, <1>13
<1>15. \A i \in 0 .. n - 1 : text'[Len(text) + i + 1] = SymbolOf(codec, Block, r, i)
  <2> SUFFICES ASSUME NEW i \in 0 .. n - 1
               PROVE  text'[Len(text) + i + 1] = SymbolOf(codec, Block, r, i)
    OBVIOUS
  <2>1. /\ i + 1 \in 1 .. n /\ Len(text) + (i + 1) = Len(text) + i + 1
        /\ Len(text) + i + 1 \in 1 .. Len(mid)
    BY <1>2, <1>4, <1>10
  <2>2. mid[Len(text) + (i + 1)] = new[i + 1]
    BY <1>11, <2>1
  <2> QED
    BY <1>8, <1>13, <2>1, <2>2
<1>16. /\ \A i \in 1 .. Len(text) + n : text'[i] < alphabet_size(codec)
       /\ \A j \in 1 .. src + r : ByteAt(codec, text', j) = binary[j]
       /\ ByteCount(codec, n) = r
       /\ n \in tail_lengths(codec)
  <2>1. r \in 1 .. B /\ r <= Remaining
    BY <1>1, <1>2 DEF r
  <2>2. \A i \in 0 .. SymbolsOf(codec, r) - 1 :
          text'[Len(text) + i + 1] = SymbolOf(codec, Block, r, i)
    BY <1>5, <1>15
  <2>3. /\ \A i \in 1 .. Len(text) + SymbolsOf(codec, r) : text'[i] < alphabet_size(codec)
        /\ \A j \in 1 .. src + r : ByteAt(codec, text', j) = binary[j]
        /\ ByteCount(codec, SymbolsOf(codec, r)) = r
        /\ r < B => SymbolsOf(codec, r) \in tail_lengths(codec)
    BY <1>1, <1>3, <1>14, <2>1, <2>2, BlockWritten
  <2> QED
    BY <1>1, <1>5, <2>3
<1>17. Len(binary) = src + r
  BY <1>2 DEF r, Remaining
<1>18. \A i \in Len(mid) + 1 .. Len(text') : text'[i] = Equals /\ codec.padding_symbol
  <2> SUFFICES ASSUME NEW i \in Len(mid) + 1 .. Len(text')
               PROVE  text'[i] = Equals /\ codec.padding_symbol
    OBVIOUS
  <2>1. i - Len(mid) \in 1 .. Len(pads) /\ Len(mid) + (i - Len(mid)) = i
    BY <1>9, <1>10, <1>12
  <2>2. text'[Len(mid) + (i - Len(mid))] = pads[i - Len(mid)]
    BY <1>13, <2>1
  <2>3. codec.generates_padding
    BY <1>9, <2>1
  <2>4. codec.padding_symbol
    BY <1>2, <2>3, Paddings
  <2> QED
    BY <1>9, <2>1, <2>2, <2>4
<1>19. WellFormed(codec, text') /\ Meaning(codec, text') = binary
  <2>1. /\ Len(mid) \in 0 .. Len(text') /\ Len(mid) = E * q + n
        /\ n \in 0 .. E - 1 /\ n # 0
    BY <1>2, <1>3, <1>4, <1>9, <1>10, <1>12
  <2>2. \A i \in 1 .. Len(mid) : text'[i] < alphabet_size(codec)
    BY <1>10, <1>16
  <2>3. \/ n + (Len(text') - Len(mid)) = E
        \/ Len(text') = Len(mid) /\ ~codec.requires_padding
    <3>1. CASE codec.generates_padding
      BY <1>2, <1>4, <1>9, <1>10, <1>12, <3>1
    <3>2. CASE ~codec.generates_padding
      <4>1. ~codec.requires_padding
        BY <1>2, <3>2, Paddings
      <4>2. Len(text') = Len(mid)
        BY <1>9, <1>10, <1>12, <3>2
      <4> QED
        BY <4>1, <4>2
    <3> QED
      BY <3>1, <3>2
  <2>4. Len(binary) = B * q + ByteCount(codec, n)
    BY <1>3, <1>16, <1>17
  <2>5. \A j \in 1 .. Len(binary) : ByteAt(codec, text', j) = binary[j]
    BY <1>16, <1>17
  <2>6. LaidOut(codec, text', q, n, Len(mid))
    BY <1>16, <1>18, <2>1, <2>2, <2>3 DEF LaidOut, E
  <2>7. Carries(codec, text', q, n, binary)
    BY <2>4, <2>5 DEF Carries, B
  <2>8. n \in 0 .. encoded_block_size(codec) - 1
    BY <2>1 DEF E
  <2> QED
    BY <1>2, <1>12, <2>1, <2>6, <2>7, <2>8, TextOf
<1>20. TextMeansBinary'
  BY <1>6, <1>19 DEF TextMeansBinary, inputVars
<1> QED
  BY <1>6, <1>20 DEF MeaningInv, SymbolsRead, PaddingRead, AllRead,
     DecodesTheWellFormed, BlocksWritten, Errors

LEMMA EncodeEndsMeaning == IInv /\ MeaningInv /\ EncodeEnds => MeaningInv'
<1> SUFFICES ASSUME IInv, MeaningInv, EncodeEnds PROVE MeaningInv'
  OBVIOUS
<1>1. /\ phase = "encoding" /\ Remaining = 0 /\ phase' = "encoded"
      /\ UNCHANGED <<inputVars, decoderVars, text, capacity, src>>
  BY DEF EncodeEnds
<1>2. /\ codec \in Variants /\ B \in Nat /\ E \in Nat
      /\ text \in Seq(Char) /\ src \in Nat /\ binary \in Seq(Byte)
  BY <1>1, Encoder
<1>3. PICK q \in Nat : /\ src = B * q /\ Len(text) = E * q
                       /\ \A i \in 1 .. Len(text) : text[i] < alphabet_size(codec)
                       /\ \A j \in 1 .. src : ByteAt(codec, text, j) = binary[j]
  BY <1>1, Encoder
<1>4. Len(binary) = src
  BY <1>1, <1>2 DEF Remaining
<1>5. WellFormed(codec, text) /\ Meaning(codec, text) = binary
  <2>1. 0 \in 0 .. E - 1 /\ ByteCount(codec, 0) = 0
    <3>1. 0 \in 0 .. encoded_block_size(codec) - 1
      BY <1>2, Families
    <3> QED
      BY <1>2, <3>1, Counts DEF E
  <2>2. /\ Len(text) \in 0 .. Len(text) /\ Len(text) = E * q + 0
        /\ Len(binary) = B * q + ByteCount(codec, 0)
    BY <1>2, <1>3, <1>4, <2>1
  <2>3. \A i \in Len(text) + 1 .. Len(text) : text[i] = Equals /\ codec.padding_symbol
    BY <1>2
  <2>4. LaidOut(codec, text, q, 0, Len(text))
    BY <1>3, <2>2, <2>3 DEF LaidOut, E
  <2>5. Carries(codec, text, q, 0, binary)
    BY <1>3, <1>4, <2>2 DEF Carries, B
  <2>6. 0 \in 0 .. encoded_block_size(codec) - 1
    BY <2>1 DEF E
  <2> QED
    BY <1>2, <2>2, <2>4, <2>5, <2>6, TextOf
<1>6. TextMeansBinary'
  BY <1>1, <1>5 DEF TextMeansBinary, inputVars
<1> QED
  BY <1>1, <1>6 DEF MeaningInv, SymbolsRead, PaddingRead, AllRead,
     DecodesTheWellFormed, BlocksWritten, Errors

-----------------------------------------------------------------------------
(* What a prefix of a text tells of the whole of it.                       *)

(* Nul, padding and Hyphen are symbols of no variant. *)
LEMMA MarksApart ==
  ASSUME NEW v \in Variants
  PROVE  /\ ~ (Nul < alphabet_size(v)) /\ ~ (Equals < alphabet_size(v))
         /\ ~ (Hyphen < alphabet_size(v))
BY Alphabet DEF Nul, Equals, Hyphen

(* The character that stops the loop follows the symbols kept before it. *)
LEMMA StoppedAt ==
  ASSUME NEW v \in Variants, NEW t \in Seq(Char), NEW n \in 0 .. Len(t) - 1,
         \A i \in 1 .. n : t[i] # Nul,
         NEW k, k = Kept(v, t)[n], \A i \in 1 .. Len(k) : k[i] < alphabet_size(v),
         NEW c, c = t[n + 1], c \notin v.should_ignore, c # Nul,
         ~ (c < alphabet_size(v))
  PROVE  /\ k \in Seq(Char) /\ SymbolCount(v, t) = Len(k)
         /\ Len(k) + 1 <= Len(Written(v, t)) /\ Written(v, t)[Len(k) + 1] = c
<1> DEFINE w == Written(v, t)
<1>1. n + 1 \in 1 .. Len(t) /\ n + 1 \in 0 .. Len(t) /\ n \in 0 .. Len(t)
      /\ (n + 1) - 1 = n
  OBVIOUS
<1>2. k \in Seq(Char)
  BY <1>1, KeptType
<1>3. Kept(v, t)[n + 1] = Append(k, c)
  <2>1. Kept(v, t)[n + 1] = IF t[n + 1] \in v.should_ignore THEN Kept(v, t)[(n + 1) - 1]
                            ELSE Append(Kept(v, t)[(n + 1) - 1], t[n + 1])
    BY <1>1, KeptSteps
  <2> QED
    BY <1>1, <2>1
<1>4. \A i \in 1 .. n + 1 : t[i] # Nul
  BY <1>1
<1>5. Extends(w, Append(k, c))
  BY <1>1, <1>3, <1>4, WrittenFrom
<1>6. w \in Seq(Char)
  BY WrittenType
<1> HIDE DEF w
<1>7. /\ Len(k) + 1 <= Len(w) /\ w[Len(k) + 1] = c
      /\ \A i \in 1 .. Len(k) : w[i] = k[i]
  <2>1. Len(Append(k, c)) = Len(k) + 1 /\ Append(k, c)[Len(k) + 1] = c
        /\ \A i \in 1 .. Len(k) : Append(k, c)[i] = k[i]
    BY <1>2
  <2>2. Len(k) \in Nat
    BY <1>2
  <2> QED
    BY <1>5, <2>1, <2>2 DEF Extends
<1>8. SymbolCount(v, t) = Len(k)
  <2>1. Len(k) \in Nat /\ Len(k) <= Len(w)
    BY <1>2, <1>6, <1>7
  <2>2. \A i \in 1 .. Len(k) : w[i] < alphabet_size(v)
    BY <1>7
  <2>3. ~ (w[Len(k) + 1] < alphabet_size(v))
    BY <1>7
  <2> QED
    BY <2>1, <2>2, <2>3, SymbolCountIs DEF w
<1> QED
  BY <1>2, <1>7, <1>8 DEF w

(* The text ends behind symbols: they are all of it. *)
LEMMA EndedAt ==
  ASSUME NEW v \in Variants, NEW t \in Seq(Char), NEW n \in 0 .. Len(t),
         \A i \in 1 .. n : t[i] # Nul,
         n = Len(t) \/ (n < Len(t) /\ t[n + 1] = Nul),
         NEW k, k = Kept(v, t)[n], \A i \in 1 .. Len(k) : k[i] < alphabet_size(v)
  PROVE  /\ Symbols(v, t) = k /\ Pads(v, t) = 0
         /\ SymbolCount(v, t) = Len(Written(v, t))
<1>1. k \in Seq(Char)
  BY KeptType
<1>2. Written(v, t) = k
  BY WrittenFrom
<1>3. SymbolCount(v, t) = Len(k)
  <2>1. Len(k) \in Nat /\ Len(k) <= Len(k) /\ ~ (Len(k) < Len(k))
    BY <1>1
  <2> QED
    BY <1>2, <2>1, SymbolCountIs
<1>4. SubSeq(k, 1, Len(k)) = k
  BY <1>1
<1>5. Len(k) - Len(k) = 0
  BY <1>1
<1> QED
  BY <1>2, <1>3, <1>4, <1>5 DEF Symbols, Pads

(***************************************************************************)
(* n symbols and then padding up to character m: the text has n symbols,   *)
(* and m characters at least; when it ends there, it has no more.          *)
(***************************************************************************)
PaddedTo(v, t, m, n) ==
  /\ SymbolCount(v, t) = n /\ Symbols(v, t) = SubSeq(t, 1, n)
  /\ m <= Len(Written(v, t)) /\ \A i \in 1 .. m : Written(v, t)[i] = t[i]
  /\ m = Len(t) \/ (m < Len(t) /\ t[m + 1] = Nul) => Len(Written(v, t)) = m
  /\ m < Len(t) /\ t[m + 1] # Nul =>
       m + 1 <= Len(Written(v, t)) /\ Written(v, t)[m + 1] = t[m + 1]

LEMMA PaddedUpTo ==
  ASSUME NEW v \in Variants, v.padding_symbol, NEW t \in Seq(Char),
         NEW m \in 0 .. Len(t), NEW n \in 0 .. m - 1,
         \A i \in 1 .. n : t[i] < alphabet_size(v),
         \A i \in n + 1 .. m : t[i] = Equals
  PROVE  PaddedTo(v, t, m, n)
<1> DEFINE w == Written(v, t)
<1>1. v.should_ignore = {}
  BY Paddings
<1>2. \A i \in 0 .. Len(t) : Kept(v, t)[i] = SubSeq(t, 1, i)
  BY <1>1, KeptWhole
<1>4. \A i \in 1 .. m : t[i] # Nul
  <2> SUFFICES ASSUME NEW i \in 1 .. m PROVE t[i] # Nul
    OBVIOUS
  <2>1. CASE i <= n
    <3>1. i \in 1 .. n
      BY <2>1
    <3>2. t[i] < alphabet_size(v)
      BY Zenon, <3>1
    <3> QED
      BY Zenon, <3>2, MarksApart
  <2>2. CASE i > n
    BY <2>2 DEF Nul, Equals
  <2> QED
    BY <2>1, <2>2
<1>5. Extends(w, SubSeq(t, 1, m))
      /\ (m = Len(t) \/ (m < Len(t) /\ t[m + 1] = Nul) => w = SubSeq(t, 1, m))
  BY <1>2, <1>4, WrittenFrom
<1>6. w \in Seq(Char)
  BY WrittenType
<1> HIDE DEF w
<1>7. Len(SubSeq(t, 1, m)) = m /\ \A i \in 1 .. m : SubSeq(t, 1, m)[i] = t[i]
  OBVIOUS
<1>8. m <= Len(w) /\ \A i \in 1 .. m : w[i] = t[i]
  BY <1>5, <1>7 DEF Extends
<1>9. m = Len(t) \/ (m < Len(t) /\ t[m + 1] = Nul) => Len(w) = m
  BY <1>5, <1>7
<1>10. ASSUME m < Len(t), t[m + 1] # Nul PROVE m + 1 <= Len(w) /\ w[m + 1] = t[m + 1]
  <2>1. m + 1 \in 0 .. Len(t)
    BY <1>10
  <2>2. \A i \in 1 .. m + 1 : t[i] # Nul
    BY <1>4, <1>10
  <2>3. Extends(w, SubSeq(t, 1, m + 1))
    BY <1>2, <2>1, <2>2, WrittenFrom DEF w
  <2>4. Len(SubSeq(t, 1, m + 1)) = m + 1 /\ SubSeq(t, 1, m + 1)[m + 1] = t[m + 1]
    BY <2>1
  <2> QED
    BY <2>1, <2>3, <2>4 DEF Extends
<1>11. SymbolCount(v, t) = n
  <2>1. n \in Nat /\ n <= Len(w) /\ \A i \in 1 .. n : w[i] < alphabet_size(v)
    BY <1>6, <1>8
  <2>2. w[n + 1] = Equals
    BY <1>8
  <2>3. ~ (w[n + 1] < alphabet_size(v))
    BY Zenon, <2>2, MarksApart
  <2> QED
    BY <2>1, <2>3, SymbolCountIs DEF w
<1>12. Symbols(v, t) = SubSeq(t, 1, n)
  <2>1. Symbols(v, t) = SubSeq(w, 1, n)
    BY <1>11 DEF Symbols, w
  <2>2. n <= Len(w) /\ \A i \in 1 .. n : w[i] = t[i]
    BY <1>6, <1>8
  <2> QED
    BY <1>6, <2>1, <2>2
<1> QED
  BY <1>8, <1>9, <1>10, <1>11, <1>12 DEF w, PaddedTo

(* The three ways to be ill-formed that decode tells apart. *)
LEMMA WrongCharacter ==
  ASSUME NEW v \in Variants, NEW t \in Seq(Char),
         NEW i \in SymbolCount(v, t) + 1 .. Len(Written(v, t)),
         ~ (Written(v, t)[i] = Equals /\ v.padding_symbol)
  PROVE  ~WellFormed(v, t)
BY Zenon DEF WellFormed

LEMMA PaddingAlone ==
  ASSUME NEW v \in Variants, NEW t \in Seq(Char),
         SymbolCount(v, t) % encoded_block_size(v) = 0, Pads(v, t) # 0
  PROVE  ~WellFormed(v, t)
BY Zenon DEF WellFormed

LEMMA WrongTail ==
  ASSUME NEW v \in Variants, NEW t \in Seq(Char), NEW m, m # 0,
         SymbolCount(v, t) % encoded_block_size(v) = m,
         \/ m \notin tail_lengths(v)
         \/ /\ m + Pads(v, t) # encoded_block_size(v)
            /\ Pads(v, t) # 0 \/ v.requires_padding
  PROVE  ~WellFormed(v, t)
BY Zenon DEF WellFormed

-----------------------------------------------------------------------------
(* The decoder.                                                            *)

(* What lookup tells of a character, and no two of its answers are alike. *)
LEMMA LookupCases ==
  ASSUME NEW v \in Variants, NEW c \in Char
  PROVE  /\ is_stop_character(lookup(v, c)) <=> ~ (c < alphabet_size(v))
         /\ c < alphabet_size(v) => c \in 0 .. alphabet_size(v) - 1 /\ lookup(v, c) = c
         /\ lookup(v, c) = eof_idx <=> c = Nul
         /\ lookup(v, c) = padding_idx <=> c = Equals /\ v.padding_symbol
<1>1. alphabet_size(v) \in 16 .. 64
  BY Alphabet
<1>2. c \in 0 .. 67
  BY DEF Char
<1>3. CASE c < alphabet_size(v)
  <2>1. lookup(v, c) = c
    BY <1>3 DEF lookup
  <2>2. c \in 0 .. alphabet_size(v) - 1 /\ c \in 0 .. 63
    BY <1>1, <1>2, <1>3
  <2> QED
    BY <1>3, <2>1, <2>2 DEF is_stop_character, eof_idx, padding_idx, Nul, Equals
<1>4. CASE ~ (c < alphabet_size(v))
  BY <1>4 DEF lookup, is_stop_character, eof_idx, padding_idx, invalid_idx, Nul, Equals
<1> QED
  BY <1>3, <1>4

(* What lies in the slots that are not counted does not matter. *)
LEMMA OtherSlots ==
  ASSUME NEW v, NEW s, NEW q, NEW res, NEW idx, NEW n,
         Spells(v, s, q, res, idx, n),
         NEW new, \A i \in 0 .. n - 1 : new[i] = idx[i]
  PROVE  Spells(v, s, q, res, new, n)
BY Zenon DEF Spells, Holds

(* What is known where characters are read. *)
LEMMA Reader ==
  ASSUME IInv, MeaningInv, phase = "reading"
  PROVE  /\ codec \in Variants /\ text \in Seq(Char) /\ src \in 0 .. Len(text)
         /\ E \in Nat /\ ptr \in 0 .. E - 1 /\ ptr \in 0 .. encoded_block_size(codec) - 1
         /\ result \in Seq(Byte)
         /\ slots \in [0 .. E - 1 -> AlphabetIndex]
         /\ \A i \in 1 .. src : text[i] # Nul
         /\ \A i \in 1 .. Len(Kept(codec, text)[src]) :
              Kept(codec, text)[src][i] < alphabet_size(codec)
         /\ Kept(codec, text)[src] \in Seq(Char)
         /\ \E q \in Nat : Spells(codec, Kept(codec, text)[src], q, result, slots, ptr)
<1>1. /\ codec \in Variants /\ text \in Seq(Char) /\ E \in Nat
      /\ ptr \in 0 .. E - 1 /\ ptr \in 0 .. encoded_block_size(codec) - 1
      /\ result \in Seq(Byte) /\ slots \in [0 .. E - 1 -> AlphabetIndex]
  BY Decoder DEF IInv, TypeOK, E
<1>2. src \in 0 .. Len(text)
  BY Decoder DEF IInv, Reading
<1>3. /\ \A i \in 1 .. src : text[i] # Nul
      /\ \A i \in 1 .. Len(Kept(codec, text)[src]) :
           Kept(codec, text)[src][i] < alphabet_size(codec)
      /\ \E q \in Nat : Spells(codec, Kept(codec, text)[src], q, result, slots, ptr)
  BY DEF MeaningInv, SymbolsRead, Spelt
<1>4. Kept(codec, text)[src] \in Seq(Char)
  BY <1>1, <1>2, KeptType
<1> QED
  BY <1>1, <1>2, <1>3, <1>4

(* The character read next. *)
LEMMA ReadNext ==
  ASSUME IInv, MeaningInv, phase = "reading", More
  PROVE  /\ src \in 0 .. Len(text) - 1 /\ src + 1 \in 1 .. Len(text)
         /\ NextChar \in Char /\ NextChar = text[src + 1]
         /\ Kept(codec, text)[src + 1] =
              IF NextChar \in codec.should_ignore THEN Kept(codec, text)[src]
              ELSE Append(Kept(codec, text)[src], NextChar)
<1>1. codec \in Variants /\ text \in Seq(Char) /\ src \in 0 .. Len(text)
  BY Reader
<1>2. src \in 0 .. Len(text) - 1 /\ src + 1 \in 1 .. Len(text) /\ (src + 1) - 1 = src
  BY <1>1 DEF More
<1>3. Kept(codec, text)[src + 1] =
        IF text[src + 1] \in codec.should_ignore THEN Kept(codec, text)[(src + 1) - 1]
        ELSE Append(Kept(codec, text)[(src + 1) - 1], text[src + 1])
  BY <1>1, <1>2, KeptSteps
<1> QED
  BY <1>1, <1>2, <1>3 DEF NextChar

(* decode leaves the text alone, and an error of it is right where the     *)
(* text is not well formed.                                                *)
LEMMA TextStays ==
  ASSUME MeaningInv, phase # "encoding", UNCHANGED <<inputVars, text>>
  PROVE  TextMeansBinary'
BY DEF MeaningInv, TextMeansBinary, inputVars

LEMMA RightError ==
  ASSUME MeaningInv, phase # "encoding", UNCHANGED <<inputVars, text>>,
         phase' \in Errors, ~WellFormed(codec, text)
  PROVE  MeaningInv'
<1>1. TextMeansBinary'
  BY TextStays
<1>2. codec' = codec /\ text' = text
  BY DEF inputVars
<1>3. phase' \notin {"encoding", "encoded", "reading", "padding", "closing", "decoded"}
  BY DEF Errors
<1>4. DecodesTheWellFormed'
  BY <1>2, <1>3 DEF DecodesTheWellFormed
<1> QED
  BY <1>1, <1>3, <1>4 DEF MeaningInv, SymbolsRead, PaddingRead, AllRead, BlocksWritten

LEMMA StartDecodingMeaning == IInv /\ MeaningInv /\ StartDecoding => MeaningInv'
<1> SUFFICES ASSUME IInv, MeaningInv, StartDecoding PROVE MeaningInv'
  OBVIOUS
<1>1. /\ phase = "encoded" /\ result' = <<>> /\ src' = 0
      /\ slots' = FreshSlots(codec) /\ ptr' = 0 /\ phase' = "reading"
      /\ UNCHANGED <<inputVars, text>>
  BY DEF StartDecoding
<1>2. TextMeansBinary'
  BY <1>1, TextStays
<1>3. codec \in Variants /\ text \in Seq(Char) /\ Blocks(B, E)
  BY GeometryBlocks DEF IInv, TypeOK, B, E
<1>4. Kept(codec, text)[0] = <<>>
  BY <1>3, KeptSteps
<1>5. codec' = codec /\ text' = text /\ E' = E
  BY <1>1 DEF inputVars, E
<1>6. SymbolsRead'
  <2>1. Spells(codec, <<>>, 0, <<>>, slots', 0)
    BY <1>3 DEF Spells, Holds, Blocks, B, E
  <2>2. \A i \in 0 .. E - 1 : slots'[i] # invalid_idx
    BY <1>1, <1>3 DEF FreshSlots, E, eof_idx, invalid_idx
  <2>3. Spells(codec', <<>>, 0, result', slots', ptr')
    BY <1>1, <1>5, <2>1
  <2>4. Kept(codec', text')[src'] = <<>>
    BY <1>1, <1>4, <1>5
  <2> QED
    BY <1>1, <1>5, <2>2, <2>3, <2>4 DEF SymbolsRead, Spelt
<1> QED
  BY <1>1, <1>2, <1>6 DEF MeaningInv, PaddingRead, AllRead, BlocksWritten,
     DecodesTheWellFormed, Errors

LEMMA SkipIgnoredMeaning == IInv /\ MeaningInv /\ SkipIgnored => MeaningInv'
<1> SUFFICES ASSUME IInv, MeaningInv, SkipIgnored PROVE MeaningInv'
  OBVIOUS
<1>1. /\ phase = "reading" /\ More /\ NextChar \in codec.should_ignore
      /\ src' = src + 1 /\ phase' = "reading"
      /\ UNCHANGED <<inputVars, decoderVars, text>>
  BY DEF SkipIgnored, Ignored
<1>2. TextMeansBinary'
  BY <1>1, TextStays
<1>3. Kept(codec, text)[src + 1] = Kept(codec, text)[src]
  BY <1>1, ReadNext
<1>4. \A i \in 1 .. src + 1 : text[i] # Nul
  <2>1. NextChar = Hyphen
    BY <1>1, Reader, Paddings
  <2>2. text[src + 1] # Nul
    BY <1>1, <2>1, ReadNext DEF Nul, Hyphen
  <2> QED
    BY <1>1, <2>2, Reader
<1>5. codec' = codec /\ text' = text /\ E' = E /\ result' = result /\ slots' = slots
      /\ ptr' = ptr
  BY <1>1 DEF inputVars, decoderVars, E
<1>6. SymbolsRead'
  BY <1>1, <1>3, <1>4, <1>5 DEF SymbolsRead, Spelt, MeaningInv
<1> QED
  BY <1>1, <1>2, <1>6 DEF MeaningInv, PaddingRead, AllRead, BlocksWritten,
     DecodesTheWellFormed, Errors

LEMMA TakeSymbolMeaning == IInv /\ MeaningInv /\ TakeSymbol => MeaningInv'
<1> SUFFICES ASSUME IInv, MeaningInv, TakeSymbol PROVE MeaningInv'
  OBVIOUS
<1> DEFINE k == Kept(codec, text)[src]
<1>1. /\ phase = "reading" /\ More /\ NextChar \notin codec.should_ignore
      /\ ~is_stop_character(Looked) /\ slots' = [slots EXCEPT ![ptr] = Looked]
      /\ src' = src + 1 /\ phase' = "reading"
      /\ UNCHANGED <<inputVars, text>>
  BY DEF TakeSymbol, Ignored
<1>2. TextMeansBinary'
  BY <1>1, TextStays
<1>3. /\ codec \in Variants /\ ptr \in 0 .. encoded_block_size(codec) - 1
      /\ result \in Seq(Byte) /\ k \in Seq(Char)
      /\ \A i \in 1 .. Len(k) : k[i] < alphabet_size(codec)
  BY <1>1, Reader
<1>4. PICK q \in Nat : Spells(codec, k, q, result, slots, ptr)
  BY <1>1, Reader
<1>5. /\ NextChar \in Char /\ NextChar = text[src + 1]
      /\ Kept(codec, text)[src + 1] = Append(k, NextChar)
  BY <1>1, ReadNext
<1>6. /\ NextChar \in 0 .. alphabet_size(codec) - 1 /\ Looked = NextChar
      /\ NextChar < alphabet_size(codec)
  BY <1>1, <1>3, <1>5, LookupCases DEF Looked
<1>7. /\ slots'[ptr] = NextChar /\ \A i \in 0 .. ptr - 1 : slots'[i] = slots[i]
      /\ \A i \in 0 .. E - 1 : i # ptr => slots'[i] = slots[i]
  BY <1>1, <1>6, Reader
<1>8. codec' = codec /\ text' = text /\ E' = E
  BY <1>1 DEF inputVars, E
<1>9. \A i \in 0 .. encoded_block_size(codec) - 1 : slots'[i] \in AlphabetIndex
  <2>1. slots' \in [0 .. E - 1 -> AlphabetIndex]
    BY TakeSymbolInvariant, <1>8 DEF IInv, TypeOK
  <2> QED
    BY <2>1 DEF E
<1> HIDE DEF k
<1>10. /\ ptr + 1 # encoded_block_size(codec)
            => Spells(codec, Append(k, NextChar), q, result, slots', ptr + 1)
       /\ ptr + 1 = encoded_block_size(codec)
            => Spells(codec, Append(k, NextChar), q + 1,
                      Put(result, decode_block(codec, slots')), slots', 0)
  BY <1>3, <1>4, <1>5, <1>6, <1>7, <1>9, SpellsSymbol
<1>11. \E p \in Nat : Spells(codec, Append(k, NextChar), p, result', slots', ptr')
  <2>1. CASE ptr + 1 = E
    <3>1. ptr' = 0 /\ result' = Put(result, decode_block(codec, slots'))
      BY <2>1 DEF TakeSymbol
    <3>2. Spells(codec, Append(k, NextChar), q + 1, result', slots', ptr')
      BY <1>10, <2>1, <3>1 DEF E
    <3>3. q + 1 \in Nat
      OBVIOUS
    <3> QED
      BY <3>2, <3>3
  <2>2. CASE ptr + 1 # E
    <3>1. ptr' = ptr + 1 /\ result' = result
      BY <2>2 DEF TakeSymbol
    <3>2. Spells(codec, Append(k, NextChar), q, result', slots', ptr')
      BY <1>10, <2>2, <3>1 DEF E
    <3> QED
      BY <3>2
  <2> QED
    BY <2>1, <2>2
<1>12. \A i \in 1 .. src + 1 : text[i] # Nul
  <2>1. text[src + 1] # Nul
    BY Zenon, <1>3, <1>5, <1>6, MarksApart
  <2> QED
    BY <1>1, <2>1, Reader
<1>13. \A i \in 1 .. Len(Append(k, NextChar)) :
         Append(k, NextChar)[i] < alphabet_size(codec)
  <2> SUFFICES ASSUME NEW i \in 1 .. Len(Append(k, NextChar))
               PROVE  Append(k, NextChar)[i] < alphabet_size(codec)
    OBVIOUS
  <2>1. \/ i \in 1 .. Len(k) /\ Append(k, NextChar)[i] = k[i]
        \/ Append(k, NextChar)[i] = NextChar
    BY <1>3, <1>5
  <2> QED
    BY Zenon, <1>3, <1>6, <2>1
<1>14. \A i \in 0 .. E - 1 : slots'[i] # invalid_idx
  <2> SUFFICES ASSUME NEW i \in 0 .. E - 1 PROVE slots'[i] # invalid_idx
    OBVIOUS
  <2>1. CASE i = ptr
    <3>1. NextChar \in 0 .. 67
      BY <1>5 DEF Char
    <3> QED
      BY <1>7, <2>1, <3>1 DEF invalid_idx
  <2>2. CASE i # ptr
    <3>1. slots[i] # invalid_idx
      BY <1>1 DEF MeaningInv, SymbolsRead
    <3> QED
      BY <1>7, <2>2, <3>1
  <2> QED
    BY <2>1, <2>2
<1>15. SymbolsRead'
  BY <1>1, <1>5, <1>8, <1>11, <1>12, <1>13, <1>14 DEF SymbolsRead, Spelt
<1> QED
  BY <1>1, <1>2, <1>15 DEF MeaningInv, PaddingRead, AllRead, BlocksWritten,
     DecodesTheWellFormed, Errors

(* The text ends while symbols are read: all of them have been spelt, and  *)
(* no padding has been seen.                                               *)
LEMMA LastSymbolRead ==
  ASSUME IInv, MeaningInv, phase = "reading",
         src = Len(text) \/ (src < Len(text) /\ text[src + 1] = Nul),
         UNCHANGED <<inputVars, text, result, ptr>>,
         \A i \in 0 .. ptr - 1 : slots'[i] = slots[i], slots'[ptr] # padding_idx,
         phase' = "closing", last' = ptr
  PROVE  MeaningInv'
<1> DEFINE k == Kept(codec, text)[src]
<1>1. /\ codec \in Variants /\ text \in Seq(Char) /\ src \in 0 .. Len(text)
      /\ ptr \in Nat
      /\ \A i \in 1 .. src : text[i] # Nul
      /\ \A i \in 1 .. Len(k) : k[i] < alphabet_size(codec)
  BY Reader
<1>2. PICK q \in Nat : Spells(codec, k, q, result, slots, ptr)
  BY Reader
<1> HIDE DEF k
<1>3. /\ Symbols(codec, text) = k /\ Pads(codec, text) = 0
      /\ SymbolCount(codec, text) = Len(Written(codec, text))
  BY <1>1, EndedAt DEF k
<1>4. Spells(codec, k, q, result, slots', ptr)
  BY <1>2, OtherSlots
<1>5. OnlyPadding
  BY <1>1, <1>3, WrittenType DEF OnlyPadding
<1>6. codec' = codec /\ text' = text /\ result' = result /\ ptr' = ptr
  BY DEF inputVars
<1>7. Spelt(Symbols(codec, text))'
  BY <1>3, <1>4, <1>6 DEF Spelt
<1>8. AllRead'
  BY <1>1, <1>3, <1>5, <1>6, <1>7 DEF AllRead, OnlyPadding
<1>9. TextMeansBinary'
  BY TextStays
<1> QED
  BY <1>8, <1>9 DEF MeaningInv, SymbolsRead, PaddingRead, BlocksWritten,
     DecodesTheWellFormed, Errors

LEMMA StopAtEndMeaning == IInv /\ MeaningInv /\ StopAtEnd => MeaningInv'
<1> SUFFICES ASSUME IInv, MeaningInv, StopAtEnd PROVE MeaningInv'
  OBVIOUS
<1>1. /\ phase = "reading" /\ ~More /\ LeaveLoop(slots[ptr]) /\ slots' = slots
      /\ UNCHANGED <<inputVars, text, result, ptr>>
  BY DEF StopAtEnd
<1>2. ptr \in 0 .. E - 1 /\ src \in 0 .. Len(text)
  BY <1>1, Reader
<1>3. slots[ptr] # padding_idx /\ slots[ptr] # invalid_idx
  BY <1>1, <1>2 DEF IInv, Reading, MeaningInv, SymbolsRead
<1>4. phase' = "closing" /\ last' = ptr
  BY <1>1, <1>3 DEF LeaveLoop
<1>5. src = Len(text)
  BY <1>1, <1>2 DEF More
<1> QED
  BY <1>1, <1>3, <1>4, <1>5, LastSymbolRead

(* Padding has been read behind n symbols, and may go on. *)
LEMMA PaddingGoesOn ==
  ASSUME MeaningInv, phase # "encoding", UNCHANGED <<inputVars, text, result, ptr>>,
         codec.padding_symbol, ptr > 0, NEW n \in 0 .. Len(text),
         src' = n + (last' - ptr),
         \A i \in 1 .. n : text[i] < alphabet_size(codec),
         \A i \in n + 1 .. src' : text[i] = Equals,
         NEW q \in Nat, Spells(codec, SubSeq(text, 1, n), q, result, slots, ptr),
         \A i \in 0 .. ptr - 1 : slots'[i] = slots[i], phase' = "padding"
  PROVE  MeaningInv'
<1>1. codec' = codec /\ text' = text /\ result' = result /\ ptr' = ptr
  BY DEF inputVars
<1>2. Spells(codec, SubSeq(text, 1, n), q, result, slots', ptr)
  BY OtherSlots
<1>3. SymbolsThenPadding(n)'
  BY <1>1, <1>2 DEF SymbolsThenPadding, Spelt
<1>4. PaddingRead'
  BY <1>1, <1>3 DEF PaddingRead
<1>5. TextMeansBinary'
  BY TextStays
<1> QED
  BY <1>4, <1>5 DEF MeaningInv, SymbolsRead, AllRead, BlocksWritten,
     DecodesTheWellFormed, Errors

LEMMA StopAtCharacterMeaning == IInv /\ MeaningInv /\ StopAtCharacter => MeaningInv'
<1> SUFFICES ASSUME IInv, MeaningInv, StopAtCharacter PROVE MeaningInv'
  OBVIOUS
<1> DEFINE k == Kept(codec, text)[src]
<1>1. /\ phase = "reading" /\ More /\ NextChar \notin codec.should_ignore
      /\ is_stop_character(Looked) /\ slots' = [slots EXCEPT ![ptr] = Looked]
      /\ LeaveLoop(Looked) /\ UNCHANGED <<inputVars, text, result, ptr>>
  BY DEF StopAtCharacter, Ignored
<1>2. /\ codec \in Variants /\ text \in Seq(Char) /\ src \in 0 .. Len(text)
      /\ ptr \in 0 .. encoded_block_size(codec) - 1 /\ ptr \in 0 .. E - 1
      /\ slots \in [0 .. E - 1 -> AlphabetIndex]
      /\ \A i \in 1 .. src : text[i] # Nul
      /\ \A i \in 1 .. Len(k) : k[i] < alphabet_size(codec)
  BY <1>1, Reader
<1>3. PICK q \in Nat : Spells(codec, k, q, result, slots, ptr)
  BY <1>1, Reader
<1>4. /\ src \in 0 .. Len(text) - 1 /\ NextChar \in Char /\ NextChar = text[src + 1]
  BY <1>1, ReadNext
<1>5. /\ ~ (NextChar < alphabet_size(codec))
      /\ Looked = eof_idx <=> NextChar = Nul
      /\ Looked = padding_idx <=> NextChar = Equals /\ codec.padding_symbol
  BY <1>1, <1>2, <1>4, LookupCases DEF Looked
<1>6. slots'[ptr] = Looked /\ \A i \in 0 .. ptr - 1 : slots'[i] = slots[i]
  BY <1>1, <1>2
<1> HIDE DEF k
<1>7. CASE NextChar = Nul
  <2>1. Looked = eof_idx
    BY <1>5, <1>7
  <2>2. phase' = "closing" /\ last' = ptr /\ slots'[ptr] # padding_idx
    BY <1>1, <1>6, <2>1 DEF LeaveLoop, eof_idx, padding_idx, invalid_idx
  <2>3. src < Len(text) /\ text[src + 1] = Nul
    BY <1>4, <1>7
  <2> QED
    BY <1>1, <1>6, <2>2, <2>3, LastSymbolRead
<1>8. ASSUME NextChar # Nul
      PROVE  /\ SymbolCount(codec, text) = Len(k)
             /\ Len(k) + 1 \in SymbolCount(codec, text) + 1 .. Len(Written(codec, text))
             /\ Written(codec, text)[Len(k) + 1] = NextChar
             /\ Pads(codec, text) # 0
             /\ SymbolCount(codec, text) % encoded_block_size(codec) = ptr
  <2>1. /\ k \in Seq(Char) /\ SymbolCount(codec, text) = Len(k)
        /\ Len(k) + 1 <= Len(Written(codec, text))
        /\ Written(codec, text)[Len(k) + 1] = NextChar
    BY <1>1, <1>2, <1>4, <1>5, <1>8, StoppedAt DEF k
  <2>2. Len(k) \in Nat /\ Len(Written(codec, text)) \in Nat
    BY <1>2, <2>1, WrittenType
  <2>3. Pads(codec, text) # 0
    BY <2>1, <2>2 DEF Pads
  <2>4. Len(k) % encoded_block_size(codec) = ptr
    BY <1>2, <1>3, SpellsCount
  <2> QED
    BY <2>1, <2>2, <2>3, <2>4
<1>9. CASE NextChar # Nul /\ ~ (NextChar = Equals /\ codec.padding_symbol)
  <2>1. Looked # padding_idx /\ Looked # eof_idx
    BY <1>5, <1>9
  <2>2. Looked = invalid_idx
    BY <1>5, <1>9 DEF Looked, lookup
  <2>3. phase' \in Errors
    BY <1>1, <2>2 DEF LeaveLoop, Errors
  <2>4. ~WellFormed(codec, text)
    BY <1>2, <1>8, <1>9, WrongCharacter
  <2> QED
    BY <1>1, <2>3, <2>4, RightError
<1>10. CASE NextChar = Equals /\ codec.padding_symbol /\ ptr = 0
  <2>1. Looked = padding_idx /\ NextChar # Nul
    BY <1>5, <1>10 DEF Equals, Nul
  <2>2. phase' \in Errors
    BY <1>1, <1>10, <2>1 DEF LeaveLoop, Errors, padding_idx, invalid_idx
  <2>3. ~WellFormed(codec, text)
    BY <1>2, <1>8, <1>10, <2>1, PaddingAlone
  <2> QED
    BY <1>1, <2>2, <2>3, RightError
<1>11. CASE NextChar = Equals /\ codec.padding_symbol /\ ptr # 0
  <2>1. Looked = padding_idx
    BY <1>5, <1>11
  <2>2. phase' = "padding" /\ src' = src + 1 /\ last' = ptr + 1
    BY <1>1, <1>11, <2>1 DEF LeaveLoop, padding_idx, invalid_idx
  <2>3. k = SubSeq(text, 1, src)
    <3>1. codec.should_ignore = {}
      BY <1>2, <1>11, Paddings
    <3> QED
      BY <1>2, <3>1, KeptWhole DEF k
  <2>4. Len(k) = src /\ \A i \in 1 .. src : k[i] = text[i]
    BY <1>2, <2>3
  <2>5. \A i \in 1 .. src : text[i] < alphabet_size(codec)
    BY <1>2, <2>4
  <2>6. Spells(codec, SubSeq(text, 1, src), q, result, slots, ptr)
    BY <1>3, <2>3
  <2>7. text[src + 1] = Equals
    BY <1>4, <1>11
  <2>8. \A i \in src + 1 .. src' : text[i] = Equals
    BY <1>2, <2>2, <2>7
  <2>9. src' = src + (last' - ptr) /\ ptr > 0
    BY <1>2, <1>11, <2>2
  <2> QED
    BY <1>1, <1>2, <1>6, <1>11, <2>2, <2>5, <2>6, <2>8, <2>9, PaddingGoesOn
<1> QED
  BY <1>7, <1>9, <1>10, <1>11

(* What is known where padding is counted. *)
LEMMA Padder ==
  ASSUME IInv, MeaningInv, phase = "padding"
  PROVE  /\ codec \in Variants /\ text \in Seq(Char) /\ src \in 0 .. Len(text)
         /\ E \in Nat /\ E = encoded_block_size(codec) /\ last \in Nat
         /\ ptr \in 1 .. E - 1 /\ ptr < last /\ last <= E
         /\ slots \in [0 .. E - 1 -> AlphabetIndex] /\ slots[ptr] = padding_idx
         /\ codec.padding_symbol
         /\ \E n \in 0 .. src - 1, q \in Nat :
              /\ n \in 0 .. Len(text) /\ src = n + (last - ptr)
              /\ \A i \in 1 .. n : text[i] < alphabet_size(codec)
              /\ \A i \in n + 1 .. src : text[i] = Equals
              /\ Spells(codec, SubSeq(text, 1, n), q, result, slots, ptr)
              /\ n % encoded_block_size(codec) = ptr
              /\ PaddedTo(codec, text, src, n)
<1>1. /\ codec \in Variants /\ text \in Seq(Char) /\ E \in Nat
      /\ E = encoded_block_size(codec) /\ last \in Nat /\ ptr \in 0 .. E - 1
      /\ slots \in [0 .. E - 1 -> AlphabetIndex]
  BY Decoder DEF IInv, TypeOK, E
<1>2. src \in 0 .. Len(text) /\ ptr < last /\ last <= E /\ slots[ptr] = padding_idx
  BY Decoder DEF IInv, CountingPadding
<1>3. codec.padding_symbol /\ ptr > 0
  BY DEF MeaningInv, PaddingRead
<1>4. PICK n \in 0 .. Len(text) : SymbolsThenPadding(n)
  BY DEF MeaningInv, PaddingRead
<1>5. /\ src = n + (last - ptr)
      /\ \A i \in 1 .. n : text[i] < alphabet_size(codec)
      /\ \A i \in n + 1 .. src : text[i] = Equals
  BY <1>4 DEF SymbolsThenPadding
<1>6. PICK q \in Nat : Spells(codec, SubSeq(text, 1, n), q, result, slots, ptr)
  BY <1>4 DEF SymbolsThenPadding, Spelt
<1>7. n \in 0 .. src - 1
  BY <1>1, <1>2, <1>5
<1>8. PaddedTo(codec, text, src, n)
  BY <1>1, <1>2, <1>3, <1>5, <1>7, PaddedUpTo
<1>9. n % encoded_block_size(codec) = ptr
  <2>1. SubSeq(text, 1, n) \in Seq(Char) /\ Len(SubSeq(text, 1, n)) = n
    BY <1>1
  <2>2. ptr \in 0 .. encoded_block_size(codec) - 1
    BY <1>1
  <2>3. Len(SubSeq(text, 1, n)) % encoded_block_size(codec) = ptr
    BY <1>1, <1>6, <2>2, SpellsCount
  <2> QED
    BY <2>1, <2>3
<1>10. ptr \in 1 .. E - 1
  BY <1>1, <1>3
<1> QED
  BY <1>1, <1>2, <1>3, <1>5, <1>6, <1>7, <1>8, <1>9, <1>10

(* The text ends while padding is counted. *)
LEMMA LastPaddingRead ==
  ASSUME IInv, MeaningInv, phase = "padding",
         src = Len(text) \/ (src < Len(text) /\ text[src + 1] = Nul),
         UNCHANGED <<inputVars, text, result, ptr, last>>,
         \A i \in 0 .. ptr - 1 : slots'[i] = slots[i], slots'[ptr] = padding_idx,
         phase' = "closing"
  PROVE  MeaningInv'
<1>1. /\ codec \in Variants /\ text \in Seq(Char) /\ src \in 0 .. Len(text)
      /\ last \in Nat /\ ptr \in Nat /\ ptr > 0 /\ ptr < last /\ codec.padding_symbol
  BY Padder
<1>2. PICK n \in 0 .. src - 1, q \in Nat :
        /\ n \in 0 .. Len(text) /\ src = n + (last - ptr)
        /\ \A i \in 1 .. n : text[i] < alphabet_size(codec)
        /\ \A i \in n + 1 .. src : text[i] = Equals
        /\ Spells(codec, SubSeq(text, 1, n), q, result, slots, ptr)
        /\ PaddedTo(codec, text, src, n)
  BY Padder
<1>3. /\ SymbolCount(codec, text) = n /\ Symbols(codec, text) = SubSeq(text, 1, n)
      /\ Len(Written(codec, text)) = src
      /\ \A i \in 1 .. src : Written(codec, text)[i] = text[i]
  BY <1>2 DEF PaddedTo
<1>4. Pads(codec, text) = last - ptr
  BY <1>1, <1>2, <1>3 DEF Pads
<1>5. OnlyPadding
  BY <1>1, <1>2, <1>3 DEF OnlyPadding
<1>6. Spells(codec, Symbols(codec, text), q, result, slots', ptr)
  BY <1>2, <1>3, OtherSlots
<1>7. codec' = codec /\ text' = text /\ result' = result /\ ptr' = ptr /\ last' = last
  BY DEF inputVars
<1>8. AllRead'
  BY <1>1, <1>4, <1>5, <1>6, <1>7 DEF AllRead, OnlyPadding, Spelt
<1>9. TextMeansBinary'
  BY TextStays
<1> QED
  BY <1>8, <1>9 DEF MeaningInv, SymbolsRead, PaddingRead, BlocksWritten,
     DecodesTheWellFormed, Errors

LEMMA PaddingEndsMeaning == IInv /\ MeaningInv /\ PaddingEnds => MeaningInv'
<1> SUFFICES ASSUME IInv, MeaningInv, PaddingEnds PROVE MeaningInv'
  OBVIOUS
<1>1. /\ phase = "padding" /\ ~More /\ phase' = "closing" /\ slots' = slots
      /\ UNCHANGED <<inputVars, text, result, ptr, last>>
  BY DEF PaddingEnds, decoderVars
<1>2. src = Len(text) /\ slots[ptr] = padding_idx
  BY <1>1, Padder DEF More
<1> QED
  BY <1>1, <1>2, LastPaddingRead

LEMMA MorePaddingMeaning == IInv /\ MeaningInv /\ MorePadding => MeaningInv'
<1> SUFFICES ASSUME IInv, MeaningInv, MorePadding PROVE MeaningInv'
  OBVIOUS
<1>1. /\ phase = "padding" /\ More /\ src' = src + 1
      /\ slots' = [slots EXCEPT ![ptr] = IF Looked = eof_idx THEN padding_idx
                                                            ELSE Looked]
      /\ last' = IF Looked = padding_idx THEN last + 1 ELSE last
      /\ phase' = IF Looked = eof_idx THEN "closing"
                  ELSE IF Looked # padding_idx \/ last' > E THEN "padding_error"
                  ELSE "padding"
      /\ UNCHANGED <<inputVars, text, result, ptr>>
  BY DEF MorePadding
<1>2. /\ codec \in Variants /\ text \in Seq(Char) /\ src \in 0 .. Len(text)
      /\ E \in Nat /\ E = encoded_block_size(codec) /\ last \in Nat
      /\ ptr \in 1 .. E - 1 /\ ptr < last /\ last <= E
      /\ slots \in [0 .. E - 1 -> AlphabetIndex] /\ codec.padding_symbol
  BY <1>1, Padder
<1>3. PICK n \in 0 .. src - 1, q \in Nat :
        /\ n \in 0 .. Len(text) /\ src = n + (last - ptr)
        /\ \A i \in 1 .. n : text[i] < alphabet_size(codec)
        /\ \A i \in n + 1 .. src : text[i] = Equals
        /\ Spells(codec, SubSeq(text, 1, n), q, result, slots, ptr)
        /\ n % encoded_block_size(codec) = ptr
        /\ PaddedTo(codec, text, src, n)
  BY <1>1, Padder
<1>4. src < Len(text) /\ NextChar = text[src + 1] /\ NextChar \in Char
  BY <1>1, <1>2 DEF More, NextChar
<1>5. /\ Looked = eof_idx <=> NextChar = Nul
      /\ Looked = padding_idx <=> NextChar = Equals
  BY <1>2, <1>4, LookupCases DEF Looked
<1>6. /\ \A i \in 0 .. ptr - 1 : slots'[i] = slots[i]
      /\ slots'[ptr] = IF Looked = eof_idx THEN padding_idx ELSE Looked
  BY <1>1, <1>2
<1>7. CASE NextChar = Nul
  <2>1. Looked = eof_idx /\ Looked # padding_idx
    BY <1>5, <1>7 DEF Nul, Equals
  <2>2. last' = last /\ phase' = "closing" /\ slots'[ptr] = padding_idx
    BY <1>1, <1>6, <2>1
  <2> QED
    BY <1>1, <1>4, <1>6, <1>7, <2>2, LastPaddingRead
<1>8. ASSUME NextChar # Nul
      PROVE  /\ src + 1 \in SymbolCount(codec, text) + 1 .. Len(Written(codec, text))
             /\ Written(codec, text)[src + 1] = NextChar
  <2>1. src + 1 <= Len(Written(codec, text)) /\ Written(codec, text)[src + 1] = NextChar
    BY <1>3, <1>4, <1>8 DEF PaddedTo
  <2>2. Len(Written(codec, text)) \in Nat
    BY <1>2, WrittenType
  <2>3. SymbolCount(codec, text) = n
    BY <1>3 DEF PaddedTo
  <2> QED
    BY <1>2, <1>3, <2>1, <2>2, <2>3
<1>9. CASE NextChar # Nul /\ NextChar # Equals
  <2>1. phase' \in Errors
    BY <1>1, <1>5, <1>9 DEF Errors
  <2>2. ~WellFormed(codec, text)
    BY <1>2, <1>8, <1>9, WrongCharacter
  <2> QED
    BY <1>1, <2>1, <2>2, RightError
<1>10. CASE NextChar = Equals /\ last + 1 > E
  <2>1. Looked = padding_idx /\ Looked # eof_idx /\ NextChar # Nul
    BY <1>5, <1>10 DEF Nul, Equals
  <2>2. phase' \in Errors
    BY <1>1, <1>10, <2>1 DEF Errors
  <2>3. ~WellFormed(codec, text)
    <3>1. src + 1 <= Len(Written(codec, text)) /\ Len(Written(codec, text)) \in Nat
      BY <1>2, <1>8, <2>1, WrittenType
    <3>2. SymbolCount(codec, text) = n
      BY <1>3 DEF PaddedTo
    <3>3. ptr + Pads(codec, text) # E /\ Pads(codec, text) # 0
      BY <1>2, <1>3, <1>10, <3>1, <3>2 DEF Pads
    <3>4. ptr # 0 /\ SymbolCount(codec, text) % encoded_block_size(codec) = ptr
      BY <1>2, <1>3, <3>2
    <3> QED
      BY <1>2, <3>3, <3>4, WrongTail
  <2> QED
    BY <1>1, <2>2, <2>3, RightError
<1>11. CASE NextChar = Equals /\ ~ (last + 1 > E)
  <2>1. Looked = padding_idx /\ Looked # eof_idx
    BY <1>5, <1>11 DEF Nul, Equals
  <2>2. last' = last + 1 /\ phase' = "padding"
    BY <1>1, <1>11, <2>1
  <2>3. src' = n + (last' - ptr) /\ ptr > 0 /\ n \in 0 .. Len(text)
    BY <1>1, <1>2, <1>3, <2>2
  <2>4. \A i \in n + 1 .. src' : text[i] = Equals
    <3> SUFFICES ASSUME NEW i \in n + 1 .. src + 1 PROVE text[i] = Equals
      BY <1>1
    <3>1. i = src + 1 \/ i \in n + 1 .. src
      BY <1>2, <1>3
    <3> QED
      BY Zenon, <1>3, <1>4, <1>11, <3>1
  <2> QED
    BY <1>1, <1>2, <1>3, <1>6, <2>2, <2>3, <2>4, PaddingGoesOn
<1> QED
  BY <1>7, <1>9, <1>10, <1>11

-----------------------------------------------------------------------------
(* How decode ends.                                                        *)

(* What is known when all has been read. *)
LEMMA Closer ==
  ASSUME IInv, MeaningInv, phase = "closing"
  PROVE  /\ codec \in Variants /\ text \in Seq(Char) /\ result \in Seq(Byte)
         /\ E \in Nat /\ E = encoded_block_size(codec) /\ last \in Nat
         /\ ptr \in 0 .. E - 1 /\ ptr <= last
         /\ slots \in [0 .. encoded_block_size(codec) - 1 -> AlphabetIndex]
         /\ OnlyPadding /\ Pads(codec, text) = last - ptr
         /\ ptr < last => ptr > 0 /\ slots[ptr] = padding_idx
         /\ slots[ptr] = padding_idx => ptr < last
         /\ SymbolCount(codec, text) % encoded_block_size(codec) = ptr
         /\ \E q \in Nat : Spells(codec, Symbols(codec, text), q, result, slots, ptr)
<1>1. /\ codec \in Variants /\ text \in Seq(Char) /\ result \in Seq(Byte)
      /\ E \in Nat /\ E = encoded_block_size(codec) /\ last \in Nat
      /\ ptr \in 0 .. E - 1 /\ ptr \in 0 .. encoded_block_size(codec) - 1
      /\ slots \in [0 .. encoded_block_size(codec) - 1 -> AlphabetIndex]
  BY Decoder DEF IInv, TypeOK, E
<1>2. /\ OnlyPadding /\ ptr <= last /\ Pads(codec, text) = last - ptr
      /\ ptr < last => ptr > 0 /\ slots[ptr] = padding_idx
      /\ slots[ptr] = padding_idx => ptr < last
  BY DEF MeaningInv, AllRead
<1>3. PICK q \in Nat : Spells(codec, Symbols(codec, text), q, result, slots, ptr)
  BY DEF MeaningInv, AllRead, Spelt
<1>4. SymbolCount(codec, text) % encoded_block_size(codec) = ptr
  <2>1. Len(Symbols(codec, text)) = SymbolCount(codec, text)
    BY <1>1, WrittenType
  <2> QED
    BY <1>1, <1>3, <2>1, SpellsCount
<1> QED
  BY <1>1, <1>2, <1>3, <1>4

(* A well-formed text has been decoded to its meaning. *)
LEMMA RightResult ==
  ASSUME MeaningInv, phase # "encoding", UNCHANGED <<inputVars, text>>,
         phase' = "decoded", WellFormed(codec, text), result' = Meaning(codec, text)
  PROVE  MeaningInv'
<1>1. TextMeansBinary'
  BY TextStays
<1>2. codec' = codec /\ text' = text
  BY DEF inputVars
<1>3. DecodesTheWellFormed'
  BY <1>2 DEF DecodesTheWellFormed
<1> QED
  BY <1>1, <1>3 DEF MeaningInv, SymbolsRead, PaddingRead, AllRead, BlocksWritten

LEMMA CloseWholeMeaning == IInv /\ MeaningInv /\ CloseWhole => MeaningInv'
<1> SUFFICES ASSUME IInv, MeaningInv, CloseWhole PROVE MeaningInv'
  OBVIOUS
<1>1. /\ phase = "closing" /\ last = 0 /\ phase' = "decoded" /\ result' = result
      /\ UNCHANGED <<inputVars, text>>
  BY DEF CloseWhole, decoderVars
<1>2. /\ codec \in Variants /\ text \in Seq(Char) /\ result \in Seq(Byte)
      /\ OnlyPadding /\ ptr = 0 /\ Pads(codec, text) = 0
      /\ SymbolCount(codec, text) % encoded_block_size(codec) = 0
  BY <1>1, Closer
<1>3. PICK q \in Nat : Spells(codec, Symbols(codec, text), q, result, slots, ptr)
  BY <1>1, Closer
<1>4. WellFormed(codec, text)
  BY Zenon, <1>2 DEF WellFormed, OnlyPadding
<1>5. result = Meaning(codec, text)
  BY <1>2, <1>3, SpellsWhole
<1> QED
  BY <1>1, <1>4, <1>5, RightResult

LEMMA CloseTailMeaning == IInv /\ MeaningInv /\ CloseTail => MeaningInv'
<1> SUFFICES ASSUME IInv, MeaningInv, CloseTail PROVE MeaningInv'
  OBVIOUS
<1>1. /\ phase = "closing" /\ last # 0 /\ ~PaddingMissing
      /\ ptr \in tail_lengths(codec) /\ phase' = "decoded"
      /\ result' = Put(result, decode_tail(codec, slots, ptr))
      /\ UNCHANGED <<inputVars, text>>
  BY DEF CloseTail
<1>2. /\ codec \in Variants /\ text \in Seq(Char) /\ result \in Seq(Byte)
      /\ E \in Nat /\ E = encoded_block_size(codec) /\ last \in Nat
      /\ ptr \in 0 .. E - 1 /\ ptr <= last
      /\ slots \in [0 .. encoded_block_size(codec) - 1 -> AlphabetIndex]
      /\ OnlyPadding /\ Pads(codec, text) = last - ptr
      /\ ptr < last => ptr > 0 /\ slots[ptr] = padding_idx
      /\ SymbolCount(codec, text) % encoded_block_size(codec) = ptr
  BY <1>1, Closer
<1>3. PICK q \in Nat : Spells(codec, Symbols(codec, text), q, result, slots, ptr)
  BY <1>1, Closer
<1>4. ptr # 0
  BY <1>1, <1>2
<1>5. \/ ptr + Pads(codec, text) = encoded_block_size(codec)
      \/ Pads(codec, text) = 0 /\ ~codec.requires_padding
  <2>1. CASE last = E
    BY <1>2, <2>1
  <2>2. CASE last # E
    <3>1. ~codec.requires_padding /\ slots[ptr] # padding_idx
      BY <1>1, <2>2 DEF PaddingMissing
    <3> QED
      BY <1>2, <3>1
  <2> QED
    BY <2>1, <2>2
<1>6. WellFormed(codec, text)
  BY Zenon, <1>1, <1>2, <1>4, <1>5 DEF WellFormed, OnlyPadding
<1>7. Put(result, decode_tail(codec, slots, ptr)) = Meaning(codec, text)
  BY <1>1, <1>2, <1>3, SpellsTail
<1> QED
  BY <1>1, <1>6, <1>7, RightResult

LEMMA CloseWithErrorMeaning == IInv /\ MeaningInv /\ CloseWithError => MeaningInv'
<1> SUFFICES ASSUME IInv, MeaningInv, CloseWithError PROVE MeaningInv'
  OBVIOUS
<1>1. /\ phase = "closing" /\ last # 0 /\ UNCHANGED <<inputVars, text>>
      /\ PaddingMissing \/ ptr >= E \/ ptr \notin tail_lengths(codec)
      /\ phase' \in Errors
  BY DEF CloseWithError, Errors
<1>2. /\ codec \in Variants /\ text \in Seq(Char)
      /\ E \in Nat /\ E = encoded_block_size(codec) /\ last \in Nat
      /\ ptr \in 0 .. E - 1 /\ ptr <= last /\ Pads(codec, text) = last - ptr
      /\ ptr < last => ptr > 0
      /\ slots[ptr] = padding_idx => ptr < last
      /\ SymbolCount(codec, text) % encoded_block_size(codec) = ptr
  BY <1>1, Closer
<1>3. ptr # 0
  BY <1>1, <1>2
<1>4. CASE PaddingMissing
  <2>1. (codec.requires_padding \/ slots[ptr] = padding_idx) /\ last # E
    BY <1>4 DEF PaddingMissing
  <2>2. ptr + Pads(codec, text) # encoded_block_size(codec)
    BY <1>2, <2>1
  <2>3. Pads(codec, text) # 0 \/ codec.requires_padding
    BY <1>2, <2>1
  <2>4. ~WellFormed(codec, text)
    BY <1>2, <1>3, <2>2, <2>3, WrongTail
  <2> QED
    BY <1>1, <2>4, RightError
<1>5. CASE ptr \notin tail_lengths(codec)
  <2>1. ~WellFormed(codec, text)
    BY <1>2, <1>3, <1>5, WrongTail
  <2> QED
    BY <1>1, <2>1, RightError
<1> QED
  BY <1>1, <1>2, <1>4, <1>5

LEMMA StutterMeaning == MeaningInv /\ UNCHANGED vars => MeaningInv'
BY DEF vars, MeaningInv, SymbolsRead, PaddingRead, SymbolsThenPadding, AllRead,
       OnlyPadding, Spelt, DecodesTheWellFormed, BlocksWritten, TextMeansBinary, B, E

(* MeaningInv holds in every state of encode and decode. *)
THEOREM MeaningInvariance == Spec => []MeaningInv
<1>1. IInv /\ MeaningInv /\ [Next]_vars => MeaningInv'
  BY EncodeBlockMeaning, EncodeTailMeaning, EncodeEndsMeaning,
     StartDecodingMeaning, SkipIgnoredMeaning, TakeSymbolMeaning,
     StopAtCharacterMeaning, StopAtEndMeaning, MorePaddingMeaning,
     PaddingEndsMeaning, CloseWholeMeaning, CloseWithErrorMeaning,
     CloseTailMeaning, StutterMeaning
  DEF Next, Encode, Decode
<1> QED
  BY <1>1, InitMeaning, Invariance, PTL DEF Spec

(***************************************************************************)
(* A text is decoded if and only if it is well formed, and then to the     *)
(* bytes that its symbols spell bit by bit: no error of stream_codec       *)
(* rejects a text it should take, and no path takes one it should not.     *)
(***************************************************************************)
THEOREM DecodesExactlyTheWellFormed == Spec => []DecodesTheWellFormed
<1>1. MeaningInv => DecodesTheWellFormed
  BY DEF MeaningInv
<1> QED
  BY <1>1, MeaningInvariance, PTL

(***************************************************************************)
(* Decoding what was encoded gives it back, for every variant and every    *)
(* binary, of any length.                                                  *)
(***************************************************************************)
THEOREM AlwaysRoundTrip == Spec => []RoundTrip
<1>1. MeaningInv => RoundTrip
  <2> SUFFICES ASSUME MeaningInv, ~given, phase \in {"decoded"} \union Errors
               PROVE  phase = "decoded" /\ result = binary
    BY DEF RoundTrip
  <2>1. WellFormed(codec, text) /\ Meaning(codec, text) = binary
    BY DEF MeaningInv, TextMeansBinary, Errors
  <2> QED
    BY <2>1 DEF MeaningInv, DecodesTheWellFormed
<1> QED
  BY <1>1, MeaningInvariance, PTL
=============================================================================
