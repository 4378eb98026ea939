---------------------------- MODULE BlockCodecs ----------------------------
(***************************************************************************)
(* The codecs of src/cppcodec as data: how each one cuts a block of bytes  *)
(* into symbols and puts it together again (detail/base64.hpp, base32.hpp, *)
(* hex.hpp), and what each variant says of padding and of characters that  *)
(* are not symbols.  The router and tunnel_exit use base64_rfc4648; the    *)
(* others share its stream_codec, which StreamCodec steps through.         *)
(*                                                                         *)
(* A symbol is its index in the variant's alphabet, after normalisation of *)
(* its case; the alphabets themselves are one to one and left out.  Blocks *)
(* are functions from 0, as the arrays of the code.                        *)
(***************************************************************************)
EXTENDS Naturals, Sequences

Byte == 0 .. 255

(***************************************************************************)
(* Characters of a text: 0 .. 63 are symbols (a variant with a smaller     *)
(* alphabet rejects the rest), then those that matter otherwise.  Hyphen   *)
(* is the one base32_crockford skips; base64_url has it in its alphabet,   *)
(* where it is a symbol like the others.                                   *)
(***************************************************************************)
Equals == 64
Nul == 65
Hyphen == 66
Other == 67
Char == 0 .. 67

padding_idx == 256
invalid_idx == 512
eof_idx == 1024

AlphabetIndex == 0 .. 63 \union {padding_idx, invalid_idx, eof_idx}

-----------------------------------------------------------------------------
(* The variants: base64_rfc4648.hpp and its siblings.                      *)

Variant(family, generates_padding, requires_padding, padding_symbol, ignored) ==
  [family |-> family, generates_padding |-> generates_padding,
   requires_padding |-> requires_padding, padding_symbol |-> padding_symbol,
   should_ignore |-> ignored]

base64_rfc4648 == Variant("base64", TRUE, TRUE, TRUE, {})
base64_url == Variant("base64", TRUE, TRUE, TRUE, {})
base64_url_unpadded == Variant("base64", FALSE, FALSE, TRUE, {})
base32_rfc4648 == Variant("base32", TRUE, TRUE, TRUE, {})
base32_hex == Variant("base32", TRUE, TRUE, TRUE, {})
base32_crockford == Variant("base32", FALSE, FALSE, FALSE, {Hyphen})
hex_lower == Variant("hex", FALSE, FALSE, FALSE, {})
hex_upper == Variant("hex", FALSE, FALSE, FALSE, {})

Variants ==
  {base64_rfc4648, base64_url, base64_url_unpadded, base32_rfc4648, base32_hex,
   base32_crockford, hex_lower, hex_upper}

-----------------------------------------------------------------------------
binary_block_size(v) ==
  CASE v.family = "base64" -> 3 [] v.family = "base32" -> 5 [] v.family = "hex" -> 1

encoded_block_size(v) ==
  CASE v.family = "base64" -> 4 [] v.family = "base32" -> 8 [] v.family = "hex" -> 2

alphabet_size(v) ==
  CASE v.family = "base64" -> 64 [] v.family = "base32" -> 32 [] v.family = "hex" -> 16

(* Mutant of lookup: the padding character is not told from the others. *)
lookupNoPadding(v, c) ==
  IF c < alphabet_size(v) THEN c ELSE IF c = Nul THEN eof_idx ELSE invalid_idx

(***************************************************************************)
(* alphabet_index_info::lookup, the table from characters to indices.      *)
(***************************************************************************)
lookup(v, c) ==
  IF c < alphabet_size(v) THEN c
  ELSE IF c = Nul THEN eof_idx
  ELSE IF c = Equals /\ v.padding_symbol THEN padding_idx
  ELSE invalid_idx

is_stop_character(i) == i > 255

-----------------------------------------------------------------------------
(* Encoding a block b of bytes: symbol i, and the last symbol of a tail.   *)

base64_index(i, b) ==
  CASE i = 0 -> b[0] \div 4
    [] i = 1 -> (b[0] % 4) * 16 + b[1] \div 16
    [] i = 2 -> (b[1] % 16) * 4 + b[2] \div 64
    [] i = 3 -> b[2] % 64

base64_index_last(i, b) ==
  CASE i = 1 -> (b[0] % 4) * 16
    [] i = 2 -> (b[1] % 16) * 4

base32_index(i, b) ==
  CASE i = 0 -> b[0] \div 8
    [] i = 1 -> (b[0] % 8) * 4 + b[1] \div 64
    [] i = 2 -> (b[1] \div 2) % 32
    [] i = 3 -> (b[1] % 2) * 16 + b[2] \div 16
    [] i = 4 -> (b[2] % 16) * 2 + b[3] \div 128
    [] i = 5 -> (b[3] \div 4) % 32
    [] i = 6 -> (b[3] % 4) * 8 + b[4] \div 32
    [] i = 7 -> b[4] % 32

base32_index_last(i, b) ==
  CASE i = 1 -> (b[0] % 8) * 4
    [] i = 3 -> (b[1] % 2) * 16
    [] i = 4 -> (b[2] % 16) * 2
    [] i = 6 -> (b[3] % 4) * 8

hex_index(i, b) == CASE i = 0 -> b[0] \div 16 [] i = 1 -> b[0] % 16

index(v, i, b) ==
  CASE v.family = "base64" -> base64_index(i, b)
    [] v.family = "base32" -> base32_index(i, b)
    [] v.family = "hex" -> hex_index(i, b)

(* A block of hex is one byte, so a hex text has no tail. *)
index_last(v, i, b) ==
  CASE v.family = "base64" -> base64_index_last(i, b)
    [] v.family = "base32" -> base32_index_last(i, b)

num_encoded_tail_symbols(v, bytes) ==
  CASE v.family = "base64" -> bytes + 1
    [] v.family = "base32" -> CASE bytes = 1 -> 2 [] bytes = 2 -> 4
                                [] bytes = 3 -> 5 [] bytes = 4 -> 7

-----------------------------------------------------------------------------
(* Decoding a block of symbols; the casts to uint8_t drop the high bits.   *)

base64_decode_block(idx) ==
  <<(idx[0] * 4 + idx[1] \div 16) % 256,
    (idx[1] * 16 + idx[2] \div 4) % 256,
    (idx[2] * 64 + idx[3]) % 256>>

base64_decode_tail(idx, len) ==
  IF len = 2
  THEN <<(idx[0] * 4 + ((idx[1] \div 16) % 4)) % 256>>
  ELSE <<(idx[0] * 4 + ((idx[1] \div 16) % 4)) % 256,
         (idx[1] % 16) * 16 + ((idx[2] \div 4) % 16)>>

(***************************************************************************)
(* Byte i of a base32 block; decode_block puts all five, decode_tail the   *)
(* first ones, which take the same symbols.                                *)
(***************************************************************************)
base32_byte(idx, i) ==
  CASE i = 1 -> (idx[0] % 32) * 8 + ((idx[1] \div 4) % 8)
    [] i = 2 -> (idx[1] % 4) * 64 + (idx[2] % 32) * 2 + ((idx[3] \div 16) % 2)
    [] i = 3 -> (idx[3] % 16) * 16 + ((idx[4] \div 2) % 16)
    [] i = 4 -> (idx[4] % 2) * 128 + (idx[5] % 32) * 4 + ((idx[6] \div 8) % 4)
    [] i = 5 -> (idx[6] % 8) * 32 + (idx[7] % 32)

base32_decode_block(idx) == [i \in 1 .. 5 |-> base32_byte(idx, i)]

base32_decode_tail(idx, len) ==
  [i \in 1 .. (CASE len = 2 -> 1 [] len = 4 -> 2 [] len = 5 -> 3 [] len = 7 -> 4)
     |-> base32_byte(idx, i)]

hex_decode_block(idx) == <<(idx[0] * 16 + idx[1]) % 256>>

decode_block(v, idx) ==
  CASE v.family = "base64" -> base64_decode_block(idx)
    [] v.family = "base32" -> base32_decode_block(idx)
    [] v.family = "hex" -> hex_decode_block(idx)

(***************************************************************************)
(* The lengths for which decode_tail does not throw invalid_input_length.  *)
(***************************************************************************)
tail_lengths(v) ==
  CASE v.family = "base64" -> {2, 3}
    [] v.family = "base32" -> {2, 4, 5, 7}
    [] v.family = "hex" -> {}

decode_tail(v, idx, len) ==
  CASE v.family = "base64" -> base64_decode_tail(idx, len)
    [] v.family = "base32" -> base32_decode_tail(idx, len)

-----------------------------------------------------------------------------
(* The sizes that results are resized to before anything is put in them.   *)

(* Mutant of encoded_size: no room for a block that is not full. *)
encoded_sizeRoundedDown(v, size) ==
  (size * encoded_block_size(v)) \div binary_block_size(v)

encoded_size(v, size) ==
  LET B == binary_block_size(v)
      E == encoded_block_size(v)
      up == size + B - 1
  IN  IF v.generates_padding
      THEN ((up - (up % B)) * E) \div B
      ELSE (size * E) \div B + (IF (size * E) % B # 0 THEN 1 ELSE 0)

(* Mutant of decoded_max_size: the tail of an unpadded text is forgotten. *)
decoded_max_sizeNoTail(v, size) ==
  (size \div encoded_block_size(v)) * binary_block_size(v)

decoded_max_size(v, size) ==
  LET B == binary_block_size(v)
      E == encoded_block_size(v)
  IN  (size \div E) * B
        + (IF v.requires_padding THEN 0 ELSE ((size % E) * B) \div E)
=============================================================================
