---------------------------- MODULE StreamCodec ----------------------------
(***************************************************************************)
(* stream_codec::encode and stream_codec::decode                           *)
(* (cppcodec/detail/stream_codec.hpp) inside codec::encode and             *)
(* codec::decode (detail/codec.hpp), one action for each turn of a loop    *)
(* and for each way out of it.  The router decodes with it what a client   *)
(* sends; tunnel_exit and the debug client encode with it.                 *)
(*                                                                         *)
(* A behaviour either encodes a binary and decodes the text that results,  *)
(* or decodes a text that somebody else made ("given").                    *)
(*                                                                         *)
(* The result is resized to its greatest size first and then written       *)
(* through an offset nobody checks (data/access.hpp); the model keeps what *)
(* has been put, whose length is the offset, and the size it was given.    *)
(***************************************************************************)
EXTENDS TextMeaning

CONSTANTS
  Binaries,     \* binaries to encode
  Texts         \* texts to decode, encoded here or not

ASSUME InputAssumption ==
  /\ Binaries \subseteq Seq(Byte)
  /\ Texts \subseteq Seq(Char)

VARIABLES
  codec,     \* the variant at work
  binary,    \* what is encoded
  text,      \* what has been encoded so far, then what is decoded
  given,     \* the text was not encoded here
  result,    \* what has been decoded so far
  capacity,  \* the size the text, then the result, was resized to
  src,       \* bytes, then characters, that have been read
  slots,     \* alphabet_indexes
  ptr,       \* alphabet_index_ptr, as an index
  last,      \* last_index_ptr
  phase      \* where the functions stand, or how they ended

vars == <<codec, binary, text, given, result, capacity, src, slots, ptr, last,
          phase>>

decoderVars == <<result, slots, ptr, last>>
inputVars == <<codec, binary, given>>

B == binary_block_size(codec)
E == encoded_block_size(codec)

Errors == {"symbol_error", "padding_error", "invalid_input_length", "aborted"}
Phases == {"encoding", "encoded", "reading", "padding", "closing", "decoded"}
            \union Errors

FreshSlots(v) ==
  [i \in 0 .. encoded_block_size(v) - 1 |-> IF i = 0 THEN eof_idx ELSE 0]

(***************************************************************************)
(* put() of the result states: write at the offset and move it.            *)
(***************************************************************************)
Put(buffer, items) == buffer \o items

(***************************************************************************)
(* codec::encode: the text is resized to encoded_size, then filled.        *)
(***************************************************************************)
StartEncoding ==
  /\ binary \in Binaries /\ text = <<>> /\ given = FALSE
  /\ capacity = encoded_size(codec, Len(binary))
  /\ phase = "encoding"

GivenText ==
  /\ binary = <<>> /\ text \in Texts /\ given = TRUE
  /\ capacity = Len(text)
  /\ phase = "encoded"

Init ==
  /\ codec \in Variants
  /\ StartEncoding \/ GivenText
  /\ result = <<>> /\ src = 0 /\ slots = FreshSlots(codec)
  /\ ptr = 0 /\ last = 0

-----------------------------------------------------------------------------
(* stream_codec::encode.                                                   *)

Remaining == Len(binary) - src

Block == [i \in 0 .. Remaining - 1 |-> binary[src + i + 1]]

EncodeBlock ==
  /\ phase = "encoding" /\ Remaining >= B
  /\ text' = Put(text, [i \in 1 .. E |-> index(codec, i - 1, Block)])
  /\ src' = src + B
  /\ UNCHANGED <<inputVars, decoderVars, capacity, phase>>

TailSymbols(n) ==
  [i \in 1 .. n |-> IF i = n THEN index_last(codec, n - 1, Block)
                    ELSE index(codec, i - 1, Block)]

Padding(n) == [i \in 1 .. (IF codec.generates_padding THEN n ELSE 0) |-> Equals]

EncodeTail ==
  /\ phase = "encoding" /\ Remaining > 0 /\ Remaining < B
  /\ LET n == num_encoded_tail_symbols(codec, Remaining)
     IN  text' = Put(Put(text, TailSymbols(n)), Padding(E - n))
  /\ phase' = "encoded"
  /\ UNCHANGED <<inputVars, decoderVars, capacity, src>>

EncodeEnds ==
  /\ phase = "encoding" /\ Remaining = 0
  /\ phase' = "encoded"
  /\ UNCHANGED <<inputVars, decoderVars, text, capacity, src>>

-----------------------------------------------------------------------------
(***************************************************************************)
(* codec::decode: the result is resized to decoded_max_size.               *)
(***************************************************************************)
StartDecoding ==
  /\ phase = "encoded"
  /\ capacity' = decoded_max_size(codec, Len(text))
  /\ result' = <<>> /\ src' = 0 /\ slots' = FreshSlots(codec)
  /\ ptr' = 0 /\ last' = 0 /\ phase' = "reading"
  /\ UNCHANGED <<inputVars, text>>

More == src < Len(text)
NextChar == text[src + 1]
Ignored == NextChar \in codec.should_ignore
Looked == lookup(codec, NextChar)

SkipIgnored ==
  /\ phase = "reading" /\ More /\ Ignored
  /\ src' = src + 1
  /\ UNCHANGED <<inputVars, decoderVars, text, capacity, phase>>

(* Mutant of TakeSymbol: the pointer is not reset after a full block. *)
TakeSymbolNoReset ==
  /\ phase = "reading" /\ More /\ ~Ignored
  /\ ~is_stop_character(Looked)
  /\ slots' = [slots EXCEPT ![ptr] = Looked]
  /\ src' = src + 1 /\ ptr' = ptr + 1
  /\ result' = IF ptr + 1 = E THEN Put(result, decode_block(codec, slots')) ELSE result
  /\ UNCHANGED <<inputVars, text, capacity, last, phase>>

(***************************************************************************)
(* A symbol is stored; a full block is decoded and its slots are reused.   *)
(***************************************************************************)
TakeSymbol ==
  /\ phase = "reading" /\ More /\ ~Ignored
  /\ ~is_stop_character(Looked)
  /\ slots' = [slots EXCEPT ![ptr] = Looked]
  /\ src' = src + 1
  /\ IF ptr + 1 = E
     THEN ptr' = 0 /\ result' = Put(result, decode_block(codec, slots'))
     ELSE ptr' = ptr + 1 /\ UNCHANGED result
  /\ UNCHANGED <<inputVars, text, capacity, last, phase>>

(***************************************************************************)
(* Lines 355-370, with what the loop has left in the slot ptr points at.   *)
(* Padding is not accepted at the start of a block.                        *)
(***************************************************************************)
LeaveLoop(slot) ==
  IF slot = invalid_idx
  THEN phase' = "symbol_error" /\ UNCHANGED <<src, last>>
  ELSE /\ src' = src + 1
       /\ IF slot # padding_idx
          THEN last' = ptr /\ phase' = "closing"
          ELSE IF ptr = 0
          THEN last' = ptr /\ phase' = "padding_error"
          ELSE last' = ptr + 1 /\ phase' = "padding"

StopAtCharacter ==
  /\ phase = "reading" /\ More /\ ~Ignored
  /\ is_stop_character(Looked)
  /\ slots' = [slots EXCEPT ![ptr] = Looked]
  /\ LeaveLoop(Looked)
  /\ UNCHANGED <<inputVars, text, capacity, result, ptr>>

(***************************************************************************)
(* The text is used up: the slot still holds what it held.                 *)
(***************************************************************************)
StopAtEnd ==
  /\ phase = "reading" /\ ~More
  /\ LeaveLoop(slots[ptr])
  /\ UNCHANGED <<inputVars, text, capacity, result, slots, ptr>>

(* Mutant of MorePadding: any number of padding characters is read. *)
MorePaddingUnbounded ==
  /\ phase = "padding" /\ More
  /\ src' = src + 1
  /\ slots' = [slots EXCEPT ![ptr] = IF Looked = eof_idx THEN padding_idx ELSE Looked]
  /\ last' = IF Looked = padding_idx THEN last + 1 ELSE last
  /\ phase' = IF Looked = eof_idx THEN "closing"
              ELSE IF Looked # padding_idx THEN "padding_error"
              ELSE "padding"
  /\ UNCHANGED <<inputVars, text, capacity, result, ptr>>

(***************************************************************************)
(* Lines 371-386: padding characters are counted with last but all stored  *)
(* in the one slot.                                                        *)
(***************************************************************************)
MorePadding ==
  /\ phase = "padding" /\ More
  /\ src' = src + 1
  /\ slots' = [slots EXCEPT ![ptr] = IF Looked = eof_idx THEN padding_idx ELSE Looked]
  /\ last' = IF Looked = padding_idx THEN last + 1 ELSE last
  /\ phase' = IF Looked = eof_idx THEN "closing"
              ELSE IF Looked # padding_idx \/ last' > E THEN "padding_error"
              ELSE "padding"
  /\ UNCHANGED <<inputVars, text, capacity, result, ptr>>

PaddingEnds ==
  /\ phase = "padding" /\ ~More
  /\ phase' = "closing"
  /\ UNCHANGED <<inputVars, decoderVars, text, capacity, src>>

(***************************************************************************)
(* Lines 389-403.                                                          *)
(***************************************************************************)
PaddingMissing ==
  (codec.requires_padding \/ slots[ptr] = padding_idx) /\ last # E

(* Mutant of CloseWhole: a tail is dropped when it has no padding. *)
CloseWholeOrUnpadded ==
  /\ phase = "closing" /\ (last = 0 \/ slots[ptr] # padding_idx)
  /\ phase' = "decoded"
  /\ UNCHANGED <<inputVars, decoderVars, text, capacity, src>>

CloseWhole ==
  /\ phase = "closing" /\ last = 0
  /\ phase' = "decoded"
  /\ UNCHANGED <<inputVars, decoderVars, text, capacity, src>>

CloseWithError ==
  /\ phase = "closing" /\ last # 0
  /\ \/ PaddingMissing /\ phase' = "padding_error"
     \/ ~PaddingMissing /\ ptr >= E /\ phase' = "aborted"
     \/ /\ ~PaddingMissing /\ ptr < E /\ ptr \notin tail_lengths(codec)
        /\ phase' = "invalid_input_length"
  /\ UNCHANGED <<inputVars, decoderVars, text, capacity, src>>

CloseTail ==
  /\ phase = "closing" /\ last # 0 /\ ~PaddingMissing
  /\ ptr \in tail_lengths(codec)
  /\ result' = Put(result, decode_tail(codec, slots, ptr))
  /\ phase' = "decoded"
  /\ UNCHANGED <<inputVars, text, capacity, src, slots, ptr, last>>

-----------------------------------------------------------------------------
Encode == EncodeBlock \/ EncodeTail \/ EncodeEnds

Decode ==
  \/ StartDecoding
  \/ SkipIgnored \/ TakeSymbol \/ StopAtCharacter \/ StopAtEnd
  \/ MorePadding \/ PaddingEnds
  \/ CloseWhole \/ CloseWithError \/ CloseTail

Next == Encode \/ Decode

Spec == Init /\ [][Next]_vars

-----------------------------------------------------------------------------
TypeOK ==
  /\ codec \in Variants
  /\ binary \in Seq(Byte)
  /\ text \in Seq(Char)
  /\ given \in BOOLEAN
  /\ result \in Seq(Byte)
  /\ capacity \in Nat
  /\ src \in Nat
  /\ slots \in [0 .. E - 1 -> AlphabetIndex]
  /\ ptr \in 0 .. E - 1
  /\ last \in Nat
  /\ phase \in Phases

(***************************************************************************)
(* The unchecked writes of encode and decode stay inside the size the      *)
(* result was given before the first of them (access.hpp 154 and 166), for *)
(* every text, well formed or not, however it ends.                        *)
(***************************************************************************)
WithinCapacity ==
  IF phase \in {"encoding", "encoded"}
  THEN Len(text) <= capacity
  ELSE Len(result) <= capacity

(***************************************************************************)
(* The text fills the size computed for it exactly, which codec::encode    *)
(* asserts (codec.hpp 176).                                                *)
(***************************************************************************)
EncodedSizeIsExact == phase = "encoded" => Len(text) = capacity

(***************************************************************************)
(* Padding that is counted past the block never moves the slot pointer     *)
(* with it, so the abort() of line 398 is not reached, and decoding ends   *)
(* with at most one more padding character than a block has slots.         *)
(***************************************************************************)
SlotsHold == phase # "aborted" /\ last <= E + 1

(***************************************************************************)
(* Decoding what was encoded gives it back, for every variant.             *)
(***************************************************************************)
RoundTrip ==
  ~given /\ phase \in {"decoded"} \union Errors =>
    phase = "decoded" /\ result = binary

(***************************************************************************)
(* A text is decoded if and only if it is well formed, and then to the     *)
(* bytes its bits spell, whatever the slots held from the block before.    *)
(***************************************************************************)
DecodesTheWellFormed ==
  phase \in {"decoded"} \union Errors =>
    /\ phase = "decoded" <=> WellFormed(codec, text)
    /\ phase = "decoded" => result = Meaning(codec, text)
=============================================================================
