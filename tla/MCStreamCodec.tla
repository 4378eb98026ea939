--------------------------- MODULE MCStreamCodec ---------------------------
(***************************************************************************)
(* Inputs for StreamCodec.  Every bit of a binary goes its own way through *)
(* the shifts of the codecs, so a binary of every length up to MaxBytes    *)
(* with one bit set, or one bit clear, in one of its bytes shows each of   *)
(* them; MaxBytes covers a block of base32 and a tail after it.  The texts *)
(* are up to MaxSymbols symbols, all different in neighbouring blocks,     *)
(* followed by any MaxOdd characters that stop the loop, are skipped or    *)
(* are symbols again, or by too little, enough or too much padding.        *)
(***************************************************************************)
EXTENDS StreamCodec

CONSTANTS MaxBytes, MaxSymbols, MaxOdd

OneBit(n, j, k, fill) ==
  [i \in 1 .. n |-> IF i # j THEN fill
                    ELSE IF fill = 0 THEN 2 ^ k ELSE 255 - 2 ^ k]

MCBinaries ==
  {<<>>} \union
  UNION {{OneBit(n, j, k, fill) : j \in 1 .. n, k \in 0 .. 7, fill \in {0, 255}}
           : n \in 1 .. MaxBytes}

Symbol(i) == (7 * i + 3) % 16

Run(n) == [i \in 1 .. n |-> Symbol(i)]

Odd == UNION {[1 .. n -> {9, 31, Equals, Nul, Hyphen, Other}] : n \in 0 .. MaxOdd}

Padded(n) == [i \in 1 .. n |-> Equals]

MCTexts ==
  {Run(n) \o odd : n \in 0 .. MaxSymbols, odd \in Odd} \union
  {Run(n) \o Padded(m) \o odd : n \in 0 .. MaxSymbols, m \in 1 .. 8,
     odd \in {<<>>, <<Nul>>, <<Nul, Other>>, <<9>>}}
=============================================================================
