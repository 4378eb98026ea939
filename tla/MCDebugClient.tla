--------------------------- MODULE MCDebugClient ---------------------------
(* DebugClient for TLC: what arrives at a time is more than one read of    *)
(* the server takes, so reads are full, of one byte, or in between.        *)
EXTENDS DebugClient

MCAmounts == {300, 513, 1050}
=============================================================================
