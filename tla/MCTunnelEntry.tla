--------------------------- MODULE MCTunnelEntry ---------------------------
(***************************************************************************)
(* Instances of TunnelEntry small enough for TLC.  A payload longer than   *)
(* the header lets a read end inside a packet, at its end and inside the   *)
(* next one, and lets a packet come in three parts.  The runs of           *)
(* TunnelEntry.cfg and TunnelEntryForward.cfg take a header of one byte;   *)
(* the others take one of two, which a read can also cut in two.           *)
(***************************************************************************)
EXTENDS TunnelEntry
=============================================================================
