---------------------------- MODULE MCTunnelExit ----------------------------
(***************************************************************************)
(* Instances of TunnelExit small enough for TLC.  Two connections and two  *)
(* tokens are enough for a token to be drawn twice, while its first        *)
(* connection is attempted, used or closed; two reads and writes           *)
(* outstanding are enough for reads to overlap.  No element of the three   *)
(* sets is distinguished, so they may be permuted where no liveness is     *)
(* checked.                                                                *)
(***************************************************************************)
EXTENDS TunnelExit, TLC

Symmetry ==
  Permutations(Clients) \cup Permutations(Conns) \cup Permutations(Tokens)
=============================================================================
