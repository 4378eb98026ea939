---------------------------- MODULE MCTlsServer ----------------------------
(***************************************************************************)
(* Instances of TlsServer small enough for TLC: three clients, one more    *)
(* than there are accepts, and fewer descriptors than they and their       *)
(* routes can use.                                                         *)
(***************************************************************************)
EXTENDS TlsServer
=============================================================================
