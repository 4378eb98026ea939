--------------------------- MODULE TlsConnection ---------------------------
(***************************************************************************)
(* What a tls_connection (util/tls_server.hpp, util/tls_server.cpp) keeps  *)
(* between two events, as a record, and what each of its operations does   *)
(* to it.  Both ends of the tunnel use the class, so the operators here    *)
(* are shared by TunnelEntry and TunnelExit.                               *)
(*                                                                         *)
(*   reads        composed read operations that have not completed         *)
(*   torn         a read was started while another was outstanding: both   *)
(*                grow and shrink the one vector read_buffer, so neither   *)
(*                leaves in it the bytes it received                       *)
(*   writes       async_write / async_write_unsecure not completed         *)
(*   errorWrites  async_write_error not completed                          *)
(*   shutdowns    TLS shutdowns started by disconnect() not completed      *)
(*   open         the server has not closed the socket                     *)
(***************************************************************************)
EXTENDS Naturals

Connection ==
  [reads : Nat, torn : BOOLEAN, writes : Nat,
   errorWrites : Nat, shutdowns : Nat, open : BOOLEAN]

NewConnection ==
  [reads |-> 0, torn |-> FALSE, writes |-> 0,
   errorWrites |-> 0, shutdowns |-> 0, open |-> TRUE]

(***************************************************************************)
(* async_read_some and async_read_some_unsecure: nothing checks whether a  *)
(* read is outstanding already.                                            *)
(***************************************************************************)
MoreReads(c) == [c EXCEPT !.reads = @ + 1]

AsyncReadSome(c) ==
  IF c.reads = 0 THEN MoreReads(c) ELSE [MoreReads(c) EXCEPT !.torn = TRUE]

(***************************************************************************)
(* A read completes and its handler starts.  The buffer is whole again     *)
(* only for a read that is started when no other one is outstanding.       *)
(***************************************************************************)
FewerReads(c) == [c EXCEPT !.reads = @ - 1]

ReadCompleted(c) ==
  IF c.reads > 1 THEN FewerReads(c) ELSE [FewerReads(c) EXCEPT !.torn = FALSE]

AsyncWrite(c) == [c EXCEPT !.writes = @ + 1]

(* Mutant of WriteCompleted: one completion is counted twice. *)
WriteCompletedTwice(c) == [c EXCEPT !.writes = @ - 2]

WriteCompleted(c) == [c EXCEPT !.writes = @ - 1]

AsyncWriteError(c) == [c EXCEPT !.errorWrites = @ + 1]

(***************************************************************************)
(* disconnect() starts a TLS shutdown; the socket is closed only when the  *)
(* shutdown completes.                                                     *)
(***************************************************************************)
Disconnect(c) == [c EXCEPT !.shutdowns = @ + 1]
Closed(c) == [c EXCEPT !.open = FALSE]
ShutdownCompleted(c) == Closed([c EXCEPT !.shutdowns = @ - 1])

(***************************************************************************)
(* The lambda of async_write_error: whatever the result, disconnect().     *)
(***************************************************************************)
ErrorWriteCompleted(c) == Disconnect([c EXCEPT !.errorWrites = @ - 1])

(***************************************************************************)
(* The server is about to close the connection, or has closed it.          *)
(***************************************************************************)
Closing(c) == c.shutdowns > 0 \/ c.errorWrites > 0 \/ ~c.open
=============================================================================
