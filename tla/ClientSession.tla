--------------------------- MODULE ClientSession ---------------------------
(***************************************************************************)
(* What the tunnel server promises about one accepted client, seen from    *)
(* outside the handlers: where its session stands, and which steps can     *)
(* move it.  TunnelEntry, which models the handlers of one client,         *)
(* implements it; TlsServer, where many clients meet, is written in its    *)
(* steps.                                                                  *)
(*                                                                         *)
(*   "handshake"  the TLS handshake is in progress                         *)
(*   "heard"      the client is in stats_table and a read waits for it     *)
(*   "unheard"    it is in stats_table and no read waits                   *)
(*   "shut"       it is in stats_table but its socket has been closed here *)
(*   "forgotten"  it is not, or no longer, in stats_table                  *)
(***************************************************************************)

VARIABLES
  stage,
  peer,      \* the client's side: "open", "fin", "cut" or "reset"
  proc       \* "running", or "terminated"

vars == <<stage, peer, proc>>

Stages == {"handshake", "heard", "unheard", "shut", "forgotten"}

Init == stage = "handshake" /\ peer = "open" /\ proc = "running"

(***************************************************************************)
(* The client sends close_notify, ends the stream without it, or resets,   *)
(* which it may also do after one of the others.                           *)
(***************************************************************************)
Leave ==
  /\ \/ peer = "open" /\ peer' \in {"fin", "cut", "reset"}
     \/ peer \in {"fin", "cut"} /\ peer' = "reset"
  /\ UNCHANGED <<stage, proc>>

(***************************************************************************)
(* A handler that runs to its end has logged the client's address, so the  *)
(* client has not reset the connection.                                    *)
(***************************************************************************)
Shake ==
  /\ stage = "handshake" /\ peer # "reset"
  /\ stage' \in {"heard", "forgotten"}
  /\ UNCHANGED <<peer, proc>>

(***************************************************************************)
(* A read completes, and its handler starts another one or does not.       *)
(***************************************************************************)
Listen ==
  /\ stage = "heard" /\ peer # "reset"
  /\ stage' = "unheard"
  /\ UNCHANGED <<peer, proc>>

(***************************************************************************)
(* The target that the client asked for answers: it is read from again.    *)
(***************************************************************************)
Resume ==
  /\ stage = "unheard" /\ peer # "reset"
  /\ stage' = "heard"
  /\ UNCHANGED <<peer, proc>>

(***************************************************************************)
(* The only way out of stats_table: a read finds close_notify.             *)
(***************************************************************************)
Forget ==
  /\ stage = "heard" /\ peer = "fin"
  /\ stage' = "forgotten"
  /\ UNCHANGED <<peer, proc>>

(***************************************************************************)
(* A TLS shutdown that disconnect() started completes.                     *)
(***************************************************************************)
Shut ==
  /\ stage \in {"heard", "unheard"}
  /\ stage' = "shut"
  /\ UNCHANGED <<peer, proc>>

(***************************************************************************)
(* An exception in some handler, of this client or another; when it is the *)
(* one of this client's read, the read is over.                            *)
(***************************************************************************)
Terminate ==
  /\ proc' = "terminated"
  /\ stage' = stage \/ (stage = "heard" /\ stage' = "unheard")
  /\ UNCHANGED peer

Next ==
  /\ proc = "running"
  /\ \/ Leave
     \/ Shake \/ Listen \/ Resume \/ Forget \/ Shut
     \/ Terminate

Spec == Init /\ [][Next]_vars
=============================================================================
