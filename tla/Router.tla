------------------------------- MODULE Router -------------------------------
(***************************************************************************)
(* router::packet_in and the command handlers it calls (tunnel/router.cpp).*)
(* They run inside the read handler of the client's connection, so each is *)
(* a part of an action of TunnelEntry: it takes the connection as the read *)
(* handler leaves it, and "again", which says that the read handler starts *)
(* one more read after packet_in returns.                                  *)
(*                                                                         *)
(* A packet is a record: its command, the number of payload bytes its      *)
(* header states, and the index of its first byte in the client's stream.  *)
(*                                                                         *)
(*   "start_tunnel"  well formed, answered by the authenticator at once    *)
(*   "connect"       well formed                                           *)
(*   "data"          carries the token of one of the client's routes       *)
(*   "undecodable"   "data" whose text is not base64                       *)
(*   "rejected"      unknown command, missing argument or unknown token    *)
(*   "malformed"     the payload is not JSON or has no "command"           *)
(*   "unsigned"      the header does not start with universal_header::SIGN *)
(***************************************************************************)
EXTENDS Naturals, Sequences, TlsConnection

CONSTANT HeaderSize     \* sizeof(universal_header), 6 in the code

ASSUME HeaderSizeAssumption == HeaderSize \in Nat \ {0}

Commands == {"start_tunnel", "connect", "data", "undecodable", "rejected",
             "malformed", "unsigned"}

Packet == [command : Commands, size : Nat, start : Nat \ {0}]

VARIABLES
  sent,      \* packets the client has put on the stream
  conn,      \* the client's tls_connection
  buffer,    \* its read_buffer: indices of stream bytes, 0 for a stray byte
  handled,   \* packets, by index in sent, that reached a command handler
  routes,    \* the client's routes in tunnel_exit, counted by stage
  proc       \* "running", or "terminated" by an exception or a bad access

routerVars == <<conn, buffer, handled, routes, proc>>

Routes == [pending : Nat, live : Nat, dead : Nat]

-----------------------------------------------------------------------------
(***************************************************************************)
(* The packet whose payload is exactly these bytes, 0 when there is none:  *)
(* read_json accepts one JSON text and nothing after it.                   *)
(***************************************************************************)
PayloadOf(p) == [k \in 1 .. p.size |-> p.start + HeaderSize + k - 1]

Legible(p) == p.command \notin {"malformed", "unsigned"} /\ p.size > 0

IsPacket(bytes, i) == Legible(sent[i]) /\ bytes = PayloadOf(sent[i])

PacketOf(bytes) ==
  IF \E i \in DOMAIN sent : IsPacket(bytes, i)
  THEN CHOOSE i \in DOMAIN sent : IsPacket(bytes, i)
  ELSE 0

(***************************************************************************)
(* Line 127 of tunnel_endpoints.cpp: the read started after packet_in.     *)
(***************************************************************************)
Repost(c, again) == IF again THEN AsyncReadSome(c) ELSE c

Terminated(c) ==
  /\ proc' = "terminated"
  /\ conn' = c
  /\ UNCHANGED routes

(* Mutant of HandleStartTunnel: no read after the answer. *)
HandleStartTunnelNoRead(c, again) ==
  /\ conn' = Repost(AsyncWrite(c), again)
  /\ UNCHANGED <<routes, proc>>

(***************************************************************************)
(* The answer is written and the next read is started in the callback,     *)
(* which the authenticator runs before async_query_user_token returns.     *)
(***************************************************************************)
HandleStartTunnel(c, again) ==
  /\ conn' = Repost(AsyncReadSome(AsyncWrite(c)), again)
  /\ UNCHANGED <<routes, proc>>

(***************************************************************************)
(* Either the name resolves and a connection is attempted, or resolve      *)
(* throws, which nothing catches.  No read is started: the result callback *)
(* does that (ConnectDone in TunnelEntry).                                 *)
(***************************************************************************)
HandleConnect(c, again) ==
  \/ /\ routes' = [routes EXCEPT !.pending = @ + 1]
     /\ conn' = Repost(c, again)
     /\ UNCHANGED proc
  \/ Terminated(c)

(***************************************************************************)
(* Answers no_such_token, an unknown command or a missing argument.        *)
(***************************************************************************)
Reject(c, again) ==
  /\ conn' = Repost(AsyncWriteError(c), again)
  /\ UNCHANGED <<routes, proc>>

(***************************************************************************)
(* find_route, decode, write to the target.  decode throws on a text that  *)
(* is not base64.  No read is started on the client's connection.          *)
(***************************************************************************)
HandleData(command, c, again) ==
  IF routes.live = 0
  THEN Reject(c, again)
  ELSE IF command = "undecodable"
       THEN Terminated(c)
       ELSE /\ conn' = Repost(c, again)
            /\ UNCHANGED <<routes, proc>>

Handle(command, c, again) ==
  \/ command = "start_tunnel" /\ HandleStartTunnel(c, again)
  \/ command = "connect" /\ HandleConnect(c, again)
  \/ command \in {"data", "undecodable"} /\ HandleData(command, c, again)
  \/ command = "rejected" /\ Reject(c, again)

(***************************************************************************)
(* packet_in takes the whole buffer, whatever the header stated.           *)
(***************************************************************************)
PacketIn(bytes, c, again) ==
  /\ buffer' = <<>>
  /\ LET i == PacketOf(bytes)
     IN  IF i = 0
         THEN /\ conn' = Repost(Disconnect(c), again)
              /\ UNCHANGED <<handled, routes, proc>>
         ELSE /\ handled' = Append(handled, i)
              /\ Handle(sent[i].command, c, again)
=============================================================================
