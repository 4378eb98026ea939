----------------------------- MODULE TlsServer -----------------------------
(***************************************************************************)
(* tls_server (util/tls_server.cpp) with the clients that tunnel_entry     *)
(* serves through it: accepting, handing over to the session, and what     *)
(* becomes of each client's socket.  main starts two accepts before the    *)
(* event loop runs, one in the constructor of tls_server and one in        *)
(* tunnel_entry::start_listen; each that succeeds starts another.          *)
(*                                                                         *)
(* The session of a client is seen from outside: its steps are those of    *)
(* ClientSession, which TunnelEntry, where its handlers are, implements;   *)
(* here they are taken for granted.  Target connections matter for two     *)
(* things: a route needs a descriptor, and keeps its client's connection   *)
(* from being deleted.                                                     *)
(***************************************************************************)
EXTENDS Naturals, Sequences, FiniteSets

CONSTANTS
  Clients,          \* TCP connections to the server's port
  NoClient,         \* an accept that failed
  MaxDescriptors    \* sockets the process may have besides the acceptor

ASSUME ServerAssumption == NoClient \notin Clients /\ MaxDescriptors \in Nat

VARIABLES
  backlog,   \* clients that the kernel has connected
  accepts,   \* the fresh connections of async_accepts that have not completed
  accepted,  \* completed accepts, in order, whose handler has not run
  created,   \* tls_connections made so far; they are named by this number
  socketOf,  \* the tls_connection of each client, 0 before it has one
  stage,     \* where each client stands
  routed,    \* clients that have a route in tunnel_exit (bound: one each)
  peer,      \* each client's side: "open", "fin", "cut" or "reset"
  proc       \* "running", or "terminated" by an exception

vars == <<backlog, accepts, accepted, created, socketOf, stage, routed, peer,
          proc>>

acceptVars == <<backlog, accepts, accepted, created, socketOf>>

(***************************************************************************)
(* "quiet": the last packet started no read; "kept": the last read failed  *)
(* in a way that leaves the entry in stats_table.                          *)
(***************************************************************************)
Stages == {"away", "waiting", "accepted", "handshake", "heard", "quiet",
           "kept", "shut", "forgotten"}

Running == proc = "running"

(***************************************************************************)
(* Descriptors in use: a client's socket lives as long as something owns   *)
(* its connection and it has not been closed, and a route has a socket.    *)
(***************************************************************************)
HasSocket(c) ==
  \/ stage[c] \in {"accepted", "handshake", "heard", "quiet", "kept"}
  \/ stage[c] = "forgotten" /\ c \in routed

Used == Cardinality({c \in Clients : HasSocket(c)}) + Cardinality(routed)

(* Mutant of Fresh: every accept is given the same connection. *)
FreshNever == UNCHANGED created /\ accepts' = Append(accepts, created)

(***************************************************************************)
(* start_accept: a new connection, and an accept into it.                  *)
(***************************************************************************)
Fresh == created' = created + 1 /\ accepts' = Append(accepts, created + 1)

Init ==
  /\ backlog = <<>> /\ accepted = <<>>
  /\ accepts = <<1, 2>> /\ created = 2
  /\ socketOf = [c \in Clients |-> 0]
  /\ stage = [c \in Clients |-> "away"]
  /\ routed = {}
  /\ peer = [c \in Clients |-> "open"]
  /\ proc = "running"

Move(c, to) == stage' = [stage EXCEPT ![c] = to]

Ends == proc' = "terminated"

-----------------------------------------------------------------------------
(* The clients and the kernel.                                             *)

Arrive(c) ==
  /\ Running /\ stage[c] = "away"
  /\ Move(c, "waiting")
  /\ backlog' = Append(backlog, c)
  /\ UNCHANGED <<accepts, accepted, created, socketOf, routed, peer, proc>>

(* A client that has ended its stream may reset the connection later.      *)
Leave(c, how) ==
  /\ Running /\ stage[c] # "away"
  /\ peer[c] = "open" \/ (peer[c] # "reset" /\ how = "reset")
  /\ peer' = [peer EXCEPT ![c] = how]
  /\ UNCHANGED <<acceptVars, stage, routed, proc>>

Accept ==
  /\ Running /\ accepts # <<>> /\ backlog # <<>> /\ Used < MaxDescriptors
  /\ accepted' = Append(accepted, [conn |-> Head(accepts), client |-> Head(backlog)])
  /\ accepts' = Tail(accepts) /\ backlog' = Tail(backlog)
  /\ Move(Head(backlog), "accepted")
  /\ UNCHANGED <<created, socketOf, routed, peer, proc>>

(* Mutant of AcceptFails: the completion has lost its connection. *)
AcceptFailsUnbound ==
  /\ Running /\ accepts # <<>> /\ Used >= MaxDescriptors
  /\ accepted' = Append(accepted, [conn |-> NoClient, client |-> NoClient])
  /\ accepts' = Tail(accepts)
  /\ UNCHANGED <<backlog, created, socketOf, stage, routed, peer, proc>>

(***************************************************************************)
(* No descriptor is left.  The kernel looks for one before it looks at the *)
(* backlog, so nobody need be waiting.                                     *)
(***************************************************************************)
AcceptFails ==
  /\ Running /\ accepts # <<>> /\ Used >= MaxDescriptors
  /\ accepted' = Append(accepted, [conn |-> Head(accepts), client |-> NoClient])
  /\ accepts' = Tail(accepts)
  /\ UNCHANGED <<backlog, created, socketOf, stage, routed, peer, proc>>

-----------------------------------------------------------------------------
(* handle_accept.                                                          *)

(* Mutant of HandleAccept: the next accept is left to the handshake. *)
HandleAcceptOnce ==
  /\ Running /\ accepted # <<>> /\ Head(accepted).client # NoClient
  /\ accepted' = Tail(accepted)
  /\ LET c == Head(accepted).client
     IN  IF peer[c] = "reset"
         THEN Ends /\ UNCHANGED <<accepts, created, socketOf, stage>>
         ELSE /\ Move(c, "handshake")
              /\ socketOf' = [socketOf EXCEPT ![c] = Head(accepted).conn]
              /\ UNCHANGED <<accepts, created, proc>>
  /\ UNCHANGED <<backlog, routed, peer>>

(***************************************************************************)
(* The log line throws when the client has already reset the connection;   *)
(* otherwise the handshake starts, and another accept.                     *)
(***************************************************************************)
HandleAccept ==
  /\ Running /\ accepted # <<>> /\ Head(accepted).client # NoClient
  /\ accepted' = Tail(accepted)
  /\ LET c == Head(accepted).client
     IN  IF peer[c] = "reset"
         THEN Ends /\ UNCHANGED <<accepts, created, socketOf, stage>>
         ELSE /\ Move(c, "handshake")
              /\ socketOf' = [socketOf EXCEPT ![c] = Head(accepted).conn]
              /\ Fresh
              /\ UNCHANGED proc
  /\ UNCHANGED <<backlog, routed, peer>>

(***************************************************************************)
(* The log line asks for the peer of a socket that was never opened.       *)
(***************************************************************************)
HandleAcceptError ==
  /\ Running /\ accepted # <<>> /\ Head(accepted).client = NoClient
  /\ accepted' = Tail(accepted)
  /\ Ends
  /\ UNCHANGED <<backlog, accepts, created, socketOf, stage, routed, peer>>

-----------------------------------------------------------------------------
(***************************************************************************)
(* The sessions.  A handler first logs the client's address, which throws  *)
(* when the client has reset the connection.                               *)
(***************************************************************************)
Handler(c) ==
  /\ UNCHANGED <<acceptVars, peer>>
  /\ peer[c] = "reset" => Ends /\ UNCHANGED <<stage, routed>>
  /\ peer[c] # "reset" => UNCHANGED proc

(***************************************************************************)
(* There is no timer: a handshake lasts as long as the client likes.  When *)
(* it fails, handle_handshake was the last owner of the connection.        *)
(***************************************************************************)
HandshakeCompletes(c) ==
  /\ Running /\ stage[c] = "handshake"
  /\ Handler(c)
  /\ peer[c] # "reset" =>
       /\ Move(c, "heard") \/ Move(c, "forgotten")
       /\ UNCHANGED routed

(***************************************************************************)
(* A read that brings data; unless another one is started the client is    *)
(* not heard any more.  "connect" opens a route.                           *)
(***************************************************************************)
ReadData(c) ==
  /\ Running /\ stage[c] = "heard"
  /\ Handler(c)
  /\ peer[c] # "reset" =>
       /\ Move(c, "quiet") \/ UNCHANGED stage
       /\ \/ UNCHANGED routed
          \/ Used < MaxDescriptors /\ routed' = routed \union {c}

(* Mutant of ReadFails: end of file is not told from other errors. *)
ReadFailsKept(c) ==
  /\ Running /\ stage[c] = "heard" /\ peer[c] # "open"
  /\ Handler(c)
  /\ peer[c] # "reset" => Move(c, "kept") /\ UNCHANGED routed

ReadFails(c) ==
  /\ Running /\ stage[c] = "heard" /\ peer[c] # "open"
  /\ Handler(c)
  /\ peer[c] = "fin" => Move(c, "forgotten") /\ UNCHANGED routed
  /\ peer[c] = "cut" => Move(c, "kept") /\ UNCHANGED routed

(***************************************************************************)
(* The result callback of "connect" starts the next read, whatever has     *)
(* become of the client's end.                                             *)
(***************************************************************************)
ConnectDone(c) ==
  /\ Running /\ stage[c] \in {"quiet", "kept"} /\ c \in routed
  /\ Handler(c)
  /\ peer[c] # "reset" => Move(c, "heard") /\ UNCHANGED routed

(***************************************************************************)
(* The target closes, and its route is erased.                             *)
(***************************************************************************)
RouteClosed(c) ==
  /\ Running /\ c \in routed
  /\ routed' = routed \ {c}
  /\ UNCHANGED <<acceptVars, stage, peer, proc>>

(***************************************************************************)
(* A disconnect() has come to its end: the socket is closed, the entry in  *)
(* stats_table stays.                                                      *)
(***************************************************************************)
ShutdownDone(c) ==
  /\ Running /\ stage[c] \in {"heard", "quiet", "kept"}
  /\ Move(c, "shut")
  /\ UNCHANGED <<acceptVars, routed, peer, proc>>

(***************************************************************************)
(* Any other exception: the handlers of TunnelEntry and TunnelExit have    *)
(* several, and none is caught.                                            *)
(***************************************************************************)
HandlerThrows ==
  /\ Running /\ \E c \in Clients : stage[c] \notin {"away", "waiting", "accepted"}
  /\ Ends
  /\ UNCHANGED <<acceptVars, stage, routed, peer>>

-----------------------------------------------------------------------------
AcceptAttempt == Accept \/ AcceptFails

HandleAccepts == HandleAccept \/ HandleAcceptError

Next ==
  \/ \E c \in Clients : Arrive(c)
  \/ \E c \in Clients, how \in {"fin", "cut", "reset"} : Leave(c, how)
  \/ AcceptAttempt \/ HandleAccepts
  \/ \E c \in Clients :
       \/ HandshakeCompletes(c) \/ ReadData(c) \/ ReadFails(c)
       \/ ConnectDone(c) \/ RouteClosed(c) \/ ShutdownDone(c)
  \/ HandlerThrows

Spec == Init /\ [][Next]_vars

(***************************************************************************)
(* What the reactor owes: while a client waits an outstanding accept is    *)
(* tried, whether or not a descriptor is left then; completed accepts are  *)
(* handled; the end of a stream is reported to the read that waits for it. *)
(***************************************************************************)
Fairness ==
  /\ WF_vars(AcceptAttempt) /\ WF_vars(HandleAccepts)
  /\ \A c \in Clients : WF_vars(ReadFails(c))

FairSpec == Spec /\ Fairness

-----------------------------------------------------------------------------
TypeOK ==
  /\ backlog \in Seq(Clients)
  /\ accepts \in Seq(Nat)
  /\ accepted \in Seq([conn : Nat, client : Clients \union {NoClient}])
  /\ created \in Nat
  /\ socketOf \in [Clients -> Nat]
  /\ stage \in [Clients -> Stages]
  /\ routed \in SUBSET Clients
  /\ peer \in [Clients -> {"open", "fin", "cut", "reset"}]
  /\ proc \in {"running", "terminated"}

(***************************************************************************)
(* As long as the server runs both chains of accepts go on: two accepts    *)
(* are outstanding or wait for their handler, however many clients came,   *)
(* left or reset in between.                                               *)
(***************************************************************************)
TwoAccepts == Running => Len(accepts) + Len(accepted) = 2

(***************************************************************************)
(* No two clients, and no client and accept, share a tls_connection, whose *)
(* stream and buffer are one client's.                                     *)
(***************************************************************************)
OwnConnections ==
  /\ \A i, j \in DOMAIN accepts : i # j => accepts[i] # accepts[j]
  /\ \A i, j \in DOMAIN accepted : i # j => accepted[i].conn # accepted[j].conn
  /\ \A i \in DOMAIN accepts, j \in DOMAIN accepted : accepts[i] # accepted[j].conn
  /\ \A c \in Clients : socketOf[c] # 0 =>
       /\ \A i \in DOMAIN accepts : accepts[i] # socketOf[c]
       /\ \A i \in DOMAIN accepted : accepted[i].conn # socketOf[c]
       /\ \A d \in Clients \ {c} : socketOf[d] # socketOf[c]

(***************************************************************************)
(* Every client that connects is accepted and its handshake started,       *)
(* whatever the others do, unless the process ends.                        *)
(***************************************************************************)
EveryClientIsAccepted ==
  \A c \in Clients :
    stage[c] \in {"waiting", "accepted"} ~>
      (stage[c] \notin {"waiting", "accepted"} \/ ~Running)

(***************************************************************************)
(* A client that closes with close_notify while a read waits for it leaves *)
(* stats_table, unless data it sent before made the server stop reading or *)
(* disconnect.                                                             *)
(***************************************************************************)
LeavingIsNoticed ==
  \A c \in Clients :
    (stage[c] = "heard" /\ peer[c] = "fin") ~>
      (stage[c] \in {"forgotten", "quiet", "shut"} \/ ~Running)

=============================================================================
