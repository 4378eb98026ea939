---------------------------- MODULE TunnelEntry ----------------------------
(***************************************************************************)
(* One client connection of the tunnel server: the client's byte stream,   *)
(* tunnel_entry::event_table, which cuts it into packets                   *)
(* (tunnel/tunnel_endpoints.cpp), and the router that runs them (Router).  *)
(*                                                                         *)
(* One thread runs io_context.run(), so a handler is one action; what      *)
(* varies is which completion comes next.  A handler that logs the peer's  *)
(* address (endpoint_to_string) throws when the socket has no peer any     *)
(* more, and no handler catches: the process ends ("terminated").          *)
(*                                                                         *)
(* The target connections belong to TunnelExit; here only their effects on *)
(* the client's connection are left, as ConnectDone, ConnectFailed and     *)
(* RouteClosed.                                                            *)
(***************************************************************************)
EXTENDS Router

CONSTANTS
  MaxPackets,   \* bound: packets the client sends
  Sizes         \* payload sizes the client uses

ASSUME BoundsAssumption == MaxPackets \in Nat /\ Sizes \subseteq Nat

VARIABLES
  written,   \* bytes of the client's stream that it has written
  taken,     \* bytes of the client's stream that reads have delivered
  peer,      \* the client's side: "open", "fin", "cut" or "reset"
  phase,     \* TLS handshake: "handshaking", "ready" or "failed"
  tracked,   \* the connection has an entry in stats_table
  stats      \* that entry, a connection_stats

vars == <<sent, written, taken, peer, phase, tracked, stats, routerVars>>

Stats == [receiving : BOOLEAN, received : Nat, to_be_received : Nat]
NoPacket == [receiving |-> FALSE, received |-> 0, to_be_received |-> 0]

(***************************************************************************)
(* The bytes of all packets; of the last one the client may not have       *)
(* written all yet.  Unread is what it has written and no read has taken.  *)
(***************************************************************************)
StreamLength ==
  IF sent = <<>> THEN 0
  ELSE LET p == sent[Len(sent)] IN p.start + HeaderSize + p.size - 1

Unread == written - taken

Running == proc = "running"

(***************************************************************************)
(* remote_endpoint() has an answer: the socket is open here and the peer   *)
(* has not reset it.                                                       *)
(***************************************************************************)
Named == conn.open /\ peer # "reset"

Init ==
  /\ sent = <<>> /\ written = 0 /\ taken = 0 /\ peer = "open"
  /\ phase = "handshaking" /\ tracked = FALSE /\ stats = NoPacket
  /\ conn = NewConnection /\ buffer = <<>> /\ handled = <<>>
  /\ routes = [pending |-> 0, live |-> 0, dead |-> 0]
  /\ proc = "running"

-----------------------------------------------------------------------------
(* The client.                                                             *)

(***************************************************************************)
(* A packet is written whole or in parts, and the client may take as long  *)
(* as it likes over the rest, or never write it.                           *)
(***************************************************************************)
ClientSend(command, size, n) ==
  /\ Running /\ peer = "open" /\ phase # "failed"
  /\ Len(sent) < MaxPackets /\ written = StreamLength
  /\ n <= HeaderSize + size
  /\ sent' = Append(sent, [command |-> command, size |-> size,
                           start |-> StreamLength + 1])
  /\ written' = written + n
  /\ UNCHANGED <<taken, peer, phase, tracked, stats, routerVars>>

ClientContinue(n) ==
  /\ Running /\ peer = "open" /\ phase # "failed"
  /\ written + n <= StreamLength
  /\ written' = written + n
  /\ UNCHANGED <<sent, taken, peer, phase, tracked, stats, routerVars>>

(***************************************************************************)
(* "fin": close_notify and FIN; "cut": FIN without close_notify; "reset",  *)
(* which may also follow one of the others.                                *)
(***************************************************************************)
ClientClose(how) ==
  /\ Running
  /\ peer = "open" \/ (how = "reset" /\ peer # "reset")
  /\ peer' = how
  /\ UNCHANGED <<sent, written, taken, phase, tracked, stats, routerVars>>

-----------------------------------------------------------------------------
(* Handshake.                                                              *)

HandshakeDone ==
  /\ Running /\ phase = "handshaking"
  /\ IF Named
     THEN /\ phase' = "ready" /\ tracked' = TRUE /\ stats' = NoPacket
          /\ conn' = AsyncReadSome(conn)
          /\ UNCHANGED proc
     ELSE /\ proc' = "terminated"
          /\ UNCHANGED <<phase, tracked, stats, conn>>
  /\ UNCHANGED <<sent, written, taken, peer, buffer, handled, routes>>

HandshakeFailed ==
  /\ Running /\ phase = "handshaking"
  /\ IF Named
     THEN phase' = "failed" /\ UNCHANGED proc
     ELSE proc' = "terminated" /\ UNCHANGED phase
  /\ UNCHANGED <<sent, written, taken, peer, tracked, stats, conn, buffer, handled,
                 routes>>

-----------------------------------------------------------------------------
(***************************************************************************)
(* A read of n bytes completes.  It leaves in the buffer what the client   *)
(* sent, or, when reads overlap, what the client sent or stray bytes.      *)
(***************************************************************************)
Completing(n) ==
  /\ Running /\ conn.reads > 0 /\ conn.open
  /\ n <= Unread
  /\ taken' = taken + n
  /\ UNCHANGED <<sent, written, peer, phase, tracked>>

Intact(n) == [k \in 1 .. n |-> taken + k]
Stray(n) == [k \in 1 .. n |-> 0]

Delivered(n) ==
  {buffer \o Intact(n)} \cup (IF conn.torn THEN {buffer \o Stray(n)} ELSE {})

(* Mutant of Payload: bytes after the packet are dropped. *)
PayloadIgnoringExcess(bytes) ==
  SubSeq(bytes, HeaderSize + 1, HeaderSize + stats.to_be_received)

Payload(bytes) == SubSeq(bytes, HeaderSize + 1, Len(bytes))

AfterRead == ReadCompleted(conn)

Received(n) == stats.received + n
Awaiting == stats.receiving /\ stats.received < stats.to_be_received
Overfull == stats.receiving /\ stats.received >= stats.to_be_received

(* Mutant of ReadPart: no read is started for the rest of the packet. *)
ReadPartNoRead(n, bytes) ==
  /\ Completing(n) /\ Named /\ tracked
  /\ stats.receiving /\ stats.received + n < stats.to_be_received
  /\ stats' = [stats EXCEPT !.received = @ + n]
  /\ buffer' = bytes
  /\ conn' = ReadCompleted(conn)
  /\ UNCHANGED <<handled, routes, proc>>

(***************************************************************************)
(* Lines 105-129, the packet is not complete yet.                          *)
(***************************************************************************)
ReadPart(n, bytes) ==
  /\ Completing(n) /\ Named /\ tracked
  /\ Awaiting /\ Received(n) < stats.to_be_received
  /\ stats' = [stats EXCEPT !.received = Received(n)]
  /\ buffer' = bytes
  /\ conn' = AsyncReadSome(AfterRead)
  /\ UNCHANGED <<handled, routes, proc>>

(***************************************************************************)
(* Lines 105-129, the packet is complete: the router runs it, and a read   *)
(* is started whether or not the router started one.                       *)
(***************************************************************************)
ReadLast(n, bytes) ==
  /\ Completing(n) /\ Named /\ tracked
  /\ Awaiting /\ Received(n) >= stats.to_be_received
  /\ stats' = NoPacket
  /\ PacketIn(Payload(bytes), AfterRead, TRUE)

(***************************************************************************)
(* Lines 131-143: more than the packet had come before, and another read   *)
(* was outstanding or started since.                                       *)
(***************************************************************************)
ReadAfterOverfull(n, bytes) ==
  /\ Completing(n) /\ Named /\ tracked
  /\ Overfull
  /\ stats' = NoPacket
  /\ PacketIn(Payload(bytes), AfterRead, FALSE)

(***************************************************************************)
(* Lines 145-202, a new packet.  The header is looked for at the front of  *)
(* the buffer.                                                             *)
(***************************************************************************)
Signed(bytes, i) ==
  /\ sent[i].command # "unsigned"
  /\ \A k \in 1 .. HeaderSize : bytes[k] = sent[i].start + k - 1

HasHeader(bytes, n) == n >= HeaderSize /\ \E i \in DOMAIN sent : Signed(bytes, i)

HeaderLength(bytes) == sent[CHOOSE i \in DOMAIN sent : Signed(bytes, i)].size

Starting(n) == Completing(n) /\ Named /\ tracked /\ ~stats.receiving

ReadRejected(n, bytes) ==
  /\ Starting(n) /\ ~HasHeader(bytes, n)
  /\ conn' = Disconnect(AfterRead)
  /\ buffer' = bytes
  /\ UNCHANGED <<stats, handled, routes, proc>>

ReadWhole(n, bytes) ==
  /\ Starting(n) /\ HasHeader(bytes, n)
  /\ n - HeaderSize = HeaderLength(bytes)
  /\ stats' = NoPacket
  /\ PacketIn(Payload(bytes), AfterRead, FALSE)

(* Mutant of ReadStart: an incomplete packet is not read on. *)
ReadStartNoRead(n, bytes) ==
  /\ Starting(n) /\ HasHeader(bytes, n)
  /\ n - HeaderSize < HeaderLength(bytes)
  /\ stats' = [receiving |-> TRUE, received |-> n - HeaderSize,
               to_be_received |-> HeaderLength(bytes)]
  /\ conn' = AfterRead
  /\ buffer' = bytes
  /\ UNCHANGED <<handled, routes, proc>>

(***************************************************************************)
(* Too short: read on.  Too long: disconnect, with the statistics and the  *)
(* buffer left as they are.                                                *)
(***************************************************************************)
ReadStart(n, bytes) ==
  /\ Starting(n) /\ HasHeader(bytes, n)
  /\ n - HeaderSize # HeaderLength(bytes)
  /\ stats' = [receiving |-> TRUE, received |-> n - HeaderSize,
               to_be_received |-> HeaderLength(bytes)]
  /\ conn' = IF n - HeaderSize < HeaderLength(bytes)
             THEN AsyncReadSome(AfterRead)
             ELSE Disconnect(AfterRead)
  /\ buffer' = bytes
  /\ UNCHANGED <<handled, routes, proc>>

(***************************************************************************)
(* The handler throws (the peer has no name) or touches memory it must not *)
(* (no statistics, or a buffer that an overlapping read has moved).        *)
(***************************************************************************)
ReadBreaks(n) ==
  /\ Completing(n)
  /\ ~Named \/ ~tracked \/ conn.torn
  /\ proc' = "terminated"
  /\ UNCHANGED <<stats, conn, buffer, handled, routes>>

ReadSome(n) ==
  \/ \E bytes \in Delivered(n) :
       \/ ReadPart(n, bytes) \/ ReadLast(n, bytes) \/ ReadAfterOverfull(n, bytes)
       \/ ReadRejected(n, bytes) \/ ReadWhole(n, bytes) \/ ReadStart(n, bytes)
  \/ ReadBreaks(n)

-----------------------------------------------------------------------------
(***************************************************************************)
(* A read completes with an error, lines 73-91.                            *)
(*   client's close_notify   end of file: the statistics are erased        *)
(*   FIN without it          truncated stream: only logged                 *)
(*   reset, or closed here   the log line itself throws                    *)
(***************************************************************************)
ReadFailed ==
  /\ Running /\ conn.reads > 0
  /\ \/ /\ Named /\ peer = "fin" /\ Unread = 0
        /\ tracked' = FALSE /\ stats' = NoPacket /\ conn' = AfterRead
        /\ UNCHANGED proc
     \/ /\ Named /\ peer = "cut" /\ Unread = 0
        /\ conn' = AfterRead
        /\ UNCHANGED <<tracked, stats, proc>>
     \/ /\ ~Named
        /\ proc' = "terminated"
        /\ UNCHANGED <<tracked, stats, conn>>
  /\ UNCHANGED <<sent, written, taken, peer, phase, buffer, handled, routes>>

(***************************************************************************)
(* write_done calls packet_out, which is empty.                            *)
(***************************************************************************)
WriteDone ==
  /\ Running /\ conn.writes > 0
  /\ conn' = WriteCompleted(conn)
  /\ UNCHANGED <<sent, written, taken, peer, phase, tracked, stats, buffer, handled,
                 routes, proc>>

(* Mutant of ErrorWriteDone: disconnecting erases the statistics. *)
ErrorWriteDoneForgets ==
  /\ Running /\ conn.errorWrites > 0
  /\ conn' = ErrorWriteCompleted(conn) /\ tracked' = FALSE
  /\ UNCHANGED <<sent, written, taken, peer, phase, stats, buffer, handled, routes, proc>>

ErrorWriteDone ==
  /\ Running /\ conn.errorWrites > 0
  /\ conn' = ErrorWriteCompleted(conn)
  /\ UNCHANGED <<sent, written, taken, peer, phase, tracked, stats, buffer, handled,
                 routes, proc>>

(***************************************************************************)
(* Someone owns the tls_connection: the key of stats_table, a handler      *)
(* bound to shared_from_this(), or a route (as source and in its result    *)
(* callback).  disconnect()'s own lambda captures only "this".             *)
(***************************************************************************)
Held ==
  \/ tracked
  \/ conn.reads + conn.writes + conn.errorWrites > 0
  \/ routes.pending + routes.live + routes.dead > 0

(***************************************************************************)
(* async_shutdown completes once the client answers, goes on sending or    *)
(* goes away; there is no timer.  The lambda closes the socket; when the   *)
(* connection has been deleted it runs on freed memory.                    *)
(***************************************************************************)
ShutdownDone ==
  /\ Running /\ conn.shutdowns > 0
  /\ peer # "open" \/ Unread > 0 \/ ~conn.open \/ ~Held
  /\ conn' = ShutdownCompleted(conn)
  /\ \/ UNCHANGED proc
     \/ ~Held /\ proc' = "terminated"
  /\ UNCHANGED <<sent, written, taken, peer, phase, tracked, stats, buffer, handled,
                 routes>>

-----------------------------------------------------------------------------
(* What tunnel_exit does to this connection.                               *)

(* Mutant of ConnectDone: the answer does not need the client's address.   *)
ConnectDoneUnnamed ==
  /\ Running /\ routes.pending > 0
  /\ routes' = [routes EXCEPT !.pending = @ - 1, !.live = @ + 1]
  /\ conn' = AsyncReadSome(AsyncWrite(conn))
  /\ UNCHANGED <<sent, written, taken, peer, phase, tracked, stats, buffer, handled, proc>>

(***************************************************************************)
(* The callback given to async_connect_unsecure (router.cpp 220-252).      *)
(***************************************************************************)
ConnectDone ==
  /\ Running /\ routes.pending > 0
  /\ IF Named
     THEN /\ routes' = [routes EXCEPT !.pending = @ - 1, !.live = @ + 1]
          /\ conn' = AsyncReadSome(AsyncWrite(conn))
          /\ UNCHANGED proc
     ELSE /\ proc' = "terminated"
          /\ UNCHANGED <<routes, conn>>
  /\ UNCHANGED <<sent, written, taken, peer, phase, tracked, stats, buffer, handled>>

(***************************************************************************)
(* The target refuses, or its token was already in the list: nothing calls *)
(* the callback, and the route stays in connection_list.                   *)
(***************************************************************************)
ConnectFailed ==
  /\ Running /\ routes.pending > 0
  /\ routes' = [routes EXCEPT !.pending = @ - 1, !.dead = @ + 1]
  /\ UNCHANGED <<sent, written, taken, peer, phase, tracked, stats, conn, buffer,
                 handled, proc>>

(* Mutant of RouteClosed: the wrong stage is counted down. *)
RouteClosedPending ==
  /\ Running /\ routes.live > 0
  /\ routes' = [routes EXCEPT !.pending = @ - 1]
  /\ UNCHANGED <<sent, written, taken, peer, phase, tracked, stats, conn, buffer,
                 handled, proc>>

(***************************************************************************)
(* The target closes: the route is erased.  When it resets, the handler's  *)
(* log line throws.                                                        *)
(***************************************************************************)
RouteClosed ==
  /\ Running /\ routes.live > 0
  /\ \/ routes' = [routes EXCEPT !.live = @ - 1] /\ UNCHANGED proc
     \/ proc' = "terminated" /\ UNCHANGED routes
  /\ UNCHANGED <<sent, written, taken, peer, phase, tracked, stats, conn, buffer,
                 handled>>

-----------------------------------------------------------------------------
Client ==
  \/ \E command \in Commands, size \in Sizes : \E n \in 1 .. HeaderSize + size :
       ClientSend(command, size, n)
  \/ \E n \in 1 .. StreamLength - written : ClientContinue(n)
  \/ \E how \in {"fin", "cut", "reset"} : ClientClose(how)

Read == \E n \in 1 .. Unread : ReadSome(n)

Next ==
  \/ Client
  \/ HandshakeDone \/ HandshakeFailed
  \/ Read \/ ReadFailed
  \/ WriteDone \/ ErrorWriteDone \/ ShutdownDone
  \/ ConnectDone \/ ConnectFailed \/ RouteClosed

Spec == Init /\ [][Next]_vars

(***************************************************************************)
(* What the reactor owes: bytes that are there are delivered to a read     *)
(* that waits, an end of stream is reported, and a shutdown that can       *)
(* complete does.  Nothing is owed by the client or the target, and no     *)
(* write need complete, since the client may stop reading.                 *)
(***************************************************************************)
Fairness == WF_vars(Read) /\ WF_vars(ReadFailed) /\ WF_vars(ShutdownDone)

FairSpec == Spec /\ Fairness

-----------------------------------------------------------------------------
TypeOK ==
  /\ sent \in Seq(Packet)
  /\ written \in Nat /\ taken \in Nat
  /\ peer \in {"open", "fin", "cut", "reset"}
  /\ phase \in {"handshaking", "ready", "failed"}
  /\ tracked \in BOOLEAN
  /\ stats \in Stats
  /\ conn \in Connection
  /\ buffer \in Seq(Nat)
  /\ handled \in Seq(Nat)
  /\ routes \in Routes
  /\ proc \in {"running", "terminated"}

Established == Running /\ phase = "ready" /\ ~Closing(conn)

(***************************************************************************)
(* Whenever a read can deliver bytes the connection's statistics are still *)
(* in stats_table: read() logs that they are missing and then uses the     *)
(* iterator all the same (tunnel_endpoints.cpp 95-102).                    *)
(***************************************************************************)
StatsAlwaysFound ==
  Running /\ conn.open /\ conn.reads > 0 /\ Unread > 0 => tracked

(***************************************************************************)
(* Part of a packet has been read and the connection is neither being      *)
(* closed nor broken off by the client: then a read is outstanding, and    *)
(* the buffer holds exactly the header and the bytes the statistics count. *)
(***************************************************************************)
NeverStarvedMidPacket ==
  Established /\ tracked /\ stats.receiving /\ peer \in {"open", "fin"} =>
    /\ conn.reads > 0
    /\ ~conn.torn => Len(buffer) = HeaderSize + stats.received

(***************************************************************************)
(* On a connection that is not being closed, the commands the router ran   *)
(* are all the legible packets up to the last one it ran, in the order the *)
(* client sent them and once each: neither overlapping reads nor packets   *)
(* that share a segment make it skip, repeat or reorder one.               *)
(***************************************************************************)
HandledAsSent ==
  /\ \A i, j \in DOMAIN handled : i < j => handled[i] < handled[j]
  /\ Established /\ handled # <<>> =>
       \A i \in 1 .. handled[Len(handled)] :
         Legible(sent[i]) => \E j \in DOMAIN handled : handled[j] = i

(***************************************************************************)
(* A client that is connected and not being closed is only left without a  *)
(* read after "connect" or "data": the router starts one after every other *)
(* command.                                                                *)
(***************************************************************************)
HeardUnlessConnectOrData ==
  Established /\ tracked /\ peer = "open" /\ conn.reads = 0 =>
    /\ handled # <<>>
    /\ sent[handled[Len(handled)]].command \in {"connect", "data"}

(***************************************************************************)
(* The handlers of one client keep to the session that ClientSession       *)
(* describes: its entry leaves stats_table only when a read finds          *)
(* close_notify, whatever other reads, answers and shutdowns are under     *)
(* way, and never comes back.                                              *)
(***************************************************************************)
Stage ==
  CASE phase = "handshaking" -> "handshake"
    [] phase # "handshaking" /\ ~tracked -> "forgotten"
    [] tracked /\ ~conn.open -> "shut"
    [] tracked /\ conn.open /\ conn.reads > 0 -> "heard"
    [] tracked /\ conn.open /\ conn.reads = 0 -> "unheard"

Session == INSTANCE ClientSession WITH stage <- Stage

KeepsSession == Session!Spec

(***************************************************************************)
(* The client's routes go through the stages that ClientRoutes describes,  *)
(* which is what TunnelExit does to them: a "connect" adds one, whatever   *)
(* reads overlap, and only the target's side moves it on.                  *)
(***************************************************************************)
Routing ==
  INSTANCE ClientRoutes WITH
    pending <- routes.pending, live <- routes.live, dead <- routes.dead,
    named <- Named

KeepsRoutes == Routing!Spec

(***************************************************************************)
(* A packet of which the first part has arrived is run, or the connection  *)
(* is being closed, by one side or the other, or the client is the one     *)
(* that is waited for: all it wrote has been read, and it stopped in the   *)
(* middle of a packet.  For that one the server waits as long as it takes, *)
(* since read() starts another read without a timer                        *)
(* (tunnel_endpoints.cpp 127 and 196).                                     *)
(***************************************************************************)
Stalled == Unread = 0 /\ written < StreamLength

PartialPacketIsFinished ==
  (Running /\ stats.receiving) ~>
    (\/ ~Running \/ ~stats.receiving \/ Closing(conn) \/ peer # "open"
     \/ Stalled)

-----------------------------------------------------------------------------
(* What the repository's comments say, and the code does not do.           *)

(***************************************************************************)
(* "buffer: buffer for the data that has come; len: how many bytes were    *)
(* written to the buffer" (connection_events.hpp 25-27): a read that can   *)
(* complete has the buffer to itself.                                      *)
(***************************************************************************)
ReadsDoNotOverlap == Running /\ conn.reads > 0 /\ Unread > 0 => ~conn.torn

(***************************************************************************)
(* "Another class must hold this connection, otherwise it is deleted"      *)
(* (tunnel_endpoints.cpp 128): while a shutdown is in progress, whose      *)
(* completion uses the connection, someone does.                           *)
(***************************************************************************)
HeldUntilShutdown == Running /\ conn.shutdowns > 0 => Held

(***************************************************************************)
(* "Packets that come from the client are read and sent directly to the    *)
(* target" (router.cpp 262): data sent on a connection with an open route, *)
(* its last byte written, is taken off the stream, unless either side      *)
(* closes.                                                                 *)
(***************************************************************************)
Written(i) ==
  i <= Len(sent) /\ sent[i].start + HeaderSize + sent[i].size - 1 <= written

DataIsForwarded ==
  \A i \in 1 .. MaxPackets :
    (Established /\ Written(i) /\ sent[i].command = "data" /\ routes.live > 0)
    ~> (\/ \E j \in DOMAIN handled : handled[j] = i
        \/ ~Established \/ peer # "open" \/ routes.live = 0)

(***************************************************************************)
(* "Write the given data and close the connection as soon as the data      *)
(* arrives" (tls_server.hpp 76): once the error answer is written, the     *)
(* socket is closed.                                                       *)
(***************************************************************************)
ErrorAnswerCloses ==
  (Running /\ conn.shutdowns > 0) ~> (~conn.open \/ ~Running)
=============================================================================
