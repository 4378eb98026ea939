---------------------------- MODULE DebugClient ----------------------------
(***************************************************************************)
(* The session of debug_client.cpp with the server, from start_tunnel to   *)
(* the loop that shows what the target says.  It is the one program of the *)
(* repository that reads the frames tunnel_exit writes, and it reads them  *)
(* by the sizes of its buffers: a frame that does not come out of one read *)
(* ends it.  Here both sides meet, the sizes being those of the code.      *)
(*                                                                         *)
(* The client's packets are shorter than the first read of tunnel_entry    *)
(* (512 bytes), and each is a TLS record, so each is taken whole; how      *)
(* packets are cut otherwise is the subject of TunnelEntry.  A frame is    *)
(* known by the bytes of the target's stream it carries.                   *)
(***************************************************************************)
EXTENDS TlsConnection, BlockCodecs, Sequences

CONSTANTS
  Amounts,     \* how many bytes may arrive from the target at a time
  MaxStream,   \* how many bytes the target sends at most
  Room         \* TLS records the server can have written and not yet read

(***************************************************************************)
(* The client's received is an int that is never set back: from a stream   *)
(* of 2^20 bytes on, which may cost 2048 bytes of frames each, it could    *)
(* overflow.  Longer streams are left out.                                 *)
(***************************************************************************)
ASSUME BoundsAssumption ==
  /\ Amounts \subseteq Nat \ {0}
  /\ MaxStream \in Nat /\ MaxStream < 1048576
  /\ Room \in Nat

VARIABLES
  pc,          \* where the client's main is
  request,     \* the packet of the client the server has not read
  entry,       \* the client's tls_connection
  exit,        \* the target's tls_connection
  target,      \* the target, as far as the server can be told of it
  sent,        \* bytes of the target's stream that have arrived
  taken,       \* bytes of it that tunnel_exit has read
  wire,        \* TLS records written to the client and not read yet
  late,        \* a write had to wait: its vector was gone when it was made
  received,    \* the client's received
  resize_buf,  \* the client's resize_buf, as the pieces put in it
  shown,       \* what the client has printed
  proc         \* the server process

serverVars == <<entry, exit, target, sent, taken>>
localVars == <<received, resize_buf, shown>>
vars == <<pc, request, entry, exit, target, sent, taken, wire, late, received,
          resize_buf, shown, proc>>

Running == proc = "running"
Alive == pc \notin {"broken", "disconnected", "killed"}

-----------------------------------------------------------------------------
(* Sizes.                                                                  *)

HeaderSize == 6        \* sizeof(universal_header), packed
TokenSize == 64        \* connection_token_pod_t
WordingSize == 67      \* the text around token and data
BufferSize == 2048     \* the client's buf

(* Mutant of MaxRead: the vector has a capacity of 1024 to start with. *)
MaxReadReserved == 1024

(* What a read into an empty dynamic_vector_buffer asks for. *)
MaxRead == 512

TextSize(n) ==
  WordingSize + encoded_size(base64_rfc4648, TokenSize) + encoded_size(base64_rfc4648, n)

(***************************************************************************)
(* data_final is made as long as header and text together and the text is  *)
(* then inserted behind the header, so as many zeros follow the text.      *)
(***************************************************************************)
FrameSize(n) == HeaderSize + 2 * TextSize(n)

(* mask->len is a uint16_t. *)
HeaderLength(n) == TextSize(n) % 65536

(* The JSON texts that answer start_tunnel and connect, in UTF-8.          *)
AnswerSize(command) ==
  IF command = "connect" THEN 130 + encoded_size(base64_rfc4648, TokenSize) ELSE 113

(***************************************************************************)
(* A TLS record on its way, of len bytes, of which the client has read     *)
(* read.  A frame carries size bytes of the target's stream, from first.   *)
(***************************************************************************)
Record ==
  [kind : {"frame", "start_tunnel", "connect", "stray"},
   first : Nat, size : Nat, len : Nat, read : Nat]

Frame(first, n) ==
  [kind |-> "frame", first |-> first, size |-> n, len |-> FrameSize(n), read |-> 0]

Answer(command) ==
  [kind |-> command, first |-> 0, size |-> 0, len |-> AnswerSize(command), read |-> 0]

(* As long as the record it was to be, but of no known bytes. *)
Stray(r) == [r EXCEPT !.kind = "stray"]

(***************************************************************************)
(* async_write to the client.  The record is made of the vector at once,   *)
(* unless the TLS stream has no room: then, and for every write behind     *)
(* that one, the record is made of memory that has been given back, and    *)
(* what is sent may be right, may be anything, or may be left out.  The    *)
(* completion of a write to the client does nothing (write_done calls      *)
(* packet_out, which is empty), so it is not counted.                      *)
(***************************************************************************)
Write(r) ==
  IF ~late /\ Len(wire) < Room
  THEN wire' = Append(wire, r) /\ UNCHANGED late
  ELSE /\ late' = TRUE
       /\ \E w \in {<<>>, <<r>>, <<Stray(r)>>} : wire' = wire \o w

(***************************************************************************)
(* The log lines of the handlers: endpoint_to_string may throw when the    *)
(* client has gone, and the process then ends.                             *)
(***************************************************************************)
Named ==
  \/ UNCHANGED proc
  \/ pc \in {"broken", "disconnected", "killed"} /\ proc' = "terminated"

-----------------------------------------------------------------------------
Init ==
  /\ pc = "begin" /\ request = "none" /\ proc = "running"
  /\ entry = AsyncReadSome(NewConnection) /\ exit = NewConnection
  /\ target = "none" /\ sent = 0 /\ taken = 0
  /\ wire = <<>> /\ late = FALSE
  /\ received = 0 /\ resize_buf = <<>> /\ shown = <<>>

-----------------------------------------------------------------------------
(* The client up to its loop: every step sends, then waits in read.        *)

Introduce ==
  /\ pc = "begin" /\ pc' = "introduced" /\ request' = "start_tunnel"
  /\ UNCHANGED <<serverVars, localVars, wire, late, proc>>

(* Whatever comes is printed and taken for the answer. *)
AskToConnect ==
  /\ pc = "introduced" /\ wire # <<>>
  /\ pc' = "connecting" /\ request' = "connect" /\ wire' = Tail(wire)
  /\ UNCHANGED <<serverVars, localVars, late, proc>>

(* The token is looked for in the answer; a text without one throws. *)
SendData ==
  /\ pc = "connecting" /\ wire # <<>>
  /\ IF Head(wire).kind = "connect"
     THEN pc' = "listening" /\ request' = "data"
     ELSE pc' = "broken" /\ UNCHANGED request
  /\ wire' = Tail(wire)
  /\ UNCHANGED <<serverVars, localVars, late, proc>>

-----------------------------------------------------------------------------
(* The loop.  receiving is never set, so each read starts a new frame.     *)

Least(a, b) == IF a < b THEN a ELSE b

(* How much of the record at the head of wire one read of buf takes. *)
Take(r) == Least(BufferSize, r.len - r.read)

(* What that read has put in buf: Take(r) bytes of r, from read on. *)
Piece(r) == [r EXCEPT !.len = Take(r)]

(* What the first bytes of a piece say when they are read as a header.  Of *)
(* bytes that are not known the least and the greatest length are enough:  *)
(* a length in between does what one of the two does.                      *)
SaidLengths(p) ==
  IF p.kind # "frame" THEN {0, 65535}
  ELSE IF p.read = 0 THEN {HeaderLength(p.size)}
  ELSE IF p.read >= HeaderSize + TextSize(p.size) THEN {0}
  ELSE {0, 65535}

(* The text behind the header, up to the first zero, is a whole frame's: a *)
(* zero follows it in the piece, or is the one pushed behind everything.   *)
IsText(held) ==
  LET p == Head(held)
      end == HeaderSize + TextSize(p.size)
  IN  /\ p.kind = "frame" /\ p.read = 0
      /\ end < p.len \/ (end = p.len /\ Tail(held) = <<>>)

(* Bytes that are not known may be a text. *)
MayBeText(held) == Head(held).kind # "frame" \/ IsText(held)

TextOf(p) ==
  IF p.kind = "frame" THEN [first |-> p.first, size |-> p.size]
  ELSE [first |-> 0, size |-> 0]

Rest(r) ==
  IF r.read + Take(r) = r.len THEN Tail(wire)
  ELSE <<[r EXCEPT !.read = @ + Take(r)]>> \o Tail(wire)

(* resize_buf.insert(resize_buf.begin(), ...) *)
Hold(p) == <<p>> \o resize_buf

(* What is not a text, or not one with data in it, throws. *)
Show(held) ==
  \/ /\ MayBeText(held)
     /\ shown' = Append(shown, TextOf(Head(held)))
     /\ resize_buf' = <<>> /\ UNCHANGED pc
  \/ ~IsText(held) /\ pc' = "broken" /\ resize_buf' = held /\ UNCHANGED shown

Listen ==
  /\ pc = "listening" /\ wire # <<>>
  /\ LET r == Head(wire) IN
     /\ wire' = Rest(r)
     /\ IF Take(r) < HeaderSize
        THEN pc' = "broken" /\ UNCHANGED localVars
        ELSE /\ received' = received + Take(r)
             /\ \E to_be_received \in SaidLengths(Piece(r)) :
                  IF received' >= to_be_received THEN Show(Hold(Piece(r)))
                  ELSE resize_buf' = Hold(Piece(r)) /\ UNCHANGED <<pc, shown>>
  /\ UNCHANGED <<serverVars, request, late, proc>>

(* The server has gone and all it wrote has been read: read throws. *)
Disconnected ==
  /\ Alive /\ pc # "begin" /\ ~Running /\ wire = <<>>
  /\ pc' = "disconnected"
  /\ UNCHANGED <<serverVars, localVars, request, wire, late, proc>>

(* Whoever runs the client stops it. *)
Killed ==
  /\ Alive /\ pc' = "killed"
  /\ UNCHANGED <<serverVars, localVars, request, wire, late, proc>>

-----------------------------------------------------------------------------
(* The server, for this client and its target.                             *)

HandleStartTunnel ==
  /\ Running /\ entry.reads > 0 /\ request = "start_tunnel"
  /\ request' = "none"
  /\ entry' = AsyncReadSome(ReadCompleted(entry))
  /\ Write(Answer("start_tunnel"))
  /\ Named
  /\ UNCHANGED <<pc, exit, target, sent, taken, localVars>>

(* Mutant of HandleConnect: the client is listened to meanwhile, as it is  *)
(* after a packet that came in parts.                                      *)
HandleConnectReading ==
  /\ Running /\ entry.reads > 0 /\ request = "connect"
  /\ request' = "none"
  /\ entry' = AsyncReadSome(ReadCompleted(entry))
  /\ target' = "connecting" /\ Named
  /\ UNCHANGED <<pc, exit, sent, taken, wire, late, localVars>>

(* resolve may throw; otherwise the attempt begins. *)
HandleConnect ==
  /\ Running /\ entry.reads > 0 /\ request = "connect"
  /\ request' = "none"
  /\ entry' = ReadCompleted(entry)
  /\ \/ target' = "connecting" /\ Named
     \/ proc' = "terminated" /\ UNCHANGED target
  /\ UNCHANGED <<pc, exit, sent, taken, wire, late, localVars>>

(* The result callback tells the token and listens to the client again. *)
ConnectDone ==
  /\ Running /\ target = "connecting"
  /\ target' = "up"
  /\ entry' = AsyncReadSome(entry)
  /\ Write(Answer("connect"))
  /\ Named
  /\ UNCHANGED <<pc, request, exit, sent, taken, localVars>>

(* Nobody is told. *)
ConnectFailed ==
  /\ Running /\ target = "connecting"
  /\ target' = "refused"
  /\ UNCHANGED <<pc, request, entry, exit, sent, taken, wire, late, localVars, proc>>

HandleData ==
  /\ Running /\ entry.reads > 0 /\ request = "data"
  /\ request' = "none"
  /\ entry' = ReadCompleted(entry)
  /\ exit' = AsyncWrite(exit)
  /\ Named
  /\ UNCHANGED <<pc, target, sent, taken, wire, late, localVars>>

(* The target has the request, or has reset: its name is asked for then. *)
WriteDone ==
  /\ Running /\ exit.writes > 0
  /\ IF target = "reset" THEN proc' = "terminated" /\ UNCHANGED exit
     ELSE exit' = AsyncReadSome(WriteCompleted(exit)) /\ UNCHANGED proc
  /\ UNCHANGED <<pc, request, entry, target, sent, taken, wire, late, localVars>>

Waiting == exit.reads > 0 /\ sent > taken /\ target # "reset"

(* The handler of a read of n bytes: they go to the client as one frame.   *)
RelayThen(n, first, reading) ==
  /\ Running /\ Waiting
  /\ Write(Frame(first, n)) /\ taken' = taken + n
  /\ exit' = reading
  /\ UNCHANGED <<pc, request, entry, target, sent, localVars, proc>>

(* How much one read takes: what is there, as far as its buffer goes. *)
Taken == Least(MaxRead, sent - taken)

(* Mutant of Relay: nothing more is read. *)
RelayOnce == RelayThen(Taken, taken, ReadCompleted(exit))

(* Mutant of Relay: buf.consume is forgotten, and data() still begins with *)
(* what was relayed first.                                                 *)
RelayUnconsumed == RelayThen(Taken, 0, AsyncReadSome(ReadCompleted(exit)))

(* tunnel_exit::event_table::read: relay, consume, read on. *)
Relay == RelayThen(Taken, taken, AsyncReadSome(ReadCompleted(exit)))

(* The end of the target's stream, or its reset, whose log line throws. *)
ReadFailed ==
  /\ Running /\ exit.reads > 0
  /\ \/ target = "finished" /\ sent = taken /\ UNCHANGED proc
     \/ target = "reset" /\ proc' = "terminated"
  /\ exit' = ReadCompleted(exit)
  /\ UNCHANGED <<pc, request, entry, target, sent, taken, wire, late, localVars>>

(* The client's end is reported to a read that waits for it. *)
EntryReadFailed ==
  /\ Running /\ entry.reads > 0 /\ ~Alive
  /\ entry' = ReadCompleted(entry)
  /\ Named
  /\ UNCHANGED <<pc, request, exit, target, sent, taken, wire, late, localVars>>

-----------------------------------------------------------------------------
(* The target.                                                             *)

TargetSends ==
  /\ target = "up"
  /\ \E n \in Amounts : sent + n <= MaxStream /\ sent' = sent + n
  /\ UNCHANGED <<pc, request, entry, exit, target, taken, wire, late, localVars, proc>>

TargetEnds ==
  /\ target = "up" /\ target' \in {"finished", "reset"}
  /\ UNCHANGED <<pc, request, entry, exit, sent, taken, wire, late, localVars, proc>>

-----------------------------------------------------------------------------
Next ==
  \/ Introduce \/ AskToConnect \/ SendData \/ Listen \/ Disconnected \/ Killed
  \/ HandleStartTunnel \/ HandleConnect \/ ConnectDone \/ ConnectFailed \/ HandleData
  \/ WriteDone \/ Relay \/ ReadFailed \/ EntryReadFailed
  \/ TargetSends \/ TargetEnds

Spec == Init /\ [][Next]_vars

(***************************************************************************)
(* The reactor serves what waits, the one small write to the target finds  *)
(* room in its socket, and the client's loop goes on.                      *)
(***************************************************************************)
Fairness ==
  /\ WF_vars(Listen) /\ WF_vars(HandleData)
  /\ WF_vars(WriteDone) /\ WF_vars(Relay)

FairSpec == Spec /\ Fairness

-----------------------------------------------------------------------------
(* Every variable stays in its type: no completion takes a counter below   *)
(* zero, and no more is read from the target than has arrived.             *)
TypeOK ==
  /\ pc \in {"begin", "introduced", "connecting", "listening",
             "broken", "disconnected", "killed"}
  /\ request \in {"none", "start_tunnel", "connect", "data"}
  /\ entry \in Connection /\ exit \in Connection
  /\ target \in {"none", "connecting", "up", "refused", "finished", "reset"}
  /\ sent \in 0 .. MaxStream /\ taken \in 0 .. sent
  /\ wire \in Seq(Record)
  /\ late \in BOOLEAN /\ received \in Nat
  /\ resize_buf \in Seq(Record)
  /\ shown \in Seq([first : Nat, size : Nat])
  /\ proc \in {"running", "terminated"}

(* As long as no write to the client was late, what the client has printed *)
(* is the beginning of what the target sent: in order, without a gap, and  *)
(* nothing twice.  It is what encoding, header, zeros, TLS records and the *)
(* client's putting together come to (tunnel_endpoints.cpp 331-355,        *)
(* debug_client.cpp 155-203).                                              *)
ShownAsSent ==
  ~late => \A i \in DOMAIN shown :
             shown[i].first = IF i = 1 THEN 0 ELSE shown[i - 1].first + shown[i - 1].size

(* The client stops by itself only after a late write: no answer is taken  *)
(* for another, and every frame of what one read of a target gives comes   *)
(* out of one read of the client's 2048 bytes, with a header it can use.   *)
BreaksOnlyAfterLateWrite == pc = "broken" => late

(* In this session no two reads are outstanding on one connection, neither *)
(* on the client's nor on the target's, so read_buffer is never shared:    *)
(* each handler that ends a read starts one, or leaves it to a callback.   *)
OneReadAtATime == entry.reads <= 1 /\ exit.reads <= 1

(* received, an int that only grows, does not overflow. *)
ReceivedFits == received <= 2147483647

(* All that has come from the target has been printed. *)
AllShown ==
  sent = 0 \/ \E i \in DOMAIN shown : shown[i].first + shown[i].size = sent

Excused == late \/ pc = "killed" \/ ~Running \/ target = "reset"

(* A client that has a token catches up with what the target has sent,     *)
(* again and again, however it arrives, unless a write was late, the       *)
(* client is stopped, the process ends or the target resets.               *)
StreamIsShown ==
  []<>(pc \in {"begin", "introduced", "connecting"} \/ AllShown \/ Excused)
=============================================================================
