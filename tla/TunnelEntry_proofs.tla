------------------------- MODULE TunnelEntry_proofs -------------------------
(***************************************************************************)
(* Proofs about TunnelEntry, for a header of any size, any number of       *)
(* packets and any payloads: its types, its safety invariants, and that    *)
(* it implements ClientSession and ClientRoutes.                           *)
(*                                                                         *)
(* The packets lie on the stream one behind the other (Laid).  Until the   *)
(* connection is being closed, the router has run the packets 1 .. k for   *)
(* some k, and what has been taken of the stream beyond them is in the     *)
(* buffer (UpToDate), as much as the statistics say (Accounted): a payload *)
(* that parses ends with the last byte taken, so it can only be that of    *)
(* packet k + 1.  That last fact holds with overlapping reads, and while   *)
(* the connection is being closed, too (InOrder).                          *)
(***************************************************************************)
EXTENDS TunnelEntry, SequenceTheorems, TLAPS

End(p) == p.start + HeaderSize + p.size - 1

Laid ==
  /\ sent # <<>> => sent[1].start = 1
  /\ \A i \in DOMAIN sent : i + 1 \in DOMAIN sent => sent[i + 1].start = End(sent[i]) + 1
  /\ \A i, j \in DOMAIN sent : i < j => End(sent[i]) < sent[j].start

(* Before the handshake is done, and when it has failed. *)
Unborn ==
  phase # "ready" =>
    /\ conn = NewConnection /\ ~tracked /\ stats = NoPacket
    /\ taken = 0 /\ buffer = <<>> /\ handled = <<>>
    /\ routes = [pending |-> 0, live |-> 0, dead |-> 0]

(* A client that has been forgotten has said all it had to say. *)
Forgotten == phase = "ready" /\ ~tracked => peer \in {"fin", "reset"} /\ Unread = 0

InOrder ==
  /\ \A i \in DOMAIN handled : handled[i] \in DOMAIN sent
  /\ \A i, j \in DOMAIN handled : i < j => handled[i] < handled[j]
  /\ handled # <<>> => End(sent[handled[Len(handled)]]) <= taken

LastEnd == IF handled = <<>> THEN 0 ELSE End(sent[Len(handled)])

UpToDate ==
  Established => /\ \A i \in DOMAIN handled : handled[i] = i
                 /\ taken = LastEnd + Len(buffer)

Accounted ==
  Established /\ tracked =>
    Len(buffer) = IF stats.receiving THEN HeaderSize + stats.received ELSE 0

(* A read waits for the rest of a packet. *)
Continued ==
  Established /\ tracked /\ stats.receiving /\ peer \in {"open", "fin"} => conn.reads > 0

IInv ==
  /\ TypeOK /\ Laid /\ Unborn /\ Forgotten
  /\ InOrder /\ UpToDate /\ Accounted
  /\ Continued /\ HeardUnlessConnectOrData

-----------------------------------------------------------------------------
(* Connections.                                                            *)

(* What decides whether the server is closing the connection.              *)
Alike(c, d) ==
  c.open = d.open /\ c.shutdowns = d.shutdowns /\ c.errorWrites = d.errorWrites

(* Starting and completing reads and writes keeps a connection well formed *)
(* and leaves its end alone.                                               *)
LEMMA ReadsAndWrites ==
  ASSUME NEW c \in Connection
  PROVE  /\ AsyncReadSome(c) \in Connection
         /\ AsyncReadSome(c).reads = c.reads + 1
         /\ Alike(AsyncReadSome(c), c)
         /\ AsyncWrite(c) \in Connection
         /\ AsyncWrite(c).reads = c.reads
         /\ Alike(AsyncWrite(c), c)
         /\ c.reads > 0 => /\ ReadCompleted(c) \in Connection
                           /\ ReadCompleted(c).reads = c.reads - 1
                           /\ Alike(ReadCompleted(c), c)
         /\ c.writes > 0 => /\ WriteCompleted(c) \in Connection
                            /\ WriteCompleted(c).reads = c.reads
                            /\ Alike(WriteCompleted(c), c)
<1>1. /\ MoreReads(c) \in Connection
      /\ MoreReads(c).reads = c.reads + 1 /\ Alike(MoreReads(c), c)
  BY DEF MoreReads, Connection, Alike
<1>2. ASSUME NEW d \in Connection, NEW b \in BOOLEAN
      PROVE  /\ [d EXCEPT !.torn = b] \in Connection
             /\ [d EXCEPT !.torn = b].reads = d.reads
             /\ Alike([d EXCEPT !.torn = b], d)
  BY DEF Connection, Alike
<1>3. /\ AsyncReadSome(c) \in Connection
      /\ AsyncReadSome(c).reads = c.reads + 1
      /\ Alike(AsyncReadSome(c), c)
  BY <1>1, <1>2 DEF AsyncReadSome, Alike
<1>4. /\ AsyncWrite(c) \in Connection
      /\ AsyncWrite(c).reads = c.reads
      /\ Alike(AsyncWrite(c), c)
  BY DEF AsyncWrite, Connection, Alike
<1>5. ASSUME c.reads > 0
      PROVE  /\ FewerReads(c) \in Connection
             /\ FewerReads(c).reads = c.reads - 1 /\ Alike(FewerReads(c), c)
  BY <1>5 DEF FewerReads, Connection, Alike
<1>6. ASSUME c.reads > 0
      PROVE  /\ ReadCompleted(c) \in Connection
             /\ ReadCompleted(c).reads = c.reads - 1
             /\ Alike(ReadCompleted(c), c)
  BY <1>2, <1>5, <1>6 DEF ReadCompleted, Alike
<1>7. ASSUME c.writes > 0
      PROVE  /\ WriteCompleted(c) \in Connection
             /\ WriteCompleted(c).reads = c.reads
             /\ Alike(WriteCompleted(c), c)
  BY <1>7 DEF WriteCompleted, Connection, Alike
<1> QED BY <1>3, <1>4, <1>6, <1>7

(* An error answer, its completion, a shutdown and its completion each     *)
(* leave a connection that is being closed, and the number of its reads.   *)
LEMMA Endings ==
  ASSUME NEW c \in Connection
  PROVE  /\ AsyncWriteError(c) \in Connection /\ Closing(AsyncWriteError(c))
         /\ AsyncWriteError(c).reads = c.reads /\ AsyncWriteError(c).open = c.open
         /\ Disconnect(c) \in Connection /\ Closing(Disconnect(c))
         /\ Disconnect(c).reads = c.reads /\ Disconnect(c).open = c.open
         /\ c.errorWrites > 0 =>
              LET d == ErrorWriteCompleted(c)
              IN  d \in Connection /\ Closing(d) /\ d.reads = c.reads /\ d.open = c.open
         /\ c.shutdowns > 0 =>
              LET d == ShutdownCompleted(c)
              IN  d \in Connection /\ Closing(d) /\ d.reads = c.reads /\ d.open = FALSE
<1>1. ASSUME NEW d \in Connection
      PROVE  /\ Disconnect(d) \in Connection /\ Disconnect(d).shutdowns > 0
             /\ Disconnect(d).reads = d.reads /\ Disconnect(d).open = d.open
  BY DEF Disconnect, Connection
<1>2. \A d \in Connection : Closing(Disconnect(d))
  BY <1>1 DEF Closing
<1>3. /\ AsyncWriteError(c) \in Connection /\ AsyncWriteError(c).errorWrites > 0
      /\ AsyncWriteError(c).reads = c.reads /\ AsyncWriteError(c).open = c.open
  BY DEF AsyncWriteError, Connection
<1>4. Closing(AsyncWriteError(c))
  BY <1>3 DEF Closing
<1>5. ASSUME c.errorWrites > 0
      PROVE  LET d == ErrorWriteCompleted(c)
             IN  d \in Connection /\ Closing(d) /\ d.reads = c.reads /\ d.open = c.open
  <2> DEFINE e == [c EXCEPT !.errorWrites = @ - 1]
  <2>1. e \in Connection /\ e.reads = c.reads /\ e.open = c.open
    BY <1>5 DEF Connection
  <2>2. ErrorWriteCompleted(c) = Disconnect(e)
    BY DEF ErrorWriteCompleted
  <2> HIDE DEF e
  <2> QED BY <1>1, <1>2, <2>1, <2>2
<1>6. ASSUME c.shutdowns > 0
      PROVE  LET d == ShutdownCompleted(c)
             IN  d \in Connection /\ Closing(d) /\ d.reads = c.reads /\ d.open = FALSE
  <2> DEFINE e == [c EXCEPT !.shutdowns = @ - 1]
  <2>1. e \in Connection /\ e.reads = c.reads
    BY <1>6 DEF Connection
  <2>2. ShutdownCompleted(c) = Closed(e)
    BY DEF ShutdownCompleted
  <2> HIDE DEF e
  <2>3. Closed(e) \in Connection /\ Closed(e).reads = e.reads /\ Closed(e).open = FALSE
    BY <2>1 DEF Closed, Connection
  <2>4. Closing(Closed(e))
    BY <2>3 DEF Closing
  <2> QED BY <2>1, <2>2, <2>3, <2>4
<1> QED BY <1>1, <1>2, <1>3, <1>4, <1>5, <1>6

LEMMA AlikeClosing ==
  ASSUME NEW c, NEW d, Alike(c, d)
  PROVE  Closing(c) <=> Closing(d)
BY DEF Alike, Closing

-----------------------------------------------------------------------------
(* The stream.                                                             *)

(* A packet ends behind where it starts.                                   *)
LEMMA Ends ==
  ASSUME TypeOK, NEW i \in DOMAIN sent
  PROVE  /\ sent[i] \in Packet /\ i \in Nat \ {0} /\ sent[i].start \in Nat
         /\ sent[i].size \in Nat /\ End(sent[i]) \in Nat
         /\ sent[i].start <= End(sent[i])
<1>1. sent[i] \in Packet /\ i \in Nat \ {0}
  BY DEF TypeOK
<1>2. sent[i].start \in Nat \ {0} /\ sent[i].size \in Nat
  BY <1>1 DEF Packet
<1> QED BY <1>1, <1>2, HeaderSizeAssumption DEF End

(* The packet behind the first k is packet k + 1.                          *)
LEMMA NextPacket ==
  ASSUME TypeOK, Laid, NEW i \in DOMAIN sent, NEW k \in Nat,
         \/ k = 0 /\ sent[i].start = 1
         \/ k \in DOMAIN sent /\ sent[i].start = End(sent[k]) + 1
  PROVE  i = k + 1
<1>1. DOMAIN sent = 1 .. Len(sent) /\ Len(sent) \in Nat /\ i \in Nat
  BY DEF TypeOK
<1>2. ASSUME NEW j \in DOMAIN sent, j < i
      PROVE  End(sent[j]) < sent[i].start
  BY <1>2 DEF Laid
<1>3. CASE k = 0 /\ sent[i].start = 1
  <2>1. 1 \in DOMAIN sent /\ sent[1].start = 1
    BY <1>1 DEF Laid
  <2>2. End(sent[1]) \in Nat /\ 1 <= End(sent[1])
    BY <2>1, Ends
  <2>3. ~(1 < i)
    BY <1>2, <1>3, <2>1, <2>2
  <2> QED BY <1>1, <1>3, <2>3
<1>4. CASE k \in DOMAIN sent /\ sent[i].start = End(sent[k]) + 1
  <2>1. /\ End(sent[k]) \in Nat /\ sent[k].start <= End(sent[k]) /\ sent[k].start \in Nat
        /\ End(sent[i]) \in Nat /\ sent[i].start <= End(sent[i]) /\ sent[i].start \in Nat
    BY <1>4, Ends
  <2>2. ~(i < k)
    <3>1. i < k => End(sent[i]) < sent[k].start
      BY <1>4 DEF Laid
    <3> QED BY <1>4, <2>1, <3>1
  <2>3. i # k
    BY <1>4, <2>1
  <2>4. ~(k + 1 < i)
    <3> SUFFICES ASSUME k + 1 < i PROVE FALSE
      OBVIOUS
    <3>1. k + 1 \in DOMAIN sent
      BY <1>1
    <3>2. sent[k + 1].start = End(sent[k]) + 1
      BY <1>4, <3>1 DEF Laid
    <3>3. End(sent[k + 1]) \in Nat /\ sent[k + 1].start <= End(sent[k + 1])
      BY <3>1, Ends
    <3>4. End(sent[k + 1]) < sent[i].start
      BY <1>2, <3>1
    <3> QED BY <1>4, <2>1, <3>2, <3>3, <3>4
  <2> QED BY <1>1, <2>2, <2>3, <2>4
<1> QED BY <1>3, <1>4

(* What a read of n bytes leaves in the buffer: its last byte is the last  *)
(* one taken, or a stray one.                                              *)
LEMMA DeliveredBytes ==
  ASSUME TypeOK, NEW n \in Nat \ {0}, NEW bytes \in Delivered(n)
  PROVE  /\ bytes \in Seq(Nat)
         /\ Len(bytes) = Len(buffer) + n
         /\ bytes[Len(buffer) + n] \in {0, taken + n}
<1>1. buffer \in Seq(Nat) /\ taken \in Nat
  BY DEF TypeOK
<1>2. PICK news \in {Intact(n), Stray(n)} : bytes = buffer \o news
  BY DEF Delivered
<1>3. news \in Seq(Nat) /\ Len(news) = n /\ news[n] \in {0, taken + n}
  <2>1. CASE news = Intact(n)
    BY <1>1, <2>1 DEF Intact
  <2>2. CASE news = Stray(n)
    BY <1>1, <2>2 DEF Stray
  <2> QED BY <1>2, <2>1, <2>2
<1>4. Len(buffer) \in Nat
  BY <1>1
<1>5. bytes \in Seq(Nat) /\ Len(bytes) = Len(buffer) + n
  BY <1>1, <1>2, <1>3, ConcatProperties
<1>6. bytes[Len(buffer) + n] = news[n]
  BY <1>1, <1>2, <1>3, <1>4, ConcatProperties
<1> QED BY <1>3, <1>5, <1>6

(* A payload that parses ends with the last byte taken.                    *)
LEMMA PacketFound ==
  ASSUME TypeOK, NEW n \in Nat \ {0}, NEW D \in Delivered(n), NEW i,
         i = PacketOf(Payload(D)), i # 0
  PROVE  /\ i \in DOMAIN sent
         /\ End(sent[i]) = taken + n
         /\ Len(buffer) + n = HeaderSize + sent[i].size
<1> DEFINE P == Payload(D)
<1>1. i \in DOMAIN sent /\ Legible(sent[i]) /\ P = PayloadOf(sent[i])
  BY DEF PacketOf, IsPacket
<1>2. /\ sent[i].size \in Nat \ {0} /\ sent[i].start \in Nat
  BY <1>1, Ends DEF Legible
<1>3. /\ D \in Seq(Nat) /\ Len(D) = Len(buffer) + n /\ Len(D) \in Nat
      /\ D[Len(D)] \in {0, taken + n}
  <2>1. /\ D \in Seq(Nat) /\ Len(D) = Len(buffer) + n
        /\ D[Len(buffer) + n] \in {0, taken + n}
    BY DeliveredBytes
  <2> QED BY <2>1
<1>4. HeaderSize \in Nat \ {0} /\ taken \in Nat
  BY HeaderSizeAssumption DEF TypeOK
<1>5. P = SubSeq(D, HeaderSize + 1, Len(D))
  BY DEF Payload
<1>6. /\ Len(P) = sent[i].size
      /\ P[sent[i].size] = sent[i].start + HeaderSize + sent[i].size - 1
  <2>1. P = [k \in 1 .. sent[i].size |-> sent[i].start + HeaderSize + k - 1]
    BY <1>1 DEF PayloadOf
  <2> HIDE DEF P
  <2> QED BY <1>2, <2>1
<1> HIDE DEF P
<1>7. HeaderSize + 1 <= Len(D)
  <2> SUFFICES ASSUME Len(D) < HeaderSize + 1 PROVE FALSE
    BY <1>3, <1>4
  <2>1. Len(P) = 0
    BY <1>3, <1>4, <1>5
  <2> QED BY <1>2, <1>6, <2>1
<1>8. Len(P) = Len(D) - HeaderSize /\ P[Len(D) - HeaderSize] = D[Len(D)]
  BY <1>3, <1>4, <1>5, <1>7
<1>9. D[Len(D)] = sent[i].start + HeaderSize + sent[i].size - 1
  BY <1>6, <1>8
<1>10. D[Len(D)] = taken + n
  BY <1>2, <1>3, <1>4, <1>9
<1> QED BY <1>1, <1>2, <1>3, <1>4, <1>6, <1>8, <1>9, <1>10 DEF End

-----------------------------------------------------------------------------
(* The router.                                                             *)

LEMMA Reposted ==
  ASSUME NEW c \in Connection, NEW again \in BOOLEAN
  PROVE  LET d == Repost(c, again)
         IN  /\ d \in Connection /\ Alike(d, c)
             /\ d.reads >= c.reads
             /\ again => d.reads > 0
<1>1. CASE again
  <2>1. Repost(c, again) = AsyncReadSome(c)
    BY <1>1 DEF Repost
  <2>2. /\ AsyncReadSome(c) \in Connection /\ Alike(AsyncReadSome(c), c)
        /\ AsyncReadSome(c).reads = c.reads + 1
    BY ReadsAndWrites
  <2>3. AsyncReadSome(c).reads >= c.reads /\ AsyncReadSome(c).reads > 0
    BY <2>2 DEF Connection
  <2> QED BY <2>1, <2>2, <2>3
<1>2. CASE ~again
  <2>1. Repost(c, again) = c
    BY <1>2 DEF Repost
  <2>2. c.reads \in Nat
    BY DEF Connection
  <2> QED BY <1>2, <2>1, <2>2 DEF Alike
<1> QED BY <1>1, <1>2

(* The connection goes on as it was, with a read unless the command is one *)
(* that starts none; or it is being closed; or the process has ended.      *)
GoesOn(command, c) ==
  /\ proc' = proc /\ Alike(conn', c)
  /\ conn'.reads > 0 \/ command \in {"connect", "data"}

(* What an answered request may leave. *)
Answered(command, c, again) ==
  /\ conn' \in Connection /\ conn'.open = c.open /\ routes' \in Routes
  /\ Closing(c) => Closing(conn')
  /\ \/ GoesOn(command, c)
     \/ proc' = proc /\ Closing(conn')
     \/ proc' = "terminated"
  /\ again /\ proc' = proc => conn'.reads > 0

LEMMA RejectAnswers ==
  ASSUME NEW c \in Connection, NEW again \in BOOLEAN, NEW command, routes \in Routes,
         Running, Reject(c, again)
  PROVE  Answered(command, c, again)
<1> DEFINE e == AsyncWriteError(c)
<1>1. conn' = Repost(e, again) /\ UNCHANGED <<routes, proc>>
  BY DEF Reject
<1>2. e \in Connection /\ Closing(e) /\ e.open = c.open
  BY Endings
<1> HIDE DEF e
<1>3. conn' \in Connection /\ Alike(conn', e) /\ (again => conn'.reads > 0)
  BY <1>1, <1>2, Reposted
<1>4. Closing(conn') /\ conn'.open = c.open
  BY <1>2, <1>3, AlikeClosing DEF Alike
<1> QED BY <1>1, <1>3, <1>4 DEF Answered

LEMMA EndAnswers ==
  ASSUME NEW c \in Connection, NEW again, NEW command, routes \in Routes,
         Running, Terminated(c)
  PROVE  Answered(command, c, again)
BY DEF Terminated, Answered, Running

LEMMA HandleAnswers ==
  ASSUME NEW c \in Connection, NEW again \in BOOLEAN, NEW command, routes \in Routes,
         Running, Handle(command, c, again)
  PROVE  Answered(command, c, again)
<1>0. /\ Repost(c, again) \in Connection /\ Alike(Repost(c, again), c)
      /\ again => Repost(c, again).reads > 0
  BY Reposted
<1>1. CASE command = "start_tunnel" /\ HandleStartTunnel(c, again)
  <2> DEFINE d == AsyncReadSome(AsyncWrite(c))
  <2>0. /\ AsyncWrite(c) \in Connection /\ Alike(AsyncWrite(c), c)
        /\ AsyncWrite(c).reads = c.reads
    BY ReadsAndWrites
  <2>1. d \in Connection /\ Alike(d, c) /\ d.reads = c.reads + 1
    <3>1. /\ d \in Connection /\ Alike(d, AsyncWrite(c))
          /\ d.reads = AsyncWrite(c).reads + 1
      BY <2>0, ReadsAndWrites
    <3> HIDE DEF d
    <3> QED BY <2>0, <3>1 DEF Alike
  <2>2. d.reads > 0
    BY <2>1 DEF Connection
  <2>3. conn' = Repost(d, again) /\ UNCHANGED <<routes, proc>>
    BY <1>1 DEF HandleStartTunnel
  <2> HIDE DEF d
  <2>4. /\ conn' \in Connection /\ Alike(conn', d) /\ conn'.reads >= d.reads
    BY <2>1, <2>3, Reposted
  <2>5. conn'.reads > 0
    <3>1. conn'.reads \in Nat /\ d.reads \in Nat
      BY <2>1, <2>4 DEF Connection
    <3> QED BY <2>2, <2>4, <3>1
  <2>6. Alike(conn', c) /\ conn'.open = c.open
    BY <2>1, <2>4 DEF Alike
  <2> QED BY <2>3, <2>4, <2>5, <2>6, AlikeClosing DEF Answered, GoesOn
<1>2. CASE command = "connect" /\ HandleConnect(c, again)
  <2>1. CASE Terminated(c)
    BY <2>1, EndAnswers
  <2>2. CASE ~Terminated(c)
    <3>1. /\ routes' = [routes EXCEPT !.pending = @ + 1]
          /\ conn' = Repost(c, again) /\ proc' = proc
      BY <1>2, <2>2 DEF HandleConnect
    <3>2. routes' \in Routes
      BY <3>1 DEF Routes
    <3> QED BY <1>0, <1>2, <3>1, <3>2, AlikeClosing DEF Answered, GoesOn, Alike
  <2> QED BY <2>1, <2>2
<1>3. CASE command \in {"data", "undecodable"} /\ HandleData(command, c, again)
  <2>1. CASE routes.live = 0
    BY <1>3, <2>1, RejectAnswers DEF HandleData
  <2>2. CASE routes.live # 0 /\ command = "undecodable"
    BY <1>3, <2>2, EndAnswers DEF HandleData
  <2>3. CASE routes.live # 0 /\ command # "undecodable"
    <3>1. conn' = Repost(c, again) /\ UNCHANGED <<routes, proc>> /\ command = "data"
      BY <1>3, <2>3 DEF HandleData
    <3> QED BY <1>0, <3>1, AlikeClosing DEF Answered, GoesOn, Alike
  <2> QED BY <2>1, <2>2, <2>3
<1>4. CASE command = "rejected" /\ Reject(c, again)
  BY <1>4, RejectAnswers
<1> QED BY <1>1, <1>2, <1>3, <1>4 DEF Handle

(* packet_in: no packet ends the connection, a packet is handled.          *)
LEMMA PacketInSteps ==
  ASSUME TypeOK, Running, NEW bytes, NEW c \in Connection, NEW again \in BOOLEAN,
         PacketIn(bytes, c, again), NEW i, i = PacketOf(bytes)
  PROVE  /\ buffer' = <<>>
         /\ i = 0 => /\ handled' = handled /\ UNCHANGED <<routes, proc>>
                     /\ conn' \in Connection /\ Closing(conn') /\ conn'.open = c.open
                     /\ again => conn'.reads > 0
         /\ i # 0 => /\ handled' = Append(handled, i)
                     /\ Answered(sent[i].command, c, again)
<1>1. CASE i = 0
  <2> DEFINE d == Disconnect(c)
  <2>1. d \in Connection /\ Closing(d) /\ d.open = c.open
    BY Endings
  <2>2. conn' = Repost(d, again) /\ UNCHANGED <<handled, routes, proc>> /\ buffer' = <<>>
    BY <1>1 DEF PacketIn
  <2> HIDE DEF d
  <2>3. conn' \in Connection /\ Alike(conn', d) /\ (again => conn'.reads > 0)
    BY <2>1, <2>2, Reposted
  <2> QED BY <1>1, <2>1, <2>2, <2>3, AlikeClosing DEF Alike
<1>2. CASE i # 0
  <2>1. /\ handled' = Append(handled, i) /\ buffer' = <<>>
        /\ Handle(sent[i].command, c, again)
    BY <1>2 DEF PacketIn
  <2>2. routes \in Routes
    BY DEF TypeOK
  <2> QED BY <1>2, <2>1, <2>2, HandleAnswers
<1> QED BY <1>1, <1>2

-----------------------------------------------------------------------------
(* What a completed read comes to.                                         *)

Broken == proc' = "terminated" /\ UNCHANGED <<stats, conn, buffer, handled, routes>>

(* The packet is not complete, or the connection is being closed. *)
Kept(n) ==
  /\ buffer' \in Delivered(n) /\ UNCHANGED <<handled, routes, proc>>
  /\ \/ Closing(conn')
     \/ /\ stats'.receiving /\ conn'.reads > 0
        /\ stats'.received = IF stats.receiving THEN stats.received + n ELSE n - HeaderSize

(* What has been read is taken for a packet. *)
Ran(n, i) ==
  /\ buffer' = <<>> /\ stats' = NoPacket
  /\ \E bytes \in Delivered(n) : i = PacketOf(Payload(bytes))
  /\ i = 0 => handled' = handled /\ UNCHANGED <<routes, proc>> /\ Closing(conn')
  /\ i # 0 => /\ handled' = Append(handled, i)
              /\ proc' = "terminated" \/ Closing(conn') \/ GoesOn(sent[i].command, AfterRead)

Whole ==
  /\ Named /\ tracked
  /\ stats' \in Stats /\ conn' \in Connection /\ conn'.open = TRUE /\ routes' \in Routes
  /\ proc' = proc \/ proc' = "terminated"
  /\ Closing(conn) => Closing(conn')

Outcome(n) == Broken \/ (Whole /\ (Kept(n) \/ \E i : Ran(n, i)))

LEMMA StreamTyped ==
  ASSUME TypeOK
  PROVE  StreamLength \in Nat /\ Unread \in Int
<1>1. CASE sent = <<>>
  BY <1>1 DEF StreamLength, Unread, TypeOK
<1>2. CASE sent # <<>>
  <2>1. Len(sent) \in DOMAIN sent
    BY <1>2 DEF TypeOK
  <2>2. StreamLength = End(sent[Len(sent)])
    BY <1>2 DEF StreamLength, End
  <2> QED BY <2>1, <2>2, Ends DEF Unread, TypeOK
<1> QED BY <1>1, <1>2

LEMMA AfterReadTyped ==
  ASSUME TypeOK, NEW n, Completing(n)
  PROVE  /\ AfterRead \in Connection /\ Alike(AfterRead, conn)
         /\ AfterRead.reads = conn.reads - 1 /\ AfterRead.open = TRUE
         /\ AsyncReadSome(AfterRead) \in Connection
         /\ Alike(AsyncReadSome(AfterRead), conn)
         /\ AsyncReadSome(AfterRead).reads > 0
<1>1. conn \in Connection /\ conn.reads > 0 /\ conn.open = TRUE /\ conn.reads \in Nat
  BY DEF TypeOK, Completing, Connection
<1>2. /\ AfterRead \in Connection /\ Alike(AfterRead, conn)
      /\ AfterRead.reads = conn.reads - 1
  BY <1>1, ReadsAndWrites DEF AfterRead
<1>3. /\ AsyncReadSome(AfterRead) \in Connection
      /\ Alike(AsyncReadSome(AfterRead), AfterRead)
      /\ AsyncReadSome(AfterRead).reads = AfterRead.reads + 1
  BY <1>2, ReadsAndWrites
<1> QED BY <1>1, <1>2, <1>3 DEF Alike

(* packet_in, called from the read handler. *)
LEMMA RanPacket ==
  ASSUME TypeOK, NEW n \in Nat \ {0}, Completing(n), Named, tracked, NEW again \in BOOLEAN,
         NEW bytes \in Delivered(n),
         stats' = NoPacket, PacketIn(Payload(bytes), AfterRead, again)
  PROVE  Whole /\ \E i : Ran(n, i)
<1> DEFINE i == PacketOf(Payload(bytes))
<1>1. AfterRead \in Connection /\ Alike(AfterRead, conn) /\ AfterRead.open = TRUE
  BY AfterReadTyped
<1>2. Closing(conn) <=> Closing(AfterRead)
  BY <1>1, AlikeClosing
<1>3. Running /\ routes \in Routes
  BY DEF Completing, TypeOK
<1>4. stats' \in Stats
  BY DEF NoPacket, Stats
<1>5. buffer' = <<>>
  BY DEF PacketIn
<1>6. CASE i = 0
  <2>1. /\ handled' = handled /\ UNCHANGED <<routes, proc>>
        /\ conn' \in Connection /\ Closing(conn') /\ conn'.open = AfterRead.open
    BY <1>1, <1>3, <1>6, PacketInSteps
  <2>2. Whole
    BY <1>1, <1>3, <1>4, <2>1 DEF Whole
  <2>3. Ran(n, i)
    BY <1>5, <1>6, <2>1 DEF Ran
  <2> QED BY <2>2, <2>3
<1>7. CASE i # 0
  <2>1. handled' = Append(handled, i) /\ Answered(sent[i].command, AfterRead, again)
    BY <1>1, <1>3, <1>7, PacketInSteps
  <2>2. Whole
    BY <1>1, <1>2, <1>4, <2>1 DEF Whole, Answered, GoesOn
  <2>3. Ran(n, i)
    BY <1>5, <1>7, <2>1 DEF Ran, Answered
  <2> QED BY <2>2, <2>3
<1> QED BY <1>6, <1>7

LEMMA ReadOutcome ==
  ASSUME TypeOK, NEW n \in Nat \ {0}, ReadSome(n)
  PROVE  Completing(n) /\ Outcome(n)
<1> USE DEF Outcome
<1>0. ASSUME Completing(n)
      PROVE  /\ AfterRead \in Connection /\ AfterRead.open = TRUE
             /\ AsyncReadSome(AfterRead) \in Connection
             /\ AsyncReadSome(AfterRead).reads > 0
             /\ AsyncReadSome(AfterRead).open = TRUE
             /\ Closing(conn) <=> Closing(AsyncReadSome(AfterRead))
             /\ Disconnect(AfterRead) \in Connection /\ Closing(Disconnect(AfterRead))
             /\ Disconnect(AfterRead).open = TRUE
  <2>1. /\ AfterRead \in Connection /\ AfterRead.open = TRUE
        /\ Alike(AfterRead, conn)
        /\ AsyncReadSome(AfterRead) \in Connection
        /\ Alike(AsyncReadSome(AfterRead), conn)
        /\ AsyncReadSome(AfterRead).reads > 0
    BY <1>0, AfterReadTyped
  <2>2. AsyncReadSome(AfterRead).open = TRUE
    BY <2>1 DEF Alike
  <2> QED BY <2>1, <2>2, Endings, AlikeClosing
<1>1. ASSUME NEW bytes \in Delivered(n), ReadPart(n, bytes)
      PROVE  Completing(n) /\ Outcome(n)
  <2>1. Completing(n) /\ Named /\ tracked /\ stats.receiving
        /\ stats' = [stats EXCEPT !.received = stats.received + n]
        /\ buffer' = bytes /\ conn' = AsyncReadSome(AfterRead)
        /\ UNCHANGED <<handled, routes, proc>>
    BY <1>1 DEF ReadPart, Awaiting, Received
  <2>2. /\ stats' \in Stats /\ stats'.receiving = TRUE
        /\ stats'.received = stats.received + n
    <3>1. stats \in Stats /\ stats.received \in Nat
      BY DEF TypeOK, Stats
    <3>2. stats.received + n \in Nat
      BY <3>1
    <3> QED BY <2>1, <3>1, <3>2 DEF Stats
  <2>3. routes \in Routes
    BY DEF TypeOK
  <2> QED BY <1>0, <2>1, <2>2, <2>3 DEF Whole, Kept
<1>2. ASSUME NEW bytes \in Delivered(n), ReadLast(n, bytes)
      PROVE  Completing(n) /\ Outcome(n)
  <2>1. /\ Completing(n) /\ Named /\ tracked /\ stats' = NoPacket
        /\ PacketIn(Payload(bytes), AfterRead, TRUE)
    BY <1>2 DEF ReadLast
  <2> QED BY <2>1, RanPacket
<1>3. ASSUME NEW bytes \in Delivered(n), ReadAfterOverfull(n, bytes)
      PROVE  Completing(n) /\ Outcome(n)
  <2>1. /\ Completing(n) /\ Named /\ tracked /\ stats' = NoPacket
        /\ PacketIn(Payload(bytes), AfterRead, FALSE)
    BY <1>3 DEF ReadAfterOverfull
  <2> QED BY <2>1, RanPacket
<1>4. ASSUME NEW bytes \in Delivered(n), ReadRejected(n, bytes)
      PROVE  Completing(n) /\ Outcome(n)
  <2>1. /\ Completing(n) /\ Named /\ tracked /\ UNCHANGED <<stats, handled, routes, proc>>
        /\ conn' = Disconnect(AfterRead) /\ buffer' = bytes
    BY <1>4 DEF ReadRejected, Starting
  <2>2. routes \in Routes /\ stats \in Stats
    BY DEF TypeOK
  <2> QED BY <1>0, <2>1, <2>2 DEF Whole, Kept
<1>5. ASSUME NEW bytes \in Delivered(n), ReadWhole(n, bytes)
      PROVE  Completing(n) /\ Outcome(n)
  <2>1. /\ Completing(n) /\ Named /\ tracked /\ stats' = NoPacket
        /\ PacketIn(Payload(bytes), AfterRead, FALSE)
    BY <1>5 DEF ReadWhole, Starting
  <2> QED BY <2>1, RanPacket
<1>6. ASSUME NEW bytes \in Delivered(n), ReadStart(n, bytes)
      PROVE  Completing(n) /\ Outcome(n)
  <2> DEFINE len == HeaderLength(bytes)
  <2>1. /\ Completing(n) /\ Named /\ tracked /\ stats.receiving = FALSE
        /\ stats' = [receiving |-> TRUE, received |-> n - HeaderSize, to_be_received |-> len]
        /\ buffer' = bytes /\ UNCHANGED <<handled, routes, proc>>
        /\ conn' = IF n - HeaderSize < len THEN AsyncReadSome(AfterRead) ELSE Disconnect(AfterRead)
        /\ HasHeader(bytes, n)
    BY <1>6 DEF ReadStart, Starting, TypeOK, Stats
  <2>2. len \in Nat
    <3>1. \E i \in DOMAIN sent : Signed(bytes, i)
      BY <2>1 DEF HasHeader
    <3>2. PICK i \in DOMAIN sent : len = sent[i].size
      BY <3>1 DEF HeaderLength
    <3> QED BY <3>2, Ends
  <2>3. n >= HeaderSize
    BY <2>1 DEF HasHeader
  <2> HIDE DEF len
  <2>4. /\ stats' \in Stats /\ stats'.receiving = TRUE /\ stats'.received = n - HeaderSize
    BY <2>1, <2>2, <2>3, HeaderSizeAssumption DEF Stats
  <2>5. routes \in Routes
    BY DEF TypeOK
  <2>6. CASE n - HeaderSize < len
    BY <1>0, <2>1, <2>4, <2>5, <2>6 DEF Whole, Kept
  <2>7. CASE ~(n - HeaderSize < len)
    BY <1>0, <2>1, <2>4, <2>5, <2>7 DEF Whole, Kept
  <2> QED BY <2>6, <2>7
<1>7. CASE ReadBreaks(n)
  BY <1>7 DEF ReadBreaks, Broken
<1> QED BY <1>1, <1>2, <1>3, <1>4, <1>5, <1>6, <1>7 DEF ReadSome

-----------------------------------------------------------------------------
(* Types.                                                                  *)

(* Steps that leave the stream, the buffer and the statistics alone.       *)
Answering ==
  \/ WriteDone \/ ErrorWriteDone \/ ShutdownDone
  \/ ConnectDone \/ ConnectFailed \/ RouteClosed

(* A route goes from one stage to the next. *)
LEMMA RoutesMoved ==
  ASSUME NEW r \in Routes, r.pending > 0
  PROVE  /\ [r EXCEPT !.pending = @ - 1, !.live = @ + 1] \in Routes
         /\ [r EXCEPT !.pending = @ - 1, !.dead = @ + 1] \in Routes
<1> DEFINE q == [r EXCEPT !.pending = @ - 1]
<1>1. q \in Routes
  BY DEF Routes
<1>2. [r EXCEPT !.pending = @ - 1, !.live = @ + 1] = [q EXCEPT !.live = @ + 1]
  BY DEF Routes
<1>3. [r EXCEPT !.pending = @ - 1, !.dead = @ + 1] = [q EXCEPT !.dead = @ + 1]
  BY DEF Routes
<1> HIDE DEF q
<1>4. [q EXCEPT !.live = @ + 1] \in Routes
  BY <1>1 DEF Routes
<1>5. [q EXCEPT !.dead = @ + 1] \in Routes
  BY <1>1 DEF Routes
<1> QED BY <1>2, <1>3, <1>4, <1>5

LEMMA AnsweringTyped ==
  ASSUME TypeOK, Answering
  PROVE  /\ conn' \in Connection /\ routes' \in Routes /\ proc' \in {"running", "terminated"}
         /\ UNCHANGED <<sent, written, taken, peer, phase, tracked, stats, buffer, handled>>
<1>0. conn \in Connection /\ routes \in Routes /\ proc \in {"running", "terminated"}
  BY DEF TypeOK
<1>1. CASE WriteDone
  <2>1. WriteCompleted(conn) \in Connection
    BY <1>0, <1>1, ReadsAndWrites DEF WriteDone
  <2> QED BY <1>0, <1>1, <2>1 DEF WriteDone
<1>2. CASE ErrorWriteDone
  <2>1. ErrorWriteCompleted(conn) \in Connection
    BY <1>0, <1>2, Endings DEF ErrorWriteDone
  <2> QED BY <1>0, <1>2, <2>1 DEF ErrorWriteDone
<1>3. CASE ShutdownDone
  <2>1. ShutdownCompleted(conn) \in Connection
    BY <1>0, <1>3, Endings DEF ShutdownDone
  <2> QED BY <1>0, <1>3, <2>1 DEF ShutdownDone
<1>4. CASE ConnectDone
  <2>1. AsyncWrite(conn) \in Connection
    BY <1>0, ReadsAndWrites
  <2>2. AsyncReadSome(AsyncWrite(conn)) \in Connection
    BY <2>1, ReadsAndWrites
  <2>3. routes.pending > 0 => [routes EXCEPT !.pending = @ - 1, !.live = @ + 1] \in Routes
    BY <1>0, RoutesMoved
  <2> QED BY <1>0, <1>4, <2>2, <2>3 DEF ConnectDone
<1>5. CASE ConnectFailed
  <2>1. routes.pending > 0 => [routes EXCEPT !.pending = @ - 1, !.dead = @ + 1] \in Routes
    BY <1>0, RoutesMoved
  <2> QED BY <1>0, <1>5, <2>1 DEF ConnectFailed
<1>6. CASE RouteClosed
  <2>1. routes.live > 0 => [routes EXCEPT !.live = @ - 1] \in Routes
    BY <1>0 DEF Routes
  <2> QED BY <1>0, <1>6, <2>1 DEF RouteClosed
<1> QED BY <1>1, <1>2, <1>3, <1>4, <1>5, <1>6 DEF Answering

LEMMA TypeStep == TypeOK /\ [Next]_vars => TypeOK'
<1> SUFFICES ASSUME TypeOK, [Next]_vars PROVE TypeOK'
  OBVIOUS
<1>1. CASE Answering
  BY <1>1, AnsweringTyped DEF TypeOK
<1>2. ASSUME NEW command \in Commands, NEW size \in Sizes, NEW n \in 1 .. HeaderSize + size,
             ClientSend(command, size, n)
      PROVE  TypeOK'
  <2> DEFINE p == [command |-> command, size |-> size, start |-> StreamLength + 1]
  <2>1. p \in Packet
    BY <1>2, StreamTyped, BoundsAssumption DEF Packet
  <2>2. /\ sent' = Append(sent, p) /\ written' = written + n
        /\ UNCHANGED <<taken, peer, phase, tracked, stats, routerVars>>
    BY <1>2 DEF ClientSend
  <2> HIDE DEF p
  <2>3. sent' \in Seq(Packet)
    BY <2>1, <2>2 DEF TypeOK
  <2>4. written' \in Nat
    BY <2>2, HeaderSizeAssumption, BoundsAssumption DEF TypeOK
  <2> QED BY <2>2, <2>3, <2>4 DEF TypeOK, routerVars
<1>3. ASSUME NEW how \in {"fin", "cut", "reset"}, ClientClose(how)
      PROVE  TypeOK'
  BY <1>3 DEF ClientClose, TypeOK, routerVars
<1>4. CASE HandshakeDone
  <2>1. AsyncReadSome(conn) \in Connection /\ NoPacket \in Stats
    BY ReadsAndWrites DEF TypeOK, NoPacket, Stats
  <2> QED BY <1>4, <2>1 DEF HandshakeDone, TypeOK
<1>5. CASE HandshakeFailed
  BY <1>5 DEF HandshakeFailed, TypeOK
<1>6. ASSUME NEW n \in 1 .. Unread, ReadSome(n)
      PROVE  TypeOK'
  <2>1. n \in Nat \ {0}
    BY StreamTyped
  <2>2. Completing(n) /\ Outcome(n)
    BY <1>6, <2>1, ReadOutcome
  <2>3. taken' \in Nat /\ UNCHANGED <<sent, written, peer, phase, tracked>>
    BY <2>1, <2>2 DEF Completing, TypeOK
  <2>4. CASE Broken
    BY <2>3, <2>4 DEF Broken, TypeOK
  <2>5. CASE Whole /\ Kept(n)
    <3>1. buffer' \in Seq(Nat)
      BY <2>1, <2>5, DeliveredBytes DEF Kept
    <3> QED BY <2>3, <2>5, <3>1 DEF Whole, Kept, TypeOK
  <2>6. ASSUME Whole, NEW i, Ran(n, i)
        PROVE  TypeOK'
    <3>1. handled' \in Seq(Nat)
      <4>1. CASE i = 0
        BY <2>6, <4>1 DEF Ran, TypeOK
      <4>2. CASE i # 0
        <5>1. i \in DOMAIN sent /\ i \in Nat
          BY <2>1, <2>6, <4>2, PacketFound, Ends DEF Ran
        <5>2. handled \in Seq(Nat) /\ handled' = Append(handled, i)
          BY <2>6, <4>2 DEF Ran, TypeOK
        <5> QED BY <5>1, <5>2
      <4> QED BY <4>1, <4>2
    <3> QED BY <2>3, <2>6, <3>1 DEF Whole, Ran, TypeOK
  <2> QED BY <2>2, <2>4, <2>5, <2>6 DEF Outcome
<1>7. CASE ReadFailed
  <2>1. conn.reads > 0 => AfterRead \in Connection
    BY ReadsAndWrites DEF AfterRead, TypeOK
  <2>2. NoPacket \in Stats
    BY DEF NoPacket, Stats
  <2> QED BY <1>7, <2>1, <2>2 DEF ReadFailed, TypeOK
<1>8. CASE UNCHANGED vars
  BY <1>8 DEF vars, routerVars, TypeOK
<1>9. ASSUME NEW n \in 1 .. StreamLength - written, ClientContinue(n)
      PROVE  TypeOK'
  <2>1. n \in Nat
    BY StreamTyped
  <2> QED BY <1>9, <2>1 DEF ClientContinue, TypeOK, routerVars
<1> QED BY <1>1, <1>2, <1>3, <1>4, <1>5, <1>6, <1>7, <1>8, <1>9
       DEF Next, Client, Read, Answering

-----------------------------------------------------------------------------
(* The layout of the stream.                                               *)

LEMMA LaidStep ==
  ASSUME TypeOK, Laid, [Next]_vars
  PROVE  Laid'
<1>1. CASE UNCHANGED sent
  BY <1>1 DEF Laid, End
<1>2. ASSUME NEW command \in Commands, NEW size \in Sizes, NEW n \in 1 .. HeaderSize + size,
             ClientSend(command, size, n)
      PROVE  Laid'
  <2> DEFINE p == [command |-> command, size |-> size, start |-> StreamLength + 1]
  <2>1. sent' = Append(sent, p) /\ p.start = StreamLength + 1
    BY <1>2 DEF ClientSend
  <2> HIDE DEF p
  <2>2. /\ sent \in Seq(Packet) /\ Len(sent) \in Nat /\ Len(sent') = Len(sent) + 1
        /\ DOMAIN sent = 1 .. Len(sent) /\ DOMAIN sent' = 1 .. Len(sent) + 1
        /\ \A i \in 1 .. Len(sent) : sent'[i] = sent[i]
        /\ sent'[Len(sent) + 1] = p
    BY <2>1 DEF TypeOK
  <2>3. /\ sent = <<>> => p.start = 1
        /\ sent # <<>> => /\ Len(sent) \in DOMAIN sent
                          /\ p.start = End(sent[Len(sent)]) + 1
    BY <2>1, <2>2 DEF StreamLength, End
  <2>4. sent' # <<>> /\ sent'[1].start = 1
    <3>1. sent = <<>> <=> Len(sent) = 0
      BY <2>2
    <3> QED BY <2>2, <2>3, <3>1 DEF Laid
  <2>5. ASSUME NEW i \in DOMAIN sent', i + 1 \in DOMAIN sent'
        PROVE  sent'[i + 1].start = End(sent'[i]) + 1
    <3>1. CASE i + 1 \in DOMAIN sent
      <4>1. i \in DOMAIN sent
        BY <2>2, <2>5, <3>1
      <4> QED BY <2>2, <3>1, <4>1 DEF Laid
    <3>2. CASE i = Len(sent)
      <4>1. sent # <<>> /\ sent'[i] = sent[i] /\ sent'[i + 1] = p
        BY <2>2, <2>5, <3>2
      <4> QED BY <2>3, <3>2, <4>1
    <3> QED BY <2>2, <2>5, <3>1, <3>2
  <2>6. ASSUME NEW i \in DOMAIN sent', NEW j \in DOMAIN sent', i < j
        PROVE  End(sent'[i]) < sent'[j].start
    <3>1. i \in DOMAIN sent /\ sent'[i] = sent[i] /\ i \in 1 .. Len(sent)
      BY <2>2, <2>6
    <3>2. CASE j \in DOMAIN sent
      BY <2>2, <2>6, <3>1, <3>2 DEF Laid
    <3>3. CASE j = Len(sent) + 1
      <4>1. sent'[j] = p /\ sent # <<>> /\ p.start = End(sent[Len(sent)]) + 1
        BY <2>2, <2>3, <3>1, <3>3
      <4>2. End(sent[Len(sent)]) \in Nat /\ End(sent[i]) \in Nat
        BY <2>2, <3>1, Ends
      <4>3. CASE i = Len(sent)
        BY <3>1, <4>1, <4>2, <4>3
      <4>4. CASE i < Len(sent)
        <5>1. Len(sent) \in DOMAIN sent
          BY <2>2, <3>1
        <5>2. End(sent[i]) < sent[Len(sent)].start
          BY <3>1, <4>4, <5>1 DEF Laid
        <5>3. sent[Len(sent)].start <= End(sent[Len(sent)]) /\ sent[Len(sent)].start \in Nat
          BY <5>1, Ends
        <5> QED BY <3>1, <4>1, <4>2, <5>2, <5>3
      <4> QED BY <2>2, <3>1, <4>3, <4>4
    <3> QED BY <2>2, <3>2, <3>3
  <2>7. (\A i, j \in DOMAIN sent : i < j => End(sent[i]) < sent[j].start)'
    BY <2>6 DEF End
  <2> QED BY <2>4, <2>5, <2>7 DEF Laid, End
<1>3. ASSUME NEW n \in 1 .. Unread, ReadSome(n)
      PROVE  UNCHANGED sent
  <2>1. n \in Nat \ {0}
    BY StreamTyped
  <2> QED BY <1>3, <2>1, ReadOutcome DEF Completing
<1>4. CASE Answering
  BY <1>1, <1>4, AnsweringTyped
<1>5. CASE HandshakeDone \/ HandshakeFailed \/ ReadFailed \/ UNCHANGED vars
           \/ (\E how \in {"fin", "cut", "reset"} : ClientClose(how))
           \/ \E n \in 1 .. StreamLength - written : ClientContinue(n)
  BY <1>1, <1>5 DEF HandshakeDone, HandshakeFailed, ReadFailed, vars, ClientClose,
                    ClientContinue
<1> QED BY <1>1, <1>2, <1>3, <1>4, <1>5 DEF Next, Client, Read, Answering

-----------------------------------------------------------------------------
(* Before and after the connection is heard.                               *)

(* Nothing but the handshake happens before it is done.                    *)
LEMMA OnlyReadyIsServed ==
  ASSUME TypeOK, Unborn, Answering \/ ReadFailed \/ \E n : Completing(n)
  PROVE  Running /\ phase = "ready"
<1>1. Running
  BY DEF Answering, WriteDone, ErrorWriteDone, ShutdownDone, ConnectDone, ConnectFailed,
         RouteClosed, ReadFailed, Completing
<1>2. \/ conn.reads > 0 \/ conn.writes > 0 \/ conn.errorWrites > 0 \/ conn.shutdowns > 0
      \/ routes.pending > 0 \/ routes.live > 0
  BY DEF Answering, WriteDone, ErrorWriteDone, ShutdownDone, ConnectDone, ConnectFailed,
         RouteClosed, ReadFailed, Completing
<1>3. ASSUME phase # "ready" PROVE FALSE
  BY <1>2, <1>3 DEF Unborn, NewConnection
<1> QED BY <1>1, <1>3

LEMMA AnsweringKeeps ==
  ASSUME TypeOK, Answering
  PROVE  /\ Closing(conn) => Closing(conn')
         /\ conn'.reads >= conn.reads
<1>0. conn \in Connection /\ conn.reads \in Nat
  BY DEF TypeOK, Connection
<1>1. CASE WriteDone
  <2>1. conn' = WriteCompleted(conn) /\ conn.writes > 0
    BY <1>1 DEF WriteDone
  <2>2. Alike(WriteCompleted(conn), conn) /\ conn'.reads = conn.reads
    BY <1>0, <2>1, ReadsAndWrites
  <2> QED BY <1>0, <2>1, <2>2, AlikeClosing
<1>2. CASE ErrorWriteDone
  <2>1. conn' = ErrorWriteCompleted(conn) /\ conn.errorWrites > 0
    BY <1>2 DEF ErrorWriteDone
  <2>2. Closing(conn') /\ conn'.reads = conn.reads
    BY <1>0, <2>1, Endings
  <2> QED BY <1>0, <2>2
<1>3. CASE ShutdownDone
  <2>1. conn' = ShutdownCompleted(conn) /\ conn.shutdowns > 0
    BY <1>3 DEF ShutdownDone
  <2>2. Closing(conn') /\ conn'.reads = conn.reads
    BY <1>0, <2>1, Endings
  <2> QED BY <1>0, <2>2
<1>4. CASE ConnectDone
  <2>1. CASE conn' = conn
    BY <1>0, <2>1
  <2>2. CASE conn' = AsyncReadSome(AsyncWrite(conn))
    <3> DEFINE d == AsyncWrite(conn)
    <3>1. d \in Connection /\ Alike(d, conn) /\ d.reads = conn.reads
      BY <1>0, ReadsAndWrites
    <3>2. conn' = AsyncReadSome(d)
      BY <2>2
    <3> HIDE DEF d
    <3>3. Alike(conn', d) /\ conn'.reads = d.reads + 1
      BY <3>1, <3>2, ReadsAndWrites
    <3>4. Alike(conn', conn) /\ conn'.reads >= conn.reads
      BY <1>0, <3>1, <3>3 DEF Alike
    <3> QED BY <3>4, AlikeClosing
  <2> QED BY <1>4, <2>1, <2>2 DEF ConnectDone
<1>5. CASE ConnectFailed \/ RouteClosed
  BY <1>0, <1>5 DEF ConnectFailed, RouteClosed
<1> QED BY <1>1, <1>2, <1>3, <1>4, <1>5 DEF Answering

LEMMA UnbornStep ==
  ASSUME TypeOK, Unborn, [Next]_vars
  PROVE  Unborn'
<1>1. ASSUME NEW n \in 1 .. Unread, ReadSome(n)
      PROVE  Unborn'
  <2>1. n \in Nat \ {0}
    BY StreamTyped
  <2>2. Completing(n)
    BY <1>1, <2>1, ReadOutcome
  <2>3. phase = "ready" /\ phase' = phase
    BY <2>2, OnlyReadyIsServed DEF Completing
  <2> QED BY <2>3 DEF Unborn
<1>2. CASE Answering
  <2>1. phase = "ready" /\ phase' = phase
    BY <1>2, OnlyReadyIsServed, AnsweringTyped
  <2> QED BY <2>1 DEF Unborn
<1>3. CASE ReadFailed
  <2>1. phase = "ready" /\ phase' = phase
    BY <1>3, OnlyReadyIsServed DEF ReadFailed
  <2> QED BY <2>1 DEF Unborn
<1>4. CASE Client \/ UNCHANGED vars
  BY <1>4 DEF Client, ClientSend, ClientContinue, ClientClose, vars, routerVars, Unborn
<1>5. CASE HandshakeDone
  BY <1>5 DEF HandshakeDone, Unborn
<1>6. CASE HandshakeFailed
  BY <1>6 DEF HandshakeFailed, Unborn
<1> QED BY <1>1, <1>2, <1>3, <1>4, <1>5, <1>6 DEF Next, Read, Answering

(* Only a read that finds the stream at its end forgets a client, and then *)
(* there is nothing more to be read.                                       *)
LEMMA ForgottenStep ==
  ASSUME TypeOK, Unborn, Forgotten, [Next]_vars
  PROVE  Forgotten'
<1>0. Unread' = Unread \/ ~(written' = written /\ taken' = taken)
  BY DEF Unread
<1>1. ASSUME NEW n \in 1 .. Unread, ReadSome(n)
      PROVE  Forgotten'
  <2>1. n \in Nat \ {0} /\ Unread # 0
    BY StreamTyped
  <2>2. Completing(n)
    BY <1>1, <2>1, ReadOutcome
  <2>3. phase = "ready" /\ tracked' = tracked
    BY <2>2, OnlyReadyIsServed DEF Completing
  <2> QED BY <2>1, <2>3 DEF Forgotten
<1>2. CASE Answering
  <2>1. UNCHANGED <<written, taken, peer, phase, tracked>>
    BY <1>2, AnsweringTyped
  <2> QED BY <1>0, <2>1 DEF Forgotten
<1>3. CASE ReadFailed
  <2>1. /\ UNCHANGED <<written, taken, peer, phase>>
        /\ tracked' = tracked \/ (peer = "fin" /\ Unread = 0)
    BY <1>3 DEF ReadFailed
  <2> QED BY <1>0, <2>1 DEF Forgotten
<1>4. CASE Client
  BY <1>0, <1>4 DEF Client, ClientSend, ClientContinue, ClientClose, routerVars, Forgotten
<1>5. CASE HandshakeDone \/ HandshakeFailed \/ UNCHANGED vars
  BY <1>0, <1>5 DEF HandshakeDone, HandshakeFailed, vars, Forgotten
<1> QED BY <1>1, <1>2, <1>3, <1>4, <1>5 DEF Next, Read, Answering

-----------------------------------------------------------------------------
(* The order in which packets are run.                                     *)

(* What has been sent is not sent otherwise later.                         *)
LEMMA SentStays ==
  ASSUME TypeOK, [Next]_vars, NEW i \in DOMAIN sent
  PROVE  i \in DOMAIN sent' /\ sent'[i] = sent[i]
<1>1. CASE UNCHANGED sent
  BY <1>1
<1>2. ASSUME NEW command \in Commands, NEW size \in Sizes, NEW n \in 1 .. HeaderSize + size,
             ClientSend(command, size, n)
      PROVE  i \in DOMAIN sent' /\ sent'[i] = sent[i]
  <2> DEFINE p == [command |-> command, size |-> size, start |-> StreamLength + 1]
  <2>1. sent' = Append(sent, p)
    BY <1>2 DEF ClientSend
  <2> HIDE DEF p
  <2> QED BY <2>1 DEF TypeOK
<1>3. ASSUME NEW n \in 1 .. Unread, ReadSome(n)
      PROVE  UNCHANGED sent
  <2>1. n \in Nat \ {0}
    BY StreamTyped
  <2> QED BY <1>3, <2>1, ReadOutcome DEF Completing
<1>4. CASE Answering
  BY <1>1, <1>4, AnsweringTyped
<1>5. CASE HandshakeDone \/ HandshakeFailed \/ ReadFailed \/ UNCHANGED vars
           \/ (\E how \in {"fin", "cut", "reset"} : ClientClose(how))
           \/ \E n \in 1 .. StreamLength - written : ClientContinue(n)
  BY <1>1, <1>5 DEF HandshakeDone, HandshakeFailed, ReadFailed, vars, ClientClose,
                    ClientContinue
<1> QED BY <1>1, <1>2, <1>3, <1>4, <1>5 DEF Next, Client, Read, Answering

(* A packet that ends behind what had been taken comes after all that have *)
(* been run.                                                               *)
LEMMA Later ==
  ASSUME TypeOK, Laid, InOrder, NEW i \in DOMAIN sent, taken < End(sent[i]),
         NEW j \in DOMAIN handled
  PROVE  handled[j] < i
<1> DEFINE last == handled[Len(handled)]
<1>1. /\ handled # <<>> /\ Len(handled) \in DOMAIN handled /\ j \in Nat /\ Len(handled) \in Nat
      /\ j <= Len(handled)
  BY DEF TypeOK
<1>2. last \in DOMAIN sent /\ End(sent[last]) <= taken /\ handled[j] \in DOMAIN sent
  BY <1>1 DEF InOrder
<1>3. handled[j] <= last
  <2>1. handled[j] \in Nat /\ last \in Nat
    BY <1>2, Ends
  <2>2. j < Len(handled) => handled[j] < last
    BY <1>1 DEF InOrder
  <2>3. j = Len(handled) => handled[j] = last
    OBVIOUS
  <2> HIDE DEF last
  <2> QED BY <1>1, <2>1, <2>2, <2>3
<1> HIDE DEF last
<1>4. /\ End(sent[last]) \in Nat /\ End(sent[i]) \in Nat /\ sent[last].start \in Nat
      /\ sent[last].start <= End(sent[last])
      /\ i \in Nat /\ last \in Nat /\ handled[j] \in Nat /\ taken \in Nat
  BY <1>2, Ends DEF TypeOK
<1>5. last # i
  BY <1>2, <1>4
<1>6. ~(i < last)
  <2>1. i < last => End(sent[i]) < sent[last].start
    BY <1>2 DEF Laid
  <2> QED BY <1>2, <1>4, <2>1
<1> QED BY <1>3, <1>4, <1>5, <1>6

LEMMA InOrderStep ==
  ASSUME TypeOK, TypeOK', Laid, Unborn, InOrder, [Next]_vars
  PROVE  InOrder'
<1>1. ASSUME handled' = handled, taken' >= taken
      PROVE  InOrder'
  <2>1. \A j \in DOMAIN handled : /\ handled[j] \in DOMAIN sent
                                  /\ handled[j] \in DOMAIN sent'
                                  /\ sent'[handled[j]] = sent[handled[j]]
    BY SentStays DEF InOrder
  <2>2. ASSUME handled # <<>>
        PROVE  End(sent'[handled[Len(handled)]]) <= taken'
    <3>1. Len(handled) \in DOMAIN handled
      BY <2>2 DEF TypeOK
    <3>2. End(sent[handled[Len(handled)]]) <= taken
      BY <2>2 DEF InOrder
    <3>3. /\ handled[Len(handled)] \in DOMAIN sent
          /\ sent'[handled[Len(handled)]] = sent[handled[Len(handled)]]
      BY <2>1, <3>1
    <3>4. End(sent[handled[Len(handled)]]) \in Nat
      BY <3>3, Ends
    <3> QED BY <1>1, <3>2, <3>3, <3>4 DEF TypeOK
  <2>3. (\A i, j \in DOMAIN handled : i < j => handled[i] < handled[j])'
    BY <1>1 DEF InOrder
  <2>4. (\A i \in DOMAIN handled : handled[i] \in DOMAIN sent)'
    BY <1>1, <2>1
  <2>5. (handled # <<>> => End(sent[handled[Len(handled)]]) <= taken)'
    BY <1>1, <2>2 DEF End
  <2> QED BY <2>3, <2>4, <2>5 DEF InOrder
<1>2. ASSUME NEW n \in 1 .. Unread, ReadSome(n)
      PROVE  InOrder'
  <2>1. n \in Nat \ {0}
    BY StreamTyped
  <2>2. Completing(n) /\ Outcome(n)
    BY <1>2, <2>1, ReadOutcome
  <2>3. taken' = taken + n /\ taken' >= taken /\ sent' = sent /\ taken \in Nat
    BY <2>1, <2>2 DEF Completing, TypeOK
  <2>4. CASE handled' = handled
    BY <1>1, <2>3, <2>4
  <2>5. ASSUME NEW i, i # 0, Ran(n, i)
        PROVE  InOrder'
    <3>1. i \in DOMAIN sent /\ End(sent[i]) = taken + n /\ i \in Nat
      BY <2>1, <2>5, PacketFound, Ends DEF Ran
    <3>2. handled \in Seq(Nat) /\ handled' = Append(handled, i)
      BY <2>5 DEF Ran, TypeOK
    <3>3. taken < End(sent[i])
      BY <2>1, <2>3, <3>1
    <3>4. \A j \in DOMAIN handled : handled[j] < i /\ handled[j] \in DOMAIN sent
      BY <3>1, <3>3, Later DEF InOrder
    <3>5. /\ handled' # <<>> /\ handled'[Len(handled')] = i
          /\ DOMAIN handled' = 1 .. Len(handled) + 1 /\ Len(handled) \in Nat
          /\ \A j \in DOMAIN handled : handled'[j] = handled[j]
          /\ handled'[Len(handled) + 1] = i
          /\ DOMAIN handled = 1 .. Len(handled)
      BY <3>1, <3>2
    <3>6. ASSUME NEW j \in DOMAIN handled', NEW k \in DOMAIN handled', j < k
          PROVE  handled'[j] < handled'[k]
      <4>1. j \in DOMAIN handled /\ handled'[j] = handled[j]
        BY <3>5, <3>6
      <4>2. CASE k \in DOMAIN handled
        BY <3>5, <3>6, <4>1, <4>2 DEF InOrder
      <4>3. CASE k = Len(handled) + 1
        BY <3>4, <3>5, <4>1, <4>3
      <4> QED BY <3>5, <4>2, <4>3
    <3>7. ASSUME NEW j \in DOMAIN handled'
          PROVE  handled'[j] \in DOMAIN sent'
      <4>1. CASE j \in DOMAIN handled
        BY <2>3, <3>4, <3>5, <4>1
      <4>2. CASE j = Len(handled) + 1
        BY <2>3, <3>1, <3>5, <4>2
      <4> QED BY <3>5, <4>1, <4>2
    <3>8. (handled # <<>> => End(sent[handled[Len(handled)]]) <= taken)'
      <4>1. End(sent'[i]) <= taken'
        BY <2>1, <2>3, <3>1
      <4> QED BY <3>5, <4>1 DEF End
    <3> QED BY <3>6, <3>7, <3>8 DEF InOrder
  <2> QED BY <2>2, <2>4, <2>5 DEF Outcome, Broken, Kept, Ran
<1>3. taken >= taken
  BY DEF TypeOK
<1>4. CASE Answering
  BY <1>1, <1>3, <1>4, AnsweringTyped
<1>5. CASE Client \/ HandshakeDone \/ HandshakeFailed \/ ReadFailed \/ UNCHANGED vars
  BY <1>1, <1>3, <1>5 DEF Client, ClientSend, ClientContinue, ClientClose, HandshakeDone, HandshakeFailed,
                           ReadFailed, vars, routerVars
<1> QED BY <1>2, <1>4, <1>5 DEF Next, Read, Answering

-----------------------------------------------------------------------------
(* What has been read and not been run is in the buffer.                   *)

(* A connection that is established has been since the handshake.          *)
LEMMA StillEstablished ==
  ASSUME TypeOK, Unborn, [Next]_vars, Established', ~HandshakeDone
  PROVE  Established
<1> USE DEF Established, Running
<1>1. ASSUME NEW n \in 1 .. Unread, ReadSome(n)
      PROVE  Established
  <2>1. n \in Nat \ {0}
    BY StreamTyped
  <2>2. Completing(n) /\ Outcome(n)
    BY <1>1, <2>1, ReadOutcome
  <2>3. Running /\ phase = "ready"
    BY <2>2, OnlyReadyIsServed
  <2>4. Closing(conn) => Closing(conn')
    BY <2>2 DEF Outcome, Broken, Whole
  <2> QED BY <2>3, <2>4 DEF Closing
<1>2. CASE Answering
  <2>1. Running /\ phase = "ready"
    BY <1>2, OnlyReadyIsServed
  <2>2. Closing(conn) => Closing(conn')
    BY <1>2, AnsweringKeeps
  <2> QED BY <2>1, <2>2 DEF Closing
<1>3. CASE ReadFailed
  <2>1. Running /\ phase = "ready" /\ conn.reads > 0 /\ conn \in Connection
    BY <1>3, OnlyReadyIsServed DEF ReadFailed, TypeOK
  <2>2. conn' = AfterRead \/ conn' = conn
    BY <1>3 DEF ReadFailed
  <2>3. Alike(AfterRead, conn)
    BY <2>1, ReadsAndWrites DEF AfterRead
  <2>4. Closing(conn) => Closing(conn')
    BY <2>2, <2>3, AlikeClosing
  <2> QED BY <2>1, <2>4 DEF Closing
<1>4. CASE Client \/ UNCHANGED vars
  BY <1>4 DEF Client, ClientSend, ClientContinue, ClientClose, vars, routerVars, Closing
<1>5. CASE HandshakeFailed
  BY <1>5 DEF HandshakeFailed
<1> QED BY <1>1, <1>2, <1>3, <1>4, <1>5 DEF Next, Read, Answering

(* What the handshake starts with.                                         *)
LEMMA Shaken ==
  ASSUME TypeOK, Unborn, HandshakeDone, Established'
  PROVE  /\ tracked' /\ stats' = NoPacket /\ conn'.reads > 0
         /\ taken' = 0 /\ buffer' = <<>> /\ handled' = <<>>
<1>1. /\ Named /\ tracked' = TRUE /\ stats' = NoPacket /\ conn' = AsyncReadSome(conn)
      /\ UNCHANGED <<taken, buffer, handled>> /\ phase = "handshaking"
  BY DEF HandshakeDone, Established, Running
<1>2. conn'.reads = conn.reads + 1 /\ conn.reads \in Nat
  BY <1>1, ReadsAndWrites DEF TypeOK, Connection
<1>3. conn'.reads > 0
  BY <1>2
<1> QED BY <1>1, <1>3 DEF Unborn

(* The last packet that has been run has been sent. *)
LEMMA LastSent ==
  ASSUME TypeOK, InOrder, UpToDate, Established
  PROVE  /\ handled # <<>> => Len(handled) \in DOMAIN sent /\ Len(handled) > 0
                              /\ handled[Len(handled)] = Len(handled)
         /\ LastEnd \in Nat /\ Len(handled) \in Nat /\ Len(buffer) \in Nat
<1>1. Len(handled) \in Nat /\ Len(buffer) \in Nat
  BY DEF TypeOK
<1>2. ASSUME handled # <<>>
      PROVE  Len(handled) \in DOMAIN sent /\ handled[Len(handled)] = Len(handled)
             /\ Len(handled) > 0
  <2>1. Len(handled) \in DOMAIN handled /\ Len(handled) > 0
    BY <1>2 DEF TypeOK
  <2> QED BY <2>1 DEF InOrder, UpToDate
<1>3. LastEnd \in Nat
  BY <1>2, Ends DEF LastEnd
<1> QED BY <1>1, <1>2, <1>3

LEMMA UpToDateStep ==
  ASSUME TypeOK, Laid, Unborn, InOrder, UpToDate, [Next]_vars
  PROVE  UpToDate'
<1> SUFFICES ASSUME Established' PROVE UpToDate'
  BY DEF UpToDate
<1>1. CASE HandshakeDone
  <2>1. taken' = 0 /\ buffer' = <<>> /\ handled' = <<>>
    BY <1>1, Shaken
  <2>2. LastEnd' = 0 /\ (\A i \in DOMAIN handled : handled[i] = i)'
    BY <2>1 DEF LastEnd
  <2> QED BY <2>1, <2>2 DEF UpToDate
<1> SUFFICES ASSUME ~HandshakeDone PROVE UpToDate'
  BY <1>1
<1>2. Established /\ taken = LastEnd + Len(buffer) /\ \A i \in DOMAIN handled : handled[i] = i
  BY StillEstablished DEF UpToDate
<1>3. ASSUME handled' = handled PROVE LastEnd' = LastEnd
  <2>1. CASE handled = <<>>
    BY <1>3, <2>1 DEF LastEnd
  <2>2. CASE handled # <<>>
    <3>1. Len(handled) \in DOMAIN sent
      BY <1>2, <2>2, LastSent
    <3>2. sent'[Len(handled)] = sent[Len(handled)]
      BY <3>1, SentStays
    <3> QED BY <1>3, <2>2, <3>2 DEF LastEnd, End
  <2> QED BY <2>1, <2>2
<1>4. CASE handled' = handled /\ buffer' = buffer /\ taken' = taken
  BY <1>2, <1>3, <1>4 DEF UpToDate
<1>5. ASSUME NEW n \in 1 .. Unread, ReadSome(n)
      PROVE  UpToDate'
  <2>1. n \in Nat \ {0}
    BY StreamTyped
  <2>2. Completing(n) /\ Outcome(n)
    BY <1>5, <2>1, ReadOutcome
  <2>3. taken' = taken + n /\ sent' = sent
    BY <2>2 DEF Completing
  <2>4. ~Broken /\ ~Closing(conn') /\ proc' # "terminated"
    BY DEF Broken, Established, Running
  <2>5. /\ LastEnd \in Nat /\ Len(handled) \in Nat /\ Len(buffer) \in Nat
        /\ handled # <<>> => Len(handled) \in DOMAIN sent /\ Len(handled) > 0
    BY <1>2, LastSent
  <2>6. CASE Kept(n)
    <3>1. handled' = handled /\ Len(buffer') = Len(buffer) + n
      BY <2>1, <2>6, DeliveredBytes DEF Kept
    <3>2. taken' = LastEnd' + Len(buffer')
      BY <1>2, <1>3, <2>1, <2>3, <2>5, <3>1
    <3> QED BY <1>2, <3>1, <3>2 DEF UpToDate
  <2>7. ASSUME NEW i, Ran(n, i)
        PROVE  UpToDate'
    <3>0. PICK bytes \in Delivered(n) : i = PacketOf(Payload(bytes))
      BY <2>7 DEF Ran
    <3>1. i # 0 /\ buffer' = <<>> /\ handled' = Append(handled, i)
      BY <2>4, <2>7 DEF Ran
    <3>2. /\ i \in DOMAIN sent /\ End(sent[i]) = taken + n
          /\ Len(buffer) + n = HeaderSize + sent[i].size
      BY <2>1, <3>0, <3>1, PacketFound
    <3>3. sent[i].start \in Nat /\ sent[i].size \in Nat /\ i \in Nat
      BY <3>2, Ends
    <3>4. sent[i].start = LastEnd + 1
      BY <1>2, <2>1, <2>5, <3>2, <3>3, HeaderSizeAssumption DEF End
    <3>5. i = Len(handled) + 1
      <4>1. CASE handled = <<>>
        <5>1. sent[i].start = 1 /\ Len(handled) = 0
          BY <3>4, <4>1 DEF LastEnd
        <5> QED BY <2>5, <3>2, <5>1, NextPacket
      <4>2. CASE handled # <<>>
        <5>1. sent[i].start = End(sent[Len(handled)]) + 1
          BY <3>4, <4>2 DEF LastEnd
        <5> QED BY <2>5, <3>2, <4>2, <5>1, NextPacket
      <4> QED BY <4>1, <4>2
    <3>6. /\ handled' # <<>> /\ Len(handled') = i
          /\ \A j \in DOMAIN handled' : handled'[j] = j
      <4>1. handled \in Seq(Nat)
        BY DEF TypeOK
      <4> QED BY <1>2, <3>1, <3>3, <3>5, <4>1
    <3>7. LastEnd' = End(sent[i])
      BY <2>3, <3>6 DEF LastEnd, End
    <3>8. taken' = LastEnd' + Len(buffer')
      <4>1. Len(buffer') = 0 /\ taken' \in Nat
        BY <2>1, <2>3, <3>1 DEF TypeOK
      <4> QED BY <2>3, <3>2, <3>7, <4>1
    <3> QED BY <3>6, <3>8 DEF UpToDate
  <2> QED BY <2>2, <2>4, <2>6, <2>7 DEF Outcome
<1>6. CASE Answering
  BY <1>4, <1>6, AnsweringTyped
<1>7. CASE Client \/ HandshakeFailed \/ ReadFailed \/ UNCHANGED vars
  BY <1>4, <1>7 DEF Client, ClientSend, ClientContinue, ClientClose, HandshakeFailed, ReadFailed, vars,
                    routerVars
<1> QED BY <1>5, <1>6, <1>7 DEF Next, Read, Answering

-----------------------------------------------------------------------------
(* The statistics count what is in the buffer, and a read waits.           *)

LEMMA AccountedStep ==
  ASSUME TypeOK, Unborn, Accounted, [Next]_vars
  PROVE  Accounted'
<1> SUFFICES ASSUME Established', tracked' PROVE Accounted'
  BY DEF Accounted
<1>1. CASE HandshakeDone
  <2>1. buffer' = <<>> /\ stats' = NoPacket
    BY <1>1, Shaken
  <2> QED BY <2>1 DEF Accounted, NoPacket
<1> SUFFICES ASSUME ~HandshakeDone PROVE Accounted'
  BY <1>1
<1>2. Established
  BY StillEstablished
<1>3. CASE UNCHANGED <<buffer, stats, tracked>>
  BY <1>2, <1>3 DEF Accounted
<1>4. ASSUME NEW n \in 1 .. Unread, ReadSome(n)
      PROVE  Accounted'
  <2>1. n \in Nat \ {0}
    BY StreamTyped
  <2>2. Completing(n) /\ Outcome(n)
    BY <1>4, <2>1, ReadOutcome
  <2>3. ~Broken /\ ~Closing(conn') /\ Whole
    BY <2>2 DEF Broken, Established, Running, Outcome
  <2>4. tracked
    BY <2>3 DEF Whole
  <2>5. CASE Kept(n)
    <3>1. Len(buffer') = Len(buffer) + n
      BY <2>1, <2>5, DeliveredBytes DEF Kept
    <3>2. /\ stats'.receiving
          /\ stats'.received = IF stats.receiving THEN stats.received + n ELSE n - HeaderSize
      BY <2>3, <2>5 DEF Kept
    <3>3. Len(buffer) = IF stats.receiving THEN HeaderSize + stats.received ELSE 0
      BY <1>2, <2>4 DEF Accounted
    <3>4. stats.received \in Nat /\ stats.receiving \in BOOLEAN
      BY DEF TypeOK, Stats
    <3>5. CASE stats.receiving
      <4>1. stats'.received = stats.received + n
        BY <3>2, <3>5
      <4>2. Len(buffer) = HeaderSize + stats.received
        BY <3>3, <3>5
      <4>3. Len(buffer') = HeaderSize + stats'.received
        BY <2>1, <3>1, <3>4, <4>1, <4>2, HeaderSizeAssumption
      <4> QED BY <3>2, <4>3 DEF Accounted
    <3>6. CASE ~stats.receiving
      <4>1. stats'.received = n - HeaderSize
        BY <3>2, <3>6
      <4>2. Len(buffer) = 0
        BY <3>3, <3>6
      <4>3. Len(buffer') = HeaderSize + stats'.received
        BY <2>1, <3>1, <4>1, <4>2, HeaderSizeAssumption
      <4> QED BY <3>2, <4>3 DEF Accounted
    <3> QED BY <3>5, <3>6
  <2>6. ASSUME NEW i, Ran(n, i)
        PROVE  Accounted'
    <3>1. Len(buffer') = 0 /\ stats' = NoPacket
      BY <2>6 DEF Ran
    <3>2. stats'.receiving = FALSE
      BY <3>1 DEF NoPacket
    <3> QED BY <3>1, <3>2 DEF Accounted
  <2> QED BY <2>2, <2>3, <2>5, <2>6 DEF Outcome
<1>5. CASE Answering
  BY <1>3, <1>5, AnsweringTyped
<1>6. CASE Client \/ HandshakeFailed \/ ReadFailed \/ UNCHANGED vars
  BY <1>3, <1>6 DEF Client, ClientSend, ClientContinue, ClientClose, HandshakeFailed, ReadFailed, vars,
                    routerVars
<1> QED BY <1>4, <1>5, <1>6 DEF Next, Read, Answering

LEMMA ContinuedStep ==
  ASSUME TypeOK, Unborn, Continued, [Next]_vars
  PROVE  Continued'
<1> SUFFICES ASSUME Established', tracked', stats'.receiving, peer' \in {"open", "fin"}
             PROVE  conn'.reads > 0
  BY DEF Continued
<1>1. CASE HandshakeDone
  BY <1>1, Shaken
<1> SUFFICES ASSUME ~HandshakeDone PROVE conn'.reads > 0
  BY <1>1
<1>2. Established
  BY StillEstablished
<1>3. ASSUME UNCHANGED <<tracked, stats>>, peer \in {"open", "fin"}
      PROVE  conn.reads > 0
  BY <1>2, <1>3 DEF Continued
<1>4. ASSUME NEW n \in 1 .. Unread, ReadSome(n)
      PROVE  conn'.reads > 0
  <2>1. n \in Nat \ {0}
    BY StreamTyped
  <2>2. Completing(n) /\ Outcome(n)
    BY <1>4, <2>1, ReadOutcome
  <2>3. ~Broken /\ ~Closing(conn')
    BY DEF Broken, Established, Running
  <2>4. ASSUME NEW i PROVE ~Ran(n, i)
    BY DEF Ran, NoPacket
  <2> QED BY <2>2, <2>3, <2>4 DEF Outcome, Kept
<1>5. CASE Answering
  <2>1. UNCHANGED <<tracked, stats, peer>> /\ conn' \in Connection
    BY <1>5, AnsweringTyped
  <2>2. conn.reads > 0 /\ conn'.reads >= conn.reads
    BY <1>3, <1>5, <2>1, AnsweringKeeps
  <2>3. conn.reads \in Nat /\ conn'.reads \in Nat
    BY <2>1 DEF TypeOK, Connection
  <2> QED BY <2>2, <2>3
<1>6. CASE ReadFailed
  <2>1. peer' = peer
    BY <1>6 DEF ReadFailed
  <2> QED BY <1>6, <2>1 DEF ReadFailed, Established, Running
<1>7. CASE Client \/ HandshakeFailed \/ UNCHANGED vars
  <2>1. UNCHANGED <<tracked, stats, conn>> /\ peer \in {"open", "fin"}
    BY <1>7 DEF Client, ClientSend, ClientContinue, ClientClose, HandshakeFailed, vars, routerVars
  <2> QED BY <1>3, <2>1
<1> QED BY <1>4, <1>5, <1>6, <1>7 DEF Next, Read, Answering

LEMMA HeardStep ==
  ASSUME TypeOK, TypeOK', Unborn, InOrder, HeardUnlessConnectOrData, [Next]_vars
  PROVE  HeardUnlessConnectOrData'
<1> SUFFICES ASSUME Established', tracked', peer' = "open", conn'.reads = 0
             PROVE  (/\ handled # <<>>
                     /\ sent[handled[Len(handled)]].command \in {"connect", "data"})'
  BY DEF HeardUnlessConnectOrData
<1>1. ~HandshakeDone
  BY Shaken
<1>2. Established
  BY <1>1, StillEstablished
<1>3. ASSUME conn.reads = 0, UNCHANGED <<tracked, handled>>, peer = "open"
      PROVE  (/\ handled # <<>>
              /\ sent[handled[Len(handled)]].command \in {"connect", "data"})'
  <2>1. /\ handled # <<>>
        /\ sent[handled[Len(handled)]].command \in {"connect", "data"}
    BY <1>2, <1>3 DEF HeardUnlessConnectOrData
  <2>2. Len(handled) \in DOMAIN handled
    BY <2>1 DEF TypeOK
  <2>3. handled[Len(handled)] \in DOMAIN sent
    BY <2>2 DEF InOrder
  <2> QED BY <1>3, <2>1, <2>3, SentStays
<1>4. ASSUME NEW n \in 1 .. Unread, ReadSome(n)
      PROVE  (/\ handled # <<>>
              /\ sent[handled[Len(handled)]].command \in {"connect", "data"})'
  <2>1. n \in Nat \ {0}
    BY StreamTyped
  <2>2. Completing(n) /\ Outcome(n)
    BY <1>4, <2>1, ReadOutcome
  <2>3. ~Broken /\ ~Closing(conn') /\ proc' # "terminated" /\ sent' = sent
    BY <2>2 DEF Broken, Established, Running, Completing
  <2>4. ~Kept(n)
    BY <2>3 DEF Kept
  <2>5. PICK i : Ran(n, i)
    BY <2>2, <2>3, <2>4 DEF Outcome
  <2>6. i # 0 /\ handled' = Append(handled, i) /\ GoesOn(sent[i].command, AfterRead)
    BY <2>3, <2>5 DEF Ran
  <2>7. sent[i].command \in {"connect", "data"}
    BY <2>6 DEF GoesOn
  <2>8. handled \in Seq(Nat) /\ i \in Nat
    <3>1. i \in DOMAIN sent
      BY <2>1, <2>5, <2>6, PacketFound DEF Ran
    <3> QED BY <3>1, Ends DEF TypeOK
  <2>9. handled' # <<>> /\ handled'[Len(handled')] = i
    BY <2>6, <2>8
  <2> QED BY <2>3, <2>7, <2>9
<1>5. CASE Answering
  <2>1. UNCHANGED <<tracked, peer, handled>> /\ conn' \in Connection
    BY <1>5, AnsweringTyped
  <2>2. conn'.reads >= conn.reads /\ conn.reads \in Nat
    BY <1>5, AnsweringKeeps DEF TypeOK, Connection
  <2>3. conn.reads = 0
    BY <2>2
  <2> QED BY <1>3, <2>1, <2>3
<1>6. CASE ReadFailed
  <2>1. peer' = peer
    BY <1>6 DEF ReadFailed
  <2> QED BY <1>6, <2>1 DEF ReadFailed, Established, Running
<1>7. CASE Client \/ HandshakeFailed \/ UNCHANGED vars
  <2>1. UNCHANGED <<tracked, handled, conn>> /\ peer = "open"
    BY <1>7 DEF Client, ClientSend, ClientContinue, ClientClose, HandshakeFailed, vars, routerVars
  <2> QED BY <1>3, <2>1
<1> QED BY <1>1, <1>4, <1>5, <1>6, <1>7 DEF Next, Read, Answering

-----------------------------------------------------------------------------
(* The invariant and what follows from it.                                 *)

LEMMA InitIInv == Init => IInv
<1> SUFFICES ASSUME Init PROVE IInv
  OBVIOUS
<1>1. TypeOK
  <2>1. stats \in Stats /\ routes \in Routes
    BY DEF Init, Stats, NoPacket, Routes
  <2>2. conn \in Connection
    BY DEF Init, NewConnection, Connection
  <2>3. sent \in Seq(Packet) /\ buffer \in Seq(Nat) /\ handled \in Seq(Nat)
    BY DEF Init
  <2> QED BY <2>1, <2>2, <2>3 DEF Init, TypeOK
<1>2. Laid
  BY DEF Init, Laid
<1>3. Unborn /\ Forgotten
  BY DEF Init, Unborn, Forgotten
<1>4. InOrder
  BY DEF Init, InOrder
<1>5. UpToDate /\ Accounted /\ Continued /\ HeardUnlessConnectOrData
  BY DEF Init, UpToDate, Accounted, Continued, HeardUnlessConnectOrData, Established
<1> QED BY <1>1, <1>2, <1>3, <1>4, <1>5 DEF IInv

LEMMA StepIInv == IInv /\ [Next]_vars => IInv'
<1> SUFFICES ASSUME IInv, [Next]_vars PROVE IInv'
  OBVIOUS
<1>1. /\ TypeOK /\ Laid /\ Unborn /\ Forgotten /\ InOrder /\ UpToDate /\ Accounted
      /\ Continued /\ HeardUnlessConnectOrData
  BY DEF IInv
<1>2. TypeOK'
  BY <1>1, TypeStep
<1>3. Laid' /\ Unborn' /\ Forgotten'
  BY <1>1, LaidStep, UnbornStep, ForgottenStep
<1>4. InOrder' /\ UpToDate'
  BY <1>1, <1>2, InOrderStep, UpToDateStep
<1>5. Accounted' /\ Continued' /\ HeardUnlessConnectOrData'
  BY <1>1, <1>2, AccountedStep, ContinuedStep, HeardStep
<1> QED BY <1>2, <1>3, <1>4, <1>5 DEF IInv

(***************************************************************************)
(* The inductive invariant holds in every reachable state.                 *)
(***************************************************************************)
THEOREM Invariance == Spec => []IInv
BY InitIInv, StepIInv, PTL DEF Spec

(***************************************************************************)
(* Every variable keeps its type: no count of reads, writes, shutdowns or  *)
(* routes ever falls below zero.                                           *)
(***************************************************************************)
THEOREM TypeCorrect == Spec => []TypeOK
<1>1. IInv => TypeOK
  BY DEF IInv
<1> QED BY <1>1, Invariance, PTL

(***************************************************************************)
(* The handler of a read never meets a client without statistics           *)
(* (tunnel_endpoints.cpp 95-102).                                          *)
(***************************************************************************)
THEOREM StatsThere == Spec => []StatsAlwaysFound
<1>1. IInv => StatsAlwaysFound
  <2> SUFFICES ASSUME IInv, conn.reads > 0, Unread > 0, ~tracked PROVE FALSE
    BY DEF StatsAlwaysFound, IInv, TypeOK
  <2>1. phase = "ready"
    BY DEF IInv, Unborn, NewConnection
  <2>2. Unread = 0
    BY <2>1 DEF IInv, Forgotten
  <2> QED BY <2>2
<1> QED BY <1>1, Invariance, PTL

(***************************************************************************)
(* A packet of which part has been read is being read on, from a buffer    *)
(* that agrees with the statistics.                                        *)
(***************************************************************************)
THEOREM NeverStarved == Spec => []NeverStarvedMidPacket
<1>1. IInv => NeverStarvedMidPacket
  BY DEF IInv, Accounted, Continued, NeverStarvedMidPacket
<1> QED BY <1>1, Invariance, PTL

(***************************************************************************)
(* Packets are run in the order they were sent, once each, and until the   *)
(* connection is being closed none is passed over.                         *)
(***************************************************************************)
THEOREM AlwaysHandledAsSent == Spec => []HandledAsSent
<1>1. IInv => HandledAsSent
  <2> SUFFICES ASSUME IInv PROVE HandledAsSent
    OBVIOUS
  <2>1. \A i, j \in DOMAIN handled : i < j => handled[i] < handled[j]
    BY DEF IInv, InOrder
  <2>2. ASSUME Established, handled # <<>>, NEW i \in 1 .. handled[Len(handled)]
        PROVE  \E j \in DOMAIN handled : handled[j] = i
    <3>1. handled \in Seq(Nat) /\ Len(handled) \in DOMAIN handled
      BY <2>2 DEF IInv, TypeOK
    <3>2. handled[Len(handled)] = Len(handled)
      BY <2>2, <3>1 DEF IInv, UpToDate
    <3>3. i \in DOMAIN handled
      BY <3>1, <3>2
    <3> QED BY <2>2, <3>3 DEF IInv, UpToDate
  <2> QED BY <2>1, <2>2 DEF HandledAsSent
<1> QED BY <1>1, Invariance, PTL

(***************************************************************************)
(* Only "connect" and "data" leave a client without a read.                *)
(***************************************************************************)
THEOREM AlwaysHeard == Spec => []HeardUnlessConnectOrData
<1>1. IInv => HeardUnlessConnectOrData
  BY DEF IInv
<1> QED BY <1>1, Invariance, PTL

-----------------------------------------------------------------------------
(* The session that the handlers implement.                                *)

LEMMA StageOf ==
  ASSUME IInv
  PROVE  /\ phase = "handshaking" => Stage = "handshake"
         /\ phase # "handshaking" /\ ~tracked => Stage = "forgotten"
         /\ phase # "handshaking" /\ tracked =>
              /\ ~conn.open => Stage = "shut"
              /\ conn.open /\ conn.reads > 0 => Stage = "heard"
              /\ conn.open /\ conn.reads = 0 => Stage = "unheard"
<1>1. phase # "ready" => ~tracked
  BY DEF IInv, Unborn
<1> QED BY <1>1 DEF Stage

(* A step that leaves the client where it is. *)
LEMMA StageStays ==
  ASSUME IInv, IInv', UNCHANGED <<phase, tracked>>, conn'.open = conn.open,
         (conn'.reads > 0) = (conn.reads > 0)
  PROVE  Stage' = Stage
<1>0. conn.reads \in Nat /\ conn'.reads \in Nat
  BY DEF IInv, TypeOK, Connection
<1>1. conn'.reads = 0 <=> conn.reads = 0
  BY <1>0
<1> QED BY <1>0, <1>1 DEF Stage

LEMMA StageNext ==
  ASSUME IInv'
  PROVE  /\ phase' = "handshaking" => Stage' = "handshake"
         /\ phase' # "handshaking" /\ ~tracked' => Stage' = "forgotten"
         /\ phase' # "handshaking" /\ tracked' =>
              /\ ~conn'.open => Stage' = "shut"
              /\ conn'.open /\ conn'.reads > 0 => Stage' = "heard"
              /\ conn'.open /\ conn'.reads = 0 => Stage' = "unheard"
<1>1. phase' # "ready" => ~tracked'
  BY DEF IInv, Unborn
<1> QED BY <1>1 DEF Stage

(* The handler of a read: the client is listened to again, or not, or the  *)
(* process ends.                                                           *)
LEMMA ReadKeepsSession ==
  ASSUME IInv, IInv', NEW n \in 1 .. Unread, ReadSome(n)
  PROVE  [Session!Next]_(Session!vars)
<1>0. TypeOK /\ Unborn /\ n \in Nat \ {0}
  BY StreamTyped DEF IInv
<1>1. Completing(n) /\ Outcome(n)
  BY <1>0, ReadOutcome
<1>2. /\ Running /\ phase = "ready" /\ conn.reads > 0 /\ conn.open
      /\ UNCHANGED <<peer, phase, tracked>>
  BY <1>0, <1>1, OnlyReadyIsServed DEF Completing
<1>3. CASE Broken
  <2>1. Stage' = Stage /\ proc' = "terminated"
    BY <1>2, <1>3, StageStays DEF Broken
  <2> QED BY <1>2, <2>1 DEF Session!Next, Session!Terminate, Running
<1>4. CASE Whole
  <2>1. Stage = "heard" /\ peer # "reset"
    BY <1>2, <1>4, StageOf DEF Whole, Named
  <2>2. conn'.reads \in Nat /\ conn'.open = TRUE
    BY <1>4 DEF Whole, Connection
  <2>3. Stage' \in {"heard", "unheard"}
    BY <1>2, <1>4, <2>2, StageNext DEF Whole
  <2>4. CASE proc' = "terminated"
    BY <1>2, <2>1, <2>3, <2>4 DEF Session!Next, Session!Terminate, Running
  <2>5. CASE proc' = proc
    BY <1>2, <2>1, <2>3, <2>5 DEF Session!Next, Session!Listen, Session!vars, Running
  <2> QED BY <1>4, <2>4, <2>5 DEF Whole
<1> QED BY <1>1, <1>3, <1>4 DEF Outcome

(* The other completions.                                                  *)
LEMMA ReadFailedKeepsSession ==
  ASSUME IInv, IInv', ReadFailed
  PROVE  [Session!Next]_(Session!vars)
<1>0. /\ TypeOK /\ Unborn /\ conn \in Connection /\ Running /\ conn.reads > 0
      /\ UNCHANGED <<peer, phase>>
  BY DEF IInv, TypeOK, ReadFailed
<1>1. phase = "ready"
  BY <1>0, OnlyReadyIsServed
<1>2. CASE ~Named
  <2>1. UNCHANGED <<tracked, conn>> /\ proc' = "terminated"
    BY <1>2 DEF ReadFailed
  <2>2. Stage' = Stage
    BY <1>0, <2>1, StageStays
  <2> QED BY <1>0, <2>1, <2>2 DEF Session!Next, Session!Terminate, Running
<1>3. CASE Named
  <2>1. proc' = proc /\ conn' = AfterRead /\ conn.open /\ peer # "reset"
    BY <1>3 DEF ReadFailed, Named
  <2>2. conn' \in Connection /\ Alike(conn', conn)
    BY <1>0, <2>1, ReadsAndWrites DEF AfterRead
  <2>3. conn'.reads \in Nat /\ conn'.open = conn.open
    BY <2>2 DEF Connection, Alike
  <2>4. CASE ~tracked
    <3>1. ~tracked'
      BY <1>3, <2>4 DEF ReadFailed
    <3>2. Stage = "forgotten" /\ Stage' = "forgotten"
      BY <1>0, <1>1, <2>4, <3>1, StageOf, StageNext
    <3> QED BY <1>0, <2>1, <3>2 DEF Session!vars
  <2>5. CASE tracked /\ peer = "fin"
    <3>1. tracked' = FALSE
      BY <1>3, <2>5 DEF ReadFailed
    <3>2. Stage = "heard" /\ Stage' = "forgotten"
      BY <1>0, <1>1, <2>1, <2>5, <3>1, StageOf, StageNext
    <3> QED BY <1>0, <2>1, <2>5, <3>2 DEF Session!Next, Session!Forget, Running
  <2>6. CASE tracked /\ peer # "fin"
    <3>1. tracked' = tracked
      BY <1>3, <2>6 DEF ReadFailed
    <3>2. Stage = "heard" /\ Stage' \in {"heard", "unheard"}
      BY <1>0, <1>1, <2>1, <2>3, <2>6, <3>1, StageOf, StageNext
    <3> QED BY <1>0, <2>1, <3>2 DEF Session!Next, Session!Listen, Session!vars, Running
  <2> QED BY <2>4, <2>5, <2>6
<1> QED BY <1>2, <1>3

LEMMA AnsweringKeepsSession ==
  ASSUME IInv, IInv', Answering
  PROVE  [Session!Next]_(Session!vars)
<1>0. /\ TypeOK /\ Unborn /\ conn \in Connection /\ conn.reads \in Nat /\ Running
      /\ phase = "ready" /\ UNCHANGED <<peer, phase, tracked>>
      /\ conn' \in Connection
      /\ proc' \in {"running", "terminated"}
  BY OnlyReadyIsServed, AnsweringTyped DEF IInv, TypeOK, Connection
<1>1. ASSUME conn'.open = conn.open, conn'.reads = conn.reads
      PROVE  [Session!Next]_(Session!vars)
  <2>1. Stage' = Stage
    BY <1>0, <1>1, StageStays
  <2>2. CASE proc' = proc
    BY <1>0, <2>1, <2>2 DEF Session!vars
  <2>3. CASE proc' = "terminated"
    BY <1>0, <2>1, <2>3 DEF Session!Next, Session!Terminate, Running
  <2> QED BY <1>0, <2>2, <2>3 DEF Running
<1>2. CASE WriteDone
  <2>1. conn' = WriteCompleted(conn) /\ conn.writes > 0
    BY <1>2 DEF WriteDone
  <2>2. Alike(conn', conn) /\ conn'.reads = conn.reads
    BY <1>0, <2>1, ReadsAndWrites
  <2> QED BY <1>1, <2>2 DEF Alike
<1>3. CASE ErrorWriteDone
  <2>1. conn' = ErrorWriteCompleted(conn) /\ conn.errorWrites > 0
    BY <1>3 DEF ErrorWriteDone
  <2>2. conn'.open = conn.open /\ conn'.reads = conn.reads
    BY <1>0, <2>1, Endings
  <2> QED BY <1>1, <2>2
<1>4. CASE ShutdownDone
  <2>1. conn' = ShutdownCompleted(conn) /\ conn.shutdowns > 0
        /\ (proc' = proc \/ (~Held /\ proc' = "terminated"))
    BY <1>4 DEF ShutdownDone
  <2>2. conn'.open = FALSE
    BY <1>0, <2>1, Endings
  <2>3. CASE ~tracked
    <3>1. Stage = "forgotten" /\ Stage' = "forgotten"
      BY <1>0, <2>3, StageOf, StageNext
    <3> QED BY <1>0, <2>1, <3>1 DEF Session!Next, Session!Terminate, Session!vars, Running
  <2>4. CASE tracked
    <3>1. proc' = proc
      BY <2>1, <2>4 DEF Held
    <3>2. Stage \in {"heard", "unheard", "shut"}
      <4>1. conn.reads > 0 \/ conn.reads = 0
        BY <1>0
      <4> QED BY <1>0, <2>4, <4>1, StageOf
    <3>3. Stage' = "shut"
      BY <1>0, <2>2, <2>4, StageNext
    <3> QED BY <1>0, <3>1, <3>2, <3>3 DEF Session!Next, Session!Shut, Session!vars, Running
  <2> QED BY <2>3, <2>4
<1>5. CASE ConnectDone
  <2>1. CASE ~Named
    <3>1. conn' = conn
      BY <1>5, <2>1 DEF ConnectDone
    <3> QED BY <1>1, <3>1
  <2>2. CASE Named
    <3>1. conn' = AsyncReadSome(AsyncWrite(conn)) /\ proc' = proc /\ conn.open /\ peer # "reset"
      BY <1>5, <2>2 DEF ConnectDone, Named
    <3> DEFINE d == AsyncWrite(conn)
    <3>2. d \in Connection /\ Alike(d, conn) /\ d.reads = conn.reads
      BY <1>0, ReadsAndWrites
    <3>3. conn' = AsyncReadSome(d)
      BY <3>1
    <3> HIDE DEF d
    <3>4. Alike(conn', d) /\ conn'.reads = d.reads + 1
      BY <3>2, <3>3, ReadsAndWrites
    <3>5. conn'.reads > 0 /\ conn'.open = conn.open
      BY <1>0, <3>2, <3>4 DEF Alike
    <3>6. CASE ~tracked
      <4>1. Stage = "forgotten" /\ Stage' = "forgotten"
        BY <1>0, <3>6, StageOf, StageNext
      <4> QED BY <1>0, <3>1, <4>1 DEF Session!vars
    <3>7. CASE tracked
      <4>1. Stage' = "heard"
        BY <1>0, <3>1, <3>5, <3>7, StageNext
      <4>2. conn.reads > 0 \/ conn.reads = 0
        BY <1>0
      <4>3. Stage \in {"heard", "unheard"}
        BY <1>0, <3>1, <3>7, <4>2, StageOf
      <4> QED BY <1>0, <3>1, <4>1, <4>3 DEF Session!Next, Session!Resume, Session!vars, Running
    <3> QED BY <3>6, <3>7
  <2> QED BY <2>1, <2>2
<1>6. CASE ConnectFailed \/ RouteClosed
  BY <1>1, <1>6 DEF ConnectFailed, RouteClosed
<1> QED BY <1>2, <1>3, <1>4, <1>5, <1>6 DEF Answering

(***************************************************************************)
(* The handlers of one client implement ClientSession: whatever reads,     *)
(* answers and shutdowns overlap, its entry leaves stats_table only when a *)
(* read finds close_notify, and does not come back.                        *)
(***************************************************************************)
THEOREM SessionKept == Spec => KeepsSession
<1>1. Init => Session!Init
  BY InitIInv, StageOf DEF Init, Session!Init
<1>2. IInv /\ IInv' /\ [Next]_vars => [Session!Next]_(Session!vars)
  <2> SUFFICES ASSUME IInv, IInv', [Next]_vars PROVE [Session!Next]_(Session!vars)
    OBVIOUS
  <2>1. CASE Client
    <3>1. Running /\ UNCHANGED <<phase, tracked, conn, proc>>
      BY <2>1 DEF Client, ClientSend, ClientContinue, ClientClose, routerVars
    <3>2. Stage' = Stage
      BY <3>1, StageStays
    <3>3. \/ peer' = peer
          \/ peer = "open" /\ peer' \in {"fin", "cut", "reset"}
          \/ peer \in {"fin", "cut"} /\ peer' = "reset"
      <4>1. peer \in {"open", "fin", "cut", "reset"}
        BY DEF IInv, TypeOK
      <4>2. CASE \E how \in {"fin", "cut", "reset"} : ClientClose(how)
        BY <4>1, <4>2 DEF ClientClose
      <4> QED BY <2>1, <4>2 DEF Client, ClientSend, ClientContinue
    <3> QED BY <3>1, <3>2, <3>3 DEF Session!Next, Session!Leave, Session!vars, Running
  <2>2. CASE HandshakeDone
    <3>1. Stage = "handshake" /\ Running /\ peer' = peer
      BY <2>2, StageOf DEF HandshakeDone
    <3>2. CASE Named
      <4>1. /\ phase' = "ready" /\ tracked' = TRUE /\ proc' = proc
            /\ conn' = AsyncReadSome(conn) /\ conn.open /\ peer # "reset"
        BY <2>2, <3>2 DEF HandshakeDone, Named
      <4>2. conn'.reads = conn.reads + 1 /\ conn.reads \in Nat /\ conn'.open = conn.open
        BY <4>1, ReadsAndWrites DEF IInv, TypeOK, Connection, Alike
      <4>3. conn'.reads > 0
        BY <4>2
      <4>4. Stage' = "heard"
        BY <4>1, <4>2, <4>3, StageNext
      <4> QED BY <3>1, <4>1, <4>4 DEF Session!Next, Session!Shake, Running
    <3>3. CASE ~Named
      <4>1. UNCHANGED <<phase, tracked, conn>> /\ proc' = "terminated"
        BY <2>2, <3>3 DEF HandshakeDone
      <4>2. Stage' = Stage
        BY <4>1, StageStays
      <4> QED BY <3>1, <4>1, <4>2 DEF Session!Next, Session!Terminate, Running
    <3> QED BY <3>2, <3>3
  <2>3. CASE HandshakeFailed
    <3>1. Stage = "handshake" /\ Running /\ UNCHANGED <<peer, tracked, conn>> /\ ~tracked
      BY <2>3, StageOf DEF HandshakeFailed, IInv, Unborn
    <3>2. CASE Named
      <4>1. phase' = "failed" /\ proc' = proc /\ peer # "reset"
        BY <2>3, <3>2 DEF HandshakeFailed, Named
      <4>2. Stage' = "forgotten"
        BY <3>1, <4>1, StageNext
      <4> QED BY <3>1, <4>1, <4>2 DEF Session!Next, Session!Shake, Running
    <3>3. CASE ~Named
      <4>1. phase' = phase /\ proc' = "terminated"
        BY <2>3, <3>3 DEF HandshakeFailed
      <4>2. Stage' = Stage
        BY <3>1, <4>1, StageStays
      <4> QED BY <3>1, <4>1, <4>2 DEF Session!Next, Session!Terminate, Running
    <3> QED BY <3>2, <3>3
  <2>4. CASE Read
    BY <2>4, ReadKeepsSession DEF Read
  <2>5. CASE ReadFailed
    BY <2>5, ReadFailedKeepsSession
  <2>6. CASE Answering
    BY <2>6, AnsweringKeepsSession
  <2>7. CASE UNCHANGED vars
    <3>1. UNCHANGED <<phase, tracked, conn, peer, proc>>
      BY <2>7 DEF vars, routerVars
    <3>2. Stage' = Stage
      BY <3>1, StageStays
    <3> QED BY <3>1, <3>2 DEF Session!vars
  <2> QED BY <2>1, <2>2, <2>3, <2>4, <2>5, <2>6, <2>7 DEF Next, Answering
<1> QED BY <1>1, <1>2, Invariance, PTL DEF Spec, KeepsSession, Session!Spec

-----------------------------------------------------------------------------
(* The routes, as tunnel_exit knows them.                                  *)

(* A handler of the router asks for one route more, or leaves them alone. *)
LEMMA ReadAsks ==
  ASSUME NEW n, ReadSome(n)
  PROVE  \/ routes' = routes
         \/ routes' = [routes EXCEPT !.pending = @ + 1] /\ proc' = proc
<1>1. ASSUME NEW command, NEW c, NEW again, Handle(command, c, again)
      PROVE  \/ routes' = routes
             \/ routes' = [routes EXCEPT !.pending = @ + 1] /\ proc' = proc
  BY <1>1 DEF Handle, HandleStartTunnel, HandleConnect, HandleData, Reject, Terminated
<1>2. ASSUME NEW bytes, NEW c, NEW again, PacketIn(bytes, c, again)
      PROVE  \/ routes' = routes
             \/ routes' = [routes EXCEPT !.pending = @ + 1] /\ proc' = proc
  BY <1>1, <1>2 DEF PacketIn
<1>3. ASSUME NEW bytes,
             ReadPart(n, bytes) \/ ReadRejected(n, bytes) \/ ReadStart(n, bytes)
      PROVE  routes' = routes
  BY <1>3 DEF ReadPart, ReadRejected, ReadStart
<1>4. ASSUME NEW bytes,
             ReadLast(n, bytes) \/ ReadAfterOverfull(n, bytes) \/ ReadWhole(n, bytes)
      PROVE  \/ routes' = routes
             \/ routes' = [routes EXCEPT !.pending = @ + 1] /\ proc' = proc
  BY <1>2, <1>4 DEF ReadLast, ReadAfterOverfull, ReadWhole
<1>5. CASE ReadBreaks(n)
  BY <1>5 DEF ReadBreaks
<1> QED BY <1>3, <1>4, <1>5 DEF ReadSome

(* A handler that leaves the routes alone may lose the client's address.  *)
LEMMA UnroutedKeeps ==
  ASSUME Running, routes' = routes, Named' => Named, proc' = proc
  PROVE  [Routing!Next]_(Routing!vars)
<1>1. Named \in BOOLEAN /\ Named' \in BOOLEAN
  BY DEF Named
<1> QED BY <1>1 DEF Routing!Next, Routing!Leave, Routing!vars, Running

LEMMA TerminationKeeps ==
  ASSUME Running, routes' = routes, Named' => Named, proc' = "terminated"
  PROVE  [Routing!Next]_(Routing!vars)
<1>1. Named \in BOOLEAN /\ Named' \in BOOLEAN
  BY DEF Named
<1> QED BY <1>1 DEF Routing!Next, Routing!Terminate, Running

LEMMA AnsweringKeepsRoutes ==
  ASSUME IInv, Answering
  PROVE  [Routing!Next]_(Routing!vars)
<1>0. /\ TypeOK /\ Unborn /\ conn \in Connection /\ routes \in Routes /\ Running
      /\ peer' = peer
  BY OnlyReadyIsServed, AnsweringTyped DEF IInv, TypeOK
<1>1. CASE WriteDone
  <2>1. conn' = WriteCompleted(conn) /\ conn.writes > 0 /\ UNCHANGED <<routes, proc>>
    BY <1>1 DEF WriteDone
  <2>2. conn'.open = conn.open
    BY <1>0, <2>1, ReadsAndWrites DEF Alike
  <2> QED BY <1>0, <2>1, <2>2, UnroutedKeeps DEF Named
<1>2. CASE ErrorWriteDone
  <2>1. conn' = ErrorWriteCompleted(conn) /\ conn.errorWrites > 0 /\ UNCHANGED <<routes, proc>>
    BY <1>2 DEF ErrorWriteDone
  <2>2. conn'.open = conn.open
    BY <1>0, <2>1, Endings
  <2> QED BY <1>0, <2>1, <2>2, UnroutedKeeps DEF Named
<1>3. CASE ShutdownDone
  <2>1. conn' = ShutdownCompleted(conn) /\ conn.shutdowns > 0 /\ UNCHANGED routes
        /\ (proc' = proc \/ proc' = "terminated")
    BY <1>3 DEF ShutdownDone
  <2>2. conn'.open = FALSE
    BY <1>0, <2>1, Endings
  <2> QED BY <1>0, <2>1, <2>2, UnroutedKeeps, TerminationKeeps DEF Named
<1>4. CASE ConnectDone /\ Named
  <2>1. /\ routes' = [routes EXCEPT !.pending = @ - 1, !.live = @ + 1]
        /\ conn' = AsyncReadSome(AsyncWrite(conn)) /\ proc' = proc /\ routes.pending > 0
    BY <1>4 DEF ConnectDone
  <2> DEFINE d == AsyncWrite(conn)
  <2>2. d \in Connection /\ d.open = conn.open /\ conn' = AsyncReadSome(d)
    BY <1>0, <2>1, ReadsAndWrites DEF Alike
  <2> HIDE DEF d
  <2>3. Named' = Named
    BY <1>0, <2>2, ReadsAndWrites DEF Alike, Named
  <2>4. /\ routes'.pending = routes.pending - 1 /\ routes'.live = routes.live + 1
        /\ routes'.dead = routes.dead
    BY <1>0, <2>1 DEF Routes
  <2> QED BY <1>0, <1>4, <2>1, <2>3, <2>4 DEF Routing!Next, Routing!Tell, Running
<1>5. CASE ConnectDone /\ ~Named
  <2>1. proc' = "terminated" /\ UNCHANGED <<routes, conn>>
    BY <1>5 DEF ConnectDone
  <2> QED BY <1>0, <2>1, TerminationKeeps DEF Named
<1>6. CASE ConnectFailed
  <2>1. /\ routes' = [routes EXCEPT !.pending = @ - 1, !.dead = @ + 1]
        /\ UNCHANGED <<conn, proc>> /\ routes.pending > 0
    BY <1>6 DEF ConnectFailed
  <2>2. /\ routes'.pending = routes.pending - 1 /\ routes'.live = routes.live
        /\ routes'.dead = routes.dead + 1 /\ Named' = Named
    BY <1>0, <2>1 DEF Routes, Named
  <2> QED BY <1>0, <2>1, <2>2 DEF Routing!Next, Routing!Refuse, Running
<1>7. CASE RouteClosed
  <2>1. UNCHANGED conn /\ routes.live > 0
        /\ \/ routes' = [routes EXCEPT !.live = @ - 1] /\ proc' = proc
           \/ proc' = "terminated" /\ UNCHANGED routes
    BY <1>7 DEF RouteClosed
  <2>2. Named' = Named
    BY <1>0, <2>1 DEF Named
  <2>3. CASE proc' = "terminated" /\ UNCHANGED routes
    BY <1>0, <2>2, <2>3, TerminationKeeps
  <2>4. CASE routes' = [routes EXCEPT !.live = @ - 1] /\ proc' = proc
    <3>1. /\ routes'.pending = routes.pending /\ routes'.live = routes.live - 1
          /\ routes'.dead = routes.dead
      BY <1>0, <2>4 DEF Routes
    <3> QED BY <1>0, <2>1, <2>2, <2>4, <3>1 DEF Routing!Next, Routing!Close, Running
  <2> QED BY <2>1, <2>3, <2>4
<1> QED BY <1>1, <1>2, <1>3, <1>4, <1>5, <1>6, <1>7 DEF Answering

LEMMA ReadKeepsRoutes ==
  ASSUME IInv, NEW n \in 1 .. Unread, ReadSome(n)
  PROVE  [Routing!Next]_(Routing!vars)
<1>0. TypeOK /\ Unborn /\ n \in Nat \ {0} /\ routes \in Routes
  BY StreamTyped DEF IInv, TypeOK
<1>1. Completing(n) /\ Outcome(n)
  BY <1>0, ReadOutcome
<1>2. Running /\ UNCHANGED peer
  BY <1>1 DEF Completing
<1>3. CASE Broken
  <2>1. proc' = "terminated" /\ UNCHANGED <<routes, conn>>
    BY <1>3 DEF Broken
  <2> QED BY <1>2, <2>1, TerminationKeeps DEF Named
<1>4. CASE Whole
  <2>1. Named' = Named /\ Named = TRUE /\ (proc' = proc \/ proc' = "terminated")
    BY <1>2, <1>4 DEF Whole, Named
  <2>2. CASE routes' = routes
    BY <1>2, <2>1, <2>2, UnroutedKeeps, TerminationKeeps
  <2>3. CASE routes' = [routes EXCEPT !.pending = @ + 1] /\ proc' = proc
    <3>1. /\ routes'.pending = routes.pending + 1 /\ routes'.live = routes.live
          /\ routes'.dead = routes.dead
      BY <1>0, <2>3 DEF Routes
    <3> QED BY <1>2, <2>1, <2>3, <3>1 DEF Routing!Next, Routing!Ask, Running
  <2> QED BY <2>2, <2>3, ReadAsks
<1> QED BY <1>1, <1>3, <1>4 DEF Outcome

(***************************************************************************)
(* The handlers of one client implement ClientRoutes: what TunnelEntry     *)
(* takes from its environment is what TunnelExit is proved to give         *)
(* (ClientRoutes_proofs), and a client asks for routes while it can be     *)
(* named and the process runs, and not otherwise.                          *)
(***************************************************************************)
THEOREM RoutesKept == Spec => KeepsRoutes
<1>1. Init => Routing!Init
  BY DEF Init, Routing!Init, Named, NewConnection
<1>2. IInv /\ [Next]_vars => [Routing!Next]_(Routing!vars)
  <2> SUFFICES ASSUME IInv, [Next]_vars PROVE [Routing!Next]_(Routing!vars)
    OBVIOUS
  <2>1. CASE Client
    <3>1. /\ Running /\ UNCHANGED <<conn, routes, proc>>
          /\ peer' = peer \/ peer # "reset"
      BY <2>1 DEF Client, ClientSend, ClientContinue, ClientClose, routerVars
    <3> QED BY <3>1, UnroutedKeeps DEF Named
  <2>2. CASE HandshakeDone
    <3>0. Running /\ UNCHANGED <<routes, peer>> /\ conn \in Connection
      BY <2>2 DEF HandshakeDone, IInv, TypeOK
    <3>1. CASE Named
      <4>1. conn' = AsyncReadSome(conn) /\ proc' = proc
        BY <2>2, <3>1 DEF HandshakeDone
      <4> QED BY <3>0, <3>1, <4>1, UnroutedKeeps
    <3>2. CASE ~Named
      <4>1. UNCHANGED conn /\ proc' = "terminated"
        BY <2>2, <3>2 DEF HandshakeDone
      <4> QED BY <3>0, <4>1, TerminationKeeps DEF Named
    <3> QED BY <3>1, <3>2
  <2>3. CASE HandshakeFailed
    <3>1. /\ Running /\ UNCHANGED <<conn, routes, peer>>
          /\ proc' = proc \/ proc' = "terminated"
      BY <2>3 DEF HandshakeFailed
    <3> QED BY <3>1, UnroutedKeeps, TerminationKeeps DEF Named
  <2>4. CASE Read
    BY <2>4, ReadKeepsRoutes DEF Read
  <2>5. CASE ReadFailed
    <3>0. Running /\ UNCHANGED <<routes, peer>> /\ conn \in Connection /\ conn.reads > 0
      BY <2>5 DEF ReadFailed, IInv, TypeOK
    <3>1. CASE Named
      <4>1. conn' = AfterRead /\ proc' = proc
        BY <2>5, <3>1 DEF ReadFailed
      <4> QED BY <3>0, <3>1, <4>1, UnroutedKeeps
    <3>2. CASE ~Named
      <4>1. UNCHANGED conn /\ proc' = "terminated"
        BY <2>5, <3>2 DEF ReadFailed
      <4> QED BY <3>0, <4>1, TerminationKeeps DEF Named
    <3> QED BY <3>1, <3>2
  <2>6. CASE Answering
    BY <2>6, AnsweringKeepsRoutes
  <2>7. CASE UNCHANGED vars
    <3>1. UNCHANGED <<conn, routes, peer, proc>>
      BY <2>7 DEF vars, routerVars
    <3> QED BY <3>1 DEF Routing!vars, Named
  <2> QED BY <2>1, <2>2, <2>3, <2>4, <2>5, <2>6, <2>7 DEF Next, Answering
<1> QED BY <1>1, <1>2, Invariance, PTL DEF Spec, KeepsRoutes, Routing!Spec
=============================================================================
