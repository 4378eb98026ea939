------------------------ MODULE DebugClient_proofs ------------------------
(***************************************************************************)
(* Proofs about DebugClient, for any amounts that arrive at a time, any    *)
(* length of the stream and any room for writes: as long as no write to    *)
(* the client was late, it prints what the target sends and never ends by  *)
(* itself.                                                                 *)
(*                                                                         *)
(* It comes down to numbers (FramesFit): what one read of the target takes *)
(* makes a frame that one read of the client takes.  The rest says which   *)
(* requests and answers are on their way while the client is being set up  *)
(* (SetUp, Answered), who reads (Reading), that what has been printed,     *)
(* what is on its way and what has been taken from the target follow one   *)
(* another (Following), and that every byte received is paid for by what   *)
(* was taken (PaidFor), so that the client's counter does not overflow.    *)
(***************************************************************************)
EXTENDS DebugClient, TLAPS

BeingSetUp == pc \in {"begin", "introduced", "connecting"}
Idle == exit.reads = 0 /\ exit.writes = 0
Connected == target \in {"up", "finished", "reset"}

(* The stretches of s follow one another, from a to b. *)
Chain(s, a, b) ==
  /\ \A i \in 1 .. Len(s) :
       s[i].first = IF i = 1 THEN a ELSE s[i - 1].first + s[i - 1].size
  /\ b = IF Len(s) = 0 THEN a ELSE s[Len(s)].first + s[Len(s)].size

(* A record that carries bytes of the stream, or has been made of memory   *)
(* in place of one that did, is that of one read and has not been begun.   *)
Carries(r) == r.size > 0

Whole(r) ==
  Carries(r) => r.read = 0 /\ r.size \in 1 .. MaxRead /\ r.len = FrameSize(r.size)

FramesWhole == \A i \in 1 .. Len(wire) : Whole(wire[i])
OnlyFrames == \A i \in 1 .. Len(wire) : wire[i].kind = "frame"

(* Who reads, and who is about to. *)
Reading ==
  /\ target = "connecting" => entry.reads = 0
  /\ entry.reads <= 1
  /\ exit.reads + exit.writes <= 1
  /\ BeingSetUp => Idle /\ request # "data"
  /\ request = "data" => Idle

(* What is on its way while the client waits for an answer, and after: at  *)
(* most the record of that answer, and then only records of the stream.    *)
Begun == pc = "begin" => wire = <<>> /\ request = "none" /\ target = "none"

Introduced ==
  pc = "introduced" =>
    /\ target = "none"
    /\ \/ request = "start_tunnel" /\ wire = <<>>
       \/ request = "none" /\ Len(wire) <= 1

Connecting ==
  pc = "connecting" =>
    \/ request = "connect" /\ wire = <<>> /\ target = "none"
    \/ request = "none" /\ wire = <<>> /\ target \in {"none", "connecting", "refused"}
    \/ request = "none" /\ Len(wire) <= 1 /\ Connected

Listening ==
  pc = "listening" => /\ Connected /\ request \in {"none", "data"}
                      /\ \A i \in 1 .. Len(wire) : Carries(wire[i])

SetUp ==
  /\ Begun /\ Introduced /\ Connecting /\ Listening
  /\ BeingSetUp => taken = 0 /\ shown = <<>> /\ resize_buf = <<>>

(* The record is the answer itself, as long as no write was late. *)
Answered ==
  ~late =>
    /\ pc = "introduced" => wire \in {<<>>, <<Answer("start_tunnel")>>}
    /\ pc = "connecting" => wire \in {<<>>, <<Answer("connect")>>}
    /\ pc # "broken"

(* Printed, on its way, taken. *)
Following ==
  ~late => \E m \in Nat :
             /\ Chain(shown, 0, m)
             /\ pc = "listening" => /\ Chain(wire, m, taken) /\ OnlyFrames
                                    /\ resize_buf = <<>>

(* What the client has received is paid for by what was taken from the     *)
(* target before what the records on their way carry, or were to carry,    *)
(* which does not overlap.                                                 *)
IsFrame(i) == i \in 1 .. Len(wire) /\ Carries(wire[i])

PaidFor ==
  /\ received <= BufferSize * taken
  /\ \A i \in Nat : IsFrame(i) => /\ received <= BufferSize * wire[i].first
                                  /\ wire[i].first + wire[i].size <= taken
  /\ \A i, j \in Nat : IsFrame(i) /\ IsFrame(j) /\ i < j =>
       wire[i].first + wire[i].size <= wire[j].first

IInv == TypeOK /\ FramesWhole /\ PaidFor /\ Reading /\ SetUp /\ Answered /\ Following

-----------------------------------------------------------------------------
(* Sizes.                                                                  *)

(* The size of a base64 text, without the codec's generality. *)
LEMMA TextSizes ==
  ASSUME NEW n \in Nat
  PROVE  /\ encoded_size(base64_rfc4648, TokenSize) = 88
         /\ TextSize(n) \in Nat
         /\ TextSize(n) = 155 + (((n + 2) - ((n + 2) % 3)) * 4) \div 3
<1> DEFINE v == base64_rfc4648
<1>1. v.generates_padding = TRUE /\ v.family = "base64"
  BY DEF base64_rfc4648, Variant
<1>2. binary_block_size(v) = 3 /\ encoded_block_size(v) = 4
  BY <1>1 DEF binary_block_size, encoded_block_size
<1>3. \A k \in Nat : encoded_size(v, k) = (((k + 2) - ((k + 2) % 3)) * 4) \div 3
  BY <1>1, <1>2 DEF encoded_size
<1> HIDE DEF v
<1>4. encoded_size(v, 64) = 88
  BY <1>3
<1>5. encoded_size(v, n) = (((n + 2) - ((n + 2) % 3)) * 4) \div 3
  BY <1>3
<1>6. TextSize(n) = 67 + encoded_size(v, 64) + encoded_size(v, n)
  BY DEF TextSize, WordingSize, TokenSize, v
<1> QED BY <1>4, <1>5, <1>6 DEF TokenSize, v

(***************************************************************************)
(* What one read of a target takes, at most MaxRead bytes, makes a text    *)
(* whose length its header can say, and a frame that one read of the       *)
(* client's buffer takes, zeros included.                                  *)
(***************************************************************************)
THEOREM FramesFit ==
  ASSUME NEW n \in 1 .. MaxRead
  PROVE  /\ TextSize(n) \in Nat
         /\ HeaderLength(n) = TextSize(n)
         /\ FrameSize(n) \in Nat
         /\ HeaderSize + TextSize(n) < FrameSize(n)
         /\ FrameSize(n) <= BufferSize
<1>1. n \in Nat /\ 1 <= n /\ n <= 512
  BY DEF MaxRead
<1>2. TextSize(n) \in Nat /\ TextSize(n) >= 155 /\ TextSize(n) <= 1000
  BY <1>1, TextSizes
<1>3. FrameSize(n) = 6 + 2 * TextSize(n) /\ HeaderSize = 6 /\ BufferSize = 2048
  BY DEF FrameSize, HeaderSize, BufferSize
<1>4. HeaderLength(n) = TextSize(n)
  BY <1>2 DEF HeaderLength
<1> QED BY <1>2, <1>3, <1>4

-----------------------------------------------------------------------------
(* Stretches that follow one another.                                      *)

LEMMA ChainAppend ==
  ASSUME NEW T, NEW s \in Seq(T), NEW a, NEW b, NEW r \in T,
         Chain(s, a, b), r.first = b
  PROVE  Chain(Append(s, r), a, b + r.size)
<1> DEFINE q == Append(s, r)
<1>1. Len(q) = Len(s) + 1 /\ Len(s) \in Nat /\ q[Len(q)] = r
  OBVIOUS
<1>2. \A i \in 1 .. Len(s) : q[i] = s[i]
  OBVIOUS
<1> HIDE DEF q
<1>3. ASSUME NEW i \in 1 .. Len(q)
      PROVE  q[i].first = IF i = 1 THEN a ELSE q[i - 1].first + q[i - 1].size
  <2>1. CASE i = Len(q)
    BY <1>1, <1>2, <2>1 DEF Chain
  <2>2. CASE i # Len(q)
    BY <1>1, <1>2, <2>2 DEF Chain
  <2> QED BY <2>1, <2>2
<1>4. b + r.size = IF Len(q) = 0 THEN a ELSE q[Len(q)].first + q[Len(q)].size
  BY <1>1
<1> QED BY <1>3, <1>4 DEF Chain, q

LEMMA ChainTail ==
  ASSUME NEW T, NEW s \in Seq(T), NEW a, NEW b, s # <<>>, Chain(s, a, b)
  PROVE  /\ Head(s).first = a
         /\ Chain(Tail(s), a + Head(s).size, b)
<1> DEFINE q == Tail(s)
<1>1. Len(s) \in Nat \ {0} /\ Len(q) = Len(s) - 1 /\ Head(s) = s[1]
  OBVIOUS
<1>2. \A i \in 1 .. Len(q) : q[i] = s[i + 1]
  OBVIOUS
<1> HIDE DEF q
<1>3. Head(s).first = a
  BY <1>1 DEF Chain
<1>4. ASSUME NEW i \in 1 .. Len(q)
      PROVE  q[i].first = IF i = 1 THEN a + Head(s).size
                          ELSE q[i - 1].first + q[i - 1].size
  <2>1. CASE i = 1
    BY <1>1, <1>2, <1>3, <2>1 DEF Chain
  <2>2. CASE i # 1
    <3>1. s[i + 1].first = s[i].first + s[i].size
      BY <1>1, <2>2 DEF Chain
    <3>2. q[i] = s[i + 1] /\ q[i - 1] = s[i]
      BY <1>1, <1>2, <2>2
    <3> QED BY <2>2, <3>1, <3>2
  <2> QED BY <2>1, <2>2
<1>5. b = IF Len(q) = 0 THEN a + Head(s).size ELSE q[Len(q)].first + q[Len(q)].size
  <2>1. CASE Len(q) = 0
    <3>1. Len(s) = 1
      BY <1>1, <2>1
    <3>2. b = s[1].first + s[1].size
      BY <3>1 DEF Chain
    <3> QED BY <1>1, <1>3, <2>1, <3>2
  <2>2. CASE Len(q) # 0
    <3>1. q[Len(q)] = s[Len(s)]
      BY <1>1, <1>2, <2>2
    <3> QED BY <1>1, <2>2, <3>1 DEF Chain
  <2> QED BY <2>1, <2>2
<1> QED BY <1>3, <1>4, <1>5 DEF Chain, q

-----------------------------------------------------------------------------
(* Connections.                                                            *)

(* What starting and completing a read or a write does to the counters.    *)
LEMMA Counters ==
  ASSUME NEW c \in Connection
  PROVE  /\ AsyncReadSome(c) \in Connection
         /\ AsyncReadSome(c).reads = c.reads + 1
         /\ AsyncReadSome(c).writes = c.writes
         /\ AsyncWrite(c) \in Connection
         /\ AsyncWrite(c).reads = c.reads
         /\ AsyncWrite(c).writes = c.writes + 1
         /\ c.reads > 0 => /\ ReadCompleted(c) \in Connection
                           /\ ReadCompleted(c).reads = c.reads - 1
                           /\ ReadCompleted(c).writes = c.writes
         /\ c.writes > 0 => /\ WriteCompleted(c) \in Connection
                            /\ WriteCompleted(c).reads = c.reads
                            /\ WriteCompleted(c).writes = c.writes - 1
<1>1. /\ MoreReads(c) \in Connection
      /\ MoreReads(c).reads = c.reads + 1 /\ MoreReads(c).writes = c.writes
  BY DEF MoreReads, Connection
<1>2. ASSUME NEW d \in Connection, NEW b \in BOOLEAN
      PROVE  /\ [d EXCEPT !.torn = b] \in Connection
             /\ [d EXCEPT !.torn = b].reads = d.reads
             /\ [d EXCEPT !.torn = b].writes = d.writes
  BY DEF Connection
<1>3. /\ AsyncReadSome(c) \in Connection
      /\ AsyncReadSome(c).reads = c.reads + 1
      /\ AsyncReadSome(c).writes = c.writes
  BY <1>1, <1>2 DEF AsyncReadSome
<1>4. /\ AsyncWrite(c) \in Connection
      /\ AsyncWrite(c).reads = c.reads
      /\ AsyncWrite(c).writes = c.writes + 1
  BY DEF AsyncWrite, Connection
<1>5. ASSUME c.reads > 0
      PROVE  /\ FewerReads(c) \in Connection
             /\ FewerReads(c).reads = c.reads - 1 /\ FewerReads(c).writes = c.writes
  BY <1>5 DEF FewerReads, Connection
<1>6. ASSUME c.reads > 0
      PROVE  /\ ReadCompleted(c) \in Connection
             /\ ReadCompleted(c).reads = c.reads - 1
             /\ ReadCompleted(c).writes = c.writes
  BY <1>2, <1>5, <1>6 DEF ReadCompleted
<1>7. ASSUME c.writes > 0
      PROVE  /\ WriteCompleted(c) \in Connection
             /\ WriteCompleted(c).reads = c.reads
             /\ WriteCompleted(c).writes = c.writes - 1
  BY <1>7 DEF WriteCompleted, Connection
<1> QED BY <1>3, <1>4, <1>6, <1>7

-----------------------------------------------------------------------------
(* Initially.                                                              *)

LEMMA InitIInv == Init => IInv
<1> SUFFICES ASSUME Init PROVE IInv
  OBVIOUS
<1> USE DEF Init
<1>1. /\ NewConnection \in Connection
      /\ NewConnection.reads = 0 /\ NewConnection.writes = 0
  BY DEF NewConnection, Connection
<1>2. /\ entry \in Connection /\ entry.reads = 1
      /\ exit \in Connection /\ exit.reads = 0 /\ exit.writes = 0
  BY <1>1, Counters
<1>3. TypeOK
  <2>1. sent \in 0 .. MaxStream /\ taken \in 0 .. sent /\ received \in Nat
    BY BoundsAssumption
  <2>2. /\ wire \in Seq(Record) /\ shown \in Seq([first : Nat, size : Nat])
        /\ resize_buf \in Seq(Record)
    OBVIOUS
  <2> QED BY <1>2, <2>1, <2>2, Zenon DEF TypeOK
<1>4. FramesWhole
  BY DEF FramesWhole
<1>5. Reading
  BY <1>2 DEF Reading, BeingSetUp, Idle
<1>6. SetUp
  BY DEF SetUp, Begun, Introduced, Connecting, Listening, BeingSetUp
<1>9. Answered
  BY DEF Answered
<1>7. Following
  BY DEF Following, Chain
<1>8. PaidFor
  BY DEF PaidFor, IsFrame, BufferSize
<1> QED BY <1>3, <1>4, <1>5, <1>6, <1>7, <1>8, <1>9 DEF IInv

-----------------------------------------------------------------------------
(* What the steps do to the records on their way.                          *)

(* A write puts one record, or none, behind the others; unless it is late  *)
(* it puts its own.                                                        *)
LEMMA Written ==
  ASSUME wire \in Seq(Record), NEW r \in Record, late \in BOOLEAN, Write(r)
  PROVE  /\ wire' \in Seq(Record) /\ late' \in BOOLEAN
         /\ late => late'
         /\ ~late' => wire' = Append(wire, r)
         /\ \E w \in {<<>>, <<r>>, <<Stray(r)>>} : wire' = wire \o w
         /\ FramesWhole /\ Whole(r) => FramesWhole'
<1>1. CASE ~late /\ Len(wire) < Room
  <2>1. wire' = Append(wire, r) /\ late' = late
    BY <1>1 DEF Write
  <2>2. wire' = wire \o <<r>>
    BY <2>1
  <2> QED BY <1>1, <2>1, <2>2 DEF FramesWhole
<1>2. CASE ~(~late /\ Len(wire) < Room)
  <2>1. late' = TRUE
    BY <1>2 DEF Write
  <2>2. PICK w \in {<<>>, <<r>>, <<Stray(r)>>} : wire' = wire \o w
    BY <1>2 DEF Write
  <2>3. Stray(r) \in Record /\ (Whole(r) => Whole(Stray(r)))
    BY DEF Stray, Record, Whole, Carries
  <2>4. w \in Seq(Record)
    <3>1. /\ <<>> \in Seq(Record) /\ <<r>> \in Seq(Record)
          /\ <<Stray(r)>> \in Seq(Record)
      BY <2>3
    <3> QED BY <2>2, <3>1, Zenon
  <2>5. Whole(r) => \A i \in 1 .. Len(w) : Whole(w[i])
    BY <2>2, <2>3
  <2>6. wire' \in Seq(Record)
    BY <2>2, <2>4
  <2>7. FramesWhole /\ Whole(r) => FramesWhole'
    <3> SUFFICES ASSUME FramesWhole, Whole(r), NEW i \in 1 .. Len(wire')
                 PROVE  Whole(wire'[i])
      BY DEF FramesWhole, Whole, Carries
    <3>1. CASE i <= Len(wire)
      BY <2>2, <2>4, <3>1 DEF FramesWhole
    <3>2. CASE i > Len(wire)
      <4>1. i - Len(wire) \in 1 .. Len(w) /\ wire'[i] = w[i - Len(wire)]
        BY <2>2, <2>4, <3>2
      <4> QED BY <2>5, <4>1
    <3> QED BY <3>1, <3>2
  <2> QED BY <2>1, <2>2, <2>6, <2>7
<1> QED BY <1>1, <1>2

(* Without its head wire is as well formed as before.                      *)
LEMMA HeadTaken ==
  ASSUME wire \in Seq(Record), wire # <<>>, wire' = Tail(wire)
  PROVE  /\ wire' \in Seq(Record)
         /\ FramesWhole => Whole(Head(wire)) /\ FramesWhole'
         /\ OnlyFrames => Head(wire).kind = "frame" /\ OnlyFrames'
<1>1. /\ Len(wire) \in Nat \ {0} /\ Len(wire') = Len(wire) - 1
      /\ Head(wire) = wire[1] /\ wire' \in Seq(Record)
  OBVIOUS
<1>2. \A i \in 1 .. Len(wire') : wire'[i] = wire[i + 1]
  OBVIOUS
<1>3. FramesWhole => Whole(Head(wire)) /\ FramesWhole'
  BY <1>1, <1>2 DEF FramesWhole, Whole, Carries
<1>4. OnlyFrames => Head(wire).kind = "frame" /\ OnlyFrames'
  BY <1>1, <1>2 DEF OnlyFrames
<1> QED BY <1>1, <1>3, <1>4

(***************************************************************************)
(* The client's loop takes a record of the stream whole.  If it is a frame *)
(* and nothing is held from before, it prints it and holds nothing.        *)
(***************************************************************************)
LEMMA RecordTaken ==
  ASSUME TypeOK, FramesWhole, Listening, Listen
  PROVE  /\ wire # <<>> /\ wire' = Tail(wire)
         /\ Carries(Head(wire)) /\ Head(wire) \in Record
         /\ received' \in Nat /\ received' <= received + BufferSize
         /\ resize_buf' \in Seq(Record)
         /\ pc = "listening" /\ pc' \in {"listening", "broken"}
         /\ shown' \in Seq([first : Nat, size : Nat])
         /\ Head(wire).kind = "frame" /\ resize_buf = <<>> =>
              /\ pc' = "listening" /\ resize_buf' = <<>>
              /\ shown' = Append(shown, [first |-> Head(wire).first,
                                         size |-> Head(wire).size])
<1> DEFINE r == Head(wire)
           p == Piece(r)
<1>1. /\ wire \in Seq(Record) /\ wire # <<>> /\ pc = "listening"
      /\ received \in Nat /\ resize_buf \in Seq(Record)
      /\ shown \in Seq([first : Nat, size : Nat])
  BY DEF TypeOK, Listen
<1>2. r \in Record /\ r = wire[1] /\ 1 \in 1 .. Len(wire)
  <2>1. \A S, q : q \in Seq(S) /\ q # <<>> => Head(q) \in S /\ Head(q) = q[1] /\ 1 \in 1 .. Len(q)
    OBVIOUS
  <2> QED BY <1>1, <2>1, Zenon
<1>3. Whole(r) /\ Carries(r)
  BY <1>1, <1>2 DEF FramesWhole, Listening
<1> HIDE DEF r
<1>4. /\ r.read = 0 /\ r.size \in 1 .. MaxRead /\ r.len = FrameSize(r.size)
      /\ r.first \in Nat /\ r.size \in Nat
  BY <1>2, <1>3 DEF Whole, Record
<1>5. /\ TextSize(r.size) \in Nat /\ FrameSize(r.size) \in Nat
      /\ HeaderLength(r.size) = TextSize(r.size)
      /\ HeaderSize + TextSize(r.size) < FrameSize(r.size)
      /\ FrameSize(r.size) <= BufferSize
  BY <1>4, FramesFit
<1>6. Take(r) = FrameSize(r.size)
  BY <1>4, <1>5 DEF Take, Least, BufferSize
<1>7. Take(r) \in Nat /\ ~(Take(r) < HeaderSize) /\ TextSize(r.size) <= Take(r)
  BY <1>5, <1>6 DEF HeaderSize
<1>8. /\ p \in Record /\ p.kind = r.kind /\ p.read = 0 /\ p.len = Take(r)
      /\ p.first = r.first /\ p.size = r.size
  BY <1>2, <1>4, <1>7 DEF Piece, Record
<1>9. Rest(r) = Tail(wire)
  BY <1>4, <1>5, <1>6 DEF Rest
<1>10. p.kind = "frame" => SaidLengths(p) = {TextSize(r.size)}
  BY <1>5, <1>8 DEF SaidLengths
<1> HIDE DEF p
<1>11. /\ wire' = Rest(r) /\ received' = received + Take(r)
       /\ \E to_be_received \in SaidLengths(p) :
            IF received' >= to_be_received THEN Show(Hold(p))
            ELSE resize_buf' = Hold(p) /\ UNCHANGED <<pc, shown>>
  BY <1>7 DEF Listen, r, p
<1>12. /\ received' \in Nat /\ received' >= TextSize(r.size)
       /\ received' <= received + BufferSize
  BY <1>1, <1>5, <1>6, <1>7, <1>11 DEF BufferSize
<1>13. /\ Hold(p) \in Seq(Record) /\ Head(Hold(p)) = p
       /\ Hold(p) # <<>> /\ Len(Hold(p)) = 1 + Len(resize_buf)
  BY <1>1, <1>8 DEF Hold
<1>14. TextOf(p) \in [first : Nat, size : Nat]
  BY <1>4, <1>8 DEF TextOf
<1>15. \/ resize_buf' = Hold(p) /\ UNCHANGED <<pc, shown>>
       \/ shown' = Append(shown, TextOf(p)) /\ resize_buf' = <<>> /\ pc' = pc
       \/ pc' = "broken" /\ resize_buf' = Hold(p) /\ shown' = shown
  BY <1>11, <1>13 DEF Show
<1>16. /\ resize_buf' \in Seq(Record) /\ pc' \in {"listening", "broken"}
       /\ shown' \in Seq([first : Nat, size : Nat])
  <2>1. Append(shown, TextOf(p)) \in Seq([first : Nat, size : Nat])
    <3>1. \A S, x, q : q \in Seq(S) /\ x \in S => Append(q, x) \in Seq(S)
      OBVIOUS
    <3> QED BY <1>1, <1>14, <3>1, Zenon
  <2>2. <<>> \in Seq(Record)
    OBVIOUS
  <2> QED BY <1>1, <1>13, <1>15, <2>1, <2>2, Zenon
<1>17. ASSUME r.kind = "frame", resize_buf = <<>>
       PROVE  /\ pc' = pc /\ resize_buf' = <<>>
              /\ shown' = Append(shown, [first |-> r.first, size |-> r.size])
  <2>1. Show(Hold(p))
    BY <1>8, <1>10, <1>11, <1>12, <1>17
  <2>2. IsText(Hold(p))
    BY <1>5, <1>6, <1>8, <1>13, <1>17 DEF IsText
  <2>3. shown' = Append(shown, TextOf(p)) /\ resize_buf' = <<>> /\ pc' = pc
    BY <1>13, <2>1, <2>2 DEF Show
  <2>4. TextOf(p) = [first |-> r.first, size |-> r.size]
    BY <1>8, <1>17 DEF TextOf
  <2> QED BY <2>3, <2>4
<1> QED BY <1>1, <1>2, <1>3, <1>9, <1>11, <1>12, <1>16, <1>17 DEF r

-----------------------------------------------------------------------------
(* Types.                                                                  *)

(***************************************************************************)
(* Every step keeps every variable in its type, and the frames on their    *)
(* way whole.                                                              *)
(***************************************************************************)
LEMMA ClientTyped ==
  ASSUME TypeOK, FramesWhole, Listening,
         \/ Introduce \/ AskToConnect \/ SendData \/ Listen \/ Disconnected \/ Killed
  PROVE  TypeOK' /\ FramesWhole'
<1> USE DEF TypeOK
<1>1. CASE Introduce
  BY <1>1 DEF Introduce, FramesWhole, serverVars, localVars
<1>2. CASE AskToConnect
  BY <1>2, HeadTaken DEF AskToConnect, serverVars, localVars
<1>3. CASE SendData
  BY <1>3, HeadTaken DEF SendData, serverVars, localVars
<1>4. CASE Listen
  <2>1. /\ wire # <<>> /\ wire' = Tail(wire) /\ received' \in Nat
        /\ resize_buf' \in Seq(Record)
        /\ pc' \in {"listening", "broken"}
        /\ shown' \in Seq([first : Nat, size : Nat])
    BY <1>4, RecordTaken
  <2>2. UNCHANGED <<serverVars, request, late, proc>>
    BY <1>4 DEF Listen
  <2>3. wire' \in Seq(Record) /\ FramesWhole'
    BY <2>1, HeadTaken
  <2> QED BY <2>1, <2>2, <2>3 DEF serverVars
<1>6. CASE Disconnected \/ Killed
  BY <1>6 DEF Disconnected, Killed, FramesWhole, serverVars, localVars
<1> QED BY <1>1, <1>2, <1>3, <1>4, <1>6

LEMMA AnswerTyped ==
  ASSUME NEW k \in {"start_tunnel", "connect"}
  PROVE  /\ Answer(k) \in Record
         /\ Answer(k).size = 0
<1>1. encoded_size(base64_rfc4648, TokenSize) = 88
  BY TextSizes
<1>2. AnswerSize(k) \in Nat
  BY <1>1 DEF AnswerSize
<1> QED BY <1>2 DEF Answer, Record

(* How much a read of the target takes.                                    *)
LEMMA TakenSizes ==
  ASSUME TypeOK, Waiting
  PROVE  /\ Taken \in 1 .. MaxRead /\ taken + Taken \in 0 .. sent
         /\ Frame(taken, Taken) \in Record /\ Whole(Frame(taken, Taken))
         /\ taken \in Nat
<1>1. taken \in Nat /\ sent \in Nat /\ sent > taken
  BY BoundsAssumption DEF TypeOK, Waiting
<1>2. Taken \in 1 .. MaxRead /\ taken + Taken \in 0 .. sent /\ Taken \in Nat
  BY <1>1 DEF Taken, Least, MaxRead
<1>3. Frame(taken, Taken) \in Record /\ Whole(Frame(taken, Taken))
  <2>1. FrameSize(Taken) \in Nat
    BY <1>2, FramesFit
  <2> QED BY <1>1, <1>2, <2>1 DEF Frame, Record, Whole, Carries
<1> QED BY <1>1, <1>2, <1>3

LEMMA ServerTyped ==
  ASSUME TypeOK, FramesWhole,
         \/ HandleStartTunnel \/ HandleConnect \/ ConnectDone \/ ConnectFailed
         \/ HandleData \/ WriteDone \/ Relay \/ ReadFailed \/ EntryReadFailed
         \/ TargetSends \/ TargetEnds
  PROVE  TypeOK' /\ FramesWhole'
<1>0. entry \in Connection /\ exit \in Connection /\ proc \in {"running", "terminated"}
      /\ wire \in Seq(Record) /\ late \in BOOLEAN
  BY DEF TypeOK
<1>a. Named => proc' \in {"running", "terminated"}
  BY <1>0 DEF Named
<1>b. ASSUME NEW k \in {"start_tunnel", "connect"}
      PROVE  Answer(k) \in Record /\ Whole(Answer(k))
  BY AnswerTyped DEF Answer, Whole, Carries
<1>1. CASE HandleStartTunnel
  <2>1. entry' \in Connection
    BY <1>0, <1>1, Counters DEF HandleStartTunnel
  <2>2. wire' \in Seq(Record) /\ late' \in BOOLEAN /\ FramesWhole'
    BY <1>0, <1>b, <1>1, Written DEF HandleStartTunnel
  <2> QED BY <1>a, <1>1, <2>1, <2>2 DEF HandleStartTunnel, TypeOK, localVars
<1>2. CASE HandleConnect
  <2>1. entry' \in Connection
    BY <1>0, <1>2, Counters DEF HandleConnect
  <2> QED BY <1>a, <1>2, <2>1 DEF HandleConnect, TypeOK, localVars, FramesWhole
<1>3. CASE ConnectDone
  <2>1. entry' \in Connection
    BY <1>0, <1>3, Counters DEF ConnectDone
  <2>2. wire' \in Seq(Record) /\ late' \in BOOLEAN /\ FramesWhole'
    BY <1>0, <1>b, <1>3, Written DEF ConnectDone
  <2> QED BY <1>a, <1>3, <2>1, <2>2 DEF ConnectDone, TypeOK, localVars
<1>4. CASE ConnectFailed \/ TargetEnds
  BY <1>4 DEF ConnectFailed, TargetEnds, TypeOK, localVars, FramesWhole
<1>5. CASE HandleData
  <2>1. entry' \in Connection /\ exit' \in Connection
    BY <1>0, <1>5, Counters DEF HandleData
  <2> QED BY <1>a, <1>5, <2>1 DEF HandleData, TypeOK, localVars, FramesWhole
<1>6. CASE WriteDone
  <2>1. exit' \in Connection /\ proc' \in {"running", "terminated"}
    BY <1>0, <1>6, Counters DEF WriteDone
  <2> QED BY <1>6, <2>1 DEF WriteDone, TypeOK, localVars, FramesWhole
<1>7. CASE Relay
  <2>1. Waiting /\ Write(Frame(taken, Taken)) /\ taken' = taken + Taken
        /\ exit' = AsyncReadSome(ReadCompleted(exit))
    BY <1>7 DEF Relay, RelayThen
  <2>2. exit' \in Connection
    BY <1>0, <2>1, Counters DEF Waiting
  <2>3. wire' \in Seq(Record) /\ late' \in BOOLEAN /\ FramesWhole'
    BY <1>0, <2>1, TakenSizes, Written
  <2>4. taken' \in 0 .. sent /\ sent' = sent
    BY <1>7, <2>1, TakenSizes DEF Relay, RelayThen
  <2> QED BY <1>7, <2>2, <2>3, <2>4 DEF Relay, RelayThen, TypeOK, localVars
<1>8. CASE ReadFailed
  <2>1. exit' \in Connection /\ proc' \in {"running", "terminated"}
    BY <1>0, <1>8, Counters DEF ReadFailed
  <2> QED BY <1>8, <2>1 DEF ReadFailed, TypeOK, localVars, FramesWhole
<1>9. CASE EntryReadFailed
  <2>1. entry' \in Connection
    BY <1>0, <1>9, Counters DEF EntryReadFailed
  <2> QED BY <1>a, <1>9, <2>1 DEF EntryReadFailed, TypeOK, localVars, FramesWhole
<1>10. CASE TargetSends
  <2>1. sent' \in 0 .. MaxStream /\ taken' \in 0 .. sent'
    BY <1>10, BoundsAssumption DEF TargetSends, TypeOK
  <2> QED BY <1>10, <2>1 DEF TargetSends, TypeOK, localVars, FramesWhole
<1> QED BY <1>1, <1>2, <1>3, <1>4, <1>5, <1>6, <1>7, <1>8, <1>9, <1>10

LEMMA TypeStep ==
  ASSUME TypeOK, FramesWhole, Listening, [Next]_vars
  PROVE  TypeOK' /\ FramesWhole'
<1>1. CASE UNCHANGED vars
  BY <1>1 DEF vars, TypeOK, FramesWhole
<1>2. CASE Next
  BY <1>2, ClientTyped, ServerTyped DEF Next
<1> QED BY <1>1, <1>2

-----------------------------------------------------------------------------
(* Who reads.                                                              *)

(***************************************************************************)
(* A handler takes the read it completes and starts one itself or leaves   *)
(* it to the callback of the connect; the target is read from after the    *)
(* one write, and then by each read's handler.                             *)
(***************************************************************************)
LEMMA ReadingStep ==
  ASSUME TypeOK, Reading, [Next]_vars
  PROVE  Reading'
<1> USE DEF Reading, BeingSetUp, Idle
<1>0. /\ entry \in Connection /\ exit \in Connection
      /\ entry.reads \in Nat /\ exit.reads \in Nat /\ exit.writes \in Nat
  BY DEF TypeOK, Connection
<1>1. CASE UNCHANGED vars
  BY <1>1 DEF vars
<1>2. CASE Introduce \/ AskToConnect \/ SendData \/ Disconnected \/ Killed
  BY <1>2 DEF Introduce, AskToConnect, SendData, Disconnected, Killed, serverVars
<1>3. CASE Listen
  <2>1. pc = "listening" /\ pc' \in {"listening", "broken"}
        /\ UNCHANGED <<serverVars, request>>
    BY <1>3 DEF Listen, localVars, Show
  <2> QED BY <2>1 DEF serverVars
<1>5. CASE HandleStartTunnel
  <2>1. entry'.reads = entry.reads /\ entry.reads > 0
    BY <1>0, <1>5, Counters DEF HandleStartTunnel
  <2> QED BY <1>5, <2>1 DEF HandleStartTunnel
<1>6. CASE HandleConnect
  <2>1. entry'.reads = 0
    BY <1>0, <1>6, Counters DEF HandleConnect
  <2> QED BY <1>6, <2>1 DEF HandleConnect
<1>7. CASE ConnectDone
  <2>1. entry'.reads = 1
    BY <1>0, <1>7, Counters DEF ConnectDone
  <2> QED BY <1>7, <2>1 DEF ConnectDone
<1>8. CASE ConnectFailed \/ TargetSends \/ TargetEnds
  BY <1>8 DEF ConnectFailed, TargetSends, TargetEnds
<1>9. CASE HandleData
  <2>1. /\ request = "data" /\ entry.reads = 1 /\ exit.reads = 0 /\ exit.writes = 0
        /\ entry' = ReadCompleted(entry) /\ exit' = AsyncWrite(exit)
    BY <1>0, <1>9 DEF HandleData
  <2>2. entry'.reads = 0 /\ exit'.reads = 0 /\ exit'.writes = 1
    BY <1>0, <2>1, Counters
  <2> QED BY <1>9, <2>1, <2>2 DEF HandleData
<1>10. CASE WriteDone
  <2>1. exit.writes = 1 /\ exit.reads = 0 /\ ~BeingSetUp /\ request # "data"
    BY <1>0, <1>10 DEF WriteDone
  <2>2. exit' = exit \/ (exit'.reads = 1 /\ exit'.writes = 0)
    BY <1>0, <1>10, <2>1, Counters DEF WriteDone
  <2> QED BY <1>10, <2>1, <2>2 DEF WriteDone
<1>11. CASE Relay
  <2>1. exit.reads = 1 /\ exit.writes = 0 /\ ~BeingSetUp /\ request # "data"
    BY <1>0, <1>11 DEF Relay, RelayThen, Waiting
  <2>2. exit'.reads = 1 /\ exit'.writes = 0
    BY <1>0, <1>11, <2>1, Counters DEF Relay, RelayThen
  <2> QED BY <1>11, <2>1, <2>2 DEF Relay, RelayThen
<1>12. CASE ReadFailed
  <2>1. exit.reads = 1 /\ exit.writes = 0 /\ ~BeingSetUp /\ request # "data"
    BY <1>0, <1>12 DEF ReadFailed
  <2>2. exit'.reads = 0 /\ exit'.writes = 0
    BY <1>0, <1>12, <2>1, Counters DEF ReadFailed
  <2> QED BY <1>12, <2>1, <2>2 DEF ReadFailed
<1>13. CASE EntryReadFailed
  <2>1. entry'.reads = 0
    BY <1>0, <1>13, Counters DEF EntryReadFailed
  <2> QED BY <1>13, <2>1 DEF EntryReadFailed
<1> QED BY <1>1, <1>2, <1>3, <1>5, <1>6, <1>7, <1>8, <1>9, <1>10, <1>11,
           <1>12, <1>13 DEF Next

-----------------------------------------------------------------------------
(* Set up and stream.                                                      *)

(* Once a write has been late, one has.                                    *)
LEMMA LateForGood ==
  ASSUME TypeOK, [Next]_vars, ~late'
  PROVE  ~late
<1>0. wire \in Seq(Record) /\ late \in BOOLEAN
  BY DEF TypeOK
<1>1. ASSUME NEW r, Write(r) PROVE ~late
  BY <1>1 DEF Write
<1>2. CASE HandleStartTunnel \/ ConnectDone \/ Relay
  BY <1>1, <1>2 DEF HandleStartTunnel, ConnectDone, Relay, RelayThen
<1>3. CASE \/ Introduce \/ AskToConnect \/ SendData \/ Listen \/ Disconnected \/ Killed
           \/ HandleConnect \/ ConnectFailed \/ HandleData \/ WriteDone \/ ReadFailed
           \/ EntryReadFailed \/ TargetSends \/ TargetEnds \/ UNCHANGED vars
  BY <1>3 DEF Introduce, AskToConnect, SendData, Listen,
    Disconnected, Killed, HandleConnect, ConnectFailed, HandleData, WriteDone,
    ReadFailed, EntryReadFailed, TargetSends, TargetEnds, vars
<1> QED BY <1>2, <1>3 DEF Next

(***************************************************************************)
(* What is on its way while the client is set up, late writes or not: an   *)
(* answer is written only when the client waits for it, and at most one    *)
(* record takes its place.                                                 *)
(***************************************************************************)
LEMMA ClientSetUp ==
  ASSUME TypeOK, FramesWhole, SetUp,
         \/ Introduce \/ AskToConnect \/ SendData \/ Listen \/ Disconnected \/ Killed
  PROVE  SetUp'
<1>0. wire \in Seq(Record)
  BY DEF TypeOK
<1>t. ASSUME wire # <<>>, Len(wire) <= 1, wire' = Tail(wire)
      PROVE  wire' = <<>>
  BY <1>0, <1>t
<1> USE DEF SetUp, Begun, Introduced, Connecting, Listening, BeingSetUp, Connected
<1>1. CASE Introduce
  BY <1>1 DEF Introduce, serverVars, localVars
<1>2. CASE AskToConnect
  <2>1. wire' = <<>> /\ target = "none"
    BY <1>t, <1>2 DEF AskToConnect
  <2> QED BY <1>2, <2>1 DEF AskToConnect, serverVars, localVars
<1>3. CASE SendData
  <2>1. wire' = <<>> /\ Connected /\ request = "none"
    BY <1>t, <1>3 DEF SendData
  <2> QED BY <1>3, <2>1 DEF SendData, serverVars
<1>4. CASE Listen
  <2>1. /\ wire # <<>> /\ wire' = Tail(wire)
        /\ pc = "listening" /\ pc' \in {"listening", "broken"}
    BY <1>4, RecordTaken
  <2>2. \A i \in 1 .. Len(wire') : Carries(wire'[i])
    <3>1. /\ Len(wire) \in Nat \ {0} /\ Len(wire') = Len(wire) - 1
          /\ \A i \in 1 .. Len(wire') : wire'[i] = wire[i + 1]
      BY <1>0, <2>1
    <3> QED BY <2>1, <3>1 DEF Carries
  <2>3. UNCHANGED <<target, request>>
    BY <1>4 DEF Listen, serverVars
  <2> QED BY <2>1, <2>2, <2>3 DEF Carries
<1>5. CASE Disconnected \/ Killed
  BY <1>5 DEF Disconnected, Killed
<1> QED BY <1>1, <1>2, <1>3, <1>4, <1>5

(* A write behind records that carry, or into an empty wire. *)
LEMMA WrittenBehind ==
  ASSUME TypeOK, NEW r \in Record, Write(r)
  PROVE  /\ wire = <<>> => Len(wire') <= 1
         /\ Carries(r) /\ (\A i \in 1 .. Len(wire) : Carries(wire[i])) =>
              \A i \in 1 .. Len(wire') : Carries(wire'[i])
<1>0. wire \in Seq(Record) /\ late \in BOOLEAN
  BY DEF TypeOK
<1>1. PICK w \in {<<>>, <<r>>, <<Stray(r)>>} : wire' = wire \o w
  BY <1>0, Written
<1>2. Carries(r) => Carries(Stray(r))
  BY DEF Carries, Stray, Record
<1>3. Len(w) <= 1 /\ Len(w) \in Nat
  BY <1>1
<1>4. wire = <<>> => Len(wire') <= 1
  BY <1>1, <1>3
<1>5. ASSUME Carries(r), \A i \in 1 .. Len(wire) : Carries(wire[i]),
             NEW i \in 1 .. Len(wire')
      PROVE  Carries(wire'[i])
  <2>1. CASE i <= Len(wire)
    <3>1. wire'[i] = wire[i] /\ i \in 1 .. Len(wire)
      BY <1>0, <1>1, <2>1
    <3> QED BY <1>5, <3>1 DEF Carries
  <2>2. CASE i > Len(wire)
    <3>1. wire'[i] \in {r, Stray(r)}
      BY <1>0, <1>1, <1>5, <2>2
    <3> QED BY <1>2, <1>5, <3>1 DEF Carries
  <2> QED BY <1>0, <2>1, <2>2
<1> QED BY <1>4, <1>5 DEF Carries

LEMMA ServerSetUp ==
  ASSUME TypeOK, Reading, SetUp,
         \/ HandleStartTunnel \/ HandleConnect \/ ConnectDone \/ ConnectFailed
         \/ HandleData \/ WriteDone \/ Relay \/ ReadFailed \/ EntryReadFailed
         \/ TargetSends \/ TargetEnds
  PROVE  SetUp'
<1>r. ASSUME NEW k \in {"start_tunnel", "connect"}, Write(Answer(k)), wire = <<>>
      PROVE  Len(wire') <= 1
  BY <1>r, AnswerTyped, WrittenBehind
<1> USE DEF SetUp, Begun, Introduced, Connecting, Listening, BeingSetUp, Connected
<1>1. CASE HandleStartTunnel
  <2>1. wire = <<>> => Len(wire') <= 1
    BY <1>r, <1>1 DEF HandleStartTunnel
  <2> QED BY <1>1, <2>1 DEF HandleStartTunnel, localVars
<1>2. CASE HandleConnect
  BY <1>2 DEF HandleConnect, localVars
<1>3. CASE ConnectDone
  <2>1. wire = <<>> => Len(wire') <= 1
    BY <1>r, <1>3 DEF ConnectDone
  <2> QED BY <1>3, <2>1 DEF ConnectDone, localVars
<1>4. CASE ConnectFailed \/ TargetSends \/ TargetEnds
  BY <1>4 DEF ConnectFailed, TargetSends, TargetEnds, localVars
<1>5. CASE HandleData
  BY <1>5 DEF HandleData, localVars, Reading
<1>6. CASE WriteDone \/ ReadFailed \/ EntryReadFailed
  BY <1>6 DEF WriteDone, ReadFailed, EntryReadFailed, localVars
<1>7. CASE Relay
  <2>1. ~BeingSetUp
    BY <1>7 DEF Relay, RelayThen, Waiting, Reading, Idle
  <2>2. /\ Frame(taken, Taken) \in Record /\ Carries(Frame(taken, Taken))
        /\ Write(Frame(taken, Taken))
    <3>1. Waiting /\ Write(Frame(taken, Taken))
      BY <1>7 DEF Relay, RelayThen
    <3>2. Frame(taken, Taken) \in Record /\ Taken \in 1 .. MaxRead
      BY <3>1, TakenSizes
    <3>3. Taken > 0
      BY <3>2 DEF MaxRead
    <3> QED BY <3>1, <3>2, <3>3 DEF Carries, Frame
  <2>3. (\A i \in 1 .. Len(wire) : Carries(wire[i])) =>
          \A i \in 1 .. Len(wire') : Carries(wire'[i])
    BY <2>2, WrittenBehind
  <2> HIDE DEF Carries
  <2> QED BY <1>7, <2>1, <2>3 DEF Relay, RelayThen, localVars
<1> QED BY <1>1, <1>2, <1>3, <1>4, <1>5, <1>6, <1>7

LEMMA SetUpStep ==
  ASSUME IInv, [Next]_vars
  PROVE  SetUp'
<1>1. TypeOK /\ FramesWhole /\ Reading /\ SetUp
  BY DEF IInv
<1>2. CASE UNCHANGED vars
  BY <1>1, <1>2 DEF vars, SetUp, Begun, Introduced, Connecting, Listening,
    BeingSetUp, Connected, Carries
<1>3. CASE Next
  BY <1>1, <1>3, ClientSetUp, ServerSetUp DEF Next
<1> QED BY <1>2, <1>3

(***************************************************************************)
(* As long as no write was late the client reads the answers themselves,   *)
(* and then nothing but frames.                                            *)
(***************************************************************************)
LEMMA AnsweredStep ==
  ASSUME IInv, [Next]_vars
  PROVE  Answered'
<1> SUFFICES ASSUME ~late' PROVE Answered'
  BY DEF Answered
<1>0. /\ TypeOK /\ FramesWhole /\ Reading /\ SetUp /\ Answered /\ Following /\ ~late
      /\ wire \in Seq(Record) /\ late \in BOOLEAN
  BY LateForGood DEF IInv, TypeOK
<1>s. /\ Begun /\ Introduced /\ Connecting /\ Listening
      /\ pc = "introduced" => wire \in {<<>>, <<Answer("start_tunnel")>>}
      /\ pc = "connecting" => wire \in {<<>>, <<Answer("connect")>>}
      /\ pc # "broken"
  BY <1>0 DEF SetUp, Answered
<1>r. ASSUME NEW k \in {"start_tunnel", "connect"}, Write(Answer(k)), wire = <<>>
      PROVE  wire' = <<Answer(k)>>
  <2>1. wire' = Append(wire, Answer(k))
    BY <1>0, <1>r, AnswerTyped, Written
  <2> QED BY <1>r, <2>1
<1> USE DEF Answered
<1>1. CASE UNCHANGED vars
  BY <1>s, <1>1 DEF vars
<1>2. CASE Introduce
  BY <1>s, <1>2 DEF Introduce, Begun
<1>3. CASE AskToConnect
  <2>1. wire = <<Answer("start_tunnel")>>
    BY <1>s, <1>3 DEF AskToConnect
  <2>2. wire' = <<>>
    BY <1>3, <2>1 DEF AskToConnect
  <2> QED BY <1>3, <2>2 DEF AskToConnect
<1>4. CASE SendData
  <2>1. wire = <<Answer("connect")>>
    BY <1>s, <1>4 DEF SendData
  <2>2. Head(wire).kind = "connect"
    BY <2>1 DEF Answer
  <2> QED BY <1>4, <2>2 DEF SendData
<1>5. CASE Listen
  <2>1. pc = "listening" /\ wire # <<>>
    BY <1>5 DEF Listen
  <2>2. OnlyFrames /\ resize_buf = <<>>
    BY <1>0, <2>1 DEF Following
  <2>3. Head(wire) = wire[1] /\ 1 \in 1 .. Len(wire)
    BY <1>0, <2>1
  <2>4. Head(wire).kind = "frame"
    BY <2>2, <2>3 DEF OnlyFrames
  <2>5. pc' = "listening"
    BY <1>0, <1>s, <1>5, <2>2, <2>4, RecordTaken
  <2> QED BY <2>5
<1>6. CASE Disconnected \/ Killed
  BY <1>6 DEF Disconnected, Killed
<1>7. CASE HandleStartTunnel
  <2>1. pc \notin {"begin", "connecting"} /\ (pc = "introduced" => wire = <<>>)
    BY <1>s, <1>7 DEF HandleStartTunnel, Begun, Introduced, Connecting
  <2>2. wire = <<>> => wire' = <<Answer("start_tunnel")>>
    BY <1>r, <1>7 DEF HandleStartTunnel
  <2> QED BY <1>s, <1>7, <2>1, <2>2 DEF HandleStartTunnel
<1>8. CASE ConnectDone
  <2>1. pc \notin {"begin", "introduced"} /\ (pc = "connecting" => wire = <<>>)
    BY <1>s, <1>8 DEF ConnectDone, Begun, Introduced, Connecting, Connected
  <2>2. wire = <<>> => wire' = <<Answer("connect")>>
    BY <1>r, <1>8 DEF ConnectDone
  <2> QED BY <1>s, <1>8, <2>1, <2>2 DEF ConnectDone
<1>9. CASE Relay
  <2>1. ~BeingSetUp
    BY <1>0, <1>9 DEF Relay, RelayThen, Waiting, Reading, Idle
  <2> QED BY <1>s, <1>9, <2>1 DEF Relay, RelayThen, BeingSetUp
<1>10. CASE \/ HandleConnect \/ ConnectFailed \/ HandleData \/ WriteDone
            \/ ReadFailed \/ EntryReadFailed \/ TargetSends \/ TargetEnds
  BY <1>s, <1>10 DEF HandleConnect, ConnectFailed, HandleData, WriteDone, ReadFailed,
    EntryReadFailed, TargetSends, TargetEnds
<1> QED BY <1>1, <1>2, <1>3, <1>4, <1>5, <1>6, <1>7, <1>8, <1>9, <1>10 DEF Next

(***************************************************************************)
(* A frame that is read moves from what is on its way to what has been     *)
(* printed, and a relay puts what it takes behind both.                    *)
(***************************************************************************)
LEMMA FollowingStep ==
  ASSUME IInv, [Next]_vars
  PROVE  Following'
<1> SUFFICES ASSUME ~late'
             PROVE  Following'
  BY DEF Following
<1>0. /\ TypeOK /\ FramesWhole /\ Reading /\ SetUp /\ Answered /\ Following /\ ~late
      /\ wire \in Seq(Record) /\ shown \in Seq([first : Nat, size : Nat])
      /\ late \in BOOLEAN
  BY LateForGood DEF IInv, TypeOK
<1>m. PICK m \in Nat :
        /\ Chain(shown, 0, m)
        /\ pc = "listening" => /\ Chain(wire, m, taken) /\ OnlyFrames
                               /\ resize_buf = <<>>
  BY <1>0 DEF Following
<1>s. /\ Begun /\ Introduced /\ Connecting /\ Listening
      /\ BeingSetUp => taken = 0 /\ shown = <<>> /\ resize_buf = <<>>
  BY <1>0 DEF SetUp
<1>w. pc = "connecting" => wire \in {<<>>, <<Answer("connect")>>}
  BY <1>0 DEF Answered
(* Nothing that is followed has changed. *)
<1>k. ASSUME shown' = shown,
             pc' = "listening" => /\ pc = "listening" /\ wire' = wire
                                  /\ taken' = taken /\ resize_buf' = resize_buf
      PROVE  Following'
  <2>1. Chain(shown, 0, m)'
    BY <1>k, <1>m DEF Chain
  <2>2. pc' = "listening" => /\ Chain(wire', m, taken')
                             /\ OnlyFrames' /\ resize_buf' = <<>>
    BY <1>k, <1>m DEF Chain, OnlyFrames
  <2>3. Chain(shown', 0, m)
    BY <1>k, <1>m
  <2> QED BY <2>2, <2>3 DEF Following
<1>1. CASE UNCHANGED vars
  BY <1>k, <1>1 DEF vars
<1>2. CASE \/ Introduce \/ AskToConnect \/ Disconnected \/ Killed
           \/ HandleConnect \/ ConnectFailed \/ HandleData \/ WriteDone \/ ReadFailed
           \/ EntryReadFailed \/ TargetSends \/ TargetEnds
  BY <1>k, <1>2 DEF Introduce, AskToConnect, Disconnected, Killed, HandleConnect,
    ConnectFailed, HandleData, WriteDone, ReadFailed, EntryReadFailed, TargetSends,
    TargetEnds, localVars
<1>3. CASE SendData
  <2>1. /\ wire = <<Answer("connect")>> /\ taken = 0 /\ shown = <<>>
        /\ resize_buf = <<>>
    BY <1>s, <1>w, <1>3 DEF SendData, BeingSetUp
  <2>2. wire' = <<>> /\ taken' = 0 /\ shown' = <<>> /\ resize_buf' = <<>>
    BY <1>3, <2>1 DEF SendData, serverVars, localVars
  <2>3. Chain(shown', 0, 0) /\ Chain(wire', 0, taken') /\ OnlyFrames'
    BY <2>2 DEF Chain, OnlyFrames
  <2> QED BY <2>2, <2>3 DEF Following
<1>4. CASE Listen
  <2>1. pc = "listening" /\ wire # <<>> /\ taken' = taken
    BY <1>4 DEF Listen, serverVars
  <2>2. Chain(wire, m, taken) /\ OnlyFrames /\ resize_buf = <<>>
    BY <1>m, <2>1
  <2>0. Head(wire).kind = "frame"
    <3>1. Head(wire) = wire[1] /\ 1 \in 1 .. Len(wire)
      BY <1>0, <2>1
    <3> QED BY <2>2, <3>1 DEF OnlyFrames
  <2> DEFINE r == Head(wire)
             new == [first |-> r.first, size |-> r.size]
  <2>3. /\ wire' = Tail(wire) /\ resize_buf' = <<>>
        /\ shown' = Append(shown, new)
    BY <1>0, <1>s, <1>4, <2>0, <2>2, RecordTaken
  <2>4. r \in Record /\ r.first \in Nat /\ r.size \in Nat
    <3>1. \A S, s : s \in Seq(S) /\ s # <<>> => Head(s) \in S
      OBVIOUS
    <3>2. r \in Record
      BY <1>0, <2>1, <3>1, Zenon
    <3> HIDE DEF r
    <3> QED BY <3>2 DEF Record
  <2>5. r.first = m /\ Chain(Tail(wire), m + r.size, taken)
    BY <1>0, <2>1, <2>2, ChainTail
  <2> HIDE DEF r
  <2>6. new \in [first : Nat, size : Nat] /\ new.first = m /\ new.size = r.size
    BY <2>4, <2>5
  <2>7. Chain(Append(shown, new), 0, m + new.size)
    BY <1>0, <1>m, <2>6, ChainAppend
  <2>8. OnlyFrames'
    BY <1>0, <2>1, <2>2, <2>3, HeadTaken
  <2>9. /\ m + r.size \in Nat
        /\ Chain(shown', 0, m + r.size) /\ Chain(wire', m + r.size, taken')
    BY <2>1, <2>3, <2>4, <2>5, <2>6, <2>7
  <2> QED BY <2>3, <2>8, <2>9 DEF Following
<1>6. CASE HandleStartTunnel \/ ConnectDone
  <2>1. pc # "listening"
    BY <1>s, <1>6 DEF HandleStartTunnel, ConnectDone, Listening, Connected
  <2>2. shown' = shown /\ pc' = pc
    BY <1>6 DEF HandleStartTunnel, ConnectDone, localVars
  <2> QED BY <1>k, <2>1, <2>2
<1>7. CASE Relay
  <2> DEFINE r == Frame(taken, Taken)
  <2>1. /\ Waiting /\ Write(r) /\ taken' = taken + Taken
        /\ pc' = pc /\ shown' = shown /\ resize_buf' = resize_buf
    BY <1>7 DEF Relay, RelayThen, localVars
  <2>2. r \in Record /\ r.kind = "frame" /\ r.first = taken /\ r.size = Taken
    BY <1>0, <2>1, TakenSizes DEF Frame
  <2> HIDE DEF r
  <2>3. wire' = Append(wire, r)
    BY <1>0, <2>1, <2>2, Written
  <2>4. CASE pc # "listening"
    BY <1>k, <2>1, <2>4
  <2>5. CASE pc = "listening"
    <3>1. Chain(wire', m, taken')
      BY <1>0, <1>m, <2>1, <2>2, <2>3, <2>5, ChainAppend
    <3>2. OnlyFrames'
      BY <1>0, <1>m, <2>2, <2>3, <2>5 DEF OnlyFrames
    <3>3. Chain(shown', 0, m) /\ resize_buf' = <<>>
      BY <1>m, <2>1, <2>5
    <3> QED BY <3>1, <3>2, <3>3 DEF Following
  <2> QED BY <2>4, <2>5
<1> QED BY <1>1, <1>2, <1>3, <1>4, <1>6, <1>7 DEF Next

-----------------------------------------------------------------------------
(* The client's counter.                                                   *)

(* A record written behind the others, if it is a frame of what was taken  *)
(* just now, is paid for.                                                  *)
LEMMA PaidForWrite ==
  ASSUME TypeOK, PaidFor, NEW r \in Record, NEW n \in Nat, Write(r),
         taken' = taken + n, received' = received,
         Carries(r) => r.first = taken /\ r.size = n
  PROVE  PaidFor'
<1>0. wire \in Seq(Record) /\ taken \in Nat /\ received \in Nat /\ late \in BOOLEAN
      /\ received <= BufferSize * taken
  BY BoundsAssumption DEF TypeOK, PaidFor
<1>1. PICK w \in {<<>>, <<r>>, <<Stray(r)>>} : wire' = wire \o w
  BY <1>0, Written
<1>2. \A i \in 1 .. Len(wire) : wire'[i] = wire[i] /\ wire[i] \in Record
  BY <1>0, <1>1
<1>3. \A i \in Nat : IsFrame(i)' /\ ~IsFrame(i) =>
        /\ wire'[i] \in {r, Stray(r)} /\ i = Len(wire) + 1 /\ Carries(wire'[i])
  BY <1>0, <1>1, <1>2 DEF IsFrame, Carries
<1>4. \A i \in Nat : IsFrame(i) => /\ wire'[i] = wire[i]
                                  /\ wire[i].first \in Nat /\ wire[i].size \in Nat
  BY <1>2 DEF IsFrame, Record
<1>5. \A i \in Nat : IsFrame(i)' /\ ~IsFrame(i) =>
        wire'[i].first = taken /\ wire'[i].size = n
  <2>1. Stray(r).first = r.first /\ Stray(r).size = r.size
    BY DEF Stray, Record
  <2> QED BY <1>3, <2>1 DEF Carries
<1>6. received' <= BufferSize * taken'
  BY <1>0 DEF BufferSize
<1>7. ASSUME NEW i \in Nat, IsFrame(i)'
      PROVE  /\ received' <= BufferSize * wire'[i].first
             /\ wire'[i].first + wire'[i].size <= taken'
  <2>1. CASE IsFrame(i)
    BY <1>0, <1>4, <2>1 DEF PaidFor, BufferSize
  <2>2. CASE ~IsFrame(i)
    BY <1>0, <1>5, <1>7, <2>2 DEF BufferSize
  <2> QED BY <2>1, <2>2
<1>8. ASSUME NEW i \in Nat, NEW j \in Nat, IsFrame(i)', IsFrame(j)', i < j
      PROVE  wire'[i].first + wire'[i].size <= wire'[j].first
  <2>1. IsFrame(i)
    <3> SUFFICES ASSUME ~IsFrame(i) PROVE FALSE
      OBVIOUS
    <3>1. i = Len(wire) + 1
      BY <1>3, <1>8
    <3>2. ~IsFrame(j)
      BY <1>0, <1>8, <3>1 DEF IsFrame
    <3> QED BY <1>0, <1>3, <1>8, <3>1, <3>2
  <2>2. CASE IsFrame(j)
    BY <1>4, <1>8, <2>1, <2>2 DEF PaidFor
  <2>3. CASE ~IsFrame(j)
    BY <1>4, <1>5, <1>8, <2>1, <2>3 DEF PaidFor
  <2> QED BY <2>2, <2>3
<1> QED BY <1>6, <1>7, <1>8 DEF PaidFor

(* A read by the client, as far as wire and counter are concerned. *)
TakesHead ==
  /\ wire # <<>> /\ wire' = Tail(wire) /\ taken' = taken /\ received' \in Nat
  /\ \/ received' = received
     \/ Carries(Head(wire)) /\ received' <= received + BufferSize

(* A record taken from the others; if it carries bytes, the client has      *)
(* received no more than buf holds for it.                                 *)
LEMMA PaidForRead ==
  ASSUME TypeOK, FramesWhole, PaidFor, TakesHead
  PROVE  PaidFor'
<1>0. /\ wire \in Seq(Record) /\ taken \in Nat /\ received \in Nat
      /\ received <= BufferSize * taken /\ received' \in Nat /\ taken' = taken
      /\ wire # <<>> /\ wire' = Tail(wire)
  BY BoundsAssumption DEF TypeOK, PaidFor, TakesHead
<1>1. /\ Len(wire) \in Nat \ {0} /\ Len(wire') = Len(wire) - 1
      /\ \A i \in 1 .. Len(wire') : wire'[i] = wire[i + 1]
  BY <1>0
<1>2. ASSUME NEW i \in Nat, IsFrame(i)'
      PROVE  IsFrame(i + 1) /\ wire'[i] = wire[i + 1] /\ i + 1 \in Nat /\ 1 < i + 1
  BY <1>1, <1>2 DEF IsFrame, Carries
<1>3. ASSUME NEW i \in Nat, IsFrame(i)
      PROVE  wire[i].first \in Nat /\ wire[i].size \in Nat \ {0}
  <2>1. wire[i] \in Record /\ Carries(wire[i]) /\ Whole(wire[i])
    BY <1>0, <1>3 DEF IsFrame, FramesWhole
  <2>2. wire[i].size \in 1 .. 512 /\ wire[i].first \in Nat
    BY <2>1 DEF Whole, Record, MaxRead
  <2> QED BY <2>2
<1>4. Head(wire) = wire[1]
  BY <1>0
(* The frames that are left do not overlap, and are of what was taken. *)
<1>5. ASSUME NEW i \in Nat, NEW j \in Nat, IsFrame(i)', IsFrame(j)', i < j
      PROVE  wire'[i].first + wire'[i].size <= wire'[j].first
  <2>1. /\ IsFrame(i + 1) /\ IsFrame(j + 1) /\ i + 1 \in Nat /\ j + 1 \in Nat
        /\ i + 1 < j + 1 /\ wire'[i] = wire[i + 1] /\ wire'[j] = wire[j + 1]
    BY <1>2, <1>5
  <2>2. wire[i + 1].first + wire[i + 1].size <= wire[j + 1].first
    BY <2>1 DEF PaidFor
  <2> QED BY <2>1, <2>2
<1>a. ASSUME NEW i \in Nat, IsFrame(i)'
      PROVE  /\ IsFrame(i + 1) /\ i + 1 \in Nat /\ 1 < i + 1 /\ wire'[i] = wire[i + 1]
             /\ wire'[i].first + wire'[i].size <= taken'
             /\ received <= BufferSize * wire'[i].first
  <2>1. IsFrame(i + 1) /\ i + 1 \in Nat /\ 1 < i + 1 /\ wire'[i] = wire[i + 1]
    BY <1>2, <1>a
  <2>2. /\ wire[i + 1].first + wire[i + 1].size <= taken
        /\ received <= BufferSize * wire[i + 1].first
    BY <2>1 DEF PaidFor
  <2> QED BY <1>0, <2>1, <2>2
<1>7. CASE received' = received
  <2>1. received' <= BufferSize * taken'
    BY <1>0, <1>7
  <2>2. \A i \in Nat : IsFrame(i)' => /\ received' <= BufferSize * wire'[i].first
                                     /\ wire'[i].first + wire'[i].size <= taken'
    BY <1>a, <1>7
  <2> QED BY <1>5, <2>1, <2>2 DEF PaidFor
<1>6. CASE Carries(Head(wire)) /\ received' <= received + BufferSize
  <2>1. IsFrame(1)
    BY <1>0, <1>4, <1>6 DEF IsFrame
  <2>2. /\ received <= BufferSize * wire[1].first
        /\ wire[1].first + wire[1].size <= taken
        /\ wire[1].first \in Nat /\ wire[1].size \in Nat \ {0}
    BY <1>3, <2>1 DEF PaidFor
  <2>3. received' <= BufferSize * (wire[1].first + wire[1].size)
    BY <1>0, <1>6, <2>2 DEF BufferSize
  <2>4. received' <= BufferSize * taken'
    BY <1>0, <2>2, <2>3 DEF BufferSize
  <2>5. ASSUME NEW i \in Nat, IsFrame(i)'
        PROVE  /\ received' <= BufferSize * wire'[i].first
               /\ wire'[i].first + wire'[i].size <= taken'
    <3>1. /\ IsFrame(i + 1) /\ 1 < i + 1 /\ wire'[i] = wire[i + 1] /\ i + 1 \in Nat
          /\ wire'[i].first + wire'[i].size <= taken'
      BY <1>a, <2>5
    <3>2. wire[1].first + wire[1].size <= wire[i + 1].first
      BY <2>1, <3>1 DEF PaidFor
    <3>4. wire[i + 1].first \in Nat
      BY <1>3, <3>1
    <3>5. received' <= BufferSize * wire[i + 1].first
      BY <1>0, <2>2, <2>3, <3>2, <3>4 DEF BufferSize
    <3> QED BY <3>1, <3>5
  <2> QED BY <1>5, <2>4, <2>5 DEF PaidFor
<1> QED BY <1>6, <1>7 DEF TakesHead

LEMMA PaidForStep ==
  ASSUME IInv, [Next]_vars
  PROVE  PaidFor'
<1>0. TypeOK /\ FramesWhole /\ PaidFor /\ Listening
  BY DEF IInv, SetUp
<1>1. ASSUME wire' = wire, taken' = taken, received' = received
      PROVE  PaidFor'
  BY <1>0, <1>1 DEF PaidFor, IsFrame
<1>2. CASE \/ Introduce \/ Disconnected \/ Killed \/ HandleConnect \/ ConnectFailed
           \/ HandleData \/ WriteDone \/ ReadFailed \/ EntryReadFailed
           \/ TargetSends \/ TargetEnds \/ UNCHANGED vars
  BY <1>1, <1>2 DEF Introduce, Disconnected, Killed, HandleConnect, ConnectFailed,
    HandleData, WriteDone, ReadFailed, EntryReadFailed, TargetSends, TargetEnds,
    localVars, serverVars, vars
<1>3. CASE AskToConnect \/ SendData
  <2>1. wire # <<>> /\ wire' = Tail(wire) /\ taken' = taken /\ received' = received
    BY <1>3 DEF AskToConnect, SendData, serverVars, localVars
  <2>2. received' \in Nat
    BY <1>0, <2>1 DEF TypeOK
  <2> QED BY <1>0, <2>1, <2>2, PaidForRead DEF TakesHead
<1>4. CASE Listen
  <2>1. /\ wire # <<>> /\ wire' = Tail(wire)
        /\ received' \in Nat /\ received' <= received + BufferSize
        /\ Carries(Head(wire)) /\ taken' = taken
    BY <1>0, <1>4, RecordTaken DEF Listen, serverVars
  <2> QED BY <1>0, <2>1, PaidForRead DEF TakesHead
<1>5. CASE HandleStartTunnel \/ ConnectDone
  <2>1. PICK k \in {"start_tunnel", "connect"} : Write(Answer(k))
    BY <1>5 DEF HandleStartTunnel, ConnectDone
  <2>2. /\ taken' = taken + 0 /\ received' = received
        /\ Answer(k) \in Record /\ ~Carries(Answer(k))
    BY <1>0, <1>5, AnswerTyped DEF HandleStartTunnel, ConnectDone, localVars, Carries, TypeOK
  <2> QED BY <1>0, <2>1, <2>2, PaidForWrite
<1>6. CASE Relay
  <2>1. /\ Waiting /\ Write(Frame(taken, Taken)) /\ taken' = taken + Taken
        /\ received' = received
    BY <1>6 DEF Relay, RelayThen, localVars
  <2>2. /\ Frame(taken, Taken) \in Record /\ Taken \in Nat
        /\ Frame(taken, Taken).first = taken /\ Frame(taken, Taken).size = Taken
    BY <1>0, <2>1, TakenSizes DEF Frame, MaxRead
  <2> QED BY <1>0, <2>1, <2>2, PaidForWrite
<1> QED BY <1>2, <1>3, <1>4, <1>5, <1>6 DEF Next

-----------------------------------------------------------------------------
(* The theorems.                                                           *)

(* The invariant holds in every state of every behaviour.                  *)
THEOREM Invariance == Spec => []IInv
<1>1. IInv /\ [Next]_vars => IInv'
  <2> SUFFICES ASSUME IInv, [Next]_vars PROVE IInv'
    OBVIOUS
  <2>1. TypeOK' /\ FramesWhole'
    BY TypeStep DEF IInv, SetUp
  <2>2. Reading'
    BY ReadingStep DEF IInv
  <2> QED BY <2>1, <2>2, SetUpStep, AnsweredStep, FollowingStep, PaidForStep DEF IInv
<1> QED BY InitIInv, <1>1, PTL DEF Spec

(* Every variable stays in its type: no completion takes a counter below   *)
(* zero, and no read takes more of the target's stream than has arrived.   *)
THEOREM TypeCorrect == Spec => []TypeOK
<1>1. IInv => TypeOK
  BY DEF IInv
<1> QED BY Invariance, <1>1, PTL

(* As long as no write to the client was late, what debug_client prints is *)
(* the beginning of what the target sent, however it arrived.              *)
THEOREM AlwaysShownAsSent == Spec => []ShownAsSent
<1>1. IInv => ShownAsSent
  <2> SUFFICES ASSUME IInv, ~late, NEW i \in DOMAIN shown
               PROVE  shown[i].first =
                        IF i = 1 THEN 0 ELSE shown[i - 1].first + shown[i - 1].size
    BY DEF ShownAsSent
  <2>1. shown \in Seq([first : Nat, size : Nat]) /\ i \in 1 .. Len(shown)
    BY DEF IInv, TypeOK
  <2>2. PICK m \in Nat : Chain(shown, 0, m)
    BY DEF IInv, Following
  <2> QED BY <2>1, <2>2 DEF Chain
<1> QED BY Invariance, <1>1, PTL

(* debug_client never ends by itself unless a write to it was late: every  *)
(* answer is taken for itself and every frame for one frame.               *)
THEOREM NeverBreaks == Spec => []BreaksOnlyAfterLateWrite
<1>1. IInv => BreaksOnlyAfterLateWrite
  BY DEF IInv, Answered, BreaksOnlyAfterLateWrite
<1> QED BY Invariance, <1>1, PTL

(* The session never has two reads outstanding on one connection.          *)
THEOREM NeverTwoReads == Spec => []OneReadAtATime
<1>1. IInv => OneReadAtATime
  <2> SUFFICES ASSUME IInv PROVE OneReadAtATime
    OBVIOUS
  <2>1. /\ exit.reads \in Nat /\ exit.writes \in Nat
        /\ entry.reads <= 1 /\ exit.reads + exit.writes <= 1
    BY DEF IInv, TypeOK, Reading, Connection
  <2> QED BY <2>1 DEF OneReadAtATime
<1> QED BY Invariance, <1>1, PTL

(* The client's received does not overflow, late writes or not, as long as *)
(* the stream is shorter than 2^20 bytes.                                  *)
THEOREM CounterFits == Spec => []ReceivedFits
<1>1. IInv => ReceivedFits
  <2> SUFFICES ASSUME IInv PROVE ReceivedFits
    OBVIOUS
  <2>1. received \in Nat /\ taken \in Nat /\ taken <= 1048575
    BY BoundsAssumption DEF IInv, TypeOK
  <2>2. received <= 2048 * taken
    BY DEF IInv, PaidFor, BufferSize
  <2> QED BY <2>1, <2>2 DEF ReceivedFits
<1> QED BY Invariance, <1>1, PTL
=============================================================================
