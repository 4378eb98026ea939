----------------------- MODULE TokenDirectory_proofs -----------------------
(***************************************************************************)
(* TunnelExit implements TokenDirectory, for any clients, connections and  *)
(* tokens and any bounds.                                                  *)
(*                                                                         *)
(* Beyond the invariant of TunnelExit_proofs two facts are needed: a       *)
(* connection that came up has been answered for, and each segment read    *)
(* under a route has been relayed, whole or not.                           *)
(***************************************************************************)
EXTENDS TunnelExit_proofs

Answered == \A c \in Conns : Running /\ link[c] = "up" => answers[c] # <<>>

Counted ==
  \A c \in Conns : Running /\ Routed(c) => Len(relayed[c]) = taken[c]

DInv == IInv /\ Answered /\ Counted

LEMMA InitDInv == Init => DInv
<1> SUFFICES ASSUME Init PROVE DInv
  OBVIOUS
<1>1. IInv
  BY InitIInv
<1>2. Answered
  BY DEF Init, Answered
<1>3. Counted
  BY DEF Init, Counted, Routed
<1> QED BY <1>1, <1>2, <1>3 DEF DInv

(***************************************************************************)
(* Only a success brings a connection up, and an answer is never taken     *)
(* back.                                                                   *)
(***************************************************************************)
LEMMA AnsweredStep ==
  ASSUME DInv, [Next]_vars
  PROVE  Answered'
<1> SUFFICES ASSUME NEW c \in Conns, Running', link'[c] = "up"
             PROVE  answers'[c] # <<>>
  BY DEF Answered
<1>0. TypeOK /\ Stages /\ Running
  BY StillRunning DEF DInv, IInv
<1>1. answers[c] \in Seq(Route)
  BY <1>0 DEF TypeOK
<1>2. CASE ConnectSucceeded(c)
  <2>1. link[c] = "connecting" /\ proc' = "running"
    BY <1>2 DEF ConnectSucceeded, Running
  <2>2. connection_list[c].token \in TokensOf(c)
    BY <1>0, <2>1 DEF Stages, Known, TokensOf, Listed
  <2>3. PICK t \in TokensOf(c) :
          answers' = [answers EXCEPT ![c] = Append(@,
            [token |-> t, source |-> connection_list[c].source])]
    BY <1>2, <2>1, <2>2 DEF ConnectSucceeded, Terminated
  <2>4. answers'[c] = Append(answers[c],
          [token |-> t, source |-> connection_list[c].source])
    BY <1>0, <2>3 DEF TypeOK
  <2> QED BY <1>1, <2>4
<1>3. CASE ~ConnectSucceeded(c)
  <2>1. answers'[c] = answers[c]
    BY <1>0, <1>3, AnswerSteps
  <2>2. link[c] = "up"
    <3>1. ASSUME NEW k \in Clients, NEW d \in Conns, NEW t \in Tokens,
                 AsyncConnect(k, d, t)
          PROVE  link[c] = "up"
      BY <1>0, <3>1 DEF AsyncConnect, TypeOK
    <3>2. ASSUME NEW d \in Conns, ReadFailed(d)
          PROVE  link[c] = "up"
      BY <3>2 DEF ReadFailed
    <3>3. ASSUME NEW d \in Conns, ConnectSucceeded(d) \/ ConnectFailed(d)
          PROVE  link[c] = "up"
      BY <1>0, <1>3, <3>3 DEF ConnectSucceeded, ConnectFailed, TypeOK
    <3>4. CASE UNCHANGED link
      BY <3>4
    <3>5. CASE UNCHANGED vars
      BY <3>5 DEF vars
    <3>6. CASE Next
      BY <3>1, <3>2, <3>3, <3>4, <3>6
         DEF Next, ResolveThrows, Data, WriteDone, WriteFailed, ReadSome,
             TargetSends, TargetCloses, ClientLeaves
    <3> QED BY <3>5, <3>6
  <2> QED BY <1>0, <2>1, <2>2 DEF DInv, Answered
<1> QED BY <1>2, <1>3

(***************************************************************************)
(* A segment that is taken while its route exists is relayed.              *)
(***************************************************************************)
LEMMA CountedStep ==
  ASSUME DInv, [Next]_vars
  PROVE  Counted'
<1> SUFFICES ASSUME NEW c \in Conns, Running', Routed(c)'
             PROVE  Len(relayed'[c]) = taken'[c]
  BY DEF Counted
<1>0. TypeOK /\ Stages /\ Running
  BY StillRunning DEF DInv, IInv
<1>1. relayed[c] \in Seq(Delivery) /\ taken[c] \in Nat
  BY <1>0 DEF TypeOK
<1>2. CASE ~Routed(c)
  <2>1. link[c] = "unused"
    BY <1>0, <1>2, NewRoutes
  <2>2. taken[c] = 0 /\ relayed[c] = <<>> /\ ~(conn[c].reads > 0)
    BY <1>0, <2>1 DEF Stages, Fresh, OnlyUpIsUsed
  <2>3. Quiet(c)
    BY <1>0, <2>1, <2>2, ReadSteps DEF ReadSome, ReadFailed, Waiting, WriteDone
  <2> QED BY <2>2, <2>3 DEF Quiet
<1>3. CASE Routed(c)
  <2>1. Len(relayed[c]) = taken[c]
    BY <1>0, <1>3 DEF DInv, Counted
  <2>2. CASE Quiet(c) \/ Posts(c)
    BY <2>1, <2>2 DEF Quiet, Posts
  <2>3. CASE Relays(c)
    <3>1. PICK n : relayed'[c] = Append(relayed[c], n) /\ taken'[c] = taken[c] + 1
      BY <2>3 DEF Relays
    <3>2. Len(Append(relayed[c], n)) = Len(relayed[c]) + 1
      BY <1>1
    <3> QED BY <2>1, <3>1, <3>2
  <2> QED BY <1>0, <2>2, <2>3, RoutedSteps
<1> QED BY <1>2, <1>3

LEMMA StepDInv == DInv /\ [Next]_vars => DInv'
BY StepIInv, AnsweredStep, CountedStep DEF DInv

-----------------------------------------------------------------------------
(* The simulation.                                                         *)

(***************************************************************************)
(* What a step leaves of the mapping when it leaves the variables alone.   *)
(***************************************************************************)
LEMMA MappingKept ==
  /\ UNCHANGED tables => DirectoryOf' = DirectoryOf
  /\ UNCHANGED link => Asked' = Asked
  /\ UNCHANGED conn => WritesTo' = WritesTo
  /\ UNCHANGED relayed => RelaysOf' = RelaysOf
  /\ UNCHANGED remote => Ended' = Ended
BY DEF tables, DirectoryOf, Asked, WritesTo, RelaysOf, Ended

(* What a handler does to writes, and what it leaves alone.                *)
LEMMA WritesCounted ==
  ASSUME NEW c \in Connection
  PROVE  /\ AsyncWrite(c).writes = c.writes + 1
         /\ Disconnect(c).writes = c.writes
         /\ c.reads > 0 => /\ ReadCompleted(c).writes = c.writes
                           /\ AsyncReadSome(ReadCompleted(c)).writes = c.writes
         /\ c.writes > 0 => AsyncReadSome(WriteCompleted(c)).writes = c.writes - 1
<1>1. /\ AsyncWrite(c).writes = c.writes + 1
      /\ Disconnect(c).writes = c.writes
  BY DEF AsyncWrite, Disconnect, Connection
<1>2. ASSUME NEW d \in Connection
      PROVE  AsyncReadSome(d).writes = d.writes
  <2>1. MoreReads(d) \in Connection /\ MoreReads(d).writes = d.writes
    BY DEF MoreReads, Connection
  <2>2. [MoreReads(d) EXCEPT !.torn = TRUE].writes = MoreReads(d).writes
    BY <2>1 DEF Connection
  <2> QED BY <2>1, <2>2 DEF AsyncReadSome
<1>3. ASSUME c.reads > 0
      PROVE  ReadCompleted(c).writes = c.writes
  <2>1. FewerReads(c) \in Connection /\ FewerReads(c).writes = c.writes
    BY <1>3 DEF FewerReads, Connection
  <2>2. [FewerReads(c) EXCEPT !.torn = FALSE].writes = FewerReads(c).writes
    BY <2>1 DEF Connection
  <2> QED BY <2>1, <2>2 DEF ReadCompleted
<1>4. c.reads > 0 => AsyncReadSome(ReadCompleted(c)).writes = c.writes
  BY <1>2, <1>3, Completed
<1>5. ASSUME c.writes > 0
      PROVE  AsyncReadSome(WriteCompleted(c)).writes = c.writes - 1
  <2>1. WriteCompleted(c) \in Connection /\ WriteCompleted(c).writes = c.writes - 1
    BY <1>5 DEF WriteCompleted, Connection
  <2> QED BY <1>2, <2>1
<1> QED BY <1>1, <1>3, <1>4, <1>5

(***************************************************************************)
(* AsyncConnect enters the token, or comes to nothing.                     *)
(***************************************************************************)
LEMMA ConnectMaps ==
  ASSUME DInv, NEW k \in Clients, NEW c \in Conns, NEW t \in Tokens,
         AsyncConnect(k, c, t)
  PROVE  Directory!Enter(t, c, k) \/ Directory!Waste(c)
<1>0. TypeOK /\ Stages /\ RoutesAgree
  BY DEF DInv, IInv
<1>1. Enters(k, c, t)
  BY <1>0, Entered
<1>2. c \notin Asked /\ Asked' = Asked \cup {c}
  BY <1>0 DEF AsyncConnect, Asked, TypeOK
<1>3. /\ Running /\ UNCHANGED <<answers, items, proc>>
      /\ WritesTo' = WritesTo /\ RelaysOf' = RelaysOf /\ Ended' = Ended
  BY MappingKept DEF AsyncConnect, traffic
<1>4. \A u \in DOMAIN token_list :
        /\ u \in DOMAIN token_list' /\ token_list'[u] = token_list[u]
        /\ connection_list'[token_list[u]] = connection_list[token_list[u]]
  BY <1>0, <1>1 DEF Enters, RoutesAgree, Routed
<1>5. CASE Listed(t)
  <2>1. DOMAIN token_list' = DOMAIN token_list
    BY <1>1, <1>5 DEF Enters, Listed
  <2>2. DirectoryOf' = DirectoryOf
    BY <1>4, <2>1 DEF DirectoryOf
  <2> QED BY <1>2, <1>3, <2>2 DEF Directory!Waste, Directory!Running, Running
<1>6. CASE ~Listed(t)
  <2>1. ~Directory!InUse(t)
    BY <1>6 DEF Directory!InUse, DirectoryOf, Listed
  <2>2. DirectoryOf' =
          [x \in DOMAIN DirectoryOf \cup {t} |->
             IF x = t THEN [conn |-> c, client |-> k] ELSE DirectoryOf[x]]
    <3>1. DOMAIN DirectoryOf = DOMAIN token_list
      BY DEF DirectoryOf
    <3>2. DirectoryOf' = [x \in DOMAIN token_list \cup {t} |->
             [conn |-> token_list'[x],
              client |-> connection_list'[token_list'[x]].source]]
      BY <1>1 DEF DirectoryOf, Enters
    <3>3. token_list'[t] = c /\ connection_list'[c].source = k
      BY <1>1, <1>6 DEF Enters
    <3>4. \A x \in DOMAIN token_list :
            DirectoryOf[x] =
              [conn |-> token_list'[x],
               client |-> connection_list'[token_list'[x]].source]
      BY <1>4 DEF DirectoryOf
    <3>5. t \notin DOMAIN token_list
      BY <1>6 DEF Listed
    <3> QED BY <3>1, <3>2, <3>3, <3>4, <3>5
  <2> QED BY <1>2, <1>3, <2>1, <2>2 DEF Directory!Enter, Directory!Running, Running
<1> QED BY <1>5, <1>6

(***************************************************************************)
(* The end of the process: nothing else that the directory sees happens.   *)
(***************************************************************************)
LEMMA TerminationMaps ==
  ASSUME Running, Terminated, UNCHANGED <<tables, conn, remote, items, relayed, answers>>,
         Asked' = Asked
  PROVE  Directory!Terminate
<1>1. /\ DirectoryOf' = DirectoryOf /\ WritesTo' = WritesTo
      /\ RelaysOf' = RelaysOf /\ Ended' = Ended
  BY MappingKept
<1> QED BY <1>1 DEF Directory!Terminate, Directory!Running, Running, Terminated

LEMMA Stutters ==
  ASSUME UNCHANGED <<tables, items, relayed, answers, proc>>,
         Asked' = Asked, WritesTo' = WritesTo, Ended' = Ended
  PROVE  UNCHANGED Directory!vars
BY MappingKept DEF Directory!vars

(***************************************************************************)
(* The result of a connection is given for the token it has.               *)
(***************************************************************************)
LEMMA SuccessMaps ==
  ASSUME DInv, NEW c \in Conns, ConnectSucceeded(c)
  PROVE  Directory!Terminate \/ \E t \in Tokens : Directory!Tell(t)
<1>0. TypeOK /\ Stages /\ RoutesAgree /\ Running /\ link[c] = "connecting"
  BY DEF DInv, IInv, ConnectSucceeded
<1>1. /\ UNCHANGED <<tables, remote, items, relayed>>
      /\ Asked' = Asked
  BY <1>0 DEF ConnectSucceeded, traffic, Asked, TypeOK
<1>2. connection_list[c].token \in TokensOf(c)
  BY <1>0 DEF Stages, Known, TokensOf, Listed
<1>3. CASE Terminated /\ UNCHANGED <<answers, conn>>
  BY <1>0, <1>1, <1>3, TerminationMaps DEF tables
<1>4. CASE ~(Terminated /\ UNCHANGED <<answers, conn>>)
  <2>1. PICK t \in TokensOf(c) :
          /\ Routed(c) /\ UNCHANGED <<conn, proc>>
          /\ answers' = [answers EXCEPT ![c] = Append(@,
               [token |-> t, source |-> connection_list[c].source])]
    BY <1>2, <1>4 DEF ConnectSucceeded
  <2>2. /\ t \in Tokens /\ t \in DOMAIN DirectoryOf
        /\ DirectoryOf[t].conn = c
        /\ DirectoryOf[t].client = connection_list[c].source
    BY <1>0, <2>1 DEF TokensOf, DirectoryOf, TypeOK
  <2>3. answers[c] = <<>>
    BY <1>0 DEF Stages, OnlyUpIsUsed
  <2>4. answers' = [answers EXCEPT ![c] =
          <<[token |-> t, source |-> connection_list[c].source]>>]
    BY <2>1, <2>3
  <2>5. /\ DirectoryOf' = DirectoryOf /\ WritesTo' = WritesTo
        /\ RelaysOf' = RelaysOf /\ Ended' = Ended
    BY <1>1, <2>1, MappingKept
  <2>6. Directory!Running /\ Directory!InUse(t)
    BY <1>0, <2>2 DEF Directory!Running, Directory!InUse, Running
  <2>7. Directory!Tell(t)
    BY <1>1, <2>1, <2>2, <2>3, <2>4, <2>5, <2>6 DEF Directory!Tell
  <2> QED BY <2>2, <2>7
<1> QED BY <1>3, <1>4

(***************************************************************************)
(* Data goes to the target of its token.                                   *)
(***************************************************************************)
LEMMA DataMaps ==
  ASSUME DInv, NEW k \in Clients, NEW t \in Tokens, Data(k, t)
  PROVE  Directory!Send(t)
<1>0. TypeOK /\ RoutesAgree
  BY DEF DInv, IInv
<1>1. /\ Running /\ Told(k, t) /\ Listed(t) /\ token_list[t] \in Conns
      /\ Routed(token_list[t])
      /\ UNCHANGED <<tables, link, remote, traffic, answers>>
  BY <1>0 DEF Data, Listed, RoutesAgree, TypeOK
<1>2. conn' = [conn EXCEPT ![token_list[t]] = AsyncWrite(@)] /\ UNCHANGED proc
  BY <1>1 DEF Data
<1>3. /\ t \in DOMAIN DirectoryOf /\ DirectoryOf[t].conn = token_list[t]
  BY <1>1 DEF DirectoryOf, Listed
<1>4. WritesTo' = [WritesTo EXCEPT ![token_list[t]] = @ + 1]
  <2>1. \A d \in Conns :
          conn'[d].writes = IF d = token_list[t] THEN conn[d].writes + 1
                            ELSE conn[d].writes
    BY <1>0, <1>1, <1>2, WritesCounted DEF TypeOK
  <2> QED BY <1>1, <2>1 DEF WritesTo
<1>5. /\ DirectoryOf' = DirectoryOf /\ RelaysOf' = RelaysOf
      /\ Ended' = Ended /\ Asked' = Asked
  BY <1>1, MappingKept DEF traffic
<1>6. \E c \in Conns : \E i \in DOMAIN answers[c] : answers[c][i].token = t
  BY <1>1 DEF Told
<1> QED
  BY <1>1, <1>2, <1>3, <1>4, <1>5, <1>6
     DEF Directory!Send, Directory!InUse, Directory!Running, Running, traffic

(***************************************************************************)
(* A write completes; the read that it starts is not the directory's.      *)
(***************************************************************************)
LEMMA WriteMaps ==
  ASSUME DInv, NEW c \in Conns, WriteDone(c)
  PROVE  Directory!Sent(c)
<1>0. TypeOK /\ conn[c] \in Connection /\ conn[c].writes > 0
  BY DEF DInv, IInv, TypeOK, WriteDone
<1>1. WritesTo' = [WritesTo EXCEPT ![c] = @ - 1]
  <2>1. \A d \in Conns :
          conn'[d].writes = IF d = c THEN conn[d].writes - 1 ELSE conn[d].writes
    BY <1>0, WritesCounted DEF TypeOK, WriteDone
  <2> QED BY <2>1 DEF WritesTo
<1>2. WritesTo[c] > 0
  BY <1>0 DEF WritesTo
<1>3. /\ DirectoryOf' = DirectoryOf /\ RelaysOf' = RelaysOf
      /\ Ended' = Ended /\ Asked' = Asked
  BY MappingKept DEF WriteDone, traffic
<1> QED
  BY <1>1, <1>2, <1>3
     DEF WriteDone, Directory!Sent, Directory!Running, Running, traffic

(***************************************************************************)
(* The token of a connection that is read from is in the directory, and    *)
(* its client has been told.                                               *)
(***************************************************************************)
LEMMA ReadUnderToken ==
  ASSUME DInv, NEW c \in Conns, Waiting(c), Routed(c)
  PROVE  \E t \in Tokens :
           /\ t = connection_list[c].token
           /\ t \in DOMAIN DirectoryOf /\ DirectoryOf[t].conn = c
           /\ answers[c] # <<>>
<1>0. TypeOK /\ Stages /\ Answered
  BY DEF DInv, IInv
<1>1. link[c] = "up" /\ answers[c] # <<>>
  BY <1>0 DEF Waiting, Stages, OnlyUpIsUsed, Answered
<1>2. /\ Listed(connection_list[c].token)
      /\ token_list[connection_list[c].token] = c
  BY <1>0, <1>1 DEF Stages, Known
<1> QED BY <1>0, <1>1, <1>2 DEF Listed, DirectoryOf, TypeOK

(* Completing a read, and starting another, leaves the writes as they are. *)
LEMMA ReadKeepsWrites ==
  ASSUME DInv, NEW c \in Conns, Waiting(c),
         \/ UNCHANGED conn
         \/ conn' = [conn EXCEPT ![c] = ReadCompleted(@)]
         \/ conn' = [conn EXCEPT ![c] = AsyncReadSome(ReadCompleted(@))]
  PROVE  WritesTo' = WritesTo
<1>0. TypeOK /\ conn[c] \in Connection /\ conn[c].reads > 0
  BY DEF DInv, IInv, TypeOK, Waiting
<1>1. \A d \in Conns : conn'[d].writes = conn[d].writes
  BY <1>0, WritesCounted DEF TypeOK
<1> QED BY <1>1 DEF WritesTo

(***************************************************************************)
(* Who was written to.                                                     *)
(***************************************************************************)
LEMMA RecipientsOf ==
  ASSUME NEW s \in Seq(Delivery), NEW d \in Delivery
  PROVE  /\ Recipients(s) \in Seq(Clients) /\ Len(Recipients(s)) = Len(s)
         /\ Recipients(Append(s, d)) = Append(Recipients(s), d.to)
<1>1. \A i \in DOMAIN s : s[i].to \in Clients
  <2>1. \A i \in DOMAIN s : s[i] \in Delivery
    OBVIOUS
  <2> QED BY <2>1 DEF Delivery
<1>2. Recipients(s) \in Seq(Clients) /\ Len(Recipients(s)) = Len(s)
  BY <1>1 DEF Recipients
<1>3. Recipients(Append(s, d)) = Append(Recipients(s), d.to)
  BY DEF Recipients
<1> QED BY <1>2, <1>3

LEMMA RelaysCounted ==
  ASSUME TypeOK, Counted, Running, NEW c \in Conns, Routed(c)
  PROVE  Len(RelaysOf[c]) = taken[c]
<1>1. Len(relayed[c]) = taken[c] /\ DOMAIN relayed[c] = 1 .. Len(relayed[c])
  BY DEF Counted, TypeOK
<1>2. RelaysOf[c] = [i \in 1 .. Len(relayed[c]) |-> relayed[c][i].to]
  BY <1>1 DEF RelaysOf, Recipients
<1>3. Len(relayed[c]) \in Nat
  BY DEF TypeOK
<1> QED BY <1>1, <1>2, <1>3

(***************************************************************************)
(* A read relays under its token, is dropped, or ends the process.         *)
(***************************************************************************)
LEMMA ReadMaps ==
  ASSUME DInv, NEW c \in Conns, ReadSome(c)
  PROVE  \/ \E t \in Tokens : Directory!Relay(t)
         \/ Directory!Terminate
         \/ UNCHANGED Directory!vars
<1>0. /\ TypeOK /\ Counted /\ Running /\ Waiting(c) /\ taken[c] < items[c]
      /\ UNCHANGED <<tables, link, remote, items, answers>>
  BY DEF DInv, IInv, ReadSome, Waiting
<1>1. /\ DirectoryOf' = DirectoryOf /\ Ended' = Ended /\ Asked' = Asked
  BY <1>0, MappingKept
<1>2. CASE /\ Named(c) /\ Routed(c) /\ UNCHANGED proc
           /\ \E s \in SegmentsRead(c) :
                relayed' = [relayed EXCEPT ![c] = Append(@,
                  [segment |-> s, to |-> connection_list[c].source])]
           /\ conn' = [conn EXCEPT ![c] = AsyncReadSome(ReadCompleted(@))]
  <2>1. PICK t \in Tokens :
          /\ t \in DOMAIN DirectoryOf /\ DirectoryOf[t].conn = c
          /\ answers[c] # <<>>
    BY <1>0, <1>2, ReadUnderToken
  <2>2. WritesTo' = WritesTo
    BY <1>0, <1>2, ReadKeepsWrites
  <2>3. RelaysOf' = [RelaysOf EXCEPT ![c] = Append(@, DirectoryOf[t].client)]
    <3>1. relayed[c] \in Seq(Delivery) /\ relayed \in [Conns -> Seq(Delivery)]
      BY <1>0 DEF TypeOK
    <3>2. PICK s \in SegmentsRead(c) :
            relayed' = [relayed EXCEPT ![c] = Append(@,
              [segment |-> s, to |-> connection_list[c].source])]
      BY <1>2
    <3> DEFINE d == [segment |-> s, to |-> connection_list[c].source]
    <3>3. d \in Delivery
      <4>1. s \in Nat
        BY <1>0 DEF SegmentsRead, TypeOK
      <4>2. connection_list[c].source \in Clients
        BY <1>0, <1>2 DEF TypeOK, Routed, Route
      <4> QED BY <4>1, <4>2 DEF Delivery
    <3>4. d.to = DirectoryOf[t].client
      BY <2>1 DEF DirectoryOf
    <3>5. relayed' = [relayed EXCEPT ![c] = Append(@, d)]
      BY <3>2
    <3> HIDE DEF d
    <3>6. Recipients(relayed'[c]) = Append(Recipients(relayed[c]), DirectoryOf[t].client)
      BY <3>1, <3>3, <3>4, <3>5, RecipientsOf
    <3> QED BY <3>1, <3>5, <3>6 DEF RelaysOf
  <2>4. Len(RelaysOf[c]) < items[c]
    BY <1>0, <1>2, RelaysCounted
  <2>5. Directory!Relay(t)
    BY <1>0, <1>1, <1>2, <2>1, <2>2, <2>3, <2>4
       DEF Directory!Relay, Directory!InUse, Directory!Running, Running
  <2> QED BY <2>5
<1>3. CASE /\ ~Routed(c) /\ UNCHANGED <<relayed, proc>>
           /\ conn' = [conn EXCEPT ![c] = ReadCompleted(@)]
  <2>1. WritesTo' = WritesTo
    BY <1>0, <1>3, ReadKeepsWrites
  <2> QED BY <1>0, <1>1, <1>3, <2>1, Stutters
<1>4. CASE Terminated /\ UNCHANGED <<relayed, conn>>
  BY <1>0, <1>1, <1>4, TerminationMaps
<1> QED BY <1>2, <1>3, <1>4 DEF ReadSome

(***************************************************************************)
(* The end of a stream takes the token out of the directory, when all the  *)
(* target has sent was relayed; it is nothing when the route is gone.      *)
(***************************************************************************)
LEMMA CloseMaps ==
  ASSUME DInv, NEW c \in Conns, ReadFailed(c)
  PROVE  \/ \E t \in Tokens : Directory!Remove(t)
         \/ Directory!Terminate
         \/ UNCHANGED Directory!vars
<1>0. /\ TypeOK /\ Stages /\ Counted /\ Running /\ Waiting(c)
      /\ UNCHANGED <<link, remote, traffic, answers>>
  BY DEF DInv, IInv, ReadFailed, Waiting
<1>1. /\ RelaysOf' = RelaysOf /\ Ended' = Ended /\ Asked' = Asked
  BY <1>0, MappingKept DEF traffic
<1>2. CASE Terminated /\ UNCHANGED <<tables, conn>>
  BY <1>0, <1>1, <1>2, TerminationMaps DEF traffic
<1>3. CASE ~(Terminated /\ UNCHANGED <<tables, conn>>)
  <2>1. /\ remote[c] = "fin" /\ taken[c] = items[c] /\ UNCHANGED proc
        /\ conn' = [conn EXCEPT ![c] = ReadCompleted(@)]
        /\ ~Routed(c) => UNCHANGED tables
    BY <1>3 DEF ReadFailed, tables
  <2>2. WritesTo' = WritesTo
    BY <1>0, <2>1, ReadKeepsWrites
  <2>3. CASE UNCHANGED tables
    BY <1>0, <1>1, <2>1, <2>2, <2>3, Stutters DEF traffic
  <2>4. CASE ~UNCHANGED tables
    <3>1. Erases(c)
      BY <1>0, <2>4, Erased
    <3>2. PICK t \in Tokens :
            /\ t = connection_list[c].token
            /\ t \in DOMAIN DirectoryOf /\ DirectoryOf[t].conn = c
      BY <1>0, <3>1, ReadUnderToken DEF Erases
    <3>3. c \in Ended /\ Len(RelaysOf[c]) = items[c]
      BY <1>0, <2>1, <3>1, RelaysCounted DEF Ended, Erases
    <3>4. DirectoryOf' = [x \in DOMAIN DirectoryOf \ {t} |-> DirectoryOf[x]]
      <4>1. DOMAIN DirectoryOf = DOMAIN token_list
        BY DEF DirectoryOf
      <4>2. DOMAIN token_list' = DOMAIN token_list \ {t}
        BY <3>1, <3>2 DEF Erases
      <4>3. \A u \in DOMAIN token_list' :
              /\ token_list'[u] = token_list[u]
              /\ token_list[u] # c
              /\ connection_list'[token_list[u]] = connection_list[token_list[u]]
        BY <3>1, <3>2, <4>2 DEF Erases, DInv, IInv, RoutesAgree, Routed
      <4>4. DirectoryOf' = [u \in DOMAIN token_list \ {t} |-> DirectoryOf[u]]
        BY <4>2, <4>3 DEF DirectoryOf
      <4> QED BY <4>1, <4>4
    <3>5. Directory!Remove(t)
      BY <1>0, <1>1, <2>1, <2>2, <3>2, <3>3, <3>4
         DEF Directory!Remove, Directory!InUse, Directory!Running, Running, traffic
    <3> QED BY <3>5
  <2> QED BY <2>3, <2>4
<1> QED BY <1>2, <1>3

(***************************************************************************)
(* The targets send and close.                                             *)
(***************************************************************************)
LEMMA TargetMaps ==
  ASSUME DInv, NEW c \in Conns,
         TargetSends(c) \/ \E how \in {"fin", "reset"} : TargetCloses(c, how)
  PROVE  Directory!TargetSends(c) \/ Directory!TargetCloses(c)
<1>0. TypeOK
  BY DEF DInv, IInv
<1>1. CASE TargetSends(c)
  <2>1. c \in Asked \ Ended
    BY <1>1 DEF TargetSends, Asked, Ended
  <2>2. /\ DirectoryOf' = DirectoryOf /\ WritesTo' = WritesTo
        /\ RelaysOf' = RelaysOf /\ Ended' = Ended /\ Asked' = Asked
    BY <1>1, MappingKept DEF TargetSends
  <2> QED
    BY <1>1, <2>1, <2>2
       DEF TargetSends, Directory!TargetSends, Directory!Running, Running
<1>2. CASE \E how \in {"fin", "reset"} : TargetCloses(c, how)
  <2>1. PICK how \in {"fin", "reset"} : TargetCloses(c, how)
    BY <1>2
  <2>2. c \in Asked /\ Ended' = Ended \cup {c}
    BY <1>0, <2>1 DEF TargetCloses, Asked, Ended, TypeOK
  <2>3. /\ DirectoryOf' = DirectoryOf /\ WritesTo' = WritesTo
        /\ RelaysOf' = RelaysOf /\ Asked' = Asked
    BY <2>1, MappingKept DEF TargetCloses, traffic
  <2> QED
    BY <2>1, <2>2, <2>3
       DEF TargetCloses, Directory!TargetCloses, Directory!Running, Running, traffic
<1> QED BY <1>1, <1>2

(***************************************************************************)
(* Every step of tunnel_exit is a step of the directory, or none.          *)
(***************************************************************************)
LEMMA NextMaps ==
  ASSUME DInv, [Next]_vars
  PROVE  [Directory!Next]_(Directory!vars)
<1>0. TypeOK
  BY DEF DInv, IInv
<1>1. ASSUME NEW k \in Clients, NEW c \in Conns, NEW t \in Tokens,
             AsyncConnect(k, c, t)
      PROVE  Directory!Next
  BY <1>1, ConnectMaps DEF Directory!Next
<1>2. CASE ResolveThrows \/ \E c \in Conns : WriteFailed(c)
  <2>1. /\ Running /\ Terminated
        /\ UNCHANGED <<tables, conn, remote, items, relayed, answers, link>>
    BY <1>2 DEF ResolveThrows, WriteFailed, traffic
  <2>2. Directory!Terminate
    BY <2>1, MappingKept, TerminationMaps
  <2> QED BY <2>2 DEF Directory!Next
<1>3. ASSUME NEW k \in Clients, NEW t \in Tokens, Data(k, t)
      PROVE  Directory!Next
  BY <1>3, DataMaps DEF Directory!Next
<1>4. ASSUME NEW c \in Conns, ConnectSucceeded(c)
      PROVE  Directory!Next
  BY <1>4, SuccessMaps DEF Directory!Next
<1>5. ASSUME NEW c \in Conns, ConnectFailed(c)
      PROVE  UNCHANGED Directory!vars
  <2>1. Asked' = Asked
    BY <1>0, <1>5 DEF ConnectFailed, Asked, TypeOK
  <2> QED BY <1>5, <2>1, MappingKept, Stutters DEF ConnectFailed, traffic
<1>6. ASSUME NEW c \in Conns, WriteDone(c)
      PROVE  Directory!Next
  BY <1>6, WriteMaps DEF Directory!Next
<1>7. ASSUME NEW c \in Conns, ReadSome(c)
      PROVE  [Directory!Next]_(Directory!vars)
  BY <1>7, ReadMaps DEF Directory!Next
<1>8. ASSUME NEW c \in Conns, ReadFailed(c)
      PROVE  [Directory!Next]_(Directory!vars)
  BY <1>8, CloseMaps DEF Directory!Next
<1>9. ASSUME NEW c \in Conns,
             TargetSends(c) \/ \E how \in {"fin", "reset"} : TargetCloses(c, how)
      PROVE  Directory!Next
  BY <1>9, TargetMaps DEF Directory!Next
<1>10. CASE \/ UNCHANGED vars
            \/ \E k \in Clients, how \in {"fin", "reset"} : ClientLeaves(k, how)
  <2>1. UNCHANGED <<tables, link, conn, remote, items, relayed, answers, proc>>
    BY <1>10 DEF vars, ClientLeaves, tables, traffic
  <2> QED BY <2>1, MappingKept, Stutters
<1> QED
  BY <1>1, <1>2, <1>3, <1>4, <1>5, <1>6, <1>7, <1>8, <1>9, <1>10 DEF Next

(***************************************************************************)
(* tunnel_exit, with its two tables and its reads, implements the          *)
(* directory of tokens.                                                    *)
(***************************************************************************)
THEOREM DirectoryImplemented == Spec => ImplementsDirectory
<1>1. Init => Directory!Init
  <2> SUFFICES ASSUME Init PROVE Directory!Init
    OBVIOUS
  <2>1. DirectoryOf = [t \in {} |-> 0]
    BY DEF Init, DirectoryOf
  <2>2. Asked = {} /\ Ended = {}
    BY DEF Init, Asked, Ended
  <2>3. WritesTo = [c \in Conns |-> 0] /\ RelaysOf = [c \in Conns |-> <<>>]
    BY DEF Init, WritesTo, RelaysOf, Recipients, NewConnection
  <2> QED BY <2>1, <2>2, <2>3 DEF Init, Directory!Init
<1>2. DInv /\ [Next]_vars => DInv'
  BY StepDInv
<1>3. DInv /\ [Next]_vars => [Directory!Next]_(Directory!vars)
  BY NextMaps
<1> QED
  BY <1>1, <1>2, <1>3, InitDInv, PTL DEF Spec, ImplementsDirectory, Directory!Spec
=============================================================================
