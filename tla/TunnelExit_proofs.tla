------------------------- MODULE TunnelExit_proofs -------------------------
(***************************************************************************)
(* Proofs about TunnelExit, for any sets of clients, connections and       *)
(* tokens and any bounds.                                                  *)
(*                                                                         *)
(* The safety invariants are not inductive by themselves.  IInv adds to    *)
(* them how far a connection has come (Stages) and how many reads a        *)
(* connection with overlapping reads has (Overlapping).  The proof of its  *)
(* step goes by what an action can do to the tables (TableSteps), to the   *)
(* answers (AnswerSteps) and to what is read (ReadSteps, RoutedSteps).     *)
(***************************************************************************)
EXTENDS TunnelExit, TLAPS

-----------------------------------------------------------------------------
(* Operators of TlsConnection.                                             *)

(***************************************************************************)
(* Starting a read, a write or a shutdown keeps a connection well formed,  *)
(* and only a read changes how many reads are outstanding.                 *)
(***************************************************************************)
LEMMA Started ==
  ASSUME NEW c \in Connection
  PROVE  /\ AsyncReadSome(c) \in Connection
         /\ AsyncReadSome(c).reads = c.reads + 1
         /\ AsyncWrite(c) \in Connection
         /\ AsyncWrite(c).reads = c.reads
         /\ Disconnect(c) \in Connection
         /\ Disconnect(c).reads = c.reads
<1>1. MoreReads(c) \in Connection /\ MoreReads(c).reads = c.reads + 1
  BY DEF MoreReads, Connection
<1>2. /\ [MoreReads(c) EXCEPT !.torn = TRUE] \in Connection
      /\ [MoreReads(c) EXCEPT !.torn = TRUE].reads = c.reads + 1
  BY <1>1 DEF Connection
<1>3. AsyncReadSome(c) \in Connection /\ AsyncReadSome(c).reads = c.reads + 1
  BY <1>1, <1>2 DEF AsyncReadSome
<1>4. AsyncWrite(c) \in Connection /\ AsyncWrite(c).reads = c.reads
  BY DEF AsyncWrite, Connection
<1>5. Disconnect(c) \in Connection /\ Disconnect(c).reads = c.reads
  BY DEF Disconnect, Connection
<1> QED BY <1>3, <1>4, <1>5

(***************************************************************************)
(* Completing a read that is outstanding keeps it well formed, too, and    *)
(* so does completing a write.                                             *)
(***************************************************************************)
LEMMA Completed ==
  ASSUME NEW c \in Connection
  PROVE  /\ c.reads > 0 => /\ ReadCompleted(c) \in Connection
                           /\ ReadCompleted(c).reads = c.reads - 1
         /\ c.writes > 0 => /\ WriteCompleted(c) \in Connection
                            /\ WriteCompleted(c).reads = c.reads
<1>1. c.writes > 0 => /\ WriteCompleted(c) \in Connection
                      /\ WriteCompleted(c).reads = c.reads
  BY DEF WriteCompleted, Connection
<1>2. ASSUME c.reads > 0
      PROVE  /\ ReadCompleted(c) \in Connection
             /\ ReadCompleted(c).reads = c.reads - 1
  <2>1. FewerReads(c) \in Connection /\ FewerReads(c).reads = c.reads - 1
    BY <1>2 DEF FewerReads, Connection
  <2>2. /\ [FewerReads(c) EXCEPT !.torn = FALSE] \in Connection
        /\ [FewerReads(c) EXCEPT !.torn = FALSE].reads = c.reads - 1
    BY <2>1 DEF Connection
  <2> QED BY <2>1, <2>2 DEF ReadCompleted
<1> QED BY <1>1, <1>2

-----------------------------------------------------------------------------
(* The maps.                                                               *)

(***************************************************************************)
(* Emplacing into a map and erasing from it: what is in the result, and    *)
(* that the entries which were there, or are left, keep their values.      *)
(***************************************************************************)
LEMMA EmplaceMap ==
  ASSUME NEW T, NEW map, map \in [DOMAIN map -> T], NEW key, NEW value \in T
  PROVE  /\ Emplace(map, key, value) \in [DOMAIN map \cup {key} -> T]
         /\ DOMAIN Emplace(map, key, value) = DOMAIN map \cup {key}
         /\ \A x \in DOMAIN map : Emplace(map, key, value)[x] = map[x]
         /\ key \notin DOMAIN map => Emplace(map, key, value)[key] = value
<1>1. CASE key \in DOMAIN map
  BY <1>1 DEF Emplace
<1>2. CASE key \notin DOMAIN map
  BY <1>2 DEF Emplace
<1> QED BY <1>1, <1>2

(* Erasing a key leaves the other entries as they are.                     *)
LEMMA EraseMap ==
  ASSUME NEW T, NEW map, map \in [DOMAIN map -> T], NEW key
  PROVE  /\ Erase(map, key) \in [DOMAIN map \ {key} -> T]
         /\ DOMAIN Erase(map, key) = DOMAIN map \ {key}
         /\ \A x \in DOMAIN map \ {key} : Erase(map, key)[x] = map[x]
BY DEF Erase, Restrict

-----------------------------------------------------------------------------
(* Types.                                                                  *)

(***************************************************************************)
(* The two tables after a connection is entered in them, and after the     *)
(* route of a connection is erased.                                        *)
(***************************************************************************)
LEMMA EmplaceTables ==
  ASSUME TypeOK, NEW t \in Tokens, NEW c \in Conns, NEW route \in Route
  PROVE  /\ Emplace(token_list, t, c) \in [DOMAIN token_list \cup {t} -> Conns]
         /\ Emplace(connection_list, c, route)
              \in [DOMAIN connection_list \cup {c} -> Route]
<1>1. /\ token_list \in [DOMAIN token_list -> Conns]
      /\ connection_list \in [DOMAIN connection_list -> Route]
  BY DEF TypeOK
<1>2. Emplace(token_list, t, c) \in [DOMAIN token_list \cup {t} -> Conns]
  BY <1>1, EmplaceMap
<1>3. Emplace(connection_list, c, route)
        \in [DOMAIN connection_list \cup {c} -> Route]
  BY <1>1, EmplaceMap
<1> QED BY <1>2, <1>3

(* The tables without the entries of a token and of a connection.          *)
LEMMA EraseTables ==
  ASSUME TypeOK, NEW t, NEW c
  PROVE  /\ Erase(token_list, t) \in [DOMAIN token_list \ {t} -> Conns]
         /\ Erase(connection_list, c)
              \in [DOMAIN connection_list \ {c} -> Route]
<1>1. /\ token_list \in [DOMAIN token_list -> Conns]
      /\ connection_list \in [DOMAIN connection_list -> Route]
  BY DEF TypeOK
<1>2. Erase(token_list, t) \in [DOMAIN token_list \ {t} -> Conns]
  BY <1>1, EraseMap
<1>3. Erase(connection_list, c) \in [DOMAIN connection_list \ {c} -> Route]
  BY <1>1, EraseMap
<1> QED BY <1>2, <1>3

(***************************************************************************)
(* Every step keeps every variable in its type: in particular no counter   *)
(* of a connection is taken below zero by a completion.                    *)
(***************************************************************************)
LEMMA TypeStep == TypeOK /\ [Next]_vars => TypeOK'
<1> SUFFICES ASSUME TypeOK, [Next]_vars
             PROVE  TypeOK'
  OBVIOUS
<1>1. ASSUME NEW k \in Clients, NEW c \in Conns, NEW t \in Tokens,
             AsyncConnect(k, c, t)
      PROVE  TypeOK'
  <2>1. [token |-> t, source |-> k] \in Route
    BY DEF Route
  <2>2. /\ token_list' = Emplace(token_list, t, c)
        /\ connection_list' =
             Emplace(connection_list, c, [token |-> t, source |-> k])
        /\ link' = [link EXCEPT ![c] =
             IF Listed(t) THEN "abandoned" ELSE "connecting"]
        /\ UNCHANGED <<conn, remote, traffic, answers, client, proc>>
    BY <1>1 DEF AsyncConnect
  <2>3. /\ DOMAIN token_list' \subseteq Tokens
        /\ token_list' \in [DOMAIN token_list' -> Conns]
        /\ DOMAIN connection_list' \subseteq Conns
        /\ connection_list' \in [DOMAIN connection_list' -> Route]
    <3>1. Emplace(token_list, t, c) \in [DOMAIN token_list \cup {t} -> Conns]
      BY <2>1, EmplaceTables
    <3>2. Emplace(connection_list, c, [token |-> t, source |-> k])
            \in [DOMAIN connection_list \cup {c} -> Route]
      BY <2>1, EmplaceTables
    <3> QED BY <2>2, <3>1, <3>2 DEF TypeOK
  <2> QED BY <2>2, <2>3 DEF TypeOK, traffic
<1>2. CASE ResolveThrows
  BY <1>2 DEF ResolveThrows, TypeOK, tables, traffic, Terminated
<1>3. ASSUME NEW k \in Clients, NEW t \in Tokens, Data(k, t)
      PROVE  TypeOK'
  <2>1. Listed(t) /\ token_list[t] \in Conns
    BY <1>3 DEF Data, Listed, TypeOK
  <2>2. conn[token_list[t]] \in Connection
    BY <2>1 DEF TypeOK
  <2>3. AsyncWrite(conn[token_list[t]]) \in Connection
    BY <2>2, Started DEF TypeOK
  <2>4. conn' \in [Conns -> Connection]
    <3>1. CASE UNCHANGED conn
      BY <3>1 DEF TypeOK
    <3>2. CASE conn' = [conn EXCEPT ![token_list[t]] = AsyncWrite(@)]
      BY <2>1, <2>3, <3>2 DEF TypeOK
    <3> QED BY <1>3, <3>1, <3>2 DEF Data, TypeOK
  <2>5. proc' \in {"running", "terminated"}
    BY <1>3 DEF Data, TypeOK, Terminated
  <2> QED BY <1>3, <2>4, <2>5 DEF Data, TypeOK, tables, traffic
<1>4. ASSUME NEW c \in Conns, ConnectSucceeded(c)
      PROVE  TypeOK'
  <2>1. Disconnect(conn[c]) \in Connection
    BY Started DEF TypeOK
  <2>2. ASSUME NEW t \in TokensOf(c), Routed(c)
        PROVE  [token |-> t, source |-> connection_list[c].source] \in Route
    BY <2>2 DEF TokensOf, Route, Routed, TypeOK
  <2>3. answers' \in [Conns -> Seq(Route)]
    <3>1. CASE UNCHANGED answers
      BY <3>1 DEF TypeOK
    <3>2. CASE Routed(c) /\ \E t \in TokensOf(c) :
                 answers' = [answers EXCEPT ![c] = Append(@,
                   [token |-> t, source |-> connection_list[c].source])]
      <4>1. PICK t \in TokensOf(c) :
              answers' = [answers EXCEPT ![c] = Append(@,
                [token |-> t, source |-> connection_list[c].source])]
        BY <3>2
      <4>2. Append(answers[c],
              [token |-> t, source |-> connection_list[c].source])
              \in Seq(Route)
        BY <2>2, <3>2 DEF TypeOK
      <4> QED BY <4>1, <4>2 DEF TypeOK
    <3> QED BY <1>4, <3>1, <3>2 DEF ConnectSucceeded, TypeOK
  <2>4. conn' \in [Conns -> Connection]
    BY <1>4, <2>1 DEF ConnectSucceeded, TypeOK
  <2>5. /\ link' \in [Conns -> {"unused", "abandoned", "connecting", "up",
                                "failed"}]
        /\ proc' \in {"running", "terminated"}
        /\ UNCHANGED <<tables, remote, traffic, client>>
    BY <1>4 DEF ConnectSucceeded, TypeOK, Terminated
  <2> QED BY <2>3, <2>4, <2>5 DEF TypeOK, tables, traffic
<1>5. ASSUME NEW c \in Conns, ConnectFailed(c)
      PROVE  TypeOK'
  BY <1>5 DEF ConnectFailed, TypeOK, tables, traffic
<1>6. ASSUME NEW c \in Conns, WriteDone(c)
      PROVE  TypeOK'
  <2>1. AsyncReadSome(WriteCompleted(conn[c])) \in Connection
    BY <1>6, Started, Completed DEF WriteDone, TypeOK
  <2> QED BY <1>6, <2>1 DEF WriteDone, TypeOK, tables, traffic
<1>7. ASSUME NEW c \in Conns, WriteFailed(c)
      PROVE  TypeOK'
  BY <1>7 DEF WriteFailed, TypeOK, tables, traffic, Terminated
<1>8. ASSUME NEW c \in Conns, ReadSome(c)
      PROVE  TypeOK'
  <2>1. /\ ReadCompleted(conn[c]) \in Connection
        /\ AsyncReadSome(ReadCompleted(conn[c])) \in Connection
    BY <1>8, Started, Completed DEF ReadSome, Waiting, TypeOK
  <2>2. conn' \in [Conns -> Connection]
    BY <1>8, <2>1 DEF ReadSome, TypeOK
  <2>3. relayed' \in [Conns -> Seq(Delivery)]
    <3>1. CASE UNCHANGED relayed
      BY <3>1 DEF TypeOK
    <3>2. ASSUME Routed(c), NEW s \in SegmentsRead(c),
                 relayed' = [relayed EXCEPT ![c] = Append(@,
                   [segment |-> s, to |-> connection_list[c].source])]
          PROVE  relayed' \in [Conns -> Seq(Delivery)]
      <4>1. s \in Nat
        BY DEF SegmentsRead, TypeOK
      <4>2. connection_list[c].source \in Clients
        BY <3>2 DEF TypeOK, Routed, Route
      <4>3. [segment |-> s, to |-> connection_list[c].source] \in Delivery
        BY <4>1, <4>2 DEF Delivery
      <4>4. Append(relayed[c], [segment |-> s, to |-> connection_list[c].source])
              \in Seq(Delivery)
        BY <4>3 DEF TypeOK
      <4> QED BY <3>2, <4>4 DEF TypeOK
    <3> QED BY <1>8, <3>1, <3>2 DEF ReadSome
  <2>4. taken' \in [Conns -> Nat] /\ proc' \in {"running", "terminated"}
    BY <1>8 DEF ReadSome, TypeOK, Terminated
  <2> QED BY <1>8, <2>2, <2>3, <2>4 DEF ReadSome, TypeOK, tables, traffic
<1>9. ASSUME NEW c \in Conns, ReadFailed(c)
      PROVE  TypeOK'
  <2>1. ReadCompleted(conn[c]) \in Connection
    BY <1>9, Completed DEF ReadFailed, Waiting, TypeOK
  <2>2. conn' \in [Conns -> Connection] /\ proc' \in {"running", "terminated"}
    BY <1>9, <2>1 DEF ReadFailed, TypeOK, Terminated
  <2>3. /\ DOMAIN token_list' \subseteq Tokens
        /\ token_list' \in [DOMAIN token_list' -> Conns]
        /\ DOMAIN connection_list' \subseteq Conns
        /\ connection_list' \in [DOMAIN connection_list' -> Route]
    <3>1. CASE UNCHANGED tables
      BY <3>1 DEF TypeOK, tables
    <3>2. CASE /\ token_list' = Erase(token_list, connection_list[c].token)
               /\ connection_list' = Erase(connection_list, c)
      BY <3>2, EraseTables DEF TypeOK
    <3> QED BY <1>9, <3>1, <3>2 DEF ReadFailed
  <2> QED BY <1>9, <2>2, <2>3 DEF ReadFailed, TypeOK, traffic
<1>10. ASSUME NEW c \in Conns, TargetSends(c)
       PROVE  TypeOK'
  BY <1>10 DEF TargetSends, TypeOK, tables, traffic
<1>11. ASSUME NEW c \in Conns, NEW how \in {"fin", "reset"},
              TargetCloses(c, how)
       PROVE  TypeOK'
  BY <1>11 DEF TargetCloses, TypeOK, tables, traffic
<1>12. ASSUME NEW k \in Clients, NEW how \in {"fin", "reset"},
              ClientLeaves(k, how)
       PROVE  TypeOK'
  BY <1>12 DEF ClientLeaves, TypeOK, tables, traffic
<1>13. CASE UNCHANGED vars
  BY <1>13 DEF vars, TypeOK, tables, traffic
<1> QED
  BY <1>1, <1>2, <1>3, <1>4, <1>5, <1>6, <1>7, <1>8, <1>9, <1>10, <1>11,
     <1>12, <1>13 DEF Next

-----------------------------------------------------------------------------
(* The tables.                                                             *)

(***************************************************************************)
(* How far a connection has come, against what the tables, the answers and *)
(* its reads say of it.  The safety invariants are not inductive without   *)
(* these facts: an abandoned connection shares the token of another one,   *)
(* and would take that one's entry with it if it were ever read from.      *)
(***************************************************************************)
Fresh(c) ==
  link[c] = "unused" =>
    /\ ~Routed(c) /\ ~conn[c].torn
    /\ taken[c] = 0 /\ relayed[c] = <<>>

OnlyUpIsUsed(c) ==
  conn[c].reads > 0 \/ answers[c] # <<>> => link[c] = "up"

Known(c) ==
  /\ link[c] = "connecting" => Routed(c)
  /\ Routed(c) /\ link[c] # "abandoned" =>
       /\ Listed(connection_list[c].token)
       /\ token_list[connection_list[c].token] = c

Stages == \A c \in Conns : Fresh(c) /\ OnlyUpIsUsed(c) /\ Known(c)

(***************************************************************************)
(* What a step may do to the tables: an AsyncConnect enters a connection   *)
(* that is in neither, a ReadFailed erases a route, nothing else touches   *)
(* them; and an attempt to connect ends in "up" or "failed".               *)
(***************************************************************************)
LinkKept ==
  \A d \in Conns : \/ link'[d] = link[d]
                   \/ link[d] = "connecting" /\ link'[d] \in {"up", "failed"}

(* Every step is an AsyncConnect, erases a route, or keeps both tables.    *)
LEMMA TableSteps ==
  ASSUME TypeOK, [Next]_vars
  PROVE  \/ \E k \in Clients, c \in Conns, t \in Tokens : AsyncConnect(k, c, t)
         \/ \E c \in Conns : ReadFailed(c) /\ ~ UNCHANGED tables
         \/ UNCHANGED tables /\ LinkKept
<1>1. CASE UNCHANGED <<tables, link>>
  BY <1>1 DEF LinkKept
<1>2. ASSUME NEW c \in Conns, ConnectSucceeded(c) \/ ConnectFailed(c)
      PROVE  UNCHANGED tables /\ LinkKept
  <2>1. UNCHANGED tables /\ link[c] = "connecting"
    BY <1>2 DEF ConnectSucceeded, ConnectFailed
  <2>2. \/ link' = [link EXCEPT ![c] = "up"]
        \/ link' = [link EXCEPT ![c] = "failed"]
    BY <1>2 DEF ConnectSucceeded, ConnectFailed
  <2> QED BY <2>1, <2>2 DEF LinkKept, TypeOK
<1>3. CASE Next
  <2> SUFFICES ASSUME \A c \in Conns :
                        ~ConnectSucceeded(c) /\ ~ConnectFailed(c)
               PROVE  \/ \E k \in Clients, c \in Conns, t \in Tokens :
                           AsyncConnect(k, c, t)
                      \/ \E c \in Conns : ReadFailed(c)
                      \/ UNCHANGED <<tables, link>>
    BY <1>1, <1>2 DEF ReadFailed
  <2> QED
    BY <1>3 DEF Next, ResolveThrows, Data, WriteDone, WriteFailed, ReadSome,
       TargetSends, TargetCloses, ClientLeaves
<1>4. CASE UNCHANGED vars
  BY <1>1, <1>4 DEF vars, tables
<1> QED BY <1>3, <1>4

(***************************************************************************)
(* What AsyncConnect leaves in the tables.                                 *)
(***************************************************************************)
Enters(k, c, t) ==
  /\ ~Routed(c)
  /\ DOMAIN token_list' = DOMAIN token_list \cup {t}
  /\ \A u \in DOMAIN token_list : token_list'[u] = token_list[u]
  /\ ~Listed(t) => token_list'[t] = c
  /\ DOMAIN connection_list' = DOMAIN connection_list \cup {c}
  /\ \A d \in DOMAIN connection_list :
       connection_list'[d] = connection_list[d]
  /\ connection_list'[c] = [token |-> t, source |-> k]

(* AsyncConnect enters a connection that was in neither table.             *)
LEMMA Entered ==
  ASSUME TypeOK, Stages, NEW k \in Clients, NEW c \in Conns, NEW t \in Tokens,
         AsyncConnect(k, c, t)
  PROVE  Enters(k, c, t)
<1>1. ~Routed(c)
  BY DEF AsyncConnect, Stages, Fresh
<1>2. /\ DOMAIN token_list' = DOMAIN token_list \cup {t}
      /\ \A u \in DOMAIN token_list : token_list'[u] = token_list[u]
      /\ ~Listed(t) => token_list'[t] = c
  <2>1. token_list' = Emplace(token_list, t, c)
    BY DEF AsyncConnect
  <2>2. CASE Listed(t)
    BY <2>1, <2>2 DEF Emplace, Listed
  <2>3. CASE ~Listed(t)
    BY <2>1, <2>3 DEF Emplace, Listed
  <2> QED BY <2>2, <2>3
<1>3. /\ DOMAIN connection_list' = DOMAIN connection_list \cup {c}
      /\ \A d \in DOMAIN connection_list :
           connection_list'[d] = connection_list[d]
      /\ connection_list'[c] = [token |-> t, source |-> k]
  <2>1. connection_list' =
          Emplace(connection_list, c, [token |-> t, source |-> k])
    BY DEF AsyncConnect
  <2> QED BY <1>1, <2>1 DEF Emplace, Routed
<1> QED BY <1>1, <1>2, <1>3 DEF Enters

(***************************************************************************)
(* What ReadFailed leaves in them when it erases the route of c.           *)
(***************************************************************************)
Erases(c) ==
  /\ link[c] = "up" /\ Routed(c) /\ UNCHANGED link
  /\ Listed(connection_list[c].token)
  /\ token_list[connection_list[c].token] = c
  /\ DOMAIN token_list' = DOMAIN token_list \ {connection_list[c].token}
  /\ \A u \in DOMAIN token_list' : token_list'[u] = token_list[u]
  /\ DOMAIN connection_list' = DOMAIN connection_list \ {c}
  /\ \A d \in DOMAIN connection_list' : connection_list'[d] = connection_list[d]

(* A read error takes the route and the token of one connection away.      *)
LEMMA Erased ==
  ASSUME TypeOK, Stages, NEW c \in Conns, ReadFailed(c), ~ UNCHANGED tables
  PROVE  Erases(c)
<1>1. /\ conn[c].reads > 0 /\ UNCHANGED link
      /\ Routed(c)
      /\ token_list' = Erase(token_list, connection_list[c].token)
      /\ connection_list' = Erase(connection_list, c)
  BY DEF ReadFailed, Waiting
<1>2. link[c] = "up"
  BY <1>1 DEF Stages, OnlyUpIsUsed
<1>3. /\ Listed(connection_list[c].token)
      /\ token_list[connection_list[c].token] = c
  BY <1>1, <1>2 DEF Stages, Known
<1>4. /\ DOMAIN token_list' = DOMAIN token_list \ {connection_list[c].token}
      /\ \A u \in DOMAIN token_list' : token_list'[u] = token_list[u]
  BY <1>1 DEF Erase, Restrict
<1>5. /\ DOMAIN connection_list' = DOMAIN connection_list \ {c}
      /\ \A d \in DOMAIN connection_list' :
           connection_list'[d] = connection_list[d]
  BY <1>1 DEF Erase, Restrict
<1> QED BY <1>1, <1>2, <1>3, <1>4, <1>5 DEF Erases

(***************************************************************************)
(* The tables go on agreeing.                                              *)
(***************************************************************************)
LEMMA RoutesStep ==
  ASSUME TypeOK, RoutesAgree, Stages, [Next]_vars
  PROVE  RoutesAgree'
<1>1. ASSUME NEW k \in Clients, NEW c \in Conns, NEW t \in Tokens,
             AsyncConnect(k, c, t)
      PROVE  RoutesAgree'
  <2>1. Enters(k, c, t)
    BY <1>1, Entered
  <2> QED BY <2>1 DEF Enters, RoutesAgree, Routed, Listed
<1>2. ASSUME NEW c \in Conns, ReadFailed(c), ~ UNCHANGED tables
      PROVE  RoutesAgree'
  <2>1. Erases(c)
    BY <1>2, Erased
  <2> QED BY <2>1 DEF Erases, RoutesAgree, Routed
<1>3. CASE UNCHANGED tables
  BY <1>3 DEF RoutesAgree, Routed, tables
<1> QED BY <1>1, <1>2, <1>3, TableSteps

(***************************************************************************)
(* A listed token stays with its connection.                               *)
(***************************************************************************)
LEMMA TokenStep ==
  ASSUME TypeOK, Stages, [Next]_vars,
         NEW t \in DOMAIN token_list, t \in DOMAIN token_list'
  PROVE  token_list'[t] = token_list[t]
<1>1. ASSUME NEW k \in Clients, NEW c \in Conns, NEW u \in Tokens,
             AsyncConnect(k, c, u)
      PROVE  token_list'[t] = token_list[t]
  <2>1. Enters(k, c, u)
    BY <1>1, Entered
  <2> QED BY <2>1 DEF Enters
<1>2. ASSUME NEW c \in Conns, ReadFailed(c), ~ UNCHANGED tables
      PROVE  token_list'[t] = token_list[t]
  <2>1. Erases(c)
    BY <1>2, Erased
  <2> QED BY <2>1 DEF Erases
<1>3. CASE UNCHANGED tables
  BY <1>3 DEF tables
<1> QED BY <1>1, <1>2, <1>3, TableSteps

-----------------------------------------------------------------------------
(* Reads and answers.                                                      *)

(***************************************************************************)
(* What a step may do to what a connection has read: only the completion   *)
(* of a write to it or of a read from it changes anything.                 *)
(***************************************************************************)
Quiet(c) ==
  /\ conn'[c].reads = conn[c].reads /\ conn'[c].torn = conn[c].torn
  /\ taken'[c] = taken[c] /\ relayed'[c] = relayed[c]

(* Starting a write or a shutdown changes neither reads nor the buffer.    *)
LEMMA WritingKeepsReads ==
  ASSUME NEW c \in Connection
  PROVE  /\ AsyncWrite(c).reads = c.reads /\ AsyncWrite(c).torn = c.torn
         /\ Disconnect(c).reads = c.reads /\ Disconnect(c).torn = c.torn
BY DEF AsyncWrite, Disconnect, Connection

(* A step that is not one of the three leaves c quiet.                     *)
LEMMA ReadSteps ==
  ASSUME TypeOK, [Next]_vars, NEW c \in Conns
  PROVE  Quiet(c) \/ WriteDone(c) \/ ReadSome(c) \/ ReadFailed(c)
<1>1. CASE UNCHANGED <<conn, taken, relayed>>
  BY <1>1 DEF Quiet
<1>2. ASSUME NEW k \in Clients, NEW t \in Tokens, Data(k, t)
      PROVE  Quiet(c)
  <2>1. token_list[t] \in Conns /\ taken' = taken /\ relayed' = relayed
    BY <1>2 DEF Data, Listed, TypeOK, traffic
  <2>2. \/ UNCHANGED conn
        \/ conn' = [conn EXCEPT ![token_list[t]] = AsyncWrite(@)]
    BY <1>2 DEF Data
  <2>3. CASE conn' = [conn EXCEPT ![token_list[t]] = AsyncWrite(@)]
    <3>1. conn'[c] = conn[c] \/ conn'[c] = AsyncWrite(conn[c])
      BY <2>1, <2>3 DEF TypeOK
    <3>2. conn[c] \in Connection
      BY DEF TypeOK
    <3> QED BY <2>1, <3>1, <3>2, WritingKeepsReads DEF Quiet
  <2>4. CASE UNCHANGED conn
    BY <2>1, <2>4 DEF Quiet
  <2> QED BY <2>2, <2>3, <2>4
<1>3. ASSUME NEW d \in Conns, ConnectSucceeded(d)
      PROVE  Quiet(c)
  <2>1. UNCHANGED <<taken, relayed>>
    BY <1>3 DEF ConnectSucceeded, traffic
  <2>2. UNCHANGED conn \/ conn' = [conn EXCEPT ![d] = Disconnect(@)]
    BY <1>3 DEF ConnectSucceeded
  <2>3. conn'[c] = conn[c] \/ conn'[c] = Disconnect(conn[c])
    BY <2>2 DEF TypeOK
  <2>4. conn[c] \in Connection
    BY DEF TypeOK
  <2> QED BY <2>1, <2>3, <2>4, WritingKeepsReads DEF Quiet
<1>4. ASSUME NEW d \in Conns, d # c,
             WriteDone(d) \/ ReadSome(d) \/ ReadFailed(d)
      PROVE  Quiet(c)
  <2>1. /\ taken'[c] = taken[c] /\ relayed'[c] = relayed[c]
    BY <1>4 DEF WriteDone, ReadSome, ReadFailed, traffic, TypeOK
  <2>2. conn'[c] = conn[c]
    BY <1>4 DEF WriteDone, ReadSome, ReadFailed, TypeOK
  <2> QED BY <2>1, <2>2 DEF Quiet
<1>5. CASE Next
  <2> SUFFICES ASSUME \A k \in Clients, t \in Tokens : ~Data(k, t),
                      \A d \in Conns : ~ConnectSucceeded(d),
                      \A d \in Conns :
                        ~WriteDone(d) /\ ~ReadSome(d) /\ ~ReadFailed(d)
               PROVE  UNCHANGED <<conn, taken, relayed>>
    BY <1>1, <1>2, <1>3, <1>4
  <2> QED
    BY <1>5 DEF Next, AsyncConnect, ResolveThrows, ConnectFailed, WriteFailed,
       TargetSends, TargetCloses, ClientLeaves, traffic
<1>6. CASE UNCHANGED vars
  BY <1>1, <1>6 DEF vars, traffic
<1> QED BY <1>5, <1>6

(***************************************************************************)
(* Only the success of a connection answers, and it answers for itself.    *)
(***************************************************************************)
LEMMA AnswerSteps ==
  ASSUME TypeOK, [Next]_vars, NEW c \in Conns
  PROVE  answers'[c] = answers[c] \/ ConnectSucceeded(c)
<1>1. ASSUME NEW d \in Conns, d # c, ConnectSucceeded(d)
      PROVE  answers'[c] = answers[c]
  BY <1>1 DEF ConnectSucceeded, TypeOK
<1>2. CASE Next
  <2> SUFFICES ASSUME \A d \in Conns : ~ConnectSucceeded(d)
               PROVE  UNCHANGED answers
    BY <1>1
  <2> QED
    BY <1>2 DEF Next, AsyncConnect, ResolveThrows, Data, ConnectFailed,
       WriteDone, WriteFailed, ReadSome, ReadFailed, TargetSends, TargetCloses,
       ClientLeaves
<1>3. CASE UNCHANGED vars
  BY <1>3 DEF vars
<1> QED BY <1>2, <1>3

(***************************************************************************)
(* The stages are kept.                                                    *)
(***************************************************************************)
LEMMA StagesStep ==
  ASSUME TypeOK, Stages, [Next]_vars
  PROVE  Stages'
<1> SUFFICES ASSUME NEW c \in Conns
             PROVE  Fresh(c)' /\ OnlyUpIsUsed(c)' /\ Known(c)'
  BY DEF Stages
<1>0. Fresh(c) /\ OnlyUpIsUsed(c) /\ Known(c)
  BY DEF Stages
<1> DEFINE Kept == /\ Known(c)'
                   /\ link'[c] = "unused" => link[c] = "unused" /\ ~Routed(c)'
                   /\ link[c] = "up" => link'[c] = "up"
<1>1. Kept
  <2>1. ASSUME NEW k \in Clients, NEW d \in Conns, NEW t \in Tokens,
               AsyncConnect(k, d, t)
        PROVE  Kept
    <3>1. Enters(k, d, t)
      BY <2>1, Entered
    <3>2. /\ link[d] = "unused"
          /\ link'[d] = IF Listed(t) THEN "abandoned" ELSE "connecting"
          /\ c # d => link'[c] = link[c]
      BY <2>1 DEF AsyncConnect, TypeOK
    <3>3. CASE c = d
      BY <3>1, <3>2, <3>3 DEF Enters, Known, Routed, Listed
    <3>4. CASE c # d
      BY <1>0, <3>1, <3>2, <3>4 DEF Enters, Known, Fresh, Routed, Listed
    <3> QED BY <3>3, <3>4
  <2>2. ASSUME NEW d \in Conns, ReadFailed(d), ~ UNCHANGED tables
        PROVE  Kept
    <3>1. Erases(d)
      BY <2>2, Erased
    <3> QED BY <1>0, <3>1 DEF Erases, Known, Fresh, Routed, Listed
  <2>3. CASE UNCHANGED tables /\ LinkKept
    BY <1>0, <2>3 DEF tables, LinkKept, Known, Fresh, Routed, Listed
  <2> QED BY <2>1, <2>2, <2>3, TableSteps
<1>2. /\ link[c] = "unused" => Quiet(c)
      /\ conn'[c].reads > 0 => link[c] = "up"
  <2>1. CASE Quiet(c)
    BY <1>0, <2>1 DEF Quiet, OnlyUpIsUsed
  <2>2. CASE WriteDone(c)
    BY <2>2 DEF WriteDone
  <2>3. CASE ReadSome(c) \/ ReadFailed(c)
    BY <1>0, <2>3 DEF ReadSome, ReadFailed, Waiting, OnlyUpIsUsed
  <2> QED BY <2>1, <2>2, <2>3, ReadSteps
<1>3. answers'[c] # <<>> => link'[c] = "up"
  <2>1. CASE answers'[c] = answers[c]
    BY <1>0, <1>1, <2>1 DEF OnlyUpIsUsed
  <2>2. CASE ConnectSucceeded(c)
    BY <2>2 DEF ConnectSucceeded, TypeOK
  <2> QED BY <2>1, <2>2, AnswerSteps
<1>4. Fresh(c)'
  BY <1>0, <1>1, <1>2 DEF Fresh, Quiet
<1>5. OnlyUpIsUsed(c)'
  BY <1>1, <1>2, <1>3 DEF OnlyUpIsUsed
<1> QED BY <1>1, <1>4, <1>5

(***************************************************************************)
(* At most one answer, with the token of the route.                        *)
(***************************************************************************)
LEMMA AnswersStep ==
  ASSUME TypeOK, RoutesAgree, Stages, AnsweredOnceWithItsToken, [Next]_vars
  PROVE  AnsweredOnceWithItsToken'
<1> SUFFICES ASSUME NEW c \in Conns
             PROVE  /\ Len(answers'[c]) <= 1
                    /\ Len(answers'[c]) = 1 /\ Routed(c)' =>
                         answers'[c][1] = connection_list'[c]
  BY DEF AnsweredOnceWithItsToken
<1>0. /\ answers[c] \in Seq(Route)
      /\ Len(answers[c]) <= 1
      /\ Len(answers[c]) = 1 /\ Routed(c) => answers[c][1] = connection_list[c]
      /\ answers[c] # <<>> => link[c] = "up"
      /\ Fresh(c)
  BY DEF AnsweredOnceWithItsToken, TypeOK, Stages, OnlyUpIsUsed
<1>1. CASE answers'[c] = answers[c]
  <2> DEFINE Same == Routed(c)' /\ answers[c] # <<>> =>
                       Routed(c) /\ connection_list'[c] = connection_list[c]
  <2>1. Same
    <3>1. ASSUME NEW k \in Clients, NEW d \in Conns, NEW t \in Tokens,
                 AsyncConnect(k, d, t)
          PROVE  Same
      <4>1. Enters(k, d, t)
        BY <3>1, Entered
      <4>2. link[d] = "unused"
        BY <3>1 DEF AsyncConnect
      <4> QED BY <1>0, <4>1, <4>2 DEF Enters, Routed
    <3>2. ASSUME NEW d \in Conns, ReadFailed(d), ~ UNCHANGED tables
          PROVE  Same
      <4>1. Erases(d)
        BY <3>2, Erased
      <4> QED BY <4>1 DEF Erases, Routed
    <3>3. CASE UNCHANGED tables
      BY <3>3 DEF tables, Routed
    <3> QED BY <3>1, <3>2, <3>3, TableSteps
  <2> QED BY <1>0, <1>1, <2>1
<1>2. CASE ConnectSucceeded(c) /\ answers'[c] # answers[c]
  <2>1. /\ answers[c] = <<>> /\ UNCHANGED tables
    BY <1>0, <1>2 DEF ConnectSucceeded
  <2>2. PICK t \in TokensOf(c) :
          /\ Routed(c)
          /\ answers' = [answers EXCEPT ![c] = Append(@,
               [token |-> t, source |-> connection_list[c].source])]
    BY <1>2 DEF ConnectSucceeded
  <2>3. connection_list[c].token = t /\ connection_list[c] \in Route
    BY <2>2 DEF TokensOf, RoutesAgree, Routed, TypeOK
  <2>4. [token |-> t, source |-> connection_list[c].source] = connection_list[c]
    BY <2>3 DEF Route
  <2>5. answers'[c] = Append(<<>>, connection_list[c])
    BY <2>1, <2>2, <2>4 DEF TypeOK
  <2>6. Len(answers'[c]) = 1 /\ answers'[c][1] = connection_list[c]
    BY <2>5
  <2> QED BY <2>1, <2>6 DEF tables
<1> QED BY <1>1, <1>2, AnswerSteps

-----------------------------------------------------------------------------
(* What is relayed.                                                        *)

(***************************************************************************)
(* A connection whose reads have overlapped and which still has a route    *)
(* has two reads outstanding or more: none of the relaying reads ends      *)
(* without starting the next.                                              *)
(***************************************************************************)
Overlapping ==
  \A c \in Conns : Running /\ Routed(c) /\ conn[c].torn => conn[c].reads > 1

(***************************************************************************)
(* The two things a handler does to reads and to the buffer they share:    *)
(* one read after a write, and one read after another.                     *)
(***************************************************************************)
LEMMA ReadAfterWrite ==
  ASSUME NEW c \in Connection, c.writes > 0
  PROVE  /\ AsyncReadSome(WriteCompleted(c)).reads = c.reads + 1
         /\ c.reads > 0 => AsyncReadSome(WriteCompleted(c)).torn
         /\ c.reads = 0 => (AsyncReadSome(WriteCompleted(c)).torn <=> c.torn)
<1> DEFINE w == WriteCompleted(c)
<1>1. w \in Connection /\ w.reads = c.reads /\ w.torn = c.torn
  BY DEF WriteCompleted, Connection
<1>2. CASE c.reads = 0
  <2>1. AsyncReadSome(w) = MoreReads(w)
    BY <1>1, <1>2 DEF AsyncReadSome
  <2>2. MoreReads(w).reads = c.reads + 1 /\ MoreReads(w).torn = w.torn
    BY <1>1 DEF MoreReads, Connection
  <2> QED BY <1>1, <1>2, <2>1, <2>2
<1>3. CASE c.reads > 0
  <2>1. AsyncReadSome(w) = [MoreReads(w) EXCEPT !.torn = TRUE]
    BY <1>1, <1>3 DEF AsyncReadSome
  <2> QED BY <1>1, <1>3, <2>1 DEF MoreReads, Connection
<1> QED BY <1>2, <1>3 DEF Connection

(* A buffer that is whole again changes nothing else.                      *)
LEMMA Mended ==
  ASSUME NEW c \in Connection
  PROVE  /\ [c EXCEPT !.torn = FALSE] \in Connection
         /\ [c EXCEPT !.torn = FALSE].reads = c.reads
         /\ ~[c EXCEPT !.torn = FALSE].torn
<1>1. /\ [c EXCEPT !.torn = FALSE] \in Connection
      /\ [c EXCEPT !.torn = FALSE].reads = c.reads
  BY DEF Connection
<1>2. ~[c EXCEPT !.torn = FALSE].torn
  BY DEF Connection
<1> QED BY <1>1, <1>2

(* The next read after a completed one: overlapping iff others were left.  *)
LEMMA ReadAfterRead ==
  ASSUME NEW c \in Connection, c.reads > 0
  PROVE  /\ AsyncReadSome(ReadCompleted(c)).reads = c.reads
         /\ c.reads > 1 => AsyncReadSome(ReadCompleted(c)).torn
         /\ c.reads = 1 => ~AsyncReadSome(ReadCompleted(c)).torn
<1>1. FewerReads(c) \in Connection /\ FewerReads(c).reads = c.reads - 1
  BY DEF FewerReads, Connection
<1>2. CASE c.reads = 1
  <2> DEFINE r == [FewerReads(c) EXCEPT !.torn = FALSE]
  <2>1. ReadCompleted(c) = r
    BY <1>2 DEF ReadCompleted
  <2>2. r \in Connection /\ r.reads = 0 /\ ~r.torn
    BY <1>1, <1>2, Mended
  <2>3. AsyncReadSome(r) = MoreReads(r)
    BY <2>2 DEF AsyncReadSome
  <2> HIDE DEF r
  <2>4. MoreReads(r).reads = 1 /\ ~MoreReads(r).torn
    BY <2>2 DEF MoreReads, Connection
  <2> QED BY <1>2, <2>1, <2>3, <2>4
<1>3. CASE c.reads > 1
  <2> DEFINE r == FewerReads(c)
  <2>1. ReadCompleted(c) = r
    BY <1>3 DEF ReadCompleted
  <2>2. r \in Connection /\ r.reads = c.reads - 1 /\ r.reads # 0
    BY <1>1, <1>3 DEF Connection
  <2>3. AsyncReadSome(r) = [MoreReads(r) EXCEPT !.torn = TRUE]
    BY <2>2 DEF AsyncReadSome
  <2>4. MoreReads(r) \in Connection /\ MoreReads(r).reads = c.reads
    BY <2>2 DEF MoreReads, Connection
  <2> HIDE DEF r
  <2>5. /\ [MoreReads(r) EXCEPT !.torn = TRUE].reads = c.reads
        /\ [MoreReads(r) EXCEPT !.torn = TRUE].torn
    BY <2>4 DEF Connection
  <2> QED BY <1>3, <2>1, <2>3, <2>5
<1> QED BY <1>2, <1>3 DEF Connection

(***************************************************************************)
(* While a route survives and the process runs, these are all that happens *)
(* to what its connection has read.                                        *)
(***************************************************************************)
Posts(c) ==
  /\ conn[c].writes > 0
  /\ conn'[c] = AsyncReadSome(WriteCompleted(conn[c]))
  /\ taken'[c] = taken[c] /\ relayed'[c] = relayed[c]

Relays(c) ==
  /\ conn[c].reads > 0
  /\ conn'[c] = AsyncReadSome(ReadCompleted(conn[c]))
  /\ taken'[c] = taken[c] + 1
  /\ \E s \in SegmentsRead(c) :
       relayed'[c] = Append(relayed[c],
                            [segment |-> s, to |-> connection_list[c].source])

(* A routed connection is quiet, reads after a write, or relays.           *)
LEMMA RoutedSteps ==
  ASSUME TypeOK, [Next]_vars, NEW c \in Conns, Routed(c)', Running'
  PROVE  Quiet(c) \/ Posts(c) \/ Relays(c)
<1>1. CASE WriteDone(c)
  BY <1>1 DEF WriteDone, Posts, TypeOK, traffic
<1>2. CASE ReadSome(c)
  <2>1. Routed(c)
    BY <1>2 DEF ReadSome, Routed, tables
  <2>2. /\ conn[c].reads > 0
        /\ taken' = [taken EXCEPT ![c] = @ + 1]
        /\ \E s \in SegmentsRead(c) :
             relayed' = [relayed EXCEPT ![c] = Append(@,
               [segment |-> s, to |-> connection_list[c].source])]
        /\ conn' = [conn EXCEPT ![c] = AsyncReadSome(ReadCompleted(@))]
    BY <1>2, <2>1 DEF ReadSome, Waiting, Running, Terminated
  <2> QED BY <2>2 DEF Relays, TypeOK
<1>3. CASE ReadFailed(c)
  <2>1. connection_list' = Erase(connection_list, c) \/ ~Routed(c)'
    BY <1>3 DEF ReadFailed, Running, Terminated, Routed, tables
  <2> QED BY <2>1 DEF Erase, Restrict, Routed
<1> QED BY <1>1, <1>2, <1>3, ReadSteps

(***************************************************************************)
(* A route is never older than its connection's use: one that appears is   *)
(* that of a fresh connection.                                             *)
(***************************************************************************)
LEMMA NewRoutes ==
  ASSUME TypeOK, Stages, [Next]_vars, NEW c \in Conns, Routed(c)', ~Routed(c)
  PROVE  link[c] = "unused"
<1>1. ASSUME NEW k \in Clients, NEW d \in Conns, NEW t \in Tokens,
             AsyncConnect(k, d, t)
      PROVE  link[c] = "unused"
  <2>1. Enters(k, d, t)
    BY <1>1, Entered
  <2>2. c = d
    BY <2>1 DEF Enters, Routed
  <2> QED BY <1>1, <2>2 DEF AsyncConnect
<1>2. ASSUME NEW d \in Conns, ReadFailed(d), ~ UNCHANGED tables
      PROVE  FALSE
  <2>1. Erases(d)
    BY <1>2, Erased
  <2> QED BY <2>1 DEF Erases, Routed
<1>3. CASE UNCHANGED tables
  BY <1>3 DEF tables, Routed
<1> QED BY <1>1, <1>2, <1>3, TableSteps

(***************************************************************************)
(* A route is the same for as long as it exists.                           *)
(***************************************************************************)
LEMMA RouteStays ==
  ASSUME TypeOK, Stages, [Next]_vars, NEW c \in Conns, Routed(c)', Routed(c)
  PROVE  connection_list'[c] = connection_list[c]
<1>1. ASSUME NEW k \in Clients, NEW d \in Conns, NEW t \in Tokens,
             AsyncConnect(k, d, t)
      PROVE  connection_list'[c] = connection_list[c]
  BY <1>1 DEF AsyncConnect, Emplace, Routed
<1>2. ASSUME NEW d \in Conns, ReadFailed(d), ~ UNCHANGED tables
      PROVE  connection_list'[c] = connection_list[c]
  <2>1. Erases(d)
    BY <1>2, Erased
  <2> QED BY <2>1 DEF Erases, Routed
<1>3. CASE UNCHANGED tables
  BY <1>3 DEF tables
<1> QED BY <1>1, <1>2, <1>3, TableSteps

(***************************************************************************)
(* Nothing happens after the process has ended.                            *)
(***************************************************************************)
LEMMA StillRunning ==
  ASSUME [Next]_vars, Running'
  PROVE  Running
<1>1. CASE Next
  BY <1>1 DEF Next, AsyncConnect, ResolveThrows, Data, ConnectSucceeded,
     ConnectFailed, WriteDone, WriteFailed, ReadSome, ReadFailed, Waiting,
     TargetSends, TargetCloses, ClientLeaves
<1>2. CASE UNCHANGED vars
  BY <1>2 DEF vars, Running
<1> QED BY <1>1, <1>2

(***************************************************************************)
(* One more segment keeps the order.                                       *)
(***************************************************************************)
LEMMA NextInOrder ==
  ASSUME NEW n \in Nat, NEW k
  PROVE  Append([i \in 1 .. n |-> [segment |-> i, to |-> k]],
                [segment |-> n + 1, to |-> k])
           = [i \in 1 .. n + 1 |-> [segment |-> i, to |-> k]]
OBVIOUS

(***************************************************************************)
(* The relay stays in order: the only read that appends when reads do not  *)
(* overlap is the one outstanding read.                                    *)
(***************************************************************************)
LEMMA RelayStep ==
  ASSUME TypeOK, Stages, Overlapping, RelayedInOrder, [Next]_vars
  PROVE  Overlapping' /\ RelayedInOrder'
<1> SUFFICES ASSUME NEW c \in Conns, Running', Routed(c)'
             PROVE  /\ conn'[c].torn => conn'[c].reads > 1
                    /\ ~conn'[c].torn => relayed'[c] = Replies(c)'
  BY DEF Overlapping, RelayedInOrder
<1>0. conn[c] \in Connection /\ taken[c] \in Nat
  BY DEF TypeOK
<1>1. CASE ~Routed(c)
  <2>1. link[c] = "unused"
    BY <1>1, NewRoutes
  <2>2. /\ ~conn[c].torn /\ taken[c] = 0 /\ relayed[c] = <<>>
        /\ ~(conn[c].reads > 0)
    BY <2>1 DEF Stages, Fresh, OnlyUpIsUsed
  <2>3. Quiet(c) \/ WriteDone(c)
    BY <2>2, ReadSteps DEF ReadSome, ReadFailed, Waiting
  <2>4. ~WriteDone(c)
    BY <2>1 DEF WriteDone
  <2>5. ASSUME taken'[c] = 0
        PROVE  Replies(c)' = <<>>
    BY <2>5 DEF Replies
  <2> QED BY <2>2, <2>3, <2>4, <2>5 DEF Quiet
<1>2. CASE Routed(c)
  <2>1. /\ conn[c].torn => conn[c].reads > 1
        /\ ~conn[c].torn => relayed[c] = Replies(c)
    BY <1>2, StillRunning DEF Overlapping, RelayedInOrder
  <2>5. connection_list'[c] = connection_list[c]
    BY <1>2, RouteStays
  <2>6. ASSUME taken'[c] = taken[c]
        PROVE  Replies(c)' = Replies(c)
    BY <2>5, <2>6 DEF Replies
  <2>2. CASE Quiet(c)
    BY <2>1, <2>2, <2>6 DEF Quiet
  <2>3. CASE Posts(c)
    <3>1. /\ conn'[c].reads = conn[c].reads + 1
          /\ conn[c].reads > 0 => conn'[c].torn
          /\ conn[c].reads = 0 => (conn'[c].torn <=> conn[c].torn)
      BY <1>0, <2>3, ReadAfterWrite DEF Posts
    <3>2. taken'[c] = taken[c] /\ relayed'[c] = relayed[c]
      BY <2>3 DEF Posts
    <3> QED BY <1>0, <2>1, <2>6, <3>1, <3>2 DEF Connection
  <2>4. CASE Relays(c)
    <3>1. /\ conn[c].reads > 0
          /\ conn'[c].reads = conn[c].reads
          /\ conn[c].reads > 1 => conn'[c].torn
          /\ conn[c].reads = 1 => ~conn'[c].torn
      BY <1>0, <2>4, ReadAfterRead DEF Relays
    <3>2. CASE conn[c].reads > 1
      BY <3>1, <3>2
    <3>3. CASE conn[c].reads = 1
      <4>1. ~conn[c].torn /\ ~conn'[c].torn
        BY <2>1, <3>1, <3>3
      <4>2. relayed'[c] = Append(relayed[c],
                            [segment |-> taken[c] + 1, to |-> connection_list[c].source])
        BY <2>4, <4>1 DEF Relays, SegmentsRead
      <4>3. taken'[c] = taken[c] + 1
        BY <2>4 DEF Relays
      <4>4. relayed[c] = Replies(c)
        BY <2>1, <4>1
      <4>5. relayed'[c] = Replies(c)'
        BY <1>0, <2>5, <4>2, <4>3, <4>4, NextInOrder DEF Replies
      <4> QED BY <4>1, <4>5
    <3> QED BY <1>0, <3>1, <3>2, <3>3 DEF Connection
  <2> QED BY <2>2, <2>3, <2>4, RoutedSteps
<1> QED BY <1>1, <1>2

(***************************************************************************)
(* Once a read is outstanding, one is as long as the route exists.         *)
(***************************************************************************)
LEMMA RelayGoesOnStep ==
  ASSUME TypeOK, [Next]_vars, NEW c \in Conns,
         conn[c].reads > 0, c \in DOMAIN connection_list', proc' = "running"
  PROVE  conn'[c].reads > 0
<1>0. conn[c] \in Connection
  BY DEF TypeOK
<1>1. CASE Quiet(c)
  BY <1>1 DEF Quiet
<1>2. CASE Posts(c)
  <2>1. conn'[c].reads = conn[c].reads + 1
    BY <1>0, <1>2, ReadAfterWrite DEF Posts
  <2> QED BY <1>0, <2>1 DEF Connection
<1>3. CASE Relays(c)
  <2>1. conn'[c].reads = conn[c].reads
    BY <1>0, <1>3, ReadAfterRead DEF Relays
  <2> QED BY <2>1
<1>4. Routed(c)' /\ Running'
  BY DEF Routed, Running
<1> QED BY <1>1, <1>2, <1>3, <1>4, RoutedSteps

-----------------------------------------------------------------------------
(* The theorems.                                                           *)

(***************************************************************************)
(* The inductive invariant.                                                *)
(***************************************************************************)
IInv ==
  /\ TypeOK /\ RoutesAgree /\ Stages
  /\ AnsweredOnceWithItsToken
  /\ Overlapping /\ RelayedInOrder

(***************************************************************************)
(* It holds at first, and every step keeps it.                             *)
(***************************************************************************)
LEMMA InitIInv == Init => IInv
<1> SUFFICES ASSUME Init
             PROVE  IInv
  OBVIOUS
<1>1. TypeOK
  BY DEF Init, TypeOK, NewConnection, Connection
<1>2. DOMAIN token_list = {} /\ DOMAIN connection_list = {}
  BY DEF Init
<1>3. RoutesAgree /\ Overlapping /\ RelayedInOrder
  BY <1>2 DEF RoutesAgree, Overlapping, RelayedInOrder, Routed
<1>4. AnsweredOnceWithItsToken
  BY DEF Init, AnsweredOnceWithItsToken
<1>5. Stages
  <2>1. \A c \in Conns : conn[c].reads = 0 /\ ~conn[c].torn
    BY DEF Init, NewConnection
  <2> QED
    BY <1>2, <2>1 DEF Init, Stages, Fresh, OnlyUpIsUsed, Known, Routed
<1> QED BY <1>1, <1>3, <1>4, <1>5 DEF IInv

(* The inductive step, one lemma above for each conjunct.                  *)
LEMMA StepIInv == IInv /\ [Next]_vars => IInv'
<1> SUFFICES ASSUME IInv, [Next]_vars
             PROVE  IInv'
  OBVIOUS
<1>1. /\ TypeOK /\ RoutesAgree /\ Stages /\ AnsweredOnceWithItsToken
      /\ Overlapping /\ RelayedInOrder
  BY DEF IInv
<1>2. TypeOK'
  BY <1>1, TypeStep
<1>3. RoutesAgree'
  BY <1>1, RoutesStep
<1>4. Stages'
  BY <1>1, StagesStep
<1>5. AnsweredOnceWithItsToken'
  BY <1>1, AnswersStep
<1>6. Overlapping' /\ RelayedInOrder'
  BY <1>1, RelayStep
<1> QED BY <1>2, <1>3, <1>4, <1>5, <1>6 DEF IInv

(***************************************************************************)
(* The inductive invariant holds in every state the server can reach.      *)
(***************************************************************************)
THEOREM Invariance == Spec => []IInv
BY InitIInv, StepIInv, PTL DEF Spec

(***************************************************************************)
(* The type invariant of TunnelExit.                                       *)
(***************************************************************************)
THEOREM TypeCorrect == Spec => []TypeOK
<1>1. IInv => TypeOK
  BY DEF IInv
<1> QED BY <1>1, Invariance, PTL

(***************************************************************************)
(* A listed token leads to a connection whose route names that token:      *)
(* find_route and the read handler may go from one table to the other      *)
(* without a check.                                                        *)
(***************************************************************************)
THEOREM RoutesAlwaysAgree == Spec => []RoutesAgree
<1>1. IInv => RoutesAgree
  BY DEF IInv
<1> QED BY <1>1, Invariance, PTL

(***************************************************************************)
(* A connection that is being made is in both tables, under its own token: *)
(* event_table::connect finds its callback when it succeeds.               *)
(***************************************************************************)
THEOREM ConnectingAlwaysListed == Spec => []ConnectingIsListed
<1>1. IInv => ConnectingIsListed
  BY DEF IInv, Stages, Known, ConnectingIsListed
<1> QED BY <1>1, Invariance, PTL

(***************************************************************************)
(* A client is answered once at most for a connection, with the token of   *)
(* the route it asked for.                                                 *)
(***************************************************************************)
THEOREM AlwaysAnsweredOnce == Spec => []AnsweredOnceWithItsToken
<1>1. IInv => AnsweredOnceWithItsToken
  BY DEF IInv
<1> QED BY <1>1, Invariance, PTL

(***************************************************************************)
(* What a target sends reaches its client in order and once, as long as    *)
(* the reads from the target do not overlap.                               *)
(***************************************************************************)
THEOREM AlwaysRelayedInOrder == Spec => []RelayedInOrder
<1>1. IInv => RelayedInOrder
  BY DEF IInv
<1> QED BY <1>1, Invariance, PTL

(***************************************************************************)
(* No step gives a listed token to another connection.                     *)
(***************************************************************************)
THEOREM TokensAlwaysKept == Spec => TokenKeepsItsConnection
<1>1. IInv /\ [Next]_vars =>
        [\A t \in DOMAIN token_list :
           t \in DOMAIN token_list' => token_list'[t] = token_list[t]]_vars
  BY TokenStep DEF IInv
<1> QED BY <1>1, Invariance, PTL DEF Spec, TokenKeepsItsConnection

(***************************************************************************)
(* No step ends the relay of a route without erasing the route or ending   *)
(* the process.                                                            *)
(***************************************************************************)
THEOREM RelayAlwaysGoesOn == Spec => RelayGoesOn
<1>1. IInv /\ [Next]_vars =>
        [\A c \in Conns :
           conn[c].reads > 0 /\ c \in DOMAIN connection_list'
             /\ proc' = "running" => conn'[c].reads > 0]_vars
  BY RelayGoesOnStep DEF IInv
<1> QED BY <1>1, Invariance, PTL DEF Spec, RelayGoesOn
=============================================================================
