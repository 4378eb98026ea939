------------------------ MODULE ClientRoutes_proofs ------------------------
(***************************************************************************)
(* TunnelExit implements ClientRoutes for each client, for any clients,    *)
(* connections and tokens and any bounds.                                  *)
(*                                                                         *)
(* Each handler moves at most one connection from one of the three sets    *)
(* Pending, Live and Dead to another; how their cardinalities change then  *)
(* follows from their being finite, which connection_list always is: it    *)
(* grows by one entry at a time.                                           *)
(***************************************************************************)
EXTENDS TokenDirectory_proofs, FiniteSetTheorems

RInv == DInv /\ IsFiniteSet(DOMAIN connection_list)

LEMMA InitRInv == Init => RInv
<1>1. Init => IsFiniteSet(DOMAIN connection_list)
  BY FS_EmptySet DEF Init
<1> QED BY <1>1, InitDInv DEF RInv

LEMMA StepRInv == RInv /\ [Next]_vars => RInv'
<1> SUFFICES ASSUME RInv, [Next]_vars PROVE RInv'
  OBVIOUS
<1>0. DInv /\ DInv' /\ TypeOK /\ Stages /\ IsFiniteSet(DOMAIN connection_list)
  BY StepDInv DEF RInv, DInv, IInv
<1>1. ASSUME NEW k \in Clients, NEW c \in Conns, NEW t \in Tokens, AsyncConnect(k, c, t)
      PROVE  IsFiniteSet(DOMAIN connection_list')
  <2>1. DOMAIN connection_list' = DOMAIN connection_list \cup {c}
    BY <1>0, <1>1, Entered DEF Enters
  <2> QED BY <1>0, <2>1, FS_AddElement
<1>2. ASSUME NEW c \in Conns, ReadFailed(c), ~ UNCHANGED tables
      PROVE  IsFiniteSet(DOMAIN connection_list')
  <2>1. DOMAIN connection_list' = DOMAIN connection_list \ {c}
    BY <1>0, <1>2, Erased DEF Erases
  <2> QED BY <1>0, <2>1, FS_RemoveElement
<1>3. ASSUME UNCHANGED tables
      PROVE  IsFiniteSet(DOMAIN connection_list')
  BY <1>0, <1>3 DEF tables
<1>4. IsFiniteSet(DOMAIN connection_list')
  BY <1>0, <1>1, <1>2, <1>3, TableSteps
<1> QED BY <1>0, <1>4 DEF RInv

-----------------------------------------------------------------------------
(* The three sets and their sizes.                                         *)

(* They are finite, and a dead route has no answer. *)
LEMMA RouteCounts ==
  ASSUME RInv, NEW k \in Clients
  PROVE  /\ IsFiniteSet(Pending(k)) /\ IsFiniteSet(Live(k)) /\ IsFiniteSet(Dead(k))
         /\ Cardinality(Pending(k)) \in Nat
         /\ Cardinality(Live(k)) \in Nat
         /\ Cardinality(Dead(k)) \in Nat
<1>1. ASSUME NEW S \in SUBSET (DOMAIN connection_list)
      PROVE  IsFiniteSet(S) /\ Cardinality(S) \in Nat
  BY FS_Subset, FS_CardinalityType DEF RInv
<1>2. /\ Pending(k) \in SUBSET (DOMAIN connection_list)
      /\ Live(k) \in SUBSET (DOMAIN connection_list)
      /\ Dead(k) \in SUBSET (DOMAIN connection_list)
  BY DEF Pending, Live, Dead, RoutesOf
<1> QED BY <1>1, <1>2

(* One element more, one element less. *)
LEMMA OneMore ==
  ASSUME NEW S, IsFiniteSet(S), NEW x, x \notin S
  PROVE  Cardinality(S \cup {x}) = Cardinality(S) + 1
BY FS_AddElement

LEMMA OneLess ==
  ASSUME NEW S, IsFiniteSet(S), NEW x \in S
  PROVE  Cardinality(S \ {x}) = Cardinality(S) - 1 /\ Cardinality(S) > 0
<1>1. Cardinality(S \ {x}) = Cardinality(S) - 1
  BY FS_RemoveElement
<1>2. Cardinality(S) \in Nat /\ Cardinality(S) # 0
  BY FS_EmptySet, FS_CardinalityType
<1> QED BY <1>1, <1>2

(* A handler that leaves the routes and how far they have come alone. *)
LEMMA RoutesStay ==
  ASSUME NEW k, UNCHANGED <<connection_list, link, answers>>
  PROVE  Pending(k)' = Pending(k) /\ Live(k)' = Live(k) /\ Dead(k)' = Dead(k)
BY DEF Pending, Live, Dead, RoutesOf

LEMMA StayingKeeps ==
  ASSUME Running, NEW k \in Clients,
         Pending(k)' = Pending(k), Live(k)' = Live(k), Dead(k)' = Dead(k),
         client'[k] = client[k], proc' = proc \/ proc' = "terminated"
  PROVE  [ClientRouting(k)!Next]_(ClientRouting(k)!vars)
BY DEF ClientRouting!Next, ClientRouting!Terminate, ClientRouting!vars, Running

-----------------------------------------------------------------------------
(* The handlers.                                                           *)

LEMMA ConnectAsks ==
  ASSUME RInv, NEW k \in Clients, NEW j \in Clients, NEW c \in Conns, NEW t \in Tokens,
         AsyncConnect(j, c, t)
  PROVE  [ClientRouting(k)!Next]_(ClientRouting(k)!vars)
<1>0. /\ TypeOK /\ Stages /\ Enters(j, c, t) /\ link[c] = "unused" /\ Running
      /\ client[j] # "reset" /\ UNCHANGED <<answers, client, proc>>
      /\ link' = [link EXCEPT ![c] = IF Listed(t) THEN "abandoned" ELSE "connecting"]
  BY Entered DEF RInv, DInv, IInv, AsyncConnect
<1>1. answers[c] = <<>> /\ c \notin RoutesOf(k)
  BY <1>0 DEF Stages, OnlyUpIsUsed, Enters, RoutesOf, Routed
<1>2. /\ \A d \in DOMAIN connection_list : link'[d] = link[d]
      /\ link'[c] = IF Listed(t) THEN "abandoned" ELSE "connecting"
  BY <1>0 DEF TypeOK, Enters, Routed
<1>3. RoutesOf(k)' = IF j = k THEN RoutesOf(k) \cup {c} ELSE RoutesOf(k)
  BY <1>0 DEF Enters, RoutesOf, Routed
<1>4. CASE j # k
  <2>1. Pending(k)' = Pending(k) /\ Live(k)' = Live(k) /\ Dead(k)' = Dead(k)
    BY <1>0, <1>2, <1>3, <1>4 DEF Pending, Live, Dead, RoutesOf
  <2> QED BY <1>0, <2>1, StayingKeeps
<1>5. CASE j = k /\ Listed(t)
  <2>1. Live(k)' = Live(k)
    BY <1>0, <1>1, <1>3, <1>5 DEF Live
  <2>2. Dead(k)' = Dead(k) \cup {c}
    BY <1>2, <1>3, <1>5 DEF Dead, RoutesOf
  <2>3. Pending(k)' = Pending(k)
    BY <1>1, <1>3, <1>5, <2>1, <2>2 DEF Pending
  <2>4. Cardinality(Dead(k)') = Cardinality(Dead(k)) + 1
    BY <1>1, <2>2, RouteCounts, OneMore DEF Dead
  <2> QED BY <1>0, <1>5, <2>1, <2>3, <2>4
          DEF ClientRouting!Next, ClientRouting!Ask, Running
<1>6. CASE j = k /\ ~Listed(t)
  <2>1. Live(k)' = Live(k)
    BY <1>0, <1>1, <1>3, <1>6 DEF Live
  <2>2. Dead(k)' = Dead(k)
    BY <1>2, <1>3, <1>6 DEF Dead, RoutesOf
  <2>3. c \notin Live(k) /\ c \notin Dead(k) /\ c \notin Pending(k)
    BY <1>1 DEF Live, Dead, Pending
  <2>4. Pending(k)' = Pending(k) \cup {c}
    BY <1>3, <1>6, <2>1, <2>2, <2>3 DEF Pending
  <2>5. Cardinality(Pending(k)') = Cardinality(Pending(k)) + 1
    BY <2>3, <2>4, RouteCounts, OneMore
  <2> QED BY <1>0, <1>6, <2>1, <2>2, <2>5
          DEF ClientRouting!Next, ClientRouting!Ask, Running
<1> QED BY <1>4, <1>5, <1>6

LEMMA SuccessTells ==
  ASSUME RInv, RInv', NEW k \in Clients, NEW c \in Conns, ConnectSucceeded(c)
  PROVE  [ClientRouting(k)!Next]_(ClientRouting(k)!vars)
<1>0. /\ TypeOK /\ Stages /\ Running /\ link[c] = "connecting"
      /\ link' = [link EXCEPT ![c] = "up"] /\ UNCHANGED <<connection_list, client>>
      /\ proc' = proc \/ proc' = "terminated"
  BY DEF RInv, DInv, IInv, ConnectSucceeded, tables, Terminated
<1>1. answers[c] = <<>> /\ Routed(c)
  BY <1>0 DEF Stages, OnlyUpIsUsed, Known
<1>2. /\ \A d \in Conns : d # c => link'[d] = link[d]
      /\ link'[c] = "up"
      /\ DOMAIN connection_list \subseteq Conns
  BY <1>0 DEF TypeOK
<1>3. Dead(k)' = Dead(k) /\ RoutesOf(k)' = RoutesOf(k)
  BY <1>0, <1>2 DEF Dead, RoutesOf
<1>4. CASE answers' = answers
  <2>1. Live(k)' = Live(k)
    BY <1>3, <1>4 DEF Live
  <2>2. Pending(k)' = Pending(k)
    BY <1>3, <2>1 DEF Pending
  <2> QED BY <1>0, <1>3, <2>1, <2>2, StayingKeeps
<1>5. CASE answers' # answers
  <2>1. /\ client[connection_list[c].source] # "reset" /\ proc' = proc
        /\ \E t \in TokensOf(c) :
             answers' = [answers EXCEPT ![c] = Append(@,
               [token |-> t, source |-> connection_list[c].source])]
    BY <1>5 DEF ConnectSucceeded
  <2>2. PICK t \in TokensOf(c) :
             answers' = [answers EXCEPT ![c] = Append(@,
               [token |-> t, source |-> connection_list[c].source])]
    BY <2>1
  <2>3. /\ \A d \in Conns : d # c => answers'[d] = answers[d]
        /\ answers'[c] # <<>>
    BY <1>0, <1>1, <2>2 DEF TypeOK
  <2>4. CASE connection_list[c].source # k
    <3>1. c \notin RoutesOf(k)
      BY <2>4 DEF RoutesOf
    <3>2. Live(k)' = Live(k)
      BY <1>2, <1>3, <2>3, <3>1 DEF Live, RoutesOf
    <3>3. Pending(k)' = Pending(k)
      BY <1>3, <3>2 DEF Pending
    <3> QED BY <1>0, <1>3, <3>2, <3>3, StayingKeeps
  <2>5. CASE connection_list[c].source = k
    <3>1. c \in RoutesOf(k) /\ c \notin Live(k) /\ c \notin Dead(k)
      BY <1>0, <1>1, <2>5 DEF RoutesOf, Live, Dead, Routed
    <3>2. Live(k)' = Live(k) \cup {c}
      BY <1>2, <1>3, <2>3, <3>1 DEF Live, RoutesOf
    <3>3. c \in Pending(k) /\ Pending(k)' = Pending(k) \ {c}
      BY <1>3, <3>1, <3>2 DEF Pending
    <3>4. /\ Cardinality(Live(k)') = Cardinality(Live(k)) + 1
          /\ Cardinality(Pending(k)') = Cardinality(Pending(k)) - 1
          /\ Cardinality(Pending(k)) > 0
      BY <3>1, <3>2, <3>3, RouteCounts, OneMore, OneLess
    <3> QED BY <1>0, <1>3, <2>1, <2>5, <3>4
            DEF ClientRouting!Next, ClientRouting!Tell, Running
  <2> QED BY <2>4, <2>5
<1> QED BY <1>4, <1>5

LEMMA FailureRefuses ==
  ASSUME RInv, NEW k \in Clients, NEW c \in Conns, ConnectFailed(c)
  PROVE  [ClientRouting(k)!Next]_(ClientRouting(k)!vars)
<1>0. /\ TypeOK /\ Stages /\ Running /\ link[c] = "connecting"
      /\ link' = [link EXCEPT ![c] = "failed"]
      /\ UNCHANGED <<connection_list, answers, client, proc>>
  BY DEF RInv, DInv, IInv, ConnectFailed, tables
<1>1. answers[c] = <<>> /\ Routed(c)
  BY <1>0 DEF Stages, OnlyUpIsUsed, Known
<1>2. /\ \A d \in Conns : d # c => link'[d] = link[d]
      /\ link'[c] = "failed"
      /\ DOMAIN connection_list \subseteq Conns
  BY <1>0 DEF TypeOK
<1>3. Live(k)' = Live(k) /\ RoutesOf(k)' = RoutesOf(k)
  BY <1>0 DEF Live, RoutesOf
<1>4. CASE connection_list[c].source # k
  <2>1. c \notin RoutesOf(k)
    BY <1>4 DEF RoutesOf
  <2>2. Dead(k)' = Dead(k)
    BY <1>2, <1>3, <2>1 DEF Dead, RoutesOf
  <2>3. Pending(k)' = Pending(k)
    BY <1>3, <2>2 DEF Pending
  <2> QED BY <1>0, <1>3, <2>2, <2>3, StayingKeeps
<1>5. CASE connection_list[c].source = k
  <2>1. c \in RoutesOf(k) /\ c \notin Live(k) /\ c \notin Dead(k)
    BY <1>0, <1>1, <1>5 DEF RoutesOf, Live, Dead, Routed
  <2>2. Dead(k)' = Dead(k) \cup {c}
    BY <1>2, <1>3, <2>1 DEF Dead, RoutesOf
  <2>3. c \in Pending(k) /\ Pending(k)' = Pending(k) \ {c}
    BY <1>3, <2>1, <2>2 DEF Pending
  <2>4. /\ Cardinality(Dead(k)') = Cardinality(Dead(k)) + 1
        /\ Cardinality(Pending(k)') = Cardinality(Pending(k)) - 1
        /\ Cardinality(Pending(k)) > 0
    BY <2>1, <2>2, <2>3, RouteCounts, OneMore, OneLess
  <2> QED BY <1>0, <1>3, <2>4 DEF ClientRouting!Next, ClientRouting!Refuse, Running
<1> QED BY <1>4, <1>5

LEMMA ReadCloses ==
  ASSUME RInv, NEW k \in Clients, NEW c \in Conns, ReadFailed(c)
  PROVE  [ClientRouting(k)!Next]_(ClientRouting(k)!vars)
<1>0. /\ TypeOK /\ Stages /\ Answered /\ Running /\ UNCHANGED <<link, answers, client>>
      /\ proc' = proc \/ proc' = "terminated"
  BY DEF RInv, DInv, IInv, ReadFailed, Waiting, Terminated
<1>1. CASE UNCHANGED tables
  BY <1>0, <1>1, RoutesStay, StayingKeeps DEF tables
<1>2. CASE ~ UNCHANGED tables
  <2>1. Erases(c)
    BY <1>0, <1>2, Erased
  <2>2. proc' = proc
    BY <1>2 DEF ReadFailed
  <2>3. RoutesOf(k)' = RoutesOf(k) \ {c}
    BY <2>1 DEF Erases, RoutesOf
  <2>4. answers[c] # <<>> /\ c \notin Dead(k)
    BY <1>0, <2>1 DEF Answered, Erases, Dead
  <2>5. Live(k)' = Live(k) \ {c}
    BY <1>0, <2>3 DEF Live
  <2>6. Dead(k)' = Dead(k)
    BY <1>0, <2>3, <2>4 DEF Dead
  <2>7. Pending(k)' = Pending(k)
    BY <2>3, <2>4, <2>5, <2>6 DEF Pending, Live
  <2>8. CASE c \in Live(k)
    <3>1. /\ Cardinality(Live(k)') = Cardinality(Live(k)) - 1
          /\ Cardinality(Live(k)) > 0
      BY <2>5, <2>8, RouteCounts, OneLess
    <3> QED BY <1>0, <2>2, <2>6, <2>7, <3>1
            DEF ClientRouting!Next, ClientRouting!Close, Running
  <2>9. CASE c \notin Live(k)
    BY <1>0, <2>5, <2>6, <2>7, <2>9, StayingKeeps
  <2> QED BY <2>8, <2>9
<1> QED BY <1>1, <1>2

LEMMA NextKeepsRoutes ==
  ASSUME RInv, RInv', [Next]_vars, NEW k \in Clients
  PROVE  [ClientRouting(k)!Next]_(ClientRouting(k)!vars)
<1>1. CASE \E c \in Conns : ConnectSucceeded(c) \/ ConnectFailed(c) \/ ReadFailed(c)
  BY <1>1, SuccessTells, FailureRefuses, ReadCloses
<1>2. CASE \E j \in Clients, c \in Conns, t \in Tokens : AsyncConnect(j, c, t)
  BY <1>2, ConnectAsks
<1>3. ASSUME NEW j \in Clients, NEW how \in {"fin", "reset"}, ClientLeaves(j, how)
      PROVE  [ClientRouting(k)!Next]_(ClientRouting(k)!vars)
  <2>1. /\ Running /\ client[j] # "reset" /\ client' = [client EXCEPT ![j] = how]
        /\ UNCHANGED <<connection_list, link, answers, proc>> /\ TypeOK
    BY <1>3 DEF ClientLeaves, tables, RInv, DInv, IInv
  <2>2. Pending(k)' = Pending(k) /\ Live(k)' = Live(k) /\ Dead(k)' = Dead(k)
    BY <2>1, RoutesStay
  <2>3. CASE j = k /\ how = "reset"
    <3>1. client[k] # "reset" /\ client'[k] = "reset"
      BY <2>1, <2>3 DEF TypeOK
    <3> QED BY <2>1, <2>2, <3>1 DEF ClientRouting!Next, ClientRouting!Leave, Running
  <2>4. CASE ~(j = k /\ how = "reset")
    <3>1. (client'[k] # "reset") = (client[k] # "reset")
      BY <2>1, <2>4 DEF TypeOK
    <3> QED BY <2>1, <2>2, <3>1 DEF ClientRouting!vars
  <2> QED BY <2>3, <2>4
<1>4. CASE \/ ResolveThrows
           \/ \E j \in Clients, t \in Tokens : Data(j, t)
           \/ \E c \in Conns :
                \/ WriteDone(c) \/ WriteFailed(c) \/ ReadSome(c) \/ TargetSends(c)
                \/ \E how \in {"fin", "reset"} : TargetCloses(c, how)
  <2>1. /\ Running /\ UNCHANGED <<connection_list, link, answers, client>>
        /\ proc' = proc \/ proc' = "terminated"
    BY <1>4 DEF ResolveThrows, Data, WriteDone, WriteFailed, ReadSome, TargetSends,
       TargetCloses, Waiting, Terminated, tables
  <2> QED BY <2>1, RoutesStay, StayingKeeps
<1>5. CASE UNCHANGED vars
  <2>1. UNCHANGED <<connection_list, link, answers, client, proc>>
    BY <1>5 DEF vars
  <2> QED BY <2>1, RoutesStay DEF ClientRouting!vars
<1> QED BY <1>1, <1>2, <1>3, <1>4, <1>5 DEF Next

(***************************************************************************)
(* Whatever the other clients do and whichever tokens are drawn, each      *)
(* client's routes are asked for, answered, refused and closed one at a    *)
(* time, as TunnelEntry expects of its environment.                        *)
(***************************************************************************)
THEOREM ClientRoutesKept == Spec => KeepsClientRoutes
<1>1. Init => \A k \in Clients : ClientRouting(k)!Init
  <2> SUFFICES ASSUME Init, NEW k \in Clients PROVE ClientRouting(k)!Init
    OBVIOUS
  <2>1. Pending(k) = {} /\ Live(k) = {} /\ Dead(k) = {}
    BY DEF Init, Pending, Live, Dead, RoutesOf
  <2> QED BY <2>1, FS_EmptySet DEF Init, ClientRouting!Init
<1>2. RInv /\ RInv' /\ [Next]_vars
        => [\A k \in Clients : [ClientRouting(k)!Next]_(ClientRouting(k)!vars)]_vars
  BY NextKeepsRoutes
<1>3. Spec => []RInv
  BY InitRInv, StepRInv, PTL DEF Spec
<1> QED BY <1>1, <1>2, <1>3, PTL DEF Spec, KeepsClientRoutes
=============================================================================
