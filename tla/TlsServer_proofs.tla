-------------------------- MODULE TlsServer_proofs --------------------------
(***************************************************************************)
(* For any number of clients and of descriptors: the chains of accepts     *)
(* neither end nor multiply, and connections are not shared.               *)
(*                                                                         *)
(* OwnConnections is inductive together with Numbered: a connection that   *)
(* is made now is none of those made before.                               *)
(***************************************************************************)
EXTENDS TlsServer, SequenceTheorems, TLAPS

Numbered ==
  /\ \A i \in DOMAIN accepts : accepts[i] \in 1 .. created
  /\ \A i \in DOMAIN accepted : accepted[i].conn \in 1 .. created
  /\ \A c \in Clients : socketOf[c] \in 0 .. created

IInv == TypeOK /\ TwoAccepts /\ Numbered /\ OwnConnections

(***************************************************************************)
(* The steps of the sessions: none touches the accepts.                    *)
(***************************************************************************)
SessionStep(c) ==
  \/ HandshakeCompletes(c) \/ ReadData(c) \/ ReadFails(c)
  \/ ConnectDone(c) \/ RouteClosed(c) \/ ShutdownDone(c)

LEMMA Completion ==
  ASSUME TypeOK
  PROVE  /\ accepted # <<>> => Head(accepted).conn \in Nat
         /\ accepted # <<>> => Head(accepted).client \in Clients \union {NoClient}
<1> DEFINE R == [conn : Nat, client : Clients \union {NoClient}]
<1>1. accepted # <<>> => Head(accepted) \in R
  <2>1. accepted \in Seq(R)
    BY DEF TypeOK
  <2>2. QED
    BY <2>1, HeadTailProperties
<1>2. \A r \in R : r.conn \in Nat /\ r.client \in Clients \union {NoClient}
  OBVIOUS
<1>3. QED
  BY <1>1, <1>2

LEMMA InitIInv == Init => IInv
<1> SUFFICES ASSUME Init PROVE IInv
  OBVIOUS
<1> USE DEF Init
<1>1. TypeOK
  BY DEF TypeOK, Stages
<1>2. TwoAccepts
  BY DEF TwoAccepts
<1>3. Numbered
  BY DEF Numbered
<1>4. OwnConnections
  BY DEF OwnConnections
<1>5. QED
  BY <1>1, <1>2, <1>3, <1>4 DEF IInv

-----------------------------------------------------------------------------
(* Types.                                                                  *)

LEMMA AcceptsTyped ==
  ASSUME TypeOK, Accept \/ AcceptFails \/ HandleAccept \/ HandleAcceptError
  PROVE  TypeOK'
<1> DEFINE R == [conn : Nat, client : Clients \union {NoClient}]
<1> USE DEF TypeOK
<1>1. CASE Accept
  <2>1. Head(accepts) \in Nat /\ Head(backlog) \in Clients
    BY <1>1 DEF Accept
  <2>2. [conn |-> Head(accepts), client |-> Head(backlog)] \in R
    BY <2>1
  <2>3. accepted' \in Seq(R)
    BY <1>1, <2>2 DEF Accept
  <2>4. stage' \in [Clients -> Stages]
    BY <1>1, <2>1 DEF Accept, Move, Stages
  <2>5. backlog' \in Seq(Clients) /\ accepts' \in Seq(Nat)
    BY <1>1 DEF Accept
  <2>6. QED
    BY <1>1, <2>3, <2>4, <2>5 DEF Accept
<1>2. CASE AcceptFails
  <2>1. Head(accepts) \in Nat
    BY <1>2 DEF AcceptFails
  <2>2. [conn |-> Head(accepts), client |-> NoClient] \in R
    BY <2>1
  <2>3. accepted' \in Seq(R)
    BY <1>2, <2>2 DEF AcceptFails
  <2>4. accepts' \in Seq(Nat)
    BY <1>2 DEF AcceptFails
  <2>5. QED
    BY <1>2, <2>3, <2>4 DEF AcceptFails
<1>3. CASE HandleAccept
  <2> DEFINE c == Head(accepted).client
  <2>1. c \in Clients /\ Head(accepted).conn \in Nat
    BY <1>3, Completion DEF HandleAccept
  <2>2. accepted' \in Seq(R)
    BY <1>3 DEF HandleAccept
  <2>3. accepts' \in Seq(Nat) /\ created' \in Nat
    <3>1. \/ UNCHANGED <<accepts, created>>
          \/ created' = created + 1 /\ accepts' = Append(accepts, created + 1)
      BY <1>3 DEF HandleAccept, Fresh
    <3>2. CASE UNCHANGED <<accepts, created>>
      BY <3>2
    <3>3. CASE created' = created + 1 /\ accepts' = Append(accepts, created + 1)
      BY <3>3
    <3>4. QED
      BY <3>1, <3>2, <3>3
  <2>4. socketOf' \in [Clients -> Nat]
    BY <1>3, <2>1 DEF HandleAccept
  <2>5. stage' \in [Clients -> Stages]
    BY <1>3, <2>1 DEF HandleAccept, Move, Stages
  <2>6. proc' \in {"running", "terminated"}
    BY <1>3 DEF HandleAccept, Ends
  <2>7. QED
    BY <1>3, <2>2, <2>3, <2>4, <2>5, <2>6 DEF HandleAccept
<1>4. CASE HandleAcceptError
  <2>1. accepted' \in Seq(R)
    BY <1>4 DEF HandleAcceptError
  <2>2. QED
    BY <1>4, <2>1 DEF HandleAcceptError, Ends
<1>5. QED
  BY <1>1, <1>2, <1>3, <1>4

LEMMA SessionsTyped ==
  ASSUME TypeOK, NEW c \in Clients, SessionStep(c)
  PROVE  TypeOK' /\ UNCHANGED acceptVars /\ (proc' = proc \/ proc' = "terminated")
<1>1. UNCHANGED acceptVars /\ UNCHANGED peer
  BY DEF SessionStep, HandshakeCompletes, ReadData, ReadFails, ConnectDone,
         RouteClosed, ShutdownDone, Handler
<1>2. proc' = proc \/ proc' = "terminated"
  BY DEF SessionStep, HandshakeCompletes, ReadData, ReadFails, ConnectDone,
         RouteClosed, ShutdownDone, Handler, Ends
<1>3. \/ UNCHANGED stage
      \/ \E to \in Stages : Move(c, to)
  <2>1. peer[c] \in {"open", "fin", "cut", "reset"}
    BY DEF TypeOK
  <2>2. QED
    BY <2>1 DEF SessionStep, HandshakeCompletes, ReadData, ReadFails, ConnectDone,
         RouteClosed, ShutdownDone, Handler, Stages
<1>4. stage' \in [Clients -> Stages]
  BY <1>3 DEF TypeOK, Move
<1>5. routed' \in SUBSET Clients
  <2>1. peer[c] \in {"open", "fin", "cut", "reset"}
    BY DEF TypeOK
  <2>2. routed' = routed \/ routed' = routed \union {c} \/ routed' = routed \ {c}
    BY <2>1 DEF SessionStep, HandshakeCompletes, ReadData, ReadFails, ConnectDone,
         RouteClosed, ShutdownDone, Handler
  <2>3. QED
    BY <2>2 DEF TypeOK
<1>6. TypeOK'
  BY <1>1, <1>2, <1>4, <1>5 DEF TypeOK, acceptVars
<1>7. QED
  BY <1>1, <1>2, <1>6

-----------------------------------------------------------------------------
(***************************************************************************)
(* The two sequences, index by index, before and after a step.             *)
(***************************************************************************)
LEMMA AttemptMoves ==
  ASSUME TypeOK, NEW client \in Clients \union {NoClient}, accepts # <<>>,
         accepts' = Tail(accepts),
         accepted' = Append(accepted, [conn |-> Head(accepts), client |-> client])
  PROVE  /\ Len(accepts) \in Nat /\ Len(accepts) > 0
         /\ Len(accepted) \in Nat
         /\ Head(accepts) = accepts[1]
         /\ DOMAIN accepts' = 1 .. Len(accepts) - 1
         /\ \A i \in 1 .. Len(accepts) - 1 : accepts'[i] = accepts[i + 1]
         /\ DOMAIN accepted' = 1 .. Len(accepted) + 1
         /\ \A i \in 1 .. Len(accepted) : accepted'[i] = accepted[i]
         /\ accepted'[Len(accepted) + 1].conn = accepts[1]
<1> DEFINE R == [conn : Nat, client : Clients \union {NoClient}]
<1> DEFINE r == [conn |-> Head(accepts), client |-> client]
<1>1. accepts \in Seq(Nat) /\ accepted \in Seq(R)
  BY DEF TypeOK
<1>2. Len(accepts) \in Nat /\ Len(accepts) > 0 /\ Head(accepts) = accepts[1]
  BY <1>1
<1>3. /\ accepts' \in Seq(Nat) /\ Len(accepts') = Len(accepts) - 1
      /\ \A i \in 1 .. Len(accepts') : accepts'[i] = accepts[i + 1]
  BY <1>1, HeadTailProperties
<1>4. r \in R
  BY <1>1, HeadTailProperties
<1> HIDE DEF r, R
<1>5. accepted' = Append(accepted, r)
  BY DEF r
<1>6. /\ accepted' \in Seq(R) /\ Len(accepted') = Len(accepted) + 1
      /\ \A i \in 1 .. Len(accepted) : accepted'[i] = accepted[i]
      /\ accepted'[Len(accepted) + 1] = r
  BY <1>1, <1>4, <1>5, AppendProperties
<1>7. r.conn = Head(accepts)
  BY DEF r
<1>8. Len(accepted) \in Nat
  BY <1>1
<1>9. DOMAIN accepts' = 1 .. Len(accepts) - 1
  BY <1>3
<1>10. DOMAIN accepted' = 1 .. Len(accepted) + 1
  BY <1>6
<1>11. QED
  BY <1>2, <1>3, <1>6, <1>7, <1>8, <1>9, <1>10

LEMMA HandlingMoves ==
  ASSUME TypeOK, accepted # <<>>, accepted' = Tail(accepted)
  PROVE  /\ Len(accepted) \in Nat /\ Len(accepted) > 0
         /\ Head(accepted) = accepted[1]
         /\ Len(accepted') = Len(accepted) - 1
         /\ DOMAIN accepted' = 1 .. Len(accepted) - 1
         /\ \A i \in 1 .. Len(accepted) - 1 : accepted'[i] = accepted[i + 1]
<1> DEFINE R == [conn : Nat, client : Clients \union {NoClient}]
<1>1. accepted \in Seq(R)
  BY DEF TypeOK
<1> HIDE DEF R
<1>2. Len(accepted) \in Nat /\ Len(accepted) > 0 /\ Head(accepted) = accepted[1]
  BY <1>1
<1>3. /\ accepted' \in Seq(R) /\ Len(accepted') = Len(accepted) - 1
      /\ \A i \in 1 .. Len(accepted') : accepted'[i] = accepted[i + 1]
  BY <1>1, HeadTailProperties
<1>4. DOMAIN accepted' = 1 .. Len(accepted) - 1
  BY <1>3
<1>5. QED
  BY <1>2, <1>3, <1>4

(***************************************************************************)
(* An accept that completes takes its connection from one sequence to the  *)
(* other.                                                                  *)
(***************************************************************************)
LEMMA AttemptKeeps ==
  ASSUME IInv, AcceptAttempt
  PROVE  IInv'
<1> DEFINE n == Len(accepts)
           m == Len(accepted)
<1>1. PICK client \in Clients \union {NoClient} :
        /\ accepts # <<>> /\ accepts' = Tail(accepts)
        /\ accepted' = Append(accepted, [conn |-> Head(accepts), client |-> client])
  <2>1. CASE Accept
    <3>1. Head(backlog) \in Clients
      BY <2>1 DEF Accept, IInv, TypeOK
    <3>2. QED
      BY <2>1, <3>1 DEF Accept
  <2>2. CASE AcceptFails
    BY <2>2 DEF AcceptFails
  <2>3. QED
    BY <2>1, <2>2 DEF AcceptAttempt
<1>2. UNCHANGED <<created, socketOf, proc>>
  BY DEF AcceptAttempt, Accept, AcceptFails
<1>3. /\ n \in Nat /\ n > 0 /\ m \in Nat
      /\ DOMAIN accepts' = 1 .. n - 1
      /\ \A i \in 1 .. n - 1 : accepts'[i] = accepts[i + 1]
      /\ DOMAIN accepted' = 1 .. m + 1
      /\ \A i \in 1 .. m : accepted'[i] = accepted[i]
      /\ accepted'[m + 1].conn = accepts[1]
  BY <1>1, AttemptMoves DEF IInv
<1>4. DOMAIN accepts = 1 .. n /\ DOMAIN accepted = 1 .. m
  BY DEF IInv, TypeOK
<1>5. Len(accepts') = n - 1 /\ Len(accepted') = m + 1
  <2>1. accepts \in Seq(Nat) /\ accepted \in Seq([conn : Nat, client : Clients \union {NoClient}])
    BY DEF IInv, TypeOK
  <2>2. QED
    BY <1>1, <2>1
<1> HIDE DEF n, m
<1>6. TypeOK'
  BY AcceptsTyped DEF IInv, AcceptAttempt
<1>7. TwoAccepts'
  BY <1>2, <1>3, <1>5 DEF IInv, TwoAccepts, Running, n, m
<1>8. Numbered'
  <2>1. \A i \in DOMAIN accepts' : accepts'[i] \in 1 .. created
    BY <1>3, <1>4 DEF IInv, Numbered
  <2>2. \A i \in DOMAIN accepted' : accepted'[i].conn \in 1 .. created
    BY <1>3, <1>4 DEF IInv, Numbered
  <2>3. QED
    BY <1>2, <2>1, <2>2 DEF IInv, Numbered
<1>9. OwnConnections'
  <2>1. \A i, j \in DOMAIN accepts' : i # j => accepts'[i] # accepts'[j]
    BY <1>3, <1>4 DEF IInv, OwnConnections
  <2>2. \A i, j \in DOMAIN accepted' : i # j => accepted'[i].conn # accepted'[j].conn
    BY <1>3, <1>4 DEF IInv, OwnConnections
  <2>3. \A i \in DOMAIN accepts', j \in DOMAIN accepted' : accepts'[i] # accepted'[j].conn
    BY <1>3, <1>4 DEF IInv, OwnConnections
  <2>4. ASSUME NEW c \in Clients, socketOf[c] # 0
        PROVE  /\ \A i \in DOMAIN accepts' : accepts'[i] # socketOf[c]
               /\ \A i \in DOMAIN accepted' : accepted'[i].conn # socketOf[c]
               /\ \A d \in Clients \ {c} : socketOf[d] # socketOf[c]
    <3>1. \A i \in DOMAIN accepts' : accepts'[i] # socketOf[c]
      BY <1>3, <1>4, <2>4 DEF IInv, OwnConnections
    <3>2. \A i \in DOMAIN accepted' : accepted'[i].conn # socketOf[c]
      BY <1>3, <1>4, <2>4 DEF IInv, OwnConnections
    <3>3. \A d \in Clients \ {c} : socketOf[d] # socketOf[c]
      BY <2>4 DEF IInv, OwnConnections
    <3>4. QED
      BY <3>1, <3>2, <3>3
  <2>5. QED
    BY <1>2, <2>1, <2>2, <2>3, <2>4 DEF OwnConnections
<1>10. QED
  BY <1>6, <1>7, <1>8, <1>9 DEF IInv

(***************************************************************************)
(* handle_accept gives its connection to the client and makes a new one.   *)
(***************************************************************************)
LEMMA HandleAcceptKeeps ==
  ASSUME IInv, HandleAccept
  PROVE  IInv'
<1> DEFINE m == Len(accepted)
           n == Len(accepts)
           c == Head(accepted).client
           k == Head(accepted).conn
<1>1. c \in Clients /\ k = accepted[1].conn
  <2>1. accepted # <<>> /\ c # NoClient
    BY DEF HandleAccept
  <2>2. QED
    BY <2>1, Completion, HandlingMoves DEF IInv, HandleAccept
<1>2. /\ m \in Nat /\ m > 0 /\ Len(accepted') = m - 1
      /\ DOMAIN accepted' = 1 .. m - 1
      /\ \A i \in 1 .. m - 1 : accepted'[i] = accepted[i + 1]
  BY HandlingMoves DEF IInv, HandleAccept
<1>3. DOMAIN accepts = 1 .. n /\ DOMAIN accepted = 1 .. m /\ n \in Nat
  BY DEF IInv, TypeOK
<1>4. TypeOK'
  BY AcceptsTyped DEF IInv
<1>5. created \in Nat
  BY DEF IInv, TypeOK
<1>6. CASE peer[c] = "reset"
  <2>1. UNCHANGED <<accepts, created, socketOf>> /\ proc' = "terminated"
    BY <1>6 DEF HandleAccept, Ends
  <2> HIDE DEF m, n, c, k
  <2>2. TwoAccepts'
    BY <2>1 DEF TwoAccepts, Running
  <2>3. Numbered'
    BY <2>1, <1>2, <1>3 DEF IInv, Numbered
  <2>4. OwnConnections'
    <3>1. \A i, j \in DOMAIN accepted' : i # j => accepted'[i].conn # accepted'[j].conn
      BY <1>2, <1>3 DEF IInv, OwnConnections
    <3>2. \A i \in DOMAIN accepts, j \in DOMAIN accepted' : accepts[i] # accepted'[j].conn
      BY <1>2, <1>3 DEF IInv, OwnConnections
    <3>3. ASSUME NEW d \in Clients, socketOf[d] # 0
          PROVE  \A i \in DOMAIN accepted' : accepted'[i].conn # socketOf[d]
      BY <1>2, <1>3, <3>3 DEF IInv, OwnConnections
    <3>4. QED
      BY <2>1, <3>1, <3>2, <3>3 DEF IInv, OwnConnections
  <2>5. QED
    BY <1>4, <2>2, <2>3, <2>4 DEF IInv
<1>7. CASE peer[c] # "reset"
  <2>1. /\ accepts' = Append(accepts, created + 1) /\ created' = created + 1
        /\ socketOf' = [socketOf EXCEPT ![c] = k] /\ UNCHANGED proc
    BY <1>7 DEF HandleAccept, Fresh
  <2>2. /\ Len(accepts') = n + 1
        /\ DOMAIN accepts' = 1 .. n + 1
        /\ \A i \in 1 .. n : accepts'[i] = accepts[i]
        /\ accepts'[n + 1] = created + 1
    <3>1. accepts \in Seq(Nat) /\ created + 1 \in Nat
      BY DEF IInv, TypeOK
    <3>2. QED
      BY <2>1, <3>1, AppendProperties
  <2>3. /\ socketOf'[c] = k
        /\ \A d \in Clients \ {c} : socketOf'[d] = socketOf[d]
    BY <1>1, <2>1 DEF IInv, TypeOK
  <2> HIDE DEF m, n, c, k
  <2>4. k \in 1 .. created
    BY <1>1, <1>2, <1>3 DEF IInv, Numbered
  <2>5. TwoAccepts'
    BY <1>2, <1>3, <2>1, <2>2 DEF IInv, TwoAccepts, Running, m, n
  <2>6. Numbered'
    <3>1. \A i \in DOMAIN accepts' : accepts'[i] \in 1 .. created'
      BY <1>3, <1>5, <2>1, <2>2 DEF IInv, Numbered
    <3>2. \A i \in DOMAIN accepted' : accepted'[i].conn \in 1 .. created'
      BY <1>2, <1>3, <1>5, <2>1 DEF IInv, Numbered
    <3>3. \A d \in Clients : socketOf'[d] \in 0 .. created'
      BY <1>5, <2>1, <2>3, <2>4 DEF IInv, Numbered
    <3>4. QED
      BY <3>1, <3>2, <3>3 DEF Numbered
  <2>7. OwnConnections'
    <3>1. \A i, j \in DOMAIN accepts' : i # j => accepts'[i] # accepts'[j]
      BY <1>3, <1>5, <2>2 DEF IInv, OwnConnections, Numbered
    <3>2. \A i, j \in DOMAIN accepted' : i # j => accepted'[i].conn # accepted'[j].conn
      BY <1>2, <1>3 DEF IInv, OwnConnections
    <3>3. \A i \in DOMAIN accepts', j \in DOMAIN accepted' : accepts'[i] # accepted'[j].conn
      <4> SUFFICES ASSUME NEW i \in DOMAIN accepts', NEW j \in DOMAIN accepted'
                   PROVE  accepts'[i] # accepted'[j].conn
        OBVIOUS
      <4>1. accepted'[j].conn \in 1 .. created /\ accepted'[j] = accepted[j + 1]
            /\ j + 1 \in DOMAIN accepted
        BY <1>2, <1>3 DEF IInv, Numbered
      <4>2. CASE i \in 1 .. n
        BY <1>3, <2>2, <4>1, <4>2 DEF IInv, OwnConnections
      <4>3. CASE i = n + 1
        BY <1>5, <2>2, <4>1, <4>3
      <4>4. QED
        BY <1>3, <2>2, <4>2, <4>3
    <3>4. \A i \in DOMAIN accepts' : accepts'[i] # k
      <4>1. \A i \in 1 .. n : accepts[i] # k
        <5>1. 1 \in DOMAIN accepted
          BY <1>2, <1>3
        <5>2. \A i \in DOMAIN accepts : accepts[i] # accepted[1].conn
          BY <5>1 DEF IInv, OwnConnections
        <5>3. QED
          BY <1>1, <1>3, <5>2
      <4>2. created + 1 # k
        BY <1>5, <2>4
      <4>3. QED
        BY <1>3, <2>2, <4>1, <4>2
    <3>5. \A i \in DOMAIN accepted' : accepted'[i].conn # k
      BY <1>1, <1>2, <1>3 DEF IInv, OwnConnections
    <3>6. \A d \in Clients \ {c} : socketOf[d] # k
      BY <1>1, <1>2, <1>3, <2>4 DEF IInv, OwnConnections
    <3>7. ASSUME NEW d \in Clients \ {c}, socketOf[d] # 0
          PROVE  /\ \A i \in DOMAIN accepts' : accepts'[i] # socketOf[d]
                 /\ \A i \in DOMAIN accepted' : accepted'[i].conn # socketOf[d]
                 /\ \A e \in Clients \ {d} : socketOf'[e] # socketOf[d]
      <4>1. \A i \in DOMAIN accepts' : accepts'[i] # socketOf[d]
        BY <1>3, <1>5, <2>2, <3>7 DEF IInv, OwnConnections, Numbered
      <4>2. \A i \in DOMAIN accepted' : accepted'[i].conn # socketOf[d]
        BY <1>2, <1>3, <3>7 DEF IInv, OwnConnections
      <4>3. \A e \in Clients \ {d} : socketOf'[e] # socketOf[d]
        BY <2>3, <3>6, <3>7 DEF IInv, OwnConnections
      <4>4. QED
        BY <4>1, <4>2, <4>3
    <3>8. QED
      BY <1>1, <2>3, <3>1, <3>2, <3>3, <3>4, <3>5, <3>6, <3>7 DEF OwnConnections
  <2>8. QED
    BY <1>4, <2>5, <2>6, <2>7 DEF IInv
<1>8. QED
  BY <1>6, <1>7

LEMMA HandleAcceptErrorKeeps ==
  ASSUME IInv, HandleAcceptError
  PROVE  IInv'
<1>1. /\ Len(accepted) \in Nat
      /\ DOMAIN accepted' = 1 .. Len(accepted) - 1
      /\ \A i \in 1 .. Len(accepted) - 1 : accepted'[i] = accepted[i + 1]
  BY HandlingMoves DEF IInv, HandleAcceptError
<1>2. DOMAIN accepted = 1 .. Len(accepted)
  BY DEF IInv, TypeOK
<1>3. UNCHANGED <<accepts, created, socketOf>> /\ proc' = "terminated"
  BY DEF HandleAcceptError, Ends
<1>4. TypeOK'
  BY AcceptsTyped DEF IInv
<1>5. TwoAccepts'
  BY <1>3 DEF TwoAccepts, Running
<1>6. Numbered'
  BY <1>1, <1>2, <1>3 DEF IInv, Numbered
<1>7. OwnConnections'
  <2>1. \A i, j \in DOMAIN accepted' : i # j => accepted'[i].conn # accepted'[j].conn
    BY <1>1, <1>2 DEF IInv, OwnConnections
  <2>2. \A i \in DOMAIN accepts, j \in DOMAIN accepted' : accepts[i] # accepted'[j].conn
    BY <1>1, <1>2 DEF IInv, OwnConnections
  <2>3. ASSUME NEW d \in Clients, socketOf[d] # 0
        PROVE  \A i \in DOMAIN accepted' : accepted'[i].conn # socketOf[d]
    BY <1>1, <1>2, <2>3 DEF IInv, OwnConnections
  <2>4. QED
    BY <1>3, <2>1, <2>2, <2>3 DEF IInv, OwnConnections
<1>8. QED
  BY <1>4, <1>5, <1>6, <1>7 DEF IInv

(***************************************************************************)
(* Whatever leaves the accepts alone keeps the invariant with its types.   *)
(***************************************************************************)
LEMMA OthersKeep ==
  ASSUME IInv, TypeOK', UNCHANGED <<accepts, accepted, created, socketOf>>,
         proc' = proc \/ proc' = "terminated"
  PROVE  IInv'
<1>1. TwoAccepts'
  BY DEF IInv, TwoAccepts, Running
<1>2. Numbered'
  BY DEF IInv, Numbered
<1>3. OwnConnections'
  BY DEF IInv, OwnConnections
<1>4. QED
  BY <1>1, <1>2, <1>3 DEF IInv

LEMMA NextIInv ==
  ASSUME IInv, [Next]_vars
  PROVE  IInv'
<1>1. CASE \E c \in Clients : Arrive(c)
  <2>1. PICK c \in Clients : Arrive(c)
    BY <1>1
  <2>2. backlog' \in Seq(Clients)
    BY <2>1 DEF Arrive, IInv, TypeOK
  <2>3. stage' \in [Clients -> Stages]
    BY <2>1 DEF Arrive, Move, Stages, IInv, TypeOK
  <2>4. TypeOK'
    BY <2>1, <2>2, <2>3 DEF Arrive, IInv, TypeOK
  <2>5. QED
    BY <2>1, <2>4, OthersKeep DEF Arrive
<1>2. CASE \E c \in Clients, how \in {"fin", "cut", "reset"} : Leave(c, how)
  <2>1. PICK c \in Clients, how \in {"fin", "cut", "reset"} : Leave(c, how)
    BY <1>2
  <2>2. peer' \in [Clients -> {"open", "fin", "cut", "reset"}]
    BY <2>1 DEF Leave, IInv, TypeOK
  <2>3. TypeOK'
    BY <2>1, <2>2 DEF Leave, acceptVars, IInv, TypeOK
  <2>4. QED
    BY <2>1, <2>3, OthersKeep DEF Leave, acceptVars
<1>3. CASE AcceptAttempt
  BY <1>3, AttemptKeeps
<1>4. CASE HandleAccepts
  BY <1>4, HandleAcceptKeeps, HandleAcceptErrorKeeps DEF HandleAccepts
<1>5. CASE \E c \in Clients : SessionStep(c)
  <2>1. PICK c \in Clients : SessionStep(c)
    BY <1>5
  <2>2. TypeOK' /\ UNCHANGED acceptVars /\ (proc' = proc \/ proc' = "terminated")
    BY <2>1, SessionsTyped DEF IInv
  <2>3. QED
    BY <2>2, OthersKeep DEF acceptVars
<1>6. CASE HandlerThrows
  <2>1. TypeOK'
    BY <1>6 DEF HandlerThrows, Ends, acceptVars, IInv, TypeOK
  <2>2. QED
    BY <1>6, <2>1, OthersKeep DEF HandlerThrows, Ends, acceptVars
<1>7. CASE UNCHANGED vars
  <2>1. TypeOK'
    BY <1>7 DEF vars, IInv, TypeOK
  <2>2. QED
    BY <1>7, <2>1, OthersKeep DEF vars
<1>8. QED
  BY <1>1, <1>2, <1>3, <1>4, <1>5, <1>6, <1>7 DEF Next, SessionStep

(***************************************************************************)
(* The inductive invariant holds in every reachable state.                 *)
(***************************************************************************)
THEOREM Invariance == Spec => []IInv
<1>1. Init => IInv
  BY InitIInv
<1>2. IInv /\ [Next]_vars => IInv'
  BY NextIInv
<1>3. QED
  BY <1>1, <1>2, PTL DEF Spec

(***************************************************************************)
(* Every variable stays in its type.                                       *)
(***************************************************************************)
THEOREM TypeCorrect == Spec => []TypeOK
<1>1. IInv => TypeOK
  BY DEF IInv
<1>2. QED
  BY <1>1, Invariance, PTL

(***************************************************************************)
(* While the server runs, two accepts are always outstanding or about to   *)
(* be handled: handle_accept restarts exactly the one it handles.          *)
(***************************************************************************)
THEOREM AlwaysTwoAccepts == Spec => []TwoAccepts
<1>1. IInv => TwoAccepts
  BY DEF IInv
<1>2. QED
  BY <1>1, Invariance, PTL

(***************************************************************************)
(* A tls_connection belongs to one client or to one accept.                *)
(***************************************************************************)
THEOREM ConnectionsNeverShared == Spec => []OwnConnections
<1>1. IInv => OwnConnections
  BY DEF IInv
<1>2. QED
  BY <1>1, Invariance, PTL
=============================================================================
