----------------------------- MODULE TunnelExit -----------------------------
(***************************************************************************)
(* tunnel_exit and its event_table (tunnel/tunnel_endpoints.cpp 221-519):  *)
(* the connections to targets, the two tables that route between a client  *)
(* and its targets, and the relaying of what the targets send.             *)
(*                                                                         *)
(* The clients are what the router makes of them: a client asks for a      *)
(* connection, is told a token, and sends data under it.  Their own        *)
(* connections are the subject of TunnelEntry.  As there, every handler is *)
(* one action, and a handler that logs the address of a socket without a   *)
(* peer ends the process.                                                  *)
(***************************************************************************)
EXTENDS Naturals, Sequences, FiniteSets, Functions, TlsConnection

CONSTANTS
  Clients,
  Conns,        \* the target connections the server creates
  Tokens,       \* what generate_connection_token may draw
  MaxItems,     \* bound: segments a target sends
  MaxPending    \* bound: reads and writes outstanding on a target

VARIABLES
  token_list,        \* token -> connection, a partial function
  connection_list,   \* connection -> route, a partial function
  link,              \* how far each connection has come
  conn,              \* its tls_connection
  remote,            \* the target's side: "open", "fin" or "reset"
  items,             \* segments the target has sent
  taken,             \* segments that reads have taken
  relayed,           \* what of them was written to a client, in order
  answers,           \* for each connection, the runs of its result callback
  client,            \* the clients' sockets: "open", "fin" or "reset"
  proc               \* "running" or "terminated"

vars == <<token_list, connection_list, link, conn, remote, items, taken,
          relayed, answers, client, proc>>

tables == <<token_list, connection_list>>
traffic == <<items, taken, relayed>>

Route == [token : Tokens, source : Clients]

(***************************************************************************)
(* A segment written to a client; 0 stands for stray bytes.                *)
(***************************************************************************)
Delivery == [segment : Nat, to : Clients]

Running == proc = "running"

Terminated == proc' = "terminated"

(***************************************************************************)
(* The target's socket has a remote endpoint.                              *)
(***************************************************************************)
Named(c) == remote[c] # "reset"

Listed(t) == t \in DOMAIN token_list
Routed(c) == c \in DOMAIN connection_list

(* Mutant of Emplace: an entry that is there is replaced. *)
EmplaceOver(map, key, value) ==
  [x \in DOMAIN map \cup {key} |-> IF x = key THEN value ELSE map[x]]

(***************************************************************************)
(* unordered_map::emplace: an entry that is there already stays.           *)
(***************************************************************************)
Emplace(map, key, value) ==
  IF key \in DOMAIN map THEN map
  ELSE [x \in DOMAIN map \cup {key} |-> IF x = key THEN value ELSE map[x]]

Erase(map, key) == Restrict(map, DOMAIN map \ {key})

Init ==
  /\ token_list = [t \in {} |-> 0]
  /\ connection_list = [c \in {} |-> 0]
  /\ link = [c \in Conns |-> "unused"]
  /\ conn = [c \in Conns |-> NewConnection]
  /\ remote = [c \in Conns |-> "open"]
  /\ items = [c \in Conns |-> 0]
  /\ taken = [c \in Conns |-> 0]
  /\ relayed = [c \in Conns |-> <<>>]
  /\ answers = [c \in Conns |-> <<>>]
  /\ client = [k \in Clients |-> "open"]
  /\ proc = "running"

-----------------------------------------------------------------------------
(* Mutant of AsyncConnect: the result of the emplace is not looked at. *)
AsyncConnectAnyway(k, c, t) ==
  /\ Running /\ client[k] # "reset" /\ link[c] = "unused"
  /\ token_list' = Emplace(token_list, t, c)
  /\ connection_list' = Emplace(connection_list, c, [token |-> t, source |-> k])
  /\ link' = [link EXCEPT ![c] = "connecting"]
  /\ UNCHANGED <<conn, remote, traffic, answers, client, proc>>

(***************************************************************************)
(* async_connect_unsecure, lines 428-466.  c is the tls_connection it      *)
(* creates and t the token it draws.  Both tables are filled before the    *)
(* result of the first emplace is looked at; when t was listed already the *)
(* function returns without connecting.                                    *)
(***************************************************************************)
AsyncConnect(k, c, t) ==
  /\ Running /\ client[k] # "reset" /\ link[c] = "unused"
  /\ token_list' = Emplace(token_list, t, c)
  /\ connection_list' = Emplace(connection_list, c, [token |-> t, source |-> k])
  /\ link' = [link EXCEPT ![c] = IF Listed(t) THEN "abandoned" ELSE "connecting"]
  /\ UNCHANGED <<conn, remote, traffic, answers, client, proc>>

(***************************************************************************)
(* resolver.resolve throws on a name it cannot resolve, line 444, so that  *)
(* the branch for an empty result, lines 446-451, is never taken.          *)
(***************************************************************************)
ResolveThrows ==
  /\ Running /\ \E k \in Clients : client[k] # "reset"
  /\ \E c \in Conns : link[c] = "unused"
  /\ Terminated
  /\ UNCHANGED <<tables, link, conn, remote, traffic, answers, client>>

(***************************************************************************)
(* handle_connect_unsecure without an error, then event_table::connect,    *)
(* lines 252-284: the token is looked for by its connection, and the       *)
(* callback of the route is called.  It logs the client's address first.   *)
(***************************************************************************)
(* Mutant of TokensOf: the entry is not compared with the connection. *)
TokensOfAny(c) == DOMAIN token_list

TokensOf(c) == {t \in DOMAIN token_list : token_list[t] = c}

ConnectSucceeded(c) ==
  /\ Running /\ link[c] = "connecting"
  /\ link' = [link EXCEPT ![c] = "up"]
  /\ \/ /\ TokensOf(c) = {}
        /\ conn' = [conn EXCEPT ![c] = Disconnect(@)]
        /\ UNCHANGED <<answers, proc>>
     \/ /\ Routed(c) /\ client[connection_list[c].source] # "reset"
        /\ \E t \in TokensOf(c) :
             answers' = [answers EXCEPT ![c] = Append(@,
               [token |-> t, source |-> connection_list[c].source])]
        /\ UNCHANGED <<conn, proc>>
     \/ /\ TokensOf(c) # {}
        /\ Routed(c) => client[connection_list[c].source] = "reset"
        /\ Terminated
        /\ UNCHANGED <<answers, conn>>
  /\ UNCHANGED <<tables, remote, traffic, client>>

(***************************************************************************)
(* handle_connect_unsecure with an error calls connect(nullptr), which no  *)
(* entry of token_list matches: it is logged and ignored.                  *)
(***************************************************************************)
ConnectFailed(c) ==
  /\ Running /\ link[c] = "connecting"
  /\ link' = [link EXCEPT ![c] = "failed"]
  /\ UNCHANGED <<tables, conn, remote, traffic, answers, client, proc>>

(***************************************************************************)
(* A client uses a token it was told: find_route and the write to the      *)
(* target (router.cpp 323-346).  find_route uses the route of the token's  *)
(* connection without looking whether there is one.                        *)
(***************************************************************************)
Told(k, t) ==
  \E c \in Conns : \E i \in DOMAIN answers[c] :
    answers[c][i] = [token |-> t, source |-> k]

Data(k, t) ==
  /\ Running /\ client[k] # "reset" /\ Told(k, t) /\ Listed(t)
  /\ LET c == token_list[t]
     IN  \/ /\ Routed(c) /\ conn[c].reads + conn[c].writes < MaxPending
            /\ conn' = [conn EXCEPT ![c] = AsyncWrite(@)]
            /\ UNCHANGED proc
         \/ ~Routed(c) /\ Terminated /\ UNCHANGED conn
  /\ UNCHANGED <<tables, link, remote, traffic, answers, client>>

(***************************************************************************)
(* write_done, lines 360-386: a write to the target has completed, so read *)
(* from it.  (A write made while the connection is still being attempted,  *)
(* under a token drawn again, waits behind the attempt.)                   *)
(***************************************************************************)
WriteDone(c) ==
  /\ Running /\ conn[c].writes > 0 /\ link[c] = "up"
  /\ conn' = [conn EXCEPT ![c] = AsyncReadSome(WriteCompleted(@))]
  /\ UNCHANGED <<tables, link, remote, traffic, answers, client, proc>>

(***************************************************************************)
(* A write fails because the target has reset the connection or was never  *)
(* reached: the log line of the error branch throws.                       *)
(***************************************************************************)
WriteFailed(c) ==
  /\ Running /\ conn[c].writes > 0
  /\ ~Named(c) \/ link[c] = "failed"
  /\ Terminated
  /\ UNCHANGED <<tables, link, conn, remote, traffic, answers, client>>

-----------------------------------------------------------------------------
(***************************************************************************)
(* read, lines 323-357: what was read goes to the route's source, and the  *)
(* next read is started; when the route is gone, neither.  A read whose    *)
(* buffer another read has moved relays what was read or stray bytes, or   *)
(* takes the process down.                                                 *)
(***************************************************************************)
Waiting(c) == Running /\ conn[c].reads > 0

(* Mutant of ReadSome: no further read is started. *)
ReadSomeOnce(c) ==
  /\ Waiting(c) /\ taken[c] < items[c] /\ Named(c) /\ Routed(c)
  /\ taken' = [taken EXCEPT ![c] = @ + 1]
  /\ relayed' = [relayed EXCEPT ![c] = Append(@,
       [segment |-> taken[c] + 1, to |-> connection_list[c].source])]
  /\ conn' = [conn EXCEPT ![c] = ReadCompleted(@)]
  /\ UNCHANGED <<tables, link, remote, items, answers, client, proc>>

(* Mutant of ReadSome: the buffer is not consumed, its front is sent again. *)
ReadSomeUnconsumed(c) ==
  /\ Waiting(c) /\ taken[c] < items[c] /\ Named(c) /\ Routed(c)
  /\ taken' = [taken EXCEPT ![c] = @ + 1]
  /\ relayed' = [relayed EXCEPT ![c] = Append(@,
       [segment |-> 1, to |-> connection_list[c].source])]
  /\ conn' = [conn EXCEPT ![c] = AsyncReadSome(ReadCompleted(@))]
  /\ UNCHANGED <<tables, link, remote, items, answers, client, proc>>

(* Mutant of ReadSome: the source of some other route is written to. *)
ReadSomeToAny(c) ==
  /\ Waiting(c) /\ taken[c] < items[c] /\ Named(c) /\ Routed(c)
  /\ taken' = [taken EXCEPT ![c] = @ + 1]
  /\ \E d \in DOMAIN connection_list :
       relayed' = [relayed EXCEPT ![c] = Append(@,
         [segment |-> taken[c] + 1, to |-> connection_list[d].source])]
  /\ conn' = [conn EXCEPT ![c] = AsyncReadSome(ReadCompleted(@))]
  /\ UNCHANGED <<tables, link, remote, items, answers, client, proc>>

SegmentsRead(c) == {taken[c] + 1} \cup (IF conn[c].torn THEN {0} ELSE {})

ReadSome(c) ==
  /\ Waiting(c) /\ taken[c] < items[c]
  /\ taken' = [taken EXCEPT ![c] = @ + 1]
  /\ \/ /\ Named(c) /\ Routed(c)
        /\ \E s \in SegmentsRead(c) :
             relayed' = [relayed EXCEPT ![c] = Append(@,
               [segment |-> s, to |-> connection_list[c].source])]
        /\ conn' = [conn EXCEPT ![c] = AsyncReadSome(ReadCompleted(@))]
        /\ UNCHANGED proc
     \/ /\ ~Routed(c)
        /\ conn' = [conn EXCEPT ![c] = ReadCompleted(@)]
        /\ UNCHANGED <<relayed, proc>>
     \/ /\ (~Named(c) /\ Routed(c)) \/ conn[c].torn
        /\ Terminated
        /\ UNCHANGED <<relayed, conn>>
  /\ UNCHANGED <<tables, link, remote, items, answers, client>>

(* Mutant of ReadFailed: the token stays in token_list. *)
ReadFailedKeepsToken(c) ==
  /\ Waiting(c) /\ remote[c] = "fin" /\ taken[c] = items[c] /\ Routed(c)
  /\ connection_list' = Erase(connection_list, c)
  /\ conn' = [conn EXCEPT ![c] = ReadCompleted(@)]
  /\ UNCHANGED <<token_list, link, remote, traffic, answers, client, proc>>

(* Mutant of ReadFailed: all routes of the client are erased. *)
ReadFailedDropsClient(c) ==
  /\ Waiting(c) /\ remote[c] = "fin" /\ taken[c] = items[c] /\ Routed(c)
  /\ LET gone == {d \in DOMAIN connection_list :
                     connection_list[d].source = connection_list[c].source}
     IN  /\ connection_list' = Restrict(connection_list, DOMAIN connection_list \ gone)
         /\ token_list' = Restrict(token_list,
                {t \in DOMAIN token_list : token_list[t] \notin gone})
  /\ conn' = [conn EXCEPT ![c] = ReadCompleted(@)]
  /\ UNCHANGED <<link, remote, traffic, answers, client, proc>>

(* Mutant of ReadFailed: the handler returns after logging. *)
ReadFailedKeepsRoute(c) ==
  /\ Waiting(c) /\ remote[c] = "fin" /\ taken[c] = items[c]
  /\ conn' = [conn EXCEPT ![c] = ReadCompleted(@)]
  /\ UNCHANGED <<tables, link, remote, traffic, answers, client, proc>>

(***************************************************************************)
(* read, lines 298-321: the target has closed.  The route is erased from   *)
(* both tables, unless an earlier read has done it.                        *)
(***************************************************************************)
ReadFailed(c) ==
  /\ Waiting(c)
  /\ \/ /\ remote[c] = "fin" /\ taken[c] = items[c]
        /\ IF Routed(c)
           THEN /\ token_list' = Erase(token_list, connection_list[c].token)
                /\ connection_list' = Erase(connection_list, c)
           ELSE UNCHANGED tables
        /\ conn' = [conn EXCEPT ![c] = ReadCompleted(@)]
        /\ UNCHANGED proc
     \/ /\ ~Named(c)
        /\ Terminated
        /\ UNCHANGED <<tables, conn>>
  /\ UNCHANGED <<link, remote, traffic, answers, client>>

-----------------------------------------------------------------------------
(* The targets and the clients.                                            *)

TargetSends(c) ==
  /\ Running /\ link[c] = "up" /\ remote[c] = "open" /\ items[c] < MaxItems
  /\ items' = [items EXCEPT ![c] = @ + 1]
  /\ UNCHANGED <<tables, link, conn, remote, taken, relayed, answers, client,
                 proc>>

TargetCloses(c, how) ==
  /\ Running /\ link[c] = "up" /\ remote[c] \notin {how, "reset"}
  /\ remote' = [remote EXCEPT ![c] = how]
  /\ UNCHANGED <<tables, link, conn, traffic, answers, client, proc>>

ClientLeaves(k, how) ==
  /\ Running /\ client[k] \notin {how, "reset"}
  /\ client' = [client EXCEPT ![k] = how]
  /\ UNCHANGED <<tables, link, conn, remote, traffic, answers, proc>>

-----------------------------------------------------------------------------
Next ==
  \/ \E k \in Clients, c \in Conns, t \in Tokens : AsyncConnect(k, c, t)
  \/ ResolveThrows
  \/ \E k \in Clients, t \in Tokens : Data(k, t)
  \/ \E c \in Conns :
       \/ ConnectSucceeded(c) \/ ConnectFailed(c)
       \/ WriteDone(c) \/ WriteFailed(c)
       \/ ReadSome(c) \/ ReadFailed(c)
       \/ TargetSends(c)
       \/ \E how \in {"fin", "reset"} : TargetCloses(c, how)
  \/ \E k \in Clients, how \in {"fin", "reset"} : ClientLeaves(k, how)

Spec == Init /\ [][Next]_vars

(***************************************************************************)
(* What the reactor owes a connection: the attempt to connect ends one way *)
(* or the other, and what the target does is reported to a read that       *)
(* waits.  Nothing is owed by clients and targets.                         *)
(***************************************************************************)
Fairness ==
  \A c \in Conns :
    /\ WF_vars(ConnectSucceeded(c) \/ ConnectFailed(c))
    /\ WF_vars(ReadSome(c) \/ ReadFailed(c))

FairSpec == Spec /\ Fairness

-----------------------------------------------------------------------------
TypeOK ==
  /\ DOMAIN token_list \subseteq Tokens
  /\ token_list \in [DOMAIN token_list -> Conns]
  /\ DOMAIN connection_list \subseteq Conns
  /\ connection_list \in [DOMAIN connection_list -> Route]
  /\ link \in [Conns -> {"unused", "abandoned", "connecting", "up", "failed"}]
  /\ conn \in [Conns -> Connection]
  /\ remote \in [Conns -> {"open", "fin", "reset"}]
  /\ items \in [Conns -> Nat]
  /\ taken \in [Conns -> Nat]
  /\ relayed \in [Conns -> Seq(Delivery)]
  /\ answers \in [Conns -> Seq(Route)]
  /\ client \in [Clients -> {"open", "fin", "reset"}]
  /\ proc \in {"running", "terminated"}

(***************************************************************************)
(* The two tables agree, although a token may be drawn while it is listed  *)
(* and a connection attempt may fail at any time: a listed token leads to  *)
(* a connection whose route names that token.  find_route and the read     *)
(* handler rely on it without a check ("TODO: stricter error checks",      *)
(* tunnel_endpoints.cpp 478).                                              *)
(***************************************************************************)
RoutesAgree ==
  \A t \in DOMAIN token_list :
    /\ Routed(token_list[t])
    /\ connection_list[token_list[t]].token = t

(***************************************************************************)
(* A connection that is being made is in both tables, so that when it      *)
(* succeeds its token and its callback are found (lines 252-284): the      *)
(* "not in the list, ignored" branch is taken for failures only.           *)
(***************************************************************************)
ConnectingIsListed ==
  \A c \in Conns : link[c] = "connecting" =>
    /\ Routed(c)
    /\ Listed(connection_list[c].token)
    /\ token_list[connection_list[c].token] = c

(***************************************************************************)
(* A client is answered at most once for a connection, and the token it is *)
(* told is the one its route holds for as long as the route exists.        *)
(***************************************************************************)
AnsweredOnceWithItsToken ==
  \A c \in Conns :
    /\ Len(answers[c]) <= 1
    /\ Len(answers[c]) = 1 /\ Routed(c) => answers[c][1] = connection_list[c]

(***************************************************************************)
(* While a route exists and its reads have not overlapped, its client, and *)
(* no other, has been sent all that was read from the target, in order and *)
(* once.                                                                   *)
(***************************************************************************)
Replies(c) ==
  [i \in 1 .. taken[c] |-> [segment |-> i, to |-> connection_list[c].source]]

RelayedInOrder ==
  \A c \in Conns :
    Running /\ Routed(c) /\ ~conn[c].torn => relayed[c] = Replies(c)

(***************************************************************************)
(* A listed token is never given to another connection: it stays with its  *)
(* own until the target closes, and so does data sent under it.            *)
(***************************************************************************)
TokenKeepsItsConnection ==
  [][\A t \in DOMAIN token_list :
       t \in DOMAIN token_list' => token_list'[t] = token_list[t]]_vars

(***************************************************************************)
(* The relay of a route does not stop: once a read from its target is      *)
(* outstanding, one is after every step until the route is erased.         *)
(***************************************************************************)
RelayGoesOn ==
  [][\A c \in Conns :
       conn[c].reads > 0 /\ c \in DOMAIN connection_list' /\ proc' = "running"
         => conn'[c].reads > 0]_vars

(***************************************************************************)
(* A target that closes while it is being read from is forgotten: its      *)
(* entries leave both tables.                                              *)
(***************************************************************************)
ClosedTargetIsForgotten ==
  \A c \in Conns :
    (remote[c] = "fin" /\ conn[c].reads > 0) ~>
      (~Running \/ ~Routed(c) \/ remote[c] = "reset")

-----------------------------------------------------------------------------
(***************************************************************************)
(* The directory that the two tables are together, and what the            *)
(* connections are to it.                                                  *)
(***************************************************************************)
DirectoryOf ==
  [t \in DOMAIN token_list |->
     [conn |-> token_list[t], client |-> connection_list[token_list[t]].source]]

Asked == {c \in Conns : link[c] # "unused"}
Ended == {c \in Conns : remote[c] # "open"}
WritesTo == [c \in Conns |-> conn[c].writes]
Recipients(deliveries) == [i \in DOMAIN deliveries |-> deliveries[i].to]
RelaysOf == [c \in Conns |-> Recipients(relayed[c])]

Directory ==
  INSTANCE TokenDirectory WITH
    directory <- DirectoryOf, used <- Asked, writes <- WritesTo,
    sent <- items, relays <- RelaysOf, closed <- Ended

(***************************************************************************)
(* tunnel_exit implements TokenDirectory: whatever is drawn, refused or    *)
(* closed in between, its two tables act as one directory.  In particular  *)
(* a token in use is not given again, data goes to the token's target,     *)
(* what a target sends is written to the token's client and to no other,   *)
(* and its token is not erased before everything it sent has been written. *)
(* Which bytes are written is the matter of RelayedInOrder: the stray ones *)
(* of overlapping reads count here like the ones that the target sent.     *)
(***************************************************************************)
ImplementsDirectory == Directory!Spec

(***************************************************************************)
(* A client's routes, by stage.                                            *)
(***************************************************************************)
RoutesOf(k) == {c \in DOMAIN connection_list : connection_list[c].source = k}
Live(k) == {c \in RoutesOf(k) : answers[c] # <<>>}
Dead(k) == {c \in RoutesOf(k) : link[c] \in {"abandoned", "failed"}}
Pending(k) == RoutesOf(k) \ (Live(k) \cup Dead(k))

ClientRouting(k) ==
  INSTANCE ClientRoutes WITH
    pending <- Cardinality(Pending(k)), live <- Cardinality(Live(k)),
    dead <- Cardinality(Dead(k)), named <- client[k] # "reset"

(***************************************************************************)
(* What the targets do to each client is what TunnelEntry takes for        *)
(* granted: a result for each attempt at most once, and only while the     *)
(* client can be named; the closing of one route at a time, none that has  *)
(* not been answered, and none of another client.                          *)
(***************************************************************************)
KeepsClientRoutes ==
  /\ \A k \in Clients : ClientRouting(k)!Init
  /\ [][\A k \in Clients : [ClientRouting(k)!Next]_(ClientRouting(k)!vars)]_vars

-----------------------------------------------------------------------------
(* What the repository's comments say, and the code does not do.           *)

(***************************************************************************)
(* "result_cb: the function the result is given to"                        *)
(* (tunnel_endpoints.hpp 121): whoever asks for a connection is given the  *)
(* result, unless a client leaves or the process ends first.               *)
(***************************************************************************)
ResultIsGiven ==
  \A c \in Conns : link[c] # "unused" ~>
    (answers[c] # <<>> \/ ~Running \/ \E k \in Clients : client[k] # "open")

(***************************************************************************)
(* "Replies that come from the target are read in tunnel_exit and passed   *)
(* on to the client directly" (router.cpp 263): the client gets what was   *)
(* read from the target, unchanged.                                        *)
(***************************************************************************)
RepliesIntact ==
  \A c \in Conns : Running /\ Routed(c) => relayed[c] = Replies(c)
=============================================================================
