---------------------------- MODULE ClientRoutes ----------------------------
(***************************************************************************)
(* What tunnel_exit does to a client that asks for targets: the contract   *)
(* between the two halves of the tunnel.  TunnelEntry, which models the    *)
(* client's connection, takes the results and the closing of targets from  *)
(* its environment; TunnelExit, which models the targets, takes the        *)
(* requests from it.  Both implement this module: what each lets its       *)
(* environment do stays within the one account of a client's routes.       *)
(*                                                                         *)
(* A route is in connection_list from the request on.  It is pending until *)
(* its client has been given the result, and live from then on; a route    *)
(* whose attempt came to nothing is dead, and nothing erases it.           *)
(***************************************************************************)
EXTENDS Naturals

VARIABLES
  pending, live, dead,   \* the client's routes, counted by stage
  named,                 \* the client's socket has a remote endpoint
  proc                   \* "running", or "terminated"

vars == <<pending, live, dead, named, proc>>

Init ==
  /\ pending = 0 /\ live = 0 /\ dead = 0
  /\ named = TRUE /\ proc = "running"

(***************************************************************************)
(* "connect": the attempt is started, or ends at once because the token    *)
(* that was drawn is in use.                                               *)
(***************************************************************************)
Ask ==
  /\ named
  /\ \/ pending' = pending + 1 /\ UNCHANGED dead
     \/ dead' = dead + 1 /\ UNCHANGED pending
  /\ UNCHANGED <<live, named, proc>>

(***************************************************************************)
(* The result is given to the client, which can still be named.            *)
(***************************************************************************)
Tell ==
  /\ named /\ pending > 0
  /\ pending' = pending - 1 /\ live' = live + 1
  /\ UNCHANGED <<dead, named, proc>>

(***************************************************************************)
(* The attempt fails: the client is not told, and the route stays.         *)
(***************************************************************************)
Refuse ==
  /\ pending > 0
  /\ pending' = pending - 1 /\ dead' = dead + 1
  /\ UNCHANGED <<live, named, proc>>

(***************************************************************************)
(* A target that has answered closes: its route is erased, and no other.   *)
(***************************************************************************)
Close ==
  /\ live > 0
  /\ live' = live - 1
  /\ UNCHANGED <<pending, dead, named, proc>>

Leave ==
  /\ named /\ named' = FALSE
  /\ UNCHANGED <<pending, live, dead, proc>>

(***************************************************************************)
(* An exception in some handler, which may just have closed the client's   *)
(* socket; no table is touched.                                            *)
(***************************************************************************)
Terminate ==
  /\ proc' = "terminated"
  /\ named' \in {named, FALSE}
  /\ UNCHANGED <<pending, live, dead>>

Next ==
  /\ proc = "running"
  /\ Ask \/ Tell \/ Refuse \/ Close \/ Leave \/ Terminate

Spec == Init /\ [][Next]_vars
=============================================================================
