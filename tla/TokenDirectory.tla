--------------------------- MODULE TokenDirectory ---------------------------
(***************************************************************************)
(* What tunnel_exit promises, with the two tables, the reads and the       *)
(* buffers left out: a directory in which each token in use stands for one *)
(* target and one client.  Results are given, data is sent and replies are *)
(* relayed through the directory and in no other way.                      *)
(***************************************************************************)
EXTENDS Naturals, Sequences

CONSTANTS Clients, Conns, Tokens

VARIABLES
  directory,  \* token -> its target connection and its client
  used,       \* the connections asked for so far
  answers,    \* for each connection, the results given
  writes,     \* writes to each target that have not completed
  sent,       \* segments each target has sent
  relays,     \* for each target, the clients its segments were written to
  closed,     \* targets that have closed
  proc        \* "running" or "terminated"

vars == <<directory, used, answers, writes, sent, relays, closed, proc>>

Running == proc = "running"

Init ==
  /\ directory = [t \in {} |-> 0]
  /\ used = {} /\ closed = {}
  /\ answers = [c \in Conns |-> <<>>]
  /\ writes = [c \in Conns |-> 0]
  /\ sent = [c \in Conns |-> 0]
  /\ relays = [c \in Conns |-> <<>>]
  /\ proc = "running"

InUse(t) == t \in DOMAIN directory

(***************************************************************************)
(* A client asks for a connection.  A token that is in use is not given a  *)
(* second time: such a request comes to nothing.                           *)
(***************************************************************************)
Enter(t, c, k) ==
  /\ Running /\ c \notin used /\ ~InUse(t)
  /\ used' = used \cup {c}
  /\ directory' = [x \in DOMAIN directory \cup {t} |->
                     IF x = t THEN [conn |-> c, client |-> k] ELSE directory[x]]
  /\ UNCHANGED <<answers, writes, sent, relays, closed, proc>>

Waste(c) ==
  /\ Running /\ c \notin used
  /\ used' = used \cup {c}
  /\ UNCHANGED <<directory, answers, writes, sent, relays, closed, proc>>

(***************************************************************************)
(* The client of a token is given its result, once, while the token is in  *)
(* use.                                                                    *)
(***************************************************************************)
Tell(t) ==
  /\ Running /\ InUse(t)
  /\ LET c == directory[t].conn
     IN  /\ answers[c] = <<>>
         /\ answers' = [answers EXCEPT ![c] =
              <<[token |-> t, source |-> directory[t].client]>>]
  /\ UNCHANGED <<directory, used, writes, sent, relays, closed, proc>>

(***************************************************************************)
(* Data under a token in use goes to its target, and to that one only.     *)
(***************************************************************************)
Send(t) ==
  /\ Running /\ InUse(t)
  /\ \E c \in Conns : \E i \in DOMAIN answers[c] : answers[c][i].token = t
  /\ writes' = [writes EXCEPT ![directory[t].conn] = @ + 1]
  /\ UNCHANGED <<directory, used, answers, sent, relays, closed, proc>>

Sent(c) ==
  /\ Running /\ writes[c] > 0
  /\ writes' = [writes EXCEPT ![c] = @ - 1]
  /\ UNCHANGED <<directory, used, answers, sent, relays, closed, proc>>

(***************************************************************************)
(* What a target has sent is relayed to the client of its token, while the *)
(* token is in use, and not before that client could know it.  A segment   *)
(* counts as relayed whatever became of its bytes.                         *)
(***************************************************************************)
Relay(t) ==
  /\ Running /\ InUse(t)
  /\ LET c == directory[t].conn
     IN  /\ Len(relays[c]) < sent[c] /\ answers[c] # <<>>
         /\ relays' = [relays EXCEPT ![c] = Append(@, directory[t].client)]
  /\ UNCHANGED <<directory, used, answers, writes, sent, closed, proc>>

(***************************************************************************)
(* A token leaves the directory when its target has closed and everything  *)
(* that the target sent has been relayed.                                  *)
(***************************************************************************)
Remove(t) ==
  /\ Running /\ InUse(t)
  /\ directory[t].conn \in closed
  /\ Len(relays[directory[t].conn]) = sent[directory[t].conn]
  /\ directory' = [x \in DOMAIN directory \ {t} |-> directory[x]]
  /\ UNCHANGED <<used, answers, writes, sent, relays, closed, proc>>

(***************************************************************************)
(* The targets, and the end of the process.                                *)
(***************************************************************************)
TargetSends(c) ==
  /\ Running /\ c \in used \ closed
  /\ sent' = [sent EXCEPT ![c] = @ + 1]
  /\ UNCHANGED <<directory, used, answers, writes, relays, closed, proc>>

TargetCloses(c) ==
  /\ Running /\ c \in used
  /\ closed' = closed \cup {c}
  /\ UNCHANGED <<directory, used, answers, writes, sent, relays, proc>>

Terminate ==
  /\ Running /\ proc' = "terminated"
  /\ UNCHANGED <<directory, used, answers, writes, sent, relays, closed>>

Next ==
  \/ \E t \in Tokens :
       \/ Tell(t) \/ Send(t) \/ Relay(t) \/ Remove(t)
       \/ \E c \in Conns, k \in Clients : Enter(t, c, k)
  \/ \E c \in Conns : Waste(c) \/ Sent(c) \/ TargetSends(c) \/ TargetCloses(c)
  \/ Terminate

Spec == Init /\ [][Next]_vars
=============================================================================
