--------------------------- MODULE FortuneServerd ---------------------------
(***************************************************************************)
(* labs/lab02/fortune-serverd.c: the fortune server that forks.  A child   *)
(* serves one connection and exits; it has a copy of the globals, and so   *)
(* of the table, from the moment of the fork().  After MAX_REQ connections *)
(* the server takes one more and ends; it also ends when fork() fails,     *)
(* which it may do any time.  The clients are those of FortuneServer, each *)
(* run once.                                                               *)
(***************************************************************************)
EXTENDS FortuneTable, Sequences

CONSTANTS
  Client,
  MAX_REQ,       \* connections served: 10
  MaxKills       \* how many clients are killed

ASSUME ServerdAssumption == MAX_REQ \in Nat /\ MaxKills \in Nat

Request == {"cook", "stat"}

VARIABLES
  cst,       \* cst[c]: "new", "connected", "sent", "gotLen", "answered", "nothing" or "gone"
  asks,      \* asks[c]: the request that reached the server, or "none"
  queue,     \* connections that wait for accept()
  mpc,       \* the parent: "accept", "fork" or "exited"
  sd2,       \* the connection the parent has accepted
  request,   \* the parent's counter of connections
  table,     \* the parent's globals
  cpc,       \* cpc[c]: the child for c: "none", "read", "len", "text" or "exited"
  copy,      \* copy[c]: the child's globals
  answer     \* answer[c]: what the child sends

clientVars == <<cst, asks>>
parentVars == <<mpc, sd2, request, table>>
childVars  == <<cpc, copy, answer>>
vars == <<cst, asks, queue, mpc, sd2, request, table, cpc, copy, answer>>

Init ==
  /\ cst = [c \in Client |-> "new"] /\ asks = [c \in Client |-> "none"]
  /\ queue = <<>>
  /\ mpc = "accept" /\ sd2 \in Client /\ request = 0 /\ table = EmptyTable
  /\ cpc = [c \in Client |-> "none"]
  /\ copy = [c \in Client |-> EmptyTable]
  /\ answer = [c \in Client |-> NoCookie]

-----------------------------------------------------------------------------
(* The clients. *)

(* The children inherit the listening socket and do not close it: it takes *)
(* connections as long as the parent or a child lives.                     *)
Listening == mpc # "exited" \/ \E c \in Client : cpc[c] \in {"read", "len", "text"}

Connect(c) ==
  /\ cst[c] = "new" /\ Listening
  /\ cst' = [cst EXCEPT ![c] = "connected"]
  /\ queue' = Append(queue, c)
  /\ UNCHANGED <<asks, parentVars, childVars>>

SendRequest(c, r) ==
  /\ cst[c] = "connected"
  /\ cst' = [cst EXCEPT ![c] = "sent"]
  /\ asks' = [asks EXCEPT ![c] = r]
  /\ UNCHANGED <<queue, parentVars, childVars>>

(* Nobody holds c's connection any more: the kernel closes it, and c       *)
(* prints "Nothing from server".  That is the connection the parent turned *)
(* away, and, after the last child, those still in the queue.              *)
Abandoned(c) ==
  /\ mpc = "exited" /\ cpc[c] = "none"
  /\ c = sd2 \/ ~Listening

GetNothing(c) ==
  /\ cst[c] \in {"connected", "sent"} /\ Abandoned(c)
  /\ cst' = [cst EXCEPT ![c] = "nothing"]
  /\ UNCHANGED <<asks, queue, parentVars, childVars>>

(* A client that is killed leaves its connection in the queue or in a      *)
(* child.                                                                  *)
Kill(c) ==
  /\ cst[c] \in {"connected", "sent", "gotLen"}
  /\ Cardinality({d \in Client : cst[d] = "gone"}) < MaxKills
  /\ cst' = [cst EXCEPT ![c] = "gone"]
  /\ UNCHANGED <<asks, queue, parentVars, childVars>>

-----------------------------------------------------------------------------
(* The parent: main(). *)

Accept ==
  /\ mpc = "accept" /\ queue # <<>>
  /\ sd2' = Head(queue) /\ queue' = Tail(queue)
  /\ request' = request + 1
  /\ mpc' = "fork"
  /\ UNCHANGED <<clientVars, table, childVars>>

(* Slip: the limit is one too high. *)
ForkOneMore ==
  /\ mpc = "fork" /\ request <= MAX_REQ + 1
  /\ cpc' = [cpc EXCEPT ![sd2] = "read"]
  /\ copy' = [copy EXCEPT ![sd2] = table]
  /\ mpc' = "accept"
  /\ UNCHANGED <<clientVars, queue, sd2, request, table, answer>>

Fork ==
  /\ mpc = "fork" /\ request <= MAX_REQ
  /\ cpc' = [cpc EXCEPT ![sd2] = "read"]
  /\ copy' = [copy EXCEPT ![sd2] = table]
  /\ mpc' = "accept"
  /\ UNCHANGED <<clientVars, queue, sd2, request, table, answer>>

(* fork() returned -1: exit(1), with the connection in hand.               *)
ForkFails ==
  /\ mpc = "fork" /\ request <= MAX_REQ
  /\ mpc' = "exited"
  /\ UNCHANGED <<clientVars, queue, sd2, request, table, childVars>>

Return ==
  /\ mpc = "fork" /\ request > MAX_REQ
  /\ mpc' = "exited"
  /\ UNCHANGED <<clientVars, queue, sd2, request, table, childVars>>

-----------------------------------------------------------------------------
(* The child for c: process_request() in a process of its own. *)

(* What buf holds: the request, or, if the stream ended before one came,   *)
(* anything.                                                               *)
Requested(c, r) ==
  /\ cpc[c] = "read"
  /\ IF asks[c] = "none" THEN cst[c] = "gone" ELSE asks[c] = r

(* Slip: the child counts in the parent's table, as a thread would. *)
CookShared(c) ==
  /\ Requested(c, "cook")
  /\ \E k \in Cookie :
       /\ answer' = [answer EXCEPT ![c] = [cookie |-> k, freq |-> 0]]
       /\ table' = CountCookie(table, k)
  /\ cpc' = [cpc EXCEPT ![c] = "len"]
  /\ UNCHANGED <<clientVars, queue, mpc, sd2, request, copy>>

Cook(c) ==
  /\ Requested(c, "cook")
  /\ \E k \in Cookie :
       /\ answer' = [answer EXCEPT ![c] = [cookie |-> k, freq |-> 0]]
       /\ copy' = [copy EXCEPT ![c] = CountCookie(@, k)]
  /\ cpc' = [cpc EXCEPT ![c] = "len"]
  /\ UNCHANGED <<clientVars, queue, parentVars>>

Stats(c) ==
  /\ Requested(c, "stat")
  /\ answer' = [answer EXCEPT ![c] = Stat(copy[c])]
  /\ cpc' = [cpc EXCEPT ![c] = "len"]
  /\ UNCHANGED <<clientVars, queue, parentVars, copy>>

NeitherRequest(c) ==
  /\ Requested(c, "other")
  /\ cpc' = [cpc EXCEPT ![c] = "exited"]
  /\ UNCHANGED <<clientVars, queue, parentVars, copy, answer>>

WriteLen(c) ==
  /\ cpc[c] = "len"
  /\ cst' = [cst EXCEPT ![c] = IF @ = "gone" THEN @ ELSE "gotLen"]
  /\ cpc' = [cpc EXCEPT ![c] = "text"]
  /\ UNCHANGED <<asks, queue, parentVars, copy, answer>>

(* Slip: a child that forgets to exit and so keeps the socket. *)
WriteTextStays(c) ==
  /\ cpc[c] = "text"
  /\ cst' = [cst EXCEPT ![c] = "answered"]
  /\ UNCHANGED <<asks, queue, parentVars, childVars>>

(* If the client is gone the second write may be a SIGPIPE: the child is   *)
(* dead then, which is as good as its exit(1).                             *)
WriteText(c) ==
  /\ cpc[c] = "text"
  /\ cst' = [cst EXCEPT ![c] = IF @ = "gone" THEN @ ELSE "answered"]
  /\ cpc' = [cpc EXCEPT ![c] = "exited"]
  /\ UNCHANGED <<asks, queue, parentVars, copy, answer>>

Child(c) == Cook(c) \/ Stats(c) \/ NeitherRequest(c) \/ WriteLen(c) \/ WriteText(c)

-----------------------------------------------------------------------------
Next ==
  \/ \E c \in Client : Connect(c) \/ GetNothing(c) \/ Kill(c) \/ Child(c)
  \/ \E c \in Client, r \in Request : SendRequest(c, r)
  \/ Accept \/ Fork \/ ForkFails \/ Return

Spec == Init /\ [][Next]_vars

(* Every process that can run is scheduled in the end; only the users may  *)
(* not start a client.                                                     *)
Fairness ==
  /\ WF_vars(Accept \/ Fork \/ ForkFails \/ Return)
  /\ \A c \in Client :
       /\ WF_vars(Child(c))
       /\ WF_vars(GetNothing(c) \/ \E r \in Request : SendRequest(c, r))

FairSpec == Spec /\ Fairness

-----------------------------------------------------------------------------
(* Properties. *)

TypeOK ==
  /\ cst \in [Client -> {"new", "connected", "sent", "gotLen", "answered", "nothing", "gone"}]
  /\ asks \in [Client -> Request \cup {"none"}]
  /\ queue \in Seq(Client)
  /\ mpc \in {"accept", "fork", "exited"}
  /\ sd2 \in Client
  /\ request \in 0 .. MAX_REQ + 1
  /\ cpc \in [Client -> {"none", "read", "len", "text", "exited"}]

(* The statistics of the forking server never mention a cookie, however    *)
(* many it has given out: no child sees what another one counted.          *)
NoStatistics ==
  \A c \in Client : cpc[c] \in {"len", "text", "exited"} /\ asks[c] = "stat"
                      => answer[c] = NoCookie

(* There are at most MAX_REQ children, and a client is turned away only by *)
(* a server that has ended and has started a child for each connection it  *)
(* has ever accepted but the last; unless fork() failed, these are         *)
(* MAX_REQ.                                                                *)
Children == {c \in Client : cpc[c] # "none"}
TurnedAwayLate ==
  /\ TypeOK
  /\ Cardinality(Children) <= MAX_REQ
  /\ (\E c \in Client : cst[c] = "nothing") =>
       mpc = "exited" /\ Cardinality(Children) = request - 1

(* Whoever connects and is not killed hears from a child, even after the   *)
(* parent has ended, or learns that there is nothing; a connection that    *)
(* nobody will ever accept does not stay open.                             *)
Heard == \A c \in Client :
           cst[c] = "connected" ~> cst[c] \in {"answered", "nothing", "gone"}
=============================================================================
