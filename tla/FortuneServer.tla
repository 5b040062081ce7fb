---------------------------- MODULE FortuneServer ---------------------------
(***************************************************************************)
(* labs/lab02/fortune-server.c and its clients fortune-client.c and        *)
(* stats-client.c.  The server takes one connection at a time, reads one   *)
(* request, answers in two writes, the length and the text, and closes.    *)
(* Users run the clients again and again; a client may be killed half way. *)
(***************************************************************************)
EXTENDS FortuneTable, Sequences

CONSTANTS
  Client,
  Silent,        \* clients that may stop before they send their request
  MaxGiven,      \* bound: no client asks for a cookie when this many were given
  MaxKills       \* bound on the clients killed

ASSUME ServerAssumption == MaxGiven \in Nat /\ MaxKills \in Nat /\ Silent \subseteq Client

Request == {"cook", "stat"}

VARIABLES
  cst,       \* cst[c]: "idle", "connected", "sent", "gotLen" or "gone"
  asks,      \* asks[c]: the request that reached the server, or "none"
  queue,     \* connections that wait for accept()
  spc,       \* "accept", "read", "len", "text" or "dead"
  conn,      \* whose connection sd2 is
  reset,     \* was the length written to a client that is gone?
  answer,    \* what process_request() sends
  table,     \* the globals of the server
  given,     \* history: how often each cookie was really given out
  kills

clientVars == <<cst, asks, kills>>
tableVars  == <<table, given>>
vars == <<cst, asks, kills, queue, spc, conn, reset, answer, table, given>>

Init ==
  /\ cst = [c \in Client |-> "idle"] /\ asks = [c \in Client |-> "none"]
  /\ queue = <<>> /\ kills = 0
  /\ spc = "accept" /\ conn \in Client /\ reset = FALSE /\ answer = NoCookie
  /\ table = EmptyTable /\ given = [k \in Cookie |-> 0]

Sum(f, S) == MapThenSumSet(LAMBDA k : f[k], S)

-----------------------------------------------------------------------------
(* The clients. *)

Connect(c) ==
  /\ cst[c] = "idle" /\ spc # "dead"
  /\ cst' = [cst EXCEPT ![c] = "connected"]
  /\ queue' = Append(queue, c)
  /\ UNCHANGED <<asks, kills, spc, conn, reset, answer, tableVars>>

SendRequest(c, r) ==
  /\ cst[c] = "connected" /\ spc # "dead"
  /\ r = "cook" => Sum(given, Cookie) < MaxGiven
  /\ cst' = [cst EXCEPT ![c] = "sent"]
  /\ asks' = [asks EXCEPT ![c] = r]
  /\ UNCHANGED <<kills, queue, spc, conn, reset, answer, tableVars>>

(* The kernel closes the connections of a dead server; a client's readn()  *)
(* returns short and it prints "Nothing from server".                      *)
GiveUp(c) ==
  /\ cst[c] # "idle" /\ spc = "dead"
  /\ cst' = [cst EXCEPT ![c] = "idle"]
  /\ UNCHANGED <<asks, kills, queue, spc, conn, reset, answer, tableVars>>

Kill(c) ==
  /\ cst[c] \in {"connected", "sent", "gotLen"} /\ kills < MaxKills
  /\ cst' = [cst EXCEPT ![c] = "gone"]
  /\ kills' = kills + 1
  /\ UNCHANGED <<asks, queue, spc, conn, reset, answer, tableVars>>

-----------------------------------------------------------------------------
(* The server: main() and process_request(). *)

Accept ==
  /\ spc = "accept" /\ queue # <<>>
  /\ conn' = Head(queue) /\ queue' = Tail(queue)
  /\ spc' = "read"
  /\ UNCHANGED <<clientVars, reset, answer, tableVars>>

Requested(r) ==
  /\ spc = "read"
  /\ IF asks[conn] = "none"
     THEN cst[conn] = "gone"     \* end of the stream: buf is not initialised
     ELSE asks[conn] = r

(* Slip: the cookie is not counted. *)
CookUncounted ==
  /\ Requested("cook")
  /\ \E k \in Cookie :
       /\ answer' = [cookie |-> k, freq |-> 0]
       /\ given' = [given EXCEPT ![k] = @ + 1]
  /\ spc' = "len"
  /\ UNCHANGED <<clientVars, queue, conn, reset, table>>

Cook ==
  /\ Requested("cook")
  /\ \E k \in Cookie :
       /\ answer' = [cookie |-> k, freq |-> 0]
       /\ table' = CountCookie(table, k)
       /\ given' = [given EXCEPT ![k] = @ + 1]
  /\ spc' = "len"
  /\ UNCHANGED <<clientVars, queue, conn, reset>>

Stats ==
  /\ Requested("stat")
  /\ answer' = Stat(table)
  /\ spc' = "len"
  /\ UNCHANGED <<clientVars, queue, conn, reset, tableVars>>

Hangup ==               \* close(): whoever was served can be run again
  /\ cst' = [cst EXCEPT ![conn] = "idle"]
  /\ asks' = [asks EXCEPT ![conn] = "none"]
  /\ spc' = "accept"
  /\ reset' = FALSE /\ answer' = NoCookie

NeitherRequest ==
  /\ Requested("other") /\ Hangup
  /\ UNCHANGED <<kills, queue, conn, tableVars>>

(* The first write to a client that is gone succeeds, and is answered by a *)
(* reset of the connection.                                                *)
WriteLen ==
  /\ spc = "len"
  /\ cst' = [cst EXCEPT ![conn] = IF @ = "sent" THEN "gotLen" ELSE @]
  /\ reset' = (cst[conn] = "gone")
  /\ spc' = "text"
  /\ UNCHANGED <<asks, kills, queue, conn, answer, tableVars>>

(* Slip: the connection is not closed and the next request read from it. *)
WriteTextStays ==
  /\ spc = "text"
  /\ cst' = [cst EXCEPT ![conn] = "idle"]
  /\ asks' = [asks EXCEPT ![conn] = "none"]
  /\ spc' = "read"
  /\ UNCHANGED <<kills, queue, conn, reset, answer, tableVars>>

WriteText ==
  /\ spc = "text" /\ Hangup
  /\ UNCHANGED <<kills, queue, conn, tableVars>>

(* The reset came before the second write: SIGPIPE, which nobody handles.  *)
BrokenPipe ==
  /\ spc = "text" /\ reset
  /\ spc' = "dead"
  /\ UNCHANGED <<clientVars, queue, conn, reset, answer, tableVars>>

-----------------------------------------------------------------------------
Serve == Accept \/ Cook \/ Stats \/ NeitherRequest \/ WriteLen \/ WriteText \/ BrokenPipe

Next ==
  \/ \E c \in Client : Connect(c) \/ GiveUp(c) \/ Kill(c)
  \/ \E c \in Client, r \in Request : SendRequest(c, r)
  \/ Serve

Spec == Init /\ [][Next]_vars

(* The server runs, and the clients that were started, but for those in    *)
(* Silent, run too; the user is free to start none and to kill.            *)
Fairness ==
  /\ WF_vars(Serve)
  /\ \A c \in Client : WF_vars(GiveUp(c))
  /\ \A c \in Client \ Silent : WF_vars(\E r \in Request : SendRequest(c, r))

FairSpec == Spec /\ Fairness

-----------------------------------------------------------------------------
(* Properties. *)

(* The variables keep their types: no index outside the arrays or the      *)
(* cookies is ever used.                                                   *)
TypeOK ==
  /\ cst \in [Client -> {"idle", "connected", "sent", "gotLen", "gone"}]
  /\ asks \in [Client -> Request \cup {"none"}]
  /\ queue \in Seq(Client)
  /\ spc \in {"accept", "read", "len", "text", "dead"}
  /\ conn \in Client /\ reset \in BOOLEAN
  /\ answer \in [cookie : Cookie \cup {-1}, freq : Nat]
  /\ table \in [index : [Slot -> Cookie], freq : [Slot -> Nat], count : Nat]
  /\ given \in [Cookie -> Nat]
  /\ kills \in 0 .. MaxKills

(* The entries in use hold different cookies, and searchArray() reads no   *)
(* entry behind the arrays although it looks at one too many: there is     *)
(* always an entry that is not in use, because cookie 0 never gets one.    *)
Used == 0 .. table.count - 1
EntriesDiffer ==
  /\ \A j, k \in Used : table.index[j] = table.index[k] => j = k
  /\ \A k \in Used : table.index[k] # 0
  /\ table.count \in Slot

(* No cookie given out is lost from the counts, though it may be counted   *)
(* for another one.                                                        *)
EveryCookieCounted == Sum(table.freq, 0 .. table.count) = Sum(given, Cookie)

(* As long as cookie 0 was not given out, the statistics a client is sent  *)
(* are right: a cookie none was given out more often than, how often that  *)
(* was, and "no cookie" only if none was.                                  *)
Truth(a) ==
  IF a.cookie = -1 THEN \A k \in Cookie : given[k] = 0
  ELSE /\ a.freq = given[a.cookie]
       /\ \A k \in Cookie : given[k] <= a.freq
SendsStats == spc \in {"len", "text"} /\ (answer.freq > 0 \/ answer.cookie = -1)
StatsTrue == SendsStats /\ given[0] = 0 => Truth(answer)

(* A reply that names a cookie says "The cookie with the highest frequency *)
(* is" and "The freuency is": the cookie was given out that often, and no  *)
(* other more often.                                                       *)
NamedStatsTrue == SendsStats /\ answer.cookie # -1 => Truth(answer)

(* No client waits for ever: it is served, or killed, or the server dies,  *)
(* unless the one connection the server reads from is that of a client     *)
(* that has stopped.                                                       *)
Served ==
  \A c \in Client :
    cst[c] = "connected" ~>
      \/ cst[c] \in {"idle", "gone"}
      \/ [](spc = "read" /\ conn \in Silent /\ asks[conn] = "none")
=============================================================================
