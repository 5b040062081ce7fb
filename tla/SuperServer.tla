----------------------------- MODULE SuperServer ----------------------------
(***************************************************************************)
(* labs/lab05/superServer.c: one process waits in select() for a time      *)
(* request (UDP), an echo or a getwho connection (TCP), accepts what it    *)
(* can and forks a child for whatever was ready.  The child serves time,   *)
(* echo and getwho in that order.  The time datagram is not taken by the   *)
(* parent but by the child's recvfrom(), on the socket they all share.     *)
(* Children become zombies (nobody waits for them), so a limit on the      *)
(* number of processes is a limit on the children ever forked.  The parent *)
(* never closes what it has accepted, so a limit on its descriptors is one *)
(* on the connections ever accepted.                                       *)
(***************************************************************************)
EXTENDS Integers, Sequences, FiniteSets, Functions

CONSTANTS
  TimeClient, EchoClient, WhoClient,
  MaxProc,       \* how many times fork() can succeed
  Rooms,         \* how many connections the server may have descriptors for
  Mortal,        \* the clients whose users may kill them
  Silent,        \* echo clients whose users may never type their line
  MayType        \* may somebody type at the server's terminal?

ASSUME SuperServerAssumption ==
  /\ MaxProc \in Nat /\ Rooms \subseteq Nat /\ MayType \in BOOLEAN
  /\ Mortal \subseteq EchoClient \cup WhoClient /\ Silent \subseteq EchoClient
  /\ TimeClient \cap (EchoClient \cup WhoClient) = {}
  /\ EchoClient \cap WhoClient = {}
  /\ {"time", "nothing"} \cap (EchoClient \cup WhoClient) = {}
  /\ IsFiniteSet(TimeClient \cup EchoClient \cup WhoClient)

Service    == {"time", "echo", "who"}
Connecting == EchoClient \cup WhoClient
Client     == TimeClient \cup Connecting

VARIABLES
  cst,       \* cst[c]: "new", "connected", "sent", "answered" or "gone"
  timeQ,     \* timeSock: the clients whose datagrams nobody has read
  listenQ,   \* listenQ["echo"], listenQ["who"]: connections to accept
  typed,     \* is there input at descriptor 0?
  ppc,       \* the parent: "select" or "fork"
  readmask,  \* the descriptors to look at; when select() has returned, those ready
  child,     \* child[k]: what the k-th child has still to do, in order
  room,      \* how many more connections the parent can accept
  dropped    \* connections accepted in a round in which fork() failed

vars == <<cst, timeQ, listenQ, typed, ppc, readmask, child, room, dropped>>
clientVars == <<cst, typed>>
parentVars == <<ppc, readmask, room, dropped>>

Init ==
  /\ cst = [c \in Client |-> "new"] /\ typed = FALSE
  /\ timeQ = <<>> /\ listenQ = [s \in {"echo", "who"} |-> <<>>]
  /\ ppc = "select" /\ readmask = Service \cup {"stdin"}
  /\ child = <<>> /\ room \in Rooms /\ dropped = {}

-----------------------------------------------------------------------------
(* The clients and their users. *)

AskTime(c) ==
  /\ c \in TimeClient /\ cst[c] = "new"
  /\ cst' = [cst EXCEPT ![c] = "sent"]
  /\ timeQ' = Append(timeQ, c)
  /\ UNCHANGED <<listenQ, typed, child, parentVars>>

ServiceOf(c) == IF c \in EchoClient THEN "echo" ELSE "who"

Connect(c) ==
  /\ c \in Connecting /\ cst[c] = "new"
  /\ cst' = [cst EXCEPT ![c] = "connected"]
  /\ listenQ' = [listenQ EXCEPT ![ServiceOf(c)] = Append(@, c)]
  /\ UNCHANGED <<timeQ, typed, child, parentVars>>

(* getwhoClient sends at once, echoClient when its user has typed a line. *)
SendLine(c) ==
  /\ cst[c] = "connected"
  /\ cst' = [cst EXCEPT ![c] = "sent"]
  /\ UNCHANGED <<timeQ, listenQ, typed, child, parentVars>>

(* The connection of a client that is killed stays where it is.  (A time   *)
(* client that is killed has sent its datagram; it is as if it lived on.)  *)
Kill(c) ==
  /\ c \in Mortal /\ cst[c] \in {"connected", "sent"}
  /\ cst' = [cst EXCEPT ![c] = "gone"]
  /\ UNCHANGED <<timeQ, listenQ, typed, child, parentVars>>

(* Once STDIN is out of readmask nobody looks at what is typed.            *)
TypeAtServer ==
  /\ MayType /\ ~typed /\ "stdin" \in readmask
  /\ typed' = TRUE
  /\ UNCHANGED <<cst, timeQ, listenQ, child, parentVars>>

-----------------------------------------------------------------------------
(* The parent: main(). *)

Readable == {s \in {"echo", "who"} : listenQ[s] # <<>>}
              \cup (IF timeQ # <<>> THEN {"time"} ELSE {})
              \cup (IF typed THEN {"stdin"} ELSE {})

(* Slip: FD_SET(timeSock) before the loop only, as it is for STDIN. *)
SelectTimeOnce ==
  /\ ppc = "select"
  /\ readmask' = (IF child = <<>> THEN readmask ELSE readmask \ {"time"}) \cap Readable
  /\ readmask' # {}
  /\ ppc' = "fork"
  /\ UNCHANGED <<clientVars, timeQ, listenQ, child, room, dropped>>

Select ==
  /\ ppc = "select"
  /\ readmask' = readmask \cap Readable
  /\ readmask' # {}
  /\ ppc' = "fork"
  /\ UNCHANGED <<clientVars, timeQ, listenQ, child, room, dropped>>

(* acceptConn(), for echo and then for who: it fails when no descriptor is *)
(* left.  The connection stays where it is, and the child's service of the *)
(* descriptor -1 comes to nothing.                                         *)
Taken == {s \in readmask \ {"time", "stdin"} :
            Cardinality(readmask \cap {"echo", s}) <= room}

Accepted(s) == IF s \in Taken THEN <<Head(listenQ[s])>> ELSE <<>>

Todo == (IF "time" \in readmask THEN <<"time">> ELSE <<>>)
          \o Accepted("echo") \o Accepted("who")

(* Slip: accept() left to the child, so that the parent's next select()    *)
(* finds the same connection.                                              *)
ForkNoAccept ==
  /\ ppc = "fork" /\ Len(child) < MaxProc
  /\ child' = Append(child, Todo)
  /\ ppc' = "select" /\ readmask' = readmask \cup Service
  /\ UNCHANGED <<clientVars, timeQ, listenQ, room, dropped>>

(* acceptConn() and fork().  If fork() fails the parent goes on without a  *)
(* child, and nobody serves what it has accepted.  Back at the head of the *)
(* loop the three sockets are put into readmask; STDIN was put there once, *)
(* and stays as long as each select() finds it readable.                   *)
Fork ==
  /\ ppc = "fork"
  /\ listenQ' = [s \in {"echo", "who"} |->
                   IF s \in Taken THEN Tail(listenQ[s]) ELSE listenQ[s]]
  /\ room' = room - Cardinality(Taken)
  /\ ppc' = "select" /\ readmask' = readmask \cup Service
  /\ \/ /\ Len(child) < MaxProc
        /\ child' = Append(child, Todo)
        /\ UNCHANGED dropped
     \/ /\ Len(child) = MaxProc
        /\ dropped' = dropped \cup {Todo[j] : j \in {j \in DOMAIN Todo : Todo[j] # "time"}}
        /\ UNCHANGED child
  /\ UNCHANGED <<clientVars, timeQ>>

-----------------------------------------------------------------------------
(* A child: timeService(), echoService(), getwhoService(). *)

Doing(k) == IF child[k] = <<>> THEN "nothing" ELSE Head(child[k])

TimeService(k) ==
  /\ Doing(k) = "time" /\ timeQ # <<>>
  /\ cst' = [cst EXCEPT ![Head(timeQ)] = "answered"]
  /\ timeQ' = Tail(timeQ)
  /\ child' = [child EXCEPT ![k] = Tail(@)]
  /\ UNCHANGED <<listenQ, typed, parentVars>>

(* The child has read the line, or the end of the stream if the client is  *)
(* gone, and writes.                                                       *)
Reply(c) == cst' = [cst EXCEPT ![c] = IF @ = "gone" THEN @ ELSE "answered"]

(* Slip: one service per child. *)
ConnectionServiceOnly(k) ==
  \E c \in Connecting :
    /\ Doing(k) = c /\ cst[c] \in {"sent", "gone"} /\ Reply(c)
    /\ child' = [child EXCEPT ![k] = <<>>]
    /\ UNCHANGED <<timeQ, listenQ, typed, parentVars>>

ConnectionService(k) ==
  \E c \in Connecting :
    /\ Doing(k) = c /\ cst[c] \in {"sent", "gone"} /\ Reply(c)
    /\ child' = [child EXCEPT ![k] = Tail(@)]
    /\ UNCHANGED <<timeQ, listenQ, typed, parentVars>>

-----------------------------------------------------------------------------
Child(k) == k \in DOMAIN child /\ (TimeService(k) \/ ConnectionService(k))

Next ==
  \/ \E c \in Client : AskTime(c) \/ Connect(c) \/ SendLine(c) \/ Kill(c)
  \/ TypeAtServer
  \/ Select \/ Fork
  \/ \E k \in 1 .. MaxProc : Child(k)

Spec == Init /\ [][Next]_vars

(* Parent and children run.  Whoever has connected sends in the end, but   *)
(* for an echo client in Silent, whose user need not type.  Nobody needs   *)
(* to start a client or to type at the server.                             *)
Fairness ==
  /\ WF_vars(Select \/ Fork)
  /\ \A k \in 1 .. MaxProc : WF_vars(Child(k))
  /\ \A c \in Connecting \ Silent : WF_vars(SendLine(c))

FairSpec == Spec /\ Fairness

-----------------------------------------------------------------------------
(* Properties. *)

(* The variables keep their types: there are never more children than      *)
(* processes.                                                              *)
TypeOK ==
  /\ cst \in [Client -> {"new", "connected", "sent", "answered", "gone"}]
  /\ timeQ \in Seq(TimeClient)
  /\ listenQ \in [{"echo", "who"} -> Seq(Connecting)]
  /\ typed \in BOOLEAN /\ ppc \in {"select", "fork"}
  /\ readmask \subseteq Service \cup {"stdin"}
  /\ child \in Seq(Seq({"time"} \cup Connecting)) /\ Len(child) <= MaxProc
  /\ room \in Nat /\ dropped \subseteq Connecting

(* A connection that is not answered is held in one place and only one:    *)
(* the queue of its port, one child, or the parent if fork() failed; and   *)
(* that needs as many children as there may be.  A client that has been    *)
(* answered is nowhere.  And if nobody types at the server, a parent that  *)
(* has the descriptors and could fork as often as there are clients leaves *)
(* as many children with time at the head of their work as there are       *)
(* datagrams nobody has read.                                              *)
Queued(c)   == {j \in DOMAIN listenQ[ServiceOf(c)] : listenQ[ServiceOf(c)][j] = c}
Holders(c)  == {k \in DOMAIN child : c \in Range(child[k])}
Places(c)   == Cardinality(Queued(c)) + Cardinality(Holders(c))
                 + (IF c \in dropped THEN 1 ELSE 0)

(* Descriptors for all connections that are still to be accepted.          *)
EnoughRoom ==
  Cardinality({c \in Connecting : cst[c] = "new"})
    + Len(listenQ["echo"]) + Len(listenQ["who"]) <= room

HeldOnce ==
  /\ TypeOK
  /\ \A c \in Connecting :
    /\ cst[c] \in {"connected", "sent"} => Places(c) = 1
    /\ cst[c] \in {"new", "answered"} => Places(c) = 0
    /\ cst[c] = "gone" => Places(c) <= 1
    /\ c \in dropped => Len(child) = MaxProc
  /\ ~typed /\ EnoughRoom /\ Cardinality(Client) <= MaxProc /\ Len(child) = MaxProc =>
       Cardinality({k \in DOMAIN child : Doing(k) = "time"}) >= Len(timeQ)

(* If fork() can succeed once per client, accept() never runs out of       *)
(* descriptors and nobody types at the server, every time request is       *)
(* answered, though its child may not be the one that was forked for it.   *)
TimeAnswered ==
  Cardinality(Client) <= MaxProc =>
    \A c \in TimeClient :
      (cst[c] = "sent" /\ EnoughRoom) ~> (cst[c] = "answered" \/ typed)

(* A connection whose child does not also have to serve time is answered,  *)
(* whatever becomes of the clients the child serves before it: unless one  *)
(* child holds it and an echo client whose user never types.               *)
Behind(c, e) == Holders(c) \cap Holders(e) # {} /\ cst[e] = "connected"
ServedWithoutTime ==
  \A c \in Connecting :
    (\E k \in Holders(c) : "time" \notin Range(child[k])) ~>
      \/ cst[c] \in {"answered", "gone"}
      \/ \E e \in Silent : []Behind(c, e)

(* What the head of superServer.c says: "For each request that is          *)
(* detected, the server spaws a process to handle the request."            *)
RequestHandled ==
  \A c \in Connecting : (cst[c] = "sent" /\ Holders(c) # {}) ~> cst[c] \in {"answered", "gone"}
=============================================================================
