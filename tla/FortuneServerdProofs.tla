------------------------ MODULE FortuneServerdProofs ------------------------
(* FortuneServerd for any set of clients, any limit and any cookies. *)
EXTENDS FortuneServerd, FiniteSetTheorems, TLAPS

(***************************************************************************)
(* The inductive invariant.  The parent never counts a cookie, so every    *)
(* child starts from an empty table; and whether a child has answered a    *)
(* request for the statistics cannot change after it has answered, because *)
(* by then the client has sent its request or is gone.                     *)
(***************************************************************************)
Fresh ==
  /\ table = EmptyTable
  /\ DOMAIN copy = Client /\ DOMAIN answer = Client
  /\ \A c \in Client : cpc[c] = "read" => copy[c] = EmptyTable

Sent ==
  \A c \in Client :
    /\ asks[c] # "none" => cst[c] \notin {"new", "connected"}
    /\ cpc[c] \in {"len", "text", "exited"} => cst[c] \notin {"new", "connected"}

(* A connection is in one place: it waits in the queue, or the parent has  *)
(* it in hand, or there is a child for it.                                 *)
OnePlace ==
  /\ \A i, j \in DOMAIN queue : queue[i] = queue[j] => i = j
  /\ \A i \in DOMAIN queue : cst[queue[i]] # "new" /\ cpc[queue[i]] = "none"
  /\ \A c \in Client : cst[c] = "new" => cpc[c] = "none"
  /\ mpc # "accept" =>
       /\ cst[sd2] # "new" /\ cpc[sd2] = "none"
       /\ \A i \in DOMAIN queue : queue[i] # sd2

(* The children are the connections counted, less the one in hand.         *)
Forked ==
  /\ IsFiniteSet(Children)
  /\ mpc = "accept" => request <= MAX_REQ /\ Cardinality(Children) = request
  /\ mpc # "accept" => request >= 1 /\ Cardinality(Children) = request - 1
  /\ \A c \in Client : cst[c] = "nothing" => mpc = "exited"

IInv == TypeOK /\ Fresh /\ Sent /\ NoStatistics /\ OnePlace /\ Forked

-----------------------------------------------------------------------------
LEMMA NoneCounted == Stat(EmptyTable) = NoCookie
BY DEF Stat, EmptyTable

LEMMA InitInv == Init => IInv
<1> SUFFICES ASSUME Init PROVE IInv
  OBVIOUS
<1>1. TypeOK
  BY ServerdAssumption DEF Init, TypeOK, Request
<1>2. Fresh /\ Sent /\ NoStatistics /\ OnePlace
  BY DEF Init, Fresh, Sent, NoStatistics, OnePlace
<1>3. Forked
  <2>1. Children = {}
    BY DEF Init, Children
  <2>2. IsFiniteSet(Children) /\ Cardinality(Children) = 0
    BY <2>1, FS_EmptySet
  <2> QED
    BY <2>2, ServerdAssumption DEF Init, Forked
<1> QED
  BY <1>1, <1>2, <1>3 DEF IInv

(* SendRequest, GetNothing and Kill change only what the client is doing.  *)
LEMMA ClientInv ==
  ASSUME IInv, NEW c \in Client,
         \/ \E r \in Request : SendRequest(c, r)
         \/ GetNothing(c)
         \/ Kill(c)
  PROVE  IInv'
<1> DEFINE u == UNCHANGED <<queue, mpc, sd2, request, table, cpc, copy, answer>>
<1>1. /\ u
      /\ cst[c] \in {"connected", "sent", "gotLen"}
      /\ \E s \in {"sent", "nothing", "gone"} : cst' = [cst EXCEPT ![c] = s]
      /\ cst'[c] = "nothing" => mpc = "exited"
  BY DEF IInv, TypeOK, SendRequest, GetNothing, Kill, Abandoned, parentVars, childVars
<1>2. \/ asks' = asks
      \/ /\ cst[c] = "connected" /\ cst'[c] = "sent"
         /\ \E r \in Request : asks' = [asks EXCEPT ![c] = r]
  BY DEF IInv, TypeOK, SendRequest, GetNothing, Kill
<1> DEFINE moved == /\ cst' \in [Client -> {"new", "connected", "sent", "gotLen", "answered",
                                             "nothing", "gone"}]
                    /\ \A d \in Client : d # c => cst'[d] = cst[d]
                    /\ cst'[c] \in {"sent", "nothing", "gone"}
<1>3. moved
  BY <1>1 DEF IInv, TypeOK
<1>4. TypeOK'
  BY <1>1, <1>2 DEF IInv, TypeOK
<1>5. Fresh'
  BY <1>1 DEF IInv, Fresh
<1>6. Sent'
  <2>1. \A d \in Client : d # c => asks'[d] = asks[d]
    BY <1>2 DEF IInv, TypeOK
  <2> QED
    BY <1>1, <1>3, <2>1 DEF IInv, Sent
<1>7. NoStatistics'
  <2>1. \A d \in Client : cpc[d] \in {"len", "text", "exited"} => asks'[d] = asks[d]
    BY <1>2 DEF IInv, TypeOK, Sent
  <2> QED
    BY <1>1, <2>1 DEF IInv, NoStatistics
<1>8. OnePlace'
  <2>1. \A d \in Client : cst'[d] = "new" => cst[d] = "new"
    BY <1>3
  <2>2. \A i \in DOMAIN queue : queue[i] \in Client
    BY DEF IInv, TypeOK
  <2>3. sd2 \in Client
    BY DEF IInv, TypeOK
  <2>4. \A d \in Client : cst[d] # "new" => cst'[d] # "new"
    BY <2>1
  <2> QED
    BY <1>1, <2>1, <2>2, <2>3, <2>4 DEF IInv, OnePlace
<1>9. Forked'
  <2>1. Children' = Children
    BY <1>1 DEF Children
  <2>2. \A d \in Client : cst'[d] = "nothing" => mpc = "exited"
    BY <1>1, <1>3 DEF IInv, Forked
  <2> QED
    BY <1>1, <2>1, <2>2 DEF IInv, Forked
<1> QED
  BY <1>4, <1>5, <1>6, <1>7, <1>8, <1>9 DEF IInv

LEMMA ConnectInv ==
  ASSUME IInv, NEW c \in Client, Connect(c)
  PROVE  IInv'
<1>1. /\ cst[c] = "new" /\ cst' = [cst EXCEPT ![c] = "connected"]
      /\ queue' = Append(queue, c)
      /\ UNCHANGED <<asks, mpc, sd2, request, table, cpc, copy, answer>>
  BY DEF Connect, parentVars, childVars
<1>2. /\ queue \in Seq(Client) /\ sd2 \in Client
      /\ cst \in [Client -> {"new", "connected", "sent", "gotLen", "answered", "nothing", "gone"}]
  BY DEF IInv, TypeOK
<1>3. cpc[c] = "none" /\ asks[c] = "none"
  BY <1>1 DEF IInv, OnePlace, Sent
<1>4. TypeOK'
  <2>1. /\ queue' \in Seq(Client)
        /\ cst' \in [Client -> {"new", "connected", "sent", "gotLen", "answered", "nothing",
                                "gone"}]
    BY <1>1, <1>2
  <2> QED
    BY <1>1, <2>1 DEF IInv, TypeOK
<1>5. Fresh' /\ NoStatistics'
  BY <1>1 DEF IInv, Fresh, NoStatistics
<1>6. Sent'
  BY <1>1, <1>2, <1>3 DEF IInv, Sent
<1>7. OnePlace'
  <2>1. \A i \in DOMAIN queue : queue[i] # c
    BY <1>1 DEF IInv, OnePlace
  <2>2. /\ DOMAIN queue' = 1 .. Len(queue) + 1 /\ DOMAIN queue = 1 .. Len(queue)
        /\ \A i \in DOMAIN queue : queue'[i] = queue[i] /\ i \in Nat
        /\ queue'[Len(queue) + 1] = c /\ Len(queue) \in Nat
    BY <1>1, <1>2
  <2>3. \A i \in DOMAIN queue' : i \in DOMAIN queue \/ i = Len(queue) + 1
    BY <2>2
  <2>4. \A i, j \in DOMAIN queue' : queue'[i] = queue'[j] => i = j
    <3>1. \A i, j \in DOMAIN queue : queue[i] = queue[j] => i = j
      BY DEF IInv, OnePlace
    <3> QED
      BY <2>1, <2>2, <2>3, <3>1
  <2>5. \A d \in Client : cst'[d] = "new" => cst[d] = "new" /\ d # c
    BY <1>1, <1>2
  <2>6. \A i \in DOMAIN queue' : cst'[queue'[i]] # "new" /\ cpc[queue'[i]] = "none"
    <3>1. \A i \in DOMAIN queue' : queue'[i] \in Client
      BY <1>2, <2>2, <2>3
    <3>2. \A i \in DOMAIN queue : cst[queue[i]] # "new" /\ cpc[queue[i]] = "none"
      BY DEF IInv, OnePlace
    <3> QED
      BY <1>3, <2>2, <2>3, <2>5, <3>1, <3>2
  <2>7. mpc # "accept" =>
          cst[sd2] # "new" /\ cpc[sd2] = "none" /\ \A i \in DOMAIN queue' : queue'[i] # sd2
    <3>1. mpc # "accept" => /\ cst[sd2] # "new" /\ cpc[sd2] = "none"
                            /\ \A i \in DOMAIN queue : queue[i] # sd2
      BY DEF IInv, OnePlace
    <3> QED
      BY <1>1, <2>2, <2>3, <3>1
  <2>8. \A d \in Client : cst[d] = "new" => cpc[d] = "none"
    BY DEF IInv, OnePlace
  <2> QED
    BY <1>1, <1>2, <2>4, <2>5, <2>6, <2>7, <2>8 DEF OnePlace
<1>8. Forked'
  <2>1. Children' = Children
    BY <1>1 DEF Children
  <2>2. \A d \in Client : cst'[d] = "nothing" => cst[d] = "nothing"
    BY <1>1, <1>2
  <2> QED
    BY <1>1, <2>1, <2>2 DEF IInv, Forked
<1> QED
  BY <1>4, <1>5, <1>6, <1>7, <1>8 DEF IInv

LEMMA AcceptInv ==
  ASSUME IInv, Accept
  PROVE  IInv'
<1>1. /\ mpc = "accept" /\ queue # <<>> /\ sd2' = Head(queue) /\ queue' = Tail(queue)
      /\ request' = request + 1 /\ mpc' = "fork"
      /\ UNCHANGED <<cst, asks, table, cpc, copy, answer>>
  BY DEF Accept, clientVars, childVars
<1>2. /\ queue \in Seq(Client) /\ request \in Nat /\ request <= MAX_REQ /\ MAX_REQ \in Nat
      /\ Cardinality(Children) = request
  BY <1>1, ServerdAssumption DEF IInv, TypeOK, Forked
<1>3. /\ Len(queue) \in Nat /\ Len(queue) >= 1 /\ DOMAIN queue = 1 .. Len(queue)
      /\ Head(queue) = queue[1] /\ queue[1] \in Client
      /\ Tail(queue) \in Seq(Client) /\ DOMAIN Tail(queue) = 1 .. Len(queue) - 1
      /\ \A i \in 1 .. Len(queue) - 1 : Tail(queue)[i] = queue[i + 1]
  BY <1>1, <1>2
<1>4. TypeOK'
  BY <1>1, <1>2, <1>3 DEF IInv, TypeOK
<1>5. Fresh' /\ NoStatistics' /\ Sent'
  BY <1>1 DEF IInv, Fresh, NoStatistics, Sent
<1>6. OnePlace'
  <2>1. \A i, j \in DOMAIN queue : queue[i] = queue[j] => i = j
    BY DEF IInv, OnePlace
  <2>2. \A i \in DOMAIN queue' : /\ i + 1 \in DOMAIN queue /\ queue'[i] = queue[i + 1]
                                  /\ i + 1 # 1 /\ i \in Int
    BY <1>1, <1>3
  <2>3. \A i, j \in DOMAIN queue' : queue'[i] = queue'[j] => i = j
    BY <2>1, <2>2
  <2>4. 1 \in DOMAIN queue
    BY <1>3
  <2>5. \A i \in DOMAIN queue' : queue'[i] # sd2'
    BY <1>1, <1>3, <2>1, <2>2, <2>4
  <2>6. \A i \in DOMAIN queue : cst[queue[i]] # "new" /\ cpc[queue[i]] = "none"
    BY DEF IInv, OnePlace
  <2>7. \A i \in DOMAIN queue' : cst[queue'[i]] # "new" /\ cpc[queue'[i]] = "none"
    BY <2>2, <2>6
  <2>8. cst[sd2'] # "new" /\ cpc[sd2'] = "none"
    BY <1>1, <1>3, <2>4, <2>6
  <2> QED
    BY <1>1, <2>3, <2>5, <2>7, <2>8 DEF IInv, OnePlace
<1>7. Forked'
  <2>1. Children' = Children
    BY <1>1 DEF Children
  <2>2. request' >= 1 /\ Cardinality(Children) = request' - 1
    BY <1>1, <1>2
  <2> QED
    BY <1>1, <2>1, <2>2 DEF IInv, Forked
<1> QED
  BY <1>4, <1>5, <1>6, <1>7 DEF IInv

LEMMA ForkInv ==
  ASSUME IInv, Fork
  PROVE  IInv'
<1>1. /\ mpc = "fork" /\ request <= MAX_REQ
      /\ cpc' = [cpc EXCEPT ![sd2] = "read"] /\ copy' = [copy EXCEPT ![sd2] = table]
      /\ mpc' = "accept"
      /\ UNCHANGED <<cst, asks, queue, sd2, request, table, answer>>
  BY DEF Fork, clientVars
<1>2. /\ sd2 \in Client /\ cpc[sd2] = "none" /\ cst[sd2] # "new"
      /\ cpc \in [Client -> {"none", "read", "len", "text", "exited"}]
      /\ \A i \in DOMAIN queue : queue[i] \in Client /\ queue[i] # sd2
  BY <1>1 DEF IInv, TypeOK, OnePlace
<1>3. \A d \in Client : cpc'[d] = IF d = sd2 THEN "read" ELSE cpc[d]
  BY <1>1, <1>2
<1>4. TypeOK'
  BY <1>1 DEF IInv, TypeOK
<1>5. Fresh'
  BY <1>1, <1>3 DEF IInv, Fresh
<1>6. NoStatistics' /\ Sent'
  BY <1>1, <1>3 DEF IInv, NoStatistics, Sent
<1>7. OnePlace'
  BY <1>1, <1>2, <1>3 DEF IInv, OnePlace
<1>8. Forked'
  <2>1. Children' = Children \cup {sd2} /\ sd2 \notin Children
    BY <1>2, <1>3 DEF Children
  <2>2. IsFiniteSet(Children) /\ Cardinality(Children) = request - 1 /\ request \in Int
    BY <1>1 DEF IInv, Forked, TypeOK
  <2>3. IsFiniteSet(Children') /\ Cardinality(Children') = request
    BY <2>1, <2>2, FS_AddElement
  <2> QED
    BY <1>1, <2>3 DEF IInv, Forked
<1> QED
  BY <1>4, <1>5, <1>6, <1>7, <1>8 DEF IInv

(* ForkFails and Return: the parent ends, with a connection in hand.       *)
LEMMA ExitInv ==
  ASSUME IInv, ForkFails \/ Return
  PROVE  IInv'
<1>1. /\ mpc = "fork" /\ mpc' = "exited"
      /\ UNCHANGED <<cst, asks, queue, sd2, request, table, cpc, copy, answer>>
  BY DEF ForkFails, Return, clientVars, childVars
<1>2. Children' = Children
  BY <1>1 DEF Children
<1>3. TypeOK'
  BY <1>1 DEF IInv, TypeOK
<1>4. Fresh' /\ Sent' /\ NoStatistics' /\ OnePlace'
  BY <1>1 DEF IInv, Fresh, Sent, NoStatistics, OnePlace
<1>5. Forked'
  BY <1>1, <1>2 DEF IInv, Forked
<1> QED
  BY <1>3, <1>4, <1>5 DEF IInv

(* The child's steps: a table and an answer of its own, and no effect on   *)
(* who is where.                                                           *)
LEMMA ChildInv ==
  ASSUME IInv, NEW c \in Client, Child(c)
  PROVE  IInv'
<1> DEFINE State == {"new", "connected", "sent", "gotLen", "answered", "nothing", "gone"}
           Step  == {"none", "read", "len", "text", "exited"}
<1>1. /\ UNCHANGED <<asks, queue, mpc, sd2, request, table>>
      /\ cpc[c] \in {"read", "len", "text"}
      /\ \E s \in {"len", "text", "exited"} : cpc' = [cpc EXCEPT ![c] = s]
  BY DEF Child, Cook, Stats, NeitherRequest, WriteLen, WriteText, Requested, clientVars, parentVars
<1>2. /\ cst \in [Client -> State] /\ cpc \in [Client -> Step]
      /\ \A i \in DOMAIN queue : queue[i] \in Client
      /\ sd2 \in Client
  BY DEF IInv, TypeOK
<1>3. /\ \A d \in Client : d # c => cpc'[d] = cpc[d]
      /\ cpc'[c] \in {"len", "text", "exited"}
      /\ cpc' \in [Client -> Step]
  BY <1>1, <1>2
<1>4. \/ cst' = cst /\ cst[c] \notin {"new", "connected"}
      \/ /\ cpc[c] \in {"len", "text"}
         /\ \E s \in {"gotLen", "answered", "gone"} : cst' = [cst EXCEPT ![c] = s]
  <2>1. CASE Cook(c) \/ Stats(c) \/ NeitherRequest(c)
    <3>1. cst' = cst /\ \E r \in {"cook", "stat", "other"} : Requested(c, r)
      BY <2>1 DEF Cook, Stats, NeitherRequest, clientVars
    <3>2. cst[c] \notin {"new", "connected"}
      BY <3>1 DEF IInv, Sent, Requested
    <3> QED
      BY <3>1, <3>2
  <2>2. CASE WriteLen(c) \/ WriteText(c)
    BY <2>2, <1>2 DEF WriteLen, WriteText
  <2> QED
    BY <2>1, <2>2 DEF Child
<1>5. /\ cst' \in [Client -> State]
      /\ \A d \in Client : d # c => cst'[d] = cst[d]
      /\ cst'[c] \notin {"new", "connected"}
      /\ cst'[c] = "nothing" => cst[c] = "nothing"
  BY <1>2, <1>4
<1>6. /\ DOMAIN copy' = DOMAIN copy /\ DOMAIN answer' = DOMAIN answer
      /\ \A d \in Client : d # c => answer'[d] = answer[d] /\ copy'[d] = copy[d]
  BY DEF IInv, Fresh, Child, Cook, Stats, NeitherRequest, WriteLen, WriteText
<1>7. TypeOK'
  BY <1>1, <1>3, <1>5 DEF IInv, TypeOK
<1>8. Fresh'
  BY <1>1, <1>3, <1>6 DEF IInv, Fresh
<1>9. Sent'
  BY <1>1, <1>3, <1>5 DEF IInv, Sent
<1>10. NoStatistics'
  <2>1. asks[c] = "stat" => answer'[c] = NoCookie
    <3>1. CASE Cook(c)
      BY <3>1 DEF Cook, Requested
    <3>2. CASE Stats(c)
      BY <3>2, NoneCounted DEF IInv, Fresh, Stats, Requested
    <3>3. CASE NeitherRequest(c)
      BY <3>3 DEF NeitherRequest, Requested
    <3>4. CASE WriteLen(c) \/ WriteText(c)
      BY <3>4 DEF IInv, NoStatistics, WriteLen, WriteText
    <3> QED
      BY <3>1, <3>2, <3>3, <3>4 DEF Child
  <2> QED
    BY <1>1, <1>3, <1>6, <2>1 DEF IInv, NoStatistics
<1>11. OnePlace'
  <2>1. \A d \in Client : cpc[d] = "none" => cpc'[d] = "none"
    BY <1>1, <1>3
  <2>2. \A d \in Client : cst'[d] = "new" <=> cst[d] = "new"
    BY <1>1, <1>5 DEF IInv, OnePlace
  <2> QED
    BY <1>1, <1>2, <2>1, <2>2 DEF IInv, OnePlace
<1>12. Forked'
  <2>1. \A d \in Client : cpc[d] = "none" <=> cpc'[d] = "none"
    BY <1>1, <1>3
  <2>2. Children' = Children
    BY <2>1 DEF Children
  <2>3. \A d \in Client : cst'[d] = "nothing" => cst[d] = "nothing"
    BY <1>5
  <2> QED
    BY <1>1, <2>2, <2>3 DEF IInv, Forked
<1> QED
  BY <1>7, <1>8, <1>9, <1>10, <1>11, <1>12 DEF IInv

LEMMA StepInv == IInv /\ [Next]_vars => IInv'
<1> SUFFICES ASSUME IInv, [Next]_vars PROVE IInv'
  OBVIOUS
<1>1. ASSUME NEW c \in Client, Connect(c) \/ GetNothing(c) \/ Kill(c) \/ Child(c) PROVE IInv'
  BY <1>1, ConnectInv, ClientInv, ChildInv
<1>2. ASSUME NEW c \in Client, NEW r \in Request, SendRequest(c, r) PROVE IInv'
  BY <1>2, ClientInv
<1>3. CASE Accept
  BY <1>3, AcceptInv
<1>4. CASE Fork
  BY <1>4, ForkInv
<1>5. CASE ForkFails \/ Return
  BY <1>5, ExitInv
<1>6. CASE UNCHANGED vars
  <2>1. UNCHANGED Children
    BY <1>6 DEF vars, Children
  <2> QED
    BY <1>6, <2>1 DEF vars, IInv, TypeOK, Fresh, Sent, NoStatistics, OnePlace, Forked
<1> QED
  BY <1>1, <1>2, <1>3, <1>4, <1>5, <1>6 DEF Next

-----------------------------------------------------------------------------
(* The state keeps its types in every behaviour of the forking server:     *)
(* among others, its counter never passes MAX_REQ + 1.                     *)
THEOREM TypeCorrect == Spec => []TypeOK
<1>1. IInv => TypeOK
  BY DEF IInv
<1> QED
  BY InitInv, StepInv, <1>1, PTL DEF Spec

(* Whatever the clients do and whoever is killed, a client that asks the   *)
(* forking server of fortune-serverd.c for the statistics is told that no  *)
(* cookie was accessed.                                                    *)
THEOREM StatisticsEmpty == Spec => []NoStatistics
<1>1. IInv => NoStatistics
  BY DEF IInv
<1> QED
  BY InitInv, StepInv, <1>1, PTL DEF Spec

(* main() of fortune-serverd.c starts at most MAX_REQ children, and turns  *)
(* a client away only when it has ended, with a child started for each     *)
(* connection it has accepted but the last.                                *)
THEOREM LateRefusal == Spec => []TurnedAwayLate
<1>1. IInv => TurnedAwayLate
  <2> SUFFICES ASSUME IInv PROVE TurnedAwayLate
    OBVIOUS
  <2>1. TypeOK /\ request \in Int /\ request <= MAX_REQ + 1 /\ MAX_REQ \in Nat
    BY ServerdAssumption DEF IInv, TypeOK
  <2>2. \/ mpc = "accept" /\ request <= MAX_REQ /\ Cardinality(Children) = request
        \/ mpc # "accept" /\ Cardinality(Children) = request - 1
    BY DEF IInv, Forked
  <2>3. Cardinality(Children) <= MAX_REQ
    BY <2>1, <2>2
  <2>4. (\E c \in Client : cst[c] = "nothing") => mpc = "exited"
    BY DEF IInv, Forked
  <2> QED
    BY <2>1, <2>2, <2>3, <2>4 DEF TurnedAwayLate
<1> QED
  BY InitInv, StepInv, <1>1, PTL DEF Spec
=============================================================================
