-------------------------- MODULE SuperServerProofs -------------------------
(***************************************************************************)
(* SuperServer for any finite sets of clients, processes and descriptors.  *)
(***************************************************************************)
EXTENDS SuperServer, FiniteSetTheorems, TLAPS

Port == {"echo", "who"}

(***************************************************************************)
(* The inductive invariant.  No client is in a queue, or in the work of a  *)
(* child, twice; and a connection is in one queue, one child, or with the  *)
(* parent, or nowhere.                                                     *)
(***************************************************************************)
InLine ==
  \A s \in Port : IsInjective(listenQ[s]) /\ \A c \in Range(listenQ[s]) : ServiceOf(c) = s

InWork == \A k \in DOMAIN child : IsInjective(child[k])

Waits(c) == c \in Range(listenQ[ServiceOf(c)])
Kept(c)  == Holders(c) # {}

AtOnePlace(c) ==
  /\ \A k, l \in Holders(c) : k = l
  /\ ~(Waits(c) /\ Kept(c)) /\ ~(Waits(c) /\ c \in dropped) /\ ~(Kept(c) /\ c \in dropped)
  /\ cst[c] \in {"connected", "sent"} => Waits(c) \/ Kept(c) \/ c \in dropped
  /\ cst[c] \in {"new", "answered"} => ~Waits(c) /\ ~Kept(c) /\ c \notin dropped

OnePlace == \A c \in Connecting : AtOnePlace(c)

Unforked == dropped # {} => Len(child) = MaxProc

(* What select() has found ready is there when the parent accepts it: only *)
(* the datagram can have gone.                                             *)
Selected ==
  ppc = "fork" =>
    /\ readmask # {}
    /\ \A s \in readmask \cap Port : listenQ[s] # <<>>
    /\ "stdin" \in readmask => typed

(* Every child was forked for a datagram or for a connection: it still has *)
(* to serve time, or a time client was answered, or it has accepted a      *)
(* connection.                                                             *)
TimeLine == IsInjective(timeQ) /\ \A c \in Range(timeQ) : cst[c] = "sent"

AtTime  == {k \in DOMAIN child : Doing(k) = "time"}
Settled == {c \in TimeClient : cst[c] = "answered"}
             \cup {c \in Connecting : cst[c] # "new" /\ ~Waits(c)}

Counted ==
  ~typed /\ EnoughRoom => Len(child) <= Cardinality(AtTime) + Cardinality(Settled)

Placed == TypeOK /\ InLine /\ InWork /\ OnePlace /\ Unforked /\ Selected
IInv   == Placed /\ TimeLine /\ Counted

-----------------------------------------------------------------------------
(* Sequences whose elements are all different. *)

LEMMA AppendOnce ==
  ASSUME NEW S, NEW q \in Seq(S), NEW c \in S
  PROVE  /\ Append(q, c) \in Seq(S) /\ Len(Append(q, c)) = Len(q) + 1
         /\ Range(Append(q, c)) = Range(q) \cup {c}
         /\ IsInjective(q) /\ c \notin Range(q) => IsInjective(Append(q, c))
<1>. DEFINE r == Append(q, c)
<1>1. /\ DOMAIN r = 1 .. Len(q) + 1 /\ DOMAIN q = 1 .. Len(q) /\ Len(q) \in Nat
      /\ \A j \in DOMAIN q : r[j] = q[j]
      /\ r[Len(q) + 1] = c /\ r \in Seq(S) /\ Len(r) = Len(q) + 1
  OBVIOUS
<1>. HIDE DEF r
<1>2. DOMAIN r = DOMAIN q \cup {Len(q) + 1}
  BY <1>1
<1>3. Range(r) = Range(q) \cup {c}
  BY <1>1, <1>2 DEF Range
<1>4. IsInjective(q) /\ c \notin Range(q) => IsInjective(r)
  BY <1>1, <1>2 DEF IsInjective, Range
<1>. QED
  BY <1>1, <1>3, <1>4 DEF r

LEMMA TailOnce ==
  ASSUME NEW S, NEW q \in Seq(S), q # <<>>
  PROVE  /\ Tail(q) \in Seq(S) /\ Len(Tail(q)) = Len(q) - 1
         /\ Head(q) \in S /\ Head(q) \in Range(q)
         /\ Range(q) = Range(Tail(q)) \cup {Head(q)}
         /\ IsInjective(q) => IsInjective(Tail(q)) /\ Head(q) \notin Range(Tail(q))
<1>. DEFINE r == Tail(q)
<1>1. /\ DOMAIN q = 1 .. Len(q) /\ Len(q) \in Nat /\ Len(q) >= 1
      /\ DOMAIN r = 1 .. Len(q) - 1 /\ r \in Seq(S) /\ Len(r) = Len(q) - 1
      /\ \A j \in DOMAIN r : r[j] = q[j + 1]
      /\ Head(q) = q[1] /\ q[1] \in S
  OBVIOUS
<1>. HIDE DEF r
<1>2. /\ \A j \in DOMAIN r : j + 1 \in DOMAIN q /\ j + 1 # 1 /\ j \in Int
      /\ \A j \in DOMAIN q : j = 1 \/ (j - 1 \in DOMAIN r /\ (j - 1) + 1 = j)
      /\ 1 \in DOMAIN q
  BY <1>1
<1>3. Range(q) = Range(r) \cup {q[1]}
  <2>1. ASSUME NEW c \in Range(q) PROVE c \in Range(r) \cup {q[1]}
    <3>1. PICK j \in DOMAIN q : q[j] = c
      BY <2>1 DEF Range
    <3>. QED
      BY <1>1, <1>2, <3>1 DEF Range
  <2>2. ASSUME NEW c \in Range(r) PROVE c \in Range(q)
    BY <1>1, <1>2, <2>2 DEF Range
  <2>3. q[1] \in Range(q)
    BY <1>2 DEF Range
  <2>. QED
    BY <2>1, <2>2, <2>3
<1>4. ASSUME IsInjective(q) PROVE IsInjective(r) /\ q[1] \notin Range(r)
  <2>1. \A j, k \in DOMAIN r : r[j] = r[k] => j + 1 = k + 1
    BY <1>1, <1>2, <1>4 DEF IsInjective
  <2>2. \A j \in DOMAIN r : r[j] # q[1]
    BY <1>1, <1>2, <1>4 DEF IsInjective
  <2>. QED
    BY <1>2, <2>1, <2>2 DEF IsInjective, Range
<1>. QED
  BY <1>1, <1>3, <1>4 DEF r

LEMMA ConcatOnce ==
  ASSUME NEW S, NEW p \in Seq(S), NEW q \in Seq(S)
  PROVE  /\ p \o q \in Seq(S) /\ Len(p \o q) = Len(p) + Len(q)
         /\ Range(p \o q) = Range(p) \cup Range(q)
         /\ IsInjective(p) /\ IsInjective(q) /\ Range(p) \cap Range(q) = {} => IsInjective(p \o q)
         /\ p # <<>> => p \o q # <<>> /\ Head(p \o q) = Head(p)
<1>. DEFINE r == p \o q
<1>1. /\ DOMAIN p = 1 .. Len(p) /\ Len(p) \in Nat /\ DOMAIN q = 1 .. Len(q) /\ Len(q) \in Nat
      /\ DOMAIN r = 1 .. Len(p) + Len(q) /\ r \in Seq(S) /\ Len(r) = Len(p) + Len(q)
      /\ \A j \in DOMAIN r : r[j] = IF j <= Len(p) THEN p[j] ELSE q[j - Len(p)]
  OBVIOUS
<1>2. p # <<>> => r # <<>> /\ Head(r) = Head(p)
  <2>1. p # <<>> => Len(p) >= 1
    OBVIOUS
  <2>2. p # <<>> => r # <<>> /\ r[1] = p[1]
    BY <1>1, <2>1
  <2>. QED
    BY <1>1, <2>2
<1>. HIDE DEF r
<1>3. /\ \A j \in DOMAIN p : j \in DOMAIN r /\ r[j] = p[j]
      /\ \A j \in DOMAIN q : Len(p) + j \in DOMAIN r /\ r[Len(p) + j] = q[j]
      /\ \A j \in DOMAIN r : \/ j \in DOMAIN p /\ r[j] = p[j]
                             \/ j - Len(p) \in DOMAIN q /\ r[j] = q[j - Len(p)]
  BY <1>1
<1>4. Range(r) = Range(p) \cup Range(q)
  BY <1>3 DEF Range
<1>5. ASSUME IsInjective(p), IsInjective(q), Range(p) \cap Range(q) = {} PROVE IsInjective(r)
  <2>. SUFFICES ASSUME NEW j \in DOMAIN r, NEW k \in DOMAIN r, r[j] = r[k] PROVE j = k
    BY DEF IsInjective
  <2>1. CASE j \in DOMAIN p /\ r[j] = p[j] /\ k \in DOMAIN p /\ r[k] = p[k]
    BY <1>5, <2>1 DEF IsInjective
  <2>2. CASE /\ j - Len(p) \in DOMAIN q /\ r[j] = q[j - Len(p)]
             /\ k - Len(p) \in DOMAIN q /\ r[k] = q[k - Len(p)]
    <3>1. j - Len(p) = k - Len(p)
      BY <1>5, <2>2 DEF IsInjective
    <3>. QED
      BY <1>1, <3>1
  <2>3. ~(r[j] \in Range(p) /\ r[k] \in Range(q)) /\ ~(r[k] \in Range(p) /\ r[j] \in Range(q))
    BY <1>5
  <2>4. /\ r[j] \in Range(p) \/ (j - Len(p) \in DOMAIN q /\ r[j] = q[j - Len(p)])
        /\ r[k] \in Range(p) \/ (k - Len(p) \in DOMAIN q /\ r[k] = q[k - Len(p)])
        /\ r[j] \in Range(q) \/ (j \in DOMAIN p /\ r[j] = p[j])
        /\ r[k] \in Range(q) \/ (k \in DOMAIN p /\ r[k] = p[k])
    BY <1>3 DEF Range
  <2>. QED
    BY <2>1, <2>2, <2>3, <2>4
<1>. QED
  BY <1>1, <1>2, <1>4, <1>5 DEF r

-----------------------------------------------------------------------------
LEMMA Ports ==
  /\ \A c \in Connecting : ServiceOf(c) \in Port
  /\ TimeClient \cap Connecting = {} /\ TimeClient \subseteq Client /\ Connecting \subseteq Client
BY SuperServerAssumption DEF ServiceOf, Port, Connecting, Client

LEMMA ClientsFinite ==
  ASSUME NEW S \in SUBSET Client
  PROVE  IsFiniteSet(S) /\ Cardinality(S) \in Nat
BY SuperServerAssumption, FS_Subset, FS_CardinalityType DEF Client, Connecting

LEMMA TimeFinite ==
  /\ TypeOK  => IsFiniteSet(AtTime) /\ Cardinality(AtTime) \in Nat
  /\ TypeOK' => IsFiniteSet(AtTime') /\ Cardinality(AtTime') \in Nat
<1>1. ASSUME NEW n \in Nat, NEW S \in SUBSET (1 .. n)
      PROVE  IsFiniteSet(S) /\ Cardinality(S) \in Nat
  <2>1. IsFiniteSet(1 .. n)
    BY FS_Interval
  <2>. QED
    BY <2>1, FS_Subset, FS_CardinalityType
<1>2. TypeOK => Len(child) \in Nat /\ AtTime \in SUBSET (1 .. Len(child))
  BY DEF TypeOK, AtTime
<1>3. TypeOK' => Len(child') \in Nat /\ AtTime' \in SUBSET (1 .. Len(child'))
  BY DEF TypeOK, AtTime
<1>. QED
  BY <1>1, <1>2, <1>3

LEMMA InitInv == Init => IInv
<1>. SUFFICES ASSUME Init PROVE IInv
  OBVIOUS
<1>1. TypeOK
  <2>1. /\ cst \in [Client -> {"new", "connected", "sent", "answered", "gone"}]
        /\ readmask \subseteq Service \cup {"stdin"} /\ dropped \subseteq Connecting
    BY DEF Init
  <2>2. /\ timeQ \in Seq(TimeClient) /\ listenQ \in [{"echo", "who"} -> Seq(Connecting)]
        /\ child \in Seq(Seq({"time"} \cup Connecting))
    BY DEF Init
  <2>3. Len(child) <= MaxProc /\ room \in Nat
    BY SuperServerAssumption DEF Init
  <2>. QED
    BY <2>1, <2>2, <2>3 DEF Init, TypeOK
<1>2. /\ \A s \in Port : listenQ[s] = <<>>
      /\ DOMAIN child = {} /\ DOMAIN timeQ = {} /\ Len(child) = 0 /\ dropped = {}
      /\ \A c \in Client : cst[c] = "new"
      /\ ppc = "select"
  BY DEF Init, Port
<1>3. \A s \in Port : Range(listenQ[s]) = {} /\ IsInjective(listenQ[s])
  BY <1>2 DEF Range, IsInjective
<1>4. InLine /\ InWork /\ Unforked /\ Selected
  BY <1>2, <1>3 DEF InLine, InWork, Unforked, Selected
<1>5. \A c \in Connecting : ~Waits(c) /\ Holders(c) = {} /\ cst[c] = "new"
  BY <1>2, <1>3, Ports DEF Waits, Holders
<1>6. OnePlace
  BY <1>2, <1>5 DEF OnePlace, AtOnePlace, Kept
<1>7. TimeLine
  BY <1>2 DEF TimeLine, IsInjective, Range
<1>8. Counted
  <2>1. Settled \in SUBSET Client
    BY Ports DEF Settled
  <2>. QED
    BY <1>1, <1>2, <2>1, TimeFinite, ClientsFinite DEF Counted
<1>. QED
  BY <1>1, <1>4, <1>6, <1>7, <1>8 DEF IInv, Placed

(* What happens to a client apart from its place: SendLine, Kill and what  *)
(* is typed at the server.                                                 *)
Elsewhere ==
  /\ UNCHANGED <<timeQ, listenQ, child, ppc, readmask, room, dropped>>
  /\ typed => typed'
  /\ \A c \in Client :
       /\ cst'[c] = "new" <=> cst[c] = "new"
       /\ cst'[c] = "answered" <=> cst[c] = "answered"
       /\ cst'[c] \in {"connected", "sent"} => cst[c] \in {"connected", "sent"}
       /\ c \in TimeClient /\ cst[c] = "sent" => cst'[c] = "sent"

LEMMA ElsewhereInv ==
  ASSUME IInv, TypeOK', Elsewhere
  PROVE  IInv'
<1>1. UNCHANGED <<timeQ, listenQ, child, ppc, readmask, room, dropped>>
  BY DEF Elsewhere
<1>2. InLine' /\ InWork' /\ Unforked' /\ Selected'
  BY <1>1 DEF IInv, Placed, InLine, InWork, Unforked, Selected, Elsewhere
<1>3. \A c : Waits(c)' = Waits(c) /\ Holders(c)' = Holders(c) /\ Kept(c)' = Kept(c)
  BY <1>1 DEF Waits, Holders, Kept
<1>4. OnePlace'
  BY <1>1, <1>3, Ports DEF IInv, Placed, OnePlace, AtOnePlace, Elsewhere
<1>5. TimeLine'
  <2>1. \A c \in Range(timeQ) : c \in TimeClient
    BY DEF IInv, Placed, TypeOK, Range
  <2>. QED
    BY <1>1, <2>1, Ports DEF IInv, TimeLine, Elsewhere
<1>6. Counted'
  <2>1. Settled' = Settled
    BY <1>3, Ports DEF Settled, Elsewhere
  <2>2. AtTime' = AtTime
    BY <1>1 DEF AtTime, Doing
  <2>3. {c \in Connecting : cst'[c] = "new"} = {c \in Connecting : cst[c] = "new"}
    BY Ports DEF Elsewhere
  <2>4. EnoughRoom' <=> EnoughRoom
    BY <1>1, <2>3 DEF EnoughRoom
  <2>. QED
    BY <1>1, <2>1, <2>2, <2>4 DEF IInv, Counted, Elsewhere
<1>. QED
  BY <1>2, <1>4, <1>5, <1>6 DEF IInv, Placed

LEMMA UserInv ==
  ASSUME IInv, NEW c \in Client, SendLine(c) \/ Kill(c)
  PROVE  IInv'
<1>1. /\ UNCHANGED <<timeQ, listenQ, typed, child, ppc, readmask, room, dropped>>
      /\ cst[c] \in {"connected", "sent"}
      /\ cst' = [cst EXCEPT ![c] = "sent"] \/ (cst' = [cst EXCEPT ![c] = "gone"] /\ c \in Mortal)
  BY DEF SendLine, Kill, parentVars
<1>2. /\ cst \in [Client -> {"new", "connected", "sent", "answered", "gone"}]
      /\ c \in TimeClient => c \notin Mortal
  BY SuperServerAssumption DEF IInv, Placed, TypeOK
<1>3. TypeOK'
  BY <1>1 DEF IInv, Placed, TypeOK
<1>4. /\ \A d \in Client : d # c => cst'[d] = cst[d]
      /\ cst'[c] = "sent" \/ (cst'[c] = "gone" /\ c \notin TimeClient)
  BY <1>1, <1>2
<1>5. Elsewhere
  <2>1. ASSUME NEW d \in Client
        PROVE  /\ cst'[d] = "new" <=> cst[d] = "new"
               /\ cst'[d] = "answered" <=> cst[d] = "answered"
               /\ cst'[d] \in {"connected", "sent"} => cst[d] \in {"connected", "sent"}
               /\ d \in TimeClient /\ cst[d] = "sent" => cst'[d] = "sent"
    <3>1. CASE d # c
      BY <1>4, <3>1
    <3>2. CASE d = c
      BY <1>1, <1>4, <3>2
    <3>. QED
      BY <3>1, <3>2
  <2>. QED
    BY <1>1, <2>1 DEF Elsewhere
<1>. QED
  BY <1>3, <1>5, ElsewhereInv

LEMMA TypeAtServerInv ==
  ASSUME IInv, TypeAtServer \/ UNCHANGED vars
  PROVE  IInv'
<1>1. /\ UNCHANGED <<cst, timeQ, listenQ, child, ppc, readmask, room, dropped>>
      /\ typed' \in BOOLEAN /\ (typed => typed')
  BY DEF TypeAtServer, vars, parentVars, IInv, Placed, TypeOK
<1>2. TypeOK' /\ Elsewhere
  BY <1>1 DEF IInv, Placed, TypeOK, Elsewhere
<1>. QED
  BY <1>2, ElsewhereInv

LEMMA AskTimeInv ==
  ASSUME IInv, NEW c \in Client, AskTime(c)
  PROVE  IInv'
<1>1. /\ UNCHANGED <<listenQ, typed, child, ppc, readmask, room, dropped>>
      /\ c \in TimeClient /\ cst[c] = "new" /\ cst' = [cst EXCEPT ![c] = "sent"]
      /\ timeQ' = Append(timeQ, c)
  BY DEF AskTime, parentVars
<1>2. cst \in [Client -> {"new", "connected", "sent", "answered", "gone"}]
      /\ timeQ \in Seq(TimeClient)
  BY DEF IInv, Placed, TypeOK
<1>3. \A d \in Client : d # c => cst'[d] = cst[d]
  BY <1>2, <1>1
<1>4. cst'[c] = "sent" /\ c \notin Connecting
  BY <1>1, <1>2, Ports
<1>5. TypeOK'
  <2>1. timeQ' \in Seq(TimeClient)
    BY <1>1, <1>2
  <2>. QED
    BY <1>1, <2>1 DEF IInv, Placed, TypeOK
<1>6. InLine' /\ InWork' /\ Unforked' /\ Selected'
  BY <1>1 DEF IInv, Placed, InLine, InWork, Unforked, Selected
<1>7. \A d : Waits(d)' = Waits(d) /\ Holders(d)' = Holders(d) /\ Kept(d)' = Kept(d)
  BY <1>1 DEF Waits, Holders, Kept
<1>8. OnePlace'
  BY <1>1, <1>3, <1>4, <1>7, Ports DEF IInv, Placed, OnePlace, AtOnePlace
<1>9. TimeLine'
  <2>1. Range(timeQ') = Range(timeQ) \cup {c} /\ (c \notin Range(timeQ) => IsInjective(timeQ'))
    BY <1>1, <1>2, AppendOnce DEF IInv, TimeLine
  <2>2. c \notin Range(timeQ) /\ \A d \in Range(timeQ) : d \in TimeClient
    BY <1>1, <1>2 DEF IInv, TimeLine, Range
  <2>. QED
    BY <1>3, <1>4, <2>1, <2>2, Ports DEF IInv, TimeLine
<1>10. Counted'
  <2>1. Settled' = Settled
    BY <1>1, <1>3, <1>4, <1>7, Ports DEF Settled
  <2>2. AtTime' = AtTime
    BY <1>1 DEF AtTime, Doing
  <2>3. {d \in Connecting : cst'[d] = "new"} = {d \in Connecting : cst[d] = "new"}
    BY <1>3, <1>4, Ports
  <2>4. EnoughRoom' <=> EnoughRoom
    BY <1>1, <2>3 DEF EnoughRoom
  <2>. QED
    BY <1>1, <2>1, <2>2, <2>4 DEF IInv, Counted
<1>. QED
  BY <1>5, <1>6, <1>8, <1>9, <1>10 DEF IInv, Placed

LEMMA ConnectInv ==
  ASSUME IInv, NEW c \in Client, Connect(c)
  PROVE  IInv'
<1>. DEFINE s == ServiceOf(c)
<1>1. /\ UNCHANGED <<timeQ, typed, child, ppc, readmask, room, dropped>>
      /\ c \in Connecting /\ cst[c] = "new" /\ cst' = [cst EXCEPT ![c] = "connected"]
      /\ listenQ' = [listenQ EXCEPT ![s] = Append(@, c)]
  BY DEF Connect, parentVars
<1>2. /\ cst \in [Client -> {"new", "connected", "sent", "answered", "gone"}]
      /\ listenQ \in [Port -> Seq(Connecting)] /\ s \in Port
  BY <1>1, Ports DEF IInv, Placed, TypeOK, Port
<1>3. /\ \A d \in Client : d # c => cst'[d] = cst[d]
      /\ cst'[c] = "connected" /\ c \notin TimeClient
  BY <1>1, <1>2, Ports
<1>4. /\ listenQ'[s] = Append(listenQ[s], c)
      /\ \A t \in Port : t # s => listenQ'[t] = listenQ[t]
  BY <1>1, <1>2
<1>5. ~Waits(c) /\ ~Kept(c) /\ c \notin dropped
  BY <1>1 DEF IInv, Placed, OnePlace, AtOnePlace
<1>6. /\ listenQ'[s] \in Seq(Connecting) /\ Len(listenQ'[s]) = Len(listenQ[s]) + 1
      /\ Range(listenQ'[s]) = Range(listenQ[s]) \cup {c} /\ IsInjective(listenQ'[s])
  <2>1. IsInjective(listenQ[s]) /\ c \notin Range(listenQ[s]) /\ listenQ[s] \in Seq(Connecting)
    BY <1>2, <1>5 DEF IInv, Placed, InLine, Waits
  <2>. QED
    BY <1>1, <1>4, <2>1, AppendOnce
<1>7. TypeOK'
  <2>1. listenQ' \in [{"echo", "who"} -> Seq(Connecting)]
    BY <1>1, <1>2, <1>6 DEF Port
  <2>. QED
    BY <1>1, <1>2, <2>1 DEF IInv, Placed, TypeOK
<1>8. InLine'
  BY <1>4, <1>6 DEF IInv, Placed, InLine
<1>9. InWork' /\ Unforked'
  BY <1>1 DEF IInv, Placed, InWork, Unforked
<1>10. Selected'
  <2>1. \A t \in Port : listenQ[t] # <<>> => listenQ'[t] # <<>>
    BY <1>2, <1>4
  <2>. QED
    BY <1>1, <2>1 DEF IInv, Placed, Selected
<1>11. /\ \A d \in Connecting : d # c => (Waits(d)' <=> Waits(d))
       /\ Waits(c)'
       /\ \A d : Holders(d)' = Holders(d) /\ (Kept(d)' <=> Kept(d))
  BY <1>1, <1>4, <1>6, Ports DEF Waits, Holders, Kept
<1>12. OnePlace'
  <2>1. ASSUME NEW d \in Connecting, d # c
        PROVE  AtOnePlace(d)'
    BY <1>1, <1>3, <1>11, <2>1, Ports DEF IInv, Placed, OnePlace, AtOnePlace
  <2>2. Waits(c)' /\ Holders(c)' = {} /\ ~Kept(c)' /\ c \notin dropped'
    BY <1>1, <1>5, <1>11 DEF Kept
  <2>. QED
    BY <1>3, <2>1, <2>2 DEF OnePlace, AtOnePlace
<1>13. TimeLine'
  <2>1. \A d \in Range(timeQ) : d \in TimeClient
    BY DEF IInv, Placed, TypeOK, Range
  <2>. QED
    BY <1>1, <1>3, <2>1, Ports DEF IInv, TimeLine
<1>14. Counted'
  <2>1. Settled' = Settled
    <3>1. c \notin Settled /\ c \notin Settled'
      BY <1>1, <1>3, <1>11 DEF Settled
    <3>2. \A d \in Client : d # c => (d \in Settled' <=> d \in Settled)
      BY <1>3, <1>11, Ports DEF Settled
    <3>3. Settled \subseteq Client /\ Settled' \subseteq Client
      BY Ports DEF Settled
    <3>. QED
      BY <3>1, <3>2, <3>3
  <2>2. AtTime' = AtTime
    BY <1>1 DEF AtTime, Doing
  <2>3. EnoughRoom' <=> EnoughRoom
    <3>. DEFINE N == {d \in Connecting : cst[d] = "new"}
                M == {d \in Connecting : cst'[d] = "new"}
    <3>1. M = N \ {c} /\ c \in N /\ N \in SUBSET Client
      BY <1>1, <1>3, Ports
    <3>. HIDE DEF M, N
    <3>2. Cardinality(M) = Cardinality(N) - 1 /\ Cardinality(N) \in Nat
      BY <3>1, ClientsFinite, FS_RemoveElement
    <3>. DEFINE e == Len(listenQ["echo"])
                w == Len(listenQ["who"])
                f == Len(listenQ'["echo"])
                v == Len(listenQ'["who"])
    <3>3. \/ f = e + 1 /\ v = w
          \/ f = e /\ v = w + 1
      <4>1. CASE s = "echo"
        BY <1>4, <1>6, <4>1 DEF Port
      <4>2. CASE s = "who"
        BY <1>4, <1>6, <4>2 DEF Port
      <4>. QED
        BY <1>2, <4>1, <4>2 DEF Port
    <3>4. e \in Nat /\ w \in Nat /\ room \in Nat
      BY <1>2 DEF IInv, Placed, TypeOK, Port
    <3>5. /\ EnoughRoom <=> Cardinality(N) + e + w <= room
          /\ EnoughRoom' <=> Cardinality(M) + f + v <= room
      BY <1>1 DEF EnoughRoom, M, N
    <3>. HIDE DEF e, w, f, v
    <3>. QED
      BY <3>2, <3>3, <3>4, <3>5
  <2>. QED
    BY <1>1, <2>1, <2>2, <2>3 DEF IInv, Counted
<1>. QED
  BY <1>7, <1>8, <1>9, <1>10, <1>12, <1>13, <1>14 DEF IInv, Placed

LEMMA SelectInv ==
  ASSUME IInv, Select
  PROVE  IInv'
<1>1. /\ UNCHANGED <<cst, timeQ, listenQ, typed, child, room, dropped>>
      /\ ppc' = "fork" /\ readmask' = readmask \cap Readable /\ readmask' # {}
  BY DEF Select, clientVars
<1>2. TypeOK'
  BY <1>1 DEF IInv, Placed, TypeOK
<1>3. InLine' /\ InWork' /\ Unforked' /\ TimeLine'
  BY <1>1 DEF IInv, Placed, InLine, InWork, Unforked, TimeLine
<1>4. Selected'
  <2>1. \A s \in Readable \cap Port : listenQ[s] # <<>>
    BY DEF Readable, Port
  <2>2. "stdin" \in Readable => typed
    BY DEF Readable
  <2>. QED
    BY <1>1, <2>1, <2>2 DEF Selected
<1>5. \A c : Waits(c)' = Waits(c) /\ Holders(c)' = Holders(c) /\ Kept(c)' = Kept(c)
  BY <1>1 DEF Waits, Holders, Kept
<1>6. OnePlace'
  BY <1>1, <1>5 DEF IInv, Placed, OnePlace, AtOnePlace
<1>7. Counted'
  <2>1. Settled' = Settled /\ AtTime' = AtTime
    BY <1>1, <1>5 DEF Settled, AtTime, Doing
  <2>2. EnoughRoom' <=> EnoughRoom
    BY <1>1 DEF EnoughRoom
  <2>. QED
    BY <1>1, <2>1, <2>2 DEF IInv, Counted
<1>. QED
  BY <1>2, <1>3, <1>4, <1>6, <1>7 DEF IInv, Placed

-----------------------------------------------------------------------------
(* A child that has finished the first of its services.                    *)
Finished(k, h) ==
  /\ k \in DOMAIN child /\ child[k] # <<>> /\ Head(child[k]) = h
  /\ child' = [child EXCEPT ![k] = Tail(@)]

LEMMA FinishedChild ==
  ASSUME TypeOK, InWork, NEW k, NEW h, Finished(k, h)
  PROVE  /\ child' \in Seq(Seq({"time"} \cup Connecting))
         /\ Len(child') = Len(child) /\ InWork'
         /\ \A c : c # h => Holders(c)' = Holders(c)
         /\ Holders(h)' = Holders(h) \ {k} /\ k \in Holders(h)
         /\ AtTime \ {k} \subseteq AtTime'
<1>. DEFINE S == {"time"} \cup Connecting
<1>1. /\ child \in Seq(Seq(S)) /\ k \in DOMAIN child /\ child[k] \in Seq(S)
      /\ child[k] # <<>> /\ Head(child[k]) = h
  BY DEF TypeOK, Finished
<1>2. /\ Tail(child[k]) \in Seq(S) /\ h \in Range(child[k])
      /\ Range(child[k]) = Range(Tail(child[k])) \cup {h}
      /\ IsInjective(Tail(child[k])) /\ h \notin Range(Tail(child[k]))
  BY <1>1, TailOnce DEF InWork
<1>3. /\ DOMAIN child' = DOMAIN child /\ child'[k] = Tail(child[k])
      /\ \A l \in DOMAIN child : l # k => child'[l] = child[l]
      /\ Len(child') = Len(child) /\ child' \in Seq(Seq(S))
  BY <1>1, <1>2 DEF Finished
<1>. HIDE DEF S
<1>4. InWork'
  BY <1>2, <1>3 DEF InWork
<1>5. \A l \in DOMAIN child : \A c :
        c \in Range(child'[l]) <=> (c \in Range(child[l]) /\ ~(l = k /\ c = h))
  BY <1>2, <1>3
<1>6. \A c : c # h => Holders(c)' = Holders(c)
  BY <1>3, <1>5 DEF Holders
<1>7. Holders(h)' = Holders(h) \ {k} /\ k \in Holders(h)
  BY <1>1, <1>2, <1>3, <1>5 DEF Holders
<1>8. AtTime \ {k} \subseteq AtTime'
  BY <1>3 DEF AtTime, Doing
<1>. QED
  BY <1>3, <1>4, <1>6, <1>7, <1>8 DEF S

LEMMA TimeServiceInv ==
  ASSUME IInv, NEW k \in DOMAIN child, TimeService(k)
  PROVE  IInv'
<1>. DEFINE h == Head(timeQ)
<1>1. /\ UNCHANGED <<listenQ, typed, ppc, readmask, room, dropped>>
      /\ Doing(k) = "time" /\ timeQ # <<>> /\ timeQ' = Tail(timeQ)
      /\ cst' = [cst EXCEPT ![h] = "answered"] /\ child' = [child EXCEPT ![k] = Tail(@)]
  BY DEF TimeService, parentVars
<1>2. Finished(k, "time") /\ k \in AtTime
  BY <1>1 DEF Finished, Doing, AtTime
<1>3. /\ cst \in [Client -> {"new", "connected", "sent", "answered", "gone"}]
      /\ timeQ \in Seq(TimeClient) /\ TypeOK /\ InWork
  BY DEF IInv, Placed, TypeOK
<1>4. /\ child' \in Seq(Seq({"time"} \cup Connecting)) /\ Len(child') = Len(child) /\ InWork'
      /\ \A c \in Connecting : Holders(c)' = Holders(c)
      /\ AtTime \ {k} \subseteq AtTime'
  BY <1>2, <1>3, FinishedChild, SuperServerAssumption DEF Connecting
<1>5. /\ timeQ' \in Seq(TimeClient) /\ h \in TimeClient /\ h \in Range(timeQ)
      /\ Range(timeQ) = Range(timeQ') \cup {h} /\ IsInjective(timeQ') /\ h \notin Range(timeQ')
  BY <1>1, <1>3, TailOnce DEF IInv, TimeLine
<1>6. /\ \A c \in Client : c # h => cst'[c] = cst[c]
      /\ cst'[h] = "answered" /\ cst[h] = "sent" /\ h \notin Connecting
  BY <1>1, <1>3, <1>5, Ports DEF IInv, TimeLine
<1>. HIDE DEF h
<1>7. TypeOK'
  BY <1>1, <1>3, <1>4, <1>5 DEF TypeOK
<1>8. InLine' /\ Unforked' /\ Selected'
  BY <1>1, <1>4 DEF IInv, Placed, InLine, Unforked, Selected
<1>9. \A c : Waits(c)' = Waits(c)
  BY <1>1 DEF Waits
<1>10. OnePlace'
  BY <1>1, <1>4, <1>6, <1>9, Ports DEF IInv, Placed, OnePlace, AtOnePlace, Kept
<1>11. TimeLine'
  <2>1. \A c \in Range(timeQ) : c \in TimeClient
    BY <1>3 DEF Range
  <2>2. \A c \in Range(timeQ') : c # h /\ c \in Range(timeQ) /\ c \in Client
    BY <1>5, <2>1, Ports
  <2>. QED
    BY <1>5, <1>6, <2>2 DEF IInv, TimeLine
<1>12. Counted'
  <2>1. Settled' = Settled \cup {h} /\ h \notin Settled /\ Settled \in SUBSET Client
    BY <1>5, <1>6, <1>9, Ports DEF Settled
  <2>2. Cardinality(Settled') = Cardinality(Settled) + 1 /\ Cardinality(Settled) \in Nat
    BY <2>1, ClientsFinite, FS_AddElement
  <2>3. /\ IsFiniteSet(AtTime) /\ Cardinality(AtTime) \in Nat
        /\ IsFiniteSet(AtTime') /\ Cardinality(AtTime') \in Nat
    BY <1>3, <1>7, TimeFinite
  <2>4. Cardinality(AtTime) - 1 <= Cardinality(AtTime')
    <3>1. Cardinality(AtTime \ {k}) = Cardinality(AtTime) - 1
      BY <1>2, <2>3, FS_RemoveElement
    <3>2. Cardinality(AtTime \ {k}) <= Cardinality(AtTime')
      BY <1>4, <2>3, FS_Subset
    <3>. QED
      BY <3>1, <3>2
  <2>5. EnoughRoom' <=> EnoughRoom
    <3>1. {c \in Connecting : cst'[c] = "new"} = {c \in Connecting : cst[c] = "new"}
      BY <1>6, Ports
    <3>. QED
      BY <1>1, <3>1 DEF EnoughRoom
  <2>6. Len(child) \in Nat
    BY <1>3 DEF TypeOK
  <2>. QED
    BY <1>1, <1>4, <2>2, <2>3, <2>4, <2>5, <2>6 DEF IInv, Counted
<1>. QED
  BY <1>4, <1>7, <1>8, <1>10, <1>11, <1>12 DEF IInv, Placed

LEMMA ConnectionServiceInv ==
  ASSUME IInv, NEW k \in DOMAIN child, ConnectionService(k)
  PROVE  IInv'
<1>1. PICK c \in Connecting :
        /\ UNCHANGED <<timeQ, listenQ, typed, ppc, readmask, room, dropped>>
        /\ Doing(k) = c /\ cst[c] \in {"sent", "gone"} /\ Reply(c)
        /\ child' = [child EXCEPT ![k] = Tail(@)]
  BY DEF ConnectionService, parentVars
<1>2. Finished(k, c) /\ k \notin AtTime
  BY <1>1, SuperServerAssumption DEF Finished, Doing, AtTime, Connecting
<1>3. /\ cst \in [Client -> {"new", "connected", "sent", "answered", "gone"}]
      /\ TypeOK /\ InWork
  BY DEF IInv, Placed, TypeOK
<1>4. /\ child' \in Seq(Seq({"time"} \cup Connecting)) /\ Len(child') = Len(child) /\ InWork'
      /\ \A d : d # c => Holders(d)' = Holders(d)
      /\ Holders(c)' = Holders(c) \ {k} /\ k \in Holders(c)
      /\ AtTime \subseteq AtTime'
  BY <1>2, <1>3, FinishedChild
<1>5. Holders(c)' = {} /\ ~Waits(c) /\ c \notin dropped
  BY <1>4 DEF IInv, Placed, OnePlace, AtOnePlace, Kept
<1>6. /\ \A d \in Client : d # c => cst'[d] = cst[d]
      /\ cst'[c] \in {"answered", "gone"} /\ c \in Client /\ c \notin TimeClient
      /\ cst' \in [Client -> {"new", "connected", "sent", "answered", "gone"}]
  BY <1>1, <1>3, Ports DEF Reply
<1>7. TypeOK'
  BY <1>1, <1>3, <1>4, <1>6 DEF TypeOK
<1>8. InLine' /\ Unforked' /\ Selected'
  BY <1>1, <1>4 DEF IInv, Placed, InLine, Unforked, Selected
<1>9. \A d : Waits(d)' <=> Waits(d)
  BY <1>1 DEF Waits
<1>10. OnePlace'
  <2>1. ASSUME NEW d \in Connecting, d # c
        PROVE  AtOnePlace(d)'
    <3>1. /\ Waits(d)' <=> Waits(d)
          /\ Holders(d)' = Holders(d) /\ (Kept(d)' <=> Kept(d))
          /\ cst'[d] = cst[d] /\ dropped' = dropped
      BY <1>1, <1>4, <1>6, <1>9, <2>1, Ports DEF Kept
    <3>. QED
      BY <2>1, <3>1 DEF IInv, Placed, OnePlace, AtOnePlace
  <2>2. ~Waits(c)' /\ Holders(c)' = {} /\ ~Kept(c)' /\ c \notin dropped'
    BY <1>1, <1>5, <1>9 DEF Kept
  <2>. QED
    BY <1>6, <2>1, <2>2 DEF OnePlace, AtOnePlace
<1>11. TimeLine'
  <2>1. \A d \in Range(timeQ) : d \in TimeClient
    BY DEF IInv, Placed, TypeOK, Range
  <2>. QED
    BY <1>1, <1>6, <2>1, Ports DEF IInv, TimeLine
<1>12. Counted'
  <2>1. Settled' = Settled
    BY <1>1, <1>6, <1>9, Ports DEF Settled
  <2>2. /\ IsFiniteSet(AtTime) /\ Cardinality(AtTime) \in Nat
        /\ IsFiniteSet(AtTime') /\ Cardinality(AtTime') \in Nat
    BY <1>3, <1>7, TimeFinite
  <2>3. Cardinality(AtTime) <= Cardinality(AtTime')
    BY <1>4, <2>2, FS_Subset
  <2>4. EnoughRoom' <=> EnoughRoom
    <3>1. {d \in Connecting : cst'[d] = "new"} = {d \in Connecting : cst[d] = "new"}
      BY <1>1, <1>6, Ports
    <3>. QED
      BY <1>1, <3>1 DEF EnoughRoom
  <2>5. Len(child) \in Nat /\ Settled \in SUBSET Client
    BY <1>3, Ports DEF TypeOK, Settled
  <2>6. Cardinality(Settled) \in Nat
    BY <2>5, ClientsFinite
  <2>. QED
    BY <1>1, <1>4, <2>1, <2>2, <2>3, <2>4, <2>5, <2>6 DEF IInv, Counted
<1>. QED
  BY <1>4, <1>7, <1>8, <1>10, <1>11, <1>12 DEF IInv, Placed

-----------------------------------------------------------------------------
(* What the parent takes in one round of its loop. *)

LEMMA PortCardinality ==
  ASSUME NEW S \in SUBSET Port
  PROVE  /\ IsFiniteSet(S)
         /\ Cardinality(S) = (IF "echo" \in S THEN 1 ELSE 0) + (IF "who" \in S THEN 1 ELSE 0)
<1>1. IsFiniteSet({"echo"}) /\ Cardinality({"echo"}) = 1
  BY FS_Singleton
<1>2. IsFiniteSet({"who"}) /\ Cardinality({"who"}) = 1
  BY FS_Singleton
<1>3. IsFiniteSet({"echo"} \cup {"who"}) /\ Cardinality({"echo"} \cup {"who"}) = 2
  BY <1>1, FS_AddElement
<1>4. IsFiniteSet({}) /\ Cardinality({}) = 0
  BY FS_EmptySet
<1>5. CASE "echo" \in S /\ "who" \in S
  <2>1. S = {"echo"} \cup {"who"}
    BY <1>5 DEF Port
  <2>. QED
    BY <1>3, <1>5, <2>1
<1>6. CASE "echo" \in S /\ "who" \notin S
  <2>1. S = {"echo"}
    BY <1>6 DEF Port
  <2>. QED
    BY <1>1, <1>6, <2>1
<1>7. CASE "echo" \notin S /\ "who" \in S
  <2>1. S = {"who"}
    BY <1>7 DEF Port
  <2>. QED
    BY <1>2, <1>7, <2>1
<1>8. CASE "echo" \notin S /\ "who" \notin S
  <2>1. S = {}
    BY <1>8 DEF Port
  <2>. QED
    BY <1>4, <1>8, <2>1
<1>. QED
  BY <1>5, <1>6, <1>7, <1>8

LEMMA TakenPorts ==
  ASSUME TypeOK, Selected, ppc = "fork"
  PROVE  /\ Taken \subseteq readmask \cap Port /\ \A s \in Taken : listenQ[s] # <<>>
         /\ IsFiniteSet(Taken) /\ Cardinality(Taken) \in Nat /\ Cardinality(Taken) <= room
<1>1. Taken \subseteq readmask \cap Port /\ room \in Nat
  BY DEF Taken, TypeOK, Service, Port
<1>2. \A s \in Taken : listenQ[s] # <<>>
  BY <1>1 DEF Selected
<1>3. IsFiniteSet(Taken) /\ Cardinality(Taken) \in Nat
  <2>1. Taken \in SUBSET Port
    BY <1>1
  <2>. QED
    BY <2>1, PortCardinality, FS_CardinalityType
<1>4. Cardinality(Taken) <= room
  <2>1. CASE Taken = {}
    BY <1>1, <2>1, FS_EmptySet
  <2>2. ASSUME NEW s \in Taken, Taken \subseteq {"echo", s}
        PROVE  Cardinality(Taken) <= room
    <3>1. Taken \subseteq readmask \cap {"echo", s} /\ readmask \cap {"echo", s} \in SUBSET Port
      BY <1>1, <2>2 DEF Port
    <3>2. Cardinality(readmask \cap {"echo", s}) <= room
      BY DEF Taken
    <3>3. /\ IsFiniteSet(readmask \cap {"echo", s})
          /\ Cardinality(readmask \cap {"echo", s}) \in Nat
      BY <3>1, PortCardinality, FS_CardinalityType
    <3>4. Cardinality(Taken) <= Cardinality(readmask \cap {"echo", s})
      BY <3>1, <3>3, FS_Subset
    <3>. QED
      BY <1>1, <1>3, <3>2, <3>3, <3>4
  <2>3. Taken # {} => \E s \in Taken : Taken \subseteq {"echo", s}
    <3>1. CASE "who" \in Taken
      BY <1>1, <3>1 DEF Port
    <3>2. CASE "who" \notin Taken
      BY <1>1, <3>2 DEF Port
    <3>. QED
      BY <3>1, <3>2
  <2>. QED
    BY <2>1, <2>2, <2>3
<1>. QED
  BY <1>1, <1>2, <1>3, <1>4

(* The connection at the head of a queue that is taken.                    *)
Moved(c) == ServiceOf(c) \in Taken /\ c = Head(listenQ[ServiceOf(c)])

LEMMA AcceptedOnes ==
  ASSUME TypeOK, InLine, Selected, ppc = "fork", NEW s \in Port
  PROVE  /\ Accepted(s) \in Seq({"time"} \cup Connecting) /\ IsInjective(Accepted(s))
         /\ \A c : c \in Range(Accepted(s)) <=> (s \in Taken /\ c = Head(listenQ[s]))
         /\ s \in Taken => Head(listenQ[s]) \in Connecting /\ ServiceOf(Head(listenQ[s])) = s
<1>1. CASE s \in Taken
  <2>. DEFINE h == Head(listenQ[s])
  <2>1. listenQ[s] \in Seq(Connecting) /\ listenQ[s] # <<>>
    BY <1>1, TakenPorts DEF TypeOK, Port
  <2>2. h \in Connecting /\ h \in Range(listenQ[s])
    BY <2>1, TailOnce
  <2>3. ServiceOf(h) = s
    BY <2>2 DEF InLine
  <2>4. Accepted(s) = <<h>>
    BY <1>1 DEF Accepted
  <2>. HIDE DEF h
  <2>5. /\ <<h>> \in Seq({"time"} \cup Connecting) /\ IsInjective(<<h>>)
        /\ \A c : c \in Range(<<h>>) <=> c = h
    BY <2>2 DEF IsInjective, Range
  <2>. QED
    BY <1>1, <2>2, <2>3, <2>4, <2>5 DEF h
<1>2. CASE s \notin Taken
  <2>1. Accepted(s) = <<>>
    BY <1>2 DEF Accepted
  <2>. QED
    BY <1>2, <2>1 DEF IsInjective, Range
<1>. QED
  BY <1>1, <1>2

LEMMA TodoOnce ==
  ASSUME TypeOK, InLine, Selected, ppc = "fork"
  PROVE  /\ Todo \in Seq({"time"} \cup Connecting) /\ IsInjective(Todo)
         /\ \A c \in Connecting : c \in Range(Todo) <=> Moved(c)
         /\ "time" \in readmask => Todo # <<>> /\ Head(Todo) = "time"
<1>. DEFINE S == {"time"} \cup Connecting
            p == IF "time" \in readmask THEN <<"time">> ELSE <<>>
            e == Accepted("echo")
            w == Accepted("who")
            pe == p \o e
<1>1. /\ p \in Seq(S) /\ IsInjective(p)
      /\ \A c : c \in Range(p) <=> ("time" \in readmask /\ c = "time")
      /\ "time" \in readmask => p # <<>> /\ Head(p) = "time"
  <2>1. CASE "time" \in readmask
    BY <2>1 DEF IsInjective, Range
  <2>2. CASE "time" \notin readmask
    BY <2>2 DEF IsInjective, Range
  <2>. QED
    BY <2>1, <2>2
<1>2. /\ e \in Seq(S) /\ IsInjective(e)
      /\ \A c : c \in Range(e) <=> ("echo" \in Taken /\ c = Head(listenQ["echo"]))
      /\ "echo" \in Taken => /\ Head(listenQ["echo"]) \in Connecting
                             /\ ServiceOf(Head(listenQ["echo"])) = "echo"
  BY AcceptedOnes DEF Port
<1>3. /\ w \in Seq(S) /\ IsInjective(w)
      /\ \A c : c \in Range(w) <=> ("who" \in Taken /\ c = Head(listenQ["who"]))
      /\ "who" \in Taken => /\ Head(listenQ["who"]) \in Connecting
                            /\ ServiceOf(Head(listenQ["who"])) = "who"
  BY AcceptedOnes DEF Port
<1>4. Todo = pe \o w
  BY DEF Todo
<1>. HIDE DEF S, p, e, w
<1>5. Range(p) \cap Range(e) = {} /\ (Range(p) \cup Range(e)) \cap Range(w) = {}
  BY <1>1, <1>2, <1>3, SuperServerAssumption DEF Connecting
<1>6. /\ pe \in Seq(S) /\ Range(pe) = Range(p) \cup Range(e) /\ IsInjective(pe)
      /\ p # <<>> => pe # <<>> /\ Head(pe) = Head(p)
  BY <1>1, <1>2, <1>5, ConcatOnce
<1>. HIDE DEF pe
<1>7. /\ Todo \in Seq(S) /\ Range(Todo) = Range(p) \cup Range(e) \cup Range(w) /\ IsInjective(Todo)
      /\ p # <<>> => Todo # <<>> /\ Head(Todo) = Head(p)
  <2>1. Range(pe) \cap Range(w) = {}
    BY <1>5, <1>6
  <2>2. /\ pe \o w \in Seq(S) /\ Range(pe \o w) = Range(pe) \cup Range(w) /\ IsInjective(pe \o w)
        /\ pe # <<>> => pe \o w # <<>> /\ Head(pe \o w) = Head(pe)
    BY <1>3, <1>6, <2>1, ConcatOnce
  <2>. QED
    BY <1>4, <1>6, <2>2
<1>8. ASSUME NEW c \in Connecting PROVE c \in Range(Todo) <=> Moved(c)
  <2>1. c \notin Range(p) /\ ServiceOf(c) \in Port
    BY <1>1, SuperServerAssumption, Ports DEF Connecting
  <2>2. c \in Range(Todo) <=> \/ "echo" \in Taken /\ c = Head(listenQ["echo"])
                              \/ "who" \in Taken /\ c = Head(listenQ["who"])
    BY <1>2, <1>3, <1>7, <2>1
  <2>. QED
    BY <1>2, <1>3, <2>1, <2>2 DEF Moved, Port
<1>. QED
  BY <1>1, <1>7, <1>8 DEF S

(* What a round does to the queues, whether or not there is a child then.  *)
Moving ==
  /\ ppc = "fork" /\ ppc' = "select" /\ readmask' = readmask \cup Service
  /\ listenQ' = [s \in {"echo", "who"} |->
                   IF s \in Taken THEN Tail(listenQ[s]) ELSE listenQ[s]]
  /\ room' = room - Cardinality(Taken)
  /\ UNCHANGED <<cst, typed, timeQ>>

LEMMA MovedQueues ==
  ASSUME TypeOK, InLine, Selected, Moving
  PROVE  /\ listenQ' \in [{"echo", "who"} -> Seq(Connecting)] /\ InLine'
         /\ \A c \in Connecting : /\ Waits(c)' <=> Waits(c) /\ ~Moved(c)
                                  /\ Moved(c) => Waits(c)
         /\ room' \in Nat /\ (EnoughRoom' <=> EnoughRoom)
<1>1. /\ Taken \subseteq Port /\ Cardinality(Taken) \in Nat /\ Cardinality(Taken) <= room
      /\ room \in Nat /\ \A s \in Taken : listenQ[s] # <<>>
  BY TakenPorts DEF Moving, TypeOK
<1>2. ASSUME NEW s \in Port
      PROVE  /\ listenQ'[s] \in Seq(Connecting) /\ IsInjective(listenQ'[s])
             /\ \A c : c \in Range(listenQ'[s]) <=>
                         c \in Range(listenQ[s]) /\ ~(s \in Taken /\ c = Head(listenQ[s]))
             /\ s \in Taken => Head(listenQ[s]) \in Range(listenQ[s])
             /\ Len(listenQ[s]) \in Nat
             /\ Len(listenQ'[s]) = IF s \in Taken THEN Len(listenQ[s]) - 1 ELSE Len(listenQ[s])
  <2>1. listenQ[s] \in Seq(Connecting) /\ IsInjective(listenQ[s]) /\ Len(listenQ[s]) \in Nat
    BY DEF TypeOK, InLine, Port
  <2>2. CASE s \in Taken
    <3>1. listenQ'[s] = Tail(listenQ[s])
      BY <2>2 DEF Moving, Port
    <3>. QED
      BY <1>1, <2>1, <2>2, <3>1, TailOnce
  <2>3. CASE s \notin Taken
    <3>1. listenQ'[s] = listenQ[s]
      BY <2>3 DEF Moving, Port
    <3>. QED
      BY <2>1, <2>3, <3>1
  <2>. QED
    BY <2>2, <2>3
<1>3. listenQ' \in [{"echo", "who"} -> Seq(Connecting)]
  BY <1>2 DEF Moving, Port
<1>4. InLine'
  BY <1>2 DEF InLine
<1>5. ASSUME NEW c \in Connecting
      PROVE  /\ Waits(c)' <=> Waits(c) /\ ~Moved(c)
             /\ Moved(c) => Waits(c)
  BY <1>2, Ports DEF Waits, Moved
<1>6. EnoughRoom' <=> EnoughRoom
  <2>. DEFINE N == {d \in Connecting : cst[d] = "new"}
              e == Len(listenQ["echo"])
              w == Len(listenQ["who"])
              f == Len(listenQ'["echo"])
              v == Len(listenQ'["who"])
  <2>1. Cardinality(Taken) = (IF "echo" \in Taken THEN 1 ELSE 0)
                               + (IF "who" \in Taken THEN 1 ELSE 0)
    BY <1>1, PortCardinality
  <2>2. /\ e \in Nat /\ f = IF "echo" \in Taken THEN e - 1 ELSE e
        /\ w \in Nat /\ v = IF "who" \in Taken THEN w - 1 ELSE w
    BY <1>2 DEF Port
  <2>3. N \in SUBSET Client
    BY Ports
  <2>4. Cardinality(N) \in Nat
    BY <2>3, ClientsFinite
  <2>5. /\ EnoughRoom <=> Cardinality(N) + e + w <= room
        /\ EnoughRoom' <=> Cardinality(N) + f + v <= room - Cardinality(Taken)
    BY DEF EnoughRoom, Moving
  <2>. HIDE DEF N, e, w, f, v
  <2>6. f + v = e + w - Cardinality(Taken) /\ f \in Int /\ v \in Int
    BY <2>1, <2>2
  <2>7. Cardinality(N) + f + v <= room - Cardinality(Taken) <=> Cardinality(N) + e + w <= room
    <3>1. Cardinality(Taken) \in Nat /\ room \in Nat
      BY <1>1
    <3>. QED
      BY <2>2, <2>4, <2>6, <3>1
  <2>. QED
    BY <2>5, <2>7
<1>. QED
  BY <1>1, <1>3, <1>4, <1>5, <1>6 DEF Moving

(* With descriptors enough and nobody at the terminal there is a reason    *)
(* for every round.                                                        *)
LEMMA Reason ==
  ASSUME TypeOK, InLine, Selected, ppc = "fork", ~typed, EnoughRoom, "time" \notin readmask
  PROVE  \E c \in Connecting : Moved(c)
<1>1. readmask \subseteq Port /\ readmask # {}
  BY DEF TypeOK, Selected, Service, Port
<1>2. PICK s \in Port : s \in readmask /\ readmask \cap {"echo", s} = {s}
  <2>1. CASE "echo" \in readmask
    BY <2>1 DEF Port
  <2>2. CASE "echo" \notin readmask
    BY <1>1, <2>2 DEF Port
  <2>. QED
    BY <2>1, <2>2
<1>3. room >= 1
  <2>. DEFINE N == {d \in Connecting : cst[d] = "new"}
              e == Len(listenQ["echo"])
              w == Len(listenQ["who"])
  <2>1. N \in SUBSET Client
    BY Ports
  <2>2. Cardinality(N) \in Nat
    BY <2>1, ClientsFinite
  <2>3. /\ e \in Nat /\ w \in Nat /\ room \in Nat
        /\ e >= 1 \/ w >= 1
    <3>1. listenQ["echo"] \in Seq(Connecting) /\ listenQ["who"] \in Seq(Connecting)
      BY DEF TypeOK
    <3>2. listenQ[s] # <<>> /\ (s = "echo" \/ s = "who")
      BY <1>2 DEF Selected, Port
    <3>3. room \in Nat
      BY DEF TypeOK
    <3>. QED
      BY <3>1, <3>2, <3>3
  <2>4. Cardinality(N) + e + w <= room
    BY DEF EnoughRoom
  <2>. HIDE DEF N, e, w
  <2>. QED
    BY <2>2, <2>3, <2>4
<1>4. s \in Taken
  <2>1. Cardinality(readmask \cap {"echo", s}) = 1
    BY <1>2, FS_Singleton
  <2>2. s \in readmask \ {"time", "stdin"}
    BY <1>2 DEF Port
  <2>3. Cardinality(readmask \cap {"echo", s}) <= room
    BY <1>3, <2>1
  <2>. QED
    BY <2>2, <2>3 DEF Taken
<1>. QED
  BY <1>4, AcceptedOnes DEF Moved

LEMMA RoundInv ==
  ASSUME TypeOK, InLine, InWork, Selected, TimeLine, Moving
  PROVE  /\ cst' \in [Client -> {"new", "connected", "sent", "answered", "gone"}]
         /\ timeQ' \in Seq(TimeClient) /\ typed' \in BOOLEAN /\ ppc' \in {"select", "fork"}
         /\ readmask' \subseteq Service \cup {"stdin"}
         /\ listenQ' \in [{"echo", "who"} -> Seq(Connecting)] /\ room' \in Nat
         /\ InLine' /\ Selected' /\ TimeLine'
<1>1. Selected' /\ TimeLine'
  BY DEF Moving, Selected, TimeLine
<1>. QED
  BY <1>1, MovedQueues DEF TypeOK, Moving

LEMMA ForkedInv ==
  ASSUME IInv, Moving, Len(child) < MaxProc, child' = Append(child, Todo), dropped' = dropped
  PROVE  IInv'
<1>. DEFINE n == Len(child) + 1
            S == Seq({"time"} \cup Connecting)
<1>1. /\ TypeOK /\ InLine /\ InWork /\ Selected /\ TimeLine /\ ppc = "fork" /\ cst' = cst
      /\ typed' = typed /\ timeQ' = timeQ
  BY DEF IInv, Placed, Moving
<1>2. /\ Todo \in S /\ IsInjective(Todo)
      /\ \A c \in Connecting : c \in Range(Todo) <=> Moved(c)
      /\ "time" \in readmask => Todo # <<>> /\ Head(Todo) = "time"
  BY <1>1, TodoOnce
<1>3. child \in Seq(S) /\ Len(child) \in Nat /\ MaxProc \in Nat
  BY <1>1, SuperServerAssumption DEF TypeOK
<1>. HIDE DEF S
<1>4. /\ child' \in Seq(S) /\ Len(child') = n /\ DOMAIN child' = DOMAIN child \cup {n}
      /\ n \notin DOMAIN child /\ child'[n] = Todo
      /\ \A k \in DOMAIN child : child'[k] = child[k]
  BY <1>2, <1>3
<1>5. TypeOK'
  <2>1. Len(child') <= MaxProc
    BY <1>3, <1>4
  <2>2. dropped' \subseteq Connecting
    BY <1>1 DEF TypeOK
  <2>. QED
    BY <1>1, <1>4, <2>1, <2>2, RoundInv DEF TypeOK, S
<1>6. InWork'
  BY <1>1, <1>2, <1>4 DEF InWork
<1>7. dropped = {}
  BY <1>3 DEF IInv, Placed, Unforked
<1>8. Unforked' /\ InLine' /\ Selected' /\ TimeLine'
  BY <1>1, <1>7, RoundInv DEF Unforked
<1>9. OnePlace'
  <2>1. ASSUME NEW c \in Connecting PROVE AtOnePlace(c)'
    <3>1. /\ Waits(c)' <=> Waits(c) /\ ~Moved(c)
          /\ Moved(c) => Waits(c)
      BY <1>1, MovedQueues
    <3>2. Holders(c)' = Holders(c) \cup (IF Moved(c) THEN {n} ELSE {})
      BY <1>2, <1>4 DEF Holders
    <3>3. AtOnePlace(c) /\ c \notin dropped'
      BY <1>7 DEF IInv, Placed, OnePlace
    <3>4. CASE Moved(c)
      <4>1. Holders(c)' = {n} /\ ~Waits(c)' /\ cst'[c] \notin {"new", "answered"}
        BY <1>1, <3>1, <3>2, <3>3, <3>4 DEF AtOnePlace, Kept
      <4>. QED
        BY <3>3, <4>1 DEF AtOnePlace, Kept
    <3>5. CASE ~Moved(c)
      <4>1. Holders(c)' = Holders(c) /\ (Waits(c)' <=> Waits(c))
        BY <3>1, <3>2, <3>5
      <4>. QED
        BY <1>1, <1>7, <3>3, <4>1 DEF AtOnePlace, Kept
    <3>. QED
      BY <3>4, <3>5
  <2>. QED
    BY <2>1 DEF OnePlace
<1>10. Counted'
  <2>. SUFFICES ASSUME ~typed', EnoughRoom'
                PROVE  Len(child') <= Cardinality(AtTime') + Cardinality(Settled')
    BY DEF Counted
  <2>1. ~typed /\ EnoughRoom
    BY <1>1, MovedQueues
  <2>2. Len(child) <= Cardinality(AtTime) + Cardinality(Settled)
    BY <2>1 DEF IInv, Counted
  <2>3. /\ Settled \subseteq Settled' /\ Settled' \in SUBSET Client /\ Settled \in SUBSET Client
        /\ \A c \in Connecting : Moved(c) => c \in Settled' \ Settled
    <3>1. \A c \in Connecting : /\ Waits(c)' <=> Waits(c) /\ ~Moved(c)
                                /\ Moved(c) => Waits(c)
      BY <1>1, MovedQueues
    <3>2. \A c \in Connecting : Waits(c) => cst[c] # "new"
      BY DEF IInv, Placed, OnePlace, AtOnePlace
    <3>3. Settled' \in SUBSET Client /\ Settled \in SUBSET Client
      BY Ports DEF Settled
    <3>4. Settled \subseteq Settled'
      BY <1>1, <3>1 DEF Settled
    <3>5. \A c \in Connecting : Moved(c) => c \in Settled' /\ c \notin Settled
      BY <1>1, <3>1, <3>2, Ports DEF Settled
    <3>. QED
      BY <3>3, <3>4, <3>5
  <2>4. /\ IsFiniteSet(Settled) /\ Cardinality(Settled) \in Nat
        /\ IsFiniteSet(Settled') /\ Cardinality(Settled') \in Nat
        /\ IsFiniteSet(AtTime) /\ Cardinality(AtTime) \in Nat
        /\ IsFiniteSet(AtTime') /\ Cardinality(AtTime') \in Nat
    BY <1>1, <1>5, <2>3, ClientsFinite, TimeFinite
  <2>5. Cardinality(Settled) <= Cardinality(Settled')
    BY <2>3, <2>4, FS_Subset
  <2>6. AtTime \subseteq AtTime'
    BY <1>4 DEF AtTime, Doing
  <2>7. Cardinality(AtTime) <= Cardinality(AtTime')
    BY <2>4, <2>6, FS_Subset
  <2>8. CASE "time" \in readmask
    <3>1. AtTime \cup {n} \subseteq AtTime' /\ n \notin AtTime
      BY <1>2, <1>4, <2>6, <2>8 DEF AtTime, Doing
    <3>2. Cardinality(AtTime) + 1 <= Cardinality(AtTime')
      <4>1. Cardinality(AtTime \cup {n}) = Cardinality(AtTime) + 1
        BY <2>4, <3>1, FS_AddElement
      <4>2. Cardinality(AtTime \cup {n}) <= Cardinality(AtTime')
        BY <2>4, <3>1, FS_Subset
      <4>. QED
        BY <4>1, <4>2
    <3>. QED
      BY <1>3, <1>4, <2>2, <2>4, <2>5, <3>2
  <2>9. CASE "time" \notin readmask
    <3>1. PICK c \in Connecting : Moved(c)
      BY <1>1, <2>1, <2>9, Reason
    <3>2. Cardinality(Settled) + 1 <= Cardinality(Settled')
      <4>1. Cardinality(Settled \cup {c}) = Cardinality(Settled) + 1
        BY <2>3, <2>4, <3>1, FS_AddElement
      <4>2. Cardinality(Settled \cup {c}) <= Cardinality(Settled')
        BY <2>3, <2>4, <3>1, FS_Subset
      <4>. QED
        BY <4>1, <4>2
    <3>. QED
      BY <1>3, <1>4, <2>2, <2>4, <2>7, <3>2
  <2>. QED
    BY <2>8, <2>9
<1>. QED
  BY <1>5, <1>6, <1>8, <1>9, <1>10 DEF IInv, Placed

LEMMA UnforkedInv ==
  ASSUME IInv, Moving, Len(child) = MaxProc, child' = child,
         dropped' = dropped \cup {Todo[j] : j \in {j \in DOMAIN Todo : Todo[j] # "time"}}
  PROVE  IInv'
<1>1. /\ TypeOK /\ InLine /\ InWork /\ Selected /\ TimeLine /\ ppc = "fork" /\ cst' = cst
      /\ typed' = typed /\ timeQ' = timeQ
  BY DEF IInv, Placed, Moving
<1>2. dropped' = dropped \cup {c \in Connecting : Moved(c)}
  <2>1. /\ Todo \in Seq({"time"} \cup Connecting)
        /\ \A c \in Connecting : c \in Range(Todo) <=> Moved(c)
    BY <1>1, TodoOnce
  <2>2. \A j \in DOMAIN Todo : Todo[j] = "time" \/ Todo[j] \in Connecting
    BY <2>1
  <2>3. "time" \notin Connecting
    BY SuperServerAssumption DEF Connecting
  <2>4. ASSUME NEW c PROVE c \in {Todo[j] : j \in {j \in DOMAIN Todo : Todo[j] # "time"}}
                             <=> c \in Connecting /\ c \in Range(Todo)
    BY <2>2, <2>3 DEF Range
  <2>. QED
    BY <2>1, <2>4
<1>3. TypeOK'
  <2>1. dropped' \subseteq Connecting
    BY <1>1, <1>2 DEF TypeOK
  <2>2. child' \in Seq(Seq({"time"} \cup Connecting)) /\ Len(child') <= MaxProc
    BY <1>1 DEF TypeOK
  <2>. QED
    BY <1>1, <2>1, <2>2, RoundInv DEF TypeOK
<1>4. InWork' /\ Unforked' /\ InLine' /\ Selected' /\ TimeLine'
  BY <1>1, RoundInv DEF InWork, Unforked
<1>5. \A c \in Connecting : /\ Waits(c)' <=> Waits(c) /\ ~Moved(c)
                            /\ Moved(c) => Waits(c)
                            /\ Holders(c)' = Holders(c)
                            /\ c \in dropped' <=> c \in dropped \/ Moved(c)
  <2>1. \A c : Holders(c)' = Holders(c)
    BY DEF Holders
  <2>. QED
    BY <1>1, <1>2, <2>1, MovedQueues
<1>6. OnePlace'
  <2>1. ASSUME NEW c \in Connecting PROVE AtOnePlace(c)'
    <3>1. AtOnePlace(c)
      BY DEF IInv, Placed, OnePlace
    <3>2. cst'[c] = cst[c] /\ (Kept(c)' <=> Kept(c))
      BY <1>1, <1>5 DEF Kept
    <3>. QED
      BY <1>5, <3>1, <3>2 DEF AtOnePlace
  <2>. QED
    BY <2>1 DEF OnePlace
<1>7. Counted'
  <2>. SUFFICES ASSUME ~typed', EnoughRoom'
                PROVE  Len(child') <= Cardinality(AtTime') + Cardinality(Settled')
    BY DEF Counted
  <2>1. ~typed /\ EnoughRoom
    BY <1>1, MovedQueues
  <2>2. Len(child) <= Cardinality(AtTime) + Cardinality(Settled)
    BY <2>1 DEF IInv, Counted
  <2>3. Settled \subseteq Settled' /\ Settled \in SUBSET Client /\ Settled' \in SUBSET Client
    <3>1. Settled \in SUBSET Client /\ Settled' \in SUBSET Client
      BY Ports DEF Settled
    <3>2. Settled \subseteq Settled'
      BY <1>1, <1>5 DEF Settled
    <3>. QED
      BY <3>1, <3>2
  <2>4. Cardinality(Settled) <= Cardinality(Settled')
    BY <2>3, ClientsFinite, FS_Subset
  <2>5. AtTime' = AtTime
    BY DEF AtTime, Doing
  <2>6. /\ Cardinality(Settled) \in Nat /\ Cardinality(Settled') \in Nat
        /\ Cardinality(AtTime) \in Nat /\ Len(child) \in Nat
    BY <1>1, <2>3, ClientsFinite, TimeFinite DEF TypeOK
  <2>. QED
    BY <2>2, <2>4, <2>5, <2>6
<1>. QED
  BY <1>3, <1>4, <1>6, <1>7 DEF IInv, Placed

LEMMA ForkInv ==
  ASSUME IInv, Fork
  PROVE  IInv'
<1>1. Moving
  BY DEF Fork, Moving, clientVars
<1>2. CASE Len(child) < MaxProc /\ child' = Append(child, Todo) /\ UNCHANGED dropped
  BY <1>1, <1>2, ForkedInv
<1>3. CASE /\ Len(child) = MaxProc
           /\ dropped' = dropped \cup {Todo[j] : j \in {j \in DOMAIN Todo : Todo[j] # "time"}}
           /\ UNCHANGED child
  BY <1>1, <1>3, UnforkedInv
<1>. QED
  BY <1>2, <1>3 DEF Fork

LEMMA StepInv == IInv /\ [Next]_vars => IInv'
<1>. SUFFICES ASSUME IInv, [Next]_vars PROVE IInv'
  OBVIOUS
<1>1. ASSUME NEW c \in Client, AskTime(c) \/ Connect(c) \/ SendLine(c) \/ Kill(c)
      PROVE  IInv'
  BY <1>1, AskTimeInv, ConnectInv, UserInv
<1>2. CASE TypeAtServer \/ UNCHANGED vars
  BY <1>2, TypeAtServerInv
<1>3. CASE Select \/ Fork
  BY <1>3, SelectInv, ForkInv
<1>4. ASSUME NEW k \in 1 .. MaxProc, Child(k) PROVE IInv'
  BY <1>4, TimeServiceInv, ConnectionServiceInv DEF Child
<1>. QED
  BY <1>1, <1>2, <1>3, <1>4 DEF Next

-----------------------------------------------------------------------------
(* A set with at most one element. *)
LEMMA AtMostOne ==
  ASSUME NEW S, \A x, y \in S : x = y
  PROVE  /\ S = {} => Cardinality(S) = 0
         /\ S # {} => Cardinality(S) = 1
<1>1. S = {} => Cardinality(S) = 0
  BY FS_EmptySet
<1>2. ASSUME S # {} PROVE Cardinality(S) = 1
  <2>1. PICK x : S = {x}
    BY <1>2
  <2>. QED
    BY <2>1, FS_Singleton
<1>. QED
  BY <1>1, <1>2

LEMMA PlacesOf ==
  ASSUME IInv, NEW c \in Connecting
  PROVE  Places(c) = (IF Waits(c) THEN 1 ELSE 0) + (IF Kept(c) THEN 1 ELSE 0)
                       + (IF c \in dropped THEN 1 ELSE 0)
<1>1. IsInjective(listenQ[ServiceOf(c)]) /\ AtOnePlace(c)
  BY Ports DEF IInv, Placed, InLine, OnePlace
<1>2. \A j, k \in Queued(c) : j = k
  BY <1>1 DEF IsInjective, Queued
<1>3. Waits(c) <=> Queued(c) # {}
  BY DEF Waits, Queued, Range
<1>4. Cardinality(Queued(c)) = IF Waits(c) THEN 1 ELSE 0
  BY <1>2, <1>3, AtMostOne
<1>5. Cardinality(Holders(c)) = IF Kept(c) THEN 1 ELSE 0
  BY <1>1, AtMostOne DEF AtOnePlace, Kept
<1>. QED
  BY <1>4, <1>5 DEF Places

(* With as many children as clients those that still have to serve time    *)
(* are as many as the datagrams: the clients they stand for are not        *)
(* settled.                                                                *)
LEMMA TimeLeft ==
  ASSUME IInv, ~typed, EnoughRoom, Cardinality(Client) <= MaxProc, Len(child) = MaxProc
  PROVE  Cardinality(AtTime) >= Len(timeQ)
<1>. DEFINE U == Client \ Settled
<1>1. timeQ \in Seq(TimeClient) /\ Len(timeQ) \in Nat /\ MaxProc \in Nat
  BY SuperServerAssumption DEF IInv, Placed, TypeOK
<1>2. Settled \in SUBSET Client /\ IsFiniteSet(Client) /\ Cardinality(Client) \in Nat
  BY ClientsFinite, Ports DEF Settled
<1>3. IsFiniteSet(Settled) /\ Cardinality(Settled) \in Nat
  BY <1>2, ClientsFinite
<1>4. Cardinality(U) = Cardinality(Client) - Cardinality(Settled) /\ IsFiniteSet(U)
  <2>1. Client \cap Settled = Settled
    BY <1>2
  <2>. QED
    BY <1>2, <2>1, FS_Difference
<1>5. Len(timeQ) <= Cardinality(U)
  <2>1. \A j \in 1 .. Len(timeQ) : timeQ[j] \in Range(timeQ) /\ timeQ[j] \in TimeClient
    BY <1>1 DEF Range
  <2>2. \A c \in Range(timeQ) : cst[c] = "sent"
    BY DEF IInv, TimeLine
  <2>3. \A j \in 1 .. Len(timeQ) : timeQ[j] \in U
    BY <2>1, <2>2, Ports DEF Settled
  <2>4. timeQ \in [1 .. Len(timeQ) -> U]
    BY <1>1, <2>3
  <2>5. timeQ \in Injection(1 .. Len(timeQ), U)
    BY <1>1, <2>4 DEF Injection, IsInjective, IInv, TimeLine
  <2>6. Cardinality(1 .. Len(timeQ)) <= Cardinality(U)
    BY <1>4, <2>5, FS_Injection
  <2>7. Cardinality(1 .. Len(timeQ)) = Len(timeQ)
    <3>1. ASSUME NEW n \in Nat PROVE Cardinality(1 .. n) = n
      <4>1. 1 \in Int /\ n \in Int
        OBVIOUS
      <4>2. Cardinality(1 .. n) = IF 1 > n THEN 0 ELSE n - 1 + 1
        BY <4>1, FS_Interval
      <4>. QED
        BY <4>2
    <3>. QED
      BY <1>1, <3>1
  <2>. QED
    BY <2>6, <2>7
<1>6. Len(child) <= Cardinality(AtTime) + Cardinality(Settled)
  BY DEF IInv, Counted
<1>7. Cardinality(AtTime) \in Nat
  BY TimeFinite DEF IInv, Placed
<1>. HIDE DEF U
<1>. QED
  BY <1>1, <1>2, <1>3, <1>4, <1>5, <1>6, <1>7

(* A connection that is not answered is in one place of superServer.c: the *)
(* queue of its port, one child, or a parent that could not fork.  And if  *)
(* nobody types, the descriptors suffice and fork() can succeed once per   *)
(* client, as many children are left to serve time as there are datagrams  *)
(* to read, though select() may have reported one of them several times.   *)
THEOREM ConnectionsHeldOnce == Spec => []HeldOnce
<1>1. ASSUME IInv PROVE HeldOnce
  <2>1. ASSUME NEW c \in Connecting
        PROVE  /\ cst[c] \in {"connected", "sent"} => Places(c) = 1
               /\ cst[c] \in {"new", "answered"} => Places(c) = 0
               /\ cst[c] = "gone" => Places(c) <= 1
               /\ c \in dropped => Len(child) = MaxProc
    <3>1. AtOnePlace(c) /\ (c \in dropped => Len(child) = MaxProc)
      BY <1>1 DEF IInv, Placed, OnePlace, Unforked
    <3>2. Places(c) = (IF Waits(c) THEN 1 ELSE 0) + (IF Kept(c) THEN 1 ELSE 0)
                         + (IF c \in dropped THEN 1 ELSE 0)
      BY <1>1, PlacesOf
    <3>3. cst[c] \in {"connected", "sent"} => Places(c) = 1
      BY <3>1, <3>2 DEF AtOnePlace
    <3>4. cst[c] \in {"new", "answered"} => Places(c) = 0
      BY <3>1, <3>2 DEF AtOnePlace
    <3>5. Places(c) <= 1
      BY <3>1, <3>2 DEF AtOnePlace
    <3>. QED
      BY <3>1, <3>3, <3>4, <3>5
  <2>2. ~typed /\ EnoughRoom /\ Cardinality(Client) <= MaxProc /\ Len(child) = MaxProc =>
          Cardinality({k \in DOMAIN child : Doing(k) = "time"}) >= Len(timeQ)
    <3>. SUFFICES ASSUME ~typed, EnoughRoom, Cardinality(Client) <= MaxProc, Len(child) = MaxProc
                  PROVE  Cardinality({k \in DOMAIN child : Doing(k) = "time"}) >= Len(timeQ)
      OBVIOUS
    <3>1. Cardinality(AtTime) >= Len(timeQ)
      BY <1>1, TimeLeft
    <3>. QED
      BY <3>1 DEF AtTime
  <2>. QED
    BY <1>1, <2>1, <2>2 DEF HeldOnce, IInv, Placed
<1>2. Init /\ [][Next]_vars => []IInv
  BY InitInv, StepInv, PTL
<1>. QED
  BY <1>1, <1>2, PTL DEF Spec
=============================================================================
